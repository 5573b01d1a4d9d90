------------------------------- MODULE Store -------------------------------
(***************************************************************************)
(* Where every operation ends: the SQLite adapter, one connection that all *)
(* requests share, behind the read-through cache (db-sqlite/index.ts,      *)
(* cache.ts).  Transactions take turns; a plain read or write does not     *)
(* wait for them, and runs inside whichever is open.                       *)
(*                                                                         *)
(* One cached collection.  A row's content is the number of the write that *)
(* made it, so 0 is the row as it was, and a later write is a larger one.  *)
(***************************************************************************)
EXTENDS Naturals, Sequences

CONSTANTS
  Rows,
  Clients,      (* requests                                                *)
  MaxWrites,    (* bound: writes, over the whole behaviour                 *)
  MaxCrashes,   (* bound: crashes                                          *)
  None

ASSUME StoreAssumption ==
  MaxWrites \in Nat /\ MaxCrashes \in Nat /\ None \notin Nat \union Rows \union Clients

VARIABLES
  live,         (* the rows as the connection sees them                    *)
  saved,        (* the rows as ROLLBACK restores them; Closed when none     *)
  open,         (* whose transaction is open                               *)
  waiting,      (* transactions behind the tail promise, in order          *)
  cache,        (* findByID entries                                        *)
  client,       (* where each request is                                   *)
  writes,       (* writes so far                                           *)
  failed,       (* writes of transactions that were rolled back            *)
  raced,        (* rows whose entry was out of date when it was stored     *)
  crashes

vars == <<live, saved, open, waiting, cache, client, writes, failed, raced, crashes>>
dbVars == <<live, saved, open, waiting, writes, failed>>
cacheVars == <<cache, raced>>

Write == 1..MaxWrites
Content == 0..MaxWrites
Unread == [row |-> None, content |-> 0]
Idle == [step |-> "idle", row |-> None, content |-> 0, wrote |-> [r \in Rows |-> 0], seen |-> Unread]

Closed == [r \in Rows |-> 0]

(* What is in the database for good.                                       *)
Committed(r) == IF open = None THEN live[r] ELSE saved[r]

WrittenBy(c) == {client[c].wrote[r] : r \in Rows} \ {0}

Init ==
  /\ live = Closed /\ saved = Closed
  /\ open = None /\ waiting = <<>>
  /\ cache = [r \in Rows |-> None]
  /\ client = [c \in Clients |-> Idle]
  /\ writes = 0 /\ failed = {} /\ raced = {} /\ crashes = 0

-----------------------------------------------------------------------------
(* readThrough, outside a transaction.  A hit changes nothing.             *)

Miss(c) ==
  /\ client[c].step = "idle"
  /\ \E r \in Rows : /\ cache[r] = None
                     /\ client' = [client EXCEPT ![c] = [Idle EXCEPT !.step = "missed", !.row = r]]
  /\ UNCHANGED <<dbVars, cacheVars, crashes>>

Find(c) ==
  /\ client[c].step = "missed"
  /\ client' = [client EXCEPT ![c].step = "found", ![c].content = live[client[c].row]]
  /\ UNCHANGED <<dbVars, cacheVars, crashes>>

Set(c) ==
  LET r == client[c].row
  IN  /\ client[c].step = "found"
      /\ cache' = [cache EXCEPT ![r] = client[c].content]
      /\ raced' = IF client[c].content \in {live[r]} \intersect {Committed(r)}
                  THEN raced \ {r} ELSE raced \union {r}
      /\ client' = [client EXCEPT ![c] = Idle]
      /\ UNCHANGED <<dbVars, crashes>>

(* A full cache drops its oldest entry; a lifetime, if any, runs out.      *)
Evict(r) ==
  /\ cache[r] # None
  /\ cache' = [cache EXCEPT ![r] = None] /\ raced' = raced \ {r}
  /\ UNCHANGED <<dbVars, client, crashes>>

-----------------------------------------------------------------------------
(* A plain write, then the invalidation of its collection.                 *)

Put(c) ==
  /\ client[c].step = "idle" /\ writes < MaxWrites
  /\ writes' = writes + 1
  /\ \E r \in Rows : live' = [live EXCEPT ![r] = writes']
  /\ client' = [client EXCEPT ![c].step = "written"]
  /\ UNCHANGED <<saved, open, waiting, failed, cacheVars, crashes>>

(* Variant: a collection written in a transaction is not invalidated.      *)
OnlyPlain(c) == client[c].step = "written"

Invalidates(c) ==
  \/ client[c].step = "written"
  \/ client[c].step = "committed" /\ \E r \in Rows : client[c].wrote[r] # 0

Finish(c) ==
  /\ client[c].step \in {"written", "committed"}
  /\ IF Invalidates(c) THEN cache' = [r \in Rows |-> None] /\ raced' = {} ELSE UNCHANGED cacheVars
  /\ client' = [client EXCEPT ![c] = Idle]
  /\ UNCHANGED <<dbVars, crashes>>

-----------------------------------------------------------------------------
(* Transactions.                                                           *)

Ask(c) ==
  /\ client[c].step = "idle"
  /\ waiting' = Append(waiting, c)
  /\ client' = [client EXCEPT ![c].step = "queued"]
  /\ UNCHANGED <<live, saved, open, writes, failed, cacheVars, crashes>>

(* Variant: a transaction that failed breaks the chain.                    *)
AfterSuccess(c) == open = None /\ waiting # <<>> /\ Head(waiting) = c /\ failed = {}

HasTurn(c) == open = None /\ waiting # <<>> /\ Head(waiting) = c

Begin(c) ==
  /\ HasTurn(c)
  /\ waiting' = Tail(waiting) /\ open' = c /\ saved' = live
  /\ client' = [client EXCEPT ![c].step = "inside"]
  /\ UNCHANGED <<live, writes, failed, cacheVars, crashes>>

(* Variant: reads inside go through the cache, too.                        *)
TxThrough(r) == IF cache[r] = None THEN live[r] ELSE cache[r]

TxRead(r) == live[r]

TxGet(c) ==
  /\ client[c].step = "inside"
  /\ \E r \in Rows : client' = [client EXCEPT ![c].seen = [row |-> r, content |-> TxRead(r)]]
  /\ UNCHANGED <<dbVars, cacheVars, crashes>>

TxPut(c) ==
  /\ client[c].step = "inside" /\ writes < MaxWrites
  /\ writes' = writes + 1
  /\ \E r \in Rows : /\ live' = [live EXCEPT ![r] = writes']
                     /\ client' = [client EXCEPT ![c].wrote[r] = writes', ![c].seen = Unread]
  /\ UNCHANGED <<saved, open, waiting, failed, cacheVars, crashes>>

Commit(c) ==
  /\ client[c].step = "inside"
  /\ open' = None /\ saved' = Closed
  /\ client' = [client EXCEPT ![c].step = "committed", ![c].seen = Unread]
  /\ UNCHANGED <<live, waiting, writes, failed, cacheVars, crashes>>

(* Variant: what was written stays.                                        *)
Kept == live

Restored == saved

(* The transaction's function throws; nothing is invalidated.              *)
Rollback(c) ==
  /\ client[c].step = "inside"
  /\ open' = None /\ live' = Restored /\ saved' = Closed
  /\ failed' = failed \union WrittenBy(c)
  /\ client' = [client EXCEPT ![c] = Idle]
  /\ UNCHANGED <<waiting, writes, cacheVars, crashes>>

(* The process dies: the cache and the queue with it, and the database     *)
(* drops the open transaction.                                             *)
Crash ==
  /\ crashes < MaxCrashes /\ crashes' = crashes + 1
  /\ open # None \/ \E c \in Clients : client[c] # Idle
  /\ live' = [r \in Rows |-> Committed(r)] /\ saved' = Closed /\ open' = None /\ waiting' = <<>>
  /\ cache' = [r \in Rows |-> None] /\ raced' = {}
  /\ client' = [c \in Clients |-> Idle]
  /\ failed' = failed \union UNION {WrittenBy(c) : c \in Clients \intersect {open}}
  /\ UNCHANGED writes

Inside(c) == TxGet(c) \/ TxPut(c) \/ Commit(c) \/ Rollback(c)

Next ==
  \/ \E c \in Clients : Miss(c) \/ Find(c) \/ Set(c) \/ Put(c) \/ Finish(c) \/ Ask(c) \/ Begin(c) \/ Inside(c)
  \/ \E r \in Rows : Evict(r)
  \/ Crash

Spec == Init /\ [][Next]_vars

(* A transaction's function returns or throws.                             *)
FairSpec ==
  /\ Spec
  /\ \A c \in Clients : WF_vars(Begin(c)) /\ WF_vars(Finish(c)) /\ WF_vars(Commit(c) \/ Rollback(c))

-----------------------------------------------------------------------------
(* Properties.                                                             *)

TypeOK ==
  /\ live \in [Rows -> Content] /\ saved \in [Rows -> Content]
  /\ open \in Clients \union {None}
  /\ waiting \in Seq(Clients)
  /\ cache \in [Rows -> Content \union {None}] /\ raced \subseteq Rows
  /\ client \in [Clients -> [step: {"idle", "missed", "found", "written", "queued", "inside", "committed"},
                             row: Rows \union {None}, content: Content, wrote: [Rows -> Content],
                             seen: [row: Rows \union {None}, content: Content]]]
  /\ writes \in Content /\ failed \subseteq Write /\ crashes \in 0..MaxCrashes

(* A transaction that failed leaves no row of its own behind, whatever     *)
(* other requests and transactions did around it.                          *)
NoTrace == \A r \in Rows : Committed(r) \notin failed

(* A transaction reads its own writes and nothing older than its start.    *)
TxReadsCurrent ==
  \A c \in Clients, r \in Rows :
    client[c].step = "inside" /\ client[c].seen.row = r =>
      client[c].seen.content >= saved[r] /\ client[c].seen.content >= client[c].wrote[r]

(* The cache serves what is committed, once the writes that replaced it    *)
(* have invalidated it: an entry is wrong only if it was when it was       *)
(* stored, its read having raced a write or read from an open transaction. *)
FreshUnlessRaced ==
  \A r \in Rows : \/ cache[r] \in {None, Committed(r)} \/ r \in raced
                  \/ \E c \in Clients : client[c].step \in {"written", "committed"}

(* Every transaction that asked gets its turn, if none hangs and no crash  *)
(* ends it.                                                                *)
EveryTurnComes == \A c \in Clients : client[c].step = "queued" ~> client[c].step # "queued"
=============================================================================
