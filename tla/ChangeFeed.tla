----------------------------- MODULE ChangeFeed -----------------------------
(***************************************************************************)
(* The change feed (realtime.ts): a hook after each content write takes    *)
(* the next number of an in-process counter, stores a row for the write in *)
(* _changes and trims the table to its retain newest rows.                 *)
(*                                                                         *)
(* The documents are reduced to what a subscriber's standing query says of *)
(* them.  The bus that tells listeners of this process is left out: it     *)
(* keeps nothing.                                                          *)
(***************************************************************************)
EXTENDS Naturals, FiniteSets

CONSTANTS
  Docs,
  Writers,      (* requests that write documents                           *)
  Retain,       (* rows the feed keeps                                     *)
  MaxWriters,   (* bound: writes in flight at once                         *)
  MaxSeq,       (* bound: numbers the counter hands out                    *)
  MaxCrashes,   (* bound: crashes                                          *)
  None

VARIABLES
  docs,         (* what the standing query says of each document           *)
  changes,      (* the _changes rows                                       *)
  counter,      (* the sequence counter, in memory                         *)
  writer,       (* where each write's hook is                              *)
  stored,       (* numbers of all rows ever stored                         *)
  crashes

feedVars == <<docs, changes, counter, writer, stored, crashes>>

Verdicts == {"unborn", "match", "other", "gone"}
Events == {"create", "update", "delete"}
Change == [seq: 1..MaxSeq, doc: Docs, event: Events]

Idle == [step |-> "idle", change |-> None, excess |-> 0, victims |-> {}]
HookSteps == {"idle", "committed", "numbered", "stored", "counted", "trimming"}
Hook == [step: HookSteps,
         change: [doc: Docs, event: Events] \union Change \union {None},
         excess: Nat, victims: SUBSET Change]

ASSUME ChangeFeedAssumption ==
  /\ {MaxWriters, MaxSeq, MaxCrashes} \subseteq Nat /\ Retain \in Nat \ {0}
  /\ IsFiniteSet(Writers)

FeedInit ==
  /\ docs = [d \in Docs |-> "unborn"]
  /\ changes = {} /\ counter = 0 /\ stored = {}
  /\ writer = [w \in Writers |-> Idle]
  /\ crashes = 0

Busy == {w \in Writers : writer[w].step # "idle"}

(* The oldest n of the rows, or all of them.                               *)
Oldest(rows, n) == {r \in rows : Cardinality({q \in rows : q.seq < r.seq}) < n}

AtMost(n, limit) == IF n < limit THEN n ELSE limit

TopSeq == IF changes = {} THEN 0 ELSE (CHOOSE r \in changes : \A q \in changes : q.seq <= r.seq).seq

-----------------------------------------------------------------------------
(* A write commits; its hook runs afterwards.  An id is never used again.  *)
EventOf(d, verdict) ==
  IF docs[d] = "unborn" THEN "create" ELSE IF verdict = "gone" THEN "delete" ELSE "update"

WriteDoc(w) ==
  /\ writer[w].step = "idle" /\ Cardinality(Busy) < MaxWriters
  /\ counter + Cardinality(Busy) < MaxSeq
  /\ \E d \in Docs, verdict \in {"match", "other", "gone"} :
       /\ docs[d] # "gone" /\ (docs[d] = "unborn" => verdict # "gone")
       /\ docs' = [docs EXCEPT ![d] = verdict]
       /\ writer' = [writer EXCEPT ![w] = [Idle EXCEPT
            !.step = "committed", !.change = [doc |-> d, event |-> EventOf(d, verdict)]]]
  /\ UNCHANGED <<changes, counter, stored, crashes>>

(* The number is taken before the insert is awaited.                       *)
Number(w) ==
  /\ writer[w].step = "committed"
  /\ counter' = counter + 1
  /\ writer' = [writer EXCEPT ![w].step = "numbered",
       ![w].change = [seq |-> counter + 1, doc |-> @.doc, event |-> @.event]]
  /\ UNCHANGED <<docs, changes, stored, crashes>>

StoreChange(w) ==
  /\ writer[w].step = "numbered"
  /\ changes' = changes \union {writer[w].change}
  /\ stored' = stored \union {writer[w].change.seq}
  /\ writer' = [writer EXCEPT ![w].step = "stored"]
  /\ UNCHANGED <<docs, counter, crashes>>

(* The insert fails: that is logged, and the write stands.                 *)
StoreFails(w) ==
  /\ writer[w].step = "numbered"
  /\ writer' = [writer EXCEPT ![w] = Idle]
  /\ UNCHANGED <<docs, changes, counter, stored, crashes>>

(* Variant: one row too many is dropped.                                   *)
ExcessByOne(total) == IF total >= Retain THEN total - Retain + 1 ELSE 0

Excess(total) == IF total > Retain THEN total - Retain ELSE 0

TrimCount(w) ==
  LET excess == Excess(Cardinality(changes))
  IN  /\ writer[w].step = "stored"
      /\ writer' = [writer EXCEPT ![w] = IF excess = 0 THEN Idle
                                         ELSE [@ EXCEPT !.step = "counted", !.excess = excess]]
      /\ UNCHANGED <<docs, changes, counter, stored, crashes>>

Victims(n) == Oldest(changes, n)

TrimFind(w) ==
  /\ writer[w].step = "counted"
  /\ writer' = [writer EXCEPT ![w].step = "trimming", ![w].victims = Victims(writer[w].excess)]
  /\ UNCHANGED <<docs, changes, counter, stored, crashes>>

TrimDelete(w) ==
  /\ writer[w].step = "trimming"
  /\ \E r \in writer[w].victims :
       /\ \A q \in writer[w].victims : r.seq <= q.seq
       /\ changes' = changes \ {r}
       /\ writer' = [writer EXCEPT ![w] = IF writer[w].victims = {r} THEN Idle
                                         ELSE [writer[w] EXCEPT !.victims = @ \ {r}]]
  /\ UNCHANGED <<docs, counter, stored, crashes>>

FeedStep(w) == Number(w) \/ StoreChange(w) \/ StoreFails(w) \/ TrimCount(w) \/ TrimFind(w) \/ TrimDelete(w)

(* The process dies, and its counter starts again from the table.          *)
FeedCrash ==
  /\ crashes < MaxCrashes /\ crashes' = crashes + 1
  /\ counter' = TopSeq
  /\ writer' = [w \in Writers |-> Idle]
  /\ UNCHANGED <<docs, changes, stored>>

-----------------------------------------------------------------------------
(* Properties.                                                             *)

FeedTypeOK ==
  /\ docs \in [Docs -> Verdicts]
  /\ changes \subseteq Change /\ stored \subseteq 1..MaxSeq
  /\ counter \in 0..MaxSeq /\ crashes \in Nat
  /\ writer \in [Writers -> Hook]

(* The feed is the newest part of what was stored, and no shorter than     *)
(* Retain unless less was ever stored.                                     *)
FeedIsNewest ==
  /\ \A r \in changes, n \in stored \ {q.seq : q \in changes} : n < r.seq
  /\ Cardinality(changes) >= AtMost(Cardinality(stored), Retain)

=============================================================================
