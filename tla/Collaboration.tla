---------------------------- MODULE Collaboration ----------------------------
(***************************************************************************)
(* Advisory locks and editor presence on one document                      *)
(* (operations/collaboration.ts).  Both are rows with a time in them that  *)
(* a call reads, awaits, and then writes without a condition: the lock row *)
(* is shared by all principals, a presence row belongs to one.             *)
(*                                                                         *)
(* A time of 0 is "never"; the clock starts at 1.                          *)
(***************************************************************************)
EXTENDS Naturals

CONSTANTS
  Principals,
  Admins,        (* principals with the admin role                         *)
  Calls,         (* calls in flight                                        *)
  AskedTTL,      (* the lifetimes callers ask for, any number              *)
  MaxTTL,        (* longest lifetime of a lock (a day)                     *)
  Windows,       (* the windows in which callers count a heartbeat         *)
  MaxTime,       (* bound: the clock                                       *)
  None

CollaborationAssumption ==
  /\ Admins \subseteq Principals /\ AskedTTL \subseteq Nat
  /\ Windows \subseteq Nat \ {0} /\ MaxTTL \in Nat \ {0} /\ MaxTime \in Nat \ {0}
  /\ None \notin [holder: Principals, expires: Nat] /\ None \notin Principals

VARIABLES
  now,
  lock,          (* the _locks row of the document, or None                *)
  seen,          (* lastSeen of each principal's _presence row, 0 if none  *)
  call,          (* what each call in flight has read and will do          *)
  believes,      (* until when each principal was told the lock is its own *)
  beat,          (* when each principal's last heartbeat was stored        *)
  crossed        (* "lock", or a principal: whose row changed under a call *)

vars == <<now, lock, seen, call, believes, beat, crossed>>

Lock == [holder: Principals, expires: Nat]
Steps == {"idle", "acquire", "acquired", "release", "beat", "prune"}
Idle == [step |-> "idle", who |-> None, at |-> 0, ttl |-> 0, read |-> None, rows |-> {}]

Init ==
  /\ now = 1 /\ lock = None /\ crossed = {}
  /\ seen = [p \in Principals |-> 0]
  /\ call = [c \in Calls |-> Idle]
  /\ believes = [p \in Principals |-> 0] /\ beat = [p \in Principals |-> 0]

Tick == now < MaxTime /\ now' = now + 1 /\ UNCHANGED <<lock, seen, call, believes, beat, crossed>>

Becomes(c, r) == call' = [call EXCEPT ![c] = r]

-----------------------------------------------------------------------------
(* Locks.                                                                  *)

InForce(l, t) == l # None /\ l.expires > t

Clamped(ttl) == IF ttl < 1 THEN 1 ELSE IF ttl > MaxTTL THEN MaxTTL ELSE ttl

(* Each call takes the time, then reads the row.                           *)
AcquireBegin(c) ==
  /\ call[c].step = "idle"
  /\ \E p \in Principals, ttl \in AskedTTL :
       /\ ~ (InForce(lock, now) /\ lock.holder # p)     (* else "held by other" *)
       /\ Becomes(c, [Idle EXCEPT !.step = "acquire", !.who = p, !.at = now, !.ttl = Clamped(ttl), !.read = lock])
  /\ UNCHANGED <<now, lock, seen, believes, beat, crossed>>

(* An update of a row that is gone writes nothing; an insert of one that   *)
(* is there fails, and ends the call.                                      *)
AcquireWrite(c) ==
  LET r == call[c]  new == [holder |-> r.who, expires |-> r.at + r.ttl]
  IN  /\ r.step = "acquire"
      /\ crossed' = IF lock # r.read THEN crossed \union {"lock"} ELSE crossed
      /\ IF (r.read = None) = (lock = None)
         THEN lock' = new /\ Becomes(c, [r EXCEPT !.step = "acquired", !.read = new])
         ELSE /\ Becomes(c, IF r.read = None THEN Idle ELSE [r EXCEPT !.step = "acquired", !.read = new])
              /\ UNCHANGED lock
      /\ UNCHANGED <<now, seen, believes, beat>>

(* The caller is told "you" and shown the row as it is now, or, if it is   *)
(* gone, as it was to be.                                                  *)
Acquired(c) ==
  LET r == call[c]  shown == IF lock = None THEN r.read ELSE lock
  IN  /\ r.step = "acquired"
      /\ believes' = [believes EXCEPT ![r.who] = shown.expires]
      /\ crossed' = IF lock # r.read THEN crossed \union {"lock"} ELSE crossed
      /\ Becomes(c, Idle)
      /\ UNCHANGED <<now, lock, seen, beat>>

(* Variant: nobody asks whose lock it is.                                  *)
AnyoneMay(p) == TRUE

MayRelease(p) == InForce(lock, now) => p = lock.holder \/ p \in Admins

ReleaseBegin(c) ==
  /\ call[c].step = "idle" /\ lock # None
  /\ \E p \in Principals : /\ MayRelease(p)
                           /\ Becomes(c, [Idle EXCEPT !.step = "release", !.who = p, !.read = lock])
  /\ UNCHANGED <<now, lock, seen, believes, beat, crossed>>

(* The delete is by id: it takes whatever row is there.  What an admin     *)
(* releases, its holder is not supposed to keep.                           *)
ReleaseWrite(c) ==
  LET r == call[c]
  IN  /\ r.step = "release"
      /\ lock' = None
      /\ believes' = [p \in Principals |-> IF p = r.who \/ r.who \in Admins THEN 0 ELSE believes[p]]
      /\ crossed' = IF lock # r.read THEN crossed \union {"lock"} ELSE crossed
      /\ Becomes(c, Idle)
      /\ UNCHANGED <<now, seen, beat>>

-----------------------------------------------------------------------------
(* Presence.                                                               *)

HeartbeatBegin(c) ==
  /\ call[c].step = "idle"
  /\ \E p \in Principals :
       Becomes(c, [Idle EXCEPT !.step = "beat", !.who = p, !.at = now, !.ttl = seen[p]])
  /\ UNCHANGED <<now, lock, seen, believes, beat, crossed>>

(* An update that finds no row, and an insert that finds one, store        *)
(* nothing.                                                                *)
HeartbeatWrite(c) ==
  LET r == call[c]  lands == (r.ttl = 0) = (seen[r.who] = 0)
  IN  /\ r.step = "beat"
      /\ seen' = IF lands THEN [seen EXCEPT ![r.who] = r.at] ELSE seen
      /\ beat' = [beat EXCEPT ![r.who] = r.at]
      /\ crossed' = IF seen[r.who] # r.ttl THEN crossed \union {r.who} ELSE crossed
      /\ Becomes(c, Idle)
      /\ UNCHANGED <<now, lock, believes>>

(* Variant: the window is closed on the wrong side.                        *)
AsOldAsTheWindow(w) == {p \in Principals : seen[p] # 0 /\ seen[p] + w <= now}

Stale(w) == {p \in Principals : seen[p] # 0 /\ seen[p] + w < now}

(* getPresence: rows too old for its caller's window are deleted one by    *)
(* one, for everybody.                                                     *)
PresenceFind(c) ==
  /\ call[c].step = "idle"
  /\ \E w \in Windows :
       /\ Stale(w) # {}
       /\ Becomes(c, [Idle EXCEPT !.step = "prune", !.rows = {[who |-> p, at |-> seen[p]] : p \in Stale(w)}])
  /\ UNCHANGED <<now, lock, seen, believes, beat, crossed>>

Prune(c) ==
  /\ call[c].step = "prune"
  /\ \E row \in call[c].rows :
       /\ seen' = [seen EXCEPT ![row.who] = 0]
       /\ crossed' = IF seen[row.who] # row.at THEN crossed \union {row.who} ELSE crossed
       /\ Becomes(c, IF call[c].rows = {row} THEN Idle ELSE [call[c] EXCEPT !.rows = @ \ {row}])
  /\ UNCHANGED <<now, lock, believes, beat>>

-----------------------------------------------------------------------------

Locking(c) == AcquireBegin(c) \/ AcquireWrite(c) \/ Acquired(c) \/ ReleaseBegin(c) \/ ReleaseWrite(c)
Presence(c) == HeartbeatBegin(c) \/ HeartbeatWrite(c) \/ PresenceFind(c) \/ Prune(c)

(* The two tables meet nowhere.                                            *)
LockNext == Tick \/ \E c \in Calls : Locking(c)
PresenceNext == Tick \/ \E c \in Calls : Presence(c)

Next == LockNext \/ PresenceNext

Spec == Init /\ [][Next]_vars

-----------------------------------------------------------------------------
(* Properties.                                                             *)

Time == 0..MaxTime
Call == [step: Steps, who: Principals \union {None}, at: Time, ttl: Nat,
         read: Lock \union {None}, rows: SUBSET [who: Principals, at: Time]]

TypeOK ==
  /\ now \in 1..MaxTime
  /\ lock \in Lock \union {None} /\ seen \in [Principals -> Time]
  /\ call \in [Calls -> Call]
  /\ believes \in [Principals -> Nat] /\ beat \in [Principals -> Time]
  /\ crossed \subseteq {"lock"} \union Principals

Settled(p) == \A c \in Calls : call[c].who = p => call[c].step \notin {"acquire", "acquired", "release"}

(* Whoever was told the document is its own to edit, and has not been      *)
(* overruled by an admin, is the one holder the lock row names, for at     *)
(* least as long - unless the row changed between the steps of some call,  *)
(* as it may, because none of them locks it.                               *)
OneHolder ==
  "lock" \notin crossed =>
    \A p \in Principals :
      Settled(p) /\ believes[p] > now => lock # None /\ lock.holder = p /\ lock.expires >= believes[p]

(* An editor whose heartbeat is younger than every window callers count is *)
(* present to all of them, whoever prunes, unless its row changed under a  *)
(* call that had read it.                                                  *)
PresentIsListed ==
  \A p \in Principals \ crossed :
    beat[p] # 0 /\ (\A w \in Windows : beat[p] + w >= now) => seen[p] = beat[p]
=============================================================================
