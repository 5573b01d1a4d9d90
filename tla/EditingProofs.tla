---------------------------- MODULE EditingProofs ----------------------------
EXTENDS Services, FiniteSetTheorems, TLAPS

(***************************************************************************)
(* What editors may rely on, of the parts Services composes: a lock has    *)
(* one holder and an active editor is listed (Collaboration), no staged    *)
(* edit is lost (Branches), the page ends up with the form (Preview).      *)
(* Each part has an inductive invariant of its own (Col..., Bra..., Pre...) *)
(* and a lemma per action; the others leave its variables alone.           *)
(***************************************************************************)

(* What a call that is under way knows, at time t.  A lock that was free,  *)
(* or its own, or one it may release, is so until it expires and after.    *)
ColKnows(e, t) ==
  /\ e.step # "idle" /\ e.step # "prune" => e.who \in Principals
  /\ e.step = "acquire" /\ e.read # None /\ e.read.expires > t => e.read.holder = e.who
  /\ e.step = "acquired" => e.read \in Col!Lock /\ e.read.holder = e.who
  /\ e.step = "release" => /\ e.read \in Col!Lock
                           /\ e.read.expires > t => e.who = e.read.holder \/ e.who \in Admins

ColTyped == Col!TypeOK /\ \A c \in Calls : ColKnows(lockCall[c], lockNow)

(* The principal holds the lock, or the answer to a call of its own is on  *)
(* the way and will say for how long.                                      *)
ColHolds(p) == lock # None /\ lock.holder = p /\ lock.expires >= believes[p]
ColExpects(p) == \E c \in Calls : lockCall[c].who = p /\ lockCall[c].step = "acquired"
ColBelieved == "lock" \notin lockCrossed => \A p \in Principals : believes[p] > lockNow => ColHolds(p) \/ ColExpects(p)

ColIInv == ColTyped /\ ColBelieved

LEMMA ColIdleKnows == Col!CollaborationAssumption => Col!Idle \in Col!Call /\ \A t : ColKnows(Col!Idle, t)
BY DEF Col!CollaborationAssumption, Col!Idle, Col!Call, ColKnows, Col!Steps, Col!Time

LEMMA ColInitIInv == Col!CollaborationAssumption /\ Col!Init => ColIInv
<1> SUFFICES ASSUME Col!CollaborationAssumption, Col!Init PROVE ColIInv
  OBVIOUS
<1>1. lockCall \in [Calls -> Col!Call] /\ \A c \in Calls : ColKnows(lockCall[c], lockNow)
  BY ColIdleKnows DEF Col!Init
<1>2. lockNow \in 1..MaxLockTime /\ seen \in [Principals -> Col!Time] /\ believes \in [Principals -> Nat] /\ beat \in [Principals -> Col!Time]
  BY DEF Col!Init, Col!CollaborationAssumption, Col!Time
<1>3. ColBelieved
  BY DEF Col!Init, ColBelieved
<1> QED BY <1>1, <1>2, <1>3 DEF Col!Init, ColIInv, ColTyped, Col!TypeOK

(* A call goes on, knowing what it must; the others do not.                *)
LEMMA ColGoesOn ==
  ASSUME ColIInv, NEW c \in Calls, NEW e \in Col!Call, Col!Becomes(c, e), ColKnows(e, lockNow), lockNow' = lockNow
  PROVE  /\ lockCall' \in [Calls -> Col!Call] /\ \A d \in Calls : ColKnows(lockCall'[d], lockNow')
         /\ lockCall'[c] = e /\ \A d \in Calls \ {c} : lockCall'[d] = lockCall[d]
<1>1. lockCall \in [Calls -> Col!Call] /\ lockCall' = [lockCall EXCEPT ![c] = e]
  BY DEF ColIInv, ColTyped, Col!TypeOK, Col!Becomes
<1>2. \A d \in Calls : lockCall'[d] = IF d = c THEN e ELSE lockCall[d]
  BY <1>1
<1> QED BY <1>1, <1>2 DEF ColIInv, ColTyped

LEMMA ColStepIInv == Col!CollaborationAssumption /\ ColIInv /\ [Col!Next]_Col!vars => ColIInv'
<1> SUFFICES ASSUME Col!CollaborationAssumption, ColIInv, [Col!Next]_Col!vars PROVE ColIInv'
  OBVIOUS
<1>a. /\ lockNow \in 1..MaxLockTime /\ lock \in Col!Lock \union {None} /\ seen \in [Principals -> Col!Time]
      /\ lockCall \in [Calls -> Col!Call] /\ believes \in [Principals -> Nat] /\ beat \in [Principals -> Col!Time]
      /\ lockCrossed \subseteq {"lock"} \union Principals
      /\ (\A c \in Calls : ColKnows(lockCall[c], lockNow)) /\ ColBelieved
      /\ None \notin Col!Lock /\ None \notin Principals /\ MaxLockTime \in Nat \ {0}
  BY DEF ColIInv, ColTyped, Col!TypeOK, Col!CollaborationAssumption, Col!Lock
<1>q. ASSUME lockNow' \in 1..MaxLockTime, lock' \in Col!Lock \union {None}, seen' \in [Principals -> Col!Time],
             lockCall' \in [Calls -> Col!Call], believes' \in [Principals -> Nat], beat' \in [Principals -> Col!Time],
             lockCrossed' \subseteq {"lock"} \union Principals,
             \A c \in Calls : ColKnows(lockCall'[c], lockNow'), ColBelieved'
      PROVE  ColIInv'
  BY <1>q DEF ColIInv, ColTyped, Col!TypeOK
<1>t. lockNow \in Col!Time /\ \A p \in Principals : seen[p] \in Col!Time /\ believes[p] \in Nat
  BY <1>a DEF Col!Time
(* A call that is not being told a lock begins or ends, and the lock and   *)
(* what is believed of it stay.                                            *)
<1>s. ASSUME NEW c \in Calls, NEW e \in Col!Call, Col!Becomes(c, e), ColKnows(e, lockNow), lockCall[c].step # "acquired",
             UNCHANGED <<lockNow, lock, believes>>, "lock" \in lockCrossed => "lock" \in lockCrossed'
      PROVE  lockCall' \in [Calls -> Col!Call] /\ (\A d \in Calls : ColKnows(lockCall'[d], lockNow')) /\ ColBelieved'
  <2>1. /\ lockCall' \in [Calls -> Col!Call] /\ \A d \in Calls : ColKnows(lockCall'[d], lockNow')
        /\ lockCall'[c] = e /\ \A d \in Calls \ {c} : lockCall'[d] = lockCall[d]
    BY <1>s, ColGoesOn
  <2>2. \A p \in Principals : (ColHolds(p) => ColHolds(p)') /\ (ColExpects(p) => ColExpects(p)')
    BY <1>s, <2>1 DEF ColHolds, ColExpects
  <2> QED BY <1>s, <1>a, <2>1, <2>2 DEF ColBelieved
<1>1. CASE Col!Tick
  <2>1. lockNow' = lockNow + 1 /\ lockNow' \in 1..MaxLockTime /\ UNCHANGED <<lock, seen, lockCall, believes, beat, lockCrossed>>
    BY <1>1, <1>a DEF Col!Tick
  <2>2. \A c \in Calls : ColKnows(lockCall'[c], lockNow')
    <3> SUFFICES ASSUME NEW c \in Calls PROVE ColKnows(lockCall[c], lockNow')
      BY <2>1
    <3>1. lockCall[c].read # None => lockCall[c].read.expires \in Nat
      BY <1>a DEF Col!Call, Col!Lock
    <3> QED BY <2>1, <3>1, <1>a DEF ColKnows, Col!Lock
  <2>3. ColBelieved'
    BY <2>1, <1>a DEF ColBelieved, ColHolds, ColExpects
  <2> QED BY <2>1, <2>2, <2>3, <1>a, <1>q
<1>2. ASSUME NEW c \in Calls, Col!AcquireBegin(c) PROVE ColIInv'
  <2>1. PICK p \in Principals, ttl \in AskedTTL :
          /\ ~ (Col!InForce(lock, lockNow) /\ lock.holder # p)
          /\ Col!Becomes(c, [Col!Idle EXCEPT !.step = "acquire", !.who = p, !.at = lockNow, !.ttl = Col!Clamped(ttl), !.read = lock])
    BY <1>2 DEF Col!AcquireBegin
  <2> DEFINE e == [Col!Idle EXCEPT !.step = "acquire", !.who = p, !.at = lockNow, !.ttl = Col!Clamped(ttl), !.read = lock]
  <2>2. Col!Clamped(ttl) \in Nat
    BY DEF Col!Clamped, Col!CollaborationAssumption
  <2>3. e \in Col!Call /\ ColKnows(e, lockNow)
    BY <2>1, <2>2, <1>a, <1>t DEF Col!Call, Col!Idle, ColKnows, Col!InForce, Col!Steps
  <2>4. UNCHANGED <<lockNow, lock, seen, believes, beat, lockCrossed>> /\ lockCall[c].step # "acquired"
    BY <1>2 DEF Col!AcquireBegin
  <2>5. lockCall' \in [Calls -> Col!Call] /\ (\A d \in Calls : ColKnows(lockCall'[d], lockNow')) /\ ColBelieved'
    BY <2>1, <2>3, <2>4, <1>s
  <2> QED BY <2>4, <2>5, <1>a, <1>q
<1>3. ASSUME NEW c \in Calls, Col!AcquireWrite(c) PROVE ColIInv'
  <2> DEFINE r == lockCall[c]
             new == [holder |-> r.who, expires |-> r.at + r.ttl]
             e == [r EXCEPT !.step = "acquired", !.read = new]
  <2>1. /\ r \in Col!Call /\ r.step = "acquire" /\ r.who \in Principals
        /\ r.read # None /\ r.read.expires > lockNow => r.read.holder = r.who
    BY <1>3, <1>a DEF Col!AcquireWrite, ColKnows
  <2>2. /\ UNCHANGED <<lockNow, seen, believes, beat>>
        /\ lockCrossed' = IF lock # r.read THEN lockCrossed \union {"lock"} ELSE lockCrossed
    BY <1>3 DEF Col!AcquireWrite
  <2>3. new \in Col!Lock /\ e \in Col!Call /\ ColKnows(e, lockNow) /\ e.who = r.who /\ e.step = "acquired"
    <3>1. r.at + r.ttl \in Nat
      BY <2>1, <1>a DEF Col!Call, Col!Time
    <3>2. new \in Col!Lock
      BY <3>1, <2>1 DEF Col!Lock
    <3> QED BY <2>1, <3>2 DEF Col!Call, Col!Steps, ColKnows
  <2>4. CASE (r.read = None) = (lock = None)
    <3>1. lock' = new /\ Col!Becomes(c, e)
      BY <1>3, <2>4 DEF Col!AcquireWrite
    <3>2. /\ lockCall' \in [Calls -> Col!Call] /\ \A d \in Calls : ColKnows(lockCall'[d], lockNow')
          /\ lockCall'[c] = e /\ \A d \in Calls \ {c} : lockCall'[d] = lockCall[d]
      BY <3>1, <2>2, <2>3, ColGoesOn
    <3>3. ColBelieved'
      <4> SUFFICES ASSUME "lock" \notin lockCrossed', NEW p \in Principals, believes[p] > lockNow PROVE ColHolds(p)' \/ ColExpects(p)'
        BY <2>2 DEF ColBelieved
      <4>1. lock = r.read /\ "lock" \notin lockCrossed
        BY <2>2
      <4>2. CASE p = r.who
        BY <4>2, <3>2, <2>3 DEF ColExpects
      <4>3. CASE p # r.who
        <5>1. ~ ColHolds(p)
          <6> SUFFICES ASSUME ColHolds(p) PROVE FALSE
            OBVIOUS
          <6>1. lock \in Col!Lock /\ lock.expires >= believes[p] /\ lock.holder = p
            BY <1>a DEF ColHolds
          <6>2. lock.expires > lockNow
            BY <6>1, <1>a, <1>t DEF Col!Lock
          <6> QED BY <6>1, <6>2, <4>1, <4>3, <2>1, <1>a
        <5>2. ColExpects(p)
          BY <4>1, <5>1, <1>a DEF ColBelieved
        <5>3. ColExpects(p)'
          BY <5>2, <3>2, <2>1 DEF ColExpects
        <5> QED BY <5>3
      <4> QED BY <4>2, <4>3
    <3> QED BY <2>2, <2>3, <3>1, <3>2, <3>3, <1>a, <1>q
  <2>5. CASE (r.read = None) # (lock = None)
    <3>1. "lock" \in lockCrossed'
      BY <2>2, <2>5
    <3>2. lock' = lock /\ (Col!Becomes(c, Col!Idle) \/ Col!Becomes(c, e))
      BY <1>3, <2>5 DEF Col!AcquireWrite
    <3>3. lockCall' \in [Calls -> Col!Call] /\ \A d \in Calls : ColKnows(lockCall'[d], lockNow')
      BY <2>2, <2>3, <3>2, ColGoesOn, ColIdleKnows
    <3> QED BY <2>2, <3>1, <3>2, <3>3, <1>a, <1>q DEF ColBelieved
  <2> QED BY <2>4, <2>5
<1>4. ASSUME NEW c \in Calls, Col!Acquired(c) PROVE ColIInv'
  <2> DEFINE r == lockCall[c]
             shown == IF lock = None THEN r.read ELSE lock
  <2>1. r \in Col!Call /\ r.step = "acquired" /\ r.who \in Principals /\ r.read \in Col!Lock /\ r.read.holder = r.who
    BY <1>4, <1>a DEF Col!Acquired, ColKnows
  <2>2. /\ UNCHANGED <<lockNow, lock, seen, beat>> /\ Col!Becomes(c, Col!Idle)
        /\ believes' = [believes EXCEPT ![r.who] = shown.expires]
        /\ lockCrossed' = IF lock # r.read THEN lockCrossed \union {"lock"} ELSE lockCrossed
    BY <1>4 DEF Col!Acquired
  <2>3. shown.expires \in Nat
    BY <2>1, <1>a DEF Col!Lock
  <2>4. believes' \in [Principals -> Nat]
    BY <2>2, <2>3, <1>a
  <2>5. /\ lockCall' \in [Calls -> Col!Call] /\ \A d \in Calls : ColKnows(lockCall'[d], lockNow')
        /\ lockCall'[c] = Col!Idle /\ \A d \in Calls \ {c} : lockCall'[d] = lockCall[d]
    BY <2>2, ColGoesOn, ColIdleKnows
  <2>6. ColBelieved'
    <3> SUFFICES ASSUME "lock" \notin lockCrossed', NEW p \in Principals, believes'[p] > lockNow PROVE ColHolds(p)' \/ ColExpects(p)'
      BY <2>2 DEF ColBelieved
    <3>1. lock = r.read /\ "lock" \notin lockCrossed /\ lock \in Col!Lock
      BY <2>1, <2>2
    <3>2. CASE p = r.who
      <4>1. believes'[p] = lock.expires
        BY <3>1, <3>2, <2>1, <2>2, <1>a
      <4> QED BY <4>1, <3>1, <3>2, <2>1, <2>2, <1>a DEF ColHolds, Col!Lock
    <3>3. CASE p # r.who
      <4>1. believes'[p] = believes[p]
        BY <3>3, <2>2, <1>a
      <4>2. ColExpects(p) => ColExpects(p)'
        BY <3>3, <2>5 DEF ColExpects
      <4>3. ColHolds(p) => ColHolds(p)'
        BY <4>1, <2>2 DEF ColHolds
      <4> QED BY <4>1, <4>2, <4>3, <3>1, <1>a DEF ColBelieved
    <3> QED BY <3>2, <3>3
  <2> QED BY <2>2, <2>4, <2>5, <2>6, <1>a, <1>q
<1>5. ASSUME NEW c \in Calls, Col!ReleaseBegin(c) PROVE ColIInv'
  <2>1. PICK p \in Principals : Col!MayRelease(p) /\ Col!Becomes(c, [Col!Idle EXCEPT !.step = "release", !.who = p, !.read = lock])
    BY <1>5 DEF Col!ReleaseBegin
  <2> DEFINE e == [Col!Idle EXCEPT !.step = "release", !.who = p, !.read = lock]
  <2>2. UNCHANGED <<lockNow, lock, seen, believes, beat, lockCrossed>> /\ lockCall[c].step = "idle" /\ lock \in Col!Lock
    BY <1>5, <1>a DEF Col!ReleaseBegin
  <2>3. e \in Col!Call /\ ColKnows(e, lockNow)
    <3>1. e \in Col!Call
      BY <2>2, ColIdleKnows DEF Col!Call, Col!Steps
    <3>2. e.step = "release" /\ e.who = p /\ e.read = lock
      BY DEF Col!Idle
    <3> QED BY <3>1, <3>2, <2>1, <2>2, <1>a DEF ColKnows, Col!MayRelease, Col!InForce
  <2>4. lockCall' \in [Calls -> Col!Call] /\ (\A d \in Calls : ColKnows(lockCall'[d], lockNow')) /\ ColBelieved'
    BY <2>1, <2>2, <2>3, <1>s
  <2> QED BY <2>2, <2>4, <1>a, <1>q
<1>6. ASSUME NEW c \in Calls, Col!ReleaseWrite(c) PROVE ColIInv'
  <2> DEFINE r == lockCall[c]
  <2>1. /\ r \in Col!Call /\ r.step = "release" /\ r.who \in Principals /\ r.read \in Col!Lock
        /\ r.read.expires > lockNow => r.who = r.read.holder \/ r.who \in Admins
    BY <1>6, <1>a DEF Col!ReleaseWrite, ColKnows
  <2>2. /\ UNCHANGED <<lockNow, seen, beat>> /\ lock' = None /\ Col!Becomes(c, Col!Idle)
        /\ believes' = [p \in Principals |-> IF p = r.who \/ r.who \in Admins THEN 0 ELSE believes[p]]
        /\ lockCrossed' = IF lock # r.read THEN lockCrossed \union {"lock"} ELSE lockCrossed
    BY <1>6 DEF Col!ReleaseWrite
  <2>3. /\ lockCall' \in [Calls -> Col!Call] /\ \A d \in Calls : ColKnows(lockCall'[d], lockNow')
        /\ lockCall'[c] = Col!Idle /\ \A d \in Calls \ {c} : lockCall'[d] = lockCall[d]
    BY <2>2, ColGoesOn, ColIdleKnows
  <2>4. believes' \in [Principals -> Nat]
    BY <2>2, <1>t
  <2>5. ColBelieved'
    <3> SUFFICES ASSUME "lock" \notin lockCrossed', NEW p \in Principals, believes'[p] > lockNow PROVE ColExpects(p)'
      BY <2>2 DEF ColBelieved
    <3>1. p # r.who /\ r.who \notin Admins /\ believes'[p] = believes[p] /\ lock = r.read /\ "lock" \notin lockCrossed
      BY <2>2, <1>a
    <3>2. ~ ColHolds(p)
      <4> SUFFICES ASSUME ColHolds(p) PROVE FALSE
        OBVIOUS
      <4>1. lock \in Col!Lock /\ lock.expires >= believes[p] /\ lock.holder = p
        BY <3>1, <2>1 DEF ColHolds
      <4>2. lock.expires > lockNow
        BY <3>1, <4>1, <1>a, <1>t DEF Col!Lock
      <4> QED BY <3>1, <4>1, <4>2, <2>1
    <3>3. ColExpects(p)
      BY <3>1, <3>2, <1>a DEF ColBelieved
    <3> QED BY <3>3, <2>1, <2>3 DEF ColExpects
  <2> QED BY <2>2, <2>3, <2>4, <2>5, <1>a, <1>q
<1>7. ASSUME NEW c \in Calls, Col!HeartbeatBegin(c) PROVE ColIInv'
  <2>1. PICK p \in Principals : Col!Becomes(c, [Col!Idle EXCEPT !.step = "beat", !.who = p, !.at = lockNow, !.ttl = seen[p]])
    BY <1>7 DEF Col!HeartbeatBegin
  <2> DEFINE e == [Col!Idle EXCEPT !.step = "beat", !.who = p, !.at = lockNow, !.ttl = seen[p]]
  <2>2. UNCHANGED <<lockNow, lock, seen, believes, beat, lockCrossed>> /\ lockCall[c].step = "idle"
    BY <1>7 DEF Col!HeartbeatBegin
  <2>3. e \in Col!Call /\ ColKnows(e, lockNow)
    <3>0. seen[p] \in Nat
      BY <1>t DEF Col!Time
    <3>1. e \in Col!Call
      BY <3>0, <1>t, ColIdleKnows DEF Col!Call, Col!Steps
    <3>2. e.step = "beat" /\ e.who = p
      BY DEF Col!Idle
    <3> QED BY <3>1, <3>2 DEF ColKnows
  <2>4. lockCall' \in [Calls -> Col!Call] /\ (\A d \in Calls : ColKnows(lockCall'[d], lockNow')) /\ ColBelieved'
    BY <2>1, <2>2, <2>3, <1>s
  <2> QED BY <2>2, <2>4, <1>a, <1>q
<1>8. ASSUME NEW c \in Calls, Col!HeartbeatWrite(c) PROVE ColIInv'
  <2>1. lockCall[c] \in Col!Call /\ lockCall[c].step = "beat" /\ lockCall[c].who \in Principals /\ lockCall[c].at \in Col!Time
    BY <1>8, <1>a DEF Col!HeartbeatWrite, ColKnows, Col!Call
  <2>2. UNCHANGED <<lockNow, lock, believes>> /\ Col!Becomes(c, Col!Idle)
    BY <1>8 DEF Col!HeartbeatWrite
  <2>3. /\ seen' \in [Principals -> Col!Time] /\ beat' \in [Principals -> Col!Time]
        /\ lockCrossed \subseteq lockCrossed' /\ lockCrossed' \subseteq {"lock"} \union Principals
    BY <1>8, <2>1, <1>a DEF Col!HeartbeatWrite
  <2>4. lockCall' \in [Calls -> Col!Call] /\ (\A d \in Calls : ColKnows(lockCall'[d], lockNow')) /\ ColBelieved'
    BY <2>1, <2>2, <2>3, <1>s, ColIdleKnows
  <2> QED BY <2>2, <2>3, <2>4, <1>a, <1>q
<1>9. ASSUME NEW c \in Calls, Col!PresenceFind(c) PROVE ColIInv'
  <2>1. PICK w \in Windows :
          Col!Becomes(c, [Col!Idle EXCEPT !.step = "prune", !.rows = {[who |-> p, at |-> seen[p]] : p \in Col!Stale(w)}])
    BY <1>9 DEF Col!PresenceFind
  <2> DEFINE e == [Col!Idle EXCEPT !.step = "prune", !.rows = {[who |-> p, at |-> seen[p]] : p \in Col!Stale(w)}]
  <2>2. UNCHANGED <<lockNow, lock, seen, believes, beat, lockCrossed>> /\ lockCall[c].step = "idle"
    BY <1>9 DEF Col!PresenceFind
  <2>3. {[who |-> p, at |-> seen[p]] : p \in Col!Stale(w)} \in SUBSET [who: Principals, at: Col!Time]
    BY <1>t DEF Col!Stale
  <2>4. e \in Col!Call /\ ColKnows(e, lockNow)
    <3>1. e \in Col!Call
      BY <2>3, ColIdleKnows DEF Col!Call, Col!Steps
    <3>2. e.step = "prune"
      BY DEF Col!Idle
    <3> QED BY <3>1, <3>2 DEF ColKnows
  <2>5. lockCall' \in [Calls -> Col!Call] /\ (\A d \in Calls : ColKnows(lockCall'[d], lockNow')) /\ ColBelieved'
    BY <2>1, <2>2, <2>4, <1>s
  <2> QED BY <2>2, <2>5, <1>a, <1>q
<1>10. ASSUME NEW c \in Calls, Col!Prune(c) PROVE ColIInv'
  <2>1. lockCall[c] \in Col!Call /\ lockCall[c].step = "prune" /\ UNCHANGED <<lockNow, lock, believes, beat>>
    BY <1>10, <1>a DEF Col!Prune
  <2>2. PICK row \in lockCall[c].rows :
          /\ seen' = [seen EXCEPT ![row.who] = 0]
          /\ lockCrossed' = IF seen[row.who] # row.at THEN lockCrossed \union {row.who} ELSE lockCrossed
          /\ Col!Becomes(c, IF lockCall[c].rows = {row} THEN Col!Idle ELSE [lockCall[c] EXCEPT !.rows = @ \ {row}])
    BY <1>10 DEF Col!Prune
  <2>3. row.who \in Principals
    BY <2>1, <2>2 DEF Col!Call
  <2>4. /\ seen' \in [Principals -> Col!Time]
        /\ lockCrossed \subseteq lockCrossed' /\ lockCrossed' \subseteq {"lock"} \union Principals
    BY <2>2, <2>3, <1>a DEF Col!Time
  <2>5. PICK e \in {Col!Idle, [lockCall[c] EXCEPT !.rows = @ \ {row}]} : Col!Becomes(c, e)
    BY <2>2
  <2>6. e \in Col!Call /\ ColKnows(e, lockNow)
    BY <2>1, <2>5, ColIdleKnows DEF Col!Call, ColKnows
  <2>7. lockCall' \in [Calls -> Col!Call] /\ (\A d \in Calls : ColKnows(lockCall'[d], lockNow')) /\ ColBelieved'
    BY <2>1, <2>4, <2>5, <2>6, <1>s
  <2> QED BY <2>1, <2>4, <2>7, <1>a, <1>q
<1>11. CASE UNCHANGED Col!vars
  <2>1. UNCHANGED <<lockNow, lock, seen, lockCall, believes, beat, lockCrossed>>
    BY <1>11 DEF Col!vars
  <2>2. ColBelieved'
    BY <2>1, <1>a DEF ColBelieved, ColHolds, ColExpects
  <2> QED BY <2>1, <2>2, <1>a, <1>q
<1> QED
  BY <1>1, <1>2, <1>3, <1>4, <1>5, <1>6, <1>7, <1>8, <1>9, <1>10, <1>11
     DEF Col!Next, Col!LockNext, Col!PresenceNext, Col!Locking, Col!Presence

-----------------------------------------------------------------------------
(* Collaboration among the services.                                       *)

(* Whatever the services do, Collaboration takes a step of its own or none.*)
LEMMA ColRuns == (Init => Col!Init) /\ ([Next]_vars => [Col!Next]_Col!vars)
<1>1. Init => Col!Init
  BY DEF Init
<1>2. [Next]_vars => [Col!Next]_Col!vars
  BY DEF Next, vars, collaboration, Col!vars, Col!Next
<1> QED BY <1>1, <1>2

(* The invariant holds throughout.                                         *)
LEMMA ColAlways == Spec => []ColIInv
<1>1. Col!CollaborationAssumption
  BY ServicesAssumption DEF ServicesAssumption
<1>2. Init => ColIInv
  BY <1>1, ColRuns, ColInitIInv
<1>3. ColIInv /\ [Next]_vars => ColIInv'
  BY <1>1, ColRuns, ColStepIInv
<1> QED BY <1>2, <1>3, PTL DEF Spec

(* Whoever was told that the lock is its own, and has no call in flight,   *)
(* is the one holder, unless a row changed under a call.  It needs that a  *)
(* lock in force when it is overwritten or deleted was in force when the   *)
(* call that does so had looked at it.                                     *)
THEOREM HoldersAreAlone == Spec => []OneHolder
<1>1. ColIInv => OneHolder
  <2> SUFFICES ASSUME ColIInv, "lock" \notin lockCrossed, NEW p \in Principals, Col!Settled(p), believes[p] > lockNow
               PROVE  ColHolds(p)
    BY DEF OneHolder, Col!OneHolder, ColHolds
  <2>1. ~ ColExpects(p)
    BY DEF ColExpects, Col!Settled
  <2> QED BY <2>1 DEF ColIInv, ColBelieved
<1> QED BY ColAlways, <1>1, PTL

-----------------------------------------------------------------------------
(* Presence.  A row that is to be pruned was too old for some window when  *)
(* it was found, and so is from then on.                                   *)
ColOld(e, t) == e.step = "prune" => \A row \in e.rows : \E w \in Windows : row.at + w < t

ColFresh(p) == beat[p] # 0 /\ \A w \in Windows : beat[p] + w >= lockNow
ColListed(p) == ColFresh(p) => seen[p] = beat[p]

ColPresence == (\A c \in Calls : ColOld(lockCall[c], lockNow)) /\ \A p \in Principals \ lockCrossed : ColListed(p)

LEMMA ColInitPresence == Col!CollaborationAssumption /\ Col!Init => ColPresence
BY DEF Col!Init, Col!Idle, ColPresence, ColOld, ColListed, ColFresh

(* A call goes on that is not to prune what is not old.                    *)
LEMMA ColPrunesOld ==
  ASSUME ColPresence, lockCall \in [Calls -> Col!Call], NEW c \in Calls, NEW e, Col!Becomes(c, e), ColOld(e, lockNow), lockNow' = lockNow
  PROVE  \A d \in Calls : ColOld(lockCall'[d], lockNow')
<1>1. \A d \in Calls : lockCall'[d] = IF d = c THEN e ELSE lockCall[d]
  BY DEF Col!Becomes
<1> QED BY <1>1 DEF ColPresence

LEMMA ColStepPresence ==
  Col!CollaborationAssumption /\ ColIInv /\ ColPresence /\ [Col!Next]_Col!vars => ColPresence'
<1> SUFFICES ASSUME Col!CollaborationAssumption, ColIInv, ColPresence, [Col!Next]_Col!vars PROVE ColPresence'
  OBVIOUS
<1>a. /\ lockNow \in Nat /\ seen \in [Principals -> Col!Time] /\ beat \in [Principals -> Col!Time]
      /\ lockCall \in [Calls -> Col!Call] /\ Windows \subseteq Nat /\ Col!Time \subseteq Nat
  BY DEF ColIInv, ColTyped, Col!TypeOK, Col!CollaborationAssumption, Col!Time
<1>b. \A c \in Calls : ColOld(lockCall[c], lockNow)
  BY DEF ColPresence
(* The steps that leave the presence rows alone.                           *)
<1>c. ASSUME lockCrossed \subseteq lockCrossed', UNCHANGED <<lockNow, seen, beat>>, \A c \in Calls : ColOld(lockCall'[c], lockNow')
      PROVE  ColPresence'
  <2>1. \A p \in Principals \ lockCrossed' : ColListed(p)'
    BY <1>c DEF ColPresence, ColListed, ColFresh
  <2> QED BY <1>c, <2>1 DEF ColPresence
<1>d. ASSUME NEW c \in Calls, NEW e, Col!Becomes(c, e), e.step # "prune", lockCrossed \subseteq lockCrossed', UNCHANGED <<lockNow, seen, beat>>
      PROVE  ColPresence'
  BY <1>a, <1>c, <1>d, ColPrunesOld DEF ColOld
<1>1. CASE Col!Tick
  <2>1. lockNow' = lockNow + 1 /\ UNCHANGED <<lockCall, seen, beat, lockCrossed>>
    BY <1>1 DEF Col!Tick
  <2>2. ASSUME NEW c \in Calls PROVE ColOld(lockCall[c], lockNow + 1)
    <3> SUFFICES ASSUME lockCall[c].step = "prune", NEW row \in lockCall[c].rows PROVE \E w \in Windows : row.at + w < lockNow + 1
      BY DEF ColOld
    <3>1. PICK w \in Windows : row.at + w < lockNow
      BY <1>b DEF ColOld
    <3>2. row \in [who: Principals, at: Col!Time]
      BY <1>a DEF Col!Call
    <3>3. row.at \in Nat /\ w \in Nat
      BY <1>a, <3>2
    <3> QED BY <1>a, <3>1, <3>3
  <2>3. ASSUME NEW p \in Principals \ lockCrossed, beat[p] # 0, \A w \in Windows : beat[p] + w >= lockNow + 1 PROVE seen[p] = beat[p]
    <3>1. beat[p] \in Nat
      BY <1>a
    <3>2. \A w \in Windows : beat[p] + w >= lockNow
      BY <1>a, <2>3, <3>1
    <3> QED BY <2>3, <3>2 DEF ColPresence, ColListed, ColFresh
  <2> QED BY <2>1, <2>2, <2>3 DEF ColPresence, ColListed, ColFresh
<1>2. ASSUME NEW c \in Calls, Col!Locking(c) PROVE ColPresence'
  <2>1. UNCHANGED <<lockNow, seen, beat>> /\ lockCrossed \subseteq lockCrossed'
    BY <1>2 DEF Col!Locking, Col!AcquireBegin, Col!AcquireWrite, Col!Acquired, Col!ReleaseBegin, Col!ReleaseWrite
  <2>2. lockCall[c] \in Col!Call
    BY <1>a
  <2>3. \E e : Col!Becomes(c, e) /\ e.step # "prune"
    <3>1. CASE Col!AcquireBegin(c)
      <4>1. PICK p \in Principals, ttl \in AskedTTL :
              Col!Becomes(c, [Col!Idle EXCEPT !.step = "acquire", !.who = p, !.at = lockNow, !.ttl = Col!Clamped(ttl), !.read = lock])
        BY <3>1 DEF Col!AcquireBegin
      <4>2. [Col!Idle EXCEPT !.step = "acquire", !.who = p, !.at = lockNow, !.ttl = Col!Clamped(ttl), !.read = lock].step # "prune"
        BY DEF Col!Idle
      <4> QED BY <4>1, <4>2
    <3>2. CASE Col!AcquireWrite(c)
      <4>1. Col!Idle.step # "prune"
        BY DEF Col!Idle
      <4>2. \A l : [lockCall[c] EXCEPT !.step = "acquired", !.read = l].step # "prune"
        BY <2>2 DEF Col!Call
      <4> QED BY <3>2, <4>1, <4>2 DEF Col!AcquireWrite
    <3>3. CASE Col!Acquired(c) \/ Col!ReleaseWrite(c)
      BY <3>3 DEF Col!Acquired, Col!ReleaseWrite, Col!Idle
    <3>4. CASE Col!ReleaseBegin(c)
      <4>1. PICK p \in Principals : Col!Becomes(c, [Col!Idle EXCEPT !.step = "release", !.who = p, !.read = lock])
        BY <3>4 DEF Col!ReleaseBegin
      <4>2. [Col!Idle EXCEPT !.step = "release", !.who = p, !.read = lock].step # "prune"
        BY DEF Col!Idle
      <4> QED BY <4>1, <4>2
    <3> QED BY <1>2, <3>1, <3>2, <3>3, <3>4 DEF Col!Locking
  <2> QED BY <1>d, <2>1, <2>3
<1>3. ASSUME NEW c \in Calls, Col!HeartbeatBegin(c) PROVE ColPresence'
  <2>1. PICK p \in Principals : Col!Becomes(c, [Col!Idle EXCEPT !.step = "beat", !.who = p, !.at = lockNow, !.ttl = seen[p]])
    BY <1>3 DEF Col!HeartbeatBegin
  <2>2. [Col!Idle EXCEPT !.step = "beat", !.who = p, !.at = lockNow, !.ttl = seen[p]].step # "prune"
    BY DEF Col!Idle
  <2>3. UNCHANGED <<lockNow, seen, beat, lockCrossed>>
    BY <1>3 DEF Col!HeartbeatBegin
  <2> QED BY <1>d, <2>1, <2>2, <2>3
<1>4. ASSUME NEW c \in Calls, Col!HeartbeatWrite(c) PROVE ColPresence'
  <2> DEFINE r == lockCall[c]
  <2>1. /\ r.step = "beat" /\ lockNow' = lockNow /\ Col!Becomes(c, Col!Idle)
        /\ seen' = IF (r.ttl = 0) = (seen[r.who] = 0) THEN [seen EXCEPT ![r.who] = r.at] ELSE seen
        /\ beat' = [beat EXCEPT ![r.who] = r.at]
        /\ lockCrossed' = IF seen[r.who] # r.ttl THEN lockCrossed \union {r.who} ELSE lockCrossed
    BY <1>4 DEF Col!HeartbeatWrite
  <2>2. r.who \in Principals
    BY <2>1 DEF ColIInv, ColTyped, ColKnows
  <2>3. \A d \in Calls : ColOld(lockCall'[d], lockNow')
    BY <1>a, <2>1, ColPrunesOld DEF ColOld, Col!Idle
  <2>4. ASSUME NEW p \in Principals \ lockCrossed' PROVE ColListed(p)'
    <3>1. CASE p = r.who
      BY <1>a, <2>1, <2>2, <2>4, <3>1 DEF ColListed, ColFresh
    <3>2. CASE p # r.who
      <4>1. seen'[p] = seen[p] /\ beat'[p] = beat[p] /\ p \notin lockCrossed
        BY <1>a, <2>1, <2>2, <2>4, <3>2
      <4> QED BY <2>1, <4>1 DEF ColPresence, ColListed, ColFresh
    <3> QED BY <3>1, <3>2
  <2> QED BY <2>3, <2>4 DEF ColPresence
<1>5. ASSUME NEW c \in Calls, Col!PresenceFind(c) PROVE ColPresence'
  <2>1. PICK w \in Windows : Col!Becomes(c, [Col!Idle EXCEPT !.step = "prune", !.rows = {[who |-> p, at |-> seen[p]] : p \in Col!Stale(w)}])
    BY <1>5 DEF Col!PresenceFind
  <2>2. UNCHANGED <<lockNow, seen, beat, lockCrossed>>
    BY <1>5 DEF Col!PresenceFind
  <2> DEFINE e == [Col!Idle EXCEPT !.step = "prune", !.rows = {[who |-> p, at |-> seen[p]] : p \in Col!Stale(w)}]
  <2>3. e.rows = {[who |-> p, at |-> seen[p]] : p \in Col!Stale(w)}
    BY DEF Col!Idle
  <2>4. ColOld(e, lockNow)
    BY <2>3 DEF ColOld, Col!Stale
  <2> HIDE DEF e
  <2>5. \A d \in Calls : ColOld(lockCall'[d], lockNow')
    BY <1>a, <2>1, <2>2, <2>4, ColPrunesOld DEF e
  <2> QED BY <1>c, <2>2, <2>5
<1>6. ASSUME NEW c \in Calls, Col!Prune(c) PROVE ColPresence'
  <2>1. PICK row \in lockCall[c].rows :
          /\ seen' = [seen EXCEPT ![row.who] = 0]
          /\ lockCrossed' = IF seen[row.who] # row.at THEN lockCrossed \union {row.who} ELSE lockCrossed
          /\ Col!Becomes(c, IF lockCall[c].rows = {row} THEN Col!Idle ELSE [lockCall[c] EXCEPT !.rows = lockCall[c].rows \ {row}])
    BY <1>6 DEF Col!Prune
  <2>2. lockCall[c].step = "prune" /\ UNCHANGED <<lockNow, beat>>
    BY <1>6 DEF Col!Prune
  <2> DEFINE rest == [lockCall[c] EXCEPT !.rows = lockCall[c].rows \ {row}]
  <2>3. rest.rows = lockCall[c].rows \ {row}
    BY <1>a DEF Col!Call
  <2>4. ColOld(Col!Idle, lockNow) /\ ColOld(rest, lockNow)
    BY <1>b, <2>2, <2>3 DEF ColOld, Col!Idle
  <2>5. \A d \in Calls : ColOld(lockCall'[d], lockNow')
    BY <1>a, <2>1, <2>2, <2>4, ColPrunesOld
  <2>6. row \in [who: Principals, at: Col!Time]
    BY <1>a DEF Col!Call
  <2>7. PICK w \in Windows : row.at + w < lockNow
    BY <1>b, <2>2 DEF ColOld
  <2>8. ASSUME NEW p \in Principals \ lockCrossed' PROVE ColListed(p)'
    <3>1. p \notin lockCrossed
      BY <2>1, <2>8
    <3>2. CASE p = row.who
      <4>1. seen[p] = row.at
        BY <2>1, <2>8, <3>2
      <4>2. ~ ColFresh(p)
        <5> SUFFICES ASSUME ColFresh(p) PROVE FALSE
          OBVIOUS
        <5>1. beat[p] = row.at
          BY <3>1, <4>1 DEF ColPresence, ColListed
        <5>2. row.at \in Nat /\ w \in Nat /\ row.at + w >= lockNow
          BY <1>a, <2>6, <5>1 DEF ColFresh
        <5> QED BY <1>a, <2>7, <5>2
      <4> QED BY <2>2, <4>2 DEF ColListed, ColFresh
    <3>3. CASE p # row.who
      BY <1>a, <2>1, <2>2, <2>6, <3>1, <3>3 DEF ColPresence, ColListed, ColFresh
    <3> QED BY <3>2, <3>3
  <2> QED BY <2>5, <2>8 DEF ColPresence
<1>7. CASE UNCHANGED Col!vars
  BY <1>b, <1>c, <1>7 DEF Col!vars
<1> QED
  BY <1>1, <1>2, <1>3, <1>4, <1>5, <1>6, <1>7 DEF Col!Next, Col!LockNext, Col!PresenceNext, Col!Presence

(* An editor whose heartbeat is younger than every window is listed,       *)
(* whoever prunes, unless its row changed under a call that had read it.   *)
(* It needs that a row in a prune's hands is too old for some window.      *)
THEOREM EditorsAreListed == Spec => []PresentIsListed
<1>1. Col!CollaborationAssumption
  BY ServicesAssumption DEF ServicesAssumption
<1>2. Init => ColPresence
  BY <1>1, ColRuns, ColInitPresence
<1>3. ColIInv /\ ColPresence /\ [Next]_vars => ColPresence'
  BY <1>1, ColRuns, ColStepPresence
<1>4. ColPresence => PresentIsListed
  BY DEF ColPresence, ColListed, ColFresh, PresentIsListed, Col!PresentIsListed
<1> QED BY ColAlways, <1>2, <1>3, <1>4, PTL DEF Spec

-----------------------------------------------------------------------------
(* Branches.  Every changed document fits a page of the overlay: what a    *)
(* merge does not read it does not apply.                                  *)
BraOnePage == IsFiniteSet(Drafts) /\ Cardinality(Drafts) <= PageLimit

BraSteps == {"idle", "stage", "found", "merge", "drop", "discard", "atomic"}
BraEntry == [step: BraSteps, edit: Changes \union {None}, doc: Drafts \union {None},
             rows: SUBSET Bra!Row, left: SUBSET Bra!Row, done: SUBSET Bra!Row]

(* The edit has reached its document, or somebody was told of its end.     *)
BraDone(e) == (\E d \in Drafts : e \in doc[d]) \/ e \in reported \union discarded

(* What a call has at its step.                                            *)
BraKnows(c) ==
  /\ branchCall[c].edit \notin staged
  /\ branchCall[c].step \in {"stage", "found"} => branchCall[c].edit # None /\ branchCall[c].doc # None
  /\ branchCall[c].edit # None => \A d \in Calls \ {c} : branchCall[d].edit # branchCall[c].edit
  /\ branchCall[c].step = "drop" => branch # "open"

(* Ids are given once.                                                     *)
BraIds ==
  /\ IsFiniteSet(staged)
  /\ \A x \in overlay : x.id < Cardinality(staged)
  /\ \A x, y \in overlay : x.id = y.id => x = y

BraTyped == Bra!TypeOK /\ BraIds /\ \A c \in Calls : BraKnows(c)

(* A call that replays or discards the overlay has all there is to replay, *)
(* and has dealt with the rows it has left behind.                         *)
BraReplays(c) ==
  branchCall[c].step \in {"merge", "discard", "atomic"} =>
    /\ \A e \in staged : BraDone(e) \/ \E x \in branchCall[c].rows : e \in x.edits
    /\ branchCall[c].step # "atomic" =>
         \A x \in branchCall[c].rows \ branchCall[c].left : \A e \in x.edits : BraDone(e)
    /\ branchCall[c].step = "atomic" => branchCall[c].rows \subseteq branchCall[c].left \union branchCall[c].done

(* An overlay row for each document at most, and every edit in one while   *)
(* the branch is open.                                                     *)
BraKept ==
  /\ \A x, y \in overlay : x.doc = y.doc => x = y
  /\ \A e \in staged : BraDone(e) \/ (branch = "open" /\ \E x \in overlay : e \in x.edits)

(* A merge reads the whole overlay, and no call wrote over what had        *)
(* changed.                                                                *)
BraSure == BraOnePage /\ ~ branchCrossed

BraIInv == BraTyped /\ (BraSure => BraKept /\ \A c \in Calls : BraReplays(c))

USE DEF BraSure

LEMMA BraCardinality == \A S : Bra!Cardinality(S) = Cardinality(S)
BY DEF Bra!Cardinality, Cardinality

BraOthers ==
  /\ branch \in {"open", "merged", "discarded"}
  /\ overlay \subseteq Bra!Row /\ doc \in [Drafts -> SUBSET Changes]
  /\ staged \subseteq Changes /\ reported \subseteq Changes /\ discarded \subseteq Changes /\ branchCrossed \in BOOLEAN
  /\ merges \in 0..MaxMerges /\ branchCrashes \in 0..MaxCrashes

LEMMA BraTypeOK ==
  /\ Bra!TypeOK <=> BraOthers /\ branchCall \in [Calls -> BraEntry]
  /\ (Bra!TypeOK <=> BraOthers /\ branchCall \in [Calls -> BraEntry])'
BY DEF Bra!TypeOK, BraOthers, BraEntry, BraSteps

LEMMA BraIdle ==
  Bra!BranchesAssumption =>
    /\ Bra!Idle \in BraEntry /\ Bra!Idle.step = "idle" /\ Bra!Idle.edit = None /\ None \notin Changes \union Drafts
    /\ Bra!Idle.rows = {} /\ Bra!Idle.left = {} /\ Bra!Idle.done = {}
BY DEF Bra!Idle, BraEntry, BraSteps, Bra!BranchesAssumption

(* What is settled stays settled.                                          *)
BraGrows == (\A d \in Drafts : doc[d] \subseteq doc'[d]) /\ reported \subseteq reported' /\ discarded \subseteq discarded'

LEMMA BraDoneStays == BraGrows => \A e : BraDone(e) => BraDone(e)'
BY DEF BraGrows, BraDone

(* A call goes on, and the others know what they knew.                     *)
LEMMA BraGoesOn ==
  ASSUME BraTyped, NEW c \in Calls, NEW e \in BraEntry, Bra!Becomes(c, e), branch # "open" => branch' # "open",
         \A d \in Calls \ {c} : branchCall[d].edit \notin staged',
         e.edit \notin staged', e.edit # None => \A d \in Calls \ {c} : branchCall[d].edit # e.edit,
         e.step \in {"stage", "found"} => e.edit # None /\ e.doc # None, e.step = "drop" => branch' # "open"
  PROVE  /\ branchCall' \in [Calls -> BraEntry] /\ \A d \in Calls : BraKnows(d)'
         /\ branchCall'[c] = e /\ \A d \in Calls \ {c} : branchCall'[d] = branchCall[d]
<1>1. branchCall \in [Calls -> BraEntry] /\ branchCall' = [branchCall EXCEPT ![c] = e]
  BY BraTypeOK DEF BraTyped, Bra!Becomes
<1>2. branchCall'[c] = e /\ \A d \in Calls \ {c} : branchCall'[d] = branchCall[d]
  BY <1>1
<1>3. ASSUME NEW d \in Calls PROVE BraKnows(d)'
  <2>1. BraKnows(d)
    BY DEF BraTyped
  <2>2. CASE d = c
    <3>1. /\ branchCall'[c].edit \notin staged'
          /\ branchCall'[c].step \in {"stage", "found"} => branchCall'[c].edit # None /\ branchCall'[c].doc # None
          /\ branchCall'[c].step = "drop" => branch' # "open"
      BY <1>2
    <3>2. branchCall'[c].edit # None => \A f \in Calls \ {c} : branchCall'[f].edit # branchCall'[c].edit
      BY <1>2
    <3> QED BY <2>2, <3>1, <3>2 DEF BraKnows
  <2>3. CASE d # c
    <3>1. /\ branchCall'[d].edit \notin staged'
          /\ branchCall'[d].step \in {"stage", "found"} => branchCall'[d].edit # None /\ branchCall'[d].doc # None
          /\ branchCall'[d].step = "drop" => branch' # "open"
      BY <1>2, <2>1, <2>3 DEF BraKnows
    <3>2. branchCall'[d].edit # None => \A f \in Calls \ {d} : branchCall'[f].edit # branchCall'[d].edit
      BY <1>2, <2>1, <2>3 DEF BraKnows
    <3> QED BY <3>1, <3>2 DEF BraKnows
  <2> QED BY <2>2, <2>3
<1> QED BY <1>1, <1>2, <1>3

(* A step that stages nothing: the other calls have still dealt with what  *)
(* they have left behind.                                                  *)
LEMMA BraOthersReplay ==
  ASSUME BraGrows, staged' = staged, NEW d \in Calls, branchCall'[d] = branchCall[d], BraReplays(d)
  PROVE  BraReplays(d)'
BY BraDoneStays DEF BraReplays

(* Rows that go were dropped by a branch that is closed, or are done.      *)
LEMMA BraRowsGo ==
  ASSUME BraTyped, BraGrows, staged' = staged, overlay' \subseteq overlay
  PROVE  /\ BraIds'
         /\ BraKept /\ branch' = branch /\ (branch = "open" => \A x \in overlay \ overlay' : \A e \in x.edits : BraDone(e)') => BraKept'
<1>1. BraIds'
  BY DEF BraTyped, BraIds
<1>2. ASSUME BraKept, branch' = branch, branch = "open" => \A x \in overlay \ overlay' : \A e \in x.edits : BraDone(e)'
      PROVE  BraKept'
  <2>1. ASSUME NEW e \in staged PROVE BraDone(e)' \/ (branch' = "open" /\ \E x \in overlay' : e \in x.edits)
    <3>1. CASE BraDone(e)
      BY <3>1, BraDoneStays
    <3>2. CASE branch = "open" /\ \E x \in overlay : e \in x.edits
      BY <1>2, <3>2
    <3> QED BY <1>2, <2>1, <3>1, <3>2 DEF BraKept
  <2>2. \A x, y \in overlay' : x.doc = y.doc => x = y
    BY <1>2 DEF BraKept
  <2> QED BY <2>1, <2>2 DEF BraKept
<1> QED BY <1>1, <1>2

(* The page of a branch that fits one is all of its overlay.               *)
LEMMA BraWholePage ==
  ASSUME Bra!BranchesAssumption, BraOnePage, BraTyped, BraKept
  PROVE  Bra!Page = overlay
<1>1. overlay \subseteq Bra!Row /\ PageLimit \in Nat
  BY BraTypeOK DEF BraTyped, BraOthers, Bra!BranchesAssumption
<1> DEFINE f == [x \in overlay |-> x.doc]
<1>2. f \in Injection(overlay, Drafts)
  <2>1. f \in [overlay -> Drafts]
    BY <1>1 DEF Bra!Row
  <2>2. \A x, y \in overlay : f[x] = f[y] => x = y
    BY DEF BraKept
  <2> HIDE DEF f
  <2> QED BY <2>1, <2>2 DEF Injection, IsInjective
<1> HIDE DEF f
<1>3. IsFiniteSet(overlay) /\ Cardinality(overlay) <= Cardinality(Drafts)
  BY <1>2, FS_Injection DEF BraOnePage
<1>4. ASSUME NEW x \in overlay PROVE Cardinality({o \in overlay : o.id < x.id}) < PageLimit
  <2> DEFINE S == {o \in overlay : o.id < x.id}
  <2>1. S \in SUBSET overlay /\ x \notin S
    BY <1>1 DEF Bra!Row
  <2> HIDE DEF S
  <2>2. IsFiniteSet(S) /\ Cardinality(S) <= Cardinality(overlay) /\ Cardinality(S) # Cardinality(overlay)
    BY <1>3, <2>1, FS_Subset
  <2>3. Cardinality(S) \in Nat /\ Cardinality(overlay) \in Nat /\ Cardinality(Drafts) \in Nat
    BY <1>3, <2>2, FS_CardinalityType DEF BraOnePage
  <2>4. Cardinality(S) < PageLimit
    BY <1>1, <1>3, <2>2, <2>3 DEF BraOnePage
  <2> QED BY <2>4 DEF S
<1> QED BY <1>4, BraCardinality DEF Bra!Page

BraMaking ==
  Bra!BranchesAssumption /\ BraIInv

LEMMA BraAt ==
  ASSUME BraMaking
  PROVE  /\ Bra!BranchesAssumption /\ BraTyped /\ BraOthers /\ branchCall \in [Calls -> BraEntry]
         /\ overlay \subseteq Bra!Row /\ BraIds /\ \A c \in Calls : BraKnows(c)
         /\ BraSure => BraKept /\ \A c \in Calls : BraReplays(c)
BY BraTypeOK DEF BraMaking, BraIInv, BraTyped, BraOthers

(* A step of one call that stages nothing.                                 *)
LEMMA BraStep ==
  ASSUME BraMaking, NEW c \in Calls, NEW e \in BraEntry, Bra!Becomes(c, e), BraGrows, staged' = staged, BraOthers',
         branch # "open" => branch' # "open", e.edit \in {None, branchCall[c].edit},
         e.step \in {"stage", "found"} => e.edit # None /\ e.doc # None, e.step = "drop" => branch' # "open",
         BraIds', BraSure' => BraSure /\ BraKept' /\ (branchCall'[c] = e => BraReplays(c)')
  PROVE  BraIInv'
<1>1. /\ branchCall' \in [Calls -> BraEntry] /\ \A d \in Calls : BraKnows(d)'
      /\ branchCall'[c] = e /\ \A d \in Calls \ {c} : branchCall'[d] = branchCall[d]
  <2>1. /\ \A d \in Calls \ {c} : branchCall[d].edit \notin staged'
        /\ e.edit \notin staged' /\ (e.edit # None => \A d \in Calls \ {c} : branchCall[d].edit # e.edit)
    BY BraAt, BraIdle DEF BraKnows, BraOthers
  <2> QED BY <2>1, BraAt, BraGoesOn
<1>2. BraTyped'
  BY <1>1, BraTypeOK DEF BraTyped
<1>3. ASSUME BraSure', NEW d \in Calls PROVE BraReplays(d)'
  <2>1. CASE d = c
    BY <1>1, <1>3, <2>1
  <2>2. CASE d # c
    BY <1>1, <1>3, <2>2, BraAt, BraOthersReplay
  <2> QED BY <2>1, <2>2
<1> QED BY <1>2, <1>3 DEF BraIInv

(* One that settles nothing, either.                                       *)
LEMMA BraMoves ==
  ASSUME BraMaking, NEW c \in Calls, NEW e \in BraEntry, Bra!Becomes(c, e),
         UNCHANGED <<branch, overlay, doc, staged, reported, discarded, branchCrossed, branchCrashes>>, merges' \in 0..MaxMerges,
         e.edit \in {None, branchCall[c].edit}, e.step \in {"stage", "found"} => e.edit # None /\ e.doc # None,
         e.step = "drop" => branch # "open", BraSure => (branchCall'[c] = e => BraReplays(c)')
  PROVE  BraIInv'
<1>1. BraGrows /\ BraOthers' /\ BraIds' /\ (BraSure => BraKept')
  BY BraAt DEF BraGrows, BraOthers, BraIds, BraKept, BraDone
<1> QED BY <1>1, BraStep

LEMMA BraStageBegin == ASSUME BraMaking, NEW c \in Calls, Bra!StageBegin(c) PROVE BraIInv'
<1>1. PICK a \in Changes \ (Bra!InHand \union staged), d \in Drafts :
        Bra!Becomes(c, [Bra!Idle EXCEPT !.step = "stage", !.edit = a, !.doc = d])
  BY DEF Bra!StageBegin
<1>2. UNCHANGED <<branch, overlay, doc, staged, reported, discarded, branchCrossed, merges, branchCrashes>>
  BY DEF Bra!StageBegin, Bra!history
<1> DEFINE e == [Bra!Idle EXCEPT !.step = "stage", !.edit = a, !.doc = d]
<1>3. e \in BraEntry /\ e.step = "stage" /\ e.edit = a /\ e.doc = d
  BY DEF Bra!Idle, BraEntry, BraSteps
<1> HIDE DEF e
<1>4. a \notin staged /\ (\A f \in Calls : branchCall[f].edit # a) /\ a # None /\ d # None
  BY BraAt, BraIdle DEF Bra!InHand
<1>5. /\ branchCall' \in [Calls -> BraEntry] /\ \A f \in Calls : BraKnows(f)'
      /\ branchCall'[c] = e /\ \A f \in Calls \ {c} : branchCall'[f] = branchCall[f]
  <2>1. Bra!Becomes(c, e)
    BY <1>1 DEF e
  <2>2. \A f \in Calls \ {c} : branchCall[f].edit \notin staged'
    BY <1>2, BraAt DEF BraKnows
  <2>3. e.edit \notin staged' /\ \A f \in Calls \ {c} : branchCall[f].edit # e.edit
    BY <1>2, <1>3, <1>4
  <2> QED BY <1>2, <1>3, <1>4, <2>1, <2>2, <2>3, BraAt, BraGoesOn
<1>6. BraGrows /\ BraOthers' /\ BraIds' /\ (BraSure => BraKept')
  BY <1>2, BraAt DEF BraGrows, BraOthers, BraIds, BraKept, BraDone
<1>7. ASSUME BraSure, NEW f \in Calls PROVE BraReplays(f)'
  <2>1. CASE f = c
    BY <1>3, <1>5, <2>1 DEF BraReplays
  <2>2. CASE f # c
    BY <1>2, <1>5, <1>6, <1>7, <2>2, BraAt, BraOthersReplay
  <2> QED BY <2>1, <2>2
<1> QED BY <1>2, <1>5, <1>6, <1>7, BraTypeOK DEF BraIInv, BraTyped

LEMMA BraStageFind == ASSUME BraMaking, NEW c \in Calls, Bra!StageFind(c) PROVE BraIInv'
<1> DEFINE r == branchCall[c]
<1>1. /\ r.step = "stage"
      /\ UNCHANGED <<branch, overlay, doc, staged, reported, discarded, branchCrossed, merges, branchCrashes>>
      /\ \/ \E x \in Bra!OverlayRow(r.doc) : Bra!Becomes(c, [r EXCEPT !.step = "found", !.rows = {x}])
         \/ Bra!Becomes(c, [r EXCEPT !.step = "found"])
  BY DEF Bra!StageFind, Bra!history
<1>2. r \in BraEntry /\ r.edit # None /\ r.doc # None
  BY <1>1, BraAt DEF BraKnows
<1>3. PICK e \in BraEntry : Bra!Becomes(c, e) /\ e.step = "found" /\ e.edit = r.edit /\ e.doc = r.doc
  <2>1. ASSUME NEW x \in Bra!OverlayRow(r.doc), Bra!Becomes(c, [r EXCEPT !.step = "found", !.rows = {x}])
        PROVE  \E e \in BraEntry : Bra!Becomes(c, e) /\ e.step = "found" /\ e.edit = r.edit /\ e.doc = r.doc
    <3> DEFINE e == [r EXCEPT !.step = "found", !.rows = {x}]
    <3>1. {x} \subseteq Bra!Row
      BY BraAt DEF Bra!OverlayRow
    <3>2. e \in BraEntry /\ e.step = "found" /\ e.edit = r.edit /\ e.doc = r.doc
      BY <1>2, <3>1 DEF BraEntry, BraSteps
    <3> QED BY <2>1, <3>2
  <2>2. [r EXCEPT !.step = "found"] \in BraEntry
    BY <1>2 DEF BraEntry, BraSteps
  <2>3. [r EXCEPT !.step = "found"].step = "found" /\ [r EXCEPT !.step = "found"].edit = r.edit
        /\ [r EXCEPT !.step = "found"].doc = r.doc
    BY <1>2 DEF BraEntry
  <2> QED BY <1>1, <2>1, <2>2, <2>3
<1>4. branchCall'[c] = e => BraReplays(c)'
  BY <1>3 DEF BraReplays
<1>5. merges' \in 0..MaxMerges
  BY <1>1, BraAt DEF BraOthers
<1> QED BY <1>1, <1>2, <1>3, <1>4, <1>5, BraMoves

LEMMA BraBegin == ASSUME BraMaking, NEW c \in Calls, NEW how \in {"merge", "discard", "atomic"}, Bra!Begin(c, how) PROVE BraIInv'
<1> DEFINE e == [Bra!Idle EXCEPT !.step = how, !.rows = Bra!Page, !.left = Bra!Page]
<1>1. /\ branch = "open" /\ merges < MaxMerges /\ merges' = merges + 1 /\ Bra!Becomes(c, e)
      /\ UNCHANGED <<branch, overlay, doc, staged, reported, discarded, branchCrossed, branchCrashes>>
  BY DEF Bra!Begin, Bra!history
<1>2. Bra!Page \subseteq Bra!Row
  BY BraAt DEF Bra!Page
<1>3. e \in BraEntry /\ e.step = how /\ e.rows = Bra!Page /\ e.left = Bra!Page /\ e.edit = None
  BY <1>2 DEF Bra!Idle, BraEntry, BraSteps
<1> HIDE DEF e
<1>4. merges' \in 0..MaxMerges
  BY <1>1, BraAt DEF BraOthers, Bra!BranchesAssumption
<1>5. ASSUME BraSure, branchCall'[c] = e PROVE BraReplays(c)'
  <2>1. Bra!Page = overlay /\ BraKept
    BY <1>5, BraAt, BraWholePage
  <2>2. \A x \in staged : BraDone(x)' \/ \E y \in overlay : x \in y.edits
    BY <1>1, <2>1 DEF BraKept, BraDone
  <2> QED BY <1>1, <1>3, <1>5, <2>1, <2>2 DEF BraReplays
<1> QED BY <1>1, <1>3, <1>4, <1>5, BraMoves

(* A call that ends, having staged nothing and settled what it has.        *)
LEMMA BraEnds ==
  ASSUME BraMaking, NEW c \in Calls, Bra!Becomes(c, Bra!Idle), BraGrows, staged' = staged, BraOthers',
         branch # "open" => branch' # "open", BraIds', BraSure' => BraSure /\ BraKept'
  PROVE  BraIInv'
<1>1. branchCall'[c] = Bra!Idle => BraReplays(c)'
  BY BraAt, BraIdle DEF BraReplays
<1> QED BY <1>1, BraAt, BraIdle, BraStep

(* A row is left behind.                                                   *)
LEMMA BraLess ==
  ASSUME NEW r \in BraEntry, NEW x
  PROVE  LET e == [r EXCEPT !.left = r.left \ {x}]
         IN  e \in BraEntry /\ e.step = r.step /\ e.edit = r.edit /\ e.doc = r.doc /\ e.rows = r.rows /\ e.left = r.left \ {x}
<1>1. r.left \ {x} \in SUBSET Bra!Row
  BY DEF BraEntry
<1>2. ASSUME NEW l \in SUBSET Bra!Row
      PROVE  /\ [r EXCEPT !.left = l] \in BraEntry /\ [r EXCEPT !.left = l].left = l
             /\ [r EXCEPT !.left = l].step = r.step /\ [r EXCEPT !.left = l].edit = r.edit /\ [r EXCEPT !.left = l].doc = r.doc
             /\ [r EXCEPT !.left = l].rows = r.rows
  BY DEF BraEntry
<1> QED BY <1>1, <1>2

LEMMA BraMergeOne == ASSUME BraMaking, NEW c \in Calls, Bra!MergeOne(c) PROVE BraIInv'
<1> DEFINE r == branchCall[c]
<1>1. PICK x \in r.left :
        /\ \/ doc' = [doc EXCEPT ![x.doc] = doc[x.doc] \union x.edits] /\ UNCHANGED reported
           \/ reported' = reported \union x.edits /\ UNCHANGED doc
        /\ Bra!Becomes(c, [r EXCEPT !.left = r.left \ {x}])
  BY DEF Bra!MergeOne
<1>2. r.step = "merge" /\ UNCHANGED <<branch, overlay, staged, discarded, branchCrossed, merges, branchCrashes>>
  BY DEF Bra!MergeOne
<1>3. r \in BraEntry /\ x \in Bra!Row /\ x.doc \in Drafts /\ x.edits \subseteq Changes
  <2>1. r \in BraEntry
    BY BraAt
  <2>2. r.left \subseteq Bra!Row
    BY <2>1 DEF BraEntry
  <2>3. x \in Bra!Row
    BY <1>1, <2>2
  <2> QED BY <2>1, <2>3 DEF Bra!Row
<1> DEFINE e == [r EXCEPT !.left = r.left \ {x}]
<1>4. e \in BraEntry /\ e.step = r.step /\ e.edit = r.edit /\ e.doc = r.doc /\ e.rows = r.rows /\ e.left = r.left \ {x}
  BY <1>3, BraLess
<1>5. Bra!Becomes(c, e)
  BY <1>1
<1> HIDE DEF e
<1>6. doc \in [Drafts -> SUBSET Changes] /\ reported \subseteq Changes
  BY BraAt DEF BraOthers
<1>7. BraGrows /\ doc' \in [Drafts -> SUBSET Changes] /\ reported' \subseteq Changes /\ \A a \in x.edits : BraDone(a)'
  BY <1>1, <1>2, <1>3, <1>6 DEF BraGrows, BraDone
<1>8. BraOthers' /\ BraIds'
  BY <1>2, <1>7, BraAt DEF BraOthers, BraIds
<1>9. ASSUME BraSure' PROVE BraSure /\ BraKept' /\ (branchCall'[c] = e => BraReplays(c)')
  <2>1. BraReplays(c) /\ BraKept /\ BraSure
    BY <1>2, <1>9, BraAt
  <2>2. BraKept'
    BY <1>2, <1>7, <2>1, BraDoneStays DEF BraKept
  <2>3. ASSUME branchCall'[c] = e PROVE BraReplays(c)'
    <3>1. \A a \in staged' : BraDone(a)' \/ \E y \in e.rows : a \in y.edits
      BY <1>2, <1>4, <1>7, <2>1, BraDoneStays DEF BraReplays
    <3>2. \A y \in e.rows \ e.left : \A a \in y.edits : BraDone(a)'
      BY <1>2, <1>4, <1>7, <2>1, BraDoneStays DEF BraReplays
    <3> QED BY <1>2, <1>4, <2>3, <3>1, <3>2 DEF BraReplays
  <2> QED BY <2>1, <2>2, <2>3
<1> QED BY <1>2, <1>4, <1>5, <1>7, <1>8, <1>9, BraStep

LEMMA BraMarkMerged == ASSUME BraMaking, NEW c \in Calls, Bra!MarkMerged(c) PROVE BraIInv'
<1> DEFINE r == branchCall[c]  e == [r EXCEPT !.step = "drop", !.left = r.rows]
<1>1. /\ r.step = "merge" /\ r.left = {} /\ branch' = "merged" /\ Bra!Becomes(c, e)
      /\ branchCrossed' = (branchCrossed \/ branch # "open")
      /\ UNCHANGED <<overlay, doc, staged, reported, discarded, merges, branchCrashes>>
  BY DEF Bra!MarkMerged
<1>2. r \in BraEntry
  BY BraAt
<1>3. e \in BraEntry /\ e.step = "drop" /\ e.edit = r.edit
  BY <1>2 DEF BraEntry, BraSteps
<1> HIDE DEF e
<1>4. BraGrows /\ BraOthers' /\ BraIds'
  BY <1>1, BraAt DEF BraGrows, BraOthers, BraIds
<1>5. ASSUME BraSure' PROVE BraSure /\ BraKept' /\ (branchCall'[c] = e => BraReplays(c)')
  <2>1. BraReplays(c) /\ BraKept /\ BraSure
    BY <1>1, <1>5, BraAt
  <2>2. \A a \in staged : BraDone(a)
    BY <1>1, <2>1 DEF BraReplays
  <2>3. BraKept'
    BY <1>1, <1>4, <2>1, <2>2, BraDoneStays DEF BraKept
  <2> QED BY <1>3, <2>1, <2>3 DEF BraReplays
<1> QED BY <1>1, <1>3, <1>4, <1>5, BraStep

LEMMA BraDrop == ASSUME BraMaking, NEW c \in Calls, Bra!Drop(c) PROVE BraIInv'
<1> DEFINE r == branchCall[c]
<1>1. PICK x \in r.left :
        /\ overlay' = {o \in overlay : o.id # x.id}
        /\ branchCrossed' = (branchCrossed \/ \E o \in overlay : o.id = x.id /\ o # x)
        /\ discarded' = IF r.step = "discard" THEN discarded \union x.edits ELSE discarded
        /\ Bra!Becomes(c, [r EXCEPT !.left = r.left \ {x}])
  BY DEF Bra!Drop
<1>2. r.step \in {"drop", "discard"} /\ UNCHANGED <<branch, doc, staged, reported, merges, branchCrashes>>
  BY DEF Bra!Drop
<1>3. r \in BraEntry /\ x \in Bra!Row /\ x.edits \subseteq Changes /\ (r.step = "drop" => branch # "open")
  <2>1. r \in BraEntry /\ (r.step = "drop" => branch # "open")
    BY BraAt DEF BraKnows
  <2>2. r.left \subseteq Bra!Row
    BY <2>1 DEF BraEntry
  <2>3. x \in Bra!Row
    BY <1>1, <2>2
  <2> QED BY <2>1, <2>3 DEF Bra!Row
<1> DEFINE e == [r EXCEPT !.left = r.left \ {x}]
<1>4. e \in BraEntry /\ e.step = r.step /\ e.edit = r.edit /\ e.doc = r.doc /\ e.rows = r.rows /\ e.left = r.left \ {x}
  BY <1>3, BraLess
<1>5. Bra!Becomes(c, e)
  BY <1>1
<1> HIDE DEF e
<1>6. BraGrows /\ (r.step = "discard" => \A a \in x.edits : BraDone(a)')
  BY <1>1, <1>2 DEF BraGrows, BraDone
<1>7. BraOthers' /\ overlay' \subseteq overlay
  BY <1>1, <1>2, <1>3, BraAt DEF BraOthers
<1>8. BraIds'
  BY <1>2, <1>6, <1>7, BraAt, BraRowsGo
<1>9. ASSUME BraSure' PROVE BraSure /\ BraKept' /\ (branchCall'[c] = e => BraReplays(c)')
  <2>1. BraReplays(c) /\ BraKept /\ BraSure
    BY <1>1, <1>9, BraAt
  <2>2. \A o \in overlay \ overlay' : o = x
    BY <1>1, <1>9
  <2>3. branch = "open" => \A o \in overlay \ overlay' : \A a \in o.edits : BraDone(a)'
    BY <1>2, <1>3, <1>6, <2>2
  <2>4. BraKept'
    BY <1>2, <1>6, <1>7, <2>1, <2>3, BraAt, BraRowsGo
  <2>5. ASSUME branchCall'[c] = e, r.step = "discard" PROVE BraReplays(c)'
    <3>1. \A a \in staged' : BraDone(a)' \/ \E y \in e.rows : a \in y.edits
      BY <1>2, <1>4, <1>6, <2>1, <2>5, BraDoneStays DEF BraReplays
    <3>2. \A y \in e.rows \ e.left : \A a \in y.edits : BraDone(a)'
      BY <1>2, <1>4, <1>6, <2>1, <2>5, BraDoneStays DEF BraReplays
    <3> QED BY <1>4, <2>5, <3>1, <3>2 DEF BraReplays
  <2>6. ASSUME branchCall'[c] = e, r.step = "drop" PROVE BraReplays(c)'
    BY <1>4, <2>6 DEF BraReplays
  <2> QED BY <1>2, <2>1, <2>4, <2>5, <2>6
<1> QED BY <1>2, <1>3, <1>4, <1>5, <1>6, <1>7, <1>8, <1>9, BraStep

LEMMA BraDropped == ASSUME BraMaking, NEW c \in Calls, Bra!Dropped(c) \/ Bra!AtomicAbort(c) PROVE BraIInv'
<1>1. /\ Bra!Becomes(c, Bra!Idle)
      /\ UNCHANGED <<branch, overlay, doc, staged, reported, discarded, branchCrossed, merges, branchCrashes>>
  BY DEF Bra!Dropped, Bra!AtomicAbort, Bra!history
<1>2. BraGrows /\ BraOthers' /\ BraIds' /\ (BraSure => BraKept')
  BY <1>1, BraAt DEF BraGrows, BraOthers, BraIds, BraKept, BraDone
<1> QED BY <1>1, <1>2, BraEnds

LEMMA BraMarkDiscarded == ASSUME BraMaking, NEW c \in Calls, Bra!MarkDiscarded(c) PROVE BraIInv'
<1>1. /\ branchCall[c].step = "discard" /\ branchCall[c].left = {} /\ branch' = "discarded" /\ Bra!Becomes(c, Bra!Idle)
      /\ branchCrossed' = (branchCrossed \/ branch # "open")
      /\ UNCHANGED <<overlay, doc, staged, reported, discarded, merges, branchCrashes>>
  BY DEF Bra!MarkDiscarded
<1>2. BraGrows /\ BraOthers' /\ BraIds'
  BY <1>1, BraAt DEF BraGrows, BraOthers, BraIds
<1>3. ASSUME BraSure' PROVE BraSure /\ BraKept'
  <2>1. BraReplays(c) /\ BraKept /\ BraSure
    BY <1>1, <1>3, BraAt
  <2>2. \A a \in staged : BraDone(a)
    BY <1>1, <2>1 DEF BraReplays
  <2> QED BY <1>1, <1>2, <2>1, <2>2, BraDoneStays DEF BraKept
<1> QED BY <1>1, <1>2, <1>3, BraEnds

LEMMA BraAtomicOne == ASSUME BraMaking, NEW c \in Calls, Bra!AtomicOne(c) PROVE BraIInv'
<1> DEFINE r == branchCall[c]  f(l, m) == [r EXCEPT !.left = l, !.done = m]
<1>1. PICK x \in r.left : Bra!Becomes(c, f(r.left \ {x}, r.done \union {x}))
  BY DEF Bra!AtomicOne
<1>2. /\ r.step = "atomic"
      /\ UNCHANGED <<branch, overlay, doc, staged, reported, discarded, branchCrossed, merges, branchCrashes>>
  BY DEF Bra!AtomicOne, Bra!history
<1>3. r \in BraEntry /\ r.left \subseteq Bra!Row /\ r.done \subseteq Bra!Row
  <2>1. r \in BraEntry
    BY BraAt
  <2> QED BY <2>1 DEF BraEntry
<1>4. ASSUME NEW l \in SUBSET Bra!Row, NEW m \in SUBSET Bra!Row
      PROVE  /\ f(l, m) \in BraEntry /\ f(l, m).step = r.step /\ f(l, m).edit = r.edit /\ f(l, m).doc = r.doc
             /\ f(l, m).rows = r.rows /\ f(l, m).left = l /\ f(l, m).done = m
  BY <1>3 DEF BraEntry
<1> HIDE DEF f
<1>5. PICK e \in BraEntry : /\ Bra!Becomes(c, e) /\ e.step = "atomic" /\ e.edit = r.edit /\ e.rows = r.rows
                            /\ e.left = r.left \ {x} /\ e.done = r.done \union {x}
  <2>1. r.left \ {x} \in SUBSET Bra!Row /\ r.done \union {x} \in SUBSET Bra!Row
    BY <1>1, <1>3
  <2> QED BY <1>1, <1>2, <1>4, <2>1
<1>6. ASSUME BraSure, branchCall'[c] = e PROVE BraReplays(c)'
  <2>1. BraReplays(c)
    BY <1>6, BraAt
  <2>2. e.rows \subseteq e.left \union e.done
    BY <1>2, <1>5, <2>1 DEF BraReplays
  <2>3. \A a \in staged : BraDone(a)' \/ \E y \in e.rows : a \in y.edits
    BY <1>2, <1>5, <2>1 DEF BraReplays, BraDone
  <2> QED BY <1>2, <1>5, <1>6, <2>2, <2>3 DEF BraReplays
<1>7. merges' \in 0..MaxMerges
  BY <1>2, BraAt DEF BraOthers
<1> QED BY <1>2, <1>5, <1>6, <1>7, BraMoves

LEMMA BraAtomicCommit == ASSUME BraMaking, NEW c \in Calls, Bra!AtomicCommit(c) PROVE BraIInv'
<1> DEFINE r == branchCall[c]
<1>1. /\ r.step = "atomic" /\ r.left = {} /\ branch' = "merged" /\ Bra!Becomes(c, Bra!Idle)
      /\ doc' = [d \in Drafts |-> doc[d] \union Bra!EditsIn({x \in r.done : x.doc = d})]
      /\ overlay' = {o \in overlay : \A x \in r.rows : o.id # x.id}
      /\ branchCrossed' = (branchCrossed \/ branch # "open" \/ ~ r.rows \subseteq overlay)
      /\ UNCHANGED <<staged, reported, discarded, merges, branchCrashes>>
  BY DEF Bra!AtomicCommit
<1>2. r.done \subseteq Bra!Row
  <2>1. r \in BraEntry
    BY BraAt
  <2> QED BY <2>1 DEF BraEntry
<1>3. /\ \A d \in Drafts : doc'[d] = doc[d] \union {a \in Changes : \E x \in r.done : x.doc = d /\ a \in x.edits}
      /\ doc' \in [Drafts -> SUBSET Changes]
  <2>1. \A d \in Drafts : Bra!EditsIn({x \in r.done : x.doc = d}) = {a \in Changes : \E x \in r.done : x.doc = d /\ a \in x.edits}
    BY <1>2 DEF Bra!EditsIn, Bra!Row
  <2>2. doc \in [Drafts -> SUBSET Changes]
    BY BraAt DEF BraOthers
  <2> QED BY <1>1, <2>1, <2>2
<1>4. BraGrows
  BY <1>1, <1>3 DEF BraGrows
<1>5. BraOthers' /\ overlay' \subseteq overlay
  BY <1>1, <1>3, BraAt DEF BraOthers
<1>6. BraIds'
  BY <1>1, <1>4, <1>5, BraAt, BraRowsGo
<1>7. ASSUME BraSure' PROVE BraSure /\ BraKept'
  <2>1. BraReplays(c) /\ BraKept /\ BraSure
    BY <1>1, <1>7, BraAt
  <2>2. ASSUME NEW a \in staged PROVE BraDone(a)'
    <3>1. CASE BraDone(a)
      BY <1>4, <3>1, BraDoneStays
    <3>2. ASSUME NEW x \in r.rows, a \in x.edits PROVE BraDone(a)'
      <4>1. x \in r.done /\ x.doc \in Drafts /\ a \in Changes
        BY <1>1, <1>2, <2>1, <3>2 DEF BraReplays, Bra!Row
      <4> QED BY <1>3, <3>2, <4>1 DEF BraDone
    <3> QED BY <1>1, <2>1, <3>1, <3>2 DEF BraReplays
  <2> QED BY <1>1, <1>5, <2>1, <2>2 DEF BraKept
<1> QED BY <1>1, <1>4, <1>5, <1>6, <1>7, BraEnds

LEMMA BraCrash == ASSUME BraMaking, Bra!Crash PROVE BraIInv'
<1>1. /\ branchCrashes < MaxCrashes /\ branchCrashes' = branchCrashes + 1 /\ branchCall' = [c \in Calls |-> Bra!Idle]
      /\ UNCHANGED <<branch, overlay, doc, staged, reported, discarded, branchCrossed, merges>>
  BY DEF Bra!Crash, Bra!history
<1>2. BraOthers' /\ BraIds' /\ (BraSure => BraKept')
  BY <1>1, BraAt DEF BraOthers, BraIds, BraKept, BraDone, Bra!BranchesAssumption
<1>3. \A c \in Calls : branchCall'[c] = Bra!Idle
  BY <1>1
<1>4. \A c \in Calls : BraKnows(c)' /\ BraReplays(c)'
  BY <1>1, <1>3, BraAt, BraIdle DEF BraKnows, BraReplays, BraOthers
<1>5. branchCall' \in [Calls -> BraEntry]
  BY <1>1, BraAt, BraIdle
<1> QED BY <1>1, <1>2, <1>4, <1>5, BraTypeOK DEF BraIInv, BraTyped

LEMMA BraStageWrite == ASSUME BraMaking, NEW c \in Calls, Bra!StageWrite(c) PROVE BraIInv'
<1> DEFINE r == branchCall[c]
           new == [id |-> Bra!NextId, doc |-> r.doc, edits |-> {r.edit}]
           f(old, x) == IF x.id = old.id THEN [x EXCEPT !.edits = old.edits \union {r.edit}] ELSE x
<1>1. /\ r.step = "found" /\ staged' = staged \union {r.edit} /\ Bra!Becomes(c, Bra!Idle)
      /\ branchCrossed' = (branchCrossed \/ branch # "open" \/ Bra!OverlayRow(r.doc) # r.rows \/ Bra!Replaying(c) # {})
      /\ UNCHANGED <<branch, doc, reported, discarded, merges, branchCrashes>>
  BY DEF Bra!StageWrite
<1>2. IF r.rows = {} THEN overlay' = overlay \union {new}
      ELSE \E old \in r.rows : overlay' = {f(old, x) : x \in overlay}
  BY DEF Bra!StageWrite, Bra!Combined
<1>3. /\ r \in BraEntry /\ r.edit \in Changes /\ r.edit \notin staged /\ r.doc \in Drafts /\ r.rows \subseteq Bra!Row
      /\ \A d \in Calls \ {c} : branchCall[d].edit # r.edit
  <2>1. r \in BraEntry /\ r.edit # None /\ r.doc # None /\ r.edit \notin staged /\ \A d \in Calls \ {c} : branchCall[d].edit # r.edit
    BY <1>1, BraAt DEF BraKnows
  <2> QED BY <2>1 DEF BraEntry
<1>4. /\ IsFiniteSet(staged') /\ Cardinality(staged) \in Nat /\ Cardinality(staged') = Cardinality(staged) + 1
      /\ Bra!NextId = Cardinality(staged) /\ staged' \subseteq Changes
  BY <1>1, <1>3, BraAt, BraCardinality, FS_CardinalityType, FS_AddElement DEF BraIds, Bra!NextId, BraOthers
<1>5. /\ \A x \in overlay : x \in Bra!Row /\ x.id \in Nat /\ x.id < Cardinality(staged)
      /\ \A x, y \in overlay : x.id = y.id => x = y
  BY BraAt DEF BraIds, Bra!Row
<1>6. /\ new \in Bra!Row /\ new.id = Cardinality(staged) /\ new.doc = r.doc /\ new.edits = {r.edit}
  BY <1>3, <1>4 DEF Bra!Row
<1>7. ASSUME NEW old \in r.rows, NEW x \in overlay
      PROVE  /\ f(old, x) \in Bra!Row /\ f(old, x).id = x.id /\ f(old, x).doc = x.doc
             /\ f(old, x).edits = IF x.id = old.id THEN old.edits \union {r.edit} ELSE x.edits
  <2>1. x \in Bra!Row /\ old.edits \union {r.edit} \in SUBSET Changes
    BY <1>3, <1>5 DEF Bra!Row
  <2>2. ASSUME NEW E \in SUBSET Changes
        PROVE  /\ [x EXCEPT !.edits = E] \in Bra!Row /\ [x EXCEPT !.edits = E].id = x.id
               /\ [x EXCEPT !.edits = E].doc = x.doc /\ [x EXCEPT !.edits = E].edits = E
    BY <2>1 DEF Bra!Row
  <2> QED BY <2>1, <2>2
<1> HIDE DEF new, f
<1>8. overlay' \subseteq Bra!Row /\ BraIds'
  <2>1. CASE r.rows = {}
    <3>1. \A x \in overlay' : x.id < Cardinality(staged')
      BY <1>2, <1>4, <1>5, <1>6, <2>1
    <3>2. \A x, y \in overlay' : x.id = y.id => x = y
      BY <1>2, <1>4, <1>5, <1>6, <2>1
    <3> QED BY <1>2, <1>4, <1>5, <1>6, <2>1, <3>1, <3>2 DEF BraIds
  <2>2. ASSUME NEW old \in r.rows, overlay' = {f(old, x) : x \in overlay} PROVE overlay' \subseteq Bra!Row /\ BraIds'
    <3>0. ASSUME NEW y \in overlay' PROVE \E x \in overlay : y = f(old, x) /\ y \in Bra!Row /\ y.id = x.id
      <4>1. PICK x \in overlay : y = f(old, x)
        BY <2>2
      <4> QED BY <1>7, <4>1
    <3>1. ASSUME NEW y \in overlay' PROVE y \in Bra!Row /\ y.id < Cardinality(staged')
      <4>1. PICK x \in overlay : y \in Bra!Row /\ y.id = x.id
        BY <3>0
      <4>2. x.id \in Nat /\ x.id < Cardinality(staged)
        BY <1>5
      <4> QED BY <1>4, <4>1, <4>2
    <3>2. ASSUME NEW y \in overlay', NEW z \in overlay', y.id = z.id PROVE y = z
      <4>1. PICK x \in overlay : y = f(old, x) /\ y.id = x.id
        BY <3>0
      <4>2. PICK w \in overlay : z = f(old, w) /\ z.id = w.id
        BY <3>0
      <4> QED BY <1>5, <3>2, <4>1, <4>2
    <3> QED BY <1>4, <3>1, <3>2 DEF BraIds
  <2> QED BY <1>2, <2>1, <2>2
<1>9. BraGrows /\ BraOthers'
  BY <1>1, <1>4, <1>8, BraAt DEF BraGrows, BraOthers
<1>10. /\ branchCall' \in [Calls -> BraEntry] /\ (\A d \in Calls : BraKnows(d)')
       /\ branchCall'[c] = Bra!Idle /\ \A d \in Calls \ {c} : branchCall'[d] = branchCall[d]
  <2>1. \A d \in Calls \ {c} : branchCall[d].edit \notin staged'
    BY <1>1, <1>3, BraAt DEF BraKnows
  <2>2. Bra!Idle \in BraEntry /\ Bra!Idle.edit = None /\ None \notin staged' /\ Bra!Idle.step = "idle"
    BY <1>4, BraAt, BraIdle
  <2> QED BY <1>1, <2>1, <2>2, BraAt, BraGoesOn
<1>11. ASSUME BraSure' PROVE BraKept' /\ \A d \in Calls : BraReplays(d)'
  <2>1. BraSure /\ branch = "open" /\ Bra!OverlayRow(r.doc) = r.rows /\ Bra!Replaying(c) = {} /\ BraKept
    BY <1>1, <1>11, BraAt
  <2>2. ASSUME NEW d \in Calls PROVE BraReplays(d)'
    <3>1. branchCall'[d].step \notin {"merge", "discard", "atomic"}
      BY <1>10, <2>1, BraAt, BraIdle DEF Bra!Replaying
    <3> QED BY <3>1 DEF BraReplays
  <2>3. \A e \in staged' : BraDone(e)' \/ e = r.edit \/ \E x \in overlay : e \in x.edits
    BY <1>1, <1>9, <2>1, BraDoneStays DEF BraKept
  <2>4. CASE r.rows = {}
    <3>1. \A x, y \in overlay' : x.doc = y.doc => x = y
      BY <1>2, <1>6, <2>1, <2>4 DEF BraKept, Bra!OverlayRow
    <3>2. \A e : e = r.edit \/ (\E x \in overlay : e \in x.edits) => \E x \in overlay' : e \in x.edits
      BY <1>2, <1>6, <2>4
    <3> QED BY <1>1, <2>1, <2>2, <2>3, <3>1, <3>2 DEF BraKept
  <2>5. ASSUME NEW old \in r.rows, overlay' = {f(old, x) : x \in overlay} PROVE BraKept'
    <3>1. old \in overlay
      BY <2>1 DEF Bra!OverlayRow
    <3>2. ASSUME NEW y \in overlay', NEW z \in overlay', y.doc = z.doc PROVE y = z
      <4>1. PICK x \in overlay : y = f(old, x)
        BY <2>5
      <4>2. PICK w \in overlay : z = f(old, w)
        BY <2>5
      <4>3. y.doc = x.doc /\ z.doc = w.doc
        BY <1>7, <4>1, <4>2
      <4> QED BY <2>1, <3>2, <4>1, <4>2, <4>3 DEF BraKept
    <3>3. ASSUME NEW e, e = r.edit \/ \E x \in overlay : e \in x.edits PROVE \E x \in overlay' : e \in x.edits
      <4>1. f(old, old) \in overlay' /\ e = r.edit => e \in f(old, old).edits
        BY <1>7, <3>1
      <4>2. ASSUME NEW x \in overlay, e \in x.edits PROVE f(old, x) \in overlay' /\ e \in f(old, x).edits
        BY <1>5, <1>7, <2>5, <3>1, <4>2
      <4>3. f(old, old) \in overlay'
        BY <2>5, <3>1
      <4> QED BY <3>3, <4>1, <4>2, <4>3
    <3> QED BY <1>1, <2>1, <2>3, <3>2, <3>3 DEF BraKept
  <2> QED BY <1>2, <2>2, <2>4, <2>5
<1> QED BY <1>8, <1>9, <1>10, <1>11, BraTypeOK DEF BraIInv, BraTyped

LEMMA BraInitIInv == Bra!BranchesAssumption /\ Bra!Init => BraIInv
<1> SUFFICES ASSUME Bra!BranchesAssumption, Bra!Init PROVE BraIInv
  OBVIOUS
<1>1. /\ branch = "open" /\ overlay = {} /\ doc = [d \in Drafts |-> {}] /\ branchCall = [c \in Calls |-> Bra!Idle]
      /\ staged = {} /\ reported = {} /\ discarded = {} /\ branchCrossed = FALSE /\ merges = 0 /\ branchCrashes = 0
  BY DEF Bra!Init
<1>2. BraOthers
  <2>1. 0 \in 0..MaxMerges /\ 0 \in 0..MaxCrashes
    BY DEF Bra!BranchesAssumption
  <2>2. doc \in [Drafts -> SUBSET Changes]
    BY <1>1
  <2> QED BY <1>1, <2>1, <2>2 DEF BraOthers
<1>3. branchCall \in [Calls -> BraEntry] /\ \A c \in Calls : branchCall[c] = Bra!Idle
  BY <1>1, BraIdle
<1>4. BraIds /\ \A c \in Calls : BraKnows(c)
  BY <1>1, <1>3, BraIdle, FS_EmptySet DEF BraIds, BraKnows
<1>5. BraKept /\ \A c \in Calls : BraReplays(c)
  BY <1>1, <1>3, BraIdle DEF BraKept, BraReplays
<1> QED BY <1>2, <1>3, <1>4, <1>5, BraTypeOK DEF BraIInv, BraTyped

LEMMA BraStepIInv == BraMaking /\ [Bra!Next]_Bra!vars => BraIInv'
<1> SUFFICES ASSUME BraMaking, [Bra!Next]_Bra!vars PROVE BraIInv'
  OBVIOUS
<1>1. ASSUME NEW c \in Calls, Bra!Stage(c) PROVE BraIInv'
  BY <1>1, BraStageBegin, BraStageFind, BraStageWrite DEF Bra!Stage
<1>2. ASSUME NEW c \in Calls, Bra!Merge(c) PROVE BraIInv'
  BY <1>2, BraMergeOne, BraMarkMerged, BraDrop, BraDropped, BraMarkDiscarded DEF Bra!Merge
<1>3. ASSUME NEW c \in Calls, Bra!Atomic(c) PROVE BraIInv'
  BY <1>3, BraAtomicOne, BraAtomicCommit, BraDropped DEF Bra!Atomic
<1>4. CASE UNCHANGED Bra!vars
  <2>1. UNCHANGED <<branch, overlay, doc, branchCall, staged, reported, discarded, branchCrossed, merges, branchCrashes>>
    BY <1>4 DEF Bra!vars, Bra!history
  <2>2. BraTyped'
    BY <2>1, BraTypeOK DEF BraMaking, BraIInv, BraTyped, BraOthers, BraIds, BraKnows
  <2>3. (BraSure => BraKept /\ \A c \in Calls : BraReplays(c))'
    BY <2>1 DEF BraMaking, BraIInv, BraKept, BraReplays, BraDone
  <2> QED BY <2>2, <2>3 DEF BraIInv
<1> QED BY <1>1, <1>2, <1>3, <1>4, BraBegin, BraCrash DEF Bra!Next

LEMMA BraRuns == (Init => Bra!Init) /\ ([Next]_vars => [Bra!Next]_Bra!vars)
<1>1. Init => Bra!Init
  BY DEF Init
<1>2. [Next]_vars => [Bra!Next]_Bra!vars
  BY DEF Next, vars, branches, Bra!vars, Bra!history
<1> QED BY <1>1, <1>2

LEMMA BraAlways == Spec => []BraIInv
<1>1. Bra!BranchesAssumption
  BY ServicesAssumption DEF ServicesAssumption
<1>2. Init => BraIInv
  BY <1>1, BraRuns, BraInitIInv
<1>3. BraIInv /\ [Next]_vars => BraIInv'
  BY <1>1, BraRuns, BraStepIInv DEF BraMaking
<1> QED BY <1>2, <1>3, PTL DEF Spec

(* No edit whose staging has returned is lost, after crashes, retries and  *)
(* merges in either mode, unless a call wrote over what had changed since  *)
(* it read it; the drafts fit one page, which is all that mergeBranch      *)
(* reads.  It needs that a call which replays or discards the overlay had  *)
(* all of it, and that what it has left behind has reached its document or *)
(* been reported.                                                          *)
THEOREM StagedEditsAreKept ==
  ASSUME BraOnePage
  PROVE  Spec => []NoEditIsLost
<1>1. BraIInv => NoEditIsLost
  <2>1. ASSUME NEW e, NEW x \in overlay, e \in x.edits PROVE e \in Bra!EditsIn(overlay)
    BY <2>1 DEF Bra!EditsIn
  <2> QED BY <2>1 DEF BraIInv, BraKept, BraDone, NoEditIsLost, Bra!NoEditIsLost
<1> QED BY <1>1, BraAlways, PTL

-----------------------------------------------------------------------------
(* Preview.  A patch that is under way is a value of the field.            *)
PreTyped == Pre!TypeOK /\ \A i \in 1..Len(up) : up[i].kind = "patch" => up[i].value \in Pre!Values

(* Before the page listens nothing is said.                                *)
PreQuiet ==
  /\ ~ ready /\ ~ paused /\ ~ scheduled /\ lastSent = None /\ down = <<>> /\ up = <<>>
  /\ ~ page.loaded /\ ~ page.edited

(* The last message the page was sent, under way or received.              *)
PreSent == lastSent = IF down = <<>> THEN page.data ELSE down[Len(down)]

(* Nothing under way pauses the form for good: the end of an edit comes    *)
(* after every start.                                                      *)
PreEnding(i) == up[i].kind = "edit-end" /\ \A j \in i + 1..Len(up) : up[j].kind # "edit-start"
PreResumes ==
  \/ \E i \in 1..Len(up) : PreEnding(i)
  \/ ~ paused /\ \A j \in 1..Len(up) : up[j].kind # "edit-start"

PreCarried ==
  /\ ~ page.listens => PreQuiet
  /\ PreSent
  /\ page.loaded => ready
  /\ ready /\ ~ paused /\ ~ scheduled => lastSent = rendered
  /\ ~ page.edited => PreResumes

(* The page listens before the frame loads, and is not reloaded.           *)
PreSure == ~ LoadsEarly /\ reloads = 0

PreIInv == PreTyped /\ (PreSure => PreCarried)

USE DEF PreSure

PreMessage == [kind: {"ready", "edit-start", "patch", "edit-end"}, value: Pre!Values \union {None}]
PrePage == [listens: BOOLEAN, loaded: BOOLEAN, data: Pre!Values \union {None}, shown: Texts \union {None},
            edited: BOOLEAN, original: Texts \union {None}, timer: BOOLEAN]

PreEditor ==
  /\ form \in Pre!Values /\ rendered \in Pre!Values /\ lastSent \in Pre!Values \union {None}
  /\ ready \in BOOLEAN /\ paused \in BOOLEAN /\ scheduled \in BOOLEAN
PreSpoken == up \in Seq(PreMessage) /\ \A i \in 1..Len(up) : up[i].kind = "patch" => up[i].value \in Pre!Values
PreBounds == inputs \in 0..MaxInputs /\ reloads \in 0..MaxReloads

LEMMA PreTypeOK ==
  /\ PreTyped <=> PreEditor /\ page \in PrePage /\ down \in Seq(Pre!Values) /\ PreSpoken /\ PreBounds
  /\ (PreTyped <=> PreEditor /\ page \in PrePage /\ down \in Seq(Pre!Values) /\ PreSpoken /\ PreBounds)'
BY DEF PreTyped, Pre!TypeOK, PreEditor, PrePage, PreMessage, PreSpoken, PreBounds

PreMaking == Pre!PreviewAssumption /\ PreIInv

LEMMA PreAt ==
  ASSUME PreMaking
  PROVE  /\ PreEditor /\ page \in PrePage /\ down \in Seq(Pre!Values) /\ PreSpoken /\ PreBounds
         /\ PreSure => PreCarried
BY PreTypeOK DEF PreMaking, PreIInv

(* Posting sends the form as rendered, unless it was sent last.            *)
LEMMA PrePosts ==
  ASSUME PreEditor, down \in Seq(Pre!Values), NEW p \in BOOLEAN, Pre!Post(p)
  PROVE  /\ lastSent' \in Pre!Values \union {None} /\ down' \in Seq(Pre!Values)
         /\ ~ p => lastSent' = rendered
         /\ PreSent /\ page'.data = page.data => PreSent'
<1>1. CASE p \/ rendered = lastSent
  BY <1>1 DEF Pre!Post, PreEditor, PreSent
<1>2. CASE ~ (p \/ rendered = lastSent)
  <2>1. lastSent' = rendered /\ down' = Append(down, rendered) /\ rendered \in Pre!Values
    BY <1>2 DEF Pre!Post, PreEditor
  <2>2. down' \in Seq(Pre!Values) /\ down' # <<>> /\ down'[Len(down')] = rendered
    BY <2>1
  <2> QED BY <2>1, <2>2 DEF PreSent
<1> QED BY <1>1, <1>2

(* The form receives a message.                                            *)
LEMMA PreReceives ==
  ASSUME PreSpoken, NEW kind, Pre!Receive(kind),
         paused' = IF kind = "edit-start" THEN TRUE ELSE IF kind = "edit-end" THEN FALSE ELSE paused
  PROVE  PreSpoken' /\ Head(up) = up[1] /\ 1 \in 1..Len(up) /\ up[1].kind = kind /\ (PreResumes => PreResumes')
<1>1. /\ up # <<>> /\ up \in Seq(PreMessage) /\ up' = Tail(up) /\ Head(up) = up[1] /\ up[1].kind = kind
      /\ Len(up) \in Nat /\ 1 \in 1..Len(up)
  BY DEF Pre!Receive, PreSpoken
<1>2. up' \in Seq(PreMessage) /\ Len(up') = Len(up) - 1 /\ \A i \in 1..Len(up') : up'[i] = up[i + 1] /\ i + 1 \in 1..Len(up)
  BY <1>1
<1>3. PreSpoken'
  BY <1>2 DEF PreSpoken
<1>4. ASSUME NEW i \in 1..Len(up), PreEnding(i) PROVE PreResumes'
  <2>1. CASE i = 1
    <3>1. kind = "edit-end" /\ ~ paused'
      BY <1>1, <1>4, <2>1 DEF PreEnding
    <3>2. ASSUME NEW j \in 1..Len(up') PROVE up'[j].kind # "edit-start"
      <4>1. j + 1 \in i + 1..Len(up) /\ up'[j] = up[j + 1]
        BY <1>1, <1>2, <2>1
      <4> QED BY <1>4, <4>1 DEF PreEnding
    <3> QED BY <3>1, <3>2 DEF PreResumes
  <2>2. CASE i # 1
    <3> DEFINE k == i - 1
    <3>1. k \in 1..Len(up') /\ up'[k] = up[i]
      BY <1>1, <1>2, <2>2
    <3>2. ASSUME NEW j \in k + 1..Len(up') PROVE up'[j].kind # "edit-start"
      <4>1. j \in 1..Len(up') /\ j + 1 \in i + 1..Len(up)
        BY <1>1, <1>2, <2>2
      <4> QED BY <1>2, <1>4, <4>1 DEF PreEnding
    <3>3. up'[k].kind = "edit-end"
      BY <1>4, <3>1 DEF PreEnding
    <3> HIDE DEF k
    <3> QED BY <3>1, <3>2, <3>3 DEF PreResumes, PreEnding
  <2> QED BY <2>1, <2>2
<1>5. ASSUME ~ paused, \A j \in 1..Len(up) : up[j].kind # "edit-start" PROVE PreResumes'
  <2>1. kind # "edit-start" /\ ~ paused'
    BY <1>1, <1>5
  <2> QED BY <1>2, <1>5, <2>1 DEF PreResumes
<1> QED BY <1>1, <1>3, <1>4, <1>5 DEF PreResumes

(* The page sends one.                                                     *)
LEMMA PreSends ==
  ASSUME NEW u \in Seq(PreMessage), \A i \in 1..Len(u) : u[i].kind = "patch" => u[i].value \in Pre!Values,
         NEW kind \in {"ready", "edit-start", "edit-end"}, up' = Append(u, Pre!Message(kind))
  PROVE  PreSpoken' /\ (kind = "edit-end" => PreResumes')
<1>1. Pre!Message(kind) \in PreMessage /\ Pre!Message(kind).kind = kind
  BY DEF Pre!Message, PreMessage
<1>2. /\ up' \in Seq(PreMessage) /\ Len(up') = Len(u) + 1 /\ Len(u) \in Nat /\ up'[Len(u) + 1].kind = kind
      /\ \A i \in 1..Len(u) : up'[i] = u[i]
  BY <1>1
<1>3. PreSpoken'
  BY <1>2 DEF PreSpoken
<1>4. ASSUME kind = "edit-end" PROVE PreResumes'
  <2>1. Len(up') \in 1..Len(up') /\ up'[Len(up')].kind = "edit-end" /\ Len(up') + 1..Len(up') = {}
    BY <1>2, <1>4
  <2> QED BY <2>1 DEF PreResumes, PreEnding
<1> QED BY <1>3, <1>4

(* What it has patched is a value.                                         *)
LEMMA PrePatches ==
  ASSUME PreSpoken, page \in PrePage
  PROVE  /\ up \o Pre!Patch \in Seq(PreMessage)
         /\ \A i \in 1..Len(up \o Pre!Patch) : (up \o Pre!Patch)[i].kind = "patch" => (up \o Pre!Patch)[i].value \in Pre!Values
<1>1. CASE page.shown \in Pre!Values
  <2> DEFINE m == [kind |-> "patch", value |-> page.shown]
  <2>1. m \in PreMessage /\ m.value \in Pre!Values
    BY <1>1 DEF PreMessage
  <2>2. up \o Pre!Patch = Append(up, m)
    BY <1>1, <2>1 DEF Pre!Patch, PreSpoken
  <2> HIDE DEF m
  <2> QED BY <2>1, <2>2 DEF PreSpoken
<1>2. CASE page.shown \notin Pre!Values
  BY <1>2 DEF Pre!Patch, PreSpoken
<1> QED BY <1>1, <1>2

LEMMA PreInitIInv == Pre!PreviewAssumption /\ Pre!Init => PreIInv
<1> SUFFICES ASSUME Pre!PreviewAssumption, Pre!Init PROVE PreIInv
  OBVIOUS
<1>1. /\ form \in Pre!Values /\ rendered = form /\ ready = FALSE /\ paused = FALSE /\ scheduled = FALSE /\ lastSent = None
      /\ down = <<>> /\ up = <<>> /\ inputs = 0 /\ reloads = 0 /\ page = Pre!NewPage
  BY DEF Pre!Init
<1>2. page \in PrePage /\ ~ page.listens /\ page.data = None /\ ~ page.loaded /\ ~ page.edited
  BY <1>1 DEF Pre!NewPage, PrePage
<1>3. PreTyped
  <2>1. 0 \in 0..MaxInputs /\ 0 \in 0..MaxReloads
    BY DEF Pre!PreviewAssumption
  <2>2. down \in Seq(Pre!Values) /\ PreSpoken
    BY <1>1 DEF PreSpoken
  <2> QED BY <1>1, <1>2, <2>1, <2>2, PreTypeOK DEF PreEditor, PreBounds
<1>4. PreCarried
  BY <1>1, <1>2 DEF PreCarried, PreQuiet, PreSent, PreResumes
<1> QED BY <1>3, <1>4 DEF PreIInv

(* The form's own steps: typing, rendering, posting.                       *)
LEMMA PreFormStep ==
  ASSUME PreMaking, Pre!Type \/ Pre!Render \/ Pre!AnimationFrame
  PROVE  PreIInv'
<1>1. UNCHANGED <<ready, paused, page, up, reloads>> /\ inputs' \in 0..MaxInputs
  BY PreAt DEF Pre!Type, Pre!Render, Pre!AnimationFrame, Pre!bounds, PreBounds, Pre!PreviewAssumption, PreMaking
<1>2. /\ PreEditor' /\ down' \in Seq(Pre!Values) /\ (PreSent => PreSent')
      /\ ~ ready => UNCHANGED <<lastSent, down, scheduled>> \/ scheduled
      /\ ready /\ ~ paused /\ ~ scheduled' => lastSent' = rendered' \/ (rendered' = rendered /\ lastSent' = lastSent /\ ~ scheduled)
  <2>1. CASE Pre!Type
    BY <2>1, PreAt DEF Pre!Type, PreEditor, PreSent
  <2>2. CASE Pre!Render
    BY <2>2, PreAt DEF Pre!Render, PreEditor, PreSent
  <2>3. CASE Pre!AnimationFrame
    <3>1. Pre!Post(paused) /\ scheduled /\ scheduled' = FALSE /\ UNCHANGED <<form, rendered, ready, paused, page>>
      BY <2>3 DEF Pre!AnimationFrame
    <3>2. paused \in BOOLEAN
      BY PreAt DEF PreEditor
    <3>3. /\ lastSent' \in Pre!Values \union {None} /\ down' \in Seq(Pre!Values) /\ (~ paused => lastSent' = rendered)
          /\ PreSent => PreSent'
      BY <3>1, <3>2, PreAt, PrePosts
    <3> QED BY <3>1, <3>3, PreAt DEF PreEditor
  <2> QED BY <2>1, <2>2, <2>3
<1>3. PreTyped'
  BY <1>1, <1>2, PreAt, PreTypeOK DEF PreSpoken, PreBounds
<1>4. ASSUME PreSure' PROVE PreCarried'
  BY <1>1, <1>2, <1>4, PreAt DEF PreCarried, PreQuiet, PreResumes, PreEnding
<1> QED BY <1>3, <1>4 DEF PreIInv

(* The frame has loaded.                                                   *)
LEMMA PreLoad == ASSUME PreMaking, Pre!Load PROVE PreIInv'
<1>1. /\ LoadsEarly \/ page.listens
      /\ page' = [page EXCEPT !.loaded = TRUE] /\ ready' = TRUE /\ Pre!Post(paused)
      /\ UNCHANGED <<form, rendered, paused, scheduled, up, inputs, reloads>>
  BY DEF Pre!Load, Pre!bounds, PreMaking
<1>2. page' \in PrePage /\ page'.listens = page.listens /\ page'.data = page.data /\ page'.edited = page.edited
  BY <1>1, PreAt DEF PrePage
<1>3. paused \in BOOLEAN
  BY PreAt DEF PreEditor
<1>4. /\ lastSent' \in Pre!Values \union {None} /\ down' \in Seq(Pre!Values) /\ (~ paused => lastSent' = rendered)
      /\ PreSent => PreSent'
  BY <1>1, <1>2, <1>3, PreAt, PrePosts
<1>5. PreTyped'
  BY <1>1, <1>2, <1>4, PreAt, PreTypeOK DEF PreSpoken, PreBounds, PreEditor
<1>6. ASSUME PreSure' PROVE PreCarried'
  BY <1>1, <1>2, <1>4, <1>6, PreAt DEF PreCarried, PreResumes, PreEnding
<1> QED BY <1>5, <1>6 DEF PreIInv

(* Messages of the page.                                                   *)
LEMMA PreHears ==
  ASSUME PreMaking, Pre!OnReady \/ Pre!OnEditStart \/ Pre!OnPatch \/ Pre!OnEditEnd
  PROVE  PreIInv'
<1>1. PICK kind \in {"ready", "edit-start", "patch", "edit-end"} :
        /\ Pre!Receive(kind)
        /\ paused' = IF kind = "edit-start" THEN TRUE ELSE IF kind = "edit-end" THEN FALSE ELSE paused
        /\ UNCHANGED <<page, inputs, reloads, rendered, scheduled>>
        /\ ready' = (ready \/ kind = "ready")
        /\ form' = IF kind = "patch" THEN Head(up).value ELSE form
        /\ IF kind \in {"ready", "edit-end"} THEN Pre!Post(paused') ELSE UNCHANGED <<lastSent, down>>
  BY PreAt DEF Pre!OnReady, Pre!OnEditStart, Pre!OnPatch, Pre!OnEditEnd, Pre!bounds, PreEditor
<1>2. PreSpoken' /\ Head(up) = up[1] /\ 1 \in 1..Len(up) /\ up[1].kind = kind /\ (PreResumes => PreResumes')
  BY <1>1, PreAt, PreReceives
<1>3. paused' \in BOOLEAN
  BY <1>1, PreAt DEF PreEditor
<1>4. form' \in Pre!Values
  BY <1>1, <1>2, PreAt DEF PreEditor, PreSpoken
<1>5. /\ lastSent' \in Pre!Values \union {None} /\ down' \in Seq(Pre!Values)
      /\ ready' /\ ~ paused' /\ ~ scheduled' => lastSent' = rendered' \/ (ready /\ ~ paused /\ ~ scheduled /\ lastSent' = lastSent)
      /\ PreSent => PreSent'
  <2>1. CASE kind \in {"ready", "edit-end"}
    <3>1. Pre!Post(paused')
      BY <1>1, <2>1
    <3>2. /\ lastSent' \in Pre!Values \union {None} /\ down' \in Seq(Pre!Values) /\ (~ paused' => lastSent' = rendered)
          /\ PreSent => PreSent'
      BY <1>1, <1>3, <3>1, PreAt, PrePosts
    <3> QED BY <1>1, <3>2
  <2>2. CASE kind \notin {"ready", "edit-end"}
    BY <1>1, <2>2, PreAt DEF PreEditor, PreSent
  <2> QED BY <2>1, <2>2
<1>6. PreTyped'
  BY <1>1, <1>2, <1>3, <1>4, <1>5, PreAt, PreTypeOK DEF PreBounds, PreEditor
<1>7. ASSUME PreSure' PROVE PreCarried'
  <2>1. PreSure /\ PreCarried
    BY <1>1, <1>7, PreAt
  <2>2. page'.listens
    BY <1>1, <1>2, <2>1 DEF PreCarried, PreQuiet
  <2> QED BY <1>1, <1>2, <1>5, <2>1, <2>2 DEF PreCarried
<1> QED BY <1>6, <1>7 DEF PreIInv

(* The page listens, or receives what it was sent.                         *)
LEMMA PreListens ==
  ASSUME PreMaking, Pre!Listen \/ Pre!OnMessage
  PROVE  PreIInv'
<1>1. UNCHANGED <<form, rendered, ready, paused, scheduled, lastSent, inputs, reloads>>
  BY DEF Pre!Listen, Pre!OnMessage, Pre!editor, Pre!bounds
<1>2. CASE Pre!Listen
  <2>1. ~ page.listens /\ page' = [page EXCEPT !.listens = TRUE] /\ up' = Append(up, Pre!Message("ready")) /\ down' = down
    BY <1>2 DEF Pre!Listen
  <2>2. /\ page' \in PrePage /\ page'.listens /\ page'.data = page.data /\ page'.loaded = page.loaded
        /\ page'.edited = page.edited
    BY <2>1, PreAt DEF PrePage
  <2>3. up \in Seq(PreMessage) /\ \A i \in 1..Len(up) : up[i].kind = "patch" => up[i].value \in Pre!Values
    BY PreAt DEF PreSpoken
  <2>4. PreSpoken'
    BY <2>1, <2>3, PreSends
  <2>5. PreTyped'
    BY <1>1, <2>1, <2>2, <2>4, PreAt, PreTypeOK DEF PreEditor, PreBounds
  <2>6. ASSUME PreSure' PROVE PreCarried'
    <3>1. PreCarried /\ PreQuiet
      BY <1>1, <2>1, <2>6, PreAt DEF PreCarried
    <3>2. PreResumes'
      <4>1. Len(up') = 1 /\ up'[1].kind = "ready"
        BY <2>1, <3>1 DEF PreQuiet, Pre!Message
      <4> QED BY <1>1, <3>1, <4>1 DEF PreQuiet, PreResumes
    <3> QED BY <1>1, <2>1, <2>2, <3>1, <3>2 DEF PreCarried, PreQuiet, PreSent
  <2> QED BY <2>5, <2>6 DEF PreIInv
<1>3. CASE Pre!OnMessage
  <2>1. /\ down # <<>> /\ down' = Tail(down) /\ up' = up
        /\ page' = IF page.listens THEN [page EXCEPT !.data = Head(down), !.shown = Head(down)] ELSE page
    BY <1>3 DEF Pre!OnMessage
  <2>2. /\ Head(down) \in Pre!Values /\ Head(down) = down[1] /\ down' \in Seq(Pre!Values)
        /\ down' = <<>> => down[Len(down)] = Head(down)
        /\ down' # <<>> => down'[Len(down')] = down[Len(down)]
    <3>1. down \in Seq(Pre!Values) /\ Len(down) \in Nat \ {0}
      BY <2>1, PreAt
    <3>2. Len(down') = Len(down) - 1 /\ \A i \in 1..Len(down') : down'[i] = down[i + 1]
      BY <2>1, <3>1
    <3>3. down' = <<>> => Len(down) = 1
      BY <3>1, <3>2
    <3>4. down' # <<>> => Len(down') \in 1..Len(down') /\ Len(down') + 1 = Len(down)
      BY <2>1, <3>1, <3>2
    <3> QED BY <2>1, <3>1, <3>2, <3>3, <3>4
  <2>3. /\ page' \in PrePage /\ page'.listens = page.listens /\ page'.loaded = page.loaded /\ page'.edited = page.edited
        /\ page.listens => page'.data = Head(down)
    <3>1. ASSUME NEW v \in Pre!Values
          PROVE  LET q == [page EXCEPT !.data = v, !.shown = v]
                 IN  /\ q \in PrePage /\ q.listens = page.listens /\ q.loaded = page.loaded /\ q.edited = page.edited
                     /\ q.data = v
      BY PreAt DEF PrePage, Pre!Values
    <3> QED BY <2>1, <2>2, <3>1, PreAt
  <2>4. PreTyped'
    BY <1>1, <2>1, <2>2, <2>3, PreAt, PreTypeOK DEF PreSpoken, PreBounds, PreEditor
  <2>5. ASSUME PreSure' PROVE PreCarried'
    <3>1. PreCarried /\ page.listens
      BY <1>1, <2>1, <2>5, PreAt DEF PreCarried, PreQuiet
    <3>2. PreSent'
      BY <1>1, <2>1, <2>2, <2>3, <3>1 DEF PreCarried, PreSent
    <3> QED BY <1>1, <2>1, <2>3, <3>1, <3>2 DEF PreCarried, PreResumes, PreEnding
  <2> QED BY <2>4, <2>5 DEF PreIInv
<1> QED BY <1>2, <1>3

(* The page is edited.                                                     *)
LEMMA PreWrites ==
  ASSUME PreMaking, UNCHANGED <<form, rendered, ready, paused, scheduled, lastSent, down, reloads>>, inputs' \in 0..MaxInputs,
         page.listens \/ page.edited, page' \in PrePage, page'.listens = page.listens, page'.loaded = page.loaded,
         page'.data = page.data, PreSpoken', ~ page'.edited => PreResumes'
  PROVE  PreIInv'
<1>1. PreTyped'
  BY PreAt, PreTypeOK DEF PreBounds, PreEditor
<1>2. ASSUME PreSure' PROVE PreCarried'
  <2>1. PreCarried /\ page.listens
    BY <1>2, PreAt DEF PreCarried, PreQuiet
  <2> QED BY <2>1 DEF PreCarried, PreSent
<1> QED BY <1>1, <1>2 DEF PreIInv

LEMMA PreEdits ==
  ASSUME PreMaking, Pre!DoubleClick \/ Pre!Input \/ Pre!Debounced \/ Pre!EndEdit \/ Pre!CancelEdit
  PROVE  PreIInv'
<1>1. UNCHANGED <<form, rendered, ready, paused, scheduled, lastSent, down, reloads>> /\ inputs' \in 0..MaxInputs
  <2>1. UNCHANGED <<form, rendered, ready, paused, scheduled, lastSent, down, reloads>>
    BY DEF Pre!DoubleClick, Pre!Input, Pre!Debounced, Pre!EndEdit, Pre!CancelEdit, Pre!editor, Pre!bounds
  <2>2. inputs' = inputs \/ (inputs < MaxInputs /\ inputs' = inputs + 1)
    BY DEF Pre!DoubleClick, Pre!Input, Pre!Debounced, Pre!EndEdit, Pre!CancelEdit, Pre!bounds
  <2>3. inputs \in 0..MaxInputs /\ MaxInputs \in Nat
    BY PreAt DEF PreBounds, Pre!PreviewAssumption, PreMaking
  <2> QED BY <2>1, <2>2, <2>3
<1>2. up \in Seq(PreMessage) /\ \A i \in 1..Len(up) : up[i].kind = "patch" => up[i].value \in Pre!Values
  BY PreAt DEF PreSpoken
<1>3. page \in PrePage
  BY PreAt
<1>4. CASE Pre!DoubleClick
  <2>1. page.listens /\ page' = [page EXCEPT !.edited = TRUE, !.original = page.shown] /\ up' = Append(up, Pre!Message("edit-start"))
    BY <1>4 DEF Pre!DoubleClick
  <2>2. /\ page' \in PrePage /\ page'.listens = page.listens /\ page'.loaded = page.loaded /\ page'.data = page.data
        /\ page'.edited
    BY <1>3, <2>1 DEF PrePage
  <2>3. PreSpoken'
    BY <1>2, <2>1, PreSends
  <2> QED BY <1>1, <2>1, <2>2, <2>3, PreWrites
<1>5. CASE Pre!Input
  <2>1. PICK t \in Texts : page.edited /\ page' = [page EXCEPT !.shown = t, !.timer = TRUE] /\ up' = up
    BY <1>5 DEF Pre!Input
  <2>2. /\ page' \in PrePage /\ page'.listens = page.listens /\ page'.loaded = page.loaded /\ page'.data = page.data
        /\ page'.edited
    BY <1>3, <2>1 DEF PrePage
  <2>3. PreSpoken'
    BY <2>1, PreAt DEF PreSpoken
  <2> QED BY <1>1, <2>1, <2>2, <2>3, PreWrites
<1>6. CASE Pre!Debounced
  <2>1. page.edited /\ page' = [page EXCEPT !.timer = FALSE] /\ up' = up \o Pre!Patch
    BY <1>6 DEF Pre!Debounced
  <2>2. /\ page' \in PrePage /\ page'.listens = page.listens /\ page'.loaded = page.loaded /\ page'.data = page.data
        /\ page'.edited
    BY <1>3, <2>1 DEF PrePage
  <2>3. PreSpoken'
    BY <1>3, <2>1, PreAt, PrePatches DEF PreSpoken
  <2> QED BY <1>1, <2>1, <2>2, <2>3, PreWrites
<1>7. CASE Pre!EndEdit
  <2>1. page.edited /\ page' = Pre!Ended /\ up' = up \o Pre!Patch \o <<Pre!Message("edit-end")>>
    BY <1>7 DEF Pre!EndEdit
  <2>2. page' \in PrePage /\ page'.listens = page.listens /\ page'.loaded = page.loaded /\ page'.data = page.data
    BY <1>3, <2>1 DEF PrePage, Pre!Ended
  <2> DEFINE u == up \o Pre!Patch
  <2>3. u \in Seq(PreMessage) /\ \A i \in 1..Len(u) : u[i].kind = "patch" => u[i].value \in Pre!Values
    BY <1>3, PreAt, PrePatches
  <2>4. up' = Append(u, Pre!Message("edit-end"))
    <3>1. up' = u \o <<Pre!Message("edit-end")>> /\ Pre!Message("edit-end") \in PreMessage
      BY <2>1 DEF Pre!Message, PreMessage
    <3> HIDE DEF u
    <3> QED BY <2>3, <3>1
  <2> HIDE DEF u
  <2>5. PreSpoken' /\ PreResumes'
    BY <2>3, <2>4, PreSends
  <2> QED BY <1>1, <2>1, <2>2, <2>5, PreWrites
<1>8. CASE Pre!CancelEdit
  <2>1. page.edited /\ page' = [Pre!Ended EXCEPT !.shown = page.original] /\ up' = Append(up, Pre!Message("edit-end"))
    BY <1>8 DEF Pre!CancelEdit
  <2>2. page' \in PrePage /\ page'.listens = page.listens /\ page'.loaded = page.loaded /\ page'.data = page.data
    BY <1>3, <2>1 DEF PrePage, Pre!Ended
  <2>3. PreSpoken' /\ PreResumes'
    BY <1>2, <2>1, PreSends
  <2> QED BY <1>1, <2>1, <2>2, <2>3, PreWrites
<1> QED BY <1>4, <1>5, <1>6, <1>7, <1>8

LEMMA PreReload == ASSUME PreMaking, Pre!Reload PROVE PreIInv'
<1>1. /\ UNCHANGED <<form, rendered, ready, paused, scheduled, lastSent, down, up, inputs>> /\ page' = Pre!NewPage
      /\ reloads < MaxReloads /\ reloads' = reloads + 1
  BY DEF Pre!Reload, Pre!editor
<1>2. reloads' \in 0..MaxReloads /\ reloads' # 0
  BY <1>1, PreAt DEF PreBounds, PreMaking, Pre!PreviewAssumption
<1>3. page' \in PrePage
  BY <1>1 DEF Pre!NewPage, PrePage
<1>4. PreTyped'
  BY <1>1, <1>2, <1>3, PreAt, PreTypeOK DEF PreBounds, PreEditor, PreSpoken
<1> QED BY <1>2, <1>4 DEF PreIInv

LEMMA PreStepIInv == PreMaking /\ [Pre!Next]_Pre!vars => PreIInv'
<1> SUFFICES ASSUME PreMaking, [Pre!Next]_Pre!vars PROVE PreIInv'
  OBVIOUS
<1>1. CASE UNCHANGED Pre!vars
  <2>1. UNCHANGED <<form, rendered, ready, paused, scheduled, lastSent, page, down, up, inputs, reloads>>
    BY <1>1 DEF Pre!vars, Pre!editor, Pre!bounds
  <2>2. PreTyped'
    BY <2>1, PreAt, PreTypeOK DEF PreBounds, PreEditor, PreSpoken
  <2>3. PreSure' => PreCarried'
    BY <2>1, PreAt DEF PreCarried, PreQuiet, PreSent, PreResumes, PreEnding
  <2> QED BY <2>2, <2>3 DEF PreIInv
<1> QED BY <1>1, PreFormStep, PreLoad, PreHears, PreListens, PreEdits, PreReload DEF Pre!Next

LEMMA PreRuns == (Init => Pre!Init) /\ ([Next]_vars => [Pre!Next]_Pre!vars)
<1>1. Init => Pre!Init
  BY DEF Init
<1>2. [Next]_vars => [Pre!Next]_Pre!vars
  BY DEF Next, vars, preview, Pre!vars, Pre!editor, Pre!bounds
<1> QED BY <1>1, <1>2

LEMMA PreAlways == Spec => []PreIInv
<1>1. Pre!PreviewAssumption
  BY ServicesAssumption DEF ServicesAssumption
<1>2. Init => PreIInv
  BY <1>1, PreRuns, PreInitIInv
<1>3. PreIInv /\ [Next]_vars => PreIInv'
  BY <1>1, PreRuns, PreStepIInv DEF PreMaking
<1> QED BY <1>2, <1>3, PTL DEF Spec

(* When the exchange comes to rest the page has the form as it is, if the  *)
(* frame loads after the page's script listens and the page is not         *)
(* reloaded.  It needs that every start of an edit under way is followed   *)
(* by an end, and that a form that is not paused has been sent or will be  *)
(* with the next animation frame.                                          *)
THEOREM PageHasForm ==
  ASSUME ~ LoadsEarly
  PROVE  Spec => []SettledHasForm
<1>1. PreIInv => SettledHasForm
  BY DEF PreIInv, PreCarried, PreSent, PreResumes, SettledHasForm, Pre!SettledHasForm, Pre!Settled
<1> QED BY <1>1, PreAlways, PTL
=============================================================================
