---------------------------- MODULE ReleasesProofs ----------------------------
(***************************************************************************)
(* What holds of a release for any number of callers, members and requests *)
(* in flight: it goes live as a unit; and as long as no request wrote over *)
(* what had changed since it read it, a published release is immutable and *)
(* the drain publishes what was checked.                                   *)
(***************************************************************************)
EXTENDS Releases, TLAPS

(* The publish of a release, at a step of a request: what is not left to   *)
(* publish is live, and what is live is a member and a document; ds and n  *)
(* are the documents and the attempts there are.                           *)
Unit(step, w, ds, n) ==
  /\ step = "tx" => /\ w.left \subseteq w.read.items
                    /\ \A i \in w.read.items \ w.left : i.doc \in w.live
                    /\ \A d \in w.live : \E i \in w.read.items : i.doc = d
  /\ step # "tx" => w.live = {}
  /\ \A d \in w.live : ds[d] # None
  /\ step = "adding" => w.doc # None
  /\ step = "tx" => w.attempt \in 1..n

UnitInv == TypeOK /\ \A c \in Callers : Unit(pc[c], work[c], docs, attempts)

LEMMA NothingTyped == NoWork \in Work /\ NoWork.live = {} /\ NoWork.left = {} /\ Nothing.release \in Header
BY ReleasesAssumption DEF NoWork, Nothing, Work, Header, ReleaseStatuses

LEMMA StoredTyped ==
  ASSUME TypeOK
  PROVE  Stored \in [release: Header, items: SUBSET Item] /\ Stored.release = release /\ Stored.items = items
BY DEF TypeOK, Stored

(* Where the requests are after one has moved.                             *)
LEMMA Moves ==
  ASSUME TypeOK, NEW c \in Callers, NEW step \in Steps, NEW w \in Work, Goto(c, step, w)
  PROVE  /\ pc' \in [Callers -> Steps] /\ work' \in [Callers -> Work]
         /\ pc'[c] = step /\ work'[c] = w
         /\ \A b \in Callers \ {c} : pc'[b] = pc[b] /\ work'[b] = work[b]
BY DEF TypeOK, Goto

LEMMA UnitMoves ==
  ASSUME UnitInv, NEW c \in Callers, NEW step \in Steps, NEW w \in Work, Goto(c, step, w),
         Unit(step, w, docs, attempts), UNCHANGED <<docs, attempts>>
  PROVE  /\ pc' \in [Callers -> Steps] /\ work' \in [Callers -> Work]
         /\ \A b \in Callers : Unit(pc'[b], work'[b], docs', attempts')
BY Moves DEF UnitInv

(* A request that begins, and one that ends.                               *)
LEMMA UnitEnters ==
  ASSUME UnitInv, NEW c \in Callers, NEW step \in Steps \ {"tx"}, NEW w \in Work, w.live = {},
         step = "adding" => w.doc # None, Enter(c, step, w)
  PROVE  UnitInv'
<1>1. Goto(c, step, w) /\ UNCHANGED <<state, audit, checked, done, crossed, bounds>>
  BY DEF Enter
<1>2. UNCHANGED <<docs, attempts>> /\ Unit(step, w, docs, attempts)
  BY <1>1 DEF state, bounds, Unit
<1>3. /\ pc' \in [Callers -> Steps] /\ work' \in [Callers -> Work]
      /\ \A b \in Callers : Unit(pc'[b], work'[b], docs', attempts')
  BY <1>1, <1>2, UnitMoves
<1> QED BY <1>1, <1>3 DEF UnitInv, TypeOK, state, bounds

LEMMA UnitReturns ==
  ASSUME UnitInv, NEW c \in Callers, Return(c), UNCHANGED <<docs, attempts>>
  PROVE  /\ pc' \in [Callers -> Steps] /\ work' \in [Callers -> Work]
         /\ \A b \in Callers : Unit(pc'[b], work'[b], docs', attempts')
<1>1. Unit("idle", NoWork, docs, attempts) /\ "idle" \in Steps
  BY NothingTyped DEF Unit, Steps
<1> QED BY <1>1, NothingTyped, UnitMoves DEF Return

LEMMA WritesTyped ==
  ASSUME TypeOK, NEW c \in Callers, Writes(c)
  PROVE  crossed' \subseteq {"release", "document"}
BY DEF TypeOK, Writes

LEMMA BeginsUnit ==
  ASSUME UnitInv, NEW c \in Callers,
         \/ RemoveBegin(c) \/ ScheduleBegin(c) \/ CancelBegin(c) \/ PublishBegin(c)
         \/ DrainFind(c) \/ DrainThrows(c) \/ \E d \in Docs : AddBegin(c, d)
  PROVE  UnitInv'
<1> DEFINE Begun(w) == w \in Work /\ w.live = {}
<1>0. /\ Stored \in [release: Header, items: SUBSET Item] /\ NoWork \in Work /\ NoWork.live = {}
      /\ items \subseteq Item /\ clock \in 0..MaxClock /\ MaxClock \in Nat
  BY StoredTyped, NothingTyped, ReleasesAssumption DEF UnitInv, TypeOK
<1>1. ASSUME NEW d \in Docs, AddBegin(c, d) PROVE UnitInv'
  <2> DEFINE w == [NoWork EXCEPT !.read = Stored, !.doc = d]
  <2>1. Begun(w) /\ w.doc # None
    BY <1>0, ReleasesAssumption DEF Work
  <2>2. Enter(c, "adding", w)
    BY <1>1 DEF AddBegin
  <2> HIDE DEF w
  <2> QED BY <2>1, <2>2, UnitEnters DEF Steps
<1>2. CASE RemoveBegin(c)
  <2>1. PICK i \in items : Enter(c, "removing", [NoWork EXCEPT !.read = Stored, !.left = {i}])
    BY <1>2 DEF RemoveBegin
  <2>2. Begun([NoWork EXCEPT !.read = Stored, !.left = {i}])
    BY <1>0 DEF Work
  <2> QED BY <2>1, <2>2, UnitEnters DEF Steps
<1>3. CASE ScheduleBegin(c)
  <2>1. PICK at \in (clock + 1)..MaxClock : Enter(c, "scheduling", [NoWork EXCEPT !.read = Stored, !.at = at])
    BY <1>3 DEF ScheduleBegin
  <2>2. at \in 0..MaxClock
    BY <1>0
  <2>3. Begun([NoWork EXCEPT !.read = Stored, !.at = at])
    BY <1>0, <2>2 DEF Work
  <2> QED BY <2>1, <2>3, UnitEnters DEF Steps
<1>4. CASE CancelBegin(c)
  <2>1. Begun([NoWork EXCEPT !.read = Stored])
    BY <1>0 DEF Work
  <2> QED BY <1>4, <2>1, UnitEnters DEF CancelBegin, Steps
<1>5. CASE PublishBegin(c)
  <2>1. Begun([NoWork EXCEPT !.read = Stored])
    BY <1>0 DEF Work
  <2> QED BY <1>5, <2>1, UnitEnters DEF PublishBegin, Steps
<1>6. CASE DrainFind(c) \/ DrainThrows(c)
  BY <1>0, <1>6, UnitEnters DEF DrainFind, DrainThrows, Steps
<1> QED BY <1>1, <1>2, <1>3, <1>4, <1>5, <1>6

LEMMA WritesUnit ==
  ASSUME UnitInv, NEW c \in Callers,
         \/ AddWrite(c) \/ RemoveWrite(c) \/ ScheduleWrite(c) \/ CancelItems(c) \/ CancelHeader(c) \/ MarkFailed(c)
  PROVE  UnitInv'
<1>0. work[c] \in Work /\ release \in Header /\ (Writes(c) => crossed' \subseteq {"release", "document"})
  BY WritesTyped DEF UnitInv, TypeOK
<1>1. CASE AddWrite(c)
  <2>1. pc' \in [Callers -> Steps] /\ work' \in [Callers -> Work] /\ \A b \in Callers : Unit(pc'[b], work'[b], docs', attempts')
    BY <1>1, UnitReturns DEF AddWrite
  <2>2. items' \subseteq Item
    <3>1. [doc |-> work[c].doc, n |-> adds + 1] \in Item
      BY <1>0, <1>1 DEF AddWrite, UnitInv, Unit, TypeOK, Work, Item
    <3> QED BY <1>1, <3>1 DEF AddWrite, UnitInv, TypeOK
  <2> QED BY <1>0, <1>1, <2>1, <2>2 DEF AddWrite, UnitInv, TypeOK
<1>2. CASE RemoveWrite(c)
  <2>1. pc' \in [Callers -> Steps] /\ work' \in [Callers -> Work] /\ \A b \in Callers : Unit(pc'[b], work'[b], docs', attempts')
    BY <1>2, UnitReturns DEF RemoveWrite, bounds
  <2> QED BY <1>0, <1>2, <2>1 DEF RemoveWrite, UnitInv, TypeOK, bounds
<1>3. CASE ScheduleWrite(c)
  <2>1. pc' \in [Callers -> Steps] /\ work' \in [Callers -> Work] /\ \A b \in Callers : Unit(pc'[b], work'[b], docs', attempts')
    BY <1>3, UnitReturns DEF ScheduleWrite, bounds
  <2>2. release' \in Header /\ checked' \subseteq Docs
    BY <1>0, <1>3 DEF ScheduleWrite, Work, Header, ReleaseStatuses, Item
  <2> QED BY <1>0, <1>3, <2>1, <2>2 DEF ScheduleWrite, UnitInv, TypeOK, bounds
<1>4. CASE CancelItems(c)
  <2> DEFINE w == [NoWork EXCEPT !.read = [work[c].read EXCEPT !.items = {}]]
  <2>1. w \in Work /\ w.live = {} /\ "header" \in Steps
    BY <1>0, NothingTyped DEF Work, Steps
  <2>2. Unit("header", w, docs, attempts) /\ Goto(c, "header", w) /\ UNCHANGED <<docs, attempts>>
    BY <1>4, <2>1 DEF Unit, CancelItems, bounds
  <2>3. pc' \in [Callers -> Steps] /\ work' \in [Callers -> Work] /\ \A b \in Callers : Unit(pc'[b], work'[b], docs', attempts')
    <3> HIDE DEF w
    <3> QED BY <2>1, <2>2, UnitMoves
  <2> QED BY <1>0, <1>4, <2>3 DEF CancelItems, UnitInv, TypeOK, bounds
<1>5. CASE CancelHeader(c)
  <2>1. pc' \in [Callers -> Steps] /\ work' \in [Callers -> Work] /\ \A b \in Callers : Unit(pc'[b], work'[b], docs', attempts')
    BY <1>5, UnitReturns DEF CancelHeader, bounds
  <2>2. release' \in Header
    BY <1>5, ReleasesAssumption DEF CancelHeader, Header, ReleaseStatuses
  <2> QED BY <1>0, <1>5, <2>1, <2>2 DEF CancelHeader, UnitInv, TypeOK, bounds
<1>6. CASE MarkFailed(c)
  <2>1. pc' \in [Callers -> Steps] /\ work' \in [Callers -> Work] /\ \A b \in Callers : Unit(pc'[b], work'[b], docs', attempts')
    BY <1>6, UnitReturns DEF MarkFailed, bounds
  <2>2. release' \in Header
    BY <1>0, <1>6 DEF MarkFailed, Header, ReleaseStatuses
  <2> QED BY <1>0, <1>6, <2>1, <2>2 DEF MarkFailed, UnitInv, TypeOK, bounds
<1> QED BY <1>1, <1>2, <1>3, <1>4, <1>5, <1>6

(* The steps of a publish.                                                 *)
LEMMA PreflightUnit ==
  ASSUME UnitInv, NEW c \in Callers, Preflight(c)
  PROVE  UnitInv'
<1> DEFINE w == [work[c] EXCEPT !.left = work[c].read.items, !.attempt = attempts + 1]
<1>0. /\ work[c] \in Work /\ attempts \in Nat /\ work[c].live = {} /\ NoWork \in Work
      /\ UNCHANGED <<state, audit, checked, done, crossed, clock, adds, edits, crashes>>
  BY NothingTyped DEF UnitInv, Unit, TypeOK, Preflight
<1>1. CASE MembersPreflight(c, work[c].read.items)
  <2>1. Goto(c, "tx", w) /\ attempts' = attempts + 1
    BY <1>1 DEF Preflight
  <2>2. w \in Work /\ Unit("tx", w, docs, attempts + 1) /\ "tx" \in Steps
    <3>1. /\ w.read = work[c].read /\ w.left = work[c].read.items /\ w.live = {} /\ w.attempt = attempts + 1
          /\ w \in Work
      <4>1. work[c].read.items \in SUBSET Item /\ attempts + 1 \in Nat
        BY <1>0 DEF Work
      <4>2. work[c] = [read |-> work[c].read, doc |-> work[c].doc, at |-> work[c].at, left |-> work[c].left,
                       live |-> work[c].live, attempt |-> work[c].attempt]
        BY <1>0 DEF Work
      <4> QED BY <1>0, <4>1, <4>2 DEF Work
    <3> HIDE DEF w
    <3> QED BY <1>0, <3>1 DEF Unit, Steps
  <2> HIDE DEF w
  <2>3. /\ pc' \in [Callers -> Steps] /\ work' \in [Callers -> Work]
        /\ \A b \in Callers : Unit(pc'[b], work'[b], docs', attempts')
    <3>1. \A b \in Callers : Unit(pc[b], work[b], docs, attempts + 1)
      BY <1>0 DEF UnitInv, Unit
    <3> QED BY <1>0, <2>1, <2>2, <3>1, Moves DEF UnitInv, state
  <2> QED BY <1>0, <2>1, <2>3 DEF UnitInv, TypeOK, state
<1>2. CASE ~ MembersPreflight(c, work[c].read.items)
  <2> DEFINE u == IF AfterRefusal(c) = "idle" THEN NoWork ELSE work[c]
  <2>1. Goto(c, AfterRefusal(c), u) /\ UNCHANGED attempts
    BY <1>2 DEF Preflight
  <2>2. u \in Work /\ AfterRefusal(c) \in Steps /\ Unit(AfterRefusal(c), u, docs, attempts)
    BY <1>0, NothingTyped DEF AfterRefusal, Steps, Unit
  <2> HIDE DEF u
  <2>3. /\ pc' \in [Callers -> Steps] /\ work' \in [Callers -> Work]
        /\ \A b \in Callers : Unit(pc'[b], work'[b], docs', attempts')
    BY <1>0, <2>1, <2>2, UnitMoves DEF state
  <2> QED BY <1>0, <2>1, <2>3 DEF UnitInv, TypeOK, state
<1> QED BY <1>1, <1>2

LEMMA PublishMemberUnit ==
  ASSUME UnitInv, NEW c \in Callers, PublishMember(c)
  PROVE  UnitInv'
<1>1. PICK i \in work[c].left : 
        /\ pc[c] = "tx" /\ Publishes(c, docs[i.doc])
        /\ Goto(c, "tx", [work[c] EXCEPT !.left = @ \ {i}, !.live = @ \union {i.doc}])
        /\ audit' = audit \union {[attempt |-> work[c].attempt, doc |-> i.doc]}
        /\ UNCHANGED <<state, checked, done, crossed, bounds>>
  BY DEF PublishMember
<1> DEFINE w == [work[c] EXCEPT !.left = @ \ {i}, !.live = @ \union {i.doc}]
<1>2. work[c] \in Work /\ i \in Item /\ i \in work[c].read.items /\ Unit("tx", work[c], docs, attempts)
  BY <1>1 DEF UnitInv, Unit, TypeOK, Work
<1>3. w \in Work /\ "tx" \in Steps
  BY <1>2 DEF Work, Item, Steps
<1>4. Unit("tx", w, docs, attempts)
  <2>1. w.left = work[c].left \ {i} /\ w.live = work[c].live \union {i.doc} /\ w.read = work[c].read
        /\ w.attempt = work[c].attempt
    BY <1>2 DEF Work
  <2>2. docs[i.doc] # None
    BY <1>1 DEF Publishes
  <2> HIDE DEF w
  <2> QED BY <1>2, <2>1, <2>2 DEF Unit
<1>5. /\ pc' \in [Callers -> Steps] /\ work' \in [Callers -> Work]
      /\ \A b \in Callers : Unit(pc'[b], work'[b], docs', attempts')
  <2>1. Goto(c, "tx", w)
    BY <1>1
  <2> HIDE DEF w
  <2> QED BY <1>1, <1>3, <1>4, <2>1, UnitMoves DEF state, bounds
<1>6. audit' \subseteq [attempt: 1..attempts, doc: Docs]
  BY <1>1, <1>2 DEF UnitInv, TypeOK, Unit, Item
<1> QED BY <1>1, <1>5, <1>6 DEF UnitInv, TypeOK, state, bounds

LEMMA PublishFailsUnit ==
  ASSUME UnitInv, NEW c \in Callers, PublishFails(c)
  PROVE  UnitInv'
<1>1. Enter(c, "failing", [NoWork EXCEPT !.read = work[c].read])
  BY DEF PublishFails
<1> DEFINE w == [NoWork EXCEPT !.read = work[c].read]
<1>2. w \in Work /\ w.live = {}
  BY NothingTyped DEF UnitInv, TypeOK, Work
<1> HIDE DEF w
<1> QED BY <1>1, <1>2, UnitEnters DEF w, Steps

LEMMA PublishCommitUnit ==
  ASSUME UnitInv, NEW c \in Callers, PublishCommit(c)
  PROVE  /\ UnitInv'
         /\ \A i \in work[c].read.items : docs'[i.doc] # None /\ docs'[i.doc].status = "published"
<1>0. /\ work[c] \in Work /\ release \in Header /\ docs \in [Docs -> Doc \union {None}]
      /\ Unit("tx", work[c], docs, attempts)
      /\ docs' = [d \in Docs |-> IF d \in work[c].live THEN [docs[d] EXCEPT !.status = "published"] ELSE docs[d]]
  BY DEF UnitInv, TypeOK, PublishCommit, LiveAfter
<1>1. \A d \in Docs : /\ d \in work[c].live => docs'[d] \in Doc /\ docs'[d].status = "published"
                      /\ d \notin work[c].live => docs'[d] = docs[d]
  BY <1>0 DEF Unit, Doc
<1>2. docs' \in [Docs -> Doc \union {None}] /\ (\A d \in Docs : docs[d] # None => docs'[d] # None)
  BY <1>0, <1>1, ReleasesAssumption
<1>3. release' \in Header
  BY <1>0, ReleasesAssumption DEF PublishCommit, Header, ReleaseStatuses
<1>4. /\ pc' \in [Callers -> Steps] /\ work' \in [Callers -> Work]
      /\ \A b \in Callers : Unit(pc'[b], work'[b], docs', attempts')
  <2>1. "idle" \in Steps /\ Goto(c, "idle", NoWork) /\ UNCHANGED bounds
    BY DEF Steps, PublishCommit, Return
  <2>2. \A b \in Callers : work[b].live \subseteq Docs
    BY DEF UnitInv, TypeOK, Work
  <2>3. \A b \in Callers : Unit(pc[b], work[b], docs', attempts)
    BY <1>2, <2>2 DEF UnitInv, Unit
  <2>4. Unit("idle", NoWork, docs', attempts)
    BY NothingTyped DEF Unit
  <2> QED BY <2>1, <2>3, <2>4, NothingTyped, Moves DEF UnitInv, bounds
<1>5. crossed' \subseteq {"release", "document"} /\ done' \subseteq 1..attempts
  BY <1>0, WritesTyped DEF UnitInv, TypeOK, PublishCommit, Unit
<1>6. UnitInv'
  BY <1>2, <1>3, <1>4, <1>5 DEF PublishCommit, UnitInv, TypeOK, bounds
<1>7. ASSUME NEW i \in work[c].read.items PROVE docs'[i.doc] # None /\ docs'[i.doc].status = "published"
  <2>1. i.doc \in work[c].live /\ i.doc \in Docs
    BY <1>0 DEF PublishCommit, Unit, Work
  <2> QED BY <1>1, <2>1, ReleasesAssumption
<1> QED BY <1>6, <1>7

LEMMA OutsideUnit ==
  ASSUME UnitInv, (\E c \in Callers : CreateRelease(c)) \/ (\E d \in Docs : EditDoc(d)) \/ Tick \/ Crash
         \/ UNCHANGED vars
  PROVE  UnitInv'
<1>1. ASSUME NEW c \in Callers, CreateRelease(c) PROVE UnitInv'
  <2>1. release' \in Header
    BY <1>1 DEF CreateRelease, UnitInv, TypeOK, Header, ReleaseStatuses
  <2> QED BY <1>1, <2>1 DEF CreateRelease, UnitInv, TypeOK, bounds
<1>2. ASSUME NEW d \in Docs, EditDoc(d) PROVE UnitInv'
  <2>1. PICK row \in Doc \union {None} : docs' = [docs EXCEPT ![d] = row]
    BY <1>2 DEF EditDoc
  <2>2. \A c \in Callers : d \notin work[c].live
    BY <1>2 DEF EditDoc, Locked
  <2>3. docs' \in [Docs -> Doc \union {None}] /\ \A c \in Callers : \A e \in work[c].live : docs'[e] = docs[e]
    BY <2>1, <2>2 DEF UnitInv, TypeOK, Work
  <2>4. \A c \in Callers : Unit(pc'[c], work'[c], docs', attempts')
    <3>1. UNCHANGED <<pc, work, attempts>>
      BY <1>2 DEF EditDoc
    <3> QED BY <2>3, <3>1 DEF UnitInv, Unit
  <2>5. crossed' \subseteq {"release", "document"} /\ edits' \in Nat
    BY <1>2 DEF EditDoc, UnitInv, TypeOK
  <2>6. UNCHANGED <<release, items, pc, work, audit, checked, done, clock, adds, attempts, crashes>>
    BY <1>2 DEF EditDoc
  <2> QED BY <2>3, <2>4, <2>5, <2>6 DEF UnitInv, TypeOK
<1>3. CASE Tick
  <2>1. clock' \in 0..MaxClock
    BY <1>3, ReleasesAssumption DEF Tick, UnitInv, TypeOK
  <2> QED BY <1>3, <2>1 DEF Tick, UnitInv, TypeOK, state
<1>4. CASE Crash
  <2>1. /\ pc' \in [Callers -> Steps] /\ work' \in [Callers -> Work]
        /\ \A c \in Callers : Unit(pc'[c], work'[c], docs', attempts')
    BY <1>4, NothingTyped DEF Crash, Steps, Unit
  <2> QED BY <1>4, <2>1 DEF Crash, UnitInv, TypeOK, state
<1>5. CASE UNCHANGED vars
  BY <1>5 DEF vars, state, bounds, UnitInv, TypeOK
<1> QED BY <1>1, <1>2, <1>3, <1>4, <1>5

LEMMA UnitInvariant == Spec => []UnitInv
<1>1. Init => UnitInv
  BY NothingTyped, ReleasesAssumption DEF Init, UnitInv, Unit, TypeOK, Steps, Header, ReleaseStatuses, Doc
<1>2. UnitInv /\ [Next]_vars => UnitInv'
  <2> SUFFICES ASSUME UnitInv, [Next]_vars PROVE UnitInv'
    OBVIOUS
  <2> QED BY BeginsUnit, WritesUnit, PreflightUnit, PublishMemberUnit, PublishFailsUnit, PublishCommitUnit, OutsideUnit
      DEF Next, Ask, Continue
<1> QED BY <1>1, <1>2, PTL DEF Spec

(* The variables have their shape, however many requests are in flight     *)
(* (publishRelease and the operations that edit a release).                *)
THEOREM TypeCorrect == Spec => []TypeOK
<1>1. UnitInv => TypeOK
  BY DEF UnitInv
<1> QED BY <1>1, UnitInvariant, PTL

(* Only the commit of a publish adds to the publishes that took place.     *)
LEMMA OnlyCommitsPublish ==
  ASSUME UnitInv, Next, NEW c \in Callers, Publishing(c)
  PROVE  PublishCommit(c)
<1>1. \E b \in Callers : PublishCommit(b)
  BY DEF Publishing, Next, Ask, Continue, CreateRelease, RemoveBegin, ScheduleBegin, CancelBegin, PublishBegin,
     AddBegin, DrainFind, DrainThrows, Enter, AddWrite, RemoveWrite, ScheduleWrite, CancelItems, CancelHeader,
     Preflight, PublishMember, PublishFails, MarkFailed, EditDoc, Tick, Crash
<1>2. PICK b \in Callers : PublishCommit(b)
  BY <1>1
<1>3. b = c
  <2>1. "idle" \in Steps /\ Goto(b, "idle", NoWork)
    BY <1>2 DEF Steps, PublishCommit, Return
  <2> QED BY <2>1, NothingTyped, Moves DEF UnitInv, Publishing
<1> QED BY <1>2, <1>3

(* Whatever a release puts live, it puts live together (publishRelease's   *)
(* one transaction), whoever else writes meanwhile and wherever it dies.   *)
THEOREM GoesLiveTogether == Spec => GoesLiveAsAUnit
<1>1. UnitInv /\ [Next]_vars => [\A c \in Callers : Publishing(c) =>
        \A i \in work[c].read.items : docs'[i.doc] # None /\ docs'[i.doc].status = "published"]_vars
  BY OnlyCommitsPublish, PublishCommitUnit
<1> QED BY <1>1, UnitInvariant, PTL DEF Spec, GoesLiveAsAUnit

-----------------------------------------------------------------------------
(* What the audit says.                                                    *)

(* A member that passed the pre-flight still does.                         *)
AuditInv ==
  crashes = 0 /\ "document" \notin crossed =>
    /\ \A c \in Callers : pc[c] = "tx" => MembersPreflight(c, work[c].left)
    /\ \A a \in audit : a.attempt \in done \/ \E c \in Callers : pc[c] = "tx" /\ work[c].attempt = a.attempt

(* A step that moves a request that is not publishing, and the documents   *)
(* stay.                                                                   *)
LEMMA AuditKept ==
  ASSUME UnitInv, AuditInv, NEW c \in Callers, NEW step \in Steps \ {"tx"}, NEW w \in Work, Goto(c, step, w),
         pc[c] # "tx", UNCHANGED <<docs, audit, done, crashes>>, crossed \subseteq crossed'
  PROVE  AuditInv'
<1>1. \A b \in Callers : pc'[b] = "tx" => pc[b] = "tx" /\ work'[b] = work[b]
  BY Moves DEF UnitInv
<1>2. \A b \in Callers : pc[b] = "tx" => pc'[b] = "tx" /\ work'[b] = work[b]
  BY Moves DEF UnitInv
<1> QED BY <1>1, <1>2 DEF AuditInv, MembersPreflight, Preflights

LEMMA BeginsAudit ==
  ASSUME UnitInv, AuditInv, NEW c \in Callers,
         \/ RemoveBegin(c) \/ ScheduleBegin(c) \/ CancelBegin(c) \/ PublishBegin(c)
         \/ DrainFind(c) \/ DrainThrows(c) \/ \E d \in Docs : AddBegin(c, d)
  PROVE  AuditInv'
<1>1. pc[c] # "tx"
  BY DEF MayBegin, RemoveBegin, ScheduleBegin, CancelBegin, PublishBegin, DrainFind, DrainThrows, AddBegin
<1>2. \E step \in Steps \ {"tx"}, w \in Work : Enter(c, step, w)
  <2>0. UnitInv'
    BY BeginsUnit
  <2>1. \E step \in Steps \ {"tx"} : \E w : Enter(c, step, w)
    BY DEF RemoveBegin, ScheduleBegin, CancelBegin, PublishBegin, DrainFind, DrainThrows, AddBegin, Steps
  <2>2. PICK step \in Steps \ {"tx"} : \E w : Enter(c, step, w)
    BY <2>1
  <2>3. PICK w : Enter(c, step, w)
    BY <2>2
  <2>4. w = work'[c] /\ work'[c] \in Work
    BY <2>0, <2>3 DEF Enter, Goto, UnitInv, TypeOK
  <2> QED BY <2>3, <2>4
<1>3. PICK step \in Steps \ {"tx"}, w \in Work : Enter(c, step, w)
  BY <1>2
<1> QED BY <1>1, <1>3, AuditKept DEF Enter, state, bounds

LEMMA WritesAudit ==
  ASSUME UnitInv, AuditInv, NEW c \in Callers,
         \/ AddWrite(c) \/ RemoveWrite(c) \/ ScheduleWrite(c) \/ CancelItems(c) \/ CancelHeader(c) \/ MarkFailed(c)
  PROVE  AuditInv'
<1>1. pc[c] # "tx" /\ UNCHANGED <<docs, audit, done, crashes>> /\ crossed \subseteq crossed'
  BY DEF AddWrite, RemoveWrite, ScheduleWrite, CancelItems, CancelHeader, MarkFailed, Writes, bounds
<1>2. \E step \in {"idle", "header"} : \E w : Goto(c, step, w)
  BY DEF AddWrite, RemoveWrite, ScheduleWrite, CancelItems, CancelHeader, MarkFailed, Return
<1>3. PICK step \in {"idle", "header"} : \E w : Goto(c, step, w)
  BY <1>2
<1>4. PICK w : Goto(c, step, w)
  BY <1>3
<1>5. w = work'[c] /\ work'[c] \in Work
  BY <1>4, WritesUnit DEF Goto, UnitInv, TypeOK
<1> QED BY <1>1, <1>4, <1>5, AuditKept DEF Steps

LEMMA PublishAudit ==
  ASSUME UnitInv, AuditInv, NEW c \in Callers,
         Preflight(c) \/ PublishMember(c) \/ PublishFails(c) \/ PublishCommit(c)
  PROVE  AuditInv'
<1> SUFFICES ASSUME crashes' = 0, "document" \notin crossed' PROVE AuditInv'
  BY DEF AuditInv
<1>0. crashes = 0 /\ "document" \notin crossed
  BY DEF Preflight, PublishMember, PublishFails, PublishCommit, Enter, Writes, bounds
<1>1. CASE Preflight(c)
  <2>0. pc[c] = "preflight" /\ UNCHANGED <<docs, audit, done, crashes, crossed>> /\ work[c] \in Work
    BY <1>1 DEF Preflight, state, UnitInv, TypeOK
  <2>1. CASE ~ MembersPreflight(c, work[c].read.items)
    <3> DEFINE u == IF AfterRefusal(c) = "idle" THEN NoWork ELSE work[c]
    <3>1. Goto(c, AfterRefusal(c), u)
      BY <1>1, <2>1 DEF Preflight
    <3>2. u \in Work /\ AfterRefusal(c) \in Steps \ {"tx"}
      BY <2>0, NothingTyped DEF AfterRefusal, Steps
    <3> HIDE DEF u
    <3> QED BY <2>0, <3>1, <3>2, AuditKept
  <2>2. CASE MembersPreflight(c, work[c].read.items)
    <3> DEFINE w == [work[c] EXCEPT !.left = work[c].read.items, !.attempt = attempts + 1]
    <3>1. Goto(c, "tx", w) /\ w.left = work[c].read.items
      BY <1>1, <2>0, <2>2 DEF Preflight, Work
    <3>2. UnitInv'
      BY <1>1, PreflightUnit
    <3>3. w \in Work /\ "tx" \in Steps
      BY <3>1, <3>2 DEF UnitInv, TypeOK, Goto, Steps
    <3> HIDE DEF w
    <3>4. /\ pc'[c] = "tx" /\ work'[c] = w
          /\ \A b \in Callers \ {c} : pc'[b] = pc[b] /\ work'[b] = work[b]
      BY <3>1, <3>3, Moves DEF UnitInv
    <3>5. \A b \in Callers : pc'[b] = "tx" => \A i \in work'[b].left : Preflights(b, docs[i.doc])
      BY <1>0, <2>2, <3>1, <3>4 DEF AuditInv, MembersPreflight
    <3>6. \A a \in audit : a.attempt \in done \/ \E b \in Callers \ {c} : pc[b] = "tx" /\ work[b].attempt = a.attempt
      BY <1>0, <2>0 DEF AuditInv
    <3> QED BY <2>0, <3>4, <3>5, <3>6 DEF AuditInv, MembersPreflight, Preflights
  <2> QED BY <2>1, <2>2
<1>2. CASE PublishMember(c)
  <2>1. PICK i \in work[c].left :
          /\ pc[c] = "tx"
          /\ Goto(c, "tx", [work[c] EXCEPT !.left = @ \ {i}, !.live = @ \union {i.doc}])
          /\ audit' = audit \union {[attempt |-> work[c].attempt, doc |-> i.doc]}
          /\ UNCHANGED <<state, checked, done, crossed, bounds>>
    BY <1>2 DEF PublishMember
  <2> DEFINE w == [work[c] EXCEPT !.left = @ \ {i}, !.live = @ \union {i.doc}]
  <2>2. w.left \subseteq work[c].left /\ w.attempt = work[c].attempt /\ Goto(c, "tx", w)
    BY <2>1 DEF UnitInv, TypeOK, Work
  <2>3. w \in Work /\ "tx" \in Steps
    BY <1>2, <2>2, PublishMemberUnit DEF UnitInv, TypeOK, Goto, Steps
  <2> HIDE DEF w
  <2>4. /\ pc'[c] = "tx" /\ work'[c] = w
        /\ \A b \in Callers \ {c} : pc'[b] = pc[b] /\ work'[b] = work[b]
    BY <2>2, <2>3, Moves DEF UnitInv
  <2>5. \A b \in Callers : pc'[b] = "tx" => \A j \in work'[b].left : Preflights(b, docs[j.doc])
    BY <1>0, <2>1, <2>2, <2>4 DEF AuditInv, MembersPreflight
  <2>6. ASSUME NEW a \in audit' PROVE a.attempt \in done' \/ \E b \in Callers : pc'[b] = "tx" /\ work'[b].attempt = a.attempt
    <3>1. CASE a \in audit
      <4>1. a.attempt \in done \/ \E b \in Callers : pc[b] = "tx" /\ work[b].attempt = a.attempt
        BY <1>0, <3>1 DEF AuditInv
      <4> QED BY <2>1, <2>2, <2>4, <4>1
    <3>2. CASE a = [attempt |-> work[c].attempt, doc |-> i.doc]
      BY <2>2, <2>4, <3>2
    <3> QED BY <2>1, <3>1, <3>2
  <2> QED BY <2>1, <2>5, <2>6 DEF AuditInv, MembersPreflight, Preflights, state
<1>3. CASE PublishFails(c)
  <2>1. PICK i \in work[c].left : pc[c] = "tx" /\ ~ Publishes(c, docs[i.doc])
    BY <1>3 DEF PublishFails
  <2>2. Preflights(c, docs[i.doc])
    BY <1>0, <2>1 DEF AuditInv, MembersPreflight
  <2> QED BY <2>1, <2>2 DEF Publishes, Preflights
<1>4. CASE PublishCommit(c)
  <2>1. Goto(c, "idle", NoWork) /\ "idle" \in Steps /\ NoWork \in Work
    BY <1>4, NothingTyped DEF PublishCommit, Return, Steps
  <2>2. /\ pc'[c] = "idle" /\ \A b \in Callers \ {c} : pc'[b] = pc[b] /\ work'[b] = work[b]
    BY <2>1, Moves DEF UnitInv
  <2>3. \A d \in Docs : docs[d] # None => docs'[d] # None /\ docs'[d].ok = docs[d].ok
    <3>1. \A d \in Docs : docs[d] # None => docs[d] \in Doc
      BY DEF UnitInv, TypeOK
    <3>2. \A d \in Docs : docs'[d] = IF d \in work[c].live THEN [docs[d] EXCEPT !.status = "published"] ELSE docs[d]
      BY <1>4 DEF PublishCommit, LiveAfter
    <3>3. None \notin Doc
      BY ReleasesAssumption
    <3> QED BY <3>1, <3>2, <3>3 DEF Doc
  <2>4. ASSUME NEW b \in Callers, pc'[b] = "tx", NEW i \in work'[b].left PROVE Preflights(b, docs'[i.doc])
    <3>1. b # c /\ pc[b] = "tx" /\ i \in work[b].left /\ i.doc \in Docs
      BY <2>2, <2>4 DEF UnitInv, TypeOK, Work, Item
    <3>2. Preflights(b, docs[i.doc])
      BY <1>0, <3>1 DEF AuditInv, MembersPreflight
    <3> QED BY <2>3, <3>1, <3>2 DEF Preflights
  <2>5. audit' = audit /\ done' = done \union {work[c].attempt} /\ pc[c] = "tx"
    BY <1>4 DEF PublishCommit
  <2>6. ASSUME NEW a \in audit PROVE a.attempt \in done' \/ \E b \in Callers : pc'[b] = "tx" /\ work'[b].attempt = a.attempt
    <3>1. a.attempt \in done \/ \E b \in Callers : pc[b] = "tx" /\ work[b].attempt = a.attempt
      BY <1>0 DEF AuditInv
    <3> QED BY <2>2, <2>5, <3>1
  <2> QED BY <2>4, <2>5, <2>6 DEF AuditInv, MembersPreflight, Preflights
<1> QED BY <1>1, <1>2, <1>3, <1>4

LEMMA OutsideAudit ==
  ASSUME UnitInv, AuditInv, (\E c \in Callers : CreateRelease(c)) \/ (\E d \in Docs : EditDoc(d)) \/ Tick \/ Crash
         \/ UNCHANGED vars
  PROVE  AuditInv'
<1>1. CASE (\E c \in Callers : CreateRelease(c)) \/ Tick \/ UNCHANGED vars
  <2>1. UNCHANGED <<docs, pc, work, audit, done, crossed, crashes>>
    BY <1>1 DEF CreateRelease, Tick, vars, state, bounds
  <2> QED BY <2>1 DEF AuditInv, MembersPreflight, Preflights
<1>2. CASE Crash
  <2>1. crashes' # 0
    BY <1>2 DEF Crash, UnitInv, TypeOK
  <2> QED BY <2>1 DEF AuditInv
<1>3. ASSUME NEW d \in Docs, EditDoc(d) PROVE AuditInv'
  <2> SUFFICES ASSUME crashes' = 0, "document" \notin crossed' PROVE AuditInv'
    BY DEF AuditInv
  <2>1. d \notin ToPublish /\ "document" \notin crossed /\ crashes = 0 /\ UNCHANGED <<pc, work, audit, done>>
    BY <1>3 DEF EditDoc
  <2>2. \A e \in Docs \ {d} : docs'[e] = docs[e]
    BY <1>3 DEF EditDoc, UnitInv, TypeOK
  <2>3. ASSUME NEW c \in Callers, pc[c] = "tx", NEW i \in work[c].left PROVE Preflights(c, docs'[i.doc])
    <3>1. i.doc \in Docs \ {d}
      BY <2>1, <2>3 DEF ToPublish, UnitInv, TypeOK, Work, Item
    <3>2. Preflights(c, docs[i.doc])
      BY <2>1, <2>3 DEF AuditInv, MembersPreflight
    <3> QED BY <2>2, <3>1, <3>2
  <2> QED BY <2>1, <2>3 DEF AuditInv, MembersPreflight, Preflights
<1> QED BY <1>1, <1>2, <1>3

(* The audit rows of publishRelease, which are not in its transaction,     *)
(* tell the truth as long as nothing died and nobody edited a member       *)
(* between its pre-flight and its publish.                                 *)
THEOREM AuditTellsThePublishes == Spec => []AuditedPublishHappened
<1>1. Init => AuditInv
  BY DEF Init, AuditInv
<1>2. UnitInv /\ AuditInv /\ [Next]_vars => AuditInv'
  <2> SUFFICES ASSUME UnitInv, AuditInv, [Next]_vars PROVE AuditInv'
    OBVIOUS
  <2> QED BY BeginsAudit, WritesAudit, PublishAudit, OutsideAudit DEF Next, Ask, Continue
<1>3. AuditInv => AuditedPublishHappened
  BY DEF AuditInv, AuditedPublishHappened
<1> QED BY <1>1, <1>2, <1>3, UnitInvariant, PTL DEF Spec

-----------------------------------------------------------------------------
(* What a published release and a scheduled one keep.                      *)

Settled == {"none", "open"}

(* The status a request read admits what it goes on to do; a release the   *)
(* cron found due never is open again (s is its status now).               *)
Read(c, step, w, s) ==
  /\ step \notin {"idle", "due"} => w.read.release.status \in {"open", "scheduled", "failed"}
  /\ step = "adding" => w.read.release.status = "open"
  /\ c \in Drains /\ step \in {"preflight", "tx"} => w.read.release.status = "scheduled"
  /\ step = "due" => s \notin Settled

ReadInv == \A c \in Callers : Read(c, pc[c], work[c], release.status)

(* The members of a scheduled release were gate-checked.                   *)
ScheduledInv ==
  "release" \notin crossed /\ release.status = "scheduled" => \A i \in items : i.doc \in checked

ReleaseInv == UnitInv /\ ReadInv /\ ScheduledInv

LEMMA ReadMoves ==
  ASSUME UnitInv, UnitInv', ReadInv, NEW c \in Callers, NEW step, NEW w, Goto(c, step, w),
         Read(c, step, w, release'.status),
         release.status \notin Settled => release'.status \notin Settled
  PROVE  ReadInv'
<1>1. /\ pc'[c] = step /\ work'[c] = w
      /\ \A b \in Callers \ {c} : pc'[b] = pc[b] /\ work'[b] = work[b]
  BY DEF Goto, UnitInv, TypeOK
<1> QED BY <1>1 DEF ReadInv, Read

LEMMA ReadEnters ==
  ASSUME ReleaseInv, UnitInv', NEW c \in Callers, NEW step, NEW w, Enter(c, step, w),
         Read(c, step, w, release.status)
  PROVE  ReleaseInv'
<1>1. Goto(c, step, w) /\ UNCHANGED <<release, items, checked, crossed>>
  BY DEF Enter, state
<1>2. ReadInv'
  BY <1>1, ReadMoves DEF ReleaseInv
<1> QED BY <1>1, <1>2 DEF ReleaseInv, ScheduledInv

LEMMA BeginsRelease ==
  ASSUME ReleaseInv, NEW c \in Callers,
         \/ RemoveBegin(c) \/ ScheduleBegin(c) \/ CancelBegin(c) \/ PublishBegin(c)
         \/ DrainFind(c) \/ DrainThrows(c) \/ \E d \in Docs : AddBegin(c, d)
  PROVE  ReleaseInv'
<1>0. /\ UnitInv /\ UnitInv' /\ Stored.release = release /\ release.status \in ReleaseStatuses
      /\ NoWork.read = Nothing
  BY BeginsUnit, StoredTyped DEF ReleaseInv, UnitInv, TypeOK, Header, NoWork
<1>1. ASSUME NEW d \in Docs, AddBegin(c, d) PROVE ReleaseInv'
  <2> DEFINE w == [NoWork EXCEPT !.read = Stored, !.doc = d]
  <2>1. w.read = Stored /\ Enter(c, "adding", w) /\ release.status = "open" /\ c \notin Drains
    BY <1>1 DEF NoWork, AddBegin, Editable
  <2> HIDE DEF w
  <2>2. Read(c, "adding", w, release.status)
    BY <1>0, <2>1 DEF Read
  <2> QED BY <1>0, <2>1, <2>2, ReadEnters
<1>2. CASE RemoveBegin(c)
  <2>1. PICK i \in items : Enter(c, "removing", [NoWork EXCEPT !.read = Stored, !.left = {i}])
    BY <1>2 DEF RemoveBegin
  <2> DEFINE w == [NoWork EXCEPT !.read = Stored, !.left = {i}]
  <2>2. w.read = Stored /\ Enter(c, "removing", w) /\ release.status = "open"
    BY <1>2, <2>1 DEF NoWork, RemoveBegin, Editable
  <2> HIDE DEF w
  <2>3. Read(c, "removing", w, release.status)
    BY <1>0, <2>2 DEF Read
  <2> QED BY <1>0, <2>2, <2>3, ReadEnters
<1>3. CASE ScheduleBegin(c)
  <2>1. PICK at \in (clock + 1)..MaxClock : Enter(c, "scheduling", [NoWork EXCEPT !.read = Stored, !.at = at])
    BY <1>3 DEF ScheduleBegin
  <2> DEFINE w == [NoWork EXCEPT !.read = Stored, !.at = at]
  <2>2. w.read = Stored /\ Enter(c, "scheduling", w) /\ release.status \in {"open", "scheduled"}
    BY <1>3, <2>1 DEF NoWork, ScheduleBegin
  <2> HIDE DEF w
  <2>3. Read(c, "scheduling", w, release.status)
    BY <1>0, <2>2 DEF Read
  <2> QED BY <1>0, <2>2, <2>3, ReadEnters
<1>4. CASE CancelBegin(c) \/ PublishBegin(c)
  <2> DEFINE w == [NoWork EXCEPT !.read = Stored]
  <2>1. w.read = Stored
    BY DEF NoWork
  <2>2. CancelBegin(c) => Enter(c, "cancelling", w) /\ release.status \in {"open", "scheduled", "failed"}
    BY <1>0 DEF CancelBegin, Cancellable, InRelease, ReleaseStatuses
  <2>3. PublishBegin(c) => /\ Enter(c, "preflight", w) /\ release.status \in {"open", "scheduled"}
                           /\ c \in Drains => release.status = "scheduled"
    BY DEF PublishBegin, ReleaseInv, ReadInv, Read, Settled
  <2> HIDE DEF w
  <2>4. CancelBegin(c) => Read(c, "cancelling", w, release.status)
    BY <1>0, <2>1, <2>2 DEF Read
  <2>5. PublishBegin(c) => Read(c, "preflight", w, release.status)
    BY <1>0, <2>1, <2>3 DEF Read
  <2> QED BY <1>0, <1>4, <2>2, <2>3, <2>4, <2>5, ReadEnters
<1>5. CASE DrainFind(c) \/ DrainThrows(c)
  <2>1. DrainFind(c) => Enter(c, "due", NoWork) /\ Read(c, "due", NoWork, release.status)
    BY DEF DrainFind, Due, Read, Settled
  <2>2. DrainThrows(c) => Enter(c, "idle", NoWork) /\ Read(c, "idle", NoWork, release.status)
    BY DEF DrainThrows, Read
  <2> QED BY <1>0, <1>5, <2>1, <2>2, ReadEnters
<1> QED BY <1>1, <1>2, <1>3, <1>4, <1>5

(* A write that nothing has crossed is made by a request that read what is *)
(* there, and so not of a published release.                               *)
LEMMA NothingCrossed ==
  ASSUME ReleaseInv, NEW c \in Callers, Writes(c), "release" \notin crossed', pc[c] \notin {"idle", "due"}
  PROVE  /\ "release" \notin crossed /\ work[c].read.items = items
         /\ work[c].read.release.status = release.status /\ release.status # "published"
<1>1. work[c].read = Stored /\ "release" \notin crossed
  BY DEF Writes
<1> QED BY <1>1, StoredTyped DEF ReleaseInv, UnitInv, ReadInv, Read

LEMMA WritesRelease ==
  ASSUME ReleaseInv, NEW c \in Callers,
         \/ AddWrite(c) \/ RemoveWrite(c) \/ ScheduleWrite(c) \/ CancelItems(c) \/ CancelHeader(c)
         \/ MarkFailed(c) \/ PublishCommit(c)
  PROVE  ReleaseInv' /\ ("release" \notin crossed' => release.status # "published")
<1>0. UnitInv /\ UnitInv' /\ release \in Header
  BY WritesUnit, PublishCommitUnit DEF ReleaseInv, UnitInv, TypeOK
<1>1. Writes(c) /\ pc[c] \notin {"idle", "due"}
  BY DEF AddWrite, RemoveWrite, ScheduleWrite, CancelItems, CancelHeader, MarkFailed, PublishCommit
<1>2. release.status \notin Settled => release'.status \notin Settled
  BY <1>0 DEF AddWrite, RemoveWrite, ScheduleWrite, CancelItems, CancelHeader, MarkFailed, PublishCommit,
     Settled, Header
<1>3. ReadInv'
  <2>1. CASE CancelItems(c)
    <3> DEFINE w == [NoWork EXCEPT !.read = [work[c].read EXCEPT !.items = {}]]
    <3>1. Goto(c, "header", w) /\ w.read.release = work[c].read.release /\ pc[c] = "cancelling"
      BY <1>0, <2>1 DEF CancelItems, NoWork, UnitInv, TypeOK, Work
    <3> HIDE DEF w
    <3>2. Read(c, "header", w, release'.status)
      BY <3>1 DEF Read, ReadInv, ReleaseInv
    <3> QED BY <1>0, <1>2, <3>1, <3>2, ReadMoves DEF ReleaseInv
  <2>2. CASE Return(c)
    <3>1. Goto(c, "idle", NoWork) /\ Read(c, "idle", NoWork, release'.status)
      BY <2>2 DEF Return, Read
    <3> QED BY <1>0, <1>2, <3>1, ReadMoves DEF ReleaseInv
  <2> QED BY <2>1, <2>2 DEF AddWrite, RemoveWrite, ScheduleWrite, CancelHeader, MarkFailed, PublishCommit
<1>4. "release" \notin crossed' =>
        /\ "release" \notin crossed /\ work[c].read.items = items
        /\ work[c].read.release.status = release.status /\ release.status # "published"
  BY <1>1, NothingCrossed
<1>5. ScheduledInv'
  <2> SUFFICES ASSUME "release" \notin crossed', release'.status = "scheduled", NEW i \in items'
               PROVE  i.doc \in checked'
    BY DEF ScheduledInv
  <2>1. CASE AddWrite(c)
    BY <1>4, <2>1 DEF AddWrite, ReleaseInv, ReadInv, Read
  <2>2. CASE RemoveWrite(c) \/ CancelItems(c)
    <3>1. UNCHANGED <<release, checked>> /\ items' \subseteq items
      BY <2>2 DEF RemoveWrite, CancelItems
    <3> QED BY <1>4, <3>1 DEF ReleaseInv, ScheduledInv
  <2>3. CASE ScheduleWrite(c)
    BY <1>4, <2>3 DEF ScheduleWrite
  <2>4. CASE CancelHeader(c) \/ MarkFailed(c) \/ PublishCommit(c)
    BY <1>0, <2>4 DEF CancelHeader, MarkFailed, PublishCommit, InRelease, Header
  <2> QED BY <2>1, <2>2, <2>3, <2>4
<1> QED BY <1>0, <1>3, <1>4, <1>5 DEF ReleaseInv

LEMMA PublishRelease ==
  ASSUME ReleaseInv, NEW c \in Callers, Preflight(c) \/ PublishMember(c) \/ PublishFails(c)
  PROVE  ReleaseInv'
<1>0. UnitInv /\ UnitInv' /\ work[c] \in Work
  BY PreflightUnit, PublishMemberUnit, PublishFailsUnit DEF ReleaseInv, UnitInv, TypeOK
<1>1. UNCHANGED <<release, items, checked, crossed>>
  BY DEF Preflight, PublishMember, PublishFails, Enter, state
<1>2. \E step \in {"idle", "failing", "tx"} : \E w : Goto(c, step, w) /\ (step # "idle" => w.read = work[c].read)
  <2>1. CASE Preflight(c)
    <3>1. [work[c] EXCEPT !.left = work[c].read.items, !.attempt = attempts + 1].read = work[c].read
      BY <1>0 DEF Work
    <3> QED BY <2>1, <3>1 DEF Preflight, AfterRefusal
  <2>2. CASE PublishMember(c)
    <3>1. \A i : [work[c] EXCEPT !.left = @ \ {i}, !.live = @ \union {i.doc}].read = work[c].read
      BY <1>0 DEF Work
    <3> QED BY <2>2, <3>1 DEF PublishMember
  <2>3. CASE PublishFails(c)
    <3>1. [NoWork EXCEPT !.read = work[c].read].read = work[c].read
      BY DEF NoWork
    <3> QED BY <2>3, <3>1 DEF PublishFails, Enter
  <2> QED BY <2>1, <2>2, <2>3
<1>3. PICK step, w : step \in {"idle", "failing", "tx"} /\ Goto(c, step, w) /\ (step # "idle" => w.read = work[c].read)
  BY <1>2
<1>4. pc[c] \in {"preflight", "tx"}
  BY DEF Preflight, PublishMember, PublishFails
<1>5. Read(c, step, w, release'.status)
  BY <1>3, <1>4 DEF Read, ReadInv, ReleaseInv
<1>6. ReadInv'
  BY <1>0, <1>1, <1>3, <1>5, ReadMoves DEF ReleaseInv
<1> QED BY <1>0, <1>1, <1>6 DEF ReleaseInv, ScheduledInv

LEMMA OutsideRelease ==
  ASSUME ReleaseInv, (\E c \in Callers : CreateRelease(c)) \/ (\E d \in Docs : EditDoc(d)) \/ Tick \/ Crash
         \/ UNCHANGED vars
  PROVE  ReleaseInv'
<1>0. UnitInv'
  BY OutsideUnit DEF ReleaseInv
<1>1. ASSUME NEW c \in Callers, CreateRelease(c) PROVE ReleaseInv'
  <2>1. release.status = "none" /\ release'.status = "open" /\ UNCHANGED <<pc, work>>
    BY <1>1 DEF CreateRelease, ReleaseInv, UnitInv, TypeOK, Header
  <2>2. ReadInv'
    BY <2>1 DEF ReleaseInv, ReadInv, Read, Settled
  <2> QED BY <1>0, <2>1, <2>2 DEF ReleaseInv, ScheduledInv
<1>2. ASSUME NEW d \in Docs, EditDoc(d) PROVE ReleaseInv'
  <2>1. UNCHANGED <<release, items, pc, work, checked>> /\ crossed \subseteq crossed'
    BY <1>2 DEF EditDoc
  <2> QED BY <1>0, <2>1 DEF ReleaseInv, ReadInv, ScheduledInv
<1>3. CASE Tick \/ UNCHANGED vars
  <2>1. UNCHANGED <<release, items, pc, work, checked, crossed>>
    BY <1>3 DEF Tick, vars, state
  <2> QED BY <1>0, <2>1 DEF ReleaseInv, ReadInv, ScheduledInv
<1>4. CASE Crash
  <2>1. UNCHANGED <<release, items, checked, crossed>> /\ \A c \in Callers : pc'[c] = "idle"
    BY <1>4 DEF Crash, state
  <2> QED BY <1>0, <2>1 DEF ReleaseInv, ReadInv, Read, ScheduledInv
<1> QED BY <1>1, <1>2, <1>3, <1>4

LEMMA ReleaseInvariant == Spec => []ReleaseInv
<1>1. Init => ReleaseInv
  <2>1. Init => UnitInv
    BY NothingTyped, ReleasesAssumption DEF Init, UnitInv, Unit, TypeOK, Steps, Header, ReleaseStatuses, Doc
  <2> QED BY <2>1 DEF Init, ReleaseInv, ReadInv, Read, ScheduledInv
<1>2. ReleaseInv /\ [Next]_vars => ReleaseInv'
  <2> SUFFICES ASSUME ReleaseInv, [Next]_vars PROVE ReleaseInv'
    OBVIOUS
  <2> QED BY BeginsRelease, WritesRelease, PublishRelease, OutsideRelease DEF Next, Ask, Continue
<1> QED BY <1>1, <1>2, PTL DEF Spec

(* Nothing changes a published release or its membership, as long as no    *)
(* request wrote what it had read before it was published: the statuses    *)
(* mutateReleaseMember, scheduleRelease and cancelRelease ask for are      *)
(* enough, whatever is in flight.                                          *)
THEOREM PublishedStays == Spec => PublishedIsImmutable
<1>1. ReleaseInv /\ [Next]_vars =>
        [release.status = "published" /\ "release" \notin crossed' => release' = release /\ items' = items]_vars
  <2> SUFFICES ASSUME ReleaseInv, Next, release.status = "published", "release" \notin crossed'
               PROVE  release' = release /\ items' = items
    OBVIOUS
  <2>1. ASSUME NEW c \in Callers PROVE ~ CreateRelease(c)
    BY DEF CreateRelease
  <2>2. ASSUME NEW c \in Callers,
               \/ RemoveBegin(c) \/ ScheduleBegin(c) \/ CancelBegin(c) \/ PublishBegin(c)
               \/ DrainFind(c) \/ DrainThrows(c) \/ (\E d \in Docs : AddBegin(c, d))
               \/ Preflight(c) \/ PublishMember(c) \/ PublishFails(c)
        PROVE  release' = release /\ items' = items
    BY <2>2 DEF RemoveBegin, ScheduleBegin, CancelBegin, PublishBegin, DrainFind, DrainThrows, AddBegin,
       Preflight, PublishMember, PublishFails, Enter, state
  <2>3. CASE (\E d \in Docs : EditDoc(d)) \/ Tick \/ Crash
    BY <2>3 DEF EditDoc, Tick, Crash, state
  <2> QED BY <2>1, <2>2, <2>3, WritesRelease DEF Next, Ask, Continue
<1> QED BY <1>1, ReleaseInvariant, PTL DEF Spec, PublishedIsImmutable

(* What the cron's publish (processScheduledReleases) puts live was        *)
(* gate-checked when the release was scheduled, as long as the release and *)
(* its membership were what each writer had read.                          *)
THEOREM DrainKeepsTheGates == Spec => DrainPublishesChecked
<1>1. ASSUME ReleaseInv, Next, NEW c \in Drains, Publishing(c), "release" \notin crossed'
      PROVE  work[c].live \subseteq checked
  <2>1. c \in Callers /\ PublishCommit(c)
    BY <1>1, OnlyCommitsPublish DEF ReleaseInv, Callers
  <2>2. /\ "release" \notin crossed /\ work[c].read.items = items
        /\ work[c].read.release.status = release.status /\ pc[c] = "tx"
    BY <1>1, <2>1, NothingCrossed DEF PublishCommit
  <2>3. release.status = "scheduled"
    BY <1>1, <2>1, <2>2 DEF ReleaseInv, ReadInv, Read
  <2>4. Unit("tx", work[c], docs, attempts)
    BY <1>1, <2>1, <2>2 DEF ReleaseInv, UnitInv
  <2>5. \A i \in items : i.doc \in checked
    BY <1>1, <2>2, <2>3 DEF ReleaseInv, ScheduledInv
  <2> QED BY <2>2, <2>4, <2>5 DEF Unit
<1>2. ReleaseInv /\ [Next]_vars =>
        [\A c \in Drains : Publishing(c) /\ "release" \notin crossed' => work[c].live \subseteq checked]_vars
  BY <1>1
<1> QED BY <1>2, ReleaseInvariant, PTL DEF Spec, DrainPublishesChecked
=============================================================================
