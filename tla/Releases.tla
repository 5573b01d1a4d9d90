------------------------------ MODULE Releases ------------------------------
(***************************************************************************)
(* One content release: a named bundle of drafts that is published as a    *)
(* unit, at once or by a drain when its time comes (operations.ts:         *)
(* createRelease ... processScheduledReleases).                            *)
(*                                                                         *)
(* Every operation reads the release and its membership first and acts on  *)
(* what it read.  The writes of publishRelease are in one transaction, so  *)
(* that what it did so far shows to nobody until it commits, and locks the *)
(* rows it wrote (Postgres); the audit row of each member goes through     *)
(* another connection and shows at once.                                   *)
(***************************************************************************)
EXTENDS Naturals, FiniteSets

CONSTANTS
  Docs,        (* documents that may be members                            *)
  Publishers,  (* callers that may publish                                 *)
  Editors,     (* callers that may edit a release but not publish          *)
  Drains,      (* the cron: overrideAccess                                 *)
  MaxClock,    (* bound: time explored                                     *)
  MaxAdds,     (* bound: member rows ever created                          *)
  MaxItems,    (* members a release may have                               *)
  MaxEdits,    (* bound: writes to documents outside the release           *)
  MaxAttempts, (* bound: publish attempts, then only a due drain goes on   *)
  MaxInFlight, (* bound: requests in flight at once                        *)
  MaxCrashes,  (* bound: crashes                                           *)
  None

Callers == Publishers \union Editors \union Drains
ReleaseStatuses == {"none", "open", "scheduled", "published", "failed", "gone"}

VARIABLES
  release, (* the _releases row; "none" before it, "gone" after it         *)
  items,   (* the _release_items rows: the document and the insert's number*)
  docs,    (* the documents' rows; ok is whether the evals pass it         *)
  pc, work,(* where each request is and what it read                       *)
  audit,   (* the publish audit rows: which attempt, which document        *)
  checked, (* documents the last schedule gate-checked                     *)
  done,    (* publish attempts that committed                              *)
  crossed, (* what was not as a request had read it when it wrote          *)
  clock, adds, edits, attempts, crashes

state == <<release, items, docs>>
bounds == <<clock, adds, edits, attempts, crashes>>
vars == <<state, pc, work, audit, checked, done, crossed, bounds>>

Header == [status: ReleaseStatuses, at: 0..MaxClock]
Doc == [ok: BOOLEAN, status: {"draft", "published"}]
Item == [doc: Docs, n: Nat \ {0}]
Work == [read: [release: Header, items: SUBSET Item], doc: Docs \union {None}, at: 0..MaxClock,
         left: SUBSET Item, live: SUBSET Docs, attempt: Nat]
Steps == {"idle", "adding", "removing", "scheduling", "cancelling", "header", "due",
          "preflight", "tx", "failing"}

(* What a request reads first: the release and its membership.             *)
Stored == [release |-> release, items |-> items]
Nothing == [release |-> [status |-> "none", at |-> 0], items |-> {}]

NoWork == [read |-> Nothing, doc |-> None, at |-> 0, left |-> {}, live |-> {}, attempt |-> 0]

ASSUME ReleasesAssumption ==
  /\ {MaxClock, MaxAdds, MaxItems, MaxEdits, MaxAttempts, MaxInFlight, MaxCrashes} \subseteq Nat
  /\ Drains \intersect (Publishers \union Editors) = {}
  /\ Publishers \intersect Editors = {}
  /\ None \notin Doc \union Docs

Init ==
  /\ release = [status |-> "none", at |-> 0]
  /\ items = {}
  /\ docs = [d \in Docs |-> [ok |-> TRUE, status |-> "draft"]]
  /\ pc = [c \in Callers |-> "idle"] /\ work = [c \in Callers |-> NoWork]
  /\ audit = {} /\ checked = {} /\ done = {} /\ crossed = {}
  /\ clock = 0 /\ adds = 0 /\ edits = 0 /\ attempts = 0 /\ crashes = 0

Busy == {c \in Callers : pc[c] # "idle"}
MayBegin(c) == pc[c] = "idle" /\ Cardinality(Busy) < MaxInFlight
InRelease == release.status \notin {"none", "gone"}

(* Rows an open transaction has written: other writers wait for them.      *)
Locked == UNION {work[c].live : c \in Callers}

Goto(c, step, w) == pc' = [pc EXCEPT ![c] = step] /\ work' = [work EXCEPT ![c] = w]
Return(c) == Goto(c, "idle", NoWork)

(* A request that has read what it needs and written nothing yet.          *)
Enter(c, step, w) == Goto(c, step, w) /\ UNCHANGED <<state, audit, checked, done, crossed, bounds>>

(* It writes whatever is there by now.                                     *)
Writes(c) == crossed' = IF work[c].read # Stored THEN crossed \union {"release"} ELSE crossed

CreateRelease(c) ==
  /\ MayBegin(c) /\ c \notin Drains /\ release.status = "none"
  /\ release' = [release EXCEPT !.status = "open"]
  /\ UNCHANGED <<items, docs, pc, work, audit, checked, done, crossed, bounds>>

-----------------------------------------------------------------------------
(* Membership.                                                             *)

(* Variant: only a published release is closed to edits.                   *)
EditableUnlessPublished == release.status \in {"open", "scheduled", "failed"}

(* mutateReleaseMember: only an open release can be edited.                *)
Editable == release.status = "open"

(* It looks for the member row (limit 1), then inserts or deletes.         *)
AddBegin(c, d) ==
  /\ MayBegin(c) /\ c \notin Drains /\ Editable /\ docs[d] # None
  /\ \A i \in items : i.doc # d
  /\ Cardinality(items) < MaxItems /\ adds + Cardinality({b \in Callers : pc[b] = "adding"}) < MaxAdds
  /\ Enter(c, "adding", [NoWork EXCEPT !.read = Stored, !.doc = d])

AddWrite(c) ==
  /\ pc[c] = "adding"
  /\ items' = items \union {[doc |-> work[c].doc, n |-> adds + 1]}
  /\ adds' = adds + 1
  /\ Writes(c) /\ Return(c)
  /\ UNCHANGED <<release, docs, audit, checked, done, clock, edits, attempts, crashes>>

RemoveBegin(c) ==
  /\ MayBegin(c) /\ c \notin Drains /\ Editable
  /\ \E i \in items : docs[i.doc] # None /\ Enter(c, "removing", [NoWork EXCEPT !.read = Stored, !.left = {i}])

RemoveWrite(c) ==
  /\ pc[c] = "removing"
  /\ items' = items \ work[c].left
  /\ Writes(c) /\ Return(c)
  /\ UNCHANGED <<release, docs, audit, checked, done, bounds>>

-----------------------------------------------------------------------------
(* The gates.                                                              *)

CanPublish(c) == c \in Publishers \union Drains

(* What publish() raises for a member: it is gone, or it is a draft and    *)
(* this caller may not publish it, or an eval blocks it.                   *)
Publishes(c, doc) == doc # None /\ (doc.status = "draft" => CanPublish(c) /\ doc.ok)

(* Variant: the pre-flight leaves the evals to the publish.                *)
PreflightsAccess(c, doc) == doc # None /\ CanPublish(c)

(* preflightMember: the same gates, whatever the status of the member.     *)
Preflights(c, doc) == doc # None /\ CanPublish(c) /\ doc.ok

MembersPreflight(c, members) == \A i \in members : Preflights(c, docs[i.doc])

-----------------------------------------------------------------------------
(* scheduleRelease and cancelRelease.                                      *)

(* Every member is gate-checked when the release is scheduled.             *)
ScheduleBegin(c) ==
  /\ MayBegin(c) /\ c \notin Drains
  /\ release.status \in {"open", "scheduled"} /\ MembersPreflight(c, items)
  /\ attempts < MaxAttempts
  /\ \E at \in (clock + 1)..MaxClock :
       Enter(c, "scheduling", [NoWork EXCEPT !.read = Stored, !.at = at])

ScheduleWrite(c) ==
  /\ pc[c] = "scheduling"
  /\ release' = IF InRelease THEN [status |-> "scheduled", at |-> work[c].at] ELSE release
  /\ checked' = {i.doc : i \in work[c].read.items}
  /\ Writes(c) /\ Return(c)
  /\ UNCHANGED <<items, docs, audit, done, bounds>>

(* Variant: any release can be cancelled.                                  *)
CancellableAlways == InRelease

Cancellable == InRelease /\ release.status # "published"

CancelBegin(c) ==
  /\ MayBegin(c) /\ c \notin Drains /\ Cancellable
  /\ Enter(c, "cancelling", [NoWork EXCEPT !.read = Stored])

CancelItems(c) ==
  /\ pc[c] = "cancelling"
  /\ items' = items \ work[c].read.items
  /\ Writes(c) /\ Goto(c, "header", [NoWork EXCEPT !.read = [work[c].read EXCEPT !.items = {}]])
  /\ UNCHANGED <<release, docs, audit, checked, done, bounds>>

CancelHeader(c) ==
  /\ pc[c] = "header"
  /\ release' = [status |-> "gone", at |-> 0]
  /\ Writes(c) /\ Return(c)
  /\ UNCHANGED <<items, docs, audit, checked, done, bounds>>

-----------------------------------------------------------------------------
(* publishRelease and the drain.                                           *)

PublishBegin(c) ==
  /\ IF c \in Drains THEN pc[c] = "due" ELSE MayBegin(c) /\ attempts < MaxAttempts
  /\ release.status \in {"open", "scheduled"}
  /\ Enter(c, "preflight", [NoWork EXCEPT !.read = Stored])

Due == release.status = "scheduled" /\ release.at <= clock

DrainFind(c) ==
  /\ c \in Drains /\ MayBegin(c) /\ Due
  /\ Enter(c, "due", NoWork)

(* The release was cancelled or settled since the query: publishRelease    *)
(* throws, and the drain with it.                                          *)
DrainThrows(c) ==
  /\ pc[c] = "due" /\ release.status \notin {"open", "scheduled"}
  /\ Enter(c, "idle", NoWork)

(* Variant: the drain leaves a release it cannot publish scheduled.        *)
LeavesUnpublishable(c) == "idle"

(* A failed pre-flight returns the release as it was; the drain marks it   *)
(* failed so as not to find it for ever.                                   *)
AfterRefusal(c) == IF c \in Drains THEN "failing" ELSE "idle"

Preflight(c) ==
  /\ pc[c] = "preflight"
  /\ IF MembersPreflight(c, work[c].read.items)
     THEN /\ Goto(c, "tx", [work[c] EXCEPT !.left = work[c].read.items, !.attempt = attempts + 1])
          /\ attempts' = attempts + 1
     ELSE Goto(c, AfterRefusal(c), IF AfterRefusal(c) = "idle" THEN NoWork ELSE work[c]) /\ UNCHANGED attempts
  /\ UNCHANGED <<state, audit, checked, done, crossed, clock, adds, edits, crashes>>

(* The members in the order they were added.                               *)
IsNext(c, i) == i \in work[c].left /\ \A j \in work[c].left : i.n <= j.n

PublishMember(c) ==
  \E i \in work[c].left :
    /\ pc[c] = "tx" /\ IsNext(c, i)
    /\ i.doc \notin Locked \ work[c].live
    /\ Publishes(c, docs[i.doc])
    /\ Goto(c, "tx", [work[c] EXCEPT !.left = @ \ {i}, !.live = @ \union {i.doc}])
    /\ audit' = audit \union {[attempt |-> work[c].attempt, doc |-> i.doc]}
    /\ UNCHANGED <<state, checked, done, crossed, bounds>>

(* A member that does not publish rolls the transaction back.              *)
PublishFails(c) ==
  \E i \in work[c].left :
    /\ pc[c] = "tx" /\ IsNext(c, i)
    /\ i.doc \notin Locked \ work[c].live
    /\ i.doc \notin work[c].live /\ ~ Publishes(c, docs[i.doc])
    /\ Enter(c, "failing", [NoWork EXCEPT !.read = work[c].read])

(* Variant: each member commits by itself and the status flips first.      *)
LiveAfterFirst(w) == {i.doc : i \in {j \in w.read.items : \A k \in w.read.items : j.n <= k.n}}

LiveAfter(w) == w.live

(* The status flip, last in the transaction, matches no row of a release   *)
(* cancelled meanwhile; the members go live all the same.                  *)
PublishCommit(c) ==
  LET w == work[c]
  IN  /\ pc[c] = "tx" /\ w.left = {}
      /\ docs' = [d \in Docs |-> IF d \in LiveAfter(w) THEN [docs[d] EXCEPT !.status = "published"] ELSE docs[d]]
      /\ release' = IF InRelease THEN [status |-> "published", at |-> 0] ELSE release
      /\ done' = done \union {w.attempt}
      /\ Writes(c) /\ Return(c)
      /\ UNCHANGED <<items, audit, checked, bounds>>

MarkFailed(c) ==
  /\ pc[c] = "failing"
  /\ release' = IF InRelease THEN [release EXCEPT !.status = "failed"] ELSE release
  /\ Writes(c) /\ Return(c)
  /\ UNCHANGED <<items, docs, audit, checked, done, bounds>>

-----------------------------------------------------------------------------
(* Documents are edited, published, unpublished and deleted meanwhile,     *)
(* also between their pre-flight and their publish.                        *)
ToPublish == UNION {{i.doc : i \in work[c].left} : c \in {b \in Callers : pc[b] = "tx"}}

EditDoc(d) ==
  /\ edits < MaxEdits /\ edits' = edits + 1
  /\ Cardinality(Busy) < MaxInFlight
  /\ docs[d] # None /\ d \notin Locked
  /\ \E row \in Doc \union {None} :
       /\ row # None /\ row.status = "published" /\ docs[d].status = "draft" => row.ok
       /\ docs' = [docs EXCEPT ![d] = row]
  /\ crossed' = IF d \in ToPublish THEN crossed \union {"document"} ELSE crossed
  /\ UNCHANGED <<release, items, pc, work, audit, checked, done, clock, adds, attempts, crashes>>

Tick ==
  /\ clock < MaxClock /\ clock' = clock + 1
  /\ UNCHANGED <<state, pc, work, audit, checked, done, crossed, adds, edits, attempts, crashes>>

Crash ==
  /\ Busy # {} /\ crashes < MaxCrashes /\ crashes' = crashes + 1
  /\ pc' = [c \in Callers |-> "idle"] /\ work' = [c \in Callers |-> NoWork]
  /\ UNCHANGED <<state, audit, checked, done, crossed, clock, adds, edits, attempts>>

Ask(c) ==
  \/ CreateRelease(c) \/ RemoveBegin(c) \/ ScheduleBegin(c) \/ CancelBegin(c)
  \/ (c \notin Drains /\ PublishBegin(c))
  \/ \E d \in Docs : AddBegin(c, d)

Continue(c) ==
  \/ AddWrite(c) \/ RemoveWrite(c) \/ ScheduleWrite(c) \/ CancelItems(c) \/ CancelHeader(c)
  \/ (c \in Drains /\ PublishBegin(c))
  \/ DrainThrows(c) \/ Preflight(c) \/ PublishMember(c) \/ PublishFails(c) \/ PublishCommit(c) \/ MarkFailed(c)

Next ==
  \/ \E c \in Callers : Ask(c) \/ DrainFind(c) \/ Continue(c)
  \/ \E d \in Docs : EditDoc(d)
  \/ Tick \/ Crash

Spec == Init /\ [][Next]_vars

(* Requests finish, time passes, and the cron keeps draining.              *)
FairSpec ==
  /\ Spec /\ WF_vars(Tick)
  /\ \A c \in Callers : WF_vars(Continue(c))
  /\ \A c \in Drains : SF_vars(DrainFind(c))

-----------------------------------------------------------------------------
(* Properties.                                                             *)

TypeOK ==
  /\ release \in Header /\ items \subseteq Item
  /\ docs \in [Docs -> Doc \union {None}]
  /\ pc \in [Callers -> Steps]
  /\ work \in [Callers -> Work]
  /\ audit \subseteq [attempt: 1..attempts, doc: Docs] /\ done \subseteq 1..attempts
  /\ checked \subseteq Docs /\ crossed \subseteq {"release", "document"}
  /\ clock \in 0..MaxClock /\ adds \in Nat /\ edits \in Nat /\ attempts \in Nat /\ crashes \in Nat

Publishing(c) == pc[c] = "tx" /\ pc'[c] = "idle" /\ done' # done

(* Whatever a release puts live, it puts live together: each member it had *)
(* when its publish began.                                                 *)
GoesLiveAsAUnit ==
  [][\A c \in Callers : Publishing(c) =>
       \A i \in work[c].read.items : docs'[i.doc] # None /\ docs'[i.doc].status = "published"]_vars

(* A published release is never changed again, unless a request writes     *)
(* that had read it before it was published.                               *)
PublishedIsImmutable ==
  [][release.status = "published" /\ "release" \notin crossed' => release' = release /\ items' = items]_vars

(* The drain publishes only what was gate-checked when the release was     *)
(* scheduled, unless the release or its membership changed under a request *)
(* that had read them.                                                     *)
DrainPublishesChecked ==
  [][\A c \in Drains : Publishing(c) /\ "release" \notin crossed' => work[c].live \subseteq checked]_vars

(* An audit row of a publish stands for a publish that took place, or will *)
(* - a member that passed the pre-flight publishes - unless the process    *)
(* died or a member was edited between the two.                            *)
AuditedPublishHappened ==
  crashes = 0 /\ "document" \notin crossed =>
    \A a \in audit : a.attempt \in done \/ \E c \in Callers : pc[c] = "tx" /\ work[c].attempt = a.attempt

(* A due release does not stay due: it is published or marked failed, or   *)
(* somebody changed it.                                                    *)
DueIsSettled == Due ~> ~ Due
=============================================================================
