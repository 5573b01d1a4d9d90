--------------------------- MODULE DocumentsProofs ---------------------------
(***************************************************************************)
(* What holds of the write pipeline for every set of documents, clients    *)
(* and contents, every version limit, and any number of requests in        *)
(* flight: its type invariant; a published document has a credential, over *)
(* evaluated content only; deletion is final; the history ends in what is  *)
(* live and the audit log accounts for every write.  And what holds of one *)
(* request at a time: the publish gate, schedules and tokens.              *)
(***************************************************************************)
EXTENDS Documents, FiniteSetTheorems, TLAPS

(* A read row is a row.                                                    *)
LEMMA ReadRow ==
  ASSUME TypeOK, NEW d \in Docs, rows[d] # None
  PROVE  rows[d] \in Row
BY DEF TypeOK

LEMMA NoWorkTyped == NoWork \in Work
<1>1. (CHOOSE d \in Docs : TRUE) \in Docs
  BY DocumentsAssumption
<1>2. (CHOOSE x \in Contents : TRUE) \in Contents
  BY DocumentsAssumption
<1> QED BY <1>1, <1>2 DEF NoWork, Work, Operations, Statuses

LEMMA NoPatchTyped == NoPatch \in Patch
BY DEF NoPatch, Patch, Operations, Statuses

(* The write a patch makes of a row is well formed.                        *)
LEMMA MergedTyped ==
  ASSUME TypeOK, NEW d \in Docs, rows[d] # None, NEW patch \in Patch
  PROVE  Merged(d, patch) \in Work
<1>1. rows[d] \in Row
  BY ReadRow
<1>2. /\ patch.action \in Operations /\ patch.sched \in Nat \union {None, Keep}
      /\ patch.archive \in BOOLEAN /\ patch.tokened \in Nat \union {None}
      /\ patch.content \in Contents \union {Keep} /\ patch.status \in Statuses \union {Keep}
  BY DEF Patch
<1>3. rows[d].content \in Contents /\ rows[d].status \in Statuses /\ rows[d].n \in Nat
  BY <1>1 DEF Row
<1> QED BY <1>2, <1>3 DEF Merged, Work, Transition

LEMMA RemovalTyped ==
  ASSUME TypeOK, NEW d \in Docs, rows[d] # None
  PROVE  Removal(d) \in Work
<1>1. rows[d].n \in Nat
  BY ReadRow DEF Row
<1> QED BY <1>1, NoWorkTyped DEF Removal, Work, Operations

(* A request that begins leaves the types alone when its work is typed.    *)
LEMMA BeginTyped ==
  ASSUME TypeOK, NEW c \in Clients, NEW w \in Work, Begin(c, w),
         due' \in [Clients -> SUBSET ({"publish", "expire"} \X Docs)]
  PROVE  TypeOK'
BY DEF TypeOK, Begin, tables, history

LEMMA UpdateBeginTyped ==
  ASSUME TypeOK, NEW c \in Clients, NEW d \in Docs, NEW patch \in Patch, UpdateBegin(c, d, patch),
         due' \in [Clients -> SUBSET ({"publish", "expire"} \X Docs)]
  PROVE  TypeOK'
BY MergedTyped, BeginTyped DEF UpdateBegin

LEMMA AskedUpdateTyped ==
  ASSUME TypeOK, NEW c \in Clients, NEW d \in Docs, NEW patch \in Patch,
         UpdateBegin(c, d, patch), UNCHANGED due
  PROVE  TypeOK'
<1>1. due' \in [Clients -> SUBSET ({"publish", "expire"} \X Docs)]
  BY DEF TypeOK
<1> QED BY <1>1, UpdateBeginTyped

(* Every patch a caller can pass is one.                                   *)
LEMMA PatchesTyped ==
  ASSUME NEW content \in Contents \union {Keep}, NEW status \in Statuses \union {Keep},
         NEW at \in Nat \union {None}, NEW t \in Nat \union {None}
  PROVE  /\ [NoPatch EXCEPT !.content = content] \in Patch
         /\ [NoPatch EXCEPT !.sched = at] \in Patch
         /\ [NoPatch EXCEPT !.content = content, !.status = status, !.tokened = t] \in Patch
         /\ [NoPatch EXCEPT !.action = "publish", !.sched = at, !.tokened = t,
                            !.status = IF at = None THEN "published" ELSE "draft"] \in Patch
         /\ [NoPatch EXCEPT !.action = "unpublish", !.status = "draft", !.tokened = t] \in Patch
BY NoPatchTyped DEF Patch, Operations, Statuses

LEMMA AskTyped ==
  ASSUME TypeOK, NEW c \in Clients, NEW d \in Docs, Ask(c, d)
  PROVE  TypeOK'
<1>1. \A t \in TokensOf(c) : t \in Nat \union {None}
  BY DEF TokensOf, TypeOK, Token
<1>2. CASE CreateBegin(c, d)
  <2>1. PICK content \in Contents, status \in Statuses :
          Begin(c, [NoWork EXCEPT !.doc = d, !.action = "create", !.content = content, !.status = status,
                                  !.publishing = Transition("none", status)]) /\ UNCHANGED due
    BY <1>2 DEF CreateBegin
  <2>2. [NoWork EXCEPT !.doc = d, !.action = "create", !.content = content, !.status = status,
                       !.publishing = Transition("none", status)] \in Work
    BY NoWorkTyped DEF Work, Transition, Operations, Statuses
  <2> QED BY <2>1, <2>2, BeginTyped DEF TypeOK
<1>3. CASE EditBegin(c, d)
  <2>2. PICK content \in Contents \union {Keep}, status \in Statuses \union {Keep}, t \in TokensOf(c) :
          UpdateBegin(c, d, [NoPatch EXCEPT !.content = content, !.status = status, !.tokened = t]) /\ UNCHANGED due
    BY <1>3 DEF EditBegin, AskUpdate
  <2>3. [NoPatch EXCEPT !.content = content, !.status = status, !.tokened = t] \in Patch
    BY <1>1, PatchesTyped
  <2> QED BY <2>2, <2>3, AskedUpdateTyped
<1>4. CASE PublishBegin(c, d)
  <2>1. \A at \in {None} \union {t \in Times : t > clock} : at \in Nat \union {None}
    BY DocumentsAssumption DEF Times
  <2>2. PICK at \in {None} \union {t \in Times : t > clock}, t \in TokensOf(c) :
          UpdateBegin(c, d, [NoPatch EXCEPT !.action = "publish", !.sched = at, !.tokened = t,
                            !.status = IF at = None THEN "published" ELSE "draft"]) /\ UNCHANGED due
    BY <1>4 DEF PublishBegin, AskUpdate
  <2>3. [NoPatch EXCEPT !.action = "publish", !.sched = at, !.tokened = t,
                            !.status = IF at = None THEN "published" ELSE "draft"] \in Patch
    BY <1>1, <2>1, PatchesTyped
  <2> QED BY <2>2, <2>3, AskedUpdateTyped
<1>5. CASE UnpublishBegin(c, d)
  <2>2. PICK t \in TokensOf(c) :
          UpdateBegin(c, d, [NoPatch EXCEPT !.action = "unpublish", !.status = "draft", !.tokened = t]) /\ UNCHANGED due
    BY <1>5 DEF UnpublishBegin, AskUpdate
  <2>3. [NoPatch EXCEPT !.action = "unpublish", !.status = "draft", !.tokened = t] \in Patch
    BY <1>1, PatchesTyped
  <2> QED BY <2>2, <2>3, AskedUpdateTyped
<1>6. CASE ScheduleBegin(c, d)
  <2>1. \A at \in {None} \union Times : at \in Nat \union {None}
    BY DocumentsAssumption DEF Times
  <2>2. PICK at \in {None} \union Times :
          UpdateBegin(c, d, [NoPatch EXCEPT !.sched = at]) /\ UNCHANGED due
    BY <1>6 DEF ScheduleBegin, AskUpdate
  <2>3. [NoPatch EXCEPT !.sched = at] \in Patch
    BY <2>1, PatchesTyped
  <2> QED BY <2>2, <2>3, AskedUpdateTyped
<1>7. CASE RestoreBegin(c, d)
  <2>1. \A s \in snaps : s.content \in Contents
    BY DEF TypeOK, Snap
  <2>2. PICK s \in snaps :
          UpdateBegin(c, d, [NoPatch EXCEPT !.content = s.content]) /\ UNCHANGED due
    BY <1>7 DEF RestoreBegin, AskUpdate
  <2>3. [NoPatch EXCEPT !.content = s.content] \in Patch
    BY <2>1, PatchesTyped
  <2> QED BY <2>2, <2>3, AskedUpdateTyped
<1>8. CASE DeleteBegin(c, d)
  BY <1>8, RemovalTyped, BeginTyped DEF DeleteBegin, TypeOK
<1>9. CASE ReadDoc(c, d)
  <2>1. [doc |-> d, updatedAt |-> rows[d].updatedAt, n |-> rows[d].n] \in Token
    BY <1>9, ReadRow DEF ReadDoc, Row, Token
  <2> QED BY <1>9, <2>1 DEF ReadDoc, TypeOK, tables, history
<1> QED BY <1>2, <1>3, <1>4, <1>5, <1>6, <1>7, <1>8, <1>9 DEF Ask

LEMMA FoundTyped ==
  ASSUME NEW S \in SUBSET Docs, NEW kind \in {"publish", "expire"}
  PROVE  {<<kind, d>> : d \in S} \in SUBSET ({"publish", "expire"} \X Docs)
<1>1. ASSUME NEW item \in {<<kind, d>> : d \in S}
      PROVE  item \in {"publish", "expire"} \X Docs
  <2>1. PICK d \in S : item = <<kind, d>>
    OBVIOUS
  <2> QED BY <2>1
<1> QED BY <1>1

LEMMA DrainTyped ==
  ASSUME TypeOK, NEW c \in Clients, DrainStep(c)
  PROVE  TypeOK'
<1>1. ASSUME NEW found \in SUBSET ({"publish", "expire"} \X Docs), Drain(c, found)
      PROVE  TypeOK'
  BY <1>1 DEF Drain, TypeOK, tables, history
<1>2. CASE ScheduledFind(c)
  <2> DEFINE S == {e \in FirstPage({x \in Docs : Scheduled(x)}) : rows[e].status # "published"}
  <2>1. S \in SUBSET Docs
    BY DEF FirstPage
  <2>2. Drain(c, {<<"publish", d>> : d \in S})
    BY <1>2 DEF ScheduledFind
  <2> HIDE DEF S
  <2> QED BY <1>1, <2>1, <2>2, FoundTyped
<1>3. CASE LifecycleFind(c)
  <2> DEFINE S == FirstPage({x \in Docs : ExpiredDoc(x)})
  <2>1. S \in SUBSET Docs
    BY DEF FirstPage
  <2>2. Drain(c, {<<"expire", d>> : d \in S})
    BY <1>3 DEF LifecycleFind
  <2> HIDE DEF S
  <2> QED BY <1>1, <2>1, <2>2, FoundTyped
<1>4. CASE DrainBegin(c)
  <2>1. PICK item \in due[c] :
          /\ rows[item[2]] # None
          /\ IF Deletes(item[1]) THEN Begin(c, Removal(item[2])) ELSE UpdateBegin(c, item[2], DrainPatch(item[1]))
          /\ due' = [due EXCEPT ![c] = @ \ {item}]
    BY <1>4 DEF DrainBegin
  <2>2. item[2] \in Docs /\ due' \in [Clients -> SUBSET ({"publish", "expire"} \X Docs)]
    BY <2>1 DEF TypeOK
  <2>3. DrainPatch(item[1]) \in Patch
    BY NoPatchTyped DEF DrainPatch, Patch, Operations, Statuses
  <2> QED BY <2>1, <2>2, <2>3, RemovalTyped, BeginTyped, UpdateBeginTyped
<1>5. CASE DrainSkip(c)
  BY <1>5 DEF DrainSkip, TypeOK, tables, history
<1> QED BY <1>2, <1>3, <1>4, <1>5 DEF DrainStep

LEMMA NumberedTyped ==
  ASSUME NEW v \in Work, NEW n \in Nat
  PROVE  [v EXCEPT !.n = n] \in Work
BY DEF Work

LEMMA RespondTyped ==
  ASSUME TypeOK, NEW c \in Clients, Respond(c)
  PROVE  TypeOK'
<1> DEFINE w == work[c]
<1>1. w \in Work
  BY DEF TypeOK
<1>7. [w EXCEPT !.n = commits + 1] \in Work /\ w.doc \in Docs
  <2>1. commits + 1 \in Nat
    BY DEF TypeOK
  <2>2. w.doc \in Docs
    BY <1>1 DEF Work
  <2> HIDE DEF w
  <2> QED BY <1>1, <2>1, <2>2, NumberedTyped
<1>8. Written(c) => work' \in [Clients -> Work]
  <2> SUFFICES ASSUME Written(c) PROVE work' \in [Clients -> Work]
    OBVIOUS
  <2>1. work' = [work EXCEPT ![c] = [work[c] EXCEPT !.n = commits + 1]]
    BY DEF Written
  <2>2. work \in [Clients -> Work]
    BY DEF TypeOK
  <2> QED BY <1>7, <2>1, <2>2
<1>2. CASE CommitWrite(c)
  <2>1. Stored(w) \in Row
    <3>1. rows[w.doc] \in Row \union {None}
      BY <1>1 DEF TypeOK, Work
    <3>2. w.sched # Keep => w.sched \in Nat \union {None}
      BY <1>1 DEF Work
    <3> QED BY <1>1, <3>1, <3>2 DEF Stored, SchedOf, Row, TypeOK, Work
  <2> DEFINE s == [doc |-> w.doc, content |-> Stored(w).content, status |-> Stored(w).status,
                   at |-> clock, n |-> Stored(w).n]
             cred == [doc |-> w.doc, content |-> Stored(w).content, approver |-> c, version |-> Stored(w).n]
  <2>2. s \in Snap /\ cred \in Cred
    BY <1>1, <2>1 DEF Row, Work, Snap, Cred, TypeOK
  <2>3. PICK kept \in Trims(SnapsOf(w.doc) \union {s}) : snaps' = (snaps \ SnapsOf(w.doc)) \union kept
    BY <1>2 DEF CommitWrite, Record
  <2>4. kept \subseteq snaps \union {s}
    BY DEF Trims, SnapsOf
  <2>5. snaps' \subseteq Snap
    BY <2>2, <2>3, <2>4 DEF TypeOK
  <2>6. creds' \subseteq Cred
    BY <1>2, <2>2 DEF CommitWrite, Record, TypeOK
  <2>7. rows' \in [Docs -> Row \union {None}]
    BY <1>1, <1>2, <2>1 DEF CommitWrite, TypeOK, Work
  <2>8. work' \in [Clients -> Work]
    BY <1>8, <1>2 DEF CommitWrite
  <2> QED BY <1>2, <2>5, <2>6, <2>7, <2>8 DEF CommitWrite, Written, TypeOK
<1>3. CASE CommitDelete(c)
  <2>1. work' \in [Clients -> Work]
    BY <1>8, <1>3 DEF CommitDelete
  <2>2. rows' \in [Docs -> Row \union {None}]
    BY <1>7, <1>3 DEF CommitDelete, TypeOK
  <2> QED BY <1>3, <2>1, <2>2 DEF CommitDelete, Written, TypeOK
<1>4. audit \union Audits(c, w) \subseteq AuditRow /\ audit \union Expiry(c, w) \subseteq AuditRow
  BY <1>1 DEF Audits, Expiry, AuditRow, Work, TypeOK
<1>5. CASE CommitNothing(c)
  BY <1>4, <1>5, NoWorkTyped DEF CommitNothing, Done, TypeOK, history
<1>6. CASE Finish(c)
  BY <1>4, <1>6, NoWorkTyped DEF Finish, Done, TypeOK, history
<1> QED BY <1>2, <1>3, <1>5, <1>6 DEF Respond

(* Every reachable state is well formed.                                   *)
THEOREM TypeCorrect == Spec => []TypeOK
<1>1. Init => TypeOK
  BY NoWorkTyped DEF Init, TypeOK
<1>2. TypeOK /\ [Next]_vars => TypeOK'
  <2> SUFFICES ASSUME TypeOK, [Next]_vars PROVE TypeOK'
    OBVIOUS
  <2>1. CASE \E c \in Clients, d \in Docs : Ask(c, d)
    BY <2>1, AskTyped
  <2>2. CASE \E c \in Clients : DrainStep(c) \/ Respond(c)
    BY <2>2, DrainTyped, RespondTyped
  <2>3. CASE Tick
    BY <2>3 DEF Tick, TypeOK, tables, requests, history
  <2>4. CASE Crash
    <3>1. lost' \subseteq Nat
      BY <2>4 DEF Crash, TypeOK, Work
    <3> QED BY <2>4, <3>1, NoWorkTyped DEF Crash, TypeOK, tables
  <2>5. CASE UNCHANGED vars
    BY <2>5 DEF vars, TypeOK, tables, requests, history
  <2> QED BY <2>1, <2>2, <2>3, <2>4, <2>5 DEF Next
<1> QED BY <1>1, <1>2, PTL DEF Spec
-----------------------------------------------------------------------------
(* The publish gate.                                                       *)

LEMMA BeginApproved ==
  ASSUME TypeOK, ApprovalInv, NEW c \in Clients, NEW w \in Work, Begin(c, w),
         w.action # "delete" => Approved(c, w)
  PROVE  ApprovalInv'
<1>1. UNCHANGED <<rows, creds>>
  BY DEF Begin, tables
<1>2. PublishedHasCredential' /\ CredentialsApproved'
  BY <1>1 DEF ApprovalInv, PublishedHasCredential, CredentialsApproved
<1>3. ASSUME NEW b \in Clients, pc'[b] = "ready", work'[b].action # "delete"
      PROVE  Approved(b, work[b])'
  <2>1. CASE b = c
    BY <1>1, <1>3, <2>1 DEF Begin, TypeOK, Approved
  <2>2. CASE b # c
    <3>1. pc'[b] = pc[b] /\ work'[b] = work[b]
      BY <2>2 DEF Begin, TypeOK
    <3> QED BY <1>1, <1>3, <3>1 DEF ApprovalInv, Approved
  <2> QED BY <2>1, <2>2
<1> QED BY <1>2, <1>3 DEF ApprovalInv

(* The gate of update(): whatever the patch, its write is approved.        *)
LEMMA MergedApproved ==
  ASSUME TypeOK, ApprovalInv, NEW c \in Clients, NEW d \in Docs, NEW patch \in Patch,
         UpdateBegin(c, d, patch)
  PROVE  Approved(c, Merged(d, patch))
<1> DEFINE w == Merged(d, patch)
<1>1. w.publishing => w.content \notin Blocked /\ c \in Publishers \union Crons
  BY DEF UpdateBegin, Passes, MayPublish, CanPublish, PassesEvals, Override
<1>2. w.doc = d /\ w.publishing = Transition(rows[d].status, w.status)
  BY DEF Merged
<1>3. rows[d] # None
  BY DEF UpdateBegin
<1>4. w.status = "published" /\ ~ w.publishing => \E cr \in creds : cr.doc = w.doc
  BY <1>2, <1>3 DEF Transition, ApprovalInv, PublishedHasCredential
<1> QED BY <1>1, <1>4 DEF Approved

LEMMA UpdateApproved ==
  ASSUME TypeOK, ApprovalInv, NEW c \in Clients, NEW d \in Docs, NEW patch \in Patch,
         UpdateBegin(c, d, patch)
  PROVE  ApprovalInv'
<1>1. Merged(d, patch) \in Work
  BY MergedTyped DEF UpdateBegin
<1>2. Approved(c, Merged(d, patch))
  BY MergedApproved
<1>3. Begin(c, Merged(d, patch))
  BY DEF UpdateBegin
<1> QED BY <1>1, <1>2, <1>3, BeginApproved

(* Steps that leave the tables alone and start no request.                 *)
LEMMA QuietApproved ==
  ASSUME ApprovalInv, UNCHANGED <<rows, creds>>,
         \A c \in Clients : pc'[c] = "ready" => pc[c] = "ready" /\ work'[c] = work[c]
  PROVE  ApprovalInv'
BY DEF ApprovalInv, PublishedHasCredential, CredentialsApproved, Approved

LEMMA AskApproved ==
  ASSUME TypeOK, ApprovalInv, NEW c \in Clients, NEW d \in Docs, Ask(c, d)
  PROVE  ApprovalInv'
<1>1. \A t \in TokensOf(c) : t \in Nat \union {None}
  BY DEF TokensOf, TypeOK, Token
<1>2. CASE CreateBegin(c, d)
  <2>1. PICK content \in Contents, status \in Statuses :
          /\ Transition("none", status) => MayPublish(c, content)
          /\ Begin(c, [NoWork EXCEPT !.doc = d, !.action = "create", !.content = content, !.status = status,
                                     !.publishing = Transition("none", status)])
    BY <1>2 DEF CreateBegin, NoWork
  <2> DEFINE w == [NoWork EXCEPT !.doc = d, !.action = "create", !.content = content, !.status = status,
                                 !.publishing = Transition("none", status)]
  <2>2. w \in Work
    BY NoWorkTyped DEF Work, Transition, Operations, Statuses
  <2>3. w.publishing = (status = "published") /\ w.status = status /\ w.content = content
    BY DEF NoWork, Transition
  <2>4. w.publishing => content \notin Blocked /\ c \in Publishers \union Crons
    BY <2>1, <2>3 DEF Transition, MayPublish, CanPublish, PassesEvals, Override
  <2>5. Approved(c, w)
    BY <2>3, <2>4 DEF Approved
  <2>6. Begin(c, w)
    BY <2>1
  <2> HIDE DEF w
  <2> QED BY <2>2, <2>5, <2>6, BeginApproved
<1>3. CASE EditBegin(c, d)
  <2>2. PICK content \in Contents \union {Keep}, status \in Statuses \union {Keep}, t \in TokensOf(c) :
          UpdateBegin(c, d, [NoPatch EXCEPT !.content = content, !.status = status, !.tokened = t])
    BY <1>3 DEF EditBegin, AskUpdate
  <2>3. [NoPatch EXCEPT !.content = content, !.status = status, !.tokened = t] \in Patch
    BY <1>1, PatchesTyped
  <2> QED BY <2>2, <2>3, UpdateApproved
<1>4. CASE PublishBegin(c, d)
  <2>1. \A at \in {None} \union {t \in Times : t > clock} : at \in Nat \union {None}
    BY DocumentsAssumption DEF Times
  <2>2. PICK at \in {None} \union {t \in Times : t > clock}, t \in TokensOf(c) :
          UpdateBegin(c, d, [NoPatch EXCEPT !.action = "publish", !.sched = at, !.tokened = t,
                            !.status = IF at = None THEN "published" ELSE "draft"])
    BY <1>4 DEF PublishBegin, AskUpdate
  <2>3. [NoPatch EXCEPT !.action = "publish", !.sched = at, !.tokened = t,
                            !.status = IF at = None THEN "published" ELSE "draft"] \in Patch
    BY <1>1, <2>1, PatchesTyped
  <2> QED BY <2>2, <2>3, UpdateApproved
<1>5. CASE UnpublishBegin(c, d)
  <2>2. PICK t \in TokensOf(c) :
          UpdateBegin(c, d, [NoPatch EXCEPT !.action = "unpublish", !.status = "draft", !.tokened = t])
    BY <1>5 DEF UnpublishBegin, AskUpdate
  <2>3. [NoPatch EXCEPT !.action = "unpublish", !.status = "draft", !.tokened = t] \in Patch
    BY <1>1, PatchesTyped
  <2> QED BY <2>2, <2>3, UpdateApproved
<1>6. CASE ScheduleBegin(c, d)
  <2>1. \A at \in {None} \union Times : at \in Nat \union {None}
    BY DocumentsAssumption DEF Times
  <2>2. PICK at \in {None} \union Times :
          UpdateBegin(c, d, [NoPatch EXCEPT !.sched = at])
    BY <1>6 DEF ScheduleBegin, AskUpdate
  <2>3. [NoPatch EXCEPT !.sched = at] \in Patch
    BY <2>1, PatchesTyped
  <2> QED BY <2>2, <2>3, UpdateApproved
<1>7. CASE RestoreBegin(c, d)
  <2>1. \A s \in snaps : s.content \in Contents
    BY DEF TypeOK, Snap
  <2>2. PICK s \in snaps :
          UpdateBegin(c, d, [NoPatch EXCEPT !.content = s.content])
    BY <1>7 DEF RestoreBegin, AskUpdate
  <2>3. [NoPatch EXCEPT !.content = s.content] \in Patch
    BY <2>1, PatchesTyped
  <2> QED BY <2>2, <2>3, UpdateApproved
<1>8. CASE DeleteBegin(c, d)
  <2>1. Removal(d).action = "delete" /\ Begin(c, Removal(d))
    BY <1>8 DEF DeleteBegin, Removal, NoWork
  <2>2. Removal(d) \in Work
    BY <1>8, RemovalTyped DEF DeleteBegin
  <2> QED BY <2>1, <2>2, BeginApproved
<1>9. CASE ReadDoc(c, d)
  BY <1>9, QuietApproved DEF ReadDoc, tables
<1> QED BY <1>2, <1>3, <1>4, <1>5, <1>6, <1>7, <1>8, <1>9 DEF Ask

LEMMA DrainApproved ==
  ASSUME TypeOK, ApprovalInv, NEW c \in Clients, DrainStep(c)
  PROVE  ApprovalInv'
<1>1. ASSUME ScheduledFind(c) \/ LifecycleFind(c) \/ DrainSkip(c)
      PROVE  ApprovalInv'
  BY <1>1, QuietApproved DEF ScheduledFind, LifecycleFind, Drain, DrainSkip, tables
<1>2. CASE DrainBegin(c)
  <2>1. PICK item \in due[c] :
          /\ rows[item[2]] # None
          /\ IF Deletes(item[1]) THEN Begin(c, Removal(item[2])) ELSE UpdateBegin(c, item[2], DrainPatch(item[1]))
    BY <1>2 DEF DrainBegin
  <2>2. item[2] \in Docs
    BY <2>1 DEF TypeOK
  <2>3. DrainPatch(item[1]) \in Patch
    BY NoPatchTyped DEF DrainPatch, Patch, Operations, Statuses
  <2>4. Removal(item[2]).action = "delete" /\ Removal(item[2]) \in Work
    BY <2>1, <2>2, RemovalTyped DEF Removal, NoWork
  <2> QED BY <2>1, <2>2, <2>3, <2>4, BeginApproved, UpdateApproved
<1> QED BY <1>1, <1>2 DEF DrainStep

LEMMA RespondApproved ==
  ASSUME TypeOK, ApprovalInv, NEW c \in Clients, Respond(c)
  PROVE  ApprovalInv'
<1> DEFINE w == work[c]
<1>1. w.doc \in Docs
  BY DEF TypeOK, Work
<1>2. CASE CommitWrite(c)
  <2>1. Approved(c, w)
    BY <1>2 DEF CommitWrite, ApprovalInv
  <2>2. /\ rows' = [rows EXCEPT ![w.doc] = Stored(w)]
        /\ pc' = [pc EXCEPT ![c] = "written"]
        /\ \A b \in Clients \ {c} : work'[b] = work[b]
    BY <1>2 DEF CommitWrite, Written, TypeOK
  <2>3. Stored(w).status = w.status /\ Stored(w).content = w.content
    BY DEF Stored
  <2> DEFINE cred == [doc |-> w.doc, content |-> Stored(w).content, approver |-> c, version |-> Stored(w).n]
  <2>4. creds' = creds \union (IF w.publishing THEN {cred} ELSE {})
    BY <1>2 DEF CommitWrite, Record, Signed
  <2>5. PublishedHasCredential'
    <3> SUFFICES ASSUME NEW d \in Docs, rows'[d] # None, rows'[d].status = "published"
                 PROVE  \E cr \in creds' : cr.doc = d
      BY DEF PublishedHasCredential
    <3>1. CASE d = w.doc
      <4>1. w.status = "published"
        BY <2>2, <2>3, <3>1, <1>1 DEF TypeOK
      <4>2. CASE w.publishing
        <5>1. cred \in creds' /\ cred.doc = d
          BY <2>4, <3>1, <4>2
        <5> QED BY <5>1
      <4>3. CASE ~ w.publishing
        BY <2>1, <2>4, <3>1, <4>1, <4>3 DEF Approved
      <4> QED BY <4>2, <4>3
    <3>2. CASE d # w.doc
      <4>1. rows'[d] = rows[d]
        BY <2>2, <3>2 DEF TypeOK
      <4> QED BY <2>4, <4>1 DEF ApprovalInv, PublishedHasCredential
    <3> QED BY <3>1, <3>2
  <2>6. CredentialsApproved'
    BY <2>1, <2>3, <2>4 DEF ApprovalInv, CredentialsApproved, Approved
  <2>7. ASSUME NEW b \in Clients, pc'[b] = "ready", work'[b].action # "delete"
        PROVE  Approved(b, work[b])'
    <3>1. b # c /\ pc[b] = "ready" /\ work'[b] = work[b]
      BY <2>2, <2>7 DEF TypeOK
    <3> QED BY <2>4, <2>7, <3>1 DEF ApprovalInv, Approved
  <2> QED BY <2>5, <2>6, <2>7 DEF ApprovalInv
<1>3. CASE CommitDelete(c)
  <2>1. /\ creds' = creds
        /\ \A d \in Docs : rows'[d] = rows[d] \/ rows'[d] = None
        /\ \A b \in Clients : pc'[b] = "ready" => pc[b] = "ready" /\ work'[b] = work[b]
    BY <1>1, <1>3 DEF CommitDelete, Written, TypeOK
  <2> QED BY <2>1 DEF ApprovalInv, PublishedHasCredential, CredentialsApproved, Approved
<1>4. CASE CommitNothing(c) \/ Finish(c)
  <2>1. UNCHANGED <<rows, creds>> /\ \A b \in Clients : pc'[b] = "ready" => pc[b] = "ready" /\ work'[b] = work[b]
    BY <1>4 DEF CommitNothing, Finish, Done, TypeOK
  <2> QED BY <2>1, QuietApproved
<1> QED BY <1>2, <1>3, <1>4 DEF Respond

LEMMA ApprovalStep ==
  ASSUME TypeOK, ApprovalInv, [Next]_vars
  PROVE  ApprovalInv'
<1>1. CASE \E c \in Clients, d \in Docs : Ask(c, d)
  BY <1>1, AskApproved
<1>2. CASE \E c \in Clients : DrainStep(c) \/ Respond(c)
  BY <1>2, DrainApproved, RespondApproved
<1>3. CASE Tick \/ UNCHANGED vars
  BY <1>3, QuietApproved DEF Tick, vars, tables, requests
<1>4. CASE Crash
  BY <1>4, QuietApproved DEF Crash, tables
<1> QED BY <1>1, <1>2, <1>3, <1>4 DEF Next

LEMMA ApprovalHolds == Spec => []ApprovalInv
<1>1. Init => ApprovalInv
  BY DEF Init, ApprovalInv, PublishedHasCredential, CredentialsApproved
<1> QED BY <1>1, ApprovalStep, TypeCorrect, PTL DEF Spec

(* A published document always has a content credential.                   *)
THEOREM PublishedIsCredentialed == Spec => []PublishedHasCredential
BY ApprovalHolds, PTL DEF ApprovalInv

(* A credential is only ever over content the evals passed, approved by a  *)
(* principal that may publish.                                             *)
THEOREM CredentialsAreApproved == Spec => []CredentialsApproved
BY ApprovalHolds, PTL DEF ApprovalInv
-----------------------------------------------------------------------------
(* Deletion.                                                               *)

(* Rows change by commits only.                                            *)
LEMMA OnlyCommitsWrite ==
  ASSUME [Next]_vars
  PROVE  UNCHANGED rows \/ \E c \in Clients : CommitWrite(c) \/ CommitDelete(c)
<1>1. ASSUME NEW c \in Clients, NEW e \in Docs, Ask(c, e) PROVE UNCHANGED rows
  BY <1>1 DEF Ask, CreateBegin, EditBegin, PublishBegin, UnpublishBegin, ScheduleBegin, RestoreBegin,
              DeleteBegin, ReadDoc, AskUpdate, UpdateBegin, Begin, tables
<1>2. ASSUME NEW c \in Clients, DrainStep(c) PROVE UNCHANGED rows
  BY <1>2 DEF DrainStep, ScheduledFind, LifecycleFind, Drain, DrainBegin, DrainSkip, UpdateBegin, Begin, tables
<1>3. ASSUME NEW c \in Clients, CommitNothing(c) \/ Finish(c) PROVE UNCHANGED rows
  BY <1>3 DEF CommitNothing, Finish, Done
<1>4. Tick \/ Crash \/ UNCHANGED vars => UNCHANGED rows
  BY DEF Tick, Crash, tables, vars
<1> QED BY <1>1, <1>2, <1>3, <1>4 DEF Next, Respond

LEMMA OnlyWritesRevive ==
  ASSUME TypeOK, [Next]_vars, NEW d \in Docs, rows[d] = None, rows'[d] # None
  PROVE  \E c \in Clients : CommitWrite(c) /\ work[c].doc = d
<1>1. PICK c \in Clients : CommitWrite(c) \/ CommitDelete(c)
  BY OnlyCommitsWrite
<1>2. ~ CommitDelete(c)
  BY DEF CommitDelete, TypeOK, Work
<1>3. CommitWrite(c) => work[c].doc = d
  BY DEF CommitWrite, TypeOK, Work
<1> QED BY <1>1, <1>2, <1>3

(* No write that read a document before it was deleted brings it back.     *)
THEOREM DeletionIsFinal == Spec => DeletedStaysDeleted
<1>1. ASSUME TypeOK, [Next]_vars, NEW d \in Docs, rows[d] = None, rows'[d] # None
      PROVE  \E c \in Clients : pc[c] = "ready" /\ pc'[c] = "written"
                               /\ work[c].doc = d /\ work[c].action = "create"
  <2>2. PICK c \in Clients : CommitWrite(c) /\ work[c].doc = d
    BY <1>1, OnlyWritesRevive
  <2>3. work[c].action = "create"
    BY <1>1, <2>2 DEF CommitWrite, Applies
  <2>4. pc[c] = "ready" /\ pc'[c] = "written"
    BY <1>1, <2>2 DEF CommitWrite, Written, TypeOK
  <2> QED BY <2>2, <2>3, <2>4
<1>2. TypeOK /\ [Next]_vars => [\A d \in Docs : rows[d] = None /\ rows'[d] # None =>
        \E c \in Clients : pc[c] = "ready" /\ pc'[c] = "written"
                           /\ work[c].doc = d /\ work[c].action = "create"]_vars
  BY <1>1
<1> QED BY <1>2, TypeCorrect, PTL DEF Spec, DeletedStaysDeleted
-----------------------------------------------------------------------------
(* The version history.                                                    *)

(* What the trim relies on: no snapshot is from the future, and there are  *)
(* finitely many.                                                          *)
HistoryInv ==
  /\ IsFiniteSet(snaps)
  /\ \A s \in snaps : s.at <= clock
  /\ SnapshotOfLiveRow

(* The trim keeps the snapshot just taken, for it is the newest, and those *)
(* that tie with it are fewer than it keeps.                               *)
LEMMA TrimKeepsNewest ==
  ASSUME MaxPerDoc > 0 => MaxPerTick <= MaxPerDoc,
         NEW old, IsFiniteSet(old), NEW s, s.at = clock, clock \in Nat,
         \A x \in old : x.at \in Nat /\ x.at <= clock,
         Cardinality({x \in old : x.at = clock}) < MaxPerTick,
         NEW kept \in Trims(old \union {s})
  PROVE  s \in kept
<1> DEFINE ties == {x \in old : x.at = clock}
<1>1. SUFFICES ASSUME s \notin kept PROVE FALSE
  OBVIOUS
<1>2. kept \subseteq old /\ kept # old \union {s}
  BY <1>1 DEF Trims
<1>3. MaxPerDoc > 0 /\ Cardinality(kept) = MaxPerDoc
  BY <1>2 DEF Trims
<1>4. \A y \in kept : clock <= y.at
  BY <1>1 DEF Trims, OldestGo
<1>5. kept \subseteq ties
  BY <1>2, <1>4
<1>6. IsFiniteSet(ties)
  BY FS_Subset
<1>7. Cardinality(kept) <= Cardinality(ties) /\ Cardinality(kept) \in Nat /\ Cardinality(ties) \in Nat
  BY <1>5, <1>6, FS_Subset, FS_CardinalityType
<1> QED BY <1>3, <1>7, DocumentsAssumption

(* Steps that leave the rows and their history alone.                      *)
LEMMA QuietHistory ==
  ASSUME TypeOK, HistoryInv, UNCHANGED <<rows, snaps>>, clock' \in {clock, clock + 1}
  PROVE  HistoryInv'
<1>1. \A s \in snaps : s.at \in Nat
  BY DEF TypeOK, Snap
<1>2. clock \in Nat
  BY DEF TypeOK
<1> QED BY <1>1, <1>2 DEF HistoryInv, SnapshotOfLiveRow, SnapsOf

LEMMA WriteHistory ==
  ASSUME MaxPerDoc > 0 => MaxPerTick <= MaxPerDoc,
         TypeOK, HistoryInv, NEW c \in Clients, CommitWrite(c)
  PROVE  HistoryInv'
<1> DEFINE w == work[c]
           s == [doc |-> w.doc, content |-> Stored(w).content, status |-> Stored(w).status,
                 at |-> clock, n |-> Stored(w).n]
           old == SnapsOf(w.doc)
<1>1. w.doc \in Docs /\ clock \in Nat /\ clock' = clock
  BY DEF TypeOK, Work, CommitWrite, Written
<1>2. PICK kept \in Trims(old \union {s}) : snaps' = (snaps \ old) \union kept
  BY DEF CommitWrite, Record
<1>3. kept \subseteq old \union {s} /\ old \subseteq snaps
  BY DEF Trims, SnapsOf
<1>4. IsFiniteSet(old) /\ \A x \in old : x.at \in Nat /\ x.at <= clock
  BY <1>3, FS_Subset DEF HistoryInv, TypeOK, Snap
<1>5. s.at = clock /\ Cardinality({x \in old : x.at = clock}) < MaxPerTick
  BY DEF CommitWrite
<1>6. s \in kept
  <2> HIDE DEF s, old
  <2> QED BY <1>1, <1>2, <1>4, <1>5, TrimKeepsNewest
<1>7. IsFiniteSet(snaps')
  <2>1. IsFiniteSet(snaps \union {s})
    BY FS_AddElement DEF HistoryInv
  <2>2. snaps' \subseteq snaps \union {s}
    BY <1>2, <1>3
  <2> QED BY <2>1, <2>2, FS_Subset
<1>8. \A x \in snaps' : x.at <= clock'
  BY <1>1, <1>2, <1>3 DEF HistoryInv
<1>9. ASSUME NEW d \in Docs, rows'[d] # None
      PROVE  \E x \in snaps' : /\ x.doc = d /\ x.n = rows'[d].n
                               /\ x.content = rows'[d].content /\ x.status = rows'[d].status
  <2>1. rows' = [rows EXCEPT ![w.doc] = Stored(w)]
    BY DEF CommitWrite
  <2>2. CASE d = w.doc
    <3>1. rows'[d] = Stored(w)
      BY <1>1, <2>1, <2>2 DEF TypeOK
    <3> QED BY <1>2, <1>6, <2>2, <3>1
  <2>3. CASE d # w.doc
    <3>1. rows'[d] = rows[d]
      BY <2>1, <2>3 DEF TypeOK
    <3>2. PICK x \in snaps : /\ x.doc = d /\ x.n = rows[d].n
                             /\ x.content = rows[d].content /\ x.status = rows[d].status
      BY <1>9, <3>1 DEF HistoryInv, SnapshotOfLiveRow, SnapsOf
    <3>3. x \in snaps'
      BY <1>2, <2>3, <3>2 DEF SnapsOf
    <3> QED BY <3>1, <3>2, <3>3
  <2> QED BY <2>2, <2>3
<1> QED BY <1>7, <1>8, <1>9 DEF HistoryInv, SnapshotOfLiveRow, SnapsOf

LEMMA DeleteHistory ==
  ASSUME TypeOK, HistoryInv, NEW c \in Clients, CommitDelete(c)
  PROVE  HistoryInv'
<1>1. UNCHANGED <<snaps, clock>> /\ \A d \in Docs : rows'[d] = rows[d] \/ rows'[d] = None
  BY DEF CommitDelete, Written, TypeOK
<1> QED BY <1>1 DEF HistoryInv, SnapshotOfLiveRow, SnapsOf

LEMMA HistoryStep ==
  ASSUME MaxPerDoc > 0 => MaxPerTick <= MaxPerDoc, TypeOK, HistoryInv, [Next]_vars
  PROVE  HistoryInv'
<1>1. ASSUME NEW c \in Clients, NEW d \in Docs, Ask(c, d) PROVE UNCHANGED <<rows, snaps, clock>>
  BY <1>1 DEF Ask, CreateBegin, EditBegin, PublishBegin, UnpublishBegin, ScheduleBegin, RestoreBegin,
              DeleteBegin, ReadDoc, AskUpdate, UpdateBegin, Begin, tables
<1>2. ASSUME NEW c \in Clients, DrainStep(c) PROVE UNCHANGED <<rows, snaps, clock>>
  BY <1>2 DEF DrainStep, ScheduledFind, LifecycleFind, Drain, DrainBegin, DrainSkip, UpdateBegin, Begin, tables
<1>3. ASSUME NEW c \in Clients, CommitNothing(c) \/ Finish(c) PROVE UNCHANGED <<rows, snaps, clock>>
  BY <1>3 DEF CommitNothing, Finish, Done
<1>4. Tick \/ Crash \/ UNCHANGED vars => UNCHANGED <<rows, snaps>> /\ clock' \in {clock, clock + 1}
  BY DEF Tick, Crash, vars, tables
<1> QED BY <1>1, <1>2, <1>3, <1>4, QuietHistory, WriteHistory, DeleteHistory DEF Next, Respond

(* The version history ends in what is live, if no document is written     *)
(* more than maxPerDoc times in one millisecond, which a trim that orders  *)
(* by the millisecond cannot tell apart.                                   *)
THEOREM LiveRowHasSnapshot ==
  ASSUME MaxPerDoc > 0 => MaxPerTick <= MaxPerDoc
  PROVE  Spec => []SnapshotOfLiveRow
<1>1. Init => HistoryInv
  BY FS_EmptySet DEF Init, HistoryInv, SnapshotOfLiveRow
<1>2. TypeOK /\ HistoryInv /\ [Next]_vars => HistoryInv'
  BY HistoryStep
<1>3. HistoryInv => SnapshotOfLiveRow
  BY DEF HistoryInv
<1> QED BY <1>1, <1>2, <1>3, TypeCorrect, PTL DEF Spec
-----------------------------------------------------------------------------
(* The audit log.                                                          *)

Audited == {a.n : a \in {x \in audit : x.action # "content.expire"}}
AboutToBe == {work[c].n : c \in {b \in Clients : pc[b] = "written"}}

LEMMA AccountsByParts == AuditAccounts => 1..commits = Audited \union lost \union AboutToBe
BY DEF AuditAccounts, Audited, AboutToBe

LEMMA AccountsFromParts ==
  ASSUME 1..commits' = Audited' \union lost' \union AboutToBe'
  PROVE  AuditAccounts'
BY DEF AuditAccounts, Audited, AboutToBe

(* A request that is not at its audit row changes nothing by its step.     *)
LEMMA QuietAccounts ==
  ASSUME AuditAccounts, UNCHANGED <<audit, commits, lost>>,
         \A c \in Clients : \/ pc[c] = pc'[c] /\ work[c] = work'[c]
                            \/ pc[c] # "written" /\ pc'[c] # "written"
  PROVE  AuditAccounts'
BY DEF AuditAccounts

LEMMA BeginAccounts ==
  ASSUME TypeOK, AuditAccounts, NEW c \in Clients, MayBegin(c), NEW w, Begin(c, w)
  PROVE  AuditAccounts'
<1>1. pc[c] # "written" /\ pc'[c] # "written"
  BY DEF MayBegin, Begin, TypeOK
<1>2. \A b \in Clients \ {c} : pc[b] = pc'[b] /\ work[b] = work'[b]
  BY DEF Begin, TypeOK
<1> QED BY <1>1, <1>2, QuietAccounts DEF Begin, tables, history

LEMMA WrittenAccounts ==
  ASSUME TypeOK, AuditAccounts, NEW c \in Clients, pc[c] = "ready", Written(c)
  PROVE  AuditAccounts'
<1>1. Audited' = Audited /\ lost' = lost
  BY DEF Audited, Written
<1>2. AboutToBe' = AboutToBe \union {commits + 1}
  <2>1. pc'[c] = "written" /\ work'[c].n = commits + 1
    BY DEF Written, TypeOK, Work
  <2>2. \A b \in Clients \ {c} : pc'[b] = pc[b] /\ work'[b] = work[b]
    BY DEF Written, TypeOK
  <2> QED BY <2>1, <2>2 DEF AboutToBe
<1>3. 1..commits' = 1..commits \union {commits + 1}
  BY DEF Written, TypeOK
<1> QED BY <1>1, <1>2, <1>3, AccountsFromParts, AccountsByParts

LEMMA RespondAccounts ==
  ASSUME TypeOK, AuditAccounts, NEW c \in Clients, Respond(c)
  PROVE  AuditAccounts'
<1>1. CASE CommitWrite(c) \/ CommitDelete(c)
  BY <1>1, WrittenAccounts DEF CommitWrite, CommitDelete
<1>2. \A x \in Expiry(c, work[c]) : x.action = "content.expire"
  BY DEF Expiry
<1>3. CASE CommitNothing(c)
  <2>1. Audited' = Audited /\ UNCHANGED <<commits, lost>>
    BY <1>2, <1>3 DEF CommitNothing, Done, history, Audited
  <2>2. AboutToBe' = AboutToBe
    BY <1>3 DEF CommitNothing, Done, AboutToBe, TypeOK
  <2> QED BY <2>1, <2>2, AccountsByParts, AccountsFromParts
<1>4. CASE Finish(c)
  <2>1. work[c].action # "content.expire"
    BY DEF TypeOK, Work, Operations
  <2> DEFINE row == [n |-> work[c].n, doc |-> work[c].doc, action |-> work[c].action]
  <2>4. audit' = audit \union {row} \union Expiry(c, work[c]) /\ UNCHANGED <<commits, lost>>
    BY <1>4 DEF Finish, Done, history, Audits
  <2>5. row.n = work[c].n /\ row.action # "content.expire"
    BY <2>1
  <2>2. Audited' = Audited \union {work[c].n} /\ UNCHANGED <<commits, lost>>
    <3> HIDE DEF row
    <3> QED BY <1>2, <2>4, <2>5 DEF Audited
  <2>3. AboutToBe' \union {work[c].n} = AboutToBe
    <3>1. pc[c] = "written" /\ pc'[c] = "idle"
      BY <1>4 DEF Finish, Done, TypeOK
    <3>2. \A b \in Clients \ {c} : pc'[b] = pc[b] /\ work'[b] = work[b]
      BY <1>4 DEF Finish, Done, TypeOK
    <3> QED BY <3>1, <3>2 DEF AboutToBe
  <2> QED BY <2>2, <2>3, AccountsByParts, AccountsFromParts
<1> QED BY <1>1, <1>3, <1>4 DEF Respond

LEMMA AccountsStep ==
  ASSUME TypeOK, AuditAccounts, [Next]_vars
  PROVE  AuditAccounts'
<1>1. ASSUME NEW c \in Clients, NEW d \in Docs, Ask(c, d) PROVE AuditAccounts'
  <2>1. CASE ReadDoc(c, d)
    BY <2>1, QuietAccounts DEF ReadDoc, tables, history
  <2>2. CASE ~ ReadDoc(c, d)
    <3>1. CASE CreateBegin(c, d)
      BY <3>1, BeginAccounts DEF CreateBegin
    <3>2. CASE EditBegin(c, d) \/ PublishBegin(c, d) \/ UnpublishBegin(c, d) \/ ScheduleBegin(c, d) \/ RestoreBegin(c, d)
      BY <3>2, BeginAccounts DEF EditBegin, PublishBegin, UnpublishBegin, ScheduleBegin, RestoreBegin,
                                 AskUpdate, UpdateBegin
    <3>3. CASE DeleteBegin(c, d)
      BY <3>3, BeginAccounts DEF DeleteBegin
    <3> QED BY <1>1, <2>2, <3>1, <3>2, <3>3 DEF Ask
  <2> QED BY <2>1, <2>2
<1>2. ASSUME NEW c \in Clients, DrainStep(c) PROVE AuditAccounts'
  <2>1. CASE DrainBegin(c)
    <3>1. PICK item \in due[c] :
            /\ MayBegin(c)
            /\ IF Deletes(item[1]) THEN Begin(c, Removal(item[2])) ELSE UpdateBegin(c, item[2], DrainPatch(item[1]))
      BY <2>1 DEF DrainBegin
    <3> QED BY <3>1, BeginAccounts DEF UpdateBegin
  <2>2. CASE ~ DrainBegin(c)
    <3>1. UNCHANGED <<audit, commits, lost, pc, work>>
      BY <1>2, <2>2 DEF DrainStep, ScheduledFind, LifecycleFind, Drain, DrainSkip, tables, history
    <3> QED BY <3>1, QuietAccounts
  <2> QED BY <2>1, <2>2
<1>3. CASE Tick \/ UNCHANGED vars
  BY <1>3, QuietAccounts DEF Tick, vars, tables, requests, history
<1>4. CASE Crash
  <2>1. Audited' = Audited /\ commits' = commits
    BY <1>4 DEF Crash, tables, Audited
  <2>2. lost' = lost \union AboutToBe
    BY <1>4 DEF Crash, AboutToBe
  <2>3. AboutToBe' = {}
    BY <1>4 DEF Crash, AboutToBe
  <2> QED BY <2>1, <2>2, <2>3, AccountsByParts, AccountsFromParts
<1> QED BY <1>1, <1>2, <1>3, <1>4, RespondAccounts DEF Next

(* Every committed write is in the audit log, about to be, or was cut off  *)
(* by a crash between its commit and its audit row.                        *)
THEOREM AuditIsComplete == Spec => []AuditAccounts
<1>1. Init => AuditAccounts
  BY DEF Init, AuditAccounts
<1> QED BY <1>1, AccountsStep, TypeCorrect, PTL DEF Spec
-----------------------------------------------------------------------------
(* One request at a time.                                                  *)

OneAtATime == \A a, b \in Busy : a = b

(* A row is due to be published at time t.                                 *)
DueRow(row, t) == row # None /\ row.sched # None /\ row.sched <= t

(* What was decided on the row that was read still holds of it.            *)
Current(c, w, row, t) ==
  /\ w.action = "create" => w.publishing = Transition("none", w.status)
  /\ w.action # "create" => row # None
  /\ w.action \notin {"create", "delete"} => w.publishing = Transition(row.status, w.status)
  /\ w.publishing => MayPublish(c, w.content)
  /\ c \in Crons /\ w.action = "publish" => DueRow(row, t)

(* What a drain found, all of one kind, is due until its turn.             *)
StillDue(c) ==
  \A item \in due[c] :
    /\ c \in Crons
    /\ \A other \in due[c] : other[1] = item[1]
    /\ item[1] = "publish" => rows[item[2]] = None \/ DueRow(rows[item[2]], clock)

(* A request that is about to write knows its row, and what is left of its *)
(* drain's page is other rows.                                             *)
Knows(c) ==
  pc[c] = "ready" => /\ Current(c, work[c], rows[work[c].doc], clock)
                     /\ \A item \in due[c] : item[2] # work[c].doc

(* With one request at a time, nothing changes between a read and its      *)
(* write but the clock.                                                    *)
AloneInv == OneAtATime /\ \A c \in Clients : Knows(c) /\ StillDue(c)

(* Whoever may begin is alone.                                             *)
LEMMA BeginsAlone ==
  ASSUME TypeOK, OneAtATime, MaxInFlight <= 1, NEW c \in Clients, MayBegin(c)
  PROVE  Busy \subseteq {c}
<1>1. CASE c \in Busy
  BY <1>1 DEF OneAtATime
<1>2. CASE c \notin Busy
  <2>1. SUFFICES ASSUME NEW b \in Busy PROVE FALSE
    OBVIOUS
  <2>2. Busy = {b}
    BY DEF OneAtATime
  <2>3. Cardinality(Busy) = 1
    BY <2>2, FS_Singleton
  <2> QED BY <1>2, <2>3, DocumentsAssumption DEF MayBegin
<1> QED BY <1>1, <1>2

(* Whoever is in flight is alone.                                          *)
LEMMA InFlightAlone ==
  ASSUME TypeOK, AloneInv, NEW c \in Clients, pc[c] # "idle" \/ due[c] # {},
         NEW b \in Clients, b # c
  PROVE  pc[b] = "idle" /\ due[b] = {}
BY DEF AloneInv, OneAtATime, Busy

LEMMA BeginAlone ==
  ASSUME TypeOK, AloneInv, MaxInFlight <= 1, NEW c \in Clients, NEW w \in Work,
         MayBegin(c), Begin(c, w), Current(c, w, rows[w.doc], clock),
         \A b \in Clients : b # c => due'[b] = due[b],
         due'[c] \subseteq due[c], \A item \in due'[c] : item[2] # w.doc
  PROVE  AloneInv'
<1>1. UNCHANGED <<rows, clock>> /\ pc' = [pc EXCEPT ![c] = "ready"] /\ work' = [work EXCEPT ![c] = w]
  BY DEF Begin, tables
<1>2. pc'[c] = "ready" /\ work'[c] = w
  BY <1>1 DEF TypeOK
<1>3. ASSUME NEW b \in Clients, b # c PROVE pc'[b] = "idle" /\ due'[b] = {}
  <2>1. b \notin Busy
    BY <1>3, BeginsAlone DEF AloneInv
  <2> QED BY <1>1, <1>3, <2>1 DEF Busy
<1>4. OneAtATime'
  BY <1>3 DEF OneAtATime, Busy
<1>5. ASSUME NEW b \in Clients PROVE Knows(b)'
  BY <1>1, <1>2, <1>3 DEF Knows, Current
<1>6. ASSUME NEW b \in Clients PROVE StillDue(b)'
  BY <1>1, <1>3 DEF AloneInv, StillDue
<1> QED BY <1>4, <1>5, <1>6 DEF AloneInv

(* What update() decided is of the row it read.                            *)
LEMMA MergedCurrent ==
  ASSUME TypeOK, NEW c \in Clients, NEW d \in Docs, NEW patch \in Patch, UpdateBegin(c, d, patch),
         patch.action \notin {"create", "delete"},
         c \in Crons /\ patch.action = "publish" => DueRow(rows[d], clock)
  PROVE  Current(c, Merged(d, patch), rows[d], clock) /\ Merged(d, patch).doc = d
<1> DEFINE w == Merged(d, patch)
<1>1. w.doc = d /\ w.action = patch.action /\ w.publishing = Transition(rows[d].status, w.status)
  BY DEF Merged
<1>2. rows[d] # None /\ (w.publishing => MayPublish(c, w.content))
  BY DEF UpdateBegin, Passes
<1> HIDE DEF w
<1> QED BY <1>1, <1>2 DEF Current, w

(* What a caller that is no drain asks of update().                        *)
LEMMA AskedAlone ==
  ASSUME TypeOK, AloneInv, MaxInFlight <= 1, NEW c \in Clients \ Crons, NEW d \in Docs,
         NEW patch \in Patch, patch.action \notin {"create", "delete"}, UpdateBegin(c, d, patch), UNCHANGED due
  PROVE  AloneInv'
<1>1. Current(c, Merged(d, patch), rows[d], clock) /\ Merged(d, patch).doc = d
  BY MergedCurrent
<1>2. Merged(d, patch) \in Work /\ MayBegin(c) /\ Begin(c, Merged(d, patch))
  BY MergedTyped DEF UpdateBegin
<1>3. due[c] = {}
  BY DEF AloneInv, StillDue
<1> QED BY <1>1, <1>2, <1>3, BeginAlone

LEMMA QuietAlone ==
  ASSUME TypeOK, AloneInv, UNCHANGED <<rows, pc, work, due>>, clock' \in {clock, clock + 1}
  PROVE  AloneInv'
<1>1. clock \in Nat /\ \A d \in Docs : rows[d] # None => rows[d].sched \in Nat \union {None}
  BY DEF TypeOK, Row
<1>2. \A d \in Docs : DueRow(rows[d], clock) => DueRow(rows[d], clock')
  BY <1>1 DEF DueRow
<1>3. OneAtATime'
  BY DEF AloneInv, OneAtATime, Busy
<1>4. ASSUME NEW c \in Clients PROVE Knows(c)'
  <2>1. work[c].doc \in Docs
    BY DEF TypeOK, Work
  <2> QED BY <1>2, <2>1 DEF AloneInv, Knows, Current
<1>5. ASSUME NEW c \in Clients PROVE StillDue(c)'
  <2>1. \A item \in due[c] : item[2] \in Docs
    BY DEF TypeOK
  <2> QED BY <1>2, <2>1 DEF AloneInv, StillDue
<1> QED BY <1>3, <1>4, <1>5 DEF AloneInv

LEMMA AskAlone ==
  ASSUME TypeOK, AloneInv, MaxInFlight <= 1, NEW c \in Clients, NEW d \in Docs, Ask(c, d)
  PROVE  AloneInv'
<1>1. \A t \in TokensOf(c) : t \in Nat \union {None}
  BY DEF TokensOf, TypeOK, Token
<1>11. c \in Crons \/ due[c] = {}
  BY DEF AloneInv, StillDue
<1>2. CASE CreateBegin(c, d)
  <2>1. PICK content \in Contents, status \in Statuses :
          LET w == [NoWork EXCEPT !.doc = d, !.action = "create", !.content = content, !.status = status,
                                  !.publishing = Transition("none", status)]
          IN  /\ MayBegin(c) /\ c \notin Crons
              /\ w.publishing => MayPublish(c, content)
              /\ Begin(c, w)
              /\ UNCHANGED due
    BY <1>2 DEF CreateBegin
  <2> DEFINE w == [NoWork EXCEPT !.doc = d, !.action = "create", !.content = content, !.status = status,
                                 !.publishing = Transition("none", status)]
  <2>2. w \in Work
    BY NoWorkTyped DEF Work, Transition, Operations, Statuses
  <2>3. /\ w.doc = d /\ w.action = "create" /\ w.content = content /\ w.status = status
        /\ w.publishing = Transition("none", status)
    BY DEF NoWork
  <2>4. MayBegin(c) /\ c \notin Crons /\ (w.publishing => MayPublish(c, content)) /\ Begin(c, w) /\ UNCHANGED due
    BY <2>1
  <2> HIDE DEF w
  <2>5. Current(c, w, rows[w.doc], clock)
    BY <2>3, <2>4 DEF Current
  <2> QED BY <1>11, <2>2, <2>4, <2>5, BeginAlone
<1>3. CASE EditBegin(c, d)
  <2>2. PICK content \in Contents \union {Keep}, status \in Statuses \union {Keep}, t \in TokensOf(c) :
          /\ c \notin Crons /\ UNCHANGED due
          /\ UpdateBegin(c, d, [NoPatch EXCEPT !.content = content, !.status = status, !.tokened = t])
    BY <1>3 DEF EditBegin, AskUpdate
  <2> DEFINE p == [NoPatch EXCEPT !.content = content, !.status = status, !.tokened = t]
  <2>3. p \in Patch
    BY <1>1, PatchesTyped
  <2>4. p.action = "update" /\ c \in Clients \ Crons /\ UpdateBegin(c, d, p) /\ UNCHANGED due
    BY <2>2 DEF NoPatch
  <2> HIDE DEF p
  <2> QED BY <2>3, <2>4, AskedAlone
<1>4. CASE PublishBegin(c, d)
  <2>1. \A at \in {None} \union {t \in Times : t > clock} : at \in Nat \union {None}
    BY DocumentsAssumption DEF Times
  <2>2. PICK at \in {None} \union {t \in Times : t > clock}, t \in TokensOf(c) :
          /\ c \notin Crons /\ UNCHANGED due
          /\ UpdateBegin(c, d, [NoPatch EXCEPT !.action = "publish", !.sched = at, !.tokened = t,
                                               !.status = IF at = None THEN "published" ELSE "draft"])
    BY <1>4 DEF PublishBegin, AskUpdate
  <2> DEFINE p == [NoPatch EXCEPT !.action = "publish", !.sched = at, !.tokened = t,
                         !.status = IF at = None THEN "published" ELSE "draft"]
  <2>3. p \in Patch
    BY <1>1, <2>1, PatchesTyped
  <2>4. p.action = "publish" /\ c \in Clients \ Crons /\ UpdateBegin(c, d, p) /\ UNCHANGED due
    BY <2>2 DEF NoPatch
  <2> HIDE DEF p
  <2> QED BY <2>3, <2>4, AskedAlone
<1>5. CASE UnpublishBegin(c, d)
  <2>2. PICK t \in TokensOf(c) :
          /\ c \notin Crons /\ UNCHANGED due
          /\ UpdateBegin(c, d, [NoPatch EXCEPT !.action = "unpublish", !.status = "draft", !.tokened = t])
    BY <1>5 DEF UnpublishBegin, AskUpdate
  <2> DEFINE p == [NoPatch EXCEPT !.action = "unpublish", !.status = "draft", !.tokened = t]
  <2>3. p \in Patch
    BY <1>1, PatchesTyped
  <2>4. p.action = "unpublish" /\ c \in Clients \ Crons /\ UpdateBegin(c, d, p) /\ UNCHANGED due
    BY <2>2 DEF NoPatch
  <2> HIDE DEF p
  <2> QED BY <2>3, <2>4, AskedAlone
<1>6. CASE ScheduleBegin(c, d)
  <2>1. \A at \in {None} \union Times : at \in Nat \union {None}
    BY DocumentsAssumption DEF Times
  <2>2. PICK at \in {None} \union Times :
          /\ c \notin Crons /\ UNCHANGED due
          /\ UpdateBegin(c, d, [NoPatch EXCEPT !.sched = at])
    BY <1>6 DEF ScheduleBegin, AskUpdate
  <2> DEFINE p == [NoPatch EXCEPT !.sched = at]
  <2>3. p \in Patch
    BY <2>1, PatchesTyped
  <2>4. p.action = "update" /\ c \in Clients \ Crons /\ UpdateBegin(c, d, p) /\ UNCHANGED due
    BY <2>2 DEF NoPatch
  <2> HIDE DEF p
  <2> QED BY <2>3, <2>4, AskedAlone
<1>7. CASE RestoreBegin(c, d)
  <2>1. \A s \in snaps : s.content \in Contents
    BY DEF TypeOK, Snap
  <2>2. PICK s \in snaps :
          /\ c \notin Crons /\ UNCHANGED due
          /\ UpdateBegin(c, d, [NoPatch EXCEPT !.content = s.content])
    BY <1>7 DEF RestoreBegin, AskUpdate
  <2> DEFINE p == [NoPatch EXCEPT !.content = s.content]
  <2>3. p \in Patch
    BY <2>1, PatchesTyped
  <2>4. p.action = "update" /\ c \in Clients \ Crons /\ UpdateBegin(c, d, p) /\ UNCHANGED due
    BY <2>2 DEF NoPatch
  <2> HIDE DEF p
  <2> QED BY <2>3, <2>4, AskedAlone
<1>8. CASE DeleteBegin(c, d)
  <2>1. /\ c \notin Crons /\ MayBegin(c) /\ rows[d] # None /\ Begin(c, Removal(d)) /\ UNCHANGED due
    BY <1>8 DEF DeleteBegin
  <2>2. Current(c, Removal(d), rows[Removal(d).doc], clock)
    BY <2>1 DEF Removal, Current, NoWork
  <2> QED BY <1>11, <2>1, <2>2, RemovalTyped, BeginAlone
<1>9. CASE ReadDoc(c, d)
  BY <1>9, QuietAlone DEF ReadDoc, tables
<1> QED BY <1>2, <1>3, <1>4, <1>5, <1>6, <1>7, <1>8, <1>9 DEF Ask

(* A drain that starts finds what is due, all of it of one kind.           *)
LEMMA FindAlone ==
  ASSUME TypeOK, AloneInv, MaxInFlight <= 1, NEW c \in Clients,
         NEW kind \in {"publish", "expire"}, NEW S \in SUBSET Docs,
         kind = "publish" => \A d \in S : Scheduled(d),
         Drain(c, {<<kind, d>> : d \in S})
  PROVE  AloneInv'
<1> DEFINE found == {<<kind, d>> : d \in S}
<1>1. /\ c \in Crons /\ MayBegin(c) /\ pc[c] = "idle"
      /\ due' = [due EXCEPT ![c] = found] /\ UNCHANGED <<rows, pc, work, clock>>
  BY DEF Drain, tables, MayBegin
<1>2. \A item \in found : item[1] = kind /\ item[2] \in S
  OBVIOUS
<1>9. due'[c] = found
  BY <1>1 DEF TypeOK
<1> HIDE DEF found
<1>3. ASSUME NEW b \in Clients, b # c PROVE pc[b] = "idle" /\ due[b] = {} /\ due'[b] = {}
  <2>1. b \notin Busy
    BY <1>1, <1>3, BeginsAlone DEF AloneInv
  <2> QED BY <1>1, <1>3, <2>1 DEF Busy
<1>4. OneAtATime'
  BY <1>1, <1>3 DEF OneAtATime, Busy
<1>5. ASSUME NEW b \in Clients PROVE Knows(b)'
  BY <1>1, <1>3 DEF Knows
<1>6. StillDue(c)'
  BY <1>1, <1>2, <1>9 DEF StillDue, Scheduled, DueRow
<1>7. ASSUME NEW b \in Clients, b # c PROVE StillDue(b)'
  BY <1>3, <1>7 DEF StillDue
<1> QED BY <1>4, <1>5, <1>6, <1>7 DEF AloneInv

LEMMA DrainAlone ==
  ASSUME TypeOK, AloneInv, MaxInFlight <= 1, NEW c \in Clients, DrainStep(c)
  PROVE  AloneInv'
<1>1. CASE ScheduledFind(c)
  <2> DEFINE S == {e \in FirstPage({x \in Docs : Scheduled(x)}) : rows[e].status # "published"}
  <2>1. S \in SUBSET Docs /\ \A d \in S : Scheduled(d)
    BY DEF FirstPage
  <2>2. Drain(c, {<<"publish", d>> : d \in S})
    BY <1>1 DEF ScheduledFind
  <2> HIDE DEF S
  <2> QED BY <2>1, <2>2, FindAlone
<1>2. CASE LifecycleFind(c)
  <2> DEFINE S == FirstPage({x \in Docs : ExpiredDoc(x)})
  <2>1. S \in SUBSET Docs
    BY DEF FirstPage
  <2>2. Drain(c, {<<"expire", d>> : d \in S})
    BY <1>2 DEF LifecycleFind
  <2> HIDE DEF S
  <2> QED BY <2>1, <2>2, FindAlone
<1>3. CASE DrainBegin(c)
  <2>1. PICK item \in due[c] :
          /\ MayBegin(c) /\ rows[item[2]] # None
          /\ IF Deletes(item[1]) THEN Begin(c, Removal(item[2])) ELSE UpdateBegin(c, item[2], DrainPatch(item[1]))
          /\ due' = [due EXCEPT ![c] = @ \ {item}]
    BY <1>3 DEF DrainBegin
  <2>2. item \in {"publish", "expire"} \X Docs /\ item[2] \in Docs
    BY DEF TypeOK
  <2>4. DrainPatch(item[1]) \in Patch
    BY NoPatchTyped DEF DrainPatch, Patch, Operations, Statuses
  <2>5. DrainPatch(item[1]).action = IF item[1] = "publish" THEN "publish" ELSE "unpublish"
    BY DEF DrainPatch, NoPatch
  <2>6. /\ \A b \in Clients : b # c => due'[b] = due[b]
        /\ due'[c] = due[c] \ {item}
    BY <2>1 DEF TypeOK
  <2>7. \A other \in due'[c] : other[2] # item[2]
    <3>1. SUFFICES ASSUME NEW other \in due[c], other # item, other[2] = item[2] PROVE FALSE
      BY <2>6
    <3>2. other \in {"publish", "expire"} \X Docs
      BY DEF TypeOK
    <3>3. other[1] = item[1]
      BY DEF AloneInv, StillDue
    <3> QED BY <2>2, <3>1, <3>2, <3>3
  <2>8. item[1] = "publish" => DueRow(rows[item[2]], clock)
    BY <2>1 DEF AloneInv, StillDue
  <2>9. CASE Deletes(item[1])
    <3>1. Current(c, Removal(item[2]), rows[Removal(item[2]).doc], clock) /\ Removal(item[2]).doc = item[2]
      BY <2>1 DEF Removal, Current, NoWork
    <3>2. Removal(item[2]) \in Work
      BY <2>1, <2>2, RemovalTyped
    <3> QED BY <2>1, <2>6, <2>7, <2>9, <3>1, <3>2, BeginAlone
  <2>10. CASE ~ Deletes(item[1])
    <3> DEFINE w == Merged(item[2], DrainPatch(item[1]))
    <3>1. UpdateBegin(c, item[2], DrainPatch(item[1]))
      BY <2>1, <2>10
    <3>2. Current(c, w, rows[item[2]], clock) /\ w.doc = item[2]
      BY <2>2, <2>4, <2>5, <2>8, <3>1, MergedCurrent
    <3>3. w \in Work /\ Begin(c, w)
      BY <2>1, <2>2, <2>4, <3>1, MergedTyped DEF UpdateBegin
    <3> HIDE DEF w
    <3> QED BY <2>1, <2>6, <2>7, <3>2, <3>3, BeginAlone
  <2> QED BY <2>9, <2>10
<1>4. CASE DrainSkip(c)
  <2>1. /\ \A b \in Clients : b # c => due'[b] = due[b]
        /\ due'[c] \subseteq due[c] /\ UNCHANGED <<rows, pc, work, clock>>
    BY <1>4 DEF DrainSkip, TypeOK, tables
  <2>2. \A b \in Clients : due'[b] \subseteq due[b]
    BY <2>1
  <2>3. OneAtATime'
    BY <2>1, <2>2 DEF AloneInv, OneAtATime, Busy
  <2>4. ASSUME NEW b \in Clients PROVE Knows(b)' /\ StillDue(b)'
    BY <2>1, <2>2 DEF AloneInv, Knows, Current, StillDue
  <2> QED BY <2>3, <2>4 DEF AloneInv
<1> QED BY <1>1, <1>2, <1>3, <1>4 DEF DrainStep

LEMMA RespondAlone ==
  ASSUME TypeOK, AloneInv, NEW c \in Clients, Respond(c)
  PROVE  AloneInv'
<1>1. pc[c] # "idle" /\ UNCHANGED <<due, clock>>
  BY DEF Respond, CommitWrite, CommitDelete, CommitNothing, Finish, Written, Done
<1>2. \A b \in Clients : b # c => pc[b] = "idle" /\ due[b] = {}
  BY <1>1, InFlightAlone
<1>3. pc' \in [Clients -> {"idle", "written"}] /\ \A b \in Clients : b # c => pc'[b] = "idle"
  BY <1>2 DEF Respond, CommitWrite, CommitDelete, CommitNothing, Finish, Written, Done, TypeOK
<1>4. OneAtATime'
  BY <1>1, <1>2, <1>3 DEF OneAtATime, Busy
<1>5. ASSUME NEW b \in Clients PROVE Knows(b)'
  BY <1>3 DEF Knows
<1>6. ASSUME NEW b \in Clients, b # c PROVE StillDue(b)'
  BY <1>1, <1>2, <1>6 DEF StillDue
<1>7. ASSUME NEW item \in due[c] PROVE rows'[item[2]] = rows[item[2]]
  <2>1. pc[c] = "ready" => item[2] # work[c].doc
    BY DEF AloneInv, Knows
  <2> QED BY <2>1 DEF Respond, CommitWrite, CommitDelete, CommitNothing, Finish, Done, TypeOK
<1>8. StillDue(c)'
  BY <1>1, <1>7 DEF AloneInv, StillDue
<1> QED BY <1>4, <1>5, <1>6, <1>8 DEF AloneInv

LEMMA AloneStep ==
  ASSUME TypeOK, AloneInv, MaxInFlight <= 1, [Next]_vars
  PROVE  AloneInv'
<1>1. CASE \E c \in Clients, d \in Docs : Ask(c, d)
  BY <1>1, AskAlone
<1>2. CASE \E c \in Clients : DrainStep(c) \/ Respond(c)
  BY <1>2, DrainAlone, RespondAlone
<1>3. CASE Tick \/ UNCHANGED vars
  BY <1>3, QuietAlone DEF Tick, vars, tables, requests
<1>4. CASE Crash
  <2>1. \A c \in Clients : pc'[c] = "idle" /\ due'[c] = {}
    BY <1>4 DEF Crash
  <2> QED BY <2>1 DEF AloneInv, OneAtATime, Busy, Knows, StillDue
<1> QED BY <1>1, <1>2, <1>3, <1>4 DEF Next

LEMMA AloneHolds ==
  ASSUME MaxInFlight <= 1
  PROVE  Spec => []AloneInv
<1>1. Init => AloneInv
  BY DEF Init, AloneInv, OneAtATime, Busy, Knows, StillDue
<1>2. TypeOK /\ AloneInv /\ [Next]_vars => AloneInv'
  BY AloneStep
<1> QED BY <1>1, <1>2, TypeCorrect, PTL DEF Spec

(* A request goes from ready to written by its commit only.                *)
LEMMA CommitsAreCommits ==
  ASSUME TypeOK, [Next]_vars, NEW c \in Clients, Commits(c)
  PROVE  CommitWrite(c) \/ CommitDelete(c)
<1>1. pc[c] = "ready" /\ pc'[c] = "written"
  BY DEF Commits
<1>2. ASSUME NEW b \in Clients, NEW e \in Docs, Ask(b, e) PROVE FALSE
  <2>1. pc' = pc \/ pc' = [pc EXCEPT ![b] = "ready"]
    BY <1>2 DEF Ask, CreateBegin, EditBegin, PublishBegin, UnpublishBegin, ScheduleBegin, RestoreBegin,
                DeleteBegin, ReadDoc, AskUpdate, UpdateBegin, Begin
  <2> QED BY <1>1, <2>1 DEF TypeOK
<1>3. ASSUME NEW b \in Clients, DrainStep(b) PROVE FALSE
  <2>1. pc' = pc \/ pc' = [pc EXCEPT ![b] = "ready"]
    BY <1>3 DEF DrainStep, ScheduledFind, LifecycleFind, Drain, DrainBegin, DrainSkip, UpdateBegin, Begin
  <2> QED BY <1>1, <2>1 DEF TypeOK
<1>4. ASSUME NEW b \in Clients, CommitNothing(b) \/ Finish(b) PROVE FALSE
  BY <1>1, <1>4 DEF CommitNothing, Finish, Done, TypeOK
<1>5. ASSUME NEW b \in Clients, b # c, CommitWrite(b) \/ CommitDelete(b) PROVE FALSE
  BY <1>1, <1>5 DEF CommitWrite, CommitDelete, Written, TypeOK
<1>6. Tick \/ Crash \/ UNCHANGED vars => FALSE
  BY <1>1 DEF Tick, Crash, requests, vars
<1> QED BY <1>2, <1>3, <1>4, <1>5, <1>6 DEF Next, Respond

(* What goes live went through the gate.                                   *)
LEMMA LiveThroughGate ==
  ASSUME TypeOK, AloneInv, [Next]_vars, NEW d \in Docs, GoesLive(d)
  PROVE  \E cr \in creds' : /\ cr.doc = d /\ cr.version = rows'[d].n
                            /\ cr.content = rows'[d].content /\ cr.content \notin Blocked
                            /\ cr.approver \notin Writers \union Agents
<1>1. rows'[d] # rows[d] /\ rows'[d] # None /\ rows'[d].status = "published"
  BY DEF GoesLive
<1>2. PICK c \in Clients : CommitWrite(c) \/ CommitDelete(c)
  BY <1>1, OnlyCommitsWrite
<1>3. CommitWrite(c)
  BY <1>1, <1>2 DEF CommitDelete, TypeOK
<1> DEFINE w == work[c]
<1>4. rows' = [rows EXCEPT ![w.doc] = Stored(w)] /\ w.action # "delete" /\ Applies(w) /\ pc[c] = "ready"
  BY <1>3 DEF CommitWrite
<1>5. d = w.doc /\ rows'[d] = Stored(w)
  BY <1>1, <1>4 DEF TypeOK
<1>6. Stored(w).status = w.status /\ Stored(w).content = w.content
  BY DEF Stored
<1>7. Current(c, w, rows[d], clock)
  BY <1>4, <1>5 DEF AloneInv, Knows
<1>8. w.publishing
  BY <1>1, <1>4, <1>5, <1>6, <1>7 DEF Current, Applies, Transition, GoesLive
<1>9. w.content \notin Blocked /\ c \notin Writers \union Agents
  BY <1>7, <1>8, DocumentsAssumption DEF Current, MayPublish, CanPublish, PassesEvals, Override
<1> DEFINE cred == [doc |-> w.doc, content |-> Stored(w).content, approver |-> c, version |-> Stored(w).n]
<1>10. cred \in creds'
  BY <1>3, <1>8 DEF CommitWrite, Record, Signed
<1>11. /\ cred.doc = d /\ cred.version = rows'[d].n /\ cred.content = rows'[d].content
       /\ cred.content \notin Blocked /\ cred.approver \notin Writers \union Agents
  BY <1>5, <1>6, <1>9
<1> QED BY <1>10, <1>11

(* One request at a time, a document goes live through the publish gate    *)
(* only, under a credential for exactly what goes live: any callers, any   *)
(* drains, scheduled or not, and crashes anywhere.  With two requests in   *)
(* flight that is false of this code.                                      *)
THEOREM GateIsHeld ==
  ASSUME MaxInFlight <= 1
  PROVE  Spec => GoesLiveThroughGate
<1>1. TypeOK /\ AloneInv /\ [Next]_vars => [GateHeld]_vars
  BY LiveThroughGate DEF GateHeld
<1> QED BY <1>1, TypeCorrect, AloneHolds, PTL DEF Spec, GoesLiveThroughGate

(* One request at a time, a drain publishes only what is scheduled and due *)
(* at that moment, however long its page is and whatever time passes.      *)
THEOREM DrainsKeepToSchedules ==
  ASSUME MaxInFlight <= 1
  PROVE  Spec => DrainRespectsSchedule
<1>1. ASSUME TypeOK, AloneInv, NEW c \in Crons, Commits(c), work[c].action = "publish"
      PROVE  LET now == rows[work[c].doc] IN now # None /\ now.sched # None /\ now.sched <= clock
  <2>1. c \in Clients
    BY DEF Clients
  <2>2. Current(c, work[c], rows[work[c].doc], clock)
    BY <1>1, <2>1 DEF AloneInv, Knows, Commits
  <2> QED BY <1>1, <2>2 DEF Current, DueRow
<1>2. TypeOK /\ AloneInv /\ [Next]_vars => [ScheduleHeld]_vars
  BY <1>1 DEF ScheduleHeld
<1> QED BY <1>2, TypeCorrect, AloneHolds, PTL DEF Spec, DrainRespectsSchedule
-----------------------------------------------------------------------------
(* Optimistic concurrency.                                                 *)

(* Document d has a snapshot of this millisecond.                          *)
Stamped(d) == \E s \in snaps : s.doc = d /\ s.at = clock

(* A row or a token is not from the future, and if it is of this           *)
(* millisecond, so is a snapshot of its document.                          *)
Dated(d, at) == at <= clock /\ (at = clock => Stamped(d))

(* A row that carries the time a token does is the row the token is of.    *)
Names(t, row) == row # None /\ row.updatedAt = t.updatedAt => row.n = t.n

(* A request that passed a token is about to write the row it is of.       *)
HoldsToken(c) ==
  pc[c] = "ready" /\ work[c].tokened # None =>
    rows[work[c].doc] # None /\ rows[work[c].doc].n = work[c].tokened

TokenInv ==
  /\ \A d \in Docs : rows[d] # None => Dated(d, rows[d].updatedAt)
  /\ \A c \in Clients : token[c] # None =>
       Dated(token[c].doc, token[c].updatedAt) /\ Names(token[c], rows[token[c].doc])
  /\ \A c \in Clients : HoldsToken(c)

(* Steps that leave rows, snapshots and tokens alone.                      *)
LEMMA QuietDates ==
  ASSUME TypeOK, UNCHANGED snaps, clock' \in {clock, clock + 1}, NEW d, NEW at \in Nat, Dated(d, at)
  PROVE  Dated(d, at)'
<1>1. clock \in Nat
  BY DEF TypeOK
<1> QED BY <1>1 DEF Dated, Stamped

LEMMA QuietTokens ==
  ASSUME TypeOK, TokenInv, UNCHANGED <<rows, snaps, token>>, clock' \in {clock, clock + 1},
         \A c \in Clients : HoldsToken(c)'
  PROVE  TokenInv'
<1>1. ASSUME NEW d \in Docs, rows[d] # None PROVE Dated(d, rows[d].updatedAt)'
  <2>1. PICK at \in Nat : at = rows[d].updatedAt
    BY <1>1, ReadRow DEF Row
  <2>2. Dated(d, at)'
    BY <1>1, <2>1, QuietDates DEF TokenInv
  <2> QED BY <2>1, <2>2 DEF Dated
<1>2. ASSUME NEW c \in Clients, token[c] # None
      PROVE  Dated(token[c].doc, token[c].updatedAt)' /\ Names(token[c], rows[token[c].doc])'
  <2>1. PICK d \in Docs, at \in Nat : d = token[c].doc /\ at = token[c].updatedAt
    BY <1>2 DEF TypeOK, Token
  <2>2. Dated(d, at)'
    BY <1>2, <2>1, QuietDates DEF TokenInv
  <2> QED BY <1>2, <2>1, <2>2 DEF TokenInv, Dated, Stamped, Names
<1> QED BY <1>1, <1>2 DEF TokenInv

(* A request that begins holds the token it passed.                        *)
LEMMA BeginTokens ==
  ASSUME TypeOK, TokenInv, NEW c \in Clients, NEW w \in Work, Begin(c, w),
         w.tokened # None => rows[w.doc] # None /\ rows[w.doc].n = w.tokened
  PROVE  TokenInv'
<1>1. UNCHANGED <<rows, snaps, token, clock>> /\ pc' = [pc EXCEPT ![c] = "ready"] /\ work' = [work EXCEPT ![c] = w]
  BY DEF Begin, tables
<1>2. ASSUME NEW b \in Clients PROVE HoldsToken(b)'
  <2>1. CASE b = c
    <3>1. work'[b] = w
      BY <1>1, <2>1 DEF TypeOK
    <3> QED BY <1>1, <3>1 DEF HoldsToken
  <2>2. CASE b # c
    BY <1>1, <2>2 DEF TypeOK, TokenInv, HoldsToken
  <2> QED BY <2>1, <2>2
<1> QED BY <1>1, <1>2, QuietTokens

LEMMA UpdateTokens ==
  ASSUME TypeOK, TokenInv, NEW c \in Clients, NEW d \in Docs, NEW patch \in Patch, UpdateBegin(c, d, patch)
  PROVE  TokenInv'
<1> DEFINE w == Merged(d, patch)
<1>1. w \in Work /\ Begin(c, w)
  BY MergedTyped DEF UpdateBegin
<1>2. w.doc = d /\ w.tokened = patch.tokened
  BY DEF Merged
<1>3. patch.tokened # None => rows[d] # None /\ rows[d].n = patch.tokened
  BY DEF UpdateBegin, Passes, TokenAccepted, TokenInv, Names
<1> HIDE DEF w
<1> QED BY <1>1, <1>2, <1>3, BeginTokens

LEMMA AskTokens ==
  ASSUME TypeOK, TokenInv, NEW c \in Clients, NEW d \in Docs, Ask(c, d)
  PROVE  TokenInv'
<1>1. \A t \in TokensOf(c) : t \in Nat \union {None}
  BY DEF TokensOf, TypeOK, Token
<1>2. CASE CreateBegin(c, d)
  <2>1. PICK content \in Contents, status \in Statuses :
          Begin(c, [NoWork EXCEPT !.doc = d, !.action = "create", !.content = content, !.status = status,
                                  !.publishing = Transition("none", status)])
    BY <1>2 DEF CreateBegin
  <2> DEFINE w == [NoWork EXCEPT !.doc = d, !.action = "create", !.content = content, !.status = status,
                                 !.publishing = Transition("none", status)]
  <2>2. w \in Work
    BY NoWorkTyped DEF Work, Transition, Operations, Statuses
  <2>3. w.tokened = None /\ Begin(c, w)
    BY <2>1 DEF NoWork
  <2> HIDE DEF w
  <2> QED BY <2>2, <2>3, BeginTokens
<1>3. ASSUME EditBegin(c, d) \/ PublishBegin(c, d) \/ UnpublishBegin(c, d) \/ ScheduleBegin(c, d) \/ RestoreBegin(c, d)
      PROVE  \E patch \in Patch : UpdateBegin(c, d, patch)
  <2>1. \A at \in {None} \union Times : at \in Nat \union {None}
    BY DocumentsAssumption DEF Times
  <2>2. \A s \in snaps : s.content \in Contents
    BY DEF TypeOK, Snap
  <2>3. CASE EditBegin(c, d)
    BY <1>1, <2>3, PatchesTyped DEF EditBegin, AskUpdate
  <2>4. CASE PublishBegin(c, d)
    BY <1>1, <2>1, <2>4, PatchesTyped DEF PublishBegin, AskUpdate
  <2>5. CASE UnpublishBegin(c, d)
    BY <1>1, <2>5, PatchesTyped DEF UnpublishBegin, AskUpdate
  <2>6. CASE ScheduleBegin(c, d)
    BY <2>1, <2>6, PatchesTyped DEF ScheduleBegin, AskUpdate
  <2>7. CASE RestoreBegin(c, d)
    BY <2>2, <2>7, PatchesTyped DEF RestoreBegin, AskUpdate
  <2> QED BY <1>3, <2>3, <2>4, <2>5, <2>6, <2>7
<1>4. CASE DeleteBegin(c, d)
  <2>1. Removal(d) \in Work /\ Begin(c, Removal(d)) /\ Removal(d).tokened = None
    BY <1>4, RemovalTyped DEF DeleteBegin, Removal, NoWork
  <2> QED BY <2>1, BeginTokens
<1>5. CASE ReadDoc(c, d)
  <2>1. /\ UNCHANGED <<rows, snaps, clock, pc, work>> /\ rows[d] # None
        /\ token' = [token EXCEPT ![c] = [doc |-> d, updatedAt |-> rows[d].updatedAt, n |-> rows[d].n]]
    BY <1>5 DEF ReadDoc, tables
  <2>2. ASSUME NEW b \in Clients, token'[b] # None
        PROVE  Dated(token[b].doc, token[b].updatedAt)' /\ Names(token[b], rows[token[b].doc])'
    <3>1. CASE b = c
      <4>1. token'[b] = [doc |-> d, updatedAt |-> rows[d].updatedAt, n |-> rows[d].n]
        BY <2>1, <3>1 DEF TypeOK
      <4> QED BY <2>1, <4>1 DEF TokenInv, Dated, Stamped, Names
    <3>2. CASE b # c
      <4>1. token'[b] = token[b]
        BY <2>1, <3>2 DEF TypeOK
      <4> QED BY <2>1, <2>2, <4>1 DEF TokenInv, Dated, Stamped, Names
    <3> QED BY <3>1, <3>2
  <2> QED BY <2>1, <2>2 DEF TokenInv, Dated, Stamped, HoldsToken
<1> QED BY <1>2, <1>3, <1>4, <1>5, UpdateTokens DEF Ask

LEMMA DrainTokens ==
  ASSUME TypeOK, TokenInv, NEW c \in Clients, DrainStep(c)
  PROVE  TokenInv'
<1>1. CASE DrainBegin(c)
  <2>1. PICK item \in due[c] :
          /\ rows[item[2]] # None
          /\ IF Deletes(item[1]) THEN Begin(c, Removal(item[2])) ELSE UpdateBegin(c, item[2], DrainPatch(item[1]))
    BY <1>1 DEF DrainBegin
  <2>2. item[2] \in Docs
    BY DEF TypeOK
  <2>3. DrainPatch(item[1]) \in Patch
    BY NoPatchTyped DEF DrainPatch, Patch, Operations, Statuses
  <2>4. Removal(item[2]) \in Work /\ Removal(item[2]).tokened = None
    BY <2>1, <2>2, RemovalTyped DEF Removal, NoWork
  <2> QED BY <2>1, <2>2, <2>3, <2>4, BeginTokens, UpdateTokens
<1>2. CASE ScheduledFind(c) \/ LifecycleFind(c) \/ DrainSkip(c)
  <2>1. UNCHANGED <<rows, snaps, token, clock, pc, work>>
    BY <1>2 DEF ScheduledFind, LifecycleFind, Drain, DrainSkip, tables
  <2> QED BY <2>1, QuietTokens DEF TokenInv, HoldsToken
<1> QED BY <1>1, <1>2 DEF DrainStep

(* A write stamps its document, and no other write has.                    *)
LEMMA WriteStamps ==
  ASSUME MaxPerTick <= 1, TypeOK, HistoryInv, NEW c \in Clients, CommitWrite(c)
  PROVE  /\ Stamped(work[c].doc)' /\ ~ Stamped(work[c].doc)
         /\ \A x \in snaps : x.doc # work[c].doc => x \in snaps'
<1> DEFINE w == work[c]
           s == [doc |-> w.doc, content |-> Stored(w).content, status |-> Stored(w).status,
                 at |-> clock, n |-> Stored(w).n]
           old == SnapsOf(w.doc)
           ties == {x \in old : x.at = clock}
<1>1. w.doc \in Docs /\ clock \in Nat /\ clock' = clock /\ w' = [w EXCEPT !.n = commits + 1] /\ w'.doc = w.doc
  BY DEF TypeOK, Work, CommitWrite, Written
<1>2. PICK kept \in Trims(old \union {s}) : snaps' = (snaps \ old) \union kept
  BY DEF CommitWrite, Record
<1>3. IsFiniteSet(old) /\ \A x \in old : x.at \in Nat /\ x.at <= clock
  BY FS_Subset DEF HistoryInv, TypeOK, Snap, SnapsOf
<1>4. s.at = clock /\ s.doc = w.doc /\ Cardinality(ties) < MaxPerTick
  BY DEF CommitWrite
<1>5. s \in kept
  <2>1. MaxPerDoc > 0 => MaxPerTick <= MaxPerDoc
    BY DocumentsAssumption
  <2> HIDE DEF s, old
  <2> QED BY <1>1, <1>2, <1>3, <1>4, <2>1, TrimKeepsNewest
<1>6. ties = {}
  <2>1. IsFiniteSet(ties)
    BY <1>3, FS_Subset
  <2>2. Cardinality(ties) = 0
    BY <1>4, <2>1, FS_CardinalityType, DocumentsAssumption
  <2> QED BY <2>1, <2>2, FS_EmptySet
<1>7. ~ Stamped(w.doc)
  BY <1>6 DEF Stamped, SnapsOf
<1>8. Stamped(w.doc)'
  BY <1>1, <1>2, <1>4, <1>5 DEF Stamped
<1>9. \A x \in snaps : x.doc # w.doc => x \in snaps'
  BY <1>2 DEF SnapsOf
<1> QED BY <1>7, <1>8, <1>9

LEMMA WriteTokens ==
  ASSUME MaxPerTick <= 1, TypeOK, HistoryInv, AloneInv, TokenInv, NEW c \in Clients, CommitWrite(c)
  PROVE  TokenInv'
<1>1. PICK d \in Docs : d = work[c].doc /\ work'[c].doc = d
  BY DEF TypeOK, Work, CommitWrite, Written
<1>2. UNCHANGED <<clock, token>> /\ clock \in Nat
  BY DEF CommitWrite, Written, TypeOK
<1>3. rows'[d] # None => rows'[d].updatedAt = clock
  BY <1>1 DEF CommitWrite, Stored, TypeOK
<1>4. \A e \in Docs : e # d => rows'[e] = rows[e]
  BY <1>1 DEF CommitWrite, TypeOK
<1>5. ~ Stamped(d)
  BY <1>1, WriteStamps
<1>6. Stamped(d)'
  BY <1>1, WriteStamps DEF Stamped
<1>7. ASSUME NEW e \in Docs, e # d, Stamped(e) PROVE Stamped(e)'
  BY <1>1, <1>2, <1>7, WriteStamps DEF Stamped
<1>8. ASSUME NEW e \in Docs, rows'[e] # None PROVE Dated(e, rows[e].updatedAt)'
  BY <1>2, <1>3, <1>4, <1>6, <1>7, <1>8 DEF TokenInv, Dated
<1>9. ASSUME NEW b \in Clients, token[b] # None
      PROVE  Dated(token[b].doc, token[b].updatedAt)' /\ Names(token[b], rows[token[b].doc])'
  <2>1. token[b].doc \in Docs /\ token[b].updatedAt \in Nat
    BY <1>9 DEF TypeOK, Token
  <2>2. CASE token[b].doc = d
    <3>1. token[b].updatedAt < clock
      BY <1>2, <1>5, <1>9, <2>1, <2>2 DEF TokenInv, Dated
    <3> QED BY <1>2, <1>3, <2>1, <2>2, <3>1 DEF Dated, Names
  <2>3. CASE token[b].doc # d
    BY <1>2, <1>4, <1>7, <1>9, <2>1, <2>3 DEF TokenInv, Dated, Names
  <2> QED BY <2>2, <2>3
<1>10. ASSUME NEW b \in Clients PROVE HoldsToken(b)'
  <2>1. pc[c] = "ready" /\ pc' = [pc EXCEPT ![c] = "written"]
    BY DEF CommitWrite, Written
  <2> QED BY <2>1, InFlightAlone DEF HoldsToken, TypeOK
<1> QED BY <1>2, <1>8, <1>9, <1>10 DEF TokenInv

LEMMA DeleteTokens ==
  ASSUME TypeOK, AloneInv, TokenInv, NEW c \in Clients, CommitDelete(c)
  PROVE  TokenInv'
<1>1. UNCHANGED <<clock, token, snaps>> /\ \A d \in Docs : rows'[d] = rows[d] \/ rows'[d] = None
  BY DEF CommitDelete, Written, TypeOK
<1>2. ASSUME NEW b \in Clients, token[b] # None
      PROVE  Dated(token[b].doc, token[b].updatedAt)' /\ Names(token[b], rows[token[b].doc])'
  <2>1. token[b].doc \in Docs
    BY <1>2 DEF TypeOK, Token
  <2> QED BY <1>1, <1>2, <2>1 DEF TokenInv, Dated, Stamped, Names
<1>3. ASSUME NEW b \in Clients PROVE HoldsToken(b)'
  <2>1. pc[c] = "ready" /\ pc' = [pc EXCEPT ![c] = "written"]
    BY DEF CommitDelete, Written
  <2> QED BY <2>1, InFlightAlone DEF HoldsToken, TypeOK
<1>4. \A d \in Docs : rows'[d] # None => Dated(d, rows[d].updatedAt)'
  BY <1>1 DEF TokenInv, Dated, Stamped
<1> QED BY <1>1, <1>2, <1>3, <1>4 DEF TokenInv

LEMMA TokenStep ==
  ASSUME MaxPerTick <= 1, TypeOK, HistoryInv, AloneInv, TokenInv, [Next]_vars
  PROVE  TokenInv'
<1>1. ASSUME NEW c \in Clients, CommitNothing(c) \/ Finish(c) PROVE TokenInv'
  <2>1. UNCHANGED <<rows, snaps, token, clock>> /\ pc' = [pc EXCEPT ![c] = "idle"]
        /\ \A b \in Clients : b # c => work'[b] = work[b]
    BY <1>1 DEF CommitNothing, Finish, Done, TypeOK
  <2> QED BY <2>1, QuietTokens DEF TokenInv, HoldsToken, TypeOK
<1>2. CASE Tick \/ UNCHANGED vars
  BY <1>2, QuietTokens DEF Tick, vars, tables, requests, TokenInv, HoldsToken
<1>3. CASE Crash
  <2>1. UNCHANGED <<rows, snaps, token, clock>> /\ \A c \in Clients : pc'[c] = "idle"
    BY <1>3 DEF Crash, tables
  <2> QED BY <2>1, QuietTokens DEF HoldsToken
<1> QED BY <1>1, <1>2, <1>3, AskTokens, DrainTokens, WriteTokens, DeleteTokens DEF Next, Respond

(* One request at a time, and one write of a document in a millisecond, a  *)
(* write that passed expectedUpdatedAt overwrites exactly the row that     *)
(* its caller had read, whatever was deleted and created again meanwhile.  *)
THEOREM TokensProtect ==
  ASSUME MaxInFlight <= 1, MaxPerTick <= 1
  PROVE  Spec => TokenProtectsReader
<1>1. Init => HistoryInv /\ TokenInv
  BY FS_EmptySet DEF Init, HistoryInv, SnapshotOfLiveRow, TokenInv, HoldsToken
<1>2. TypeOK /\ AloneInv /\ HistoryInv /\ TokenInv /\ [Next]_vars => HistoryInv' /\ TokenInv'
  <2>1. MaxPerDoc > 0 => MaxPerTick <= MaxPerDoc
    BY DocumentsAssumption
  <2> QED BY <2>1, HistoryStep, TokenStep
<1>3. TypeOK /\ TokenInv /\ [Next]_vars => [TokenHeld]_vars
  BY DEF TokenInv, HoldsToken, TokenHeld, Commits
<1> QED BY <1>1, <1>2, <1>3, TypeCorrect, AloneHolds, PTL DEF Spec, TokenProtectsReader
=============================================================================
