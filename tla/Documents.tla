------------------------------ MODULE Documents ------------------------------
(***************************************************************************)
(* The write pipeline of one drafts-enabled, versioned collection of the   *)
(* operation core (packages/core/src/operations.ts): create, update and    *)
(* the operations that go through update (publish, unpublish, schedule,    *)
(* restoreVersion), delete, and the two cron drains that publish what is   *)
(* due and retire what has expired.                                        *)
(*                                                                         *)
(* A request is not atomic.  It reads the stored row, awaits access rules, *)
(* hooks, validation and the pre-publish evals, and only then writes.  The *)
(* model has the three steps the code's awaits separate: the read with the *)
(* gate that depends on it alone, the write (row, version snapshot and     *)
(* content credential in one transaction), and the audit row that follows. *)
(* Requests of different clients interleave between these steps, and the   *)
(* process may crash between any two of them.                              *)
(***************************************************************************)
EXTENDS Naturals, FiniteSets

CONSTANTS
  Docs,        (* document ids: numbers, for the order queries return      *)
  Publishers,  (* human callers the publish rule allows                    *)
  Writers,     (* human callers that may write but not publish             *)
  Agents,      (* agent principals: never override, never publish          *)
  Crons,       (* drains: overrideAccess, no principal                     *)
  Readers,     (* the callers that use expectedUpdatedAt (it is opt-in)    *)
  Contents,    (* values of a document's editorial fields                  *)
  Blocked,     (* contents a blocking pre-publish eval rejects             *)
  Expired,     (* contents whose expireField has passed                    *)
  OnExpire,    (* the collection's lifecycle action                        *)
  MaxPerDoc,   (* versions kept per document, 0 for no limit               *)
  Limit,       (* rows one drain's query returns                           *)
  MaxClock,    (* bound: milliseconds of wall clock explored               *)
  MaxCommits,  (* bound: writes after which only drains still begin        *)
  MaxPerTick,  (* bound: writes to one document in one millisecond         *)
  MaxInFlight, (* bound: requests in flight at once                        *)
  MaxCrashes,  (* bound: crashes explored                                  *)
  None,        (* null                                                     *)
  Keep         (* "the caller did not pass this key"                       *)

Clients == Publishers \union Writers \union Agents \union Crons
Statuses == {"draft", "published"}
Times == 0..(MaxClock + 1)

VARIABLES
  rows,     (* the collection's table: a row per document, or None         *)
  snaps,    (* the _versions table                                         *)
  creds,    (* the _credentials table                                      *)
  audit,    (* the _audit table                                            *)
  pc,       (* where each client's request is                              *)
  work,     (* what the request decided, from the row it read              *)
  due,      (* the documents a drain found and has not handled yet         *)
  token,    (* the updatedAt (and which write stamped it) a client holds   *)
  clock,    (* wall clock, in milliseconds                                 *)
  commits,  (* number of committed writes                                  *)
  lost,     (* writes whose request crashed before its audit row           *)
  crashes   (* number of crashes                                           *)

tables == <<rows, snaps, creds, audit>>
requests == <<pc, work, due, token>>
history == <<commits, lost, crashes>>
vars == <<tables, requests, clock, history>>

(* updatedAt is all the program sees of a row's age.  n, the number of the *)
(* write that stored it, exists so that properties can tell writes apart.  *)
Row == [content: Contents, status: Statuses, updatedAt: Nat,
        sched: Nat \union {None}, archived: BOOLEAN, n: Nat]

Snap == [doc: Docs, content: Contents, status: Statuses, at: Nat, n: Nat]

Cred == [doc: Docs, content: Contents, approver: Clients, version: Nat]

Token == [doc: Docs, updatedAt: Nat, n: Nat]

Operations == {"create", "update", "publish", "unpublish", "delete"}

AuditRow == [n: Nat, doc: Docs, action: Operations \union {"content.expire"}]

(* A request after its gate: what it is about to write.  seen is the row's *)
(* n when it was read, tokened the n of the token it passed, publishing    *)
(* the code's isPublishTransition / bornPublished, and n, once written,    *)
(* the number of the write.                                                *)
Work == [doc: Docs, action: Operations, content: Contents, status: Statuses,
         sched: Nat \union {None, Keep}, archive: BOOLEAN, publishing: BOOLEAN,
         seen: Nat, tokened: Nat \union {None}, n: Nat]

NoWork == [doc |-> CHOOSE d \in Docs : TRUE, action |-> "update",
           content |-> CHOOSE x \in Contents : TRUE, status |-> "draft",
           sched |-> None, archive |-> FALSE, publishing |-> FALSE,
           seen |-> 0, tokened |-> None, n |-> 0]

ASSUME DocumentsAssumption ==
  /\ Docs \subseteq Nat /\ Docs # {} /\ Contents # {}
  /\ Blocked \subseteq Contents /\ Expired \subseteq Contents
  /\ Crons \intersect (Publishers \union Writers \union Agents) = {}
  /\ Publishers \intersect (Writers \union Agents) = {}
  /\ Readers \subseteq Clients \ Crons
  /\ OnExpire \in {"unpublish", "archive", "delete"}
  /\ MaxPerDoc \in Nat /\ Limit \in Nat \ {0} /\ MaxClock \in Nat
  /\ MaxCommits \in Nat /\ MaxPerTick \in Nat /\ MaxInFlight \in Nat /\ MaxCrashes \in Nat
  /\ None \notin Row \union Token \union Contents \union Statuses
  /\ Keep # None /\ {None, Keep} \intersect Nat = {}

Override(c) == c \in Crons

Busy == {c \in Clients : pc[c] # "idle" \/ due[c] # {}}

Init ==
  /\ rows = [d \in Docs |-> None]
  /\ snaps = {} /\ creds = {} /\ audit = {}
  /\ pc = [c \in Clients |-> "idle"]
  /\ work = [c \in Clients |-> NoWork]
  /\ due = [c \in Clients |-> {}]
  /\ token = [c \in Clients |-> None]
  /\ clock = 0 /\ commits = 0 /\ lost = {} /\ crashes = 0

-----------------------------------------------------------------------------
(* The gates.                                                              *)

(* Variant: no publish rule: the fallback to update's.                     *)
CanPublishByUpdateRule(c) == TRUE

(* assertCanPublish: an agent never, a human by the publish rule; skipped  *)
(* under overrideAccess.                                                   *)
CanPublish(c) == Override(c) \/ c \in Publishers

(* Variant: override skips the evals.                                      *)
PassesEvalsOrOverride(c, content) == Override(c) \/ content \notin Blocked

(* runPrePublishEvals: runs whoever publishes, override included.          *)
PassesEvals(c, content) == content \notin Blocked

(* Variant: born-published is not a transition.                            *)
TransitionOfDraft(old, new) == new = "published" /\ old = "draft"

(* isPublishTransition and, for a row there is none of yet, bornPublished. *)
Transition(old, new) == new = "published" /\ old # "published"

MayPublish(c, content) == CanPublish(c) /\ PassesEvals(c, content)

MayBegin(c) ==
  /\ pc[c] = "idle"
  /\ c \in Crons \/ commits < MaxCommits
  /\ c \in Busy \/ Cardinality(Busy) < MaxInFlight

Begin(c, w) ==
  /\ pc' = [pc EXCEPT ![c] = "ready"]
  /\ work' = [work EXCEPT ![c] = w]
  /\ UNCHANGED <<tables, token, clock, history>>

(* create() up to its write: a new document is a draft unless the caller   *)
(* asks for published, which is gated like any publish.                    *)
CreateBegin(c, d) ==
  \E content \in Contents, status \in Statuses :
    LET w == [NoWork EXCEPT !.doc = d, !.action = "create", !.content = content, !.status = status,
                            !.publishing = Transition("none", status)]
    IN  /\ MayBegin(c) /\ c \notin Crons
        /\ w.publishing => MayPublish(c, content)
        /\ Begin(c, w)
        /\ UNCHANGED due

(* What a caller passes to update(): any of the keys, or none of them.     *)
Patch == [action: Operations, content: Contents \union {Keep}, status: Statuses \union {Keep},
          sched: Nat \union {None, Keep}, archive: BOOLEAN, tokened: Nat \union {None}]

NoPatch == [action |-> "update", content |-> Keep, status |-> Keep, sched |-> Keep,
            archive |-> FALSE, tokened |-> None]

(* The whole-row write update() would make for a patch over the row it     *)
(* just read: merged content, the patch's _status or else the row's, and   *)
(* the schedule and archive columns only when the patch names them.        *)
Merged(d, patch) ==
  LET status == IF patch.status = Keep THEN rows[d].status ELSE patch.status
  IN  [doc |-> d, action |-> patch.action,
       content |-> IF patch.content = Keep THEN rows[d].content ELSE patch.content,
       status |-> status, sched |-> patch.sched, archive |-> patch.archive,
       publishing |-> Transition(rows[d].status, status),
       seen |-> rows[d].n, tokened |-> patch.tokened, n |-> 0]

(* Variant: compares for order, not for equality.                          *)
TokenNotNewer(c, d, tokened) ==
  tokened # None => token[c] # None /\ token[c].doc = d /\ tokened = token[c].n
                    /\ token[c].updatedAt <= rows[d].updatedAt

(* The optimistic-concurrency check: expectedUpdatedAt must be the row's.  *)
TokenAccepted(c, d, tokened) ==
  tokened # None => token[c] # None /\ token[c].doc = d /\ tokened = token[c].n
                    /\ token[c].updatedAt = rows[d].updatedAt

(* What update() refuses: a stale token, an agent's schedule, a publish    *)
(* the caller may not make or whose content an eval blocks.                *)
Passes(c, d, patch) ==
  LET w == Merged(d, patch)
  IN  /\ TokenAccepted(c, d, patch.tokened)
      /\ patch.sched \in Nat => c \notin Agents
      /\ w.publishing => MayPublish(c, w.content)

UpdateBegin(c, d, patch) ==
  /\ MayBegin(c)
  /\ rows[d] # None
  /\ Passes(c, d, patch)
  /\ Begin(c, Merged(d, patch))

(* The expectedUpdatedAt a caller may pass: none, or the one it holds.     *)
TokensOf(c) == {None} \union (IF token[c] = None THEN {} ELSE {token[c].n})

AskUpdate(c, d, patch) == c \notin Crons /\ UpdateBegin(c, d, patch) /\ UNCHANGED due

(* update() with new field values and, optionally, a raw _status.          *)
EditBegin(c, d) ==
  \E content \in Contents \union {Keep}, status \in Statuses \union {Keep}, t \in TokensOf(c) :
    AskUpdate(c, d, [NoPatch EXCEPT !.content = content, !.status = status, !.tokened = t])

(* publish(): now, or at a future time, when the document becomes a draft. *)
PublishBegin(c, d) ==
  \E at \in {None} \union {t \in Times : t > clock}, t \in TokensOf(c) :
    AskUpdate(c, d, [NoPatch EXCEPT !.action = "publish", !.sched = at, !.tokened = t,
                                    !.status = IF at = None THEN "published" ELSE "draft"])

UnpublishBegin(c, d) ==
  \E t \in TokensOf(c) :
    AskUpdate(c, d, [NoPatch EXCEPT !.action = "unpublish", !.status = "draft", !.tokened = t])

(* update() setting or clearing a raw _scheduled_at.                       *)
ScheduleBegin(c, d) ==
  \E at \in {None} \union Times : AskUpdate(c, d, [NoPatch EXCEPT !.sched = at])

(* restoreVersion() and restoreAsOf(): the snapshot's schema fields, never *)
(* its _status, as an ordinary update.                                     *)
RestoreBegin(c, d) ==
  \E s \in snaps : s.doc = d /\ AskUpdate(c, d, [NoPatch EXCEPT !.content = s.content])

Removal(d) == [NoWork EXCEPT !.doc = d, !.action = "delete", !.seen = rows[d].n]

DeleteBegin(c, d) ==
  /\ c \notin Crons /\ MayBegin(c) /\ rows[d] # None
  /\ Begin(c, Removal(d))
  /\ UNCHANGED due

(* findByID(): the caller now holds the row's updatedAt.                   *)
ReadDoc(c, d) ==
  /\ c \in Readers /\ pc[c] = "idle" /\ rows[d] # None
  /\ token' = [token EXCEPT ![c] = [doc |-> d, updatedAt |-> rows[d].updatedAt, n |-> rows[d].n]]
  /\ UNCHANGED <<tables, pc, work, due, clock, history>>

-----------------------------------------------------------------------------
(* The cron drains: one query for what is due, then one update per id.     *)

(* A query's page: the first Limit matching rows in the order of their ids *)
FirstPage(matching) == {d \in matching : Cardinality({e \in matching : e < d}) < Limit}

Drain(c, found) ==
  /\ c \in Crons /\ MayBegin(c) /\ due[c] = {} /\ found # {}
  /\ due' = [due EXCEPT ![c] = found]
  /\ UNCHANGED <<tables, pc, work, token, clock, history>>

(* Variant: the query forgets the time.                                    *)
ScheduledAtAll(d) == rows[d] # None /\ rows[d].sched # None

(* processScheduledPublishes' query.                                       *)
Scheduled(d) == rows[d] # None /\ rows[d].sched # None /\ rows[d].sched <= clock

(* Rows already published are passed over, after they took their place in  *)
(* the page.                                                               *)
ScheduledFind(c) ==
  Drain(c, {<<"publish", d>> : d \in {e \in FirstPage({x \in Docs : Scheduled(x)}) :
                                         rows[e].status # "published"}})

(* processContentLifecycle's query; archive passes over marked rows.       *)
ExpiredDoc(d) == rows[d] # None /\ rows[d].status = "published" /\ rows[d].content \in Expired
                 /\ (OnExpire = "archive" => ~ rows[d].archived)

LifecycleFind(c) == Drain(c, {<<"expire", d>> : d \in FirstPage({x \in Docs : ExpiredDoc(x)})})

(* The update a drain makes for one id it found: by then the row may have  *)
(* changed, and only what update() itself checks is checked.               *)
DrainPatch(kind) ==
  IF kind = "publish"
  THEN [NoPatch EXCEPT !.action = "publish", !.status = "published", !.sched = None]
  ELSE [NoPatch EXCEPT !.action = "unpublish", !.status = "draft", !.archive = (OnExpire = "archive")]

Deletes(kind) == kind = "expire" /\ OnExpire = "delete"

(* The drain takes what it found in the order of the ids.                  *)
IsNext(c, item) == item \in due[c] /\ \A other \in due[c] : item[2] <= other[2]

DrainBegin(c) ==
  \E item \in due[c] :
    /\ IsNext(c, item) /\ MayBegin(c) /\ rows[item[2]] # None
    /\ IF Deletes(item[1])
       THEN Begin(c, Removal(item[2]))
       ELSE UpdateBegin(c, item[2], DrainPatch(item[1]))
    /\ due' = [due EXCEPT ![c] = @ \ {item}]

(* Variant: a blocked document stops the drain.                            *)
AbortsOnAnyError(item) == item[1] = "publish"

(* A scheduled document deleted meanwhile raises NotFoundError out of the  *)
(* publish drain, which stops with the rest still due; a blocking eval is  *)
(* skipped, and a retirement skips any error.                              *)
AbortsDrain(item) == item[1] = "publish" /\ rows[item[2]] = None

DrainSkip(c) ==
  \E item \in due[c] :
    /\ IsNext(c, item) /\ pc[c] = "idle"
    /\ rows[item[2]] # None => ~ Deletes(item[1]) /\ ~ Passes(c, item[2], DrainPatch(item[1]))
    /\ due' = [due EXCEPT ![c] = IF AbortsDrain(item) THEN {} ELSE @ \ {item}]
    /\ UNCHANGED <<tables, pc, work, token, clock, history>>

-----------------------------------------------------------------------------
(* The write transaction.                                                  *)

SnapsOf(d) == {s \in snaps : s.doc = d}

(* Variant: the trim sorts the other way.                                  *)
OldestStay(kept, cut) == \A x \in cut, y \in kept : y.at <= x.at

(* snapshotVersion's trim orders by createdAt.  Rows stamped in the same   *)
(* millisecond tie, and the query orders ties as it likes.                 *)
OldestGo(kept, cut) == \A x \in cut, y \in kept : x.at <= y.at

Trims(all) ==
  {kept \in SUBSET all :
     /\ OldestGo(kept, all \ kept)
     /\ IF MaxPerDoc > 0 /\ Cardinality(all) > MaxPerDoc
        THEN Cardinality(kept) = MaxPerDoc ELSE kept = all}

(* Variant: a raw _status is not signed.                                   *)
SignedWhenAsked(w) == w.publishing /\ w.action \in {"create", "publish"}

(* signContentCredential runs for a transition, however it was asked for.  *)
Signed(w) == w.publishing

(* The version snapshot, its trim and, for a publish, the credential.      *)
Record(c, w, row) ==
  LET s == [doc |-> w.doc, content |-> row.content, status |-> row.status, at |-> clock, n |-> row.n]
      cred == [doc |-> w.doc, content |-> row.content, approver |-> c, version |-> row.n]
  IN  /\ \E kept \in Trims(SnapsOf(w.doc) \union {s}) :
           snaps' = (snaps \ SnapsOf(w.doc)) \union kept
      /\ creds' = creds \union (IF Signed(w) THEN {cred} ELSE {})

(* Variant: update inserts what is gone.                                   *)
AppliesAsUpsert(w) == w.action \in {"create", "delete"} => (w.action = "create") <=> (rows[w.doc] = None)

(* The statement finds its row: an INSERT's id is free, an UPDATE or a     *)
(* DELETE still matches one.                                               *)
Applies(w) == (w.action = "create") <=> (rows[w.doc] = None)

(* Variant: a key the caller did not pass is written all the same.         *)
SchedAsPassed(w) == w.sched

(* A column the write leaves alone keeps what is stored now, not what was  *)
(* read.                                                                   *)
SchedOf(w) ==
  IF w.sched # Keep THEN w.sched ELSE IF rows[w.doc] = None THEN None ELSE rows[w.doc].sched

Stored(w) ==
  LET now == rows[w.doc]
  IN  [content |-> w.content, status |-> w.status, updatedAt |-> clock,
       sched |-> SchedOf(w),
       archived |-> w.archive \/ (now # None /\ now.archived), n |-> commits + 1]

Written(c) ==
  /\ pc' = [pc EXCEPT ![c] = "written"]
  /\ work' = [work EXCEPT ![c].n = commits + 1]
  /\ commits' = commits + 1
  /\ UNCHANGED <<audit, due, token, clock, lost, crashes>>

CommitWrite(c) ==
  LET w == work[c]
  IN  /\ pc[c] = "ready" /\ w.action # "delete" /\ Applies(w)
      /\ Cardinality({s \in SnapsOf(w.doc) : s.at = clock}) < MaxPerTick
      /\ rows' = [rows EXCEPT ![w.doc] = Stored(w)]
      /\ Record(c, w, Stored(w))
      /\ Written(c)

CommitDelete(c) ==
  LET w == work[c]
  IN  /\ pc[c] = "ready" /\ w.action = "delete" /\ Applies(w)
      /\ rows' = [rows EXCEPT ![w.doc] = None]
      /\ Written(c)
      /\ UNCHANGED <<snaps, creds>>

Retires(c, w) == c \in Crons /\ w.action # "publish"

Expiry(c, w) == IF Retires(c, w) THEN {[n |-> w.n, doc |-> w.doc, action |-> "content.expire"]} ELSE {}

(* Variant: override calls are not audited.                                *)
AuditsPrincipals(c, w) ==
  (IF Override(c) THEN {} ELSE {[n |-> w.n, doc |-> w.doc, action |-> w.action]}) \union Expiry(c, w)

(* recordAudit of the operation, and of the lifecycle drain that called it *)
Audits(c, w) == {[n |-> w.n, doc |-> w.doc, action |-> w.action]} \union Expiry(c, w)

Done(c) ==
  /\ pc' = [pc EXCEPT ![c] = "idle"]
  /\ work' = [work EXCEPT ![c] = NoWork]
  /\ UNCHANGED <<rows, snaps, creds, due, token, clock, history>>

(* The row is gone, or the id taken, by the time of the write: nothing is  *)
(* written, but a lifecycle drain records its expiry all the same.         *)
CommitNothing(c) ==
  /\ pc[c] = "ready" /\ ~ Applies(work[c])
  /\ audit' = audit \union Expiry(c, work[c])
  /\ Done(c)

(* The audit row, after the transaction and outside it.                    *)
Finish(c) ==
  /\ pc[c] = "written"
  /\ audit' = audit \union Audits(c, work[c])
  /\ Done(c)

Tick ==
  /\ clock < MaxClock /\ clock' = clock + 1
  /\ UNCHANGED <<tables, requests, history>>

(* The process dies: every request in flight is gone, the tables and what  *)
(* the callers remember stay.                                              *)
Crash ==
  /\ Busy # {} /\ crashes < MaxCrashes
  /\ crashes' = crashes + 1
  /\ lost' = lost \union {work[c].n : c \in {b \in Clients : pc[b] = "written"}}
  /\ pc' = [c \in Clients |-> "idle"]
  /\ work' = [c \in Clients |-> NoWork]
  /\ due' = [c \in Clients |-> {}]
  /\ UNCHANGED <<tables, token, clock, commits>>

Ask(c, d) ==
  \/ CreateBegin(c, d) \/ EditBegin(c, d) \/ PublishBegin(c, d) \/ UnpublishBegin(c, d)
  \/ ScheduleBegin(c, d) \/ RestoreBegin(c, d) \/ DeleteBegin(c, d) \/ ReadDoc(c, d)

Respond(c) == CommitWrite(c) \/ CommitDelete(c) \/ CommitNothing(c) \/ Finish(c)

DrainStep(c) == ScheduledFind(c) \/ LifecycleFind(c) \/ DrainBegin(c) \/ DrainSkip(c)

Next ==
  \/ \E c \in Clients, d \in Docs : Ask(c, d)
  \/ \E c \in Clients : DrainStep(c) \/ Respond(c)
  \/ Tick \/ Crash

Spec == Init /\ [][Next]_vars

(* A request that began finishes, time passes, and the scheduled-publish   *)
(* cron keeps being driven.  Nothing obliges a client to ask, nor the      *)
(* lifecycle drain to be configured.                                       *)
Fairness ==
  /\ \A c \in Clients : WF_vars(Respond(c))
  /\ \A c \in Crons : WF_vars(ScheduledFind(c)) /\ WF_vars(DrainBegin(c) \/ DrainSkip(c))
  /\ WF_vars(Tick)

FairSpec == Spec /\ Fairness
-----------------------------------------------------------------------------
(* Properties.                                                             *)

(* Every variable has its shape; the tables refer to real documents.       *)
TypeOK ==
  /\ rows \in [Docs -> Row \union {None}]
  /\ snaps \subseteq Snap /\ creds \subseteq Cred /\ audit \subseteq AuditRow
  /\ pc \in [Clients -> {"idle", "ready", "written"}]
  /\ work \in [Clients -> Work]
  /\ due \in [Clients -> SUBSET ({"publish", "expire"} \X Docs)]
  /\ token \in [Clients -> Token \union {None}]
  /\ clock \in Nat /\ commits \in Nat /\ lost \subseteq Nat /\ crashes \in Nat

(* The version history always ends in what is live: a stored row has the   *)
(* snapshot its write took, however many writers trimmed the history       *)
(* since.  It needs no more than maxPerDoc writes of one document in one   *)
(* millisecond (MaxPerTick), for the trim cannot order those.              *)
SnapshotOfLiveRow ==
  \A d \in Docs : rows[d] # None =>
    \E s \in SnapsOf(d) : s.n = rows[d].n /\ s.content = rows[d].content /\ s.status = rows[d].status

(* A published document has a content credential (the guarantee stated at  *)
(* signContentCredential), whatever writes were in flight when it, or an   *)
(* earlier state of it, was published.                                     *)
PublishedHasCredential ==
  \A d \in Docs : rows[d] # None /\ rows[d].status = "published" => \E cr \in creds : cr.doc = d

(* What is signed is what the evals saw, and was approved by a principal   *)
(* that may publish: no write slipped in between can change the content a  *)
(* credential is over, and no agent's name is ever on one.                 *)
CredentialsApproved ==
  \A cr \in creds : cr.content \notin Blocked /\ cr.approver \in Publishers \union Crons

(* What a request past its gate, deletes apart, may rely on when it writes *)
Approved(c, w) ==
  /\ w.publishing => w.content \notin Blocked /\ c \in Publishers \union Crons
  /\ w.status = "published" => w.publishing \/ \E cr \in creds : cr.doc = w.doc

(* The inductive invariant behind the two properties above: a write in     *)
(* flight that will leave its document published either is a transition    *)
(* its gate approved, or read a row that already had its credential.       *)
ApprovalInv ==
  /\ PublishedHasCredential
  /\ CredentialsApproved
  /\ \A c \in Clients : pc[c] = "ready" /\ work[c].action # "delete" => Approved(c, work[c])

(* Every committed write is in the audit log, about to be, or belongs to a *)
(* request a crash cut off between its commit and its audit row.           *)
AuditAccounts ==
  1..commits = {a.n : a \in {x \in audit : x.action # "content.expire"}} \union lost
               \union {work[c].n : c \in {b \in Clients : pc[b] = "written"}}

(* A deleted document stays deleted: no write that read it before can      *)
(* bring it back, only a create can.                                       *)
DeletedStaysDeleted ==
  [][\A d \in Docs : rows[d] = None /\ rows'[d] # None =>
       \E c \in Clients : pc[c] = "ready" /\ pc'[c] = "written"
                          /\ work[c].doc = d /\ work[c].action = "create"]_vars

GoesLive(d) == /\ rows[d] # None => rows[d].status # "published"
               /\ rows'[d] # None /\ rows'[d].status = "published"

(* A document becomes published only by a write that passed the publish    *)
(* gate: allowed principal, evaluated content, and a credential for it.    *)
GateHeld ==
  \A d \in Docs : GoesLive(d) =>
    \E cr \in creds' : /\ cr.doc = d /\ cr.version = rows'[d].n
                       /\ cr.content = rows'[d].content /\ cr.content \notin Blocked
                       /\ cr.approver \notin Writers \union Agents
GoesLiveThroughGate == [][GateHeld]_vars

Commits(c) == pc[c] = "ready" /\ pc'[c] = "written"

(* A write that passed expectedUpdatedAt overwrites exactly the row its    *)
(* caller had read.                                                        *)
TokenHeld ==
  \A c \in Clients : Commits(c) /\ work[c].tokened # None =>
    rows[work[c].doc] # None /\ rows[work[c].doc].n = work[c].tokened
TokenProtectsReader == [][TokenHeld]_vars

(* The scheduled-publish drain publishes only what is, at that moment,     *)
(* scheduled and due.                                                      *)
ScheduleHeld ==
  \A c \in Crons : Commits(c) /\ work[c].action = "publish" =>
    LET now == rows[work[c].doc] IN now # None /\ now.sched # None /\ now.sched <= clock
DrainRespectsSchedule == [][ScheduleHeld]_vars

Publishable(d) == Scheduled(d) /\ rows[d].status = "draft" /\ rows[d].content \notin Blocked

(* A draft whose time has come does not stay one: it is published, or      *)
(* rescheduled, changed or deleted by somebody.                            *)
ScheduledIsPublished == \A d \in Docs : Publishable(d) ~> ~ Publishable(d)
=============================================================================
