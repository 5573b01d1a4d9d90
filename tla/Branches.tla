------------------------------ MODULE Branches ------------------------------
(***************************************************************************)
(* One content branch (operations.ts: stageChange, mergeBranch,            *)
(* discardBranch): edits of documents are kept in overlay rows and, when   *)
(* the branch is merged, replayed through update(), one by one or all in   *)
(* one transaction.  The branch row, its overlay and the documents are     *)
(* read in one step and written in later ones.                             *)
(*                                                                         *)
(* Every edit is of a field of its own, so that a document is the set of   *)
(* edits it has received; that update() may also lose what others wrote to *)
(* the document is the subject of Documents.                               *)
(***************************************************************************)
EXTENDS Naturals, FiniteSets

CONSTANTS
  Docs,
  Edits,        (* bound: the edits that are ever staged                   *)
  Calls,        (* calls in flight                                         *)
  PageLimit,    (* overlay rows a merge or a discard reads, MAX_LIMIT      *)
  MaxMerges,    (* bound: merges and discards that begin                   *)
  MaxCrashes,   (* bound: crashes                                          *)
  None

BranchesAssumption ==
  /\ None \notin Edits \union Docs
  /\ PageLimit \in Nat \ {0} /\ MaxMerges \in Nat /\ MaxCrashes \in Nat

VARIABLES
  status,       (* of the branch                                           *)
  overlay,      (* the _branch_docs rows, by id                            *)
  doc,          (* the edits each document has received                    *)
  call,
  staged,       (* edits whose stageChange has returned                    *)
  reported,     (* edits a merge has reported as failed                    *)
  discarded,    (* edits in an overlay row that was there to be discarded  *)
  crossed,      (* a call wrote over what others changed since it read it  *)
  merges, crashes

history == <<staged, reported, discarded, crossed>>
vars == <<status, overlay, doc, call, history, merges, crashes>>

(* Rows are numbered as they are inserted.                                 *)
Row == [id: Nat, doc: Docs, edits: SUBSET Edits]
Idle == [step |-> "idle", edit |-> None, doc |-> None, rows |-> {}, left |-> {}, done |-> {}]

Init ==
  /\ status = "open" /\ overlay = {}
  /\ doc = [d \in Docs |-> {}]
  /\ call = [c \in Calls |-> Idle]
  /\ staged = {} /\ reported = {} /\ discarded = {} /\ crossed = FALSE
  /\ merges = 0 /\ crashes = 0

Becomes(c, r) == call' = [call EXCEPT ![c] = r]
EditsIn(rows) == UNION {r.edits : r \in rows}
InHand == {call[c].edit : c \in Calls}

-----------------------------------------------------------------------------
(* stageChange: the branch is open; then the document's overlay row is     *)
(* looked up; then it is merged into, or inserted.                         *)

StageBegin(c) ==
  /\ call[c].step = "idle" /\ status = "open"
  /\ \E e \in Edits \ (InHand \union staged), d \in Docs :
       Becomes(c, [Idle EXCEPT !.step = "stage", !.edit = e, !.doc = d])
  /\ UNCHANGED <<status, overlay, doc, history, merges, crashes>>

OverlayRow(d) == {r \in overlay : r.doc = d}

StageFind(c) ==
  /\ call[c].step = "stage"
  /\ \/ \E r \in OverlayRow(call[c].doc) : Becomes(c, [call[c] EXCEPT !.step = "found", !.rows = {r}])
     \/ OverlayRow(call[c].doc) = {} /\ Becomes(c, [call[c] EXCEPT !.step = "found"])
  /\ UNCHANGED <<status, overlay, doc, history, merges, crashes>>

(* Variant: the new edits replace those staged before.                     *)
OnlyNew(old, e) == {e}

Combined(old, e) == old \union {e}

(* Every insert has staged one more edit.                                  *)
NextId == Cardinality(staged)

(* Others that have read the overlay to replay it or to drop it.           *)
Replaying(c) == {d \in Calls \ {c} : call[d].step \in {"merge", "drop", "discard", "atomic"}}

(* An update of an overlay row that is gone stores nothing, and nobody     *)
(* hears of it.                                                            *)
StageWrite(c) ==
  LET r == call[c]
  IN  /\ r.step = "found"
      /\ IF r.rows = {}
         THEN overlay' = overlay \union {[id |-> NextId, doc |-> r.doc, edits |-> {r.edit}]}
         ELSE \E old \in r.rows :
                overlay' = {IF x.id = old.id THEN [x EXCEPT !.edits = Combined(old.edits, r.edit)] ELSE x : x \in overlay}
      /\ crossed' = (crossed \/ status # "open" \/ OverlayRow(r.doc) # r.rows \/ Replaying(c) # {})
      /\ staged' = staged \union {r.edit}
      /\ Becomes(c, Idle)
      /\ UNCHANGED <<status, doc, reported, discarded, merges, crashes>>

-----------------------------------------------------------------------------
(* mergeBranch and discardBranch begin alike: the branch is open, then its *)
(* oldest changes are read, one page of them.                              *)

Page == {x \in overlay : Cardinality({o \in overlay : o.id < x.id}) < PageLimit}

Begin(c, how) ==
  /\ call[c].step = "idle" /\ status = "open" /\ merges < MaxMerges
  /\ merges' = merges + 1
  /\ Becomes(c, [Idle EXCEPT !.step = how, !.rows = Page, !.left = Page])
  /\ UNCHANGED <<status, overlay, doc, history, crashes>>

(* mergeBranch, change by change.  An update may fail: a gate, a rule, a   *)
(* validation, a document that is gone.                                    *)

MergeOne(c) ==
  LET r == call[c]
  IN  /\ r.step = "merge" /\ r.left # {}
      /\ \E x \in r.left :
           /\ \/ doc' = [doc EXCEPT ![x.doc] = @ \union x.edits] /\ UNCHANGED reported
              \/ reported' = reported \union x.edits /\ UNCHANGED doc
           /\ Becomes(c, [r EXCEPT !.left = @ \ {x}])
      /\ UNCHANGED <<status, overlay, staged, discarded, crossed, merges, crashes>>

(* Then the branch is merged, and the overlay rows are dropped.            *)
MarkMerged(c) ==
  /\ call[c].step = "merge" /\ call[c].left = {}
  /\ status' = "merged"
  /\ Becomes(c, [call[c] EXCEPT !.step = "drop", !.left = call[c].rows])
  /\ crossed' = (crossed \/ status # "open")
  /\ UNCHANGED <<overlay, doc, staged, reported, discarded, merges, crashes>>

Drop(c) ==
  LET r == call[c]
  IN  /\ r.step \in {"drop", "discard"} /\ r.left # {}
      /\ \E x \in r.left :
           /\ overlay' = {o \in overlay : o.id # x.id}
           /\ crossed' = (crossed \/ \E o \in overlay : o.id = x.id /\ o # x)
           /\ discarded' = IF r.step = "discard" THEN discarded \union x.edits ELSE discarded
           /\ Becomes(c, [r EXCEPT !.left = @ \ {x}])
      /\ UNCHANGED <<status, doc, staged, reported, merges, crashes>>

Dropped(c) ==
  /\ call[c].step = "drop" /\ call[c].left = {}
  /\ Becomes(c, Idle)
  /\ UNCHANGED <<status, overlay, doc, history, merges, crashes>>

(* discardBranch: the rows first, then the status.                         *)
MarkDiscarded(c) ==
  /\ call[c].step = "discard" /\ call[c].left = {}
  /\ status' = "discarded"
  /\ crossed' = (crossed \/ status # "open")
  /\ Becomes(c, Idle)
  /\ UNCHANGED <<overlay, doc, staged, reported, discarded, merges, crashes>>

-----------------------------------------------------------------------------
(* mergeBranch, atomically: what the transaction has applied so far is in  *)
(* done.  It commits, status and overlay included, or leaves nothing.      *)

AtomicOne(c) ==
  LET r == call[c]
  IN  /\ r.step = "atomic"
      /\ \E x \in r.left : Becomes(c, [r EXCEPT !.left = @ \ {x}, !.done = @ \union {x}])
      /\ UNCHANGED <<status, overlay, doc, history, merges, crashes>>

AtomicCommit(c) ==
  LET r == call[c]
  IN  /\ r.step = "atomic" /\ r.left = {}
      /\ doc' = [d \in Docs |-> doc[d] \union EditsIn({x \in r.done : x.doc = d})]
      /\ status' = "merged"
      /\ overlay' = {o \in overlay : \A x \in r.rows : o.id # x.id}
      /\ crossed' = (crossed \/ status # "open" \/ ~ r.rows \subseteq overlay)
      /\ Becomes(c, Idle)
      /\ UNCHANGED <<staged, reported, discarded, merges, crashes>>

AtomicAbort(c) ==
  /\ call[c].step = "atomic" /\ call[c].left # {}
  /\ Becomes(c, Idle)
  /\ UNCHANGED <<status, overlay, doc, history, merges, crashes>>

Crash ==
  /\ crashes < MaxCrashes /\ crashes' = crashes + 1
  /\ \E c \in Calls : call[c] # Idle
  /\ call' = [c \in Calls |-> Idle]
  /\ UNCHANGED <<status, overlay, doc, history, merges>>

Stage(c) == StageBegin(c) \/ StageFind(c) \/ StageWrite(c)
Merge(c) == MergeOne(c) \/ MarkMerged(c) \/ Drop(c) \/ Dropped(c) \/ MarkDiscarded(c)
Atomic(c) == AtomicOne(c) \/ AtomicCommit(c) \/ AtomicAbort(c)

Next ==
  \/ \E c \in Calls : Stage(c) \/ Merge(c) \/ Atomic(c) \/ \E how \in {"merge", "discard", "atomic"} : Begin(c, how)
  \/ Crash

Spec == Init /\ [][Next]_vars

-----------------------------------------------------------------------------
(* Properties.                                                             *)

TypeOK ==
  /\ status \in {"open", "merged", "discarded"}
  /\ overlay \subseteq Row /\ doc \in [Docs -> SUBSET Edits]
  /\ call \in [Calls -> [step: {"idle", "stage", "found", "merge", "drop", "discard", "atomic"},
                         edit: Edits \union {None}, doc: Docs \union {None},
                         rows: SUBSET Row, left: SUBSET Row, done: SUBSET Row]]
  /\ staged \subseteq Edits /\ reported \subseteq Edits /\ discarded \subseteq Edits /\ crossed \in BOOLEAN
  /\ merges \in 0..MaxMerges /\ crashes \in 0..MaxCrashes

(* An edit that was accepted is in the overlay of a branch that can still  *)
(* be merged, or in its document, or reported as failed, or discarded -    *)
(* after crashes, retries and merges in either mode, unless a call wrote   *)
(* over a row, or a status, that was not as it had read it.                *)
NoEditIsLost ==
  ~ crossed =>
    \A e \in staged :
      \/ status = "open" /\ e \in EditsIn(overlay)
      \/ \E d \in Docs : e \in doc[d]
      \/ e \in reported \union discarded
=============================================================================
