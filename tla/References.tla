----------------------------- MODULE References -----------------------------
(***************************************************************************)
(* Deleting a document that others refer to (operations.ts: deleteOne,     *)
(* applyOnDelete, deleteMany).  No database constraint guards a reference: *)
(* the rows that hold one are looked up and restrict, setNull or cascade   *)
(* is applied to each, recursively, in the transaction of the delete.      *)
(*                                                                         *)
(* The recursion is a stack of deletes under way.  Documents of one        *)
(* collection refer to each other through the fields of a schema; a field  *)
(* holds a set of them, at most one unless it is a hasMany field.          *)
(***************************************************************************)
EXTENDS Naturals, Sequences, FiniteSets, SequencesExt

CONSTANTS
  Docs,
  Schemas,      (* field sequences: [on: the action, many: BOOLEAN]        *)
  MaxRefs,      (* bound: references there are at first                    *)
  MaxDeletes    (* bound: deletes that are asked for                       *)

Actions == {"cascade", "setNull", "restrict"}

ReferencesAssumption ==
  /\ IsFiniteSet(Docs)
  /\ Schemas \subseteq Seq([on: Actions, many: BOOLEAN])
  /\ MaxRefs \in Nat /\ MaxDeletes \in Nat

VARIABLES
  schema,
  live,         (* the documents in the collection                         *)
  refs,         (* refs[d][i]: the documents field i of d refers to        *)
  batch,        (* ids deleteMany has still to delete, in order            *)
  stack,        (* the deletes under way, innermost first                  *)
  visited,      (* the cycle guard; one for a whole batch                  *)
  post,         (* audit rows and hooks held back until the commit         *)
  audited,      (* deletes on record                                       *)
  before,       (* live and refs when the transaction began                *)
  outcome,      (* of the last delete                                      *)
  deletes

vars == <<schema, live, refs, batch, stack, visited, post, audited, before, outcome, deletes>>

RefFields == DOMAIN schema

(* A delete under way: at its look-up, or settling what that found and     *)
(* copied.                                                                 *)
Match == [field: Nat, row: Docs, value: SUBSET Docs]
Frame == [id: Docs, step: {"enter", "settle"}, todo: SUBSET Match]

Edge == [from: Docs, field: RefFields, to: Docs]

(* A document with the references that leave it.                           *)
RefsOf(edges, d) == [i \in RefFields |-> {e.to : e \in {x \in edges : x.from = d /\ x.field = i}}]

WellFormed(r) == \A d \in Docs, i \in RefFields : schema[i].many \/ Cardinality(r[d][i]) <= 1

Init ==
  /\ schema \in Schemas
  /\ live = Docs
  /\ \E e \in [1..MaxRefs -> Edge] :
       refs = [d \in Docs |-> RefsOf({e[n] : n \in 1..MaxRefs}, d)]
  /\ WellFormed(refs)
  /\ batch = <<>> /\ stack = <<>> /\ visited = {} /\ post = {} /\ audited = {}
  /\ before = [live |-> live, refs |-> refs]
  /\ outcome = "none" /\ deletes = 0

-----------------------------------------------------------------------------
(* A delete, or a batch of them.  Every document is deleted in a           *)
(* transaction of its own.                                                 *)

AskDelete ==
  /\ batch = <<>> /\ stack = <<>> /\ deletes < MaxDeletes
  /\ \E S \in SUBSET live \ {{}} : batch' \in SetToSeqs(S) /\ deletes' = deletes + Cardinality(S)
  /\ deletes' <= MaxDeletes
  /\ visited' = {}
  /\ UNCHANGED <<schema, live, refs, stack, post, audited, before, outcome>>

(* A document an earlier cascade of the batch has visited is skipped.      *)
SkipVisited ==
  /\ stack = <<>> /\ batch # <<>> /\ Head(batch) \in visited
  /\ batch' = Tail(batch)
  /\ UNCHANGED <<schema, live, refs, stack, visited, post, audited, before, outcome, deletes>>

Entering(id) == [id |-> id, step |-> "enter", todo |-> {}]

Root ==
  /\ stack = <<>> /\ batch # <<>> /\ Head(batch) \notin visited
  /\ batch' = Tail(batch) /\ stack' = <<Entering(Head(batch))>>
  /\ before' = [live |-> live, refs |-> refs] /\ outcome' = "under way"
  /\ UNCHANGED <<schema, live, refs, visited, post, audited, deletes>>

-----------------------------------------------------------------------------
(* The innermost delete.                                                   *)

Top == Head(stack)
Under(step) == stack # <<>> /\ Top.step = step
Instead(frame) == <<frame>> \o Tail(stack)

Referrers(id) ==
  {m \in {[field |-> i, row |-> d, value |-> refs[d][i]] : i \in RefFields, d \in live} : id \in m.value}

(* Variant: only the outermost delete looks for restricting referrers.     *)
BlockedAtRoot(id) == Len(stack) = 1 /\ \E m \in Referrers(id) : schema[m.field].on = "restrict"

Blocked(id) == \E m \in Referrers(id) : schema[m.field].on = "restrict"

(* All referrers are resolved, and restricting ones looked for, before     *)
(* anything is written.                                                    *)
LookUp ==
  /\ Under("enter") /\ Top.id \in live /\ ~ Blocked(Top.id)
  /\ stack' = Instead([Top EXCEPT !.step = "settle", !.todo = Referrers(Top.id)])
  /\ visited' = visited \union {Top.id}
  /\ UNCHANGED <<schema, live, refs, batch, post, audited, before, outcome, deletes>>

(* The fields in the order of the schema; the rows of a field in any.      *)
IsNext(m) == m \in Top.todo /\ \A n \in Top.todo : m.field <= n.field

Rest(m) == Instead([Top EXCEPT !.todo = @ \ {m}])

Cascade ==
  /\ Under("settle")
  /\ \E m \in Top.todo :
       /\ IsNext(m) /\ schema[m.field].on = "cascade"
       /\ stack' = IF m.row \in visited THEN Rest(m) ELSE <<Entering(m.row)>> \o Rest(m)
  /\ UNCHANGED <<schema, live, refs, batch, visited, post, audited, before, outcome, deletes>>

(* The new value is the one that was looked up, less the document; update  *)
(* throws if the row is gone.                                              *)
SetNull ==
  /\ Under("settle")
  /\ \E m \in Top.todo :
       /\ IsNext(m) /\ schema[m.field].on # "cascade" /\ m.row \in live
       /\ refs' = [refs EXCEPT ![m.row][m.field] = m.value \ {Top.id}]
       /\ stack' = Rest(m)
  /\ UNCHANGED <<schema, live, batch, visited, post, audited, before, outcome, deletes>>

Delete ==
  /\ Under("settle") /\ Top.todo = {}
  /\ live' = live \ {Top.id}
  /\ stack' = Tail(stack)
  /\ post' = IF Len(stack) = 1 THEN {} ELSE post \union {Top.id}
  /\ audited' = IF Len(stack) = 1 THEN audited \union post \union {Top.id} ELSE audited
  /\ outcome' = IF Len(stack) = 1 THEN "done" ELSE outcome
  /\ UNCHANGED <<schema, refs, batch, visited, before, deletes>>

(* Variant: what had been settled stays settled.                           *)
KeptRows == [live |-> live, refs |-> refs]

RestoredRows == before

(* An error: a document not found, a restricting referrer, or any access   *)
(* rule, validation or hook.  The transaction is rolled back, and the      *)
(* batch ends with it.                                                     *)
Throw ==
  /\ stack # <<>>
  /\ live' = RestoredRows.live /\ refs' = RestoredRows.refs
  /\ stack' = <<>> /\ batch' = <<>> /\ post' = {} /\ outcome' = "aborted"
  /\ UNCHANGED <<schema, visited, audited, before, deletes>>

Next == AskDelete \/ SkipVisited \/ Root \/ LookUp \/ Cascade \/ SetNull \/ Delete \/ Throw

Spec == Init /\ [][Next]_vars

-----------------------------------------------------------------------------
(* Properties.                                                             *)

TypeOK ==
  /\ schema \in Schemas /\ live \subseteq Docs
  /\ refs \in [Docs -> [RefFields -> SUBSET Docs]]
  /\ batch \in Seq(Docs) /\ stack \in Seq(Frame)
  /\ visited \subseteq Docs /\ post \subseteq Docs /\ audited \subseteq Docs
  /\ before.live \subseteq Docs /\ before.refs \in [Docs -> [RefFields -> SUBSET Docs]]
  /\ outcome \in {"none", "under way", "done", "aborted"} /\ deletes \in 0..MaxDeletes

Removed == before.live \ live
FieldsOn(action) == {i \in RefFields : schema[i].on = action}
RefersTo(r, d, fields) == UNION {r[d][i] : i \in fields}

(* With every document goes whatever refers to it through a cascade.       *)
Closed(S) ==
  \A d \in before.live : RefersTo(before.refs, d, FieldsOn("cascade")) \intersect S # {} => d \in S

(* A delete takes along what cascades from it, cycles included, and no     *)
(* document more; one that throws, however deep, takes nothing; and what   *)
(* is on record as deleted is gone.                                        *)
RemovesTheCascade ==
  /\ outcome = "done" =>
       /\ Closed(Removed) /\ Removed # {}
       /\ \E root \in Removed : \A S \in SUBSET before.live : root \in S /\ Closed(S) => Removed \subseteq S
  /\ outcome = "aborted" => Removed = {} /\ refs = before.refs
  /\ audited \intersect live = {}

(* A document that is restricted by one that stays is not deleted, however *)
(* deep in the cascade, and no field of one value refers to a deleted      *)
(* document.                                                               *)
SingleRefsAreSound ==
  outcome = "done" =>
    \A d \in live, i \in RefFields :
      /\ schema[i].on = "restrict" => before.refs[d][i] \intersect Removed = {}
      /\ ~ schema[i].many => refs[d][i] \intersect Removed = {}

(* types.ts says of a list: "pulls the id from a hasMany list".            *)
ListsAreSound ==
  outcome = "done" =>
    \A d \in live, i \in FieldsOn("setNull") : refs[d][i] \intersect Removed = {}
=============================================================================
