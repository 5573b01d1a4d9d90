------------------------------ MODULE Services ------------------------------
(***************************************************************************)
(* The parts of the system that share no rows, memory or messages with     *)
(* each other, side by side: focus is the part whose behaviour is          *)
(* explored.                                                               *)
(***************************************************************************)
EXTENDS Naturals, Sequences

CONSTANTS
  None,
  Calls,                                                (* calls in flight *)
  Principals, Admins, AskedTTL, MaxTTL, Windows, MaxLockTime,
  MaxEvents, MaxEdits,
  MaxFailures, Window, TokenLife, MaxRequests, MaxLoginTime, MaxRestarts,
  Docs, Schemas, MaxRefs, MaxDeletes,
  Drafts, Changes, PageLimit, MaxMerges, MaxCrashes,    (* of branches     *)
  Fields, Constants,                                    (* of filters      *)
  Tables, System, Columns, Base, MaxRuns, MaxFaults,
  Texts, NotNumbers, LoadsEarly, MaxInputs, MaxReloads

VARIABLES
  focus,
  lockNow, lock, seen, lockCall, believes, beat, lockCrossed,
  order, charge, sent, orderCall, checkout, handled, orderCrossed, events, orderEdits,
  loginNow, account, failures, loginCall, sessions, made, spent, again, lost, requests, restarts,
  schema, live, refs, batch, stack, visited, post, audited, before, outcome, deletes,
  branch, overlay, doc, branchCall, staged, reported, discarded, branchCrossed, merges, branchCrashes,
  filtered, where,
  db, journal, schemaCall, unrecorded, runs, faults,
  form, rendered, ready, paused, scheduled, lastSent, page, down, up, inputs, reloads

collaboration == <<lockNow, lock, seen, lockCall, believes, beat, lockCrossed>>
orders == <<order, charge, sent, orderCall, checkout, handled, orderCrossed, events, orderEdits>>
accounts == <<loginNow, account, failures, loginCall, sessions, made, spent, again, lost, requests, restarts>>
references == <<schema, live, refs, batch, stack, visited, post, audited, before, outcome, deletes>>
branches == <<branch, overlay, doc, branchCall, staged, reported, discarded, branchCrossed, merges, branchCrashes>>
filters == <<filtered, where>>
migrations == <<db, journal, schemaCall, unrecorded, runs, faults>>
preview == <<form, rendered, ready, paused, scheduled, lastSent, page, down, up, inputs, reloads>>
vars == <<focus, collaboration, orders, accounts, references, branches, filters, migrations, preview>>

Col == INSTANCE Collaboration WITH
  MaxTime <- MaxLockTime, now <- lockNow, call <- lockCall, crossed <- lockCrossed

Ord == INSTANCE Orders WITH call <- orderCall, crossed <- orderCrossed, edits <- orderEdits

Acc == INSTANCE Accounts WITH MaxTime <- MaxLoginTime, now <- loginNow, row <- account, call <- loginCall

Ref == INSTANCE References

Bra == INSTANCE Branches WITH
  Docs <- Drafts, Edits <- Changes, status <- branch, call <- branchCall, crossed <- branchCrossed,
  crashes <- branchCrashes

Fil == INSTANCE Filters WITH Values <- Constants, row <- filtered

Mig == INSTANCE Migrations WITH call <- schemaCall

Pre == INSTANCE Preview

ASSUME ServicesAssumption ==
  /\ Col!CollaborationAssumption /\ Ord!OrdersAssumption /\ Acc!AccountsAssumption
  /\ Ref!ReferencesAssumption /\ Bra!BranchesAssumption /\ Fil!FiltersAssumption
  /\ Mig!MigrationsAssumption /\ Pre!PreviewAssumption

-----------------------------------------------------------------------------
Parts == {"locks", "presence", "orders", "accounts", "references", "branches", "filters", "migrations",
          "preview"}

(* A part that is not explored and has many initial states has none.       *)
NoReferences ==
  /\ schema = None /\ live = None /\ refs = None /\ batch = None /\ stack = None /\ visited = None
  /\ post = None /\ audited = None /\ before = None /\ outcome = None /\ deletes = None

NoFilters == filtered = None /\ where = None

Init ==
  /\ focus \in Parts
  /\ Col!Init /\ Ord!Init /\ Bra!Init /\ Mig!Init
  /\ Acc!Init /\ (focus = "accounts" \/ ~ account.verified)
  /\ Pre!Init /\ (focus = "preview" \/ form = CHOOSE t \in Pre!Values : TRUE)
  /\ IF focus = "references" THEN Ref!Init ELSE NoReferences
  /\ IF focus = "filters" THEN Fil!Init ELSE NoFilters

Next ==
  \/ /\ focus = "locks" /\ Col!LockNext
     /\ UNCHANGED <<focus, orders, accounts, references, branches, filters, migrations, preview>>
  \/ /\ focus = "presence" /\ Col!PresenceNext
     /\ UNCHANGED <<focus, orders, accounts, references, branches, filters, migrations, preview>>
  \/ /\ focus = "orders" /\ Ord!Next
     /\ UNCHANGED <<focus, collaboration, accounts, references, branches, filters, migrations, preview>>
  \/ /\ focus = "accounts" /\ Acc!Next
     /\ UNCHANGED <<focus, collaboration, orders, references, branches, filters, migrations, preview>>
  \/ /\ focus = "references" /\ Ref!Next
     /\ UNCHANGED <<focus, collaboration, orders, accounts, branches, filters, migrations, preview>>
  \/ /\ focus = "branches" /\ Bra!Next
     /\ UNCHANGED <<focus, collaboration, orders, accounts, references, filters, migrations, preview>>
  \/ /\ focus = "filters" /\ Fil!Next
     /\ UNCHANGED <<focus, collaboration, orders, accounts, references, branches, migrations, preview>>
  \/ /\ focus = "migrations" /\ Mig!Next
     /\ UNCHANGED <<focus, collaboration, orders, accounts, references, branches, filters, preview>>
  \/ /\ focus = "preview" /\ Pre!Next
     /\ UNCHANGED <<focus, collaboration, orders, accounts, references, branches, filters, migrations>>

Spec == Init /\ [][Next]_vars

-----------------------------------------------------------------------------
(* The properties of the parts, under their own names; what they say is    *)
(* stated where they are defined.                                          *)

(* The variables of every part have their shape.                           *)
TypeOK ==
  CASE focus \in {"locks", "presence"} -> Col!TypeOK
    [] focus = "orders" -> Ord!TypeOK
    [] focus = "accounts" -> Acc!TypeOK
    [] focus = "references" -> Ref!TypeOK
    [] focus = "branches" -> Bra!TypeOK
    [] focus = "filters" -> Fil!TypeOK
    [] focus = "migrations" -> Mig!TypeOK
    [] focus = "preview" -> Pre!TypeOK

(* Collaboration: who was told that a lock is its own is alone in that.    *)
OneHolder == focus = "locks" => Col!OneHolder

(* Collaboration: who is editing is listed.                                *)
PresentIsListed == focus = "presence" => Col!PresentIsListed

(* Orders: an order whose refund was handled is refunded.                  *)
RefundIsFinal == focus = "orders" => Ord!RefundIsFinal

(* Accounts: a session does not outlive the password it was begun with,    *)
(* codes and tokens are good for one use, the throttle bounds guesses.     *)
SessionsEnd == focus = "accounts" => Acc!SessionsEnd
SingleUse == focus = "accounts" => Acc!SingleUse
ThrottleHolds == focus = "accounts" => Acc!ThrottleHolds

(* References: a delete takes exactly its cascade; no single reference     *)
(* dangles.                                                                *)
RemovesTheCascade == focus = "references" => Ref!RemovesTheCascade
SingleRefsAreSound == focus = "references" => Ref!SingleRefsAreSound

(* References: a reference in a list does not dangle, either.              *)
ListsAreSound == focus = "references" => Ref!ListsAreSound

(* Branches: no staged edit is lost.                                       *)
NoEditIsLost == focus = "branches" => Bra!NoEditIsLost

(* Filters: what is listed under a filter is allowed by it, and without    *)
(* NULL the two implementations agree.                                     *)
FiltersAgree == focus = "filters" => Fil!FiltersAgree

(* Migrations: the journal accounts for what was added.                    *)
JournalAccounts == focus = "migrations" => Mig!JournalAccounts

(* Preview: at rest, the page has the form.                                *)
SettledHasForm == focus = "preview" => Pre!SettledHasForm
=============================================================================
