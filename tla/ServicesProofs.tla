---------------------------- MODULE ServicesProofs ----------------------------
EXTENDS EditingProofs

(***************************************************************************)
(* Orders, query filters, migrations, accounts and on-delete actions, of   *)
(* the parts Services composes: refunds stay, both evaluations of a filter *)
(* agree, the journal accounts for the schema, sessions end with their     *)
(* password, codes and tokens are used once, guesses are bounded, a delete *)
(* is its cascade or nothing.  Each part has an inductive invariant of its *)
(* own (Ord..., Mig..., Acc..., Ref...) and a lemma per action; the others *)
(* leave its variables alone.                                              *)
(***************************************************************************)

(* A call that is to update.                                               *)
OrdUpdating(e) == e.step \in {"update", "read"}

(* An order that is not there yet has no history; a call writes back a row *)
(* it has read, and of the provider's statuses only those it reported.     *)
OrdNoHistory == order = None => /\ handled = {} /\ checkout = "none" /\ charge = "none"
                                /\ \A c \in Calls : orderCall[c].step = "idle"
OrdSound(e, known) ==
  /\ e.step = "read" => e.read \in Ord!Order
  /\ e.status \in Ord!Reports => e.status \in known

(* While no two updates crossed: what was decided on a refunded order is   *)
(* that it is refunded.                                                    *)
OrdDecided(e) ==
  OrdUpdating(e) /\ e.status # None =>
    e.read \in Ord!Order /\ (e.read.status = "refunded" => e.status = "refunded")

OrdTyped == Ord!TypeOK /\ OrdNoHistory /\ \A c \in Calls : OrdSound(orderCall[c], sent)
OrdUncrossed == ~ orderCrossed => \A c \in Calls : OrdDecided(orderCall[c])
OrdIInv == OrdTyped /\ OrdUncrossed /\ Ord!RefundIsFinal

LEMMA OrdStages == DOMAIN Ord!Leads = {"open", "failed", "paid", "refunded", "none"}
BY DEF Ord!Leads

LEMMA OrdIdleSound == Ord!OrdersAssumption => Ord!Idle \in Ord!Call /\ (\A s : OrdSound(Ord!Idle, s)) /\ OrdDecided(Ord!Idle)
BY DEF Ord!OrdersAssumption, Ord!Idle, Ord!Call, OrdSound, OrdDecided, OrdUpdating, Ord!Reports, Ord!Statuses

LEMMA OrdInitIInv == Ord!OrdersAssumption /\ Ord!Init => OrdIInv
<1> SUFFICES ASSUME Ord!OrdersAssumption, Ord!Init PROVE OrdIInv
  OBVIOUS
<1>1. OrdTyped
  <2>1. orderCall \in [Calls -> Ord!Call] /\ \A c \in Calls : OrdSound(orderCall[c], sent) /\ orderCall[c].step = "idle"
    BY OrdIdleSound DEF Ord!Init, Ord!Idle
  <2>2. charge \in DOMAIN Ord!Leads /\ events \in 0..MaxEvents /\ orderEdits \in 0..MaxEdits
    BY OrdStages DEF Ord!Init, Ord!OrdersAssumption
  <2> QED BY <2>1, <2>2 DEF Ord!Init, OrdTyped, Ord!TypeOK, OrdNoHistory
<1>2. OrdUncrossed /\ Ord!RefundIsFinal
  BY OrdIdleSound DEF Ord!Init, OrdUncrossed, Ord!RefundIsFinal
<1> QED BY <1>1, <1>2 DEF OrdIInv

(* A call goes on, and the others do not.                                  *)
LEMMA OrdGoesOn ==
  ASSUME OrdIInv, NEW c \in Calls, NEW e \in Ord!Call, Ord!Becomes(c, e),
         OrdSound(e, sent'), sent \subseteq sent', order # None, order' # None, ~ orderCrossed' => ~ orderCrossed /\ OrdDecided(e)
  PROVE  orderCall' \in [Calls -> Ord!Call] /\ OrdNoHistory' /\ (\A d \in Calls : OrdSound(orderCall'[d], sent')) /\ OrdUncrossed'
<1>1. orderCall \in [Calls -> Ord!Call] /\ orderCall' = [orderCall EXCEPT ![c] = e]
  BY DEF OrdIInv, OrdTyped, Ord!TypeOK, Ord!Becomes
<1>2. \A d \in Calls : orderCall'[d] = IF d = c THEN e ELSE orderCall[d]
  BY <1>1
<1> QED BY <1>1, <1>2 DEF OrdIInv, OrdTyped, OrdNoHistory, OrdSound, OrdUncrossed

LEMMA OrdStepIInv == Ord!OrdersAssumption /\ OrdIInv /\ [Ord!Next]_Ord!vars => OrdIInv'
<1> SUFFICES ASSUME Ord!OrdersAssumption, OrdIInv, [Ord!Next]_Ord!vars PROVE OrdIInv'
  OBVIOUS
<1> USE OrdStages, OrdIdleSound DEF Ord!Becomes
<1>a. /\ order \in Ord!Order \union {None} /\ charge \in DOMAIN Ord!Leads /\ sent \subseteq Ord!Reports /\ handled \subseteq sent
      /\ orderCall \in [Calls -> Ord!Call] /\ checkout \in {"none", "created", "open", "failed", "done"}
      /\ orderCrossed \in BOOLEAN /\ events \in 0..MaxEvents /\ orderEdits \in 0..MaxEdits
      /\ OrdNoHistory /\ (\A c \in Calls : OrdSound(orderCall[c], sent)) /\ OrdUncrossed /\ Ord!RefundIsFinal
      /\ None \notin Ord!Order \union Ord!Statuses
  BY DEF OrdIInv, OrdTyped, Ord!TypeOK, Ord!OrdersAssumption
<1>b. ASSUME NEW c \in Calls, orderCall[c].step # "idle" PROVE order \in Ord!Order
  BY <1>a, <1>b DEF OrdNoHistory
<1>q. ASSUME order' \in Ord!Order \union {None}, charge' \in DOMAIN Ord!Leads, sent' \subseteq Ord!Reports, handled' \subseteq sent',
             orderCall' \in [Calls -> Ord!Call], checkout' \in {"none", "created", "open", "failed", "done"},
             orderCrossed' \in BOOLEAN, events' \in 0..MaxEvents, orderEdits' \in 0..MaxEdits,
             OrdNoHistory', \A c \in Calls : OrdSound(orderCall'[c], sent'), OrdUncrossed', Ord!RefundIsFinal'
      PROVE  OrdIInv'
  BY <1>q DEF OrdIInv, OrdTyped, Ord!TypeOK
<1>1. ASSUME NEW c \in Calls, Ord!UpdateRead(c) PROVE OrdIInv'
  <2> DEFINE e == [orderCall[c] EXCEPT !.step = "read", !.read = order]
  <2>1. orderCall[c] \in Ord!Call /\ orderCall[c].step = "update" /\ order \in Ord!Order
    BY <1>1, <1>a, <1>b DEF Ord!UpdateRead
  <2>2. e \in Ord!Call /\ e.step = "read" /\ e.read = order /\ e.status = orderCall[c].status
    BY <2>1 DEF Ord!Call
  <2>3. OrdSound(e, sent)
    BY <2>1, <2>2, <1>a DEF OrdSound
  <2>4. ~ orderCrossed' => ~ orderCrossed /\ OrdDecided(e)
    <3> SUFFICES ASSUME ~ orderCrossed', e.status # None PROVE ~ orderCrossed /\ OrdDecided(e)
      BY <1>1, <1>a DEF OrdDecided, Ord!UpdateRead
    <3>1. ~ orderCrossed /\ orderCall[c].read \in {None, order}
      BY <1>1, <1>a DEF Ord!UpdateRead
    <3>2. orderCall[c].read \in Ord!Order /\ (orderCall[c].read.status = "refunded" => orderCall[c].status = "refunded")
      BY <3>1, <2>1, <2>2, <1>a DEF OrdUncrossed, OrdDecided, OrdUpdating
    <3> QED BY <3>1, <3>2, <2>1, <2>2, <1>a DEF OrdDecided
  <2>5. UNCHANGED <<order, charge, sent, checkout, handled, events, orderEdits>> /\ Ord!Becomes(c, e) /\ orderCrossed' \in BOOLEAN
    BY <1>1, <1>a DEF Ord!UpdateRead
  <2>6. orderCall' \in [Calls -> Ord!Call] /\ OrdNoHistory' /\ (\A d \in Calls : OrdSound(orderCall'[d], sent')) /\ OrdUncrossed'
    BY <2>1, <2>2, <2>3, <2>4, <2>5, <1>a, OrdGoesOn
  <2>7. Ord!RefundIsFinal'
    BY <2>4, <2>5, <1>a DEF Ord!RefundIsFinal
  <2> QED BY <2>5, <2>6, <2>7, <1>a, <1>q
<1>2. ASSUME NEW c \in Calls, Ord!UpdateWrite(c) PROVE OrdIInv'
  <2> DEFINE r == orderCall[c]
  <2>1. r \in Ord!Call /\ r.step = "read" /\ r.read \in Ord!Order /\ order \in Ord!Order /\ (r.status \in Ord!Reports => r.status \in sent)
    BY <1>2, <1>a, <1>b DEF Ord!UpdateWrite, OrdSound
  <2>2. /\ order' = Ord!Merged(r) /\ UNCHANGED <<charge, sent, events, orderEdits>> /\ Ord!Becomes(c, Ord!Idle)
        /\ orderCrossed' = (orderCrossed \/ order # r.read)
        /\ checkout' = IF r.session THEN "done" ELSE checkout
        /\ handled' = IF r.status \in Ord!Reports THEN handled \union {r.status} ELSE handled
    BY <1>2 DEF Ord!UpdateWrite
  <2>3. order' \in Ord!Order /\ order'.status = (IF r.status = None THEN r.read.status ELSE r.status)
        /\ (r.session \/ r.read.session => order'.session)
    <3>1. Ord!Merged(r).status \in Ord!Statuses /\ Ord!Merged(r).session \in BOOLEAN
      BY <2>1, <1>a DEF Ord!Merged, Ord!Order, Ord!Call
    <3>2. r.session \/ r.read.session => Ord!Merged(r).session
      BY DEF Ord!Merged
    <3> QED BY <3>1, <3>2, <2>2 DEF Ord!Merged, Ord!Order
  <2>4. handled' \subseteq sent' /\ orderCrossed' \in BOOLEAN /\ checkout' \in {"none", "created", "open", "failed", "done"}
    BY <2>1, <2>2, <1>a
  <2>5. orderCall' \in [Calls -> Ord!Call] /\ OrdNoHistory' /\ (\A d \in Calls : OrdSound(orderCall'[d], sent')) /\ OrdUncrossed'
    BY <2>1, <2>2, <2>3, <1>a, OrdGoesOn
  <2>6. Ord!RefundIsFinal'
    <3> SUFFICES ASSUME ~ orderCrossed' PROVE /\ "refunded" \in handled' => order'.status = "refunded"
                                              /\ checkout' = "done" => order'.session
      BY DEF Ord!RefundIsFinal
    <3>1. ~ orderCrossed /\ order = r.read
      BY <2>2, <1>a
    <3>2. r.status # None => (order.status = "refunded" => r.status = "refunded")
      BY <3>1, <2>1, <1>a DEF OrdUncrossed, OrdDecided, OrdUpdating
    <3>3. ("refunded" \in handled => order.status = "refunded") /\ (checkout = "done" => order.session)
      BY <3>1, <1>a DEF Ord!RefundIsFinal
    <3>4. "refunded" \in handled' => "refunded" \in handled \/ r.status = "refunded"
      BY <2>2
    <3>5. "refunded" # None
      BY <1>a DEF Ord!Statuses, Ord!Reports
    <3>6. "refunded" \in handled' => order'.status = "refunded"
      BY <3>1, <3>2, <3>3, <3>4, <3>5, <2>3
    <3>7. checkout' = "done" => r.session \/ r.read.session
      BY <3>1, <3>3, <2>2
    <3> QED BY <3>6, <3>7, <2>3
  <2> QED BY <2>2, <2>3, <2>4, <2>5, <2>6, <1>a, <1>q
<1>3. CASE Ord!CreateOrder
  <2>1. order = None /\ order' = [status |-> "pending", session |-> FALSE] /\ checkout' = "created"
        /\ UNCHANGED <<charge, sent, orderCall, handled, orderCrossed, events, orderEdits>>
    BY <1>3 DEF Ord!CreateOrder
  <2>2. order' \in Ord!Order /\ order' # None
    <3>1. [status |-> "pending", session |-> FALSE] \in Ord!Order
      BY DEF Ord!Order, Ord!Statuses
    <3> QED BY <2>1, <3>1, <1>a
  <2>3. Ord!RefundIsFinal'
    BY <2>1, <1>a DEF Ord!RefundIsFinal, OrdNoHistory
  <2>4. OrdNoHistory' /\ OrdUncrossed' /\ \A c \in Calls : OrdSound(orderCall'[c], sent')
    BY <2>1, <2>2, <1>a DEF OrdNoHistory, OrdUncrossed
  <2> QED BY <2>1, <2>2, <2>3, <2>4, <1>a, <1>q
<1>4. ASSUME NEW c \in Calls, Ord!OpenSession(c) PROVE OrdIInv'
  <2> DEFINE e == [Ord!Idle EXCEPT !.step = "update", !.session = TRUE]
  <2>1. UNCHANGED <<order, sent, handled, orderCrossed, events, orderEdits>> /\ checkout = "created" /\ order \in Ord!Order
    BY <1>4, <1>a DEF Ord!OpenSession, OrdNoHistory
  <2>2. CASE charge' = "open" /\ checkout' = "open" /\ Ord!Becomes(c, e)
    <3>1. e \in Ord!Call /\ OrdSound(e, sent) /\ OrdDecided(e)
      BY DEF Ord!OrdersAssumption, Ord!Idle, Ord!Call, OrdSound, OrdDecided, Ord!Reports, Ord!Statuses
    <3>2. orderCall' \in [Calls -> Ord!Call] /\ OrdNoHistory' /\ (\A d \in Calls : OrdSound(orderCall'[d], sent')) /\ OrdUncrossed'
      BY <2>1, <2>2, <3>1, <1>a, OrdGoesOn
    <3>3. Ord!RefundIsFinal'
      BY <2>1, <2>2, <1>a DEF Ord!RefundIsFinal
    <3> QED BY <2>1, <2>2, <3>2, <3>3, <1>a, <1>q
  <2>3. CASE checkout' = "failed" /\ UNCHANGED <<charge, orderCall>>
    <3>1. OrdNoHistory' /\ (\A d \in Calls : OrdSound(orderCall'[d], sent')) /\ OrdUncrossed' /\ Ord!RefundIsFinal'
      BY <2>1, <2>3, <1>a DEF OrdNoHistory, OrdUncrossed, Ord!RefundIsFinal
    <3> QED BY <2>1, <2>3, <3>1, <1>a, <1>q
  <2> QED BY <1>4, <2>2, <2>3 DEF Ord!OpenSession
<1>5. CASE Ord!Report
  <2>1. PICK s \in Ord!Leads[charge] : charge' = s /\ sent' = sent \union {s}
    BY <1>5 DEF Ord!Report
  <2>2. UNCHANGED <<order, orderCall, checkout, handled, orderCrossed, events, orderEdits>> /\ charge # "none"
    BY <1>5, <1>a DEF Ord!Report, Ord!Leads
  <2>3. s \in Ord!Reports /\ s \in DOMAIN Ord!Leads
    BY <2>1, <1>a DEF Ord!Leads, Ord!Reports
  <2>4. OrdNoHistory' /\ (\A d \in Calls : OrdSound(orderCall'[d], sent')) /\ OrdUncrossed' /\ Ord!RefundIsFinal'
    BY <2>1, <2>2, <1>a DEF OrdNoHistory, OrdSound, OrdUncrossed, Ord!RefundIsFinal
  <2> QED BY <2>1, <2>2, <2>3, <2>4, <1>a, <1>q
<1>6. ASSUME NEW c \in Calls, Ord!WebhookLook(c) PROVE OrdIInv'
  <2>1. /\ UNCHANGED <<order, charge, sent, checkout, orderCrossed, orderEdits>> /\ order \in Ord!Order
        /\ events' \in 0..MaxEvents
    BY <1>6, <1>a DEF Ord!WebhookLook, Ord!OrdersAssumption
  <2>2. PICK next \in sent :
          IF Ord!Moves(order.status, next)
          THEN Ord!Becomes(c, [Ord!Idle EXCEPT !.step = "update", !.status = next, !.read = order]) /\ UNCHANGED handled
          ELSE handled' = handled \union {next} /\ UNCHANGED orderCall
    BY <1>6 DEF Ord!WebhookLook
  <2>3. CASE Ord!Moves(order.status, next)
    <3> DEFINE e == [Ord!Idle EXCEPT !.step = "update", !.status = next, !.read = order]
    <3>1. e \in Ord!Call /\ OrdSound(e, sent)
      BY <2>1, <1>a DEF Ord!Idle, Ord!Call, OrdSound, Ord!Reports, Ord!Statuses
    <3>2. OrdDecided(e)
      BY <2>1, <2>3 DEF OrdDecided, Ord!Moves, Ord!Idle
    <3>3. orderCall' \in [Calls -> Ord!Call] /\ OrdNoHistory' /\ (\A d \in Calls : OrdSound(orderCall'[d], sent')) /\ OrdUncrossed'
      BY <2>1, <2>2, <2>3, <3>1, <3>2, <1>a, OrdGoesOn
    <3>4. Ord!RefundIsFinal'
      BY <2>1, <2>2, <2>3, <1>a DEF Ord!RefundIsFinal
    <3> QED BY <2>1, <2>2, <2>3, <3>3, <3>4, <1>a, <1>q
  <2>4. CASE ~ Ord!Moves(order.status, next)
    <3>1. next = "refunded" => order.status = "refunded"
      BY <2>4 DEF Ord!Moves
    <3>2. Ord!RefundIsFinal'
      BY <2>1, <2>2, <2>4, <3>1, <1>a DEF Ord!RefundIsFinal
    <3>3. OrdNoHistory' /\ (\A d \in Calls : OrdSound(orderCall'[d], sent')) /\ OrdUncrossed'
      BY <2>1, <2>2, <2>4, <1>a DEF OrdNoHistory, OrdUncrossed
    <3> QED BY <2>1, <2>2, <2>4, <3>2, <3>3, <1>a, <1>q
  <2> QED BY <2>3, <2>4
<1>7. ASSUME NEW c \in Calls, Ord!StaffEdits(c) PROVE OrdIInv'
  <2>1. /\ UNCHANGED <<order, charge, sent, checkout, handled, orderCrossed, events>> /\ order \in Ord!Order
        /\ orderEdits' \in 0..MaxEdits
    BY <1>7, <1>a DEF Ord!StaffEdits, Ord!OrdersAssumption
  <2>2. PICK s \in {"fulfilled", "cancelled"} :
          /\ order.status # "refunded"
          /\ Ord!Becomes(c, [Ord!Idle EXCEPT !.step = "read", !.status = s, !.read = order])
    BY <1>7 DEF Ord!StaffEdits
  <2> DEFINE e == [Ord!Idle EXCEPT !.step = "read", !.status = s, !.read = order]
  <2>3. e \in Ord!Call /\ OrdSound(e, sent) /\ OrdDecided(e)
    BY <2>1, <2>2 DEF Ord!Idle, Ord!Call, OrdSound, Ord!Reports, Ord!Statuses, OrdDecided
  <2>4. orderCall' \in [Calls -> Ord!Call] /\ OrdNoHistory' /\ (\A d \in Calls : OrdSound(orderCall'[d], sent')) /\ OrdUncrossed'
    BY <2>1, <2>2, <2>3, <1>a, OrdGoesOn
  <2>5. Ord!RefundIsFinal'
    BY <2>1, <1>a DEF Ord!RefundIsFinal
  <2> QED BY <2>1, <2>4, <2>5, <1>a, <1>q
<1>8. CASE UNCHANGED Ord!vars
  BY <1>8, <1>a, <1>q DEF Ord!vars, OrdNoHistory, OrdUncrossed, Ord!RefundIsFinal
<1> QED BY <1>1, <1>2, <1>3, <1>4, <1>5, <1>6, <1>7, <1>8 DEF Ord!Next

(* Whatever the services do, Orders takes a step of its own or none.       *)
LEMMA OrdRuns == (Init => Ord!Init) /\ ([Next]_vars => [Ord!Next]_Ord!vars)
<1>1. Init => Ord!Init
  BY DEF Init
<1>2. [Next]_vars => [Ord!Next]_Ord!vars
  BY DEF Next, vars, orders, Ord!vars
<1> QED BY <1>1, <1>2

LEMMA OrdAlways == Spec => []OrdIInv
<1>1. Ord!OrdersAssumption
  BY ServicesAssumption DEF ServicesAssumption
<1>2. Init => OrdIInv
  BY <1>1, OrdRuns, OrdInitIInv
<1>3. OrdIInv /\ [Next]_vars => OrdIInv'
  BY <1>1, OrdRuns, OrdStepIInv
<1> QED BY <1>2, <1>3, PTL DEF Spec

(* However often events are repeated, and however late they are delivered, *)
(* an order whose refund was handled is refunded, unless updates crossed.  *)
(* It needs that what a call is to write was decided on the row it writes  *)
(* over.                                                                   *)
THEOREM RefundsStay == Spec => []RefundIsFinal
<1>1. OrdIInv => RefundIsFinal
  BY DEF OrdIInv, RefundIsFinal
<1> QED BY OrdAlways, <1>1, PTL

-----------------------------------------------------------------------------
(* The value of a conjunction and of a disjunction of clauses.             *)
LEMMA FilAndTrue == \A s : s \subseteq {"true", "false", "null"} => (Fil!And(s) = "true" <=> s \subseteq {"true"})
BY DEF Fil!And

LEMMA FilOrTrue == \A s : Fil!Or(s) = "true" <=> "true" \in s
BY DEF Fil!Or

LEMMA FilTruths ==
  /\ \A b \in BOOLEAN : Fil!Truth(b) \in {"true", "false"} /\ (Fil!Truth(b) = "true" <=> b)
  /\ \A v, o : \A b \in BOOLEAN : /\ Fil!Compared(v, o, b) \in {"true", "false", "null"}
                                  /\ Fil!Compared(v, o, b) = "true" <=> (b /\ v # None /\ o # None)
                                  /\ v # None /\ o # None => Fil!Compared(v, o, b) = Fil!Truth(b)
BY DEF Fil!Truth, Fil!Compared

LEMMA FilAndOrValues == \A s : s \subseteq {"true", "false", "null"} => Fil!And(s) \in {"true", "false", "null"} /\ Fil!Or(s) \in {"true", "false", "null"}
BY DEF Fil!And, Fil!Or

(* The list of an in: a member is found if it is not NULL.                 *)
LEMMA FilInTrue ==
  ASSUME NEW v, NEW o
  PROVE  /\ Fil!In(v, o) \in {"true", "false", "null"}
         /\ Fil!In(v, o) = "true" => v \in o
         /\ Fil!In(v, o) = "false" => v \notin o
         /\ v # None /\ None \notin o => (Fil!In(v, o) = "true" <=> v \in o) /\ Fil!In(v, o) # "null"
<1> DEFINE s == {Fil!Compared(v, x, v = x) : x \in o}
<1>0. \A x : Fil!Compared(v, x, v = x) = IF v = None \/ x = None THEN "null" ELSE IF v = x THEN "true" ELSE "false"
  BY DEF Fil!Compared, Fil!Truth
<1>1. s \subseteq {"true", "false", "null"}
  BY <1>0
<1>2. CASE o = {}
  BY <1>2 DEF Fil!In
<1>3. CASE o # {}
  <2>1. Fil!In(v, o) = Fil!Or(s)
    BY <1>3 DEF Fil!In
  <2>2. Fil!Or(s) \in {"true", "false", "null"}
    BY <1>1, FilAndOrValues
  <2>3. Fil!Or(s) = "true" => v \in o
    <3> SUFFICES ASSUME "true" \in s PROVE v \in o
      BY FilOrTrue
    <3>1. PICK x \in o : Fil!Compared(v, x, v = x) = "true"
      OBVIOUS
    <3> QED BY <3>1, <1>0
  <2>4. /\ v \in o /\ v # None => Fil!Or(s) = "true"
        /\ v \in o /\ v = None => Fil!Or(s) # "false"
    <3>1. v \in o => Fil!Compared(v, v, v = v) \in s
      OBVIOUS
    <3>2. Fil!Compared(v, v, v = v) = IF v = None THEN "null" ELSE "true"
      BY <1>0
    <3> QED BY <3>1, <3>2 DEF Fil!Or
  <2>5. v # None /\ None \notin o => "null" \notin s
    BY <1>0
  <2>6. "null" \notin s => Fil!Or(s) # "null"
    BY DEF Fil!Or
  <2> QED BY <2>1, <2>2, <2>3, <2>4, <2>5, <2>6
<1> QED BY <1>2, <1>3

(* A clause that is true of a row is true of it in memory as well; the two *)
(* are the same where no NULL is compared.                                 *)
LEMMA FilFieldClauseTrue ==
  ASSUME Fil!FiltersAssumption, NEW c \in Fil!Conditions, NEW r \in Fil!Rows
  PROVE  /\ Fil!FieldClause(c, r) \in {"true", "false", "null"}
         /\ Fil!FieldClause(c, r) = "true" => Fil!MatchesCondition(c, r)
         /\ \/ c.op \in {"equals", "not_equals", "exists"}
            \/ /\ r[c.field] # None
               /\ IF c.op \in {"in", "not_in"} THEN None \notin c.operand ELSE c.operand # None
            => (Fil!FieldClause(c, r) = "true" <=> Fil!MatchesCondition(c, r))
<1> DEFINE v == r[c.field]
           o == c.operand
<1>0. v \in Constants \union {None} /\ c.field \in Fields
  BY DEF Fil!Conditions, Fil!Rows, Fil!Operands
<1>c. \A b : Fil!Compared(v, o, b) = IF v = None \/ o = None THEN "null" ELSE IF b THEN "true" ELSE "false"
  BY DEF Fil!Compared, Fil!Truth
<1>t. \A b : Fil!Truth(b) = IF b THEN "true" ELSE "false"
  BY DEF Fil!Truth
<1>1. CASE c.op = "equals"
  BY <1>1, <1>c, <1>t DEF Fil!FieldClause, Fil!MatchesCondition
<1>2. CASE c.op = "not_equals"
  BY <1>2, <1>c, <1>t DEF Fil!FieldClause, Fil!MatchesCondition, Fil!Or
<1>3. CASE c.op = "in"
  <2>1. Fil!FieldClause(c, r) = Fil!In(v, o) /\ (Fil!MatchesCondition(c, r) <=> v \in o)
    BY <1>3 DEF Fil!FieldClause, Fil!MatchesCondition
  <2>2. /\ Fil!In(v, o) \in {"true", "false", "null"}
        /\ Fil!In(v, o) = "true" => v \in o
        /\ v # None /\ None \notin o => (Fil!In(v, o) = "true" <=> v \in o)
    BY FilInTrue
  <2> QED BY <1>3, <2>1, <2>2
<1>4. CASE c.op = "not_in"
  <2>1. Fil!FieldClause(c, r) = Fil!Not(Fil!In(v, o)) /\ (Fil!MatchesCondition(c, r) <=> v \notin o)
    BY <1>4 DEF Fil!FieldClause, Fil!MatchesCondition
  <2>2. /\ Fil!Not(Fil!In(v, o)) \in {"true", "false", "null"}
        /\ Fil!Not(Fil!In(v, o)) = "true" => v \notin o
        /\ v # None /\ None \notin o => (Fil!Not(Fil!In(v, o)) = "true" <=> v \notin o)
    BY FilInTrue DEF Fil!Not
  <2> QED BY <1>4, <2>1, <2>2
<1>5. CASE c.op = "greater_than"
  BY <1>5, <1>c DEF Fil!FieldClause, Fil!MatchesCondition
<1>6. CASE c.op = "greater_than_equal"
  BY <1>6, <1>c DEF Fil!FieldClause, Fil!MatchesCondition
<1>7. CASE c.op = "less_than"
  BY <1>7, <1>c DEF Fil!FieldClause, Fil!MatchesCondition
<1>8. CASE c.op = "less_than_equal"
  BY <1>8, <1>c DEF Fil!FieldClause, Fil!MatchesCondition
<1>9. CASE c.op = "like"
  BY <1>9, <1>c DEF Fil!FieldClause, Fil!MatchesCondition
<1>10. CASE c.op = "exists"
  BY <1>10, <1>t DEF Fil!FieldClause, Fil!MatchesCondition
<1> QED
  BY <1>1, <1>2, <1>3, <1>4, <1>5, <1>6, <1>7, <1>8, <1>9, <1>10 DEF Fil!Conditions

(* What the filter's clause says of a row, and what the two say of a set   *)
(* of conditions.                                                          *)
FilNullFreeCondition(c, r) ==
  \/ c.op \in {"equals", "not_equals", "exists"}
  \/ /\ r[c.field] # None
     /\ IF c.op \in {"in", "not_in"} THEN None \notin c.operand ELSE c.operand # None

LEMMA FilClauseTrue ==
  ASSUME Fil!FiltersAssumption, NEW conditions \in SUBSET Fil!Conditions, NEW r \in Fil!Rows
  PROVE  /\ Fil!Clause(conditions, r) \in {"true", "false", "null"}
         /\ Fil!Clause(conditions, r) = "true" <=> \A c \in conditions : Fil!FieldClause(c, r) = "true"
         /\ Fil!Clause(conditions, r) = "true" => Fil!MatchesAll(conditions, r)
         /\ (\A c \in conditions : FilNullFreeCondition(c, r)) =>
              (Fil!Clause(conditions, r) = "true" <=> Fil!MatchesAll(conditions, r))
<1> DEFINE s == {Fil!FieldClause(c, r) : c \in conditions}
<1>1. s \subseteq {"true", "false", "null"}
  BY FilFieldClauseTrue
<1>2. Fil!Clause(conditions, r) \in {"true", "false", "null"} /\ (Fil!Clause(conditions, r) = "true" <=> s \subseteq {"true"})
  BY <1>1, FilAndTrue, FilAndOrValues DEF Fil!Clause
<1>3. s \subseteq {"true"} <=> \A c \in conditions : Fil!FieldClause(c, r) = "true"
  OBVIOUS
<1>4. \A c \in conditions : Fil!FieldClause(c, r) = "true" => Fil!MatchesCondition(c, r)
  BY FilFieldClauseTrue
<1>5. \A c \in conditions : FilNullFreeCondition(c, r) => (Fil!FieldClause(c, r) = "true" <=> Fil!MatchesCondition(c, r))
  BY FilFieldClauseTrue DEF FilNullFreeCondition
<1> QED BY <1>2, <1>3, <1>4, <1>5 DEF Fil!MatchesAll

LEMMA FilEmptyClause == ASSUME NEW r PROVE Fil!Clause({}, r) = "true" /\ Fil!MatchesAll({}, r)
BY DEF Fil!Clause, Fil!MatchesAll, Fil!And

(* A filter as a whole.  An empty alternative of an or is left out of the  *)
(* clause, and so is an or that has no other: in memory it is satisfied.   *)
LEMMA FilSelectsMatches ==
  ASSUME Fil!FiltersAssumption, NEW w \in Fil!Filter, NEW r \in Fil!Rows
  PROVE  /\ Fil!Selects(w, r) => Fil!Matches(w, r)
         /\ Fil!NullFree(w, r) => (Fil!Selects(w, r) <=> Fil!Matches(w, r))
<1>0. /\ \A f \in Fil!Flat : f \in SUBSET Fil!Conditions
      /\ w.all \in Fil!Flat /\ w.and \subseteq Fil!Flat /\ (w.or = None \/ w.or \subseteq Fil!Flat)
  <2>1. \A f \in Fil!Flat : f \in SUBSET Fil!Conditions
    BY DEF Fil!Flat
  <2> QED BY <2>1 DEF Fil!Filter
<1>1. \A f \in Fil!Flat : /\ Fil!Clause(f, r) \in {"true", "false", "null"}
                          /\ Fil!Clause(f, r) = "true" => Fil!MatchesAll(f, r)
                          /\ (\A c \in f : FilNullFreeCondition(c, r)) => (Fil!Clause(f, r) = "true" <=> Fil!MatchesAll(f, r))
  BY <1>0, FilClauseTrue
<1> DEFINE B == {Fil!Clause(f, r) : f \in w.and}
           C == {Fil!Clause(f, r) : f \in w.or \ {{}}}
<1>2. /\ Fil!And(B) \in {"true", "false", "null"}
      /\ Fil!And(B) = "true" <=> \A f \in w.and : Fil!Clause(f, r) = "true"
  <2>1. B \subseteq {"true", "false", "null"}
    BY <1>0, <1>1
  <2>2. Fil!And(B) = "true" <=> B \subseteq {"true"}
    BY <2>1, FilAndTrue
  <2> QED BY <2>1, <2>2, FilAndOrValues
<1>3. ASSUME w.or # None, w.or # {}, w.or # {{}}
      PROVE  /\ Fil!OrClause(w.or, r) \in {"true", "false", "null"}
             /\ Fil!OrClause(w.or, r) = "true" <=> \E f \in w.or \ {{}} : Fil!Clause(f, r) = "true"
  <2>1. C \subseteq {"true", "false", "null"}
    BY <1>0, <1>1, <1>3
  <2>2. Fil!OrClause(w.or, r) = Fil!Or(C)
    BY <1>3 DEF Fil!OrClause
  <2>3. Fil!Or(C) = "true" <=> "true" \in C
    BY FilOrTrue
  <2> QED BY <2>1, <2>2, <2>3, FilAndOrValues
<1>4. Fil!OrClause(w.or, r) \in {"true", "false", "null"}
  BY <1>3 DEF Fil!OrClause
<1>5. Fil!Selects(w, r) <=> Fil!Clause(w.all, r) = "true" /\ Fil!And(B) = "true" /\ Fil!OrClause(w.or, r) = "true"
  <2>1. {Fil!Clause(w.all, r), Fil!And(B), Fil!OrClause(w.or, r)} \subseteq {"true", "false", "null"}
    BY <1>0, <1>1, <1>2, <1>4
  <2>2. Fil!And({Fil!Clause(w.all, r), Fil!And(B), Fil!OrClause(w.or, r)}) = "true"
          <=> {Fil!Clause(w.all, r), Fil!And(B), Fil!OrClause(w.or, r)} \subseteq {"true"}
    BY <2>1, FilAndTrue
  <2> QED BY <2>2 DEF Fil!Selects
<1>6. Fil!Matches(w, r) <=> /\ Fil!MatchesAll(w.all, r) /\ \A f \in w.and : Fil!MatchesAll(f, r)
                            /\ w.or # None => \E f \in w.or : Fil!MatchesAll(f, r)
  BY DEF Fil!Matches
<1>7. Fil!OrClause(w.or, r) = "true" => (w.or # None => \E f \in w.or : Fil!MatchesAll(f, r))
  <2>1. CASE w.or = {}
    BY <2>1 DEF Fil!OrClause
  <2>2. CASE w.or = {{}}
    BY <2>2, FilEmptyClause
  <2>3. CASE w.or # {} /\ w.or # {{}}
    BY <2>3, <1>0, <1>1, <1>3
  <2> QED BY <2>1, <2>2, <2>3
<1>8. Fil!Selects(w, r) => Fil!Matches(w, r)
  BY <1>0, <1>1, <1>2, <1>5, <1>6, <1>7
<1>9. ASSUME Fil!NullFree(w, r) PROVE Fil!Matches(w, r) => Fil!Selects(w, r)
  <2>1. \A f \in {w.all} \union w.and \union (IF w.or = None THEN {} ELSE w.or) : \A c \in f : FilNullFreeCondition(c, r)
    <3>1. \A c \in Fil!ConditionsIn(w) : FilNullFreeCondition(c, r)
      BY <1>9 DEF Fil!NullFree, FilNullFreeCondition
    <3>2. PICK alternatives : alternatives = IF w.or = None THEN {} ELSE w.or
      OBVIOUS
    <3>3. Fil!ConditionsIn(w) = w.all \union (UNION w.and) \union (UNION alternatives)
      BY <3>2 DEF Fil!ConditionsIn
    <3>4. \A f \in {w.all} \union w.and \union alternatives : \A c \in f : c \in Fil!ConditionsIn(w)
      BY <3>3
    <3> QED BY <3>1, <3>2, <3>4
  <2>2. \A f \in {w.all} \union w.and \union (IF w.or = None THEN {} ELSE w.or) :
          Fil!MatchesAll(f, r) => Fil!Clause(f, r) = "true"
    BY <1>0, <1>1, <2>1
  <2>3. (w.or # None => \E f \in w.or : Fil!MatchesAll(f, r)) => Fil!OrClause(w.or, r) = "true"
    <3>1. CASE w.or = None
      BY <3>1 DEF Fil!OrClause
    <3>2. CASE w.or # None
      <4>1. {} \notin w.or
        BY <1>9, <3>2 DEF Fil!NullFree
      <4> QED BY <3>2, <4>1, <2>2, <1>3
    <3> QED BY <3>1, <3>2
  <2> QED BY <1>2, <1>5, <1>6, <2>2, <2>3
<1> QED BY <1>8, <1>9

LEMMA FilInitTyped == Fil!Init => filtered \in Fil!Rows /\ where \in Fil!Filter
<1> SUFFICES ASSUME NEW w \in Fil!Filters PROVE w \in Fil!Filter
  BY DEF Fil!Init
<1>1. \A c \in Fil!Conditions : {c} \in Fil!Flat
  BY DEF Fil!Flat
<1>2. {} \in Fil!Flat
  BY DEF Fil!Flat
<1>3. ASSUME NEW f \in Fil!Flat, NEW s \in SUBSET Fil!Flat, NEW t \in (SUBSET Fil!Flat) \union {None}
      PROVE  [all |-> f, and |-> s, or |-> t] \in Fil!Filter
  BY DEF Fil!Filter
<1>4. CASE \E c \in Fil!Conditions : w = [all |-> {c}, and |-> {}, or |-> None]
  BY <1>1, <1>3, <1>4
<1>5. CASE \E a, b \in Fil!Flat : w = [all |-> {}, and |-> {a, b}, or |-> None]
  BY <1>2, <1>3, <1>5
<1>6. CASE \E a, b \in Fil!Flat : w = [all |-> {}, and |-> {}, or |-> {a, b}]
  BY <1>2, <1>3, <1>6
<1>7. CASE \E f \in Fil!Flat : w = [all |-> f, and |-> {}, or |-> {}]
  BY <1>3, <1>7
<1> QED BY <1>4, <1>5, <1>6, <1>7 DEF Fil!Filters

LEMMA FilStepTyped == filtered \in Fil!Rows /\ where \in Fil!Filter /\ [Fil!Next]_Fil!vars => filtered' \in Fil!Rows /\ where' \in Fil!Filter
BY DEF Fil!Next, Fil!Edit, Fil!vars, Fil!Rows

(* The row and the filter keep their types while they are explored.        *)
LEMMA FilAlways == Spec => [](focus = "filters" => Fil!TypeOK)
<1>1. Init => (focus = "filters" => Fil!TypeOK)
  BY FilInitTyped DEF Init, Fil!TypeOK
<1>2. (focus = "filters" => Fil!TypeOK) /\ [Next]_vars => (focus = "filters" => Fil!TypeOK)'
  BY FilStepTyped DEF Next, vars, filters, Fil!vars, Fil!TypeOK
<1> QED
  BY <1>1, <1>2, PTL DEF Spec

(* What find() lists under a filter, the same filter as a scope lets its   *)
(* caller open; and where no NULL is compared, and no or has an empty      *)
(* alternative, it lets it open nothing else.                              *)
THEOREM FiltersDecideAlike == Spec => []FiltersAgree
<1>1. Fil!FiltersAssumption
  BY ServicesAssumption DEF ServicesAssumption
<1>2. Fil!TypeOK => Fil!FiltersAgree
  BY <1>1, FilSelectsMatches DEF Fil!TypeOK, Fil!FiltersAgree, Fil!ListedIsAllowed, Fil!AgreesWithoutNull
<1> QED
  BY <1>2, FilAlways, PTL DEF FiltersAgree

-----------------------------------------------------------------------------
MigWork == [step: {"idle", "record", "drop", "consume"}, entries: SUBSET Mig!Entry]

MigTyped ==
  /\ db \subseteq Mig!Object /\ journal \subseteq Mig!Entry /\ unrecorded \subseteq Mig!Object
  /\ schemaCall \in [Calls -> MigWork] /\ runs \in 0..MaxRuns /\ faults \in 0..MaxFaults

(* No entry is of what the database held before the first migration.       *)
MigApart(e) == Mig!AddedBy(e) \intersect Base = {}
MigHeld(c) == schemaCall[c].entries
MigBaseStays == /\ Base \subseteq db
                /\ \A e \in journal : MigApart(e)
                /\ \A c \in Calls : \A e \in MigHeld(c) : MigApart(e)

(* An entry that is still to be recorded is new: none like it is in the    *)
(* journal, or about to be deleted from it.                                *)
MigRecording(c) == schemaCall[c].step = "record"
MigNumbered == /\ \A e \in journal : e.n <= runs
               /\ \A c \in Calls : \A e \in MigHeld(c) : e.n <= runs
MigNew == \A c \in Calls : MigRecording(c) => \A e \in MigHeld(c) :
         /\ \A f \in journal : f.n # e.n
         /\ \A d \in Calls \ {c} : \A f \in MigHeld(d) : f.n # e.n

(* An entry whose objects were dropped, and whose row is about to go, does *)
(* not account for objects that have come back since.                      *)
MigLeaving(e) == \E c \in Calls : schemaCall[c].step = "consume" /\ e \in MigHeld(c)
MigAccounted(o) ==
  \/ o.table \in System
  \/ \E e \in journal : o \in Mig!AddedBy(e) /\ ~ MigLeaving(e)
  \/ \E c \in Calls : MigRecording(c) /\ o \in Mig!InHand(c)
  \/ o \in unrecorded
MigAccounts == \A o \in db \ Base : MigAccounted(o)

MigIInv == MigTyped /\ MigBaseStays /\ MigNumbered /\ MigNew /\ MigAccounts

LEMMA MigInitIInv == ASSUME Mig!MigrationsAssumption, Mig!Init PROVE MigIInv
<1>1. MigTyped
  BY DEF Mig!MigrationsAssumption, Mig!Init, MigTyped, MigWork, Mig!Idle
<1>2. MigBaseStays /\ MigNumbered /\ MigNew /\ MigAccounts
  BY DEF Mig!Init, MigBaseStays, MigNumbered, MigNew, MigAccounts, MigHeld, MigRecording, Mig!Idle
<1> QED BY <1>1, <1>2 DEF MigIInv

(* Drops takes what a table that is not the system's was recorded for.     *)
LEMMA MigDropsAdded ==
  ASSUME NEW e \in Mig!Entry, NEW o \in Mig!AddedBy(e), o.table \notin System
  PROVE  o \in Mig!Drops(e)
BY DEF Mig!AddedBy, Mig!Drops, Mig!DropsColumns, Mig!ColumnsOf, Mig!Entry

LEMMA MigDropsNoMore == ASSUME NEW e \in Mig!Entry PROVE Mig!Drops(e) \subseteq Mig!AddedBy(e)
BY DEF Mig!AddedBy, Mig!Drops, Mig!DropsColumns, Mig!ColumnsOf, Mig!Entry

LEMMA MigBecoming ==
  ASSUME schemaCall \in [Calls -> MigWork], NEW c \in Calls, NEW step \in {"idle", "record", "drop", "consume"},
         NEW entries \in SUBSET Mig!Entry, Mig!Becomes(c, step, entries)
  PROVE  /\ schemaCall' \in [Calls -> MigWork]
         /\ schemaCall'[c].step = step /\ schemaCall'[c].entries = entries
         /\ \A d \in Calls \ {c} : schemaCall'[d] = schemaCall[d]
<1>1. [step |-> step, entries |-> entries] \in MigWork
  BY DEF MigWork
<1> QED BY <1>1 DEF Mig!Becomes

(* A call ends, or reads entries to roll back, or drops nothing.           *)
LEMMA MigCallOnly ==
  ASSUME MigIInv, NEW c \in Calls, NEW step \in {"idle", "drop"}, NEW entries \in SUBSET Mig!Entry, Mig!Becomes(c, step, entries),
         entries \subseteq journal \union MigHeld(c), entries # {} => ~ MigRecording(c),
         UNCHANGED <<db, journal>>, unrecorded \subseteq unrecorded', unrecorded' \subseteq Mig!Object,
         MigRecording(c) => Mig!InHand(c) \subseteq unrecorded',
         runs' \in 0..MaxRuns, runs' >= runs, faults' \in 0..MaxFaults
  PROVE  MigIInv'
<1>a. schemaCall \in [Calls -> MigWork] /\ MigTyped /\ Base \subseteq db
  BY DEF MigIInv, MigTyped, MigBaseStays
<1>1. /\ schemaCall' \in [Calls -> MigWork] /\ schemaCall'[c].step = step /\ schemaCall'[c].entries = entries
      /\ \A d \in Calls \ {c} : schemaCall'[d] = schemaCall[d]
  BY <1>a, MigBecoming
<1>2. MigTyped'
  BY <1>1 DEF MigIInv, MigTyped
<1>3. MigBaseStays'
  BY <1>1 DEF MigIInv, MigBaseStays, MigHeld
<1>4. MigNumbered'
  <2>1. runs \in Nat /\ runs' \in Nat /\ \A e \in Mig!Entry : e.n \in Nat
    BY <1>a DEF MigTyped, Mig!Entry
  <2>2. journal \subseteq Mig!Entry /\ \A d \in Calls : MigHeld(d) \subseteq Mig!Entry /\ MigHeld(d)' \subseteq Mig!Entry
    BY <1>a, <1>1 DEF MigTyped, MigHeld, MigWork
  <2>3. \A d \in Calls : \A e \in MigHeld(d)' : e.n <= runs
    BY <1>1 DEF MigIInv, MigNumbered, MigHeld
  <2> QED BY <2>1, <2>2, <2>3 DEF MigIInv, MigNumbered
<1>5. MigNew'
  BY <1>1 DEF MigIInv, MigNew, MigHeld, MigRecording
<1>6. MigAccounts'
  <2> SUFFICES ASSUME NEW o \in db \ Base, o.table \notin System, o \notin unrecorded' PROVE MigAccounted(o)'
    BY DEF MigAccounts, MigAccounted
  <2>1. MigAccounted(o) /\ o \notin unrecorded
    BY DEF MigIInv, MigAccounts
  <2>2. ASSUME NEW e \in journal, ~ MigLeaving(e) PROVE ~ MigLeaving(e)'
    BY <1>1, <2>2 DEF MigLeaving, MigHeld
  <2>3. ASSUME NEW d \in Calls, MigRecording(d), o \in Mig!InHand(d) PROVE d # c /\ MigRecording(d)' /\ o \in Mig!InHand(d)'
    BY <1>1, <2>3 DEF MigRecording, Mig!InHand
  <2> QED BY <2>1, <2>2, <2>3 DEF MigAccounted
<1> QED BY <1>2, <1>3, <1>4, <1>5, <1>6 DEF MigIInv

LEMMA MigStepIInv == ASSUME Mig!MigrationsAssumption PROVE MigIInv /\ [Mig!Next]_Mig!vars => MigIInv'
<1> SUFFICES ASSUME MigIInv, [Mig!Next]_Mig!vars PROVE MigIInv'
  OBVIOUS
<1>a. /\ MigTyped /\ db \subseteq Mig!Object /\ journal \subseteq Mig!Entry /\ unrecorded \subseteq Mig!Object
      /\ schemaCall \in [Calls -> MigWork] /\ runs \in 0..MaxRuns /\ faults \in 0..MaxFaults
      /\ MaxRuns \in Nat /\ MaxFaults \in Nat
      /\ \A c \in Calls : MigHeld(c) \subseteq Mig!Entry
      /\ Base \subseteq db /\ MigBaseStays /\ MigNumbered /\ MigNew /\ MigAccounts
  BY DEF MigIInv, MigTyped, MigBaseStays, MigHeld, MigWork, Mig!MigrationsAssumption
<1>n. runs \in Nat /\ \A e \in Mig!Entry : e.n \in Nat
  BY <1>a DEF Mig!Entry
<1>1. ASSUME NEW c \in Calls, Mig!Migrate(c) PROVE MigIInv'
  <2>1. PICK config \in Mig!Configs :
          /\ db' = db \union config
          /\ Mig!Becomes(c, "record", {[n |-> runs + 1, created |-> Mig!Created(config), added |-> Mig!Added(config)]})
    BY <1>1 DEF Mig!Migrate
  <2> DEFINE entry == [n |-> runs + 1, created |-> Mig!Created(config), added |-> Mig!Added(config)]
  <2>2. /\ schemaCall[c].step = "idle" /\ runs < MaxRuns /\ runs' = runs + 1 /\ UNCHANGED <<journal, unrecorded, faults>>
    BY <1>1 DEF Mig!Migrate
  <2>3. config \subseteq Mig!Object
    BY DEF Mig!Configs
  <2>4. entry \in Mig!Entry /\ entry.n = runs + 1 /\ runs' \in 0..MaxRuns
    BY <2>2, <2>3, <1>a DEF Mig!Entry, Mig!Created, Mig!Added
  <2>5. config \ db \subseteq Mig!AddedBy(entry)
    BY <2>3 DEF Mig!AddedBy, Mig!ColumnsOf, Mig!Added
  <2>6. MigApart(entry)
    <3> SUFFICES ASSUME NEW o \in Mig!AddedBy(entry), o \in Base PROVE FALSE
      BY DEF MigApart
    <3>1. o \in db /\ Mig!Whole(o.table) \in db
      BY <1>a DEF Mig!MigrationsAssumption
    <3> QED BY <3>1 DEF Mig!AddedBy, Mig!ColumnsOf, Mig!Added, Mig!Created
  <2> HIDE DEF entry
  <2>7. /\ schemaCall' \in [Calls -> MigWork] /\ schemaCall'[c].step = "record" /\ schemaCall'[c].entries = {entry}
        /\ \A d \in Calls \ {c} : schemaCall'[d] = schemaCall[d]
    BY <2>1, <2>4, <1>a, MigBecoming DEF entry
  <2>8. MigTyped'
    BY <2>1, <2>2, <2>3, <2>4, <2>7, <1>a DEF MigTyped
  <2>9. MigBaseStays'
    BY <2>1, <2>2, <2>6, <2>7, <1>a DEF MigBaseStays, MigHeld
  <2>10. MigNumbered'
    <3>1. \A e \in journal : e.n <= runs + 1
      BY <1>a, <1>n DEF MigNumbered
    <3>2. \A d \in Calls \ {c} : \A e \in schemaCall[d].entries : e.n <= runs + 1
      BY <1>a, <1>n DEF MigNumbered, MigHeld
    <3>3. entry.n <= runs + 1
      BY <2>4, <1>n
    <3> QED BY <2>2, <2>7, <3>1, <3>2, <3>3 DEF MigNumbered, MigHeld
  <2>11. MigNew'
    <3>1. \A f \in journal : f.n # entry.n
      BY <2>4, <1>a, <1>n DEF MigNumbered
    <3>2. \A d \in Calls \ {c} : \A f \in schemaCall[d].entries : f.n # entry.n
      BY <2>4, <1>a, <1>n DEF MigNumbered, MigHeld
    <3> QED BY <2>2, <2>7, <3>1, <3>2, <1>a DEF MigNew, MigHeld, MigRecording
  <2>12. MigAccounts'
    <3> SUFFICES ASSUME NEW o \in db' \ Base, o.table \notin System PROVE MigAccounted(o)'
      BY DEF MigAccounts, MigAccounted
    <3>1. CASE o \notin db
      <4>1. o \in Mig!AddedBy(entry)
        BY <2>1, <2>5, <3>1
      <4>2. MigRecording(c)' /\ o \in Mig!InHand(c)'
        BY <2>7, <4>1 DEF MigRecording, Mig!InHand
      <4> QED BY <4>2 DEF MigAccounted
    <3>2. CASE o \in db
      <4>1. MigAccounted(o)
        BY <3>2, <1>a DEF MigAccounts
      <4>2. \A e \in journal : MigLeaving(e)' => MigLeaving(e)
        BY <2>7 DEF MigLeaving, MigHeld
      <4>3. \A d \in Calls : MigRecording(d) /\ o \in Mig!InHand(d) => MigRecording(d)' /\ o \in Mig!InHand(d)'
        BY <2>2, <2>7 DEF MigRecording, Mig!InHand
      <4> QED BY <2>2, <4>1, <4>2, <4>3 DEF MigAccounted
    <3> QED BY <3>1, <3>2
  <2> QED BY <2>8, <2>9, <2>10, <2>11, <2>12 DEF MigIInv
<1>2. ASSUME NEW c \in Calls, Mig!Record(c) PROVE MigIInv'
  <2>1. /\ schemaCall[c].step = "record" /\ journal' = journal \union MigHeld(c) /\ Mig!Becomes(c, "idle", {})
        /\ UNCHANGED <<db, unrecorded, runs, faults>>
    BY <1>2 DEF Mig!Record, MigHeld
  <2>2. /\ schemaCall' \in [Calls -> MigWork] /\ schemaCall'[c].step = "idle" /\ schemaCall'[c].entries = {}
        /\ \A d \in Calls \ {c} : schemaCall'[d] = schemaCall[d]
    BY <2>1, <1>a, MigBecoming
  <2>3. MigTyped'
    BY <2>1, <2>2, <1>a DEF MigTyped
  <2>4. MigBaseStays' /\ MigNumbered'
    BY <2>1, <2>2, <1>a DEF MigBaseStays, MigNumbered, MigHeld
  <2>5. MigNew'
    BY <2>1, <2>2, <1>a DEF MigNew, MigHeld, MigRecording
  <2>6. MigAccounts'
    <3> SUFFICES ASSUME NEW o \in db \ Base, o.table \notin System PROVE MigAccounted(o)'
      BY <2>1 DEF MigAccounts, MigAccounted
    <3>1. \A e \in journal : MigLeaving(e)' => MigLeaving(e)
      BY <2>1, <2>2 DEF MigLeaving, MigHeld
    <3>2. \A e \in MigHeld(c) : ~ MigLeaving(e)'
      <4> SUFFICES ASSUME NEW e \in MigHeld(c), NEW d \in Calls, schemaCall'[d].step = "consume", e \in schemaCall'[d].entries PROVE FALSE
        BY DEF MigLeaving, MigHeld
      <4>1. d # c /\ e \in MigHeld(d)
        BY <2>2 DEF MigHeld
      <4> QED BY <2>1, <4>1, <1>a DEF MigNew, MigRecording
    <3>3. MigAccounted(o)
      BY <1>a DEF MigAccounts
    <3>4. \A d \in Calls \ {c} : MigRecording(d) /\ o \in Mig!InHand(d) => MigRecording(d)' /\ o \in Mig!InHand(d)'
      BY <2>2 DEF MigRecording, Mig!InHand
    <3>5. CASE o \in Mig!InHand(c)
      BY <2>1, <3>2, <3>5 DEF Mig!InHand, MigHeld, MigAccounted
    <3> QED BY <2>1, <3>1, <3>3, <3>4, <3>5 DEF MigAccounted
  <2> QED BY <2>3, <2>4, <2>5, <2>6 DEF MigIInv
<1>3. ASSUME NEW c \in Calls, Mig!RecordFails(c) PROVE MigIInv'
  <2>1. /\ schemaCall[c].step = "record" /\ faults < MaxFaults /\ faults' = faults + 1
        /\ unrecorded' = unrecorded \union Mig!InHand(c) /\ Mig!Becomes(c, "idle", {}) /\ UNCHANGED <<db, journal, runs>>
    BY <1>3 DEF Mig!RecordFails
  <2>2. Mig!InHand(c) \subseteq Mig!Object
    BY <1>a DEF Mig!InHand, Mig!AddedBy, Mig!ColumnsOf, Mig!Entry, MigHeld
  <2>3. faults' \in 0..MaxFaults
    BY <2>1, <1>a
  <2> QED BY <2>1, <2>2, <2>3, <1>a, <1>n, MigCallOnly
<1>4. ASSUME NEW c \in Calls, Mig!RollbackBegin(c) PROVE MigIInv'
  <2>1. PICK k \in 1..2 : Mig!Becomes(c, "drop", Mig!Newest(k))
    BY <1>4 DEF Mig!RollbackBegin
  <2>2. /\ schemaCall[c].step = "idle" /\ runs < MaxRuns /\ runs' = runs + 1
        /\ UNCHANGED <<db, journal, unrecorded, faults>>
    BY <1>4 DEF Mig!RollbackBegin
  <2>3. Mig!Newest(k) \subseteq journal /\ runs' \in 0..MaxRuns /\ runs' >= runs
    BY <2>2, <1>a DEF Mig!Newest
  <2> QED BY <2>1, <2>2, <2>3, <1>a, MigCallOnly DEF MigRecording
<1>5. ASSUME NEW c \in Calls, Mig!Drop(c) PROVE MigIInv'
  <2>1. schemaCall[c].step = "drop" /\ UNCHANGED <<journal, unrecorded, runs, faults>>
    BY <1>5 DEF Mig!Drop
  <2>2. CASE Mig!Becomes(c, "idle", {}) /\ UNCHANGED db
    BY <2>1, <2>2, <1>a, <1>n, MigCallOnly DEF MigRecording
  <2>3. CASE Mig!Becomes(c, "consume", MigHeld(c)) /\ db' = db \ UNION {Mig!Drops(e) : e \in MigHeld(c)}
    <3>1. /\ schemaCall' \in [Calls -> MigWork] /\ schemaCall'[c].step = "consume" /\ schemaCall'[c].entries = MigHeld(c)
          /\ \A d \in Calls \ {c} : schemaCall'[d] = schemaCall[d]
      BY <2>3, <1>a, MigBecoming
    <3>2. MigTyped'
      BY <2>1, <2>3, <3>1, <1>a DEF MigTyped
    <3>3. \A e \in MigHeld(c) : Mig!Drops(e) \intersect Base = {}
      BY <1>a, MigDropsNoMore DEF MigBaseStays, MigApart
    <3>4. Base \subseteq db'
      BY <2>3, <3>3, <1>a
    <3>5. MigBaseStays' /\ MigNumbered'
      BY <2>1, <3>1, <3>4, <1>a DEF MigBaseStays, MigNumbered, MigHeld
    <3>6. MigNew'
      BY <2>1, <3>1, <1>a DEF MigNew, MigHeld, MigRecording
    <3>7. MigAccounts'
      <4> SUFFICES ASSUME NEW o \in db' \ Base, o.table \notin System PROVE MigAccounted(o)'
        BY DEF MigAccounts, MigAccounted
      <4>1. o \in db /\ \A e \in MigHeld(c) : o \notin Mig!AddedBy(e)
        BY <2>3, <1>a, MigDropsAdded
      <4>2. MigAccounted(o)
        BY <4>1, <1>a DEF MigAccounts
      <4>3. \A e \in journal : o \in Mig!AddedBy(e) /\ ~ MigLeaving(e) => ~ MigLeaving(e)'
        BY <3>1, <4>1 DEF MigLeaving, MigHeld
      <4>4. \A d \in Calls : MigRecording(d) /\ o \in Mig!InHand(d) => MigRecording(d)' /\ o \in Mig!InHand(d)'
        BY <2>1, <3>1 DEF MigRecording, Mig!InHand
      <4> QED BY <2>1, <4>2, <4>3, <4>4 DEF MigAccounted
    <3> QED BY <3>2, <3>5, <3>6, <3>7 DEF MigIInv
  <2> QED BY <1>5, <2>2, <2>3 DEF Mig!Drop, MigHeld
<1>6. ASSUME NEW c \in Calls, Mig!Consume(c) PROVE MigIInv'
  <2>1. schemaCall[c].step = "consume" /\ UNCHANGED <<db, unrecorded, runs, faults>>
    BY <1>6 DEF Mig!Consume
  <2>2. CASE Mig!Becomes(c, "idle", {}) /\ UNCHANGED journal
    BY <2>1, <2>2, <1>a, <1>n, MigCallOnly DEF MigRecording
  <2>3. ASSUME NEW e \in MigHeld(c), journal' = journal \ {e}, Mig!Becomes(c, "consume", MigHeld(c) \ {e}) PROVE MigIInv'
    <3>1. /\ schemaCall' \in [Calls -> MigWork] /\ schemaCall'[c].step = "consume" /\ schemaCall'[c].entries = MigHeld(c) \ {e}
          /\ \A d \in Calls \ {c} : schemaCall'[d] = schemaCall[d]
      BY <2>3, <1>a, MigBecoming
    <3>2. MigTyped'
      BY <2>1, <2>3, <3>1, <1>a DEF MigTyped
    <3>3. MigBaseStays' /\ MigNumbered'
      BY <2>1, <2>3, <3>1, <1>a DEF MigBaseStays, MigNumbered, MigHeld
    <3>4. MigNew'
      BY <2>1, <2>3, <3>1, <1>a DEF MigNew, MigHeld, MigRecording
    <3>5. MigAccounts'
      <4> SUFFICES ASSUME NEW o \in db \ Base, o.table \notin System PROVE MigAccounted(o)'
        BY <2>1 DEF MigAccounts, MigAccounted
      <4>1. MigAccounted(o)
        BY <1>a DEF MigAccounts
      <4>2. \A f \in journal : ~ MigLeaving(f) => f # e /\ f \in journal' /\ ~ MigLeaving(f)'
        BY <2>1, <2>3, <3>1 DEF MigLeaving, MigHeld
      <4>3. \A d \in Calls : MigRecording(d) /\ o \in Mig!InHand(d) => MigRecording(d)' /\ o \in Mig!InHand(d)'
        BY <2>1, <3>1 DEF MigRecording, Mig!InHand
      <4> QED BY <2>1, <4>1, <4>2, <4>3 DEF MigAccounted
    <3> QED BY <3>2, <3>3, <3>4, <3>5 DEF MigIInv
  <2> QED BY <1>6, <2>2, <2>3 DEF Mig!Consume, MigHeld
<1>7. CASE Mig!Crash
  <2>1. /\ faults < MaxFaults /\ faults' = faults + 1 /\ UNCHANGED <<db, journal, runs>>
        /\ unrecorded' = unrecorded \union UNION {Mig!InHand(c) : c \in {d \in Calls : schemaCall[d].step = "record"}}
        /\ schemaCall' = [c \in Calls |-> Mig!Idle]
    BY <1>7 DEF Mig!Crash
  <2>2. \A c \in Calls : Mig!InHand(c) \subseteq Mig!Object
    BY <1>a DEF Mig!InHand, Mig!AddedBy, Mig!ColumnsOf, Mig!Entry, MigHeld
  <2>3. Mig!Idle \in MigWork /\ Mig!Idle.entries = {} /\ Mig!Idle.step = "idle" /\ faults' \in 0..MaxFaults
    BY <2>1, <1>a DEF Mig!Idle, MigWork
  <2>4. MigTyped'
    BY <2>1, <2>2, <2>3, <1>a DEF MigTyped
  <2>5. MigBaseStays' /\ MigNumbered' /\ MigNew'
    BY <2>1, <2>3, <1>a DEF MigBaseStays, MigNumbered, MigNew, MigHeld, MigRecording
  <2>6. MigAccounts'
    <3> SUFFICES ASSUME NEW o \in db \ Base PROVE MigAccounted(o)'
      BY <2>1 DEF MigAccounts
    <3>1. MigAccounted(o)
      BY <1>a DEF MigAccounts
    <3>2. \A e \in journal : ~ MigLeaving(e)'
      BY <2>1, <2>3 DEF MigLeaving, MigHeld
    <3>3. \A c \in Calls : MigRecording(c) /\ o \in Mig!InHand(c) => o \in unrecorded'
      BY <2>1 DEF MigRecording
    <3> QED BY <2>1, <3>1, <3>2, <3>3 DEF MigAccounted
  <2> QED BY <2>4, <2>5, <2>6 DEF MigIInv
<1>8. CASE UNCHANGED Mig!vars
  <2>1. MigTyped' /\ MigBaseStays' /\ MigNumbered' /\ MigNew'
    BY <1>8, <1>a DEF Mig!vars, MigTyped, MigBaseStays, MigNumbered, MigNew, MigHeld, MigRecording
  <2>2. MigAccounts'
    BY <1>8, <1>a DEF Mig!vars, MigAccounts, MigAccounted, MigLeaving, MigHeld, MigRecording, Mig!InHand
  <2> QED BY <2>1, <2>2 DEF MigIInv
<1> QED BY <1>1, <1>2, <1>3, <1>4, <1>5, <1>6, <1>7, <1>8 DEF Mig!Next

(* Whatever the services do, Migrations takes a step of its own or none.   *)
LEMMA MigRuns == (Init => Mig!Init) /\ ([Next]_vars => [Mig!Next]_Mig!vars)
<1>1. Init => Mig!Init
  BY DEF Init
<1>2. [Next]_vars => [Mig!Next]_Mig!vars
  BY DEF Next, vars, migrations, Mig!vars
<1> QED BY <1>1, <1>2

LEMMA MigAlways == Spec => []MigIInv
<1>1. Mig!MigrationsAssumption
  BY ServicesAssumption DEF ServicesAssumption
<1>2. Init => MigIInv
  BY <1>1, MigRuns, MigInitIInv
<1>3. MigIInv /\ [Next]_vars => MigIInv'
  BY <1>1, MigRuns, MigStepIInv
<1> QED BY <1>2, <1>3, PTL DEF Spec

(* Whatever migrations and rollbacks overlap, fail or are cut off, what    *)
(* was there at first stays, and what was added is in the journal, about   *)
(* to be, or of a migration whose entry was lost.  It needs that an entry  *)
(* about to be deleted is not what accounts for an object: an object that  *)
(* was dropped and has come back is in a later entry.                      *)
THEOREM JournalIsComplete == Spec => []JournalAccounts
<1>1. MigIInv => JournalAccounts
  BY DEF MigIInv, MigBaseStays, MigAccounts, MigAccounted, JournalAccounts, Mig!JournalAccounts, MigRecording
<1> QED BY MigAlways, <1>1, PTL

-----------------------------------------------------------------------------
(* Accounts.  The row as a call read it is the row as it is, in the columns *)
(* that were not written since.                                            *)
AccNames == DOMAIN Acc!NewRow

AccFresh(e, r) == e.step # "idle" => \A k \in AccNames \ e.stale : r[k] = e.read[k]

(* What a call has established; m is made.                                 *)
AccCall(e, m) ==
  /\ e.step = "idle" => e = Acc!Idle
  /\ e.step = "reset" => e.arg = e.read.reset /\ e.arg # 0
  /\ e.step = "stamp" => e.read.secret # 0 /\ e.arg > e.read.last
  /\ e.read.reset <= m /\ e.read.secret <= m

AccSpent(x, m) == x.secret <= m /\ (x.secret = 0 => x.step \in 1..m)

AccTyped ==
  /\ Acc!TypeOK
  /\ \A c \in Calls : AccCall(loginCall[c], made) /\ AccFresh(loginCall[c], account)
  /\ account.reset <= made /\ account.secret <= made
  /\ \A x \in spent : AccSpent(x, made)

(* A token that was used is not the one that is valid.                     *)
AccTokens ==
  "reset" \notin lost =>
    /\ \A x \in again : x.secret # 0
    /\ \A x \in spent : x.secret = 0 => x.step # account.reset

(* The last step on record, and the one read, is none before those used    *)
(* with the secret.                                                        *)
AccUpTo(x, r) == r.secret = x.secret => x.step <= r.last

AccCodes ==
  "last" \notin lost =>
    /\ \A x \in again : x.secret = 0
    /\ \A x \in spent : x.secret # 0 =>
         /\ AccUpTo(x, account)
         /\ \A c \in Calls : "last" \notin loginCall[c].stale => AccUpTo(x, loginCall[c].read)

(* A session, and a row a call has read, is of an earlier epoch or has the *)
(* password of this one.                                                   *)
AccOf(s, r) == s.epoch <= r.epoch /\ (s.epoch = r.epoch => s.password = r.password)

AccSessions ==
  {"password", "epoch"} \intersect lost = {} =>
    /\ \A s \in sessions : AccOf(s, account)
    /\ \A c \in Calls : loginCall[c].step # "idle" => AccOf(loginCall[c].read, account)

(* Failures on record and those still to come.                             *)
AccTrying == {c \in Calls : loginCall[c].step = "login"}
AccThrottle == failures.count + Cardinality(AccTrying) < MaxFailures + Cardinality(Calls)

AccIInv == AccTyped /\ AccTokens /\ AccCodes /\ AccSessions /\ AccThrottle

AccSteps == {"login", "stamp", "edit", "forgot", "reset", "verify", "setup", "enable", "disable"}
AccEntry == [step: AccSteps \union {"idle"}, read: Acc!Row, arg: Nat, stale: SUBSET AccNames]

LEMMA AccShapes ==
  /\ AccNames = {"password", "epoch", "reset", "expires", "verified", "secret", "enabled", "last"}
  /\ \A r \in Acc!Row : DOMAIN r = AccNames
  /\ Acc!NewRow \in Acc!Row /\ Acc!NewRow.reset = 0 /\ Acc!NewRow.secret = 0 /\ Acc!NewRow.last = 0
  /\ Acc!Idle \in AccEntry /\ Acc!Idle.step = "idle" /\ Acc!Idle.read = Acc!NewRow /\ Acc!Idle.arg = 0 /\ Acc!Idle.stale = {}
<1>1. AccNames = {"password", "epoch", "reset", "expires", "verified", "secret", "enabled", "last"}
  BY DEF AccNames, Acc!NewRow
<1>2. ASSUME NEW r \in Acc!Row PROVE DOMAIN r = AccNames
  BY <1>1, <1>2 DEF Acc!Row
<1> QED BY <1>1, <1>2 DEF Acc!NewRow, Acc!Row, Acc!Idle, AccEntry

LEMMA AccRowOf ==
  ASSUME NEW f, DOMAIN f = AccNames, f = [k \in AccNames |-> f[k]],
         {f.password, f.epoch, f.reset, f.expires, f.secret, f.last} \subseteq Nat, {f.verified, f.enabled} \subseteq BOOLEAN
  PROVE  f \in Acc!Row
<1>1. f = [password |-> f.password, epoch |-> f.epoch, reset |-> f.reset, expires |-> f.expires,
           verified |-> f.verified, secret |-> f.secret, enabled |-> f.enabled, last |-> f.last]
  BY AccShapes
<1> QED BY <1>1 DEF Acc!Row

(* What the UPDATE of some columns does to the row and to the calls.       *)
LEMMA AccStored ==
  ASSUME Acc!TypeOK, NEW c \in Calls, NEW new \in Acc!Row, NEW columns \in SUBSET AccNames, Acc!Store(c, new, columns),
         loginCall[c].step # "idle", \A d \in Calls : AccFresh(loginCall[d], account)
  PROVE  /\ account' \in Acc!Row
         /\ \A k \in AccNames : account'[k] = IF k \in columns THEN new[k] ELSE account[k]
         /\ lost' \subseteq AccNames /\ lost \subseteq lost' /\ lost' = lost \union (columns \intersect loginCall[c].stale)
         /\ \A k \in columns \ lost' : account[k] = loginCall[c].read[k]
         /\ loginCall' \in [Calls -> AccEntry] /\ loginCall'[c] = Acc!Idle
         /\ \A d \in Calls : IF d = c \/ loginCall[d].step = "idle" THEN loginCall'[d] = Acc!Idle
              ELSE /\ loginCall'[d].step = loginCall[d].step /\ loginCall'[d].read = loginCall[d].read
                   /\ loginCall'[d].arg = loginCall[d].arg /\ loginCall[d].stale \subseteq loginCall'[d].stale
                   /\ \A k \in AccNames : account'[k] # account[k] => k \in loginCall'[d].stale
         /\ \A d \in Calls : AccFresh(loginCall'[d], account')
<1>1. account \in Acc!Row /\ lost \subseteq AccNames /\ loginCall \in [Calls -> AccEntry] /\ DOMAIN account = AccNames
  BY AccShapes DEF Acc!TypeOK, AccEntry, AccSteps, AccNames
<1>2. account' = [k \in AccNames |-> IF k \in columns THEN new[k] ELSE account[k]]
  BY <1>1 DEF Acc!Store
<1>3. account' \in Acc!Row
  <2>1. {new.password, new.epoch, new.reset, new.expires, new.secret, new.last} \subseteq Nat /\ {new.verified, new.enabled} \subseteq BOOLEAN
        /\ {account.password, account.epoch, account.reset, account.expires, account.secret, account.last} \subseteq Nat
        /\ {account.verified, account.enabled} \subseteq BOOLEAN
    BY <1>1 DEF Acc!Row
  <2> QED BY <1>2, <2>1, AccShapes, AccRowOf
<1>4. \A k \in AccNames : account'[k] = IF k \in columns THEN new[k] ELSE account[k]
  BY <1>2
<1>5. lost' = lost \union (columns \intersect loginCall[c].stale)
  BY DEF Acc!Store
<1>6. \A k \in columns \ lost' : account[k] = loginCall[c].read[k]
  BY <1>1, <1>5 DEF AccFresh
<1>7. ASSUME NEW d \in Calls
      PROVE  IF d = c \/ loginCall[d].step = "idle" THEN loginCall'[d] = Acc!Idle
             ELSE loginCall'[d] = [loginCall[d] EXCEPT !.stale = loginCall[d].stale \union {k \in columns : new[k] # account[k]}]
  BY DEF Acc!Store
<1>8. ASSUME NEW d \in Calls, d # c, loginCall[d].step # "idle"
      PROVE  /\ loginCall'[d].step = loginCall[d].step /\ loginCall'[d].read = loginCall[d].read
             /\ loginCall'[d].arg = loginCall[d].arg
             /\ loginCall'[d].stale = loginCall[d].stale \union {k \in columns : new[k] # account[k]}
             /\ loginCall'[d] \in AccEntry
  <2>1. loginCall[d] \in AccEntry /\ loginCall[d].stale \union {k \in columns : new[k] # account[k]} \in SUBSET AccNames
    BY <1>1 DEF AccEntry
  <2>2. loginCall'[d] = [loginCall[d] EXCEPT !.stale = loginCall[d].stale \union {k \in columns : new[k] # account[k]}]
    BY <1>7, <1>8
  <2> HIDE DEF AccNames
  <2>3. ASSUME NEW T \in SUBSET AccNames, loginCall'[d] = [loginCall[d] EXCEPT !.stale = T]
        PROVE  /\ loginCall'[d].step = loginCall[d].step /\ loginCall'[d].read = loginCall[d].read
               /\ loginCall'[d].arg = loginCall[d].arg /\ loginCall'[d].stale = T /\ loginCall'[d] \in AccEntry
    BY <2>1, <2>3 DEF AccEntry
  <2> QED BY <2>1, <2>2, <2>3
<1>9. loginCall' \in [Calls -> AccEntry]
  <2>1. \A d \in Calls : loginCall'[d] \in AccEntry
    BY <1>7, <1>8, AccShapes
  <2>2. loginCall' = [d \in Calls |-> loginCall'[d]]
    BY DEF Acc!Store
  <2> QED BY <2>1, <2>2
<1>10. ASSUME NEW d \in Calls PROVE AccFresh(loginCall'[d], account')
  <2>1. CASE d = c \/ loginCall[d].step = "idle"
    BY <1>7, <2>1, AccShapes DEF AccFresh
  <2>2. CASE d # c /\ loginCall[d].step # "idle"
    <3>1. \A k \in AccNames : k \notin loginCall'[d].stale => account[k] = loginCall[d].read[k] /\ account'[k] = account[k]
      BY <1>4, <1>8, <2>2 DEF AccFresh
    <3> QED BY <3>1, <1>8, <2>2 DEF AccFresh
  <2> QED BY <2>1, <2>2
<1> QED BY <1>3, <1>4, <1>5, <1>6, <1>7, <1>8, <1>9, <1>10, <1>1

AccMarks(s) == s \subseteq [secret: Nat, step: Nat]

(* The rest of the state has its shape.                                    *)
AccOthers ==
  /\ loginNow \in 1..MaxLoginTime /\ failures \in [count: Nat, start: 0..MaxLoginTime]
  /\ sessions \subseteq [password: Nat, epoch: Nat] /\ made \in Nat
  /\ AccMarks(spent) /\ again \subseteq spent
  /\ requests \in 0..MaxRequests /\ restarts \in 0..MaxRestarts

AccShaped == AccOthers /\ account \in Acc!Row /\ loginCall \in [Calls -> AccEntry] /\ lost \subseteq AccNames

LEMMA AccTypeOK == (Acc!TypeOK <=> AccShaped) /\ (Acc!TypeOK <=> AccShaped)'
BY DEF AccShaped, Acc!TypeOK, AccOthers, AccMarks, AccEntry, AccSteps, AccNames

(* A step that leaves the row alone: what a call has read is as before, is *)
(* the row as it is now, or is let go.                                     *)
AccGoesOn(e, f, r) ==
  \/ f = Acc!Idle
  \/ f.read = r /\ f.stale = {}
  \/ e.step # "idle" /\ f.read = e.read /\ f.stale = e.stale

AccQuiet ==
  /\ UNCHANGED <<account, made, spent, again, lost>>
  /\ loginCall' \in [Calls -> AccEntry]
  /\ \A d \in Calls : AccGoesOn(loginCall[d], loginCall'[d], account) /\ AccCall(loginCall'[d], made)
  /\ \A s \in sessions' : s \in sessions \/ \E d \in Calls : loginCall[d].step # "idle" /\ s = Acc!Session(loginCall[d].read)

LEMMA AccQuietKeeps ==
  ASSUME AccIInv, AccQuiet, AccOthers'
  PROVE  AccTyped' /\ AccTokens' /\ AccCodes' /\ AccSessions'
<1>1. /\ AccTyped /\ AccTokens /\ AccCodes /\ AccSessions
      /\ account \in Acc!Row /\ loginCall \in [Calls -> AccEntry] /\ lost \subseteq AccNames /\ AccOthers
  BY AccTypeOK DEF AccShaped, AccIInv, AccTyped
<1>2. account' = account /\ made' = made /\ spent' = spent /\ again' = again /\ lost' = lost
  BY DEF AccQuiet
<1>3. ASSUME NEW d \in Calls PROVE AccFresh(loginCall'[d], account)
  BY <1>1, <1>3, AccShapes DEF AccQuiet, AccGoesOn, AccFresh, AccTyped
<1>4. AccTyped'
  BY <1>1, <1>2, <1>3, AccTypeOK DEF AccShaped, AccQuiet, AccTyped
<1>5. AccTokens'
  BY <1>1, <1>2 DEF AccTokens
<1>6. AccCodes'
  <2> SUFFICES ASSUME "last" \notin lost, NEW x \in spent, x.secret # 0, NEW c \in Calls, "last" \notin loginCall'[c].stale
               PROVE  AccUpTo(x, loginCall'[c].read)
    BY <1>1, <1>2 DEF AccCodes
  <2>1. AccUpTo(x, account) /\ ("last" \notin loginCall[c].stale => AccUpTo(x, loginCall[c].read))
    BY <1>1 DEF AccCodes
  <2> QED BY <2>1, AccShapes DEF AccQuiet, AccGoesOn, AccUpTo
<1>7. AccSessions'
  <2> SUFFICES ASSUME {"password", "epoch"} \intersect lost = {}
               PROVE  /\ \A s \in sessions' : AccOf(s, account)
                      /\ \A c \in Calls : loginCall'[c].step # "idle" => AccOf(loginCall'[c].read, account)
    BY <1>2 DEF AccSessions
  <2>1. AccOf(account, account)
    BY <1>1 DEF AccOf, Acc!Row
  <2>2. \A d \in Calls : loginCall[d].step # "idle" =>
          AccOf(loginCall[d].read, account) /\ AccOf(Acc!Session(loginCall[d].read), account)
    BY <1>1 DEF AccSessions, AccOf, Acc!Session
  <2> QED BY <1>1, <2>1, <2>2, AccShapes DEF AccQuiet, AccGoesOn, AccSessions
<1> QED BY <1>4, <1>5, <1>6, <1>7

(* One that ends a call with an UPDATE.                                    *)
LEMMA AccWriteTyped ==
  ASSUME AccIInv, NEW c \in Calls, NEW new \in Acc!Row, NEW columns \in SUBSET AccNames, Acc!Store(c, new, columns),
         loginCall[c].step # "idle", made <= made', new.reset <= made', new.secret <= made', AccOthers',
         \A x \in spent' : AccSpent(x, made')
  PROVE  AccTyped'
<1>1. /\ Acc!TypeOK /\ AccTyped /\ AccOthers /\ account \in Acc!Row /\ loginCall \in [Calls -> AccEntry]
      /\ \A d \in Calls : AccFresh(loginCall[d], account) /\ AccCall(loginCall[d], made)
      /\ account.reset <= made /\ account.secret <= made
  BY AccTypeOK DEF AccShaped, AccIInv, AccTyped
<1>2. /\ account' \in Acc!Row /\ loginCall' \in [Calls -> AccEntry] /\ lost' \subseteq AccNames
      /\ \A k \in AccNames : account'[k] = IF k \in columns THEN new[k] ELSE account[k]
      /\ \A d \in Calls : IF d = c \/ loginCall[d].step = "idle" THEN loginCall'[d] = Acc!Idle
              ELSE /\ loginCall'[d].step = loginCall[d].step /\ loginCall'[d].read = loginCall[d].read
                   /\ loginCall'[d].arg = loginCall[d].arg
      /\ \A d \in Calls : AccFresh(loginCall'[d], account')
  BY <1>1, AccStored
<1>3. account'.reset <= made' /\ account'.secret <= made'
  <2>1. /\ account'.reset \in {new.reset, account.reset} /\ account'.secret \in {new.secret, account.secret}
        /\ {made, made', account.reset, account.secret} \subseteq Nat
    BY <1>1, <1>2, AccShapes DEF AccOthers, Acc!Row
  <2> QED BY <1>1, <2>1
<1>4. ASSUME NEW d \in Calls PROVE AccCall(loginCall'[d], made')
  <2>1. CASE d = c \/ loginCall[d].step = "idle"
    BY <1>2, <2>1, AccShapes DEF AccCall, AccSteps, AccOthers
  <2>2. CASE d # c /\ loginCall[d].step # "idle"
    <3>1. {made, made', loginCall[d].read.reset, loginCall[d].read.secret} \subseteq Nat
      BY <1>1 DEF AccOthers, AccEntry, Acc!Row
    <3> QED BY <1>1, <1>2, <2>2, <3>1 DEF AccCall
  <2> QED BY <2>1, <2>2
<1> QED BY <1>2, <1>3, <1>4, AccTypeOK DEF AccShaped, AccTyped

LEMMA AccWriteSessions ==
  ASSUME AccIInv, NEW c \in Calls, NEW new \in Acc!Row, NEW columns \in SUBSET AccNames, Acc!Store(c, new, columns),
         loginCall[c].step # "idle",
         {"password", "epoch"} \intersect lost' = {} =>
           \/ account'.password = account.password /\ account'.epoch = account.epoch
           \/ account'.epoch = account.epoch + 1,
         \A s \in sessions' : s \in sessions \/ s = Acc!Session(account') \/ s = Acc!Session(loginCall[c].read)
  PROVE  AccSessions'
<1> SUFFICES ASSUME {"password", "epoch"} \intersect lost' = {} PROVE AccSessions'
  BY DEF AccSessions
<1>1. /\ Acc!TypeOK /\ AccOthers /\ account \in Acc!Row /\ loginCall \in [Calls -> AccEntry]
      /\ \A d \in Calls : AccFresh(loginCall[d], account)
  BY AccTypeOK DEF AccShaped, AccIInv, AccTyped
<1>2. /\ account' \in Acc!Row /\ lost \subseteq lost'
      /\ \A d \in Calls : IF d = c \/ loginCall[d].step = "idle" THEN loginCall'[d] = Acc!Idle
                          ELSE loginCall'[d].step = loginCall[d].step /\ loginCall'[d].read = loginCall[d].read
  BY <1>1, AccStored
<1>3. /\ \A s \in sessions : AccOf(s, account)
      /\ \A d \in Calls : loginCall[d].step # "idle" => AccOf(loginCall[d].read, account)
  BY <1>2 DEF AccIInv, AccSessions
<1>4. ASSUME NEW s, s.epoch \in Nat, AccOf(s, account) PROVE AccOf(s, account')
  <2>1. {account.epoch, account'.epoch} \subseteq Nat
    BY <1>1, <1>2 DEF Acc!Row
  <2> QED BY <1>4, <2>1 DEF AccOf
<1>5. \A s \in sessions : AccOf(s, account')
  BY <1>1, <1>3, <1>4 DEF AccOthers
<1>6. ASSUME NEW d \in Calls, loginCall[d].step # "idle"
      PROVE AccOf(loginCall[d].read, account') /\ AccOf(Acc!Session(loginCall[d].read), account')
  <2>1. AccOf(loginCall[d].read, account')
    BY <1>1, <1>3, <1>4, <1>6 DEF AccEntry, Acc!Row
  <2> QED BY <2>1 DEF AccOf, Acc!Session
<1>7. AccOf(Acc!Session(account'), account')
  BY <1>2 DEF AccOf, Acc!Session, Acc!Row
<1> QED BY <1>2, <1>5, <1>6, <1>7, AccShapes DEF AccSessions

LEMMA AccFinite == Acc!AccountsAssumption => IsFiniteSet(Calls)
BY DEF Acc!AccountsAssumption, Acc!IsFiniteSet, IsFiniteSet

LEMMA AccCardinality == \A S : Acc!Cardinality(S) = Cardinality(S)
BY DEF Acc!Cardinality, Cardinality

(* The throttle: fewer sign-ins under way, or a count below the limit, or  *)
(* one sign-in that became a failure.                                      *)
LEMMA AccThrottled ==
  ASSUME Acc!AccountsAssumption, failures.count \in Nat, failures'.count \in Nat,
         \/ AccThrottle /\ failures' = failures /\ AccTrying' \subseteq AccTrying
         \/ failures'.count < MaxFailures
         \/ \E c \in Calls : /\ AccThrottle /\ loginCall[c].step = "login" /\ AccTrying' = AccTrying \ {c}
                             /\ failures'.count = 1 \/ failures'.count = failures.count + 1
  PROVE  AccThrottle'
<1>1. /\ IsFiniteSet(Calls) /\ Cardinality(Calls) \in Nat /\ MaxFailures \in Nat \ {0}
      /\ AccTrying \subseteq Calls /\ AccTrying' \subseteq Calls
  BY AccFinite, FS_CardinalityType DEF Acc!AccountsAssumption, AccTrying
<1>2. /\ IsFiniteSet(AccTrying) /\ Cardinality(AccTrying) \in Nat /\ IsFiniteSet(AccTrying') /\ Cardinality(AccTrying') \in Nat
      /\ Cardinality(AccTrying') <= Cardinality(Calls)
  BY <1>1, FS_Subset, FS_CardinalityType
<1>3. CASE AccThrottle /\ failures' = failures /\ AccTrying' \subseteq AccTrying
  <2>1. Cardinality(AccTrying') <= Cardinality(AccTrying)
    BY <1>2, <1>3, FS_Subset
  <2> QED BY <1>1, <1>2, <1>3, <2>1 DEF AccThrottle
<1>4. CASE failures'.count < MaxFailures
  BY <1>1, <1>2, <1>4 DEF AccThrottle
<1>5. ASSUME NEW c \in Calls, AccThrottle, loginCall[c].step = "login", AccTrying' = AccTrying \ {c},
             failures'.count = 1 \/ failures'.count = failures.count + 1
      PROVE  AccThrottle'
  <2>1. c \in AccTrying
    BY <1>5 DEF AccTrying
  <2>2. Cardinality(AccTrying') = Cardinality(AccTrying) - 1
    BY <1>2, <1>5, <2>1, FS_RemoveElement
  <2>3. Cardinality(AccTrying) <= Cardinality(Calls)
    BY <1>1, FS_Subset
  <2> QED BY <1>1, <1>2, <1>5, <2>2, <2>3 DEF AccThrottle
<1> QED BY <1>3, <1>4, <1>5

(* A call moves on by itself.                                              *)
LEMMA AccMoves ==
  ASSUME AccIInv, NEW c \in Calls, NEW e \in AccEntry, Acc!Becomes(c, e),
         AccGoesOn(loginCall[c], e, account), AccCall(e, made), UNCHANGED <<account, made, spent, again, lost>>,
         \A s \in sessions' : s \in sessions \/ (loginCall[c].step # "idle" /\ s = Acc!Session(loginCall[c].read))
  PROVE  /\ AccQuiet /\ loginCall' = [loginCall EXCEPT ![c] = e]
         /\ e.step # "login" => AccTrying' = AccTrying \ {c}
<1>1. loginCall \in [Calls -> AccEntry] /\ \A d \in Calls : AccCall(loginCall[d], made)
  BY AccTypeOK DEF AccShaped, AccIInv, AccTyped
<1>2. loginCall' = [loginCall EXCEPT ![c] = e]
  BY DEF Acc!Becomes
<1>3. \A d \in Calls : loginCall'[d] = IF d = c THEN e ELSE loginCall[d]
  BY <1>1, <1>2
<1>4. ASSUME NEW d \in Calls PROVE AccGoesOn(loginCall[d], loginCall'[d], account) /\ AccCall(loginCall'[d], made)
  BY <1>1, <1>3 DEF AccGoesOn, AccCall
<1>5. loginCall' \in [Calls -> AccEntry]
  BY <1>1, <1>2
<1>6. AccQuiet
  BY <1>4, <1>5 DEF AccQuiet
<1>7. e.step # "login" => AccTrying' = AccTrying \ {c}
  BY <1>3 DEF AccTrying
<1> QED BY <1>2, <1>6, <1>7

LEMMA AccBegins ==
  ASSUME Acc!AccountsAssumption, AccIInv, NEW c \in Calls, NEW step \in AccSteps \ {"stamp"}, NEW arg \in Nat, Acc!Begin(c, step, arg),
         step = "reset" => arg = account.reset /\ arg # 0, UNCHANGED <<account, sessions, made, spent, again, lost>>
  PROVE  /\ AccQuiet /\ requests' \in 0..MaxRequests /\ loginCall[c].step = "idle"
         /\ step # "login" => AccTrying' = AccTrying \ {c}
<1> DEFINE e == [Acc!Idle EXCEPT !.step = step, !.read = account, !.arg = arg]
<1>1. account \in Acc!Row /\ account.reset <= made /\ account.secret <= made /\ AccOthers
  BY AccTypeOK DEF AccShaped, AccIInv, AccTyped
<1>2. e \in AccEntry /\ e.step = step /\ e.read = account /\ e.arg = arg /\ e.stale = {}
  BY <1>1, AccShapes DEF AccEntry, Acc!Idle
<1>3. Acc!Becomes(c, e) /\ loginCall[c].step = "idle" /\ requests < MaxRequests /\ requests' = requests + 1
  BY DEF Acc!Begin
<1>4. AccGoesOn(loginCall[c], e, account) /\ AccCall(e, made)
  BY <1>1, <1>2 DEF AccGoesOn, AccCall, AccSteps
<1>5. requests' \in 0..MaxRequests
  BY <1>1, <1>3 DEF AccOthers, Acc!AccountsAssumption
<1> HIDE DEF e
<1> QED BY <1>2, <1>3, <1>4, <1>5, AccMoves

(* The steps that leave the row alone.                                     *)
AccQuietNext ==
  \/ Acc!Tick \/ Acc!Restart
  \/ \E c \in Calls : Acc!LoginBegin(c) \/ Acc!WrongPassword(c) \/ Acc!RightPassword(c) \/ Acc!EditBegin(c) \/ Acc!ForgotBegin(c)
       \/ Acc!ResetBegin(c) \/ Acc!VerifyBegin(c) \/ Acc!SetupBegin(c) \/ Acc!EnableBegin(c) \/ Acc!DisableBegin(c)

LEMMA AccQuietSteps ==
  Acc!AccountsAssumption /\ AccIInv /\ AccQuietNext => AccQuiet /\ AccOthers' /\ AccThrottle'
<1> SUFFICES ASSUME Acc!AccountsAssumption, AccIInv, AccQuietNext PROVE AccQuiet /\ AccOthers' /\ AccThrottle'
  OBVIOUS
<1>a. /\ AccOthers /\ account \in Acc!Row /\ loginCall \in [Calls -> AccEntry] /\ AccThrottle
      /\ \A d \in Calls : AccCall(loginCall[d], made)
      /\ MaxLoginTime \in Nat \ {0} /\ MaxFailures \in Nat \ {0} /\ MaxRequests \in Nat /\ MaxRestarts \in Nat
  BY AccTypeOK DEF AccShaped, AccIInv, AccTyped, Acc!AccountsAssumption
<1>b. failures.count \in Nat /\ failures \in [count: Nat, start: 0..MaxLoginTime] /\ loginNow \in 1..MaxLoginTime
      /\ Acc!NoFailures \in [count: Nat, start: 0..MaxLoginTime] /\ Acc!NoFailures.count = 0
  BY <1>a DEF AccOthers, Acc!NoFailures
<1>c. ASSUME failures' \in [count: Nat, start: 0..MaxLoginTime], sessions' \subseteq [password: Nat, epoch: Nat],
             loginNow' = loginNow, requests' \in 0..MaxRequests, UNCHANGED <<made, spent, again, restarts>>
      PROVE  AccOthers'
  BY <1>a, <1>c DEF AccOthers
<1>d. ASSUME failures' = failures, AccTrying' \subseteq AccTrying PROVE AccThrottle'
  BY <1>a, <1>b, <1>d, AccThrottled
<1>e. ASSUME failures' \in [count: Nat, start: 0..MaxLoginTime], failures'.count < MaxFailures PROVE AccThrottle'
  BY <1>b, <1>e, AccThrottled
(* A read of the row that begins a request.                                *)
<1>f. ASSUME NEW c \in Calls, NEW step \in AccSteps \ {"stamp", "login"}, NEW arg \in Nat, Acc!Begin(c, step, arg),
             step = "reset" => arg = account.reset /\ arg # 0,
             UNCHANGED <<loginNow, account, failures, sessions, made, spent, again, lost, restarts>>
      PROVE  AccQuiet /\ AccOthers' /\ AccThrottle'
  <2>1. AccQuiet /\ requests' \in 0..MaxRequests /\ AccTrying' = AccTrying \ {c}
    BY <1>f, AccBegins
  <2> QED BY <2>1, <1>a, <1>b, <1>c, <1>d, <1>f DEF AccOthers
<1>1. CASE Acc!Tick
  <2>1. /\ loginNow < MaxLoginTime /\ loginNow' = loginNow + 1
        /\ UNCHANGED <<account, failures, loginCall, sessions, made, spent, again, lost, requests, restarts>>
    BY <1>1 DEF Acc!Tick, Acc!history
  <2>2. AccOthers'
    BY <1>a, <2>1 DEF AccOthers
  <2>3. AccQuiet
    BY <1>a, <2>1 DEF AccQuiet, AccGoesOn, AccCall
  <2>4. AccTrying' = AccTrying
    BY <2>1 DEF AccTrying
  <2> QED BY <1>d, <2>1, <2>2, <2>3, <2>4
<1>2. CASE Acc!Restart
  <2>1. /\ restarts < MaxRestarts /\ restarts' = restarts + 1 /\ failures' = Acc!NoFailures
        /\ loginCall' = [c \in Calls |-> Acc!Idle]
        /\ UNCHANGED <<loginNow, account, sessions, made, spent, again, lost, requests>>
    BY <1>2 DEF Acc!Restart, Acc!history
  <2>2. AccOthers'
    BY <1>a, <1>b, <2>1 DEF AccOthers
  <2>3. \A d \in Calls : loginCall'[d] = Acc!Idle
    BY <2>1
  <2>4. AccCall(Acc!Idle, made)
    BY <1>a, AccShapes DEF AccCall, AccOthers
  <2>5. loginCall' \in [Calls -> AccEntry]
    BY <2>1, AccShapes
  <2>6. AccQuiet
    BY <2>1, <2>3, <2>4, <2>5 DEF AccQuiet, AccGoesOn
  <2> QED BY <1>a, <1>b, <1>e, <2>1, <2>2, <2>6
<1>3. ASSUME NEW c \in Calls, Acc!LoginBegin(c) PROVE AccQuiet /\ AccOthers' /\ AccThrottle'
  <2>1. /\ Acc!LoginAllowed /\ failures' = IF Acc!Elapsed > Window THEN Acc!NoFailures ELSE failures
        /\ UNCHANGED <<loginNow, account, sessions, made, spent, again, lost, restarts>>
    BY <1>3 DEF Acc!LoginBegin, Acc!history
  <2>2. PICK password \in 0..made : Acc!Begin(c, "login", password)
    BY <1>3 DEF Acc!LoginBegin
  <2>3. password \in Nat
    BY <1>a DEF AccOthers
  <2>4. AccQuiet /\ requests' \in 0..MaxRequests
    BY <2>1, <2>2, <2>3, AccBegins DEF AccSteps
  <2>5. failures' \in [count: Nat, start: 0..MaxLoginTime] /\ failures'.count < MaxFailures
    BY <1>a, <1>b, <2>1 DEF Acc!LoginAllowed
  <2>6. AccThrottle'
    BY <1>e, <2>5
  <2>7. AccOthers'
    BY <1>a, <1>c, <2>1, <2>4, <2>5 DEF AccOthers
  <2> QED BY <2>4, <2>6, <2>7
<1>4. ASSUME NEW c \in Calls, Acc!WrongPassword(c) PROVE AccQuiet /\ AccOthers' /\ AccThrottle'
  <2>1. /\ loginCall[c].step = "login" /\ Acc!RecordFailure /\ Acc!Becomes(c, Acc!Idle)
        /\ UNCHANGED <<loginNow, account, sessions, made, spent, again, lost, requests, restarts>>
    BY <1>4 DEF Acc!WrongPassword, Acc!history
  <2>2. AccGoesOn(loginCall[c], Acc!Idle, account) /\ AccCall(Acc!Idle, made)
    BY <1>a, AccShapes DEF AccCall, AccOthers, AccGoesOn
  <2>3. AccQuiet /\ AccTrying' = AccTrying \ {c}
    BY <2>1, <2>2, AccMoves, AccShapes
  <2>4. failures' \in [count: Nat, start: 0..MaxLoginTime] /\ (failures'.count = 1 \/ failures'.count = failures.count + 1)
    BY <1>b, <2>1 DEF Acc!RecordFailure
  <2>5. AccThrottle'
    BY <1>a, <1>b, <2>1, <2>3, <2>4, AccThrottled
  <2>6. AccOthers'
    BY <1>a, <1>c, <2>1, <2>4 DEF AccOthers
  <2> QED BY <2>3, <2>5, <2>6
<1>5. ASSUME NEW c \in Calls, Acc!RightPassword(c) PROVE AccQuiet /\ AccOthers' /\ AccThrottle'
  <2> DEFINE r == loginCall[c].read
  <2>0. r \in Acc!Row /\ loginCall[c] \in AccEntry
    BY <1>a DEF AccEntry
  <2>1. /\ loginCall[c].step = "login" /\ failures' = Acc!NoFailures
        /\ UNCHANGED <<loginNow, account, made, spent, again, lost, requests, restarts>>
    BY <1>5 DEF Acc!RightPassword
  <2>2. Acc!Session(r) \in [password: Nat, epoch: Nat]
    BY <2>0 DEF Acc!Session, Acc!Row
  <2>3. PICK e \in AccEntry : /\ Acc!Becomes(c, e) /\ AccGoesOn(loginCall[c], e, account) /\ AccCall(e, made)
                              /\ sessions' \subseteq sessions \union {Acc!Session(r)}
    <3>1. CASE Acc!Becomes(c, Acc!Idle) /\ sessions' \subseteq sessions \union {Acc!Session(r)}
      <4>1. AccGoesOn(loginCall[c], Acc!Idle, account) /\ AccCall(Acc!Idle, made)
        BY <1>a, AccShapes DEF AccCall, AccOthers, AccGoesOn
      <4> QED BY <3>1, <4>1, AccShapes
    <3>2. ASSUME NEW step \in (loginNow - 1)..(loginNow + 1), r.secret # 0, Acc!NewStep(r, step),
                 Acc!Becomes(c, [loginCall[c] EXCEPT !.step = "stamp", !.arg = step]), sessions' = sessions
          PROVE  \E e \in AccEntry : /\ Acc!Becomes(c, e) /\ AccGoesOn(loginCall[c], e, account) /\ AccCall(e, made)
                                     /\ sessions' \subseteq sessions \union {Acc!Session(r)}
      <4> DEFINE e == [loginCall[c] EXCEPT !.step = "stamp", !.arg = step]
      <4>1. step \in Nat
        BY <1>b
      <4>2. e \in AccEntry /\ e.step = "stamp" /\ e.arg = step /\ e.read = r /\ e.stale = loginCall[c].stale
        BY <2>0, <4>1 DEF AccEntry, AccSteps
      <4>3. AccGoesOn(loginCall[c], e, account) /\ AccCall(e, made)
        BY <1>a, <2>1, <3>2, <4>2 DEF AccGoesOn, AccCall, Acc!NewStep
      <4> QED BY <3>2, <4>2, <4>3
    <3> QED BY <1>5, <3>1, <3>2 DEF Acc!RightPassword
  <2>4. AccQuiet
    BY <2>1, <2>3, AccMoves
  <2>5. AccThrottle'
    BY <1>a, <1>b, <1>e, <2>1
  <2>6. AccOthers'
    BY <1>a, <1>b, <1>c, <2>1, <2>2, <2>3 DEF AccOthers
  <2> QED BY <2>4, <2>5, <2>6
<1>6. ASSUME NEW c \in Calls,
             \/ Acc!EditBegin(c) \/ Acc!ForgotBegin(c) \/ Acc!ResetBegin(c) \/ Acc!VerifyBegin(c)
             \/ Acc!SetupBegin(c) \/ Acc!EnableBegin(c) \/ Acc!DisableBegin(c)
      PROVE  AccQuiet /\ AccOthers' /\ AccThrottle'
  <2>1. /\ UNCHANGED <<loginNow, account, failures, sessions, made, spent, again, lost, restarts>>
        /\ \E step \in AccSteps \ {"stamp", "login"}, arg \in Nat :
             Acc!Begin(c, step, arg) /\ (step = "reset" => arg = account.reset /\ arg # 0)
    <3>1. CASE Acc!EditBegin(c)
      BY <3>1 DEF Acc!EditBegin, Acc!history, AccSteps
    <3>2. CASE Acc!ForgotBegin(c)
      BY <3>2 DEF Acc!ForgotBegin, Acc!history, AccSteps
    <3>3. CASE Acc!ResetBegin(c)
      BY <1>a, <3>3 DEF Acc!ResetBegin, Acc!history, AccSteps, Acc!Row
    <3>4. CASE Acc!VerifyBegin(c) \/ Acc!SetupBegin(c)
      BY <3>4 DEF Acc!VerifyBegin, Acc!SetupBegin, Acc!history, AccSteps
    <3>5. CASE Acc!EnableBegin(c) \/ Acc!DisableBegin(c)
      BY <3>5 DEF Acc!EnableBegin, Acc!DisableBegin, Acc!history, AccSteps
    <3> QED BY <1>6, <3>1, <3>2, <3>3, <3>4, <3>5
  <2> QED BY <2>1, <1>f
<1> QED BY <1>1, <1>2, <1>3, <1>4, <1>5, <1>6 DEF AccQuietNext

(* An UPDATE, its call's failures and the codes it leaves alone.           *)
LEMMA AccWriteThrottle ==
  ASSUME Acc!AccountsAssumption, AccIInv, NEW c \in Calls, NEW new \in Acc!Row, NEW columns \in SUBSET AccNames,
         Acc!Store(c, new, columns), loginCall[c].step # "idle", failures' = failures
  PROVE  AccThrottle'
<1>1. Acc!TypeOK /\ (\A d \in Calls : AccFresh(loginCall[d], account)) /\ failures.count \in Nat /\ AccThrottle
  BY AccTypeOK DEF AccShaped, AccOthers, AccIInv, AccTyped
<1>2. \A d \in Calls : IF d = c \/ loginCall[d].step = "idle" THEN loginCall'[d] = Acc!Idle
                       ELSE loginCall'[d].step = loginCall[d].step
  BY <1>1, AccStored
<1>3. AccTrying' \subseteq AccTrying
  BY <1>2, AccShapes DEF AccTrying
<1> QED BY <1>1, <1>3, AccThrottled

LEMMA AccWriteCodes ==
  ASSUME AccIInv, NEW c \in Calls, NEW new \in Acc!Row, NEW columns \in SUBSET AccNames, Acc!Store(c, new, columns),
         loginCall[c].step # "idle",
         \A x \in spent' : x.secret # 0 => x \in spent, \A x \in again' : x.secret # 0 => x \in again,
         "last" \notin lost' =>
           \A x \in spent : x.secret # 0 /\ AccUpTo(x, account) /\ AccSpent(x, made)
                            /\ ("last" \notin loginCall[c].stale => AccUpTo(x, loginCall[c].read)) => AccUpTo(x, account')
  PROVE  AccCodes'
<1> SUFFICES ASSUME "last" \notin lost' PROVE AccCodes'
  BY DEF AccCodes
<1>1. Acc!TypeOK /\ (\A d \in Calls : AccFresh(loginCall[d], account)) /\ \A x \in spent : AccSpent(x, made)
  BY DEF AccIInv, AccTyped
<1>2. /\ lost \subseteq lost'
      /\ \A d \in Calls : IF d = c \/ loginCall[d].step = "idle" THEN loginCall'[d] = Acc!Idle
                          ELSE loginCall'[d].read = loginCall[d].read /\ loginCall[d].stale \subseteq loginCall'[d].stale
  BY <1>1, AccStored
<1>3. /\ \A x \in again : x.secret = 0
      /\ \A x \in spent : x.secret # 0 =>
           AccUpTo(x, account) /\ \A d \in Calls : "last" \notin loginCall[d].stale => AccUpTo(x, loginCall[d].read)
  BY <1>2 DEF AccIInv, AccCodes
<1>4. \A x \in again' : x.secret = 0
  BY <1>3
<1>5. ASSUME NEW x \in spent', x.secret # 0 PROVE AccUpTo(x, account')
  BY <1>1, <1>3, <1>5
<1>6. ASSUME NEW x \in spent', x.secret # 0, NEW d \in Calls, "last" \notin loginCall'[d].stale
      PROVE  AccUpTo(x, loginCall'[d].read)
  <2>1. CASE d = c \/ loginCall[d].step = "idle"
    BY <1>2, <1>6, <2>1, AccShapes DEF AccUpTo
  <2>2. CASE d # c /\ loginCall[d].step # "idle"
    BY <1>2, <1>3, <1>6, <2>2
  <2> QED BY <2>1, <2>2
<1> QED BY <1>4, <1>5, <1>6 DEF AccCodes

(* The facts the cases of a write start from.                              *)
LEMMA AccAt ==
  ASSUME Acc!AccountsAssumption, AccIInv
  PROVE  /\ Acc!TypeOK /\ AccOthers /\ account \in Acc!Row /\ loginCall \in [Calls -> AccEntry] /\ lost \subseteq AccNames
         /\ \A d \in Calls : AccCall(loginCall[d], made) /\ AccFresh(loginCall[d], account)
         /\ account.reset <= made /\ account.secret <= made /\ \A x \in spent : AccSpent(x, made)
         /\ AccTokens /\ AccCodes /\ AccSessions
         /\ \A d \in Calls : loginCall[d].read \in Acc!Row /\ loginCall[d].arg \in Nat
BY AccTypeOK DEF AccShaped, AccIInv, AccTyped, AccEntry

LEMMA AccLoginStamp ==
  ASSUME Acc!AccountsAssumption, AccIInv, NEW c \in Calls, Acc!LoginStamp(c)
  PROVE  AccIInv'
<1> DEFINE r == loginCall[c]  new == [account EXCEPT !.last = r.arg]  x == [secret |-> r.read.secret, step |-> r.arg]
<1>1. /\ r.step = "stamp" /\ Acc!Store(c, new, {"last"}) /\ Acc!Spend(x)
      /\ sessions' = sessions \union {Acc!Session(r.read)}
      /\ UNCHANGED <<loginNow, failures, made, requests, restarts>>
  BY DEF Acc!LoginStamp
<1>2. /\ r.read \in Acc!Row /\ r.arg \in Nat /\ r.read.secret # 0 /\ r.arg > r.read.last
      /\ r.read.secret <= made /\ AccFresh(r, account)
  BY <1>1, AccAt DEF AccCall
<1>3. /\ new \in Acc!Row /\ new.last = r.arg /\ new.reset = account.reset /\ new.secret = account.secret
  BY <1>2, AccAt DEF Acc!Row
<1>4. {"last"} \in SUBSET AccNames /\ {"password", "epoch", "reset", "secret", "last"} \subseteq AccNames
  BY AccShapes
<1>5. x \in [secret: Nat, step: Nat] /\ x.secret = r.read.secret /\ x.step = r.arg
  BY <1>2 DEF Acc!Row
<1>6. spent' = spent \union {x} /\ again' = again \union ({x} \intersect spent)
  BY <1>1 DEF Acc!Spend
<1> HIDE DEF new, x
<1>7. /\ account' \in Acc!Row /\ lost \subseteq lost'
      /\ \A k \in AccNames : account'[k] = IF k \in {"last"} THEN new[k] ELSE account[k]
      /\ \A k \in {"last"} \ lost' : account[k] = r.read[k]
      /\ \A d \in Calls : IF d = c \/ loginCall[d].step = "idle" THEN loginCall'[d] = Acc!Idle
              ELSE /\ loginCall'[d].read = loginCall[d].read /\ loginCall[d].stale \subseteq loginCall'[d].stale
                   /\ \A k \in AccNames : account'[k] # account[k] => k \in loginCall'[d].stale
      /\ lost' = lost \union ({"last"} \intersect r.stale)
  BY <1>1, <1>3, <1>4, AccAt, AccStored
<1>8. /\ account'.last = r.arg /\ account'.reset = account.reset /\ account'.secret = account.secret
      /\ account'.password = account.password /\ account'.epoch = account.epoch
      /\ "last" \notin lost' => account.last = r.read.last
  BY <1>3, <1>4, <1>7
<1>9. AccOthers'
  <2>1. Acc!Session(r.read) \in [password: Nat, epoch: Nat]
    BY <1>2 DEF Acc!Session, Acc!Row
  <2> QED BY <1>1, <1>5, <1>6, <2>1, AccAt DEF AccOthers, AccMarks
<1>10. AccTyped'
  <2>1. \A y \in spent' : AccSpent(y, made')
    BY <1>1, <1>2, <1>5, <1>6, AccAt DEF AccSpent
  <2>2. made <= made' /\ new.reset <= made' /\ new.secret <= made'
    BY <1>1, <1>3, AccAt DEF AccOthers
  <2> QED BY <1>1, <1>3, <1>4, <1>9, <2>1, <2>2, AccWriteTyped
<1>11. AccSessions'
  BY <1>1, <1>3, <1>4, <1>8, AccWriteSessions
<1>12. AccThrottle'
  BY <1>1, <1>3, <1>4, AccWriteThrottle
<1>13. AccTokens'
  BY <1>2, <1>5, <1>6, <1>7, <1>8, AccAt DEF AccTokens
<1>14. AccCodes'
  <2> SUFFICES ASSUME "last" \notin lost' PROVE AccCodes'
    BY DEF AccCodes
  <2>1. /\ \A y \in again : y.secret = 0
        /\ \A y \in spent : y.secret # 0 =>
             AccUpTo(y, account) /\ \A d \in Calls : "last" \notin loginCall[d].stale => AccUpTo(y, loginCall[d].read)
    BY <1>7, AccAt DEF AccCodes
  <2>2. {r.arg, r.read.last, account.last} \subseteq Nat /\ \A y \in spent : y.step \in Nat
    BY <1>2, AccAt DEF Acc!Row, AccOthers, AccMarks
  <2>3. x \notin spent
    <3>1. "last" \notin r.stale
      BY <1>7
    <3> QED BY <1>2, <1>5, <2>1, <2>2, <3>1 DEF AccUpTo
  <2>4. \A y \in again' : y.secret = 0
    BY <1>6, <2>1, <2>3
  <2>5. ASSUME NEW y \in spent', y.secret # 0 PROVE AccUpTo(y, account')
    <3>1. CASE y = x
      BY <1>5, <1>8, <2>2, <3>1 DEF AccUpTo
    <3>2. CASE y \in spent
      <4>1. AccUpTo(y, account) /\ y.step \in Nat
        BY <2>1, <2>2, <2>5, <3>2
      <4> QED BY <1>2, <1>8, <2>2, <4>1 DEF AccUpTo
    <3> QED BY <1>6, <3>1, <3>2
  <2>6. ASSUME NEW y \in spent', y.secret # 0, NEW d \in Calls, "last" \notin loginCall'[d].stale
        PROVE  AccUpTo(y, loginCall'[d].read)
    <3>1. CASE d = c \/ loginCall[d].step = "idle"
      BY <1>7, <2>6, <3>1, AccShapes DEF AccUpTo
    <3>2. CASE d # c /\ loginCall[d].step # "idle"
      <4>1. account'.last = account.last
        BY <1>4, <1>7, <2>6, <3>2
      <4> QED BY <1>2, <1>8, <2>2, <4>1
    <3> QED BY <3>1, <3>2
  <2> QED BY <2>4, <2>5, <2>6 DEF AccCodes
<1> QED BY <1>10, <1>11, <1>12, <1>13, <1>14 DEF AccIInv

(* The passwords and secrets a request makes are new.                      *)
LEMMA AccRekeyed ==
  ASSUME NEW r \in Acc!Row, made \in Nat
  PROVE  /\ Acc!Rekeyed(r) \in Acc!Row /\ Acc!Rekeyed(r).epoch = r.epoch + 1 /\ Acc!Rekeyed(r).password = made + 1
         /\ Acc!Rekeyed(r).reset = r.reset /\ Acc!Rekeyed(r).secret = r.secret /\ Acc!Rekeyed(r).last = r.last
<1> DEFINE f(p, e) == [r EXCEPT !.password = p, !.epoch = e]
<1>1. ASSUME NEW p \in Nat, NEW e \in Nat
      PROVE  /\ f(p, e) \in Acc!Row /\ f(p, e).epoch = e /\ f(p, e).password = p
             /\ f(p, e).reset = r.reset /\ f(p, e).secret = r.secret /\ f(p, e).last = r.last
  BY <1>1 DEF Acc!Row
<1>2. made + 1 \in Nat /\ r.epoch + 1 \in Nat
  BY DEF Acc!Row
<1>3. Acc!Rekeyed(r) = f(made + 1, r.epoch + 1)
  BY DEF Acc!Rekeyed, Acc!NextEpoch
<1> HIDE DEF f
<1> QED BY <1>1, <1>2, <1>3

LEMMA AccEditWrite ==
  ASSUME Acc!AccountsAssumption, AccIInv, NEW c \in Calls, Acc!EditWrite(c)
  PROVE  AccIInv'
<1> DEFINE r == loginCall[c]  new == IF r.arg = 1 THEN Acc!Rekeyed(r.read) ELSE r.read
<1>1. /\ r.step = "edit" /\ Acc!Store(c, new, AccNames) /\ made' = made + r.arg
      /\ UNCHANGED <<loginNow, failures, sessions, spent, again, requests, restarts>>
  <2>1. DOMAIN account = AccNames
    BY AccAt, AccShapes
  <2> QED BY <2>1 DEF Acc!EditWrite
<1>2. r.read \in Acc!Row /\ r.arg \in Nat /\ r.read.reset <= made /\ r.read.secret <= made /\ made \in Nat
  BY AccAt DEF AccCall, AccOthers
<1>3. /\ new \in Acc!Row /\ new.reset = r.read.reset /\ new.secret = r.read.secret /\ new.last = r.read.last
      /\ \/ new.epoch = r.read.epoch + 1
         \/ new.epoch = r.read.epoch /\ new.password = r.read.password
  BY <1>2, AccRekeyed
<1>4. AccNames \in SUBSET AccNames /\ {"password", "epoch", "reset", "secret", "last"} \subseteq AccNames
  BY AccShapes
<1> HIDE DEF new
<1>5. /\ lost \subseteq lost' /\ account' \in Acc!Row
      /\ \A k \in AccNames : account'[k] = IF k \in AccNames THEN new[k] ELSE account[k]
      /\ \A k \in AccNames \ lost' : account[k] = r.read[k]
      /\ lost' = lost \union (AccNames \intersect r.stale)
  BY <1>1, <1>3, <1>4, AccAt, AccStored
<1>6. account'.epoch = new.epoch /\ account'.password = new.password /\ account'.reset = new.reset
      /\ account'.secret = new.secret /\ account'.last = new.last
  BY <1>4, <1>5
<1>7. AccOthers'
  BY <1>1, <1>2, AccAt DEF AccOthers, AccMarks
<1>8. AccTyped'
  <2>1. \A x \in spent' : AccSpent(x, made')
    BY <1>1, <1>2, AccAt DEF AccSpent, AccOthers, AccMarks
  <2>2. made <= made' /\ new.reset <= made' /\ new.secret <= made'
    BY <1>1, <1>2, <1>3 DEF Acc!Row
  <2> QED BY <1>1, <1>3, <1>4, <1>7, <2>1, <2>2, AccWriteTyped
<1>9. AccSessions'
  <2>1. {"password", "epoch"} \intersect lost' = {} => r.read.epoch = account.epoch /\ r.read.password = account.password
    BY <1>4, <1>5
  <2>2. {"password", "epoch"} \intersect lost' = {} =>
           \/ account'.password = account.password /\ account'.epoch = account.epoch
           \/ account'.epoch = account.epoch + 1
    BY <1>3, <1>6, <2>1
  <2> QED BY <1>1, <1>3, <1>4, <2>2, AccWriteSessions
<1>10. AccThrottle'
  BY <1>1, <1>3, <1>4, AccWriteThrottle
<1>11. AccTokens'
  <2>1. "reset" \notin lost' => account'.reset = account.reset
    BY <1>3, <1>4, <1>5, <1>6
  <2> QED BY <1>1, <1>5, <2>1, AccAt DEF AccTokens
<1>12. AccCodes'
  <2>1. ASSUME "last" \notin lost', NEW x \in spent, "last" \notin r.stale => AccUpTo(x, r.read)
        PROVE  AccUpTo(x, account')
    BY <1>3, <1>4, <1>5, <1>6, <2>1 DEF AccUpTo
  <2> QED BY <1>1, <1>3, <1>4, <2>1, AccWriteCodes
<1> QED BY <1>8, <1>9, <1>10, <1>11, <1>12 DEF AccIInv

LEMMA AccForgotWrite ==
  ASSUME Acc!AccountsAssumption, AccIInv, NEW c \in Calls, Acc!ForgotWrite(c)
  PROVE  AccIInv'
<1> DEFINE r == loginCall[c]  new == [account EXCEPT !.reset = made + 1, !.expires = loginNow + TokenLife]
           columns == {"reset", "expires"}
<1>1. /\ r.step = "forgot" /\ Acc!Store(c, new, columns) /\ made' = made + 1
      /\ UNCHANGED <<loginNow, failures, sessions, spent, again, requests, restarts>>
  BY DEF Acc!ForgotWrite
<1>2. made \in Nat /\ loginNow \in Nat /\ TokenLife \in Nat
  BY AccAt DEF AccOthers, Acc!AccountsAssumption
<1>3. new \in Acc!Row /\ new.reset = made + 1 /\ new.secret = account.secret
  <2> DEFINE f(p, e) == [account EXCEPT !.reset = p, !.expires = e]
  <2>1. ASSUME NEW p \in Nat, NEW e \in Nat
        PROVE  f(p, e) \in Acc!Row /\ f(p, e).reset = p /\ f(p, e).secret = account.secret
    BY <2>1, AccAt DEF Acc!Row
  <2>2. made + 1 \in Nat /\ loginNow + TokenLife \in Nat /\ new = f(made + 1, loginNow + TokenLife)
    BY <1>2
  <2> HIDE DEF f, new
  <2> QED BY <2>1, <2>2
<1>4. columns \in SUBSET AccNames /\ {"password", "epoch", "reset", "secret", "last"} \subseteq AccNames
  BY AccShapes
<1> HIDE DEF new
<1>5. /\ lost \subseteq lost' /\ account' \in Acc!Row
      /\ \A k \in AccNames : account'[k] = IF k \in columns THEN new[k] ELSE account[k]
  BY <1>1, <1>3, <1>4, AccAt, AccStored
<1>6. /\ account'.epoch = account.epoch /\ account'.password = account.password /\ account'.reset = made + 1
      /\ account'.secret = account.secret /\ account'.last = account.last
  BY <1>3, <1>4, <1>5
<1>7. AccOthers'
  BY <1>1, <1>2, AccAt DEF AccOthers, AccMarks
<1>8. AccTyped'
  <2>1. \A x \in spent' : AccSpent(x, made')
    BY <1>1, <1>2, AccAt DEF AccSpent, AccOthers, AccMarks
  <2>2. made <= made' /\ new.reset <= made' /\ new.secret <= made'
    BY <1>1, <1>2, <1>3, AccAt DEF Acc!Row
  <2> QED BY <1>1, <1>3, <1>4, <1>7, <2>1, <2>2, AccWriteTyped
<1>9. AccSessions'
  BY <1>1, <1>3, <1>4, <1>6, AccWriteSessions
<1>10. AccThrottle'
  BY <1>1, <1>3, <1>4, AccWriteThrottle
<1>11. AccTokens'
  <2>1. \A x \in spent : x.secret = 0 => x.step # made + 1
    BY <1>2, AccAt DEF AccSpent, AccOthers, AccMarks
  <2> QED BY <1>1, <1>5, <1>6, <2>1, AccAt DEF AccTokens
<1>12. AccCodes'
  <2>1. \A x \in spent : AccUpTo(x, account) => AccUpTo(x, account')
    BY <1>6 DEF AccUpTo
  <2> QED BY <1>1, <1>3, <1>4, <2>1, AccWriteCodes
<1> QED BY <1>8, <1>9, <1>10, <1>11, <1>12 DEF AccIInv

LEMMA AccResetWrite ==
  ASSUME Acc!AccountsAssumption, AccIInv, NEW c \in Calls, Acc!ResetWrite(c)
  PROVE  AccIInv'
<1> DEFINE r == loginCall[c]  new == [Acc!Rekeyed(r.read) EXCEPT !.reset = 0, !.expires = 0]
           columns == {"password", "epoch", "reset", "expires"}  x == [secret |-> 0, step |-> r.arg]
<1>1. /\ r.step = "reset" /\ Acc!Store(c, new, columns) /\ Acc!Spend(x)
      /\ sessions' = sessions \union {Acc!Session(new)} /\ made' = made + 1
      /\ UNCHANGED <<loginNow, failures, requests, restarts>>
  BY DEF Acc!ResetWrite
<1>2. /\ r.read \in Acc!Row /\ r.arg \in Nat /\ r.arg = r.read.reset /\ r.arg # 0 /\ r.read.reset <= made
      /\ r.read.secret <= made /\ made \in Nat
  BY <1>1, AccAt DEF AccCall, AccOthers
<1>3. /\ new \in Acc!Row /\ new.reset = 0 /\ new.secret = r.read.secret /\ new.epoch = r.read.epoch + 1
  BY <1>2, AccRekeyed DEF Acc!Row
<1>4. columns \in SUBSET AccNames /\ {"password", "epoch", "reset", "secret", "last"} \subseteq AccNames
  BY AccShapes
<1>5. x \in [secret: Nat, step: Nat] /\ x.secret = 0 /\ x.step = r.arg
  BY <1>2
<1>6. spent' = spent \union {x} /\ again' = again \union ({x} \intersect spent)
  BY <1>1 DEF Acc!Spend
<1> HIDE DEF new, x
<1>7. /\ lost \subseteq lost' /\ account' \in Acc!Row
      /\ \A k \in AccNames : account'[k] = IF k \in columns THEN new[k] ELSE account[k]
      /\ \A k \in columns \ lost' : account[k] = r.read[k]
  BY <1>1, <1>3, <1>4, AccAt, AccStored
<1>8. /\ account'.epoch = new.epoch /\ account'.password = new.password /\ account'.reset = 0
      /\ account'.secret = account.secret /\ account'.last = account.last
  BY <1>3, <1>4, <1>7
<1>9. AccOthers'
  <2>1. Acc!Session(new) \in [password: Nat, epoch: Nat]
    BY <1>3 DEF Acc!Session, Acc!Row
  <2> QED BY <1>1, <1>2, <1>5, <1>6, <2>1, AccAt DEF AccOthers, AccMarks
<1>10. AccTyped'
  <2>1. \A y \in spent' : AccSpent(y, made')
    BY <1>1, <1>2, <1>5, <1>6, AccAt DEF AccSpent, AccOthers, AccMarks
  <2>2. made <= made' /\ new.reset <= made' /\ new.secret <= made'
    BY <1>1, <1>2, <1>3 DEF Acc!Row
  <2> QED BY <1>1, <1>3, <1>4, <1>9, <2>1, <2>2, AccWriteTyped
<1>11. AccSessions'
  <2>1. {"password", "epoch"} \intersect lost' = {} => account'.epoch = account.epoch + 1
    BY <1>3, <1>4, <1>7, <1>8
  <2>2. Acc!Session(new) = Acc!Session(account')
    BY <1>8 DEF Acc!Session
  <2> QED BY <1>1, <1>3, <1>4, <2>1, <2>2, AccWriteSessions
<1>12. AccThrottle'
  BY <1>1, <1>3, <1>4, AccWriteThrottle
<1>13. AccTokens'
  <2> SUFFICES ASSUME "reset" \notin lost' PROVE AccTokens'
    BY DEF AccTokens
  <2>1. account.reset = r.arg /\ "reset" \notin lost
    BY <1>2, <1>7
  <2>2. x \notin spent
    BY <1>5, <2>1, AccAt DEF AccTokens
  <2>3. \A y \in spent' : y.secret = 0 => y.step # 0
    BY <1>2, <1>5, <1>6, AccAt DEF AccSpent
  <2> QED BY <1>6, <1>8, <2>1, <2>2, <2>3, AccAt DEF AccTokens
<1>14. AccCodes'
  <2>1. \A y \in spent : AccUpTo(y, account) => AccUpTo(y, account')
    BY <1>8 DEF AccUpTo
  <2> QED BY <1>1, <1>3, <1>4, <1>5, <1>6, <2>1, AccWriteCodes
<1> QED BY <1>10, <1>11, <1>12, <1>13, <1>14 DEF AccIInv

LEMMA AccSettingWrite ==
  ASSUME Acc!AccountsAssumption, AccIInv, NEW c \in Calls, Acc!SettingWrite(c)
  PROVE  AccIInv'
<1> DEFINE step == loginCall[c].step  new == Acc!Values(step)  columns == Acc!SetBy(step)
<1>1. /\ step \in {"verify", "setup", "enable", "disable"} /\ Acc!Store(c, new, columns)
      /\ made' = IF step = "setup" THEN made + 1 ELSE made
      /\ UNCHANGED <<loginNow, failures, sessions, spent, again, requests, restarts>>
  BY DEF Acc!SettingWrite
<1>2. made \in Nat /\ made' \in Nat /\ made <= made'
  BY <1>1, AccAt DEF AccOthers
<1>3. /\ new \in Acc!Row /\ new.reset = 0 /\ new.secret = IF step = "setup" THEN made + 1 ELSE 0
  <2>1. ASSUME NEW b \in BOOLEAN, NEW n \in Nat, NEW f, f = [Acc!NewRow EXCEPT !.verified = TRUE, !.enabled = b, !.secret = n]
        PROVE  f \in Acc!Row /\ f.reset = 0 /\ f.secret = n
    BY <2>1, AccShapes DEF Acc!Row
  <2>2. (step = "enable") \in BOOLEAN /\ (IF step = "setup" THEN made + 1 ELSE 0) \in Nat
    BY <1>2
  <2> QED BY <2>1, <2>2 DEF Acc!Values
<1>4. /\ columns \in SUBSET AccNames /\ {"password", "epoch", "reset", "secret", "last"} \subseteq AccNames
      /\ {"password", "epoch", "reset"} \intersect columns = {}
      /\ "last" \in columns => "secret" \in columns /\ step = "disable"
  BY <1>1, AccShapes DEF Acc!SetBy
<1>5. step # "idle"
  BY <1>1
<1> HIDE DEF new, columns, step
<1>6. /\ lost \subseteq lost' /\ account' \in Acc!Row
      /\ \A k \in AccNames : account'[k] = IF k \in columns THEN new[k] ELSE account[k]
  BY <1>1, <1>3, <1>4, <1>5, AccAt, AccStored DEF step
<1>7. /\ account'.epoch = account.epoch /\ account'.password = account.password /\ account'.reset = account.reset
      /\ account'.secret = (IF "secret" \in columns THEN new.secret ELSE account.secret)
      /\ "last" \notin columns => account'.last = account.last
  BY <1>4, <1>6
<1>8. AccOthers'
  BY <1>1, <1>2, AccAt DEF AccOthers, AccMarks
<1>9. AccTyped'
  <2>1. \A x \in spent' : AccSpent(x, made')
    BY <1>1, <1>2, AccAt DEF AccSpent, AccOthers, AccMarks
  <2>2. new.reset <= made' /\ new.secret <= made'
    BY <1>1, <1>2, <1>3
  <2> QED BY <1>1, <1>2, <1>3, <1>4, <1>5, <1>8, <2>1, <2>2, AccWriteTyped DEF step
<1>10. AccSessions'
  BY <1>1, <1>3, <1>4, <1>5, <1>7, AccWriteSessions DEF step
<1>11. AccThrottle'
  BY <1>1, <1>3, <1>4, <1>5, AccWriteThrottle DEF step
<1>12. AccTokens'
  BY <1>1, <1>6, <1>7, AccAt DEF AccTokens
<1>13. AccCodes'
  <2>1. ASSUME NEW x \in spent, x.secret # 0, AccUpTo(x, account), AccSpent(x, made) PROVE AccUpTo(x, account')
    <3>1. x.secret # made + 1
      BY <1>2, <2>1, AccAt DEF AccSpent, AccOthers, AccMarks
    <3> QED BY <1>3, <1>4, <1>7, <2>1, <3>1 DEF AccUpTo
  <2> QED BY <1>1, <1>3, <1>4, <1>5, <2>1, AccWriteCodes DEF step
<1> QED BY <1>9, <1>10, <1>11, <1>12, <1>13 DEF AccIInv

LEMMA AccInitIInv == Acc!AccountsAssumption /\ Acc!Init => AccIInv
<1> SUFFICES ASSUME Acc!AccountsAssumption, Acc!Init PROVE AccIInv
  OBVIOUS
<1>1. /\ loginNow = 1 /\ failures = Acc!NoFailures /\ loginCall = [c \in Calls |-> Acc!Idle]
      /\ sessions = {} /\ made = 0 /\ spent = {} /\ again = {} /\ lost = {} /\ requests = 0 /\ restarts = 0
  BY DEF Acc!Init
<1>2. account \in Acc!Row /\ account.reset = 0 /\ account.secret = 0
  BY AccShapes DEF Acc!Init, Acc!Row
<1>3. AccOthers
  BY <1>1 DEF AccOthers, AccMarks, Acc!NoFailures, Acc!AccountsAssumption
<1>4. \A c \in Calls : loginCall[c] = Acc!Idle
  BY <1>1
<1>5. AccTyped
  <2>1. \A c \in Calls : AccCall(loginCall[c], made) /\ AccFresh(loginCall[c], account)
    BY <1>1, <1>4, AccShapes DEF AccCall, AccFresh
  <2> QED BY <1>1, <1>2, <1>3, <2>1, AccShapes, AccTypeOK DEF AccShaped, AccTyped
<1>6. AccTokens /\ AccCodes /\ AccSessions
  BY <1>1, <1>4, AccShapes DEF AccTokens, AccCodes, AccSessions
<1>7. AccThrottle
  <2>1. AccTrying = {}
    BY <1>4, AccShapes DEF AccTrying
  <2>2. Cardinality(Calls) \in Nat /\ Cardinality({}) = 0
    BY AccFinite, FS_CardinalityType, FS_EmptySet
  <2> QED BY <1>1, <2>1, <2>2 DEF AccThrottle, Acc!NoFailures, Acc!AccountsAssumption
<1> QED BY <1>5, <1>6, <1>7 DEF AccIInv

LEMMA AccStepIInv == Acc!AccountsAssumption /\ AccIInv /\ [Acc!Next]_Acc!vars => AccIInv'
<1> SUFFICES ASSUME Acc!AccountsAssumption, AccIInv, [Acc!Next]_Acc!vars PROVE AccIInv'
  OBVIOUS
<1>1. CASE AccQuietNext
  BY <1>1, AccQuietSteps, AccQuietKeeps DEF AccIInv
<1>2. ASSUME NEW c \in Calls,
             \/ Acc!LoginStamp(c) \/ Acc!EditWrite(c) \/ Acc!ForgotWrite(c) \/ Acc!ResetWrite(c) \/ Acc!SettingWrite(c)
      PROVE  AccIInv'
  BY <1>2, AccLoginStamp, AccEditWrite, AccForgotWrite, AccResetWrite, AccSettingWrite
<1>3. CASE UNCHANGED Acc!vars
  <2>1. UNCHANGED <<loginNow, account, failures, loginCall, sessions, made, spent, again, lost, requests, restarts>>
    BY <1>3 DEF Acc!vars, Acc!history
  <2>2. AccTrying' = AccTrying
    BY <2>1 DEF AccTrying
  <2>3. AccTyped'
    BY <2>1, AccTypeOK DEF AccIInv, AccTyped, AccShaped, AccOthers
  <2> QED BY <2>1, <2>2, <2>3 DEF AccIInv, AccTokens, AccCodes, AccSessions, AccThrottle
<1> QED BY <1>1, <1>2, <1>3 DEF Acc!Next, Acc!Login, Acc!Password, Acc!Settings, AccQuietNext

LEMMA AccSafe == Acc!AccountsAssumption /\ AccIInv => Acc!SessionsEnd /\ Acc!SingleUse /\ Acc!ThrottleHolds
<1> SUFFICES ASSUME Acc!AccountsAssumption, AccIInv PROVE Acc!SessionsEnd /\ Acc!SingleUse /\ Acc!ThrottleHolds
  OBVIOUS
<1>1. Acc!SessionsEnd
  BY DEF AccIInv, AccSessions, AccOf, Acc!SessionsEnd, Acc!Honoured
<1>2. Acc!SingleUse
  BY DEF AccIInv, AccTokens, AccCodes, Acc!SingleUse
<1>3. Acc!ThrottleHolds
  <2>1. IsFiniteSet(Calls) /\ AccTrying \subseteq Calls
    BY AccFinite DEF AccTrying
  <2>2. Cardinality(AccTrying) \in Nat /\ Cardinality(Calls) \in Nat
    BY <2>1, FS_Subset, FS_CardinalityType
  <2>3. failures.count \in Nat
    BY AccAt DEF AccOthers
  <2> QED BY <2>2, <2>3, AccCardinality DEF AccIInv, AccThrottle, Acc!ThrottleHolds, Acc!AccountsAssumption
<1> QED BY <1>1, <1>2, <1>3

LEMMA AccRuns == (Init => Acc!Init) /\ ([Next]_vars => [Acc!Next]_Acc!vars)
<1>1. Init => Acc!Init
  BY DEF Init
<1>2. [Next]_vars => [Acc!Next]_Acc!vars
  BY DEF Next, vars, accounts, Acc!vars, Acc!history
<1> QED BY <1>1, <1>2

LEMMA AccAlways == Spec => []AccIInv
<1>1. Acc!AccountsAssumption
  BY ServicesAssumption DEF ServicesAssumption
<1>2. Init => AccIInv
  BY <1>1, AccRuns, AccInitIInv
<1>3. AccIInv /\ [Next]_vars => AccIInv'
  BY <1>1, AccRuns, AccStepIInv
<1> QED BY <1>2, <1>3, PTL DEF Spec

(* A session ends with the password it was opened with, unless a password  *)
(* or an epoch was written by a call under which it had changed: sessions, *)
(* and the rows calls are deciding on, are of an earlier epoch or have the *)
(* password of this one.                                                   *)
THEOREM SessionsEndWithPasswords == Spec => []SessionsEnd
<1>1. AccIInv => SessionsEnd
  BY ServicesAssumption, AccSafe DEF ServicesAssumption, SessionsEnd
<1> QED BY AccAlways, <1>1, PTL

(* A code or a reset token is accepted once, unless the column that says   *)
(* so was written by a call under which it had changed.                    *)
THEOREM AcceptedOnce == Spec => []SingleUse
<1>1. AccIInv => SingleUse
  BY ServicesAssumption, AccSafe DEF ServicesAssumption, SingleUse
<1> QED BY AccAlways, <1>1, PTL

(* However many sign-ins are under way, the failures on record exceed the  *)
(* limit by fewer than there may be calls in flight.                       *)
THEOREM GuessesAreBounded == Spec => []ThrottleHolds
<1>1. AccIInv => ThrottleHolds
  BY ServicesAssumption, AccSafe DEF ServicesAssumption, ThrottleHolds
<1> QED BY AccAlways, <1>1, PTL

-----------------------------------------------------------------------------
(* References.  The deletes under way, and those that are not the          *)
(* innermost.                                                              *)
FramesOf(s) == {s[k] : k \in 1..Len(s)}
BelowOf(s) == {s[k] : k \in 2..Len(s)}
RefFrames == FramesOf(stack)
RefBelow == BelowOf(stack)

(* A field of one value refers to one document.                            *)
RefOne(r) == \A d \in Docs, i \in Ref!RefFields : ~ schema[i].many => \A x, y \in r[d][i] : x = y

(* What a delete has found and still has to settle, as it was looked up.   *)
RefFound(f, m) ==
  /\ m.field \in Ref!RefFields /\ m.row \in before.live /\ f.id \in m.value /\ schema[m.field].on # "restrict"
  /\ schema[m.field].on = "cascade" => m.value = before.refs[m.row][m.field]
  /\ ~ schema[m.field].many => \A x, y \in m.value : x = y

(* It is still to settle that v is referred to by field i of d.            *)
RefPending(v, d, i) ==
  \E f \in RefFrames : f.step = "settle" /\ f.id = v /\ \E m \in f.todo : m.row = d /\ m.field = i

RefEntering(d) == Head(stack).step = "enter" /\ Head(stack).id = d

RefVisited == visited \intersect before.live

(* What is visited is gone or on its way; only the innermost delete may    *)
(* not have been visited.                                                  *)
RefTower ==
  /\ \A f \in RefBelow : f.step = "settle"
  /\ Head(stack).step = "enter" => Head(stack).id \notin visited
  /\ \A f \in RefFrames : f.step = "settle" => f.id \in RefVisited
  /\ Ref!Removed \subseteq visited
  /\ \A v \in RefVisited : v \in Ref!Removed \/ \E f \in RefFrames : f.step = "settle" /\ f.id = v

RefFoundAll == \A f \in RefFrames : \A m \in f.todo : RefFound(f, m)

(* Only setNull writes.                                                    *)
RefKept == \A d \in Docs, i \in Ref!RefFields : schema[i].on # "setNull" => refs[d][i] = before.refs[d][i]

(* Whoever cascades from a visited document is visited, or about to be.    *)
RefClosing ==
  \A v \in RefVisited, d \in before.live, i \in Ref!FieldsOn("cascade") :
    v \in before.refs[d][i] => d \in RefVisited \/ RefEntering(d) \/ RefPending(v, d, i)

(* All that is visited cascades from one document.                         *)
RefReach(b) ==
  \A S \in SUBSET before.live :
    b \in S /\ Ref!Closed(S) => RefVisited \subseteq S /\ \A f \in RefFrames : f.id \in S
RefRooted == \E b \in Docs : (b \in RefVisited \/ \E f \in RefFrames : f.id = b) /\ RefReach(b)

(* Nobody that is left restricts a visited document; a single reference to *)
(* one is still to be taken away.                                          *)
RefUnrestricted ==
  \A v \in RefVisited, d \in live, i \in Ref!FieldsOn("restrict") : v \notin before.refs[d][i]
RefLeaving ==
  \A v \in RefVisited, d \in live, i \in Ref!FieldsOn("setNull") :
    ~ schema[i].many /\ v \in refs[d][i] => RefPending(v, d, i)

(* While a delete is under way.                                            *)
RefNow ==
  /\ outcome = "under way" /\ live \subseteq before.live
  /\ audited \intersect before.live = {} /\ post \intersect live = {}
RefWay ==
  /\ RefNow /\ RefTower /\ RefFoundAll /\ RefKept
  /\ RefClosing /\ RefRooted /\ RefUnrestricted /\ RefLeaving

(* Between them.                                                           *)
RefRest ==
  /\ outcome # "under way" /\ post = {} /\ audited \intersect live = {}
  /\ batch # <<>> => visited \intersect live = {}
  /\ Ref!RemovesTheCascade /\ Ref!SingleRefsAreSound

RefTyped == Ref!TypeOK /\ RefOne(refs) /\ RefOne(before.refs)
RefIInv == RefTyped /\ IF stack = <<>> THEN RefRest ELSE RefWay

(* The stack as a sequence.                                                *)
LEMMA RefSequence ==
  ASSUME NEW s \in Seq(Ref!Frame), s # <<>>
  PROVE  /\ Head(s) \in Ref!Frame /\ FramesOf(s) = {Head(s)} \union BelowOf(s) /\ FramesOf(s) \subseteq Ref!Frame
         /\ Tail(s) \in Seq(Ref!Frame) /\ FramesOf(Tail(s)) = BelowOf(s) /\ BelowOf(Tail(s)) \subseteq BelowOf(s)
         /\ Tail(s) = <<>> <=> Len(s) = 1
<1>1. Len(s) \in Nat \ {0} /\ Head(s) = s[1] /\ \A k \in 1..Len(s) : s[k] \in Ref!Frame
  OBVIOUS
<1>2. FramesOf(s) = {Head(s)} \union BelowOf(s) /\ FramesOf(s) \subseteq Ref!Frame
  <2>1. 1..Len(s) = {1} \union 2..Len(s)
    BY <1>1
  <2> QED BY <1>1, <2>1 DEF FramesOf, BelowOf
<1>3. Tail(s) \in Seq(Ref!Frame) /\ Len(Tail(s)) = Len(s) - 1 /\ \A k \in 1..Len(s) - 1 : Tail(s)[k] = s[k + 1]
  BY <1>1
<1>4. FramesOf(Tail(s)) = BelowOf(s)
  <2>1. \A k \in 1..Len(Tail(s)) : Tail(s)[k] = s[k + 1] /\ k + 1 \in 2..Len(s)
    BY <1>1, <1>3
  <2>2. \A k \in 2..Len(s) : s[k] = Tail(s)[k - 1] /\ k - 1 \in 1..Len(Tail(s))
    BY <1>1, <1>3
  <2> QED BY <2>1, <2>2 DEF FramesOf, BelowOf
<1>5. BelowOf(Tail(s)) \subseteq BelowOf(s)
  <2>1. \A k \in 2..Len(Tail(s)) : Tail(s)[k] = s[k + 1] /\ k + 1 \in 2..Len(s)
    BY <1>1, <1>3
  <2> QED BY <2>1 DEF BelowOf
<1>6. Tail(s) = <<>> <=> Len(s) = 1
  BY <1>1, <1>3
<1> QED BY <1>1, <1>2, <1>3, <1>4, <1>5, <1>6

LEMMA RefPushed ==
  ASSUME NEW s \in Seq(Ref!Frame), NEW f \in Ref!Frame
  PROVE  /\ <<f>> \o s \in Seq(Ref!Frame) /\ <<f>> \o s # <<>> /\ Head(<<f>> \o s) = f
         /\ BelowOf(<<f>> \o s) = FramesOf(s) /\ FramesOf(<<f>> \o s) = {f} \union FramesOf(s)
<1> DEFINE t == <<f>> \o s
<1>1. t \in Seq(Ref!Frame) /\ Len(t) = Len(s) + 1 /\ Len(s) \in Nat /\ t[1] = f /\ \A k \in 1..Len(s) : t[k + 1] = s[k]
  OBVIOUS
<1> HIDE DEF t
<1>2. t # <<>> /\ Head(t) = f
  BY <1>1
<1>3. BelowOf(t) = FramesOf(s)
  <2>1. \A k \in 2..Len(t) : t[k] = s[k - 1] /\ k - 1 \in 1..Len(s)
    <3>1. ASSUME NEW k \in 2..Len(t) PROVE t[k] = s[k - 1] /\ k - 1 \in 1..Len(s)
      <4>1. k - 1 \in 1..Len(s) /\ (k - 1) + 1 = k
        BY <1>1
      <4> QED BY <1>1, <4>1
    <3> QED BY <3>1
  <2>2. \A k \in 1..Len(s) : s[k] = t[k + 1] /\ k + 1 \in 2..Len(t)
    BY <1>1
  <2>3. BelowOf(t) \subseteq FramesOf(s)
    BY <2>1 DEF FramesOf, BelowOf
  <2>4. FramesOf(s) \subseteq BelowOf(t)
    BY <2>2 DEF FramesOf, BelowOf
  <2> QED BY <2>3, <2>4
<1>4. FramesOf(t) = {f} \union FramesOf(s)
  BY <1>1, <1>2, <1>3, RefSequence
<1> QED BY <1>1, <1>2, <1>3, <1>4 DEF t

(* The innermost delete goes on.                                           *)
LEMMA RefInsteadOf ==
  ASSUME NEW s \in Seq(Ref!Frame), s # <<>>, NEW f \in Ref!Frame
  PROVE  LET t == <<f>> \o Tail(s)
         IN  /\ t \in Seq(Ref!Frame) /\ t # <<>> /\ Head(t) = f
             /\ BelowOf(t) = BelowOf(s) /\ FramesOf(t) = {f} \union BelowOf(s)
<1>1. PICK q : q = Tail(s)
  OBVIOUS
<1>2. q \in Seq(Ref!Frame) /\ FramesOf(q) = BelowOf(s)
  BY <1>1, RefSequence
<1>3. /\ <<f>> \o q \in Seq(Ref!Frame) /\ <<f>> \o q # <<>> /\ Head(<<f>> \o q) = f
      /\ BelowOf(<<f>> \o q) = FramesOf(q) /\ FramesOf(<<f>> \o q) = {f} \union FramesOf(q)
  BY <1>2, RefPushed
<1> QED BY <1>1, <1>2, <1>3

(* What is looked up.                                                      *)
LEMMA RefFields == ASSUME Ref!ReferencesAssumption, schema \in Schemas
                   PROVE  /\ Ref!RefFields \subseteq Nat
                          /\ \A i \in Ref!RefFields : schema[i].on \in Ref!Actions /\ schema[i].many \in BOOLEAN
<1> DEFINE Field == [on: Ref!Actions, many: BOOLEAN]
<1>1. schema \in Seq(Field)
  BY DEF Ref!ReferencesAssumption
<1>2. \A f \in Field : f.on \in Ref!Actions /\ f.many \in BOOLEAN
  OBVIOUS
<1> HIDE DEF Field
<1>3. DOMAIN schema = 1..Len(schema) /\ Len(schema) \in Nat /\ \A i \in 1..Len(schema) : schema[i] \in Field
  BY <1>1
<1> QED BY <1>2, <1>3 DEF Ref!RefFields

LEMMA RefLooksUp ==
  ASSUME Ref!ReferencesAssumption, Ref!TypeOK, NEW id \in Docs, NEW m \in Ref!Referrers(id)
  PROVE  m \in Ref!Match /\ m.field \in Ref!RefFields /\ m.row \in live /\ m.value = refs[m.row][m.field] /\ id \in m.value
<1>1. schema \in Schemas /\ live \subseteq Docs /\ refs \in [Docs -> [Ref!RefFields -> SUBSET Docs]]
  BY DEF Ref!TypeOK
<1>2. PICK i \in Ref!RefFields, d \in live : m = [field |-> i, row |-> d, value |-> refs[d][i]] /\ id \in m.value
  BY DEF Ref!Referrers
<1>3. m \in Ref!Match /\ m.field = i /\ m.row = d /\ m.value = refs[d][i]
  BY <1>1, <1>2, RefFields DEF Ref!Match
<1> QED BY <1>2, <1>3

LEMMA RefFinds ==
  ASSUME NEW id, NEW d \in live, NEW i \in Ref!RefFields, id \in refs[d][i]
  PROVE  \E m \in Ref!Referrers(id) : m.row = d /\ m.field = i
<1> DEFINE m == [field |-> i, row |-> d, value |-> refs[d][i]]
<1>1. m \in Ref!Referrers(id) /\ m.row = d /\ m.field = i
  BY DEF Ref!Referrers
<1> QED BY <1>1

RefMaking == Ref!ReferencesAssumption /\ RefIInv

LEMMA RefAt ==
  ASSUME RefMaking
  PROVE  /\ Ref!ReferencesAssumption /\ Ref!TypeOK /\ RefOne(refs) /\ RefOne(before.refs)
         /\ schema \in Schemas /\ live \subseteq Docs /\ refs \in [Docs -> [Ref!RefFields -> SUBSET Docs]]
         /\ batch \in Seq(Docs) /\ stack \in Seq(Ref!Frame) /\ visited \subseteq Docs /\ post \subseteq Docs
         /\ audited \subseteq Docs /\ before.live \subseteq Docs
         /\ before.refs \in [Docs -> [Ref!RefFields -> SUBSET Docs]]
         /\ outcome \in {"none", "under way", "done", "aborted"} /\ deletes \in 0..MaxDeletes
         /\ (stack = <<>> => RefRest) /\ (stack # <<>> => RefWay)
BY DEF RefMaking, RefIInv, RefTyped, Ref!TypeOK

LEMMA RefShapes ==
  /\ RefFrames = FramesOf(stack) /\ RefBelow = BelowOf(stack)
  /\ RefFrames' = FramesOf(stack') /\ RefBelow' = BelowOf(stack')
BY DEF RefFrames, RefBelow, FramesOf, BelowOf

LEMMA RefGoesOn ==
  ASSUME stack \in Seq(Ref!Frame), stack # <<>>, NEW f \in Ref!Frame, stack' = <<f>> \o Tail(stack)
  PROVE  /\ stack' \in Seq(Ref!Frame) /\ stack' # <<>> /\ Head(stack') = f /\ RefBelow' = RefBelow
         /\ RefFrames' = {f} \union RefBelow
<1> DEFINE t == <<f>> \o Tail(stack)
<1>1. /\ t \in Seq(Ref!Frame) /\ t # <<>> /\ Head(t) = f
      /\ BelowOf(t) = BelowOf(stack) /\ FramesOf(t) = {f} \union BelowOf(stack)
  BY RefInsteadOf
<1> QED BY <1>1, RefShapes

LEMMA RefTypedStays ==
  ASSUME RefMaking, UNCHANGED <<schema, refs, before>>, live' \subseteq Docs, batch' \in Seq(Docs),
         stack' \in Seq(Ref!Frame), visited' \subseteq Docs, post' \subseteq Docs, audited' \subseteq Docs,
         outcome' \in {"none", "under way", "done", "aborted"}, deletes' \in 0..MaxDeletes
  PROVE  RefTyped'
<1>1. Ref!TypeOK'
  BY RefAt DEF Ref!TypeOK, Ref!RefFields
<1>2. RefOne(refs)' /\ RefOne(before.refs)'
  BY RefAt DEF RefOne, Ref!RefFields
<1> QED BY <1>1, <1>2 DEF RefTyped

(* A delete is under way.                                                  *)
LEMMA RefOn ==
  ASSUME RefMaking, stack # <<>>
  PROVE  /\ Head(stack) \in Ref!Frame /\ RefFrames = {Head(stack)} \union RefBelow /\ RefFrames \subseteq Ref!Frame
         /\ RefWay
BY RefAt, RefSequence DEF RefFrames, RefBelow

(* A look-up finds all there is to settle, or something that restricts.    *)
LEMMA RefLookUp == ASSUME RefMaking, Ref!LookUp PROVE RefIInv'
<1>t. PICK t : t = Head(stack)
  OBVIOUS
<1>r. PICK R : R = Ref!Referrers(t.id)
  OBVIOUS
<1>f. PICK f : f = [t EXCEPT !.step = "settle", !.todo = R]
  OBVIOUS
<1>1. /\ stack # <<>> /\ t.step = "enter" /\ t.id \in live /\ ~ Ref!Blocked(t.id)
      /\ stack' = <<f>> \o Tail(stack) /\ visited' = visited \union {t.id}
      /\ UNCHANGED <<schema, live, refs, batch, post, audited, before, outcome, deletes>>
  BY <1>t, <1>r, <1>f DEF Ref!LookUp, Ref!Under, Ref!Top, Ref!Instead
<1>2. /\ t \in Ref!Frame /\ RefFrames = {t} \union RefBelow /\ RefFrames \subseteq Ref!Frame
      /\ RefNow /\ RefTower /\ RefFoundAll /\ RefKept /\ RefClosing /\ RefRooted /\ RefUnrestricted /\ RefLeaving
  BY <1>t, <1>1, RefOn DEF RefWay
<1>3. /\ \A m \in R : m \in Ref!Match /\ m.field \in Ref!RefFields /\ m.row \in live /\ m.value = refs[m.row][m.field] /\ t.id \in m.value
      /\ \A d \in live, i \in Ref!RefFields : t.id \in refs[d][i] => \E m \in R : m.row = d /\ m.field = i
  <2>1. t.id \in Docs
    BY <1>2 DEF Ref!Frame
  <2>2. ASSUME NEW m \in R
        PROVE  m \in Ref!Match /\ m.field \in Ref!RefFields /\ m.row \in live /\ m.value = refs[m.row][m.field] /\ t.id \in m.value
    <3>1. m \in Ref!Referrers(t.id)
      BY <1>r
    <3> QED BY <2>1, <3>1, RefAt, RefLooksUp
  <2>3. ASSUME NEW d \in live, NEW i \in Ref!RefFields, t.id \in refs[d][i] PROVE \E m \in R : m.row = d /\ m.field = i
    <3>1. \E m \in Ref!Referrers(t.id) : m.row = d /\ m.field = i
      BY <2>3, RefFinds
    <3> QED BY <1>r, <3>1
  <2> QED BY <2>2, <2>3
<1>4. f \in Ref!Frame /\ f.step = "settle" /\ f.id = t.id /\ f.todo = R
  <2>1. R \in SUBSET Ref!Match
    BY <1>3
  <2> QED BY <1>f, <1>2, <2>1 DEF Ref!Frame
<1>5. ~ Ref!Blocked(t.id) => \A m \in R : schema[m.field].on # "restrict"
  BY <1>r DEF Ref!Blocked
<1>6. /\ stack' \in Seq(Ref!Frame) /\ stack' # <<>> /\ Head(stack') = f /\ RefBelow' = RefBelow
      /\ RefFrames' = {f} \union RefBelow
  BY <1>1, <1>4, RefAt, RefGoesOn
<1>7. t.id \in before.live /\ RefVisited' = RefVisited \union {t.id} /\ t.id \in Docs
  BY <1>1, <1>2, RefAt DEF RefNow, RefVisited
<1>8. RefTyped'
  BY <1>1, <1>6, <1>7, RefAt, RefTypedStays
<1>9. RefNow'
  BY <1>1, <1>2 DEF RefNow
<1>10. RefTower'
  BY <1>1, <1>2, <1>4, <1>6, <1>7 DEF RefTower, Ref!Removed
<1>11. RefFoundAll'
  <2>1. ASSUME NEW m \in R PROVE RefFound(f, m)'
    <3>1. /\ m.field \in Ref!RefFields /\ m.row \in before.live /\ m.row \in Docs /\ f.id \in m.value /\ schema[m.field].on # "restrict"
      BY <1>1, <1>2, <1>3, <1>4, <1>5, RefAt DEF RefNow
    <3>2. schema[m.field].on = "cascade" => m.value = before.refs[m.row][m.field]
      BY <1>2, <1>3, <3>1 DEF RefKept
    <3>3. ~ schema[m.field].many => \A x, y \in m.value : x = y
      <4>1. ~ schema[m.field].many => \A x, y \in refs[m.row][m.field] : x = y
        BY <3>1, RefAt DEF RefOne
      <4>2. m.value = refs[m.row][m.field]
        BY <1>3
      <4> QED BY <4>1, <4>2
    <3> QED BY <1>1, <3>1, <3>2, <3>3 DEF RefFound, Ref!RefFields
  <2>2. ASSUME NEW g \in RefBelow, NEW m \in g.todo PROVE RefFound(g, m)'
    BY <1>1, <1>2 DEF RefFoundAll, RefFound, Ref!RefFields
  <2> QED BY <1>4, <1>6, <2>1, <2>2 DEF RefFoundAll
<1>12. RefKept'
  BY <1>1, <1>2 DEF RefKept, Ref!RefFields
<1>13. \A v, d, i : RefPending(v, d, i) => RefPending(v, d, i)'
  BY <1>1, <1>2, <1>6 DEF RefPending
<1>14. \A d \in live, i \in Ref!RefFields : t.id \in refs[d][i] => RefPending(t.id, d, i)'
  BY <1>3, <1>4, <1>6 DEF RefPending
<1>15. RefClosing'
  <2> SUFFICES ASSUME NEW v \in RefVisited', NEW d \in before.live, NEW i \in Ref!FieldsOn("cascade"), v \in before.refs[d][i]
               PROVE  d \in RefVisited' \/ RefPending(v, d, i)'
    BY <1>1 DEF RefClosing, Ref!FieldsOn, Ref!RefFields
  <2>1. CASE v \in RefVisited
    <3>1. d \in RefVisited \/ RefEntering(d) \/ RefPending(v, d, i)
      BY <1>2, <2>1 DEF RefClosing
    <3> QED BY <1>t, <1>7, <1>13, <3>1 DEF RefEntering
  <2>2. CASE v = t.id
    <3>1. i \in Ref!RefFields /\ schema[i].on = "cascade" /\ d \in Docs
      BY RefAt DEF Ref!FieldsOn
    <3>2. CASE d \in live
      BY <1>2, <1>14, <2>2, <3>1, <3>2 DEF RefKept
    <3>3. CASE d \notin live
      BY <1>2, <1>7, <3>3 DEF RefTower, Ref!Removed, RefVisited
    <3> QED BY <3>2, <3>3
  <2> QED BY <1>7, <2>1, <2>2
<1>16. RefRooted'
  <2>1. PICK b \in Docs : (b \in RefVisited \/ \E g \in RefFrames : g.id = b) /\ RefReach(b)
    BY <1>2 DEF RefRooted
  <2>2. b \in RefVisited' \/ \E g \in RefFrames' : g.id = b
    BY <1>2, <1>4, <1>6, <1>7, <2>1
  <2>3. RefReach(b)'
    <3> SUFFICES ASSUME NEW S \in SUBSET before.live, b \in S, Ref!Closed(S)
                 PROVE  RefVisited' \subseteq S /\ \A g \in RefFrames' : g.id \in S
      BY <1>1 DEF RefReach, Ref!Closed, Ref!RefersTo, Ref!FieldsOn, Ref!RefFields
    <3>1. RefVisited \subseteq S /\ \A g \in RefFrames : g.id \in S
      BY <2>1 DEF RefReach
    <3> QED BY <1>2, <1>4, <1>6, <1>7, <3>1
  <2> QED BY <2>2, <2>3 DEF RefRooted
<1>17. RefUnrestricted'
  <2> SUFFICES ASSUME NEW v \in RefVisited', NEW d \in live, NEW i \in Ref!FieldsOn("restrict") PROVE v \notin before.refs[d][i]
    BY <1>1 DEF RefUnrestricted, Ref!FieldsOn, Ref!RefFields
  <2>1. CASE v \in RefVisited
    BY <1>2, <2>1 DEF RefUnrestricted
  <2>2. CASE v = t.id
    <3>1. i \in Ref!RefFields /\ schema[i].on = "restrict" /\ d \in Docs
      BY RefAt DEF Ref!FieldsOn
    <3> QED BY <1>1, <1>2, <1>3, <1>5, <2>2, <3>1 DEF RefKept
  <2> QED BY <1>7, <2>1, <2>2
<1>18. RefLeaving'
  <2> SUFFICES ASSUME NEW v \in RefVisited', NEW d \in live, NEW i \in Ref!FieldsOn("setNull"), ~ schema[i].many, v \in refs[d][i]
               PROVE  RefPending(v, d, i)'
    BY <1>1 DEF RefLeaving, Ref!FieldsOn, Ref!RefFields
  <2>1. CASE v \in RefVisited
    BY <1>2, <1>13, <2>1 DEF RefLeaving
  <2>2. CASE v = t.id
    BY <1>14, <2>2 DEF Ref!FieldsOn
  <2> QED BY <1>7, <2>1, <2>2
<1> QED BY <1>6, <1>8, <1>9, <1>10, <1>11, <1>12, <1>15, <1>16, <1>17, <1>18 DEF RefIInv, RefWay

(* One of the things found is settled; a delete it may cascade to is       *)
(* innermost now.                                                          *)
LEMMA RefSettles ==
  ASSUME RefMaking, stack # <<>>, UNCHANGED <<schema, live, visited, post, audited, before, outcome>>,
         NEW t, t = Head(stack), t.step = "settle", NEW m \in t.todo,
         NEW f \in Ref!Frame, f.step = "settle", f.id = t.id, f.todo = t.todo \ {m},
         {f} \union RefBelow \subseteq RefFrames',
         \A g \in RefFrames' \ ({f} \union RefBelow) : g.step = "enter" /\ g.todo = {}
  PROVE  /\ RefFound(t, m) /\ m.row \in Docs /\ RefVisited' = RefVisited /\ t.id \in RefVisited
         /\ RefNow' /\ RefFoundAll' /\ RefUnrestricted'
         /\ \A v, d, i : RefPending(v, d, i) => RefPending(v, d, i)' \/ (d = m.row /\ i = m.field)
         /\ \A g \in RefBelow : g.step = "settle"
         /\ \A g \in RefFrames' : g.step = "settle" => g.id \in RefVisited'
         /\ Ref!Removed' \subseteq visited'
         /\ \A v \in RefVisited' : v \in Ref!Removed' \/ \E g \in RefFrames' : g.step = "settle" /\ g.id = v
<1>1. t \in Ref!Frame /\ RefFrames = {t} \union RefBelow /\ RefNow /\ RefTower /\ RefFoundAll /\ RefUnrestricted
  BY RefOn DEF RefWay
<1>2. RefFound(t, m) /\ m.row \in Docs /\ t.id \in RefVisited
  <2>1. t \in RefFrames /\ RefFound(t, m)
    BY <1>1 DEF RefFoundAll
  <2>2. m.row \in Docs
    BY <2>1, RefAt DEF RefFound
  <2> QED BY <1>1, <2>1, <2>2 DEF RefTower
<1>3. RefVisited' = RefVisited /\ RefNow' /\ Ref!Removed' = Ref!Removed
  BY <1>1 DEF RefVisited, RefNow, Ref!Removed
<1>4. RefFoundAll'
  <2>1. \A g \in {t} \union RefBelow : \A n : n \in g.todo /\ RefFound(g, n) => RefFound(g, n)'
    BY DEF RefFound, Ref!RefFields
  <2>2. ASSUME NEW n \in f.todo PROVE RefFound(f, n)'
    <3>1. RefFound(t, n)
      BY <1>1, <2>2 DEF RefFoundAll
    <3> QED BY <3>1 DEF RefFound, Ref!RefFields
  <2>3. ASSUME NEW g \in RefBelow, NEW n \in g.todo PROVE RefFound(g, n)'
    BY <1>1, <2>1 DEF RefFoundAll
  <2> QED BY <2>2, <2>3 DEF RefFoundAll
<1>5. RefUnrestricted'
  BY <1>1, <1>3 DEF RefUnrestricted, Ref!FieldsOn, Ref!RefFields
<1>6. ASSUME NEW v, NEW d, NEW i, RefPending(v, d, i) PROVE RefPending(v, d, i)' \/ (d = m.row /\ i = m.field)
  <2>1. PICK g \in {t} \union RefBelow : g.step = "settle" /\ g.id = v /\ \E n \in g.todo : n.row = d /\ n.field = i
    BY <1>1, <1>6 DEF RefPending
  <2>2. CASE g \in RefBelow
    BY <2>1, <2>2 DEF RefPending
  <2>3. CASE g = t
    <3>1. PICK n \in t.todo : n.row = d /\ n.field = i
      BY <2>1, <2>3
    <3>2. CASE n = m
      BY <3>1, <3>2
    <3>3. CASE n # m
      BY <2>1, <2>3, <3>1, <3>3 DEF RefPending
    <3> QED BY <3>2, <3>3
  <2> QED BY <2>2, <2>3
<1>7. /\ \A g \in RefBelow : g.step = "settle"
      /\ \A g \in RefFrames' : g.step = "settle" => g.id \in RefVisited'
      /\ Ref!Removed' \subseteq visited'
  BY <1>1, <1>3 DEF RefTower
<1>8. \A v \in RefVisited' : v \in Ref!Removed' \/ \E g \in RefFrames' : g.step = "settle" /\ g.id = v
  BY <1>1, <1>3 DEF RefTower
<1> QED BY <1>2, <1>3, <1>4, <1>5, <1>6, <1>7, <1>8

(* Of what was found, f has one thing less to settle.                      *)
LEMMA RefLess ==
  ASSUME NEW t \in Ref!Frame, NEW m \in t.todo, NEW f, f = [t EXCEPT !.todo = @ \ {m}]
  PROVE  f \in Ref!Frame /\ f.step = t.step /\ f.id = t.id /\ f.todo = t.todo \ {m}
<1>1. t.todo \ {m} \in SUBSET Ref!Match
  BY DEF Ref!Frame
<1> QED BY <1>1 DEF Ref!Frame

LEMMA RefCascade == ASSUME RefMaking, Ref!Cascade PROVE RefIInv'
<1>t. PICK t : t = Head(stack)
  OBVIOUS
<1>1. /\ stack # <<>> /\ t.step = "settle"
      /\ UNCHANGED <<schema, live, refs, batch, visited, post, audited, before, outcome, deletes>>
  BY <1>t DEF Ref!Cascade, Ref!Under, Ref!Top
<1>2. PICK m \in t.todo :
        /\ schema[m.field].on = "cascade"
        /\ stack' = IF m.row \in visited THEN Ref!Rest(m) ELSE <<Ref!Entering(m.row)>> \o Ref!Rest(m)
  BY <1>t DEF Ref!Cascade, Ref!IsNext, Ref!Top
<1>f. PICK f : f = [t EXCEPT !.todo = @ \ {m}]
  OBVIOUS
<1>e. PICK e : e = Ref!Entering(m.row)
  OBVIOUS
<1>3. /\ t \in Ref!Frame /\ RefFrames = {t} \union RefBelow
      /\ RefNow /\ RefTower /\ RefFoundAll /\ RefKept /\ RefClosing /\ RefRooted /\ RefUnrestricted /\ RefLeaving
  BY <1>t, <1>1, RefOn DEF RefWay
<1>4. f \in Ref!Frame /\ f.step = "settle" /\ f.id = t.id /\ f.todo = t.todo \ {m}
  BY <1>f, <1>1, <1>3, RefLess
<1>5. RefFound(t, m) /\ m.row \in Docs
  BY <1>3, RefAt DEF RefFoundAll, RefFound
<1>6. e \in Ref!Frame /\ e.step = "enter" /\ e.id = m.row /\ e.todo = {}
  BY <1>e, <1>5 DEF Ref!Entering, Ref!Frame
<1>7. /\ stack' \in Seq(Ref!Frame) /\ stack' # <<>>
      /\ \/ m.row \in visited /\ Head(stack') = f /\ RefBelow' = RefBelow /\ RefFrames' = {f} \union RefBelow
         \/ m.row \notin visited /\ Head(stack') = e /\ RefBelow' = {f} \union RefBelow /\ RefFrames' = {e, f} \union RefBelow
  <2>1. CASE m.row \in visited
    <3>1. stack' = <<f>> \o Tail(stack)
      BY <1>t, <1>f, <1>2, <2>1 DEF Ref!Rest, Ref!Instead, Ref!Top
    <3> QED BY <1>1, <1>4, <2>1, <3>1, RefAt, RefGoesOn
  <2>2. CASE m.row \notin visited
    <3> DEFINE s == <<f>> \o Tail(stack)
    <3>1. stack' = <<e>> \o s
      BY <1>t, <1>f, <1>e, <1>2, <2>2 DEF Ref!Rest, Ref!Instead, Ref!Top
    <3>2. s \in Seq(Ref!Frame) /\ FramesOf(s) = {f} \union RefBelow
      BY <1>1, <1>4, RefAt, RefInsteadOf DEF RefBelow
    <3> HIDE DEF s
    <3>3. /\ <<e>> \o s \in Seq(Ref!Frame) /\ <<e>> \o s # <<>> /\ Head(<<e>> \o s) = e
          /\ BelowOf(<<e>> \o s) = FramesOf(s) /\ FramesOf(<<e>> \o s) = {e} \union FramesOf(s)
      BY <1>6, <3>2, RefPushed
    <3> QED BY <2>2, <3>1, <3>2, <3>3, RefShapes
  <2> QED BY <2>1, <2>2
<1>8. /\ RefVisited' = RefVisited /\ t.id \in RefVisited
      /\ RefNow' /\ RefFoundAll' /\ RefUnrestricted'
      /\ \A v, d, i : RefPending(v, d, i) => RefPending(v, d, i)' \/ (d = m.row /\ i = m.field)
      /\ \A g \in RefBelow : g.step = "settle"
      /\ \A g \in RefFrames' : g.step = "settle" => g.id \in RefVisited'
      /\ Ref!Removed' \subseteq visited'
      /\ \A v \in RefVisited' : v \in Ref!Removed' \/ \E g \in RefFrames' : g.step = "settle" /\ g.id = v
  <2>1. {f} \union RefBelow \subseteq RefFrames' /\ \A g \in RefFrames' \ ({f} \union RefBelow) : g.step = "enter" /\ g.todo = {}
    BY <1>6, <1>7
  <2> QED BY <1>t, <1>1, <1>4, <2>1, RefSettles
<1>9. RefTyped'
  BY <1>1, <1>7, RefAt, RefTypedStays
<1>10. RefTower'
  BY <1>1, <1>4, <1>6, <1>7, <1>8 DEF RefTower
<1>11. RefKept'
  BY <1>1, <1>3 DEF RefKept, Ref!RefFields
<1>12. RefClosing'
  <2> SUFFICES ASSUME NEW v \in RefVisited, NEW d \in before.live, NEW i \in Ref!FieldsOn("cascade"), v \in before.refs[d][i]
               PROVE  d \in RefVisited' \/ RefEntering(d)' \/ RefPending(v, d, i)'
    BY <1>1, <1>8 DEF RefClosing, Ref!FieldsOn, Ref!RefFields
  <2>1. d \in RefVisited \/ RefPending(v, d, i)
    BY <1>t, <1>1, <1>3 DEF RefClosing, RefEntering
  <2>2. CASE d = m.row
    <3>1. d \in visited => d \in RefVisited
      BY DEF RefVisited
    <3>2. d \notin visited => RefEntering(d)'
      BY <1>6, <1>7, <2>2 DEF RefEntering
    <3> QED BY <1>8, <3>1, <3>2
  <2> QED BY <1>8, <2>1, <2>2
<1>13. RefRooted'
  <2>1. PICK b \in Docs : (b \in RefVisited \/ \E g \in RefFrames : g.id = b) /\ RefReach(b)
    BY <1>3 DEF RefRooted
  <2>2. b \in RefVisited' \/ \E g \in RefFrames' : g.id = b
    BY <1>3, <1>4, <1>7, <1>8, <2>1
  <2>3. RefReach(b)'
    <3> SUFFICES ASSUME NEW S \in SUBSET before.live, b \in S, Ref!Closed(S)
                 PROVE  RefVisited' \subseteq S /\ \A g \in RefFrames' : g.id \in S
      BY <1>1 DEF RefReach, Ref!Closed, Ref!RefersTo, Ref!FieldsOn, Ref!RefFields
    <3>1. RefVisited \subseteq S /\ \A g \in RefFrames : g.id \in S
      BY <2>1 DEF RefReach
    <3>2. m.row \in S
      <4>1. /\ m.row \in before.live /\ m.field \in Ref!FieldsOn("cascade")
            /\ t.id \in before.refs[m.row][m.field] /\ t.id \in S
        BY <1>2, <1>3, <1>5, <3>1 DEF RefFound, Ref!FieldsOn
      <4>2. t.id \in Ref!RefersTo(before.refs, m.row, Ref!FieldsOn("cascade"))
        BY <4>1 DEF Ref!RefersTo
      <4> QED BY <4>1, <4>2 DEF Ref!Closed
    <3> QED BY <1>3, <1>4, <1>6, <1>7, <1>8, <3>1, <3>2
  <2> QED BY <2>2, <2>3 DEF RefRooted
<1>14. RefLeaving'
  <2> SUFFICES ASSUME NEW v \in RefVisited, NEW d \in live, NEW i \in Ref!FieldsOn("setNull"), ~ schema[i].many, v \in refs[d][i]
               PROVE  RefPending(v, d, i)'
    BY <1>1, <1>8 DEF RefLeaving, Ref!FieldsOn, Ref!RefFields
  <2>1. RefPending(v, d, i) /\ i # m.field
    BY <1>2, <1>3 DEF RefLeaving, Ref!FieldsOn
  <2> QED BY <1>8, <2>1
<1> QED BY <1>7, <1>8, <1>9, <1>10, <1>11, <1>12, <1>13, <1>14 DEF RefIInv, RefWay

(* A reference is written; no field of one value has gained one.           *)
LEMMA RefWritten ==
  ASSUME RefMaking, NEW r \in Docs, NEW k \in Ref!RefFields, NEW v \in SUBSET Docs,
         refs' = [refs EXCEPT ![r][k] = v]
  PROVE  /\ refs' \in [Docs -> [Ref!RefFields -> SUBSET Docs]]
         /\ \A d \in Docs, i \in Ref!RefFields : refs'[d][i] = IF d = r /\ i = k THEN v ELSE refs[d][i]
<1>1. refs \in [Docs -> [Ref!RefFields -> SUBSET Docs]]
  BY RefAt
<1> DEFINE fields == [refs[r] EXCEPT ![k] = v]
<1>2. fields \in [Ref!RefFields -> SUBSET Docs] /\ \A i \in Ref!RefFields : fields[i] = IF i = k THEN v ELSE refs[r][i]
  BY <1>1
<1>3. refs' = [refs EXCEPT ![r] = fields]
  OBVIOUS
<1> HIDE DEF fields
<1> QED BY <1>1, <1>2, <1>3

LEMMA RefSetNull == ASSUME RefMaking, Ref!SetNull PROVE RefIInv'
<1>t. PICK t : t = Head(stack)
  OBVIOUS
<1>1. /\ stack # <<>> /\ t.step = "settle"
      /\ UNCHANGED <<schema, live, batch, visited, post, audited, before, outcome, deletes>>
  BY <1>t DEF Ref!SetNull, Ref!Under, Ref!Top
<1>2. PICK m \in t.todo :
        /\ schema[m.field].on # "cascade" /\ m.row \in live
        /\ refs' = [refs EXCEPT ![m.row][m.field] = m.value \ {t.id}]
        /\ stack' = Ref!Rest(m)
  BY <1>t DEF Ref!SetNull, Ref!IsNext, Ref!Top
<1>f. PICK f : f = [t EXCEPT !.todo = @ \ {m}]
  OBVIOUS
<1>3. /\ t \in Ref!Frame /\ RefFrames = {t} \union RefBelow
      /\ RefNow /\ RefTower /\ RefFoundAll /\ RefKept /\ RefClosing /\ RefRooted /\ RefUnrestricted /\ RefLeaving
  BY <1>t, <1>1, RefOn DEF RefWay
<1>4. f \in Ref!Frame /\ f.step = "settle" /\ f.id = t.id /\ f.todo = t.todo \ {m}
  BY <1>f, <1>1, <1>3, RefLess
<1>5. RefFound(t, m) /\ m.row \in Docs /\ m.value \subseteq Docs
  <2>1. t \in RefFrames /\ m \in Ref!Match
    BY <1>3 DEF Ref!Frame
  <2>2. RefFound(t, m)
    BY <1>3, <2>1 DEF RefFoundAll
  <2> QED BY <2>1, <2>2 DEF Ref!Match
<1>6. m.field \in Ref!RefFields /\ schema[m.field].on = "setNull"
  BY <1>2, <1>5, RefAt, RefFields DEF RefFound, Ref!Actions
<1>7. /\ refs' \in [Docs -> [Ref!RefFields -> SUBSET Docs]]
      /\ \A d \in Docs, i \in Ref!RefFields :
           refs'[d][i] = IF d = m.row /\ i = m.field THEN m.value \ {t.id} ELSE refs[d][i]
  <2>1. PICK r, k, v : r = m.row /\ k = m.field /\ v = m.value \ {t.id}
    OBVIOUS
  <2>2. r \in Docs /\ k \in Ref!RefFields /\ v \in SUBSET Docs /\ refs' = [refs EXCEPT ![r][k] = v]
    BY <1>2, <1>5, <1>6, <2>1
  <2>3. /\ refs' \in [Docs -> [Ref!RefFields -> SUBSET Docs]]
        /\ \A d \in Docs, i \in Ref!RefFields : refs'[d][i] = IF d = r /\ i = k THEN v ELSE refs[d][i]
    BY <2>2, RefWritten
  <2> QED BY <2>1, <2>3
<1>8. ~ schema[m.field].many => m.value \ {t.id} = {}
  BY <1>5 DEF RefFound
<1>9. /\ stack' \in Seq(Ref!Frame) /\ stack' # <<>> /\ Head(stack') = f /\ RefBelow' = RefBelow
      /\ RefFrames' = {f} \union RefBelow
  <2>1. stack' = <<f>> \o Tail(stack)
    BY <1>t, <1>f, <1>2 DEF Ref!Rest, Ref!Instead, Ref!Top
  <2> QED BY <1>1, <1>4, <2>1, RefAt, RefGoesOn
<1>10. /\ RefVisited' = RefVisited
       /\ RefNow' /\ RefFoundAll' /\ RefUnrestricted'
       /\ \A v, d, i : RefPending(v, d, i) => RefPending(v, d, i)' \/ (d = m.row /\ i = m.field)
       /\ \A g \in RefBelow : g.step = "settle"
       /\ \A g \in RefFrames' : g.step = "settle" => g.id \in RefVisited'
       /\ Ref!Removed' \subseteq visited'
       /\ \A v \in RefVisited' : v \in Ref!Removed' \/ \E g \in RefFrames' : g.step = "settle" /\ g.id = v
  <2>1. {f} \union RefBelow \subseteq RefFrames' /\ \A g \in RefFrames' \ ({f} \union RefBelow) : g.step = "enter" /\ g.todo = {}
    BY <1>9
  <2> QED BY <1>t, <1>1, <1>4, <2>1, RefSettles
<1>11. RefTyped'
  <2>1. Ref!TypeOK'
    BY <1>1, <1>7, <1>9, RefAt DEF Ref!TypeOK, Ref!RefFields
  <2>2. RefOne(before.refs)'
    BY <1>1, RefAt DEF RefOne, Ref!RefFields
  <2>3. \A d \in Docs, i \in Ref!RefFields : ~ schema[i].many => \A x, y \in refs'[d][i] : x = y
    <3>1. ASSUME NEW d \in Docs, NEW i \in Ref!RefFields, ~ schema[i].many, NEW x \in refs'[d][i], NEW y \in refs'[d][i] PROVE x = y
      <4>1. CASE d = m.row /\ i = m.field
        BY <1>7, <1>8, <3>1, <4>1
      <4>2. CASE ~ (d = m.row /\ i = m.field)
        <5>1. refs'[d][i] = refs[d][i]
          BY <1>7, <4>2
        <5> QED BY <3>1, <5>1, RefAt DEF RefOne
      <4> QED BY <4>1, <4>2
    <3> QED BY <3>1
  <2>4. RefOne(refs)'
    BY <1>1, <2>3 DEF RefOne, Ref!RefFields
  <2> QED BY <2>1, <2>2, <2>4 DEF RefTyped
<1>12. RefTower'
  BY <1>4, <1>9, <1>10 DEF RefTower
<1>13. RefKept'
  <2>1. ASSUME NEW d \in Docs, NEW i \in Ref!RefFields, schema[i].on # "setNull" PROVE refs'[d][i] = before.refs[d][i]
    BY <1>3, <1>6, <1>7, <2>1 DEF RefKept
  <2> QED BY <1>1, <2>1 DEF RefKept, Ref!RefFields
<1>14. RefClosing'
  <2> SUFFICES ASSUME NEW v \in RefVisited, NEW d \in before.live, NEW i \in Ref!FieldsOn("cascade"), v \in before.refs[d][i]
               PROVE  d \in RefVisited' \/ RefPending(v, d, i)'
    BY <1>1, <1>10 DEF RefClosing, Ref!FieldsOn, Ref!RefFields
  <2>1. d \in RefVisited \/ RefPending(v, d, i)
    BY <1>t, <1>1, <1>3 DEF RefClosing, RefEntering
  <2>2. i # m.field
    BY <1>6 DEF Ref!FieldsOn
  <2> QED BY <1>10, <2>1, <2>2
<1>15. RefRooted'
  <2>1. PICK b \in Docs : (b \in RefVisited \/ \E g \in RefFrames : g.id = b) /\ RefReach(b)
    BY <1>3 DEF RefRooted
  <2>2. b \in RefVisited' \/ \E g \in RefFrames' : g.id = b
    BY <1>3, <1>4, <1>9, <1>10, <2>1
  <2>3. RefReach(b)'
    <3> SUFFICES ASSUME NEW S \in SUBSET before.live, b \in S, Ref!Closed(S)
                 PROVE  RefVisited' \subseteq S /\ \A g \in RefFrames' : g.id \in S
      BY <1>1 DEF RefReach, Ref!Closed, Ref!RefersTo, Ref!FieldsOn, Ref!RefFields
    <3>1. RefVisited \subseteq S /\ \A g \in RefFrames : g.id \in S
      BY <2>1 DEF RefReach
    <3> QED BY <1>3, <1>4, <1>9, <1>10, <3>1
  <2> QED BY <2>2, <2>3 DEF RefRooted
<1>16. RefLeaving'
  <2> SUFFICES ASSUME NEW v \in RefVisited, NEW d \in live, NEW i \in Ref!FieldsOn("setNull"), ~ schema[i].many, v \in refs'[d][i]
               PROVE  RefPending(v, d, i)'
    BY <1>1, <1>10 DEF RefLeaving, Ref!FieldsOn, Ref!RefFields
  <2>1. d \in Docs /\ i \in Ref!RefFields
    BY RefAt DEF Ref!FieldsOn
  <2>2. ~ (d = m.row /\ i = m.field)
    BY <1>7, <1>8, <2>1
  <2>3. v \in refs[d][i]
    BY <1>7, <2>1, <2>2
  <2>4. RefPending(v, d, i)
    BY <1>3, <2>3 DEF RefLeaving
  <2> QED BY <1>10, <2>2, <2>4
<1> QED BY <1>9, <1>10, <1>11, <1>12, <1>13, <1>14, <1>15, <1>16 DEF RefIInv, RefWay

(* The innermost delete has settled all it found.  What the outermost one  *)
(* leaves is closed, since nothing is pending any more.                    *)
LEMMA RefDelete == ASSUME RefMaking, Ref!Delete PROVE RefIInv'
<1>t. PICK t : t = Head(stack)
  OBVIOUS
<1>1. /\ stack # <<>> /\ t.step = "settle" /\ t.todo = {} /\ live' = live \ {t.id} /\ stack' = Tail(stack)
      /\ post' = IF Len(stack) = 1 THEN {} ELSE post \union {t.id}
      /\ audited' = IF Len(stack) = 1 THEN audited \union post \union {t.id} ELSE audited
      /\ outcome' = IF Len(stack) = 1 THEN "done" ELSE outcome
      /\ UNCHANGED <<schema, refs, batch, visited, before, deletes>>
  BY <1>t DEF Ref!Delete, Ref!Under, Ref!Top
<1>2. /\ t \in Ref!Frame /\ RefFrames = {t} \union RefBelow
      /\ RefNow /\ RefTower /\ RefFoundAll /\ RefKept /\ RefClosing /\ RefRooted /\ RefUnrestricted /\ RefLeaving
  BY <1>t, <1>1, RefOn DEF RefWay
<1>3. /\ stack' \in Seq(Ref!Frame) /\ RefFrames' = RefBelow /\ (stack' = <<>> <=> Len(stack) = 1)
      /\ stack' # <<>> => Head(stack') \in RefBelow /\ RefBelow' \subseteq RefBelow
  <2>1. /\ stack' \in Seq(Ref!Frame) /\ RefFrames' = RefBelow /\ (stack' = <<>> <=> Len(stack) = 1) /\ RefBelow' \subseteq RefBelow
    BY <1>1, RefAt, RefSequence, RefShapes
  <2>2. stack' # <<>> => Head(stack') \in RefFrames'
    BY <2>1, RefSequence, RefShapes
  <2> QED BY <2>1, <2>2
<1>4. t.id \in Docs /\ t.id \in RefVisited /\ RefVisited' = RefVisited /\ Ref!Removed' = Ref!Removed \union {t.id}
  <2>1. t.id \in RefVisited /\ t.id \in Docs
    BY <1>1, <1>2 DEF RefTower, Ref!Frame
  <2> QED BY <1>1, <2>1 DEF RefVisited, Ref!Removed
<1>5. \A v, d, i : RefPending(v, d, i) => RefPending(v, d, i)'
  BY <1>1, <1>2, <1>3 DEF RefPending
<1>6. RefTyped'
  BY <1>1, <1>3, <1>4, RefAt, RefTypedStays
<1>7. /\ \A g \in RefBelow : g.step = "settle" /\ g.id \in RefVisited
      /\ Ref!Removed' \subseteq RefVisited
      /\ \A v \in RefVisited : v \in Ref!Removed' \/ \E g \in RefBelow : g.id = v
  BY <1>2, <1>4 DEF RefTower, RefVisited, Ref!Removed
<1>8. \A v \in RefVisited, d \in before.live, i \in Ref!FieldsOn("cascade") :
        v \in before.refs[d][i] => d \in RefVisited \/ RefPending(v, d, i)'
  BY <1>t, <1>1, <1>2, <1>5 DEF RefClosing, RefEntering
<1>9. \A v \in RefVisited, d \in live', i \in Ref!FieldsOn("setNull") :
        ~ schema[i].many /\ v \in refs[d][i] => RefPending(v, d, i)'
  BY <1>1, <1>2, <1>5 DEF RefLeaving
<1>10. \A v \in RefVisited, d \in live', i \in Ref!FieldsOn("restrict") : v \notin before.refs[d][i]
  BY <1>1, <1>2 DEF RefUnrestricted
<1>11. PICK b \in RefVisited : RefReach(b)
  <2>1. PICK b \in Docs : (b \in RefVisited \/ \E g \in RefFrames : g.id = b) /\ RefReach(b)
    BY <1>2 DEF RefRooted
  <2> QED BY <1>2, <1>4, <1>7, <2>1
<1>12. CASE stack' # <<>>
  <2>1. RefNow'
    BY <1>1, <1>2, <1>3, <1>12 DEF RefNow
  <2>2. RefTower'
    BY <1>1, <1>3, <1>4, <1>7, <1>12 DEF RefTower, RefVisited
  <2>3. RefFoundAll' /\ RefKept'
    BY <1>1, <1>2, <1>3 DEF RefFoundAll, RefFound, RefKept, Ref!RefFields
  <2>4. RefClosing' /\ RefLeaving' /\ RefUnrestricted'
    BY <1>1, <1>4, <1>8, <1>9, <1>10 DEF RefClosing, RefLeaving, RefUnrestricted, Ref!FieldsOn, Ref!RefFields
  <2>5. RefRooted'
    <3>1. RefReach(b)'
      BY <1>1, <1>2, <1>3, <1>4, <1>11 DEF RefReach, Ref!Closed, Ref!RefersTo, Ref!FieldsOn, Ref!RefFields
    <3> QED BY <1>4, <1>11, <3>1, RefAt DEF RefRooted, RefVisited
  <2> QED BY <1>6, <1>12, <2>1, <2>2, <2>3, <2>4, <2>5 DEF RefIInv, RefWay
<1>13. CASE stack' = <<>>
  <2>1. RefFrames' = {} /\ RefBelow = {} /\ \A v, d, i : ~ RefPending(v, d, i)'
    <3>1. RefFrames' = {}
      BY <1>13, RefShapes DEF FramesOf
    <3> QED BY <1>3, <3>1 DEF RefPending
  <2>2. Ref!Removed' = RefVisited
    BY <1>7, <2>1
  <2>3. Ref!Closed(Ref!Removed)'
    <3> SUFFICES ASSUME NEW d \in before.live, NEW i \in Ref!FieldsOn("cascade"), NEW v \in before.refs[d][i], v \in RefVisited
                 PROVE  d \in RefVisited
      BY <1>1, <2>2 DEF Ref!Closed, Ref!RefersTo, Ref!FieldsOn, Ref!RefFields
    <3> QED BY <1>8, <2>1
  <2>4. \A S \in SUBSET before.live : b \in S /\ Ref!Closed(S) => RefVisited \subseteq S
    BY <1>11 DEF RefReach
  <2>5. Ref!RemovesTheCascade'
    <3>1. \A S \in SUBSET before'.live : b \in S /\ Ref!Closed(S)' => Ref!Removed' \subseteq S
      BY <1>1, <2>2, <2>4 DEF Ref!Closed, Ref!RefersTo, Ref!FieldsOn, Ref!RefFields
    <3>2. b \in Ref!Removed' /\ audited' \intersect live' = {} /\ outcome' = "done"
      BY <1>1, <1>2, <1>3, <1>11, <1>13, <2>2 DEF RefNow
    <3> QED BY <2>3, <3>1, <3>2 DEF Ref!RemovesTheCascade
  <2>6. Ref!SingleRefsAreSound'
    <3> SUFFICES ASSUME NEW d \in live', NEW i \in Ref!RefFields
                 PROVE  /\ schema[i].on = "restrict" => before.refs[d][i] \intersect RefVisited = {}
                        /\ ~ schema[i].many => refs[d][i] \intersect RefVisited = {}
      BY <1>1, <2>2 DEF Ref!SingleRefsAreSound, Ref!RefFields
    <3>1. d \in before.live /\ d \in Docs /\ d \notin RefVisited
      BY <1>1, <1>2, <2>2, RefAt DEF RefNow, Ref!Removed
    <3>2. schema[i].on = "restrict" => before.refs[d][i] \intersect RefVisited = {}
      BY <1>10 DEF Ref!FieldsOn
    <3>3. schema[i].on = "cascade" => before.refs[d][i] \intersect RefVisited = {}
      BY <1>8, <2>1, <3>1 DEF Ref!FieldsOn
    <3>4. schema[i].on # "setNull" => refs[d][i] = before.refs[d][i]
      BY <1>2, <3>1 DEF RefKept
    <3>5. schema[i].on = "setNull" /\ ~ schema[i].many => refs[d][i] \intersect RefVisited = {}
      BY <1>9, <2>1 DEF Ref!FieldsOn
    <3>6. schema[i].on \in {"cascade", "setNull", "restrict"}
      BY RefAt, RefFields DEF Ref!Actions
    <3> QED BY <3>2, <3>3, <3>4, <3>5, <3>6
  <2>7. visited' \intersect live' = {}
    BY <1>1, <1>2, <2>2 DEF RefNow, RefVisited, Ref!Removed
  <2>8. outcome' = "done" /\ post' = {} /\ audited' \intersect live' = {}
    BY <1>1, <1>2, <1>3, <1>13 DEF RefNow
  <2> QED BY <1>6, <1>13, <2>5, <2>6, <2>7, <2>8 DEF RefIInv, RefRest
<1> QED BY <1>12, <1>13

(* An error: what there was before is there again.                         *)
LEMMA RefThrow == ASSUME RefMaking, Ref!Throw PROVE RefIInv'
<1>1. /\ stack # <<>> /\ live' = before.live /\ refs' = before.refs /\ stack' = <<>> /\ batch' = <<>> /\ post' = {}
      /\ outcome' = "aborted" /\ UNCHANGED <<schema, visited, audited, before, deletes>>
  BY DEF Ref!Throw, Ref!RestoredRows
<1>2. RefNow
  BY <1>1, RefOn DEF RefWay
<1>3. Ref!TypeOK'
  <2>1. batch' \in Seq(Docs) /\ stack' \in Seq(Ref!Frame)
    BY <1>1
  <2> QED BY <1>1, <2>1, RefAt DEF Ref!TypeOK, Ref!RefFields
<1>4. RefOne(refs)' /\ RefOne(before.refs)'
  BY <1>1, RefAt DEF RefOne, Ref!RefFields
<1>5. RefRest'
  BY <1>1, <1>2 DEF RefRest, RefNow, Ref!RemovesTheCascade, Ref!SingleRefsAreSound, Ref!Removed
<1> QED BY <1>1, <1>3, <1>4, <1>5 DEF RefIInv, RefTyped

(* Between two deletes.                                                    *)
LEMMA RefRestStays ==
  ASSUME RefRest, UNCHANGED <<schema, live, refs, audited, before, outcome, post>>,
         batch' # <<>> => visited' \intersect live = {}
  PROVE  RefRest'
<1>1. Ref!RemovesTheCascade'
  <2>1. Ref!Removed' = Ref!Removed /\ Ref!FieldsOn("cascade")' = Ref!FieldsOn("cascade")
    BY DEF Ref!Removed, Ref!FieldsOn, Ref!RefFields
  <2>2. \A S : Ref!Closed(S)' <=> Ref!Closed(S)
    BY <2>1 DEF Ref!Closed, Ref!RefersTo
  <2>3. Ref!Closed(Ref!Removed)' <=> Ref!Closed(Ref!Removed)
    BY <2>1 DEF Ref!Closed, Ref!RefersTo
  <2> QED BY <2>1, <2>2, <2>3 DEF RefRest, Ref!RemovesTheCascade
<1>2. Ref!SingleRefsAreSound'
  BY DEF RefRest, Ref!SingleRefsAreSound, Ref!Removed, Ref!RefFields
<1> QED BY <1>1, <1>2 DEF RefRest

LEMMA RefCardinality == \A S : Ref!Cardinality(S) = Cardinality(S)
BY DEF Ref!Cardinality, Cardinality

LEMMA RefFinite == Ref!ReferencesAssumption => IsFiniteSet(Docs)
BY DEF Ref!ReferencesAssumption, Ref!IsFiniteSet, IsFiniteSet

LEMMA RefAskDelete == ASSUME RefMaking, Ref!AskDelete PROVE RefIInv'
<1>1. PICK S \in SUBSET live \ {{}} : batch' \in Ref!SetToSeqs(S) /\ deletes' = deletes + Ref!Cardinality(S)
  BY DEF Ref!AskDelete
<1>2. /\ stack = <<>> /\ deletes' <= MaxDeletes /\ visited' = {}
      /\ UNCHANGED <<schema, live, refs, stack, post, audited, before, outcome>>
  BY DEF Ref!AskDelete
<1>3. Cardinality(S) \in Nat
  <2>1. IsFiniteSet(S)
    BY RefAt, RefFinite, FS_Subset
  <2> QED BY <2>1, FS_CardinalityType
<1>4. batch' \in Seq(Docs)
  <2>1. batch' \in [1..Cardinality(S) -> S]
    BY <1>1, RefCardinality DEF Ref!SetToSeqs
  <2>2. S \subseteq Docs
    BY RefAt
  <2>3. batch' \in [1..Cardinality(S) -> Docs]
    BY <2>1, <2>2
  <2> QED BY <1>3, <2>3
<1>5. deletes' \in 0..MaxDeletes
  <2>1. deletes \in 0..MaxDeletes /\ MaxDeletes \in Nat
    BY RefAt DEF Ref!ReferencesAssumption
  <2>2. deletes' = deletes + Cardinality(S)
    BY <1>1, RefCardinality
  <2> QED BY <1>2, <1>3, <2>1, <2>2
<1>6. RefTyped'
  BY <1>2, <1>4, <1>5, RefAt, RefTypedStays
<1>7. RefRest'
  BY <1>2, RefAt, RefRestStays
<1> QED BY <1>2, <1>6, <1>7 DEF RefIInv

LEMMA RefSkipVisited == ASSUME RefMaking, Ref!SkipVisited PROVE RefIInv'
<1>1. /\ stack = <<>> /\ batch # <<>> /\ batch' = Tail(batch)
      /\ UNCHANGED <<schema, live, refs, stack, visited, post, audited, before, outcome, deletes>>
  BY DEF Ref!SkipVisited
<1>2. batch' \in Seq(Docs)
  <2>1. batch \in Seq(Docs)
    BY RefAt
  <2> QED BY <1>1, <2>1
<1>3. RefTyped'
  BY <1>1, <1>2, RefAt, RefTypedStays
<1>4. RefRest
  BY <1>1, RefAt
<1>5. RefRest'
  BY <1>1, <1>4, RefRestStays DEF RefRest
<1> QED BY <1>1, <1>3, <1>5 DEF RefIInv

(* A transaction begins.                                                   *)
LEMMA RefRoot == ASSUME RefMaking, Ref!Root PROVE RefIInv'
<1>i. PICK id : id = Head(batch)
  OBVIOUS
<1>f. PICK f : f = Ref!Entering(id)
  OBVIOUS
<1>1. /\ stack = <<>> /\ batch # <<>> /\ id \notin visited /\ batch' = Tail(batch) /\ stack' = <<f>>
      /\ before' = [live |-> live, refs |-> refs] /\ outcome' = "under way"
      /\ UNCHANGED <<schema, live, refs, visited, post, audited, deletes>>
  BY <1>i, <1>f DEF Ref!Root
<1>2. id \in Docs /\ batch' \in Seq(Docs)
  <2>1. batch \in Seq(Docs)
    BY RefAt
  <2>2. batch # <<>> /\ batch' = Tail(batch)
    BY <1>1
  <2>3. batch' \in Seq(Docs)
    BY <2>1, <2>2
  <2>4. Head(batch) \in Docs
    BY <2>1, <2>2
  <2> QED BY <1>i, <2>3, <2>4
<1>3. f \in Ref!Frame /\ f.step = "enter" /\ f.id = id /\ f.todo = {}
  BY <1>f, <1>2 DEF Ref!Entering, Ref!Frame
<1>4. /\ stack' \in Seq(Ref!Frame) /\ stack' # <<>> /\ Head(stack') = f /\ RefFrames' = {f} /\ RefBelow' = {}
  <2>1. stack' \in Seq(Ref!Frame) /\ stack' # <<>> /\ Head(stack') = f /\ Len(stack') = 1
    <3>1. stack' = <<f>> /\ f \in Ref!Frame
      BY <1>1, <1>3
    <3>2. PICK q : q = stack'
      OBVIOUS
    <3>3. q = <<f>>
      BY <3>1, <3>2
    <3>4. q \in Seq(Ref!Frame) /\ q # <<>> /\ Head(q) = f /\ Len(q) = 1
      BY <3>1, <3>3
    <3> QED BY <3>2, <3>4
  <2>2. RefBelow' = {}
    BY <2>1, RefShapes DEF BelowOf
  <2> QED BY <2>1, <2>2, RefSequence, RefShapes
<1>5. before'.live = live /\ before'.refs = refs
  BY <1>1
<1>6. RefRest
  BY <1>1, RefAt
<1>7. RefVisited' = {} /\ Ref!Removed' = {}
  BY <1>1, <1>5, <1>6 DEF RefVisited, Ref!Removed, RefRest
<1>8. RefTyped'
  <2>1. Ref!TypeOK'
    BY <1>1, <1>2, <1>4, <1>5, RefAt DEF Ref!TypeOK, Ref!RefFields
  <2>2. RefOne(refs)' /\ RefOne(before.refs)'
    BY <1>1, <1>5, RefAt DEF RefOne, Ref!RefFields
  <2> QED BY <2>1, <2>2 DEF RefTyped
<1>9. RefNow'
  BY <1>1, <1>5, <1>6 DEF RefNow, RefRest
<1>10. RefTower'
  BY <1>1, <1>3, <1>4, <1>7 DEF RefTower
<1>11. RefFoundAll' /\ RefKept'
  BY <1>1, <1>3, <1>4, <1>5 DEF RefFoundAll, RefKept, Ref!RefFields
<1>12. RefClosing' /\ RefUnrestricted' /\ RefLeaving'
  BY <1>7 DEF RefClosing, RefUnrestricted, RefLeaving
<1>13. RefRooted'
  <2>1. RefReach(id)'
    BY <1>3, <1>4, <1>7 DEF RefReach
  <2> QED BY <1>2, <1>3, <1>4, <2>1 DEF RefRooted
<1> QED BY <1>4, <1>8, <1>9, <1>10, <1>11, <1>12, <1>13 DEF RefIInv, RefWay

LEMMA RefInitIInv == Ref!ReferencesAssumption /\ Ref!Init => RefIInv
<1> SUFFICES ASSUME Ref!ReferencesAssumption, Ref!Init PROVE RefIInv
  OBVIOUS
<1>1. /\ schema \in Schemas /\ live = Docs /\ Ref!WellFormed(refs) /\ batch = <<>> /\ stack = <<>> /\ visited = {} /\ post = {}
      /\ audited = {} /\ before = [live |-> live, refs |-> refs] /\ outcome = "none" /\ deletes = 0
  BY DEF Ref!Init
<1>2. refs \in [Docs -> [Ref!RefFields -> SUBSET Docs]]
  <2>1. PICK e \in [1..MaxRefs -> Ref!Edge] : refs = [d \in Docs |-> Ref!RefsOf({e[n] : n \in 1..MaxRefs}, d)]
    BY DEF Ref!Init
  <2>2. {e[n] : n \in 1..MaxRefs} \subseteq Ref!Edge
    OBVIOUS
  <2>3. \A E \in SUBSET Ref!Edge : \A d : Ref!RefsOf(E, d) \in [Ref!RefFields -> SUBSET Docs]
    BY DEF Ref!RefsOf, Ref!Edge
  <2> QED BY <2>1, <2>2, <2>3
<1>3. before.live = live /\ before.refs = refs
  BY <1>1
<1>4. RefOne(refs) /\ RefOne(before.refs)
  <2>1. ASSUME NEW d \in Docs, NEW i \in Ref!RefFields, ~ schema[i].many, NEW x \in refs[d][i], NEW y \in refs[d][i] PROVE x = y
    <3>1. refs[d][i] \subseteq Docs
      BY <1>2
    <3>2. IsFiniteSet(refs[d][i])
      BY <3>1, RefFinite, FS_Subset
    <3>3. Cardinality(refs[d][i]) <= 1
      BY <1>1, <2>1, RefCardinality DEF Ref!WellFormed
    <3>4. Cardinality({x, y}) <= Cardinality(refs[d][i])
      BY <3>2, FS_Subset
    <3>5. x # y => Cardinality({x, y}) = 2
      <4>1. IsFiniteSet({x}) /\ Cardinality({x}) = 1
        BY FS_Singleton
      <4>2. {x, y} = {x} \union {y}
        OBVIOUS
      <4>3. Cardinality({x} \union {y}) = IF y \in {x} THEN Cardinality({x}) ELSE Cardinality({x}) + 1
        BY <4>1, FS_AddElement
      <4> QED BY <4>1, <4>2, <4>3
    <3>6. Cardinality(refs[d][i]) \in Nat
      BY <3>2, FS_CardinalityType
    <3> QED BY <3>3, <3>4, <3>5, <3>6
  <2> QED BY <1>3, <2>1 DEF RefOne
<1>5. Ref!TypeOK
  <2>1. batch \in Seq(Docs) /\ stack \in Seq(Ref!Frame) /\ 0 \in 0..MaxDeletes
    BY <1>1 DEF Ref!ReferencesAssumption
  <2> QED BY <1>1, <1>2, <1>3, <2>1 DEF Ref!TypeOK
<1>6. RefRest
  BY <1>1 DEF RefRest, Ref!RemovesTheCascade, Ref!SingleRefsAreSound
<1> QED BY <1>1, <1>4, <1>5, <1>6 DEF RefIInv, RefTyped

LEMMA RefStepIInv == RefMaking /\ [Ref!Next]_Ref!vars => RefIInv'
<1> SUFFICES ASSUME RefMaking, [Ref!Next]_Ref!vars PROVE RefIInv'
  OBVIOUS
<1>1. CASE UNCHANGED Ref!vars
  <2>1. UNCHANGED <<schema, live, refs, batch, stack, visited, post, audited, before, outcome, deletes>>
    BY <1>1 DEF Ref!vars
  <2>2. RefTyped'
    BY <2>1, RefAt, RefTypedStays
  <2>3. CASE stack = <<>>
    <3>1. RefRest'
      BY <2>1, <2>3, RefAt, RefRestStays DEF RefRest
    <3> QED BY <2>1, <2>2, <2>3, <3>1 DEF RefIInv
  <2>4. CASE stack # <<>>
    <3>1. RefWay
      BY <2>4, RefAt
    <3>2. RefFrames' = RefFrames /\ RefBelow' = RefBelow /\ RefVisited' = RefVisited /\ Ref!Removed' = Ref!Removed
      BY <2>1, RefShapes DEF RefFrames, RefBelow, RefVisited, Ref!Removed
    <3>3. RefNow' /\ RefTower'
      BY <2>1, <3>1, <3>2 DEF RefWay, RefNow, RefTower
    <3>a. RefFoundAll'
      BY <2>1, <3>1, <3>2 DEF RefWay, RefFoundAll, RefFound, Ref!RefFields
    <3>b. RefKept'
      BY <2>1, <3>1 DEF RefWay, RefKept, Ref!RefFields
    <3>4. RefClosing' /\ RefUnrestricted' /\ RefLeaving'
      BY <2>1, <3>1, <3>2
         DEF RefWay, RefClosing, RefUnrestricted, RefLeaving, RefPending, RefEntering, Ref!FieldsOn, Ref!RefFields
    <3>5. RefRooted'
      BY <2>1, <3>1, <3>2
         DEF RefWay, RefRooted, RefReach, Ref!Closed, Ref!RefersTo, Ref!FieldsOn, Ref!RefFields
    <3> QED BY <2>1, <2>2, <2>4, <3>3, <3>a, <3>b, <3>4, <3>5 DEF RefIInv, RefWay
  <2> QED BY <2>3, <2>4
<1> QED BY <1>1, RefAskDelete, RefSkipVisited, RefRoot, RefLookUp, RefCascade, RefSetNull, RefDelete, RefThrow DEF Ref!Next

LEMMA RefRuns ==
  /\ Init /\ focus = "references" => Ref!Init
  /\ [Next]_vars => focus' = focus
  /\ [Next]_vars /\ focus = "references" => [Ref!Next]_Ref!vars
<1>1. Init /\ focus = "references" => Ref!Init
  BY DEF Init
<1>2. [Next]_vars => focus' = focus
  BY DEF Next, vars
<1>3. [Next]_vars /\ focus = "references" => [Ref!Next]_Ref!vars
  BY DEF Next, vars, references, Ref!vars
<1> QED BY <1>1, <1>2, <1>3

LEMMA RefAlways == Spec => [](focus = "references" => RefIInv)
<1>1. Ref!ReferencesAssumption
  BY ServicesAssumption DEF ServicesAssumption
<1>2. Init => (focus = "references" => RefIInv)
  BY <1>1, RefRuns, RefInitIInv
<1>3. (focus = "references" => RefIInv) /\ [Next]_vars => (focus = "references" => RefIInv)'
  BY <1>1, RefRuns, RefStepIInv DEF RefMaking
<1> QED BY <1>2, <1>3, PTL DEF Spec

(* A delete takes along exactly what cascades from it, whatever refers to  *)
(* what, over cycles and through a batch; one that throws takes nothing;   *)
(* and what is on record as deleted is gone.  It needs that whoever        *)
(* cascades from a visited document is visited, about to be, or still to   *)
(* be settled by the delete that found it.                                 *)
THEOREM DeletesAreCascades == Spec => []RemovesTheCascade
<1>1. RefIInv => Ref!RemovesTheCascade
  <2>1. CASE stack = <<>>
    BY <2>1 DEF RefIInv, RefRest
  <2>2. CASE stack # <<>>
    BY <2>2 DEF RefIInv, RefWay, RefNow, Ref!RemovesTheCascade
  <2> QED BY <2>1, <2>2
<1>2. (focus = "references" => RefIInv) => RemovesTheCascade
  BY <1>1 DEF RemovesTheCascade
<1> QED BY RefAlways, <1>2, PTL

(* Nobody that stays restricts a document that was deleted, and no field   *)
(* of one value that stays refers to one: what setNull has still to take   *)
(* away is in what some delete under way has found.                        *)
THEOREM SingleRefsAreKeptSound == Spec => []SingleRefsAreSound
<1>1. RefIInv => Ref!SingleRefsAreSound
  <2>1. CASE stack = <<>>
    BY <2>1 DEF RefIInv, RefRest
  <2>2. CASE stack # <<>>
    BY <2>2 DEF RefIInv, RefWay, RefNow, Ref!SingleRefsAreSound
  <2> QED BY <2>1, <2>2
<1>2. (focus = "references" => RefIInv) => SingleRefsAreSound
  BY <1>1 DEF SingleRefsAreSound
<1> QED BY RefAlways, <1>2, PTL

-----------------------------------------------------------------------------
(* The parts together.                                                     *)

LEMMA PartsStay == Spec => [](focus \in Parts)
<1>1. Init => focus \in Parts
  BY DEF Init
<1>2. focus \in Parts /\ [Next]_vars => (focus \in Parts)'
  BY DEF Next, vars
<1> QED BY <1>1, <1>2, PTL DEF Spec

(* Every reachable state of every part is well formed, in the part's own   *)
(* terms: crashes, retries, nested deletes and edited pages included.      *)
THEOREM TypeCorrect == Spec => []TypeOK
<1>1. ColIInv => Col!TypeOK
  BY DEF ColIInv, ColTyped
<1>2. OrdIInv => Ord!TypeOK
  BY DEF OrdIInv, OrdTyped
<1>3. AccIInv => Acc!TypeOK
  BY DEF AccIInv, AccTyped
<1>4. RefIInv => Ref!TypeOK
  BY DEF RefIInv, RefTyped
<1>5. BraIInv => Bra!TypeOK
  BY DEF BraIInv, BraTyped
<1>6. MigIInv => Mig!TypeOK
  BY DEF MigIInv, MigTyped, MigWork, Mig!TypeOK
<1>7. PreIInv => Pre!TypeOK
  BY DEF PreIInv, PreTyped
<1>8. /\ focus \in Parts /\ ColIInv /\ OrdIInv /\ AccIInv /\ (focus = "references" => RefIInv) /\ BraIInv
      /\ (focus = "filters" => Fil!TypeOK) /\ MigIInv /\ PreIInv
      => TypeOK
  BY <1>1, <1>2, <1>3, <1>4, <1>5, <1>6, <1>7 DEF TypeOK, Parts
<1> QED BY <1>8, PartsStay, ColAlways, OrdAlways, AccAlways, RefAlways, BraAlways, FilAlways, MigAlways, PreAlways, PTL
=============================================================================
