------------------------------- MODULE Orders -------------------------------
(***************************************************************************)
(* One order of the commerce module (commerce.ts): the checkout that       *)
(* creates it and opens a payment session, the provider's events that move *)
(* it, and the staff that fulfil or cancel it.  Every change is an         *)
(* update(), which reads the row, awaits, and writes all of it back.       *)
(*                                                                         *)
(* The provider is external: it reports what becomes of the charge, once   *)
(* or more, and in any order.  Prices and lines are left out: the order    *)
(* and the session are made from the same numbers, read once.              *)
(***************************************************************************)
EXTENDS Naturals

CONSTANTS
  Calls,        (* requests in flight                                      *)
  MaxEvents,    (* bound: deliveries of the provider                       *)
  MaxEdits,     (* bound: edits by staff                                   *)
  None

VARIABLES
  order,        (* the row, or None                                        *)
  charge,       (* what the provider knows of the payment                  *)
  sent,         (* the events it has reported, to be delivered at any time *)
  call,         (* requests in flight                                      *)
  checkout,     (* how far the checkout is                                 *)
  handled,      (* events that were handled, and acted upon if need be     *)
  crossed,      (* an update wrote over a row that was not the one it read *)
  events, edits

vars == <<order, charge, sent, call, checkout, handled, crossed, events, edits>>

Reports == {"paid", "failed", "refunded"}
Statuses == {"pending", "fulfilled", "cancelled"} \union Reports
Order == [status: Statuses, session: BOOLEAN]

OrdersAssumption == MaxEvents \in Nat /\ MaxEdits \in Nat /\ None \notin Order \union Statuses

(* What an update is to change - the status, or None, and the session -    *)
(* and the row as last read.                                               *)
Idle == [step |-> "idle", status |-> None, session |-> FALSE, read |-> None]

Init ==
  /\ order = None /\ charge = "none" /\ sent = {} /\ handled = {}
  /\ call = [c \in Calls |-> Idle]
  /\ checkout = "none" /\ crossed = FALSE
  /\ events = 0 /\ edits = 0

Becomes(c, r) == call' = [call EXCEPT ![c] = r]

-----------------------------------------------------------------------------
(* update(): the row is read, then written back with the change.           *)

UpdateRead(c) ==
  /\ call[c].step = "update"
  /\ crossed' = (crossed \/ call[c].read \notin {None, order})
  /\ Becomes(c, [call[c] EXCEPT !.step = "read", !.read = order])
  /\ UNCHANGED <<order, charge, sent, checkout, handled, events, edits>>

Merged(r) == [status |-> IF r.status = None THEN r.read.status ELSE r.status,
              session |-> r.session \/ r.read.session]

UpdateWrite(c) ==
  LET r == call[c]
  IN  /\ r.step = "read"
      /\ order' = Merged(r)
      /\ crossed' = (crossed \/ order # r.read)
      /\ checkout' = IF r.session THEN "done" ELSE checkout
      /\ handled' = IF r.status \in Reports THEN handled \union {r.status} ELSE handled
      /\ Becomes(c, Idle)
      /\ UNCHANGED <<charge, sent, events, edits>>

-----------------------------------------------------------------------------
(* Checkout.                                                               *)

CreateOrder ==
  /\ order = None
  /\ order' = [status |-> "pending", session |-> FALSE] /\ checkout' = "created"
  /\ UNCHANGED <<charge, sent, call, handled, crossed, events, edits>>

(* createCheckout returns, and the customer may pay from now on; or it     *)
(* throws, or the process dies, and the order stays as it is.              *)
OpenSession(c) ==
  /\ checkout = "created" /\ call[c].step = "idle"
  /\ \/ /\ charge' = "open" /\ checkout' = "open"
        /\ Becomes(c, [Idle EXCEPT !.step = "update", !.session = TRUE])
     \/ checkout' = "failed" /\ UNCHANGED <<charge, call>>
  /\ UNCHANGED <<order, sent, handled, crossed, events, edits>>

-----------------------------------------------------------------------------
(* The provider: an attempt to pay may fail, and be repeated.              *)

Leads == [open |-> {"failed", "paid"}, failed |-> {"paid"}, paid |-> {"refunded"}, refunded |-> {}, none |-> {}]

Report ==
  /\ \E s \in Leads[charge] : charge' = s /\ sent' = sent \union {s}
  /\ UNCHANGED <<order, call, checkout, handled, crossed, events, edits>>

-----------------------------------------------------------------------------
(* The webhook.                                                            *)

(* Variant: an event is applied if it is news.                             *)
IsNews(status, next) == status # next

Moves(status, next) == status # next /\ ~ (status = "refunded" /\ next # "refunded")

WebhookLook(c) ==
  /\ call[c].step = "idle" /\ order # None /\ events < MaxEvents
  /\ events' = events + 1
  /\ \E next \in sent :
       IF Moves(order.status, next)
       THEN Becomes(c, [Idle EXCEPT !.step = "update", !.status = next, !.read = order]) /\ UNCHANGED handled
       ELSE handled' = handled \union {next} /\ UNCHANGED call
  /\ UNCHANGED <<order, charge, sent, checkout, crossed, edits>>

-----------------------------------------------------------------------------
(* Staff ship a paid order, or cancel one that is not.                     *)

StaffEdits(c) ==
  /\ call[c].step = "idle" /\ order # None /\ edits < MaxEdits
  /\ edits' = edits + 1
  /\ \/ order.status = "paid" /\ Becomes(c, [Idle EXCEPT !.step = "read", !.status = "fulfilled", !.read = order])
     \/ /\ order.status \in {"pending", "failed"}
        /\ Becomes(c, [Idle EXCEPT !.step = "read", !.status = "cancelled", !.read = order])
  /\ UNCHANGED <<order, charge, sent, checkout, handled, crossed, events>>

Next ==
  \/ CreateOrder \/ Report
  \/ \E c \in Calls : \/ OpenSession(c) \/ WebhookLook(c) \/ StaffEdits(c)
                      \/ UpdateRead(c) \/ UpdateWrite(c)

Spec == Init /\ [][Next]_vars

-----------------------------------------------------------------------------
(* Properties.                                                             *)

Call == [step: {"idle", "update", "read"}, status: Statuses \union {None},
         session: BOOLEAN, read: Order \union {None}]

TypeOK ==
  /\ order \in Order \union {None}
  /\ charge \in DOMAIN Leads /\ sent \subseteq Reports /\ handled \subseteq sent
  /\ call \in [Calls -> Call]
  /\ checkout \in {"none", "created", "open", "failed", "done"} /\ crossed \in BOOLEAN
  /\ events \in 0..MaxEvents /\ edits \in 0..MaxEdits

(* Whatever the provider repeats or delivers late, an order whose refund   *)
(* was handled is refunded, and one whose checkout ended knows its session *)
(* - unless two updates crossed, of which the later writes back what it    *)
(* had read before the earlier.                                            *)
RefundIsFinal ==
  ~ crossed => /\ "refunded" \in handled => order.status = "refunded"
               /\ checkout = "done" => order.session

(* "Never downgrade a refunded/paid order": a payment event leaves a       *)
(* settled order settled.                                                  *)
SettledStaysSettled ==
  [][order # None /\ order.status \in {"paid", "fulfilled", "refunded"} /\ ~ crossed' =>
       order'.status # "failed"]_vars
=============================================================================
