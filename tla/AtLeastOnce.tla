---------------------------- MODULE AtLeastOnce ----------------------------
(***************************************************************************)
(* What durable webhook delivery promises its configurer, whatever drains, *)
(* retries and crashes there are: an event is reported delivered only once *)
(* the receiver has acknowledged it, and given up only after its tries.    *)
(***************************************************************************)
EXTENDS Naturals

CONSTANTS
  Events,
  MaxAttempts

VARIABLES
  tries,       (* POSTs made for each event                                *)
  acked,       (* events the receiver has acknowledged                     *)
  report       (* what the delivery log says of each event                 *)

vars == <<tries, acked, report>>

Reports == {"none", "waiting", "delivered", "exhausted", "retired"}

Init ==
  /\ tries = [e \in Events |-> 0]
  /\ acked = {}
  /\ report = [e \in Events |-> "none"]

Say(e, what) == report' = [report EXCEPT ![e] = what] /\ UNCHANGED <<tries, acked>>

Accept(e) == report[e] = "none" /\ Say(e, "waiting")

(* An event may be tried whatever its report says: at least once is not at *)
(* most once.                                                              *)
Try(e) ==
  /\ report[e] # "none"
  /\ tries' = [tries EXCEPT ![e] = @ + 1]
  /\ acked' \in {acked, acked \union {e}}
  /\ UNCHANGED report

Deliver(e) == report[e] # "none" /\ e \in acked /\ Say(e, "delivered")

GiveUp(e) == report[e] # "none" /\ tries[e] >= MaxAttempts /\ Say(e, "exhausted")

(* The endpoint is no longer configured.                                   *)
Retire(e) == report[e] # "none" /\ Say(e, "retired")

Reopen(e) == report[e] # "none" /\ Say(e, "waiting")

Next == \E e \in Events : Accept(e) \/ Try(e) \/ Deliver(e) \/ GiveUp(e) \/ Retire(e) \/ Reopen(e)

Spec == Init /\ [][Next]_vars
=============================================================================
