------------------------------ MODULE Webhooks ------------------------------
(***************************************************************************)
(* Durable webhooks: the outbox _webhook_deliveries, filled by a hook      *)
(* after each write, drained by a cron (webhooks.ts, processWebhooks,      *)
(* retryWebhookDelivery).  Nothing keeps two drains from overlapping: each *)
(* reads a page of rows and writes what it computes from those copies.     *)
(* The audit rows it adds are left out: nothing reads them back.           *)
(***************************************************************************)
EXTENDS Naturals, FiniteSets

CONSTANTS
  Events,      (* writes to a watched collection                           *)
  Drains,
  MaxAttempts, (* the endpoint's maxAttempts                               *)
  Limit,       (* the page a drain claims                                  *)
  Cap,         (* the back-off is capped, in ticks                         *)
  MaxClock,    (* bound: time explored                                     *)
  MaxRetries,  (* bound: retries an admin asks for                         *)
  MaxRestarts, (* bound: crashes                                           *)
  None

VARIABLES
  outbox,      (* the row of each event, None before it is enqueued        *)
  committed,   (* writes whose afterChange hook has not run yet            *)
  configured,  (* is the endpoint still in the config                      *)
  pc, work,    (* where each drain is, and its copies of rows              *)
  tries,       (* POSTs made of each event                                 *)
  acked,       (* events the receiver answered 2xx to                      *)
  clock, retries, restarts

requests == <<pc, work>>
history == <<tries, acked>>
bounds == <<clock, retries, restarts>>
vars == <<outbox, committed, configured, requests, history, bounds>>

Outcomes == {"none", "ok", "error", "unconfigured"}

(* A delivery has a next attempt as long as it is not settled.             *)
Delivery ==
  [status: {"pending", "failed"}, attempts: Nat, last: Outcomes, next: Nat]
  \union [status: {"delivered", "exhausted"}, attempts: Nat, last: Outcomes, next: {None}]

(* A drain's copy of a row.                                                *)
Copy == [event: Events, attempts: Nat, next: Nat]
NoWork == [page |-> {}, row |-> None, outcome |-> "none", now |-> 0]

ASSUME WebhooksAssumption ==
  /\ {MaxClock, MaxRetries, MaxRestarts} \subseteq Nat
  /\ {MaxAttempts, Limit, Cap} \subseteq Nat \ {0}
  /\ None \notin Nat \union Copy \union Delivery

Init ==
  /\ outbox = [e \in Events |-> None]
  /\ committed = Events /\ configured = TRUE
  /\ pc = [c \in Drains |-> "idle"] /\ work = [c \in Drains |-> NoWork]
  /\ tries = [e \in Events |-> 0] /\ acked = {}
  /\ clock = 0 /\ retries = 0 /\ restarts = 0

-----------------------------------------------------------------------------
(* Enqueueing: the hook runs some time after its write committed.          *)

(* An endpoint that is gone when the process starts has no hook.  A failed *)
(* insert is logged and the event is lost; the write stands.               *)
Enqueue(e) ==
  /\ e \in committed /\ committed' = committed \ {e}
  /\ \/ configured /\ outbox' = [outbox EXCEPT ![e] =
          [status |-> "pending", attempts |-> 0, last |-> "none", next |-> clock]]
     \/ UNCHANGED outbox
  /\ UNCHANGED <<configured, requests, history, bounds>>

(* retryWebhookDelivery: any delivery, its attempts kept.                  *)
Retry(e) ==
  /\ outbox[e] # None /\ retries < MaxRetries
  /\ outbox' = [outbox EXCEPT ![e].status = "pending", ![e].next = clock]
  /\ retries' = retries + 1
  /\ UNCHANGED <<committed, configured, requests, history, clock, restarts>>

-----------------------------------------------------------------------------
(* processWebhooks.                                                        *)

Due(e) == /\ outbox[e] # None /\ outbox[e].status \in {"pending", "failed"}
          /\ outbox[e].next <= clock

CopyOf(e) == [event |-> e, attempts |-> outbox[e].attempts, next |-> outbox[e].next]

(* The Limit due rows that have waited longest.                            *)
Pages ==
  LET due == {CopyOf(e) : e \in {f \in Events : Due(f)}}
  IN  {p \in SUBSET due : /\ Cardinality(p) = IF Cardinality(due) < Limit THEN Cardinality(due) ELSE Limit
                          /\ \A r \in p, s \in due \ p : r.next <= s.next}

Find(c) ==
  /\ pc[c] = "idle" /\ \E e \in Events : Due(e)
  /\ \E p \in Pages : work' = [work EXCEPT ![c] = [NoWork EXCEPT !.page = p, !.now = clock]]
  /\ pc' = [pc EXCEPT ![c] = "draining"]
  /\ UNCHANGED <<outbox, committed, configured, history, bounds>>

IsNext(c, r) == r \in work[c].page /\ \A s \in work[c].page : r.next <= s.next

(* On to the rest of the page, or done with it.                            *)
Continue(c, rest) ==
  /\ pc' = [pc EXCEPT ![c] = IF rest = {} THEN "idle" ELSE "draining"]
  /\ work' = [work EXCEPT ![c] = IF rest = {} THEN NoWork
                                 ELSE [NoWork EXCEPT !.page = rest, !.now = work[c].now]]

Set(e, row) == outbox' = [outbox EXCEPT ![e] = row]

(* Variant: a delivery to an endpoint that is gone is just skipped.        *)
Skipped(row) == row

Retired(row) == [row EXCEPT !.status = "exhausted", !.last = "unconfigured", !.next = None]

Retire(c) ==
  /\ pc[c] = "draining" /\ ~ configured
  /\ \E r \in work[c].page :
       /\ IsNext(c, r)
       /\ Set(r.event, Retired(outbox[r.event]))
       /\ Continue(c, work[c].page \ {r})
  /\ UNCHANGED <<committed, configured, history, bounds>>

(* Variant: any answer is a delivery.                                      *)
AnyAnswer(answer) == IF answer = "late" THEN "error" ELSE "ok"

(* deliverWebhook: 2xx in time, and nothing else, is a delivery.           *)
Outcome(answer) == IF answer = "2xx" THEN "ok" ELSE "error"

(* The receiver answers 2xx, or not, or handles the event too late for the *)
(* time-out and the answer is not seen.                                    *)
Post(c) ==
  /\ pc[c] = "draining" /\ configured
  /\ \E r \in work[c].page, answer \in {"2xx", "error", "late"} :
       /\ IsNext(c, r)
       /\ tries' = [tries EXCEPT ![r.event] = @ + 1]
       /\ acked' = IF answer = "2xx" THEN acked \union {r.event} ELSE acked
       /\ work' = [work EXCEPT ![c].page = @ \ {r}, ![c].row = r, ![c].outcome = Outcome(answer)]
  /\ pc' = [pc EXCEPT ![c] = "posted"]
  /\ UNCHANGED <<outbox, committed, configured, bounds>>

(* 2^n seconds, capped; a tick is two seconds.                             *)
Backoff(n) == IF 2^(n - 1) \in 1..Cap THEN 2^(n - 1) ELSE Cap

Attempts(r) == r.attempts + 1

(* Variant: a delivery is given up one attempt early.                      *)
SpentEarly(r) == Attempts(r) + 1 >= MaxAttempts

Spent(r) == Attempts(r) >= MaxAttempts

(* What the drain makes of its copy and of the answer.                     *)
Settled(w) ==
  LET row(status, next) == [status |-> status, attempts |-> Attempts(w.row), last |-> w.outcome, next |-> next]
  IN  IF w.outcome = "ok" THEN row("delivered", None)
      ELSE IF Spent(w.row) THEN row("exhausted", None)
      ELSE row("failed", w.now + Backoff(Attempts(w.row)))

Settle(c) ==
  /\ pc[c] = "posted"
  /\ Set(work[c].row.event, Settled(work[c]))
  /\ Continue(c, work[c].page)
  /\ UNCHANGED <<committed, configured, history, bounds>>

-----------------------------------------------------------------------------
Tick ==
  /\ clock < MaxClock /\ clock' = clock + 1
  /\ UNCHANGED <<outbox, committed, configured, requests, history, retries, restarts>>

(* The process dies and comes back, with another config perhaps: what was  *)
(* not enqueued is lost, and drains stop wherever they were.               *)
Restart ==
  /\ restarts < MaxRestarts /\ restarts' = restarts + 1
  /\ committed' = {} /\ configured' \in BOOLEAN
  /\ pc' = [c \in Drains |-> "idle"] /\ work' = [c \in Drains |-> NoWork]
  /\ UNCHANGED <<outbox, history, clock, retries>>

DrainStep(c) == Retire(c) \/ Post(c) \/ Settle(c)

Next ==
  \/ \E e \in Events : Enqueue(e) \/ Retry(e)
  \/ \E c \in Drains : Find(c) \/ DrainStep(c)
  \/ Tick \/ Restart

Spec == Init /\ [][Next]_vars

(* The cron keeps draining, and a drain that began goes on.                *)
FairSpec == Spec /\ \A c \in Drains : WF_vars(Find(c)) /\ WF_vars(DrainStep(c))

-----------------------------------------------------------------------------
(* Properties.                                                             *)

TypeOK ==
  /\ outbox \in [Events -> Delivery \union {None}]
  /\ committed \subseteq Events /\ configured \in BOOLEAN
  /\ pc \in [Drains -> {"idle", "draining", "posted"}]
  /\ \A c \in Drains : /\ work[c].page \subseteq Copy /\ work[c].row \in Copy \union {None}
                       /\ work[c].outcome \in Outcomes /\ work[c].now \in Nat
  /\ tries \in [Events -> Nat] /\ acked \subseteq Events
  /\ clock \in Nat /\ retries \in Nat /\ restarts \in Nat

(* A delivery that waits is either settled or tried again and put off: no  *)
(* neighbour that keeps failing, and no endpoint that is gone, can hold    *)
(* back the page for ever.                                                 *)
DueIsAttempted == \A e \in Events : Due(e) ~> ~ Due(e)

Report(e) ==
  IF outbox[e] = None THEN "none"
  ELSE IF outbox[e].status \in {"pending", "failed"} THEN "waiting"
  ELSE IF outbox[e].last = "unconfigured" THEN "retired" ELSE outbox[e].status

(* However drains overlap and crash, the log says delivered only of what   *)
(* the receiver has acknowledged, and exhausted only of what was tried     *)
(* maxAttempts times.                                                      *)
Promise == INSTANCE AtLeastOnce WITH report <- [e \in Events |-> Report(e)]

KeepsPromise == Promise!Spec
=============================================================================
