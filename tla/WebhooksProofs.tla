---------------------------- MODULE WebhooksProofs ----------------------------
(***************************************************************************)
(* The outbox implements AtLeastOnce, for any number of events, drains,    *)
(* attempts, retries and crashes.                                          *)
(***************************************************************************)
EXTENDS Webhooks, TLAPS

(* What the refinement needs of types.                                     *)
Typed ==
  /\ outbox \in [Events -> Delivery \union {None}]
  /\ pc \in [Drains -> {"idle", "draining", "posted"}]
  /\ work \in [Drains -> [page: SUBSET Copy, row: Copy \union {None}, outcome: Outcomes, now: Nat]]
  /\ tries \in [Events -> Nat] /\ acked \subseteq Events /\ clock \in Nat

(* A copy of a delivery counts only attempts that were made; so does the   *)
(* row, whichever drain wrote it last.                                     *)
Counted(r) == outbox[r.event] # None /\ r.attempts <= tries[r.event]
RowsCounted == \A e \in Events : outbox[e] # None => outbox[e].attempts <= tries[e]
PagesCounted == \A c \in Drains : \A r \in work[c].page : Counted(r)

(* A drain that has posted has the answer of the receiver, to its own      *)
(* attempt.                                                                *)
Answered(w) ==
  /\ w.row \in Copy /\ outbox[w.row.event] # None
  /\ w.row.attempts + 1 <= tries[w.row.event]
  /\ w.outcome \in {"ok", "error"} /\ (w.outcome = "ok" => w.row.event \in acked)
PostsAnswered == \A c \in Drains : pc[c] = "posted" => Answered(work[c])

IInv == Typed /\ RowsCounted /\ PagesCounted /\ PostsAnswered

(* A step that writes at most the row of e, and does not take back a try   *)
(* or an answer, leaves the other drains' copies counted.                  *)
Keeps ==
  /\ \A e \in Events : outbox[e] # None => outbox'[e] # None
  /\ \A e \in Events : tries'[e] \in Nat /\ tries'[e] >= tries[e]
  /\ acked \subseteq acked'

LEMMA Kept ==
  ASSUME IInv, Keeps
  PROVE  /\ \A r \in Copy : Counted(r) => Counted(r)'
         /\ \A w : Answered(w) => Answered(w)'
<1>1. \A r \in Copy : r.event \in Events /\ r.attempts \in Nat /\ tries[r.event] \in Nat
  BY DEF Copy, IInv, Typed
<1> QED BY <1>1 DEF Keeps, Counted, Answered

LEMMA Idle == NoWork \in [page: SUBSET Copy, row: Copy \union {None}, outcome: Outcomes, now: Nat]
BY DEF NoWork, Outcomes

LEMMA InitIInv == Init => IInv
<1> SUFFICES ASSUME Init PROVE IInv
  OBVIOUS
<1>1. Typed
  BY Idle DEF Init, Typed
<1>2. RowsCounted /\ PagesCounted /\ PostsAnswered
  BY DEF Init, RowsCounted, PagesCounted, PostsAnswered, NoWork
<1> QED BY <1>1, <1>2 DEF IInv

(* A drain goes on: its copies are counted, and its answer is its own.     *)
LEMMA GoesOn ==
  ASSUME IInv, Typed', Keeps, RowsCounted', NEW c \in Drains,
         \A d \in Drains \ {c} : pc'[d] = pc[d] /\ work'[d] = work[d],
         work'[c].page \subseteq work[c].page,
         pc'[c] = "posted" => Answered(work[c])'
  PROVE  IInv'
<1>1. \A d \in Drains : work[d].page \subseteq Copy /\ work'[d].page \subseteq Copy
  BY DEF IInv, Typed
<1>2. PagesCounted'
  <2> SUFFICES ASSUME NEW d \in Drains, NEW r \in work'[d].page PROVE Counted(r)'
    BY DEF PagesCounted
  <2>1. r \in work[d].page /\ r \in Copy
    BY <1>1
  <2> QED BY <2>1, Kept DEF IInv, PagesCounted
<1>3. PostsAnswered'
  <2> SUFFICES ASSUME NEW d \in Drains, pc'[d] = "posted", d # c PROVE Answered(work[d])'
    BY DEF PostsAnswered
  <2>1. Answered(work[d])
    BY DEF IInv, PostsAnswered
  <2>2. Answered(work[d]) => Answered(work[d])'
    BY Kept DEF Answered, Keeps, IInv, Typed, Copy
  <2> QED BY <2>1, <2>2
<1> QED BY <1>2, <1>3 DEF IInv

(* The drains stay where they are.                                         *)
LEMMA Undisturbed ==
  ASSUME IInv, Typed', Keeps, RowsCounted', UNCHANGED requests
  PROVE  IInv'
<1>1. UNCHANGED <<pc, work>>
  BY DEF requests
<1>2. PagesCounted'
  BY <1>1, Kept DEF IInv, PagesCounted, Typed
<1>3. PostsAnswered'
  <2> SUFFICES ASSUME NEW d \in Drains, pc[d] = "posted" PROVE Answered(work[d])'
    BY <1>1 DEF PostsAnswered
  <2>1. Answered(work[d])
    BY DEF IInv, PostsAnswered
  <2> QED BY <1>1, <2>1, Kept DEF Answered, Keeps, IInv, Typed, Copy
<1> QED BY <1>2, <1>3 DEF IInv

LEMMA Continues ==
  ASSUME Typed, NEW c \in Drains, NEW rest \in SUBSET Copy, Continue(c, rest)
  PROVE  /\ pc' \in [Drains -> {"idle", "draining", "posted"}]
         /\ work' \in [Drains -> [page: SUBSET Copy, row: Copy \union {None}, outcome: Outcomes, now: Nat]]
         /\ pc'[c] # "posted" /\ work'[c].page \subseteq rest
         /\ \A d \in Drains \ {c} : pc'[d] = pc[d] /\ work'[d] = work[d]
<1> DEFINE w == IF rest = {} THEN NoWork ELSE [NoWork EXCEPT !.page = rest, !.now = work[c].now]
<1>1. w \in [page: SUBSET Copy, row: Copy \union {None}, outcome: Outcomes, now: Nat] /\ w.page \subseteq rest
  BY DEF Typed, NoWork, Outcomes
<1>2. /\ work' = [work EXCEPT ![c] = w]
      /\ pc' = [pc EXCEPT ![c] = IF rest = {} THEN "idle" ELSE "draining"]
  BY DEF Continue
<1> QED BY <1>1, <1>2 DEF Typed

(* A delivery that is put off is put off to a time.                        *)
LEMMA Waits == ASSUME NEW n \in Nat, n >= 1 PROVE Backoff(n) \in Nat
BY WebhooksAssumption DEF Backoff

LEMMA StepIInv == IInv /\ [Next]_vars => IInv'
<1> SUFFICES ASSUME IInv, [Next]_vars PROVE IInv'
  OBVIOUS
<1> USE WebhooksAssumption
<1>a. /\ outbox \in [Events -> Delivery \union {None}]
      /\ pc \in [Drains -> {"idle", "draining", "posted"}]
      /\ work \in [Drains -> [page: SUBSET Copy, row: Copy \union {None}, outcome: Outcomes, now: Nat]]
      /\ tries \in [Events -> Nat] /\ acked \subseteq Events /\ clock \in Nat
      /\ RowsCounted
  BY DEF IInv, Typed
<1>n. None \notin Delivery
  OBVIOUS
<1>1. ASSUME NEW e \in Events, Enqueue(e) PROVE IInv'
  <2>1. \/ outbox' = [outbox EXCEPT ![e] = [status |-> "pending", attempts |-> 0, last |-> "none", next |-> clock]]
        \/ outbox' = outbox
    BY <1>1 DEF Enqueue
  <2>2. [status |-> "pending", attempts |-> 0, last |-> "none", next |-> clock] \in Delivery
    BY <1>a DEF Delivery, Outcomes
  <2>3. UNCHANGED <<requests, history, clock>>
    BY <1>1 DEF Enqueue, bounds
  <2>4. outbox' \in [Events -> Delivery \union {None}]
    BY <2>1, <2>2, <1>a
  <2>5. Typed'
    BY <2>3, <2>4, <1>a DEF Typed, requests, history
  <2>6. Keeps
    BY <2>1, <2>2, <2>3, <1>n, <1>a DEF Keeps, history
  <2>7. RowsCounted'
    BY <2>1, <2>3, <1>a DEF RowsCounted, history
  <2> QED BY <2>3, <2>5, <2>6, <2>7, Undisturbed
<1>2. ASSUME NEW e \in Events, Retry(e) PROVE IInv'
  <2> DEFINE row == [outbox[e] EXCEPT !.status = "pending", !.next = clock]
  <2>1. outbox[e] # None /\ outbox' = [outbox EXCEPT ![e] = row]
    BY <1>2 DEF Retry
  <2>2. row \in Delivery /\ row.attempts = outbox[e].attempts
    <3>1. outbox[e] \in [status: {"pending", "failed", "delivered", "exhausted"}, attempts: Nat, last: Outcomes, next: Nat \union {None}]
      BY <2>1, <1>a DEF Delivery
    <3>2. row \in [status: {"pending", "failed"}, attempts: Nat, last: Outcomes, next: Nat] /\ row.attempts = outbox[e].attempts
      BY <3>1, <1>a
    <3> QED BY <3>2 DEF Delivery
  <2>3. UNCHANGED <<requests, history, clock>>
    BY <1>2 DEF Retry
  <2> HIDE DEF row
  <2>4. Typed'
    BY <2>1, <2>2, <2>3, <1>a DEF Typed, requests, history
  <2>5. Keeps
    BY <2>1, <2>2, <2>3, <1>n, <1>a DEF Keeps, history
  <2>6. RowsCounted'
    BY <2>1, <2>2, <2>3, <1>a DEF RowsCounted, history
  <2> QED BY <2>3, <2>4, <2>5, <2>6, Undisturbed
<1>3. ASSUME NEW c \in Drains, Find(c) PROVE IInv'
  <2>1. PICK p \in Pages : work' = [work EXCEPT ![c] = [NoWork EXCEPT !.page = p, !.now = clock]]
    BY <1>3 DEF Find
  <2>2. \A e \in Events : Due(e) => CopyOf(e) \in Copy /\ Counted(CopyOf(e))
    BY <1>a DEF Due, CopyOf, Copy, Delivery, Counted, RowsCounted
  <2>3. p \subseteq Copy /\ \A r \in p : Counted(r)
    BY <2>1, <2>2 DEF Pages
  <2>4. UNCHANGED <<outbox, history, clock>> /\ pc' = [pc EXCEPT ![c] = "draining"]
    BY <1>3 DEF Find, bounds
  <2>5. [NoWork EXCEPT !.page = p, !.now = clock] \in [page: SUBSET Copy, row: Copy \union {None}, outcome: Outcomes, now: Nat]
    BY <2>3, <1>a DEF NoWork, Outcomes
  <2>6. work'[c].page = p /\ \A d \in Drains \ {c} : work'[d] = work[d] /\ pc'[d] = pc[d]
    BY <2>1, <2>4, <1>a DEF NoWork
  <2>7. Typed'
    BY <2>1, <2>4, <2>5, <1>a DEF Typed, history
  <2>8. RowsCounted'
    BY <2>4, <1>a DEF RowsCounted, history
  <2>9. PagesCounted'
    BY <2>3, <2>4, <2>6 DEF IInv, PagesCounted, Counted, history
  <2>10. PostsAnswered'
    BY <2>4, <2>6, <1>a DEF IInv, PostsAnswered, Answered, history
  <2> QED BY <2>7, <2>8, <2>9, <2>10 DEF IInv
<1>4. ASSUME NEW c \in Drains, Retire(c) PROVE IInv'
  <2>1. PICK r \in work[c].page : Set(r.event, Retired(outbox[r.event])) /\ Continue(c, work[c].page \ {r})
    BY <1>4 DEF Retire
  <2>2. r \in Copy /\ r.event \in Events /\ outbox[r.event] # None /\ work[c].page \ {r} \in SUBSET Copy
    BY <1>a, <2>1 DEF IInv, PagesCounted, Counted, Copy
  <2>3. Retired(outbox[r.event]) \in Delivery /\ Retired(outbox[r.event]).attempts = outbox[r.event].attempts
    <3> DEFINE row == outbox[r.event]
    <3>1. row \in [status: {"pending", "failed", "delivered", "exhausted"}, attempts: Nat, last: Outcomes, next: Nat \union {None}]
      BY <2>2, <1>a DEF Delivery
    <3>2. /\ Retired(row) \in [status: {"delivered", "exhausted"}, attempts: Nat, last: Outcomes, next: {None}]
          /\ Retired(row).attempts = row.attempts
      BY <3>1 DEF Retired, Outcomes
    <3> QED BY <3>2 DEF Delivery
  <2>4. UNCHANGED <<history, clock>>
    BY <1>4 DEF Retire, bounds
  <2>5. outbox' = [outbox EXCEPT ![r.event] = Retired(outbox[r.event])]
    BY <2>1 DEF Set
  <2>6. Typed'
    BY <2>1, <2>2, <2>3, <2>4, <2>5, <1>a, Continues DEF IInv, Typed, history
  <2>7. Keeps
    BY <2>2, <2>3, <2>4, <2>5, <1>n, <1>a DEF Keeps, history
  <2>8. RowsCounted'
    BY <2>2, <2>3, <2>4, <2>5, <1>a DEF RowsCounted, history
  <2> QED BY <2>1, <2>2, <2>6, <2>7, <2>8, Continues, GoesOn DEF IInv
<1>5. ASSUME NEW c \in Drains, Post(c) PROVE IInv'
  <2>1. PICK r \in work[c].page, answer \in {"2xx", "error", "late"} :
          /\ tries' = [tries EXCEPT ![r.event] = @ + 1]
          /\ acked' = IF answer = "2xx" THEN acked \union {r.event} ELSE acked
          /\ work' = [work EXCEPT ![c].page = @ \ {r}, ![c].row = r, ![c].outcome = Outcome(answer)]
    BY <1>5 DEF Post
  <2>2. r \in Copy /\ r.event \in Events /\ r.attempts \in Nat /\ outbox[r.event] # None /\ r.attempts <= tries[r.event]
    BY <1>a, <2>1 DEF IInv, PagesCounted, Counted, Copy
  <2>3. UNCHANGED <<outbox, clock>> /\ pc' = [pc EXCEPT ![c] = "posted"]
    BY <1>5 DEF Post, bounds
  <2>4. Outcome(answer) \in {"ok", "error"} /\ (Outcome(answer) = "ok" => answer = "2xx")
    BY DEF Outcome
  <2>5. /\ work'[c].page = work[c].page \ {r} /\ work'[c].row = r /\ work'[c].outcome = Outcome(answer)
        /\ work'[c] \in [page: SUBSET Copy, row: Copy \union {None}, outcome: Outcomes, now: Nat]
    <3>1. work[c] \in [page: SUBSET Copy, row: Copy \union {None}, outcome: Outcomes, now: Nat]
      BY <1>a
    <3>2. work[c].page \ {r} \in SUBSET Copy /\ r \in Copy \union {None} /\ Outcome(answer) \in Outcomes
      BY <2>2, <2>4, <3>1 DEF Outcomes
    <3>3. work'[c] = [work[c] EXCEPT !.page = work[c].page \ {r}, !.row = r, !.outcome = Outcome(answer)]
      BY <2>1, <1>a
    <3> HIDE DEF Outcome
    <3>4. /\ work'[c].page = work[c].page \ {r} /\ work'[c].row = r /\ work'[c].outcome = Outcome(answer)
      BY <3>1, <3>3
    <3>5. work'[c] \in [page: SUBSET Copy, row: Copy \union {None}, outcome: Outcomes, now: Nat]
      BY <3>1, <3>2, <3>3
    <3> QED BY <3>4, <3>5
  <2>6. tries' \in [Events -> Nat] /\ acked' \subseteq Events
    BY <2>1, <2>2, <1>a
  <2>7. work' \in [Drains -> [page: SUBSET Copy, row: Copy \union {None}, outcome: Outcomes, now: Nat]]
    BY <2>1, <2>5, <1>a
  <2>8. Typed'
    BY <2>3, <2>6, <2>7, <1>a DEF Typed
  <2>9. Keeps
    BY <2>1, <2>2, <2>3, <1>a DEF Keeps
  <2>10. RowsCounted'
    BY <2>1, <2>2, <2>3, <1>a DEF RowsCounted, Delivery
  <2>11. Answered(work[c])'
    BY <2>1, <2>2, <2>3, <2>4, <2>5, <1>a DEF Answered
  <2>12. \A d \in Drains \ {c} : pc'[d] = pc[d] /\ work'[d] = work[d]
    BY <2>1, <2>3, <1>a
  <2> QED BY <2>5, <2>8, <2>9, <2>10, <2>11, <2>12, GoesOn
<1>6. ASSUME NEW c \in Drains, Settle(c) PROVE IInv'
  <2> DEFINE row == Settled(work[c])
  <2>1. pc[c] = "posted" /\ Continue(c, work[c].page)
    BY <1>6 DEF Settle
  <2>2. Answered(work[c]) /\ work[c].row.event \in Events /\ work[c].row.attempts \in Nat
    BY <2>1 DEF IInv, PostsAnswered, Answered, Copy
  <2>3. outbox' = [outbox EXCEPT ![work[c].row.event] = row]
    BY <1>6 DEF Settle, Set
  <2>4. row \in Delivery /\ row.attempts = work[c].row.attempts + 1
    BY <2>2, <1>a, Waits DEF Settled, Attempts, Delivery, Answered, Outcomes
  <2>5. UNCHANGED <<history, clock>>
    BY <1>6 DEF Settle, bounds
  <2> HIDE DEF row
  <2>6. Typed'
    BY <2>1, <2>2, <2>3, <2>4, <2>5, <1>a, Continues DEF IInv, Typed, history
  <2>7. Keeps
    BY <2>2, <2>3, <2>4, <2>5, <1>n, <1>a DEF Keeps, history
  <2>8. RowsCounted'
    BY <2>2, <2>3, <2>4, <2>5, <1>a DEF RowsCounted, history, Answered
  <2> QED BY <2>1, <2>6, <2>7, <2>8, <1>a, Continues, GoesOn DEF IInv
<1>7. CASE Tick
  <2>1. UNCHANGED <<outbox, requests, history>> /\ clock' \in Nat
    BY <1>7, <1>a DEF Tick
  <2>2. Typed' /\ Keeps /\ RowsCounted'
    BY <2>1, <1>a DEF Typed, Keeps, RowsCounted, requests, history
  <2> QED BY <2>1, <2>2, Undisturbed
<1>8. CASE Restart
  <2>1. UNCHANGED <<outbox, history, clock>> /\ pc' = [c \in Drains |-> "idle"] /\ work' = [c \in Drains |-> NoWork]
    BY <1>8 DEF Restart
  <2>2. Typed'
    BY <2>1, <1>a, Idle DEF Typed, history
  <2>3. RowsCounted' /\ PagesCounted' /\ PostsAnswered'
    BY <2>1, <1>a DEF RowsCounted, PagesCounted, PostsAnswered, NoWork, history
  <2> QED BY <2>2, <2>3 DEF IInv
<1>9. CASE UNCHANGED vars
  <2>1. UNCHANGED <<outbox, requests, history, clock>>
    BY <1>9 DEF vars, bounds
  <2>2. Typed' /\ Keeps /\ RowsCounted'
    BY <2>1, <1>a DEF Typed, Keeps, RowsCounted, requests, history
  <2> QED BY <2>1, <2>2, Undisturbed
<1> QED BY <1>1, <1>2, <1>3, <1>4, <1>5, <1>6, <1>7, <1>8, <1>9 DEF Next, DrainStep

-----------------------------------------------------------------------------
(* Only the report of the row that is written changes.                     *)
LEMMA Says ==
  ASSUME Typed, NEW e \in Events, NEW row \in Delivery, outbox[e] # None, Set(e, row), UNCHANGED history,
         row.status \in {"pending", "failed"} \/ row.last = "unconfigured" \/ row.status = "delivered"
         \/ row.status = "exhausted"
  PROVE  Promise!Say(e, IF row.status \in {"pending", "failed"} THEN "waiting"
                        ELSE IF row.last = "unconfigured" THEN "retired" ELSE row.status)
<1>1. outbox' = [outbox EXCEPT ![e] = row] /\ row # None
  BY WebhooksAssumption DEF Set
<1>2. \A f \in Events : f # e => Report(f)' = Report(f)
  BY <1>1 DEF Typed, Report
<1>3. Report(e)' = IF row.status \in {"pending", "failed"} THEN "waiting"
                   ELSE IF row.last = "unconfigured" THEN "retired" ELSE row.status
  BY <1>1 DEF Typed, Report
<1> QED BY <1>2, <1>3 DEF Promise!Say, history

(* A row is reported.                                                      *)
LEMMA Reported ==
  ASSUME Typed, NEW e \in Events
  PROVE  (outbox[e] # None) <=> ([f \in Events |-> Report(f)][e] # "none")
BY WebhooksAssumption DEF Typed, Report, Delivery

LEMMA InitKeeps == Init => Promise!Init
BY DEF Init, Promise!Init, Report

(* Each step is a step of the promise, or changes nothing it speaks of.    *)
LEMMA StepKeeps == IInv /\ [Next]_vars => [Promise!Next]_(Promise!vars)
<1> SUFFICES ASSUME IInv, [Next]_vars PROVE [Promise!Next]_(Promise!vars)
  OBVIOUS
<1> USE WebhooksAssumption
<1>a. /\ Typed /\ outbox \in [Events -> Delivery \union {None}]
      /\ work \in [Drains -> [page: SUBSET Copy, row: Copy \union {None}, outcome: Outcomes, now: Nat]]
      /\ clock \in Nat /\ None \notin Delivery
  BY DEF IInv, Typed
<1>s. ASSUME UNCHANGED <<outbox, history>> PROVE UNCHANGED Promise!vars
  BY <1>s DEF Promise!vars, history, Report
<1>1. ASSUME NEW e \in Events, Enqueue(e) PROVE [Promise!Next]_(Promise!vars)
  <2> DEFINE row == [status |-> "pending", attempts |-> 0, last |-> "none", next |-> clock]
  <2>1. UNCHANGED history
    BY <1>1 DEF Enqueue
  <2>2. CASE outbox' = outbox
    BY <2>1, <2>2, <1>s
  <2>3. CASE outbox' = [outbox EXCEPT ![e] = row]
    <3>1. row \in Delivery /\ row # None
      BY <1>a DEF Delivery, Outcomes
    <3>2. /\ \A f \in Events : f # e => Report(f)' = Report(f)
          /\ Report(e)' = "waiting"
      BY <2>3, <3>1, <1>a DEF Report
    <3>3. Promise!Say(e, "waiting")
      BY <3>2, <2>1 DEF Promise!Say, history
    <3>4. Promise!Accept(e) \/ Promise!Reopen(e)
      BY <3>3 DEF Promise!Accept, Promise!Reopen
    <3> QED BY <3>4 DEF Promise!Next
  <2> QED BY <1>1, <2>2, <2>3 DEF Enqueue
<1>2. ASSUME NEW e \in Events, Retry(e) PROVE [Promise!Next]_(Promise!vars)
  <2> DEFINE row == [outbox[e] EXCEPT !.status = "pending", !.next = clock]
  <2>1. outbox[e] # None /\ outbox' = [outbox EXCEPT ![e] = row] /\ UNCHANGED history
    BY <1>2 DEF Retry
  <2>2. row \in Delivery /\ row.status = "pending"
    <3>1. outbox[e] \in [status: {"pending", "failed", "delivered", "exhausted"}, attempts: Nat, last: Outcomes, next: Nat \union {None}]
      BY <2>1, <1>a DEF Delivery
    <3>2. row \in [status: {"pending", "failed"}, attempts: Nat, last: Outcomes, next: Nat] /\ row.status = "pending"
      BY <3>1, <1>a
    <3> QED BY <3>2 DEF Delivery
  <2> HIDE DEF row
  <2>3. Promise!Say(e, "waiting")
    BY <2>1, <2>2, <1>a, Says DEF Set
  <2>4. Promise!Reopen(e)
    BY <2>1, <2>3, <1>a, Reported DEF Promise!Reopen
  <2> QED BY <2>4 DEF Promise!Next
<1>3. ASSUME NEW c \in Drains, Find(c) PROVE [Promise!Next]_(Promise!vars)
  BY <1>3, <1>s DEF Find
<1>4. ASSUME NEW c \in Drains, Retire(c) PROVE [Promise!Next]_(Promise!vars)
  <2>1. PICK r \in work[c].page : Set(r.event, Retired(outbox[r.event]))
    BY <1>4 DEF Retire
  <2> DEFINE row == outbox[r.event]
  <2>2. r.event \in Events /\ outbox[r.event] # None /\ UNCHANGED history
    BY <1>4, <1>a, <2>1 DEF IInv, PagesCounted, Counted, Copy, Retire
  <2>3. /\ Retired(row) \in Delivery /\ Retired(row).status = "exhausted" /\ Retired(row).last = "unconfigured"
    <3>1. row \in [status: {"pending", "failed", "delivered", "exhausted"}, attempts: Nat, last: Outcomes, next: Nat \union {None}]
      BY <2>2, <1>a DEF Delivery
    <3>2. /\ Retired(row) \in [status: {"delivered", "exhausted"}, attempts: Nat, last: Outcomes, next: {None}]
          /\ Retired(row).status = "exhausted" /\ Retired(row).last = "unconfigured"
      BY <3>1 DEF Retired, Outcomes
    <3> QED BY <3>2 DEF Delivery
  <2>4. Promise!Say(r.event, "retired")
    BY <2>1, <2>2, <2>3, <1>a, Says
  <2>5. Promise!Retire(r.event)
    BY <2>2, <2>4, <1>a, Reported DEF Promise!Retire
  <2> QED BY <2>2, <2>5 DEF Promise!Next
<1>5. ASSUME NEW c \in Drains, Post(c) PROVE [Promise!Next]_(Promise!vars)
  <2>1. PICK r \in work[c].page, answer \in {"2xx", "error", "late"} :
          /\ tries' = [tries EXCEPT ![r.event] = @ + 1]
          /\ acked' = IF answer = "2xx" THEN acked \union {r.event} ELSE acked
    BY <1>5 DEF Post
  <2>2. r.event \in Events /\ outbox[r.event] # None /\ UNCHANGED outbox
    BY <1>5, <1>a, <2>1 DEF IInv, PagesCounted, Counted, Copy, Post
  <2>3. UNCHANGED [e \in Events |-> Report(e)]
    BY <2>2 DEF Report
  <2>4. Promise!Try(r.event)
    BY <2>1, <2>2, <2>3, <1>a, Reported DEF Promise!Try
  <2> QED BY <2>2, <2>4 DEF Promise!Next
<1>6. ASSUME NEW c \in Drains, Settle(c) PROVE [Promise!Next]_(Promise!vars)
  <2> DEFINE e == work[c].row.event
             row == Settled(work[c])
  <2>1. Answered(work[c])
    BY <1>6 DEF Settle, IInv, PostsAnswered
  <2>2. e \in Events /\ work[c].row.attempts \in Nat /\ outbox[e] # None
    BY <2>1 DEF Answered, Copy
  <2>3. Set(e, row) /\ UNCHANGED history
    BY <1>6 DEF Settle
  <2>4. row \in Delivery /\ row.last # "unconfigured"
    BY <2>1, <2>2, <1>a, Waits DEF Settled, Attempts, Delivery, Answered, Outcomes
  <2>5. tries[e] \in Nat /\ tries[e] >= work[c].row.attempts + 1
    BY <2>1, <2>2 DEF Answered, IInv, Typed
  <2>6. \/ row.status = "delivered" /\ e \in acked
        \/ row.status = "exhausted" /\ tries[e] >= MaxAttempts
        \/ row.status = "failed"
    BY <2>1, <2>2, <2>5 DEF Settled, Spent, Attempts, Answered
  <2> HIDE DEF row, e
  <2>7. Promise!Say(e, IF row.status = "failed" THEN "waiting" ELSE row.status)
    BY <2>2, <2>3, <2>4, <2>6, <1>a, Says
  <2>8. Promise!Deliver(e) \/ Promise!GiveUp(e) \/ Promise!Reopen(e)
    BY <2>2, <2>6, <2>7, <1>a, Reported DEF Promise!Deliver, Promise!GiveUp, Promise!Reopen
  <2> QED BY <2>2, <2>8 DEF Promise!Next
<1>7. CASE Tick
  BY <1>7, <1>s DEF Tick
<1>8. CASE Restart
  BY <1>8, <1>s DEF Restart
<1>9. CASE UNCHANGED vars
  BY <1>9, <1>s DEF vars
<1> QED BY <1>1, <1>2, <1>3, <1>4, <1>5, <1>6, <1>7, <1>8, <1>9 DEF Next, DrainStep

(* Every behaviour of the outbox, however its drains overlap, crash and    *)
(* retry, is one of AtLeastOnce: what it reports delivered the receiver    *)
(* has acknowledged, and what it gives up was tried maxAttempts times.     *)
THEOREM Implements == Spec => KeepsPromise
<1>1. Init => Promise!Init
  BY InitKeeps
<1>2. IInv /\ [Next]_vars => [Promise!Next]_(Promise!vars)
  BY StepKeeps
<1> QED BY <1>1, <1>2, InitIInv, StepIInv, PTL DEF Spec, KeepsPromise, Promise!Spec
=============================================================================
