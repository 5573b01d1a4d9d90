------------------------------ MODULE JobsProofs ------------------------------
(***************************************************************************)
(* What holds of the queue and of the workflow engine for any number of    *)
(* jobs, overlapping drains, attempts, steps and crashes: a job marked     *)
(* running is held, outcomes are earned, and the run log is true.          *)
(***************************************************************************)
EXTENDS Jobs, FiniteSetTheorems, TLAPS

Places == {"idle", "draining", "claimed", "running", "returned"}
WorkOf == [page: SUBSET Copy, job: Copy \union {None}, run: Nat]
RunOf == [job: Ids, status: {"running", "completed", "failed", "awaiting_review"}, done: Nat]

(* Runs are numbered without a gap, or the next one would take the place   *)
(* of another.                                                             *)
Typed ==
  /\ jobs \in [Ids -> Job \union {None}]
  /\ \E n \in Nat : runs \in [1..n -> RunOf]
  /\ pc \in [Drains -> Places] /\ work \in [Drains -> WorkOf]
  /\ tries \in [Ids -> 0..MaxAttempts] /\ cut \subseteq Ids

(* n attempts at job j were made; calls are counted up to MaxAttempts.     *)
Made(j, n) == n <= tries[j] \/ tries[j] = MaxAttempts

(* A copy of a row counts attempts that were made.  The row counts the     *)
(* attempt of a drain that has claimed it and is about to make it, unless  *)
(* it is pending: a drain that makes it pending again has made one more.   *)
Backed(r) == jobs[r.id] # None /\ Made(r.id, r.attempts)

Counted(j) == /\ jobs[j].attempts <= tries[j] + 1 \/ tries[j] = MaxAttempts
              /\ jobs[j].status = "pending" => Made(j, jobs[j].attempts)

Earned(j) ==
  /\ jobs[j].status = "failed" => tries[j] >= MaxAttempts \/ jobs[j].error = "no handler"
  /\ jobs[j].status = "completed" /\ jobs[j].task = "workflow" =>
       \E r \in DOMAIN runs : runs[r].job = j /\ runs[r].status # "running"

Good(j) == jobs[j] # None => Counted(j) /\ Earned(j)

(* A drain beyond its claim holds a job, and executes a run of that job.   *)
Knows(c) ==
  /\ \A r \in work[c].page : Backed(r)
  /\ pc[c] \in {"idle", "draining"} => work[c].job = None
  /\ pc[c] \in {"claimed", "running", "returned"} => work[c].job \in Copy /\ Backed(work[c].job)
  /\ pc[c] \in {"running", "returned"} =>
       work[c].run \in DOMAIN runs /\ runs[work[c].run].job = work[c].job.id
  /\ pc[c] = "returned" => runs[work[c].run].status # "running"

IInv ==
  /\ Typed /\ (\A j \in Ids : Good(j)) /\ (\A c \in Drains : Knows(c))
  /\ RunningIsHeld /\ RunLogIsTrue

LEMMA IdleTyped == NoWork \in WorkOf
BY DEF NoWork, WorkOf

LEMMA InitIInv == Init => IInv
<1> SUFFICES ASSUME Init PROVE IInv
  OBVIOUS
<1> USE JobsAssumption
<1>1. runs \in [1..0 -> RunOf] /\ 0 \in Nat
  BY DEF Init
<1>2. Typed
  BY <1>1, IdleTyped DEF Init, Typed, Places
<1>3. (\A j \in Ids : Good(j)) /\ RunningIsHeld /\ RunLogIsTrue
  BY DEF Init, Good, RunningIsHeld, RunLogIsTrue, Enqueued
<1>4. \A c \in Drains : Knows(c)
  BY DEF Init, Knows, NoWork
<1> QED BY <1>2, <1>3, <1>4 DEF IInv

-----------------------------------------------------------------------------
(* What a step leaves of what others rely on.                              *)

(* Job j is as it was, but for its time, or is new.                        *)
Similar(j) ==
  \/ jobs'[j] = jobs[j]
  \/ jobs'[j] # None /\ jobs'[j].status = "pending" /\ jobs'[j].attempts = 0
  \/ /\ jobs[j] # None /\ jobs'[j] # None
     /\ jobs'[j].status = jobs[j].status /\ jobs'[j].attempts = jobs[j].attempts
     /\ jobs'[j].task = jobs[j].task /\ jobs'[j].error = jobs[j].error

TriesGrow == \A j \in Ids : tries'[j] >= tries[j]

(* A run stays the run of its job, and one that ended does not go on.      *)
RunsGrow ==
  \A r \in DOMAIN runs : /\ r \in DOMAIN runs' /\ runs'[r].job = runs[r].job
                         /\ runs[r].status # "running" => runs'[r].status # "running"

JobsStay == \A j \in Ids : jobs[j] # None => jobs'[j] # None

LEMMA SimilarIsGood ==
  ASSUME Typed, Typed', TriesGrow, RunsGrow, NEW j \in Ids, Good(j), Similar(j)
  PROVE  Good(j)'
<1>1. /\ tries[j] \in 0..MaxAttempts /\ tries'[j] \in 0..MaxAttempts /\ tries'[j] >= tries[j]
      /\ MaxAttempts \in Nat /\ (jobs[j] # None => jobs[j].attempts \in Nat)
  <2>1. tries[j] \in 0..MaxAttempts /\ tries'[j] \in 0..MaxAttempts /\ tries'[j] >= tries[j]
    BY DEF Typed, TriesGrow
  <2>2. jobs[j] # None => jobs[j].attempts \in Nat
    BY DEF Typed, Job
  <2> QED BY <2>1, <2>2, JobsAssumption
<1>2. CASE jobs'[j] # None /\ jobs'[j].status = "pending" /\ jobs'[j].attempts = 0
  <2>1. Counted(j)'
    BY <1>1, <1>2 DEF Counted, Made
  <2>2. Earned(j)'
    BY <1>2 DEF Earned
  <2> QED BY <2>1, <2>2 DEF Good
<1>3. CASE /\ jobs[j] # None /\ jobs'[j] # None
           /\ jobs'[j].status = jobs[j].status /\ jobs'[j].attempts = jobs[j].attempts
           /\ jobs'[j].task = jobs[j].task /\ jobs'[j].error = jobs[j].error
  <2>1. Counted(j)'
    BY <1>1, <1>3 DEF Good, Counted, Made
  <2>2. (\E r \in DOMAIN runs : runs[r].job = j /\ runs[r].status # "running")
        => (\E r \in DOMAIN runs' : runs'[r].job = j /\ runs'[r].status # "running")
    BY DEF RunsGrow
  <2>3. Earned(j)
    BY <1>3 DEF Good
  <2>4. tries[j] >= MaxAttempts => tries'[j] >= MaxAttempts
    BY <1>1
  <2>5. Earned(j)'
    BY <1>3, <2>2, <2>3, <2>4 DEF Earned
  <2> QED BY <2>1, <2>5 DEF Good
<1>4. CASE jobs'[j] = jobs[j] /\ jobs[j] # None
  BY <1>3, <1>4
<1> QED BY <1>2, <1>3, <1>4 DEF Similar, Good

LEMMA BackedStill ==
  ASSUME Typed, Typed', TriesGrow, JobsStay, NEW r \in Copy, Backed(r)
  PROVE  Backed(r)'
<1>1. /\ r.id \in Ids /\ r.attempts \in Nat /\ tries[r.id] \in 0..MaxAttempts
      /\ tries'[r.id] \in 0..MaxAttempts /\ tries'[r.id] >= tries[r.id]
  BY DEF Copy, Typed, TriesGrow
<1> QED BY <1>1, JobsAssumption DEF Backed, Made, JobsStay

LEMMA KnowsStill ==
  ASSUME Typed, Typed', TriesGrow, RunsGrow, JobsStay, NEW c \in Drains, Knows(c),
         pc'[c] = pc[c], work'[c] = work[c]
  PROVE  Knows(c)'
<1>1. \A r \in Copy : Backed(r) => Backed(r)'
  BY BackedStill
<1>2. work[c].page \subseteq Copy
  BY DEF Typed, WorkOf
<1> QED BY <1>1, <1>2 DEF Knows, RunsGrow

(* The job of c is settled as status, the others are as they were, and c   *)
(* goes on with its page.                                                  *)
LEMMA Settles ==
  ASSUME Typed, NEW c \in Drains, NEW status \in {"pending", "completed", "failed"},
         NEW error \in {"none", "threw", "no handler"}, Knows(c), work[c].job \in Copy, Backed(work[c].job),
         Settle(c, status, error)
  PROVE  /\ jobs' \in [Ids -> Job \union {None}] /\ pc' \in [Drains -> Places] /\ work' \in [Drains -> WorkOf]
         /\ JobsStay
         /\ LET k == work[c].job.id
            IN  /\ jobs'[k].status = status /\ jobs'[k].error = error
                /\ jobs'[k].attempts = jobs[k].attempts /\ jobs'[k].task = jobs[k].task
                /\ \A j \in Ids \ {k} : jobs'[j] = jobs[j]
         /\ work'[c].page = work[c].page /\ work'[c].job = None /\ pc'[c] \in {"idle", "draining"}
         /\ \A d \in Drains \ {c} : pc'[d] = pc[d] /\ work'[d] = work[d]
<1> USE JobsAssumption
<1> DEFINE k == work[c].job.id
           w == [NoWork EXCEPT !.page = work[c].page]
<1>1. k \in Ids /\ jobs[k] \in Job
  BY DEF Typed, Copy, Backed
<1>2. jobs' = [jobs EXCEPT ![k].status = status, ![k].error = error]
  BY DEF Settle
<1>3. /\ jobs'[k] = [jobs[k] EXCEPT !.status = status, !.error = error]
      /\ \A j \in Ids \ {k} : jobs'[j] = jobs[j]
  BY <1>1, <1>2 DEF Typed
<1>4. [jobs[k] EXCEPT !.status = status, !.error = error] \in Job
  BY <1>1 DEF Job
<1>5. work[c].page \in SUBSET Copy
  BY DEF Typed, WorkOf
<1>6. w \in WorkOf /\ w.page = work[c].page /\ w.job = None
  BY <1>5 DEF NoWork, WorkOf
<1>7. /\ work' = [work EXCEPT ![c] = w]
      /\ pc' = [pc EXCEPT ![c] = IF work[c].page = {} THEN "idle" ELSE "draining"]
  BY DEF Settle
<1>8. jobs' \in [Ids -> Job \union {None}]
  BY <1>1, <1>2, <1>3, <1>4 DEF Typed
<1>9. /\ jobs'[k].status = status /\ jobs'[k].error = error
      /\ jobs'[k].attempts = jobs[k].attempts /\ jobs'[k].task = jobs[k].task
  BY <1>1, <1>3 DEF Job
<1>10. JobsStay
  BY <1>1, <1>3, <1>4 DEF JobsStay
<1> HIDE DEF w
<1>11. /\ pc' \in [Drains -> Places] /\ work' \in [Drains -> WorkOf]
       /\ work'[c].page = work[c].page /\ work'[c].job = None /\ pc'[c] \in {"idle", "draining"}
       /\ \A d \in Drains \ {c} : pc'[d] = pc[d] /\ work'[d] = work[d]
  BY <1>6, <1>7 DEF Typed, Places
<1> QED BY <1>3, <1>8, <1>9, <1>10, <1>11

-----------------------------------------------------------------------------
(* A step that touches the jobs alone.                                     *)
LEMMA JobsOnly ==
  ASSUME IInv, jobs' \in [Ids -> Job \union {None}], \A j \in Ids : Similar(j), UNCHANGED <<runs, pc, work, tries, cut>>
  PROVE  IInv'
<1>1. Typed /\ Typed'
  BY DEF IInv, Typed
<1>2. \A j \in Ids : tries[j] \in 0..MaxAttempts
  BY <1>1 DEF Typed
<1>3. TriesGrow /\ RunsGrow
  BY <1>2, JobsAssumption DEF TriesGrow, RunsGrow
<1>4. JobsStay
  BY DEF JobsStay, Similar
<1>5. \A j \in Ids : Good(j)'
  BY <1>1, <1>3, SimilarIsGood DEF IInv
<1>6. \A c \in Drains : Knows(c)'
  BY <1>1, <1>3, <1>4, KnowsStill DEF IInv
<1>7. RunningIsHeld'
  <2> SUFFICES ASSUME NEW j \in Ids, jobs'[j] # None, jobs'[j].status = "running"
               PROVE  j \in cut \/ \E c \in Drains : Holds(c, j)
    BY DEF RunningIsHeld, Enqueued, Holds
  <2>1. jobs[j] # None /\ jobs[j].status = "running"
    BY DEF Similar
  <2> QED BY <2>1 DEF IInv, RunningIsHeld, Enqueued
<1>8. RunLogIsTrue'
  BY DEF IInv, RunLogIsTrue
<1> QED BY <1>1, <1>5, <1>6, <1>7, <1>8 DEF IInv

(* A step of one drain.  What it lets go of is no longer marked running.   *)
LEMMA DrainMoves ==
  ASSUME IInv, Typed', TriesGrow, RunsGrow, JobsStay, cut' = cut, NEW c \in Drains, Knows(c)',
         \A d \in Drains \ {c} : pc'[d] = pc[d] /\ work'[d] = work[d],
         \A j \in Ids : Good(j)',
         \A j \in Ids : jobs'[j] # None /\ jobs'[j].status = "running" =>
            \/ Holds(c, j)'
            \/ jobs[j] # None /\ jobs[j].status = "running" /\ ~ Holds(c, j),
         \A r \in DOMAIN runs' : runs'[r].status = "running" =>
            \/ pc'[c] = "running" /\ work'[c].run = r
            \/ r \in DOMAIN runs /\ runs[r].status = "running" /\ ~ (pc[c] = "running" /\ work[c].run = r)
  PROVE  IInv'
<1>1. \A d \in Drains : Knows(d)'
  BY KnowsStill DEF IInv
<1>2. RunningIsHeld'
  <2> SUFFICES ASSUME NEW j \in Ids, jobs'[j] # None, jobs'[j].status = "running", ~ Holds(c, j)'
               PROVE  j \in cut' \/ \E d \in Drains : Holds(d, j)'
    BY DEF RunningIsHeld, Enqueued
  <2>1. jobs[j] # None /\ jobs[j].status = "running" /\ ~ Holds(c, j)
    OBVIOUS
  <2>2. CASE j \in cut
    BY <2>2
  <2>3. ASSUME NEW d \in Drains, Holds(d, j) PROVE Holds(d, j)'
    BY <2>1, <2>3 DEF Holds
  <2> QED BY <2>1, <2>2, <2>3 DEF IInv, RunningIsHeld, Enqueued
<1>3. RunLogIsTrue'
  <2> SUFFICES ASSUME NEW r \in DOMAIN runs', runs'[r].status = "running", ~ (pc'[c] = "running" /\ work'[c].run = r)
               PROVE  runs'[r].job \in cut' \/ \E d \in Drains : pc'[d] = "running" /\ work'[d].run = r
    BY DEF RunLogIsTrue
  <2>1. r \in DOMAIN runs /\ runs[r].status = "running" /\ ~ (pc[c] = "running" /\ work[c].run = r)
    OBVIOUS
  <2>2. runs'[r].job = runs[r].job
    BY <2>1 DEF RunsGrow
  <2>3. runs[r].job \in cut \/ \E d \in Drains \ {c} : pc[d] = "running" /\ work[d].run = r
    BY <2>1 DEF IInv, RunLogIsTrue
  <2> QED BY <2>2, <2>3
<1> QED BY <1>1, <1>2, <1>3 DEF IInv

LEMMA Added ==
  ASSUME IInv, NEW task \in Tasks, NEW due \in BOOLEAN, Enqueue(task, due)
  PROVE  jobs' \in [Ids -> Job \union {None}] /\ \A j \in Ids : Similar(j)
<1> DEFINE k == Cardinality(Enqueued) + 1
           job == [task |-> task, status |-> "pending", attempts |-> 0, due |-> due, error |-> "none"]
<1>1. jobs' = [jobs EXCEPT ![k] = job]
  BY DEF Enqueue
<1>2. job \in Job /\ job.status = "pending" /\ job.attempts = 0
  BY DEF Job
<1>3. job # None
  BY <1>2, JobsAssumption
<1> HIDE DEF k, job
<1>4. jobs' \in [Ids -> Job \union {None}] /\ \A j \in Ids : jobs'[j] = jobs[j] \/ jobs'[j] = job
  BY <1>1, <1>2 DEF IInv, Typed
<1> QED BY <1>2, <1>3, <1>4 DEF Similar

LEMMA RunsNumbered ==
  ASSUME Typed
  PROVE  /\ Cardinality(DOMAIN runs) \in Nat /\ DOMAIN runs = 1..Cardinality(DOMAIN runs)
         /\ runs \in [DOMAIN runs -> RunOf]
<1>1. PICK n \in Nat : runs \in [1..n -> RunOf]
  BY DEF Typed
<1>2. DOMAIN runs = 1..n
  BY <1>1
<1>3. Cardinality(1..n) = n
  BY FS_Interval
<1> QED BY <1>1, <1>2, <1>3

(* A drain makes an attempt at job k; it is counted up to MaxAttempts.     *)
LEMMA Tried ==
  ASSUME tries \in [Ids -> 0..MaxAttempts], NEW k \in Ids,
         tries' = [tries EXCEPT ![k] = IF @ < MaxAttempts THEN @ + 1 ELSE @]
  PROVE  /\ tries' \in [Ids -> 0..MaxAttempts] /\ TriesGrow
         /\ tries[k] \in Nat /\ tries[k] <= MaxAttempts
         /\ tries'[k] = IF tries[k] < MaxAttempts THEN tries[k] + 1 ELSE tries[k]
<1>1. MaxAttempts \in Nat /\ tries[k] \in 0..MaxAttempts
  BY JobsAssumption
<1>2. /\ tries'[k] = IF tries[k] < MaxAttempts THEN tries[k] + 1 ELSE tries[k]
      /\ \A j \in Ids \ {k} : tries'[j] = tries[j]
  OBVIOUS
<1>3. tries'[k] \in 0..MaxAttempts /\ tries'[k] >= tries[k]
  BY <1>1, <1>2
<1>4. \A j \in Ids : tries[j] \in Nat
  BY <1>1
<1>5. TriesGrow
  <2> SUFFICES ASSUME NEW j \in Ids PROVE tries'[j] >= tries[j]
    BY DEF TriesGrow
  <2>1. CASE j = k
    BY <2>1, <1>3
  <2>2. CASE j # k
    BY <2>2, <1>2, <1>4
  <2> QED BY <2>1, <2>2
<1> QED BY <1>1, <1>2, <1>3, <1>5

LEMMA ClaimedIsJob ==
  ASSUME NEW row \in Job, NEW n \in Nat
  PROVE  LET claimed == [row EXCEPT !.status = "running", !.attempts = n]
         IN  claimed \in Job /\ claimed.status = "running" /\ claimed.attempts = n
BY DEF Job

(* A drain settles its job k, which is good after it.                      *)
LEMMA Settled ==
  ASSUME IInv, Typed', NEW c \in Drains, NEW k \in Ids, k = work[c].job.id, NEW status \in {"pending", "completed", "failed"},
         NEW error \in {"none", "threw", "no handler"},
         pc[c] \in {"claimed", "returned"}, Settle(c, status, error),
         TriesGrow, UNCHANGED <<runs, cut>>, Good(k)'
  PROVE  IInv'
<1>a. Typed /\ Knows(c) /\ work[c].job \in Copy /\ Backed(work[c].job) /\ k \in Ids
  BY DEF IInv, Knows, Copy
<1>1. /\ JobsStay /\ jobs'[k].status = status
      /\ \A j \in Ids \ {k} : jobs'[j] = jobs[j]
      /\ work'[c].page = work[c].page /\ work'[c].job = None /\ pc'[c] \in {"idle", "draining"}
      /\ \A d \in Drains \ {c} : pc'[d] = pc[d] /\ work'[d] = work[d]
  BY <1>a, Settles
<1>2. RunsGrow
  BY DEF RunsGrow
<1>3. \A j \in Ids : Good(j)'
  <2> SUFFICES ASSUME NEW j \in Ids \ {k} PROVE Good(j)'
    BY <1>a
  <2>1. Similar(j) /\ Good(j)
    BY <1>1 DEF Similar, IInv
  <2> QED BY <1>a, <1>2, <2>1, SimilarIsGood
<1>4. Knows(c)'
  <2>1. \A r \in work[c].page : r \in Copy /\ Backed(r)
    BY <1>a DEF Typed, WorkOf, Knows
  <2>2. \A r \in work[c].page : Backed(r)'
    BY <1>a, <1>1, <2>1, BackedStill
  <2> QED BY <1>1, <2>2 DEF Knows
<1>5. \A j \in Ids : jobs'[j] # None /\ jobs'[j].status = "running" =>
        jobs[j] # None /\ jobs[j].status = "running" /\ ~ Holds(c, j)
  BY <1>1, <1>a DEF Holds
<1>6. \A r \in DOMAIN runs' : runs'[r].status = "running" =>
        r \in DOMAIN runs /\ runs[r].status = "running" /\ ~ (pc[c] = "running" /\ work[c].run = r)
  OBVIOUS
<1> QED BY <1>1, <1>2, <1>3, <1>4, <1>5, <1>6, DrainMoves

LEMMA StepIInv == IInv /\ [Next]_vars => IInv'
<1> SUFFICES ASSUME IInv, [Next]_vars PROVE IInv'
  OBVIOUS
<1> USE JobsAssumption
<1>a. /\ Typed /\ jobs \in [Ids -> Job \union {None}] /\ pc \in [Drains -> Places]
      /\ work \in [Drains -> WorkOf] /\ tries \in [Ids -> 0..MaxAttempts] /\ cut \subseteq Ids
  BY DEF IInv, Typed
<1>t. tries' = tries => TriesGrow
  BY <1>a DEF TriesGrow
<1>r. runs' = runs => RunsGrow
  BY DEF RunsGrow
<1>1. CASE EnqueueTask
  <2>1. PICK due \in BOOLEAN : Enqueue("task", due)
    BY <1>1 DEF EnqueueTask
  <2>2. UNCHANGED <<runs, pc, work, tries, cut>>
    BY <1>1 DEF EnqueueTask, history
  <2> QED BY <2>1, <2>2, Added, JobsOnly DEF Tasks
<1>2. CASE Trigger
  <2>1. Enqueue("workflow", TRUE) /\ UNCHANGED <<runs, pc, work, tries, cut>>
    BY <1>2 DEF Trigger
  <2> QED BY <2>1, Added, JobsOnly DEF Tasks
<1>3. CASE TimeComes
  <2>1. PICK k \in Enqueued : jobs' = [jobs EXCEPT ![k].due = TRUE]
    BY <1>3 DEF TimeComes
  <2>2. k \in Ids /\ jobs[k] \in Job
    BY <2>1, <1>a DEF Enqueued
  <2>3. [jobs[k] EXCEPT !.due = TRUE] \in Job
    BY <2>2 DEF Job
  <2>4. jobs' \in [Ids -> Job \union {None}] /\ jobs'[k] \in Job
    BY <2>1, <2>2, <2>3, <1>a
  <2>5. \A j \in Ids : Similar(j)
    BY <2>1, <2>2, <2>4, <1>a DEF Similar, Job
  <2>6. UNCHANGED <<runs, pc, work, tries, cut>>
    BY <1>3 DEF TimeComes, history
  <2> QED BY <2>4, <2>5, <2>6, JobsOnly
<1>4. CASE Restart
  <2>1. /\ UNCHANGED <<jobs, runs, tries>> /\ pc' = [c \in Drains |-> "idle"] /\ work' = [c \in Drains |-> NoWork]
        /\ cut' = cut \union {work[c].job.id : c \in {d \in Drains : work[d].job # None}}
    BY <1>4 DEF Restart
  <2>2. \A c \in Drains : work[c].job # None => work[c].job.id \in Ids
    BY <1>a DEF WorkOf, Copy
  <2>3. Typed'
    BY <2>1, <2>2, <1>a, IdleTyped DEF Typed, Places
  <2>4. \A j \in Ids : Good(j)'
    BY <2>1 DEF IInv, Good, Counted, Earned, Made
  <2>5. \A c \in Drains : Knows(c)'
    BY <2>1 DEF Knows, NoWork
  <2>6. RunningIsHeld'
    BY <2>1 DEF IInv, RunningIsHeld, Enqueued, Holds
  <2>7. RunLogIsTrue'
    <3> SUFFICES ASSUME NEW r \in DOMAIN runs, runs[r].status = "running" PROVE runs[r].job \in cut'
      BY <2>1 DEF RunLogIsTrue
    <3>1. ASSUME NEW c \in Drains, pc[c] = "running", work[c].run = r PROVE runs[r].job \in cut'
      <4>1. work[c].job \in Copy /\ runs[r].job = work[c].job.id
        BY <3>1 DEF IInv, Knows
      <4> QED BY <2>1, <4>1
    <3> QED BY <2>1, <3>1 DEF IInv, RunLogIsTrue
  <2> QED BY <2>3, <2>4, <2>5, <2>6, <2>7 DEF IInv
<1>5. ASSUME NEW c \in Drains, Find(c) PROVE IInv'
  <2>1. PICK p \in Pages : work' = [work EXCEPT ![c] = [NoWork EXCEPT !.page = p]]
    BY <1>5 DEF Find
  <2>2. UNCHANGED <<jobs, runs, tries, cut>> /\ pc[c] = "idle" /\ pc' = [pc EXCEPT ![c] = "draining"]
    BY <1>5 DEF Find, history
  <2>3. \A j \in Ids : Due(j) => CopyOf(j) \in Copy /\ Backed(CopyOf(j))
    BY <1>a DEF IInv, Due, CopyOf, Copy, Backed, Good, Counted, Job
  <2>4. p \subseteq Copy /\ \A r \in p : Backed(r)
    BY <2>1, <2>3 DEF Pages
  <2>5. [NoWork EXCEPT !.page = p] \in WorkOf /\ [NoWork EXCEPT !.page = p].page = p /\ [NoWork EXCEPT !.page = p].job = None
    BY <2>4 DEF NoWork, WorkOf
  <2>6. /\ work'[c].page = p /\ work'[c].job = None /\ pc'[c] = "draining"
        /\ \A d \in Drains \ {c} : pc'[d] = pc[d] /\ work'[d] = work[d]
    BY <2>1, <2>2, <2>5, <1>a
  <2>7. Typed'
    BY <2>1, <2>2, <2>5, <1>a DEF Typed, Places
  <2>8. JobsStay /\ TriesGrow /\ RunsGrow
    BY <2>2, <1>t, <1>r DEF JobsStay
  <2>9. \A j \in Ids : Good(j)'
    BY <2>2 DEF IInv, Good, Counted, Earned, Made
  <2>10. Knows(c)'
    BY <2>2, <2>4, <2>6 DEF Knows, Backed, Made
  <2>11. work[c].job = None
    BY <2>2 DEF IInv, Knows
  <2>12. \A j \in Ids : jobs'[j] # None /\ jobs'[j].status = "running" =>
           jobs[j] # None /\ jobs[j].status = "running" /\ ~ Holds(c, j)
    BY <2>2, <2>11 DEF Holds
  <2>13. \A r \in DOMAIN runs' : runs'[r].status = "running" =>
           r \in DOMAIN runs /\ runs[r].status = "running" /\ ~ (pc[c] = "running" /\ work[c].run = r)
    BY <2>2
  <2> QED BY <2>2, <2>6, <2>7, <2>8, <2>9, <2>10, <2>12, <2>13, DrainMoves
<1>6. ASSUME NEW c \in Drains, Claim(c) PROVE IInv'
  <2>1. PICK r \in work[c].page :
          /\ pc[c] = "draining" /\ pc' = [pc EXCEPT ![c] = "claimed"]
          /\ jobs' = [jobs EXCEPT ![r.id] = Claimed(r)]
          /\ work' = [work EXCEPT ![c].page = @ \ {r}, ![c].job = r]
          /\ UNCHANGED <<runs, tries, cut>>
    BY <1>6 DEF Claim, history
  <2>2. r \in Copy /\ Backed(r) /\ r.id \in Ids /\ r.attempts \in Nat /\ jobs[r.id] \in Job
    BY <2>1, <1>a DEF IInv, Knows, WorkOf, Copy, Backed
  <2>3. /\ Claimed(r) \in Job /\ Claimed(r).status = "running" /\ Claimed(r).attempts = r.attempts + 1
    <3>1. r.attempts + 1 \in Nat
      BY <2>2
    <3> QED BY <2>2, <3>1, ClaimedIsJob DEF Claimed, Attempts
  <2>4. jobs' \in [Ids -> Job \union {None}] /\ jobs'[r.id] = Claimed(r) /\ \A j \in Ids \ {r.id} : jobs'[j] = jobs[j]
    BY <2>1, <2>2, <2>3, <1>a
  <2>5. work[c] \in WorkOf
    BY <1>a
  <2>6. work' = [work EXCEPT ![c] = [work[c] EXCEPT !.page = work[c].page \ {r}, !.job = r]]
    BY <2>1
  <2>7. /\ work' \in [Drains -> WorkOf] /\ work'[c].page = work[c].page \ {r} /\ work'[c].job = r
        /\ \A d \in Drains \ {c} : work'[d] = work[d]
    BY <2>2, <2>5, <2>6, <1>a DEF WorkOf
  <2>8. pc' \in [Drains -> Places] /\ pc'[c] = "claimed" /\ \A d \in Drains \ {c} : pc'[d] = pc[d]
    BY <2>1, <1>a DEF Places
  <2>9. Typed'
    BY <2>1, <2>4, <2>7, <2>8, <1>a DEF Typed
  <2>10. JobsStay /\ TriesGrow /\ RunsGrow
    BY <2>1, <2>3, <2>4, <1>t, <1>r DEF JobsStay
  <2>11. Good(r.id)'
    <3>1. jobs'[r.id].attempts = r.attempts + 1 /\ jobs'[r.id].status = "running"
      BY <2>3, <2>4
    <3>2. r.attempts <= tries[r.id] \/ tries[r.id] = MaxAttempts
      BY <2>2 DEF Backed, Made
    <3>3. tries'[r.id] = tries[r.id] /\ tries[r.id] \in Nat
      BY <2>1, <2>2, <1>a
    <3> QED BY <2>2, <3>1, <3>2, <3>3 DEF Good, Counted, Earned
  <2>12. \A j \in Ids : Good(j)'
    BY <2>4, <2>9, <2>10, <2>11, <1>a, SimilarIsGood DEF IInv, Similar
  <2>13. Knows(c)'
    <3>1. \A s \in work[c].page : Backed(s)'
      BY <2>1, <2>10, <1>a DEF IInv, Knows, Backed, Made, JobsStay, WorkOf, Copy
    <3> QED BY <2>1, <2>2, <2>7, <2>8, <3>1 DEF Knows
  <2>14. work[c].job = None
    BY <2>1 DEF IInv, Knows
  <2>15. \A j \in Ids : jobs'[j] # None /\ jobs'[j].status = "running" =>
            \/ Holds(c, j)'
            \/ jobs[j] # None /\ jobs[j].status = "running" /\ ~ Holds(c, j)
    BY <2>2, <2>4, <2>7, <2>14 DEF Holds
  <2>16. \A i \in DOMAIN runs' : runs'[i].status = "running" =>
            i \in DOMAIN runs /\ runs[i].status = "running" /\ ~ (pc[c] = "running" /\ work[c].run = i)
    BY <2>1
  <2> QED BY <2>1, <2>7, <2>8, <2>9, <2>10, <2>12, <2>13, <2>15, <2>16, DrainMoves
<1>7. ASSUME NEW c \in Drains, NoHandler(c) PROVE IInv'
  <2>k. PICK k : k = work[c].job.id
    OBVIOUS
  <2>1. pc[c] = "claimed" /\ Settle(c, "failed", "no handler") /\ UNCHANGED <<runs, tries, cut>>
    BY <1>7 DEF NoHandler, history
  <2>2. Knows(c) /\ work[c].job \in Copy /\ Backed(work[c].job) /\ k \in Ids /\ jobs[k] \in Job
    BY <2>k, <2>1, <1>a DEF IInv, Knows, Copy, Backed
  <2>3. /\ jobs' \in [Ids -> Job \union {None}] /\ pc' \in [Drains -> Places] /\ work' \in [Drains -> WorkOf]
        /\ jobs'[k].status = "failed" /\ jobs'[k].error = "no handler" /\ jobs'[k].attempts = jobs[k].attempts
    BY <2>k, <2>1, <2>2, <1>a, Settles
  <2>4. Typed'
    BY <2>1, <2>3, <1>a DEF Typed
  <2>5. Good(k)'
    BY <2>1, <2>2, <2>3 DEF IInv, Good, Counted, Earned, Made
  <2> QED BY <2>k, <2>1, <2>2, <2>4, <2>5, <1>t, Settled
<1>8. ASSUME NEW c \in Drains, RunTask(c) PROVE IInv'
  <2>k. PICK k, n : k = work[c].job.id /\ n = work[c].job.attempts
    OBVIOUS
  <2>1. PICK status \in {"completed", "pending", "failed"}, error \in {"none", "threw"} :
          /\ Settle(c, status, error)
          /\ status # "completed" => status = AfterThrow(work[c].job)
    BY <1>8 DEF RunTask, AfterThrow
  <2>2. /\ pc[c] = "claimed" /\ IsTask(c, "task") /\ UNCHANGED <<runs, cut>>
        /\ tries' = [tries EXCEPT ![k] = IF @ < MaxAttempts THEN @ + 1 ELSE @]
    BY <2>k, <1>8 DEF RunTask, Try
  <2>3. /\ Knows(c) /\ work[c].job \in Copy /\ Backed(work[c].job) /\ k \in Ids /\ jobs[k] \in Job /\ Good(k)
        /\ n \in Nat /\ jobs[k].task = "task"
    BY <2>k, <2>2, <1>a DEF IInv, Knows, Copy, Backed, IsTask
  <2>4. /\ jobs' \in [Ids -> Job \union {None}] /\ pc' \in [Drains -> Places] /\ work' \in [Drains -> WorkOf]
        /\ jobs'[k].status = status /\ jobs'[k].attempts = jobs[k].attempts /\ jobs'[k].task = "task"
    BY <2>k, <2>1, <2>3, <1>a, Settles
  <2>5. /\ tries[k] \in Nat /\ tries[k] <= MaxAttempts /\ MaxAttempts \in Nat
        /\ tries'[k] = IF tries[k] < MaxAttempts THEN tries[k] + 1 ELSE tries[k]
        /\ tries' \in [Ids -> 0..MaxAttempts] /\ TriesGrow
    BY <2>2, <2>3, <1>a, Tried
  <2>6. Typed'
    BY <2>2, <2>4, <2>5, <1>a DEF Typed
  <2>8. jobs[k].attempts \in Nat /\ (jobs[k].attempts <= tries[k] + 1 \/ tries[k] = MaxAttempts)
    BY <2>k, <2>3 DEF Good, Counted, Backed, Job
  <2>9. status = "failed" => n + 1 >= MaxAttempts
    BY <2>k, <2>1 DEF AfterThrow, Spent, Attempts
  <2>10. Counted(k)'
    BY <2>4, <2>5, <2>8 DEF Counted, Made
  <2>11. n <= tries[k] \/ tries[k] = MaxAttempts
    BY <2>k, <2>3 DEF Backed, Made
  <2>12. Earned(k)'
    <3>1. n \in Nat /\ jobs'[k].task # "workflow" /\ jobs'[k].status = status
      BY <2>3, <2>4
    <3>2. status = "failed" => tries'[k] >= MaxAttempts
      BY <2>5, <2>9, <2>11, <3>1
    <3> QED BY <3>1, <3>2 DEF Earned
  <2> QED BY <2>k, <2>1, <2>2, <2>3, <2>5, <2>6, <2>10, <2>12, Settled DEF Good
<1>9. ASSUME NEW c \in Drains, StartRun(c) PROVE IInv'
  <2> DEFINE k == work[c].job.id
             n == Cardinality(DOMAIN runs)
             run == [job |-> k, status |-> "running", done |-> 0]
  <2>1. /\ pc[c] = "claimed" /\ pc' = [pc EXCEPT ![c] = "running"]
        /\ tries' = [tries EXCEPT ![k] = IF @ < MaxAttempts THEN @ + 1 ELSE @]
        /\ runs' = [i \in 1..(n + 1) |-> IF i = n + 1 THEN run ELSE runs[i]]
        /\ work' = [work EXCEPT ![c].run = n + 1]
        /\ UNCHANGED <<jobs, cut>>
    BY <1>9 DEF StartRun, Try
  <2>2. Knows(c) /\ work[c].job \in Copy /\ Backed(work[c].job) /\ k \in Ids
    BY <2>1 DEF IInv, Knows, Copy
  <2>3. n \in Nat /\ DOMAIN runs = 1..n /\ runs \in [1..n -> RunOf]
    BY <1>a, RunsNumbered
  <2>4. run \in RunOf
    BY <2>2 DEF RunOf
  <2> HIDE DEF n, run
  <2>5. /\ runs' \in [1..(n + 1) -> RunOf] /\ n + 1 \in Nat
        /\ DOMAIN runs' = 1..(n + 1) /\ runs'[n + 1] = run /\ \A i \in 1..n : runs'[i] = runs[i]
    BY <2>1, <2>3, <2>4
  <2>6. RunsGrow
    BY <2>3, <2>5 DEF RunsGrow
  <2>7. tries' \in [Ids -> 0..MaxAttempts] /\ TriesGrow
    BY <2>1, <2>2, <1>a, Tried
  <2>8. work' = [work EXCEPT ![c] = [work[c] EXCEPT !.run = n + 1]] /\ work[c] \in WorkOf
    BY <2>1, <1>a
  <2>9. /\ work' \in [Drains -> WorkOf] /\ work'[c].page = work[c].page /\ work'[c].job = work[c].job
        /\ work'[c].run = n + 1 /\ \A d \in Drains \ {c} : work'[d] = work[d]
    BY <2>5, <2>8, <1>a DEF WorkOf
  <2>10. pc' \in [Drains -> Places] /\ pc'[c] = "running" /\ \A d \in Drains \ {c} : pc'[d] = pc[d]
    BY <2>1, <1>a DEF Places
  <2>11. Typed'
    BY <2>1, <2>5, <2>7, <2>9, <2>10, <1>a DEF Typed
  <2>12. JobsStay /\ \A j \in Ids : Similar(j)
    BY <2>1 DEF JobsStay, Similar
  <2>13. \A j \in Ids : Good(j)'
    BY <2>6, <2>7, <2>11, <2>12, <1>a, SimilarIsGood DEF IInv
  <2>14. \A r \in Copy : Backed(r) => Backed(r)'
    BY <2>7, <2>11, <2>12, <1>a, BackedStill
  <2>15. Knows(c)'
    <3>1. work[c].page \subseteq Copy
      BY <1>a DEF WorkOf
    <3>2. runs'[n + 1].job = k
      BY <2>5 DEF run
    <3>3. n + 1 \in DOMAIN runs'
      BY <2>3, <2>5
    <3> QED BY <2>2, <2>9, <2>10, <2>14, <3>1, <3>2, <3>3 DEF Knows
  <2>16. \A j \in Ids : jobs'[j] # None /\ jobs'[j].status = "running" =>
            \/ Holds(c, j)'
            \/ jobs[j] # None /\ jobs[j].status = "running" /\ ~ Holds(c, j)
    BY <2>1, <2>9 DEF Holds
  <2>17. \A i \in DOMAIN runs' : runs'[i].status = "running" =>
            \/ pc'[c] = "running" /\ work'[c].run = i
            \/ i \in DOMAIN runs /\ runs[i].status = "running" /\ ~ (pc[c] = "running" /\ work[c].run = i)
    BY <2>1, <2>3, <2>5, <2>9, <2>10
  <2> QED BY <2>1, <2>6, <2>7, <2>9, <2>10, <2>11, <2>12, <2>13, <2>15, <2>16, <2>17, DrainMoves
<1>10. ASSUME NEW c \in Drains, Step(c) PROVE IInv'
  <2> DEFINE r == work[c].run
  <2>1. /\ pc[c] = "running" /\ runs[r].status = "running" /\ UNCHANGED <<work, tries, cut>>
    BY <1>10 DEF Step, history
  <2>2. jobs' \in [Ids -> Job \union {None}] /\ \A j \in Ids : Similar(j)
    <3>1. jobs' = jobs \/ Enqueue("workflow", TRUE)
      BY <1>10 DEF Step, Writes
    <3>2. CASE jobs' = jobs
      BY <3>2, <1>a DEF Similar
    <3> QED BY <3>1, <3>2, Added DEF Tasks
  <2>3. Knows(c) /\ work[c].job \in Copy /\ r \in DOMAIN runs /\ runs[r].job = work[c].job.id
    BY <2>1 DEF IInv, Knows
  <2>4. Cardinality(DOMAIN runs) \in Nat /\ DOMAIN runs = 1..Cardinality(DOMAIN runs) /\ runs \in [DOMAIN runs -> RunOf]
    BY <1>a, RunsNumbered
  <2>5. PICK run \in RunOf :
          /\ runs' = [runs EXCEPT ![r] = run] /\ run.job = runs[r].job
          /\ \/ run.status = "running" /\ pc' = pc
             \/ run.status # "running" /\ pc' = [pc EXCEPT ![c] = "returned"]
    <3>1. runs[r] \in RunOf
      BY <2>3, <2>4
    <3>2. CASE runs' = [runs EXCEPT ![r].done = @ + 1] /\ UNCHANGED pc
      <4>1. [runs[r] EXCEPT !.done = runs[r].done + 1] \in RunOf
        BY <3>1 DEF RunOf
      <4>2. runs' = [runs EXCEPT ![r] = [runs[r] EXCEPT !.done = runs[r].done + 1]]
        BY <3>2
      <4>3. /\ [runs[r] EXCEPT !.done = runs[r].done + 1].job = runs[r].job
            /\ [runs[r] EXCEPT !.done = runs[r].done + 1].status = "running"
        BY <2>1, <3>1 DEF RunOf
      <4> QED BY <3>2, <4>1, <4>2, <4>3
    <3>3. ASSUME NEW status \in {"failed", "awaiting_review", "completed"},
                 runs' = [runs EXCEPT ![r] = [Ended(runs[r], status) EXCEPT !.done = IF status = "failed" THEN @ ELSE @ + 1]],
                 pc' = [pc EXCEPT ![c] = "returned"]
          PROVE  \E run \in RunOf : /\ runs' = [runs EXCEPT ![r] = run] /\ run.job = runs[r].job
                                    /\ run.status # "running" /\ pc' = [pc EXCEPT ![c] = "returned"]
      <4> DEFINE run == [Ended(runs[r], status) EXCEPT !.done = IF status = "failed" THEN @ ELSE @ + 1]
      <4>1. run \in RunOf /\ run.job = runs[r].job /\ run.status # "running"
        <5>1. Ended(runs[r], status) \in RunOf /\ Ended(runs[r], status).job = runs[r].job /\ Ended(runs[r], status).status = status
          BY <3>1 DEF RunOf, Ended
        <5>2. \A e \in RunOf : LET f == [e EXCEPT !.done = IF status = "failed" THEN @ ELSE @ + 1]
                               IN  f \in RunOf /\ f.job = e.job /\ f.status = e.status
          BY DEF RunOf
        <5> QED BY <5>1, <5>2
      <4>2. runs' = [runs EXCEPT ![r] = run]
        BY <3>3
      <4> HIDE DEF run
      <4> QED BY <3>3, <4>1, <4>2
    <3> QED BY <1>10, <3>2, <3>3 DEF Step
  <2>6. /\ runs' \in [DOMAIN runs -> RunOf] /\ DOMAIN runs' = DOMAIN runs
        /\ runs'[r] = run /\ \A i \in DOMAIN runs \ {r} : runs'[i] = runs[i]
    BY <2>3, <2>4, <2>5
  <2>7. RunsGrow
    BY <2>1, <2>5, <2>6 DEF RunsGrow
  <2>8. pc' \in [Drains -> Places] /\ \A d \in Drains \ {c} : pc'[d] = pc[d]
    BY <2>5, <1>a DEF Places
  <2>9. \E n \in Nat : runs' \in [1..n -> RunOf]
    BY <2>4, <2>6
  <2>10. Typed'
    BY <2>1, <2>2, <2>8, <2>9, <1>a DEF Typed
  <2>11. TriesGrow /\ JobsStay
    BY <2>1, <2>2, <1>t DEF JobsStay, Similar
  <2>12. \A j \in Ids : Good(j)'
    BY <2>2, <2>7, <2>10, <2>11, <1>a, SimilarIsGood DEF IInv
  <2>13. Knows(c)'
    <3>1. pc'[c] = pc[c] \/ (pc'[c] = "returned" /\ runs'[r].status # "running")
      BY <2>5, <2>6, <1>a DEF Places
    <3>2. \A s \in Copy : Backed(s) => Backed(s)'
      BY <2>1, <2>11 DEF Backed, Made, JobsStay, Copy
    <3>3. work[c].page \subseteq Copy
      BY <1>a DEF WorkOf
    <3>4. work'[c] = work[c] /\ runs'[r].job = work[c].job.id /\ r \in DOMAIN runs'
      BY <2>1, <2>3, <2>5, <2>6
    <3> QED BY <2>1, <2>3, <3>1, <3>2, <3>3, <3>4 DEF Knows
  <2>14. \A j \in Ids : jobs'[j] # None /\ jobs'[j].status = "running" =>
            \/ Holds(c, j)'
            \/ jobs[j] # None /\ jobs[j].status = "running" /\ ~ Holds(c, j)
    BY <2>1, <2>2 DEF Holds, Similar
  <2>15. \A i \in DOMAIN runs' : runs'[i].status = "running" =>
            \/ pc'[c] = "running" /\ work'[c].run = i
            \/ i \in DOMAIN runs /\ runs[i].status = "running" /\ ~ (pc[c] = "running" /\ work[c].run = i)
    BY <2>1, <2>5, <2>6
  <2> QED BY <2>1, <2>7, <2>8, <2>10, <2>11, <2>12, <2>13, <2>14, <2>15, DrainMoves
<1>11. ASSUME NEW c \in Drains, Return(c) PROVE IInv'
  <2>k. PICK k : k = work[c].job.id
    OBVIOUS
  <2>1. pc[c] = "returned" /\ Settle(c, "completed", "none") /\ UNCHANGED <<runs, tries, cut>>
    BY <1>11 DEF Return
  <2>2. /\ Knows(c) /\ work[c].job \in Copy /\ Backed(work[c].job) /\ k \in Ids /\ jobs[k] \in Job
        /\ work[c].run \in DOMAIN runs /\ runs[work[c].run].job = k /\ runs[work[c].run].status # "running"
    BY <2>k, <2>1, <1>a DEF IInv, Knows, Copy, Backed
  <2>3. /\ jobs' \in [Ids -> Job \union {None}] /\ pc' \in [Drains -> Places] /\ work' \in [Drains -> WorkOf]
        /\ jobs'[k].status = "completed" /\ jobs'[k].attempts = jobs[k].attempts
    BY <2>k, <2>1, <2>2, <1>a, Settles
  <2>4. Typed'
    BY <2>1, <2>3, <1>a DEF Typed
  <2>5. Good(k)'
    BY <2>1, <2>2, <2>3 DEF IInv, Good, Counted, Earned, Made
  <2> QED BY <2>k, <2>1, <2>2, <2>4, <2>5, <1>t, Settled
<1>12. CASE UNCHANGED vars
  BY <1>12, <1>a, JobsOnly DEF vars, history, Similar
<1> QED BY <1>1, <1>2, <1>3, <1>4, <1>5, <1>6, <1>7, <1>8, <1>9, <1>10, <1>11, <1>12 DEF Next, DrainStep

(* A job marked running is being run, unless a crash took its drain away,  *)
(* however many drains overlap.                                            *)
THEOREM RunningJobsAreHeld == Spec => []RunningIsHeld
<1>1. IInv => RunningIsHeld
  BY DEF IInv
<1> QED BY InitIInv, StepIInv, <1>1, PTL DEF Spec

(* A job is given up only after max_attempts calls of its handler, or when *)
(* it has none, although the count is kept in copies of rows that several  *)
(* drains write back; a workflow job is completed only when a run ended.   *)
(* It needs that every copy counts attempts that were made.                *)
THEOREM JobsEarnOutcomes == Spec => []OutcomesAreEarned
<1>1. IInv => OutcomesAreEarned
  BY DEF IInv, OutcomesAreEarned, Enqueued, Good, Earned
<1> QED BY InitIInv, StepIInv, <1>1, PTL DEF Spec

(* A run still marked running is being executed, or was cut off.           *)
THEOREM RunLogCorrect == Spec => []RunLogIsTrue
<1>1. IInv => RunLogIsTrue
  BY DEF IInv
<1> QED BY InitIInv, StepIInv, <1>1, PTL DEF Spec
=============================================================================
