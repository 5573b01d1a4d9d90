-------------------------------- MODULE Jobs --------------------------------
(***************************************************************************)
(* The background-job queue (operations.ts: enqueue, runDueJobs) and the   *)
(* agentic workflow engine it runs (workflows.ts).  A write to a watched   *)
(* collection enqueues a job; a drain claims due jobs one by one and runs  *)
(* their handlers; the handler of a workflow job executes the steps of a   *)
(* run and keeps a row for it in _workflow_runs.  What a step does, and    *)
(* what the gates say of it, is left open: it may write, throw (a blocking *)
(* evalGate throws) or hand over to a reviewer.                            *)
(*                                                                         *)
(* A claim is a plain update of a row read earlier: drains may overlap.    *)
(***************************************************************************)
EXTENDS Naturals, FiniteSets

CONSTANTS
  Drains,
  Limit,         (* the page a drain reads                                 *)
  MaxAttempts,   (* max_attempts of an ordinary job; a workflow's is 1     *)
  NumSteps,      (* steps of the workflow                                  *)
  HasAgent,      (* does the workflow name an agent, or run as the system's*)
  MaxJobs,       (* bound: jobs ever enqueued                              *)
  MaxRestarts,   (* bound: crashes                                         *)
  None

VARIABLES
  jobs,          (* the kernel_jobs rows, numbered as they are enqueued    *)
  runs,          (* the _workflow_runs rows, likewise                      *)
  configured,    (* is the ordinary task still in the config               *)
  pc, work,      (* where each drain is, its copies of rows, its run       *)
  tries,         (* handler calls for each job, counted up to MaxAttempts  *)
  cut,           (* jobs a crash took a drain away from                    *)
  restarts

history == <<tries, cut>>
vars == <<jobs, runs, configured, pc, work, history, restarts>>

Ids == 1..MaxJobs
Tasks == {"task", "workflow"}
Job == [task: Tasks, status: {"pending", "running", "completed", "failed"},
        attempts: Nat, due: BOOLEAN, error: {"none", "threw", "no handler"}]
Run == [job: Ids, status: {"running", "completed", "failed", "awaiting_review"}, done: 0..NumSteps]

Copy == [id: Ids, attempts: Nat]
NoWork == [page |-> {}, job |-> None, run |-> 0]

ASSUME JobsAssumption ==
  /\ {MaxJobs, MaxRestarts} \subseteq Nat
  /\ {Limit, MaxAttempts, NumSteps} \subseteq Nat \ {0}
  /\ HasAgent \in BOOLEAN
  /\ None \notin Copy \union Job

Init ==
  /\ jobs = [j \in Ids |-> None] /\ runs = [r \in {} |-> None]
  /\ configured = TRUE
  /\ pc = [c \in Drains |-> "idle"] /\ work = [c \in Drains |-> NoWork]
  /\ tries = [j \in Ids |-> 0] /\ cut = {}
  /\ restarts = 0

Enqueued == {j \in Ids : jobs[j] # None}
HasRoom == Enqueued # Ids

-----------------------------------------------------------------------------
(* Enqueueing.                                                             *)

Enqueue(task, due) ==
  LET j == Cardinality(Enqueued) + 1
  IN  jobs' = [jobs EXCEPT ![j] = [task |-> task, status |-> "pending", attempts |-> 0,
                                          due |-> due, error |-> "none"]]

(* Code of the application enqueues a job, for now or for later.           *)
EnqueueTask ==
  /\ HasRoom /\ configured
  /\ \E due \in BOOLEAN : Enqueue("task", due)
  /\ UNCHANGED <<runs, configured, pc, work, history, restarts>>

(* Somebody writes to the watched collection.  (An enqueue that fails is   *)
(* logged, and leaves nothing.)                                            *)
Trigger ==
  /\ HasRoom
  /\ Enqueue("workflow", TRUE)
  /\ UNCHANGED <<runs, configured, pc, work, tries, cut, restarts>>

(* The loop guard knows the workflow's own writes by its agent's id.       *)
OwnWriteTriggers == ~ HasAgent

-----------------------------------------------------------------------------
(* runDueJobs.                                                             *)

Due(j) == jobs[j] # None /\ jobs[j].status = "pending" /\ jobs[j].due

CopyOf(j) == [id |-> j, attempts |-> jobs[j].attempts]

(* Limit of the due jobs.  The query returns those with the earliest       *)
(* run_at; any page is allowed here.                                       *)
Pages ==
  LET due == {CopyOf(j) : j \in {i \in Ids : Due(i)}}
  IN  {p \in SUBSET due : Cardinality(p) = IF Cardinality(due) < Limit THEN Cardinality(due) ELSE Limit}

Find(c) ==
  /\ pc[c] = "idle" /\ \E j \in Ids : Due(j)
  /\ \E p \in Pages : work' = [work EXCEPT ![c] = [NoWork EXCEPT !.page = p]]
  /\ pc' = [pc EXCEPT ![c] = "draining"]
  /\ UNCHANGED <<jobs, runs, configured, history, restarts>>

(* Variant: the attempt is not counted.                                    *)
Uncounted(r) == r.attempts

Attempts(r) == r.attempts + 1

Claimed(r) == [jobs[r.id] EXCEPT !.status = "running", !.attempts = Attempts(r)]

Claim(c) ==
  \E r \in work[c].page :
    /\ pc[c] = "draining"
    /\ jobs' = [jobs EXCEPT ![r.id] = Claimed(r)]
    /\ work' = [work EXCEPT ![c].page = @ \ {r}, ![c].job = r]
    /\ pc' = [pc EXCEPT ![c] = "claimed"]
    /\ UNCHANGED <<runs, configured, history, restarts>>

(* Write the job's outcome and go on with the page.                        *)
Settle(c, status, error) ==
  LET rest == work[c].page
  IN  /\ jobs' = [jobs EXCEPT ![work[c].job.id].status = status, ![work[c].job.id].error = error]
      /\ pc' = [pc EXCEPT ![c] = IF rest = {} THEN "idle" ELSE "draining"]
      /\ work' = [work EXCEPT ![c] = [NoWork EXCEPT !.page = rest]]

IsTask(c, task) == jobs[work[c].job.id].task = task

NoHandler(c) ==
  /\ pc[c] = "claimed" /\ IsTask(c, "task") /\ ~ configured
  /\ Settle(c, "failed", "no handler")
  /\ UNCHANGED <<runs, configured, history, restarts>>

(* Variant: the job is given up one attempt early.                         *)
SpentEarly(r) == Attempts(r) + 1 >= MaxAttempts

Spent(r) == Attempts(r) >= MaxAttempts

(* Variant: a failed attempt leaves the job running.                       *)
StaysRunning(r) == IF Spent(r) THEN "failed" ELSE "running"

(* A job that failed is pending again, at once, or spent.                  *)
AfterThrow(r) == IF Spent(r) THEN "failed" ELSE "pending"

Try(c) == tries' = [tries EXCEPT ![work[c].job.id] = IF @ < MaxAttempts THEN @ + 1 ELSE @]

(* An ordinary handler returns, or throws.                                 *)
RunTask(c) ==
  /\ pc[c] = "claimed" /\ IsTask(c, "task") /\ configured
  /\ Try(c)
  /\ Settle(c, "completed", "none") \/ Settle(c, AfterThrow(work[c].job), "threw")
  /\ UNCHANGED <<runs, configured, cut, restarts>>

-----------------------------------------------------------------------------
(* The workflow engine.                                                    *)

StartRun(c) ==
  LET r == Cardinality(DOMAIN runs) + 1
  IN  /\ pc[c] = "claimed" /\ IsTask(c, "workflow")
      /\ Try(c)
      /\ runs' = [i \in 1..r |-> IF i = r THEN [job |-> work[c].job.id, status |-> "running", done |-> 0]
                                 ELSE runs[i]]
      /\ work' = [work EXCEPT ![c].run = r]
      /\ pc' = [pc EXCEPT ![c] = "running"]
      /\ UNCHANGED <<jobs, configured, cut, restarts>>

(* A step may write to the watched collection, as the workflow.            *)
Writes == \/ UNCHANGED jobs
          \/ HasRoom /\ OwnWriteTriggers /\ Enqueue("workflow", TRUE)

(* Variant: the row of a run that is handed to a reviewer is not saved.    *)
HandoverUnsaved(run, status) == IF status = "awaiting_review" THEN run ELSE [run EXCEPT !.status = status]

(* The row of a run that ends.                                             *)
Ended(run, status) == [run EXCEPT !.status = status]

Step(c) ==
  LET r == work[c].run
      last == runs[r].done + 1 = NumSteps
  IN  /\ pc[c] = "running" /\ runs[r].status = "running"
      /\ Writes
      /\ \/ runs' = [runs EXCEPT ![r].done = @ + 1] /\ ~ last /\ UNCHANGED pc
         \/ \E status \in {"failed", "awaiting_review"} \union (IF last THEN {"completed"} ELSE {}) :
              /\ runs' = [runs EXCEPT ![r] = [Ended(runs[r], status) EXCEPT !.done = IF status = "failed" THEN @ ELSE @ + 1]]
              /\ pc' = [pc EXCEPT ![c] = "returned"]
      /\ UNCHANGED <<work, configured, history, restarts>>

(* The handler of a workflow job returns whatever became of the run: the   *)
(* job is completed, also when the run failed.                             *)
Return(c) ==
  /\ pc[c] = "returned"
  /\ Settle(c, "completed", "none")
  /\ UNCHANGED <<runs, configured, tries, cut, restarts>>

-----------------------------------------------------------------------------
(* The run_at of a job that was enqueued for later arrives.                *)
TimeComes ==
  /\ \E j \in Enqueued : ~ jobs[j].due /\ jobs' = [jobs EXCEPT ![j].due = TRUE]
  /\ UNCHANGED <<runs, configured, pc, work, history, restarts>>

(* The process dies and comes back, with another config perhaps.           *)
Restart ==
  /\ restarts < MaxRestarts /\ restarts' = restarts + 1
  /\ \E c \in Drains : pc[c] # "idle"
  /\ configured' \in BOOLEAN
  /\ cut' = cut \union {work[c].job.id : c \in {d \in Drains : work[d].job # None}}
  /\ pc' = [c \in Drains |-> "idle"] /\ work' = [c \in Drains |-> NoWork]
  /\ UNCHANGED <<jobs, runs, tries>>

DrainStep(c) == Claim(c) \/ NoHandler(c) \/ RunTask(c) \/ StartRun(c) \/ Step(c) \/ Return(c)

Next ==
  \/ EnqueueTask \/ Trigger \/ TimeComes \/ Restart
  \/ \E c \in Drains : Find(c) \/ DrainStep(c)

Spec == Init /\ [][Next]_vars

(* The cron keeps draining, and a drain that began goes on.                *)
FairSpec == Spec /\ \A c \in Drains : WF_vars(Find(c)) /\ WF_vars(DrainStep(c))

-----------------------------------------------------------------------------
(* Properties.                                                             *)

TypeOK ==
  /\ jobs \in [Ids -> Job \union {None}]
  /\ \A r \in DOMAIN runs : runs[r] \in Run
  /\ configured \in BOOLEAN
  /\ pc \in [Drains -> {"idle", "draining", "claimed", "running", "returned"}]
  /\ \A c \in Drains : /\ work[c].page \subseteq Copy /\ work[c].job \in Copy \union {None}
                       /\ work[c].run \in {0} \union DOMAIN runs
  /\ tries \in [Ids -> 0..MaxAttempts] /\ cut \subseteq Ids

Holds(c, j) == work[c].job # None /\ work[c].job.id = j

(* A job marked running is being run, however drains overlap, unless a     *)
(* crash took its drain away.                                              *)
RunningIsHeld ==
  \A j \in Enqueued : jobs[j].status = "running" => j \in cut \/ \E c \in Drains : Holds(c, j)

(* A job is given up only after max_attempts calls of its handler, or when *)
(* it has no handler; a workflow job is completed only when a run ended.    *)
OutcomesAreEarned ==
  \A j \in Enqueued :
    /\ jobs[j].status = "failed" => tries[j] >= MaxAttempts \/ jobs[j].error = "no handler"
    /\ jobs[j].status = "completed" /\ jobs[j].task = "workflow" =>
         \E r \in DOMAIN runs : runs[r].job = j /\ runs[r].status # "running"

(* The run log tells how each run ended: a run still marked running is one *)
(* a drain is executing, or a crash cut off.                               *)
RunLogIsTrue ==
  \A r \in DOMAIN runs :
    runs[r].status = "running" => runs[r].job \in cut \/ \E c \in Drains : pc[c] = "running" /\ work[c].run = r

(* A due job comes to an end, completed or failed, unless a crash takes    *)
(* its drain away: no job that keeps failing is retried for ever.          *)
DueIsSettled ==
  \A j \in Ids : Due(j) ~> j \in cut \/ (jobs[j] # None /\ jobs[j].status \in {"completed", "failed"})
=============================================================================
