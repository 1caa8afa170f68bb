---------------------------- MODULE PipelineRun ----------------------------
(***************************************************************************)
(* Pipeline runs: the durable run row (pipeline_run_repository.py), the    *)
(* service in the API process that launches and controls a worker          *)
(* subprocess (pipeline_worker_service.py), the worker                     *)
(* (pipeline_worker_runner.py) and the recovery of stale runs at startup   *)
(* (pipeline_recovery_service.py).                                         *)
(*                                                                         *)
(* Service and worker share nothing but the database: every transaction is *)
(* a step, and every status is written unconditionally, whatever the row   *)
(* says by then.  The service serialises its controls with a lock, so one  *)
(* control is under way at a time; it dies with the API process, which the *)
(* worker survives unless the process was shut down in an orderly way.     *)
(***************************************************************************)
EXTENDS Naturals, FiniteSets, JobStatus

CONSTANTS
  Job,        \* application jobs
  MaxRuns,    \* bound: runs ever started; run 1 is the oldest
  Env,        \* the surroundings that act, out of Surroundings
  None        \* no job

Surroundings == {"pause", "cancel", "retry", "kill", "stop", "crash", "faults"}

(* Jobs are finitely many, runs are numbered, None is no job.              *)
ASSUME PipelineAssumption ==
  /\ IsFiniteSet(Job)
  /\ MaxRuns \in Nat \ {0}
  /\ Env \subseteq Surroundings
  /\ None \notin Job

Run == 1 .. MaxRuns

VARIABLES
  life,       \* the API process: its requests end with the shutdown
  ctl,        \* the control that holds the service's lock
  handle,     \* run whose process object the service holds, 0 for none
  run,        \* pipeline_runs
  job,        \* application_jobs.status
  worker,     \* the worker process of each run
  orphan      \* history: runs whose worker was lost with the process object

vars == <<life, ctl, handle, run, job, worker, orphan>>

(***************************************************************************)
(* Values.                                                                 *)
(***************************************************************************)
Active == {"running", "pausing", "paused", "cancelling"}
Ended == {"cancelled", "completed", "failed"}
Terminal == Ended \cup {"recovered"}

(* owned: worker_pid is set; fresh: heartbeat_at is within the timeout.    *)
RunRow ==
  [status : Active \cup Terminal \cup {"absent"}, owned : BOOLEAN,
   fresh : BOOLEAN, current : Job \cup {None}, total : Nat, done : Nat, failed : Nat]
NoRun ==
  [status |-> "absent", owned |-> FALSE, fresh |-> FALSE, current |-> None,
   total |-> 0, done |-> 0, failed |-> 0]

WorkerPc ==
  {"none", "boot", "beat", "load", "check", "pause", "wait", "resume", "cancel",
   "take", "open", "work", "count", "settle", "raised", "blame", "finish",
   "exiting", "gone"}
Outcome == {"review_ready", "needs_user_input", "failed"}
WorkerRow ==
  [pc : WorkerPc, next : {"load", "take"}, seen : Active \cup Terminal \cup {"absent"},
   todo : SUBSET Job, job : Job \cup {None}, out : Outcome]
NoWorker ==
  [pc |-> "none", next |-> "load", seen |-> "absent", todo |-> {}, job |-> None,
   out |-> "failed"]

Idle == [op |-> "none", pc |-> "read", run |-> 0, alive |-> FALSE]
Control ==
  [op : {"none", "start", "pause", "resume", "cancel"},
   pc : {"read", "create", "spawn", "stamp", "probe", "write"},
   run : Run \cup {0}, alive : BOOLEAN]

(* A start may be under way until the process is gone.                     *)
Up == life # "down"

(* _proc_alive and the liveness probe of the recovery: the process exists. *)
Live(r) == worker[r].pc \notin {"none", "gone"}
HandleLive == handle # 0 /\ Live(handle)

(* get_active_pipeline_run: the newest row in an active status.            *)
ActiveRuns == {r \in Run : run[r].status \in Active}
IsLatestActive(r) == r \in ActiveRuns /\ \A s \in ActiveRuns : s =< r

(* mark_pipeline_run_terminal clears the current job with the status.      *)
Closed(r, status) == [run EXCEPT ![r].status = status, ![r].current = None]

Init ==
  /\ life = "serving"
  /\ ctl = Idle
  /\ handle = 0
  /\ run = [r \in Run |-> NoRun]
  /\ job = [j \in Job |-> "ready_to_apply"]
  /\ worker = [r \in Run |-> NoWorker]
  /\ orphan = {}

(***************************************************************************)
(* The service: one control at a time.                                     *)
(***************************************************************************)

(* start refuses while a run is active, and waits for the process of the   *)
(* run before.  An orchestration thread calls it until the API process is  *)
(* gone.  The mutant takes a paused run for one that is over.              *)
MutantMayStart == \A r \in ActiveRuns : run[r].status = "paused"
MayStart == ActiveRuns = {}

StartRead ==
  /\ Up /\ ctl = Idle
  /\ MayStart
  /\ ~HandleLive
  /\ run[MaxRuns].status = "absent"     \* the bound on runs
  /\ ctl' = [Idle EXCEPT !.op = "start", !.pc = "create"]
  /\ UNCHANGED <<life, handle, run, job, worker, orphan>>

StartCreate(r) ==
  /\ ctl.pc = "create"
  /\ run[r].status = "absent" /\ \A s \in Run : s < r => run[s].status # "absent"
  /\ run' = [run EXCEPT ![r].status = "running"]
  /\ ctl' = [ctl EXCEPT !.pc = "spawn", !.run = r]
  /\ UNCHANGED <<life, handle, job, worker, orphan>>

StartSpawn ==
  /\ ctl.pc = "spawn"
  /\ worker' = [worker EXCEPT ![ctl.run].pc = "boot"]
  /\ handle' = ctl.run
  /\ ctl' = [ctl EXCEPT !.pc = "stamp"]
  /\ UNCHANGED <<life, run, job, orphan>>

(* Popen raises: the row must not stay behind as a ghost.                  *)
SpawnFails ==
  /\ "faults" \in Env
  /\ ctl.pc = "spawn"
  /\ run' = Closed(ctl.run, "failed")
  /\ ctl' = Idle
  /\ UNCHANGED <<life, handle, job, worker, orphan>>

StartStamp ==
  /\ ctl.pc = "stamp"
  /\ run' = [run EXCEPT ![ctl.run].owned = TRUE, ![ctl.run].fresh = TRUE]
  /\ ctl' = Idle
  /\ UNCHANGED <<life, handle, job, worker, orphan>>

(* pause and resume read the row and check its status in one transaction,  *)
(* and write the new status in another.                                    *)
SignalRead(op, r) ==
  /\ "pause" \in Env
  /\ life = "serving" /\ ctl = Idle
  /\ HandleLive
  /\ IsLatestActive(r)
  /\ run[r].status = IF op = "pause" THEN "running" ELSE "paused"
  /\ ctl' = [Idle EXCEPT !.op = op, !.pc = "write", !.run = r]
  /\ UNCHANGED <<life, handle, run, job, worker, orphan>>

SignalWrite ==
  /\ ctl.op \in {"pause", "resume"} /\ ctl.pc = "write"
  /\ run' = [run EXCEPT ![ctl.run].status =
               IF ctl.op = "pause" THEN "pausing" ELSE "running"]
  /\ ctl' = Idle
  /\ UNCHANGED <<life, handle, job, worker, orphan>>

(* cancel reads the row, then probes the process, then writes: a request   *)
(* to a live worker, the end of the run without one.  One mutant forgets   *)
(* which row it read, the other ends the run in any case.                  *)
MutantCancelRead(r) ==
  /\ "cancel" \in Env
  /\ life = "serving" /\ ctl = Idle
  /\ IsLatestActive(r)
  /\ ctl' = [Idle EXCEPT !.op = "cancel", !.pc = "probe"]
  /\ UNCHANGED <<life, handle, run, job, worker, orphan>>

CancelRead(r) ==
  /\ "cancel" \in Env
  /\ life = "serving" /\ ctl = Idle
  /\ IsLatestActive(r)
  /\ ctl' = [Idle EXCEPT !.op = "cancel", !.pc = "probe", !.run = r]
  /\ UNCHANGED <<life, handle, run, job, worker, orphan>>

CancelProbe ==
  /\ ctl.pc = "probe"
  /\ ctl' = [ctl EXCEPT !.pc = "write", !.alive = HandleLive]
  /\ UNCHANGED <<life, handle, run, job, worker, orphan>>

MutantCancelWrite ==
  /\ ctl.op = "cancel" /\ ctl.pc = "write"
  /\ run' = Closed(ctl.run, "cancelled")
  /\ ctl' = Idle
  /\ UNCHANGED <<life, handle, job, worker, orphan>>

CancelWrite ==
  /\ ctl.op = "cancel" /\ ctl.pc = "write"
  /\ run' = IF ctl.alive THEN [run EXCEPT ![ctl.run].status = "cancelling"]
                         ELSE Closed(ctl.run, "cancelled")
  /\ ctl' = Idle
  /\ UNCHANGED <<life, handle, job, worker, orphan>>

(***************************************************************************)
(* The worker of run r.                                                    *)
(***************************************************************************)
Goto(r, pc) == worker' = [worker EXCEPT ![r].pc = pc]

(* The heartbeat is stamped in a transaction of its own.                   *)
BootRead(r) ==
  /\ worker[r].pc = "boot"
  /\ worker' = [worker EXCEPT ![r].pc = "beat", ![r].seen = run[r].status]
  /\ UNCHANGED <<life, ctl, handle, run, job, orphan>>

BootBeat(r) ==
  /\ worker[r].pc = "beat"
  /\ run' = [run EXCEPT ![r].fresh = TRUE]
  /\ worker' = [worker EXCEPT ![r].seen = "absent", ![r].pc =
       CASE worker[r].seen = "cancelling"            -> "cancel"
         [] worker[r].seen \in {"paused", "pausing"} -> "pause"
         [] worker[r].seen = "running"               -> "load"
         [] OTHER                                    -> "exiting"]
  /\ UNCHANGED <<life, ctl, handle, job, orphan>>

(* The last-resort boundary of run: what raises outside the boundary of a  *)
(* job, or inside its handler, a missing manifest or any access to the     *)
(* database, fails the run and leaves the job in hand as it is.            *)
Unguarded ==
  {"boot", "beat", "load", "check", "pause", "wait", "resume", "cancel", "take",
   "raised", "blame", "finish"}

(* _mark_failed is best effort: when it raises too, the row stays as well. *)
MarkFailed(r) == run' \in {run, Closed(r, "failed")}

WorkerFails(r) ==
  /\ "faults" \in Env
  /\ worker[r].pc \in Unguarded
  /\ MarkFailed(r)
  /\ Goto(r, "exiting")
  /\ UNCHANGED <<life, ctl, handle, job, orphan>>

(* The jobs of this run: the eligible ones, cut to max_jobs and to the     *)
(* targets if any are given.                                               *)
Load(r) ==
  /\ worker[r].pc = "load"
  /\ \E S \in SUBSET {j \in Job : job[j] \in {"ready_to_apply", "queued"}} :
       /\ worker' = [worker EXCEPT ![r].todo = S, ![r].next = "take",
                       ![r].pc = IF S = {} THEN "finish" ELSE "take"]
       /\ run' = [run EXCEPT ![r].total = Cardinality(S)]
  /\ UNCHANGED <<life, ctl, handle, job, orphan>>

(* Where a checkpoint goes on to; the mutant keeps polling a row that is   *)
(* over.                                                                   *)
MutantPasses(status) ==
  CASE status = "cancelling" -> "cancel"
    [] status = "pausing"    -> "pause"
    [] status \in Ended      -> "check"
    [] OTHER                 -> "take"

Passes(status) ==
  CASE status = "cancelling" -> "cancel"
    [] status = "pausing"    -> "pause"
    [] status \in Ended      -> "exiting"
    [] OTHER                 -> "take"

(* _at_checkpoint, before every job but the first.                         *)
Check(r) ==
  /\ worker[r].pc = "check"
  /\ run' = [run EXCEPT ![r].fresh = TRUE]
  /\ Goto(r, Passes(run[r].status))
  /\ UNCHANGED <<life, ctl, handle, job, orphan>>

(* _wait_for_resume: paused is written, then the row is polled.            *)
PauseWrite(r) ==
  /\ worker[r].pc = "pause"
  /\ run' = [run EXCEPT ![r].status = "paused"]
  /\ Goto(r, "wait")
  /\ UNCHANGED <<life, ctl, handle, job, orphan>>

(* Where the poll goes on to.  A recovered run is not in the code's list;  *)
(* the mutant has no cancel while paused.                                  *)
MutantWakes(status) ==
  CASE status = "running"  -> "resume"
    [] status \in Ended    -> "exiting"
    [] OTHER               -> "wait"

Wakes(status) ==
  CASE status = "running"    -> "resume"
    [] status = "cancelling" -> "cancel"
    [] status \in Ended      -> "exiting"
    [] OTHER                 -> "wait"

WaitPoll(r) ==
  /\ worker[r].pc = "wait"
  /\ run' = [run EXCEPT ![r].fresh = TRUE]
  /\ Goto(r, Wakes(run[r].status))
  /\ UNCHANGED <<life, ctl, handle, job, orphan>>

ResumeWrite(r) ==
  /\ worker[r].pc = "resume"
  /\ run' = [run EXCEPT ![r].status = "running"]
  /\ Goto(r, worker[r].next)
  /\ UNCHANGED <<life, ctl, handle, job, orphan>>

FinishCancelled(r) ==
  /\ worker[r].pc = "cancel"
  /\ run' = Closed(r, "cancelled")
  /\ Goto(r, "exiting")
  /\ UNCHANGED <<life, ctl, handle, job, orphan>>

(* _process_job                                                            *)
Take(r, j) ==
  /\ worker[r].pc = "take" /\ j \in worker[r].todo
  /\ run' = [run EXCEPT ![r].current = j, ![r].fresh = TRUE]
  /\ worker' = [worker EXCEPT ![r].pc = "open", ![r].job = j, ![r].todo = @ \ {j}]
  /\ UNCHANGED <<life, ctl, handle, job, orphan>>

(* Every status of a job goes through upsert_application_job.              *)
Upsert(r, status) ==
  job' = [job EXCEPT ![worker[r].job] = Upserted(@, status)]

OpenJob(r) ==
  /\ worker[r].pc = "open"
  /\ Upsert(r, "in_progress")
  /\ Goto(r, "work")
  /\ UNCHANGED <<life, ctl, handle, run, orphan>>

(* The live browser dry run.                                               *)
Work(r) ==
  /\ worker[r].pc = "work"
  /\ \E out \in Outcome :
       worker' = [worker EXCEPT ![r].pc = "count", ![r].out = out]
  /\ UNCHANGED <<life, ctl, handle, run, job, orphan>>

Count(r) ==
  /\ worker[r].pc = "count"
  /\ run' = IF worker[r].out = "failed" THEN [run EXCEPT ![r].failed = @ + 1]
                                        ELSE [run EXCEPT ![r].done = @ + 1]
  /\ Goto(r, "settle")
  /\ UNCHANGED <<life, ctl, handle, job, orphan>>

AfterJob(r) == IF worker[r].todo = {} THEN "finish" ELSE "check"

SettleJob(r) ==
  /\ worker[r].pc = "settle"
  /\ Upsert(r, worker[r].out)
  /\ worker' = [worker EXCEPT ![r].pc = AfterJob(r), ![r].job = None,
                              ![r].out = "failed"]
  /\ UNCHANGED <<life, ctl, handle, run, orphan>>

(* The error boundary of a job: the profile or the browser raises, or one  *)
(* of the writes does, the intervention or the error entry that follows    *)
(* the job's status included.                                              *)
Raise(r) ==
  /\ \/ worker[r].pc \in {"open", "work"} /\ UNCHANGED job
     \/ "faults" \in Env /\ worker[r].pc \in {"count", "settle"} /\ UNCHANGED job
     \/ "faults" \in Env /\ worker[r].pc = "settle" /\ Upsert(r, worker[r].out)
  /\ Goto(r, "raised")
  /\ UNCHANGED <<life, ctl, handle, run, orphan>>

FailJob(r) ==
  /\ worker[r].pc = "raised"
  /\ Upsert(r, "failed")
  /\ worker' = [worker EXCEPT ![r].pc = "blame", ![r].job = None]
  /\ UNCHANGED <<life, ctl, handle, run, orphan>>

(* The mutant leaves a job that raised out of the counters.                *)
MutantBlamed(r) == run
Blamed(r) == [run EXCEPT ![r].failed = @ + 1]

CountFailed(r) ==
  /\ worker[r].pc = "blame"
  /\ run' = Blamed(r)
  /\ Goto(r, AfterJob(r))
  /\ UNCHANGED <<life, ctl, handle, job, orphan>>

Finish(r) ==
  /\ worker[r].pc = "finish"
  /\ run' = Closed(r, "completed")
  /\ Goto(r, "exiting")
  /\ UNCHANGED <<life, ctl, handle, job, orphan>>

Exit(r) ==
  /\ worker[r].pc = "exiting"
  /\ Goto(r, "gone")
  /\ UNCHANGED <<life, ctl, handle, run, job, orphan>>

(***************************************************************************)
(* The surroundings.                                                       *)
(***************************************************************************)

(* The worker process dies.                                                *)
Kill(r) ==
  /\ "kill" \in Env
  /\ Live(r)
  /\ Goto(r, "gone")
  /\ UNCHANGED <<life, ctl, handle, run, job, orphan>>

(* An orderly shutdown terminates the worker, without the lock that a      *)
(* start of the orchestration thread may hold, and drops its process       *)
(* object at the end: a worker launched in between is lost to it.          *)
Stop ==
  /\ "stop" \in Env
  /\ life = "serving" /\ ctl.op \in {"none", "start"}
  /\ worker' = [r \in Run |->
       IF r = handle /\ Live(r) THEN [worker[r] EXCEPT !.pc = "gone"] ELSE worker[r]]
  /\ life' = IF handle = 0 THEN "stopped" ELSE "stopping"
  /\ UNCHANGED <<ctl, handle, run, job, orphan>>

Lost == orphan \cup {r \in Run : Live(r)}

StopEnds ==
  /\ life = "stopping"
  /\ life' = "stopped"
  /\ handle' = 0
  /\ orphan' = Lost
  /\ UNCHANGED <<ctl, run, job, worker>>

(* The API process is gone, at the end of a shutdown or by a crash, which  *)
(* leaves its worker running.                                              *)
Crash ==
  /\ life = "stopped" \/ (Up /\ "crash" \in Env)
  /\ life' = "down"
  /\ ctl' = Idle
  /\ handle' = 0
  /\ orphan' = Lost
  /\ UNCHANGED <<run, job, worker>>

(* The heartbeat expires: the worker is gone, or in a long job.  A worker  *)
(* that polls stamps it many times within the timeout, and nobody looks at *)
(* the heartbeat of a run that is over.                                    *)
Expire(r) ==
  /\ r \in ActiveRuns /\ run[r].fresh
  /\ ~Live(r) \/ worker[r].pc = "work"
  /\ run' = [run EXCEPT ![r].fresh = FALSE]
  /\ UNCHANGED <<life, ctl, handle, job, worker, orphan>>

(* run_is_stale; the mutant asks for the heartbeat alone.                  *)
MutantStale(r) == ~run[r].fresh
Stale(r) == ~(run[r].owned /\ Live(r)) /\ ~run[r].fresh

(* _recover_current_job, for the runs that are recovered; the mutant       *)
(* leaves their jobs alone.                                                *)
MutantJobsRecovered(stale) == job
JobsRecovered(stale) ==
  [j \in Job |->
     IF job[j] = "in_progress" /\ \E r \in stale : run[r].current = j
     THEN "needs_review" ELSE job[j]]

(* The API process starts: stale runs are recovered in one transaction     *)
(* before any request is served.  The current job stays on the row.        *)
Startup ==
  /\ ~Up
  /\ life' = "serving"
  /\ LET stale == {r \in ActiveRuns : Stale(r)}
     IN  /\ run' = [r \in Run |->
              IF r \in stale THEN [run[r] EXCEPT !.status = "recovered"] ELSE run[r]]
         /\ job' = JobsRecovered(stale)
  /\ UNCHANGED <<ctl, handle, worker, orphan>>

(* The user sends a job round again (the pending interventions that may    *)
(* refuse it are not modelled here).                                       *)
Retry(j) ==
  /\ "retry" \in Env
  /\ life = "serving"
  /\ "queued" \in Allowed(job[j])
  /\ job' = [job EXCEPT ![j] = "queued"]
  /\ UNCHANGED <<life, ctl, handle, run, worker, orphan>>

(***************************************************************************)
(* The specification.  The operating system schedules every worker, and    *)
(* every browser call of a job has a timeout; nothing has to fail.         *)
(***************************************************************************)
GoesOn(r) ==
  \/ BootRead(r) \/ BootBeat(r) \/ Load(r) \/ Check(r)
  \/ PauseWrite(r) \/ WaitPoll(r) \/ ResumeWrite(r) \/ FinishCancelled(r)
  \/ \E j \in Job : Take(r, j)
  \/ OpenJob(r) \/ Work(r) \/ Count(r) \/ SettleJob(r)
  \/ FailJob(r) \/ CountFailed(r) \/ Finish(r) \/ Exit(r)

WorkerStep(r) == GoesOn(r) \/ Raise(r) \/ WorkerFails(r)

ServiceStep ==
  \/ StartRead \/ StartSpawn \/ SpawnFails \/ StartStamp
  \/ \E r \in Run : StartCreate(r) \/ CancelRead(r)
  \/ \E r \in Run, op \in {"pause", "resume"} : SignalRead(op, r)
  \/ SignalWrite \/ CancelProbe \/ CancelWrite

Next ==
  \/ ServiceStep
  \/ \E r \in Run : WorkerStep(r) \/ Kill(r) \/ Expire(r)
  \/ Stop \/ StopEnds \/ Crash \/ Startup
  \/ \E j \in Job : Retry(j)

Spec == Init /\ [][Next]_vars

FairSpec == Spec /\ \A r \in Run : WF_vars(GoesOn(r))

(***************************************************************************)
(* What must hold.                                                         *)
(***************************************************************************)

(* Every variable has its type, and the control that is under way has the  *)
(* run it works on (pipeline_runs and PipelineWorkerService).              *)
TypeOK ==
  /\ life \in {"serving", "stopping", "stopped", "down"}
  /\ ctl \in Control
  /\ ctl.pc \in {"spawn", "stamp", "probe", "write"} => ctl.run \in Run
  /\ handle \in Run \cup {0}
  /\ run \in [Run -> RunRow]
  /\ job \in [Job -> Status]
  /\ worker \in [Run -> WorkerRow]
  /\ \A r \in Run :
       worker[r].pc \in {"open", "work", "count", "settle", "raised"} =>
         worker[r].job \in Job
  /\ orphan \subseteq Run

(* One pipeline at a time (PipelineWorkerService): whatever controls race  *)
(* with whatever step of the worker, of the runs that no crash or shutdown *)
(* took from the service at most one is active or still has a process.     *)
OneRunAtATime ==
  \A r, s \in Run \ orphan :
    /\ run[r].status \in Active \/ Live(r)
    /\ run[s].status \in Active \/ Live(s)
    => r = s

(* A completed run accounts for every job it loaded, through pauses,       *)
(* raising jobs and failing writes (_bump, _mark_terminal).                *)
CompletedIsCounted ==
  \A r \in Run :
    run[r].status = "completed" =>
      worker[r].todo = {} /\ run[r].done + run[r].failed >= run[r].total

(* "A run owned by a live process is NEVER touched", however long its job  *)
(* takes or the user keeps it paused: the one live worker startup recovery *)
(* may take the run from is one that the service launched and lost before  *)
(* recording it, and it does not wait for a resume (run_is_stale).         *)
RecoveryTouchesNoOwner ==
  [][\A r \in Run :
       run[r].status # "recovered" /\ run'[r].status = "recovered" =>
         \/ ~Live(r)
         \/ ~run[r].owned /\ r \in orphan /\ worker[r].pc # "wait"]_vars

(* A job in progress is one a worker is at, or one recovery still finds,   *)
(* on an active row that names it.  What remains is a job whose worker     *)
(* ended with it in hand when its row named it no longer: cancelled        *)
(* without its worker or failed by the last-resort boundary; or one that a *)
(* worker, lost by its service, took after its run was recovered or        *)
(* cancelled.  No worker completes its run over a job in hand              *)
(* (_process_job).                                                         *)
WorksOn(r, j) == worker[r].job = j /\ Live(r)
Recoverable(r, j) == run[r].status \in Active /\ run[r].current = j
LeftBehind(r, j) ==
  /\ worker[r].job = j
  /\ \/ run[r].current # j /\ run[r].status # "completed"
     \/ run[r].status \in {"recovered", "cancelled"} /\ r \in orphan

StrandedOnlyByClosing ==
  \A j \in Job : job[j] = "in_progress" =>
    \E r \in Run : WorksOn(r, j) \/ Recoverable(r, j) \/ LeftBehind(r, j)

(* A paused worker obeys: once a cancel or an end is on the row, the       *)
(* worker that waits on it comes to its end (_wait_for_resume).            *)
WaitingWorkerObeys ==
  \A r \in Run :
    worker[r].pc = "wait" /\ run[r].status \in Ended \cup {"cancelling"}
      ~> worker[r].pc = "gone"

(* A worker comes to a halt: it ends, or waits for the user.               *)
WorkerHalts ==
  \A r \in Run : Live(r) ~> worker[r].pc \in {"wait", "gone"}

(* What the service shows of its newest run: an active status as running,  *)
(* a worker that is at work or about to be launched, whether the service   *)
(* has lost it, and a control that has read the row.                       *)
Newest(r) ==
  run[r].status # "absent" /\ \A s \in Run : r < s => run[s].status = "absent"
Works(r) ==
  \/ Live(r) /\ worker[r].pc # "exiting"
  \/ ctl.pc = "spawn" /\ ctl.run = r
Asked(r) == ctl.run = r /\ ctl.op \in {"pause", "resume", "cancel"}

ShownStatus ==
  IF \E r \in ActiveRuns : Newest(r) THEN "running"
  ELSE IF \E r \in Run : Newest(r) THEN run[CHOOSE r \in Run : Newest(r)].status
  ELSE "idle"
ShownAlive == \E r \in Run : Newest(r) /\ Works(r)
ShownStray == \E r \in Run : Newest(r) /\ r \in orphan
ShownAsked == \E r \in Run : Newest(r) /\ Asked(r)

(* Through the races of controls, workers, recovery and restarts the       *)
(* service keeps the contract of PipelineService, which the thread of an   *)
(* orchestration run polls (PipelineWorkerService.get_state_dict).         *)
Service == INSTANCE PipelineService
  WITH up <- Up, status <- ShownStatus, alive <- ShownAlive,
       stray <- ShownStray, asked <- ShownAsked

ImplementsService == Service!ServiceSpec
=============================================================================
