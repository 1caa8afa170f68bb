--------------------------- MODULE Orchestration ---------------------------
(***************************************************************************)
(* Orchestration runs: JobHunter, queue import and pipeline in sequence or *)
(* side by side (orchestration_service.py), their durable rows             *)
(* (orchestration_run_repository.py), the JobHunter process they own       *)
(* (jobhunter_runner.py) and the pipeline service they drive, which does   *)
(* whatever its contract, PipelineService, lets it do.                     *)
(*                                                                         *)
(* A run is driven by a thread of the API process.  The service holds a    *)
(* lock while it starts or cancels, but the threads never take it: what    *)
(* they share with the controls is one cancel event, one reference to a    *)
(* runner, and the rows, which everybody writes unconditionally.           *)
(***************************************************************************)
EXTENDS Naturals, FiniteSets

CONSTANTS
  Job,        \* application jobs
  MaxRuns,    \* bound: runs ever started; run 1 is the oldest
  Retried,    \* bound: jobs that the user may send another round
  MaxJobs,    \* max_jobs of every start: the size of a pipeline batch
  Modes,      \* the modes asked for, out of Mode
  Env         \* the surroundings that act, out of Surroundings

Mode == {"sequential", "parallel", "synthetic"}
Surroundings == {"cancel", "slow", "timeouts", "faults", "kill", "stop", "crash", "user"}

(* Jobs are finitely many, runs are numbered, a batch is never empty.      *)
ASSUME OrchestrationAssumption ==
  /\ IsFiniteSet(Job)
  /\ MaxRuns \in Nat \ {0} /\ MaxJobs \in Nat \ {0}
  /\ Modes \subseteq Mode
  /\ Env \subseteq Surroundings

Run == 1 .. MaxRuns

VARIABLES
  life,       \* the API process
  event,      \* _cancel_requested
  ctl,        \* the control that holds the service's lock
  cur,        \* run of self._thread, 0 for none
  held,       \* run of self._runner, 0 for none
  row,        \* orchestration_runs
  th,         \* the thread of each run
  child,      \* the JobHunter process of each run, and who waits on it
  pipe,       \* status of the newest pipeline run
  alive,      \* its worker is at work
  stray,      \* the pipeline service has lost that worker
  asked,      \* a control of the pipeline holds its lock
  queue,      \* modification time of the queue file, 0 for no file
  elig,       \* jobs that are ready_to_apply or queued
  overtaken   \* history: runs whose thread lived when a newer run was made

pipeline == <<pipe, alive, stray, asked>>
vars == <<life, event, ctl, cur, held, row, th, child, pipeline, queue, elig, overtaken>>

(* What get_state_dict, start and cancel of the pipeline service show.     *)
Service == INSTANCE PipelineService WITH up <- life # "down", status <- pipe

(***************************************************************************)
(* Values.                                                                 *)
(***************************************************************************)
Active == {"running", "jobhunter_running", "importing", "pipeline_running", "cancelling"}
Terminal == {"completed", "failed", "cancelled"}

(* before, after: the signature of the queue file around JobHunter;        *)
(* left: the targets that were still eligible after the last pass.         *)
Row ==
  [status : Active \cup Terminal \cup {"absent"}, mode : Mode, pid : BOOLEAN,
   exit : {"none", "ok", "bad"}, before : Nat, after : Nat,
   imported : BOOLEAN, targets : SUBSET Job, left : SUBSET Job]
NoRow ==
  [status |-> "absent", mode |-> "sequential", pid |-> FALSE, exit |-> "none",
   before |-> 0, after |-> 0, imported |-> FALSE, targets |-> {}, left |-> {}]

ThreadPc ==
  {"none", "begin", "launch", "stamp", "wait", "phase", "pipe", "spawn", "join", "again",
   "poll", "drain", "verify", "stable", "snapshot", "import", "evidence", "batch", "tally",
   "raise", "fail", "close", "last", "complete", "gone", "lost"}
(* first: the pass over the jobs that exist already, started: it runs;     *)
(* over: the thread ends with the close, as an exception ended the phases. *)
Thread ==
  [pc : ThreadPc, first : BOOLEAN, started : BOOLEAN, snap : SUBSET Job,
   batch : SUBSET Job, pass : Nat, over : BOOLEAN]
NoThread ==
  [pc |-> "none", first |-> FALSE, started |-> FALSE, snap |-> {}, batch |-> {},
   pass |-> 0, over |-> FALSE]

Child ==
  [st : {"none", "running", "ok", "bad"}, exported : BOOLEAN, timedout : BOOLEAN,
   wait : {"none", "wait", "reap", "done"}]
NoChild == [st |-> "none", exported |-> FALSE, timedout |-> FALSE, wait |-> "none"]

Pipe ==
  {"idle", "running", "completed", "failed", "cancelled", "recovered"}
    \X BOOLEAN \X BOOLEAN \X BOOLEAN

Idle == [op |-> "none", pc |-> "join", run |-> 0]
Control ==
  [op : {"none", "start", "cancel"}, pc : {"mark", "pipe", "answer", "child", "join"}, run : Run \cup {0}]

Alive(o) == th[o].pc \notin {"none", "gone", "lost"}
ActiveRuns == {o \in Run : row[o].status \in Active}
IsLatestActive(o) == o \in ActiveRuns /\ \A p \in ActiveRuns : p =< o
IsLatest(o) == row[o].status # "absent" /\ \A p \in Run : p > o => row[p].status = "absent"

Exited(c, o, st) == [c EXCEPT ![o].st = st, ![o].exported = FALSE]

(* close() and cancel() of a runner: a running child is terminated.        *)
Closed(c, o) == IF o # 0 /\ c[o].st = "running" THEN Exited(c, o, "bad") ELSE c

Init ==
  /\ life = "serving"
  /\ event = FALSE
  /\ ctl = Idle
  /\ cur = 0 /\ held = 0
  /\ row = [o \in Run |-> NoRow]
  /\ th = [o \in Run |-> NoThread]
  /\ child = [o \in Run |-> NoChild]
  /\ Service!ServiceInit
  /\ queue = 0
  /\ elig = {}
  /\ overtaken = {}

(***************************************************************************)
(* The service: one control at a time.                                     *)
(***************************************************************************)
Uncontrolled == life = "serving" /\ ctl = Idle

(* start refuses while a run is active; a synthetic run needs its queue.   *)
(* The mutant takes a run that is being cancelled for one that is over.    *)
MutantMayStart == \A o \in ActiveRuns : row[o].status = "cancelling"
MayStart == ActiveRuns = {}

Start(o, m) ==
  /\ Uncontrolled /\ MayStart
  /\ m = "synthetic" => queue > 0
  /\ row[o].status = "absent" /\ \A p \in Run : p < o => row[p].status # "absent"
  /\ row' = [row EXCEPT ![o].status = "running", ![o].mode = m]
  /\ event' = FALSE
  /\ ctl' = [Idle EXCEPT !.op = "start", !.run = o]
  /\ overtaken' = overtaken \cup {p \in Run : Alive(p)}
  /\ UNCHANGED <<life, cur, held, th, child, pipeline, queue, elig>>

(* The joins of start (30 s) and cancel (10 s) run out only while the      *)
(* thread is inside a call that nothing bounds; everywhere else it looks   *)
(* at the event within half a second.                                      *)
Joined(long) == cur # 0 /\ Alive(cur) => "slow" \in Env /\ th[cur].pc \in long

StartThread ==
  /\ life = "serving" /\ ctl.op = "start"
  /\ Joined({"import"})
  /\ child' = Closed(child, held)
  /\ held' = 0
  /\ th' = [th EXCEPT ![ctl.run].pc = "begin"]
  /\ cur' = ctl.run
  /\ ctl' = Idle
  /\ UNCHANGED <<life, event, row, pipeline, queue, elig, overtaken>>

CancelRead(o) ==
  /\ "cancel" \in Env
  /\ Uncontrolled /\ IsLatestActive(o)
  /\ event' = TRUE
  /\ ctl' = [op |-> "cancel", pc |-> "mark", run |-> o]
  /\ UNCHANGED <<life, cur, held, row, th, child, pipeline, queue, elig, overtaken>>

Cancelling(pc, next) ==
  /\ life = "serving" /\ ctl.op = "cancel" /\ ctl.pc = pc
  /\ ctl' = [ctl EXCEPT !.pc = next]
  /\ UNCHANGED <<life, event, cur, held, th, queue, elig, overtaken>>

CancelMark ==
  /\ Cancelling("mark", "pipe")
  /\ row' = [row EXCEPT ![ctl.run].status = "cancelling"]
  /\ UNCHANGED <<child, pipeline>>

(* The controls of the pipeline take turns, whoever calls them, and a      *)
(* start has its turn until its worker is launched.                        *)
PipeFree == ~asked /\ \A o \in Run : th[o].pc # "spawn"

(* The cancel of the pipeline finds an active run, which may end before it *)
(* writes, or none.                                                        *)
CancelPipe ==
  /\ PipeFree
  /\ \/ Cancelling("pipe", "answer") /\ Service!Ask
     \/ Cancelling("pipe", "child") /\ pipe # "running" /\ UNCHANGED pipeline
  /\ UNCHANGED <<row, child>>

CancelAnswer ==
  /\ Cancelling("answer", "child")
  /\ Service!Answer
  /\ UNCHANGED <<row, child>>

CancelChild ==
  /\ Cancelling("child", "join")
  /\ child' = Closed(child, held)
  /\ row' = IF child' = child THEN row ELSE [row EXCEPT ![ctl.run].exit = "bad"]
  /\ UNCHANGED pipeline

(* The mutant trusts a thread that ended to have recorded the end.         *)
MutantCancelOutcome(o) == IF Alive(o) THEN "cancelled" ELSE row[o].status
CancelOutcome(o) == "cancelled"

CancelEnd ==
  /\ life = "serving" /\ ctl.op = "cancel" /\ ctl.pc = "join"
  /\ Joined({"import", "pipe", "spawn"})
  /\ row' = [row EXCEPT ![ctl.run].status = CancelOutcome(ctl.run)]
  /\ ctl' = Idle
  /\ UNCHANGED <<life, event, cur, held, th, child, pipeline, queue, elig, overtaken>>

(***************************************************************************)
(* The thread of run o.                                                    *)
(***************************************************************************)
At(o, pc) == life # "down" /\ th[o].pc = pc
Goto(o, pc) == th' = [th EXCEPT ![o].pc = pc]
Unless(pc) == IF event THEN "close" ELSE pc
Frame == UNCHANGED <<life, event, ctl, cur, overtaken>>

(* _set_phase writes its status over any other.  Not every phase is a      *)
(* status: the mutant writes it as it comes.                               *)
MutantPhaseStatus(phase) == phase
PhaseStatus(phase) == IF phase \in Active THEN phase ELSE "running"
Phase(o, phase) == row' = [row EXCEPT ![o].status = PhaseStatus(phase)]

Begin(o) ==
  /\ At(o, "begin") /\ row[o].mode # "synthetic"
  /\ row' = [row EXCEPT ![o].status = "jobhunter_running", ![o].before = queue]
  /\ held' = o
  /\ Goto(o, "launch")
  /\ Frame /\ UNCHANGED <<child, pipeline, queue, elig>>

(* A synthetic run finds its queue in place.                               *)
BeginSynthetic(o) ==
  /\ At(o, "begin") /\ row[o].mode = "synthetic"
  /\ row' = [row EXCEPT ![o].status = PhaseStatus("verifying_queue"),
                         ![o].before = queue, ![o].exit = "ok"]
  /\ Goto(o, Unless("verify"))
  /\ Frame /\ UNCHANGED <<held, child, pipeline, queue, elig>>

Launch(o) ==
  /\ At(o, "launch")
  /\ child' = [child EXCEPT ![o].st = "running"]
  /\ Goto(o, "stamp")
  /\ Frame /\ UNCHANGED <<held, row, pipeline, queue, elig>>

(* Only the parallel mode catches a launch that fails.                     *)
LaunchFails(o) ==
  /\ "faults" \in Env
  /\ At(o, "launch")
  /\ Goto(o, IF row[o].mode = "parallel" THEN "fail" ELSE "raise")
  /\ Frame /\ UNCHANGED <<held, row, child, pipeline, queue, elig>>

(* The pid is recorded; in parallel mode a thread of its own waits on the  *)
(* child while this one goes on to the jobs that are there already.        *)
Stamp(o) ==
  /\ At(o, "stamp")
  /\ row' = [row EXCEPT ![o].pid = TRUE]
  /\ LET par == row[o].mode = "parallel"
     IN  /\ child' = IF par \/ ~event THEN [child EXCEPT ![o].wait = "wait"] ELSE child
         /\ th' = [th EXCEPT ![o].first = par,
                             ![o].pc = Unless(IF par THEN "phase" ELSE "wait")]
  /\ Frame /\ UNCHANGED <<held, pipeline, queue, elig>>

(***************************************************************************)
(* JobHunterRunner.wait and the record of the exit code, in the thread of  *)
(* a sequential run and in the waiting thread of a parallel one.           *)
(***************************************************************************)
Recorded(o, st) ==
  /\ child' = [Exited(child, o, st) EXCEPT ![o].wait = "done"]
  /\ row' = [row EXCEPT ![o].exit = st]
  /\ Frame /\ UNCHANGED <<held, th, pipeline, queue, elig>>

Waited(o) ==
  /\ life # "down" /\ child[o].wait = "wait"
  /\ child[o].st # "running"
  /\ Recorded(o, child[o].st)

(* The deadline passes after a poll that found the child running.          *)
TimeOut(o) ==
  /\ "timeouts" \in Env
  /\ life # "down" /\ child[o].wait = "wait" /\ child[o].st = "running"
  /\ child' = [child EXCEPT ![o].wait = "reap", ![o].timedout = TRUE]
  /\ Frame /\ UNCHANGED <<held, row, th, pipeline, queue, elig>>

Reap(o) ==
  /\ life # "down" /\ child[o].wait = "reap"
  /\ Recorded(o, IF child[o].st = "running" THEN "bad" ELSE child[o].st)

(***************************************************************************)
(* JobHunter is over.                                                      *)
(***************************************************************************)

(* Sequential: neither a failed nor a timed-out JobHunter is followed by   *)
(* an import.                                                              *)
AfterWait(o) ==
  /\ At(o, "wait") /\ child[o].wait = "done"
  /\ Goto(o, Unless(IF row[o].exit = "ok" /\ ~child[o].timedout THEN "verify" ELSE "fail"))
  /\ Frame /\ UNCHANGED <<held, row, child, pipeline, queue, elig>>

(* Parallel: the exit code is read from the latest row.  A failed          *)
(* JobHunter still waits for the first pass.                           *)
Succeeded == \E p \in Run : IsLatest(p) /\ row[p].exit = "ok"

AfterJoin(o) ==
  /\ At(o, "join") /\ child[o].wait = "done"
  /\ Goto(o, Unless(CASE Succeeded /\ th[o].started  -> "again"
                      [] Succeeded /\ ~th[o].started -> "verify"
                      [] ~Succeeded /\ th[o].started -> "drain"
                      [] OTHER                       -> "fail"))
  /\ Frame /\ UNCHANGED <<held, row, child, pipeline, queue, elig>>

(* The join of the waiting thread is bounded even if no timeout is set.    *)
JoinTimesOut(o) ==
  /\ "timeouts" \in Env
  /\ At(o, "join") /\ child[o].wait = "wait"
  /\ child' = Closed(child, o)
  /\ Frame /\ UNCHANGED <<held, row, th, pipeline, queue, elig>>

PhaseAgain(o) ==
  /\ At(o, "again")
  /\ Phase(o, "pipeline_running")
  /\ Goto(o, "poll")
  /\ Frame /\ UNCHANGED <<held, child, pipeline, queue, elig>>

(***************************************************************************)
(* Queue and import.                                                       *)
(***************************************************************************)

(* _was_queue_published compares the signatures of the latest row.  The    *)
(* mutant takes any file that is there for a new one.                      *)
MutantPublished(r) == \E p \in Run : IsLatest(p) /\ r[p].after # 0
Published(r) == \E p \in Run : IsLatest(p) /\ r[p].after # 0 /\ r[p].after # r[p].before

Verify(o) ==
  /\ At(o, "verify")
  /\ LET mode == row[o].mode
     IN  /\ row' = [row EXCEPT ![o].after = queue,
              ![o].status = IF mode = "sequential" THEN PhaseStatus("verifying_queue") ELSE @]
         /\ Goto(o, CASE mode = "synthetic"                          -> "stable"
                      [] mode = "sequential" /\ Published(row')   -> "stable"
                      [] mode = "parallel" /\ Published(row')     -> "snapshot"
                      [] OTHER                                       -> "close")
  /\ Frame /\ UNCHANGED <<held, child, pipeline, queue, elig>>

(* A cancel that comes during the wait for a stable file is a failure, one *)
(* that comes after it is not.                                             *)
Stable(o) ==
  /\ At(o, "stable")
  /\ \/ Goto(o, Unless("snapshot"))
     \/ (event \/ "faults" \in Env) /\ Goto(o, "fail")
  /\ Frame /\ UNCHANGED <<held, row, child, pipeline, queue, elig>>

Snapshot(o) ==
  /\ At(o, "snapshot")
  /\ th' = [th EXCEPT ![o].pc = "import", ![o].snap = elig]
  /\ Phase(o, "importing")
  /\ Frame /\ UNCHANGED <<held, child, pipeline, queue, elig>>

Import(o) ==
  /\ At(o, "import")
  /\ \E S \in SUBSET (Job \ elig) : elig' = elig \cup S
  /\ row' = [row EXCEPT ![o].imported = TRUE]
  /\ Goto(o, "evidence")
  /\ Frame /\ UNCHANGED <<held, child, pipeline, queue>>

(* Another import holds the lock, or the importer raises.                  *)
ImportFails(o) ==
  /\ "faults" \in Env
  /\ At(o, "import")
  /\ Goto(o, "fail")
  /\ Frame /\ UNCHANGED <<held, row, child, pipeline, queue, elig>>

(* The newly eligible jobs become the targets; sequential runs have none   *)
(* and take what is eligible.                                              *)
Evidence(o) ==
  /\ At(o, "evidence")
  /\ LET new == IF row[o].mode = "sequential" THEN {} ELSE elig \ th[o].snap
     IN  /\ row' = [row EXCEPT ![o].targets = new, ![o].left = new]
         /\ th' = [th EXCEPT ![o].batch = new, ![o].snap = {}, ![o].first = FALSE, ![o].pc =
              Unless(CASE row[o].mode = "sequential"             -> "phase"
                       [] row[o].mode = "parallel" /\ new # {}   -> "batch"
                       [] row[o].mode = "synthetic" /\ new # {}  -> "phase"
                       [] OTHER                                  -> "close")]
  /\ Frame /\ UNCHANGED <<held, child, pipeline, queue, elig>>

(***************************************************************************)
(* Pipeline passes.                                                        *)
(***************************************************************************)
LesserOf(a, b) == IF a < b THEN a ELSE b
Cut(S) == {B \in SUBSET S : Cardinality(B) = LesserOf(MaxJobs, Cardinality(S))}

(* ceil(targets / max_jobs) + 1                                            *)
MaxPasses(o) == (Cardinality(row[o].targets) + MaxJobs - 1) \div MaxJobs + 1

NextBatch(o) ==
  /\ At(o, "batch") /\ row[o].left # {} /\ ~event
  /\ \E B \in Cut(row[o].left) :
       th' = [th EXCEPT ![o].batch = B, ![o].pass = @ + 1,
                ![o].pc = IF th[o].pass + 1 > MaxPasses(o) THEN "fail" ELSE "phase"]
  /\ Frame /\ UNCHANGED <<held, row, child, pipeline, queue, elig>>

NoMoreBatches(o) ==
  /\ At(o, "batch") /\ (row[o].left = {} \/ event)
  /\ Goto(o, "close")
  /\ Frame /\ UNCHANGED <<held, row, child, pipeline, queue, elig>>

PhasePipe(o) ==
  /\ At(o, "phase")
  /\ Phase(o, "pipeline_running")
  /\ Goto(o, "pipe")
  /\ Frame /\ UNCHANGED <<held, child, pipeline, queue, elig>>

(* The row of the pipeline run is made before its worker is launched.      *)
StartPipe(o) ==
  /\ At(o, "pipe") /\ PipeFree
  /\ Goto(o, "spawn")
  /\ Frame /\ UNCHANGED <<held, row, child, queue, elig>>
  /\ Service!StartRun

Spawned(o) ==
  /\ At(o, "spawn")
  /\ th' = [th EXCEPT ![o].started = th[o].first, ![o].pc = IF th[o].first THEN "join" ELSE "poll"]
  /\ Frame /\ UNCHANGED <<held, row, child, pipeline, queue, elig>>

(* The first pass of a parallel run may fail to start, any other may not.  *)
Unstarted(o) == Goto(o, IF th[o].first THEN "join" ELSE "fail")

SpawnFails(o) ==
  /\ "faults" \in Env
  /\ At(o, "spawn")
  /\ Unstarted(o)
  /\ Frame /\ UNCHANGED <<held, row, child, queue, elig>>
  /\ Service!LaunchFails

(* A run that is active refuses another: the newest, or one from before a  *)
(* crash or a shutdown.                                                    *)
PipeRefused(o) ==
  /\ At(o, "pipe") /\ PipeFree
  /\ pipe = "running" \/ {"faults", "crash", "stop"} \cap Env # {}
  /\ Unstarted(o)
  /\ Frame /\ UNCHANGED <<held, row, child, pipeline, queue, elig>>

(* Where a wait goes on to when the pipeline is over; a cancelled pipeline *)
(* counts as a success.                                                    *)
AfterPass(o) ==
  IF th[o].pc = "drain" THEN "fail"
  ELSE IF th[o].first THEN "verify"
  ELSE IF row[o].mode = "sequential" THEN "close" ELSE "tally"

(* _wait_for_pipeline: the poll ends with the pipeline, with the event or  *)
(* after 300 s.  The mutant has no deadline, which a pipeline worker that  *)
(* died can keep waiting for ever.                                         *)
MutantDeadline == FALSE
Deadline == "timeouts" \in Env

PollEnds(o) ==
  \/ event /\ Goto(o, "close")
  \/ ~event /\ pipe \in {"idle", "completed", "cancelled"} /\ Goto(o, AfterPass(o))
  \/ ~event /\ pipe \in {"failed", "recovered"} /\ Goto(o, "fail")
  \/ ~event /\ Deadline /\ pipe = "running" /\ Goto(o, "fail")

Poll(o) ==
  /\ At(o, "poll") \/ At(o, "drain")
  /\ PollEnds(o)
  /\ Frame /\ UNCHANGED <<held, row, child, pipeline, queue, elig>>

(* What of a batch is still eligible made no progress: the run fails.  One *)
(* mutant stops there without a word, the other tries the batch again.     *)
MutantStops(o, left) == IF th[o].batch \cap left # {} THEN "close" ELSE "batch"
MutantRepeats(o, left) == "batch"
AfterTally(o, left) == IF th[o].batch \cap left # {} THEN "fail" ELSE "batch"

Tally(o) ==
  /\ At(o, "tally")
  /\ LET left == row[o].left \cap elig
     IN  /\ row' = [row EXCEPT ![o].left = left]
         /\ Goto(o, IF row[o].mode = "synthetic" THEN "close" ELSE AfterTally(o, left))
  /\ Frame /\ UNCHANGED <<held, child, pipeline, queue, elig>>

(***************************************************************************)
(* The end of the thread (_run).                                           *)
(***************************************************************************)
Fail(o) ==
  /\ \/ At(o, "fail") \/ At(o, "raise")
  /\ row' = [row EXCEPT ![o].status = "failed"]
  /\ th' = [th EXCEPT ![o].pc = "close", ![o].over = (th[o].pc = "raise")]
  /\ Frame /\ UNCHANGED <<held, child, pipeline, queue, elig>>

(* Whatever runner the service holds by now is closed.  The mutant closes  *)
(* none.                                                                   *)
MutantAtClose == child
AtClose == Closed(child, held)

Close(o) ==
  /\ At(o, "close")
  /\ child' = AtClose
  /\ th' = [th EXCEPT ![o] = [NoThread EXCEPT !.pc = IF th[o].over THEN "gone" ELSE "last"]]
  /\ Frame /\ UNCHANGED <<held, row, pipeline, queue, elig>>

(* A run without cancel completes if the latest row, which need not be its *)
(* own, is active.                                                         *)
Last(o) ==
  /\ At(o, "last")
  /\ Goto(o, IF ~event /\ \E p \in ActiveRuns : IsLatest(p) THEN "complete" ELSE "gone")
  /\ Frame /\ UNCHANGED <<held, row, child, pipeline, queue, elig>>

(* The mutant completes the row that was read.                             *)
MutantCompletes(o) == CHOOSE p \in Run : IsLatest(p)
Completes(o) == o

Complete(o) ==
  /\ At(o, "complete")
  /\ row' = [row EXCEPT ![Completes(o)].status = "completed"]
  /\ Goto(o, "gone")
  /\ Frame /\ UNCHANGED <<held, child, pipeline, queue, elig>>

(***************************************************************************)
(* The surroundings.                                                       *)
(***************************************************************************)
World == UNCHANGED <<life, event, ctl, cur, held, row, th, overtaken>>

(* JobHunter publishes its queue with one rename, and exits.               *)
Export(o) ==
  /\ child[o].st = "running" /\ ~child[o].exported
  /\ child' = [child EXCEPT ![o].exported = TRUE]
  /\ queue' = queue + 1
  /\ World /\ UNCHANGED <<pipeline, elig>>

ChildExits(o) ==
  /\ child[o].st = "running"
  /\ \E st \in {"ok", "bad"} : child' = Exited(child, o, st)
  /\ World /\ UNCHANGED <<pipeline, queue, elig>>

(* A pipeline worker, that of the newest run or one that was lost, has     *)
(* taken a job; the user sends one round again (the retry route).          *)
JobMoves ==
  /\ \E j \in Job :
       \/ elig' = elig \ {j}
       \/ j \in Retried /\ elig' = elig \cup {j}
  /\ World /\ UNCHANGED <<child, pipeline, queue>>

(* The worker of the newest run ends it, dies, or writes on after its run  *)
(* was taken from it.                                                      *)
WorkerMoves ==
  /\ World /\ UNCHANGED <<child, queue, elig>>
  /\ \/ \E s \in {"completed", "failed", "cancelled"} : Service!EndRun(s)
     \/ "kill" \in Env /\ Service!Die
     \/ Service!Revive

(* The user has the controls of the pipeline as well, and puts a queue in  *)
(* place.  A start of theirs whose launch fails looks like a worker that   *)
(* fails at once.                                                          *)
UserActs ==
  /\ "user" \in Env /\ life = "serving"
  /\ World /\ UNCHANGED <<child, elig>>
  /\ \/ PipeFree /\ (Service!StartRun \/ Service!Ask) /\ UNCHANGED queue
     \/ queue = 0 /\ queue' = 1 /\ UNCHANGED pipeline

UserAnswers ==
  /\ ctl.pc # "answer"
  /\ World /\ UNCHANGED <<child, queue, elig>>
  /\ Service!Answer

(* An orderly shutdown, when no request is left: it ends the pipeline      *)
(* worker and lets go of one that a thread launched meanwhile, and then    *)
(* ends the JobHunter process that the service holds.  The threads run on  *)
(* until the process is gone, and with it the reference to the runner.     *)
Stop ==
  /\ "stop" \in Env
  /\ Uncontrolled /\ ~asked
  /\ life' = "stopping"
  /\ UNCHANGED <<event, ctl, cur, held, row, th, child, queue, elig, overtaken>>
  /\ Service!Die \/ UNCHANGED pipeline

LosePipe ==
  /\ life = "stopping"
  /\ World /\ UNCHANGED <<child, queue, elig>>
  /\ Service!Lose

StopChild ==
  /\ life = "stopping"
  /\ life' = "stopped"
  /\ child' = Closed(child, held)
  /\ UNCHANGED <<event, ctl, cur, held, row, th, pipeline, queue, elig, overtaken>>

(* The process is gone, at the end of a shutdown or by a crash.            *)
Down ==
  /\ life = "stopped" \/ (life # "down" /\ "crash" \in Env)
  /\ life' = "down"
  /\ th' = [o \in Run |-> IF Alive(o) \/ (ctl.op = "start" /\ ctl.run = o)
                          THEN [NoThread EXCEPT !.pc = "lost"] ELSE th[o]]
  /\ child' = [o \in Run |-> [child[o] EXCEPT !.wait = "none"]]
  /\ event' = FALSE
  /\ ctl' = Idle
  /\ cur' = 0 /\ held' = 0
  /\ UNCHANGED <<row, queue, elig, overtaken>>
  /\ Service!GoDown

(* recover_on_startup: an active run is failed unless its recorded child   *)
(* is alive.  The mutant goes by the row alone.                            *)
MutantKept(o) == FALSE
Kept(o) == row[o].pid /\ child[o].st = "running"

Startup ==
  /\ life = "down"
  /\ life' = "serving"
  /\ row' = [o \in Run |-> IF o \in ActiveRuns /\ ~Kept(o)
                           THEN [row[o] EXCEPT !.status = "failed"] ELSE row[o]]
  /\ UNCHANGED <<event, ctl, cur, held, th, child, queue, elig, overtaken>>
  /\ Service!ComeUp

(***************************************************************************)
(* The specification.                                                      *)
(***************************************************************************)
ThreadStep(o) ==
  \/ Begin(o) \/ BeginSynthetic(o) \/ Launch(o) \/ LaunchFails(o) \/ Stamp(o)
  \/ AfterWait(o) \/ AfterJoin(o) \/ JoinTimesOut(o) \/ PhaseAgain(o)
  \/ Verify(o) \/ Stable(o) \/ Snapshot(o) \/ Import(o) \/ ImportFails(o) \/ Evidence(o)
  \/ NextBatch(o) \/ NoMoreBatches(o) \/ PhasePipe(o)
  \/ StartPipe(o) \/ Spawned(o) \/ SpawnFails(o) \/ PipeRefused(o)
  \/ Poll(o) \/ Tally(o) \/ Fail(o) \/ Close(o) \/ Last(o) \/ Complete(o)

WaiterStep(o) == Waited(o) \/ TimeOut(o) \/ Reap(o)

ServiceStep ==
  \/ \E o \in Run, m \in Modes : Start(o, m)
  \/ StartThread
  \/ \E o \in Run : CancelRead(o)
  \/ CancelMark \/ CancelPipe \/ CancelAnswer \/ CancelChild \/ CancelEnd

Next ==
  \/ ServiceStep
  \/ \E o \in Run : ThreadStep(o) \/ WaiterStep(o) \/ Export(o) \/ ChildExits(o)
  \/ JobMoves \/ WorkerMoves \/ UserActs \/ UserAnswers
  \/ Stop \/ LosePipe \/ StopChild \/ Down \/ Startup

Spec == Init /\ [][Next]_vars

(* The lock of the pipeline is held for a few transactions at a time, and  *)
(* whoever waits for it gets it.                                           *)
FairSpec ==
  /\ Spec /\ WF_vars(CancelAnswer \/ UserAnswers)
  /\ \A o \in Run :
       /\ WF_vars(ThreadStep(o)) /\ WF_vars(WaiterStep(o))
       /\ SF_vars(StartPipe(o) \/ PipeRefused(o))

(***************************************************************************)
(* What must hold.                                                         *)
(***************************************************************************)

(* Every variable has its type: in particular a phase that is no status is *)
(* not written as one (_set_phase), or its run would look like none.       *)
TypeOK ==
  /\ life \in {"serving", "stopping", "stopped", "down"}
  /\ event \in BOOLEAN
  /\ ctl \in Control /\ (ctl.op # "none" => ctl.run \in Run)
  /\ cur \in Run \cup {0} /\ held \in Run \cup {0}
  /\ row \in [Run -> Row]
  /\ th \in [Run -> Thread]
  /\ child \in [Run -> Child]
  /\ pipeline \in Pipe
  /\ queue \in Nat
  /\ elig \subseteq Job
  /\ overtaken \subseteq Run

(* Only one active orchestration run may exist (orchestration_service.py), *)
(* whatever thread, control and recovery write in whatever order.  The one *)
(* exception is a run whose thread still lived when a newer one was made:  *)
(* start takes the cancel event away from it.                              *)
OneActiveRun == \A o, p \in ActiveRuns \ overtaken : o = p

(* Two JobHunter processes never run at once, through crashes and          *)
(* restarts, unless one lost its API process before its pid was recorded,  *)
(* or the operator gave its run up (recover_on_startup).                   *)
OneJobHunter ==
  \A o, p \in Run : o # p /\ child[o].st = "running" /\ child[p].st = "running" =>
    \E x \in {o, p} : th[x].pc = "lost" /\ (~row[x].pid \/ row[x].status = "cancelled")

(* However a run ends, it leaves no JobHunter process behind: not when the *)
(* cancel came before the launch and found nothing to terminate, and not   *)
(* when the service replaced the runner (_run, finally).                   *)
NoOrphanChild == \A o \in Run : th[o].pc = "gone" => child[o].st # "running"

(* An active run blocks every start, so somebody must be about to end it:  *)
(* its thread, the control that works on it, or, for one whose child       *)
(* survived the API process, the operator.                                 *)
ActiveHasDriver ==
  life = "serving" =>
    \A o \in ActiveRuns \ overtaken :
      Alive(o) \/ ctl.run = o \/ (th[o].pc = "lost" /\ row[o].pid)

(* A run is completed only behind a JobHunter that exited with zero, and a *)
(* parallel one only when none of its targets is left over, whatever the   *)
(* pipeline and the user did to them meanwhile (_run_parallel).            *)
CompletedIsEarned ==
  \A o \in Run \ overtaken : row[o].status = "completed" =>
    /\ row[o].exit = "ok"
    /\ row[o].mode = "parallel" => row[o].left = {}

(* Nothing is imported behind a JobHunter that failed or did not publish,  *)
(* though the code asks the latest row and not the run (_run_sequential,   *)
(* _run_parallel, _was_queue_published).                                   *)
ImportIsBacked ==
  \A o \in Run \ overtaken : row[o].imported /\ row[o].mode # "synthetic" =>
    child[o].st = "ok" /\ row[o].after > row[o].before

(* Every pass but a failing last one takes a whole batch out of the        *)
(* targets, so the bound on the number of passes is never what ends a run  *)
(* (the no-progress check of _run_parallel).                               *)
PassesBounded ==
  \A o \in Run : row[o].mode = "parallel" /\ th[o].pass > 0 =>
    (th[o].pass - 1) * MaxJobs < Cardinality(row[o].targets)

(* A run that is over changes its status only through its own thread, if   *)
(* that is not at its end, or a cancel that found the run active.          *)
OverIsOver ==
  [][\A o \in Run :
       row[o].status \in Terminal /\ row'[o].status # row[o].status =>
         Alive(o) \/ ctl.run = o]_vars

(* Every run comes to an end, though the pipeline worker may be dead and   *)
(* JobHunter hang, given that JobHunter has a timeout (_wait_for_pipeline, *)
(* JobHunterRunner.wait).                                                  *)
ThreadEnds == \A o \in Run : Alive(o) ~> ~Alive(o)
=============================================================================
