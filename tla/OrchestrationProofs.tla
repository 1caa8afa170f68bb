------------------------ MODULE OrchestrationProofs ------------------------
(***************************************************************************)
(* Theorems about Orchestration, for every finite set of jobs, every       *)
(* number of runs, every size of a batch, all modes and all surroundings.  *)
(***************************************************************************)
EXTENDS Orchestration, FiniteSetTheorems, TLAPS

(***************************************************************************)
(* The inductive invariant, part by part.                                  *)
(***************************************************************************)

Present(o) == row[o].status # "absent"
Running(o) == child[o].st = "running"
Waiting(o) == child[o].wait \in {"wait", "reap"}

(* Runs are started one after the other; a control works on a run there    *)
(* is, with the event to match.                                            *)
ControlInv ==
  /\ \A o, p \in Run : p < o /\ Present(o) => Present(p)
  /\ ctl.op = "none" => ctl.run = 0
  /\ ctl.op # "none" => life = "serving" /\ Present(ctl.run)
  /\ ctl.op = "start" => ~ event /\ row[ctl.run].status = "running" /\ th[ctl.run].pc = "none"
  /\ ctl.op = "cancel" => event
  /\ held # 0 => th[held].pc # "lost"

(* A run that no newer one overtook is the newest if it is active, alive   *)
(* or in a control's hands.                                                *)
OrderAt(o) ==
  /\ ~ Present(o) => row[o] = NoRow /\ th[o].pc = "none"
  /\ th[o].pc = "none" => /\ th[o] = NoThread /\ o \notin overtaken
                          /\ Present(o) => ctl.op = "start" /\ ctl.run = o
                          /\ ~ row[o].imported /\ row[o].left = {} /\ row[o].exit = "none"
  /\ life = "down" => ~ Alive(o)
  /\ o \notin overtaken =>
       /\ o \in ActiveRuns \/ Alive(o) \/ ctl.run = o => IsLatest(o)
       /\ Alive(o) => cur = o

(* The positions of a thread whose JobHunter is over.                      *)
OverAt(o) ==
  \/ th[o].pc \in {"again", "verify", "stable", "snapshot", "import", "evidence", "batch", "tally",
                   "poll", "drain", "raise", "fail"}
  \/ th[o].pc \in {"phase", "pipe", "spawn"} /\ ~ th[o].first

(* A JobHunter that runs belongs to a live thread, and the service holds   *)
(* it, or to one that was lost.                                            *)
ChildAt(o) ==
  /\ th[o].pc \in {"none", "begin", "launch"} => child[o] = NoChild
  /\ th[o].pc = "stamp" => child[o].wait = "none" /\ child[o].st # "none"
  /\ child[o].wait = "done" => ~ Running(o)
  /\ Waiting(o) => child[o].st # "none"
  /\ OverAt(o) => ~ Running(o) /\ ~ Waiting(o)
  /\ th[o].pc \in {"last", "complete", "gone"} => ~ Running(o)
  /\ th[o].pc \in {"batch", "tally"} => ~ th[o].first
  /\ Alive(o) /\ (th[o].pc = "launch" \/ Running(o)) => held = o
  /\ Running(o) => Alive(o) \/ th[o].pc = "lost"

(* A run that is not active any more has no JobHunter, unless it lost its  *)
(* thread before the pid was recorded; nor has one that was overtaken.     *)
StatusAt(o) ==
  /\ Running(o) => \/ o \in ActiveRuns \/ row[o].status = "cancelled"
                   \/ th[o].pc = "lost" /\ ~ row[o].pid
  /\ Alive(o) /\ th[o].pc \notin {"close", "last", "complete"} =>
       row[o].status \notin {"failed", "completed"}
  /\ Alive(o) /\ row[o].status = "cancelled" =>
       ~ Running(o) /\ th[o].pc \notin {"begin", "launch", "stamp"}
  /\ o \in overtaken => ~ Running(o) /\ th[o].pc \notin {"begin", "launch", "stamp"}
  /\ ctl.op = "cancel" /\ ctl.pc = "join" /\ ctl.run = o /\ Alive(o) /\ Running(o) =>
       th[o].pc \in {"stamp", "close"}

(* Where a thread that sees the cancel event writes no active status again.*)
Quiet ==
  {"launch", "stamp", "wait", "join", "poll", "drain", "stable", "import", "evidence", "batch",
   "tally", "raise", "fail", "close", "last", "complete", "pipe", "spawn"}

(* A live thread that no control works on drives an active run, or is on   *)
(* its way out.                                                            *)
DriverAt(o) ==
  /\ th[o].over => th[o].pc = "close"
  /\ o \notin overtaken =>
       /\ Alive(o) /\ ctl.run # o =>
            \/ o \in ActiveRuns /\ ~ event /\ ~ th[o].over
            \/ o \notin ActiveRuns /\ (th[o].pc \in {"close", "last"} \/ (event /\ th[o].pc \in Quiet))
       /\ life # "down" /\ o \in ActiveRuns =>
            Alive(o) \/ ctl.run = o \/ (th[o].pc = "lost" /\ row[o].pid)

(* Before its targets are known a run has no pass behind it.               *)
NoTargetsAt(o) ==
  \/ th[o].pc \in {"none", "begin", "launch", "stamp", "wait", "join", "again", "verify", "stable",
                   "snapshot", "import", "evidence", "drain"}
  \/ th[o].pc \in {"phase", "pipe", "spawn", "poll"} /\ th[o].first

(* JobHunter exited with zero and nothing waits on it any more.            *)
Settled(o) == row[o].exit = "ok" /\ ~ Running(o) /\ ~ Waiting(o)
Earned(o) == Settled(o) /\ (row[o].mode = "parallel" => row[o].left = {})

OkAt(o) ==
  \/ th[o].pc \in {"again", "verify", "stable", "snapshot", "import", "evidence", "batch", "tally", "poll"}
  \/ th[o].pc \in {"phase", "pipe", "spawn"} /\ ~ th[o].first

(* What a run must have behind it at its positions, to complete in the end.*)
EarnedAt(o) ==
  /\ NoTargetsAt(o) => row[o].left = {} /\ th[o].pass = 0
  /\ o \notin overtaken =>
       /\ OkAt(o) => Settled(o)
       /\ th[o].pc \in {"close", "last"} /\ ~ event /\ o \in ActiveRuns => Earned(o)
       /\ th[o].pc = "complete" => Earned(o)
       /\ row[o].status = "completed" => Earned(o)

(* The signatures of the queue are in order, and a run past the check of   *)
(* the queue was entitled to pass it.                                      *)
BackedAt(o) ==
  /\ row[o].before =< queue /\ row[o].after =< queue
  /\ row[o].exit = "ok" /\ row[o].mode # "synthetic" => child[o].st = "ok"
  /\ th[o].pc \in {"none", "begin"} => ~ row[o].imported
  /\ o \notin overtaken /\ row[o].mode # "synthetic" =>
       (th[o].pc \in {"stable", "snapshot", "import"} \/ row[o].imported =>
          child[o].st = "ok" /\ row[o].after > row[o].before)

(* A pass has a whole batch of what was left, and every pass before it     *)
(* took as much out of the targets.                                        *)
PassAt(o) ==
  /\ th[o].pc \in {"join", "again"} => th[o].first
  /\ row[o].mode = "parallel" =>
       /\ th[o].pc = "batch" /\ row[o].left # {} =>
            th[o].pass * MaxJobs + Cardinality(row[o].left) =< Cardinality(row[o].targets)
       /\ th[o].pc \in {"phase", "pipe", "spawn", "poll", "tally"} /\ ~ th[o].first =>
            /\ row[o].left # {} /\ th[o].batch \in Cut(row[o].left) /\ th[o].pass > 0
            /\ (th[o].pass - 1) * MaxJobs + Cardinality(row[o].left) =< Cardinality(row[o].targets)
       /\ th[o].pass > 0 => (th[o].pass - 1) * MaxJobs < Cardinality(row[o].targets)


(* What must hold of a run wherever it is.                                 *)
RunSafe(o) == ChildAt(o) /\ StatusAt(o) /\ DriverAt(o) /\ EarnedAt(o) /\ BackedAt(o) /\ PassAt(o)
RunInv(o) == OrderAt(o) /\ RunSafe(o)
Inv == TypeOK /\ ControlInv /\ \A o \in Run : RunInv(o)

(***************************************************************************)
(* What a step does to a run, field by field.                              *)
(***************************************************************************)
RowBut(o, F) ==
  /\ row'[o].mode = row[o].mode
  /\ "status" \in F \/ row'[o].status = row[o].status
  /\ "pid" \in F \/ row'[o].pid = row[o].pid
  /\ "exit" \in F \/ row'[o].exit = row[o].exit
  /\ "before" \in F \/ row'[o].before = row[o].before
  /\ "after" \in F \/ row'[o].after = row[o].after
  /\ "imported" \in F \/ row'[o].imported = row[o].imported
  /\ "targets" \in F \/ (row'[o].targets = row[o].targets /\ row'[o].left = row[o].left)

ThBut(o, F) ==
  /\ "first" \in F \/ th'[o].first = th[o].first
  /\ "started" \in F \/ th'[o].started = th[o].started
  /\ "batch" \in F \/ th'[o].batch = th[o].batch
  /\ "pass" \in F \/ th'[o].pass = th[o].pass
  /\ "over" \in F \/ th'[o].over = th[o].over

(* The step of a thread leaves the controls and the other runs alone.      *)
Others(o) == \A p \in Run : p # o => th'[p] = th[p] /\ row'[p] = row[p]
Own(o) == /\ UNCHANGED <<life, event, ctl, cur, overtaken>> /\ Others(o)
          /\ th[o].first \in BOOLEAN /\ th[o].over \in BOOLEAN
          /\ queue \in Nat /\ row[o].before \in Nat /\ row[o].after \in Nat
          /\ row[o].status \in Active \cup Terminal \cup {"absent"}


(***************************************************************************)
(* Type correctness.                                                       *)
(***************************************************************************)
LEMMA TypeInit == Init => TypeOK
<1> SUFFICES ASSUME Init PROVE TypeOK
  OBVIOUS
<1>1. /\ NoRow \in Row /\ NoThread \in Thread /\ NoChild \in Child
  <2>1. NoRow \in Row
    BY DEF NoRow, Row, Mode
  <2>2. NoThread \in Thread /\ NoChild \in Child
    BY DEF NoThread, Thread, ThreadPc, NoChild, Child
  <2> QED BY <2>1, <2>2
<1>2. pipeline \in Pipe /\ ctl \in Control /\ ctl.op = "none"
  BY DEF Init, Service!ServiceInit, pipeline, Pipe, Idle, Control
<1> QED BY <1>1, <1>2 DEF Init, TypeOK

LEMMA ThTyped ==
  ASSUME TypeOK, NEW o \in Run, ThreadStep(o)
  PROVE  th' \in [Run -> Thread]
<1>1. /\ th \in [Run -> Thread] /\ row \in [Run -> Row] /\ elig \subseteq Job
      /\ th[o] \in Thread /\ row[o] \in Row
  BY DEF TypeOK
<1>2. ASSUME NEW pc \in ThreadPc, Goto(o, pc) PROVE th' \in [Run -> Thread]
  BY <1>1, <1>2 DEF Goto, Thread
<1>3. ASSUME NEW t \in Thread, th' = [th EXCEPT ![o] = t] PROVE th' \in [Run -> Thread]
  BY <1>1, <1>3
<1>4. CASE Begin(o) \/ BeginSynthetic(o) \/ Launch(o) \/ LaunchFails(o) \/ AfterWait(o) \/ AfterJoin(o)
  <2>1. \E pc \in ThreadPc : Goto(o, pc)
    BY <1>4 DEF Begin, BeginSynthetic, Launch, LaunchFails, AfterWait, AfterJoin, Unless, ThreadPc
  <2> QED BY <1>2, <2>1
<1>5. CASE PhaseAgain(o) \/ Verify(o) \/ Stable(o) \/ Import(o) \/ ImportFails(o) \/ NoMoreBatches(o)
  <2>1. \E pc \in ThreadPc : Goto(o, pc)
    BY <1>5 DEF PhaseAgain, Verify, Stable, Import, ImportFails, NoMoreBatches, Unless, ThreadPc
  <2> QED BY <1>2, <2>1
<1>6. CASE \/ PhasePipe(o) \/ StartPipe(o) \/ SpawnFails(o) \/ PipeRefused(o) \/ Poll(o) \/ Tally(o)
           \/ Last(o) \/ Complete(o)
  <2>1. \E pc \in ThreadPc : Goto(o, pc)
    BY <1>6
    DEF PhasePipe, StartPipe, SpawnFails, PipeRefused, Unstarted, Poll, PollEnds, AfterPass, Tally,
        AfterTally, Last, Complete, ThreadPc
  <2> QED BY <1>2, <2>1
<1>7. CASE JoinTimesOut(o)
  BY <1>1, <1>7 DEF JoinTimesOut
<1>8. CASE Stamp(o)
  <2> DEFINE par == row[o].mode = "parallel"
             pc == Unless(IF par THEN "phase" ELSE "wait")
  <2>1. th' = [th EXCEPT ![o] = [th[o] EXCEPT !.first = par, !.pc = pc]]
    BY <1>8 DEF Stamp
  <2>2. par \in BOOLEAN /\ pc \in ThreadPc
    BY DEF Unless, ThreadPc
  <2> HIDE DEF par, pc
  <2> QED BY <1>1, <2>1, <2>2 DEF Thread
<1>9. CASE Snapshot(o)
  <2>1. th' = [th EXCEPT ![o] = [th[o] EXCEPT !.pc = "import", !.snap = elig]]
    BY <1>9 DEF Snapshot
  <2> QED BY <1>1, <2>1 DEF Thread, ThreadPc
<1>10. CASE Evidence(o)
  <2> DEFINE new == IF row[o].mode = "sequential" THEN {} ELSE elig \ th[o].snap
             pc == Unless(CASE row[o].mode = "sequential"             -> "phase"
                            [] row[o].mode = "parallel" /\ new # {}   -> "batch"
                            [] row[o].mode = "synthetic" /\ new # {}  -> "phase"
                            [] OTHER                                  -> "close")
  <2>1. th' = [th EXCEPT ![o] = [th[o] EXCEPT !.batch = new, !.snap = {}, !.first = FALSE, !.pc = pc]]
    BY <1>10 DEF Evidence
  <2>2. new \in SUBSET Job /\ pc \in ThreadPc
    BY <1>1 DEF Unless, ThreadPc
  <2> HIDE DEF new, pc
  <2> QED BY <1>1, <2>1, <2>2 DEF Thread
<1>11. CASE NextBatch(o)
  <2> DEFINE pc == IF th[o].pass + 1 > MaxPasses(o) THEN "fail" ELSE "phase"
             n == th[o].pass + 1
  <2>1. PICK B \in Cut(row[o].left) :
          th' = [th EXCEPT ![o] = [th[o] EXCEPT !.batch = B, !.pass = n, !.pc = pc]]
    BY <1>11 DEF NextBatch
  <2>2. B \in SUBSET Job /\ pc \in ThreadPc /\ n \in Nat
    BY <1>1 DEF Cut, Row, Thread, ThreadPc
  <2> HIDE DEF pc, n
  <2> QED BY <1>1, <2>1, <2>2 DEF Thread
<1>12. CASE Spawned(o)
  <2>1. th' = [th EXCEPT ![o] = [th[o] EXCEPT !.started = th[o].first,
                                   !.pc = IF th[o].first THEN "join" ELSE "poll"]]
    BY <1>12 DEF Spawned
  <2> QED BY <1>1, <2>1 DEF Thread, ThreadPc
<1>13. CASE Fail(o)
  <2>1. th' = [th EXCEPT ![o] = [th[o] EXCEPT !.pc = "close", !.over = (th[o].pc = "raise")]]
    BY <1>13 DEF Fail
  <2> QED BY <1>1, <2>1 DEF Thread, ThreadPc
<1>14. CASE Close(o)
  BY <1>1, <1>14 DEF Close, NoThread, Thread, ThreadPc
<1> QED BY <1>4, <1>5, <1>6, <1>7, <1>8, <1>9, <1>10, <1>11, <1>12, <1>13, <1>14 DEF ThreadStep

LEMMA RowTyped ==
  ASSUME TypeOK, NEW o \in Run, ThreadStep(o)
  PROVE  row' \in [Run -> Row]
<1>1. /\ row \in [Run -> Row] /\ th \in [Run -> Thread] /\ elig \subseteq Job /\ queue \in Nat
      /\ row[o] \in Row
  BY DEF TypeOK
<1>2. ASSUME NEW r \in Row, row' = [row EXCEPT ![o] = r] PROVE row' \in [Run -> Row]
  BY <1>1, <1>2
<1>3. ASSUME NEW s \in Active \cup Terminal, row' = [row EXCEPT ![o].status = s] PROVE row' \in [Run -> Row]
  BY <1>1, <1>3 DEF Row
<1>4. CASE UNCHANGED row
  BY <1>1, <1>4
<1>5. CASE PhaseAgain(o) \/ Snapshot(o) \/ PhasePipe(o) \/ Fail(o) \/ Complete(o)
  <2>1. \E s \in Active \cup Terminal : row' = [row EXCEPT ![o].status = s]
    BY <1>5
    DEF PhaseAgain, Snapshot, PhasePipe, Phase, PhaseStatus, Fail, Complete, Completes, Active,
        Terminal
  <2> QED BY <1>3, <2>1
<1>6. CASE Begin(o)
  <2>1. row' = [row EXCEPT ![o] = [row[o] EXCEPT !.status = "jobhunter_running", !.before = queue]]
    BY <1>6 DEF Begin
  <2> QED BY <1>1, <2>1 DEF Row, Active
<1>7. CASE BeginSynthetic(o)
  <2>1. row' = [row EXCEPT ![o] = [row[o] EXCEPT !.status = PhaseStatus("verifying_queue"),
                                     !.before = queue, !.exit = "ok"]]
    BY <1>7 DEF BeginSynthetic
  <2> QED BY <1>1, <2>1 DEF Row, Active, PhaseStatus
<1>8. CASE Stamp(o)
  <2>1. row' = [row EXCEPT ![o] = [row[o] EXCEPT !.pid = TRUE]]
    BY <1>8 DEF Stamp
  <2> QED BY <1>1, <2>1 DEF Row
<1>9. CASE Verify(o)
  <2>1. \E s \in {"running", row[o].status} :
          row' = [row EXCEPT ![o] = [row[o] EXCEPT !.after = queue, !.status = s]]
    BY <1>9 DEF Verify, PhaseStatus, Active
  <2> QED BY <1>1, <1>2, <2>1 DEF Row, Active
<1>10. CASE Import(o)
  <2>1. row' = [row EXCEPT ![o] = [row[o] EXCEPT !.imported = TRUE]]
    BY <1>10 DEF Import
  <2> QED BY <1>1, <2>1 DEF Row
<1>11. CASE Evidence(o)
  <2>1. \E new \in SUBSET Job : row' = [row EXCEPT ![o] = [row[o] EXCEPT !.targets = new, !.left = new]]
    BY <1>1, <1>11 DEF Evidence
  <2> QED BY <1>1, <1>2, <2>1 DEF Row
<1>12. CASE Tally(o)
  <2>1. row' = [row EXCEPT ![o] = [row[o] EXCEPT !.left = @ \cap elig]]
    BY <1>12 DEF Tally
  <2> QED BY <1>1, <2>1 DEF Row
<1>13. CASE \/ Launch(o) \/ LaunchFails(o) \/ AfterWait(o) \/ AfterJoin(o) \/ JoinTimesOut(o)
            \/ Stable(o) \/ ImportFails(o) \/ NextBatch(o) \/ NoMoreBatches(o)
            \/ StartPipe(o) \/ Spawned(o) \/ SpawnFails(o) \/ PipeRefused(o) \/ Poll(o)
            \/ Close(o) \/ Last(o)
  BY <1>4, <1>13
  DEF Launch, LaunchFails, AfterWait, AfterJoin, JoinTimesOut, Stable, ImportFails, NextBatch,
      NoMoreBatches, StartPipe, Spawned, SpawnFails, PipeRefused, Poll, Close, Last
<1> QED BY <1>5, <1>6, <1>7, <1>8, <1>9, <1>10, <1>11, <1>12, <1>13 DEF ThreadStep

LEMMA ClosedTyped ==
  ASSUME child \in [Run -> Child], NEW h \in Run \cup {0}
  PROVE  Closed(child, h) \in [Run -> Child]
BY DEF Closed, Exited, Child

(* Whatever the pipeline service does keeps what it shows of its type.     *)
LEMMA PipeTyped ==
  ASSUME pipeline \in Pipe, Service!ServiceNext
  PROVE  pipeline' \in Pipe
BY DEF pipeline, Pipe, Service!ServiceNext, Service!StartRun, Service!LaunchFails, Service!Ask,
       Service!Answer, Service!EndRun, Service!Revive, Service!Die, Service!Lose, Service!GoDown,
       Service!ComeUp

LEMMA RestTyped ==
  ASSUME TypeOK, NEW o \in Run, ThreadStep(o)
  PROVE  /\ child' \in [Run -> Child] /\ pipeline' \in Pipe /\ elig' \subseteq Job
         /\ held' \in Run \cup {0} /\ UNCHANGED <<life, event, ctl, cur, overtaken, queue>>
<1>1. /\ child \in [Run -> Child] /\ pipeline \in Pipe /\ elig \subseteq Job /\ held \in Run \cup {0}
      /\ th[o] \in Thread /\ child[o] \in Child
  BY DEF TypeOK
<1>2. CASE Launch(o)
  BY <1>1, <1>2 DEF Launch, Frame, Child
<1>3. CASE Stamp(o)
  BY <1>1, <1>3 DEF Stamp, Frame, Child
<1>4. CASE JoinTimesOut(o) \/ Close(o)
  BY <1>1, <1>4, ClosedTyped DEF JoinTimesOut, Close, AtClose, Frame
<1>5. CASE StartPipe(o) \/ SpawnFails(o)
  <2>1. pipeline' \in Pipe
    BY <1>1, <1>5, PipeTyped DEF StartPipe, SpawnFails, Service!ServiceNext
  <2> QED BY <1>1, <1>5, <2>1 DEF StartPipe, SpawnFails, Frame
<1>6. CASE Import(o)
  BY <1>1, <1>6 DEF Import, Frame
<1>7. CASE Begin(o)
  BY <1>1, <1>7 DEF Begin, Frame
<1>8. CASE \/ BeginSynthetic(o) \/ LaunchFails(o) \/ AfterWait(o) \/ AfterJoin(o) \/ PhaseAgain(o)
           \/ Verify(o) \/ Stable(o) \/ Snapshot(o) \/ ImportFails(o) \/ Evidence(o) \/ NextBatch(o)
           \/ NoMoreBatches(o) \/ PhasePipe(o) \/ Spawned(o) \/ PipeRefused(o) \/ Poll(o) \/ Tally(o)
           \/ Fail(o) \/ Last(o) \/ Complete(o)
  <2>1. UNCHANGED <<life, event, ctl, cur, overtaken, held, child, pipeline, queue, elig>>
    BY <1>8
    DEF BeginSynthetic, LaunchFails, AfterWait, AfterJoin, PhaseAgain, Verify, Stable, Snapshot,
        ImportFails, Evidence, NextBatch, NoMoreBatches, PhasePipe, Spawned, PipeRefused, Poll,
        Tally, Fail, Last, Complete, Frame
  <2> QED BY <1>1, <2>1
<1> QED BY <1>2, <1>3, <1>4, <1>5, <1>6, <1>7, <1>8 DEF ThreadStep

LEMMA ThreadTyped ==
  ASSUME TypeOK, NEW o \in Run, ThreadStep(o)
  PROVE  TypeOK'
BY ThTyped, RowTyped, RestTyped DEF TypeOK

LEMMA TypeStep ==
  ASSUME TypeOK, [Next]_vars
  PROVE  TypeOK'
<1>1. /\ life \in {"serving", "stopping", "stopped", "down"} /\ event \in BOOLEAN
      /\ ctl \in Control /\ (ctl.op # "none" => ctl.run \in Run)
      /\ cur \in Run \cup {0} /\ held \in Run \cup {0} /\ row \in [Run -> Row] /\ th \in [Run -> Thread]
      /\ child \in [Run -> Child] /\ pipeline \in Pipe /\ queue \in Nat /\ elig \subseteq Job
      /\ overtaken \subseteq Run
  BY DEF TypeOK
<1>2. ASSUME NEW s \in Active \cup Terminal, NEW o \in Run, row' = [row EXCEPT ![o].status = s]
      PROVE  row' \in [Run -> Row]
  BY <1>1, <1>2 DEF Row
<1>3. ASSUME Service!ServiceNext \/ UNCHANGED pipeline PROVE pipeline' \in Pipe
  BY <1>1, <1>3, PipeTyped
<1>4. ASSUME NEW o \in Run, NEW m \in Modes, Start(o, m) PROVE TypeOK'
  <2>1. m \in Mode
    BY OrchestrationAssumption
  <2>2. row' = [row EXCEPT ![o] = [row[o] EXCEPT !.status = "running", !.mode = m]]
    BY <1>4 DEF Start
  <2>3. [row[o] EXCEPT !.status = "running", !.mode = m] \in Row
    <3>1. row[o] \in Row /\ "running" \in Active
      BY <1>1 DEF Active
    <3> QED BY <2>1, <3>1 DEF Row
  <2>4. ctl' \in Control /\ ctl'.run = o
    BY <1>4 DEF Start, Idle, Control
  <2>5. row' \in [Run -> Row]
    BY <1>1, <2>2, <2>3
  <2> QED BY <1>4, <2>4, <2>5 DEF Start, TypeOK
<1>5. CASE StartThread
  <2>1. ctl.run \in Run /\ Closed(child, held) \in [Run -> Child]
    BY <1>1, <1>5, ClosedTyped DEF StartThread
  <2>2. th' = [th EXCEPT ![ctl.run].pc = "begin"] /\ "begin" \in ThreadPc /\ th[ctl.run] \in Thread
    BY <1>1, <1>5 DEF StartThread, ThreadPc
  <2>3. Idle \in Control /\ Idle.op = "none"
    BY DEF Idle, Control
  <2>4. th' \in [Run -> Thread]
    BY <1>1, <2>2 DEF Thread
  <2> QED BY <1>5, <2>1, <2>3, <2>4 DEF StartThread, TypeOK
<1>6. ASSUME NEW o \in Run, CancelRead(o) PROVE TypeOK'
  BY <1>6 DEF CancelRead, TypeOK, Control
<1>7. ASSUME NEW pc, NEW next \in {"pipe", "answer", "child", "join"}, Cancelling(pc, next)
      PROVE  /\ ctl' \in Control /\ ctl'.run \in Run /\ ctl.run \in Run
             /\ UNCHANGED <<life, event, cur, held, th, queue, elig, overtaken>>
  BY <1>1, <1>7 DEF Cancelling, Control
<1>8. CASE CancelMark
  <2>1. row' \in [Run -> Row]
    BY <1>2, <1>7, <1>8 DEF CancelMark, Active
  <2> QED BY <1>7, <1>8, <2>1 DEF CancelMark, TypeOK
<1>9. CASE CancelPipe \/ CancelAnswer
  <2>1. pipeline' \in Pipe
    BY <1>3, <1>9 DEF CancelPipe, CancelAnswer, Service!ServiceNext
  <2>2. \E pc, next \in {"pipe", "answer", "child", "join"} : Cancelling(pc, next)
    BY <1>9 DEF CancelPipe, CancelAnswer
  <2> QED BY <1>1, <1>7, <1>9, <2>1, <2>2 DEF CancelPipe, CancelAnswer, TypeOK
<1>10. CASE CancelChild
  <2>1. ctl.run \in Run /\ child' \in [Run -> Child]
    BY <1>1, <1>7, <1>10, ClosedTyped DEF CancelChild
  <2>2. row' \in [Run -> Row]
    <3>1. [row[ctl.run] EXCEPT !.exit = "bad"] \in Row
      BY <1>1, <2>1 DEF Row
    <3> QED BY <1>1, <1>10, <2>1, <3>1 DEF CancelChild
  <2> QED BY <1>7, <1>10, <2>1, <2>2 DEF CancelChild, TypeOK
<1>11. CASE CancelEnd
  <2>1. row' \in [Run -> Row]
    BY <1>1, <1>2, <1>11 DEF CancelEnd, CancelOutcome, Terminal
  <2>2. Idle \in Control /\ Idle.op = "none"
    BY DEF Idle, Control
  <2> QED BY <1>11, <2>1, <2>2 DEF CancelEnd, TypeOK
<1>12. ASSUME NEW o \in Run, WaiterStep(o) PROVE TypeOK'
  <2>1. child[o] \in Child /\ row[o] \in Row
    BY <1>1
  <2>2. ASSUME NEW st \in {"ok", "bad", "none"}, Recorded(o, st) PROVE TypeOK'
    <3>1. /\ child' = [child EXCEPT ![o] = [child[o] EXCEPT !.st = st, !.exported = FALSE, !.wait = "done"]]
          /\ row' = [row EXCEPT ![o] = [row[o] EXCEPT !.exit = st]]
      BY <2>2 DEF Recorded, Exited
    <3>2. /\ [child[o] EXCEPT !.st = st, !.exported = FALSE, !.wait = "done"] \in Child
          /\ [row[o] EXCEPT !.exit = st] \in Row
      BY <2>1 DEF Child, Row
    <3>3. child' \in [Run -> Child] /\ row' \in [Run -> Row]
      BY <1>1, <3>1, <3>2
    <3> QED BY <2>2, <3>3 DEF Recorded, Frame, TypeOK
  <2>3. CASE Waited(o)
    BY <2>1, <2>2, <2>3 DEF Waited, Child
  <2>4. CASE Reap(o)
    BY <2>1, <2>2, <2>4 DEF Reap, Child
  <2>5. CASE TimeOut(o)
    <3>1. child' = [child EXCEPT ![o] = [child[o] EXCEPT !.wait = "reap", !.timedout = TRUE]]
      BY <2>5 DEF TimeOut
    <3>2. child' \in [Run -> Child]
      BY <1>1, <3>1 DEF Child
    <3> QED BY <2>5, <3>2 DEF TimeOut, Frame, TypeOK
  <2> QED BY <1>12, <2>3, <2>4, <2>5 DEF WaiterStep
<1>13. ASSUME NEW o \in Run, Export(o) \/ ChildExits(o) PROVE TypeOK'
  <2>1. CASE Export(o)
    <3>1. child' = [child EXCEPT ![o] = [child[o] EXCEPT !.exported = TRUE]] /\ queue' \in Nat
      BY <1>1, <2>1 DEF Export
    <3>2. child' \in [Run -> Child]
      BY <1>1, <3>1 DEF Child
    <3> QED BY <2>1, <3>2 DEF Export, World, TypeOK
  <2>2. CASE ChildExits(o)
    <3>1. PICK st \in {"ok", "bad"} :
            child' = [child EXCEPT ![o] = [child[o] EXCEPT !.st = st, !.exported = FALSE]]
      BY <2>2 DEF ChildExits, Exited
    <3>2. child' \in [Run -> Child]
      BY <1>1, <3>1 DEF Child
    <3> QED BY <2>2, <3>2 DEF ChildExits, World, TypeOK
  <2> QED BY <1>13, <2>1, <2>2
<1>14. CASE JobMoves
  BY <1>1, <1>14 DEF JobMoves, World, TypeOK
<1>15. CASE WorkerMoves \/ UserAnswers \/ LosePipe
  <2>1. pipeline' \in Pipe
    BY <1>3, <1>15 DEF WorkerMoves, UserAnswers, LosePipe, Service!ServiceNext
  <2> QED BY <1>15, <2>1 DEF WorkerMoves, UserAnswers, LosePipe, World, TypeOK
<1>16. CASE UserActs
  <2>1. pipeline' \in Pipe
    BY <1>3, <1>16 DEF UserActs, Service!ServiceNext
  <2>2. queue' \in Nat
    BY <1>1, <1>16 DEF UserActs
  <2> QED BY <1>16, <2>1, <2>2 DEF UserActs, World, TypeOK
<1>17. CASE Stop \/ StopChild
  <2>1. child' \in [Run -> Child]
    BY <1>1, <1>17, ClosedTyped DEF Stop, StopChild
  <2>2. pipeline' \in Pipe
    BY <1>3, <1>17 DEF Stop, StopChild, Service!ServiceNext
  <2> QED BY <1>17, <2>1, <2>2 DEF Stop, StopChild, TypeOK
<1>18. CASE Down
  <2>1. th' \in [Run -> Thread]
    BY <1>1, <1>18 DEF Down, NoThread, Thread, ThreadPc
  <2>2. child' \in [Run -> Child]
    BY <1>1, <1>18 DEF Down, Child
  <2>3. Idle \in Control /\ Idle.op = "none"
    BY DEF Idle, Control
  <2>4. pipeline' \in Pipe
    BY <1>3, <1>18 DEF Down, Service!ServiceNext
  <2> QED BY <1>18, <2>1, <2>2, <2>3, <2>4 DEF Down, TypeOK
<1>19. CASE Startup
  <2>1. \A r \in Row : [r EXCEPT !.status = "failed"] \in Row
    BY DEF Row, Terminal
  <2>2. row' \in [Run -> Row]
    BY <1>1, <1>19, <2>1 DEF Startup
  <2>3. pipeline' \in Pipe
    BY <1>3, <1>19 DEF Startup, Service!ServiceNext
  <2> QED BY <1>19, <2>2, <2>3 DEF Startup, TypeOK
<1>20. CASE UNCHANGED vars
  BY <1>20 DEF vars, TypeOK
<1> QED
  BY <1>4, <1>5, <1>6, <1>8, <1>9, <1>10, <1>11, <1>12, <1>13, <1>14, <1>15, <1>16, <1>17, <1>18,
     <1>19, <1>20, ThreadTyped
  DEF Next, ServiceStep

LEMMA GotoEffect ==
  ASSUME TypeOK, NEW o \in Run, NEW pc, Goto(o, pc)
  PROVE  th'[o].pc = pc /\ ThBut(o, {}) /\ (\A p \in Run : p # o => th'[p] = th[p])
BY DEF TypeOK, Goto, ThBut

LEMMA PhaseEffect ==
  ASSUME TypeOK, NEW o \in Run, NEW phase, Phase(o, phase)
  PROVE  row'[o].status = PhaseStatus(phase) /\ RowBut(o, {"status"})
         /\ (\A p \in Run : p # o => row'[p] = row[p])
BY DEF TypeOK, Phase, RowBut

LEMMA LatestUnique ==
  ASSUME TypeOK, NEW o \in Run, NEW p \in Run, IsLatest(o), IsLatest(p)
  PROVE  o = p
BY DEF IsLatest, Run

(* What a thread that no newer run overtook reads of the latest row is its *)
(* own.                                                                    *)
LEMMA OwnLatest ==
  ASSUME Inv, NEW o \in Run, Alive(o), o \notin overtaken
  PROVE  IsLatest(o) /\ \A p \in Run : IsLatest(p) => p = o
<1>1. IsLatest(o)
  BY DEF Inv, RunInv, OrderAt
<1> QED BY <1>1, LatestUnique DEF Inv

LEMMA ClosedEffect ==
  ASSUME child \in [Run -> Child], NEW h \in Run \cup {0}, child' = Closed(child, h)
  PROVE  \A p \in Run :
           /\ child'[p].wait = child[p].wait /\ child'[p].timedout = child[p].timedout
           /\ child'[p].st = IF p = h /\ Running(p) THEN "bad" ELSE child[p].st
           /\ p # h \/ ~ Running(p) => child'[p] = child[p]
<1>1. 0 \notin Run
  BY DEF Run
<1>2. CASE h # 0 /\ child[h].st = "running"
  BY <1>1 DEF Closed, Exited, Running
<1>3. CASE ~ (h # 0 /\ child[h].st = "running")
  BY <1>1, <1>3 DEF Closed, Running
<1> QED BY <1>2, <1>3

LEMMA FiniteJobs ==
  ASSUME NEW S \in SUBSET Job
  PROVE  IsFiniteSet(S) /\ Cardinality(S) \in Nat /\ (S # {} => Cardinality(S) > 0)
<1>1. IsFiniteSet(S)
  BY OrchestrationAssumption, FS_Subset
<1> QED BY <1>1, FS_CardinalityType, FS_EmptySet

(* Between them the other runs lose at most a JobHunter that is closed.    *)
Kid(p) ==
  child'[p] = child[p] \/ (Running(p) /\ child'[p].st = "bad" /\ child'[p].wait = child[p].wait)

Apart(o) ==
  /\ Own(o) /\ Alive(o) /\ th'[o].pc \notin {"none", "lost"}
  /\ row'[o].status = "absent" => row[o].status = "absent"
  /\ held' = held \/ (th[o].pc = "begin" /\ held' = o)
  /\ queue' = queue
  /\ \A p \in Run : p # o => Kid(p)


LEMMA BeginStep ==
  ASSUME Inv, NEW o \in Run, Begin(o)
  PROVE  RunSafe(o)' /\ Apart(o)
<1>1. /\ Own(o) /\ th[o].pc = "begin" /\ th'[o].pc = "launch" /\ ThBut(o, {})
      /\ row'[o].status = "jobhunter_running" /\ row'[o].before = queue /\ RowBut(o, {"status", "before"})
      /\ child' = child /\ held' = o /\ queue' = queue
  BY DEF TypeOK, Inv, Begin, At, Frame, RowBut, ThBut, Row, Thread, Own, Others, Goto
<1>2. OrderAt(o) /\ ChildAt(o) /\ StatusAt(o) /\ DriverAt(o) /\ EarnedAt(o) /\ BackedAt(o) /\ PassAt(o)
      /\ (ctl.op = "cancel" => event)
  BY DEF Inv, RunInv, RunSafe, ControlInv
<1>3. ChildAt(o)'
  BY <1>1, <1>2 DEF ChildAt, Alive, OverAt, Running, Waiting
<1>4. StatusAt(o)'
  BY <1>1, <1>2 DEF Own, ChildAt, StatusAt, ActiveRuns, Active, Running
<1>5. DriverAt(o)'
  BY <1>1, <1>2 DEF Own, ThBut, DriverAt, ActiveRuns, Active, Alive, Quiet
<1>6. EarnedAt(o)'
  BY <1>1, <1>2 DEF ThBut, RowBut, EarnedAt, NoTargetsAt, OkAt
<1>7. BackedAt(o)'
  BY <1>1, <1>2 DEF Own, RowBut, BackedAt
<1>8. PassAt(o)'
  BY <1>1, <1>2 DEF ThBut, RowBut, PassAt
<1>9. Apart(o)
  BY <1>1 DEF Apart, Kid, Alive
<1> QED BY <1>3, <1>4, <1>5, <1>6, <1>7, <1>8, <1>9 DEF RunSafe

LEMMA BeginSyntheticStep ==
  ASSUME Inv, NEW o \in Run, BeginSynthetic(o)
  PROVE  RunSafe(o)' /\ Apart(o)
<1>1. /\ Own(o) /\ th[o].pc = "begin" /\ th'[o].pc = Unless("verify") /\ ThBut(o, {})
      /\ row'[o].status = "running" /\ row'[o].before = queue /\ row'[o].exit = "ok" /\ RowBut(o, {"status", "before", "exit"})
      /\ child' = child /\ held' = held /\ queue' = queue
      /\ row[o].mode = "synthetic"
  BY DEF TypeOK, Inv, BeginSynthetic, At, Frame, RowBut, ThBut, Row, Thread, Own, Others, Goto,
      PhaseStatus, Active
<1>2. OrderAt(o) /\ ChildAt(o) /\ StatusAt(o) /\ DriverAt(o) /\ EarnedAt(o) /\ BackedAt(o) /\ PassAt(o)
      /\ (ctl.op = "cancel" => event)
  BY DEF Inv, RunInv, RunSafe, ControlInv
<1>3. ChildAt(o)'
  BY <1>1, <1>2 DEF ChildAt, Running, Waiting, NoChild, Unless
<1>4. StatusAt(o)'
  BY <1>1, <1>2 DEF Own, ChildAt, StatusAt, ActiveRuns, Active, Running
<1>5. DriverAt(o)'
  BY <1>1, <1>2 DEF Own, ThBut, DriverAt, ActiveRuns, Active, Alive, Quiet, Unless
<1>6. EarnedAt(o)'
  BY <1>1, <1>2
  DEF ThBut, RowBut, EarnedAt, ChildAt, NoTargetsAt, Settled, Earned, Running, Waiting, NoChild
<1>7. BackedAt(o)'
  BY <1>1, <1>2 DEF Own, RowBut, BackedAt
<1>8. PassAt(o)'
  BY <1>1 DEF RowBut, PassAt, Unless
<1>9. Apart(o)
  BY <1>1 DEF Apart, Kid, Unless, Alive
<1> QED BY <1>3, <1>4, <1>5, <1>6, <1>7, <1>8, <1>9 DEF RunSafe

LEMMA LaunchStep ==
  ASSUME Inv, NEW o \in Run, Launch(o)
  PROVE  RunSafe(o)' /\ Apart(o)
<1>1. /\ Own(o) /\ th[o].pc = "launch" /\ th'[o].pc = "stamp" /\ ThBut(o, {})
      /\ row'[o] = row[o]
      /\ child'[o].st = "running" /\ child'[o].wait = child[o].wait /\ held' = held /\ queue' = queue
      /\ \A p \in Run : p # o => Kid(p)
  BY DEF TypeOK, Inv, Launch, At, Frame, ThBut, Row, Thread, Own, Others, Goto, Kid
<1>2. OrderAt(o) /\ ChildAt(o) /\ StatusAt(o) /\ DriverAt(o) /\ EarnedAt(o) /\ BackedAt(o) /\ PassAt(o)
      /\ (ctl.op = "cancel" => event)
  BY DEF Inv, RunInv, RunSafe, ControlInv
<1>3. ChildAt(o)'
  BY <1>1, <1>2 DEF ChildAt, Alive, OverAt, NoChild
<1>4. StatusAt(o)'
  BY <1>1, <1>2 DEF Own, OrderAt, StatusAt, ActiveRuns, Alive, Present, Terminal
<1>5. DriverAt(o)'
  BY <1>1, <1>2 DEF Own, ThBut, DriverAt, ActiveRuns, Alive, Quiet
<1>6. EarnedAt(o)'
  BY <1>1, <1>2 DEF ThBut, EarnedAt, StatusAt, NoTargetsAt, OkAt, Alive
<1>7. BackedAt(o)'
  BY <1>1, <1>2 DEF Own, BackedAt, ChildAt, NoChild
<1>8. PassAt(o)'
  BY <1>1, <1>2 DEF ThBut, PassAt
<1>9. Apart(o)
  BY <1>1 DEF Apart, Alive
<1> QED BY <1>3, <1>4, <1>5, <1>6, <1>7, <1>8, <1>9 DEF RunSafe

LEMMA LaunchFailsStep ==
  ASSUME Inv, NEW o \in Run, LaunchFails(o)
  PROVE  RunSafe(o)' /\ Apart(o)
<1>1. /\ Own(o) /\ th[o].pc = "launch" /\ th'[o].pc \in {"fail", "raise"} /\ ThBut(o, {})
      /\ row'[o] = row[o]
      /\ child' = child /\ held' = held /\ queue' = queue
  BY DEF TypeOK, Inv, LaunchFails, At, Frame, ThBut, Row, Thread, Own, Others, Goto
<1>2. OrderAt(o) /\ ChildAt(o) /\ StatusAt(o) /\ DriverAt(o) /\ EarnedAt(o) /\ BackedAt(o) /\ PassAt(o)
      /\ (ctl.op = "cancel" => event)
  BY DEF Inv, RunInv, RunSafe, ControlInv
<1>3. ChildAt(o)'
  BY <1>1, <1>2 DEF ChildAt, Running, Waiting, NoChild
<1>4. StatusAt(o)'
  BY <1>1, <1>2 DEF Own, StatusAt, ActiveRuns, Alive, Running
<1>5. DriverAt(o)'
  BY <1>1, <1>2 DEF Own, ThBut, DriverAt, ActiveRuns, Alive, Quiet
<1>6. EarnedAt(o)'
  BY <1>1, <1>2 DEF Own, EarnedAt, NoTargetsAt, OkAt, Settled, Earned, Running, Waiting
<1>7. BackedAt(o)'
  BY <1>1, <1>2 DEF Own, BackedAt
<1>8. PassAt(o)'
  BY <1>1, <1>2 DEF ThBut, PassAt
<1>9. Apart(o)
  BY <1>1 DEF Apart, Kid, Alive
<1> QED BY <1>3, <1>4, <1>5, <1>6, <1>7, <1>8, <1>9 DEF RunSafe

LEMMA StampStep ==
  ASSUME Inv, NEW o \in Run, Stamp(o)
  PROVE  RunSafe(o)' /\ Apart(o)
<1>1. /\ Own(o) /\ th[o].pc = "stamp" /\ th'[o].pc = Unless(IF row[o].mode = "parallel" THEN "phase" ELSE "wait") /\ ThBut(o, {"first"})
      /\ row'[o].pid = TRUE /\ RowBut(o, {"pid"})
      /\ held' = held /\ queue' = queue /\ child'[o].st = child[o].st
      /\ th'[o].first = (row[o].mode = "parallel")
      /\ child'[o].wait = IF row[o].mode = "parallel" \/ ~ event THEN "wait" ELSE child[o].wait
      /\ \A p \in Run : p # o => Kid(p)
  BY DEF TypeOK, Inv, Stamp, At, Unless, Thread
<1>2. OrderAt(o) /\ ChildAt(o) /\ StatusAt(o) /\ DriverAt(o) /\ EarnedAt(o) /\ BackedAt(o) /\ PassAt(o)
      /\ (ctl.op = "cancel" => event)
  BY DEF Inv, RunInv, RunSafe, ControlInv
<1>3. ChildAt(o)'
  BY <1>1, <1>2 DEF ChildAt, Alive, OverAt, Running, Unless
<1>4. StatusAt(o)'
  BY <1>1, <1>2 DEF Own, RowBut, StatusAt, ActiveRuns, Alive, Running, Unless
<1>5. DriverAt(o)'
  BY <1>1, <1>2 DEF Own, ThBut, RowBut, DriverAt, ActiveRuns, Alive, Unless
<1>6. EarnedAt(o)'
  BY <1>1, <1>2 DEF Own, ThBut, RowBut, EarnedAt, StatusAt, NoTargetsAt, OkAt, Alive, Unless
<1>7. BackedAt(o)'
  BY <1>1, <1>2 DEF Own, RowBut, BackedAt, Unless
<1>8. PassAt(o)'
  BY <1>1, <1>2 DEF ThBut, RowBut, PassAt, Unless
<1>9. Apart(o)
  BY <1>1 DEF Apart, RowBut, Unless, Alive
<1> QED BY <1>3, <1>4, <1>5, <1>6, <1>7, <1>8, <1>9 DEF RunSafe

LEMMA AfterWaitStep ==
  ASSUME Inv, NEW o \in Run, AfterWait(o)
  PROVE  RunSafe(o)' /\ Apart(o)
<1>1. /\ Own(o) /\ th[o].pc = "wait" /\ th'[o].pc \in {"close", "verify", "fail"} /\ ThBut(o, {})
      /\ row'[o] = row[o]
      /\ child' = child /\ held' = held /\ queue' = queue
      /\ th'[o].pc = "verify" => row[o].exit = "ok"
      /\ child[o].wait = "done" /\ (event => th'[o].pc = "close")
      /\ ~ event => th'[o].pc # "close"
  BY DEF TypeOK, Inv, AfterWait, At, Frame, Unless, ThBut, Row, Thread, Own, Others, Goto
<1>2. OrderAt(o) /\ ChildAt(o) /\ StatusAt(o) /\ DriverAt(o) /\ EarnedAt(o) /\ BackedAt(o) /\ PassAt(o)
      /\ (ctl.op = "cancel" => event)
  BY DEF Inv, RunInv, RunSafe, ControlInv
<1>3. ChildAt(o)'
  BY <1>1, <1>2 DEF ChildAt, Running, Waiting
<1>4. StatusAt(o)'
  BY <1>1, <1>2 DEF ChildAt, StatusAt, Alive, Running
<1>5. DriverAt(o)'
  BY <1>1, <1>2 DEF Own, ThBut, DriverAt, ActiveRuns, Alive
<1>6. EarnedAt(o)'
  BY <1>1, <1>2
  DEF Own, ThBut, EarnedAt, ChildAt, NoTargetsAt, OkAt, Settled, Earned, Running, Waiting
<1>7. BackedAt(o)'
  BY <1>1, <1>2 DEF Own, BackedAt
<1>8. PassAt(o)'
  BY <1>1, <1>2 DEF ThBut, PassAt
<1>9. Apart(o)
  BY <1>1 DEF Apart, Kid, Alive
<1> QED BY <1>3, <1>4, <1>5, <1>6, <1>7, <1>8, <1>9 DEF RunSafe

LEMMA AfterJoinStep ==
  ASSUME Inv, NEW o \in Run, AfterJoin(o)
  PROVE  RunSafe(o)' /\ Apart(o)
<1>1. /\ Own(o) /\ th[o].pc = "join" /\ th'[o].pc \in {"close", "again", "verify", "drain", "fail"} /\ ThBut(o, {})
      /\ row'[o] = row[o]
      /\ child' = child /\ held' = held /\ queue' = queue
      /\ th'[o].pc \in {"again", "verify"} => Succeeded
      /\ child[o].wait = "done" /\ (event <=> th'[o].pc = "close")
  BY DEF TypeOK, Inv, AfterJoin, At, Frame, Unless, ThBut, Row, Thread, Own, Others, Goto
<1>2. OrderAt(o) /\ ChildAt(o) /\ StatusAt(o) /\ DriverAt(o) /\ EarnedAt(o) /\ BackedAt(o) /\ PassAt(o)
      /\ (ctl.op = "cancel" => event)
  BY DEF Inv, RunInv, RunSafe, ControlInv
<1>3. ChildAt(o)'
  BY <1>1, <1>2 DEF ChildAt, Running, Waiting
<1>4. StatusAt(o)'
  BY <1>1, <1>2 DEF ChildAt, StatusAt, Alive, Running
<1>5. DriverAt(o)'
  BY <1>1, <1>2 DEF Own, ThBut, DriverAt, ActiveRuns, Alive
<1>6. EarnedAt(o)'
  <2>1. o \notin overtaken /\ Succeeded => row[o].exit = "ok"
    BY <1>1, OwnLatest DEF Succeeded, Alive
  <2> QED BY <1>1, <1>2, <2>1
          DEF Own, ThBut, EarnedAt, ChildAt, NoTargetsAt, OkAt, Settled, Earned, Running, Waiting
<1>7. BackedAt(o)'
  BY <1>1, <1>2 DEF Own, BackedAt
<1>8. PassAt(o)'
  BY <1>1, <1>2 DEF ThBut, PassAt
<1>9. Apart(o)
  BY <1>1 DEF Apart, Kid, Alive
<1> QED BY <1>3, <1>4, <1>5, <1>6, <1>7, <1>8, <1>9 DEF RunSafe

LEMMA JoinTimesOutStep ==
  ASSUME Inv, NEW o \in Run, JoinTimesOut(o)
  PROVE  RunSafe(o)' /\ Apart(o)
<1>1. /\ Own(o) /\ th[o].pc = "join" /\ th' = th
      /\ row'[o] = row[o]
      /\ held' = held /\ queue' = queue /\ child' = Closed(child, o)
      /\ child'[o].wait = child[o].wait /\ child'[o].st = IF Running(o) THEN "bad" ELSE child[o].st
      /\ ThBut(o, {})
      /\ \A p \in Run : p # o => Kid(p)
  <2>1. /\ Own(o) /\ th[o].pc = "join" /\ th' = th /\ ThBut(o, {}) /\ row'[o] = row[o]
        /\ held' = held /\ queue' = queue /\ child' = Closed(child, o) /\ child \in [Run -> Child]
    BY DEF TypeOK, Inv, JoinTimesOut, At, Frame, Row, Thread, Own, Others, ThBut
  <2> QED BY <2>1, ClosedEffect DEF Kid
<1>2. OrderAt(o) /\ ChildAt(o) /\ StatusAt(o) /\ DriverAt(o) /\ EarnedAt(o) /\ BackedAt(o) /\ PassAt(o)
      /\ (ctl.op = "cancel" => event)
  BY DEF Inv, RunInv, RunSafe, ControlInv
<1>3. ChildAt(o)'
  BY <1>1, <1>2 DEF ChildAt, OverAt, Running, Waiting
<1>4. StatusAt(o)'
  BY <1>1, <1>2 DEF StatusAt, Alive, Running
<1>5. DriverAt(o)'
  BY <1>1, <1>2 DEF Own, DriverAt, ActiveRuns, Alive
<1>6. EarnedAt(o)'
  BY <1>1, <1>2 DEF Own, EarnedAt, NoTargetsAt, OkAt, Settled, Earned, Running, Waiting
<1>7. BackedAt(o)'
  BY <1>1, <1>2 DEF Own, BackedAt, Running
<1>8. PassAt(o)'
  BY <1>1, <1>2 DEF PassAt
<1>9. Apart(o)
  BY <1>1 DEF Apart, Alive
<1> QED BY <1>3, <1>4, <1>5, <1>6, <1>7, <1>8, <1>9 DEF RunSafe

LEMMA PhaseAgainStep ==
  ASSUME Inv, NEW o \in Run, PhaseAgain(o)
  PROVE  RunSafe(o)' /\ Apart(o)
<1>1. /\ Own(o) /\ th[o].pc = "again" /\ th'[o].pc = "poll" /\ ThBut(o, {})
      /\ row'[o].status = "pipeline_running" /\ RowBut(o, {"status"})
      /\ child' = child /\ held' = held /\ queue' = queue
  BY DEF TypeOK, Inv, PhaseAgain, At, Frame, RowBut, ThBut, Row, Thread, Own, Others, Goto, Phase,
      PhaseStatus, Active
<1>2. OrderAt(o) /\ ChildAt(o) /\ StatusAt(o) /\ DriverAt(o) /\ EarnedAt(o) /\ BackedAt(o) /\ PassAt(o)
      /\ (ctl.op = "cancel" => event)
  BY DEF Inv, RunInv, RunSafe, ControlInv
<1>3. ChildAt(o)'
  BY <1>1, <1>2 DEF ChildAt, OverAt, Running, Waiting
<1>4. StatusAt(o)'
  BY <1>1, <1>2 DEF Own, ChildAt, StatusAt, ActiveRuns, Active, Running
<1>5. DriverAt(o)'
  BY <1>1, <1>2 DEF Own, ThBut, DriverAt, ActiveRuns, Active, Alive, Quiet
<1>6. EarnedAt(o)'
  BY <1>1, <1>2 DEF Own, ThBut, RowBut, EarnedAt, NoTargetsAt, OkAt, Settled, Running, Waiting
<1>7. BackedAt(o)'
  BY <1>1, <1>2 DEF Own, RowBut, BackedAt
<1>8. PassAt(o)'
  BY <1>1, <1>2 DEF ThBut, RowBut, PassAt
<1>9. Apart(o)
  BY <1>1 DEF Apart, Kid, Alive
<1> QED BY <1>3, <1>4, <1>5, <1>6, <1>7, <1>8, <1>9 DEF RunSafe

LEMMA VerifyStep ==
  ASSUME Inv, NEW o \in Run, Verify(o)
  PROVE  RunSafe(o)' /\ Apart(o)
<1>1. /\ Own(o) /\ th[o].pc = "verify" /\ th'[o].pc \in {"stable", "snapshot", "close"} /\ ThBut(o, {})
      /\ row'[o].status \in {"running", row[o].status} /\ row'[o].after = queue /\ RowBut(o, {"status", "after"})
      /\ child' = child /\ held' = held /\ queue' = queue
      /\ th'[o].pc # "close" /\ row[o].mode # "synthetic" => Published(row')
  BY DEF TypeOK, Inv, Verify, At, Frame, RowBut, ThBut, Row, Thread, Own, Others, Goto
<1>2. OrderAt(o) /\ ChildAt(o) /\ StatusAt(o) /\ DriverAt(o) /\ EarnedAt(o) /\ BackedAt(o) /\ PassAt(o)
      /\ (ctl.op = "cancel" => event)
  BY DEF Inv, RunInv, RunSafe, ControlInv
<1>3. ChildAt(o)'
  BY <1>1, <1>2 DEF ChildAt, OverAt, Running, Waiting
<1>4. StatusAt(o)'
  BY <1>1, <1>2 DEF Own, StatusAt, ActiveRuns, Active, Alive, Running
<1>5. DriverAt(o)'
  BY <1>1, <1>2 DEF Own, ThBut, DriverAt, ActiveRuns, Active, Alive, Quiet
<1>6. EarnedAt(o)'
  BY <1>1, <1>2
  DEF Own, ThBut, RowBut, EarnedAt, NoTargetsAt, OkAt, Settled, Earned, Running, Waiting
<1>7. BackedAt(o)'
  <2>1. o \notin overtaken /\ Published(row') => row'[o].after # row'[o].before
    BY <1>1, OwnLatest DEF Published, Alive
  <2>2. o \notin overtaken /\ row[o].mode # "synthetic" => child[o].st = "ok"
    BY <1>1, <1>2 DEF EarnedAt, OkAt, Settled, BackedAt
  <2> QED BY <1>1, <1>2, <2>1, <2>2 DEF Own, RowBut, BackedAt
<1>8. PassAt(o)'
  BY <1>1, <1>2 DEF ThBut, RowBut, PassAt
<1>9. Apart(o)
  BY <1>1 DEF Apart, Kid, Alive
<1> QED BY <1>3, <1>4, <1>5, <1>6, <1>7, <1>8, <1>9 DEF RunSafe

LEMMA StableStep ==
  ASSUME Inv, NEW o \in Run, Stable(o)
  PROVE  RunSafe(o)' /\ Apart(o)
<1>1. /\ Own(o) /\ th[o].pc = "stable" /\ th'[o].pc \in {"close", "snapshot", "fail"} /\ ThBut(o, {})
      /\ row'[o] = row[o]
      /\ child' = child /\ held' = held /\ queue' = queue
      /\ (event => th'[o].pc # "snapshot") /\ (th'[o].pc = "close" => event)
  BY DEF TypeOK, Inv, Stable, At, Frame, Unless, ThBut, Row, Thread, Own, Others, Goto
<1>2. OrderAt(o) /\ ChildAt(o) /\ StatusAt(o) /\ DriverAt(o) /\ EarnedAt(o) /\ BackedAt(o) /\ PassAt(o)
      /\ (ctl.op = "cancel" => event)
  BY DEF Inv, RunInv, RunSafe, ControlInv
<1>3. ChildAt(o)'
  BY <1>1, <1>2 DEF ChildAt, OverAt, Running, Waiting
<1>4. StatusAt(o)'
  BY <1>1, <1>2 DEF Own, StatusAt, ActiveRuns, Alive, Running
<1>5. DriverAt(o)'
  BY <1>1, <1>2 DEF Own, ThBut, DriverAt, ActiveRuns, Alive, Quiet
<1>6. EarnedAt(o)'
  BY <1>1, <1>2 DEF Own, ThBut, EarnedAt, NoTargetsAt, OkAt, Settled, Earned, Running, Waiting
<1>7. BackedAt(o)'
  BY <1>1, <1>2 DEF Own, BackedAt
<1>8. PassAt(o)'
  BY <1>1, <1>2 DEF ThBut, PassAt
<1>9. Apart(o)
  BY <1>1 DEF Apart, Kid, Alive
<1> QED BY <1>3, <1>4, <1>5, <1>6, <1>7, <1>8, <1>9 DEF RunSafe

LEMMA SnapshotStep ==
  ASSUME Inv, NEW o \in Run, Snapshot(o)
  PROVE  RunSafe(o)' /\ Apart(o)
<1>1. /\ Own(o) /\ th[o].pc = "snapshot" /\ th'[o].pc = "import" /\ ThBut(o, {})
      /\ row'[o].status = "importing" /\ RowBut(o, {"status"})
      /\ child' = child /\ held' = held /\ queue' = queue
  BY DEF TypeOK, Inv, Snapshot, At, Frame, RowBut, ThBut, Row, Thread, Own, Others, Phase,
      PhaseStatus, Active
<1>2. OrderAt(o) /\ ChildAt(o) /\ StatusAt(o) /\ DriverAt(o) /\ EarnedAt(o) /\ BackedAt(o) /\ PassAt(o)
      /\ (ctl.op = "cancel" => event)
  BY DEF Inv, RunInv, RunSafe, ControlInv
<1>3. ChildAt(o)'
  BY <1>1, <1>2 DEF ChildAt, OverAt, Running, Waiting
<1>4. StatusAt(o)'
  BY <1>1, <1>2 DEF Own, ChildAt, StatusAt, ActiveRuns, Active, Running
<1>5. DriverAt(o)'
  BY <1>1, <1>2 DEF Own, ThBut, DriverAt, ActiveRuns, Active, Alive, Quiet
<1>6. EarnedAt(o)'
  BY <1>1, <1>2 DEF Own, ThBut, RowBut, EarnedAt, NoTargetsAt, OkAt, Settled, Running, Waiting
<1>7. BackedAt(o)'
  BY <1>1, <1>2 DEF Own, RowBut, BackedAt
<1>8. PassAt(o)'
  BY <1>1, <1>2 DEF ThBut, RowBut, PassAt
<1>9. Apart(o)
  BY <1>1 DEF Apart, Kid, Alive
<1> QED BY <1>3, <1>4, <1>5, <1>6, <1>7, <1>8, <1>9 DEF RunSafe

LEMMA ImportStep ==
  ASSUME Inv, NEW o \in Run, Import(o)
  PROVE  RunSafe(o)' /\ Apart(o)
<1>1. /\ Own(o) /\ th[o].pc = "import" /\ th'[o].pc = "evidence" /\ ThBut(o, {})
      /\ row'[o].imported = TRUE /\ RowBut(o, {"imported"})
      /\ child' = child /\ held' = held /\ queue' = queue
  BY DEF TypeOK, Inv, Import, At, Frame, RowBut, ThBut, Row, Thread, Own, Others, Goto
<1>2. OrderAt(o) /\ ChildAt(o) /\ StatusAt(o) /\ DriverAt(o) /\ EarnedAt(o) /\ BackedAt(o) /\ PassAt(o)
      /\ (ctl.op = "cancel" => event)
  BY DEF Inv, RunInv, RunSafe, ControlInv
<1>3. ChildAt(o)'
  BY <1>1, <1>2 DEF ChildAt, OverAt, Running, Waiting
<1>4. StatusAt(o)'
  BY <1>1, <1>2 DEF Own, RowBut, StatusAt, ActiveRuns, Alive, Running
<1>5. DriverAt(o)'
  BY <1>1, <1>2 DEF Own, ThBut, RowBut, DriverAt, ActiveRuns, Alive, Quiet
<1>6. EarnedAt(o)'
  BY <1>1, <1>2
  DEF Own, ThBut, RowBut, EarnedAt, NoTargetsAt, OkAt, Settled, Earned, Running, Waiting
<1>7. BackedAt(o)'
  BY <1>1, <1>2 DEF Own, RowBut, BackedAt
<1>8. PassAt(o)'
  BY <1>1, <1>2 DEF ThBut, RowBut, PassAt
<1>9. Apart(o)
  BY <1>1 DEF Apart, RowBut, Kid, Alive
<1> QED BY <1>3, <1>4, <1>5, <1>6, <1>7, <1>8, <1>9 DEF RunSafe

LEMMA ImportFailsStep ==
  ASSUME Inv, NEW o \in Run, ImportFails(o)
  PROVE  RunSafe(o)' /\ Apart(o)
<1>1. /\ Own(o) /\ th[o].pc = "import" /\ th'[o].pc = "fail" /\ ThBut(o, {})
      /\ row'[o] = row[o]
      /\ child' = child /\ held' = held /\ queue' = queue
  BY DEF TypeOK, Inv, ImportFails, At, Frame, ThBut, Row, Thread, Own, Others, Goto
<1>2. OrderAt(o) /\ ChildAt(o) /\ StatusAt(o) /\ DriverAt(o) /\ EarnedAt(o) /\ BackedAt(o) /\ PassAt(o)
      /\ (ctl.op = "cancel" => event)
  BY DEF Inv, RunInv, RunSafe, ControlInv
<1>3. ChildAt(o)'
  BY <1>1, <1>2 DEF ChildAt, OverAt, Running, Waiting
<1>4. StatusAt(o)'
  BY <1>1, <1>2 DEF Own, StatusAt, ActiveRuns, Alive, Running
<1>5. DriverAt(o)'
  BY <1>1, <1>2 DEF Own, ThBut, DriverAt, ActiveRuns, Alive, Quiet
<1>6. EarnedAt(o)'
  BY <1>1, <1>2 DEF Own, EarnedAt, NoTargetsAt, OkAt, Settled, Earned, Running, Waiting
<1>7. BackedAt(o)'
  BY <1>1, <1>2 DEF Own, BackedAt
<1>8. PassAt(o)'
  BY <1>1, <1>2 DEF ThBut, PassAt
<1>9. Apart(o)
  BY <1>1 DEF Apart, Kid, Alive
<1> QED BY <1>3, <1>4, <1>5, <1>6, <1>7, <1>8, <1>9 DEF RunSafe

LEMMA EvidenceStep ==
  ASSUME Inv, NEW o \in Run, Evidence(o)
  PROVE  RunSafe(o)' /\ Apart(o)
<1>1. /\ Own(o) /\ th[o].pc = "evidence" /\ th'[o].pc \in {"close", "phase", "batch"} /\ ThBut(o, {"batch", "first"})
      /\ row'[o].left = row'[o].targets /\ RowBut(o, {"targets"})
      /\ child' = child /\ held' = held /\ queue' = queue
      /\ ~ th'[o].first
      /\ event => th'[o].pc = "close"
      /\ row[o].mode = "parallel" /\ th'[o].pc = "close" /\ ~ event => row'[o].left = {}
      /\ row[o].mode = "parallel" => th'[o].pc # "phase"
      /\ row'[o].targets \subseteq Job
  BY DEF TypeOK, Inv, Evidence, At, Unless, Thread
<1>2. OrderAt(o) /\ ChildAt(o) /\ StatusAt(o) /\ DriverAt(o) /\ EarnedAt(o) /\ BackedAt(o) /\ PassAt(o)
      /\ (ctl.op = "cancel" => event)
  BY DEF Inv, RunInv, RunSafe, ControlInv
<1>3. ChildAt(o)'
  BY <1>1, <1>2 DEF ChildAt, OverAt, Running, Waiting
<1>4. StatusAt(o)'
  BY <1>1, <1>2 DEF Own, RowBut, StatusAt, ActiveRuns, Alive, Running
<1>5. DriverAt(o)'
  BY <1>1, <1>2 DEF Own, ThBut, RowBut, DriverAt, ActiveRuns, Alive
<1>6. EarnedAt(o)'
  BY <1>1, <1>2
  DEF Own, RowBut, EarnedAt, StatusAt, NoTargetsAt, OkAt, Settled, Earned, Running, Waiting, Alive
<1>7. BackedAt(o)'
  BY <1>1, <1>2 DEF Own, RowBut, BackedAt
<1>8. PassAt(o)'
  <2>1. Cardinality(row'[o].targets) \in Nat /\ 0 * MaxJobs = 0 /\ MaxJobs \in Nat
    BY <1>1, FiniteJobs, OrchestrationAssumption
  <2>2. th'[o].pass = 0
    BY <1>1, <1>2 DEF EarnedAt, NoTargetsAt, ThBut
  <2>3. th'[o].pass * MaxJobs + Cardinality(row'[o].left) = Cardinality(row'[o].targets)
    BY <1>1, <2>1, <2>2
  <2> QED BY <1>1, <2>1, <2>2 DEF RowBut, PassAt
<1>9. Apart(o)
  BY <1>1 DEF Apart, RowBut, Kid, Alive
<1> QED BY <1>3, <1>4, <1>5, <1>6, <1>7, <1>8, <1>9 DEF RunSafe

LEMMA NextBatchStep ==
  ASSUME Inv, NEW o \in Run, NextBatch(o)
  PROVE  RunSafe(o)' /\ Apart(o)
<1>1. /\ Own(o) /\ th[o].pc = "batch" /\ th'[o].pc \in {"fail", "phase"} /\ ThBut(o, {"batch", "pass"})
      /\ row'[o] = row[o]
      /\ child' = child /\ held' = held /\ queue' = queue
      /\ ~ event /\ row[o].left # {}
      /\ th'[o].batch \in Cut(row[o].left)
      /\ th'[o].pass = th[o].pass + 1 /\ th[o].pass \in Nat
  BY DEF TypeOK, Inv, NextBatch, Thread
<1>2. OrderAt(o) /\ ChildAt(o) /\ StatusAt(o) /\ DriverAt(o) /\ EarnedAt(o) /\ BackedAt(o) /\ PassAt(o)
      /\ (ctl.op = "cancel" => event)
  BY DEF Inv, RunInv, RunSafe, ControlInv
<1>3. ChildAt(o)'
  BY <1>1, <1>2 DEF ChildAt, OverAt, Running, Waiting
<1>4. StatusAt(o)'
  BY <1>1, <1>2 DEF Own, StatusAt, ActiveRuns, Alive, Running
<1>5. DriverAt(o)'
  BY <1>1, <1>2 DEF Own, ThBut, DriverAt, ActiveRuns, Alive
<1>6. EarnedAt(o)'
  BY <1>1, <1>2
  DEF Own, ThBut, EarnedAt, ChildAt, NoTargetsAt, OkAt, Settled, Earned, Running, Waiting
<1>7. BackedAt(o)'
  BY <1>1, <1>2 DEF Own, BackedAt
<1>8. PassAt(o)'
  <2> DEFINE n == th[o].pass
             left == Cardinality(row[o].left)
             all == Cardinality(row[o].targets)
  <2>1. row[o].left \in SUBSET Job /\ row[o].targets \in SUBSET Job
    BY DEF Inv, TypeOK, Row
  <2>2. n \in Nat /\ left \in Nat /\ left > 0 /\ all \in Nat /\ MaxJobs \in Nat /\ n * MaxJobs \in Nat
    BY <1>1, <2>1, FiniteJobs, OrchestrationAssumption
  <2>3. th'[o].pass = n + 1 /\ th'[o].pass > 0 /\ th'[o].pass - 1 = n
    BY <1>1
  <2>4. row[o].mode = "parallel" => n * MaxJobs + left =< all
    BY <1>1, <1>2 DEF PassAt
  <2>5. row[o].mode = "parallel" => n * MaxJobs < all
    BY <2>2, <2>4
  <2> HIDE DEF n, left, all
  <2> QED BY <1>1, <2>3, <2>4, <2>5 DEF PassAt, left, all
<1>9. Apart(o)
  BY <1>1 DEF Apart, Kid, Alive
<1> QED BY <1>3, <1>4, <1>5, <1>6, <1>7, <1>8, <1>9 DEF RunSafe

LEMMA NoMoreBatchesStep ==
  ASSUME Inv, NEW o \in Run, NoMoreBatches(o)
  PROVE  RunSafe(o)' /\ Apart(o)
<1>1. /\ Own(o) /\ th[o].pc = "batch" /\ th'[o].pc = "close" /\ ThBut(o, {})
      /\ row'[o] = row[o]
      /\ child' = child /\ held' = held /\ queue' = queue
      /\ event \/ row[o].left = {}
  BY DEF TypeOK, Inv, NoMoreBatches, At, Frame, ThBut, Row, Thread, Own, Others, Goto
<1>2. OrderAt(o) /\ ChildAt(o) /\ StatusAt(o) /\ DriverAt(o) /\ EarnedAt(o) /\ BackedAt(o) /\ PassAt(o)
      /\ (ctl.op = "cancel" => event)
  BY DEF Inv, RunInv, RunSafe, ControlInv
<1>3. ChildAt(o)'
  BY <1>1, <1>2 DEF ChildAt, OverAt, Running, Waiting
<1>4. StatusAt(o)'
  BY <1>1, <1>2 DEF Own, ChildAt, StatusAt, ActiveRuns, Running
<1>5. DriverAt(o)'
  BY <1>1, <1>2 DEF Own, ThBut, DriverAt, ActiveRuns, Alive
<1>6. EarnedAt(o)'
  BY <1>1, <1>2 DEF Own, EarnedAt, NoTargetsAt, OkAt, Settled, Earned, Running, Waiting
<1>7. BackedAt(o)'
  BY <1>1, <1>2 DEF Own, BackedAt
<1>8. PassAt(o)'
  BY <1>1, <1>2 DEF ThBut, PassAt
<1>9. Apart(o)
  BY <1>1 DEF Apart, Kid, Alive
<1> QED BY <1>3, <1>4, <1>5, <1>6, <1>7, <1>8, <1>9 DEF RunSafe

LEMMA PhasePipeStep ==
  ASSUME Inv, NEW o \in Run, PhasePipe(o)
  PROVE  RunSafe(o)' /\ Apart(o)
<1>1. /\ Own(o) /\ th[o].pc = "phase" /\ th'[o].pc = "pipe" /\ ThBut(o, {})
      /\ row'[o].status = "pipeline_running" /\ RowBut(o, {"status"})
      /\ child' = child /\ held' = held /\ queue' = queue
  BY DEF TypeOK, Inv, PhasePipe, At, Frame, RowBut, ThBut, Row, Thread, Own, Others, Goto, Phase,
      PhaseStatus, Active
<1>2. OrderAt(o) /\ ChildAt(o) /\ StatusAt(o) /\ DriverAt(o) /\ EarnedAt(o) /\ BackedAt(o) /\ PassAt(o)
      /\ (ctl.op = "cancel" => event)
  BY DEF Inv, RunInv, RunSafe, ControlInv
<1>3. ChildAt(o)'
  BY <1>1, <1>2 DEF ThBut, ChildAt, Alive, OverAt, Running, Waiting
<1>4. StatusAt(o)'
  BY <1>1, <1>2 DEF Own, ChildAt, StatusAt, ActiveRuns, Active, Running
<1>5. DriverAt(o)'
  BY <1>1, <1>2 DEF Own, ThBut, DriverAt, ActiveRuns, Active, Alive, Quiet
<1>6. EarnedAt(o)'
  BY <1>1, <1>2 DEF Own, ThBut, RowBut, EarnedAt, NoTargetsAt, OkAt, Settled, Running, Waiting
<1>7. BackedAt(o)'
  BY <1>1, <1>2 DEF Own, RowBut, BackedAt
<1>8. PassAt(o)'
  BY <1>1, <1>2 DEF ThBut, RowBut, PassAt
<1>9. Apart(o)
  BY <1>1 DEF Apart, Kid, Alive
<1> QED BY <1>3, <1>4, <1>5, <1>6, <1>7, <1>8, <1>9 DEF RunSafe

LEMMA StartPipeStep ==
  ASSUME Inv, NEW o \in Run, StartPipe(o)
  PROVE  RunSafe(o)' /\ Apart(o)
<1>1. /\ Own(o) /\ th[o].pc = "pipe" /\ th'[o].pc = "spawn" /\ ThBut(o, {})
      /\ row'[o] = row[o]
      /\ child' = child /\ held' = held /\ queue' = queue
  BY DEF TypeOK, Inv, StartPipe, At, Frame, ThBut, Row, Thread, Own, Others, Goto
<1>2. OrderAt(o) /\ ChildAt(o) /\ StatusAt(o) /\ DriverAt(o) /\ EarnedAt(o) /\ BackedAt(o) /\ PassAt(o)
      /\ (ctl.op = "cancel" => event)
  BY DEF Inv, RunInv, RunSafe, ControlInv
<1>3. ChildAt(o)'
  BY <1>1, <1>2 DEF ThBut, ChildAt, Alive, OverAt, Running, Waiting
<1>4. StatusAt(o)'
  BY <1>1, <1>2 DEF Own, StatusAt, ActiveRuns, Alive, Running
<1>5. DriverAt(o)'
  BY <1>1, <1>2 DEF Own, ThBut, DriverAt, ActiveRuns, Alive, Quiet
<1>6. EarnedAt(o)'
  BY <1>1, <1>2 DEF Own, ThBut, EarnedAt, NoTargetsAt, OkAt, Settled, Earned, Running, Waiting
<1>7. BackedAt(o)'
  BY <1>1, <1>2 DEF Own, BackedAt
<1>8. PassAt(o)'
  BY <1>1, <1>2 DEF ThBut, PassAt
<1>9. Apart(o)
  BY <1>1 DEF Apart, Kid, Alive
<1> QED BY <1>3, <1>4, <1>5, <1>6, <1>7, <1>8, <1>9 DEF RunSafe

LEMMA SpawnedStep ==
  ASSUME Inv, NEW o \in Run, Spawned(o)
  PROVE  RunSafe(o)' /\ Apart(o)
<1>1. /\ Own(o) /\ th[o].pc = "spawn" /\ th'[o].pc = (IF th[o].first THEN "join" ELSE "poll") /\ ThBut(o, {"started"})
      /\ row'[o] = row[o]
      /\ child' = child /\ held' = held /\ queue' = queue
  BY DEF TypeOK, Inv, Spawned, At, Frame, ThBut, Row, Thread, Own, Others
<1>2. OrderAt(o) /\ ChildAt(o) /\ StatusAt(o) /\ DriverAt(o) /\ EarnedAt(o) /\ BackedAt(o) /\ PassAt(o)
      /\ (ctl.op = "cancel" => event)
  BY DEF Inv, RunInv, RunSafe, ControlInv
<1>3. ChildAt(o)'
  BY <1>1, <1>2 DEF ChildAt, Alive, OverAt, Running, Waiting
<1>4. StatusAt(o)'
  BY <1>1, <1>2 DEF Own, StatusAt, ActiveRuns, Alive, Running
<1>5. DriverAt(o)'
  BY <1>1, <1>2 DEF Own, ThBut, DriverAt, ActiveRuns, Alive, Quiet
<1>6. EarnedAt(o)'
  BY <1>1, <1>2 DEF Own, ThBut, EarnedAt, NoTargetsAt, OkAt, Settled, Earned, Running, Waiting
<1>7. BackedAt(o)'
  BY <1>1, <1>2 DEF Own, BackedAt
<1>8. PassAt(o)'
  BY <1>1, <1>2 DEF ThBut, PassAt
<1>9. Apart(o)
  BY <1>1 DEF Apart, Kid, Alive
<1> QED BY <1>3, <1>4, <1>5, <1>6, <1>7, <1>8, <1>9 DEF RunSafe

LEMMA UnstartedStep ==
  ASSUME Inv, NEW o \in Run, SpawnFails(o) \/ PipeRefused(o)
  PROVE  RunSafe(o)' /\ Apart(o)
<1>1. /\ Own(o) /\ th[o].pc \in {"pipe", "spawn"} /\ ThBut(o, {})
      /\ th'[o].pc = (IF th[o].first THEN "join" ELSE "fail")
      /\ row'[o] = row[o]
      /\ child' = child /\ held' = held /\ queue' = queue
  BY DEF TypeOK, Inv, SpawnFails, PipeRefused, Unstarted, At, Frame, ThBut, Row, Thread, Own, Others, Goto
<1>2. OrderAt(o) /\ ChildAt(o) /\ StatusAt(o) /\ DriverAt(o) /\ EarnedAt(o) /\ BackedAt(o) /\ PassAt(o)
      /\ (ctl.op = "cancel" => event)
  BY DEF Inv, RunInv, RunSafe, ControlInv
<1>3. ChildAt(o)'
  BY <1>1, <1>2 DEF ChildAt, Alive, OverAt, Running, Waiting
<1>4. StatusAt(o)'
  BY <1>1, <1>2 DEF Own, StatusAt, ActiveRuns, Alive, Running
<1>5. DriverAt(o)'
  BY <1>1, <1>2 DEF Own, ThBut, DriverAt, ActiveRuns, Alive, Quiet
<1>6. EarnedAt(o)'
  BY <1>1, <1>2 DEF Own, ThBut, EarnedAt, NoTargetsAt, OkAt, Settled, Earned, Running, Waiting
<1>7. BackedAt(o)'
  BY <1>1, <1>2 DEF Own, BackedAt
<1>8. PassAt(o)'
  BY <1>1, <1>2 DEF ThBut, PassAt
<1>9. Apart(o)
  BY <1>1 DEF Apart, Kid, Alive
<1> QED BY <1>3, <1>4, <1>5, <1>6, <1>7, <1>8, <1>9 DEF RunSafe

LEMMA PollStep ==
  ASSUME Inv, NEW o \in Run, Poll(o)
  PROVE  RunSafe(o)' /\ Apart(o)
<1>1. /\ Own(o) /\ th[o].pc \in {"poll", "drain"} /\ ThBut(o, {})
      /\ th'[o].pc \in {"close", "fail", "verify", "tally"}
      /\ row'[o] = row[o]
      /\ child' = child /\ held' = held /\ queue' = queue
      /\ event => th'[o].pc = "close"
      /\ ~ event /\ th'[o].pc = "close" => th[o].pc = "poll" /\ row[o].mode = "sequential"
      /\ th'[o].pc = "verify" => th[o].pc = "poll" /\ th[o].first
      /\ th'[o].pc = "tally" => th[o].pc = "poll" /\ ~ th[o].first
  BY DEF TypeOK, Inv, Poll, At, Frame, ThBut, Row, Thread, Own, Others, Goto, PollEnds, AfterPass
<1>2. OrderAt(o) /\ ChildAt(o) /\ StatusAt(o) /\ DriverAt(o) /\ EarnedAt(o) /\ BackedAt(o) /\ PassAt(o)
      /\ (ctl.op = "cancel" => event)
  BY DEF Inv, RunInv, RunSafe, ControlInv
<1>3. ChildAt(o)'
  BY <1>1, <1>2 DEF ThBut, ChildAt, OverAt, Running, Waiting
<1>4. StatusAt(o)'
  BY <1>1, <1>2 DEF Own, StatusAt, ActiveRuns, Alive, Running
<1>5. DriverAt(o)'
  BY <1>1, <1>2 DEF Own, ThBut, DriverAt, ActiveRuns, Alive
<1>6. EarnedAt(o)'
  BY <1>1, <1>2 DEF Own, ThBut, EarnedAt, NoTargetsAt, OkAt, Settled, Earned, Running, Waiting
<1>7. BackedAt(o)'
  BY <1>1, <1>2 DEF Own, BackedAt
<1>8. PassAt(o)'
  BY <1>1, <1>2 DEF ThBut, PassAt
<1>9. Apart(o)
  BY <1>1 DEF Apart, Kid, Alive
<1> QED BY <1>3, <1>4, <1>5, <1>6, <1>7, <1>8, <1>9 DEF RunSafe

LEMMA TallyStep ==
  ASSUME Inv, NEW o \in Run, Tally(o)
  PROVE  RunSafe(o)' /\ Apart(o)
<1>1. /\ Own(o) /\ th[o].pc = "tally" /\ th'[o].pc \in {"close", "fail", "batch"} /\ ThBut(o, {})
      /\ row'[o].left = row[o].left \cap elig /\ row'[o].targets = row[o].targets /\ RowBut(o, {"targets"})
      /\ child' = child /\ held' = held /\ queue' = queue
      /\ th'[o].pc = "close" => row[o].mode = "synthetic"
      /\ th'[o].pc = "batch" => th[o].batch \cap row'[o].left = {}
      /\ row[o].left \subseteq Job /\ row[o].targets \subseteq Job /\ th[o].pass \in Nat
  BY DEF TypeOK, Inv, Tally, At, Frame, RowBut, ThBut, Row, Thread, Own, Others, Goto, AfterTally
<1>2. OrderAt(o) /\ ChildAt(o) /\ StatusAt(o) /\ DriverAt(o) /\ EarnedAt(o) /\ BackedAt(o) /\ PassAt(o)
      /\ (ctl.op = "cancel" => event)
  BY DEF Inv, RunInv, RunSafe, ControlInv
<1>3. ChildAt(o)'
  BY <1>1, <1>2 DEF ThBut, ChildAt, OverAt, Running, Waiting
<1>4. StatusAt(o)'
  BY <1>1, <1>2 DEF Own, RowBut, StatusAt, ActiveRuns, Alive, Running
<1>5. DriverAt(o)'
  BY <1>1, <1>2 DEF Own, ThBut, RowBut, DriverAt, ActiveRuns, Alive, Quiet
<1>6. EarnedAt(o)'
  BY <1>1, <1>2 DEF Own, RowBut, EarnedAt, NoTargetsAt, OkAt, Settled, Earned, Running, Waiting
<1>7. BackedAt(o)'
  BY <1>1, <1>2 DEF Own, RowBut, BackedAt
<1>8. PassAt(o)'
  <2> DEFINE n == th[o].pass
             b == Cardinality(th[o].batch)
             left == Cardinality(row[o].left)
             after == Cardinality(row'[o].left)
             all == Cardinality(row[o].targets)
  <2>1. row[o].left \in SUBSET Job /\ row'[o].left \in SUBSET Job /\ n \in Nat /\ MaxJobs \in Nat \ {0}
    BY <1>1, OrchestrationAssumption
  <2>2. CASE row[o].mode # "parallel" \/ th'[o].pc # "batch" \/ row'[o].left = {}
    BY <1>1, <1>2, <2>2 DEF RowBut, ThBut, PassAt
  <2>3. CASE row[o].mode = "parallel" /\ th'[o].pc = "batch" /\ row'[o].left # {}
    <3>1. /\ th[o].batch \in SUBSET row[o].left /\ b = LesserOf(MaxJobs, left) /\ n > 0
          /\ (n - 1) * MaxJobs + left =< all
      BY <1>1, <1>2, <2>3 DEF PassAt, ChildAt, Cut
    <3>2. /\ IsFiniteSet(row[o].left) /\ IsFiniteSet(th[o].batch)
          /\ left \in Nat /\ after \in Nat /\ b \in Nat /\ all \in Nat
      BY <1>1, <3>1, FiniteJobs
    <3>3. row'[o].left \subseteq row[o].left \ th[o].batch
      BY <1>1, <2>3
    <3>4. /\ IsFiniteSet(row[o].left \ th[o].batch)
          /\ Cardinality(row[o].left \ th[o].batch) = left - Cardinality(row[o].left \cap th[o].batch)
      BY <3>2, FS_Difference
    <3>5. row[o].left \cap th[o].batch = th[o].batch
      BY <3>1
    <3>6. after =< left - b
      <4>1. after =< Cardinality(row[o].left \ th[o].batch)
        BY <3>3, <3>4, FS_Subset
      <4>2. Cardinality(row[o].left \ th[o].batch) = left - b
        BY <3>4, <3>5
      <4> QED BY <4>1, <4>2
    <3>7. after > 0
      BY <2>1, <2>3, FiniteJobs
    <3>8. b = MaxJobs
      BY <3>1, <3>2, <3>6, <3>7 DEF LesserOf
    <3>9. n * MaxJobs = (n - 1) * MaxJobs + MaxJobs
      BY <2>1
    <3>10. n * MaxJobs + after =< all
      BY <2>1, <3>1, <3>2, <3>6, <3>8
    <3> HIDE DEF n, b, left, after, all
    <3> QED BY <1>1, <1>2, <2>3, <3>10 DEF ThBut, PassAt, n, after, all
  <2> QED BY <2>2, <2>3
<1>9. Apart(o)
  BY <1>1 DEF Apart, RowBut, Kid, Alive
<1> QED BY <1>3, <1>4, <1>5, <1>6, <1>7, <1>8, <1>9 DEF RunSafe

LEMMA FailStep ==
  ASSUME Inv, NEW o \in Run, Fail(o)
  PROVE  RunSafe(o)' /\ Apart(o)
<1>1. /\ Own(o) /\ th[o].pc \in {"fail", "raise"} /\ th'[o].pc = "close" /\ ThBut(o, {"over"})
      /\ row'[o].status = "failed" /\ RowBut(o, {"status"})
      /\ child' = child /\ held' = held /\ queue' = queue
  BY DEF TypeOK, Inv, Fail, At, Frame, RowBut, ThBut, Row, Thread, Own, Others
<1>2. OrderAt(o) /\ ChildAt(o) /\ StatusAt(o) /\ DriverAt(o) /\ EarnedAt(o) /\ BackedAt(o) /\ PassAt(o)
      /\ (ctl.op = "cancel" => event)
  BY DEF Inv, RunInv, RunSafe, ControlInv
<1>3. ChildAt(o)'
  BY <1>1, <1>2 DEF ChildAt, OverAt, Running, Waiting
<1>4. StatusAt(o)'
  BY <1>1, <1>2 DEF ChildAt, StatusAt, OverAt, Running
<1>5. DriverAt(o)'
  BY <1>1 DEF DriverAt, ActiveRuns, Active
<1>6. EarnedAt(o)'
  BY <1>1 DEF EarnedAt, NoTargetsAt, OkAt, ActiveRuns, Active
<1>7. BackedAt(o)'
  BY <1>1, <1>2 DEF Own, RowBut, BackedAt
<1>8. PassAt(o)'
  BY <1>1, <1>2 DEF ThBut, RowBut, PassAt
<1>9. Apart(o)
  BY <1>1 DEF Apart, Kid, Alive
<1> QED BY <1>3, <1>4, <1>5, <1>6, <1>7, <1>8, <1>9 DEF RunSafe

LEMMA CloseStep ==
  ASSUME Inv, NEW o \in Run, Close(o)
  PROVE  RunSafe(o)' /\ Apart(o)
<1>1. /\ Own(o) /\ th[o].pc = "close" /\ th'[o].pc \in {"last", "gone"} /\ ThBut(o, {"first", "started", "batch", "pass", "over"})
      /\ row'[o] = row[o]
      /\ held' = held /\ queue' = queue
      /\ th'[o].pc = (IF th[o].over THEN "gone" ELSE "last")
      /\ ~ th'[o].first /\ ~ th'[o].over /\ th'[o].pass = 0 /\ th'[o].batch = {}
      /\ child'[o].wait = child[o].wait
      /\ child'[o].st = IF held = o /\ Running(o) THEN "bad" ELSE child[o].st
      /\ \A p \in Run : p # o => Kid(p)
  <2>1. /\ Own(o) /\ th[o].pc = "close" /\ ThBut(o, {"first", "started", "batch", "pass", "over"})
        /\ row'[o] = row[o] /\ held' = held /\ queue' = queue
        /\ th'[o].pc = (IF th[o].over THEN "gone" ELSE "last")
        /\ ~ th'[o].first /\ ~ th'[o].over /\ th'[o].pass = 0 /\ th'[o].batch = {}
    BY DEF TypeOK, Inv, Close, At, Frame, Row, Thread, NoThread, Own, Others, ThBut
  <2>2. child' = Closed(child, held) /\ child \in [Run -> Child] /\ held \in Run \cup {0}
    BY DEF Close, AtClose, Inv, TypeOK
  <2> QED BY <2>1, <2>2, ClosedEffect DEF Kid
<1>2. OrderAt(o) /\ ChildAt(o) /\ StatusAt(o) /\ DriverAt(o) /\ EarnedAt(o) /\ BackedAt(o) /\ PassAt(o)
      /\ (ctl.op = "cancel" => event)
  BY DEF Inv, RunInv, RunSafe, ControlInv
<1>3. ChildAt(o)'
  BY <1>1, <1>2 DEF ChildAt, OverAt, Running, Waiting
<1>4. StatusAt(o)'
  BY <1>1, <1>2 DEF ChildAt, StatusAt, Alive, Running
<1>5. DriverAt(o)'
  BY <1>1, <1>2 DEF Own, DriverAt, ActiveRuns, Alive
<1>6. EarnedAt(o)'
  BY <1>1, <1>2 DEF Own, EarnedAt, NoTargetsAt, OkAt, Settled, Earned, ActiveRuns, Running, Waiting
<1>7. BackedAt(o)'
  BY <1>1, <1>2 DEF Own, BackedAt, Running
<1>8. PassAt(o)'
  BY <1>1 DEF PassAt
<1>9. Apart(o)
  BY <1>1 DEF Apart, Alive
<1> QED BY <1>3, <1>4, <1>5, <1>6, <1>7, <1>8, <1>9 DEF RunSafe

LEMMA LastStep ==
  ASSUME Inv, NEW o \in Run, Last(o)
  PROVE  RunSafe(o)' /\ Apart(o)
<1>1. /\ Own(o) /\ th[o].pc = "last" /\ th'[o].pc \in {"complete", "gone"} /\ ThBut(o, {})
      /\ row'[o] = row[o]
      /\ child' = child /\ held' = held /\ queue' = queue
      /\ th'[o].pc = "complete" <=> ~ event /\ \E p \in ActiveRuns : IsLatest(p)
  BY DEF TypeOK, Inv, Last, At, Frame, ThBut, Row, Thread, Own, Others, Goto
<1>2. OrderAt(o) /\ ChildAt(o) /\ StatusAt(o) /\ DriverAt(o) /\ EarnedAt(o) /\ BackedAt(o) /\ PassAt(o)
      /\ (ctl.op = "cancel" => event)
  BY DEF Inv, RunInv, RunSafe, ControlInv
<1>3. ChildAt(o)'
  BY <1>1, <1>2 DEF ChildAt, OverAt, Running, Waiting
<1>4. StatusAt(o)'
  BY <1>1, <1>2 DEF ChildAt, StatusAt, Alive, Running
<1>5. DriverAt(o)'
  <2>1. o \notin overtaken => (th'[o].pc = "complete" <=> ~ event /\ o \in ActiveRuns)
    BY <1>1, OwnLatest DEF Alive, ActiveRuns
  <2> QED BY <1>1, <1>2, <2>1 DEF Own, ThBut, DriverAt, ActiveRuns, Alive
<1>6. EarnedAt(o)'
  <2>1. o \notin overtaken => (th'[o].pc = "complete" <=> ~ event /\ o \in ActiveRuns)
    BY <1>1, OwnLatest DEF Alive, ActiveRuns
  <2> QED BY <1>1, <1>2, <2>1
          DEF Own, EarnedAt, NoTargetsAt, OkAt, Settled, Earned, Running, Waiting
<1>7. BackedAt(o)'
  BY <1>1, <1>2 DEF Own, BackedAt
<1>8. PassAt(o)'
  BY <1>1, <1>2 DEF ThBut, PassAt
<1>9. Apart(o)
  BY <1>1 DEF Apart, Kid, Alive
<1> QED BY <1>3, <1>4, <1>5, <1>6, <1>7, <1>8, <1>9 DEF RunSafe

LEMMA CompleteStep ==
  ASSUME Inv, NEW o \in Run, Complete(o)
  PROVE  RunSafe(o)' /\ Apart(o)
<1>1. /\ Own(o) /\ th[o].pc = "complete" /\ th'[o].pc = "gone" /\ ThBut(o, {})
      /\ row'[o].status = "completed" /\ RowBut(o, {"status"})
      /\ child' = child /\ held' = held /\ queue' = queue
  BY DEF TypeOK, Inv, Complete, At, Frame, RowBut, ThBut, Row, Thread, Own, Others, Goto, Completes
<1>2. OrderAt(o) /\ ChildAt(o) /\ StatusAt(o) /\ DriverAt(o) /\ EarnedAt(o) /\ BackedAt(o) /\ PassAt(o)
      /\ (ctl.op = "cancel" => event)
  BY DEF Inv, RunInv, RunSafe, ControlInv
<1>3. ChildAt(o)'
  BY <1>1, <1>2 DEF ChildAt, OverAt, Running, Waiting
<1>4. StatusAt(o)'
  BY <1>1, <1>2 DEF ChildAt, StatusAt, Alive, Running
<1>5. DriverAt(o)'
  BY <1>1, <1>2 DEF ThBut, DriverAt, ActiveRuns, Active, Alive
<1>6. EarnedAt(o)'
  BY <1>1, <1>2 DEF Own, RowBut, EarnedAt, NoTargetsAt, Settled, Earned, Running, Waiting
<1>7. BackedAt(o)'
  BY <1>1, <1>2 DEF Own, RowBut, BackedAt
<1>8. PassAt(o)'
  BY <1>1, <1>2 DEF ThBut, RowBut, PassAt
<1>9. Apart(o)
  BY <1>1 DEF Apart, Kid, Alive
<1> QED BY <1>3, <1>4, <1>5, <1>6, <1>7, <1>8, <1>9 DEF RunSafe

(***************************************************************************)
(* A run that a step leaves alone.                                         *)
(***************************************************************************)
Bystander(p) ==
  /\ UNCHANGED <<event, cur, overtaken>>
  /\ life' = "down" <=> life = "down"
  /\ ctl' = ctl \/ (ctl.run # p /\ ctl'.run # p)
  /\ th'[p] = th[p] /\ row'[p] = row[p] /\ Kid(p)
  /\ held' = held \/ ~ (Alive(p) /\ (th[p].pc = "launch" \/ Running(p)))
  /\ queue =< queue'
  /\ \A q \in Run : Present(q)' <=> Present(q)

LEMMA LatestStays ==
  ASSUME NEW o \in Run, \A q \in Run : Present(q)' <=> Present(q)
  PROVE  IsLatest(o)' <=> IsLatest(o)
BY DEF IsLatest, Present

LEMMA BystanderKeeps ==
  ASSUME Inv, TypeOK', NEW p \in Run, Bystander(p)
  PROVE  RunInv(p)'
<1>1. /\ OrderAt(p) /\ ChildAt(p) /\ StatusAt(p) /\ DriverAt(p) /\ EarnedAt(p) /\ BackedAt(p) /\ PassAt(p)
      /\ row[p].before \in Nat /\ row[p].after \in Nat /\ queue \in Nat /\ queue' \in Nat
  BY DEF Inv, RunInv, RunSafe, TypeOK, Row
<1>2. /\ UNCHANGED <<event, cur, overtaken>> /\ (life' = "down" <=> life = "down")
      /\ ctl' = ctl \/ (ctl.run # p /\ ctl'.run # p)
      /\ th'[p] = th[p] /\ row'[p] = row[p] /\ Kid(p)
      /\ held' = held \/ ~ (Alive(p) /\ (th[p].pc = "launch" \/ Running(p)))
      /\ queue =< queue' /\ (IsLatest(p)' <=> IsLatest(p))
  BY LatestStays DEF Bystander
<1>3. Running(p)' => Running(p) /\ child'[p] = child[p]
  BY <1>2 DEF Kid, Running
<1>4. OrderAt(p)'
  BY <1>1, <1>2 DEF OrderAt, Present, Alive, ActiveRuns
<1>5. ChildAt(p)'
  BY <1>1, <1>2 DEF ChildAt, Kid, Alive, OverAt, Running, Waiting, NoChild
<1>6. StatusAt(p)'
  BY <1>1, <1>2, <1>3 DEF StatusAt, Alive, ActiveRuns
<1>7. DriverAt(p)'
  BY <1>1, <1>2 DEF DriverAt, Alive, ActiveRuns
<1>8. EarnedAt(p)'
  BY <1>1, <1>2, <1>3 DEF EarnedAt, NoTargetsAt, OkAt, Settled, Earned, Kid, Waiting, ActiveRuns
<1>9. BackedAt(p)'
  BY <1>1, <1>2 DEF BackedAt, Kid, Running
<1>10. PassAt(p)'
  BY <1>1, <1>2 DEF PassAt
<1> QED BY <1>4, <1>5, <1>6, <1>7, <1>8, <1>9, <1>10 DEF RunInv, RunSafe

LEMMA ThreadEffect ==
  ASSUME Inv, NEW o \in Run, ThreadStep(o)
  PROVE  RunSafe(o)' /\ Apart(o)
BY BeginStep, BeginSyntheticStep, LaunchStep, LaunchFailsStep, StampStep, AfterWaitStep,
   AfterJoinStep, JoinTimesOutStep, PhaseAgainStep, VerifyStep, StableStep, SnapshotStep,
   ImportStep, ImportFailsStep, EvidenceStep, NextBatchStep, NoMoreBatchesStep, PhasePipeStep,
   StartPipeStep, SpawnedStep, UnstartedStep, PollStep, TallyStep, FailStep, CloseStep, LastStep, CompleteStep
DEF ThreadStep

LEMMA ThreadKeeps ==
  ASSUME Inv, NEW o \in Run, ThreadStep(o)
  PROVE  Inv'
<1>1. RunSafe(o)' /\ Apart(o)
  BY ThreadEffect
<1>2. TypeOK'
  BY ThreadTyped DEF Inv
<1>3. ControlInv /\ OrderAt(o) /\ StatusAt(o) /\ th[o].pc # "none" /\ o # 0 /\ queue \in Nat
  BY <1>1 DEF Inv, RunInv, RunSafe, Apart, Alive, Run, TypeOK
<1>4. /\ UNCHANGED <<life, event, ctl, cur, overtaken, queue>> /\ Present(o) /\ Present(o)' /\ Alive(o)
      /\ life # "down"
  BY <1>1, <1>3 DEF Apart, Own, OrderAt, Present
<1>5. \A q \in Run : Present(q)' <=> Present(q)
  BY <1>1, <1>4 DEF Apart, Own, Others, Present
<1>6. OrderAt(o)'
  <2>1. IsLatest(o)' <=> IsLatest(o)
    BY <1>5, LatestStays
  <2> QED BY <1>1, <1>3, <1>4, <2>1 DEF Apart, OrderAt
<1>7. ASSUME NEW p \in Run, p # o PROVE RunInv(p)'
  <2>1. th'[p] = th[p] /\ row'[p] = row[p] /\ Kid(p)
    BY <1>1, <1>7 DEF Apart, Own, Others
  <2>2. held' = held \/ ~ (Alive(p) /\ (th[p].pc = "launch" \/ Running(p)))
    <3>1. SUFFICES ASSUME th[o].pc = "begin", Alive(p), th[p].pc = "launch" \/ Running(p) PROVE FALSE
      BY <1>1 DEF Apart
    <3>2. StatusAt(p)
      BY DEF Inv, RunInv, RunSafe
    <3>3. o \notin overtaken /\ p \notin overtaken
      BY <1>3, <3>1, <3>2 DEF StatusAt
    <3> QED BY <1>4, <1>7, <3>1, <3>3, OwnLatest
  <2>3. Bystander(p)
    BY <1>3, <1>4, <1>5, <2>1, <2>2 DEF Bystander
  <2> QED BY <1>2, <2>3, BystanderKeeps
<1>8. ControlInv'
  <2>1. ctl.op = "start" => ctl.run \in Run /\ ctl.run # o
    BY <1>3 DEF Inv, TypeOK, ControlInv
  <2>2. ctl.op # "none" => ctl.run \in Run
    BY DEF Inv, TypeOK
  <2>3. held' # 0 => th'[held'].pc # "lost"
    <3>1. CASE held' = o
      BY <1>1, <3>1 DEF Apart
    <3>2. CASE held' = held /\ held # o
      <4>1. held # 0 => held \in Run
        BY DEF Inv, TypeOK
      <4> QED BY <1>1, <1>3, <4>1 DEF Apart, Own, Others, ControlInv
    <3> QED BY <1>1, <3>2 DEF Apart
  <2>4. ctl.op = "start" => row'[ctl.run] = row[ctl.run] /\ th'[ctl.run] = th[ctl.run]
    BY <1>1, <2>1 DEF Apart, Own, Others
  <2>5. \A q, p \in Run : q < p /\ Present(p)' => Present(q)'
    BY <1>3, <1>5 DEF ControlInv
  <2>6. ctl.op # "none" => Present(ctl.run)'
    BY <1>3, <1>4, <1>5, <2>2 DEF ControlInv
  <2> QED BY <1>3, <1>4, <2>3, <2>4, <2>5, <2>6 DEF ControlInv
<1> QED BY <1>1, <1>2, <1>6, <1>7, <1>8 DEF Inv, RunInv

(***************************************************************************)
(* JobHunter processes and their waits.                                    *)
(***************************************************************************)
LEMMA ExitedEffect ==
  ASSUME TypeOK, NEW o \in Run, NEW st, child' = Exited(child, o, st)
  PROVE  /\ child'[o].st = st /\ child'[o].wait = child[o].wait
         /\ \A p \in Run : p # o => child'[p] = child[p]
BY DEF TypeOK, Exited

(* The end of a wait, with what it records.                                *)
LEMMA RecordedStep ==
  ASSUME Inv, NEW o \in Run, NEW st \in {"ok", "bad", "none"}, Recorded(o, st),
         Waiting(o), ~ Running(o) => st = child[o].st
  PROVE  RunSafe(o)'
<1>1. /\ UNCHANGED <<life, event, ctl, cur, overtaken, held, th, queue>>
      /\ row'[o].exit = st /\ RowBut(o, {"exit"})
      /\ child'[o].st = st /\ child'[o].wait = "done"
  BY DEF Recorded, Frame, Exited, Inv, TypeOK, RowBut
<1>2. /\ OrderAt(o) /\ ChildAt(o) /\ StatusAt(o) /\ DriverAt(o) /\ EarnedAt(o) /\ BackedAt(o) /\ PassAt(o)
  BY DEF Inv, RunInv, RunSafe
<1>3. ChildAt(o)'
  BY <1>1, <1>2 DEF ChildAt, Running, Waiting, NoChild
<1>4. StatusAt(o)'
  BY <1>1, <1>2 DEF RowBut, StatusAt, Alive, Running
<1>5. DriverAt(o)'
  BY <1>1, <1>2 DEF RowBut, DriverAt, Alive, ActiveRuns
<1>6. EarnedAt(o)'
  BY <1>1, <1>2 DEF RowBut, EarnedAt, NoTargetsAt, OkAt, Settled, Earned, ActiveRuns
<1>7. BackedAt(o)'
  BY <1>1, <1>2 DEF RowBut, BackedAt, Running
<1>8. PassAt(o)'
  BY <1>1, <1>2 DEF RowBut, PassAt
<1> QED BY <1>3, <1>4, <1>5, <1>6, <1>7, <1>8 DEF RunSafe

LEMMA ChildStep ==
  ASSUME Inv, NEW o \in Run, WaiterStep(o) \/ Export(o) \/ ChildExits(o)
  PROVE  /\ RunSafe(o)' /\ Others(o) /\ \A p \in Run : p # o => child'[p] = child[p]
         /\ UNCHANGED <<life, event, ctl, cur, overtaken, held, th>> /\ RowBut(o, {"exit"})
         /\ queue =< queue'
<1>1. /\ OrderAt(o) /\ ChildAt(o) /\ StatusAt(o) /\ DriverAt(o) /\ EarnedAt(o) /\ BackedAt(o) /\ PassAt(o)
      /\ queue \in Nat /\ child \in [Run -> Child] /\ row \in [Run -> Row] /\ child[o] \in Child
      /\ row[o] \in Row /\ TypeOK
  BY DEF Inv, RunInv, RunSafe, TypeOK
<1>2. ASSUME NEW st \in {"ok", "bad", "none"}, Recorded(o, st)
      PROVE  /\ Others(o) /\ (\A p \in Run : p # o => child'[p] = child[p])
             /\ UNCHANGED <<life, event, ctl, cur, overtaken, held, th>> /\ RowBut(o, {"exit"})
             /\ queue =< queue'
  BY <1>1, <1>2 DEF Recorded, Frame, Exited, RowBut, Others
<1>3. CASE Waited(o)
  <2>1. child[o].st \in {"ok", "bad", "none"} /\ Recorded(o, child[o].st) /\ Waiting(o)
    BY <1>1, <1>3 DEF Waited, Child, Waiting
  <2> QED BY <1>2, <2>1, RecordedStep
<1>4. CASE Reap(o)
  <2> DEFINE st == IF child[o].st = "running" THEN "bad" ELSE child[o].st
  <2>1. st \in {"ok", "bad", "none"} /\ Recorded(o, st) /\ Waiting(o) /\ (~ Running(o) => st = child[o].st)
    BY <1>1, <1>4 DEF Reap, Child, Waiting, Running
  <2> HIDE DEF st
  <2> QED BY <1>2, <2>1, RecordedStep
<1>5. CASE TimeOut(o) \/ Export(o) \/ ChildExits(o)
  <2>1. /\ UNCHANGED <<life, event, ctl, cur, overtaken, held, th, row>>
        /\ Running(o) /\ child'[o].st \in {"running", "ok", "bad"}
        /\ child'[o].wait = child[o].wait \/ (Waiting(o) /\ child'[o].wait = "reap")
        /\ \A p \in Run : p # o => child'[p] = child[p]
    <3>1. CASE TimeOut(o)
      BY <1>1, <3>1 DEF TimeOut, Frame, Running, Waiting
    <3>2. CASE Export(o)
      BY <3>2 DEF Export, World, Running
    <3>3. CASE ChildExits(o)
      BY <1>1, <3>3, ExitedEffect DEF ChildExits, World, Running
    <3> QED BY <1>5, <3>1, <3>2, <3>3
  <2>2. queue' \in {queue, queue + 1} /\ queue =< queue' /\ queue' \in Nat
    BY <1>1, <1>5 DEF TimeOut, Export, ChildExits
  <2>3. ChildAt(o)'
    BY <1>1, <2>1 DEF ChildAt, Alive, OverAt, Running, Waiting, NoChild
  <2>4. StatusAt(o)'
    BY <1>1, <2>1 DEF StatusAt, Alive, ActiveRuns
  <2>5. DriverAt(o)'
    BY <1>1, <2>1 DEF DriverAt, Alive, ActiveRuns
  <2>6. EarnedAt(o)'
    BY <1>1, <2>1 DEF EarnedAt, NoTargetsAt, OkAt, Settled, Earned, ActiveRuns
  <2>7. BackedAt(o)'
    BY <1>1, <2>1, <2>2 DEF BackedAt, Running, Row
  <2>8. PassAt(o)'
    BY <1>1, <2>1 DEF PassAt
  <2> QED BY <2>1, <2>2, <2>3, <2>4, <2>5, <2>6, <2>7, <2>8 DEF RunSafe, Others, RowBut
<1> QED BY <1>3, <1>4, <1>5 DEF WaiterStep

LEMMA ChildKeeps ==
  ASSUME Inv, TypeOK', NEW o \in Run, WaiterStep(o) \/ Export(o) \/ ChildExits(o)
  PROVE  Inv'
<1>1. /\ RunSafe(o)' /\ Others(o) /\ (\A p \in Run : p # o => child'[p] = child[p])
      /\ UNCHANGED <<life, event, ctl, cur, overtaken, held, th>> /\ RowBut(o, {"exit"})
      /\ queue =< queue'
  BY ChildStep
<1>2. \A q \in Run : row'[q].status = row[q].status
  BY <1>1 DEF Others, RowBut
<1>3. \A q \in Run : Present(q)' <=> Present(q)
  BY <1>2 DEF Present
<1>4. OrderAt(o)'
  <2>1. OrderAt(o) /\ ChildAt(o) /\ (IsLatest(o)' <=> IsLatest(o))
    BY <1>3, LatestStays DEF Inv, RunInv, RunSafe
  <2>2. th[o].pc # "none"
    BY <2>1 DEF ChildAt, WaiterStep, Waited, TimeOut, Reap, Export, ChildExits, NoChild
  <2>3. Present(o) /\ Present(o)'
    BY <1>3, <2>1, <2>2 DEF OrderAt
  <2> QED BY <1>1, <1>2, <2>1, <2>2, <2>3 DEF OrderAt, Alive, ActiveRuns
<1>5. ASSUME NEW p \in Run, p # o PROVE RunInv(p)'
  <2>1. Bystander(p)
    BY <1>1, <1>3, <1>5 DEF Bystander, Others, Kid
  <2> QED BY <2>1, BystanderKeeps
<1>6. ControlInv'
  <2>1. ctl.op # "none" => ctl.run \in Run
    BY DEF Inv, TypeOK
  <2> QED BY <1>1, <1>2, <2>1 DEF Inv, ControlInv, Present
<1> QED BY <1>1, <1>4, <1>5, <1>6 DEF Inv, RunInv


(***************************************************************************)
(* The pipeline, the user, and an orderly stop.                            *)
(***************************************************************************)
LEMMA WorldKeeps ==
  ASSUME Inv, TypeOK',
         \/ JobMoves \/ WorkerMoves \/ UserActs \/ UserAnswers
         \/ Stop \/ LosePipe \/ StopChild \/ UNCHANGED vars
  PROVE  Inv'
<1>1. queue \in Nat /\ child \in [Run -> Child] /\ held \in Run \cup {0} /\ ControlInv
  BY DEF Inv, TypeOK
<1>2. /\ UNCHANGED <<event, ctl, cur, held, row, th, overtaken>> /\ queue =< queue'
      /\ \/ life' = life
         \/ life = "serving" /\ ctl = Idle /\ life' = "stopping"
         \/ life = "stopping" /\ life' = "stopped"
  BY <1>1
  DEF JobMoves, WorkerMoves, UserActs, UserAnswers, Stop, LosePipe, StopChild, Uncontrolled, World,
      vars
<1>3. \A p \in Run : Kid(p)
  <2>1. child' = child \/ child' = Closed(child, held)
    BY DEF JobMoves, WorkerMoves, UserActs, UserAnswers, Stop, LosePipe, StopChild, World, vars
  <2> QED BY <1>1, <2>1, ClosedEffect DEF Kid
<1>4. ASSUME NEW p \in Run PROVE RunInv(p)'
  <2>1. Bystander(p)
    BY <1>2, <1>3 DEF Bystander, Present
  <2> QED BY <2>1, BystanderKeeps
<1>5. ControlInv'
  BY <1>1, <1>2 DEF ControlInv, Present, Idle
<1> QED BY <1>4, <1>5 DEF Inv

(***************************************************************************)
(* Cancel.                                                                 *)
(***************************************************************************)
LEMMA CancelReadKeeps ==
  ASSUME Inv, TypeOK', NEW o \in Run, CancelRead(o)
  PROVE  Inv'
<1>1. /\ ctl.op = "none" /\ ctl.run = 0 /\ life = "serving" /\ IsLatestActive(o) /\ event'
      /\ ctl'.op = "cancel" /\ ctl'.pc = "mark" /\ ctl'.run = o
      /\ UNCHANGED <<life, cur, held, row, th, child, queue, overtaken>>
  BY DEF CancelRead, Uncontrolled, Idle
<1>2. \A q \in Run : Present(q)' <=> Present(q)
  BY <1>1 DEF Present
<1>3. ASSUME NEW p \in Run PROVE RunInv(p)'
  <2>1. /\ OrderAt(p) /\ ChildAt(p) /\ StatusAt(p) /\ DriverAt(p) /\ EarnedAt(p) /\ BackedAt(p) /\ PassAt(p)
        /\ p # 0
    BY DEF Inv, RunInv, RunSafe, Run
  <2>2. IsLatest(p)' <=> IsLatest(p)
    BY <1>2, LatestStays
  <2>3. p \in ActiveRuns /\ IsLatest(p) => p = o
    BY <1>1 DEF IsLatestActive, IsLatest, ActiveRuns, Active, Run
  <2>4. OrderAt(p)'
    BY <1>1, <2>1, <2>2 DEF OrderAt, Present, Alive, ActiveRuns, IsLatestActive
  <2>5. ChildAt(p)'
    BY <1>1, <2>1 DEF ChildAt, Alive, OverAt, Running, Waiting
  <2>6. StatusAt(p)'
    BY <1>1, <2>1 DEF StatusAt, Alive, ActiveRuns, Running
  <2>7. DriverAt(p)'
    BY <1>1, <2>1, <2>3 DEF DriverAt, OrderAt, Alive, ActiveRuns
  <2>8. EarnedAt(p)'
    BY <1>1, <2>1 DEF EarnedAt, NoTargetsAt, OkAt, Settled, Earned, Running, Waiting
  <2>9. BackedAt(p)' /\ PassAt(p)'
    BY <1>1, <2>1 DEF BackedAt, PassAt
  <2> QED BY <2>4, <2>5, <2>6, <2>7, <2>8, <2>9 DEF RunInv, RunSafe
<1>4. ControlInv'
  BY <1>1 DEF Inv, ControlInv, Present, IsLatestActive, ActiveRuns, Active
<1> QED BY <1>3, <1>4 DEF Inv

(* What the steps of a cancel have in common: they leave all runs alone    *)
(* but the one they cancel, whose thread and newer runs they leave too.    *)
Cancels(r) ==
  /\ ctl.op = "cancel" /\ ctl.run = r /\ life = "serving" /\ event
  /\ UNCHANGED <<life, event, cur, held, th, queue, overtaken>>
  /\ ctl' = Idle \/ (ctl'.op = "cancel" /\ ctl'.run = r)
  /\ \A p \in Run : p # r => row'[p] = row[p]
  /\ \A p \in Run : Kid(p)
  /\ row'[r].status # "absent"

LEMMA CancelsOthers ==
  ASSUME Inv, TypeOK', NEW r \in Run, Cancels(r), OrderAt(r)' /\ RunSafe(r)'
  PROVE  Inv'
<1>1. ControlInv /\ Present(r) /\ queue \in Nat /\ 0 \notin Run
  BY DEF Inv, Cancels, ControlInv, TypeOK, Run
<1>2. \A q \in Run : Present(q)' <=> Present(q)
  BY <1>1 DEF Cancels, Present
<1>3. ASSUME NEW p \in Run, p # r PROVE RunInv(p)'
  <2>1. Bystander(p)
    BY <1>1, <1>2, <1>3 DEF Bystander, Cancels, Idle
  <2> QED BY <2>1, BystanderKeeps
<1>4. ControlInv'
  BY <1>1, <1>2 DEF ControlInv, Cancels, Idle
<1> QED BY <1>3, <1>4 DEF Inv, RunInv

(* The run that is cancelled: it is there and past its start.              *)
LEMMA CancelledRun ==
  ASSUME Inv, NEW r \in Run, ctl.op = "cancel", ctl.run = r
  PROVE  /\ OrderAt(r) /\ ChildAt(r) /\ StatusAt(r) /\ DriverAt(r) /\ EarnedAt(r) /\ BackedAt(r) /\ PassAt(r)
         /\ Present(r) /\ event /\ th[r].pc # "none" /\ life = "serving"
         /\ row[r].before \in Nat /\ row[r].after \in Nat /\ queue \in Nat
BY DEF Inv, RunInv, RunSafe, ControlInv, OrderAt, TypeOK, Row

LEMMA CancelMarkKeeps ==
  ASSUME Inv, TypeOK', CancelMark
  PROVE  Inv'
<1>0. PICK r \in Run : ctl.run = r
  BY DEF TypeOK, CancelMark
<1>1. ctl.run = r /\ ctl.op = "cancel" /\ row \in [Run -> Row]
  BY <1>0 DEF Inv, TypeOK, CancelMark, Cancelling
<1>2. /\ OrderAt(r) /\ ChildAt(r) /\ StatusAt(r) /\ DriverAt(r) /\ EarnedAt(r) /\ BackedAt(r) /\ PassAt(r)
      /\ Present(r) /\ event /\ th[r].pc # "none" /\ life = "serving"
      /\ row[r].before \in Nat /\ row[r].after \in Nat /\ queue \in Nat
  BY <1>1, CancelledRun
<1>3. /\ UNCHANGED <<life, event, cur, held, th, queue, overtaken, child>>
      /\ ctl'.op = "cancel" /\ ctl'.run = r /\ ctl'.pc = "pipe"
      /\ row'[r].status = "cancelling" /\ RowBut(r, {"status"})
      /\ \A p \in Run : p # r => row'[p] = row[p]
  BY <1>1 DEF CancelMark, Cancelling, RowBut
<1>4. Cancels(r)
  BY <1>1, <1>2, <1>3 DEF Cancels, Kid
<1>5. \A q \in Run : Present(q)' <=> Present(q)
  BY <1>2, <1>3 DEF Present
<1>6. IsLatest(r)' <=> IsLatest(r)
  BY <1>5, LatestStays
<1>7. OrderAt(r)'
  BY <1>2, <1>3, <1>5, <1>6, <1>1 DEF OrderAt, Alive
<1>8. ChildAt(r)'
  BY <1>2, <1>3 DEF ChildAt, Alive, OverAt, Running, Waiting
<1>9. StatusAt(r)'
  BY <1>2, <1>3 DEF StatusAt, ActiveRuns, Active, Running
<1>10. DriverAt(r)'
  BY <1>2, <1>3 DEF DriverAt
<1>11. EarnedAt(r)'
  BY <1>2, <1>3 DEF EarnedAt, RowBut, NoTargetsAt, OkAt, Settled, Earned, Running, Waiting
<1>12. BackedAt(r)' /\ PassAt(r)'
  BY <1>2, <1>3 DEF BackedAt, PassAt, RowBut
<1> QED BY <1>4, <1>7, <1>8, <1>9, <1>10, <1>11, <1>12, CancelsOthers DEF RunSafe

LEMMA CancelPipeKeeps ==
  ASSUME Inv, TypeOK', CancelPipe \/ CancelAnswer
  PROVE  Inv'
<1>0. PICK r \in Run : ctl.run = r
  BY DEF Inv, TypeOK, CancelPipe, CancelAnswer, Cancelling
<1>1. ctl.run = r /\ ctl.op = "cancel" /\ ctl \in Control
  BY <1>0 DEF Inv, TypeOK, CancelPipe, CancelAnswer, Cancelling
<1>2. /\ OrderAt(r) /\ ChildAt(r) /\ StatusAt(r) /\ DriverAt(r) /\ EarnedAt(r) /\ BackedAt(r) /\ PassAt(r)
      /\ Present(r) /\ event /\ th[r].pc # "none" /\ life = "serving"
      /\ row[r].before \in Nat /\ row[r].after \in Nat /\ queue \in Nat
  BY <1>1, CancelledRun
<1>3. /\ UNCHANGED <<life, event, cur, held, th, queue, overtaken, child, row>>
      /\ ctl'.op = "cancel" /\ ctl'.run = r /\ ctl'.pc \in {"answer", "child"}
  <2>1. ctl' = [ctl EXCEPT !.pc = "answer"] \/ ctl' = [ctl EXCEPT !.pc = "child"]
    BY DEF CancelPipe, CancelAnswer, Cancelling
  <2>2. UNCHANGED <<life, event, cur, held, th, queue, overtaken, child, row>>
    BY DEF CancelPipe, CancelAnswer, Cancelling
  <2> QED BY <1>1, <2>1, <2>2 DEF Control
<1>4. Cancels(r)
  BY <1>1, <1>2, <1>3 DEF Cancels, Kid, Present
<1>5. \A q \in Run : Present(q)' <=> Present(q)
  BY <1>3 DEF Present
<1>6. IsLatest(r)' <=> IsLatest(r)
  BY <1>5, LatestStays
<1>7. OrderAt(r)'
  BY <1>2, <1>3, <1>5, <1>6, <1>1 DEF OrderAt, Alive
<1>8. ChildAt(r)'
  BY <1>2, <1>3 DEF ChildAt, Alive, OverAt, Running, Waiting
<1>9. StatusAt(r)'
  BY <1>2, <1>3 DEF StatusAt, Alive, ActiveRuns, Running
<1>10. DriverAt(r)'
  BY <1>2, <1>3 DEF DriverAt
<1>11. EarnedAt(r)'
  BY <1>2, <1>3 DEF EarnedAt, NoTargetsAt, OkAt, Settled, Earned, Running, Waiting
<1>12. BackedAt(r)' /\ PassAt(r)'
  BY <1>2, <1>3 DEF BackedAt, PassAt
<1> QED BY <1>4, <1>7, <1>8, <1>9, <1>10, <1>11, <1>12, CancelsOthers DEF RunSafe

(* If the JobHunter that the cancel closes is not that of the run that is  *)
(* cancelled, a newer run overtook that run.                               *)
LEMMA CancelChildKeeps ==
  ASSUME Inv, TypeOK', CancelChild
  PROVE  Inv'
<1>0. PICK r \in Run : ctl.run = r
  BY DEF TypeOK, CancelChild, Cancelling
<1>1. /\ ctl.run = r /\ ctl.op = "cancel" /\ row \in [Run -> Row] /\ child \in [Run -> Child]
      /\ held \in Run \cup {0} /\ TypeOK
  BY <1>0 DEF Inv, TypeOK, CancelChild, Cancelling
<1>2. /\ OrderAt(r) /\ ChildAt(r) /\ StatusAt(r) /\ DriverAt(r) /\ EarnedAt(r) /\ BackedAt(r) /\ PassAt(r)
      /\ Present(r) /\ event /\ th[r].pc # "none" /\ life = "serving"
      /\ row[r].before \in Nat /\ row[r].after \in Nat /\ queue \in Nat
  BY <1>1, CancelledRun
<1>3. /\ UNCHANGED <<life, event, cur, held, th, queue, overtaken>>
      /\ ctl'.op = "cancel" /\ ctl'.run = r /\ ctl'.pc = "join"
      /\ child' = Closed(child, held) /\ row'[r].exit \in {row[r].exit, "bad"} /\ RowBut(r, {"exit"})
      /\ child' = child => row' = row
      /\ \A p \in Run : p # r => row'[p] = row[p]
  BY <1>1 DEF CancelChild, Cancelling, RowBut
<1>4. /\ child'[r].wait = child[r].wait
      /\ child'[r].st = IF r = held /\ Running(r) THEN "bad" ELSE child[r].st
      /\ ~ Running(r) => child'[r] = child[r]
      /\ \A p \in Run : Kid(p)
  BY <1>1, <1>3, ClosedEffect DEF Kid
<1>5. Cancels(r)
  BY <1>1, <1>2, <1>3, <1>4 DEF Cancels, RowBut, Present
<1>6. \A q \in Run : Present(q)' <=> Present(q)
  BY <1>3 DEF Present, RowBut
<1>7. IsLatest(r)' <=> IsLatest(r)
  BY <1>6, LatestStays
<1>8. r \notin overtaken /\ ~ Running(r) => row'[r].exit = row[r].exit
  <2>1. SUFFICES ASSUME r \notin overtaken, ~ Running(r), child' # child PROVE FALSE
    BY <1>3
  <2>2. held \in Run /\ Running(held)
    BY <1>1, <1>3, <2>1 DEF Closed, Running
  <2>3. ChildAt(held) /\ StatusAt(held) /\ th[held].pc # "lost"
    BY <2>2 DEF Inv, RunInv, RunSafe, ControlInv, Run
  <2>4. Alive(held) /\ held \notin overtaken
    BY <2>2, <2>3 DEF ChildAt, StatusAt
  <2>5. IsLatest(held) /\ IsLatest(r)
    BY <1>1, <1>2, <2>1, <2>2, <2>4, OwnLatest DEF OrderAt
  <2> QED BY <1>1, <2>1, <2>2, <2>5, LatestUnique
<1>9. OrderAt(r)'
  BY <1>2, <1>3, <1>6, <1>7, <1>1 DEF OrderAt, Alive
<1>10. ChildAt(r)'
  BY <1>2, <1>3, <1>4 DEF ChildAt, Alive, OverAt, Running, Waiting, NoChild
<1>11. StatusAt(r)'
  BY <1>2, <1>3, <1>4 DEF StatusAt, ChildAt, RowBut, Alive, ActiveRuns, Running
<1>12. DriverAt(r)'
  BY <1>2, <1>3 DEF DriverAt
<1>13. EarnedAt(r)'
  BY <1>2, <1>3, <1>4, <1>8
  DEF EarnedAt, RowBut, NoTargetsAt, OkAt, Settled, Earned, Running, Waiting
<1>14. BackedAt(r)' /\ PassAt(r)'
  BY <1>2, <1>3, <1>4 DEF BackedAt, PassAt, RowBut, Running
<1> QED BY <1>5, <1>9, <1>10, <1>11, <1>12, <1>13, <1>14, CancelsOthers DEF RunSafe

LEMMA CancelEndKeeps ==
  ASSUME Inv, TypeOK', CancelEnd
  PROVE  Inv'
<1>0. PICK r \in Run : ctl.run = r
  BY DEF TypeOK, CancelEnd
<1>1. ctl.run = r /\ ctl.op = "cancel" /\ ctl.pc = "join" /\ row \in [Run -> Row] /\ r # 0
  BY <1>0 DEF Inv, TypeOK, CancelEnd, Run
<1>2. /\ OrderAt(r) /\ ChildAt(r) /\ StatusAt(r) /\ DriverAt(r) /\ EarnedAt(r) /\ BackedAt(r) /\ PassAt(r)
      /\ Present(r) /\ event /\ th[r].pc # "none" /\ life = "serving"
      /\ row[r].before \in Nat /\ row[r].after \in Nat /\ queue \in Nat
  BY <1>1, CancelledRun
<1>3. /\ UNCHANGED <<life, event, cur, held, th, queue, overtaken, child>>
      /\ ctl' = Idle /\ ctl'.op = "none" /\ ctl'.run = 0
      /\ row'[r].status = "cancelled" /\ RowBut(r, {"status"})
      /\ \A p \in Run : p # r => row'[p] = row[p]
  BY <1>1 DEF CancelEnd, CancelOutcome, Idle, RowBut
<1>4. Cancels(r)
  BY <1>1, <1>2, <1>3 DEF Cancels, Kid
<1>5. \A q \in Run : Present(q)' <=> Present(q)
  BY <1>2, <1>3 DEF Present
<1>6. IsLatest(r)' <=> IsLatest(r)
  BY <1>5, LatestStays
<1>7. r \notin overtaken /\ Alive(r) => th[r].pc \in {"import", "pipe", "spawn"}
  BY <1>1, <1>2 DEF CancelEnd, Joined, OrderAt
<1>8. OrderAt(r)'
  BY <1>2, <1>3, <1>5, <1>6, <1>1 DEF OrderAt, Alive
<1>9. ChildAt(r)'
  BY <1>2, <1>3 DEF ChildAt, Alive, OverAt, Running, Waiting
<1>10. StatusAt(r)'
  BY <1>1, <1>2, <1>3, <1>7 DEF StatusAt, Alive, Running
<1>11. DriverAt(r)'
  BY <1>2, <1>3, <1>7 DEF DriverAt, Alive, ActiveRuns, Active, Quiet
<1>12. EarnedAt(r)'
  BY <1>2, <1>3 DEF EarnedAt, RowBut, NoTargetsAt, OkAt, Settled, Earned, Running, Waiting
<1>13. BackedAt(r)' /\ PassAt(r)'
  BY <1>2, <1>3 DEF BackedAt, PassAt, RowBut
<1> QED BY <1>4, <1>8, <1>9, <1>10, <1>11, <1>12, <1>13, CancelsOthers DEF RunSafe

(***************************************************************************)
(* Start.                                                                  *)
(***************************************************************************)

(* When no run is active a live thread is past its JobHunter, or it was    *)
(* cancelled and is on its way out: it cannot start one any more.          *)
LEMMA LeftBehind ==
  ASSUME Inv, NEW p \in Run, Alive(p), ActiveRuns = {}
  PROVE  ~ Running(p) /\ th[p].pc \notin {"begin", "launch", "stamp"}
<1>1. OrderAt(p) /\ ChildAt(p) /\ StatusAt(p)
  BY DEF Inv, RunInv, RunSafe
<1>2. row[p].status \in Active \cup Terminal \cup {"absent"}
  BY DEF Inv, TypeOK, Row
<1>3. row[p].status \in Terminal
  BY <1>1, <1>2 DEF OrderAt, Present, Alive, ActiveRuns
<1> QED BY <1>1, <1>3 DEF StatusAt, Terminal

LEMMA StartKeeps ==
  ASSUME Inv, TypeOK', NEW o \in Run, NEW m \in Modes, Start(o, m)
  PROVE  Inv'
<1>1. /\ life = "serving" /\ ctl.op = "none" /\ ctl.run = 0 /\ ActiveRuns = {} /\ ~ event'
      /\ row[o].status = "absent" /\ (\A p \in Run : p < o => row[p].status # "absent")
      /\ ctl'.op = "start" /\ ctl'.run = o
      /\ overtaken' = overtaken \cup {p \in Run : Alive(p)}
      /\ UNCHANGED <<life, cur, held, th, child, queue>>
  BY DEF Start, Uncontrolled, Idle, MayStart
<1>2. /\ ControlInv /\ OrderAt(o) /\ ChildAt(o) /\ StatusAt(o) /\ DriverAt(o) /\ EarnedAt(o)
      /\ BackedAt(o) /\ PassAt(o) /\ o # 0 /\ queue \in Nat
  BY DEF Inv, RunInv, RunSafe, Run, TypeOK
<1>3. /\ row'[o].status = "running" /\ (\A p \in Run : p # o => row'[p] = row[p])
      /\ row'[o].pid = row[o].pid /\ row'[o].exit = row[o].exit /\ row'[o].before = row[o].before
      /\ row'[o].after = row[o].after /\ row'[o].imported = row[o].imported /\ row'[o].left = row[o].left
      /\ row'[o].targets = row[o].targets
  BY DEF Start, TypeOK
<1>4. /\ row[o] = NoRow /\ th[o] = NoThread /\ child[o] = NoChild /\ o \notin overtaken /\ ~ Alive(o)
  BY <1>1, <1>2 DEF OrderAt, ChildAt, Present, Alive
<1>5. IsLatest(o)'
  <2>1. ASSUME NEW p \in Run, p > o PROVE row'[p].status = "absent"
    BY <1>1, <1>2, <1>3, <2>1 DEF ControlInv, Present
  <2> QED BY <1>3, <2>1 DEF IsLatest
<1>6. RunInv(o)'
  <2>1. o \notin overtaken'
    BY <1>1, <1>4
  <2>2. OrderAt(o)'
    BY <1>1, <1>2, <1>3, <1>5 DEF OrderAt, Present, Alive
  <2>3. ChildAt(o)'
    BY <1>1, <1>2 DEF ChildAt, Alive, OverAt, Running, Waiting
  <2>4. StatusAt(o)'
    BY <1>1, <1>4 DEF StatusAt, Alive, Running, NoChild
  <2>5. DriverAt(o)'
    BY <1>1, <1>2 DEF DriverAt
  <2>6. EarnedAt(o)'
    BY <1>1, <1>3, <1>4 DEF EarnedAt, OkAt, NoRow, NoThread
  <2>7. BackedAt(o)'
    BY <1>1, <1>2, <1>3, <1>4 DEF BackedAt, NoRow
  <2>8. PassAt(o)'
    BY <1>1, <1>4 DEF PassAt, NoThread
  <2> QED BY <2>2, <2>3, <2>4, <2>5, <2>6, <2>7, <2>8 DEF RunInv, RunSafe
<1>7. ASSUME NEW p \in Run, p # o PROVE RunInv(p)'
  <2>1. /\ OrderAt(p) /\ ChildAt(p) /\ StatusAt(p) /\ DriverAt(p) /\ EarnedAt(p) /\ BackedAt(p) /\ PassAt(p)
        /\ row'[p] = row[p] /\ p \notin ActiveRuns
    BY <1>1, <1>3, <1>7 DEF Inv, RunInv, RunSafe
  <2>2. p \notin overtaken' => ~ Alive(p) /\ p \notin overtaken
    BY <1>1
  <2>3. p \notin ActiveRuns'
    BY <2>1 DEF ActiveRuns
  <2>4. p \in overtaken' => ~ Running(p) /\ th[p].pc \notin {"begin", "launch", "stamp"}
    BY <1>1, <2>1, LeftBehind DEF StatusAt
  <2>5. OrderAt(p)'
    BY <1>1, <1>7, <2>1, <2>3 DEF OrderAt, Present, Alive
  <2>6. ChildAt(p)'
    BY <1>1, <2>1 DEF ChildAt, Alive, OverAt, Running, Waiting
  <2>7. StatusAt(p)'
    BY <1>1, <2>1, <2>4 DEF StatusAt, Alive, Running
  <2>8. DriverAt(p)'
    BY <1>1, <2>1, <2>3 DEF DriverAt, Alive
  <2>9. EarnedAt(p)'
    BY <1>1, <2>1, <2>3 DEF EarnedAt, NoTargetsAt, OkAt, Settled, Earned, Running, Waiting
  <2>10. BackedAt(p)' /\ PassAt(p)'
    BY <1>1, <2>1 DEF BackedAt, PassAt
  <2> QED BY <2>5, <2>6, <2>7, <2>8, <2>9, <2>10 DEF RunInv, RunSafe
<1>8. ControlInv'
  <2>1. ASSUME NEW p \in Run, NEW q \in Run, p < q, Present(q)' PROVE Present(p)'
    BY <1>1, <1>2, <1>3, <2>1 DEF ControlInv, Present
  <2> QED BY <1>1, <1>2, <1>3, <1>4 DEF ControlInv, Present, NoThread
<1> QED BY <1>6, <1>7, <1>8 DEF Inv

LEMMA StartThreadKeeps ==
  ASSUME Inv, TypeOK', StartThread
  PROVE  Inv'
<1>0. PICK r \in Run : ctl.run = r
  BY DEF TypeOK, StartThread
<1>1. /\ life = "serving" /\ ctl.op = "start" /\ ctl.run = r /\ held' = 0 /\ cur' = r
      /\ ctl'.op = "none" /\ ctl'.run = 0 /\ child' = Closed(child, held)
      /\ UNCHANGED <<life, event, row, queue, overtaken>>
  BY <1>0 DEF StartThread, Idle
<1>2. /\ ControlInv /\ OrderAt(r) /\ ChildAt(r) /\ StatusAt(r) /\ EarnedAt(r) /\ BackedAt(r) /\ PassAt(r)
      /\ r # 0 /\ TypeOK /\ child \in [Run -> Child] /\ held \in Run \cup {0}
  BY DEF Inv, RunInv, RunSafe, Run, TypeOK
<1>3. /\ ~ event /\ row[r].status = "running" /\ th[r] = NoThread /\ child[r] = NoChild
      /\ r \notin overtaken /\ IsLatest(r) /\ th[r].pc = "none"
  BY <1>1, <1>2 DEF ControlInv, OrderAt, ChildAt
<1>4. /\ th'[r].pc = "begin" /\ ThBut(r, {}) /\ \A p \in Run : p # r => th'[p] = th[p]
  BY <1>0 DEF StartThread, TypeOK, ThBut
<1>5. \A p \in Run : /\ child'[p].wait = child[p].wait
                     /\ child'[p].st = IF p = held /\ Running(p) THEN "bad" ELSE child[p].st
                     /\ p # held \/ ~ Running(p) => child'[p] = child[p]
  BY <1>1, <1>2, ClosedEffect
<1>6. \A p \in Run : (IsLatest(p)' <=> IsLatest(p)) /\ (Present(p)' <=> Present(p))
  BY <1>1 DEF IsLatest, Present
<1>7. RunInv(r)'
  <2>1. child'[r] = NoChild
    BY <1>3, <1>5 DEF Running, NoChild
  <2>2. OrderAt(r)'
    BY <1>1, <1>3, <1>4, <1>6 DEF OrderAt, Present
  <2>3. ChildAt(r)'
    BY <1>4, <2>1 DEF ChildAt, Running, Waiting, NoChild
  <2>4. StatusAt(r)'
    BY <1>1, <1>3, <2>1 DEF StatusAt, Running, NoChild
  <2>5. DriverAt(r)'
    <3>1. ~ th'[r].over /\ Alive(r)'
      <4>1. th[r].over = FALSE
        BY <1>3 DEF NoThread
      <4> QED BY <1>4, <4>1 DEF ThBut, Alive
    <3>2. r \in ActiveRuns'
      BY <1>1, <1>3 DEF ActiveRuns, Active
    <3> QED BY <1>1, <1>3, <3>1, <3>2 DEF DriverAt
  <2>6. EarnedAt(r)'
    BY <1>1, <1>2, <1>3, <1>4 DEF EarnedAt, ThBut, NoTargetsAt, OkAt
  <2>7. BackedAt(r)'
    BY <1>1, <1>2, <1>3, <1>4 DEF BackedAt, OrderAt
  <2>8. PassAt(r)'
    BY <1>3, <1>4 DEF PassAt, ThBut, NoThread
  <2> QED BY <2>2, <2>3, <2>4, <2>5, <2>6, <2>7, <2>8 DEF RunInv, RunSafe
<1>8. ASSUME NEW p \in Run, p # r PROVE RunInv(p)'
  <2>1. /\ OrderAt(p) /\ ChildAt(p) /\ StatusAt(p) /\ DriverAt(p) /\ EarnedAt(p) /\ BackedAt(p) /\ PassAt(p)
        /\ th'[p] = th[p] /\ row'[p] = row[p] /\ p # 0
    BY <1>1, <1>4, <1>8 DEF Inv, RunInv, RunSafe, Run
  <2>2. p \notin overtaken => ~ Alive(p) /\ p \notin ActiveRuns
    BY <1>2, <1>3, <1>8, <2>1, LatestUnique DEF OrderAt
  <2>3. Running(p)' => Running(p) /\ held # p
    BY <1>5 DEF Running
  <2>4. OrderAt(p)'
    BY <1>1, <1>6, <1>8, <2>1, <2>2 DEF OrderAt, Alive, ActiveRuns
  <2>5. ChildAt(p)'
    <3>1. Alive(p) => ~ Running(p)' /\ th[p].pc # "launch"
      BY <2>1, <2>2, <2>3 DEF StatusAt
    <3> QED BY <1>5, <2>1, <3>1 DEF ChildAt, Alive, OverAt, Running, Waiting, NoChild
  <2>6. StatusAt(p)'
    BY <1>1, <2>1, <2>3 DEF StatusAt, Alive, ActiveRuns
  <2>7. DriverAt(p)'
    BY <1>1, <2>1, <2>2 DEF DriverAt, Alive, ActiveRuns
  <2>8. EarnedAt(p)'
    BY <1>1, <1>5, <2>1, <2>3 DEF EarnedAt, NoTargetsAt, OkAt, Settled, Earned, Waiting, ActiveRuns
  <2>9. BackedAt(p)' /\ PassAt(p)'
    BY <1>1, <1>5, <2>1 DEF BackedAt, PassAt, Running
  <2> QED BY <2>4, <2>5, <2>6, <2>7, <2>8, <2>9 DEF RunInv, RunSafe
<1>9. ControlInv'
  BY <1>1, <1>2, <1>6 DEF ControlInv
<1> QED BY <1>7, <1>8, <1>9 DEF Inv

(***************************************************************************)
(* The end and the start of the API process.                               *)
(***************************************************************************)
LEMMA DownKeeps ==
  ASSUME Inv, TypeOK', Down
  PROVE  Inv'
<1>1. /\ life' = "down" /\ ~ event' /\ ctl'.op = "none" /\ ctl'.run = 0 /\ cur' = 0 /\ held' = 0
      /\ UNCHANGED <<row, queue, overtaken>>
  BY DEF Down, Idle
<1>2. \A p \in Run : (IsLatest(p)' <=> IsLatest(p)) /\ (Present(p)' <=> Present(p))
  BY <1>1 DEF IsLatest, Present
<1>3. ASSUME NEW p \in Run PROVE RunInv(p)'
  <2>1. /\ OrderAt(p) /\ ChildAt(p) /\ StatusAt(p) /\ DriverAt(p) /\ EarnedAt(p) /\ BackedAt(p) /\ PassAt(p)
        /\ ControlInv /\ child[p] \in Child /\ p # 0 /\ th[p] \in Thread
    BY DEF Inv, RunInv, RunSafe, TypeOK, Run
  <2>2. /\ child'[p].st = child[p].st /\ child'[p].wait = "none"
        /\ child[p].wait = "none" => child'[p] = child[p]
    BY <2>1 DEF Down, Child
  <2>3. \/ /\ Alive(p) \/ (ctl.op = "start" /\ ctl.run = p)
           /\ th'[p].pc = "lost" /\ ~ th'[p].over /\ th'[p].pass = 0
        \/ /\ ~ Alive(p) /\ ~ (ctl.op = "start" /\ ctl.run = p) /\ th'[p] = th[p]
    BY DEF Down, NoThread
  <2>4. OrderAt(p)'
    BY <1>1, <1>2, <2>1, <2>3 DEF OrderAt, ControlInv, Alive, ActiveRuns
  <2>5. ChildAt(p)'
    BY <2>1, <2>2, <2>3 DEF ChildAt, Alive, OverAt, Running, Waiting, NoChild
  <2>6. StatusAt(p)'
    BY <1>1, <2>1, <2>2, <2>3 DEF StatusAt, Alive, Running, ActiveRuns
  <2>7. DriverAt(p)'
    BY <1>1, <2>1, <2>3 DEF DriverAt, Alive
  <2>8. EarnedAt(p)'
    BY <1>1, <2>1, <2>2, <2>3
    DEF EarnedAt, NoTargetsAt, OkAt, Settled, Earned, Running, Waiting, Alive
  <2>9. BackedAt(p)' /\ PassAt(p)'
    BY <1>1, <2>1, <2>2, <2>3 DEF BackedAt, PassAt
  <2> QED BY <2>4, <2>5, <2>6, <2>7, <2>8, <2>9 DEF RunInv, RunSafe
<1>4. ControlInv'
  BY <1>1, <1>2 DEF Inv, ControlInv
<1> QED BY <1>3, <1>4 DEF Inv

LEMMA StartupKeeps ==
  ASSUME Inv, TypeOK', Startup
  PROVE  Inv'
<1>1. /\ life = "down" /\ life' = "serving"
      /\ UNCHANGED <<event, ctl, cur, held, th, child, queue, overtaken>>
  BY DEF Startup
<1>2. \A p \in Run : IF p \in ActiveRuns /\ ~ Kept(p)
                     THEN row'[p].status = "failed" /\ RowBut(p, {"status"})
                     ELSE row'[p] = row[p]
  BY DEF Startup, TypeOK, Row, RowBut
<1>3. \A p \in Run : Present(p)' <=> Present(p)
  BY <1>2 DEF Present, ActiveRuns, Active
<1>4. ctl.op = "none" /\ ctl.run = 0 /\ ControlInv
  BY <1>1 DEF Inv, ControlInv
<1>5. ASSUME NEW p \in Run PROVE RunInv(p)'
  <2>1. /\ OrderAt(p) /\ ChildAt(p) /\ StatusAt(p) /\ DriverAt(p) /\ EarnedAt(p) /\ BackedAt(p) /\ PassAt(p)
        /\ p # 0
    BY DEF Inv, RunInv, RunSafe, Run
  <2>2. IsLatest(p)' <=> IsLatest(p)
    BY <1>3, LatestStays
  <2>3. ~ Alive(p) /\ (Running(p) => th[p].pc = "lost")
    BY <1>1, <2>1 DEF OrderAt, ChildAt
  <2>4. /\ RowBut(p, {"status"})
        /\ p \in ActiveRuns' => p \in ActiveRuns /\ Kept(p) /\ row'[p] = row[p]
        /\ row'[p].status \in {row[p].status, "failed"}
        /\ row'[p].status # row[p].status => p \in ActiveRuns /\ ~ Kept(p)
        /\ ~ Present(p) => row'[p] = row[p]
    BY <1>2 DEF ActiveRuns, Active, RowBut, Present
  <2>5. OrderAt(p)'
    BY <1>1, <1>3, <1>4, <2>1, <2>2, <2>4 DEF OrderAt, Alive
  <2>6. ChildAt(p)'
    BY <1>1, <2>1 DEF ChildAt, Alive, OverAt, Running, Waiting
  <2>7. StatusAt(p)'
    BY <1>1, <2>1, <2>3, <2>4 DEF StatusAt, RowBut, Kept, Alive, Running, ActiveRuns
  <2>8. DriverAt(p)'
    BY <1>1, <2>1, <2>3, <2>4 DEF DriverAt, Kept, Alive, Running
  <2>9. EarnedAt(p)'
    BY <1>1, <2>1, <2>4 DEF EarnedAt, RowBut, NoTargetsAt, OkAt, Settled, Earned, Running, Waiting
  <2>10. BackedAt(p)' /\ PassAt(p)'
    BY <1>1, <2>1, <2>4 DEF BackedAt, PassAt, RowBut
  <2> QED BY <2>5, <2>6, <2>7, <2>8, <2>9, <2>10 DEF RunInv, RunSafe
<1>6. ControlInv'
  BY <1>1, <1>3, <1>4 DEF ControlInv
<1> QED BY <1>5, <1>6 DEF Inv

(***************************************************************************)
(* The invariant, and what follows from it.                                *)
(***************************************************************************)
LEMMA InvInit == Init => Inv
<1> SUFFICES ASSUME Init PROVE Inv
  OBVIOUS
<1>1. TypeOK
  BY TypeInit
<1>2. ControlInv
  BY DEF Init, ControlInv, Present, Idle
<1>3. ASSUME NEW o \in Run PROVE RunInv(o)
  <2>1. /\ row[o] = NoRow /\ th[o] = NoThread /\ child[o] = NoChild /\ overtaken = {} /\ ~ Alive(o)
        /\ queue = 0 /\ ctl = Idle /\ life = "serving" /\ ctl.run # o /\ ctl.op = "none"
    BY DEF Init, Alive, NoThread, Idle, Run
  <2>2. o \notin ActiveRuns /\ ~ Present(o)
    BY <2>1 DEF ActiveRuns, Active, NoRow, Present
  <2>3. OrderAt(o) /\ ChildAt(o)
    BY <2>1, <2>2 DEF OrderAt, ChildAt, NoRow, NoThread, NoChild, Running, Waiting
  <2>4. StatusAt(o) /\ DriverAt(o)
    BY <2>1, <2>2 DEF StatusAt, DriverAt, NoThread, NoChild, Running
  <2>5. EarnedAt(o)
    BY <2>1 DEF EarnedAt, OkAt, NoRow, NoThread
  <2>6. BackedAt(o) /\ PassAt(o)
    BY <2>1 DEF BackedAt, PassAt, NoRow, NoThread
  <2> QED BY <2>3, <2>4, <2>5, <2>6 DEF RunInv, RunSafe
<1> QED BY <1>1, <1>2, <1>3 DEF Inv

LEMMA InvStep == Inv /\ [Next]_vars => Inv'
<1> SUFFICES ASSUME Inv, [Next]_vars PROVE Inv'
  OBVIOUS
<1>1. TypeOK'
  BY TypeStep DEF Inv
<1>2. CASE ServiceStep
  BY <1>1, <1>2, StartKeeps, StartThreadKeeps, CancelReadKeeps, CancelMarkKeeps, CancelPipeKeeps,
     CancelChildKeeps, CancelEndKeeps
  DEF ServiceStep
<1>3. CASE \E o \in Run : ThreadStep(o) \/ WaiterStep(o) \/ Export(o) \/ ChildExits(o)
  BY <1>1, <1>3, ThreadKeeps, ChildKeeps
<1>4. CASE \/ JobMoves \/ WorkerMoves \/ UserActs \/ UserAnswers
           \/ Stop \/ LosePipe \/ StopChild \/ UNCHANGED vars
  BY <1>1, <1>4, WorldKeeps
<1>5. CASE Down
  BY <1>1, <1>5, DownKeeps
<1>6. CASE Startup
  BY <1>1, <1>6, StartupKeeps
<1> QED BY <1>2, <1>3, <1>4, <1>5, <1>6 DEF Next

(* Types: in particular, what _set_phase writes is always a status.        *)
THEOREM TypeCorrect == Spec => []TypeOK
<1>1. Inv => TypeOK
  BY DEF Inv
<1> QED BY <1>1, InvInit, InvStep, PTL DEF Spec

(* Whatever threads, controls and recovery write in whatever order, there  *)
(* is one active run, but for the runs that a newer one overtook.          *)
THEOREM OneActive == Spec => []OneActiveRun
<1>1. Inv => OneActiveRun
  <2> SUFFICES ASSUME Inv, NEW o \in ActiveRuns \ overtaken, NEW p \in ActiveRuns \ overtaken
               PROVE  o = p
    BY DEF OneActiveRun
  <2>1. o \in Run /\ p \in Run
    BY DEF ActiveRuns
  <2>2. IsLatest(o) /\ IsLatest(p)
    BY <2>1 DEF Inv, RunInv, OrderAt
  <2> QED BY <2>1, <2>2, LatestUnique DEF Inv
<1> QED BY <1>1, InvInit, InvStep, PTL DEF Spec

(* A run that is over leaves no JobHunter process behind, whenever the     *)
(* cancel came and whatever runner the service held (_run, finally).       *)
THEOREM NoneLeftBehind == Spec => []NoOrphanChild
<1>1. Inv => NoOrphanChild
  BY DEF Inv, RunInv, RunSafe, ChildAt, NoOrphanChild, Running
<1> QED BY <1>1, InvInit, InvStep, PTL DEF Spec

(* Two JobHunter processes run at once only behind a crash that came       *)
(* before the pid was recorded, or an operator who gave the run up.        *)
THEOREM OneProcess == Spec => []OneJobHunter
<1>1. Inv => OneJobHunter
  <2> SUFFICES ASSUME Inv, NEW o \in Run, NEW p \in Run, o # p, Running(o), Running(p),
                      \A x \in {o, p} : ~ (th[x].pc = "lost" /\ (~ row[x].pid \/ row[x].status = "cancelled"))
               PROVE  FALSE
    BY DEF OneJobHunter, Running
  <2>1. ASSUME NEW x \in {o, p} PROVE IsLatest(x)
    <3>1. OrderAt(x) /\ ChildAt(x) /\ StatusAt(x) /\ Running(x)
      BY DEF Inv, RunInv, RunSafe
    <3>2. x \notin overtaken
      BY <3>1 DEF StatusAt
    <3>3. Alive(x) \/ x \in ActiveRuns
      BY <3>1 DEF ChildAt, StatusAt
    <3> QED BY <3>1, <3>2, <3>3 DEF OrderAt
  <2> QED BY <2>1, LatestUnique DEF Inv
<1> QED BY <1>1, InvInit, InvStep, PTL DEF Spec

(* An active run, which blocks every start, has somebody to end it.        *)
THEOREM Driven == Spec => []ActiveHasDriver
<1>1. Inv => ActiveHasDriver
  BY DEF Inv, RunInv, RunSafe, DriverAt, ActiveHasDriver, ActiveRuns
<1> QED BY <1>1, InvInit, InvStep, PTL DEF Spec

(* A run that is completed had a JobHunter that exited with zero, and a    *)
(* parallel one left no target over (_run_parallel).                       *)
THEOREM Completed == Spec => []CompletedIsEarned
<1>1. Inv => CompletedIsEarned
  BY DEF Inv, RunInv, RunSafe, EarnedAt, Earned, Settled, CompletedIsEarned
<1> QED BY <1>1, InvInit, InvStep, PTL DEF Spec

(* What is imported was published by the run's own successful JobHunter,   *)
(* though the code reads it off the latest row (_was_queue_published).     *)
THEOREM Backed == Spec => []ImportIsBacked
<1>1. Inv => ImportIsBacked
  BY DEF Inv, RunInv, RunSafe, BackedAt, ImportIsBacked
<1> QED BY <1>1, InvInit, InvStep, PTL DEF Spec

(* For every number of targets and every size of a batch the bound on the  *)
(* passes is not what ends a run (_run_parallel).                          *)
THEOREM Passes == Spec => []PassesBounded
<1>1. Inv => PassesBounded
  BY DEF Inv, RunInv, RunSafe, PassAt, PassesBounded
<1> QED BY <1>1, InvInit, InvStep, PTL DEF Spec

(* A run that is over is touched only by its own thread, before its end,   *)
(* or by a cancel that found it active (_run, cancel).                     *)
THEOREM OverStays == Spec => OverIsOver
<1>1. ASSUME Inv, [Next]_vars, NEW o \in Run,
             row[o].status \in Terminal, row'[o].status # row[o].status, ctl.run # o
      PROVE  Alive(o)
  <2>1. row \in [Run -> Row] /\ row[o].status \notin Active \cup {"absent"}
    BY <1>1 DEF Inv, TypeOK, Active, Terminal
  <2>2. ASSUME NEW p \in Run, ThreadStep(p) PROVE Alive(o)
    BY <1>1, <2>2, ThreadEffect DEF Apart, Own, Others
  <2>3. ASSUME NEW p \in Run, WaiterStep(p) \/ Export(p) \/ ChildExits(p) PROVE FALSE
    BY <1>1, <2>3, ChildStep DEF Others, RowBut
  <2>4. ASSUME NEW p \in Run, NEW m \in Modes, Start(p, m) PROVE FALSE
    BY <1>1, <2>1, <2>4 DEF Start
  <2>5. ~ (StartThread \/ \E p \in Run : CancelRead(p))
    BY <1>1 DEF StartThread, CancelRead
  <2>6. ~ (CancelMark \/ CancelPipe \/ CancelAnswer \/ CancelChild \/ CancelEnd)
    BY <1>1, <2>1 DEF CancelMark, CancelPipe, CancelAnswer, CancelChild, CancelEnd
  <2>7. ~ (\/ JobMoves \/ WorkerMoves \/ UserActs \/ UserAnswers \/ Stop \/ LosePipe \/ StopChild
           \/ Down \/ UNCHANGED vars)
    BY <1>1
    DEF JobMoves, WorkerMoves, UserActs, UserAnswers, Stop, LosePipe, StopChild, World, Down, vars
  <2>8. ~ Startup
    BY <1>1, <2>1 DEF Startup, ActiveRuns
  <2> QED BY <1>1, <2>2, <2>3, <2>4, <2>5, <2>6, <2>7, <2>8 DEF Next, ServiceStep
<1>2. Inv /\ [Next]_vars =>
        [\A o \in Run : row[o].status \in Terminal /\ row'[o].status # row[o].status =>
           Alive(o) \/ ctl.run = o]_vars
  BY <1>1
<1> QED BY <1>2, InvInit, InvStep, PTL DEF Spec, OverIsOver
(* The threads, the controls and the user do to the pipeline only what its *)
(* contract, which PipelineRun implements, lets them do, and leave it as   *)
(* it is in between (_start_pipeline, _wait_for_pipeline, cancel).         *)
THEOREM WithinContract == Spec => Service!ServiceSpec
<1>1. Init => Service!ServiceInit
  BY DEF Init
<1>2. [Next]_vars => [Service!ServiceNext]_(Service!serviceVars)
  <2> SUFFICES ASSUME [Next]_vars
               PROVE  \/ Service!ServiceNext
                      \/ UNCHANGED pipeline /\ (life' = "down" <=> life = "down")
    BY DEF Service!serviceVars, pipeline
  <2>1. CASE UNCHANGED vars
    BY <2>1 DEF vars
  <2>2. CASE ServiceStep
    BY <2>2
    DEF ServiceStep, Start, StartThread, CancelRead, CancelMark, CancelPipe, CancelAnswer,
        CancelChild, CancelEnd, Cancelling, Service!ServiceNext
  <2>3. ASSUME NEW o \in Run, WaiterStep(o) \/ Export(o) \/ ChildExits(o)
        PROVE  UNCHANGED <<life, pipeline>>
    BY <2>3
    DEF WaiterStep, Waited, TimeOut, Reap, Recorded, Export, ChildExits, Frame, World
  <2>4. ASSUME NEW o \in Run, ThreadStep(o)
        PROVE  Service!ServiceNext \/ UNCHANGED <<life, pipeline>>
    <3>1. CASE StartPipe(o) \/ SpawnFails(o)
      BY <3>1 DEF StartPipe, SpawnFails, Service!ServiceNext
    <3>2. CASE \/ Begin(o) \/ BeginSynthetic(o) \/ Launch(o) \/ LaunchFails(o) \/ Stamp(o)
               \/ AfterWait(o) \/ AfterJoin(o) \/ JoinTimesOut(o) \/ PhaseAgain(o) \/ Verify(o)
               \/ Stable(o) \/ Snapshot(o) \/ Import(o) \/ ImportFails(o)
      BY <3>2
      DEF Begin, BeginSynthetic, Launch, LaunchFails, Stamp, AfterWait, AfterJoin, JoinTimesOut,
          PhaseAgain, Verify, Stable, Snapshot, Import, ImportFails, Frame
    <3>3. CASE \/ Evidence(o) \/ NextBatch(o) \/ NoMoreBatches(o) \/ PhasePipe(o) \/ Spawned(o)
               \/ PipeRefused(o) \/ Poll(o) \/ Tally(o) \/ Fail(o) \/ Close(o) \/ Last(o)
               \/ Complete(o)
      BY <3>3
      DEF Evidence, NextBatch, NoMoreBatches, PhasePipe, Spawned, PipeRefused, Poll, Tally, Fail,
          Close, Last, Complete, Frame
    <3> QED BY <2>4, <3>1, <3>2, <3>3 DEF ThreadStep
  <2>5. CASE JobMoves \/ WorkerMoves \/ UserActs \/ UserAnswers \/ LosePipe
    BY <2>5
    DEF JobMoves, WorkerMoves, UserActs, UserAnswers, LosePipe, World, Service!ServiceNext
  <2>6. CASE Stop \/ StopChild
    BY <2>6 DEF Stop, StopChild, Uncontrolled, Service!ServiceNext, Service!Die
  <2>7. CASE Down \/ Startup
    BY <2>7 DEF Down, Startup, Service!ServiceNext
  <2> QED BY <2>1, <2>2, <2>3, <2>4, <2>5, <2>6, <2>7 DEF Next
<1> QED BY <1>1, <1>2, PTL DEF Spec, Service!ServiceSpec
=============================================================================
