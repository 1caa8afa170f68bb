--------------------------- MODULE PipelineProofs ---------------------------
(***************************************************************************)
(* Machine-checked proofs about PipelineRun, for every finite set of jobs, *)
(* every bound on the runs and every environment.                          *)
(***************************************************************************)
EXTENDS PipelineRun, FiniteSetTheorems, TLAPS

(***************************************************************************)
(* Lemmas about the operators the model is built from.                     *)
(***************************************************************************)

(* An upsert keeps the old status or gives the new one, and what is in     *)
(* progress leaves that status with any outcome of a job.                  *)
LEMMA UpsertedStatus ==
  ASSUME NEW old, NEW new
  PROVE  /\ Upserted(old, new) \in {old, new}
         /\ new \in Outcome => Upserted(old, new) # "in_progress"
BY DEF Upserted, Allowed, TerminalStatus, Outcome

(* A function updated at one point.                                        *)
LEMMA OnePoint ==
  ASSUME NEW S, NEW T, NEW f \in [S -> T], NEW x \in S, NEW v \in T
  PROVE  /\ [f EXCEPT ![x] = v] \in [S -> T]
         /\ [f EXCEPT ![x] = v][x] = v
         /\ \A y \in S : y # x => [f EXCEPT ![x] = v][y] = f[y]
OBVIOUS

(* Every way the code updates the row of a run gives a row again.          *)
LEMMA RunRows ==
  ASSUME NEW row \in RunRow
  PROVE  /\ \A st \in Active \cup Terminal : [row EXCEPT !.status = st] \in RunRow
         /\ \A st \in Ended : [row EXCEPT !.status = st, !.current = None] \in RunRow
         /\ \A b \in BOOLEAN : [row EXCEPT !.fresh = b] \in RunRow
         /\ [row EXCEPT !.owned = TRUE, !.fresh = TRUE] \in RunRow
         /\ \A n \in Nat : [row EXCEPT !.total = n] \in RunRow
         /\ [row EXCEPT !.done = @ + 1] \in RunRow
         /\ [row EXCEPT !.failed = @ + 1] \in RunRow
         /\ \A j \in Job : [row EXCEPT !.current = j, !.fresh = TRUE] \in RunRow
<1>1. \A st \in Active \cup Terminal : [row EXCEPT !.status = st] \in RunRow
  BY DEF RunRow
<1>2. \A st \in Ended : [row EXCEPT !.status = st, !.current = None] \in RunRow
  BY DEF RunRow, Terminal
<1>3. \A b \in BOOLEAN : [row EXCEPT !.fresh = b] \in RunRow
  BY DEF RunRow
<1>4. [row EXCEPT !.owned = TRUE, !.fresh = TRUE] \in RunRow
  BY DEF RunRow
<1>5. \A n \in Nat : [row EXCEPT !.total = n] \in RunRow
  BY DEF RunRow
<1>6. [row EXCEPT !.done = @ + 1] \in RunRow
  BY DEF RunRow
<1>7. [row EXCEPT !.failed = @ + 1] \in RunRow
  BY DEF RunRow
<1>8. \A j \in Job : [row EXCEPT !.current = j, !.fresh = TRUE] \in RunRow
  BY DEF RunRow
<1> QED
  BY <1>1, <1>2, <1>3, <1>4, <1>5, <1>6, <1>7, <1>8

(* A run whose row is replaced; the others keep theirs.                    *)
LEMMA RowReplaced ==
  ASSUME TypeOK, NEW r \in Run, NEW row \in RunRow,
         run' = [run EXCEPT ![r] = row]
  PROVE  /\ run' \in [Run -> RunRow]
         /\ run'[r] = row
         /\ \A s \in Run : s # r => run'[s] = run[s]
BY OnePoint DEF TypeOK

(* A status write changes nothing but the status.                          *)
LEMMA StatusWritten ==
  ASSUME TypeOK, NEW r \in Run, NEW st \in Active \cup Terminal,
         run' = [run EXCEPT ![r].status = st]
  PROVE  /\ run' \in [Run -> RunRow]
         /\ \A s \in Run : s # r => run'[s] = run[s]
         /\ run'[r].status = st
         /\ run'[r].fresh = run[r].fresh
         /\ run'[r].current = run[r].current
         /\ run'[r].owned = run[r].owned
         /\ run'[r].total = run[r].total
         /\ run'[r].done = run[r].done
         /\ run'[r].failed = run[r].failed
<1>1. run[r] \in RunRow
  BY DEF TypeOK
<1>2. [run[r] EXCEPT !.status = st] \in RunRow
  BY <1>1, RunRows
<1>3. run' = [run EXCEPT ![r] = [run[r] EXCEPT !.status = st]]
  OBVIOUS
<1>4. /\ run' \in [Run -> RunRow]
      /\ run'[r] = [run[r] EXCEPT !.status = st]
      /\ \A s \in Run : s # r => run'[s] = run[s]
  BY <1>2, <1>3, RowReplaced
<1> QED
  BY <1>1, <1>4 DEF RunRow

(* Closing a run sets its status and clears its current job.               *)
LEMMA RunClosed ==
  ASSUME TypeOK, NEW r \in Run, NEW st \in Ended, run' = Closed(r, st)
  PROVE  /\ run' \in [Run -> RunRow]
         /\ \A s \in Run : s # r => run'[s] = run[s]
         /\ run'[r].status = st
         /\ run'[r].current = None
         /\ run'[r].fresh = run[r].fresh
         /\ run'[r].owned = run[r].owned
         /\ run'[r].total = run[r].total
         /\ run'[r].done = run[r].done
         /\ run'[r].failed = run[r].failed
<1>1. run[r] \in RunRow
  BY DEF TypeOK
<1>2. [run[r] EXCEPT !.status = st, !.current = None] \in RunRow
  BY <1>1, RunRows
<1>3. run' = [run EXCEPT ![r] = [run[r] EXCEPT !.status = st, !.current = None]]
  BY DEF Closed, TypeOK
<1>4. /\ run' \in [Run -> RunRow]
      /\ run'[r] = [run[r] EXCEPT !.status = st, !.current = None]
      /\ \A s \in Run : s # r => run'[s] = run[s]
  BY <1>2, <1>3, RowReplaced
<1> QED
  BY <1>1, <1>4 DEF RunRow

(* A heartbeat leaves everything else of the row alone.                    *)
LEMMA Stamped ==
  ASSUME TypeOK, NEW r \in Run, NEW b \in BOOLEAN, run' = [run EXCEPT ![r].fresh = b]
  PROVE  /\ run' \in [Run -> RunRow]
         /\ \A s \in Run : s # r => run'[s] = run[s]
         /\ run'[r].fresh = b
         /\ run'[r].status = run[r].status
         /\ run'[r].current = run[r].current
         /\ run'[r].owned = run[r].owned
         /\ run'[r].total = run[r].total
         /\ run'[r].done = run[r].done
         /\ run'[r].failed = run[r].failed
<1>1. run[r] \in RunRow
  BY DEF TypeOK
<1>2. [run[r] EXCEPT !.fresh = b] \in RunRow
  BY <1>1, RunRows
<1>3. run' = [run EXCEPT ![r] = [run[r] EXCEPT !.fresh = b]]
  OBVIOUS
<1>4. /\ run' \in [Run -> RunRow]
      /\ run'[r] = [run[r] EXCEPT !.fresh = b]
      /\ \A s \in Run : s # r => run'[s] = run[s]
  BY <1>2, <1>3, RowReplaced
<1> QED
  BY <1>1, <1>4 DEF RunRow

(* A worker that is replaced by a row keeps the others theirs.             *)
LEMMA WorkerReplaced ==
  ASSUME TypeOK, NEW r \in Run, NEW row \in WorkerRow,
         worker' = [worker EXCEPT ![r] = row]
  PROVE  /\ worker' \in [Run -> WorkerRow]
         /\ worker'[r] = row
         /\ \A s \in Run : s # r => worker'[s] = worker[s]
BY OnePoint DEF TypeOK

(* A worker that moves on keeps all but its place in the program.          *)
LEMMA Moved ==
  ASSUME TypeOK, NEW r \in Run, NEW pc \in WorkerPc, Goto(r, pc)
  PROVE  /\ worker' \in [Run -> WorkerRow]
         /\ \A s \in Run : s # r => worker'[s] = worker[s]
         /\ worker'[r].pc = pc
         /\ worker'[r].job = worker[r].job
         /\ worker'[r].todo = worker[r].todo
         /\ worker'[r].out = worker[r].out
         /\ worker'[r].next = worker[r].next
<1>1. worker[r] \in WorkerRow
  BY DEF TypeOK
<1>2. [worker[r] EXCEPT !.pc = pc] \in WorkerRow
  BY <1>1 DEF WorkerRow
<1>3. worker' = [worker EXCEPT ![r] = [worker[r] EXCEPT !.pc = pc]]
  BY DEF Goto
<1>4. /\ worker' \in [Run -> WorkerRow]
      /\ worker'[r] = [worker[r] EXCEPT !.pc = pc]
      /\ \A s \in Run : s # r => worker'[s] = worker[s]
  BY <1>2, <1>3, WorkerReplaced
<1> QED
  BY <1>1, <1>4 DEF WorkerRow

(* Cutting one job off the list leaves one job less.                       *)
LEMMA OneLess ==
  ASSUME NEW S \in SUBSET Job, NEW j \in S
  PROVE  /\ Cardinality(S) \in Nat
         /\ Cardinality(S \ {j}) \in Nat
         /\ Cardinality(S) = Cardinality(S \ {j}) + 1
<1>1. IsFiniteSet(S)
  BY PipelineAssumption, FS_Subset
<1>2. IsFiniteSet(S \ {j})
  BY <1>1, FS_Subset
<1>3. Cardinality(S) \in Nat /\ Cardinality(S \ {j}) \in Nat
  BY <1>1, <1>2, FS_CardinalityType
<1>4. Cardinality(S \ {j}) = Cardinality(S) - 1
  BY <1>1, FS_RemoveElement
<1> QED
  BY <1>3, <1>4

(* The number of jobs on a list is a number.                               *)
LEMMA CardinalityIsNat ==
  ASSUME NEW S \in SUBSET Job
  PROVE  Cardinality(S) \in Nat
BY PipelineAssumption, FS_Subset, FS_CardinalityType

(***************************************************************************)
(* What the steps of a worker write, beyond a status or a place.           *)
(***************************************************************************)
RunKept(r) ==
  /\ run'[r].status = run[r].status
  /\ run'[r].owned = run[r].owned
  /\ run'[r].fresh = run[r].fresh
  /\ run'[r].current = run[r].current

CountersKept(r) ==
  /\ run'[r].total = run[r].total
  /\ run'[r].done = run[r].done
  /\ run'[r].failed = run[r].failed

(* The tables stay tables and the other runs and workers keep their rows.  *)
Apart(r) ==
  /\ run' \in [Run -> RunRow]
  /\ worker' \in [Run -> WorkerRow]
  /\ \A s \in Run : s # r => run'[s] = run[s] /\ worker'[s] = worker[s]

LEMMA BootReadEffect ==
  ASSUME TypeOK, NEW r \in Run, BootRead(r)
  PROVE  /\ Apart(r) /\ RunKept(r) /\ CountersKept(r)
         /\ worker'[r].pc = "beat"
         /\ worker'[r].job = worker[r].job
         /\ worker'[r].todo = worker[r].todo
<1>0. /\ run \in [Run -> RunRow] /\ run[r] \in RunRow
      /\ worker \in [Run -> WorkerRow] /\ worker[r] \in WorkerRow
  BY DEF TypeOK
<1> DEFINE row == [worker[r] EXCEPT !.pc = "beat", !.seen = run[r].status]
<1>1. /\ row \in WorkerRow
      /\ row.pc = "beat" /\ row.job = worker[r].job /\ row.todo = worker[r].todo
  BY <1>0 DEF WorkerRow, WorkerPc, RunRow
<1>2. worker' = [worker EXCEPT ![r] = row] /\ UNCHANGED run
  BY <1>0 DEF BootRead
<1> HIDE DEF row
<1> QED
  BY <1>0, <1>1, <1>2, WorkerReplaced DEF Apart, RunKept, CountersKept

LEMMA BootBeatEffect ==
  ASSUME TypeOK, NEW r \in Run, BootBeat(r)
  PROVE  /\ Apart(r) /\ CountersKept(r)
         /\ run'[r].status = run[r].status
         /\ run'[r].owned = run[r].owned
         /\ run'[r].current = run[r].current
         /\ run'[r].fresh
         /\ worker'[r].pc \in {"cancel", "pause", "load", "exiting"}
         /\ worker'[r].job = worker[r].job
         /\ worker'[r].todo = worker[r].todo
<1>0. worker \in [Run -> WorkerRow] /\ worker[r] \in WorkerRow
  BY DEF TypeOK
<1>1. PICK pc \in {"cancel", "pause", "load", "exiting"} :
        worker' = [worker EXCEPT ![r].seen = "absent", ![r].pc = pc]
  BY DEF BootBeat
<1> DEFINE row == [worker[r] EXCEPT !.seen = "absent", !.pc = pc]
<1>2. /\ row \in WorkerRow
      /\ row.pc = pc /\ row.job = worker[r].job /\ row.todo = worker[r].todo
  BY <1>0 DEF WorkerRow, WorkerPc
<1>3. worker' = [worker EXCEPT ![r] = row]
  BY <1>0, <1>1
<1> HIDE DEF row
<1>4. /\ worker' \in [Run -> WorkerRow]
      /\ worker'[r] = row
      /\ \A s \in Run : s # r => worker'[s] = worker[s]
  BY <1>2, <1>3, WorkerReplaced
<1>5. run' = [run EXCEPT ![r].fresh = TRUE]
  BY DEF BootBeat
<1> QED
  BY <1>2, <1>4, <1>5, Stamped DEF Apart, CountersKept

LEMMA LoadEffect ==
  ASSUME TypeOK, NEW r \in Run, Load(r)
  PROVE  /\ Apart(r) /\ RunKept(r)
         /\ run'[r].total = Cardinality(worker'[r].todo)
         /\ worker'[r].pc = IF worker'[r].todo = {} THEN "finish" ELSE "take"
         /\ worker'[r].job = worker[r].job
<1>0. /\ run \in [Run -> RunRow] /\ run[r] \in RunRow
      /\ worker \in [Run -> WorkerRow] /\ worker[r] \in WorkerRow
  BY DEF TypeOK
<1>1. PICK S \in SUBSET Job :
        /\ worker' = [worker EXCEPT ![r].todo = S, ![r].next = "take",
                        ![r].pc = IF S = {} THEN "finish" ELSE "take"]
        /\ run' = [run EXCEPT ![r].total = Cardinality(S)]
  BY DEF Load
<1>2. PICK pc \in {"finish", "take"} : pc = IF S = {} THEN "finish" ELSE "take"
  OBVIOUS
<1>3. PICK n \in Nat : n = Cardinality(S)
  BY CardinalityIsNat
<1> DEFINE row == [worker[r] EXCEPT !.todo = S, !.next = "take", !.pc = pc]
           new == [run[r] EXCEPT !.total = n]
<1>4. row \in WorkerRow /\ row.pc = pc /\ row.todo = S /\ row.job = worker[r].job
  BY <1>0 DEF WorkerRow, WorkerPc
<1>5. /\ new \in RunRow /\ new.status = run[r].status /\ new.owned = run[r].owned
      /\ new.fresh = run[r].fresh /\ new.current = run[r].current /\ new.total = n
  BY <1>0 DEF RunRow
<1>6. worker' = [worker EXCEPT ![r] = row] /\ run' = [run EXCEPT ![r] = new]
  BY <1>0, <1>1, <1>2, <1>3
<1> HIDE DEF row, new
<1>7. /\ worker' \in [Run -> WorkerRow]
      /\ worker'[r] = row
      /\ \A s \in Run : s # r => worker'[s] = worker[s]
  BY <1>4, <1>6, WorkerReplaced
<1>8. /\ run' \in [Run -> RunRow]
      /\ run'[r] = new
      /\ \A s \in Run : s # r => run'[s] = run[s]
  BY <1>5, <1>6, RowReplaced
<1> QED
  BY <1>2, <1>3, <1>4, <1>5, <1>7, <1>8 DEF Apart, RunKept

LEMMA TakeEffect ==
  ASSUME TypeOK, NEW r \in Run, NEW j \in Job, Take(r, j)
  PROVE  /\ Apart(r) /\ CountersKept(r)
         /\ run'[r].status = run[r].status
         /\ run'[r].owned = run[r].owned
         /\ run'[r].current = j
         /\ run'[r].fresh
         /\ worker'[r].pc = "open"
         /\ worker'[r].job = j
         /\ worker'[r].todo = worker[r].todo \ {j}
<1>0. /\ run \in [Run -> RunRow] /\ run[r] \in RunRow
      /\ worker \in [Run -> WorkerRow] /\ worker[r] \in WorkerRow
  BY DEF TypeOK
<1>1. PICK S \in SUBSET Job : S = worker[r].todo \ {j}
  BY <1>0 DEF WorkerRow
<1> DEFINE row == [worker[r] EXCEPT !.pc = "open", !.job = j, !.todo = S]
           new == [run[r] EXCEPT !.current = j, !.fresh = TRUE]
<1>2. row \in WorkerRow /\ row.pc = "open" /\ row.todo = S /\ row.job = j
  BY <1>0 DEF WorkerRow, WorkerPc
<1>3. /\ new \in RunRow /\ new.status = run[r].status /\ new.owned = run[r].owned
      /\ new.fresh /\ new.current = j /\ new.total = run[r].total
      /\ new.done = run[r].done /\ new.failed = run[r].failed
  BY <1>0 DEF RunRow
<1>4. worker' = [worker EXCEPT ![r] = row] /\ run' = [run EXCEPT ![r] = new]
  BY <1>0, <1>1 DEF Take
<1> HIDE DEF row, new
<1>5. /\ worker' \in [Run -> WorkerRow]
      /\ worker'[r] = row
      /\ \A s \in Run : s # r => worker'[s] = worker[s]
  BY <1>2, <1>4, WorkerReplaced
<1>6. /\ run' \in [Run -> RunRow]
      /\ run'[r] = new
      /\ \A s \in Run : s # r => run'[s] = run[s]
  BY <1>3, <1>4, RowReplaced
<1> QED
  BY <1>1, <1>2, <1>3, <1>5, <1>6 DEF Apart, CountersKept

LEMMA WorkEffect ==
  ASSUME TypeOK, NEW r \in Run, Work(r)
  PROVE  /\ Apart(r) /\ RunKept(r) /\ CountersKept(r)
         /\ worker'[r].pc = "count"
         /\ worker'[r].job = worker[r].job
         /\ worker'[r].todo = worker[r].todo
<1>0. /\ run \in [Run -> RunRow]
      /\ worker \in [Run -> WorkerRow] /\ worker[r] \in WorkerRow
  BY DEF TypeOK
<1>1. PICK out \in Outcome : worker' = [worker EXCEPT ![r].pc = "count", ![r].out = out]
  BY DEF Work
<1> DEFINE row == [worker[r] EXCEPT !.pc = "count", !.out = out]
<1>2. /\ row \in WorkerRow
      /\ row.pc = "count" /\ row.todo = worker[r].todo /\ row.job = worker[r].job
  BY <1>0 DEF WorkerRow, WorkerPc
<1>3. worker' = [worker EXCEPT ![r] = row] /\ UNCHANGED run
  BY <1>0, <1>1 DEF Work
<1> HIDE DEF row
<1> QED
  BY <1>0, <1>2, <1>3, WorkerReplaced DEF Apart, RunKept, CountersKept

LEMMA CountEffect ==
  ASSUME TypeOK, NEW r \in Run, Count(r)
  PROVE  /\ Apart(r) /\ RunKept(r)
         /\ run'[r].total = run[r].total
         /\ run'[r].done + run'[r].failed = run[r].done + run[r].failed + 1
         /\ worker'[r].pc = "settle"
         /\ worker'[r].job = worker[r].job
         /\ worker'[r].todo = worker[r].todo
<1>0. run \in [Run -> RunRow] /\ run[r] \in RunRow
  BY DEF TypeOK
<1> DEFINE more == [run[r] EXCEPT !.done = @ + 1]
           less == [run[r] EXCEPT !.failed = @ + 1]
<1>1. /\ more \in RunRow /\ more.status = run[r].status /\ more.owned = run[r].owned
      /\ more.fresh = run[r].fresh /\ more.current = run[r].current
      /\ more.total = run[r].total /\ more.done = run[r].done + 1
      /\ more.failed = run[r].failed
  BY <1>0, RunRows DEF RunRow
<1>2. /\ less \in RunRow /\ less.status = run[r].status /\ less.owned = run[r].owned
      /\ less.fresh = run[r].fresh /\ less.current = run[r].current
      /\ less.total = run[r].total /\ less.failed = run[r].failed + 1
      /\ less.done = run[r].done
  BY <1>0, RunRows DEF RunRow
<1>3. run' = [run EXCEPT ![r] = more] \/ run' = [run EXCEPT ![r] = less]
  BY <1>0 DEF Count
<1>4. run[r].done \in Nat /\ run[r].failed \in Nat
  BY <1>0 DEF RunRow
<1>5. Goto(r, "settle")
  BY DEF Count
<1> HIDE DEF more, less
<1>6. /\ run' \in [Run -> RunRow]
      /\ run'[r] \in {more, less}
      /\ \A s \in Run : s # r => run'[s] = run[s]
  BY <1>1, <1>2, <1>3, RowReplaced
<1>7. RunKept(r) /\ run'[r].total = run[r].total
  BY <1>1, <1>2, <1>6 DEF RunKept
<1>8. run'[r].done + run'[r].failed = run[r].done + run[r].failed + 1
  BY <1>1, <1>2, <1>4, <1>6
<1> QED
  BY <1>5, <1>6, <1>7, <1>8, Moved DEF Apart, WorkerPc

LEMMA SettleEffect ==
  ASSUME TypeOK, NEW r \in Run, SettleJob(r)
  PROVE  /\ Apart(r) /\ RunKept(r) /\ CountersKept(r)
         /\ worker'[r].pc = AfterJob(r)
         /\ worker'[r].job = None
         /\ worker'[r].todo = worker[r].todo
<1>0. /\ run \in [Run -> RunRow]
      /\ worker \in [Run -> WorkerRow] /\ worker[r] \in WorkerRow
  BY DEF TypeOK
<1>1. PICK pc \in {"finish", "check"} : pc = AfterJob(r)
  BY DEF AfterJob
<1> DEFINE row == [worker[r] EXCEPT !.pc = pc, !.job = None, !.out = "failed"]
<1>2. row \in WorkerRow /\ row.pc = pc /\ row.todo = worker[r].todo /\ row.job = None
  BY <1>0 DEF WorkerRow, WorkerPc, Outcome
<1>3. worker' = [worker EXCEPT ![r] = row] /\ UNCHANGED run
  BY <1>0, <1>1 DEF SettleJob
<1> HIDE DEF row
<1> QED
  BY <1>0, <1>1, <1>2, <1>3, WorkerReplaced DEF Apart, RunKept, CountersKept

LEMMA FailEffect ==
  ASSUME TypeOK, NEW r \in Run, FailJob(r)
  PROVE  /\ Apart(r) /\ RunKept(r) /\ CountersKept(r)
         /\ worker'[r].pc = "blame"
         /\ worker'[r].job = None
         /\ worker'[r].todo = worker[r].todo
<1>0. /\ run \in [Run -> RunRow]
      /\ worker \in [Run -> WorkerRow] /\ worker[r] \in WorkerRow
  BY DEF TypeOK
<1> DEFINE row == [worker[r] EXCEPT !.pc = "blame", !.job = None]
<1>1. row \in WorkerRow /\ row.pc = "blame" /\ row.todo = worker[r].todo /\ row.job = None
  BY <1>0 DEF WorkerRow, WorkerPc
<1>2. worker' = [worker EXCEPT ![r] = row] /\ UNCHANGED run
  BY <1>0 DEF FailJob
<1> HIDE DEF row
<1> QED
  BY <1>0, <1>1, <1>2, WorkerReplaced DEF Apart, RunKept, CountersKept

LEMMA CountFailedEffect ==
  ASSUME TypeOK, NEW r \in Run, CountFailed(r)
  PROVE  /\ Apart(r) /\ RunKept(r)
         /\ run'[r].total = run[r].total
         /\ run'[r].done = run[r].done
         /\ run'[r].failed = run[r].failed + 1
         /\ worker'[r].pc = AfterJob(r)
         /\ worker'[r].job = worker[r].job
         /\ worker'[r].todo = worker[r].todo
<1>0. run \in [Run -> RunRow] /\ run[r] \in RunRow
  BY DEF TypeOK
<1> DEFINE less == [run[r] EXCEPT !.failed = @ + 1]
<1>1. /\ less \in RunRow /\ less.status = run[r].status /\ less.owned = run[r].owned
      /\ less.fresh = run[r].fresh /\ less.current = run[r].current
      /\ less.total = run[r].total /\ less.failed = run[r].failed + 1
      /\ less.done = run[r].done
  BY <1>0, RunRows DEF RunRow
<1>2. run' = [run EXCEPT ![r] = less]
  BY <1>0 DEF CountFailed, Blamed
<1>3. Goto(r, AfterJob(r)) /\ AfterJob(r) \in {"finish", "check"}
  BY DEF CountFailed, AfterJob
<1> HIDE DEF less
<1>4. /\ run' \in [Run -> RunRow]
      /\ run'[r] = less
      /\ \A s \in Run : s # r => run'[s] = run[s]
  BY <1>1, <1>2, RowReplaced
<1>5. /\ worker' \in [Run -> WorkerRow]
      /\ \A s \in Run : s # r => worker'[s] = worker[s]
      /\ worker'[r].pc = AfterJob(r)
      /\ worker'[r].job = worker[r].job
      /\ worker'[r].todo = worker[r].todo
  BY <1>3, Moved DEF WorkerPc
<1> QED
  BY <1>1, <1>4, <1>5 DEF Apart, RunKept

(***************************************************************************)
(* Types.                                                                  *)
(***************************************************************************)
LEMMA TypeInit == Init => TypeOK
BY PipelineAssumption DEF Init, TypeOK, Idle, Control, NoRun, RunRow, NoWorker, WorkerRow,
   WorkerPc, Outcome, Status, Run

LEMMA TypeService ==
  ASSUME TypeOK, ServiceStep
  PROVE  TypeOK'
<1>0. /\ ctl \in Control
      /\ ctl.pc \in {"spawn", "stamp", "probe", "write"} => ctl.run \in Run
      /\ Idle \in Control
      /\ run \in [Run -> RunRow]
  BY DEF TypeOK, Idle, Control
<1>1. CASE StartRead
  BY <1>1 DEF TypeOK, StartRead, Idle, Control
<1>2. CASE StartSpawn
  <2>1. Goto(ctl.run, "boot") /\ ctl.run \in Run
    BY <1>0, <1>2 DEF StartSpawn, Goto
  <2>2. /\ worker' \in [Run -> WorkerRow]
        /\ \A s \in Run : s # ctl.run => worker'[s] = worker[s]
        /\ worker'[ctl.run].pc = "boot"
    BY <2>1, Moved DEF WorkerPc
  <2> QED
    BY <1>2, <2>1, <2>2 DEF TypeOK, StartSpawn, Control
<1>3. CASE SpawnFails
  <2>1. run' \in [Run -> RunRow]
    BY <1>0, <1>3, RunClosed DEF SpawnFails, Ended
  <2> QED
    BY <1>0, <1>3, <2>1 DEF TypeOK, SpawnFails, Idle
<1>4. CASE StartStamp
  <2>1. run' = [run EXCEPT ![ctl.run] =
                  [run[ctl.run] EXCEPT !.owned = TRUE, !.fresh = TRUE]]
    BY <1>0, <1>4 DEF StartStamp
  <2>2. run' \in [Run -> RunRow]
    BY <1>0, <1>4, <2>1, RowReplaced, RunRows DEF StartStamp
  <2> QED
    BY <1>0, <1>4, <2>2 DEF TypeOK, StartStamp, Idle
<1>5. ASSUME NEW r \in Run, StartCreate(r)
      PROVE  TypeOK'
  <2>1. run' \in [Run -> RunRow]
    BY <1>5, StatusWritten DEF StartCreate, Active
  <2> QED
    BY <1>5, <2>1 DEF TypeOK, StartCreate, Control
<1>6. ASSUME NEW r \in Run, CancelRead(r)
      PROVE  TypeOK'
  BY <1>6 DEF TypeOK, CancelRead, Idle, Control
<1>7. ASSUME NEW r \in Run, NEW op \in {"pause", "resume"}, SignalRead(op, r)
      PROVE  TypeOK'
  BY <1>7 DEF TypeOK, SignalRead, Idle, Control
<1>8. CASE SignalWrite
  <2>1. run' \in [Run -> RunRow]
    BY <1>0, <1>8, StatusWritten DEF SignalWrite, Active
  <2> QED
    BY <1>0, <1>8, <2>1 DEF TypeOK, SignalWrite, Idle
<1>9. CASE CancelProbe
  <2>1. HandleLive \in BOOLEAN
    BY DEF HandleLive, Live
  <2> QED
    BY <1>9, <2>1 DEF TypeOK, CancelProbe, Control
<1>10. CASE CancelWrite
  <2>1. run' \in [Run -> RunRow]
    BY <1>0, <1>10, RunClosed, StatusWritten DEF CancelWrite, Active, Ended
  <2> QED
    BY <1>0, <1>10, <2>1 DEF TypeOK, CancelWrite, Idle
<1> QED
  BY <1>1, <1>2, <1>3, <1>4, <1>5, <1>6, <1>7, <1>8, <1>9, <1>10 DEF ServiceStep

(* The last-resort boundary fails the run, or leaves the row as it is.     *)
LEMMA FailsRow ==
  ASSUME TypeOK, NEW r \in Run, WorkerFails(r)
  PROVE  /\ run' \in [Run -> RunRow]
         /\ \A s \in Run : s # r => run'[s] = run[s]
         /\ run'[r].owned = run[r].owned
         /\ CountersKept(r)
         /\ \/ run'[r].status = run[r].status /\ run'[r].current = run[r].current
            \/ run'[r].status = "failed" /\ run'[r].current = None
<1>1. CASE UNCHANGED run
  BY <1>1 DEF TypeOK, CountersKept
<1>2. CASE run' = Closed(r, "failed")
  BY <1>2, RunClosed DEF Ended, CountersKept
<1> QED
  BY <1>1, <1>2 DEF WorkerFails, MarkFailed

(* What every step of a worker leaves alone, and what it may write: its    *)
(* own row, its own run, and the status of the job it works on.            *)
LEMMA WorkerFrame ==
  ASSUME TypeOK, NEW r \in Run, WorkerStep(r)
  PROVE  /\ UNCHANGED <<life, ctl, handle, orphan>>
         /\ Apart(r)
         /\ run'[r].owned = run[r].owned
         /\ run'[r].status = run[r].status \/ run'[r].status \in Active \cup Ended
         /\ Live(r)
         /\ worker'[r].pc \in {"open", "work", "count", "settle", "raised"} =>
              worker'[r].job \in Job
         /\ job' \in [Job -> Status]
<1>0. /\ worker[r] \in WorkerRow
      /\ job \in [Job -> Status]
      /\ worker[r].pc \in {"open", "work", "count", "settle", "raised"} =>
           worker[r].job \in Job
  BY DEF TypeOK
<1>1. CASE BootRead(r)
  BY <1>0, <1>1, BootReadEffect DEF BootRead, RunKept, Live
<1>2. CASE BootBeat(r)
  BY <1>0, <1>2, BootBeatEffect DEF BootBeat, Live
<1>3. CASE WorkerFails(r)
  <2>1. /\ run' \in [Run -> RunRow]
        /\ \A s \in Run : s # r => run'[s] = run[s]
        /\ run'[r].owned = run[r].owned
        /\ run'[r].status \in {run[r].status, "failed"}
    BY <1>3, FailsRow
  <2> QED
    BY <1>0, <1>3, <2>1, Moved DEF WorkerFails, Unguarded, Apart, Live, Ended, WorkerPc
<1>4. CASE Load(r)
  BY <1>0, <1>4, LoadEffect DEF Load, RunKept, Live
<1>5. CASE Check(r)
  <2>1. PICK pc \in {"cancel", "pause", "exiting", "take"} : Goto(r, pc)
    BY <1>5 DEF Check, Passes
  <2>2. run' = [run EXCEPT ![r].fresh = TRUE]
    BY <1>5 DEF Check
  <2>3. /\ run' \in [Run -> RunRow]
        /\ \A s \in Run : s # r => run'[s] = run[s]
        /\ run'[r].status = run[r].status
        /\ run'[r].owned = run[r].owned
    BY <2>2, Stamped
  <2> QED
    BY <1>0, <1>5, <2>1, <2>3, Moved DEF Check, Apart, Live, WorkerPc
<1>6. CASE PauseWrite(r)
  <2>1. /\ run' \in [Run -> RunRow]
        /\ \A s \in Run : s # r => run'[s] = run[s]
        /\ run'[r].status = "paused"
        /\ run'[r].owned = run[r].owned
    BY <1>6, StatusWritten DEF PauseWrite, Active
  <2> QED
    BY <1>0, <1>6, <2>1, Moved DEF PauseWrite, Apart, Live, WorkerPc, Active
<1>7. CASE WaitPoll(r)
  <2>1. PICK pc \in {"resume", "cancel", "exiting", "wait"} : Goto(r, pc)
    BY <1>7 DEF WaitPoll, Wakes
  <2>2. run' = [run EXCEPT ![r].fresh = TRUE]
    BY <1>7 DEF WaitPoll
  <2>3. /\ run' \in [Run -> RunRow]
        /\ \A s \in Run : s # r => run'[s] = run[s]
        /\ run'[r].status = run[r].status
        /\ run'[r].owned = run[r].owned
    BY <2>2, Stamped
  <2> QED
    BY <1>0, <1>7, <2>1, <2>3, Moved DEF WaitPoll, Apart, Live, WorkerPc
<1>8. CASE ResumeWrite(r)
  <2>1. PICK pc \in {"load", "take"} : Goto(r, pc)
    BY <1>0, <1>8 DEF ResumeWrite, WorkerRow
  <2>2. /\ run' \in [Run -> RunRow]
        /\ \A s \in Run : s # r => run'[s] = run[s]
        /\ run'[r].status = "running"
        /\ run'[r].owned = run[r].owned
    BY <1>8, StatusWritten DEF ResumeWrite, Active
  <2> QED
    BY <1>0, <1>8, <2>1, <2>2, Moved DEF ResumeWrite, Apart, Live, WorkerPc, Active
<1>9. CASE FinishCancelled(r)
  BY <1>0, <1>9, RunClosed, Moved DEF FinishCancelled, Apart, Live, Ended, WorkerPc
<1>10. ASSUME NEW j \in Job, Take(r, j)
       PROVE  /\ Apart(r)
              /\ run'[r].owned = run[r].owned
              /\ run'[r].status = run[r].status
              /\ worker[r].pc = "take"
              /\ worker'[r].job \in Job
              /\ UNCHANGED <<life, ctl, handle, job, orphan>>
  BY <1>10, TakeEffect DEF Take
<1>11. ASSUME worker[r].job \in Job, NEW status \in Status, Upsert(r, status)
       PROVE  job' \in [Job -> Status]
  BY <1>0, <1>11, UpsertedStatus DEF Upsert
<1>12. CASE OpenJob(r)
  <2>1. job' \in [Job -> Status]
    BY <1>0, <1>11, <1>12 DEF OpenJob, Status
  <2>2. Goto(r, "work") /\ UNCHANGED run
    BY <1>12 DEF OpenJob
  <2>3. run' \in [Run -> RunRow]
    BY <2>2 DEF TypeOK
  <2> QED
    BY <1>0, <1>12, <2>1, <2>2, <2>3, Moved DEF OpenJob, Apart, Live, WorkerPc
<1>13. CASE Work(r)
  BY <1>0, <1>13, WorkEffect DEF Work, RunKept, Live
<1>14. CASE Count(r)
  BY <1>0, <1>14, CountEffect DEF Count, RunKept, Live
<1>15. AfterJob(r) \in {"finish", "check"}
  BY DEF AfterJob
<1>16. CASE SettleJob(r)
  <2>1. worker[r].out \in Status
    BY <1>0 DEF WorkerRow, Outcome, Status
  <2>2. job' \in [Job -> Status]
    BY <1>0, <1>11, <1>16, <2>1 DEF SettleJob
  <2> QED
    BY <1>0, <1>15, <1>16, <2>2, SettleEffect DEF SettleJob, RunKept, Live
<1>17. CASE Raise(r)
  <2>1. Goto(r, "raised") /\ UNCHANGED run /\ run \in [Run -> RunRow]
    BY <1>17 DEF Raise, TypeOK
  <2>2. worker[r].out \in Status
    BY <1>0 DEF WorkerRow, Outcome, Status
  <2>3. job' \in [Job -> Status]
    BY <1>0, <1>11, <1>17, <2>2 DEF Raise
  <2> QED
    BY <1>0, <1>17, <2>1, <2>3, Moved DEF Raise, Apart, Live, WorkerPc
<1>18. CASE FailJob(r)
  <2>1. job' \in [Job -> Status]
    BY <1>0, <1>11, <1>18 DEF FailJob, Status
  <2> QED
    BY <1>0, <1>18, <2>1, FailEffect DEF FailJob, RunKept, Live
<1>19. CASE CountFailed(r)
  BY <1>0, <1>15, <1>19, CountFailedEffect DEF CountFailed, RunKept, Live
<1>20. CASE Finish(r)
  BY <1>0, <1>20, RunClosed, Moved DEF Finish, Apart, Live, Ended, WorkerPc
<1>21. CASE Exit(r)
  <2>1. Goto(r, "gone") /\ UNCHANGED run /\ run \in [Run -> RunRow]
    BY <1>21 DEF Exit, TypeOK
  <2> QED
    BY <1>0, <1>21, <2>1, Moved DEF Exit, Apart, Live, WorkerPc
<1> QED
  BY <1>0, <1>1, <1>2, <1>3, <1>4, <1>5, <1>6, <1>7, <1>8, <1>9, <1>10, <1>12, <1>13,
     <1>14, <1>16, <1>17, <1>18, <1>19, <1>20, <1>21 DEF WorkerStep, GoesOn, Live

LEMMA TypeWorker ==
  ASSUME TypeOK, NEW r \in Run, WorkerStep(r)
  PROVE  TypeOK'
BY WorkerFrame DEF TypeOK, Apart

Surrounded ==
  \/ \E r \in Run : Kill(r) \/ Expire(r)
  \/ Stop \/ StopEnds \/ Crash \/ Startup
  \/ \E j \in Job : Retry(j)

(* A worker that dies leaves its row, but for its place in the program.    *)
LEMMA Stopped ==
  ASSUME TypeOK, Stop
  PROVE  /\ worker' \in [Run -> WorkerRow]
         /\ \A r \in Run :
              /\ worker'[r].pc = IF r = handle /\ Live(r) THEN "gone" ELSE worker[r].pc
              /\ worker'[r].job = worker[r].job
              /\ worker'[r].todo = worker[r].todo
<1>1. ASSUME NEW r \in Run
      PROVE  /\ worker'[r] \in WorkerRow
             /\ worker'[r].pc = IF r = handle /\ Live(r) THEN "gone" ELSE worker[r].pc
             /\ worker'[r].job = worker[r].job
             /\ worker'[r].todo = worker[r].todo
  <2>1. worker[r] \in WorkerRow
    BY DEF TypeOK
  <2>2. worker'[r] = IF r = handle /\ Live(r) THEN [worker[r] EXCEPT !.pc = "gone"]
                                              ELSE worker[r]
    BY DEF Stop
  <2> QED
    BY <2>1, <2>2 DEF WorkerRow, WorkerPc
<1>2. worker' \in [Run -> WorkerRow]
  BY <1>1 DEF Stop
<1> QED
  BY <1>1, <1>2

(* Recovery changes the status of the rows it takes, and of their jobs.    *)
LEMMA Recovered ==
  ASSUME TypeOK, Startup
  PROVE  /\ run' \in [Run -> RunRow]
         /\ \A r \in Run :
              /\ run'[r].status = IF r \in ActiveRuns /\ Stale(r) THEN "recovered"
                                                                ELSE run[r].status
              /\ run'[r].fresh = run[r].fresh
              /\ run'[r].current = run[r].current
              /\ run'[r].owned = run[r].owned
              /\ run'[r].total = run[r].total
              /\ run'[r].done = run[r].done
              /\ run'[r].failed = run[r].failed
         /\ job' \in [Job -> Status]
<1>1. ASSUME NEW r \in Run
      PROVE  /\ run'[r] \in RunRow
             /\ run'[r].status = IF r \in ActiveRuns /\ Stale(r) THEN "recovered"
                                                               ELSE run[r].status
             /\ run'[r].fresh = run[r].fresh
             /\ run'[r].current = run[r].current
             /\ run'[r].owned = run[r].owned
             /\ run'[r].total = run[r].total
             /\ run'[r].done = run[r].done
             /\ run'[r].failed = run[r].failed
  <2>1. run[r] \in RunRow
    BY DEF TypeOK
  <2>2. run'[r] = IF r \in ActiveRuns /\ Stale(r)
                  THEN [run[r] EXCEPT !.status = "recovered"] ELSE run[r]
    BY DEF Startup
  <2> QED
    BY <2>1, <2>2 DEF RunRow, Terminal
<1>2. run' \in [Run -> RunRow]
  BY <1>1 DEF Startup
<1>3. job' \in [Job -> Status]
  BY DEF Startup, JobsRecovered, TypeOK, Status
<1> QED
  BY <1>1, <1>2, <1>3

LEMMA TypeSurroundings ==
  ASSUME TypeOK, Surrounded
  PROVE  TypeOK'
<1>0. Idle \in Control
  BY DEF Idle, Control
<1>1. ASSUME NEW r \in Run, Kill(r)
      PROVE  TypeOK'
  BY <1>1, Moved DEF TypeOK, Kill, WorkerPc
<1>2. ASSUME NEW r \in Run, Expire(r)
      PROVE  TypeOK'
  BY <1>2, Stamped DEF TypeOK, Expire
<1>3. CASE Stop
  <2>1. /\ worker' \in [Run -> WorkerRow]
        /\ \A r \in Run : /\ worker'[r].pc \in {worker[r].pc, "gone"}
                          /\ worker'[r].job = worker[r].job
    BY <1>3, Stopped
  <2> QED
    BY <1>3, <2>1 DEF TypeOK, Stop
<1>4. CASE StopEnds \/ Crash
  <2>1. /\ life' \in {"stopped", "down"} /\ ctl' \in {ctl, Idle} /\ handle' = 0
        /\ orphan' = orphan \cup {r \in Run : Live(r)}
        /\ UNCHANGED <<run, job, worker>>
    BY <1>4 DEF StopEnds, Crash, Lost
  <2>2. /\ ctl' \in Control
        /\ ctl'.pc \in {"spawn", "stamp", "probe", "write"} => ctl'.run \in Run
    <3>1. Idle.pc = "read"
      BY DEF Idle
    <3> QED
      BY <1>0, <2>1, <3>1 DEF TypeOK
  <2>3. orphan' \subseteq Run
    BY <2>1 DEF TypeOK
  <2> QED
    BY <2>1, <2>2, <2>3 DEF TypeOK
<1>5. CASE Startup
  BY <1>5, Recovered DEF TypeOK, Startup
<1>6. ASSUME NEW j \in Job, Retry(j)
      PROVE  TypeOK'
  BY <1>6 DEF TypeOK, Retry, Status
<1> QED
  BY <1>1, <1>2, <1>3, <1>4, <1>5, <1>6 DEF Surrounded

LEMMA TypeStep == TypeOK /\ [Next]_vars => TypeOK'
<1> SUFFICES ASSUME TypeOK, [Next]_vars
             PROVE  TypeOK'
  OBVIOUS
<1>1. CASE UNCHANGED vars
  BY <1>1 DEF vars, TypeOK
<1>2. CASE Next
  BY <1>2, TypeService, TypeWorker, TypeSurroundings DEF Next, Surrounded
<1> QED
  BY <1>1, <1>2

(* Every variable of the model keeps its type: the rows, the control under *)
(* way and the workers are what the code could have written.               *)
THEOREM TypeCorrect == Spec => []TypeOK
<1>1. Init => TypeOK
  BY TypeInit
<1>2. TypeOK /\ [Next]_vars => TypeOK'
  BY TypeStep
<1> QED
  BY <1>1, <1>2, PTL DEF Spec

(***************************************************************************)
(* One run at a time.                                                      *)
(***************************************************************************)

(* A run that is in the way of another start.                              *)
Busy(r) == run[r].status \in Active \/ Live(r)

(* No run but r is in the way, of those the service still has a hold on.   *)
OnlyBusy(r) == \A s \in Run \ orphan : Busy(s) => s = r

(* The service dies with its controls and its process object.              *)
DownIsIdle == ~Up => ctl = Idle /\ handle = 0

(* Every worker that the service has not lost is the one it holds.         *)
LiveIsHeld == \A r \in Run : Live(r) => r \in orphan \/ handle = r

(* A run that was never created has no worker.                             *)
AbsentIsIdle ==
  \A r \in Run : run[r].status = "absent" => worker[r].pc = "none" /\ r \notin orphan

(* What a start knows at each of its steps.                                *)
StartKnows ==
  /\ ctl.pc = "create" => \A r \in Run \ orphan : ~Busy(r)
  /\ ctl.pc \in {"spawn", "stamp"} => OnlyBusy(ctl.run)
  /\ ctl.pc = "spawn" => /\ ctl.run \notin orphan
                         /\ run[ctl.run].status \in Active
                         /\ worker[ctl.run].pc = "none"

(* What pause, resume and cancel know of the run whose row they read.      *)
ControlKnows ==
  ctl.pc \in {"probe", "write"} => ctl.run \in orphan \/ OnlyBusy(ctl.run)

ServiceInv ==
  /\ DownIsIdle /\ LiveIsHeld /\ AbsentIsIdle /\ StartKnows /\ ControlKnows
  /\ OneRunAtATime

(* A step that makes no run busy and leaves the service alone.             *)
LEMMA CalmStep ==
  ASSUME TypeOK, ServiceInv, UNCHANGED <<life, ctl, handle, orphan>>,
         \A s \in Run : (Busy(s)' => Busy(s)) /\ (Live(s)' => Live(s)),
         \A s \in Run : run'[s].status = "absent" =>
           run[s].status = "absent" /\ worker'[s].pc = worker[s].pc,
         ctl.pc = "spawn" => /\ run'[ctl.run].status = run[ctl.run].status
                             /\ worker'[ctl.run].pc = worker[ctl.run].pc
  PROVE  ServiceInv'
<1>1. DownIsIdle'
  BY DEF ServiceInv, DownIsIdle, Up
<1>2. LiveIsHeld'
  BY DEF ServiceInv, LiveIsHeld
<1>3. AbsentIsIdle'
  BY DEF ServiceInv, AbsentIsIdle
<1>4. StartKnows'
  BY DEF ServiceInv, StartKnows, OnlyBusy
<1>5. ControlKnows'
  BY DEF ServiceInv, ControlKnows, OnlyBusy
<1>6. OneRunAtATime'
  BY DEF ServiceInv, OneRunAtATime, Busy
<1> QED
  BY <1>1, <1>2, <1>3, <1>4, <1>5, <1>6 DEF ServiceInv

LEMMA ServiceInvWorker ==
  ASSUME TypeOK, ServiceInv, NEW r \in Run, WorkerStep(r)
  PROVE  ServiceInv'
<1>1. /\ UNCHANGED <<life, ctl, handle, orphan>>
      /\ \A s \in Run : s # r => run'[s] = run[s] /\ worker'[s] = worker[s]
      /\ run'[r].status = run[r].status \/ run'[r].status \in Active \cup Ended
      /\ Live(r)
  BY WorkerFrame DEF Apart
<1>2. \A s \in Run : (Busy(s)' => Busy(s)) /\ (Live(s)' => Live(s))
  BY <1>1 DEF Busy, Live
<1>3. run[r].status # "absent" /\ run'[r].status # "absent"
  BY <1>1 DEF ServiceInv, AbsentIsIdle, Live, Active, Ended
<1>4. ctl.pc = "spawn" => ctl.run \in Run /\ ctl.run # r
  BY <1>1 DEF ServiceInv, StartKnows, Live, TypeOK
<1> QED
  BY <1>1, <1>2, <1>3, <1>4, CalmStep

LEMMA ServiceInvService ==
  ASSUME TypeOK, ServiceInv, ServiceStep
  PROVE  ServiceInv'
<1>0. /\ ctl \in Control
      /\ ctl.pc \in {"spawn", "stamp", "probe", "write"} => ctl.run \in Run
      /\ run \in [Run -> RunRow] /\ worker \in [Run -> WorkerRow]
      /\ DownIsIdle /\ LiveIsHeld /\ AbsentIsIdle /\ StartKnows /\ ControlKnows
      /\ OneRunAtATime
  BY DEF TypeOK, ServiceInv
<1>1. CASE StartRead
  <2>0. \A s \in Run : s # 0
    BY PipelineAssumption DEF Run
  <2>1. \A s \in Run \ orphan : ~Busy(s)
    BY <1>0, <1>1, <2>0 DEF StartRead, MayStart, ActiveRuns, Busy, LiveIsHeld, HandleLive
  <2>2. ctl'.pc = "create" /\ Up /\ UNCHANGED <<life, handle, run, worker, orphan>>
    BY <1>1 DEF StartRead, Idle
  <2> QED
    BY <1>0, <2>1, <2>2 DEF ServiceInv, DownIsIdle, LiveIsHeld, AbsentIsIdle, StartKnows,
       ControlKnows, OneRunAtATime, Busy, Live, Up
<1>2. CASE StartSpawn
  <2>1. Goto(ctl.run, "boot") /\ ctl.run \in Run /\ Up /\ ctl.run \notin orphan
    BY <1>0, <1>2 DEF StartSpawn, Goto, DownIsIdle, Idle, StartKnows
  <2>2. /\ worker' \in [Run -> WorkerRow]
        /\ \A s \in Run : s # ctl.run => worker'[s] = worker[s]
        /\ worker'[ctl.run].pc = "boot"
    BY <2>1, Moved DEF WorkerPc
  <2>3. /\ OnlyBusy(ctl.run)
        /\ run[ctl.run].status \in Active /\ run[ctl.run].status # "absent"
    BY <1>0, <1>2 DEF StartSpawn, StartKnows, Active
  <2>4. /\ ctl'.pc = "stamp" /\ ctl'.run = ctl.run /\ handle' = ctl.run
        /\ UNCHANGED <<life, run, orphan>>
    BY <1>0, <1>2 DEF StartSpawn, Control
  <2>5. \A s \in Run \ orphan : Busy(s)' => s = ctl.run
    BY <2>2, <2>3, <2>4 DEF OnlyBusy, Busy, Live
  <2>6. LiveIsHeld'
    BY <2>2, <2>4, <2>5, <1>0 DEF LiveIsHeld, Busy, Live
  <2>7. AbsentIsIdle'
    BY <1>0, <2>2, <2>3, <2>4 DEF AbsentIsIdle
  <2>8. OneRunAtATime'
    BY <2>4, <2>5 DEF OneRunAtATime, Busy
  <2>9. StartKnows' /\ ControlKnows' /\ DownIsIdle'
    BY <2>1, <2>4, <2>5 DEF StartKnows, ControlKnows, DownIsIdle, OnlyBusy, Up
  <2> QED
    BY <2>6, <2>7, <2>8, <2>9 DEF ServiceInv
<1>3. ASSUME NEW r \in Run, NEW st \in Active \cup Ended,
             ctl.pc \in {"spawn", "stamp", "probe", "write"}, r = ctl.run,
             ctl' = Idle, UNCHANGED <<life, handle, worker, orphan>>,
             \A s \in Run : s # r => run'[s] = run[s],
             run'[r].status = st
      PROVE  ServiceInv'
  <2>1. Up
    BY <1>0, <1>3 DEF DownIsIdle, Idle
  <2>2. r \in orphan \/ OnlyBusy(r)
    BY <1>0, <1>3 DEF StartKnows, ControlKnows
  <2>3. \A s \in Run \ orphan : Busy(s)' => Busy(s) \/ s = r
    BY <1>3 DEF Busy, Live
  <2>4. OneRunAtATime'
    BY <1>0, <1>3, <2>2, <2>3 DEF OneRunAtATime, OnlyBusy, Busy
  <2>5. AbsentIsIdle'
    BY <1>0, <1>3 DEF AbsentIsIdle, Active, Ended
  <2> QED
    BY <1>0, <1>3, <2>1, <2>4, <2>5 DEF ServiceInv, DownIsIdle, LiveIsHeld, StartKnows,
       ControlKnows, Idle, Live, Up
<1>4. CASE SpawnFails
  <2>1. /\ ctl.run \in Run
        /\ \A s \in Run : s # ctl.run => run'[s] = run[s]
        /\ run'[ctl.run].status = "failed"
    BY <1>0, <1>4, RunClosed DEF SpawnFails, Ended
  <2> QED
    BY <1>3, <1>4, <2>1 DEF SpawnFails, Ended
<1>5. CASE StartStamp
  <2>1. ctl.run \in Run /\ run[ctl.run] \in RunRow
    BY <1>0, <1>5 DEF StartStamp
  <2>2. run' = [run EXCEPT ![ctl.run] =
                  [run[ctl.run] EXCEPT !.owned = TRUE, !.fresh = TRUE]]
    BY <1>0, <1>5 DEF StartStamp
  <2>3. [run[ctl.run] EXCEPT !.owned = TRUE, !.fresh = TRUE].status = run[ctl.run].status
    BY <2>1 DEF RunRow
  <2>4. \A s \in Run : run'[s].status = run[s].status
    BY <2>1, <2>2, <2>3, RowReplaced, RunRows
  <2>5. Up /\ ctl' = Idle /\ UNCHANGED <<life, handle, worker, orphan>>
    BY <1>0, <1>5 DEF StartStamp, DownIsIdle, Idle
  <2> QED
    BY <1>0, <2>4, <2>5 DEF ServiceInv, DownIsIdle, LiveIsHeld, AbsentIsIdle, StartKnows,
       ControlKnows, OneRunAtATime, Busy, Live, Idle, Up
<1>6. ASSUME NEW r \in Run, StartCreate(r)
      PROVE  ServiceInv'
  <2>1. /\ \A s \in Run : s # r => run'[s] = run[s]
        /\ run'[r].status = "running"
    BY <1>6, StatusWritten DEF StartCreate, Active
  <2>2. worker[r].pc = "none" /\ r \notin orphan
    BY <1>0, <1>6 DEF StartCreate, AbsentIsIdle
  <2>3. /\ ctl'.pc = "spawn" /\ ctl'.run = r /\ Up
        /\ UNCHANGED <<life, handle, worker, orphan>>
    BY <1>0, <1>6 DEF StartCreate, Control, DownIsIdle, Idle
  <2>4. \A s \in Run \ orphan : ~Busy(s)
    BY <1>0, <1>6 DEF StartCreate, StartKnows
  <2>5. \A s \in Run \ orphan : Busy(s)' => s = r
    BY <2>1, <2>3, <2>4 DEF Busy, Live
  <2>6. OneRunAtATime'
    BY <2>3, <2>5 DEF OneRunAtATime, Busy
  <2>7. StartKnows' /\ ControlKnows'
    BY <2>1, <2>2, <2>3, <2>5 DEF StartKnows, ControlKnows, OnlyBusy, Active
  <2>8. DownIsIdle' /\ LiveIsHeld' /\ AbsentIsIdle'
    BY <1>0, <2>1, <2>3 DEF DownIsIdle, LiveIsHeld, AbsentIsIdle, Live, Up
  <2> QED
    BY <2>6, <2>7, <2>8 DEF ServiceInv
<1>7. ASSUME NEW r \in Run, r \in ActiveRuns, Up, ctl'.run = r,
             ctl'.pc \in {"probe", "write"}, UNCHANGED <<life, handle, run, worker, orphan>>
      PROVE  ServiceInv'
  <2>1. r \in orphan \/ OnlyBusy(r)
    BY <1>0, <1>7 DEF ActiveRuns, OneRunAtATime, OnlyBusy, Busy
  <2> QED
    BY <1>0, <1>7, <2>1 DEF ServiceInv, DownIsIdle, LiveIsHeld, AbsentIsIdle, StartKnows,
       ControlKnows, OneRunAtATime, OnlyBusy, Busy, Live, Up
<1>8. ASSUME NEW r \in Run, CancelRead(r)
      PROVE  ServiceInv'
  BY <1>7, <1>8 DEF CancelRead, IsLatestActive, Idle, Up
<1>9. ASSUME NEW r \in Run, NEW op \in {"pause", "resume"}, SignalRead(op, r)
      PROVE  ServiceInv'
  BY <1>7, <1>9 DEF SignalRead, IsLatestActive, Idle, Up
<1>10. CASE SignalWrite
  <2>1. PICK st \in Active : run' = [run EXCEPT ![ctl.run].status = st]
    BY <1>10 DEF SignalWrite, Active
  <2>2. /\ ctl.run \in Run
        /\ \A s \in Run : s # ctl.run => run'[s] = run[s]
        /\ run'[ctl.run].status = st
    BY <1>0, <1>10, <2>1, StatusWritten DEF SignalWrite
  <2> QED
    BY <1>3, <1>10, <2>2 DEF SignalWrite
<1>11. CASE CancelProbe
  <2>1. ctl'.pc = "write" /\ ctl'.run = ctl.run /\ UNCHANGED <<life, handle, run, worker, orphan>>
    BY <1>0, <1>11 DEF CancelProbe, Control
  <2>2. Up
    BY <1>0, <1>11 DEF CancelProbe, DownIsIdle, Idle
  <2> QED
    BY <1>0, <1>11, <2>1, <2>2 DEF CancelProbe, ServiceInv, DownIsIdle, LiveIsHeld,
       AbsentIsIdle, StartKnows, ControlKnows, OneRunAtATime, OnlyBusy, Busy, Live, Up
<1>12. CASE CancelWrite
  <2>1. ctl.run \in Run
    BY <1>0, <1>12 DEF CancelWrite
  <2>2. PICK st \in {"cancelling", "cancelled"} :
          /\ \A s \in Run : s # ctl.run => run'[s] = run[s]
          /\ run'[ctl.run].status = st
    <3>1. CASE ctl.alive
      BY <1>12, <2>1, <3>1, StatusWritten DEF CancelWrite, Active
    <3>2. CASE ~ctl.alive
      BY <1>12, <2>1, <3>2, RunClosed DEF CancelWrite, Ended
    <3> QED
      BY <3>1, <3>2
  <2> QED
    BY <1>3, <1>12, <2>1, <2>2 DEF CancelWrite, Active, Ended
<1> QED
  BY <1>1, <1>2, <1>4, <1>5, <1>6, <1>8, <1>9, <1>10, <1>11, <1>12 DEF ServiceStep

LEMMA ServiceInvSurroundings ==
  ASSUME TypeOK, ServiceInv, Surrounded
  PROVE  ServiceInv'
<1>0. /\ DownIsIdle /\ LiveIsHeld /\ AbsentIsIdle /\ StartKnows /\ ControlKnows
      /\ OneRunAtATime
  BY DEF ServiceInv
<1>1. ASSUME NEW r \in Run, Kill(r)
      PROVE  ServiceInv'
  <2>1. /\ \A s \in Run : s # r => worker'[s] = worker[s]
        /\ worker'[r].pc = "gone" /\ Live(r)
        /\ UNCHANGED <<life, ctl, handle, run, orphan>>
    BY <1>1, Moved DEF Kill, WorkerPc
  <2>2. run[r].status # "absent"
    BY <1>0, <2>1 DEF AbsentIsIdle, Live
  <2>3. ctl.pc = "spawn" => ctl.run \in Run /\ ctl.run # r
    BY <1>0, <2>1 DEF StartKnows, Live, TypeOK
  <2>4. \A s \in Run : (Busy(s)' => Busy(s)) /\ (Live(s)' => Live(s))
    BY <2>1 DEF Busy, Live
  <2> QED
    BY <2>1, <2>2, <2>3, <2>4, CalmStep
<1>2. ASSUME NEW r \in Run, Expire(r)
      PROVE  ServiceInv'
  <2>1. UNCHANGED <<life, ctl, handle, worker, orphan>>
    BY <1>2 DEF Expire
  <2>2. \A s \in Run : run'[s].status = run[s].status
    BY <1>2, Stamped DEF Expire
  <2>3. \A s \in Run : (Busy(s)' => Busy(s)) /\ (Live(s)' => Live(s))
    BY <2>1, <2>2 DEF Busy, Live
  <2>4. ctl.pc = "spawn" => ctl.run \in Run
    BY DEF TypeOK
  <2> QED
    BY <2>1, <2>2, <2>3, <2>4, CalmStep
<1>3. CASE Stop
  <2>1. \A r \in Run : worker'[r].pc = IF r = handle /\ Live(r) THEN "gone" ELSE worker[r].pc
    BY <1>3, Stopped
  <2>2. Up /\ Up' /\ UNCHANGED <<ctl, handle, run, orphan>>
    BY <1>3 DEF Stop, Up
  <2>3. LiveIsHeld'
    BY <1>0, <2>1, <2>2 DEF LiveIsHeld, Live
  <2>4. \A s \in Run : Busy(s)' => Busy(s)
    BY <2>1, <2>2 DEF Busy, Live
  <2>5. OneRunAtATime'
    BY <1>0, <2>2, <2>4 DEF OneRunAtATime, Busy
  <2>6. AbsentIsIdle'
    BY <1>0, <2>1, <2>2 DEF AbsentIsIdle, Live
  <2>7. ctl.pc = "spawn" => ctl.run \in Run /\ ~ Live(ctl.run)
    BY <1>0 DEF TypeOK, StartKnows, Live
  <2>8. StartKnows' /\ ControlKnows'
    BY <1>0, <2>1, <2>2, <2>4, <2>7 DEF StartKnows, ControlKnows, OnlyBusy, Live
  <2> QED
    BY <2>2, <2>3, <2>5, <2>6, <2>8 DEF ServiceInv, DownIsIdle
<1>4. CASE StopEnds \/ Crash
  <2>1. /\ ctl' = Idle \/ (ctl' = ctl /\ Up')
        /\ handle' = 0 /\ orphan' = orphan \cup {r \in Run : Live(r)}
        /\ UNCHANGED <<run, worker>>
    BY <1>4 DEF StopEnds, Crash, Lost, Up
  <2>2. AbsentIsIdle'
    BY <1>0, <2>1 DEF AbsentIsIdle, Live
  <2>3. LiveIsHeld'
    BY <2>1 DEF LiveIsHeld, Live
  <2>4. OneRunAtATime'
    BY <1>0, <2>1 DEF OneRunAtATime, Live
  <2>5. ctl.pc = "spawn" => ctl.run \in Run /\ ~ Live(ctl.run)
    BY <1>0 DEF TypeOK, StartKnows, Live
  <2>6. StartKnows' /\ ControlKnows' /\ DownIsIdle'
    <3>1. CASE ctl' = Idle
      BY <2>1, <3>1 DEF StartKnows, ControlKnows, DownIsIdle, Idle
    <3>2. CASE ctl' = ctl /\ Up'
      BY <1>0, <2>1, <2>5, <3>2 DEF StartKnows, ControlKnows, DownIsIdle, OnlyBusy, Busy, Live
    <3> QED
      BY <2>1, <3>1, <3>2
  <2> QED
    BY <2>2, <2>3, <2>4, <2>6 DEF ServiceInv
<1>5. CASE Startup
  <2>1. \A r \in Run : run'[r].status \in {run[r].status, "recovered"}
    BY <1>5, Recovered
  <2>2. /\ Up' /\ ctl = Idle /\ handle = 0 /\ UNCHANGED <<ctl, handle, worker, orphan>>
    BY <1>0, <1>5 DEF Startup, DownIsIdle, Up
  <2>3. \A s \in Run : Busy(s)' => Busy(s)
    BY <2>1, <2>2 DEF Busy, Live, Active
  <2>4. OneRunAtATime'
    BY <1>0, <2>2, <2>3 DEF OneRunAtATime, Busy
  <2>5. AbsentIsIdle' /\ LiveIsHeld'
    BY <1>0, <2>1, <2>2 DEF AbsentIsIdle, LiveIsHeld, Live
  <2> QED
    BY <2>2, <2>4, <2>5 DEF ServiceInv, DownIsIdle, StartKnows, ControlKnows, Idle
<1>6. ASSUME NEW j \in Job, Retry(j)
      PROVE  ServiceInv'
  <2>1. UNCHANGED <<life, ctl, handle, run, worker, orphan>>
    BY <1>6 DEF Retry
  <2> QED
    BY <2>1, <1>0 DEF ServiceInv, DownIsIdle, LiveIsHeld, AbsentIsIdle, StartKnows,
       ControlKnows, OneRunAtATime, OnlyBusy, Busy, Live, Up
<1> QED
  BY <1>1, <1>2, <1>3, <1>4, <1>5, <1>6 DEF Surrounded

LEMMA ServiceInvInit == Init => ServiceInv
BY PipelineAssumption DEF Init, ServiceInv, DownIsIdle, LiveIsHeld, AbsentIsIdle, StartKnows,
   ControlKnows, OneRunAtATime, OnlyBusy, Busy, Live, Idle, NoRun, NoWorker, Active, Run

LEMMA ServiceInvStep == TypeOK /\ ServiceInv /\ [Next]_vars => ServiceInv'
<1> SUFFICES ASSUME TypeOK, ServiceInv, [Next]_vars
             PROVE  ServiceInv'
  OBVIOUS
<1>1. CASE UNCHANGED vars
  BY <1>1 DEF vars, ServiceInv, DownIsIdle, LiveIsHeld, AbsentIsIdle, StartKnows,
     ControlKnows, OneRunAtATime, OnlyBusy, Busy, Live, Up
<1>2. CASE Next
  BY <1>2, ServiceInvService, ServiceInvWorker, ServiceInvSurroundings DEF Next, Surrounded
<1> QED
  BY <1>1, <1>2

(* One pipeline at a time, for the runs the service has not lost:          *)
(* at every step of every control, whatever the workers do meanwhile.      *)
THEOREM OneRun == Spec => []OneRunAtATime
<1>1. ServiceInv => OneRunAtATime
  BY DEF ServiceInv
<1> QED
  BY <1>1, TypeInit, TypeStep, ServiceInvInit, ServiceInvStep, PTL DEF Spec

(***************************************************************************)
(* What the service and the surroundings leave to the workers.             *)
(***************************************************************************)

(* The counters of a run and the list and job of a worker belong to the    *)
(* worker: others start it, end it, and write the status of its run.       *)
LEMMA OutsideFrame ==
  ASSUME TypeOK, ServiceInv, ServiceStep \/ Surrounded, NEW s \in Run
  PROVE  /\ run'[s].total = run[s].total
         /\ run'[s].done = run[s].done
         /\ run'[s].failed = run[s].failed
         /\ run'[s].status = "completed" => run[s].status = "completed"
         /\ worker[s].pc \in {"pause", "wait"} /\ run[s].fresh => run'[s].fresh
         /\ worker'[s].todo = worker[s].todo
         /\ worker'[s].job = worker[s].job
         /\ \/ worker'[s].pc \in {worker[s].pc, "gone"}
            \/ worker[s].pc = "none" /\ worker'[s].pc = "boot"
<1>0. /\ ctl.pc \in {"spawn", "stamp", "probe", "write"} => ctl.run \in Run
      /\ run \in [Run -> RunRow] /\ run[s] \in RunRow
      /\ worker \in [Run -> WorkerRow] /\ worker[s] \in WorkerRow
  BY DEF TypeOK
<1>1. CASE StartSpawn
  <2>1. Goto(ctl.run, "boot") /\ ctl.run \in Run /\ worker[ctl.run].pc = "none"
    BY <1>0, <1>1 DEF StartSpawn, Goto, ServiceInv, StartKnows
  <2>2. UNCHANGED run
    BY <1>1 DEF StartSpawn
  <2> QED
    BY <2>1, <2>2, Moved DEF WorkerPc
<1>2. CASE SpawnFails
  <2>1. ctl.run \in Run /\ run' = Closed(ctl.run, "failed") /\ UNCHANGED worker
    BY <1>0, <1>2 DEF SpawnFails
  <2> QED
    BY <2>1, RunClosed DEF Ended
<1>3. CASE StartStamp
  <2>1. ctl.run \in Run /\ run[ctl.run] \in RunRow /\ UNCHANGED worker
    BY <1>0, <1>3 DEF StartStamp
  <2> DEFINE row == [run[ctl.run] EXCEPT !.owned = TRUE, !.fresh = TRUE]
  <2>2. run' = [run EXCEPT ![ctl.run] = row]
    BY <1>0, <1>3 DEF StartStamp
  <2>3. /\ row.status = run[ctl.run].status /\ row.total = run[ctl.run].total
        /\ row.done = run[ctl.run].done /\ row.failed = run[ctl.run].failed
        /\ row.fresh /\ row \in RunRow
    BY <2>1 DEF RunRow
  <2> HIDE DEF row
  <2>4. run'[ctl.run] = row /\ \A q \in Run : q # ctl.run => run'[q] = run[q]
    BY <2>1, <2>2, <2>3, RowReplaced
  <2> QED
    BY <2>1, <2>3, <2>4
<1>4. ASSUME NEW r \in Run, StartCreate(r)
      PROVE  run' = [run EXCEPT ![r].status = "running"] /\ UNCHANGED worker
  BY <1>4 DEF StartCreate
<1>5. ASSUME NEW r \in Run, NEW st \in Active, run' = [run EXCEPT ![r].status = st],
             UNCHANGED worker
      PROVE  /\ run'[s].total = run[s].total
             /\ run'[s].done = run[s].done
             /\ run'[s].failed = run[s].failed
             /\ run'[s].status = "completed" => run[s].status = "completed"
             /\ run'[s].fresh = run[s].fresh
  <2>1. st # "completed"
    BY <1>5 DEF Active
  <2> QED
    BY <1>5, <2>1, StatusWritten
<1>6. CASE StartRead \/ CancelProbe
  BY <1>6 DEF StartRead, CancelProbe
<1>7. ASSUME NEW r \in Run, CancelRead(r)
      PROVE  UNCHANGED <<run, worker>>
  BY <1>7 DEF CancelRead
<1>8. ASSUME NEW r \in Run, NEW op \in {"pause", "resume"}, SignalRead(op, r)
      PROVE  UNCHANGED <<run, worker>>
  BY <1>8 DEF SignalRead
<1>9. CASE SignalWrite
  <2>1. PICK st \in Active : run' = [run EXCEPT ![ctl.run].status = st]
    BY <1>9 DEF SignalWrite, Active
  <2>2. ctl.run \in Run /\ UNCHANGED worker
    BY <1>0, <1>9 DEF SignalWrite
  <2> QED
    BY <1>5, <2>1, <2>2
<1>10. CASE CancelWrite
  <2>1. ctl.run \in Run /\ UNCHANGED worker
    BY <1>0, <1>10 DEF CancelWrite
  <2>2. CASE ctl.alive
    <3>1. run' = [run EXCEPT ![ctl.run].status = "cancelling"]
      BY <1>10, <2>2 DEF CancelWrite
    <3> QED
      BY <1>5, <2>1, <3>1 DEF Active
  <2>3. CASE ~ctl.alive
    <3>1. run' = Closed(ctl.run, "cancelled")
      BY <1>10, <2>3 DEF CancelWrite
    <3> QED
      BY <2>1, <3>1, RunClosed DEF Ended
  <2> QED
    BY <2>2, <2>3
<1>11. CASE ServiceStep
  BY <1>1, <1>2, <1>3, <1>4, <1>5, <1>6, <1>7, <1>8, <1>9, <1>10, <1>11
     DEF ServiceStep, Active
<1>12. ASSUME NEW r \in Run, Kill(r)
       PROVE  /\ UNCHANGED run
              /\ worker'[s].todo = worker[s].todo
              /\ worker'[s].job = worker[s].job
              /\ worker'[s].pc \in {worker[s].pc, "gone"}
  BY <1>12, Moved DEF Kill, WorkerPc
<1>13. ASSUME NEW r \in Run, Expire(r)
       PROVE  /\ UNCHANGED worker
              /\ run'[s].total = run[s].total
              /\ run'[s].done = run[s].done
              /\ run'[s].failed = run[s].failed
              /\ run'[s].status = run[s].status
              /\ worker[s].pc \in {"pause", "wait"} /\ run[s].fresh => run'[s].fresh
  BY <1>13, Stamped DEF Expire, Live
<1>14. CASE Stop
  BY <1>14, Stopped DEF Stop
<1>15. CASE StopEnds \/ Crash
  BY <1>15 DEF StopEnds, Crash
<1>16. CASE Startup
  <2>1. UNCHANGED worker
    BY <1>16 DEF Startup
  <2> QED
    BY <1>16, <2>1, Recovered
<1>17. ASSUME NEW j \in Job, Retry(j)
       PROVE  UNCHANGED <<run, worker>>
  BY <1>17 DEF Retry
<1>18. CASE Surrounded
  BY <1>12, <1>13, <1>14, <1>15, <1>16, <1>17, <1>18 DEF Surrounded
<1> QED
  BY <1>11, <1>18

(***************************************************************************)
(* Recovery.                                                               *)
(***************************************************************************)

(* A worker that is about to wait has just stamped its heartbeat, and the  *)
(* heartbeat of a worker that waits does not expire.                       *)
WaitIsFresh == \A r \in Run : worker[r].pc \in {"pause", "wait"} => run[r].fresh

(* Where the steps of a worker lead.                                       *)
LEMMA WaitIsEntered ==
  ASSUME TypeOK, NEW r \in Run, WorkerStep(r), worker'[r].pc \in {"pause", "wait"}
  PROVE  BootBeat(r) \/ Check(r) \/ PauseWrite(r) \/ WaitPoll(r)
<1>0. worker \in [Run -> WorkerRow] /\ worker[r] \in WorkerRow
  BY DEF TypeOK
<1>1. CASE BootRead(r) \/ Load(r)
  BY <1>1, BootReadEffect, LoadEffect
<1>2. CASE Work(r) \/ \E j \in Job : Take(r, j)
  BY <1>2, WorkEffect, TakeEffect
<1>3. ASSUME NEW pc \in WorkerPc \ {"pause", "wait"}, Goto(r, pc)
      PROVE  FALSE
  BY <1>3, Moved
<1>4. CASE WorkerFails(r) \/ FinishCancelled(r) \/ Finish(r) \/ Exit(r)
  BY <1>3, <1>4 DEF WorkerFails, FinishCancelled, Finish, Exit, WorkerPc
<1>5. CASE OpenJob(r) \/ Count(r) \/ Raise(r)
  BY <1>3, <1>5 DEF OpenJob, Count, Raise, WorkerPc
<1>6. CASE ResumeWrite(r)
  <2>1. worker[r].next \in {"load", "take"}
    BY <1>0 DEF WorkerRow
  <2> QED
    BY <1>3, <1>6, <2>1 DEF ResumeWrite, WorkerPc
<1>7. AfterJob(r) \in {"finish", "check"}
  BY DEF AfterJob
<1>8. CASE SettleJob(r) \/ FailJob(r)
  BY <1>7, <1>8, SettleEffect, FailEffect
<1>9. CASE CountFailed(r)
  BY <1>7, <1>9, CountFailedEffect
<1> QED
  BY <1>1, <1>2, <1>4, <1>5, <1>6, <1>8, <1>9 DEF WorkerStep, GoesOn

LEMMA WaitIsFreshStep == TypeOK /\ ServiceInv /\ WaitIsFresh /\ [Next]_vars => WaitIsFresh'
<1> SUFFICES ASSUME TypeOK, ServiceInv, WaitIsFresh, [Next]_vars
             PROVE  WaitIsFresh'
  OBVIOUS
<1>1. ASSUME NEW r \in Run, WorkerStep(r)
      PROVE  WaitIsFresh'
  <2>1. \A s \in Run : s # r => run'[s] = run[s] /\ worker'[s] = worker[s]
    BY <1>1, WorkerFrame DEF Apart
  <2>2. BootBeat(r) \/ Check(r) \/ WaitPoll(r) => run'[r].fresh
    BY Stamped DEF BootBeat, Check, WaitPoll
  <2>3. PauseWrite(r) => run'[r].fresh = run[r].fresh /\ worker[r].pc = "pause"
    BY StatusWritten DEF PauseWrite, Active
  <2>4. worker'[r].pc \in {"pause", "wait"} => run'[r].fresh
    BY <1>1, <2>2, <2>3, WaitIsEntered DEF WaitIsFresh
  <2> QED
    BY <2>1, <2>4 DEF WaitIsFresh
<1>2. CASE ServiceStep \/ Surrounded
  BY <1>2, OutsideFrame DEF WaitIsFresh
<1>3. CASE UNCHANGED vars
  BY <1>3 DEF vars, WaitIsFresh
<1> QED
  BY <1>1, <1>2, <1>3 DEF Next, Surrounded

(* Only startup recovers a run, and a live worker it takes a run from is   *)
(* one that was lost unrecorded; that worker does not wait.                *)
LEMMA RecoveryStep ==
  ASSUME TypeOK, ServiceInv, WaitIsFresh, [Next]_vars, NEW r \in Run,
         run[r].status # "recovered", run'[r].status = "recovered"
  PROVE  \/ ~Live(r)
         \/ ~run[r].owned /\ r \in orphan /\ worker[r].pc # "wait"
<1>1. ASSUME NEW s \in Run, WorkerStep(s)
      PROVE  FALSE
  BY <1>1, WorkerFrame DEF Apart, Active, Ended
<1>2. CASE ServiceStep
  <2>0. ctl.pc \in {"spawn", "stamp", "probe", "write"} => ctl.run \in Run
    BY DEF TypeOK
  <2>1. CASE SpawnFails
    BY <2>0, <2>1, RunClosed DEF SpawnFails, Ended
  <2>2. CASE StartStamp
    <3>1. ctl.run \in Run /\ run \in [Run -> RunRow] /\ run[ctl.run] \in RunRow
      BY <2>0, <2>2 DEF StartStamp, TypeOK
    <3> QED
      BY <2>2, <3>1 DEF StartStamp, RunRow
  <2>3. ASSUME NEW s \in Run, StartCreate(s)
        PROVE  FALSE
    BY <2>3, StatusWritten DEF StartCreate, Active
  <2>4. CASE SignalWrite
    <3>1. PICK st \in Active : run' = [run EXCEPT ![ctl.run].status = st]
      BY <2>4 DEF SignalWrite, Active
    <3>2. ctl.run \in Run
      BY <2>0, <2>4 DEF SignalWrite
    <3> QED
      BY <3>1, <3>2, StatusWritten DEF Active
  <2>5. CASE CancelWrite
    <3>1. ctl.run \in Run
      BY <2>0, <2>5 DEF CancelWrite
    <3>2. CASE ctl.alive
      BY <2>5, <3>1, <3>2, StatusWritten DEF CancelWrite, Active
    <3>3. CASE ~ctl.alive
      BY <2>5, <3>1, <3>3, RunClosed DEF CancelWrite, Ended
    <3> QED
      BY <3>2, <3>3
  <2>6. UNCHANGED run => FALSE
    OBVIOUS
  <2> QED
    BY <1>2, <2>1, <2>2, <2>3, <2>4, <2>5, <2>6 DEF ServiceStep, StartRead, StartSpawn,
       CancelRead, SignalRead, CancelProbe
<1>3. CASE Startup
  <2>1. Stale(r)
    BY <1>3, Recovered
  <2>2. handle = 0 /\ r # 0
    BY <1>3, PipelineAssumption DEF Startup, ServiceInv, DownIsIdle, Up, Run
  <2>3. Live(r) => r \in orphan
    BY <2>2 DEF ServiceInv, LiveIsHeld
  <2> QED
    BY <2>1, <2>3 DEF Stale, WaitIsFresh
<1>4. ASSUME NEW s \in Run, Expire(s)
      PROVE  FALSE
  BY <1>4, Stamped DEF Expire
<1>5. UNCHANGED run => FALSE
  OBVIOUS
<1> QED
  BY <1>1, <1>2, <1>3, <1>4, <1>5 DEF Next, Kill, Stop, StopEnds, Crash, Retry, vars

LEMMA WaitIsFreshInit == Init => WaitIsFresh
BY DEF Init, WaitIsFresh, NoWorker

(* "A run owned by a live process is NEVER touched": recovery takes a run  *)
(* from a live worker only when it was lost between launch and record.     *)
THEOREM RecoverySparesOwners == Spec => RecoveryTouchesNoOwner
<1>1. TypeOK /\ ServiceInv /\ WaitIsFresh /\ [Next]_vars =>
        [\A r \in Run :
           run[r].status # "recovered" /\ run'[r].status = "recovered" =>
             \/ ~Live(r)
             \/ ~run[r].owned /\ r \in orphan /\ worker[r].pc # "wait"]_vars
  BY RecoveryStep
<1> QED
  BY <1>1, TypeInit, TypeStep, ServiceInvInit, ServiceInvStep, WaitIsFreshInit,
     WaitIsFreshStep, PTL DEF Spec, RecoveryTouchesNoOwner

(***************************************************************************)
(* Counting the jobs of a run.                                             *)
(***************************************************************************)

(* The job a worker has taken and not yet counted.                         *)
InHand(r) ==
  IF worker[r].pc \in {"open", "work", "count", "raised", "blame"} THEN 1 ELSE 0

(* Every job of the run is counted, still on the list or in hand, until    *)
(* the worker is on its way out.                                           *)
NothingLost(r) ==
  worker[r].pc \notin {"exiting", "gone"} =>
    run[r].total =< run[r].done + run[r].failed + Cardinality(worker[r].todo) + InHand(r)

(* A worker finishes with an empty list, and is on its way out then.       *)
CompletedIsOver(r) ==
  /\ worker[r].pc = "finish" => worker[r].todo = {}
  /\ run[r].status = "completed" =>
       /\ worker[r].pc \in {"exiting", "gone"}
       /\ worker[r].todo = {}
       /\ run[r].done + run[r].failed >= run[r].total

CountInv == \A r \in Run : NothingLost(r) /\ CompletedIsOver(r)

(* The types of what is added up.                                          *)
LEMMA CountersAreNat ==
  ASSUME TypeOK, NEW r \in Run
  PROVE  /\ run[r].total \in Nat /\ run[r].done \in Nat /\ run[r].failed \in Nat
         /\ worker[r].todo \in SUBSET Job
         /\ Cardinality(worker[r].todo) \in Nat
         /\ InHand(r) \in {0, 1}
<1>1. run[r] \in RunRow /\ worker[r] \in WorkerRow
  BY DEF TypeOK
<1>2. worker[r].todo \in SUBSET Job
  BY <1>1 DEF WorkerRow
<1> QED
  BY <1>1, <1>2, CardinalityIsNat DEF RunRow, InHand

(* A step that leaves the counters and the list alone and drops no job.    *)
Quiet(r) ==
  /\ CountersKept(r)
  /\ worker'[r].todo = worker[r].todo
  /\ worker[r].pc \notin {"exiting", "gone"}
  /\ worker'[r].pc # "exiting" => InHand(r)' >= InHand(r)
  /\ worker'[r].pc = "finish" => worker[r].todo = {}
  /\ run'[r].status # "completed"

LEMMA QuietSteps ==
  ASSUME TypeOK, NEW r \in Run, run[r].status # "completed",
         \/ BootRead(r) \/ BootBeat(r) \/ WorkerFails(r) \/ Check(r) \/ PauseWrite(r)
         \/ WaitPoll(r) \/ ResumeWrite(r) \/ FinishCancelled(r) \/ OpenJob(r) \/ Work(r)
         \/ Raise(r) \/ FailJob(r) \/ SettleJob(r)
  PROVE  Quiet(r)
<1>1. CASE BootRead(r)
  <2>1. worker[r].pc = "boot"
    BY <1>1 DEF BootRead
  <2>2. InHand(r) = 0 /\ InHand(r)' = 0
    BY <1>1, <2>1, BootReadEffect DEF InHand
  <2> QED
    BY <1>1, <2>1, <2>2, BootReadEffect DEF Quiet, RunKept
<1>2. CASE BootBeat(r)
  <2>1. worker[r].pc = "beat"
    BY <1>2 DEF BootBeat
  <2>2. InHand(r) = 0 /\ InHand(r)' = 0
    BY <1>2, <2>1, BootBeatEffect DEF InHand
  <2> QED
    BY <1>2, <2>1, <2>2, BootBeatEffect DEF Quiet
<1>3. CASE WorkerFails(r)
  <2>1. worker[r].pc \in Unguarded /\ Goto(r, "exiting")
    BY <1>3 DEF WorkerFails
  <2>2. CountersKept(r) /\ run'[r].status # "completed"
    BY <1>3, FailsRow
  <2> QED
    BY <2>1, <2>2, Moved DEF Unguarded, Quiet, WorkerPc
<1>4. CASE Check(r)
  <2>1. PICK pc \in {"cancel", "pause", "exiting", "take"} : Goto(r, pc)
    BY <1>4 DEF Check, Passes
  <2>2. run' = [run EXCEPT ![r].fresh = TRUE] /\ worker[r].pc = "check"
    BY <1>4 DEF Check
  <2>3. CountersKept(r) /\ run'[r].status = run[r].status
    BY <2>2, Stamped DEF CountersKept
  <2>4. worker'[r].pc = pc /\ worker'[r].todo = worker[r].todo
    BY <2>1, Moved DEF WorkerPc
  <2> QED
    BY <2>2, <2>3, <2>4 DEF Quiet, InHand
<1>5. CASE PauseWrite(r)
  <2>1. run' = [run EXCEPT ![r].status = "paused"] /\ worker[r].pc = "pause" /\ Goto(r, "wait")
    BY <1>5 DEF PauseWrite
  <2>2. CountersKept(r) /\ run'[r].status = "paused"
    BY <2>1, StatusWritten DEF CountersKept, Active
  <2> QED
    BY <2>1, <2>2, Moved DEF Quiet, InHand, WorkerPc
<1>6. CASE WaitPoll(r)
  <2>1. PICK pc \in {"resume", "cancel", "exiting", "wait"} : Goto(r, pc)
    BY <1>6 DEF WaitPoll, Wakes
  <2>2. run' = [run EXCEPT ![r].fresh = TRUE] /\ worker[r].pc = "wait"
    BY <1>6 DEF WaitPoll
  <2>3. CountersKept(r) /\ run'[r].status = run[r].status
    BY <2>2, Stamped DEF CountersKept
  <2>4. worker'[r].pc = pc /\ worker'[r].todo = worker[r].todo
    BY <2>1, Moved DEF WorkerPc
  <2> QED
    BY <2>2, <2>3, <2>4 DEF Quiet, InHand
<1>7. CASE ResumeWrite(r)
  <2>1. PICK pc \in {"load", "take"} : Goto(r, pc)
    BY <1>7 DEF ResumeWrite, TypeOK, WorkerRow
  <2>2. run' = [run EXCEPT ![r].status = "running"] /\ worker[r].pc = "resume"
    BY <1>7 DEF ResumeWrite
  <2>3. CountersKept(r) /\ run'[r].status = "running"
    BY <2>2, StatusWritten DEF CountersKept, Active
  <2>4. worker'[r].pc = pc /\ worker'[r].todo = worker[r].todo
    BY <2>1, Moved DEF WorkerPc
  <2> QED
    BY <2>2, <2>3, <2>4 DEF Quiet, InHand
<1>8. CASE FinishCancelled(r)
  BY <1>8, RunClosed, Moved DEF FinishCancelled, Quiet, CountersKept, InHand, Ended, WorkerPc
<1>9. CASE OpenJob(r)
  <2>1. worker[r].pc = "open" /\ Goto(r, "work") /\ UNCHANGED run
    BY <1>9 DEF OpenJob
  <2>2. worker'[r].pc = "work" /\ worker'[r].todo = worker[r].todo
    BY <2>1, Moved DEF WorkerPc
  <2> QED
    BY <2>1, <2>2 DEF Quiet, CountersKept, InHand
<1>10. CASE Work(r)
  <2>1. worker[r].pc = "work"
    BY <1>10 DEF Work
  <2>2. InHand(r) = 1 /\ InHand(r)' = 1
    BY <1>10, <2>1, WorkEffect DEF InHand
  <2> QED
    BY <1>10, <2>1, <2>2, WorkEffect DEF Quiet, RunKept
<1>11. CASE Raise(r)
  <2>1. /\ worker[r].pc \in {"open", "work", "count", "settle"}
        /\ Goto(r, "raised") /\ UNCHANGED run
    BY <1>11 DEF Raise
  <2> QED
    BY <2>1, Moved DEF Quiet, CountersKept, InHand, WorkerPc
<1>12. CASE FailJob(r)
  <2>1. worker[r].pc = "raised"
    BY <1>12 DEF FailJob
  <2>2. InHand(r) = 1 /\ InHand(r)' = 1
    BY <1>12, <2>1, FailEffect DEF InHand
  <2> QED
    BY <1>12, <2>1, <2>2, FailEffect DEF Quiet, RunKept
<1>13. CASE SettleJob(r)
  <2>1. worker[r].pc = "settle" /\ AfterJob(r) \in {"finish", "check"}
    BY <1>13 DEF SettleJob, AfterJob
  <2>2. InHand(r) = 0 /\ InHand(r)' = 0
    BY <1>13, <2>1, SettleEffect DEF InHand
  <2> QED
    BY <1>13, <2>1, <2>2, SettleEffect DEF Quiet, RunKept, AfterJob
<1> QED
  BY <1>1, <1>2, <1>3, <1>4, <1>5, <1>6, <1>7, <1>8, <1>9, <1>10, <1>11, <1>12, <1>13

LEMMA CountInvWorker ==
  ASSUME TypeOK, TypeOK', CountInv, NEW r \in Run, WorkerStep(r)
  PROVE  CountInv'
<1>0. NothingLost(r) /\ CompletedIsOver(r)
  BY DEF CountInv
<1>1. /\ run[r].total \in Nat /\ run[r].done \in Nat /\ run[r].failed \in Nat
      /\ worker[r].todo \in SUBSET Job /\ Cardinality(worker[r].todo) \in Nat
      /\ InHand(r) \in {0, 1}
  BY CountersAreNat
<1>2. /\ run'[r].total \in Nat /\ run'[r].done \in Nat /\ run'[r].failed \in Nat
      /\ worker'[r].todo \in SUBSET Job /\ Cardinality(worker'[r].todo) \in Nat
      /\ InHand(r)' \in {0, 1}
  <2>1. run'[r] \in RunRow /\ worker'[r] \in WorkerRow
    BY DEF TypeOK
  <2>2. worker'[r].todo \in SUBSET Job
    BY <2>1 DEF WorkerRow
  <2> QED
    BY <2>1, <2>2, CardinalityIsNat DEF RunRow, InHand
<1>3. Cardinality({}) = 0
  BY FS_EmptySet
<1>4. SUFFICES NothingLost(r)' /\ CompletedIsOver(r)'
  <2>1. \A s \in Run : s # r => run'[s] = run[s] /\ worker'[s] = worker[s]
    BY WorkerFrame DEF Apart
  <2> QED
    BY <2>1 DEF CountInv, NothingLost, CompletedIsOver, InHand
<1>5. CASE Exit(r)
  <2>1. worker[r].pc = "exiting" /\ Goto(r, "gone") /\ UNCHANGED run
    BY <1>5 DEF Exit
  <2>2. worker'[r].pc = "gone" /\ worker'[r].todo = worker[r].todo
    BY <2>1, Moved DEF WorkerPc
  <2> QED
    BY <1>0, <2>1, <2>2 DEF NothingLost, CompletedIsOver
<1>6. CASE Finish(r)
  <2>1. worker[r].pc = "finish" /\ Goto(r, "exiting") /\ run' = Closed(r, "completed")
    BY <1>6 DEF Finish
  <2>2. /\ worker'[r].pc = "exiting" /\ worker'[r].todo = worker[r].todo
    BY <2>1, Moved DEF WorkerPc
  <2>3. CountersKept(r)
    BY <2>1, RunClosed DEF Ended, CountersKept
  <2>4. worker[r].todo = {} /\ InHand(r) = 0
    BY <1>0, <2>1 DEF CompletedIsOver, InHand
  <2>5. run[r].total =< run[r].done + run[r].failed
    BY <1>0, <1>1, <1>3, <2>1, <2>4 DEF NothingLost
  <2>6. CompletedIsOver(r)'
    BY <1>1, <2>2, <2>3, <2>4, <2>5 DEF CompletedIsOver, CountersKept
  <2>7. NothingLost(r)'
    BY <1>2, <1>1, <2>2, <2>3, <2>5 DEF NothingLost, CountersKept
  <2> QED
    BY <2>6, <2>7
<1>7. CASE ~Exit(r) /\ ~Finish(r)
  <2>0. worker[r].pc = "exiting" => Exit(r)
    BY <1>7 DEF WorkerStep, GoesOn, BootRead, BootBeat, WorkerFails, Unguarded, Load, Check, PauseWrite,
       WaitPoll, ResumeWrite, FinishCancelled, Take, OpenJob, Work, Count, SettleJob,
       Raise, FailJob, CountFailed, Finish
  <2>1. worker[r].pc \notin {"exiting", "gone"} /\ run[r].status # "completed"
    BY <1>0, <1>7, <2>0, WorkerFrame DEF Live, CompletedIsOver
  <2>2. run[r].total =< run[r].done + run[r].failed + Cardinality(worker[r].todo) + InHand(r)
    BY <1>0, <2>1 DEF NothingLost
  <2>3. CASE Quiet(r)
    <3>1. NothingLost(r)'
      BY <1>1, <1>2, <2>2, <2>3 DEF Quiet, CountersKept, NothingLost
    <3>2. CompletedIsOver(r)'
      BY <2>3 DEF Quiet, CompletedIsOver
    <3> QED
      BY <3>1, <3>2
  <2>4. CASE Load(r)
    <3>1. /\ run'[r].total = Cardinality(worker'[r].todo)
          /\ run'[r].status # "completed"
          /\ worker'[r].pc = IF worker'[r].todo = {} THEN "finish" ELSE "take"
      BY <2>1, <2>4, LoadEffect DEF RunKept
    <3> QED
      BY <1>2, <3>1 DEF NothingLost, CompletedIsOver
  <2>5. ASSUME NEW j \in Job, Take(r, j)
        PROVE  NothingLost(r)' /\ CompletedIsOver(r)'
    <3>1. /\ CountersKept(r)
          /\ run'[r].status # "completed"
          /\ worker'[r].pc = "open"
          /\ worker'[r].todo = worker[r].todo \ {j}
      BY <2>1, <2>5, TakeEffect
    <3>2. j \in worker[r].todo /\ InHand(r) = 0 /\ InHand(r)' = 1
      BY <2>5, <3>1 DEF Take, InHand
    <3>3. Cardinality(worker[r].todo) = Cardinality(worker'[r].todo) + 1
      BY <1>1, <3>1, <3>2, OneLess
    <3> QED
      BY <1>1, <1>2, <2>2, <3>1, <3>2, <3>3 DEF NothingLost, CompletedIsOver, CountersKept
  <2>6. CASE Count(r)
    <3>1. /\ run'[r].total = run[r].total
          /\ run'[r].done + run'[r].failed = run[r].done + run[r].failed + 1
          /\ run'[r].status # "completed"
          /\ worker'[r].pc = "settle"
          /\ worker'[r].todo = worker[r].todo
      BY <2>1, <2>6, CountEffect DEF RunKept
    <3>2. InHand(r) = 1 /\ InHand(r)' = 0
      BY <2>6, <3>1 DEF Count, InHand
    <3> QED
      BY <1>1, <1>2, <2>2, <3>1, <3>2 DEF NothingLost, CompletedIsOver
  <2>7. CASE CountFailed(r)
    <3>1. /\ run'[r].total = run[r].total
          /\ run'[r].done = run[r].done
          /\ run'[r].failed = run[r].failed + 1
          /\ run'[r].status # "completed"
          /\ worker'[r].pc = AfterJob(r)
          /\ worker'[r].todo = worker[r].todo
      BY <2>1, <2>7, CountFailedEffect DEF RunKept
    <3>2. InHand(r) = 1 /\ InHand(r)' = 0 /\ (worker'[r].pc = "finish" => worker[r].todo = {})
      BY <2>7, <3>1 DEF CountFailed, InHand, AfterJob
    <3> QED
      BY <1>1, <1>2, <2>2, <3>1, <3>2 DEF NothingLost, CompletedIsOver
  <2> QED
    BY <1>7, <2>1, <2>3, <2>4, <2>5, <2>6, <2>7, QuietSteps DEF WorkerStep, GoesOn
<1> QED
  BY <1>5, <1>6, <1>7

LEMMA CountInvOutside ==
  ASSUME TypeOK, ServiceInv, CountInv, ServiceStep \/ Surrounded
  PROVE  CountInv'
<1> SUFFICES ASSUME NEW s \in Run
             PROVE  NothingLost(s)' /\ CompletedIsOver(s)'
  BY DEF CountInv
<1>1. /\ CountersKept(s)
      /\ run'[s].status = "completed" => run[s].status = "completed"
      /\ worker'[s].todo = worker[s].todo
      /\ \/ worker'[s].pc \in {worker[s].pc, "gone"}
         \/ worker[s].pc = "none" /\ worker'[s].pc = "boot"
  BY OutsideFrame DEF CountersKept
<1>2. NothingLost(s) /\ CompletedIsOver(s)
  BY DEF CountInv
<1>3. worker'[s].pc \notin {"exiting", "gone"} =>
        worker[s].pc \notin {"exiting", "gone"} /\ InHand(s)' = InHand(s)
  BY <1>1 DEF InHand
<1>4. NothingLost(s)'
  BY <1>1, <1>2, <1>3 DEF NothingLost, CountersKept
<1>5. CompletedIsOver(s)'
  BY <1>1, <1>2 DEF CompletedIsOver, CountersKept
<1> QED
  BY <1>4, <1>5

LEMMA CountInvInit == Init => CountInv
<1> SUFFICES ASSUME Init, NEW r \in Run
             PROVE  NothingLost(r) /\ CompletedIsOver(r)
  BY DEF CountInv
<1>1. run[r] = NoRun /\ worker[r] = NoWorker
  BY DEF Init
<1> QED
  BY <1>1, FS_EmptySet DEF NothingLost, CompletedIsOver, InHand, NoRun, NoWorker

LEMMA CountInvStep == TypeOK /\ ServiceInv /\ CountInv /\ [Next]_vars => CountInv'
<1> SUFFICES ASSUME TypeOK, ServiceInv, CountInv, [Next]_vars
             PROVE  CountInv'
  OBVIOUS
<1>1. ASSUME NEW r \in Run, WorkerStep(r)
      PROVE  CountInv'
  <2>1. TypeOK'
    BY TypeStep
  <2> QED
    BY <1>1, <2>1, CountInvWorker
<1>2. CASE ServiceStep \/ Surrounded
  BY <1>2, CountInvOutside
<1>3. CASE UNCHANGED vars
  BY <1>3 DEF vars, CountInv, NothingLost, CompletedIsOver, InHand
<1> QED
  BY <1>1, <1>2, <1>3 DEF Next, Surrounded

(* A run that is completed accounts for every job it loaded, whatever was  *)
(* paused, raised or killed on the way.                                    *)
THEOREM CompletedAccounts == Spec => []CompletedIsCounted
<1>1. CountInv => CompletedIsCounted
  BY DEF CountInv, CompletedIsOver, CompletedIsCounted
<1> QED
  BY <1>1, TypeInit, TypeStep, ServiceInvInit, ServiceInvStep, CountInvInit,
     CountInvStep, PTL DEF Spec

(***************************************************************************)
(* Jobs in progress.                                                       *)
(***************************************************************************)
InFlight == {"open", "work", "count", "settle", "raised"}

(* A worker has a job while it is in flight, and may end with it; what the *)
(* row of its run says of that job then.                                   *)
InHands(r) ==
  worker[r].job # None =>
    /\ worker[r].pc \in InFlight \cup {"exiting", "gone"}
    /\ \/ Recoverable(r, worker[r].job)
       \/ LeftBehind(r, worker[r].job)
       \/ run[r].status = "recovered"

(* The run of a worker that the service has a hold on is active until the  *)
(* worker is about to exit, and not recovered before it is gone.           *)
HeldIsActive(r) ==
  r \notin orphan /\ Live(r) =>
    IF worker[r].pc = "exiting" THEN run[r].status # "recovered"
                                ELSE run[r].status \in Active

(* A worker completes or fails its run with its last step.                 *)
EndsLast(r) ==
  run[r].status \in {"completed", "failed"} => ~Live(r) \/ worker[r].pc = "exiting"

Claims(r) == InHands(r) /\ HeldIsActive(r) /\ EndsLast(r)

(* A cancel that found no process overlooks none but a lost one.           *)
CancelIsCurrent ==
  ctl.op = "cancel" /\ ctl.pc = "write" /\ ~ctl.alive =>
    ctl.run \in orphan \/ ~Live(ctl.run)

(* Who answers for a job in progress: the run whose worker took it last.   *)
Answers(r, j) ==
  /\ worker[r].job = j
  /\ Live(r) \/ Recoverable(r, j) \/ LeftBehind(r, j)

JobsAnswered == \A j \in Job : job[j] = "in_progress" => \E r \in Run : Answers(r, j)

JobInv == (\A r \in Run : Claims(r)) /\ CancelIsCurrent /\ JobsAnswered

(* While its worker is there, the row of a run tells what would become of  *)
(* the job if it ended now.                                                *)
LEMMA LiveHands ==
  ASSUME NEW r \in Run, Claims(r), Live(r), worker[r].job # None
  PROVE  Recoverable(r, worker[r].job) \/ LeftBehind(r, worker[r].job)
BY DEF Claims, InHands, HeldIsActive, LeftBehind, Active

(***************************************************************************)
(* The five things a step of a worker may do with jobs.                    *)
(***************************************************************************)
CarriesOn(r) ==
  /\ worker[r].pc \in InFlight /\ worker'[r].pc \in InFlight
  /\ worker'[r].job = worker[r].job
  /\ RunKept(r)
  /\ \A j \in Job : j # worker[r].job => job'[j] = job[j]

HandsEmpty(r) ==
  /\ worker[r].pc \notin InFlight \cup {"none", "gone"}
  /\ worker'[r].pc \notin InFlight
  /\ worker[r].pc = "exiting" => worker'[r].pc = "gone" /\ RunKept(r)
  /\ worker'[r].job = worker[r].job
  /\ \/ run'[r].status \in {run[r].status} \cup Active
     \/ worker'[r].pc = "exiting"
  /\ UNCHANGED job

(* The boundary of a job lets go of it: the row stays, or fails.           *)
LetsGo(r) ==
  /\ worker[r].pc \in InFlight /\ worker'[r].pc = "exiting"
  /\ worker'[r].job = worker[r].job
  /\ \/ run'[r].status = run[r].status /\ run'[r].current = run[r].current
     \/ run'[r].status = "failed" /\ run'[r].current = None
  /\ UNCHANGED job

PicksUp(r) ==
  /\ worker[r].pc = "take" /\ worker'[r].pc = "open"
  /\ run'[r].status = run[r].status
  /\ run'[r].current = worker'[r].job
  /\ UNCHANGED job

PutsDown(r) ==
  /\ worker[r].pc \in InFlight /\ worker'[r].pc \notin InFlight
  /\ worker'[r].job = None
  /\ RunKept(r)
  /\ worker[r].job \in Job => job'[worker[r].job] # "in_progress"
  /\ \A j \in Job : j # worker[r].job => job'[j] = job[j]

LEMMA WorkerJobs ==
  ASSUME TypeOK, NEW r \in Run, WorkerStep(r)
  PROVE  CarriesOn(r) \/ HandsEmpty(r) \/ LetsGo(r) \/ PicksUp(r) \/ PutsDown(r)
<1>0. /\ worker[r] \in WorkerRow /\ job \in [Job -> Status]
      /\ worker[r].pc \in InFlight => worker[r].job \in Job
  BY DEF TypeOK, InFlight
<1>1. CASE BootRead(r)
  BY <1>1, BootReadEffect DEF BootRead, HandsEmpty, InFlight, RunKept
<1>2. CASE BootBeat(r)
  <2>1. worker[r].pc = "beat" /\ UNCHANGED job
    BY <1>2 DEF BootBeat
  <2> QED
    BY <1>2, <2>1, BootBeatEffect DEF HandsEmpty, InFlight
<1>3. CASE WorkerFails(r)
  <2>1. /\ worker[r].pc \in Unguarded /\ UNCHANGED job
        /\ worker'[r].pc = "exiting" /\ worker'[r].job = worker[r].job
    BY <1>3, Moved DEF WorkerFails, WorkerPc
  <2>2. CASE worker[r].pc = "raised"
    BY <1>3, <2>1, <2>2, FailsRow DEF LetsGo, InFlight
  <2>3. CASE worker[r].pc # "raised"
    BY <2>1, <2>3 DEF Unguarded, HandsEmpty, InFlight
  <2> QED
    BY <2>2, <2>3
<1>4. CASE Load(r)
  <2>1. worker[r].pc = "load" /\ UNCHANGED job
    BY <1>4 DEF Load
  <2>2. worker'[r].pc \in {"finish", "take"} /\ worker'[r].job = worker[r].job
    BY <1>4, LoadEffect
  <2>3. run'[r].status = run[r].status
    BY <1>4, LoadEffect DEF RunKept
  <2> QED
    BY <2>1, <2>2, <2>3 DEF HandsEmpty, InFlight
<1>5. CASE Check(r)
  <2>1. PICK pc \in {"cancel", "pause", "exiting", "take"} : Goto(r, pc)
    BY <1>5 DEF Check, Passes
  <2>2. run' = [run EXCEPT ![r].fresh = TRUE] /\ worker[r].pc = "check" /\ UNCHANGED job
    BY <1>5 DEF Check
  <2>3. run'[r].status = run[r].status
    BY <2>2, Stamped
  <2>4. worker'[r].pc = pc /\ worker'[r].job = worker[r].job
    BY <2>1, Moved DEF WorkerPc
  <2> QED
    BY <2>2, <2>3, <2>4 DEF HandsEmpty, InFlight
<1>6. CASE PauseWrite(r)
  <2>1. /\ run' = [run EXCEPT ![r].status = "paused"] /\ worker[r].pc = "pause"
        /\ Goto(r, "wait") /\ UNCHANGED job
    BY <1>6 DEF PauseWrite
  <2>2. run'[r].status = "paused"
    BY <2>1, StatusWritten DEF Active
  <2>3. worker'[r].pc = "wait" /\ worker'[r].job = worker[r].job
    BY <2>1, Moved DEF WorkerPc
  <2> QED
    BY <2>1, <2>2, <2>3 DEF HandsEmpty, InFlight, Active
<1>7. CASE WaitPoll(r)
  <2>1. PICK pc \in {"resume", "cancel", "exiting", "wait"} : Goto(r, pc)
    BY <1>7 DEF WaitPoll, Wakes
  <2>2. run' = [run EXCEPT ![r].fresh = TRUE] /\ worker[r].pc = "wait" /\ UNCHANGED job
    BY <1>7 DEF WaitPoll
  <2>3. run'[r].status = run[r].status
    BY <2>2, Stamped
  <2>4. worker'[r].pc = pc /\ worker'[r].job = worker[r].job
    BY <2>1, Moved DEF WorkerPc
  <2> QED
    BY <2>2, <2>3, <2>4 DEF HandsEmpty, InFlight
<1>8. CASE ResumeWrite(r)
  <2>1. PICK pc \in {"load", "take"} : Goto(r, pc)
    BY <1>0, <1>8 DEF ResumeWrite, WorkerRow
  <2>2. /\ run' = [run EXCEPT ![r].status = "running"] /\ worker[r].pc = "resume"
        /\ UNCHANGED job
    BY <1>8 DEF ResumeWrite
  <2>3. run'[r].status = "running"
    BY <2>2, StatusWritten DEF Active
  <2>4. worker'[r].pc = pc /\ worker'[r].job = worker[r].job
    BY <2>1, Moved DEF WorkerPc
  <2> QED
    BY <2>2, <2>3, <2>4 DEF HandsEmpty, InFlight, Active
<1>9. CASE FinishCancelled(r)
  BY <1>9, Moved DEF FinishCancelled, HandsEmpty, InFlight, WorkerPc
<1>10. ASSUME NEW j \in Job, Take(r, j)
       PROVE  PicksUp(r)
  <2>1. worker[r].pc = "take" /\ UNCHANGED job
    BY <1>10 DEF Take
  <2> QED
    BY <1>10, <2>1, TakeEffect DEF PicksUp
<1>11. ASSUME worker[r].job \in Job, NEW status, Upsert(r, status)
       PROVE  /\ \A j \in Job : j # worker[r].job => job'[j] = job[j]
              /\ status \in Outcome => job'[worker[r].job] # "in_progress"
  BY <1>0, <1>11, UpsertedStatus DEF Upsert
<1>12. CASE OpenJob(r)
  <2>1. /\ worker[r].pc = "open" /\ Goto(r, "work") /\ UNCHANGED run
        /\ Upsert(r, "in_progress")
    BY <1>12 DEF OpenJob
  <2>2. worker'[r].pc = "work" /\ worker'[r].job = worker[r].job
    BY <2>1, Moved DEF WorkerPc
  <2>3. \A j \in Job : j # worker[r].job => job'[j] = job[j]
    BY <1>0, <1>11, <2>1 DEF InFlight
  <2> QED
    BY <2>1, <2>2, <2>3 DEF CarriesOn, InFlight, RunKept
<1>13. CASE Work(r)
  <2>1. worker[r].pc = "work" /\ UNCHANGED job
    BY <1>13 DEF Work
  <2> QED
    BY <1>13, <2>1, WorkEffect DEF CarriesOn, InFlight
<1>14. CASE Count(r)
  <2>1. worker[r].pc = "count" /\ UNCHANGED job
    BY <1>14 DEF Count
  <2> QED
    BY <1>14, <2>1, CountEffect DEF CarriesOn, InFlight
<1>15. AfterJob(r) \in {"finish", "check"}
  BY DEF AfterJob
<1>16. CASE SettleJob(r)
  <2>1. worker[r].pc = "settle" /\ Upsert(r, worker[r].out) /\ worker[r].out \in Outcome
    BY <1>0, <1>16 DEF SettleJob, WorkerRow
  <2>2. /\ job'[worker[r].job] # "in_progress"
        /\ \A j \in Job : j # worker[r].job => job'[j] = job[j]
    BY <1>0, <1>11, <2>1 DEF InFlight
  <2> QED
    BY <1>15, <1>16, <2>1, <2>2, SettleEffect DEF PutsDown, InFlight
<1>17. CASE Raise(r)
  <2>1. /\ worker[r].pc \in {"open", "work", "count", "settle"}
        /\ Goto(r, "raised") /\ UNCHANGED run
    BY <1>17 DEF Raise
  <2>2. worker'[r].pc = "raised" /\ worker'[r].job = worker[r].job
    BY <2>1, Moved DEF WorkerPc
  <2>3. \A j \in Job : j # worker[r].job => job'[j] = job[j]
    BY <1>0, <1>11, <1>17, <2>1 DEF Raise, InFlight
  <2> QED
    BY <2>1, <2>2, <2>3 DEF CarriesOn, InFlight, RunKept
<1>18. CASE FailJob(r)
  <2>1. worker[r].pc = "raised" /\ Upsert(r, "failed")
    BY <1>18 DEF FailJob
  <2>2. /\ job'[worker[r].job] # "in_progress"
        /\ \A j \in Job : j # worker[r].job => job'[j] = job[j]
    BY <1>0, <1>11, <2>1 DEF InFlight, Outcome
  <2> QED
    BY <1>18, <2>1, <2>2, FailEffect DEF PutsDown, InFlight
<1>19. CASE CountFailed(r)
  <2>1. worker[r].pc = "blame" /\ UNCHANGED job
    BY <1>19 DEF CountFailed
  <2> QED
    BY <1>15, <1>19, <2>1, CountFailedEffect DEF HandsEmpty, InFlight, RunKept
<1>20. CASE Finish(r)
  BY <1>20, Moved DEF Finish, HandsEmpty, InFlight, WorkerPc
<1>21. CASE Exit(r)
  <2>1. worker[r].pc = "exiting" /\ Goto(r, "gone") /\ UNCHANGED <<run, job>>
    BY <1>21 DEF Exit
  <2>2. worker'[r].pc = "gone" /\ worker'[r].job = worker[r].job
    BY <2>1, Moved DEF WorkerPc
  <2> QED
    BY <2>1, <2>2 DEF HandsEmpty, InFlight, RunKept
<1> QED
  BY <1>1, <1>2, <1>3, <1>4, <1>5, <1>6, <1>7, <1>8, <1>9, <1>10, <1>12, <1>13, <1>14,
     <1>16, <1>17, <1>18, <1>19, <1>20, <1>21 DEF WorkerStep, GoesOn

(* Whatever a worker does, its row tells what becomes of its job.          *)
LEMMA WorkerClaims ==
  ASSUME TypeOK, ServiceInv, JobInv, NEW r \in Run, WorkerStep(r)
  PROVE  Claims(r)'
<1>0. /\ UNCHANGED orphan /\ Live(r)
      /\ run'[r].status = run[r].status \/ run'[r].status \in Active \cup Ended
      /\ worker[r].pc # "none" /\ worker[r].pc # "gone"
  BY WorkerFrame DEF Live
<1>1. InHands(r) /\ HeldIsActive(r) /\ EndsLast(r)
  BY DEF JobInv, Claims
<1>2. /\ worker[r].pc \notin InFlight \cup {"exiting"} => worker[r].job = None
      /\ r \notin orphan => IF worker[r].pc = "exiting" THEN run[r].status # "recovered"
                                                      ELSE run[r].status \in Active
      /\ run[r].status \in {"completed", "failed"} => worker[r].pc = "exiting"
  BY <1>0, <1>1 DEF InHands, HeldIsActive, EndsLast
<1>3. CASE CarriesOn(r)
  <2>1. worker'[r].pc \in InFlight /\ worker[r].pc # "exiting"
    BY <1>3 DEF CarriesOn, InFlight
  <2>2. InHands(r)'
    BY <1>0, <1>1, <1>3, <2>1 DEF CarriesOn, RunKept, InHands, Recoverable, LeftBehind
  <2> QED
    BY <1>0, <1>2, <1>3, <2>1, <2>2
       DEF CarriesOn, RunKept, Claims, HeldIsActive, EndsLast, InFlight
<1>4. CASE HandsEmpty(r)
  <2>1. CASE worker[r].pc = "exiting"
    <3>1. worker'[r].pc = "gone" /\ worker'[r].job = worker[r].job /\ RunKept(r)
      BY <1>4, <2>1 DEF HandsEmpty
    <3>2. InHands(r)'
      BY <1>0, <1>1, <3>1 DEF RunKept, InHands, Recoverable, LeftBehind
    <3> QED
      BY <3>1, <3>2 DEF Claims, HeldIsActive, EndsLast, Live
  <2>2. CASE worker[r].pc # "exiting"
    <3>1. worker'[r].job = None
      BY <1>2, <1>4, <2>2 DEF HandsEmpty
    <3>2. HeldIsActive(r)'
      BY <1>0, <1>2, <1>4, <2>2 DEF HandsEmpty, HeldIsActive, Active, Ended
    <3>3. EndsLast(r)'
      BY <1>2, <1>4, <2>2 DEF HandsEmpty, EndsLast, Active
    <3> QED
      BY <3>1, <3>2, <3>3 DEF Claims, InHands
  <2> QED
    BY <2>1, <2>2
<1>5. CASE LetsGo(r)
  <2>1. /\ worker'[r].pc = "exiting" /\ worker'[r].job = worker[r].job
        /\ worker[r].pc # "exiting"
    BY <1>5 DEF LetsGo, InFlight
  <2>2. InHands(r)'
    BY <1>0, <1>1, <1>5, <2>1 DEF LetsGo, InHands, Recoverable, LeftBehind
  <2> QED
    BY <1>0, <1>2, <1>5, <2>1, <2>2 DEF LetsGo, Claims, HeldIsActive, EndsLast, Active
<1>6. CASE PicksUp(r)
  <2>1. run[r] \in RunRow /\ run[r].status # "absent"
    BY <1>0 DEF TypeOK, ServiceInv, AbsentIsIdle
  <2>2. \/ run[r].status \in Active
        \/ r \in orphan /\ run[r].status \in {"recovered", "cancelled"}
    BY <1>2, <1>6, <2>1 DEF PicksUp, RunRow, Terminal, Ended
  <2>3. InHands(r)'
    BY <1>0, <1>6, <2>2 DEF PicksUp, InHands, InFlight, Recoverable, LeftBehind, Active
  <2> QED
    BY <1>0, <1>2, <1>6, <2>2, <2>3 DEF PicksUp, Claims, HeldIsActive, EndsLast, Active
<1>7. CASE PutsDown(r)
  <2>1. worker[r].pc # "exiting" /\ worker'[r].job = None
    BY <1>7 DEF PutsDown, InFlight
  <2> QED
    BY <1>0, <1>2, <1>7, <2>1
       DEF PutsDown, RunKept, Claims, InHands, HeldIsActive, EndsLast, Active
<1> QED
  BY <1>3, <1>4, <1>5, <1>6, <1>7, WorkerJobs

LEMMA JobInvWorker ==
  ASSUME TypeOK, ServiceInv, JobInv, NEW r \in Run, WorkerStep(r)
  PROVE  JobInv'
<1>0. /\ UNCHANGED <<life, ctl, handle, orphan>>
      /\ \A s \in Run : s # r => run'[s] = run[s] /\ worker'[s] = worker[s]
      /\ Live(r)
  BY WorkerFrame DEF Apart
<1>1. (\A s \in Run : Claims(s)) /\ CancelIsCurrent /\ JobsAnswered
  BY DEF JobInv
<1>2. \A s \in Run : Claims(s)'
  <2>1. SUFFICES ASSUME NEW s \in Run, s # r
        PROVE  Claims(s)'
    BY WorkerClaims
  <2> QED
    BY <1>0, <1>1, <2>1
       DEF Claims, InHands, HeldIsActive, EndsLast, Recoverable, LeftBehind, Live
<1>3. CancelIsCurrent'
  <2>1. ctl.pc = "write" => ctl.run \in Run
    BY DEF TypeOK
  <2> QED
    BY <1>0, <1>1, <2>1 DEF CancelIsCurrent, Live
<1>4. JobsAnswered'
  <2>1. SUFFICES ASSUME NEW j \in Job, job'[j] = "in_progress"
        PROVE  \E q \in Run : Answers(q, j)'
    BY DEF JobsAnswered
  <2>2. j # None
    BY PipelineAssumption
  <2>3. CASE worker'[r].job = j
    <3>1. CASE Live(r)'
      BY <2>3, <3>1 DEF Answers
    <3>2. CASE ~Live(r)'
      <4>1. worker'[r].pc = "gone" \/ worker'[r].pc = "none"
        BY <3>2 DEF Live
      <4>2. HandsEmpty(r) /\ worker[r].job = j
        BY <2>2, <2>3, <4>1, WorkerJobs
           DEF CarriesOn, HandsEmpty, LetsGo, PicksUp, PutsDown, InFlight
      <4>3. worker[r].pc = "exiting"
        BY <1>0, <1>1, <2>2, <4>2 DEF Claims, InHands, HandsEmpty, Live
      <4>4. Recoverable(r, j) \/ LeftBehind(r, j)
        BY <1>0, <1>1, <2>2, <4>2, LiveHands
      <4> QED
        BY <1>0, <2>3, <4>2, <4>3, <4>4
           DEF HandsEmpty, RunKept, Answers, Recoverable, LeftBehind
    <3> QED
      BY <3>1, <3>2
  <2>4. CASE worker'[r].job # j
    <3>1. job[j] = "in_progress" /\ worker[r].job # j
      <4>1. worker[r].job = j => PutsDown(r) \/ PicksUp(r)
        BY <2>4, WorkerJobs DEF CarriesOn, HandsEmpty, LetsGo
      <4>2. PicksUp(r) => worker[r].job = None
        BY <1>0, <1>1 DEF PicksUp, Claims, InHands, InFlight
      <4>3. worker[r].job # j
        BY <2>1, <2>2, <4>1, <4>2 DEF PutsDown
      <4> QED
        BY <2>1, <4>3, WorkerJobs DEF CarriesOn, HandsEmpty, LetsGo, PicksUp, PutsDown
    <3>2. PICK q \in Run : Answers(q, j)
      BY <1>1, <3>1 DEF JobsAnswered
    <3>3. q # r
      BY <3>1, <3>2 DEF Answers
    <3> QED
      BY <1>0, <3>2, <3>3 DEF Answers, Recoverable, LeftBehind, Live
  <2> QED
    BY <2>3, <2>4
<1> QED
  BY <1>2, <1>3, <1>4 DEF JobInv

(***************************************************************************)
(* What the service and the surroundings may do to the run of a job.       *)
(***************************************************************************)
SameClaim(s) ==
  /\ run'[s].status = run[s].status /\ run'[s].current = run[s].current
  /\ worker'[s].job = worker[s].job

(* A row is left alone, a worker is launched on an active row, a run       *)
(* without a worker changes its row, or a control writes its answer.       *)
LEMMA ServiceRow ==
  ASSUME TypeOK, ServiceInv, ServiceStep, NEW s \in Run
  PROVE  /\ UNCHANGED <<job, orphan>>
         /\ worker'[s].job = worker[s].job
         /\ \/ SameClaim(s) /\ worker'[s].pc = worker[s].pc
            \/ /\ SameClaim(s) /\ worker[s].pc = "none"
               /\ run[s].status \in Active
            \/ worker[s].pc = "none" /\ worker'[s].pc = "none"
            \/ /\ ctl.pc = "write" /\ s = ctl.run /\ worker'[s].pc = worker[s].pc
               /\ run'[s].status \in Active /\ run'[s].current = run[s].current
            \/ /\ ctl.op = "cancel" /\ ctl.pc = "write" /\ ~ctl.alive /\ s = ctl.run
               /\ worker'[s].pc = worker[s].pc
               /\ run'[s].status = "cancelled" /\ run'[s].current = None
<1>0. ctl.pc \in {"spawn", "stamp", "probe", "write"} => ctl.run \in Run
  BY DEF TypeOK
<1>1. CASE StartSpawn
  <2>1. /\ Goto(ctl.run, "boot") /\ ctl.run \in Run /\ worker[ctl.run].pc = "none"
        /\ run[ctl.run].status \in Active
        /\ UNCHANGED <<run, job, orphan>>
    BY <1>0, <1>1 DEF StartSpawn, Goto, ServiceInv, StartKnows
  <2>2. /\ \A q \in Run : q # ctl.run => worker'[q] = worker[q]
        /\ worker'[ctl.run].job = worker[ctl.run].job
    BY <2>1, Moved DEF WorkerPc
  <2> QED
    BY <2>1, <2>2 DEF SameClaim
<1>2. CASE SpawnFails
  <2>1. /\ ctl.run \in Run /\ run' = Closed(ctl.run, "failed")
        /\ worker[ctl.run].pc = "none"
        /\ UNCHANGED <<job, worker, orphan>>
    BY <1>0, <1>2 DEF SpawnFails, ServiceInv, StartKnows
  <2>2. \A q \in Run : q # ctl.run => run'[q] = run[q]
    BY <2>1, RunClosed DEF Ended
  <2> QED
    BY <2>1, <2>2 DEF SameClaim
<1>3. CASE StartStamp
  <2>1. ctl.run \in Run /\ run[ctl.run] \in RunRow /\ UNCHANGED <<job, worker, orphan>>
    BY <1>0, <1>3 DEF StartStamp, TypeOK
  <2> DEFINE row == [run[ctl.run] EXCEPT !.owned = TRUE, !.fresh = TRUE]
  <2>2. run' = [run EXCEPT ![ctl.run] = row]
    BY <2>1, <1>3 DEF StartStamp, TypeOK
  <2>3. /\ row.status = run[ctl.run].status /\ row.current = run[ctl.run].current
        /\ row \in RunRow
    BY <2>1 DEF RunRow
  <2> HIDE DEF row
  <2>4. run'[ctl.run] = row /\ \A q \in Run : q # ctl.run => run'[q] = run[q]
    BY <2>1, <2>2, <2>3, RowReplaced
  <2> QED
    BY <2>1, <2>3, <2>4 DEF SameClaim
<1>4. ASSUME NEW r \in Run, StartCreate(r)
      PROVE  /\ UNCHANGED <<job, worker, orphan>>
             /\ SameClaim(s) \/ worker[s].pc = "none"
  <2>1. /\ run' = [run EXCEPT ![r].status = "running"] /\ worker[r].pc = "none"
        /\ UNCHANGED <<job, worker, orphan>>
    BY <1>4 DEF StartCreate, ServiceInv, AbsentIsIdle
  <2>2. \A q \in Run : q # r => run'[q] = run[q]
    BY <2>1, StatusWritten DEF Active
  <2> QED
    BY <2>1, <2>2 DEF SameClaim
<1>5. CASE StartRead \/ CancelProbe
  BY <1>5 DEF StartRead, CancelProbe, SameClaim
<1>6. ASSUME NEW r \in Run, CancelRead(r)
      PROVE  UNCHANGED <<run, job, worker, orphan>>
  BY <1>6 DEF CancelRead
<1>7. ASSUME NEW r \in Run, NEW op \in {"pause", "resume"}, SignalRead(op, r)
      PROVE  UNCHANGED <<run, job, worker, orphan>>
  BY <1>7 DEF SignalRead
<1>8. CASE SignalWrite
  <2>1. PICK st \in Active : run' = [run EXCEPT ![ctl.run].status = st]
    BY <1>8 DEF SignalWrite, Active
  <2>2. ctl.run \in Run /\ ctl.pc = "write" /\ UNCHANGED <<job, worker, orphan>>
    BY <1>0, <1>8 DEF SignalWrite
  <2>3. /\ \A q \in Run : q # ctl.run => run'[q] = run[q]
        /\ run'[ctl.run].status = st /\ run'[ctl.run].current = run[ctl.run].current
    BY <2>1, <2>2, StatusWritten
  <2> QED
    BY <2>2, <2>3 DEF SameClaim
<1>9. CASE CancelWrite
  <2>1. /\ ctl.run \in Run /\ ctl.op = "cancel" /\ ctl.pc = "write"
        /\ UNCHANGED <<job, worker, orphan>>
    BY <1>0, <1>9 DEF CancelWrite
  <2>2. CASE ctl.alive
    <3>1. /\ \A q \in Run : q # ctl.run => run'[q] = run[q]
          /\ run'[ctl.run].status = "cancelling"
          /\ run'[ctl.run].current = run[ctl.run].current
      BY <1>9, <2>1, <2>2, StatusWritten DEF CancelWrite, Active
    <3> QED
      BY <2>1, <3>1 DEF SameClaim, Active
  <2>3. CASE ~ctl.alive
    <3>1. /\ \A q \in Run : q # ctl.run => run'[q] = run[q]
          /\ run'[ctl.run].status = "cancelled" /\ run'[ctl.run].current = None
      BY <1>9, <2>1, <2>3, RunClosed DEF CancelWrite, Ended
    <3> QED
      BY <2>1, <2>3, <3>1 DEF SameClaim
  <2> QED
    BY <2>2, <2>3
<1> QED
  BY <1>1, <1>2, <1>3, <1>4, <1>5, <1>6, <1>7, <1>8, <1>9 DEF ServiceStep, SameClaim

(* What a cancel knows when it has probed.                                 *)
LEMMA CancelIsCurrentService ==
  ASSUME TypeOK, ServiceInv, JobInv, ServiceStep
  PROVE  CancelIsCurrent'
<1>0. /\ ctl \in Control
      /\ ctl.pc \in {"spawn", "stamp", "probe", "write"} => ctl.run \in Run
      /\ LiveIsHeld /\ CancelIsCurrent
  BY DEF TypeOK, ServiceInv, JobInv
<1>1. CASE CancelProbe
  <2>1. /\ ctl'.pc = "write" /\ ctl'.run = ctl.run /\ ctl'.alive = HandleLive
        /\ ctl.pc = "probe" /\ ctl.run \in Run
        /\ UNCHANGED <<handle, run, worker, orphan>>
    BY <1>0, <1>1 DEF CancelProbe, Control
  <2>2. ctl.run # 0
    BY <2>1, PipelineAssumption DEF Run
  <2>3. ~HandleLive => ctl.run \in orphan \/ ~Live(ctl.run)
    BY <1>0, <2>1, <2>2 DEF LiveIsHeld, HandleLive
  <2> QED
    BY <2>1, <2>3 DEF CancelIsCurrent, Live
<1>2. CASE ~CancelProbe
  <2>1. CASE SpawnFails \/ StartStamp \/ SignalWrite \/ CancelWrite
    <3>1. ctl' = Idle
      BY <2>1 DEF SpawnFails, StartStamp, SignalWrite, CancelWrite
    <3> QED
      BY <3>1 DEF Idle, CancelIsCurrent
  <2>5. CASE StartRead
    <3>1. ctl'.op = "start"
      BY <2>5 DEF StartRead, Idle
    <3> QED
      BY <3>1 DEF CancelIsCurrent
  <2>2. CASE StartSpawn
    BY <1>0, <2>2 DEF StartSpawn, Control, CancelIsCurrent
  <2>3. ASSUME NEW r \in Run, StartCreate(r) \/ CancelRead(r)
        PROVE  CancelIsCurrent'
    <3>1. ctl'.pc # "write"
      BY <1>0, <2>3 DEF StartCreate, CancelRead, Control, Idle
    <3> QED
      BY <3>1 DEF CancelIsCurrent
  <2>4. ASSUME NEW r \in Run, NEW op \in {"pause", "resume"}, SignalRead(op, r)
        PROVE  CancelIsCurrent'
    BY <2>4 DEF SignalRead, Idle, CancelIsCurrent
  <2> QED
    BY <1>2, <2>1, <2>2, <2>3, <2>4, <2>5 DEF ServiceStep
<1> QED
  BY <1>1, <1>2

LEMMA JobInvService ==
  ASSUME TypeOK, ServiceInv, JobInv, ServiceStep
  PROVE  JobInv'
<1>0. (\A s \in Run : Claims(s)) /\ CancelIsCurrent /\ JobsAnswered
  BY DEF JobInv
<1>1. UNCHANGED <<job, orphan>>
  <2>1. 1 \in Run
    BY PipelineAssumption DEF Run
  <2> QED
    BY <2>1, ServiceRow
<1>2. ASSUME NEW s \in Run
      PROVE  /\ Claims(s)'
             /\ \A j \in Job : Answers(s, j) => Answers(s, j)'
  <2>1. /\ InHands(s) /\ HeldIsActive(s) /\ EndsLast(s)
        /\ worker[s].pc = "none" => worker[s].job = None
        /\ worker'[s].job = worker[s].job
        /\ None \notin Job
    BY <1>0, ServiceRow, PipelineAssumption DEF Claims, InHands, InFlight
  <2>2. CASE SameClaim(s) /\ worker'[s].pc = worker[s].pc
    <3>1. Live(s)' <=> Live(s)
      BY <2>2 DEF Live
    <3>2. InHands(s)'
      BY <1>1, <2>1, <2>2 DEF SameClaim, InHands, Recoverable, LeftBehind
    <3>3. HeldIsActive(s)' /\ EndsLast(s)'
      BY <1>1, <2>1, <2>2, <3>1 DEF SameClaim, HeldIsActive, EndsLast
    <3> QED
      BY <1>1, <2>2, <3>1, <3>2, <3>3 DEF Claims, SameClaim, Answers, Recoverable, LeftBehind
  <2>3. CASE SameClaim(s) /\ worker[s].pc = "none" /\ run[s].status \in Active
    BY <2>1, <2>3
       DEF SameClaim, Claims, InHands, HeldIsActive, EndsLast, Answers, Active
  <2>4. CASE worker[s].pc = "none" /\ worker'[s].pc = "none"
    BY <2>1, <2>4 DEF Claims, InHands, HeldIsActive, EndsLast, Live, Answers
  <2>5. CASE /\ ctl.pc = "write" /\ s = ctl.run /\ worker'[s].pc = worker[s].pc
             /\ run'[s].status \in Active /\ run'[s].current = run[s].current
    <3>1. \A j \in Job : worker'[s].job = j => Recoverable(s, j)' \/ LeftBehind(s, j)'
      BY <2>5 DEF Recoverable, LeftBehind, Active
    <3>2. worker'[s].job # None => worker'[s].job \in Job
      BY <2>1 DEF TypeOK, WorkerRow
    <3>3. InHands(s)'
      BY <2>1, <2>5, <3>1, <3>2 DEF InHands
    <3> QED
      BY <2>1, <2>5, <3>1, <3>3 DEF Claims, HeldIsActive, EndsLast, Answers, Active
  <2>6. CASE /\ ctl.op = "cancel" /\ ctl.pc = "write" /\ ~ctl.alive /\ s = ctl.run
             /\ worker'[s].pc = worker[s].pc
             /\ run'[s].status = "cancelled" /\ run'[s].current = None
    <3>1. s \in orphan \/ ~Live(s)'
      BY <1>0, <2>6 DEF CancelIsCurrent, Live
    <3>2. worker'[s].job # None => LeftBehind(s, worker[s].job)'
      BY <2>6 DEF LeftBehind
    <3>3. InHands(s)'
      BY <2>1, <2>6, <3>2 DEF InHands
    <3> QED
      BY <1>1, <2>1, <2>6, <3>1, <3>2, <3>3 DEF Claims, HeldIsActive, EndsLast, Answers
  <2> QED
    BY <2>2, <2>3, <2>4, <2>5, <2>6, ServiceRow
<1>3. JobsAnswered'
  BY <1>0, <1>1, <1>2 DEF JobsAnswered
<1> QED
  BY <1>2, <1>3, CancelIsCurrentService DEF JobInv

(* A worker may die and a heartbeat expire: no row changes its claim.      *)
LEMMA JobInvDying ==
  ASSUME TypeOK, ServiceInv, JobInv, UNCHANGED <<ctl, job, orphan>>,
         \A s \in Run : SameClaim(s) /\ worker'[s].pc \in {worker[s].pc, "gone"}
  PROVE  JobInv'
<1>0. (\A s \in Run : Claims(s)) /\ CancelIsCurrent /\ JobsAnswered
  BY DEF JobInv
<1>1. ASSUME NEW s \in Run
      PROVE  Claims(s)'
  <2>1. SameClaim(s) /\ worker'[s].pc \in {worker[s].pc, "gone"}
    OBVIOUS
  <2>2. InHands(s) /\ HeldIsActive(s) /\ EndsLast(s)
    BY <1>0 DEF Claims
  <2>3. InHands(s)'
    BY <2>1, <2>2 DEF SameClaim, InHands, Recoverable, LeftBehind
  <2>4. HeldIsActive(s)' /\ EndsLast(s)'
    BY <2>1, <2>2 DEF SameClaim, HeldIsActive, EndsLast, Live
  <2> QED
    BY <2>3, <2>4 DEF Claims
<1>2. ctl.pc \in {"probe", "write"} => ctl.run \in Run
  BY DEF TypeOK
<1>3. CancelIsCurrent'
  BY <1>0, <1>2 DEF CancelIsCurrent, SameClaim, Live
<1>4. JobsAnswered'
  <2>1. SUFFICES ASSUME NEW j \in Job, job[j] = "in_progress", NEW q \in Run, Answers(q, j)
        PROVE  Answers(q, j)'
    BY <1>0 DEF JobsAnswered
  <2>2. worker[q].job = j /\ worker[q].job # None /\ SameClaim(q) /\ Claims(q)
    BY <1>0, <2>1, PipelineAssumption DEF Answers
  <2>3. Recoverable(q, j) \/ LeftBehind(q, j)
    BY <2>1, <2>2, LiveHands DEF Answers
  <2> QED
    BY <2>2, <2>3 DEF Answers, Recoverable, LeftBehind, SameClaim
<1> QED
  BY <1>1, <1>3, <1>4 DEF JobInv

LEMMA JobInvSurroundings ==
  ASSUME TypeOK, ServiceInv, JobInv, Surrounded
  PROVE  JobInv'
<1>0. (\A s \in Run : Claims(s)) /\ CancelIsCurrent /\ JobsAnswered
  BY DEF JobInv
<1>1. ASSUME NEW r \in Run, Kill(r)
      PROVE  JobInv'
  <2>1. UNCHANGED <<ctl, run, job, orphan>> /\ Goto(r, "gone")
    BY <1>1 DEF Kill
  <2>2. \A s \in Run : SameClaim(s) /\ worker'[s].pc \in {worker[s].pc, "gone"}
    BY <2>1, Moved DEF SameClaim, WorkerPc
  <2> QED
    BY <2>1, <2>2, JobInvDying
<1>2. ASSUME NEW r \in Run, Expire(r)
      PROVE  JobInv'
  <2>1. UNCHANGED <<ctl, job, worker, orphan>> /\ run' = [run EXCEPT ![r].fresh = FALSE]
    BY <1>2 DEF Expire
  <2>2. \A s \in Run : SameClaim(s) /\ worker'[s].pc \in {worker[s].pc, "gone"}
    BY <2>1, Stamped DEF SameClaim
  <2> QED
    BY <2>1, <2>2, JobInvDying
<1>3. CASE Stop
  <2>1. UNCHANGED <<ctl, run, job, orphan>>
    BY <1>3 DEF Stop
  <2>2. \A s \in Run : SameClaim(s) /\ worker'[s].pc \in {worker[s].pc, "gone"}
    BY <1>3, <2>1, Stopped DEF SameClaim
  <2> QED
    BY <2>1, <2>2, JobInvDying
<1>4. CASE StopEnds \/ Crash
  <2>1. /\ ctl' \in {ctl, Idle} /\ orphan' = orphan \cup {r \in Run : Live(r)}
        /\ UNCHANGED <<run, job, worker>>
    BY <1>4 DEF StopEnds, Crash, Lost
  <2>2. \A s \in Run : Claims(s)'
    BY <1>0, <2>1
       DEF Claims, InHands, HeldIsActive, EndsLast, Recoverable, LeftBehind, Live
  <2>3. CancelIsCurrent'
    BY <1>0, <2>1 DEF CancelIsCurrent, Idle, Live
  <2>4. JobsAnswered'
    BY <1>0, <2>1 DEF JobsAnswered, Answers, Live, Recoverable, LeftBehind
  <2> QED
    BY <2>2, <2>3, <2>4 DEF JobInv
<1>5. CASE Startup
  <2>1. /\ ctl = Idle /\ UNCHANGED <<ctl, worker, orphan>>
    BY <1>5 DEF Startup, ServiceInv, DownIsIdle, Up
  <2>2. \A s \in Run :
          /\ run'[s].current = run[s].current
          /\ run'[s].status = IF s \in ActiveRuns /\ Stale(s) THEN "recovered"
                                                             ELSE run[s].status
    BY <1>5, Recovered
  <2>3. \A s \in Run \ orphan : ~Live(s)
    <3>1. handle = 0 /\ \A s \in Run : s # 0
      BY <1>5, PipelineAssumption DEF Startup, ServiceInv, DownIsIdle, Up, Run
    <3> QED
      BY <3>1 DEF ServiceInv, LiveIsHeld
  <2>4. ASSUME NEW s \in Run
        PROVE  Claims(s)'
    <3>1. InHands(s) /\ EndsLast(s)
      BY <1>0 DEF Claims
    <3>2. InHands(s)'
      BY <2>1, <2>2, <3>1 DEF InHands, Recoverable, LeftBehind, ActiveRuns, Active
    <3>3. HeldIsActive(s)' /\ EndsLast(s)'
      BY <2>1, <2>2, <2>3, <3>1 DEF HeldIsActive, EndsLast, Live
    <3> QED
      BY <3>2, <3>3 DEF Claims
  <2>5. CancelIsCurrent'
    BY <2>1 DEF CancelIsCurrent, Idle
  <2>6. JobsAnswered'
    <3>1. SUFFICES ASSUME NEW j \in Job, job'[j] = "in_progress"
          PROVE  \E q \in Run : Answers(q, j)'
      BY DEF JobsAnswered
    <3>2. /\ job[j] = "in_progress"
          /\ ~\E r \in Run : r \in ActiveRuns /\ Stale(r) /\ run[r].current = j
      BY <1>5, <3>1 DEF Startup, JobsRecovered, ActiveRuns
    <3>3. PICK q \in Run : Answers(q, j)
      BY <1>0, <3>2 DEF JobsAnswered
    <3>4. CASE Live(q)
      BY <2>1, <3>3, <3>4 DEF Answers, Live
    <3>5. CASE LeftBehind(q, j)
      BY <2>1, <2>2, <3>3, <3>5 DEF Answers, LeftBehind, ActiveRuns, Active
    <3>6. CASE Recoverable(q, j)
      BY <2>1, <2>2, <3>2, <3>3, <3>6 DEF Answers, Recoverable, ActiveRuns
    <3> QED
      BY <3>3, <3>4, <3>5, <3>6 DEF Answers
  <2> QED
    BY <2>4, <2>5, <2>6 DEF JobInv
<1>6. ASSUME NEW j \in Job, Retry(j)
      PROVE  JobInv'
  <2>1. /\ UNCHANGED <<life, ctl, handle, run, worker, orphan>>
        /\ job' = [job EXCEPT ![j] = "queued"]
    BY <1>6 DEF Retry
  <2>2. \A i \in Job : job'[i] = "in_progress" => job[i] = "in_progress"
    BY <2>1 DEF TypeOK
  <2> QED
    BY <1>0, <2>1, <2>2
       DEF JobInv, Claims, InHands, HeldIsActive, EndsLast, CancelIsCurrent, JobsAnswered,
           Answers, Recoverable, LeftBehind, Live
<1> QED
  BY <1>1, <1>2, <1>3, <1>4, <1>5, <1>6 DEF Surrounded

LEMMA JobInvInit == Init => JobInv
<1> SUFFICES ASSUME Init
             PROVE  JobInv
  OBVIOUS
<1>1. /\ ctl = Idle
      /\ \A r \in Run : run[r] = NoRun /\ worker[r] = NoWorker
      /\ \A j \in Job : job[j] = "ready_to_apply"
  BY DEF Init
<1> QED
  BY <1>1 DEF JobInv, Claims, InHands, HeldIsActive, EndsLast, CancelIsCurrent,
     JobsAnswered, Live, NoRun, NoWorker, Idle

LEMMA JobInvStep == TypeOK /\ ServiceInv /\ JobInv /\ [Next]_vars => JobInv'
<1> SUFFICES ASSUME TypeOK, ServiceInv, JobInv, [Next]_vars
             PROVE  JobInv'
  OBVIOUS
<1>1. CASE UNCHANGED vars
  BY <1>1 DEF vars, JobInv, Claims, InHands, HeldIsActive, EndsLast, CancelIsCurrent,
     JobsAnswered, Answers, Recoverable, LeftBehind, Live
<1>2. CASE Next
  BY <1>2, JobInvService, JobInvWorker, JobInvSurroundings DEF Next, Surrounded
<1> QED
  BY <1>1, <1>2

(* A job is left in progress behind no worker only where its run was       *)
(* closed over it, by a cancel without a worker or by the last-resort      *)
(* boundary, or where a worker that the service has lost took it.          *)
THEOREM OnlyClosingStrands == Spec => []StrandedOnlyByClosing
<1>1. JobInv => StrandedOnlyByClosing
  BY DEF JobInv, JobsAnswered, Answers, StrandedOnlyByClosing, WorksOn
<1> QED
  BY <1>1, TypeInit, TypeStep, ServiceInvInit, ServiceInvStep, JobInvInit, JobInvStep,
     PTL DEF Spec

(***************************************************************************)
(* The contract of the service.                                            *)
(***************************************************************************)

(* Runs are created in order, a run that is launched is the newest, and    *)
(* the service holds no run from before a crash.                           *)
InOrder ==
  /\ \A r, s \in Run : r < s /\ run[s].status # "absent" => run[r].status # "absent"
  /\ handle # 0 => run[handle].status # "absent" /\ \A r \in orphan : r < handle

(* Where a control is, and what it has found.                              *)
ControlInv ==
  /\ ctl.pc = "read" => ctl.op = "none"
  /\ ctl.pc \in {"create", "spawn", "stamp"} => ctl.op = "start"
  /\ life # "serving" => ctl.op \in {"none", "start"}
  /\ ctl.pc = "probe" => ctl.op = "cancel"
  /\ ctl.pc \in {"probe", "write"} =>
       ctl.op \in {"pause", "resume", "cancel"} /\ run[ctl.run].status # "absent"
  /\ ctl.pc = "spawn" => \A s \in Run : ctl.run < s => run[s].status = "absent"
  /\ ctl.pc = "write" /\ (ctl.op = "cancel" => ctl.alive) => handle # 0

(* What the contract rests on, and all that is known of a state.           *)
ShownInv == InOrder /\ ControlInv
Known == TypeOK /\ ServiceInv /\ JobInv /\ ShownInv

(* The contract sees the newest run, of which there is only one.           *)
LEMMA NewestShown ==
  ASSUME TypeOK, NEW r \in Run, Newest(r)
  PROVE  /\ ShownStatus = IF run[r].status \in Active THEN "running" ELSE run[r].status
         /\ ShownAlive <=> Works(r)
         /\ ShownStray <=> r \in orphan
         /\ ShownAsked <=> Asked(r)
<1>1. \A s \in Run : Newest(s) <=> s = r
  BY DEF Newest, Run
<1>2. ShownStatus = IF run[r].status \in Active THEN "running" ELSE run[r].status
  <2>1. run[CHOOSE s \in Run : Newest(s)].status = run[r].status
    BY <1>1
  <2>2. (\E s \in ActiveRuns : Newest(s)) <=> run[r].status \in Active
    BY <1>1 DEF ActiveRuns
  <2> QED BY <1>1, <2>1, <2>2 DEF ShownStatus
<1> QED BY <1>1, <1>2 DEF ShownAlive, ShownStray, ShownAsked

(* Before the first run it sees an idle service.                           *)
LEMMA NoneShown ==
  ASSUME \A r \in Run : ~ Newest(r)
  PROVE  ShownStatus = "idle" /\ ~ ShownAlive /\ ~ ShownStray /\ ~ ShownAsked
BY DEF ShownStatus, ShownAlive, ShownStray, ShownAsked, ActiveRuns

(* A run is there from its creation on.                                    *)
LEMMA RowsStay ==
  ASSUME TypeOK, ServiceInv, ShownInv, [Next]_vars, NEW s \in Run, ~ StartCreate(s)
  PROVE  run'[s].status = "absent" <=> run[s].status = "absent"
<1>0. /\ ctl.pc \in {"spawn", "stamp", "probe", "write"} => ctl.run \in Run
      /\ run \in [Run -> RunRow] /\ run[s] \in RunRow
      /\ ctl.pc \in {"probe", "write"} => run[ctl.run].status # "absent"
      /\ ctl.pc = "spawn" => run[ctl.run].status \in Active
  BY DEF TypeOK, ShownInv, ControlInv, ServiceInv, StartKnows
<1>1. ASSUME NEW r \in Run, WorkerStep(r)
      PROVE  run'[s].status = "absent" <=> run[s].status = "absent"
  BY <1>1, WorkerFrame DEF ServiceInv, AbsentIsIdle, Live, Apart, Active, Ended
<1>2. ASSUME NEW r \in Run, StartCreate(r)
      PROVE  run'[s].status = "absent" <=> run[s].status = "absent"
  BY <1>0, <1>2 DEF StartCreate
<1>3. CASE SpawnFails \/ CancelWrite
  <2>1. ctl.run \in Run /\ run[ctl.run].status # "absent"
    BY <1>0, <1>3 DEF SpawnFails, CancelWrite, Active
  <2>2. \/ \E st \in Ended : run' = Closed(ctl.run, st)
        \/ run' = [run EXCEPT ![ctl.run].status = "cancelling"]
    BY <1>3 DEF SpawnFails, CancelWrite, Ended
  <2> QED BY <1>0, <2>1, <2>2, RunClosed, StatusWritten DEF Ended, Active
<1>4. CASE StartStamp \/ SignalWrite
  BY <1>0, <1>4 DEF StartStamp, SignalWrite, RunRow
<1>5. CASE UNCHANGED run
  BY <1>5
<1>6. CASE Startup
  BY <1>0, <1>6 DEF Startup, ActiveRuns, Active
<1>7. ASSUME NEW r \in Run, Expire(r)
      PROVE  run'[s].status = "absent" <=> run[s].status = "absent"
  BY <1>0, <1>7 DEF Expire
<1> QED
  BY <1>1, <1>2, <1>3, <1>4, <1>5, <1>6, <1>7
     DEF Next, ServiceStep, StartRead, StartSpawn, SignalRead, CancelRead, CancelProbe,
         Kill, Stop, StopEnds, Crash, Retry, vars

(* It holds of a fresh database.                                           *)
LEMMA ShownInvInit == Init => ShownInv
BY PipelineAssumption DEF Init, ShownInv, InOrder, ControlInv, Run, NoRun, Idle

(* It is kept by every step: a start knows that its run is the newest, a   *)
(* crash takes the process object with the controls.                       *)
LEMMA ShownInvStep == TypeOK /\ ServiceInv /\ ShownInv /\ [Next]_vars => ShownInv'
<1> SUFFICES ASSUME TypeOK, ServiceInv, ShownInv, [Next]_vars PROVE ShownInv'
  OBVIOUS
<1>0. /\ ctl.pc \in {"spawn", "stamp", "probe", "write"} => ctl.run \in Run
      /\ InOrder /\ ControlInv /\ AbsentIsIdle /\ DownIsIdle /\ StartKnows
      /\ orphan \subseteq Run /\ handle \in Run \cup {0} /\ ctl \in Control
  BY DEF TypeOK, ShownInv, ServiceInv
<1>1. CASE \A s \in Run : ~ StartCreate(s)
  <2>1. \A s \in Run : run'[s].status = "absent" <=> run[s].status = "absent"
    BY <1>1, RowsStay
  <2>2. CASE StartSpawn
    <3>1. /\ handle' = ctl.run /\ ctl.run \in Run /\ run[ctl.run].status # "absent"
          /\ \A r \in orphan : r < ctl.run
      BY <1>0, <2>2 DEF StartSpawn, ControlInv, AbsentIsIdle, StartKnows, Run, Active
    <3>2. ctl'.pc = "stamp" /\ ctl'.op = ctl.op /\ ctl.pc = "spawn"
          /\ UNCHANGED <<life, orphan>>
      BY <1>0, <2>2 DEF StartSpawn, Control
    <3> QED BY <1>0, <2>1, <3>1, <3>2 DEF InOrder, ControlInv, ShownInv
  <2>3. CASE Crash \/ Stop \/ StopEnds
    <3>1. /\ ctl' = Idle \/ (ctl' = ctl /\ ctl.op \in {"none", "start"})
          /\ handle' = 0 \/ UNCHANGED <<handle, orphan>>
      BY <1>0, <2>3 DEF Crash, Stop, StopEnds, ControlInv
    <3>2. InOrder'
      BY <1>0, <2>1, <3>1 DEF InOrder
    <3>3. ControlInv'
      BY <1>0, <2>1, <3>1 DEF ControlInv, Idle
    <3> QED BY <3>2, <3>3 DEF ShownInv
  <2>4. CASE UNCHANGED <<life, ctl, handle, orphan>>
    BY <1>0, <2>1, <2>4 DEF InOrder, ControlInv, ShownInv
  <2>5. CASE StartRead \/ SpawnFails \/ StartStamp \/ SignalWrite \/ CancelWrite
    <3>1. \/ ctl'.pc = "read" /\ ctl'.op = "none"
          \/ ctl'.pc = "create" /\ ctl'.op = "start"
      <4>1. CASE StartRead
        BY <4>1 DEF StartRead, Idle
      <4>2. CASE ~ StartRead
        BY <2>5, <4>2 DEF SpawnFails, StartStamp, SignalWrite, CancelWrite, Idle
      <4> QED BY <4>1, <4>2
    <3>2. UNCHANGED <<life, handle, orphan>>
      BY <2>5 DEF StartRead, SpawnFails, StartStamp, SignalWrite, CancelWrite
    <3> QED BY <1>0, <2>1, <3>1, <3>2 DEF InOrder, ControlInv, ShownInv
  <2>6. ASSUME NEW r \in Run,
               CancelRead(r) \/ \E op \in {"pause", "resume"} : SignalRead(op, r)
        PROVE  ShownInv'
    <3>1. /\ ctl'.run = r /\ run[r].status # "absent"
          /\ ctl'.op \in {"pause", "resume", "cancel"}
          /\ ctl'.pc = IF ctl'.op = "cancel" THEN "probe" ELSE "write"
          /\ UNCHANGED <<life, handle, orphan>> /\ life = "serving"
          /\ ctl'.op # "cancel" => handle # 0
      BY <2>6
         DEF CancelRead, SignalRead, Idle, IsLatestActive, ActiveRuns, Active,
             HandleLive
    <3> QED BY <1>0, <2>1, <3>1 DEF InOrder, ControlInv, ShownInv
  <2>7. CASE CancelProbe
    <3>1. /\ ctl'.pc = "write" /\ ctl'.op = ctl.op /\ ctl'.run = ctl.run /\ ctl.pc = "probe"
          /\ ctl'.alive => handle # 0
          /\ UNCHANGED <<life, handle, orphan>>
      BY <1>0, <2>7 DEF CancelProbe, Control, HandleLive
    <3>2. ctl.op = "cancel"
      BY <1>0, <3>1 DEF ControlInv
    <3> QED BY <1>0, <2>1, <3>1, <3>2 DEF InOrder, ControlInv, ShownInv
  <2>8. ASSUME NEW r \in Run, WorkerStep(r) PROVE ShownInv'
    BY <2>4, <2>8, WorkerFrame
  <2>9. CASE Startup
    <3>1. /\ ctl = Idle /\ UNCHANGED <<ctl, handle, orphan>>
      BY <1>0, <2>9 DEF Startup, DownIsIdle
    <3> QED BY <1>0, <2>1, <3>1 DEF InOrder, ControlInv, ShownInv, Idle
  <2> QED
    BY <1>1, <2>2, <2>3, <2>4, <2>5, <2>6, <2>7, <2>8, <2>9
       DEF Next, ServiceStep, Kill, Expire, Retry, vars
<1>2. ASSUME NEW r \in Run, StartCreate(r) PROVE ShownInv'
  <2>1. /\ run' = [run EXCEPT ![r].status = "running"] /\ run \in [Run -> RunRow]
        /\ \A s \in Run : s < r => run[s].status # "absent"
        /\ \A s \in Run : r < s => run[s].status = "absent"
        /\ ctl'.pc = "spawn" /\ ctl'.run = r /\ ctl'.op = ctl.op
        /\ UNCHANGED <<life, handle, orphan>>
    BY <1>0, <1>2 DEF StartCreate, InOrder, TypeOK, Control
  <2>2. \A s \in Run : run'[s].status = IF s = r THEN "running" ELSE run[s].status
    BY <2>1 DEF RunRow
  <2> QED BY <1>0, <1>2, <2>1, <2>2 DEF StartCreate, InOrder, ControlInv, ShownInv, Run
<1> QED BY <1>1, <1>2

(* A worker writes the end of a run with its last step before it exits.    *)
WritesOn(r) ==
  /\ worker[r].pc # "exiting" /\ worker'[r].pc \notin {"none", "gone", "exiting"}
  /\ run'[r].status \in {run[r].status} \cup Active
WritesLast(r) ==
  /\ worker[r].pc # "exiting" /\ worker'[r].pc = "exiting"
  /\ run'[r].status \in {run[r].status} \cup Ended
Exits(r) ==
  /\ worker[r].pc = "exiting" /\ worker'[r].pc = "gone"
  /\ run'[r].status = run[r].status

(* Every step of a worker is one of the three.                             *)
LEMMA WorkerWrites ==
  ASSUME TypeOK, NEW r \in Run, WorkerStep(r)
  PROVE  WritesOn(r) \/ WritesLast(r) \/ Exits(r)
<1>0. worker[r] \in WorkerRow
  BY DEF TypeOK
<1>1. CASE BootRead(r) \/ BootBeat(r) \/ Load(r)
  BY <1>1, BootReadEffect, BootBeatEffect, LoadEffect
     DEF BootRead, BootBeat, Load, RunKept, WritesOn, WritesLast
<1>2. CASE WorkerFails(r) \/ FinishCancelled(r) \/ Finish(r)
  <2>1. /\ run' = run \/ \E st \in Ended : run' = Closed(r, st)
        /\ Goto(r, "exiting") /\ worker[r].pc # "exiting"
    BY <1>2 DEF WorkerFails, MarkFailed, Unguarded, FinishCancelled, Finish, Ended
  <2> QED BY <2>1, RunClosed, Moved DEF WritesLast, WorkerPc
<1>3. CASE Check(r) \/ WaitPoll(r)
  <2>1. /\ \E pc \in {"cancel", "pause", "exiting", "take", "resume", "wait"} : Goto(r, pc)
        /\ run' = [run EXCEPT ![r].fresh = TRUE] /\ worker[r].pc # "exiting"
    BY <1>3 DEF Check, Passes, WaitPoll, Wakes
  <2> QED BY <2>1, Stamped, Moved DEF WritesOn, WritesLast, WorkerPc
<1>4. CASE PauseWrite(r) \/ ResumeWrite(r)
  <2>1. /\ \E pc \in {"wait", "load", "take"} : Goto(r, pc)
        /\ \E st \in Active : run' = [run EXCEPT ![r].status = st]
        /\ worker[r].pc # "exiting"
    BY <1>0, <1>4 DEF PauseWrite, ResumeWrite, WorkerRow, Active
  <2> QED BY <2>1, StatusWritten, Moved DEF WritesOn, WorkerPc
<1>5. CASE \E j \in Job : Take(r, j)
  BY <1>5, TakeEffect DEF Take, WritesOn
<1>6. CASE OpenJob(r) \/ Raise(r)
  <2>1. /\ \E pc \in {"work", "raised"} : Goto(r, pc)
        /\ UNCHANGED run /\ worker[r].pc # "exiting"
    BY <1>6 DEF OpenJob, Raise
  <2> QED BY <2>1, Moved DEF WritesOn, WorkerPc
<1>7. CASE Work(r) \/ Count(r) \/ SettleJob(r) \/ FailJob(r) \/ CountFailed(r)
  BY <1>7, WorkEffect, CountEffect, SettleEffect, FailEffect, CountFailedEffect
     DEF Work, Count, SettleJob, FailJob, CountFailed, AfterJob, RunKept, WritesOn
<1>8. CASE Exit(r)
  BY <1>8, Moved DEF Exit, Exits, WorkerPc
<1> QED
  BY <1>1, <1>2, <1>3, <1>4, <1>5, <1>6, <1>7, <1>8 DEF WorkerStep, GoesOn

(* Where the newest run stays the newest, a step is seen through it.       *)
Seen(r) ==
  /\ ShownStatus = IF run[r].status \in Active THEN "running" ELSE run[r].status
  /\ ShownAlive <=> Works(r)
  /\ ShownStray <=> r \in orphan
  /\ ShownAsked <=> Asked(r)

(* A step that keeps what is seen of the newest run is none of the         *)
(* contract.                                                               *)
LEMMA KeptShown ==
  ASSUME NEW r \in Run, Seen(r), Seen(r)', run'[r].status = run[r].status \/
            (run[r].status \in Active /\ run'[r].status \in Active),
         Works(r)' <=> Works(r), r \in orphan' <=> r \in orphan, Asked(r)' <=> Asked(r)
  PROVE  UNCHANGED <<ShownStatus, ShownAlive, ShownStray, ShownAsked>>
<1>1. ShownStatus' = ShownStatus
  BY DEF Seen
<1>2. /\ ShownAlive' <=> ShownAlive
      /\ ShownStray' <=> ShownStray
      /\ ShownAsked' <=> ShownAsked
  BY DEF Seen
<1>3. ShownAlive' = ShownAlive /\ ShownStray' = ShownStray /\ ShownAsked' = ShownAsked
  BY <1>2 DEF ShownAlive, ShownStray, ShownAsked
<1> QED BY <1>1, <1>3

(* A step of the contract, or none.                                        *)
ServiceMoves == Service!ServiceNext \/ UNCHANGED Service!serviceVars

(* A worker ends its run once, and before it exits; a stray one may make a *)
(* run active again.                                                       *)
LEMMA WorkerShown ==
  ASSUME Known, NEW q \in Run, WorkerStep(q), NEW r \in Run, Seen(r), Seen(r)'
  PROVE  ServiceMoves
<1>0. /\ UNCHANGED <<life, ctl, handle, orphan>> /\ Apart(q) /\ Live(q)
      /\ WritesOn(q) \/ WritesLast(q) \/ Exits(q)
      /\ run[q].status \in Active \/ q \in orphan \/ worker[q].pc = "exiting"
      /\ ctl.pc = "spawn" => ctl.run # q
  BY WorkerFrame, WorkerWrites
     DEF Known, JobInv, Claims, HeldIsActive, ServiceInv, StartKnows, Live
<1>1. UNCHANGED <<ShownStray, ShownAsked, Up>>
  BY <1>0 DEF Seen, Asked, ShownStray, ShownAsked, Up
<1>2. CASE q # r
  <2>1. Works(r)' <=> Works(r)
    BY <1>0, <1>2 DEF Apart, Works, Live
  <2> QED
    BY <1>0, <1>1, <1>2, <2>1, KeptShown
       DEF Apart, ServiceMoves, Service!serviceVars, Asked
<1>3. CASE q = r /\ WritesOn(r)
  <2>1. Works(r) /\ Works(r)'
    BY <1>0, <1>3 DEF WritesOn, Works, Live
  <2>2. CASE run[r].status \in Active \/ run'[r].status = run[r].status
    BY <1>0, <1>1, <1>3, <2>1, <2>2, KeptShown
       DEF WritesOn, ServiceMoves, Service!serviceVars, Asked
  <2>3. CASE ~ (run[r].status \in Active \/ run'[r].status = run[r].status)
    <3>1. ShownAlive /\ ShownStray /\ ShownStatus' = "running"
      BY <1>0, <1>3, <2>1, <2>3 DEF Seen, WritesOn
    <3>2. UNCHANGED ShownAlive
      BY <2>1 DEF Seen, ShownAlive
    <3> QED BY <1>1, <3>1, <3>2 DEF ServiceMoves, Service!ServiceNext, Service!Revive
  <2> QED BY <2>2, <2>3
<1>4. CASE q = r /\ WritesLast(r)
  <2>1. ShownAlive /\ ~ ShownAlive'
    BY <1>0, <1>4 DEF Seen, WritesLast, Works, Live
  <2>2. ShownAlive' = FALSE
    BY <2>1 DEF ShownAlive
  <2>3. CASE run'[r].status = run[r].status
    BY <1>1, <2>1, <2>2, <2>3 DEF Seen, ServiceMoves, Service!ServiceNext, Service!Die
  <2>4. CASE run'[r].status \in Ended
    <3>1. ShownStatus' = run'[r].status /\ (ShownStatus = "running" \/ ShownStray)
      BY <1>0, <1>4, <2>4 DEF Seen, WritesLast, Ended, Active
    <3> QED
      BY <1>1, <2>1, <2>2, <2>4, <3>1
         DEF Ended, ServiceMoves, Service!ServiceNext, Service!EndRun
  <2> QED BY <1>4, <2>3, <2>4 DEF WritesLast
<1>5. CASE q = r /\ Exits(r)
  <2>1. ~ Works(r) /\ ~ Works(r)'
    BY <1>0, <1>5 DEF Exits, Works, Live
  <2> QED
    BY <1>0, <1>1, <1>5, <2>1, KeptShown
       DEF Exits, ServiceMoves, Service!serviceVars, Asked
<1> QED BY <1>0, <1>2, <1>3, <1>4, <1>5

(* A control that has read the newest run answers on what it read: a run   *)
(* whose worker the service holds stays active, one without a worker ends. *)
LEMMA ControlShown ==
  ASSUME Known, ServiceStep, NEW r \in Run, Newest(r), Newest(r)', Seen(r), Seen(r)'
  PROVE  ServiceMoves
<1>0. /\ UNCHANGED <<life, orphan>>
      /\ ctl.pc \in {"spawn", "stamp", "probe", "write"} => ctl.run \in Run
      /\ run \in [Run -> RunRow] /\ worker \in [Run -> WorkerRow] /\ ctl \in Control
      /\ ControlInv /\ InOrder /\ StartKnows /\ DownIsIdle /\ AbsentIsIdle
      /\ CancelIsCurrent
  BY DEF Known, TypeOK, ShownInv, ServiceInv, JobInv, ServiceStep, StartRead,
         StartCreate, StartSpawn, SpawnFails, StartStamp, SignalRead, SignalWrite,
         CancelRead, CancelProbe, CancelWrite
<1>1. UNCHANGED <<ShownStray, Up>>
  BY <1>0 DEF Seen, ShownStray, Up
<1>2. ASSUME run'[r].status = run[r].status, Works(r)' <=> Works(r), Asked(r)' <=> Asked(r)
      PROVE  ServiceMoves
  BY <1>0, <1>1, <1>2, KeptShown DEF ServiceMoves, Service!serviceVars
<1>3. CASE StartRead
  BY <1>2, <1>3 DEF StartRead, Idle, Works, Asked, Live
<1>4. ASSUME NEW q \in Run, StartCreate(q) PROVE FALSE
  <2>1. q # r /\ q > r
    BY <1>0, <1>4 DEF StartCreate, Newest, InOrder, Run
  <2> QED BY <1>0, <1>4, <2>1 DEF StartCreate, Newest, RunRow
<1>5. CASE StartSpawn
  <2>1. /\ \A s \in Run : worker'[s].pc = IF s = ctl.run THEN "boot" ELSE worker[s].pc
        /\ ctl'.pc = "stamp" /\ ctl'.op = ctl.op /\ ctl'.run = ctl.run /\ UNCHANGED run
    BY <1>0, <1>5 DEF StartSpawn, WorkerRow, Control
  <2>2. Works(r)' <=> Works(r)
    BY <1>0, <1>5, <2>1 DEF StartSpawn, Works, Live, StartKnows
  <2> QED BY <1>2, <2>1, <2>2 DEF Asked
<1>6. CASE SpawnFails
  <2>1. /\ \A s \in Run : s # ctl.run => run'[s] = run[s]
        /\ run'[ctl.run].status = "failed" /\ ctl.run \in Run
        /\ ctl' = Idle /\ UNCHANGED worker /\ ctl.pc = "spawn" /\ ctl.op = "start"
    BY <1>0, <1>6, RunClosed DEF SpawnFails, Ended, Known, ControlInv
  <2>2. CASE ctl.run = r
    <3>1. /\ ShownStatus = "running" /\ ~ ShownStray
          /\ ShownStatus' = "failed" /\ ~ ShownAlive'
          /\ Up /\ ~ ShownAsked /\ ~ ShownAsked'
      BY <1>0, <2>1, <2>2
         DEF Seen, StartKnows, Works, Live, Asked, Idle, DownIsIdle, Active, Known,
             TypeOK
    <3>2. ShownAlive' = FALSE /\ ShownAsked' = ShownAsked
      BY <3>1 DEF ShownAlive, ShownAsked
    <3> QED
      BY <1>1, <3>1, <3>2 DEF ServiceMoves, Service!ServiceNext, Service!LaunchFails
  <2>3. CASE ctl.run # r
    BY <1>2, <2>1, <2>3 DEF Works, Live, Asked, Idle
  <2> QED BY <2>2, <2>3
<1>7. CASE StartStamp
  <2>1. run'[r].status = run[r].status
    BY <1>0, <1>7 DEF StartStamp, RunRow
  <2> QED BY <1>0, <1>2, <1>7, <2>1 DEF StartStamp, Works, Live, Asked, Idle, ControlInv
<1>8. ASSUME NEW q \in Run,
             CancelRead(q) \/ \E op \in {"pause", "resume"} : SignalRead(op, q)
      PROVE  ServiceMoves
  <2>1. /\ ctl'.run = q /\ ctl'.op \in {"pause", "resume", "cancel"} /\ ctl'.pc # "spawn"
        /\ run[q].status \in Active /\ Up /\ ctl = Idle /\ UNCHANGED <<run, worker>>
    BY <1>8 DEF CancelRead, SignalRead, Idle, IsLatestActive, ActiveRuns, Up
  <2>2. Works(r)' <=> Works(r)
    BY <2>1 DEF Works, Live, Idle
  <2>3. CASE q = r
    <3>1. ShownStatus = "running" /\ ~ ShownAsked /\ ShownAsked'
      BY <2>1, <2>3 DEF Seen, Asked, Idle
    <3>2. ShownAsked' = TRUE /\ UNCHANGED <<ShownStatus, ShownAlive>>
      BY <2>1, <2>2, <3>1 DEF Seen, ShownAsked, ShownAlive
    <3> QED BY <1>1, <2>1, <3>1, <3>2 DEF ServiceMoves, Service!ServiceNext, Service!Ask
  <2>4. CASE q # r
    BY <1>2, <2>1, <2>2, <2>4 DEF Asked, Idle
  <2> QED BY <2>3, <2>4
<1>9. CASE CancelProbe
  BY <1>0, <1>2, <1>9 DEF CancelProbe, Works, Live, Asked, Control
<1>10. CASE SignalWrite \/ CancelWrite
  <2>1. /\ ctl' = Idle /\ ctl.pc = "write" /\ ctl.run \in Run /\ UNCHANGED worker
        /\ \A s \in Run : s # ctl.run => run'[s] = run[s]
        /\ \/ run'[ctl.run].status \in Active /\ (ctl.op = "cancel" => ctl.alive)
           \/ run'[ctl.run].status = "cancelled" /\ ctl.op = "cancel" /\ ~ ctl.alive
    BY <1>0, <1>10, StatusWritten, RunClosed
       DEF SignalWrite, CancelWrite, Active, Ended, Known
  <2>2. Works(r)' <=> Works(r)
    BY <2>1 DEF Works, Live, Idle
  <2>3. CASE ctl.run # r
    BY <1>2, <2>1, <2>2, <2>3 DEF Asked, Idle
  <2>4. CASE ctl.run = r
    <3>1. ShownAsked /\ ~ ShownAsked' /\ Up
      BY <1>0, <2>1, <2>4 DEF Seen, Asked, Idle, ControlInv, DownIsIdle
    <3>2. ShownAsked' = FALSE /\ UNCHANGED ShownAlive
      BY <2>2, <3>1 DEF Seen, ShownAsked, ShownAlive
    <3>3. CASE run'[r].status \in Active
      <4>1. handle # 0 /\ handle \in Run
        BY <1>0, <2>1, <2>4, <3>3 DEF ControlInv, Known, TypeOK, Active
      <4>2. r \notin orphan
        BY <1>0, <4>1 DEF InOrder, Newest, Run
      <4>3. ~ ShownStray /\ ShownStatus' = "running"
        BY <3>3, <4>2 DEF Seen
      <4> QED
        BY <1>1, <3>1, <3>2, <4>3 DEF ServiceMoves, Service!ServiceNext, Service!Answer
    <3>4. CASE run'[r].status \notin Active
      <4>1. (r \in orphan \/ ~ Live(r)) /\ run'[r].status = "cancelled"
        BY <1>0, <2>1, <2>4, <3>4 DEF CancelIsCurrent
      <4>2. (ShownStray \/ ~ ShownAlive) /\ ShownStatus' = "cancelled"
        BY <2>1, <3>4, <4>1 DEF Seen, Works
      <4> QED
        BY <1>1, <3>1, <3>2, <4>2 DEF ServiceMoves, Service!ServiceNext, Service!Answer
    <3> QED BY <3>3, <3>4
  <2> QED BY <2>3, <2>4
<1> QED
  BY <1>3, <1>4, <1>5, <1>6, <1>7, <1>8, <1>9, <1>10 DEF ServiceStep

(* What the contract sees, before and after a step.                        *)
SeesNewest == TypeOK => \A r \in Run : Newest(r) => Seen(r)
SeesNone ==
  (\A r \in Run : ~ Newest(r)) =>
    ShownStatus = "idle" /\ ~ ShownAlive /\ ~ ShownStray /\ ~ ShownAsked

(* The newest run is seen in every state of the right type.                *)
LEMMA NewestIsSeen == SeesNewest
BY NewestShown DEF SeesNewest, Seen

(* So is its absence.                                                      *)
LEMMA NoneIsSeen == SeesNone
BY NoneShown DEF SeesNone

(* A shutdown ends the worker that the service holds and leaves a stray    *)
(* one alone; a crash makes every live worker a stray one.                 *)
LEMMA SurroundingsShown ==
  ASSUME Known, Surrounded, NEW r \in Run, Seen(r), Seen(r)'
  PROVE  ServiceMoves
<1>0. /\ TypeOK /\ DownIsIdle /\ LiveIsHeld /\ StartKnows /\ InOrder /\ ControlInv
      /\ run \in [Run -> RunRow] /\ worker \in [Run -> WorkerRow]
  BY DEF Known, TypeOK, ServiceInv, ShownInv
<1>1. ASSUME NEW q \in Run, Kill(q) PROVE ServiceMoves
  <2>1. /\ UNCHANGED <<life, ctl, handle, run, orphan>> /\ Live(q)
        /\ \A s \in Run : s # q => worker'[s] = worker[s]
        /\ worker'[q].pc = "gone"
    BY <1>0, <1>1, Moved DEF Kill, WorkerPc
  <2>2. UNCHANGED <<ShownStatus, ShownStray, ShownAsked, Up>>
    BY <2>1 DEF Seen, ShownStray, ShownAsked, Asked, Up
  <2>3. CASE Works(r)' <=> Works(r)
    BY <2>1, <2>3, KeptShown DEF ServiceMoves, Service!serviceVars, Asked, Up
  <2>4. CASE ~ (Works(r)' <=> Works(r))
    <3>1. ShownAlive /\ ~ ShownAlive'
      BY <1>0, <2>1, <2>4 DEF Seen, Works, Live, StartKnows
    <3>2. ShownAlive' = FALSE
      BY <3>1 DEF ShownAlive
    <3> QED BY <2>2, <3>1, <3>2 DEF ServiceMoves, Service!ServiceNext, Service!Die
  <2> QED BY <2>3, <2>4
<1>2. ASSUME NEW q \in Run, Expire(q) PROVE ServiceMoves
  <2>1. /\ UNCHANGED <<life, ctl, worker, orphan>> /\ run'[r].status = run[r].status
    BY <1>0, <1>2, Stamped DEF Expire
  <2> QED BY <2>1, KeptShown DEF ServiceMoves, Service!serviceVars, Asked, Works, Live, Up
<1>3. CASE Stop
  <2>1. /\ \A s \in Run :
             worker'[s].pc = IF s = handle /\ Live(s) THEN "gone" ELSE worker[s].pc
        /\ UNCHANGED <<Up, ctl, run, orphan>>
    BY <1>0, <1>3, Stopped DEF Stop, Up
  <2>2. UNCHANGED <<ShownStatus, ShownStray, ShownAsked, Up>>
    BY <2>1 DEF Seen, ShownStray, ShownAsked, Asked
  <2>3. CASE Works(r)' <=> Works(r)
    BY <2>1, <2>3, KeptShown DEF ServiceMoves, Service!serviceVars, Asked
  <2>4. CASE ~ (Works(r)' <=> Works(r))
    <3>1. ShownAlive /\ ~ ShownAlive'
      BY <1>0, <2>1, <2>4 DEF Seen, Works, Live, StartKnows
    <3>2. ShownAlive' = FALSE
      BY <3>1 DEF ShownAlive
    <3> QED BY <2>2, <3>1, <3>2 DEF ServiceMoves, Service!ServiceNext, Service!Die
  <2> QED BY <2>3, <2>4
<1>4. CASE Crash
  <2>1. /\ Up /\ Up' = FALSE /\ ctl' = Idle /\ UNCHANGED <<run, worker>>
        /\ orphan' = orphan \cup {s \in Run : Live(s)}
    BY <1>4 DEF Crash, Lost, Up
  <2>2. ~ ShownAsked' /\ UNCHANGED ShownStatus
    BY <2>1 DEF Seen, Asked, Idle
  <2>3. ShownAsked' = FALSE
    BY <2>2 DEF ShownAsked
  <2>4. CASE Live(r) \/ r \in orphan
    <3>1. ShownStray' /\ (Works(r)' <=> Works(r))
      BY <1>0, <2>1, <2>4 DEF Seen, Works, Live, StartKnows, Idle
    <3>2. ShownStray' = TRUE /\ UNCHANGED ShownAlive
      BY <3>1 DEF Seen, ShownStray, ShownAlive
    <3> QED
      BY <2>1, <2>2, <2>3, <3>2 DEF ServiceMoves, Service!ServiceNext, Service!GoDown
  <2>5. CASE ~ (Live(r) \/ r \in orphan)
    <3>1. ~ ShownStray /\ ~ ShownStray' /\ ~ ShownAlive'
      BY <2>1, <2>5 DEF Seen, Works, Live, Idle
    <3>2. UNCHANGED ShownStray /\ ShownAlive' = FALSE
      BY <3>1 DEF ShownStray, ShownAlive
    <3> QED
      BY <2>1, <2>2, <2>3, <3>1, <3>2
         DEF ServiceMoves, Service!ServiceNext, Service!GoDown
  <2> QED BY <2>4, <2>5
<1>5. CASE Startup
  <2>1. /\ ~ Up /\ Up' = TRUE /\ UNCHANGED <<ctl, worker, orphan>>
        /\ run'[r].status =
             IF r \in ActiveRuns /\ Stale(r) THEN "recovered" ELSE run[r].status
    BY <1>0, <1>5, Recovered DEF Startup, Up
  <2>2. UNCHANGED <<ShownAlive, ShownStray, ShownAsked>>
    BY <2>1 DEF Seen, Works, Live, Asked, ShownAlive, ShownStray, ShownAsked
  <2>3. \/ ShownStatus' = ShownStatus
        \/ ShownStatus = "running" /\ ShownStatus' = "recovered"
    BY <2>1 DEF Seen, ActiveRuns, Active
  <2> QED BY <2>1, <2>2, <2>3 DEF ServiceMoves, Service!ServiceNext, Service!ComeUp
<1>6. ASSUME NEW j \in Job, Retry(j) PROVE ServiceMoves
  BY <1>6, KeptShown DEF Retry, ServiceMoves, Service!serviceVars, Asked, Works, Live, Up
<1>7. CASE StopEnds
  <2>1. /\ Up /\ UNCHANGED <<Up, ctl, run, worker>> /\ ctl.op \in {"none", "start"}
        /\ orphan' = orphan \cup {s \in Run : Live(s)}
    BY <1>0, <1>7 DEF StopEnds, Lost, Up, ControlInv
  <2>2. ~ ShownAsked /\ UNCHANGED <<ShownStatus, ShownAlive, ShownAsked>>
    BY <2>1 DEF Seen, Works, Live, Asked, ShownAlive, ShownAsked
  <2>3. CASE r \in orphan' <=> r \in orphan
    BY <2>1, <2>3, KeptShown DEF ServiceMoves, Service!serviceVars, Asked, Works, Live
  <2>4. CASE ~ (r \in orphan' <=> r \in orphan)
    <3>1. ShownStray'
      BY <2>1, <2>4 DEF Seen
    <3>2. ShownStray' = TRUE /\ ShownAsked = FALSE
      BY <2>2, <3>1 DEF ShownStray, ShownAsked
    <3> QED BY <2>1, <2>2, <3>2 DEF ServiceMoves, Service!ServiceNext, Service!Lose
  <2> QED BY <2>3, <2>4
<1> QED BY <1>1, <1>2, <1>3, <1>4, <1>5, <1>6, <1>7 DEF Surrounded

(* A start puts a new run in the place of the newest.                      *)
LEMMA StartShown ==
  ASSUME Known, NEW q \in Run, StartCreate(q)
  PROVE  ServiceMoves
<1>0. /\ TypeOK /\ TypeOK' /\ DownIsIdle /\ LiveIsHeld /\ StartKnows /\ InOrder
      /\ AbsentIsIdle /\ ControlInv
      /\ run \in [Run -> RunRow] /\ worker \in [Run -> WorkerRow] /\ ctl \in Control
  <2>1. Next
    BY DEF Next, ServiceStep
  <2> QED BY <2>1, TypeStep DEF Known, TypeOK, ServiceInv, ShownInv
<1>1. /\ UNCHANGED <<life, handle, worker, orphan>>
      /\ \A s \in Run : run'[s].status = IF s = q THEN "running" ELSE run[s].status
      /\ ctl'.pc = "spawn" /\ ctl'.run = q /\ ctl'.op = "start"
      /\ ctl.pc = "create" /\ ctl.op = "start" /\ Up
      /\ run[q].status = "absent"
      /\ \A s \in Run : s < q => run[s].status # "absent"
      /\ \A s \in Run : q =< s => run[s].status = "absent"
  BY <1>0 DEF StartCreate, RunRow, Control, ControlInv, DownIsIdle, Idle, InOrder, Run
<1>2. Newest(q)'
  BY <1>1 DEF Newest, Run
<1>3. Seen(q)'
  <2>1. SeesNewest'
    BY NewestIsSeen, PTL
  <2> QED BY <1>0, <1>2, <2>1 DEF SeesNewest
<1>4. /\ ShownStatus' = "running" /\ ShownAlive' /\ ~ ShownStray' /\ ~ ShownAsked'
  BY <1>0, <1>1, <1>3 DEF Seen, Works, Asked, AbsentIsIdle, Active
<1>5. ShownAlive' = TRUE /\ ShownStray' = FALSE /\ ShownAsked' = FALSE
  BY <1>4 DEF ShownAlive, ShownStray, ShownAsked
<1>6. ~ ShownAsked
  BY <1>1 DEF ShownAsked, Asked
<1>7. ShownAsked = FALSE
  BY <1>6 DEF ShownAsked
<1>8. ShownStatus # "running" \/ ShownStray
  <2>1. CASE \E p \in Run : Newest(p)
    <3>1. PICK p \in Run : Newest(p)
      BY <2>1
    <3>2. ShownStatus = (IF run[p].status \in Active THEN "running" ELSE run[p].status)
          /\ (ShownStray <=> p \in orphan)
      BY <1>0, <3>1, NewestShown
    <3>3. run[p].status \in Active => p \in orphan
      BY <1>0, <1>1, <3>1 DEF StartKnows, Busy
    <3> QED BY <3>2, <3>3 DEF Active
  <2>2. CASE ~ \E p \in Run : Newest(p)
    BY <2>2, NoneShown
  <2> QED BY <2>1, <2>2
<1> QED
  BY <1>1, <1>4, <1>5, <1>7, <1>8
     DEF ServiceMoves, Service!ServiceNext, Service!StartRun, Up

(* Before the first run there is nothing but the process of the service.   *)
LEMMA NothingShown ==
  ASSUME Known, [Next]_vars, \A s \in Run : ~ StartCreate(s), \A r \in Run : ~ Newest(r)
  PROVE  ServiceMoves
<1>0. /\ TypeOK /\ ServiceInv /\ ShownInv /\ InOrder /\ AbsentIsIdle
  BY DEF Known, ServiceInv, ShownInv
<1>1. \A s \in Run : run'[s].status = "absent" <=> run[s].status = "absent"
  BY <1>0, RowsStay
<1>2. \A r \in Run : ~ Newest(r)'
  BY <1>1 DEF Newest
<1>3. /\ ShownStatus = "idle" /\ ~ ShownAlive /\ ~ ShownStray /\ ~ ShownAsked
      /\ ShownStatus' = "idle" /\ ~ ShownAlive' /\ ~ ShownStray' /\ ~ ShownAsked'
  <2>1. SeesNone'
    BY NoneIsSeen, PTL
  <2> QED BY <1>2, <2>1, NoneIsSeen DEF SeesNone
<1>4. /\ ShownAlive' = FALSE /\ ShownAsked' = FALSE
      /\ UNCHANGED <<ShownStatus, ShownAlive, ShownStray, ShownAsked>>
  BY <1>3 DEF ShownAlive, ShownStray, ShownAsked
<1>5. UNCHANGED Up \/ (Up /\ Up' = FALSE) \/ (~Up /\ Up' = TRUE)
  <2>1. ASSUME NEW r \in Run, WorkerStep(r)
        PROVE  UNCHANGED Up
    BY <1>0, <2>1, WorkerFrame DEF Up
  <2> QED
    BY <2>1 DEF Next, ServiceStep, StartRead, StartCreate, StartSpawn, SpawnFails,
       StartStamp, SignalRead, SignalWrite, CancelRead, CancelProbe, CancelWrite, Kill,
       Expire, Stop, StopEnds, Crash, Startup, Retry, Up, vars
<1>6. CASE UNCHANGED Up
  BY <1>4, <1>6 DEF ServiceMoves, Service!serviceVars
<1>7. CASE Up /\ Up' = FALSE
  BY <1>3, <1>4, <1>7 DEF ServiceMoves, Service!ServiceNext, Service!GoDown
<1>8. CASE ~Up /\ Up' = TRUE
  BY <1>4, <1>8 DEF ServiceMoves, Service!ServiceNext, Service!ComeUp
<1> QED BY <1>5, <1>6, <1>7, <1>8

(* Every step of the model is one of the contract, or none.                *)
LEMMA StepShown == Known /\ [Next]_vars => ServiceMoves
<1> SUFFICES ASSUME Known, [Next]_vars PROVE ServiceMoves
  OBVIOUS
<1>0. TypeOK /\ TypeOK' /\ ServiceInv /\ ShownInv
  BY TypeStep DEF Known
<1>1. CASE \E q \in Run : StartCreate(q)
  BY <1>1, StartShown
<1>2. CASE \A r \in Run : ~ Newest(r) /\ ~ StartCreate(r)
  BY <1>2, NothingShown
<1>3. ASSUME NEW r \in Run, Newest(r), \A s \in Run : ~ StartCreate(s)
      PROVE  ServiceMoves
  <2>1. Newest(r)'
    <3>1. \A s \in Run : run'[s].status = "absent" <=> run[s].status = "absent"
      BY <1>0, <1>3, RowsStay
    <3> QED BY <1>3, <3>1 DEF Newest
  <2>2. Seen(r)
    BY <1>0, <1>3, NewestShown DEF Seen
  <2>3. Seen(r)'
    <3>1. SeesNewest'
      BY NewestIsSeen, PTL
    <3> QED BY <1>0, <2>1, <3>1 DEF SeesNewest
  <2>4. CASE ServiceStep
    BY <1>3, <2>1, <2>2, <2>3, <2>4, ControlShown
  <2>5. ASSUME NEW q \in Run, WorkerStep(q) PROVE ServiceMoves
    BY <2>2, <2>3, <2>5, WorkerShown
  <2>6. CASE Surrounded
    BY <2>2, <2>3, <2>6, SurroundingsShown
  <2>7. CASE UNCHANGED vars
    BY <2>2, <2>3, <2>7, KeptShown
       DEF vars, Up, ServiceMoves, Service!serviceVars, Works, Live, Asked
  <2> QED BY <2>4, <2>5, <2>6, <2>7 DEF Next, Surrounded
<1> QED BY <1>1, <1>2, <1>3

(* The service starts with no run.                                         *)
LEMMA ShownInit == Init => Service!ServiceInit
<1> SUFFICES ASSUME Init PROVE Service!ServiceInit
  OBVIOUS
<1>1. \A r \in Run : ~ Newest(r)
  BY DEF Init, Newest, NoRun
<1>2. ShownStatus = "idle" /\ ~ ShownAlive /\ ~ ShownStray /\ ~ ShownAsked
  BY <1>1, NoneShown
<1>3. ShownAlive = FALSE /\ ShownStray = FALSE /\ ShownAsked = FALSE
  BY <1>2 DEF ShownAlive, ShownStray, ShownAsked
<1> QED BY <1>2, <1>3 DEF Init, Up, Service!ServiceInit

(* The service, its workers, recovery and restarts together keep the       *)
(* contract of PipelineService, for every number of jobs and runs.         *)
THEOREM ServiceRefinement == Spec => ImplementsService
<1>1. Init => Known
  BY TypeInit, ServiceInvInit, JobInvInit, ShownInvInit DEF Known
<1>2. Known /\ [Next]_vars => Known'
  BY TypeStep, ServiceInvStep, JobInvStep, ShownInvStep DEF Known
<1>3. Known /\ [Next]_vars => [Service!ServiceNext]_(Service!serviceVars)
  BY StepShown DEF ServiceMoves
<1> QED
  BY <1>1, <1>2, <1>3, ShownInit, PTL DEF Spec, ImplementsService, Service!ServiceSpec
=============================================================================
