------------------------ MODULE InterventionsProofs ------------------------
(***************************************************************************)
(* Theorems about Interventions, for every finite set of jobs and of       *)
(* questions, any number of retry requests and whoever acts.               *)
(***************************************************************************)
EXTENDS Interventions, FiniteSetTheorems, TLAPS

(***************************************************************************)
(* The values of the variables.                                            *)
(***************************************************************************)

WorkerType ==
  [pc : {"off", "open", "work", "ask", "write", "count", "settle", "next", "dead"},
   mode : {"fixture", "live"}, held : [Job -> SUBSET Field], todo : SUBSET Job,
   job : Job \cup {None}, trusted : BOOLEAN, need : SUBSET (Field \cup {"stop"}),
   first : Field \cup {"stop", None}, seen : AskStatus, missing : SUBSET Field, out : Outcome]

(* The worker is a record, and a new attempt has asked nothing yet.        *)
TypeInv ==
  /\ TypeOK
  /\ worker \in WorkerType
  /\ worker.pc \in {"open", "work"} => worker.need = {} /\ worker.missing = {}

(***************************************************************************)
(* The job repository and the intervention store.                          *)
(***************************************************************************)

(* An upsert keeps a status or gives it, along an edge of the lifecycle if *)
(* there is a row, and a job never loses its row.                          *)
LEMMA UpsertRow ==
  ASSUME NEW r \in JobRow, NEW status \in Status, NEW answers \in SUBSET Field
  PROVE  /\ Upsert(r, status, answers) \in JobRow
         /\ Upsert(r, status, answers).status \in {r.status, status}
         /\ Upsert(r, status, answers).status # "absent"
         /\ \/ r.status = "absent"
            \/ Upsert(r, status, answers).status = r.status
            \/ Upsert(r, status, answers).status \in Allowed(r.status)
<1>1. "absent" \notin Status
  BY DEF Status
<1> QED BY <1>1 DEF Upsert, JobRow, Upserted

(* A new or a known question keeps its type, and what is there stays.      *)
LEMMA CreatedRow ==
  ASSUME NEW r \in AskRow, NEW seen \in AskStatus, NEW s \in Suggestion
  PROVE  /\ Created(r, seen, s) \in AskRow
         /\ seen = "absent" => Created(r, seen, s).status = "pending"
         /\ seen # "absent" => Created(r, seen, s).status = r.status
         /\ seen \notin {"absent", "pending"} => Created(r, seen, s) = r
BY DEF Created, AskRow, AskStatus, Suggestion

LEMMA AskRowSet ==
  ASSUME NEW r \in AskRow, NEW st, NEW a
  PROVE  [[r EXCEPT !.status = st] EXCEPT !.answer = a] = [status |-> st, answer |-> a]
<1>1. r = [status |-> r.status, answer |-> r.answer]
  BY DEF AskRow
<1>2. [r EXCEPT !.status = st] = [status |-> st, answer |-> r.answer]
  BY <1>1
<1>3. [[status |-> st, answer |-> r.answer] EXCEPT !.answer = a] = [status |-> st, answer |-> a]
  OBVIOUS
<1> QED BY <1>2, <1>3

LEMMA NoWorkerType ==
  /\ NoWorker \in WorkerType /\ NoWorker.need = {} /\ NoWorker.missing = {}
  /\ NoWorker.pc = "off" /\ NoWorker.job = None /\ NoWorker.first = None
BY DEF NoWorker, WorkerType, AskStatus, Outcome

(* An attempt that is over has asked all it had to.                        *)
LEMMA DoneType ==
  ASSUME worker \in WorkerType
  PROVE  /\ Done \in WorkerType
         /\ Done.pc = "next" /\ Done.need = {} /\ Done.missing = {} /\ Done.first = None
         /\ Done.job = worker.job /\ Done.mode = worker.mode /\ Done.todo = worker.todo
<1> DEFINE h == [j \in Job |-> IF j \in worker.todo THEN worker.held[j] ELSE {}]
<1>1. h \in [Job -> SUBSET Field]
  BY DEF WorkerType
<1>2. Done = [NoWorker EXCEPT !.pc = "next", !.job = worker.job, !.mode = worker.mode,
                              !.todo = worker.todo, !.held = h]
  BY DEF Done
<1> HIDE DEF h
<1> QED BY <1>1, <1>2, NoWorkerType DEF WorkerType

(***************************************************************************)
(* Type correctness.                                                       *)
(***************************************************************************)

LEMMA TypeInit == Init => TypeInv
<1> SUFFICES ASSUME Init PROVE TypeInv
  OBVIOUS
<1>1. worker \in WorkerType /\ worker = NoWorker
  BY NoWorkerType DEF Init
<1>2. job \in [Job -> JobRow] /\ asked \in [Job -> [Question -> AskRow]]
  BY DEF Init, JobRow, NoJob, AskRow, AskStatus, NotAsked, Suggestion
<1>3. retry \in [Client -> Job \cup {None}] /\ cli = NoCli
  BY DEF Init
<1>4. imp \in [pc : {"none", "rows", "success", "partial", "failed"}, total : 0 .. Lines,
               imported : Nat, skipped : Nat, put : SUBSET Job]
  BY InterventionsAssumption DEF Init, NoImport
<1> QED BY <1>1, <1>2, <1>3, <1>4, NoWorkerType DEF TypeInv, TypeOK, WorkerType

(* What TypeInv says of the worker.                                        *)
WorkerOK(w) ==
  /\ w \in WorkerType
  /\ w.job \in IF w.pc \in {"off", "open"} THEN {None} ELSE Job
  /\ w.first \in w.need \cup {None}
  /\ w.pc \in {"open", "work"} => w.need = {} /\ w.missing = {}

ImportType ==
  [pc : {"none", "rows", "success", "partial", "failed"}, total : 0 .. Lines,
   imported : Nat, skipped : Nat, put : SUBSET Job]

CliType == {NoCli} \cup [job : Job, seen : AskStatus]

LEMMA TypeParts ==
  TypeInv <=>
    /\ job \in [Job -> JobRow] /\ asked \in [Job -> [Question -> AskRow]]
    /\ WorkerOK(worker) /\ retry \in [Client -> Job \cup {None}]
    /\ cli \in CliType /\ imp \in ImportType
BY DEF TypeInv, TypeOK, WorkerOK, WorkerType, CliType, ImportType

(* A step of the worker on its own.                                        *)
LEMMA WorkerTyped ==
  ASSUME TypeInv, [Next]_vars PROVE WorkerOK(worker')
<1>1. /\ worker \in WorkerType /\ WorkerOK(worker) /\ job \in [Job -> JobRow]
      /\ asked \in [Job -> [Question -> AskRow]]
  BY TypeParts DEF WorkerOK
<1>2. None \notin Job /\ None \notin Field \cup {"stop"} /\ Field \cap {"stop"} = {}
  BY InterventionsAssumption
<1>3. CASE worker' = worker
  BY <1>1, <1>3
<1>4. ASSUME NEW q \in Question, AskRead(q) PROVE WorkerOK(worker')
  <2>1. q \in Field \cup {"stop"} /\ worker.job \in Job
    BY <1>1, <1>4 DEF AskRead, WorkerOK, WorkerType
  <2>2. asked[worker.job][q].status \in AskStatus
    BY <1>1, <2>1 DEF Question, AskRow
  <2> QED BY <1>1, <1>4, <2>1, <2>2 DEF AskRead, WorkerOK, WorkerType
<1>5. CASE AskWrite
  <2>1. worker' = Done \/ \E pc \in {"settle", "count"} :
          worker' = [worker EXCEPT !.pc = pc, !.need = {}, !.first = None, !.seen = "absent"]
    BY <1>5 DEF AskWrite
  <2>2. "absent" \in AskStatus /\ worker.job \in Job
    BY <1>1, <1>5 DEF AskWrite, WorkerOK, AskStatus
  <2>3. CASE worker' = Done
    BY <1>1, <2>2, <2>3, DoneType DEF WorkerOK
  <2>4. ASSUME NEW pc \in {"settle", "count"},
               worker' = [worker EXCEPT !.pc = pc, !.need = {}, !.first = None, !.seen = "absent"]
        PROVE  WorkerOK(worker')
    BY <1>1, <2>2, <2>4 DEF WorkerOK, WorkerType
  <2> QED BY <2>1, <2>3, <2>4
<1>6. CASE Load
  <2>1. PICK mode \in {"fixture"} \cup ({"live"} \cap Actors),
             S \in SUBSET {j \in Job : job[j].status \in {"ready_to_apply", "queued"}} \ {{}} :
          worker' = [NoWorker EXCEPT !.pc = "open", !.mode = mode, !.todo = S,
                       !.held = [j \in Job |-> IF j \in S THEN job[j].answers ELSE {}]]
    BY <1>6 DEF Load
  <2> DEFINE h == [j \in Job |-> IF j \in S THEN job[j].answers ELSE {}]
  <2>2. h \in [Job -> SUBSET Field]
    BY <1>1 DEF JobRow
  <2>3. worker' = [NoWorker EXCEPT !.pc = "open", !.mode = mode, !.todo = S, !.held = h]
    BY <2>1
  <2> HIDE DEF h
  <2>4. S \in SUBSET Job /\ mode \in {"fixture", "live"}
    OBVIOUS
  <2> QED BY <2>2, <2>3, <2>4, NoWorkerType DEF WorkerOK, WorkerType
<1>7. ASSUME NEW j \in Job, Open(j) PROVE WorkerOK(worker')
  <2>1. /\ worker' = [worker EXCEPT !.pc = "work", !.job = j, !.todo = @ \ {j}]
        /\ worker.need = {} /\ worker.missing = {} /\ worker.first = None
    BY <1>1, <1>7 DEF Open, WorkerOK
  <2> QED BY <1>1, <2>1 DEF WorkerOK, WorkerType
<1>8. CASE StopAsk \/ Blocked \/ StopQuietly \/ Fill \/ FillTrusted \/ LiveRun
  <2>1. worker.job \in Job /\ worker.need = {} /\ worker.missing = {} /\ worker.first = None
    BY <1>1, <1>8
    DEF StopAsk, Blocked, StopQuietly, Fill, FillTrusted, LiveRun, WorkerOK
  <2>2. CASE StopAsk \/ Blocked
    <3>1. worker' = [worker EXCEPT !.pc = "ask", !.need = {"stop"}, !.out = "needs_user_input"]
      BY <2>2 DEF StopAsk, Blocked, Stopped
    <3> QED BY <1>1, <2>1, <3>1 DEF WorkerOK, WorkerType, Outcome
  <2>3. CASE StopQuietly
    BY <1>1, <2>1, <2>3 DEF StopQuietly, WorkerOK, WorkerType, Outcome
  <2>4. CASE Fill
    <3>1. PICK pc \in {"count", "ask"} :
            worker' = [worker EXCEPT !.pc = pc, !.need = Unfilled, !.missing = Unfilled]
      BY <2>4 DEF Fill
    <3>2. Unfilled \in SUBSET Field
      BY DEF Unfilled
    <3> QED BY <1>1, <2>1, <3>1, <3>2 DEF WorkerOK, WorkerType
  <2>5. CASE FillTrusted
    BY <1>1, <2>1, <2>5 DEF FillTrusted, WorkerOK, WorkerType
  <2>6. CASE LiveRun
    <3>1. PICK out \in Outcome, reason \in SUBSET {"stop"} :
            worker' = [worker EXCEPT !.pc = "settle", !.out = out, !.need = reason]
      BY <2>6 DEF LiveRun, Outcome
    <3> QED BY <1>1, <2>1, <3>1 DEF WorkerOK, WorkerType
  <2> QED BY <1>8, <2>2, <2>3, <2>4, <2>5, <2>6
<1>9. CASE Count \/ Settle \/ Raise
  <2>1. worker.job \in Job
    BY <1>1, <1>9 DEF Count, Settle, Raise, WorkerOK
  <2>2. CASE Count
    <3>1. Counted(worker.job) \in Outcome
      BY DEF Counted, Outcome
    <3> QED BY <1>1, <2>1, <2>2, <3>1 DEF Count, WorkerOK, WorkerType
  <2>3. CASE Settle \/ Raise
    <3>1. worker' = Done \/ worker' = [worker EXCEPT !.pc = "ask"]
      BY <2>3 DEF Settle, Raise
    <3>2. CASE worker' = Done
      BY <1>1, <2>1, <3>2, DoneType DEF WorkerOK
    <3>3. CASE worker' = [worker EXCEPT !.pc = "ask"]
      BY <1>1, <2>1, <3>3 DEF WorkerOK, WorkerType
    <3> QED BY <3>1, <3>2, <3>3
  <2> QED BY <1>9, <2>2, <2>3
<1>10. CASE NextJob \/ Kill \/ Recover
  <2>1. CASE worker' = NoWorker
    BY <2>1, NoWorkerType DEF WorkerOK
  <2>2. CASE worker' = [NoWorker EXCEPT !.pc = "open", !.mode = worker.mode,
                          !.todo = worker.todo, !.held = worker.held]
    BY <1>1, <2>2, NoWorkerType DEF WorkerOK, WorkerType
  <2>3. CASE worker' = [NoWorker EXCEPT !.pc = "dead", !.job = worker.job] /\ worker.job \in Job
    BY <1>1, <2>3, NoWorkerType DEF WorkerOK, WorkerType
  <2> QED BY <1>1, <1>10, <2>1, <2>2, <2>3 DEF NextJob, Kill, Recover, WorkerOK
<1> QED
  BY <1>3, <1>4, <1>5, <1>6, <1>7, <1>8, <1>9, <1>10
  DEF Next, WorkerStep, UserStep, ImportStep, Resolve, RetryRead, RetryWrite, CliRead, CliWrite,
      ImportBegin, ImportRow, SkipRow, ImportEnd, ImportFails, vars

(***************************************************************************)
(* What a step does to the rows.                                           *)
(***************************************************************************)

ReviewWritten(j) ==
  /\ Settle /\ j = worker.job /\ worker.out = "review_ready"
  /\ job'[j].status = "review_ready"

(* A job keeps its status, gets one with its row, moves along an edge, or  *)
(* is queued by a retry.                                                   *)
Moves(j) ==
  \/ job[j].status = "absent" \/ job'[j].status = job[j].status
  \/ job'[j].status \in Allowed(job[j].status)
  \/ job'[j].status = "queued" /\ \E c \in Client : retry[c] = j /\ retry'[c] = None

(* Of the worker's steps only the last makes a job ready for review.       *)
Readies(j) ==
  worker' # worker /\ job[j].status # "review_ready" /\ job'[j].status = "review_ready"
  => ReviewWritten(j)

Affects ==
  /\ job' \in [Job -> JobRow]
  /\ \A j \in Job : /\ job[j].status # "absent" => job'[j].status # "absent"
                    /\ Moves(j) /\ Readies(j)

(* What a step does to the jobs, whoever takes it.                         *)
LEMMA JobEffect ==
  ASSUME TypeInv, [Next]_vars PROVE Affects
<1>1. job \in [Job -> JobRow] /\ worker \in WorkerType /\ WorkerOK(worker)
      /\ retry \in [Client -> Job \cup {None}]
  BY TypeParts DEF WorkerOK
<1>2. /\ {"in_progress", "failed", "queued", "needs_review"} \subseteq Status \ {"review_ready"}
      /\ "absent" \notin Status /\ Outcome \subseteq Status /\ FileStatus \subseteq Status
  BY InterventionsAssumption DEF Status, Outcome
<1>3. CASE job' = job
  BY <1>1, <1>3 DEF Affects, Moves, Readies
<1>4. ASSUME NEW i \in Job, NEW st \in Status, NEW a \in SUBSET Field,
             job' = [job EXCEPT ![i] = Upsert(@, st, a)],
             \/ st # "review_ready" \/ worker' = worker
             \/ Settle /\ i = worker.job /\ worker.out = "review_ready"
      PROVE  Affects
  <2> DEFINE r == Upsert(job[i], st, a)
  <2>1. /\ r \in JobRow /\ r.status \in {job[i].status, st} /\ r.status # "absent"
        /\ job[i].status = "absent" \/ r.status = job[i].status \/ r.status \in Allowed(job[i].status)
    BY <1>1, UpsertRow
  <2>2. job' = [job EXCEPT ![i] = r]
    BY <1>4
  <2> HIDE DEF r
  <2>3. job' \in [Job -> JobRow] /\ job'[i] = r /\ \A j \in Job : j # i => job'[j] = job[j]
    BY <1>1, <2>1, <2>2
  <2>4. Moves(i)
    BY <2>1, <2>3 DEF Moves
  <2>5. Readies(i)
    BY <1>4, <2>1, <2>3 DEF Readies, ReviewWritten
  <2>6. \A j \in Job : j # i => Moves(j) /\ Readies(j)
    BY <2>3 DEF Moves, Readies
  <2> QED BY <2>1, <2>3, <2>4, <2>5, <2>6 DEF Affects
<1>5. CASE \/ WriteJob("failed") /\ worker.job \in Job
           \/ Settle
  <2>1. worker.job \in Job /\ worker.held[worker.job] \in SUBSET Field /\ worker.out \in Outcome
    BY <1>1, <1>5 DEF Settle, WorkerOK, WorkerType
  <2>2. "failed" # "review_ready" /\ "failed" \in Status /\ worker.out \in Status
    BY <1>2, <2>1
  <2> QED BY <1>4, <1>5, <2>1, <2>2 DEF WriteJob, Settle
<1>6. ASSUME NEW j \in Job, Open(j) PROVE Affects
  <2>1. worker.held[j] \in SUBSET Field /\ "in_progress" \in Status
    BY <1>1, <1>2 DEF WorkerType
  <2> QED BY <1>4, <1>6, <2>1 DEF Open
<1>7. ASSUME NEW i \in Job, NEW st \in Status, job' = [job EXCEPT ![i].status = st],
             st # "review_ready",
             \/ st \in Allowed(job[i].status)
             \/ st = "queued" /\ \E c \in Client : retry[c] = i /\ retry'[c] = None
      PROVE  Affects
  <2> DEFINE r == [job[i] EXCEPT !.status = st]
  <2>1. r \in JobRow /\ r.status = st /\ st # "absent"
    BY <1>1, <1>2 DEF JobRow
  <2>2. job' = [job EXCEPT ![i] = r]
    BY <1>7
  <2> HIDE DEF r
  <2>3. job' \in [Job -> JobRow] /\ job'[i] = r /\ \A j \in Job : j # i => job'[j] = job[j]
    BY <1>1, <2>1, <2>2
  <2>4. Moves(i) /\ Readies(i)
    BY <1>7, <2>1, <2>3 DEF Moves, Readies
  <2>5. \A j \in Job : j # i => Moves(j) /\ Readies(j)
    BY <2>3 DEF Moves, Readies
  <2> QED BY <2>1, <2>3, <2>4, <2>5 DEF Affects
<1>8. ASSUME NEW i \in Job, NEW q \in Field, job' = [job EXCEPT ![i].answers = @ \cup {q}]
      PROVE  Affects
  <2> DEFINE r == [job[i] EXCEPT !.answers = @ \cup {q}]
  <2>1. r \in JobRow /\ r.status = job[i].status
    BY <1>1 DEF JobRow
  <2>2. job' = [job EXCEPT ![i] = r]
    BY <1>8
  <2> HIDE DEF r
  <2>3. job' \in [Job -> JobRow] /\ \A j \in Job : job'[j].status = job[j].status
    BY <1>1, <2>1, <2>2
  <2> QED BY <2>3 DEF Affects, Moves, Readies
<1>9. CASE WorkerStep \/ Kill \/ Recover
  <2>1. Raise => WriteJob("failed") /\ worker.job \in Job
    BY <1>1 DEF Raise, WorkerOK
  <2>2. ASSUME Recover
        PROVE  \/ job' = job
               \/ /\ worker.job \in Job /\ job[worker.job].status = "in_progress"
                  /\ job' = [job EXCEPT ![worker.job].status = "needs_review"]
    <3>1. worker.job \in Job
      BY <1>1, <2>2 DEF Recover, WorkerOK
    <3> QED BY <2>2, <3>1 DEF Recover
  <2>3. "needs_review" \in Allowed("in_progress")
    BY DEF Allowed
  <2>4. CASE \/ Load \/ StopAsk \/ Blocked \/ StopQuietly \/ Fill \/ FillTrusted \/ AskWrite \/ Count
             \/ LiveRun \/ NextJob \/ Kill \/ (\E q \in Question : AskRead(q))
    BY <1>3, <2>4 DEF Load, StopAsk, Blocked, StopQuietly, Fill, FillTrusted, AskWrite, Count,
                      LiveRun, NextJob, AskRead, Kill
  <2>5. CASE Settle \/ Raise
    BY <1>5, <2>1, <2>5
  <2>6. CASE \E j \in Job : Open(j)
    BY <1>6, <2>6
  <2>7. CASE Recover
    BY <1>2, <1>3, <1>7, <2>2, <2>3, <2>7
  <2> QED BY <1>9, <2>4, <2>5, <2>6, <2>7 DEF WorkerStep
<1>10. CASE UserStep
  <2>1. ASSUME NEW j \in Job, NEW q \in Question, NEW resolution \in Resolution, NEW save \in BOOLEAN,
               Resolve(j, q, resolution, save)
        PROVE  Affects
    <3>1. job' = job \/ (q \in Field /\ job' = [job EXCEPT ![j].answers = @ \cup {q}])
      BY <2>1 DEF Resolve
    <3> QED BY <1>3, <1>8, <3>1
  <2>2. ASSUME NEW c \in Client, RetryWrite(c) PROVE Affects
    <3>1. /\ retry[c] \in Job /\ retry'[c] = None
          /\ job' = [job EXCEPT ![retry[c]].status = "queued"]
      BY <1>1, <2>2 DEF RetryWrite
    <3> QED BY <1>2, <1>7, <3>1
  <2>3. CASE \/ \E c \in Client, j \in Job : RetryRead(c, j)
             \/ CliWrite \/ \E j \in Job : CliRead(j)
    BY <1>3, <2>3 DEF RetryRead, CliWrite, CliRead
  <2> QED BY <1>10, <2>1, <2>2, <2>3 DEF UserStep
<1>11. CASE ImportStep
  <2>1. CASE ImportBegin \/ ImportEnd \/ ImportFails \/ SkipRow
    BY <1>3, <2>1 DEF ImportBegin, ImportEnd, ImportFails, SkipRow
  <2>2. ASSUME NEW j \in Job, ImportRow(j) PROVE Affects
    <3>1. PICK status \in FileStatus : job' = [job EXCEPT ![j] = Upsert(@, status, {})]
      BY <2>2 DEF ImportRow
    <3>2. worker' = worker /\ status \in Status /\ {} \in SUBSET Field
      BY <1>2, <2>2 DEF ImportRow
    <3> QED BY <1>4, <3>1, <3>2
  <2> QED BY <1>11, <2>1, <2>2 DEF ImportStep
<1>12. CASE UNCHANGED vars
  BY <1>3, <1>12 DEF vars
<1> QED BY <1>9, <1>10, <1>11, <1>12 DEF Next

(* What a transaction read without a lock still tells whether its row was  *)
(* there: nobody else creates that row, and no row is ever deleted.        *)
SeenInv ==
  /\ worker.pc = "write" =>
       /\ worker.first \in worker.need
       /\ worker.seen = "absent" <=> asked[worker.job][worker.first].status = "absent"
  /\ cli # NoCli => (cli.seen = "absent" <=> asked[cli.job]["live"].status = "absent")

Creates(j, q) ==
  \/ AskWrite /\ j = worker.job /\ q \in worker.need
  \/ Recover /\ q = "recovery"
  \/ CliWrite /\ q = "live"

(* Who may change what the user has decided.                               *)
Redecides(j, q) ==
  \/ \E resolution \in Resolution, save \in BOOLEAN : Resolve(j, q, resolution, save)
  \/ /\ worker.pc = "write" /\ <<worker.job, worker.first>> = <<j, q>>
     /\ worker.seen = "pending" /\ asked'[j][q].status = asked[j][q].status
  \/ cli.job = j /\ q = "live" /\ cli.seen = "pending"

AskEffect(j, q) ==
  LET old == asked[j][q].status
      new == asked'[j][q].status
  IN  /\ \/ new = old
         \/ old # "absent" /\ new \in Resolution
         \/ old = "absent" /\ new = "pending" /\ Creates(j, q)
      /\ old \in Resolution /\ asked'[j][q] # asked[j][q] => Redecides(j, q)

(* A question is asked once, and from then on only decided.                *)
LEMMA AskedEffect ==
  ASSUME TypeInv, SeenInv, [Next]_vars
  PROVE  /\ asked' \in [Job -> [Question -> AskRow]]
         /\ \A j \in Job, q \in Question : AskEffect(j, q)
         /\ AskWrite => \A q \in worker.need : asked'[worker.job][q].status # "absent"
<1>1. /\ asked \in [Job -> [Question -> AskRow]] /\ worker \in WorkerType /\ WorkerOK(worker)
      /\ cli \in CliType /\ Field \cup {"stop", "recovery", "live"} = Question
      /\ \A w \in AskRow : w.status \in {"absent", "pending"} \cup Resolution
  BY TypeParts DEF WorkerOK, Question, AskRow, AskStatus
<1>2. /\ None \notin Job /\ None \notin Question
      /\ AskStatus = {"absent", "pending"} \cup Resolution
      /\ "absent" \notin Resolution /\ "pending" \notin Resolution
  BY InterventionsAssumption DEF Question, AskStatus, Resolution
<1>3. ASSUME asked' = asked
      PROVE  /\ asked' \in [Job -> [Question -> AskRow]]
             /\ \A i \in Job, p \in Question : AskEffect(i, p)
  BY <1>1, <1>3 DEF AskEffect
<1>4. ASSUME NEW j \in Job, NEW q \in Question, NEW row \in AskRow,
             asked' = [asked EXCEPT ![j][q] = row],
             \/ row.status = asked[j][q].status
             \/ asked[j][q].status # "absent" /\ row.status \in Resolution
             \/ asked[j][q].status = "absent" /\ row.status = "pending" /\ Creates(j, q),
             asked[j][q].status \in Resolution /\ row # asked[j][q] /\ asked'[j][q] = row =>
               Redecides(j, q)
      PROVE  /\ asked' \in [Job -> [Question -> AskRow]]
             /\ \A i \in Job, p \in Question : AskEffect(i, p)
  <2>1. asked' \in [Job -> [Question -> AskRow]]
    BY <1>1, <1>4
  <2>2. \A i \in Job, p \in Question : asked'[i][p] = IF i = j /\ p = q THEN row ELSE asked[i][p]
    BY <1>1, <1>4
  <2>3. ASSUME NEW i \in Job, NEW p \in Question PROVE AskEffect(i, p)
    <3>1. CASE i = j /\ p = q
      BY <1>4, <2>2, <3>1 DEF AskEffect
    <3>2. CASE ~ (i = j /\ p = q)
      BY <2>2, <3>2 DEF AskEffect
    <3> QED BY <3>1, <3>2
  <2> QED BY <2>1, <2>3
<1>5. CASE AskWrite
  <2>1. PICK s \in [Question -> Suggestion] :
          asked' = [asked EXCEPT ![worker.job] =
                      CreatedAll(worker.job, worker.need, worker.first, worker.seen, s)]
    BY <1>5 DEF AskWrite
  <2>2. worker.pc = "write" /\ worker.job \in Job /\ worker.need \subseteq Question /\ worker.seen \in AskStatus
    BY <1>1, <1>5 DEF AskWrite, WorkerOK, WorkerType
  <2> DEFINE seen(q) == IF q = worker.first THEN worker.seen ELSE asked[worker.job][q].status
             new(q) == Created(asked[worker.job][q], seen(q), s[q])
             all == CreatedAll(worker.job, worker.need, worker.first, worker.seen, s)
  <2>3. ASSUME NEW q \in Question
        PROVE  /\ seen(q) \in AskStatus /\ new(q) \in AskRow
               /\ seen(q) = "absent" <=> asked[worker.job][q].status = "absent"
               /\ asked[worker.job][q].status = "absent" => new(q).status = "pending"
               /\ asked[worker.job][q].status # "absent" => new(q).status = asked[worker.job][q].status
               /\ asked[worker.job][q].status \in Resolution /\ new(q) # asked[worker.job][q] =>
                    q = worker.first /\ worker.seen = "pending"
    <3>1. asked[worker.job][q] \in AskRow /\ s[q] \in Suggestion
      BY <1>1, <2>2
    <3>2. /\ seen(q) \in AskStatus /\ (seen(q) = "absent" <=> asked[worker.job][q].status = "absent")
          /\ seen(q) = asked[worker.job][q].status \/ (q = worker.first /\ seen(q) = worker.seen)
      BY <2>2, <3>1 DEF SeenInv, AskRow
    <3> HIDE DEF seen
    <3>3. /\ Created(asked[worker.job][q], seen(q), s[q]) \in AskRow
          /\ seen(q) = "absent" => new(q).status = "pending"
          /\ seen(q) # "absent" => new(q).status = asked[worker.job][q].status
          /\ seen(q) \notin {"absent", "pending"} => new(q) = asked[worker.job][q]
      BY <3>1, <3>2, CreatedRow
    <3> QED BY <1>2, <3>2, <3>3
  <2>4. all = [q \in Question |-> IF q \in worker.need THEN new(q) ELSE asked[worker.job][q]]
    BY DEF CreatedAll
  <2> HIDE DEF all, new, seen
  <2>5. all \in [Question -> AskRow]
    BY <1>1, <2>2, <2>3, <2>4
  <2>6. /\ asked' \in [Job -> [Question -> AskRow]]
        /\ \A i \in Job, q \in Question : asked'[i][q] =
             IF i = worker.job /\ q \in worker.need THEN new(q) ELSE asked[i][q]
    BY <1>1, <2>1, <2>2, <2>4, <2>5 DEF all
  <2>7. ASSUME NEW i \in Job, NEW q \in Question PROVE AskEffect(i, q)
    <3>1. CASE i = worker.job /\ q \in worker.need
      <4>1. asked'[i][q] = new(q)
        BY <2>6, <3>1
      <4>2. asked[i][q].status \in Resolution /\ asked'[i][q] # asked[i][q] => Redecides(i, q)
        BY <1>2, <2>2, <2>3, <3>1, <4>1 DEF Redecides
      <4> QED BY <1>5, <2>3, <3>1, <4>1, <4>2 DEF AskEffect, Creates
    <3>2. CASE ~ (i = worker.job /\ q \in worker.need)
      BY <2>6, <3>2 DEF AskEffect
    <3> QED BY <3>1, <3>2
  <2>8. \A q \in worker.need : asked'[worker.job][q].status # "absent"
    BY <2>2, <2>3, <2>6
  <2> QED BY <2>6, <2>7, <2>8
<1> SUFFICES ASSUME ~ AskWrite
             PROVE  /\ asked' \in [Job -> [Question -> AskRow]]
                    /\ \A j \in Job, q \in Question : AskEffect(j, q)
  BY <1>5
<1>6. ASSUME NEW j \in Job, NEW q \in Question, NEW resolution \in Resolution, NEW save \in BOOLEAN,
             Resolve(j, q, resolution, save)
      PROVE  /\ asked' \in [Job -> [Question -> AskRow]]
             /\ \A i \in Job, p \in Question : AskEffect(i, p)
  <2> DEFINE a == IF resolution = "edited" THEN "user" ELSE asked[j][q].answer
             row == [status |-> resolution, answer |-> a]
  <2>1. asked[j][q] \in AskRow /\ asked[j][q].status # "absent"
    BY <1>1, <1>6 DEF Resolve
  <2>2. row \in AskRow /\ row.status = resolution
    BY <2>1 DEF AskRow, AskStatus, Resolution
  <2>4. Redecides(j, q)
    BY <1>6 DEF Redecides
  <2>3. asked' = [asked EXCEPT ![j][q] = row]
    <3>1. asked' = [asked EXCEPT ![j][q].status = resolution, ![j][q].answer = a]
      BY <1>1, <1>6 DEF Resolve, AskRow
    <3>2. [[asked[j][q] EXCEPT !.status = resolution] EXCEPT !.answer = a] = row
      BY <2>1, AskRowSet DEF row
    <3> HIDE DEF a, row
    <3> QED BY <1>1, <2>1, <3>1, <3>2
  <2> HIDE DEF row
  <2> QED BY <1>4, <2>1, <2>2, <2>3, <2>4
<1>7. CASE Recover
  <2>1. CASE asked' = asked
    BY <1>3, <2>1
  <2>2. CASE /\ worker.job \in Job
             /\ asked' = [asked EXCEPT ![worker.job]["recovery"] = Created(@, @.status, "none")]
    <3> DEFINE row == Created(asked[worker.job]["recovery"], asked[worker.job]["recovery"].status, "none")
    <3>1. /\ asked[worker.job]["recovery"] \in AskRow /\ "none" \in Suggestion /\ "recovery" \in Question
          /\ asked[worker.job]["recovery"].status \in AskStatus
      BY <1>1, <2>2 DEF Suggestion, Question, AskRow
    <3>2. /\ row \in AskRow
          /\ asked[worker.job]["recovery"].status = "absent" => row.status = "pending"
          /\ asked[worker.job]["recovery"].status # "absent" =>
               row.status = asked[worker.job]["recovery"].status
          /\ asked[worker.job]["recovery"].status \in Resolution => row = asked[worker.job]["recovery"]
      BY <1>2, <3>1, CreatedRow
    <3>3. asked' = [asked EXCEPT ![worker.job]["recovery"] = row]
      BY <1>1, <2>2, <3>1
    <3>4. Creates(worker.job, "recovery")
      BY <1>7 DEF Creates
    <3> HIDE DEF row
    <3> QED BY <1>4, <2>2, <3>1, <3>2, <3>3, <3>4
  <2>3. worker.job \in Job
    BY <1>1, <1>7 DEF Recover, WorkerOK
  <2> QED BY <1>7, <2>1, <2>2, <2>3 DEF Recover
<1>8. CASE CliWrite
  <2>1. cli.job \in Job /\ cli.seen \in AskStatus /\ cli # NoCli
    BY <1>1, <1>8 DEF CliWrite, CliType
  <2>2. /\ asked[cli.job]["live"] \in AskRow /\ "live" \in Question
        /\ cli.seen = "absent" <=> asked[cli.job]["live"].status = "absent"
    BY <1>1, <2>1 DEF Question, SeenInv
  <2>3. Creates(cli.job, "live")
    BY <1>8 DEF Creates
  <2>4. CASE asked' = [asked EXCEPT ![cli.job]["live"] = Superseded(@, cli.seen)]
    <3> DEFINE row == Superseded(asked[cli.job]["live"], cli.seen)
    <3>1. /\ row \in AskRow
          /\ \/ row.status = asked[cli.job]["live"].status
             \/ row.status \in Resolution /\ asked[cli.job]["live"].status # "absent"
          /\ row = asked[cli.job]["live"] \/ Redecides(cli.job, "live")
      BY <2>2 DEF Superseded, AskRow, AskStatus, Resolution, Redecides
    <3>2. asked' = [asked EXCEPT ![cli.job]["live"] = row]
      BY <1>1, <2>1, <2>2, <2>4
    <3> HIDE DEF row
    <3> QED BY <1>2, <1>4, <2>1, <2>2, <2>3, <3>1, <3>2
  <2>5. ASSUME NEW s \in Suggestion,
               asked' = [asked EXCEPT ![cli.job]["live"] = Created(@, cli.seen, s)]
        PROVE  /\ asked' \in [Job -> [Question -> AskRow]]
               /\ \A j \in Job, q \in Question : AskEffect(j, q)
    <3> DEFINE row == Created(asked[cli.job]["live"], cli.seen, s)
    <3>1. /\ row \in AskRow
          /\ asked[cli.job]["live"].status = "absent" => row.status = "pending"
          /\ asked[cli.job]["live"].status # "absent" => row.status = asked[cli.job]["live"].status
          /\ \/ row = asked[cli.job]["live"] \/ Redecides(cli.job, "live")
             \/ asked[cli.job]["live"].status = "absent"
      <4>1. /\ row \in AskRow
            /\ cli.seen = "absent" => row.status = "pending"
            /\ cli.seen # "absent" => row.status = asked[cli.job]["live"].status
            /\ cli.seen \notin {"absent", "pending"} => row = asked[cli.job]["live"]
        BY <2>1, <2>2, CreatedRow
      <4>2. cli.seen = "pending" => Redecides(cli.job, "live")
        BY DEF Redecides
      <4> QED BY <2>2, <4>1, <4>2
    <3>2. asked' = [asked EXCEPT ![cli.job]["live"] = row]
      BY <1>1, <2>1, <2>2, <2>5
    <3> HIDE DEF row
    <3> QED BY <1>2, <1>4, <2>1, <2>2, <2>3, <3>1, <3>2
  <2> QED BY <1>8, <2>4, <2>5 DEF CliWrite
<1>9. CASE (WorkerStep /\ ~ AskWrite) \/ Kill
  <2>1. CASE \/ Load \/ StopAsk \/ Blocked \/ StopQuietly \/ Fill \/ FillTrusted \/ Count
             \/ LiveRun \/ Settle \/ Raise \/ NextJob \/ Kill
    BY <1>3, <2>1 DEF Load, StopAsk, Blocked, StopQuietly, Fill, FillTrusted, Count,
                      LiveRun, Settle, Raise, NextJob, Kill
  <2>2. CASE (\E j \in Job : Open(j)) \/ (\E q \in Question : AskRead(q))
    BY <1>3, <2>2 DEF Open, AskRead
  <2> QED BY <1>9, <2>1, <2>2 DEF WorkerStep
<1>10. CASE UserStep
  <2>1. CASE \/ \E c \in Client : RetryWrite(c) \/ \E j \in Job : RetryRead(c, j)
             \/ \E j \in Job : CliRead(j)
    BY <1>3, <2>1 DEF RetryWrite, RetryRead, CliRead
  <2> QED BY <1>6, <1>8, <1>10, <2>1 DEF UserStep
<1>11. CASE ImportStep
  BY <1>3, <1>11 DEF ImportStep, ImportBegin, ImportEnd, ImportFails, ImportRow, SkipRow
<1>12. CASE UNCHANGED vars
  BY <1>3, <1>12 DEF vars
<1> QED BY <1>7, <1>9, <1>10, <1>11, <1>12 DEF Next

(***************************************************************************)
(* Type correctness, and reads that are not locked.                        *)
(***************************************************************************)

LEMMA OthersTyped ==
  ASSUME TypeInv, [Next]_vars
  PROVE  retry' \in [Client -> Job \cup {None}] /\ cli' \in CliType /\ imp' \in ImportType
<1>1. /\ retry \in [Client -> Job \cup {None}] /\ cli \in CliType /\ imp \in ImportType
      /\ asked \in [Job -> [Question -> AskRow]]
  BY TypeParts
<1>2. CASE UNCHANGED <<retry, cli, imp>>
  BY <1>1, <1>2
<1>3. CASE WorkerStep \/ Kill \/ Recover
  BY <1>2, <1>3
  DEF WorkerStep, Load, StopAsk, Blocked, StopQuietly, Fill, FillTrusted, AskWrite, Count,
      LiveRun, Settle, Raise, NextJob, Open, AskRead, Kill, Recover
<1>4. CASE UserStep
  <2>1. ASSUME NEW c \in Client, RetryWrite(c) \/ \E j \in Job : RetryRead(c, j)
        PROVE  (\E v \in Job \cup {None} : retry' = [retry EXCEPT ![c] = v]) /\ UNCHANGED <<cli, imp>>
    BY <2>1 DEF RetryRead, RetryWrite
  <2>2. ASSUME NEW j \in Job, CliRead(j) PROVE cli' \in CliType /\ UNCHANGED <<retry, imp>>
    BY <1>1, <2>2 DEF CliRead, CliType, Question, AskRow
  <2>3. CliWrite => cli' \in CliType /\ UNCHANGED <<retry, imp>>
    BY DEF CliWrite, CliType
  <2>4. ASSUME NEW j \in Job, NEW q \in Question, NEW r \in Resolution, NEW save \in BOOLEAN,
               Resolve(j, q, r, save)
        PROVE  UNCHANGED <<retry, cli, imp>>
    BY <2>4 DEF Resolve
  <2> QED BY <1>1, <1>4, <2>1, <2>2, <2>3, <2>4 DEF UserStep
<1>5. CASE ImportStep
  <2>1. UNCHANGED <<retry, cli>>
    BY <1>5 DEF ImportStep, ImportBegin, ImportRow, SkipRow, ImportEnd, ImportFails
  <2>2. NoImport \in ImportType
    BY InterventionsAssumption DEF NoImport, ImportType
  <2>3. ASSUME ImportBegin PROVE imp' \in ImportType
    BY <2>2, <2>3 DEF ImportBegin, ImportType
  <2>4. ASSUME ImportEnd PROVE imp' \in ImportType
    <3>1. Verdict(imp.imported, imp.skipped) \in {"success", "partial", "failed"}
      BY DEF Verdict
    <3> QED BY <1>1, <2>4, <3>1 DEF ImportEnd, ImportType
  <2>5. ASSUME ImportFails PROVE imp' \in ImportType
    <3>1. imp.put \in SUBSET Job
      BY <1>1 DEF ImportType
    <3>2. CASE imp' = [NoImport EXCEPT !.pc = "failed", !.put = imp.put]
      BY <2>2, <3>1, <3>2 DEF ImportType
    <3> QED BY <2>2, <2>5, <3>2 DEF ImportFails
  <2>6. ASSUME SkipRow \/ \E j \in Job : ImportRow(j) PROVE imp' \in ImportType
    <3>1. /\ imp.imported + 1 \in Nat /\ imp.skipped + 1 \in Nat
          /\ imp.total + 1 \in 0 .. Lines
      <4>1. imp.total < Lines /\ imp.total \in 0 .. Lines /\ imp.imported \in Nat /\ imp.skipped \in Nat
        BY <1>1, <2>6 DEF ImportType, SkipRow, ImportRow
      <4> QED BY <4>1, InterventionsAssumption
    <3>2. ASSUME SkipRow PROVE imp' \in ImportType
      BY <1>1, <3>1, <3>2 DEF SkipRow, ImportType
    <3>3. ASSUME NEW j \in Job, ImportRow(j) PROVE imp' \in ImportType
      <4>1. imp.put \cup {j} \in SUBSET Job
        BY <1>1 DEF ImportType
      <4> QED BY <1>1, <3>1, <3>3, <4>1 DEF ImportRow, ImportType
    <3> QED BY <2>6, <3>2, <3>3
  <2> QED BY <1>1, <1>5, <2>1, <2>3, <2>4, <2>5, <2>6 DEF ImportStep
<1>6. CASE UNCHANGED vars
  BY <1>2, <1>6 DEF vars
<1> QED BY <1>3, <1>4, <1>5, <1>6 DEF Next

LEMMA SeenStep == TypeInv /\ SeenInv /\ [Next]_vars => SeenInv'
<1> SUFFICES ASSUME TypeInv, SeenInv, [Next]_vars PROVE SeenInv'
  OBVIOUS
<1>1. /\ WorkerOK(worker) /\ worker \in WorkerType /\ cli \in CliType
      /\ asked \in [Job -> [Question -> AskRow]]
      /\ worker.need \subseteq Field \cup {"stop"}
      /\ {"stop", "live"} \cup Field \subseteq Question
  BY TypeParts DEF WorkerOK, WorkerType, Question
<1>2. "live" \notin Field \cup {"stop"} /\ "recovery" \notin Field \cup {"stop"}
  BY InterventionsAssumption
<1>3. ASSUME NEW j \in Job, NEW q \in Question, ~ Creates(j, q)
      PROVE  asked'[j][q].status = "absent" <=> asked[j][q].status = "absent"
  BY <1>3, AskedEffect DEF AskEffect, Resolution
<1>4. CASE worker' = worker /\ cli' = cli
  <2>1. ASSUME worker.pc = "write"
        PROVE  /\ worker.first \in worker.need
               /\ worker.seen = "absent" <=> asked'[worker.job][worker.first].status = "absent"
    <3>1. worker.first \in worker.need /\ worker.first \in Question /\ worker.job \in Job
      BY <1>1, <2>1 DEF SeenInv, WorkerOK
    <3>2. ~ AskWrite
      <4>1. AskWrite => worker'.pc # "write"
        BY <1>1, DoneType DEF AskWrite, WorkerType
      <4> QED BY <1>4, <2>1, <4>1
    <3>3. ~ Creates(worker.job, worker.first)
      BY <1>1, <1>2, <3>1, <3>2 DEF Creates
    <3> QED BY <1>3, <2>1, <3>1, <3>3 DEF SeenInv
  <2>2. ASSUME cli # NoCli
        PROVE  cli.seen = "absent" <=> asked'[cli.job]["live"].status = "absent"
    <3>1. cli.job \in Job /\ "live" \in Question
      BY <1>1, <2>2 DEF CliType
    <3>2. ~ Creates(cli.job, "live")
      BY <1>1, <1>2, <1>4, <2>2 DEF Creates, CliWrite
    <3> QED BY <1>3, <2>2, <3>1, <3>2 DEF SeenInv
  <2> QED BY <1>4, <2>1, <2>2 DEF SeenInv
<1>5. CASE asked' = asked /\ cli' = cli /\ worker'.pc # "write"
  BY <1>5 DEF SeenInv
<1>6. ASSUME NEW q \in Question, AskRead(q) PROVE SeenInv'
  <2>1. /\ worker'.first = q /\ worker'.seen = asked[worker.job][q].status /\ worker'.job = worker.job
        /\ worker'.need = worker.need /\ q \in worker.need /\ asked' = asked /\ cli' = cli
    BY <1>1, <1>6 DEF AskRead, WorkerType
  <2> QED BY <2>1 DEF SeenInv
<1>7. CASE AskWrite
  <2>1. worker'.pc # "write" /\ cli' = cli
    BY <1>1, <1>7, DoneType DEF AskWrite, WorkerType
  <2>2. ASSUME cli # NoCli
        PROVE  cli.seen = "absent" <=> asked'[cli.job]["live"].status = "absent"
    <3>1. cli.job \in Job /\ "live" \in Question
      BY <1>1, <2>2 DEF CliType
    <3>2. ~ Creates(cli.job, "live")
      BY <1>1, <1>2, <2>1, <2>2 DEF Creates, CliWrite
    <3> QED BY <1>3, <2>2, <3>1, <3>2 DEF SeenInv
  <2> QED BY <2>1, <2>2 DEF SeenInv
<1>8. CASE Recover
  <2>1. worker'.pc # "write" /\ cli' = cli
    BY <1>8, NoWorkerType DEF Recover
  <2>2. ASSUME cli # NoCli
        PROVE  cli.seen = "absent" <=> asked'[cli.job]["live"].status = "absent"
    <3>1. cli.job \in Job /\ "live" \in Question
      BY <1>1, <2>2 DEF CliType
    <3>2. ~ Creates(cli.job, "live")
      BY <1>1, <1>2, <2>1, <2>2 DEF Creates, CliWrite
    <3> QED BY <1>3, <2>2, <3>1, <3>2 DEF SeenInv
  <2> QED BY <2>1, <2>2 DEF SeenInv
<1>9. CASE CliWrite \/ \E j \in Job : CliRead(j)
  <2>1. /\ worker' = worker
        /\ cli' # NoCli => (cli'.seen = "absent" <=> asked'[cli'.job]["live"].status = "absent")
    BY <1>9 DEF CliWrite, CliRead
  <2>2. ASSUME worker.pc = "write"
        PROVE  /\ worker.first \in worker.need
               /\ worker.seen = "absent" <=> asked'[worker.job][worker.first].status = "absent"
    <3>1. worker.first \in worker.need /\ worker.first \in Question /\ worker.job \in Job
      BY <1>1, <2>2 DEF SeenInv, WorkerOK
    <3>2. ~ AskWrite
      <4>1. AskWrite => worker'.pc # "write"
        BY <1>1, DoneType DEF AskWrite, WorkerType
      <4> QED BY <2>1, <2>2, <4>1
    <3>3. ~ Creates(worker.job, worker.first)
      BY <1>1, <1>2, <3>1, <3>2 DEF Creates
    <3> QED BY <1>3, <2>2, <3>1, <3>3 DEF SeenInv
  <2> QED BY <2>1, <2>2 DEF SeenInv
<1>10. CASE WorkerStep \/ Kill
  <2>1. CASE Load \/ NextJob \/ Kill
    BY <1>1, <1>5, <2>1, NoWorkerType DEF Load, NextJob, Kill, WorkerType
  <2>2. CASE StopAsk \/ Blocked \/ StopQuietly \/ FillTrusted \/ Count \/ LiveRun
    BY <1>1, <1>5, <2>2 DEF StopAsk, Blocked, Stopped, StopQuietly, FillTrusted, Count, LiveRun, WorkerType
  <2>3. CASE Fill \/ Settle \/ Raise \/ \E j \in Job : Open(j)
    BY <1>1, <1>5, <2>3, DoneType DEF Fill, Settle, Raise, Open, WorkerType
  <2> QED BY <1>6, <1>7, <1>10, <2>1, <2>2, <2>3 DEF WorkerStep
<1>11. CASE UserStep
  <2>1. CASE \/ \E c \in Client : RetryWrite(c) \/ \E j \in Job : RetryRead(c, j)
    BY <1>4, <2>1 DEF RetryWrite, RetryRead
  <2>2. CASE \E j \in Job, q \in Question, r \in Resolution, save \in BOOLEAN : Resolve(j, q, r, save)
    BY <1>4, <2>2 DEF Resolve
  <2> QED BY <1>9, <1>11, <2>1, <2>2 DEF UserStep
<1>12. CASE ImportStep
  BY <1>4, <1>12 DEF ImportStep, ImportBegin, ImportEnd, ImportFails, ImportRow, SkipRow
<1>13. CASE UNCHANGED vars
  BY <1>4, <1>13 DEF vars
<1> QED BY <1>8, <1>10, <1>11, <1>12, <1>13 DEF Next

Inv == TypeInv /\ SeenInv

LEMMA InvInit == Init => Inv
<1>1. Init => SeenInv
  BY DEF Init, SeenInv, NoWorker
<1> QED BY <1>1, TypeInit DEF Inv

LEMMA InvStep == Inv /\ [Next]_vars => Inv'
<1> SUFFICES ASSUME TypeInv, SeenInv, [Next]_vars PROVE Inv'
  BY DEF Inv
<1>1. /\ job' \in [Job -> JobRow] /\ asked' \in [Job -> [Question -> AskRow]] /\ WorkerOK(worker')
      /\ retry' \in [Client -> Job \cup {None}] /\ cli' \in CliType /\ imp' \in ImportType
  BY JobEffect, AskedEffect, WorkerTyped, OthersTyped DEF Affects
<1>2. TypeInv'
  BY <1>1 DEF TypeInv, TypeOK, WorkerOK, WorkerType, CliType, ImportType
<1> QED BY <1>2, SeenStep DEF Inv

(* Every variable keeps its type, and an attempt asks only what its form   *)
(* left open or why it stopped (pipeline_orchestrator.py).                 *)
THEOREM TypeCorrect == Spec => []TypeOK
<1>1. Inv => TypeOK
  BY DEF Inv, TypeInv
<1> QED BY InvInit, InvStep, <1>1, PTL DEF Spec

(* What the user has decided is never asked again, and only he or a writer *)
(* that read the row before it was decided changes it                      *)
(* (interventions/store.py, cli.py).                                       *)
THEOREM Decisions == Spec => DecisionsStand
<1>1. Inv /\ [Next]_vars =>
        \A j \in Job, q \in Question :
          asked[j][q].status \in Resolution /\ asked'[j][q] # asked[j][q] =>
            asked'[j][q].status \in Resolution /\ Redecides(j, q)
  <2> SUFFICES ASSUME Inv, [Next]_vars, NEW j \in Job, NEW q \in Question,
                      asked[j][q].status \in Resolution, asked'[j][q] # asked[j][q]
               PROVE  asked'[j][q].status \in Resolution /\ Redecides(j, q)
    OBVIOUS
  <2> QED BY AskedEffect DEF Inv, AskEffect, Resolution
<1>2. Inv /\ [Next]_vars =>
        [\A j \in Job, q \in Question :
           LET old == asked[j][q]
               new == asked'[j][q]
           IN  old.status \in Resolution /\ new # old =>
                 /\ new.status \in Resolution
                 /\ \/ \E resolution \in Resolution, save \in BOOLEAN : Resolve(j, q, resolution, save)
                    \/ /\ worker.pc = "write" /\ <<worker.job, worker.first>> = <<j, q>>
                       /\ worker.seen = "pending" /\ new.status = old.status
                    \/ cli.job = j /\ q = "live" /\ cli.seen = "pending"]_vars
  BY <1>1 DEF Redecides
<1> QED BY InvInit, InvStep, <1>2, PTL DEF Spec, DecisionsStand

(***************************************************************************)
(* Ready for review.                                                       *)
(***************************************************************************)

(* The fields an attempt left open are asked before they are counted, and  *)
(* between the count and the last write only a dry run of the command line *)
(* asks anything about the job.                                            *)
ReadyInv ==
  worker.mode = "fixture" =>
    /\ worker.pc \in {"ask", "write"} => worker.missing \subseteq worker.need
    /\ worker.pc \in {"count", "settle"} => worker.need = {}
    /\ worker.pc \in {"open", "work", "ask", "write", "count"} => worker.out # "review_ready"
    /\ worker.pc = "count" =>
         \A f \in worker.missing : asked[worker.job][f].status # "absent"
    /\ worker.pc = "settle" /\ worker.out = "review_ready" =>
         /\ Pending(worker.job) \subseteq {"live"}
         /\ \A f \in worker.missing : asked[worker.job][f].status \in Resolution

LEMMA ReadyStep == Inv /\ ReadyInv /\ [Next]_vars => ReadyInv'
<1> SUFFICES ASSUME Inv, ReadyInv, [Next]_vars PROVE ReadyInv'
  OBVIOUS
<1>1. /\ WorkerOK(worker) /\ worker \in WorkerType /\ TypeInv /\ SeenInv
      /\ asked \in [Job -> [Question -> AskRow]]
      /\ worker.missing \subseteq Question /\ Field \subseteq Question
      /\ worker.need \subseteq Field \cup {"stop"} /\ worker.missing \subseteq Field
      /\ \A w \in AskRow : w.status \in {"absent", "pending"} \cup Resolution
  BY TypeParts DEF Inv, WorkerOK, WorkerType, Question, AskRow, AskStatus
<1>2. /\ "pending" \notin Resolution /\ "absent" \notin Resolution
      /\ "live" \notin Field /\ "recovery" \notin Field
  BY InterventionsAssumption DEF Resolution
<1>3. CASE worker' = worker
  <2>1. ~ AskWrite /\ (worker.pc \in {"count", "settle"} => ~ Recover)
    BY <1>1, <1>3, DoneType DEF AskWrite, WorkerType, Recover
  <2>2. ASSUME worker.pc \in {"count", "settle"}, NEW q \in Question
        PROVE  /\ asked[worker.job][q].status # "absent" => asked'[worker.job][q].status # "absent"
               /\ asked[worker.job][q].status \in Resolution => asked'[worker.job][q].status \in Resolution
               /\ asked'[worker.job][q].status = "pending" =>
                    asked[worker.job][q].status = "pending" \/ q = "live"
    <3>1. worker.job \in Job
      BY <1>1, <2>2 DEF WorkerOK
    <3>2. AskEffect(worker.job, q)
      BY <1>1, <2>2, <3>1, AskedEffect
    <3> QED BY <1>2, <2>1, <2>2, <3>2 DEF AskEffect, Creates
  <2>3. worker.pc = "settle" /\ Pending(worker.job) \subseteq {"live"} =>
          Pending(worker.job)' \subseteq {"live"}
    BY <1>3, <2>2 DEF Pending
  <2> QED BY <1>1, <1>3, <2>2, <2>3 DEF ReadyInv
<1>4. CASE worker'.pc \in {"off", "next", "dead"} \/ (worker'.pc \in {"open", "work"} /\ worker'.out # "review_ready")
  BY <1>4 DEF ReadyInv
<1>5. CASE StopAsk \/ Blocked \/ StopQuietly
  <2>1. CASE StopAsk \/ Blocked
    <3>1. worker' = [worker EXCEPT !.pc = "ask", !.need = {"stop"}, !.out = "needs_user_input"]
      BY <2>1 DEF StopAsk, Blocked, Stopped
    <3> QED BY <1>1, <2>1, <3>1 DEF ReadyInv, WorkerOK, WorkerType, StopAsk, Blocked
  <2>2. CASE StopQuietly
    BY <1>1, <2>2 DEF StopQuietly, ReadyInv, WorkerOK, WorkerType
  <2> QED BY <1>5, <2>1, <2>2
<1>6. CASE Fill
  <2>1. PICK pc \in {"count", "ask"} :
          /\ worker' = [worker EXCEPT !.pc = pc, !.need = Unfilled, !.missing = Unfilled]
          /\ pc = "count" => Unfilled = {}
    BY <1>6 DEF Fill
  <2>2. /\ worker'.pc = pc /\ worker'.need = Unfilled /\ worker'.missing = Unfilled
        /\ UNCHANGED <<worker.out, worker.mode>> /\ worker.pc = "work"
    BY <1>1, <1>6, <2>1 DEF WorkerType, Fill
  <2> QED BY <2>1, <2>2 DEF ReadyInv
<1>7. CASE FillTrusted
  BY <1>1, <1>7 DEF FillTrusted, ReadyInv, WorkerOK, WorkerType
<1>8. CASE LiveRun
  BY <1>1, <1>8 DEF LiveRun, ReadyInv, WorkerType
<1>9. CASE Count
  <2>1. /\ worker'.pc = "settle" /\ worker'.out = Counted(worker.job) /\ asked' = asked
        /\ UNCHANGED <<worker.mode, worker.job, worker.need, worker.missing>>
    BY <1>1, <1>9 DEF Count, WorkerType
  <2>2. worker.pc = "count" /\ worker.job \in Job
    BY <1>1, <1>9 DEF Count, WorkerOK
  <2>3. Counted(worker.job) = "review_ready" => Pending(worker.job) = {}
    BY DEF Counted
  <2>4. Pending(worker.job)' = Pending(worker.job)
    BY <2>1 DEF Pending
  <2>5. Pending(worker.job) = {} /\ worker.mode = "fixture" =>
          \A f \in worker.missing : asked[worker.job][f].status \in Resolution
    <3> SUFFICES ASSUME Pending(worker.job) = {}, worker.mode = "fixture", NEW f \in worker.missing
                 PROVE  asked[worker.job][f].status \in Resolution
      OBVIOUS
    <3>1. f \in Question /\ asked[worker.job][f] \in AskRow
      BY <1>1, <2>2
    <3>2. asked[worker.job][f].status \notin {"absent", "pending"}
      BY <2>2, <3>1 DEF ReadyInv, Pending
    <3> QED BY <1>1, <3>1, <3>2
  <2> QED BY <2>1, <2>2, <2>3, <2>4, <2>5 DEF ReadyInv
<1>10. CASE Settle
  <2>1. \/ worker'.pc = "next"
        \/ worker'.pc = "ask" /\ worker.pc = "settle" /\ worker'.mode = worker.mode /\ worker.need # {}
    BY <1>1, <1>10, DoneType DEF Settle, WorkerType
  <2> QED BY <1>4, <2>1 DEF ReadyInv
<1>11. ASSUME NEW q \in Question, AskRead(q) PROVE ReadyInv'
  BY <1>1, <1>11 DEF AskRead, ReadyInv, WorkerType
<1>12. CASE AskWrite
  <2>1. CASE worker.mode = "live"
    BY <1>1, <1>4, <1>12, <2>1, DoneType DEF AskWrite
  <2> SUFFICES ASSUME worker.mode # "live" PROVE ReadyInv'
    BY <2>1
  <2>5. /\ worker'.pc = IF worker.missing = {} THEN "settle" ELSE "count"
        /\ UNCHANGED <<worker.mode, worker.job, worker.missing, worker.out>> /\ worker'.need = {}
        /\ worker.pc = "write" /\ worker.mode = "fixture"
    BY <1>1, <1>12 DEF AskWrite, WorkerType
  <2>2. \A q \in worker.need : asked'[worker.job][q].status # "absent"
    BY <1>1, <1>12, AskedEffect
  <2>3. worker.missing \subseteq worker.need /\ worker.out # "review_ready"
    BY <2>5 DEF ReadyInv
  <2> QED BY <2>5, <2>2, <2>3 DEF ReadyInv
<1>13. ASSUME NEW j \in Job, Open(j) PROVE ReadyInv'
  BY <1>1, <1>4, <1>13 DEF Open, ReadyInv, WorkerType
<1>14. CASE Load \/ NextJob
  <2>1. NoWorker.out # "review_ready"
    BY DEF NoWorker
  <2>2. worker'.pc \in {"off", "open"} /\ worker'.out = NoWorker.out
    BY <1>14, NoWorkerType DEF Load, NextJob, WorkerType
  <2> QED BY <1>4, <2>1, <2>2
<1>15. CASE Raise \/ Kill \/ Recover
  BY <1>1, <1>4, <1>15, NoWorkerType, DoneType DEF Raise, Kill, Recover, WorkerType
<1>16. CASE UserStep \/ ImportStep \/ UNCHANGED vars
  BY <1>3, <1>16
  DEF UserStep, ImportStep, vars, Resolve, RetryRead, RetryWrite, CliRead, CliWrite,
      ImportBegin, ImportRow, SkipRow, ImportEnd, ImportFails
<1> QED
  BY <1>5, <1>6, <1>7, <1>8, <1>9, <1>10, <1>11, <1>12, <1>13, <1>14, <1>15, <1>16
  DEF Next, WorkerStep

(* A fixture attempt makes a job ready for review only when nothing is     *)
(* pending about it but what a dry run asked since, and the user has       *)
(* decided every field the attempt left open (pipeline_orchestrator.py).   *)
THEOREM DecidedReview == Spec => ReadyIsDecided
<1>1. Init => ReadyInv
  BY DEF Init, NoWorker, ReadyInv
<1>2. Inv /\ ReadyInv /\ [Next]_vars =>
        [\A j \in Job :
           /\ worker.mode = "fixture" /\ worker' # worker
           /\ job[j].status # "review_ready" /\ job'[j].status = "review_ready"
           => /\ Pending(j) \subseteq {"live"}
              /\ \A f \in worker.missing : asked[j][f].status \in Resolution]_vars
  <2> SUFFICES ASSUME Inv, ReadyInv, [Next]_vars, NEW j \in Job, worker.mode = "fixture",
                      worker' # worker,
                      job[j].status # "review_ready", job'[j].status = "review_ready"
               PROVE  /\ Pending(j) \subseteq {"live"}
                      /\ \A f \in worker.missing : asked[j][f].status \in Resolution
    OBVIOUS
  <2>1. ReviewWritten(j)
    BY JobEffect DEF Inv, Affects, Readies
  <2> QED BY <2>1 DEF ReviewWritten, Settle, ReadyInv
<1> QED BY InvInit, InvStep, ReadyStep, <1>1, <1>2, PTL DEF Spec, ReadyIsDecided

(***************************************************************************)
(* The lifecycle and the import.                                           *)
(***************************************************************************)

(* Whoever writes a job moves it along the edges of the lifecycle, all but *)
(* a retry whose check was stale (persistence/job_repository.py).          *)
THEOREM Lifecycle == Spec => JobsFollowLifecycle
<1>1. Inv /\ [Next]_vars =>
        [\A j \in Job :
           LET old == job[j].status
               new == job'[j].status
           IN  old # "absent" /\ new # old =>
                 \/ new \in Allowed(old)
                 \/ new = "queued" /\ \E c \in Client : retry[c] = j /\ retry'[c] = None]_vars
  BY JobEffect DEF Inv, Affects, Moves
<1> QED BY InvInit, InvStep, <1>1, PTL DEF Spec, JobsFollowLifecycle

(* An import counts its lines while it reads them, and a job it committed  *)
(* stays in the queue.                                                     *)
ImportInv ==
  /\ \A j \in imp.put : job[j].status # "absent"
  /\ imp.pc = "rows" => imp.total = imp.imported + imp.skipped
  /\ imp.pc \in {"rows", "success", "partial"} =>
       /\ Cardinality(imp.put) =< imp.imported
       /\ imp.imported > 0 => imp.put # {}
  /\ imp.pc = "success" => imp.imported = imp.total
  /\ imp.pc = "partial" => imp.imported > 0 /\ imp.imported < imp.total
  /\ imp.pc = "failed" => imp.put = {} \/ imp.total = 0
  /\ imp.pc = "none" => imp.put = {}

LEMMA ImportStepInv == Inv /\ ImportInv /\ [Next]_vars => ImportInv'
<1> SUFFICES ASSUME Inv, ImportInv, [Next]_vars PROVE ImportInv'
  OBVIOUS
<1>1. /\ imp \in ImportType /\ job \in [Job -> JobRow] /\ imp.put \subseteq Job
      /\ imp.imported \in Nat /\ imp.skipped \in Nat /\ imp.total \in Nat
      /\ IsFiniteSet(imp.put) /\ Cardinality(imp.put) \in Nat
  BY TypeParts, InterventionsAssumption, FS_Subset, FS_CardinalityType DEF Inv, ImportType
<1>2. \A j \in imp.put : job'[j].status # "absent"
  BY <1>1, JobEffect DEF Inv, Affects, ImportInv
<1>3. IsFiniteSet({}) /\ Cardinality({}) = 0
  BY FS_EmptySet
<1>4. CASE imp' = imp
  BY <1>2, <1>4 DEF ImportInv
<1>5. CASE ImportBegin \/ ImportFails
  <2>1. CASE imp' = [NoImport EXCEPT !.pc = "rows"] \/ imp' = NoImport
    <3>1. /\ imp'.pc \in {"none", "rows"} /\ imp'.put = {}
          /\ imp'.imported = 0 /\ imp'.skipped = 0 /\ imp'.total = 0
      BY <2>1 DEF NoImport
    <3> QED BY <1>3, <3>1 DEF ImportInv
  <2>2. CASE imp' = [NoImport EXCEPT !.pc = "failed", !.put = imp.put]
    <3>1. imp'.pc = "failed" /\ imp'.put = imp.put /\ imp'.total = 0
      BY <2>2 DEF NoImport
    <3> QED BY <1>2, <3>1 DEF ImportInv
  <2> QED BY <1>5, <2>1, <2>2 DEF ImportBegin, ImportFails
<1>6. ASSUME NEW j \in Job, ImportRow(j) PROVE ImportInv'
  <2>1. /\ imp.pc = "rows" /\ imp'.pc = "rows" /\ imp'.total = imp.total + 1
        /\ imp'.imported = imp.imported + 1 /\ imp'.skipped = imp.skipped /\ imp'.put = imp.put \cup {j}
    BY <1>1, <1>6 DEF ImportRow, ImportType
  <2>2. job'[j].status # "absent"
    <3>1. PICK status \in FileStatus : job' = [job EXCEPT ![j] = Upsert(@, status, {})]
      BY <1>6 DEF ImportRow
    <3>2. Upsert(job[j], status, {}).status # "absent"
      BY <1>1, UpsertRow, InterventionsAssumption
    <3> QED BY <1>1, <3>1, <3>2
  <2>3. Cardinality(imp.put \cup {j}) =< Cardinality(imp.put) + 1
        /\ Cardinality(imp.put \cup {j}) \in Nat
    <3>1. CASE j \in imp.put
      <4>1. imp.put \cup {j} = imp.put
        BY <3>1
      <4> QED BY <1>1, <4>1
    <3>2. CASE j \notin imp.put
      <4>1. Cardinality(imp.put \cup {j}) = Cardinality(imp.put) + 1
        BY <1>1, <3>2, FS_AddElement
      <4> QED BY <1>1, <4>1
    <3> QED BY <3>1, <3>2
  <2>4. Cardinality(imp.put) =< imp.imported /\ imp.total = imp.imported + imp.skipped
    BY <2>1 DEF ImportInv
  <2>5. /\ Cardinality(imp'.put) =< imp'.imported /\ imp'.put # {}
        /\ imp'.total = imp'.imported + imp'.skipped
    BY <1>1, <2>1, <2>3, <2>4
  <2> QED BY <1>2, <2>1, <2>2, <2>5 DEF ImportInv
<1>7. CASE SkipRow
  <2>1. /\ imp.pc = "rows" /\ imp'.pc = "rows" /\ imp'.total = imp.total + 1
        /\ imp'.imported = imp.imported /\ imp'.skipped = imp.skipped + 1 /\ imp'.put = imp.put
    BY <1>1, <1>7 DEF SkipRow, ImportType
  <2> QED BY <1>1, <1>2, <2>1 DEF ImportInv
<1>8. CASE ImportEnd
  <2>1. /\ imp.pc = "rows" /\ imp'.pc = Verdict(imp.imported, imp.skipped)
        /\ imp'.total = imp.total /\ imp'.imported = imp.imported /\ imp'.put = imp.put
    BY <1>1, <1>8 DEF ImportEnd, ImportType
  <2>2. imp.imported = 0 => imp.put = {}
    <3>1. imp.imported = 0 => Cardinality(imp.put) = 0
      BY <1>1, <2>1 DEF ImportInv
    <3> QED BY <1>1, <3>1, FS_EmptySet
  <2>3. /\ imp.total = imp.imported + imp.skipped /\ Cardinality(imp.put) =< imp.imported
        /\ imp.imported > 0 => imp.put # {}
    BY <2>1 DEF ImportInv
  <2>4. /\ imp'.pc = "success" => imp.skipped = 0
        /\ imp'.pc = "partial" => imp.skipped # 0 /\ imp.imported > 0
        /\ imp'.pc = "failed" => imp.imported = 0
        /\ imp'.pc \in {"success", "partial", "failed"}
    <3>1. imp.skipped = 0 \/ imp.imported > 0 \/ imp.imported = 0
      BY <1>1
    <3> QED BY <2>1, <3>1 DEF Verdict
  <2>5. /\ imp'.pc = "success" => imp.imported = imp.total
        /\ imp'.pc = "partial" => imp.imported < imp.total
    BY <1>1, <2>3, <2>4
  <2>6. \A j \in imp'.put : job'[j].status # "absent"
    BY <1>2, <2>1
  <2>7. /\ imp'.pc = "failed" => imp'.put = {}
        /\ Cardinality(imp'.put) =< imp'.imported
        /\ imp'.imported > 0 => imp'.put # {}
    BY <2>1, <2>2, <2>3, <2>4
  <2>8. /\ imp'.pc = "success" => imp'.imported = imp'.total
        /\ imp'.pc = "partial" => imp'.imported > 0 /\ imp'.imported < imp'.total
        /\ imp'.pc \notin {"none", "rows"}
    BY <2>1, <2>4, <2>5
  <2> QED BY <2>6, <2>7, <2>8 DEF ImportInv
<1>9. CASE WorkerStep \/ Kill \/ Recover \/ UserStep \/ UNCHANGED vars
  <2>1. imp' = imp
    BY <1>9
    DEF WorkerStep, Load, StopAsk, Blocked, StopQuietly, Fill, FillTrusted, AskWrite, Count,
        LiveRun, Settle, Raise, NextJob, Open, AskRead, Kill, Recover, UserStep, Resolve,
        RetryRead, RetryWrite, CliRead, CliWrite, vars
  <2> QED BY <1>4, <2>1
<1> QED BY <1>5, <1>6, <1>7, <1>8, <1>9 DEF Next, ImportStep

LEMMA ImportInit == Init => ImportInv
<1> SUFFICES ASSUME Init PROVE ImportInv
  OBVIOUS
<1>1. imp.pc = "none" /\ imp.put = {}
  BY DEF Init, NoImport
<1> QED BY <1>1 DEF ImportInv

(* What the latest import recorded is true of the queue, unless it raised  *)
(* half way (services/queue_import_service.py).                            *)
THEOREM ImportRecord == Spec => []ImportRecordHolds
<1>1. Inv /\ ImportInv => ImportRecordHolds
  <2> SUFFICES ASSUME Inv, ImportInv PROVE ImportRecordHolds
    OBVIOUS
  <2>1. /\ imp.pc \in {"none", "rows", "success", "partial", "failed"}
        /\ imp.imported \in Nat /\ Cardinality({}) = 0
    BY TypeParts, FS_EmptySet DEF Inv, ImportType
  <2>2. imp.put = {} => Cardinality(imp.put) =< imp.imported
    BY <2>1
  <2> QED BY <2>1, <2>2 DEF ImportInv, ImportRecordHolds
<1> QED BY InvInit, InvStep, ImportInit, ImportStepInv, <1>1, PTL DEF Spec
=============================================================================
