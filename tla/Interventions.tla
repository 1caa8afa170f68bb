--------------------------- MODULE Interventions ---------------------------
(***************************************************************************)
(* What the program knows about a job and what it asks the user: the job   *)
(* rows and who writes them (import, worker, retry and resolve routes),    *)
(* the interventions (interventions/store.py and its bridges), one attempt *)
(* at a job by the fixture orchestrator (services/pipeline_orchestrator.py)*)
(* or by the live dry run, and the recovery of an attempt that died.       *)
(*                                                                         *)
(* A job object is read whole and written back whole, by whoever holds it  *)
(* and however old it is.  In SQLite a transaction locks at its first      *)
(* write, so what its first statement read may be stale when it is used.   *)
(***************************************************************************)
EXTENDS Naturals, FiniteSets, JobStatus

CONSTANTS
  Job,        \* jobs
  Field,      \* required questions of the form that the profile cannot answer
  Client,     \* concurrent retry requests
  FileStatus, \* the statuses that the lines of a queue file carry
  Lines,      \* how many lines a queue file has
  Actors,     \* who acts besides the user and the worker, out of AllActors
  None        \* no job, no question

AllActors == {"live", "retry", "import", "cli", "kill", "faults"}

ASSUME InterventionsAssumption ==
  /\ IsFiniteSet(Job)
  /\ IsFiniteSet(Field) /\ Field \cap {"stop", "recovery", "live"} = {}
  /\ Actors \subseteq AllActors
  /\ FileStatus \subseteq Status /\ Lines \in Nat
  /\ None \notin Job \cup Field \cup {"stop", "recovery", "live"}

(* What a job can be asked about.  The identifier of an intervention is a  *)
(* hash of job, kind, selector and question, so there is one row for each: *)
(* a field of the form; "stop", the page, document or adapter that stopped *)
(* the attempt; "recovery"; "live", a field the command line's dry run saw.*)
Question == Field \cup {"stop", "recovery", "live"}

VARIABLES
  job,      \* application_jobs
  asked,    \* interventions
  worker,   \* the worker and its attempt at a job
  retry,    \* the retry requests that have read their job
  cli,      \* the transaction of the command line's dry run
  imp       \* the import that holds the lock, or what the latest one recorded

vars == <<job, asked, worker, retry, cli, imp>>

(***************************************************************************)
(* Values.                                                                 *)
(***************************************************************************)

(* answers: the questions answered in metadata["form_answers"], which      *)
(* stand for every column but the status.                                  *)
JobRow == [status : Status \cup {"absent"}, answers : SUBSET Field]
NoJob == [status |-> "absent", answers |-> {}]

Resolution == {"edited", "dismissed"}   \* or approved; skipped, blocked, resolved
Suggestion == {"none", "machine"}
AskStatus == {"absent", "pending"} \cup Resolution
AskRow == [status : AskStatus,
           answer : Suggestion \cup {"user"}]
NotAsked == [status |-> "absent", answer |-> "none"]

Outcome == {"review_ready", "needs_user_input", "failed", "submitted"}
NoWorker ==
  [pc |-> "off", mode |-> "fixture", held |-> [j \in Job |-> {}], todo |-> {},
   job |-> None, trusted |-> FALSE, need |-> {}, first |-> None, seen |-> "absent", missing |-> {},
   out |-> "failed"]
(* put is history: the jobs whose rows this import has committed.          *)
NoImport == [pc |-> "none", total |-> 0, imported |-> 0, skipped |-> 0, put |-> {}]
NoCli == [job |-> None, seen |-> "absent"]

Pending(j) == {q \in Question : asked[j][q].status = "pending"}

Init ==
  /\ job = [j \in Job |-> NoJob]
  /\ asked = [j \in Job |-> [q \in Question |-> NotAsked]]
  /\ worker = NoWorker
  /\ retry = [c \in Client |-> None]
  /\ cli = NoCli
  /\ imp = NoImport

(***************************************************************************)
(* The job repository and the intervention store.                          *)
(***************************************************************************)

(* The mutant lets the object's status win, as its other columns do.       *)
MutantUpsert(row, status, answers) == [status |-> status, answers |-> answers]

(* upsert_application_job: the object replaces every descriptive field and *)
(* the metadata; the status moves along an allowed edge or stays.          *)
Upsert(row, status, answers) ==
  [status |-> IF row.status = "absent" THEN status ELSE Upserted(row.status, status),
   answers |-> answers]

(* create_intervention, given the status its SELECT saw: a new row is      *)
(* pending, a pending one gets a suggestion if there is one, a decided     *)
(* one stays.  The UPDATE writes the suggestion alone, on whatever the row *)
(* has become.  The mutant refreshes a decided row too.                    *)
MutantCreated(row, seen, suggestion) ==
  IF seen = "absent" THEN [status |-> "pending", answer |-> suggestion]
  ELSE [row EXCEPT !.answer = IF suggestion = "none" THEN @ ELSE suggestion]

Created(row, seen, suggestion) ==
  CASE seen = "absent" -> [status |-> "pending", answer |-> suggestion]
    [] seen = "pending" /\ suggestion # "none" ->
         [row EXCEPT !.answer = suggestion]
    [] OTHER -> row

(* A transaction of creates: the row it reads first was read without lock. *)
CreatedAll(j, need, first, seen, suggestion) ==
  [q \in Question |->
     IF q \in need
     THEN Created(asked[j][q], IF q = first THEN seen ELSE asked[j][q].status, suggestion[q])
     ELSE asked[j][q]]

(***************************************************************************)
(* The worker.                                                             *)
(***************************************************************************)

(* A run loads the jobs that are ready or queued, and keeps the objects.   *)
Load ==
  /\ worker.pc = "off"
  /\ \E mode \in {"fixture"} \cup ({"live"} \cap Actors) :
     \E S \in SUBSET {j \in Job : job[j].status \in {"ready_to_apply", "queued"}} \ {{}} :
       worker' = [NoWorker EXCEPT !.pc = "open", !.mode = mode, !.todo = S,
                    !.held = [j \in Job |->
            IF j \in S THEN job[j].answers ELSE {}]]
  /\ UNCHANGED <<job, asked, retry, cli, imp>>

WriteJob(status) ==
  job' = [job EXCEPT ![worker.job] = Upsert(@, status, worker.held[worker.job])]

(* An attempt is over: the worker keeps the objects of the jobs to come.    *)
Done == [NoWorker EXCEPT !.pc = "next", !.job = worker.job, !.mode = worker.mode,
           !.todo = worker.todo,
           !.held = [j \in Job |-> IF j \in worker.todo THEN worker.held[j] ELSE {}]]

Open(j) ==
  /\ worker.pc = "open" /\ j \in worker.todo
  /\ worker' = [worker EXCEPT !.pc = "work", !.job = j, !.todo = @ \ {j}]
  /\ job' = [job EXCEPT ![j] = Upsert(@, "in_progress", worker.held[j])]
  /\ UNCHANGED <<asked, retry, cli, imp>>

(* An intervention says why the attempt stops, before its job needs the    *)
(* user.                                                                   *)
Stopped == [worker EXCEPT !.pc = "ask", !.need = {"stop"}, !.out = "needs_user_input"]

(* The page asks for a login, is a captcha or a review page, or the        *)
(* exploration ends there.                                                 *)
StopAsk ==
  /\ worker.pc = "work" /\ worker.mode = "fixture"
  /\ worker' = Stopped
  /\ UNCHANGED <<job, asked, retry, cli, imp>>

(* A document is missing; the adapter is not ready, or its process fails.  *)
Blocked ==
  /\ worker.pc = "work" /\ worker.mode = "fixture"
  /\ worker' = Stopped
  /\ UNCHANGED <<job, asked, retry, cli, imp>>

(* An exploration that ends on an application already sent asks nothing.   *)
StopQuietly ==
  /\ worker.pc = "work" /\ worker.mode = "fixture"
  /\ worker' = [worker EXCEPT !.pc = "settle", !.out = "needs_user_input"]
  /\ UNCHANGED <<job, asked, retry, cli, imp>>

(* fill_form on the job object the worker holds: a required field without  *)
(* an explicit answer is one to ask for.                                   *)
Unfilled == Field \ worker.held[worker.job]

Fill ==
  /\ worker.pc = "work" /\ worker.mode = "fixture"
  /\ worker' = [worker EXCEPT !.pc = IF Unfilled = {} THEN "count" ELSE "ask",
                              !.need = Unfilled, !.missing = Unfilled]
  /\ UNCHANGED <<job, asked, retry, cli, imp>>

(* The Siemens adapter navigates and fills in dry runs of its own process. *)
(* Which adapter takes a job depends on its page, and is left open.        *)
FillTrusted ==
  /\ worker.pc = "work" /\ worker.mode = "fixture"
  /\ worker' = [worker EXCEPT !.pc = "count", !.trusted = TRUE]
  /\ UNCHANGED <<job, asked, retry, cli, imp>>

(* The transaction of the interventions reads its first row, then writes.  *)
AskRead(q) ==
  /\ worker.pc = "ask" /\ q \in worker.need
  /\ worker' = [worker EXCEPT !.pc = "write", !.first = q,
                              !.seen = asked[worker.job][q].status]
  /\ UNCHANGED <<job, asked, retry, cli, imp>>

AskWrite ==
  /\ worker.pc = "write"
  /\ \E s \in [Question -> Suggestion] :
       /\ \A q \in Question \ (worker.need \cap Field) : s[q] = "none"
       /\ asked' = [asked EXCEPT ![worker.job] =
                      CreatedAll(worker.job, worker.need, worker.first, worker.seen, s)]
  /\ worker' = IF worker.mode = "live" THEN Done
               ELSE [worker EXCEPT !.pc = IF worker.missing = {} THEN "settle" ELSE "count",
                                   !.need = {}, !.first = None, !.seen = "absent"]
  /\ UNCHANGED <<job, retry, cli, imp>>

(* check_submit_approval, asked of the review state the attempt has just   *)
(* made: nobody can have approved it.                                      *)
NewReview == [approved |-> FALSE, unresolved |-> 0]
MaySubmit(review) == review.approved /\ review.unresolved = 0

(* The pending interventions of the job decide, whoever asked them; the    *)
(* mutants let an attempt that filled every field pass, and call a job     *)
(* blocked that waits for its user.                                        *)
MutantBlocked(j) == IF Pending(j) # {} THEN "blocked" ELSE "review_ready"
MutantCounted(j) ==
  CASE Pending(j) # {} /\ worker.missing # {} -> "needs_user_input"
    [] OTHER -> "review_ready"

Counted(j) ==
  CASE Pending(j) # {} -> "needs_user_input"
    [] Pending(j) = {} /\ worker.trusted /\ MaySubmit(NewReview) -> "submitted"
    [] OTHER -> "review_ready"

Count ==
  /\ worker.pc = "count"
  /\ worker' = [worker EXCEPT !.pc = "settle", !.out = Counted(worker.job), !.trusted = FALSE]
  /\ UNCHANGED <<job, asked, retry, cli, imp>>

(* The live dry run ends; its reason to stop is asked about only after the *)
(* status has been written.                                                *)
LiveRun ==
  /\ worker.pc = "work" /\ worker.mode = "live"
  /\ \E out \in {"review_ready", "needs_user_input", "failed"} :
     \E reason \in SUBSET {"stop"} :
       /\ reason # {} => out = "needs_user_input"
       /\ worker' = [worker EXCEPT !.pc = "settle", !.out = out, !.need = reason]
  /\ UNCHANGED <<job, asked, retry, cli, imp>>

Settle ==
  /\ worker.pc = "settle"
  /\ WriteJob(worker.out)
  /\ worker' = IF worker.need = {} THEN Done ELSE [worker EXCEPT !.pc = "ask"]
  /\ UNCHANGED <<asked, retry, cli, imp>>

(* The error boundary of an attempt.                                       *)
Raise ==
  /\ "faults" \in Actors
  /\ worker.pc \in {"work", "ask", "write", "count", "settle"}
  /\ WriteJob("failed")
  /\ worker' = Done
  /\ UNCHANGED <<asked, retry, cli, imp>>

NextJob ==
  /\ worker.pc = "next"
  /\ worker' = IF worker.todo = {} THEN NoWorker
               ELSE [NoWorker EXCEPT !.pc = "open", !.mode = worker.mode,
                       !.todo = worker.todo, !.held = worker.held]
  /\ UNCHANGED <<job, asked, retry, cli, imp>>

(* The worker dies, or ends between two jobs because its run was cancelled.*)
(* Startup recovery finds the job its run names.                           *)
Kill ==
  /\ "kill" \in Actors
  /\ worker.pc \notin {"off", "dead"}
  /\ worker' = IF worker.pc = "open" THEN NoWorker
               ELSE [NoWorker EXCEPT !.pc = "dead", !.job = worker.job]
  /\ UNCHANGED <<job, asked, retry, cli, imp>>

Recover ==
  /\ worker.pc = "dead"
  /\ worker' = NoWorker
  /\ IF job[worker.job].status = "in_progress"
     THEN /\ job' = [job EXCEPT ![worker.job].status = "needs_review"]
          /\ asked' = [asked EXCEPT ![worker.job]["recovery"] =
                         Created(@, @.status, "none")]
     ELSE UNCHANGED <<job, asked>>
  /\ UNCHANGED <<retry, cli, imp>>

(***************************************************************************)
(* The user: resolve, retry, and the dry run of the command line.          *)
(***************************************************************************)

(* POST /interventions/{id}/resolve, whatever the row's status: its first  *)
(* write locks, so the job it merges the answer into is the latest one.    *)
(* Only a field has an answer to give, and only one of a fixture has an    *)
(* answer to save.                                                         *)
Resolve(j, q, resolution, save) ==
  /\ asked[j][q].status # "absent"
  /\ resolution = "edited" => q \in Field \cup {"live"}
  /\ save => q \in Field
  /\ asked' = [asked EXCEPT ![j][q].status = resolution,
                 ![j][q].answer = IF resolution = "edited" THEN "user" ELSE @]
  /\ IF save
     THEN job' = [job EXCEPT ![j].answers = @ \cup {q}]
     ELSE job' = job
  /\ UNCHANGED <<worker, retry, cli, imp>>

(* POST /queue/{id}/retry reads the job and counts what is pending ...     *)
RetryRead(c, j) ==
  /\ "retry" \in Actors
  /\ retry[c] = None
  /\ job[j].status # "absent" /\ "queued" \in Allowed(job[j].status)
  /\ job[j].status = "needs_user_input" => Pending(j) = {}
  /\ retry' = [retry EXCEPT ![c] = j]
  /\ UNCHANGED <<job, asked, worker, cli, imp>>

(* ... and writes the status, whatever it is by then.                      *)
RetryWrite(c) ==
  /\ retry[c] # None
  /\ job' = [job EXCEPT ![retry[c]].status = "queued"]
  /\ retry' = [retry EXCEPT ![c] = None]
  /\ UNCHANGED <<asked, worker, cli, imp>>

(* _persist_interventions of a dry run: a field that was filled resolves   *)
(* its pending row, a field that was not is asked for.  A row that it      *)
(* finds decided ends it there.                                            *)
CliRead(j) ==
  /\ "cli" \in Actors
  /\ asked[j]["live"].status \in {"absent", "pending"}
  /\ cli = NoCli /\ job[j].status # "absent"
  /\ cli' = [job |-> j, seen |-> asked[j]["live"].status]
  /\ UNCHANGED <<job, asked, worker, retry, imp>>

Superseded(row, seen) ==
  IF seen = "pending" THEN [row EXCEPT !.status = "dismissed"] ELSE row

CliWrite ==
  /\ cli # NoCli
  /\ \/ asked' = [asked EXCEPT ![cli.job]["live"] = Superseded(@, cli.seen)]
     \/ \E s \in Suggestion :
          asked' = [asked EXCEPT ![cli.job]["live"] = Created(@, cli.seen, s)]
  /\ cli' = NoCli
  /\ UNCHANGED <<job, worker, retry, imp>>

(***************************************************************************)
(* The import of the queue file.                                           *)
(***************************************************************************)

ImportBegin ==
  /\ "import" \in Actors
  /\ imp.pc # "rows"
  /\ imp' = [NoImport EXCEPT !.pc = "rows"]
  /\ UNCHANGED <<job, asked, worker, retry, cli>>

(* Each line is a transaction: some job of the file, perhaps one that it   *)
(* named before, with any status the file may give it and nothing of the   *)
(* answers that were saved here.                                           *)
ImportRow(j) ==
  /\ imp.pc = "rows" /\ imp.total < Lines
  /\ \E status \in FileStatus : job' = [job EXCEPT ![j] = Upsert(@, status, {})]
  /\ imp' = [imp EXCEPT !.total = @ + 1, !.imported = @ + 1, !.put = @ \cup {j}]
  /\ UNCHANGED <<asked, worker, retry, cli>>

(* A line that does not validate, or is refused its synthetic stamp.       *)
SkipRow ==
  /\ "faults" \in Actors
  /\ imp.pc = "rows" /\ imp.total < Lines
  /\ imp' = [imp EXCEPT !.total = @ + 1, !.skipped = @ + 1]
  /\ UNCHANGED <<job, asked, worker, retry, cli>>

(* The state of an import run; in the mutant a run that imported nothing   *)
(* and refused nothing but rows is a success.                              *)
MutantVerdict(imported, skipped) ==
  IF imported > 0 /\ skipped > 0 THEN "partial" ELSE "success"
Verdict(imported, skipped) ==
  IF skipped = 0 THEN "success" ELSE IF imported > 0 THEN "partial" ELSE "failed"

ImportEnd ==
  /\ imp.pc = "rows" /\ imp.total = Lines
  /\ imp' = [imp EXCEPT !.pc = Verdict(imp.imported, imp.skipped)]
  /\ UNCHANGED <<job, asked, worker, retry, cli>>

(* The file cannot be read, or a write raises half way: the run has failed *)
(* and counts nothing, whatever was committed before.  Or its record       *)
(* cannot be written either, and nothing is known of it.                   *)
ImportFails ==
  /\ "faults" \in Actors
  /\ imp.pc = "rows"
  /\ \/ imp' = [NoImport EXCEPT !.pc = "failed", !.put = imp.put]
     \/ imp' = NoImport
  /\ UNCHANGED <<job, asked, worker, retry, cli>>

(***************************************************************************)
(* The specification.                                                      *)
(***************************************************************************)
WorkerStep ==
  \/ Load \/ StopAsk \/ Blocked \/ StopQuietly \/ Fill \/ FillTrusted \/ AskWrite \/ Count
  \/ LiveRun \/ Settle \/ Raise \/ NextJob
  \/ \E j \in Job : Open(j)
  \/ \E q \in Question : AskRead(q)

UserStep ==
  \/ \E j \in Job, q \in Question, resolution \in Resolution, save \in BOOLEAN :
       Resolve(j, q, resolution, save)
  \/ \E c \in Client : RetryWrite(c) \/ \E j \in Job : RetryRead(c, j)
  \/ CliWrite \/ \E j \in Job : CliRead(j)

ImportStep ==
  \/ ImportBegin \/ SkipRow \/ ImportEnd \/ ImportFails
  \/ \E j \in Job : ImportRow(j)

Next ==
  \/ WorkerStep \/ UserStep \/ ImportStep
  \/ Kill \/ Recover

Spec == Init /\ [][Next]_vars

(***************************************************************************)
(* What must hold.                                                         *)
(***************************************************************************)

(* Every variable has its type; a worker in an attempt has its job, and an *)
(* attempt asks nothing but what its form left open or why it stopped.     *)
TypeOK ==
  /\ job \in [Job -> JobRow]
  /\ asked \in [Job -> [Question -> AskRow]]
  /\ worker.pc \in {"off", "open", "work", "ask", "write", "count", "settle", "next", "dead"}
  /\ worker.mode \in {"fixture", "live"}
  /\ worker.held \in [Job -> SUBSET Field]
  /\ worker.todo \subseteq Job
  /\ worker.job \in IF worker.pc \in {"off", "open"} THEN {None} ELSE Job
  /\ worker.need \subseteq Field \cup {"stop"}
  /\ worker.first \in worker.need \cup {None}
  /\ worker.seen \in AskStatus
  /\ worker.missing \subseteq Field /\ worker.trusted \in BOOLEAN
  /\ worker.out \in Outcome
  /\ retry \in [Client -> Job \cup {None}]
  /\ cli = NoCli \/ cli \in [job : Job, seen : AskStatus]
  /\ imp \in [pc : {"none", "rows", "success", "partial", "failed"}, total : 0 .. Lines,
              imported : Nat, skipped : Nat, put : SUBSET Job]

(* A question the user has decided is not asked again, and what he decided *)
(* changes by his next decision alone, or by a writer that read the row    *)
(* while it was still pending: the worker, which then writes a suggestion  *)
(* over his answer, or the command line's dry run, which resolves the row  *)
(* anew (create_intervention, _persist_interventions).                     *)
DecisionsStand ==
  [][\A j \in Job, q \in Question :
       LET old == asked[j][q]
           new == asked'[j][q]
       IN  old.status \in Resolution /\ new # old =>
             /\ new.status \in Resolution
             /\ \/ \E resolution \in Resolution, save \in BOOLEAN : Resolve(j, q, resolution, save)
                \/ /\ worker.pc = "write" /\ <<worker.job, worker.first>> = <<j, q>>
                   /\ worker.seen = "pending" /\ new.status = old.status
                \/ cli.job = j /\ q = "live" /\ cli.seen = "pending"]_vars

(* A fixture attempt makes a job ready for review only when nothing is     *)
(* pending about it, from this attempt or an earlier one, and each field   *)
(* it left open has been decided by the user (_process_form).  An import   *)
(* may do so too, of a job in progress, if its file says so.               *)
ReadyIsDecided ==
  [][\A j \in Job :
       /\ worker.mode = "fixture" /\ worker' # worker
       /\ job[j].status # "review_ready" /\ job'[j].status = "review_ready"
       => /\ Pending(j) \subseteq {"live"}
          /\ \A f \in worker.missing : asked[j][f].status \in Resolution]_vars

(* Whoever writes a job, from an object however old or a file that gives   *)
(* it any status, moves it along the edges of the lifecycle, and never out *)
(* of a final status; all but a retry, whose check may be stale when it    *)
(* writes (upsert_application_job, retry_job).                             *)
JobsFollowLifecycle ==
  [][\A j \in Job :
       LET old == job[j].status
           new == job'[j].status
       IN  old # "absent" /\ new # old =>
             \/ new \in Allowed(old)
             \/ new = "queued" /\ \E c \in Client : retry[c] = j /\ retry'[c] = None]_vars

(* What the latest import recorded is true of the queue, whatever became   *)
(* of its jobs since: success when no line was left out, partial when some *)
(* was and some was not, failed when nothing was committed; and no more    *)
(* jobs committed than lines counted.  An import that raised half way is   *)
(* the exception: it records zero lines, whatever it committed             *)
(* (QueueImportService._run_import).                                       *)
ImportRecordHolds ==
  LET raised == imp.pc = "failed" /\ imp.total = 0
  IN  /\ \A j \in imp.put : job[j].status # "absent"
      /\ imp.pc = "success" => imp.imported = imp.total
      /\ imp.pc = "partial" => imp.put # {} /\ imp.imported < imp.total
      /\ imp.pc = "failed" => imp.put = {} \/ raised
      /\ raised \/ Cardinality(imp.put) =< imp.imported

(***************************************************************************)
(* What the documentation says and the code does not do.                   *)
(***************************************************************************)

(* The resolve route saves an answer "so the deterministic mapper can      *)
(* reuse the answer on pipeline retry": an answer saved for a job stays.   *)
SavedAnswersStay ==
  [][\A j \in Job : job[j].answers \subseteq job'[j].answers]_vars
=============================================================================
