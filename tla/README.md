# A TLA+ verification project for Universal Auto Applier

Universal Auto Applier (UAA) takes prepared job applications, fills their web
forms in a browser, asks the user about what it cannot answer, and clicks the
final submit control only under a chain of gates. Its state is one SQLite
database shared by an API process (FastAPI, one thread per request, background
threads) and a worker subprocess. What is hard to test in it is what happens
between the transactions: two requests for one approval, a control that races
with a worker, a process that dies after the click and before the record.

All paths below are relative to `src/universal_auto_applier/` of the repository.

## 1. Inventory

| Component | Source | State it keeps | Operations | What makes it correct |
|---|---|---|---|---|
| Job lifecycle | `core/statuses.py`, `persistence/job_repository.py`, `submission/status_transitions.py` | `application_jobs.status` | upsert (keeps the old status when an edge is not allowed), update (raises), apply a submission result | jobs move along the allowed edges; terminal statuses stay; submitted only with a confirmed result |
| Controlled submission | `submission/*`, `api/routes/submit.py` | approvals, claims, results; the kill switch; the browser thread of each request | observe, confirm high-risk, approve, revoke, submit (service path and direct path) | one click per approval, only on content the user saw and confirmed, the outcome of a claimed request on record, nothing after an unknown outcome |
| Pipeline run | `services/pipeline_worker_service.py`, `pipeline_worker_runner.py`, `pipeline_recovery_service.py`, `persistence/pipeline_run_repository.py`, `api/routes/pipeline.py` | run rows, the service's process object, the worker process | start, pause, resume, cancel, shutdown, startup recovery; the worker's loop | one run at a time; a live worker is never recovered; no job is left in progress by nobody; a cancel ends the run |
| Orchestration run | `services/orchestration_service.py`, `persistence/orchestration_run_repository.py`, `api/routes/orchestration.py` | orchestration rows, a thread, a cancel event | start, cancel, recover, sequential and parallel phases, waits on queue and pipeline | one run at a time; a cancel is not overwritten by a phase; a new run is not driven by the thread of the old one |
| JobHunter subprocess | `services/jobhunter_runner.py` | one process group, logs | launch, wait, timeout, cancel, close | no orphan process; a timeout is not reported as success |
| Queue import | `services/queue_import_service.py`, `application_queue/importer.py`, `api/routes/queue*.py` | import runs, a lock | startup import, manual import | one import at a time; a line moves a job along the lifecycle or not at all; what is recorded of an import is true of the queue |
| Interventions, answer memory | `interventions/store.py`, `answer_memory.py`, `fill_bridge.py`, `navigation_bridge.py`, `api/routes/interventions.py` | intervention rows, answers in the job's metadata, remembered answers | create (deterministic id), refresh, resolve, dismiss, supersede | a decided question is not asked again, a decision is replaced only by the user or by a writer that read the row before it, an attempt that leaves a question open makes no job ready for review |
| Live review | `interventions/review.py`, `api/routes/review.py` | review states in memory (that no code fills) | build, approve, edit | an attempt cannot approve itself |
| In-process orchestrator | `services/pipeline_orchestrator.py` | thread pool, counters | run sequential, run parallel | counters add up; a job is processed once |
| Live form executor, runner | `form_engine/*`, `browser/live_runner.py` | a page, the records of its questions, a count of what is open, the report | observe, fill, look again, resolve, check, click on | the run ends; at a review nothing is missing that was required when it was recorded, up to what the resolver filled in exchange; what is reported filled was set, what was set is not reported as left alone |
| Submit interlock, mutation plan | `browser/submit_interlock.py`, `mutation_plan.py` | a guard script in each page, frozen plans, a budget | install, plan, execute, verify | a synthetic run sets nothing outside a plan frozen before (the guard itself is not modelled, see section 4) |
| Navigator | `navigator/*` | visited pages, depth | explore, classify, find path | terminates, never clicks a dangerous control |
| Question answering | `llm/*` | a ledger of facts | classify, resolve, validate | the model answers only questions of medium risk that nothing else settles, and never the opposite of the user's yes or no (evidence has to be cited; nobody looks it up) |
| ATS adapters | `adapters/*` | none beyond a page | detect, map | - |
| Startup, configuration | `api/app.py`, `config.py`, `cli.py`, `execution_mode.py`, ... | settings | recovery order | recovery runs before requests |

The components interact through the database (the worker and the service share
nothing else), through direct calls inside the API process (orchestration calls
the pipeline service and the import service; the submit routes call the
submission service), and through threads that outlive the call that made them
(browser threads joined with a timeout, orchestration threads).

SQLite matters to every model here: a transaction takes the write lock at its
first write, and the reads before it see the last commit. A function that reads
and then writes is therefore two steps, unless it writes what no other actor
writes.

`PROJECT.json` lists every component with its status and 39 places of this code
that are hard to test, each at its line, with the properties aimed at it.

## 2. Modules

| Module | Models | Depends on |
|---|---|---|
| `JobStatus` | statuses, allowed edges, upsert, the post-submission table | - |
| `SubmitToken` | abstract: an approval is a one-shot token | - |
| `Submission` | controlled submission in detail | `JobStatus`, `SubmitToken` |
| `MCSubmission` | symmetry sets for TLC | `Submission` |
| `SubmissionProofs` | theorems about `Submission` | `Submission`, `TLAPS` |
| `PipelineService` | abstract: what the pipeline service shows of its newest run | - |
| `PipelineRun` | run rows, service, worker, recovery | `JobStatus`, `PipelineService` |
| `MCPipelineRun` | symmetry set for TLC | `PipelineRun` |
| `PipelineProofs` | theorems about `PipelineRun` | `PipelineRun`, `TLAPS` |
| `Orchestration` | orchestration rows, service, threads, the JobHunter process, recovery | `PipelineService` |
| `OrchestrationProofs` | theorems about `Orchestration` | `Orchestration`, `TLAPS` |
| `Interventions` | job rows and their writers, interventions, one attempt at a job, the import of the queue file | `JobStatus` |
| `InterventionsProofs` | theorems about `Interventions` | `Interventions`, `TLAPS` |
| `LiveRun` | one live run in a browser: walk, executor, question resolver, mutation plans | - |
| `LiveRunProofs` | theorems about `LiveRun` | `LiveRun`, `TLAPS` |
| `MCLiveRun` | the kinds of question TLC checks | `LiveRun` |

### Submission

| Model | Code |
|---|---|
| `approval`, `confirmed`, `claim`, `released`, `result` | the three submission tables: an approval is the pair of application and content, because its primary key is derived from them (`store._make_id`); `released` is `consumed_at` of the claim |
| `job`, `pending` | what the gates see of the rest: the job status, a pending intervention |
| `att[r]` | the thread of submit request `r`: the approval it names, the content its browser shows, and between the read and the write of the record what it has read (`exists`, `job`) |
| `obs[o]` | the thread of an observe request |
| `enabled` | `settings.enable_real_submission` of the running process |
| `clicked`, `endorsed` | history: clicks that reached the site; approvals the approve endpoint answered 200 for |
| `ObserveRead`, `ObserveWrite` | `create_approval` called by `observe_and_persist_snapshot`, split where SQLite lets another writer in |
| `Begin`, `ClaimRead`, `ClaimInsert` | `execute_controlled_submission` (gate 1, approval, claim); on the direct path the second half of `execute_submission` |
| `OpenPage`, `OpenFails` | `_execute_in_browser` up to the coordinator, and its failures |
| `Gates` with `GateVerdict` | `check_gates`, in the order of the code |
| `ControlGone`, `Click`, `ClickFails`, `Confirm` | the click and what is observed after it |
| `Settle`, `Commit` | `record_result`, `consume_claim`, `consume_approval`: the reads, then the write |
| `Restart` | the process dies anywhere; tables stay, threads are gone, the setting may change |

Abstracted: a form is a member of `Snap` (its snapshot hash), `Clean` when it
has no unresolved field and exactly one submit control, `Risky` when a field
needs confirmation; the browser is a choice among what the code can observe.
The SELECTs of `check_gates` are one step, and so are the read and the write of
`revoke`. Jobs are never deleted. `ats_reference_id` is never set by the
coordinator, so `applied` is not reached through a result. Failing database
writes are not modelled. Observers may observe any content of any application,
and requests may name any approval that was ever made.

### PipelineRun

| Model | Code |
|---|---|
| `run[r]` | `pipeline_runs`: status, whether `worker_pid` is set, whether the heartbeat is within the timeout, current job, counters |
| `ctl` | the control request that holds the service's lock, with what it has read |
| `handle` | `PipelineWorkerService._proc` |
| `worker[r]` | the worker process: where it is in `_run_inner` and `_process_job_live`, the jobs it loaded, the job in hand |
| `life`, `orphan` | the API process; history: workers that the service lost, to a crash or by the end of a shutdown |
| `StartRead` ... `CancelWrite` | `start`, `pause`, `resume`, `cancel`, one step per transaction or process call |
| `BootRead` ... `Exit` | the worker, one step per transaction |
| `Raise`, `FailJob`, `CountFailed`; `WorkerFails` with `Unguarded`, `MarkFailed` | the boundary of a job, around all its calls and writes; the last-resort boundary of `run()`, around everything else, the handler of a job included, whose own write of the failure is best effort |
| `Stop`, `StopEnds` | `shutdown`, which takes no lock: it ends the worker it holds and drops its process object at the end; the thread of an orchestration run may start a pipeline until the process is gone |
| `Crash`, `Startup` | the end of the API process, behind a shutdown or without one; `recover_stale_pipeline_runs` |
| `Expire` | the heartbeat gets older than the timeout: only of a worker that is gone or in a long job, because every poll stamps it |

Abstracted: a job is its status; the order in which a run takes its jobs, and
which of the eligible ones the limit and the targets select, are chosen freely;
the live browser run is a choice of its three reports or an exception. The
pulse that repeats the checkpoint's poll is one poll. Recovery reads and writes
in one step. The fixture mode, which only tests use, is not modelled, nor is the
intervention that recovery leaves. Reuse of a pid by another process is not
modelled. Bound: `MaxRuns`, the runs ever started.

`PipelineService` is the contract that a caller of the service relies on:
`get_state_dict` shows the newest run, and of that run the contract has the
status (a run that pauses is running), whether a worker is at work on it or about
to be launched, whether that worker is a stray one that its service has lost, and whether a control is between its read and its write. A worker
ends its run once and a run that is over is over, with the three exceptions the
code has: a control that had read the run before its worker ended it makes it
active again; a start goes past a run whose row says that it is over though a
stray worker is at work on it; and that worker writes on. `ImplementsService`
maps the state of `PipelineRun` to it.

### Orchestration

| Model | Code |
|---|---|
| `row[o]` | `orchestration_runs`: status, mode, whether `jobhunter_pid` is set, exit code, the queue's signature before and after, whether it imported, the targets and what is left of them |
| `event`, `cur`, `held` | `_cancel_requested`, the runs of `_thread` and `_runner` |
| `ctl` | the start or cancel that holds the service's lock, and where it is |
| `th[o]` | the thread of a run: where it is in `_run_sequential`, `_run_sequential_synthetic` or `_run_parallel`, and their local variables |
| `child[o]` | the JobHunter process, and where `JobHunterRunner.wait` is, in the thread itself or, in parallel mode, in a thread of its own |
| `pipe`, `alive`, `stray`, `asked` (`pipeline`) | the newest pipeline run as the contract `PipelineService` has it: status, whether its worker is at work, whether that worker is lost, whether a control is between its read and its write |
| `queue`, `elig` | the modification time of the queue file; the jobs that are `ready_to_apply` or `queued` |
| `life`, `overtaken` | the API process; history: runs whose thread lived when a newer run was made |
| `Start`, `StartThread`, `CancelRead` ... `CancelEnd` | `start` and `cancel`, one step per transaction, process call or join |
| `Begin` ... `Complete` | the thread, one step per transaction or call whose order with the controls matters |
| `Waited`, `TimeOut`, `Reap` | `wait`, `_handle_timeout`, `_run_jobhunter` |
| `StartPipe`, `Spawned`, `SpawnFails`, `PipeRefused` | the pipeline's `start` called by a thread: its row, then its worker, or neither |
| `CancelPipe`, `CancelAnswer` | the pipeline's `cancel`: its read, then its write |
| `JobMoves`, `WorkerMoves`, `UserActs`, `UserAnswers` | the pipeline worker on the jobs and on its run; the user's controls of the pipeline |
| `Stop`, `LosePipe`, `StopChild`, `Down`, `Startup` | shutdown of the pipeline service, then of this one; end of the process; `recover_on_startup` |

Every step of the pipeline is an action of the contract, under the guards of
this component: `PipelineRun` implements the contract, so whatever it does these
threads have to live with, a control that writes over a run which ended since it
was read and a worker that outlived a crash included. Its controls take turns
(`PipeFree`).

Abstracted: the jobs that a pipeline worker takes are chosen freely; an
import makes some jobs eligible; a queue file is its modification time, and any
writer of it makes a new one; which of the remaining targets a batch takes is
chosen freely. To terminate a child and wait for it is one step, and a
terminated child does not exit with zero. A look at the event is one step with
the evidence written just before it. `processed_ids` is what is not in `left`.
The joins of `start` and `cancel` run out only while the thread is inside an
import or a pipeline start, which nothing bounds; everywhere else a thread looks
at the event within half a second. Not modelled: reuse of a pid, the manifest
files and their cleanup, captured output, validation of the configuration.
Bounds: `MaxRuns`, `MaxJobs`, the size of a batch, and `Retried`, the jobs that
the user sends round again. `Env` switches the
surroundings: `slow` lets the joins run out, `timeouts` lets deadlines pass,
`faults` lets calls fail.

### Interventions

| Model | Code |
|---|---|
| `job[j]` | `application_jobs`: the status, and the questions answered in `metadata["form_answers"]`, which stand for every column that an upsert replaces |
| `asked[j][q]` | `interventions`: one row for each question a job can be asked, because the id is a hash of job, kind, selector and question |
| `worker` | the worker and its attempt: the job objects it loaded when its run began (`held`), what it has to ask (`need`), the row its transaction read first (`first`, `seen`), the outcome |
| `retry`, `cli` | the retry requests between their read and their write; the transaction of the command line's dry run |
| `imp` | the import under its lock, or the verdict and the counts that the latest one recorded; `put`, the jobs it has committed, is history |
| `Load`, `Open`, `Settle`, `NextJob`, `Raise` | `PipelineWorkerRunner` around an attempt, `PipelineOrchestrator.process_job` |
| `StopAsk`, `Blocked`, `StopQuietly`, `Fill`, `FillTrusted`, `Count` | `_run_generic_path`, `_run_trusted_adapter_path`, `_process_form` |
| `AskRead`, `AskWrite` with `Created` | `create_intervention` and the bridges that call it, split where another writer gets in: the first SELECT of a transaction holds no lock |
| `LiveRun` | the live dry run by its outcome; its reason to stop is asked after its status is written |
| `Kill`, `Recover` | death of the worker; the job and the intervention of `_recover_current_job` |
| `Resolve` | the resolve route, whose first statement writes: its read of the job is the latest |
| `RetryRead`, `RetryWrite`; `CliRead`, `CliWrite` | the retry route; `_persist_interventions` of `cli.py` |
| `ImportBegin` ... `ImportFails` | `QueueImportService.run`, `import_queue_file`: one transaction for each line, which names any job (perhaps one that an earlier line named) with any status of `FileStatus` |

Abstracted: the adapter that takes a job is chosen freely; a question is a
member of `Field`, or one of the three that are not fields of a form; a
suggestion is there or not, so that a refresh which repeats the suggestion is not told
apart from one that changes it; the resolutions other than `edited` are one. A file's
lines are not fixed in advance. The
read and the write of one upsert are one step, and so is the transaction of
recovery, which runs before requests are served. One retry client, because two
retries write the same. Not modelled: the answers to interventions of the
command line's dry run, whose row has no field label, so that the route saves
them under the key `None`; the import service made on demand by the queue route,
which has a lock of its own; the planning mode of the orchestrator, which the
worker refuses (it asserts a fixture); `PipelineOrchestrator.run` and
`_run_parallel`, which nothing under `src/` but tests calls. `Actors` names who
acts in an instance besides the user and the worker.

### LiveRun

| Model | Code |
|---|---|
| `run` | the locals of `run_in_context` and `run_in_context_synthetic`: step, the control to click next, the fingerprints clicked so far, status, whether an exception ended it |
| `form` | `LiveFormExecution` and the locals of a pass: what was read of the questions still to do (`todo`, `kind`), the records and who answered (`rec`, `by`), `required_unresolved`, what is left of the budget, the plans of the passes; `asked` and `late` are history |
| `dom` | history: what the run has set, by step |
| `report` | `LiveRunReport`: the records of every step, the chain of plan hashes; and `files`, the plans on disk |
| `Look` with `Halts` | `_detect_blocker`, `analyze_page`, `choose_safe_action` |
| `Click` with `NextStep` | the fingerprint of the action (address, selector and text) and the loop check, `click_action`, the step bound |
| `Fill` with `Filling` | `execute_live_form`, `fill_form`, `validate_typed_answer` |
| `Set` | the call that sets a control and what its `try` covers besides: the read-back, the wait for the page |
| `Mutate` with `Decision`, `Affordable`; `Pass` | `_run_mutation_pass`, `build_mutation_plan`, the frozen plan of a pass |
| `Reobserve` with `Again` | the second reading of the page, once for each form |
| `Filled`, `Resolve` with `Answers`, `Mapped`, `Told`, `Model`, `Accepted`, `Resolved` | `execute_live_form_with_llm`, `resolve_question`, `answer_question`, `validate_answer` |
| `Check` with `Unfinished` | what the runner does after a form |
| `Reported`, `Recounted` | `report.fields`, the hashes appended, the plan files that each form writes over |
| `Raise`, `Over` | the exception handlers of the runner |

The site is the adversary of this model. Each of the three readings of a form
shows any questions, each of any kind of `Kinds`: a question may be required now
and optional at the next reading, get other options, appear or vanish. A click
may lead anywhere. Any call into the browser may raise, and a call that sets a
control may raise before it has set it or after. A kind is what the program makes
of a question: its control, its risk, what the mapping and the user's ledger have
for it, and whether that fits. Abstracted: a document that changed between plan
and execution is one of the ways an entry fails; a question is the same on every
page (a token holds no address). The recon command over several platforms is one
run for each. `attempt_submit` is never called. The worker runs with no question
service, so `llm` is the command line's mode alone. `Interventions` has this
module's outcome as its action `LiveRun`. Not modelled: the interlock, a script
whose effect depends on the page and the browser (section 4), and the artifacts.

## 3. Runs

Every run but `live_run` uses `CHECK_DEADLOCK FALSE`: requests and runs are
finitely many and the system rightly stops when they are served. `live_run` has
an action for its end (`Done`) and is checked for deadlock.

| Run | Configuration | What it shows |
|---|---|---|
| `submission_requests` | 1 application, 2 contents, 2 submit requests, 2 observers, service path, restarts | `TypeOK`, `OneRequestPerApproval`, `ReleasedIsAudited`, `RecordsAreFinal`, `ImplementsToken`, `ClaimIsAudited` |
| `submission_review` | one complete and risky content, one incomplete; both paths; interventions, approvals and restarts | `ClickIsOnApprovedContent`, `RecordsAreTrue`, `NoClickWhenDisabled` (on the service path the check at entry already decides it, gate 1 is what protects the direct path) |
| `submission_jobs` | the pipeline and retries move the job meanwhile | `SubmittedIsBacked` |
| `submission_after_unknown` | violation, 3 requests | `NoPassAfterUnknown` |
| `submission_endorsed` | violation | `ClicksAreEndorsed` |
| `pipeline_worker` | 1 run, 2 jobs, all controls, failures, shutdowns, crashes, restarts | `TypeOK`, `CompletedIsCounted`, `StrandedOnlyByClosing`, `WaitingWorkerObeys`, `WorkerHalts` |
| `pipeline_runs` | 2 runs, 1 job, controls, kills, shutdowns, crashes | `OneRunAtATime`, `RecoveryTouchesNoOwner`, `ImplementsService` |
| `orchestration_threads` | 1 run of any mode, 2 jobs, batches of 1; cancels, timeouts, faults, dying pipeline workers, a user | `TypeOK`, `NoOrphanChild`, `CompletedIsEarned`, `ImportIsBacked`, `PassesBounded`, `ThreadEnds` |
| `orchestration_runs` | 2 parallel runs, 1 job; cancels, joins that run out, shutdowns, crashes and restarts | `OneActiveRun`, `OneJobHunter`, `ActiveHasDriver`, `OverIsOver` |
| `interventions_attempts` | 1 job with 1 question, every actor, faults, worker deaths, 1 retry client, files of 2 lines | `TypeOK`, `ImportRecordHolds`, `DecisionsStand`, `ReadyIsDecided`, `JobsFollowLifecycle` |
| `interventions_saved` | violation, same instance | `SavedAnswersStay` |
| `live_run` | every mode, 2 steps, 1 address, 2 buttons, 2 questions of any of 9 kinds at each reading, a budget of 1 | `TypeOK`, `ReviewIsComplete`, `ReportIsTrue`, `MutatedIsPlanned`, `ModelKeepsItsPlace`, `Ends` |

Bounds. Every table of the submission component is keyed by application, so one
application is enough; two contents make an approval stale; two requests race,
and the third in `submission_after_unknown` is the one that hides the unknown
outcome. An attempt settles once, so the clock that orders results is bounded
by the number of requests. A run needs two jobs to have a boundary at which it
is paused or cancelled; two runs show what one leaves behind for the next. The
combination of two runs with two jobs is beyond a run of a few minutes. For an
orchestration run, two jobs in batches of one give a second pass and a pass
without progress; two runs give one that a slow join, a crash or a surviving
JobHunter leaves to the next, and both are parallel because that mode has the
sequential mode's phases at the same time as JobHunter. The user sends one of the
two jobs round again (`Retried`), so that one job may come back and one may not.
Shutdowns are in `orchestration_runs` only, and retries in
`orchestration_threads` only, which keeps each within a few minutes; the theorems
about both (section 5) hold with everything at once. Writers of the job race over
one row, so `interventions_attempts` has one job; its one question is enough for a stale
read, a saved answer and a question of an earlier attempt, and the three that
are not fields make a transaction of several. A file has two lines, so that one may
be taken and one refused (`partial`), or both name the one job. Its lines carry one of
three statuses: `ready_to_apply`, to which no edge leads; `queued`, to which some jobs
move; `applied`, which is final. `review_ready` was left out for time: the theorems hold
of every set of statuses. In `live_run` two steps give a form after a
form, so that one overwrites the plans of the other; two buttons at one address
tell a loop from a step with another button; of two questions one may be revealed,
or have become required, while the other counts; and a budget of 1 is spent in the
first or the second pass. The nine kinds are one for each path through mapping,
plan and resolver.

Fairness. `ClaimIsAudited` assumes that a thread which serves a request is
scheduled (`WF_vars(Serve(r))`): every browser call in it has a timeout, and it
holds no lock while it waits. `WaitingWorkerObeys` and `WorkerHalts` assume the
same of a worker process, of the steps that go on (`GoesOn`) and not of those that
raise: a worker that hung would not be saved by a failure. `ThreadEnds` assumes that the threads of an
orchestration run are scheduled and that their deadlines pass: the pipeline poll
gives up after 300 s, the join in parallel mode after the timeout plus 30 s, and
JobHunter has a timeout. That one is a setting whose default is none; a
sequential run without it waits for JobHunter as long as that runs. A thread that
starts a pipeline waits for the lock of its controls without a timeout: the
property assumes that a control which holds it lets go of it (each is a few
transactions), and that the thread gets it in the end though a user takes it
again and again (`SF_vars`; every request of a user takes its time, and a lock
that is free is taken by who waits for it). `Ends`
assumes that a live run takes its steps: it is one thread, whose navigations and
actions on a control have a timeout. The scripts it evaluates in the page have none
and are assumed to return, and so is the call of the model: the timeout configured
for that (`UAA_LLM_TIMEOUT_MS`) is never given to its client. Here, too, no call has
to raise. Nothing is assumed of the user, of restarts, or of a service control.

Symmetry is used for requests and contents where the instance treats them
alike, and never in a run with a liveness property.

## 4. Where code and documentation part

The violation runs show:

* `NoPassAfterUnknown` - gate 9 looks at the latest result only, and a refusal
  is a result.
* `ClicksAreEndorsed` - observing persists a row that is active at once; the
  approve endpoint writes nothing.
* `SavedAnswersStay` - the resolve route saves an answer in the job's metadata
  for the next attempt, and the next write of a worker that loaded the job
  before, or the next import of the queue file (one is run at every startup),
  replaces the metadata and the answer is gone.

Seen while modelling, present in the models, without a run of their own:

* `record_result` returns the row an approval already has: a click whose approval
  carries a refusal (of a request that lost the claim race, or that came too
  early) leaves no result, though "Every click attempt is recorded here for
  audit" (`persistence/models.py:275`). `ClaimIsAudited` promises a claimed
  request its own row with this one exception;
* a cancel that comes between a pause and the worker's own `paused` (or, on a
  resume, `running`) is overwritten, and the run goes on, though "The worker
  stops before the next job" (`api/routes/pipeline.py`);
* cancelling an orchestration run asks the pipeline to stop before the run's
  thread has stopped starting one; the thread's next wait returns at the event
  and leaves that pipeline running, though "Cancellation requests UAA pipeline
  cancellation safely" (`services/orchestration_service.py`);
* gate 8 (no open claim) is skipped on the service path, and the claim of a
  clicked request is never consumed there, because the coordinator is given an
  empty claim id;
* two observes racing on different contents leave two active approvals;
  `get_active_approval` then raises until one is revoked (`TooMany`);
* observing a content whose approval was revoked or consumed collides with the
  derived primary key;
* the gates look up the active approval of the application, not the one the
  request names;
* on the direct path the gates are not evaluated again after the claim;
* the status a result asks for is chosen from a status read earlier and written
  over whatever a retry made of the job;
* after a crash of the API process the new service holds no process object:
  cancel then ends the row of a healthy worker, and start launches a second
  worker beside it; a worker the service crashed before recording may have its
  run recovered under it (`orphan` in `OneRunAtATime`, `RecoveryTouchesNoOwner`);
* a shutdown drops the process object after its waits and without the lock: a
  worker that the thread of an orchestration run launched meanwhile runs on
  (`StopEnds`), though the docstring guarantees that the worker was waited on;
* a live worker whose run was recovered while it is paused polls for ever
  (`Wakes`);
* a job that raises after it was counted is counted twice;
* closing a pipeline run forgets its job: a cancel after the worker died, and the
  last-resort boundary of `run()` when the handler of a failing job raises too,
  clear `current_job_id` over a job that stays in progress, and retry refuses a
  job in that status (`LeftBehind` in `StrandedOnlyByClosing`, with the jobs that
  a worker lost by its service takes after its run was recovered or cancelled);
* starting an orchestration run clears the cancel event before it joins the old
  thread: an old thread inside a long import then goes on, writes its phases
  over its cancelled row, and two runs are active (`overtaken`);
* the last check of a thread reads the latest row, so a failed run whose thread
  is at its end when a new run starts becomes completed (`overtaken` in
  `CompletedIsEarned`, "its own thread" in `OverIsOver`);
* `_wait_for_pipeline` says it returns false when the pipeline was cancelled and
  returns true: an orchestration run whose pipeline the user cancels completes;
* parallel mode never looks at `was_timed_out`, only at the exit code;
* a cancel during the wait for a stable queue file records a failure first;
* a phase may be written over `cancelling`, and `cancelled` over `completed`;
* the manifest cleanup compares prefixes of pipeline run ids with orchestration
  run ids;
* `create_intervention` reads a pending row, the user edits it, and the refresh
  then writes its suggestion over the user's answer, though "The user's resolution
  decision and any user-edited answer are sacred and must never be overwritten by a
  re-run" (`interventions/store.py:181-183`); the dry run of the command line reads
  a pending row in the same way and turns what the user has decided meanwhile into
  `resolved`. `DecisionsStand` names both and allows nothing else;
* retry counts the pending interventions and writes its status later, so a job
  is queued again although an attempt has asked meanwhile; the same write can
  take a job back to `queued` that a worker has in progress;
* the worker writes `needs_user_input` before it asks the question that explains
  it: a worker that dies between leaves a job that asks for nothing;
* an import that raises half way is recorded as failed with zero rows imported,
  although the rows before it are in the queue and `failed` is documented as "row
  errors with zero imports, or an unreadable/missing file"
  (`services/queue_import_service.py:19-21`); `ImportRecordHolds` excepts it;
* an import upserts whatever status a line carries, so it moves a job that it finds
  along any allowed edge - one that a worker has in progress becomes ready for
  review if the file says so (`JobsFollowLifecycle` is all that holds);
* a retry whose check is stale when it writes takes a job out of a final status;
* questions that the second reading or an answer of the model reveals are seen by no
  pass: a form may be ready for review with a required question open that no
  record names (`ReviewIsComplete` speaks of what was recorded);
* the resolver reads anew what is required and takes a question off the count if it
  is required now: one that was optional when it was recorded takes off another that
  is still open, and the form counts as finished (`late` in `ReviewIsComplete` allows
  one missing question for each of these and no more);
* in a synthetic run an entry that was to be set and failed, was blocked or had
  no budget left does not count as unresolved, so `review_ready` may stand beside
  a required question that failed (hence "not synthetic" in `ReviewIsComplete`);
* a control that was set by a call that raised afterwards is recorded as failed, in
  an llm run perhaps as open after that; in a synthetic run it is not debited from
  the budget, so a form may be changed in more places than `TypeOK` lets it be
  charged for;
* the mutation budget is given anew to every form of a synthetic run, though
  `config.py` says "per run" and `cli.py` "per-run mutation budget";
* each form of a synthetic run writes its plans over those of the form before, and
  only the list of hashes grows. "EVERY filled field is represented by a mutate entry
  in SOME plan pass" (`tests/test_wq7c_synthetic_mutation.py`) reads those files, and
  holds of a run with one form;
* an exception that ends the run loses the form it was at: what was set there is in
  no report (hence `raised` in `ReportIsTrue` and `MutatedIsPlanned`);
* an answer of the model is compared with the user's explicit answer only when one
  says yes and the other no: against an explicit "3 years" that fits no option the
  model's option is filled; the evidence it cites is not looked up in the ledger;
* a password field is blocked by the deterministic pass and then filled by the
  resolver if the mapping has a value for it;
* the interlock is "armed BEFORE any mutation" (`browser/live_runner.py:552-554`), but a
  failure to install it is only logged, and `installed` is reported true when the
  check itself raises; it does not see `fetch` or a capture listener of the window;
  its counters are read from the last page only, so a block on an earlier page is not
  reported, though zeros are taken for the proof that nothing was tried;
* a clickable is addressed by its index and looked up again when it is clicked;
* an option is matched by substring, so the answer checked against the ledger is
  not always the option that is set.

## 5. Proofs

`SubmissionProofs` proves, for every number of applications, contents,
requests, observers and restarts, everything about `Submission` that the
passing runs check except the liveness property:

| Theorem | Property | Inductive invariant |
|---|---|---|
| `TypeCorrect` | `TypeOK` | `TypeOK` itself |
| `AtMostOneRequest` | `OneRequestPerApproval` | `ClaimInv`: a request past the claim owns the claim row of its approval |
| `FinalRecords` | `RecordsAreFinal` | `TypeOK`, `ClaimInv` |
| `KillSwitch` | `NoClickWhenDisabled` | `SwitchInv`: a request past gate 1 lives in a process that enables submission |
| `TrueRecords`, `BackedSubmission`, `AuditBeforeRelease` | `RecordsAreTrue`, `SubmittedIsBacked`, `ReleasedIsAudited` | `AuditInv`: what a request is about to write is true of the click it made |
| `ApprovedContent` | `ClickIsOnApprovedContent` | `ContentInv`: a request past the gates shows content that passed them |
| `Refinement` | `ImplementsToken` | `ClaimInv`, `AuditInv` |

The only assumption is `ConstantsAssumption`. The invariants are needed because
a property speaks of tables and clicks, while the reason it holds is what a
thread has read before; each invariant says that of the program counter.

`PipelineProofs` does the same for `PipelineRun`, for every finite set of jobs,
every bound on the runs and every environment:

| Theorem | Property | Inductive invariant |
|---|---|---|
| `TypeCorrect` | `TypeOK` | `TypeOK` itself |
| `OneRun` | `OneRunAtATime` | `ServiceInv`: a live worker is the one the service holds or one it has lost; a start knows between its check and its spawn that nothing else is busy; pause, resume and cancel write to the only busy run or to an orphan |
| `RecoverySparesOwners` | `RecoveryTouchesNoOwner` | `ServiceInv` and `WaitIsFresh`: the heartbeat of a worker that pauses or waits is fresh |
| `CompletedAccounts` | `CompletedIsCounted` | `CountInv`: every loaded job is counted, on the list or in hand |
| `OnlyClosingStrands` | `StrandedOnlyByClosing` | `JobInv`: while a worker has a job, its row names the job, or was closed over it, or was recovered (`InHands`); the run of a worker the service holds is active until that worker exits, and only exiting workers have completed or failed their run; a cancel that found no process overlooks none but a lost one; every job in progress has a run that answers for it |
| `ServiceRefinement` | `ImplementsService` | all of these, and `ShownInv`: runs are created in order, the run that is launched is the newest, the service holds no process from before a crash, only a start goes on in a shutdown |

Each proof splits a step into the worker's, the service's and the surroundings';
`WorkerFrame`, `WorkerJobs`, `OutsideFrame` and `ServiceRow` say once what each
may change, so the invariants never look into a record again. The refinement looks at
a step through the newest run (`Seen`): a step that does not change which run
that is falls to the worker (`WorkerShown`), a control (`ControlShown`) or the
surroundings (`SurroundingsShown`), and `StartShown` is the one that does. The only
assumption is `PipelineAssumption` (finitely many jobs, at least one run, `None`
is no job). The invariants were model-checked on the configurations of
`pipeline_worker` and `pipeline_runs` before they were proved.

`LiveRunProofs` proves every safety property of `LiveRun`, for every set of
pages and controls, every finite set of questions of any kinds, every set of
modes, every number of steps and every budget:

| Theorem | Property | Inductive invariant |
|---|---|---|
| `TypeCorrect` | `TypeOK` | `TypeInv`: `TypeOK`, and `PhaseInv`: what a pass still has to do is unseen, what the resolver still has to answer is open, and who answered is known only of what is filled |
| `ModelInItsPlace` | `ModelKeepsItsPlace` | `TypeInv` |
| `CompleteReview` | `ReviewIsComplete` | `CountInv`: outside a synthetic run no more required questions are unfilled than the count says, give or take those that became required and were filled |
| `TrueReport` | `ReportIsTrue` | `TraceInv`: what was set on the form in hand is recorded as set, failed or open, and what was set on the forms before is so reported |
| `PlannedMutations` | `MutatedIsPlanned` | `PlanInv`, with `TraceInv`: what was set is in a plan of the form in hand or in the chain, and a pass still sets only what its plan has |

The property of a review is about a count, and a count alone is not inductive:
`CountInv` also says that no required question was skipped and that a question
which took another off the count stays filled. `StepKinds` groups the steps of
the walk by what they leave alone, with one kind, `Handling(f)`, for the steps that
deal with a question; `FillMoves`, `MutateMoves` and `ResolveMoves` say what those
do to its record, its control and the count, so that each invariant is proved
over the kinds of steps and never opens a record. The only assumption is
`LiveRunAssumption`: finitely many questions, kinds and modes that the program
knows, no button called "none", at least one step and a budget of at least one. The
invariants were model-checked on the constants of `live_run` first.

`OrchestrationProofs` proves every safety property of `Orchestration`, for every
finite set of jobs, every number of runs, every size of a batch, all modes and
all surroundings:

| Theorem | Property | Inductive invariant |
|---|---|---|
| `TypeCorrect` | `TypeOK` | `TypeOK` itself |
| `OneActive` | `OneActiveRun` | `OrderAt`: a run that was not overtaken and is active, alive or in a control's hands is the newest |
| `NoneLeftBehind`, `OneProcess` | `NoOrphanChild`, `OneJobHunter` | `ChildAt`: a JobHunter that runs belongs to a live thread and the service holds it, or to a thread that was lost; `StatusAt`: a run that is over has none, unless it was lost before the pid was recorded or the operator gave it up |
| `Driven` | `ActiveHasDriver` | `DriverAt`: a live thread that no control works on drives an active run, or is on its way out |
| `Completed` | `CompletedIsEarned` | `EarnedAt`: what a run must have behind it at each position of its thread |
| `Backed` | `ImportIsBacked` | `BackedAt`: the signatures of the queue file are in order, and a run past `verify` was entitled to pass it |
| `Passes` | `PassesBounded` | `PassAt`: every pass before the present one took a whole batch out of the targets |
| `OverStays` | `OverIsOver` | `Inv`, for `Apart`: a thread writes only the row of its own run, and only while it is alive |
| `WithinContract` | that every behaviour keeps the contract `PipelineService` | none: each step is a step of the contract or leaves the pipeline as it is |

`ServiceRefinement` and `WithinContract` meet in the contract: what `PipelineRun`
does to its newest run is an action of `PipelineService`, and nothing that
`Orchestration` does to that run is anything else.

The properties share one invariant, `Inv`, because its parts lean on each other:
that a run imports only behind its own JobHunter needs that no other run holds
the runner, which needs that at most one run is active, which needs that a thread
writes no active status once its run is over. `Inv` is `ControlInv`, about the
control that holds the lock, and `RunInv(o)` for each run. A step concerns one
run: there is one lemma for each action of a thread, which proves `RunSafe` of
its own run (`LaunchStep`, `TallyStep`, ...), and `BystanderKeeps` proves it of
all others; only `Start`, the cancel, `Down` and `Startup` need an argument
about several runs (`LeftBehind`, `CancelsOthers`). The only assumption is
`OrchestrationAssumption` (finitely many jobs, at least one run, a batch of at
least one). All parts were model-checked before they were proved, on instances
of one and of two runs that cover every surrounding.

`InterventionsProofs` proves every property of `Interventions` that the passing
run checks, for every finite set of jobs and of questions, any number of retry
requests and whoever acts:

| Theorem | Property | Inductive invariant |
|---|---|---|
| `TypeCorrect` | `TypeOK` | `TypeInv`: `TypeOK`, and an attempt that has not looked at its job has asked nothing |
| `Decisions` | `DecisionsStand` | `SeenInv`: what a transaction read without a lock still tells whether the row exists, though no more what the user made of it; by `AskedEffect` only the steps of `Redecides` touch a decided row |
| `DecidedReview` | `ReadyIsDecided` | `ReadyInv`: the fields an attempt left open are asked before they are counted, and after the count none of them is pending |
| `Lifecycle` | `JobsFollowLifecycle` | none but `TypeInv`: by `JobEffect` every write is an upsert, which moves along an edge, or a retry's |
| `ImportRecord` | `ImportRecordHolds` | `ImportInv`: an import counts every line as imported or skipped, has counted at least as many as the jobs it committed, and no job loses its row |

`JobEffect` and `AskedEffect` say once what a step may do to a job and to an
intervention, whoever takes it; the theorems about steps follow from the two.
The only assumption is `InterventionsAssumption`. The invariants were
model-checked on the constants of `interventions_attempts` first.

Only model-checked: `ClaimIsAudited`, `WaitingWorkerObeys`, `WorkerHalts`,
`ThreadEnds` and `Ends`. They are the liveness properties, and what follows from
fairness is out of the prover's reach. The properties of the runs that expect a
violation are claims of the documentation that do not hold.

## 6. Plan

1. Done: `JobStatus`, `SubmitToken`, `Submission`, `PipelineRun`,
   `Orchestration`, `Interventions` and `LiveRun`, with proofs of every safety
   and action property that a passing run checks.
   So is the contract `PipelineService`, the proof that `PipelineRun`
   implements it, and `Orchestration` on top of it.
2. The refinement of the action `LiveRun` in `Interventions` by `LiveRun`.

Not modelled, and why: `PROJECT.json` gives the reason for every component. The
extraction of a page's schema, the text rules that classify controls and
questions, and the selectors of the adapters are pattern matching without
state; the models leave their verdict open, which covers every outcome. Profile
parsing, logging, health routes and the dashboard have no control state.
