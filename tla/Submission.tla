----------------------------- MODULE Submission -----------------------------
(***************************************************************************)
(* Controlled final submission: the approval, claim and result tables      *)
(* (submission/store.py), the gates and the click                          *)
(* (submission/coordinator.py), the service that runs one request          *)
(* (submission/execution_service.py), and the routes that drive it         *)
(* (api/routes/submit.py).                                                 *)
(*                                                                         *)
(* A request is served by a thread of its own.  SQLite lets every SELECT   *)
(* see the last commit and takes the write lock at the first write, so a   *)
(* transaction that reads and then writes is two steps here: the reads,    *)
(* and later the write with what was read.  Everything but the tables is   *)
(* lost when the process restarts.                                         *)
(***************************************************************************)
EXTENDS Naturals, FiniteSets, JobStatus

CONSTANTS
  App,        \* applications
  Snap,       \* contents a live form can have, one per snapshot hash
  Clean,      \* contents with no unresolved field
  Risky,      \* contents with a field that needs explicit confirmation
  Attempt,    \* submit requests, one id per request
  Observer,   \* observe requests, one id per request
  Path,       \* entry points in use: "service" and/or "direct"
  Env,        \* the surroundings that act, out of Surroundings
  None        \* no attempt, approval or snapshot

Surroundings == {"approve", "jobs", "interventions", "restart"}

(* The snapshots the gates call complete or risky are snapshots; the ids   *)
(* are distinguishable from their absence.                                 *)
ASSUME ConstantsAssumption ==
  /\ Clean \subseteq Snap
  /\ Risky \subseteq Snap
  /\ Path \subseteq {"service", "direct"}
  /\ Env \subseteq Surroundings
  /\ None \notin Attempt \cup Snap \cup (App \X Snap)

VARIABLES
  enabled,    \* settings.enable_real_submission of the running process
  approval,   \* submission_approvals: absent, active, revoked or consumed
  confirmed,  \* approvals whose high-risk fields the user confirmed
  claim,      \* submission_claims: the attempt that inserted the row
  released,   \* approvals whose claim row has consumed_at set
  result,     \* submission_results
  job,        \* application_jobs.status
  pending,    \* applications with a pending intervention
  clock,      \* time stamps for attempted_at
  att,        \* the threads that serve submit requests
  obs,        \* the threads that serve observe requests
  clicked,    \* history: attempts whose click reached the real site
  endorsed    \* history: approvals the approve endpoint answered 200 for

vars == <<enabled, approval, confirmed, claim, released, result, job,
          pending, clock, att, obs, clicked, endorsed>>

tables == <<approval, confirmed, claim, released, result, job, pending>>

(***************************************************************************)
(* Values.                                                                 *)
(***************************************************************************)

(* create_approval derives the primary key from application and snapshot,  *)
(* so an approval is that pair.                                            *)
Approval == App \X Snap

Positive == {"submitted_confirmed", "validation_failed", "blocked_user_action"}
Neutral == {"approval_stale", "submission_not_allowed", "outcome_unknown",
            "submit_control_ambiguous", "already_submitted"}
ResultState == Positive \cup Neutral

ResultRow == [state : ResultState \cup {"none"}, clicked : BOOLEAN, at : Nat]
NoResult == [state |-> "none", clicked |-> FALSE, at |-> 0]

AttemptPc == {"idle", "claim", "insert", "open", "gates", "click", "confirm",
              "commit", "done", "error", "lost", "dead"}
AttemptRow ==
  [pc : AttemptPc, path : {"service", "direct"},
   ap : Approval \cup {None}, snap : Snap \cup {None},
   out : ResultState \cup {"none"}, flag : BOOLEAN, at : Nat,
   exists : BOOLEAN, job : Status, release : BOOLEAN]
IdleAttempt ==
  [pc |-> "idle", path |-> "service", ap |-> None, snap |-> None,
   out |-> "none", flag |-> FALSE, at |-> 0,
   exists |-> FALSE, job |-> "review_ready", release |-> FALSE]

ObserverRow ==
  [pc : {"idle", "write", "done", "failed", "dead"},
   ap : Approval \cup {None}, stale : SUBSET Approval]
IdleObserver == [pc |-> "idle", ap |-> None, stale |-> {}]

(***************************************************************************)
(* Queries of the store.                                                   *)
(***************************************************************************)

ActiveOf(a) == {ap \in Approval : ap[1] = a /\ approval[ap] = "active"}

(* get_active_approval ends in scalar_one_or_none: with two rows it raises.*)
TooMany(a) == \E p, q \in ActiveOf(a) : p # q

Recorded(a) == {ap \in Approval : ap[1] = a /\ result[ap].state # "none"}

(* get_latest_result(a).state = s *)
LatestIs(a, s) ==
  \E ap \in Recorded(a) :
    /\ result[ap].state = s
    /\ \A other \in Recorded(a) : result[other].at =< result[ap].at

UnconsumedClaim(a) ==
  \E ap \in Approval : ap[1] = a /\ claim[ap] # None /\ ap \notin released

(* Gate 1, the kill switch, and what remains of it when it is dropped.     *)
MutantNoSwitch == FALSE
SwitchedOff == ~enabled

(* Gate 4c: a high-risk answer lacks the user's confirmation.              *)
MutantNoConfirmation(a, s) == FALSE
Unconfirmed(a, s) == s \in Risky /\ <<a, s>> \notin confirmed

(* check_gates, in its order; "allowed" when every gate passes.  The page  *)
(* shows snapshot s; the claim gate is skipped on the service path.        *)
GateVerdict(a, s, skipClaim) ==
  IF SwitchedOff \/ ActiveOf(a) = {} THEN "submission_not_allowed"
  ELSE IF <<a, s>> \notin ActiveOf(a) THEN "approval_stale"
  ELSE IF \/ a \in pending
          \/ s \notin Clean
          \/ Unconfirmed(a, s)
          \/ ~skipClaim /\ UnconsumedClaim(a)
       THEN "submission_not_allowed"
  ELSE IF LatestIs(a, "outcome_unknown") THEN "outcome_unknown"
  ELSE IF LatestIs(a, "submitted_confirmed") \/ job[a] \in {"submitted", "applied"}
       THEN "already_submitted"
  ELSE "allowed"

(***************************************************************************)
(* Initial state: a fresh database with jobs the pipeline left for review  *)
(* or has not processed yet.                                               *)
(***************************************************************************)
Init ==
  /\ enabled \in BOOLEAN
  /\ approval = [ap \in Approval |-> "absent"]
  /\ confirmed = {}
  /\ claim = [ap \in Approval |-> None]
  /\ released = {}
  /\ result = [ap \in Approval |-> NoResult]
  /\ job \in [App -> IF "jobs" \in Env THEN {"ready_to_apply", "review_ready"}
                                     ELSE {"review_ready"}]
  /\ pending = {}
  /\ clock = 0
  /\ att = [r \in Attempt |-> IdleAttempt]
  /\ obs = [o \in Observer |-> IdleObserver]
  /\ clicked = {}
  /\ endorsed = {}

(***************************************************************************)
(* observe_and_persist_snapshot.  The browser shows snapshot s.  A row     *)
(* that is active for s is reused; otherwise the other active rows are     *)
(* noted, and revoked in the transaction that inserts the new one.         *)
(***************************************************************************)
ObserveRead(o, ap) ==
  /\ obs[o].pc = "idle"
  /\ obs' = [obs EXCEPT ![o] =
       IF approval[ap] = "active"
       THEN [pc |-> "done", ap |-> ap, stale |-> {}]
       ELSE [pc |-> "write", ap |-> ap, stale |-> ActiveOf(ap[1])]]
  /\ UNCHANGED <<tables, enabled, clock, att, clicked, endorsed>>

(* Mutant: the update forgets that a noted row may be consumed by now.     *)
MutantRevokedAll(S) ==
  [ap \in Approval |-> IF ap \in S THEN "revoked" ELSE approval[ap]]

RevokedAll(S) ==
  [ap \in Approval |->
     IF ap \in S /\ approval[ap] # "consumed" THEN "revoked" ELSE approval[ap]]

(* The insert fails when the primary key was ever used, whatever became of *)
(* that approval; then the revocations are rolled back with it.            *)
ObserveWrite(o) ==
  /\ obs[o].pc = "write"
  /\ IF approval[obs[o].ap] = "absent"
     THEN /\ approval' = [RevokedAll(obs[o].stale) EXCEPT ![obs[o].ap] = "active"]
          /\ obs' = [obs EXCEPT ![o].pc = "done", ![o].stale = {}]
     ELSE /\ obs' = [obs EXCEPT ![o].pc = "failed", ![o].stale = {}]
          /\ UNCHANGED approval
  /\ UNCHANGED <<enabled, confirmed, claim, released, result, job, pending,
                 clock, att, clicked, endorsed>>

(***************************************************************************)
(* The routes a reviewer uses.  Each needs the one active approval.        *)
(***************************************************************************)
ConfirmHighRisk(ap) ==
  /\ ActiveOf(ap[1]) = {ap}
  /\ ap[2] \in Risky
  /\ confirmed' = confirmed \cup {ap}
  /\ UNCHANGED <<enabled, approval, claim, released, result, job, pending,
                 clock, att, obs, clicked, endorsed>>

(* approve_snapshot_endpoint validates and answers; it writes nothing.     *)
Approve(ap) ==
  /\ "approve" \in Env
  /\ ActiveOf(ap[1]) = {ap}
  /\ ap[2] \in Clean
  /\ ap[1] \notin pending
  /\ ap[2] \in Risky => ap \in confirmed
  /\ endorsed' = endorsed \cup {ap}
  /\ UNCHANGED <<tables, enabled, clock, att, obs, clicked>>

Revoke(ap) ==
  /\ ActiveOf(ap[1]) = {ap}
  /\ approval' = [approval EXCEPT ![ap] = "revoked"]
  /\ UNCHANGED <<enabled, confirmed, claim, released, result, job, pending,
                 clock, att, obs, clicked, endorsed>>

(***************************************************************************)
(* A submit request.                                                       *)
(***************************************************************************)

(* Mutant: a refusal returns without record_result.                        *)
MutantSettle(r, row, out, flag, release) ==
  /\ clock' = clock + 1
  /\ att' = [att EXCEPT ![r] =
       [row EXCEPT !.pc = IF out = "submission_not_allowed" THEN "done" ELSE "commit",
                   !.out = out, !.flag = flag, !.release = release,
                   !.at = clock + 1,
                   !.exists = result[row.ap].state # "none",
                   !.job = job[row.ap[1]]]]

(* The SubmissionResult is built and stamped, and record_result reads what *)
(* it decides on: an existing row, and the status of the job.              *)
Settle(r, row, out, flag, release) ==
  /\ clock' = clock + 1
  /\ att' = [att EXCEPT ![r] =
       [row EXCEPT !.pc = "commit", !.out = out, !.flag = flag,
                   !.release = release, !.at = clock + 1,
                   !.exists = result[row.ap].state # "none",
                   !.job = job[row.ap[1]]]]

(* Raising to the route: HTTP 500, nothing recorded.  The mutant loses the *)
(* request with the exception.                                             *)
MutantFail(r, pc) ==
  /\ att' = [att EXCEPT ![r] = [IdleAttempt EXCEPT !.pc = pc]]
  /\ UNCHANGED clock

Fail(r, pc) ==
  /\ att' = [att EXCEPT ![r].pc = pc]
  /\ UNCHANGED clock

(* The client names an approval it was given by an observe.                *)
Begin(r, ap, path) ==
  /\ att[r].pc = "idle"
  /\ approval[ap] # "absent"
  /\ LET row == [IdleAttempt EXCEPT !.ap = ap, !.path = path]
     IN  IF path = "direct"
         THEN \E s \in Snap :
                /\ att' = [att EXCEPT ![r] = [row EXCEPT !.pc = "gates", !.snap = s]]
                /\ UNCHANGED clock
         ELSE IF enabled
         THEN /\ att' = [att EXCEPT ![r] = [row EXCEPT !.pc = "claim"]]
              /\ UNCHANGED clock
         ELSE Settle(r, row, "submission_not_allowed", FALSE, FALSE)
  /\ UNCHANGED <<tables, enabled, obs, clicked, endorsed>>

(* Before the insert: the active approval must be the requested one and no *)
(* claim row may exist.                                                    *)
ClaimRead(r) ==
  /\ att[r].pc = "claim"
  /\ LET ap == att[r].ap
     IN  IF TooMany(ap[1]) THEN Fail(r, "error")
         ELSE IF ActiveOf(ap[1]) # {ap} \/ claim[ap] # None
         THEN Settle(r, att[r], "submission_not_allowed", FALSE, FALSE)
         ELSE /\ att' = [att EXCEPT ![r].pc = "insert"]
              /\ UNCHANGED clock
  /\ UNCHANGED <<tables, enabled, obs, clicked, endorsed>>

(* UNIQUE (approval_id) on submission_claims; the mutant has no constraint.*)
MutantClaimFree(ap) == TRUE
ClaimFree(ap) == claim[ap] = None

ClaimInsert(r) ==
  /\ att[r].pc = "insert"
  /\ LET ap == att[r].ap
     IN  IF ClaimFree(ap)
         THEN /\ claim' = [claim EXCEPT ![ap] = r]
              /\ att' = [att EXCEPT ![r].pc =
                           IF att[r].path = "service" THEN "open" ELSE "click"]
              /\ UNCHANGED clock
         ELSE /\ Settle(r, att[r], "submission_not_allowed", FALSE, FALSE)
              /\ UNCHANGED claim
  /\ UNCHANGED <<enabled, approval, confirmed, released, result, job, pending,
                 obs, clicked, endorsed>>

(* The browser thread fills the form again and reads the page.             *)
OpenPage(r) ==
  /\ att[r].pc = "open"
  /\ \/ \E s \in Snap :
          /\ att' = [att EXCEPT ![r].pc = "gates", ![r].snap = s]
          /\ UNCHANGED clock
     \/ Settle(r, att[r], "submit_control_ambiguous", FALSE, FALSE)
  /\ UNCHANGED <<tables, enabled, obs, clicked, endorsed>>

(* No browser context, or an error before the click: the claim is released *)
(* with the result.  An error of create_context that comes after the       *)
(* request stopped waiting (join timeout) is recorded by nobody.           *)
OpenFails(r) ==
  /\ att[r].pc = "open"
  /\ \/ \E out \in {"submission_not_allowed", "outcome_unknown"} :
          Settle(r, att[r], out, FALSE, TRUE)
     \/ Fail(r, "lost")
  /\ UNCHANGED <<tables, enabled, obs, clicked, endorsed>>

(* check_gates.  A raise is caught by the browser thread on the service    *)
(* path and reaches the caller on the direct path.                         *)
Gates(r) ==
  /\ att[r].pc = "gates"
  /\ LET row     == att[r]
         service == row.path = "service"
         verdict == GateVerdict(row.ap[1], row.snap, service)
     IN  IF enabled /\ TooMany(row.ap[1])
         THEN IF service THEN Settle(r, row, "outcome_unknown", FALSE, TRUE)
                         ELSE Fail(r, "error")
         ELSE IF verdict = "allowed"
         THEN /\ att' = [att EXCEPT ![r].pc = IF service THEN "click" ELSE "claim"]
              /\ UNCHANGED clock
         ELSE Settle(r, row, verdict, FALSE, FALSE)
  /\ UNCHANGED <<tables, enabled, obs, clicked, endorsed>>

(* The submit control is located again; it may be gone, doubled, disabled, *)
(* or the browser may have left the approved URL.                          *)
ControlGone(r) ==
  /\ att[r].pc = "click"
  /\ \E out \in {"submit_control_ambiguous", "approval_stale"} :
       Settle(r, att[r], out, FALSE, att[r].path = "direct")
  /\ UNCHANGED <<tables, enabled, obs, clicked, endorsed>>

(* locator.click returned: the click was delivered.                        *)
Click(r) ==
  /\ att[r].pc = "click"
  /\ clicked' = clicked \cup {r}
  /\ att' = [att EXCEPT ![r].pc = "confirm"]
  /\ UNCHANGED <<tables, enabled, clock, obs, endorsed>>

(* locator.click raised: the click may or may not have been delivered.     *)
ClickFails(r) ==
  /\ att[r].pc = "click"
  /\ \/ clicked' = clicked \cup {r}
     \/ UNCHANGED clicked
  /\ Settle(r, att[r], "outcome_unknown", FALSE, att[r].path = "direct")
  /\ UNCHANGED <<tables, enabled, obs, endorsed>>

(* _wait_for_confirmation and the validation errors found after it.        *)
Confirm(r) ==
  /\ att[r].pc = "confirm"
  /\ \E out \in Positive \cup {"outcome_unknown"} :
       Settle(r, att[r], out, TRUE, att[r].path = "direct")
  /\ UNCHANGED <<tables, enabled, obs, clicked, endorsed>>

(* UNIQUE (approval_id) on submission_results; the mutants drop it or put  *)
(* it on the application.                                                  *)
MutantResultFree(ap) == TRUE
MutantResultFreeOfApplication(ap) == Recorded(ap[1]) = {}
ResultFree(ap) == result[ap].state = "none"

(* The claim and the approval are consumed with the result; the mutant     *)
(* consumes the approval whether or not the click was delivered.           *)
ReleasedBy(row) == IF row.release THEN {row.ap} ELSE {}

MutantConsumedBy(row) == [approval EXCEPT ![row.ap] = "consumed"]

ConsumedBy(row) ==
  IF row.flag THEN [approval EXCEPT ![row.ap] = "consumed"] ELSE approval

(* The write of record_result, consume_claim and consume_approval.  A row  *)
(* that was read, or that made the insert fail, wins: then neither result  *)
(* nor job status changes.                                                 *)
Commit(r) ==
  /\ att[r].pc = "commit"
  /\ LET row == att[r]
     IN  /\ IF ~row.exists /\ ResultFree(row.ap)
            THEN /\ result' = [result EXCEPT ![row.ap] =
                      [state |-> row.out, clicked |-> row.flag, at |-> row.at]]
                 /\ job' = [job EXCEPT ![row.ap[1]] =
                      LET new == AfterResult(row.job, row.out, FALSE)
                      IN  IF new = row.job THEN @ ELSE new]
            ELSE UNCHANGED <<result, job>>
         /\ released' = released \cup ReleasedBy(row)
         /\ approval' = ConsumedBy(row)
  /\ att' = [att EXCEPT ![r].pc = "done"]
  /\ UNCHANGED <<enabled, confirmed, claim, pending, clock, obs, clicked, endorsed>>

(***************************************************************************)
(* The rest of the system, as far as the gates see it.                     *)
(***************************************************************************)

(* retry_job *)
Retry(a) ==
  /\ "jobs" \in Env
  /\ job[a] \notin TerminalStatus
  /\ "queued" \in Allowed(job[a])
  /\ job[a] = "needs_user_input" => a \notin pending
  /\ job' = [job EXCEPT ![a] = "queued"]
  /\ UNCHANGED <<enabled, approval, confirmed, claim, released, result, pending,
                 clock, att, obs, clicked, endorsed>>

(* The pipeline worker processes a job and leaves it for the user.         *)
Pipeline(a, s) ==
  /\ "jobs" \in Env
  /\ \/ job[a] \in {"ready_to_apply", "queued"} /\ s = "in_progress"
     \/ job[a] = "in_progress"
        /\ s \in {"needs_user_input", "review_ready", "failed", "needs_review"}
  /\ job' = [job EXCEPT ![a] = Upserted(job[a], s)]
  /\ UNCHANGED <<enabled, approval, confirmed, claim, released, result, pending,
                 clock, att, obs, clicked, endorsed>>

Intervene(a) ==
  /\ "interventions" \in Env
  /\ pending' = pending \cup {a}
  /\ UNCHANGED <<enabled, approval, confirmed, claim, released, result, job,
                 clock, att, obs, clicked, endorsed>>

Resolve(a) ==
  /\ "interventions" \in Env
  /\ pending' = pending \ {a}
  /\ UNCHANGED <<enabled, approval, confirmed, claim, released, result, job,
                 clock, att, obs, clicked, endorsed>>

(* The process dies at any point and comes up with the settings of then.   *)
Restart ==
  /\ "restart" \in Env
  /\ enabled' \in BOOLEAN
  /\ att' = [r \in Attempt |->
       IF att[r].pc \in {"idle", "done", "error", "lost", "dead"} THEN att[r]
       ELSE [att[r] EXCEPT !.pc = "dead"]]
  /\ obs' = [o \in Observer |->
       IF obs[o].pc = "write" THEN [obs[o] EXCEPT !.pc = "dead", !.stale = {}]
       ELSE obs[o]]
  /\ UNCHANGED <<tables, clock, clicked, endorsed>>

(***************************************************************************)
(* The specification.  A request that was begun is served to its end: every*)
(* browser call has a timeout and the scheduler runs every thread.         *)
(***************************************************************************)
Serve(r) ==
  \/ ClaimRead(r) \/ ClaimInsert(r) \/ OpenPage(r) \/ OpenFails(r) \/ Gates(r)
  \/ ControlGone(r) \/ Click(r) \/ ClickFails(r) \/ Confirm(r) \/ Commit(r)

Next ==
  \/ \E r \in Attempt : Serve(r)
  \/ \E r \in Attempt, ap \in Approval, path \in Path : Begin(r, ap, path)
  \/ \E o \in Observer, ap \in Approval : ObserveRead(o, ap)
  \/ \E o \in Observer : ObserveWrite(o)
  \/ \E ap \in Approval : ConfirmHighRisk(ap) \/ Approve(ap) \/ Revoke(ap)
  \/ \E a \in App : Retry(a) \/ Intervene(a) \/ Resolve(a)
  \/ \E a \in App, s \in Status : Pipeline(a, s)
  \/ Restart

Spec == Init /\ [][Next]_vars

FairSpec == Spec /\ \A r \in Attempt : WF_vars(Serve(r))

(***************************************************************************)
(* What must hold.                                                         *)
(***************************************************************************)

(* Every variable has its type, and a thread past the route has its        *)
(* request: the rows the store and the two services keep.                  *)
TypeOK ==
  /\ enabled \in BOOLEAN
  /\ approval \in [Approval -> {"absent", "active", "revoked", "consumed"}]
  /\ confirmed \subseteq Approval
  /\ claim \in [Approval -> Attempt \cup {None}]
  /\ released \subseteq Approval
  /\ result \in [Approval -> ResultRow]
  /\ job \in [App -> Status]
  /\ pending \subseteq App
  /\ clock \in Nat
  /\ att \in [Attempt -> AttemptRow]
  /\ \A r \in Attempt : att[r].pc # "idle" => att[r].ap \in Approval
  /\ obs \in [Observer -> ObserverRow]
  /\ \A o \in Observer : obs[o].pc = "write" => obs[o].ap \in Approval
  /\ clicked \subseteq Attempt
  /\ endorsed \subseteq Approval

(* A request that has gone past the claim, to a browser of its own.        *)
InBrowser(r) ==
  \/ att[r].pc \in {"open", "click", "confirm"}
  \/ att[r].pc = "gates" /\ att[r].path = "service"

(* An approval is good for one request: whatever requests race for it and  *)
(* wherever the process dies, the real submit control is clicked once, and *)
(* only the request that clicks ever opens a browser (acquire_claim,       *)
(* execute_controlled_submission, execute_submission).                     *)
OneRequestPerApproval ==
  \A p, q \in Attempt :
    /\ p \in clicked \/ InBrowser(p)
    /\ q \in clicked \/ InBrowser(q)
    /\ att[p].ap = att[q].ap
    => p = q

WasClicked(ap) == \E r \in clicked : att[r].ap = ap

(* What the tables say happened did happen: a row that says clicked, or    *)
(* whose state only a click explains, and a consumed approval are of a     *)
(* delivered click (record_result, consume_approval).                      *)
RecordsAreTrue ==
  \A ap \in Approval :
    \/ result[ap].clicked
    \/ result[ap].state \in Positive
    \/ approval[ap] = "consumed"
    => WasClicked(ap)

(* What is clicked was shown to the user: the content the browser filled   *)
(* in is complete, was the content of an approval of this application, and *)
(* the user confirmed it when it is risky (gates 3, 5 and 6).              *)
ClickIsOnApprovedContent ==
  \A r \in clicked :
    LET shown == <<att[r].ap[1], att[r].snap>>
    IN  /\ att[r].snap \in Clean
        /\ approval[shown] # "absent"
        /\ att[r].snap \in Risky => shown \in confirmed

(* A job is submitted only when a durable, confirmed result of a delivered *)
(* click says so (apply_result_status_transition inside record_result).    *)
SubmittedIsBacked ==
  \A a \in App : job[a] \in {"submitted", "applied"} =>
    \E s \in Snap :
      result[<<a, s>>].state = "submitted_confirmed" /\ WasClicked(<<a, s>>)

(* Nothing is released or consumed before its outcome is on record, even   *)
(* when the process dies between any two steps.                            *)
ReleasedIsAudited ==
  \A ap \in Approval :
    ap \in released \/ approval[ap] = "consumed" => result[ap].state # "none"

(* Records are final: a result row is never rewritten, a claim never gets  *)
(* a new owner, a consumed approval stays consumed and a revoked one never *)
(* becomes active again, across requests and restarts.                     *)
RecordsAreFinal ==
  [][\A ap \in Approval :
       /\ result[ap].state # "none" => result'[ap] = result[ap]
       /\ claim[ap] # None => claim'[ap] = claim[ap]
       /\ approval[ap] = "consumed" => approval'[ap] = "consumed"
       /\ approval[ap] = "revoked" => approval'[ap] # "active"]_vars

(* The kill switch holds for the whole life of a process: no thread that   *)
(* started under another setting survives to click (gate 1).               *)
NoClickWhenDisabled == [][clicked' # clicked => enabled]_vars

(* A request that took the claim leaves its own outcome on record, unless  *)
(* the process died, its browser thread failed after nobody waited for it, *)
(* or another request, which clicked nothing, had its refusal recorded     *)
(* before: record_result returns that row, and what the claimed request    *)
(* did, a click included, is told by none.                                 *)
Told(r, ap) ==
  /\ att[r].ap = ap /\ result[ap].state # "none"
  /\ result[ap] = [state |-> att[r].out, clicked |-> att[r].flag, at |-> att[r].at]

ClaimIsAudited ==
  \A ap \in Approval, r \in Attempt :
    claim[ap] = r ~>
      \/ Told(r, ap)
      \/ \E q \in Attempt \ {r} : q \notin clicked /\ Told(q, ap)
      \/ att[r].pc \in {"dead", "lost"}

(* The tables implement the one-shot token of SubmitToken.                 *)
Stage == [ap \in Approval |->
  IF WasClicked(ap) THEN "spent" ELSE IF claim[ap] # None THEN "held" ELSE "free"]
Outcome == [ap \in Approval |-> result[ap].state]

Tokens == INSTANCE SubmitToken
  WITH Token <- Approval, stage <- Stage, outcome <- Outcome

ImplementsToken == Tokens!TokenSpec

(***************************************************************************)
(* What the documentation says and the code does not do.                   *)
(***************************************************************************)

(* "No previous consumed claim with outcome outcome_unknown": a request    *)
(* whose gates pass has no unknown outcome on record for its application.  *)
NoPassAfterUnknown ==
  [][\A r \in Attempt :
       att[r].pc = "gates" /\ att'[r].pc \in {"click", "claim"} =>
         \A ap \in Recorded(att[r].ap[1]) : result[ap].state # "outcome_unknown"]_vars

(* "The snapshot is NOT approved - the user must explicitly approve it".   *)
ClicksAreEndorsed == \A r \in clicked : att[r].ap \in endorsed
=============================================================================
