----------------------------- MODULE JobStatus -----------------------------
(***************************************************************************)
(* The lifecycle of an application job (core/statuses.py) and the two ways *)
(* the repository moves a job along it (persistence/job_repository.py):    *)
(* upsert_application_job silently keeps the old status when the edge is   *)
(* not allowed, update_application_status raises.  The post-submission     *)
(* table of submission/status_transitions.py is here too, because it is    *)
(* keyed on the same statuses.                                             *)
(***************************************************************************)

Status ==
  {"discovered", "evaluated", "rejected", "tailored", "ready_to_apply",
   "queued", "in_progress", "needs_user_input", "review_ready", "submitted",
   "needs_review", "applied", "failed", "skipped", "closed", "blocked"}

TerminalStatus == {"applied", "rejected", "skipped", "closed"}

(* ALLOWED_TRANSITIONS: the statuses a job may move to from s.             *)
Allowed(s) ==
  CASE s = "discovered"       -> {"evaluated"}
    [] s = "evaluated"        -> {"rejected", "tailored"}
    [] s = "tailored"         -> {"ready_to_apply"}
    [] s = "ready_to_apply"   -> {"queued", "in_progress"}
    [] s = "queued"           -> {"in_progress", "skipped"}
    [] s = "in_progress"      -> {"needs_user_input", "review_ready",
                                  "failed", "needs_review"}
    [] s = "needs_user_input" -> {"in_progress", "queued"}
    [] s = "review_ready"     -> {"submitted", "needs_review"}
    [] s = "submitted"        -> {"applied", "needs_review"}
    [] s \in {"needs_review", "failed", "blocked"} -> {"queued"}
    [] OTHER                  -> {}

(* The status a job has after upsert_application_job was given the status  *)
(* new: terminal statuses and edges that are not allowed keep the old one. *)
Upserted(old, new) ==
  IF old \notin TerminalStatus /\ new \in Allowed(old) THEN new ELSE old

(* Mutant: whatever came after a click counts as submitted.                *)
MutantResultTarget(state, ref) ==
  CASE state \in {"submitted_confirmed", "validation_failed"} -> "submitted"
    [] state = "outcome_unknown" -> "needs_review"
    [] OTHER -> "none"

(* target_status_for_result: what a result asks of the job ("none" when    *)
(* it must not move it).  ref: a structured ATS reference came with it.    *)
ResultTarget(state, ref) ==
  CASE state = "submitted_confirmed" /\ ref  -> "applied"
    [] state = "submitted_confirmed" /\ ~ref -> "submitted"
    [] state = "outcome_unknown"             -> "needs_review"
    [] OTHER                                 -> "none"

(* The keys of POST_SUBMIT_TRANSITIONS: the moves a result may make.       *)
PostSubmitEdge ==
  {<<"review_ready", "submitted">>, <<"review_ready", "applied">>,
   <<"review_ready", "needs_review">>, <<"submitted", "applied">>,
   <<"submitted", "needs_review">>}

(* apply_result_status_transition: the status of a job after a result.     *)
AfterResult(status, state, ref) ==
  LET target == ResultTarget(state, ref)
  IN  IF <<status, target>> \in PostSubmitEdge THEN target ELSE status
=============================================================================
