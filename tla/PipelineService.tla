--------------------------- MODULE PipelineService ---------------------------
(***************************************************************************)
(* What the pipeline service shows of its newest run (get_state_dict), and *)
(* nothing about how: a run is started when none is running, its worker    *)
(* ends it once, and a run that is over runs again only behind a control   *)
(* that read it before its end, or behind a worker that the service has    *)
(* lost to a crash or a shutdown.                                          *)
(***************************************************************************)

VARIABLES
  up,         \* the process of the service
  status,     \* of the newest run; a paused run is running
  alive,      \* its worker is at work
  stray,      \* the service that started its worker has lost it
  asked       \* a control is between its read and its write of the run

serviceVars == <<up, status, alive, stray, asked>>

ServiceInit ==
  /\ up = TRUE
  /\ status = "idle"
  /\ alive = FALSE /\ stray = FALSE /\ asked = FALSE

(* A start has found no run active; a stray worker may have written since. *)
StartRun ==
  /\ up /\ ~asked
  /\ status # "running" \/ stray
  /\ status' = "running" /\ alive' = TRUE /\ stray' = FALSE
  /\ UNCHANGED <<up, asked>>

LaunchFails ==
  /\ up /\ status = "running" /\ ~stray
  /\ status' = "failed" /\ alive' = FALSE
  /\ UNCHANGED <<up, stray, asked>>

Ask ==
  /\ up /\ ~asked /\ status = "running"
  /\ asked' = TRUE
  /\ UNCHANGED <<up, status, alive, stray>>

(* A control decides on what it has read: a worker of this service will    *)
(* end its run, and may have done so by now; without one the run is over.  *)
Answer ==
  /\ up /\ asked
  /\ \/ ~stray /\ status' = "running"
     \/ (stray \/ ~alive) /\ status' = "cancelled"
  /\ asked' = FALSE
  /\ UNCHANGED <<up, alive, stray>>

EndRun(s) ==
  /\ alive /\ (status = "running" \/ stray)
  /\ status' = s /\ alive' = FALSE
  /\ UNCHANGED <<up, stray, asked>>

(* A stray worker pauses or resumes by what it read before its run was     *)
(* taken from it.                                                          *)
Revive ==
  /\ alive /\ stray
  /\ status' = "running"
  /\ UNCHANGED <<up, alive, stray, asked>>

Die ==
  /\ alive
  /\ alive' = FALSE
  /\ UNCHANGED <<up, status, stray, asked>>

(* A shutdown ends the worker it holds, and then lets go of the one that a *)
(* start has launched meanwhile.                                           *)
Lose ==
  /\ up /\ ~asked
  /\ stray' = TRUE
  /\ UNCHANGED <<up, status, alive, asked>>

(* The process goes down, and a start that was about to launch with it.    *)
GoDown ==
  /\ up /\ up' = FALSE
  /\ \/ stray' = TRUE /\ UNCHANGED alive
     \/ ~(alive /\ stray) /\ alive' = FALSE /\ UNCHANGED stray
  /\ asked' = FALSE
  /\ UNCHANGED status

ComeUp ==
  /\ ~up /\ up' = TRUE
  /\ status' = status \/ (status = "running" /\ status' = "recovered")
  /\ UNCHANGED <<alive, stray, asked>>

ServiceNext ==
  \/ StartRun \/ LaunchFails \/ Ask \/ Answer
  \/ \E s \in {"completed", "failed", "cancelled"} : EndRun(s)
  \/ Revive \/ Die \/ Lose \/ GoDown \/ ComeUp

ServiceSpec == ServiceInit /\ [][ServiceNext]_serviceVars
=============================================================================
