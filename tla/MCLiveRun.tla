----------------------------- MODULE MCLiveRun -----------------------------
(* LiveRun for TLC: one question for each way the code tells them apart.   *)
EXTENDS LiveRun

Mappable == [required |-> TRUE, control |-> "plain", risk |-> "low", map |-> "sure",
             source |-> "declared", fits |-> TRUE, valid |-> TRUE, said |-> "nothing", usable |-> FALSE]
Asked == [Mappable EXCEPT !.map = "none", !.risk = "medium", !.said = "no"]

(* A question the mapping answers, required or not, one it is unsure of,   *)
(* one whose value does not fit, one no plan takes; and one it has nothing *)
(* for, where what the user said cannot be used, or can, one of high risk, *)
(* and a password.                                                         *)
MCKinds ==
  {Mappable, [Mappable EXCEPT !.required = FALSE],
   [Mappable EXCEPT !.map = "weak"],
   [Mappable EXCEPT !.fits = FALSE, !.valid = FALSE, !.risk = "medium", !.required = FALSE],
   [Mappable EXCEPT !.source = "foreign", !.said = "yes", !.usable = TRUE],
   Asked, [Asked EXCEPT !.required = FALSE, !.said = "yes", !.usable = TRUE],
   [Asked EXCEPT !.risk = "sworn"],
   [Asked EXCEPT !.control = "password"]}
=============================================================================
