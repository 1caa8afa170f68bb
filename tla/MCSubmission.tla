---------------------------- MODULE MCSubmission ----------------------------
(***************************************************************************)
(* Submission on small instances.  Requests are interchangeable, and so    *)
(* are observers; the contents of the form are interchangeable where the   *)
(* instance makes all of them clean and none (or all) of them risky.       *)
(***************************************************************************)
EXTENDS Submission, TLC

Requests == Permutations(Attempt) \cup Permutations(Observer)
RequestsAndContents == Requests \cup Permutations(Snap)
=============================================================================
