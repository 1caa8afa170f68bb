-------------------------- MODULE SubmissionProofs --------------------------
(***************************************************************************)
(* Machine-checked proofs about Submission, for every number of            *)
(* applications, contents, requests and observers, every choice of entry   *)
(* points and every environment.                                           *)
(***************************************************************************)
EXTENDS Submission, TLAPS

(***************************************************************************)
(* Lemmas about the operators the model is built from.                     *)
(***************************************************************************)

(* An approval has the two halves it was built from.                       *)
LEMMA ApprovalParts ==
  ASSUME NEW ap \in Approval
  PROVE  /\ ap[1] \in App
         /\ ap[2] \in Snap
         /\ ap = <<ap[1], ap[2]>>
         /\ ap # None
BY ConstantsAssumption DEF Approval

(* The verdict of the gates is a neutral outcome: refusing never claims    *)
(* that a click was delivered.                                             *)
LEMMA VerdictNeutral ==
  ASSUME NEW a, NEW s, NEW skip
  PROVE  GateVerdict(a, s, skip) \in Neutral \cup {"allowed"}
BY DEF GateVerdict, Neutral

(* A result moves a job to "submitted" only when it confirms it, and never *)
(* to "applied" without a reference of the ATS.                            *)
LEMMA AfterResultSubmitted ==
  ASSUME NEW status \in Status, NEW out \in ResultState
  PROVE  /\ AfterResult(status, out, FALSE) \in Status
         /\ AfterResult(status, out, FALSE) # status =>
              /\ AfterResult(status, out, FALSE) \in {"submitted", "needs_review"}
              /\ AfterResult(status, out, FALSE) = "submitted"
                   => out = "submitted_confirmed"
BY DEF AfterResult, ResultTarget, PostSubmitEdge, Status

(* The pipeline cannot write a status that only a result may give.         *)
LEMMA UpsertedStatus ==
  ASSUME NEW old \in Status, NEW new \in Status
  PROVE  Upserted(old, new) \in {old, new}
BY DEF Upserted

(* A thread that settles keeps its request and reaches its commit.         *)
LEMMA SettleRow ==
  ASSUME TypeOK, NEW r \in Attempt, NEW row \in AttemptRow,
         row.ap \in Approval, NEW out \in ResultState,
         NEW flag \in BOOLEAN, NEW release \in BOOLEAN,
         Settle(r, row, out, flag, release)
  PROVE  /\ clock' \in Nat
         /\ att' \in [Attempt -> AttemptRow]
         /\ \A q \in Attempt : q # r => att'[q] = att[q]
         /\ att'[r].pc = "commit"
         /\ att'[r].ap = row.ap
         /\ att'[r].out = out
         /\ att'[r].flag = flag
         /\ att'[r].snap = row.snap
         /\ att'[r].path = row.path
         /\ att'[r].release = release
         /\ att'[r].exists => result[row.ap].state # "none"
<1>1. row.ap[1] \in App
  BY ApprovalParts
<1>2. job[row.ap[1]] \in Status
  BY <1>1 DEF TypeOK
<1>3. clock + 1 \in Nat
  BY DEF TypeOK
<1> DEFINE new == [row EXCEPT !.pc = "commit", !.out = out, !.flag = flag,
                     !.release = release, !.at = clock + 1,
                     !.exists = result[row.ap].state # "none",
                     !.job = job[row.ap[1]]]
<1>4. new \in AttemptRow
  BY <1>2, <1>3 DEF AttemptRow, AttemptPc
<1>5. att' = [att EXCEPT ![r] = new]
  BY DEF Settle
<1>6. att \in [Attempt -> AttemptRow]
  BY DEF TypeOK
<1>7. att'[r] = new /\ \A q \in Attempt : q # r => att'[q] = att[q]
  BY <1>5, <1>6
<1>8. att' \in [Attempt -> AttemptRow]
  BY <1>4, <1>5, <1>6
<1>9. /\ new.pc = "commit" /\ new.ap = row.ap /\ new.out = out /\ new.flag = flag
      /\ new.snap = row.snap /\ new.path = row.path /\ new.release = release
      /\ new.exists = (result[row.ap].state # "none")
  BY DEF AttemptRow
<1>10. clock' \in Nat
  BY <1>3 DEF Settle
<1> QED
  BY <1>7, <1>8, <1>9, <1>10

(* Moving a thread from one program counter to the next keeps its row.     *)
LEMMA PcRow ==
  ASSUME TypeOK, NEW r \in Attempt, NEW pc \in AttemptPc,
         att' = [att EXCEPT ![r].pc = pc]
  PROVE  /\ att' \in [Attempt -> AttemptRow]
         /\ \A q \in Attempt : q # r => att'[q] = att[q]
         /\ att'[r] = [att[r] EXCEPT !.pc = pc]
         /\ att'[r].pc = pc
         /\ att'[r].ap = att[r].ap
         /\ att'[r].snap = att[r].snap
         /\ att'[r].path = att[r].path
         /\ att'[r].out = att[r].out
         /\ att'[r].flag = att[r].flag
         /\ att'[r].exists = att[r].exists
<1>1. att \in [Attempt -> AttemptRow] /\ att[r] \in AttemptRow
  BY DEF TypeOK
<1>2. [att[r] EXCEPT !.pc = pc] \in AttemptRow
  BY <1>1 DEF AttemptRow
<1>3. att' = [att EXCEPT ![r] = [att[r] EXCEPT !.pc = pc]]
  BY <1>1
<1>4. /\ [att[r] EXCEPT !.pc = pc].pc = pc
      /\ [att[r] EXCEPT !.pc = pc].ap = att[r].ap
      /\ [att[r] EXCEPT !.pc = pc].snap = att[r].snap
      /\ [att[r] EXCEPT !.pc = pc].path = att[r].path
      /\ [att[r] EXCEPT !.pc = pc].out = att[r].out
      /\ [att[r] EXCEPT !.pc = pc].flag = att[r].flag
      /\ [att[r] EXCEPT !.pc = pc].exists = att[r].exists
  BY <1>1 DEF AttemptRow
<1> QED
  BY <1>1, <1>2, <1>3, <1>4

(***************************************************************************)
(* What one step of a thread does to the threads.                          *)
(***************************************************************************)

(* Whatever step a thread takes, the others keep their rows, and it keeps  *)
(* the approval it was asked to submit.                                    *)
LEMMA ServeRow ==
  ASSUME TypeOK, NEW r \in Attempt, Serve(r)
  PROVE  /\ clock' \in Nat
         /\ att' \in [Attempt -> AttemptRow]
         /\ \A q \in Attempt : q # r => att'[q] = att[q]
         /\ att[r].pc # "idle"
         /\ att'[r].pc # "idle"
         /\ att'[r].ap = att[r].ap
<1>1. att \in [Attempt -> AttemptRow] /\ att[r] \in AttemptRow /\ clock \in Nat
  BY DEF TypeOK
<1>2. att[r].pc # "idle" => att[r].ap \in Approval
  BY DEF TypeOK
<1> DEFINE Goal == /\ clock' \in Nat
                   /\ att' \in [Attempt -> AttemptRow]
                   /\ \A q \in Attempt : q # r => att'[q] = att[q]
                   /\ att'[r].pc # "idle"
                   /\ att'[r].ap = att[r].ap
<1>3. ASSUME NEW pc \in AttemptPc, pc # "idle", UNCHANGED clock,
             att' = [att EXCEPT ![r].pc = pc]
      PROVE  Goal
  <2>1. /\ att' \in [Attempt -> AttemptRow]
        /\ \A q \in Attempt : q # r => att'[q] = att[q]
        /\ att'[r].pc = pc
        /\ att'[r].ap = att[r].ap
    BY <1>3, PcRow
  <2>2. clock' \in Nat
    BY <1>1, <1>3
  <2> QED
    BY <1>3, <2>1, <2>2
<1>4. ASSUME NEW out \in ResultState, NEW flag \in BOOLEAN, NEW release \in BOOLEAN,
             att[r].pc # "idle", Settle(r, att[r], out, flag, release)
      PROVE  Goal
  BY <1>1, <1>2, <1>4, SettleRow
<1>5. CASE ClaimRead(r)
  BY <1>3, <1>4, <1>5 DEF ClaimRead, Fail, ResultState, Neutral, AttemptPc
<1>6. CASE ClaimInsert(r)
  BY <1>3, <1>4, <1>6 DEF ClaimInsert, ResultState, Neutral, AttemptPc
<1>7. CASE OpenPage(r)
  <2>1. CASE \E s \in Snap : /\ att' = [att EXCEPT ![r].pc = "gates", ![r].snap = s]
                            /\ UNCHANGED clock
    <3>1. PICK s \in Snap : att' = [att EXCEPT ![r].pc = "gates", ![r].snap = s]
      BY <2>1
    <3> DEFINE new == [att[r] EXCEPT !.pc = "gates", !.snap = s]
    <3>2. att' = [att EXCEPT ![r] = new]
      BY <3>1, <1>1
    <3>3. new \in AttemptRow /\ new.pc = "gates" /\ new.ap = att[r].ap
      BY <1>1 DEF AttemptRow, AttemptPc
    <3> QED
      BY <1>1, <2>1, <3>2, <3>3, <1>7 DEF OpenPage
  <2>2. CASE Settle(r, att[r], "submit_control_ambiguous", FALSE, FALSE)
    BY <1>4, <1>7, <2>2 DEF OpenPage, ResultState, Neutral
  <2> QED
    BY <1>7, <2>1, <2>2 DEF OpenPage
<1>8. CASE OpenFails(r)
  BY <1>3, <1>4, <1>8 DEF OpenFails, Fail, ResultState, Neutral, AttemptPc
<1>9. CASE Gates(r)
  <2>1. ASSUME NEW verdict, verdict = GateVerdict(att[r].ap[1], att[r].snap,
                                                  att[r].path = "service"),
               verdict # "allowed"
        PROVE  verdict \in ResultState
    BY <2>1, VerdictNeutral DEF ResultState
  <2> QED
    BY <1>3, <1>4, <1>9, <2>1 DEF Gates, Fail, ResultState, Neutral, AttemptPc
<1>10. CASE ControlGone(r)
  BY <1>4, <1>10 DEF ControlGone, ResultState, Neutral
<1>11. CASE Click(r)
  BY <1>3, <1>11 DEF Click, AttemptPc
<1>12. CASE ClickFails(r)
  BY <1>4, <1>12 DEF ClickFails, ResultState, Neutral
<1>13. CASE Confirm(r)
  BY <1>4, <1>13 DEF Confirm, ResultState, Neutral, Positive
<1>14. CASE Commit(r)
  BY <1>3, <1>14 DEF Commit, AttemptPc
<1>15. att[r].pc # "idle"
  BY DEF Serve, ClaimRead, ClaimInsert, OpenPage, OpenFails, Gates, ControlGone,
         Click, ClickFails, Confirm, Commit
<1> QED
  BY <1>5, <1>6, <1>7, <1>8, <1>9, <1>10, <1>11, <1>12, <1>13, <1>14, <1>15 DEF Serve

(* What the steps of a thread write into the tables.                       *)
LEMMA ServeTables ==
  ASSUME TypeOK, NEW r \in Attempt, Serve(r)
  PROVE  /\ approval' \in [Approval -> {"absent", "active", "revoked", "consumed"}]
         /\ claim' \in [Approval -> Attempt \cup {None}]
         /\ released' \subseteq Approval
         /\ result' \in [Approval -> ResultRow]
         /\ job' \in [App -> Status]
         /\ clicked' \subseteq Attempt
         /\ UNCHANGED <<enabled, confirmed, pending, obs, endorsed>>
<1> USE DEF tables
<1>1. att[r].pc # "idle" => att[r].ap \in Approval
  BY DEF TypeOK
<1>2. CASE ClaimInsert(r)
  BY <1>1, <1>2 DEF ClaimInsert, TypeOK
<1>3. CASE Click(r) \/ ClickFails(r)
  BY <1>3 DEF Click, ClickFails, TypeOK
<1>4. CASE Commit(r)
  <2> DEFINE row == att[r]
             new == AfterResult(row.job, row.out, FALSE)
  <2>1. row \in AttemptRow /\ row.ap \in Approval
    BY <1>1, <1>4 DEF Commit, TypeOK
  <2>2. /\ row.out \in ResultState \cup {"none"}
        /\ row.flag \in BOOLEAN
        /\ row.at \in Nat
        /\ row.job \in Status
    BY <2>1 DEF AttemptRow
  <2>3. [state |-> row.out, clicked |-> row.flag, at |-> row.at] \in ResultRow
    BY <2>2 DEF ResultRow
  <2>4. new \in Status
    BY <2>2 DEF AfterResult, ResultTarget, PostSubmitEdge, Status
  <2>5. result' \in [Approval -> ResultRow]
    BY <1>4, <2>1, <2>3 DEF Commit, TypeOK
  <2>6. job' \in [App -> Status]
    <3>1. CASE UNCHANGED job
      BY <3>1 DEF TypeOK
    <3>2. CASE job' = [job EXCEPT ![row.ap[1]] = IF new = row.job THEN @ ELSE new]
      BY <3>2, <2>4 DEF TypeOK
    <3> QED
      BY <1>4, <3>1, <3>2 DEF Commit
  <2>7. released' \subseteq Approval
    BY <1>4, <2>1 DEF Commit, ReleasedBy, TypeOK
  <2>8. approval' \in [Approval -> {"absent", "active", "revoked", "consumed"}]
    BY <1>4, <2>1 DEF Commit, ConsumedBy, TypeOK
  <2> QED
    BY <1>4, <2>5, <2>6, <2>7, <2>8 DEF Commit, TypeOK
<1>5. CASE ClaimRead(r) \/ OpenPage(r) \/ OpenFails(r) \/ Gates(r) \/ ControlGone(r)
           \/ Confirm(r)
  BY <1>5 DEF ClaimRead, OpenPage, OpenFails, Gates, ControlGone, Confirm, TypeOK
<1> QED
  BY <1>2, <1>3, <1>4, <1>5 DEF Serve

(***************************************************************************)
(* Type correctness.                                                       *)
(***************************************************************************)

(* The initial state has the types.                                       *)
LEMMA InitType == Init => TypeOK
<1> SUFFICES ASSUME Init PROVE TypeOK
  OBVIOUS
<1>1. NoResult \in ResultRow
  BY DEF NoResult, ResultRow
<1>2. IdleAttempt \in AttemptRow /\ IdleAttempt.pc = "idle"
  BY DEF IdleAttempt, AttemptRow, AttemptPc, Status
<1>3. IdleObserver \in ObserverRow /\ IdleObserver.pc = "idle"
  BY DEF IdleObserver, ObserverRow
<1>4. job \in [App -> Status]
  BY DEF Init, Status
<1> QED
  BY <1>1, <1>2, <1>3, <1>4 DEF Init, TypeOK

(* A request is built from an approval a client may name.                  *)
LEMMA BeginRow ==
  ASSUME TypeOK, NEW r \in Attempt, NEW ap \in Approval,
         NEW path \in {"service", "direct"}, Begin(r, ap, path)
  PROVE  /\ clock' \in Nat
         /\ att' \in [Attempt -> AttemptRow]
         /\ \A q \in Attempt : q # r => att'[q] = att[q]
         /\ att[r].pc = "idle"
         /\ att'[r].ap = ap
         /\ \/ att'[r].pc = "commit" /\ att'[r].out \in Neutral /\ ~att'[r].flag
               /\ (att'[r].exists => result[ap].state # "none")
            \/ att'[r].pc = "gates" /\ path = "direct" /\ att'[r].path = "direct"
            \/ att'[r].pc = "claim" /\ att'[r].path = "service" /\ enabled
         /\ UNCHANGED <<tables, enabled, obs, clicked, endorsed>>
<1> DEFINE row == [IdleAttempt EXCEPT !.ap = ap, !.path = path]
<1>1. /\ row \in AttemptRow /\ row.ap = ap /\ row.path = path
  BY DEF IdleAttempt, AttemptRow, AttemptPc, Status
<1>2. att \in [Attempt -> AttemptRow] /\ clock \in Nat
  BY DEF TypeOK
<1>3. ASSUME NEW new \in AttemptRow, att' = [att EXCEPT ![r] = new]
      PROVE  /\ att' \in [Attempt -> AttemptRow]
             /\ \A q \in Attempt : q # r => att'[q] = att[q]
             /\ att'[r] = new
  BY <1>2, <1>3
<1>4. CASE path = "direct"
  <2>1. PICK s \in Snap : att' = [att EXCEPT ![r] = [row EXCEPT !.pc = "gates", !.snap = s]]
    BY <1>4 DEF Begin
  <2> DEFINE new == [row EXCEPT !.pc = "gates", !.snap = s]
  <2>2. new \in AttemptRow /\ new.pc = "gates" /\ new.ap = ap /\ new.path = path
    BY <1>1 DEF AttemptRow, AttemptPc
  <2> HIDE DEF row, new
  <2> QED
    BY <1>2, <1>3, <1>4, <2>1, <2>2 DEF Begin, new, row
<1>5. CASE path # "direct" /\ enabled
  <2> DEFINE new == [row EXCEPT !.pc = "claim"]
  <2>1. new \in AttemptRow /\ new.pc = "claim" /\ new.ap = ap /\ new.path = path
    BY <1>1 DEF AttemptRow, AttemptPc
  <2>2. att' = [att EXCEPT ![r] = new] /\ UNCHANGED clock
    BY <1>5 DEF Begin
  <2> HIDE DEF new
  <2> QED
    BY <1>2, <1>3, <1>5, <2>1, <2>2 DEF Begin
<1>6. CASE path # "direct" /\ ~enabled
  <2>1. Settle(r, row, "submission_not_allowed", FALSE, FALSE)
    BY <1>6 DEF Begin
  <2>2. "submission_not_allowed" \in Neutral /\ "submission_not_allowed" \in ResultState
    BY DEF Neutral, ResultState
  <2> HIDE DEF row
  <2>3. /\ clock' \in Nat
        /\ att' \in [Attempt -> AttemptRow]
        /\ \A q \in Attempt : q # r => att'[q] = att[q]
        /\ att'[r].pc = "commit"
        /\ att'[r].ap = ap
        /\ att'[r].out = "submission_not_allowed"
        /\ att'[r].flag = FALSE
        /\ (att'[r].exists => result[ap].state # "none")
    BY <1>1, <2>1, <2>2, SettleRow
  <2> QED
    BY <2>2, <2>3 DEF Begin
<1> QED
  BY <1>4, <1>5, <1>6

(* The steps of everybody but the submit requests and the restart.         *)
Background ==
  \/ \E o \in Observer, ap \in Approval : ObserveRead(o, ap)
  \/ \E o \in Observer : ObserveWrite(o)
  \/ \E ap \in Approval : ConfirmHighRisk(ap) \/ Approve(ap) \/ Revoke(ap)
  \/ \E a \in App : Retry(a) \/ Intervene(a) \/ Resolve(a)
  \/ \E a \in App, s \in Status : Pipeline(a, s)
  \/ UNCHANGED vars

(* A step is of a submit request, of its client, of the operating system,  *)
(* or of the background.                                                   *)
LEMMA NextCases ==
  ASSUME [Next]_vars
  PROVE  \/ \E r \in Attempt : Serve(r)
         \/ \E r \in Attempt, ap \in Approval, path \in {"service", "direct"} :
              Begin(r, ap, path)
         \/ Restart
         \/ Background
<1>1. CASE \E r \in Attempt, ap \in Approval, path \in Path : Begin(r, ap, path)
  BY <1>1, ConstantsAssumption
<1> QED
  BY <1>1 DEF Next, Background

(* The background leaves the requests, their claims and results alone; it  *)
(* moves jobs, but never to submitted, and approvals, but not the consumed *)
(* ones, and never from revoked to active.                                 *)
LEMMA BackgroundFrame ==
  ASSUME TypeOK, Background
  PROVE  /\ UNCHANGED <<enabled, claim, released, result, clock, att, clicked>>
         /\ approval' \in [Approval -> {"absent", "active", "revoked", "consumed"}]
         /\ \A ap \in Approval : approval[ap] = "consumed" <=> approval'[ap] = "consumed"
         /\ \A ap \in Approval : approval[ap] = "revoked" => approval'[ap] = "revoked"
         /\ job' \in [App -> Status]
         /\ \A a \in App : job'[a] = job[a] \/ job'[a] \notin {"submitted", "applied"}
         /\ confirmed' \subseteq Approval
         /\ pending' \subseteq App
         /\ obs' \in [Observer -> ObserverRow]
         /\ \A o \in Observer : obs'[o].pc = "write" => obs'[o].ap \in Approval
         /\ endorsed' \subseteq Approval
<1> USE DEF tables
<1>1. ASSUME NEW o \in Observer, NEW ap \in Approval, ObserveRead(o, ap)
      PROVE  obs' \in [Observer -> ObserverRow]
             /\ \A p \in Observer : obs'[p].pc = "write" => obs'[p].ap \in Approval
  <2> DEFINE new == IF approval[ap] = "active"
                    THEN [pc |-> "done", ap |-> ap, stale |-> {}]
                    ELSE [pc |-> "write", ap |-> ap, stale |-> ActiveOf(ap[1])]
  <2>1. ActiveOf(ap[1]) \subseteq Approval
    BY DEF ActiveOf
  <2>2. new \in ObserverRow /\ new.ap \in Approval
    BY <2>1 DEF ObserverRow
  <2>3. obs' = [obs EXCEPT ![o] = new]
    BY <1>1 DEF ObserveRead
  <2> QED
    BY <2>2, <2>3 DEF TypeOK
<1>2. ASSUME NEW o \in Observer, ObserveWrite(o)
      PROVE  /\ obs' \in [Observer -> ObserverRow]
             /\ \A p \in Observer : obs'[p].pc = "write" => obs'[p].ap \in Approval
             /\ approval' \in [Approval -> {"absent", "active", "revoked", "consumed"}]
             /\ \A ap \in Approval : approval[ap] = "consumed" <=> approval'[ap] = "consumed"
             /\ \A ap \in Approval : approval[ap] = "revoked" => approval'[ap] = "revoked"
  <2>1. obs[o] \in ObserverRow /\ obs[o].ap \in Approval
    BY <1>2 DEF ObserveWrite, TypeOK
  <2>2. ASSUME NEW pc \in {"done", "failed"},
               obs' = [obs EXCEPT ![o].pc = pc, ![o].stale = {}]
        PROVE  /\ obs' \in [Observer -> ObserverRow]
               /\ \A p \in Observer : obs'[p].pc = "write" => obs'[p].ap \in Approval
    <3> DEFINE new == [obs[o] EXCEPT !.pc = pc, !.stale = {}]
    <3>1. obs' = [obs EXCEPT ![o] = new]
      BY <2>2 DEF TypeOK
    <3>2. new \in ObserverRow /\ new.pc = pc
      BY <2>1, <2>2 DEF ObserverRow
    <3> QED
      BY <3>1, <3>2 DEF TypeOK
  <2>3. CASE approval[obs[o].ap] = "absent"
    <3>1. approval' = [RevokedAll(obs[o].stale) EXCEPT ![obs[o].ap] = "active"]
      BY <1>2, <2>3 DEF ObserveWrite
    <3> QED
      BY <1>2, <2>1, <2>2, <2>3, <3>1 DEF ObserveWrite, RevokedAll, TypeOK
  <2>4. CASE approval[obs[o].ap] # "absent"
    BY <1>2, <2>2, <2>4 DEF ObserveWrite, TypeOK
  <2> QED
    BY <2>3, <2>4
<1>3. CASE \E o \in Observer, ap \in Approval : ObserveRead(o, ap)
  BY <1>1, <1>3 DEF ObserveRead, TypeOK
<1>4. CASE \E o \in Observer : ObserveWrite(o)
  BY <1>2, <1>4 DEF ObserveWrite, TypeOK
<1>5. CASE \E ap \in Approval : ConfirmHighRisk(ap) \/ Approve(ap)
  BY <1>5 DEF ConfirmHighRisk, Approve, TypeOK
<1>6. CASE \E ap \in Approval : Revoke(ap)
  <2>1. PICK ap \in Approval : Revoke(ap)
    BY <1>6
  <2>2. approval[ap] = "active"
    BY <2>1 DEF Revoke, ActiveOf
  <2> QED
    BY <2>1, <2>2 DEF Revoke, TypeOK
<1>7. CASE \E a \in App : Retry(a) \/ Intervene(a) \/ Resolve(a)
  BY <1>7 DEF Retry, Intervene, Resolve, TypeOK, Status
<1>8. CASE \E a \in App, s \in Status : Pipeline(a, s)
  <2>1. PICK a \in App, s \in Status : Pipeline(a, s)
    BY <1>8
  <2>2. s \notin {"submitted", "applied"}
    BY <2>1 DEF Pipeline
  <2>3. job[a] \in Status
    BY DEF TypeOK
  <2>4. Upserted(job[a], s) \in {job[a], s}
    BY <2>3, UpsertedStatus
  <2> QED
    BY <2>1, <2>2, <2>3, <2>4 DEF Pipeline, TypeOK
<1>9. CASE UNCHANGED vars
  BY <1>9 DEF vars, TypeOK
<1> QED
  BY <1>3, <1>4, <1>5, <1>6, <1>7, <1>8, <1>9 DEF Background

(* A restart kills the threads under way and nothing else.                 *)
LEMMA RestartFrame ==
  ASSUME TypeOK, Restart
  PROVE  /\ enabled' \in BOOLEAN
         /\ UNCHANGED <<tables, clock, clicked, endorsed>>
         /\ att' \in [Attempt -> AttemptRow]
         /\ \A r \in Attempt :
              /\ att'[r].ap = att[r].ap
              /\ \/ att'[r].pc = "dead" /\ att[r].pc # "idle"
                 \/ att'[r] = att[r]
                    /\ att[r].pc \in {"idle", "done", "error", "lost", "dead"}
         /\ obs' \in [Observer -> ObserverRow]
         /\ \A o \in Observer : obs'[o].pc # "write"
<1>1. ASSUME NEW r \in Attempt
      PROVE  /\ [att[r] EXCEPT !.pc = "dead"] \in AttemptRow
             /\ [att[r] EXCEPT !.pc = "dead"].pc = "dead"
             /\ [att[r] EXCEPT !.pc = "dead"].ap = att[r].ap
  <2>1. att[r] \in AttemptRow
    BY DEF TypeOK
  <2> QED
    BY <2>1 DEF AttemptRow, AttemptPc
<1>2. ASSUME NEW o \in Observer
      PROVE  /\ [obs[o] EXCEPT !.pc = "dead", !.stale = {}] \in ObserverRow
             /\ [obs[o] EXCEPT !.pc = "dead", !.stale = {}].pc = "dead"
  <2>1. obs[o] \in ObserverRow
    BY DEF TypeOK
  <2> QED
    BY <2>1 DEF ObserverRow
<1> QED
  BY <1>1, <1>2 DEF Restart, TypeOK

(* Every step keeps the types.                                             *)
LEMMA NextType == TypeOK /\ [Next]_vars => TypeOK'
<1> SUFFICES ASSUME TypeOK, [Next]_vars PROVE TypeOK'
  OBVIOUS
<1>1. ASSUME NEW r \in Attempt, Serve(r) PROVE TypeOK'
  BY <1>1, ServeRow, ServeTables DEF TypeOK
<1>2. ASSUME NEW r \in Attempt, NEW ap \in Approval, NEW path \in {"service", "direct"},
             Begin(r, ap, path)
      PROVE  TypeOK'
  BY <1>2, BeginRow DEF TypeOK, tables
<1>3. CASE Restart
  BY <1>3, RestartFrame DEF TypeOK, tables
<1>4. CASE Background
  BY <1>4, BackgroundFrame DEF TypeOK
<1> QED
  BY <1>1, <1>2, <1>3, <1>4, NextCases

(* Every variable keeps its type, for every value of the constants.        *)
THEOREM TypeCorrect == Spec => []TypeOK
BY InitType, NextType, PTL DEF Spec

(***************************************************************************)
(* One click, one browser.  Both hold because the claim row names one      *)
(* request for ever, and only that request goes on to the browser.         *)
(***************************************************************************)
ClaimInv ==
  /\ \A r \in Attempt : InBrowser(r) => claim[att[r].ap] = r
  /\ \A r \in clicked : /\ att[r].pc \in {"confirm", "commit", "done", "dead"}
                        /\ claim[att[r].ap] = r

(* A thread that reaches the browser took the claim, or had it before.     *)
LEMMA ServeClaim ==
  ASSUME TypeOK, ClaimInv, NEW r \in Attempt, Serve(r)
  PROVE  /\ \A ap \in Approval : claim[ap] # None => claim'[ap] = claim[ap]
         /\ InBrowser(r)' => claim'[att[r].ap] = r
         /\ clicked' \ clicked \subseteq {r}
         /\ r \in clicked' => /\ att'[r].pc \in {"confirm", "commit", "done", "dead"}
                             /\ claim'[att[r].ap] = r
<1> USE DEF tables
<1>1. /\ att[r] \in AttemptRow
      /\ att[r].ap \in Approval
      /\ claim \in [Approval -> Attempt \cup {None}]
  BY ServeRow DEF TypeOK
<1>2. r \notin clicked \/ att[r].pc \in {"confirm", "commit", "done", "dead"}
  BY DEF ClaimInv
<1>3. ASSUME NEW pc \in AttemptPc, att' = [att EXCEPT ![r].pc = pc]
      PROVE  att'[r].pc = pc /\ att'[r].path = att[r].path /\ att'[r].ap = att[r].ap
  BY <1>3, PcRow
<1>4. ASSUME NEW out, NEW flag, NEW release, Settle(r, att[r], out, flag, release)
      PROVE  att'[r].pc = "commit"
  BY <1>1, <1>4 DEF Settle, TypeOK, AttemptRow
<1>5. CASE ClaimRead(r)
  <2>1. att'[r].pc \in {"error", "commit", "insert"}
    BY <1>3, <1>4, <1>5 DEF ClaimRead, Fail, AttemptPc
  <2> QED
    BY <1>2, <1>5, <2>1 DEF ClaimRead, InBrowser
<1>6. CASE ClaimInsert(r)
  <2>1. CASE ClaimFree(att[r].ap)
    <3>1. claim' = [claim EXCEPT ![att[r].ap] = r]
      BY <1>6, <2>1 DEF ClaimInsert
    <3> QED
      BY <1>1, <1>2, <1>6, <2>1, <3>1 DEF ClaimInsert, ClaimFree
  <2>2. CASE ~ClaimFree(att[r].ap)
    <3>1. att'[r].pc = "commit" /\ claim' = claim /\ clicked' = clicked
      BY <1>4, <1>6, <2>2 DEF ClaimInsert
    <3> QED
      BY <1>2, <1>6, <3>1 DEF ClaimInsert, InBrowser
  <2> QED
    BY <2>1, <2>2
<1>7. CASE OpenPage(r) \/ OpenFails(r)
  <2>1. claim[att[r].ap] = r /\ r \notin clicked
    BY <1>2, <1>7 DEF ClaimInv, InBrowser, OpenPage, OpenFails
  <2> QED
    BY <1>7, <2>1 DEF OpenPage, OpenFails
<1>8. CASE Gates(r)
  <2>1. r \notin clicked /\ UNCHANGED <<claim, clicked>>
    BY <1>2, <1>8 DEF Gates
  <2>2. CASE att[r].path = "service"
    <3>1. claim[att[r].ap] = r
      BY <1>8, <2>2 DEF ClaimInv, InBrowser, Gates
    <3> QED
      BY <2>1, <3>1
  <2>3. CASE att[r].path # "service"
    <3>1. att'[r].pc \in {"error", "claim", "commit"}
      BY <1>3, <1>4, <1>8, <2>3 DEF Gates, Fail, AttemptPc
    <3> QED
      BY <2>1, <3>1 DEF InBrowser
  <2> QED
    BY <2>2, <2>3
<1>9. CASE ControlGone(r) \/ Click(r) \/ ClickFails(r) \/ Confirm(r)
  <2>1. claim[att[r].ap] = r
    BY <1>9 DEF ClaimInv, InBrowser, ControlGone, Click, ClickFails, Confirm
  <2>2. att'[r].pc \in {"confirm", "commit"}
    BY <1>3, <1>4, <1>9 DEF ControlGone, Click, ClickFails, Confirm, AttemptPc
  <2> QED
    BY <1>9, <2>1, <2>2 DEF ControlGone, Click, ClickFails, Confirm
<1>10. CASE Commit(r)
  <2>1. att'[r].pc = "done"
    BY <1>3, <1>10 DEF Commit, AttemptPc
  <2> QED
    BY <1>10, <2>1 DEF Commit, InBrowser, ClaimInv
<1> QED
  BY <1>5, <1>6, <1>7, <1>8, <1>9, <1>10 DEF Serve

(* No request is in a browser at first.                                    *)
LEMMA InitClaim == Init => ClaimInv
BY DEF Init, ClaimInv, InBrowser, IdleAttempt

(* The claim row goes on naming the one request in the browser.            *)
LEMMA NextClaim == TypeOK /\ ClaimInv /\ [Next]_vars => ClaimInv'
<1> SUFFICES ASSUME TypeOK, ClaimInv, [Next]_vars PROVE ClaimInv'
  OBVIOUS
<1>0. \A q \in Attempt : att[q].pc # "idle" => att[q].ap \in Approval
  BY DEF TypeOK
<1>1. ASSUME NEW r \in Attempt, Serve(r) PROVE ClaimInv'
  <2>1. /\ \A q \in Attempt : q # r => att'[q] = att[q]
        /\ att'[r].ap = att[r].ap
    BY <1>1, ServeRow
  <2>2. clicked \subseteq Attempt /\ clicked' \subseteq clicked \cup {r}
    BY <1>1, ServeClaim DEF TypeOK
  <2>3. ASSUME NEW q \in Attempt, q # r, claim[att[q].ap] = q, att[q].pc # "idle"
        PROVE  claim'[att'[q].ap] = q
    BY <1>0, <1>1, <2>1, <2>3, ServeClaim, ConstantsAssumption
  <2>4. ASSUME NEW q \in Attempt, InBrowser(q)' PROVE claim'[att'[q].ap] = q
    <3>1. CASE q = r
      BY <1>1, <2>1, <2>4, <3>1, ServeClaim
    <3>2. CASE q # r
      BY <2>1, <2>3, <2>4, <3>2 DEF InBrowser, ClaimInv
    <3> QED
      BY <3>1, <3>2
  <2>5. ASSUME NEW q \in clicked'
        PROVE  /\ att'[q].pc \in {"confirm", "commit", "done", "dead"}
               /\ claim'[att'[q].ap] = q
    <3>1. CASE q = r
      BY <1>1, <2>1, <2>5, <3>1, ServeClaim
    <3>2. CASE q # r
      BY <2>1, <2>2, <2>3, <2>5, <3>2 DEF ClaimInv
    <3> QED
      BY <3>1, <3>2
  <2> QED
    BY <2>4, <2>5 DEF ClaimInv
<1>2. ASSUME NEW r \in Attempt, NEW ap \in Approval, NEW path \in {"service", "direct"},
             Begin(r, ap, path)
      PROVE  ClaimInv'
  <2>1. /\ \A q \in Attempt : q # r => att'[q] = att[q]
        /\ ~InBrowser(r)'
        /\ UNCHANGED <<claim, clicked>>
    BY <1>2, BeginRow DEF InBrowser, tables
  <2>2. r \notin clicked
    BY <1>2, BeginRow DEF ClaimInv
  <2> QED
    BY <2>1, <2>2 DEF ClaimInv, InBrowser, TypeOK
<1>3. CASE Restart
  BY <1>3, RestartFrame DEF ClaimInv, InBrowser, tables, TypeOK
<1>4. CASE Background
  BY <1>4, BackgroundFrame DEF ClaimInv, InBrowser
<1> QED
  BY <1>1, <1>2, <1>3, <1>4, NextCases

(* ClaimInv is an invariant.                                               *)
LEMMA ClaimCorrect == Spec => []ClaimInv
BY InitType, NextType, InitClaim, NextClaim, PTL DEF Spec

(* No approval is ever clicked twice, nor taken to two browsers: its claim *)
(* row would have to name two requests.                                    *)
THEOREM AtMostOneRequest == Spec => []OneRequestPerApproval
<1>1. ClaimInv => OneRequestPerApproval
  BY DEF ClaimInv, OneRequestPerApproval
<1> QED
  BY <1>1, ClaimCorrect, PTL

(***************************************************************************)
(* Records are final.                                                      *)
(***************************************************************************)

(* No step takes back what the tables say of an approval.                  *)
LEMMA FinalStep ==
  ASSUME TypeOK, [Next]_vars, NEW ap \in Approval
  PROVE  /\ result[ap].state # "none" => result'[ap] = result[ap]
         /\ claim[ap] # None => claim'[ap] = claim[ap]
         /\ approval[ap] = "consumed" => approval'[ap] = "consumed"
         /\ approval[ap] = "revoked" => approval'[ap] # "active"
<1> USE DEF tables
<1> DEFINE Goal == /\ result[ap].state # "none" => result'[ap] = result[ap]
                   /\ claim[ap] # None => claim'[ap] = claim[ap]
                   /\ approval[ap] = "consumed" => approval'[ap] = "consumed"
                   /\ approval[ap] = "revoked" => approval'[ap] # "active"
<1>1. ASSUME NEW r \in Attempt, Serve(r) PROVE Goal
  <2>1. att[r].ap \in Approval
    BY <1>1, ServeRow DEF TypeOK
  <2>2. CASE ClaimInsert(r)
    BY <2>1, <2>2 DEF ClaimInsert, ClaimFree, TypeOK
  <2>3. CASE Commit(r)
    <3>1. \/ result' = result
          \/ /\ ResultFree(att[r].ap)
             /\ result' = [result EXCEPT ![att[r].ap] =
                   [state |-> att[r].out, clicked |-> att[r].flag, at |-> att[r].at]]
      BY <2>3 DEF Commit
    <3>2. result[ap].state # "none" => result'[ap] = result[ap]
      BY <2>1, <3>1 DEF ResultFree, TypeOK
    <3>3. /\ approval[ap] = "consumed" => approval'[ap] = "consumed"
          /\ approval[ap] = "revoked" => approval'[ap] # "active"
      BY <2>1, <2>3 DEF Commit, ConsumedBy, TypeOK
    <3> QED
      BY <2>3, <3>2, <3>3 DEF Commit
  <2>4. CASE UNCHANGED <<result, claim, approval>>
    BY <2>4
  <2>5. ClaimInsert(r) \/ Commit(r) \/ UNCHANGED <<result, claim, approval>>
    BY <1>1 DEF Serve, ClaimRead, OpenPage, OpenFails, Gates, ControlGone, Click,
                ClickFails, Confirm
  <2> QED
    BY <2>2, <2>3, <2>4, <2>5
<1>2. ASSUME NEW r \in Attempt, NEW other \in Approval,
             NEW path \in {"service", "direct"}, Begin(r, other, path)
      PROVE  Goal
  BY <1>2, BeginRow
<1>3. CASE Restart
  BY <1>3, RestartFrame
<1>4. CASE Background
  BY <1>4, BackgroundFrame
<1> QED
  BY <1>1, <1>2, <1>3, <1>4, NextCases

(* A result is never rewritten, a claim never gets a new owner, a consumed *)
(* approval stays consumed and a revoked one never comes back.             *)
THEOREM FinalRecords == Spec => RecordsAreFinal
<1>1. TypeOK /\ [Next]_vars =>
        [\A ap \in Approval :
           /\ result[ap].state # "none" => result'[ap] = result[ap]
           /\ claim[ap] # None => claim'[ap] = claim[ap]
           /\ approval[ap] = "consumed" => approval'[ap] = "consumed"
           /\ approval[ap] = "revoked" => approval'[ap] # "active"]_vars
  BY FinalStep
<1> QED
  BY <1>1, TypeCorrect, PTL DEF Spec, RecordsAreFinal

(***************************************************************************)
(* The kill switch.                                                        *)
(***************************************************************************)

(* A thread between the entry check and the click runs in a process whose  *)
(* setting allowed it; a restart, which may change the setting, kills it.  *)
SwitchInv ==
  \A r \in Attempt : att[r].pc \in {"claim", "insert", "open", "click"} => enabled

(* Threads enter the guarded part only through a check of the setting.     *)
LEMMA NextSwitch == TypeOK /\ SwitchInv /\ [Next]_vars => SwitchInv'
<1> SUFFICES ASSUME TypeOK, SwitchInv, [Next]_vars PROVE SwitchInv'
  OBVIOUS
<1> DEFINE Guarded == {"claim", "insert", "open", "click"}
<1>1. ASSUME NEW r \in Attempt, Serve(r) PROVE SwitchInv'
  <2>1. ASSUME NEW pc \in AttemptPc, att' = [att EXCEPT ![r].pc = pc]
        PROVE  att'[r].pc = pc
    BY <2>1, PcRow
  <2>2. ASSUME NEW out, NEW flag, NEW release, Settle(r, att[r], out, flag, release)
        PROVE  att'[r].pc = "commit"
    BY <2>2 DEF Settle, TypeOK, AttemptRow
  <2>3. att'[r].pc \in Guarded => enabled
    <3>1. CASE ClaimRead(r) \/ ClaimInsert(r)
      BY <3>1 DEF SwitchInv, ClaimRead, ClaimInsert
    <3>2. CASE OpenPage(r) \/ OpenFails(r)
      BY <3>2 DEF SwitchInv, OpenPage, OpenFails
    <3>3. CASE Gates(r)
      <4>1. GateVerdict(att[r].ap[1], att[r].snap, att[r].path = "service") = "allowed"
              => enabled
        BY DEF GateVerdict, SwitchedOff
      <4> QED
        BY <2>1, <2>2, <3>3, <4>1 DEF Gates, Fail, AttemptPc
    <3>4. CASE ControlGone(r) \/ Click(r) \/ ClickFails(r)
      BY <3>4 DEF SwitchInv, ControlGone, Click, ClickFails
    <3>5. CASE Confirm(r)
      BY <2>2, <3>5 DEF Confirm
    <3>6. CASE Commit(r)
      BY <2>1, <3>6 DEF Commit, AttemptPc
    <3> QED
      BY <1>1, <3>1, <3>2, <3>3, <3>4, <3>5, <3>6 DEF Serve
  <2> QED
    BY <1>1, <2>3, ServeRow, ServeTables DEF SwitchInv
<1>2. ASSUME NEW r \in Attempt, NEW ap \in Approval, NEW path \in {"service", "direct"},
             Begin(r, ap, path)
      PROVE  SwitchInv'
  BY <1>2, BeginRow DEF SwitchInv
<1>3. CASE Restart
  BY <1>3, RestartFrame DEF SwitchInv
<1>4. CASE Background
  BY <1>4, BackgroundFrame DEF SwitchInv
<1> QED
  BY <1>1, <1>2, <1>3, <1>4, NextCases

(* Only the two click actions touch the real site.                         *)
LEMMA ClickSteps ==
  ASSUME TypeOK, [Next]_vars, clicked' # clicked
  PROVE  \E r \in Attempt : att[r].pc = "click"
<1>1. ASSUME NEW r \in Attempt, Serve(r) PROVE att[r].pc = "click"
  BY <1>1 DEF Serve, tables, ClaimRead, ClaimInsert, OpenPage, OpenFails, Gates,
              ControlGone, Click, ClickFails, Confirm, Commit
<1> QED
  BY <1>1, NextCases, BeginRow, RestartFrame, BackgroundFrame

(* No click while the running process has real submission switched off.    *)
THEOREM KillSwitch == Spec => NoClickWhenDisabled
<1>1. Init => SwitchInv
  BY DEF Init, SwitchInv, IdleAttempt
<1>2. TypeOK /\ SwitchInv /\ [Next]_vars => [clicked' # clicked => enabled]_vars
  BY ClickSteps DEF SwitchInv
<1> QED
  BY <1>1, <1>2, InitType, NextType, NextSwitch, PTL DEF Spec, NoClickWhenDisabled

(***************************************************************************)
(* The audit trail.                                                        *)
(***************************************************************************)

(* What a thread carries to its commit is true of the outside world.       *)
CarriesTruth(r) ==
  /\ att[r].pc = "confirm" => r \in clicked
  /\ att[r].pc = "commit" =>
       /\ att[r].out \in ResultState
       /\ att[r].flag \/ att[r].out \in Positive => r \in clicked
       /\ att[r].exists => result[att[r].ap].state # "none"

AuditInv ==
  /\ \A r \in Attempt : CarriesTruth(r)
  /\ RecordsAreTrue
  /\ ReleasedIsAudited
  /\ SubmittedIsBacked

(* A click is never undone.                                                *)
LEMMA ClickedStays ==
  ASSUME TypeOK, ClaimInv, [Next]_vars
  PROVE  /\ clicked \subseteq clicked'
         /\ \A ap \in Approval : WasClicked(ap) => WasClicked(ap)'
<1>1. \A r \in clicked : r \in Attempt /\ att[r].pc # "idle"
  BY DEF TypeOK, ClaimInv
<1>2. clicked \subseteq clicked' /\ \A r \in clicked : att'[r].ap = att[r].ap
  <2>1. ASSUME NEW r \in Attempt, Serve(r)
        PROVE  clicked \subseteq clicked' /\ \A q \in clicked : att'[q].ap = att[q].ap
    <3>1. clicked \subseteq clicked'
      BY <2>1 DEF Serve, tables, ClaimRead, ClaimInsert, OpenPage, OpenFails, Gates,
                  ControlGone, Click, ClickFails, Confirm, Commit
    <3> QED
      BY <1>1, <2>1, <3>1, ServeRow
  <2>2. ASSUME NEW r \in Attempt, NEW ap \in Approval, NEW path \in {"service", "direct"},
               Begin(r, ap, path)
        PROVE  clicked \subseteq clicked' /\ \A q \in clicked : att'[q].ap = att[q].ap
    BY <1>1, <2>2, BeginRow
  <2>3. CASE Restart
    BY <1>1, <2>3, RestartFrame
  <2>4. CASE Background
    BY <2>4, BackgroundFrame
  <2> QED
    BY <2>1, <2>2, <2>3, <2>4, NextCases
<1> QED
  BY <1>2 DEF WasClicked

(* A thread only ever carries the truth.                                   *)
LEMMA ServeTruth ==
  ASSUME TypeOK, ClaimInv, AuditInv, NEW r \in Attempt, Serve(r)
  PROVE  CarriesTruth(r)'
<1> USE DEF tables
<1>1. att[r] \in AttemptRow /\ att[r].ap \in Approval /\ CarriesTruth(r)
  BY ServeRow DEF TypeOK, AuditInv
<1>2. ASSUME NEW pc \in AttemptPc, att' = [att EXCEPT ![r].pc = pc]
      PROVE  att'[r].pc = pc
  BY <1>2, PcRow
<1>3. ASSUME NEW out \in ResultState, NEW flag \in BOOLEAN, NEW release \in BOOLEAN,
             Settle(r, att[r], out, flag, release),
             flag \/ out \in Positive => r \in clicked', UNCHANGED result
      PROVE  CarriesTruth(r)'
  <2>1. /\ att'[r].pc = "commit" /\ att'[r].ap = att[r].ap
        /\ att'[r].out = out /\ att'[r].flag = flag
        /\ att'[r].exists => result[att[r].ap].state # "none"
    BY <1>1, <1>3, SettleRow
  <2> QED
    BY <1>3, <2>1 DEF CarriesTruth
<1>4. ASSUME NEW out \in Neutral, NEW release \in BOOLEAN,
             Settle(r, att[r], out, FALSE, release), UNCHANGED result
      PROVE  CarriesTruth(r)'
  <2>1. out \in ResultState /\ out \notin Positive
    BY DEF ResultState, Neutral, Positive
  <2> QED
    BY <1>3, <1>4, <2>1
<1>5. ASSUME att'[r].pc \notin {"confirm", "commit"} PROVE CarriesTruth(r)'
  BY <1>5 DEF CarriesTruth
<1>6. CASE ClaimRead(r)
  BY <1>2, <1>4, <1>5, <1>6 DEF ClaimRead, Fail, AttemptPc, Neutral
<1>7. CASE ClaimInsert(r)
  BY <1>2, <1>4, <1>5, <1>7 DEF ClaimInsert, AttemptPc, Neutral
<1>8. CASE OpenPage(r)
  <2>1. CASE Settle(r, att[r], "submit_control_ambiguous", FALSE, FALSE)
    BY <1>4, <1>8, <2>1 DEF OpenPage, Neutral
  <2>2. CASE \E s \in Snap : att' = [att EXCEPT ![r].pc = "gates", ![r].snap = s]
    <3>1. PICK s \in Snap : att' = [att EXCEPT ![r].pc = "gates", ![r].snap = s]
      BY <2>2
    <3>2. att'[r].pc = "gates"
      BY <1>1, <3>1 DEF TypeOK, AttemptRow
    <3> QED
      BY <1>5, <3>2
  <2> QED
    BY <1>8, <2>1, <2>2 DEF OpenPage
<1>9. CASE OpenFails(r)
  BY <1>2, <1>4, <1>5, <1>9 DEF OpenFails, Fail, AttemptPc, Neutral
<1>10. CASE Gates(r)
  <2>1. ASSUME NEW verdict, verdict = GateVerdict(att[r].ap[1], att[r].snap,
                                                  att[r].path = "service"),
               verdict # "allowed"
        PROVE  verdict \in Neutral
    BY <2>1, VerdictNeutral
  <2> QED
    BY <1>2, <1>4, <1>5, <1>10, <2>1 DEF Gates, Fail, AttemptPc, Neutral
<1>11. CASE ControlGone(r)
  BY <1>4, <1>11 DEF ControlGone, Neutral
<1>12. CASE Click(r)
  <2>1. att'[r].pc = "confirm" /\ r \in clicked'
    BY <1>2, <1>12 DEF Click, AttemptPc
  <2> QED
    BY <2>1 DEF CarriesTruth
<1>13. CASE ClickFails(r)
  BY <1>4, <1>13 DEF ClickFails, Neutral
<1>14. CASE Confirm(r)
  <2>1. r \in clicked' /\ UNCHANGED result
    BY <1>1, <1>14 DEF Confirm, CarriesTruth
  <2>2. PICK out \in Positive \cup {"outcome_unknown"} :
          Settle(r, att[r], out, TRUE, att[r].path = "direct")
    BY <1>14 DEF Confirm
  <2>3. out \in ResultState
    BY DEF ResultState, Neutral
  <2> QED
    BY <1>3, <2>1, <2>2, <2>3
<1>15. CASE Commit(r)
  BY <1>2, <1>5, <1>15 DEF Commit, AttemptPc
<1> QED
  BY <1>6, <1>7, <1>8, <1>9, <1>10, <1>11, <1>12, <1>13, <1>14, <1>15 DEF Serve

(* The commit writes what the thread carries, or finds the result of an    *)
(* earlier commit in place.                                                *)
LEMMA CommitEffect ==
  ASSUME TypeOK, ClaimInv, AuditInv, NEW r \in Attempt, Commit(r)
  PROVE  LET ap == att[r].ap
         IN  /\ ap \in Approval
             /\ result'[ap].state # "none"
             /\ \/ result' = result
                \/ /\ result'[ap].state = att[r].out
                   /\ result'[ap].clicked = att[r].flag
                   /\ \A other \in Approval : other # ap => result'[other] = result[other]
             /\ att[r].flag \/ att[r].out \in Positive => WasClicked(ap)
             /\ \A other \in Approval :
                  approval'[other] = "consumed" =>
                    approval[other] = "consumed" \/ (other = ap /\ att[r].flag)
             /\ released' \subseteq released \cup {ap}
             /\ \A a \in App : job'[a] \in {"submitted", "applied"} =>
                  \/ job[a] \in {"submitted", "applied"}
                  \/ /\ a = ap[1]
                     /\ att[r].out = "submitted_confirmed"
                     /\ result'[ap].state = "submitted_confirmed"
<1> DEFINE row == att[r]
           ap == row.ap
           new == AfterResult(row.job, row.out, FALSE)
<1>1. /\ row \in AttemptRow /\ ap \in Approval /\ CarriesTruth(r) /\ row.pc = "commit"
  BY DEF Commit, TypeOK, AuditInv
<1>2. /\ row.out \in ResultState
      /\ row.flag \/ row.out \in Positive => r \in clicked
      /\ row.exists => result[ap].state # "none"
  BY <1>1 DEF CarriesTruth
<1>3. row.job \in Status /\ ap[1] \in App
  BY <1>1, ApprovalParts DEF AttemptRow
<1>4. "none" \notin ResultState
  BY DEF ResultState, Positive, Neutral
<1>5. row.flag \/ row.out \in Positive => WasClicked(ap)
  BY <1>2 DEF WasClicked
<1>6. CASE ~row.exists /\ ResultFree(ap)
  <2>1. /\ result' = [result EXCEPT ![ap] =
              [state |-> row.out, clicked |-> row.flag, at |-> row.at]]
        /\ job' = [job EXCEPT ![ap[1]] = IF new = row.job THEN @ ELSE new]
    BY <1>6 DEF Commit
  <2>2. /\ result'[ap].state = row.out /\ result'[ap].clicked = row.flag
        /\ \A other \in Approval : other # ap => result'[other] = result[other]
    BY <1>1, <2>1 DEF TypeOK
  <2>3. result'[ap].state # "none"
    BY <1>2, <1>4, <2>2
  <2>4. \A a \in App : job'[a] \in {"submitted", "applied"} =>
           \/ job[a] \in {"submitted", "applied"}
           \/ a = ap[1] /\ row.out = "submitted_confirmed"
    <3>1. new # row.job => /\ new \in {"submitted", "needs_review"}
                           /\ new = "submitted" => row.out = "submitted_confirmed"
      BY <1>2, <1>3, AfterResultSubmitted
    <3> HIDE DEF new
    <3> QED
      BY <1>3, <2>1, <3>1 DEF TypeOK
  <2>5. /\ \A other \in Approval :
              approval'[other] = "consumed" =>
                approval[other] = "consumed" \/ (other = ap /\ row.flag)
        /\ released' \subseteq released \cup {ap}
    BY <1>1 DEF Commit, ConsumedBy, ReleasedBy, TypeOK
  <2> QED
    BY <1>1, <1>5, <2>2, <2>3, <2>4, <2>5
<1>7. CASE ~(~row.exists /\ ResultFree(ap))
  <2>1. UNCHANGED <<result, job>>
    BY <1>7 DEF Commit
  <2>2. result[ap].state # "none"
    BY <1>2, <1>7 DEF ResultFree
  <2>3. /\ \A other \in Approval :
              approval'[other] = "consumed" =>
                approval[other] = "consumed" \/ (other = ap /\ row.flag)
        /\ released' \subseteq released \cup {ap}
    BY <1>1 DEF Commit, ConsumedBy, ReleasedBy, TypeOK
  <2> QED
    BY <1>1, <1>5, <2>1, <2>2, <2>3
<1> QED
  BY <1>6, <1>7

(* A step that writes no record leaves the audit trail true.               *)
LEMMA QuietAudit ==
  ASSUME TypeOK, ClaimInv, AuditInv, [Next]_vars,
         UNCHANGED result,
         released' \subseteq released,
         \A ap \in Approval : approval'[ap] = "consumed" => approval[ap] = "consumed",
         \A a \in App : job'[a] = job[a] \/ job'[a] \notin {"submitted", "applied"}
  PROVE  /\ RecordsAreTrue' /\ ReleasedIsAudited' /\ SubmittedIsBacked'
<1>1. \A ap \in Approval : WasClicked(ap) => WasClicked(ap)'
  BY ClickedStays
<1>2. \A a \in App, s \in Snap : <<a, s>> \in Approval
  BY DEF Approval
<1>3. RecordsAreTrue'
  BY <1>1 DEF AuditInv, RecordsAreTrue
<1>4. ReleasedIsAudited'
  BY DEF AuditInv, ReleasedIsAudited
<1>5. SubmittedIsBacked'
  BY <1>1, <1>2 DEF AuditInv, SubmittedIsBacked
<1> QED
  BY <1>3, <1>4, <1>5

(* The audit trail stays true.                                             *)
LEMMA NextAudit == TypeOK /\ ClaimInv /\ AuditInv /\ [Next]_vars => AuditInv'
<1> SUFFICES ASSUME TypeOK, ClaimInv, AuditInv, [Next]_vars PROVE AuditInv'
  OBVIOUS
<1> USE DEF tables
<1>1. clicked \subseteq clicked' /\ \A ap \in Approval : WasClicked(ap) => WasClicked(ap)'
  BY ClickedStays
<1>2. \A ap \in Approval : result[ap].state # "none" => result'[ap] = result[ap]
  BY FinalStep
<1>3. \A q \in Attempt : att[q].pc # "idle" => att[q].ap \in Approval
  BY DEF TypeOK
<1>4. ASSUME NEW q \in Attempt, att'[q] = att[q] PROVE CarriesTruth(q)'
  BY <1>1, <1>2, <1>3, <1>4 DEF AuditInv, CarriesTruth
<1>5. ASSUME NEW r \in Attempt, Serve(r) PROVE AuditInv'
  <2>1. \A q \in Attempt : CarriesTruth(q)'
    BY <1>4, <1>5, ServeRow, ServeTruth
  <2>2. CASE Commit(r)
    <3>0. PICK ap \in Approval : ap = att[r].ap
      BY <1>3, <2>2 DEF Commit
    <3>1. RecordsAreTrue'
      BY <1>1, <2>2, CommitEffect DEF AuditInv, RecordsAreTrue
    <3>2. ReleasedIsAudited'
      BY <1>2, <2>2, CommitEffect DEF AuditInv, ReleasedIsAudited
    <3>3. ASSUME NEW a \in App, job'[a] \in {"submitted", "applied"}
          PROVE  \E s \in Snap : /\ result'[<<a, s>>].state = "submitted_confirmed"
                                 /\ WasClicked(<<a, s>>)'
      <4>1. CASE job[a] \in {"submitted", "applied"}
        <5>1. PICK s \in Snap : /\ result[<<a, s>>].state = "submitted_confirmed"
                               /\ WasClicked(<<a, s>>)
          BY <4>1 DEF AuditInv, SubmittedIsBacked
        <5>2. <<a, s>> \in Approval
          BY DEF Approval
        <5> QED
          BY <1>1, <1>2, <5>1, <5>2
      <4>2. CASE job[a] \notin {"submitted", "applied"}
        <5>1. /\ a = ap[1] /\ att[r].out = "submitted_confirmed"
              /\ result'[ap].state = "submitted_confirmed"
              /\ ap \in Approval
              /\ att[r].out \in Positive => WasClicked(ap)
          BY <2>2, <3>0, <3>3, <4>2, CommitEffect
        <5>2. WasClicked(ap)'
          BY <1>1, <5>1 DEF Positive
        <5>3. ap[2] \in Snap /\ ap = <<a, ap[2]>>
          BY <5>1, ApprovalParts
        <5> QED
          BY <5>1, <5>2, <5>3
      <4> QED
        BY <4>1, <4>2
    <3> QED
      BY <2>1, <3>1, <3>2, <3>3 DEF AuditInv, SubmittedIsBacked
  <2>3. CASE ~Commit(r)
    <3>1. UNCHANGED <<result, released, approval, job>>
      BY <1>5, <2>3 DEF Serve, ClaimRead, ClaimInsert, OpenPage, OpenFails, Gates,
                        ControlGone, Click, ClickFails, Confirm
    <3> QED
      BY <2>1, <3>1, QuietAudit DEF AuditInv
  <2> QED
    BY <2>2, <2>3
<1>6. ASSUME NEW r \in Attempt, NEW ap \in Approval, NEW path \in {"service", "direct"},
             Begin(r, ap, path)
      PROVE  AuditInv'
  <2>1. CarriesTruth(r)'
    <3>1. Neutral \subseteq ResultState /\ Neutral \cap Positive = {}
      BY DEF ResultState, Neutral, Positive
    <3> QED
      BY <1>6, <3>1, BeginRow DEF CarriesTruth
  <2>2. \A q \in Attempt : CarriesTruth(q)'
    BY <1>4, <1>6, <2>1, BeginRow
  <2>3. UNCHANGED <<result, released, approval, job>>
    BY <1>6, BeginRow
  <2> QED
    BY <2>2, <2>3, QuietAudit DEF AuditInv
<1>7. CASE Restart
  <2>1. \A q \in Attempt : CarriesTruth(q)'
    <3>1. ASSUME NEW q \in Attempt, att'[q].pc = "dead" PROVE CarriesTruth(q)'
      BY <3>1 DEF CarriesTruth
    <3> QED
      BY <1>4, <1>7, <3>1, RestartFrame
  <2>2. UNCHANGED <<result, released, approval, job>>
    BY <1>7, RestartFrame
  <2> QED
    BY <2>1, <2>2, QuietAudit DEF AuditInv
<1>8. CASE Background
  <2>1. \A q \in Attempt : CarriesTruth(q)'
    BY <1>4, <1>8, BackgroundFrame
  <2> QED
    BY <1>8, <2>1, BackgroundFrame, QuietAudit DEF AuditInv
<1> QED
  BY <1>5, <1>6, <1>7, <1>8, NextCases

(* Nothing is on record at first.                                          *)
LEMMA InitAudit == Init => AuditInv
<1> SUFFICES ASSUME Init PROVE AuditInv
  OBVIOUS
<1>1. \A r \in Attempt : CarriesTruth(r)
  BY DEF Init, CarriesTruth, IdleAttempt
<1>2. \A ap \in Approval : /\ result[ap].state = "none" /\ ~result[ap].clicked
                          /\ approval[ap] = "absent" /\ ap \notin released
  BY DEF Init, NoResult
<1>3. RecordsAreTrue /\ ReleasedIsAudited
  BY <1>2 DEF RecordsAreTrue, ReleasedIsAudited, Positive
<1>4. \A a \in App : job[a] \in {"ready_to_apply", "review_ready"}
  BY DEF Init
<1>5. SubmittedIsBacked
  BY <1>4 DEF SubmittedIsBacked
<1> QED
  BY <1>1, <1>3, <1>5 DEF AuditInv

(* AuditInv is an invariant.                                               *)
LEMMA AuditCorrect == Spec => []AuditInv
BY InitType, NextType, InitClaim, NextClaim, InitAudit, NextAudit, PTL DEF Spec

(* What the tables say was clicked was clicked.                            *)
THEOREM TrueRecords == Spec => []RecordsAreTrue
<1>1. AuditInv => RecordsAreTrue
  BY DEF AuditInv
<1> QED
  BY <1>1, AuditCorrect, PTL

(* Nothing is released or consumed before its outcome is on record.        *)
THEOREM AuditBeforeRelease == Spec => []ReleasedIsAudited
<1>1. AuditInv => ReleasedIsAudited
  BY DEF AuditInv
<1> QED
  BY <1>1, AuditCorrect, PTL

(* A job is submitted only on the strength of a confirmed, clicked result. *)
THEOREM BackedSubmission == Spec => []SubmittedIsBacked
<1>1. AuditInv => SubmittedIsBacked
  BY DEF AuditInv
<1> QED
  BY <1>1, AuditCorrect, PTL

(***************************************************************************)
(* The tables implement the one-shot token.                                *)
(***************************************************************************)

(* A request that was clicked keeps its approval.                          *)
LEMMA ClickedApproval ==
  ASSUME TypeOK, ClaimInv, [Next]_vars
  PROVE  \A r \in clicked : /\ r \in Attempt /\ att[r].pc # "idle"
                           /\ att'[r].ap = att[r].ap
<1>1. \A r \in clicked : r \in Attempt /\ att[r].pc # "idle"
  BY DEF TypeOK, ClaimInv
<1> QED
  BY <1>1, NextCases, ServeRow, BeginRow, RestartFrame, BackgroundFrame

(* Without a click and a new claim or result, the token stutters.          *)
LEMMA TokenStutter ==
  ASSUME TypeOK, ClaimInv, [Next]_vars, UNCHANGED <<clicked, claim, result>>
  PROVE  UNCHANGED Tokens!tokenVars
<1>1. \A ap \in Approval : WasClicked(ap)' <=> WasClicked(ap)
  BY ClickedApproval DEF WasClicked
<1>2. Stage' = Stage
  BY <1>1 DEF Stage
<1>3. Outcome' = Outcome
  BY DEF Outcome
<1> QED
  BY <1>2, <1>3 DEF Tokens!tokenVars

(* Who takes the claim takes a free token.                                 *)
LEMMA TokenTaken ==
  ASSUME TypeOK, ClaimInv, [Next]_vars, NEW ap \in Approval, NEW r \in Attempt,
         claim[ap] = None, claim' = [claim EXCEPT ![ap] = r],
         UNCHANGED <<clicked, result>>
  PROVE  Tokens!Take(ap)
<1>1. \A other \in Approval : WasClicked(other)' <=> WasClicked(other)
  BY ClickedApproval DEF WasClicked
<1>2. r # None
  BY ConstantsAssumption
<1>3. ~WasClicked(ap)
  BY ConstantsAssumption DEF WasClicked, ClaimInv, TypeOK
<1>4. Stage[ap] = "free"
  BY <1>3 DEF Stage
<1>5. \A other \in Approval : claim'[other] = IF other = ap THEN r ELSE claim[other]
  BY DEF TypeOK
<1>6. Stage' = [Stage EXCEPT ![ap] = "held"]
  BY <1>1, <1>2, <1>3, <1>5 DEF Stage
<1>7. Outcome' = Outcome
  BY DEF Outcome
<1> QED
  BY <1>4, <1>6, <1>7 DEF Tokens!Take

(* Who clicks spends a token it holds.                                     *)
LEMMA TokenSpent ==
  ASSUME TypeOK, ClaimInv, [Next]_vars, NEW ap \in Approval, NEW r \in Attempt,
         ap = att[r].ap, att[r].pc = "click",
         clicked' = clicked \cup {r}, UNCHANGED <<claim, result>>
  PROVE  Tokens!Spend(ap)
<1>1. /\ claim[ap] = r /\ r # None
  BY ConstantsAssumption DEF ClaimInv, InBrowser
<1>2. r \notin clicked
  BY DEF ClaimInv
<1>3. ~WasClicked(ap)
  BY <1>1, <1>2 DEF WasClicked, ClaimInv
<1>4. att'[r].ap = ap
  BY ServeRow, BeginRow, RestartFrame, BackgroundFrame, NextCases DEF TypeOK
<1>5. \A other \in Approval : WasClicked(other)' <=> WasClicked(other) \/ other = ap
  BY <1>4, ClickedApproval DEF WasClicked
<1>6. Stage[ap] = "held"
  BY <1>1, <1>3 DEF Stage
<1>7. Stage' = [Stage EXCEPT ![ap] = "spent"]
  BY <1>5 DEF Stage
<1>8. Outcome' = Outcome
  BY DEF Outcome
<1> QED
  BY <1>6, <1>7, <1>8 DEF Tokens!Spend

(* Who records an outcome audits a token, as spent when it says so.        *)
LEMMA TokenAudited ==
  ASSUME TypeOK, ClaimInv, AuditInv, [Next]_vars, NEW r \in Attempt, Commit(r),
         result' # result, NEW ap \in Approval, ap = att[r].ap
  PROVE  \E s \in Positive \cup Neutral : Tokens!Audit(ap, s)
<1>1. /\ ResultFree(ap)
      /\ result' = [result EXCEPT ![ap] =
            [state |-> att[r].out, clicked |-> att[r].flag, at |-> att[r].at]]
  BY DEF Commit
<1>2. /\ att[r].out \in Positive \cup Neutral
      /\ att[r].out \in Positive => WasClicked(ap)
  BY CommitEffect DEF AuditInv, CarriesTruth, Commit, ResultState
<1>3. UNCHANGED <<clicked, claim>>
  BY DEF Commit
<1>4. \A other \in Approval : WasClicked(other)' <=> WasClicked(other)
  BY <1>3, ClickedApproval DEF WasClicked
<1>5. Stage' = Stage
  BY <1>3, <1>4 DEF Stage
<1>6. Outcome' = [Outcome EXCEPT ![ap] = att[r].out]
  BY <1>1 DEF Outcome, TypeOK
<1>7. Outcome[ap] = "none"
  BY <1>1 DEF Outcome, ResultFree
<1>8. att[r].out \in Positive => Stage[ap] = "spent"
  BY <1>2 DEF Stage
<1> QED
  BY <1>2, <1>5, <1>6, <1>7, <1>8 DEF Tokens!Audit

(* Every step of the system is a step of the token or a stutter.           *)
LEMMA TokenStep ==
  ASSUME TypeOK, ClaimInv, AuditInv, [Next]_vars
  PROVE  [Tokens!TokenNext]_(Tokens!tokenVars)
<1>1. ASSUME NEW r \in Attempt, Serve(r)
      PROVE  [Tokens!TokenNext]_(Tokens!tokenVars)
  <2> USE DEF tables
  <2>0. PICK ap \in Approval : ap = att[r].ap
    BY <1>1, ServeRow DEF TypeOK
  <2>1. CASE ClaimInsert(r)
    <3>1. CASE ClaimFree(ap)
      <4>1. Tokens!Take(ap)
        BY <2>0, <2>1, <3>1, TokenTaken DEF ClaimInsert, ClaimFree
      <4> QED
        BY <4>1 DEF Tokens!TokenNext
    <3>2. CASE ~ClaimFree(ap)
      BY <2>0, <2>1, <3>2, TokenStutter DEF ClaimInsert
    <3> QED
      BY <3>1, <3>2
  <2>2. CASE Click(r) \/ ClickFails(r)
    <3>1. UNCHANGED <<claim, result>> /\ att[r].pc = "click"
      BY <2>2 DEF Click, ClickFails
    <3>2. CASE UNCHANGED clicked
      BY <3>1, <3>2, TokenStutter
    <3>3. CASE clicked' = clicked \cup {r}
      <4>1. Tokens!Spend(ap)
        BY <2>0, <3>1, <3>3, TokenSpent
      <4> QED
        BY <4>1 DEF Tokens!TokenNext
    <3> QED
      BY <2>2, <3>2, <3>3 DEF Click, ClickFails
  <2>3. CASE Commit(r)
    <3>1. CASE UNCHANGED result
      BY <2>3, <3>1, TokenStutter DEF Commit
    <3>2. CASE result' # result
      <4>1. \E s \in Positive \cup Neutral : Tokens!Audit(ap, s)
        BY <2>0, <2>3, <3>2, TokenAudited
      <4> QED
        BY <4>1 DEF Tokens!TokenNext
    <3> QED
      BY <3>1, <3>2
  <2>4. CASE UNCHANGED <<clicked, claim, result>>
    BY <2>4, TokenStutter
  <2>5. \/ ClaimInsert(r) \/ Click(r) \/ ClickFails(r) \/ Commit(r)
        \/ UNCHANGED <<clicked, claim, result>>
    BY <1>1 DEF Serve, ClaimRead, OpenPage, OpenFails, Gates, ControlGone, Confirm
  <2> QED
    BY <2>1, <2>2, <2>3, <2>4, <2>5
<1>2. CASE \E r \in Attempt, ap \in Approval, path \in {"service", "direct"} :
             Begin(r, ap, path)
  <2>1. UNCHANGED <<clicked, claim, result>>
    BY <1>2, BeginRow DEF tables
  <2> QED
    BY <2>1, TokenStutter
<1>3. CASE Restart
  <2>1. UNCHANGED <<clicked, claim, result>>
    BY <1>3, RestartFrame DEF tables
  <2> QED
    BY <2>1, TokenStutter
<1>4. CASE Background
  <2>1. UNCHANGED <<clicked, claim, result>>
    BY <1>4, BackgroundFrame
  <2> QED
    BY <2>1, TokenStutter
<1> QED
  BY <1>1, <1>2, <1>3, <1>4, NextCases

(* Initially no token is taken, spent or audited.                          *)
LEMMA TokenInitially == Init => Tokens!TokenInit
BY DEF Init, Tokens!TokenInit, Stage, Outcome, WasClicked, NoResult

(* Approvals are one-shot tokens: the tables, with the threads and the     *)
(* restarts around them, implement SubmitToken.                            *)
THEOREM Refinement == Spec => ImplementsToken
<1>1. TypeOK /\ ClaimInv /\ AuditInv /\ [Next]_vars
        => [Tokens!TokenNext]_(Tokens!tokenVars)
  BY TokenStep
<1> QED
  BY <1>1, TokenInitially, TypeCorrect, ClaimCorrect, AuditCorrect, PTL
     DEF Spec, ImplementsToken, Tokens!TokenSpec

(***************************************************************************)
(* What is clicked was approved.                                           *)
(***************************************************************************)

(* A thread whose gates passed shows approved content, up to its click and *)
(* ever after.                                                             *)
ShowsApproved(r) ==
  LET shown == <<att[r].ap[1], att[r].snap>>
  IN  /\ att[r].snap \in Clean
      /\ approval[shown] # "absent"
      /\ att[r].snap \in Risky => shown \in confirmed

GatePassed(r) ==
  \/ r \in clicked
  \/ att[r].pc = "click"
  \/ att[r].path = "direct" /\ att[r].pc \in {"claim", "insert"}

ContentInv == \A r \in Attempt : GatePassed(r) => ShowsApproved(r)

(* An approval row never disappears and a confirmation is never withdrawn. *)
LEMMA ApprovalsStay ==
  ASSUME TypeOK, [Next]_vars
  PROVE  /\ confirmed \subseteq confirmed'
         /\ \A ap \in Approval : approval[ap] # "absent" => approval'[ap] # "absent"
<1> USE DEF tables
<1>1. ASSUME NEW r \in Attempt, Serve(r)
      PROVE  /\ confirmed \subseteq confirmed'
             /\ \A ap \in Approval : approval[ap] # "absent" => approval'[ap] # "absent"
  <2>1. confirmed' = confirmed
    BY <1>1, ServeTables
  <2>2. CASE Commit(r)
    BY <1>1, <2>1, <2>2, ServeRow DEF Commit, ConsumedBy, TypeOK
  <2>3. CASE ~Commit(r)
    BY <1>1, <2>1, <2>3 DEF Serve, ClaimRead, ClaimInsert, OpenPage, OpenFails, Gates,
                            ControlGone, Click, ClickFails, Confirm
  <2> QED
    BY <2>2, <2>3
<1>2. ASSUME NEW r \in Attempt, NEW ap \in Approval, NEW path \in {"service", "direct"},
             Begin(r, ap, path)
      PROVE  UNCHANGED <<confirmed, approval>>
  BY <1>2, BeginRow
<1>3. CASE Restart
  BY <1>3, RestartFrame
<1>4. CASE Background
  <2>1. CASE \E o \in Observer : ObserveWrite(o)
    <3>1. PICK o \in Observer : ObserveWrite(o)
      BY <2>1
    <3>2. obs[o].ap \in Approval
      BY <3>1 DEF ObserveWrite, TypeOK
    <3> QED
      BY <3>1, <3>2 DEF ObserveWrite, RevokedAll, TypeOK
  <2>2. CASE \E ap \in Approval : Revoke(ap)
    BY <2>2 DEF Revoke, TypeOK
  <2>3. CASE \/ \E ap \in Approval : ConfirmHighRisk(ap) \/ Approve(ap)
             \/ \E o \in Observer, ap \in Approval : ObserveRead(o, ap)
             \/ \E a \in App : Retry(a) \/ Intervene(a) \/ Resolve(a)
             \/ \E a \in App, s \in Status : Pipeline(a, s)
             \/ UNCHANGED vars
    BY <2>3 DEF ConfirmHighRisk, Approve, ObserveRead, Retry, Intervene, Resolve,
                Pipeline, vars
  <2> QED
    BY <1>4, <2>1, <2>2, <2>3 DEF Background
<1> QED
  BY <1>1, <1>2, <1>3, <1>4, NextCases

(* A thread's content is looked at by the gates before it is clicked.      *)
LEMMA ServeContent ==
  ASSUME TypeOK, ClaimInv, ContentInv, NEW r \in Attempt, Serve(r), GatePassed(r)'
  PROVE  ShowsApproved(r) /\ att'[r].snap = att[r].snap
<1> USE DEF tables
<1>1. att[r] \in AttemptRow /\ att[r].ap \in Approval
  BY ServeRow DEF TypeOK
<1>2. r \in clicked => att[r].pc \in {"confirm", "commit", "done", "dead"}
  BY DEF ClaimInv
<1>3. ASSUME NEW pc \in AttemptPc, att' = [att EXCEPT ![r].pc = pc]
      PROVE  att'[r].pc = pc /\ att'[r].path = att[r].path /\ att'[r].snap = att[r].snap
  BY <1>3, PcRow
<1>4. ASSUME NEW out, NEW flag, NEW release, Settle(r, att[r], out, flag, release)
      PROVE  att'[r].pc = "commit" /\ att'[r].snap = att[r].snap
  BY <1>1, <1>4 DEF Settle, TypeOK, AttemptRow
<1>5. CASE ClaimRead(r)
  BY <1>2, <1>3, <1>4, <1>5 DEF ClaimRead, Fail, GatePassed, ContentInv, AttemptPc
<1>6. CASE ClaimInsert(r)
  <2>1. r \notin clicked'
    BY <1>2, <1>6 DEF ClaimInsert
  <2>2. CASE ClaimFree(att[r].ap)
    <3>1. /\ att'[r].pc = IF att[r].path = "service" THEN "open" ELSE "click"
          /\ att'[r].snap = att[r].snap
      BY <1>3, <1>6, <2>2 DEF ClaimInsert, AttemptPc
    <3>2. att[r].path = "direct"
      BY <1>1, <2>1, <3>1 DEF GatePassed, AttemptRow
    <3> QED
      BY <1>6, <3>1, <3>2 DEF ClaimInsert, GatePassed, ContentInv
  <2>3. CASE ~ClaimFree(att[r].ap)
    <3>1. att'[r].pc = "commit"
      BY <1>4, <1>6, <2>3 DEF ClaimInsert
    <3> QED
      BY <2>1, <3>1 DEF GatePassed
  <2> QED
    BY <2>2, <2>3
<1>7. CASE OpenPage(r)
  <2>1. r \notin clicked'
    BY <1>2, <1>7 DEF OpenPage
  <2>2. att'[r].pc \in {"gates", "commit"}
    <3>1. CASE Settle(r, att[r], "submit_control_ambiguous", FALSE, FALSE)
      BY <1>4, <3>1
    <3>2. CASE \E s \in Snap : att' = [att EXCEPT ![r].pc = "gates", ![r].snap = s]
      BY <1>1, <3>2 DEF TypeOK, AttemptRow
    <3> QED
      BY <1>7, <3>1, <3>2 DEF OpenPage
  <2> QED
    BY <2>1, <2>2 DEF GatePassed
<1>8. CASE OpenFails(r)
  BY <1>2, <1>3, <1>4, <1>8 DEF OpenFails, Fail, GatePassed, AttemptPc
<1>9. CASE Gates(r)
  <2> DEFINE verdict == GateVerdict(att[r].ap[1], att[r].snap, att[r].path = "service")
  <2>1. r \notin clicked'
    BY <1>2, <1>9 DEF Gates
  <2>2. verdict = "allowed" /\ att'[r].snap = att[r].snap
    BY <1>3, <1>4, <1>9, <2>1 DEF Gates, Fail, GatePassed, AttemptPc
  <2>3. ShowsApproved(r)
    BY <2>2 DEF GateVerdict, ShowsApproved, ActiveOf, Unconfirmed
  <2> QED
    BY <2>2, <2>3
<1>10. CASE ControlGone(r) \/ Click(r) \/ ClickFails(r)
  BY <1>3, <1>4, <1>10 DEF ControlGone, Click, ClickFails, GatePassed, ContentInv, AttemptPc
<1>11. CASE Confirm(r) \/ Commit(r)
  BY <1>3, <1>4, <1>11 DEF Confirm, Commit, GatePassed, ContentInv, AttemptPc
<1> QED
  BY <1>5, <1>6, <1>7, <1>8, <1>9, <1>10, <1>11 DEF Serve

(* Content that passed the gates stays approved.                           *)
LEMMA NextContent == TypeOK /\ ClaimInv /\ ContentInv /\ [Next]_vars => ContentInv'
<1> SUFFICES ASSUME TypeOK, ClaimInv, ContentInv, [Next]_vars, NEW r \in Attempt,
                    GatePassed(r)'
             PROVE  ShowsApproved(r)'
  BY DEF ContentInv
<1>1. ASSUME ShowsApproved(r), att'[r].ap = att[r].ap, att'[r].snap = att[r].snap,
             att[r].ap \in Approval
      PROVE  ShowsApproved(r)'
  <2>1. <<att[r].ap[1], att[r].snap>> \in Approval
    BY <1>1, ApprovalParts, ConstantsAssumption DEF ShowsApproved, Approval
  <2> QED
    BY <1>1, <2>1, ApprovalsStay DEF ShowsApproved
<1>2. ASSUME att'[r] = att[r], UNCHANGED clicked PROVE ShowsApproved(r)'
  <2>1. GatePassed(r)
    BY <1>2 DEF GatePassed
  <2>2. att[r].pc # "idle"
    BY <2>1 DEF GatePassed, ClaimInv
  <2> QED
    BY <1>1, <1>2, <2>1, <2>2 DEF ContentInv, TypeOK
<1>3. ASSUME NEW q \in Attempt, Serve(q) PROVE ShowsApproved(r)'
  <2>1. CASE q = r
    <3>1. ShowsApproved(r) /\ att'[r].snap = att[r].snap
      BY <1>3, <2>1, ServeContent
    <3>2. att'[r].ap = att[r].ap /\ att[r].ap \in Approval
      BY <1>3, <2>1, ServeRow DEF TypeOK
    <3> QED
      BY <1>1, <3>1, <3>2
  <2>2. CASE q # r
    <3>1. att'[r] = att[r] /\ (r \in clicked' => r \in clicked)
      BY <1>3, <2>2, ServeRow, ServeClaim
    <3>2. GatePassed(r)
      BY <3>1 DEF GatePassed
    <3>3. att[r].pc # "idle"
      BY <3>2 DEF GatePassed, ClaimInv
    <3> QED
      BY <1>1, <3>1, <3>2, <3>3 DEF ContentInv, TypeOK
  <2> QED
    BY <2>1, <2>2
<1>4. ASSUME NEW q \in Attempt, NEW ap \in Approval, NEW path \in {"service", "direct"},
             Begin(q, ap, path)
      PROVE  ShowsApproved(r)'
  <2>1. CASE q = r
    <3>1. att[r].pc = "idle" /\ UNCHANGED clicked
      BY <1>4, <2>1, BeginRow
    <3>2. r \notin clicked'
      BY <3>1 DEF ClaimInv
    <3>3. ~GatePassed(r)'
      BY <1>4, <2>1, <3>2, BeginRow DEF GatePassed
    <3> QED
      BY <3>3
  <2>2. CASE q # r
    BY <1>2, <1>4, <2>2, BeginRow
  <2> QED
    BY <2>1, <2>2
<1>5. CASE Restart
  <2>1. CASE att'[r] = att[r]
    BY <1>2, <1>5, <2>1, RestartFrame
  <2>2. CASE att'[r] # att[r]
    <3>1. att'[r].pc = "dead" /\ att[r].pc # "idle" /\ att'[r].ap = att[r].ap
      BY <1>5, <2>2, RestartFrame
    <3>2. r \in clicked
      BY <1>5, <3>1, RestartFrame DEF GatePassed
    <3>3. att'[r].snap = att[r].snap
      BY <1>5 DEF Restart, TypeOK, AttemptRow
    <3> QED
      BY <1>1, <3>1, <3>2, <3>3 DEF ContentInv, GatePassed, TypeOK
  <2> QED
    BY <2>1, <2>2
<1>6. CASE Background
  BY <1>2, <1>6, BackgroundFrame
<1> QED
  BY <1>3, <1>4, <1>5, <1>6, NextCases

(* What was clicked is complete, was approved, and is confirmed where it   *)
(* is risky.                                                               *)
THEOREM ApprovedContent == Spec => []ClickIsOnApprovedContent
<1>1. Init => ContentInv
  BY DEF Init, ContentInv, GatePassed, IdleAttempt
<1>2. TypeOK /\ ContentInv => ClickIsOnApprovedContent
  BY DEF TypeOK, ContentInv, GatePassed, ShowsApproved, ClickIsOnApprovedContent
<1> QED
  BY <1>1, <1>2, InitType, NextType, InitClaim, NextClaim, NextContent, PTL DEF Spec
=============================================================================
