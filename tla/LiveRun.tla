------------------------------ MODULE LiveRun ------------------------------
(***************************************************************************)
(* One live run of a job in a browser: the runner's walk from page to page *)
(* (browser/live_runner.py, navigator/apply_path_finder.py) and the        *)
(* executor that fills the form it reaches (form_engine/live_executor.py), *)
(* with the question resolver (llm/) or with frozen mutation plans.        *)
(*                                                                         *)
(* The site is free.  Each time the page is read it may show any questions,*)
(* and a question may have become another one behind the same token, with  *)
(* other options, required or not.  Any call into the browser may fail,    *)
(* before or after it has set what it was to set.                          *)
(***************************************************************************)
EXTENDS Naturals, FiniteSets

CONSTANTS
  Page,       \* addresses
  Button,     \* controls to click, by selector and text
  Field,      \* questions, by token; a token has no address, so pages share them
  Kinds,      \* the kinds of question of an instance, out of Kind
  Mode,       \* out of AllModes
  MaxSteps,   \* LiveBrowserConfig.max_steps
  Budget      \* synthetic_mutation_max_mutations

AllModes == {"recon", "plain", "llm", "synthetic"}
Word == {"yes", "no", "other"}

(* What the program makes of a question that it reads from the page.  map: *)
(* the deterministic mapping has no value, a weak one (below the threshold)*)
(* or a sure one; its source may go into a plan or not; the value fits the *)
(* control (validate_typed_answer), and is valid for the resolver          *)
(* (validate_answer).  said: an explicit answer of the user in the ledger, *)
(* usable on the control or not.  sworn: a high risk that no plan takes.   *)
Kind == [required : BOOLEAN, control : {"plain", "unknown", "password"},
         risk : {"low", "medium", "high", "sworn"},
         map : {"none", "weak", "sure"}, source : {"declared", "undeclared", "foreign"},
         fits : BOOLEAN, valid : BOOLEAN,
         said : {"nothing"} \cup Word, usable : BOOLEAN]

ASSUME LiveRunAssumption ==
  /\ IsFiniteSet(Field)
  /\ Kinds \subseteq Kind /\ Mode \subseteq AllModes
  /\ "none" \notin Button
  /\ MaxSteps \in Nat \ {0} /\ Budget \in Nat \ {0}

VARIABLES
  run,      \* the runner
  form,     \* the executor on the form of this step
  dom,      \* history: what the run has set, by step
  report    \* the report of the run, and the files of the plans

vars == <<run, form, dom, report>>

(***************************************************************************)
(* Values.                                                                 *)
(***************************************************************************)

Steps == 1..MaxSteps
Open == {"blocked", "intervention_needed", "failed"}
Status == {"unseen", "skipped", "filled"} \cup Open

(* Who answers a question of a form, and what.                             *)
Answer == [who : {"nobody", "mapper", "user", "model"}, word : Word]
Nobody == [who |-> "nobody", word |-> "other"]
Mapper == [who |-> "mapper", word |-> "other"]

Blank == [f \in Field |-> "unseen"]
Unread == [required |-> FALSE, control |-> "plain", risk |-> "low", map |-> "none",
           source |-> "foreign", fits |-> FALSE, valid |-> FALSE,
           said |-> "nothing", usable |-> FALSE]

(* asked and late are history: the questions that were required when they  *)
(* were recorded, and those that were optional then and required when the  *)
(* resolver filled them.                                                   *)
NewForm == [pass |-> 0, todo |-> {}, kind |-> [f \in Field |-> Unread], rec |-> Blank,
            by |-> [f \in Field |-> Nobody], unresolved |-> 0, asked |-> {}, late |-> {},
            left |-> Budget, plans |-> [n \in {0, 1} |-> {}], passes |-> 0]

(* What analyze_page and choose_safe_action make of a page: a login gate,  *)
(* which is never a form; another wall, with a form behind it or not; a job*)
(* that is gone or applied for; a form; or else the best control to click: *)
(* apply before continue, never a submit or an unknown one.                *)
Safe == {"apply", "continue"}
View == {"login", "wall", "walled form", "gone", "form", "nothing"} \cup Safe

(* And after a form was filled: the first of these that there is.          *)
After == {"errors", "wall", "submit", "continue", "nothing"}

Seen(rec) == {f \in Field : rec[f] # "unseen"}
With(rec, status) == {f \in Field : rec[f] = status}

Init ==
  /\ run \in [mode : Mode, pc : {"start"}, step : {1}, next : {"none"}, seen : {{}},
              status : {"failed"}, raised : {FALSE}]
  /\ form = NewForm
  /\ dom = {}
  /\ report = [fields |-> [s \in Steps |-> Blank], last |-> 0,
               files |-> [n \in {0, 1} |-> {}], chain |-> {}]

(***************************************************************************)
(* The runner.                                                             *)
(***************************************************************************)

Over(r, status, raised) ==
  /\ run' = [run EXCEPT !.pc = "over", !.status = status, !.raised = raised]
  /\ report' = r

Goto(pc) == run' = [run EXCEPT !.pc = pc]

(* run, run_in_context: a context, its first page, the address of the job. *)
Start ==
  /\ run.pc = "start"
  /\ Goto("look")
  /\ UNCHANGED <<form, dom, report>>

(* The execution of a form returns and is reported.  The hashes of its     *)
(* plans go to the end of the chain; the plans themselves are written over *)
(* those of the form before, pass by pass.                                 *)
Recounted == [report EXCEPT !.fields[run.step] = form.rec]

Reported ==
  [Recounted EXCEPT !.last = run.step,
     !.files = [n \in {0, 1} |-> IF n < form.passes THEN {run.step} \X form.plans[n] ELSE @[n]],
     !.chain = @ \cup {run.step} \X (form.plans[0] \cup form.plans[1])]

(* Any call into the browser may raise: a timeout asks for the user, what  *)
(* else there is fails the run.  An execution it interrupts is lost.       *)
Raise ==
  /\ run.pc # "over"
  /\ \E status \in {"needs_user_input", "failed"},
        r \in {report} \cup (IF run.pc = "check" THEN {Recounted, Reported} ELSE {}) :
          Over(r, status, TRUE)
  /\ form' = NewForm
  /\ UNCHANGED dom

(***************************************************************************)
(* One step of the walk.                                                   *)
(***************************************************************************)

Halts(v) == v \in {"login", "wall", "gone"} \/ (v = "walled form" /\ run.mode # "recon")

(* build_mutation_plan, for one question.                                  *)
Missing(k) == IF k.required THEN "intervention_needed" ELSE "skipped"

Decision(k) ==
  IF k.control # "plain" THEN "blocked"
  ELSE IF k.risk = "sworn" THEN "skipped"
  ELSE IF k.map = "none" THEN Missing(k)
  ELSE IF k.source = "foreign" THEN "blocked"
  ELSE IF k.map = "weak" \/ k.source = "undeclared" THEN "skipped"
  ELSE IF ~ k.fits THEN Missing(k)
  ELSE "filled"

(* The page is read: some questions, each of some kind.                    *)
Extracted(x, S, kind) ==
  [x EXCEPT !.todo = S, !.kind = [f \in Field |-> IF f \in S THEN kind[f] ELSE Unread]]

(* A pass over the questions that were read; in a synthetic run its plan is*)
(* frozen first.  The mutant goes by the plan it has.                      *)
MutantPass(x, n, S, kind) == [Extracted(x, S, kind) EXCEPT !.pass = n, !.passes = n + 1]

Pass(x, n, S, kind) ==
  [Extracted(x, S, kind) EXCEPT !.pass = n, !.passes = n + 1,
     !.plans[n] = {f \in S : run.mode = "synthetic" /\ Decision(kind[f]) = "filled"}]

Look(v) ==
  /\ run.pc = "look"
  /\ \/ (Halts(v) \/ v = "nothing") /\ Over(report, "needs_user_input", FALSE) /\ UNCHANGED form
     \/ /\ v \in {"form", "walled form"} /\ run.mode = "recon"
        /\ Over(report, "recon_complete", FALSE) /\ UNCHANGED form
     \/ /\ v = "form" /\ run.mode # "recon"
        /\ \E S \in SUBSET Field : \E kind \in [S -> Kinds] : form' = Pass(NewForm, 0, S, kind)
        /\ Goto("fill") /\ UNCHANGED report
     \/ /\ v \in Safe
        /\ \E b \in Button : run' = [run EXCEPT !.pc = "click", !.next = b]
        /\ UNCHANGED <<form, report>>
  /\ UNCHANGED dom

(* The mutant forgets what it has clicked and counts no step.              *)
MutantNextStep(action) == run' = [run EXCEPT !.pc = "look"] /\ UNCHANGED report

NextStep(action) ==
  IF run.step = MaxSteps THEN Over(report, "needs_user_input", FALSE)
  ELSE /\ run' = [run EXCEPT !.pc = "look", !.step = @ + 1, !.next = "none",
                             !.seen = @ \cup {action}]
       /\ UNCHANGED report

(* What was clicked before at the same address is a loop; a click that     *)
(* fails stops the run, one that works may lead anywhere.                  *)
Click ==
  /\ run.pc = "click"
  /\ \E p \in Page :
       LET action == <<p, run.next>> IN
       \/ Over(report, "needs_user_input", FALSE)
       \/ action \notin run.seen /\ NextStep(action)
  /\ UNCHANGED <<form, dom>>

(***************************************************************************)
(* The executor.                                                           *)
(***************************************************************************)

(* fill_form, and the validation of the typed answer.                      *)
Filling(k) ==
  IF k.control = "password" THEN "blocked"
  ELSE IF k.control = "unknown" \/ k.map # "sure" THEN Missing(k)
  ELSE IF ~ k.fits THEN "intervention_needed"
  ELSE "filled"

(* What was read of a question is done with.                               *)
Handled(x, f) == [x EXCEPT !.todo = @ \ {f}, !.kind[f] = Unread]

(* The record of a question that was looked at, and whether it counts.     *)
Recorded(x, f, status, counts) ==
  [Handled(x, f) EXCEPT !.rec[f] = status,
            !.asked = IF x.kind[f].required THEN @ \cup {f} ELSE @,
            !.unresolved = @ + (IF x.kind[f].required /\ status \in counts THEN 1 ELSE 0)]

(* The call that sets a control may raise before it or after it: reading   *)
(* back, or waiting for the page to react.  The mutant records the answer  *)
(* before the call, and the call fails.                                    *)
MutantSet(f, done, failed) == form' = done /\ UNCHANGED dom

Set(f, done, failed) ==
  \/ form' = failed /\ UNCHANGED dom
  \/ form' \in {done, failed} /\ dom' = dom \cup {<<run.step, f>>}

Left(x) == form' = x /\ UNCHANGED dom

(* execute_live_form: one question of a pass.                              *)
Fill(f) ==
  /\ run.pc = "fill" /\ run.mode # "synthetic" /\ f \in form.todo
  /\ LET status == Filling(form.kind[f]) IN
     \/ status # "filled" /\ Left(Recorded(form, f, status, Open))
     \/ /\ status = "filled"
        /\ Set(f, [Recorded(form, f, "filled", Open) EXCEPT !.by[f] = Mapper],
                  Recorded(form, f, "failed", Open))
  /\ UNCHANGED <<run, report>>

(* The mutant stops one mutation too late.                                 *)
MutantAffordable(x) == x.left >= 0
Affordable(x) == x.left > 0

(* _run_mutation_pass: one entry of the frozen plan.  Only an entry the    *)
(* plan refused counts as unresolved.  What was to be set is not when the  *)
(* budget is spent, the document has changed or the value does not fit; and*)
(* only a call that returns is debited.                                    *)
Mutate(f) ==
  /\ run.pc = "fill" /\ run.mode = "synthetic" /\ f \in form.todo
  /\ LET status == Decision(form.kind[f]) IN
     \/ status # "filled" /\ Left(Recorded(form, f, status, Open))
     \/ status = "filled" /\ ~ Affordable(form) /\ Left(Recorded(form, f, "skipped", {}))
     \/ /\ status = "filled" /\ Affordable(form)
        /\ \/ \E bad \in {"blocked", "intervention_needed"} : Left(Recorded(form, f, bad, {}))
           \/ Set(f, [Recorded(form, f, "filled", {}) EXCEPT !.left = @ - 1, !.by[f] = Mapper],
                     Recorded(form, f, "failed", {}))
  /\ UNCHANGED <<run, report>>

(* After the first pass the page is read once more: if something was       *)
(* filled, or, in a synthetic run, if anything was seen and there is some  *)
(* budget left.  What has no record yet was revealed.                      *)
Again ==
  IF run.mode = "synthetic" THEN Seen(form.rec) # {} /\ form.left > 0
  ELSE With(form.rec, "filled") # {}

Reobserve ==
  /\ run.pc = "fill" /\ form.todo = {} /\ form.pass = 0
  /\ IF Again
     THEN \E S \in SUBSET (Field \ Seen(form.rec)) : \E kind \in [S -> Kinds] :
            form' = Pass(form, 1, S, kind)
     ELSE form' = [form EXCEPT !.pass = 1]
  /\ UNCHANGED <<run, dom, report>>

(* execute_live_form_with_llm goes on with the questions that are open, if *)
(* a required one is; it reads the page anew, and leaves those alone that  *)
(* it does not find.                                                       *)
Filled ==
  /\ run.pc = "fill" /\ form.todo = {} /\ form.pass = 1
  /\ IF run.mode = "llm" /\ form.unresolved > 0
     THEN /\ \E S \in SUBSET {f \in Field : form.rec[f] \in Open} : \E kind \in [S -> Kinds] :
               form' = Extracted(form, S, kind)
          /\ Goto("resolve")
     ELSE Goto("check") /\ UNCHANGED form
  /\ UNCHANGED <<dom, report>>

(* The two sources that come before the model: a mapping whose value is    *)
(* valid, sure or not, and an explicit answer that can be used.            *)
Mapped(k) == k.map # "none" /\ k.valid
Told(k) == k.said # "nothing" /\ k.usable

(* What the model proposes: a word, with evidence cited or not (whatever   *)
(* that says), sure enough to be filled unasked, among the options.        *)
Reply == [word : Word, cited : BOOLEAN, sure : BOOLEAN, fits : BOOLEAN]

(* validate_answer sees a contradiction only between a yes and a no.       *)
Opposite(a, b) == {a, b} = {"yes", "no"}
Accepted(k, r) == r.fits /\ r.cited /\ ~ Opposite(k.said, r.word)

(* answer_question: no service, no answer, a malformed one or a refusal    *)
(* leave the question to the user, and so does an answer that is not sure. *)
Model(k) ==
  {Nobody} \cup {[who |-> "model", word |-> r.word] : r \in {q \in Reply : Accepted(k, q) /\ q.sure}}

(* resolve_question: the mapping, which leaves the question to the user if *)
(* it is weak; his explicit answer; and only for a question of medium risk *)
(* the model.  The mutant asks it about any.                               *)
MutantAnswers(k) == Model(k)

Answers(k) ==
  IF Mapped(k) THEN {IF k.map = "sure" THEN Mapper ELSE Nobody}
  ELSE IF Told(k) THEN {[who |-> "user", word |-> k.said]}
  ELSE IF k.risk = "medium" THEN Model(k)
  ELSE {Nobody}

(* The record of an answered question; one that is required now is no      *)
(* longer open.  The mutant takes any question off the count.              *)
MutantResolved(x, f, answer) ==
  [Handled(x, f) EXCEPT !.rec[f] = "filled", !.by[f] = answer,
            !.late = IF x.kind[f].required /\ f \notin x.asked THEN @ \cup {f} ELSE @,
            !.unresolved = IF @ = 0 THEN 0 ELSE @ - 1]

Resolved(x, f, answer) ==
  [Handled(x, f) EXCEPT !.rec[f] = "filled", !.by[f] = answer,
            !.late = IF x.kind[f].required /\ f \notin x.asked THEN @ \cup {f} ELSE @,
            !.unresolved = IF ~ x.kind[f].required \/ @ = 0 THEN @ ELSE @ - 1]

StillOpen(x, f, status) == [Handled(x, f) EXCEPT !.rec[f] = status]

(* Whether an answer fits the control is known of the mapping's alone.     *)
Resolve(f) ==
  /\ run.pc = "resolve" /\ f \in form.todo
  /\ \E a \in Answers(form.kind[f]) :
       \/ /\ a.who = "mapper" => ~ form.kind[f].fits
          /\ Left(StillOpen(form, f, "intervention_needed"))
       \/ /\ a.who # "nobody" /\ (a.who = "mapper" => form.kind[f].fits)
          /\ Set(f, Resolved(form, f, a), StillOpen(form, f, "failed"))
  /\ UNCHANGED <<run, report>>

ResolveDone ==
  /\ run.pc = "resolve" /\ form.todo = {}
  /\ Goto("check")
  /\ UNCHANGED <<form, dom, report>>

(* The page is looked at again.  review_ready: a submit control, or nothing*)
(* to go on with.                                                          *)
Unfinished ==
  \/ form.unresolved > 0
  \/ run.mode = "synthetic" /\ With(form.rec, "filled") = {}

Check(v) ==
  /\ run.pc = "check"
  /\ LET ready == ~ Unfinished /\ v \in {"submit", "nothing"}
         goes == ~ Unfinished /\ v = "continue"
     IN \/ ~ goes /\ Over(Reported, IF ready THEN "review_ready" ELSE "needs_user_input", FALSE)
        \/ /\ goes /\ report' = Reported
           /\ \E b \in Button : run' = [run EXCEPT !.pc = "click", !.next = b]
  /\ form' = NewForm
  /\ UNCHANGED dom

(***************************************************************************)
(* The specification.                                                      *)
(***************************************************************************)

Done == run.pc = "over" /\ UNCHANGED vars     \* the report is written

GoesOn ==
  \/ Start \/ Click \/ Reobserve \/ Filled \/ ResolveDone
  \/ \E v \in View : Look(v)
  \/ \E f \in Field : Fill(f) \/ Mutate(f) \/ Resolve(f)
  \/ \E v \in After : Check(v)

Next == GoesOn \/ Raise \/ Done

(* The runner is one thread.  Its navigations and what it does to a control*)
(* have a timeout; a script it evaluates in the page and the call of the   *)
(* model are assumed to return.  No call has to raise.                     *)
Spec == Init /\ [][Next]_vars /\ WF_vars(GoesOn)

(***************************************************************************)
(* Properties.                                                             *)
(***************************************************************************)

(* The values have their types; at most Budget questions of one form are   *)
(* recorded as mutated, however many passes it takes.                      *)
TypeOK ==
  /\ run \in [mode : Mode, pc : {"start", "look", "fill", "resolve", "check", "click", "over"},
              step : Steps, next : Button \cup {"none"}, seen : SUBSET (Page \X Button),
              status : {"failed", "needs_user_input", "recon_complete", "review_ready"},
              raised : BOOLEAN]
  /\ form \in [pass : {0, 1}, todo : SUBSET Field, kind : [Field -> Kind],
               rec : [Field -> Status], by : [Field -> Answer], unresolved : Nat,
               asked : SUBSET Field, late : SUBSET Field, left : 0..Budget,
               plans : [{0, 1} -> SUBSET Field], passes : 0..2]
  /\ dom \subseteq Steps \X Field
  /\ report \in [fields : [Steps -> [Field -> Status]], last : 0..MaxSteps,
                 files : [{0, 1} -> SUBSET (Steps \X Field)], chain : SUBSET (Steps \X Field)]

(* A run goes on from a form, or is ready for review at it, only when every*)
(* question that was required when it was recorded is filled, although it  *)
(* decides by a count that three passes move up and down.  The resolver    *)
(* reads anew what is required: at most as many questions are missing as   *)
(* it filled that were optional before.  (Not so in a synthetic run, which *)
(* does not count what it meant to set and could not.)                     *)
ReviewIsComplete ==
  [][run.pc = "check" /\ run.mode # "synthetic" /\ (run'.pc = "click" \/ run'.status = "review_ready")
     => Cardinality({f \in form.asked : form.rec[f] # "filled"}) =< Cardinality(form.late)]_vars

(* What the report calls filled was set on the page of its step; and what  *)
(* was set is in it as filled, as failed, or in an llm run as open: what it*)
(* calls skipped or blocked, or does not name, was not touched.  But an    *)
(* exception that ends the run loses what was set on the form it was at.   *)
ReportIsTrue ==
  run.pc = "over" =>
    \A s \in Steps, f \in Field :
      /\ report.fields[s][f] = "filled" => <<s, f>> \in dom
      /\ <<s, f>> \in dom =>
           \/ report.fields[s][f] \in {"filled", "failed"}
           \/ run.mode = "llm" /\ report.fields[s][f] = "intervention_needed"
           \/ run.raised /\ s = run.step

(* A synthetic run sets nothing that is not in a plan frozen before, the   *)
(* questions revealed on the way included, and the hash of that plan is in *)
(* the report's chain.  The plans themselves are on disk for the last form *)
(* alone (the tests' "EVERY filled field is represented by a mutate entry  *)
(* in SOME plan pass" holds of a run with one form).                       *)
MutatedIsPlanned ==
  run.mode = "synthetic" /\ run.pc = "over" =>
    \A w \in dom :
      /\ w \in report.chain \/ (run.raised /\ w[1] = run.step)
      /\ ~ run.raised /\ w[1] = report.last => w \in report.files[0] \cup report.files[1]

(* The model answers only what the passes before it left open, of medium   *)
(* risk, that neither a valid mapping nor a usable answer of the user      *)
(* settles; and it never says no where he said yes, or yes where he said   *)
(* no, even if his own answer could not be used.                           *)
ModelKeepsItsPlace ==
  [][\A f \in Field :
       LET k == form.kind[f]
           new == form'.by[f]
       IN  new # form.by[f] /\ new.who = "model" =>
             /\ form.rec[f] \in Open /\ form.by[f] = Nobody
             /\ k.risk = "medium" /\ ~ Mapped(k) /\ ~ Told(k)
             /\ ~ Opposite(k.said, new.word)]_vars

(* Whatever the pages show and however they lead back, the run ends.       *)
Ends == <>(run.pc = "over")
=============================================================================
