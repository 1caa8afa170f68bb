--------------------------- MODULE LiveRunProofs ---------------------------
(***************************************************************************)
(* Theorems about LiveRun, for every set of pages and of buttons, every    *)
(* finite set of questions of any kinds, every set of modes, every number  *)
(* of steps and every budget.                                              *)
(*                                                                         *)
(* Each part proves one invariant of the next-state relation, with one     *)
(* step for each action.                                                   *)
(***************************************************************************)
EXTENDS LiveRun, FiniteSetTheorems, TLAPS

(***************************************************************************)
(* The sets the variables range over.                                      *)
(***************************************************************************)

RunType ==
  [mode : Mode, pc : {"start", "look", "fill", "resolve", "check", "click", "over"},
   step : Steps, next : Button \cup {"none"}, seen : SUBSET (Page \X Button),
   status : {"failed", "needs_user_input", "recon_complete", "review_ready"},
   raised : BOOLEAN]

Record == [Field -> Status]

FormType ==
  [pass : {0, 1}, todo : SUBSET Field, kind : [Field -> Kind],
   rec : Record, by : [Field -> Answer], unresolved : Nat,
   asked : SUBSET Field, late : SUBSET Field, left : 0..Budget,
   plans : [{0, 1} -> SUBSET Field], passes : 0..2]

ReportType ==
  [fields : [Steps -> Record], last : 0..MaxSteps,
   files : [{0, 1} -> SUBSET (Steps \X Field)], chain : SUBSET (Steps \X Field)]

(* A form is being worked at.                                              *)
Current == run.pc \in {"fill", "resolve", "check"}

(* y is x but for i in D.                                                  *)
Changed(y, x, D, i, v) == y[i] = v /\ \A j \in D \ {i} : y[j] = x[j]

(* TypeOK, by these names.                                                 *)
LEMMA Types ==
  ASSUME TypeOK
  PROVE  run \in RunType /\ form \in FormType /\ dom \subseteq Steps \X Field /\ report \in ReportType
BY DEF TypeOK, RunType, FormType, ReportType, Record

LEMMA TypesPrime ==
  ASSUME run' \in RunType, form' \in FormType, dom' \subseteq Steps \X Field, report' \in ReportType
  PROVE  TypeOK'
BY DEF TypeOK, RunType, FormType, ReportType, Record

(***************************************************************************)
(* What the operators of the executor return.                              *)
(***************************************************************************)

LEMMA UnreadKind == Unread \in Kind
BY DEF Unread, Kind

LEMMA NewFormType ==
  /\ NewForm \in FormType
  /\ NewForm.rec = Blank /\ NewForm.by = [f \in Field |-> Nobody] /\ NewForm.asked = {}
  /\ NewForm.late = {} /\ NewForm.unresolved = 0 /\ NewForm.todo = {} /\ NewForm.passes = 0
  /\ NewForm.plans = [n \in {0, 1} |-> {}]
<1>1. Nobody \in Answer /\ Budget \in 0..Budget
  BY LiveRunAssumption DEF Nobody, Answer, Word
<1> QED BY <1>1, UnreadKind DEF NewForm, FormType, Record, Blank, Status

LEMMA ExtractedForm ==
  ASSUME NEW x \in FormType, NEW S \in SUBSET Field, NEW kind \in [S -> Kinds]
  PROVE  LET y == Extracted(x, S, kind)
         IN  /\ y \in FormType /\ y.todo = S /\ \A f \in S : y.kind[f] = kind[f]
             /\ y.pass = x.pass /\ y.rec = x.rec /\ y.by = x.by /\ y.unresolved = x.unresolved
             /\ y.asked = x.asked /\ y.late = x.late /\ y.left = x.left /\ y.plans = x.plans
             /\ y.passes = x.passes
<1> DEFINE ks == [f \in Field |-> IF f \in S THEN kind[f] ELSE Unread]
<1>1. ks \in [Field -> Kind]
  BY UnreadKind, LiveRunAssumption
<1>2. \A f \in S : ks[f] = kind[f]
  OBVIOUS
<1>3. Extracted(x, S, kind) = [x EXCEPT !.todo = S, !.kind = ks]
  BY DEF Extracted
<1> HIDE DEF ks
<1> QED BY <1>1, <1>2, <1>3 DEF FormType

LEMMA PassForm ==
  ASSUME NEW x \in FormType, NEW n \in {0, 1}, NEW S \in SUBSET Field, NEW kind \in [S -> Kinds]
  PROVE  LET y == Pass(x, n, S, kind)
         IN  /\ y \in FormType /\ y.todo = S /\ \A f \in S : y.kind[f] = kind[f]
             /\ y.pass = n /\ y.rec = x.rec /\ y.by = x.by /\ y.unresolved = x.unresolved
             /\ y.asked = x.asked /\ y.late = x.late /\ y.left = x.left
             /\ y.passes = n + 1 /\ \A m \in {0, 1} \ {n} : y.plans[m] = x.plans[m]
             /\ \A f \in Field : f \in y.plans[n] <=>
                  f \in S /\ run.mode = "synthetic" /\ Decision(kind[f]) = "filled"
<1> DEFINE z == Extracted(x, S, kind)
           plan == {f \in S : run.mode = "synthetic" /\ Decision(kind[f]) = "filled"}
<1>1. /\ z \in FormType /\ z.todo = S /\ \A f \in S : z.kind[f] = kind[f]
      /\ z.rec = x.rec /\ z.by = x.by /\ z.unresolved = x.unresolved /\ z.plans = x.plans
      /\ z.asked = x.asked /\ z.late = x.late /\ z.left = x.left
  BY ExtractedForm
<1>2. plan \in SUBSET Field /\ n + 1 \in 0..2
  OBVIOUS
<1>3. Pass(x, n, S, kind) = [z EXCEPT !.pass = n, !.passes = n + 1, !.plans[n] = plan]
  BY DEF Pass
<1> HIDE DEF z, plan
<1>4. z.plans \in [{0, 1} -> SUBSET Field]
  BY <1>1 DEF FormType
<1>5. [z.plans EXCEPT ![n] = plan] \in [{0, 1} -> SUBSET Field]
  BY <1>2, <1>4
<1>6. [z EXCEPT !.pass = n, !.passes = n + 1, !.plans[n] = plan]
        = [z EXCEPT !.pass = n, !.passes = n + 1, !.plans = [z.plans EXCEPT ![n] = plan]]
  BY <1>1 DEF FormType
<1>7. [z EXCEPT !.pass = n, !.passes = n + 1, !.plans = [z.plans EXCEPT ![n] = plan]] \in FormType
  BY <1>1, <1>2, <1>5 DEF FormType
<1>8. LET y == Pass(x, n, S, kind)
      IN  /\ y.todo = z.todo /\ y.kind = z.kind /\ y.pass = n /\ y.rec = z.rec /\ y.by = z.by
          /\ y.unresolved = z.unresolved /\ y.asked = z.asked /\ y.late = z.late
          /\ y.left = z.left /\ y.plans = [z.plans EXCEPT ![n] = plan] /\ y.passes = n + 1
  BY <1>1, <1>3, <1>6 DEF FormType
<1>9. /\ Pass(x, n, S, kind) \in FormType
      /\ Pass(x, n, S, kind).plans[n] = plan
      /\ \A m \in {0, 1} \ {n} : Pass(x, n, S, kind).plans[m] = x.plans[m]
  BY <1>1, <1>3, <1>4, <1>6, <1>7, <1>8
<1> USE DEF plan
<1> QED BY <1>1, <1>8, <1>9

LEMMA HandledForm ==
  ASSUME NEW x \in FormType, NEW f \in Field
  PROVE  LET y == Handled(x, f)
         IN  /\ y \in FormType /\ y.todo = x.todo \ {f}
             /\ \A g \in Field : g # f => y.kind[g] = x.kind[g]
             /\ y.pass = x.pass /\ y.rec = x.rec /\ y.by = x.by /\ y.unresolved = x.unresolved
             /\ y.asked = x.asked /\ y.late = x.late /\ y.left = x.left /\ y.plans = x.plans
             /\ y.passes = x.passes
<1> DEFINE ks == [x.kind EXCEPT ![f] = Unread]
<1>1. ks \in [Field -> Kind] /\ \A g \in Field : g # f => ks[g] = x.kind[g]
  BY UnreadKind DEF FormType
<1>2. Handled(x, f) = [x EXCEPT !.todo = x.todo \ {f}, !.kind = ks]
  BY DEF Handled, FormType
<1> HIDE DEF ks
<1> QED BY <1>1, <1>2 DEF FormType

(* The fields that no record of a question changes.                        *)
Keeps(y, x, f) ==
  /\ y.todo = x.todo \ {f} /\ \A g \in Field : g # f => y.kind[g] = x.kind[g]
  /\ y.pass = x.pass /\ y.plans = x.plans /\ y.passes = x.passes

LEMMA RecordedForm ==
  ASSUME NEW x \in FormType, NEW f \in Field, NEW s \in Status, NEW counts
  PROVE  LET y == Recorded(x, f, s, counts)
         IN  /\ y \in FormType /\ Keeps(y, x, f)
             /\ Changed(y.rec, x.rec, Field, f, s) /\ y.by = x.by /\ y.left = x.left /\ y.late = x.late
             /\ y.asked = IF x.kind[f].required THEN x.asked \cup {f} ELSE x.asked
             /\ y.unresolved = x.unresolved + (IF x.kind[f].required /\ s \in counts THEN 1 ELSE 0)
<1> DEFINE h == Handled(x, f)
           new == [h.rec EXCEPT ![f] = s]
           asked == IF x.kind[f].required THEN h.asked \cup {f} ELSE h.asked
           n == h.unresolved + (IF x.kind[f].required /\ s \in counts THEN 1 ELSE 0)
<1>1. /\ h \in FormType /\ h.todo = x.todo \ {f} /\ \A g \in Field : g # f => h.kind[g] = x.kind[g]
      /\ h.pass = x.pass /\ h.rec = x.rec /\ h.by = x.by /\ h.unresolved = x.unresolved
      /\ h.asked = x.asked /\ h.late = x.late /\ h.left = x.left /\ h.plans = x.plans
      /\ h.passes = x.passes
  BY HandledForm
<1>2. Recorded(x, f, s, counts) = [h EXCEPT !.rec = new, !.asked = asked, !.unresolved = n]
  BY <1>1 DEF Recorded, FormType
<1> HIDE DEF h
<1>3. new \in Record /\ asked \in SUBSET Field /\ n \in Nat
  BY <1>1 DEF FormType, Record
<1> HIDE DEF new, asked, n
<1>4. Recorded(x, f, s, counts) \in FormType
  BY <1>2, <1>3, <1>1 DEF FormType
<1>5. LET R == Recorded(x, f, s, counts)
      IN  /\ R.todo = h.todo /\ R.kind = h.kind /\ R.pass = h.pass /\ R.plans = h.plans
          /\ R.passes = h.passes /\ R.rec = new /\ R.asked = asked /\ R.unresolved = n /\ R.by = h.by
          /\ R.left = h.left /\ R.late = h.late
  BY <1>1, <1>2 DEF FormType
<1>6. Keeps(Recorded(x, f, s, counts), x, f)
  BY <1>1, <1>5 DEF Keeps
<1> QED BY <1>1, <1>4, <1>5, <1>6 DEF new, asked, n, Changed, FormType, Record

LEMMA ResolvedForm ==
  ASSUME NEW x \in FormType, NEW f \in Field, NEW a \in Answer
  PROVE  LET y == Resolved(x, f, a)
         IN  /\ y \in FormType /\ Keeps(y, x, f)
             /\ Changed(y.rec, x.rec, Field, f, "filled") /\ Changed(y.by, x.by, Field, f, a)
             /\ y.left = x.left /\ y.asked = x.asked
             /\ y.late = IF x.kind[f].required /\ f \notin x.asked THEN x.late \cup {f} ELSE x.late
             /\ y.unresolved = IF ~ x.kind[f].required \/ x.unresolved = 0
                               THEN x.unresolved ELSE x.unresolved - 1
<1> DEFINE h == Handled(x, f)
           new == [h.rec EXCEPT ![f] = "filled"]
           by == [h.by EXCEPT ![f] = a]
           late == IF x.kind[f].required /\ f \notin x.asked THEN h.late \cup {f} ELSE h.late
           n == IF ~ x.kind[f].required \/ h.unresolved = 0 THEN h.unresolved ELSE h.unresolved - 1
<1>1. /\ h \in FormType /\ h.todo = x.todo \ {f} /\ \A g \in Field : g # f => h.kind[g] = x.kind[g]
      /\ h.pass = x.pass /\ h.rec = x.rec /\ h.by = x.by /\ h.unresolved = x.unresolved
      /\ h.asked = x.asked /\ h.late = x.late /\ h.left = x.left /\ h.plans = x.plans
      /\ h.passes = x.passes
  BY HandledForm
<1>2. Resolved(x, f, a) = [h EXCEPT !.rec = new, !.by = by, !.late = late, !.unresolved = n]
  BY <1>1 DEF Resolved, FormType
<1> HIDE DEF h
<1>3. new \in Record /\ by \in [Field -> Answer] /\ late \in SUBSET Field /\ n \in Nat
  BY <1>1 DEF FormType, Record, Status
<1> HIDE DEF new, by, late, n
<1>4. Resolved(x, f, a) \in FormType
  <2> DEFINE r == [h EXCEPT !.rec = new, !.by = by]
  <2>1. r \in FormType
    BY <1>1, <1>3 DEF FormType
  <2>2. Resolved(x, f, a) = [r EXCEPT !.late = late, !.unresolved = n]
    BY <1>2
  <2> HIDE DEF r
  <2> QED BY <2>1, <2>2, <1>3 DEF FormType
<1>5. LET R == Resolved(x, f, a)
      IN  /\ R.todo = h.todo /\ R.kind = h.kind /\ R.pass = h.pass /\ R.plans = h.plans
          /\ R.passes = h.passes /\ R.rec = new /\ R.by = by /\ R.unresolved = n /\ R.late = late
          /\ R.left = h.left /\ R.asked = h.asked
  BY <1>1, <1>2 DEF FormType
<1>6. Keeps(Resolved(x, f, a), x, f)
  BY <1>1, <1>5 DEF Keeps
<1> QED BY <1>1, <1>4, <1>5, <1>6 DEF new, by, late, n, Changed, FormType, Record

LEMMA StillOpenForm ==
  ASSUME NEW x \in FormType, NEW f \in Field, NEW s \in Status
  PROVE  LET y == StillOpen(x, f, s)
         IN  /\ y \in FormType /\ Keeps(y, x, f)
             /\ Changed(y.rec, x.rec, Field, f, s) /\ y.by = x.by /\ y.left = x.left
             /\ y.asked = x.asked /\ y.late = x.late /\ y.unresolved = x.unresolved
<1> DEFINE h == Handled(x, f)
           new == [h.rec EXCEPT ![f] = s]
<1>1. /\ h \in FormType /\ h.todo = x.todo \ {f} /\ \A g \in Field : g # f => h.kind[g] = x.kind[g]
      /\ h.pass = x.pass /\ h.rec = x.rec /\ h.by = x.by /\ h.unresolved = x.unresolved
      /\ h.asked = x.asked /\ h.late = x.late /\ h.left = x.left /\ h.plans = x.plans
      /\ h.passes = x.passes
  BY HandledForm
<1>2. StillOpen(x, f, s) = [h EXCEPT !.rec = new]
  BY DEF StillOpen, FormType
<1> HIDE DEF h
<1>3. new \in Record
  BY <1>1 DEF FormType, Record
<1> HIDE DEF new
<1>4. /\ StillOpen(x, f, s) \in FormType /\ Keeps(StillOpen(x, f, s), x, f)
      /\ StillOpen(x, f, s).rec = new /\ StillOpen(x, f, s).by = x.by
      /\ StillOpen(x, f, s).left = x.left /\ StillOpen(x, f, s).asked = x.asked
      /\ StillOpen(x, f, s).late = x.late /\ StillOpen(x, f, s).unresolved = x.unresolved
  BY <1>1, <1>2, <1>3 DEF FormType, Keeps
<1> QED BY <1>1, <1>4 DEF new, Changed, FormType, Record

(* A recorded mutation of the mapper's, or an answer of it.                *)
LEMMA ByMapper ==
  ASSUME NEW y \in FormType, NEW f \in Field
  PROVE  LET z == [y EXCEPT !.by[f] = Mapper]
         IN  /\ z \in FormType /\ Changed(z.by, y.by, Field, f, Mapper)
             /\ z.todo = y.todo /\ z.kind = y.kind /\ z.pass = y.pass /\ z.rec = y.rec
             /\ z.unresolved = y.unresolved /\ z.asked = y.asked /\ z.late = y.late
             /\ z.left = y.left /\ z.plans = y.plans /\ z.passes = y.passes
<1> DEFINE by == [y.by EXCEPT ![f] = Mapper]
<1>1. by \in [Field -> Answer]
  BY DEF FormType, Mapper, Answer, Word
<1>2. [y EXCEPT !.by[f] = Mapper] = [y EXCEPT !.by = by]
  BY DEF FormType
<1> HIDE DEF by
<1>3. [y EXCEPT !.by = by] \in FormType
  BY <1>1 DEF FormType
<1> QED BY <1>2, <1>3 DEF FormType, by, Changed

LEMMA Debited ==
  ASSUME NEW y \in FormType, NEW f \in Field, y.left > 0
  PROVE  LET z == [y EXCEPT !.left = @ - 1, !.by[f] = Mapper]
         IN  /\ z \in FormType /\ Changed(z.by, y.by, Field, f, Mapper)
             /\ z.todo = y.todo /\ z.kind = y.kind /\ z.pass = y.pass /\ z.rec = y.rec
             /\ z.unresolved = y.unresolved /\ z.asked = y.asked /\ z.late = y.late
             /\ z.plans = y.plans /\ z.passes = y.passes
<1> DEFINE by == [y.by EXCEPT ![f] = Mapper]
           left == y.left - 1
<1>1. by \in [Field -> Answer]
  BY DEF FormType, Mapper, Answer, Word
<1>2. left \in 0..Budget
  BY LiveRunAssumption DEF FormType
<1>3. [y EXCEPT !.left = @ - 1, !.by[f] = Mapper] = [y EXCEPT !.left = left, !.by = by]
  BY DEF FormType
<1> HIDE DEF by, left
<1>4. [y EXCEPT !.left = left, !.by = by] \in FormType
  BY <1>1, <1>2 DEF FormType
<1> QED BY <1>3, <1>4 DEF FormType, by, Changed

(* What a report becomes when an execution is added to it.                 *)
LEMMA ReportForms ==
  ASSUME run \in RunType, form \in FormType, report \in ReportType
  PROVE  /\ Recounted \in ReportType /\ Reported \in ReportType
         /\ Changed(Recounted.fields, report.fields, Steps, run.step, form.rec)
         /\ Recounted.last = report.last /\ Recounted.files = report.files
         /\ Recounted.chain = report.chain
         /\ Changed(Reported.fields, report.fields, Steps, run.step, form.rec)
         /\ Reported.last = run.step
         /\ \A n \in {0, 1} : Reported.files[n] = IF n < form.passes THEN {run.step} \X form.plans[n]
                                                 ELSE report.files[n]
         /\ Reported.chain = report.chain \cup {run.step} \X (form.plans[0] \cup form.plans[1])
<1> DEFINE fields == [report.fields EXCEPT ![run.step] = form.rec]
           files == [n \in {0, 1} |-> IF n < form.passes THEN {run.step} \X form.plans[n]
                                      ELSE report.files[n]]
           chain == report.chain \cup {run.step} \X (form.plans[0] \cup form.plans[1])
<1>1. run.step \in Steps /\ run.step \in 0..MaxSteps
  BY LiveRunAssumption DEF RunType, Steps
<1>2. fields \in [Steps -> Record]
  BY <1>1 DEF ReportType, FormType
<1>3. files \in [{0, 1} -> SUBSET (Steps \X Field)]
  BY <1>1 DEF ReportType, FormType
<1>4. chain \in SUBSET (Steps \X Field)
  <2>1. form.plans[0] \in SUBSET Field /\ form.plans[1] \in SUBSET Field
    BY DEF FormType
  <2> QED BY <1>1, <2>1 DEF ReportType
<1>5. \A n \in {0, 1} : files[n] = IF n < form.passes THEN {run.step} \X form.plans[n]
                                   ELSE report.files[n]
  OBVIOUS
<1>6. Recounted = [report EXCEPT !.fields = fields]
  BY DEF Recounted, ReportType
<1> HIDE DEF fields
<1>7. /\ Recounted \in ReportType /\ Recounted.fields = fields /\ Recounted.last = report.last
      /\ Recounted.files = report.files /\ Recounted.chain = report.chain
  BY <1>2, <1>6 DEF ReportType
<1>8. Reported = [Recounted EXCEPT !.last = run.step, !.files = files, !.chain = chain]
  BY <1>7 DEF Reported
<1> HIDE DEF files, chain
<1>9. /\ Reported \in ReportType /\ Reported.fields = fields /\ Reported.last = run.step
      /\ Reported.files = files /\ Reported.chain = chain
  BY <1>1, <1>3, <1>4, <1>7, <1>8 DEF ReportType
<1> QED BY <1>1, <1>5, <1>7, <1>9 DEF fields, chain, Changed, ReportType

(***************************************************************************)
(* What the handling of one question does.                                 *)
(***************************************************************************)

Moved(f) ==
  /\ run' = run /\ report' = report /\ form' \in FormType
  /\ f \in form.todo /\ Keeps(form', form, f)
  /\ Changed(form'.rec, form.rec, Field, f, form'.rec[f]) /\ form'.rec[f] # "unseen"
  /\ \/ dom' = dom /\ form'.rec[f] # "filled"
     \/ dom' = dom \cup {<<run.step, f>>} /\ form'.rec[f] \in {"filled", "failed"}

(* The mapper's answer, if any.                                            *)
Mapping(f) ==
  form'.by = form.by \/ (Changed(form'.by, form.by, Field, f, Mapper) /\ form'.rec[f] = "filled")

(* A question that was required is counted when its record is open.        *)
Counted(f) ==
  /\ form'.late = form.late
  /\ form'.asked = IF form.kind[f].required THEN form.asked \cup {f} ELSE form.asked
  /\ form'.unresolved =
       form.unresolved + (IF form.kind[f].required /\ form'.rec[f] \in Open THEN 1 ELSE 0)
  /\ form'.rec[f] \in Open \cup {"filled", "skipped"}
  /\ form.kind[f].required => form'.rec[f] # "skipped"

LEMMA FillMoves ==
  ASSUME TypeOK, NEW f \in Field, Fill(f)
  PROVE  /\ run.pc = "fill" /\ run.mode # "synthetic"
         /\ Moved(f) /\ Mapping(f) /\ Counted(f)
<1> DEFINE k == form.kind[f]
           status == Filling(k)
           done == [Recorded(form, f, "filled", Open) EXCEPT !.by[f] = Mapper]
           failed == Recorded(form, f, "failed", Open)
<1>0. /\ run.pc = "fill" /\ run.mode # "synthetic" /\ f \in form.todo
      /\ run' = run /\ report' = report
  BY DEF Fill
<1>1. form \in FormType /\ form.kind[f] \in Kind /\ form.by \in [Field -> Answer] /\ form.rec \in Record
  BY Types DEF FormType
<1>2. status \in {"blocked", "skipped", "intervention_needed", "filled"}
      /\ (k.required => status # "skipped")
  BY DEF Filling, Missing
<1>3. /\ "blocked" \in Status /\ "skipped" \in Status /\ "intervention_needed" \in Status
      /\ "filled" \in Status /\ "failed" \in Status
  BY DEF Status, Open
<1>r. ASSUME NEW s \in Status, NEW counts, NEW y, y = Recorded(form, f, s, counts)
      PROVE  /\ y \in FormType /\ Keeps(y, form, f) /\ Changed(y.rec, form.rec, Field, f, s)
             /\ y.by = form.by /\ y.late = form.late
             /\ y.asked = IF form.kind[f].required THEN form.asked \cup {f} ELSE form.asked
             /\ y.unresolved =
                  form.unresolved + (IF form.kind[f].required /\ s \in counts THEN 1 ELSE 0)
  BY <1>1, <1>r, RecordedForm
<1>4. CASE status # "filled" /\ Left(Recorded(form, f, status, Open))
  <2> HIDE DEF status, k
  <2>1. form' = Recorded(form, f, status, Open) /\ dom' = dom /\ status \in Status
    BY <1>2, <1>3, <1>4 DEF Left
  <2>2. /\ form' \in FormType /\ Keeps(form', form, f)
        /\ Changed(form'.rec, form.rec, Field, f, status) /\ form'.by = form.by /\ form'.late = form.late
        /\ form'.asked = IF form.kind[f].required THEN form.asked \cup {f} ELSE form.asked
        /\ form'.unresolved =
             form.unresolved + (IF form.kind[f].required /\ status \in Open THEN 1 ELSE 0)
    BY <1>r, <2>1
  <2>3. form'.rec[f] = status
    BY <1>1, <2>2 DEF Record, Changed
  <2> QED BY <1>0, <1>2, <1>4, <2>1, <2>2, <2>3 DEF Moved, Mapping, Counted, Open, k
<1>5. CASE status = "filled" /\ Set(f, done, failed)
  <2>0. failed = Recorded(form, f, "failed", Open)
    OBVIOUS
  <2> HIDE DEF failed
  <2>1. /\ failed \in FormType /\ Keeps(failed, form, f)
        /\ Changed(failed.rec, form.rec, Field, f, "failed") /\ failed.by = form.by
        /\ failed.late = form.late
        /\ failed.asked = IF form.kind[f].required THEN form.asked \cup {f} ELSE form.asked
        /\ failed.unresolved =
             form.unresolved + (IF form.kind[f].required /\ "failed" \in Open THEN 1 ELSE 0)
    BY <1>r, <1>3, <2>0
  <2> DEFINE r == Recorded(form, f, "filled", Open)
  <2>a. r = Recorded(form, f, "filled", Open)
    OBVIOUS
  <2> HIDE DEF r
  <2>2. /\ r \in FormType /\ Keeps(r, form, f)
        /\ Changed(r.rec, form.rec, Field, f, "filled") /\ r.by = form.by
        /\ r.late = form.late
        /\ r.asked = IF form.kind[f].required THEN form.asked \cup {f} ELSE form.asked
        /\ r.unresolved =
             form.unresolved + (IF form.kind[f].required /\ "filled" \in Open THEN 1 ELSE 0)
    BY <1>r, <1>3, <2>a
  <2>3. done = [r EXCEPT !.by[f] = Mapper]
    BY DEF r
  <2> HIDE DEF done
  <2>4. /\ done \in FormType /\ Changed(done.by, r.by, Field, f, Mapper)
        /\ done.todo = r.todo /\ done.kind = r.kind /\ done.pass = r.pass /\ done.rec = r.rec
        /\ done.unresolved = r.unresolved /\ done.asked = r.asked /\ done.late = r.late
        /\ done.plans = r.plans /\ done.passes = r.passes
    BY <2>2, <2>3, ByMapper
  <2>5. Keeps(done, form, f)
    BY <2>2, <2>4 DEF Keeps
  <2>6. failed.rec[f] = "failed" /\ done.rec[f] = "filled"
    BY <1>1, <2>1, <2>2, <2>4 DEF Record, Changed
  <2> HIDE DEF status, k
  <2>7. CASE form' = failed
    <3>1. dom' = dom \/ dom' = dom \cup {<<run.step, f>>}
      BY <1>5 DEF Set, failed
    <3> QED BY <1>0, <2>1, <2>6, <2>7, <3>1 DEF Moved, Mapping, Counted, Open
  <2>8. CASE form' = done /\ dom' = dom \cup {<<run.step, f>>}
    BY <1>0, <2>2, <2>4, <2>5, <2>6, <2>8 DEF Moved, Mapping, Counted, Open
  <2> QED BY <1>5, <2>7, <2>8 DEF Set, done, failed
<1> QED BY <1>0, <1>4, <1>5 DEF Fill

LEMMA MutateMoves ==
  ASSUME TypeOK, NEW f \in Field, Mutate(f)
  PROVE  /\ run.pc = "fill" /\ run.mode = "synthetic"
         /\ Moved(f) /\ Mapping(f)
         /\ dom' = dom \/ Decision(form.kind[f]) = "filled"
<1> DEFINE k == form.kind[f]
           none == {}
           status == Decision(k)
           done == [Recorded(form, f, "filled", none) EXCEPT !.left = @ - 1, !.by[f] = Mapper]
           failed == Recorded(form, f, "failed", none)
<1>0. /\ run.pc = "fill" /\ run.mode = "synthetic" /\ f \in form.todo
      /\ run' = run /\ report' = report
  BY DEF Mutate
<1>1. /\ form \in FormType /\ form.kind[f] \in Kind /\ form.by \in [Field -> Answer] /\ form.rec \in Record
      /\ form.left \in 0..Budget
  BY Types DEF FormType
<1>2. status \in {"blocked", "skipped", "intervention_needed", "filled"}
  BY DEF Decision, Missing
<1>3. /\ "blocked" \in Status /\ "skipped" \in Status /\ "intervention_needed" \in Status
      /\ "filled" \in Status /\ "failed" \in Status
  BY DEF Status, Open
<1>r. ASSUME NEW s \in Status, NEW counts, NEW y, y = Recorded(form, f, s, counts)
      PROVE  /\ y \in FormType /\ Keeps(y, form, f) /\ Changed(y.rec, form.rec, Field, f, s)
             /\ y.by = form.by /\ y.left = form.left
  BY <1>1, <1>r, RecordedForm
<1>4. ASSUME NEW s \in {"blocked", "skipped", "intervention_needed"}, NEW counts,
             Left(Recorded(form, f, s, counts))
      PROVE  Moved(f) /\ Mapping(f) /\ dom' = dom
  <2>1. form' = Recorded(form, f, s, counts) /\ dom' = dom /\ s \in Status
    BY <1>3, <1>4 DEF Left
  <2>2. /\ form' \in FormType /\ Keeps(form', form, f)
        /\ Changed(form'.rec, form.rec, Field, f, s) /\ form'.by = form.by
    BY <1>r, <2>1
  <2>3. form'.rec[f] = s
    BY <1>1, <2>2 DEF Record, Changed
  <2> QED BY <1>0, <2>1, <2>2, <2>3 DEF Moved, Mapping
<1>5. CASE status = "filled" /\ Affordable(form) /\ Set(f, done, failed)
  <2>0. failed = Recorded(form, f, "failed", none)
    OBVIOUS
  <2> HIDE DEF failed
  <2>1. /\ failed \in FormType /\ Keeps(failed, form, f)
        /\ Changed(failed.rec, form.rec, Field, f, "failed") /\ failed.by = form.by
    BY <1>r, <1>3, <2>0
  <2> DEFINE r == Recorded(form, f, "filled", none)
  <2>a. r = Recorded(form, f, "filled", none)
    OBVIOUS
  <2> HIDE DEF r
  <2>2. /\ r \in FormType /\ Keeps(r, form, f) /\ r.left = form.left
        /\ Changed(r.rec, form.rec, Field, f, "filled") /\ r.by = form.by
    BY <1>r, <1>3, <2>a
  <2>3. done = [r EXCEPT !.left = @ - 1, !.by[f] = Mapper] /\ r.left > 0
    BY <1>5, <2>2 DEF r, Affordable
  <2> HIDE DEF done
  <2>4. /\ done \in FormType /\ Changed(done.by, r.by, Field, f, Mapper)
        /\ done.todo = r.todo /\ done.kind = r.kind /\ done.pass = r.pass /\ done.rec = r.rec
        /\ done.plans = r.plans /\ done.passes = r.passes
    BY <2>2, <2>3, Debited
  <2>5. Keeps(done, form, f)
    BY <2>2, <2>4 DEF Keeps
  <2>6. failed.rec[f] = "failed" /\ done.rec[f] = "filled"
    BY <1>1, <2>1, <2>2, <2>4 DEF Record, Changed
  <2>7. CASE form' = failed
    <3>1. dom' = dom \/ dom' = dom \cup {<<run.step, f>>}
      BY <1>5 DEF Set, failed
    <3> QED BY <1>0, <1>5, <2>1, <2>6, <2>7, <3>1 DEF Moved, Mapping
  <2>8. CASE form' = done /\ dom' = dom \cup {<<run.step, f>>}
    BY <1>0, <1>5, <2>2, <2>4, <2>5, <2>6, <2>8 DEF Moved, Mapping
  <2> QED BY <1>5, <2>7, <2>8 DEF Set, done, failed
<1> HIDE DEF status, done, failed
<1>6. CASE status # "filled" /\ Left(Recorded(form, f, status, Open))
  BY <1>0, <1>2, <1>4, <1>6
<1>7. CASE status = "filled" /\ ~ Affordable(form) /\ Left(Recorded(form, f, "skipped", none))
  BY <1>0, <1>4, <1>7
<1>8. CASE status = "filled" /\ \E bad \in {"blocked", "intervention_needed"} : Left(Recorded(form, f, bad, none))
  BY <1>0, <1>4, <1>8
<1>9. CASE status = "filled" /\ Affordable(form) /\ Set(f, done, failed)
  BY <1>0, <1>5, <1>9 DEF status
<1> USE DEF status, done, failed
<1> QED BY <1>6, <1>7, <1>8, <1>9 DEF Mutate

LEMMA AnswerTypes ==
  ASSUME NEW k \in Kind, NEW a \in Answers(k)
  PROVE  /\ a \in Answer
         /\ a.who = "model" => /\ k.risk = "medium" /\ ~ Mapped(k) /\ ~ Told(k)
                               /\ ~ Opposite(k.said, a.word)
<1>1. Nobody \in Answer /\ Mapper \in Answer /\ Nobody.who = "nobody" /\ Mapper.who = "mapper"
  BY DEF Nobody, Mapper, Answer, Word
<1>2. CASE Mapped(k)
  BY <1>1, <1>2 DEF Answers
<1>3. CASE ~ Mapped(k) /\ Told(k)
  <2>1. a = [who |-> "user", word |-> k.said]
    BY <1>3 DEF Answers
  <2>2. k.said \in Word
    BY <1>3 DEF Told, Kind
  <2> QED BY <2>1, <2>2 DEF Answer
<1>4. CASE ~ Mapped(k) /\ ~ Told(k) /\ k.risk = "medium" /\ a # Nobody
  <2>1. a \in Model(k)
    BY <1>4 DEF Answers
  <2>2. PICK q \in Reply : Accepted(k, q) /\ a = [who |-> "model", word |-> q.word]
    BY <1>4, <2>1 DEF Model
  <2>3. a \in Answer /\ a.word = q.word
    BY <2>2 DEF Answer, Reply
  <2> QED BY <1>4, <2>2, <2>3 DEF Accepted
<1>5. CASE ~ Mapped(k) /\ ~ Told(k) /\ ~ (k.risk = "medium" /\ a # Nobody)
  <2>1. a = Nobody
    BY <1>5 DEF Answers
  <2> QED BY <1>1, <2>1
<1> QED BY <1>2, <1>3, <1>4, <1>5

(* What the resolver does with a question: it stays open, or is answered.  *)
Answered(f, a) ==
  /\ form'.rec[f] = "filled" /\ Changed(form'.by, form.by, Field, f, a)
  /\ form'.late = IF form.kind[f].required /\ f \notin form.asked
                  THEN form.late \cup {f} ELSE form.late
  /\ form'.unresolved = IF ~ form.kind[f].required \/ form.unresolved = 0
                        THEN form.unresolved ELSE form.unresolved - 1

Unanswered(f) ==
  /\ form'.rec[f] \in {"intervention_needed", "failed"}
  /\ form'.by = form.by /\ form'.late = form.late /\ form'.unresolved = form.unresolved

LEMMA ResolveMoves ==
  ASSUME TypeOK, NEW f \in Field, Resolve(f)
  PROVE  /\ run.pc = "resolve" /\ Moved(f) /\ form'.asked = form.asked
         /\ Unanswered(f) \/ \E a \in Answers(form.kind[f]) : Answered(f, a)
<1>0. run.pc = "resolve" /\ f \in form.todo /\ run' = run /\ report' = report
  BY DEF Resolve
<1>1. /\ form \in FormType /\ form.kind[f] \in Kind /\ form.by \in [Field -> Answer]
      /\ form.rec \in Record
  BY Types DEF FormType
<1>2. "intervention_needed" \in Status /\ "failed" \in Status
  BY DEF Status, Open
<1>3. ASSUME NEW s \in {"intervention_needed", "failed"}, form' = StillOpen(form, f, s),
             dom' = dom \/ (s = "failed" /\ dom' = dom \cup {<<run.step, f>>})
      PROVE  Moved(f) /\ form'.asked = form.asked /\ Unanswered(f)
  <2>1. /\ form' \in FormType /\ Keeps(form', form, f)
        /\ Changed(form'.rec, form.rec, Field, f, s) /\ form'.by = form.by /\ form'.left = form.left
        /\ form'.asked = form.asked /\ form'.late = form.late /\ form'.unresolved = form.unresolved
    BY <1>1, <1>2, <1>3, StillOpenForm
  <2>2. form'.rec[f] = s
    BY <2>1 DEF Changed
  <2> QED BY <1>0, <1>3, <2>1, <2>2 DEF Moved, Unanswered
<1>4. ASSUME NEW a \in Answers(form.kind[f]), form' = Resolved(form, f, a),
             dom' = dom \cup {<<run.step, f>>}
      PROVE  Moved(f) /\ form'.asked = form.asked /\ Answered(f, a)
  <2>1. a \in Answer
    BY <1>1, AnswerTypes
  <2>2. /\ form' \in FormType /\ Keeps(form', form, f)
        /\ Changed(form'.rec, form.rec, Field, f, "filled") /\ Changed(form'.by, form.by, Field, f, a)
        /\ form'.asked = form.asked
        /\ form'.late = IF form.kind[f].required /\ f \notin form.asked
                        THEN form.late \cup {f} ELSE form.late
        /\ form'.unresolved = IF ~ form.kind[f].required \/ form.unresolved = 0
                              THEN form.unresolved ELSE form.unresolved - 1
    BY <1>1, <1>4, <2>1, ResolvedForm
  <2>3. form'.rec[f] = "filled"
    BY <2>2 DEF Changed
  <2> QED BY <1>0, <1>4, <2>2, <2>3 DEF Moved, Answered
<1>5. PICK a \in Answers(form.kind[f]) :
        \/ Left(StillOpen(form, f, "intervention_needed"))
        \/ Set(f, Resolved(form, f, a), StillOpen(form, f, "failed"))
  BY DEF Resolve
<1>6. CASE Left(StillOpen(form, f, "intervention_needed"))
  BY <1>0, <1>3, <1>6 DEF Left
<1>7. CASE Set(f, Resolved(form, f, a), StillOpen(form, f, "failed"))
  BY <1>0, <1>3, <1>4, <1>7 DEF Set
<1> QED BY <1>5, <1>6, <1>7

(***************************************************************************)
(* Types and the phases of the executor.                                   *)
(***************************************************************************)

(* A pass looks at questions that have no record yet, the resolver at open *)
(* ones; and what is not filled was answered by nobody.                    *)
PhaseInv ==
  /\ run.pc = "fill" => \A f \in form.todo : form.rec[f] = "unseen"
  /\ run.pc = "resolve" => run.mode = "llm" /\ \A f \in form.todo : form.rec[f] \in Open
  /\ run.pc = "click" => run.next \in Button
  /\ \A f \in Field : form.rec[f] # "filled" => form.by[f] = Nobody

TypeInv == TypeOK /\ PhaseInv

LEMMA TypeInit == Init => TypeInv
<1> SUFFICES ASSUME Init PROVE TypeInv
  OBVIOUS
<1>1. /\ form = NewForm /\ NewForm \in FormType /\ NewForm.rec = Blank
      /\ NewForm.by = [f \in Field |-> Nobody] /\ NewForm.todo = {}
  BY NewFormType DEF Init
<1>2. 1 \in Steps /\ Blank \in Record
  BY LiveRunAssumption DEF Steps, Blank, Record, Status
<1>3. run \in RunType /\ dom \subseteq Steps \X Field
  BY <1>2, LiveRunAssumption DEF Init, RunType
<1>4. report \in ReportType
  BY <1>2, LiveRunAssumption DEF Init, ReportType
<1>5. TypeOK
  BY <1>1, <1>3, <1>4 DEF TypeOK, RunType, FormType, ReportType, Record
<1>6. PhaseInv
  BY <1>1, <1>3 DEF Init, PhaseInv
<1> QED BY <1>5, <1>6 DEF TypeInv

LEMMA OverType ==
  ASSUME run \in RunType, NEW r \in ReportType, NEW raised \in BOOLEAN,
         NEW s \in {"failed", "needs_user_input", "recon_complete", "review_ready"},
         Over(r, s, raised)
  PROVE  /\ run' \in RunType /\ report' \in ReportType
         /\ report' = r /\ run'.pc = "over" /\ run'.mode = run.mode /\ run'.step = run.step
         /\ run'.status = s /\ run'.raised = raised
BY DEF Over, RunType

LEMMA GotoType ==
  ASSUME run \in RunType, NEW pc \in {"look", "resolve", "fill", "check"}, Goto(pc)
  PROVE  /\ run' \in RunType /\ run'.pc = pc /\ run'.mode = run.mode /\ run'.step = run.step
         /\ run'.raised = run.raised
BY DEF Goto, RunType

LEMMA ClickType ==
  ASSUME run \in RunType, NEW b \in Button, run' = [run EXCEPT !.pc = "click", !.next = b]
  PROVE  /\ run' \in RunType /\ run'.pc = "click" /\ run'.mode = run.mode /\ run'.step = run.step
         /\ run'.raised = run.raised /\ run'.next = b
BY DEF RunType

LEMMA NextStepType ==
  ASSUME run \in RunType, report \in ReportType, NEW p \in Page, run.pc = "click",
         NextStep(<<p, run.next>>), run.next \in Button
  PROVE  /\ run' \in RunType /\ run'.mode = run.mode /\ report' = report
         /\ \/ run'.pc = "over" /\ run'.step = run.step /\ run'.raised = FALSE
            \/ run'.pc = "look" /\ run'.step = run.step + 1 /\ run'.raised = run.raised
<1>1. CASE run.step = MaxSteps
  BY <1>1, OverType DEF NextStep
<1>2. CASE run.step # MaxSteps
  <2>1. /\ run' = [run EXCEPT !.pc = "look", !.step = @ + 1, !.next = "none",
                              !.seen = @ \cup {<<p, run.next>>}]
        /\ report' = report
    BY <1>2 DEF NextStep
  <2>2. run.step + 1 \in Steps
    BY <1>2, LiveRunAssumption DEF RunType, Steps
  <2>3. run.seen \cup {<<p, run.next>>} \in SUBSET (Page \X Button)
    BY DEF RunType
  <2> QED BY <2>1, <2>2, <2>3 DEF RunType
<1> QED BY <1>1, <1>2

(* The handling of a question keeps the form's shape.                      *)
LEMMA MovedType ==
  ASSUME TypeInv, NEW f \in Field, Moved(f)
  PROVE  /\ TypeOK'
         /\ run.pc = "fill" => \A g \in form'.todo : form'.rec[g] = "unseen"
         /\ run.pc = "resolve" => \A g \in form'.todo : form'.rec[g] \in Open
<1>1. /\ run \in RunType /\ form \in FormType /\ dom \subseteq Steps \X Field /\ report \in ReportType
      /\ PhaseInv
  BY Types DEF TypeInv
<1>2. form' \in FormType /\ run' = run /\ report' = report
  BY DEF Moved
<1>3. run.step \in Steps
  BY <1>1 DEF RunType
<1>4. dom' \subseteq Steps \X Field
  BY <1>1, <1>3 DEF Moved
<1>5. TypeOK'
  BY <1>1, <1>2, <1>4, TypesPrime
<1>6. form.todo \subseteq Field /\ form'.todo = form.todo \ {f}
  BY <1>1 DEF FormType, Moved, Keeps
<1>7. \A g \in form'.todo : form'.rec[g] = form.rec[g]
  BY <1>6 DEF Moved, Changed
<1> QED BY <1>1, <1>5, <1>6, <1>7 DEF PhaseInv

LEMMA TypeStep == TypeInv /\ [Next]_vars => TypeInv'
<1> SUFFICES ASSUME TypeInv, [Next]_vars PROVE TypeInv'
  OBVIOUS
<1>t. /\ run \in RunType /\ form \in FormType /\ dom \subseteq Steps \X Field /\ report \in ReportType
      /\ TypeOK /\ PhaseInv
  BY Types DEF TypeInv
<1>n. /\ NewForm \in FormType /\ NewForm.rec = Blank /\ NewForm.todo = {}
      /\ NewForm.by = [f \in Field |-> Nobody]
  BY NewFormType
<1>b. \A f \in Field : NewForm.by[f] = Nobody
  BY <1>n
<1>f. \A f \in Field : form.rec[f] # "filled" => form.by[f] = Nobody
  BY <1>t DEF PhaseInv
<1>1. CASE Start
  <2>1. run' \in RunType /\ run'.pc = "look" /\ form' = form /\ dom' = dom /\ report' = report
    BY <1>t, <1>1, GotoType DEF Start
  <2> QED BY <1>t, <2>1, TypesPrime DEF TypeInv, PhaseInv
<1>2. CASE Raise
  <2>1. form' = NewForm /\ dom' = dom
    BY <1>2 DEF Raise
  <2>2. Recounted \in ReportType /\ Reported \in ReportType
    BY <1>t, ReportForms
  <2>3. PICK s \in {"needs_user_input", "failed"}, r \in {report, Recounted, Reported} : Over(r, s, TRUE)
    BY <1>2 DEF Raise
  <2>4. run' \in RunType /\ report' \in ReportType /\ run'.pc = "over"
    BY <1>t, <2>2, <2>3, OverType
  <2> QED BY <1>t, <1>n, <1>b, <2>1, <2>4, TypesPrime DEF TypeInv, PhaseInv
<1>3. CASE Click
  <2>1. form' = form /\ dom' = dom /\ run.pc = "click" /\ run.next \in Button
    BY <1>3, <1>t DEF Click, PhaseInv
  <2>2. PICK p \in Page : \/ Over(report, "needs_user_input", FALSE)
                          \/ NextStep(<<p, run.next>>)
    BY <1>3 DEF Click
  <2>3. run' \in RunType /\ report' \in ReportType /\ run'.pc \in {"over", "look"}
    BY <1>t, <2>1, <2>2, OverType, NextStepType
  <2> QED BY <1>t, <2>1, <2>3, TypesPrime DEF TypeInv, PhaseInv
<1>4. CASE Reobserve
  <2>1. run' = run /\ dom' = dom /\ report' = report /\ run.pc = "fill" /\ form.todo = {}
    BY <1>4 DEF Reobserve
  <2>2. CASE Again
    <3>0. PICK S \in SUBSET (Field \ Seen(form.rec)) :
             \E kind \in [S -> Kinds] : form' = Pass(form, 1, S, kind)
      BY <1>4, <2>2 DEF Reobserve
    <3>1. PICK kind \in [S -> Kinds] : form' = Pass(form, 1, S, kind)
      BY <3>0
    <3>2. form' \in FormType /\ form'.todo = S /\ form'.rec = form.rec /\ form'.by = form.by
      BY <1>t, <3>1, PassForm
    <3>3. \A f \in S : form.rec[f] = "unseen"
      BY DEF Seen
    <3> QED BY <1>t, <2>1, <3>2, <3>3, TypesPrime DEF TypeInv, PhaseInv
  <2>3. CASE ~ Again
    <3>1. form' = [form EXCEPT !.pass = 1]
      BY <1>4, <2>3 DEF Reobserve
    <3>2. form' \in FormType /\ form'.todo = {} /\ form'.rec = form.rec /\ form'.by = form.by
      BY <1>t, <2>1, <3>1 DEF FormType
    <3> QED BY <1>t, <2>1, <3>2, TypesPrime DEF TypeInv, PhaseInv
  <2> QED BY <2>2, <2>3
<1>5. CASE Filled
  <2>1. dom' = dom /\ report' = report /\ run.pc = "fill" /\ form.todo = {}
    BY <1>5 DEF Filled
  <2>2. CASE run.mode = "llm" /\ form.unresolved > 0
    <3>0. PICK S \in SUBSET {f \in Field : form.rec[f] \in Open} :
             \E kind \in [S -> Kinds] : form' = Extracted(form, S, kind)
      BY <1>5, <2>2 DEF Filled
    <3>1. PICK kind \in [S -> Kinds] : form' = Extracted(form, S, kind)
      BY <3>0
    <3>2. form' \in FormType /\ form'.todo = S /\ form'.rec = form.rec /\ form'.by = form.by
      BY <1>t, <3>1, ExtractedForm
    <3>3. run' \in RunType /\ run'.pc = "resolve" /\ run'.mode = run.mode
      BY <1>t, <1>5, <2>2, GotoType DEF Filled
    <3> QED BY <1>t, <2>1, <2>2, <3>2, <3>3, TypesPrime DEF TypeInv, PhaseInv
  <2>3. CASE ~ (run.mode = "llm" /\ form.unresolved > 0)
    <3>1. form' = form /\ run' \in RunType /\ run'.pc = "check"
      BY <1>t, <1>5, <2>3, GotoType DEF Filled
    <3> QED BY <1>t, <2>1, <3>1, TypesPrime DEF TypeInv, PhaseInv
  <2> QED BY <2>2, <2>3
<1>6. CASE ResolveDone
  <2>1. run' \in RunType /\ run'.pc = "check" /\ form' = form /\ dom' = dom /\ report' = report
    BY <1>t, <1>6, GotoType DEF ResolveDone
  <2> QED BY <1>t, <2>1, TypesPrime DEF TypeInv, PhaseInv
<1>7. ASSUME NEW v \in View, Look(v) PROVE TypeInv'
  <2>1. dom' = dom
    BY <1>7 DEF Look
  <2>2. CASE form' = form /\ (Over(report, "needs_user_input", FALSE) \/ Over(report, "recon_complete", FALSE))
    <3>1. run' \in RunType /\ report' \in ReportType /\ run'.pc = "over"
      BY <1>t, <2>2, OverType
    <3> QED BY <1>t, <2>1, <2>2, <3>1, TypesPrime DEF TypeInv, PhaseInv
  <2>3. CASE /\ \E S \in SUBSET Field : \E kind \in [S -> Kinds] : form' = Pass(NewForm, 0, S, kind)
             /\ Goto("fill") /\ report' = report
    <3>0. PICK S \in SUBSET Field : \E kind \in [S -> Kinds] : form' = Pass(NewForm, 0, S, kind)
      BY <2>3
    <3>1. PICK kind \in [S -> Kinds] : form' = Pass(NewForm, 0, S, kind)
      BY <3>0
    <3>2. form' \in FormType /\ form'.todo = S /\ form'.rec = Blank /\ form'.by = NewForm.by
      BY <1>n, <3>1, PassForm
    <3>3. run' \in RunType /\ run'.pc = "fill"
      BY <1>t, <2>3, GotoType
    <3>4. \A f \in S : Blank[f] = "unseen"
      BY DEF Blank
    <3> QED BY <1>t, <1>b, <2>1, <2>3, <3>2, <3>3, <3>4, TypesPrime DEF TypeInv, PhaseInv
  <2>4. CASE /\ \E b \in Button : run' = [run EXCEPT !.pc = "click", !.next = b]
             /\ form' = form /\ report' = report
    <3>1. run' \in RunType /\ run'.pc = "click" /\ run'.next \in Button
      BY <1>t, <2>4, ClickType
    <3> QED BY <1>t, <2>1, <2>4, <3>1, TypesPrime DEF TypeInv, PhaseInv
  <2> QED BY <1>7, <2>2, <2>3, <2>4 DEF Look
<1>8. ASSUME NEW f \in Field, Fill(f) \/ Mutate(f) PROVE TypeInv'
  <2>1. run.pc = "fill" /\ Moved(f) /\ Mapping(f)
    BY <1>t, <1>8, FillMoves, MutateMoves
  <2>2. TypeOK' /\ \A g \in form'.todo : form'.rec[g] = "unseen"
    BY <2>1, MovedType
  <2>3. \A g \in Field : form'.rec[g] # "filled" => form'.by[g] = Nobody
    BY <1>t, <1>f, <2>1 DEF Moved, Mapping, Changed, PhaseInv
  <2>4. run' = run
    BY <2>1 DEF Moved
  <2> QED BY <1>t, <2>1, <2>2, <2>3, <2>4 DEF TypeInv, PhaseInv
<1>9. ASSUME NEW f \in Field, Resolve(f) PROVE TypeInv'
  <2>1. /\ run.pc = "resolve" /\ Moved(f)
        /\ Unanswered(f) \/ \E a \in Answers(form.kind[f]) : Answered(f, a)
    BY <1>t, <1>9, ResolveMoves
  <2>2. TypeOK' /\ \A g \in form'.todo : form'.rec[g] \in Open
    BY <2>1, MovedType
  <2>3. form.rec[f] \in Open
    BY <1>t, <2>1 DEF Moved, PhaseInv
  <2>4. form.by[f] = Nobody
    BY <1>f, <2>3 DEF Open
  <2>5. \A g \in Field : form'.rec[g] # "filled" => form'.by[g] = Nobody
    BY <1>f, <2>1, <2>4 DEF Moved, Unanswered, Answered, Changed
  <2>6. run' = run
    BY <2>1 DEF Moved
  <2> QED BY <1>t, <2>1, <2>2, <2>5, <2>6 DEF TypeInv, PhaseInv
<1>10. ASSUME NEW v \in After, Check(v) PROVE TypeInv'
  <2>1. form' = NewForm /\ dom' = dom
    BY <1>10 DEF Check
  <2>2. Reported \in ReportType
    BY <1>t, ReportForms
  <2>3. /\ run' \in RunType /\ report' \in ReportType
        /\ run'.pc = "over" \/ (run'.pc = "click" /\ run'.next \in Button)
    <3>1. CASE \E s \in {"review_ready", "needs_user_input"} : Over(Reported, s, FALSE)
      BY <1>t, <2>2, <3>1, OverType
    <3>2. CASE /\ \E b \in Button : run' = [run EXCEPT !.pc = "click", !.next = b]
               /\ report' = Reported
      BY <1>t, <2>2, <3>2, ClickType
    <3> QED BY <1>10, <3>1, <3>2 DEF Check
  <2> QED BY <1>t, <1>n, <1>b, <2>1, <2>3, TypesPrime DEF TypeInv, PhaseInv
<1>11. CASE UNCHANGED vars
  BY <1>t, <1>11 DEF TypeInv, TypeOK, PhaseInv, vars
<1> QED BY <1>1, <1>2, <1>3, <1>4, <1>5, <1>6, <1>7, <1>8, <1>9, <1>10, <1>11 DEF Next, GoesOn, Done

LEMMA Typed == Spec => []TypeInv
BY TypeInit, TypeStep, PTL DEF Spec

(* The state of a run is well formed, and a form is never charged for more *)
(* mutations than its budget.                                              *)
THEOREM TypeCorrect == Spec => []TypeOK
BY Typed, PTL DEF TypeInv

(* The model answers only open questions of medium risk that nothing else  *)
(* settles, and never the opposite of a yes or no of the user.             *)
THEOREM ModelInItsPlace == Spec => ModelKeepsItsPlace
<1> DEFINE Asked(f) ==
      form'.by[f] # form.by[f] /\ form'.by[f].who = "model" =>
        /\ form.rec[f] \in Open /\ form.by[f] = Nobody
        /\ form.kind[f].risk = "medium" /\ ~ Mapped(form.kind[f]) /\ ~ Told(form.kind[f])
        /\ ~ Opposite(form.kind[f].said, form'.by[f].word)
<1>1. ASSUME TypeInv, Next, NEW f \in Field PROVE Asked(f)
  <2>t. /\ form \in FormType /\ report \in ReportType /\ run \in RunType /\ TypeOK /\ PhaseInv
    BY <1>1, Types DEF TypeInv
  <2>n. NewForm \in FormType /\ \A g \in Field : NewForm.by[g].who = "nobody"
    BY NewFormType DEF Nobody
  <2>1. CASE Start \/ ResolveDone \/ Done \/ Click
    BY <2>1 DEF Start, ResolveDone, Done, Click, vars
  <2>2. CASE Raise \/ \E v \in After : Check(v)
    BY <2>2, <2>n DEF Raise, Check
  <2>3. CASE Reobserve \/ Filled
    <3>1. /\ (\E S \in SUBSET Field : \E kind \in [S -> Kinds] :
                form' = Pass(form, 1, S, kind) \/ form' = Extracted(form, S, kind))
             \/ form' = form \/ form' = [form EXCEPT !.pass = 1]
      BY <2>3 DEF Reobserve, Filled
    <3>2. ASSUME NEW S \in SUBSET Field, NEW kind \in [S -> Kinds],
                 form' = Pass(form, 1, S, kind) \/ form' = Extracted(form, S, kind)
          PROVE  form'.by = form.by
      BY <2>t, <3>2, PassForm, ExtractedForm
    <3>3. form'.by = form.by
      BY <2>t, <3>1, <3>2 DEF FormType
    <3> QED BY <3>3
  <2>4. ASSUME NEW v \in View, Look(v) PROVE Asked(f)
    <3>1. \/ form' = form
          \/ \E S \in SUBSET Field : \E kind \in [S -> Kinds] : form' = Pass(NewForm, 0, S, kind)
      BY <2>4 DEF Look
    <3>2. ASSUME NEW S \in SUBSET Field, NEW kind \in [S -> Kinds],
                 form' = Pass(NewForm, 0, S, kind)
          PROVE  form'.by = NewForm.by
      BY <2>n, <3>2, PassForm
    <3>3. form'.by = form.by \/ form'.by = NewForm.by
      BY <3>1, <3>2
    <3> QED BY <2>n, <3>3
  <2>5. ASSUME NEW g \in Field, Fill(g) \/ Mutate(g) PROVE Asked(f)
    <3>1. Mapping(g) /\ Mapper.who = "mapper"
      BY <2>t, <2>5, FillMoves, MutateMoves DEF Mapper
    <3> QED BY <3>1 DEF Mapping, Changed
  <2>6. ASSUME NEW g \in Field, Resolve(g) PROVE Asked(f)
    <3>1. /\ run.pc = "resolve" /\ g \in form.todo
          /\ Unanswered(g) \/ \E a \in Answers(form.kind[g]) : Answered(g, a)
      BY <2>t, <2>6, ResolveMoves DEF Moved
    <3>2. CASE Unanswered(g)
      BY <3>2 DEF Unanswered
    <3>3. ASSUME NEW a \in Answers(form.kind[g]), Answered(g, a) PROVE Asked(f)
      <4>1. form.kind[g] \in Kind
        BY <2>t DEF FormType
      <4>2. CASE f = g
        <5>1. form'.by[f] = a
          BY <3>3, <4>2 DEF Answered, Changed
        <5>2. form.rec[f] \in Open
          BY <2>t, <3>1, <4>2 DEF PhaseInv
        <5>3. form.by[f] = Nobody
          BY <2>t, <5>2 DEF PhaseInv, Open
        <5> QED BY <4>1, <4>2, <5>1, <5>2, <5>3, AnswerTypes
      <4>3. CASE f # g
        BY <3>3, <4>3 DEF Answered, Changed
      <4> QED BY <4>2, <4>3
    <3> QED BY <3>1, <3>2, <3>3
  <2> QED BY <1>1, <2>1, <2>2, <2>3, <2>4, <2>5, <2>6 DEF Next, GoesOn
<1>2. TypeInv /\ [Next]_vars => [\A f \in Field : Asked(f)]_vars
  BY <1>1
<1>3. [\A f \in Field : Asked(f)]_vars
        => [\A f \in Field :
             LET k == form.kind[f]
                 new == form'.by[f]
             IN  new # form.by[f] /\ new.who = "model" =>
                   /\ form.rec[f] \in Open /\ form.by[f] = Nobody
                   /\ k.risk = "medium" /\ ~ Mapped(k) /\ ~ Told(k)
                   /\ ~ Opposite(k.said, new.word)]_vars
  OBVIOUS
<1> HIDE DEF Asked
<1> QED BY <1>2, <1>3, Typed, PTL DEF Spec, ModelKeepsItsPlace

(***************************************************************************)
(* The steps of a run, as the invariants below see them.                   *)
(***************************************************************************)

Moves(a, b) == run.pc = a /\ run'.pc = b /\ run'.mode = run.mode
Stays == run'.step = run.step /\ run'.raised = run.raised
Still == dom' = dom /\ report' = report

(* What the frozen plan would set is in it.                                *)
Planned(x) == \A f \in x.todo : Decision(x.kind[f]) = "filled" => f \in x.plans[x.pass]

Walked == (Moves("start", "look") \/ Moves("look", "click")) /\ Stays /\ Still /\ form' = form

Passed ==
  /\ Moves("click", "look") /\ run'.step = run.step + 1 /\ run'.raised = run.raised
  /\ Still /\ form' = form

Stopped ==
  /\ Moves("look", "over") \/ Moves("click", "over")
  /\ run'.step = run.step /\ run'.raised = FALSE /\ Still /\ form' = form

Broke ==
  /\ run.pc # "over" /\ run'.pc = "over" /\ run'.mode = run.mode /\ run'.step = run.step
  /\ run'.raised = TRUE /\ run'.status \in {"needs_user_input", "failed"}
  /\ form' = NewForm /\ dom' = dom
  /\ report' = report \/ (run.pc = "check" /\ report' \in {Recounted, Reported})

Opened ==
  /\ Moves("look", "fill") /\ Stays /\ Still
  /\ form'.rec = Blank /\ form'.asked = {} /\ form'.late = {} /\ form'.unresolved = 0
  /\ form'.pass = 0 /\ form'.passes = 1 /\ form'.plans[1] = {}
  /\ run.mode = "synthetic" => Planned(form')

SameRecords ==
  /\ form'.rec = form.rec /\ form'.asked = form.asked /\ form'.late = form.late
  /\ form'.unresolved = form.unresolved

Revealed ==
  /\ Moves("fill", "fill") /\ Stays /\ Still /\ SameRecords /\ form.pass = 0
  /\ form'.pass = 1 /\ form'.passes = 2 /\ form'.plans[0] = form.plans[0]
  /\ run.mode = "synthetic" => Planned(form')

Went ==
  /\ \/ Moves("fill", "fill") /\ form'.todo = {} /\ form'.pass = 1
     \/ Moves("fill", "resolve") /\ run.mode = "llm"
     \/ Moves("fill", "check") \/ Moves("resolve", "check")
  /\ Stays /\ Still /\ SameRecords /\ form'.plans = form.plans /\ form'.passes = form.passes

Closed ==
  /\ Moves("check", "over") \/ Moves("check", "click")
  /\ run'.step = run.step /\ run'.raised \in {run.raised, FALSE}
  /\ run'.pc = "click" \/ run'.status = "review_ready" => ~ Unfinished
  /\ form' = NewForm /\ dom' = dom /\ report' = Reported

Handling(f) ==
  /\ Moved(f)
  /\ \/ run.pc = "fill" /\ run.mode # "synthetic" /\ Counted(f)
     \/ /\ run.pc = "fill" /\ run.mode = "synthetic"
        /\ dom' = dom \/ Decision(form.kind[f]) = "filled"
     \/ /\ run.pc = "resolve" /\ form'.asked = form.asked
        /\ Unanswered(f) \/ \E a \in Answers(form.kind[f]) : Answered(f, a)

LEMMA StepKinds ==
  ASSUME TypeInv, [Next]_vars
  PROVE  \/ UNCHANGED vars
         \/ Walked \/ Passed \/ Stopped \/ Broke \/ Opened \/ Revealed \/ Went \/ Closed
         \/ \E f \in Field : Handling(f)
<1> DEFINE Goal ==
      \/ UNCHANGED vars
      \/ Walked \/ Passed \/ Stopped \/ Broke \/ Opened \/ Revealed \/ Went \/ Closed
      \/ \E f \in Field : Handling(f)
<1>t. /\ run \in RunType /\ form \in FormType /\ report \in ReportType
      /\ TypeOK /\ PhaseInv
  BY Types DEF TypeInv
<1>n. /\ NewForm \in FormType /\ NewForm.rec = Blank /\ NewForm.asked = {} /\ NewForm.late = {}
      /\ NewForm.unresolved = 0 /\ NewForm.plans[1] = {}
  BY NewFormType
<1>1. CASE Start
  <2>1. Walked
    BY <1>t, <1>1, GotoType DEF Start, Walked, Moves, Stays, Still
  <2> QED BY <2>1
<1>2. CASE Raise
  <2>0. Recounted \in ReportType /\ Reported \in ReportType
    BY <1>t, ReportForms
  <2>1. PICK s \in {"needs_user_input", "failed"},
             r \in {report} \cup (IF run.pc = "check" THEN {Recounted, Reported} ELSE {}) :
               Over(r, s, TRUE)
    BY <1>2 DEF Raise
  <2>2. r \in ReportType /\ (r = report \/ (run.pc = "check" /\ r \in {Recounted, Reported}))
    BY <1>t, <2>0
  <2>3. /\ run'.pc = "over" /\ run'.mode = run.mode /\ run'.step = run.step /\ run'.raised = TRUE
        /\ run'.status = s /\ report' = r
    BY <1>t, <2>1, <2>2, OverType
  <2>4. run.pc # "over" /\ form' = NewForm /\ dom' = dom
    BY <1>2 DEF Raise
  <2>5. Broke
    BY <2>2, <2>3, <2>4 DEF Broke
  <2> QED BY <2>5
<1>3. CASE Click
  <2>1. form' = form /\ dom' = dom /\ run.pc = "click" /\ run.next \in Button
    BY <1>3, <1>t DEF Click, PhaseInv
  <2>2. PICK p \in Page : \/ Over(report, "needs_user_input", FALSE)
                          \/ NextStep(<<p, run.next>>)
    BY <1>3 DEF Click
  <2>3. CASE Over(report, "needs_user_input", FALSE)
    <3>1. Stopped
      BY <1>t, <2>1, <2>3, OverType DEF Stopped, Moves, Still
    <3> QED BY <3>1
  <2>4. CASE NextStep(<<p, run.next>>)
    <3>1. Stopped \/ Passed
      BY <1>t, <2>1, <2>4, NextStepType DEF Stopped, Passed, Moves, Still
    <3> QED BY <3>1
  <2> QED BY <2>2, <2>3, <2>4
<1>4. CASE Reobserve
  <2>1. /\ run' = run /\ dom' = dom /\ report' = report /\ run.pc = "fill" /\ form.todo = {}
        /\ form.pass = 0
    BY <1>4 DEF Reobserve
  <2>2. CASE Again
    <3>0. PICK S \in SUBSET (Field \ Seen(form.rec)) :
             \E kind \in [S -> Kinds] : form' = Pass(form, 1, S, kind)
      BY <1>4, <2>2 DEF Reobserve
    <3>1. PICK kind \in [S -> Kinds] : form' = Pass(form, 1, S, kind)
      BY <3>0
    <3>2. /\ form'.rec = form.rec /\ form'.asked = form.asked /\ form'.late = form.late
          /\ form'.unresolved = form.unresolved /\ form'.pass = 1 /\ form'.passes = 1 + 1
          /\ form'.todo = S /\ \A f \in S : form'.kind[f] = kind[f]
      BY <1>t, <3>1, PassForm
    <3>4. \A m \in {0, 1} \ {1} : form'.plans[m] = form.plans[m]
      BY <1>t, <3>1, PassForm
    <3>5. \A f \in Field : f \in form'.plans[1] <=>
            f \in S /\ run.mode = "synthetic" /\ Decision(kind[f]) = "filled"
      BY <1>t, <3>1, PassForm
    <3>3. Revealed
      BY <2>1, <3>2, <3>4, <3>5 DEF Revealed, Moves, Stays, Still, SameRecords, Planned
    <3> QED BY <3>3
  <2>3. CASE ~ Again
    <3>1. form' = [form EXCEPT !.pass = 1]
      BY <1>4, <2>3 DEF Reobserve
    <3>2. Went
      BY <1>t, <2>1, <3>1 DEF Went, Moves, Stays, Still, SameRecords, FormType
    <3> QED BY <3>2
  <2> QED BY <2>2, <2>3
<1>5. CASE Filled
  <2>1. dom' = dom /\ report' = report /\ run.pc = "fill"
    BY <1>5 DEF Filled
  <2>2. CASE run.mode = "llm" /\ form.unresolved > 0
    <3>0. PICK S \in SUBSET {f \in Field : form.rec[f] \in Open} :
             \E kind \in [S -> Kinds] : form' = Extracted(form, S, kind)
      BY <1>5, <2>2 DEF Filled
    <3>1. PICK kind \in [S -> Kinds] : form' = Extracted(form, S, kind)
      BY <3>0
    <3>2. SameRecords /\ form'.plans = form.plans /\ form'.passes = form.passes
      BY <1>t, <3>1, ExtractedForm DEF SameRecords
    <3>3. Moves("fill", "resolve") /\ Stays
      BY <1>t, <1>5, <2>1, <2>2, GotoType DEF Filled, Moves, Stays
    <3>4. Went
      BY <2>1, <2>2, <3>2, <3>3 DEF Went, Still
    <3> QED BY <3>4
  <2>3. CASE ~ (run.mode = "llm" /\ form.unresolved > 0)
    <3>1. form' = form /\ Moves("fill", "check") /\ Stays
      BY <1>t, <1>5, <2>1, <2>3, GotoType DEF Filled, Moves, Stays
    <3>2. Went
      BY <2>1, <3>1 DEF Went, Still, SameRecords
    <3> QED BY <3>2
  <2> QED BY <2>2, <2>3
<1>6. CASE ResolveDone
  <2>1. Moves("resolve", "check") /\ Stays /\ form' = form /\ dom' = dom /\ report' = report
    BY <1>t, <1>6, GotoType DEF ResolveDone, Moves, Stays
  <2>2. Went
    BY <2>1 DEF Went, Still, SameRecords
  <2> QED BY <2>2
<1>7. ASSUME NEW v \in View, Look(v) PROVE Goal
  <2>1. dom' = dom /\ run.pc = "look"
    BY <1>7 DEF Look
  <2>2. CASE form' = form /\ (Over(report, "needs_user_input", FALSE) \/ Over(report, "recon_complete", FALSE))
    <3>1. Stopped
      BY <1>t, <2>1, <2>2, OverType DEF Stopped, Moves, Still
    <3> QED BY <3>1
  <2>3. CASE /\ \E S \in SUBSET Field : \E kind \in [S -> Kinds] : form' = Pass(NewForm, 0, S, kind)
             /\ Goto("fill") /\ report' = report
    <3>0. PICK S \in SUBSET Field : \E kind \in [S -> Kinds] : form' = Pass(NewForm, 0, S, kind)
      BY <2>3
    <3>1. PICK kind \in [S -> Kinds] : form' = Pass(NewForm, 0, S, kind)
      BY <3>0
    <3>2. /\ form'.rec = NewForm.rec /\ form'.asked = NewForm.asked /\ form'.late = NewForm.late
          /\ form'.unresolved = NewForm.unresolved /\ form'.pass = 0 /\ form'.passes = 0 + 1
          /\ form'.todo = S /\ \A f \in S : form'.kind[f] = kind[f]
      BY <1>n, <3>1, PassForm
    <3>6. \A m \in {0, 1} \ {0} : form'.plans[m] = NewForm.plans[m]
      BY <1>n, <3>1, PassForm
    <3>7. \A f \in Field : f \in form'.plans[0] <=>
            f \in S /\ run.mode = "synthetic" /\ Decision(kind[f]) = "filled"
      <4>1. 0 \in {0, 1}
        OBVIOUS
      <4> HIDE DEF Goal
      <4> QED BY <1>n, <3>1, <4>1, PassForm, SMTT(30)
    <3>3. Moves("look", "fill") /\ Stays
      BY <1>t, <2>1, <2>3, GotoType DEF Moves, Stays
    <3>4. run.mode = "synthetic" => Planned(form')
      BY <3>2, <3>7 DEF Planned
    <3>5. Opened
      BY <1>n, <2>1, <2>3, <3>2, <3>3, <3>4, <3>6 DEF Opened, Still
    <3> QED BY <3>5
  <2>4. CASE /\ \E b \in Button : run' = [run EXCEPT !.pc = "click", !.next = b]
             /\ form' = form /\ report' = report
    <3>1. Walked
      BY <1>t, <2>1, <2>4, ClickType DEF Walked, Moves, Stays, Still
    <3> QED BY <3>1
  <2> QED BY <1>7, <2>2, <2>3, <2>4 DEF Look
<1>8. ASSUME NEW f \in Field, Fill(f) \/ Mutate(f) \/ Resolve(f) PROVE Goal
  <2>1. Handling(f)
    BY <1>t, <1>8, FillMoves, MutateMoves, ResolveMoves DEF Handling
  <2> QED BY <2>1
<1>9. ASSUME NEW v \in After, Check(v) PROVE Goal
  <2>0. Reported \in ReportType
    BY <1>t, ReportForms
  <2>1. form' = NewForm /\ dom' = dom /\ run.pc = "check"
    BY <1>9 DEF Check
  <2>2. CASE /\ ~ Unfinished /\ \E b \in Button : run' = [run EXCEPT !.pc = "click", !.next = b]
             /\ report' = Reported
    <3>1. Closed
      BY <1>t, <2>1, <2>2, ClickType DEF Closed, Moves
    <3> QED BY <3>1
  <2>3. ASSUME NEW s \in {"review_ready", "needs_user_input"}, Over(Reported, s, FALSE),
               s = "review_ready" => ~ Unfinished
        PROVE  Goal
    <3>1. Closed
      BY <1>t, <2>0, <2>1, <2>3, OverType DEF Closed, Moves
    <3> QED BY <3>1
  <2> QED BY <1>9, <2>2, <2>3 DEF Check
<1>10. CASE UNCHANGED vars
  BY <1>10
<1> HIDE DEF Goal
<1>11. Goal
  BY <1>1, <1>2, <1>3, <1>4, <1>5, <1>6, <1>7, <1>8, <1>9, <1>10 DEF Next, GoesOn, Done, Goal
<1> QED BY <1>11 DEF Goal

(***************************************************************************)
(* The count of a review.                                                  *)
(***************************************************************************)

Lacking(x) == {f \in x.asked : x.rec[f] # "filled"}

(* What was required is filled or open; and what is not filled is counted, *)
(* but for as many as the resolver took off that were never counted.       *)
CountInv ==
  run.mode # "synthetic" =>
    /\ \A f \in form.asked : form.rec[f] \in Open \cup {"filled"}
    /\ \A f \in form.late : form.rec[f] = "filled"
    /\ Cardinality(Lacking(form)) =< form.unresolved + Cardinality(form.late)

LEMMA Finite ==
  ASSUME TypeInv
  PROVE  /\ IsFiniteSet(Lacking(form)) /\ IsFiniteSet(form.late)
         /\ Cardinality(Lacking(form)) \in Nat /\ Cardinality(form.late) \in Nat
<1>1. Lacking(form) \subseteq Field /\ form.late \subseteq Field
  BY Types DEF TypeInv, FormType, Lacking
<1> QED BY <1>1, LiveRunAssumption, FS_Subset, FS_CardinalityType

LEMMA NewCount ==
  ASSUME NEW x, x.asked = {}, x.late = {}, x.unresolved = 0
  PROVE  /\ \A f \in x.asked : x.rec[f] \in Open \cup {"filled"}
         /\ \A f \in x.late : x.rec[f] = "filled"
         /\ Cardinality(Lacking(x)) =< x.unresolved + Cardinality(x.late)
<1>1. Lacking(x) = {} /\ Cardinality({}) = 0
  BY FS_EmptySet DEF Lacking
<1> QED BY <1>1

LEMMA CountInit == Init => CountInv
<1> SUFFICES ASSUME Init PROVE CountInv
  OBVIOUS
<1>1. form.asked = {} /\ form.late = {} /\ form.unresolved = 0
  BY NewFormType DEF Init
<1> QED BY <1>1, NewCount DEF CountInv

LEMMA CountStep == TypeInv /\ CountInv /\ [Next]_vars => CountInv'
<1> SUFFICES ASSUME TypeInv, CountInv, [Next]_vars, run'.mode # "synthetic" PROVE CountInv'
  BY DEF CountInv
<1>t. form \in FormType /\ PhaseInv
  BY Types DEF TypeInv
<1>c. /\ IsFiniteSet(Lacking(form)) /\ IsFiniteSet(form.late)
      /\ Cardinality(Lacking(form)) \in Nat /\ Cardinality(form.late) \in Nat
      /\ form.unresolved \in Nat
  BY <1>t, Finite DEF FormType
<1>1. CASE UNCHANGED vars
  BY <1>1 DEF vars, CountInv, Lacking
<1>2. CASE Walked \/ Passed \/ Stopped
  BY <1>2 DEF Walked, Passed, Stopped, Moves, CountInv, Lacking
<1>3. CASE Broke \/ Closed
  <2>1. form'.asked = {} /\ form'.late = {} /\ form'.unresolved = 0
    BY <1>3, NewFormType DEF Broke, Closed
  <2> QED BY <2>1, NewCount DEF CountInv
<1>4. CASE Opened
  BY <1>4, NewCount DEF Opened, CountInv
<1>5. CASE Revealed \/ Went
  <2>1. SameRecords /\ run'.mode = run.mode
    BY <1>5 DEF Revealed, Went, Moves
  <2>2. Lacking(form') = Lacking(form)
    BY <2>1 DEF SameRecords, Lacking
  <2> QED BY <2>1, <2>2 DEF CountInv, SameRecords
<1>6. ASSUME NEW f \in Field, Handling(f) PROVE CountInv'
  <2>1. /\ run' = run /\ f \in form.todo /\ \A g \in Field : g # f => form'.rec[g] = form.rec[g]
        /\ form.asked \subseteq Field /\ form.late \subseteq Field /\ run.mode # "synthetic"
    BY <1>t, <1>6 DEF Handling, Moved, Changed, FormType
  <2>2. /\ \A g \in form.asked : form.rec[g] \in Open \cup {"filled"}
        /\ \A g \in form.late : form.rec[g] = "filled"
        /\ Cardinality(Lacking(form)) =< form.unresolved + Cardinality(form.late)
    BY <2>1 DEF CountInv
  <2>3. CASE run.pc = "fill"
    <3>1. Counted(f) /\ form.rec[f] = "unseen"
      BY <1>t, <1>6, <2>1, <2>3 DEF Handling, PhaseInv
    <3>2. f \notin form.asked /\ f \notin form.late
      BY <2>2, <3>1 DEF Open
    <3>3. CASE form.kind[f].required /\ form'.rec[f] \in Open
      <4>1. Lacking(form') = Lacking(form) \cup {f} /\ f \notin Lacking(form)
        BY <2>1, <3>1, <3>2, <3>3 DEF Counted, Lacking, Open
      <4>2. Cardinality(Lacking(form')) = Cardinality(Lacking(form)) + 1
        BY <1>c, <4>1, FS_AddElement
      <4>3. form'.unresolved = form.unresolved + 1 /\ form'.late = form.late
            /\ form'.asked = form.asked \cup {f}
        BY <3>1, <3>3 DEF Counted
      <4>4. Cardinality(Lacking(form')) =< form'.unresolved + Cardinality(form'.late)
        BY <1>c, <2>2, <4>2, <4>3
      <4>5. \A g \in form'.asked : form'.rec[g] \in Open \cup {"filled"}
        BY <2>1, <2>2, <3>3, <4>3
      <4>6. \A g \in form'.late : form'.rec[g] = "filled"
        BY <2>1, <2>2, <3>2, <4>3
      <4> QED BY <4>4, <4>5, <4>6 DEF CountInv
    <3>4. CASE ~ (form.kind[f].required /\ form'.rec[f] \in Open)
      <4>1. /\ form'.unresolved = form.unresolved /\ form'.late = form.late
            /\ form'.asked = form.asked \/ (form'.asked = form.asked \cup {f} /\ form'.rec[f] = "filled")
        BY <1>c, <3>1, <3>4 DEF Counted
      <4>2. Lacking(form') = Lacking(form)
        BY <2>1, <3>2, <4>1 DEF Lacking
      <4>3. \A g \in form'.asked : form'.rec[g] \in Open \cup {"filled"}
        BY <2>1, <2>2, <3>2, <4>1
      <4>4. \A g \in form'.late : form'.rec[g] = "filled"
        BY <2>1, <2>2, <3>2, <4>1
      <4> QED BY <2>2, <4>1, <4>2, <4>3, <4>4 DEF CountInv
    <3> QED BY <3>3, <3>4
  <2>4. CASE run.pc = "resolve"
    <3>1. /\ form.rec[f] \in Open /\ form'.asked = form.asked
          /\ Unanswered(f) \/ \E a \in Answers(form.kind[f]) : Answered(f, a)
      BY <1>t, <1>6, <2>1, <2>4 DEF Handling, PhaseInv
    <3>2. f \notin form.late
      BY <2>2, <3>1 DEF Open
    <3>3. CASE Unanswered(f)
      <4>1. form'.rec[f] \in Open /\ form'.late = form.late /\ form'.unresolved = form.unresolved
        BY <3>3 DEF Unanswered, Open
      <4>2. Lacking(form') = Lacking(form)
        BY <2>1, <3>1, <4>1 DEF Lacking, Open
      <4> QED BY <2>1, <2>2, <3>1, <3>2, <4>1, <4>2 DEF CountInv
    <3>4. CASE form'.rec[f] = "filled"
      <4>1. /\ form'.late = IF form.kind[f].required /\ f \notin form.asked
                            THEN form.late \cup {f} ELSE form.late
            /\ form'.unresolved = IF ~ form.kind[f].required \/ form.unresolved = 0
                                  THEN form.unresolved ELSE form.unresolved - 1
        BY <3>1, <3>4 DEF Answered, Unanswered
      <4>2. Lacking(form') = Lacking(form) \ {f}
        BY <2>1, <3>1, <3>4 DEF Lacking
      <4>3. f \in Lacking(form) <=> f \in form.asked
        BY <3>1 DEF Lacking, Open
      <4>4. Cardinality(Lacking(form'))
              = IF f \in form.asked THEN Cardinality(Lacking(form)) - 1 ELSE Cardinality(Lacking(form))
        <5>1. CASE f \in form.asked
          BY <1>c, <4>2, <4>3, <5>1, FS_RemoveElement
        <5>2. CASE f \notin form.asked
          <6>1. Lacking(form') = Lacking(form)
            BY <4>2, <4>3, <5>2
          <6> QED BY <5>2, <6>1
        <5> QED BY <5>1, <5>2
      <4>5. Cardinality(form'.late)
              = IF form.kind[f].required /\ f \notin form.asked
                THEN Cardinality(form.late) + 1 ELSE Cardinality(form.late)
        <5>1. Cardinality(form.late \cup {f}) = Cardinality(form.late) + 1
          BY <1>c, <3>2, FS_AddElement
        <5> QED BY <4>1, <5>1
      <4>6. Cardinality(Lacking(form')) =< form'.unresolved + Cardinality(form'.late)
        BY <1>c, <2>2, <4>1, <4>4, <4>5
      <4>7. \A g \in form'.late : form'.rec[g] = "filled"
        BY <2>1, <2>2, <3>4, <4>1
      <4>8. \A g \in form'.asked : form'.rec[g] \in Open \cup {"filled"}
        BY <2>1, <2>2, <3>1, <3>4
      <4> QED BY <4>6, <4>7, <4>8 DEF CountInv
    <3> QED BY <3>1, <3>3, <3>4 DEF Answered
  <2> QED BY <1>6, <2>3, <2>4 DEF Handling
<1> QED BY <1>1, <1>2, <1>3, <1>4, <1>5, <1>6, StepKinds

(* A run goes on from a form, or calls it ready for review, only when what *)
(* was required is filled, up to the questions that became required.       *)
THEOREM CompleteReview == Spec => ReviewIsComplete
<1> DEFINE Complete ==
      run.pc = "check" /\ run.mode # "synthetic" /\ (run'.pc = "click" \/ run'.status = "review_ready")
        => Cardinality({f \in form.asked : form.rec[f] # "filled"}) =< Cardinality(form.late)
<1>1. TypeInv /\ CountInv /\ [Next]_vars => [Complete]_vars
  <2> SUFFICES ASSUME TypeInv, CountInv, [Next]_vars, ~ UNCHANGED vars,
                      run.pc = "check", run.mode # "synthetic",
                      run'.pc = "click" \/ run'.status = "review_ready"
               PROVE  Cardinality(Lacking(form)) =< Cardinality(form.late)
    BY DEF Lacking
  <2>1. CASE Walked \/ Passed \/ Stopped \/ Broke \/ Opened \/ Revealed \/ Went
             \/ \E f \in Field : Handling(f)
    <3>1. FALSE
      BY <2>1 DEF Walked, Passed, Stopped, Broke, Opened, Revealed, Went, Moves, Handling
    <3> QED BY <3>1
  <2>2. CASE Closed
    <3>1. form.unresolved = 0
      BY <2>2, Types DEF Closed, Unfinished, TypeInv, FormType
    <3> QED BY <3>1, Finite DEF CountInv
  <2> QED BY <2>1, <2>2, StepKinds
<1>2. Spec => [](TypeInv /\ CountInv)
  BY TypeInit, TypeStep, CountInit, CountStep, PTL DEF Spec
<1>3. [Complete]_vars
        => [run.pc = "check" /\ run.mode # "synthetic"
            /\ (run'.pc = "click" \/ run'.status = "review_ready")
             => Cardinality({f \in form.asked : form.rec[f] # "filled"}) =< Cardinality(form.late)]_vars
  OBVIOUS
<1> HIDE DEF Complete
<1> QED BY <1>1, <1>2, <1>3, PTL DEF Spec, ReviewIsComplete

(***************************************************************************)
(* What was done and what is reported.                                     *)
(***************************************************************************)

(* A record that admits that the control may have been set.                *)
Touched(s) == s \in {"filled", "failed"} \/ (run.mode = "llm" /\ s = "intervention_needed")

TraceInv ==
  /\ run.raised => run.pc = "over"
  /\ \A w \in dom : w[1] =< run.step /\ (run.pc \in {"start", "look"} => w[1] < run.step)
  /\ \A s \in Steps, f \in Field : report.fields[s][f] = "filled" => <<s, f>> \in dom
  /\ Current => \A f \in Field : form.rec[f] = "filled" => <<run.step, f>> \in dom
  /\ Current => \A f \in Field : <<run.step, f>> \in dom => Touched(form.rec[f])
  /\ \A s \in Steps, f \in Field :
       <<s, f>> \in dom /\ ~ (Current /\ s = run.step) =>
         Touched(report.fields[s][f]) \/ (run.raised /\ s = run.step)

LEMMA TraceInit == Init => TraceInv
<1> SUFFICES ASSUME Init PROVE TraceInv
  OBVIOUS
<1>1. run.pc = "start" /\ run.raised = FALSE /\ dom = {}
  BY DEF Init
<1>2. \A s \in Steps, f \in Field : report.fields[s][f] = "unseen"
  BY DEF Init, Blank
<1> QED BY <1>1, <1>2 DEF TraceInv, Current

LEMMA TraceStep == TypeInv /\ TraceInv /\ [Next]_vars => TraceInv'
<1> SUFFICES ASSUME TypeInv, TraceInv, [Next]_vars PROVE TraceInv'
  OBVIOUS
<1>t. /\ run \in RunType /\ form \in FormType /\ dom \subseteq Steps \X Field /\ report \in ReportType
      /\ PhaseInv
  BY Types DEF TypeInv
<1>s. run.step \in Steps /\ run.step \in Nat /\ \A w \in dom : w[1] \in Nat
  BY <1>t, LiveRunAssumption DEF RunType, Steps
<1>1. CASE UNCHANGED vars
  BY <1>1 DEF vars, TraceInv, Current, Touched
<1>2. CASE Walked
  BY <1>2 DEF Walked, Moves, Stays, Still, TraceInv, Current, Touched
<1>3. CASE Passed
  <2>1. /\ run.pc = "click" /\ run'.pc = "look" /\ run'.step = run.step + 1 /\ run'.mode = run.mode
        /\ run'.raised = run.raised /\ dom' = dom /\ report' = report
    BY <1>3 DEF Passed, Moves, Still
  <2>2. \A w \in dom : w[1] < run.step + 1
    BY <1>s DEF TraceInv
  <2>3. ~ run.raised /\ ~ Current /\ ~ Current'
    BY <2>1 DEF TraceInv, Current
  <2> QED BY <1>s, <2>1, <2>2, <2>3 DEF TraceInv, Touched
<1>4. CASE Stopped
  <2>1. /\ run.pc \in {"look", "click"} /\ run'.pc = "over" /\ run'.step = run.step
        /\ run'.mode = run.mode /\ run'.raised = FALSE /\ dom' = dom /\ report' = report
    BY <1>4 DEF Stopped, Moves, Still
  <2>2. ~ run.raised /\ ~ Current /\ ~ Current'
    BY <2>1 DEF TraceInv, Current
  <2> QED BY <2>1, <2>2 DEF TraceInv, Touched
<1>5. CASE Broke \/ Closed
  <2>1. /\ run'.pc \in {"over", "click"} /\ run'.step = run.step /\ run'.mode = run.mode
        /\ dom' = dom /\ ~ Current' /\ (run'.raised => run'.pc = "over")
    <3>1. CASE Broke
      BY <3>1 DEF Broke, Current
    <3>2. CASE Closed
      BY <3>2 DEF Closed, Moves, Current, TraceInv
    <3> QED BY <1>5, <3>1, <3>2
  <2>2. \/ report' = report
        \/ Current /\ Changed(report'.fields, report.fields, Steps, run.step, form.rec)
    <3>1. /\ Changed(Recounted.fields, report.fields, Steps, run.step, form.rec)
          /\ Changed(Reported.fields, report.fields, Steps, run.step, form.rec)
      BY <1>t, ReportForms
    <3> QED BY <1>5, <3>1 DEF Broke, Closed, Moves, Current
  <2>3. (Closed /\ Changed(report'.fields, report.fields, Steps, run.step, form.rec) /\ Current)
          \/ (Broke /\ run'.raised)
    <3>1. Changed(Reported.fields, report.fields, Steps, run.step, form.rec)
      BY <1>t, ReportForms
    <3> QED BY <1>5, <3>1 DEF Broke, Closed, Moves, Current
  <2>4. \A s \in Steps, f \in Field : report'.fields[s][f] = "filled" => <<s, f>> \in dom
    <3> SUFFICES ASSUME NEW s \in Steps, NEW f \in Field, report'.fields[s][f] = "filled"
                 PROVE  <<s, f>> \in dom
      OBVIOUS
    <3>1. CASE report' = report
      BY <3>1 DEF TraceInv
    <3>2. CASE Current /\ Changed(report'.fields, report.fields, Steps, run.step, form.rec)
      <4>1. CASE s = run.step
        BY <3>2, <4>1 DEF Changed, TraceInv
      <4>2. CASE s # run.step
        BY <3>2, <4>2 DEF Changed, TraceInv
      <4> QED BY <4>1, <4>2
    <3> QED BY <2>2, <3>1, <3>2
  <2>5. \A s \in Steps, f \in Field :
          <<s, f>> \in dom => Touched(report'.fields[s][f]) \/ (run'.raised /\ s = run.step)
    <3> SUFFICES ASSUME NEW s \in Steps, NEW f \in Field, <<s, f>> \in dom
                 PROVE  Touched(report'.fields[s][f]) \/ (run'.raised /\ s = run.step)
      OBVIOUS
    <3>1. CASE s # run.step
      <4>1. report'.fields[s] = report.fields[s]
        BY <2>2, <3>1 DEF Changed
      <4> QED BY <3>1, <4>1 DEF TraceInv
    <3>2. CASE s = run.step /\ ~ run'.raised
      <4>1. report'.fields[s] = form.rec /\ Current
        BY <2>3, <3>2 DEF Changed
      <4> QED BY <3>2, <4>1 DEF TraceInv
    <3> QED BY <3>1, <3>2
  <2>6. \A w \in dom' : w[1] =< run'.step /\ run'.pc \notin {"start", "look"}
    BY <2>1 DEF TraceInv
  <2> QED BY <2>1, <2>4, <2>5, <2>6 DEF TraceInv, Touched
<1>6. CASE Opened
  <2>1. /\ run.pc = "look" /\ run'.pc = "fill" /\ run'.step = run.step /\ run'.mode = run.mode
        /\ run'.raised = run.raised /\ dom' = dom /\ report' = report /\ form'.rec = Blank
    BY <1>6 DEF Opened, Moves, Stays, Still
  <2>2. \A f \in Field : <<run.step, f>> \notin dom
    BY <1>s, <2>1 DEF TraceInv
  <2>3. \A f \in Field : form'.rec[f] = "unseen"
    BY <2>1 DEF Blank
  <2>4. ~ run.raised /\ ~ Current
    BY <2>1 DEF TraceInv, Current
  <2> QED BY <1>s, <2>1, <2>2, <2>3, <2>4 DEF TraceInv, Touched
<1>7. CASE Revealed \/ Went
  <2>1. /\ Current /\ Current' /\ run'.pc \notin {"start", "look"}
        /\ run'.step = run.step /\ run'.mode = run.mode
        /\ run'.raised = run.raised /\ dom' = dom /\ report' = report /\ form'.rec = form.rec
    BY <1>7 DEF Revealed, Went, Moves, Stays, Still, SameRecords, Current
  <2>2. ~ run.raised
    BY <2>1 DEF TraceInv, Current
  <2> QED BY <2>1, <2>2 DEF TraceInv, Touched
<1>8. ASSUME NEW f \in Field, Handling(f) PROVE TraceInv'
  <2>1. /\ Current /\ Current' /\ run' = run /\ report' = report /\ run.pc \notin {"start", "look"}
        /\ \A g \in Field : g # f => form'.rec[g] = form.rec[g]
        /\ \/ dom' = dom /\ form'.rec[f] # "filled"
           \/ dom' = dom \cup {<<run.step, f>>} /\ form'.rec[f] \in {"filled", "failed"}
    BY <1>8 DEF Handling, Moved, Changed, Current
  <2>2. \A w \in dom' : w[1] =< run.step
    BY <1>s, <2>1 DEF TraceInv
  <2>3. \A g \in Field : form'.rec[g] = "filled" => <<run.step, g>> \in dom'
    BY <2>1 DEF TraceInv
  <2>4. \A g \in Field : <<run.step, g>> \in dom' => Touched(form'.rec[g])
    <3> SUFFICES ASSUME NEW g \in Field, <<run.step, g>> \in dom' PROVE Touched(form'.rec[g])
      OBVIOUS
    <3>1. CASE g # f
      <4>1. <<run.step, g>> \in dom
        BY <2>1, <3>1
      <4> QED BY <2>1, <3>1, <4>1 DEF TraceInv
    <3>2. CASE g = f /\ form'.rec[f] \in {"filled", "failed"}
      BY <3>2 DEF Touched
    <3>3. CASE g = f /\ form'.rec[f] \notin {"filled", "failed"}
      <4>1. <<run.step, f>> \in dom /\ Touched(form.rec[f])
        BY <2>1, <3>3 DEF TraceInv
      <4>2. run.pc = "resolve"
        <5>1. SUFFICES ASSUME run.pc = "fill" PROVE FALSE
          BY <1>8 DEF Handling
        <5>2. form.rec[f] = "unseen"
          BY <1>t, <1>8, <5>1 DEF PhaseInv, Handling, Moved
        <5> QED BY <4>1, <5>2 DEF Touched
      <4>3. run.mode = "llm" /\ Unanswered(f)
        BY <1>t, <1>8, <3>3, <4>2 DEF PhaseInv, Handling, Answered
      <4> QED BY <3>3, <4>3 DEF Touched, Unanswered
    <3> QED BY <3>1, <3>2, <3>3
  <2>5. \A s \in Steps, g \in Field : <<s, g>> \in dom' /\ s # run.step => <<s, g>> \in dom
    BY <2>1
  <2>6. dom \subseteq dom'
    BY <2>1
  <2> QED BY <2>1, <2>2, <2>3, <2>4, <2>5, <2>6 DEF TraceInv, Touched
<1> QED BY <1>1, <1>2, <1>3, <1>4, <1>5, <1>6, <1>7, <1>8, StepKinds

(* What the report calls filled was set, and what was set the report does  *)
(* not call untouched, unless an exception lost that form's execution.     *)
THEOREM TrueReport == Spec => []ReportIsTrue
<1>1. TraceInv => ReportIsTrue
  BY DEF TraceInv, ReportIsTrue, Current, Touched
<1> QED BY <1>1, TypeInit, TypeStep, TraceInit, TraceStep, PTL DEF Spec

(***************************************************************************)
(* Frozen plans.                                                           *)
(***************************************************************************)

PlanInv ==
  run.mode = "synthetic" =>
    /\ Current => \A f \in Field : <<run.step, f>> \in dom => f \in form.plans[0] \cup form.plans[1]
    /\ run.pc = "fill" => Planned(form)
    /\ Current => form.passes = 2 \/ (form.passes = 1 /\ form.plans[1] = {})
    /\ run.pc = "fill" /\ form.pass = 0 => form.plans[1] = {}
    /\ \A w \in dom : (Current /\ w[1] = run.step) \/ w \in report.chain
                        \/ (run.raised /\ w[1] = run.step)
    /\ ~ run.raised =>
         \A w \in dom : w[1] = report.last => w \in report.files[0] \cup report.files[1]
    /\ run.pc \in {"start", "look", "fill", "resolve", "check"} => report.last < run.step
    /\ run.pc = "click" => report.last =< run.step

LEMMA PlanInit == Init => PlanInv
<1> SUFFICES ASSUME Init PROVE PlanInv
  OBVIOUS
<1>1. run.pc = "start" /\ run.step = 1 /\ dom = {} /\ report.last = 0
  BY DEF Init
<1> QED BY <1>1 DEF PlanInv, Current

LEMMA PlanStep == TypeInv /\ TraceInv /\ PlanInv /\ [Next]_vars => PlanInv'
<1> SUFFICES ASSUME TypeInv, TraceInv, PlanInv, [Next]_vars, run'.mode = "synthetic" PROVE PlanInv'
  BY DEF PlanInv
<1>t. /\ run \in RunType /\ form \in FormType /\ dom \subseteq Steps \X Field /\ report \in ReportType
      /\ PhaseInv
  BY Types DEF TypeInv
<1>s. /\ run.step \in Steps /\ run.step \in Nat /\ report.last \in Nat /\ form.todo \subseteq Field
      /\ \A w \in dom : w[1] \in Nat
  BY <1>t, LiveRunAssumption DEF RunType, ReportType, FormType, Steps
<1>1. CASE UNCHANGED vars
  BY <1>1 DEF vars, PlanInv, Current, Planned
<1>2. CASE Walked
  <2>1. /\ run'.pc \in {"look", "click"} /\ run.pc \in {"start", "look"} /\ run'.step = run.step
        /\ run'.raised = run.raised /\ dom' = dom /\ report' = report /\ run.mode = run'.mode
        /\ ~ Current /\ ~ Current'
    BY <1>2 DEF Walked, Moves, Stays, Still, Current
  <2> QED BY <1>s, <2>1 DEF PlanInv
<1>3. CASE Passed
  <2>1. /\ run.pc = "click" /\ run'.pc = "look" /\ run'.step = run.step + 1 /\ run.mode = run'.mode
        /\ run'.raised = run.raised /\ dom' = dom /\ report' = report /\ ~ Current /\ ~ Current'
    BY <1>3 DEF Passed, Moves, Still, Current
  <2>2. ~ run.raised
    BY <2>1 DEF TraceInv
  <2> QED BY <1>s, <2>1, <2>2 DEF PlanInv
<1>4. CASE Stopped
  <2>1. /\ run.pc \in {"look", "click"} /\ run'.pc = "over" /\ run'.step = run.step
        /\ run.mode = run'.mode /\ dom' = dom /\ report' = report /\ ~ Current /\ ~ Current'
    BY <1>4 DEF Stopped, Moves, Still, Current
  <2>2. ~ run.raised
    BY <2>1 DEF TraceInv
  <2> QED BY <2>1, <2>2 DEF PlanInv
<1>5. CASE Broke
  <2>1. /\ run.pc # "over" /\ run'.pc = "over" /\ run'.step = run.step
        /\ run.mode = run'.mode /\ dom' = dom /\ run'.raised /\ ~ Current'
    BY <1>5 DEF Broke, Current
  <2>2. ~ run.raised
    BY <2>1 DEF TraceInv
  <2>3. report.chain \subseteq report'.chain
    BY <1>t, <1>5, ReportForms DEF Broke
  <2>4. \A w \in dom' : w \in report'.chain \/ w[1] = run'.step
    BY <2>1, <2>2, <2>3 DEF PlanInv
  <2> QED BY <2>1, <2>4 DEF PlanInv
<1>6. CASE Closed
  <2>1. /\ run.pc = "check" /\ run'.pc \in {"over", "click"} /\ run'.step = run.step
        /\ run.mode = run'.mode /\ dom' = dom /\ report' = Reported /\ Current /\ ~ Current'
    BY <1>6 DEF Closed, Moves, Current
  <2>2. /\ report'.last = run.step
        /\ report'.chain = report.chain \cup {run.step} \X (form.plans[0] \cup form.plans[1])
        /\ \A n \in {0, 1} : report'.files[n] = IF n < form.passes THEN {run.step} \X form.plans[n]
                                               ELSE report.files[n]
    BY <1>t, <2>1, ReportForms
  <2>3. \A w \in dom : w[1] = run.step => w[2] \in form.plans[0] \cup form.plans[1] /\ w = <<w[1], w[2]>>
    BY <1>t, <2>1 DEF PlanInv
  <2>4. \A w \in dom : w[1] = run.step => w \in {run.step} \X (form.plans[0] \cup form.plans[1])
    BY <2>3
  <2>5. \A w \in dom : w \in report'.chain
    <3>1. ~ run.raised
      BY <2>1 DEF TraceInv
    <3> QED BY <2>1, <2>2, <2>4, <3>1 DEF PlanInv
  <2>6. form.passes = 2 \/ (form.passes = 1 /\ form.plans[1] = {})
    BY <2>1 DEF PlanInv
  <2>7. /\ report'.files[0] = {run.step} \X form.plans[0]
        /\ report'.files[1] = {run.step} \X form.plans[1] \/ form.plans[1] = {}
    BY <2>2, <2>6
  <2>8. \A w \in dom : w[1] = report'.last => w \in report'.files[0] \cup report'.files[1]
    BY <2>2, <2>4, <2>7
  <2>9. report'.last =< run'.step
    BY <1>s, <2>1, <2>2
  <2> QED BY <2>1, <2>5, <2>8, <2>9 DEF PlanInv
<1>7. CASE Opened
  <2>1. /\ run.pc = "look" /\ run'.pc = "fill" /\ run'.step = run.step /\ run.mode = run'.mode
        /\ run'.raised = run.raised /\ dom' = dom /\ report' = report /\ ~ Current
        /\ form'.passes = 1 /\ form'.plans[1] = {} /\ Planned(form')
    BY <1>7 DEF Opened, Moves, Stays, Still, Current
  <2>2. \A f \in Field : <<run.step, f>> \notin dom
    BY <1>s, <2>1 DEF TraceInv
  <2>3. Planned(form)'
    BY <2>1 DEF Planned
  <2> QED BY <1>s, <2>1, <2>2, <2>3 DEF PlanInv
<1>8. CASE Revealed
  <2>1. /\ run.pc = "fill" /\ run'.pc = "fill" /\ run'.step = run.step /\ run.mode = run'.mode
        /\ run'.raised = run.raised /\ dom' = dom /\ report' = report /\ Current /\ Current'
        /\ form.pass = 0 /\ form'.pass = 1 /\ form'.passes = 2 /\ form'.plans[0] = form.plans[0]
        /\ Planned(form')
    BY <1>8 DEF Revealed, Moves, Stays, Still, Current
  <2>2. \A f \in Field : <<run.step, f>> \in dom => f \in form'.plans[0] \cup form'.plans[1]
    BY <2>1 DEF PlanInv
  <2>3. Planned(form)'
    BY <2>1 DEF Planned
  <2> QED BY <1>s, <2>1, <2>2, <2>3 DEF PlanInv
<1>9. CASE Went
  <2>1. /\ run.pc \in {"fill", "resolve"} /\ run'.pc \in {"fill", "check"}
        /\ run'.step = run.step /\ run.mode = run'.mode
        /\ run'.raised = run.raised /\ dom' = dom /\ report' = report /\ Current /\ Current'
        /\ form'.plans = form.plans /\ form'.passes = form.passes
        /\ run'.pc = "fill" => form'.todo = {} /\ form'.pass = 1
    BY <1>9 DEF Went, Moves, Stays, Still, Current
  <2>2. run'.pc = "fill" => Planned(form)'
    BY <2>1 DEF Planned
  <2> QED BY <1>s, <2>1, <2>2 DEF PlanInv
<1>10. ASSUME NEW f \in Field, Handling(f) PROVE PlanInv'
  <2>1. /\ run' = run /\ report' = report /\ run.mode = "synthetic" /\ run.pc = "fill"
        /\ Current /\ Current' /\ f \in form.todo
        /\ form'.plans = form.plans /\ form'.passes = form.passes /\ form'.pass = form.pass
        /\ form'.todo = form.todo \ {f} /\ \A g \in Field : g # f => form'.kind[g] = form.kind[g]
    BY <1>t, <1>10 DEF Handling, Moved, Keeps, Current, PhaseInv
  <2>2. dom' = dom \/ (dom' = dom \cup {<<run.step, f>>} /\ Decision(form.kind[f]) = "filled")
    BY <1>10, <2>1 DEF Handling, Moved
  <2>3. Planned(form) /\ form.pass \in {0, 1}
    BY <1>t, <2>1 DEF PlanInv, FormType
  <2>4. Planned(form)'
    BY <1>s, <2>1, <2>3 DEF Planned
  <2>5. Decision(form.kind[f]) = "filled" => f \in form.plans[0] \cup form.plans[1]
    BY <2>1, <2>3 DEF Planned
  <2>6. \A g \in Field : <<run.step, g>> \in dom' => g \in form.plans[0] \cup form.plans[1]
    BY <2>1, <2>2, <2>5 DEF PlanInv
  <2>7. \A w \in dom' : w \in dom \/ w[1] = run.step
    BY <2>2
  <2>8. report.last < run.step
    BY <2>1 DEF PlanInv
  <2>9. ~ run.raised =>
          \A w \in dom' : w[1] = report.last => w \in report.files[0] \cup report.files[1]
    BY <1>s, <2>1, <2>7, <2>8 DEF PlanInv
  <2>10. \A w \in dom' : w[1] = run.step \/ w \in report.chain
    BY <2>1, <2>7 DEF PlanInv
  <2> QED BY <2>1, <2>4, <2>6, <2>8, <2>9, <2>10 DEF PlanInv
<1> QED BY <1>1, <1>2, <1>3, <1>4, <1>5, <1>6, <1>7, <1>8, <1>9, <1>10, StepKinds

(* What a synthetic run sets was frozen in a plan before: its hash is in   *)
(* the chain, and the plan itself on disk if the form was the last one.    *)
THEOREM PlannedMutations == Spec => []MutatedIsPlanned
<1>1. PlanInv => MutatedIsPlanned
  BY DEF PlanInv, MutatedIsPlanned, Current
<1> QED BY <1>1, TypeInit, TypeStep, TraceInit, TraceStep, PlanInit, PlanStep, PTL DEF Spec
=============================================================================
