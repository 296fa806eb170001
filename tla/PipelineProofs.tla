------------------------------ MODULE PipelineProofs ------------------------------
(***************************************************************************)
(* Proofs about an attempt at a document, for every family of rules, every *)
(* report of veraPDF and every number of blocking tasks: what the job's    *)
(* row tells when it is finished is true of the one PDF it names.  The     *)
(* invariant says, for each place of the attempt, which steps are settled, *)
(* what is known of the candidate, and what the row holds.                 *)
(***************************************************************************)
EXTENDS Pipeline, TLAPS

------------------------------------------------------------------------------
(* The inductive invariant *)

Pc == Working \cup Over \cup {"failing"}
StepStatus == {"pending", "running", "failed"} \cup Settled
NamedFile == [by : Made, src : {"input"} \cup Lane]
Judgement == [of : Made, verdict : Verdict]
Assessment == [of : Made, blocking : Nat]
Tags == [kinds : Nat, links : Nat]

CandidateRow ==
  [ file : {[by |-> None]} \cup NamedFile, validation : {Nil} \cup Judgement,
    report : {Nil} \cup Assessment,
    phase : {"inputs", "tagged", "validated", "assessing", "assessed", "published"} ]

JobRow ==
  [ status : {"queued", "processing", "failed"} \cup Ready, output : Made \cup {None},
    validation : {Nil} \cup [of : Made, compliant : BOOLEAN],
    fidelity : {Nil} \cup [of : Made, passed : BOOLEAN] ]

PipelineTypeOK ==
  /\ pc \in Pc
  /\ current \in Step \cup {None}
  /\ job \in JobRow
  /\ step \in [Step -> StepStatus]
  /\ refused \in BOOLEAN
  /\ {original, cand, best} \subseteq CandidateRow
  /\ lanes \in Seq(Lane)
  /\ tags \in [first : Tags, best : Tags]
  /\ source \in {"input"} \cup Lane

\* The places of an attempt that come after each step.
AfterFidelity == {"finish"}
AfterValidation == AfterFidelity \cup
  {"assess", "grounded", "structure_retry", "font_map", "reassess", "store"}
AfterTagging == AfterValidation \cup {"validating", "lanes", "validated"}
AfterAltText == AfterTagging \cup {"retag", "baseline", "tagging"}
AfterStructure == AfterAltText \cup {"alt_text", "describing"}
AfterOcr == AfterStructure \cup {"structure", "structuring"}
AfterClassify == AfterOcr \cup {"author", "repair", "preserve", "ocr", "ocring"}

\* At place p the steps before it are settled in s.
StepsAt(p, s) ==
  /\ p \in AfterClassify => s["classify"] \in Settled
  /\ p \in AfterOcr => s["ocr"] \in Settled
  /\ p \in AfterStructure => s["structure"] \in Settled
  /\ p \in AfterAltText => s["alt_text"] \in Settled
  /\ p \in AfterTagging => s["tagging"] \in Settled
  /\ p \in AfterValidation => s["validation"] \in Settled
  /\ p \in AfterFidelity => s["fidelity"] \in Settled

\* A verdict, and a report, of the candidate's own bytes.
Judged(c) == c.file \in NamedFile /\ c.validation \in Judgement /\ c.validation.of = c.file.by
Assessed(c) == Judged(c) /\ c.report \in Assessment /\ c.report.of = c.file.by

\* The links and the kinds of tags of the first file are still there.
TagsKept == /\ tags.best.links >= tags.first.links
            /\ tags.first.kinds > 0 => tags.best.kinds > 0

\* The author's own PDF is looked at and kept, or tagged no more.
Preserving == {"repair", "preserve", "store", "finish"}

\* What is known of the candidate at place p.
FilesAt(p) ==
  /\ p = "validating" => cand.file \in NamedFile /\ TagsKept
  /\ p \in {"lanes", "validated", "assess"} => Judged(cand)
  /\ p \in Preserving \cup {"grounded", "structure_retry", "font_map", "reassess"}
       => Assessed(cand)
  /\ p = "lanes" => Judged(best) /\ TagsKept /\ ~Compliant(cand.validation.verdict)
  /\ original # NoCand =>
       /\ p \in Preserving \cup {"failing"} \cup Over
       /\ p \in Preserving => Proven(cand)

\* The row names the candidate's PDF and what is known of it.
NamesCandidate ==
  /\ job.output = cand.file.by
  /\ job.validation \in [of : Made, compliant : BOOLEAN] /\ job.validation.of = cand.file.by
  /\ job.fidelity \in [of : Made, passed : BOOLEAN] /\ job.fidelity.of = cand.file.by

\* What the row holds at place p.
JobAt(p) ==
  /\ p \notin Over => job.status \in {"queued", "processing"}
  /\ p = "finish" =>
       /\ NamesCandidate
       /\ job.validation.compliant <=> Compliant(cand.validation.verdict)
       /\ job.fidelity.passed <=> Passed(cand)
  /\ job.status \in Ready => p = "ended" /\ ResultIsProven
  /\ job.status = "failed" => job = Row("failed", NoFiles)

PipelineInv ==
  /\ PipelineTypeOK
  /\ StepsAt(pc, step)
  /\ FilesAt(pc)
  /\ JobAt(pc)

------------------------------------------------------------------------------
(* Marks of steps *)

\* What _update_step leaves: the new statuses, or a failing attempt.
LEMMA MarkIs ==
  ASSUME NEW new, NEW cur, NEW next, Mark(new, cur, next)
  PROVE  /\ current' = cur /\ pc' \in {next, "failing"}
         /\ \/ step' = step /\ pc' = "failing"
            \/ step' = [n \in Step |-> IF n \in DOMAIN new THEN new[n] ELSE step[n]] /\ pc' = next
BY DEF Mark

\* A failing attempt has nothing to keep but its row.
LEMMA FailingKeeps ==
  ASSUME PipelineInv, PipelineTypeOK', pc \notin Over, pc' = "failing",
         UNCHANGED job
  PROVE  PipelineInv'
<1>1. StepsAt(pc', step')
  BY DEF StepsAt, AfterClassify, AfterOcr, AfterStructure, AfterAltText, AfterTagging,
         AfterValidation, AfterFidelity
<1>2. FilesAt(pc)'
  BY DEF FilesAt, Preserving
<1>3. JobAt(pc)'
  <2>1. job.status \in {"queued", "processing"} /\ pc' \notin Over /\ pc' # "finish"
    BY DEF PipelineInv, JobAt, Over
  <2> QED
    BY <2>1 DEF JobAt, Ready
<1> QED
  BY <1>1, <1>2, <1>3 DEF PipelineInv

\* A mark that touches neither the row nor the candidate keeps the invariant if its
\* new statuses, and what is known of the candidate, are those of the next place.
LEMMA MarkKeeps ==
  ASSUME PipelineInv, pc \notin Over,
         NEW new, NEW cur \in Step, NEW next \in Pc \ (Over \cup {"finish"}),
         Mark(new, cur, next), UNCHANGED <<job, refused, work>>,
         \A n \in DOMAIN new : new[n] \in StepStatus,
         StepsAt(next, [n \in Step |-> IF n \in DOMAIN new THEN new[n] ELSE step[n]]),
         FilesAt(next)
  PROVE  PipelineInv'
<1> DEFINE marked == [n \in Step |-> IF n \in DOMAIN new THEN new[n] ELSE step[n]]
<1>1. /\ current' = cur
      /\ \/ step' = step /\ pc' = "failing"
         \/ step' = marked /\ pc' = next
  BY MarkIs
<1>2. marked \in [Step -> StepStatus] /\ StepsAt(next, marked)
  BY DEF PipelineInv, PipelineTypeOK
<1> HIDE DEF marked
<1>3. PipelineTypeOK'
  BY <1>1, <1>2 DEF PipelineInv, PipelineTypeOK, work, Pc
<1>4. CASE pc' = "failing"
  BY <1>3, <1>4, FailingKeeps
<1>5. CASE step' = marked /\ pc' = next
  <2>1. StepsAt(pc', step')
    BY <1>2, <1>5
  <2>2. FilesAt(pc)'
    BY <1>5 DEF FilesAt, work, TagsKept
  <2>3. JobAt(pc)'
    <3>1. job.status \in {"queued", "processing"} /\ pc' \notin Over /\ pc' # "finish"
      BY <1>5 DEF PipelineInv, JobAt
    <3> QED
      BY <3>1 DEF JobAt, Ready
  <2> QED
    BY <1>3, <2>1, <2>2, <2>3 DEF PipelineInv
<1> QED
  BY <1>1, <1>4, <1>5

\* What is known at a place that is none of the candidate's.
LEMMA NoFilesAt ==
  ASSUME PipelineInv, NEW p,
         p \notin Preserving \cup {"validating", "lanes", "validated", "assess", "grounded",
                                   "structure_retry", "font_map", "reassess"},
         pc \notin Preserving \cup {"failing"} \cup Over
  PROVE  FilesAt(p)
BY DEF PipelineInv, FilesAt

\* The steps before tagging, that find out about the document: each marks one step n
\* and goes to a place that needs at most n settled besides what was.
LEMMA EarlySteps ==
  ASSUME PipelineInv,
         Classify \/ OcrBegin \/ OcrDone \/ Extract \/ Extracted \/ AltText \/ Describe
  PROVE  PipelineInv'
<1>1. PICK n \in {"classify", "ocr", "structure", "alt_text"},
           s \in {"running", "complete", "skipped", "failed"},
           next \in {"author", "ocring", "structure", "structuring", "alt_text", "describing",
                     "retag", "failing"} :
        \E new :
        /\ DOMAIN new = {n} /\ new[n] = s
        /\ Mark(new, n, next)
        /\ UNCHANGED <<job, refused, work>>
        /\ \/ pc = "classify" /\ next = "author" /\ n = "classify" /\ s \in Settled
           \/ pc = "ocr" /\ next = "ocring" /\ n = "ocr"
           \/ pc \in {"ocr", "ocring"} /\ next = "structure" /\ n = "ocr" /\ s \in Settled
           \/ pc = "structure" /\ next = "structuring" /\ n = "structure"
           \/ pc = "structuring" /\ next = "alt_text" /\ n = "structure" /\ s \in Settled
           \/ pc = "alt_text" /\ next = "describing" /\ n = "alt_text"
           \/ pc \in {"alt_text", "describing"} /\ next = "retag" /\ n = "alt_text" /\ s \in Settled
           \/ pc \in {"ocr", "ocring", "structuring", "alt_text"} /\ next = "failing"
  <2>1. \A x : /\ DOMAIN [classify |-> x] = {"classify"} /\ [classify |-> x]["classify"] = x
               /\ DOMAIN [ocr |-> x] = {"ocr"} /\ [ocr |-> x]["ocr"] = x
               /\ DOMAIN [structure |-> x] = {"structure"} /\ [structure |-> x]["structure"] = x
               /\ DOMAIN [alt_text |-> x] = {"alt_text"} /\ [alt_text |-> x]["alt_text"] = x
    OBVIOUS
  <2>2. CASE Classify
    BY <2>1, <2>2 DEF Classify, Settled
  <2>3. CASE OcrBegin
    BY <2>1, <2>3 DEF OcrBegin, Checked, Settled
  <2>4. CASE OcrDone
    BY <2>1, <2>4 DEF OcrDone, Checked, Settled
  <2>5. CASE Extract \/ Extracted
    BY <2>1, <2>5 DEF Extract, Extracted, Checked, Settled
  <2>6. CASE AltText \/ Describe
    BY <2>1, <2>6 DEF AltText, Describe, Checked, Settled
  <2> QED
    BY <2>2, <2>3, <2>4, <2>5, <2>6
<1>2. PICK new : DOMAIN new = {n} /\ new[n] = s /\ Mark(new, n, next)
  BY <1>1
<1> DEFINE marked == [m \in Step |-> IF m \in DOMAIN new THEN new[m] ELSE step[m]]
<1>3. \A m \in Step : marked[m] = IF m = n THEN s ELSE step[m]
  BY <1>2
<1>4. StepsAt(pc, step)
  BY DEF PipelineInv
<1> HIDE DEF marked
<1>5. StepsAt(next, marked)
  BY <1>1, <1>3, <1>4 DEF StepsAt, Step, AfterClassify, AfterOcr, AfterStructure, AfterAltText,
     AfterTagging, AfterValidation, AfterFidelity
<1>6. FilesAt(next)
  <2>1. CASE next = "failing"
    BY <2>1 DEF FilesAt, Preserving
  <2>2. CASE next # "failing"
    BY <1>1, <2>2, NoFilesAt DEF Preserving, Over
  <2> QED
    BY <2>1, <2>2
<1>7. pc \notin Over /\ next \in Pc \ (Over \cup {"finish"}) /\ n \in Step
  BY <1>1 DEF Over, Pc, Working, ModelCalls, Step
<1>8. \A m \in DOMAIN new : new[m] \in StepStatus
  BY <1>2 DEF StepStatus, Settled
<1> QED
  BY <1>1, <1>2, <1>5, <1>6, <1>7, <1>8, MarkKeeps DEF marked

\* The author's PDF is preserved without the steps between, and tagging begins.
LEMMA LaterMarks ==
  ASSUME PipelineInv, PreserveSteps \/ Baseline
  PROVE  PipelineInv'
<1>1. StepsAt(pc, step) /\ FilesAt(pc)
  BY DEF PipelineInv
<1>2. CASE PreserveSteps
  <2> DEFINE new == [ocr |-> "skipped", structure |-> "skipped", alt_text |-> "skipped",
                     tagging |-> "skipped", validation |-> "complete"]
             marked == [m \in Step |-> IF m \in DOMAIN new THEN new[m] ELSE step[m]]
  <2>1. /\ DOMAIN new = {"ocr", "structure", "alt_text", "tagging", "validation"}
        /\ \A m \in DOMAIN new : new[m] \in Settled
    BY DEF Settled
  <2>2. pc = "preserve" /\ Mark(new, "classify", "store") /\ UNCHANGED <<job, refused, work>>
    BY <1>2 DEF PreserveSteps
  <2> HIDE DEF new
  <2>3. \A m \in Step : marked[m] = IF m \in DOMAIN new THEN new[m] ELSE step[m]
    OBVIOUS
  <2> HIDE DEF marked
  <2>4. /\ marked["classify"] = step["classify"]
        /\ \A m \in DOMAIN new : marked[m] \in Settled
    BY <2>1, <2>3 DEF Step
  <2>5. StepsAt("store", marked)
    BY <1>1, <2>1, <2>2, <2>4 DEF StepsAt, AfterClassify, AfterOcr, AfterStructure,
       AfterAltText, AfterTagging, AfterValidation, AfterFidelity
  <2>6. FilesAt("store")
    BY <1>1, <2>2 DEF FilesAt, Preserving
  <2>7. /\ pc \notin Over /\ "store" \in Pc \ (Over \cup {"finish"}) /\ "classify" \in Step
        /\ \A m \in DOMAIN new : new[m] \in StepStatus
    BY <2>1, <2>2 DEF Over, Pc, Working, Step, StepStatus
  <2> QED
    BY <2>2, <2>5, <2>6, <2>7, MarkKeeps DEF marked
<1>3. CASE Baseline /\ refused
  <2>1. PipelineTypeOK' /\ pc \notin Over /\ pc' = "failing" /\ UNCHANGED job
    BY <1>3 DEF Baseline, PipelineInv, PipelineTypeOK, work, Over, Pc
  <2> QED
    BY <2>1, FailingKeeps
<1>4. CASE Baseline /\ ~refused
  <2> DEFINE new == [tagging |-> "running"]
             marked == [m \in Step |-> IF m \in DOMAIN new THEN new[m] ELSE step[m]]
  <2>1. DOMAIN new = {"tagging"} /\ new["tagging"] = "running"
    OBVIOUS
  <2>2. pc = "baseline" /\ Mark(new, "tagging", "tagging") /\ UNCHANGED <<job, refused, work>>
    BY <1>4 DEF Baseline
  <2> HIDE DEF new
  <2>3. \A m \in Step : marked[m] = IF m = "tagging" THEN "running" ELSE step[m]
    BY <2>1
  <2> HIDE DEF marked
  <2>4. StepsAt("tagging", marked)
    BY <1>1, <2>2, <2>3 DEF Step, StepsAt, AfterClassify, AfterOcr, AfterStructure,
       AfterAltText, AfterTagging, AfterValidation, AfterFidelity
  <2>5. FilesAt("tagging")
    BY <2>2, NoFilesAt DEF Preserving, Over
  <2>6. /\ pc \notin Over /\ "tagging" \in Pc \ (Over \cup {"finish"}) /\ "tagging" \in Step
        /\ \A m \in DOMAIN new : new[m] \in StepStatus
    BY <2>1, <2>2 DEF Over, Pc, Working, ModelCalls, Step, StepStatus
  <2> QED
    BY <2>2, <2>4, <2>5, <2>6, MarkKeeps DEF marked
<1> QED
  BY <1>2, <1>3, <1>4

------------------------------------------------------------------------------
(* The row *)

\* An attempt that raises, goes on after a refusal, is cancelled, or fails: a row that
\* failed names nothing.
LEMMA EndingSteps ==
  ASSUME PipelineInv, Raise \/ Refuse \/ Cancel \/ Handle
  PROVE  PipelineInv'
<1> USE DEF Over
<1>1. CASE Raise
  <2>1. PipelineTypeOK' /\ pc \notin Over /\ pc' = "failing" /\ UNCHANGED job
    BY <1>1 DEF Raise, PipelineInv, PipelineTypeOK, work, Working, ModelCalls, Pc
  <2> QED
    BY <2>1, FailingKeeps
<1>2. CASE Refuse
  <2>1. /\ pc \notin Over /\ refused' = TRUE
        /\ UNCHANGED <<pc, current, job, step, work>>
    BY <1>2 DEF Refuse, ModelCalls
  <2>2. PipelineTypeOK' /\ StepsAt(pc', step')
    BY <2>1 DEF PipelineInv, PipelineTypeOK, work
  <2>3. FilesAt(pc)'
    BY <2>1 DEF PipelineInv, FilesAt, work, TagsKept
  <2>4. JobAt(pc)'
    BY <2>1 DEF PipelineInv, JobAt, NamesCandidate, Ready, work
  <2> QED
    BY <2>2, <2>3, <2>4 DEF PipelineInv
<1>3. CASE Cancel
  <2>1. pc \notin Over /\ pc' = "cancelled" /\ UNCHANGED <<current, job, step, refused, work>>
    BY <1>3 DEF Cancel
  <2>2. PipelineTypeOK'
    BY <2>1 DEF PipelineInv, PipelineTypeOK, work, Pc
  <2>3. StepsAt(pc', step')
    BY <2>1 DEF StepsAt, AfterClassify, AfterOcr, AfterStructure, AfterAltText, AfterTagging,
                AfterValidation, AfterFidelity
  <2>4. FilesAt(pc)'
    BY <2>1 DEF FilesAt, Preserving
  <2>5. JobAt(pc)'
    BY <2>1 DEF PipelineInv, JobAt, Ready
  <2> QED
    BY <2>2, <2>3, <2>4, <2>5 DEF PipelineInv
<1>4. CASE Handle
  <2>1. /\ pc = "failing" /\ pc' \in {"ended", "thrown"}
        /\ job' = Row("failed", NoFiles) \/ job' = job
        /\ step' \in [Step -> StepStatus]
        /\ UNCHANGED <<current, refused, work>>
    BY <1>4 DEF Handle, PipelineInv, PipelineTypeOK, StepStatus
  <2>2. Row("failed", NoFiles) \in JobRow /\ Row("failed", NoFiles).status = "failed"
    BY DEF Row, NoFiles, JobRow, Nil
  <2>3. PipelineTypeOK'
    BY <2>1, <2>2 DEF PipelineInv, PipelineTypeOK, work, Pc
  <2>4. StepsAt(pc', step')
    BY <2>1 DEF StepsAt, AfterClassify, AfterOcr, AfterStructure, AfterAltText, AfterTagging,
                AfterValidation, AfterFidelity
  <2>5. FilesAt(pc)'
    BY <2>1 DEF FilesAt, Preserving
  <2>6. JobAt(pc)'
    BY <2>1, <2>2 DEF PipelineInv, JobAt, Ready
  <2> QED
    BY <2>3, <2>4, <2>5, <2>6 DEF PipelineInv
<1> QED
  BY <1>1, <1>2, <1>3, <1>4

\* The job is processing from the first step on, or again for a review.
LEMMA BeginningSteps ==
  ASSUME PipelineInv, Begin \/ Retag
  PROVE  PipelineInv'
<1>1. /\ UNCHANGED <<refused, work>>
      /\ job' \in {job, [job EXCEPT !.status = "processing"]}
      /\ \/ /\ pc = "start" /\ pc' \in {"classify", "failing"}
            /\ current' \in Step \cup {None} /\ step' \in [Step -> StepStatus]
         \/ /\ pc = "retag" /\ pc' \in {"baseline", "failing"}
            /\ current' = "validation" /\ step' = step
  <2>1. CASE Begin
    <3> DEFINE new == [classify |-> "running"]
    <3>1. DOMAIN new = {"classify"} /\ new["classify"] = "running"
      OBVIOUS
    <3> HIDE DEF new
    <3>2. CASE Mark(new, "classify", "classify") /\ job' = [job EXCEPT !.status = "processing"]
      <4>1. [m \in Step |-> IF m \in DOMAIN new THEN new[m] ELSE step[m]] \in [Step -> StepStatus]
        BY <3>1 DEF PipelineInv, PipelineTypeOK, StepStatus
      <4>2. step \in [Step -> StepStatus] /\ "classify" \in Step
        BY DEF PipelineInv, PipelineTypeOK, Step
      <4>3. step' \in [Step -> StepStatus] /\ current' = "classify" /\ pc' \in {"classify", "failing"}
        BY <3>2, <4>1, <4>2, MarkIs
      <4> QED
        BY <2>1, <3>2, <4>2, <4>3 DEF Begin
    <3>3. CASE UNCHANGED <<job, step, current>> /\ pc' = "failing"
      BY <2>1, <3>3 DEF Begin, PipelineInv, PipelineTypeOK
    <3> QED
      BY <2>1, <3>2, <3>3 DEF Begin, new
  <2>2. CASE Retag
    BY <2>2 DEF Retag
  <2> QED
    BY <2>1, <2>2
<1>2. job.status \in {"queued", "processing"} /\ job \in JobRow /\ pc \notin Over
  BY <1>1 DEF PipelineInv, PipelineTypeOK, JobAt, Over
<1>3. job' \in JobRow /\ job'.status \in {"queued", "processing"}
  BY <1>1, <1>2 DEF JobRow
<1>4. PipelineTypeOK'
  <2>1. "validation" \in Step
    BY DEF Step
  <2> QED
    BY <1>1, <1>3, <2>1 DEF PipelineInv, PipelineTypeOK, Pc, Working, work
<1>5. StepsAt(pc', step')
  BY <1>1 DEF PipelineInv, StepsAt, AfterClassify, AfterOcr, AfterStructure, AfterAltText,
     AfterTagging, AfterValidation, AfterFidelity
<1>6. FilesAt(pc)'
  <2>1. FilesAt(pc')
    BY <1>1 DEF PipelineInv, FilesAt, Preserving, Over
  <2> QED
    BY <1>1, <2>1 DEF FilesAt, work, TagsKept
<1>7. JobAt(pc)'
  BY <1>1, <1>3 DEF JobAt, Ready, Over
<1> QED
  BY <1>4, <1>5, <1>6, <1>7 DEF PipelineInv

------------------------------------------------------------------------------
(* The candidate *)

\* A report is of the file it was made for.
LEMMA ReportIs ==
  ASSUME NEW f, f.by \in Made, NEW v, NEW r \in Reports(f, v)
  PROVE  r \in Assessment /\ r.of = f.by
<1>1. PICK b \in (IF Compliant(v) THEN 0 ELSE 1)..MaxBlocking : r = [of |-> f.by, blocking |-> b]
  BY DEF Reports
<1>2. b \in Nat
  BY <1>1, PipelineConstants
<1> QED
  BY <1>1, <1>2 DEF Assessment

\* The same file made by another way.
LEMMA MadeBy ==
  ASSUME NEW f \in NamedFile, NEW by \in Made
  PROVE  [f EXCEPT !.by = by] \in NamedFile /\ [f EXCEPT !.by = by].by = by
BY DEF NamedFile

\* A candidate with the verdict and the report of its own file.
LEMMA CandidateIs ==
  ASSUME NEW f \in NamedFile, NEW v \in Verdict, NEW r \in Assessment, r.of = f.by
  PROVE  /\ Candidate(f, v, r) \in CandidateRow /\ Assessed(Candidate(f, v, r))
         /\ Candidate(f, v, r).file = f /\ Candidate(f, v, r).report = r
         /\ Candidate(f, v, r).validation.verdict = v
<1>1. f.by \in Made
  BY DEF NamedFile
<1>2. Validation(f, v) \in Judgement /\ Validation(f, v).of = f.by /\ Validation(f, v).verdict = v
  BY <1>1 DEF Validation, Judgement
<1> QED
  BY <1>2 DEF Candidate, CandidateRow, Assessed, Judged

\* What a step says that changes the candidate and nothing of the job.
LEMMA CandidateKeeps ==
  ASSUME PipelineInv, PipelineTypeOK', pc \notin Over, pc' \in Working \ {"finish"},
         UNCHANGED <<job, refused>>, StepsAt(pc', step'), FilesAt(pc)'
  PROVE  PipelineInv'
<1>1. job.status \in {"queued", "processing"} /\ pc' \notin Over /\ pc' # "finish"
  BY DEF PipelineInv, JobAt, Working, ModelCalls, Over
<1>2. JobAt(pc)'
  BY <1>1 DEF JobAt, Ready
<1> QED
  BY <1>2 DEF PipelineInv

\* The author's own PDF is kept only if it passes as it is, or as repaired.
LEMMA AuthorSteps ==
  ASSUME PipelineInv, AuthorUnread \/ AuthorJudged \/ Repair
  PROVE  PipelineInv'
<1>1. PipelineTypeOK /\ StepsAt(pc, step) /\ FilesAt(pc)
  BY DEF PipelineInv
<1> USE DEF AfterClassify, AfterOcr, AfterStructure, AfterAltText, AfterTagging,
            AfterValidation, AfterFidelity
<1>2. CASE AuthorUnread
  <2>1. pc = "author" /\ pc' = "ocr" /\ UNCHANGED <<current, job, step, refused, work>>
    BY <1>2 DEF AuthorUnread
  <2>2. PipelineTypeOK' /\ StepsAt(pc', step) /\ pc \notin Over /\ pc' \in Working \ {"finish"}
    BY <1>1, <2>1 DEF PipelineTypeOK, StepsAt, work, Pc, Working, Over
  <2>3. FilesAt(pc)'
    BY <1>1, <2>1 DEF FilesAt, Preserving, Over, work
  <2> QED
    BY <2>1, <2>2, <2>3, CandidateKeeps
<1>3. CASE AuthorJudged
  <2> DEFINE f == File("author_original", "input")
  <2>1. PICK v \in Verdict : \E r \in Reports(f, v) :
          IF Proven(Candidate(f, v, r))
            THEN original' = Candidate(f, v, r) /\ cand' = original' /\ pc' = "repair"
            ELSE UNCHANGED <<original, cand>> /\ pc' = "ocr"
    BY <1>3 DEF AuthorJudged
  <2>2. PICK r \in Reports(f, v) :
          IF Proven(Candidate(f, v, r))
            THEN original' = Candidate(f, v, r) /\ cand' = original' /\ pc' = "repair"
            ELSE UNCHANGED <<original, cand>> /\ pc' = "ocr"
    BY <2>1
  <2>3. pc = "author" /\ UNCHANGED <<current, job, step, refused, lanes, best, tags, source>>
    BY <1>3 DEF AuthorJudged
  <2>4. f \in NamedFile /\ f.by \in Made
    BY DEF File, NamedFile, Made, Author
  <2>5. r \in Assessment /\ r.of = f.by
    BY <2>4, ReportIs
  <2> DEFINE c == Candidate(f, v, r)
  <2>6. c \in CandidateRow /\ Assessed(c)
    BY <2>4, <2>5, CandidateIs
  <2> HIDE DEF c, f
  <2>7. StepsAt(pc', step) /\ pc \notin Over /\ pc' \in Working \ {"finish"}
    BY <1>1, <2>2, <2>3 DEF StepsAt, Working, Over
  <2>8. CASE Proven(c) /\ original' = c /\ cand' = c /\ pc' = "repair"
    <3>1. PipelineTypeOK'
      BY <1>1, <2>3, <2>6, <2>8 DEF PipelineTypeOK, Pc, Working
    <3>2. FilesAt(pc)'
      BY <2>6, <2>8 DEF FilesAt, Preserving
    <3> QED
      BY <2>3, <2>7, <3>1, <3>2, CandidateKeeps
  <2>9. CASE UNCHANGED <<original, cand>> /\ pc' = "ocr"
    <3>1. PipelineTypeOK'
      BY <1>1, <2>3, <2>9 DEF PipelineTypeOK, Pc, Working
    <3>2. FilesAt(pc)'
      BY <1>1, <2>3, <2>9 DEF FilesAt, Preserving, Over
    <3> QED
      BY <2>3, <2>7, <3>1, <3>2, CandidateKeeps
  <2> QED
    BY <2>2, <2>8, <2>9 DEF c
<1>4. CASE Repair
  <2>1. pc = "repair" /\ pc' = "preserve"
        /\ UNCHANGED <<current, job, step, refused, original, lanes, best, tags, source>>
    BY <1>4 DEF Repair
  <2>2. Assessed(cand) /\ cand \in CandidateRow /\ (original # NoCand => Proven(cand))
    BY <1>1, <2>1 DEF FilesAt, Preserving, PipelineTypeOK
  <2>3. cand' \in CandidateRow /\ Assessed(cand') /\ (original # NoCand => Proven(cand'))
    <3>1. CASE UNCHANGED cand
      BY <2>2, <3>1
    <3>2. CASE \E v \in Verdict, same \in BOOLEAN :
                 LET f == [cand.file EXCEPT !.by = "author_repaired"]
                 IN \E r \in Reports(f, v) :
                      cand' = IF same /\ Proven(Candidate(f, v, r)) THEN Candidate(f, v, r) ELSE cand
      <4> DEFINE f == [cand.file EXCEPT !.by = "author_repaired"]
      <4>1. PICK v \in Verdict, same \in BOOLEAN : \E r \in Reports(f, v) :
              cand' = IF same /\ Proven(Candidate(f, v, r)) THEN Candidate(f, v, r) ELSE cand
        BY <3>2
      <4>2. f \in NamedFile /\ f.by \in Made
        <5>1. "author_repaired" \in Made
          BY DEF Made, Author
        <5> QED
          BY <2>2, <5>1, MadeBy DEF Assessed, Judged
      <4> HIDE DEF f
      <4>3. PICK r \in Reports(f, v) :
              cand' = IF same /\ Proven(Candidate(f, v, r)) THEN Candidate(f, v, r) ELSE cand
        BY <4>1
      <4>4. r \in Assessment /\ r.of = f.by
        BY <4>2, ReportIs
      <4>5. Candidate(f, v, r) \in CandidateRow /\ Assessed(Candidate(f, v, r))
        BY <4>2, <4>4, CandidateIs
      <4> QED
        BY <2>2, <4>3, <4>5
    <3> QED
      BY <1>4, <3>1, <3>2 DEF Repair
  <2>4. PipelineTypeOK'
    BY <1>1, <2>1, <2>3 DEF PipelineTypeOK, Pc, Working
  <2>5. StepsAt(pc', step) /\ pc \notin Over /\ pc' \in Working \ {"finish"}
    BY <1>1, <2>1 DEF StepsAt, Working, Over
  <2>6. FilesAt(pc)'
    BY <2>1, <2>3 DEF FilesAt, Preserving
  <2> QED
    BY <2>1, <2>4, <2>5, <2>6, CandidateKeeps
<1> QED
  BY <1>2, <1>3, <1>4

\* The file is tagged; what is known of it is yet to be found out.
LEMMA TagSteps ==
  ASSUME PipelineInv, Tag
  PROVE  PipelineInv'
<1> DEFINE new == [tagging |-> "complete", validation |-> "running"]
<1>1. DOMAIN new = {"tagging", "validation"}
      /\ new["tagging"] = "complete" /\ new["validation"] = "running"
  OBVIOUS
<1>2. /\ pc = "tagging" /\ Mark(new, "validation", "validating")
      /\ \E t \in TagCount : tags' = [first |-> t, best |-> t]
      /\ cand' = [NoCand EXCEPT !.file = File("initial", "input"), !.phase = "tagged"]
      /\ UNCHANGED <<job, refused, original, lanes, best, source>>
  BY DEF Tag
<1> HIDE DEF new
<1>3. PipelineTypeOK /\ StepsAt(pc, step) /\ FilesAt(pc)
  BY DEF PipelineInv
<1>4. cand' \in CandidateRow /\ cand'.file \in NamedFile
  BY <1>2 DEF NoCand, Nil, File, CandidateRow, NamedFile, Made
<1>5. tags' \in [first : Tags, best : Tags] /\ TagsKept'
  <2>1. PICK t \in TagCount : tags' = [first |-> t, best |-> t]
    BY <1>2
  <2>2. t \in Tags
    BY PipelineConstants DEF Tags
  <2> QED
    BY <2>1, <2>2 DEF Tags, TagsKept
<1> DEFINE marked == [m \in Step |-> IF m \in DOMAIN new THEN new[m] ELSE step[m]]
<1>6. /\ current' = "validation" /\ pc' \in {"validating", "failing"}
      /\ \/ step' = step /\ pc' = "failing"
         \/ step' = marked /\ pc' = "validating"
  BY <1>2, MarkIs
<1>7. marked \in [Step -> StepStatus]
  BY <1>1, <1>3 DEF PipelineTypeOK, StepStatus, Settled
<1>8. \A m \in Step : marked[m] = IF m \in DOMAIN new THEN new[m] ELSE step[m]
  OBVIOUS
<1> HIDE DEF marked
<1>9. StepsAt("validating", marked)
  BY <1>1, <1>2, <1>3, <1>8 DEF Settled, Step, StepsAt, AfterClassify, AfterOcr, AfterStructure,
     AfterAltText, AfterTagging, AfterValidation, AfterFidelity
<1>10. PipelineTypeOK'
  <2>1. "validation" \in Step
    BY DEF Step
  <2> QED
    BY <1>2, <1>3, <1>4, <1>5, <1>6, <1>7, <2>1 DEF PipelineTypeOK, Pc, Working
<1>11. pc \notin Over
  BY <1>2 DEF Over
<1>12. CASE pc' = "failing"
  BY <1>2, <1>10, <1>11, <1>12, FailingKeeps
<1>13. CASE step' = marked /\ pc' = "validating"
  <2>1. FilesAt(pc)'
    BY <1>2, <1>3, <1>4, <1>5, <1>13 DEF FilesAt, Preserving, Over
  <2>2. pc' \in Working \ {"finish"}
    BY <1>13 DEF Working
  <2> QED
    BY <1>2, <1>9, <1>10, <1>11, <1>13, <2>1, <2>2, CandidateKeeps
<1> QED
  BY <1>6, <1>12, <1>13

\* The lanes that are planned are lanes.
LEMMA PlannedAreLanes ==
  ASSUME NEW v, NEW unembedded, NEW safe, NEW ocr, NEW force
  PROVE  Planned(v, unembedded, safe, ocr, force) \in Seq(Lane)
<1> DEFINE If(p, l) == IF p THEN <<l>> ELSE <<>>
<1>1. \A p : \A l \in Lane : If(p, l) \in Seq(Lane)
  OBVIOUS
<1>2. \A s, t \in Seq(Lane) : s \o t \in Seq(Lane)
  OBVIOUS
<1>3. \A l \in Lane : <<l>> \in Seq(Lane)
  OBVIOUS
<1>4. {"repair_dicts", "repair_tounicode", "embed", "ocr_redo", "ocr_force"} \subseteq Lane
  BY DEF Lane
<1> QED
  BY <1>1, <1>2, <1>3, <1>4 DEF Planned

\* A file that was validated is validated with what it was made of; only one that does
\* not comply goes to the lanes.
LEMMA ValidateSteps ==
  ASSUME PipelineInv, Validate
  PROVE  PipelineInv'
<1>1. PipelineTypeOK /\ StepsAt(pc, step) /\ FilesAt(pc) /\ pc = "validating"
  BY DEF PipelineInv, Validate
<1>2. PICK v \in Verdict :
        /\ cand' = [cand EXCEPT !.validation = Validation(cand.file, v)]
        /\ best' = cand'
        /\ source' = "input"
        /\ \/ /\ Broken(v) # {} /\ pc' = "lanes"
              /\ \E unembedded, safe, ocr, force \in BOOLEAN :
                   lanes' = Planned(v, unembedded, safe, ocr, force)
           \/ lanes' = <<>> /\ pc' = "validated"
        /\ UNCHANGED <<current, job, step, refused, original, tags>>
  BY DEF Validate
<1>3. cand.file \in NamedFile /\ cand.file.by \in Made /\ cand \in CandidateRow
  BY <1>1 DEF FilesAt, PipelineTypeOK, NamedFile
<1>4. Validation(cand.file, v) \in Judgement /\ Validation(cand.file, v).of = cand.file.by
      /\ Validation(cand.file, v).verdict = v
  BY <1>3 DEF Validation, Judgement
<1>5. /\ cand' \in CandidateRow /\ cand'.file = cand.file
      /\ cand'.validation = Validation(cand.file, v)
  BY <1>2, <1>3, <1>4 DEF CandidateRow
<1>6. Judged(cand') /\ cand'.validation.verdict = v
  BY <1>3, <1>4, <1>5 DEF Judged
<1>7. lanes' \in Seq(Lane)
  <2>1. <<>> \in Seq(Lane)
    OBVIOUS
  <2> QED
    BY <1>2, <2>1, PlannedAreLanes
<1>8. Broken(v) # {} => ~Compliant(v)
  BY PipelineConstants DEF Broken, Compliant
<1>9. PipelineTypeOK'
  BY <1>1, <1>2, <1>5, <1>7 DEF PipelineTypeOK, Pc, Working
<1>10. StepsAt(pc', step')
  BY <1>1, <1>2 DEF StepsAt, AfterClassify, AfterOcr, AfterStructure, AfterAltText,
     AfterTagging, AfterValidation, AfterFidelity
<1>11. original = NoCand
  BY <1>1 DEF FilesAt, Preserving, Over
<1>12. TagsKept'
  BY <1>1, <1>2 DEF FilesAt, TagsKept
<1>13. FilesAt(pc)'
  <2>1. CASE pc' = "lanes"
    BY <1>2, <1>6, <1>8, <1>11, <1>12, <2>1 DEF FilesAt, Preserving
  <2>2. CASE pc' = "validated"
    BY <1>2, <1>6, <1>11, <2>2 DEF FilesAt, Preserving
  <2> QED
    BY <1>2, <2>1, <2>2
<1>14. pc \notin Over /\ pc' \in Working \ {"finish"}
  BY <1>1, <1>2 DEF Over, Working
<1> QED
  BY <1>2, <1>9, <1>10, <1>13, <1>14, CandidateKeeps

\* What a lane made is a file with tags.
LEMMA LaneMakes ==
  ASSUME NEW l \in Lane, best.file \in NamedFile, tags \in [first : Tags, best : Tags],
         NEW o \in LaneOutput(l)
  PROVE  o.file \in NamedFile /\ o.tags \in Tags
<1>1. PICK n \in [retag : Retags(l), tags : TagCount] :
        o = [file |-> File(l, IF n.retag THEN l ELSE best.file.src),
             tags |-> IF n.retag THEN n.tags ELSE tags.best]
  BY DEF LaneOutput
<1>2. n.tags \in Tags /\ tags.best \in Tags
  BY PipelineConstants DEF Tags
<1>3. (IF n.retag THEN l ELSE best.file.src) \in {"input"} \cup Lane /\ l \in Made
  BY DEF NamedFile, Made
<1>4. File(l, IF n.retag THEN l ELSE best.file.src) \in NamedFile
  BY <1>3 DEF File, NamedFile
<1> QED
  BY <1>1, <1>2, <1>4

\* The lanes: whatever a lane gives, best is judged by its own bytes and has the tags.
LEMMA LaneSteps ==
  ASSUME PipelineInv, LaneFails \/ LaneRaises \/ LaneGives \/ LanesDone
  PROVE  PipelineInv'
<1>1. /\ PipelineTypeOK /\ StepsAt(pc, step) /\ FilesAt(pc) /\ pc = "lanes"
      /\ pc \notin Over
  BY DEF PipelineInv, LaneFails, LaneRaises, LaneGives, LanesDone, Over
<1>2. /\ Judged(cand) /\ Judged(best) /\ TagsKept /\ ~Compliant(cand.validation.verdict)
      /\ original = NoCand
  BY <1>1 DEF FilesAt, Preserving, Over
<1>3. UNCHANGED <<current, job, step, refused, original>> /\ pc' \in {"lanes", "validated"}
  BY <1>1 DEF LaneFails, LaneRaises, LaneGives, LanesDone
<1>4. StepsAt(pc', step') /\ pc' \in Working \ {"finish"}
  BY <1>1, <1>3 DEF Working, StepsAt, AfterClassify, AfterOcr, AfterStructure, AfterAltText,
     AfterTagging, AfterValidation, AfterFidelity
<1>5. /\ lanes # <<>> => Tail(lanes) \in Seq(Lane) /\ Head(lanes) \in Lane
      /\ <<>> \in Seq(Lane)
  BY <1>1 DEF PipelineTypeOK
<1>6. NoCand \in CandidateRow
  BY DEF NoCand, CandidateRow
<1>7. CASE LaneFails
  <2>1. /\ pc' = "lanes" /\ lanes' \in Seq(Lane)
        /\ UNCHANGED <<current, job, step, refused, original, cand, best, tags, source>>
    BY <1>1, <1>5, <1>7 DEF LaneFails
  <2>2. PipelineTypeOK'
    BY <1>1, <2>1 DEF PipelineTypeOK, Pc, Working
  <2>3. FilesAt(pc)'
    BY <1>1, <1>2, <2>1 DEF FilesAt, TagsKept
  <2> QED
    BY <1>1, <1>3, <1>4, <2>2, <2>3, CandidateKeeps
<1>8. CASE LaneRaises \/ LanesDone
  <2>1. /\ pc' = "validated" /\ cand' \in {cand, best} /\ best' = NoCand
        /\ lanes' \in Seq(Lane)
        /\ UNCHANGED <<current, job, step, refused, original, tags, source>>
    BY <1>1, <1>5, <1>8 DEF LaneRaises, LanesDone, PipelineTypeOK
  <2>2. PipelineTypeOK'
    BY <1>1, <1>6, <2>1 DEF PipelineTypeOK, Pc, Working
  <2>3. Judged(cand')
    BY <1>2, <2>1
  <2>4. FilesAt(pc)'
    BY <1>2, <2>1, <2>3 DEF FilesAt, Preserving
  <2> QED
    BY <1>1, <1>3, <1>4, <2>2, <2>4, CandidateKeeps
<1>9. CASE LaneGives
  <2>1. PICK v \in Verdict : \E o \in LaneOutput(Head(lanes)) :
          IF Better(v, best.validation.verdict) /\ ~Regresses(o.tags, tags.best)
            THEN /\ best' = [best EXCEPT !.file = o.file, !.validation = Validation(o.file, v)]
                 /\ tags' = [tags EXCEPT !.best = o.tags]
                 /\ source' = IF o.file.src = Head(lanes) THEN Head(lanes) ELSE source
            ELSE UNCHANGED <<best, tags, source>>
    BY <1>9 DEF LaneGives
  <2>2. PICK o \in LaneOutput(Head(lanes)) :
          IF Better(v, best.validation.verdict) /\ ~Regresses(o.tags, tags.best)
            THEN /\ best' = [best EXCEPT !.file = o.file, !.validation = Validation(o.file, v)]
                 /\ tags' = [tags EXCEPT !.best = o.tags]
                 /\ source' = IF o.file.src = Head(lanes) THEN Head(lanes) ELSE source
            ELSE UNCHANGED <<best, tags, source>>
    BY <2>1
  <2>3. /\ lanes # <<>> /\ lanes' \in Seq(Lane)
        /\ UNCHANGED <<pc, current, job, step, refused, original, cand>>
    BY <1>5, <1>9 DEF LaneGives
  <2>4. Head(lanes) \in Lane /\ tags \in [first : Tags, best : Tags] /\ best \in CandidateRow
    BY <1>1, <1>5, <2>3 DEF PipelineTypeOK
  <2>5. o.file \in NamedFile /\ o.tags \in Tags
    BY <1>2, <2>4, LaneMakes DEF Judged
  <2>6. Validation(o.file, v) \in Judgement /\ Validation(o.file, v).of = o.file.by
    BY <2>5 DEF Validation, Judgement, NamedFile
  <2>7. best' \in CandidateRow /\ Judged(best')
    <3>1. CASE best' = [best EXCEPT !.file = o.file, !.validation = Validation(o.file, v)]
      BY <2>4, <2>5, <2>6, <3>1 DEF CandidateRow, Judged
    <3>2. CASE best' = best
      BY <1>2, <2>4, <3>2
    <3> QED
      BY <2>2, <3>1, <3>2
  <2>8. tags' \in [first : Tags, best : Tags] /\ TagsKept'
    <3>1. CASE tags' = [tags EXCEPT !.best = o.tags] /\ ~Regresses(o.tags, tags.best)
      <4>1. tags' \in [first : Tags, best : Tags] /\ tags'.first = tags.first /\ tags'.best = o.tags
        BY <2>4, <2>5, <3>1
      <4>2. o.tags.links >= tags.best.links /\ (tags.best.kinds > 0 => o.tags.kinds > 0)
        BY <2>4, <2>5, <3>1 DEF Regresses, Tags
      <4> QED
        BY <1>2, <2>4, <2>5, <4>1, <4>2 DEF TagsKept, Tags
    <3>2. CASE tags' = tags
      BY <1>2, <2>4, <3>2 DEF TagsKept
    <3> QED
      BY <2>2, <3>1, <3>2
  <2>9. source' \in {"input"} \cup Lane
    BY <1>1, <2>2, <2>4 DEF PipelineTypeOK
  <2>10. PipelineTypeOK'
    BY <1>1, <2>3, <2>7, <2>8, <2>9 DEF PipelineTypeOK
  <2>11. FilesAt(pc)'
    BY <1>1, <1>2, <2>3, <2>7, <2>8 DEF FilesAt, Preserving
  <2> QED
    BY <1>1, <1>3, <1>4, <2>10, <2>11, CandidateKeeps
<1> QED
  BY <1>7, <1>8, <1>9

\* The validation is recorded; the candidate is as it was.
LEMMA ValidatedSteps ==
  ASSUME PipelineInv, Validated
  PROVE  PipelineInv'
<1> DEFINE new == [validation |-> "complete", fidelity |-> "running"]
<1>1. DOMAIN new = {"validation", "fidelity"}
      /\ new["validation"] = "complete" /\ new["fidelity"] = "running"
  OBVIOUS
<1>2. /\ pc = "validated" /\ Mark(new, "fidelity", "assess")
      /\ cand' = [cand EXCEPT !.phase = "validated"] /\ best' = NoCand
      /\ tags' = [first |-> NoTags, best |-> NoTags]
      /\ UNCHANGED <<job, refused, original, lanes, source>>
  BY DEF Validated
<1> HIDE DEF new
<1>3. PipelineTypeOK /\ StepsAt(pc, step) /\ FilesAt(pc)
  BY DEF PipelineInv
<1>4. Judged(cand) /\ cand \in CandidateRow /\ original = NoCand
  BY <1>2, <1>3 DEF FilesAt, PipelineTypeOK, Preserving, Over
<1>5. cand' \in CandidateRow /\ Judged(cand')
  BY <1>2, <1>4 DEF CandidateRow, Judged
<1>6. best' \in CandidateRow /\ tags' \in [first : Tags, best : Tags]
  BY <1>2 DEF NoCand, CandidateRow, NoTags, Tags
<1> DEFINE marked == [m \in Step |-> IF m \in DOMAIN new THEN new[m] ELSE step[m]]
<1>7. /\ current' = "fidelity" /\ pc' \in {"assess", "failing"}
      /\ \/ step' = step /\ pc' = "failing"
         \/ step' = marked /\ pc' = "assess"
  BY <1>2, MarkIs
<1>8. marked \in [Step -> StepStatus]
  BY <1>1, <1>3 DEF PipelineTypeOK, StepStatus, Settled
<1>9. \A m \in Step : marked[m] = IF m \in DOMAIN new THEN new[m] ELSE step[m]
  OBVIOUS
<1> HIDE DEF marked
<1>10. StepsAt("assess", marked)
  BY <1>1, <1>2, <1>3, <1>9 DEF Settled, Step, StepsAt, AfterClassify, AfterOcr, AfterStructure,
     AfterAltText, AfterTagging, AfterValidation, AfterFidelity
<1>11. PipelineTypeOK'
  <2>1. "fidelity" \in Step
    BY DEF Step
  <2> QED
    BY <1>2, <1>3, <1>5, <1>6, <1>7, <1>8, <2>1 DEF PipelineTypeOK, Pc, Working, ModelCalls
<1>12. pc \notin Over
  BY <1>2 DEF Over
<1>13. CASE pc' = "failing"
  BY <1>2, <1>11, <1>12, <1>13, FailingKeeps
<1>14. CASE step' = marked /\ pc' = "assess"
  <2>1. FilesAt(pc)'
    BY <1>2, <1>4, <1>5, <1>14 DEF FilesAt, Preserving
  <2>2. pc' \in Working \ {"finish"}
    BY <1>14 DEF Working, ModelCalls
  <2> QED
    BY <1>2, <1>10, <1>11, <1>12, <1>14, <2>1, <2>2, CandidateKeeps
<1> QED
  BY <1>7, <1>13, <1>14

\* The report is of the candidate's bytes, first and last.
LEMMA AssessSteps ==
  ASSUME PipelineInv, Assess \/ Reassess
  PROVE  PipelineInv'
<1>1. PipelineTypeOK /\ StepsAt(pc, step) /\ FilesAt(pc)
  BY DEF PipelineInv
<1>2. PICK next \in {"grounded", "store"} :
        AssessTo(next) /\ pc \in {"assess", "reassess"}
  BY DEF Assess, Reassess
<1>3. Judged(cand) /\ cand \in CandidateRow /\ original = NoCand
  BY <1>1, <1>2 DEF FilesAt, PipelineTypeOK, Preserving, Over, Assessed
<1>4. /\ \E r \in Reports(cand.file, cand.validation.verdict) :
           \/ cand' = [cand EXCEPT !.report = r, !.phase = "assessed"] /\ pc' = next
           \/ cand' = cand /\ pc' = "failing"
      /\ UNCHANGED <<current, job, step, refused, original, lanes, best, tags, source>>
  BY <1>2 DEF AssessTo
<1>5. PICK r \in Reports(cand.file, cand.validation.verdict) :
        \/ cand' = [cand EXCEPT !.report = r, !.phase = "assessed"] /\ pc' = next
        \/ cand' = cand /\ pc' = "failing"
  BY <1>4
<1>6. r \in Assessment /\ r.of = cand.file.by
  <2>1. cand.file.by \in Made
    BY <1>3 DEF Judged, NamedFile
  <2> QED
    BY <2>1, ReportIs
<1>7. pc \notin Over
  BY <1>2 DEF Over
<1>8. CASE cand' = cand /\ pc' = "failing"
  <2>1. PipelineTypeOK'
    BY <1>1, <1>4, <1>8 DEF PipelineTypeOK, Pc
  <2> QED
    BY <1>4, <1>7, <1>8, <2>1, FailingKeeps
<1>9. CASE cand' = [cand EXCEPT !.report = r, !.phase = "assessed"] /\ pc' = next
  <2>1. cand' \in CandidateRow /\ Assessed(cand')
    BY <1>3, <1>6, <1>9 DEF CandidateRow, Assessed, Judged
  <2>2. PipelineTypeOK' /\ pc' \in Working \ {"finish"}
    BY <1>1, <1>4, <1>9, <2>1 DEF PipelineTypeOK, Pc, Working, ModelCalls
  <2>3. StepsAt(pc', step')
    BY <1>1, <1>2, <1>4, <1>9 DEF StepsAt, AfterClassify, AfterOcr, AfterStructure, AfterAltText,
       AfterTagging, AfterValidation, AfterFidelity
  <2>4. FilesAt(pc)'
    BY <1>3, <1>4, <1>9, <2>1 DEF FilesAt
  <2> QED
    BY <1>4, <1>7, <2>2, <2>3, <2>4, CandidateKeeps
<1> QED
  BY <1>5, <1>8, <1>9

\* What a retry may take: the candidate as it is, or one that complies, with the
\* verdict and the report of its own file.
LEMMA RetryTakes ==
  ASSUME PipelineInv, Grounded \/ StructureRetry \/ FontMap
  PROVE  \/ cand' = cand
         \/ /\ cand' \in CandidateRow /\ Assessed(cand')
            /\ Compliant(cand'.validation.verdict)
<1>1. Assessed(cand)
  BY DEF PipelineInv, FilesAt, Grounded, StructureRetry, FontMap
<1>2. ASSUME NEW by \in {"grounded_text", "auto_structure", "font_map"}, NEW v \in Verdict,
             NEW r \in Reports([by |-> by], v)
      PROVE  /\ Retried(by, v, r) \in CandidateRow /\ Assessed(Retried(by, v, r))
             /\ Retried(by, v, r).validation.verdict = v
  <2>1. by \in Made
    BY DEF Made
  <2>2. r \in Assessment /\ r.of = by
    BY <2>1, ReportIs
  <2>3. [cand.file EXCEPT !.by = by] \in NamedFile /\ [cand.file EXCEPT !.by = by].by = by
    BY <1>1, <2>1, MadeBy DEF Assessed, Judged
  <2>4. PICK f \in NamedFile : f = [cand.file EXCEPT !.by = by] /\ f.by = by
    BY <2>3
  <2>5. Retried(by, v, r) = Candidate(f, v, r)
    BY <2>4, Zenon DEF Retried
  <2>6. r \in Assessment /\ r.of = f.by
    BY <2>2, <2>4
  <2> QED
    BY <2>5, <2>6, CandidateIs
<1>3. CASE Grounded
  <2>1. ASSUME cand' # cand
        PROVE  \E v \in Verdict : \E r \in Reports([by |-> "grounded_text"], v) :
                 /\ cand' = Retried("grounded_text", v, r)
                 /\ Compliant(cand'.validation.verdict)
    BY <1>3, <2>1 DEF Grounded, Acceptable
  <2> QED
    BY <1>2, <2>1
<1>4. CASE StructureRetry
  <2>1. ASSUME cand' # cand
        PROVE  \E v \in Verdict : \E r \in Reports([by |-> "auto_structure"], v) :
                 /\ cand' = Retried("auto_structure", v, r)
                 /\ Compliant(cand'.validation.verdict)
    BY <1>4, <2>1 DEF StructureRetry, Acceptable
  <2> QED
    BY <1>2, <2>1
<1>5. CASE FontMap
  <2>1. ASSUME cand' # cand
        PROVE  \E v \in Verdict : \E r \in Reports([by |-> "font_map"], v) :
                 /\ cand' = Retried("font_map", v, r)
                 /\ Compliant(cand'.validation.verdict)
    BY <1>5, <2>1 DEF FontMap, FontMapGives, Acceptable
  <2> QED
    BY <1>2, <2>1
<1> QED
  BY <1>3, <1>4, <1>5

\* The three retries.
LEMMA RetrySteps ==
  ASSUME PipelineInv, Grounded \/ StructureRetry \/ FontMap
  PROVE  PipelineInv'
<1>1. PipelineTypeOK /\ StepsAt(pc, step) /\ FilesAt(pc)
  BY DEF PipelineInv
<1>2. /\ pc \in {"grounded", "structure_retry", "font_map"}
      /\ pc' \in {"structure_retry", "font_map", "reassess"}
      /\ UNCHANGED <<current, job, step, refused, original, lanes, best, tags, source>>
  BY DEF Grounded, StructureRetry, FontMap
<1>3. Assessed(cand) /\ cand \in CandidateRow /\ original = NoCand
  BY <1>1, <1>2 DEF FilesAt, PipelineTypeOK, Preserving, Over
<1>4. cand' \in CandidateRow /\ Assessed(cand')
  BY <1>3, RetryTakes
<1>5. PipelineTypeOK' /\ pc \notin Over /\ pc' \in Working \ {"finish"}
  BY <1>1, <1>2, <1>4 DEF PipelineTypeOK, Pc, Working, ModelCalls, Over
<1>6. StepsAt(pc', step')
  BY <1>1, <1>2 DEF StepsAt, AfterClassify, AfterOcr, AfterStructure, AfterAltText,
     AfterTagging, AfterValidation, AfterFidelity
<1>7. FilesAt(pc)'
  BY <1>2, <1>3, <1>4 DEF FilesAt
<1> QED
  BY <1>2, <1>5, <1>6, <1>7, CandidateKeeps

------------------------------------------------------------------------------
(* The result *)

\* The row is given the candidate's files, and the last step is settled.
LEMMA StoreSteps ==
  ASSUME PipelineInv, Store
  PROVE  PipelineInv'
<1>1. PipelineTypeOK /\ StepsAt(pc, step) /\ FilesAt(pc) /\ JobAt(pc)
      /\ pc = "store" /\ pc \notin Over
  BY DEF PipelineInv, Store, Over
<1>2. Assessed(cand) /\ cand \in CandidateRow /\ job \in JobRow
      /\ job.status \in {"queued", "processing"} /\ (original # NoCand => Proven(cand))
  BY <1>1 DEF FilesAt, JobAt, PipelineTypeOK, Preserving
<1>3. CASE UNCHANGED <<cand, job, step, current>> /\ pc' = "failing"
  <2>1. PipelineTypeOK'
    BY <1>1, <1>3 DEF Store, PipelineTypeOK, Pc
  <2> QED
    BY <1>1, <1>3, <2>1, FailingKeeps
<1> DEFINE new == [fidelity |-> "complete"]
           files == [output |-> cand.file.by,
                     validation |-> [of |-> cand.validation.of,
                                     compliant |-> Compliant(cand.validation.verdict)],
                     fidelity |-> [of |-> cand.report.of, passed |-> Passed(cand)]]
           named == Row(job.status, files)
<1>4. DOMAIN new = {"fidelity"} /\ new["fidelity"] = "complete"
  OBVIOUS
<1> HIDE DEF new
<1>5. CASE /\ cand' = [cand EXCEPT !.phase = "published"] /\ job' = named
           /\ Mark(new, current, "finish")
  <2>1. UNCHANGED <<refused, original, lanes, best, tags, source>>
    BY <1>1 DEF Store
  <2>2. /\ cand' \in CandidateRow /\ Assessed(cand') /\ cand'.file = cand.file
        /\ cand'.validation = cand.validation /\ cand'.report = cand.report
    BY <1>2, <1>5 DEF CandidateRow, Assessed, Judged
  <2>3. Compliant(cand.validation.verdict) \in BOOLEAN /\ Passed(cand) \in BOOLEAN
    BY DEF Compliant, Passed
  <2>4. /\ cand.file.by \in Made /\ cand.validation.of = cand.file.by
        /\ cand.report.of = cand.file.by
    BY <1>2 DEF Assessed, Judged, NamedFile
  <2>5. /\ files.validation \in [of : Made, compliant : BOOLEAN]
        /\ files.fidelity \in [of : Made, passed : BOOLEAN]
        /\ files.validation.of = cand.file.by /\ files.fidelity.of = cand.file.by
        /\ files.validation.compliant <=> Compliant(cand.validation.verdict)
        /\ files.fidelity.passed <=> Passed(cand)
        /\ files.output = cand.file.by
    BY <2>3, <2>4
  <2> HIDE DEF files
  <2>6. /\ named \in JobRow /\ named.status = job.status /\ named.output = files.output
        /\ named.validation = files.validation /\ named.fidelity = files.fidelity
    BY <1>2, <2>4, <2>5 DEF Row, JobRow
  <2> HIDE DEF named
  <2> DEFINE marked == [m \in Step |-> IF m \in DOMAIN new THEN new[m] ELSE step[m]]
  <2>7. /\ current' = current /\ pc' \in {"finish", "failing"}
        /\ \/ step' = step /\ pc' = "failing"
           \/ step' = marked /\ pc' = "finish"
    BY <1>5, MarkIs
  <2>8. marked \in [Step -> StepStatus]
    BY <1>1, <1>4 DEF PipelineTypeOK, StepStatus, Settled
  <2>9. \A m \in Step : marked[m] = IF m = "fidelity" THEN "complete" ELSE step[m]
    BY <1>4
  <2> HIDE DEF marked
  <2>10. StepsAt("finish", marked)
    BY <1>1, <2>9 DEF Settled, Step, StepsAt, AfterClassify, AfterOcr, AfterStructure,
       AfterAltText, AfterTagging, AfterValidation, AfterFidelity
  <2>11. PipelineTypeOK'
    BY <1>1, <1>5, <2>1, <2>2, <2>6, <2>7, <2>8 DEF PipelineTypeOK, Pc, Working
  <2>12. StepsAt(pc', step')
    BY <2>7, <2>10 DEF StepsAt, AfterClassify, AfterOcr, AfterStructure, AfterAltText,
       AfterTagging, AfterValidation, AfterFidelity
  <2>13. Proven(cand') <=> Proven(cand)
    BY <2>2 DEF Proven, Passed
  <2>14. FilesAt(pc)'
    BY <1>2, <2>1, <2>2, <2>7, <2>13 DEF FilesAt, Preserving
  <2>15. NamesCandidate'
    BY <1>5, <2>2, <2>5, <2>6 DEF NamesCandidate
  <2>16. /\ (job.validation.compliant)' <=> Compliant(cand.validation.verdict)'
         /\ (job.fidelity.passed)' <=> Passed(cand)'
    BY <1>5, <2>2, <2>5, <2>6 DEF Passed, Compliant
  <2>17. JobAt(pc)'
    BY <1>2, <1>5, <2>6, <2>7, <2>15, <2>16 DEF JobAt, Over, Ready
  <2> QED
    BY <2>11, <2>12, <2>14, <2>17 DEF PipelineInv
<1> QED
  BY <1>1, <1>3, <1>5 DEF Store, new

\* A job is finished only with everything it says proven.
LEMMA FinishSteps ==
  ASSUME PipelineInv, Finish
  PROVE  PipelineInv'
<1>1. PipelineTypeOK /\ StepsAt(pc, step) /\ FilesAt(pc) /\ JobAt(pc)
      /\ pc = "finish" /\ pc \notin Over
      /\ UNCHANGED <<current, step, refused, work>>
  BY DEF PipelineInv, Finish, Over
<1>2. CASE refused
  <2>1. PipelineTypeOK' /\ pc' = "failing" /\ UNCHANGED job
    BY <1>1, <1>2 DEF Finish, PipelineTypeOK, work, Pc
  <2> QED
    BY <1>1, <2>1, FailingKeeps
<1>3. CASE ~refused
  <2> DEFINE status == IF job.validation.compliant /\ job.fidelity.passed
                         THEN "complete" ELSE "manual_remediation"
  <2>1. job' = [job EXCEPT !.status = status] /\ pc' = "ended"
    BY <1>3 DEF Finish
  <2>2. /\ job \in JobRow /\ NamesCandidate
        /\ job.validation.compliant <=> Compliant(cand.validation.verdict)
        /\ job.fidelity.passed <=> Passed(cand)
    BY <1>1 DEF PipelineTypeOK, JobAt
  <2>3. /\ status \in Ready
        /\ status = "complete" => job.validation.compliant /\ job.fidelity.passed
        /\ job.validation.compliant /\ job.fidelity.passed => status = "complete"
    BY DEF Ready
  <2> HIDE DEF status
  <2>4. /\ job' \in JobRow /\ job'.status = status /\ job'.output = job.output
        /\ job'.validation = job.validation /\ job'.fidelity = job.fidelity
    BY <2>1, <2>2, <2>3 DEF JobRow
  <2>5. PipelineTypeOK'
    BY <1>1, <2>1, <2>4 DEF PipelineTypeOK, work, Pc, Over
  <2>6. StepsAt(pc', step')
    BY <2>1 DEF StepsAt, AfterClassify, AfterOcr, AfterStructure, AfterAltText, AfterTagging,
                AfterValidation, AfterFidelity
  <2>7. FilesAt(pc)'
    BY <2>1 DEF FilesAt, Preserving, Over
  <2>8. \A n \in Step : step[n] \in Settled
    BY <1>1 DEF Step, StepsAt, AfterClassify, AfterOcr, AfterStructure, AfterAltText,
       AfterTagging, AfterValidation, AfterFidelity
  <2>9. original # NoCand => status = "complete"
    BY <1>1, <2>2, <2>3 DEF FilesAt, Preserving, Proven
  <2>10. ResultIsProven'
    <3>1. /\ job'.output = cand'.file.by /\ job'.validation.of = job'.output
          /\ job'.fidelity.of = job'.output
          /\ job'.status = "complete" => job'.validation.compliant /\ job'.fidelity.passed
      BY <1>1, <2>2, <2>3, <2>4 DEF NamesCandidate, work
    <3>2. job'.status # "failed" /\ ~refused' /\ \A n \in Step : step'[n] \in Settled
      BY <1>1, <1>3, <2>3, <2>4, <2>8 DEF Ready
    <3>3. original' # NoCand => job'.status # "manual_remediation"
      BY <1>1, <2>4, <2>9 DEF work
    <3> QED
      BY <3>1, <3>2, <3>3 DEF ResultIsProven
  <2>11. JobAt(pc)'
    BY <2>1, <2>3, <2>4, <2>10 DEF JobAt, Over, Ready
  <2> QED
    BY <2>5, <2>6, <2>7, <2>11 DEF PipelineInv
<1> QED
  BY <1>2, <1>3

------------------------------------------------------------------------------
(* The invariant of an attempt, and what follows from it *)

\* An attempt begins with a row that names nothing.
LEMMA AttemptBegins == Init => PipelineInv
<1> SUFFICES ASSUME Init PROVE PipelineInv
  OBVIOUS
<1>1. PICK review \in BOOLEAN :
        /\ pc = IF review THEN "retag" ELSE "start"
        /\ job = Row(IF review THEN "processing" ELSE "queued", NoFiles)
        /\ step = [n \in Step |-> IF review /\ n \notin {"tagging", "validation", "fidelity"}
                                  THEN "complete" ELSE "pending"]
  BY DEF Init
<1>2. job \in JobRow /\ job.status \in {"queued", "processing"}
  BY <1>1 DEF Row, NoFiles, JobRow
<1>3. NoCand \in CandidateRow
  BY DEF NoCand, CandidateRow
<1>4. step \in [Step -> StepStatus]
  BY <1>1 DEF StepStatus, Settled
<1>5. PipelineTypeOK
  <2>1. pc \in Pc
    BY <1>1 DEF Pc, Working
  <2>2. lanes \in Seq(Lane)
    BY DEF Init
  <2>3. tags \in [first : Tags, best : Tags]
    BY DEF Init, NoTags, Tags
  <2>4. /\ current \in Step \cup {None} /\ refused \in BOOLEAN
        /\ source \in {"input"} \cup Lane
    BY DEF Init
  <2>5. {original, cand, best} \subseteq CandidateRow
    BY <1>3 DEF Init
  <2> QED
    BY <1>2, <1>4, <2>1, <2>2, <2>3, <2>4, <2>5 DEF PipelineTypeOK
<1>6. StepsAt(pc, step)
  BY <1>1 DEF Step, Settled, StepsAt, AfterClassify, AfterOcr, AfterStructure, AfterAltText,
              AfterTagging, AfterValidation, AfterFidelity
<1>7. FilesAt(pc)
  BY <1>1 DEF Init, FilesAt, Preserving
<1>8. JobAt(pc)
  BY <1>1, <1>2 DEF JobAt, Over, Ready
<1> QED
  BY <1>5, <1>6, <1>7, <1>8 DEF PipelineInv

\* Every step of an attempt keeps the invariant.
LEMMA AttemptStepKeeps == PipelineInv /\ [Next]_vars => PipelineInv'
<1> SUFFICES ASSUME PipelineInv, [Next]_vars PROVE PipelineInv'
  OBVIOUS
<1>1. CASE Next
  BY <1>1, EarlySteps, LaterMarks, EndingSteps, BeginningSteps, AuthorSteps, TagSteps,
     ValidateSteps, LaneSteps, ValidatedSteps, AssessSteps, RetrySteps, StoreSteps, FinishSteps
     DEF Next, Work
<1>2. CASE UNCHANGED vars
  <2>1. PipelineTypeOK' /\ StepsAt(pc', step') /\ FilesAt(pc)'
    BY <1>2 DEF vars, PipelineInv, PipelineTypeOK, FilesAt, TagsKept
  <2>2. JobAt(pc)'
    BY <1>2 DEF vars, PipelineInv, JobAt, NamesCandidate, ResultIsProven
  <2> QED
    BY <2>1, <2>2 DEF PipelineInv
<1> QED
  BY <1>1, <1>2

\* At every place of an attempt the steps before it are settled, the verdict and the report
\* are of the candidate's own bytes, and the row tells nothing else.
THEOREM PipelineInvariant == Spec => []PipelineInv
BY AttemptBegins, AttemptStepKeeps, PTL DEF Spec

\* What the job's row tells is proven: whichever layer swallows a refusal or an error, a
\* finished job names one PDF, with the verdict and the report of its exact bytes; a failed
\* one names none.
THEOREM ResultsAreProven == Spec => []ResultIsProven
<1>1. PipelineInv => ResultIsProven
  <2> SUFFICES ASSUME PipelineInv PROVE ResultIsProven
    OBVIOUS
  <2>1. CASE job.status \in Ready
    BY <2>1 DEF PipelineInv, JobAt
  <2>2. CASE job.status \notin Ready
    BY <2>2 DEF PipelineInv, JobAt, ResultIsProven, Ready
  <2> QED
    BY <2>1, <2>2
<1> QED
  BY <1>1, PipelineInvariant, PTL

\* Lanes and retries never take a PDF that does not comply for one that does, nor one that
\* lost the links or the kinds of tags of the first.
THEOREM GoodIsNeverGivenUp == Spec => GoodIsKept
<1> DEFINE From == {"lanes", "validated", "assess", "grounded", "structure_retry", "font_map",
                    "reassess"}
           Into == {"validated", "assess", "grounded", "structure_retry", "font_map",
                    "reassess", "store"}
           Keeps == /\ /\ pc \in From /\ pc' \in Into /\ Compliant(cand.validation.verdict)
                       => Compliant(cand'.validation.verdict)
                    /\ pc' = "lanes" => /\ tags'.best.links >= tags'.first.links
                                        /\ tags'.first.kinds > 0 => tags'.best.kinds > 0
<1>1. ASSUME PipelineInv, Next, pc \in From, pc' \in Into, Compliant(cand.validation.verdict)
      PROVE  Compliant(cand'.validation.verdict)
  <2>1. pc # "lanes" /\ pc \in From \ {"lanes"}
    BY <1>1 DEF PipelineInv, FilesAt
  <2>2. cand \in CandidateRow
    BY <1>1 DEF PipelineInv, PipelineTypeOK
  <2>3. CASE Validated
    BY <1>1, <2>2, <2>3 DEF Validated, CandidateRow
  <2>4. CASE Assess \/ Reassess
    BY <1>1, <2>2, <2>4 DEF Assess, Reassess, AssessTo, CandidateRow
  <2>5. CASE Grounded \/ StructureRetry \/ FontMap
    BY <1>1, <2>5, RetryTakes
  <2>6. CASE Refuse
    BY <1>1, <2>6 DEF Refuse, work
  <2> QED
    BY <1>1, <2>1, <2>3, <2>4, <2>5, <2>6 DEF Next, Work, Raise, Cancel, Handle, Begin, Classify,
       AuthorUnread, AuthorJudged, Repair, PreserveSteps, OcrBegin, OcrDone, Extract, Extracted,
       AltText, Describe, Retag, Baseline, Tag, Validate, LaneFails, LaneRaises, LaneGives,
       LanesDone, Store, Finish
<1>2. PipelineInv' /\ pc' = "lanes" =>
        /\ tags'.best.links >= tags'.first.links
        /\ tags'.first.kinds > 0 => tags'.best.kinds > 0
  BY DEF PipelineInv, FilesAt, TagsKept
<1>3. PipelineInv /\ PipelineInv' /\ [Next]_vars => [Keeps]_vars
  BY <1>1, <1>2
<1> QED
  BY <1>3, PipelineInvariant, PTL DEF Spec, GoodIsKept

===================================================================================
