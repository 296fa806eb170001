-------------------------------- MODULE Pipeline --------------------------------
(***************************************************************************)
(* One attempt at a document: the steps of orchestrator.py, the candidate  *)
(* PDF they choose, and what the attempt leaves in the job it was given.   *)
(* What the pipeline reads in a document (its kind, its figures, what a    *)
(* tool makes of it) is chosen when the code looks at it.                  *)
(***************************************************************************)
EXTENDS Naturals, Sequences, FiniteSets, Functions

CONSTANTS Rule,        \* families of PDF/UA rules: "dicts", "unicode", others
          Verdict,     \* reports of veraPDF the model tells apart
          TagCount,    \* counts of tags a PDF may have
          MaxBlocking  \* bound: blocking review tasks

ASSUME PipelineConstants ==
  /\ Verdict \subseteq [done : BOOLEAN, errors : [Rule -> Nat], warnings : Nat]
  /\ TagCount \subseteq [kinds : Nat, links : Nat]
  /\ MaxBlocking \in Nat \ {0}

VARIABLES
  pc, current, \* where the attempt is, and current_step
  job,         \* the row: status, and the PDF, validation and report it names
  step,        \* the status of each step
  refused,     \* ModelAccess.refusal
  original,    \* the author's own PDF, once found to pass
  cand,        \* the Candidate
  lanes,       \* font lanes still planned
  best,        \* best_* of the lane loop
  tags,        \* counts of tags of the first file and of best
  source       \* fidelity_source_pdf

vars == <<pc, current, job, step, refused, original, cand, lanes, best, tags, source>>
work == <<original, cand, lanes, best, tags, source>>

(***************************************************************************)
(* job_transitions.py and candidate_state.py.                              *)
(***************************************************************************)
Step == {"classify", "ocr", "structure", "alt_text", "tagging", "validation", "fidelity"}
Settled == {"complete", "skipped"}
Ready == {"complete", "manual_remediation"}

JobTransitions ==
  [queued |-> {"processing", "failed"}, processing |-> Ready \cup {"failed"},
   complete |-> {"processing", "failed"}, manual_remediation |-> {"processing", "failed"},
   failed |-> {}]

StepTransitions ==
  [pending |-> {"running", "failed"} \cup Settled, running |-> Settled \cup {"failed"},
   complete |-> {"pending", "failed"}, skipped |-> {"pending", "failed"}, failed |-> {"pending"}]

PhaseTransitions ==
  [inputs |-> {"tagged"}, tagged |-> {"validated"}, validated |-> {"assessing"},
   assessing |-> {"assessed"}, assessed |-> {"assessing", "published"}, published |-> {}]

Allowed(table, from, to) == from = to \/ to \in table[from]

(***************************************************************************)
(* Verdicts of veraPDF, candidates and how two of them compare.            *)
(***************************************************************************)
Compliant(v) == v.done /\ \A r \in Rule : v.errors[r] = 0
Broken(v) == {r \in Rule : v.errors[r] > 0}

\* is_better_validation: compliance, then broken rules, then failed checks
\* when no rule has more of them, then warnings.
Better(v, w) ==
  LET n == Cardinality(Broken(v))
      m == Cardinality(Broken(w))
      fewer == (\A r \in Rule : v.errors[r] <= w.errors[r]) /\ v.errors # w.errors
  IN \/ Compliant(v) /\ ~Compliant(w)
     \/ n < m
     \/ n = m /\ (fewer \/ v.warnings < w.warnings)

\* _tagging_regressions; "kinds" is any of headings, figures, tables, lists.
Regresses(t, u) ==
  \/ u.kinds > 0 /\ (t.kinds = 0 \/ (u.kinds >= 5 /\ t.kinds < (u.kinds * 8) \div 10))
  \/ t.links < u.links

None == "none"
Lane == {"repair_dicts", "repair_tounicode", "embed", "ocr_redo", "ocr_force"}
Author == {"author_original", "author_repaired"}
Made == Author \cup {"initial", "grounded_text", "auto_structure", "font_map"} \cup Lane

Nil == [of |-> None]
NoCand == [file |-> [by |-> None], validation |-> Nil, report |-> Nil, phase |-> "inputs"]
File(by, src) == [by |-> by, src |-> src]
NoTags == [kinds |-> 0, links |-> 0]
Validation(f, v) == [of |-> f.by, verdict |-> v]

\* apply_release_policy: a document that does not comply has a blocking task,
\* and the report passes when no task blocks.
Reports(f, v) ==
  {[of |-> f.by, blocking |-> b] : b \in (IF Compliant(v) THEN 0 ELSE 1)..MaxBlocking}
Passed(c) == c.report.blocking = 0
Proven(c) == Compliant(c.validation.verdict) /\ Passed(c)
Candidate(f, v, r) == [file |-> f, validation |-> Validation(f, v), report |-> r, phase |-> "assessed"]

\* Mutant: a candidate that does not comply may be adopted.
Acceptable_AnyVerdict(new, old, improved) ==
  new.report.blocking <= old.report.blocking /\ improved

Acceptable(new, old, improved) ==
  /\ Compliant(new.validation.verdict)
  /\ new.report.blocking <= old.report.blocking
  /\ improved

(***************************************************************************)
(* Steps, refusals and failures.                                           *)
(***************************************************************************)
ModelCalls == {"ocring", "structuring", "describing", "tagging", "assess", "grounded",
               "structure_retry", "font_map", "reassess"}
Working == ModelCalls \cup
  {"start", "classify", "author", "repair", "preserve", "ocr", "structure", "alt_text", "retag",
   "baseline", "validating", "lanes", "validated", "store", "finish"}
Over == {"ended", "thrown", "cancelled"}

\* raise_if_model_access_refused, before "next".
Checked(next) == IF refused THEN "failing" ELSE next

\* _update_step: the guard raises or the new statuses are committed.
Mark(new, cur, next) ==
  LET ok == \A n \in DOMAIN new : Allowed(StepTransitions, step[n], new[n])
  IN /\ step' = IF ok THEN [n \in Step |-> IF n \in DOMAIN new THEN new[n] ELSE step[n]] ELSE step
     /\ current' = cur
     /\ pc' = IF ok THEN next ELSE "failing"

NoFiles == [output |-> None, validation |-> Nil, fidelity |-> Nil]
Row(status, files) == [status |-> status, output |-> files.output,
                       validation |-> files.validation, fidelity |-> files.fidelity]

\* A process task starts at the first step; a review re-runs the last three.
Init ==
  /\ \E review \in BOOLEAN :
       /\ pc = IF review THEN "retag" ELSE "start"
       /\ job = Row(IF review THEN "processing" ELSE "queued", NoFiles)
       /\ step = [n \in Step |-> IF review /\ n \notin {"tagging", "validation", "fidelity"}
                                 THEN "complete" ELSE "pending"]
  /\ current = None /\ refused = FALSE
  /\ original = NoCand /\ cand = NoCand /\ lanes = <<>> /\ best = NoCand /\ source = "input"
  /\ tags = [first |-> NoTags, best |-> NoTags]

\* Any call of the attempt may raise; nothing uncommitted stays.
Raise ==
  /\ pc \in Working
  /\ pc' = "failing"
  /\ UNCHANGED <<current, job, step, refused, work>>

\* A gateway answer latches the refusal; the caller may go on.
Refuse ==
  /\ pc \in ModelCalls /\ ~refused
  /\ refused' = TRUE
  /\ UNCHANGED <<pc, current, job, step, work>>

\* The runner's deadline or lease cancels the attempt.
Cancel ==
  /\ pc \notin Over
  /\ pc' = "cancelled"
  /\ UNCHANGED <<current, job, step, refused, work>>

\* The handlers of _run_pipeline and _run_tagging_and_validation.
Handle ==
  /\ pc = "failing"
  /\ IF /\ current = None \/ Allowed(StepTransitions, step[current], "failed")
        /\ Allowed(JobTransitions, job.status, "failed")
       THEN /\ step' = IF current = None THEN step ELSE [step EXCEPT ![current] = "failed"]
            /\ job' = Row("failed", NoFiles)
            /\ pc' = "ended"
       ELSE UNCHANGED <<step, job>> /\ pc' = "thrown"
  /\ UNCHANGED <<current, refused, work>>

(***************************************************************************)
(* _run_pipeline.                                                          *)
(***************************************************************************)
Begin ==
  /\ pc = "start"
  /\ IF Allowed(JobTransitions, job.status, "processing")
       THEN /\ job' = [job EXCEPT !.status = "processing"]
            /\ Mark([classify |-> "running"], "classify", "classify")
       ELSE UNCHANGED <<job, step, current>> /\ pc' = "failing"
  /\ UNCHANGED <<refused, work>>

Classify ==
  /\ pc = "classify"
  /\ Mark([classify |-> "complete"], "classify", "author")
  /\ UNCHANGED <<job, refused, work>>

\* No tags to keep, or they could not be read.
AuthorUnread ==
  /\ pc = "author"
  /\ pc' = "ocr"
  /\ UNCHANGED <<current, job, step, refused, work>>

\* _preserve_author_candidate: the author's own bytes, without a model.
AuthorJudged ==
  /\ pc = "author"
  /\ \E v \in Verdict :
       LET f == File("author_original", "input")
       IN \E r \in Reports(f, v) :
            IF Proven(Candidate(f, v, r))
              THEN original' = Candidate(f, v, r) /\ cand' = original' /\ pc' = "repair"
              ELSE UNCHANGED <<original, cand>> /\ pc' = "ocr"
  /\ UNCHANGED <<current, job, step, refused, lanes, best, tags, source>>

\* Harmless repairs, kept if the result passes and reads the same; otherwise,
\* and when they raise, a copy of the author's bytes.
Repair ==
  /\ pc = "repair"
  /\ \/ UNCHANGED cand
     \/ \E v \in Verdict, same \in BOOLEAN :
          LET f == [cand.file EXCEPT !.by = "author_repaired"]
          IN \E r \in Reports(f, v) :
               cand' = IF same /\ Proven(Candidate(f, v, r)) THEN Candidate(f, v, r) ELSE cand
  /\ pc' = "preserve"
  /\ UNCHANGED <<current, job, step, refused, original, lanes, best, tags, source>>

PreserveSteps ==
  /\ pc = "preserve"
  /\ Mark([ocr |-> "skipped", structure |-> "skipped", alt_text |-> "skipped",
           tagging |-> "skipped", validation |-> "complete"], "classify", "store")
  /\ UNCHANGED <<job, refused, work>>

\* A scan is sent to OCR; a scan with its own text and a digital file are not.
OcrBegin ==
  /\ pc = "ocr"
  /\ \/ Mark([ocr |-> "running"], "ocr", "ocring")
     \/ Mark([ocr |-> "skipped"], "ocr", Checked("structure"))
  /\ UNCHANGED <<job, refused, work>>

OcrDone ==
  /\ pc = "ocring"
  /\ \/ Mark([ocr |-> "complete"], "ocr", Checked("structure"))
     \/ Mark([ocr |-> "failed"], "ocr", "failing")
  /\ UNCHANGED <<job, refused, work>>

Extract ==
  /\ pc = "structure"
  /\ Mark([structure |-> "running"], "structure", "structuring")
  /\ UNCHANGED <<job, refused, work>>

Extracted ==
  /\ pc = "structuring"
  /\ Mark([structure |-> "complete"], "structure", Checked("alt_text"))
  /\ UNCHANGED <<job, refused, work>>

\* Figures to describe, none (which looks for a refusal), or a setting that
\* skips them (which does not).
AltText ==
  /\ pc = "alt_text"
  /\ \/ Mark([alt_text |-> "running"], "alt_text", "describing")
     \/ Mark([alt_text |-> "skipped"], "alt_text", Checked("retag"))
     \/ Mark([alt_text |-> "skipped"], "alt_text", "retag")
  /\ UNCHANGED <<job, refused, work>>

Describe ==
  /\ pc = "describing"
  /\ Mark([alt_text |-> "complete"], "alt_text", "retag")
  /\ UNCHANGED <<job, refused, work>>

(***************************************************************************)
(* _run_tagging_and_validation.                                            *)
(***************************************************************************)
Retag ==
  /\ pc = "retag"
  /\ current' = "validation"
  /\ IF Allowed(JobTransitions, job.status, "processing")
       THEN job' = [job EXCEPT !.status = "processing"] /\ pc' = "baseline"
       ELSE UNCHANGED job /\ pc' = "failing"
  /\ UNCHANGED <<step, refused, work>>

\* The working PDF is validated for comparison, then tagging begins.
Baseline ==
  /\ pc = "baseline"
  /\ IF refused
       THEN pc' = "failing" /\ UNCHANGED <<step, current>>
       ELSE Mark([tagging |-> "running"], "tagging", "tagging")
  /\ UNCHANGED <<job, refused, work>>

\* _prepare_tagging_inputs, tag_pdf and on_tagged.
Tag ==
  /\ pc = "tagging"
  /\ \E t \in TagCount : tags' = [first |-> t, best |-> t]
  /\ cand' = [NoCand EXCEPT !.file = File("initial", "input"), !.phase = "tagged"]
  /\ Mark([tagging |-> "complete", validation |-> "running"], "validation", "validating")
  /\ UNCHANGED <<job, refused, original, lanes, best, source>>

\* _font_remediation_lanes, for the rules broken and the features of the PDF.
Planned(v, unembedded, safe, ocr, force) ==
  LET unicode == "unicode" \in Broken(v)
      If(p, l) == IF p THEN <<l>> ELSE <<>>
  IN If("dicts" \in Broken(v), "repair_dicts")
     \o If(unicode /\ safe /\ ~unembedded, "repair_tounicode")
     \o <<"embed">>
     \o If(unicode /\ safe /\ unembedded, "repair_tounicode")
     \o If(unicode /\ ocr, "ocr_redo")
     \o If(unicode /\ ocr /\ force, "ocr_force")

Validate ==
  /\ pc = "validating"
  /\ \E v \in Verdict :
       /\ cand' = [cand EXCEPT !.validation = Validation(cand.file, v)]
       /\ best' = cand'
       /\ source' = "input"
       /\ IF Broken(v) \cap {"dicts", "unicode"} # {}
            THEN /\ \E unembedded, safe, ocr, force \in BOOLEAN :
                      lanes' = Planned(v, unembedded, safe, ocr, force)
                 /\ pc' = "lanes"
            ELSE lanes' = <<>> /\ pc' = "validated"
  /\ UNCHANGED <<current, job, step, refused, original, tags>>

Retags(l) == CASE l \in {"repair_dicts", "repair_tounicode"} -> {FALSE}
               [] l = "embed" -> BOOLEAN
               [] OTHER -> {TRUE}

\* _attempt_font_lane: a file made from the working PDF and tagged again, or
\* a patch of the tagged one, which keeps its source and its tags.
LaneOutput(l) ==
  {[file |-> File(l, IF n.retag THEN l ELSE best.file.src),
    tags |-> IF n.retag THEN n.tags ELSE tags.best] :
     n \in [retag : Retags(l), tags : TagCount]}

LaneFails ==
  /\ pc = "lanes" /\ lanes # <<>>
  /\ lanes' = Tail(lanes)
  /\ UNCHANGED <<pc, current, job, step, refused, original, cand, best, tags, source>>

\* An exception ends the loop with what was selected before it.
LaneRaises ==
  /\ pc = "lanes" /\ lanes # <<>>
  /\ lanes' = <<>> /\ best' = NoCand /\ pc' = "validated"
  /\ UNCHANGED <<current, job, step, refused, original, cand, tags, source>>

\* Mutant: the bytes of a lane are taken with the verdict before it.
LaneGives_OldVerdict ==
  /\ pc = "lanes" /\ lanes # <<>>
  /\ \E v \in Verdict, o \in LaneOutput(Head(lanes)) :
       IF Better(v, best.validation.verdict) /\ ~Regresses(o.tags, tags.best)
         THEN /\ best' = [best EXCEPT !.file = o.file]
              /\ tags' = [tags EXCEPT !.best = o.tags]
              /\ source' = IF o.file.src = Head(lanes) THEN Head(lanes) ELSE source
         ELSE UNCHANGED <<best, tags, source>>
  /\ lanes' = IF Compliant(best'.validation.verdict) THEN <<>> ELSE Tail(lanes)
  /\ UNCHANGED <<pc, current, job, step, refused, original, cand>>

\* A better verdict without lost tags is taken; a compliant one ends the loop.
LaneGives ==
  /\ pc = "lanes" /\ lanes # <<>>
  /\ \E v \in Verdict, o \in LaneOutput(Head(lanes)) :
       IF Better(v, best.validation.verdict) /\ ~Regresses(o.tags, tags.best)
         THEN /\ best' = [best EXCEPT !.file = o.file, !.validation = Validation(o.file, v)]
              /\ tags' = [tags EXCEPT !.best = o.tags]
              /\ source' = IF o.file.src = Head(lanes) THEN Head(lanes) ELSE source
         ELSE UNCHANGED <<best, tags, source>>
  /\ lanes' = IF Compliant(best'.validation.verdict) THEN <<>> ELSE Tail(lanes)
  /\ UNCHANGED <<pc, current, job, step, refused, original, cand>>

LanesDone ==
  /\ pc = "lanes" /\ lanes = <<>>
  /\ cand' = best /\ best' = NoCand
  /\ pc' = "validated"
  /\ UNCHANGED <<current, job, step, refused, original, lanes, tags, source>>

\* on_validated.
Validated ==
  /\ pc = "validated"
  /\ cand' = [cand EXCEPT !.phase = "validated"] /\ best' = NoCand
  /\ tags' = [first |-> NoTags, best |-> NoTags]
  /\ Mark([validation |-> "complete", fidelity |-> "running"], "fidelity", "assess")
  /\ UNCHANGED <<job, refused, original, lanes, source>>

\* _assess_candidate_fidelity with the model's adjudication, first and last.
AssessTo(next) ==
  LET begun == Allowed(PhaseTransitions, cand.phase, "assessing")
  IN /\ \E r \in Reports(cand.file, cand.validation.verdict) :
          cand' = IF begun THEN [cand EXCEPT !.report = r, !.phase = "assessed"] ELSE cand
     /\ pc' = IF begun THEN next ELSE "failing"
     /\ UNCHANGED <<current, job, step, refused, original, lanes, best, tags, source>>

Assess == pc = "assess" /\ AssessTo("grounded")
Reassess == pc = "reassess" /\ AssessTo("store")

Retried(by, v, r) == Candidate([cand.file EXCEPT !.by = by], v, r)
Blocking == cand.report.blocking

\* _retry_grounded_candidate: adopted at once if fewer tasks block and none
\* asks for grounding, else adjudicated and adopted if it is no worse and
\* fewer tasks block, or as many with fewer blocks confirmed.
Grounded ==
  /\ pc = "grounded"
  /\ \/ UNCHANGED cand
     \/ /\ Blocking > 0
        /\ \E v \in Verdict, asks, confirmedFewer \in BOOLEAN :
             \E r, s \in Reports([by |-> "grounded_text"], v) :
               LET first == Retried("grounded_text", v, r)
                   second == Retried("grounded_text", v, s)
               IN cand' = IF ~asks /\ Acceptable(first, cand, r.blocking < Blocking) THEN first
                          ELSE IF Acceptable(second, cand,
                                    s.blocking < Blocking \/ (s.blocking = Blocking /\ confirmedFewer))
                          THEN second ELSE cand
  /\ pc' = "structure_retry"
  /\ UNCHANGED <<current, job, step, refused, original, lanes, best, tags, source>>

\* _retry_structure_candidate: also for tables when nothing blocks.
StructureRetry ==
  /\ pc = "structure_retry"
  /\ \/ UNCHANGED cand
     \/ \E v \in Verdict :
          \E r \in Reports([by |-> "auto_structure"], v) :
            LET new == Retried("auto_structure", v, r)
            IN cand' = IF Acceptable(new, cand, Blocking > 0 => r.blocking < Blocking)
                       THEN new ELSE cand
  /\ pc' = "font_map"
  /\ UNCHANGED <<current, job, step, refused, original, lanes, best, tags, source>>

\* attempt_auto_llm_font_map: the verdicts it may come back with, for a
\* blocking font task.
FontMapGives ==
  IF Blocking > 0 THEN {v \in Verdict : Better(v, cand.validation.verdict)} ELSE {}

\* _retry_font_map_candidate.
FontMap ==
  /\ pc = "font_map"
  /\ \/ UNCHANGED cand
     \/ \E v \in FontMapGives :
          \E r \in Reports([by |-> "font_map"], v) :
            LET new == Retried("font_map", v, r)
            IN cand' = IF Acceptable(new, cand, TRUE) THEN new ELSE cand
  /\ pc' = "reassess"
  /\ UNCHANGED <<current, job, step, refused, original, lanes, best, tags, source>>

(***************************************************************************)
(* _store_candidate_result.                                                *)
(***************************************************************************)
\* One commit: the row's files and the end of the fidelity step.
Store ==
  /\ pc = "store"
  /\ IF Allowed(PhaseTransitions, cand.phase, "published")
       THEN /\ cand' = [cand EXCEPT !.phase = "published"]
            /\ job' = Row(job.status,
                 [output |-> cand.file.by,
                  validation |-> [of |-> cand.validation.of,
                                  compliant |-> Compliant(cand.validation.verdict)],
                  fidelity |-> [of |-> cand.report.of, passed |-> Passed(cand)]])
            /\ Mark([fidelity |-> "complete"], current, "finish")
       ELSE UNCHANGED <<cand, job, step, current>> /\ pc' = "failing"
  /\ UNCHANGED <<refused, original, lanes, best, tags, source>>

Finish ==
  /\ pc = "finish"
  /\ IF refused
       THEN pc' = "failing" /\ UNCHANGED job
       ELSE /\ job' = [job EXCEPT !.status = IF job.validation.compliant /\ job.fidelity.passed
                                             THEN "complete" ELSE "manual_remediation"]
            /\ pc' = "ended"
  /\ UNCHANGED <<current, step, refused, work>>

Work ==
  \/ Handle \/ Begin \/ Classify \/ AuthorUnread \/ AuthorJudged \/ Repair \/ PreserveSteps
  \/ OcrBegin \/ OcrDone \/ Extract \/ Extracted \/ AltText \/ Describe
  \/ Retag \/ Baseline \/ Tag \/ Validate \/ LaneFails \/ LaneRaises \/ LaneGives \/ LanesDone
  \/ Validated \/ Assess \/ Grounded \/ StructureRetry \/ FontMap \/ Reassess \/ Store \/ Finish

Next == Work \/ Raise \/ Refuse \/ Cancel

Spec == Init /\ [][Next]_vars
\* Every call of the attempt has a timeout (the subprocesses, the model), so
\* its work goes on until it ends.
FairSpec == Spec /\ WF_vars(Work)

(***************************************************************************)
(* Properties.                                                             *)
(***************************************************************************)
\* What the job's row tells is proven. Whoever swallows a refusal of the
\* Gateway, the user gets no document after it. A finished job names one PDF,
\* with the validation and the report of its exact bytes, has every step
\* settled, and is "complete" only if the PDF complies and no task blocks. A
\* failed one names none, also when it failed after publishing. An author's
\* PDF that passes as it is never comes back failing.
ResultIsProven ==
  /\ refused => job.status \notin Ready
  /\ job.status \in Ready =>
       /\ job.output = cand.file.by
       /\ job.validation.of = job.output /\ job.fidelity.of = job.output
       /\ \A n \in Step : step[n] \in Settled
       /\ job.status = "complete" => job.validation.compliant /\ job.fidelity.passed
  /\ job.status = "failed" => job = Row("failed", NoFiles)
  /\ original # NoCand /\ Proven(original) => job.status # "manual_remediation"

\* Over the font lanes and the three retries nothing good is given up: a
\* candidate that complies for one that does not, or the links and the kinds
\* of tags of the first file.
GoodIsKept ==
  [][/\ /\ pc \in {"lanes", "validated", "assess", "grounded", "structure_retry", "font_map", "reassess"}
        /\ pc' \in {"validated", "assess", "grounded", "structure_retry", "font_map", "reassess", "store"}
        /\ Compliant(cand.validation.verdict)
        => Compliant(cand'.validation.verdict)
     /\ pc' = "lanes" => /\ tags'.best.links >= tags'.first.links
                         /\ tags'.first.kinds > 0 => tags'.best.kinds > 0]_vars

\* Whatever raises, is refused or fails, the attempt ends.
PipelineEnds == <>(pc \in Over)

\* "A PDF and the evaluations and changes belonging to those exact bytes"
\* (Candidate): the PDF a candidate is compared with is the one it was made
\* from.
SourceOfBytes ==
  pc \in {"assess", "grounded", "structure_retry", "font_map", "reassess", "store"}
    /\ cand.file.by \notin Author
    => source = cand.file.src

================================================================================
