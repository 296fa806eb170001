-------------------------------- MODULE Fidelity --------------------------------
(***************************************************************************)
(* The fidelity assessment of a candidate PDF (fidelity.py): nineteen      *)
(* checks in a fixed order, tasks merged by key, the release policy        *)
(* (release_policy.py), the adjudication of suspicious text                *)
(* (grounded_text_intelligence.py) and the policy again.                   *)
(***************************************************************************)
EXTENDS Naturals, Sequences, FiniteSets, SequencesExt

VARIABLES
  doc,       \* what the checks find in the candidate: see Init
  step,      \* the next check; Len(Order) + 1: all have run
  checks,    \* the verdict of each check that has reported
  tasks,     \* the review tasks by key
  verdictOf, \* "none", "hold" or "release": the policy's last decision
  adjudged   \* AdjudicationState, or "raised" when the assessment fails

fidelityVars == <<doc, step, checks, tasks, verdictOf, adjudged>>

Order == <<"compliance", "ocr_coverage", "text_drift", "tagged_text_coverage",
           "grounded_text_fidelity", "reading_order", "figure_coverage", "table_coverage",
           "table_readability", "table_headers", "table_risk", "form_semantics",
           "static_widget_artifacts", "visual_meaning_gap", "alt_text_provenance",
           "figure_descriptions", "link_text_quality", "internal_link_destinations",
           "font_text_fidelity">>

HoldChecks == {"tagged_text_coverage", "figure_descriptions", "table_readability", "table_headers"}

(***************************************************************************)
(* What a document shows to the checks.                                    *)
(***************************************************************************)
\* A violation is the set of the signs its rule, category and words give.
Signs == <<"form_semantics", "font_text_fidelity", "alt_text", "annotation_description",
           "table_semantics">>

\* _task_for_violation: the first sign decides.
TaskForViolation(v) ==
  IF \E i \in 1..Len(Signs) : Signs[i] \in v
    THEN Signs[CHOOSE i \in 1..Len(Signs) : Signs[i] \in v /\ \A j \in 1..(i - 1) : Signs[j] \notin v]
    ELSE "reading_order"

\* pages: words of the text layer that count, and those the tags do not
\* speak; spread: the missing words are spoken on another page.
Page == {[words |-> 0, missing |-> 0], [words |-> 40, missing |-> 40], [words |-> 99, missing |-> 99],
         [words |-> 200, missing |-> 20], [words |-> 200, missing |-> 120]}

\* A table as it was detected; score in halves.
Table == [spans : BOOLEAN, dense : {"no", "dense", "very"}, header : {"plain", "weak", "levels"},
          sparse : BOOLEAN, confirmed : BOOLEAN]

Clean ==
  [class |-> "digital", violations |-> {}, compliant |-> TRUE, unread |-> {}, outText |-> "long",
   source |-> "long", original |-> "same", weak |-> <<"none", "pass">>, ink |-> "visible",
   pages |-> <<[words |-> 0, missing |-> 0], [words |-> 0, missing |-> 0]>>, spread |-> FALSE,
   suspicious |-> FALSE, order |-> [frags |-> 10, exact |-> <<10, 10>>, dense |-> <<10, 10>>],
   figures |-> [found |-> 0, tagged |-> 0, hidden |-> 0, tree |-> TRUE, inTree |-> 0, bare |-> 0],
   tables |-> {}, tagged |-> 0, rotated |-> 0, trees |-> {}, fields |-> {}, gaps |-> 0,
   alts |-> {}, links |-> {}, dests |-> {}]

Facts ==
  [violations |-> {{v} : v \in {{}, {"form_semantics", "table_semantics"}, {"font_text_fidelity"},
                                {"alt_text"}, {"annotation_description", "table_semantics"},
                                {"table_semantics"}}},
   compliant |-> {FALSE},
   unread |-> {{c} : c \in {"tagged_text_coverage", "table_headers", "form_semantics", "visual_meaning_gap",
                            "figure_descriptions", "link_text_quality", "internal_link_destinations",
                            "grounded_text_fidelity"}},
   outText |-> {"error", "none", "some"}, source |-> {"error", "short"}, original |-> {"short", "close", "far"},
   weak |-> {"similarity", "length", "containment", "preservation"} \X {"warn", "fail"},
   ink |-> {"unknown", "blank"}, pages |-> Page \X Page, spread |-> {TRUE}, suspicious |-> {TRUE},
   order |-> {[frags |-> 0, exact |-> <<0, 0>>, dense |-> <<0, 0>>], [frags |-> 4, exact |-> <<1, 1>>, dense |-> <<1, 1>>],
              [frags |-> 10, exact |-> <<2, 2>>, dense |-> <<6, 6>>], [frags |-> 10, exact |-> <<8, 4>>, dense |-> <<8, 8>>],
              [frags |-> 10, exact |-> <<3, 3>>, dense |-> <<3, 2>>]},
   figures |-> [found : {2}, tagged : {0, 2}, hidden : {0, 1}, tree : BOOLEAN, inTree : {0, 2}, bare : {0, 1}],
   tables |-> {{t} : t \in Table}, tagged |-> {1}, rotated |-> {1, 2},
   trees |-> {{t} : t \in [rows : {2, 3}, cols : {1, 2, 3}, th : BOOLEAN]},
   fields |-> {{q} : q \in {"good", "weak", "missing"}}, gaps |-> {1},
   alts |-> {{a} : a \in {"edited", "caption", "machine", "waiting", "rejected"}},
   links |-> {{l} : l \in {"generated", "empty", "vague", "spill", "good"}},
   dests |-> {{d} : d \in {"found", "missing", "page", "gone"}}]

\* A compliant document has no violation left; the text the tags hold is
\* read from the same tree as the counts.
Possible(d) == /\ d.compliant => d.violations = {}
               /\ ~d.figures.tree => d.trees = {} /\ d.figures.inTree = 0
               /\ d.figures.bare <= d.figures.inTree

Errors(d) == {TaskForViolation(v) : v \in d.violations}

(***************************************************************************)
(* _FidelityCollector. A finding is a task with its key; the tasks of one  *)
(* key are one task.                                                       *)
(***************************************************************************)
Task(key, severity, blocking, check) ==
  [key |-> key, severity |-> severity, blocking |-> blocking, check |-> check, source |-> "fidelity"]

\* add_task: severity and blocking only rise, the metadata is updated.
AddTask(ts, t) ==
  [k \in DOMAIN ts \cup {t.key} |->
     IF k # t.key THEN ts[k] ELSE IF k \notin DOMAIN ts THEN t
     ELSE [ts[k] EXCEPT !.severity = IF t.severity > @ THEN t.severity ELSE @,
                        !.blocking = @ \/ t.blocking,
                        !.check = IF t.check = "none" THEN @ ELSE t.check]]

Report(verdict, found) == [verdict |-> verdict, found |-> found]
Fine == Report("pass", <<>>)
Skip == Report("skip", <<>>)
Advice(key, severity) == Report("warning", <<Task(key, severity, FALSE, "none")>>)
Flag(bad, key, severity) == IF bad THEN Advice(key, severity) ELSE Fine

\* add_check_error.
CheckError(check) == Report("error", <<Task(<<"check_error", check>>, 3, TRUE, check)>>)

(***************************************************************************)
(* The checks.                                                             *)
(***************************************************************************)
Compliance(d) ==
  IF d.violations = {} THEN Fine
  ELSE Report("fail", SetToSeq({[Task(<<type, "">>, 3, TRUE, "none") EXCEPT !.source = "validation"] :
                                  type \in Errors(d)}))

\* _meaningful_structure_element_count.
Meaningful(d) == d.order.frags > 0 \/ d.figures.found > 0 \/ d.tables # {}

\* _sample_visual_ink: a previewed page has ink on it.
Inked(d) == d.ink = "visible"

OcrCoverage(d) ==
  IF d.class # "scanned" THEN Report("none", <<>>)
  ELSE IF ~Inked(d) THEN Skip
  ELSE Flag(d.outText \in {"error", "none"}, <<"content_fidelity", "">>, IF Meaningful(d) THEN 2 ELSE 3)

\* How far the text of the output drifted from its source, 0 to 2: measures
\* that allow for what OCR adds, or the strict ones for digital text.
Drift(d) ==
  LET measured == IF d.class = "digital" THEN {"similarity", "length"}
                  ELSE {"containment", "preservation"} \cup (IF d.weak[2] = "fail" THEN {"length"} ELSE {})
  IN IF d.weak[1] \notin measured THEN 0 ELSE IF d.weak[2] = "fail" THEN 2 ELSE 1

\* An OCR rescue is also compared with the text it replaced.
Rescued(d) == IF d.original = "far" THEN <<Task(<<"content_fidelity", "ocr_rescue">>, 2, FALSE, "none")>>
              ELSE <<>>

\* _pdf_text_sample: a text that cannot be read is no empty text. A scan has
\* none to keep.
Unreadable(d) == d.outText = "error" \/ (d.source = "error" /\ d.class # "scanned")

TextDrift(d) ==
  IF Unreadable(d) THEN CheckError("text_drift")
  ELSE IF d.source = "long" /\ d.outText = "long"
    THEN LET drifted == Flag(Drift(d) > 0, <<"content_fidelity", "">>, Drift(d) + 1)
         IN [drifted EXCEPT !.found = Rescued(d) \o @]
  ELSE IF d.source = "long" /\ d.class # "scanned" THEN Advice(<<"content_fidelity", "text_missing">>, 3)
  ELSE Skip

\* Catastrophic loss: fifty words and half of all, in the document or on a
\* page of a hundred words. The words exclude duplicates, what lies off the
\* page, decorative figures, pagination and furniture repeated three times.
Lost(d) ==
  LET words == d.pages[1].words + d.pages[2].words
      missing == IF d.spread THEN 0 ELSE d.pages[1].missing + d.pages[2].missing
  IN \/ missing >= 50 /\ 2 * missing > words
     \/ \E i \in 1..2 : LET p == d.pages[i] IN p.words >= 100 /\ p.missing >= 50 /\ 2 * p.missing > p.words

TaggedTextCoverage(d) ==
  LET thin == \E i \in 1..2 : 100 * d.pages[i].missing > 3 * d.pages[i].words
      task(severity, blocking) == <<Task(<<"tagged_text_coverage", "">>, severity, blocking, "tagged_text_coverage")>>
  IN IF Lost(d) THEN Report("fail", task(3, TRUE)) ELSE IF thin THEN Report("warning", task(2, FALSE)) ELSE Fine

GroundedTextFidelity(d) == Flag(d.suspicious, <<"content_fidelity", "grounded_text">>, 2)

\* _reading_order_metrics: matched and ordered fragments, exact or dense.
OrderMetrics(o) ==
  IF o.dense[1] > o.exact[1] \/ (o.dense[1] = o.exact[1] /\ o.dense[2] > o.exact[2]) THEN o.dense ELSE o.exact

\* _collect_structural_fragments.
Fragments(d) == d.order.frags

ReadingOrder(d) ==
  LET m == OrderMetrics(d.order)
      below(hit, ordered) == /\ Fragments(d) >= 8
                             /\ 100 * m[1] < hit * Fragments(d) \/ 100 * m[2] < ordered * m[1]
  IN IF d.outText = "error" THEN Report("error", <<>>)
     ELSE IF Fragments(d) = 0 \/ d.outText = "none" THEN Skip
     ELSE Flag(below(65, 85), <<"reading_order", "">>, IF below(40, 55) THEN 3 ELSE 2)

\* Figures in the tree of the output, or what tagging said of itself.
TaggedFigures(d) == IF d.figures.tree THEN d.figures.inTree ELSE d.figures.tagged
TaggedTables(d) == IF d.figures.tree THEN Cardinality(d.trees) ELSE d.tagged

FigureCoverage(d) ==
  LET found == d.figures.found
      covered == TaggedFigures(d) + d.figures.hidden
  IN IF found = 0 THEN Skip
     ELSE Flag(covered < found, <<"figure_semantics", "">>, IF 4 * covered < 3 * found THEN 3 ELSE 2)

TableCoverage(d) ==
  IF d.tables = {} THEN Skip
  ELSE Flag(TaggedTables(d) < Cardinality(d.tables), <<"table_semantics", "">>, 3)

TableReadability(d) ==
  Report(IF d.rotated > 0 THEN "fail" ELSE "pass",
         [i \in 1..d.rotated |-> Task(<<"table_readability", ToString(i)>>, 3, TRUE, "table_readability")])

\* _output_tables_without_headers.
Headless(t) == ~t.th /\ t.cols >= 2 /\ t.rows >= (IF t.cols = 2 THEN 3 ELSE 2)

TableHeaders(d) ==
  IF \E t \in d.trees : Headless(t)
    THEN Report("fail", <<Task(<<"table_headers", "1">>, 3, TRUE, "table_headers")>>) ELSE Fine

\* _table_semantics_risk, in halves. The model's confirmation settles all
\* but sparse text.
Risk(t) ==
  (IF t.confirmed THEN 0
   ELSE (IF t.spans THEN 2 ELSE 0) + (CASE t.dense = "no" -> 0 [] t.dense = "dense" -> 2 [] t.dense = "very" -> 4)
        + (CASE t.header = "plain" -> 0 [] t.header = "weak" -> 3 [] t.header = "levels" -> 2))
  + (IF t.sparse THEN 1 ELSE 0)

TableRisk(d) ==
  IF d.tables = {} THEN Skip
  ELSE Flag(\E t \in d.tables : Risk(t) > 0, <<"table_semantics_risk", "">>,
            IF \E t \in d.tables : Risk(t) >= 5 THEN 3 ELSE 2)

\* _form_semantics_risk: fields whose label is missing or weak.
Unlabelled(d) == d.fields \ {"good"}

FormSemantics(d) ==
  IF d.fields = {} THEN Skip
  ELSE Flag(Unlabelled(d) # {} \/ "form_semantics" \in Errors(d), <<"form_semantics", "">>,
            IF "missing" \in d.fields THEN 3 ELSE 2)

\* suspicious_widget_candidates finds none.
StaticWidgetArtifacts(d) == Fine

VisualMeaningGap(d) == Flag(d.gaps > 0, <<"content_fidelity", "visual_meaning_gap">>, 3)

\* Approved without an edit, and not the caption's words.
AltTextProvenance(d) == Flag("machine" \in d.alts, <<"alt_text", "">>, 2)

\* _output_figures_without_alt.
Bare(d) == d.figures.bare > 0

FigureDescriptions(d) ==
  IF ~Bare(d) THEN Fine
  ELSE Report("fail", <<Task(<<"alt_text", "undescribed">>, 3, TRUE, "figure_descriptions")>>)

\* A generated label is left alone; spill is a sentence as the label.
PoorLink(l) == l \in {"empty", "vague", "spill"}
PoorLinks(d) == {l \in d.links : PoorLink(l)}
LinkText(d) == Flag(PoorLinks(d) # {}, <<"annotation_description", "link_text">>, 2)

\* A name that is not found, a page that is gone.
Broken(t) == t \in {"missing", "gone"}
InternalLinks(d) == Flag(\E t \in d.dests : Broken(t), <<"annotation_description", "broken">>, 2)

\* _extract_font_review_targets reads the font rules of the errors only.
FontTargets(d) == {v \in d.violations : "font_text_fidelity" \in v}
FontTextFidelity(d) == Flag(FontTargets(d) # {}, <<"font_text_fidelity", "">>, 3)

Check(name, d) ==
  IF name \in d.unread THEN CheckError(name)
  ELSE CASE name = "compliance" -> Compliance(d)
         [] name = "ocr_coverage" -> OcrCoverage(d)
         [] name = "text_drift" -> TextDrift(d)
         [] name = "tagged_text_coverage" -> TaggedTextCoverage(d)
         [] name = "grounded_text_fidelity" -> GroundedTextFidelity(d)
         [] name = "reading_order" -> ReadingOrder(d)
         [] name = "figure_coverage" -> FigureCoverage(d)
         [] name = "table_coverage" -> TableCoverage(d)
         [] name = "table_readability" -> TableReadability(d)
         [] name = "table_headers" -> TableHeaders(d)
         [] name = "table_risk" -> TableRisk(d)
         [] name = "form_semantics" -> FormSemantics(d)
         [] name = "static_widget_artifacts" -> StaticWidgetArtifacts(d)
         [] name = "visual_meaning_gap" -> VisualMeaningGap(d)
         [] name = "alt_text_provenance" -> AltTextProvenance(d)
         [] name = "figure_descriptions" -> FigureDescriptions(d)
         [] name = "link_text_quality" -> LinkText(d)
         [] name = "internal_link_destinations" -> InternalLinks(d)
         [] name = "font_text_fidelity" -> FontTextFidelity(d)

(***************************************************************************)
(* release_policy.py.                                                      *)
(***************************************************************************)
\* Mutant: a check that could not run holds nothing.
Reasons_ErrorsPass(compliant, cs) ==
  (IF compliant THEN {} ELSE {"compliance"}) \cup {c \in DOMAIN cs \cap HoldChecks : cs[c] = "fail"}

\* release_hold_reasons.
Reasons(compliant, cs) ==
  (IF compliant THEN {} ELSE {"compliance"})
    \cup {c \in DOMAIN cs : cs[c] = "error" \/ (c \in HoldChecks /\ cs[c] = "fail")}

\* What a task blocks for, if anything.
ReasonOf(t) == IF t.source = "validation" THEN "compliance" ELSE t.check

\* An old flag is no evidence.
Flagged(ts, reasons) == [k \in DOMAIN ts |-> [ts[k] EXCEPT !.blocking = ReasonOf(ts[k]) \in reasons]]

\* Every hold has a task that explains it.
Explained(ts, reasons) ==
  LET missing == reasons \ {ReasonOf(ts[k]) : k \in DOMAIN ts}
  IN [k \in DOMAIN ts \cup {<<"hold", r>> : r \in missing} |->
        IF k \in DOMAIN ts THEN ts[k]
        ELSE [Task(k, 3, TRUE, k[2]) EXCEPT !.source = IF k[2] = "compliance" THEN "validation" ELSE "fidelity"]]

Downgraded(cs, reasons) == [c \in DOMAIN cs |-> IF cs[c] = "fail" /\ c \notin reasons THEN "warning" ELSE cs[c]]

(***************************************************************************)
(* Actions.                                                                *)
(***************************************************************************)
\* Documents in which at most two facts are out of the ordinary; of any class, if one of
\* them is the only one or is about the text that the class says how to judge.
TextFacts == {"outText", "source", "original", "weak", "ink"}
Classes(f, g) == {"digital"} \cup IF f = g \/ {f, g} \cap TextFacts # {} THEN {"scanned", "mixed"} ELSE {}
Init == /\ \E f \in DOMAIN Facts, g \in DOMAIN Facts :
             \E v \in Facts[f], w \in Facts[g], c \in Classes(f, g) :
               doc = [Clean EXCEPT ![f] = v, ![g] = w, !.class = c] /\ Possible(doc)
        /\ step = 1 /\ checks = [c \in {} |-> ""] /\ tasks = [k \in {} |-> {}]
        /\ verdictOf = "none" /\ adjudged = "not_requested"

\* One check of assess_fidelity reports; two have no handler of their own.
Assess ==
  /\ step <= Len(Order) /\ adjudged # "raised"
  /\ LET name == Order[step]
         report == Check(name, doc)
     IN IF name = "grounded_text_fidelity" /\ name \in doc.unread
          THEN adjudged' = "raised" /\ UNCHANGED <<step, checks, tasks>>
          ELSE /\ checks' = IF report.verdict = "none" THEN checks
                            ELSE [c \in DOMAIN checks \cup {name} |-> IF c = name THEN report.verdict ELSE checks[c]]
               /\ tasks' = FoldLeft(AddTask, tasks, report.found)
               /\ step' = step + 1 /\ UNCHANGED adjudged
  /\ UNCHANGED <<doc, verdictOf>>

\* apply_release_policy, after the checks and after the adjudication.
Release ==
  /\ step = Len(Order) + 1 /\ verdictOf = "none" /\ adjudged # "raised"
  /\ LET reasons == Reasons(doc.compliant, checks)
     IN /\ checks' = Downgraded(checks, reasons)
        /\ tasks' = Explained(Flagged(tasks, reasons), reasons)
        /\ verdictOf' = IF reasons = {} THEN "release" ELSE "hold"
  /\ UNCHANGED <<doc, step, adjudged>>

Candidate == <<"content_fidelity", "grounded_text">>

\* Mutant: a text that is cleared clears every task of its type.
Cleared_Type(ts) == [k \in {k \in DOMAIN ts : k[1] # Candidate[1]} |-> ts[k]]

\* The task goes when the model confirms nothing.
Cleared(ts) == [k \in DOMAIN ts \ {Candidate} |-> ts[k]]

\* adjudicate_grounded_text_candidates: an answer, or an error of the model.
Adjudicate ==
  /\ verdictOf # "none" /\ adjudged = "not_requested" /\ Candidate \in DOMAIN tasks
  /\ \E answer \in {"error", "cleared", "confirmed"} :
       /\ adjudged' = answer
       /\ tasks' = CASE answer = "error" -> tasks
                     [] answer = "cleared" -> Cleared(tasks)
                     [] answer = "confirmed" -> [tasks EXCEPT ![Candidate].severity = 3, ![Candidate].blocking = TRUE]
       /\ checks' = [checks EXCEPT !["grounded_text_fidelity"] =
                       CASE answer = "error" -> "warning" [] answer = "cleared" -> "pass"
                         [] answer = "confirmed" -> "fail"]
  /\ verdictOf' = "none" /\ UNCHANGED <<doc, step>>

Next == Assess \/ Release \/ Adjudicate
Spec == Init /\ [][Next]_fidelityVars

(***************************************************************************)
(* Properties.                                                             *)
(***************************************************************************)
\* What must hold a document, read off the document itself.
MustHold(d) ==
  (IF d.compliant THEN {} ELSE {"compliance"}) \cup d.unread
    \cup (IF d.outText = "error" \/ (d.source = "error" /\ d.class # "scanned") THEN {"text_drift"} ELSE {})
    \cup (IF d.outText = "error" THEN {"reading_order"} ELSE {})
    \cup (IF "tagged_text_coverage" \notin d.unread /\ Lost(d) THEN {"tagged_text_coverage"} ELSE {})
    \cup (IF d.rotated > 0 THEN {"table_readability"} ELSE {})
    \cup (IF d.figures.bare > 0 THEN {"figure_descriptions"} ELSE {})
    \cup (IF \E t \in d.trees : Headless(t) THEN {"table_headers"} ELSE {})

\* "Normalize flags and ensure every hold has a visible explanation": a
\* document is held exactly for what is wrong with it, each reason has a
\* blocking task, no other task blocks, and a second pass changes nothing.
HeldForAReason ==
  verdictOf # "none" =>
    LET reasons == Reasons(doc.compliant, checks)
    IN /\ reasons = MustHold(doc) /\ verdictOf = (IF reasons = {} THEN "release" ELSE "hold")
       /\ {ReasonOf(tasks[k]) : k \in {k \in DOMAIN tasks : tasks[k].blocking}} = reasons
       /\ Explained(Flagged(tasks, reasons), reasons) = tasks /\ Downgraded(checks, reasons) = checks

\* What a check found is still told at the end, at least as urgently,
\* whatever task it was merged into and whatever the model said of
\* suspicious text: only the suspicion itself can be cleared.
NothingFoundIsLost ==
  verdictOf # "none" =>
    \A i \in 1..Len(Order) : LET found == Check(Order[i], doc).found
      IN \A j \in 1..Len(found) :
           \/ found[j].key = Candidate /\ adjudged = "cleared"
           \/ found[j].key \in DOMAIN tasks /\ tasks[found[j].key].severity >= found[j].severity
================================================================================
