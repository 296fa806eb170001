----------------------------------- MODULE Ocr -----------------------------------
(***************************************************************************)
(* The first two steps of the pipeline: what kind of file it is (classify),*)
(* and OCR of the pages that need it (ocr). OCRmyPDF runs as a process, in *)
(* one pass or two; in it, page processes ask the vision model on the      *)
(* Gateway (ocr_vlm_plugin) and share a refusal by files in a directory    *)
(* (ocr_access). What OCRmyPDF and the Gateway answer is an input.         *)
(***************************************************************************)
EXTENDS Naturals, Sequences, FiniteSets, FiniteSetsExt

CONSTANTS
  Pages,
  Weight,       \* how many pages of the file each page of the model stands for
  Temperatures, \* the answers a page may ask for (TEMPERATURES)
  Delays,       \* the times one request is repeated (RETRY_DELAYS_SECONDS)
  Jobs          \* the page processes at a time

VARIABLES
  kind,     \* what each page holds
  scanLike, \* whether the file's metadata says it is an OCR scan
  engine,   \* "tesseract", "gateway"
  stage,    \* "classify", "detect", "probe", "choose", "ocr", "done"
  class,    \* the type of the file
  lang,     \* "none", "found", "unknown", then the pack: "detected", "default"
  passes,   \* the OCRmyPDF runs still to do, of a mode and pages
  proc,     \* "none", "running": the process of the first of them
  attempt,  \* its attempt, 0 or 1
  page,     \* what the page processes do
  receipts, \* the statuses in the job's access directory
  told,     \* history: the refusals the Gateway gave
  late,     \* history: the requests a page sent after a refusal was on file
  paid,     \* history: the answers of a page the Gateway may have metered
  text,     \* the text a page's working PDF carries
  outcome   \* "none", "skipped", "complete", "failed", "refused"

procVars == <<proc, attempt, page, receipts, late, paid>>
fileVars == <<kind, scanLike, engine, class, lang>>
ocrVars == <<fileVars, procVars, stage, passes, told, text, outcome>>

(***************************************************************************)
(* What a page holds. A picture too small to matter is a blank page.       *)
(***************************************************************************)
Kinds == {"text", "layered", "imaged", "garbled", "scan", "outline", "blank"}

Carried == [k \in Kinds |->
  CASE k \in {"text", "imaged", "garbled"} -> {"native"} [] k = "layered" -> {"layer"} [] OTHER -> {}]

Of(ks) == {p \in Pages : kind[p] \in ks}
TextPages == {p \in Pages : Carried[kind[p]] # {}}
NoText == Pages \ TextPages
\* Pages with pictures of text and little text; an OCR layer is not redone.
Imaged == Of({"imaged"})
Scans == Of({"scan"})
\* Letters drawn as paths, and codes nothing can decode.
Outlined == Of({"outline"})
Garbled == Of({"garbled"})
Forced == Outlined \cup Garbled
Heavy == Of({"scan", "imaged", "layered"})

Total(S) == MapThenSumSet(LAMBDA p : Weight[p], S)
ScanWithText == scanLike /\ 10 * Total(TextPages) >= 9 * Total(Pages) /\ 4 * Total(Heavy) >= 3 * Total(Pages)

Type ==
  IF 10 * Total(TextPages) < Total(Pages) THEN "scanned"
  ELSE IF Forced = {} /\ ScanWithText THEN "ocr_scan"
  ELSE IF 10 * Total(TextPages) > 9 * Total(Pages) /\ Imaged \cup Scans \cup Forced = {} THEN "digital"
  ELSE "mixed"

\* ocr_pages: none means every page without text.
Chosen == IF (Type = "mixed" /\ Imaged # {}) \/ Forced # {} THEN NoText \cup Imaged \cup Forced ELSE {}

(***************************************************************************)
(* The passes of run_ocr: pages that must be rasterized first, alone.      *)
(***************************************************************************)
Pass(mode, ps) == [mode |-> mode, pages |-> ps]
Passes ==
  LET mode == IF Chosen # {} THEN "redo" ELSE "skip"
      rest == Chosen \ Forced
  IN IF Forced = {} THEN <<Pass(mode, IF Chosen = {} THEN Pages ELSE Chosen)>>
     ELSE <<Pass("force", Forced)>> \o (IF rest = {} THEN <<>> ELSE <<Pass(mode, rest)>>)

\* OCRmyPDF's modes: skip leaves pages with text alone, redo replaces an OCR layer
\* and keeps text, force replaces all of it.
Reads(pass) == {p \in pass.pages : pass.mode = "skip" => text[p] = {}}
After(mode, t) == {"read"} \cup CASE mode = "force" -> {} [] mode = "redo" -> t \ {"layer"} [] OTHER -> t

Asking(state) == [st |-> state, gen |-> 0, tries |-> 0]
Idle == [p \in Pages |-> Asking("none")]
Zero == [p \in Pages |-> 0]

(***************************************************************************)
(* The steps up to OCR.                                                    *)
(***************************************************************************)
Classify ==
  /\ stage = "classify"
  /\ class' = Type
  /\ stage' = "detect"
  /\ UNCHANGED <<kind, scanLike, engine, lang, procVars, passes, told, text, outcome>>

\* The language of some pages' text, which may tell none or take too long.
Detect ==
  /\ stage = "detect"
  /\ lang' \in {"none"} \cup (IF TextPages # {} THEN {"found"} ELSE {})
  /\ stage' = "probe"
  /\ UNCHANGED <<kind, scanLike, engine, class, procVars, passes, told, text, outcome>>

\* bcp47_to_tesseract: the pack of a language that was found may not be installed.
Packs == {"default"} \cup (IF lang = "found" THEN {"detected"} ELSE {})

\* Without one, Tesseract reads page one; that may fail too.
Probe ==
  /\ stage = "probe"
  /\ IF lang = "none" THEN lang' \in {"found", "unknown"} ELSE UNCHANGED lang
  /\ stage' = "choose"
  /\ UNCHANGED <<kind, scanLike, engine, class, procVars, passes, told, text, outcome>>

\* Only scans and mixed files are read.
Choose ==
  /\ stage = "choose"
  /\ lang' \in Packs
  /\ IF class \in {"scanned", "mixed"}
     THEN stage' = "ocr" /\ passes' = Passes /\ outcome' = outcome
     ELSE stage' = "done" /\ passes' = passes /\ outcome' = "skipped"
  /\ UNCHANGED <<kind, scanLike, engine, class, procVars, told, text>>

(***************************************************************************)
(* A page process.                                                         *)
(***************************************************************************)
Becomes(p, state) == page' = [page EXCEPT ![p].st = state]
Working == {p \in Pages : page[p].st \notin {"none", "waiting", "read", "broken"}}

PageStep(p) ==
  /\ proc = "running"
  /\ UNCHANGED <<fileVars, stage, proc, attempt, passes, text, outcome>>

Take(p) ==
  /\ page[p].st = "waiting" /\ Cardinality(Working) < Jobs
  /\ Becomes(p, IF engine = "gateway" THEN "checking" ELSE "fallback")
  /\ UNCHANGED <<receipts, told, late, paid>>

\* Mutant: a page looks only at its own refusal.
Clear_OwnOnly == TRUE
\* _complete: no request once a refusal is on file or the page's time is over.
Clear == receipts = {}
Check(p) ==
  /\ page[p].st = "checking"
  /\ \E st \in {"fallback"} \cup (IF Clear THEN {"sending"} ELSE {}) : Becomes(p, st)
  /\ UNCHANGED <<receipts, told, late, paid>>

Post(p) ==
  /\ page[p].st = "sending"
  /\ Becomes(p, "requesting")
  /\ late' = [late EXCEPT ![p] = IF receipts = {} THEN @ ELSE @ + 1]
  /\ UNCHANGED <<receipts, told, paid>>

\* _refusal_from: 401, 403, or a 429 that must not be retried.
Refused(p) ==
  /\ page[p].st = "requesting"
  /\ \E status \in {401, 429} : receipts' = receipts \cup {status} /\ told' = told \cup {status}
  /\ Becomes(p, "fallback")
  /\ UNCHANGED <<late, paid>>

\* An answer that came too late, after a refusal or not at all is not asked for again:
\* it may have been metered.
TimedOut == "fallback"
Lost(p) ==
  /\ page[p].st = "requesting"
  /\ Becomes(p, TimedOut)
  /\ paid' = [paid EXCEPT ![p] = @ + 1]
  /\ UNCHANGED <<receipts, told, late>>

\* A status without an answer is, unless it is the last of them.
NoAnswer(p) ==
  /\ page[p].st = "requesting"
  /\ IF Clear /\ page[p].tries < Delays
     THEN page' = [page EXCEPT ![p].st = "checking", ![p].tries = @ + 1]
     ELSE Becomes(p, "fallback")
  /\ UNCHANGED <<receipts, told, late, paid>>

Answer(p) ==
  /\ page[p].st = "requesting" /\ Clear
  /\ Becomes(p, "answered")
  /\ paid' = [paid EXCEPT ![p] = @ + 1]
  /\ UNCHANGED <<receipts, told, late>>

\* An answer that ended by itself, with lines or with an empty list, can be used; one that
\* was cut off or has none is asked for again.
Usable == BOOLEAN
Regenerates(p) ==
  IF page[p].gen + 1 < Temperatures
  THEN page' = [page EXCEPT ![p] = [st |-> "checking", gen |-> @.gen + 1, tries |-> 0]]
  ELSE Becomes(p, "fallback")
Use(p) ==
  /\ page[p].st = "answered"
  /\ \E usable \in Usable : IF usable THEN Becomes(p, "read") ELSE Regenerates(p)
  /\ UNCHANGED <<receipts, told, late, paid>>

\* Any failure: Tesseract's text, which can fail too.
Fallback(p) ==
  /\ page[p].st = "fallback"
  /\ Becomes(p, "read") \/ Becomes(p, "broken")
  /\ UNCHANGED <<receipts, told, late, paid>>

PageNext ==
  \E p \in Pages :
    /\ PageStep(p)
    /\ Take(p) \/ Check(p) \/ Post(p) \/ Refused(p) \/ Lost(p) \/ NoAnswer(p) \/ Answer(p) \/ Use(p) \/ Fallback(p)

(***************************************************************************)
(* The process and its parent.                                             *)
(***************************************************************************)
Begin(n) ==
  /\ proc' = "running" /\ attempt' = n
  /\ page' = [p \in Pages |-> Asking(IF p \in Reads(Head(passes)) THEN "waiting" ELSE "none")]
  /\ late' = Zero /\ paid' = Zero

\* Each pass has a new access directory, of both its attempts.
Start ==
  /\ stage = "ocr" /\ proc = "none"
  /\ Begin(0)
  /\ receipts' = {}
  /\ UNCHANGED <<fileVars, stage, passes, told, text, outcome>>

Stop(result) ==
  /\ proc' = "none" /\ page' = Idle /\ stage' = "done" /\ outcome' = result
  /\ UNCHANGED <<attempt, receipts, late, paid, passes, text>>

\* The output is taken; a second pass reads it, or the step is complete.
Accept(good) ==
  /\ text' = [p \in Pages |-> IF ~good THEN {}
                              ELSE IF p \in Reads(Head(passes)) THEN After(Head(passes).mode, text[p]) ELSE text[p]]
  /\ passes' = Tail(passes)
  /\ proc' = "none" /\ page' = Idle
  /\ IF passes' = <<>> THEN stage' = "done" /\ outcome' = "complete" ELSE UNCHANGED <<stage, outcome>>
  /\ UNCHANGED <<attempt, receipts, late, paid>>

Retry == Begin(1) /\ UNCHANGED <<receipts, stage, passes, text, outcome>>

Finished == \A p \in Pages : page[p].st \in {"none", "read"}

MayRetry(code) == code = 4 /\ attempt = 0

\* _run_ocr_process, of an exit code and an output (good: all its pages are there).
\* OCRmyPDF vouches for a first exit 0; other outputs are opened and counted. With
\* --skip-text it does not exit with 6 (the file has text), which the code would take.
OnFile == receipts # {}
Ends(code, good) ==
  CASE OnFile -> Stop("refused")
    [] ~OnFile /\ code = 0 /\ attempt = 0 -> Accept(good)
    [] ~OnFile /\ (code = 4 \/ (code = 0 /\ attempt = 1)) ->
         IF good THEN Accept(good) ELSE IF MayRetry(code) THEN Retry ELSE Stop("failed")
    [] OTHER -> Stop("failed")

Exit ==
  /\ proc = "running"
  /\ \E code \in {0, 4, 15}, good \in BOOLEAN :
       /\ code \in {0, 4} => Finished
       /\ code = 0 /\ attempt = 0 => good
       /\ Ends(code, good)
  /\ UNCHANGED <<fileVars, told>>

\* communicate_with_timeout kills the process tree.
Timeout ==
  /\ proc = "running"
  /\ Stop(IF OnFile THEN "refused" ELSE "failed")
  /\ UNCHANGED <<fileVars, told>>

Init ==
  /\ kind \in [Pages -> Kinds] /\ scanLike \in BOOLEAN /\ engine \in {"tesseract", "gateway"}
  /\ stage = "classify" /\ class = "none" /\ lang = "none" /\ passes = <<>>
  /\ proc = "none" /\ attempt = 0 /\ page = Idle /\ receipts = {} /\ told = {} /\ late = Zero /\ paid = Zero
  /\ text = [p \in Pages |-> Carried[kind[p]]]
  /\ outcome = "none"

Next == Classify \/ Detect \/ Probe \/ Choose \/ Start \/ PageNext \/ Exit \/ Timeout

Spec == Init /\ [][Next]_ocrVars
(***************************************************************************)
(* Properties.                                                             *)
(***************************************************************************)
\* A completed OCR step has read every page that had no usable text, replaced only text
\* that could not be decoded, kept all other text, and had no refusal: whatever pages
\* failed, whichever pass was repeated.
OcrGivesText ==
  outcome = "complete" =>
    /\ told = {}
    /\ \A p \in Pages :
         /\ kind[p] \in {"scan", "outline", "garbled"} => "read" \in text[p]
         /\ kind[p] = "garbled" => text[p] = {"read"}
         /\ p \notin Forced => Carried[kind[p]] \subseteq text[p]

\* "Job refusal is shared through OcrJobAccess receipts" (ocr_vlm_plugin.py): after a
\* refusal is on file, a page sends at most the request it was about to send. And a page
\* pays for no more answers than it may ask for: a timeout is not repeated, "since the
\* Gateway may already have metered an answer that arrived too late".
PagesAreSparing == \A p \in Pages : late[p] <= 1 /\ paid[p] <= Temperatures

================================================================================
