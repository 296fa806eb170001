--------------------------------- MODULE MCText ---------------------------------
(***************************************************************************)
(* The text of a document, for TLC: how OCR gives it (Ocr), what is made   *)
(* of docling's reading of it (Structure), how its outline is planned and  *)
(* written (Outline), what the repair of its fonts leaves of it (FontMaps, *)
(* FontGlyphs) and how it is judged at the end (Fidelity).  The            *)
(* orchestrator runs them one after the other on files; they share no      *)
(* state, so each behaviour is of one part and the variables of the others *)
(* rest.                                                                   *)
(***************************************************************************)
EXTENDS Naturals, Sequences, FiniteSets, TLC

CONSTANTS Pages, Weight, Temperatures, Delays, Jobs

ASSUME OcrConstants ==
  /\ IsFiniteSet(Pages) /\ Weight \in [Pages -> Nat \ {0}]
  /\ Temperatures \in Nat \ {0} /\ Delays \in Nat /\ Jobs \in Nat \ {0}

\* A short page and the rest of a file: the shares of pages that Type asks for all occur.
MCPages  == {1, 2}
MCWeight == [p \in MCPages |-> IF p = 1 THEN 20 ELSE 1]

VARIABLES
  part,  \* "ocr", "structure", "outline", "maps", "glyphs", "fidelity"
  stage, \* of all parts but Fidelity
  kind, scanLike, engine, class, lang, passes, proc, attempt, page, receipts, told, late, paid, text, outcome,
  els, source, title, front, outline, plan, chosen, written,
  doc, step, checks, tasks, verdictOf, adjudged,
  body, item, run, rows,
  font, shown, used, promised, author,
  face, form, draws, decided, rewrite, asIs

ocrOnly      == <<kind, scanLike, engine, class, lang, passes, proc, attempt, page, receipts,
                  told, late, paid, text, outcome>>
outlineOnly  == <<els, source, title, front, outline, plan, chosen, written>>
fidelityOnly == <<doc, step, checks, tasks, verdictOf, adjudged>>
structureOnly == <<body, item, run, rows>>
mapsOnly     == <<font, shown, used, promised, author>>
glyphsOnly   == <<face, form, draws, decided, rewrite, asIs>>
textVars     == <<part, stage, ocrOnly, outlineOnly, fidelityOnly, structureOnly, mapsOnly, glyphsOnly>>

O == INSTANCE Ocr
B == INSTANCE Outline
F == INSTANCE Fidelity
S == INSTANCE Structure
M == INSTANCE FontMaps
G == INSTANCE FontGlyphs

OcrRests ==
  /\ kind = "rest" /\ scanLike = "rest" /\ engine = "rest" /\ class = "rest" /\ lang = "rest"
  /\ passes = "rest" /\ proc = "rest" /\ attempt = "rest" /\ page = "rest" /\ receipts = "rest"
  /\ told = "rest" /\ late = "rest" /\ paid = "rest" /\ text = "rest" /\ outcome = "rest"
OutlineRests ==
  /\ els = "rest" /\ source = "rest" /\ title = "rest" /\ front = "rest" /\ outline = "rest"
  /\ plan = "rest" /\ chosen = "rest" /\ written = "rest"
FidelityRests ==
  /\ doc = "rest" /\ step = "rest" /\ checks = "rest" /\ tasks = "rest" /\ verdictOf = "rest"
  /\ adjudged = "rest"

StructureRests == body = "rest" /\ item = "rest" /\ run = "rest" /\ rows = "rest"
MapsRest ==
  /\ font = "rest" /\ shown = "rest" /\ used = "rest" /\ promised = "rest" /\ author = "rest"
GlyphsRest ==
  /\ face = "rest" /\ form = "rest" /\ draws = "rest" /\ decided = "rest" /\ rewrite = "rest"
  /\ asIs = "rest"
FontsRest == MapsRest /\ GlyphsRest

TextInit ==
  \/ part = "ocr" /\ O!Init /\ OutlineRests /\ FidelityRests /\ StructureRests /\ FontsRest
  \/ part = "outline" /\ B!OutlineInit /\ OcrRests /\ FidelityRests /\ StructureRests /\ FontsRest
  \/ part = "fidelity" /\ F!Init /\ stage = "rest" /\ OcrRests /\ OutlineRests /\ StructureRests /\ FontsRest
  \/ part = "structure" /\ S!Init /\ OcrRests /\ OutlineRests /\ FidelityRests /\ FontsRest
  \/ part = "maps" /\ M!Init /\ OcrRests /\ OutlineRests /\ FidelityRests /\ StructureRests /\ GlyphsRest
  \/ part = "glyphs" /\ G!Init /\ OcrRests /\ OutlineRests /\ FidelityRests /\ StructureRests /\ MapsRest

InOcr(A) ==
  part = "ocr" /\ A /\ UNCHANGED <<part, outlineOnly, fidelityOnly, structureOnly, mapsOnly, glyphsOnly>>
InOutline(A) ==
  part = "outline" /\ A /\ UNCHANGED <<part, ocrOnly, fidelityOnly, structureOnly, mapsOnly, glyphsOnly>>
InFidelity(A) ==
  part = "fidelity" /\ A /\ UNCHANGED <<part, stage, ocrOnly, outlineOnly, structureOnly, mapsOnly, glyphsOnly>>
InStructure(A) ==
  part = "structure" /\ A /\ UNCHANGED <<part, ocrOnly, outlineOnly, fidelityOnly, mapsOnly, glyphsOnly>>
InMaps(A) ==
  part = "maps" /\ A /\ UNCHANGED <<part, ocrOnly, outlineOnly, fidelityOnly, structureOnly, glyphsOnly>>
InGlyphs(A) ==
  part = "glyphs" /\ A /\ UNCHANGED <<part, ocrOnly, outlineOnly, fidelityOnly, structureOnly, mapsOnly>>

TextNext ==
  \/ InOcr(O!Next)
  \/ InOutline(B!OutlineNext)
  \/ InFidelity(F!Next)
  \/ InStructure(S!Next)
  \/ InMaps(M!Next)
  \/ InGlyphs(G!Next)

TextSpec == TextInit /\ [][TextNext]_textVars

(***************************************************************************)
(* The properties of the parts, as stated in their modules.                *)
(***************************************************************************)
\* A completed OCR step has read what had no usable text and kept the rest; its pages stop
\* asking after a refusal and pay for no answer twice.
OcrHolds == part = "ocr" => O!OcrGivesText /\ O!PagesAreSparing

\* The repair of fonts gives the text it was let run for, loses none it has to keep and
\* moves nothing that is seen.
FontsHold ==
  /\ part = "maps" => M!MapsHold
  /\ part = "glyphs" => G!GlyphsHold

\* Each text docling read is in one place, with its boxes, its figure and its table of
\* contents; bookmarks lead to their words, and nothing an answer chose is lost.
StructureHolds ==
  /\ part = "outline" => B!LeadsToText /\ B!ChosenIsWritten
  /\ part = "structure" => S!HeardOnce /\ S!FigureIsItsOwn /\ S!BoxesKept /\ S!TocWhole

\* A document is held exactly for what is wrong with it.
HeldForAReason == part = "fidelity" => F!HeldForAReason

\* What a check found is told at the end, as urgently.
NothingFoundIsLost == part = "fidelity" => F!NothingFoundIsLost
================================================================================
