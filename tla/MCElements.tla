------------------------------- MODULE MCElements -------------------------------
(***************************************************************************)
(* The elements of a document, for TLC: a figure (Figures), what is        *)
(* decided before tagging (Pretag), the tables of a vision model           *)
(* (TableModel), the tags of a page (Tagging) and of a table (Tables).     *)
(* The orchestrator runs them one after the other on the structure; a      *)
(* figure, a table, a form and a page of text do not share state, so each  *)
(* behaviour is of one part and the variables of the others rest.          *)
(***************************************************************************)
EXTENDS Naturals, Sequences, FiniteSets, TLC

CONSTANTS MaxAge, MaxNow, MaxDocs, TableRows, AuthorHeaders, NumRows, NumCols, MaxSpan, MaxOdd, MaxTokens

ASSUME ElementConstants ==
  /\ MaxAge \in Nat \ {0} /\ MaxNow \in Nat /\ MaxDocs \in Nat
  /\ TableRows \in Nat \ {0}
  /\ NumRows \in Nat \ {0} /\ NumCols \in Nat \ {0} /\ MaxSpan \in Nat \ {0} /\ MaxOdd \in Nat
  /\ MaxTokens \in Nat \ {0}

VARIABLES
  part,  \* "figures", "pretag", "model", "tagging", "tables"
  stage, \* of all parts but Figures
  told,  \* the model's decision in Figures and in Pretag
  tree,  \* the tags in Tagging and in Tables
  fig, figPc, prev, result, fate, entry, cached, now, docs,
  pairs, read, table, block, form, labels, tagged,
  page, owners, order, marked, mcids, failed, heads,
  cells, sure, state, headings, decision, next, audit,
  answers, circuit, otsl, votes, line, grids

figureOnly  == <<fig, figPc, prev, result, fate, entry, cached, now, docs>>
pretagOnly  == <<pairs, read, table, block, form, labels, tagged>>
taggingOnly == <<page, owners, order, marked, mcids, failed, heads>>
tableOnly   == <<cells, sure, state, headings, decision, next, audit>>
modelOnly   == <<answers, circuit, otsl, votes, line, grids>>
elementVars == <<part, stage, told, tree, figureOnly, pretagOnly, taggingOnly, tableOnly, modelOnly>>

F == INSTANCE Figures
P == INSTANCE Pretag
G == INSTANCE Tagging
B == INSTANCE Tables
M == INSTANCE TableModel

FiguresRest ==
  /\ fig = "rest" /\ figPc = "rest" /\ prev = "rest" /\ result = "rest" /\ fate = "rest"
  /\ entry = "rest" /\ cached = "rest" /\ now = "rest" /\ docs = "rest"
PretagRests ==
  /\ pairs = "rest" /\ read = "rest" /\ table = "rest" /\ block = "rest" /\ form = "rest"
  /\ labels = "rest" /\ tagged = "rest"
TaggingRests ==
  /\ page = "rest" /\ owners = "rest" /\ order = "rest" /\ marked = "rest" /\ mcids = "rest"
  /\ failed = "rest" /\ heads = "rest"
TablesRest ==
  /\ cells = "rest" /\ sure = "rest" /\ state = "rest" /\ headings = "rest" /\ decision = "rest"
  /\ next = "rest" /\ audit = "rest"
ModelRests ==
  /\ answers = "rest" /\ circuit = "rest" /\ otsl = "rest" /\ votes = "rest" /\ line = "rest"
  /\ grids = "rest"

ElementInit ==
  \/ /\ part = "figures" /\ F!Init /\ stage = "rest" /\ tree = "rest"
     /\ PretagRests /\ TaggingRests /\ TablesRest /\ ModelRests
  \/ /\ part = "pretag" /\ P!Init /\ tree = "rest"
     /\ FiguresRest /\ TaggingRests /\ TablesRest /\ ModelRests
  \/ /\ part = "tagging" /\ G!Init /\ told = "rest"
     /\ FiguresRest /\ PretagRests /\ TablesRest /\ ModelRests
  \/ /\ part = "tables" /\ B!Init /\ told = "rest"
     /\ FiguresRest /\ PretagRests /\ TaggingRests /\ ModelRests
  \/ /\ part = "model" /\ M!Init /\ told = "rest" /\ tree = "rest"
     /\ FiguresRest /\ PretagRests /\ TaggingRests /\ TablesRest

InFigures(A) == part = "figures" /\ A /\ UNCHANGED <<part, stage, tree, pretagOnly, taggingOnly, tableOnly, modelOnly>>
InPretag(A)  == part = "pretag" /\ A /\ UNCHANGED <<part, tree, figureOnly, taggingOnly, tableOnly, modelOnly>>
InTagging(A) == part = "tagging" /\ A /\ UNCHANGED <<part, told, figureOnly, pretagOnly, tableOnly, modelOnly>>
InTables(A)  == part = "tables" /\ A /\ UNCHANGED <<part, told, figureOnly, pretagOnly, taggingOnly, modelOnly>>
InModel(A)   == part = "model" /\ A /\ UNCHANGED <<part, told, tree, figureOnly, pretagOnly, taggingOnly, tableOnly>>

ElementNext ==
  \/ InFigures(F!Next)
  \/ InPretag(P!Next)
  \/ InTagging(G!TaggingNext)
  \/ InTables(B!TableNext)
  \/ InModel(M!Next)

ElementSpec == ElementInit /\ [][ElementNext]_elementVars

(***************************************************************************)
(* The properties of the parts, as stated in their modules.                *)
(***************************************************************************)
\* Whatever stage hides, removes, describes or reuses a figure, its reader is told.
FigureIsTold == part = "figures" => F!FigureIsTold

\* Evidence outweighs the model, whose decision is applied whole or not at all.
DecisionHolds == part = "pretag" => P!HeadersAreKept /\ P!WholeDecision /\ P!NamesFollow

\* The structure tree and the marked content agree.
TreeAgrees == part = "tagging" => G!TreeAgrees

\* Every painted word is read, headings nest, and the words of a rebuilt table are in
\* its cells whole and in the order of its rows.
WordsAreRead ==
  /\ part = "tagging" => G!NothingHidden /\ G!TextKept /\ G!HeadingsNest
  /\ part = "model" => M!LinesReadDown /\ M!GlyphsPlacedOnce

\* Whatever spans were reported or tokens answered, the grid has each slot once.
GridCovered ==
  /\ part = "tables" => B!GridCovered
  /\ part = "model" => M!GridWhole

\* What a cell names as its header is one, and the model's headers come last.
HeadersHold == part = "tables" => B!HeadersHold /\ B!DeterministicWins
================================================================================
