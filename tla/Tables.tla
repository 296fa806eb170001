--------------------------------- MODULE Tables ---------------------------------
(***************************************************************************)
(* How a table is tagged: it may be unreadable (tagger_table_readability), *)
(* a layout and not a table (tagger_layout_tables), headed by paragraphs   *)
(* above it (tagger_table_structure) or have its headers inferred          *)
(* (tagger_tables); its grid is completed, the cells get their roles and   *)
(* headers (tagger_structure), a table continued on the next page is       *)
(* joined, and a model's decision comes last (tagger_table_intelligence).  *)
(* What a cell says is an input: where the code looks at text, style or    *)
(* rules, either answer may come.                                          *)
(***************************************************************************)
EXTENDS Naturals, Sequences, FiniteSets, SequencesExt

CONSTANTS
  NumRows, NumCols,
  MaxSpan,  \* bound on the spans that the extractor reports
  MaxOdd    \* bound on the slots that are absent or start a span

VARIABLES
  stage,    \* "read", "layout", "external", "infer", "build", "finish", "model", "done"
  cells,    \* the explicit cells, with the flags of the extractor or of an inference
  sure,     \* whether the extractor flagged a header
  state,    \* "table", "unreadable", "layout"
  headings, \* whether a paragraph stands above each column as its header
  decision, \* the model's queued decision
  tree,     \* the rows of the Table element, of cells with their roles
  next,     \* the rows of the table on the next page, << >> once joined
  audit     \* what became of the decision

tableVars == <<stage, cells, sure, state, headings, decision, tree, next, audit>>

RowIx == 0..(NumRows - 1)
ColIx == 0..(NumCols - 1)

Cell(row, col, rs, cs) == [row |-> row, col |-> col, rs |-> rs, cs |-> cs, flag |-> "no", proj |-> FALSE]

(***************************************************************************)
(* The grid: explicit cells are stronger than the spans across them.       *)
(***************************************************************************)
Least(S) == CHOOSE x \in S : \A y \in S : x <= y

EndCol(cs, c) == Least({c.col + c.cs, NumCols} \cup {o.col : o \in {d \in cs : d.row = c.row /\ d.col > c.col}})
ShareCols(c, d) == d.col < c.col + c.cs /\ d.col + d.cs > c.col
\* Mutant: a span is cut only by a cell of its own first column.
EndRow_OwnColumn(cs, c) == Least({c.row + c.rs, NumRows} \cup {o.row : o \in {d \in cs : d.row > c.row /\ d.col = c.col}})
EndRow(cs, c) == Least({c.row + c.rs, NumRows} \cup {o.row : o \in {d \in cs : d.row > c.row /\ ShareCols(c, d)}})

InGrid(cs) == {c \in cs : c.row < NumRows /\ c.col < NumCols}
Narrowed(cs) == {[c EXCEPT !.cs = EndCol(cs, c) - c.col] : c \in cs}
Shortened(cs) == {[c EXCEPT !.rs = EndRow(cs, c) - c.row] : c \in cs}
Fitted(cs) == Shortened(Narrowed(InGrid(cs)))

Covers(c, row, col) == c.row <= row /\ row < c.row + c.rs /\ c.col <= col /\ col < c.col + c.cs

\* _complete_table_grid_cells: an uncovered slot gets an empty cell.
Free(cs) == {s \in RowIx \X ColIx : \A c \in cs : ~Covers(c, s[1], s[2])}
Completed(cs) == Fitted(cs) \cup {Cell(s[1], s[2], 1, 1) : s \in Free(Fitted(cs))}

(***************************************************************************)
(* What a table may be.                                                    *)
(***************************************************************************)
Flagged(cs) == \E c \in cs : c.flag # "no"

\* An odd slot is absent or starts a span, across other cells or not; a span counts
\* twice. A slot starts one cell: docling and the vision model report no second one, and
\* _normalize_table_cells and _complete_table_grid_cells would keep it.
Slots == RowIx \X ColIx
Odd == {p \in (SUBSET Slots) \X (SUBSET Slots) : p[2] \subseteq p[1] /\ Cardinality(p[1]) + Cardinality(p[2]) <= MaxOdd}
Laid(odd, spans) ==
  {{Cell(s[1], s[2], g[s][1], g[s][2]) : s \in spans} \cup {Cell(s[1], s[2], 1, 1) : s \in Slots \ odd} :
     g \in [spans -> (1..MaxSpan) \X (1..MaxSpan)]}
Explicit == UNION {Laid(p[1], p[2]) : p \in Odd}

\* The extractor's flags, or the author's scopes in their place: "Both" on a corner, or
\* header cells with no scope at all ("Plain").
Mark(cs, some, scope) == {IF c \in some THEN [c EXCEPT !.flag = scope] ELSE c : c \in cs}
Headed(cs) == Mark(cs, {c \in cs : c.row = 0}, "Column")
Stubbed(cs) == Mark(cs, {c \in cs : c.col = 0}, "Row")
Cornered(cs) == Mark(cs, {c \in cs : c.row = 0 /\ c.col = 0}, "Both")
Unscoped(cs) == Mark(cs, {c \in cs : c.row = 0 \/ c.col = 0}, "Plain")
Flaggings(cs) == {cs, Headed(cs), Stubbed(cs), Headed(Stubbed(cs)), Cornered(Headed(Stubbed(cs))), Unscoped(cs)}

Choice(action, rows, cols) == [action |-> action, rows |-> rows, cols |-> cols]
Decisions == {Choice("none", {}, {}), Choice("layout", {}, {}), Choice("form", {}, {})}
               \cup {Choice("headers", rs, ks) : rs \in {{}, {0}, {1}}, ks \in {{}, {0}}}

\* A decision is queued only for a table whose extractor flagged no header.
Queued(cs) == IF Flagged(cs) THEN {Choice("none", {}, {})} ELSE {d \in Decisions : d.action = "headers" => d.rows \cup d.cols # {}}

(***************************************************************************)
(* Before the tags.                                                        *)
(***************************************************************************)
Headless == state = "table" /\ ~Flagged(cells)

\* _mark_unreadable_tables: mostly rotated, or half the words out of order.
Read ==
  /\ stage = "read"
  /\ state' \in {"table", "unreadable"}
  /\ stage' = "layout"
  /\ UNCHANGED <<cells, sure, headings, decision, tree, next, audit>>

\* The model's layout decision, or leaders, bullets or staggered prose.
Layout ==
  /\ stage = "layout"
  /\ state' \in IF ~Headless THEN {state} ELSE IF decision.action = "layout" THEN {"layout"} ELSE {"table", "layout"}
  /\ stage' = "external"
  /\ UNCHANGED <<cells, sure, headings, decision, tree, next, audit>>

\* _column_starts: every column has a cell of its own.
EveryColumnStarts == NumCols >= 2 /\ \A k \in ColIx : \E c \in cells : c.col = k /\ c.cs = 1

External ==
  /\ stage = "external"
  /\ headings' \in IF Headless /\ EveryColumnStarts THEN BOOLEAN ELSE {FALSE}
  /\ stage' = "infer"
  /\ UNCHANGED <<cells, sure, state, decision, tree, next, audit>>

\* A complete first row without spans; docling may omit its last slot.
First == {c \in cells : c.row = 0}
LabelGrid ==
  /\ \A c \in First : c.rs = 1 /\ c.cs = 1
  /\ {c.col : c \in First} \in {ColIx} \cup (IF NumCols > 2 THEN {0..(NumCols - 2)} ELSE {})

\* Labels of data rows: unspanned cells of the first column, with a value beside them.
LabelOf(c, column) ==
  /\ c.col = 0 /\ c.rs = 1 /\ c.cs \in {1, NumCols} /\ ~(column /\ c.row = 0)
Beside(c) == \E d \in cells : d.row = c.row /\ d.col > 0

Labelled(column) == Mark(cells, {c \in cells : LabelOf(c, column) /\ Beside(c)}, "Row")
Sections(some) == {IF c \in some THEN [c EXCEPT !.flag = "Row", !.proj = TRUE] ELSE c : c \in cells}

\* Two columns of labels and values, with headings across both.
Across(c) == c.col = 0 /\ c.cs = NumCols /\ ~Beside(c)
Paired == {IF Across(c) THEN [c EXCEPT !.flag = "Row", !.proj = TRUE] ELSE c : c \in Labelled(FALSE)}

\* Rules under the first row, its style or its words may make it a header row.
HeaderRows == IF LabelGrid THEN {Headed(cells), Headed(Labelled(TRUE))} ELSE {}

\* _infer_table_headers: a column header row, row labels, projected sections (never
\* below a header row), pairs, or none of these. Which labels head sections is the
\* text's to say: any two may.
Inferences ==
  {cells} \cup {Labelled(FALSE)} \cup (IF NumCols = 2 THEN {Paired} ELSE {}) \cup HeaderRows
    \cup {Sections(s) : s \in {t \in SUBSET {c \in cells : LabelOf(c, FALSE)} : Cardinality(t) = 2}}

CanInfer == Headless /\ ~headings /\ NumRows >= 2 /\ NumCols >= 2
Infer ==
  /\ stage = "infer"
  /\ cells' \in IF CanInfer THEN Inferences ELSE {cells}
  /\ stage' = "build"
  /\ UNCHANGED <<sure, state, headings, decision, tree, next, audit>>

(***************************************************************************)
(* The Table element.                                                      *)
(***************************************************************************)
\* A header cell that says no scope is its row's in the first column.
ScopeOf(c) == IF c.flag # "Plain" THEN c.flag ELSE IF c.col = 0 THEN "Row" ELSE "Column"
HeadsColumn(c) == ScopeOf(c) \in {"Column", "Both"}
HeadsRow(c) == ScopeOf(c) \in {"Row", "Both"}
Ths(cs) == {c \in cs : c.flag # "no"}
IdOf(c) == <<"a", c.row, c.col>>

\* The header cells of a data cell: projected sections until the next one, column
\* headers above it and the nearest stub to its left.
Heads(cs, d) ==
  {h \in Ths(cs) :
     IF h.proj THEN h.row < d.row /\ \A p \in Ths(cs) : p.proj /\ p.row > h.row => d.row < p.row
     ELSE \/ HeadsColumn(h) /\ h.col <= d.col /\ d.col < h.col + h.cs /\ h.row + h.rs <= d.row
          \/ /\ HeadsRow(h) /\ h.row <= d.row /\ d.row < h.row + h.rs /\ h.col + h.cs <= d.col
             /\ \A o \in Ths(cs) : HeadsRow(o) /\ o.row <= d.row /\ d.row < o.row + o.rs /\ o.col > h.col
                  => d.col < o.col}

Node(id, row, col, rs, cs, th, scope, hdrs) ==
  [id |-> id, row |-> row, col |-> col, rs |-> rs, cs |-> cs, th |-> th, scope |-> scope, hdrs |-> hdrs]
NodeOf(cs, c) ==
  Node(IdOf(c), c.row, c.col, c.rs, c.cs, c.flag # "no", IF c.flag = "no" THEN "" ELSE ScopeOf(c),
       IF c.flag = "no" THEN {IdOf(h) : h \in Heads(cs, c)} ELSE {})

\* A row that spans cover still occupies a row.
RowsOf(cs) ==
  [r \in 1..NumRows |->
     LET row == SetToSortSeq({c \in cs : c.row = r - 1}, LAMBDA c, d : c.col < d.col)
     IN [i \in DOMAIN row |-> NodeOf(cs, row[i])]]

Build ==
  /\ stage = "build"
  /\ tree' = IF state = "layout" THEN <<>> ELSE RowsOf(Completed(cells))
  /\ stage' = "finish"
  /\ UNCHANGED <<cells, sure, state, headings, decision, next, audit>>

(***************************************************************************)
(* Once every page is tagged.                                              *)
(***************************************************************************)
NodesOf(t) == UNION {ToSet(t[r]) : r \in DOMAIN t}
HasHeaders(t) == \E n \in NodesOf(t) : n.th

\* The columns of a cell as _associate_columns counts them: by the spans before it
\* in its row, not by the rows that reach down into it.
Start(row, i) == FoldLeft(LAMBDA sum, n : sum + n.cs, 0, SubSeq(row, 1, i - 1))
ColumnHeads(t) ==
  UNION {{[id |-> t[r][i].id, from |-> Start(t[r], i), to |-> Start(t[r], i) + t[r][i].cs] :
            i \in {j \in DOMAIN t[r] : t[r][j].th /\ t[r][j].scope = "Column"}} : r \in DOMAIN t}
\* Mutant: the end of a header's columns is counted as one of them.
Over_Touching(h, start, span) == h.from < start + span /\ h.to >= start
Over(h, start, span) == h.from < start + span /\ h.to > start
Associated(t) ==
  [r \in DOMAIN t |-> [i \in DOMAIN t[r] |->
     IF t[r][i].th THEN t[r][i]
     ELSE [t[r][i] EXCEPT !.hdrs = @ \cup
             {h.id : h \in {g \in ColumnHeads(t) : Over(g, Start(t[r], i), t[r][i].cs)}}]]]

\* The headings above the table become its first row, if they are still direct children
\* of the Document.
ExternalRow == [k \in 1..NumCols |-> Node(<<"x", 0, k - 1>>, 0, k - 1, 1, 1, TRUE, "Column", {})]
WithHeadings(moved) == IF moved THEN Associated(<<ExternalRow>> \o tree) ELSE tree

\* The rows of a headless table that continues this one are moved to it.
MayJoin(t) == state = "table" /\ HasHeaders(t) /\ ~HasHeaders(next) /\ EveryColumnStarts

Finish ==
  /\ stage = "finish"
  /\ \E moved \in {FALSE, headings} :
       \/ tree' = WithHeadings(moved) /\ next' = next
       \/ MayJoin(WithHeadings(moved)) /\ tree' = Associated(WithHeadings(moved) \o next) /\ next' = <<>>
  /\ stage' = "model"
  /\ UNCHANGED <<cells, sure, state, headings, decision, audit>>

\* header_selection: the cells of the chosen rows and columns, by their own place.
Picked(n) == n.id[1] = "a" /\ (\E c \in cells : IdOf(c) = n.id) /\ (n.row \in decision.rows \/ n.col \in decision.cols)
Chosen(t) ==
  [r \in DOMAIN t |-> [i \in DOMAIN t[r] |->
     IF Picked(t[r][i])
     THEN [t[r][i] EXCEPT !.th = TRUE, !.scope = IF t[r][i].row \in decision.rows THEN "Column" ELSE "Row"]
     ELSE t[r][i]]]

\* Row headers are for every data cell of their row.
RowHeads(t) ==
  [r \in DOMAIN t |-> [i \in DOMAIN t[r] |->
     IF t[r][i].th THEN t[r][i]
     ELSE [t[r][i] EXCEPT !.hdrs = @ \cup {n.id : n \in {m \in ToSet(t[r]) : m.th /\ m.scope = "Row"}}]]]

Outcome ==
  IF decision.action = "none" THEN "none"
  ELSE IF state = "unreadable" THEN "blocked"
  ELSE IF state = "layout" THEN IF decision.action = "layout" THEN "applied" ELSE "superseded"
  ELSE IF decision.action = "form" THEN "kept"
  ELSE IF decision.action # "headers" THEN "unsupported"
  ELSE IF HasHeaders(tree) THEN "preserved"
  ELSE IF \E n \in NodesOf(tree) : Picked(n) THEN "applied" ELSE "invalid"

Model ==
  /\ stage = "model"
  /\ audit' = Outcome
  /\ tree' = IF Outcome = "applied" /\ state = "table" THEN RowHeads(Associated(Chosen(tree))) ELSE tree
  /\ stage' = "done"
  /\ UNCHANGED <<cells, sure, state, headings, decision, next>>

Continued(th) == <<[k \in 1..NumCols |-> Node(<<"b", 0, k - 1>>, 0, k - 1, 1, 1, th, IF th THEN "Column" ELSE "", {})]>>

Init ==
  /\ stage = "read" /\ state = "table" /\ headings = FALSE /\ tree = <<>> /\ audit = "none"
  /\ \E cs \in Explicit : cells \in Flaggings(cs)
  /\ sure = Flagged(cells)
  /\ decision \in Queued(cells)
  /\ next \in {Continued(FALSE), Continued(TRUE)}

TableNext == Read \/ Layout \/ External \/ Infer \/ Build \/ Finish \/ Model
Spec == Init /\ [][TableNext]_tableVars

(***************************************************************************)
(* Properties.                                                             *)
(***************************************************************************)
\* The completed grid (_complete_table_grid_cells) is a grid: whatever spans the extractor
\* reported, no two cells claim a slot, none is left, and no explicit cell moves or is lost,
\* so text keeps its owner.
Key(c) == <<c.row, c.col>>
NoOverlap(cs) ==
  \A c, d \in cs : \A row \in RowIx, col \in ColIx : Covers(c, row, col) /\ Covers(d, row, col) => c = d
GridCovered ==
  stage = "build" =>
    /\ NoOverlap(Completed(cells))
    /\ Free(Completed(cells)) = {}
    /\ {Key(c) : c \in cells} \subseteq {Key(c) : c \in Completed(cells)}

Spanned == \E n \in NodesOf(tree) : n.rs > 1
Named(h) == {n \in NodesOf(tree) : n.th /\ n.id = h}

\* What a cell names as its header is one: a single header cell of the same table after the
\* rows were moved and roles changed and, where no span reaches down, one that stands in
\* its column or row, or a section above it.
HeadersHold ==
  stage = "done" => \A r \in DOMAIN tree : \A n \in ToSet(tree[r]) : \A h \in n.hdrs :
    /\ ~n.th => Cardinality(Named(h)) = 1
    /\ ~n.th /\ ~Spanned => \A m \in Named(h) :
         \/ m.scope \in {"Column", "Both"} /\ m.col < n.col + n.cs /\ n.col < m.col + m.cs
         \/ m.scope \in {"Row", "Both"} /\ (m \in ToSet(tree[r]) \/ \E c \in cells : IdOf(c) = h /\ c.proj)

\* "deterministic headers win" (table_decisions.py): a model makes header cells only of a
\* readable table that has none from its extractor, an inference or the text above, and
\* nothing makes any for a table that could not be read.
DeterministicWins ==
  stage = "done" => \A n \in NodesOf(tree) : n.th =>
    \/ \E c \in cells : IdOf(c) = n.id /\ c.flag # "no" /\ (state = "unreadable" => sure)
    \/ n.id[1] # "a" /\ state = "table"
    \/ audit = "applied" /\ ~Flagged(cells) /\ state = "table" /\ \A m \in NodesOf(tree) : m.id[1] # "x"
================================================================================
