------------------------------- MODULE TableModel -------------------------------
(***************************************************************************)
(* The tables of a document rebuilt on the grids of a small vision model   *)
(* (table_model.py): each crop is asked about, an answer is parsed into a  *)
(* grid, the lines of the page go to its rows and the glyphs of a word to  *)
(* its cells, and the table is replaced or kept.  How well two texts align *)
(* is an input: votes of a line for a row, the cell of each glyph.         *)
(***************************************************************************)
EXTENDS Naturals, Sequences, FiniteSets, SequencesExt, FiniteSetsExt

CONSTANT MaxTokens  \* bound on an answer: its rows by their longest

VARIABLES
  stage,   \* "ask"; then "grid", "lines" or "words" of one answer; "done"
  answers, \* of each table: "unread", then "text", "cut" or "none"; "down"
  circuit, \* TableServiceCircuit
  otsl,    \* the rows of an answer's tokens
  votes,   \* of each line, for each row of the grid
  line,    \* the words of one line, with the cell of each glyph
  grids    \* whose grid the table has: "docling" or "model"

modelVars == <<stage, answers, circuit, otsl, votes, line, grids>>

Asked == 1..3

(***************************************************************************)
(* The answers: HttpReader.read, and the loop of rewrite_tables.           *)
(***************************************************************************)
\* One request at a time; after a service that could not be reached, or was busy, no
\* other table of the document is asked about.
Ask ==
  /\ stage = "ask" /\ \E i \in Asked : answers[i] = "unread"
  /\ LET i == Min({j \in Asked : answers[j] = "unread"}) IN
       \/ circuit = "available" /\ \E a \in {"none", "cut", "text"} :
            answers' = [answers EXCEPT ![i] = a] /\ UNCHANGED circuit
       \/ circuit = "available" /\ answers' = [answers EXCEPT ![i] = "down"]
            /\ circuit' = "unavailable_for_document"
       \/ circuit # "available" /\ answers' = [answers EXCEPT ![i] = "none"] /\ UNCHANGED circuit
  /\ UNCHANGED <<stage, otsl, votes, line, grids>>

(***************************************************************************)
(* The grid: parse_otsl.                                                   *)
(***************************************************************************)
Tokens == {"cell", "lcel", "ucel", "xcel"}
RowsOf(n) == UNION {[1..k -> Tokens] : k \in 1..n}
Sizes == {s \in (1..MaxTokens) \X (1..MaxTokens) : s[1] * s[2] <= MaxTokens}
Texts == UNION {[1..s[1] -> RowsOf(s[2])] : s \in Sizes}

Width(t) == Max({Len(t[r]) : r \in DOMAIN t})
Slots(t) == (DOMAIN t) \X (1..Width(t))

\* Short rows are filled, and a span with nothing to continue starts a cell.
Kind(t, r, c) ==
  LET k == IF c \in DOMAIN t[r] THEN t[r][c] ELSE "cell"
  IN IF (k \in {"lcel", "xcel"} /\ c = 1) \/ (k \in {"ucel", "xcel"} /\ r = 1) THEN "cell" ELSE k

ColSpan(t, r, c) == Max({n \in 1..Width(t) : \A i \in 1..(n - 1) : c + i <= Width(t) /\ Kind(t, r, c + i) = "lcel"})
RowSpan(t, r, c) ==
  Max({n \in 1..Len(t) : \A i \in 1..(n - 1) :
         /\ r + i <= Len(t) /\ Kind(t, r + i, c) = "ucel"
         /\ \A k \in 1..(ColSpan(t, r, c) - 1) : Kind(t, r + i, c + k) = "xcel"})
Covered(g, s) == s[1] \in g.row..(g.row + g.rs - 1) /\ s[2] \in g.col..(g.col + g.cs - 1)
GridCell(r, c, rs, cs) == [row |-> r, col |-> c, rs |-> rs, cs |-> cs]

\* The cells that begin, with what continues them, and one for each slot nothing claims.
Grid(t) ==
  LET started == {GridCell(s[1], s[2], RowSpan(t, s[1], s[2]), ColSpan(t, s[1], s[2])) :
                    s \in {x \in Slots(t) : Kind(t, x[1], x[2]) = "cell"}}
      unclaimed == {s \in Slots(t) : \A g \in started : ~Covered(g, s)}
  IN started \cup {GridCell(s[1], s[2], 1, 1) : s \in unclaimed}

\* Each step of rebuild_tables is a function of the answer and the page; a behaviour
\* follows one of them, for one table.
Enter(next) ==
  /\ stage = "ask" /\ "unread" \notin ToSet(answers) /\ "text" \in ToSet(answers)
  /\ stage' = next
  /\ answers' = <<>>
Parse ==
  /\ Enter("grid")
  /\ otsl' \in Texts
  /\ UNCHANGED <<circuit, votes, line, grids>>

(***************************************************************************)
(* Lines to rows: _monotone_rows.                                          *)
(***************************************************************************)
GridRows(v) == {r \in 1..3 : \E n \in DOMAIN v : v[n][r] > 0}

\* The first of the rows up to r that is best.
FirstBest(best, r) == CHOOSE k \in DOMAIN best : /\ k <= r /\ \A j \in DOMAIN best : j <= r => best[j] <= best[k]
                                                 /\ \A j \in DOMAIN best : j < k => best[j] < best[k]
\* The votes kept when line n is in row r, and no line above it is in a later one.
Kept(v) ==
  LET best[n \in 0..Len(v)] ==
        IF n = 0 THEN [r \in GridRows(v) |-> 0]
        ELSE [r \in GridRows(v) |-> best[n - 1][FirstBest(best[n - 1], r)] + v[n][r]]
  IN best
RowsAt(v) ==
  LET kept == Kept(v)
      last == IF GridRows(v) = {} THEN 0 ELSE Max(GridRows(v))
      at[n \in 1..Len(v)] == IF n = Len(v) THEN FirstBest(kept[n], last) ELSE FirstBest(kept[n], at[n + 1])
  IN at
Voted(v, n) == \E r \in DOMAIN v[n] : v[n][r] > 0
LineRows(v) == [n \in DOMAIN v |-> IF Voted(v, n) THEN RowsAt(v)[n] ELSE 0]

Lines ==
  /\ Enter("lines")
  /\ votes' \in [1..3 -> [1..3 -> 0..1]] \cup [1..2 -> [1..3 -> 0..2]]
  /\ UNCHANGED <<circuit, otsl, line, grids>>

(***************************************************************************)
(* Words to cells: the end of assign_words.                                *)
(***************************************************************************)
\* The cell of a word: the first of those most of its glyphs are in.
Count(glyphs, c) == Cardinality({i \in DOMAIN glyphs : glyphs[i] = c})
Known(glyphs) == {i \in DOMAIN glyphs : glyphs[i] # 0}
Majority(glyphs) ==
  LET most == {c \in {glyphs[i] : i \in Known(glyphs)} : \A i \in Known(glyphs) : Count(glyphs, glyphs[i]) <= Count(glyphs, c)}
  IN glyphs[Min({i \in Known(glyphs) : glyphs[i] \in most})]

\* Gaps take the cell on their left, those at the start the one on their right.
Filled(glyphs) ==
  [i \in DOMAIN glyphs |->
     LET before == {j \in Known(glyphs) : j <= i}
     IN IF before # {} THEN glyphs[Max(before)] ELSE glyphs[Min(Known(glyphs))]]
Runs(f) == {i \in DOMAIN f : i = 1 \/ f[i - 1] # f[i]}
Splits(f) == Cardinality(Runs(f)) > 1 /\ Cardinality(Runs(f)) = Cardinality({f[i] : i \in DOMAIN f})

Piece(c, w, glyphs) == [cell |-> c, word |-> w, glyphs |-> glyphs]
Matched(w) == Known(line[w].glyphs) # {}
PiecesOf(w) ==
  LET f == Filled(line[w].glyphs)
  IN IF Splits(f) THEN {Piece(c, w, {i \in DOMAIN f : f[i] = c}) : c \in {f[i] : i \in DOMAIN f}}
     ELSE {Piece(Majority(line[w].glyphs), w, DOMAIN f)}

\* A word without a cell takes that of the nearest word on its line, if one is near; a
\* rule stroke has no text and is left to the tagger.
Attached(w) ==
  LET other == 3 - w
  IN IF ~Matched(w) /\ line[w].text /\ Matched(other) /\ line[w].near
     THEN {Piece(Majority(line[other].glyphs), w, DOMAIN line[w].glyphs)} ELSE {}
Assigned == UNION {IF Matched(w) THEN PiecesOf(w) ELSE Attached(w) : w \in DOMAIN line}

Words ==
  /\ Enter("words")
  /\ line' \in [1..2 -> {w \in [glyphs : [1..3 -> 0..2], text : BOOLEAN, near : BOOLEAN] :
                           w.text \/ (w.glyphs = [i \in 1..3 |-> 0] /\ ~w.near)}]
  /\ UNCHANGED <<circuit, otsl, votes, grids>>

(***************************************************************************)
(* The decision: rebuild_tables.                                           *)
(***************************************************************************)
Report == [shape : BOOLEAN, aligned : BOOLEAN, merges : BOOLEAN, splits : BOOLEAN, dropped : BOOLEAN]
Passes(r) == r.shape /\ r.aligned /\ (r.merges => r.splits) /\ ~r.dropped
Verdicts == {IF Passes(r) THEN "model" ELSE "docling" : r \in Report}

\* A failure anywhere keeps docling's tables.
Decide ==
  /\ stage \in {"grid", "lines", "words"}
  /\ stage' = "done"
  /\ grids' \in Verdicts \cup {"docling"}
  /\ otsl' = <<>> /\ votes' = <<>> /\ line' = <<>>
  /\ UNCHANGED <<answers, circuit>>

Init ==
  /\ stage = "ask" /\ answers = [i \in Asked |-> "unread"] /\ circuit = "available"
  /\ otsl = <<>> /\ votes = <<>> /\ line = <<>> /\ grids = "docling"

Next == Ask \/ Parse \/ Lines \/ Words \/ Decide
Spec == Init /\ [][Next]_modelVars

(***************************************************************************)
(* Properties.                                                             *)
(***************************************************************************)
\* Whatever tokens the model gives, ragged or with spans of nothing, its grid has each
\* slot in one cell.
GridWhole ==
  stage = "grid" =>
    LET grid == Grid(otsl) IN \A s \in Slots(otsl) : Cardinality({g \in grid : Covered(g, s)}) = 1

\* _monotone_rows keeps as many votes as any assignment that reads down the rows.
RowSum(v, at) == FoldLeft(LAMBDA sum, n : sum + v[n][at[n]], 0, [n \in DOMAIN v |-> n])
LinesReadDown ==
  stage = "lines" /\ GridRows(votes) # {} =>
    LET down == {at \in [DOMAIN votes -> GridRows(votes)] : \A n \in DOMAIN votes : n > 1 => at[n - 1] <= at[n]}
        most == Max({RowSum(votes, at) : at \in down})
    IN \E at \in down : /\ RowSum(votes, at) = most
                        /\ \A n \in DOMAIN votes : LineRows(votes)[n] = IF Voted(votes, n) THEN at[n] ELSE 0

\* A glyph of a word with a cell is in one cell, in a run of glyphs, and no word is drawn
\* in a cell that neither it nor its line has.
GlyphsPlacedOnce ==
  stage = "words" => \A w \in DOMAIN line :
    LET mine == {p \in Assigned : p.word = w} IN
    /\ Matched(w) => \A i \in DOMAIN line[w].glyphs : Cardinality({p \in mine : i \in p.glyphs}) = 1
    /\ \A p \in mine : /\ \A i, j \in p.glyphs : i..j \subseteq p.glyphs
                       /\ \E x \in DOMAIN line : p.cell \in {line[x].glyphs[i] : i \in Known(line[x].glyphs)}
    /\ ~line[w].text => mine = {}
================================================================================
