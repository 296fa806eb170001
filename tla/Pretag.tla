--------------------------------- MODULE Pretag ---------------------------------
(***************************************************************************)
(* What is decided about a structure before it is tagged: the author's own *)
(* tags (author_structure.py), doubtful text, table headers and field      *)
(* labels by the model (orchestrator.py, semantic_pretag_policy.py,        *)
(* table_decisions.py, grounded_text_apply.py, form_fields.py), and what   *)
(* the tagger makes of a queued decision (tagger_table_intelligence.py).   *)
(* One table, one text block and two widgets stand for a document.         *)
(***************************************************************************)
EXTENDS Naturals, FiniteSets, Sequences

CONSTANTS
  TableRows,     \* how many rows the table has
  AuthorHeaders  \* the header cells of the author's table

VARIABLES
  stage,  \* how far _prepare_tagging_inputs and the tagger are
  pairs,  \* what of the author's structure lies over what of the extracted one
  read,   \* the author's structure could be read
  table, block, form,
  told,   \* the model's decision about the table, if any
  labels, \* approved labels
  tagged  \* the table as the tagger leaves it

pretagVars == <<stage, pairs, read, table, block, form, told, labels, tagged>>

Nothing == [action |-> "none"]
Row == 0..(TableRows - 1)
Widget == {"A", "B"}

(***************************************************************************)
(* The author's evidence.                                                  *)
(***************************************************************************)
\* _matches: boxes that cover each other and the full text of a cell.
Matches == [cells : SUBSET (AuthorHeaders \X Row), heading : BOOLEAN, scoped : BOOLEAN]

\* Only a pair in which neither side has another match is transferred.
OneToOne(m) == {p \in m : \A q \in m : q[1] = p[1] <=> q[2] = p[2]}

\* apply_author_structure.
Transferred(t) == [t EXCEPT !.author = @ \cup {p[2] : p \in OneToOne(pairs.cells)}]
Levelled(b) == IF b.type = "heading" /\ pairs.heading /\ b.level = "none"
                 THEN [b EXCEPT !.level = "author"] ELSE b

Evidence ==
  /\ stage = "author"
  /\ read' \in BOOLEAN
  /\ table' = IF read' THEN Transferred(table) ELSE table
  /\ block' = IF read' THEN Levelled(block) ELSE block
  /\ stage' = "text"
  /\ UNCHANGED <<pairs, form, told, labels, tagged>>

(***************************************************************************)
(* Doubtful text. A reading differs from the extracted text in spaces only *)
(* ("spaced"), hardly ("close"), agrees with more than half of the native  *)
(* or the recognized text ("near"), repeats a neighbour ("copy"), or none. *)
(***************************************************************************)
Reading == [action : {"set_resolved_text", "mark_decorative", "manual_only"},
            text : {"none", "spaced", "close", "near", "copy"},
            issue : {"spacing_only", "encoding_problem", "uncertain"},
            conf : {"high", "low"}, blocks : BOOLEAN]

\* generate_suspicious_text_intelligence drops what says nothing.
Said(r) == r.text # "none" \/ r.action = "mark_decorative"

\* collect_grounded_text_candidates: odd text that recognition reads otherwise.
Doubtful(b) == b.odd /\ b.type # "artifact"

SpacingOnly(b, r) == r.issue = "spacing_only" /\ b.short /\ r.text = "spaced"
EncodingOnly(b, r) == r.issue = "encoding_problem" /\ b.short /\ ~b.lines /\ r.text = "close"
CodeText(b, r) == b.type = "code" /\ r.issue = "encoding_problem" /\ b.lines /\ r.text \in {"close", "near"}
Artifact(b, r) ==
  IF r.action = "mark_decorative" THEN ~b.lines
  ELSE r.issue = "encoding_problem" /\ b.short /\ ~b.lines /\ r.text = "copy"

\* collect_safe_grounded_text_resolutions: the first policy that allows it.
Resolution(b, r) ==
  IF ~(Said(r) /\ r.conf = "high" /\ r.blocks) THEN "none"
  ELSE IF SpacingOnly(b, r) \/ EncodingOnly(b, r) \/ CodeText(b, r) THEN "text"
  ELSE IF Artifact(b, r) THEN "artifact" ELSE "none"

\* apply_grounded_text_resolutions_to_structure.
Resolved(b, r) ==
  CASE Resolution(b, r) = "text" -> [b EXCEPT !.says = r.text]
    [] Resolution(b, r) = "artifact" -> [b EXCEPT !.type = "artifact", !.says = "native"]
    [] OTHER -> b

\* A table decision among the readings names a text block, never the table.
Text ==
  /\ stage = "text"
  /\ \/ UNCHANGED block   \* no candidate, or the operation failed
     \/ Doubtful(block) /\ \E r \in Reading : block' = Resolved(block, r)
  /\ stage' = "tables"
  /\ UNCHANGED <<pairs, read, table, form, told, labels, tagged>>

(***************************************************************************)
(* Table headers.                                                          *)
(***************************************************************************)
LayoutKinds == {"layout_grid", "text_block"}

\* What a normalized answer can be; an index may lie outside the table.
Headers == [action : {"confirm_current_headers"}, conf : {"high", "low"}]
             \cup [action : {"set_table_headers"}, rows : SUBSET (0..TableRows)]
             \cup [action : {"reclassify_region"}, kind : {"layout_grid", "text_block", "form_region", "figure"}]
             \cup {[action |-> "manual_only"]}

\* The rows that docling's table model, or the author with a scope, marks.
HeaderRows(t) == (t.docling \ t.author) \cup IF pairs.scoped THEN t.author ELSE {}

HasHeaders(t) == t.docling \cup t.author # {}

\* docling_table_targets_for_intelligence. Its reasons are never those that
\* the two retries of _apply_pretag_table_intelligence ask for.
TableTarget(t) == t.grid /\ (HeaderRows(t) = {} \/ t.spans)

\* should_auto_apply_table_intelligence.
SafeHeaders(a) ==
  \/ a.action = "set_table_headers" /\ a.rows # {}
  \/ a.action = "reclassify_region" /\ a.kind \in LayoutKinds \cup {"form_region"}
  \/ a.action = "confirm_current_headers" /\ a.conf = "high"

\* Mutant: indices outside the table are dropped one by one.
Selection_Clipped(a) == a.rows \cap Row

\* header_selection: all of a decision or nothing.
Selection(a) == IF a.rows \subseteq Row THEN a.rows ELSE {}

\* queue_table_decision; a confirmation is applied at once.
Queued(t, a) ==
  \/ a.action = "set_table_headers" /\ ~HasHeaders(t) /\ Selection(a) # {}
  \/ a.action = "reclassify_region" /\ ~HasHeaders(t)

\* The request for a page of tables: no answer, none for this table, or one.
TablePage ==
  /\ stage = "tables"
  /\ IF TableTarget(table)
       THEN \E a \in Headers \cup {Nothing} :
              /\ told' = a
              /\ stage' = IF a # Nothing /\ SafeHeaders(a) THEN "decide" ELSE "alone"
       ELSE stage' = "forms" /\ UNCHANGED told
  /\ UNCHANGED <<pairs, read, table, block, form, labels, tagged>>

\* The table is asked about alone; that request raises, or one for another
\* table does, and the whole step has decided nothing.
TableAlone ==
  /\ stage = "alone"
  /\ \/ told' \in Headers /\ stage' = "decide"
     \/ told' = Nothing /\ stage' = "forms"
  /\ UNCHANGED <<pairs, read, table, block, form, labels, tagged>>

TableDecide ==
  /\ stage = "decide"
  /\ table' = IF ~SafeHeaders(told) THEN table
              ELSE IF told.action = "confirm_current_headers"
                THEN [table EXCEPT !.confirmed = HasHeaders(table)]
              ELSE IF Queued(table, told) THEN [table EXCEPT !.queue = told] ELSE table
  /\ stage' = "forms"
  /\ UNCHANGED <<pairs, read, block, form, told, labels, tagged>>

(***************************************************************************)
(* Field labels.                                                           *)
(***************************************************************************)
\* The objects of a widget that carry a field type, the nearest first: the
\* widget itself, the parent of a group, or both.
Entries(w) ==
  CASE form.tree = "apart" -> <<w>>
    [] form.tree = "group" \/ (form.tree = "nested" /\ w = "A") -> <<"parent">>
    [] OTHER -> <<w, "parent">>

NameOf(w, tu) ==
  LET named == {i \in DOMAIN Entries(w) : tu[Entries(w)[i]] # "none"}
  IN IF named = {} THEN "none" ELSE tu[Entries(w)[CHOOSE i \in named : \A j \in named : i <= j]]

\* field_label_quality.
Good(name) == name \notin {"none", "weak"}

\* form_targets_for_intelligence.
FormTargets == {w \in Widget : form.typed /\ ~Good(NameOf(w, form.tu))}

\* A field's answer at the page, or alone; failures leave it without one.
\* should_auto_apply_form_intelligence approves confident good labels.
Forms ==
  /\ stage = "forms"
  /\ \E some \in SUBSET FormTargets : labels' = some
  /\ stage' = "label"
  /\ UNCHANGED <<pairs, read, table, block, form, told, tagged>>

\* apply_field_accessible_names visits the widgets in page order and names
\* every entry of each; or it raises, and the document stays as it was.
Named(tu) ==
  LET A == IF "A" \in labels THEN {Entries("A")[i] : i \in DOMAIN Entries("A")} ELSE {}
      B == IF "B" \in labels THEN {Entries("B")[i] : i \in DOMAIN Entries("B")} ELSE {}
  IN [o \in DOMAIN tu |-> IF o \in B THEN "label B" ELSE IF o \in A THEN "label A" ELSE tu[o]]

Label ==
  /\ stage = "label"
  /\ \/ form' = [form EXCEPT !.named = Named(form.tu)] /\ UNCHANGED labels
     \/ labels' = {} /\ UNCHANGED form
  /\ stage' = "author again"
  /\ UNCHANGED <<pairs, read, table, block, told, tagged>>

EvidenceAgain ==
  /\ stage = "author again"
  /\ table' = IF read THEN Transferred(table) ELSE table
  /\ block' = IF read THEN Levelled(block) ELSE block
  /\ stage' = "tag"
  /\ UNCHANGED <<pairs, read, form, told, labels, tagged>>

(***************************************************************************)
(* The tagger.                                                             *)
(***************************************************************************)
\* _model_table_layout.
Layout(t) == /\ ~t.unreadable /\ ~HasHeaders(t)
             /\ t.queue # Nothing /\ t.queue.action = "reclassify_region" /\ t.queue.kind \in LayoutKinds

\* _apply_model_table_headers: headers that are there, or that the tagger
\* found by rule, stay.
TagTable(t) ==
  LET own == t.docling \cup t.author \cup IF t.ruled /\ ~HasHeaders(t) THEN {0} ELSE {}
  IN IF Layout(t) THEN [kind |-> "layout", by |-> "model", heads |-> {}]
     ELSE IF /\ ~t.unreadable /\ own = {}
             /\ t.queue # Nothing /\ t.queue.action = "set_table_headers" /\ Selection(t.queue) # {}
       THEN [kind |-> "table", by |-> "model", heads |-> Selection(t.queue)]
     ELSE [kind |-> "table", by |-> "evidence", heads |-> own]

Tag ==
  /\ stage = "tag"
  /\ tagged' = TagTable(table)
  /\ stage' = "tagged"
  /\ UNCHANGED <<pairs, read, table, block, form, told, labels>>

TypesOf(t) == [docling : {t}, author : {{}}, grid : BOOLEAN, spans : BOOLEAN, ruled : BOOLEAN,
               unreadable : BOOLEAN, confirmed : {FALSE}, queue : {Nothing}]

\* The parts of the document are independent: each is varied with the
\* others at rest.
Table0 == [docling |-> {}, author |-> {}, grid |-> FALSE, spans |-> FALSE, ruled |-> FALSE,
           unreadable |-> FALSE, confirmed |-> FALSE, queue |-> Nothing]
Block0 == [type |-> "paragraph", odd |-> FALSE, short |-> TRUE, lines |-> FALSE, level |-> "none", says |-> "native"]
Form0 == [tree |-> "apart", typed |-> FALSE, tu |-> [o \in {"A", "B", "parent"} |-> "none"],
          named |-> [o \in {"A", "B", "parent"} |-> "none"]]
Tables == UNION {TypesOf(t) : t \in SUBSET Row}
Blocks == [type : {"heading", "paragraph", "code"}, odd : {TRUE}, short : BOOLEAN, lines : BOOLEAN,
           level : {"none", "docling"}, says : {"native"}]
FormsOf == {[tree |-> tree, typed |-> TRUE, tu |-> tu, named |-> tu] :
              tree \in {"apart", "group", "nested"},
              tu \in [{"A", "B", "parent"} -> {"none", "weak", "good"}]}

Init ==
  /\ pairs \in Matches
  /\ \/ table \in Tables /\ block = Block0 /\ form = Form0
     \/ table = Table0 /\ block \in Blocks /\ form = Form0
     \/ table = Table0 /\ block = Block0 /\ form \in FormsOf
  /\ stage = "author" /\ read = FALSE /\ told = Nothing /\ labels = {} /\ tagged = Nothing

Next == \/ Evidence \/ Text \/ TablePage \/ TableAlone \/ TableDecide \/ Forms \/ Label
        \/ EvidenceAgain \/ Tag

Spec == Init /\ [][Next]_pretagVars

(***************************************************************************)
(* Properties.                                                             *)
(***************************************************************************)
\* Headers that the extractor or the author gave, with a scope or without,
\* survive every decision of the model, and the table stays a table.
HeadersAreKept ==
  stage = "tagged" /\ HeaderRows(table) \cup table.docling \cup table.author # {} =>
    tagged.kind = "table" /\ tagged.heads = table.docling \cup table.author

\* What the model changed about a table is all of its last answer, never a
\* part of it, and nothing the step gave up on.
WholeDecision ==
  stage = "tagged" /\ tagged.by = "model" =>
    IF tagged.kind = "layout" THEN told.action = "reclassify_region"
    ELSE told.action = "set_table_headers" /\ tagged.heads = told.rows

\* A labelled field announces its label unless a later one of its group took
\* it; any other keeps its name unless it shares an object with a labelled one.
NamesFollow ==
  stage = "tagged" =>
    \A w \in Widget : \A v \in Widget \ {w} :
      LET shared == form.tree # "apart" /\ v \in labels
      IN ~shared => NameOf(w, form.named) =
           IF w \in labels THEN (IF w = "A" THEN "label A" ELSE "label B") ELSE NameOf(w, form.tu)

=================================================================================
