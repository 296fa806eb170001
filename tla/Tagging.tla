-------------------------------- MODULE Tagging --------------------------------
(***************************************************************************)
(* How one page gets its tags (tagger.py): words find their elements       *)
(* (tagger_ownership.py), three orders vote on the reading order           *)
(* (reading_order.py), the content streams are rewritten as marked content *)
(* while the structure tree grows (tagger_content.py, tagger_structure.py) *)
(* and annotations are attached (tagger_annotations.py).                   *)
(*                                                                         *)
(* A page has at most one element of a type, so the type names it.  Boxes  *)
(* are left out: a painted item says which boxes it is in or near.         *)
(***************************************************************************)
EXTENDS Naturals, Sequences, FiniteSets, SequencesExt, TLC

VARIABLES
  stage,   \* "own", "vote", "figures", "mark", "finish", "widgets", "order", "links", "end"
  page,    \* what the page holds
  owners,  \* the target of each painted item: [elem, label, link]
  order,   \* the elements of the page in reading order
  marked,  \* the marked content of each item: [mark, stm, mcid]
  tree,    \* the structure elements of the page: [role, parent, kids, fix, pos]
  mcids,   \* of each content stream, the element registered for each MCID
  failed,  \* content streams that could not be written
  heads    \* the headings of a document whose tree is finalized

taggingVars == <<stage, page, owners, order, marked, tree, mcids, failed, heads>>

TextTypes == {"paragraph", "heading", "list_item", "formula", "toc_item"}
ElementTypes == TextTypes \cup {"table", "figure", "artifact"}
Streams == {"page", "form"}
Doc == "Document"

None == [elem |-> "none", label |-> FALSE, link |-> FALSE]
To(e) == [None EXCEPT !.elem = e]
NoMark == [mark |-> None, stm |-> "none", mcid |-> 0]

(***************************************************************************)
(* The page.                                                               *)
(***************************************************************************)
Item(kind, stm, own, facts, near) == [kind |-> kind, stm |-> stm, own |-> own, facts |-> facts, near |-> near]

\* Text-bearing boxes: the cells of a table, the boxes of a text or artifact element.
Targets(els) == {e \in ToSet(els) : e \in TextTypes \cup {"table", "artifact"}}

\* What an unowned word is in or near; "edge" is a stroke OCR read at a cell's edge
\* and "link" text in the box of a link.
Facts(els) ==
  {{}, {"band"}} \cup (IF "artifact" \in ToSet(els) THEN {{"header"}} ELSE {})
    \cup (IF "table" \in ToSet(els) THEN {{"row"}, {"row", "stroke"}, {"row", "band"}} ELSE {})
    \cup (IF "list_item" \in ToSet(els) THEN {{"hang"}} ELSE {})
    \cup (IF "figure" \in ToSet(els) THEN {{"picture"}, {"picture", "stroke"}} ELSE {})

Words(els, link, stm) ==
  {Item("word", stm, e, f, "none") : e \in Targets(els), f \in {{}} \cup (IF link = "none" THEN {} ELSE {{"link"}})}
    \cup (IF "table" \in ToSet(els) THEN {Item("word", stm, "table", {"edge"}, "none")} ELSE {})
    \cup {Item("word", stm, "none", f, "none") : f \in Facts(els)}
    \cup {Item("word", stm, "none", f, near) : f \in Facts(els) \cap {{}, {"hang"}, {"picture"}},
                                              near \in ToSet(els) \cap TextTypes}
Linked(w, link) == "link" \in w.facts => w.own = link

\* Images belong to the figure they overlap, a full-page scan to none; paths to none.
Drawings(els) ==
  {Item("image", "page", e, {}, "none") : e \in {"none"} \cup (ToSet(els) \cap {"figure"})}
    \cup {Item("path", "page", "none", {}, "none")}

Paints(els, link) ==
  {p \in (Words(els, link, "page") \X (Words(els, link, "page") \cup Words(els, link, "form") \cup Drawings(els)))
           \cup {<<d>> : d \in Drawings(els)} :
     \A i \in DOMAIN p : Linked(p[i], link)}

\* An element may have a correction (ActualText) or the link annotation of the page,
\* the figure a decision; a scan has hidden text, and a picture may fill the page.
Pages(els, link) ==
  LET shape(fixes, figures, scans) ==
        [els : {els}, link : {link}, paint : Paints(els, link), fix : fixes, figure : figures, scanned : scans]
      decisions == {"decorative", "described", "box", "scan"}
  IN shape({"none"} \cup (ToSet(els) \cap {"paragraph", "list_item", "table"}), {"plain"}, {FALSE})
       \cup shape({"none"}, IF "figure" \in ToSet(els) /\ link = "none" THEN decisions ELSE {}, {FALSE})
       \cup shape({"none"}, {"plain"} \cup (IF "figure" \in ToSet(els) THEN {"described", "scan"} ELSE {}),
                 IF link = "none" THEN {TRUE} ELSE {})

ElementLists == {<<>>} \cup {<<a>> : a \in ElementTypes}
                  \cup {s \in ElementTypes \X ElementTypes : s[1] # s[2]}

Empty == [elem \in {Doc} |-> [role |-> Doc, parent |-> "none", kids |-> <<>>, fix |-> FALSE, pos |-> 0]]
Heading(level, author, drawn) == [level |-> level, author |-> author, drawn |-> drawn]
Headings == {Heading(l, a, d) : l \in 1..4, a \in BOOLEAN, d \in BOOLEAN}
NoPage == [els |-> <<>>, link |-> "none", paint |-> <<>>, fix |-> "none", figure |-> "plain", scanned |-> FALSE]

TypesOf(els) == {"none"} \cup (ToSet(els) \cap {"paragraph", "list_item", "table"})
Init ==
  /\ owners = <<>> /\ order = <<>> /\ marked = <<>> /\ tree = Empty
  /\ mcids = [s \in Streams |-> <<>>] /\ failed = {}
  /\ \/ /\ stage = "own" /\ heads = <<>>
        /\ \E els \in ElementLists : \E link \in TypesOf(els) : page \in Pages(els, link)
     \/ stage = "finalize" /\ page = NoPage /\ heads \in [1..3 -> Headings]

(***************************************************************************)
(* Ownership.                                                              *)
(***************************************************************************)
Paint == page.paint
Fixed(e) == e = page.fix

\* The label of a list item stands on the line of a word the item owns.
HasOwnWord(e) == \E i \in DOMAIN Paint : Paint[i].kind = "word" /\ Paint[i].own = e
Hidden(w) == w.facts \cap {"band", "header", "stroke"} # {}
ScanPicture(w) == "picture" \in w.facts /\ page.scanned /\ page.figure = "scan"

\* A correction's ActualText would hide a new word, a formula its glyphs.
Beside(w) == w.near # "none" /\ w.near # "formula" /\ ~Fixed(w.near) /\ ~ScanPicture(w)

Recovered(w) ==
  IF Hidden(w) THEN None
  ELSE IF "row" \in w.facts THEN To("table")
  ELSE IF "hang" \in w.facts /\ HasOwnWord("list_item") THEN [To("list_item") EXCEPT !.label = TRUE]
  ELSE IF "picture" \in w.facts /\ ~ScanPicture(w) THEN None
  ELSE IF Beside(w) THEN To(w.near) ELSE To("fallback")

\* Strokes that line up at the edge of cells over three rows of a scan.
CellRule(w) == page.scanned /\ "edge" \in w.facts

OwnerOf(w) ==
  IF w.kind # "word" THEN To(w.own)
  ELSE IF w.own = "none" THEN Recovered(w)
  ELSE IF CellRule(w) THEN None
  ELSE [To(w.own) EXCEPT !.link = "link" \in w.facts]

\* Words that stay together on a line become one paragraph beside its anchor.
Own ==
  /\ stage = "own"
  /\ \E word \in DOMAIN Paint : Paint[word].kind = "word"
  /\ owners' = [i \in DOMAIN Paint |-> OwnerOf(Paint[i])]
  /\ IF \E i \in DOMAIN Paint : OwnerOf(Paint[i]).elem = "fallback"
     THEN \E at \in 1..(Len(page.els) + 1) : order' = InsertAt(page.els, at, "fallback")
     ELSE order' = page.els
  /\ stage' = "vote"
  /\ UNCHANGED <<page, marked, tree, mcids, failed, heads>>

(***************************************************************************)
(* The vote: drawing order wins only when the layout's order is the same.  *)
(***************************************************************************)
Votes(e) == e # "artifact" /\ ~(e = "figure" /\ page.figure = "decorative")
Drawn(e) == Votes(e) /\ \E i \in DOMAIN owners : owners[i].elem = e
FirstPaint(e) == CHOOSE i \in DOMAIN owners : owners[i].elem = e /\ \A j \in 1..(i - 1) : owners[j].elem # e

\* Elements that are not drawn keep their slots.
DrawingOrder ==
  LET slots == SelectSeq([i \in DOMAIN order |-> i], LAMBDA i : Drawn(order[i]))
      drawn == SortSeq(SelectSeq(order, Drawn), LAMBDA a, b : FirstPaint(a) < FirstPaint(b))
  IN [i \in DOMAIN order |->
        IF Drawn(order[i]) THEN drawn[CHOOSE k \in DOMAIN slots : slots[k] = i] ELSE order[i]]

Vote ==
  /\ stage = "vote"
  /\ order' \in {order, DrawingOrder}
  /\ stage' = "figures"
  /\ UNCHANGED <<page, owners, marked, tree, mcids, failed, heads>>

\* Text in a decorative or described image, or in a box taken for an image, is read.
FigureText ==
  /\ stage = "figures"
  /\ owners' = [i \in DOMAIN owners |->
       IF Paint[i].kind = "word" /\ owners[i] = None /\ "picture" \in Paint[i].facts
            /\ page.figure \in {"decorative", "described", "box"}
       THEN To("figureText") ELSE owners[i]]
  /\ stage' = "mark"
  /\ UNCHANGED <<page, order, marked, tree, mcids, failed, heads>>

(***************************************************************************)
(* The structure tree.                                                     *)
(***************************************************************************)
Mcr(stm, n) == <<"mcr", stm, n>>
Sub(id) == <<"elem", id, 0>>
Objr == <<"objr", "link", 0>>
Pos(e) == LET at == {i \in DOMAIN order : order[i] = IF e = "figureText" THEN "figure" ELSE e}
          IN IF at = {} THEN 0 ELSE 2 * (CHOOSE i \in at : TRUE)

AddNode(b, id, role, parent, e) ==
  [b EXCEPT !.t = (id :> [role |-> role, parent |-> parent, kids |-> <<>>, pos |-> Pos(e),
                          fix |-> id \notin {"L", "LI", "Table", "TOC"} /\ Fixed(id)])
                    @@ [@ EXCEPT ![parent].kids = Append(@, Sub(id))]]

Role(e) ==
  CASE e = "heading" -> "H" [] e = "list_item" -> "LBody" [] e = "formula" -> "Formula"
    [] e = "toc_item" -> "TOCI" [] e = "figure" -> "Figure" [] e = "table" -> "TD" [] OTHER -> "P"

\* An item needs its list, an entry its table of contents and a cell its table.
InList(b, e) == AddNode(AddNode(AddNode(b, "L", "L", Doc, e), "LI", "LI", "L", e), e, Role(e), "LI", e)
InToc(b, e) == AddNode(AddNode(b, "TOC", "TOC", Doc, e), e, Role(e), "TOC", e)
InTable(b, e) == AddNode(AddNode(b, "Table", "Table", Doc, e), e, Role(e), "Table", e)

Created(b, e) ==
  CASE e = "list_item" -> InList(b, e) [] e = "toc_item" -> InToc(b, e) [] e = "table" -> InTable(b, e)
    [] OTHER -> AddNode(b, e, Role(e), Doc, e)

AddMcr(b, id, stm) ==
  [b EXCEPT !.t[id].kids = Append(@, Mcr(stm, Len(b.m[stm]) + 1)), !.m[stm] = Append(@, id)]

\* One element has all its fragments.
Allocate(b, e, stm) == AddMcr(IF e \in DOMAIN b.t THEN b ELSE Created(b, e), e, stm)

\* Moves the fragment just allocated from an element to another one.
Moved(b, from, to, stm) ==
  LET n == Len(b.m[stm])
      kids == b.t[to].kids
      at == IF to = "Link" THEN Len(kids) ELSE Len(kids) + 1
  IN [b EXCEPT !.t[from].kids = Front(@), !.t[to].kids = InsertAt(kids, at, Mcr(stm, n)),
               !.m[stm][n] = to]

\* Mutant: the MCID stays registered with the item's body.
ToLabel_KeepsEntry(b, stm) ==
  LET label == [role |-> "Lbl", parent |-> "LI", kids |-> <<>>, fix |-> FALSE, pos |-> 0]
      with == IF "Lbl" \in DOMAIN b.t THEN b
              ELSE [b EXCEPT !.t = ("Lbl" :> label) @@ [@ EXCEPT !["LI"].kids = <<Sub("Lbl")>> \o @]]
  IN [Moved(with, "list_item", "Lbl", stm) EXCEPT !.m = with.m]

\* A marker is read before its item: a sibling its correction cannot swallow.
ToLabel(b, stm) ==
  LET label == [role |-> "Lbl", parent |-> "LI", kids |-> <<>>, fix |-> FALSE, pos |-> 0]
      with == IF "Lbl" \in DOMAIN b.t THEN b
              ELSE [b EXCEPT !.t = ("Lbl" :> label) @@ [@ EXCEPT !["LI"].kids = <<Sub("Lbl")>> \o @]]
  IN Moved(with, "list_item", "Lbl", stm)

\* Mutant: the parent keeps its ActualText.
AddLink_KeepsText(b, parent) ==
  IF "Link" \in DOMAIN b.t THEN b
  ELSE LET with == AddNode(b, "Link", "Link", parent, "none")
       IN [with EXCEPT !.t["Link"].kids = <<Objr>>]

\* ActualText would hide the link, so its parent loses it.
AddLink(b, parent) ==
  IF "Link" \in DOMAIN b.t THEN b
  ELSE LET with == AddNode([b EXCEPT !.t[parent].fix = FALSE], "Link", "Link", parent, "none")
       IN [with EXCEPT !.t["Link"].kids = <<Objr>>]
ToLink(b, stm) ==
  LET parent == Last(b.m[stm])
      popped == [b EXCEPT !.t[parent].kids = Front(@)]
      linked == AddLink(popped, parent)
      n == Len(b.m[stm])
  IN [linked EXCEPT !.t["Link"].kids = InsertAt(@, Len(@), Mcr(stm, n)), !.m[stm][n] = "Link"]

Builder == [t |-> tree, m |-> mcids]

(***************************************************************************)
(* The streams are rewritten item by item, the page's before the form's.   *)
(***************************************************************************)
\* A decorative figure has no element; a text box is its text's paragraph.
ElementOf(mark) == IF mark.elem = "figure" /\ page.figure = "box" THEN "figureText" ELSE mark.elem
IsArtifact(mark) ==
  \/ mark.elem \in {"none", "artifact"}
  \/ mark.elem = "figure" /\ page.figure = "decorative"
Deferred(mark, kind) == mark.elem = "figureText" /\ kind = "word"

Opened(mark, stm) ==
  LET b == Allocate(Builder, ElementOf(mark), stm)
  IN IF mark.label THEN ToLabel(b, stm) ELSE IF mark.link THEN ToLink(b, stm) ELSE b

\* Consecutive content with one owner is one sequence.
Continues(i) == i > 1 /\ Paint[i].stm = Paint[i - 1].stm /\ owners[i] = owners[i - 1] /\ ~IsArtifact(owners[i])

Mark ==
  /\ stage = "mark" /\ Len(marked) < Len(Paint)
  /\ LET i == Len(marked) + 1
         mark == owners[i]
         stm == Paint[i].stm
     IN IF Continues(i)
        THEN marked' = Append(marked, marked[i - 1]) /\ UNCHANGED <<tree, mcids>>
        ELSE IF IsArtifact(mark) \/ Deferred(mark, Paint[i].kind)
        THEN marked' = Append(marked, [mark |-> mark, stm |-> stm, mcid |-> 0]) /\ UNCHANGED <<tree, mcids>>
        ELSE /\ tree' = Opened(mark, stm).t
             /\ mcids' = Opened(mark, stm).m
             /\ marked' = Append(marked, [mark |-> mark, stm |-> stm, mcid |-> Len(mcids[stm]) + 1])
  /\ UNCHANGED <<stage, page, owners, order, failed, heads>>

IsDeferred(i) == Deferred(owners[i], Paint[i].kind)
DeferredIn(stm) == {i \in DOMAIN Paint : Paint[i].stm = stm /\ IsDeferred(i)}

\* A described figure drawn by a scan of the whole page is painted again, clipped.
Overlaid ==
  /\ page.scanned /\ page.figure = "described"
  /\ \E i \in DOMAIN Paint : Paint[i].kind = "image" /\ Paint[i].own = "none"
WithOverlay ==
  IF Overlaid THEN [b |-> Allocate(Builder, "figure", "page"),
                    m |-> Append(marked, [mark |-> To("figure"), stm |-> "page", mcid |-> Len(mcids["page"]) + 1])]
  ELSE [b |-> Builder, m |-> marked]

\* A stream without deferred text is written at its end; it may not be writable.
EndStreams ==
  /\ stage = "mark" /\ Len(marked) = Len(Paint)
  /\ tree' = WithOverlay.b.t /\ mcids' = WithOverlay.b.m /\ marked' = WithOverlay.m
  /\ \/ failed' = {}
     \/ \E i \in DOMAIN Paint : DeferredIn(Paint[i].stm) = {} /\ failed' = {Paint[i].stm}
  /\ stage' = "finish"
  /\ UNCHANGED <<page, owners, order, heads>>

\* Recovered text gets its MCIDs after those of the page; a run keeps one.
First(i) == IsDeferred(i) /\ ~(i > 1 /\ IsDeferred(i - 1) /\ Paint[i - 1].stm = Paint[i].stm)
Finish ==
  /\ stage = "finish"
  /\ LET todo == SelectSeq([i \in DOMAIN Paint |-> i], First)
         b == FoldLeft(LAMBDA acc, i : Allocate(acc, "figureText", Paint[i].stm), Builder, todo)
         number(i) == Len(mcids[Paint[i].stm])
                        + Cardinality({j \in DeferredIn(Paint[i].stm) : First(j) /\ j <= i})
     IN /\ tree' = b.t /\ mcids' = b.m
        /\ marked' = [i \in DOMAIN marked |->
                        IF i \in DOMAIN Paint /\ IsDeferred(i) THEN [marked[i] EXCEPT !.mcid = number(i)] ELSE marked[i]]
  /\ stage' = "widgets"
  /\ UNCHANGED <<page, owners, order, failed, heads>>

\* A page whose paint shows no ink.
BlankMarks == [i \in DOMAIN Paint |-> [NoMark EXCEPT !.stm = "page"]]

\* A page without words or elements: artifacts when blank, else one Figure, so that
\* outlined text is not called decoration.
Unread ==
  /\ stage = "own"
  /\ \A i \in DOMAIN Paint : Paint[i].kind # "word"
  /\ order' = page.els
  /\ IF page.els = <<>>
     THEN /\ owners' = [i \in DOMAIN Paint |-> None]
          /\ stage' = "widgets"
          /\ \/ /\ marked' = BlankMarks
                /\ UNCHANGED <<tree, mcids>>
             \/ /\ LET b == AddMcr(AddNode(Builder, "figure", "Figure", Doc, "none"), "figure", "page")
                   IN tree' = b.t /\ mcids' = b.m
                /\ marked' = [i \in DOMAIN Paint |-> [mark |-> To("figure"), stm |-> "page", mcid |-> 1]]
     ELSE /\ owners' = [i \in DOMAIN Paint |-> OwnerOf(Paint[i])]
          /\ stage' = "vote"
          /\ UNCHANGED <<marked, tree, mcids>>
  /\ UNCHANGED <<page, failed, heads>>

(***************************************************************************)
(* Annotations and the end of the page.                                    *)
(***************************************************************************)
\* A field follows its label among the elements tagged here, or has no place of its
\* own; every page with a label has a field.
Labels == {e \in ToSet(order) \cap DOMAIN tree : e \in TextTypes /\ failed = {}}
Widgets ==
  /\ stage = "widgets"
  /\ \/ Labels = {} /\ UNCHANGED tree
     \/ LET with == AddNode(Builder, "Form", "Form", Doc, "none").t
        IN \/ \E e \in Labels : tree' = [with EXCEPT !["Form"].pos = Pos(e) + 1]
           \/ Labels = {} /\ tree' = with
  /\ stage' = "order"
  /\ UNCHANGED <<page, owners, order, marked, mcids, failed, heads>>

\* order_page_kids: a kid without a position stays after the one before it.
Key(kids, i) ==
  LET placed == {j \in 1..i : tree[kids[j][2]].pos # 0}
  IN IF placed = {} THEN 0 ELSE tree[kids[CHOOSE j \in placed : \A k \in placed : k <= j][2]].pos
Sorted(kids) ==
  LET before(i, j) == Key(kids, i) < Key(kids, j) \/ (Key(kids, i) = Key(kids, j) /\ i < j)
      at == SortSeq([i \in DOMAIN kids |-> i], before)
  IN [i \in DOMAIN kids |-> kids[at[i]]]

OrderKids ==
  /\ stage = "order"
  /\ tree' = [tree EXCEPT ![Doc].kids = Sorted(@)]
  /\ stage' = "links"
  /\ UNCHANGED <<page, owners, order, marked, mcids, failed, heads>>

WithAnnot(b) == AddNode(b, "Annot", "Annot", Doc, "none")

\* Links without marked text go to the element they lie on; other annotations end the page.
Links ==
  /\ stage = "links"
  /\ LET parent == IF page.link \in DOMAIN tree /\ page.link # "table" THEN page.link ELSE Doc
         linked == IF page.link = "none" THEN Builder ELSE AddLink(Builder, parent)
     IN tree' = WithAnnot(linked).t
  /\ stage' = "end"
  /\ UNCHANGED <<page, owners, order, marked, mcids, failed, heads>>

(***************************************************************************)
(* The tree of the document is finalized.                                  *)
(***************************************************************************)
\* _normalize_heading_hierarchy: each heading ends the sections at its level or
\* deeper and goes one below the one still open; an author's level stays.
Renumbered(hs) ==
  LET open(sections, h) == SelectSeq(sections, LAMBDA s : s.given < h.level)
      step(acc, h) ==
        LET above == open(acc.open, h)
            level == IF h.author THEN h.level ELSE IF above = <<>> THEN 1 ELSE Last(above).level + 1
        IN [open |-> Append(above, [given |-> h.level, level |-> level]),
            done |-> Append(acc.done, [h EXCEPT !.level = level])]
  IN FoldLeft(step, [open |-> <<>>, done |-> <<>>], hs).done

Emitted(hs) == SelectSeq(hs, LAMBDA h : h.drawn)

\* Levels are closed over the layout's headings and again over those with content.
Finalize ==
  /\ stage = "finalize"
  /\ heads' = Renumbered(Emitted(Renumbered(heads)))
  /\ stage' = "final"
  /\ UNCHANGED <<page, owners, order, marked, tree, mcids, failed>>

TaggingNext == Own \/ Unread \/ Vote \/ FigureText \/ Mark \/ EndStreams \/ Finish \/ Widgets \/ OrderKids \/ Links \/ Finalize
Spec == Init /\ [][TaggingNext]_taggingVars

(***************************************************************************)
(* Properties.                                                             *)
(***************************************************************************)
\* An element is below itself and below what its parent is below.
Below(id, over) ==
  LET up[n \in 0..Cardinality(DOMAIN tree)] ==
        IF n = 0 THEN id ELSE IF up[n - 1] = "none" THEN "none" ELSE tree[up[n - 1]].parent
  IN \E n \in DOMAIN up : up[n] = over

Ended == stage = "end"
Holders(kid) == {id \in DOMAIN tree : \E k \in DOMAIN tree[id].kids : tree[id].kids[k] = kid}

\* The two ways through the tree agree (move_fragment_to_list_label, put_mcid_in_link,
\* _DeferredFigureText): the element registered for an MCID is the one that holds its
\* reference, no MCID is referred to twice, and each stands around content of its stream.
TreeAgrees ==
  Ended => \A s \in Streams \ failed : \A n \in DOMAIN mcids[s] :
    /\ Holders(Mcr(s, n)) = {mcids[s][n]}
    /\ \E i \in DOMAIN marked : marked[i].stm = s /\ marked[i].mcid = n
    /\ \A i \in DOMAIN marked : marked[i].stm = s => marked[i].mcid <= Len(mcids[s])

\* Nothing is read in place of something else: no corrected element holds a link
\* (add_link_annotation) or, outside tables, a word its layout did not give it.
NothingHidden ==
  Ended => \A over \in DOMAIN tree : tree[over].fix =>
    /\ \A id \in DOMAIN tree : Below(id, over) => tree[id].role # "Link"
    /\ \A i \in DOMAIN Paint :
         Paint[i].own = "none" /\ marked[i].mcid > 0 /\ marked[i].mark.elem # "table"
           => ~Below(mcids[marked[i].stm][marked[i].mcid], over)

\* Body text that layout missed is still read: a word outside the margins, the rules and
\* the undecided pictures has an element of its page, whatever its form or figure, unless
\* the stream that paints it could not be written.
TextKept ==
  Ended => \A i \in DOMAIN Paint :
    Paint[i].kind = "word" /\ Paint[i].own = "none" /\ ~Hidden(Paint[i]) /\ Paint[i].stm \notin failed
      /\ ("picture" \in Paint[i].facts => page.figure \in {"decorative", "described", "box"})
      => marked[i].mcid > 0

\* The headings that reach the tree never skip a level (finalize), except that an
\* author's own level is kept and begins where the author put it.
HeadingsNest ==
  stage = "final" => \A i \in DOMAIN heads : ~heads[i].author =>
    heads[i].level <= 1 + (IF i = 1 THEN 0 ELSE heads[i - 1].level)

================================================================================
