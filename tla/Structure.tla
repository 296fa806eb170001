------------------------------- MODULE Structure -------------------------------
(***************************************************************************)
(* What structure.py makes of docling's document: the items of its tree in *)
(* reading order with the images of its pictures, the elements of an item, *)
(* and the runs of a table of contents, rebuilt from the words of their    *)
(* pages.  extract_structure does the three in this order; a behaviour     *)
(* follows one of them on a small document.                                *)
(***************************************************************************)
EXTENDS Naturals, Sequences, FiniteSets, SequencesExt

VARIABLES
  stage, \* "docling"; then "tree", "item", or "found" and "toc"
  body,  \* docling's tree and pictures
  item,  \* one item of it
  run,   \* elements at a table of contents, by what they look like
  rows   \* the rows of words on each page

structureVars == <<stage, body, item, run, rows>>

(***************************************************************************)
(* The tree: _walk_body_tree.                                              *)
(***************************************************************************)
Pictures == <<"p1", "p2">>   \* doc_dict["pictures"]
Names    == {"t1", "t2", "p1", "p2", "group"}
Bodies ==
  [children : BoundedSeq(Names, 3),
   group    : {<<>>, <<"t1">>, <<"p1">>, <<"t1", "p1">>, <<"p2", "t2">>},
   first    : {<<>>, <<"t1">>, <<"t2", "t1">>},   \* captions and footnotes of p1
   second   : {<<>>, <<"t1">>, <<"t2">>},         \*   and of p2
   above    : SUBSET {"t1"},                      \* printed above the picture
   imaged   : SUBSET {"p1", "p2"}]                \* docling gave an image, or one of the page

Attached(b, r) == CASE r = "p1" -> b.first [] r = "p2" -> b.second [] OTHER -> <<>>
Refs(b) == FlattenSeq([i \in DOMAIN b.children |-> IF b.children[i] = "group" THEN b.group ELSE <<b.children[i]>>])

\* An item with the captions and footnotes that were not seen before, at the side
\* where they are printed.
Visit(b, done, r) ==
  LET new   == SelectSeq(Attached(b, r), LAMBDA t : t \notin done.seen)
      above == SelectSeq(new, LAMBDA t : t \in b.above)
      below == SelectSeq(new, LAMBDA t : t \notin b.above)
  IN IF r \in done.seen THEN done
     ELSE [seen |-> done.seen \cup {r} \cup ToSet(new), items |-> done.items \o above \o <<r>> \o below]
Walk(b) == FoldLeft(LAMBDA done, r : Visit(b, done, r), [seen |-> {}, items |-> <<>>], Refs(b)).items

\* figure_index counts the figures of the walk; _save_docling_figures the pictures.
FigureElements(b) == SelectSeq(Walk(b), LAMBDA r : r \in ToSet(Pictures))
Saved(b) == {[index |-> i, of |-> Pictures[i]] : i \in {n \in DOMAIN Pictures : Pictures[n] \in b.imaged}}

\* ensure_figure_images: a figure without an image has one of its region.
Ensured(b) ==
  Saved(b) \cup {[index |-> i, of |-> FigureElements(b)[i]] :
                   i \in {n \in DOMAIN FigureElements(b) : \A f \in Saved(b) : f.index # n}}

(***************************************************************************)
(* The elements of an item: _normalize_docling_elements.                   *)
(***************************************************************************)
Labels == {"heading", "text", "list_item", "picture", "table", "page_header"}
Page   == 1..2
Prov   == [page : Page, box : BOOLEAN]
Items  == [label : Labels, words : BOOLEAN, prov : BoundedSeq(Prov, 3)]

\* Text, captions, references and notes need words; others come out without.
Kept(it) == it.label = "text" => it.words
Continues(it) == it.label \notin {"picture", "table", "page_header"}

\* The boxes after the first, by page.
Boxes(it, p) == {i \in 2..Len(it.prov) : it.prov[i].box /\ it.prov[i].page = p}
FirstPage(it) == IF it.prov = <<>> THEN 1 ELSE it.prov[1].page
Main(it) ==
  [page  |-> FirstPage(it), continuation |-> FALSE,
   boxes |-> {i \in 1..Len(it.prov) : i = 1 /\ it.prov[i].box} \cup Boxes(it, FirstPage(it))]
Continuations(it) ==
  {[page |-> p, continuation |-> TRUE, boxes |-> Boxes(it, p)] :
     p \in {q \in Page : q # FirstPage(it) /\ Boxes(it, q) # {} /\ Continues(it)}}
Elements(it) == IF Kept(it) THEN {Main(it)} \cup Continuations(it) ELSE {}

(***************************************************************************)
(* A table of contents.                                                    *)
(***************************************************************************)
\* "table" has rows that look like entries, "blank" only cells that do.
EntryLike == {"entry", "table", "blank"}
Runs == {r \in BoundedSeq([is : {"contents", "artifact", "other"} \cup EntryLike, page : Page], 3) :
           \A i, j \in DOMAIN r : i < j => r[i].page <= r[j].page}

\* _mark_toc_sequences: what follows a heading "Contents" and looks like an entry.
EntriesAfter(r, h) ==
  {i \in (h + 1)..Len(r) : r[i].is \in EntryLike /\ \A k \in (h + 1)..i : r[k].is \in EntryLike \cup {"artifact"}}
Captions(r) == {h \in DOMAIN r : r[h].is = "contents" /\ EntriesAfter(r, h) # {}}
Element(type, group, page) == [type |-> type, group |-> group, page |-> page]
Marked(r, i) ==
  IF i \in Captions(r) THEN Element("toc_caption", i, r[i].page)
  ELSE IF \E h \in Captions(r) : i \in EntriesAfter(r, h)
       THEN Element("toc_item", CHOOSE h \in Captions(r) : i \in EntriesAfter(r, h), r[i].page)
       ELSE Element("other", 0, r[i].page)

\* _expand_toc_item_tables: each row that looks like an entry, or the table as one.
Expanded(r) ==
  FlattenSeq([i \in DOMAIN r |-> IF r[i].is = "table" /\ Marked(r, i).type = "toc_item"
                                 THEN <<Marked(r, i), Marked(r, i)>> ELSE <<Marked(r, i)>>])

\* _rebuild_toc_elements_from_page_rows, one group: a label is kept for an entry that
\* has no section number, and nothing before the first heading "Contents" counts.
RowKinds == {"contents", "entry", "section", "label"}
ReadRow(g, s, row) ==
  CASE row.is = "contents" ->
         [s EXCEPT !.out = IF s.found THEN s.out ELSE Append(s.out, Element("toc_caption", g, row.page)),
                   !.found = TRUE, !.label = FALSE]
    [] row.is # "contents" /\ ~s.found -> s
    [] row.is = "label" /\ s.found -> [s EXCEPT !.label = TRUE]
    [] row.is \in {"entry", "section"} /\ s.found ->
         LET entry == Element("toc_item", g, row.page)
         IN [s EXCEPT !.out = s.out \o (IF s.label /\ row.is = "entry" THEN <<entry, entry>> ELSE <<entry>>),
                      !.label = FALSE]
GroupPages(els, g) == {els[i].page : i \in {n \in DOMAIN els : els[n].group = g}}
RowsOn(rs, pages) ==
  FlattenSeq([p \in Page |-> IF p \in pages THEN [i \in DOMAIN rs[p] |-> [is |-> rs[p][i], page |-> p]] ELSE <<>>])
Replacement(els, rs, g) ==
  FoldLeft(LAMBDA s, row : ReadRow(g, s, row), [out |-> <<>>, found |-> FALSE, label |-> FALSE],
           RowsOn(rs, GroupPages(els, g))).out

\* A group that was read again comes out at the place of its first element.
Rebuilt(els, rs) ==
  LET Again(i) == els[i].group # 0 /\ Replacement(els, rs, els[i].group) # <<>>
      IsFirst(i) == \A k \in 1..(i - 1) : els[k].group # els[i].group
  IN FlattenSeq([i \in DOMAIN els |-> IF ~Again(i) THEN <<els[i]>>
                                      ELSE IF IsFirst(i) THEN Replacement(els, rs, els[i].group) ELSE <<>>])

(***************************************************************************)
(* The steps of extract_structure.                                         *)
(***************************************************************************)
Init == stage = "docling" /\ body = "none" /\ item = "none" /\ run = "none" /\ rows = "none"

WalkBody ==
  /\ stage = "docling"
  /\ stage' = "tree" /\ body' \in Bodies
  /\ UNCHANGED <<item, run, rows>>
Normalize ==
  /\ stage = "docling"
  /\ stage' = "item" /\ item' \in Items
  /\ UNCHANGED <<body, run, rows>>
FindToc ==
  /\ stage = "docling"
  /\ stage' = "found" /\ run' \in Runs
  /\ UNCHANGED <<body, item, rows>>
\* A page that cannot be read has no rows; without a table of contents none is read.
RebuildToc ==
  /\ stage = "found" /\ Captions(run) # {}
  /\ stage' = "toc" /\ rows' \in [Page -> BoundedSeq(RowKinds, 2)]
  /\ UNCHANGED <<body, item, run>>

Next == WalkBody \/ Normalize \/ FindToc \/ RebuildToc
Spec == Init /\ [][Next]_structureVars

(***************************************************************************)
(* Properties.                                                             *)
(***************************************************************************)
\* However often the tree names a text, as a child, in a group or as a caption of two
\* pictures, it is read once, and a caption that only one picture names is read next to
\* that picture.
Reached(b) == ToSet(Refs(b)) \cup UNION {ToSet(Attached(b, r)) : r \in ToSet(Refs(b))}
HeardOnce ==
  stage = "tree" =>
    LET w == Walk(body) IN
    /\ ToSet(w) = Reached(body) /\ Len(w) = Cardinality(Reached(body))
    /\ \A i, j \in DOMAIN w :
         /\ w[j] \in ToSet(Attached(body, w[i])) \ ToSet(Refs(body))
         /\ \A k \in DOMAIN w : k # i => w[j] \notin ToSet(Attached(body, w[k]))
         => /\ \A k \in (i..j) \cup (j..i) : k # i => w[k] \in ToSet(Attached(body, w[i]))
            /\ j < i <=> w[j] \in body.above

\* As long as docling lists its pictures in the order of its tree, every figure has one
\* image and it is of that figure, although the two are counted apart.
FigureIsItsOwn ==
  stage = "tree" /\ IsPrefix(FigureElements(body), Pictures) =>
    \A i \in DOMAIN FigureElements(body) :
      {f.of : f \in {x \in Ensured(body) : x.index = i}} = {FigureElements(body)[i]}

\* A text that goes on in other columns or pages keeps each of its boxes, on its page, in
\* one element.
BoxesKept ==
  stage = "item" /\ Elements(item) # {} =>
    \A i \in DOMAIN item.prov :
      LET holders == {e \in Elements(item) : i \in e.boxes} IN
      /\ \A e \in holders : e.page = item.prov[i].page
      /\ item.prov[i].box /\ Continues(item) => Cardinality(holders) = 1
      /\ Cardinality(holders) <= 1

\* Finding and rebuilding a table of contents leaves every other element in its order,
\* and each group with one caption, before its entries.
TocWhole ==
  stage = "toc" =>
    LET before == Expanded(run)
        after  == Rebuilt(before, rows)
        Of(els, g) == SelectSeq(els, LAMBDA e : e.group = g)
    IN /\ Of(after, 0) = Of(before, 0)
       /\ \A g \in Captions(run) :
            /\ Of(after, g) # <<>> /\ Of(after, g)[1].type = "toc_caption"
            /\ \A i \in 2..Len(Of(after, g)) : Of(after, g)[i].type = "toc_item"
================================================================================
