-------------------------------- MODULE Outline --------------------------------
(***************************************************************************)
(* How a document gets its bookmarks: the table of contents is marked      *)
(* (toc_intelligence.py), the first pages give a title and front matter    *)
(* (early_pages_intelligence.py, title_intelligence.py), the model plans   *)
(* an outline in up to three requests (bookmark_intelligence.py) and the   *)
(* tagger writes it (tagger_bookmarks.py).  A text is a sequence of words; *)
(* the structure it comes from and every answer are inputs.                *)
(***************************************************************************)
EXTENDS Naturals, Sequences, FiniteSets, SequencesExt

VARIABLES
  stage,   \* the next step: "toc", "early", "plan", "supplement", "landmarks", "write", "done"
  els,     \* the elements of the structure, in reading order
  source,  \* what the PDF itself tells: its native TOC, the block that stands out
           \* on the first page and whether its metadata hold a usable title
  title,   \* structure_json["title"]
  front,   \* prefetched front matter, "none" when the early pages were not read
  outline, \* outline_entries
  plan,    \* structure_json["bookmark_plan"]; << >>: absent
  chosen,  \* what the accepted answers asked for: <<words, page>>
  written  \* the bookmarks of the PDF, each with the index of its parent

outlineVars == <<stage, els, source, title, front, outline, plan, chosen, written>>

Roles == {<<"Cover">>, <<"Series">>}
Leaders == {"..5", "..9"}
Numbers == {"1", "2"}
TocTypes == {"toc_caption", "toc_item"}
MAX_TOC_PAGES == 3

Min2(a, b) == IF a < b THEN a ELSE b
Level(l) == Min2(6, IF l < 1 THEN 1 ELSE l)

\* TOC_TRAILING_PAGE_RE: leader dots with a page, or a number that ends the text.
Clean(t) == IF Len(t) > 1 /\ Last(t) \in Leaders \cup Numbers THEN Front(t) ELSE t

\* _bookmark_section_key: the number that starts a text.
Section(t) == IF t # <<>> /\ Head(t) \in Numbers THEN Head(t) ELSE ""

Element(type, text, page, level) == [type |-> type, text |-> text, page |-> page, level |-> level, rows |-> <<>>]

(***************************************************************************)
(* The table of contents.                                                  *)
(***************************************************************************)
HasToc(s) == \E i \in DOMAIN s : s[i].type \in TocTypes

\* collect_toc_candidates: the entries after a caption, or those already marked.
Caption(s) == {i \in DOMAIN s : IF HasToc(s) THEN s[i].type = "toc_caption" ELSE s[i].text = <<"contents">>}
EntriesOf(s, c) ==
  {i \in DOMAIN s : /\ i > c
                    /\ IF HasToc(s) THEN \A j \in (c + 1)..i : s[j].type = "toc_item"
                       ELSE s[i].page <= s[c].page + MAX_TOC_PAGES - 1}

\* _toc_row_items_from_table: a row that ends in a page becomes an entry.
Rows(e) ==
  LET like == SelectSeq(e.rows, LAMBDA r : Clean(r) # r)
      row(t) == Element("toc_item", t, e.page, 0)
  IN IF like # <<>> THEN [i \in DOMAIN like |-> row(like[i])] ELSE <<row(FlattenSeq(e.rows))>>

\* apply_toc_intelligence: an entry may get a shorter text, a table may not.
Marked(s, c, picked, shorten) ==
  FlattenSeq([i \in DOMAIN s |->
    IF i = c THEN <<[s[i] EXCEPT !.type = "toc_caption"]>>
    ELSE IF i \notin picked THEN <<s[i]>>
    ELSE IF s[i].type = "table" THEN Rows(s[i])
    ELSE <<[s[i] EXCEPT !.type = "toc_item", !.text = IF shorten THEN Clean(@) ELSE @]>>])

\* enhance_toc_structure_with_intelligence, or the step was off or failed.
TocStep ==
  /\ stage = "toc"
  /\ stage' = "early"
  /\ \/ els' = els
     \/ \E c \in Caption(els), shorten \in BOOLEAN : \E n \in EntriesOf(els, c) :
          els' = Marked(els, c, {i \in EntriesOf(els, c) : i <= n}, shorten)
  /\ UNCHANGED <<source, title, front, outline, plan, chosen, written>>

(***************************************************************************)
(* The first pages.                                                        *)
(***************************************************************************)
TocEntries(s) == SelectSeq([i \in DOMAIN s |-> [index |-> i, e |-> s[i]]], LAMBDA x : x.e.type \in TocTypes)
TocPages(s) == {s[i].page : i \in {j \in DOMAIN s : s[j].type \in TocTypes}}
FirstTocPage(s) == CHOOSE p \in TocPages(s) : \A q \in TocPages(s) : p <= q
LastTocPage(s) == CHOOSE p \in TocPages(s) : \A q \in TocPages(s) : p >= q

\* _front_matter_page_candidates: pages with text before the first TOC page.
FrontPages(s) == IF ~HasToc(s) THEN {}
                 ELSE {p \in 0..2 : p < FirstTocPage(s) /\ \E i \in DOMAIN s : s[i].page = p}

Entry(id, kind, index, text, page, level) ==
  [id |-> id, kind |-> kind, index |-> index, text |-> text, page |-> page, level |-> level]
FrontEntry(role, page) == Entry(<<"front", role>>, "front_matter", page, role, page, 1)

\* select_document_title: the prominent block, the metadata, the first level 1
\* heading; only the first two can be clear.
Block == IF source.block = "none" THEN <<>> ELSE <<[text |-> <<"annual", "report">>, clear |-> source.block = "clear"]>>
Metadata == IF source.meta THEN <<[text |-> <<"meta">>, clear |-> TRUE]>> ELSE <<>>
FirstH1(s) == LET hs == SelectSeq(s, LAMBDA e : e.type = "heading" /\ e.level = 1)
              IN IF hs = <<>> THEN <<>> ELSE <<[text |-> hs[1].text, clear |-> FALSE]>>
Deterministic(s) ==
  LET clear == SelectSeq(Block \o Metadata, LAMBDA c : c.clear)
  IN Head(clear \o FirstH1(s) \o Block \o <<[text |-> <<"filename">>, clear |-> FALSE]>>)

\* A clear deterministic title stays; a model's title needs confidence.
Titles == {Deterministic(els).text} \cup IF Deterministic(els).clear THEN {} ELSE {<<"model">>}

\* enhance_document_title_and_front_matter_with_intelligence: one role a page.
EarlyPages ==
  /\ stage = "early"
  /\ stage' = "plan"
  /\ title' \in Titles
  /\ \/ front' = "none"
     \/ /\ FrontPages(els) # {}
        /\ front' \in {<<>>} \cup {<<FrontEntry(r, p)>> : r \in Roles, p \in FrontPages(els)}
  /\ UNCHANGED <<els, source, outline, plan, chosen, written>>

(***************************************************************************)
(* The plan.                                                               *)
(***************************************************************************)
\* _heading_target_entries, _select_heading_target: the words, else the section.
HeadingIndexes(s) == {i \in DOMAIN s : s[i].type = "heading"}
Matches(s, t, Same(_, _)) == {i \in HeadingIndexes(s) : Same(Clean(s[i].text), t)}
EarliestOf(S) == CHOOSE i \in S : \A j \in S : i <= j
Target(s, t) ==
  LET exact == Matches(s, t, LAMBDA a, b : a = b)
      section == Matches(s, t, LAMBDA a, b : Section(b) # "" /\ Section(a) = Section(b))
  IN IF exact # {} THEN EarliestOf(exact) ELSE IF section # {} THEN EarliestOf(section) ELSE 0

Candidate(id, kind, index, labels, page, level) ==
  [id |-> id, kind |-> kind, index |-> index, labels |-> labels, page |-> page, level |-> Level(level)]

\* _build_outline_candidates.
TocCandidate(s, x) ==
  LET label == Clean(x.e.text)
      t == Target(s, label)
      page == IF t = 0 THEN x.e.page ELSE s[t].page
      level == IF x.e.type = "toc_caption" THEN 1 ELSE IF t = 0 THEN 2 ELSE s[t].level
  IN <<Candidate(<<"toc", x.index>>, "toc", x.index, {label}, page, level)>>
     \o IF t = 0 \/ s[t].text = label THEN <<>>
        ELSE <<Candidate(<<"variant", x.index>>, "heading_variant", t,
                         {s[t].text, Clean(s[t].text), label}, page, level)>>

\* collect_bookmark_heading_candidates: headings and blocks after the last TOC page.
After(s, types) == {i \in DOMAIN s : s[i].type \in types /\ s[i].page > LastTocPage(s)}
HeadingCandidate(s, i) ==
  Candidate(<<"heading", i>>, "heading", i, {Clean(s[i].text), s[i].text}, s[i].page, s[i].level)
Candidates(s) ==
  FlattenSeq([k \in DOMAIN TocEntries(s) |-> TocCandidate(s, TocEntries(s)[k])])
  \o [k \in 1..Cardinality(After(s, {"heading"})) |->
        HeadingCandidate(s, SetToSortSeq(After(s, {"heading"}), LAMBDA a, b : a < b)[k])]

\* _materialize_outline_entries_from_plan: each answer names a candidate, a
\* level and one of its labels; the label of a TOC entry is not up to it.
Materialized(c, level, long) ==
  Entry(c.id, c.kind, c.index,
        CHOOSE l \in c.labels : \A m \in c.labels : IF long THEN Len(l) >= Len(m) ELSE Len(l) <= Len(m),
        c.page, level)
Picks(cs, most) ==
  {SetToSortSeq(S, LAMBDA i, j : i < j) : S \in UNION {kSubset(k, DOMAIN cs) : k \in 0..Min2(most, Len(cs))}}
Answers(cs, most) ==
  UNION {{[k \in DOMAIN p |-> Materialized(cs[p[k]], a[1], a[2])] : a \in {<<1, TRUE>>, <<2, FALSE>>}} : p \in Picks(cs, most)}

Named(entries) == {<<entries[i].text, entries[i].page>> : i \in DOMAIN entries}

\* No plan: there is no TOC, a request failed, or the assist is off.
NoPlan ==
  /\ stage \in {"plan", "supplement", "landmarks"}
  /\ stage' = "write" /\ outline' = <<>> /\ chosen' = {}
  /\ UNCHANGED <<els, source, title, front, plan, written>>

\* Without prefetched front matter the plan names it, each role once a page.
OwnFront == {<<>>} \cup {<<FrontEntry(<<"Cover">>, p)>> : p \in FrontPages(els)}
             \cup {<<FrontEntry(<<"Cover">>, p), FrontEntry(<<"Series">>, p)>> : p \in FrontPages(els)}

PlanStep ==
  /\ stage = "plan" /\ HasToc(els)
  /\ outline' \in Answers(Candidates(els), 2)
  /\ front' \in IF front = "none" THEN OwnFront ELSE {front}
  /\ chosen' = Named(front') \cup Named(outline')
  /\ stage' = IF outline' = <<>> THEN "landmarks" ELSE "supplement"
  /\ UNCHANGED <<els, source, title, plan, written>>

\* _merge_outline_entries: sorted by page, level and place in the document.
Before(a, b) == \/ a.page < b.page
                \/ a.page = b.page /\ a.level < b.level
                \/ a.page = b.page /\ a.level = b.level /\ a.index < b.index
                \/ a.page = b.page /\ a.level = b.level /\ a.index = b.index /\ a.kind = "heading" /\ b.kind # "heading"

\* Mutant: the supplement takes the place of the plan it supplements.
Merged_ExtraOnly(primary, extra) == IF extra = <<>> THEN primary ELSE SortSeq(extra, Before)

Merged(primary, extra) == SortSeq(primary \o extra, Before)

\* An answer of low confidence adds nothing and leaves the order alone.
Supplement ==
  /\ stage = "supplement"
  /\ LET rest == SelectSeq(Candidates(els), LAMBDA c : /\ c.kind \in {"heading", "heading_variant"}
                                                       /\ \A i \in DOMAIN outline : outline[i].id # c.id)
     IN \/ UNCHANGED <<outline, chosen>>
        \/ \E extra \in Answers(rest, 1) :
             /\ rest # <<>>
             /\ outline' = Merged(outline, extra)
             /\ chosen' = chosen \cup Named(extra)
  /\ stage' = "landmarks"
  /\ UNCHANGED <<els, source, title, front, plan, written>>

\* _materialize_landmark_entries_from_plan: a visible block below an entry.
Landmark(i, anchor, level) ==
  [mark |-> Entry(<<"landmark", i>>, "landmark", i, Clean(els[i].text), els[i].page, level), anchor |-> anchor]

\* _merge_outline_with_landmarks: each behind its anchor.
WithLandmarks(entries, marks) ==
  FlattenSeq([i \in DOMAIN entries |->
    <<entries[i]>> \o [k \in DOMAIN SelectSeq(marks, LAMBDA m : m.anchor = entries[i].id) |->
                         SelectSeq(marks, LAMBDA m : m.anchor = entries[i].id)[k].mark]])

\* _merge_bookmark_plan_entries, _bookmark_plan_entries: the first of equals.
Distinct(entries) ==
  LET Fresh(done, e) == IF \E i \in DOMAIN done : done[i].text = e.text /\ done[i].page = e.page
                          THEN done ELSE Append(done, e)
  IN FoldLeft(Fresh, <<>>, entries)

LandmarkAnswers ==
  {<<>>} \cup (IF outline = <<>> THEN {}
               ELSE {<<Landmark(i, outline[a].id, l)>> : i \in After(els, {"note", "paragraph"}),
                                                        a \in {1, Len(outline)}, l \in {1, 3}})

Landmarks ==
  /\ stage = "landmarks"
  /\ \E marks \in LandmarkAnswers :
       /\ plan' = Distinct(front \o WithLandmarks(outline, marks))
       /\ chosen' = chosen \cup {<<marks[k].mark.text, marks[k].mark.page>> : k \in DOMAIN marks}
  /\ stage' = "write"
  /\ UNCHANGED <<els, source, title, front, outline, written>>

(***************************************************************************)
(* _add_bookmarks.                                                         *)
(***************************************************************************)
Bookmark(text, page, level) == [text |-> text, page |-> page, level |-> Level(level)]

\* _docling_heading_bookmark_entries.
Headings(s) ==
  LET hs == SelectSeq(s, LAMBDA e : e.type = "heading")
  IN [k \in DOMAIN hs |-> Bookmark(Clean(hs[k].text), hs[k].page, hs[k].level)]

HomeOf(hs, t) == {k \in DOMAIN hs : hs[k].text = t}

\* _native_toc_bookmark_entries: only entries some heading repeats.
Native(hs) ==
  LET found == SelectSeq(source.native, LAMBDA n : HomeOf(hs, Clean(n)) # {})
  IN Distinct([k \in DOMAIN found |-> Bookmark(Clean(found[k]), hs[EarliestOf(HomeOf(hs, Clean(found[k])))].page, 1)])

\* _toc_bookmark_entries: on the page of the heading, or of the entry itself.
FromToc(s, hs) ==
  LET toc == TocEntries(s)
      deeper == IF \E k \in DOMAIN toc : toc[k].e.type = "toc_caption" THEN 1 ELSE 0
      One(e) == LET home == HomeOf(hs, Clean(e.text))
                IN IF e.type = "toc_caption" THEN Bookmark(Clean(e.text), e.page, 1)
                   ELSE IF home = {} THEN Bookmark(Clean(e.text), e.page, 1 + deeper)
                   ELSE Bookmark(Clean(e.text), hs[EarliestOf(home)].page, hs[EarliestOf(home)].level + deeper)
  IN Distinct([k \in DOMAIN toc |-> One(toc[k].e)])

\* _maybe_synthesize_title_bookmark: fragments of the title on the first page.
Synthesized(hs) ==
  LET inTitle(h) == h.page = 0 /\ \E w \in DOMAIN title : h.text = <<title[w]>>
      parts == SelectSeq(hs, LAMBDA h : inTitle(h) /\ h.text # title)
  IN IF Len(parts) < 2 \/ \E k \in DOMAIN hs : hs[k].page = 0 /\ hs[k].text = title THEN hs
     ELSE <<Bookmark(title, 0, 1)>> \o SelectSeq(hs, LAMBDA h : ~(inTitle(h) /\ h.text # title))

\* The stack: an item belongs to the last one before it of a smaller level.
Nested(bs) ==
  [i \in DOMAIN bs |->
     [mark |-> bs[i],
      parent |-> LET above == {j \in 1..(i - 1) : bs[j].level < bs[i].level}
                 IN IF above = {} THEN 0 ELSE CHOOSE j \in above : \A k \in above : k <= j]]

WriteBookmarks ==
  /\ stage = "write"
  /\ LET hs == Headings(els)
         bs == IF plan # <<>> THEN [i \in DOMAIN plan |-> Bookmark(plan[i].text, plan[i].page, plan[i].level)]
               ELSE IF Native(hs) # <<>> THEN Native(hs)
               ELSE IF FromToc(els, hs) # <<>> THEN FromToc(els, hs)
               ELSE SortSeq(Synthesized(hs), LAMBDA a, b : a.page < b.page)
     IN written' = Nested(bs)
  /\ stage' = "done"
  /\ UNCHANGED <<els, source, title, front, outline, plan, chosen>>

(***************************************************************************)
(* The documents.                                                          *)
(***************************************************************************)
Body(cover, caption, table, first, page, level) ==
  cover \o <<Element(caption, <<"contents">>, 1, 1)>>
  \o (IF table /\ caption = "heading"
        THEN <<[Element("table", <<>>, 1, 0) EXCEPT !.rows = <<Append(first, "..5"), <<"part", "2", "..9">>>>]>>
        ELSE LET type == IF caption = "heading" THEN "paragraph" ELSE "toc_item"
             IN <<Element(type, Append(first, "..5"), 1, 0), Element(type, <<"part", "2", "..9">>, 1, 0)>>)
  \o <<Element("heading", IF first = <<"1", "scope">> THEN <<"1", "scope", "aims">> ELSE first, 2, 1),
       Element("note", <<"box">>, 2, 0), Element("heading", <<"part", "2">>, page, level)>>

OutlineInit ==
  /\ \E cover \in {<<Element("heading", <<"annual", "report">>, 0, 1)>>,
                   <<Element("heading", <<"annual">>, 0, 1), Element("heading", <<"report">>, 0, 2)>>},
        caption \in {"heading", "toc_caption", "paragraph"}, table \in BOOLEAN,
        parts \in {<<<<"1", "scope">>, 2, 2>>, <<<<"part", "1">>, 3, 1>>} :
       els = Body(cover, caption, table, parts[1], parts[2], parts[3])
  /\ source \in {[native |-> <<>>, block |-> "clear", meta |-> FALSE],
                 [native |-> <<<<"part", "2">>>>, block |-> "unclear", meta |-> FALSE],
                 [native |-> <<>>, block |-> "none", meta |-> TRUE]}
  /\ stage = "toc" /\ title = <<>> /\ front = "none" /\ outline = <<>> /\ plan = <<>>
  /\ chosen = {} /\ written = <<>>

OutlineNext == TocStep \/ EarlyPages \/ PlanStep \/ NoPlan \/ Supplement \/ Landmarks \/ WriteBookmarks

Spec == OutlineInit /\ [][OutlineNext]_outlineVars
-----------------------------------------------------------------------------
(***************************************************************************)
(* Properties.                                                             *)
(***************************************************************************)
\* Every bookmark leads to a page that shows its words, starts with them or
\* has their section number; only a title and a role stand for a whole page.
LeadsToText ==
  stage = "done" =>
    \A i \in DOMAIN written :
      LET b == written[i].mark
      IN \/ b.text \in Roles \cup {title} /\ b.page = 0
         \/ \E k \in DOMAIN els : /\ els[k].page = b.page
                                  /\ \/ IsPrefix(b.text, els[k].text)
                                     \/ Section(b.text) # "" /\ Section(els[k].text) = Section(b.text)

\* What the accepted answers chose is in the outline of the PDF: an answer
\* that only adds never takes away what an earlier one chose.
ChosenIsWritten ==
  stage = "done" => chosen \subseteq {<<written[i].mark.text, written[i].mark.page>> : i \in DOMAIN written}

===============================================================================
