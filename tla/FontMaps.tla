------------------------------- MODULE FontMaps -------------------------------
(***************************************************************************)
(* How the text of a font's codes is repaired (pipeline/fonts): the codes  *)
(* each place shows are collected, zero bytes without a text are taken out *)
(* and the ToUnicode map is rebuilt from what the font itself says         *)
(* (tounicode.py, encoding.py); before it the diagnostics promise what can *)
(* be repaired (diagnostics.py).  One font; a text is a number, and 0      *)
(* stands for what no map may give: U+0000, a surrogate, a name nobody     *)
(* knows.                                                                  *)
(***************************************************************************)
EXTENDS Naturals, Sequences, FiniteSets, SequencesExt

VARIABLES
  stage,    \* "inspect", "collect", "strip", "rebuild", "done"
  font,     \* the font dictionary; its ToUnicode is a sequence of lines
  shown,    \* what each place of the document shows in the font
  used,     \* used_simple_codes
  promised, \* what diagnostics counted as repairable missing codes
  author    \* font and shown as they came

mapVars == <<stage, font, shown, used, promised, author>>

Codes == 0..2
LastText == 3                \* chr() ends here, as it does at 0x10FFFF
CHUNK == 2                   \* entries of a bfchar block (100)
Nothing == [c \in Codes |-> 0]

\* A page, an annotation's N, R or D stream and that of a field's kid that no page shows
\* are read; the streams of named states are not.
Places == {"page", "appearance", "kid", "state"}

(***************************************************************************)
(* The lines of a ToUnicode map.                                           *)
(***************************************************************************)
Line(op, groups, list) == [op |-> op, groups |-> groups, list |-> list]
Begin(op) == Line(op, <<>>, FALSE)
Entry(groups) == Line("entry", groups, FALSE)
List(groups)  == Line("entry", groups, TRUE)
EndBlock == Begin("end")

\* What an entry of a range says: <<code, text>>; a span that runs backwards says one bad thing.
RangeSays(line) ==
  LET g == line.groups
      targets == SubSeq(g, 3, Len(g))
      span == g[2] + 1 - g[1]
  IN IF g[2] < g[1] THEN <<<<g[1], 0>>>>
     ELSE IF line.list THEN [i \in 1..(IF span < Len(targets) THEN span ELSE Len(targets)) |-> <<g[1] + i - 1, targets[i]>>]
     ELSE [i \in 1..span |-> <<g[1] + i - 1, g[3] + i - 1>>]

Says(mode, line) ==
  CASE mode = "bfchar" /\ Len(line.groups) >= 2  -> <<<<line.groups[1], line.groups[2]>>>>
    [] mode = "bfrange" /\ Len(line.groups) >= 3 -> RangeSays(line)
    [] OTHER -> <<>>

Valid(t) == t \in 1..LastText

\* _parse_tounicode_map_details: a new block replaces an unfinished one, and what is not
\* valid is counted and leaves the map alone.
Heard(state, says) ==
  FoldLeft(LAMBDA s, p : IF Valid(p[2]) THEN [s EXCEPT !.map = [@ EXCEPT ![p[1]] = p[2]]]
                                        ELSE [s EXCEPT !.invalid = @ + 1],
           state, says)

Read(state, line) ==
  CASE line.op = "end" -> [state EXCEPT !.mode = "outside"]
    [] line.op \notin {"end", "entry"} -> [state EXCEPT !.mode = line.op]
    [] OTHER -> Heard(state, Says(state.mode, line))

Parse(lines) == FoldLeft(Read, [mode |-> "outside", map |-> Nothing, invalid |-> 0], lines)

\* _render_tounicode_cmap: bfchar blocks of at most CHUNK entries, by code.
Has(map) == {c \in Codes : map[c] # 0}
Render(map) ==
  LET entries == [i \in 1..Cardinality(Has(map)) |->
                    LET c == CHOOSE d \in Has(map) : Cardinality({e \in Has(map) : e < d}) = i - 1
                    IN Entry(<<c, map[c]>>)]
      blocks == (Len(entries) + CHUNK - 1) \div CHUNK
      last(i) == IF i * CHUNK < Len(entries) THEN i * CHUNK ELSE Len(entries)
  IN FlattenSeq([i \in 1..blocks |->
       <<Begin("bfchar")>> \o SubSeq(entries, (i - 1) * CHUNK + 1, last(i)) \o <<EndBlock>>])

Existing(f) == Parse(f.lines).map
Invalid(f)  == Parse(f.lines).invalid

(***************************************************************************)
(* What the font itself says of its codes.                                 *)
(***************************************************************************)
Simple(f) == f.subtype # "Type0"

\* _simple_font_auto_unicode_policy
Policy(f) ==
  CASE f.family -> "symbol"
    [] ~f.family /\ (f.base \/ f.names # <<>>) -> "explicit"
    [] ~f.family /\ ~f.base /\ f.names = <<>> /\ f.standard -> "standard14"
    [] ~f.family /\ ~f.base /\ f.names = <<>> /\ ~f.standard /\ f.subtype = "Type1" /\ f.program # Nothing -> "embedded_cff"
    [] OTHER -> "blocked"

Latin == [c \in Codes |-> c] \* a named encoding; like each of them it has no text for code 0

\* The glyph names of Differences run on from a first code.
Named(f) == [c \in Codes |-> IF f.names # <<>> /\ c >= f.first /\ c - f.first < Len(f.names)
                             THEN f.names[c - f.first + 1] ELSE "none"]
Over(map, names) == [c \in Codes |-> IF names[c] \in {"none", "opaque"} THEN map[c] ELSE LastText]

\* _simple_font_unicode_map.  A symbol font's own table knows its names; an opaque name of a
\* Type 3 font also hides the base encoding; a Type 1 font that says nothing is read as its kind.
SimpleMap(f) ==
  LET named == Named(f)
      explicit == [c \in Codes |-> IF f.subtype = "Type3" /\ named[c] = "opaque" THEN 0
                                   ELSE Over(IF f.base THEN Latin ELSE Nothing, named)[c]]
  IN CASE Policy(f) = "symbol" -> Over(f.program, named)
       [] explicit = Nothing /\ f.subtype = "Type1" /\ Policy(f) = "standard14" -> Latin
       [] explicit = Nothing /\ f.subtype = "Type1" /\ Policy(f) = "embedded_cff" -> f.program
       [] OTHER -> explicit

\* What the automatic repair takes from the font.  Of a Type 0 font it is the embedded program.
Generated(f) ==
  IF ~Simple(f) THEN f.program
  ELSE IF Policy(f) = "blocked" THEN Nothing ELSE SimpleMap(f)

Missing(f, codes) == {c \in codes : Existing(f)[c] = 0}

(***************************************************************************)
(* Inputs.                                                                 *)
(***************************************************************************)
Texts == {<<>>, <<0, 1>>, <<1, 2>>, <<0>>, <<2, 1, 0>>}

Streams == {
  <<>>,                                                                    \* no ToUnicode
  <<Begin("bfchar"), Entry(<<1, 2>>), EndBlock>>,
  <<Begin("bfchar"), Entry(<<2, 0>>), Entry(<<1, 1>>), EndBlock, Entry(<<0, 1>>)>>,
  <<Begin("bfrange"), Entry(<<0, 2, 0>>), EndBlock>>,
  <<Begin("bfrange"), Entry(<<0, 2, 2>>)>>,                                \* past the last text
  <<Begin("bfrange"), List(<<1, 2, 2, 0, 3>>), Entry(<<2, 1, 1>>), EndBlock>>,
  <<Begin("bfchar"), Entry(<<0, 1>>), Begin("bfrange"), Entry(<<2, 2, 2>>), Entry(<<1, 1>>)>> }

Programs == {Nothing, [Nothing EXCEPT ![1] = 2], [Nothing EXCEPT ![0] = 1, ![2] = 3]}
Names == {<<>>, <<"opaque">>, <<"known", "opaque">>}

Fonts == [subtype : {"Type0"}, family : {FALSE}, base : {FALSE}, names : {<<>>}, first : {0},
          standard : {FALSE}, program : Programs, lines : Streams]
    \cup [subtype : {"Type1", "TrueType", "Type3"}, family : BOOLEAN, base : BOOLEAN, names : Names,
          first : {0, 1}, standard : BOOLEAN, program : Programs, lines : Streams]

Init ==
  /\ stage = "inspect"
  /\ font \in Fonts
  /\ font.names = <<>> => font.first = 0
  /\ font.subtype = "Type3" => ~font.standard /\ ~font.family
  /\ font.standard => font.program = Nothing
  /\ \E p \in Texts, a \in {<<0>>, <<2>>}, k \in {<<>>, <<0, 1>>} :
       shown = [place \in Places |-> CASE place = "page" -> p [] place = "appearance" -> a
                                      [] place = "kid" -> k [] OTHER -> <<0, 1>>]
  /\ used = {} /\ promised = {}
  /\ author = [font |-> font, shown |-> shown]

(***************************************************************************)
(* The steps.                                                              *)
(***************************************************************************)
CodesIn(places) == UNION {ToSet(shown[p]) : p \in places}

\* _inspect_font_diagnostics reads the pages, and for a simple font only if it has no
\* ToUnicode, an invalid entry or a rule against it.
Flawed == font.lines = <<>> \/ Invalid(font) > 0
Targeted(rule) == Simple(font) /\ (Flawed \/ rule # "none")
Repairable == Missing(font, CodesIn({"page"})) \cap Has(Generated(font))

\* _unicode_repair_gate_from_diagnostics: something is wrong, the policy allows the repair
\* and there is something to repair it with.
Safe(rule) ==
  /\ Flawed \/ rule = "7.21.7-2" \/ (Targeted(rule) /\ Missing(font, CodesIn({"page"})) # {})
  /\ Policy(font) # "blocked"
  /\ Invalid(font) > 0 \/ (Targeted(rule) /\ Repairable # {})

Inspect(rule) ==
  /\ stage = "inspect"
  /\ promised' = IF Targeted(rule) /\ Safe(rule) THEN Repairable ELSE {}
  /\ stage' = "collect"
  /\ UNCHANGED <<font, shown, used, author>>

\* _collect_used_simple_font_codes, with those of appearances.
Collected == {"page", "appearance", "kid"}
Collect ==
  /\ stage = "collect"
  /\ used' = IF Simple(font) THEN CodesIn(Collected) ELSE {}
  /\ stage' = "strip"
  /\ UNCHANGED <<font, shown, promised, author>>

\* _simple_font_zero_byte_repair_candidate: zero is the only code without a text.
ZeroOnly ==
  /\ font.subtype \in {"Type1", "TrueType"} /\ 0 \in used
  /\ Missing(font, used) \ Has(Generated(font)) = {0}

\* _sanitize_simple_font_zero_bytes, which does not go down to the kids of a field as the
\* collection did; and zero is no longer used.
Sanitized == {"page", "appearance"}
Strip ==
  /\ stage = "strip"
  /\ IF ZeroOnly
     THEN /\ shown' = [p \in Places |-> IF p \in Sanitized THEN SelectSeq(shown[p], LAMBDA c : c # 0) ELSE shown[p]]
          /\ used' = used \ {0}
     ELSE UNCHANGED <<shown, used>>
  /\ stage' = "rebuild"
  /\ UNCHANGED <<font, promised, author>>

OnTop(map, top) == [c \in Codes |-> IF top[c] # 0 THEN top[c] ELSE map[c]]

\* _rebuild_type0_tounicode: the program's text replaces the author's.
Type0Target == OnTop(Existing(font), Generated(font))

\* _rebuild_simple_font_tounicode: the texts of the codes in use; of a symbol or Type 3
\* font the author's texts stay, and stand.
SimpleTarget ==
  LET generated == [c \in Codes |-> IF used = {} \/ c \in used THEN Generated(font)[c] ELSE 0]
  IN IF font.family \/ font.subtype = "Type3" THEN OnTop(generated, Existing(font)) ELSE generated

\* Only what is missing or wrong, can be said and says something new is written.
Rebuilt ==
  IF Simple(font)
  THEN /\ Missing(font, used) # {} \/ Invalid(font) > 0
       /\ Generated(font) # Nothing \/ Invalid(font) > 0
       /\ SimpleTarget # Nothing \/ Invalid(font) > 0
       /\ SimpleTarget # Existing(font) \/ Invalid(font) > 0
  ELSE /\ Type0Target # Nothing
       /\ Type0Target # Existing(font) \/ Invalid(font) > 0

Rebuild ==
  /\ stage = "rebuild"
  /\ font' = [font EXCEPT !.lines = IF ~Rebuilt THEN @ ELSE Render(IF Simple(font) THEN SimpleTarget ELSE Type0Target)]
  /\ stage' = "done"
  /\ UNCHANGED <<shown, used, promised, author>>

Next == (\E rule \in {"none", "7.21.7-1", "7.21.7-2"} : Inspect(rule)) \/ Collect \/ Strip \/ Rebuild

Spec == Init /\ [][Next]_mapVars

(***************************************************************************)
(* Properties.                                                             *)
(***************************************************************************)
\* What the diagnostics called repairable has its text when the repair has run, although
\* the repair looks at more places, takes bytes away and drops texts nobody uses.
PromiseKept ==
  stage = "done" => \A c \in promised : Existing(font)[c] = Generated(author.font)[c]

\* A byte is taken out only when it had no text, by the author's map or the font's own
\* word, and no other byte with it; the streams nobody reads stay.
ZerosWereSilent ==
  \A p \in Places :
    /\ SelectSeq(shown[p], LAMBDA c : c # 0) = SelectSeq(author.shown[p], LAMBDA c : c # 0)
    /\ shown[p] # author.shown[p] => /\ p \in Sanitized
                                     /\ Existing(author.font)[0] = 0 /\ Generated(author.font)[0] = 0

\* No text is invented; symbol and Type 3 fonts keep the author's texts, and a code of a
\* Type 0 font that had a text has one.
AuthorIsHeard ==
  stage = "done" =>
    \A c \in Codes :
      /\ Existing(font)[c] \in {0, Existing(author.font)[c], Generated(author.font)[c]}
      /\ Existing(author.font)[c] # 0 =>
           /\ font.subtype = "Type0" => Existing(font)[c] # 0
           /\ font.family \/ font.subtype = "Type3" => Existing(font)[c] = Existing(author.font)[c]

MapsHold == PromiseKept /\ ZerosWereSilent /\ AuthorIsHeard
===============================================================================
