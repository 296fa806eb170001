------------------------------ MODULE FontGlyphs ------------------------------
(***************************************************************************)
(* How references to .notdef are repaired (pipeline/fonts): codes of a     *)
(* composite font without a glyph get the glyph of their text (notdef.py), *)
(* then a form that is drawn under several text states is rewritten once   *)
(* for all of them, or not at all (notdef_content.py).  A code has two     *)
(* bytes in a composite font and one in a TrueType font; widths are in     *)
(* text space units, so that a size scales them.                           *)
(***************************************************************************)
EXTENDS Naturals, Sequences, FiniteSets, SequencesExt

VARIABLES
  stage,   \* "dicts", "first", "second", "write", "done"
  face,    \* the font with its program
  form,    \* the instructions of the form
  draws,   \* the text states in which it is drawn, in this order
  decided, \* actions: what to do about each code asked for
  rewrite, \* plans[form]: [state, out], "none" yet, "one" or "differ"
  asIs     \* face and form as they came

glyphVars == <<stage, face, form, draws, decided, rewrite, asIs>>

Codes == 0..2
AllCodes == 0..6      \* with the aliases that are added
SPACE == 2            \* stands for 32, the code word spacing belongs to
MaxOf(S) == CHOOSE m \in S : \A n \in S : n <= m

\* A glyph is its outline; "hollow" is an empty box, "mark" any other ink of .notdef.
Gid(f, c) == IF f.map = <<>> THEN c ELSE IF c < Len(f.map) THEN f.map[c + 1] ELSE 0
Outline(f, c) == IF Gid(f, c) < Len(f.glyphs) THEN f.glyphs[Gid(f, c) + 1] ELSE "empty"
Known(f) == {c \in AllCodes : f.text[c] # "none"}

(***************************************************************************)
(* repair_cid_notdef.                                                      *)
(***************************************************************************)
Boxes == {"box", "private"}

\* A hollow .notdef under a square or private text is the square: the program's own, or a
\* copy of the outline as a new glyph.
WithSquare(f) ==
  IF f.cmap["box"] # 0 THEN f
  ELSE [f EXCEPT !.glyphs = Append(@, "hollow"), !.cmap = [@ EXCEPT !["box"] = Len(f.glyphs)]]

\* s.to: the glyph of each code that gets one.
GlyphFor(s, c) ==
  LET t == s.f.text[c]
      give(f, text) == [f |-> [f EXCEPT !.text = [@ EXCEPT ![c] = text]], to |-> s.to \cup {<<c, f.cmap[text]>>}]
  IN CASE t = "none" \/ Gid(s.f, c) # 0 -> s
       [] t # "none" /\ Gid(s.f, c) = 0 /\ s.f.cmap[t] # 0 -> give(s.f, t)
       [] t \in Boxes /\ Gid(s.f, c) = 0 /\ s.f.cmap[t] = 0 /\ s.f.glyphs[1] = "hollow" -> give(WithSquare(s.f), "box")
       [] OTHER -> s

\* Identity is written out before single codes are given another glyph.
Materialized(f, to, count) ==
  [i \in 1..count |->
     IF \E p \in to : p[1] = i - 1 THEN (CHOOSE p \in to : p[1] = i - 1)[2] ELSE Gid(f, i - 1)]

Found(f) == FoldLeft(GlyphFor, [f |-> f, to |-> {}], <<0, 1, 2>>)

Dicts ==
  /\ stage = "dicts"
  /\ LET found == Found(face)
         count == MaxOf({Len(found.f.glyphs), Len(face.map)} \cup {p[1] + 1 : p \in found.to})
     IN face' = IF ~face.cid \/ found.to = {} THEN face
                ELSE [found.f EXCEPT !.map = Materialized(face, found.to, count)]
  /\ stage' = "first"
  /\ UNCHANGED <<form, draws, decided, rewrite, asIs>>

(***************************************************************************)
(* repair_notdef_content.  f is [face, decided]: what is decided of a code *)
(* stays, and giving code zero an alias changes the font.                  *)
(***************************************************************************)
Decision(do, to) == [do |-> do, to |-> to]
Keep == Decision("keep", 0)
Unasked == [c \in AllCodes |-> Decision("ask", 0)]

Alias(f) == MaxOf({Len(f.glyphs), Len(f.map)} \cup Known(f) \cup f.wide) + 1

WithAlias(f) ==
  LET a == Alias(f) IN
  [f EXCEPT !.map = [i \in 1..(a + 1) |-> IF i = a + 1 THEN Gid(f, 0) ELSE IF i <= Len(f.map) THEN f.map[i] ELSE 0],
            !.width = [@ EXCEPT ![a] = f.width[0]], !.wide = @ \cup {a},
            !.text = [@ EXCEPT ![a] = f.text[0]]]

\* Another code of a TrueType font with the same text, the same width and a glyph.
Same(f, c) == {d \in Codes : Gid(f, d) # 0 /\ f.text[c] # "none" /\ f.text[d] = f.text[c] /\ f.width[d] = f.width[c]}

Act(f, c) ==
  CASE Gid(f, c) = 0 /\ f.glyphs[1] = "empty" -> [face |-> f, what |-> Decision("remove", 0)]
    [] f.cid /\ c = 0 /\ Gid(f, c) # 0 /\ f.text[0] # "none" -> [face |-> WithAlias(f), what |-> Decision("remap", Alias(f))]
    [] ~f.cid /\ Gid(f, c) = 0 /\ f.glyphs[1] # "empty" /\ Same(f, c) # {} ->
         [face |-> f, what |-> Decision("remap", CHOOSE d \in Same(f, c) : \A e \in Same(f, c) : d <= e)]
    [] OTHER -> [face |-> f, what |-> Keep]

Asked(f, c) ==
  IF f.decided[c].do # "ask" THEN f
  ELSE LET act == Act(f.face, c) IN [face |-> act.face, decided |-> [f.decided EXCEPT ![c] = act.what]]

Glyph(c) == [move |-> FALSE, n |-> c]
Move(n)  == [move |-> TRUE, n |-> n]  \* how far a number of TJ moves on, before the size scales it

\* What the text state adds after a glyph.
Extra(f, s, c) == s.tc + (IF ~f.cid /\ c = SPACE THEN s.tw ELSE 0)

\* One part of a text operand; p is [font, parts, changed].
Part(p, x, s) ==
  LET font == IF x.move THEN p.font ELSE Asked(p.font, x.n)
      d == font.decided[x.n]
      extra == Extra(font.face, s, x.n)
  IN CASE x.move \/ d.do = "keep" \/ (d.do = "remove" /\ s.size = 0 /\ extra # 0) ->
            [font |-> font, parts |-> Append(p.parts, x), changed |-> p.changed]
       [] ~x.move /\ d.do = "remap" ->
            [font |-> font, parts |-> Append(p.parts, Glyph(d.to)), changed |-> TRUE]
       [] OTHER ->
            [font |-> font, changed |-> TRUE,
             parts |-> Append(p.parts, Move(font.face.width[x.n] + (IF s.size = 0 THEN 0 ELSE extra \div s.size)))]

Set(op, n) == [op |-> op, n |-> n, parts |-> <<>>]
Show(parts) == [op |-> "TJ", n |-> 0, parts |-> parts]
\* The quote operator: word and character spacing n, a new line, the text.
Quote(n, parts) == [op |-> "quote", n |-> n, parts |-> parts]

\* The text state after an instruction; the stack is that of q and Q.
After(s, stack, i) ==
  CASE i.op = "Q" /\ stack # <<>> -> Last(stack)
    [] i.op = "Tf" -> [s EXCEPT !.on = TRUE, !.size = i.n]
    [] i.op = "Tc" -> [s EXCEPT !.tc = i.n]
    [] i.op = "Tw" -> [s EXCEPT !.tw = i.n]
    [] i.op = "quote" -> [s EXCEPT !.tc = i.n, !.tw = i.n]
    [] OTHER -> s

Stacked(s, stack, i) ==
  CASE i.op = "q" -> Append(stack, s)
    [] i.op = "Q" /\ stack # <<>> -> Front(stack)
    [] OTHER -> stack

\* One instruction; r is [font, s, stack, out].
Rewritten(r, i) ==
  LET s == After(r.s, r.stack, i)
      shows == i.op \in {"TJ", "quote"} /\ r.s.on
      p == FoldLeft(LAMBDA q, x : Part(q, x, s), [font |-> r.font, parts |-> <<>>, changed |-> FALSE], i.parts)
      line == IF i.op = "quote" THEN <<Set("Tw", i.n), Set("Tc", i.n), Set("T*", 0)>> ELSE <<>>
  IN [font |-> IF shows THEN p.font ELSE r.font,
      s |-> IF shows \/ i.op # "quote" THEN s ELSE r.s,
      stack |-> Stacked(r.s, r.stack, i),
      out |-> r.out \o (IF shows /\ p.changed THEN line \o <<Show(p.parts)>> ELSE <<i>>)]

Rewriting(font, state) ==
  FoldLeft(Rewritten, [font |-> font, s |-> state, stack |-> <<>>, out |-> <<>>], form)

\* Mutant: the first drawing decides.
Agreed_FirstStands(out) == IF rewrite.state = "none" THEN [state |-> "one", out |-> out] ELSE rewrite
\* What the form becomes must be the same each time it is drawn.
Agreed(out) ==
  CASE rewrite.state = "none" -> [state |-> "one", out |-> out]
    [] rewrite.state = "one" /\ rewrite.out # out -> [state |-> "differ", out |-> <<>>]
    [] OTHER -> rewrite

\* rewrite(): the form as it is drawn in one state.
Draw(n) ==
  LET r == Rewriting([face |-> face, decided |-> decided], draws[n])
  IN face' = r.font.face /\ decided' = r.font.decided /\ rewrite' = Agreed(r.out)

DrawFirst  == stage = "first"  /\ Draw(1) /\ stage' = "second" /\ UNCHANGED <<form, draws, asIs>>
DrawSecond == stage = "second" /\ Draw(2) /\ stage' = "write"  /\ UNCHANGED <<form, draws, asIs>>

Write ==
  /\ stage = "write"
  /\ form' = IF rewrite.state = "differ" THEN form ELSE rewrite.out
  /\ stage' = "done"
  /\ UNCHANGED <<face, draws, decided, rewrite, asIs>>

Next == Dicts \/ DrawFirst \/ DrawSecond \/ Write

(***************************************************************************)
(* Inputs.                                                                 *)
(***************************************************************************)
Cmap(f) == [t \in {"a", "b", "box", "private"} |->
              IF \E g \in 2..Len(f) : f[g] = t THEN (CHOOSE g \in 2..Len(f) : f[g] = t) - 1 ELSE 0]

Face(cid, map, glyphs, text, width) ==
  [cid |-> cid, map |-> map, glyphs |-> glyphs, cmap |-> Cmap(glyphs),
   text |-> [c \in AllCodes |-> IF c \in Codes THEN text[c + 1] ELSE "none"],
   width |-> [c \in AllCodes |-> IF c = 1 THEN width ELSE 1], wide |-> {1}]

\* The codes of a TrueType font without a glyph are those its encoding does not reach.
Maps == {<<>>, <<2, 1, 0>>, <<0, 1, 0>>, <<1, 0, 2>>}
Programs == {<<n, "a", "b">> : n \in {"empty", "hollow", "mark"}} \cup {<<"hollow", "a", "box">>}
Meanings == {<<"a", "a", "b">>, <<"none", "b", "a">>, <<"private", "a", "box">>, <<"b", "a", "a">>}

Forms ==
  {<<Set("q", 0), pre, Show(<<Glyph(c), Glyph(1)>>), post, Show(<<Glyph(2), Move(1), Glyph(c)>>)>> :
     c \in {0, 2},
     pre \in {Set("BT", 0), Set("Tf", 2), Set("Tc", 2), Set("Tw", 2)},
     post \in {Set("Q", 0), Quote(2, <<Glyph(0), Glyph(1)>>)}}

State(on, size, tc, tw) == [on |-> on, size |-> size, tc |-> tc, tw |-> tw]
\* Once, twice alike, and in states that differ in one thing or in more.
Plain == State(TRUE, 1, 0, 0)
Draws == {<<Plain, Plain>>, <<Plain, State(TRUE, 1, 2, 0)>>, <<State(TRUE, 1, 0, 2), Plain>>,
          <<State(TRUE, 2, 2, 0), State(TRUE, 0, 2, 2)>>, <<State(TRUE, 0, 2, 2), State(TRUE, 0, 2, 2)>>,
          <<State(FALSE, 0, 0, 0), Plain>>}

Init ==
  /\ stage = "dicts"
  /\ \E cid \in BOOLEAN, map \in Maps, glyphs \in Programs, text \in Meanings, w \in {1, 2} :
       face = Face(cid, map, glyphs, text, w)
  /\ form \in Forms
  /\ draws \in Draws
  /\ decided = Unasked
  /\ rewrite = [state |-> "none", out |-> <<>>]
  /\ asIs = [face |-> face, form |-> form]

Spec == Init /\ [][Next]_glyphVars

(***************************************************************************)
(* What is seen.  A viewer keeps a position and shows what has ink there.  *)
(***************************************************************************)
Put(f, s, v, x) ==
  IF x.move THEN [v EXCEPT !.x = @ + s.size * x.n]
  ELSE [v EXCEPT !.x = @ + s.size * f.width[x.n] + Extra(f, s, x.n),
                 !.ink = IF Outline(f, x.n) = "empty" THEN @
                         ELSE Append(@, [line |-> v.line, x |-> v.x, outline |-> Outline(f, x.n), text |-> f.text[x.n]])]

Seen(f, r, i) ==
  LET s == After(r.s, r.stack, i)
      v == IF i.op \in {"quote", "T*"} THEN [r.v EXCEPT !.line = @ + 1, !.x = 0] ELSE r.v
  IN [s |-> s, stack |-> Stacked(r.s, r.stack, i),
      v |-> IF s.on THEN FoldLeft(LAMBDA w, x : Put(f, s, w, x), v, i.parts) ELSE v]

View(f, instructions, state) ==
  FoldLeft(LAMBDA r, i : Seen(f, r, i),
           [s |-> state, stack |-> <<>>, v |-> [line |-> 0, x |-> 0, ink |-> <<>>]], instructions).v

(***************************************************************************)
(* Properties.                                                             *)
(***************************************************************************)
NotdefInk == {"hollow", "mark"}

\* Each time the form is drawn, its text ends where it ended and every glyph is where it was;
\* a glyph that was missing may now be that of its text, and no ink is taken away.
Before(n) == View(asIs.face, asIs.form, draws[n])
Now(n)    == View(face, form, draws[n])

\* The program's glyph of a text, the glyph of a code with that text, or the hollow square.
Drawn(text) == {text, "hollow"} \cup {Outline(asIs.face, c) : c \in {d \in Codes : asIs.face.text[d] = text}}

SameOrFound(old, new) ==
  /\ new.line = old.line /\ new.x = old.x
  /\ \/ new.outline = old.outline /\ new.text = old.text
     \/ old.outline \in NotdefInk /\ new.text \in {old.text, "box"} /\ new.outline \in Drawn(new.text)

\* Except, under word spacing, where a space gets another code or another code that of the space.
SpaceMoves ==
  /\ ~face.cid /\ \E c \in Codes : decided[c].do = "remap" /\ (c = SPACE) # (decided[c].to = SPACE)
  /\ \E n \in 1..2 : draws[n].tw # 0 \/ \E i \in ToSet(asIs.form) : i.op \in {"Tw", "quote"}

InkKept ==
  stage = "done" /\ ~SpaceMoves =>
    \A n \in 1..2 :
      /\ Now(n).x = Before(n).x /\ Now(n).line = Before(n).line
      /\ \A old \in ToSet(Before(n).ink) : \E new \in ToSet(Now(n).ink) : SameOrFound(old, new)

\* Another repair finds nothing more in the form it rewrote.
RepairedOnce ==
  stage = "done" /\ rewrite.state = "one" =>
    \A n \in 1..2 : Rewriting([face |-> face, decided |-> Unasked], draws[n]).out = form

GlyphsHold == InkKept /\ RepairedOnce
=============================================================================
