------------------------------- MODULE TextProofs -------------------------------
(***************************************************************************)
(* Proofs about the text of a document: OCR, for any number of pages, page *)
(* processes, temperatures and retries.                                    *)
(***************************************************************************)
EXTENDS MCText, TLAPS

------------------------------------------------------------------------------
(* OCR: the inductive invariant *)

\* A page pays for an answer of each temperature it has tried, and sends after a refusal
\* only the request it was about to send.
PageOK(state, sent, metered) ==
  /\ DOMAIN state = {"st", "gen", "tries"}
  /\ state.st \in {"none", "waiting", "checking", "sending", "requesting", "answered", "fallback", "read", "broken"}
  /\ state.gen \in Nat /\ state.gen < Temperatures
  /\ metered \in Nat /\ metered <= Temperatures
  /\ state.st \in {"waiting", "checking", "sending", "requesting"} => metered <= state.gen
  /\ state.st = "answered" => metered <= state.gen + 1
  /\ sent = 0 \/ (sent = 1 /\ receipts # {} /\ state.st \in {"requesting", "fallback", "read", "broken", "none"})

\* The text of the file before a pass, after the pass over pages that must be rasterized, and
\* at the end.
TextBefore == text = [p \in Pages |-> O!Carried[kind[p]]]
TextBetween == text = [p \in Pages |-> IF p \in O!Forced THEN {"read"} ELSE O!Carried[kind[p]]]
TextAfter ==
  \A p \in Pages :
    /\ kind[p] \in {"scan", "outline", "garbled"} => "read" \in text[p]
    /\ kind[p] = "garbled" => text[p] = {"read"}
    /\ p \notin O!Forced => O!Carried[kind[p]] \subseteq text[p]

Rest == (O!NoText \cup O!Imaged) \ O!Forced

OcrOK ==
  /\ kind \in [Pages -> O!Kinds]
  /\ stage \in {"classify", "detect", "probe", "choose", "ocr", "done"}
  /\ stage # "done" => outcome = "none"
  /\ stage \in {"classify", "detect", "probe", "choose"} => TextBefore
  /\ stage = "ocr" => \/ passes = O!Passes /\ TextBefore
                      \/ O!Forced # {} /\ Rest # {} /\ passes = <<O!Pass("redo", Rest)>> /\ TextBetween
  /\ outcome = "complete" => TextAfter /\ told = {}
  /\ proc \in {"none", "running"}
  /\ proc = "running" => stage = "ocr"
  /\ told = receipts
  /\ proc = "none" /\ stage # "done" => receipts = {}
  /\ DOMAIN page = Pages /\ DOMAIN late = Pages /\ DOMAIN paid = Pages
  /\ \A p \in Pages : PageOK(page[p], late[p], paid[p])

OcrInv == part = "ocr" => OcrOK

------------------------------------------------------------------------------
(* OCR: the passes *)

\* The text of each kind of page.
LEMMA CarriedIs ==
  \A k \in O!Kinds : O!Carried[k] = IF k \in {"text", "imaged", "garbled"} THEN {"native"}
                                    ELSE IF k = "layered" THEN {"layer"} ELSE {}
  <1> TAKE k \in O!Kinds
  <1>1. O!Carried[k] = CASE k \in {"text", "imaged", "garbled"} -> {"native"} [] k = "layered" -> {"layer"} [] OTHER -> {}
    BY DEF O!Carried
  <1> QED
    BY <1>1

\* What each mode leaves of a page's text.
LEMMA AfterIs ==
  ASSUME NEW t
  PROVE  /\ O!After("force", t) = {"read"}
         /\ O!After("redo", t) = {"read"} \cup (t \ {"layer"})
         /\ O!After("skip", t) = {"read"} \cup t
  BY DEF O!After

\* Pages that must be rasterized come first and alone; a pass without any is of all pages or of
\* those that were chosen.
LEMMA PassesAre ==
  O!Passes = IF O!Forced # {}
               THEN IF Rest = {} THEN <<O!Pass("force", O!Forced)>>
                    ELSE <<O!Pass("force", O!Forced), O!Pass("redo", Rest)>>
             ELSE IF O!Chosen = {} THEN <<O!Pass("skip", Pages)>> ELSE <<O!Pass("redo", Rest)>>
  <1>1. O!Chosen = {} \/ O!Chosen = O!NoText \cup O!Imaged \cup O!Forced
    BY DEF O!Chosen
  <1>2. O!Forced # {} => O!Chosen = O!NoText \cup O!Imaged \cup O!Forced
    BY DEF O!Chosen
  <1>3. CASE O!Forced = {}
    <2>1. O!Passes = <<O!Pass(IF O!Chosen # {} THEN "redo" ELSE "skip", IF O!Chosen = {} THEN Pages ELSE O!Chosen)>>
      BY <1>3 DEF O!Passes
    <2>2. O!Chosen # {} => O!Chosen = Rest
      BY <1>1, <1>3 DEF Rest
    <2> QED
      BY <1>3, <2>1, <2>2
  <1>4. CASE O!Forced # {}
    <2>1. O!Chosen \ O!Forced = Rest /\ O!Chosen # {}
      BY <1>2, <1>4 DEF Rest
    <2>2. O!Passes = <<O!Pass("force", O!Forced)>> \o (IF Rest = {} THEN <<>> ELSE <<O!Pass("redo", Rest)>>)
      BY <1>4, <2>1 DEF O!Passes
    <2> QED
      BY <1>4, <2>2
  <1> QED
    BY <1>3, <1>4

\* What kinds of pages the sets hold.
LEMMA KindsOfPages ==
  ASSUME kind \in [Pages -> O!Kinds]
  PROVE  \A p \in Pages :
           /\ kind[p] \in O!Kinds
           /\ p \in O!Forced <=> kind[p] \in {"outline", "garbled"}
           /\ p \in Rest <=> kind[p] \in {"scan", "blank", "imaged"}
           /\ O!Carried[kind[p]] = {} <=> kind[p] \in {"scan", "outline", "blank"}
  <1> TAKE p \in Pages
  <1>1. kind[p] \in O!Kinds
    OBVIOUS
  <1>2. p \in O!Forced <=> kind[p] \in {"outline", "garbled"}
    BY DEF O!Forced, O!Outlined, O!Garbled, O!Of
  <1>3. O!Carried[kind[p]] = {} <=> kind[p] \in {"scan", "outline", "blank"}
    BY <1>1, CarriedIs DEF O!Kinds
  <1>4. p \in O!NoText <=> O!Carried[kind[p]] = {}
    BY DEF O!NoText, O!TextPages
  <1>5. p \in O!Imaged <=> kind[p] = "imaged"
    BY DEF O!Imaged, O!Of
  <1> QED
    BY <1>1, <1>2, <1>3, <1>4, <1>5 DEF Rest

\* What a pass makes of the text: the pages that need it are read, what carries text keeps it.
LEMMA PassText ==
  ASSUME kind \in [Pages -> O!Kinds], stage = "ocr",
         \/ passes = O!Passes /\ TextBefore
         \/ O!Forced # {} /\ Rest # {} /\ passes = <<O!Pass("redo", Rest)>> /\ TextBetween,
         NEW new, new = [p \in Pages |-> IF p \in O!Reads(Head(passes))
                                         THEN O!After(Head(passes).mode, text[p]) ELSE text[p]]
  PROVE  \/ /\ Tail(passes) = <<>>
            /\ \A p \in Pages :
                 /\ kind[p] \in {"scan", "outline", "garbled"} => "read" \in new[p]
                 /\ kind[p] = "garbled" => new[p] = {"read"}
                 /\ p \notin O!Forced => O!Carried[kind[p]] \subseteq new[p]
         \/ /\ O!Forced # {} /\ Rest # {} /\ Tail(passes) = <<O!Pass("redo", Rest)>>
            /\ new = [p \in Pages |-> IF p \in O!Forced THEN {"read"} ELSE O!Carried[kind[p]]]
  <1> DEFINE Done(q) == /\ kind[q] \in {"scan", "outline", "garbled"} => "read" \in new[q]
                        /\ kind[q] = "garbled" => new[q] = {"read"}
                        /\ q \notin O!Forced => O!Carried[kind[q]] \subseteq new[q]
  <1>1. ASSUME passes = O!Passes, TextBefore, O!Forced # {}
        PROVE  /\ new = [p \in Pages |-> IF p \in O!Forced THEN {"read"} ELSE O!Carried[kind[p]]]
               /\ Tail(passes) = IF Rest = {} THEN <<>> ELSE <<O!Pass("redo", Rest)>>
    <2>1. Head(passes) = O!Pass("force", O!Forced) /\ Tail(passes) = IF Rest = {} THEN <<>> ELSE <<O!Pass("redo", Rest)>>
      BY <1>1, PassesAre
    <2>2. O!Reads(Head(passes)) = O!Forced /\ Head(passes).mode = "force"
      BY <2>1 DEF O!Reads, O!Pass
    <2> QED
      BY <1>1, <2>1, <2>2, AfterIs DEF TextBefore
  <1>2. ASSUME passes = O!Passes, TextBefore, O!Forced = {}, O!Chosen = {}
        PROVE  Tail(passes) = <<>> /\ \A q \in Pages : Done(q)
    <2>1. Head(passes) = O!Pass("skip", Pages) /\ Tail(passes) = <<>>
      BY <1>2, PassesAre
    <2>2. O!Reads(Head(passes)) = {q \in Pages : text[q] = {}} /\ Head(passes).mode = "skip"
      BY <2>1 DEF O!Reads, O!Pass
    <2>3. ASSUME NEW q \in Pages PROVE Done(q)
      <3>1. new[q] = IF O!Carried[kind[q]] = {} THEN {"read"} \cup O!Carried[kind[q]] ELSE O!Carried[kind[q]]
        BY <1>2, <2>2, AfterIs DEF TextBefore
      <3> QED
        BY <1>2, <3>1, KindsOfPages
    <2> QED
      BY <2>1, <2>3
  <1>3. ASSUME Head(passes) = O!Pass("redo", Rest), Tail(passes) = <<>>,
               \A q \in Pages : text[q] = IF q \in O!Forced THEN {"read"} ELSE O!Carried[kind[q]]
        PROVE  \A q \in Pages : Done(q)
    <2>1. O!Reads(Head(passes)) = Rest /\ Head(passes).mode = "redo"
      BY <1>3 DEF O!Reads, O!Pass
    <2> TAKE q \in Pages
    <2>2. new[q] = IF q \in Rest THEN {"read"} \cup (text[q] \ {"layer"}) ELSE text[q]
      BY <2>1, AfterIs
    <2>3. q \in Rest => q \notin O!Forced
      BY DEF Rest
    <2>4. CASE q \in Rest
      <3>1. new[q] = {"read"} \cup (O!Carried[kind[q]] \ {"layer"})
        BY <1>3, <2>2, <2>3, <2>4
      <3>2. kind[q] \in {"scan", "blank", "imaged"} /\ "layer" \notin O!Carried[kind[q]]
        BY <2>4, KindsOfPages, CarriedIs
      <3> QED
        BY <3>1, <3>2
    <2>5. CASE q \notin Rest
      BY <1>3, <2>2, <2>5, KindsOfPages
    <2> QED
      BY <2>4, <2>5
  <1>4. CASE passes = O!Passes /\ TextBefore /\ O!Forced # {}
    <2>1. CASE Rest = {}
      <3>1. \A q \in Pages : Done(q)
        <4> TAKE q \in Pages
        <4>1. new[q] = IF q \in O!Forced THEN {"read"} ELSE O!Carried[kind[q]]
          BY <1>1, <1>4
        <4>2. q \notin Rest
          BY <2>1
        <4> QED
          BY <4>1, <4>2, KindsOfPages
      <3> QED
        BY <1>1, <1>4, <2>1, <3>1
    <2> QED
      BY <1>1, <1>4, <2>1
  <1>5. CASE passes = O!Passes /\ TextBefore /\ O!Forced = {} /\ O!Chosen # {}
    <2>1. Head(passes) = O!Pass("redo", Rest) /\ Tail(passes) = <<>>
      BY <1>5, PassesAre
    <2>2. \A q \in Pages : text[q] = IF q \in O!Forced THEN {"read"} ELSE O!Carried[kind[q]]
      BY <1>5 DEF TextBefore
    <2> QED
      BY <1>3, <2>1, <2>2
  <1>6. CASE O!Forced # {} /\ Rest # {} /\ passes = <<O!Pass("redo", Rest)>> /\ TextBetween
    <2>1. Head(passes) = O!Pass("redo", Rest) /\ Tail(passes) = <<>>
      BY <1>6
    <2>2. \A q \in Pages : text[q] = IF q \in O!Forced THEN {"read"} ELSE O!Carried[kind[q]]
      BY <1>6 DEF TextBetween
    <2> QED
      BY <1>3, <2>1, <2>2
  <1> QED
    BY <1>2, <1>4, <1>5, <1>6

------------------------------------------------------------------------------
(* OCR: the steps *)

\* The kinds of the pages, and with them the passes, stay what they are.
LEMMA KindStays ==
  ASSUME UNCHANGED <<kind, scanLike>>
  PROVE  O!Passes' = O!Passes /\ Rest' = Rest /\ O!Forced' = O!Forced
  BY DEF O!Passes, O!Chosen, O!Forced, O!Imaged, O!Outlined, O!Garbled, O!Of, O!NoText, O!TextPages, O!Type,
         O!ScanWithText, O!Scans, O!Heavy, Rest

\* The steps before OCR leave the file's text as it was, and choose the passes.
LEMMA BeforeOK ==
  ASSUME OcrOK, O!Classify \/ O!Detect \/ O!Probe \/ O!Choose
  PROVE  OcrOK'
  <1>1. UNCHANGED <<kind, scanLike, proc, page, receipts, late, paid, told, text>>
    BY DEF O!Classify, O!Detect, O!Probe, O!Choose, O!procVars
  <1>2. stage \in {"classify", "detect", "probe", "choose"} /\ proc = "none"
    BY DEF OcrOK, O!Classify, O!Detect, O!Probe, O!Choose
  <1>3. \/ stage' \in {"detect", "probe", "choose"} /\ outcome' = outcome
        \/ stage' = "ocr" /\ passes' = O!Passes /\ outcome' = outcome
        \/ stage' = "done" /\ outcome' = "skipped"
    BY DEF O!Classify, O!Detect, O!Probe, O!Choose
  <1>4. O!Passes' = O!Passes
    BY <1>1, KindStays
  <1>5. TextBefore => TextBefore'
    BY <1>1 DEF TextBefore
  <1>6. \A p \in Pages : PageOK(page[p], late[p], paid[p])'
    BY <1>1 DEF OcrOK, PageOK
  <1>7. outcome = "none" /\ TextBefore /\ told = receipts /\ receipts = {}
    BY <1>2 DEF OcrOK
  <1>8. kind \in [Pages -> O!Kinds] /\ DOMAIN page = Pages /\ DOMAIN late = Pages /\ DOMAIN paid = Pages
    BY DEF OcrOK
  <1>9. /\ stage' \in {"detect", "probe", "choose", "ocr", "done"}
        /\ stage' # "done" => outcome' = "none"
        /\ outcome' # "complete"
        /\ stage' = "ocr" => passes' = O!Passes'
    BY <1>3, <1>4, <1>7
  <1>10. TextBefore' /\ told' = receipts' /\ receipts' = {} /\ proc' = "none"
    BY <1>1, <1>2, <1>5, <1>7
  <1>11. kind' \in [Pages -> O!Kinds'] /\ DOMAIN page' = Pages /\ DOMAIN late' = Pages /\ DOMAIN paid' = Pages
    BY <1>1, <1>8 DEF O!Kinds
  <1> QED
    BY <1>6, <1>9, <1>10, <1>11 DEF OcrOK

\* What a page does, as far as the others and the receipts go.
PageMoves(p) ==
  /\ receipts \subseteq receipts' /\ told' = receipts'
  /\ DOMAIN page' = Pages /\ DOMAIN late' = Pages /\ DOMAIN paid' = Pages
  /\ \A q \in Pages \ {p} : page'[q] = page[q] /\ late'[q] = late[q] /\ paid'[q] = paid[q]
  /\ PageOK(page[p], late[p], paid[p])'

\* A page moves by being taken, looked at or sent the other way.
LEMMA AskMoves ==
  ASSUME OcrOK, NEW p \in Pages, O!Take(p) \/ O!Check(p) \/ O!Fallback(p)
  PROVE  PageMoves(p)
  <1>1. PICK st \in {"checking", "fallback", "sending", "read", "broken"} : page' = [page EXCEPT ![p].st = st]
          /\ (st = "checking" => page[p].st = "waiting")
          /\ (st = "sending" => page[p].st = "checking" /\ receipts = {})
          /\ page[p].st \in {"waiting", "checking", "fallback"}
          /\ (st \in {"read", "broken"} => page[p].st = "fallback")
    BY DEF O!Take, O!Check, O!Fallback, O!Becomes, O!Clear
  <1>2. UNCHANGED <<receipts, told, late, paid>>
    BY DEF O!Take, O!Check, O!Fallback
  <1>3. PageOK(page[p], late[p], paid[p]) /\ DOMAIN page = Pages
    BY DEF OcrOK
  <1>4. page'[p] = [page[p] EXCEPT !.st = st] /\ \A q \in Pages \ {p} : page'[q] = page[q]
    BY <1>1, <1>3
  <1>5. DOMAIN page'[p] = DOMAIN page[p] /\ page'[p].st = st /\ page'[p].gen = page[p].gen
    BY <1>3, <1>4 DEF PageOK
  <1>6. PageOK(page[p], late[p], paid[p])'
    BY <1>1, <1>2, <1>3, <1>5 DEF PageOK
  <1> QED
    BY <1>1, <1>2, <1>3, <1>4, <1>6 DEF PageMoves, OcrOK

\* Posting moves its page, and may leave the answer to come late.
LEMMA PostMoves ==
  ASSUME OcrOK, NEW p \in Pages, O!Post(p)
  PROVE  PageMoves(p)
  <1>1. PageOK(page[p], late[p], paid[p]) /\ DOMAIN page = Pages /\ DOMAIN late = Pages /\ page[p].st = "sending"
    BY DEF OcrOK, O!Post
  <1>2. page' = [page EXCEPT ![p].st = "requesting"] /\ UNCHANGED <<receipts, told, paid>>
    BY DEF O!Post, O!Becomes
  <1>3. late[p] = 0
    BY <1>1 DEF PageOK
  <1>4. late' = [late EXCEPT ![p] = IF receipts = {} THEN 0 ELSE 1]
    BY <1>3 DEF O!Post
  <1>5. page'[p] = [page[p] EXCEPT !.st = "requesting"] /\ \A q \in Pages \ {p} : page'[q] = page[q]
    BY <1>1, <1>2
  <1>6. DOMAIN page'[p] = DOMAIN page[p] /\ page'[p].st = "requesting" /\ page'[p].gen = page[p].gen
    BY <1>1, <1>5 DEF PageOK
  <1>7. PageOK(page[p], late[p], paid[p])'
    BY <1>1, <1>2, <1>4, <1>6 DEF PageOK
  <1> QED
    BY <1>1, <1>2, <1>4, <1>5, <1>7 DEF PageMoves, OcrOK

\* A refusal moves its page, and what was paid is still accounted for.
LEMMA RefusedMoves ==
  ASSUME OcrOK, NEW p \in Pages, O!Refused(p)
  PROVE  PageMoves(p)
  <1>1. PageOK(page[p], late[p], paid[p]) /\ DOMAIN page = Pages /\ page[p].st = "requesting" /\ told = receipts
    BY DEF OcrOK, O!Refused
  <1>2. page' = [page EXCEPT ![p].st = "fallback"] /\ UNCHANGED <<late, paid>>
    BY DEF O!Refused, O!Becomes
  <1>3. receipts \subseteq receipts' /\ told' = receipts' /\ receipts' # {}
    BY <1>1 DEF O!Refused
  <1>5. page'[p] = [page[p] EXCEPT !.st = "fallback"] /\ \A q \in Pages \ {p} : page'[q] = page[q]
    BY <1>1, <1>2
  <1>6. DOMAIN page'[p] = DOMAIN page[p] /\ page'[p].st = "fallback" /\ page'[p].gen = page[p].gen
    BY <1>1, <1>5 DEF PageOK
  <1>7. PageOK(page[p], late[p], paid[p])'
    BY <1>1, <1>2, <1>3, <1>6 DEF PageOK
  <1> QED
    BY <1>1, <1>2, <1>3, <1>5, <1>7 DEF PageMoves, OcrOK

\* Every answer that may have been metered is counted.
LEMMA PaidMoves ==
  ASSUME OcrOK, NEW p \in Pages, O!Lost(p) \/ O!Answer(p)
  PROVE  PageMoves(p)
  <1>1. PageOK(page[p], late[p], paid[p]) /\ DOMAIN page = Pages /\ DOMAIN paid = Pages /\ page[p].st = "requesting"
    BY DEF OcrOK, O!Lost, O!Answer
  <1>2. PICK st \in {"fallback", "answered"} : page' = [page EXCEPT ![p].st = st] /\ (st = "answered" => receipts = {})
    BY DEF O!Lost, O!Answer, O!Becomes, O!TimedOut, O!Clear
  <1>3. UNCHANGED <<receipts, told, late>> /\ paid' = [paid EXCEPT ![p] = @ + 1]
    BY DEF O!Lost, O!Answer
  <1>5. page'[p] = [page[p] EXCEPT !.st = st] /\ \A q \in Pages \ {p} : page'[q] = page[q]
    BY <1>1, <1>2
  <1>6. DOMAIN page'[p] = DOMAIN page[p] /\ page'[p].st = st /\ page'[p].gen = page[p].gen
    BY <1>1, <1>5 DEF PageOK
  <1>7. paid'[p] = paid[p] + 1 /\ paid[p] <= page[p].gen
    BY <1>1, <1>3 DEF PageOK
  <1>8. PageOK(page[p], late[p], paid[p])'
    BY <1>1, <1>2, <1>3, <1>6, <1>7, OcrConstants DEF PageOK, OcrConstants
  <1> QED
    BY <1>1, <1>2, <1>3, <1>5, <1>8 DEF PageMoves, OcrOK

\* A status without an answer costs a repetition of the request.
LEMMA NoAnswerMoves ==
  ASSUME OcrOK, NEW p \in Pages, O!NoAnswer(p)
  PROVE  PageMoves(p)
  <1>1. PageOK(page[p], late[p], paid[p]) /\ DOMAIN page = Pages /\ page[p].st = "requesting"
    BY DEF OcrOK, O!NoAnswer
  <1>2. UNCHANGED <<receipts, told, late, paid>>
    BY DEF O!NoAnswer
  <1>3. \/ page' = [page EXCEPT ![p].st = "fallback"]
        \/ page' = [page EXCEPT ![p].st = "checking", ![p].tries = @ + 1] /\ receipts = {}
    BY DEF O!NoAnswer, O!Becomes, O!Clear
  <1>4. /\ DOMAIN page' = Pages /\ \A q \in Pages \ {p} : page'[q] = page[q]
        /\ DOMAIN page'[p] = DOMAIN page[p] /\ page'[p].gen = page[p].gen
        /\ page'[p].st = "fallback" \/ (page'[p].st = "checking" /\ receipts = {})
    <2>1. CASE page' = [page EXCEPT ![p].st = "fallback"]
      BY <1>1, <2>1 DEF PageOK
    <2>2. CASE page' = [page EXCEPT ![p].st = "checking", ![p].tries = @ + 1] /\ receipts = {}
      BY <1>1, <2>2 DEF PageOK
    <2> QED
      BY <1>3, <2>1, <2>2
  <1>5. PageOK(page[p], late[p], paid[p])'
    BY <1>1, <1>2, <1>4 DEF PageOK
  <1> QED
    BY <1>1, <1>2, <1>4, <1>5 DEF PageMoves, OcrOK

\* An answer is read, or another is asked for while there is a temperature left.
LEMMA UseMoves ==
  ASSUME OcrOK, NEW p \in Pages, O!Use(p)
  PROVE  PageMoves(p)
  <1>1. PageOK(page[p], late[p], paid[p]) /\ DOMAIN page = Pages /\ page[p].st = "answered"
    BY DEF OcrOK, O!Use
  <1>2. UNCHANGED <<receipts, told, late, paid>>
    BY DEF O!Use
  <1>3. \/ page' = [page EXCEPT ![p].st = "read"]
        \/ page' = [page EXCEPT ![p].st = "fallback"]
        \/ /\ page[p].gen + 1 < Temperatures
           /\ page' = [page EXCEPT ![p] = [st |-> "checking", gen |-> page[p].gen + 1, tries |-> 0]]
    BY <1>1 DEF O!Use, O!Becomes, O!Regenerates
  <1>4. /\ DOMAIN page' = Pages /\ \A q \in Pages \ {p} : page'[q] = page[q]
        /\ DOMAIN page'[p] = {"st", "gen", "tries"}
        /\ \/ page'[p].gen = page[p].gen /\ page'[p].st \in {"read", "fallback"}
           \/ page'[p].gen = page[p].gen + 1 /\ page[p].gen + 1 < Temperatures /\ page'[p].st = "checking"
    <2>1. CASE page' = [page EXCEPT ![p].st = "read"]
      BY <1>1, <2>1 DEF PageOK
    <2>2. CASE page' = [page EXCEPT ![p].st = "fallback"]
      BY <1>1, <2>2 DEF PageOK
    <2>3. CASE /\ page[p].gen + 1 < Temperatures
               /\ page' = [page EXCEPT ![p] = [st |-> "checking", gen |-> page[p].gen + 1, tries |-> 0]]
      BY <1>1, <2>3 DEF PageOK
    <2> QED
      BY <1>3, <2>1, <2>2, <2>3
  <1>5. PageOK(page[p], late[p], paid[p])'
    BY <1>1, <1>2, <1>4 DEF PageOK
  <1> QED
    BY <1>1, <1>2, <1>4, <1>5 DEF PageMoves, OcrOK

\* A step of a page leaves the step of OCR in order.
LEMMA PagesOK ==
  ASSUME OcrOK, O!PageNext
  PROVE  OcrOK'
  <1>1. PICK p \in Pages : O!PageStep(p) /\ PageMoves(p)
    BY AskMoves, PostMoves, RefusedMoves, PaidMoves, NoAnswerMoves, UseMoves DEF O!PageNext
  <1>2. proc = "running" /\ UNCHANGED <<kind, scanLike, stage, proc, passes, text, outcome>>
    BY <1>1 DEF O!PageStep, O!fileVars
  <1>3. O!Passes' = O!Passes /\ Rest' = Rest /\ O!Forced' = O!Forced
    BY <1>2, KindStays
  <1>4. (TextBefore => TextBefore') /\ (TextBetween => TextBetween')
    BY <1>2, <1>3 DEF TextBefore, TextBetween
  <1>5. \A q \in Pages : PageOK(page[q], late[q], paid[q])'
    <2>1. ASSUME NEW q \in Pages \ {p} PROVE PageOK(page[q], late[q], paid[q])'
      BY <1>1 DEF PageMoves, OcrOK, PageOK
    <2> QED
      BY <1>1, <2>1 DEF PageMoves
  <1>6. stage = "ocr" /\ outcome = "none"
    BY <1>2 DEF OcrOK
  <1>7. /\ told' = receipts' /\ DOMAIN page' = Pages /\ DOMAIN late' = Pages /\ DOMAIN paid' = Pages
    BY <1>1 DEF PageMoves
  <1>8. \/ passes = O!Passes /\ TextBefore
        \/ O!Forced # {} /\ Rest # {} /\ passes = <<O!Pass("redo", Rest)>> /\ TextBetween
    BY <1>6 DEF OcrOK
  <1>9. \/ passes' = O!Passes' /\ TextBefore'
        \/ O!Forced' # {} /\ Rest' # {} /\ passes' = <<O!Pass("redo", Rest')>> /\ TextBetween'
    BY <1>2, <1>3, <1>4, <1>8
  <1>10. O!Pass("redo", Rest)' = O!Pass("redo", Rest')
    BY DEF O!Pass
  <1> QED
    BY <1>2, <1>5, <1>6, <1>7, <1>9, <1>10 DEF OcrOK

\* A pass begins with every page of it waiting.
LEMMA BeginOK ==
  ASSUME NEW n, O!Begin(n), UNCHANGED receipts
  PROVE  /\ proc' = "running"
         /\ DOMAIN page' = Pages /\ DOMAIN late' = Pages /\ DOMAIN paid' = Pages
         /\ \A p \in Pages : PageOK(page[p], late[p], paid[p])'
  <1>1. proc' = "running" /\ late' = O!Zero /\ paid' = O!Zero
    BY DEF O!Begin
  <1>2. \A p \in Pages : late'[p] = 0 /\ paid'[p] = 0
    BY <1>1 DEF O!Zero
  <1>3. page' = [p \in Pages |-> O!Asking(IF p \in O!Reads(Head(passes)) THEN "waiting" ELSE "none")]
    BY DEF O!Begin
  <1>4. \A p \in Pages : DOMAIN page'[p] = {"st", "gen", "tries"} /\ page'[p].st \in {"waiting", "none"} /\ page'[p].gen = 0
    BY <1>3 DEF O!Asking
  <1>5. ASSUME NEW p \in Pages
        PROVE  PageOK(page[p], late[p], paid[p])'
    BY <1>2, <1>4, OcrConstants DEF PageOK, OcrConstants
  <1>6. DOMAIN page' = Pages /\ DOMAIN late' = Pages /\ DOMAIN paid' = Pages
    BY <1>1, <1>3 DEF O!Zero
  <1> QED
    BY <1>1, <1>5, <1>6

\* Once the process has ended its pages rest, and what they sent and paid is remembered.
LEMMA IdleOK ==
  ASSUME OcrOK, page' = O!Idle, UNCHANGED <<receipts, late, paid>>
  PROVE  /\ DOMAIN page' = Pages /\ DOMAIN late' = Pages /\ DOMAIN paid' = Pages
         /\ \A p \in Pages : PageOK(page[p], late[p], paid[p])'
  <1>1. DOMAIN page' = Pages /\ DOMAIN late' = Pages /\ DOMAIN paid' = Pages
    BY DEF OcrOK, O!Idle
  <1>2. \A p \in Pages : DOMAIN page'[p] = {"st", "gen", "tries"} /\ page'[p].st = "none" /\ page'[p].gen = 0
    BY DEF O!Idle, O!Asking
  <1>3. ASSUME NEW p \in Pages
        PROVE  PageOK(page[p], late[p], paid[p])'
    <2>1. PageOK(page[p], late[p], paid[p])
      BY DEF OcrOK
    <2> QED
      BY <1>2, <2>1, OcrConstants DEF PageOK, OcrConstants
  <1> QED
    BY <1>1, <1>3

\* A process starts, or starts again, on the text it finds.
LEMMA StartOK ==
  ASSUME OcrOK, NEW n, O!Begin(n), stage = "ocr", UNCHANGED <<receipts, told, kind, scanLike, stage, passes, text, outcome>>
  PROVE  OcrOK'
  <1>1. /\ proc' = "running"
        /\ DOMAIN page' = Pages /\ DOMAIN late' = Pages /\ DOMAIN paid' = Pages
        /\ \A p \in Pages : PageOK(page[p], late[p], paid[p])'
    BY BeginOK
  <1>2. O!Passes' = O!Passes /\ Rest' = Rest /\ O!Forced' = O!Forced
    BY KindStays
  <1>3. (TextBefore => TextBefore') /\ (TextBetween => TextBetween')
    BY <1>2 DEF TextBefore, TextBetween
  <1>4. \/ passes = O!Passes /\ TextBefore
        \/ O!Forced # {} /\ Rest # {} /\ passes = <<O!Pass("redo", Rest)>> /\ TextBetween
    BY DEF OcrOK
  <1>5. \/ passes' = O!Passes' /\ TextBefore'
        \/ O!Forced' # {} /\ Rest' # {} /\ passes' = <<O!Pass("redo", Rest')>> /\ TextBetween'
    BY <1>2, <1>3, <1>4
  <1>6. O!Pass("redo", Rest)' = O!Pass("redo", Rest')
    BY DEF O!Pass
  <1>7. told' = receipts' /\ kind' \in [Pages -> O!Kinds'] /\ outcome' = "none" /\ stage' = "ocr"
    BY DEF OcrOK, O!Kinds
  <1> QED
    BY <1>1, <1>5, <1>6, <1>7 DEF OcrOK

\* A process that is stopped, refused or not, ends the step without a text.
LEMMA StopOK ==
  ASSUME OcrOK, NEW r \in {"refused", "failed"}, O!Stop(r), UNCHANGED <<kind, told>>
  PROVE  OcrOK'
  <1>1. /\ DOMAIN page' = Pages /\ DOMAIN late' = Pages /\ DOMAIN paid' = Pages
        /\ \A p \in Pages : PageOK(page[p], late[p], paid[p])'
    BY IdleOK DEF O!Stop
  <1>2. proc' = "none" /\ stage' = "done" /\ outcome' = r /\ UNCHANGED receipts
    BY DEF O!Stop
  <1>3. kind' \in [Pages -> O!Kinds'] /\ told' = receipts'
    BY <1>2 DEF OcrOK, O!Kinds
  <1> QED
    BY <1>1, <1>2, <1>3 DEF OcrOK

\* An output without a refusal is the text of its pass, and the last of them completes the step.
LEMMA AcceptOK ==
  ASSUME OcrOK, proc = "running", receipts = {}, O!Accept(TRUE), UNCHANGED <<kind, scanLike, told>>
  PROVE  OcrOK'
  <1>1. /\ DOMAIN page' = Pages /\ DOMAIN late' = Pages /\ DOMAIN paid' = Pages
        /\ \A p \in Pages : PageOK(page[p], late[p], paid[p])'
    BY IdleOK DEF O!Accept
  <1>2. text' = [p \in Pages |-> IF p \in O!Reads(Head(passes)) THEN O!After(Head(passes).mode, text[p]) ELSE text[p]]
    BY DEF O!Accept
  <1>3. /\ proc' = "none" /\ passes' = Tail(passes) /\ UNCHANGED receipts
        /\ IF passes' = <<>> THEN stage' = "done" /\ outcome' = "complete" ELSE UNCHANGED <<stage, outcome>>
    BY DEF O!Accept
  <1>4. stage = "ocr" /\ outcome = "none" /\ told = {} /\ kind \in [Pages -> O!Kinds]
    BY DEF OcrOK
  <1>5. \/ passes = O!Passes /\ TextBefore
        \/ O!Forced # {} /\ Rest # {} /\ passes = <<O!Pass("redo", Rest)>> /\ TextBetween
    BY <1>4 DEF OcrOK
  <1>6. O!Passes' = O!Passes /\ Rest' = Rest /\ O!Forced' = O!Forced /\ O!Pass("redo", Rest)' = O!Pass("redo", Rest')
    BY KindStays DEF O!Pass
  <1>7. CASE Tail(passes) = <<>>
    <2>1. /\ \A p \in Pages :
                 /\ kind[p] \in {"scan", "outline", "garbled"} => "read" \in text'[p]
                 /\ kind[p] = "garbled" => text'[p] = {"read"}
                 /\ p \notin O!Forced => O!Carried[kind[p]] \subseteq text'[p]
      <3>1. <<O!Pass("redo", Rest)>> # <<>>
        OBVIOUS
      <3> QED
        BY <1>2, <1>4, <1>5, <1>7, <3>1, PassText
    <2>2. TextAfter'
      BY <1>6, <2>1 DEF TextAfter
    <2>3. stage' = "done" /\ outcome' = "complete" /\ told' = {} /\ receipts' = {} /\ kind' \in [Pages -> O!Kinds']
      BY <1>3, <1>4, <1>7 DEF O!Kinds
    <2> QED
      BY <1>1, <1>3, <2>2, <2>3 DEF OcrOK
  <1>8. CASE Tail(passes) # <<>>
    <2>1. /\ O!Forced # {} /\ Rest # {} /\ Tail(passes) = <<O!Pass("redo", Rest)>>
          /\ text' = [p \in Pages |-> IF p \in O!Forced THEN {"read"} ELSE O!Carried[kind[p]]]
      BY <1>2, <1>4, <1>5, <1>8, PassText
    <2>2. TextBetween'
      BY <1>6, <2>1 DEF TextBetween
    <2>3. stage' = "ocr" /\ outcome' = "none" /\ told' = {} /\ receipts' = {} /\ kind' \in [Pages -> O!Kinds']
      BY <1>3, <1>4, <1>8 DEF O!Kinds
    <2>4. O!Forced' # {} /\ Rest' # {} /\ passes' = <<O!Pass("redo", Rest')>>
      BY <1>3, <1>6, <2>1
    <2> QED
      BY <1>1, <1>3, <1>6, <2>2, <2>3, <2>4 DEF OcrOK
  <1> QED
    BY <1>7, <1>8

\* Whatever the process exits with: its output counts only without a refusal.
LEMMA ExitOK ==
  ASSUME OcrOK, O!Exit \/ O!Timeout
  PROVE  OcrOK'
  <1>1. CASE O!Exit
    <2>1. PICK code \in {0, 4, 15}, good \in BOOLEAN : (code = 0 /\ attempt = 0 => good) /\ O!Ends(code, good)
      BY <1>1 DEF O!Exit
    <2>2. proc = "running" /\ UNCHANGED <<kind, scanLike, told>>
      BY <1>1 DEF O!Exit, O!fileVars
    <2>3. \/ O!Stop("refused") \/ O!Stop("failed")
          \/ receipts = {} /\ good /\ O!Accept(good)
          \/ receipts = {} /\ O!Retry
      BY <2>1 DEF O!Ends, O!OnFile
    <2>4. CASE O!Stop("refused") \/ O!Stop("failed")
      BY <2>2, <2>4, StopOK
    <2>5. CASE receipts = {} /\ good /\ O!Accept(good)
      <3>1. good = TRUE
        BY <2>5
      <3> QED
        BY <2>2, <2>5, <3>1, AcceptOK
    <2>6. CASE receipts = {} /\ O!Retry
      <3>1. O!Begin(1) /\ UNCHANGED <<receipts, stage, passes, text, outcome>>
        BY <2>6 DEF O!Retry
      <3>2. stage = "ocr"
        BY <2>2 DEF OcrOK
      <3> QED
        BY <2>2, <3>1, <3>2, StartOK
    <2> QED
      BY <2>3, <2>4, <2>5, <2>6
  <1>2. CASE O!Timeout
    <2>1. (O!Stop("refused") \/ O!Stop("failed")) /\ UNCHANGED <<kind, told>>
      BY <1>2 DEF O!Timeout, O!fileVars
    <2> QED
      BY <2>1, StopOK
  <1> QED
    BY <1>1, <1>2

\* A file begins with the text it came with.
LEMMA OcrInitOK ==
  ASSUME O!Init
  PROVE  OcrOK
  <1>1. /\ kind \in [Pages -> O!Kinds] /\ stage = "classify" /\ outcome = "none" /\ proc = "none"
        /\ receipts = {} /\ told = {} /\ TextBefore
    BY DEF O!Init, TextBefore
  <1>2. page = O!Idle /\ late = O!Zero /\ paid = O!Zero
    BY DEF O!Init
  <1>3. ASSUME NEW p \in Pages PROVE PageOK(page[p], late[p], paid[p])
    BY <1>2, OcrConstants DEF O!Idle, O!Zero, O!Asking, PageOK, OcrConstants
  <1>4. DOMAIN page = Pages /\ DOMAIN late = Pages /\ DOMAIN paid = Pages
    BY <1>2 DEF O!Idle, O!Zero
  <1> QED
    BY <1>1, <1>3, <1>4 DEF OcrOK

\* Every step of OCR leaves it in order, as does a step of another part.
LEMMA OcrSteps ==
  ASSUME OcrInv, [TextNext]_textVars
  PROVE  OcrInv'
  <1> SUFFICES ASSUME part' = "ocr"
               PROVE  OcrOK'
    BY DEF OcrInv
  <1>1. part = "ocr" /\ (O!Next \/ UNCHANGED O!ocrVars)
    BY DEF TextNext, InOcr, InOutline, InFidelity, InStructure, InMaps, InGlyphs, textVars, ocrOnly,
           O!ocrVars, O!fileVars, O!procVars
  <1>2. OcrOK
    BY <1>1 DEF OcrInv
  <1>3. CASE O!Classify \/ O!Detect \/ O!Probe \/ O!Choose
    BY <1>2, <1>3, BeforeOK
  <1>4. CASE O!Start
    <2>1. O!Begin(0) /\ stage = "ocr" /\ proc = "none" /\ receipts' = {}
          /\ UNCHANGED <<told, kind, scanLike, stage, passes, text, outcome>>
      BY <1>4 DEF O!Start, O!fileVars
    <2>2. receipts = {}
      BY <1>2, <2>1 DEF OcrOK
    <2> QED
      BY <1>2, <2>1, <2>2, StartOK
  <1>5. CASE O!PageNext
    BY <1>2, <1>5, PagesOK
  <1>6. CASE O!Exit \/ O!Timeout
    BY <1>2, <1>6, ExitOK
  <1>7. CASE UNCHANGED O!ocrVars
    <2>1. UNCHANGED <<kind, scanLike, stage, outcome, passes, text, told, receipts, proc, page, late, paid>>
      BY <1>7 DEF O!ocrVars, O!fileVars, O!procVars
    <2>2. O!Passes' = O!Passes /\ Rest' = Rest /\ O!Forced' = O!Forced /\ O!Pass("redo", Rest)' = O!Pass("redo", Rest')
      BY <2>1, KindStays DEF O!Pass
    <2>3. (TextBefore => TextBefore') /\ (TextBetween => TextBetween') /\ (TextAfter => TextAfter')
      BY <2>1, <2>2 DEF TextBefore, TextBetween, TextAfter
    <2>4. \A p \in Pages : PageOK(page[p], late[p], paid[p])'
      BY <1>2, <2>1 DEF OcrOK, PageOK
    <2>5. kind' \in [Pages -> O!Kinds']
      BY <1>2, <2>1 DEF OcrOK, O!Kinds
    <2> QED
      BY <1>2, <2>1, <2>2, <2>3, <2>4, <2>5 DEF OcrOK
  <1> QED
    BY <1>1, <1>3, <1>4, <1>5, <1>6, <1>7 DEF O!Next

------------------------------------------------------------------------------
(* OCR: theorem *)

\* A completed OCR step (services/ocr.py, ocr_vlm_plugin.py, ocr_access.py) has read every page
\* that had no usable text and kept the rest; its pages stop asking after a refusal and pay for no
\* answer twice: for any number of pages and page processes, temperatures and retries.
THEOREM OcrIsSound == TextSpec => []OcrHolds
  <1>1. TextInit => OcrInv
    <2>1. TextInit /\ part = "ocr" => O!Init
      BY DEF TextInit
    <2> QED
      BY <2>1, OcrInitOK DEF OcrInv
  <1>2. OcrInv => OcrHolds
    <2> SUFFICES ASSUME OcrOK
                 PROVE  O!OcrGivesText /\ O!PagesAreSparing
      BY DEF OcrInv, OcrHolds
    <2>1. O!OcrGivesText
      BY DEF OcrOK, TextAfter, O!OcrGivesText
    <2>2. O!PagesAreSparing
      BY DEF OcrOK, PageOK, O!PagesAreSparing
    <2> QED
      BY <2>1, <2>2
  <1> QED
    BY <1>1, <1>2, OcrSteps, PTL DEF TextSpec

================================================================================
