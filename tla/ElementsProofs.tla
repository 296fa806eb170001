----------------------------- MODULE ElementsProofs -----------------------------
(***************************************************************************)
(* Proofs about the elements of a document, for any age of the cache, any  *)
(* number of documents and any size of a table.                            *)
(***************************************************************************)
EXTENDS MCElements, FiniteSetTheorems, WellFoundedInduction, TLAPS

------------------------------------------------------------------------------
(* Figures: the inductive invariant *)

Given == {"none", "good", "icon"}

\* An answer of the model or of the cache: its texts are the model's own, and a
\* reclassification names a kind.
AnswerOK(a) ==
  /\ DOMAIN a = {"action", "text", "conf", "reason", "kind", "deco"}
  /\ a.action \in {"set_alt_text", "mark_decorative", "reclassify_region", "manual_only"}
  /\ a.text \in Given
  /\ a.kind \in {"none", "table", "form_region", "artifact"}
  /\ a.action = "reclassify_region" => a.kind # "none"

\* A result tells the truth: what is approved has a description or the author's words, what
\* is pending has none, and what the text refers to is not hidden.
Tells(r) ==
  /\ DOMAIN r = {"status", "text", "kind"}
  /\ r.status \in {"approved", "rejected", "pending_review", "reclassified"}
  /\ r.text \in Given \cup {"author", "caption", "n/a", "decorative"}
  /\ r.kind \in {"none", "table", "form_region", "artifact"}
  /\ r.status = "approved" =>
       (F!Useful(r.text) \/ (fig.author # "none" /\ r.text = fig.author)) /\ (r.text = "caption" => fig.caption)
  /\ r.status = "pending_review" => r.text = "none"
  /\ r.status = "reclassified" => r.text \in Given /\ r.kind # "none"
  /\ fig.protect \in {"reference", "caption"} =>
       r.status # "rejected" /\ (r.status = "reclassified" => r.kind # "artifact")

\* Where nothing was reclassified, a caption stands in for what has no description.
Captioned(r) == r.status = "pending_review" => ~fig.caption

\* A figure that was reclassified has left for what carries it, or was kept and no caption
\* describes it.
FateTells ==
  /\ fate = "removed" \/ result.status # "reclassified"
  /\ fate = "removed" => F!Covered(result.kind)
  /\ fate = "kept" => /\ result.kind \in {"table", "form_region"} /\ result.text # "caption"
                      /\ result.status = "approved" => F!Useful(result.text)
  /\ fate # "kept" => Captioned(result)

\* What has been settled at each stage of a document.
FigurePlace ==
  /\ figPc \in {"rules", "page", "followup", "judge"} => result = F!None /\ entry = F!None
  /\ figPc \in {"rules", "page", "followup", "judge", "apply"} => fate = "none"
  /\ figPc \in {"rules", "page"} => prev = F!None
  /\ figPc = "followup" => prev = F!None \/ AnswerOK(prev)
  /\ figPc = "judge" => AnswerOK(told)
  /\ figPc = "apply" => Tells(result) /\ Captioned(result) /\ entry = F!None
  /\ figPc \in {"recover", "store"} => Tells(result) /\ FateTells /\ entry = F!None
  /\ figPc = "idle" => result = F!None /\ fate = "none" /\ entry = F!None
  /\ figPc = "stored" =>
       Tells(result) /\ FateTells /\ entry = IF fate = "removed" THEN F!None ELSE F!RowOf(result)

\* The cache holds what the model gave with confidence, at its first try, and not too long ago.
CacheOK ==
  cached # F!None =>
    /\ cached.text \in {"good", "icon"} /\ cached.conf = "high" /\ cached.once
    /\ cached.at = cached.given /\ cached.at \in Nat /\ cached.at <= now /\ now - cached.at < MaxAge

FigureOK ==
  /\ fig \in F!Figure
  /\ figPc \in {"idle", "rules", "page", "followup", "judge", "apply", "recover", "store", "stored"}
  /\ now \in Nat
  /\ FigurePlace /\ CacheOK

FigureInv == part = "figures" => FigureOK

------------------------------------------------------------------------------
(* Figures: answers and results *)

\* Every answer the model may give is in order.
LEMMA AnswersOK == \A a \in F!Answers : AnswerOK(a)
  BY DEF F!Answers, F!Every, F!Answer, AnswerOK, Given

\* So is one without a decision, and one from the cache.
LEMMA ManualOK == AnswerOK(F!Manual) /\ F!Manual.action = "manual_only"
  BY DEF F!Answer, F!Manual, AnswerOK, Given

\* Hiding the details of a larger image leaves an answer in order.
LEMMA FinalizedOK ==
  ASSUME NEW a, AnswerOK(a)
  PROVE  AnswerOK(F!Finalized(a))
  BY DEF AnswerOK, F!Finalized, F!Answer, Given

\* The result of a decision tells the truth, whatever the decision.
LEMMA JudgedTells ==
  ASSUME fig \in F!Figure, NEW a, AnswerOK(a)
  PROVE  Tells(F!Judged(a)) /\ Captioned(F!Judged(a))
  <1> DEFINE barred == /\ ~F!DecorationAllowed(a)
                       /\ \/ a.deco \/ a.action = "mark_decorative"
                          \/ a.action = "reclassify_region" /\ a.kind = "artifact"
             b == IF barred THEN F!Manual ELSE a
             deco == b.deco \/ b.action = "mark_decorative"
             words == F!Described(b)
  <1>1. AnswerOK(b)
    BY ManualOK
  <1>2. fig.protect \in {"reference", "caption"} =>
          ~deco /\ ~(b.action = "reclassify_region" /\ b.kind = "artifact")
    BY DEF F!DecorationAllowed, F!Manual, F!Answer
  <1>3. F!Judged(a) = IF b.action = "reclassify_region" THEN F!Result("reclassified", b.text, b.kind)
                      ELSE IF deco THEN F!Result("rejected", "decorative", b.kind)
                      ELSE F!Result(IF words = "none" THEN "pending_review" ELSE "approved", words, b.kind)
    BY Zenon DEF F!Judged
  <1>4. /\ words \in Given \cup {"caption"}
        /\ words = "caption" => fig.caption
        /\ words # "none" => F!Useful(words)
        /\ words = "none" => ~fig.caption
    BY <1>1 DEF AnswerOK, F!Described, F!Useful, Given
  <1> HIDE DEF b, words
  <1>5. CASE b.action = "reclassify_region"
    BY <1>1, <1>2, <1>3, <1>5 DEF AnswerOK, Tells, Captioned, F!Result
  <1>6. CASE b.action # "reclassify_region" /\ deco
    BY <1>1, <1>2, <1>3, <1>6 DEF AnswerOK, Tells, Captioned, F!Result
  <1>7. CASE b.action # "reclassify_region" /\ ~deco
    BY <1>1, <1>2, <1>3, <1>4, <1>7 DEF AnswerOK, Tells, Captioned, F!Result
  <1> QED
    BY <1>5, <1>6, <1>7

\* A figure that nothing else carries keeps a result that tells the truth.
LEMMA KeptTells ==
  ASSUME fig \in F!Figure, NEW r, Tells(r), r.status = "reclassified"
  PROVE  /\ Tells(F!Kept(r)) /\ F!Kept(r).status # "reclassified"
         /\ F!Kept(r).kind = r.kind /\ F!Kept(r).text # "caption"
         /\ F!Kept(r).status = "approved" => F!Useful(F!Kept(r).text)
         /\ r.kind = "artifact" => Captioned(F!Kept(r))
  BY DEF Tells, Captioned, F!Kept, F!Result, F!Useful, Given

\* What local rules decide tells the truth, as does a caption that stands in.
LEMMA RulesTell ==
  ASSUME fig \in F!Figure
  PROVE  /\ Tells(F!Fallback) /\ Captioned(F!Fallback)
         /\ fig.author # "none" =>
              LET r == F!Result("approved", fig.author, "none") IN Tells(r) /\ Captioned(r)
         /\ F!HiddenByRule => LET r == F!Result("rejected", "decorative", "none") IN Tells(r) /\ Captioned(r)
  BY DEF Tells, Captioned, F!Fallback, F!Result, F!HiddenByRule, F!Useful, F!Figure, Given

------------------------------------------------------------------------------
(* Figures: the steps *)

\* A document begins with nothing decided.
LEMMA StartOK ==
  ASSUME FigureOK, F!Start
  PROVE  FigureOK'
  BY DEF FigureOK, FigurePlace, CacheOK, F!Start

\* Local rules decide or leave the figure to its page.
LEMMA RulesOK ==
  ASSUME FigureOK, F!Rules
  PROVE  FigureOK'
  <1>1. result' = F!None \/ (Tells(result') /\ Captioned(result'))
    BY RulesTell DEF FigureOK, F!Rules
  <1>2. Tells(result') /\ Captioned(result') => Tells(result)' /\ Captioned(result)'
    BY DEF F!Rules, Tells, Captioned
  <1> QED
    BY <1>1, <1>2 DEF FigureOK, FigurePlace, CacheOK, F!Rules

\* The page's answer, from the cache or the model, is in order, and only a confident one
\* of the model's first try is stored.
LEMMA PageOK ==
  ASSUME FigureOK, F!Page
  PROVE  FigureOK'
  <1>1. PICK a, once :
          /\ AnswerOK(a) /\ once \in BOOLEAN
          /\ F!Decided(a, once) \/ (figPc' = "followup" /\ UNCHANGED <<told, prev, cached>>)
    <2>1. CASE F!Looked /\ F!Decided(F!Answer("set_alt_text", cached.text, "medium", TRUE, "none", FALSE), FALSE)
      <3>1. cached.text \in Given
        BY <2>1 DEF FigureOK, CacheOK, F!Looked, Given
      <3>2. AnswerOK(F!Answer("set_alt_text", cached.text, "medium", TRUE, "none", FALSE))
        BY <3>1 DEF AnswerOK, F!Answer
      <3> QED
        BY <2>1, <3>2
    <2>2. CASE \E answer \in F!Answers, once \in BOOLEAN : F!Decided(F!Finalized(answer), once)
      <3>1. PICK answer \in F!Answers, once \in BOOLEAN : F!Decided(F!Finalized(answer), once)
        BY <2>2
      <3>2. AnswerOK(F!Finalized(answer))
        BY AnswersOK, FinalizedOK
      <3> QED
        BY <3>1, <3>2
    <2>3. CASE figPc' = "followup" /\ UNCHANGED <<told, prev, cached>>
      BY <2>3, ManualOK
    <2> QED
      BY <2>1, <2>2, <2>3 DEF F!Page
  <1>2. /\ UNCHANGED <<fig, result, fate, entry, now>>
        /\ \/ figPc' = "followup" /\ UNCHANGED <<prev, cached>>
           \/ /\ told' = IF F!FollowUp(a) THEN F!None ELSE a
              /\ prev' = IF F!FollowUp(a) /\ F!Useful(a.text) THEN a ELSE F!None
              /\ figPc' = IF F!FollowUp(a) THEN "followup" ELSE "judge"
              /\ \/ cached' = cached
                 \/ /\ F!Stored(a, once)
                    /\ cached' = [text |-> a.text, at |-> now, given |-> now, conf |-> a.conf, once |-> once]
    BY <1>1, Zenon DEF F!Page, F!Decided, F!Touched
  <1>3. CacheOK'
    <2>1. CASE cached' = cached
      BY <1>2, <2>1 DEF FigureOK, CacheOK
    <2>2. CASE /\ F!Stored(a, once)
               /\ cached' = [text |-> a.text, at |-> now, given |-> now, conf |-> a.conf, once |-> once]
      <3>1. once = TRUE /\ a.conf = "high" /\ F!Useful(a.text)
        BY <2>2 DEF F!Stored
      <3>2. /\ cached'.text = a.text /\ cached'.conf = a.conf /\ cached'.once = once
            /\ cached'.at = now /\ cached'.given = now
        BY <2>2
      <3>3. a.text \in {"good", "icon"}
        BY <1>1, <3>1 DEF AnswerOK, F!Useful, Given
      <3>4. now' = now /\ now \in Nat /\ now - now < MaxAge
        BY <1>2, ElementConstants DEF FigureOK, ElementConstants
      <3> QED
        BY <3>1, <3>2, <3>3, <3>4 DEF CacheOK
    <2> QED
      BY <1>2, <2>1, <2>2
  <1>4. figPc' = "followup" => prev' = F!None \/ AnswerOK(prev')
    BY <1>1, <1>2 DEF FigureOK, FigurePlace, F!Page
  <1>5. figPc' = "judge" => AnswerOK(told')
    BY <1>1, <1>2
  <1>6. figPc' \in {"followup", "judge"}
    BY <1>2
  <1> QED
    BY <1>2, <1>3, <1>4, <1>5, <1>6 DEF FigureOK, FigurePlace, F!Page, F!Covered

\* The follow-up's answer is in order, with the page's description or its own.
LEMMA FollowedUpOK ==
  ASSUME FigureOK, F!FollowedUp
  PROVE  FigureOK'
  <1>1. ASSUME NEW a, AnswerOK(a)
        PROVE  AnswerOK(F!FollowedBy(a))
    BY <1>1 DEF FigureOK, FigurePlace, AnswerOK, F!FollowedUp, F!FollowedBy, F!Useful
  <1>2. AnswerOK(told')
    <2>1. CASE told' = F!FollowedBy(F!Manual)
      BY <1>1, <2>1, ManualOK
    <2>2. CASE \E a \in F!Answers : told' = F!FollowedBy(F!Finalized(a))
      BY <1>1, <2>2, AnswersOK, FinalizedOK
    <2> QED
      BY <2>1, <2>2 DEF F!FollowedUp
  <1> QED
    BY <1>2 DEF FigureOK, FigurePlace, CacheOK, F!FollowedUp

\* A decision becomes a result that tells the truth.
LEMMA JudgeOK ==
  ASSUME FigureOK, F!Judge
  PROVE  FigureOK'
  <1>1. Tells(result') /\ Captioned(result')
    BY JudgedTells DEF FigureOK, FigurePlace, F!Judge
  <1>2. Tells(result)' /\ Captioned(result)'
    BY <1>1 DEF Tells, Captioned, F!Judge
  <1> QED
    BY <1>2 DEF FigureOK, FigurePlace, CacheOK, F!Judge

\* A reclassified figure leaves only if something carries it, or is kept.
LEMMA ApplyOK ==
  ASSUME FigureOK, F!Apply
  PROVE  FigureOK'
  <1>1. Tells(result) /\ Captioned(result) /\ fig' = fig
    BY DEF FigureOK, FigurePlace, F!Apply
  <1>2. CASE result.status # "reclassified"
    <2>1. fate' = "none" /\ result' = result
      BY <1>2 DEF F!Apply
    <2>2. Tells(result)' /\ FateTells'
      BY <1>1, <1>2, <2>1 DEF Tells, FateTells, Captioned
    <2> QED
      BY <2>2 DEF FigureOK, FigurePlace, CacheOK, F!Apply
  <1>3. CASE result.status = "reclassified" /\ result.kind # "artifact" /\ F!Covered(result.kind)
    <2>1. fate' = "removed" /\ result' = result
      BY <1>3 DEF F!Apply
    <2>2. Tells(result)' /\ FateTells'
      BY <1>1, <1>3, <2>1 DEF Tells, FateTells, Captioned, F!Covered
    <2> QED
      BY <2>2 DEF FigureOK, FigurePlace, CacheOK, F!Apply
  <1>4. CASE result.status = "reclassified" /\ ~(result.kind # "artifact" /\ F!Covered(result.kind))
    <2>1. result' = F!Kept(result) /\ fate' = IF result.kind = "artifact" THEN "decorative" ELSE "kept"
      BY <1>4 DEF F!Apply
    <2>2. /\ Tells(result') /\ result'.status # "reclassified" /\ result'.kind = result.kind
          /\ result'.text # "caption" /\ (result.kind = "artifact" => Captioned(result'))
          /\ result'.status = "approved" => F!Useful(result'.text)
          /\ result.kind \in {"table", "form_region", "artifact"}
      BY <1>1, <1>4, <2>1, KeptTells DEF FigureOK, Tells
    <2>3. Tells(result)' /\ FateTells'
      BY <1>1, <2>1, <2>2 DEF Tells, FateTells, Captioned
    <2> QED
      BY <2>3 DEF FigureOK, FigurePlace, CacheOK, F!Apply
  <1> QED
    BY <1>2, <1>3, <1>4

\* One more question describes what has no description or hides what may be hidden.
LEMMA RecoverOK ==
  ASSUME FigureOK, F!Recover
  PROVE  FigureOK'
  <1>1. Tells(result) /\ FateTells /\ UNCHANGED <<fig, fate>>
    BY DEF FigureOK, FigurePlace, F!Recover
  <1>2. /\ Tells(result') /\ result'.kind = result.kind
        /\ \/ result' = result
           \/ /\ result'.status \in {"approved", "rejected"} /\ result'.text # "caption"
              /\ result'.status = "approved" => F!Useful(result'.text)
    <2>1. CASE result' = result
      BY <1>1, <2>1
    <2>2. ASSUME NEW a \in F!Answers, F!Useful(a.text), result' = F!Result("approved", a.text, result.kind)
          PROVE  Tells(result') /\ result'.kind = result.kind /\ result'.status = "approved"
                 /\ result'.text # "caption" /\ F!Useful(result'.text)
      BY <1>1, <2>2, AnswersOK DEF Tells, AnswerOK, F!Result, F!Useful, Given
    <2>3. ASSUME NEW a \in F!Answers, F!DecorationAllowed(a), result' = F!Result("rejected", "decorative", result.kind)
          PROVE  Tells(result') /\ result'.kind = result.kind /\ result'.status = "rejected"
                 /\ result'.text # "caption"
      BY <1>1, <2>3 DEF Tells, F!Result, F!DecorationAllowed, Given
    <2> QED
      BY <2>1, <2>2, <2>3 DEF F!Recover
  <1>3. Tells(result)'
    BY <1>1, <1>2 DEF Tells
  <1>4. FateTells'
    BY <1>1, <1>2 DEF FateTells, Captioned, F!Covered
  <1> QED
    BY <1>3, <1>4 DEF FigureOK, FigurePlace, CacheOK, F!Recover

\* The row is what the result says, unless the figure has left.
LEMMA StoreOK ==
  ASSUME FigureOK, F!Store
  PROVE  FigureOK'
  <1>1. Tells(result)' /\ entry' = (IF fate = "removed" THEN F!None ELSE F!RowOf(result))'
    BY DEF FigureOK, FigurePlace, F!Store, Tells, F!RowOf
  <1>2. FateTells'
    BY DEF FigureOK, FigurePlace, F!Store, FateTells, Captioned, F!Covered
  <1> QED
    BY <1>1, <1>2 DEF FigureOK, FigurePlace, CacheOK, F!Store

\* The time and the cache leave what was decided alone.
LEMMA RestOK ==
  ASSUME FigureOK, F!Tick \/ F!Evict \/ UNCHANGED F!figureVars
  PROVE  FigureOK'
  <1>1. UNCHANGED <<fig, figPc, prev, told, result, fate, entry>>
    BY DEF F!Tick, F!Evict, F!figureVars
  <1>2. FigurePlace'
    BY <1>1 DEF FigureOK, FigurePlace, FateTells, Tells, Captioned, F!Covered, F!RowOf
  <1>3. CacheOK' /\ now' \in Nat
    BY ElementConstants DEF ElementConstants, FigureOK, CacheOK, F!Tick, F!Evict, F!figureVars
  <1> QED
    BY <1>1, <1>2, <1>3 DEF FigureOK

\* A document begins in order.
LEMMA FigureInitOK ==
  ASSUME F!Init
  PROVE  FigureOK
  BY DEF F!Init, FigureOK, FigurePlace, CacheOK

\* What is in order tells the reader and the reviewer.
LEMMA OrderTells ==
  ASSUME FigureOK
  PROVE  F!FigureIsTold
  <1>1. result = F!None \/ Tells(result)
    BY DEF FigureOK, FigurePlace
  <1>2. entry # F!None => /\ Tells(result) /\ FateTells /\ fate # "removed" /\ fig \in F!Figure
                          /\ entry = F!RowOf(result)
    BY DEF FigureOK, FigurePlace
  <1>3. fate # "none" => FateTells
    BY DEF FigureOK, FigurePlace
  <1>4. F!ReferencedStays
    BY <1>1, <1>2 DEF F!ReferencedStays, Tells, F!RowOf, F!Useful, Given
  <1>5. F!RemovedIsCarried
    BY <1>3 DEF FateTells, F!RemovedIsCarried, F!Covered
  <1>6. F!ApprovedDescribes
    <2> SUFFICES ASSUME entry # F!None, entry.status = "approved"
                 PROVE  F!Useful(entry.text) /\ (entry.text = "caption" => fig.caption /\ fate # "kept")
      BY DEF F!ApprovedDescribes
    <2>1. result.status \notin {"rejected", "reclassified"}
      BY <1>2 DEF FateTells, Tells, F!RowOf
    <2>2. CASE F!Useful(result.text)
      <3>1. entry.text = result.text
        BY <1>2, <2>1, <2>2 DEF Tells, F!RowOf, F!Useful
      <3>2. result.status = "approved"
        BY <1>2, <2>1, <2>2 DEF Tells, F!Useful
      <3> QED
        BY <1>2, <2>2, <3>1, <3>2 DEF Tells, FateTells
    <2>3. CASE ~F!Useful(result.text)
      <3>1. entry.text = "caption" /\ fig.caption /\ ~(result.status = "pending_review" /\ result.kind \in {"table", "form_region"})
        BY <1>2, <2>1, <2>3 DEF F!RowOf
      <3>2. fate # "kept"
        BY <1>2, <2>1, <2>3, <3>1 DEF Tells, FateTells
      <3> QED
        BY <3>1, <3>2 DEF F!Useful
    <2> QED
      BY <2>2, <2>3
  <1>7. F!ChangeTellsRow
    BY <1>2 DEF F!ChangeTellsRow, Tells, FateTells, Captioned, F!RowOf, F!Useful, Given
  <1>8. F!CacheIsTrusted
    BY DEF FigureOK, CacheOK, F!CacheIsTrusted
  <1> QED
    BY <1>4, <1>5, <1>6, <1>7, <1>8 DEF F!FigureIsTold

------------------------------------------------------------------------------
(* Decisions before tagging: the inductive invariant *)

\* A decision is queued only by the last answer, and what the labels name is named once
\* they are written.
PretagOK ==
  /\ DOMAIN table = {"docling", "author", "grid", "spans", "ruled", "unreadable", "confirmed", "queue"}
  /\ DOMAIN form = {"tree", "typed", "tu", "named"} /\ form.tree \in {"apart", "group", "nested"}
  /\ form.tu \in [{"A", "B", "parent"} -> {"none", "weak", "good"}]
  /\ labels \subseteq P!Widget
  /\ stage \in {"author", "text", "tables", "alone", "decide", "forms", "label", "author again", "tag", "tagged"}
  /\ stage \in {"author", "text", "tables", "alone", "decide"} => table.queue = P!Nothing
  /\ table.queue = P!Nothing \/ table.queue = told
  /\ stage \in {"author", "text", "tables", "alone", "decide", "forms", "label"} => form.named = form.tu
  /\ stage \in {"author again", "tag", "tagged"} => form.named = P!Named(form.tu)
  /\ stage = "tagged" => tagged = P!TagTable(table)

PretagInv == part = "pretag" => PretagOK

------------------------------------------------------------------------------
(* Decisions before tagging: names *)

\* The objects that may name a widget, the nearest first.
LEMMA EntriesAre ==
  ASSUME form.tree \in {"apart", "group", "nested"}, NEW w \in P!Widget
  PROVE  P!Entries(w) = IF form.tree = "apart" THEN <<w>>
                        ELSE IF form.tree = "group" \/ w = "A" THEN <<"parent">> ELSE <<w, "parent">>
  BY DEF P!Entries, P!Widget

\* The objects that a label of a widget names.
LEMMA EntrySet ==
  ASSUME form.tree \in {"apart", "group", "nested"}, NEW w \in P!Widget
  PROVE  {P!Entries(w)[i] : i \in DOMAIN P!Entries(w)} =
           IF form.tree = "apart" THEN {w}
           ELSE IF form.tree = "group" \/ w = "A" THEN {"parent"} ELSE {w, "parent"}
  <1>1. ASSUME NEW e, P!Entries(w) = <<e>>
        PROVE  {P!Entries(w)[i] : i \in DOMAIN P!Entries(w)} = {e}
    <2>1. DOMAIN P!Entries(w) = {1} /\ P!Entries(w)[1] = e
      BY <1>1
    <2> QED
      BY <2>1
  <1>2. ASSUME NEW e, NEW f, P!Entries(w) = <<e, f>>
        PROVE  {P!Entries(w)[i] : i \in DOMAIN P!Entries(w)} = {e, f}
    <2>1. DOMAIN P!Entries(w) = {1, 2} /\ P!Entries(w)[1] = e /\ P!Entries(w)[2] = f
      BY <1>2
    <2> QED
      BY <2>1
  <1> QED
    BY <1>1, <1>2, EntriesAre

\* A widget's name is that of the nearest object that has one.
LEMMA NearestName ==
  ASSUME form.tree \in {"apart", "group", "nested"}, NEW w \in P!Widget, NEW tu
  PROVE  P!NameOf(w, tu) = IF form.tree = "apart" THEN tu[w]
                           ELSE IF form.tree = "group" \/ w = "A" THEN tu["parent"]
                           ELSE IF tu[w] # "none" THEN tu[w] ELSE tu["parent"]
  <1> DEFINE named == {i \in DOMAIN P!Entries(w) : tu[P!Entries(w)[i]] # "none"}
             first == CHOOSE i \in named : \A j \in named : i <= j
  <1>1. P!NameOf(w, tu) = IF named = {} THEN "none" ELSE tu[P!Entries(w)[first]]
    BY DEF P!NameOf
  <1>2. ASSUME NEW e, P!Entries(w) = <<e>>
        PROVE  P!NameOf(w, tu) = tu[e]
    <2>1. named = IF tu[e] # "none" THEN {1} ELSE {}
      BY <1>2
    <2>2. CASE tu[e] = "none"
      BY <1>1, <2>1, <2>2
    <2>3. CASE tu[e] # "none"
      <3>1. named = {1}
        BY <2>1, <2>3
      <3> HIDE DEF named
      <3>2. first = 1
        BY <3>1
      <3> QED
        BY <1>1, <1>2, <3>1, <3>2
    <2> QED
      BY <2>2, <2>3
  <1>3. ASSUME NEW e, NEW f, P!Entries(w) = <<e, f>>
        PROVE  P!NameOf(w, tu) = IF tu[e] # "none" THEN tu[e] ELSE tu[f]
    <2>1. named = {i \in 1..2 : tu[<<e, f>>[i]] # "none"}
      BY <1>3
    <2>2. CASE tu[e] # "none"
      <3>1. 1 \in named /\ named \subseteq 1..2
        BY <2>1, <2>2
      <3> HIDE DEF named
      <3>2. first = 1
        <4>1. \E i \in named : \A j \in named : i <= j
          BY <3>1
        <4>2. first \in named /\ \A j \in named : first <= j
          BY <4>1
        <4> HIDE DEF first
        <4>3. first \in 1..2 /\ first <= 1
          BY <3>1, <4>2
        <4> QED
          BY <4>3
      <3> HIDE DEF first
      <3>3. named # {} /\ P!Entries(w)[1] = e
        BY <1>3, <3>1
      <3> QED
        BY <1>1, <2>2, <3>2, <3>3
    <2>3. CASE tu[e] = "none" /\ tu[f] # "none"
      <3>1. named = {2}
        BY <2>1, <2>3
      <3> HIDE DEF named
      <3>2. first = 2
        BY <3>1
      <3> QED
        BY <1>1, <1>3, <2>3, <3>1, <3>2
    <2>4. CASE tu[e] = "none" /\ tu[f] = "none"
      <3>1. named = {}
        BY <2>1, <2>4
      <3> QED
        BY <1>1, <2>4, <3>1
    <2> QED
      BY <2>2, <2>3, <2>4
  <1> QED
    BY <1>2, <1>3, EntriesAre

\* What a label writes: an object is named by the last labelled widget it is an entry of.
LEMMA NamedIs ==
  ASSUME PretagOK
  PROVE  \A o \in {"A", "B", "parent"} :
           P!Named(form.tu)[o] =
             IF form.tree = "apart"
               THEN IF o \in labels THEN (IF o = "A" THEN "label A" ELSE "label B") ELSE form.tu[o]
             ELSE IF o = "parent"
               THEN IF "B" \in labels THEN "label B" ELSE IF "A" \in labels THEN "label A" ELSE form.tu[o]
             ELSE IF form.tree = "nested" /\ o = "B" /\ "B" \in labels THEN "label B" ELSE form.tu[o]
  <1> DEFINE ofA == IF "A" \in labels THEN {P!Entries("A")[i] : i \in DOMAIN P!Entries("A")} ELSE {}
             ofB == IF "B" \in labels THEN {P!Entries("B")[i] : i \in DOMAIN P!Entries("B")} ELSE {}
  <1>1. \A o \in {"A", "B", "parent"} :
          P!Named(form.tu)[o] = IF o \in ofB THEN "label B" ELSE IF o \in ofA THEN "label A" ELSE form.tu[o]
    BY DEF PretagOK, P!Named
  <1>2. ofA = IF "A" \notin labels THEN {} ELSE IF form.tree = "apart" THEN {"A"} ELSE {"parent"}
    BY EntrySet DEF PretagOK, P!Widget
  <1>3. ofB = IF "B" \notin labels THEN {} ELSE IF form.tree = "apart" THEN {"B"}
              ELSE IF form.tree = "group" THEN {"parent"} ELSE {"B", "parent"}
    BY EntrySet DEF PretagOK, P!Widget
  <1> HIDE DEF ofA, ofB
  <1> QED
    BY <1>1, <1>2, <1>3 DEF PretagOK, P!Widget

------------------------------------------------------------------------------
(* Decisions before tagging: the steps *)

\* The author's evidence changes no decision and no name.
LEMMA EvidenceOK ==
  ASSUME PretagOK, P!Evidence \/ P!EvidenceAgain
  PROVE  PretagOK'
  <1>1. table' = table \/ table' = P!Transferred(table)
    BY DEF P!Evidence, P!EvidenceAgain
  <1>2. DOMAIN table' = DOMAIN table /\ table'.queue = table.queue
    BY <1>1 DEF PretagOK, P!Transferred
  <1>3. UNCHANGED <<form, labels, told>>
    BY DEF P!Evidence, P!EvidenceAgain
  <1>4. P!Named(form.tu)' = P!Named(form.tu)
    BY <1>3 DEF P!Named, P!Entries
  <1> QED
    BY <1>2, <1>3, <1>4 DEF PretagOK, P!Evidence, P!EvidenceAgain

\* Doubtful text is settled before the tables are asked about.
LEMMA TextOK ==
  ASSUME PretagOK, P!Text
  PROVE  PretagOK'
  <1>1. UNCHANGED <<table, form, labels, told>> /\ stage = "text" /\ stage' = "tables"
    BY DEF P!Text
  <1> QED
    BY <1>1 DEF PretagOK

\* An answer, of a page or of the table alone, queues nothing yet.
LEMMA AskedOK ==
  ASSUME PretagOK, P!TablePage \/ P!TableAlone
  PROVE  PretagOK'
  <1>1. /\ UNCHANGED <<table, form, labels>> /\ stage \in {"tables", "alone"}
        /\ stage' \in {"alone", "decide", "forms"}
    BY DEF P!TablePage, P!TableAlone
  <1> QED
    BY <1>1 DEF PretagOK

\* What is queued is the last answer.
LEMMA TableDecideOK ==
  ASSUME PretagOK, P!TableDecide
  PROVE  PretagOK'
  <1>1. UNCHANGED <<form, labels, told>> /\ stage = "decide" /\ stage' = "forms"
    BY DEF P!TableDecide
  <1>2. \/ table' = table
        \/ table' = [table EXCEPT !.confirmed = P!HasHeaders(table)]
        \/ table' = [table EXCEPT !.queue = told]
    BY DEF P!TableDecide
  <1>3. DOMAIN table' = DOMAIN table /\ table'.queue \in {table.queue, told}
    <2>1. CASE table' = table
      BY <2>1
    <2>2. CASE table' = [table EXCEPT !.confirmed = P!HasHeaders(table)]
      BY <2>2 DEF PretagOK
    <2>3. CASE table' = [table EXCEPT !.queue = told]
      BY <2>3 DEF PretagOK
    <2> QED
      BY <1>2, <2>1, <2>2, <2>3
  <1>4. table.queue = P!Nothing
    BY <1>1 DEF PretagOK
  <1> QED
    BY <1>1, <1>3, <1>4 DEF PretagOK

\* Labels are approved for widgets.
LEMMA FormsOK ==
  ASSUME PretagOK, P!Forms
  PROVE  PretagOK'
  <1>1. UNCHANGED <<table, form, told>> /\ stage = "forms" /\ stage' = "label" /\ labels' \subseteq P!Widget
    BY DEF P!Forms, P!FormTargets
  <1> QED
    BY <1>1 DEF PretagOK

\* All labels are written, or none of them counts.
LEMMA LabelOK ==
  ASSUME PretagOK, P!Label
  PROVE  PretagOK'
  <1>1. UNCHANGED <<table, told>> /\ stage = "label" /\ stage' = "author again" /\ form.named = form.tu
    BY DEF P!Label, PretagOK
  <1>2. CASE form' = [form EXCEPT !.named = P!Named(form.tu)] /\ UNCHANGED labels
    <2>1. DOMAIN form' = DOMAIN form /\ form'.tree = form.tree /\ form'.tu = form.tu /\ form'.named = P!Named(form.tu)
      BY <1>2 DEF PretagOK
    <2>2. P!Named(form.tu)' = P!Named(form.tu)
      <3>1. P!Entries("A")' = P!Entries("A") /\ P!Entries("B")' = P!Entries("B")
        BY <2>1 DEF P!Entries
      <3>2. form'.tu = form.tu /\ labels' = labels
        BY <1>2, <2>1
      <3> QED
        BY <3>1, <3>2 DEF P!Named
    <2> QED
      BY <1>1, <1>2, <2>1, <2>2 DEF PretagOK
  <1>3. CASE labels' = {} /\ UNCHANGED form
    <2>1. P!Named(form.tu)' = form.tu
      <3>1. P!Named(form.tu)' = [o \in {"A", "B", "parent"} |-> form.tu[o]]
        BY <1>3 DEF PretagOK, P!Named
      <3> QED
        BY <3>1 DEF PretagOK
    <2> QED
      BY <1>1, <1>3, <2>1 DEF PretagOK
  <1> QED
    BY <1>2, <1>3 DEF P!Label

\* The tagger changes the tags and nothing that was decided.
LEMMA TagOK ==
  ASSUME PretagOK, P!Tag \/ UNCHANGED P!pretagVars
  PROVE  PretagOK'
  <1>1. UNCHANGED <<table, form, labels, told>>
    BY DEF P!Tag, P!pretagVars
  <1>2. \/ stage' = stage /\ tagged' = tagged
        \/ stage = "tag" /\ stage' = "tagged" /\ tagged' = P!TagTable(table)
    BY DEF P!Tag, P!pretagVars
  <1>3. P!Named(form.tu)' = P!Named(form.tu) /\ P!TagTable(table)' = P!TagTable(table)
    BY <1>1 DEF P!Named, P!Entries, P!TagTable, P!Layout, P!HasHeaders, P!Selection, P!Row
  <1> QED
    BY <1>1, <1>2, <1>3 DEF PretagOK

\* Documents begin without decisions, labels or tags.
LEMMA PretagInitOK ==
  ASSUME P!Init
  PROVE  PretagOK
  <1>1. DOMAIN table = {"docling", "author", "grid", "spans", "ruled", "unreadable", "confirmed", "queue"}
        /\ table.queue = P!Nothing
    <2>1. CASE table = P!Table0
      BY <2>1 DEF P!Table0
    <2>2. CASE table \in P!Tables
      <3>1. PICK t \in SUBSET P!Row : table \in P!TypesOf(t)
        BY <2>2 DEF P!Tables
      <3> QED
        BY <3>1 DEF P!TypesOf
    <2> QED
      BY <2>1, <2>2 DEF P!Init
  <1>2. /\ DOMAIN form = {"tree", "typed", "tu", "named"} /\ form.tree \in {"apart", "group", "nested"}
        /\ form.tu \in [{"A", "B", "parent"} -> {"none", "weak", "good"}] /\ form.named = form.tu
    <2>1. CASE form = P!Form0
      BY <2>1 DEF P!Form0
    <2>2. CASE form \in P!FormsOf
      BY <2>2 DEF P!FormsOf
    <2> QED
      BY <2>1, <2>2 DEF P!Init
  <1> QED
    BY <1>1, <1>2 DEF P!Init, PretagOK

\* Headers that are there outweigh what is queued; what the model changed is its whole
\* last answer; and a label names its widget.
LEMMA DecisionsHold ==
  ASSUME PretagOK
  PROVE  P!HeadersAreKept /\ P!WholeDecision /\ P!NamesFollow
  <1>1. P!HeadersAreKept
    <2> SUFFICES ASSUME stage = "tagged", P!HeaderRows(table) \cup table.docling \cup table.author # {}
                 PROVE  tagged.kind = "table" /\ tagged.heads = table.docling \cup table.author
      BY DEF P!HeadersAreKept
    <2>1. P!HasHeaders(table)
      BY DEF P!HeaderRows, P!HasHeaders
    <2>2. tagged = [kind |-> "table", by |-> "evidence", heads |-> table.docling \cup table.author]
      BY <2>1 DEF PretagOK, P!TagTable, P!Layout, P!HasHeaders
    <2> QED
      BY <2>2
  <1>2. P!WholeDecision
    <2> SUFFICES ASSUME stage = "tagged", tagged.by = "model"
                 PROVE  IF tagged.kind = "layout" THEN told.action = "reclassify_region"
                        ELSE told.action = "set_table_headers" /\ tagged.heads = told.rows
      BY DEF P!WholeDecision
    <2>1. tagged = P!TagTable(table) /\ (table.queue = P!Nothing \/ table.queue = told)
      BY DEF PretagOK
    <2>2. CASE P!Layout(table)
      BY <2>1, <2>2 DEF P!TagTable, P!Layout
    <2>3. CASE ~P!Layout(table)
      BY <2>1, <2>3 DEF P!TagTable, P!Selection
    <2> QED
      BY <2>2, <2>3
  <1>3. P!NamesFollow
    <2> SUFFICES ASSUME stage = "tagged", NEW w \in P!Widget, NEW v \in P!Widget \ {w},
                        form.tree = "apart" \/ v \notin labels
                 PROVE  P!NameOf(w, form.named) =
                          IF w \in labels THEN (IF w = "A" THEN "label A" ELSE "label B") ELSE P!NameOf(w, form.tu)
      BY DEF P!NamesFollow
    <2>1. form.named = P!Named(form.tu) /\ form.tree \in {"apart", "group", "nested"} /\ labels \subseteq {"A", "B"}
      BY DEF PretagOK, P!Widget
    <2>2. {w, v} = {"A", "B"}
      BY DEF P!Widget
    <2> DEFINE named == P!Named(form.tu)
               tu == form.tu
    <2>3. \A o \in {"A", "B", "parent"} :
            named[o] =
              IF form.tree = "apart"
                THEN IF o \in labels THEN (IF o = "A" THEN "label A" ELSE "label B") ELSE tu[o]
              ELSE IF o = "parent"
                THEN IF "B" \in labels THEN "label B" ELSE IF "A" \in labels THEN "label A" ELSE tu[o]
              ELSE IF form.tree = "nested" /\ o = "B" /\ "B" \in labels THEN "label B" ELSE tu[o]
      BY NamedIs
    <2>4. /\ P!NameOf(w, named) = IF form.tree = "apart" THEN named[w]
                                  ELSE IF form.tree = "group" \/ w = "A" THEN named["parent"]
                                  ELSE IF named[w] # "none" THEN named[w] ELSE named["parent"]
          /\ P!NameOf(w, tu) = IF form.tree = "apart" THEN tu[w]
                               ELSE IF form.tree = "group" \/ w = "A" THEN tu["parent"]
                               ELSE IF tu[w] # "none" THEN tu[w] ELSE tu["parent"]
      BY <2>1, NearestName
    <2> HIDE DEF named, tu
    <2>5. P!NameOf(w, named) = IF w \in labels THEN (IF w = "A" THEN "label A" ELSE "label B") ELSE P!NameOf(w, tu)
      <3>1. CASE form.tree = "apart"
        BY <2>1, <2>2, <2>3, <2>4, <3>1
      <3>2. CASE form.tree = "group"
        BY <2>1, <2>2, <2>3, <2>4, <3>2
      <3>3. CASE form.tree = "nested"
        BY <2>1, <2>2, <2>3, <2>4, <3>3
      <3> QED
        BY <2>1, <3>1, <3>2, <3>3
    <2> QED
      BY <2>1, <2>5 DEF named, tu
  <1> QED
    BY <1>1, <1>2, <1>3

------------------------------------------------------------------------------
(* The elements: theorems *)

\* Every behaviour begins with one part in order.
LEMMA ElementsBegin == ElementInit => FigureInv /\ PretagInv
  <1> SUFFICES ASSUME ElementInit
               PROVE  FigureInv /\ PretagInv
    OBVIOUS
  <1>1. part = "figures" => F!Init
    BY DEF ElementInit
  <1>2. part = "pretag" => P!Init
    BY DEF ElementInit
  <1> QED
    BY <1>1, <1>2, FigureInitOK, PretagInitOK DEF FigureInv, PretagInv

\* A step on a figure leaves it in order; the steps of the other parts leave it alone.
LEMMA FigureSteps ==
  ASSUME FigureInv, [ElementNext]_elementVars
  PROVE  FigureInv'
  <1> SUFFICES ASSUME part' = "figures"
               PROVE  FigureOK'
    BY DEF FigureInv
  <1>1. part = "figures" /\ (F!Next \/ UNCHANGED F!figureVars)
    BY DEF ElementNext, InFigures, InPretag, InTagging, InTables, InModel, elementVars, figureOnly, F!figureVars
  <1>2. FigureOK
    BY <1>1 DEF FigureInv
  <1> QED
    BY <1>1, <1>2, StartOK, RulesOK, PageOK, FollowedUpOK, JudgeOK, ApplyOK, RecoverOK, StoreOK, RestOK DEF F!Next

\* A step before the tags leaves what was decided in order.
LEMMA PretagSteps ==
  ASSUME PretagInv, [ElementNext]_elementVars
  PROVE  PretagInv'
  <1> SUFFICES ASSUME part' = "pretag"
               PROVE  PretagOK'
    BY DEF PretagInv
  <1>1. part = "pretag" /\ (P!Next \/ UNCHANGED P!pretagVars)
    BY DEF ElementNext, InFigures, InPretag, InTagging, InTables, InModel, elementVars, pretagOnly, P!pretagVars
  <1>2. PretagOK
    BY <1>1 DEF PretagInv
  <1> QED
    BY <1>1, <1>2, EvidenceOK, TextOK, AskedOK, TableDecideOK, FormsOK, LabelOK, TagOK DEF P!Next

\* Whatever stage hides, removes, describes or reuses a figure (intelligence_gemini_figures.py,
\* orchestrator.py), its reader is told, for every figure, cache age and number of documents.
THEOREM FiguresTell == ElementSpec => []FigureIsTold
  <1>1. FigureInv => FigureIsTold
    BY OrderTells DEF FigureInv, FigureIsTold
  <1> QED
    BY <1>1, ElementsBegin, FigureSteps, PTL DEF ElementSpec

\* Evidence outweighs the model, whose decision is applied whole or not at all, and a label
\* names its field (orchestrator.py, table_decisions.py, form_fields.py).
THEOREM DecisionsAreHeld == ElementSpec => []DecisionHolds
  <1>1. PretagInv => DecisionHolds
    BY DecisionsHold DEF PretagInv, DecisionHolds
  <1> QED
    BY <1>1, ElementsBegin, PretagSteps, PTL DEF ElementSpec

------------------------------------------------------------------------------
(* Tables: least and greatest *)

\* A set of naturals has a least element.
LEMMA LeastExists ==
  ASSUME NEW S \in SUBSET Nat, S # {}
  PROVE  \E x \in S : \A y \in S : x <= y
  <1>1. \E x \in S : \A y \in S : ~(<<y, x>> \in OpToRel(<, Nat))
    BY NatLessThanWellFounded, WFMin
  <1>2. PICK x \in S : \A y \in S : ~(<<y, x>> \in OpToRel(<, Nat))
    BY <1>1
  <1>3. \A y \in S : ~(y < x)
    BY <1>2 DEF OpToRel
  <1> QED
    BY <1>3

\* A set of naturals up to n has a greatest.
LEMMA GreatestExists ==
  ASSUME NEW n \in Nat, NEW S \in SUBSET (0..n), S # {}
  PROVE  \E x \in S : \A y \in S : x >= y
  <1> DEFINE T == {n - x : x \in S}
  <1>1. T \in SUBSET Nat /\ T # {}
    <2>1. \A x \in S : n - x \in Nat
      OBVIOUS
    <2>2. PICK x \in S : TRUE
      OBVIOUS
    <2> QED
      BY <2>1, <2>2
  <1> HIDE DEF T
  <1>2. PICK t \in T : \A u \in T : t <= u
    BY <1>1, LeastExists
  <1>3. PICK x \in S : t = n - x
    BY DEF T
  <1>4. \A y \in S : n - x <= n - y
    BY <1>2, <1>3 DEF T
  <1> QED
    BY <1>4

\* Least gives the least of a set of naturals.
LEMMA LeastIs ==
  ASSUME NEW S \in SUBSET Nat, S # {}
  PROVE  B!Least(S) \in S /\ \A y \in S : B!Least(S) <= y
  BY LeastExists DEF B!Least

\* Max gives the greatest of a bounded one.
LEMMA MaxIs ==
  ASSUME NEW n \in Nat, NEW S \in SUBSET (0..n), S # {}
  PROVE  M!Max(S) \in S /\ \A y \in S : M!Max(S) >= y
  BY GreatestExists DEF M!Max

------------------------------------------------------------------------------
(* Tables: the inductive invariant *)

\* A cell stands in the grid, wherever it may end.
CellOK(c) ==
  /\ DOMAIN c = {"row", "col", "rs", "cs", "flag", "proj"}
  /\ c.row \in B!RowIx /\ c.col \in B!ColIx
  /\ c.rs \in Nat \ {0} /\ c.cs \in Nat \ {0}

\* No two cells start at one slot.
CellsOK(cs) ==
  /\ \A c \in cs : CellOK(c)
  /\ \A c, d \in cs : c.row = d.row /\ c.col = d.col => c = d

TableInv == part = "tables" => CellsOK(cells)

------------------------------------------------------------------------------
(* Tables: the grid *)

\* A cell ends in its row before the next cell of the row, and no earlier than it starts.
LEMMA EndColIs ==
  ASSUME NEW cs, CellsOK(cs), NEW c \in cs
  PROVE  /\ B!EndCol(cs, c) \in (c.col + 1)..NumCols
         /\ \A d \in cs : d.row = c.row /\ d.col > c.col => B!EndCol(cs, c) <= d.col
  <1> DEFINE S == {c.col + c.cs, NumCols} \cup {o.col : o \in {d \in cs : d.row = c.row /\ d.col > c.col}}
  <1>1. S \in SUBSET Nat /\ S # {} /\ NumCols \in S /\ \A x \in S : x > c.col
    BY ElementConstants DEF ElementConstants, CellsOK, CellOK, B!ColIx
  <1>2. \A d \in cs : d.row = c.row /\ d.col > c.col => d.col \in S
    OBVIOUS
  <1>3. B!EndCol(cs, c) = B!Least(S)
    BY DEF B!EndCol
  <1> HIDE DEF S
  <1>4. B!Least(S) \in S /\ \A y \in S : B!Least(S) <= y
    BY <1>1, LeastIs
  <1>5. c.col \in Nat
    BY DEF CellsOK, CellOK, B!ColIx
  <1>6. B!Least(S) \in Nat /\ B!Least(S) > c.col /\ B!Least(S) <= NumCols
    BY <1>1, <1>4
  <1>7. B!Least(S) \in (c.col + 1)..NumCols
    BY <1>5, <1>6, ElementConstants DEF ElementConstants
  <1> QED
    BY <1>2, <1>3, <1>4, <1>7

\* A cell ends above the next cell that has a column of it.
LEMMA EndRowIs ==
  ASSUME NEW cs, CellsOK(cs), NEW c \in cs
  PROVE  /\ B!EndRow(cs, c) \in (c.row + 1)..NumRows
         /\ \A d \in cs : d.row > c.row /\ B!ShareCols(c, d) => B!EndRow(cs, c) <= d.row
  <1> DEFINE S == {c.row + c.rs, NumRows} \cup {o.row : o \in {d \in cs : d.row > c.row /\ B!ShareCols(c, d)}}
  <1>1. S \in SUBSET Nat /\ S # {} /\ NumRows \in S /\ \A x \in S : x > c.row
    BY ElementConstants DEF ElementConstants, CellsOK, CellOK, B!RowIx
  <1>2. \A d \in cs : d.row > c.row /\ B!ShareCols(c, d) => d.row \in S
    OBVIOUS
  <1>3. B!EndRow(cs, c) = B!Least(S)
    BY DEF B!EndRow
  <1> HIDE DEF S
  <1>4. B!Least(S) \in S /\ \A y \in S : B!Least(S) <= y
    BY <1>1, LeastIs
  <1>5. c.row \in Nat
    BY DEF CellsOK, CellOK, B!RowIx
  <1>6. B!Least(S) \in Nat /\ B!Least(S) > c.row /\ B!Least(S) <= NumRows
    BY <1>1, <1>4
  <1>7. B!Least(S) \in (c.row + 1)..NumRows
    BY <1>5, <1>6, ElementConstants DEF ElementConstants
  <1> QED
    BY <1>2, <1>3, <1>4, <1>7

\* Narrowed cells start where they started, and those of one row do not overlap.
LEMMA NarrowedIs ==
  ASSUME NEW cs, CellsOK(cs)
  PROVE  /\ CellsOK(B!Narrowed(cs))
         /\ \A c, d \in B!Narrowed(cs) : c.row = d.row /\ c.col < d.col => c.col + c.cs <= d.col
         /\ {B!Key(c) : c \in cs} \subseteq {B!Key(c) : c \in B!Narrowed(cs)}
  <1> DEFINE N(c) == [c EXCEPT !.cs = B!EndCol(cs, c) - c.col]
  <1>1. ASSUME NEW c \in cs
        PROVE  /\ CellOK(N(c)) /\ N(c).row = c.row /\ N(c).col = c.col
               /\ N(c).col + N(c).cs = B!EndCol(cs, c)
    <2>1. CellOK(c) /\ B!EndCol(cs, c) \in (c.col + 1)..NumCols
      BY EndColIs DEF CellsOK
    <2>2. N(c).cs = B!EndCol(cs, c) - c.col /\ N(c).row = c.row /\ N(c).col = c.col /\ N(c).rs = c.rs
          /\ DOMAIN N(c) = DOMAIN c
      BY <2>1 DEF CellOK
    <2> HIDE DEF N
    <2> QED
      BY <2>1, <2>2, ElementConstants DEF CellOK, B!ColIx, ElementConstants
  <1>2. B!Narrowed(cs) = {N(c) : c \in cs}
    BY DEF B!Narrowed
  <1> HIDE DEF N
  <1>3. CellsOK(B!Narrowed(cs))
    BY <1>1, <1>2 DEF CellsOK
  <1>4. ASSUME NEW c \in cs, NEW d \in cs, N(c).row = N(d).row, N(c).col < N(d).col
        PROVE  N(c).col + N(c).cs <= N(d).col
    BY <1>1, <1>4, EndColIs
  <1>5. \A c \in cs : B!Key(N(c)) = B!Key(c)
    BY <1>1 DEF B!Key
  <1> QED
    BY <1>2, <1>3, <1>4, <1>5

\* Fitted cells start where they started, within the grid, and do not overlap.
LEMMA FittedIs ==
  ASSUME NEW cs, CellsOK(cs)
  PROVE  /\ \A c \in B!Fitted(cs) : CellOK(c)
         /\ B!NoOverlap(B!Fitted(cs))
         /\ {B!Key(c) : c \in cs} \subseteq {B!Key(c) : c \in B!Fitted(cs)}
  <1> DEFINE n == B!Narrowed(cs)
             S(c) == [c EXCEPT !.rs = B!EndRow(n, c) - c.row]
  <1>1. B!InGrid(cs) = cs
    BY ElementConstants DEF B!InGrid, CellsOK, CellOK, B!RowIx, B!ColIx, ElementConstants
  <1>2. B!Fitted(cs) = {S(c) : c \in n}
    BY <1>1 DEF B!Fitted, B!Shortened
  <1>3. CellsOK(n) /\ \A c, d \in n : c.row = d.row /\ c.col < d.col => c.col + c.cs <= d.col
    BY NarrowedIs
  <1>4. {B!Key(c) : c \in cs} \subseteq {B!Key(c) : c \in n}
    BY NarrowedIs
  <1> HIDE DEF n
  <1>5. ASSUME NEW c \in n
        PROVE  /\ CellOK(S(c)) /\ S(c).row = c.row /\ S(c).col = c.col /\ S(c).cs = c.cs
               /\ S(c).row + S(c).rs = B!EndRow(n, c)
    <2>1. CellOK(c) /\ B!EndRow(n, c) \in (c.row + 1)..NumRows
      BY <1>3, EndRowIs DEF CellsOK
    <2>2. S(c).rs = B!EndRow(n, c) - c.row /\ S(c).row = c.row /\ S(c).col = c.col /\ S(c).cs = c.cs
          /\ DOMAIN S(c) = DOMAIN c
      BY <2>1 DEF CellOK
    <2> HIDE DEF S
    <2> QED
      BY <2>1, <2>2, ElementConstants DEF CellOK, B!RowIx, ElementConstants
  <1> HIDE DEF S
  <1>6. ASSUME NEW c \in n, NEW d \in n, NEW row \in B!RowIx, NEW col \in B!ColIx,
               B!Covers(S(c), row, col), B!Covers(S(d), row, col)
        PROVE  ~(c.row < d.row) /\ ~(c.row = d.row /\ c.col < d.col)
    <2>1. /\ c.col <= col /\ col < c.col + c.cs /\ d.col <= col /\ col < d.col + d.cs
          /\ d.row <= row /\ row < B!EndRow(n, c)
      BY <1>5, <1>6 DEF B!Covers
    <2>2. CellOK(c) /\ CellOK(d) /\ row \in Nat /\ col \in Nat
      BY <1>3 DEF CellsOK, B!RowIx, B!ColIx
    <2>3. ASSUME c.row < d.row PROVE FALSE
      <3>1. B!ShareCols(c, d)
        BY <2>1, <2>2 DEF B!ShareCols, CellOK, B!ColIx
      <3>2. B!EndRow(n, c) <= d.row /\ B!EndRow(n, c) \in Nat
        BY <1>3, <2>2, <2>3, <3>1, EndRowIs DEF CellOK, B!RowIx
      <3> QED
        BY <2>1, <2>2, <3>2 DEF CellOK, B!RowIx
    <2>4. ASSUME c.row = d.row, c.col < d.col PROVE FALSE
      BY <1>3, <2>1, <2>2, <2>4 DEF CellOK, B!ColIx
    <2> QED
      BY <2>3, <2>4
  <1>7. ASSUME NEW c \in n, NEW d \in n, NEW row \in B!RowIx, NEW col \in B!ColIx,
               B!Covers(S(c), row, col), B!Covers(S(d), row, col)
        PROVE  c = d
    <2>1. ~(c.row < d.row) /\ ~(c.row = d.row /\ c.col < d.col) /\ ~(d.row < c.row) /\ ~(d.row = c.row /\ d.col < c.col)
      BY <1>6, <1>7
    <2>2. c.row \in Nat /\ d.row \in Nat /\ c.col \in Nat /\ d.col \in Nat
      BY <1>3 DEF CellsOK, CellOK, B!RowIx, B!ColIx
    <2>3. c.row = d.row /\ c.col = d.col
      BY <2>1, <2>2
    <2> QED
      BY <1>3, <2>3 DEF CellsOK
  <1>8. B!NoOverlap(B!Fitted(cs))
    BY <1>2, <1>7 DEF B!NoOverlap
  <1>9. \A c \in n : B!Key(S(c)) = B!Key(c)
    BY <1>5 DEF B!Key
  <1> QED
    BY <1>2, <1>4, <1>5, <1>8, <1>9

\* The completed grid has each slot in one cell, and every cell where it started.
LEMMA CompletedIs ==
  ASSUME NEW cs, CellsOK(cs)
  PROVE  /\ B!NoOverlap(B!Completed(cs))
         /\ B!Free(B!Completed(cs)) = {}
         /\ {B!Key(c) : c \in cs} \subseteq {B!Key(c) : c \in B!Completed(cs)}
  <1> DEFINE f == B!Fitted(cs)
             new == {B!Cell(s[1], s[2], 1, 1) : s \in B!Free(f)}
  <1>1. B!Completed(cs) = f \cup new
    BY DEF B!Completed
  <1>2. B!NoOverlap(f) /\ {B!Key(c) : c \in cs} \subseteq {B!Key(c) : c \in f}
    BY FittedIs
  <1> HIDE DEF f
  <1>3. \A s \in B!Free(f) : s[1] \in B!RowIx /\ s[2] \in B!ColIx /\ \A c \in f : ~B!Covers(c, s[1], s[2])
    BY DEF B!Free
  <1>4. ASSUME NEW s \in B!Free(f), NEW row \in B!RowIx, NEW col \in B!ColIx
        PROVE  B!Covers(B!Cell(s[1], s[2], 1, 1), row, col) <=> row = s[1] /\ col = s[2]
    <2>1. s[1] \in Nat /\ s[2] \in Nat /\ row \in Nat /\ col \in Nat
      BY <1>3 DEF B!RowIx, B!ColIx
    <2> QED
      BY <2>1 DEF B!Covers, B!Cell
  <1>5. ASSUME NEW c \in f \cup new, NEW d \in f \cup new, NEW row \in B!RowIx, NEW col \in B!ColIx,
               B!Covers(c, row, col), B!Covers(d, row, col)
        PROVE  c = d
    <2>1. CASE c \in f /\ d \in f
      BY <1>2, <1>5, <2>1 DEF B!NoOverlap
    <2>2. ASSUME NEW x \in f, NEW s \in B!Free(f), B!Covers(x, row, col),
                 B!Covers(B!Cell(s[1], s[2], 1, 1), row, col)
          PROVE  FALSE
      BY <1>3, <1>4, <2>2
    <2>3. CASE c \in new /\ d \in new
      <3>1. PICK s \in B!Free(f) : c = B!Cell(s[1], s[2], 1, 1)
        BY <2>3
      <3>2. PICK t \in B!Free(f) : d = B!Cell(t[1], t[2], 1, 1)
        BY <2>3
      <3> QED
        BY <1>4, <1>5, <3>1, <3>2
    <2> QED
      BY <1>5, <2>1, <2>2, <2>3
  <1>6. B!NoOverlap(f \cup new)
    BY <1>5 DEF B!NoOverlap
  <1>7. B!Free(f \cup new) = {}
    <2> SUFFICES ASSUME NEW s \in B!Free(f \cup new)
                 PROVE  FALSE
      OBVIOUS
    <2>1. s \in B!Free(f)
      BY DEF B!Free
    <2>2. B!Cell(s[1], s[2], 1, 1) \in new /\ B!Covers(B!Cell(s[1], s[2], 1, 1), s[1], s[2])
      BY <1>3, <1>4, <2>1
    <2> QED
      BY <2>2 DEF B!Free
  <1> QED
    BY <1>1, <1>2, <1>6, <1>7

------------------------------------------------------------------------------
(* Tables: the steps *)

\* What is said of cells does not move them.
LEMMA MarkOK ==
  ASSUME NEW cs, CellsOK(cs), NEW some, NEW scope
  PROVE  CellsOK(B!Mark(cs, some, scope))
  <1> DEFINE Said(c) == IF c \in some THEN [c EXCEPT !.flag = scope] ELSE c
  <1>1. B!Mark(cs, some, scope) = {Said(c) : c \in cs}
    BY DEF B!Mark
  <1>2. \A c \in cs : CellOK(Said(c)) /\ Said(c).row = c.row /\ Said(c).col = c.col
    BY DEF CellsOK, CellOK
  <1> HIDE DEF Said
  <1> QED
    BY <1>1, <1>2 DEF CellsOK

\* Nor does the mark of a section row, which the projected cells of a row get.
LEMMA ProjectOK ==
  ASSUME NEW cs, CellsOK(cs), NEW some
  PROVE  CellsOK({IF c \in some THEN [c EXCEPT !.flag = "Row", !.proj = TRUE] ELSE c : c \in cs})
  <1> DEFINE Said(c) == IF c \in some THEN [c EXCEPT !.flag = "Row", !.proj = TRUE] ELSE c
  <1>2. \A c \in cs : CellOK(Said(c)) /\ Said(c).row = c.row /\ Said(c).col = c.col
    <2> TAKE c \in cs
    <2>1. CASE c \in some
      <3>1. DOMAIN Said(c) = DOMAIN c /\ Said(c).row = c.row /\ Said(c).col = c.col /\ Said(c).rs = c.rs /\ Said(c).cs = c.cs
        BY <2>1 DEF CellsOK, CellOK
      <3> HIDE DEF Said
      <3> QED
        BY <3>1 DEF CellsOK, CellOK
    <2>2. CASE c \notin some
      BY <2>2 DEF CellsOK
    <2> QED
      BY <2>1, <2>2
  <1> HIDE DEF Said
  <1>3. CellsOK({Said(c) : c \in cs})
    BY <1>2 DEF CellsOK
  <1> QED
    BY <1>3 DEF Said

\* No inference moves a cell.
LEMMA InferOK ==
  ASSUME CellsOK(cells), B!Infer
  PROVE  CellsOK(cells')
  <1>1. CellsOK(B!Labelled(FALSE)) /\ CellsOK(B!Labelled(TRUE))
    BY MarkOK DEF B!Labelled
  <1>2. CellsOK(B!Headed(cells)) /\ CellsOK(B!Headed(B!Labelled(TRUE)))
    BY <1>1, MarkOK DEF B!Headed
  <1>3. \A some : CellsOK(B!Sections(some))
    BY ProjectOK DEF B!Sections
  <1>4. CellsOK(B!Paired)
    <2> DEFINE across == {c \in B!Labelled(FALSE) : B!Across(c)}
    <2>1. B!Paired = {IF c \in across THEN [c EXCEPT !.flag = "Row", !.proj = TRUE] ELSE c : c \in B!Labelled(FALSE)}
      BY DEF B!Paired
    <2> HIDE DEF across
    <2> QED
      BY <1>1, <2>1, ProjectOK
  <1>5. cells' \in {cells} \cup B!Inferences
    BY DEF B!Infer
  <1> QED
    BY <1>1, <1>2, <1>3, <1>4, <1>5 DEF B!Inferences, B!HeaderRows

\* The extractor reports each cell once, and may flag it.
LEMMA TableInitOK ==
  ASSUME B!Init
  PROVE  CellsOK(cells)
  <1>1. PICK cs \in B!Explicit : cells \in B!Flaggings(cs)
    BY DEF B!Init
  <1>2. PICK p \in B!Odd : cs \in B!Laid(p[1], p[2])
    BY <1>1 DEF B!Explicit
  <1>3. p[1] \in SUBSET B!Slots /\ p[2] \in SUBSET B!Slots /\ p[2] \subseteq p[1]
    BY <1>2 DEF B!Odd
  <1>4. PICK g \in [p[2] -> (1..MaxSpan) \X (1..MaxSpan)] :
          cs = {B!Cell(s[1], s[2], g[s][1], g[s][2]) : s \in p[2]}
                 \cup {B!Cell(s[1], s[2], 1, 1) : s \in B!Slots \ p[1]}
    BY <1>2 DEF B!Laid
  <1>5. ASSUME NEW c \in cs
        PROVE  CellOK(c) /\ \E s \in B!Slots : c = IF s \in p[2] THEN B!Cell(s[1], s[2], g[s][1], g[s][2])
                                                   ELSE B!Cell(s[1], s[2], 1, 1)
    <2>1. CASE c \in {B!Cell(s[1], s[2], g[s][1], g[s][2]) : s \in p[2]}
      <3>1. PICK s \in p[2] : c = B!Cell(s[1], s[2], g[s][1], g[s][2])
        BY <2>1
      <3>2. g[s][1] \in 1..MaxSpan /\ g[s][2] \in 1..MaxSpan /\ s \in B!Slots
        BY <1>3, <1>4, <3>1
      <3>3. s[1] \in B!RowIx /\ s[2] \in B!ColIx
        BY <3>2 DEF B!Slots
      <3>4. CellOK(c)
        BY <3>1, <3>2, <3>3, ElementConstants DEF CellOK, B!Cell, ElementConstants
      <3> QED
        BY <3>1, <3>2, <3>4
    <2>2. CASE c \in {B!Cell(s[1], s[2], 1, 1) : s \in B!Slots \ p[1]}
      BY <1>3, <2>2 DEF CellOK, B!Cell, B!Slots
    <2> QED
      BY <1>4, <2>1, <2>2
  <1>6. ASSUME NEW c \in cs, NEW d \in cs, c.row = d.row, c.col = d.col
        PROVE  c = d
    <2>1. PICK s \in B!Slots : c = IF s \in p[2] THEN B!Cell(s[1], s[2], g[s][1], g[s][2]) ELSE B!Cell(s[1], s[2], 1, 1)
      BY <1>5
    <2>2. PICK u \in B!Slots : d = IF u \in p[2] THEN B!Cell(u[1], u[2], g[u][1], g[u][2]) ELSE B!Cell(u[1], u[2], 1, 1)
      BY <1>5
    <2>3. s[1] = u[1] /\ s[2] = u[2]
      BY <1>6, <2>1, <2>2 DEF B!Cell
    <2>4. s = u
      BY <2>3 DEF B!Slots
    <2> QED
      BY <2>1, <2>2, <2>4
  <1>7. CellsOK(cs)
    BY <1>5, <1>6 DEF CellsOK
  <1>8. CellsOK(B!Stubbed(cs)) /\ CellsOK(B!Headed(cs)) /\ CellsOK(B!Unscoped(cs))
    BY <1>7, MarkOK DEF B!Stubbed, B!Headed, B!Unscoped
  <1>9. CellsOK(B!Headed(B!Stubbed(cs)))
    BY <1>8, MarkOK DEF B!Headed
  <1>10. CellsOK(B!Cornered(B!Headed(B!Stubbed(cs))))
    BY <1>9, MarkOK DEF B!Cornered
  <1> QED
    BY <1>1, <1>7, <1>8, <1>9, <1>10 DEF B!Flaggings

\* The other steps leave the cells alone.
LEMMA TableStep ==
  ASSUME CellsOK(cells), B!TableNext \/ UNCHANGED B!tableVars
  PROVE  CellsOK(cells')
  <1>1. CASE B!Infer
    BY <1>1, InferOK
  <1>2. CASE ~B!Infer
    <2>1. UNCHANGED cells
      BY <1>2 DEF B!TableNext, B!Read, B!Layout, B!External, B!Build, B!Finish, B!Model, B!tableVars
    <2> QED
      BY <2>1
  <1> QED
    BY <1>1, <1>2

------------------------------------------------------------------------------
(* The vision model's grid *)

ModelInv == part = "model" => (stage = "grid" => otsl \in M!Texts)

\* The rows of an answer, of which none is longer than the bound.
LEMMA TextIs ==
  ASSUME NEW t \in M!Texts
  PROVE  /\ DOMAIN t = 1..Len(t) /\ Len(t) \in 1..MaxTokens
         /\ \A r \in DOMAIN t : \E k \in 1..MaxTokens : t[r] \in [1..k -> M!Tokens] /\ Len(t[r]) = k
  <1>1. PICK m \in 1..MaxTokens, n \in 1..MaxTokens : t \in [1..m -> M!RowsOf(n)]
    BY DEF M!Texts, M!Sizes
  <1>2. MaxTokens \in Nat
    BY ElementConstants DEF ElementConstants
  <1>3. m \in Nat /\ n \in Nat /\ DOMAIN t = 1..m
    BY <1>1, <1>2
  <1>4. Len(t) = m
    BY <1>1, <1>3
  <1>5. ASSUME NEW r \in DOMAIN t
        PROVE  \E k \in 1..MaxTokens : t[r] \in [1..k -> M!Tokens] /\ Len(t[r]) = k
    <2>0. t[r] \in M!RowsOf(n)
      BY <1>1, <1>3
    <2>1. PICK k \in 1..n : t[r] \in [1..k -> M!Tokens]
      BY <2>0 DEF M!RowsOf
    <2>2. k \in 1..MaxTokens /\ k \in Nat
      BY <1>1, <1>2, <1>3
    <2>3. Len(t[r]) = k
      BY <2>1, <2>2
    <2> QED
      BY <2>1, <2>2, <2>3
  <1> QED
    BY <1>1, <1>3, <1>4, <1>5

\* An answer is no wider than the bound.
LEMMA WidthIs ==
  ASSUME NEW t \in M!Texts
  PROVE  M!Width(t) \in 1..MaxTokens
  <1> DEFINE S == {Len(t[r]) : r \in DOMAIN t}
  <1>0. MaxTokens \in Nat /\ 1..MaxTokens \subseteq 0..MaxTokens
    BY ElementConstants DEF ElementConstants
  <1>1. S \in SUBSET (1..MaxTokens) /\ S # {}
    <2>1. \A r \in DOMAIN t : Len(t[r]) \in 1..MaxTokens
      BY TextIs
    <2>2. 1 \in DOMAIN t
      BY <1>0, TextIs
    <2> QED
      BY <2>1, <2>2
  <1>2. M!Width(t) = M!Max(S)
    BY DEF M!Width
  <1> HIDE DEF S
  <1>3. S \in SUBSET (0..MaxTokens)
    BY <1>0, <1>1
  <1>4. M!Max(S) \in S
    BY <1>0, <1>1, <1>3, MaxIs
  <1> QED
    BY <1>1, <1>2, <1>4

\* How far a cell reaches: over what continues it.
LEMMA SpansAre ==
  ASSUME NEW t \in M!Texts, NEW r \in DOMAIN t, NEW c \in 1..M!Width(t)
  PROVE  /\ M!ColSpan(t, r, c) \in Nat \ {0} /\ M!RowSpan(t, r, c) \in Nat \ {0}
         /\ \A i \in 1..(M!ColSpan(t, r, c) - 1) : M!Kind(t, r, c + i) = "lcel"
         /\ \A i \in 1..(M!RowSpan(t, r, c) - 1) :
              /\ M!Kind(t, r + i, c) = "ucel"
              /\ \A k \in 1..(M!ColSpan(t, r, c) - 1) : M!Kind(t, r + i, c + k) = "xcel"
  <1> DEFINE S == {n \in 1..M!Width(t) : \A i \in 1..(n - 1) : c + i <= M!Width(t) /\ M!Kind(t, r, c + i) = "lcel"}
             T == {n \in 1..Len(t) : \A i \in 1..(n - 1) :
                     /\ r + i <= Len(t) /\ M!Kind(t, r + i, c) = "ucel"
                     /\ \A k \in 1..(M!ColSpan(t, r, c) - 1) : M!Kind(t, r + i, c + k) = "xcel"}
  <1>1. M!Width(t) \in 1..MaxTokens /\ Len(t) \in 1..MaxTokens /\ MaxTokens \in Nat
    BY WidthIs, TextIs, ElementConstants DEF ElementConstants
  <1>2. 1..(1 - 1) = {}
    OBVIOUS
  <1>3. /\ S \in SUBSET (0..MaxTokens) /\ S # {}
        /\ T \in SUBSET (0..MaxTokens) /\ T # {}
    <2>1. /\ 1 \in 1..M!Width(t) /\ 1 \in 1..Len(t)
          /\ 1..M!Width(t) \subseteq 0..MaxTokens /\ 1..Len(t) \subseteq 0..MaxTokens
      <3> HIDE DEF S, T
      <3>1. \A w \in 1..MaxTokens : 1 \in 1..w /\ 1..w \subseteq 0..MaxTokens
        BY <1>1
      <3> QED
        BY <1>1, <3>1
    <2>4. \A i \in 1..(1 - 1) : FALSE
      BY <1>2
    <2>3. 1 \in S
      BY <2>1, <2>4, Zenon
    <2>5. 1 \in T
      BY <2>1, <2>4, Zenon
    <2>6. S \subseteq 1..M!Width(t) /\ T \subseteq 1..Len(t)
      BY Zenon
    <2> QED
      BY <2>1, <2>3, <2>5, <2>6
  <1>4. M!ColSpan(t, r, c) = M!Max(S) /\ M!RowSpan(t, r, c) = M!Max(T)
    BY DEF M!ColSpan, M!RowSpan
  <1>5. M!Max(S) \in S /\ M!Max(T) \in T
    <2> HIDE DEF S, T
    <2> QED
      BY <1>1, <1>3, MaxIs
  <1>6. M!ColSpan(t, r, c) \in S /\ M!RowSpan(t, r, c) \in T
    BY <1>4, <1>5
  <1> QED
    BY <1>1, <1>6

\* What a slot holds tells where in its cell it lies.
LEMMA KindTells ==
  ASSUME NEW t \in M!Texts, NEW r \in DOMAIN t, NEW c \in 1..M!Width(t), M!Kind(t, r, c) = "cell",
         NEW x \in Nat, NEW y \in Nat,
         r <= x, x < r + M!RowSpan(t, r, c), c <= y, y < c + M!ColSpan(t, r, c)
  PROVE  M!Kind(t, x, y) = IF x = r THEN (IF y = c THEN "cell" ELSE "lcel")
                           ELSE IF y = c THEN "ucel" ELSE "xcel"
  <1>1. r \in Nat /\ c \in Nat /\ M!RowSpan(t, r, c) \in Nat /\ M!ColSpan(t, r, c) \in Nat
    BY TextIs, WidthIs, SpansAre
  <1>2. x # r => x - r \in 1..(M!RowSpan(t, r, c) - 1) /\ r + (x - r) = x
    BY <1>1
  <1>3. y # c => y - c \in 1..(M!ColSpan(t, r, c) - 1) /\ c + (y - c) = y
    BY <1>1
  <1>4. CASE x = r /\ y # c
    BY <1>3, <1>4, SpansAre
  <1>5. CASE x # r /\ y = c
    BY <1>2, <1>5, SpansAre
  <1>6. CASE x # r /\ y # c
    <2>1. M!Kind(t, r + (x - r), c + (y - c)) = "xcel"
      BY <1>2, <1>3, <1>6, SpansAre
    <2> QED
      BY <1>2, <1>3, <1>6, <2>1
  <1> QED
    BY <1>4, <1>5, <1>6

\* Two cells that share a slot share the one that is below and right of both their starts,
\* whose kind says that it starts them both.
LEMMA StartedApart ==
  ASSUME NEW t \in M!Texts,
         NEW r \in DOMAIN t, NEW c \in 1..M!Width(t), M!Kind(t, r, c) = "cell",
         NEW p \in DOMAIN t, NEW q \in 1..M!Width(t), M!Kind(t, p, q) = "cell",
         NEW x \in Nat, NEW y \in Nat,
         r <= x, x < r + M!RowSpan(t, r, c), c <= y, y < c + M!ColSpan(t, r, c),
         p <= x, x < p + M!RowSpan(t, p, q), q <= y, y < q + M!ColSpan(t, p, q)
  PROVE  r = p /\ c = q
  <1> DEFINE u == IF r <= p THEN p ELSE r
             v == IF c <= q THEN q ELSE c
  <1>1. r \in Nat /\ c \in Nat /\ p \in Nat /\ q \in Nat
        /\ M!RowSpan(t, r, c) \in Nat /\ M!ColSpan(t, r, c) \in Nat
        /\ M!RowSpan(t, p, q) \in Nat /\ M!ColSpan(t, p, q) \in Nat
    <2>1. r \in Nat /\ p \in Nat
      BY TextIs
    <2>2. c \in Nat /\ q \in Nat
      BY WidthIs
    <2> QED
      BY <2>1, <2>2, SpansAre
  <1>2. u \in Nat /\ v \in Nat /\ r <= u /\ p <= u /\ u <= x /\ c <= v /\ q <= v /\ v <= y
        /\ u \in {r, p} /\ v \in {c, q}
    BY <1>1
  <1> HIDE DEF u, v
  <1>3. M!Kind(t, u, v) = IF u = r THEN (IF v = c THEN "cell" ELSE "lcel")
                          ELSE IF v = c THEN "ucel" ELSE "xcel"
    BY <1>1, <1>2, KindTells
  <1>4. M!Kind(t, u, v) = IF u = p THEN (IF v = q THEN "cell" ELSE "lcel")
                          ELSE IF v = q THEN "ucel" ELSE "xcel"
    BY <1>1, <1>2, KindTells
  <1> QED
    BY <1>2, <1>3, <1>4

\* The grid of an answer has each slot in one cell.
LEMMA GridIs ==
  ASSUME NEW t \in M!Texts, NEW s \in M!Slots(t)
  PROVE  Cardinality({g \in M!Grid(t) : M!Covered(g, s)}) = 1
  <1> DEFINE begin == {x \in M!Slots(t) : M!Kind(t, x[1], x[2]) = "cell"}
             started == {M!GridCell(x[1], x[2], M!RowSpan(t, x[1], x[2]), M!ColSpan(t, x[1], x[2])) : x \in begin}
             unclaimed == {x \in M!Slots(t) : \A g \in started : ~M!Covered(g, x)}
             own == {M!GridCell(x[1], x[2], 1, 1) : x \in unclaimed}
  <1>1. M!Grid(t) = started \cup own
    BY DEF M!Grid
  <1>2. \A x \in M!Slots(t) : x[1] \in DOMAIN t /\ x[2] \in 1..M!Width(t) /\ x[1] \in Nat /\ x[2] \in Nat
                              /\ x = <<x[1], x[2]>>
    BY TextIs, WidthIs DEF M!Slots
  <1>3. ASSUME NEW x \in M!Slots(t), NEW y \in M!Slots(t), NEW m \in Nat \ {0}, NEW n \in Nat \ {0}
        PROVE  M!Covered(M!GridCell(x[1], x[2], m, n), y)
                 <=> x[1] <= y[1] /\ y[1] < x[1] + m /\ x[2] <= y[2] /\ y[2] < x[2] + n
    BY <1>2 DEF M!Covered, M!GridCell
  <1>4. \A x \in begin : M!RowSpan(t, x[1], x[2]) \in Nat \ {0} /\ M!ColSpan(t, x[1], x[2]) \in Nat \ {0}
    BY <1>2, SpansAre
  <1>5. ASSUME NEW g \in started, NEW h \in started, M!Covered(g, s), M!Covered(h, s)
        PROVE  g = h
    <2>1. PICK x \in begin : g = M!GridCell(x[1], x[2], M!RowSpan(t, x[1], x[2]), M!ColSpan(t, x[1], x[2]))
      OBVIOUS
    <2>2. PICK y \in begin : h = M!GridCell(y[1], y[2], M!RowSpan(t, y[1], y[2]), M!ColSpan(t, y[1], y[2]))
      OBVIOUS
    <2>3. x[1] <= s[1] /\ s[1] < x[1] + M!RowSpan(t, x[1], x[2]) /\ x[2] <= s[2] /\ s[2] < x[2] + M!ColSpan(t, x[1], x[2])
      BY <1>3, <1>4, <1>5, <2>1
    <2>4. y[1] <= s[1] /\ s[1] < y[1] + M!RowSpan(t, y[1], y[2]) /\ y[2] <= s[2] /\ s[2] < y[2] + M!ColSpan(t, y[1], y[2])
      BY <1>3, <1>4, <1>5, <2>2
    <2>5. x[1] = y[1] /\ x[2] = y[2]
      BY <1>2, <2>3, <2>4, StartedApart
    <2> QED
      BY <2>1, <2>2, <2>5
  <1>6. CASE s \in unclaimed
    <2>1. ASSUME NEW g \in own, M!Covered(g, s)
          PROVE  g = M!GridCell(s[1], s[2], 1, 1)
      <3>1. PICK x \in unclaimed : g = M!GridCell(x[1], x[2], 1, 1)
        BY <2>1
      <3>2. x[1] <= s[1] /\ s[1] < x[1] + 1 /\ x[2] <= s[2] /\ s[2] < x[2] + 1
        BY <1>3, <2>1, <3>1
      <3>3. x[1] = s[1] /\ x[2] = s[2]
        BY <1>2, <3>2
      <3> QED
        BY <3>1, <3>3
    <2>2. M!Covered(M!GridCell(s[1], s[2], 1, 1), s)
      <3>1. s[1] \in Nat /\ s[2] \in Nat
        BY <1>2
      <3> QED
        BY <1>3, <3>1
    <2>3. {g \in M!Grid(t) : M!Covered(g, s)} = {M!GridCell(s[1], s[2], 1, 1)}
      BY <1>1, <1>6, <2>1, <2>2
    <2> QED
      BY <2>3, FS_Singleton
  <1>7. CASE s \notin unclaimed
    <2>1. PICK g \in started : M!Covered(g, s)
      BY <1>7
    <2>2. ASSUME NEW h \in own, M!Covered(h, s)
          PROVE  FALSE
      <3>1. PICK x \in unclaimed : h = M!GridCell(x[1], x[2], 1, 1)
        BY <2>2
      <3>2. x[1] <= s[1] /\ s[1] < x[1] + 1 /\ x[2] <= s[2] /\ s[2] < x[2] + 1
        BY <1>3, <2>2, <3>1
      <3>3. x = s
        BY <1>2, <3>2
      <3> QED
        BY <1>7, <3>3
    <2>3. {h \in M!Grid(t) : M!Covered(h, s)} = {g}
      BY <1>1, <1>5, <2>1, <2>2
    <2> QED
      BY <2>3, FS_Singleton
  <1> QED
    BY <1>6, <1>7

\* A grid is asked for only of an answer.
LEMMA ModelStep ==
  ASSUME stage = "grid" => otsl \in M!Texts, M!Next \/ UNCHANGED M!modelVars
  PROVE  stage' = "grid" => otsl' \in M!Texts
  <1>1. CASE M!Ask
    BY <1>1 DEF M!Ask
  <1>2. CASE M!Parse
    BY <1>2 DEF M!Parse
  <1>3. CASE M!Lines \/ M!Words \/ M!Decide
    BY <1>3 DEF M!Lines, M!Words, M!Decide, M!Enter
  <1>4. CASE UNCHANGED M!modelVars
    BY <1>4 DEF M!modelVars
  <1> QED
    BY <1>1, <1>2, <1>3, <1>4 DEF M!Next

\* The tables begin with cells at slots of their own, and the vision model without an answer.
LEMMA TablesBegin == ElementInit => TableInv /\ ModelInv
  <1> SUFFICES ASSUME ElementInit
               PROVE  TableInv /\ ModelInv
    OBVIOUS
  <1>1. part = "tables" => B!Init
    BY DEF ElementInit
  <1>2. part = "model" => M!Init
    BY DEF ElementInit
  <1>3. M!Init => stage = "ask"
    BY DEF M!Init
  <1> QED
    BY <1>1, <1>2, <1>3, TableInitOK DEF TableInv, ModelInv

\* A step on a table moves no cell; the steps of the other parts leave it alone.
LEMMA TableSteps ==
  ASSUME TableInv, [ElementNext]_elementVars
  PROVE  TableInv'
  <1> SUFFICES ASSUME part' = "tables"
               PROVE  CellsOK(cells')
    BY DEF TableInv, CellsOK, CellOK, B!RowIx, B!ColIx
  <1>1. part = "tables" /\ (B!TableNext \/ UNCHANGED B!tableVars)
    BY DEF ElementNext, InFigures, InPretag, InTagging, InTables, InModel, elementVars, tableOnly, B!tableVars
  <1> QED
    BY <1>1, TableStep DEF TableInv

\* Likewise of the vision model.
LEMMA ModelSteps ==
  ASSUME ModelInv, [ElementNext]_elementVars
  PROVE  ModelInv'
  <1> SUFFICES ASSUME part' = "model", stage' = "grid"
               PROVE  otsl' \in M!Texts
    BY DEF ModelInv, M!Texts, M!Sizes, M!RowsOf, M!Tokens
  <1>1. part = "model" /\ (M!Next \/ UNCHANGED M!modelVars)
    BY DEF ElementNext, InFigures, InPretag, InTagging, InTables, InModel, elementVars, modelOnly, M!modelVars
  <1>2. stage = "grid" => otsl \in M!Texts
    BY <1>1 DEF ModelInv
  <1> QED
    BY <1>1, <1>2, ModelStep

\* Whatever spans were reported (tagger_structure.py) or tokens answered (table_model.py), the
\* grid has each slot in one cell, and no cell the extractor gave moves, for a table of any size.
THEOREM GridsAreCovered == ElementSpec => []GridCovered
  <1>1. TableInv /\ ModelInv => GridCovered
    <2> SUFFICES ASSUME TableInv, ModelInv
                 PROVE  GridCovered
      OBVIOUS
    <2>1. part = "tables" => B!GridCovered
      <3> SUFFICES ASSUME part = "tables"
                   PROVE  B!GridCovered
        OBVIOUS
      <3>1. CellsOK(cells)
        BY DEF TableInv
      <3>2. /\ B!NoOverlap(B!Completed(cells))
            /\ B!Free(B!Completed(cells)) = {}
            /\ {B!Key(c) : c \in cells} \subseteq {B!Key(c) : c \in B!Completed(cells)}
        BY <3>1, CompletedIs
      <3> QED
        BY <3>2 DEF B!GridCovered
    <2>2. part = "model" => M!GridWhole
      <3>1. \A S : M!Cardinality(S) = Cardinality(S)
        BY DEF M!Cardinality, Cardinality
      <3> QED
        BY <3>1, GridIs DEF ModelInv, M!GridWhole
    <2> QED
      BY <2>1, <2>2 DEF GridCovered
  <1> QED
    BY <1>1, TablesBegin, TableSteps, ModelSteps, PTL DEF ElementSpec

===============================================================================
