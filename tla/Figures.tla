-------------------------------- MODULE Figures --------------------------------
(***************************************************************************)
(* What becomes of one figure of a document: local rules                   *)
(* (figure_rules.py), the model's decision for its page and its follow-up  *)
(* (intelligence_figures.py) with the cache of descriptions                *)
(* (alt_text_cache.py), the result (alt_text.py), the removal of what is   *)
(* tagged otherwise and the row that is stored (orchestrator.py).          *)
(***************************************************************************)
EXTENDS Naturals

CONSTANTS MaxAge,  \* alt_text_cache.MAX_AGE_NS in ticks
          MaxNow,  \* bound: ticks
          MaxDocs  \* bound: documents that show the same figure

VARIABLES
  fig,     \* the figure, as the document shows it
  figPc,   \* the stage of the document
  prev,    \* the page's provisional decision, if it describes and a follow-up is asked for
  told,    \* the model's decision
  result,  \* AltTextResult
  fate,    \* of a figure that was reclassified: "none", "removed", "kept", "decorative"
  entry,   \* the stored row: AltTextEntry
  cached,  \* the description the cache holds for this request
  now, docs

figureVars == <<fig, figPc, prev, told, result, fate, entry, cached, now, docs>>

None == [text |-> "none"]

\* protect: what says that the figure is content. author: the /Alt or /ActualText of its
\* author, which may describe nothing; what else is true of such a figure is not looked at.
\* company: other figures share its request. child: a small detail of a much larger image.
Figure == {f \in [protect : {"no", "class", "reference", "caption"}, caption : BOOLEAN, file : BOOLEAN,
                  local : BOOLEAN, author : {"none", "author", "n/a", "decorative"}, company : BOOLEAN,
                  child : BOOLEAN, cover : {"none", "table", "form_field"}, auto : BOOLEAN] :
  /\ f.caption => f.protect = "caption"
  /\ f.child => f.protect # "caption" /\ f.company
  /\ f.author # "none" => ~f.local /\ ~f.company /\ f.cover = "none" /\ f.file}

\* usable_description of the texts that occur. "icon" is a description like "settings icon";
\* "decorative" and "n/a" are words of an author, or of a decision, that describe nothing.
Useful(text) == text \in {"good", "icon", "author", "caption"}

(***************************************************************************)
(* The model's answers: an action with any text, confidence, explanation,  *)
(* kind and flag. A decision without an action, or a reclassification      *)
(* without a kind, is normalized to manual_only. A kind that comes with    *)
(* another action only words what a person is told: one stands for all.    *)
(* Left out is what tells no two outcomes apart: "icon" for a figure of its*)
(* own, and an explanation where none is needed.                           *)
(***************************************************************************)
Answer(action, text, conf, reason, kind, deco) ==
  [action |-> action, text |-> text, conf |-> conf, reason |-> reason, kind |-> kind, deco |-> deco]
Manual == Answer("manual_only", "none", "low", TRUE, "none", FALSE)
Every ==
  {Answer(action, text, conf, reason, kind, deco) :
     action \in {"set_alt_text", "mark_decorative", "manual_only"}, text \in {"none", "good", "icon"},
     conf \in {"high", "medium", "low"}, reason \in BOOLEAN, kind \in {"none", "table"}, deco \in BOOLEAN}
  \cup {Answer("reclassify_region", text, conf, reason, kind, deco) :
          text \in {"none", "good", "icon"}, conf \in {"high", "medium", "low"}, reason \in BOOLEAN,
          kind \in {"table", "form_region", "artifact"}, deco \in BOOLEAN}
Answers == {a \in Every : (a.text = "icon" => fig.child) /\ (fig.protect = "no" => a.reason)}

\* Only the first request of a page, and only alone, is looked up.
Looked == ~fig.company /\ cached # None /\ now - cached.at < MaxAge

\* _finalize_figure_result hides the small details of a larger image.
Finalized(a) ==
  IF fig.child /\ a.action = "set_alt_text" /\ a.text = "icon"
    THEN Answer("mark_decorative", "none", a.conf, TRUE, a.kind, TRUE) ELSE a

FollowUp(a) == \/ a.conf = "low" \/ a.action = "manual_only"
               \/ a.action = "set_alt_text" /\ ~Useful(a.text)

(***************************************************************************)
(* Rules and results.                                                      *)
(***************************************************************************)
Result(status, text, kind) == [status |-> status, text |-> text, kind |-> kind]

\* decorative_reasons: tiny, invisible, covered by a later fill, or repeated
\* in the margin of several pages; never what is protected as content.
HiddenByRule == fig.local /\ fig.protect = "no" /\ fig.file

\* _caption_fallback, when nothing else describes the figure.
Fallback == IF fig.caption THEN Result("approved", "caption", "none") ELSE Result("pending_review", "none", "none")

\* Mutant: an explained decision may hide what the text refers to.
DecorationAllowed_Explained(a) == fig.protect = "no" \/ a.reason

\* model_decoration_allowed.
DecorationAllowed(a) == fig.protect = "no" \/ (fig.protect = "class" /\ a.reason)

\* The text of a decision, or the caption.
Described(a) == IF Useful(a.text) THEN a.text ELSE IF fig.caption THEN "caption" ELSE "none"

\* generate_alt_text: one decision of the model.
Judged(answer) ==
  LET a == IF /\ ~DecorationAllowed(answer)
              /\ \/ answer.deco \/ answer.action = "mark_decorative"
                 \/ answer.action = "reclassify_region" /\ answer.kind = "artifact"
             THEN Manual ELSE answer
      deco == a.deco \/ a.action = "mark_decorative"
  IN IF a.action = "reclassify_region" THEN Result("reclassified", a.text, a.kind)
     ELSE IF deco THEN Result("rejected", "decorative", a.kind)
     ELSE Result(IF Described(a) = "none" THEN "pending_review" ELSE "approved", Described(a), a.kind)

Init ==
  /\ fig \in Figure /\ figPc = "idle" /\ prev = None /\ told = None /\ result = None
  /\ fate = "none" /\ entry = None /\ cached = None /\ now = 0 /\ docs = 0

\* A document with the figure begins its alt text step.
Start ==
  /\ figPc \in {"idle", "stored"} /\ docs < MaxDocs
  /\ docs' = docs + 1 /\ figPc' = "rules"
  /\ prev' = None /\ told' = None /\ result' = None /\ fate' = "none" /\ entry' = None
  /\ UNCHANGED <<fig, cached, now>>

\* What needs no model: the author's words, useful or not (an empty or bracketed text is
\* none), a decorative image by local evidence, a crop that is missing.
Rules ==
  /\ figPc = "rules"
  /\ result' = IF fig.author # "none" THEN Result("approved", fig.author, "none")
               ELSE IF HiddenByRule THEN Result("rejected", "decorative", "none")
               ELSE IF ~fig.file THEN Fallback ELSE None
  /\ figPc' = IF result' = None THEN "page" ELSE "apply"
  /\ UNCHANGED <<fig, prev, told, fate, entry, cached, now, docs>>

\* _CachedFigureRequest.store.
Stored(a, once) ==
  /\ once /\ ~fig.company /\ ~Looked
  /\ a.action = "set_alt_text" /\ a.conf = "high" /\ ~a.deco /\ Useful(a.text)

\* AltTextCache.get moves an entry to the front and keeps its age.
Touched(c) == c

\* A decision that needs no other question is the figure's; it may be cached.
Decided(a, once) ==
  /\ told' = IF FollowUp(a) THEN None ELSE a
  /\ prev' = IF FollowUp(a) /\ Useful(a.text) THEN a ELSE None
  /\ figPc' = IF FollowUp(a) THEN "followup" ELSE "judge"
  /\ cached' = IF ~FollowUp(a) /\ Stored(a, once)
                 THEN [text |-> a.text, at |-> now, given |-> now, conf |-> a.conf, once |-> once]
               ELSE IF Looked THEN Touched(cached) ELSE cached

\* The request for the page: an answer of the cache or of the model, at the
\* first try or a repaired one, or none for this figure.
Page ==
  /\ figPc = "page"
  /\ \/ Looked /\ Decided(Answer("set_alt_text", cached.text, "medium", TRUE, "none", FALSE), FALSE)
     \/ ~Looked /\ \E answer \in Answers, once \in BOOLEAN : Decided(Finalized(answer), once)
     \/ ~Looked /\ figPc' = "followup" /\ UNCHANGED <<told, prev, cached>>
  /\ UNCHANGED <<fig, result, fate, entry, now, docs>>

\* An earlier description is not lost to an answer without one.
FollowedBy(a) ==
  LET had == prev # None /\ ~Useful(a.text)
  IN IF had /\ a.action \in {"set_alt_text", "manual_only"} THEN prev
     ELSE IF had /\ a.action = "reclassify_region" /\ a.kind # "artifact" THEN [a EXCEPT !.text = prev.text]
     ELSE a

\* A figure without a decision is asked about on its own, with an answer or none. How
\* confident that answer is no longer matters.
FollowedUp ==
  /\ figPc = "followup"
  /\ told' \in {FollowedBy(Finalized(a)) : a \in {x \in Answers : x.conf = "high"}} \cup {FollowedBy(Manual)}
  /\ figPc' = "judge" /\ prev' = None
  /\ UNCHANGED <<fig, result, fate, entry, cached, now, docs>>

Judge ==
  /\ figPc = "judge"
  /\ result' = Judged(told) /\ told' = None /\ figPc' = "apply"
  /\ UNCHANGED <<fig, prev, fate, entry, cached, now, docs>>

\* _reclassified_figure_cover: form fields carry a part of a form only.
Covered(kind) == fig.cover = "table" \/ (fig.cover = "form_field" /\ kind = "form_region")

\* A figure that nothing else carries stays a figure.
Kept(r) ==
  IF r.kind = "artifact" THEN Result("rejected", "none", r.kind)
  ELSE IF Useful(r.text) THEN Result("approved", r.text, r.kind) ELSE Result("pending_review", "none", r.kind)

\* _apply_figure_reclassification.
Apply ==
  /\ figPc = "apply"
  /\ fate' = IF result.status # "reclassified" THEN "none"
             ELSE IF result.kind = "artifact" THEN "decorative"
             ELSE IF Covered(result.kind) THEN "removed" ELSE "kept"
  /\ result' = IF fate' \in {"kept", "decorative"} THEN Kept(result) ELSE result
  /\ figPc' = "recover"
  /\ UNCHANGED <<fig, prev, told, entry, cached, now, docs>>

\* describe_unresolved_figures: one more question about what has no
\* description, which the cache does not answer.
Recover ==
  /\ figPc = "recover"
  /\ \/ UNCHANGED result
     \/ /\ result.status = "pending_review" /\ fig.file
        /\ \/ result' \in {Result("approved", a.text, result.kind) :
                             a \in {x \in Answers : x.action = "set_alt_text" /\ Useful(x.text)}}
           \/ result' \in {Result("rejected", "decorative", result.kind) :
                             a \in {x \in Answers : x.action = "mark_decorative" /\ DecorationAllowed(x)}}
  /\ figPc' = "store"
  /\ UNCHANGED <<fig, prev, told, fate, entry, cached, now, docs>>

\* _alt_text_entry_state.
RowOf(r) ==
  IF fig.auto /\ r.text = "decorative" THEN [status |-> "rejected", text |-> "none"]
  ELSE IF r.status = "rejected" THEN [status |-> "rejected", text |-> r.text]
  ELSE IF Useful(r.text) THEN [status |-> IF fig.auto THEN "approved" ELSE r.status, text |-> r.text]
  ELSE IF r.status = "pending_review" /\ r.kind \in {"table", "form_region"}
    THEN [status |-> "pending_review", text |-> "none"]
  ELSE IF fig.caption THEN [status |-> "approved", text |-> "caption"]
  ELSE [status |-> "pending_review", text |-> "none"]

\* The rows of the figures that are left, and the changes a person reviews.
Store ==
  /\ figPc = "store"
  /\ entry' = IF fate = "removed" THEN None ELSE RowOf(result)
  /\ figPc' = "stored"
  /\ UNCHANGED <<fig, prev, told, result, fate, cached, now, docs>>

\* Time passes; _prune_expired drops what is too old whenever the cache is
\* opened, so an entry that is too old is as good as absent.
Tick ==
  /\ now < MaxNow /\ now' = now + 1
  /\ cached' = IF cached # None /\ now' - cached.at >= MaxAge THEN None ELSE cached
  /\ UNCHANGED <<fig, figPc, prev, told, result, fate, entry, docs>>

\* AltTextCache.put of other descriptions crowds this one out.
Evict ==
  /\ cached # None /\ cached' = None
  /\ UNCHANGED <<fig, figPc, prev, told, result, fate, entry, now, docs>>

Next == \/ Start \/ Rules \/ Page \/ FollowedUp \/ Judge \/ Apply \/ Recover \/ Store \/ Tick \/ Evict

Spec == Init /\ [][Next]_figureVars

(***************************************************************************)
(* Properties.                                                             *)
(***************************************************************************)
\* What a caption or the text refers to is never hidden from a reader, by
\* any of the stages that may hide a figure, unless the author's word for it is "Decorative".
ReferencedStays ==
  fig.protect \in {"reference", "caption"} =>
    /\ result = None \/ result.status # "rejected"
    /\ entry = None \/ entry.status # "rejected" \/ fig.author = "decorative"

\* A figure leaves the structure only if tags carry what it shows: text in
\* a table, or fields for a part of a form.
RemovedIsCarried ==
  fate = "removed" => \/ fig.cover = "table"
                      \/ fig.cover = "form_field" /\ result.kind = "form_region"

\* An approved row has a description; a caption does not stand in for one
\* of a figure that the model took for a table or a form and that was kept.
ApprovedDescribes ==
  entry # None /\ entry.status = "approved" =>
    /\ Useful(entry.text)
    /\ entry.text = "caption" => fig.caption /\ fate # "kept"

\* The change that a person reviews says of the figure what its row says, unless its author
\* gave it words that describe nothing.
ChangeTellsRow ==
  entry # None /\ (fig.author = "none" \/ Useful(fig.author)) =>
                  /\ entry.status = result.status
                  /\ entry.status # "rejected" => entry.text = result.text

\* A description is reused only if the model gave it with confidence at its
\* first try, and no longer than MaxAge after that, however often it is read.
CacheIsTrusted ==
  cached # None => cached.conf = "high" /\ cached.once /\ now - cached.given < MaxAge

\* Together: whichever stage decided, the reader of the document and the reviewer of its
\* rows are told what the figure shows.
FigureIsTold == ReferencedStays /\ RemovedIsCarried /\ ApprovedDescribes /\ ChangeTellsRow /\ CacheIsTrusted

================================================================================
