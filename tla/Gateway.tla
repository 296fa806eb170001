-------------------------------- MODULE Gateway --------------------------------
(***************************************************************************)
(* The pipeline's calls of the model: the tasks of one job ask for JSON    *)
(* (intelligence_llm_utils.py) through one client (llm_client.py) with     *)
(* retries, a semaphore, a latch for a refused credential, a deadline for  *)
(* each ask (llm_operations.py), a memory of the response formats the      *)
(* model supports and a limit on the request's body (vision_requests.py).  *)
(***************************************************************************)
EXTENDS Naturals, FiniteSets, FiniteSetsExt, Functions

CONSTANTS Ask,            \* questions the job's tasks ask at the same time
          Counted,        \* bound: the questions whose lost runs are counted
          MaxRetries,     \* llm_max_retries
          MaxConcurrency, \* bound: the largest llm_max_concurrency that is set
          Image, Size,    \* inline images of a request and their encoded sizes
          TextSize, BodyLimit, \* size of the rest of a body, and its limit
          SmallestImage   \* no encoding of an image, at the least scale, is below it

VARIABLES ask,     \* each question and its request
          latch,   \* ModelAccess: the job's access to the model
          permits, \* what is left of the client's semaphore
          formats  \* the modes that FORMAT_CAPABILITIES knows the model to reject

gatewayVars == <<ask, latch, permits, formats>>

Modes == {"json_schema", "json_object", "text"}
FormatDowngrades == [json_schema |-> "json_object", json_object |-> "text"]
Refusals == {"sign_in", "access", "budget"}
Ended == {"succeeded", "failed", "cancelled"}
NoBody == <<>>

(***************************************************************************)
(* bound_vision_request: images that fit an even share of the room are     *)
(* sent as they are, and the others share what these leave.                *)
(***************************************************************************)
BodySize(images) == TextSize + SumFunction(images)

\* What each image may take of the room.
Granted(images, room) ==
  LET grant[at \in (SUBSET Image) \X (0..room)] ==
        LET rest  == at[1]
            share == at[2] \div Cardinality(rest)
            small == {i \in rest : images[i] <= share}
        IN IF rest = {} \/ small = {}
             THEN [i \in Image |-> IF i \in rest THEN share ELSE images[i]]
             ELSE grant[<<rest \ small, at[2] - SumFunctionOnSet(images, small)>>]
  IN grant[<<Image, room>>]

\* What may be sent: an image above its share is encoded anew, at any size up to it
\* (_fit_image), and where the text leaves no room nothing is.
Bounded(images) ==
  IF BodySize(images) < BodyLimit THEN {images}
  ELSE IF Image = {} \/ TextSize >= BodyLimit - 1 THEN {}
  ELSE LET grant == Granted(images, BodyLimit - 1 - TextSize)
       IN {now \in [Image -> 0..BodyLimit] :
             \A i \in Image : IF grant[i] = images[i] THEN now[i] = images[i]
                             ELSE now[i] \in SmallestImage..grant[i]}

\* An image may also have no encoding of the size it is given.
TooLarge(images) == BodySize(images) >= BodyLimit

(***************************************************************************)
(* Requests. A question that rests has no request of its own.              *)
(***************************************************************************)
Resting(pc, timedOut, lost) ==
  [pc |-> pc, mode |-> "json_schema", json |-> "initial", tries |-> 0, body |-> NoBody,
   timedOut |-> timedOut, lost |-> lost]

End(q, how) == Resting(how, q.timedOut, q.lost)

Init ==
  /\ ask = [a \in Ask |-> Resting("idle", FALSE, 0)]
  /\ latch = "available" /\ permits \in 1..MaxConcurrency
  /\ formats = {}

Refused == latch # "available"

\* The first format from m on that the model is not known to reject.
Usable(known, m) == IF m = "text" \/ m \notin known THEN m
                    ELSE IF FormatDowngrades[m] \notin known THEN FormatDowngrades[m] ELSE "text"

\* chat_completion: a new RequestAttempt, which a refused credential ends.
Chat(q, m) == IF Refused THEN End(q, "failed") ELSE [q EXCEPT !.pc = "prepare", !.mode = m, !.tries = 0]

Live(a) == ask[a].pc \notin Ended \cup {"idle"}

\* request_llm_json_with_response asks for the strictest format first.
Begin(a) ==
  /\ ask[a].pc = "idle"
  /\ ask' = [ask EXCEPT ![a] = Chat(@, Usable(formats, "json_schema"))]
  /\ UNCHANGED <<latch, permits, formats>>

\* Mutant: each attempt is counted as the first.
Attempt_NotCounted(q) == [q EXCEPT !.pc = "queued"]

\* RequestAttempt.transition to REQUESTING.
Attempt(q) == IF q.tries > MaxRetries THEN End(q, "failed")
              ELSE [q EXCEPT !.pc = "queued", !.tries = @ + 1]

\* prepare_request in its thread, and the check after it.
Prepared(a) ==
  /\ ask[a].pc = "prepare"
  /\ \E images \in [Image -> Size] :
       \/ /\ TooLarge(images) \/ Refused
          /\ ask' = [ask EXCEPT ![a] = End(@, "failed")]
       \/ /\ ~Refused
          /\ \E now \in Bounded(images) :
               ask' = [ask EXCEPT ![a] = [Attempt(@) EXCEPT !.body = [was |-> images, now |-> now]]]
  /\ UNCHANGED <<latch, permits, formats>>

\* _do_chat_completion once it has the semaphore.
Acquire(a) ==
  /\ ask[a].pc = "queued" /\ permits > 0
  /\ permits' = IF Refused THEN permits ELSE permits - 1
  /\ ask' = [ask EXCEPT ![a] = IF Refused THEN End(@, "failed")
                               ELSE [@ EXCEPT !.pc = "posting", !.body = NoBody]]
  /\ UNCHANGED <<latch, formats>>

\* ModelAccess.refuse.
Refuse(why) == latch' = IF Refused THEN latch ELSE why

\* _is_retryable: what never reached the model, a rate limit (429) and a server's error
\* (500, 502, 503, 504), after which the model may have run.
\* Mutant: every timeout is retried.
Retryable_AnyTimeout == {"connect", "busy", "broken", "timeout"}

Retryable == {"connect", "busy", "broken"}

\* After a server's error or a read timeout the model may have run, and been paid for,
\* without an answer.
MayHaveRun == {"broken", "timeout"}
Lost(a, answer) == IF a \in Counted /\ answer \in MayHaveRun THEN 1 ELSE 0

\* _should_try_alternate_response_format and FormatCapabilityCache.record.
TriesOtherFormat(q, answer) == answer = "unsupported" /\ q.mode # "text"

Learn(m, supported) == IF supported \/ m = "text" THEN formats \ {m} ELSE formats \cup {m}

\* The message of the answer: JSON, or text that is asked for again once.
Parsed(q, answer) ==
  IF answer = "ok" THEN End(q, "succeeded")
  ELSE IF q.json = "initial"
    THEN Chat([q EXCEPT !.json = "repair"], Usable(Learn(q.mode, TRUE), "json_schema"))
  ELSE End(q, "failed")

\* Mutant: an answer that arrives after a refusal is used.
Dropped_No(answer) == FALSE

\* An answer of the Gateway that arrives after a refusal is not looked at.
Dropped(answer) == Refused /\ answer \notin {"connect", "timeout"} \cup Refusals

\* What the answer makes of the question that waits for it.
Outcome(q, answer) ==
  IF answer \in Refusals \/ Dropped(answer) THEN End(q, "failed")
  ELSE IF answer \in {"ok", "prose"} THEN Parsed(q, answer)
  ELSE IF answer \in Retryable /\ q.tries <= MaxRetries THEN [q EXCEPT !.pc = "backoff"]
  ELSE IF TriesOtherFormat(q, answer) THEN Chat(q, Usable(formats, FormatDowngrades[q.mode]))
  ELSE End(q, "failed")

Answered(a, answer) ==
  LET mode == ask[a].mode
      next == Outcome(ask[a], answer)
  IN /\ ask[a].pc = "posting"
     /\ permits' = permits + 1
     /\ ask' = [ask EXCEPT ![a] = [next EXCEPT !.timedOut = answer = "timeout",
                                               !.lost = next.lost + Lost(a, answer)]]
     /\ IF answer \in Refusals THEN Refuse(answer) ELSE UNCHANGED latch
     /\ formats' = IF Dropped(answer) THEN formats
                   ELSE IF answer \in {"ok", "prose"} THEN Learn(mode, TRUE)
                   ELSE IF answer = "unsupported" THEN Learn(mode, FALSE)
                   ELSE formats

\* The backoff is over.
Wake(a) ==
  /\ ask[a].pc = "backoff"
  /\ ask' = [ask EXCEPT ![a] = IF Refused THEN End(@, "failed") ELSE Attempt(@)]
  /\ UNCHANGED <<latch, permits, formats>>

\* await_llm_operation gives up at any await of the ask, or the job is
\* cancelled; the request leaves the semaphore.
Deadline(a) ==
  /\ Live(a)
  /\ ask' = [ask EXCEPT ![a] = End(@, "cancelled")]
  /\ permits' = IF ask[a].pc = "posting" THEN permits + 1 ELSE permits
  /\ UNCHANGED <<latch, formats>>

\* FormatCapabilityCache forgets an entry: it is old, or the cache is full.
Forget(m) ==
  /\ m \in formats
  /\ formats' = formats \ {m}
  /\ UNCHANGED <<ask, latch, permits>>

Answers == {"ok", "prose", "unsupported", "bad", "busy", "broken", "connect", "timeout"} \cup Refusals

Step(a) ==
  \/ Begin(a) \/ Prepared(a) \/ Acquire(a) \/ Wake(a)
  \/ \E answer \in Answers : Answered(a, answer)

Next ==
  \/ \E a \in Ask : Step(a) \/ Deadline(a)
  \/ \E m \in Modes : Forget(m)

Spec == Init /\ [][Next]_gatewayVars

\* Every await of the client ends: httpx has a timeout, a backoff is capped
\* and a thread returns.
FairSpec == Spec /\ \A a \in Ask : WF_gatewayVars(Step(a))

(***************************************************************************)
(* Properties.                                                             *)
(***************************************************************************)
\* Once the Gateway has refused the job's credential no request leaves any
\* more and no answer is used, also of tasks that were waiting or in flight,
\* and the first reason stays the one the person is told.
QuietAfterRefusal ==
  [][Refused => /\ \A a \in Ask : ask'[a].pc # ask[a].pc => ask'[a].pc \notin {"posting", "succeeded"}
                /\ latch' = latch]_gatewayVars

\* A request that timed out, so that the model may have run and been paid for, is not
\* sent again in any form; and through the errors of the server that are answered by
\* sending it again, two rounds of three formats lose a bounded number of such runs,
\* since a round that leads to another one ended with an answer.
ChargesAreBounded ==
  \A a \in Ask : /\ ask[a].timedOut => ask[a].pc \in Ended
                 /\ ask[a].lost <= 6 * MaxRetries + 1

\* A body that is sent is below the limit, an image is touched only when the body was
\* too large, and then only if it was larger than every image that is sent: a small one
\* is not reduced because another one is large.
BodiesFit ==
  \A a \in Ask : LET b == ask[a].body IN
    b # NoBody =>
      /\ BodySize(b.now) < BodyLimit
      /\ BodySize(b.was) < BodyLimit => b.now = b.was
      /\ \A i \in Image : /\ b.now[i] <= b.was[i]
                          /\ b.now[i] < b.was[i] => \A j \in Image : b.now[j] < b.was[i]

\* Every question is answered, fails or is given up, through retries, other
\* formats and a repair, whatever the cache of formats forgets.
AllEnded == \A a \in Ask : ask[a].pc \in Ended
AsksEnd == <>AllEnded

================================================================================
