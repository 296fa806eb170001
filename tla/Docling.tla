--------------------------------- MODULE Docling ---------------------------------
(***************************************************************************)
(* One conversion of a PDF by Docling (docling_io.py, structure.py): the   *)
(* remote one, which submits, polls and fetches under one deadline, and    *)
(* the local one, with its repair of a damaged file.  The server is seen   *)
(* through the tasks it accepted.                                          *)
(***************************************************************************)
EXTENDS Naturals

CONSTANTS Attempts  \* DOCLING_SERVE_REQUEST_ATTEMPTS

VARIABLES
  phase,   \* DoclingPhase or LocalDoclingPhase; "illegal" when a transition was refused
  await,   \* what run waits for: "post", "backoff", "poll", "get", "pause"; "none"
  posts,   \* submission_attempts
  tries,   \* attempts of the GET under way
  task,    \* the POST whose answer gave task_id, 0: none
  server,  \* what became of each POST on the server
  expired, \* the deadline has passed
  local    \* the local conversion: what it works on

doclingVars == <<phase, await, posts, tries, task, server, expired, local>>

Settled == {"succeeded", "failed", "timed_out", "cancelled"}
Over == phase \in Settled \cup {"illegal"} \/ (phase = "unknown_submission" /\ await = "none")

\* _DOCLING_TRANSITIONS.
Transitions ==
  [ready              |-> {"submitting"},
   submitting         |-> {"unknown_submission", "polling", "failed", "timed_out", "cancelled"},
   resubmitting       |-> {"unknown_submission", "polling", "failed", "timed_out", "cancelled"},
   unknown_submission |-> {"resubmitting", "timed_out", "cancelled"},
   polling            |-> {"fetching", "failed", "timed_out", "cancelled"},
   fetching           |-> {"succeeded", "failed", "timed_out", "cancelled"}]

\* DoclingConversion.transition: run awaits next, or ends.
To(target, next) ==
  LET legal == target \in Transitions[phase] /\ (target \in {"submitting", "resubmitting"} => posts < Attempts)
  IN /\ phase' = IF legal THEN target ELSE "illegal"
     /\ await' = IF legal THEN next ELSE "none"
     /\ posts' = IF legal /\ target \in {"submitting", "resubmitting"} THEN posts + 1 ELSE posts
Stays(next) == await' = next /\ UNCHANGED <<phase, posts>>

(***************************************************************************)
(* The remote conversion.                                                  *)
(***************************************************************************)
\* run claims the instance before its first await.
Claim ==
  /\ phase = "ready" /\ local = "none"
  /\ To("submitting", "post")
  /\ UNCHANGED <<tries, task, server, expired, local>>

\* A POST that arrives; the work goes on whether its answer does or not.
Accept ==
  /\ await = "post" /\ server[posts] = "none" /\ ~expired
  /\ server' = [server EXCEPT ![posts] = "pending"]
  /\ UNCHANGED <<phase, await, posts, tries, task, expired, local>>
ServerEnds ==
  /\ \E n \in DOMAIN server, end \in {"success", "failure", "odd"} :
       server[n] = "pending" /\ server' = [server EXCEPT ![n] = end]
  /\ UNCHANGED <<phase, await, posts, tries, task, expired, local>>

\* Whatever run awaits, _request_once, _retry_sleep or the timeout around all ends it.
TimedOut ==
  /\ expired /\ await # "none"
  /\ To("timed_out", "none")
  /\ UNCHANGED <<tries, task, server, expired, local>>

\* submit: no answer, or one without a usable task ID, leaves the outcome unknown.
Exhausted == posts >= Attempts
Unanswered ==
  /\ await = "post"
  /\ To("unknown_submission", IF Exhausted THEN "none" ELSE "backoff")
  /\ UNCHANGED <<tries, task, server, expired, local>>
Resubmit ==
  /\ await = "backoff"
  /\ To("resubmitting", "post")
  /\ UNCHANGED <<tries, task, server, expired, local>>
Submitted ==
  /\ await = "post" /\ server[posts] # "none"
  /\ task' = posts
  /\ To("polling", "pause")
  /\ UNCHANGED <<tries, server, expired, local>>

\* Two seconds between polls.
Poll ==
  /\ await = "pause" /\ ~expired
  /\ tries' = 1 /\ Stays("poll")
  /\ UNCHANGED <<task, server, expired, local>>

\* A GET that is repeated: the connection failed, or the server asks to wait.
Repeat ==
  /\ await \in {"poll", "get"} /\ tries < Attempts /\ ~expired
  /\ tries' = tries + 1 /\ Stays(await)
  /\ UNCHANGED <<task, server, expired, local>>

\* RemoteTaskState.parse of the answer.
Polled ==
  /\ await = "poll"
  /\ CASE server[task] = "pending" -> Stays("pause") /\ tries' = tries
       [] server[task] = "success" -> To("fetching", "get") /\ tries' = 1
       [] OTHER -> To("failed", "none") /\ tries' = tries
  /\ UNCHANGED <<task, server, expired, local>>
Fetched ==
  /\ await = "get"
  /\ To("succeeded", "none")
  /\ UNCHANGED <<tries, task, server, expired, local>>

\* A refusal, the last of the attempts, or an answer without a document.
Fails ==
  /\ await \in {"post", "poll", "get"}
  /\ To("failed", "none")
  /\ UNCHANGED <<tries, task, server, expired, local>>

\* The attempt at the job is cancelled.
Cancel ==
  /\ await # "none"
  /\ To("cancelled", "none")
  /\ UNCHANGED <<tries, task, server, expired, local>>

Expire ==
  /\ await # "none" /\ ~expired
  /\ expired' = TRUE
  /\ UNCHANGED <<phase, await, posts, tries, task, server, local>>

(***************************************************************************)
(* The local conversion: LocalDoclingConversion.run.                       *)
(***************************************************************************)
LocalTransitions ==
  [ready |-> {"original"}, original |-> {"repairing", "succeeded"}, repairing |-> {"repaired", "failed"},
   repaired |-> {"succeeded", "failed"}]
LocalTo(target) ==
  /\ phase' = IF target \in LocalTransitions[phase] THEN target ELSE "illegal"
  /\ UNCHANGED <<await, posts, tries, task, server, expired>>

\* Converts as it is; else _repair_pdf_with_ghostscript writes another file, which has
\* one attempt.
Convert ==
  \/ phase = "ready" /\ local = "source" /\ LocalTo("original") /\ local' = local
  \/ phase = "original" /\ LocalTo("succeeded") /\ local' = local
  \/ phase = "original" /\ LocalTo("repairing") /\ local' = local
  \/ phase = "repairing" /\ LocalTo("repaired") /\ local' = "repaired"
  \/ phase = "repairing" /\ LocalTo("failed") /\ local' = local
  \/ phase = "repaired" /\ LocalTo("succeeded") /\ local' = local
  \/ phase = "repaired" /\ LocalTo("failed") /\ local' = local

Init ==
  /\ phase = "ready" /\ await = "none" /\ posts = 0 /\ tries = 0 /\ task = 0 /\ expired = FALSE
  /\ server = [n \in 1..Attempts |-> "none"]
  /\ local \in {"none", "source"}

\* What goes on by itself: the work of the client.
Works ==
  \/ Claim \/ TimedOut \/ Unanswered \/ Resubmit \/ Submitted \/ Poll \/ Repeat \/ Polled \/ Fetched \/ Fails
  \/ Convert

Next == Works \/ Accept \/ ServerEnds \/ Cancel \/ Expire
Spec == Init /\ [][Next]_doclingVars

\* Each request and pause is bounded, and time passes.
FairSpec == Spec /\ WF_doclingVars(Works) /\ WF_doclingVars(Expire)

(***************************************************************************)
(* Properties.                                                             *)
(***************************************************************************)
\* What a conversion says of itself holds: it gives a submission up as unknown only when
\* every attempt was used and none answered, repeats none that was answered, has a
\* result only of the task the server finished, and no handler of an error asks for a
\* transition that is refused, which would hide the error.
PhaseTells ==
  /\ phase # "illegal"
  /\ phase = "unknown_submission" /\ await = "none" => posts = Attempts /\ task = 0
  /\ task # 0 => posts = task
  /\ phase = "succeeded" /\ local = "none" => server[task] = "success"

\* A conversion ends, also when the server never does.
ConversionEnds == <>Over
================================================================================
