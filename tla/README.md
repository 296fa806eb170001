# A TLA+ model of the PDF accessibility app

The app takes PDF uploads, makes them accessible with a pipeline of OCR, structure and
model calls, and lets people review what it changed. This directory models two halves of
it: the Cloudflare Worker with its Durable Object `JobBoard` and the files in R2, where
concurrency, failure and time meet; and the Python runner with its pipeline, where long
chains of decisions about one document must neither lose what was found nor claim what
was not proven. The modules are translated from the code, whose paths are relative to
the repository.

## The system

| Part | Where | State it keeps | Operations | What is hard | What makes it correct |
|---|---|---|---|---|---|
| Job board | `worker/src/board.ts` | SQLite tables `jobs`, `artifact_attempts`, `completions` | createJob, deleteJob, setOverride, queueReview, claim, checkLease, progress, complete, fail, the alarm's sweep | late, repeated and reordered runner calls; `complete` waits for R2; reviews wait behind syncs; retries | a job shows only what was published once under a live lease; it always ends; choices and waiting reviews are not lost |
| Gateway leg | `worker/src/credential.ts` | a leg in the row | eligibility at admission, claim and relay | three limits compared at different times | a running task can always use its leg; no leg is kept without a task |
| Steps | `worker/src/steps.ts` | steps in the row | progress, reset, fail | a retry or a review begins again half way | steps and status come from one result |
| File store | `board.ts`, `user-api.ts`, `runner-api.ts` | `uploads`, `upload_writes`, `cleanup`; R2 | upload (reserve, transfer, mark, create, abandon), PUT of a file (begin, end), cleanFiles | requests that die, lost answers, deletions that fail half way, PUTs racing deletions | what a job points to is there, what nothing points to goes |
| Runner | `backend/app/runner/tasks.py`, `client.py`, `__main__.py`, `thread_work.py` | phases of an attempt, permits, a heartbeat, threads | claim loop, supervised work, uploads, complete and fail, shutdown | work, heartbeat and deadline end at about the same time; threads outlive their caller | an acknowledged result wins over a lost lease; nothing is published after a loss; permits come back |
| Workspaces | `backend/app/runner/state.py` | attempt directories, two locks | create, hold, release, reap at start | runners start and crash while others work on the same volume | no directory in use is reaped, every abandoned one is |
| Review | `backend/app/services/review_*.py`, `tasks.py` (`_revisit`) | a document's revision, copies of its output, its changes, the archive | prepare, start, act, undo, publish, compensate, reconcile, prune | several commits that may each fail, in an attempt that may die | a revision ends once, a failure restores, a decision is recorded before it is forgotten |
| Pipeline | `backend/app/pipeline/orchestrator.py`, `services/job_transitions.py`, `candidate_state.py`, `release_policy.py` | the job's row, its steps, the candidate PDF | classify, OCR, structure, alt text, tag, validate, font lanes, fidelity, three kinds of retry, store | failures that are swallowed, refusals that must not be; the best of several candidates | only what was proven of the exact bytes is told; nothing good is given up |
| Model client | `backend/app/services/llm_client.py`, `llm_operations.py`, `intelligence_llm_utils.py`, `vision_requests.py` | a latch, a semaphore, a memory of response formats | ask, retry, downgrade the format, repair, bound the images | two questions of one job; a refusal while others wait; a deadline during a backoff | quiet after a refusal, no resend after a timeout and few after a server's error, every question ends |
| Docling conversion | `backend/app/pipeline/docling_io.py` | a submission and its task on the server | submit, back off, poll, fetch, give up; repair of a local file | a POST whose answer is lost; one deadline over all | it knows what became of its submissions |
| Classification and OCR | `classify.py`, `ocr.py`, `ocr_vlm_plugin.py`, `ocr_access.py`, `language.py` | passes, processes, receipts on disk | choose the passes, run OCRmyPDF, retry; a page asks the model or falls back | page processes share a refusal by files only | a completed step has read what had no text and kept the rest |
| Structure | `structure.py`, `toc_intelligence.py`, `title_intelligence.py`, `early_pages_intelligence.py`, `bookmark_intelligence.py`, `tagger_bookmarks.py` | elements, a plan of the outline | walk docling's tree, normalize, find and rebuild the table of contents, plan and write bookmarks | several passes rewrite one list; answers of the model overlap | nothing is heard twice or lost; bookmarks lead to their words |
| Figures | `alt_text.py`, `figure_rules.py`, `intelligence_figures.py`, `alt_text_cache.py` | a decision, a cache | rules, ask, follow up, reclassify, describe, store, evict | a figure may be hidden, removed or described at six places | reader and reviewer are told what it shows |
| Decisions before tagging | `author_structure.py`, `semantic_pretag_policy.py`, `table_decisions.py`, `grounded_text_*.py`, `form_fields.py` | what is queued for the tagger | transfer the author's tags, judge text, table, fields | several sources of evidence; asks that fail half way | evidence outweighs the model; a decision is whole |
| Table model | `table_model.py` | grids, a circuit breaker | ask, parse, align, assign words, decide | answers that are cut, ragged or wrong | a grid is whole and its words are in order |
| Tagging | `tagger.py`, `tagger_*.py`, `reading_order.py` | owners of words, marked content, the structure tree | own, vote, mark, finish, attach annotations, order; grids and headers of tables | two ways through one tree; nested streams; moved content | tree and content agree; every painted word is read; headers are headers |
| Fidelity | `fidelity.py`, `release_policy.py`, `grounded_text_intelligence.py` | checks, tasks | nineteen checks, merging, release, adjudication | tasks share keys; a second pass | held exactly for what is wrong; nothing found is lost |
| Fonts | `pipeline/fonts/*` | a font's ToUnicode map and glyphs, forms drawn in several text states | inspect, strip zero bytes, rebuild the map; give a code its glyph, take a missing glyph out of a form | one dictionary or stream serves many uses, and is rewritten once | what was promised has its text, no text is invented or lost, nothing seen moves |
| Frontend | `frontend/src/` | upload page, review action, polling view | events and answers | answers out of order | not modelled |
| Prompts, views, reports, scripts | `services/`, `scripts/`, `html_export` | none, or files of an evaluation | sequential | wording | not modelled |

The Worker and the board talk by RPC, the runner and the Worker by HTTP. The board never
calls a runner. A runner claims the oldest task and gets a lease; with it, it downloads,
runs the pipeline or a review in a workspace, reports progress, puts files and completes.
The pipeline's steps call docling and the model through the Worker's relay; a refusal of
the job's credential there must reach the job's row through every layer that catches
errors. The Worker reads the time before it calls the board, so the board sees times a
little in the past. The alarm uses the board's own time. `PROJECT.json` lists every part
with its status, and the hazards of this code at their lines.

## The modules

    Credential   Steps
         \        /
          JobRow                  one row of `jobs`, its guards, its rewriting
            |
         JobBoard --- implements ---> JobContract    what a person is promised
            |    \--- implements ---> Revisions      a job as its files see it
            :                            |
            :                        FileStore       uploads, cleanup, R2
            : leases and tasks
         Runner                   processes, attempts, directories, threads
            |  an attempt's work is one of
         Review    Pipeline       a review or sync; a document from upload to result
                      |  which asks
            Gateway, Docling                         services   (MCCalls, with Pipeline)
            Ocr, Structure, Outline,                 its text   (MCText)
            FontMaps, FontGlyphs, Fidelity
            Figures, Pretag, TableModel,
            Tagging, Tables                          its parts  (MCElements)

    JobBoard <- JobBoardProofs       FileStore <- FileStoreProofs
    Runner <- RunnerProofs           Review <- ReviewProofs
    Pipeline <- PipelineProofs       MCCalls <- CallsProofs
    MCText <- TextProofs             MCElements <- ElementsProofs

`MCJobBoard`, `MCFileStore`, `MCRunner`, `MCReview` and `MCPipeline` give constants their
values. `MCCalls`, `MCText` and `MCElements` put modules side by side: a variable `part`
says which one a behaviour is of, and the variables of the others rest. That is sound
because these modules share no state: the orchestrator runs them one after the other,
each on a file or on the structure the last one left, and what one finds in its input is
chosen freely. A property of such a run is the conjunction of the properties its modules
state, each under its own part.

### The Worker

**Credential** is `credentialEligibility` and the answers each caller accepts. A leg is
its expiry time; no leg is 0.

**Steps** keeps the status of each step and the code's changes to it.

**JobRow** is one row of `jobs` as a record, columns under their names, NULL as 0,
"none" or "idle". The private helpers of the board (`queueTask`, `endTask`, `failRow`,
`requeue`, `retrySync`, `stopSync`) are functions from row to row; the guards
(`guardTaskTransition`, `guardJobTransition`) are predicates.

**JobBoard** has one action for each handler. A Durable Object runs one handler at a
time between awaits of something else than its own storage, so a handler is atomic, but
for two: `complete` awaits R2 between its two reads of the row (`CompleteBegin`, then
`CompleteCommit`, `CompleteThrow` or `CompleteDrop`), and keep and resolve look at the
job in the Worker before `setOverride` (`CheckChoice`, then `SetOverride` or
`DropChoice`). `claim` includes its loop over rows that cannot be claimed, and `Sweep`
the whole pass of the alarm over `jobs`. A lease token is the number of the claim that
made it. A runner may use any lease ever given, at any time, in any order: crashed,
slow, duplicated and late calls are all of this kind. A request carries any time from
`MaxLag` before the clock to now. SQL rows are only ever read by key or by the
conditions kept here; messages, notices, names, owners' other data and the outcome log
are left out. `runner-api.ts` looks at the lease once more before some calls
(`checkLease` with renewal): that is `Renew`.

**JobContract** promises a person: a job is worked on, then shows an output or has
failed; an output changes only by a new publication; work taken back returns to exactly
the output shown before; failure and deletion are final.

**Revisions** keeps of a job its life, the served revision, the revision being staged
and the leases that were spent. A lease has no number there: one claim is one lease is
one revision. A lease simply lapses at some time. `Late` says whether a request may
carry a time that has passed.

**FileStore** is built on Revisions, whose operators give the rows a handler may turn a
row into. It adds `uploads`, `upload_writes`, `cleanup`, the objects in R2 and
everything that is on its way: the upload request of each job with its `createJob` call,
which may arrive after the request has given up; the PUTs; the manifests R2 has
confirmed to a `complete`; and the calls of `cleanFiles`, one for the alarm, one for
`deleteJob` and one for `abandonUpload` of each job, between listing, deletion and the
look for outstanding writes. A prefix is a job and a revision, 0 for the whole job; an
object too, so what a runner put of a revision is one object. A cleanup row waits, then
is due. `Expire`, `Lapse` and `Ripen` are the passing of time. The request's own
failures are `TransferEnds` (second disjunct), `LoseCall`, `UploadDies` and `PutDies`;
R2's and the board's are `CleanFail` and `CleanersLost`. A renewal with a time that has
passed is left out here (see disagreement 5).

### The runner

**Runner** has processes on one volume. `loop` is where `main` is (starting, waiting for
a permit, asking for a task, stopping), `att` an attempt of `tasks.py` with the phase of
its supervisor, of the work, of the heartbeat and of the uploads, `dirs`, `locked` and
`index` the volume, `net` the terminal calls on their way, and `board` what the Worker
makes of each lease. `while_held` waits for the first of three things to end and then
looks at all: `WorkEnds`, `HeartbeatLost` and `DeadlinePasses` set what has ended,
`Supervise` is the waking, with the precedence of the code (`AckWins`, `Verdict`). A
thread of `to_thread` cannot be stopped: `ThreadEnds` comes whenever it likes and
`owned_thread_work` waits for it. `Reap` is one directory of
`cleanup_abandoned_attempts`, between which others create theirs. `Crash` loses a
process with its locks; `Lapse` loses a lease.

**Review** has an archive (`saved`: database, copies, PDF) that an attempt unpacks, works
on and saves. `live` is the attempt's database as committed, `txn` what its session has
not committed yet: each commit of `review_revisions.py` is a step, and after each of them
the attempt may die (`Dies`) or the step raise. `Compensate` is `fail_review`, `Act`
the change of a figure with its supersede and undo, `Prune` and `Unlink` the two halves
of deleting old copies. The archive goes to the Worker only with an accepted `complete`.

**Pipeline** is the order of the orchestrator. `job` is the row, `step` its steps,
`cand` the `Candidate` (its PDF, what it was made from, its validation and its
assessment), `best` the `best_*` variables of the lane loop, `source` the PDF the
fidelity assessment compares with. A PDF is a number; a report of veraPDF is a member of
`Verdict`, the count of tags one of `TagCount`. `Raise` is an exception at any point that
has a handler, `Handle` that handler; `Refuse` the refusal of the credential at any
model call, which layers below may swallow and `Finish` must not.

**Gateway** is two questions (`ask`), each a loop of formats around a loop of attempts
around a semaphore. `latch` is `ModelAccess`: the first refusal stays. `formats` is what
the process remembers of the formats a model rejects, any of which may be forgotten
(`Forget`) at any time. `Deadline` is `await_llm_operation` giving up on an ask wherever
it is. An answer is what `_is_retryable` and its callers tell apart: a connection that
failed, a rate limit ("busy", 429), a server's error ("broken": 500, 502, 503, 504), a
read timeout, a rejected format, another refusal of the request, text or JSON. After the
server's errors and the timeouts the model may have run unheard (`MayHaveRun`); `lost`
counts these runs for the questions in `Counted`. The room of a body is granted to its
images in equal shares (`Granted`): an image below its share is sent as it is and leaves
its rest to the others, a larger one is encoded anew at any size up to its share
(`Bounded`), or has no such encoding and the request fails.

**Docling** is `DoclingConversion` with one variable for its phase and one for what it
awaits, and the server as the fate of each POST (`server`), of which the client knows
only what was answered; and `LocalDoclingConversion`. A transition the table of phases
refuses makes the phase "illegal", as `transition` raises there.

**Ocr** classifies a file from the coverage of its pages (`Type`), detects the language,
chooses passes of OCRmyPDF and runs them, with a retry; in a pass, `Jobs` page processes
each ask the model at rising temperatures or fall back to Tesseract. What they know of a
refusal is the files in `receipts`, written and read in separate steps.

**Structure** follows one of three functions on a small document: the walk over
docling's tree with its pictures (`Walk`, `Ensured`), the elements of one item with all
its boxes (`Elements`), and a table of contents found in a run of elements and rebuilt
from the rows of its pages (`Marked`, `Expanded`, `Replacement`, `Rebuilt`).

**Outline** takes elements through the marking of a table of contents, the early pages,
the three requests of the bookmark plan and the writing of bookmarks. A text is a
sequence of words, so that the prefix and section-number matching of the code is done
and not assumed.

**FontMaps** is one font: the diagnostics that promise a repair (`Inspect`), the codes
collected from the streams that are read, the zero bytes taken out of them, and the
rebuilt ToUnicode map, which is parsed line by line and written in blocks. A text is a
number, and 0 stands for what no map may give. The streams of an annotation's named
states are a place that the code never reads; what a field's kid draws that no page
shows is read for its codes, but keeps its zero bytes (`Collected`, `Sanitized`).

**FontGlyphs** is one font and one form that is drawn twice: codes without a glyph get
the glyph of their text (`Dicts`), each drawing rewrites the form in its text state and
the two must agree (`Agreed`), and the form is written. `View` is not code: it is what a
viewer shows of a form in a text state, and the properties compare it before and after.

**Fidelity** runs the nineteen checks in the code's order on what they find in a document
(`doc`), merges tasks by key as the collector does, applies the release policy, lets
the model adjudicate suspicious text and applies the policy again. `Init` starts from a clean document and lets any two groups of facts be
otherwise, so that each check meets every verdict it can give, and each two checks that
share a task every pair of verdicts.

**Figures** follows one figure through rules, model, follow-up, reclassification, the last
attempt at a description and the stored row, and the cache of descriptions over several
documents, with eviction by age. `fate` is what a reclassification made of it. Its author
may have described it, or said "n/a" or "decorative"; the model answers with any
combination of action, text, confidence, explanation, kind and flag.

**Pretag** has one table, one doubtful block and two widgets, the author's structure
that may be unreadable, and a model that answers twice or fails; `TagTable` is what the
tagger later makes of the queued decision. The table has `TableRows` rows and the author's
one the header cells `AuthorHeaders`. What is odd in a text, and what recognition reads in
its place, are inputs.

**TableModel** is one table of a document at a time: the circuit breaker, the answer in
tokens (`Grid` gives the cells of ragged, spanning or nonsensical tokens), the monotone
alignment of lines with rows (`LineRows`, the code's dynamic programme with its choice
between equals), the majority and runs of `assign_words`, and the decision to replace.

**Tagging** is one page: every painted item with the streams it is in finds an owner,
orders vote, streams are rewritten with marked content while the tree grows, deferred
text of figures is placed, widgets and links attached and the kids sorted. Geometry is an
input: an item says what boxes it is in or near.

**Tables** is one table: unreadable, a layout, headed from outside or inferred; its grid
completed (`Fitted`, `Free`), its tree built with roles, ids and headers, joined with
the table on the next page, and given the model's decision last. Cells span up to
`MaxSpan` rows and columns, and up to `MaxOdd` slots are missing or spanned from; header
cells are the extractor's or the author's, whose scope may be Row, Column, Both or none.
Whether a table can be read, and whether its rules, styles or words show headers, are
inputs. One thing is assumed of docling and of the vision model's grid: they start one
cell at a slot. The code would keep two and tag both.

## The runs

All pass but the last two, which each show a disagreement between code and documentation.
The longest take two to three minutes.

| Run | Properties | What it shows | Instance |
|---|---|---|---|
| `life` | TypeOK, ActiveHasTask, CredentialScope, ShowsPublished, SweepNeverThrows, HeldCanFinish, ChoiceKept, WaitingReviewRuns | every history of one job: process, retries, syncs, reviews behind syncs, failures, deletion | 1 job, 4 claims, 2 choices, 6 ticks |
| `late` | RelayWhileHeld, PublishedOnce, ImplementsRevisions | calls with a time one tick old, all late uses of old leases, two `complete` calls waiting for R2 together | 1 job, 2 claims, legs of two lengths |
| `ends` | JobEnds, ImplementsContract | with only the clock and the alarm, no job stays active; every step keeps the contract | 1 job, 3 claims, 10 ticks |
| `files` | InputKept, DeletionsEnd | an upload under every failure, its input kept or gone, and deletions that are tried until done | 1 claim, 1 failure of a request and 1 of a deletion |
| `outputs` | OutputKept | two revisions with two PUTs each; replaced and abandoned revisions are deleted, the served one is not | 2 claims |
| `runner` | FilesOutliveWork, TellsTheWorker, AcknowledgedIsDone, RunnerGoesOn | two processes that start, claim, work, stop and crash around each other | 2 processes, 1 lease, 1 slot, 2 upload tries, 1 crash |
| `review` | ArchiveIsSettled, FailureRestores, DecisionsSaved, TaskSettles | reviews and syncs that die or fail at every commit; every queued task is settled | 1 figure, 2 texts, 1 issue, 2 revisions, 1 crash |
| `calls` | ResultIsProven, CallsAccounted, GoodIsKept, QuietAfterRefusal, CallsEnd | an attempt at a document with its candidates; two questions on one client; a conversion | 3 families of rules, 2 questions, 1 retry, 1 or 2 permits, 2 images, 3 submissions |
| `text` | OcrHolds, StructureHolds, FontsHold, HeldForAReason, NothingFoundIsLost | OCR, structure, outline, fonts and fidelity | 2 pages, 2 temperatures, 1 delay, 2 page processes, fonts of 3 codes |
| `elements` | FigureIsTold, DecisionHolds, TreeAgrees, WordsAreRead, GridCovered, HeadersHold | figures, decisions, table grids, tags and tables | cache of age 2 and 2 documents, tables of 3 x 2 with spans of 2 and 4 odd slots, answers of 6 tokens |
| `failed_sync` | NoSyncAfterFailure | disagreement 1 | 1 job, 3 claims |
| `lane_source` | SourceOfBytes | disagreement 2 | 1 blocking task |

What each property says and of which code stands above its definition.

Bounds of the board. A lease is two ticks, so that it can be renewed, or missed, before it
runs out; the limits keep the order of the code's (relay margin < claim < queue, lease <
sync <= job <= retention), and the queue minimum, the claim minimum and the margin are
all different so that every answer of `credentialEligibility` occurs. `Attempts = 2` is
the code's number. Four claims are enough for a process task, a sync, its retry and a
review; with 3, one of these is left out. One item and two versions let a choice be
replaced by a newer one on the same item. One request waiting on R2 is raced by every
other handler; `late` lets two wait together, of one lease or of two, with equal or
different results, and has two claims for it. A finished result is
`manual_remediation` in the runs: `complete` is treated alike everywhere in the board.
Jobs meet only in the limits, the queue and the sweep's loop; each handler rewrites one
row, so one job suffices for the properties of a row. The files of two jobs never meet. A
revision's PUTs, cleanup and publication repeat alike for each revision; two show one
replacing the other. `MaxTime`, `MaxClaims`, `MaxVersion`, `MaxWaiting`, `MaxRev` and
`MaxFailures` stand only in guards of what they bound.

Bounds of the runner. Two processes and one lease meet in the volume, in the reaper and
in the semaphore; an attempt never looks at another's lease. Two tries of an upload are
one retry; the code's number repeats it. In a review, one figure and two texts let a
change be replaced by a newer one and undone; two revisions let one be prepared while an
older one is published; a crash may come at any step, and a second crash finds an archive
the first could have left.

Bounds of a document. In `calls`, the reports of veraPDF are chosen so that each
comparison of two candidates and each lane's trigger occurs; `MaxBlocking = 2` lets a
retry better, keep or worsen the tasks. Two questions learn a format for each other and
meet a refusal in flight; with two permits both may post, with one the other waits for it
and must get it back after every way its holder ends (`Init` takes either number). One
retry is the least that leads from each round of attempts to the next. The lost runs of
one question are counted, as no step of the other changes that number; the theorem
counts them all. Image sizes 1 and 6 under a
limit of 8 make one image, or both, too large. Three submissions of docling are one
more than the case in which one is retried after a lost answer. In `text`, two pages of
very different weight make every share of pages that classification asks for; there are
as many page processes as pages, so a refusal meets one before, in and after its
request. The outline has a cover in one or two headings, a table of contents as a list
or a table under a caption of three kinds, and two parts behind it. A font has three
codes, which are the zero, a code like any other and, in FontGlyphs, the space; blocks of
a ToUnicode map hold two entries, so that three make a second block; a form is drawn once,
twice alike, or in text states that differ in one thing or in several. In `elements`,
tables of three rows and two columns give spans a place to start, overlap and leave holes
in both directions, at most four slots of six being missing or spanned from (a spanned
one counts twice), which is two spanning cells, so that two of them meet; a span of 2
reaches any slot's neighbour and, from the last, beyond the grid (3 was checked once, in
four minutes, with the same result). The author's table and the extracted one have two
headers and two rows, so that one may match two of the other; a vision model's answer has
six tokens, as one, two or three rows; ages and documents of 2 let a cache
entry be used, aged and evicted. A document itself is an input: what is chosen about it
is bounded in each module's `Init`, where the comment says what was kept.

Deadlock is not checked: when no job is left, a document is done or a runner has
stopped, nothing is to be done.

Fairness. `JobBoard!FairSpec` assumes the clock runs and the alarm comes: `keepSweeping`
sets it in every handler that makes something to sweep, `alarm` sets it again while a row
is left. Nothing is assumed of people or runners: the sweep alone must end jobs.
`FairStoreSpec` assumes the same of time and the alarm, that R2 answers (with success or
failure), and that a Worker request that does not die runs on to its end, as the Workers
runtime does. A claim, a publication or a deletion by a person is never assumed.
`Runner!Fairness` assumes that processes run, calls end (each has a timeout), deadlines
pass and a crashed runner is started again, as its container is; no signal, crash,
answer of a heartbeat or lapse. `Review!FairReviewSpec` assumes that an attempt's work
goes on. `CallsSpec` assumes that each subprocess and call of the pipeline ends (all have
timeouts), that each question's awaits end (httpx has a timeout, a backoff is capped),
and that docling's bounded requests end and its deadline passes; no answer of any
service is assumed.

## Where code and documentation disagree

Two are shown by a run:

1. `failed_sync` (`board.ts`, setOverride). `user-api.ts` allows keep and resolve only
   on a finished job, but the board does not look again. A review may have run and
   failed in between: then the choice queues a re-render of a failed job, which can
   never be published (`complete` seals the revision and throws).
2. `lane_source` (`orchestrator.py:3289`, _select_font_lanes). `fidelity_source_pdf`
   moves inside the loop over lanes, the other values only after it. When a later lane
   raises, the first candidate is kept and compared with the PDF of an accepted lane; a
   `Candidate` is "a PDF and the evaluations and changes belonging to those exact
   bytes" (`orchestrator.py:2560`).

The others were met while modelling and have no run; the models follow the code, and the
properties are worded so that they hold of it:

3. `board.ts`, queueReview: docs/architecture.md:79-80 says the board enforces the
   per-person and global limits; a review makes a finished job active with no look at
   them.
4. `board.ts`, cleanFiles: the look for outstanding writes comes after the listing. A PUT
   of an abandoned revision that lands and ends between the two is missed, and its own
   request for cleanup changes nothing, as the row still exists (docs/architecture.md:95-96).
5. `board.ts`, endArtifactUpload: a PUT that ends just after its lease ran out asks for
   deletion; a renewal with an earlier time makes the lease live again, and the result it
   publishes is deleted (docs/architecture.md:80-82). FileStore therefore leaves late
   renewals out, and `outputs` says nothing of them.
6. `validation_compare.py:13-15`: "Return whether the candidate validation result is
   better"; a report that failed or timed out lists no errors, so it compares as better
   than any that was made and does not pass. `GoodIsKept` protects what complies, and
   `ResultIsProven` calls a result complete only on a report that was made.
7. `tagger_bookmarks.py:391`: "Build bookmarks from TOC semantics when available, else
   fall back to headings"; a plan that has nothing but front matter comes first, and the
   table of contents is not looked at. `ChosenIsWritten` speaks of what answers chose.
8. `tagger_ownership.py:504-505`: "new words must get their own P rather than be hidden"
   by a correction; the branch for the rows of a table has no such condition.
   `NothingHidden` excepts tables.
9. `classify.py:79-81`: the pages whose text is in images are named for OCR, but only a
   "mixed" file passes its pages on. `OcrGivesText` speaks of pages without usable text.
10. `notdef_content.py:35`: "Preserve advances"; when a code of a TrueType font is replaced
   by another with the same glyph width, and one of the two is code 32, word spacing is
   gained or lost and the text after it moves. `InkKept` excepts this (`SpaceMoves`).

11. `llm_client.py:249-250`: "Repeat only a request that never reached the provider. After
   a read timeout the model may have run, and been paid for, anyway." The same function
   repeats after 500, 502, 503 and 504 (`RETRYABLE_STATUS_CODES`, line 34; lines 253-254),
   which may come after the model ran; `ocr_vlm_plugin.py:83` leaves 500 out of its list.
   `ChargesAreBounded` holds the client to what it does: nothing is sent after a timeout,
   and the server's errors lose at most `6 * MaxRetries + 1` runs of a question.
12. `alt_text.py:195-209` approves an author's text that is not empty or in brackets, and
   line 100 says "Kept the author's description for the matching figure." of it; the row
   is made by `_alt_text_entry_state` (`orchestrator.py:746-780`), which finds "N/A" or
   "Decorative" no description and stores the caption, nothing, or a rejected figure, even
   one whose caption or reference should protect it ("captions/references always remain
   protected", `figure_rules.py:59-60`). `tagger.py:521-527` still writes what the author
   said unless it is weak. `ChangeTellsRow` and `ReferencedStays` except such texts.
13. `tounicode.py:461-468` looks for used codes in the kids of fields; 491-502 takes the
   zero bytes out of top-level fields only, and 505 then forgets code 0 for the font. A
   kid that no page shows keeps its zero bytes. `ZerosWereSilent` speaks of what is
   rewritten.

Smaller observations: text in a stream that could not be rewritten is left without tags
(`tagger_content.py:885-893`; `TextKept` excepts it); the `upload_writes` row of a request that died stays, so the
cleanup row of that job is tried at every alarm for ever (`CleanupEnds` excepts it; the
file does go); a second attempt of OCRmyPDF reads and meters its pages again; its exit
code for text that is already there cannot come with `--skip-text`; `_associate_columns`
does not look at RowSpan; a heading's own final number may be taken for a page number;
one table fallback that raises discards every decision of its step; a field's name is
written on each of its ancestors that has a type; the author's structure is applied
twice; entries of a table of contents are dropped on a page whose words could not be
read, and repeated when two groups begin on one page; images of figures are numbered in
docling's list of pictures and looked up by their order in its tree, so that an image is
its own figure's only while the two orders agree (`FigureIsItsOwn` assumes it); the
rebuilt ToUnicode map of a simple font drops the author's texts of used codes that its
encoding cannot say, and one invalid entry in a font whose policy blocks repair leaves it
an empty map; an opaque glyph name in Differences keeps the letter of the base encoding,
except in a Type 3 font; the empty `.notdef` of a code with a known text becomes visible
when the program has a glyph of that text; two composite fonts that share a descendant
share its changed glyph map.

## The proofs

Every theorem below is about the specification the runs check, for every value of its
constants that satisfies the named assumptions (`CredentialLimits`, `Limits`, `People`,
`Inputs`, `ClaimBound`, `RevisionLimits`, `StoreLimits`, `RunnerConstants`,
`ReviewConstants`, `PipelineConstants`, `GatewayConstants`, `OcrConstants`,
`ElementConstants`), which say no more than that
limits are numbers in the order the code gives them and that sets of inputs have their
type. TLC checked each inductive invariant, in the form that is proved, on a small
instance first.

| Module | Theorem | Statement |
|---|---|---|
| JobBoardProofs | BoardInvariant | Spec => []BoardInv |
| | TypeCorrect | Spec => []TypeOK |
| | ActiveJobsHaveTasks | Spec => []ActiveHasTask |
| | LegsAreScoped | Spec => []CredentialScope |
| | RelayIsServed | Spec => []RelayWhileHeld |
| | LedgerInvariant | Spec => []LedgerInv |
| | PublishesOnce | Spec => []PublishedOnce |
| | HoldersCanFinish | Spec => []HeldCanFinish |
| | ShownIsPublished | Spec => []ShowsPublished |
| | SweepIsSafe | Spec => []SweepNeverThrows |
| | WaitingReviewsRun | Spec => WaitingReviewRuns |
| | ChoicesKept | Spec => ChoiceKept |
| | BoardImplementsContract | Spec => ImplementsContract |
| | BoardImplementsRevisions | Spec => ImplementsRevisions |
| FileStoreProofs | StoreInvariant | StoreSpec => []StoreInv |
| | InputIsKept | StoreSpec => []InputKept |
| | OutputIsKept | StoreSpec => []OutputKept |
| | StoreKeepsRevisions | StoreSpec => Spec (of Revisions) |
| RunnerProofs | RunnerInvariant | Spec => []RunnerInv |
| | FilesOutliveTheWork | Spec => []FilesOutliveWork |
| | WorkerIsTold | Spec => []TellsTheWorker |
| | AcknowledgedEndsDone | Spec => AcknowledgedIsDone |
| | PermitsAlwaysAddUp | Spec => []PermitsAddUp |
| ReviewProofs | ReviewInvariant | ReviewSpec => []ReviewInv |
| | ArchiveSettles | ReviewSpec => []ArchiveIsSettled |
| | FailuresRestore | ReviewSpec => FailureRestores |
| | DecisionsAreSaved | ReviewSpec => DecisionsSaved |
| PipelineProofs | PipelineInvariant | Spec => []PipelineInv |
| | ResultsAreProven | Spec => []ResultIsProven |
| | GoodIsNeverGivenUp | Spec => GoodIsKept |
| CallsProofs | CallsInvariant | CallsSpec => []CallsInv |
| | CallsAreAccounted | CallsSpec => []CallsAccounted |
| | ChargesBounded | CallsSpec => []G!ChargesAreBounded |
| | ConversionTells | CallsSpec => []D!PhaseTells |
| | RefusalsAreFinal | CallsSpec => QuietAfterRefusal |
| | PartsRunAlone | CallsSpec => Spec /\ G!Spec /\ D!Spec |
| TextProofs | OcrIsSound | TextSpec => []OcrHolds |
| ElementsProofs | FiguresTell | ElementSpec => []FigureIsTold |
| | DecisionsAreHeld | ElementSpec => []DecisionHolds |
| | GridsAreCovered | ElementSpec => []GridCovered |

**The board, row by row.** `RowOK` says of a row that it is typed, that an active job
has the task that ends it (`HasTask`), that a leg is kept exactly while a task needs it
(`LegKept`), and that a claimed process or review task's deadline is at least the relay
margin before its leg's expiry (`DeadlineInLeg`). None of these is inductive alone:
`endTask` hands a waiting review its leg, and only `HasTask` says that a review waits
behind a sync; `RelayWhileHeld` follows from `DeadlineInLeg`, because a held lease is
before its deadline, and that is kept by `Claimed`, the one place that sets it, because
a claim needs more than the margin (`GatewayMargin < ClaimMinimum`). A lemma for each
helper (`EndTaskOK`, `FailRowOK`, `RequeueOK`, `StopSyncOK`, `SweepTaskOK`,
`PublishedOK`, ...) takes a row in order to a row in order; each action then follows, as
it rewrites one row, or each row by such a helper.

**The account of a job.** What a job shows depends on three tables at once. `Ledger` ties
its row, its revisions, its receipts and the leases together: no two revisions of one
lease and no two receipts of one lease; a revision is published exactly when its lease
has a receipt of a result (`Recorded`); a claimed row stages a revision above the served
one, under a lease that is not spent (`Staged`); the receipt of the served revision is
of what the job shows (`Serves`); a job that is not there has neither (`Cleared`).
`PublishedOnce` is not inductive without `Staged`: only because a held lease has no
receipt yet may `complete` write one. `ReportsFit` is what makes the wait for R2 safe: an
answer given before it stays right for as long as the lease does, so `CompleteCommit`
need not ask again. The actions do not meet the account one by one: each moves each job
by one of a few moves (`Move`: given, sealed, published, taken back, failed, requeued,
retired, ...), each move keeps the account (`MoveKept`), and every property of a step is
then a property of the moves. The two refinements are shown the same way. For JobContract,
initial states map to initial states and a move to one of its steps or to none. For
Revisions, `FilesInv` adds the bound `ClaimBound` gives the number of leases, which
stands for `MaxRev`, and that the clock does not run back, as `Late` is `MaxLag > 0`.

**The file store.** `StoreInv` does not follow a cleaner through its calls. It calls a
prefix doomed when a row of `cleanup` names it or a call of `cleanFiles` under way has
read such a row (`Doomed`), and says that a doomed prefix is `SafeToDelete`: a job that
is not there and cannot come any more, or a revision that was given, is not served and is
not on its way. A prefix stays safe whatever the other actions do between two steps of a
deletion, and what is needed is there (`FilesThere`); so no deletion, however late, takes
an input or an output. It holds for either value of `Late`. `StoreKeepsRevisions` and
`BoardImplementsRevisions` meet in one account of a job: the store lets a job live only
as Revisions says, and the board is shown to do nothing else, but for the late renewals
that FileStore leaves out (disagreement 5). That the store's theorems hold behind the
board rests on this pair; the product of the two modules is not a module of its own.

**The runner.** `RunnerInv` has a part for each thing that can go wrong. `AttemptOK`:
what an attempt believes of its lease is true of the Worker, so a phase "done" has a
completed lease, and one that left a held lease without being cancelled did so by its
report. `DirsOK`: a directory that is being made is covered by the index lock, one in use by
the lock of its owner, so the reaper, which needs both, cannot take it. `LeasesOK`: a lease
is the loop's or one attempt's, and the attempt lives in a process that runs.
`PermitsOK`: the free permits, the loop's and the attempts' add up, with the finiteness that
counting them needs. `FilesOutliveWork` needs the thread to end before its attempt
leaves, which is `AttemptOK`; `PermitsAddUp` is the safety part of `RunnerGoesOn`.

**A review.** `ReviewInv` compares the attempt's database and journal with the archive it
unpacked, at each place: a fresh one has the archive's rows with the decisions in it
(`FreshAt`); a prepared one, and one whose revision has begun, owns one row of the journal
more (`PreparedAt`, `BegunAt`); a closing one has ended it (`ClosingAt`). A failure
restores because the owned row's `before` is, and stays, the snapshot of the archive
(`Guarded`), with a copy of its PDF that no half of a pruning takes: every pointer names
a copy on its disk. A figure has at most one change in force, and says what that change
says. Acknowledged issues are the hard part of `DecisionsSaved`: `Reconciled` may open an
issue again when its row is "none", so the invariant needs that they are resolved until
the document is tagged again (`Answered`). `IsFiniteSet(Figure)` is assumed, since the
reconciliation takes the figures one after the other.

**An attempt at a document.** `PipelineInv` says for each place which steps are settled
(`StepsAt`), what is known of the candidate (`FilesAt`: the verdict, and later the
report, are of its own bytes) and what the row holds (`JobAt`). `ResultIsProven` is not
inductive, as it speaks only of the finished row; a retry or a lane that brings back an
older candidate keeps it because verdict and report travel with the PDF, and a refusal
swallowed anywhere reaches `failed` because a row is made ready at "finish" alone.
`GoodIsKept` needs besides that the lanes begin with a PDF that does not comply and that
tags are compared with those of the first file (`TagsKept`). The theorems are about
Pipeline's own Spec, and hold in the run `calls` by `PartsRunAlone`.

**The services.** `CallsInv` has two parts that share nothing. `AskOK` says that a question
whose answer timed out (`timedOut`) has ended, and bounds the runs it may have lost by
where it is (`LossOK`): in each of its rounds, two of three formats, every attempt but the
last may have ended in a server's error, because a round that leads to another one ends
with an answer. The bound is not inductive without the rounds before (`Due`), the attempts
of this one, and that a repair begins again with the strictest format that is not known
to be rejected. `ConversionOK` says for each phase of a
conversion what it awaits and what the server has of its task; a task, once known, is the
last submission, because only a submission whose answer was lost is repeated.
`RefusalsAreFinal` needs no more than that each step moves one question
(`QuestionMoves`): every way to post or to use an answer looks at the latch first.

That a body fits (`BodiesOK`) is inductive, since only `Prepared` writes a body; what has
to be shown is what `Granted` computes for any number of images of any size. It is a
recursion over rounds, and each round takes away the images that fit an even share, so
their number is a rank that falls: `RankRecursion` shows that such a recursion defines a
function and `RankInduction` what holds along it, both from well-founded induction over
the naturals. Of every round it is then shown (`Leveled`) that the images in it share no
more than its room, and that there is one level which no image exceeds and which every
image that was cut has. A later round keeps this because its even share is not below that
of the round before (`LaterLevels`); the last has it by its share (`EvenlyLevels`). The
sums are those of the community modules' fold over a set, whose choice of an element is
shown not to matter (`SumRemove`, `SumSplit`, `SumBound`).

**OCR.** `OcrInv` follows the text of the file through the passes: before the first it is
what the pages carried, between the two it is what the pass over the pages that must be
rasterized left, and the second has exactly the pages that remain (`Rest`). `OcrGivesText`
is not inductive, as it speaks only of the end. Of a page, `PageOK` says that it was
charged for at most one answer per temperature tried, and that it sent after a refusal
only if it had looked before (`O!Post` may leave one answer late). That a refusal is on
file whenever one was met (`told = receipts`) is what makes a pass that ended well
impossible after it. The actions of one page process come under one lemma (`PageMoves`):
they move one page, and the receipts only grow.

**Figures, decisions, grids.** `FigureInv` has a description of a result that tells the
truth (`Tells`) and says for each stage what has been settled (`FigurePlace`).
`ReferencedStays` needs it at every stage, because a decision to hide may be made by a
rule, a page's answer, a follow-up or the recovery; `RemovedIsCarried` because `fate` is
set long before the row is written (`FateTells`). `ChangeTellsRow` needs that a figure
which is still without a description has no caption (`Captioned`), unless it was kept
after a reclassification: else the row would take the caption, and the change would not
say so. `CacheIsTrusted` needs `at = given`: what
expires an entry is `at`, what is promised is about `given`. `PretagInv` says which answer is queued and what
the labels have named, and the names are then read along `Entries`, the objects a widget
takes its name from, for each of the three shapes of a form.

The proof of `GridCovered` is about what `Completed` computes and needs no induction over
the document. `EndCol`, `EndRow` and the two fittings are defined from the cells to the
right and below, so it suffices that no two cells start at one slot (`CellsOK`), which the
steps keep. `NarrowedIs` says that the cells of a row do not overlap, `FittedIs` that no
cell reaches into a later row where another has one of its columns, and `CompletedIs` that
the free slots are filled. MaxSpan, MaxOdd and MaxTokens enter nowhere; that no two cells
start at one slot is what the inputs are taken to keep (Tables, above), since
`tagger_tables.py:46-68` does not look for it. Least and greatest elements of sets of numbers
(`LeastExists`, `GreatestExists`) come from well-founded induction over the naturals,
which the library states for sets and not for operators. For the vision model's grid,
two cells that share a slot share the slot below and right of both their starts, whose
token says that it starts them both (`StartedApart`).

The instances on which TLC checked the inductive invariants, in distinct states: StoreInv
86,077 (one revision, late requests, failures) and 535,222 (two revisions); RunnerInv
848,870; ReviewInv 539,324 (one figure, two texts) and 976,332 (two figures); PipelineInv
88,775 and 95,987; CallsInv 403,662 (the run `calls`); OcrInv 2,048,678 (the
run `text`); FigureInv, PretagInv, TableInv and ModelInv 3,557,272 (the run `elements`).

Three forms in the modules have a reason in the proofs. `Retire` and `Retired` of Review
name what `Prune` does to a row, as the prover expands `@` wrongly under a LET of a nested
EXCEPT. The recursion in `Granted` takes the images and the room as a pair, as the prover
knows functions of one argument only. Recursion over data is written with recursive functions and folds, and no module
has a RECURSIVE operator, as the prover can do no arithmetic where one is.

Only model-checked:

- Liveness: JobEnds, DeletionsEnd, TaskSettles, CallsEnd and the leads-to
  parts of RunnerGoesOn. The provers have no rule for fairness and ENABLED.
- Of `text`: FontsHold, StructureHolds, HeldForAReason and NothingFoundIsLost; of
  `elements`: TreeAgrees, WordsAreRead and HeadersHold. They are about what folds, sorts
  and recursive functions compute of a document. But for the tables of HeadersHold, which
  have NumRows, NumCols, MaxSpan and MaxOdd, their modules have no constants: the documents are those that
  Init enumerates, and the runs go through all of them. A statement about every document
  would need an induction for each of those functions, as `Granted` got one.

## Not modelled, and the plan

- Frontend reducers and pages: small tables of states with unit tests of their own, and
  rendering.
- Fonts: the embedding of programs, Ghostscript and the alignment of widths with programs
  are computations on bytes by libraries; which of them is tried and accepted is in
  Pipeline. Fonts set by an extended graphics state, and fonts that share a descendant,
  are not in FontGlyphs.
- What docling, OCRmyPDF, veraPDF and the model read in a page: their answers are inputs,
  as wide as the code tells them apart. So is geometry: overlaps and distances of boxes,
  the alignment of two texts, the widening of a table's region, the detection of a
  language.
- The words of prompts and previews, the rationalization of widgets that finds no
  candidate, the report's text, token accounting, metadata.
- HTML export, the comparison of round trips, benchmarks and deployment: not part of a
  job's way through the service.
- Identity, routing and rendering in the Worker; the schema upgrade in the board's
  constructor, which runs once on an older database.

What could come next, in this order:

1. FileStore with late renewals, once the board's answer to disagreement 5 is settled.
2. An abstract review (a decision is recorded, then shown or refused, at one step) and
   Review as its implementation; `FailuresRestore` and `DecisionsAreSaved` are most of it.
3. The frontend's upload page and review action against late answers.
