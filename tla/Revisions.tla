------------------------------- MODULE Revisions -------------------------------
(***************************************************************************)
(* A job as its files see it: which revision it serves, which one a runner *)
(* is staging, and which leases are spent.  No queue, no kinds of task, no *)
(* clock: a lease or a deadline simply passes at some time.                *)
(*                                                                         *)
(* Every claim makes one lease and one revision, so a lease is named by    *)
(* its revision.  JobBoard implements this module; FileStore is built on   *)
(* it.                                                                     *)
(***************************************************************************)
EXTENDS Naturals

CONSTANTS
  Job,
  MaxRev,   \* bound of the exploration: the claims of one job
  Late      \* whether a request may be judged by a time that has passed

ASSUME RevisionLimits == MaxRev \in Nat /\ Late \in BOOLEAN

VARIABLE rows

Rev == 0..MaxRev   \* 0 for none

FileRow ==
  [ life      : {"absent", "live", "gone"},
    rev       : Rev,            \* the revision the read routes serve
    has_state : BOOLEAN,        \* whether it is an output with a saved state
    next      : Rev,            \* the revision of the claimed task
    sealed    : BOOLEAN,        \* a completion of it threw after sealing
    lapsed    : BOOLEAN,        \* its lease or its deadline has passed
    given     : Rev,            \* the highest revision ever given
    spent     : SUBSET Rev ]    \* the revisions whose lease has a receipt

Blank(life) ==
  [ life |-> life, rev |-> 0, has_state |-> FALSE, next |-> 0, sealed |-> FALSE,
    lapsed |-> FALSE, given |-> 0, spent |-> {} ]

\* heldRow, by the time the request carries.
Holds(r) == r.next # 0 /\ (~r.lapsed \/ Late)

Released(r) == [r EXCEPT !.next = 0, !.sealed = FALSE, !.lapsed = FALSE]

------------------------------------------------------------------------------
(* What may become of a row: the rows it may turn into, none where it may not *)

When(guard, outcomes) == {s \in outcomes : guard}

Creates(r) == When(r.life = "absent", {Blank("live")})

Deletes(r) == When(r.life = "live", {Blank("gone")})

\* claim: a revision above every one given before.
Claims(r) ==
  When(r.life = "live" /\ r.next = 0 /\ r.given < MaxRev,
       {[r EXCEPT !.given = r.given + 1, !.next = r.given + 1, !.lapsed = lapsed] :
          lapsed \in {FALSE, Late}})

Lapses(r) == When(r.next # 0 /\ ~r.lapsed, {[r EXCEPT !.lapsed = TRUE]})

\* A renewal read its time before the lease passed, and reaches the board after.
RenewsLate(r) ==
  When(Late /\ r.next # 0 /\ r.lapsed, {[r EXCEPT !.lapsed = FALSE]})

\* complete, whose second look at the lease is by the board's clock.  Only the
\* first task of a job, the pipeline, can end with no saved state.
Publishes(r, saved) ==
  When(r.next # 0 /\ ~r.lapsed /\ ~r.sealed /\ (saved \/ ~r.has_state),
       {[Released(r) EXCEPT !.rev = r.next, !.has_state = saved,
                            !.spent = r.spent \cup {r.next}]})

\* complete throws: only at the end of a re-render of a job that had failed.
Seals(r) ==
  When(r.next # 0 /\ ~r.lapsed /\ ~r.sealed /\ r.has_state, {[r EXCEPT !.sealed = TRUE]})

\* review_refused: a receipt, and nothing published.  Only a job with a saved
\* state is reviewed.
Refuses(r) ==
  When(Holds(r) /\ r.has_state,
       {[Released(r) EXCEPT !.spent = r.spent \cup {r.next}]})

\* A failure or a retry, reported by the runner or found by the alarm.
Ends(r) == When(r.next # 0, {Released(r)})

------------------------------------------------------------------------------

RowStep(r, s) ==
  s \in UNION { Creates(r), Deletes(r), Claims(r), Lapses(r), RenewsLate(r),
                Publishes(r, TRUE), Publishes(r, FALSE), Seals(r), Refuses(r), Ends(r) }

Init == rows = [j \in Job |-> Blank("absent")]

\* One handler may work on several jobs, each by one step.
Next ==
  /\ rows' \in [Job -> FileRow]
  /\ \A j \in Job : RowStep(rows[j], rows'[j]) \/ rows'[j] = rows[j]

Spec == Init /\ [][Next]_rows

===============================================================================
