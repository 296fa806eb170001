------------------------------ MODULE ReviewProofs ------------------------------
(***************************************************************************)
(* Proofs about a review, for any number of figures, issues, descriptions, *)
(* revisions and crashes: the archive is settled whatever died on the way, *)
(* and a review that failed leaves what the person had.  The invariant     *)
(* says for each place of the attempt how its database and its journal     *)
(* differ from the archive it unpacked, and that every copy a pointer      *)
(* names is on its disk.                                                   *)
(***************************************************************************)
EXTENDS Review, FiniteSetTheorems, WellFoundedInduction, TLAPS

------------------------------------------------------------------------------
(* The shape of the state *)

Described == Text \cup {"pending", "decorative"}
Pointer == {NoFile} \cup {Copy(n) : n \in Nat}
Status == Ready \cup {"processing", "failed"}
StepsState == {"done", "pending", "failed"}
Ended == {"published", "failed"}

Command ==
  [kind : {"review"}, type : {"edit", "undo", "revise"}, change : Nat, text : Text]
    \cup [kind : {"sync"}, version : Nat]

ChangeRow ==
  [ fig : Figure, status : {"pending_review", "kept", "undone"}, reviewable : BOOLEAN,
    after : Described, undo : Semantics \cup {"delete"} ]

BodyRow ==
  [ status : Status, out : Pointer, entry : [Figure -> Semantics], changes : Seq(ChangeRow),
    tasks : [Issue -> {"pending_review", "resolved", "none"}], steps : StepsState ]

RevisionRow ==
  [ cmd : Command, phase : {"prepared", "running"} \cup Ended, before : BodyRow,
    edits : Pointer, published : Pointer ]

Database ==
  [ status : Status, out : Pointer, entry : [Figure -> Semantics], changes : Seq(ChangeRow),
    tasks : [Issue -> {"pending_review", "resolved", "none"}], steps : StepsState,
    revs : Seq(RevisionRow) ]

Fresh == {"overrides", "prepare"}
Prepared == {"sync_overrides", "act", "start", "sync_run"}
Begun == {"tag", "finish", "compensate"}
Closing == {"prune", "unlink", "pack"}
Places == {"idle", "refused", "error"} \cup Fresh \cup Prepared \cup Begun \cup Closing

ReviewTypeOK ==
  /\ saved \in [db : Database, disk : SUBSET Nat, bytes : Nat \ {0}]
  /\ task \in Command \cup {Idle}
  /\ kept \in [changes : SUBSET Nat, tasks : SUBSET Issue]
  /\ version \in Nat
  /\ pc \in Places
  /\ {live, txn} \subseteq Database \cup {NoTxn}
  /\ disk \subseteq Nat /\ bytes \in Nat /\ made \in Nat
  /\ owned \in Nat /\ doomed \subseteq Nat /\ crashes \in Nat

------------------------------------------------------------------------------
(* The inductive invariant *)

InForce(b, i) == b.changes[i].status # "undone"

\* A figure has what its one change in force says, or none when its description was
\* removed; and what a person may still undo brings back something.
FiguresAgree(b) ==
  /\ \A i \in DOMAIN b.changes : b.changes[i].reviewable => b.changes[i].undo # "gone"
  /\ \A i \in DOMAIN b.changes :
       InForce(b, i) => b.changes[i].after = b.entry[b.changes[i].fig]
  /\ \A i, j \in DOMAIN b.changes :
       InForce(b, i) /\ InForce(b, j) /\ b.changes[i].fig = b.changes[j].fig => i = j
  /\ \A f \in Figure : b.entry[f] # "gone" =>
       \E i \in DOMAIN b.changes : InForce(b, i) /\ b.changes[i].fig = f

\* The files a pointer may name, where d are the copies on disk.
Copied(out, d) == \E n \in d : out = Copy(n)
OnDisk(out, d) == out \in {NoFile, Working} \/ Copied(out, d)

PointersIn(db, d) ==
  /\ OnDisk(db.out, d)
  /\ \A i \in DOMAIN db.revs : /\ OnDisk(db.revs[i].before.out, d) /\ OnDisk(db.revs[i].edits, d)
                               /\ OnDisk(db.revs[i].published, d)

\* The newest published PDF is there.
NewestIn(db, d) ==
  \A i \in DOMAIN db.revs :
    /\ db.revs[i].phase = "published"
    /\ \A j \in DOMAIN db.revs : j > i => db.revs[j].phase # "published"
    => Copied(db.revs[i].published, d)

\* A finished document.
Finished(b, d) ==
  /\ b.status \in Ready /\ b.steps = "done"
  /\ b.out = Working \/ Copied(b.out, d)
  /\ FiguresAgree(b)

\* An archive s that may be saved.
ArchiveOK(s) ==
  /\ Finished(s.db, s.disk) /\ PointersIn(s.db, s.disk) /\ NewestIn(s.db, s.disk)
  /\ \A i \in DOMAIN s.db.revs : s.db.revs[i].phase \in Ended
  /\ s.db.revs # <<>> => Cardinality(s.disk) <= 2

\* What the person decided, and asks for, is about what the archive shows.
Fits(k, t, db) ==
  /\ \A c \in k.changes : c \in DOMAIN db.changes /\ db.changes[c].status = "pending_review"
  /\ \A i \in k.tasks : db.tasks[i] = "pending_review"
  /\ t \in Command /\ t.kind = "review" => t.change \in DOMAIN db.changes

\* What prepare_review finds, as a review takes the decisions first, and the snapshot of it.
Found(t, s, k) == IF t.kind = "review" THEN Decide(s.db, k) ELSE s.db

Snapshot(t, s, k) ==
  Body([Found(t, s, k) EXCEPT !.out = IF s.db.out = Working THEN Copy(s.bytes) ELSE s.db.out])

\* The decisions k, and those the archive db had, are recorded in b.
Recorded(b, k, db) ==
  /\ \A c \in k.changes : c \in DOMAIN b.changes /\ b.changes[c].status # "pending_review"
  /\ \A i \in k.tasks : b.tasks[i] # "pending_review"
  /\ \A i \in Issue : db.tasks[i] = "resolved" => b.tasks[i] # "pending_review"

\* The acknowledged issues are resolved, as they are until the document is tagged again.
Answered(b, k, db) ==
  /\ \A i \in k.tasks : b.tasks[i] = "resolved"
  /\ \A i \in Issue : db.tasks[i] = "resolved" => b.tasks[i] = "resolved"

\* The journal of db is that of the archive's old and the revision n the attempt owns.
Grown(db, n, old) ==
  /\ n = Len(old.revs) + 1 /\ Len(db.revs) = n
  /\ \A i \in DOMAIN old.revs : db.revs[i].phase = old.revs[i].phase

\* The rows and the files of a revision under way.
Consistent(db, n, old, d) ==
  Grown(db, n, old) /\ FiguresAgree(db) /\ PointersIn(db, d) /\ NewestIn(db, d)

\* The snapshot of the owned revision is the archive's, with a copy of its PDF.
Guarded(db, n, before, d) == db.revs[n].before = before /\ Copied(before.out, d)

FreshAt ==
  pc \in Fresh =>
    /\ live = saved.db /\ disk = saved.disk /\ bytes = saved.bytes /\ owned = 0
    /\ pc = "overrides" => task.kind = "review" /\ txn = saved.db
    /\ pc = "prepare" => txn = Found(task, saved, kept)

PreparedAt ==
  pc \in Prepared =>
    /\ live = saved.db
    /\ Consistent(txn, owned, saved.db, disk)
    /\ Finished(txn, disk) /\ Copied(txn.out, disk)
    /\ txn.revs[owned].phase = "prepared"
    /\ Guarded(txn, owned, Snapshot(task, saved, kept), disk)
    /\ task.kind = IF pc \in {"act", "start"} THEN "review" ELSE "sync"
    /\ pc # "sync_overrides" => Recorded(txn, kept, saved.db) /\ Answered(txn, kept, saved.db)
    /\ pc = "sync_overrides" => txn.changes = saved.db.changes /\ txn.tasks = saved.db.tasks
    /\ pc = "act" => txn.changes = Found(task, saved, kept).changes

BegunAt ==
  pc \in Begun =>
    /\ live = txn
    /\ Consistent(txn, owned, saved.db, disk) /\ Recorded(txn, kept, saved.db)
    /\ pc # "compensate" => txn.revs[owned].phase = "running"
    /\ pc # "finish" => task.kind = "review"
    /\ pc = "tag" => Answered(txn, kept, saved.db)
    /\ task.kind = "review" /\ txn.revs[owned].phase = "running" =>
         Guarded(txn, owned, Snapshot(task, saved, kept), disk)
    /\ pc = "finish" /\ txn.status \in Ready => Finished(txn, disk) /\ Copied(txn.out, disk)

ClosingAt ==
  pc \in Closing =>
    \/ pc = "pack" /\ owned = 0 /\ live = saved.db /\ disk = saved.disk /\ bytes = saved.bytes
    \/ /\ live = txn
       /\ Consistent(txn, owned, saved.db, disk) /\ Recorded(txn, kept, saved.db)
       /\ Finished(txn, disk) /\ Copied(txn.out, disk)
       /\ txn.revs[owned].phase \in Ended
       /\ txn.revs[owned].phase = "failed" =>
            task.kind = "review" /\ Body(txn) = Snapshot(task, saved, kept)
       /\ pc = "unlink" =>
            /\ Copied(txn.out, disk \ doomed)
            /\ PointersIn(txn, disk \ doomed) /\ NewestIn(txn, disk \ doomed)
            /\ Cardinality(disk \ doomed) <= 2
       /\ pc = "pack" => Cardinality(disk) <= 2

\* An attempt that runs has a task, a database and the copies its committed rows name.
AttemptAt ==
  IF pc = "idle" THEN live = NoTxn /\ txn = NoTxn
  ELSE /\ {live, txn} \subseteq Database /\ task \in Command
       /\ bytes # 0 /\ PointersIn(live, disk)

ReviewInv ==
  /\ ReviewTypeOK /\ ArchiveOK(saved) /\ Fits(kept, task, saved.db)
  /\ AttemptAt /\ FreshAt /\ PreparedAt /\ BegunAt /\ ClosingAt

------------------------------------------------------------------------------
(* Pointers, sequences and greatest members *)

\* Pointers to different copies differ, and only copy 0 would be the working PDF.
LEMMA CopyIs ==
  /\ Working \in Pointer /\ NoFile \in Pointer /\ Working # NoFile
  /\ \A n \in Nat : Copy(n) \in Pointer /\ Copy(n) # NoFile /\ (Copy(n) = Working => n = 0)
  /\ \A m, n \in Nat : Copy(m) = Copy(n) => m = n
<1>1. \A m, n : <<m>> = <<n>> => m = n
  OBVIOUS
<1>2. \A m : <<m>> # <<>>
  OBVIOUS
<1> QED
  BY <1>1, <1>2 DEF Working, NoFile, Pointer, Copy

\* A nonempty set of indices has a greatest one.
LEMMA MaxIs ==
  ASSUME NEW n \in Nat, NEW S \in SUBSET (1..n), S # {}
  PROVE  Max(S) \in S /\ \A i \in S : i <= Max(S)
<1> DEFINE T == {n - i : i \in S}
<1>1. T \subseteq Nat /\ T # {}
  <2>1. \A i \in S : n - i \in Nat
    OBVIOUS
  <2> QED
    BY <2>1
<1>2. PICK x \in T : \A y \in T : ~(<<y, x>> \in OpToRel(<, Nat))
  BY <1>1, NatLessThanWellFounded, WFMin
<1>3. \A y \in T : x <= y
  <2> TAKE y \in T
  <2>1. x \in Nat /\ y \in Nat
    BY <1>1
  <2>2. ~(y < x)
    BY <1>2, <2>1, Zenon DEF OpToRel
  <2> QED
    BY <2>1, <2>2
<1>4. PICK i \in S : x = n - i
  OBVIOUS
<1>5. \A j \in S : i >= j
  <2> TAKE j \in S
  <2>1. n - j \in T
    OBVIOUS
  <2> QED
    BY <1>3, <1>4, <2>1
<1>6. \E m \in S : \A j \in S : m >= j
  BY <1>5
<1>7. Max(S) \in S /\ \A j \in S : Max(S) >= j
  BY <1>6 DEF Max
<1> QED
  BY <1>7

\* A function on 1..n is a sequence.
LEMMA SeqFrom ==
  ASSUME NEW n \in Nat, NEW S, NEW f \in [1..n -> S]
  PROVE  f \in Seq(S) /\ Len(f) = n
OBVIOUS

\* A finite set as a sequence has each of its members once.
LEMMA SeqOfSet ==
  ASSUME NEW S, IsFiniteSet(S)
  PROVE  /\ SetToSeq(S) \in Seq(S)
         /\ \A i, j \in DOMAIN SetToSeq(S) : SetToSeq(S)[i] = SetToSeq(S)[j] => i = j
         /\ \A x \in S : \E i \in DOMAIN SetToSeq(S) : SetToSeq(S)[i] = x
<1> DEFINE n == Cardinality(S)
           f == SetToSeq(S)
<1>1. n \in Nat /\ ExistsBijection(1..n, S)
  BY FS_CardinalityType
<1>2. PICK g \in [1..n -> S] : IsInjective(g)
  BY <1>1 DEF ExistsBijection, Bijection, Injection
<1>3. f \in [1..n -> S] /\ IsInjective(f)
  BY <1>2 DEF SetToSeq
<1>4. IsFiniteSet(1..n) /\ Cardinality(1..n) = n
  BY <1>1, FS_Interval
<1>5. f \in Injection(1..n, S)
  BY <1>3 DEF Injection
<1>6. f \in Surjection(1..n, S)
  BY <1>4, <1>5, FS_Injection
<1>7. \A x \in S : \E i \in 1..n : f[i] = x
  BY <1>6 DEF Surjection
<1>8. f \in Seq(S)
  BY <1>1, <1>3
<1> QED
  BY <1>3, <1>7, <1>8 DEF IsInjective

------------------------------------------------------------------------------
(* Decisions and changes of figures *)

\* What transition_review does to the rows, decision by decision.
LEMMA DecideIs ==
  ASSUME NEW db \in Database, NEW k
  PROVE  LET e == Decide(db, k)
         IN /\ e \in Database
            /\ e.status = db.status /\ e.out = db.out /\ e.entry = db.entry
            /\ e.steps = db.steps /\ e.revs = db.revs
            /\ DOMAIN e.changes = DOMAIN db.changes
            /\ \A i \in DOMAIN db.changes :
                 /\ e.changes[i].status = IF i \in k.changes THEN "kept" ELSE db.changes[i].status
                 /\ e.changes[i].fig = db.changes[i].fig
                 /\ e.changes[i].reviewable = db.changes[i].reviewable
                 /\ e.changes[i].after = db.changes[i].after
                 /\ e.changes[i].undo = db.changes[i].undo
            /\ \A i \in Issue : e.tasks[i] =
                 IF i \in k.tasks /\ db.tasks[i] # "none" THEN "resolved" ELSE db.tasks[i]
<1> DEFINE changes == [i \in DOMAIN db.changes |->
                         IF i \in k.changes THEN [db.changes[i] EXCEPT !.status = "kept"]
                                            ELSE db.changes[i]]
           tasks == [i \in Issue |->
                       IF i \in k.tasks /\ db.tasks[i] # "none" THEN "resolved" ELSE db.tasks[i]]
           e == Decide(db, k)
<1>1. db.changes \in Seq(ChangeRow) /\ db.tasks \in [Issue -> {"pending_review", "resolved", "none"}]
  BY DEF Database
<1>2. \A i \in DOMAIN db.changes : db.changes[i] \in ChangeRow
  BY <1>1
<1>3. \A i \in DOMAIN db.changes : changes[i] \in ChangeRow
  BY <1>2 DEF ChangeRow
<1>4. changes \in Seq(ChangeRow)
  <2>1. PICK n \in Nat : DOMAIN db.changes = 1..n
    BY <1>1
  <2>2. changes \in [1..n -> ChangeRow]
    BY <1>3, <2>1
  <2> HIDE DEF changes
  <2> QED
    BY <2>1, <2>2, SeqFrom
<1>5. tasks \in [Issue -> {"pending_review", "resolved", "none"}]
  BY <1>1
<1>6. e = [db EXCEPT !.changes = changes, !.tasks = tasks]
  BY DEF Decide
<1> HIDE DEF changes, tasks, e
<1>7. /\ e \in Database /\ e.changes = changes /\ e.tasks = tasks
      /\ e.status = db.status /\ e.out = db.out /\ e.entry = db.entry
      /\ e.steps = db.steps /\ e.revs = db.revs
  BY <1>4, <1>5, <1>6 DEF Database
<1>8. \A i \in DOMAIN db.changes :
        /\ changes[i].status = IF i \in k.changes THEN "kept" ELSE db.changes[i].status
        /\ changes[i].fig = db.changes[i].fig
        /\ changes[i].reviewable = db.changes[i].reviewable
        /\ changes[i].after = db.changes[i].after
        /\ changes[i].undo = db.changes[i].undo
  BY <1>2 DEF changes, ChangeRow
<1> QED
  BY <1>7, <1>8 DEF changes, tasks, e

\* A decision leaves what is in force.
LEMMA DecideAgrees ==
  ASSUME NEW db \in Database, NEW k, FiguresAgree(db), Decidable(db, k)
  PROVE  FiguresAgree(Decide(db, k))
<1> DEFINE e == Decide(db, k)
<1>1. /\ DOMAIN e.changes = DOMAIN db.changes /\ e.entry = db.entry
      /\ \A i \in DOMAIN db.changes :
           /\ e.changes[i].status = IF i \in k.changes THEN "kept" ELSE db.changes[i].status
           /\ e.changes[i].fig = db.changes[i].fig
           /\ e.changes[i].reviewable = db.changes[i].reviewable
           /\ e.changes[i].after = db.changes[i].after
           /\ e.changes[i].undo = db.changes[i].undo
  BY DecideIs
<1>2. \A i \in DOMAIN db.changes : InForce(e, i) <=> InForce(db, i)
  BY <1>1 DEF InForce, Decidable
<1> HIDE DEF e
<1> QED
  BY <1>1, <1>2 DEF FiguresAgree, e

\* And it is recorded.
LEMMA DecideRecords ==
  ASSUME NEW db \in Database, NEW old \in Database,
         NEW k \in [changes : SUBSET Nat, tasks : SUBSET Issue],
         k.changes \subseteq DOMAIN db.changes, \A i \in k.tasks : db.tasks[i] # "none",
         \A i \in Issue : old.tasks[i] = "resolved" => db.tasks[i] = "resolved"
  PROVE  Recorded(Decide(db, k), k, old) /\ Answered(Decide(db, k), k, old)
<1>1. \A i \in k.tasks : i \in Issue
  OBVIOUS
<1> QED
  BY <1>1, DecideIs DEF Recorded, Answered

\* A change of a figure with none in force is a row of its own.
LEMMA AddIs ==
  ASSUME NEW s \in Seq(ChangeRow), NEW c \in ChangeRow,
         \A i \in DOMAIN s : s[i].fig = c.fig => s[i].status = "undone"
  PROVE  AddChange(s, c) = Append(s, c)
<1>1. ASSUME NEW i \in DOMAIN s,
             [s[i] EXCEPT !.status = c.status, !.reviewable = c.reviewable] = c
      PROVE  s[i].fig = c.fig
  <2>1. s[i] \in ChangeRow
    OBVIOUS
  <2>2. [s[i] EXCEPT !.status = c.status, !.reviewable = c.reviewable].fig = s[i].fig
    BY <2>1 DEF ChangeRow
  <2> QED
    BY <1>1, <2>2
<1> QED
  BY <1>1 DEF AddChange

\* A change put in place of one in force is the figure's only one.
LEMMA ReplacedAgrees ==
  ASSUME NEW db \in Database, FiguresAgree(db), NEW c \in DOMAIN db.changes, InForce(db, c),
         NEW new \in ChangeRow, new.fig = db.changes[c].fig, new.status # "undone",
         new.reviewable => new.undo # "gone",
         NEW e \in Database, e.entry = [db.entry EXCEPT ![new.fig] = new.after],
         e.changes = AddChange([db.changes EXCEPT ![c].status = "undone"], new)
  PROVE  /\ FiguresAgree(e)
         /\ \A i \in DOMAIN db.changes : /\ i \in DOMAIN e.changes
                                         /\ e.changes[i].status \in {db.changes[i].status, "undone"}
<1> DEFINE s == db.changes
           n == Len(s)
           t == e.changes
           marked == [s EXCEPT ![c].status = "undone"]
<1>1. s \in Seq(ChangeRow) /\ n \in Nat /\ DOMAIN s = 1..n /\ \A i \in 1..n : s[i] \in ChangeRow
  BY DEF Database
<1>2. /\ \A i \in 1..n : s[i].reviewable => s[i].undo # "gone"
      /\ \A i \in 1..n : s[i].status # "undone" => s[i].after = db.entry[s[i].fig]
      /\ \A i, j \in 1..n : s[i].status # "undone" /\ s[j].status # "undone"
                            /\ s[i].fig = s[j].fig => i = j
      /\ \A f \in Figure : db.entry[f] # "gone" =>
           \E i \in 1..n : s[i].status # "undone" /\ s[i].fig = f
  BY <1>1 DEF FiguresAgree, InForce
<1>3. c \in 1..n /\ s[c].status # "undone" /\ new.fig = s[c].fig
  BY <1>1 DEF InForce
<1>4. new.fig \in Figure /\ db.entry \in [Figure -> Semantics]
  BY DEF Database, ChangeRow
<1>5. t = AddChange(marked, new)
  OBVIOUS
<1> HIDE DEF s, n, t
<1>6. /\ DOMAIN marked = 1..n /\ marked[c] = [s[c] EXCEPT !.status = "undone"]
      /\ \A i \in 1..n : i # c => marked[i] = s[i]
  BY <1>1, <1>3
<1>7. /\ marked[c] \in ChangeRow /\ marked[c].status = "undone" /\ marked[c].fig = s[c].fig
      /\ marked[c].reviewable = s[c].reviewable /\ marked[c].undo = s[c].undo
  <2> DEFINE r == s[c]
  <2>1. r \in ChangeRow /\ marked[c] = [r EXCEPT !.status = "undone"]
    BY <1>1, <1>3, <1>6
  <2> HIDE DEF r, marked
  <2>2. /\ marked[c] \in ChangeRow /\ marked[c].status = "undone" /\ marked[c].fig = r.fig
        /\ marked[c].reviewable = r.reviewable /\ marked[c].undo = r.undo
    BY <2>1 DEF ChangeRow
  <2> QED
    BY <2>2 DEF r
<1>8. marked \in Seq(ChangeRow) /\ Len(marked) = n
  <2>1. s \in [1..n -> ChangeRow]
    BY <1>1
  <2>2. marked \in [1..n -> ChangeRow]
    BY <1>3, <1>6, <1>7, <2>1
  <2> HIDE DEF marked
  <2> QED
    BY <1>1, <2>2, SeqFrom
<1> HIDE DEF marked
<1>9. \A i \in DOMAIN marked : marked[i].fig = new.fig => marked[i].status = "undone"
  <2> TAKE i \in DOMAIN marked
  <2> HAVE marked[i].fig = new.fig
  <2>1. CASE i = c
    BY <1>7, <2>1
  <2>2. CASE i # c
    <3>1. i \in 1..n /\ marked[i] = s[i] /\ s[i].fig = s[c].fig
      BY <1>3, <1>6, <2>2
    <3> QED
      BY <1>2, <1>3, <2>2, <3>1
  <2> QED
    BY <2>1, <2>2
<1>10. t = Append(marked, new)
  BY <1>5, <1>8, <1>9, AddIs
<1>11. /\ DOMAIN t = 1..(n + 1) /\ t[n + 1] = new
       /\ \A i \in 1..n : t[i] = marked[i]
  BY <1>1, <1>8, <1>10
<1>12. \A i \in 1..n : /\ t[i].status # "undone" <=> i # c /\ s[i].status # "undone"
                       /\ i # c => t[i] = s[i]
                       /\ t[i].fig = s[i].fig
                       /\ t[i].reviewable = s[i].reviewable
                       /\ t[i].undo = s[i].undo
  BY <1>6, <1>7, <1>11
<1>13. \A i \in 1..n : t[i].status # "undone" =>
         t[i].fig # new.fig /\ t[i].after = e.entry[t[i].fig]
  <2> TAKE i \in 1..n
  <2> HAVE t[i].status # "undone"
  <2>1. i # c /\ s[i].status # "undone" /\ s[i].fig # new.fig
    BY <1>2, <1>3, <1>12
  <2>2. t[i] = s[i] /\ s[i].after = db.entry[s[i].fig] /\ s[i].fig \in Figure
    BY <1>1, <1>2, <1>12, <2>1 DEF ChangeRow
  <2> QED
    BY <1>4, <2>1, <2>2
<1>14. \A i \in 1..(n + 1) : t[i].reviewable => t[i].undo # "gone"
  BY <1>1, <1>2, <1>11, <1>12
<1>15. \A i \in 1..(n + 1) : t[i].status # "undone" => t[i].after = e.entry[t[i].fig]
  BY <1>1, <1>4, <1>11, <1>13
<1>16. \A i, j \in 1..(n + 1) :
         t[i].status # "undone" /\ t[j].status # "undone" /\ t[i].fig = t[j].fig => i = j
  <2>1. \A i, j \in 1..n :
          t[i].status # "undone" /\ t[j].status # "undone" /\ t[i].fig = t[j].fig => i = j
    BY <1>2, <1>12
  <2> QED
    BY <1>1, <1>11, <1>13, <2>1
<1>17. ASSUME NEW f \in Figure, e.entry[f] # "gone"
       PROVE  \E i \in 1..(n + 1) : t[i].status # "undone" /\ t[i].fig = f
  <2>1. CASE f = new.fig
    BY <1>1, <1>11, <2>1
  <2>2. CASE f # new.fig
    <3>1. PICK i \in 1..n : s[i].status # "undone" /\ s[i].fig = f
      BY <1>2, <1>4, <1>17, <2>2
    <3>2. i # c /\ i \in 1..(n + 1)
      BY <1>1, <1>3, <2>2, <3>1
    <3> QED
      BY <1>12, <3>1, <3>2
  <2> QED
    BY <2>1, <2>2
<1>18. FiguresAgree(e)
  <2>1. DOMAIN e.changes = 1..(n + 1) /\ e.changes = t
    BY <1>11 DEF t
  <2> QED
    BY <1>14, <1>15, <1>16, <1>17, <2>1 DEF FiguresAgree, InForce
<1>19. \A i \in 1..n : i \in 1..(n + 1) /\ t[i].status \in {s[i].status, "undone"}
  <2>1. \A i \in 1..n : i \in 1..(n + 1)
    BY <1>1
  <2> QED
    BY <1>12, <2>1
<1> QED
  BY <1>1, <1>11, <1>18, <1>19 DEF s, t

\* A figure whose description was removed has no change in force.
LEMMA RemovedAgrees ==
  ASSUME NEW db \in Database, FiguresAgree(db), NEW c \in DOMAIN db.changes, InForce(db, c),
         NEW e \in Database, e.entry = [db.entry EXCEPT ![db.changes[c].fig] = "gone"],
         e.changes = [db.changes EXCEPT ![c].status = "undone"]
  PROVE  /\ FiguresAgree(e)
         /\ \A i \in DOMAIN db.changes : /\ i \in DOMAIN e.changes
                                         /\ e.changes[i].status \in {db.changes[i].status, "undone"}
<1> DEFINE s == db.changes
           n == Len(s)
           t == e.changes
<1>1. s \in Seq(ChangeRow) /\ n \in Nat /\ DOMAIN s = 1..n /\ \A i \in 1..n : s[i] \in ChangeRow
  BY DEF Database
<1>2. /\ \A i \in 1..n : s[i].reviewable => s[i].undo # "gone"
      /\ \A i \in 1..n : s[i].status # "undone" => s[i].after = db.entry[s[i].fig]
      /\ \A i, j \in 1..n : s[i].status # "undone" /\ s[j].status # "undone"
                            /\ s[i].fig = s[j].fig => i = j
      /\ \A f \in Figure : db.entry[f] # "gone" =>
           \E i \in 1..n : s[i].status # "undone" /\ s[i].fig = f
  BY <1>1 DEF FiguresAgree, InForce
<1>3. c \in 1..n /\ s[c].status # "undone" /\ s[c].fig \in Figure
  BY <1>1 DEF InForce, ChangeRow
<1>4. db.entry \in [Figure -> Semantics] /\ e.entry = [db.entry EXCEPT ![s[c].fig] = "gone"]
  BY DEF Database
<1>5. t = [s EXCEPT ![c].status = "undone"]
  OBVIOUS
<1> HIDE DEF s, n, t
<1>6. /\ DOMAIN t = 1..n /\ t[c] = [s[c] EXCEPT !.status = "undone"]
      /\ \A i \in 1..n : i # c => t[i] = s[i]
  BY <1>1, <1>3, <1>5
<1>7. /\ t[c].status = "undone" /\ t[c].reviewable = s[c].reviewable /\ t[c].undo = s[c].undo
  <2> DEFINE r == s[c]
  <2>1. r \in ChangeRow /\ t[c] = [r EXCEPT !.status = "undone"]
    BY <1>1, <1>3, <1>6
  <2> HIDE DEF r
  <2>2. t[c].status = "undone" /\ t[c].reviewable = r.reviewable /\ t[c].undo = r.undo
    BY <2>1 DEF ChangeRow
  <2> QED
    BY <2>2 DEF r
<1>8. \A i \in 1..n : /\ t[i].reviewable => t[i].undo # "gone"
                      /\ t[i].status # "undone" => i # c /\ t[i] = s[i]
                      /\ t[i].status \in {s[i].status, "undone"}
  <2> TAKE i \in 1..n
  <2>1. CASE i = c
    BY <1>2, <1>3, <1>7, <2>1
  <2>2. CASE i # c
    BY <1>2, <1>6, <2>2
  <2> QED
    BY <2>1, <2>2
<1>9. \A i \in 1..n : t[i].status # "undone" => t[i].after = e.entry[t[i].fig]
  <2> TAKE i \in 1..n
  <2> HAVE t[i].status # "undone"
  <2>1. i # c /\ t[i] = s[i] /\ s[i].fig # s[c].fig /\ s[i].fig \in Figure
    BY <1>1, <1>2, <1>3, <1>8 DEF ChangeRow
  <2> QED
    BY <1>2, <1>4, <2>1
<1>10. \A i, j \in 1..n :
         t[i].status # "undone" /\ t[j].status # "undone" /\ t[i].fig = t[j].fig => i = j
  BY <1>2, <1>8
<1>11. ASSUME NEW f \in Figure, e.entry[f] # "gone"
       PROVE  \E i \in 1..n : t[i].status # "undone" /\ t[i].fig = f
  <2>1. f # s[c].fig
    BY <1>3, <1>4, <1>11
  <2>2. PICK i \in 1..n : s[i].status # "undone" /\ s[i].fig = f
    BY <1>2, <1>4, <1>11, <2>1
  <2> QED
    BY <1>6, <2>1, <2>2
<1>12. FiguresAgree(e)
  <2>1. DOMAIN e.changes = 1..n /\ e.changes = t
    BY <1>6 DEF t
  <2> QED
    BY <1>8, <1>9, <1>10, <1>11, <2>1 DEF FiguresAgree, InForce
<1> QED
  BY <1>1, <1>6, <1>8, <1>12 DEF s, t

\* What apply_review_action leaves: a document whose figures agree, with every change of
\* before, as it was or undone.
LEMMA ActedIs ==
  ASSUME NEW db \in Database, FiguresAgree(db), task \in Command, task.kind = "review",
         task.change \in DOMAIN db.changes, NEW e \in Acted(db)
  PROVE  /\ e \in Database /\ FiguresAgree(e)
         /\ e.status = db.status /\ e.out = db.out /\ e.tasks = db.tasks
         /\ e.steps = db.steps /\ e.revs = db.revs
         /\ \A i \in DOMAIN db.changes : /\ i \in DOMAIN e.changes
                                         /\ e.changes[i].status \in {db.changes[i].status, "undone"}
<1> DEFINE c == task.change
           ch == db.changes[c]
           f == ch.fig
           marked == [db.changes EXCEPT ![c].status = "undone"]
<1>1. /\ c \in DOMAIN db.changes /\ db.changes \in Seq(ChangeRow) /\ ch \in ChangeRow
      /\ db.entry \in [Figure -> Semantics] /\ f \in Figure
  <2>1. db.changes \in Seq(ChangeRow) /\ db.entry \in [Figure -> Semantics]
    BY DEF Database
  <2>2. ch \in ChangeRow
    BY <2>1
  <2>3. f \in Figure
    BY <2>2 DEF ChangeRow
  <2> QED
    BY <2>1, <2>2, <2>3
<1>2. task.type \in {"edit", "undo", "revise"} /\ task.text \in Text
  BY DEF Command
<1>3. marked \in Seq(ChangeRow)
  <2>1. [ch EXCEPT !.status = "undone"] \in ChangeRow
    BY <1>1 DEF ChangeRow
  <2>2. marked = [db.changes EXCEPT ![c] = [ch EXCEPT !.status = "undone"]]
    OBVIOUS
  <2> HIDE DEF ch, c, marked
  <2>3. PICK n \in Nat : DOMAIN db.changes = 1..n /\ db.changes \in [1..n -> ChangeRow]
    BY <1>1
  <2>4. marked \in [1..n -> ChangeRow]
    BY <1>1, <2>1, <2>2, <2>3
  <2> QED
    BY <2>3, <2>4, SeqFrom
<1>4. \A new \in ChangeRow : AddChange(marked, new) \in Seq(ChangeRow)
  <2> HIDE DEF marked
  <2>1. \A new \in ChangeRow : Append(marked, new) \in Seq(ChangeRow)
    BY <1>3
  <2> QED
    BY <1>3, <2>1 DEF AddChange
<1>5. ASSUME NEW after \in Described, e = Supersede(db, c, after), InForce(db, c),
             db.entry[f] # "gone"
      PROVE  /\ e \in Database /\ FiguresAgree(e)
             /\ e.status = db.status /\ e.out = db.out /\ e.tasks = db.tasks
             /\ e.steps = db.steps /\ e.revs = db.revs
             /\ \A i \in DOMAIN db.changes : /\ i \in DOMAIN e.changes
                                             /\ e.changes[i].status \in {db.changes[i].status, "undone"}
  <2> DEFINE new == Change(f, "pending_review", TRUE, after, db.entry[f])
             added == AddChange(marked, new)
  <2>1. /\ new \in ChangeRow /\ new.fig = f /\ new.status # "undone" /\ new.after = after
        /\ new.undo # "gone"
    BY <1>1, <1>5 DEF Change, ChangeRow, Described, Semantics
  <2>2. [db.entry EXCEPT ![f] = after] \in [Figure -> Semantics]
    BY <1>1, <1>5 DEF Described, Semantics
  <2>3. added \in Seq(ChangeRow)
    BY <1>4, <2>1
  <2>4. e = [db EXCEPT !.entry = [db.entry EXCEPT ![f] = after], !.changes = added]
    BY <1>5 DEF Supersede
  <2>5. /\ e \in Database /\ e.entry = [db.entry EXCEPT ![f] = after] /\ e.changes = added
        /\ e.status = db.status /\ e.out = db.out /\ e.tasks = db.tasks
        /\ e.steps = db.steps /\ e.revs = db.revs
    <3> HIDE DEF added, f, ch, c
    <3> QED
      BY <2>2, <2>3, <2>4 DEF Database
  <2>6. e.entry = [db.entry EXCEPT ![new.fig] = new.after]
    <3> HIDE DEF new, f
    <3> QED
      BY <2>1, <2>5
  <2>7. /\ c \in DOMAIN db.changes /\ InForce(db, c)
        /\ new \in ChangeRow /\ new.fig = db.changes[c].fig /\ new.status # "undone"
        /\ new.reviewable => new.undo # "gone"
        /\ e \in Database /\ e.changes = AddChange(marked, new)
    BY <1>1, <1>5, <2>1, <2>5
  <2> HIDE DEF new, c
  <2>8. /\ FiguresAgree(e)
        /\ \A i \in DOMAIN db.changes :
             /\ i \in DOMAIN e.changes
             /\ e.changes[i].status \in {db.changes[i].status, "undone"}
    BY <2>6, <2>7, ReplacedAgrees, Zenon
  <2> QED
    BY <2>5, <2>8
<1>6. ASSUME e = Undone(db, c), InForce(db, c), ch.reviewable
      PROVE  /\ e \in Database /\ FiguresAgree(e)
             /\ e.status = db.status /\ e.out = db.out /\ e.tasks = db.tasks
             /\ e.steps = db.steps /\ e.revs = db.revs
             /\ \A i \in DOMAIN db.changes : /\ i \in DOMAIN e.changes
                                             /\ e.changes[i].status \in {db.changes[i].status, "undone"}
  <2> DEFINE back == ch.undo
             new == Change(f, "kept", FALSE, back, "gone")
             added == AddChange(marked, new)
  <2>1. back # "gone" /\ back \in Described \cup {"delete"}
    BY <1>1, <1>6 DEF FiguresAgree, ChangeRow, Described, Semantics
  <2>2. CASE back = "delete"
    <3>1. e = [db EXCEPT !.entry = [db.entry EXCEPT ![f] = "gone"], !.changes = marked]
      BY <1>6, <2>2 DEF Undone
    <3>2. [db.entry EXCEPT ![f] = "gone"] \in [Figure -> Semantics]
      BY <1>1 DEF Semantics
    <3>3. /\ e \in Database /\ e.entry = [db.entry EXCEPT ![f] = "gone"] /\ e.changes = marked
          /\ e.status = db.status /\ e.out = db.out /\ e.tasks = db.tasks
          /\ e.steps = db.steps /\ e.revs = db.revs
      <4> HIDE DEF marked, f, ch, c
      <4> QED
        BY <1>3, <3>1, <3>2 DEF Database
    <3>4. InForce(db, c) /\ e.entry = [db.entry EXCEPT ![db.changes[c].fig] = "gone"]
      BY <1>6, <3>3
    <3> HIDE DEF c
    <3> QED
      BY <1>1, <3>3, <3>4, RemovedAgrees
  <2>3. CASE back # "delete"
    <3>1. /\ new \in ChangeRow /\ new.fig = f /\ new.status # "undone" /\ new.after = back
          /\ ~new.reviewable
      BY <1>1, <2>1, <2>3 DEF Change, ChangeRow, Described, Semantics
    <3>2. [db.entry EXCEPT ![f] = back] \in [Figure -> Semantics]
      BY <1>1, <2>1, <2>3 DEF Described, Semantics
    <3>3. added \in Seq(ChangeRow)
      BY <1>4, <3>1
    <3>4. e = [db EXCEPT !.entry = [db.entry EXCEPT ![f] = back], !.changes = added]
      BY <1>6, <2>3 DEF Undone
    <3>5. /\ e \in Database /\ e.entry = [db.entry EXCEPT ![f] = back] /\ e.changes = added
          /\ e.status = db.status /\ e.out = db.out /\ e.tasks = db.tasks
          /\ e.steps = db.steps /\ e.revs = db.revs
      <4> HIDE DEF added, f, ch, c, back
      <4> QED
        BY <3>2, <3>3, <3>4 DEF Database
    <3>6. e.entry = [db.entry EXCEPT ![new.fig] = new.after]
      <4> HIDE DEF new, f, back
      <4> QED
        BY <3>1, <3>5
    <3>7. InForce(db, c) /\ new.fig = db.changes[c].fig /\ e.changes = AddChange(marked, new)
      BY <1>6, <3>1, <3>5
    <3> HIDE DEF new, c
    <3>8. /\ FiguresAgree(e)
          /\ \A i \in DOMAIN db.changes :
               /\ i \in DOMAIN e.changes
               /\ e.changes[i].status \in {db.changes[i].status, "undone"}
      BY <1>1, <3>1, <3>5, <3>6, <3>7, ReplacedAgrees, Zenon
    <3> QED
      BY <3>5, <3>8
  <2> QED
    BY <2>2, <2>3
<1>7. CASE task.type = "edit"
  <2>1. e = Supersede(db, c, task.text) /\ InForce(db, c) /\ db.entry[f] # "gone"
    BY <1>7 DEF Acted, InForce
  <2> QED
    BY <1>2, <1>5, <2>1 DEF Described
<1>8. CASE task.type = "undo"
  <2>1. e = Undone(db, c) /\ InForce(db, c) /\ ch.reviewable
    BY <1>8 DEF Acted, InForce
  <2> QED
    BY <1>6, <2>1
<1>9. CASE task.type = "revise"
  <2>1. PICK after \in Text \cup {"decorative"} :
          e = Supersede(db, c, after) /\ InForce(db, c) /\ db.entry[f] # "gone"
    BY <1>9 DEF Acted, InForce
  <2> QED
    BY <1>5, <2>1 DEF Described
<1> QED
  BY <1>2, <1>7, <1>8, <1>9

------------------------------------------------------------------------------
(* A finished document, before any task *)

\* The invariant holds of it, with one change in force for each figure.
LEMMA ReviewBegins == Init => ReviewInv
<1> SUFFICES ASSUME Init PROVE ReviewInv
  OBVIOUS
<1>1. PICK first \in [Figure -> Text], undo \in {"pending"} \cup {"delete"}, legacy \in BOOLEAN :
        saved = [db |-> [status |-> "complete", out |-> IF legacy THEN Working ELSE Copy(1),
                         entry |-> first, tasks |-> [i \in Issue |-> "pending_review"],
                         changes |-> SetToSeq({Change(f, "pending_review", TRUE, first[f], undo)
                                                 : f \in Figure}),
                         steps |-> "done", revs |-> <<>>],
                 disk |-> IF legacy THEN {} ELSE {1}, bytes |-> 1]
  BY DEF Init
<1> DEFINE C(f) == Change(f, "pending_review", TRUE, first[f], undo)
           S == {C(f) : f \in Figure}
           s == SetToSeq(S)
           db == saved.db
           out == IF legacy THEN Working ELSE Copy(1)
<1>2. \A f \in Figure : /\ C(f) \in ChangeRow /\ C(f).fig = f /\ C(f).status = "pending_review"
                        /\ C(f).after = first[f] /\ C(f).undo # "gone"
  BY DEF Change, ChangeRow, Described, Semantics
<1>3. IsFiniteSet(S)
  <2> DEFINE g == [f \in Figure |-> C(f)]
  <2>1. g \in Surjection(Figure, S)
    BY DEF Surjection
  <2> QED
    BY <2>1, FS_Surjection, ReviewConstants
<1>4. /\ s \in Seq(S)
      /\ \A i, j \in DOMAIN s : s[i] = s[j] => i = j
      /\ \A x \in S : \E i \in DOMAIN s : s[i] = x
  BY <1>3, SeqOfSet
<1>5. /\ saved.bytes = 1 /\ saved.disk = IF legacy THEN {} ELSE {1}
      /\ db.status = "complete" /\ db.out = out /\ db.entry = first /\ db.changes = s
      /\ db.tasks = [i \in Issue |-> "pending_review"] /\ db.steps = "done" /\ db.revs = <<>>
  BY <1>1
<1> HIDE DEF s
<1> HIDE DEF S, C
<1>6. \A i \in DOMAIN s : \E f \in Figure : s[i] = C(f)
  <2>1. \A i \in DOMAIN s : s[i] \in S
    BY <1>4
  <2> QED
    BY <2>1 DEF S
<1>7. \A i \in DOMAIN s : /\ s[i] \in ChangeRow /\ s[i].status = "pending_review"
                          /\ s[i].after = first[s[i].fig] /\ s[i].undo # "gone"
                          /\ s[i] = C(s[i].fig) /\ s[i].fig \in Figure
  BY <1>2, <1>6
<1>8. s \in Seq(ChangeRow)
  <2>1. PICK n \in Nat : DOMAIN s = 1..n /\ s \in [1..n -> S]
    BY <1>4
  <2>2. s \in [1..n -> ChangeRow]
    BY <1>7, <2>1
  <2> QED
    BY <2>2, SeqFrom
<1>9. saved \in [db : Database, disk : SUBSET Nat, bytes : Nat \ {0}]
  <2>1. out \in Pointer /\ first \in [Figure -> Semantics]
    BY CopyIs DEF Semantics
  <2>2. <<>> \in Seq(RevisionRow)
    OBVIOUS
  <2>3. [status |-> "complete", out |-> out, entry |-> first,
         tasks |-> [i \in Issue |-> "pending_review"], changes |-> s,
         steps |-> "done", revs |-> <<>>] \in Database
    BY <1>8, <2>1, <2>2 DEF Database, Status, Ready, StepsState
  <2> QED
    BY <1>1, <2>3 DEF s, S, C
<1>10. FiguresAgree(db)
  <2>1. \A i, j \in DOMAIN s : s[i].fig = s[j].fig => i = j
    BY <1>4, <1>7
  <2>2. \A f \in Figure : \E i \in DOMAIN s : s[i].fig = f
    <3> TAKE f \in Figure
    <3>1. PICK i \in DOMAIN s : s[i] = C(f)
      BY <1>4 DEF S
    <3> QED
      BY <1>2, <3>1
  <2> HIDE DEF db
  <2> QED
    BY <1>5, <1>7, <2>1, <2>2 DEF FiguresAgree, InForce
<1>11. out = Working \/ Copied(out, saved.disk)
  BY <1>5 DEF Copied
<1>12. PointersIn(db, saved.disk) /\ NewestIn(db, saved.disk)
  <2>1. DOMAIN db.revs = {}
    BY <1>5
  <2> QED
    BY <1>5, <1>11, <2>1 DEF PointersIn, NewestIn, OnDisk
<1>13. ArchiveOK(saved)
  BY <1>5, <1>10, <1>11, <1>12 DEF ArchiveOK, Finished, Ready
<1>14. Fits(kept, task, saved.db)
  BY DEF Init, Fits, Idle, Command
<1>15. ReviewTypeOK
  <2>1. kept \in [changes : SUBSET Nat, tasks : SUBSET Issue]
    BY DEF Init
  <2>2. pc \in Places /\ task \in Command \cup {Idle}
    BY DEF Init, Places
  <2>3. {live, txn} \subseteq Database \cup {NoTxn}
    BY DEF Init
  <2> QED
    BY <1>9, <2>1, <2>2, <2>3 DEF Init, ReviewTypeOK
<1>16. AttemptAt /\ FreshAt /\ PreparedAt /\ BegunAt /\ ClosingAt
  BY DEF Init, AttemptAt, FreshAt, PreparedAt, BegunAt, ClosingAt, Fresh, Prepared, Begun, Closing
<1> QED
  BY <1>13, <1>14, <1>15, <1>16 DEF ReviewInv

------------------------------------------------------------------------------
(* Rows, journals and the copies they name *)

\* More copies on disk do no harm.
LEMMA MoreCopies ==
  ASSUME NEW d, NEW e, d \subseteq e
  PROVE  /\ \A out : Copied(out, d) => Copied(out, e)
         /\ \A out : OnDisk(out, d) => OnDisk(out, e)
         /\ \A db : PointersIn(db, d) => PointersIn(db, e)
         /\ \A db : NewestIn(db, d) => NewestIn(db, e)
         /\ \A db : Finished(db, d) => Finished(db, e)
<1>1. \A out : Copied(out, d) => Copied(out, e)
  BY DEF Copied
<1>2. \A out : OnDisk(out, d) => OnDisk(out, e)
  BY <1>1 DEF OnDisk
<1>3. \A db : PointersIn(db, d) => PointersIn(db, e)
  BY <1>2 DEF PointersIn
<1>4. \A db : NewestIn(db, d) => NewestIn(db, e)
  BY <1>1 DEF NewestIn
<1>5. \A db : Finished(db, d) => Finished(db, e)
  BY <1>1 DEF Finished
<1> QED
  BY <1>1, <1>2, <1>3, <1>4, <1>5

\* What is said of the figures is said of two tables, of the journal of one.
LEMMA SameFigures ==
  ASSUME NEW b, NEW c, FiguresAgree(b), c.entry = b.entry, c.changes = b.changes
  PROVE  FiguresAgree(c)
BY DEF FiguresAgree, InForce

\* What is said of the journal, and of the decisions, is too.
LEMMA SameJournal ==
  ASSUME NEW b, NEW c, c.revs = b.revs, NEW d
  PROVE  /\ PointersIn(b, d) /\ OnDisk(c.out, d) => PointersIn(c, d)
         /\ NewestIn(b, d) => NewestIn(c, d)
         /\ \A n, old : Grown(b, n, old) => Grown(c, n, old)
<1>1. PointersIn(b, d) /\ OnDisk(c.out, d) => PointersIn(c, d)
  BY DEF PointersIn
<1>2. NewestIn(b, d) => NewestIn(c, d)
  BY DEF NewestIn
<1>3. \A n, old : Grown(b, n, old) => Grown(c, n, old)
  BY DEF Grown
<1> QED
  BY <1>1, <1>2, <1>3

\* The record of decisions is in the changes and the issues.
LEMMA SameRecord ==
  ASSUME NEW b, NEW c, c.changes = b.changes, c.tasks = b.tasks
  PROVE  /\ \A k, old : Recorded(b, k, old) => Recorded(c, k, old)
         /\ \A k, old : Answered(b, k, old) => Answered(c, k, old)
BY DEF Recorded, Answered

\* A copy is a pointer that may stay, and so is none.
LEMMA CopyStays ==
  ASSUME NEW d
  PROVE  OnDisk(NoFile, d) /\ OnDisk(Working, d) /\ \A out : Copied(out, d) => OnDisk(out, d)
BY DEF OnDisk

\* The journal with another row in place of row n.
LEMMA RevsWith ==
  ASSUME NEW revs \in Seq(RevisionRow), NEW n \in DOMAIN revs, NEW r \in RevisionRow
  PROVE  LET new == [revs EXCEPT ![n] = r]
         IN /\ new \in Seq(RevisionRow) /\ DOMAIN new = DOMAIN revs /\ Len(new) = Len(revs)
            /\ new[n] = r /\ \A i \in DOMAIN revs : i # n => new[i] = revs[i]
<1> DEFINE new == [revs EXCEPT ![n] = r]
<1>1. PICK m \in Nat : DOMAIN revs = 1..m /\ revs \in [1..m -> RevisionRow] /\ Len(revs) = m
  OBVIOUS
<1>2. new \in [1..m -> RevisionRow]
  BY <1>1
<1>3. new[n] = r /\ \A i \in DOMAIN revs : i # n => new[i] = revs[i]
  BY <1>1
<1> HIDE DEF new
<1>4. new \in Seq(RevisionRow) /\ Len(new) = m
  BY <1>2, SeqFrom
<1> QED
  BY <1>1, <1>2, <1>3, <1>4 DEF new

\* A database whose journal differs in the last row, which was not published.
LEMMA LastRowKeeps ==
  ASSUME NEW b \in Database, NEW c \in Database, NEW n \in DOMAIN b.revs, n = Len(b.revs),
         c.revs = [b.revs EXCEPT ![n] = c.revs[n]], c.revs[n] \in RevisionRow,
         NEW d, PointersIn(b, d), NewestIn(b, d), b.revs[n].phase # "published",
         OnDisk(c.out, d), OnDisk(c.revs[n].before.out, d), OnDisk(c.revs[n].edits, d),
         OnDisk(c.revs[n].published, d),
         c.revs[n].phase = "published" => Copied(c.revs[n].published, d)
  PROVE  /\ PointersIn(c, d) /\ NewestIn(c, d)
         /\ \A old \in Database : Grown(b, n, old) => Grown(c, n, old)
<1> DEFINE r == c.revs[n]
<1>1. b.revs \in Seq(RevisionRow) /\ DOMAIN b.revs = 1..n /\ n \in Nat
  BY DEF Database
<1>2. /\ DOMAIN c.revs = 1..n /\ Len(c.revs) = n
      /\ \A i \in 1..n : i # n => c.revs[i] = b.revs[i]
  <2> HIDE DEF r
  <2>1. c.revs = [b.revs EXCEPT ![n] = r] /\ r \in RevisionRow
    BY DEF r
  <2> QED
    BY <1>1, <2>1, RevsWith
<1>3. PointersIn(c, d)
  <2>1. \A i \in 1..n : /\ OnDisk(c.revs[i].before.out, d) /\ OnDisk(c.revs[i].edits, d)
                        /\ OnDisk(c.revs[i].published, d)
    BY <1>1, <1>2 DEF PointersIn
  <2> QED
    BY <1>2, <2>1 DEF PointersIn
<1>4. NewestIn(c, d)
  <2> SUFFICES ASSUME NEW i \in 1..n, c.revs[i].phase = "published",
                      \A j \in 1..n : j > i => c.revs[j].phase # "published"
               PROVE  Copied(c.revs[i].published, d)
    BY <1>2 DEF NewestIn
  <2>1. CASE i = n
    BY <2>1
  <2>2. CASE i # n
    <3>1. c.revs[i] = b.revs[i]
      BY <1>2, <2>2
    <3>2. \A j \in 1..n : j > i => b.revs[j].phase # "published"
      <4> TAKE j \in 1..n
      <4> HAVE j > i
      <4>1. CASE j = n
        BY <4>1
      <4>2. CASE j # n
        BY <1>2, <4>2
      <4> QED
        BY <4>1, <4>2
    <3> QED
      BY <1>1, <3>1, <3>2 DEF NewestIn
  <2> QED
    BY <2>1, <2>2
<1>5. ASSUME NEW old \in Database, Grown(b, n, old)
      PROVE  Grown(c, n, old)
  <2>1. n = Len(old.revs) + 1 /\ \A i \in DOMAIN old.revs : b.revs[i].phase = old.revs[i].phase
    BY <1>5 DEF Grown
  <2>2. Len(old.revs) \in Nat /\ DOMAIN old.revs = 1..Len(old.revs)
    BY DEF Database
  <2>3. \A i \in DOMAIN old.revs : i \in 1..n /\ i # n
    BY <2>1, <2>2
  <2> QED
    BY <1>2, <2>1, <2>3 DEF Grown
<1> QED
  BY <1>3, <1>4, <1>5

------------------------------------------------------------------------------
(* Where a step leads *)

\* An attempt that is over, or has not begun.
LEMMA IntoIdle ==
  ASSUME ReviewTypeOK', ArchiveOK(saved'), Fits(kept', task', saved'.db),
         pc' = "idle", live' = NoTxn, txn' = NoTxn
  PROVE  ReviewInv'
<1>1. AttemptAt' /\ FreshAt' /\ PreparedAt' /\ BegunAt' /\ ClosingAt'
  BY DEF AttemptAt, FreshAt, PreparedAt, BegunAt, ClosingAt, Fresh, Prepared, Begun, Closing
<1> QED
  BY <1>1 DEF ReviewInv

\* A step of an attempt: what is known at the place it comes to.
LEMMA IntoPlace ==
  ASSUME ReviewInv, UNCHANGED workerVars, task \in Command, pc' \in Places \ {"idle"},
         live' \in Database, txn' \in Database, disk' \subseteq Nat, bytes' \in Nat \ {0},
         made' \in Nat, owned' \in Nat, doomed' \subseteq Nat, crashes' \in Nat,
         PointersIn(live', disk'),
         pc' \in Fresh => FreshAt', pc' \in Prepared => PreparedAt',
         pc' \in Begun => BegunAt', pc' \in Closing => ClosingAt'
  PROVE  ReviewInv'
<1>1. ArchiveOK(saved') /\ Fits(kept', task', saved'.db)
  BY DEF ReviewInv, workerVars
<1>2. ReviewTypeOK'
  BY DEF ReviewInv, ReviewTypeOK, workerVars
<1>3. AttemptAt'
  BY DEF AttemptAt, workerVars
<1>4. FreshAt' /\ PreparedAt' /\ BegunAt' /\ ClosingAt'
  BY DEF FreshAt, PreparedAt, BegunAt, ClosingAt
<1> QED
  BY <1>1, <1>2, <1>3, <1>4 DEF ReviewInv

\* What is known of an attempt that runs.
LEMMA Running ==
  ASSUME ReviewInv, pc # "idle"
  PROVE  /\ live \in Database /\ txn \in Database /\ task \in Command /\ bytes # 0
         /\ PointersIn(live, disk)
         /\ saved.db \in Database /\ saved.bytes \in Nat \ {0} /\ saved.disk \subseteq Nat
         /\ ArchiveOK(saved) /\ Fits(kept, task, saved.db)
         /\ kept \in [changes : SUBSET Nat, tasks : SUBSET Issue]
         /\ disk \subseteq Nat /\ bytes \in Nat /\ made \in Nat /\ owned \in Nat
         /\ doomed \subseteq Nat /\ crashes \in Nat
BY DEF ReviewInv, AttemptAt, ReviewTypeOK

\* The person's steps.
LEMMA PersonSteps ==
  ASSUME ReviewInv, Keep \/ QueueReview \/ QueueSync
  PROVE  ReviewInv'
<1>1. task = Idle /\ pc' = pc /\ live' = live /\ txn' = txn /\ saved' = saved
  BY DEF Keep, QueueReview, QueueSync
<1>2. pc = "idle" /\ live = NoTxn /\ txn = NoTxn
  <2>1. Idle \notin Command
    BY DEF Idle, Command
  <2> QED
    BY <1>1, <2>1 DEF ReviewInv, AttemptAt
<1>3. ArchiveOK(saved') /\ saved.db \in Database
  BY <1>1 DEF ReviewInv, ReviewTypeOK
<1>4. CASE Keep
  <2>1. kept' \in [changes : SUBSET Nat, tasks : SUBSET Issue]
    <3>1. DOMAIN saved.db.changes \subseteq Nat
      BY <1>3 DEF Database
    <3> QED
      BY <1>4, <3>1 DEF Keep, ReviewInv, ReviewTypeOK
  <2>2. version' \in Nat
    BY <1>4 DEF Keep, ReviewInv, ReviewTypeOK
  <2>3. ReviewTypeOK'
    BY <1>4, <2>1, <2>2 DEF Keep, ReviewInv, ReviewTypeOK, fileVars
  <2>4. /\ \A c \in kept'.changes : /\ c \in DOMAIN saved.db.changes
                                    /\ saved.db.changes[c].status = "pending_review"
        /\ \A i \in kept'.tasks : saved.db.tasks[i] = "pending_review"
    BY <1>4 DEF Keep, ReviewInv, Fits, ReviewTypeOK
  <2>5. Fits(kept', task', saved'.db)
    BY <1>1, <1>4, <2>4 DEF Keep, Fits, Idle
  <2> QED
    BY <1>1, <1>2, <1>3, <2>3, <2>5, IntoIdle
<1>5. CASE QueueReview
  <2>1. PICK c \in DOMAIN saved.db.changes, type \in {"edit", "undo", "revise"}, t \in Text :
          task' = [kind |-> "review", type |-> type, change |-> c, text |-> t]
    BY <1>5 DEF QueueReview
  <2>2. c \in Nat
    BY <1>3 DEF Database
  <2>3. task' \in Command /\ task'.change = c
    BY <2>1, <2>2 DEF Command
  <2>4. ReviewTypeOK'
    BY <1>5, <2>3 DEF QueueReview, ReviewInv, ReviewTypeOK, fileVars
  <2>5. Fits(kept', task', saved'.db)
    BY <1>1, <1>5, <2>3 DEF QueueReview, ReviewInv, Fits
  <2> QED
    BY <1>1, <1>2, <1>3, <2>4, <2>5, IntoIdle
<1>6. CASE QueueSync
  <2>1. task' \in Command /\ task'.kind = "sync"
    BY <1>6 DEF QueueSync, Command, ReviewInv, ReviewTypeOK
  <2>2. ReviewTypeOK'
    BY <1>6, <2>1 DEF QueueSync, ReviewInv, ReviewTypeOK, fileVars
  <2>3. Fits(kept', task', saved'.db)
    BY <1>1, <1>6, <2>1 DEF QueueSync, ReviewInv, Fits
  <2> QED
    BY <1>1, <1>2, <1>3, <2>2, <2>3, IntoIdle
<1> QED
  BY <1>4, <1>5, <1>6

\* An attempt dies, is refused or fails: the archive stays.
LEMMA AttemptEnds ==
  ASSUME ReviewInv, Dies \/ Refused \/ Error
  PROVE  ReviewInv'
<1>1. /\ saved' = saved /\ kept' = kept /\ task' \in {task, Idle} /\ pc' = "idle"
      /\ live' = NoTxn /\ txn' = NoTxn
  BY DEF Dies, Refused, Error
<1>2. ReviewTypeOK'
  <2>1. {live', txn'} \subseteq Database \cup {NoTxn} /\ pc' \in Places
    BY <1>1 DEF Places
  <2>2. crashes' \in Nat /\ doomed' \subseteq Nat /\ disk' = {} /\ bytes' = 0 /\ owned' = 0
    <3>1. crashes \in Nat /\ doomed \subseteq Nat
      BY DEF ReviewInv, ReviewTypeOK
    <3>2. CASE Dies
      BY <3>1, <3>2 DEF Dies
    <3>3. CASE Refused \/ Error
      BY <3>1, <3>3 DEF Refused, Error
    <3> QED
      BY <3>2, <3>3
  <2> QED
    BY <1>1, <2>1, <2>2 DEF Dies, Refused, Error, ReviewInv, ReviewTypeOK
<1>3. Fits(kept', task', saved'.db)
  <2>1. Idle \notin Command
    BY DEF Idle, Command
  <2> QED
    BY <1>1, <2>1 DEF ReviewInv, Fits
<1> QED
  BY <1>1, <1>2, <1>3, IntoIdle DEF ReviewInv

------------------------------------------------------------------------------
(* Unpacking, decisions and the snapshot *)

\* What prepare_review finds is the archive's document with the decisions of a review.
LEMMA FoundIs ==
  ASSUME task \in Command, saved.db \in Database, ArchiveOK(saved), Fits(kept, task, saved.db),
         kept \in [changes : SUBSET Nat, tasks : SUBSET Issue]
  PROVE  LET F == Found(task, saved, kept)
         IN /\ F \in Database /\ FiguresAgree(F)
            /\ F.status = saved.db.status /\ F.out = saved.db.out /\ F.entry = saved.db.entry
            /\ F.steps = saved.db.steps /\ F.revs = saved.db.revs
            /\ DOMAIN F.changes = DOMAIN saved.db.changes
            /\ task.kind = "sync" => F = saved.db
            /\ task.kind = "review" => /\ F = Decide(saved.db, kept) /\ Recorded(F, kept, saved.db)
                                       /\ Answered(F, kept, saved.db)
<1>1. task.kind \in {"review", "sync"}
  BY DEF Command
<1>2. FiguresAgree(saved.db)
  BY DEF ArchiveOK, Finished
<1>3. CASE task.kind = "sync"
  BY <1>2, <1>3 DEF Found
<1>4. CASE task.kind = "review"
  <2>1. Decidable(saved.db, kept)
    BY DEF Decidable, Fits
  <2>2. kept.changes \subseteq DOMAIN saved.db.changes /\ \A i \in kept.tasks : saved.db.tasks[i] # "none"
    BY DEF Fits
  <2>3. Recorded(Decide(saved.db, kept), kept, saved.db) /\ Answered(Decide(saved.db, kept), kept, saved.db)
    BY <2>2, DecideRecords
  <2>4. Found(task, saved, kept) = Decide(saved.db, kept)
    BY <1>4 DEF Found
  <2> QED
    BY <1>2, <1>4, <2>1, <2>3, <2>4, DecideIs, DecideAgrees
<1> QED
  BY <1>1, <1>3, <1>4

\* The attempt starts from the archive.
LEMMA UnpackStep ==
  ASSUME ReviewInv, Unpack
  PROVE  ReviewInv'
<1>1. /\ task \in Command /\ saved.db \in Database /\ saved.bytes \in Nat \ {0}
      /\ saved.disk \subseteq Nat /\ made \in Nat /\ doomed \subseteq Nat /\ crashes \in Nat
  BY DEF Unpack, ReviewInv, ReviewTypeOK
<1>2. /\ UNCHANGED workerVars /\ live' = saved.db /\ txn' = saved.db /\ disk' = saved.disk
      /\ bytes' = saved.bytes /\ owned' = 0 /\ made' = made /\ doomed' = doomed
      /\ crashes' = crashes
      /\ pc' = IF task.kind = "review" THEN "overrides" ELSE "prepare"
  BY DEF Unpack
<1>3. PointersIn(live', disk')
  BY <1>2 DEF ReviewInv, ArchiveOK
<1>4. FreshAt'
  BY <1>2 DEF FreshAt, Found, workerVars
<1>5. pc' \in Fresh
  BY <1>2 DEF Fresh
<1>6. pc' \in Places \ {"idle"} /\ pc' \notin Prepared \cup Begun \cup Closing
  BY <1>5 DEF Places, Fresh, Prepared, Begun, Closing
<1> QED
  BY <1>1, <1>2, <1>3, <1>4, <1>6, IntoPlace

\* A review takes the decisions the Worker sent.
LEMMA ReviewOverridesStep ==
  ASSUME ReviewInv, ReviewOverrides
  PROVE  ReviewInv'
<1>1. pc = "overrides" /\ pc # "idle"
  BY DEF ReviewOverrides, Overrides
<1>2. /\ live = saved.db /\ disk = saved.disk /\ bytes = saved.bytes /\ owned = 0
      /\ task.kind = "review" /\ txn = saved.db
  BY <1>1 DEF ReviewInv, FreshAt, Fresh
<1>3. /\ UNCHANGED workerVars
      /\ live' = live /\ disk' = disk /\ bytes' = bytes /\ made' = made /\ owned' = owned
      /\ doomed' = doomed /\ crashes' = crashes
  BY DEF ReviewOverrides, Overrides, fileVars
<1>4. PointersIn(live', disk')
  BY <1>1, <1>3, Running
<1>5. CASE txn' = Decide(txn, kept) /\ pc' = "prepare"
  <2>1. txn' = Found(task, saved, kept)
    BY <1>2, <1>5 DEF Found
  <2>2. txn' \in Database
    BY <1>1, <2>1, Running, FoundIs
  <2>3. FreshAt'
    BY <1>2, <1>3, <1>5, <2>1 DEF FreshAt, workerVars
  <2>4. pc' \in Places \ {"idle"} /\ pc' \notin Prepared \cup Begun \cup Closing
    BY <1>5 DEF Places, Fresh, Prepared, Begun, Closing
  <2> QED
    BY <1>1, <1>3, <1>4, <2>2, <2>3, <2>4, Running, IntoPlace
<1>6. CASE txn' = txn /\ pc' = "error"
  <2>1. pc' \in Places \ {"idle"} /\ pc' \notin Fresh \cup Prepared \cup Begun \cup Closing
    BY <1>6 DEF Places, Fresh, Prepared, Begun, Closing
  <2> QED
    BY <1>1, <1>3, <1>4, <1>6, <2>1, Running, IntoPlace
<1> QED
  BY <1>5, <1>6 DEF ReviewOverrides, Overrides

\* The snapshot is the document that is found, with a copy of its PDF.
LEMMA SnapshotIs ==
  ASSUME task \in Command, saved.db \in Database, ArchiveOK(saved), Fits(kept, task, saved.db),
         kept \in [changes : SUBSET Nat, tasks : SUBSET Issue], saved.bytes \in Nat
  PROVE  LET F == Found(task, saved, kept)
             b == Snapshot(task, saved, kept)
         IN /\ b \in BodyRow
            /\ b.status = F.status /\ b.entry = F.entry /\ b.changes = F.changes
            /\ b.tasks = F.tasks /\ b.steps = F.steps
            /\ b.out = IF saved.db.out = Working THEN Copy(saved.bytes) ELSE saved.db.out
            /\ b = Body([F EXCEPT !.out = b.out])
<1> DEFINE F == Found(task, saved, kept)
           out == IF saved.db.out = Working THEN Copy(saved.bytes) ELSE saved.db.out
           e == [F EXCEPT !.out = out]
<1>1. F \in Database
  BY FoundIs
<1>2. out \in Pointer
  BY CopyIs DEF Database
<1>3. Snapshot(task, saved, kept) = Body(e)
  BY DEF Snapshot
<1> HIDE DEF F, out
<1>4. /\ e \in Database /\ e.out = out /\ e.status = F.status /\ e.entry = F.entry
      /\ e.changes = F.changes /\ e.tasks = F.tasks /\ e.steps = F.steps
  BY <1>1, <1>2 DEF Database
<1> HIDE DEF e
<1>5. /\ Body(e) \in BodyRow /\ Body(e).out = out /\ Body(e).status = F.status
      /\ Body(e).entry = F.entry /\ Body(e).changes = F.changes
      /\ Body(e).tasks = F.tasks /\ Body(e).steps = F.steps
  BY <1>4 DEF Body, BodyRow, Database
<1> QED
  BY <1>3, <1>5 DEF F, out, e

\* A database whose journal has one more row, that is not published.
LEMMA NewRowKeeps ==
  ASSUME NEW b \in Database, NEW c \in Database, NEW r \in RevisionRow,
         c.revs = Append(b.revs, r), r.phase = "prepared",
         NEW d, PointersIn(b, d), NewestIn(b, d),
         OnDisk(c.out, d), OnDisk(r.before.out, d), OnDisk(r.edits, d), OnDisk(r.published, d)
  PROVE  LET n == Len(b.revs) + 1
         IN /\ n \in Nat \ {0} /\ Len(c.revs) = n /\ n \in DOMAIN c.revs /\ c.revs[n] = r
            /\ PointersIn(c, d) /\ NewestIn(c, d) /\ Grown(c, n, b)
<1> DEFINE m == Len(b.revs)
<1>1. b.revs \in Seq(RevisionRow) /\ DOMAIN b.revs = 1..m /\ m \in Nat
  BY DEF Database
<1>2. /\ Len(c.revs) = m + 1 /\ DOMAIN c.revs = 1..(m + 1) /\ c.revs[m + 1] = r
      /\ \A i \in 1..m : c.revs[i] = b.revs[i]
  BY <1>1
<1>3. PointersIn(c, d)
  <2>1. \A i \in 1..m : /\ OnDisk(c.revs[i].before.out, d) /\ OnDisk(c.revs[i].edits, d)
                        /\ OnDisk(c.revs[i].published, d)
    BY <1>1, <1>2 DEF PointersIn
  <2>2. \A i \in DOMAIN c.revs : i \in 1..m \/ i = m + 1
    BY <1>1, <1>2
  <2> QED
    BY <1>2, <2>1, <2>2 DEF PointersIn
<1>4. NewestIn(c, d)
  <2> SUFFICES ASSUME NEW i \in DOMAIN c.revs, c.revs[i].phase = "published",
                      \A j \in DOMAIN c.revs : j > i => c.revs[j].phase # "published"
               PROVE  Copied(c.revs[i].published, d)
    BY DEF NewestIn
  <2>1. i \in 1..m /\ c.revs[i] = b.revs[i]
    BY <1>1, <1>2
  <2>2. \A j \in 1..m : j > i => b.revs[j].phase # "published"
    BY <1>1, <1>2
  <2> QED
    BY <1>1, <2>1, <2>2 DEF NewestIn
<1>5. Grown(c, m + 1, b)
  BY <1>1, <1>2 DEF Grown
<1> QED
  BY <1>1, <1>2, <1>3, <1>4, <1>5

\* prepare_review takes the snapshot and keeps a copy of the PDF, or finds the command done.
LEMMA PrepareStep ==
  ASSUME ReviewInv, Prepare
  PROVE  ReviewInv'
<1> DEFINE F == Found(task, saved, kept)
           out == Preserved(txn)
           kept2 == [txn EXCEPT !.out = out]
           r == [cmd |-> task, phase |-> "prepared", before |-> Body(kept2),
                 edits |-> NoFile, published |-> NoFile]
           more == IF out = Working \/ txn.out = out THEN {} ELSE {bytes}
<1>1. pc = "prepare" /\ pc # "idle"
  BY DEF Prepare
<1>2. /\ live = saved.db /\ disk = saved.disk /\ bytes = saved.bytes /\ owned = 0 /\ txn = F
  BY <1>1 DEF ReviewInv, FreshAt, Fresh
<1>3. /\ task \in Command /\ saved.db \in Database /\ ArchiveOK(saved)
      /\ Fits(kept, task, saved.db) /\ kept \in [changes : SUBSET Nat, tasks : SUBSET Issue]
      /\ live \in Database /\ txn \in Database /\ saved.bytes \in Nat \ {0}
      /\ saved.disk \subseteq Nat /\ PointersIn(live, disk) /\ bytes \in Nat \ {0}
      /\ made \in Nat /\ owned \in Nat /\ doomed \subseteq Nat /\ crashes \in Nat
  BY <1>1, Running
<1>4. /\ UNCHANGED workerVars /\ live' = live /\ bytes' = bytes /\ made' = made
      /\ doomed' = doomed /\ crashes' = crashes
  BY DEF Prepare
<1>5. task.kind \in {"review", "sync"}
  BY <1>3 DEF Command
<1>6. CASE /\ UNCHANGED <<txn, disk, owned>> /\ pc' \in {"pack", "error", "refused"}
  <2>1. ClosingAt'
    BY <1>2, <1>4, <1>6 DEF ClosingAt, Closing, workerVars
  <2>2. pc' \in Places \ {"idle"} /\ pc' \notin Fresh \cup Prepared \cup Begun
    BY <1>6 DEF Places, Fresh, Prepared, Begun, Closing
  <2> QED
    BY <1>2, <1>3, <1>4, <1>6, <2>1, <2>2, IntoPlace
<1>7. CASE /\ txn.status \in Ready
           /\ disk' = disk \cup more /\ owned' = Len(txn.revs) + 1
           /\ txn' = [kept2 EXCEPT !.revs = Append(kept2.revs, r)]
           /\ pc' = IF task.kind = "sync" THEN "sync_overrides" ELSE "act"
  <2>1. /\ F.status = saved.db.status /\ F.out = saved.db.out /\ F.steps = saved.db.steps
        /\ F.revs = saved.db.revs /\ FiguresAgree(F)
        /\ task.kind = "sync" => F = saved.db
        /\ task.kind = "review" => Recorded(F, kept, saved.db) /\ Answered(F, kept, saved.db)
    BY <1>3, FoundIs
  <2>2. /\ PointersIn(saved.db, disk) /\ NewestIn(saved.db, disk)
        /\ saved.db.steps = "done" /\ (saved.db.out = Working \/ Copied(saved.db.out, disk))
    BY <1>2, <1>3 DEF ArchiveOK, Finished
  <2>3. out = IF saved.db.out = Working THEN Copy(saved.bytes) ELSE saved.db.out
    BY <1>2, <2>1 DEF Preserved
  <2>4. Copied(out, disk') /\ disk \subseteq disk' /\ disk' \subseteq Nat /\ out \in Pointer
    <3>1. CASE saved.db.out = Working
      <4>1. out = Copy(bytes) /\ out # Working /\ txn.out = Working /\ out \in Pointer
        BY <1>2, <1>3, <2>1, <2>3, <3>1, CopyIs
      <4>2. disk' = disk \cup {bytes}
        BY <1>7, <4>1
      <4> QED
        BY <1>2, <1>3, <4>1, <4>2 DEF Copied
    <3>2. CASE saved.db.out # Working
      <4>1. txn.out = out /\ out = saved.db.out
        BY <1>2, <2>1, <2>3, <3>2
      <4>2. disk' = disk
        BY <1>7, <4>1
      <4> QED
        BY <1>2, <1>3, <2>2, <3>2, <4>1, <4>2 DEF Database
    <3> QED
      BY <3>1, <3>2
  <2> HIDE DEF more
  <2>5. /\ kept2 \in Database /\ kept2.out = out /\ kept2.status = txn.status
        /\ kept2.entry = txn.entry /\ kept2.changes = txn.changes /\ kept2.tasks = txn.tasks
        /\ kept2.steps = txn.steps /\ kept2.revs = txn.revs
    <3> HIDE DEF out
    <3> QED
      BY <1>3, <2>4 DEF Database
  <2>6. Body(kept2) = Snapshot(task, saved, kept)
    BY <1>2, <2>3 DEF Snapshot
  <2>7. /\ Snapshot(task, saved, kept) \in BodyRow /\ Snapshot(task, saved, kept).out = out
    BY <1>3, <2>3, SnapshotIs
  <2> HIDE DEF kept2, out, F
  <2>8. /\ r \in RevisionRow /\ r.before = Snapshot(task, saved, kept) /\ r.phase = "prepared"
        /\ r.edits = NoFile /\ r.published = NoFile
    BY <1>3, <2>6, <2>7, CopyIs DEF RevisionRow
  <2> HIDE DEF r
  <2>9. /\ txn' \in Database /\ txn'.out = out /\ txn'.status = txn.status
        /\ txn'.entry = txn.entry /\ txn'.changes = txn.changes /\ txn'.tasks = txn.tasks
        /\ txn'.steps = txn.steps /\ txn'.revs = Append(saved.db.revs, r)
    <3>1. kept2.revs = saved.db.revs /\ kept2.revs \in Seq(RevisionRow)
      BY <1>2, <1>3, <2>1, <2>5 DEF Database
    <3>2. Append(kept2.revs, r) \in Seq(RevisionRow)
      BY <2>8, <3>1
    <3> QED
      BY <1>7, <2>5, <3>1, <3>2 DEF Database
  <2>10. PointersIn(saved.db, disk') /\ NewestIn(saved.db, disk')
    BY <2>2, <2>4, MoreCopies
  <2>11. /\ OnDisk(txn'.out, disk') /\ OnDisk(r.before.out, disk')
         /\ OnDisk(r.edits, disk') /\ OnDisk(r.published, disk')
    BY <2>4, <2>7, <2>8, <2>9, CopyStays
  <2>12. owned' = Len(saved.db.revs) + 1
    BY <1>2, <1>7, <2>1
  <2>13. /\ owned' \in Nat \ {0} /\ txn'.revs[owned'] = r
         /\ PointersIn(txn', disk') /\ NewestIn(txn', disk') /\ Grown(txn', owned', saved.db)
    <3>1. /\ saved.db \in Database /\ txn' \in Database /\ r \in RevisionRow
          /\ txn'.revs = Append(saved.db.revs, r) /\ r.phase = "prepared"
      BY <1>3, <2>8, <2>9
    <3>2. LET n == Len(saved.db.revs) + 1
          IN /\ n \in Nat \ {0} /\ Len(txn'.revs) = n /\ n \in DOMAIN txn'.revs /\ txn'.revs[n] = r
             /\ PointersIn(txn', disk') /\ NewestIn(txn', disk') /\ Grown(txn', n, saved.db)
      BY <2>10, <2>11, <3>1, NewRowKeeps, Zenon
    <3> QED
      BY <2>12, <3>2
  <2>14. FiguresAgree(txn')
    BY <1>2, <2>1, <2>9, SameFigures
  <2>15. Consistent(txn', owned', saved.db, disk')
    BY <2>13, <2>14 DEF Consistent
  <2>16. Finished(txn', disk')
    BY <1>2, <1>7, <2>1, <2>2, <2>4, <2>9, <2>14 DEF Finished
  <2>17. Guarded(txn', owned', Snapshot(task, saved, kept), disk')
    BY <2>4, <2>7, <2>8, <2>13 DEF Guarded
  <2>18. task.kind = "review" => Recorded(txn', kept, saved.db) /\ Answered(txn', kept, saved.db)
    BY <1>2, <2>1, <2>9, SameRecord
  <2>19. PreparedAt'
    <3>1. txn'.revs[owned'].phase = "prepared" /\ Copied(txn'.out, disk') /\ live' = saved.db
      BY <1>2, <1>4, <2>4, <2>8, <2>9, <2>13
    <3>2. task.kind = "sync" => txn'.changes = saved.db.changes /\ txn'.tasks = saved.db.tasks
      BY <1>2, <2>1, <2>9
    <3>3. txn'.changes = Found(task, saved, kept).changes
      BY <1>2, <2>9 DEF F
    <3>4. saved' = saved /\ task' = task /\ kept' = kept
      BY <1>4 DEF workerVars
    <3> QED
      BY <1>5, <1>7, <2>15, <2>16, <2>17, <2>18, <3>1, <3>2, <3>3, <3>4 DEF PreparedAt
  <2>20. PointersIn(live', disk')
    BY <1>2, <1>4, <2>10
  <2>21. pc' \in Places \ {"idle"} /\ pc' \notin Fresh \cup Begun \cup Closing
    BY <1>7 DEF Places, Fresh, Prepared, Begun, Closing
  <2> QED
    BY <1>3, <1>4, <2>4, <2>9, <2>13, <2>19, <2>20, <2>21, IntoPlace
<1> QED
  BY <1>6, <1>7 DEF Prepare

------------------------------------------------------------------------------
(* Decisions, actions and the start of a revision *)

\* A sync takes the decisions once its snapshot is taken.
LEMMA SyncOverridesStep ==
  ASSUME ReviewInv, SyncOverrides
  PROVE  ReviewInv'
<1>1. pc = "sync_overrides" /\ pc # "idle" /\ pc \in Prepared
  BY DEF SyncOverrides, Overrides, Prepared
<1>2. /\ live = saved.db /\ Grown(txn, owned, saved.db) /\ FiguresAgree(txn)
      /\ PointersIn(txn, disk) /\ NewestIn(txn, disk)
      /\ Finished(txn, disk) /\ Copied(txn.out, disk) /\ txn.revs[owned].phase = "prepared"
      /\ Guarded(txn, owned, Snapshot(task, saved, kept), disk) /\ task.kind = "sync"
      /\ txn.changes = saved.db.changes /\ txn.tasks = saved.db.tasks
  BY <1>1 DEF ReviewInv, PreparedAt, Consistent
<1>3. /\ UNCHANGED workerVars
      /\ live' = live /\ disk' = disk /\ bytes' = bytes /\ made' = made /\ owned' = owned
      /\ doomed' = doomed /\ crashes' = crashes
  BY DEF SyncOverrides, Overrides, fileVars
<1>4. PointersIn(live', disk')
  BY <1>1, <1>3, Running
<1>5. CASE Decidable(txn, kept) /\ txn' = Decide(txn, kept) /\ pc' = "sync_run"
  <2>1. /\ txn \in Database /\ saved.db \in Database
        /\ kept \in [changes : SUBSET Nat, tasks : SUBSET Issue] /\ Fits(kept, task, saved.db)
    BY <1>1, Running
  <2>2. /\ txn' \in Database /\ txn'.out = txn.out /\ txn'.status = txn.status
        /\ txn'.steps = txn.steps /\ txn'.revs = txn.revs
    BY <1>5, <2>1, DecideIs
  <2>3. FiguresAgree(txn')
    BY <1>2, <1>5, <2>1, DecideAgrees
  <2>4. Recorded(txn', kept, saved.db) /\ Answered(txn', kept, saved.db)
    <3>1. kept.changes \subseteq DOMAIN txn.changes /\ \A i \in kept.tasks : txn.tasks[i] # "none"
      BY <1>2, <2>1 DEF Fits
    <3> QED
      BY <1>2, <1>5, <2>1, <3>1, DecideRecords
  <2>5. Finished(txn', disk)
    BY <1>2, <2>2, <2>3 DEF Finished
  <2>6. Consistent(txn', owned, saved.db, disk)
    <3>1. OnDisk(txn'.out, disk)
      BY <1>2, <2>2 DEF PointersIn
    <3> QED
      BY <1>2, <2>2, <2>3, <3>1, SameJournal DEF Consistent
  <2>7. Guarded(txn', owned, Snapshot(task, saved, kept), disk)
    BY <1>2, <2>2 DEF Guarded
  <2>8. PreparedAt'
    BY <1>2, <1>3, <1>5, <2>2, <2>4, <2>5, <2>6, <2>7 DEF PreparedAt, workerVars
  <2>9. pc' \in Places \ {"idle"} /\ pc' \notin Fresh \cup Begun \cup Closing
    BY <1>5 DEF Places, Fresh, Prepared, Begun, Closing
  <2> QED
    BY <1>1, <1>3, <1>4, <2>2, <2>8, <2>9, Running, IntoPlace
<1>6. CASE txn' = txn /\ pc' = "error"
  <2>1. pc' \in Places \ {"idle"} /\ pc' \notin Fresh \cup Prepared \cup Begun \cup Closing
    BY <1>6 DEF Places, Fresh, Prepared, Begun, Closing
  <2> QED
    BY <1>1, <1>3, <1>4, <1>6, <2>1, Running, IntoPlace
<1> QED
  BY <1>5, <1>6 DEF SyncOverrides, Overrides

\* The action of a review, or its refusal.
LEMMA ActStep ==
  ASSUME ReviewInv, Act
  PROVE  ReviewInv'
<1>1. pc = "act" /\ pc # "idle" /\ pc \in Prepared
  BY DEF Act, Prepared
<1>2. /\ live = saved.db /\ Grown(txn, owned, saved.db) /\ FiguresAgree(txn)
      /\ PointersIn(txn, disk) /\ NewestIn(txn, disk)
      /\ Finished(txn, disk) /\ Copied(txn.out, disk) /\ txn.revs[owned].phase = "prepared"
      /\ Guarded(txn, owned, Snapshot(task, saved, kept), disk) /\ task.kind = "review"
      /\ Recorded(txn, kept, saved.db) /\ Answered(txn, kept, saved.db)
      /\ txn.changes = Found(task, saved, kept).changes
  BY <1>1 DEF ReviewInv, PreparedAt, Consistent
<1>3. /\ UNCHANGED workerVars
      /\ live' = live /\ disk' = disk /\ bytes' = bytes /\ made' = made /\ owned' = owned
      /\ doomed' = doomed /\ crashes' = crashes
  BY DEF Act, fileVars
<1>4. PointersIn(live', disk')
  BY <1>1, <1>3, Running
<1>5. CASE txn' \in Acted(txn) /\ pc' = "start"
  <2>1. /\ txn \in Database /\ saved.db \in Database /\ ArchiveOK(saved) /\ task \in Command
        /\ kept \in [changes : SUBSET Nat, tasks : SUBSET Issue] /\ Fits(kept, task, saved.db)
    BY <1>1, Running
  <2>2. task.change \in DOMAIN txn.changes
    <3>1. DOMAIN Found(task, saved, kept).changes = DOMAIN saved.db.changes
      BY <2>1, FoundIs
    <3> QED
      BY <1>2, <2>1, <3>1 DEF Fits
  <2>3. /\ txn' \in Database /\ FiguresAgree(txn')
        /\ txn'.status = txn.status /\ txn'.out = txn.out /\ txn'.tasks = txn.tasks
        /\ txn'.steps = txn.steps /\ txn'.revs = txn.revs
        /\ \A i \in DOMAIN txn.changes : /\ i \in DOMAIN txn'.changes
                                         /\ txn'.changes[i].status \in {txn.changes[i].status, "undone"}
    BY <1>2, <1>5, <2>1, <2>2, ActedIs
  <2>4. Recorded(txn', kept, saved.db) /\ Answered(txn', kept, saved.db)
    BY <1>2, <2>3 DEF Recorded, Answered
  <2>5. Finished(txn', disk)
    BY <1>2, <2>3 DEF Finished
  <2>6. Consistent(txn', owned, saved.db, disk)
    <3>1. OnDisk(txn'.out, disk)
      BY <1>2, <2>3 DEF PointersIn
    <3> QED
      BY <1>2, <2>3, <3>1, SameJournal DEF Consistent
  <2>7. Guarded(txn', owned, Snapshot(task, saved, kept), disk)
    BY <1>2, <2>3 DEF Guarded
  <2>8. PreparedAt'
    BY <1>2, <1>3, <1>5, <2>3, <2>4, <2>5, <2>6, <2>7 DEF PreparedAt, workerVars
  <2>9. pc' \in Places \ {"idle"} /\ pc' \notin Fresh \cup Begun \cup Closing
    BY <1>5 DEF Places, Fresh, Prepared, Begun, Closing
  <2> QED
    BY <1>1, <1>3, <1>4, <2>3, <2>8, <2>9, Running, IntoPlace
<1>6. CASE txn' = txn /\ pc' = "refused"
  <2>1. pc' \in Places \ {"idle"} /\ pc' \notin Fresh \cup Prepared \cup Begun \cup Closing
    BY <1>6 DEF Places, Fresh, Prepared, Begun, Closing
  <2> QED
    BY <1>1, <1>3, <1>4, <1>6, <2>1, Running, IntoPlace
<1> QED
  BY <1>5, <1>6 DEF Act

\* A database with another row in place of row n of its journal.
LEMMA RowWith ==
  ASSUME NEW db \in Database, NEW n \in DOMAIN db.revs, NEW r \in RevisionRow
  PROVE  LET e == [db EXCEPT !.revs = [db.revs EXCEPT ![n] = r]]
         IN /\ e \in Database /\ e.revs = [db.revs EXCEPT ![n] = r] /\ e.revs[n] = r
            /\ DOMAIN e.revs = DOMAIN db.revs /\ Len(e.revs) = Len(db.revs)
            /\ e.status = db.status /\ e.out = db.out /\ e.entry = db.entry
            /\ e.changes = db.changes /\ e.tasks = db.tasks /\ e.steps = db.steps
<1> DEFINE revs == [db.revs EXCEPT ![n] = r]
           e == [db EXCEPT !.revs = revs]
<1>1. db.revs \in Seq(RevisionRow)
  BY DEF Database
<1>2. /\ revs \in Seq(RevisionRow) /\ revs[n] = r
      /\ DOMAIN revs = DOMAIN db.revs /\ Len(revs) = Len(db.revs)
  BY <1>1, RevsWith
<1> HIDE DEF revs
<1>3. /\ e \in Database /\ e.revs = revs
      /\ e.status = db.status /\ e.out = db.out /\ e.entry = db.entry
      /\ e.changes = db.changes /\ e.tasks = db.tasks /\ e.steps = db.steps
  BY <1>2 DEF Database
<1> HIDE DEF e
<1> QED
  BY <1>2, <1>3 DEF revs, e

\* What a transition of row n leaves.
LEMMA PhaseIs ==
  ASSUME NEW db \in Database, NEW n \in DOMAIN db.revs,
         NEW phase \in {"prepared", "running"} \cup Ended, NEW e, e = Phase(db, n, phase)
  PROVE  /\ e \in Database /\ e.revs = [db.revs EXCEPT ![n] = e.revs[n]]
         /\ DOMAIN e.revs = DOMAIN db.revs /\ Len(e.revs) = Len(db.revs)
         /\ db.revs[n] \in RevisionRow
         /\ e.revs[n] \in RevisionRow
         /\ e.revs[n].phase = phase /\ e.revs[n].before = db.revs[n].before
         /\ e.revs[n].edits = db.revs[n].edits /\ e.revs[n].published = db.revs[n].published
         /\ e.status = db.status /\ e.out = db.out /\ e.entry = db.entry
         /\ e.changes = db.changes /\ e.tasks = db.tasks /\ e.steps = db.steps
<1> DEFINE old == db.revs[n]
           r == [old EXCEPT !.phase = phase]
<1>1. old \in RevisionRow
  BY DEF Database
<1>2. /\ r \in RevisionRow /\ r.phase = phase /\ r.before = old.before /\ r.edits = old.edits
      /\ r.published = old.published
  <2> HIDE DEF old
  <2> QED
    BY <1>1 DEF RevisionRow
<1>3. e = [db EXCEPT !.revs = [db.revs EXCEPT ![n] = r]]
  BY DEF Phase
<1> HIDE DEF r
<1>4. /\ e \in Database /\ e.revs = [db.revs EXCEPT ![n] = r] /\ e.revs[n] = r
      /\ DOMAIN e.revs = DOMAIN db.revs /\ Len(e.revs) = Len(db.revs)
      /\ e.status = db.status /\ e.out = db.out /\ e.entry = db.entry
      /\ e.changes = db.changes /\ e.tasks = db.tasks /\ e.steps = db.steps
  BY <1>2, <1>3, RowWith
<1> QED
  BY <1>1, <1>2, <1>4 DEF r

\* start_review and the sync branch: the row runs, and keeps the PDF its edits are about.
LEMMA BegunRow ==
  ASSUME NEW db \in Database, NEW n \in DOMAIN db.revs
  PROVE  LET e == [Phase(db, n, "running") EXCEPT !.revs[n].edits = db.out]
         IN /\ e \in Database /\ e.revs = [db.revs EXCEPT ![n] = e.revs[n]]
            /\ e.revs[n] \in RevisionRow
            /\ e.revs[n].phase = "running" /\ e.revs[n].before = db.revs[n].before
            /\ e.revs[n].edits = db.out /\ e.revs[n].published = db.revs[n].published
            /\ e.status = db.status /\ e.out = db.out /\ e.entry = db.entry
            /\ e.changes = db.changes /\ e.tasks = db.tasks /\ e.steps = db.steps
<1> DEFINE a == Phase(db, n, "running")
           r == [a.revs[n] EXCEPT !.edits = db.out]
           e == [a EXCEPT !.revs[n].edits = db.out]
<1>1. a = Phase(db, n, "running") /\ "running" \in {"prepared", "running"} \cup Ended
  BY DEF Ended
<1>2. e = [a EXCEPT !.revs = [a.revs EXCEPT ![n] = r]]
  OBVIOUS
<1> HIDE DEF a
<1>3. /\ a \in Database /\ a.revs = [db.revs EXCEPT ![n] = a.revs[n]]
      /\ DOMAIN a.revs = DOMAIN db.revs
      /\ a.revs[n] \in RevisionRow /\ a.revs[n].phase = "running"
      /\ a.revs[n].before = db.revs[n].before /\ a.revs[n].published = db.revs[n].published
      /\ a.status = db.status /\ a.out = db.out /\ a.entry = db.entry
      /\ a.changes = db.changes /\ a.tasks = db.tasks /\ a.steps = db.steps
  BY <1>1, PhaseIs
<1>4. db.out \in Pointer
  BY DEF Database
<1>5. /\ r \in RevisionRow /\ r.phase = "running" /\ r.before = db.revs[n].before
      /\ r.edits = db.out /\ r.published = db.revs[n].published
  BY <1>3, <1>4 DEF RevisionRow
<1> HIDE DEF r, e
<1>6. /\ e \in Database /\ e.revs = [a.revs EXCEPT ![n] = r] /\ e.revs[n] = r
      /\ e.status = a.status /\ e.out = a.out /\ e.entry = a.entry
      /\ e.changes = a.changes /\ e.tasks = a.tasks /\ e.steps = a.steps
  BY <1>3, <1>2, <1>5, RowWith
<1>7. e.revs = [db.revs EXCEPT ![n] = r]
  BY <1>3, <1>6
<1> QED
  BY <1>3, <1>5, <1>6, <1>7 DEF e, a

\* finish_review publishes the row with the document's PDF.
LEMMA PublishedRow ==
  ASSUME NEW db \in Database, NEW n \in DOMAIN db.revs
  PROVE  LET e == [Phase(db, n, "published") EXCEPT !.revs[n].published = db.out]
         IN /\ e \in Database /\ e.revs = [db.revs EXCEPT ![n] = e.revs[n]]
            /\ e.revs[n] \in RevisionRow
            /\ e.revs[n].phase = "published" /\ e.revs[n].before = db.revs[n].before
            /\ e.revs[n].edits = db.revs[n].edits /\ e.revs[n].published = db.out
            /\ e.status = db.status /\ e.out = db.out /\ e.entry = db.entry
            /\ e.changes = db.changes /\ e.tasks = db.tasks /\ e.steps = db.steps
<1> DEFINE a == Phase(db, n, "published")
           r == [a.revs[n] EXCEPT !.published = db.out]
           e == [a EXCEPT !.revs[n].published = db.out]
<1>1. a = Phase(db, n, "published") /\ "published" \in {"prepared", "running"} \cup Ended
  BY DEF Ended
<1>2. e = [a EXCEPT !.revs = [a.revs EXCEPT ![n] = r]]
  OBVIOUS
<1> HIDE DEF a
<1>3. /\ a \in Database /\ a.revs = [db.revs EXCEPT ![n] = a.revs[n]]
      /\ DOMAIN a.revs = DOMAIN db.revs
      /\ a.revs[n] \in RevisionRow /\ a.revs[n].phase = "published"
      /\ a.revs[n].before = db.revs[n].before /\ a.revs[n].edits = db.revs[n].edits
      /\ a.status = db.status /\ a.out = db.out /\ a.entry = db.entry
      /\ a.changes = db.changes /\ a.tasks = db.tasks /\ a.steps = db.steps
  BY <1>1, PhaseIs
<1>4. db.out \in Pointer
  BY DEF Database
<1>5. /\ r \in RevisionRow /\ r.phase = "published" /\ r.before = db.revs[n].before
      /\ r.edits = db.revs[n].edits /\ r.published = db.out
  BY <1>3, <1>4 DEF RevisionRow
<1> HIDE DEF r, e
<1>6. /\ e \in Database /\ e.revs = [a.revs EXCEPT ![n] = r] /\ e.revs[n] = r
      /\ e.status = a.status /\ e.out = a.out /\ e.entry = a.entry
      /\ e.changes = a.changes /\ e.tasks = a.tasks /\ e.steps = a.steps
  BY <1>3, <1>2, <1>5, RowWith
<1>7. e.revs = [db.revs EXCEPT ![n] = r]
  BY <1>3, <1>6
<1> QED
  BY <1>3, <1>5, <1>6, <1>7 DEF e, a

\* The row an attempt owns is the last one.
LEMMA OwnedIs ==
  ASSUME NEW b \in Database, NEW old \in Database, NEW n, Grown(b, n, old)
  PROVE  n \in DOMAIN b.revs /\ n = Len(b.revs) /\ b.revs[n] \in RevisionRow
<1>1. b.revs \in Seq(RevisionRow) /\ Len(old.revs) \in Nat
  BY DEF Database
<1> QED
  BY <1>1 DEF Grown

\* What is known of an attempt whose revision is prepared.
LEMMA PreparedIs ==
  ASSUME ReviewInv, pc \in Prepared
  PROVE  /\ txn \in Database /\ saved.db \in Database
         /\ live = saved.db /\ Grown(txn, owned, saved.db) /\ FiguresAgree(txn)
         /\ PointersIn(txn, disk) /\ NewestIn(txn, disk)
         /\ Finished(txn, disk) /\ Copied(txn.out, disk) /\ txn.revs[owned].phase = "prepared"
         /\ Guarded(txn, owned, Snapshot(task, saved, kept), disk)
         /\ owned \in DOMAIN txn.revs /\ owned = Len(txn.revs) /\ txn.revs[owned] \in RevisionRow
<1>1. /\ live = saved.db /\ Grown(txn, owned, saved.db) /\ FiguresAgree(txn)
      /\ PointersIn(txn, disk) /\ NewestIn(txn, disk)
      /\ Finished(txn, disk) /\ Copied(txn.out, disk) /\ txn.revs[owned].phase = "prepared"
      /\ Guarded(txn, owned, Snapshot(task, saved, kept), disk)
  BY DEF ReviewInv, PreparedAt, Consistent
<1>2. txn \in Database /\ saved.db \in Database
  <2>1. pc # "idle"
    BY DEF Prepared
  <2> QED
    BY <2>1, Running
<1> QED
  BY <1>1, <1>2, OwnedIs

\* The revision runs: the row of the document is cleared.
LEMMA StartStep ==
  ASSUME ReviewInv, Start
  PROVE  ReviewInv'
<1>1. pc = "start" /\ pc # "idle" /\ pc \in Prepared
  BY DEF Start, Prepared
<1>2. /\ txn \in Database /\ saved.db \in Database /\ Grown(txn, owned, saved.db)
      /\ FiguresAgree(txn) /\ PointersIn(txn, disk) /\ NewestIn(txn, disk)
      /\ Copied(txn.out, disk) /\ txn.revs[owned].phase = "prepared"
      /\ Guarded(txn, owned, Snapshot(task, saved, kept), disk)
      /\ owned \in DOMAIN txn.revs /\ owned = Len(txn.revs)
  BY <1>1, PreparedIs
<1>3. task.kind = "review" /\ Recorded(txn, kept, saved.db) /\ Answered(txn, kept, saved.db)
  BY <1>1 DEF ReviewInv, PreparedAt
<1>4. /\ UNCHANGED workerVars
      /\ live' = txn' /\ disk' = disk /\ bytes' = bytes /\ made' = made /\ owned' = owned
      /\ doomed' = doomed /\ crashes' = crashes /\ pc' = "tag"
  BY DEF Start, fileVars
<1> DEFINE e == [Phase(txn, owned, "running") EXCEPT !.revs[owned].edits = txn.out]
<1>5. /\ e \in Database /\ e.revs = [txn.revs EXCEPT ![owned] = e.revs[owned]]
      /\ e.revs[owned] \in RevisionRow
      /\ e.revs[owned].phase = "running" /\ e.revs[owned].before = txn.revs[owned].before
      /\ e.revs[owned].edits = txn.out /\ e.revs[owned].published = txn.revs[owned].published
      /\ e.status = txn.status /\ e.out = txn.out /\ e.entry = txn.entry
      /\ e.changes = txn.changes /\ e.tasks = txn.tasks /\ e.steps = txn.steps
  BY <1>2, BegunRow
<1>6. txn' = [e EXCEPT !.status = "processing", !.out = NoFile, !.steps = "pending"]
  BY DEF Start
<1> HIDE DEF e
<1>7. /\ txn' \in Database /\ txn'.revs = e.revs /\ txn'.out = NoFile
      /\ txn'.entry = txn.entry /\ txn'.changes = txn.changes /\ txn'.tasks = txn.tasks
  BY <1>5, <1>6, CopyIs DEF Database, Status, StepsState
<1>8. /\ FiguresAgree(txn') /\ Recorded(txn', kept, saved.db)
      /\ Answered(txn', kept, saved.db)
  BY <1>2, <1>3, <1>7, SameFigures, SameRecord
<1>9. Consistent(txn', owned, saved.db, disk)
  <2>1. /\ OnDisk(txn'.out, disk) /\ OnDisk(txn'.revs[owned].before.out, disk)
        /\ OnDisk(txn'.revs[owned].edits, disk) /\ OnDisk(txn'.revs[owned].published, disk)
    BY <1>2, <1>5, <1>7, CopyStays DEF PointersIn
  <2>2. /\ txn'.revs = [txn.revs EXCEPT ![owned] = txn'.revs[owned]]
        /\ txn'.revs[owned] \in RevisionRow
        /\ txn'.revs[owned].phase # "published" /\ txn.revs[owned].phase # "published"
    BY <1>2, <1>5, <1>7
  <2>3. PointersIn(txn', disk) /\ NewestIn(txn', disk) /\ Grown(txn', owned, saved.db)
    BY <1>2, <1>7, <2>1, <2>2, LastRowKeeps
  <2> QED
    BY <1>8, <2>3 DEF Consistent
<1>10. Guarded(txn', owned, Snapshot(task, saved, kept), disk)
  BY <1>2, <1>5, <1>7 DEF Guarded
<1>11. BegunAt'
  BY <1>3, <1>4, <1>5, <1>7, <1>8, <1>9, <1>10 DEF BegunAt, workerVars
<1>12. pc' \in Places \ {"idle"} /\ pc' \notin Fresh \cup Prepared \cup Closing
  BY <1>4 DEF Places, Fresh, Prepared, Begun, Closing
<1>13. PointersIn(live', disk')
  BY <1>4, <1>9 DEF Consistent
<1> QED
  BY <1>1, <1>4, <1>7, <1>11, <1>12, <1>13, Running, IntoPlace

\* A sync runs: nothing is tagged again.
LEMMA SyncRunStep ==
  ASSUME ReviewInv, SyncRun
  PROVE  ReviewInv'
<1>1. pc = "sync_run" /\ pc # "idle" /\ pc \in Prepared
  BY DEF SyncRun, Prepared
<1>2. /\ txn \in Database /\ saved.db \in Database /\ Grown(txn, owned, saved.db)
      /\ FiguresAgree(txn) /\ PointersIn(txn, disk) /\ NewestIn(txn, disk)
      /\ Finished(txn, disk) /\ Copied(txn.out, disk) /\ txn.revs[owned].phase = "prepared"
      /\ owned \in DOMAIN txn.revs /\ owned = Len(txn.revs)
  BY <1>1, PreparedIs
<1>3. task.kind = "sync" /\ Recorded(txn, kept, saved.db)
  BY <1>1 DEF ReviewInv, PreparedAt
<1>4. /\ UNCHANGED workerVars
      /\ live' = txn' /\ disk' = disk /\ bytes' = bytes /\ made' = made /\ owned' = owned
      /\ doomed' = doomed /\ crashes' = crashes /\ pc' = "finish"
      /\ txn' = [Phase(txn, owned, "running") EXCEPT !.revs[owned].edits = txn.out]
  BY DEF SyncRun, fileVars
<1>5. /\ txn' \in Database /\ txn'.revs = [txn.revs EXCEPT ![owned] = txn'.revs[owned]]
      /\ txn'.revs[owned] \in RevisionRow
      /\ txn'.revs[owned].phase = "running" /\ txn'.revs[owned].before = txn.revs[owned].before
      /\ txn'.revs[owned].edits = txn.out
      /\ txn'.revs[owned].published = txn.revs[owned].published
      /\ txn'.status = txn.status /\ txn'.out = txn.out /\ txn'.entry = txn.entry
      /\ txn'.changes = txn.changes /\ txn'.tasks = txn.tasks /\ txn'.steps = txn.steps
  <2> DEFINE e == [Phase(txn, owned, "running") EXCEPT !.revs[owned].edits = txn.out]
  <2>1. txn \in Database /\ owned \in DOMAIN txn.revs
    BY <1>2
  <2>2. /\ e \in Database /\ e.revs = [txn.revs EXCEPT ![owned] = e.revs[owned]]
        /\ e.revs[owned] \in RevisionRow
        /\ e.revs[owned].phase = "running" /\ e.revs[owned].before = txn.revs[owned].before
        /\ e.revs[owned].edits = txn.out
        /\ e.revs[owned].published = txn.revs[owned].published
        /\ e.status = txn.status /\ e.out = txn.out /\ e.entry = txn.entry
        /\ e.changes = txn.changes /\ e.tasks = txn.tasks /\ e.steps = txn.steps
    BY <2>1, BegunRow
  <2>3. txn' = e
    BY <1>4
  <2> HIDE DEF e
  <2> QED
    BY <2>2, <2>3
<1>6. FiguresAgree(txn') /\ Recorded(txn', kept, saved.db)
  BY <1>2, <1>3, <1>5, SameFigures, SameRecord
<1>7. Consistent(txn', owned, saved.db, disk)
  <2>1. /\ OnDisk(txn'.out, disk) /\ OnDisk(txn'.revs[owned].before.out, disk)
        /\ OnDisk(txn'.revs[owned].edits, disk) /\ OnDisk(txn'.revs[owned].published, disk)
    BY <1>2, <1>5, CopyStays DEF PointersIn
  <2>2. txn'.revs[owned].phase # "published" /\ txn.revs[owned].phase # "published"
    BY <1>2, <1>5
  <2>3. PointersIn(txn', disk) /\ NewestIn(txn', disk) /\ Grown(txn', owned, saved.db)
    BY <1>2, <1>5, <2>1, <2>2, LastRowKeeps
  <2> QED
    BY <1>6, <2>3 DEF Consistent
<1>8. Finished(txn', disk) /\ Copied(txn'.out, disk)
  BY <1>2, <1>5, <1>6 DEF Finished
<1>9. BegunAt'
  BY <1>3, <1>4, <1>5, <1>6, <1>7, <1>8 DEF BegunAt, workerVars
<1>10. pc' \in Places \ {"idle"} /\ pc' \notin Fresh \cup Prepared \cup Closing
  BY <1>4 DEF Places, Fresh, Prepared, Begun, Closing
<1>11. PointersIn(live', disk')
  BY <1>4, <1>7 DEF Consistent
<1> QED
  BY <1>1, <1>4, <1>5, <1>9, <1>10, <1>11, Running, IntoPlace

------------------------------------------------------------------------------
(* Tagging, publication and compensation *)

\* What is known of an attempt whose revision runs, or ran.
LEMMA BegunIs ==
  ASSUME ReviewInv, pc \in Begun
  PROVE  /\ txn \in Database /\ saved.db \in Database /\ live = txn
         /\ Grown(txn, owned, saved.db) /\ FiguresAgree(txn)
         /\ PointersIn(txn, disk) /\ NewestIn(txn, disk) /\ Recorded(txn, kept, saved.db)
         /\ owned \in DOMAIN txn.revs /\ owned = Len(txn.revs) /\ txn.revs[owned] \in RevisionRow
<1>1. /\ live = txn /\ Grown(txn, owned, saved.db) /\ FiguresAgree(txn)
      /\ PointersIn(txn, disk) /\ NewestIn(txn, disk) /\ Recorded(txn, kept, saved.db)
  BY DEF ReviewInv, BegunAt, Consistent
<1>2. txn \in Database /\ saved.db \in Database
  <2>1. pc # "idle"
    BY DEF Begun
  <2> QED
    BY <2>1, Running
<1> QED
  BY <1>1, <1>2, OwnedIs

\* An issue that is still reported keeps its acknowledgement.
LEMMA ReconciledIs ==
  ASSUME NEW tasks \in [Issue -> {"pending_review", "resolved", "none"}], NEW found
  PROVE  /\ Reconciled(tasks, found) \in [Issue -> {"pending_review", "resolved", "none"}]
         /\ \A i \in Issue : tasks[i] = "resolved" => Reconciled(tasks, found)[i] # "pending_review"
BY DEF Reconciled

\* What tagging leaves: a ready document with its copy, or a failed one.
LEMMA TagLeaves ==
  ASSUME ReviewInv, pc = "tag", UNCHANGED <<workerVars, owned, doomed, crashes>>,
         made' = made + 1, bytes' = made', disk' \in {disk, disk \cup {made'}},
         pc' = "finish", live' = txn',
         NEW status \in Status, NEW out \in Pointer, NEW steps \in StepsState, NEW tasks,
         txn' = [txn EXCEPT !.status = status, !.out = out, !.steps = steps, !.tasks = tasks],
         tasks = txn.tasks \/ \E found : tasks = Reconciled(txn.tasks, found),
         OnDisk(out, disk'), status \in Ready => steps = "done" /\ Copied(out, disk')
  PROVE  ReviewInv'
<1>1. pc \in Begun /\ pc # "idle"
  BY DEF Begun
<1>2. /\ txn \in Database /\ saved.db \in Database
      /\ Grown(txn, owned, saved.db) /\ FiguresAgree(txn)
      /\ PointersIn(txn, disk) /\ NewestIn(txn, disk) /\ Recorded(txn, kept, saved.db)
      /\ owned \in DOMAIN txn.revs
  BY <1>1, BegunIs
<1>3. /\ task.kind = "review" /\ Answered(txn, kept, saved.db) /\ txn.revs[owned].phase = "running"
      /\ Guarded(txn, owned, Snapshot(task, saved, kept), disk)
  BY DEF ReviewInv, BegunAt, Begun
<1>4. kept \in [changes : SUBSET Nat, tasks : SUBSET Issue] /\ disk \subseteq Nat /\ made \in Nat
  BY <1>1, Running
<1>5. /\ tasks \in [Issue -> {"pending_review", "resolved", "none"}]
      /\ \A i \in Issue : txn.tasks[i] = "resolved" => tasks[i] # "pending_review"
  <2>1. txn.tasks \in [Issue -> {"pending_review", "resolved", "none"}]
    BY <1>2 DEF Database
  <2> QED
    BY <2>1, ReconciledIs
<1>6. /\ txn' \in Database /\ txn'.status = status /\ txn'.out = out /\ txn'.steps = steps
      /\ txn'.tasks = tasks /\ txn'.entry = txn.entry /\ txn'.changes = txn.changes
      /\ txn'.revs = txn.revs
  BY <1>2, <1>5 DEF Database
<1>7. FiguresAgree(txn')
  BY <1>2, <1>6, SameFigures
<1>8. Recorded(txn', kept, saved.db)
  BY <1>2, <1>3, <1>4, <1>5, <1>6 DEF Recorded, Answered
<1>9. disk \subseteq disk' /\ disk' \subseteq Nat /\ bytes' \in Nat \ {0} /\ made' \in Nat
  BY <1>4
<1>10. Consistent(txn', owned, saved.db, disk')
  <2>1. PointersIn(txn, disk') /\ NewestIn(txn, disk')
    BY <1>2, <1>9, MoreCopies
  <2>2. PointersIn(txn', disk') /\ NewestIn(txn', disk') /\ Grown(txn', owned, saved.db)
    <3>1. OnDisk(txn'.out, disk') /\ txn'.revs = txn.revs
      BY <1>6
    <3> QED
      BY <1>2, <2>1, <3>1, SameJournal
  <2> QED
    BY <1>7, <2>2 DEF Consistent
<1>11. Guarded(txn', owned, Snapshot(task, saved, kept), disk')
  BY <1>3, <1>6, <1>9, MoreCopies DEF Guarded
<1>12. status \in Ready => Finished(txn', disk') /\ Copied(txn'.out, disk')
  BY <1>6, <1>7 DEF Finished
<1>13. BegunAt'
  BY <1>3, <1>6, <1>8, <1>10, <1>11, <1>12 DEF BegunAt, workerVars
<1>14. pc' \in Places \ {"idle"} /\ pc' \notin Fresh \cup Prepared \cup Closing
  BY DEF Places, Fresh, Prepared, Begun, Closing
<1>15. PointersIn(live', disk')
  BY <1>10 DEF Consistent
<1> QED
  BY <1>1, <1>6, <1>9, <1>13, <1>14, <1>15, Running, IntoPlace

\* run_tagging_and_validation succeeds or fails.
LEMMA TagStep ==
  ASSUME ReviewInv, TagReady \/ TagFails
  PROVE  ReviewInv'
<1>1. /\ pc = "tag" /\ UNCHANGED <<workerVars, owned, doomed, crashes>>
      /\ made' = made + 1 /\ bytes' = made' /\ disk' \in {disk, disk \cup {made'}}
      /\ pc' = "finish" /\ live' = txn'
  BY DEF TagReady, TagFails
<1>2. /\ txn \in Database /\ PointersIn(txn, disk)
  <2>1. pc \in Begun
    BY <1>1 DEF Begun
  <2> QED
    BY <2>1, BegunIs
<1>3. made \in Nat /\ txn.out \in Pointer
  BY <1>2 DEF ReviewInv, ReviewTypeOK, Database
<1>4. CASE TagReady
  <2>1. PICK status \in Ready, found \in SUBSET Issue :
          live' = [txn EXCEPT !.status = status, !.out = Copy(made'), !.steps = "done",
                              !.tasks = Reconciled(@, found)]
    BY <1>4 DEF TagReady
  <2>2. disk' = disk \cup {made'} /\ Copied(Copy(made'), disk')
    BY <1>4 DEF TagReady, Copied
  <2>3. Copy(made') \in Pointer /\ status \in Status /\ "done" \in StepsState
    BY <1>1, <1>3, CopyIs DEF Status, StepsState
  <2>4. OnDisk(Copy(made'), disk')
    BY <2>2, CopyStays
  <2>5. txn' = [txn EXCEPT !.status = status, !.out = Copy(made'), !.steps = "done",
                           !.tasks = Reconciled(txn.tasks, found)]
    BY <1>1, <2>1
  <2> QED
    BY <1>1, <2>2, <2>3, <2>4, <2>5, TagLeaves
<1>5. CASE TagFails
  <2>1. /\ "failed" \in Status /\ "failed" \in StepsState /\ "failed" \notin Ready
    BY DEF Status, StepsState, Ready
  <2>2. OnDisk(txn.out, disk')
    <3>1. OnDisk(txn.out, disk) /\ disk \subseteq disk'
      BY <1>1, <1>2 DEF PointersIn
    <3> QED
      BY <3>1, MoreCopies
  <2>3. CASE live' = [txn EXCEPT !.status = "failed", !.steps = "failed"]
    <3>1. txn' = [txn EXCEPT !.status = "failed", !.out = txn.out, !.steps = "failed",
                             !.tasks = txn.tasks]
      BY <1>1, <1>2, <2>3 DEF Database
    <3> QED
      BY <1>1, <1>3, <2>1, <2>2, <3>1, TagLeaves
  <2>4. CASE \E found \in SUBSET Issue :
               live' = [txn EXCEPT !.status = "failed", !.steps = "failed",
                                   !.tasks = Reconciled(@, found)]
    <3>1. PICK found \in SUBSET Issue :
            live' = [txn EXCEPT !.status = "failed", !.steps = "failed",
                                !.tasks = Reconciled(@, found)]
      BY <2>4
    <3>2. txn' = [txn EXCEPT !.status = "failed", !.out = txn.out, !.steps = "failed",
                             !.tasks = Reconciled(txn.tasks, found)]
      BY <1>1, <1>2, <3>1 DEF Database
    <3> QED
      BY <1>1, <1>3, <2>1, <2>2, <3>2, TagLeaves
  <2> QED
    BY <1>5, <2>3, <2>4 DEF TagFails
<1> QED
  BY <1>4, <1>5

\* What is known before a revision is closed is known at the end, when it is published or
\* the document restored.
LEMMA IntoPrune ==
  ASSUME ReviewInv, pc # "idle", UNCHANGED <<workerVars, fileVars, owned, doomed, crashes>>,
         live' = txn', pc' = "prune", txn' \in Database,
         Consistent(txn', owned, saved.db, disk), Recorded(txn', kept, saved.db),
         Finished(txn', disk), Copied(txn'.out, disk), txn'.revs[owned].phase \in Ended,
         txn'.revs[owned].phase = "failed" =>
           task.kind = "review" /\ Body(txn') = Snapshot(task, saved, kept)
  PROVE  ReviewInv'
<1>1. ClosingAt'
  BY DEF ClosingAt, workerVars, fileVars
<1>2. pc' \in Places \ {"idle"} /\ pc' \notin Fresh \cup Prepared \cup Begun
  BY DEF Places, Fresh, Prepared, Begun, Closing
<1>3. PointersIn(live', disk')
  BY DEF Consistent, fileVars
<1> QED
  BY <1>1, <1>2, <1>3, Running, IntoPlace DEF fileVars

\* finish_review: the revision is published, or the attempt has failed.
LEMMA PublishStep ==
  ASSUME ReviewInv, Publish
  PROVE  ReviewInv'
<1>1. pc = "finish" /\ pc \in Begun /\ pc # "idle"
  BY DEF Publish, Begun
<1>2. /\ txn \in Database /\ saved.db \in Database /\ live = txn
      /\ Grown(txn, owned, saved.db) /\ FiguresAgree(txn)
      /\ PointersIn(txn, disk) /\ NewestIn(txn, disk) /\ Recorded(txn, kept, saved.db)
      /\ owned \in DOMAIN txn.revs /\ owned = Len(txn.revs)
  BY <1>1, BegunIs
<1>3. /\ txn.revs[owned].phase = "running"
      /\ txn.status \in Ready => Finished(txn, disk) /\ Copied(txn.out, disk)
      /\ task.kind = "review" => Guarded(txn, owned, Snapshot(task, saved, kept), disk)
  BY <1>1 DEF ReviewInv, BegunAt
<1>4. UNCHANGED <<workerVars, fileVars, owned, doomed, crashes>>
  BY DEF Publish
<1>5. CASE /\ txn.status \in Ready
           /\ live' = [Phase(txn, owned, "published") EXCEPT !.revs[owned].published = txn.out]
           /\ txn' = live' /\ pc' = "prune"
  <2> DEFINE e == [Phase(txn, owned, "published") EXCEPT !.revs[owned].published = txn.out]
  <2>1. txn \in Database /\ owned \in DOMAIN txn.revs
    BY <1>2
  <2>2. /\ e \in Database /\ e.revs = [txn.revs EXCEPT ![owned] = e.revs[owned]]
        /\ e.revs[owned] \in RevisionRow
        /\ e.revs[owned].phase = "published" /\ e.revs[owned].before = txn.revs[owned].before
        /\ e.revs[owned].edits = txn.revs[owned].edits /\ e.revs[owned].published = txn.out
        /\ e.status = txn.status /\ e.out = txn.out /\ e.entry = txn.entry
        /\ e.changes = txn.changes /\ e.tasks = txn.tasks /\ e.steps = txn.steps
    BY <2>1, PublishedRow
  <2>3. txn' = e /\ live' = txn'
    BY <1>5
  <2> HIDE DEF e
  <2>4. Finished(txn, disk) /\ Copied(txn.out, disk)
    BY <1>3, <1>5
  <2>5. FiguresAgree(e) /\ Recorded(e, kept, saved.db)
    BY <1>2, <2>2, SameFigures, SameRecord
  <2>6. Consistent(e, owned, saved.db, disk)
    <3>1. /\ OnDisk(e.out, disk) /\ OnDisk(e.revs[owned].before.out, disk)
          /\ OnDisk(e.revs[owned].edits, disk) /\ OnDisk(e.revs[owned].published, disk)
          /\ Copied(e.revs[owned].published, disk)
      BY <1>2, <2>2, <2>4, CopyStays DEF PointersIn
    <3>2. txn.revs[owned].phase # "published"
      BY <1>3
    <3>3. PointersIn(e, disk) /\ NewestIn(e, disk) /\ Grown(e, owned, saved.db)
      BY <1>2, <2>2, <3>1, <3>2, LastRowKeeps
    <3> QED
      BY <2>5, <3>3 DEF Consistent
  <2>7. Finished(e, disk) /\ Copied(e.out, disk) /\ e.revs[owned].phase \in Ended
    BY <2>2, <2>4, <2>5 DEF Finished, Ended
  <2> QED
    BY <1>1, <1>4, <1>5, <2>2, <2>3, <2>5, <2>6, <2>7, IntoPrune
<1>6. CASE /\ UNCHANGED <<live, txn>> /\ task.kind = "review" /\ pc' = "compensate"
  <2>1. BegunAt'
    BY <1>1, <1>2, <1>3, <1>4, <1>6 DEF BegunAt, Consistent, workerVars, fileVars
  <2>2. pc' \in Places \ {"idle"} /\ pc' \notin Fresh \cup Prepared \cup Closing
    BY <1>6 DEF Places, Fresh, Prepared, Begun, Closing
  <2>3. PointersIn(live', disk')
    BY <1>2, <1>4, <1>6 DEF fileVars
  <2> QED
    BY <1>1, <1>4, <1>6, <2>1, <2>2, <2>3, Running, IntoPlace DEF fileVars
<1>7. CASE /\ UNCHANGED <<live, txn>> /\ pc' = "error"
  <2>1. pc' \in Places \ {"idle"} /\ pc' \notin Fresh \cup Prepared \cup Begun \cup Closing
    BY <1>7 DEF Places, Fresh, Prepared, Begun, Closing
  <2>2. PointersIn(live', disk')
    BY <1>2, <1>4, <1>7 DEF fileVars
  <2> QED
    BY <1>1, <1>4, <1>7, <2>1, <2>2, Running, IntoPlace DEF fileVars
<1> QED
  BY <1>5, <1>6, <1>7 DEF Publish

\* fail_review: the document is the snapshot's, and so the one the person had.
LEMMA CompensateStep ==
  ASSUME ReviewInv, Compensate
  PROVE  ReviewInv'
<1>1. pc = "compensate" /\ pc \in Begun /\ pc # "idle"
  BY DEF Compensate, Begun
<1>2. /\ txn \in Database /\ saved.db \in Database /\ live = txn
      /\ Grown(txn, owned, saved.db) /\ FiguresAgree(txn)
      /\ PointersIn(txn, disk) /\ NewestIn(txn, disk) /\ Recorded(txn, kept, saved.db)
      /\ owned \in DOMAIN txn.revs /\ owned = Len(txn.revs)
  BY <1>1, BegunIs
<1>3. /\ task.kind = "review"
      /\ txn.revs[owned].phase = "running" =>
           Guarded(txn, owned, Snapshot(task, saved, kept), disk)
  BY <1>1 DEF ReviewInv, BegunAt
<1>4. UNCHANGED <<workerVars, fileVars, owned, doomed, crashes>>
  BY DEF Compensate
<1> DEFINE b == live.revs[owned].before
<1>5. CASE /\ live.revs[owned].phase = "running"
           /\ live' = [Phase(live, owned, "failed") EXCEPT
                         !.status = b.status, !.out = b.out, !.entry = b.entry,
                         !.changes = b.changes, !.tasks = b.tasks, !.steps = b.steps]
           /\ txn' = live' /\ pc' = "prune"
  <2> DEFINE a == Phase(txn, owned, "failed")
             F == Found(task, saved, kept)
  <2>1. /\ task \in Command /\ ArchiveOK(saved) /\ Fits(kept, task, saved.db)
        /\ kept \in [changes : SUBSET Nat, tasks : SUBSET Issue] /\ saved.bytes \in Nat
    BY <1>1, Running
  <2>2. b = Snapshot(task, saved, kept) /\ Copied(b.out, disk)
    BY <1>2, <1>3, <1>5 DEF Guarded
  <2>3. /\ F.status = saved.db.status /\ F.steps = saved.db.steps
        /\ FiguresAgree(F) /\ Recorded(F, kept, saved.db)
    BY <1>2, <1>3, <2>1, FoundIs
  <2>4. /\ b \in BodyRow /\ b.status = F.status /\ b.entry = F.entry
        /\ b.changes = F.changes /\ b.tasks = F.tasks /\ b.steps = F.steps
    BY <1>2, <2>1, <2>2, SnapshotIs
  <2> HIDE DEF F
  <2>5. /\ a \in Database /\ a.revs = [txn.revs EXCEPT ![owned] = a.revs[owned]]
        /\ a.revs[owned] \in RevisionRow
        /\ a.revs[owned].phase = "failed" /\ a.revs[owned].before = txn.revs[owned].before
        /\ a.revs[owned].edits = txn.revs[owned].edits
        /\ a.revs[owned].published = txn.revs[owned].published
    <3>1. "failed" \in {"prepared", "running"} \cup Ended
      BY DEF Ended
    <3>2. a = Phase(txn, owned, "failed")
      OBVIOUS
    <3>3. txn \in Database /\ owned \in DOMAIN txn.revs
      BY <1>2
    <3> HIDE DEF a
    <3> QED
      BY <3>1, <3>2, <3>3, PhaseIs
  <2>6. txn' = [a EXCEPT !.status = b.status, !.out = b.out, !.entry = b.entry,
                         !.changes = b.changes, !.tasks = b.tasks, !.steps = b.steps]
        /\ live' = txn'
    BY <1>2, <1>5
  <2>7. b.out = live.revs[owned].before.out /\ b = txn.revs[owned].before
    BY <1>2
  <2> HIDE DEF a, b
  <2>8. /\ txn' \in Database /\ txn'.revs = a.revs /\ txn'.status = b.status /\ txn'.out = b.out
        /\ txn'.entry = b.entry /\ txn'.changes = b.changes /\ txn'.tasks = b.tasks
        /\ txn'.steps = b.steps
    BY <2>4, <2>5, <2>6 DEF Database, BodyRow
  <2>9. FiguresAgree(txn') /\ Recorded(txn', kept, saved.db)
    BY <2>3, <2>4, <2>8, SameFigures, SameRecord
  <2>10. Consistent(txn', owned, saved.db, disk)
    <3>1. /\ OnDisk(txn'.out, disk) /\ OnDisk(txn'.revs[owned].before.out, disk)
          /\ OnDisk(txn'.revs[owned].edits, disk) /\ OnDisk(txn'.revs[owned].published, disk)
      BY <1>2, <2>2, <2>5, <2>7, <2>8, CopyStays DEF PointersIn
    <3>2. txn'.revs[owned].phase # "published" /\ txn.revs[owned].phase # "published"
      BY <1>2, <1>5, <2>5, <2>8
    <3>3. /\ txn'.revs = [txn.revs EXCEPT ![owned] = txn'.revs[owned]]
          /\ txn'.revs[owned] \in RevisionRow
      BY <2>5, <2>8
    <3>4. PointersIn(txn', disk) /\ NewestIn(txn', disk) /\ Grown(txn', owned, saved.db)
      BY <1>2, <2>8, <3>1, <3>2, <3>3, LastRowKeeps
    <3> QED
      BY <2>9, <3>4 DEF Consistent
  <2>11. Finished(txn', disk) /\ Copied(txn'.out, disk) /\ txn'.revs[owned].phase \in Ended
    BY <2>1, <2>2, <2>3, <2>4, <2>5, <2>8, <2>9 DEF Finished, ArchiveOK, Ended
  <2>12. Body(txn') = b
    BY <2>4, <2>8 DEF Body, BodyRow
  <2> QED
    BY <1>1, <1>3, <1>4, <1>5, <2>2, <2>6, <2>8, <2>9, <2>10, <2>11, <2>12, IntoPrune
<1>6. CASE UNCHANGED <<live, txn>> /\ pc' = "error"
  <2>1. pc' \in Places \ {"idle"} /\ pc' \notin Fresh \cup Prepared \cup Begun \cup Closing
    BY <1>6 DEF Places, Fresh, Prepared, Begun, Closing
  <2>2. PointersIn(live', disk')
    BY <1>2, <1>4, <1>6 DEF fileVars
  <2> QED
    BY <1>1, <1>4, <1>6, <2>1, <2>2, Running, IntoPlace DEF fileVars
<1> QED
  BY <1>5, <1>6 DEF Compensate

------------------------------------------------------------------------------
(* Pruning *)

\* A journal whose other pointers are retired.
Pruned(e, db, keep) ==
  e = [db EXCEPT !.revs = [i \in DOMAIN db.revs |-> Retired(db.revs[i], keep)]]

\* What such a journal keeps, with the copies that are left.
PrunedKeeps(e, db, left) ==
  /\ e \in Database /\ Body(e) = Body(db) /\ Len(e.revs) = Len(db.revs)
  /\ e.status = db.status /\ e.out = db.out /\ e.entry = db.entry
  /\ e.changes = db.changes /\ e.tasks = db.tasks /\ e.steps = db.steps
  /\ DOMAIN e.revs = DOMAIN db.revs
  /\ \A i \in DOMAIN db.revs : e.revs[i].phase = db.revs[i].phase
  /\ PointersIn(e, left) /\ NewestIn(e, left) /\ Copied(e.out, left)
  /\ Cardinality(left) <= 2

\* The copies that nothing protects.
Unprotected(d, keep) == {n \in d : Copy(n) \notin keep}

\* A row whose pointers are retired.
LEMMA RetiredIs ==
  ASSUME NEW row \in RevisionRow, NEW keep
  PROVE  LET r == Retired(row, keep)
         IN /\ r \in RevisionRow /\ r.phase = row.phase
            /\ r.before.out = Retire(row.before.out, keep)
            /\ r.edits = Retire(row.edits, keep) /\ r.published = Retire(row.published, keep)
<1> DEFINE b == [row.before EXCEPT !.out = Retire(row.before.out, keep)]
           edits == Retire(row.edits, keep)
           published == Retire(row.published, keep)
           r == Retired(row, keep)
<1>1. row.before \in BodyRow /\ row.edits \in Pointer /\ row.published \in Pointer
  BY DEF RevisionRow
<1>2. \A out \in Pointer : Retire(out, keep) \in Pointer
  BY CopyIs DEF Retire
<1>3. b \in BodyRow /\ b.out = Retire(row.before.out, keep)
  <2>1. row.before.out \in Pointer
    BY <1>1 DEF BodyRow
  <2>2. Retire(row.before.out, keep) \in Pointer
    BY <1>2, <2>1
  <2> QED
    BY <1>1, <2>2 DEF BodyRow
<1>4. r = [row EXCEPT !.before = b, !.edits = edits, !.published = published]
  BY DEF Retired
<1>5. edits \in Pointer /\ published \in Pointer
  BY <1>1, <1>2
<1> HIDE DEF b, edits, published
<1>6. r \in RevisionRow /\ r.phase = row.phase /\ r.before = b /\ r.edits = edits
      /\ r.published = published
  BY <1>3, <1>4, <1>5 DEF RevisionRow
<1> QED
  BY <1>3, <1>6 DEF edits, published

\* A protected pointer to a copy keeps it.
LEMMA RetireKeeps ==
  ASSUME NEW d, NEW keep, NEW out, OnDisk(out, d)
  PROVE  /\ OnDisk(Retire(out, keep), d \ Unprotected(d, keep))
         /\ out \in keep /\ Copied(out, d) =>
              Retire(out, keep) = out /\ Copied(out, d \ Unprotected(d, keep))
<1>1. ASSUME out \in keep, Copied(out, d)
      PROVE  Copied(out, d \ Unprotected(d, keep))
  <2>1. PICK n \in d : out = Copy(n)
    BY <1>1 DEF Copied
  <2>2. n \in d \ Unprotected(d, keep)
    BY <1>1, <2>1 DEF Unprotected
  <2> QED
    BY <2>1, <2>2 DEF Copied
<1> QED
  BY <1>1 DEF Retire, OnDisk

\* Two pointers protect two copies at most.
LEMMA TwoAtMost ==
  ASSUME NEW d \in SUBSET Nat, NEW x, NEW y, NEW keep, keep \subseteq {x, y}
  PROVE  Cardinality(d \ Unprotected(d, keep)) <= 2
<1> DEFINE rest == d \ Unprotected(d, keep)
           A == {n \in d : Copy(n) = x}
           B == {n \in d : Copy(n) = y}
<1>1. rest \subseteq A \cup B
  BY DEF Unprotected
<1>2. ASSUME NEW z, NEW S, S = {n \in d : Copy(n) = z}
      PROVE  IsFiniteSet(S) /\ Cardinality(S) <= 1
  <2>1. \A m, n \in S : m = n
    BY <1>2, CopyIs
  <2>2. CASE S = {}
    BY <2>2, FS_EmptySet
  <2>3. CASE S # {}
    <3>1. PICK m \in S : TRUE
      BY <2>3
    <3>2. S = {m}
      BY <2>1, <3>1
    <3>3. IsFiniteSet({m}) /\ Cardinality({m}) = 1
      BY FS_Singleton, Zenon
    <3> QED
      BY <3>2, <3>3
  <2> QED
    BY <2>2, <2>3
<1>3. IsFiniteSet(A) /\ Cardinality(A) <= 1 /\ IsFiniteSet(B) /\ Cardinality(B) <= 1
  BY <1>2
<1> HIDE DEF A, B
<1>4. /\ IsFiniteSet(A \cup B)
      /\ Cardinality(A \cup B) = Cardinality(A) + Cardinality(B) - Cardinality(A \cap B)
  BY <1>3, FS_Union
<1>5. IsFiniteSet(A \cap B)
  BY <1>3, FS_Intersection
<1>6. /\ Cardinality(A) \in Nat /\ Cardinality(B) \in Nat /\ Cardinality(A \cap B) \in Nat
      /\ Cardinality(A \cup B) \in Nat
  BY <1>3, <1>4, <1>5, FS_CardinalityType
<1>7. Cardinality(rest) <= Cardinality(A \cup B) /\ Cardinality(rest) \in Nat
  BY <1>1, <1>4, FS_Subset, FS_CardinalityType
<1> QED
  BY <1>3, <1>4, <1>6, <1>7

\* What prune_preserved_outputs leaves once no revision runs: the pointers it protects, the
\* document's and the newest published one, and no other.
LEMMA PrunedIs ==
  ASSUME NEW db \in Database, NEW d \in SUBSET Nat, PointersIn(db, d), NewestIn(db, d),
         Copied(db.out, d), Len(db.revs) > 0 => db.revs[Len(db.revs)].phase # "running",
         NEW keep, keep = KeptFiles(db),
         NEW e, Pruned(e, db, keep),
         NEW left, left = d \ Unprotected(d, keep)
  PROVE  PrunedKeeps(e, db, left)
<1> DEFINE n == Len(db.revs)
           revs == [i \in DOMAIN db.revs |-> Retired(db.revs[i], keep)]
           pub == {i \in DOMAIN db.revs : db.revs[i].phase = "published"}
           last == db.revs[Max(pub)].published
<1>1. /\ db.revs \in Seq(RevisionRow) /\ n \in Nat /\ DOMAIN db.revs = 1..n
      /\ \A i \in 1..n : db.revs[i] \in RevisionRow
  BY DEF Database
<1>2. /\ \A i \in 1..n :
           /\ revs[i] \in RevisionRow /\ revs[i].phase = db.revs[i].phase
           /\ revs[i].before.out = Retire(db.revs[i].before.out, keep)
           /\ revs[i].edits = Retire(db.revs[i].edits, keep)
           /\ revs[i].published = Retire(db.revs[i].published, keep)
      /\ DOMAIN revs = 1..n
  BY <1>1, RetiredIs
<1>3. revs \in Seq(RevisionRow) /\ Len(revs) = n
  <2>1. revs \in [1..n -> RevisionRow]
    BY <1>1, <1>2
  <2> HIDE DEF revs
  <2> QED
    BY <1>1, <2>1, SeqFrom
<1>4. keep = {db.out} \cup (IF pub = {} THEN {} ELSE {last})
  <2>1. ~(n > 0 /\ db.revs[n].phase = "running")
    BY <1>1
  <2> QED
    BY <2>1 DEF KeptFiles
<1>5. e = [db EXCEPT !.revs = revs]
  BY DEF Pruned
<1> HIDE DEF revs, last
<1>6. /\ e \in Database /\ e.revs = revs
      /\ e.status = db.status /\ e.out = db.out /\ e.entry = db.entry
      /\ e.changes = db.changes /\ e.tasks = db.tasks /\ e.steps = db.steps
  BY <1>3, <1>5 DEF Database
<1>7. Body(e) = Body(db)
  BY <1>6 DEF Body
<1>8. PointersIn(e, left)
  <2>1. \A out : OnDisk(out, d) => OnDisk(Retire(out, keep), left)
    BY RetireKeeps
  <2>2. \A i \in 1..n : /\ OnDisk(db.revs[i].before.out, d) /\ OnDisk(db.revs[i].edits, d)
                        /\ OnDisk(db.revs[i].published, d)
    BY <1>1 DEF PointersIn
  <2>3. OnDisk(e.out, left)
    <3>1. OnDisk(db.out, d) /\ db.out \in keep
      BY <1>4 DEF PointersIn
    <3>2. Copied(db.out, left)
      BY <3>1, RetireKeeps
    <3> QED
      BY <1>6, <3>2, CopyStays
  <2>4. ASSUME NEW i \in 1..n
        PROVE  /\ OnDisk(revs[i].before.out, left) /\ OnDisk(revs[i].edits, left)
               /\ OnDisk(revs[i].published, left)
    <3>1. /\ revs[i].before.out = Retire(db.revs[i].before.out, keep)
          /\ revs[i].edits = Retire(db.revs[i].edits, keep)
          /\ revs[i].published = Retire(db.revs[i].published, keep)
      BY <1>2
    <3> QED
      BY <2>1, <2>2, <3>1
  <2> QED
    BY <1>2, <1>6, <2>3, <2>4 DEF PointersIn
<1>9. Copied(e.out, left)
  <2>1. OnDisk(db.out, d) /\ db.out \in keep
    BY <1>4 DEF PointersIn
  <2> QED
    BY <1>6, <2>1, RetireKeeps
<1>10. NewestIn(e, left)
  <2> SUFFICES ASSUME NEW i \in 1..n, e.revs[i].phase = "published",
                      \A j \in 1..n : j > i => e.revs[j].phase # "published"
               PROVE  Copied(e.revs[i].published, left)
    BY <1>2, <1>6 DEF NewestIn
  <2>1. i \in pub /\ \A j \in 1..n : j > i => db.revs[j].phase # "published"
    BY <1>1, <1>2, <1>6
  <2>2. Copied(db.revs[i].published, d)
    BY <1>1, <2>1 DEF NewestIn
  <2>3. Max(pub) = i
    <3>1. pub \in SUBSET (1..n) /\ pub # {}
      BY <1>1, <2>1
    <3>2. Max(pub) \in pub /\ \A j \in pub : j <= Max(pub)
      BY <1>1, <3>1, MaxIs
    <3>3. Max(pub) \in 1..n /\ db.revs[Max(pub)].phase = "published" /\ i <= Max(pub)
      BY <1>1, <2>1, <3>2
    <3>4. ~(Max(pub) > i)
      BY <2>1, <3>3
    <3> QED
      BY <1>1, <3>3, <3>4
  <2>4. db.revs[i].published \in keep
    BY <1>4, <2>1, <2>3 DEF last
  <2>5. OnDisk(db.revs[i].published, d)
    BY <2>2, CopyStays
  <2>6. /\ Retire(db.revs[i].published, keep) = db.revs[i].published
        /\ Copied(db.revs[i].published, left)
    <3> DEFINE p == db.revs[i].published
    <3>1. OnDisk(p, d) /\ p \in keep /\ Copied(p, d)
      BY <2>2, <2>4, <2>5
    <3> HIDE DEF p
    <3>2. Retire(p, keep) = p
      BY <3>1 DEF Retire
    <3>3. Copied(p, d \ Unprotected(d, keep))
      BY <3>1, RetireKeeps
    <3> QED
      BY <3>2, <3>3 DEF p
  <2>7. e.revs[i].published = db.revs[i].published
    <3>1. e.revs[i] = revs[i] /\ revs[i].published = Retire(db.revs[i].published, keep)
      BY <1>2, <1>6
    <3> QED
      BY <2>6, <3>1
  <2> QED
    BY <2>6, <2>7
<1>11. Cardinality(left) <= 2
  <2>1. keep \subseteq {db.out, last}
    BY <1>4
  <2> QED
    BY <2>1, TwoAtMost
<1> QED
  BY <1>1, <1>2, <1>3, <1>6, <1>7, <1>8, <1>9, <1>10, <1>11 DEF PrunedKeeps

\* What is known of an attempt whose revision is closed.
LEMMA ClosingIs ==
  ASSUME ReviewInv, pc \in {"prune", "unlink"}
  PROVE  /\ txn \in Database /\ saved.db \in Database /\ live = txn
         /\ Grown(txn, owned, saved.db) /\ FiguresAgree(txn)
         /\ PointersIn(txn, disk) /\ NewestIn(txn, disk) /\ Recorded(txn, kept, saved.db)
         /\ Finished(txn, disk) /\ Copied(txn.out, disk) /\ txn.revs[owned].phase \in Ended
         /\ txn.revs[owned].phase = "failed" =>
              task.kind = "review" /\ Body(txn) = Snapshot(task, saved, kept)
         /\ owned \in DOMAIN txn.revs /\ owned = Len(txn.revs)
<1>1. /\ live = txn /\ Grown(txn, owned, saved.db) /\ FiguresAgree(txn)
      /\ PointersIn(txn, disk) /\ NewestIn(txn, disk) /\ Recorded(txn, kept, saved.db)
      /\ Finished(txn, disk) /\ Copied(txn.out, disk) /\ txn.revs[owned].phase \in Ended
      /\ txn.revs[owned].phase = "failed" =>
           task.kind = "review" /\ Body(txn) = Snapshot(task, saved, kept)
  BY DEF ReviewInv, ClosingAt, Closing, Consistent
<1>2. txn \in Database /\ saved.db \in Database
  BY Running
<1> QED
  BY <1>1, <1>2, OwnedIs

\* The journal's pointers are retired, and the copies that are to go are known.
LEMMA PruneStep ==
  ASSUME ReviewInv, Prune
  PROVE  ReviewInv'
<1> DEFINE keep == KeptFiles(txn)
           left == disk \ Unprotected(disk, keep)
<1>1. pc = "prune" /\ pc # "idle"
  BY DEF Prune
<1>2. /\ txn \in Database /\ saved.db \in Database
      /\ Grown(txn, owned, saved.db) /\ FiguresAgree(txn)
      /\ PointersIn(txn, disk) /\ NewestIn(txn, disk) /\ Recorded(txn, kept, saved.db)
      /\ Finished(txn, disk) /\ Copied(txn.out, disk) /\ txn.revs[owned].phase \in Ended
      /\ txn.revs[owned].phase = "failed" =>
           task.kind = "review" /\ Body(txn) = Snapshot(task, saved, kept)
      /\ owned \in DOMAIN txn.revs /\ owned = Len(txn.revs)
  BY <1>1, ClosingIs
<1>3. /\ UNCHANGED <<workerVars, fileVars, owned, crashes>>
      /\ live' = txn' /\ pc' = "unlink"
  BY DEF Prune
<1>4. doomed' = Unprotected(disk, keep)
  BY DEF Prune, Unprotected
<1>5. Pruned(txn', txn, keep)
  BY DEF Prune, Pruned
<1>6. disk \in SUBSET Nat /\ bytes \in Nat \ {0}
  BY <1>1, Running
<1>7. Len(txn.revs) > 0 => txn.revs[Len(txn.revs)].phase # "running"
  BY <1>2 DEF Ended
<1> HIDE DEF keep
<1>8. /\ txn' \in Database /\ Body(txn') = Body(txn) /\ Len(txn'.revs) = Len(txn.revs)
      /\ txn'.status = txn.status /\ txn'.out = txn.out /\ txn'.entry = txn.entry
      /\ txn'.changes = txn.changes /\ txn'.tasks = txn.tasks /\ txn'.steps = txn.steps
      /\ DOMAIN txn'.revs = DOMAIN txn.revs
      /\ \A i \in DOMAIN txn.revs : txn'.revs[i].phase = txn.revs[i].phase
      /\ PointersIn(txn', left) /\ NewestIn(txn', left) /\ Copied(txn'.out, left)
      /\ Cardinality(left) <= 2
  <2>1. keep = KeptFiles(txn) /\ left = disk \ Unprotected(disk, keep)
    BY DEF keep
  <2>2. /\ txn \in Database /\ PointersIn(txn, disk) /\ NewestIn(txn, disk)
        /\ Copied(txn.out, disk)
    BY <1>2
  <2> HIDE DEF left
  <2>3. PrunedKeeps(txn', txn, left)
    BY <1>5, <1>6, <1>7, <2>1, <2>2, PrunedIs, Zenon
  <2> QED
    BY <2>3 DEF PrunedKeeps
<1>9. FiguresAgree(txn') /\ Recorded(txn', kept, saved.db)
  BY <1>2, <1>8, SameFigures, SameRecord
<1>10. left \subseteq disk
  OBVIOUS
<1>11. PointersIn(txn', disk) /\ NewestIn(txn', disk) /\ Copied(txn'.out, disk)
  <2> HIDE DEF left
  <2> QED
    BY <1>8, <1>10, MoreCopies
<1>12. Grown(txn', owned, saved.db)
  <2>1. \A i \in DOMAIN saved.db.revs : i \in DOMAIN txn.revs
    <3>1. DOMAIN saved.db.revs = 1..Len(saved.db.revs) /\ Len(saved.db.revs) \in Nat
      BY <1>2 DEF Database
    <3>2. DOMAIN txn.revs = 1..Len(txn.revs)
      BY <1>2 DEF Database
    <3> QED
      BY <1>2, <3>1, <3>2 DEF Grown
  <2> QED
    BY <1>2, <1>8, <2>1 DEF Grown
<1>13. Finished(txn', disk)
  BY <1>2, <1>8, <1>9 DEF Finished
<1>14. /\ txn'.revs[owned].phase \in Ended
       /\ txn'.revs[owned].phase = "failed" =>
            task.kind = "review" /\ Body(txn') = Snapshot(task, saved, kept)
  BY <1>2, <1>8
<1>15. ClosingAt'
  <2>1. disk' \ doomed' = left
    BY <1>3, <1>4 DEF fileVars
  <2>2. Consistent(txn', owned, saved.db, disk)
    BY <1>9, <1>11, <1>12 DEF Consistent
  <2> HIDE DEF left
  <2> QED
    BY <1>3, <1>8, <1>9, <1>11, <1>13, <1>14, <2>1, <2>2 DEF ClosingAt, workerVars, fileVars
<1>16. pc' \in Places \ {"idle"} /\ pc' \notin Fresh \cup Prepared \cup Begun
  BY <1>3 DEF Places, Fresh, Prepared, Begun, Closing
<1>17. PointersIn(live', disk')
  BY <1>3, <1>11 DEF fileVars
<1>18. doomed' \subseteq Nat
  BY <1>4, <1>6 DEF Unprotected
<1> QED
  BY <1>1, <1>3, <1>8, <1>15, <1>16, <1>17, <1>18, Running, IntoPlace DEF fileVars

\* They are deleted.
LEMMA UnlinkStep ==
  ASSUME ReviewInv, Unlink
  PROVE  ReviewInv'
<1>1. pc = "unlink" /\ pc # "idle"
  BY DEF Unlink
<1>2. /\ txn \in Database /\ live = txn
      /\ Grown(txn, owned, saved.db) /\ FiguresAgree(txn) /\ Recorded(txn, kept, saved.db)
      /\ Finished(txn, disk) /\ txn.revs[owned].phase \in Ended
      /\ txn.revs[owned].phase = "failed" =>
           task.kind = "review" /\ Body(txn) = Snapshot(task, saved, kept)
  BY <1>1, ClosingIs
<1>3. /\ Copied(txn.out, disk \ doomed) /\ PointersIn(txn, disk \ doomed)
      /\ NewestIn(txn, disk \ doomed) /\ Cardinality(disk \ doomed) <= 2
  BY <1>1 DEF ReviewInv, ClosingAt, Closing
<1>4. /\ UNCHANGED <<workerVars, live, txn, bytes, made, owned, crashes>>
      /\ disk' = disk \ doomed /\ doomed' = {} /\ pc' = "pack"
  BY DEF Unlink
<1>5. Consistent(txn, owned, saved.db, disk')
  BY <1>2, <1>3, <1>4 DEF Consistent
<1>6. Finished(txn, disk')
  BY <1>2, <1>3, <1>4 DEF Finished
<1>7. ClosingAt'
  BY <1>2, <1>3, <1>4, <1>5, <1>6 DEF ClosingAt, workerVars
<1>8. pc' \in Places \ {"idle"} /\ pc' \notin Fresh \cup Prepared \cup Begun
  BY <1>4 DEF Places, Fresh, Prepared, Begun, Closing
<1>9. PointersIn(live', disk')
  BY <1>2, <1>3, <1>4
<1>10. disk' \subseteq Nat /\ bytes' \in Nat \ {0}
  BY <1>1, <1>4, Running
<1> QED
  BY <1>1, <1>4, <1>7, <1>8, <1>9, <1>10, Running, IntoPlace

\* Pruning raises: a published review is compensated, or the attempt fails.
LEMMA PruneRaisesStep ==
  ASSUME ReviewInv, PruneRaises
  PROVE  ReviewInv'
<1>1. pc \in {"prune", "unlink"} /\ pc # "idle"
  BY DEF PruneRaises
<1>2. /\ txn \in Database /\ saved.db \in Database /\ live = txn
      /\ Grown(txn, owned, saved.db) /\ FiguresAgree(txn)
      /\ PointersIn(txn, disk) /\ NewestIn(txn, disk) /\ Recorded(txn, kept, saved.db)
  BY <1>1, ClosingIs
<1>3. /\ UNCHANGED <<workerVars, live, txn, fileVars, owned>> /\ doomed' = {}
      /\ crashes' = crashes + 1
      /\ pc' = IF task.kind = "review" /\ live.revs[owned].phase = "published"
                 THEN "compensate" ELSE "error"
  BY <1>2 DEF PruneRaises
<1>4. Consistent(txn, owned, saved.db, disk)
  BY <1>2 DEF Consistent
<1>5. BegunAt'
  <2>1. CASE task.kind = "review" /\ live.revs[owned].phase = "published"
    BY <1>2, <1>3, <1>4, <2>1 DEF BegunAt, workerVars, fileVars
  <2>2. CASE ~(task.kind = "review" /\ live.revs[owned].phase = "published")
    BY <1>3, <2>2 DEF BegunAt, Begun
  <2> QED
    BY <2>1, <2>2
<1>6. pc' \in Places \ {"idle"} /\ pc' \notin Fresh \cup Prepared \cup Closing
  BY <1>3 DEF Places, Fresh, Prepared, Begun, Closing
<1>7. PointersIn(live', disk')
  BY <1>2, <1>3 DEF fileVars
<1>8. crashes' \in Nat
  BY <1>1, <1>3, Running
<1> QED
  BY <1>1, <1>3, <1>5, <1>6, <1>7, <1>8, Running, IntoPlace DEF fileVars

------------------------------------------------------------------------------
(* The archive *)

\* What is known when an archive is packed: it is the one the attempt unpacked, or it has
\* the attempt's revision, published or failed.
LEMMA PackIs ==
  ASSUME ReviewInv, Pack
  PROVE  \/ saved' = saved
         \/ /\ live \in Database /\ saved'.db = live /\ ArchiveOK(saved')
            /\ Recorded(live, kept, saved.db)
            /\ owned = Len(live.revs)
            /\ live.revs[owned].phase = "failed" =>
                 task.kind = "review" /\ Body(live) = Snapshot(task, saved, kept)
<1>1. pc = "pack" /\ pc # "idle" /\ pc \in Closing
  BY DEF Pack, Closing
<1>2. saved' = [db |-> live, disk |-> disk, bytes |-> bytes]
  BY DEF Pack, Archive
<1>3. /\ txn \in Database /\ live \in Database /\ saved.db \in Database /\ ArchiveOK(saved)
      /\ saved \in [db : Database, disk : SUBSET Nat, bytes : Nat \ {0}]
  BY <1>1, Running DEF ReviewInv, ReviewTypeOK
<1>4. CASE live = saved.db /\ disk = saved.disk /\ bytes = saved.bytes
  BY <1>2, <1>3, <1>4
<1>5. CASE ~(live = saved.db /\ disk = saved.disk /\ bytes = saved.bytes)
  <2>1. /\ live = txn
        /\ Consistent(txn, owned, saved.db, disk) /\ Recorded(txn, kept, saved.db)
        /\ Finished(txn, disk) /\ Copied(txn.out, disk)
        /\ txn.revs[owned].phase \in Ended
        /\ txn.revs[owned].phase = "failed" =>
             task.kind = "review" /\ Body(txn) = Snapshot(task, saved, kept)
        /\ Cardinality(disk) <= 2
    BY <1>1, <1>5 DEF ReviewInv, ClosingAt
  <2>2. owned = Len(txn.revs) /\ owned \in DOMAIN txn.revs
    BY <1>3, <2>1, OwnedIs DEF Consistent
  <2>3. \A i \in DOMAIN txn.revs : txn.revs[i].phase \in Ended
    <3>1. DOMAIN txn.revs = 1..owned /\ owned \in Nat
      BY <1>3, <2>2 DEF Database
    <3>2. DOMAIN saved.db.revs = 1..Len(saved.db.revs) /\ Len(saved.db.revs) \in Nat
      BY <1>3 DEF Database
    <3>3. /\ owned = Len(saved.db.revs) + 1
          /\ \A i \in DOMAIN saved.db.revs : txn.revs[i].phase = saved.db.revs[i].phase
      BY <2>1 DEF Consistent, Grown
    <3>4. \A i \in DOMAIN saved.db.revs : saved.db.revs[i].phase \in Ended
      BY <1>3 DEF ArchiveOK
    <3>5. txn.revs[owned].phase \in Ended
      BY <2>1
    <3>6. \A i \in DOMAIN txn.revs : i = owned \/ i \in DOMAIN saved.db.revs
      BY <3>1, <3>2, <3>3
    <3> QED
      BY <3>3, <3>4, <3>5, <3>6
  <2>4. ArchiveOK(saved')
    <3>1. saved'.db = txn /\ saved'.disk = disk
      BY <1>2, <2>1
    <3> QED
      BY <2>1, <2>3, <3>1 DEF ArchiveOK, Consistent
  <2>5. saved'.db = live
    BY <1>2
  <2> QED
    BY <1>3, <2>1, <2>2, <2>4, <2>5
<1> QED
  BY <1>4, <1>5

\* The archive a completion saves may be saved.
LEMMA PackStep ==
  ASSUME ReviewInv, Pack
  PROVE  ReviewInv'
<1>1. pc # "idle"
  BY DEF Pack
<1>2. ArchiveOK(saved')
  BY PackIs DEF ReviewInv
<1>3. saved' \in [db : Database, disk : SUBSET Nat, bytes : Nat \ {0}]
  <2>1. saved' = [db |-> live, disk |-> disk, bytes |-> bytes]
    BY DEF Pack, Archive
  <2>2. live \in Database /\ disk \subseteq Nat /\ bytes \in Nat \ {0}
    BY <1>1, Running
  <2> QED
    BY <2>1, <2>2
<1>4. /\ task' = Idle /\ kept' = [changes |-> {}, tasks |-> {}]
      /\ pc' = "idle" /\ live' = NoTxn /\ txn' = NoTxn /\ disk' = {} /\ bytes' = 0 /\ owned' = 0
      /\ UNCHANGED <<version, made, doomed, crashes>>
  BY DEF Pack
<1>5. ReviewTypeOK'
  BY <1>3, <1>4 DEF ReviewInv, ReviewTypeOK, Places
<1>6. Fits(kept', task', saved'.db)
  <2>1. Idle \notin Command
    BY DEF Idle, Command
  <2> QED
    BY <1>4, <2>1 DEF Fits
<1> QED
  BY <1>2, <1>4, <1>5, <1>6, IntoIdle

\* Every step keeps the invariant.
LEMMA ReviewStepKeeps == ReviewInv /\ [ReviewNext]_reviewVars => ReviewInv'
<1> SUFFICES ASSUME ReviewInv, [ReviewNext]_reviewVars PROVE ReviewInv'
  OBVIOUS
<1>1. CASE UNCHANGED reviewVars
  <2>1. ReviewTypeOK' /\ ArchiveOK(saved') /\ Fits(kept', task', saved'.db)
    BY <1>1 DEF ReviewInv, ReviewTypeOK, reviewVars
  <2>2. AttemptAt' /\ FreshAt' /\ PreparedAt'
    BY <1>1 DEF ReviewInv, AttemptAt, FreshAt, PreparedAt, reviewVars
  <2>3. BegunAt' /\ ClosingAt'
    BY <1>1 DEF ReviewInv, BegunAt, ClosingAt, reviewVars
  <2> QED
    BY <2>1, <2>2, <2>3 DEF ReviewInv
<1>2. CASE Keep \/ QueueReview \/ QueueSync
  BY <1>2, PersonSteps
<1>3. CASE Dies \/ Refused \/ Error
  BY <1>3, AttemptEnds
<1>4. CASE Unpack \/ ReviewOverrides \/ Prepare \/ SyncOverrides
  BY <1>4, UnpackStep, ReviewOverridesStep, PrepareStep, SyncOverridesStep
<1>5. CASE Act \/ Start \/ SyncRun \/ TagReady \/ TagFails
  BY <1>5, ActStep, StartStep, SyncRunStep, TagStep
<1>6. CASE Publish \/ Compensate
  BY <1>6, PublishStep, CompensateStep
<1>7. CASE Prune \/ Unlink \/ PruneRaises \/ Pack
  BY <1>7, PruneStep, UnlinkStep, PruneRaisesStep, PackStep
<1> QED
  BY <1>1, <1>2, <1>3, <1>4, <1>5, <1>6, <1>7 DEF ReviewNext, Attempt

\* The invariant holds of every reachable state of a review and of its archive.
THEOREM ReviewInvariant == ReviewSpec => []ReviewInv
<1>1. ReviewSpec => Init /\ [][ReviewNext]_reviewVars
  BY DEF ReviewSpec
<1> QED
  BY <1>1, ReviewBegins, ReviewStepKeeps, PTL

------------------------------------------------------------------------------
(* The properties *)

\* A figure has one change in force, that says what the figure has, or none.
LEMMA OneInForce ==
  ASSUME NEW db \in Database, FiguresAgree(db), NEW f \in Figure, NEW active,
         active = {i \in DOMAIN db.changes :
                     db.changes[i].fig = f /\ db.changes[i].status # "undone"}
  PROVE  IF db.entry[f] = "gone" THEN active = {}
         ELSE Cardinality(active) = 1 /\ \A i \in active : db.changes[i].after = db.entry[f]
<1>1. \A i \in active : db.changes[i].after = db.entry[f]
  BY DEF FiguresAgree, InForce
<1>2. \A i, j \in active : i = j
  BY DEF FiguresAgree, InForce
<1>3. CASE db.entry[f] = "gone"
  <2>1. \A i \in DOMAIN db.changes : db.changes[i].after # "gone"
    <3> TAKE i \in DOMAIN db.changes
    <3>1. db.changes[i] \in ChangeRow
      BY DEF Database
    <3>2. db.changes[i].after \in Described
      BY <3>1 DEF ChangeRow
    <3> QED
      BY <3>2, ReviewConstants DEF Described
  <2> QED
    BY <1>1, <1>3, <2>1
<1>4. CASE db.entry[f] # "gone"
  <2>1. PICK i \in active : TRUE
    BY <1>4 DEF FiguresAgree, InForce
  <2>2. active = {i}
    BY <1>2, <2>1
  <2>3. Cardinality({i}) = 1
    BY FS_Singleton, Zenon
  <2> QED
    BY <1>1, <1>4, <2>2, <2>3
<1> QED
  BY <1>3, <1>4

\* The committed rows never name a copy that is gone, and the archive is settled.
LEMMA InvSettles == ReviewInv => ArchiveIsSettled
<1> SUFFICES ASSUME ReviewInv PROVE ArchiveIsSettled
  OBVIOUS
<1> DEFINE db == saved.db
           pub == {i \in DOMAIN db.revs : db.revs[i].phase = "published"}
<1>1. db \in Database /\ ArchiveOK(saved)
  BY DEF ReviewInv, ReviewTypeOK
<1>2. PointersHold
  <2> SUFFICES ASSUME live # NoTxn,
                      NEW out \in {live.out} \cup
                        UNION {{live.revs[i].before.out, live.revs[i].edits, live.revs[i].published}
                               : i \in DOMAIN live.revs}
               PROVE  out \in {NoFile, Working} \/ \E n \in disk : out = Copy(n)
    BY DEF PointersHold
  <2>1. pc # "idle" /\ PointersIn(live, disk)
    BY DEF ReviewInv, AttemptAt
  <2>2. OnDisk(out, disk)
    BY <2>1 DEF PointersIn
  <2> QED
    BY <2>2 DEF OnDisk, Copied
<1>3. /\ db.status \in Ready /\ db.steps = "done"
      /\ db.out = Working \/ \E n \in saved.disk : db.out = Copy(n)
      /\ FiguresAgree(db)
      /\ \A i \in DOMAIN db.revs : db.revs[i].phase \in {"published", "failed"}
      /\ db.revs # <<>> => Cardinality(saved.disk) <= 2
  BY <1>1 DEF ArchiveOK, Finished, Copied, Ended
<1>4. ASSUME pub # {}
      PROVE  \E n \in saved.disk : db.revs[Max(pub)].published = Copy(n)
  <2>1. DOMAIN db.revs = 1..Len(db.revs) /\ Len(db.revs) \in Nat
    BY <1>1 DEF Database
  <2>2. PICK m : m = Max(pub)
    OBVIOUS
  <2>3. m \in pub /\ \A j \in pub : j <= m
    <3>1. pub \in SUBSET (1..Len(db.revs))
      BY <2>1
    <3> QED
      BY <1>4, <2>1, <2>2, <3>1, MaxIs
  <2>4. m \in DOMAIN db.revs /\ db.revs[m].phase = "published"
    BY <2>3
  <2>5. ASSUME NEW j \in DOMAIN db.revs, j > m
        PROVE  db.revs[j].phase # "published"
    <3>1. j \in Nat /\ m \in Nat
      BY <2>1, <2>4
    <3> QED
      BY <2>3, <2>5, <3>1
  <2>6. NewestIn(db, saved.disk)
    BY <1>1 DEF ArchiveOK
  <2> HIDE DEF db, pub
  <2> QED
    BY <2>2, <2>4, <2>5, <2>6 DEF NewestIn, Copied
<1>5. \A f \in Figure :
        LET active == {i \in DOMAIN db.changes :
                         db.changes[i].fig = f /\ db.changes[i].status # "undone"}
        IN IF db.entry[f] = "gone" THEN active = {}
           ELSE Cardinality(active) = 1 /\ \A i \in active : db.changes[i].after = db.entry[f]
  <2> TAKE f \in Figure
  <2> DEFINE active == {i \in DOMAIN db.changes :
                          db.changes[i].fig = f /\ db.changes[i].status # "undone"}
  <2>1. active = {i \in DOMAIN db.changes :
                    db.changes[i].fig = f /\ db.changes[i].status # "undone"}
    OBVIOUS
  <2> HIDE DEF active, db
  <2>2. IF db.entry[f] = "gone" THEN active = {}
        ELSE Cardinality(active) = 1 /\ \A i \in active : db.changes[i].after = db.entry[f]
    BY <1>1, <1>3, <2>1, OneInForce
  <2> QED
    BY <2>2 DEF active
<1> QED
  BY <1>2, <1>3, <1>4, <1>5 DEF ArchiveIsSettled

\* Whatever died before the archive was saved, the archive holds a finished document, its
\* journal is closed, the newest published PDF is there with one other copy at most, every
\* figure has one change in force, and no committed row names a copy that is gone.
THEOREM ArchiveSettles == ReviewSpec => []ArchiveIsSettled
BY ReviewInvariant, InvSettles, PTL

\* Only a completion changes the archive.
LEMMA OnlyPackSaves ==
  ASSUME [ReviewNext]_reviewVars, saved' # saved
  PROVE  Pack
<1>1. ~(UNCHANGED reviewVars)
  BY DEF reviewVars
<1>2. ~(Keep \/ QueueReview \/ QueueSync \/ Dies \/ Refused \/ Error \/ PruneRaises)
  BY DEF Keep, QueueReview, QueueSync, Dies, Refused, Error, PruneRaises, workerVars
<1>3. ~(Unpack \/ ReviewOverrides \/ Prepare \/ SyncOverrides \/ Act \/ Start \/ SyncRun)
  BY DEF Unpack, ReviewOverrides, Overrides, Prepare, SyncOverrides, Act, Start, SyncRun, workerVars
<1>4. ~(TagReady \/ TagFails \/ Publish \/ Compensate \/ Prune \/ Unlink)
  BY DEF TagReady, TagFails, Publish, Compensate, Prune, Unlink, workerVars
<1> QED
  BY <1>1, <1>2, <1>3, <1>4 DEF ReviewNext, Attempt

\* A saved archive records the decisions the Worker then forgets.
LEMMA SavedRecords ==
  ASSUME ReviewInv, [ReviewNext]_reviewVars, saved' # saved
  PROVE  /\ \A c \in kept.changes : saved'.db.changes[c].status # "pending_review"
         /\ \A i \in kept.tasks : saved'.db.tasks[i] # "pending_review"
         /\ \A i \in Issue : saved.db.tasks[i] = "resolved" => saved'.db.tasks[i] # "pending_review"
<1>1. saved'.db = live /\ Recorded(live, kept, saved.db)
  BY OnlyPackSaves, PackIs
<1> QED
  BY <1>1 DEF Recorded

\* What a person kept or acknowledged is in the archive when the Worker forgets it, also
\* when the review failed, and an acknowledged issue is not asked again.
THEOREM DecisionsAreSaved == ReviewSpec => DecisionsSaved
<1>1. ReviewInv /\ [ReviewNext]_reviewVars =>
        [saved' # saved =>
           /\ \A c \in kept.changes : saved'.db.changes[c].status # "pending_review"
           /\ \A i \in kept.tasks : saved'.db.tasks[i] # "pending_review"
           /\ \A i \in Issue : saved.db.tasks[i] = "resolved" =>
                saved'.db.tasks[i] # "pending_review"]_reviewVars
  BY SavedRecords
<1>2. ReviewSpec => [][ReviewNext]_reviewVars
  BY DEF ReviewSpec
<1> QED
  BY <1>1, <1>2, ReviewInvariant, PTL DEF DecisionsSaved

\* An archive whose last revision failed is the document the person had, with the decisions.
LEMMA FailedRestores ==
  ASSUME ReviewInv, [ReviewNext]_reviewVars, saved' # saved,
         Last(saved'.db.revs).phase = "failed"
  PROVE  /\ saved'.db.entry = saved.db.entry /\ saved'.db.status = saved.db.status
         /\ saved'.db.tasks = Decide(saved.db, kept).tasks
         /\ saved'.db.changes = Decide(saved.db, kept).changes
         /\ saved'.db.out = (IF saved.db.out = Working THEN Copy(saved.bytes) ELSE saved.db.out)
<1> DEFINE F == Found(task, saved, kept)
           b == Snapshot(task, saved, kept)
<1>1. Pack
  BY OnlyPackSaves
<1>2. /\ live \in Database /\ saved'.db = live /\ owned = Len(live.revs)
      /\ live.revs[owned].phase = "failed" => task.kind = "review" /\ Body(live) = b
  BY <1>1, PackIs
<1>3. task.kind = "review" /\ Body(live) = b
  BY <1>2 DEF Last
<1>4. pc # "idle"
  BY <1>1 DEF Pack
<1>5. /\ task \in Command /\ saved.db \in Database /\ ArchiveOK(saved)
      /\ Fits(kept, task, saved.db) /\ saved.bytes \in Nat
      /\ kept \in [changes : SUBSET Nat, tasks : SUBSET Issue]
  BY <1>4, Running
<1>6. /\ b.status = F.status /\ b.entry = F.entry /\ b.changes = F.changes /\ b.tasks = F.tasks
      /\ b.out = IF saved.db.out = Working THEN Copy(saved.bytes) ELSE saved.db.out
  BY <1>5, SnapshotIs
<1>7. F.status = saved.db.status /\ F.entry = saved.db.entry /\ F = Decide(saved.db, kept)
  BY <1>3, <1>5, FoundIs
<1>8. /\ Body(live).status = live.status /\ Body(live).entry = live.entry
      /\ Body(live).changes = live.changes /\ Body(live).tasks = live.tasks
      /\ Body(live).out = live.out
  BY DEF Body
<1> HIDE DEF F, b
<1> QED
  BY <1>2, <1>3, <1>6, <1>7, <1>8

\* A row that a transition of the last one leaves published.
LEMMA PublishedStays ==
  ASSUME ReviewInv, [ReviewNext]_reviewVars, live # NoTxn, live' # NoTxn,
         NEW i \in DOMAIN live.revs, live.revs[i].phase = "published"
  PROVE  live'.revs[i].phase = "published"
<1>1. pc # "idle"
  BY DEF ReviewInv, AttemptAt
<1>2. CASE live' = live
  BY <1>2
<1>3. CASE Start \/ SyncRun
  <2>1. pc \in Prepared /\ pc' \in Begun /\ live' = txn' /\ owned' = owned /\ saved' = saved
    BY <1>3 DEF Start, SyncRun, Prepared, Begun, workerVars
  <2>2. live = saved.db
    BY <2>1, PreparedIs
  <2>3. Grown(txn', owned', saved'.db)
    <3>1. ReviewInv'
      BY ReviewStepKeeps
    <3> QED
      BY <2>1, <3>1 DEF ReviewInv, BegunAt, Consistent
  <2> QED
    BY <2>1, <2>2, <2>3 DEF Grown
<1>4. CASE TagReady \/ TagFails
  <2>1. txn \in Database /\ live = txn
    <3>1. pc \in Begun
      BY <1>4 DEF TagReady, TagFails, Begun
    <3> QED
      BY <3>1, BegunIs
  <2>2. live'.revs = txn.revs
    BY <1>4, <2>1 DEF TagReady, TagFails, Database
  <2> QED
    BY <2>1, <2>2
<1>5. CASE Publish /\ live' # live
  <2>1. /\ txn \in Database /\ owned \in DOMAIN txn.revs /\ live = txn
    <3>1. pc \in Begun
      BY <1>5 DEF Publish, Begun
    <3> QED
      BY <3>1, BegunIs
  <2>2. live' = [Phase(txn, owned, "published") EXCEPT !.revs[owned].published = txn.out]
    BY <1>5 DEF Publish
  <2> DEFINE e == [Phase(txn, owned, "published") EXCEPT !.revs[owned].published = txn.out]
  <2>3. txn \in Database /\ owned \in DOMAIN txn.revs
    BY <2>1
  <2>4. e.revs = [txn.revs EXCEPT ![owned] = e.revs[owned]] /\ e.revs[owned].phase = "published"
    BY <2>3, PublishedRow
  <2> HIDE DEF e
  <2>5. live' = e
    BY <2>2 DEF e
  <2> QED
    BY <2>1, <2>4, <2>5
<1>6. CASE Compensate /\ live' # live
  <2>1. txn \in Database /\ owned \in DOMAIN txn.revs /\ live = txn
    <3>1. pc \in Begun
      BY <1>6 DEF Compensate, Begun
    <3> QED
      BY <3>1, BegunIs
  <2> DEFINE a == Phase(txn, owned, "failed")
             b == txn.revs[owned].before
  <2>2. /\ txn.revs[owned].phase = "running"
        /\ live' = [a EXCEPT !.status = b.status, !.out = b.out, !.entry = b.entry,
                             !.changes = b.changes, !.tasks = b.tasks, !.steps = b.steps]
    BY <1>6, <2>1 DEF Compensate
  <2>3. a = Phase(txn, owned, "failed") /\ "failed" \in {"prepared", "running"} \cup Ended
    BY DEF Ended
  <2> HIDE DEF a, b
  <2>4. a \in Database /\ a.revs = [txn.revs EXCEPT ![owned] = a.revs[owned]]
    BY <2>1, <2>3, PhaseIs
  <2>5. live'.revs = a.revs
    BY <2>2, <2>4 DEF Database
  <2>6. i # owned
    BY <2>1, <2>2
  <2> QED
    BY <2>1, <2>4, <2>5, <2>6
<1>7. CASE Prune
  <2>1. txn \in Database /\ live = txn
    <3>1. pc = "prune"
      BY <1>7 DEF Prune
    <3> QED
      BY <3>1, ClosingIs
  <2> DEFINE keep == KeptFiles(txn)
             revs == [j \in DOMAIN txn.revs |-> Retired(txn.revs[j], keep)]
  <2>2. live' = [txn EXCEPT !.revs = revs]
    BY <1>7 DEF Prune
  <2>3. i \in DOMAIN txn.revs /\ txn.revs[i] \in RevisionRow
    BY <2>1 DEF Database
  <2> HIDE DEF keep
  <2>4. revs[i].phase = txn.revs[i].phase
    BY <2>3, RetiredIs
  <2> HIDE DEF revs
  <2>5. live'.revs = revs
    BY <2>1, <2>2 DEF Database
  <2> QED
    BY <2>1, <2>4, <2>5
<1>8. ASSUME live' # live
      PROVE  Start \/ SyncRun \/ TagReady \/ TagFails \/ Publish \/ Compensate \/ Prune
  <2>1. ~(UNCHANGED reviewVars)
    BY <1>8 DEF reviewVars
  <2>2. ~(Keep \/ QueueReview \/ QueueSync \/ Dies \/ Refused \/ Error \/ PruneRaises \/ Pack)
    BY <1>8 DEF Keep, QueueReview, QueueSync, Dies, Refused, Error, PruneRaises, Pack
  <2>3. ~(Unpack \/ ReviewOverrides \/ Prepare \/ SyncOverrides \/ Act \/ Unlink)
    BY <1>1, <1>8 DEF Unpack, ReviewOverrides, Overrides, Prepare, SyncOverrides, Act, Unlink
  <2> QED
    BY <2>1, <2>2, <2>3 DEF ReviewNext, Attempt
<1> QED
  BY <1>2, <1>3, <1>4, <1>5, <1>6, <1>7, <1>8

\* A review that failed leaves every row as it was, and the PDF of that time; a revision
\* that was published stays published, whatever raises after.
THEOREM FailuresRestore == ReviewSpec => FailureRestores
<1>1. ReviewInv /\ [ReviewNext]_reviewVars =>
        [/\ saved' # saved /\ Last(saved'.db.revs).phase = "failed" =>
              /\ saved'.db.entry = saved.db.entry /\ saved'.db.status = saved.db.status
              /\ saved'.db.tasks = Decide(saved.db, kept).tasks
              /\ saved'.db.changes = Decide(saved.db, kept).changes
              /\ saved'.db.out =
                   (IF saved.db.out = Working THEN Copy(saved.bytes) ELSE saved.db.out)
         /\ live # NoTxn /\ live' # NoTxn =>
              \A i \in DOMAIN live.revs :
                live.revs[i].phase = "published" => live'.revs[i].phase = "published"]_reviewVars
  BY FailedRestores, PublishedStays
<1>2. ReviewSpec => [][ReviewNext]_reviewVars
  BY DEF ReviewSpec
<1> QED
  BY <1>1, <1>2, ReviewInvariant, PTL DEF FailureRestores

================================================================================
