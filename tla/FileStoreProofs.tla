---------------------------- MODULE FileStoreProofs ----------------------------
(***************************************************************************)
(* Proofs about the files behind the jobs: what a job needs in R2 is never *)
(* among what any deletion, asked for or under way, may take.  The argument *)
(* does not follow a cleaner: it looks at every prefix that is doomed, by a *)
(* row of the cleanup table or by a call of cleanFiles that has read one,   *)
(* and shows that such a prefix is deletable and stays so, whatever happens *)
(* between two steps of the call.                                           *)
(***************************************************************************)
EXTENDS FileStore, TLAPS

------------------------------------------------------------------------------
(* The inductive invariant *)

CleanerRow ==
  [ todo : SUBSET Prefix, at : Prefix \cup {<<>>},
    phase : {"resting", "list", "delete", "look"}, seen : SUBSET Prefix ]

StoreTypeOK ==
  /\ rows \in [Job -> FileRow]
  /\ uploads \in [Job -> [state : {"none", "receiving", "stored"}, expired : BOOLEAN]]
  /\ writes \subseteq [prefix : Prefix, slot : Slot \cup {0}]
  /\ cleanup \in [Prefix -> {"none", "waiting", "due"}]
  /\ objects \subseteq Prefix
  /\ sending \in
       [Job -> {"none", "transfer", "stored", "calling", "failed", "over"}]
  /\ creating \subseteq Job
  /\ puts \subseteq [prefix : Prefix, slot : Slot]
  /\ complete \subseteq Prefix
  /\ cleaners \in [Caller -> CleanerRow]

\* A cleaner that works has a prefix, and has listed only what is under it.
CleanerOK(c) ==
  /\ c.phase # "resting" => c.at \in Prefix
  /\ c.phase = "resting" => c.todo = {}
  /\ c.phase # "delete" => c.seen = {}
  /\ c.phase = "delete" => \A k \in c.seen : Under(k, c.at)

\* Revisions are given out in order and once, and what is served is spent.
RowOK(r) ==
  /\ r.life # "live" => r.next = 0 /\ r.rev = 0 /\ r.given = 0
  /\ r.next # 0 => r.next = r.given /\ r.next \notin r.spent
  /\ r.rev # 0 => r.rev \in r.spent
  /\ \A n \in r.spent : 0 < n /\ n <= r.given
  /\ r.has_state => r.rev # 0

\* What cleanFiles may still delete.
Aims(c) == IF c.phase = "resting" THEN {} ELSE c.todo \cup {c.at}

Doomed ==
  {p \in Prefix : cleanup[p] # "none" \/ \E who \in Caller : p \in Aims(cleaners[who])}

\* A revision nobody can come to need: given, not served, not on its way.
Deletable(r, n) ==
  r.life # "gone" => n <= r.given /\ (n = r.next => r.lapsed) /\ n # r.rev

\* An id whose job is not there and cannot come any more.
Over(j) == rows[j].life # "live" /\ uploads[j].state = "none" /\ sending[j] # "none"

SafeToDelete(p) == IF p[2] = 0 THEN Over(p[1]) ELSE Deletable(rows[p[1]], p[2])

\* A reservation is made once, by the id's only request, and goes with the job.
UploadOK(j) ==
  /\ sending[j] = "none" => uploads[j].state = "none" /\ rows[j].life = "absent"
  /\ rows[j].life # "absent" => uploads[j].state = "none"

\* Who counts on the input: the job, or the upload that may still become one.
NeedsInput(j) ==
  \/ rows[j].life = "live"
  \/ uploads[j].state = "stored"
  \/ sending[j] = "stored" /\ uploads[j].state # "none"

\* A completion whose files are confirmed, with the lease that may publish them.
NeedsNext(j) == rows[j].next # 0 /\ ~rows[j].lapsed /\ NextKey(j) \in complete

FilesThere(j) ==
  /\ NeedsInput(j) => Whole(j) \in objects
  /\ rows[j].has_state => <<j, rows[j].rev>> \in objects
  /\ NeedsNext(j) => NextKey(j) \in objects

\* Only revisions that were given have files.
GivenKey(k) == k[2] # 0 /\ (rows[k[1]].life # "gone" => k[2] <= rows[k[1]].given)

StoreInv ==
  /\ StoreTypeOK
  /\ \A who \in Caller : CleanerOK(cleaners[who])
  /\ \A j \in Job : RowOK(rows[j]) /\ UploadOK(j) /\ FilesThere(j)
  /\ \A k \in complete : GivenKey(k)
  /\ \A w \in puts : GivenKey(w.prefix)
  /\ \A p \in Doomed : SafeToDelete(p)

------------------------------------------------------------------------------
(* Keys and prefixes *)

\* A key is under its own prefix and under its job's, and under no other.
LEMMA UnderOwn ==
  ASSUME NEW k \in Prefix, NEW p \in Prefix, Under(k, p)
  PROVE  p = Whole(k[1]) \/ p = k
BY DEF Under, Whole, Prefix

\* The whole of a job is a prefix, and the revision a job stages is one.
LEMMA KeysArePrefixes ==
  ASSUME NEW j \in Job, rows \in [Job -> FileRow]
  PROVE  /\ Whole(j) \in Prefix /\ Whole(j)[1] = j /\ Whole(j)[2] = 0
         /\ NextKey(j) \in Prefix /\ NextKey(j)[1] = j /\ NextKey(j)[2] = rows[j].next
         /\ <<j, rows[j].rev>> \in Prefix
<1>1. MaxRev \in Nat
  BY RevisionLimits
<1>2. rows[j] \in FileRow
  OBVIOUS
<1>3. rows[j].next \in Rev /\ rows[j].rev \in Rev /\ 0 \in Rev
  BY <1>1, <1>2 DEF FileRow, Rev
<1> QED
  BY <1>3 DEF Whole, NextKey, Prefix

\* A row of cleanup that is new is one of the prefixes asked for.
LEMMA RequestedOnly ==
  ASSUME NEW c \in [Prefix -> {"none", "waiting", "due"}], NEW prefixes,
         NEW when \in {"waiting", "due"}
  PROVE  /\ RequestCleanup(c, prefixes, when) \in [Prefix -> {"none", "waiting", "due"}]
         /\ \A p \in Prefix :
              RequestCleanup(c, prefixes, when)[p] # "none" => c[p] # "none" \/ p \in prefixes
BY DEF RequestCleanup

------------------------------------------------------------------------------
(* One job's row *)

\* What a handler of this module does to a row: every step of Revisions but the
\* late renewal.
FileStep(r, s) ==
  \/ s \in Creates(r) \/ s \in Deletes(r) \/ s \in Claims(r) \/ s \in Lapses(r)
  \/ \E saved \in BOOLEAN : s \in Publishes(r, saved)
  \/ s \in Seals(r) \/ s \in Refuses(r) \/ s \in Ends(r) \/ s = r

\* Two rows whose revisions, lease and life are those of a step.
RowChange(r, s) ==
  \/ \* created
     r.life = "absent" /\ s.life = "live" /\ s.next = 0 /\ s.given = 0 /\ s.rev = 0
     /\ (s.has_state <=> FALSE) /\ s.spent = {}
  \/ \* deleted
     r.life = "live" /\ s.life = "gone" /\ s.next = 0 /\ s.given = 0 /\ s.rev = 0
     /\ (s.has_state <=> FALSE) /\ s.spent = {}
  \/ \* claimed
     r.life = "live" /\ s.life = "live" /\ r.next = 0 /\ s.given = r.given + 1 /\ s.next = s.given
     /\ s.rev = r.rev /\ (s.has_state <=> r.has_state) /\ s.spent = r.spent
  \/ \* the lease still held, perhaps lapsed since
     s.life = r.life /\ s.next = r.next /\ (r.lapsed => s.lapsed) /\ s.given = r.given
     /\ s.rev = r.rev /\ (s.has_state <=> r.has_state) /\ s.spent = r.spent
  \/ \* released
     r.next # 0 /\ s.life = r.life /\ s.next = 0 /\ s.given = r.given
     /\ s.rev = r.rev /\ (s.has_state <=> r.has_state)
     /\ (s.spent = r.spent \/ s.spent = r.spent \cup {r.next})
  \/ \* published
     r.next # 0 /\ ~r.lapsed /\ s.life = r.life /\ s.next = 0 /\ s.given = r.given
     /\ s.rev = r.next /\ s.spent = r.spent \cup {r.next}

\* The row of a job that is not there, or is there with nothing yet, is a row.
LEMMA BlankRow ==
  ASSUME NEW life \in {"absent", "live", "gone"}
  PROVE  Blank(life) \in FileRow
<1>1. 0 \in Rev
  BY RevisionLimits DEF Rev
<1> QED
  BY <1>1 DEF Blank, FileRow

\* A row stays a row when its task is released.
LEMMA ReleasedRow ==
  ASSUME NEW r \in FileRow
  PROVE  Released(r) \in FileRow
<1>1. 0 \in Rev
  BY RevisionLimits DEF Rev
<1> QED
  BY <1>1 DEF Released, FileRow

\* The outcomes of Revisions are rows, and change as RowChange says.
LEMMA StepsChange ==
  ASSUME NEW r \in FileRow, NEW s, FileStep(r, s)
  PROVE  s \in FileRow /\ RowChange(r, s)
<1>0. MaxRev \in Nat /\ Late \in BOOLEAN
  BY RevisionLimits
<1>1. r.rev \in Nat /\ r.next \in Nat /\ r.given \in Nat
  BY <1>0 DEF FileRow, Rev
<1>2. CASE s \in Creates(r) \/ s \in Deletes(r)
  <2>1. \/ r.life = "absent" /\ s = Blank("live")
        \/ r.life = "live" /\ s = Blank("gone")
    BY <1>2 DEF Creates, Deletes, When
  <2>2. s \in FileRow
    BY <2>1, BlankRow
  <2>3. s.next = 0 /\ s.given = 0 /\ s.rev = 0 /\ s.has_state = FALSE /\ s.spent = {}
    BY <2>1 DEF Blank
  <2>4. \/ r.life = "absent" /\ s.life = "live"
        \/ r.life = "live" /\ s.life = "gone"
    BY <2>1 DEF Blank
  <2> QED
    BY <2>2, <2>3, <2>4 DEF RowChange
<1>3. CASE s \in Claims(r)
  <2>1. r.life = "live" /\ r.next = 0 /\ r.given < MaxRev
    BY <1>3 DEF Claims, When
  <2>2. PICK late \in {FALSE, Late} :
          s = [r EXCEPT !.given = r.given + 1, !.next = r.given + 1, !.lapsed = late]
    BY <1>3 DEF Claims, When
  <2>3. r.given + 1 \in Rev
    BY <1>0, <1>1, <2>1 DEF Rev
  <2>7. late \in BOOLEAN
    BY <1>0, Zenon
  <2>4. s \in FileRow
    BY <2>2, <2>3, <2>7 DEF FileRow
  <2>5. s.life = r.life /\ s.given = r.given + 1 /\ s.next = s.given /\ s.rev = r.rev
        /\ s.spent = r.spent
    BY <2>2 DEF FileRow
  <2>6. s.has_state = r.has_state
    BY <2>2 DEF FileRow
  <2> QED
    BY <2>1, <2>4, <2>5, <2>6 DEF RowChange
<1>4. CASE s \in Lapses(r) \/ s \in Seals(r) \/ s = r
  BY <1>0, <1>4 DEF Lapses, Seals, When, FileRow, Rev, RowChange
<1>5. CASE \E saved \in BOOLEAN : s \in Publishes(r, saved)
  <2>1. PICK saved \in BOOLEAN : s \in Publishes(r, saved)
    BY <1>5
  <2>2. /\ r.next # 0 /\ ~r.lapsed
        /\ s = [Released(r) EXCEPT !.rev = r.next, !.has_state = saved,
                                   !.spent = r.spent \cup {r.next}]
    BY <2>1 DEF Publishes, When
  <2>3. s \in FileRow
    <3>1. Released(r) \in FileRow /\ r.spent \cup {r.next} \in SUBSET Rev /\ r.next \in Rev
      BY ReleasedRow DEF FileRow
    <3> QED
      BY <2>2, <3>1 DEF FileRow
  <2>4. s.life = r.life /\ s.next = 0 /\ s.given = r.given /\ s.rev = r.next
        /\ s.spent = r.spent \cup {r.next}
    BY <2>2 DEF Released, FileRow
  <2> QED
    BY <2>2, <2>3, <2>4 DEF RowChange
<1>6. CASE s \in Refuses(r) \/ s \in Ends(r)
  <2>1. /\ r.next # 0
        /\ \/ s = [Released(r) EXCEPT !.spent = r.spent \cup {r.next}]
           \/ s = Released(r)
    BY <1>6 DEF Refuses, Ends, Holds, When
  <2>2. s \in FileRow
    <3>1. Released(r) \in FileRow /\ r.spent \cup {r.next} \in SUBSET Rev
      BY ReleasedRow DEF FileRow
    <3> QED
      BY <2>1, <3>1 DEF FileRow
  <2>3. s.life = r.life /\ s.next = 0 /\ s.given = r.given /\ s.rev = r.rev
        /\ (s.spent = r.spent \/ s.spent = r.spent \cup {r.next})
    BY <2>1 DEF Released, FileRow
  <2>4. s.has_state = r.has_state
    BY <2>1 DEF Released, FileRow
  <2> QED
    BY <2>1, <2>2, <2>3, <2>4 DEF RowChange
<1> QED
  BY <1>2, <1>3, <1>4, <1>5, <1>6 DEF FileStep

\* A step keeps the order in which revisions are given out.
LEMMA RowKept ==
  ASSUME NEW r \in FileRow, NEW s \in FileRow, RowOK(r), RowChange(r, s)
  PROVE  RowOK(s)
<1>1. /\ r.rev \in Nat /\ r.next \in Nat /\ r.given \in Nat /\ r.spent \subseteq Nat
      /\ s.rev \in Nat /\ s.next \in Nat /\ s.given \in Nat /\ s.spent \subseteq Nat
  BY RevisionLimits DEF FileRow, Rev
<1> QED
  BY <1>1 DEF RowOK, RowChange

\* A revision that nobody can come to need stays one.
LEMMA DeletableStays ==
  ASSUME NEW r \in FileRow, NEW s \in FileRow, RowOK(r), RowChange(r, s),
         NEW n \in Rev, n # 0, Deletable(r, n)
  PROVE  Deletable(s, n)
<1>1. /\ r.rev \in Nat /\ r.next \in Nat /\ r.given \in Nat /\ r.spent \subseteq Nat
      /\ s.rev \in Nat /\ s.next \in Nat /\ s.given \in Nat /\ s.spent \subseteq Nat
      /\ n \in Nat
  BY RevisionLimits DEF FileRow, Rev
<1>2. r.life \in {"absent", "live", "gone"} /\ s.life \in {"absent", "live", "gone"}
  BY DEF FileRow
<1> QED
  BY <1>1, <1>2 DEF RowOK, RowChange, Deletable

\* A job that is gone stays gone, and one that comes has no revision yet.
LEMMA LifeGoesOn ==
  ASSUME NEW r \in FileRow, NEW s \in FileRow, RowOK(r), RowChange(r, s)
  PROVE  /\ r.life = "gone" => s.life = "gone"
         /\ s.life = "absent" => r.life = "absent"
         /\ s.life = "gone" => r.life # "absent"
         /\ s.life # "gone" => r.given <= s.given \/ r.life = "gone"
<1>1. r.given \in Nat /\ s.given \in Nat
  BY RevisionLimits DEF FileRow, Rev
<1>2. r.life \in {"absent", "live", "gone"} /\ s.life \in {"absent", "live", "gone"}
  BY DEF FileRow
<1>3. /\ r.life = "gone" => s.life = "gone"
      /\ s.life = "absent" => r.life = "absent"
      /\ s.life = "gone" => r.life # "absent"
  BY <1>2 DEF RowChange
<1>4. s.life # "gone" => r.given <= s.given \/ r.life = "gone"
  BY <1>1, <1>2 DEF RowChange, RowOK
<1> QED
  BY <1>3, <1>4

------------------------------------------------------------------------------
(* What every step does to the files, and why that keeps the invariant *)

\* An id's upload only moves forward, and a job comes from a stored upload.
UploadChange(j) ==
  /\ sending[j] # "none" => sending'[j] # "none"
  /\ sending[j] # "none" /\ uploads[j].state = "none" => uploads'[j].state = "none"
  /\ rows'[j].life = "live" => rows[j].life = "live" \/ uploads[j].state = "stored"
  /\ UploadOK(j)'
  /\ NeedsInput(j)' => NeedsInput(j) \/ Whole(j) \in objects'

\* What is served from now on has its manifest confirmed.
ServesConfirmed(j) ==
  rows'[j].has_state /\ rows'[j].rev # rows[j].rev => NextKey(j) \in complete

Careful ==
  /\ StoreTypeOK'
  /\ \A who \in Caller : CleanerOK(cleaners'[who])
  /\ \A j \in Job : RowChange(rows[j], rows'[j])
  /\ \A j \in Job : UploadChange(j)
  /\ \A j \in Job : ServesConfirmed(j)
  /\ \A k \in objects : k \in objects' \/ \E p \in Doomed : Under(k, p)
  /\ \A k \in complete' : k \in complete \/ (GivenKey(k)' /\ k \in objects')
  /\ \A w \in puts' : w \in puts \/ GivenKey(w.prefix)'
  /\ \A p \in Doomed' : p \in Doomed \/ SafeToDelete(p)'

\* The tables' rows are what their types say.
LEMMA RowTypes ==
  ASSUME StoreTypeOK, NEW j \in Job
  PROVE  /\ rows[j] \in FileRow
         /\ uploads[j] \in [state : {"none", "receiving", "stored"}, expired : BOOLEAN]
         /\ rows[j].life \in {"absent", "live", "gone"}
         /\ rows[j].next \in Nat /\ rows[j].rev \in Nat /\ rows[j].given \in Nat
BY RevisionLimits DEF StoreTypeOK, FileRow, Rev

\* What may be deleted may be deleted at every later time: the id's request has
\* made its only reservation, and a revision is given out once.
LEMMA SafeStays ==
  ASSUME StoreInv, Careful, NEW p \in Doomed
  PROVE  SafeToDelete(p)'
<1>1. p \in Prefix /\ p[1] \in Job /\ p[2] \in Rev
  BY DEF Doomed, Prefix
<1>2. SafeToDelete(p)
  BY DEF StoreInv
<1>3. rows[p[1]] \in FileRow /\ rows'[p[1]] \in FileRow
  BY <1>1 DEF StoreInv, Careful, StoreTypeOK
<1>4. RowOK(rows[p[1]]) /\ RowChange(rows[p[1]], rows'[p[1]]) /\ UploadChange(p[1])
  BY <1>1 DEF StoreInv, Careful
<1>5. CASE p[2] = 0
  <2>1. Over(p[1])
    BY <1>2, <1>5 DEF SafeToDelete
  <2>2. Over(p[1])'
    BY <1>4, <2>1 DEF Over, UploadChange
  <2> QED
    BY <1>5, <2>2 DEF SafeToDelete
<1>6. CASE p[2] # 0
  <2>1. Deletable(rows[p[1]], p[2])
    BY <1>2, <1>6 DEF SafeToDelete
  <2>2. Deletable(rows'[p[1]], p[2])
    BY <1>1, <1>3, <1>4, <1>6, <2>1, DeletableStays
  <2> QED
    BY <1>6, <2>2 DEF SafeToDelete
<1> QED
  BY <1>5, <1>6

\* What a job counts on is under no doomed prefix.
LEMMA NeededIsNotDoomed ==
  ASSUME StoreInv, NEW j \in Job, NEW p \in Doomed
  PROVE  /\ NeedsInput(j) => ~Under(Whole(j), p)
         /\ rows[j].has_state => ~Under(<<j, rows[j].rev>>, p)
         /\ NeedsNext(j) => ~Under(NextKey(j), p)
<1>1. p \in Prefix /\ SafeToDelete(p)
  BY DEF Doomed, StoreInv
<1>2. /\ Whole(j) \in Prefix /\ Whole(j)[1] = j /\ Whole(j)[2] = 0
      /\ NextKey(j) \in Prefix /\ NextKey(j)[1] = j /\ NextKey(j)[2] = rows[j].next
      /\ <<j, rows[j].rev>> \in Prefix
  BY KeysArePrefixes DEF StoreInv, StoreTypeOK
<1>3. RowOK(rows[j]) /\ UploadOK(j)
  BY DEF StoreInv
<1>4. NeedsInput(j) => p # Whole(j)
  BY <1>1, <1>2 DEF NeedsInput, SafeToDelete, Over
<1>5. rows[j].has_state \/ rows[j].next # 0 => rows[j].life = "live"
  BY <1>3 DEF RowOK
<1>6. rows[j].life = "live" => p # Whole(j)
  BY <1>4 DEF NeedsInput
<1>7. rows[j].has_state => p # <<j, rows[j].rev>>
  BY <1>1, <1>3, <1>5 DEF RowOK, SafeToDelete, Deletable
<1>8. NeedsNext(j) => p # NextKey(j)
  BY <1>1, <1>2, <1>5 DEF NeedsNext, SafeToDelete, Deletable
<1>9. <<j, rows[j].rev>>[1] = j
  OBVIOUS
<1>10. NeedsInput(j) => ~Under(Whole(j), p)
  BY <1>1, <1>2, <1>4, UnderOwn
<1>11. rows[j].has_state => ~Under(<<j, rows[j].rev>>, p)
  BY <1>1, <1>2, <1>5, <1>6, <1>7, <1>9, UnderOwn
<1>12. NeedsNext(j) => ~Under(NextKey(j), p)
  BY <1>1, <1>2, <1>5, <1>6, <1>8, UnderOwn DEF NeedsNext
<1> QED
  BY <1>10, <1>11, <1>12

\* So what a job counts on after a step is there after it.
LEMMA FilesStay ==
  ASSUME StoreInv, Careful, NEW j \in Job
  PROVE  FilesThere(j)'
<1>1. RowOK(rows[j]) /\ FilesThere(j)
  BY DEF StoreInv
<1>2. /\ RowChange(rows[j], rows'[j]) /\ UploadChange(j) /\ ServesConfirmed(j)
      /\ rows[j] \in FileRow /\ rows'[j] \in FileRow
  BY DEF Careful, StoreInv, StoreTypeOK
<1>3. /\ NeedsInput(j) => Whole(j) \in objects'
      /\ rows[j].has_state => <<j, rows[j].rev>> \in objects'
      /\ NeedsNext(j) => NextKey(j) \in objects'
  BY <1>1, NeededIsNotDoomed DEF Careful, FilesThere
<1>4. (NeedsInput(j) => Whole(j) \in objects)'
  BY <1>2, <1>3 DEF UploadChange, Whole
<1>5. (rows[j].has_state => <<j, rows[j].rev>> \in objects)'
  <2>1. CASE rows'[j].rev = rows[j].rev
    <3>1. rows'[j].has_state => rows[j].has_state
      BY <1>1, <1>2, <2>1 DEF RowChange, RowOK
    <3> QED
      BY <1>3, <2>1, <3>1
  <2>2. CASE rows'[j].rev # rows[j].rev
    <3>1. rows'[j].has_state => /\ rows[j].next # 0 /\ ~rows[j].lapsed
                                /\ rows'[j].rev = rows[j].next
      BY <1>1, <1>2, <2>2 DEF RowChange, RowOK
    <3>2. rows'[j].has_state => NeedsNext(j)
      BY <1>2, <2>2, <3>1 DEF ServesConfirmed, NeedsNext
    <3> QED
      BY <1>3, <3>1, <3>2 DEF NextKey
  <2> QED
    BY <2>1, <2>2
<1>6. (NeedsNext(j) => NextKey(j) \in objects)'
  <2> SUFFICES ASSUME NeedsNext(j)'
               PROVE  NextKey(j)' \in objects'
    OBVIOUS
  <2>1. rows'[j].next # 0 /\ ~rows'[j].lapsed /\ NextKey(j)' \in complete'
    BY DEF NeedsNext
  <2>2. CASE NextKey(j)' \in complete
    <3>1. GivenKey(NextKey(j)')
      BY <2>2 DEF StoreInv
    <3>2. NextKey(j)' = <<j, rows'[j].next>>
      BY DEF NextKey
    <3>3. rows[j].life # "gone" => rows'[j].next <= rows[j].given
      BY <3>1, <3>2 DEF GivenKey
    <3>4. rows[j].next = rows'[j].next /\ ~rows[j].lapsed
      BY <1>1, <1>2, <2>1, <3>3, RevisionLimits DEF RowChange, RowOK, FileRow, Rev
    <3>5. NeedsNext(j) /\ NextKey(j)' = NextKey(j)
      BY <2>1, <2>2, <3>2, <3>4 DEF NeedsNext, NextKey
    <3> QED
      BY <1>3, <3>5
  <2>3. CASE NextKey(j)' \notin complete
    BY <2>1, <2>3 DEF Careful
  <2> QED
    BY <2>2, <2>3
<1> QED
  BY <1>4, <1>5, <1>6 DEF FilesThere

\* A revision that was given stays given.
LEMMA GivenStays ==
  ASSUME StoreInv, Careful, NEW k \in Prefix, GivenKey(k)
  PROVE  GivenKey(k)'
<1>1. k[1] \in Job /\ k[2] \in Nat
  BY RevisionLimits DEF Prefix, Rev
<1>2. /\ rows[k[1]] \in FileRow /\ rows'[k[1]] \in FileRow
      /\ RowOK(rows[k[1]]) /\ RowChange(rows[k[1]], rows'[k[1]])
  BY <1>1 DEF StoreInv, Careful, StoreTypeOK
<1>3. rows[k[1]].given \in Nat /\ rows'[k[1]].given \in Nat
  BY <1>2, RevisionLimits DEF FileRow, Rev
<1>4. /\ rows[k[1]].life = "gone" => rows'[k[1]].life = "gone"
      /\ rows'[k[1]].life # "gone" =>
           rows[k[1]].given <= rows'[k[1]].given \/ rows[k[1]].life = "gone"
  BY <1>2, LifeGoesOn
<1> QED
  BY <1>1, <1>3, <1>4 DEF GivenKey

\* A step that is careful keeps the invariant.
LEMMA CarefulKeeps ==
  ASSUME StoreInv, Careful
  PROVE  StoreInv'
<1>1. StoreTypeOK' /\ \A who \in Caller : CleanerOK(cleaners'[who])
  BY DEF Careful
<1>2. ASSUME NEW j \in Job
      PROVE  RowOK(rows'[j]) /\ UploadOK(j)' /\ FilesThere(j)'
  <2>1. RowOK(rows'[j])
    BY RowKept DEF StoreInv, Careful, StoreTypeOK
  <2>2. UploadOK(j)'
    BY DEF Careful, UploadChange
  <2> QED
    BY <2>1, <2>2, FilesStay
<1>3. \A k \in complete' : GivenKey(k)'
  <2>1. complete \subseteq Prefix
    BY DEF StoreInv, StoreTypeOK
  <2>2. \A k \in complete : GivenKey(k)'
    BY <2>1, GivenStays DEF StoreInv
  <2> QED
    BY <2>2 DEF Careful
<1>4. \A w \in puts' : GivenKey(w.prefix)'
  <2>1. \A w \in puts : w.prefix \in Prefix
    BY DEF StoreInv, StoreTypeOK
  <2>2. \A w \in puts : GivenKey(w.prefix)'
    BY <2>1, GivenStays DEF StoreInv
  <2> QED
    BY <2>2 DEF Careful
<1>5. \A p \in Doomed' : SafeToDelete(p)'
  BY SafeStays DEF Careful
<1> QED
  BY <1>1, <1>2, <1>3, <1>4, <1>5 DEF StoreInv

------------------------------------------------------------------------------
(* Parts of a step *)

\* The calls of cleanFiles after a step: in order, and after no prefix that was
\* neither doomed before nor in the cleanup table now.
CleanersFollow ==
  /\ cleaners' \in [Caller -> CleanerRow]
  /\ \A who \in Caller : CleanerOK(cleaners'[who])
  /\ \A who \in Caller : \A p \in Aims(cleaners'[who]) :
       p \in Aims(cleaners[who]) \/ (p \in Prefix /\ cleanup'[p] # "none")

\* Then only a prefix asked for by the step is newly doomed.
LEMMA NewlyDoomed ==
  ASSUME StoreInv, CleanersFollow, NEW asked,
         \A p \in Prefix : cleanup'[p] # "none" => cleanup[p] # "none" \/ p \in asked
  PROVE  \A p \in Doomed' : p \in Doomed \/ p \in asked
<1> SUFFICES ASSUME NEW p \in Doomed'
             PROVE  p \in Doomed \/ p \in asked
  OBVIOUS
<1>1. p \in Prefix
  BY DEF Doomed
<1>2. CASE cleanup'[p] # "none"
  BY <1>1, <1>2 DEF Doomed
<1>3. CASE \E who \in Caller : p \in Aims(cleaners'[who])
  BY <1>1, <1>3 DEF Doomed, CleanersFollow
<1> QED
  BY <1>2, <1>3 DEF Doomed

\* A cleaner that rests aims at nothing.
LEMMA RestingRow ==
  Resting \in CleanerRow /\ CleanerOK(Resting) /\ Aims(Resting) = {}
BY DEF Resting, CleanerRow, CleanerOK, Aims

\* Taking the next prefix of a set aims at nothing outside the set.
LEMMA CleaningRow ==
  ASSUME NEW todo \in SUBSET Prefix, NEW c \in Cleaning(todo)
  PROVE  c \in CleanerRow /\ CleanerOK(c) /\ Aims(c) \subseteq todo
<1>1. CASE todo = {}
  BY <1>1, RestingRow DEF Cleaning
<1>2. CASE todo # {}
  <2>1. PICK p \in todo : c = [todo |-> todo \ {p}, at |-> p, phase |-> "list", seen |-> {}]
    BY <1>2 DEF Cleaning
  <2>2. c \in CleanerRow
    BY <2>1 DEF CleanerRow
  <2>3. c.phase = "list" /\ c.at = p /\ c.seen = {} /\ c.todo = todo \ {p}
    BY <2>1
  <2> QED
    BY <2>2, <2>3 DEF CleanerOK, Aims
<1> QED
  BY <1>1, <1>2

\* One cleaner that follows, and the others as they were, all follow.
LEMMA OneCleaner ==
  ASSUME StoreInv, NEW who \in Caller, NEW c \in CleanerRow, CleanerOK(c),
         cleaners' = [cleaners EXCEPT ![who] = c],
         \A p \in Aims(c) :
           p \in Aims(cleaners[who]) \/ (p \in Prefix /\ cleanup'[p] # "none")
  PROVE  CleanersFollow
BY DEF StoreInv, StoreTypeOK, CleanersFollow

\* A handler that ends with cleanFiles aims at rows of the cleanup table.
LEMMA CleaningStarts ==
  ASSUME StoreInv, NEW who \in Caller, StartCleaning(who)
  PROVE  CleanersFollow
<1>1. PICK c \in Cleaning(Due(cleanup')) : cleaners' = [cleaners EXCEPT ![who] = c]
  BY DEF StartCleaning
<1>2. Due(cleanup') \subseteq Prefix /\ \A p \in Due(cleanup') : cleanup'[p] # "none"
  BY DEF Due
<1>3. c \in CleanerRow /\ CleanerOK(c) /\ Aims(c) \subseteq Due(cleanup')
  BY <1>2, CleaningRow
<1> QED
  BY <1>1, <1>2, <1>3, OneCleaner

\* A cleaner that goes on aims at what it had left.
LEMMA CleaningGoesOn ==
  ASSUME StoreInv, NEW who \in Caller, NextPrefix(who)
  PROVE  CleanersFollow
<1>1. PICK c \in Cleaning(cleaners[who].todo) : cleaners' = [cleaners EXCEPT ![who] = c]
  BY DEF NextPrefix
<1>2. cleaners[who].todo \subseteq Prefix
  BY DEF StoreInv, StoreTypeOK, CleanerRow
<1>3. c \in CleanerRow /\ CleanerOK(c) /\ Aims(c) \subseteq cleaners[who].todo
  BY <1>2, CleaningRow
<1>4. cleaners[who].todo \subseteq Aims(cleaners[who])
  BY DEF StoreInv, CleanerOK, Aims
<1> QED
  BY <1>1, <1>3, <1>4, OneCleaner

\* Cleaners that do nothing follow.
LEMMA CleanersRest ==
  ASSUME StoreInv, cleaners' = cleaners
  PROVE  CleanersFollow
BY DEF StoreInv, StoreTypeOK, CleanersFollow

\* A row that takes a step of Revisions, and the others as they were.
LEMMA OneRow ==
  ASSUME StoreInv, NEW j \in Job, NEW s, FileStep(rows[j], s),
         rows' = [rows EXCEPT ![j] = s]
  PROVE  /\ rows' \in [Job -> FileRow]
         /\ rows'[j] = s
         /\ \A i \in Job : RowChange(rows[i], rows'[i])
         /\ \A i \in Job : i # j => rows'[i] = rows[i]
<1>1. rows \in [Job -> FileRow]
  BY DEF StoreInv, StoreTypeOK
<1>2. s \in FileRow /\ RowChange(rows[j], s)
  BY <1>1, StepsChange
<1>3. \A i \in Job : RowChange(rows[i], rows[i])
  BY <1>1, StepsChange DEF FileStep
<1> QED
  BY <1>1, <1>2, <1>3

\* Rows that stay are rows that change by nothing.
LEMMA RowsRest ==
  ASSUME StoreInv, rows' = rows
  PROVE  /\ rows' \in [Job -> FileRow]
         /\ \A i \in Job : RowChange(rows[i], rows'[i]) /\ ServesConfirmed(i)
<1>1. rows \in [Job -> FileRow]
  BY DEF StoreInv, StoreTypeOK
<1> QED
  BY <1>1, StepsChange DEF FileStep, ServesConfirmed

\* Without an upload's step, no job comes to be and no upload moves.
LEMMA UploadsRest ==
  ASSUME StoreInv, NEW j \in Job, uploads'[j] = uploads[j], sending'[j] = sending[j],
         rows'[j] \in FileRow, RowChange(rows[j], rows'[j]),
         rows'[j].life = "live" => rows[j].life = "live"
  PROVE  UploadChange(j)
<1>1. UploadOK(j) /\ RowOK(rows[j]) /\ rows[j] \in FileRow
  BY DEF StoreInv, StoreTypeOK
<1>2. /\ rows[j].life \in {"absent", "live", "gone"}
      /\ rows'[j].life \in {"absent", "live", "gone"}
  BY <1>1 DEF FileRow
<1>3. /\ rows[j].life = "gone" => rows'[j].life = "gone"
      /\ rows'[j].life = "absent" => rows[j].life = "absent"
      /\ rows'[j].life = "gone" => rows[j].life # "absent"
  BY <1>1, LifeGoesOn
<1>4. UploadOK(j)'
  BY <1>1, <1>2, <1>3 DEF UploadOK
<1>5. NeedsInput(j)' => NeedsInput(j)
  BY DEF NeedsInput
<1> QED
  BY <1>4, <1>5 DEF UploadChange

------------------------------------------------------------------------------
(* Three kinds of careful step *)

\* A handler of the board changes rows, and asks for deletions that are safe.
LEMMA BoardIsCareful ==
  ASSUME StoreInv,
         rows' \in [Job -> FileRow],
         \A j \in Job : RowChange(rows[j], rows'[j]) /\ ServesConfirmed(j),
         \A j \in Job : rows'[j].life = "live" => rows[j].life = "live",
         UNCHANGED <<uploads, writes, objects, sending, creating, puts, complete>>,
         cleanup' \in [Prefix -> {"none", "waiting", "due"}],
         CleanersFollow,
         \A p \in Doomed' : p \in Doomed \/ SafeToDelete(p)'
  PROVE  Careful
<1>1. StoreTypeOK'
  BY DEF StoreInv, StoreTypeOK, CleanersFollow
<1>2. \A j \in Job : UploadChange(j)
  BY UploadsRest
<1> QED
  BY <1>1, <1>2 DEF Careful, CleanersFollow

\* A step of a PUT or of a cleaner leaves rows and uploads alone, puts and
\* confirms only files of revisions that were given, and deletes only what is
\* doomed.
LEMMA TransferIsCareful ==
  ASSUME StoreInv,
         UNCHANGED <<rows, uploads, sending, creating>>,
         writes' \subseteq [prefix : Prefix, slot : Slot \cup {0}],
         cleanup' \in [Prefix -> {"none", "waiting", "due"}],
         objects' \subseteq Prefix,
         puts' \subseteq [prefix : Prefix, slot : Slot],
         complete' \subseteq Prefix,
         CleanersFollow,
         \A k \in objects : k \in objects' \/ \E p \in Doomed : Under(k, p),
         \A k \in complete' : k \in complete \/ (GivenKey(k) /\ k \in objects'),
         \A w \in puts' : w \in puts \/ GivenKey(w.prefix),
         \A p \in Doomed' : p \in Doomed \/ SafeToDelete(p)
  PROVE  Careful
<1>1. StoreTypeOK'
  BY DEF StoreInv, StoreTypeOK, CleanersFollow
<1>2. \A j \in Job : RowChange(rows[j], rows'[j]) /\ ServesConfirmed(j)
  BY RowsRest
<1>3. \A j \in Job : UploadChange(j)
  BY <1>1, <1>2, UploadsRest DEF StoreTypeOK
<1>4. \A k \in complete' : k \in complete \/ (GivenKey(k)' /\ k \in objects')
  BY DEF GivenKey
<1>5. \A w \in puts' : w \in puts \/ GivenKey(w.prefix)'
  BY DEF GivenKey
<1>6. \A p \in Doomed' : p \in Doomed \/ SafeToDelete(p)'
  BY DEF SafeToDelete, Over
<1> QED
  BY <1>1, <1>2, <1>3, <1>4, <1>5, <1>6 DEF Careful, CleanersFollow

\* A step of an upload moves that upload, and deletes nothing itself.
LEMMA UploadIsCareful ==
  ASSUME StoreInv, NEW j \in Job,
         rows' \in [Job -> FileRow],
         \A i \in Job : RowChange(rows[i], rows'[i]) /\ ServesConfirmed(i),
         \A i \in Job : i # j => /\ rows'[i] = rows[i] /\ uploads'[i] = uploads[i]
                                 /\ sending'[i] = sending[i],
         uploads' \in
           [Job -> [state : {"none", "receiving", "stored"}, expired : BOOLEAN]],
         writes' \subseteq [prefix : Prefix, slot : Slot \cup {0}],
         objects \subseteq objects', objects' \subseteq Prefix,
         sending' \in
           [Job -> {"none", "transfer", "stored", "calling", "failed", "over"}],
         creating' \subseteq Job,
         cleanup' \in [Prefix -> {"none", "waiting", "due"}],
         UNCHANGED <<puts, complete>>,
         CleanersFollow,
         UploadChange(j),
         \A p \in Doomed' : p \in Doomed \/ SafeToDelete(p)'
  PROVE  Careful
<1>1. StoreTypeOK'
  BY DEF StoreInv, StoreTypeOK, CleanersFollow
<1>2. \A i \in Job : UploadChange(i)
  BY UploadsRest
<1> QED
  BY <1>1, <1>2 DEF Careful, CleanersFollow

------------------------------------------------------------------------------
(* The steps of an upload *)

\* What the types say of one id's upload.
LEMMA UploadTypes ==
  ASSUME StoreInv, NEW j \in Job
  PROVE  /\ Whole(j) \in Prefix /\ UploadWrite(j) \in [prefix : Prefix, slot : Slot \cup {0}]
         /\ uploads \in
              [Job -> [state : {"none", "receiving", "stored"}, expired : BOOLEAN]]
         /\ NoUpload \in [state : {"none", "receiving", "stored"}, expired : BOOLEAN]
         /\ NoUpload.state = "none"
         /\ sending \in
              [Job -> {"none", "transfer", "stored", "calling", "failed", "over"}]
         /\ objects \subseteq Prefix /\ creating \subseteq Job
         /\ writes \subseteq [prefix : Prefix, slot : Slot \cup {0}]
         /\ cleanup \in [Prefix -> {"none", "waiting", "due"}]
         /\ UploadOK(j)
         /\ rows[j].life \in {"absent", "live", "gone"}
<1>1. Whole(j) \in Prefix
  BY KeysArePrefixes DEF StoreInv, StoreTypeOK
<1>2. UploadWrite(j) \in [prefix : Prefix, slot : Slot \cup {0}]
  BY <1>1 DEF UploadWrite
<1>3. NoUpload \in [state : {"none", "receiving", "stored"}, expired : BOOLEAN]
  BY DEF NoUpload
<1> QED
  BY <1>1, <1>2, <1>3, RowTypes DEF StoreInv, StoreTypeOK, NoUpload

\* Rows and cleaners that stay: nothing is newly doomed.
LEMMA NothingAsked ==
  ASSUME StoreInv, UNCHANGED <<cleanup, cleaners>>
  PROVE  CleanersFollow /\ \A p \in Doomed' : p \in Doomed
<1>1. CleanersFollow
  BY CleanersRest
<1>2. \A p \in Doomed' : p \in Doomed \/ p \in {}
  BY <1>1, NewlyDoomed
<1> QED
  BY <1>1, <1>2

\* An id is reserved once: its only request starts.
LEMMA ReserveIsCareful ==
  ASSUME StoreInv, NEW j \in Job, ReserveUpload(j)
  PROVE  Careful
<1>1. /\ rows[j].life = "absent" /\ sending[j] = "none" /\ rows' = rows
      /\ uploads' = [uploads EXCEPT ![j] = [state |-> "receiving", expired |-> FALSE]]
      /\ sending' = [sending EXCEPT ![j] = "transfer"]
      /\ writes' = writes \cup {UploadWrite(j)}
      /\ UNCHANGED <<cleanup, objects, creating, puts, complete, cleaners>>
  BY DEF ReserveUpload
<1>2. uploads'[j].state = "receiving" /\ sending'[j] = "transfer" /\ rows'[j] = rows[j]
  BY <1>1, UploadTypes
<1>3. UploadChange(j)
  BY <1>1, <1>2, UploadTypes DEF UploadChange, UploadOK, NeedsInput
<1>4. CleanersFollow /\ \A p \in Doomed' : p \in Doomed
  BY <1>1, NothingAsked
<1>5. [state |-> "receiving", expired |-> FALSE] \in
        [state : {"none", "receiving", "stored"}, expired : BOOLEAN]
  OBVIOUS
<1> QED
  BY <1>1, <1>3, <1>4, <1>5, RowsRest, UploadTypes, UploadIsCareful

\* A request that moves on, without a word to the board, counts on the input
\* only if it has stored it.
LEMMA SendingIsCareful ==
  ASSUME StoreInv, NEW j \in Job,
         NEW to \in {"stored", "calling", "failed", "over"},
         sending[j] # "none",
         sending' = [sending EXCEPT ![j] = to] \/ sending' = sending,
         to = "stored" => Whole(j) \in objects',
         objects' \in {objects, objects \cup {Whole(j)}},
         creating' \subseteq Job,
         UNCHANGED <<rows, uploads, writes, cleanup, puts, complete, cleaners>>
  PROVE  Careful
<1>1. sending' \in [Job -> {"none", "transfer", "stored", "calling", "failed", "over"}]
  BY UploadTypes
<1>2. sending'[j] # "none" /\ (sending'[j] = to \/ sending'[j] = sending[j])
  BY UploadTypes
<1>3. \A i \in Job : i # j => sending'[i] = sending[i]
  BY UploadTypes
<1>4. UploadOK(j)'
  BY <1>2, UploadTypes DEF UploadOK
<1>5. NeedsInput(j)' => NeedsInput(j) \/ Whole(j) \in objects'
  BY <1>2 DEF NeedsInput
<1>6. UploadChange(j)
  BY <1>2, <1>4, <1>5 DEF UploadChange
<1>7. CleanersFollow /\ \A p \in Doomed' : p \in Doomed
  BY NothingAsked
<1>8. objects \subseteq objects' /\ objects' \subseteq Prefix
  BY UploadTypes
<1> QED
  BY <1>1, <1>3, <1>6, <1>7, <1>8, RowsRest, UploadTypes, UploadIsCareful

\* The transfer stores the input, or fails and may have stored it.
LEMMA TransferEndIsCareful ==
  ASSUME StoreInv, NEW j \in Job, TransferEnds(j)
  PROVE  Careful
<1>1. /\ sending[j] = "transfer"
      /\ UNCHANGED <<rows, uploads, writes, cleanup, creating, puts, complete, cleaners>>
  BY DEF TransferEnds
<1>2. creating' \subseteq Job
  BY <1>1, UploadTypes
<1>3. CASE objects' = objects \cup {Whole(j)} /\ sending' = [sending EXCEPT ![j] = "stored"]
  BY <1>1, <1>2, <1>3, SendingIsCareful
<1>4. CASE /\ objects' \in {objects, objects \cup {Whole(j)}}
           /\ sending' = [sending EXCEPT ![j] = "failed"]
  BY <1>1, <1>2, <1>4, SendingIsCareful
<1> QED
  BY <1>3, <1>4 DEF TransferEnds

\* A request that dies leaves everything else where it is.
LEMMA UploadDeathIsCareful ==
  ASSUME StoreInv, NEW j \in Job, UploadDies(j) \/ LoseCall(j)
  PROVE  Careful
<1>1. /\ sending[j] # "none" /\ objects' \in {objects, objects \cup {Whole(j)}}
      /\ UNCHANGED <<rows, uploads, writes, cleanup, creating, puts, complete, cleaners>>
      /\ \/ sending' = [sending EXCEPT ![j] = "over"]
         \/ sending' = [sending EXCEPT ![j] = "failed"]
  BY DEF UploadDies, LoseCall
<1>2. creating' \subseteq Job
  BY <1>1, UploadTypes
<1> QED
  BY <1>1, <1>2, SendingIsCareful

\* A stored upload is marked once its input is there.
LEMMA MarkIsCareful ==
  ASSUME StoreInv, NEW j \in Job, MarkUploadStored(j)
  PROVE  Careful
<1>1. /\ sending[j] = "stored"
      /\ UNCHANGED <<rows, writes, cleanup, objects, puts, complete, cleaners>>
  BY DEF MarkUploadStored
<1>2. CASE uploads[j].state = "receiving"
  <2>1. /\ uploads' = [uploads EXCEPT ![j].state = "stored"]
        /\ sending' = [sending EXCEPT ![j] = "calling"]
        /\ creating' = creating \cup {j}
    BY <1>2 DEF MarkUploadStored
  <2>2. /\ uploads'[j].state = "stored" /\ sending'[j] = "calling"
        /\ uploads' \in
             [Job -> [state : {"none", "receiving", "stored"}, expired : BOOLEAN]]
    BY <2>1, UploadTypes
  <2>3. NeedsInput(j)
    BY <1>1, <1>2 DEF NeedsInput
  <2>4. UploadChange(j)
    BY <1>1, <1>2, <2>2, <2>3, UploadTypes DEF UploadChange, UploadOK
  <2>5. CleanersFollow /\ \A p \in Doomed' : p \in Doomed
    BY <1>1, NothingAsked
  <2> QED
    BY <1>1, <2>1, <2>2, <2>4, <2>5, RowsRest, UploadTypes, UploadIsCareful
<1>3. CASE uploads[j].state # "receiving"
  <2>1. /\ uploads' = uploads /\ creating' = creating
        /\ sending' = [sending EXCEPT ![j] = "failed"]
    BY <1>3 DEF MarkUploadStored
  <2>2. creating' \subseteq Job
    BY <2>1, UploadTypes
  <2> QED
    BY <1>1, <2>1, <2>2, SendingIsCareful
<1> QED
  BY <1>2, <1>3

\* A job comes to be only from a stored upload, whose reservation it uses up.
LEMMA AdmitIsCareful ==
  ASSUME StoreInv, NEW j \in Job, AdmitUpload(j)
  PROVE  Careful
<1>1. /\ uploads[j].state = "stored"
      /\ uploads' = [uploads EXCEPT ![j] = NoUpload]
      /\ writes' = writes \ {UploadWrite(j)}
      /\ creating' = creating \ {j}
      /\ UNCHANGED <<cleanup, objects, puts, complete, cleaners>>
  BY DEF AdmitUpload, Reserved
<1>2. PICK s \in Creates(rows[j]) : rows' = [rows EXCEPT ![j] = s]
  BY DEF AdmitUpload, Becomes
<1>3. /\ rows' \in [Job -> FileRow] /\ rows'[j] = s
      /\ \A i \in Job : RowChange(rows[i], rows'[i])
      /\ \A i \in Job : i # j => rows'[i] = rows[i]
  BY <1>2, OneRow DEF FileStep
<1>4. rows[j].life = "absent" /\ s.life = "live" /\ ~s.has_state
  BY <1>2 DEF Creates, When, Blank
<1>5. sending[j] # "none"
  BY <1>1, UploadTypes DEF UploadOK
<1>6. \/ sending' = sending
      \/ sending' = [sending EXCEPT ![j] = "over"]
      \/ sending' = [sending EXCEPT ![j] = "failed"]
  BY DEF AdmitUpload, Answered
<1>7. /\ sending' \in [Job -> {"none", "transfer", "stored", "calling", "failed", "over"}]
      /\ sending'[j] # "none"
      /\ \A i \in Job : i # j => sending'[i] = sending[i]
  BY <1>5, <1>6, UploadTypes
<1>8. /\ uploads'[j].state = "none"
      /\ uploads' \in
           [Job -> [state : {"none", "receiving", "stored"}, expired : BOOLEAN]]
  BY <1>1, UploadTypes
<1>9. NeedsInput(j)
  BY <1>1 DEF NeedsInput
<1>10. UploadChange(j)
  BY <1>1, <1>3, <1>4, <1>7, <1>8, <1>9 DEF UploadChange, UploadOK
<1>11. \A i \in Job : ServesConfirmed(i)
  BY <1>3, <1>4 DEF ServesConfirmed
<1>12. CleanersFollow /\ \A p \in Doomed' : p \in Doomed
  BY <1>1, NothingAsked
<1>13. creating' \subseteq Job /\ writes' \subseteq [prefix : Prefix, slot : Slot \cup {0}]
  BY <1>1, UploadTypes
<1>14. \A i \in Job : i # j => uploads'[i] = uploads[i]
  BY <1>1
<1>15. objects \subseteq objects' /\ objects' \subseteq Prefix
  BY <1>1, UploadTypes
<1>16. cleanup' \in [Prefix -> {"none", "waiting", "due"}]
  BY <1>1, UploadTypes
<1> QED
  BY <1>1, <1>3, <1>7, <1>8, <1>10, <1>11, <1>12, <1>13, <1>14, <1>15, <1>16,
     UploadIsCareful

\* A call that is refused changes the request only.
LEMMA RefusalIsCareful ==
  ASSUME StoreInv, NEW j \in Job, RefuseUpload(j)
  PROVE  Careful
<1>1. /\ creating' = creating \ {j}
      /\ UNCHANGED <<rows, uploads, writes, cleanup, objects, puts, complete, cleaners>>
      /\ sending' = sending \/ sending' = [sending EXCEPT ![j] = "failed"]
      /\ sending[j] = "calling" \/ sending' = sending
  BY DEF RefuseUpload, Answered
<1>2. creating' \subseteq Job
  BY <1>1, UploadTypes
<1>3. CASE sending[j] = "calling"
  BY <1>1, <1>2, <1>3, SendingIsCareful
<1>4. CASE sending' = sending
  <2>1. CleanersFollow /\ \A p \in Doomed' : p \in Doomed
    BY <1>1, NothingAsked
  <2>2. UploadChange(j)
    BY <1>1, <1>4, RowsRest, UploadsRest
  <2> QED
    BY <1>1, <1>2, <1>4, <2>1, <2>2, RowsRest, UploadTypes, UploadIsCareful
<1> QED
  BY <1>1, <1>3, <1>4

\* Abandoning an upload asks for the deletion of an id whose job is not there, and
\* takes from a call of createJob still on its way the reservation it needs.
LEMMA AbandonIsCareful ==
  ASSUME StoreInv, NEW j \in Job, AbandonUpload(j)
  PROVE  Careful
<1>1. /\ sending[j] = "failed" /\ sending' = [sending EXCEPT ![j] = "over"]
      /\ UNCHANGED <<rows, objects, creating, puts, complete>>
  BY DEF AbandonUpload
<1>2. CASE rows[j].life = "live"
  <2>1. UNCHANGED <<uploads, writes, cleanup, cleaners>>
    BY <1>2 DEF AbandonUpload
  <2>2. creating' \subseteq Job
    BY <1>1, UploadTypes
  <2> QED
    BY <1>1, <2>1, <2>2, SendingIsCareful
<1>3. CASE rows[j].life # "live"
  <2>1. /\ uploads' = [uploads EXCEPT ![j] = NoUpload]
        /\ writes' = writes \ {UploadWrite(j)}
        /\ cleanup' = RequestCleanup(cleanup, {Whole(j)}, "due")
        /\ StartCleaning(<<"abandon", j>>)
    BY <1>3 DEF AbandonUpload
  <2>2. <<"abandon", j>> \in Caller
    BY DEF Caller
  <2>3. /\ cleanup' \in [Prefix -> {"none", "waiting", "due"}]
        /\ \A p \in Prefix : cleanup'[p] # "none" => cleanup[p] # "none" \/ p \in {Whole(j)}
    BY <2>1, UploadTypes, RequestedOnly
  <2>4. CleanersFollow
    BY <2>1, <2>2, CleaningStarts
  <2>5. /\ uploads'[j].state = "none"
        /\ uploads' \in
             [Job -> [state : {"none", "receiving", "stored"}, expired : BOOLEAN]]
        /\ \A i \in Job : i # j => uploads'[i] = uploads[i]
    BY <2>1, UploadTypes
  <2>6. /\ sending'[j] = "over"
        /\ sending' \in [Job -> {"none", "transfer", "stored", "calling", "failed", "over"}]
        /\ \A i \in Job : i # j => sending'[i] = sending[i]
    BY <1>1, UploadTypes
  <2>7. UploadChange(j)
    BY <1>1, <1>3, <2>5, <2>6 DEF UploadChange, UploadOK, NeedsInput
  <2>8. SafeToDelete(Whole(j))'
    BY <1>1, <1>3, <2>5, <2>6 DEF SafeToDelete, Over, Whole
  <2>9. \A p \in Doomed' : p \in Doomed \/ p \in {Whole(j)}
    BY <2>3, <2>4, NewlyDoomed
  <2>10. \A p \in Doomed' : p \in Doomed \/ SafeToDelete(p)'
    BY <2>8, <2>9
  <2>11. creating' \subseteq Job /\ writes' \subseteq [prefix : Prefix, slot : Slot \cup {0}]
    BY <1>1, <2>1, UploadTypes
  <2>12. objects \subseteq objects' /\ objects' \subseteq Prefix
    BY <1>1, UploadTypes
  <2> QED
    BY <1>1, <2>3, <2>4, <2>5, <2>6, <2>7, <2>10, <2>11, <2>12, RowsRest, UploadIsCareful
<1> QED
  BY <1>2, <1>3

------------------------------------------------------------------------------
(* The steps of a PUT, and of the cleaners *)

\* What the types say of the tables a transfer touches.
LEMMA TransferTypes ==
  ASSUME StoreInv
  PROVE  /\ writes \subseteq [prefix : Prefix, slot : Slot \cup {0}]
         /\ cleanup \in [Prefix -> {"none", "waiting", "due"}]
         /\ objects \subseteq Prefix
         /\ puts \subseteq [prefix : Prefix, slot : Slot]
         /\ complete \subseteq Prefix
BY DEF StoreInv, StoreTypeOK

\* The revision a job stages was given, and nobody has been served it.
LEMMA StagedIsGiven ==
  ASSUME StoreInv, NEW j \in Job, rows[j].next # 0
  PROVE  NextKey(j) \in Prefix /\ GivenKey(NextKey(j))
<1>1. NextKey(j) \in Prefix /\ NextKey(j)[1] = j /\ NextKey(j)[2] = rows[j].next
  BY KeysArePrefixes DEF StoreInv, StoreTypeOK
<1>2. RowOK(rows[j]) /\ rows[j].next \in Nat /\ rows[j].given \in Nat
  BY RowTypes DEF StoreInv
<1> QED
  BY <1>1, <1>2 DEF GivenKey, RowOK

\* A PUT begins, for the revision its task stages.
LEMMA BeginIsCareful ==
  ASSUME StoreInv, NEW j \in Job, NEW s \in Slot, BeginArtifactUpload(j, s)
  PROVE  Careful
<1> DEFINE w == [prefix |-> NextKey(j), slot |-> s]
<1>1. /\ rows[j].next # 0 /\ puts' = puts \cup {w} /\ writes' = writes \cup {w}
      /\ UNCHANGED <<rows, uploads, cleanup, objects, sending, creating, complete, cleaners>>
  BY DEF BeginArtifactUpload, Holds
<1>2. w \in [prefix : Prefix, slot : Slot] /\ w \in [prefix : Prefix, slot : Slot \cup {0}]
  BY <1>1, StagedIsGiven
<1>3. GivenKey(w.prefix)
  BY <1>1, StagedIsGiven
<1> HIDE DEF w
<1>4. CleanersFollow /\ \A p \in Doomed' : p \in Doomed
  BY <1>1, NothingAsked
<1>5. /\ puts' \subseteq [prefix : Prefix, slot : Slot]
      /\ writes' \subseteq [prefix : Prefix, slot : Slot \cup {0}]
  BY <1>1, <1>2, TransferTypes
<1>6. \A u \in puts' : u \in puts \/ GivenKey(u.prefix)
  BY <1>1, <1>3
<1> QED
  BY <1>1, <1>4, <1>5, <1>6, TransferTypes, TransferIsCareful

\* A PUT that lands stores its own file; one that dies releases nothing.
LEMMA PutIsCareful ==
  ASSUME StoreInv, NEW w \in puts, PutLands(w) \/ PutDies(w)
  PROVE  Careful
<1>1. /\ puts' \subseteq puts /\ objects' \in {objects, objects \cup {w.prefix}}
      /\ UNCHANGED <<rows, uploads, writes, cleanup, sending, creating, complete, cleaners>>
  BY DEF PutLands, PutDies
<1>2. w.prefix \in Prefix
  BY TransferTypes
<1>3. CleanersFollow /\ \A p \in Doomed' : p \in Doomed
  BY <1>1, NothingAsked
<1>4. objects \subseteq objects' /\ objects' \subseteq Prefix
  BY <1>1, <1>2, TransferTypes
<1>5. puts' \subseteq [prefix : Prefix, slot : Slot]
  BY <1>1, TransferTypes
<1>6. \A u \in puts' : u \in puts
  BY <1>1
<1> QED
  BY <1>1, <1>3, <1>4, <1>5, <1>6, TransferTypes, TransferIsCareful

\* The end of a PUT asks for the deletion of a revision whose lease is over and
\* was never spent: such a revision is not served, and will not be.
LEMMA EndIsCareful ==
  ASSUME StoreInv, NEW w \in puts, EndArtifactUpload(w)
  PROVE  Careful
<1>1. /\ puts' = puts \ {w} /\ writes' = writes \ {w}
      /\ UNCHANGED <<rows, uploads, objects, sending, creating, complete, cleaners>>
  BY DEF EndArtifactUpload
<1>2. w.prefix \in Prefix /\ GivenKey(w.prefix)
  BY TransferTypes DEF StoreInv
<1>3. w.prefix[1] \in Job /\ w.prefix[2] \in Nat /\ w.prefix[2] # 0
  BY <1>2, RevisionLimits DEF Prefix, Rev, GivenKey
<1>4. CleanersFollow
  BY <1>1, CleanersRest
<1>5. /\ cleanup' \in [Prefix -> {"none", "waiting", "due"}]
      /\ \A p \in Doomed' : p \in Doomed \/ SafeToDelete(p)
  <2>1. CASE cleanup' = cleanup
    BY <1>1, <2>1, NothingAsked, TransferTypes
  <2>2. CASE /\ LeftBehind(w.prefix)
             /\ cleanup' = RequestCleanup(cleanup, {w.prefix}, "due")
    <3>1. /\ cleanup' \in [Prefix -> {"none", "waiting", "due"}]
          /\ \A p \in Prefix :
               cleanup'[p] # "none" => cleanup[p] # "none" \/ p \in {w.prefix}
      BY <2>2, TransferTypes, RequestedOnly
    <3>2. RowOK(rows[w.prefix[1]])
      BY <1>3 DEF StoreInv
    <3>3. /\ w.prefix[2] \notin rows[w.prefix[1]].spent
          /\ rows[w.prefix[1]].next # w.prefix[2] \/ rows[w.prefix[1]].lapsed
      BY <2>2 DEF LeftBehind, MaySeeLost
    <3>4. Deletable(rows[w.prefix[1]], w.prefix[2])
      BY <1>2, <1>3, <3>2, <3>3 DEF Deletable, RowOK, GivenKey
    <3>5. SafeToDelete(w.prefix)
      BY <1>3, <3>4 DEF SafeToDelete
    <3>6. \A p \in Doomed' : p \in Doomed \/ p \in {w.prefix}
      BY <1>4, <3>1, NewlyDoomed
    <3> QED
      BY <3>1, <3>5, <3>6
  <2> QED
    BY <2>1, <2>2 DEF EndArtifactUpload
<1>6. /\ puts' \subseteq [prefix : Prefix, slot : Slot]
      /\ writes' \subseteq [prefix : Prefix, slot : Slot \cup {0}]
  BY <1>1, TransferTypes
<1>7. \A u \in puts' : u \in puts
  BY <1>1
<1> QED
  BY <1>1, <1>4, <1>5, <1>6, <1>7, TransferTypes, TransferIsCareful

\* The manifest of a revision is confirmed while its files are there.
LEMMA ConfirmIsCareful ==
  ASSUME StoreInv, NEW j \in Job, ConfirmManifest(j)
  PROVE  Careful
<1>1. /\ rows[j].next # 0 /\ NextKey(j) \in objects /\ complete' = complete \cup {NextKey(j)}
      /\ UNCHANGED <<rows, uploads, writes, cleanup, objects, sending, creating, puts,
                     cleaners>>
  BY DEF ConfirmManifest, Holds
<1>2. NextKey(j) \in Prefix /\ GivenKey(NextKey(j))
  BY <1>1, StagedIsGiven
<1>3. CleanersFollow /\ \A p \in Doomed' : p \in Doomed
  BY <1>1, NothingAsked
<1>4. complete' \subseteq Prefix
  BY <1>1, <1>2, TransferTypes
<1>5. \A k \in complete' : k \in complete \/ (GivenKey(k) /\ k \in objects')
  BY <1>1, <1>2
<1> QED
  BY <1>1, <1>3, <1>4, <1>5, TransferTypes, TransferIsCareful

\* A cleaner deletes what it listed, which is under the prefix it aims at.
LEMMA CleanerIsCareful ==
  ASSUME StoreInv, NEW who \in Caller, CleanStep(who) \/ CleanFail(who)
  PROVE  Careful
<1>1. /\ UNCHANGED <<rows, uploads, writes, sending, creating, puts, complete>>
      /\ cleanup' = cleanup \/ CleanLook(who)
      /\ objects' \subseteq objects
      /\ \A k \in objects : k \in objects' \/ k \in cleaners[who].seen
  BY DEF CleanStep, CleanList, CleanDelete, CleanLook, CleanFail
<1>2. cleaners[who] \in CleanerRow /\ CleanerOK(cleaners[who])
  BY DEF StoreInv, StoreTypeOK
<1>3. ASSUME cleaners[who].phase # "resting"
      PROVE  cleaners[who].at \in Doomed
  BY <1>2, <1>3 DEF CleanerOK, Aims, Doomed
<1>4. CleanersFollow
  <2>1. CASE CleanList(who)
    <3> DEFINE seen == {k \in objects : Under(k, cleaners[who].at)}
               c == [cleaners[who] EXCEPT !.seen = seen,
                       !.phase = IF seen = {} THEN "look" ELSE "delete"]
    <3>1. cleaners[who].phase = "list" /\ cleaners' = [cleaners EXCEPT ![who] = c]
      BY <2>1 DEF CleanList
    <3>2. seen \in SUBSET Prefix
      BY TransferTypes
    <3>3. c.seen = seen /\ c.at = cleaners[who].at /\ c.todo = cleaners[who].todo
          /\ c.phase = (IF seen = {} THEN "look" ELSE "delete") /\ c \in CleanerRow
      BY <1>2, <3>2 DEF CleanerRow
    <3>4. \A k \in seen : Under(k, cleaners[who].at)
      OBVIOUS
    <3> HIDE DEF c, seen
    <3>5. CleanerOK(c)
      BY <1>2, <3>1, <3>3, <3>4 DEF CleanerOK
    <3>6. Aims(c) = Aims(cleaners[who])
      BY <3>1, <3>3 DEF Aims
    <3> QED
      BY <3>1, <3>3, <3>5, <3>6, OneCleaner
  <2>2. CASE CleanDelete(who)
    <3> DEFINE c == [cleaners[who] EXCEPT !.seen = {}, !.phase = "look"]
    <3>1. cleaners[who].phase = "delete" /\ cleaners' = [cleaners EXCEPT ![who] = c]
      BY <2>2 DEF CleanDelete
    <3>2. c.seen = {} /\ c.at = cleaners[who].at /\ c.todo = cleaners[who].todo
          /\ c.phase = "look" /\ c \in CleanerRow
      BY <1>2 DEF CleanerRow
    <3> HIDE DEF c
    <3>3. CleanerOK(c) /\ Aims(c) = Aims(cleaners[who])
      BY <1>2, <3>1, <3>2 DEF CleanerOK, Aims
    <3> QED
      BY <3>1, <3>2, <3>3, OneCleaner
  <2>3. CASE CleanLook(who) \/ CleanFail(who)
    BY <2>3, CleaningGoesOn DEF CleanLook, CleanFail
  <2> QED
    BY <2>1, <2>2, <2>3 DEF CleanStep
<1>5. /\ cleanup' \in [Prefix -> {"none", "waiting", "due"}]
      /\ \A p \in Prefix : cleanup'[p] # "none" => cleanup[p] # "none"
  BY <1>1, TransferTypes DEF CleanLook
<1>6. \A k \in objects : k \in objects' \/ \E p \in Doomed : Under(k, p)
  <2> SUFFICES ASSUME NEW k \in objects, k \in cleaners[who].seen
               PROVE  \E p \in Doomed : Under(k, p)
    BY <1>1
  <2>1. cleaners[who].phase = "delete"
    BY <1>2 DEF CleanerOK
  <2>2. Under(k, cleaners[who].at)
    BY <1>2, <2>1 DEF CleanerOK
  <2> QED
    BY <1>3, <2>1, <2>2
<1>7. \A p \in Doomed' : p \in Doomed \/ p \in {}
  BY <1>4, <1>5, NewlyDoomed
<1> QED
  BY <1>1, <1>4, <1>5, <1>6, <1>7, TransferTypes, TransferIsCareful

\* A restart of the board forgets its cleaners.
LEMMA RestartIsCareful ==
  ASSUME StoreInv, CleanersLost
  PROVE  Careful
<1>1. /\ cleaners' = [who \in Caller |-> Resting]
      /\ UNCHANGED <<rows, uploads, writes, cleanup, objects, sending, creating, puts,
                     complete>>
  BY DEF CleanersLost
<1>2. CleanersFollow
  BY <1>1, RestingRow DEF CleanersFollow
<1>3. \A p \in Doomed' : p \in Doomed \/ p \in {}
  BY <1>1, <1>2, NewlyDoomed
<1> QED
  BY <1>1, <1>2, <1>3, TransferTypes, TransferIsCareful

\* A cleanup row that ripens was there.
LEMMA RipeningIsCareful ==
  ASSUME StoreInv, NEW q \in Prefix, Ripen(q)
  PROVE  Careful
<1>1. /\ cleanup[q] = "waiting" /\ cleanup' = [cleanup EXCEPT ![q] = "due"]
      /\ UNCHANGED <<rows, uploads, writes, objects, sending, creating, puts, complete,
                     cleaners>>
  BY DEF Ripen
<1>2. /\ cleanup' \in [Prefix -> {"none", "waiting", "due"}]
      /\ \A p \in Prefix : cleanup'[p] # "none" => cleanup[p] # "none"
  BY <1>1, TransferTypes
<1>3. CleanersFollow
  BY <1>1, CleanersRest
<1>4. \A p \in Doomed' : p \in Doomed \/ p \in {}
  BY <1>2, <1>3, NewlyDoomed
<1> QED
  BY <1>1, <1>2, <1>3, <1>4, TransferTypes, TransferIsCareful

------------------------------------------------------------------------------
(* The handlers of the board *)

\* The row of a job that is deleted.
LEMMA DeletedRow ==
  ASSUME NEW r, NEW s \in Deletes(r)
  PROVE  s = Blank("gone") /\ r.life = "live" /\ s.life = "gone" /\ ~s.has_state
BY DEF Deletes, When, Blank

\* The row of a task that ends, with a receipt or without.
LEMMA EndedRow ==
  ASSUME NEW r \in FileRow, NEW s, s \in Refuses(r) \/ s \in Ends(r)
  PROVE  r.next # 0 /\ s.next = 0 /\ s.rev = r.rev /\ s.life = r.life
<1>1. /\ r.next # 0
      /\ \/ s = [Released(r) EXCEPT !.spent = r.spent \cup {r.next}]
         \/ s = Released(r)
  BY DEF Refuses, Ends, Holds, When
<1>2. /\ Released(r) \in FileRow /\ Released(r).next = 0 /\ Released(r).rev = r.rev
      /\ Released(r).life = r.life
  BY ReleasedRow DEF Released, FileRow
<1> QED
  BY <1>1, <1>2 DEF FileRow

\* The row of a task that is published.
LEMMA PublishedRow ==
  ASSUME NEW r \in FileRow, NEW saved \in BOOLEAN, NEW s \in Publishes(r, saved)
  PROVE  /\ r.next # 0 /\ s.next = 0 /\ s.rev = r.next /\ s.life = r.life
         /\ s.has_state => saved
<1>1. /\ r.next # 0
      /\ s = [Released(r) EXCEPT !.rev = r.next, !.has_state = saved,
                                 !.spent = r.spent \cup {r.next}]
  BY DEF Publishes, When
<1>2. Released(r) \in FileRow /\ Released(r).next = 0 /\ Released(r).life = r.life
  BY ReleasedRow DEF Released, FileRow
<1>3. s.rev = r.next /\ s.next = 0 /\ s.life = r.life
  BY <1>1, <1>2 DEF FileRow
<1>4. s.has_state = saved
  BY <1>1, <1>2 DEF FileRow
<1> QED
  BY <1>1, <1>3, <1>4

\* A row that is claimed, lapses or is sealed serves what it served.
LEMMA KeptRow ==
  ASSUME NEW r \in FileRow, NEW s, s \in Claims(r) \/ s \in Lapses(r) \/ s \in Seals(r)
  PROVE  s.rev = r.rev /\ s.life = r.life
BY DEF Claims, Lapses, Seals, When, FileRow

\* A revision whose task is over, and that was not published, is nobody's.
LEMMA StagedIsDeletable ==
  ASSUME StoreInv, NEW j \in Job, rows[j].next # 0,
         rows'[j] \in FileRow, RowChange(rows[j], rows'[j]), rows'[j].next = 0,
         rows'[j].rev = rows[j].rev \/ rows'[j].life = "gone",
         NEW k, k = NextKey(j)
  PROVE  SafeToDelete(k)'
<1>1. /\ RowOK(rows[j]) /\ rows[j].next \in Nat /\ rows[j].given \in Nat
      /\ rows[j].rev \in Nat /\ rows'[j].rev \in Nat /\ rows'[j].given \in Nat
  BY RowTypes, RevisionLimits DEF StoreInv, FileRow, Rev
<1>2. Deletable(rows'[j], rows[j].next)
  BY <1>1 DEF RowOK, RowChange, Deletable
<1> QED
  BY <1>2 DEF SafeToDelete, NextKey

\* A job that is deleted takes its files with it, and no request can bring it back.
LEMMA RemovalIsCareful ==
  ASSUME StoreInv, NEW j \in Job, RemoveJob(j)
  PROVE  Careful
<1>1. /\ cleanup' = RequestCleanup(cleanup, {Whole(j)}, "due")
      /\ StartCleaning(<<"delete", j>>)
      /\ UNCHANGED <<uploads, writes, objects, sending, creating, puts, complete>>
  BY DEF RemoveJob
<1>2. PICK s \in Deletes(rows[j]) : rows' = [rows EXCEPT ![j] = s]
  BY DEF RemoveJob, Becomes
<1>3. /\ rows' \in [Job -> FileRow] /\ rows'[j] = s
      /\ \A i \in Job : RowChange(rows[i], rows'[i])
      /\ \A i \in Job : i # j => rows'[i] = rows[i]
  BY <1>2, OneRow DEF FileStep
<1>4. rows[j].life = "live" /\ s.life = "gone" /\ ~s.has_state
  BY <1>2, DeletedRow
<1>5. \A i \in Job : ServesConfirmed(i)
  BY <1>3, <1>4 DEF ServesConfirmed
<1>6. \A i \in Job : rows'[i].life = "live" => rows[i].life = "live"
  BY <1>3, <1>4
<1>7. <<"delete", j>> \in Caller
  BY DEF Caller
<1>8. /\ cleanup' \in [Prefix -> {"none", "waiting", "due"}]
      /\ \A p \in Prefix : cleanup'[p] # "none" => cleanup[p] # "none" \/ p \in {Whole(j)}
  BY <1>1, TransferTypes, RequestedOnly
<1>9. CleanersFollow
  BY <1>1, <1>7, CleaningStarts
<1>10. \A p \in Doomed' : p \in Doomed \/ p \in {Whole(j)}
  BY <1>8, <1>9, NewlyDoomed
<1>11. SafeToDelete(Whole(j))'
  BY <1>1, <1>3, <1>4, UploadTypes DEF SafeToDelete, Over, Whole, UploadOK
<1>12. \A p \in Doomed' : p \in Doomed \/ SafeToDelete(p)'
  BY <1>10, <1>11
<1> QED
  BY <1>1, <1>3, <1>5, <1>6, <1>8, <1>9, <1>12, BoardIsCareful

\* A claim, a lapse and a throw while sealing ask for no deletion.
LEMMA LeaseIsCareful ==
  ASSUME StoreInv, NEW j \in Job, ClaimTask(j) \/ Lapse(j) \/ SealAndThrow(j)
  PROVE  Careful
<1>1. /\ UNCHANGED <<cleanup, cleaners>>
      /\ UNCHANGED <<uploads, writes, objects, sending, creating, puts, complete>>
  BY DEF ClaimTask, Lapse, SealAndThrow
<1>2. PICK s : /\ s \in Claims(rows[j]) \/ s \in Lapses(rows[j]) \/ s \in Seals(rows[j])
               /\ rows' = [rows EXCEPT ![j] = s]
  BY DEF ClaimTask, Lapse, SealAndThrow, Becomes
<1>3. /\ rows' \in [Job -> FileRow] /\ rows'[j] = s
      /\ \A i \in Job : RowChange(rows[i], rows'[i])
      /\ \A i \in Job : i # j => rows'[i] = rows[i]
  BY <1>2, OneRow DEF FileStep
<1>4. s.rev = rows[j].rev /\ s.life = rows[j].life
  BY <1>2, RowTypes, KeptRow DEF StoreInv
<1>5. \A i \in Job : ServesConfirmed(i)
  BY <1>3, <1>4 DEF ServesConfirmed
<1>6. \A i \in Job : rows'[i].life = "live" => rows[i].life = "live"
  BY <1>3, <1>4
<1>7. CleanersFollow /\ \A p \in Doomed' : p \in Doomed
  BY <1>1, NothingAsked
<1>8. cleanup' \in [Prefix -> {"none", "waiting", "due"}]
  BY <1>1, TransferTypes
<1> QED
  BY <1>1, <1>3, <1>5, <1>6, <1>7, <1>8, BoardIsCareful

\* A publication serves what was confirmed, and gives up what it replaces.
LEMMA PublicationIsCareful ==
  ASSUME StoreInv, NEW j \in Job, Publish(j)
  PROVE  Careful
<1>1. /\ cleanup' = RequestCleanup(cleanup, Replaced(j), "waiting")
      /\ UNCHANGED <<uploads, writes, objects, sending, creating, puts, complete, cleaners>>
  BY DEF Publish
<1>2. PICK saved \in BOOLEAN : /\ saved => NextKey(j) \in complete
                               /\ Becomes(j, Publishes(rows[j], saved))
  BY DEF Publish
<1>3. PICK s \in Publishes(rows[j], saved) : rows' = [rows EXCEPT ![j] = s]
  BY <1>2 DEF Becomes
<1>4. /\ rows' \in [Job -> FileRow] /\ rows'[j] = s
      /\ \A i \in Job : RowChange(rows[i], rows'[i])
      /\ \A i \in Job : i # j => rows'[i] = rows[i]
  BY <1>3, OneRow DEF FileStep
<1>5. /\ rows[j].next # 0 /\ s.next = 0 /\ s.rev = rows[j].next /\ s.life = rows[j].life
      /\ s.has_state => saved
  BY <1>3, RowTypes, PublishedRow DEF StoreInv
<1>6. \A i \in Job : ServesConfirmed(i)
  BY <1>2, <1>4, <1>5 DEF ServesConfirmed
<1>7. \A i \in Job : rows'[i].life = "live" => rows[i].life = "live"
  BY <1>4, <1>5
<1>8. CleanersFollow
  BY <1>1, CleanersRest
<1>9. /\ cleanup' \in [Prefix -> {"none", "waiting", "due"}]
      /\ \A p \in Prefix : cleanup'[p] # "none" => cleanup[p] # "none" \/ p \in Replaced(j)
  BY <1>1, TransferTypes, RequestedOnly
<1>10. \A p \in Doomed' : p \in Doomed \/ p \in Replaced(j)
  BY <1>8, <1>9, NewlyDoomed
<1>11. ASSUME NEW p \in Replaced(j)
       PROVE  SafeToDelete(p)'
  <2>1. p = <<j, rows[j].rev>> /\ rows[j].rev # 0
    BY <1>11 DEF Replaced, Whole
  <2>2. /\ RowOK(rows[j]) /\ rows[j].next \in Nat /\ rows[j].given \in Nat
        /\ rows[j].rev \in Nat
    BY RowTypes DEF StoreInv
  <2>3. rows[j].rev # rows[j].next
    BY <2>1, <2>2 DEF RowOK
  <2>4. RowChange(rows[j], s)
    BY <1>4
  <2>5. Deletable(s, rows[j].rev)
    BY <1>5, <2>1, <2>2, <2>3, <2>4 DEF RowOK, RowChange, Deletable
  <2> QED
    BY <1>4, <2>1, <2>5 DEF SafeToDelete
<1>12. \A p \in Doomed' : p \in Doomed \/ SafeToDelete(p)'
  BY <1>10, <1>11
<1> QED
  BY <1>1, <1>4, <1>6, <1>7, <1>8, <1>9, <1>12, BoardIsCareful

\* A task that ends gives up, at most, the revision it staged.
LEMMA EndingIsCareful ==
  ASSUME StoreInv, NEW j \in Job, Refuse(j) \/ Fail(j)
  PROVE  Careful
<1>1. PICK asked \in {Abandoned(j), {NextKey(j)}} :
        /\ cleanup' = RequestCleanup(cleanup, asked, "waiting")
        /\ UNCHANGED <<uploads, writes, objects, sending, creating, puts, complete,
                       cleaners>>
  BY DEF Refuse, Fail
<1>2. PICK s : /\ s \in Refuses(rows[j]) \/ s \in Ends(rows[j])
               /\ rows' = [rows EXCEPT ![j] = s]
  BY DEF Refuse, Fail, Becomes
<1>3. /\ rows' \in [Job -> FileRow] /\ rows'[j] = s
      /\ \A i \in Job : RowChange(rows[i], rows'[i])
      /\ \A i \in Job : i # j => rows'[i] = rows[i]
  BY <1>2, OneRow DEF FileStep
<1>4. /\ rows[j].next # 0 /\ s.next = 0 /\ s.rev = rows[j].rev /\ s.life = rows[j].life
  BY <1>2, RowTypes, EndedRow DEF StoreInv
<1>5. \A i \in Job : ServesConfirmed(i)
  BY <1>3, <1>4 DEF ServesConfirmed
<1>6. \A i \in Job : rows'[i].life = "live" => rows[i].life = "live"
  BY <1>3, <1>4
<1>7. CleanersFollow
  BY <1>1, CleanersRest
<1>8. /\ cleanup' \in [Prefix -> {"none", "waiting", "due"}]
      /\ \A p \in Prefix : cleanup'[p] # "none" => cleanup[p] # "none" \/ p \in asked
  BY <1>1, TransferTypes, RequestedOnly
<1>9. \A p \in Doomed' : p \in Doomed \/ p \in asked
  BY <1>7, <1>8, NewlyDoomed
<1>10. ASSUME NEW p \in asked
       PROVE  SafeToDelete(p)'
  <2>1. p = NextKey(j)
    BY <1>1, <1>10 DEF Abandoned
  <2> QED
    BY <1>3, <1>4, <2>1, StagedIsDeletable
<1>11. \A p \in Doomed' : p \in Doomed \/ SafeToDelete(p)'
  BY <1>9, <1>10
<1> QED
  BY <1>1, <1>3, <1>5, <1>6, <1>7, <1>8, <1>11, BoardIsCareful

\* A reservation that becomes overdue is a reservation still.
LEMMA ExpiryIsCareful ==
  ASSUME StoreInv, NEW j \in Job, Expire(j)
  PROVE  Careful
<1>1. /\ uploads' = [uploads EXCEPT ![j].expired = TRUE]
      /\ UNCHANGED <<rows, writes, cleanup, objects, sending, creating, puts, complete,
                     cleaners>>
  BY DEF Expire
<1>2. /\ uploads' \in
           [Job -> [state : {"none", "receiving", "stored"}, expired : BOOLEAN]]
      /\ uploads'[j].state = uploads[j].state
      /\ \A i \in Job : i # j => uploads'[i] = uploads[i]
  BY <1>1, UploadTypes
<1>3. UploadChange(j)
  BY <1>1, <1>2, UploadTypes DEF UploadChange, UploadOK, NeedsInput
<1>4. CleanersFollow /\ \A p \in Doomed' : p \in Doomed
  BY <1>1, NothingAsked
<1> QED
  BY <1>1, <1>2, <1>3, <1>4, RowsRest, UploadTypes, UploadIsCareful

------------------------------------------------------------------------------
(* The alarm *)

\* What the alarm asks for when the quiet tasks end, those in again to run again.
StagedFiles(again) ==
  (UNION {Abandoned(j) : j \in Quiet \ again}) \cup {NextKey(j) : j \in again}

\* What becomes of a row under the alarm, that takes away the jobs in old.
AlarmRow(j, old) ==
  IF j \in old THEN Blank("gone") ELSE IF j \in Quiet THEN Released(rows[j]) ELSE rows[j]

\* Each job under the alarm ends its task, goes, or stays.
LEMMA AlarmRows ==
  ASSUME StoreInv, NEW old \in SUBSET MayBeOld, NEW j \in Job
  PROVE  /\ FileStep(rows[j], AlarmRow(j, old))
         /\ AlarmRow(j, old).life = "live" => rows[j].life = "live" /\ j \notin old
         /\ AlarmRow(j, old).has_state => AlarmRow(j, old).rev = rows[j].rev
         /\ j \in Quiet =>
              /\ rows[j].next # 0 /\ AlarmRow(j, old).next = 0
              /\ AlarmRow(j, old).rev = rows[j].rev \/ AlarmRow(j, old).life = "gone"
<1>1. CASE j \in old
  <2>1. rows[j].life = "live" /\ AlarmRow(j, old) = Blank("gone")
    BY <1>1 DEF MayBeOld, AlarmRow
  <2>2. AlarmRow(j, old) \in Deletes(rows[j])
    BY <2>1 DEF Deletes, When
  <2>3. /\ AlarmRow(j, old).life = "gone" /\ ~AlarmRow(j, old).has_state
        /\ AlarmRow(j, old).next = 0
    BY <2>1 DEF Blank
  <2> QED
    BY <2>2, <2>3 DEF FileStep, Quiet
<1>2. CASE j \notin old /\ j \in Quiet
  <2>1. rows[j].next # 0 /\ AlarmRow(j, old) = Released(rows[j])
    BY <1>2 DEF Quiet, AlarmRow
  <2>2. AlarmRow(j, old) \in Ends(rows[j])
    BY <2>1 DEF Ends, When
  <2>3. /\ AlarmRow(j, old).life = rows[j].life /\ AlarmRow(j, old).rev = rows[j].rev
        /\ AlarmRow(j, old).next = 0
    BY <2>2, RowTypes, EndedRow DEF StoreInv
  <2> QED
    BY <1>2, <2>1, <2>2, <2>3 DEF FileStep
<1>3. CASE j \notin old /\ j \notin Quiet
  BY <1>3 DEF AlarmRow, FileStep
<1> QED
  BY <1>1, <1>2, <1>3

\* What the alarm does, in the terms above.
LEMMA AlarmSteps ==
  ASSUME StoreInv, Alarm
  PROVE  /\ \E again \in SUBSET Quiet, old \in SUBSET MayBeOld :
              /\ rows' = [j \in Job |-> AlarmRow(j, old)]
              /\ cleanup' = RequestCleanup(
                   RequestCleanup(cleanup, StagedFiles(again), "waiting"),
                   SweptAway(old), "due")
         /\ uploads' = [j \in Job |-> IF j \in Overdue THEN NoUpload ELSE uploads[j]]
         /\ StartCleaning(<<"alarm">>)
         /\ UNCHANGED <<writes, objects, sending, creating, puts, complete>>
BY DEF Alarm, AlarmRow, StagedFiles

\* The alarm sweeps away what nobody counts on, in one handler that awaits nothing
\* before it has asked for all of it.
LEMMA AlarmIsCareful ==
  ASSUME StoreInv, Alarm
  PROVE  Careful
<1>1. PICK again \in SUBSET Quiet, old \in SUBSET MayBeOld :
        /\ rows' = [j \in Job |-> AlarmRow(j, old)]
        /\ cleanup' = RequestCleanup(
             RequestCleanup(cleanup, StagedFiles(again), "waiting"), SweptAway(old), "due")
  BY AlarmSteps
<1>2. /\ uploads' = [j \in Job |-> IF j \in Overdue THEN NoUpload ELSE uploads[j]]
      /\ StartCleaning(<<"alarm">>)
      /\ UNCHANGED <<writes, objects, sending, creating, puts, complete>>
  BY AlarmSteps
<1>3. ASSUME NEW j \in Job
      PROVE  /\ rows'[j] = AlarmRow(j, old) /\ rows'[j] \in FileRow
             /\ RowChange(rows[j], rows'[j])
             /\ rows'[j].life = "live" => rows[j].life = "live" /\ j \notin old
  <2>1. rows'[j] = AlarmRow(j, old)
    BY <1>1
  <2>2. FileStep(rows[j], AlarmRow(j, old)) /\ rows[j] \in FileRow
    BY AlarmRows, RowTypes DEF StoreInv
  <2> QED
    BY <2>1, <2>2, AlarmRows, StepsChange
<1>4. rows' \in [Job -> FileRow]
  BY <1>1, <1>3
<1>5. /\ uploads' \in
           [Job -> [state : {"none", "receiving", "stored"}, expired : BOOLEAN]]
      /\ \A j \in Job : uploads'[j] = IF j \in Overdue THEN NoUpload ELSE uploads[j]
  <2>1. \A j \in Job : uploads[j] \in
          [state : {"none", "receiving", "stored"}, expired : BOOLEAN]
    BY RowTypes DEF StoreInv
  <2> QED
    BY <1>2, <2>1, UploadTypes
<1>6. ASSUME NEW j \in Job
      PROVE  UploadChange(j)
  <2>1. uploads'[j].state = "none" \/ uploads'[j] = uploads[j]
    BY <1>5, UploadTypes
  <2>2. uploads[j].state = "none" => uploads'[j].state = "none"
    BY <2>1
  <2>3. /\ UploadOK(j) /\ RowOK(rows[j]) /\ rows[j] \in FileRow
        /\ rows[j].life \in {"absent", "live", "gone"}
        /\ rows'[j].life \in {"absent", "live", "gone"}
    BY <1>3, RowTypes DEF StoreInv, FileRow
  <2>4. /\ rows[j].life = "gone" => rows'[j].life = "gone"
        /\ rows'[j].life = "absent" => rows[j].life = "absent"
        /\ rows'[j].life = "gone" => rows[j].life # "absent"
    BY <1>3, <2>3, LifeGoesOn
  <2>5. UploadOK(j)'
    BY <1>2, <1>3, <2>2, <2>3, <2>4 DEF UploadOK
  <2>6. NeedsInput(j)' => NeedsInput(j)
    BY <1>2, <1>3, <2>1 DEF NeedsInput
  <2> QED
    BY <1>2, <1>3, <2>2, <2>5, <2>6 DEF UploadChange
<1>7. \A j \in Job : ServesConfirmed(j)
  BY <1>3, AlarmRows DEF ServesConfirmed
<1>8. /\ cleanup' \in [Prefix -> {"none", "waiting", "due"}]
      /\ \A p \in Prefix : cleanup'[p] # "none" =>
           cleanup[p] # "none" \/ p \in StagedFiles(again) \cup SweptAway(old)
  <2> DEFINE c == RequestCleanup(cleanup, StagedFiles(again), "waiting")
  <2>1. /\ c \in [Prefix -> {"none", "waiting", "due"}]
        /\ \A p \in Prefix : c[p] # "none" => cleanup[p] # "none" \/ p \in StagedFiles(again)
    BY TransferTypes, RequestedOnly
  <2>2. cleanup' = RequestCleanup(c, SweptAway(old), "due")
    BY <1>1
  <2> HIDE DEF c
  <2>3. /\ cleanup' \in [Prefix -> {"none", "waiting", "due"}]
        /\ \A p \in Prefix : cleanup'[p] # "none" => c[p] # "none" \/ p \in SweptAway(old)
    BY <2>1, <2>2, RequestedOnly
  <2> QED
    BY <2>1, <2>3
<1>9. <<"alarm">> \in Caller
  BY DEF Caller
<1>10. CleanersFollow
  BY <1>2, <1>9, CleaningStarts
<1>11. \A p \in Doomed' : p \in Doomed \/ p \in StagedFiles(again) \cup SweptAway(old)
  BY <1>8, <1>10, NewlyDoomed
<1>12. ASSUME NEW p \in StagedFiles(again)
       PROVE  SafeToDelete(p)'
  <2>1. PICK j \in Quiet : p = NextKey(j)
    <3>1. \/ p \in UNION {Abandoned(j) : j \in Quiet \ again}
          \/ p \in {NextKey(j) : j \in again}
      BY <1>12 DEF StagedFiles
    <3>2. \A j \in Quiet : p \in Abandoned(j) => p = NextKey(j)
      BY DEF Abandoned
    <3>3. CASE p \in UNION {Abandoned(j) : j \in Quiet \ again}
      <4>1. PICK j \in Quiet \ again : p \in Abandoned(j)
        BY <3>3
      <4> QED
        BY <3>2, <4>1
    <3>4. CASE p \in {NextKey(j) : j \in again}
      BY <3>4
    <3> QED
      BY <3>1, <3>3, <3>4
  <2>2. j \in Job
    BY DEF Quiet
  <2> QED
    BY <1>3, <2>1, <2>2, AlarmRows, StagedIsDeletable
<1>13. ASSUME NEW p \in SweptAway(old)
       PROVE  SafeToDelete(p)'
  <2>1. PICK j \in Overdue \cup old : p = Whole(j)
    BY <1>13 DEF SweptAway
  <2>2. j \in Job
    BY DEF Overdue, MayBeOld
  <2>3. sending[j] # "none" /\ (j \in Overdue => rows[j].life = "absent")
    BY <2>1, <2>2, UploadTypes DEF Overdue, MayBeOld, UploadOK
  <2>4. rows'[j].life # "live"
    BY <1>3, <2>1, <2>2, <2>3
  <2>5. uploads'[j].state = "none"
    <3>1. j \in old => uploads[j].state = "none"
      BY <2>2, UploadTypes DEF MayBeOld, UploadOK
    <3> QED
      BY <1>5, <2>1, <2>2, <3>1, UploadTypes
  <2> QED
    BY <1>2, <2>1, <2>3, <2>4, <2>5 DEF SafeToDelete, Over, Whole
<1>14. \A p \in Doomed' : p \in Doomed \/ SafeToDelete(p)'
  BY <1>11, <1>12, <1>13
<1>15. StoreTypeOK'
  BY <1>2, <1>4, <1>5, <1>8, <1>10 DEF StoreInv, StoreTypeOK, CleanersFollow
<1> QED
  BY <1>2, <1>3, <1>6, <1>7, <1>10, <1>14, <1>15 DEF Careful, CleanersFollow

------------------------------------------------------------------------------
(* Theorems *)

\* Every step is careful, in any state of the invariant.
LEMMA EveryStepIsCareful ==
  ASSUME StoreInv, StoreNext
  PROVE  Careful
<1>1. CASE \E j \in Job : UploadNext(j)
  BY <1>1, ReserveIsCareful, TransferEndIsCareful, MarkIsCareful, AdmitIsCareful,
     RefusalIsCareful, AbandonIsCareful, UploadDeathIsCareful DEF UploadNext, UploadStep
<1>2. CASE PutNext
  BY <1>2, BeginIsCareful, PutIsCareful, EndIsCareful DEF PutNext
<1>3. CASE \E j \in Job : BoardNext(j)
  BY <1>3, RemovalIsCareful, LeaseIsCareful, ConfirmIsCareful, PublicationIsCareful,
     EndingIsCareful, ExpiryIsCareful DEF BoardNext
<1>4. CASE Alarm
  BY <1>4, AlarmIsCareful
<1>5. CASE CleanNext
  BY <1>5, CleanerIsCareful, RestartIsCareful DEF CleanNext
<1>6. CASE \E p \in Prefix : Ripen(p)
  BY <1>6, RipeningIsCareful
<1> QED
  BY <1>1, <1>2, <1>3, <1>4, <1>5, <1>6 DEF StoreNext

\* Nothing is stored, asked for or served at the start.
LEMMA StoreStarts ==
  ASSUME StoreInit
  PROVE  StoreInv
<1>1. /\ rows = [j \in Job |-> Blank("absent")]
      /\ uploads = [j \in Job |-> NoUpload]
      /\ writes = {} /\ objects = {} /\ creating = {} /\ puts = {} /\ complete = {}
      /\ cleanup = [p \in Prefix |-> "none"]
      /\ sending = [j \in Job |-> "none"]
      /\ cleaners = [who \in Caller |-> Resting]
  BY DEF StoreInit, Init
<1>2. NoUpload \in [state : {"none", "receiving", "stored"}, expired : BOOLEAN]
  BY DEF NoUpload
<1>3. Blank("absent") \in FileRow
  BY BlankRow
<1>4. StoreTypeOK
  BY <1>1, <1>2, <1>3, RestingRow DEF StoreTypeOK
<1>5. \A who \in Caller : CleanerOK(cleaners[who]) /\ Aims(cleaners[who]) = {}
  BY <1>1, RestingRow
<1>6. ASSUME NEW j \in Job
      PROVE  RowOK(rows[j]) /\ UploadOK(j) /\ FilesThere(j)
  <2>1. rows[j] = Blank("absent") /\ uploads[j].state = "none" /\ sending[j] = "none"
    BY <1>1 DEF NoUpload
  <2>2. /\ rows[j].life = "absent" /\ rows[j].next = 0 /\ rows[j].rev = 0
        /\ rows[j].given = 0 /\ rows[j].has_state = FALSE /\ rows[j].spent = {}
    BY <2>1 DEF Blank
  <2> QED
    BY <2>1, <2>2 DEF RowOK, UploadOK, FilesThere, NeedsInput, NeedsNext
<1>7. Doomed = {}
  BY <1>1, <1>5 DEF Doomed
<1> QED
  BY <1>1, <1>4, <1>5, <1>6, <1>7 DEF StoreInv

\* The tables, the objects and the cleaners stay in the invariant, for any number
\* of jobs, claims, PUTs and failures, and whether or not a request may be judged
\* by a time that has passed.
THEOREM StoreInvariant == StoreSpec => []StoreInv
<1>1. StoreInit => StoreInv
  BY StoreStarts
<1>2. StoreInv /\ [StoreNext]_vars => StoreInv'
  <2> SUFFICES ASSUME StoreInv, [StoreNext]_vars
               PROVE  StoreInv'
    OBVIOUS
  <2>1. CASE StoreNext
    BY <2>1, EveryStepIsCareful, CarefulKeeps
  <2>2. CASE UNCHANGED vars
    <3>1. CleanersFollow /\ \A p \in Doomed' : p \in Doomed
      BY <2>2, NothingAsked DEF vars
    <3>2. Careful
      BY <2>2, <3>1, TransferTypes, TransferIsCareful DEF vars
    <3> QED
      BY <3>2, CarefulKeeps
  <2> QED
    BY <2>1, <2>2
<1> QED
  BY <1>1, <1>2, PTL DEF StoreSpec

\* A job's input is never deleted under it: not by the request that saw an error
\* after createJob had committed, not by a call that commits after the request
\* gave up, not by the alarm, and not by a cleanup that began before.
THEOREM InputIsKept == StoreSpec => []InputKept
<1>1. StoreInv => InputKept
  BY DEF StoreInv, FilesThere, NeedsInput, InputKept
<1> QED
  BY <1>1, StoreInvariant, PTL

\* What a job points to is never deleted under it: not by the late end of a PUT,
\* not by a retry of its task, not by a publication, and not by a cleaner that read
\* the cleanup table before.
THEOREM OutputIsKept == StoreSpec => []OutputKept
<1>1. StoreInv => OutputKept
  BY DEF StoreInv, FilesThere, OutputKept
<1> QED
  BY <1>1, StoreInvariant, PTL

\* In each handler of the store, what becomes of each job is a step of Revisions.
LEMMA EachRowSteps ==
  ASSUME StoreInv, StoreNext
  PROVE  \A j \in Job : FileStep(rows[j], rows'[j])
<1> SUFFICES ASSUME NEW j \in Job
             PROVE  FileStep(rows[j], rows'[j])
  OBVIOUS
<1>1. CASE rows' = rows
  BY <1>1 DEF FileStep
<1>2. CASE \E i \in Job : \E s : FileStep(rows[i], s) /\ rows' = [rows EXCEPT ![i] = s]
  <2>1. PICK i \in Job : \E s : FileStep(rows[i], s) /\ rows' = [rows EXCEPT ![i] = s]
    BY <1>2
  <2>2. PICK s : FileStep(rows[i], s) /\ rows' = [rows EXCEPT ![i] = s]
    BY <2>1
  <2>3. rows'[i] = s /\ (i # j => rows'[j] = rows[j])
    BY <2>2, OneRow
  <2> QED
    BY <2>2, <2>3 DEF FileStep
<1>3. CASE Alarm
  BY <1>3, AlarmSteps, AlarmRows
<1>4. CASE \E i \in Job : UploadNext(i)
  <2>1. PICK i \in Job : UploadNext(i)
    BY <1>4
  <2>2. rows' = rows \/ AdmitUpload(i)
    BY <2>1 DEF UploadNext, UploadStep, ReserveUpload, TransferEnds, MarkUploadStored,
                RefuseUpload, AbandonUpload, LoseCall, UploadDies
  <2>3. AdmitUpload(i) => \E s : s \in Creates(rows[i]) /\ rows' = [rows EXCEPT ![i] = s]
    BY DEF AdmitUpload, Becomes
  <2> QED
    BY <1>1, <1>2, <2>2, <2>3 DEF FileStep
<1>5. CASE PutNext \/ CleanNext \/ \E p \in Prefix : Ripen(p)
  <2>1. rows' = rows
    BY <1>5 DEF PutNext, CleanNext, BeginArtifactUpload, PutLands, EndArtifactUpload,
                PutDies, CleanStep, CleanList, CleanDelete, CleanLook, CleanFail,
                CleanersLost, Ripen
  <2> QED
    BY <1>1, <2>1
<1>6. CASE \E i \in Job : BoardNext(i)
  <2>1. PICK i \in Job : BoardNext(i)
    BY <1>6
  <2>2. CASE ConfirmManifest(i) \/ Expire(i)
    BY <1>1, <2>2 DEF ConfirmManifest, Expire
  <2>3. CASE \/ RemoveJob(i) \/ ClaimTask(i) \/ SealAndThrow(i) \/ Refuse(i)
             \/ Fail(i) \/ Lapse(i)
    BY <1>2, <2>3 DEF RemoveJob, ClaimTask, SealAndThrow, Refuse, Fail, Lapse, Becomes,
                      FileStep
  <2>4. CASE Publish(i)
    BY <1>2, <2>4 DEF Publish, Becomes, FileStep
  <2> QED
    BY <2>1, <2>2, <2>3, <2>4 DEF BoardNext
<1> QED
  BY <1>3, <1>4, <1>5, <1>6 DEF StoreNext

\* The store takes a job only through the life that Revisions gives it: what
\* JobBoard is shown to do to a job's files is what this module builds on.
THEOREM StoreKeepsRevisions == StoreSpec => Spec
<1>1. StoreInit => Init
  BY DEF StoreInit
<1>2. StoreInv /\ StoreInv' /\ [StoreNext]_vars => [Next]_rows
  <2> SUFFICES ASSUME StoreInv, StoreInv', StoreNext
               PROVE  Next
    BY DEF vars
  <2>1. rows' \in [Job -> FileRow]
    BY DEF StoreInv, StoreTypeOK
  <2>2. ASSUME NEW j \in Job
        PROVE  RowStep(rows[j], rows'[j]) \/ rows'[j] = rows[j]
    <3>1. FileStep(rows[j], rows'[j])
      BY EachRowSteps
    <3> QED
      BY <3>1 DEF FileStep, RowStep
  <2> QED
    BY <2>1, <2>2 DEF Next
<1> QED
  BY <1>1, <1>2, StoreInvariant, PTL DEF StoreSpec, Spec

===============================================================================
