------------------------------ MODULE CallsProofs ------------------------------
(***************************************************************************)
(* Proofs about the services an attempt calls, for any number of           *)
(* questions, retries, permits, images and submissions: a question to the  *)
(* model is charged for a bounded number of runs and for none after a      *)
(* timeout, none leaves after a refusal, none is too large, and what a     *)
(* conversion says of its submissions is true.                             *)
(***************************************************************************)
EXTENDS MCCalls, FiniteSetTheorems, WellFoundedInduction, TLAPS

------------------------------------------------------------------------------
(* The inductive invariants *)

AskPlaces ==
  {"idle", "prepare", "queued", "posting", "backoff", "succeeded", "failed", "cancelled"}

\* A body that is sent, as BodiesFit says it.
BodyFits(b) ==
  /\ G!BodySize(b.now) < BodyLimit
  /\ G!BodySize(b.was) < BodyLimit => b.now = b.was
  /\ \A i \in Image : /\ b.now[i] <= b.was[i]
                      /\ b.now[i] < b.was[i] => \A j \in Image : b.now[j] < b.was[i]

\* The runs that the rounds before one may have lost: a round that led to another lost
\* one in each of its retries at most.
Due(json, mode) ==
  IF json = "initial"
    THEN IF mode = "json_schema" THEN 0 ELSE IF mode = "json_object" THEN MaxRetries ELSE 2 * MaxRetries
    ELSE IF mode = "json_schema" THEN 3 * MaxRetries
         ELSE IF mode = "json_object" THEN 4 * MaxRetries ELSE 5 * MaxRetries

\* The runs that a question may have lost, by where it is.
LossOK(q) ==
  /\ q.pc = "idle" => q.json = "initial" /\ q.lost = 0
  /\ q.pc = "prepare" => q.tries = 0 /\ q.lost <= Due(q.json, q.mode)
  /\ q.pc \in {"queued", "posting"} =>
       q.tries \in 1..(MaxRetries + 1) /\ q.lost <= Due(q.json, q.mode) + q.tries - 1
  /\ q.pc = "backoff" => q.tries \in 1..MaxRetries /\ q.lost <= Due(q.json, q.mode) + q.tries
  /\ q.pc \in G!Ended => q.lost <= 6 * MaxRetries + 1

AskFields == {"pc", "mode", "json", "tries", "body", "timedOut", "lost"}

\* A question is over once a request of it timed out, and only one that waits for the
\* semaphore has a body.
AskOK(q) ==
  /\ DOMAIN q = AskFields
  /\ q.pc \in AskPlaces /\ q.mode \in G!Modes /\ q.json \in {"initial", "repair"}
  /\ q.tries \in Nat /\ q.lost \in Nat /\ q.timedOut \in BOOLEAN
  /\ q.timedOut => q.pc \in G!Ended
  /\ q.body = G!NoBody \/ (q.pc = "queued" /\ BodyFits(q.body))
  /\ LossOK(q)

AsksOK == DOMAIN ask = Ask /\ \A a \in Ask : AskOK(ask[a])

RemotePlace ==
  \/ phase = "ready" /\ await = "none" /\ posts = 0 /\ task = 0
  \/ phase \in {"submitting", "resubmitting"} /\ await = "post" /\ posts # 0 /\ task = 0
  \/ /\ phase = "unknown_submission" /\ task = 0
     /\ await = IF posts < Attempts THEN "backoff" ELSE "none"
  \/ /\ phase = "polling" /\ await \in {"pause", "poll"}
     /\ task = posts /\ task # 0 /\ server[task] # "none"
  \/ phase = "fetching" /\ await = "get" /\ task = posts /\ task # 0 /\ server[task] = "success"
  \/ /\ phase \in D!Settled /\ await = "none" /\ task \in {0, posts}
     /\ phase = "succeeded" => task # 0 /\ server[task] = "success"

\* What the phase, the await and the server's task have to do with each other.
ConversionOK ==
  /\ posts \in 0..Attempts /\ task \in Nat
  /\ server \in [1..Attempts -> {"none", "pending", "success", "failure", "odd"}]
  /\ IF local = "none" THEN RemotePlace
     ELSE /\ await = "none" /\ task = 0
          /\ phase \in {"ready", "original", "repairing", "repaired", "succeeded", "failed"}

CallsInv == AsksOK /\ ConversionOK

------------------------------------------------------------------------------
(* Recursion and induction over a rank *)

\* A set of naturals has a least element.
LEMMA LeastExists ==
  ASSUME NEW S \in SUBSET Nat, S # {}
  PROVE  \E x \in S : \A y \in S : x <= y
  <1>1. \E x \in S : \A y \in S : ~(<<y, x>> \in OpToRel(<, Nat))
    BY NatLessThanWellFounded, WFMin
  <1>2. PICK x \in S : \A y \in S : ~(<<y, x>> \in OpToRel(<, Nat))
    BY <1>1
  <1>3. \A y \in S : ~(y < x)
    BY <1>2 DEF OpToRel
  <1> QED
    BY <1>3

\* A recursion on Dom that stops, with a value, or goes on at then[d], where the rank is lower.
Falls(Dom, Val, n, rank, stop, val, then, op) ==
  /\ n \in Nat /\ rank \in [Dom -> 0..n] /\ stop \in SUBSET Dom
  /\ val \in [Dom -> Val] /\ then \in [Dom -> Dom] /\ op \in [Dom \X Val -> Val]
  /\ \A d \in Dom \ stop : rank[then[d]] < rank[d]

\* What it computes at d: the value, or op of d and of what it computes at then[d].
Computes(f, Dom, stop, val, then, op) ==
  \A d \in Dom : f[d] = IF d \in stop THEN val[d] ELSE op[<<d, f[then[d]]>>]

\* A recursion whose rank falls defines a function.
LEMMA RankRecursion ==
  ASSUME NEW Dom, NEW Val, NEW n, NEW rank, NEW stop, NEW val, NEW then, NEW op,
         Falls(Dom, Val, n, rank, stop, val, then, op)
  PROVE  \E f \in [Dom -> Val] : Computes(f, Dom, stop, val, then, op)
  <1> DEFINE Low(k) == {d \in Dom : rank[d] < k}
             Solved(k) == \E f \in [Low(k) -> Val] :
               \A d \in Low(k) : f[d] = IF d \in stop THEN val[d] ELSE op[<<d, f[then[d]]>>]
             bad == {k \in Nat : ~Solved(k)}
  <1>0. /\ n \in Nat /\ rank \in [Dom -> 0..n] /\ stop \in SUBSET Dom
        /\ val \in [Dom -> Val] /\ then \in [Dom -> Dom] /\ op \in [Dom \X Val -> Val]
        /\ \A d \in Dom \ stop : rank[then[d]] < rank[d]
    BY DEF Falls
  <1>1. ASSUME NEW k \in Nat, Solved(k)
        PROVE  Solved(k + 1)
    <2>0. PICK f \in [Low(k) -> Val] :
            \A d \in Low(k) : f[d] = IF d \in stop THEN val[d] ELSE op[<<d, f[then[d]]>>]
      BY <1>1
    <2> DEFINE h == [d \in Low(k + 1) |-> IF d \in stop THEN val[d] ELSE op[<<d, f[then[d]]>>]]
    <2>1. \A d \in Low(k + 1) \ stop : then[d] \in Low(k)
      BY <1>0
    <2>2. \A d \in Low(k) : d \in Low(k + 1) /\ h[d] = f[d]
      BY <1>0, <2>0
    <2>3. h \in [Low(k + 1) -> Val]
      BY <1>0, <2>0, <2>1
    <2>4. \A d \in Low(k + 1) : h[d] = IF d \in stop THEN val[d] ELSE op[<<d, h[then[d]]>>]
      BY <2>1, <2>2
    <2> HIDE DEF h
    <2> QED
      BY <2>3, <2>4
  <1>2. Solved(0)
    <2> DEFINE empty == [d \in Low(0) |-> val[d]]
    <2>1. Low(0) = {}
      BY <1>0
    <2>2. empty \in [Low(0) -> Val]
      BY <2>1
    <2> QED
      BY <2>1, <2>2
  <1>3. bad = {}
    <2> HIDE DEF Solved
    <2> SUFFICES ASSUME bad # {} PROVE FALSE
      OBVIOUS
    <2>1. PICK k \in bad : \A m \in bad : k <= m
      BY LeastExists
    <2>2. k \in Nat /\ ~Solved(k) /\ k # 0
      BY <1>2
    <2>3. k - 1 \in Nat /\ k - 1 \notin bad
      BY <2>1, <2>2
    <2>4. Solved((k - 1) + 1)
      BY <1>1, <2>3
    <2>5. (k - 1) + 1 = k
      BY <2>2
    <2> QED
      BY <2>2, <2>4, <2>5
  <1>4. PICK f \in [Low(n + 1) -> Val] :
          \A d \in Low(n + 1) : f[d] = IF d \in stop THEN val[d] ELSE op[<<d, f[then[d]]>>]
    <2>1. Solved(n + 1)
      <3> HIDE DEF Solved
      <3> QED
        BY <1>0, <1>3
    <2> QED
      BY <2>1
  <1>5. Low(n + 1) = Dom
    BY <1>0
  <1> QED
    BY <1>4, <1>5 DEF Computes

\* Induction along a rank.
LEMMA RankInduction ==
  ASSUME NEW Dom, NEW rank \in [Dom -> Nat], NEW good \in SUBSET Dom,
         \A d \in Dom : (\A e \in Dom : rank[e] < rank[d] => e \in good) => d \in good
  PROVE  good = Dom
  <1> DEFINE bad == {rank[d] : d \in Dom \ good}
  <1> SUFFICES ASSUME Dom \ good # {} PROVE FALSE
    OBVIOUS
  <1>1. bad \in SUBSET Nat /\ bad # {}
    OBVIOUS
  <1>2. PICK k \in bad : \A m \in bad : k <= m
    BY <1>1, LeastExists
  <1>3. PICK d \in Dom \ good : k = rank[d]
    OBVIOUS
  <1>4. \A e \in Dom : rank[e] < rank[d] => e \in good
    BY <1>2, <1>3
  <1> QED
    BY <1>3, <1>4

------------------------------------------------------------------------------
(* Sums over finite sets *)

\* The element that a sum takes first.
First(s) == CHOOSE x \in s : TRUE

\* The sums over the parts of S, as the fold computes them.
SumAt(f, S) ==
  CHOOSE iter : iter = [s \in SUBSET S |-> IF s = {} THEN 0 ELSE f[First(s)] + iter[s \ {First(s)}]]

\* The sum is that of the whole set.
LEMMA SumIs ==
  ASSUME NEW f, NEW S
  PROVE G!SumFunctionOnSet(f, S) = SumAt(f, S)[S]
  BY DEF G!SumFunctionOnSet, G!FoldFunctionOnSet, G!MapThenFoldSet, SumAt, First

\* The recursion ends, so a sum is of its first element and of the others.
LEMMA SumAtIs ==
  ASSUME NEW f, NEW S, IsFiniteSet(S), \A x \in S : f[x] \in Nat
  PROVE  /\ SumAt(f, S) \in [SUBSET S -> Nat]
         /\ \A s \in SUBSET S : SumAt(f, S)[s] = IF s = {} THEN 0 ELSE f[First(s)] + SumAt(f, S)[s \ {First(s)}]
  <1> DEFINE rank == [s \in SUBSET S |-> Cardinality(s)]
             then == [s \in SUBSET S |-> s \ {First(s)}]
             zero == [s \in SUBSET S |-> 0]
             plus == [p \in (SUBSET S) \X Nat |-> IF p[1] = {} THEN 0 ELSE f[First(p[1])] + p[2]]
  <1>0. \A s \in SUBSET S : s # {} => First(s) \in s
    BY DEF First
  <1>1. Cardinality(S) \in Nat /\ rank \in [SUBSET S -> 0..Cardinality(S)]
    BY FS_CardinalityType, FS_Subset
  <1>2. then \in [SUBSET S -> SUBSET S] /\ zero \in [SUBSET S -> Nat]
    OBVIOUS
  <1>3. plus \in [(SUBSET S) \X Nat -> Nat]
    <2>1. \A p \in (SUBSET S) \X Nat : p[1] # {} => f[First(p[1])] \in Nat
      BY <1>0
    <2> QED
      BY <2>1
  <1>4. ASSUME NEW s \in (SUBSET S) \ {{}}
        PROVE  rank[then[s]] < rank[s]
    <2>1. IsFiniteSet(s) /\ First(s) \in s
      BY <1>0, FS_Subset
    <2>2. Cardinality(s \ {First(s)}) = Cardinality(s) - 1 /\ Cardinality(s) \in Nat
      BY <2>1, FS_RemoveElement, FS_CardinalityType
    <2> QED
      BY <2>2
  <1>5. \E it \in [SUBSET S -> Nat] : Computes(it, SUBSET S, {{}}, zero, then, plus)
    <2>1. \A s \in (SUBSET S) \ {{}} : rank[then[s]] < rank[s]
      BY <1>4
    <2>2. Falls(SUBSET S, Nat, Cardinality(S), rank, {{}}, zero, then, plus)
      <3> HIDE DEF rank, then, zero, plus
      <3> QED
        BY <1>1, <1>2, <1>3, <2>1 DEF Falls
    <2> HIDE DEF rank, then, zero, plus
    <2> QED
      BY <2>2, RankRecursion
  <1>6. PICK it \in [SUBSET S -> Nat] :
          \A s \in SUBSET S : it[s] = IF s = {} THEN 0 ELSE f[First(s)] + it[s \ {First(s)}]
    <2>1. PICK it \in [SUBSET S -> Nat] :
            \A s \in SUBSET S : it[s] = IF s \in {{}} THEN zero[s] ELSE plus[<<s, it[then[s]]>>]
      BY <1>5 DEF Computes
    <2>2. ASSUME NEW s \in SUBSET S
          PROVE  it[s] = IF s = {} THEN 0 ELSE f[First(s)] + it[s \ {First(s)}]
      <3>1. s \ {First(s)} \in SUBSET S /\ it[s \ {First(s)}] \in Nat
        OBVIOUS
      <3> QED
        BY <2>1, <3>1
    <2> QED
      BY <2>2
  <1>7. it = [s \in SUBSET S |-> IF s = {} THEN 0 ELSE f[First(s)] + it[s \ {First(s)}]]
    BY <1>6
  <1>8. SumAt(f, S) = [s \in SUBSET S |->
                        IF s = {} THEN 0 ELSE f[First(s)] + SumAt(f, S)[s \ {First(s)}]]
    BY <1>7 DEF SumAt
  <1> DEFINE sum == SumAt(f, S)
             same == {s \in SUBSET S : sum[s] = it[s]}
  <1> HIDE DEF sum
  <1>9. \A s \in SUBSET S : sum[s] = IF s = {} THEN 0 ELSE f[First(s)] + sum[s \ {First(s)}]
    BY <1>8 DEF sum
  <1>10. same = SUBSET S
    <2>1. ASSUME NEW s \in SUBSET S, \A e \in SUBSET S : rank[e] < rank[s] => e \in same
          PROVE  s \in same
      <3>1. s # {} => then[s] \in SUBSET S /\ then[s] \in same
        BY <1>2, <1>4, <2>1
      <3>2. s # {} => sum[s \ {First(s)}] = it[s \ {First(s)}]
        BY <3>1
      <3> QED
        BY <1>6, <1>9, <3>2
    <2>2. rank \in [SUBSET S -> Nat] /\ same \in SUBSET SUBSET S
      BY <1>1
    <2> HIDE DEF rank, same
    <2> QED
      BY <2>1, <2>2, RankInduction
  <1>11. sum \in [SUBSET S -> Nat]
    <2>1. \A s \in SUBSET S : sum[s] \in Nat
      BY <1>10
    <2>2. sum = [s \in SUBSET S |-> sum[s]]
      BY <1>8 DEF sum
    <2> HIDE DEF same
    <2> QED
      BY <2>1, <2>2
  <1> QED
    BY <1>9, <1>11 DEF sum

\* Taking an element out leaves fewer.
LEMMA Fewer ==
  ASSUME NEW S, IsFiniteSet(S), NEW x \in S
  PROVE  Cardinality(S) \in Nat /\ Cardinality(S \ {x}) \in Nat /\ Cardinality(S \ {x}) < Cardinality(S)
  <1>1. Cardinality(S) \in Nat
    BY FS_CardinalityType
  <1>2. Cardinality(S \ {x}) \in Nat
    BY FS_RemoveElement, FS_CardinalityType
  <1>3. Cardinality(S \ {x}) = Cardinality(S) - 1
    BY FS_RemoveElement
  <1> QED
    BY <1>1, <1>2, <1>3

\* The sum of f over S.
Sum(f, S) == G!SumFunctionOnSet(f, S)

\* A part of a set sums to the same wherever it is summed.
LEMMA SumPart ==
  ASSUME NEW f, NEW S, IsFiniteSet(S), \A x \in S : f[x] \in Nat, NEW s \in SUBSET S
  PROVE  SumAt(f, S)[s] = Sum(f, s)
  <1> DEFINE all == SumAt(f, S)
             own == SumAt(f, s)
             rank == [t \in SUBSET s |-> Cardinality(t)]
             same == {t \in SUBSET s : all[t] = own[t]}
  <1>1. IsFiniteSet(s) /\ \A x \in s : f[x] \in Nat
    BY FS_Subset
  <1>2. \A t \in SUBSET S : all[t] = IF t = {} THEN 0 ELSE f[First(t)] + all[t \ {First(t)}]
    BY SumAtIs
  <1>3. \A t \in SUBSET s : own[t] = IF t = {} THEN 0 ELSE f[First(t)] + own[t \ {First(t)}]
    BY <1>1, SumAtIs
  <1> HIDE DEF all, own
  <1>4. ASSUME NEW t \in SUBSET s, \A e \in SUBSET s : rank[e] < rank[t] => e \in same
        PROVE  t \in same
    <2>1. CASE t = {}
      BY <1>2, <1>3, <2>1
    <2>2. CASE t # {}
      <3>1. First(t) \in t /\ IsFiniteSet(t)
        BY <1>1, <2>2, FS_Subset DEF First
      <3>2. Cardinality(t \ {First(t)}) < Cardinality(t)
        BY <3>1, Fewer
      <3>3. t \ {First(t)} \in same
        BY <1>4, <3>2
      <3> QED
        BY <1>2, <1>3, <2>2, <3>3
    <2> QED
      BY <2>1, <2>2
  <1>5. rank \in [SUBSET s -> Nat] /\ same \in SUBSET SUBSET s
    BY <1>1, FS_Subset, FS_CardinalityType
  <1>6. same = SUBSET s
    <2> HIDE DEF rank, same
    <2> QED
      BY <1>4, <1>5, RankInduction
  <1>7. all[s] = own[s]
    BY <1>6
  <1> QED
    BY <1>7, SumIs DEF all, own, Sum

\* A sum is of its first and of the others.
LEMMA SumFirst ==
  ASSUME NEW f, NEW S, IsFiniteSet(S), \A x \in S : f[x] \in Nat
  PROVE  /\ Sum(f, S) \in Nat
         /\ Sum(f, S) = IF S = {} THEN 0 ELSE f[First(S)] + Sum(f, S \ {First(S)})
  <1> DEFINE all == SumAt(f, S)
             rest == S \ {First(S)}
  <1>1. Sum(f, S) = all[S] /\ Sum(f, rest) = all[rest]
    <2>1. \A s \in SUBSET S : all[s] = Sum(f, s)
      BY SumPart
    <2> HIDE DEF all
    <2> QED
      BY <2>1
  <1>2. \A s \in SUBSET S : all[s] = IF s = {} THEN 0 ELSE f[First(s)] + all[s \ {First(s)}]
    BY SumAtIs
  <1>3. all \in [SUBSET S -> Nat]
    BY SumAtIs
  <1> HIDE DEF all
  <1>4. all[S] = IF S = {} THEN 0 ELSE f[First(S)] + all[rest]
    BY <1>2
  <1>5. all[S] \in Nat
    BY <1>3
  <1> QED
    BY <1>1, <1>4, <1>5

\* A sum is of any one and of the others.
LEMMA SumRemove ==
  ASSUME NEW f, NEW S, IsFiniteSet(S), \A x \in S : f[x] \in Nat
  PROVE  \A x \in S : Sum(f, S) = f[x] + Sum(f, S \ {x})
  <1> DEFINE rank == [t \in SUBSET S |-> Cardinality(t)]
             good == {t \in SUBSET S : \A x \in t : Sum(f, t) = f[x] + Sum(f, t \ {x})}
  <1>1. \A t \in SUBSET S : IsFiniteSet(t) /\ \A x \in t : f[x] \in Nat
    BY FS_Subset
  <1>2. \A t \in SUBSET S : \A x \in t : rank[t \ {x}] < rank[t]
    BY <1>1, Fewer
  <1>3. ASSUME NEW t \in SUBSET S, \A e \in SUBSET S : rank[e] < rank[t] => e \in good, NEW x \in t
        PROVE  Sum(f, t) = f[x] + Sum(f, t \ {x})
    <2> DEFINE c == First(t)
    <2>1. c \in t
      BY DEF First
    <2>2. Sum(f, t) = f[c] + Sum(f, t \ {c})
      BY <1>1, SumFirst
    <2> HIDE DEF c
    <2>3. CASE x # c
      <3>1. t \ {x} \in good /\ t \ {c} \in good
        BY <1>2, <1>3, <2>1
      <3>2. Sum(f, t \ {c}) = f[x] + Sum(f, (t \ {c}) \ {x}) /\ Sum(f, t \ {x}) = f[c] + Sum(f, (t \ {x}) \ {c})
        BY <2>1, <2>3, <3>1
      <3>3. (t \ {c}) \ {x} = (t \ {x}) \ {c}
        OBVIOUS
      <3>4. Sum(f, (t \ {x}) \ {c}) \in Nat /\ f[x] \in Nat /\ f[c] \in Nat
        BY <1>1, <2>1, SumFirst
      <3> QED
        BY <2>2, <3>2, <3>3, <3>4
    <2> QED
      BY <2>2, <2>3
  <1>4. rank \in [SUBSET S -> Nat] /\ good \in SUBSET SUBSET S
    BY <1>1, FS_CardinalityType
  <1>5. \A t \in SUBSET S : (\A e \in SUBSET S : rank[e] < rank[t] => e \in good) => t \in good
    BY <1>3
  <1>6. good = SUBSET S
    <2> HIDE DEF rank, good
    <2> QED
      BY <1>4, <1>5, RankInduction
  <1> QED
    BY <1>6

\* What holds of the empty set, and of a set with one more, holds of a finite one.
LEMMA SetInduction ==
  ASSUME NEW S, IsFiniteSet(S), NEW good \in SUBSET SUBSET S, {} \in good,
         \A t \in SUBSET S : \A x \in t : t \ {x} \in good => t \in good
  PROVE  S \in good
  <1> DEFINE rank == [t \in SUBSET S |-> Cardinality(t)]
  <1>1. \A t \in SUBSET S : IsFiniteSet(t)
    BY FS_Subset
  <1>2. \A t \in SUBSET S : \A x \in t : rank[t \ {x}] < rank[t]
    BY <1>1, Fewer
  <1>3. rank \in [SUBSET S -> Nat]
    BY <1>1, FS_CardinalityType
  <1>4. \A t \in SUBSET S : (\A e \in SUBSET S : rank[e] < rank[t] => e \in good) => t \in good
    <2> TAKE t \in SUBSET S
    <2> HAVE \A e \in SUBSET S : rank[e] < rank[t] => e \in good
    <2>1. CASE t # {}
      <3>1. PICK x \in t : TRUE
        BY <2>1
      <3>2. t \ {x} \in good
        BY <1>2, <3>1
      <3> QED
        BY <3>1, <3>2
    <2> QED
      BY <2>1
  <1>5. good = SUBSET S
    <2> HIDE DEF rank
    <2> QED
      BY <1>3, <1>4, RankInduction
  <1> QED
    BY <1>5

\* Sums of equal values are equal.
LEMMA SumSame ==
  ASSUME NEW f, NEW h, NEW S, IsFiniteSet(S), \A x \in S : f[x] \in Nat /\ h[x] = f[x]
  PROVE  Sum(h, S) = Sum(f, S)
  <1> DEFINE good == {t \in SUBSET S : Sum(h, t) = Sum(f, t)}
  <1>1. \A t \in SUBSET S : IsFiniteSet(t) /\ \A x \in t : f[x] \in Nat /\ h[x] \in Nat
    BY FS_Subset
  <1>2. {} \in good
    BY <1>1, SumFirst
  <1>3. ASSUME NEW t \in SUBSET S, NEW x \in t, t \ {x} \in good
        PROVE  t \in good
    <2>1. Sum(f, t) = f[x] + Sum(f, t \ {x})
      BY <1>1, SumRemove
    <2>2. Sum(h, t) = h[x] + Sum(h, t \ {x})
      BY <1>1, SumRemove
    <2> QED
      BY <1>3, <2>1, <2>2
  <1>4. good \in SUBSET SUBSET S
    OBVIOUS
  <1>5. S \in good
    <2> HIDE DEF good
    <2> QED
      BY <1>2, <1>3, <1>4, SetInduction
  <1> QED
    BY <1>5

\* A sum is of a part and of the rest.
LEMMA SumSplit ==
  ASSUME NEW f, NEW S, IsFiniteSet(S), \A x \in S : f[x] \in Nat, NEW T \in SUBSET S
  PROVE  Sum(f, S) = Sum(f, T) + Sum(f, S \ T)
  <1> DEFINE good == {t \in SUBSET T : Sum(f, S) = Sum(f, t) + Sum(f, S \ t)}
  <1>1. IsFiniteSet(T) /\ \A t \in SUBSET S : IsFiniteSet(t) /\ \A x \in t : f[x] \in Nat
    BY FS_Subset
  <1>2. {} \in good
    <2>1. Sum(f, {}) = 0 /\ Sum(f, S) \in Nat /\ S \ {} = S
      BY <1>1, SumFirst
    <2> QED
      BY <2>1
  <1>3. ASSUME NEW t \in SUBSET T, NEW x \in t, t \ {x} \in good
        PROVE  t \in good
    <2>1. Sum(f, t) = f[x] + Sum(f, t \ {x})
      BY <1>1, SumRemove
    <2>2. Sum(f, S \ (t \ {x})) = f[x] + Sum(f, (S \ (t \ {x})) \ {x})
      <3>1. S \ (t \ {x}) \in SUBSET S /\ x \in S \ (t \ {x})
        OBVIOUS
      <3> QED
        BY <1>1, <3>1, SumRemove
    <2>3. (S \ (t \ {x})) \ {x} = S \ t
      OBVIOUS
    <2>4. Sum(f, t \ {x}) \in Nat /\ Sum(f, S \ t) \in Nat /\ f[x] \in Nat
      BY <1>1, SumFirst
    <2>5. Sum(f, S) = Sum(f, t \ {x}) + Sum(f, S \ (t \ {x}))
      BY <1>3
    <2> QED
      BY <2>1, <2>2, <2>3, <2>4, <2>5
  <1>4. good \in SUBSET SUBSET T
    OBVIOUS
  <1>5. T \in good
    <2> HIDE DEF good
    <2> QED
      BY <1>1, <1>2, <1>3, <1>4, SetInduction
  <1> QED
    BY <1>5

\* A sum of values up to c is at most c for each.
LEMMA SumBound ==
  ASSUME NEW f, NEW S, IsFiniteSet(S), NEW c \in Nat, \A x \in S : f[x] \in Nat /\ f[x] <= c
  PROVE  Sum(f, S) <= c * Cardinality(S)
  <1> DEFINE good == {t \in SUBSET S : Sum(f, t) <= c * Cardinality(t)}
  <1>1. \A t \in SUBSET S : IsFiniteSet(t) /\ \A x \in t : f[x] \in Nat /\ f[x] <= c
    BY FS_Subset
  <1>2. {} \in good
    <2>1. Sum(f, {}) = 0 /\ Cardinality({}) = 0
      BY <1>1, SumFirst, FS_EmptySet
    <2> QED
      BY <2>1
  <1>3. ASSUME NEW t \in SUBSET S, NEW x \in t, t \ {x} \in good
        PROVE  t \in good
    <2> DEFINE k == Cardinality(t \ {x})
    <2>1. Sum(f, t) = f[x] + Sum(f, t \ {x}) /\ Sum(f, t \ {x}) \in Nat
      <3>1. Sum(f, t) = f[x] + Sum(f, t \ {x})
        BY <1>1, SumRemove
      <3>2. IsFiniteSet(t \ {x}) /\ \A y \in t \ {x} : f[y] \in Nat
        BY <1>1
      <3> QED
        BY <3>1, <3>2, SumFirst
    <2>2. k \in Nat /\ Cardinality(t) = k + 1
      <3>1. Cardinality(t) \in Nat /\ k = Cardinality(t) - 1
        BY <1>1, FS_RemoveElement, FS_CardinalityType
      <3> QED
        BY <1>1, <3>1, Fewer
    <2>3. Sum(f, t \ {x}) <= c * k
      BY <1>3
    <2> HIDE DEF k
    <2>4. c * (k + 1) = c * k + c /\ c * k \in Nat
      BY <2>2
    <2>5. f[x] \in Nat /\ f[x] <= c
      OBVIOUS
    <2>6. Sum(f, t) <= c * Cardinality(t)
      <3> DEFINE all == c * k
                 rest == Sum(f, t \ {x})
      <3>1. all \in Nat /\ rest \in Nat /\ rest <= all
        BY <2>1, <2>3, <2>4
      <3>2. Sum(f, t) = f[x] + rest /\ c * Cardinality(t) = all + c
        BY <2>1, <2>2, <2>4
      <3> HIDE DEF all, rest
      <3> QED
        BY <2>5, <3>1, <3>2
    <2> QED
      BY <2>6
  <1>4. good \in SUBSET SUBSET S
    OBVIOUS
  <1>5. S \in good
    <2> HIDE DEF good
    <2> QED
      BY <1>2, <1>3, <1>4, SetInduction
  <1> QED
    BY <1>5

------------------------------------------------------------------------------
(* The body of a request *)

\* One round of bound_vision_request at <<images left, room left>>: the even share of the
\* room, the images that fit it, and the round after these are settled.
Share(at) == at[2] \div G!Cardinality(at[1])
Fitting(images, at) == {i \in at[1] : images[i] <= Share(at)}
Settles(images, at) == at[1] = {} \/ Fitting(images, at) = {}
Evenly(images, at) == [i \in Image |-> IF i \in at[1] THEN Share(at) ELSE images[i]]
NextRound(images, at) == <<at[1] \ Fitting(images, at), at[2] - Sum(images, Fitting(images, at))>>

\* Every round there may be.
Rounds(room) == (SUBSET Image) \X (0..room)

\* What the rounds leave each image, as Granted computes it from the round on.
GrantAt(images, room) ==
  CHOOSE grant : grant = [at \in Rounds(room) |->
    IF Settles(images, at) THEN Evenly(images, at) ELSE grant[NextRound(images, at)]]

\* Granted begins with every image and the whole room.
LEMMA GrantedAt ==
  ASSUME NEW images, NEW room
  PROVE  G!Granted(images, room) = GrantAt(images, room)[<<Image, room>>]
  BY DEF G!Granted, GrantAt, Rounds, Settles, Evenly, NextRound, Fitting, Share, Sum

\* The even share, in numbers.
LEMMA ShareIs ==
  ASSUME NEW room \in Nat, NEW at \in Rounds(room), at[1] # {}
  PROVE  /\ Share(at) \in Nat /\ Cardinality(at[1]) \in Nat \ {0} /\ at[2] \in 0..room
         /\ Share(at) * Cardinality(at[1]) <= at[2]
         /\ Share(at) = at[2] \div Cardinality(at[1])
  <1>1. G!Cardinality(at[1]) = Cardinality(at[1])
    BY DEF G!Cardinality, Cardinality
  <1>2. at[1] \in SUBSET Image /\ at[2] \in 0..room
    BY DEF Rounds
  <1>3. IsFiniteSet(at[1])
    BY <1>2, FS_Subset, GatewayConstants DEF GatewayConstants
  <1>4. Cardinality(at[1]) \in Nat \ {0}
    BY <1>3, FS_CardinalityType, FS_EmptySet
  <1> DEFINE n == Cardinality(at[1])
             left == at[2]
  <1>5. Share(at) = left \div n
    BY <1>1 DEF Share
  <1>6. n \in Nat \ {0} /\ left \in Nat
    BY <1>2, <1>4
  <1> HIDE DEF n, left
  <1>7. left \div n \in Nat /\ (left \div n) * n <= left
    BY <1>6
  <1> QED
    BY <1>2, <1>4, <1>5, <1>7 DEF n, left

\* A round that does not settle keeps the rest of the images and of the room.
LEMMA RoundIs ==
  ASSUME NEW room \in Nat, NEW images \in [Image -> Nat], NEW at \in Rounds(room), ~Settles(images, at)
  PROVE  /\ NextRound(images, at) \in Rounds(room)
         /\ Cardinality(NextRound(images, at)[1]) < Cardinality(at[1])
  <1> DEFINE small == Fitting(images, at)
             k == Cardinality(small)
             n == Cardinality(at[1])
  <1>1. at[1] \in SUBSET Image /\ at[1] # {} /\ small # {} /\ small \subseteq at[1]
    BY DEF Rounds, Settles, Fitting
  <1>2. IsFiniteSet(at[1]) /\ IsFiniteSet(small)
    BY <1>1, FS_Subset, GatewayConstants DEF GatewayConstants
  <1>3. k \in Nat /\ n \in Nat /\ k <= n
    BY <1>1, <1>2, FS_Subset, FS_CardinalityType
  <1>4. \A i \in small : images[i] \in Nat /\ images[i] <= Share(at)
    BY <1>1 DEF Fitting
  <1>5. Share(at) \in Nat /\ Share(at) * n <= at[2] /\ at[2] \in 0..room
    BY <1>1, ShareIs
  <1>6. Sum(images, small) \in Nat /\ Sum(images, small) <= Share(at) * k
    BY <1>2, <1>4, <1>5, SumFirst, SumBound
  <1>7. Share(at) * k <= Share(at) * n
    <2> DEFINE q == Share(at)
    <2> HIDE DEF q, k, n
    <2>1. q \in Nat
      BY <1>5 DEF q
    <2>2. q * n = q * k + q * (n - k) /\ q * (n - k) \in Nat /\ q * k \in Nat
      BY <1>3, <2>1
    <2>3. q * k <= q * n
      BY <2>2
    <2> QED
      BY <2>3 DEF q
  <1>8. at[2] - Sum(images, small) \in 0..room
    <2> DEFINE a == Share(at) * k
               b == Share(at) * n
               s == Sum(images, small)
    <2>1. a \in Nat /\ b \in Nat
      BY <1>3, <1>5
    <2>2. s \in Nat /\ s <= a /\ a <= b /\ b <= at[2]
      BY <1>5, <1>6, <1>7
    <2> HIDE DEF a, b, s
    <2>3. at[2] - s \in 0..room
      BY <1>5, <2>1, <2>2
    <2> QED
      BY <2>3 DEF s
  <1>9. PICK i \in small : TRUE
    BY <1>1
  <1>10. Cardinality(at[1] \ small) < n
    <2>1. at[1] \ small \in SUBSET (at[1] \ {i})
      OBVIOUS
    <2>2. IsFiniteSet(at[1] \ {i}) /\ Cardinality(at[1] \ {i}) < n /\ Cardinality(at[1] \ {i}) \in Nat
      BY <1>1, <1>2, <1>9, Fewer, FS_Subset
    <2>3. Cardinality(at[1] \ small) <= Cardinality(at[1] \ {i}) /\ IsFiniteSet(at[1] \ small)
      BY <2>1, <2>2, FS_Subset
    <2>4. Cardinality(at[1] \ small) \in Nat
      BY <2>3, FS_CardinalityType
    <2> QED
      BY <1>3, <2>2, <2>3, <2>4
  <1> QED
    BY <1>1, <1>8, <1>10 DEF NextRound, Rounds

\* The rounds end, so what an image is granted is what its last round leaves it.
LEMMA GrantIs ==
  ASSUME NEW room \in Nat, NEW images \in [Image -> Nat]
  PROVE  \A at \in Rounds(room) :
           GrantAt(images, room)[at] = IF Settles(images, at) THEN Evenly(images, at)
                                       ELSE GrantAt(images, room)[NextRound(images, at)]
  <1> DEFINE Grants == [Image -> Nat]
             most == Cardinality(Image)
             rank == [at \in Rounds(room) |-> Cardinality(at[1])]
             stop == {at \in Rounds(room) : Settles(images, at)}
             val == [at \in Rounds(room) |-> IF Settles(images, at) THEN Evenly(images, at) ELSE images]
             then == [at \in Rounds(room) |-> IF Settles(images, at) THEN at ELSE NextRound(images, at)]
             same == [p \in Rounds(room) \X Grants |-> p[2]]
  <1>1. most \in Nat /\ \A at \in Rounds(room) : Cardinality(at[1]) \in 0..most
    <2>1. IsFiniteSet(Image)
      BY GatewayConstants DEF GatewayConstants
    <2>2. \A s \in SUBSET Image : IsFiniteSet(s) /\ Cardinality(s) <= most /\ Cardinality(s) \in Nat /\ most \in Nat
      BY <2>1, FS_Subset, FS_CardinalityType
    <2>3. \A at \in Rounds(room) : at[1] \in SUBSET Image
      BY DEF Rounds
    <2> QED
      BY <2>2, <2>3
  <1>2. rank \in [Rounds(room) -> 0..most]
    BY <1>1
  <1>3. ASSUME NEW at \in Rounds(room), Settles(images, at)
        PROVE  Evenly(images, at) \in Grants
    <2>1. CASE at[1] = {}
      <3>1. \A i \in Image : i \notin at[1]
        BY <2>1
      <3>2. Evenly(images, at) = [i \in Image |-> images[i]]
        BY <3>1 DEF Evenly
      <3> QED
        BY <3>2
    <2>2. CASE at[1] # {}
      <3>1. Share(at) \in Nat
        BY <2>2, ShareIs
      <3> QED
        BY <3>1 DEF Evenly
    <2> QED
      BY <2>1, <2>2
  <1>4. val \in [Rounds(room) -> Grants]
    <2> HIDE DEF Grants
    <2>1. images \in Grants
      BY DEF Grants
    <2> QED
      BY <1>3, <2>1
  <1>5. then \in [Rounds(room) -> Rounds(room)]
    BY RoundIs
  <1>6. same \in [Rounds(room) \X Grants -> Grants]
    <2> HIDE DEF Grants
    <2> QED
      OBVIOUS
  <1>7. \A at \in Rounds(room) \ stop : rank[then[at]] < rank[at]
    BY RoundIs
  <1>8. Falls(Rounds(room), Grants, most, rank, stop, val, then, same)
    <2>1. stop \in SUBSET Rounds(room)
      OBVIOUS
    <2> HIDE DEF Grants, most, rank, stop, val, then, same
    <2> QED
      BY <1>1, <1>2, <1>4, <1>5, <1>6, <1>7, <2>1 DEF Falls
  <1>9. PICK g \in [Rounds(room) -> Grants] : Computes(g, Rounds(room), stop, val, then, same)
    <2> HIDE DEF Grants, most, rank, stop, val, then, same
    <2> QED
      BY <1>8, RankRecursion
  <1>10. g = [at \in Rounds(room) |->
               IF Settles(images, at) THEN Evenly(images, at) ELSE g[NextRound(images, at)]]
    <2> HIDE DEF Grants
    <2>1. ASSUME NEW at \in Rounds(room)
          PROVE  g[at] = IF Settles(images, at) THEN Evenly(images, at) ELSE g[NextRound(images, at)]
      <3>1. g[at] = IF at \in stop THEN val[at] ELSE same[<<at, g[then[at]]>>]
        BY <1>9 DEF Computes
      <3>2. g[then[at]] \in Grants /\ then[at] \in Rounds(room)
        BY <1>5, <1>9
      <3>3. same[<<at, g[then[at]]>>] = g[then[at]]
        BY <3>2
      <3> QED
        BY <3>1, <3>3
    <2> QED
      BY <1>9, <2>1
  <1>11. GrantAt(images, room) = [at \in Rounds(room) |->
           IF Settles(images, at) THEN Evenly(images, at) ELSE GrantAt(images, room)[NextRound(images, at)]]
    BY <1>10 DEF GrantAt
  <1> DEFINE grant == GrantAt(images, room)
  <1> HIDE DEF grant
  <1> QED
    BY <1>11 DEF grant

\* What a round grants: the images that are not in it stay, the others share the room, and
\* no image that stays as it is takes more than one that was made smaller.
Leveled(images, at, grant) ==
  /\ grant \in [Image -> Nat]
  /\ \A i \in Image \ at[1] : grant[i] = images[i]
  /\ Sum(grant, at[1]) <= at[2]
  /\ \E level \in Nat :
       /\ at[1] # {} => Share(at) <= level
       /\ \A i \in at[1] : \/ grant[i] = images[i] /\ images[i] <= level
                           \/ grant[i] = level /\ level < images[i]

\* The last round is leveled.
LEMMA EvenlyLevels ==
  ASSUME NEW room \in Nat, NEW images \in [Image -> Nat], NEW at \in Rounds(room), Settles(images, at)
  PROVE  Leveled(images, at, Evenly(images, at))
  <1> DEFINE grant == Evenly(images, at)
  <1> SUFFICES Leveled(images, at, grant)
    OBVIOUS
  <1>0. at[1] \in SUBSET Image /\ at[2] \in 0..room
    BY DEF Rounds
  <1>1. CASE at[1] = {}
    <2>1. \A i \in Image : grant[i] = images[i]
      BY <1>1 DEF Evenly
    <2>2. grant \in [Image -> Nat]
      BY <2>1 DEF Evenly
    <2>3. Sum(grant, at[1]) = 0
      BY <1>1, SumFirst, FS_EmptySet
    <2> HIDE DEF grant
    <2> QED
      BY <1>0, <1>1, <2>1, <2>2, <2>3 DEF Leveled
  <1>2. CASE at[1] # {}
    <2>1. Share(at) \in Nat /\ Share(at) * Cardinality(at[1]) <= at[2] /\ Cardinality(at[1]) \in Nat
      BY <1>2, ShareIs
    <2>2. grant \in [Image -> Nat] /\ \A i \in Image \ at[1] : grant[i] = images[i]
      BY <2>1 DEF Evenly
    <2>3. \A i \in at[1] : grant[i] = Share(at) /\ Share(at) < images[i]
      BY <1>0, <1>2, <2>1 DEF Evenly, Settles, Fitting
    <2> HIDE DEF grant
    <2>4. IsFiniteSet(at[1])
      BY <1>0, FS_Subset, GatewayConstants DEF GatewayConstants
    <2>5. Sum(grant, at[1]) <= at[2]
      <3>1. \A i \in at[1] : grant[i] \in Nat /\ grant[i] <= Share(at)
        BY <2>1, <2>3
      <3>2. Sum(grant, at[1]) <= Share(at) * Cardinality(at[1]) /\ Sum(grant, at[1]) \in Nat
        BY <2>1, <2>4, <3>1, SumBound, SumFirst
      <3> DEFINE all == Share(at) * Cardinality(at[1])
                 s == Sum(grant, at[1])
      <3>3. all \in Nat /\ s \in Nat /\ s <= all /\ all <= at[2] /\ at[2] \in Nat
        BY <1>0, <2>1, <3>2
      <3> HIDE DEF all, s
      <3>4. s <= at[2]
        BY <3>3
      <3> QED
        BY <3>4 DEF s
    <2> QED
      BY <2>1, <2>2, <2>3, <2>5 DEF Leveled
  <1> QED
    BY <1>1, <1>2

\* Two parts that share nothing count together.
LEMMA PartsCount ==
  ASSUME NEW S, NEW T, IsFiniteSet(S), IsFiniteSet(T), S \cap T = {}
  PROVE  Cardinality(S \cup T) = Cardinality(S) + Cardinality(T)
  <1>1. Cardinality(S \cup T) = Cardinality(S) + Cardinality(T) - Cardinality(S \cap T)
    BY FS_Union
  <1>2. Cardinality(S \cap T) = 0
    BY FS_EmptySet
  <1>3. Cardinality(S) \in Nat /\ Cardinality(T) \in Nat
    BY FS_CardinalityType
  <1> QED
    BY <1>1, <1>2, <1>3

\* What the later rounds level, with the images that fitted this one, is leveled.
LEMMA LaterLevels ==
  ASSUME NEW room \in Nat, NEW images \in [Image -> Nat], NEW at \in Rounds(room),
         ~Settles(images, at), NEW grant, Leveled(images, NextRound(images, at), grant)
  PROVE  Leveled(images, at, grant)
  <1> DEFINE small == Fitting(images, at)
             rest == at[1] \ small
             left == at[2] - Sum(images, small)
  <1>1. at[1] \in SUBSET Image /\ at[1] # {} /\ small # {} /\ small \subseteq at[1]
    BY DEF Rounds, Settles, Fitting
  <1>2. IsFiniteSet(at[1]) /\ IsFiniteSet(small) /\ IsFiniteSet(rest)
    BY <1>1, FS_Subset, GatewayConstants DEF GatewayConstants
  <1>3. Share(at) \in Nat /\ at[2] \in Nat /\ \A i \in small : images[i] <= Share(at)
    BY <1>1, ShareIs DEF Fitting
  <1>4. <<rest, left>> \in Rounds(room) /\ NextRound(images, at) = <<rest, left>>
    BY RoundIs DEF NextRound
  <1>5. PICK level \in Nat :
          /\ rest # {} => Share(<<rest, left>>) <= level
          /\ \A i \in rest : \/ grant[i] = images[i] /\ images[i] <= level
                             \/ grant[i] = level /\ level < images[i]
    BY <1>4 DEF Leveled
  <1>6. /\ grant \in [Image -> Nat] /\ \A i \in Image \ rest : grant[i] = images[i]
        /\ Sum(grant, rest) <= left
    BY <1>4 DEF Leveled
  <1>7. Sum(grant, at[1]) <= at[2]
    <2>1. Sum(grant, at[1]) = Sum(grant, small) + Sum(grant, rest)
      BY <1>1, <1>2, <1>6, SumSplit
    <2>2. Sum(grant, small) = Sum(images, small) /\ Sum(images, small) \in Nat
      <3>1. \A i \in small : images[i] \in Nat /\ grant[i] = images[i]
        BY <1>1, <1>6
      <3> HIDE DEF small
      <3> QED
        BY <1>2, <3>1, SumSame, SumFirst
    <2>3. Sum(grant, rest) \in Nat
      BY <1>1, <1>2, <1>6, SumFirst
    <2> QED
      BY <1>3, <1>6, <2>1, <2>2, <2>3
  <1>8. CASE rest = {}
    <2>1. \A i \in at[1] : grant[i] = images[i] /\ images[i] <= Share(at)
      BY <1>1, <1>3, <1>6, <1>8
    <2> QED
      BY <1>1, <1>3, <1>6, <1>7, <2>1 DEF Leveled
  <1>9. CASE rest # {}
    <2>1. Share(at) <= Share(<<rest, left>>) /\ Share(<<rest, left>>) \in Nat
      <3> DEFINE q == Share(at)
                 n == Cardinality(at[1])
                 m == Cardinality(rest)
                 s == Sum(images, small)
                 k == Cardinality(small)
      <3>1. q \in Nat /\ n \in Nat /\ q * n <= at[2] /\ at[2] \in Nat
        BY <1>1, ShareIs
      <3>2. m \in Nat \ {0} /\ Share(<<rest, left>>) = left \div m /\ left \in Nat
        <4> DEFINE next == <<rest, left>>
        <4>1. next \in Rounds(room) /\ next[1] = rest /\ next[2] = left
          BY <1>4
        <4> HIDE DEF next, rest, left
        <4>2. Share(next) = left \div Cardinality(rest) /\ Cardinality(rest) \in Nat \ {0} /\ left \in 0..room
          BY <1>9, <4>1, ShareIs
        <4> QED
          BY <4>2 DEF next
      <3>3. k \in Nat /\ n = m + k
        <4>1. Cardinality(at[1]) = Cardinality(rest) + Cardinality(small)
          <5>1. rest \cap small = {} /\ at[1] = rest \cup small
            BY <1>1
          <5> HIDE DEF rest, small
          <5> QED
            BY <1>2, <5>1, PartsCount
        <4> QED
          BY <1>2, <4>1, FS_CardinalityType
      <3>4. s \in Nat /\ s <= q * k
        BY <1>1, <1>2, <1>3, SumFirst, SumBound
      <3>5. left = at[2] - s
        OBVIOUS
      <3> HIDE DEF q, n, m, s, k, left
      <3>6. q * n = q * m + q * k /\ q * m \in Nat /\ q * k \in Nat
        BY <3>1, <3>2, <3>3
      <3>7. q * m <= left
        BY <3>1, <3>2, <3>4, <3>5, <3>6
      <3>8. q <= left \div m /\ left \div m \in Nat
        BY <3>1, <3>2, <3>7
      <3> QED
        BY <3>2, <3>8 DEF q
    <2>2. Share(at) <= level
      BY <1>3, <1>5, <1>9, <2>1
    <2>3. \A i \in small : grant[i] = images[i] /\ images[i] <= level
      BY <1>1, <1>3, <1>6, <2>2
    <2>4. \A i \in at[1] : \/ grant[i] = images[i] /\ images[i] <= level
                           \/ grant[i] = level /\ level < images[i]
      BY <1>5, <2>3
    <2> QED
      BY <1>1, <1>6, <1>7, <2>2, <2>4 DEF Leveled
  <1> QED
    BY <1>8, <1>9

\* So is what the rounds leave each image, from any of them on.
LEMMA RoundsLevel ==
  ASSUME NEW room \in Nat, NEW images \in [Image -> Nat]
  PROVE  \A at \in Rounds(room) : Leveled(images, at, GrantAt(images, room)[at])
  <1> DEFINE rank == [at \in Rounds(room) |-> Cardinality(at[1])]
             good == {at \in Rounds(room) : Leveled(images, at, GrantAt(images, room)[at])}
  <1>1. \A at \in Rounds(room) : Cardinality(at[1]) \in Nat
    <2>1. \A s \in SUBSET Image : IsFiniteSet(s) /\ Cardinality(s) \in Nat
      BY FS_Subset, FS_CardinalityType, GatewayConstants DEF GatewayConstants
    <2> QED
      BY <2>1 DEF Rounds
  <1>2. ASSUME NEW at \in Rounds(room),
               \A next \in Rounds(room) : rank[next] < rank[at] => next \in good
        PROVE  at \in good
    <2>1. GrantAt(images, room)[at] = IF Settles(images, at) THEN Evenly(images, at)
                                      ELSE GrantAt(images, room)[NextRound(images, at)]
      BY GrantIs
    <2>2. CASE Settles(images, at)
      BY <2>1, <2>2, EvenlyLevels
    <2>3. CASE ~Settles(images, at)
      <3>1. NextRound(images, at) \in Rounds(room) /\ rank[NextRound(images, at)] < rank[at]
        BY <2>3, RoundIs
      <3>2. Leveled(images, NextRound(images, at), GrantAt(images, room)[NextRound(images, at)])
        BY <1>2, <3>1
      <3>3. Leveled(images, at, GrantAt(images, room)[at])
        BY <2>1, <2>3, <3>2, LaterLevels
      <3> QED
        BY <3>3
    <2> QED
      BY <2>2, <2>3
  <1>3. rank \in [Rounds(room) -> Nat] /\ good \in SUBSET Rounds(room)
    BY <1>1
  <1>4. good = Rounds(room)
    <2> HIDE DEF rank, good
    <2> QED
      BY <1>2, <1>3, RankInduction
  <1> QED
    BY <1>4

\* What is granted of the room.
LEMMA GrantedLevels ==
  ASSUME NEW room \in Nat, NEW images \in [Image -> Nat]
  PROVE  /\ G!Granted(images, room) \in [Image -> Nat]
         /\ Sum(G!Granted(images, room), Image) <= room
         /\ \E level \in Nat : \A i \in Image :
              \/ G!Granted(images, room)[i] = images[i] /\ images[i] <= level
              \/ G!Granted(images, room)[i] = level /\ level < images[i]
  <1> DEFINE first == <<Image, room>>
             grant == GrantAt(images, room)[first]
  <1>1. first \in Rounds(room) /\ first[1] = Image /\ first[2] = room
    BY DEF Rounds
  <1>2. Leveled(images, first, grant)
    BY <1>1, RoundsLevel
  <1>3. G!Granted(images, room) = grant
    BY GrantedAt
  <1> HIDE DEF grant, first
  <1> QED
    BY <1>1, <1>2, <1>3 DEF Leveled

\* Sums of no greater values are no greater.
LEMMA SumMono ==
  ASSUME NEW f, NEW h, NEW S, IsFiniteSet(S), \A x \in S : f[x] \in Nat /\ h[x] \in Nat /\ h[x] <= f[x]
  PROVE  Sum(h, S) <= Sum(f, S)
  <1> DEFINE good == {t \in SUBSET S : Sum(h, t) <= Sum(f, t)}
  <1>1. \A t \in SUBSET S : IsFiniteSet(t) /\ \A x \in t : f[x] \in Nat /\ h[x] \in Nat /\ h[x] <= f[x]
    BY FS_Subset
  <1>2. \A t \in SUBSET S : Sum(f, t) \in Nat /\ Sum(h, t) \in Nat
    BY <1>1, SumFirst
  <1>3. {} \in good
    <2>1. Sum(f, {}) = 0 /\ Sum(h, {}) = 0
      BY <1>1, SumFirst
    <2> QED
      BY <2>1
  <1>4. ASSUME NEW t \in SUBSET S, NEW x \in t, t \ {x} \in good
        PROVE  t \in good
    <2>1. Sum(f, t) = f[x] + Sum(f, t \ {x}) /\ Sum(h, t) = h[x] + Sum(h, t \ {x})
      BY <1>1, SumRemove
    <2>2. Sum(f, t \ {x}) \in Nat /\ Sum(h, t \ {x}) \in Nat /\ h[x] <= f[x] /\ f[x] \in Nat /\ h[x] \in Nat
      BY <1>1, <1>2
    <2> QED
      BY <1>4, <2>1, <2>2
  <1>5. good \in SUBSET SUBSET S
    OBVIOUS
  <1>6. S \in good
    <2> HIDE DEF good
    <2> QED
      BY <1>3, <1>4, <1>5, SetInduction
  <1> QED
    BY <1>6

\* What bound_vision_request lets through fits, whatever its images were encoded to.
LEMMA BoundedFits ==
  ASSUME NEW images \in [Image -> Size], NEW now \in G!Bounded(images)
  PROVE  BodyFits([was |-> images, now |-> now])
  <1> DEFINE room == BodyLimit - 1 - TextSize
             body == [was |-> images, now |-> now]
  <1>1. images \in [Image -> Nat] /\ TextSize \in Nat /\ BodyLimit \in Nat /\ SmallestImage \in Nat
    BY GatewayConstants DEF GatewayConstants
  <1>2. IsFiniteSet(Image)
    BY GatewayConstants DEF GatewayConstants
  <1>3. \A f \in [Image -> Nat] : /\ G!BodySize(f) = TextSize + Sum(f, Image) /\ Sum(f, Image) \in Nat
    <2>1. \A f \in [Image -> Nat] : G!BodySize(f) = TextSize + Sum(f, Image)
      BY DEF G!BodySize, G!SumFunction, Sum
    <2>2. ASSUME NEW f \in [Image -> Nat] PROVE Sum(f, Image) \in Nat
      BY <1>2, SumFirst
    <2> QED
      BY <2>1, <2>2
  <1>4. body.was = images /\ body.now = now
    OBVIOUS
  <1>5. CASE G!BodySize(images) < BodyLimit
    <2>1. now = images
      BY <1>5 DEF G!Bounded
    <2>2. \A i \in Image : images[i] \in Nat
      BY <1>1
    <2> HIDE DEF body
    <2>3. BodyFits(body)
      BY <1>4, <1>5, <2>1, <2>2 DEF BodyFits
    <2> QED
      BY <2>3 DEF body
  <1>6. CASE ~(G!BodySize(images) < BodyLimit)
    <2> DEFINE grant == G!Granted(images, room)
    <2>1. room \in Nat /\ Image # {}
      BY <1>1, <1>6 DEF G!Bounded
    <2>2. /\ now \in [Image -> 0..BodyLimit]
          /\ \A i \in Image : IF grant[i] = images[i] THEN now[i] = images[i] ELSE now[i] \in SmallestImage..grant[i]
      BY <1>6 DEF G!Bounded
    <2> HIDE DEF grant, room
    <2>3. /\ grant \in [Image -> Nat] /\ Sum(grant, Image) <= room
          /\ \E level \in Nat :
               \A i \in Image : \/ grant[i] = images[i] /\ images[i] <= level
                                \/ grant[i] = level /\ level < images[i]
      BY <1>1, <2>1, GrantedLevels DEF grant
    <2>4. PICK level \in Nat :
            \A i \in Image : \/ grant[i] = images[i] /\ images[i] <= level
                             \/ grant[i] = level /\ level < images[i]
      BY <2>3
    <2>5. \A i \in Image : /\ now[i] \in Nat /\ images[i] \in Nat /\ grant[i] \in Nat
                           /\ now[i] <= grant[i] /\ now[i] <= level
                           /\ now[i] <= images[i]
                           /\ now[i] < images[i] => level < images[i]
      BY <1>1, <2>2, <2>3, <2>4
    <2>6. \A i \in Image : now[i] < images[i] => \A j \in Image : now[j] < images[i]
      BY <2>5
    <2>7. G!BodySize(now) < BodyLimit
      <3>1. Sum(now, Image) <= Sum(grant, Image)
        BY <1>2, <2>5, SumMono
      <3>2. now \in [Image -> Nat]
        BY <2>2
      <3> QED
        BY <1>1, <1>3, <2>1, <2>3, <3>1, <3>2 DEF room
    <2> HIDE DEF body
    <2>8. BodyFits(body)
      <3>1. \A i \in Image : /\ now[i] <= images[i]
                             /\ now[i] < images[i] => \A j \in Image : now[j] < images[i]
        BY <2>5, <2>6
      <3> QED
        <4>1. G!BodySize(body.now) < BodyLimit /\ ~(G!BodySize(body.was) < BodyLimit)
          BY <1>4, <1>6, <2>7
        <4>2. \A i \in Image : /\ body.now[i] <= body.was[i]
                               /\ body.now[i] < body.was[i] => \A j \in Image : body.now[j] < body.was[i]
          BY <1>4, <3>1
        <4> QED
          BY <4>1, <4>2 DEF BodyFits
    <2> QED
      BY <2>8 DEF body
  <1> QED
    BY <1>5, <1>6

------------------------------------------------------------------------------
(* The questions *)

\* The modes that are asked for, and what the rounds before them may have lost: a later
\* round may have lost one run more for each retry.
LEMMA UsableIs ==
  ASSUME NEW known, NEW m \in G!Modes
  PROVE  /\ G!Usable(known, m) \in G!Modes
         /\ m # "text" => /\ G!FormatDowngrades[m] \in G!Modes
                          /\ \A json \in {"initial", "repair"} :
                               Due(json, m) + MaxRetries <= Due(json, G!Usable(known, G!FormatDowngrades[m]))
         /\ \A mode \in G!Modes : Due("initial", mode) + MaxRetries <= Due("repair", G!Usable(known, m))
  BY GatewayConstants DEF GatewayConstants, G!Usable, G!FormatDowngrades, G!Modes, Due

\* What is due is a number, and never more than the last round may have left.
LEMMA DueIs ==
  ASSUME NEW json \in {"initial", "repair"}, NEW mode \in G!Modes
  PROVE  Due(json, mode) \in Nat /\ Due(json, mode) <= 5 * MaxRetries
  BY GatewayConstants DEF GatewayConstants, G!Modes, Due

\* A question that ends is in order if it has not lost too much.
LEMMA EndOK ==
  ASSUME NEW q, q.lost \in Nat, q.lost <= 6 * MaxRetries + 1, ~q.timedOut, q.timedOut \in BOOLEAN,
         NEW how \in G!Ended
  PROVE  /\ AskOK(G!End(q, how)) /\ G!End(q, how).pc = how
         /\ G!End(q, how).lost = q.lost /\ ~G!End(q, how).timedOut
  BY DEF G!End, G!Resting, AskOK, AskFields, LossOK, AskPlaces, G!Ended, G!Modes

\* A question that is asked has lost less than it may when it ends.
LEMMA NotYet ==
  ASSUME NEW q, AskOK(q), q.pc \notin G!Ended
  PROVE  q.lost \in Nat /\ q.lost <= 6 * MaxRetries /\ ~q.timedOut /\ MaxRetries \in Nat
  <1>1. Due(q.json, q.mode) \in Nat /\ Due(q.json, q.mode) <= 5 * MaxRetries
    BY DueIs DEF AskOK
  <1>2. MaxRetries \in Nat
    BY GatewayConstants DEF GatewayConstants
  <1> QED
    BY <1>1, <1>2 DEF AskOK, LossOK, AskPlaces, G!Ended

\* chat_completion begins a request in order, at "prepare" or ended.
LEMMA ChatOK ==
  ASSUME NEW q, DOMAIN q = AskFields, q.json \in {"initial", "repair"}, ~q.timedOut, q.timedOut \in BOOLEAN,
         q.lost \in Nat, q.body = G!NoBody, NEW m \in G!Modes, q.lost <= Due(q.json, m)
  PROVE  /\ AskOK(G!Chat(q, m)) /\ G!Chat(q, m).pc \in {"failed", "prepare"}
         /\ G!Chat(q, m).lost = q.lost /\ ~G!Chat(q, m).timedOut
  <1>1. CASE G!Refused
    <2>1. q.lost <= 6 * MaxRetries + 1 /\ "failed" \in G!Ended
      BY DueIs, GatewayConstants DEF GatewayConstants, G!Ended
    <2> QED
      BY <1>1, <2>1, EndOK DEF G!Chat
  <1>2. CASE ~G!Refused
    BY <1>2 DEF G!Chat, AskOK, AskFields, LossOK, AskPlaces, G!Ended
  <1> QED
    BY <1>1, <1>2

\* An attempt that is counted waits for the semaphore, or the last one is over.
LEMMA AttemptOK ==
  ASSUME NEW q, AskOK(q), q.pc \in {"prepare", "backoff"}
  PROVE  /\ AskOK(G!Attempt(q)) /\ G!Attempt(q).pc \in {"failed", "queued"}
         /\ q.pc = "prepare" => G!Attempt(q).pc = "queued"
  <1>0. MaxRetries \in Nat /\ Due(q.json, q.mode) \in Nat /\ q.tries <= MaxRetries /\ q.tries \in Nat
    BY GatewayConstants, DueIs DEF GatewayConstants, AskOK, LossOK
  <1>1. G!Attempt(q) = [q EXCEPT !.pc = "queued", !.tries = q.tries + 1]
    BY <1>0 DEF G!Attempt
  <1> QED
    BY <1>0, <1>1 DEF AskOK, AskFields, LossOK, AskPlaces, G!Ended

\* What an answer makes of a question that posted: after a read timeout, or an error of
\* the server in the last attempt, it has ended.
LEMMA OutcomeOK ==
  ASSUME NEW q, AskOK(q), q.pc = "posting", NEW answer \in G!Answers
  PROVE  LET next == G!Outcome(q, answer) IN
         /\ AskOK(next) /\ next.lost = q.lost /\ ~next.timedOut /\ next.pc # "posting"
         /\ answer = "timeout" => next.pc = "failed"
         /\ answer = "broken" => \/ next.pc = "failed"
                                 \/ next = [q EXCEPT !.pc = "backoff"] /\ q.tries <= MaxRetries
         /\ G!Refused => next.pc # "succeeded"
  <1> DEFINE next == G!Outcome(q, answer)
             first == answer \in G!Refusals \/ G!Dropped(answer)
             parsed == ~first /\ answer \in {"ok", "prose"}
             again == ~first /\ ~parsed /\ answer \in G!Retryable /\ q.tries <= MaxRetries
             other == ~first /\ ~parsed /\ ~again /\ G!TriesOtherFormat(q, answer)
             Good == /\ AskOK(next) /\ next.lost = q.lost /\ ~next.timedOut /\ next.pc # "posting"
                     /\ answer = "timeout" => next.pc = "failed"
                     /\ answer = "broken" => \/ next.pc = "failed"
                                             \/ next = [q EXCEPT !.pc = "backoff"] /\ q.tries <= MaxRetries
                     /\ G!Refused => next.pc # "succeeded"
  <1> SUFFICES Good
    OBVIOUS
  <1>0. /\ DOMAIN q = AskFields /\ q.body = G!NoBody /\ q.mode \in G!Modes /\ q.json \in {"initial", "repair"}
        /\ q.tries \in 1..(MaxRetries + 1) /\ q.lost <= Due(q.json, q.mode) + q.tries - 1
        /\ Due(q.json, q.mode) \in Nat /\ q.timedOut \in BOOLEAN
    BY DueIs DEF AskOK, LossOK
  <1>1. q.lost \in Nat /\ q.lost <= 6 * MaxRetries /\ ~q.timedOut /\ MaxRetries \in Nat
    BY NotYet DEF G!Ended
  <1>2. \A how \in G!Ended : /\ AskOK(G!End(q, how)) /\ G!End(q, how).pc = how
                             /\ G!End(q, how).lost = q.lost /\ ~G!End(q, how).timedOut
    <2>1. q.lost <= 6 * MaxRetries + 1
      BY <1>1
    <2> QED
      BY <1>0, <1>1, <2>1, EndOK
  <1>3. CASE first
    <2>1. next = G!End(q, "failed")
      BY <1>3 DEF G!Outcome
    <2> QED
      BY <1>2, <2>1 DEF G!Ended
  <1>4. CASE parsed
    <2>1. next = G!Parsed(q, answer) /\ answer \notin {"timeout", "broken"}
      BY <1>4 DEF G!Outcome
    <2>2. ~G!Refused
      BY <1>4 DEF G!Dropped, G!Refusals
    <2>3. CASE answer = "ok"
      <3>1. next = G!End(q, "succeeded")
        BY <2>1, <2>3 DEF G!Parsed
      <3> QED
        BY <1>2, <2>1, <2>2, <3>1 DEF G!Ended
    <2>4. CASE answer # "ok" /\ q.json = "initial"
      <3> DEFINE r == [q EXCEPT !.json = "repair"]
                 m == G!Usable(G!Learn(q.mode, TRUE), "json_schema")
      <3>1. next = G!Chat(r, m)
        BY <2>1, <2>4 DEF G!Parsed
      <3>2. m \in G!Modes /\ Due("initial", q.mode) + MaxRetries <= Due("repair", m) /\ Due("repair", m) \in Nat
        <4>1. "json_schema" \in G!Modes
          BY DEF G!Modes
        <4> QED
          BY <1>0, <4>1, UsableIs, DueIs
      <3> HIDE DEF m
      <3>3. /\ DOMAIN r = AskFields /\ r.json = "repair" /\ ~r.timedOut /\ r.timedOut \in BOOLEAN /\ r.lost = q.lost
            /\ r.body = G!NoBody
        BY <1>0, <1>1 DEF AskFields
      <3> HIDE DEF r
      <3>4. r.lost <= Due(r.json, m)
        BY <1>0, <1>1, <2>4, <3>2, <3>3
      <3>5. AskOK(G!Chat(r, m)) /\ G!Chat(r, m).pc \in {"failed", "prepare"}
            /\ G!Chat(r, m).lost = q.lost /\ ~G!Chat(r, m).timedOut
        BY <1>1, <3>2, <3>3, <3>4, ChatOK
      <3> HIDE DEF next
      <3> QED
        BY <2>1, <2>2, <3>1, <3>5
    <2>5. CASE answer # "ok" /\ q.json # "initial"
      <3>1. next = G!End(q, "failed")
        BY <2>1, <2>5 DEF G!Parsed
      <3> QED
        BY <1>2, <3>1 DEF G!Ended
    <2> QED
      BY <2>3, <2>4, <2>5
  <1>5. CASE again
    <2>1. next = [q EXCEPT !.pc = "backoff"] /\ q.tries <= MaxRetries
      BY <1>5 DEF G!Outcome
    <2>2. answer # "timeout"
      BY <1>5 DEF G!Retryable
    <2>3. AskOK([q EXCEPT !.pc = "backoff"])
      BY <1>0, <1>1, <2>1 DEF AskOK, AskFields, LossOK, AskPlaces, G!Ended
    <2> HIDE DEF next
    <2> QED
      BY <1>0, <1>1, <2>1, <2>2, <2>3 DEF AskFields
  <1>6. CASE other
    <2> DEFINE m == G!Usable(formats, G!FormatDowngrades[q.mode])
    <2>1. next = G!Chat(q, m)
      BY <1>6 DEF G!Outcome
    <2>2. answer = "unsupported" /\ q.mode # "text"
      BY <1>6 DEF G!TriesOtherFormat
    <2>3. G!FormatDowngrades[q.mode] \in G!Modes /\ Due(q.json, q.mode) + MaxRetries <= Due(q.json, m)
      BY <1>0, <2>2, UsableIs
    <2>4. m \in G!Modes /\ Due(q.json, m) \in Nat
      BY <1>0, <2>3, UsableIs, DueIs
    <2> HIDE DEF m
    <2>5. q.lost <= Due(q.json, m)
      BY <1>0, <1>1, <2>3, <2>4
    <2>6. AskOK(G!Chat(q, m)) /\ G!Chat(q, m).pc \in {"failed", "prepare"}
          /\ G!Chat(q, m).lost = q.lost /\ ~G!Chat(q, m).timedOut
      BY <1>0, <1>1, <2>4, <2>5, ChatOK
    <2> HIDE DEF next
    <2> QED
      BY <2>1, <2>2, <2>6
  <1>7. CASE ~first /\ ~parsed /\ ~again /\ ~other
    <2>1. next = G!End(q, "failed")
      BY <1>7 DEF G!Outcome
    <2> QED
      BY <1>2, <2>1 DEF G!Ended
  <1> QED
    BY <1>3, <1>4, <1>5, <1>6, <1>7

\* So a question is in order after its answer, and after a refusal it does not succeed.
LEMMA AnsweredOK ==
  ASSUME AsksOK, NEW a \in Ask, NEW answer \in G!Answers, G!Answered(a, answer)
  PROVE  /\ AskOK(ask'[a]) /\ ask' = [ask EXCEPT ![a] = ask'[a]]
         /\ G!Refused => ask'[a].pc \notin {"posting", "succeeded"}
  <1> DEFINE q == ask[a]
             next == G!Outcome(q, answer)
             told == [next EXCEPT !.timedOut = answer = "timeout", !.lost = next.lost + G!Lost(a, answer)]
  <1>1. AskOK(q) /\ q.pc = "posting" /\ a \in DOMAIN ask
    BY DEF AsksOK, G!Answered
  <1>2. ask' = [ask EXCEPT ![a] = told]
    BY DEF G!Answered
  <1>3. /\ AskOK(next) /\ next.lost = q.lost /\ ~next.timedOut /\ next.pc # "posting"
        /\ answer = "timeout" => next.pc = "failed"
        /\ answer = "broken" => \/ next.pc = "failed"
                                \/ next = [q EXCEPT !.pc = "backoff"] /\ q.tries <= MaxRetries
        /\ G!Refused => next.pc # "succeeded"
    BY <1>1, OutcomeOK
  <1>4. q.lost \in Nat /\ q.lost <= 6 * MaxRetries /\ MaxRetries \in Nat
    BY <1>1, NotYet DEF G!Ended
  <1>5. /\ q.tries \in 1..(MaxRetries + 1) /\ q.lost <= Due(q.json, q.mode) + q.tries - 1
        /\ DOMAIN q = AskFields /\ Due(q.json, q.mode) \in Nat
    BY <1>1, DueIs DEF AskOK, LossOK
  <1>6. /\ G!Lost(a, answer) \in {0, 1}
        /\ G!Lost(a, answer) = 1 => answer \in {"timeout", "broken"}
    BY DEF G!Lost, G!MayHaveRun
  <1> HIDE DEF next, q
  <1>7. /\ DOMAIN told = AskFields
        /\ told.pc = next.pc /\ told.mode = next.mode /\ told.json = next.json /\ told.tries = next.tries
        /\ told.body = next.body /\ told.timedOut \in BOOLEAN /\ (told.timedOut <=> answer = "timeout")
        /\ told.lost = q.lost + G!Lost(a, answer)
    BY <1>3 DEF AskOK, AskFields
  <1> HIDE DEF told
  <1>8. LossOK(told)
    <2>1. CASE G!Lost(a, answer) = 0
      <3>1. told.lost = next.lost
        BY <1>3, <1>4, <1>7, <2>1
      <3> QED
        BY <1>3, <1>7, <3>1 DEF AskOK, LossOK
    <2>2. CASE G!Lost(a, answer) = 1
      <3>1. CASE next.pc = "failed"
        BY <1>4, <1>7, <2>2, <3>1 DEF LossOK, G!Ended
      <3>2. CASE next = [q EXCEPT !.pc = "backoff"] /\ q.tries <= MaxRetries
        <4>1. next.pc = "backoff" /\ next.tries = q.tries /\ next.json = q.json /\ next.mode = q.mode
          BY <1>5, <3>2 DEF AskFields
        <4> QED
          BY <1>4, <1>5, <1>7, <2>2, <3>2, <4>1 DEF LossOK, G!Ended
      <3> QED
        BY <1>3, <1>6, <2>2, <3>1, <3>2
    <2> QED
      BY <1>6, <2>1, <2>2
  <1>9. AskOK(told)
    BY <1>3, <1>4, <1>6, <1>7, <1>8 DEF AskOK, G!Ended
  <1>10. ask'[a] = told
    BY <1>1, <1>2
  <1> QED
    BY <1>2, <1>3, <1>7, <1>9, <1>10

\* A step of one question leaves the others; its own stays in order, and after a refusal
\* it neither posts nor succeeds.
LEMMA QuestionMoves ==
  ASSUME AsksOK, NEW a \in Ask, G!Step(a) \/ G!Deadline(a)
  PROVE  /\ ask' = [ask EXCEPT ![a] = ask'[a]] /\ AskOK(ask'[a])
         /\ G!Refused => /\ ask'[a].pc = ask[a].pc \/ ask'[a].pc \notin {"posting", "succeeded"}
                         /\ latch' = latch
  <1>0. AskOK(ask[a]) /\ a \in DOMAIN ask
    BY DEF AsksOK
  <1>a. ASSUME NEW how \in {"failed", "cancelled"}, ask[a].pc \notin G!Ended
        PROVE  AskOK(G!End(ask[a], how)) /\ G!End(ask[a], how).pc = how
    <2>1. ask[a].lost \in Nat /\ ask[a].lost <= 6 * MaxRetries /\ ~ask[a].timedOut /\ MaxRetries \in Nat
      BY <1>0, <1>a, NotYet
    <2>2. ask[a].lost <= 6 * MaxRetries + 1 /\ ask[a].timedOut \in BOOLEAN /\ how \in G!Ended
      BY <1>0, <1>a, <2>1 DEF AskOK, G!Ended
    <2> QED
      BY <2>1, <2>2, EndOK
  <1>1. CASE G!Begin(a)
    <2> DEFINE m == G!Usable(formats, "json_schema")
    <2>1. ask' = [ask EXCEPT ![a] = G!Chat(ask[a], m)] /\ latch' = latch
      BY <1>1 DEF G!Begin
    <2>2. m \in G!Modes
      BY UsableIs DEF G!Modes
    <2> HIDE DEF m
    <2>3. Due(ask[a].json, m) \in Nat
      BY <1>0, <2>2, DueIs DEF AskOK
    <2>4. AskOK(G!Chat(ask[a], m)) /\ G!Chat(ask[a], m).pc \in {"failed", "prepare"}
      BY <1>0, <1>1, <2>2, <2>3, ChatOK DEF G!Begin, AskOK, LossOK, G!Ended
    <2> QED
      BY <1>0, <2>1, <2>4
  <1>2. CASE G!Prepared(a)
    <2>1. latch' = latch /\ ask[a].pc = "prepare"
      BY <1>2 DEF G!Prepared
    <2>2. PICK images \in [Image -> Size] :
            \/ ask' = [ask EXCEPT ![a] = G!End(ask[a], "failed")]
            \/ /\ ~G!Refused
               /\ \E now \in G!Bounded(images) :
                    ask' = [ask EXCEPT ![a] = [G!Attempt(ask[a]) EXCEPT !.body = [was |-> images, now |-> now]]]
      BY <1>2 DEF G!Prepared
    <2>3. CASE ask' = [ask EXCEPT ![a] = G!End(ask[a], "failed")]
      BY <1>0, <1>a, <2>1, <2>3 DEF G!Ended
    <2>4. ASSUME ~G!Refused, NEW now \in G!Bounded(images),
                 ask' = [ask EXCEPT ![a] = [G!Attempt(ask[a]) EXCEPT !.body = [was |-> images, now |-> now]]]
          PROVE  ask' = [ask EXCEPT ![a] = ask'[a]] /\ AskOK(ask'[a])
      <3> DEFINE q == G!Attempt(ask[a])
                 body == [was |-> images, now |-> now]
      <3>1. ask' = [ask EXCEPT ![a] = [q EXCEPT !.body = body]]
        BY <2>4
      <3>2. AskOK(q) /\ q.pc = "queued"
        BY <1>0, <2>1, AttemptOK
      <3>3. BodyFits(body)
        BY <2>4, BoundedFits
      <3> HIDE DEF q, body
      <3>4. AskOK([q EXCEPT !.body = body])
        BY <3>2, <3>3 DEF AskOK, AskFields, LossOK
      <3> QED
        BY <1>0, <3>1, <3>4
    <2> QED
      BY <2>1, <2>2, <2>3, <2>4
  <1>3. CASE G!Acquire(a)
    <2>1. latch' = latch /\ ask[a].pc = "queued"
      BY <1>3 DEF G!Acquire
    <2>2. CASE G!Refused
      <3>1. ask' = [ask EXCEPT ![a] = G!End(ask[a], "failed")]
        BY <1>3, <2>2 DEF G!Acquire
      <3> QED
        BY <1>0, <1>a, <2>1, <3>1 DEF G!Ended
    <2>3. CASE ~G!Refused
      <3>1. ask' = [ask EXCEPT ![a] = [ask[a] EXCEPT !.pc = "posting", !.body = G!NoBody]]
        BY <1>3, <2>3 DEF G!Acquire
      <3>2. AskOK([ask[a] EXCEPT !.pc = "posting", !.body = G!NoBody])
        BY <1>0, <2>1 DEF AskOK, AskFields, LossOK, AskPlaces, G!Ended
      <3> QED
        BY <1>0, <2>3, <3>1, <3>2
    <2> QED
      BY <2>2, <2>3
  <1>4. CASE G!Wake(a)
    <2>1. latch' = latch /\ ask[a].pc = "backoff"
      BY <1>4 DEF G!Wake
    <2>2. CASE G!Refused
      <3>1. ask' = [ask EXCEPT ![a] = G!End(ask[a], "failed")]
        BY <1>4, <2>2 DEF G!Wake
      <3> QED
        BY <1>0, <1>a, <2>1, <3>1 DEF G!Ended
    <2>3. CASE ~G!Refused
      <3>1. ask' = [ask EXCEPT ![a] = G!Attempt(ask[a])]
        BY <1>4, <2>3 DEF G!Wake
      <3> QED
        BY <1>0, <2>1, <2>3, <3>1, AttemptOK
    <2> QED
      BY <2>2, <2>3
  <1>5. ASSUME NEW answer \in G!Answers, G!Answered(a, answer)
        PROVE  /\ ask' = [ask EXCEPT ![a] = ask'[a]] /\ AskOK(ask'[a])
               /\ G!Refused => /\ ask'[a].pc \notin {"posting", "succeeded"}
                               /\ latch' = latch
    <2>1. G!Refused => latch' = latch
      BY <1>5 DEF G!Answered, G!Refuse
    <2> QED
      BY <1>5, <2>1, AnsweredOK
  <1>6. CASE G!Deadline(a)
    <2>1. ask' = [ask EXCEPT ![a] = G!End(ask[a], "cancelled")] /\ latch' = latch
      BY <1>6 DEF G!Deadline
    <2>2. ask[a].pc \notin G!Ended
      BY <1>6 DEF G!Deadline, G!Live
    <2> QED
      BY <1>0, <1>a, <2>1, <2>2
  <1> QED
    BY <1>1, <1>2, <1>3, <1>4, <1>5, <1>6 DEF G!Step

\* The client moves as QuestionMoves says, or not at all.
LEMMA ClientMoves ==
  ASSUME AsksOK, [CallsNext]_callVars
  PROVE  \/ UNCHANGED <<ask, latch>>
         \/ \E a \in Ask : G!Step(a) \/ G!Deadline(a)
  BY DEF CallsNext, callVars, gatewayVars, InPipeline, InGateway, InDocling, G!Next, G!Forget

\* The questions stay in order, also while Pipeline or the conversion moves.
LEMMA AsksStay ==
  ASSUME AsksOK, [CallsNext]_callVars
  PROVE  AsksOK'
  <1>1. CASE UNCHANGED <<ask, latch>>
    BY <1>1 DEF AsksOK
  <1>2. ASSUME NEW a \in Ask, G!Step(a) \/ G!Deadline(a) PROVE AsksOK'
    BY <1>2, QuestionMoves DEF AsksOK
  <1> QED
    BY <1>1, <1>2, ClientMoves

------------------------------------------------------------------------------
(* The conversion *)

\* Each legal transition leads to its place; none that a handler asks for is refused.
LEMMA ConversionStays ==
  ASSUME ConversionOK, [CallsNext]_callVars
  PROVE  ConversionOK'
  <1>0. Attempts \in Nat \ {0}
    BY GatewayConstants
  <1>1. CASE UNCHANGED doclingVars
    BY <1>1 DEF ConversionOK, RemotePlace, doclingVars
  <1>2. CASE D!Convert
    BY <1>2 DEF ConversionOK, RemotePlace, D!Convert, D!LocalTo, D!LocalTransitions, D!Settled
  <1>3. CASE D!Claim
    BY <1>0, <1>3 DEF ConversionOK, RemotePlace, D!Claim, D!To, D!Transitions, D!Settled
  <1>4. CASE D!Accept
    BY <1>0, <1>4 DEF ConversionOK, RemotePlace, D!Accept, D!Settled
  <1>5. CASE D!ServerEnds
    BY <1>0, <1>5 DEF ConversionOK, RemotePlace, D!ServerEnds, D!Settled
  <1>6. CASE D!TimedOut
    BY <1>0, <1>6 DEF ConversionOK, RemotePlace, D!TimedOut, D!To, D!Transitions, D!Settled
  <1>7. CASE D!Unanswered
    BY <1>0, <1>7 DEF ConversionOK, RemotePlace, D!Unanswered, D!Exhausted, D!To, D!Transitions, D!Settled
  <1>8. CASE D!Resubmit
    BY <1>0, <1>8 DEF ConversionOK, RemotePlace, D!Resubmit, D!To, D!Transitions, D!Settled
  <1>9. CASE D!Submitted
    BY <1>0, <1>9 DEF ConversionOK, RemotePlace, D!Submitted, D!To, D!Transitions, D!Settled
  <1>10. CASE D!Poll \/ D!Repeat
    BY <1>0, <1>10 DEF ConversionOK, RemotePlace, D!Poll, D!Repeat, D!Stays, D!Settled
  <1>11. CASE D!Polled
    BY <1>0, <1>11 DEF ConversionOK, RemotePlace, D!Polled, D!Stays, D!To, D!Transitions, D!Settled
  <1>12. CASE D!Fetched
    BY <1>0, <1>12 DEF ConversionOK, RemotePlace, D!Fetched, D!To, D!Transitions, D!Settled
  <1>13. CASE D!Fails
    BY <1>0, <1>13 DEF ConversionOK, RemotePlace, D!Fails, D!To, D!Transitions, D!Settled
  <1>14. CASE D!Cancel
    BY <1>0, <1>14 DEF ConversionOK, RemotePlace, D!Cancel, D!To, D!Transitions, D!Settled
  <1>15. CASE D!Expire
    BY <1>0, <1>15 DEF ConversionOK, RemotePlace, D!Expire, D!Settled
  <1> QED
    BY <1>1, <1>2, <1>3, <1>4, <1>5, <1>6, <1>7, <1>8, <1>9, <1>10, <1>11, <1>12, <1>13, <1>14,
       <1>15 DEF CallsNext, callVars, InPipeline, InGateway, InDocling, D!Next, D!Works

------------------------------------------------------------------------------
(* The theorems *)

\* The inductive invariant of the services: what a question has risked and what a
\* conversion knows agree with where they are.
THEOREM CallsInvariant == CallsSpec => []CallsInv
<1>1. CallsInit => CallsInv
  <2>1. CallsInit => AsksOK
    <3>1. CallsInit => /\ DOMAIN ask = Ask
                       /\ \A a \in Ask : ask[a] = G!Resting("idle", FALSE, 0)
      BY DEF CallsInit, G!Init
    <3>2. AskOK(G!Resting("idle", FALSE, 0))
      BY DEF G!Resting, AskOK, AskFields, LossOK, AskPlaces, G!Modes, G!Ended
    <3> QED
      BY <3>1, <3>2 DEF AsksOK
  <2>2. CallsInit => ConversionOK
    BY GatewayConstants DEF CallsInit, D!Init, ConversionOK, RemotePlace
  <2> QED
    BY <2>1, <2>2 DEF CallsInv
<1>2. CallsInv /\ [CallsNext]_callVars => CallsInv'
  BY AsksStay, ConversionStays DEF CallsInv
<1> QED
  BY <1>1, <1>2, PTL DEF CallsSpec

\* llm_client.py, RequestAttempt, for any number of questions and retries: a request that
\* timed out is not sent again, and the errors of the server that are answered by sending
\* it again lose 6 * MaxRetries + 1 runs of a question at most, whatever its formats.
THEOREM ChargesBounded == CallsSpec => []G!ChargesAreBounded
<1>1. CallsInv => G!ChargesAreBounded
  <2> SUFFICES ASSUME CallsInv, NEW a \in Ask
               PROVE  /\ ask[a].timedOut => ask[a].pc \in G!Ended
                      /\ ask[a].lost <= 6 * MaxRetries + 1
    BY DEF G!ChargesAreBounded
  <2>1. AskOK(ask[a])
    BY DEF CallsInv, AsksOK
  <2>2. CASE ask[a].pc \in G!Ended
    BY <2>1, <2>2 DEF AskOK, LossOK
  <2>3. CASE ask[a].pc \notin G!Ended
    BY <2>1, <2>3, NotYet
  <2> QED
    BY <2>2, <2>3
<1> QED
  BY <1>1, CallsInvariant, PTL

\* docling_io.py, DoclingConversion: a submission is given up as unknown only when every
\* attempt was used, none that was answered is repeated, a result is that of a task that
\* ended well, and no handler asks for a transition that is refused.
THEOREM ConversionTells == CallsSpec => []D!PhaseTells
<1>1. CallsInv => D!PhaseTells
  BY GatewayConstants DEF CallsInv, ConversionOK, RemotePlace, D!PhaseTells, D!Settled
<1> QED
  BY <1>1, CallsInvariant, PTL

\* vision_requests.py, llm_client.py and docling_io.py, for any number of questions, images
\* and submissions: charges are bounded, a body that is sent is below the limit, an image
\* is cut only when the body was too large and only if it was larger than every image that
\* is sent, and a conversion tells what became of its submissions.
THEOREM CallsAreAccounted == CallsSpec => []CallsAccounted
<1>1. CallsInv => G!BodiesFit
  BY DEF CallsInv, AsksOK, AskOK, BodyFits, G!BodiesFit
<1>2. G!ChargesAreBounded /\ G!BodiesFit /\ D!PhaseTells => CallsAccounted
  BY DEF CallsAccounted
<1> QED
  BY <1>1, <1>2, CallsInvariant, ChargesBounded, ConversionTells, PTL

\* ModelAccess: after the first refusal no request leaves and no answer is used, by
\* whichever of the job's questions, and the first reason stays.
THEOREM RefusalsAreFinal == CallsSpec => QuietAfterRefusal
<1> DEFINE Quiet ==
      G!Refused =>
        /\ \A a \in Ask : ask'[a].pc # ask[a].pc => ask'[a].pc \notin {"posting", "succeeded"}
        /\ latch' = latch
<1>1. CallsInv /\ [CallsNext]_callVars => [Quiet]_gatewayVars
  <2> SUFFICES ASSUME CallsInv, [CallsNext]_callVars PROVE Quiet
    OBVIOUS
  <2>1. CASE UNCHANGED <<ask, latch>>
    BY <2>1
  <2>2. ASSUME NEW b \in Ask, G!Step(b) \/ G!Deadline(b) PROVE Quiet
    <3>1. /\ ask' = [ask EXCEPT ![b] = ask'[b]]
          /\ G!Refused => /\ ask'[b].pc = ask[b].pc \/ ask'[b].pc \notin {"posting", "succeeded"}
                          /\ latch' = latch
      BY <2>2, QuestionMoves DEF CallsInv
    <3>2. \A a \in Ask : a # b => ask'[a] = ask[a]
      BY <3>1 DEF CallsInv, AsksOK
    <3> QED
      BY <3>1, <3>2
  <2> QED
    BY <2>1, <2>2, ClientMoves DEF CallsInv
<1> HIDE DEF Quiet
<1>2. CallsSpec => [][Quiet]_gatewayVars
  BY <1>1, CallsInvariant, PTL DEF CallsSpec
<1> QED
  BY <1>2 DEF QuietAfterRefusal, G!QuietAfterRefusal, G!gatewayVars, gatewayVars, Quiet

\* Side by side, each part runs as its own module says: what is shown of Pipeline, Gateway
\* or Docling alone holds here, too.
THEOREM PartsRunAlone == CallsSpec => Spec /\ G!Spec /\ D!Spec
<1>1. CallsInit => Init /\ G!Init /\ D!Init
  BY DEF CallsInit
<1>2. [CallsNext]_callVars => [Next]_vars /\ [G!Next]_G!gatewayVars /\ [D!Next]_D!doclingVars
  BY DEF CallsNext, callVars, InPipeline, InGateway, InDocling, gatewayVars, doclingVars,
     G!gatewayVars, D!doclingVars
<1> QED
  BY <1>1, <1>2, PTL DEF CallsSpec, Spec, G!Spec, D!Spec

================================================================================
