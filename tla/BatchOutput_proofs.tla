------------------------- MODULE BatchOutput_proofs -------------------------
(***************************************************************************)
(* Proofs about one batch, of any size, with any records in it: the sort   *)
(* puts every record in the one place that its time and its place in the   *)
(* batch give it, what is written is in that order, and the counts that    *)
(* are carried from one counts record to the next are neither lost nor     *)
(* moved past a record that is written.                                    *)
(*                                                                         *)
(* SumOutput is recursive.  That it is what its equation says is shown by  *)
(* induction, which here is well-foundedness of the finite sets 0 .. n.    *)
(***************************************************************************)
EXTENDS BatchOutput, FiniteSetTheorems, TLAPS

LEMMA LeastNat ==
  ASSUME NEW T \in SUBSET Nat, T # {}
  PROVE  \E m \in T : \A n \in T : m <= n
<1> DEFINE TT == {0 .. n : n \in T}
           R == StrictSubsetOrdering(Nat)
           F == FiniteSubsetsOf(Nat)
<1>1. TT \subseteq F
  <2> SUFFICES ASSUME NEW n \in T PROVE 0 .. n \in F
    OBVIOUS
  <2>1. n \in Int /\ 0 \in Int /\ 0 .. n \in SUBSET Nat
    OBVIOUS
  <2>2. IsFiniteSet(0 .. n)
    BY <2>1, FS_Interval
  <2> QED BY <2>1, <2>2 DEF FiniteSubsetsOf
<1>2. IsWellFoundedOn(R, F)
  BY FS_StrictSubsetOrderingWellFounded
<1>3. TT # {}
  OBVIOUS
<1>4. PICK x \in TT : \A y \in TT : ~ (<<y, x>> \in R)
  <2> HIDE DEF R, F, TT
  <2> QED BY <1>1, <1>2, <1>3, WFMin
<1>5. PICK m \in T : x = 0 .. m
  OBVIOUS
<1>6. ASSUME NEW n \in T, n < m PROVE FALSE
  <2>1. (0 .. n) \subseteq (0 .. m) /\ (0 .. m) \subseteq Nat /\ m \in 0 .. m /\ m \notin 0 .. n
    BY <1>6
  <2>2. <<0 .. n, x>> \in R
    BY <2>1, <1>5 DEF StrictSubsetOrdering
  <2> QED BY <2>2, <1>4
<1> QED BY <1>6

LEMMA NatStep ==
  ASSUME NEW S, 0 \in S, \A n \in Nat : n \in S => n + 1 \in S
  PROVE  Nat \subseteq S
<1> SUFFICES ASSUME Nat \ S # {} PROVE FALSE
  OBVIOUS
<1>1. PICK m \in Nat \ S : \A n \in Nat \ S : m <= n
  BY LeastNat
<1>2. m - 1 \in Nat /\ m - 1 \in S
  BY <1>1
<1> QED BY <1>2, <1>1

\* Sums of a sequence of numbers exist.
LEMMA SumsExist ==
  ASSUME NEW L \in Nat, NEW c \in [1 .. L -> Nat]
  PROVE  \E f \in [0 .. L -> Nat] : f[0] = 0 /\ \A n \in 1 .. L : f[n] = f[n - 1] + c[n]
<1> DEFINE Upto(k, f) == f[0] = 0 /\ \A n \in 1 .. k : f[n] = f[n - 1] + c[n]
           Good == {k \in Nat : k <= L => \E f \in [0 .. k -> Nat] : Upto(k, f)}
<1>1. 0 \in Good
  <2> DEFINE f == [n \in 0 .. 0 |-> 0]
  <2>1. f \in [0 .. 0 -> Nat]
    OBVIOUS
  <2>3. 0 \in 0 .. 0
    OBVIOUS
  <2>4. f[0] = 0
    BY <2>3
  <2>2. 1 .. 0 = {}
    OBVIOUS
  <2> QED BY <2>1, <2>2, <2>4
<1>2. ASSUME NEW k \in Nat, k \in Good PROVE k + 1 \in Good
  <2> SUFFICES ASSUME k + 1 <= L PROVE \E f \in [0 .. k + 1 -> Nat] : Upto(k + 1, f)
    <3> HIDE DEF Upto
    <3>1. k + 1 \in Nat
      OBVIOUS
    <3> QED BY <3>1
  <2>1. PICK f \in [0 .. k -> Nat] : Upto(k, f)
    BY <1>2
  <2> DEFINE g == [n \in 0 .. k + 1 |-> IF n = k + 1 THEN f[k] + c[k + 1] ELSE f[n]]
  <2>2. f[k] \in Nat /\ c[k + 1] \in Nat
    OBVIOUS
  <2>3. g \in [0 .. k + 1 -> Nat]
    BY <2>2
  <2>4. g[0] = 0
    BY <2>1
  <2>5. \A n \in 1 .. k + 1 : g[n] = g[n - 1] + c[n]
    <3> SUFFICES ASSUME NEW n \in 1 .. k + 1 PROVE g[n] = g[n - 1] + c[n]
      OBVIOUS
    <3>1. CASE n = k + 1
      BY <3>1
    <3>2. CASE n # k + 1
      <4>1. n \in 1 .. k /\ n - 1 \in 0 .. k
        BY <3>2
      <4> QED BY <2>1, <4>1
    <3> QED BY <3>1, <3>2
  <2> QED BY <2>3, <2>4, <2>5
<1>3. Nat \subseteq Good
  <2> HIDE DEF Good
  <2> QED BY <1>1, <1>2, NatStep
<1>4. L \in Good /\ L <= L
  <2> HIDE DEF Good
  <2> QED BY <1>3
<1> QED BY <1>4

\* SumOutput is what its equation says.
CountsTyped == Len(output) \in Nat /\ \A n \in 1 .. Len(output) : output[n].counts \in Nat
SumsRight ==
  /\ \A n \in 0 .. Len(output) : SumOutput[n] \in Nat
  /\ SumOutput[0] = 0
  /\ \A n \in 1 .. Len(output) : SumOutput[n] = SumOutput[n - 1] + output[n].counts

LEMMA SumOutputFacts == CountsTyped => SumsRight
<1> SUFFICES ASSUME CountsTyped PROVE SumsRight
  OBVIOUS
<1> DEFINE L == Len(output)
           c == [n \in 1 .. L |-> output[n].counts]
           Eq(g) == g = [n \in 0 .. L |-> IF n = 0 THEN 0 ELSE g[n - 1] + output[n].counts]
<1>1. L \in Nat /\ c \in [1 .. L -> Nat]
  BY DEF CountsTyped
<1>2. PICK f \in [0 .. L -> Nat] : f[0] = 0 /\ \A n \in 1 .. L : f[n] = f[n - 1] + c[n]
  <2> HIDE DEF L, c
  <2> QED BY <1>1, SumsExist
<1>3. Eq(f)
  <2>1. \A n \in 0 .. L : f[n] = IF n = 0 THEN 0 ELSE f[n - 1] + output[n].counts
    BY <1>1, <1>2
  <2> QED BY <2>1
<1>4. SumOutput = CHOOSE g : Eq(g)
  BY DEF SumOutput
<1>5. Eq(SumOutput)
  <2> HIDE DEF Eq
  <2> QED BY <1>3, <1>4
<1> DEFINE Nats == {n \in Nat : n <= L => SumOutput[n] \in Nat}
<1>6. 0 \in Nats
  BY <1>1, <1>5
<1>7. ASSUME NEW n \in Nat, n \in Nats PROVE n + 1 \in Nats
  <2> SUFFICES ASSUME n + 1 <= L PROVE SumOutput[n + 1] \in Nat
    OBVIOUS
  <2>1. n + 1 \in 0 .. L /\ n + 1 # 0 /\ n + 1 - 1 = n /\ n + 1 \in 1 .. Len(output)
    BY <1>1
  <2>2. SumOutput[n + 1] = SumOutput[n] + output[n + 1].counts
    BY <1>5, <2>1
  <2>3. SumOutput[n] \in Nat /\ output[n + 1].counts \in Nat
    BY <1>1, <1>7, <2>1 DEF CountsTyped
  <2> QED BY <2>2, <2>3
<1>8. Nat \subseteq Nats
  <2> HIDE DEF Nats
  <2> QED BY <1>6, <1>7, NatStep
<1>9. \A n \in 0 .. L : SumOutput[n] \in Nat
  BY <1>1, <1>8
<1>10. SumOutput[0] = 0 /\ \A n \in 1 .. L : SumOutput[n] = SumOutput[n - 1] + output[n].counts
  BY <1>1, <1>5
<1> QED BY <1>9, <1>10 DEF SumsRight

LEMMA SumOutputNext == (CountsTyped => SumsRight)'
BY SumOutputFacts, PTL

-----------------------------------------------------------------------------
(* The batch and the sort.                                                 *)

KindSet == {k[1] : k \in Kinds} \cup {"D"}
LetterSet == {k[2] : k \in Kinds} \cup {"D"}
Rec == [kind : KindSet, letter : LetterSet, time : 0 .. MaxTime, place : Nat, counts : Nat]

BatchOK ==
  /\ Len(batch) \in Nat /\ batch \in [1 .. Len(batch) -> Rec]
  /\ \A p \in 1 .. Len(batch) :
       /\ batch[p].place = p
       /\ batch[p].counts = IF batch[p].kind = "C" THEN 1 ELSE 0
       /\ batch[p].kind = "C" => batch[p].letter = "C"

LEMMA InitBatch == Init => BatchOK
<1> SUFFICES ASSUME Init PROVE BatchOK
  OBVIOUS
<1>0. PICK m \in 0 .. MaxRecords, d \in 0 .. MaxRecords :
        \E recs \in [1 .. m -> Shapes], deaths \in [1 .. d -> Deaths] :
          batch = [p \in 1 .. m + d |->
                     LET s == IF p <= m THEN recs[p] ELSE deaths[p - m]
                     IN  Makes(s[1], s[2], p)]
  BY DEF Init
<1>1. PICK recs \in [1 .. m -> Shapes], deaths \in [1 .. d -> Deaths] :
        batch = [p \in 1 .. m + d |->
                   LET s == IF p <= m THEN recs[p] ELSE deaths[p - m]
                   IN  Makes(s[1], s[2], p)]
  BY <1>0
<1> DEFINE shape(p) == IF p <= m THEN recs[p] ELSE deaths[p - m]
<1>2. m \in Nat /\ d \in Nat
  BY BatchAssumption
<1>3. Len(batch) = m + d
  BY <1>1, <1>2
<1>4. ASSUME NEW p \in 1 .. m + d
      PROVE  shape(p) \in (Kinds \cup {<<"D", "D">>}) \X (0 .. MaxTime)
  <2>1. CASE p <= m
    <3>1. p \in 1 .. m
      BY <1>2, <2>1
    <3> QED BY <2>1, <3>1 DEF Shapes
  <2>2. CASE ~(p <= m)
    <3>1. p - m \in 1 .. d
      BY <1>2, <2>2
    <3> QED BY <2>2, <3>1 DEF Deaths
  <2> QED BY <2>1, <2>2
<1>5. ASSUME NEW p \in 1 .. m + d
      PROVE  /\ batch[p] \in Rec /\ batch[p].place = p
             /\ batch[p].counts = IF batch[p].kind = "C" THEN 1 ELSE 0
             /\ batch[p].kind = "C" => batch[p].letter = "C"
  <2>1. batch[p] = Makes(shape(p)[1], shape(p)[2], p)
    BY <1>1
  <2> DEFINE k == shape(p)[1]
             t == shape(p)[2]
  <2>2. k \in Kinds \cup {<<"D", "D">>} /\ t \in 0 .. MaxTime
    <3> HIDE DEF shape
    <3> QED BY <1>4
  <2>3. batch[p] = Makes(k, t, p)
    BY <2>1
  <2> HIDE DEF k, t
  <2>4. k[1] \in KindSet /\ k[2] \in LetterSet /\ (k[1] = "C" => k[2] = "C")
    BY <2>2, BatchAssumption DEF KindSet, LetterSet
  <2>5. p \in Nat
    BY <1>2
  <2>6. batch[p].kind = k[1] /\ batch[p].letter = k[2] /\ batch[p].place = p
        /\ batch[p].counts = IF k[1] = "C" THEN 1 ELSE 0
    BY <2>3 DEF Makes
  <2>7. batch[p] \in Rec
    BY <2>2, <2>3, <2>4, <2>5 DEF Makes, Rec
  <2> QED BY <2>4, <2>6, <2>7
<1>6. batch \in [1 .. m + d -> Rec]
  BY <1>1, <1>5
<1> QED BY <1>2, <1>3, <1>5, <1>6 DEF BatchOK

\* What the sort gives.
Sorted(s) ==
  /\ s \in [1 .. Len(batch) -> Rec]
  /\ \A j \in 1 .. Len(batch) : s[j].place \in 1 .. Len(batch)
  /\ \A j, k \in 1 .. Len(batch) : j < k => Before(s[j].place, s[k].place)
  /\ \A p \in 1 .. Len(batch) : \E j \in 1 .. Len(batch) : s[j].place = p

\* As many records come before a record as its rank says, and no two have one rank.
LEMMA SortLemma ==
  ASSUME BatchOK, outputBuffer = batch
  PROVE  /\ Sorted(SortedBatch)
         /\ \A j \in 1 .. Len(batch) : SortedBatch[j] = batch[SortedBatch[j].place]
<1> DEFINE N == Len(batch)
           Recs == {outputBuffer[p] : p \in DOMAIN outputBuffer}
           Below(r) == {q \in Recs : Precedes(q, r)}
           rank == [r \in Recs |-> Cardinality(Below(r))]
<1>1. /\ N \in Nat /\ DOMAIN outputBuffer = 1 .. N
      /\ Recs \subseteq Rec
      /\ \A r \in Recs : r.place \in 1 .. N /\ r = batch[r.place] /\ r.time \in Int
      /\ \A p \in 1 .. N : batch[p] \in Recs /\ batch[p].place = p
  BY BatchAssumption DEF BatchOK, Rec
<1>2. \A q, r \in Recs : /\ Precedes(q, r) <=> Before(q.place, r.place)
                         /\ q.place = r.place => q = r
                         /\ ~Precedes(r, r)
                         /\ q # r => Precedes(q, r) \/ Precedes(r, q)
  BY <1>1 DEF Precedes, Before, recordCompare
<1>3. \A q, r, x \in Recs : Precedes(q, r) /\ Precedes(r, x) => Precedes(q, x)
  <2>1. \A r \in Recs : r.time \in Int /\ r.place \in Int
    BY <1>1
  <2> HIDE DEF Recs
  <2> QED BY <2>1 DEF Precedes, recordCompare
<1>4. IsFiniteSet(Recs) /\ Cardinality(Recs) = N
  <2>1. [p \in 1 .. N |-> batch[p]] \in Bijection(1 .. N, Recs)
    <3> DEFINE b == [p \in 1 .. N |-> batch[p]]
    <3>1. b \in [1 .. N -> Recs]
      BY <1>1
    <3>2. \A p, q \in 1 .. N : b[p] = b[q] => p = q
      BY <1>1
    <3>3. \A r \in Recs : \E p \in 1 .. N : b[p] = r
      BY <1>1
    <3> HIDE DEF b
    <3>4. b \in Injection(1 .. N, Recs)
      BY <3>1, <3>2 DEF Injection, IsInjective
    <3>5. b \in Surjection(1 .. N, Recs)
      BY <3>1, <3>3 DEF Surjection
    <3> QED BY <3>4, <3>5 DEF Bijection, b
  <2>2. ExistsBijection(1 .. N, Recs)
    BY <2>1 DEF ExistsBijection
  <2>3. IsFiniteSet(1 .. N) /\ Cardinality(1 .. N) = N
    <3>1. \A n \in Nat : IsFiniteSet(1 .. n) /\ Cardinality(1 .. n) = n
      <4> TAKE n \in Nat
      <4>1. 1 \in Int /\ n \in Int /\ n - 1 + 1 = n /\ (1 > n => n = 0)
        OBVIOUS
      <4> QED BY <4>1, FS_Interval
    <3> QED BY <1>1, <3>1
  <2> HIDE DEF Recs
  <2> QED BY <2>2, <2>3, FS_Bijection
<1> HIDE DEF Recs
<1>5. \A r \in Recs : IsFiniteSet(Below(r)) /\ rank[r] = Cardinality(Below(r))
  BY <1>4, FS_Subset
<1>6. ASSUME NEW r \in Recs PROVE rank[r] \in 0 .. N - 1
  <2>1. Below(r) \subseteq Recs \ {r}
    BY <1>2
  <2>2. IsFiniteSet(Recs \ {r}) /\ Cardinality(Recs \ {r}) = N - 1
    BY <1>4, FS_RemoveElement
  <2>3. Cardinality(Below(r)) <= N - 1
    BY <2>1, <2>2, FS_Subset
  <2>4. Cardinality(Below(r)) \in Nat
    BY <1>5, FS_CardinalityType
  <2> HIDE DEF Below
  <2> QED BY <1>1, <1>5, <2>3, <2>4
<1>7. ASSUME NEW q \in Recs, NEW r \in Recs, Precedes(q, r)
      PROVE  rank[q] < rank[r]
  <2>1. Below(q) \subseteq Below(r)
    BY <1>3, <1>7
  <2>2. q \in Below(r) /\ q \notin Below(q)
    BY <1>2, <1>7
  <2> HIDE DEF Below
  <2>3. Cardinality(Below(q)) <= Cardinality(Below(r))
        /\ Cardinality(Below(q)) # Cardinality(Below(r))
    <3>1. Below(q) # Below(r)
      BY <2>2
    <3> QED BY <1>5, <2>1, <3>1, FS_Subset
  <2>4. Cardinality(Below(q)) \in Nat /\ Cardinality(Below(r)) \in Nat
    BY <1>5, FS_CardinalityType
  <2> QED BY <1>5, <2>3, <2>4
<1>8. \A q, r \in Recs : rank[q] = rank[r] => q = r
  <2> SUFFICES ASSUME NEW q \in Recs, NEW r \in Recs, rank[q] = rank[r], q # r PROVE FALSE
    OBVIOUS
  <2>1. Precedes(q, r) \/ Precedes(r, q)
    BY <1>2
  <2>2. rank[q] \in Int /\ rank[r] \in Int
    BY <1>1, <1>6
  <2> HIDE DEF rank
  <2> QED BY <1>7, <2>1, <2>2
<1>9. \A n \in 0 .. N - 1 : \E r \in Recs : rank[r] = n
  <2>1. rank \in [Recs -> 0 .. N - 1]
    BY <1>6
  <2>2. rank \in Injection(Recs, 0 .. N - 1)
    <3> HIDE DEF rank
    <3> QED BY <1>8, <2>1 DEF Injection, IsInjective
  <2>3. IsFiniteSet(0 .. N - 1) /\ Cardinality(0 .. N - 1) = N
    <3>1. N \in Nat
      BY <1>1
    <3> HIDE DEF N
    <3>2. 0 \in Int /\ N - 1 \in Int
      BY <3>1
    <3>3. /\ IsFiniteSet(0 .. N - 1)
          /\ Cardinality(0 .. N - 1) = IF 0 > N - 1 THEN 0 ELSE N - 1 - 0 + 1
      BY <3>2, FS_Interval
    <3> QED BY <3>1, <3>3
  <2>4. rank \in Surjection(Recs, 0 .. N - 1)
    <3> HIDE DEF rank, N
    <3> QED BY <1>4, <2>2, <2>3, FS_Injection
  <2> HIDE DEF rank
  <2> QED BY <2>4 DEF Surjection
<1> DEFINE At(p) == CHOOSE r \in Recs : Cardinality(Below(r)) = p - 1
<1>10. SortedBatch = [p \in 1 .. N |-> At(p)]
  BY <1>1 DEF SortedBatch, Recs
<1>11. ASSUME NEW p \in 1 .. N PROVE At(p) \in Recs /\ rank[At(p)] = p - 1
  <2>1. p - 1 \in 0 .. N - 1
    BY <1>1
  <2>2. \E r \in Recs : Cardinality(Below(r)) = p - 1
    BY <1>9, <2>1, <1>5
  <2>3. At(p) \in Recs /\ Cardinality(Below(At(p))) = p - 1
    <3> HIDE DEF Below
    <3> QED BY <2>2
  <2> HIDE DEF At
  <2> QED BY <1>5, <2>3
<1> HIDE DEF At, Below, rank
<1>12. \A p \in 1 .. N : SortedBatch[p] \in Recs /\ rank[SortedBatch[p]] = p - 1
  BY <1>10, <1>11
<1>13. SortedBatch \in [1 .. N -> Rec]
  BY <1>1, <1>10, <1>11
<1>14. ASSUME NEW j \in 1 .. N, NEW k \in 1 .. N, j < k
       PROVE  Before(SortedBatch[j].place, SortedBatch[k].place)
  <2> DEFINE q == SortedBatch[j]
             r == SortedBatch[k]
  <2>1. q \in Recs /\ r \in Recs /\ rank[q] = j - 1 /\ rank[r] = k - 1
    BY <1>12
  <2> HIDE DEF q, r
  <2>2. q # r /\ ~Precedes(r, q)
    <3>1. rank[q] < rank[r]
      BY <1>1, <1>14, <2>1
    <3>2. rank[q] \in Int /\ rank[r] \in Int
      BY <1>1, <2>1
    <3> QED BY <1>7, <2>1, <3>1, <3>2
  <2>3. Before(q.place, r.place)
    BY <1>2, <2>1, <2>2
  <2> QED BY <2>3 DEF q, r
<1>15. ASSUME NEW p \in 1 .. N PROVE \E j \in 1 .. N : SortedBatch[j].place = p
  <2> DEFINE r == batch[p]
  <2>1. r \in Recs /\ r.place = p
    BY <1>1
  <2> HIDE DEF r
  <2>2. rank[r] \in 0 .. N - 1
    BY <1>6, <2>1
  <2>3. rank[r] + 1 \in 1 .. N /\ rank[r] + 1 - 1 = rank[r]
    BY <1>1, <2>2
  <2>4. PICK j \in 1 .. N : j - 1 = rank[r]
    BY <1>1, <2>2, <2>3
  <2>5. SortedBatch[j] \in Recs /\ rank[SortedBatch[j]] = rank[r]
    BY <1>12, <2>4
  <2>6. SortedBatch[j] = r
    BY <1>8, <2>1, <2>5
  <2> QED BY <2>1, <2>6
<1> QED BY <1>1, <1>12, <1>13, <1>14, <1>15 DEF Sorted

-----------------------------------------------------------------------------
(* What is written.                                                        *)

N == Len(batch)

\* Only the counts of a record change.
Kept ==
  \A j \in 1 .. N : /\ outputBuffer[j].kind = batch[outputBuffer[j].place].kind
                    /\ outputBuffer[j].letter = batch[outputBuffer[j].place].letter

OutputOK ==
  /\ output \in Seq(Rec)
  /\ \A n \in DOMAIN output : \E k \in 1 .. i - 1 :
       /\ output[n].place = outputBuffer[k].place /\ output[n].kind = outputBuffer[k].kind
       /\ outputBuffer[k].letter \in wantRecord
  /\ \A m, n \in DOMAIN output : m < n => Before(output[m].place, output[n].place)
  /\ \A k \in 1 .. i - 1 : outputBuffer[k].kind # "C" /\ outputBuffer[k].letter \in wantRecord =>
       \E n \in DOMAIN output : output[n].place = outputBuffer[k].place

BInv ==
  /\ BatchOK /\ pc \in {"sort", "output", "done"} /\ i \in 1 .. N + 1
  /\ pc = "sort" => outputBuffer = batch /\ i = 1 /\ output = <<>>
  /\ pc # "sort" => Sorted(outputBuffer) /\ Kept
  /\ pc = "done" => i = N + 1
  /\ OutputOK

LEMMA Buffer ==
  ASSUME BInv, pc # "sort"
  PROVE  /\ N \in Nat /\ DOMAIN outputBuffer = 1 .. N /\ Len(outputBuffer) = N
         /\ \A j \in 1 .. N : outputBuffer[j] \in Rec /\ outputBuffer[j].place \in 1 .. N
<1>1. N \in Nat /\ outputBuffer \in [1 .. N -> Rec]
  BY DEF BInv, BatchOK, Sorted, N
<1>2. \A j \in 1 .. N : outputBuffer[j].place \in 1 .. N
  BY DEF BInv, Sorted, N
<1>3. outputBuffer \in Seq(Rec)
  BY <1>1
<1>4. DOMAIN outputBuffer = 1 .. N /\ Len(outputBuffer) = N
  BY <1>1, <1>3
<1> QED BY <1>1, <1>2, <1>4

LEMMA StopsAtFacts ==
  ASSUME BInv, pc = "output"
  PROVE  \/ StopsAt = 0
         \/ /\ StopsAt \in i + 1 .. N /\ EndsCombining(outputBuffer[StopsAt])
            /\ \A k \in i + 1 .. StopsAt - 1 : ~EndsCombining(outputBuffer[k])
<1> DEFINE Stops == {j \in i + 1 .. Len(outputBuffer) : EndsCombining(outputBuffer[j])}
<1>1. N \in Nat /\ Len(outputBuffer) = N /\ i \in Nat
  BY Buffer DEF BInv
<1>2. CASE Stops = {}
  BY <1>2 DEF StopsAt
<1>3. CASE Stops # {}
  <2>1. Stops \in SUBSET Nat
    BY <1>1
  <2> DEFINE m == CHOOSE j \in Stops : \A k \in Stops : j <= k
  <2>2. m \in Stops /\ \A k \in Stops : m <= k
    <3> HIDE DEF Stops
    <3> QED BY <1>3, <2>1, LeastNat
  <2>3. StopsAt = m
    BY <1>3 DEF StopsAt
  <2> HIDE DEF m
  <2>4. \A k \in i + 1 .. m - 1 : ~EndsCombining(outputBuffer[k])
    BY <1>1, <2>2
  <2> QED BY <1>1, <2>2, <2>3, <2>4
<1> QED BY <1>2, <1>3

LEMMA InitBInv == Init => BInv
<1> SUFFICES ASSUME Init PROVE BInv
  OBVIOUS
<1>1. BatchOK
  BY InitBatch
<1>2. /\ outputBuffer = batch /\ i = 1 /\ output = <<>> /\ pc = "sort"
  BY DEF Init
<1>3. i \in 1 .. N + 1
  BY <1>1, <1>2 DEF BatchOK, N
<1>4. OutputOK
  BY <1>2 DEF OutputOK
<1> QED BY <1>1, <1>2, <1>3, <1>4 DEF BInv

LEMMA SortStep ==
  ASSUME BInv, Sort
  PROVE  BInv'
<1>1. /\ pc = "sort" /\ pc' = "output" /\ outputBuffer' = SortedBatch
      /\ outputBuffer = batch /\ i = 1 /\ output = <<>>
      /\ UNCHANGED <<wantRecord, i, output, batch>>
  BY DEF Sort, BInv
<1>2. Sorted(outputBuffer)' /\ Kept'
  <2>1. Sorted(SortedBatch) /\ \A j \in 1 .. N : SortedBatch[j] = batch[SortedBatch[j].place]
    BY <1>1, SortLemma DEF BInv, N
  <2>2. Sorted(outputBuffer)'
    BY <1>1, <2>1 DEF Sorted, Before
  <2>3. Kept'
    BY <1>1, <2>1 DEF Kept, N
  <2> QED BY <2>2, <2>3
<1>3. OutputOK'
  BY <1>1 DEF OutputOK
<1>4. BatchOK' /\ (i \in 1 .. N + 1)'
  BY <1>1 DEF BInv, BatchOK, N
<1> QED BY <1>1, <1>2, <1>3, <1>4 DEF BInv

\* Combining changes the counts of one record behind the one at hand.
LEMMA Combining ==
  ASSUME BInv, Combine
  PROVE  LET j == StopsAt
         IN  /\ j \in i + 1 .. N /\ i \in 1 .. N
             /\ outputBuffer[i].kind = "C" /\ outputBuffer[j].kind = "C"
             /\ \A k \in i + 1 .. j - 1 : ~EndsCombining(outputBuffer[k])
             /\ outputBuffer' \in [1 .. N -> Rec]
             /\ \A k \in 1 .. N :
                  /\ outputBuffer'[k].place = outputBuffer[k].place
                  /\ outputBuffer'[k].kind = outputBuffer[k].kind
                  /\ outputBuffer'[k].letter = outputBuffer[k].letter
                  /\ outputBuffer'[k].counts =
                       IF k = j THEN outputBuffer[j].counts + outputBuffer[i].counts
                       ELSE outputBuffer[k].counts
<1> DEFINE j == StopsAt
           new == [outputBuffer[j] EXCEPT !.counts = @ + outputBuffer[i].counts]
<1>1. /\ pc = "output" /\ i <= Len(outputBuffer) /\ "C" \in wantRecord
      /\ outputBuffer[i].kind = "C" /\ j # 0 /\ outputBuffer[j].kind = "C"
      /\ outputBuffer' = [outputBuffer EXCEPT ![j] = new]
  BY DEF Combine, Combines, combineFrom
<1>2. /\ N \in Nat /\ Len(outputBuffer) = N /\ i \in 1 .. N
      /\ \A k \in 1 .. N : outputBuffer[k] \in Rec
  BY <1>1, Buffer DEF BInv
<1>3. j \in i + 1 .. N /\ j \in 1 .. N
      /\ \A k \in i + 1 .. j - 1 : ~EndsCombining(outputBuffer[k])
  BY <1>1, <1>2, StopsAtFacts
<1>4. outputBuffer \in [1 .. N -> Rec]
  BY <1>1 DEF BInv, Sorted, N
<1> HIDE DEF j
<1>5. outputBuffer[i] \in Rec /\ outputBuffer[j] \in Rec
  BY <1>2, <1>3
<1>6. /\ new \in Rec /\ new.place = outputBuffer[j].place /\ new.kind = outputBuffer[j].kind
      /\ new.letter = outputBuffer[j].letter
      /\ new.counts = outputBuffer[j].counts + outputBuffer[i].counts
  BY <1>5 DEF Rec
<1> HIDE DEF new
<1>7. /\ outputBuffer' \in [1 .. N -> Rec]
      /\ \A k \in 1 .. N : outputBuffer'[k] = IF k = j THEN new ELSE outputBuffer[k]
  BY <1>1, <1>3, <1>4, <1>6
<1> QED BY <1>1, <1>2, <1>3, <1>6, <1>7 DEF j

LEMMA CombineStep ==
  ASSUME BInv, Combine
  PROVE  BInv'
<1>1. /\ pc = "output" /\ i' = i + 1 /\ UNCHANGED <<wantRecord, output, pc, batch>>
  BY DEF Combine
<1>2. /\ i \in 1 .. N /\ outputBuffer[i].kind = "C"
      /\ outputBuffer' \in [1 .. N -> Rec]
      /\ \A k \in 1 .. N : /\ outputBuffer'[k].place = outputBuffer[k].place
                           /\ outputBuffer'[k].kind = outputBuffer[k].kind
                           /\ outputBuffer'[k].letter = outputBuffer[k].letter
  BY Combining
<1>3. N \in Nat /\ N' = N /\ BatchOK'
  BY <1>1 DEF BInv, BatchOK, N
<1>4. i' \in 1 .. N + 1 /\ 1 .. i' - 1 = (1 .. i - 1) \cup {i} /\ 1 .. i \subseteq 1 .. N
  BY <1>1, <1>2, <1>3
<1>5. Sorted(outputBuffer)'
  <2>1. Sorted(outputBuffer)
    BY <1>1 DEF BInv
  <2>2. \A p, q : Before(p, q)' <=> Before(p, q)
    BY <1>1 DEF Before
  <2> QED BY <1>1, <1>2, <1>3, <2>1, <2>2 DEF Sorted, N
<1>6. \A j \in 1 .. N : outputBuffer[j].place \in 1 .. N
  BY <1>1, Buffer
<1>7. Kept'
  BY <1>1, <1>2, <1>3 DEF BInv, Kept
<1>8. OutputOK'
  <2>1. output' \in Seq(Rec)
        /\ \A m, n \in DOMAIN output' : m < n => Before(output[m].place, output[n].place)'
    BY <1>1 DEF BInv, OutputOK, Before
  <2>2. ASSUME NEW n \in DOMAIN output'
        PROVE  \E k \in 1 .. i' - 1 :
                 /\ output'[n].place = outputBuffer'[k].place
                 /\ output'[n].kind = outputBuffer'[k].kind
                 /\ outputBuffer'[k].letter \in wantRecord'
    <3>1. OutputOK /\ n \in DOMAIN output
      BY <1>1 DEF BInv
    <3>2. PICK k \in 1 .. i - 1 :
            /\ output[n].place = outputBuffer[k].place /\ output[n].kind = outputBuffer[k].kind
            /\ outputBuffer[k].letter \in wantRecord
      BY <3>1 DEF OutputOK
    <3>3. k \in 1 .. i' - 1 /\ k \in 1 .. N
      BY <1>1, <1>2, <1>3, <1>4
    <3> QED BY <1>1, <1>2, <3>2, <3>3
  <2>3. ASSUME NEW k \in 1 .. i' - 1, outputBuffer'[k].kind # "C",
               outputBuffer'[k].letter \in wantRecord'
        PROVE  \E n \in DOMAIN output' : output'[n].place = outputBuffer'[k].place
    <3>1. k \in (1 .. i - 1) \cup {i} /\ k \in 1 .. N
      <4>1. k \in (1 .. i - 1) \cup {i}
        BY <1>4
      <4> QED BY <1>2, <1>3, <4>1
    <3>2. k # i
      BY <1>2, <2>3
    <3> QED BY <1>1, <1>2, <2>3, <3>1, <3>2 DEF BInv, OutputOK
  <2> QED BY <2>1, <2>2, <2>3 DEF OutputOK
<1> QED BY <1>1, <1>3, <1>4, <1>5, <1>7, <1>8 DEF BInv

LEMMA StreamStep ==
  ASSUME BInv, Stream
  PROVE  BInv'
<1> DEFINE r == outputBuffer[i]
<1>1. /\ pc = "output" /\ i <= Len(outputBuffer) /\ i' = i + 1
      /\ output' = IF r.letter \in wantRecord THEN Append(output, r) ELSE output
      /\ UNCHANGED <<outputBuffer, wantRecord, pc, batch>>
  BY DEF Stream
<1>2. N \in Nat /\ N' = N /\ BatchOK'
  BY <1>1 DEF BInv, BatchOK, N
<1>3. /\ i \in 1 .. N /\ i' \in 1 .. N + 1 /\ 1 .. i' - 1 = (1 .. i - 1) \cup {i}
      /\ 1 .. i - 1 \subseteq 1 .. N
  BY <1>1, <1>2, Buffer DEF BInv
<1>4. Sorted(outputBuffer) /\ r \in Rec
  BY <1>1, <1>3, Buffer DEF BInv
<1>5. Sorted(outputBuffer)' /\ Kept'
  BY <1>1 DEF BInv, Kept, Sorted, Before, N
<1>6. OutputOK'
  <2>1. CASE r.letter \notin wantRecord
    <3>1. output' = output
      BY <1>1, <2>1
    <3>2. \A n \in DOMAIN output : \E k \in 1 .. i' - 1 :
            /\ output[n].place = outputBuffer[k].place /\ output[n].kind = outputBuffer[k].kind
            /\ outputBuffer[k].letter \in wantRecord
      BY <1>3 DEF BInv, OutputOK
    <3>3. \A k \in 1 .. i' - 1 :
            outputBuffer[k].kind # "C" /\ outputBuffer[k].letter \in wantRecord =>
              \E n \in DOMAIN output : output[n].place = outputBuffer[k].place
      BY <1>3, <2>1 DEF BInv, OutputOK
    <3> QED BY <1>1, <3>1, <3>2, <3>3 DEF BInv, OutputOK, Before
  <2>2. CASE r.letter \in wantRecord
    <3> DEFINE L == Len(output)
    <3>1. output \in Seq(Rec) /\ L \in Nat /\ DOMAIN output = 1 .. L
      BY DEF BInv, OutputOK
    <3>2. /\ output' \in Seq(Rec) /\ DOMAIN output' = 1 .. L + 1 /\ output'[L + 1] = r
          /\ \A n \in 1 .. L : output'[n] = output[n]
      BY <1>1, <1>4, <2>2, <3>1
    <3> HIDE DEF L
    <3>3. ASSUME NEW n \in DOMAIN output'
          PROVE  \E k \in 1 .. i' - 1 :
                   /\ output'[n].place = outputBuffer[k].place
                   /\ output'[n].kind = outputBuffer[k].kind
                   /\ outputBuffer[k].letter \in wantRecord
      <4>1. CASE n = L + 1
        BY <1>3, <2>2, <3>2, <4>1
      <4>2. CASE n # L + 1
        <5>1. n \in DOMAIN output /\ output'[n] = output[n]
          BY <3>1, <3>2, <4>2
        <5> QED BY <1>3, <5>1 DEF BInv, OutputOK
      <4> QED BY <4>1, <4>2
    <3>4. ASSUME NEW m \in DOMAIN output', NEW n \in DOMAIN output', m < n
          PROVE  Before(output'[m].place, output'[n].place)
      <4>1. m \in DOMAIN output /\ output'[m] = output[m]
        BY <3>1, <3>2, <3>4
      <4>2. CASE n = L + 1
        <5>1. PICK k \in 1 .. i - 1 : output[m].place = outputBuffer[k].place
          BY <4>1 DEF BInv, OutputOK
        <5>2. k \in 1 .. N /\ k < i
          BY <1>3
        <5>3. Before(outputBuffer[k].place, outputBuffer[i].place)
          BY <1>3, <1>4, <5>2 DEF Sorted, N
        <5> QED BY <3>2, <4>1, <4>2, <5>1, <5>3
      <4>3. CASE n # L + 1
        <5>1. n \in DOMAIN output /\ output'[n] = output[n]
          BY <3>1, <3>2, <4>3
        <5> QED BY <3>4, <4>1, <5>1 DEF BInv, OutputOK
      <4> QED BY <4>2, <4>3
    <3>5. ASSUME NEW k \in 1 .. i' - 1, outputBuffer[k].kind # "C",
                 outputBuffer[k].letter \in wantRecord
          PROVE  \E n \in DOMAIN output' : output'[n].place = outputBuffer[k].place
      <4>1. CASE k = i
        BY <3>1, <3>2, <4>1
      <4>2. CASE k # i
        <5>1. PICK n \in DOMAIN output : output[n].place = outputBuffer[k].place
          BY <1>3, <3>5, <4>2 DEF BInv, OutputOK
        <5> QED BY <3>1, <3>2, <5>1
      <4> QED BY <4>1, <4>2
    <3>6. UNCHANGED <<outputBuffer, wantRecord, batch>>
      BY <1>1
    <3> HIDE DEF r
    <3>7. (\A m, n \in DOMAIN output : m < n => Before(output[m].place, output[n].place))'
      BY <3>4, <3>6 DEF Before
    <3> QED BY <3>2, <3>3, <3>5, <3>6, <3>7 DEF OutputOK
  <2> QED BY <2>1, <2>2
<1> QED BY <1>1, <1>2, <1>3, <1>5, <1>6 DEF BInv

LEMMA FinishStep ==
  ASSUME BInv, Finish
  PROVE  BInv'
<1>1. /\ pc = "output" /\ pc' = "done" /\ i > Len(outputBuffer)
      /\ UNCHANGED <<outputBuffer, wantRecord, i, output, batch>>
  BY DEF Finish
<1>2. i = N + 1
  BY <1>1, Buffer DEF BInv
<1> QED BY <1>1, <1>2 DEF BInv, BatchOK, N, Kept, Sorted, OutputOK, Before

LEMMA NextBInv == BInv /\ [Next]_vars => BInv'
<1> SUFFICES ASSUME BInv, [Next]_vars PROVE BInv'
  OBVIOUS
<1>1. CASE UNCHANGED vars
  BY <1>1 DEF vars, BInv, BatchOK, N, Kept, Sorted, OutputOK, Before
<1> QED BY <1>1, SortStep, CombineStep, StreamStep, FinishStep DEF Next

(* Every wanted record is written, in time order and, at one time, in the  *)
(* order of the batch, whatever the batch and the wanted letters           *)
(* (SortAndOutputThread::run).                                             *)
THEOREM BatchWrittenInOrder == Spec => []TraceInOrder
<1>1. BInv => TraceInOrder
  <2> SUFFICES ASSUME BInv, pc = "done"
               PROVE  /\ \A p \in Places : batch[p].kind # "C" =>
                           (Written(p) <=> batch[p].letter \in wantRecord)
                      /\ \A m, n \in DOMAIN output :
                           m < n => Before(output[m].place, output[n].place)
    BY DEF TraceInOrder
  <2>1. Places = 1 .. N /\ N \in Nat /\ i = N + 1 /\ 1 .. i - 1 = 1 .. N
    BY DEF BInv, BatchOK, Places, N
  <2>2. ASSUME NEW p \in Places, batch[p].kind # "C"
        PROVE  Written(p) <=> batch[p].letter \in wantRecord
    <3>1. PICK j \in 1 .. N : outputBuffer[j].place = p
      BY <2>1 DEF BInv, Sorted, N
    <3>2. outputBuffer[j].kind = batch[p].kind /\ outputBuffer[j].letter = batch[p].letter
      BY <3>1 DEF BInv, Kept
    <3>3. batch[p].letter \in wantRecord => Written(p)
      BY <2>1, <2>2, <3>1, <3>2 DEF BInv, OutputOK, Written
    <3>4. Written(p) => batch[p].letter \in wantRecord
      BY <2>1 DEF BInv, OutputOK, Written, Kept
    <3> QED BY <3>3, <3>4
  <2>3. \A m, n \in DOMAIN output : m < n => Before(output[m].place, output[n].place)
    BY DEF BInv, OutputOK
  <2> QED BY <2>2, <2>3
<1> QED BY <1>1, InitBInv, NextBInv, PTL DEF Spec

-----------------------------------------------------------------------------
(* The counts.  What the counts records before the one at hand counted is  *)
(* in the trace, or the next counts record carries it, and then no wanted  *)
(* record lies in between.                                                 *)

Seen == {outputBuffer[k].place : k \in 1 .. i - 1}
Carry == CountsAt(Seen) - SumOutput[Len(output)]
One(k) == outputBuffer[k].kind = "C" => outputBuffer[k].counts = 1

Carried ==
  \/ Carry = 0 /\ \A k \in i .. N : One(k)
  \/ \E f \in i .. N :
       /\ outputBuffer[f].kind = "C" /\ outputBuffer[f].counts = 1 + Carry
       /\ \A k \in i .. f - 1 : ~EndsCombining(outputBuffer[k])
       /\ \A k \in f + 1 .. N : One(k)

NoOtherCounts == \A k \in 1 .. N : outputBuffer[k].kind # "C" => outputBuffer[k].counts = 0

SoFar ==
  KindsAgree =>
    \A n \in DOMAIN output : output[n].kind # "C" =>
      SumOutput[n] = CountsAt({p \in Places : Before(p, output[n].place)})

CInv == pc # "sort" /\ "C" \in wantRecord => Carried /\ NoOtherCounts /\ SoFar

LEMMA CountsAtFacts ==
  ASSUME BatchOK, NEW P, P \subseteq 1 .. N, NEW x \in (1 .. N) \ P
  PROVE  /\ CountsAt(P) \in Nat
         /\ CountsAt(P \cup {x}) = CountsAt(P) + IF batch[x].kind = "C" THEN 1 ELSE 0
<1> DEFINE Cs(Q) == {p \in Q : batch[p].kind = "C"}
<1>1. N \in Nat /\ IsFiniteSet(1 .. N)
  <2>1. N \in Nat
    BY DEF BatchOK, N
  <2> QED BY <2>1, FS_Interval
<1>2. Cs(P) \subseteq 1 .. N
  OBVIOUS
<1>3. IsFiniteSet(Cs(P))
  <2> HIDE DEF Cs
  <2> QED BY <1>1, <1>2, FS_Subset
<1>4. Cardinality(Cs(P)) \in Nat
  <2> HIDE DEF Cs
  <2> QED BY <1>3, FS_CardinalityType
<1>5. x \notin Cs(P)
  OBVIOUS
<1>6. CASE batch[x].kind = "C"
  <2>1. Cs(P \cup {x}) = Cs(P) \cup {x}
    BY <1>6
  <2> HIDE DEF Cs
  <2>2. Cardinality(Cs(P) \cup {x}) = Cardinality(Cs(P)) + 1
    BY <1>3, <1>5, FS_AddElement
  <2>3. CountsAt(P) = Cardinality(Cs(P)) /\ CountsAt(P \cup {x}) = Cardinality(Cs(P \cup {x}))
    BY DEF CountsAt, Cs
  <2> QED BY <1>4, <1>6, <2>1, <2>2, <2>3
<1>7. CASE batch[x].kind # "C"
  <2>1. Cs(P \cup {x}) = Cs(P)
    BY <1>7
  <2> HIDE DEF Cs
  <2>2. CountsAt(P) = Cardinality(Cs(P)) /\ CountsAt(P \cup {x}) = Cardinality(Cs(P \cup {x}))
    BY DEF CountsAt, Cs
  <2> QED BY <1>4, <1>7, <2>1, <2>2
<1> QED BY <1>6, <1>7

\* Before is a strict order of the places.
LEMMA BeforeIsStrict ==
  ASSUME BatchOK, NEW p \in 1 .. N, NEW q \in 1 .. N, Before(p, q)
  PROVE  ~Before(q, p) /\ p # q
<1>1. batch[p].time \in Int /\ batch[q].time \in Int /\ p \in Int /\ q \in Int
  BY BatchAssumption DEF BatchOK, Rec, N
<1> QED BY <1>1 DEF Before

\* The records the loop is past are those before the one at hand in time order.
LEMMA SeenFacts ==
  ASSUME BInv, pc # "sort", i \in 1 .. N
  PROVE  /\ Seen \subseteq 1 .. N /\ outputBuffer[i].place \in (1 .. N) \ Seen
         /\ Seen = {p \in Places : Before(p, outputBuffer[i].place)}
<1> DEFINE x == outputBuffer[i].place
<1>1. /\ N \in Nat /\ x \in 1 .. N /\ BatchOK /\ Sorted(outputBuffer)
      /\ \A j \in 1 .. N : outputBuffer[j].place \in 1 .. N
      /\ Places = 1 .. N
  BY Buffer DEF BInv, BatchOK, Places, N
<1>2. \A k \in 1 .. i - 1 : k \in 1 .. N /\ k < i
  BY <1>1
<1>3. \A j, k \in 1 .. N : j < k => Before(outputBuffer[j].place, outputBuffer[k].place)
  BY <1>1 DEF Sorted, N
<1>4. \A p \in Seen : p \in 1 .. N /\ Before(p, x)
  BY <1>1, <1>2, <1>3 DEF Seen
<1>5. x \notin Seen
  BY <1>1, <1>4, BeforeIsStrict
<1>6. ASSUME NEW p \in 1 .. N, Before(p, x) PROVE p \in Seen
  <2>1. PICK j \in 1 .. N : outputBuffer[j].place = p
    BY <1>1 DEF Sorted, N
  <2>2. j # i
    BY <1>1, <1>6, <2>1, BeforeIsStrict
  <2>3. ~(i < j)
    <3>1. ~Before(x, p)
      BY <1>1, <1>6, BeforeIsStrict
    <3> QED BY <1>3, <2>1, <3>1
  <2>4. j \in 1 .. i - 1
    BY <1>1, <2>2, <2>3
  <2> QED BY <2>1, <2>4 DEF Seen
<1> QED BY <1>1, <1>4, <1>5, <1>6

\* The sums of a sequence do not change when it grows.
LEMMA SumsGrow ==
  ASSUME output \in Seq(Rec), NEW r \in Rec, output' = Append(output, r)
  PROVE  /\ \A n \in 0 .. Len(output) : SumOutput'[n] = SumOutput[n] /\ SumOutput[n] \in Nat
         /\ SumOutput'[Len(output')] = SumOutput[Len(output)] + r.counts
<1> DEFINE L == Len(output)
<1>1. /\ L \in Nat /\ Len(output') = L + 1 /\ output' \in Seq(Rec) /\ output'[L + 1] = r
      /\ \A n \in 1 .. L : output'[n] = output[n]
  OBVIOUS
<1>2. \A n \in 1 .. L : output[n].counts \in Nat
  <2>1. \A n \in 1 .. L : output[n] \in Rec
    OBVIOUS
  <2> QED BY <2>1 DEF Rec
<1>3. \A n \in 1 .. L + 1 : output'[n].counts \in Nat
  <2>1. \A n \in 1 .. L + 1 : output'[n] \in Rec
    BY <1>1
  <2> QED BY <2>1 DEF Rec
<1>4. /\ \A n \in 0 .. L : SumOutput[n] \in Nat
      /\ SumOutput[0] = 0
      /\ \A n \in 1 .. L : SumOutput[n] = SumOutput[n - 1] + output[n].counts
  BY <1>1, <1>2, SumOutputFacts DEF CountsTyped, SumsRight
<1>6. /\ SumOutput'[0] = 0
      /\ \A n \in 1 .. L + 1 : SumOutput'[n] = SumOutput'[n - 1] + output'[n].counts
  BY <1>1, <1>3, SumOutputNext DEF CountsTyped, SumsRight
<1> DEFINE Same == {n \in Nat : n <= L => SumOutput'[n] = SumOutput[n]}
<1>7. 0 \in Same
  BY <1>4, <1>6
<1>8. ASSUME NEW n \in Nat, n \in Same PROVE n + 1 \in Same
  <2> SUFFICES ASSUME n + 1 <= L PROVE SumOutput'[n + 1] = SumOutput[n + 1]
    OBVIOUS
  <2>1. n + 1 \in 1 .. L /\ n + 1 \in 1 .. L + 1 /\ n + 1 - 1 = n
    BY <1>1
  <2>2. SumOutput'[n] = SumOutput[n]
    BY <1>1, <1>8
  <2> QED BY <1>1, <1>4, <1>6, <2>1, <2>2
<1>9. Nat \subseteq Same
  <2> HIDE DEF Same
  <2> QED BY <1>7, <1>8, NatStep
<1>10. \A n \in 0 .. L : SumOutput'[n] = SumOutput[n] /\ SumOutput[n] \in Nat
  BY <1>1, <1>4, <1>9
<1>11. L + 1 \in 1 .. L + 1 /\ L + 1 - 1 = L /\ L \in 0 .. L
  BY <1>1
<1>12. SumOutput'[L + 1] = SumOutput[L] + r.counts
  BY <1>1, <1>6, <1>10, <1>11
<1> QED BY <1>1, <1>10, <1>12

LEMMA InitCInv == Init => CInv
BY DEF Init, CInv

LEMMA SortCounts ==
  ASSUME BInv, BInv', Sort
  PROVE  CInv'
<1>1. /\ pc' = "output" /\ i' = 1 /\ output' = <<>> /\ outputBuffer' = SortedBatch
      /\ outputBuffer = batch /\ batch' = batch
  BY DEF Sort, BInv
<1>2. BatchOK /\ N \in Nat /\ N' = N
  BY <1>1 DEF BInv, BatchOK, N
<1>3. \A k \in 1 .. N : /\ outputBuffer'[k] = batch[outputBuffer'[k].place]
                        /\ outputBuffer'[k].place \in 1 .. N
  BY <1>1, <1>2, SortLemma DEF Sorted, N
<1>4. \A k \in 1 .. N : outputBuffer'[k].counts = IF outputBuffer'[k].kind = "C" THEN 1 ELSE 0
  BY <1>2, <1>3 DEF BatchOK, N
<1>5. Seen' = {}
  <2>1. 1 .. 1 - 1 = {}
    OBVIOUS
  <2> QED BY <1>1, <2>1 DEF Seen
<1>6. Carry' = 0
  <2>1. CountsAt(Seen)' = 0
    <3>1. CountsAt(Seen)' = Cardinality({p \in {} : batch[p].kind = "C"})
      BY <1>1, <1>5 DEF CountsAt
    <3>2. {p \in {} : batch[p].kind = "C"} = {}
      OBVIOUS
    <3> QED BY <3>1, <3>2, FS_EmptySet
  <2>2. Len(output') = 0 /\ 1 .. 0 = {}
    BY <1>1
  <2>5. SumOutput'[0] = 0
    BY <2>2, SumOutputNext DEF CountsTyped, SumsRight
  <2> QED BY <2>1, <2>2, <2>5 DEF Carry
<1>7. Carried'
  BY <1>1, <1>2, <1>4, <1>6 DEF Carried, One
<1>8. NoOtherCounts' /\ SoFar'
  BY <1>1, <1>2, <1>4 DEF NoOtherCounts, SoFar
<1> QED BY <1>7, <1>8 DEF CInv

\* Past the record at hand, the places seen are one more.
LEMMA SeenGrows ==
  ASSUME BInv, pc = "output", i \in 1 .. N, i' = i + 1, batch' = batch,
         \A k \in 1 .. N : outputBuffer'[k].place = outputBuffer[k].place
  PROVE  /\ CountsAt(Seen) \in Nat
         /\ CountsAt(Seen)' = CountsAt(Seen) + IF outputBuffer[i].kind = "C" THEN 1 ELSE 0
<1> DEFINE x == outputBuffer[i].place
<1>1. Seen \subseteq 1 .. N /\ x \in (1 .. N) \ Seen /\ BatchOK
  BY SeenFacts DEF BInv
<1>2. /\ CountsAt(Seen) \in Nat
      /\ CountsAt(Seen \cup {x}) = CountsAt(Seen) + IF batch[x].kind = "C" THEN 1 ELSE 0
  BY <1>1, CountsAtFacts
<1>3. batch[x].kind = outputBuffer[i].kind
  BY DEF BInv, Kept
<1>4. N \in Nat
  BY Buffer
<1>5. 1 .. i' - 1 = (1 .. i - 1) \cup {i} /\ 1 .. i - 1 \subseteq 1 .. N
  BY <1>4
<1>6. Seen' = Seen \cup {x}
  BY <1>5 DEF Seen
<1>7. CountsAt(Seen)' = CountsAt(Seen \cup {x})
  BY <1>6 DEF CountsAt
<1> QED BY <1>2, <1>3, <1>7

LEMMA CombineCounts ==
  ASSUME BInv, CInv, Combine
  PROVE  CInv'
<1> DEFINE j == StopsAt
<1>1. /\ pc = "output" /\ i' = i + 1 /\ UNCHANGED <<wantRecord, output, pc, batch>>
      /\ "C" \in wantRecord /\ N' = N
  BY DEF Combine, Combines, N
<1>2. /\ j \in i + 1 .. N /\ i \in 1 .. N
      /\ outputBuffer[i].kind = "C" /\ outputBuffer[j].kind = "C"
      /\ \A k \in i + 1 .. j - 1 : ~EndsCombining(outputBuffer[k])
      /\ \A k \in 1 .. N :
           /\ outputBuffer'[k].place = outputBuffer[k].place
           /\ outputBuffer'[k].kind = outputBuffer[k].kind
           /\ outputBuffer'[k].counts =
                IF k = j THEN outputBuffer[j].counts + outputBuffer[i].counts
                ELSE outputBuffer[k].counts
  BY Combining
<1> HIDE DEF j
<1>3. N \in Nat /\ j \in 1 .. N
  BY <1>1, <1>2, Buffer
<1>4. Carried /\ NoOtherCounts /\ SoFar
  BY <1>1 DEF CInv
<1>5. CountsAt(Seen) \in Nat /\ CountsAt(Seen)' = CountsAt(Seen) + 1
  BY <1>1, <1>2, SeenGrows
<1>6. SumOutput' = SumOutput /\ Len(output') = Len(output) /\ SumOutput[Len(output)] \in Nat
  <2>1. output \in Seq(Rec)
    BY DEF BInv, OutputOK
  <2>2. \A n \in 1 .. Len(output) : output[n] \in Rec
    BY <2>1
  <2>3. CountsTyped /\ Len(output) \in 0 .. Len(output)
    BY <2>1, <2>2 DEF CountsTyped, Rec
  <2> QED BY <1>1, <2>3, SumOutputFacts DEF SumsRight, SumOutput
<1>7. Carry \in Int /\ Carry' = Carry + 1
  BY <1>5, <1>6 DEF Carry
<1>8. outputBuffer[i].counts = 1 + Carry /\ outputBuffer[j].counts = 1
      /\ \A k \in j + 1 .. N : One(k)
  <2>1. CASE Carry = 0 /\ \A k \in i .. N : One(k)
    BY <1>2, <1>3, <1>7, <2>1 DEF One
  <2>2. ASSUME NEW f \in i .. N, outputBuffer[f].kind = "C", outputBuffer[f].counts = 1 + Carry,
               \A k \in i .. f - 1 : ~EndsCombining(outputBuffer[k]),
               \A k \in f + 1 .. N : One(k)
        PROVE  outputBuffer[i].counts = 1 + Carry /\ outputBuffer[j].counts = 1
               /\ \A k \in j + 1 .. N : One(k)
    <3>1. f = i
      BY <1>2, <1>3, <2>2 DEF EndsCombining
    <3> QED BY <1>2, <1>3, <2>2, <3>1 DEF One
  <2> QED BY <1>4, <2>1, <2>2 DEF Carried
<1>9. Carried'
  <2>1. j \in i' .. N' /\ outputBuffer'[j].kind = "C" /\ outputBuffer'[j].counts = 1 + Carry'
    BY <1>1, <1>2, <1>3, <1>7, <1>8
  <2>2. \A k \in i' .. j - 1 : ~EndsCombining(outputBuffer[k])'
    BY <1>1, <1>2, <1>3 DEF EndsCombining
  <2>3. \A k \in j + 1 .. N' : One(k)'
    BY <1>1, <1>2, <1>3, <1>8 DEF One
  <2> QED BY <2>1, <2>2, <2>3 DEF Carried
<1>10. NoOtherCounts'
  BY <1>1, <1>2, <1>4 DEF NoOtherCounts
<1>11. SoFar'
  BY <1>1, <1>4, <1>6 DEF SoFar, KindsAgree, Places, CountsAt, Before
<1> QED BY <1>9, <1>10, <1>11 DEF CInv

LEMMA StreamCounts ==
  ASSUME BInv, CInv, Stream
  PROVE  CInv'
<1> DEFINE r == outputBuffer[i]
<1>1. /\ pc = "output" /\ i' = i + 1 /\ UNCHANGED <<outputBuffer, wantRecord, pc, batch>>
      /\ output' = IF r.letter \in wantRecord THEN Append(output, r) ELSE output
      /\ i <= Len(outputBuffer) /\ N' = N
  BY DEF Stream, N
<1> SUFFICES ASSUME "C" \in wantRecord PROVE Carried' /\ NoOtherCounts' /\ SoFar'
  BY <1>1 DEF CInv
<1>2. N \in Nat /\ i \in 1 .. N /\ r \in Rec /\ r.place \in 1 .. N
      /\ i' .. N \subseteq i .. N /\ i \notin i' .. N
  BY <1>1, Buffer DEF BInv
<1>3. Carried /\ NoOtherCounts /\ SoFar
  BY <1>1 DEF CInv
<1>4. CountsAt(Seen) \in Nat
      /\ CountsAt(Seen)' = CountsAt(Seen) + IF r.kind = "C" THEN 1 ELSE 0
  BY <1>1, <1>2, SeenGrows
<1>5. output \in Seq(Rec) /\ Len(output) \in Nat
  BY DEF BInv, OutputOK
<1>6. CountsTyped
  <2>1. \A n \in 1 .. Len(output) : output[n] \in Rec
    BY <1>5
  <2> QED BY <1>5, <2>1 DEF CountsTyped, Rec
<1>7. \A n \in 0 .. Len(output) : SumOutput[n] \in Nat
  BY <1>6, SumOutputFacts DEF SumsRight
<1>8. r.kind # "C" => r.counts = 0
  BY <1>2, <1>3 DEF NoOtherCounts
<1>9. r.counts \in Nat
  BY <1>2 DEF Rec
<1>10. r.kind = "C" => r.letter \in wantRecord
  <2>1. BatchOK /\ r.kind = batch[r.place].kind /\ r.letter = batch[r.place].letter
    BY <1>1, <1>2 DEF BInv, Kept
  <2>2. \A p \in 1 .. Len(batch) : batch[p].kind = "C" => batch[p].letter = "C"
    BY <2>1 DEF BatchOK
  <2>3. r.place \in 1 .. Len(batch)
    BY <1>2 DEF N
  <2> HIDE DEF r
  <2> QED BY <2>1, <2>2, <2>3
<1>11. /\ \A n \in 0 .. Len(output) : SumOutput'[n] = SumOutput[n]
       /\ SumOutput'[Len(output')] = SumOutput[Len(output)] + IF r.kind = "C" THEN r.counts ELSE 0
  <2>1. CASE r.letter \in wantRecord
    <3>1. output' = Append(output, r)
      BY <1>1, <2>1
    <3> HIDE DEF r
    <3> QED BY <1>2, <1>5, <1>7, <1>8, <3>1, SumsGrow
  <2>2. CASE r.letter \notin wantRecord
    <3>1. output' = output
      BY <1>1, <2>2
    <3>2. SumOutput' = SumOutput
      BY <3>1 DEF SumOutput
    <3>3. SumOutput[Len(output)] \in Nat
      BY <1>5, <1>7
    <3>4. r.kind # "C"
      BY <1>10, <2>2
    <3>5. SumOutput'[Len(output')] = SumOutput[Len(output)] + 0
      BY <3>1, <3>2, <3>3
    <3> HIDE DEF r
    <3> QED BY <3>2, <3>4, <3>5
  <2> QED BY <2>1, <2>2
<1>12. SumOutput[Len(output)] \in Nat /\ Carry \in Int
       /\ Carry' = Carry + IF r.kind = "C" THEN 1 - r.counts ELSE 0
  <2>1. SumOutput[Len(output)] \in Nat
    BY <1>5, <1>7
  <2>2. CASE r.kind = "C"
    <3> DEFINE s == SumOutput[Len(output)]
               u == CountsAt(Seen)
               x == r.counts
    <3>1. CountsAt(Seen)' = u + 1 /\ SumOutput'[Len(output')] = s + x
      BY <1>4, <1>11, <2>2
    <3>2. u \in Nat /\ s \in Nat /\ x \in Nat /\ Carry = u - s
          /\ Carry' = CountsAt(Seen)' - SumOutput'[Len(output')]
      BY <1>4, <1>9, <2>1 DEF Carry
    <3>3. Carry' = (u + 1) - (s + x)
      BY <3>1, <3>2
    <3> HIDE DEF s, u, x
    <3>4. Carry' = Carry + (1 - x) /\ Carry \in Int
      BY <3>2, <3>3
    <3> QED BY <2>1, <2>2, <3>4 DEF s, x
  <2>3. CASE r.kind # "C"
    BY <1>4, <1>11, <2>1, <2>3 DEF Carry
  <2> QED BY <2>2, <2>3
<1>13. CASE r.kind = "C"
  <2>1. r.counts = 1 + Carry /\ \A k \in i + 1 .. N : One(k)
    <3>1. CASE Carry = 0 /\ \A k \in i .. N : One(k)
      BY <1>1, <1>2, <1>13, <3>1 DEF One
    <3>2. ASSUME NEW f \in i .. N, outputBuffer[f].kind = "C",
                 outputBuffer[f].counts = 1 + Carry,
                 \A k \in i .. f - 1 : ~EndsCombining(outputBuffer[k]),
                 \A k \in f + 1 .. N : One(k)
          PROVE  r.counts = 1 + Carry /\ \A k \in i + 1 .. N : One(k)
      <4>1. f = i
        BY <1>2, <1>13, <3>2 DEF EndsCombining
      <4> QED BY <3>2, <4>1
    <3> QED BY <1>3, <3>1, <3>2 DEF Carried
  <2>2. Carry' = 0
    <3> HIDE DEF r
    <3> QED BY <1>12, <1>13, <2>1
  <2>3. Carried'
    BY <1>1, <2>1, <2>2 DEF Carried, One
  <2>4. SoFar'
    <3> SUFFICES ASSUME KindsAgree', NEW n \in DOMAIN output', output'[n].kind # "C"
                 PROVE  SumOutput'[n] = CountsAt({p \in Places : Before(p, output[n].place)})'
      BY DEF SoFar
    <3>1. output' = Append(output, r)
      BY <1>1, <1>10, <1>13
    <3>2. n \in DOMAIN output /\ output'[n] = output[n] /\ n \in 0 .. Len(output)
      <4>1. n # Len(output) + 1
        BY <1>5, <1>13, <3>1
      <4> QED BY <1>5, <3>1, <4>1
    <3>3. SumOutput[n] = CountsAt({p \in Places : Before(p, output[n].place)})
      BY <1>1, <1>3, <3>2 DEF SoFar, KindsAgree, Places
    <3>4. CountsAt({p \in Places : Before(p, output[n].place)})'
          = CountsAt({p \in Places : Before(p, output[n].place)})
      BY <1>1, <3>2 DEF CountsAt, Before, Places
    <3> QED BY <1>11, <3>2, <3>3, <3>4
  <2> QED BY <1>1, <1>3, <2>3, <2>4 DEF NoOtherCounts
<1>14. CASE r.kind # "C"
  <2>1. Carry' = Carry
    <3> HIDE DEF r
    <3> QED BY <1>12, <1>14
  <2>2. Carried'
    <3>1. CASE Carry = 0 /\ \A k \in i .. N : One(k)
      BY <1>1, <1>2, <2>1, <3>1 DEF Carried, One
    <3>2. ASSUME NEW f \in i .. N, outputBuffer[f].kind = "C",
                 outputBuffer[f].counts = 1 + Carry,
                 \A k \in i .. f - 1 : ~EndsCombining(outputBuffer[k]),
                 \A k \in f + 1 .. N : One(k)
          PROVE  Carried'
      <4>1. f \in i' .. N'
        BY <1>1, <1>2, <1>14, <3>2
      <4>2. \A k \in i' .. f - 1 : ~EndsCombining(outputBuffer[k])'
        BY <1>1, <1>2, <3>2 DEF EndsCombining
      <4>3. \A k \in f + 1 .. N' : One(k)'
        BY <1>1, <3>2 DEF One
      <4>4. outputBuffer'[f].kind = "C" /\ outputBuffer'[f].counts = 1 + Carry'
        BY <1>1, <2>1, <3>2
      <4> QED BY <4>1, <4>2, <4>3, <4>4 DEF Carried
    <3> QED BY <1>3, <3>1, <3>2 DEF Carried
  <2>3. SoFar'
    <3> SUFFICES ASSUME KindsAgree', NEW n \in DOMAIN output', output'[n].kind # "C"
                 PROVE  SumOutput'[n] = CountsAt({p \in Places : Before(p, output[n].place)})'
      BY DEF SoFar
    <3>1. CountsAt({p \in Places : Before(p, output[n].place)})'
          = CountsAt({p \in Places : Before(p, output'[n].place)})
      BY <1>1 DEF CountsAt, Before, Places
    <3>2. KindsAgree
      BY <1>1 DEF KindsAgree, Places
    <3>3. CASE n \in DOMAIN output /\ output'[n] = output[n]
      <4>1. n \in 0 .. Len(output)
        BY <1>5, <3>3
      <4>2. SumOutput[n] = CountsAt({p \in Places : Before(p, output[n].place)})
        BY <1>3, <3>2, <3>3 DEF SoFar
      <4> QED BY <1>11, <3>1, <3>3, <4>1, <4>2
    <3>4. CASE n = Len(output') /\ output'[n] = r /\ r.letter \in wantRecord
      <4>1. r.kind \in wantRecord
        <5>1. r.kind = batch[r.place].kind /\ r.letter = batch[r.place].letter /\ r.place \in Places
          BY <1>1, <1>2 DEF BInv, Kept, BatchOK, Places, N
        <5> QED BY <3>2, <3>4, <5>1 DEF KindsAgree
      <4>2. EndsCombining(outputBuffer[i])
        BY <4>1 DEF EndsCombining
      <4>3. Carry = 0
        <5>1. ASSUME NEW f \in i .. N, outputBuffer[f].kind = "C",
                     \A k \in i .. f - 1 : ~EndsCombining(outputBuffer[k])
              PROVE  FALSE
          <6>1. f # i
            BY <1>14, <5>1
          <6>2. i \in i .. f - 1
            BY <1>2, <5>1, <6>1
          <6> QED BY <4>2, <5>1, <6>2
        <5> QED BY <1>3, <5>1 DEF Carried
      <4>4. SumOutput'[n] = SumOutput[Len(output)] /\ SumOutput[Len(output)] \in Nat
        <5> HIDE DEF r
        <5> QED BY <1>11, <1>12, <1>14, <3>4
      <4>5. SumOutput'[n] = CountsAt(Seen)
        BY <1>4, <4>3, <4>4 DEF Carry
      <4>6. Seen = {p \in Places : Before(p, r.place)}
        BY <1>1, <1>2, SeenFacts
      <4> HIDE DEF r
      <4> QED BY <3>1, <3>4, <4>5, <4>6
    <3>5. \/ n \in DOMAIN output /\ output'[n] = output[n]
          \/ n = Len(output') /\ output'[n] = r /\ r.letter \in wantRecord
      <4>1. CASE r.letter \in wantRecord
        <5>1. output' = Append(output, r)
          BY <1>1, <4>1
        <5> HIDE DEF r
        <5> QED BY <1>2, <1>5, <4>1, <5>1
      <4>2. CASE r.letter \notin wantRecord
        BY <1>1, <4>2
      <4> QED BY <4>1, <4>2
    <3> QED BY <3>3, <3>4, <3>5
  <2> QED BY <1>1, <1>3, <2>2, <2>3 DEF NoOtherCounts
<1> QED BY <1>13, <1>14

LEMMA NextCInv == BInv /\ BInv' /\ CInv /\ [Next]_vars => CInv'
<1> SUFFICES ASSUME BInv, BInv', CInv, [Next]_vars PROVE CInv'
  OBVIOUS
<1>1. ASSUME UNCHANGED <<outputBuffer, wantRecord, i, output, batch>>,
             pc' = pc \/ pc # "sort"
      PROVE  CInv'
  <2>1. SumOutput' = SumOutput
    BY <1>1 DEF SumOutput
  <2>2. Carry' = Carry
    BY <1>1, <2>1 DEF Carry, CountsAt, Seen
  <2>3. Carried => Carried'
    BY <1>1, <2>2 DEF Carried, One, N, EndsCombining
  <2>4. NoOtherCounts => NoOtherCounts'
    BY <1>1 DEF NoOtherCounts, N
  <2>5. SoFar => SoFar'
    BY <1>1, <2>1 DEF SoFar, KindsAgree, Places, CountsAt, Before
  <2> QED BY <1>1, <2>3, <2>4, <2>5 DEF CInv
<1>2. CASE Finish
  BY <1>1, <1>2 DEF Finish
<1>3. CASE UNCHANGED vars
  BY <1>1, <1>3 DEF vars
<1> QED BY <1>2, <1>3, SortCounts, CombineCounts, StreamCounts DEF Next

(* The counts records of the trace say together what those of the batch    *)
(* said, and before a record that is not a counts record as much as those  *)
(* before it in time order: combining neither loses a count nor moves one  *)
(* past a record (SortAndOutputThread::run, CountsRecord::combineFrom).    *)
THEOREM NoCountLost == Spec => []CountsConserved
<1>1. BInv /\ CInv => CountsConserved
  <2> SUFFICES ASSUME BInv, CInv, pc = "done", "C" \in wantRecord
               PROVE  /\ SumOutput[Len(output)] = CountsAt(Places)
                      /\ SoFar
    BY DEF CountsConserved, SoFar
  <2>1. Carried /\ SoFar /\ N \in Nat /\ i = N + 1 /\ Places = 1 .. N
    BY DEF CInv, BInv, BatchOK, Places, N
  <2>2. Carry = 0
    <3>1. i .. N = {}
      BY <2>1
    <3> QED BY <2>1, <3>1 DEF Carried
  <2>3. Seen = Places
    <3>1. 1 .. i - 1 = 1 .. N
      BY <2>1
    <3>2. Sorted(outputBuffer)
      BY DEF BInv
    <3>3. /\ \A j \in 1 .. N : outputBuffer[j].place \in 1 .. N
          /\ \A p \in 1 .. N : \E j \in 1 .. N : outputBuffer[j].place = p
      BY <3>2 DEF Sorted, N
    <3> QED BY <2>1, <3>1, <3>3 DEF Seen
  <2>4. CountsAt(Places) \in Nat
    <3>1. IsFiniteSet(1 .. N)
      BY <2>1, FS_Interval
    <3>2. IsFiniteSet({p \in Places : batch[p].kind = "C"})
      BY <2>1, <3>1, FS_Subset
    <3> QED BY <3>2, FS_CardinalityType DEF CountsAt
  <2>5. SumOutput[Len(output)] \in Nat
    <3>1. output \in Seq(Rec)
      BY DEF BInv, OutputOK
    <3>2. \A n \in 1 .. Len(output) : output[n] \in Rec
      BY <3>1
    <3>3. CountsTyped /\ Len(output) \in 0 .. Len(output)
      BY <3>1, <3>2 DEF CountsTyped, Rec
    <3> QED BY <3>3, SumOutputFacts DEF SumsRight
  <2> QED BY <2>1, <2>2, <2>3, <2>4, <2>5 DEF Carry
<1> QED BY <1>1, InitBInv, NextBInv, InitCInv, NextCInv, PTL DEF Spec
=============================================================================
