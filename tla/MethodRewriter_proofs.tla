----------------------- MODULE MethodRewriter_proofs -----------------------
(***************************************************************************)
(* Proofs about the rewriting of a method, for any methods, any number of  *)
(* objects and any widths of the packed counts: what the counts say is     *)
(* what was executed; a value number stands for one value, a negative one  *)
(* just for an object without its constructor, and every object is         *)
(* stamped, or hangs on one that is, when it is used: with frames in the   *)
(* whole method, without them up to the jumps that lose it (known).        *)
(*                                                                         *)
(* IInv adds to these what they rest on: the two stacks are aligned, a     *)
(* number lies between the counters of the adapter, so that a new one is   *)
(* new in all places, an object that is not constructed has the same       *)
(* number in all its places, so that foundInit finds them all, and a       *)
(* stamped number has been drawn.                                          *)
(*                                                                         *)
(* The sum that outputCounts reports is recursive.  That it is what its    *)
(* equation says is shown by a least pair of counts for which it would not *)
(* be, which the well-foundedness of finite sets gives (LeastNat).         *)
(***************************************************************************)
EXTENDS MethodRewriter, FiniteSetTheorems, SequenceTheorems, TLAPS

-----------------------------------------------------------------------------
(* Powers of two, from the number of the subsets of 1 .. n.                *)

\* A set of naturals has a least element: a smallest of the sets 0 .. n.
LEMMA LeastNat ==
  ASSUME NEW T \in SUBSET Nat, T # {}
  PROVE  \E m \in T : \A n \in T : m <= n
<1> DEFINE TT == {0 .. n : n \in T}
           R == StrictSubsetOrdering(Nat)
           F == FiniteSubsetsOf(Nat)
<1>1. TT \subseteq F
  <2> SUFFICES ASSUME NEW n \in T PROVE 0 .. n \in F
    OBVIOUS
  <2>1. n \in Int /\ 0 \in Int /\ 0 .. n \in SUBSET Nat
    OBVIOUS
  <2>2. IsFiniteSet(0 .. n)
    BY <2>1, FS_Interval
  <2> QED BY <2>1, <2>2 DEF FiniteSubsetsOf
<1>2. IsWellFoundedOn(R, F)
  BY FS_StrictSubsetOrderingWellFounded
<1>3. TT # {}
  OBVIOUS
<1>4. PICK x \in TT : \A y \in TT : ~ (<<y, x>> \in R)
  <2> HIDE DEF R, F, TT
  <2> QED BY <1>1, <1>2, <1>3, WFMin
<1>5. PICK m \in T : x = 0 .. m
  OBVIOUS
<1>6. ASSUME NEW n \in T, n < m PROVE FALSE
  <2>1. (0 .. n) \subseteq (0 .. m) /\ (0 .. m) \subseteq Nat /\ m \in 0 .. m /\ m \notin 0 .. n
    BY <1>6
  <2>2. <<0 .. n, x>> \in R
    BY <2>1, <1>5 DEF StrictSubsetOrdering
  <2> QED BY <2>2, <1>4
<1> QED BY <1>6

\* The arithmetic of one step of an induction on naturals.
LEMMA NatStep ==
  ASSUME NEW S, 0 \in S, \A n \in Nat : n \in S => n + 1 \in S
  PROVE  Nat \subseteq S
<1> SUFFICES ASSUME Nat \ S # {} PROVE FALSE
  OBVIOUS
<1>1. PICK m \in Nat \ S : \A n \in Nat \ S : m <= n
  BY LeastNat
<1>2. m - 1 \in Nat /\ m - 1 \in S
  BY <1>1
<1> QED BY <1>2, <1>1

\* 2 ^ n is a number and doubles from n to n + 1: it counts the subsets of 1 .. n.
LEMMA Doubles == \A n \in Nat : 2 ^ n \in Nat /\ 2 ^ (n + 1) = 2 * 2 ^ n
<1> SUFFICES ASSUME NEW n \in Nat PROVE 2 ^ n \in Nat /\ 2 ^ (n + 1) = 2 * 2 ^ n
  OBVIOUS
<1> DEFINE S == 1 .. n
           T == SUBSET S
           U == {t \cup {n + 1} : t \in T}
<1>1. IsFiniteSet(S) /\ Cardinality(S) = n
  BY FS_Interval
<1>2. IsFiniteSet(T) /\ Cardinality(T) = 2 ^ n /\ Cardinality(T) \in Nat
  BY <1>1, FS_SUBSET, FS_CardinalityType
<1>3. IsFiniteSet(1 .. n + 1) /\ Cardinality(1 .. n + 1) = n + 1
  BY FS_Interval
<1>4. Cardinality(SUBSET (1 .. n + 1)) = 2 ^ (n + 1)
  BY <1>3, FS_SUBSET
<1>5. n + 1 \notin S
  OBVIOUS
<1>6. SUBSET (1 .. n + 1) = T \cup U
  <2>1. 1 .. n + 1 = S \cup {n + 1}
    OBVIOUS
  <2> HIDE DEF S
  <2>2. ASSUME NEW t \in SUBSET (S \cup {n + 1}), n + 1 \in t PROVE t \in U
    <3>1. t \ {n + 1} \in T /\ t = (t \ {n + 1}) \cup {n + 1}
      BY <2>2
    <3> QED BY <3>1
  <2>3. ASSUME NEW t \in SUBSET (S \cup {n + 1}), n + 1 \notin t PROVE t \in T
    BY <2>3
  <2> QED BY <2>1, <2>2, <2>3
<1>7. T \cap U = {}
  <2> HIDE DEF S
  <2> QED BY <1>5
<1>8. ExistsBijection(T, U)
  <2> DEFINE f == [t \in T |-> t \cup {n + 1}]
  <2> HIDE DEF S
  <2>1. f \in [T -> U] /\ \A u \in U : \E t \in T : f[t] = u
    OBVIOUS
  <2>2. ASSUME NEW s \in T, NEW t \in T, f[s] = f[t] PROVE s = t
    <3>1. s \cup {n + 1} = t \cup {n + 1}
      BY <2>2
    <3> QED BY <3>1, <1>5
  <2>3. f \in Bijection(T, U)
    <3> HIDE DEF f, T, U
    <3>1. f \in Injection(T, U)
      BY <2>1, <2>2 DEF Injection, IsInjective
    <3>2. f \in Surjection(T, U)
      BY <2>1 DEF Surjection
    <3> QED BY <3>1, <3>2 DEF Bijection
  <2> QED BY <2>3 DEF ExistsBijection
<1>9. IsFiniteSet(U) /\ Cardinality(U) = Cardinality(T)
  BY <1>2, <1>8, FS_Bijection
<1>10. Cardinality(T \cup U) = Cardinality(T) + Cardinality(U)
  <2>1. Cardinality({}) = 0
    BY FS_EmptySet
  <2>2. Cardinality(T \cup U) = Cardinality(T) + Cardinality(U) - Cardinality(T \cap U)
    BY <1>2, <1>9, FS_Union
  <2> HIDE DEF T, U
  <2>3. Cardinality(T \cap U) = 0
    BY <2>1, <1>7
  <2>4. Cardinality(T) \in Nat /\ Cardinality(U) \in Nat
    BY <1>2, <1>9
  <2> QED BY <2>2, <2>3, <2>4
<1> HIDE DEF T, U
<1>11. 2 ^ (n + 1) = 2 ^ n + 2 ^ n
  BY <1>2, <1>4, <1>6, <1>9, <1>10
<1>12. 2 ^ n \in Nat
  BY <1>2
<1> QED BY <1>11, <1>12

\* It is never 0,
LEMMA Positive == \A n \in Nat : 2 ^ n \in Nat \ {0}
<1> DEFINE S == {n \in Nat : 2 ^ n \in Nat \ {0}}
<1>1. 0 \in S
  <2>1. 2 ^ 0 = 1
    OBVIOUS
  <2> QED BY <2>1
<1>2. ASSUME NEW n \in Nat, n \in S PROVE n + 1 \in S
  BY <1>2, Doubles
<1> HIDE DEF S
<1>3. Nat \subseteq S
  BY <1>1, <1>2, NatStep
<1> QED BY <1>3 DEF S

\* and a lower power divides a higher one.
LEMMA Divides == \A a, b \in Nat : \E k \in Nat \ {0} : 2 ^ (a + b) = k * 2 ^ a
<1> SUFFICES ASSUME NEW a \in Nat
             PROVE  \A b \in Nat : \E k \in Nat \ {0} : 2 ^ (a + b) = k * 2 ^ a
  OBVIOUS
<1> DEFINE S == {b \in Nat : \E k \in Nat \ {0} : 2 ^ (a + b) = k * 2 ^ a}
<1>0. 2 ^ a \in Nat
  BY Positive
<1>1. 0 \in S
  <2>1. a + 0 = a /\ 1 * 2 ^ a = 2 ^ a
    BY <1>0
  <2> QED BY <2>1
<1>2. ASSUME NEW b \in Nat, b \in S PROVE b + 1 \in S
  <2>1. PICK k \in Nat \ {0} : 2 ^ (a + b) = k * 2 ^ a
    BY <1>2
  <2>2. a + b \in Nat /\ a + (b + 1) = (a + b) + 1
    OBVIOUS
  <2>3. 2 ^ (a + (b + 1)) = 2 * (k * 2 ^ a)
    BY <2>1, <2>2, Doubles
  <2>4. 2 * (k * 2 ^ a) = (2 * k) * 2 ^ a /\ 2 * k \in Nat \ {0}
    BY <1>0
  <2>5. \E c \in Nat \ {0} : 2 ^ (a + (b + 1)) = c * 2 ^ a
    <3> DEFINE c == 2 * k
    <3> HIDE DEF c
    <3>1. c \in Nat \ {0} /\ 2 ^ (a + (b + 1)) = c * 2 ^ a
      BY <2>3, <2>4 DEF c
    <3> QED BY <3>1
  <2> QED BY <2>5
<1> HIDE DEF S
<1>3. Nat \subseteq S
  BY <1>1, <1>2, NatStep
<1> QED BY <1>3 DEF S

-----------------------------------------------------------------------------
(* What the calls report is what was counted.                              *)

\* Division and remainder take a packed word apart.
LEMMA RemainderOfPacked ==
  ASSUME NEW a \in Nat, NEW b \in Nat, NEW m \in Nat \ {0}, NEW k \in Nat \ {0}, a < m
  PROVE  /\ (a + b * (k * m)) % m = a
         /\ (a + b * (k * m)) \div (k * m) = b
<1>1. \A x, y, z \in Nat : z > 0 /\ x < z => (x + y * z) % z = x /\ (x + y * z) \div z = y
  OBVIOUS
<1>2. b * (k * m) = (b * k) * m /\ b * k \in Nat
  OBVIOUS
<1>3. k * m \in Nat /\ m <= k * m
  <2>1. k - 1 \in Nat /\ (k - 1) * m \in Nat /\ k * m = (k - 1) * m + m
    OBVIOUS
  <2> QED BY <2>1
<1>4. (a + (b * k) * m) % m = a
  BY <1>1, <1>2
<1>5. (a + b * (k * m)) \div (k * m) = b
  <2> DEFINE c == k * m
  <2>1. c \in Nat /\ a < c /\ c > 0
    BY <1>3
  <2> HIDE DEF c
  <2>2. (a + b * c) \div c = b
    BY <1>1, <2>1
  <2> QED BY <2>2 DEF c
<1> QED BY <1>2, <1>4, <1>5

\* The receiver of a packed word reads the fields that the sender put into it.
LEMMA DecodedFits ==
  ASSUME NEW instBits \in Nat, NEW heapBits \in Nat, NEW c \in Nat \X Nat,
         c[1] < 2 ^ instBits, c[2] < 2 ^ heapBits
  PROVE  Decoded(c, instBits, heapBits) = c
<1>1. PICK k \in Nat \ {0} : 2 ^ (instBits + 3 * heapBits) = k * 2 ^ instBits
  <2>1. 3 * heapBits \in Nat
    OBVIOUS
  <2> QED BY <2>1, Divides
<1> DEFINE m == 2 ^ instBits
           h == 2 ^ heapBits
           packed == c[1] + c[2] * 2 ^ (instBits + 3 * heapBits)
<1>2. m \in Nat \ {0} /\ h \in Nat \ {0}
  BY Positive
<1>3. c[1] \in Nat /\ c[2] \in Nat /\ c = <<c[1], c[2]>>
  OBVIOUS
<1>4. packed = c[1] + c[2] * (k * m) /\ 2 ^ (instBits + 3 * heapBits) = k * m
  BY <1>1
<1>5. c[1] < m /\ c[2] < h
  OBVIOUS
<1> HIDE DEF m, h
<1>6. packed % m = c[1] /\ packed \div (k * m) = c[2]
  <2>1. /\ (c[1] + c[2] * (k * m)) % m = c[1]
        /\ (c[1] + c[2] * (k * m)) \div (k * m) = c[2]
    <3> HIDE DEF packed
    <3> DEFINE a == c[1]
               b == c[2]
    <3>1. a \in Nat /\ b \in Nat /\ a < m
      BY <1>3, <1>5
    <3> HIDE DEF a, b
    <3>2. (a + b * (k * m)) % m = a /\ (a + b * (k * m)) \div (k * m) = b
      BY <1>2, <3>1, RemainderOfPacked
    <3> QED BY <3>2 DEF a, b
  <2> HIDE DEF packed
  <2> QED BY <2>1, <1>4
<1>7. c[2] % h = c[2]
  BY <1>2, <1>3, <1>5
<1>8. Decoded(c, instBits, heapBits) = <<packed % m, (packed \div (k * m)) % h>>
  BY <1>4 DEF Decoded, m, h
<1> QED BY <1>3, <1>6, <1>7, <1>8

\* The bounds of the narrow and of the wide fields.
LEMMA BitsFacts ==
  /\ INST_BITS_SMALL \in Nat /\ HEAP_BITS_SMALL \in Nat
  /\ 2 * INST_BITS_SMALL \in Nat /\ 2 * HEAP_BITS_SMALL \in Nat
  /\ 2 ^ (2 * INST_BITS_SMALL) \in Nat /\ 2 ^ (2 * INST_BITS_SMALL) >= 2
  /\ 2 ^ (2 * HEAP_BITS_SMALL) \in Nat /\ 2 ^ (2 * HEAP_BITS_SMALL) >= 2
  /\ 2 ^ INST_BITS_SMALL \in Nat \ {0} /\ 2 ^ HEAP_BITS_SMALL \in Nat \ {0}
<1>1. \A n \in Nat \ {0} : 2 ^ n \in Nat /\ 2 ^ n >= 2
  <2> SUFFICES ASSUME NEW n \in Nat \ {0} PROVE 2 ^ n \in Nat /\ 2 ^ n >= 2
    OBVIOUS
  <2>1. n - 1 \in Nat /\ (n - 1) + 1 = n
    OBVIOUS
  <2>2. 2 ^ (n - 1) \in Nat \ {0} /\ 2 ^ ((n - 1) + 1) = 2 * 2 ^ (n - 1)
    BY <2>1, Positive, Doubles
  <2> QED BY <2>1, <2>2
<1>2. INST_BITS_SMALL \in Nat \ {0} /\ HEAP_BITS_SMALL \in Nat \ {0}
  BY RewriterAssumption
<1>3. 2 * INST_BITS_SMALL \in Nat \ {0} /\ 2 * HEAP_BITS_SMALL \in Nat \ {0}
  BY <1>2
<1> QED BY <1>1, <1>2, <1>3, Positive

\* The part of a count that one call of longCounts takes, and what it leaves.
Part(d) == <<bounded(d[1], 2 ^ (2 * INST_BITS_SMALL)), bounded(d[2], 2 ^ (2 * HEAP_BITS_SMALL))>>
\* the counts that do not fit the narrow fields
Large(d) == d[1] >= 2 ^ INST_BITS_SMALL \/ d[2] >= 2 ^ HEAP_BITS_SMALL

\* What one call reports of large counts is more than nothing, and no more than them.
LEMMA PartFacts ==
  ASSUME NEW d \in Nat \X Nat
  PROVE  /\ Part(d) \in Nat \X Nat
         /\ Decoded(Part(d), 2 * INST_BITS_SMALL, 2 * HEAP_BITS_SMALL) = Part(d)
         /\ Minus(d, Part(d)) \in Nat \X Nat
         /\ Plus(Part(d), Minus(d, Part(d))) = d
         /\ Large(d) => Minus(d, Part(d))[1] + Minus(d, Part(d))[2] < d[1] + d[2]
         /\ ~Large(d) => Decoded(d, INST_BITS_SMALL, HEAP_BITS_SMALL) = d
<1> DEFINE p == Part(d)
           I == 2 ^ (2 * INST_BITS_SMALL)
           H == 2 ^ (2 * HEAP_BITS_SMALL)
<1>1. d[1] \in Nat /\ d[2] \in Nat /\ d = <<d[1], d[2]>>
  OBVIOUS
<1>2. I \in Nat /\ H \in Nat /\ I >= 2 /\ H >= 2
  BY BitsFacts
<1>3. p = <<IF d[1] < I THEN d[1] ELSE I - 1, IF d[2] < H THEN d[2] ELSE H - 1>>
  BY DEF Part, bounded
<1> HIDE DEF p, I, H
<1>4. /\ p \in Nat \X Nat /\ p[1] < I /\ p[2] < H /\ p[1] <= d[1] /\ p[2] <= d[2]
      /\ d[1] > 0 => p[1] > 0
      /\ d[2] > 0 => p[2] > 0
  BY <1>1, <1>2, <1>3
<1>5. Decoded(p, 2 * INST_BITS_SMALL, 2 * HEAP_BITS_SMALL) = p
  BY <1>4, BitsFacts, DecodedFits DEF I, H
<1>6. Minus(d, p) = <<d[1] - p[1], d[2] - p[2]>>
  BY DEF Minus
<1>7. Minus(d, p) \in Nat \X Nat /\ Plus(p, Minus(d, p)) = d
  BY <1>1, <1>4, <1>6 DEF Plus
<1>8. Large(d) => d[1] > 0 \/ d[2] > 0
  BY <1>1, BitsFacts DEF Large
<1>9. Large(d) => Minus(d, p)[1] + Minus(d, p)[2] < d[1] + d[2]
  <2> SUFFICES ASSUME Large(d) PROVE (d[1] - p[1]) + (d[2] - p[2]) < d[1] + d[2]
    BY <1>6
  <2>1. p[1] \in Nat /\ p[2] \in Nat /\ (p[1] > 0 \/ p[2] > 0)
    BY <1>1, <1>4, <1>8
  <2> QED BY <1>1, <1>4, <2>1
<1>10. ~Large(d) => Decoded(d, INST_BITS_SMALL, HEAP_BITS_SMALL) = d
  <2> SUFFICES ASSUME ~Large(d) PROVE Decoded(d, INST_BITS_SMALL, HEAP_BITS_SMALL) = d
    OBVIOUS
  <2>1. d[1] < 2 ^ INST_BITS_SMALL /\ d[2] < 2 ^ HEAP_BITS_SMALL
    BY <1>1, BitsFacts DEF Large
  <2> QED BY <2>1, BitsFacts, DecodedFits
<1> QED BY <1>4, <1>5, <1>7, <1>9, <1>10 DEF p

\* The calls that outputCounts emits report all of c, for all widths of the fields.
LEMMA AllReported == \A c \in Nat \X Nat : outputCounts(c) = c
<1> DEFINE D == Nat \X Nat
           Value(g, d) == IF Large(d)
                          THEN Plus(Decoded(Part(d), 2 * INST_BITS_SMALL, 2 * HEAP_BITS_SMALL),
                                    g[Minus(d, Part(d))])
                          ELSE Decoded(d, INST_BITS_SMALL, HEAP_BITS_SMALL)
           Eq(g) == g = [d \in D |-> Value(g, d)]
           emitted == CHOOSE g : Eq(g)
           same == [d \in D |-> d]
<1>1. \A c : outputCounts(c) = emitted[c]
  BY DEF outputCounts, Large, Part
<1>2. Eq(same)
  <2>1. ASSUME NEW d \in D PROVE Value(same, d) = d
    <3>1. same[Minus(d, Part(d))] = Minus(d, Part(d))
      BY PartFacts
    <3> HIDE DEF same
    <3> QED BY <3>1, PartFacts
  <2> HIDE DEF Value
  <2> QED BY <2>1
<1>3. Eq(emitted)
  <2> HIDE DEF Eq
  <2> QED BY <1>2
<1>4. \A d \in D : emitted[d] = Value(emitted, d)
  <2> HIDE DEF Value, emitted
  <2> QED BY <1>3
<1> DEFINE Bad == {n \in Nat : \E d \in D : d[1] + d[2] = n /\ emitted[d] # d}
<1>5. Bad = {}
  <2> SUFFICES ASSUME Bad # {} PROVE FALSE
    OBVIOUS
  <2>1. PICK n \in Bad : \A m \in Bad : n <= m
    <3>1. Bad \in SUBSET Nat
      OBVIOUS
    <3> HIDE DEF Bad
    <3> QED BY <3>1, LeastNat
  <2>2. PICK d \in D : d[1] + d[2] = n /\ emitted[d] # d
    BY <2>1
  <2> DEFINE r == Minus(d, Part(d))
  <2> HIDE DEF emitted
  <2>3. CASE Large(d)
    <3>1. r \in D /\ r[1] + r[2] \in Nat /\ r[1] + r[2] < n
      BY <2>2, <2>3, PartFacts
    <3>2. emitted[r] = r
      <4>1. r[1] + r[2] \notin Bad
        <5> HIDE DEF Bad, r
        <5>1. n \in Nat
          BY <2>2
        <5> QED BY <3>1, <2>1, <5>1
      <4> HIDE DEF r
      <4> QED BY <3>1, <4>1
    <3>3. emitted[d] = Plus(Part(d), r)
      BY <1>4, <2>3, <3>2, PartFacts
    <3> QED BY <3>3, <2>2, PartFacts
  <2>4. CASE ~Large(d)
    BY <1>4, <2>2, <2>4, PartFacts
  <2> QED BY <2>3, <2>4
<1>6. \A d \in D : emitted[d] = d
  <2> HIDE DEF emitted
  <2> SUFFICES ASSUME NEW d \in D, emitted[d] # d PROVE FALSE
    OBVIOUS
  <2>1. d[1] + d[2] \in Nat
    OBVIOUS
  <2>2. d[1] + d[2] \in Bad
    BY <2>1
  <2> HIDE DEF Bad
  <2> QED BY <2>2, <1>5
<1> HIDE DEF emitted
<1> QED BY <1>1, <1>6

-----------------------------------------------------------------------------
(* The two operand stacks.                                                 *)

\* what a place of the JVM's holds
Values == Objects \cup {Null, Prim}

\* what stands in the same place of an adapter's stack and a JVM's, from the top
PairsOf(s, j) == {<<top(s, i), j[Len(j) - i]>> : i \in 0 .. Len(j) - 1}
\* what is pushed on both stacks
Zip(vns, vals) == {<<vns[k], vals[k]>> : k \in 1 .. Len(vals)}

\* StackPairs is PairsOf of the two stacks.
LEMMA StackPairsOf == StackPairs = PairsOf(stack, jstack)
  BY DEF StackPairs, PairsOf, Val

\* pop leaves the lower places as they are.
LEMMA PopFacts ==
  ASSUME NEW S, NEW s \in Seq(S), NEW n \in Nat
  PROVE  /\ pop(s, n) \in Seq(S)
         /\ Len(pop(s, n)) = IF Len(s) >= n THEN Len(s) - n ELSE 0
         /\ \A i \in 1 .. Len(pop(s, n)) : pop(s, n)[i] = s[i]
<1> DEFINE m == IF Len(s) >= n THEN Len(s) - n ELSE 0
<1>1. Len(s) \in Nat /\ m \in Nat /\ m <= Len(s)
  OBVIOUS
<1>2. \A i \in 1 .. m : s[i] \in S
  BY <1>1
<1>3. pop(s, n) = SubSeq(s, 1, m)
  BY DEF pop
<1> HIDE DEF m
<1>4. /\ SubSeq(s, 1, m) \in Seq(S)
      /\ Len(SubSeq(s, 1, m)) = IF 1 <= m THEN m - 1 + 1 ELSE 0
      /\ \A i \in 1 .. m - 1 + 1 : SubSeq(s, 1, m)[i] = s[1 + i - 1]
  BY <1>1, <1>2, SubSeqProperties
<1>5. Len(SubSeq(s, 1, m)) = m /\ \A i \in 1 .. m : SubSeq(s, 1, m)[i] = s[i]
  BY <1>1, <1>4
<1> QED BY <1>3, <1>4, <1>5 DEF m

\* x and y in one sequence
JoinedAs(x, y, S) ==
  /\ x \o y \in Seq(S) /\ Len(x \o y) = Len(x) + Len(y)
  /\ \A i \in 1 .. Len(x) + Len(y) : (x \o y)[i] = IF i <= Len(x) THEN x[i] ELSE y[i - Len(x)]

\* Numbers are joined to numbers,
LEMMA JoinedInt == \A x, y \in Seq(Int) : JoinedAs(x, y, Int)
  BY ConcatProperties DEF JoinedAs

\* and values to values.
LEMMA JoinedValues == \A x, y \in Seq(Values) : JoinedAs(x, y, Values)
<1> DEFINE V == Values
<1> HIDE DEF V
<1>1. \A x, y \in Seq(V) : JoinedAs(x, y, V)
  BY ConcatProperties DEF JoinedAs
<1> QED BY <1>1 DEF V

\* pushZero adds zeros.
LEMMA PushZeroFacts ==
  ASSUME NEW s \in Seq(Int), NEW n \in Nat
  PROVE  /\ pushZero(s, n) \in Seq(Int)
         /\ Len(pushZero(s, n)) = Len(s) + n
         /\ \A i \in 1 .. Len(s) : pushZero(s, n)[i] = s[i]
         /\ \A i \in Len(s) + 1 .. Len(s) + n : pushZero(s, n)[i] = 0
<1> DEFINE z == [i \in 1 .. n |-> 0]
<1>1. z \in Seq(Int) /\ Len(z) = n /\ \A i \in 1 .. n : z[i] = 0
  OBVIOUS
<1>2. pushZero(s, n) = s \o z
  BY DEF pushZero
<1> HIDE DEF z
<1>3. /\ s \o z \in Seq(Int) /\ Len(s \o z) = Len(s) + Len(z)
      /\ \A i \in 1 .. Len(s) + Len(z) : (s \o z)[i] = IF i <= Len(s) THEN s[i] ELSE z[i - Len(s)]
  BY <1>1, JoinedInt DEF JoinedAs
<1>4. Len(s) \in Nat
  OBVIOUS
<1>5. ASSUME NEW i \in Len(s) + 1 .. Len(s) + n PROVE (s \o z)[i] = 0
  <2>1. i \in 1 .. Len(s) + Len(z) /\ ~(i <= Len(s)) /\ i - Len(s) \in 1 .. n
    BY <1>1, <1>4
  <2> QED BY <1>1, <1>3, <2>1
<1>6. \A i \in 1 .. Len(s) : (s \o z)[i] = s[i]
  BY <1>1, <1>3, <1>4
<1> QED BY <1>1, <1>2, <1>3, <1>5, <1>6

\* n places are taken off both stacks and as many numbers as values are pushed.
LEMMA Shifted ==
  ASSUME NEW s \in Seq(Int), NEW j \in Seq(Values), NEW n \in Nat,
         NEW vns \in Seq(Int), NEW vals \in Seq(Values), Len(vns) = Len(vals),
         n <= Len(j), Len(j) <= Len(s)
  PROVE  LET s2 == pop(s, n) \o vns
             j2 == SubSeq(j, 1, Len(j) - n) \o vals
         IN  /\ Len(j2) <= Len(s2)
             /\ PairsOf(s2, j2) \subseteq PairsOf(s, j) \cup Zip(vns, vals)
<1> DEFINE a == pop(s, n)
           b == SubSeq(j, 1, Len(j) - n)
           s2 == a \o vns
           j2 == b \o vals
<1>0. b = pop(j, n)
  BY DEF pop
<1>1. /\ a \in Seq(Int) /\ Len(a) = Len(s) - n /\ \A i \in 1 .. Len(a) : a[i] = s[i]
      /\ b \in Seq(Values) /\ Len(b) = Len(j) - n /\ \A i \in 1 .. Len(b) : b[i] = j[i]
  <2>1. Len(s) \in Nat /\ Len(j) \in Nat /\ Len(s) >= n
    OBVIOUS
  <2>2. a \in Seq(Int) /\ Len(a) = Len(s) - n /\ \A i \in 1 .. Len(a) : a[i] = s[i]
    BY <2>1, PopFacts
  <2>3. /\ pop(j, n) \in Seq(Values) /\ Len(pop(j, n)) = Len(j) - n
        /\ \A i \in 1 .. Len(pop(j, n)) : pop(j, n)[i] = j[i]
    BY <2>1, PopFacts
  <2> HIDE DEF a, b
  <2> QED BY <2>2, <2>3, <1>0
<1> HIDE DEF a, b
<1>2. /\ Len(s2) = Len(a) + Len(vns) /\ Len(j2) = Len(b) + Len(vals)
      /\ \A i \in 1 .. Len(a) + Len(vns) : s2[i] = IF i <= Len(a) THEN a[i] ELSE vns[i - Len(a)]
      /\ \A i \in 1 .. Len(b) + Len(vals) : j2[i] = IF i <= Len(b) THEN b[i] ELSE vals[i - Len(b)]
  <2>0. a \in Seq(Int) /\ b \in Seq(Values)
    BY <1>1
  <2>1. JoinedAs(a, vns, Int)
    BY <2>0, JoinedInt
  <2>2. JoinedAs(b, vals, Values)
    BY <2>0, JoinedValues
  <2> QED BY <2>1, <2>2 DEF JoinedAs
<1>3. /\ Len(s) \in Nat /\ Len(j) \in Nat /\ Len(vals) \in Nat
  OBVIOUS
<1>7. /\ Len(a) \in Nat /\ Len(b) \in Nat /\ Len(vns) = Len(vals) /\ Len(b) <= Len(a)
      /\ Len(a) = Len(s) - n /\ Len(b) = Len(j) - n
      /\ Len(s2) = Len(a) + Len(vals) /\ Len(j2) = Len(b) + Len(vals)
  BY <1>1, <1>2, <1>3
<1>4. Len(j2) <= Len(s2)
  BY <1>3, <1>7
<1>5. ASSUME NEW i \in 0 .. Len(j2) - 1
      PROVE  <<top(s2, i), j2[Len(j2) - i]>> \in PairsOf(s, j) \cup Zip(vns, vals)
  <2> HIDE DEF s2, j2
  <2>1. top(s2, i) = s2[Len(s2) - i]
    BY <1>1, <1>2, <1>3 DEF top
  <2>2. CASE i < Len(vals)
    <3> DEFINE k == Len(vals) - i
    <3>1. k \in 1 .. Len(vals)
      BY <2>2, <1>3
    <3>2. /\ Len(s2) - i \in 1 .. Len(a) + Len(vns) /\ ~(Len(s2) - i <= Len(a))
          /\ Len(s2) - i - Len(a) = k
      BY <2>2, <1>3, <1>7
    <3>3. /\ Len(j2) - i \in 1 .. Len(b) + Len(vals) /\ ~(Len(j2) - i <= Len(b))
          /\ Len(j2) - i - Len(b) = k
      BY <2>2, <1>3, <1>7
    <3>4. s2[Len(s2) - i] = vns[k] /\ j2[Len(j2) - i] = vals[k]
      BY <1>2, <3>2, <3>3
    <3> QED BY <2>1, <3>1, <3>4 DEF Zip
  <2>3. CASE i >= Len(vals)
    <3> DEFINE k == i - Len(vals) + n
    <3>1. k \in 0 .. Len(j) - 1 /\ k < Len(s)
      BY <2>3, <1>3, <1>7
    <3>4. /\ Len(s2) - i \in 1 .. Len(a) + Len(vns) /\ Len(s2) - i <= Len(a)
          /\ Len(s2) - i = Len(s) - k /\ Len(s) - k \in 1 .. Len(a)
      BY <2>3, <1>3, <1>7
    <3>5. /\ Len(j2) - i \in 1 .. Len(b) + Len(vals) /\ Len(j2) - i <= Len(b)
          /\ Len(j2) - i = Len(j) - k /\ Len(j) - k \in 1 .. Len(b)
      BY <2>3, <1>3, <1>7
    <3>2. s2[Len(s2) - i] = s[Len(s) - k] /\ j2[Len(j2) - i] = j[Len(j) - k]
      <4>1. Len(s2) - i \in 1 .. Len(a) /\ Len(j2) - i \in 1 .. Len(b)
        BY <3>4, <3>5
      <4> QED BY <1>1, <1>2, <3>4, <3>5, <4>1
    <3>3. top(s, k) = s[Len(s) - k]
      BY <3>1 DEF top
    <3> QED BY <2>1, <3>1, <3>2, <3>3 DEF PairsOf
  <2> QED BY <2>2, <2>3, <1>1, <1>2, <1>3
<1>6. PairsOf(s2, j2) \subseteq PairsOf(s, j) \cup Zip(vns, vals)
  BY <1>5 DEF PairsOf
<1> QED BY <1>4, <1>6 DEF a, b

-----------------------------------------------------------------------------
(* The inductive invariant.                                                *)

\* A stack of the JVM is no higher than the adapter's, and a local variable that the
\* adapter has is one of the JVM's.
Aligned == Len(jstack) <= Len(stack) /\ Len(locals) <= Len(jlocals)

\* a primitive value on the stack is not followed
PrimsPlain == \A p \in StackPairs : p[2] = Prim => p[1] = 0

\* a number lies between the two counters, and is negative just for a raw object
NumbersKnown ==
  \A p \in Pairs : /\ uninitCounter <= p[1] /\ p[1] <= vnCounter
                   /\ p[1] < 0 <=> p[2] \in raw

\* A number stands for one value, once a jump came in without a frame a negative one only,
\* and a raw object has one number: both are needed to renumber the object in all its
\* places when its constructor was called.
OneValue ==
  \A p, q \in Pairs : p[1] = q[1] /\ p[1] # 0 /\ (known = "values" \/ p[1] < 0) => p[2] = q[2]
OneNumber == \A p, q \in Pairs : p[2] = q[2] /\ p[2] \in raw => p[1] = q[1]

\* what the numbers are where the code goes on
Numbered == Aligned /\ PrimsPlain /\ NumbersKnown /\ OneValue /\ OneNumber

\* the last three, of any pairs, raw objects, counters and knowledge
Right(P, R, lo, hi, k) ==
  /\ \A p \in P : lo <= p[1] /\ p[1] <= hi /\ (p[1] < 0 <=> p[2] \in R)
  /\ \A p, q \in P : p[1] = q[1] /\ p[1] # 0 /\ (k = "values" \/ p[1] < 0) => p[2] = q[2]
  /\ \A p, q \in P : p[2] = q[2] /\ p[2] \in R => p[1] = q[1]

\* what lasts in the local variables where the code does not go on
LocalsNumbered ==
  /\ Len(locals) <= Len(jlocals)
  /\ Right(LocalPairs, raw, uninitCounter, vnCounter, known)

\* What is stamped has a number that was drawn, and is covered unless it is excused.
StampsRight ==
  /\ \A vn \in stamped : vn <= vnCounter
  /\ \A p \in Pairs : p[1] \in stamped /\ p[2] \in Constructed => p[2] \in covered \cup excused

\* what is counted and not flushed is what was executed and not reported
Counted ==
  /\ counts \in Nat \X Nat
  /\ owed = IF falls THEN counts ELSE <<0, 0>>

\* A jump that comes in without a frame takes away what is known of the stamps, one that
\* brings operands out of line or an exception all of it.
IInv ==
  /\ TypeOK /\ uninitCounter <= 0 /\ Counted
  /\ known # "nothing" => LocalsNumbered /\ (falls => Numbered)
  /\ known = "values" => missed = {} /\ (falls => StampsRight)

\* The numbers of all places are those of the local variables too.
LEMMA LocalsToo ==
  /\ Numbered => LocalsNumbered
  /\ Numbered' => LocalsNumbered'
  BY DEF Numbered, Aligned, NumbersKnown, OneValue, OneNumber, LocalsNumbered, Right, Pairs

-----------------------------------------------------------------------------
(* What an instruction adds to the pairs of numbers and values.            *)

\* What TypeOK says of one place.
LEMMA Typed ==
  ASSUME TypeOK
  PROVE  /\ Len(stack) \in Nat /\ Len(jstack) \in Nat /\ Len(locals) \in Nat /\ Len(jlocals) \in Nat
         /\ \A i \in 1 .. Len(stack) : stack[i] \in Int
         /\ \A i \in 1 .. Len(jstack) : jstack[i] \in Values
         /\ \A i \in 1 .. Len(locals) : locals[i] \in Int
         /\ \A i \in 1 .. Len(jlocals) : jlocals[i] \in Values
         /\ \A i \in Nat : top(stack, i) \in Int /\ get(locals, i) \in Int
  BY DEF TypeOK, Values, top, get

\* What it says of one pair.
LEMMA PairTypes == TypeOK => \A p \in Pairs : p[1] \in Int /\ p[2] \in Live /\ p[2] \in Values
<1> SUFFICES ASSUME TypeOK, NEW p \in Pairs PROVE p[1] \in Int /\ p[2] \in Live /\ p[2] \in Values
  OBVIOUS
<1>1. CASE p \in StackPairs
  <2>1. PICK i \in 0 .. Len(jstack) - 1 : p = <<top(stack, i), Val(i)>>
    BY <1>1 DEF StackPairs
  <2>2. i \in Nat /\ Len(jstack) - i \in 1 .. Len(jstack) /\ DOMAIN jstack = 1 .. Len(jstack)
    BY Typed DEF TypeOK
  <2> QED BY <2>1, <2>2, Typed DEF Val, Live
<1>2. CASE p \in LocalPairs
  <2>1. PICK i \in DOMAIN jlocals : p = <<get(locals, i - 1), jlocals[i]>>
    BY <1>2 DEF LocalPairs
  <2>2. DOMAIN jlocals = 1 .. Len(jlocals)
    BY DEF TypeOK
  <2>3. i \in 1 .. Len(jlocals) /\ i - 1 \in Nat
    <3>1. Len(jlocals) \in Nat
      BY Typed
    <3> QED BY <2>2, <3>1
  <2> QED BY <2>1, <2>2, <2>3, Typed DEF Live
<1> QED BY <1>1, <1>2 DEF Pairs

\* A place on the stack.
LEMMA Place ==
  ASSUME TypeOK, NEW i \in 0 .. Len(jstack) - 1
  PROVE  /\ <<top(stack, i), Val(i)>> \in StackPairs /\ <<top(stack, i), Val(i)>> \in Pairs
         /\ top(stack, i) \in Int /\ Val(i) \in Values /\ Val(i) \in Live
<1>1. <<top(stack, i), Val(i)>> \in StackPairs
  BY DEF StackPairs
<1>2. <<top(stack, i), Val(i)>> \in Pairs
  BY <1>1 DEF Pairs
<1> DEFINE p == <<top(stack, i), Val(i)>>
<1>3. p[1] = top(stack, i) /\ p[2] = Val(i)
  OBVIOUS
<1> HIDE DEF p
<1> QED BY <1>1, <1>2, <1>3, PairTypes DEF p

\* The types of the stacks after an instruction that pops n places and pushes vals.
LEMMA PushTypes ==
  ASSUME TypeOK, NEW n \in Nat, NEW vns \in Seq(Int), NEW vals \in Seq(Values),
         Pushes(n, vns, vals)
  PROVE  stack' \in Seq(Int) /\ jstack' \in Seq(Values) /\ falls /\ n <= Len(jstack)
<1>1. stack \in Seq(Int) /\ jstack \in Seq(Values)
  BY DEF TypeOK, Values
<1>2. pop(stack, n) \in Seq(Int)
  BY <1>1, PopFacts
<1>3. Below(n) = pop(jstack, n) /\ n <= Len(jstack)
  BY Typed DEF Below, pop, Pushes, Has
<1>4. pop(jstack, n) \in Seq(Values)
  BY <1>1, PopFacts
<1>5. stack' = pop(stack, n) \o vns /\ jstack' = pop(jstack, n) \o vals /\ falls
  BY <1>3 DEF Pushes
<1>6. stack' \in Seq(Int)
  BY <1>2, <1>5, JoinedInt DEF JoinedAs
<1>7. jstack' \in Seq(Values)
  BY <1>4, <1>5, JoinedValues DEF JoinedAs
<1> QED BY <1>3, <1>5, <1>6, <1>7

\* Such an instruction adds at most the pairs it pushes.
LEMMA PushPairs ==
  ASSUME TypeOK, Aligned, NEW n \in Nat, NEW vns \in Seq(Int), NEW vals \in Seq(Values),
         Len(vns) = Len(vals), Pushes(n, vns, vals)
  PROVE  Len(jstack') <= Len(stack') /\ StackPairs' \subseteq StackPairs \cup Zip(vns, vals)
<1>1. stack \in Seq(Int) /\ jstack \in Seq(Values) /\ n <= Len(jstack) /\ Len(jstack) <= Len(stack)
  BY PushTypes DEF TypeOK, Values, Aligned
<1>2. stack' = pop(stack, n) \o vns /\ jstack' = SubSeq(jstack, 1, Len(jstack) - n) \o vals
  BY DEF Pushes, Below
<1>3. StackPairs' = PairsOf(stack', jstack')
  BY DEF StackPairs, PairsOf, Val
<1>4. Len(jstack') <= Len(stack') /\ PairsOf(stack', jstack') \subseteq PairsOf(stack, jstack) \cup Zip(vns, vals)
  BY <1>1, <1>2, Shifted
<1> QED BY <1>3, <1>4, StackPairsOf

\* The pairs of the local variables stay as they are.
LEMMA LocalsKept == NoLocals => LocalPairs' = LocalPairs
  BY DEF NoLocals, LocalPairs

\* What new pairs may be: values that are not followed, and at most one new number.
NewPairs(N) ==
  /\ \A p \in N : \/ p[1] = 0 /\ p[2] \notin raw'
                  \/ /\ p[1] = vnCounter + 1 /\ vnCounter' = vnCounter + 1
                     /\ p[2] # Prim /\ p[2] \notin raw'
                  \/ /\ p[1] = uninitCounter - 1 /\ uninitCounter' = uninitCounter - 1
                     /\ p[2] \in raw' /\ p[2] \notin Live
  /\ \A p, q \in N : p[1] # 0 /\ q[1] # 0 => p = q

\* nothing that was there before is constructed, or taken for not constructed
SameRaw == \A p \in Pairs : p[2] \in raw <=> p[2] \in raw'

\* Primitive slots stay without a number,
LEMMA PlainKept ==
  ASSUME Numbered, raw' \subseteq Objects, NEW N, NewPairs(N), StackPairs' \subseteq StackPairs \cup N
  PROVE  PrimsPlain'
<1> SUFFICES ASSUME NEW p \in StackPairs', p[2] = Prim PROVE p[1] = 0
  BY DEF PrimsPlain
<1>1. CASE p \in StackPairs
  BY <1>1 DEF Numbered, PrimsPlain
<1>2. CASE p \in N
  BY <1>2, RewriterAssumption DEF NewPairs
<1> QED BY <1>1, <1>2

\* and new pairs leave the numbers right.
LEMMA KeepNumbered ==
  ASSUME TypeOK, Numbered, uninitCounter <= 0, raw' \subseteq Objects, known' = known,
         NEW N, NewPairs(N), SameRaw, Aligned',
         Pairs' \subseteq Pairs \cup N, PrimsPlain',
         vnCounter' \in {vnCounter, vnCounter + 1},
         uninitCounter' \in {uninitCounter, uninitCounter - 1}
  PROVE  Numbered'
<1>0. vnCounter \in Nat /\ uninitCounter \in Int /\ Prim \notin Objects
  BY RewriterAssumption DEF TypeOK
<1>2. ASSUME NEW p \in Pairs
      PROVE  /\ p[1] \in Int /\ uninitCounter <= p[1] /\ p[1] <= vnCounter
             /\ p[1] < 0 <=> p[2] \in raw'
             /\ p[2] \in Live
  BY PairTypes DEF Numbered, NumbersKnown, SameRaw
<1>3. NumbersKnown'
  <2> SUFFICES ASSUME NEW p \in Pairs'
               PROVE  uninitCounter' <= p[1] /\ p[1] <= vnCounter' /\ (p[1] < 0 <=> p[2] \in raw')
    BY DEF NumbersKnown
  <2>1. CASE p \in Pairs
    BY <2>1, <1>2, <1>0
  <2>2. CASE p \in N
    BY <2>2, <1>0 DEF NewPairs
  <2> QED BY <2>1, <2>2
<1>4. ASSUME NEW p \in Pairs, NEW q \in N
      PROVE  /\ p[1] = q[1] => q[1] = 0
             /\ p[2] = q[2] => q[2] \notin raw'
  BY <1>2, <1>0 DEF NewPairs
<1>5. OneValue'
  <2> SUFFICES ASSUME NEW p \in Pairs', NEW q \in Pairs', p[1] = q[1], p[1] # 0,
                      known = "values" \/ p[1] < 0
               PROVE  p[2] = q[2]
    BY DEF OneValue
  <2>1. CASE p \in Pairs /\ q \in Pairs
    BY <2>1 DEF Numbered, OneValue
  <2>2. CASE p \in N /\ q \in N
    BY <2>2 DEF NewPairs
  <2> QED BY <2>1, <2>2, <1>4
<1>6. OneNumber'
  <2> SUFFICES ASSUME NEW p \in Pairs', NEW q \in Pairs', p[2] = q[2], p[2] \in raw'
               PROVE  p[1] = q[1]
    BY DEF OneNumber
  <2>1. CASE p \in Pairs /\ q \in Pairs
    BY <2>1 DEF Numbered, OneNumber, SameRaw
  <2>2. CASE p \in N /\ q \in N
    BY <2>2, <1>0 DEF NewPairs
  <2> QED BY <2>1, <2>2, <1>4
<1> QED BY <1>3, <1>5, <1>6 DEF Numbered

-----------------------------------------------------------------------------
(* Stamps.                                                                 *)

\* the objects that can be used
Safe == covered \cup excused
\* the objects numbered vn can be used after the step
Covers(vn) == \A p \in Pairs : p[1] = vn /\ p[1] > 0 /\ p[2] \in Constructed => p[2] \in Safe'

\* The stamps stay right if what is noted as stamped can be used.
LEMMA KeepStamps ==
  ASSUME TypeOK, Numbered, StampsRight, NEW N, Pairs' \subseteq Pairs \cup N, SameRaw,
         raw' \subseteq Objects,
         vnCounter' \in Nat, vnCounter' >= vnCounter, Safe \subseteq Safe',
         NEW vns, \A vn \in vns : vn \in Int /\ vn <= vnCounter', nowStamped(vns),
         \A vn \in vns : Covers(vn),
         \A p \in N : \/ p[1] = 0
                      \/ p[1] < 0
                      \/ p[1] \in Int /\ p[1] > vnCounter /\ (p[1] \in vns => (p[2] \in Objects => p[2] \in Safe'))
  PROVE  StampsRight'
<1>0. vnCounter \in Nat /\ stamped \subseteq Nat \ {0}
  BY DEF TypeOK
<1>1. \A vn \in stamped' : vn \in Nat \ {0} /\ vn <= vnCounter'
  BY <1>0 DEF nowStamped, StampsRight
<1>2. ASSUME NEW p \in Pairs', p[1] \in stamped', p[2] \in Constructed' PROVE p[2] \in Safe'
  <2>1. p[1] \in Nat \ {0}
    BY <1>1, <1>2
  <2>2. CASE p \in Pairs
    <3>1. p[2] \in Constructed
      BY <1>2, <2>2 DEF SameRaw, Constructed
    <3>2. CASE p[1] \in stamped
      BY <2>2, <3>1, <3>2 DEF StampsRight, Safe
    <3>3. CASE p[1] \in vns
      BY <2>1, <2>2, <3>1, <3>3 DEF Covers
    <3> QED BY <3>2, <3>3, <1>2 DEF nowStamped
  <2>3. CASE p \in N
    <3>1. p[1] \notin stamped
      BY <2>1, <2>3, <1>0 DEF StampsRight
    <3>2. p[1] \in vns
      BY <3>1, <1>2 DEF nowStamped
    <3> QED BY <2>1, <2>3, <3>2, <1>2 DEF Constructed
  <2> QED BY <2>2, <2>3
<1> QED BY <1>1, <1>2 DEF StampsRight, Safe

\* An operand that the adapter follows is stamped, or one of the hooks stamps it.
LEMMA HookedOrStamped ==
  ASSUME TypeOK, Numbered, StampsRight, NEW i \in 0 .. Len(jstack) - 1, NEW hooked,
         StampsFor(i) \subseteq hooked, top(stack, i) # 0, Val(i) \in Constructed
  PROVE  Val(i) \in Safe \cup hooked
<1> DEFINE p == <<top(stack, i), Val(i)>>
<1>1. p \in Pairs /\ p[1] = top(stack, i) /\ p[2] = Val(i) /\ top(stack, i) \in Int
  BY Place
<1> HIDE DEF p
<1>2. top(stack, i) > 0
  BY <1>1 DEF Numbered, NumbersKnown, Constructed
<1>3. CASE top(stack, i) \in stamped
  BY <1>1, <1>3 DEF StampsRight, Safe
<1>4. CASE top(stack, i) \notin stamped
  BY <1>2, <1>4 DEF StampsFor, shouldStamp
<1> QED BY <1>3, <1>4

\* All copies of an operand are covered with it.
LEMMA CoversPlace ==
  ASSUME TypeOK, Numbered, known = "values", NEW i \in 0 .. Len(jstack) - 1,
         top(stack, i) # 0 /\ Val(i) \in Constructed => Val(i) \in Safe'
  PROVE  Covers(top(stack, i))
<1> SUFFICES ASSUME NEW q \in Pairs, q[1] = top(stack, i), q[1] > 0, q[2] \in Constructed
             PROVE  q[2] \in Safe'
  BY DEF Covers
<1> DEFINE p == <<top(stack, i), Val(i)>>
<1>1. p \in Pairs /\ p[1] = top(stack, i) /\ p[2] = Val(i) /\ top(stack, i) \in Int
  BY Place
<1> HIDE DEF p
<1>2. q[2] = Val(i)
  BY <1>1 DEF Numbered, OneValue
<1> QED BY <1>1, <1>2

\* A primitive operand has no number to cover.
LEMMA CoversPrim ==
  ASSUME TypeOK, Numbered, NEW i \in 0 .. Len(jstack) - 1, Val(i) = Prim
  PROVE  Covers(top(stack, i)) /\ top(stack, i) = 0
<1>1. <<top(stack, i), Val(i)>> \in StackPairs
  BY Place
<1>2. top(stack, i) = 0
  BY <1>1 DEF Numbered, PrimsPlain
<1> QED BY <1>2 DEF Covers

\* After a use with the hooks in front of it nothing is missed.
LEMMA Uses ==
  ASSUME TypeOK, known = "values", Numbered, StampsRight, missed = {},
         NEW places \in SUBSET (0 .. Len(jstack) - 1), NEW hooked,
         \A i \in places : StampsFor(i) \subseteq hooked,
         Use(places, hooked)
  PROVE  /\ missed' = {} /\ Safe \subseteq Safe' /\ hooked \cap Objects \subseteq Safe'
         /\ \A i \in places : Covers(top(stack, i))
<1>1. \A i \in places : top(stack, i) # 0 /\ Val(i) \in Constructed => Val(i) \in Safe \cup hooked
  BY HookedOrStamped
<1>2. missed' = {}
  BY <1>1 DEF Use, Misses, Safe
<1>3. Safe \subseteq Safe' /\ hooked \cap Objects \subseteq Safe'
  BY DEF Use, Safe
<1>4. ASSUME NEW i \in places PROVE Covers(top(stack, i))
  <2>1. top(stack, i) # 0 /\ Val(i) \in Constructed => Val(i) \in Safe'
    BY <1>1, <1>3 DEF Constructed
  <2>2. i \in 0 .. Len(jstack) - 1
    OBVIOUS
  <2> QED BY <2>1, <2>2, CoversPlace
<1> QED BY <1>2, <1>3, <1>4

\* The same where objects come to hang on the one that is used.
LEMMA UsesAndHangs ==
  ASSUME TypeOK, known = "values", Numbered, StampsRight, missed = {},
         NEW places \in SUBSET (0 .. Len(jstack) - 1), NEW hooked, NEW from, NEW held,
         \A i \in places : StampsFor(i) \subseteq hooked,
         UseAndHang(places, hooked, from, held)
  PROVE  /\ missed' = {} /\ Safe \subseteq Safe' /\ hooked \cap Objects \subseteq Safe'
         /\ held \cap Objects \subseteq Safe'
         /\ \A i \in places : Covers(top(stack, i))
<1>1. \A i \in places : top(stack, i) # 0 /\ Val(i) \in Constructed => Val(i) \in Safe \cup hooked
  BY HookedOrStamped
<1>2. missed' = {}
  BY <1>1 DEF UseAndHang, Misses, Safe
<1>3. Safe \subseteq Safe' /\ hooked \cap Objects \subseteq Safe' /\ held \cap Objects \subseteq Safe'
  BY DEF UseAndHang, Safe, TypeOK
<1>4. ASSUME NEW i \in places PROVE Covers(top(stack, i))
  <2>1. top(stack, i) # 0 /\ Val(i) \in Constructed => Val(i) \in Safe'
    BY <1>1, <1>3 DEF Constructed
  <2>2. i \in 0 .. Len(jstack) - 1
    OBVIOUS
  <2> QED BY <2>1, <2>2, CoversPlace
<1> QED BY <1>2, <1>3, <1>4

\* the types of what is covered, excused and missed
StampTypes == covered' \subseteq Objects /\ excused' \subseteq Objects /\ missed' \subseteq Objects

\* The uses keep those types.
LEMMA UseTypes ==
  ASSUME TypeOK
  PROVE  /\ \A places, hooked : Use(places, hooked) => StampTypes
         /\ \A places, hooked, from, held : UseAndHang(places, hooked, from, held) => StampTypes
         /\ \A hooked \in SUBSET Objects : Initializes(hooked) => StampTypes
         /\ NoUse => StampTypes
<1>1. ASSUME NEW places, NEW hooked, Misses(places, hooked) PROVE missed' \subseteq Objects
  BY <1>1 DEF Misses, TypeOK, Constructed
<1>2. \A places, hooked : Use(places, hooked) => StampTypes
  BY <1>1 DEF Use, TypeOK, StampTypes
<1>3. \A places, hooked, from, held : UseAndHang(places, hooked, from, held) => StampTypes
  <2> SUFFICES ASSUME NEW places, NEW hooked, NEW from, NEW held,
                      UseAndHang(places, hooked, from, held)
               PROVE  StampTypes
    OBVIOUS
  <2>1. missed' \subseteq Objects
    BY <1>1 DEF UseAndHang
  <2> QED BY <2>1 DEF UseAndHang, TypeOK, StampTypes
<1>4. \A hooked \in SUBSET Objects : Initializes(hooked) => StampTypes
  BY DEF Initializes, TypeOK, StampTypes
<1>5. NoUse => StampTypes
  BY DEF NoUse, stamps, TypeOK, StampTypes
<1> QED BY <1>2, <1>3, <1>4, <1>5

-----------------------------------------------------------------------------
(* Counts.                                                                 *)

\* Counting keeps Counted,
LEMMA CountStep ==
  ASSUME Counted, falls, GoesOn, NEW c \in Nat \X Nat, incrCounts(c)
  PROVE  Counted'
<1>1. Plus(counts, c) \in Nat \X Nat
  BY DEF Counted, Plus
<1> QED BY <1>1 DEF Counted, incrCounts, GoesOn

\* and so does a flush, since all is reported.
LEMMA FlushStep ==
  ASSUME Counted, falls, NEW c \in Nat \X Nat, incrCountsAndFlush(c)
  PROVE  Counted'
<1>1. Plus(counts, c) \in Nat \X Nat
  BY DEF Counted, Plus
<1>2. outputCounts(Plus(counts, c)) = Plus(counts, c) /\ owed = counts
  BY <1>1, AllReported DEF Counted
<1>3. owed' = Minus(Plus(counts, c), Plus(counts, c)) /\ counts' = <<0, 0>>
  BY <1>2 DEF incrCountsAndFlush
<1>4. owed' = <<0, 0>>
  BY <1>1, <1>3 DEF Minus
<1> QED BY <1>3, <1>4 DEF Counted

\* What an instruction adds to the counts.
LEMMA Amounts == /\ doCounts.plain \in Nat \X Nat /\ doCounts.header \in Nat \X Nat
                 /\ doCounts.load \in Nat \X Nat
                 /\ <<1, 0>> \in Nat \X Nat /\ <<0, 0>> \in Nat \X Nat
  BY DEF doCounts

-----------------------------------------------------------------------------
(* One instruction that leaves the local variables alone.                  *)

\* the types of the stacks after a step
StackTypes == stack' \in Seq(Int) /\ jstack' \in Seq(Values)
\* at most one number is drawn from each counter
CounterSteps ==
  /\ vnCounter' \in {vnCounter, vnCounter + 1}
  /\ uninitCounter' \in {uninitCounter, uninitCounter - 1}

\* The invariant after an instruction that adds the pairs of N.
LEMMA Instruction ==
  ASSUME IInv, falls, NoLocals, GoesOn, StackTypes, CounterSteps, StampTypes,
         raw' \subseteq Objects, stamped' \subseteq Nat \ {0}, Counted',
         NEW N, NewPairs(N), SameRaw,
         Numbered => Len(jstack') <= Len(stack') /\ StackPairs' \subseteq StackPairs \cup N,
         known = "values" /\ Numbered /\ StampsRight /\ missed = {} => StampsRight' /\ missed' = {}
  PROVE  IInv'
<1>1. TypeOK'
  BY DEF IInv, TypeOK, NoLocals, GoesOn, StackTypes, CounterSteps, StampTypes, Values
<1>2. uninitCounter' <= 0
  BY DEF IInv, TypeOK, CounterSteps
<1>3. ASSUME known # "nothing" PROVE Numbered'
  <2>1. TypeOK /\ Numbered /\ uninitCounter <= 0 /\ known' = known
    BY <1>3 DEF IInv, GoesOn
  <2>2. Len(jstack') <= Len(stack') /\ StackPairs' \subseteq StackPairs \cup N
    BY <2>1
  <2>3. Pairs' \subseteq Pairs \cup N
    BY <2>2, LocalsKept DEF Pairs
  <2>4. Aligned'
    BY <2>1, <2>2 DEF Aligned, NoLocals, Numbered
  <2>6. PrimsPlain'
    BY <2>1, <2>2, PlainKept
  <2> QED BY <2>1, <2>2, <2>3, <2>4, <2>6, KeepNumbered DEF CounterSteps
<1>4. ASSUME known = "values" PROVE missed' = {} /\ StampsRight'
  <2>1. Numbered /\ StampsRight /\ missed = {}
    BY <1>4 DEF IInv
  <2> QED BY <1>4, <2>1
<1> QED BY <1>1, <1>2, <1>3, <1>4, LocalsToo DEF IInv, GoesOn

\* What the frame of such an instruction that pushes vals has to show.
Pushed(vns, vals) ==
  /\ vns \in Seq(Int) /\ vals \in Seq(Values) /\ Len(vns) = Len(vals)
  /\ \/ NoVn /\ \A k \in 1 .. Len(vals) : vns[k] = 0 /\ vals[k] \notin raw
     \/ NewVn /\ Len(vals) = 1 /\ vns[1] = vnCounter + 1 /\ vals[1] \in Refs

\* An instruction that constructs nothing: the numbers in noted are those it takes for
\* stamped.
LEMMA PushStep ==
  ASSUME IInv, NoLocals, GoesOn, raw' = raw, StampTypes, Counted',
         NEW n \in Nat, NEW vns, NEW vals, Pushed(vns, vals), Pushes(n, vns, vals),
         NEW noted, noted \subseteq Int, nowStamped(noted),
         known = "values" /\ Numbered /\ StampsRight /\ missed = {}
           => /\ missed' = {} /\ Safe \subseteq Safe'
              /\ \A vn \in noted :
                   \/ Covers(vn) /\ vn <= vnCounter
                   \/ NewVn /\ vn = vnCounter + 1 /\ {vals[1]} \cap Objects \subseteq Safe'
  PROVE  IInv'
<1> DEFINE N == Zip(vns, vals)
<1>0. TypeOK /\ vnCounter \in Nat /\ uninitCounter \in Int /\ stamped \subseteq Nat \ {0}
      /\ raw \subseteq Objects /\ Prim \notin Objects /\ Null \notin Objects
  BY RewriterAssumption DEF IInv, TypeOK
<1>1. vns \in Seq(Int) /\ vals \in Seq(Values) /\ Len(vns) = Len(vals)
  BY DEF Pushed
<1>2. StackTypes /\ falls
  BY <1>0, <1>1, PushTypes DEF StackTypes
<1>3. CounterSteps
  BY <1>0 DEF Pushed, NoVn, NewVn, CounterSteps
<1>4. stamped' \subseteq Nat \ {0}
  <2>1. {vn \in noted : vn > 0} \subseteq Nat \ {0}
    <3> SUFFICES ASSUME NEW vn \in noted, vn > 0 PROVE vn \in Nat \ {0}
      OBVIOUS
    <3>1. vn \in Int
      OBVIOUS
    <3> QED BY <3>1
  <2>2. stamped' = stamped \cup {vn \in noted : vn > 0}
    BY DEF nowStamped
  <2> QED BY <1>0, <2>1, <2>2
<1>5. NewPairs(N)
  <2>1. CASE NoVn /\ \A k \in 1 .. Len(vals) : vns[k] = 0 /\ vals[k] \notin raw
    BY <2>1 DEF NewPairs, Zip
  <2>2. CASE NewVn /\ Len(vals) = 1 /\ vns[1] = vnCounter + 1 /\ vals[1] \in Refs
    <3>1. N = {<<vnCounter + 1, vals[1]>>}
      <4>1. 1 .. Len(vals) = {1}
        BY <2>2
      <4> QED BY <2>2, <4>1 DEF Zip
    <3>2. vnCounter' = vnCounter + 1 /\ vals[1] # Prim /\ vals[1] \notin raw'
      BY <2>2, <1>0, RewriterAssumption DEF NewVn, Refs, Constructed
    <3> HIDE DEF N
    <3> QED BY <3>1, <3>2 DEF NewPairs
  <2> QED BY <2>1, <2>2 DEF Pushed
<1>7. Numbered => Len(jstack') <= Len(stack') /\ StackPairs' \subseteq StackPairs \cup N
  BY <1>0, <1>1, PushPairs DEF Numbered
<1>8. SameRaw
  BY DEF SameRaw
<1>6. ASSUME known = "values", Numbered, StampsRight, missed = {}
      PROVE  StampsRight' /\ missed' = {}
  <2>1. Len(jstack') <= Len(stack') /\ StackPairs' \subseteq StackPairs \cup N
    BY <1>6, <1>7
  <2>2. SameRaw
    BY <1>8
  <2>3. /\ missed' = {} /\ Safe \subseteq Safe'
        /\ \A vn \in noted :
             \/ Covers(vn) /\ vn <= vnCounter
             \/ NewVn /\ vn = vnCounter + 1 /\ {vals[1]} \cap Objects \subseteq Safe'
    BY <1>6
  <2>4. vnCounter' \in Nat /\ vnCounter' >= vnCounter
    BY <1>0, <1>3 DEF CounterSteps
  <2>5. Pairs' \subseteq Pairs \cup N
    BY <2>1, LocalsKept DEF Pairs
  <2>6. ASSUME NEW vn \in noted PROVE vn \in Int /\ vn <= vnCounter' /\ Covers(vn)
    <3>1. CASE Covers(vn) /\ vn <= vnCounter
      BY <3>1, <2>4, <1>0
    <3>2. CASE NewVn /\ vn = vnCounter + 1
      <4>1. vn = vnCounter' /\ vn > vnCounter
        BY <3>2, <1>0 DEF NewVn
      <4>2. \A p \in Pairs : p[1] # vn
        BY <4>1, <1>0, <1>6, PairTypes DEF Numbered, NumbersKnown
      <4> QED BY <4>1, <4>2, <2>4, <1>0 DEF Covers
    <3> QED BY <3>1, <3>2, <2>3
  <2>7. ASSUME NEW p \in N
        PROVE  \/ p[1] = 0
               \/ p[1] < 0
               \/ /\ p[1] \in Int /\ p[1] > vnCounter
                  /\ p[1] \in noted => (p[2] \in Objects => p[2] \in Safe')
    <3>1. PICK k \in 1 .. Len(vals) : p = <<vns[k], vals[k]>>
      BY DEF Zip
    <3>2. CASE NewVn /\ Len(vals) = 1 /\ vns[1] = vnCounter + 1 /\ vals[1] \in Refs
      <4>1. k = 1 /\ p[1] = vnCounter + 1 /\ p[2] = vals[1]
        BY <3>1, <3>2
      <4>2. \A vn \in noted : vn = vnCounter + 1 => {vals[1]} \cap Objects \subseteq Safe'
        BY <2>3, <1>0
      <4> HIDE DEF N
      <4> QED BY <4>1, <4>2, <1>0
    <3> QED BY <3>1, <3>2 DEF Pushed
  <2>8. StampsRight'
    <3> HIDE DEF N
    <3> QED BY <1>0, <1>6, <2>2, <2>3, <2>4, <2>5, <2>6, <2>7, KeepStamps
  <2> QED BY <2>3, <2>8
<1> HIDE DEF N
<1> QED BY <1>0, <1>2, <1>3, <1>4, <1>5, <1>6, <1>7, <1>8, Instruction

\* To stamp nothing is to leave stamped alone.
LEMMA NothingStamped == UNCHANGED stamped => nowStamped({})
  BY DEF nowStamped

-----------------------------------------------------------------------------
(* visitInsn, visitFieldInsn, visitJumpInsn, visitTypeInsn: what they push. *)

LEMMA Basics ==
  ASSUME IInv
  PROVE  /\ TypeOK /\ Counted /\ raw \subseteq Objects
         /\ Null \notin raw /\ Prim \notin raw /\ Refs \subseteq Values
         /\ Constructed \subseteq Refs /\ \A v \in Refs : v \notin raw
         /\ \A v \in Refs : v # Prim
  BY RewriterAssumption DEF IInv, TypeOK, Refs, Constructed, Values

\* An instruction may push nothing,
LEMMA NothingPushed == NoVn => Pushed(<<>>, <<>>)
  BY DEF Pushed

\* values that are not followed,
LEMMA PlainPushed ==
  ASSUME IInv, NoVn
  PROVE  /\ \A w \in Nat : Pushed(Same(w), Prims(w))
         /\ \A v \in {Null, Prim} : Pushed(Same(1), <<v>>) /\ Pushed(<<0>>, <<v>>)
<1>1. Prim \in Values /\ Null \in Values /\ Prim \notin raw /\ Null \notin raw
  BY Basics DEF Values
<1>2. ASSUME NEW w \in Nat PROVE Pushed(Same(w), Prims(w))
  <2>1. Same(w) \in Seq(Int) /\ Len(Same(w)) = w /\ \A k \in 1 .. w : Same(w)[k] = 0
    BY DEF Same
  <2>2. Prims(w) \in Seq(Values) /\ Len(Prims(w)) = w /\ \A k \in 1 .. w : Prims(w)[k] = Prim
    <3> DEFINE V == Values
    <3> HIDE DEF V
    <3>1. Prim \in V
      BY <1>1 DEF V
    <3>2. Prims(w) \in Seq(V)
      BY <3>1 DEF Prims
    <3>3. Len(Prims(w)) = w /\ \A k \in 1 .. w : Prims(w)[k] = Prim
      BY DEF Prims
    <3> QED BY <3>2, <3>3 DEF V
  <2> QED BY <1>1, <2>1, <2>2 DEF Pushed
<1>3. ASSUME NEW v \in {Null, Prim} PROVE Pushed(<<0>>, <<v>>)
  <2>1. v \in Values /\ v \notin raw
    BY <1>1
  <2>2. <<v>> \in Seq(Values) /\ <<0>> \in Seq(Int) /\ Len(<<v>>) = 1 /\ Len(<<0>>) = 1
    BY <2>1
  <2>3. <<0>>[1] = 0 /\ <<v>>[1] = v
    OBVIOUS
  <2> QED BY <2>1, <2>2, <2>3 DEF Pushed
<1>4. Same(1) = <<0>>
  BY DEF Same
<1> QED BY <1>2, <1>3, <1>4

\* or a reference with a new number.
LEMMA FollowedPushed ==
  ASSUME IInv, NewVn, NEW o \in Refs
  PROVE  Pushed(<<vnCounter + 1>>, <<o>>)
<1>1. o \in Values /\ vnCounter + 1 \in Int
  BY Basics DEF TypeOK
<1>2. /\ <<o>> \in Seq(Values) /\ <<vnCounter + 1>> \in Seq(Int) /\ Len(<<o>>) = 1
      /\ Len(<<vnCounter + 1>>) = 1
  BY <1>1
<1>3. <<o>>[1] = o /\ <<vnCounter + 1>>[1] = vnCounter + 1
  OBVIOUS
<1> QED BY <1>2, <1>3 DEF Pushed

\* The number of an operand was drawn.
LEMMA PlaceNumber ==
  ASSUME TypeOK, Numbered, NEW i \in 0 .. Len(jstack) - 1
  PROVE  top(stack, i) <= vnCounter
<1> DEFINE p == <<top(stack, i), Val(i)>>
<1>1. p \in Pairs /\ p[1] = top(stack, i)
  BY Place
<1> HIDE DEF p
<1> QED BY <1>1 DEF Numbered, NumbersKnown

\* An operand that is held by what is covered is covered with all its copies.
LEMMA CoversSafe ==
  ASSUME TypeOK, Numbered, known = "values", NEW i \in 0 .. Len(jstack) - 1, {Val(i)} \cap Objects \subseteq Safe'
  PROVE  Covers(top(stack, i))
<1>1. top(stack, i) # 0 /\ Val(i) \in Constructed => Val(i) \in Safe'
  BY DEF Constructed
<1> QED BY <1>1, CoversPlace

\* A class initializer moves what was covered to what is excused,
LEMMA ClassInitialized ==
  ASSUME NEW hooked, Initializes(hooked)
  PROVE  missed' = missed /\ Safe \subseteq Safe' /\ hooked \subseteq Safe'
  BY DEF Initializes, Safe

\* and an instruction that uses nothing changes neither.
LEMMA NotUsed == NoUse => missed' = missed /\ Safe \subseteq Safe'
  BY DEF NoUse, stamps, Safe

\* Each instruction keeps the invariant.
LEMMA PushUntrackedStep ==
  ASSUME IInv, NEW vals \in {<<Null>>, <<Prim>>, <<Prim, Prim>>}, PushUntracked(vals)
  PROVE  IInv'
<1>0. TypeOK /\ Counted /\ NoLocals /\ GoesOn /\ raw' = raw /\ falls
  BY Basics DEF PushUntracked, Pushes
<1>1. Pushes(0, Same(Len(vals)), vals) /\ 0 \in Nat /\ 0 <= Len(jstack)
  BY Typed, <1>0 DEF PushUntracked, Pushes, Has
<1>2. Pushed(Same(Len(vals)), vals)
  <2>1. NoVn
    BY DEF PushUntracked
  <2>2. CASE vals = <<Null>> \/ vals = <<Prim>>
    <3>1. Len(vals) = 1
      BY <2>2
    <3> QED BY <2>1, <2>2, <3>1, PlainPushed
  <2>3. CASE vals = <<Prim, Prim>>
    <3>1. Len(vals) = 2 /\ vals = Prims(2)
      BY <2>3 DEF Prims
    <3>2. Pushed(Same(2), Prims(2))
      BY <2>1, PlainPushed
    <3> QED BY <3>1, <3>2
  <2> QED BY <2>2, <2>3
<1>3. Counted'
  BY <1>0, CountStep, Amounts DEF PushUntracked
<1>4. StampTypes
  BY <1>0, UseTypes DEF PushUntracked
<1>5. nowStamped({})
  BY NothingStamped DEF PushUntracked
<1>6. ASSUME known = "values", Numbered, StampsRight, missed = {}
      PROVE  /\ missed' = {} /\ Safe \subseteq Safe'
  BY <1>6, NotUsed DEF PushUntracked
<1> QED BY <1>0, <1>1, <1>2, <1>3, <1>4, <1>5, <1>6, PushStep

LEMMA PopStep ==
  ASSUME IInv, NEW n \in 1 .. 2, Pop(n)
  PROVE  IInv'
<1>0. TypeOK /\ Counted /\ NoLocals /\ GoesOn /\ raw' = raw /\ falls
  BY Basics DEF Pop, Pushes
<1>1. Pushes(n, <<>>, <<>>) /\ n \in Nat /\ n <= Len(jstack)
  BY Typed, <1>0 DEF Pop, Pushes, Has
<1>2. Pushed(<<>>, <<>>)
  BY NothingPushed DEF Pop
<1>3. Counted'
  BY <1>0, CountStep, Amounts DEF Pop
<1>4. StampTypes
  BY <1>0, UseTypes DEF Pop
<1>5. nowStamped({})
  BY NothingStamped DEF Pop
<1>6. ASSUME known = "values", Numbered, StampsRight, missed = {}
      PROVE  /\ missed' = {} /\ Safe \subseteq Safe'
  BY <1>6, NotUsed DEF Pop
<1> QED BY <1>0, <1>1, <1>2, <1>3, <1>4, <1>5, <1>6, PushStep

LEMMA LoadPrimStep ==
  ASSUME IInv, NEW w \in 1 .. 2, LoadPrim(w)
  PROVE  IInv'
<1>0. TypeOK /\ Counted /\ NoLocals /\ GoesOn /\ raw' = raw /\ falls
  BY Basics DEF LoadPrim, Pushes
<1>1. Pushes(2, Same(w), Prims(w)) /\ 2 \in Nat /\ 2 <= Len(jstack)
  BY Typed, <1>0 DEF LoadPrim, Pushes, Has
<1>2. Pushed(Same(w), Prims(w))
  BY PlainPushed DEF LoadPrim
<1>3. Counted'
  BY <1>0, CountStep, Amounts DEF LoadPrim
<1>4. StampTypes
  BY <1>0, UseTypes DEF LoadPrim
<1>5. nowStamped({top(stack, 1)}) /\ {top(stack, 1)} \subseteq Int
  BY <1>0, Typed DEF LoadPrim
<1>6. ASSUME known = "values", Numbered, StampsRight, missed = {}
      PROVE  /\ missed' = {} /\ Safe \subseteq Safe'
             /\ \A vn \in {top(stack, 1)} :
                  \/ Covers(vn) /\ vn <= vnCounter
  <2>1. {1} \in SUBSET (0 .. Len(jstack) - 1) /\ \A i \in {1} : StampsFor(i) \subseteq StampsFor(1)
    BY <1>1, Typed, <1>0
  <2>2. Use({1}, StampsFor(1))
    BY DEF LoadPrim
  <2>3. missed' = {} /\ Safe \subseteq Safe' /\ \A i \in {1} : Covers(top(stack, i))
    BY <1>0, <1>6, <2>1, <2>2, Uses
  <2>4. top(stack, 1) <= vnCounter
    BY <1>0, <1>6, <2>1, PlaceNumber
  <2> QED BY <2>3, <2>4
<1> QED BY <1>0, <1>1, <1>2, <1>3, <1>4, <1>5, <1>6, PushStep

LEMMA StorePrimStep ==
  ASSUME IInv, NEW w \in 1 .. 2, StorePrim(w)
  PROVE  IInv'
<1>0. TypeOK /\ Counted /\ NoLocals /\ GoesOn /\ raw' = raw /\ falls
  BY Basics DEF StorePrim, Pushes
<1>1. Pushes(w + 2, <<>>, <<>>) /\ w + 2 \in Nat /\ w + 2 <= Len(jstack)
  BY Typed, <1>0 DEF StorePrim, Pushes, Has
<1>2. Pushed(<<>>, <<>>)
  BY NothingPushed DEF StorePrim
<1>3. Counted'
  BY <1>0, CountStep, Amounts DEF StorePrim
<1>4. StampTypes
  BY <1>0, UseTypes DEF StorePrim
<1>5. nowStamped({top(stack, w + 1)}) /\ {top(stack, w + 1)} \subseteq Int
  BY <1>0, Typed DEF StorePrim
<1>6. ASSUME known = "values", Numbered, StampsRight, missed = {}
      PROVE  /\ missed' = {} /\ Safe \subseteq Safe'
             /\ \A vn \in {top(stack, w + 1)} :
                  \/ Covers(vn) /\ vn <= vnCounter
  <2>1. /\ {w + 1} \in SUBSET (0 .. Len(jstack) - 1)
        /\ \A i \in {w + 1} : StampsFor(i) \subseteq StampsFor(w + 1)
    BY <1>1, Typed, <1>0
  <2>2. Use({w + 1}, StampsFor(w + 1))
    BY DEF StorePrim
  <2>3. missed' = {} /\ Safe \subseteq Safe' /\ \A i \in {w + 1} : Covers(top(stack, i))
    BY <1>0, <1>6, <2>1, <2>2, Uses
  <2>4. top(stack, w + 1) <= vnCounter
    BY <1>0, <1>6, <2>1, PlaceNumber
  <2> QED BY <2>3, <2>4
<1> QED BY <1>0, <1>1, <1>2, <1>3, <1>4, <1>5, <1>6, PushStep

LEMMA UseTopStep ==
  ASSUME IInv, NEW results \in {<<>>, <<Prim>>}, UseTop(results)
  PROVE  IInv'
<1>0. TypeOK /\ Counted /\ NoLocals /\ GoesOn /\ raw' = raw /\ falls
  BY Basics DEF UseTop, Pushes
<1>1. Pushes(1, Same(Len(results)), results) /\ 1 \in Nat /\ 1 <= Len(jstack)
  BY Typed, <1>0 DEF UseTop, Pushes, Has
<1>2. Pushed(Same(Len(results)), results)
  <2>1. NoVn
    BY DEF UseTop
  <2>2. CASE results = <<>>
    <3>1. Len(results) = 0 /\ Same(0) = <<>>
      BY <2>2 DEF Same
    <3> QED BY <2>1, <2>2, <3>1, NothingPushed
  <2>3. CASE results = <<Prim>>
    <3>1. Len(results) = 1
      BY <2>3
    <3> QED BY <2>1, <2>3, <3>1, PlainPushed
  <2> QED BY <2>2, <2>3
<1>3. Counted'
  BY <1>0, CountStep, Amounts DEF UseTop
<1>4. StampTypes
  BY <1>0, UseTypes DEF UseTop
<1>5. nowStamped({top(stack, 0)}) /\ {top(stack, 0)} \subseteq Int
  BY <1>0, Typed DEF UseTop
<1>6. ASSUME known = "values", Numbered, StampsRight, missed = {}
      PROVE  /\ missed' = {} /\ Safe \subseteq Safe'
             /\ \A vn \in {top(stack, 0)} :
                  \/ Covers(vn) /\ vn <= vnCounter
  <2>1. {0} \in SUBSET (0 .. Len(jstack) - 1) /\ \A i \in {0} : StampsFor(i) \subseteq StampsFor(0)
    BY <1>1, Typed, <1>0
  <2>2. Use({0}, StampsFor(0))
    BY DEF UseTop
  <2>3. missed' = {} /\ Safe \subseteq Safe' /\ \A i \in {0} : Covers(top(stack, i))
    BY <1>0, <1>6, <2>1, <2>2, Uses
  <2>4. top(stack, 0) <= vnCounter
    BY <1>0, <1>6, <2>1, PlaceNumber
  <2> QED BY <2>3, <2>4
<1> QED BY <1>0, <1>1, <1>2, <1>3, <1>4, <1>5, <1>6, PushStep

LEMMA AALoadStep ==
  ASSUME IInv, NEW o \in Refs, AALoad(o)
  PROVE  IInv'
<1>0. TypeOK /\ Counted /\ NoLocals /\ GoesOn /\ raw' = raw /\ falls
  BY Basics DEF AALoad, Pushes
<1>1. Pushes(2, <<vnCounter + 1>>, <<o>>) /\ 2 \in Nat /\ 2 <= Len(jstack)
  BY Typed, <1>0 DEF AALoad, Pushes, Has
<1>2. Pushed(<<vnCounter + 1>>, <<o>>)
  BY FollowedPushed DEF AALoad
<1>3. Counted'
  BY <1>0, CountStep, Amounts DEF AALoad
<1>4. StampTypes
  BY <1>0, UseTypes DEF AALoad
<1>8. vnCounter + 1 \in Int
  BY <1>0 DEF TypeOK
<1>5. nowStamped({top(stack, 1), vnCounter + 1}) /\ {top(stack, 1), vnCounter + 1} \subseteq Int
  BY <1>0, Typed, <1>8 DEF AALoad
<1>6. ASSUME known = "values", Numbered, StampsRight, missed = {}
      PROVE  /\ missed' = {} /\ Safe \subseteq Safe'
             /\ \A vn \in {top(stack, 1), vnCounter + 1} :
                  \/ Covers(vn) /\ vn <= vnCounter
                  \/ NewVn /\ vn = vnCounter + 1 /\ {<<o>>[1]} \cap Objects \subseteq Safe'
  <2>1. {1} \in SUBSET (0 .. Len(jstack) - 1) /\ \A i \in {1} : StampsFor(i) \subseteq StampsFor(1)
    BY <1>1, Typed, <1>0 DEF StampsFor
  <2>2. UseAndHang({1}, StampsFor(1), Val(1), {o})
    BY DEF AALoad
  <2>3. /\ missed' = {} /\ Safe \subseteq Safe' /\ {o} \cap Objects \subseteq Safe'
        /\ \A i \in {1} : Covers(top(stack, i))
    BY <1>0, <1>6, <2>1, <2>2, UsesAndHangs
  <2>4. top(stack, 1) <= vnCounter
    BY <1>0, <1>6, <2>1, PlaceNumber
  <2>5. NewVn
    BY DEF AALoad
  <2> QED BY <2>3, <2>4, <2>5
<1> QED BY <1>0, <1>1, <1>2, <1>3, <1>4, <1>5, <1>6, PushStep

LEMMA AAStoreStep ==
  ASSUME IInv, AAStore
  PROVE  IInv'
<1>0. TypeOK /\ Counted /\ NoLocals /\ GoesOn /\ raw' = raw /\ falls
  BY Basics DEF AAStore, Pushes
<1>1. Pushes(3, <<>>, <<>>) /\ 3 \in Nat /\ 3 <= Len(jstack)
  BY Typed, <1>0 DEF AAStore, Pushes, Has
<1>2. Pushed(<<>>, <<>>)
  BY NothingPushed DEF AAStore
<1>3. Counted'
  BY <1>0, CountStep, Amounts DEF AAStore
<1>4. StampTypes
  BY <1>0, UseTypes DEF AAStore
<1>5. nowStamped({top(stack, 0), top(stack, 2)}) /\ {top(stack, 0), top(stack, 2)} \subseteq Int
  BY <1>0, Typed DEF AAStore
<1>6. ASSUME known = "values", Numbered, StampsRight, missed = {}
      PROVE  /\ missed' = {} /\ Safe \subseteq Safe'
             /\ \A vn \in {top(stack, 0), top(stack, 2)} :
                  \/ Covers(vn) /\ vn <= vnCounter
  <2>1. {} \in SUBSET (0 .. Len(jstack) - 1) /\ \A i \in {} : StampsFor(i) \subseteq {}
    BY <1>1, Typed, <1>0 DEF StampsFor
  <2>2. UseAndHang({}, {}, Val(2), {Val(0), Val(2)})
    BY DEF AAStore
  <2>3. /\ missed' = {} /\ Safe \subseteq Safe' /\ {Val(0), Val(2)} \cap Objects \subseteq Safe'
        /\ \A i \in {} : Covers(top(stack, i))
    BY <1>0, <1>6, <2>1, <2>2, UsesAndHangs
  <2>4. top(stack, 0) <= vnCounter /\ top(stack, 2) <= vnCounter
    <3>1. 0 \in 0 .. Len(jstack) - 1
      BY <1>1, Typed, <1>0
    <3>5. top(stack, 0) <= vnCounter
      BY <1>0, <1>6, <3>1, PlaceNumber
    <3>2. 2 \in 0 .. Len(jstack) - 1
      BY <1>1, Typed, <1>0
    <3>6. top(stack, 2) <= vnCounter
      BY <1>0, <1>6, <3>2, PlaceNumber
    <3> QED BY <3>5, <3>6
  <2>5. Covers(top(stack, 0)) /\ Covers(top(stack, 2))
    <3>1. 0 \in 0 .. Len(jstack) - 1
      BY <1>1, Typed, <1>0
    <3>5. Covers(top(stack, 0))
      BY <1>0, <1>6, <2>3, <3>1, CoversSafe
    <3>2. 2 \in 0 .. Len(jstack) - 1
      BY <1>1, Typed, <1>0
    <3>6. Covers(top(stack, 2))
      BY <1>0, <1>6, <2>3, <3>2, CoversSafe
    <3> QED BY <3>5, <3>6
  <2> QED BY <2>3, <2>4, <2>5
<1> QED BY <1>0, <1>1, <1>2, <1>3, <1>4, <1>5, <1>6, PushStep

LEMMA GetFieldRefStep ==
  ASSUME IInv, NEW o \in Refs, GetFieldRef(o)
  PROVE  IInv'
<1>0. TypeOK /\ Counted /\ NoLocals /\ GoesOn /\ raw' = raw /\ falls
  BY Basics DEF GetFieldRef, Pushes
<1>1. Pushes(1, <<vnCounter + 1>>, <<o>>) /\ 1 \in Nat /\ 1 <= Len(jstack)
  BY Typed, <1>0 DEF GetFieldRef, Pushes, Has
<1>2. Pushed(<<vnCounter + 1>>, <<o>>)
  BY FollowedPushed DEF GetFieldRef
<1>3. Counted'
  BY <1>0, CountStep, Amounts DEF GetFieldRef
<1>4. StampTypes
  BY <1>0, UseTypes DEF GetFieldRef
<1>5. nowStamped({top(stack, 0)}) /\ {top(stack, 0)} \subseteq Int
  BY <1>0, Typed DEF GetFieldRef
<1>6. ASSUME known = "values", Numbered, StampsRight, missed = {}
      PROVE  /\ missed' = {} /\ Safe \subseteq Safe'
             /\ \A vn \in {top(stack, 0)} :
                  \/ Covers(vn) /\ vn <= vnCounter
  <2>1. {0} \in SUBSET (0 .. Len(jstack) - 1) /\ \A i \in {0} : StampsFor(i) \subseteq StampsFor(0)
    BY <1>1, Typed, <1>0
  <2>2. Use({0}, StampsFor(0))
    BY DEF GetFieldRef
  <2>3. missed' = {} /\ Safe \subseteq Safe' /\ \A i \in {0} : Covers(top(stack, i))
    BY <1>0, <1>6, <2>1, <2>2, Uses
  <2>4. top(stack, 0) <= vnCounter
    BY <1>0, <1>6, <1>1, Typed, PlaceNumber
  <2> QED BY <2>3, <2>4
<1> QED BY <1>0, <1>1, <1>2, <1>3, <1>4, <1>5, <1>6, PushStep

LEMMA GetFieldPrimStep ==
  ASSUME IInv, NEW w \in 1 .. 2, GetFieldPrim(w)
  PROVE  IInv'
<1>0. TypeOK /\ Counted /\ NoLocals /\ GoesOn /\ raw' = raw /\ falls
  BY Basics DEF GetFieldPrim, Pushes
<1>1. Pushes(1, Same(w), Prims(w)) /\ 1 \in Nat /\ 1 <= Len(jstack)
  BY Typed, <1>0 DEF GetFieldPrim, Pushes, Has
<1>2. Pushed(Same(w), Prims(w))
  BY PlainPushed DEF GetFieldPrim
<1>3. Counted'
  BY <1>0, CountStep, Amounts DEF GetFieldPrim
<1>4. StampTypes
  BY <1>0, UseTypes DEF GetFieldPrim
<1>5. nowStamped({top(stack, 0)}) /\ {top(stack, 0)} \subseteq Int
  BY <1>0, Typed DEF GetFieldPrim
<1>6. ASSUME known = "values", Numbered, StampsRight, missed = {}
      PROVE  /\ missed' = {} /\ Safe \subseteq Safe'
             /\ \A vn \in {top(stack, 0)} :
                  \/ Covers(vn) /\ vn <= vnCounter
  <2>1. {0} \in SUBSET (0 .. Len(jstack) - 1) /\ \A i \in {0} : StampsFor(i) \subseteq StampsFor(0)
    BY <1>1, Typed, <1>0
  <2>2. Use({0}, StampsFor(0))
    BY DEF GetFieldPrim
  <2>3. missed' = {} /\ Safe \subseteq Safe' /\ \A i \in {0} : Covers(top(stack, i))
    BY <1>0, <1>6, <2>1, <2>2, Uses
  <2>4. top(stack, 0) <= vnCounter
    BY <1>0, <1>6, <1>1, Typed, PlaceNumber
  <2> QED BY <2>3, <2>4
<1> QED BY <1>0, <1>1, <1>2, <1>3, <1>4, <1>5, <1>6, PushStep

LEMMA GetStaticRefStep ==
  ASSUME IInv, NEW o \in Refs, GetStaticRef(o)
  PROVE  IInv'
<1>0. TypeOK /\ Counted /\ NoLocals /\ GoesOn /\ raw' = raw /\ falls
  BY Basics DEF GetStaticRef, Pushes
<1>1. Pushes(0, <<vnCounter + 1>>, <<o>>) /\ 0 \in Nat /\ 0 <= Len(jstack)
  BY Typed, <1>0 DEF GetStaticRef, Pushes, Has
<1>2. Pushed(<<vnCounter + 1>>, <<o>>)
  BY FollowedPushed DEF GetStaticRef
<1>3. Counted'
  BY <1>0, CountStep, Amounts DEF GetStaticRef
<1>4. StampTypes
  BY <1>0, UseTypes DEF GetStaticRef
<1>5. nowStamped({})
  BY NothingStamped DEF GetStaticRef
<1>6. ASSUME known = "values", Numbered, StampsRight, missed = {}
      PROVE  /\ missed' = {} /\ Safe \subseteq Safe'
  BY <1>6, ClassInitialized DEF GetStaticRef
<1> QED BY <1>0, <1>1, <1>2, <1>3, <1>4, <1>5, <1>6, PushStep

LEMMA PutFieldRefStep ==
  ASSUME IInv, PutFieldRef
  PROVE  IInv'
<1>0. TypeOK /\ Counted /\ NoLocals /\ GoesOn /\ raw' = raw /\ falls
  BY Basics DEF PutFieldRef, Pushes
<1>1. Pushes(2, <<>>, <<>>) /\ 2 \in Nat /\ 2 <= Len(jstack)
  BY Typed, <1>0 DEF PutFieldRef, Pushes, Has
<1>2. Pushed(<<>>, <<>>)
  BY NothingPushed DEF PutFieldRef
<1>3. Counted'
  BY <1>0, CountStep, Amounts DEF PutFieldRef
<1>4. StampTypes
  BY <1>0, UseTypes DEF PutFieldRef
<1>5. nowStamped({top(stack, 0), top(stack, 1)}) /\ {top(stack, 0), top(stack, 1)} \subseteq Int
  BY <1>0, Typed DEF PutFieldRef
<1>6. ASSUME known = "values", Numbered, StampsRight, missed = {}
      PROVE  /\ missed' = {} /\ Safe \subseteq Safe'
             /\ \A vn \in {top(stack, 0), top(stack, 1)} :
                  \/ Covers(vn) /\ vn <= vnCounter
  <2>1. {1} \in SUBSET (0 .. Len(jstack) - 1) /\ \A i \in {1} : StampsFor(i) \subseteq {Val(1)}
    BY <1>1, Typed, <1>0 DEF StampsFor
  <2>2. UseAndHang({1}, {Val(1)}, Val(1), {Val(0)})
    BY DEF PutFieldRef
  <2>3. /\ missed' = {} /\ Safe \subseteq Safe' /\ {Val(0)} \cap Objects \subseteq Safe'
        /\ \A i \in {1} : Covers(top(stack, i))
    BY <1>0, <1>6, <2>1, <2>2, UsesAndHangs
  <2>4. top(stack, 0) <= vnCounter /\ top(stack, 1) <= vnCounter
    <3>1. 0 \in 0 .. Len(jstack) - 1
      BY <1>1, Typed, <1>0
    <3>5. top(stack, 0) <= vnCounter
      BY <1>0, <1>6, <3>1, PlaceNumber
    <3>2. 1 \in 0 .. Len(jstack) - 1
      BY <1>1, Typed, <1>0
    <3>6. top(stack, 1) <= vnCounter
      BY <1>0, <1>6, <3>2, PlaceNumber
    <3> QED BY <3>5, <3>6
  <2>5. Covers(top(stack, 0))
    <3>1. 0 \in 0 .. Len(jstack) - 1
      BY <1>1, Typed, <1>0
    <3>5. Covers(top(stack, 0))
      BY <1>0, <1>6, <2>3, <3>1, CoversSafe
    <3> QED BY <3>5
  <2> QED BY <2>3, <2>4, <2>5
<1> QED BY <1>0, <1>1, <1>2, <1>3, <1>4, <1>5, <1>6, PushStep

LEMMA PutFieldPrimStep ==
  ASSUME IInv, NEW w \in 1 .. 2, PutFieldPrim(w)
  PROVE  IInv'
<1>0. TypeOK /\ Counted /\ NoLocals /\ GoesOn /\ raw' = raw /\ falls
  BY Basics DEF PutFieldPrim, Pushes
<1>1. Pushes(w + 1, <<>>, <<>>) /\ w + 1 \in Nat /\ w + 1 <= Len(jstack)
  <2>1. Pushes(w + 1, <<>>, <<>>) /\ Has(w + 1) /\ w + 1 \in Nat
    BY DEF PutFieldPrim
  <2> QED BY <2>1 DEF Has
<1>2. Pushed(<<>>, <<>>)
  BY NothingPushed DEF PutFieldPrim
<1>3. Counted'
  BY <1>0, CountStep, Amounts DEF PutFieldPrim
<1>4. StampTypes
  BY <1>0, UseTypes DEF PutFieldPrim
<1>8. top(stack, 0) \in Int /\ top(stack, w) \in Int
  <2>1. 0 \in Nat /\ w \in Nat
    OBVIOUS
  <2> QED BY <1>0, <2>1, Typed
<1>5. nowStamped({top(stack, 0), top(stack, w)}) /\ {top(stack, 0), top(stack, w)} \subseteq Int
  BY <1>8 DEF PutFieldPrim
<1>6. ASSUME known = "values", Numbered, StampsRight, missed = {}
      PROVE  /\ missed' = {} /\ Safe \subseteq Safe'
             /\ \A vn \in {top(stack, 0), top(stack, w)} :
                  \/ Covers(vn) /\ vn <= vnCounter
  <2>0. 0 \in 0 .. Len(jstack) - 1 /\ w \in 0 .. Len(jstack) - 1
    <3>1. Len(jstack) \in Nat
      BY <1>0, Typed
    <3> QED BY <1>1, <3>1
  <2>1. {w} \in SUBSET (0 .. Len(jstack) - 1) /\ \A i \in {w} : StampsFor(i) \subseteq StampsFor(w)
    BY <2>0
  <2>2. Use({w}, StampsFor(w))
    BY DEF PutFieldPrim
  <2>3. missed' = {} /\ Safe \subseteq Safe' /\ \A i \in {w} : Covers(top(stack, i))
    BY <1>0, <1>6, <2>1, <2>2, Uses
  <2>4. top(stack, 0) <= vnCounter /\ top(stack, w) <= vnCounter
    <3>1. top(stack, 0) <= vnCounter
      BY <1>0, <1>6, <2>0, PlaceNumber
    <3>2. top(stack, w) <= vnCounter
      BY <1>0, <1>6, <2>0, PlaceNumber
    <3> QED BY <3>1, <3>2
  <2>5. Covers(top(stack, 0))
    BY <1>0, <1>6, <2>0, <2>3, CoversPrim DEF PutFieldPrim, AllPrim
  <2> QED BY <2>3, <2>4, <2>5
<1> QED BY <1>0, <1>1, <1>2, <1>3, <1>4, <1>5, <1>6, PushStep

LEMMA PutStaticRefStep ==
  ASSUME IInv, PutStaticRef
  PROVE  IInv'
<1>0. TypeOK /\ Counted /\ NoLocals /\ GoesOn /\ raw' = raw /\ falls
  BY Basics DEF PutStaticRef, Pushes
<1>1. Pushes(1, <<>>, <<>>) /\ 1 \in Nat /\ 1 <= Len(jstack)
  BY Typed, <1>0 DEF PutStaticRef, Pushes, Has
<1>2. Pushed(<<>>, <<>>)
  BY NothingPushed DEF PutStaticRef
<1>3. Counted'
  BY <1>0, CountStep, Amounts DEF PutStaticRef
<1>4. StampTypes
  BY <1>0, UseTypes DEF PutStaticRef
<1>5. nowStamped({top(stack, 0)}) /\ {top(stack, 0)} \subseteq Int
  BY <1>0, Typed DEF PutStaticRef
<1>6. ASSUME known = "values", Numbered, StampsRight, missed = {}
      PROVE  /\ missed' = {} /\ Safe \subseteq Safe'
             /\ \A vn \in {top(stack, 0)} :
                  \/ Covers(vn) /\ vn <= vnCounter
  <2>3. missed' = {} /\ Safe \subseteq Safe' /\ {Val(0)} \cap Objects \subseteq Safe'
    BY <1>6, ClassInitialized DEF PutStaticRef
  <2>4. top(stack, 0) <= vnCounter
    BY <1>0, <1>6, <1>1, Typed, PlaceNumber
  <2>5. Covers(top(stack, 0))
    <3>1. 0 \in 0 .. Len(jstack) - 1
      BY <1>1, Typed, <1>0
    <3>5. Covers(top(stack, 0))
      BY <1>0, <1>6, <2>3, <3>1, CoversSafe
    <3> QED BY <3>5
  <2> QED BY <2>3, <2>4, <2>5
<1> QED BY <1>0, <1>1, <1>2, <1>3, <1>4, <1>5, <1>6, PushStep

LEMMA PutStaticPrimStep ==
  ASSUME IInv, NEW w \in 1 .. 2, PutStaticPrim(w)
  PROVE  IInv'
<1>0. TypeOK /\ Counted /\ NoLocals /\ GoesOn /\ raw' = raw /\ falls
  BY Basics DEF PutStaticPrim, Pushes
<1>1. Pushes(w, <<>>, <<>>) /\ w \in Nat /\ w <= Len(jstack)
  BY Typed, <1>0 DEF PutStaticPrim, Pushes, Has
<1>2. Pushed(<<>>, <<>>)
  BY NothingPushed DEF PutStaticPrim
<1>3. Counted'
  BY <1>0, CountStep, Amounts DEF PutStaticPrim
<1>4. StampTypes
  BY <1>0, UseTypes DEF PutStaticPrim
<1>5. nowStamped({top(stack, 0)}) /\ {top(stack, 0)} \subseteq Int
  BY <1>0, Typed DEF PutStaticPrim
<1>6. ASSUME known = "values", Numbered, StampsRight, missed = {}
      PROVE  /\ missed' = {} /\ Safe \subseteq Safe'
             /\ \A vn \in {top(stack, 0)} :
                  \/ Covers(vn) /\ vn <= vnCounter
  <2>3. missed' = {} /\ Safe \subseteq Safe'
    BY <1>6, ClassInitialized DEF PutStaticPrim
  <2>4. top(stack, 0) <= vnCounter
    BY <1>0, <1>6, <1>1, Typed, PlaceNumber
  <2>5. Covers(top(stack, 0))
    <3>1. 0 \in 0 .. Len(jstack) - 1
      BY <1>1, Typed, <1>0
    <3>5. Covers(top(stack, 0))
      BY <1>0, <1>6, <2>3, <3>1, CoversPrim DEF PutStaticPrim, AllPrim
    <3> QED BY <3>5
  <2> QED BY <2>3, <2>4, <2>5
<1> QED BY <1>0, <1>1, <1>2, <1>3, <1>4, <1>5, <1>6, PushStep

LEMMA IfPrimStep ==
  ASSUME IInv, NEW n \in 1 .. 2, IfPrim(n)
  PROVE  IInv'
<1>0. TypeOK /\ Counted /\ NoLocals /\ GoesOn /\ raw' = raw /\ falls
  BY Basics DEF IfPrim, Pushes
<1>1. Pushes(n, <<>>, <<>>) /\ n \in Nat /\ n <= Len(jstack)
  BY Typed, <1>0 DEF IfPrim, Pushes, Has
<1>2. Pushed(<<>>, <<>>)
  BY NothingPushed DEF IfPrim
<1>3. Counted'
  BY <1>0, FlushStep, Amounts DEF IfPrim
<1>4. StampTypes
  BY <1>0, UseTypes DEF IfPrim
<1>5. nowStamped({})
  BY NothingStamped DEF IfPrim
<1>6. ASSUME known = "values", Numbered, StampsRight, missed = {}
      PROVE  /\ missed' = {} /\ Safe \subseteq Safe'
  BY <1>6, NotUsed DEF IfPrim
<1> QED BY <1>0, <1>1, <1>2, <1>3, <1>4, <1>5, <1>6, PushStep

LEMMA IfAcmpStep ==
  ASSUME IInv, IfAcmp
  PROVE  IInv'
<1>0. TypeOK /\ Counted /\ NoLocals /\ GoesOn /\ raw' = raw /\ falls
  BY Basics DEF IfAcmp, Pushes
<1>1. Pushes(2, <<>>, <<>>) /\ 2 \in Nat /\ 2 <= Len(jstack)
  BY Typed, <1>0 DEF IfAcmp, Pushes, Has
<1>2. Pushed(<<>>, <<>>)
  BY NothingPushed DEF IfAcmp
<1>3. Counted'
  BY <1>0, FlushStep, Amounts DEF IfAcmp
<1>4. StampTypes
  BY <1>0, UseTypes DEF IfAcmp
<1>5. nowStamped({top(stack, 0), top(stack, 1)}) /\ {top(stack, 0), top(stack, 1)} \subseteq Int
  BY <1>0, Typed DEF IfAcmp
<1>6. ASSUME known = "values", Numbered, StampsRight, missed = {}
      PROVE  /\ missed' = {} /\ Safe \subseteq Safe'
             /\ \A vn \in {top(stack, 0), top(stack, 1)} :
                  \/ Covers(vn) /\ vn <= vnCounter
  <2>1. /\ {0, 1} \in SUBSET (0 .. Len(jstack) - 1)
        /\ \A i \in {0, 1} : StampsFor(i) \subseteq
               (IF shouldStamp(1) \/ shouldStamp(0) THEN {Val(0), Val(1)} ELSE {})
    BY <1>1, Typed, <1>0 DEF StampsFor
  <2>2. Use({0, 1}, (IF shouldStamp(1) \/ shouldStamp(0) THEN {Val(0), Val(1)} ELSE {}))
    BY DEF IfAcmp
  <2>3. missed' = {} /\ Safe \subseteq Safe' /\ \A i \in {0, 1} : Covers(top(stack, i))
    BY <1>0, <1>6, <2>1, <2>2, Uses
  <2>4. top(stack, 0) <= vnCounter /\ top(stack, 1) <= vnCounter
    <3>1. 0 \in 0 .. Len(jstack) - 1
      BY <1>1, Typed, <1>0
    <3>5. top(stack, 0) <= vnCounter
      BY <1>0, <1>6, <3>1, PlaceNumber
    <3>2. 1 \in 0 .. Len(jstack) - 1
      BY <1>1, Typed, <1>0
    <3>6. top(stack, 1) <= vnCounter
      BY <1>0, <1>6, <3>2, PlaceNumber
    <3> QED BY <3>5, <3>6
  <2> QED BY <2>3, <2>4
<1> QED BY <1>0, <1>1, <1>2, <1>3, <1>4, <1>5, <1>6, PushStep

LEMMA IfNullStep ==
  ASSUME IInv, IfNull
  PROVE  IInv'
<1>0. TypeOK /\ Counted /\ NoLocals /\ GoesOn /\ raw' = raw /\ falls
  BY Basics DEF IfNull, Pushes
<1>1. Pushes(1, <<>>, <<>>) /\ 1 \in Nat /\ 1 <= Len(jstack)
  BY Typed, <1>0 DEF IfNull, Pushes, Has
<1>2. Pushed(<<>>, <<>>)
  BY NothingPushed DEF IfNull
<1>3. Counted'
  BY <1>0, FlushStep, Amounts DEF IfNull
<1>4. StampTypes
  BY <1>0, UseTypes DEF IfNull
<1>5. nowStamped({top(stack, 0)}) /\ {top(stack, 0)} \subseteq Int
  BY <1>0, Typed DEF IfNull
<1>6. ASSUME known = "values", Numbered, StampsRight, missed = {}
      PROVE  /\ missed' = {} /\ Safe \subseteq Safe'
             /\ \A vn \in {top(stack, 0)} :
                  \/ Covers(vn) /\ vn <= vnCounter
  <2>1. {0} \in SUBSET (0 .. Len(jstack) - 1) /\ \A i \in {0} : StampsFor(i) \subseteq StampsFor(0)
    BY <1>1, Typed, <1>0
  <2>2. Use({0}, StampsFor(0))
    BY DEF IfNull
  <2>3. missed' = {} /\ Safe \subseteq Safe' /\ \A i \in {0} : Covers(top(stack, i))
    BY <1>0, <1>6, <2>1, <2>2, Uses
  <2>4. top(stack, 0) <= vnCounter
    BY <1>0, <1>6, <1>1, Typed, PlaceNumber
  <2> QED BY <2>3, <2>4
<1> QED BY <1>0, <1>1, <1>2, <1>3, <1>4, <1>5, <1>6, PushStep

LEMMA LdcObjectStep ==
  ASSUME IInv, NEW o \in Objects, LdcObject(o)
  PROVE  IInv'
<1>0. TypeOK /\ Counted /\ NoLocals /\ GoesOn /\ raw' = raw /\ falls
  BY Basics DEF LdcObject, Pushes
<1>1. Pushes(0, <<vnCounter + 1>>, <<o>>) /\ 0 \in Nat /\ 0 <= Len(jstack)
  BY Typed, <1>0 DEF LdcObject, Pushes, Has
<1>2. Pushed(<<vnCounter + 1>>, <<o>>)
  BY FollowedPushed, Basics DEF LdcObject
<1>3. Counted'
  BY <1>0, CountStep, Amounts DEF LdcObject
<1>4. StampTypes
  BY <1>0, UseTypes DEF LdcObject
<1>5. nowStamped({})
  BY NothingStamped DEF LdcObject
<1>6. ASSUME known = "values", Numbered, StampsRight, missed = {}
      PROVE  /\ missed' = {} /\ Safe \subseteq Safe'
  BY <1>6, NotUsed DEF LdcObject
<1> QED BY <1>0, <1>1, <1>2, <1>3, <1>4, <1>5, <1>6, PushStep

LEMMA InstanceOfStep ==
  ASSUME IInv, InstanceOf
  PROVE  IInv'
<1>0. TypeOK /\ Counted /\ NoLocals /\ GoesOn /\ raw' = raw /\ falls
  BY Basics DEF InstanceOf, Pushes
<1>1. Pushes(1, <<0>>, <<Prim>>) /\ 1 \in Nat /\ 1 <= Len(jstack)
  BY Typed, <1>0 DEF InstanceOf, Pushes, Has
<1>2. Pushed(<<0>>, <<Prim>>)
  BY PlainPushed DEF InstanceOf
<1>3. Counted'
  BY <1>0, CountStep, Amounts DEF InstanceOf
<1>4. StampTypes
  BY <1>0, UseTypes DEF InstanceOf
<1>5. nowStamped({top(stack, 0)}) /\ {top(stack, 0)} \subseteq Int
  BY <1>0, Typed DEF InstanceOf
<1>6. ASSUME known = "values", Numbered, StampsRight, missed = {}
      PROVE  /\ missed' = {} /\ Safe \subseteq Safe'
             /\ \A vn \in {top(stack, 0)} :
                  \/ Covers(vn) /\ vn <= vnCounter
  <2>1. {0} \in SUBSET (0 .. Len(jstack) - 1) /\ \A i \in {0} : StampsFor(i) \subseteq StampsFor(0)
    BY <1>1, Typed, <1>0
  <2>2. Use({0}, StampsFor(0))
    BY DEF InstanceOf
  <2>3. missed' = {} /\ Safe \subseteq Safe' /\ \A i \in {0} : Covers(top(stack, i))
    BY <1>0, <1>6, <2>1, <2>2, Uses
  <2>4. top(stack, 0) <= vnCounter
    BY <1>0, <1>6, <1>1, Typed, PlaceNumber
  <2> QED BY <2>3, <2>4
<1> QED BY <1>0, <1>1, <1>2, <1>3, <1>4, <1>5, <1>6, PushStep

-----------------------------------------------------------------------------
(* Arithmetic, whose operands the adapter does not pop.                    *)

\* The adapter follows arithmetic as a change of the height of its stack.
LEMMA ArithmeticStack ==
  ASSUME TypeOK, NEW n \in Nat, NEW r \in Nat, Arithmetic(n, r)
  PROVE  /\ StackTypes /\ n <= Len(jstack)
         /\ n <= Len(stack) =>
              /\ Len(stack') = Len(stack) + r - n
              /\ \A i \in 1 .. Len(stack') : stack'[i] = IF i <= Len(stack) THEN stack[i] ELSE 0
         /\ Len(jstack') = Len(jstack) - n + r
         /\ \A i \in 1 .. Len(jstack') :
              jstack'[i] = IF i <= Len(jstack) - n THEN jstack[i] ELSE Prim
<1>1. stack \in Seq(Int) /\ jstack \in Seq(Values) /\ Len(stack) \in Nat /\ Len(jstack) \in Nat
  BY Typed DEF TypeOK, Values
<1>2. n <= Len(jstack)
  BY DEF Arithmetic, Has
<1>3. /\ stack' \in Seq(Int)
      /\ n <= Len(stack) =>
           /\ Len(stack') = Len(stack) + r - n
           /\ \A i \in 1 .. Len(stack') : stack'[i] = IF i <= Len(stack) THEN stack[i] ELSE 0
  <2>1. CASE r > n
    <3>1. r - n \in Nat /\ stack' = pushZero(stack, r - n)
      BY <2>1 DEF Arithmetic
    <3>2. /\ stack' \in Seq(Int) /\ Len(stack') = Len(stack) + (r - n)
          /\ \A i \in 1 .. Len(stack) : stack'[i] = stack[i]
          /\ \A i \in Len(stack) + 1 .. Len(stack) + (r - n) : stack'[i] = 0
      BY <1>1, <3>1, PushZeroFacts
    <3>3. Len(stack') = Len(stack) + r - n
      BY <3>2, <1>1
    <3>4. ASSUME NEW i \in 1 .. Len(stack')
          PROVE  stack'[i] = IF i <= Len(stack) THEN stack[i] ELSE 0
      <4>1. i <= Len(stack) => i \in 1 .. Len(stack)
        BY <1>1
      <4>2. ~(i <= Len(stack)) => i \in Len(stack) + 1 .. Len(stack) + (r - n)
        BY <1>1, <3>2
      <4> QED BY <3>2, <4>1, <4>2
    <3> QED BY <3>2, <3>3, <3>4
  <2>2. CASE ~(r > n)
    <3>1. n - r \in Nat /\ stack' = pop(stack, n - r)
      BY <2>2 DEF Arithmetic
    <3>2. /\ stack' \in Seq(Int) /\ Len(stack') = IF Len(stack) >= n - r THEN Len(stack) - (n - r) ELSE 0
          /\ \A i \in 1 .. Len(stack') : stack'[i] = stack[i]
      BY <1>1, <3>1, PopFacts
    <3>3. Len(stack) >= n => Len(stack') = Len(stack) + r - n /\ Len(stack') <= Len(stack)
      BY <2>2, <3>2, <1>1
    <3>4. ASSUME NEW i \in 1 .. Len(stack'), n <= Len(stack)
          PROVE  stack'[i] = IF i <= Len(stack) THEN stack[i] ELSE 0
      BY <3>2, <3>3, <3>4, <1>1
    <3> QED BY <3>2, <3>3, <3>4, <1>1
  <2> QED BY <2>1, <2>2
<1>4. /\ jstack' \in Seq(Values) /\ Len(jstack') = Len(jstack) - n + r
      /\ \A i \in 1 .. Len(jstack') : jstack'[i] = IF i <= Len(jstack) - n THEN jstack[i] ELSE Prim
  <2>1. jstack' = pop(jstack, n) \o Prims(r)
    BY <1>2, <1>1 DEF Arithmetic, Below, pop
  <2>2. /\ pop(jstack, n) \in Seq(Values) /\ Len(pop(jstack, n)) = Len(jstack) - n
        /\ \A i \in 1 .. Len(jstack) - n : pop(jstack, n)[i] = jstack[i]
    BY <1>1, <1>2, PopFacts
  <2>3. Prims(r) \in Seq(Values) /\ Len(Prims(r)) = r /\ \A k \in 1 .. r : Prims(r)[k] = Prim
    <3> DEFINE V == Values
    <3>1. Prim \in V
      BY DEF Values
    <3> HIDE DEF V
    <3>2. Prims(r) \in Seq(V) /\ Len(Prims(r)) = r /\ \A k \in 1 .. r : Prims(r)[k] = Prim
      BY <3>1 DEF Prims
    <3> QED BY <3>2 DEF V
  <2>4. JoinedAs(pop(jstack, n), Prims(r), Values)
    BY <2>2, <2>3, JoinedValues
  <2>5. jstack' \in Seq(Values) /\ Len(jstack') = Len(jstack) - n + r
    BY <2>1, <2>2, <2>3, <2>4 DEF JoinedAs
  <2>6. ASSUME NEW i \in 1 .. Len(jstack')
        PROVE  jstack'[i] = IF i <= Len(jstack) - n THEN jstack[i] ELSE Prim
    <3>1. i \in 1 .. Len(pop(jstack, n)) + Len(Prims(r))
      BY <2>2, <2>3, <2>5
    <3>2. jstack'[i] = IF i <= Len(jstack) - n THEN pop(jstack, n)[i] ELSE Prims(r)[i - (Len(jstack) - n)]
      BY <2>1, <2>2, <2>4, <3>1 DEF JoinedAs
    <3>3. CASE i <= Len(jstack) - n
      BY <2>2, <3>2, <3>3
    <3>4. CASE ~(i <= Len(jstack) - n)
      <4>1. i - (Len(jstack) - n) \in 1 .. r
        BY <3>4, <2>5, <1>1, <1>2
      <4> QED BY <2>3, <3>2, <3>4, <4>1
    <3> QED BY <3>3, <3>4
  <2> QED BY <2>5, <2>6
<1> QED BY <1>2, <1>3, <1>4 DEF StackTypes

\* All it adds is pairs without a number, as what it takes is primitive.
LEMMA ArithmeticPairs ==
  ASSUME TypeOK, Numbered, NEW n \in Nat, NEW r \in Nat, Arithmetic(n, r)
  PROVE  /\ Len(jstack') <= Len(stack')
         /\ StackPairs' \subseteq StackPairs \cup {<<0, Prim>>}
<1>1. /\ Len(stack) \in Nat /\ Len(jstack) \in Nat /\ n <= Len(jstack) /\ n <= Len(stack)
      /\ Len(jstack) <= Len(stack)
      /\ \A i \in 0 .. n - 1 : Val(i) = Prim
  BY Typed DEF Arithmetic, Has, AllPrim, Numbered, Aligned
<1>2. /\ Len(stack') = Len(stack) + r - n
      /\ \A i \in 1 .. Len(stack') : stack'[i] = IF i <= Len(stack) THEN stack[i] ELSE 0
      /\ Len(jstack') = Len(jstack) - n + r
      /\ \A i \in 1 .. Len(jstack') :
           jstack'[i] = IF i <= Len(jstack) - n THEN jstack[i] ELSE Prim
  BY <1>1, ArithmeticStack
<1>3. Len(jstack') <= Len(stack')
  BY <1>1, <1>2
<1>4. ASSUME NEW i \in 0 .. Len(jstack') - 1
      PROVE  <<top(stack', i), jstack'[Len(jstack') - i]>> \in StackPairs \cup {<<0, Prim>>}
  <2>1. /\ Len(jstack') - i \in 1 .. Len(jstack') /\ Len(stack') - i \in 1 .. Len(stack')
        /\ top(stack', i) = stack'[Len(stack') - i]
    BY <1>1, <1>2 DEF top
  <2>2. CASE i < r
    <3>0. ~(Len(jstack') - i <= Len(jstack) - n)
      BY <2>2, <1>1, <1>2
    <3>1. jstack'[Len(jstack') - i] = Prim
      BY <2>1, <3>0, <1>2
    <3>2. CASE Len(stack') - i > Len(stack)
      <4>1. stack'[Len(stack') - i] = 0
        <5>1. ~(Len(stack') - i <= Len(stack))
          BY <3>2, <1>1, <1>2
        <5> QED BY <5>1, <2>1, <1>2
      <4> QED BY <2>1, <3>1, <4>1
    <3>3. CASE ~(Len(stack') - i > Len(stack))
      <4> DEFINE k == i - r + n
      <4>1. k \in 0 .. n - 1 /\ k \in 0 .. Len(jstack) - 1 /\ k < Len(stack)
            /\ Len(stack') - i = Len(stack) - k
        BY <3>3, <2>2, <1>1, <1>2
      <4>2. stack'[Len(stack') - i] = top(stack, k)
        <5>1. Len(stack') - i <= Len(stack) /\ top(stack, k) = stack[Len(stack) - k]
          BY <4>1, <1>1 DEF top
        <5>2. stack'[Len(stack') - i] = stack[Len(stack') - i]
          BY <5>1, <2>1, <1>2
        <5> QED BY <5>1, <5>2, <4>1
      <4>3. top(stack, k) = 0
        BY <1>1, <4>1, CoversPrim
      <4> QED BY <2>1, <3>1, <4>2, <4>3
    <3> QED BY <3>2, <3>3
  <2>3. CASE ~(i < r)
    <3> DEFINE k == i - r + n
    <3>1. k \in 0 .. Len(jstack) - 1 /\ k < Len(stack)
          /\ Len(stack') - i = Len(stack) - k /\ Len(stack) - k <= Len(stack)
          /\ Len(jstack') - i = Len(jstack) - k /\ Len(jstack) - k <= Len(jstack) - n
      BY <2>3, <1>1, <1>2
    <3>2. stack'[Len(stack') - i] = top(stack, k) /\ jstack'[Len(jstack') - i] = Val(k)
      BY <2>1, <3>1, <1>2 DEF top, Val
    <3>3. <<top(stack, k), Val(k)>> \in StackPairs
      BY <3>1, Place
    <3> QED BY <2>1, <3>2, <3>3
  <2> QED BY <2>2, <2>3
<1>5. StackPairs' = PairsOf(stack', jstack')
  BY DEF StackPairs, PairsOf, Val
<1> QED BY <1>3, <1>4, <1>5 DEF PairsOf

LEMMA ArithmeticStep ==
  ASSUME IInv, NEW n \in Nat, NEW r \in Nat, Arithmetic(n, r)
  PROVE  IInv'
<1>0. /\ TypeOK /\ Counted /\ NoLocals /\ GoesOn /\ raw' = raw /\ raw \subseteq Objects /\ falls
      /\ stamped' = stamped /\ NoVn /\ NoUse /\ Prim \notin raw
  BY Basics DEF Arithmetic
<1>1. StackTypes
  BY <1>0, ArithmeticStack
<1>2. CounterSteps /\ stamped' \subseteq Nat \ {0} /\ raw' \subseteq Objects
  BY <1>0 DEF CounterSteps, NoVn, TypeOK
<1>3. Counted'
  BY <1>0, CountStep, Amounts DEF Arithmetic
<1>4. StampTypes
  BY <1>0, UseTypes
<1> DEFINE N == {<<0, Prim>>}
<1>5. NewPairs(N)
  BY <1>0 DEF NewPairs
<1>7. Numbered => Len(jstack') <= Len(stack') /\ StackPairs' \subseteq StackPairs \cup N
  BY <1>0, ArithmeticPairs
<1>8. SameRaw
  BY <1>0 DEF SameRaw
<1>6. ASSUME known = "values", Numbered, StampsRight, missed = {}
      PROVE  StampsRight' /\ missed' = {}
  <2>1. Len(jstack') <= Len(stack') /\ StackPairs' \subseteq StackPairs \cup N
    BY <1>6, <1>7
  <2>2. SameRaw
    BY <1>8
  <2>3. missed' = {} /\ Safe \subseteq Safe'
    BY <1>0, <1>6, NotUsed
  <2>4. Pairs' \subseteq Pairs \cup N
    BY <2>1, <1>0, LocalsKept DEF Pairs
  <2>5. nowStamped({}) /\ vnCounter' \in Nat /\ vnCounter' >= vnCounter
    BY <1>0 DEF nowStamped, NoVn, TypeOK
  <2>6. StampsRight'
    <3>1. \A q \in N : q[1] = 0
      OBVIOUS
    <3> HIDE DEF N
    <3> QED BY <1>0, <1>2, <1>6, <2>2, <2>3, <2>4, <2>5, <3>1, KeepStamps
  <2> QED BY <2>3, <2>6
<1> HIDE DEF N
<1> QED BY <1>0, <1>1, <1>2, <1>3, <1>4, <1>5, <1>6, <1>7, <1>8, Instruction

-----------------------------------------------------------------------------
(* Shuffles, casts, and the ends of straight code.                         *)

LEMMA SameStamps ==
  ASSUME StampsRight, Pairs' \subseteq Pairs, SameRaw, raw \subseteq Objects,
         stamped' = stamped, vnCounter' = vnCounter, Safe \subseteq Safe'
  PROVE  StampsRight'
<1>1. ASSUME NEW p \in Pairs', p[1] \in stamped', p[2] \in Constructed' PROVE p[2] \in Safe'
  <2>1. p \in Pairs /\ p[1] \in stamped /\ p[2] \in Constructed
    BY <1>1 DEF SameRaw, Constructed
  <2> QED BY <2>1 DEF StampsRight, Safe
<1> QED BY <1>1 DEF StampsRight, Safe

\* The places a shuffle takes and those it leaves.
LEMMA TakenFacts ==
  ASSUME NEW form \in Shuffles
  PROVE  /\ Taken(form) \in 1 .. 4
         /\ DOMAIN form = 1 .. Len(form) /\ Len(form) \in Nat
         /\ \A i \in 1 .. Len(form) : form[i] \in 0 .. Taken(form) - 1
<1> DEFINE Places == {form[i] : i \in DOMAIN form}
<1>1. /\ \E n \in 1 .. 4 : Places = 0 .. n - 1
      /\ DOMAIN form = 1 .. Len(form) /\ Len(form) \in Nat
  <2>1. CASE form = <<0, 0>>
    <3>1. DOMAIN form = 1 .. 2 /\ Len(form) = 2 /\ 1 .. 2 = {1, 2}
      BY <2>1
    <3>2. Places = {0}
      BY <2>1, <3>1
    <3>3. {0} = 0 .. 1 - 1
      OBVIOUS
    <3> QED BY <3>1, <3>2, <3>3
  <2>2. CASE form = <<0, 1, 0>>
    <3>1. DOMAIN form = 1 .. 3 /\ Len(form) = 3 /\ 1 .. 3 = {1, 2, 3}
      BY <2>2
    <3>2. Places = {0, 1}
      BY <2>2, <3>1
    <3>3. {0, 1} = 0 .. 2 - 1
      OBVIOUS
    <3> QED BY <3>1, <3>2, <3>3
  <2>3. CASE form = <<0, 2, 1, 0>>
    <3>1. DOMAIN form = 1 .. 4 /\ Len(form) = 4 /\ 1 .. 4 = {1, 2, 3, 4}
      BY <2>3
    <3>2. Places = {0, 1, 2}
      BY <2>3, <3>1
    <3>3. {0, 1, 2} = 0 .. 3 - 1
      OBVIOUS
    <3> QED BY <3>1, <3>2, <3>3
  <2>4. CASE form = <<1, 0, 1, 0>>
    <3>1. DOMAIN form = 1 .. 4 /\ Len(form) = 4 /\ 1 .. 4 = {1, 2, 3, 4}
      BY <2>4
    <3>2. Places = {0, 1}
      BY <2>4, <3>1
    <3>3. {0, 1} = 0 .. 2 - 1
      OBVIOUS
    <3> QED BY <3>1, <3>2, <3>3
  <2>5. CASE form = <<1, 0, 2, 1, 0>>
    <3>1. DOMAIN form = 1 .. 5 /\ Len(form) = 5 /\ 1 .. 5 = {1, 2, 3, 4, 5}
      BY <2>5
    <3>2. Places = {0, 1, 2}
      BY <2>5, <3>1
    <3>3. {0, 1, 2} = 0 .. 3 - 1
      OBVIOUS
    <3> QED BY <3>1, <3>2, <3>3
  <2>6. CASE form = <<1, 0, 3, 2, 1, 0>>
    <3>1. DOMAIN form = 1 .. 6 /\ Len(form) = 6 /\ 1 .. 6 = {1, 2, 3, 4, 5, 6}
      BY <2>6
    <3>2. Places = {0, 1, 2, 3}
      BY <2>6, <3>1
    <3>3. {0, 1, 2, 3} = 0 .. 4 - 1
      OBVIOUS
    <3> QED BY <3>1, <3>2, <3>3
  <2>7. CASE form = <<0, 1>>
    <3>1. DOMAIN form = 1 .. 2 /\ Len(form) = 2 /\ 1 .. 2 = {1, 2}
      BY <2>7
    <3>2. Places = {0, 1}
      BY <2>7, <3>1
    <3>3. {0, 1} = 0 .. 2 - 1
      OBVIOUS
    <3> QED BY <3>1, <3>2, <3>3
  <2> QED BY <2>1, <2>2, <2>3, <2>4, <2>5, <2>6, <2>7 DEF Shuffles
<1>2. Taken(form) \in 1 .. 4 /\ Places = 0 .. Taken(form) - 1
  <2> HIDE DEF Places
  <2>1. Taken(form) = CHOOSE n \in 1 .. 4 : Places = 0 .. n - 1
    BY DEF Taken, Places
  <2> QED BY <1>1, <2>1
<1> QED BY <1>1, <1>2

LEMMA ShuffleStep ==
  ASSUME IInv, NEW form \in Shuffles, Shuffle(form)
  PROVE  IInv'
<1> DEFINE n == Taken(form)
           vns == Shuffled(form)
           vals == [i \in DOMAIN form |-> Val(form[i])]
<1>0. /\ TypeOK /\ Counted /\ NoLocals /\ GoesOn /\ raw' = raw /\ raw \subseteq Objects /\ falls
      /\ stamped' = stamped /\ NoVn /\ NoUse /\ Has(n) /\ Pushes(n, vns, vals)
  BY Basics DEF Shuffle, Pushes
<1>1. /\ n \in Nat /\ DOMAIN form = 1 .. Len(form) /\ Len(form) \in Nat
      /\ \A i \in 1 .. Len(form) : form[i] \in 0 .. Len(jstack) - 1
  <2>1. Len(jstack) \in Nat /\ Len(jstack) >= n
    BY <1>0, Typed DEF Has
  <2> QED BY <2>1, TakenFacts
<1>2. /\ vns \in Seq(Int) /\ Len(vns) = Len(form)
      /\ \A i \in 1 .. Len(form) : vns[i] = top(stack, form[i])
  <2>1. \A i \in 1 .. Len(form) : top(stack, form[i]) \in Int
    <3> SUFFICES ASSUME NEW i \in 1 .. Len(form) PROVE top(stack, form[i]) \in Int
      OBVIOUS
    <3>1. form[i] \in Nat
      BY <1>1
    <3> QED BY <1>0, <3>1, Typed
  <2>2. vns = [i \in 1 .. Len(form) |-> top(stack, form[i])]
    BY <1>1 DEF Shuffled
  <2> QED BY <1>1, <2>1, <2>2
<1>3. /\ vals \in Seq(Values) /\ Len(vals) = Len(form)
      /\ \A i \in 1 .. Len(form) : vals[i] = Val(form[i])
  <2>1. \A i \in 1 .. Len(form) : Val(form[i]) \in Values
    BY <1>0, <1>1, Place
  <2>2. vals = [i \in 1 .. Len(form) |-> Val(form[i])]
    BY <1>1
  <2> QED BY <1>1, <2>1, <2>2
<1> HIDE DEF n, vns, vals
<1>4. StackTypes
  BY <1>0, <1>1, <1>2, <1>3, PushTypes DEF StackTypes
<1>5. CounterSteps /\ stamped' \subseteq Nat \ {0} /\ raw' \subseteq Objects
  BY <1>0 DEF CounterSteps, NoVn, TypeOK
<1>6. Counted'
  BY <1>0, CountStep, Amounts DEF Shuffle
<1>7. StampTypes
  BY <1>0, UseTypes
<1>8. NewPairs({})
  BY DEF NewPairs
<1>9. ASSUME Numbered
      PROVE  Len(jstack') <= Len(stack') /\ StackPairs' \subseteq StackPairs \cup {}
  <2>1. Len(jstack') <= Len(stack') /\ StackPairs' \subseteq StackPairs \cup Zip(vns, vals)
    BY <1>0, <1>1, <1>2, <1>3, <1>9, PushPairs DEF Numbered
  <2>2. Zip(vns, vals) \subseteq StackPairs
    <3> SUFFICES ASSUME NEW i \in 1 .. Len(form) PROVE <<vns[i], vals[i]>> \in StackPairs
      BY <1>3 DEF Zip
    <3>1. form[i] \in 0 .. Len(jstack) - 1
      BY <1>1
    <3> QED BY <1>0, <1>2, <1>3, <3>1, Place
  <2> QED BY <2>1, <2>2
<1>10. SameRaw
  BY <1>0 DEF SameRaw
<1>11. ASSUME known = "values", Numbered, StampsRight, missed = {}
       PROVE  StampsRight' /\ missed' = {}
  <2>1. missed' = {} /\ Safe \subseteq Safe'
    BY <1>0, <1>11, NotUsed
  <2>2. stamped' = stamped /\ vnCounter' = vnCounter /\ Pairs' \subseteq Pairs
    BY <1>0, <1>9, <1>11, LocalsKept DEF NoVn, Pairs
  <2> QED BY <1>0, <1>10, <1>11, <2>1, <2>2, SameStamps
<1> QED BY <1>0, <1>4, <1>5, <1>6, <1>7, <1>8, <1>9, <1>10, <1>11, Instruction

LEMMA CheckCastStep ==
  ASSUME IInv, CheckCast
  PROVE  IInv'
<1>0. /\ TypeOK /\ Counted /\ NoLocals /\ GoesOn /\ raw' = raw /\ raw \subseteq Objects /\ falls
      /\ stack' = stack /\ jstack' = jstack /\ NoVn
      /\ nowStamped({top(stack, 0)}) /\ Use({0}, StampsFor(0))
  BY Basics DEF CheckCast
<1>1. 0 \in 0 .. Len(jstack) - 1 /\ top(stack, 0) \in Int
  BY <1>0, Typed DEF CheckCast, Has
<1>2. StackTypes
  BY <1>0 DEF StackTypes, TypeOK, Values
<1>3. CounterSteps /\ raw' \subseteq Objects
  BY <1>0 DEF CounterSteps, NoVn
<1>4. stamped' \subseteq Nat \ {0}
  <2>1. {vn \in {top(stack, 0)} : vn > 0} \subseteq Nat \ {0}
    BY <1>1
  <2>2. stamped \subseteq Nat \ {0} /\ stamped' = stamped \cup {vn \in {top(stack, 0)} : vn > 0}
    BY <1>0 DEF nowStamped, TypeOK
  <2> QED BY <2>1, <2>2
<1>5. Counted'
  BY <1>0, CountStep, Amounts DEF CheckCast
<1>6. StampTypes
  BY <1>0, UseTypes
<1>7. NewPairs({})
  BY DEF NewPairs
<1>9. Numbered => Len(jstack') <= Len(stack') /\ StackPairs' \subseteq StackPairs \cup {}
  BY <1>0 DEF StackPairs, Val, Numbered, Aligned
<1>10. SameRaw
  BY <1>0 DEF SameRaw
<1>8. ASSUME known = "values", Numbered, StampsRight, missed = {}
      PROVE  StampsRight' /\ missed' = {}
  <2>1. StackPairs' \subseteq StackPairs \cup {}
    BY <1>8, <1>9
  <2>2. SameRaw
    BY <1>10
  <2>3. {0} \in SUBSET (0 .. Len(jstack) - 1) /\ \A i \in {0} : StampsFor(i) \subseteq StampsFor(0)
    BY <1>1
  <2>4. missed' = {} /\ Safe \subseteq Safe' /\ \A i \in {0} : Covers(top(stack, i))
    BY <1>0, <1>8, <2>3, Uses
  <2>5. Pairs' \subseteq Pairs \cup {}
    BY <2>1, <1>0, LocalsKept DEF Pairs
  <2>6. vnCounter' \in Nat /\ vnCounter' >= vnCounter /\ top(stack, 0) <= vnCounter'
    BY <1>0, <1>1, <1>8, PlaceNumber DEF NoVn, TypeOK
  <2>7. \A vn \in {top(stack, 0)} : vn \in Int /\ vn <= vnCounter' /\ Covers(vn)
    BY <1>1, <2>4, <2>6
  <2>8. StampsRight'
    BY <1>0, <1>3, <1>8, <2>2, <2>4, <2>5, <2>6, <2>7, KeepStamps
  <2> QED BY <2>4, <2>8
<1> QED BY <1>0, <1>2, <1>3, <1>4, <1>5, <1>6, <1>7, <1>8, <1>9, <1>10, Instruction

\* Where the code does not go on, nothing is said of the adapter.
LEMMA ExitStep ==
  ASSUME IInv, Exit
  PROVE  IInv'
<1>1. Counted'
  BY FlushStep, Amounts DEF Exit, IInv
<1>2. TypeOK'
  BY DEF IInv, Exit, TypeOK, adapter, machine, NoUse, stamps
<1>3. uninitCounter' <= 0 /\ missed' = missed /\ falls' = FALSE /\ known' = known
  BY DEF IInv, Exit, adapter, NoUse, stamps
<1>4. LocalsNumbered' <=> LocalsNumbered
  BY DEF Exit, adapter, machine, LocalsNumbered, LocalPairs
<1> QED BY <1>1, <1>2, <1>3, <1>4 DEF IInv

LEMMA SwitchStep ==
  ASSUME IInv, Switch
  PROVE  IInv'
<1>0. TypeOK /\ jstack \in Seq(Values) /\ Len(jstack) \in Nat /\ 1 <= Len(jstack)
  BY Typed DEF IInv, Switch, Has, TypeOK, Values
<1>1. jstack' = pop(jstack, 1)
  BY <1>0 DEF Switch, Below, pop
<1>2. jstack' \in Seq(Values)
  BY <1>0, <1>1, PopFacts
<1>3. TypeOK'
  BY <1>0, <1>2 DEF Switch, TypeOK, adapter, NoUse, stamps, Values
<1>4. Counted'
  BY DEF IInv, Counted, Switch
<1>5. uninitCounter' <= 0 /\ missed' = missed /\ falls' = FALSE /\ known' = known
  BY DEF IInv, Switch, adapter, NoUse, stamps
<1>6. LocalsNumbered' <=> LocalsNumbered
  BY DEF Switch, adapter, LocalsNumbered, LocalPairs
<1> QED BY <1>3, <1>4, <1>5, <1>6 DEF IInv

\* Where nothing but the counts changes, what was right stays right.
LEMMA NothingMoves ==
  ASSUME UNCHANGED <<adapter, machine, stamps, falls, known>>
  PROVE  /\ Numbered' <=> Numbered
         /\ StampsRight' <=> StampsRight
         /\ LocalsNumbered' <=> LocalsNumbered
         /\ missed' = missed /\ uninitCounter' = uninitCounter
<1>1. /\ UNCHANGED <<locals, stack, stamped, vnCounter, uninitCounter>>
      /\ UNCHANGED <<jlocals, jstack, self, raw>>
      /\ UNCHANGED <<covered, excused, missed, falls, known>>
  BY DEF adapter, machine, stamps
<1>2. Pairs' = Pairs /\ StackPairs' = StackPairs /\ LocalPairs' = LocalPairs
  BY <1>1 DEF Pairs, StackPairs, LocalPairs, Val
<1>3. Numbered' <=> Numbered
  BY <1>1, <1>2 DEF Numbered, Aligned, PrimsPlain, NumbersKnown, OneValue, OneNumber
<1>4. StampsRight' <=> StampsRight
  BY <1>1, <1>2 DEF StampsRight, Constructed
<1>5. LocalsNumbered' <=> LocalsNumbered
  BY <1>1, <1>2 DEF LocalsNumbered
<1> QED BY <1>1, <1>3, <1>4, <1>5

LEMMA LabelStep ==
  ASSUME IInv, Label
  PROVE  IInv'
<1>1. Counted'
  BY FlushStep, Amounts DEF Label, IInv
<1>2. TypeOK'
  BY DEF IInv, Label, TypeOK, adapter, machine, NoUse, stamps, GoesOn
<1>3. UNCHANGED <<adapter, machine, stamps, falls, known>>
  BY DEF Label, NoUse, GoesOn
<1> QED BY <1>1, <1>2, <1>3, NothingMoves DEF IInv

-----------------------------------------------------------------------------
(* New objects, and calls.                                                 *)

LEMMA One ==
  \A v \in Values, n \in Int :
    /\ <<v>> \in Seq(Values) /\ Len(<<v>>) = 1 /\ <<n>> \in Seq(Int) /\ Len(<<n>>) = 1
    /\ Zip(<<n>>, <<v>>) = {<<n, v>>}
<1> SUFFICES ASSUME NEW v \in Values, NEW n \in Int
             PROVE  /\ <<v>> \in Seq(Values) /\ Len(<<v>>) = 1 /\ <<n>> \in Seq(Int) /\ Len(<<n>>) = 1
                    /\ Zip(<<n>>, <<v>>) = {<<n, v>>}
  OBVIOUS
<1>1. <<v>> \in Seq(Values) /\ Len(<<v>>) = 1 /\ <<n>> \in Seq(Int) /\ Len(<<n>>) = 1
  OBVIOUS
<1>2. 1 .. Len(<<v>>) = {1} /\ <<v>>[1] = v /\ <<n>>[1] = n
  BY <1>1
<1>3. Zip(<<n>>, <<v>>) = {<<n, v>>}
  BY <1>2 DEF Zip
<1> QED BY <1>1, <1>3

LEMMA NewStep ==
  ASSUME IInv, NEW o \in Objects, New(o)
  PROVE  IInv'
<1> DEFINE vn == uninitCounter - 1
           N == {<<vn, o>>}
<1>0. /\ TypeOK /\ Counted /\ NoLocals /\ GoesOn /\ raw \subseteq Objects /\ falls
      /\ stamped' = stamped /\ vnCounter' = vnCounter /\ uninitCounter' = vn
      /\ o \notin Live /\ raw' = (raw \cap Live) \cup {o} /\ Initializes({o})
      /\ Pushes(0, <<vn>>, <<o>>)
  BY Basics DEF New, Pushes
<1>1. vn \in Int /\ vn < 0 /\ uninitCounter \in Int /\ vnCounter \in Nat /\ o \in Values
  BY DEF IInv, TypeOK, Values
<1>2. StackTypes
  BY <1>0, <1>1, One, PushTypes DEF StackTypes
<1>3. CounterSteps /\ stamped' \subseteq Nat \ {0} /\ raw' \subseteq Objects
  BY <1>0 DEF CounterSteps, TypeOK
<1>4. Counted'
  BY <1>0, CountStep, Amounts DEF New
<1>5. StampTypes
  BY <1>0, UseTypes
<1>6. NewPairs(N)
  BY <1>0 DEF NewPairs
<1>8. Numbered => Len(jstack') <= Len(stack') /\ StackPairs' \subseteq StackPairs \cup N
  BY <1>0, <1>1, One, PushPairs DEF Numbered
<1>9. SameRaw
  BY <1>0, PairTypes DEF SameRaw
<1>7. ASSUME known = "values", Numbered, StampsRight, missed = {}
      PROVE  StampsRight' /\ missed' = {}
  <2>1. StackPairs' \subseteq StackPairs \cup N
    BY <1>7, <1>8
  <2>2. SameRaw
    BY <1>9
  <2>3. missed' = {} /\ Safe \subseteq Safe'
    BY <1>0, <1>7, ClassInitialized
  <2>4. Pairs' \subseteq Pairs \cup N
    BY <2>1, <1>0, LocalsKept DEF Pairs
  <2>5. nowStamped({}) /\ vnCounter' \in Nat /\ vnCounter' >= vnCounter
    BY <1>0, <1>1 DEF nowStamped
  <2>6. \A q \in N : q[1] < 0
    BY <1>1
  <2>7. StampsRight'
    <3> HIDE DEF N, vn
    <3> QED BY <1>0, <1>3, <1>7, <2>2, <2>3, <2>4, <2>5, <2>6, KeepStamps
  <2> QED BY <2>3, <2>7
<1> HIDE DEF N, vn
<1> QED BY <1>0, <1>2, <1>3, <1>4, <1>5, <1>6, <1>7, <1>8, <1>9, Instruction

LEMMA NewArrayStep ==
  ASSUME IInv, NEW dims \in 1 .. 2, NEW o \in Objects, NewArray(dims, o)
  PROVE  IInv'
<1> DEFINE vn == vnCounter + 1
           N == {<<vn, o>>}
<1>0. /\ TypeOK /\ Counted /\ NoLocals /\ GoesOn /\ raw \subseteq Objects /\ falls
      /\ nowStamped({vn}) /\ vnCounter' = vn /\ uninitCounter' = uninitCounter
      /\ o \notin Live /\ raw' = raw \ {o} /\ covered' = covered \cup {o}
      /\ excused' = excused /\ missed' = missed
      /\ Pushes(dims, <<vn>>, <<o>>) /\ dims \in Nat /\ Prim \notin Objects
  BY Basics, RewriterAssumption DEF NewArray, Pushes, NewVn
<1>1. /\ vn \in Nat /\ vn > 0 /\ vn > vnCounter /\ uninitCounter \in Int /\ vnCounter \in Nat
      /\ o \in Values
  BY DEF IInv, TypeOK, Values
<1>2. StackTypes
  <2> HIDE DEF vn
  <2>1. <<vn>> \in Seq(Int) /\ <<o>> \in Seq(Values)
    BY <1>1, One
  <2> QED BY <1>0, <2>1, PushTypes DEF StackTypes
<1>3. CounterSteps /\ raw' \subseteq Objects
  BY <1>0 DEF CounterSteps
<1>4. stamped' \subseteq Nat \ {0}
  <2>1. {k \in {vn} : k > 0} \subseteq Nat \ {0}
    BY <1>1
  <2>2. stamped \subseteq Nat \ {0} /\ stamped' = stamped \cup {k \in {vn} : k > 0}
    BY <1>0 DEF nowStamped, TypeOK
  <2> QED BY <2>1, <2>2
<1>5. Counted'
  BY <1>0, CountStep, Amounts DEF NewArray
<1>6. StampTypes
  BY <1>0 DEF StampTypes, TypeOK
<1>7. NewPairs(N)
  BY <1>0 DEF NewPairs
<1>9. ASSUME Numbered
      PROVE  Len(jstack') <= Len(stack') /\ StackPairs' \subseteq StackPairs \cup N
  <2> HIDE DEF vn
  <2>1. /\ <<vn>> \in Seq(Int) /\ <<o>> \in Seq(Values) /\ Len(<<vn>>) = Len(<<o>>)
        /\ Zip(<<vn>>, <<o>>) = N
    BY <1>1, One
  <2>2. Aligned
    BY <1>9 DEF Numbered
  <2> HIDE DEF N
  <2> QED BY <1>0, <2>1, <2>2, PushPairs
<1>10. SameRaw
  BY <1>0, PairTypes DEF SameRaw
<1>8. ASSUME known = "values", Numbered, StampsRight, missed = {}
      PROVE  StampsRight' /\ missed' = {}
  <2>1. StackPairs' \subseteq StackPairs \cup N
    BY <1>8, <1>9
  <2>2. SameRaw
    BY <1>10
  <2>3. Safe \subseteq Safe' /\ o \in Safe'
    BY <1>0 DEF Safe
  <2>4. Pairs' \subseteq Pairs \cup N
    BY <2>1, <1>0, LocalsKept DEF Pairs
  <2>5. \A p \in Pairs : p[1] # vn
    BY <1>0, <1>1, <1>8, PairTypes DEF Numbered, NumbersKnown
  <2>6. \A k \in {vn} : k \in Int /\ k <= vnCounter' /\ Covers(k)
    BY <1>0, <1>1, <2>5 DEF Covers
  <2>7. \A q \in N : q[1] \in Int /\ q[1] > vnCounter /\ q[2] \in Safe'
    BY <1>1, <2>3
  <2>8. vnCounter' \in Nat /\ vnCounter' >= vnCounter
    BY <1>0, <1>1
  <2>9. StampsRight'
    <3> HIDE DEF N, vn
    <3> QED BY <1>0, <1>3, <1>8, <2>2, <2>3, <2>4, <2>6, <2>7, <2>8, KeepStamps
  <2> QED BY <2>9, <1>0, <1>8
<1> HIDE DEF N, vn
<1> QED BY <1>0, <1>2, <1>3, <1>4, <1>5, <1>6, <1>7, <1>8, <1>9, <1>10, Instruction

\* what a call leaves on the stack
Results == {<<>>, <<Prim, Prim>>} \cup {<<v>> : v \in Refs}

LEMMA CallStep ==
  ASSUME IInv, NEW popped \in Nat, NEW results \in Results, Call(popped, results),
         UNCHANGED <<locals, jlocals, raw>>
  PROVE  IInv'
<1> DEFINE prim == results = <<>> \/ results[1] = Prim
           vn == vnCounter + 1
           vns == IF prim THEN Same(Len(results)) ELSE <<vn>>
           N == Zip(vns, results)
<1>0. /\ TypeOK /\ Counted /\ NoLocals /\ GoesOn /\ raw \subseteq Objects /\ falls
      /\ raw' = raw /\ vnCounter' = vn /\ uninitCounter' = uninitCounter
      /\ stamped' = (IF prim THEN {} ELSE {vn})
      /\ covered' = {results[i] : i \in DOMAIN results} \cap Objects
      /\ excused' = {} /\ missed' = missed
      /\ Pushes(popped, vns, results) /\ Prim \notin raw
  BY Basics DEF Call, Pushes, NewVn, NoLocals
<1>1. vn \in Nat /\ vn > 0 /\ vn > vnCounter /\ uninitCounter \in Int /\ vnCounter \in Nat
  BY DEF IInv, TypeOK
<1>2. /\ vns \in Seq(Int) /\ results \in Seq(Values) /\ Len(vns) = Len(results)
      /\ \A q \in N : IF prim THEN q[1] = 0 /\ q[2] = Prim
                      ELSE q[1] = vn /\ q[2] \in Refs /\ q[2] \in {results[i] : i \in DOMAIN results}
      /\ ~prim => \E v \in Refs : N = {<<vn, v>>}
  <2>1. CASE results = <<>>
    <3>1. prim /\ vns = <<>> /\ Len(results) = 0
      BY <2>1 DEF Same
    <3>2. N = {}
      BY <3>1, <2>1 DEF Zip
    <3> HIDE DEF N, vns
    <3> QED BY <2>1, <3>1, <3>2
  <2>2. CASE results = <<Prim, Prim>>
    <3>1. prim /\ results = Prims(2) /\ Len(results) = 2
      BY <2>2 DEF Prims
    <3>2. vns \in Seq(Int) /\ Len(vns) = 2 /\ \A k \in 1 .. 2 : vns[k] = 0
      BY <3>1 DEF Same
    <3>3. \A k \in 1 .. 2 : results[k] = Prim
      BY <2>2
    <3> HIDE DEF vns
    <3>4. \A q \in N : q[1] = 0 /\ q[2] = Prim
      BY <3>1, <3>2, <3>3 DEF Zip
    <3>5. <<Prim, Prim>> \in Seq(Values)
      BY DEF Values
    <3> HIDE DEF N
    <3> QED BY <2>2, <3>1, <3>2, <3>4, <3>5
  <2>3. CASE \E v \in Refs : results = <<v>>
    <3>1. PICK v \in Refs : results = <<v>>
      BY <2>3
    <3>2. v \in Values /\ v # Prim
      BY Basics
    <3>3. ~prim /\ vns = <<vn>>
      BY <3>1, <3>2
    <3> HIDE DEF vns, vn
    <3>4. N = {<<vn, v>>} /\ vns \in Seq(Int) /\ results \in Seq(Values) /\ Len(vns) = Len(results)
      BY <1>1, <3>1, <3>2, <3>3, One
    <3>5. v \in {results[i] : i \in DOMAIN results}
      BY <3>1
    <3> HIDE DEF N
    <3> QED BY <3>3, <3>4, <3>5
  <2> QED BY <2>1, <2>2, <2>3 DEF Results
<1> HIDE DEF vns, N
<1>3. StackTypes
  BY <1>0, <1>2, PushTypes DEF StackTypes
<1>4. CounterSteps /\ raw' \subseteq Objects /\ stamped' \subseteq Nat \ {0}
  BY <1>0, <1>1 DEF CounterSteps
<1>5. Counted'
  BY <1>0, FlushStep, Amounts DEF Call
<1>6. StampTypes
  BY <1>0 DEF StampTypes, TypeOK
<1>7. NewPairs(N)
  <2>1. \A v \in Refs : v \notin raw' /\ v # Prim
    BY <1>0, Basics
  <2>2. CASE prim
    BY <1>0, <1>2, <2>2 DEF NewPairs
  <2>3. CASE ~prim
    BY <1>0, <1>2, <2>1, <2>3 DEF NewPairs
  <2> QED BY <2>2, <2>3
<1>9. Numbered => Len(jstack') <= Len(stack') /\ StackPairs' \subseteq StackPairs \cup N
  BY <1>0, <1>2, PushPairs DEF Numbered, N
<1>10. SameRaw
  BY <1>0 DEF SameRaw
<1>8. ASSUME known = "values", Numbered, StampsRight, missed = {}
      PROVE  StampsRight' /\ missed' = {}
  <2>1. StackPairs' \subseteq StackPairs \cup N
    BY <1>8, <1>9
  <2>3. Pairs' \subseteq Pairs \cup N
    BY <2>1, <1>0, LocalsKept DEF Pairs
  <2>4. \A p \in Pairs : p[1] # vn
    BY <1>0, <1>1, <1>8, PairTypes DEF Numbered, NumbersKnown
  <2>5. ASSUME NEW p \in Pairs', p[1] \in stamped', p[2] \in Constructed' PROVE p[2] \in covered'
    <3>1. ~prim /\ p[1] = vn
      BY <1>0, <2>5
    <3>2. p \in N
      BY <2>3, <2>4, <3>1
    <3> QED BY <1>0, <1>2, <2>5, <3>1, <3>2 DEF Constructed
  <2>6. \A k \in stamped' : k <= vnCounter'
    BY <1>0, <1>1
  <2>7. StampsRight'
    BY <2>5, <2>6 DEF StampsRight
  <2> QED BY <2>7, <1>0, <1>8
<1> HIDE DEF vn, prim
<1> QED BY <1>0, <1>3, <1>4, <1>5, <1>6, <1>7, <1>8, <1>9, <1>10, Instruction

-----------------------------------------------------------------------------
(* The local variables.                                                    *)

\* set changes one place.
LEMMA SetFacts ==
  ASSUME NEW s \in Seq(Int), NEW i \in Nat, NEW vn \in Int
  PROVE  /\ set(s, i, vn) \in Seq(Int) /\ Len(set(s, i, vn)) = Len(s)
         /\ \A k \in Nat : get(set(s, i, vn), k) = IF k = i /\ i < Len(s) THEN vn ELSE get(s, k)
<1>1. CASE i < Len(s)
  <2>1. set(s, i, vn) = [s EXCEPT ![i + 1] = vn] /\ i + 1 \in 1 .. Len(s)
    BY <1>1 DEF set
  <2>2. set(s, i, vn) \in Seq(Int) /\ Len(set(s, i, vn)) = Len(s)
    BY <2>1
  <2>3. \A k \in 1 .. Len(s) : set(s, i, vn)[k] = IF k = i + 1 THEN vn ELSE s[k]
    BY <2>1
  <2>4. ASSUME NEW k \in Nat
        PROVE  get(set(s, i, vn), k) = IF k = i /\ i < Len(s) THEN vn ELSE get(s, k)
    <3>1. CASE k < Len(s)
      <4>1. k + 1 \in 1 .. Len(s)
        BY <3>1
      <4>2. get(set(s, i, vn), k) = set(s, i, vn)[k + 1] /\ get(s, k) = s[k + 1]
        BY <2>2, <3>1 DEF get
      <4>3. k + 1 = i + 1 <=> k = i
        OBVIOUS
      <4> QED BY <1>1, <2>3, <4>1, <4>2, <4>3
    <3>2. CASE ~(k < Len(s))
      BY <1>1, <2>2, <3>2 DEF get
    <3> QED BY <3>1, <3>2
  <2> QED BY <2>2, <2>4
<1>2. CASE ~(i < Len(s))
  BY <1>2 DEF set
<1> QED BY <1>1, <1>2

\* An instruction that draws no number and stamps nothing.
LEMMA VarStep ==
  ASSUME IInv, falls, GoesOn, NoVn, NoUse, raw' = raw, self' = self, stamped' = stamped, Counted',
         locals' \in Seq(Int), Len(locals') = Len(locals),
         jlocals' \in Seq(Values), Len(jlocals') = Len(jlocals), StackTypes,
         NEW N, \A q \in N : q[1] = 0 /\ q[2] \notin raw,
         Numbered => Len(jstack') <= Len(stack') /\ PrimsPlain' /\ Pairs' \subseteq Pairs \cup N
  PROVE  IInv'
<1>0. TypeOK /\ raw \subseteq Objects
  BY Basics
<1>1. TypeOK'
  BY <1>0 DEF TypeOK, GoesOn, NoVn, NoUse, stamps, StackTypes, Values
<1>2. uninitCounter' <= 0
  BY DEF IInv, NoVn
<1>3. ASSUME known # "nothing" PROVE Numbered' /\ Pairs' \subseteq Pairs \cup N
  <2>1. Numbered /\ uninitCounter <= 0 /\ vnCounter \in Nat /\ known' = known
    BY <1>0, <1>3 DEF IInv, TypeOK, GoesOn
  <2>2. Len(jstack') <= Len(stack') /\ PrimsPlain' /\ Pairs' \subseteq Pairs \cup N
    BY <2>1
  <2>3. SameRaw /\ raw' \subseteq Objects
    BY <1>0 DEF SameRaw
  <2>5. Aligned'
    BY <2>1, <2>2 DEF Aligned, Numbered
  <2>6. NewPairs(N)
    BY DEF NewPairs
  <2>7. vnCounter' = vnCounter /\ uninitCounter' = uninitCounter
    BY DEF NoVn
  <2>8. Numbered'
    BY <1>0, <2>1, <2>2, <2>3, <2>5, <2>6, <2>7, KeepNumbered
  <2> QED BY <2>2, <2>8
<1>4. ASSUME known = "values" PROVE missed' = {} /\ StampsRight'
  <2>1. StampsRight /\ missed = {} /\ Pairs' \subseteq Pairs \cup N /\ vnCounter' = vnCounter
    BY <1>3, <1>4 DEF IInv, NoVn
  <2>2. missed' = {} /\ Safe \subseteq Safe'
    BY <2>1, NotUsed
  <2>3. ASSUME NEW p \in Pairs', p[1] \in stamped', p[2] \in Constructed' PROVE p[2] \in Safe'
    <3>1. p[1] # 0 /\ p[1] \in stamped
      BY <1>0, <2>3 DEF TypeOK
    <3>2. p \in Pairs /\ p[2] \in Constructed
      BY <2>1, <2>3, <3>1 DEF Constructed
    <3> QED BY <2>1, <2>2, <3>1, <3>2 DEF StampsRight, Safe
  <2> QED BY <2>1, <2>2, <2>3 DEF StampsRight, Safe
<1> QED BY <1>1, <1>2, <1>3, <1>4, LocalsToo DEF IInv, GoesOn

LEMMA ALoadStep ==
  ASSUME IInv, NEW i \in 0 .. Len(jlocals) - 1, ALoad(i)
  PROVE  IInv'
<1> DEFINE n == get(locals, i)
           v == jlocals[i + 1]
<1>0. /\ TypeOK /\ Counted /\ falls /\ GoesOn /\ NoVn /\ NoUse /\ NoLocals /\ raw' = raw
      /\ stamped' = stamped /\ v # Prim /\ Pushes(0, <<n>>, <<v>>)
  BY Basics DEF ALoad, Pushes
<1>1. n \in Int /\ v \in Values /\ i + 1 \in DOMAIN jlocals /\ i + 1 - 1 = i
  <2>1. i + 1 \in 1 .. Len(jlocals) /\ i \in Nat /\ i + 1 - 1 = i
    <3>1. Len(jlocals) \in Nat
      BY <1>0, Typed
    <3> QED BY <3>1
  <2>2. DOMAIN jlocals = 1 .. Len(jlocals)
    BY <1>0 DEF TypeOK
  <2> QED BY <1>0, <2>1, <2>2, Typed
<1>2. <<n, v>> \in LocalPairs
  BY <1>1 DEF LocalPairs
<1> HIDE DEF n, v
<1>3. StackTypes
  BY <1>0, <1>1, One, PushTypes DEF StackTypes
<1>4. Counted'
  BY <1>0, CountStep, Amounts DEF ALoad
<1>5. ASSUME Numbered
      PROVE  Len(jstack') <= Len(stack') /\ PrimsPlain' /\ Pairs' \subseteq Pairs \cup {<<0, Prim>>}
  <2>1. Len(jstack') <= Len(stack') /\ StackPairs' \subseteq StackPairs \cup {<<n, v>>}
    BY <1>0, <1>1, <1>5, One, PushPairs DEF Numbered
  <2>2. \A p \in StackPairs' : p[2] = Prim => p[1] = 0
    BY <1>0, <1>5, <2>1 DEF Numbered, PrimsPlain
  <2>3. Pairs' \subseteq Pairs
    BY <1>0, <1>2, <2>1, LocalsKept DEF Pairs
  <2> QED BY <2>1, <2>2, <2>3 DEF PrimsPlain
<1>6. locals' = locals /\ jlocals' = jlocals /\ self' = self /\ locals \in Seq(Int) /\ jlocals \in Seq(Values)
  BY <1>0 DEF NoLocals, TypeOK, Values
<1>7. \A q \in {<<0, Prim>>} : q[1] = 0 /\ q[2] \notin raw
  BY Basics
<1>8. /\ locals' \in Seq(Int) /\ Len(locals') = Len(locals)
      /\ jlocals' \in Seq(Values) /\ Len(jlocals') = Len(jlocals)
  BY <1>6
<1> DEFINE N == {<<0, Prim>>}
<1>9. \A q \in N : q[1] = 0 /\ q[2] \notin raw
  BY <1>7
<1>10. Numbered => Len(jstack') <= Len(stack') /\ PrimsPlain' /\ Pairs' \subseteq Pairs \cup N
  BY <1>5
<1> HIDE DEF N
<1> QED BY <1>0, <1>3, <1>4, <1>6, <1>8, <1>9, <1>10, VarStep

\* A store: the operands are popped, and the variables in the set stored get value.
LEMMA StoreStep ==
  ASSUME IInv, GoesOn, NoVn, NoUse, raw' = raw, self' = self, stamped' = stamped, Counted',
         NEW n \in Nat, Pushes(n, <<>>, <<>>),
         locals' \in Seq(Int), Len(locals') = Len(locals),
         jlocals' \in Seq(Values), Len(jlocals') = Len(jlocals),
         NEW value, value \notin raw,
         Numbered =>
           \A k \in 1 .. Len(jlocals) :
             LET p == <<get(locals', k - 1), jlocals'[k]>>
             IN  p \in LocalPairs \/ p \in StackPairs \/ p = <<0, value>>
  PROVE  IInv'
<1> DEFINE N == {<<0, value>>}
<1>0. TypeOK /\ falls
  BY Basics DEF Pushes
<1>1. <<>> \in Seq(Int) /\ <<>> \in Seq(Values) /\ Zip(<<>>, <<>>) = {}
  BY DEF Zip
<1>2. StackTypes
  BY <1>0, <1>1, PushTypes DEF StackTypes
<1>3. \A q \in N : q[1] = 0 /\ q[2] \notin raw
  OBVIOUS
<1>4. ASSUME Numbered
      PROVE  Len(jstack') <= Len(stack') /\ PrimsPlain' /\ Pairs' \subseteq Pairs \cup N
  <2>1. Len(jstack') <= Len(stack') /\ StackPairs' \subseteq StackPairs
    BY <1>0, <1>1, <1>4, PushPairs DEF Numbered
  <2>2. PrimsPlain'
    BY <1>4, <2>1 DEF Numbered, PrimsPlain
  <2>3. DOMAIN jlocals' = 1 .. Len(jlocals)
    OBVIOUS
  <2>4. LocalPairs' \subseteq Pairs \cup N
    <3> SUFFICES ASSUME NEW k \in 1 .. Len(jlocals)
                 PROVE  <<get(locals', k - 1), jlocals'[k]>> \in Pairs \cup N
      BY <2>3 DEF LocalPairs
    <3> QED BY <1>4 DEF Pairs
  <2> QED BY <2>1, <2>2, <2>4 DEF Pairs
<1> HIDE DEF N
<1> QED BY <1>0, <1>2, <1>3, <1>4, VarStep

\* What the variables hold that are not stored to.
LEMMA OtherVariable ==
  ASSUME TypeOK, NEW k \in 1 .. Len(jlocals)
  PROVE  <<get(locals, k - 1), jlocals[k]>> \in LocalPairs /\ k - 1 \in Nat
<1>1. DOMAIN jlocals = 1 .. Len(jlocals)
  BY DEF TypeOK
<1>2. k - 1 \in Nat
  OBVIOUS
<1> QED BY <1>1, <1>2 DEF LocalPairs

LEMMA AStoreStep ==
  ASSUME IInv, NEW i \in 0 .. Len(jlocals) - 1, AStore(i)
  PROVE  IInv'
<1> DEFINE v == Val(0)
<1>0. /\ TypeOK /\ Counted /\ falls /\ GoesOn /\ NoVn /\ NoUse /\ raw' = raw /\ self' = self
      /\ stamped' = stamped /\ Pushes(1, <<>>, <<>>) /\ v \in Refs /\ v \in Values /\ v \notin raw
      /\ locals' = set(locals, i, top(stack, 0)) /\ jlocals' = [jlocals EXCEPT ![i + 1] = v]
  BY Basics DEF AStore, Pushes
<1>1. /\ 0 \in 0 .. Len(jstack) - 1 /\ top(stack, 0) \in Int /\ i \in Nat /\ i + 1 \in 1 .. Len(jlocals)
      /\ locals \in Seq(Int) /\ jlocals \in Seq(Values)
  BY <1>0, Typed DEF AStore, Has, TypeOK, Values
<1>2. /\ locals' \in Seq(Int) /\ Len(locals') = Len(locals)
      /\ \A k \in Nat : get(locals', k) = IF k = i /\ i < Len(locals) THEN top(stack, 0) ELSE get(locals, k)
  BY <1>0, <1>1, SetFacts
<1> HIDE DEF v
<1>3. /\ jlocals' \in Seq(Values) /\ Len(jlocals') = Len(jlocals)
      /\ \A k \in 1 .. Len(jlocals) : jlocals'[k] = IF k = i + 1 THEN v ELSE jlocals[k]
  BY <1>0, <1>1
<1>4. Counted'
  BY <1>0, CountStep, Amounts DEF AStore
<1>5. ASSUME NEW k \in 1 .. Len(jlocals), Numbered
      PROVE  LET p == <<get(locals', k - 1), jlocals'[k]>>
             IN  p \in LocalPairs \/ p \in StackPairs \/ p = <<0, v>>
  <2>1. <<get(locals, k - 1), jlocals[k]>> \in LocalPairs /\ k - 1 \in Nat
    BY <1>0, OtherVariable
  <2>2. CASE k # i + 1
    <3>1. k - 1 # i
      BY <2>2, <1>1
    <3> QED BY <2>1, <2>2, <3>1, <1>2, <1>3
  <2>3. CASE k = i + 1
    <3>1. k - 1 = i /\ jlocals'[k] = v
      BY <2>3, <1>1, <1>3
    <3>2. <<top(stack, 0), v>> \in StackPairs
      BY <1>0, <1>1, Place DEF v
    <3>3. CASE i < Len(locals)
      BY <1>1, <1>2, <3>1, <3>2, <3>3
    <3>4. CASE ~(i < Len(locals))
      <4>1. get(locals', i) = 0
        BY <1>1, <1>2, <3>4 DEF get
      <4> QED BY <3>1, <4>1
    <3> QED BY <3>3, <3>4
  <2> QED BY <2>2, <2>3
<1> QED BY <1>0, <1>2, <1>3, <1>4, <1>5, StoreStep

LEMMA StorePrimVarStep ==
  ASSUME IInv, NEW i \in 0 .. Len(jlocals) - 1, StorePrimVar(i)
  PROVE  IInv'
<1>0. /\ TypeOK /\ Counted /\ falls /\ GoesOn /\ NoVn /\ NoUse /\ raw' = raw /\ self' = self
      /\ stamped' = stamped /\ Pushes(1, <<>>, <<>>) /\ Prim \in Values /\ Prim \notin raw
      /\ locals' = set(locals, i, 0) /\ jlocals' = [jlocals EXCEPT ![i + 1] = Prim]
  BY Basics DEF StorePrimVar, Pushes, Values
<1>1. i \in Nat /\ i + 1 \in 1 .. Len(jlocals) /\ locals \in Seq(Int) /\ jlocals \in Seq(Values)
  BY <1>0, Typed DEF TypeOK, Values
<1>2. /\ locals' \in Seq(Int) /\ Len(locals') = Len(locals)
      /\ \A k \in Nat : get(locals', k) = IF k = i /\ i < Len(locals) THEN 0 ELSE get(locals, k)
  BY <1>0, <1>1, SetFacts
<1>3. /\ jlocals' \in Seq(Values) /\ Len(jlocals') = Len(jlocals)
      /\ \A k \in 1 .. Len(jlocals) : jlocals'[k] = IF k = i + 1 THEN Prim ELSE jlocals[k]
  BY <1>0, <1>1
<1>4. Counted'
  BY <1>0, CountStep, Amounts DEF StorePrimVar
<1>5. ASSUME NEW k \in 1 .. Len(jlocals), Numbered
      PROVE  LET p == <<get(locals', k - 1), jlocals'[k]>>
             IN  p \in LocalPairs \/ p \in StackPairs \/ p = <<0, Prim>>
  <2>1. <<get(locals, k - 1), jlocals[k]>> \in LocalPairs /\ k - 1 \in Nat
    BY <1>0, OtherVariable
  <2>2. CASE k # i + 1
    <3>1. k - 1 # i
      BY <2>2, <1>1
    <3> QED BY <2>1, <2>2, <3>1, <1>2, <1>3
  <2>3. CASE k = i + 1
    <3>1. k - 1 = i /\ jlocals'[k] = Prim
      BY <2>3, <1>1, <1>3
    <3>2. get(locals', i) = 0
      BY <1>1, <1>2 DEF get
    <3> QED BY <3>1, <3>2
  <2> QED BY <2>2, <2>3
<1> QED BY <1>0, <1>2, <1>3, <1>4, <1>5, StoreStep

LEMMA StoreWideVarStep ==
  ASSUME IInv, NEW i \in 0 .. Len(jlocals) - 1, StoreWideVar(i)
  PROVE  IInv'
<1> DEFINE mid == set(locals, i, 0)
<1>0. /\ TypeOK /\ Counted /\ falls /\ GoesOn /\ NoVn /\ NoUse /\ raw' = raw /\ self' = self
      /\ stamped' = stamped /\ Pushes(2, <<>>, <<>>) /\ Prim \in Values /\ Prim \notin raw
      /\ locals' = set(mid, i + 1, 0) /\ i + 2 <= Len(jlocals)
      /\ jlocals' = [jlocals EXCEPT ![i + 1] = Prim, ![i + 2] = Prim]
  BY Basics DEF StoreWideVar, Pushes, Values
<1>1. /\ i \in Nat /\ i + 1 \in Nat /\ i + 1 \in 1 .. Len(jlocals) /\ i + 2 \in 1 .. Len(jlocals)
      /\ locals \in Seq(Int) /\ jlocals \in Seq(Values)
  BY <1>0, Typed DEF TypeOK, Values
<1>2. /\ mid \in Seq(Int) /\ Len(mid) = Len(locals)
      /\ \A k \in Nat : get(mid, k) = IF k = i /\ i < Len(locals) THEN 0 ELSE get(locals, k)
  BY <1>1, SetFacts
<1> HIDE DEF mid
<1>3. /\ locals' \in Seq(Int) /\ Len(locals') = Len(locals)
      /\ \A k \in Nat : get(locals', k) = IF k = i + 1 /\ i + 1 < Len(mid) THEN 0 ELSE get(mid, k)
  <2>1. /\ set(mid, i + 1, 0) \in Seq(Int) /\ Len(set(mid, i + 1, 0)) = Len(mid)
        /\ \A k \in Nat : get(set(mid, i + 1, 0), k) = IF k = i + 1 /\ i + 1 < Len(mid) THEN 0 ELSE get(mid, k)
    BY <1>1, <1>2, SetFacts
  <2> QED BY <1>0, <1>2, <2>1
<1>4. /\ jlocals' \in Seq(Values) /\ Len(jlocals') = Len(jlocals)
      /\ \A k \in 1 .. Len(jlocals) : jlocals'[k] = IF k = i + 1 \/ k = i + 2 THEN Prim ELSE jlocals[k]
  BY <1>0, <1>1
<1>5. Counted'
  BY <1>0, CountStep, Amounts DEF StoreWideVar
<1>6. ASSUME NEW k \in 1 .. Len(jlocals), Numbered
      PROVE  LET p == <<get(locals', k - 1), jlocals'[k]>>
             IN  p \in LocalPairs \/ p \in StackPairs \/ p = <<0, Prim>>
  <2>1. <<get(locals, k - 1), jlocals[k]>> \in LocalPairs /\ k - 1 \in Nat
    BY <1>0, OtherVariable
  <2>2. CASE k # i + 1 /\ k # i + 2
    <3>1. k - 1 # i /\ k - 1 # i + 1
      BY <2>2, <1>1
    <3>2. get(locals', k - 1) = get(locals, k - 1) /\ jlocals'[k] = jlocals[k]
      BY <2>1, <2>2, <3>1, <1>2, <1>3, <1>4
    <3> QED BY <2>1, <3>2
  <2>3. CASE k = i + 1 \/ k = i + 2
    <3>1. (k - 1 = i \/ k - 1 = i + 1) /\ jlocals'[k] = Prim
      BY <2>3, <1>1, <1>4
    <3>2. get(locals', i) = 0
      BY <1>1, <1>2, <1>3 DEF get
    <3>3. get(locals', i + 1) = 0
      BY <1>1, <1>2, <1>3 DEF get
    <3> QED BY <3>1, <3>2, <3>3
  <2> QED BY <2>2, <2>3
<1> QED BY <1>0, <1>3, <1>4, <1>5, <1>6, StoreStep

-----------------------------------------------------------------------------
(* The call of a constructor.                                              *)

\* what foundInit makes of the number x
Renumbered(vn, x) == IF vn < 0 /\ x = vn THEN vnCounter + 1 ELSE x

\* foundInit on the adapter's stacks.
LEMMA InitStacks ==
  ASSUME TypeOK, NEW n \in 0 .. 1, InvokeInit(n), n + 1 <= Len(stack)
  PROVE  LET vn == top(stack, n)
         IN  /\ top(pop(stack, n), 0) = vn /\ vn \in Int
             /\ locals' \in Seq(Int) /\ Len(locals') = Len(locals)
             /\ \A i \in 1 .. Len(locals) : locals'[i] = Renumbered(vn, locals[i])
             /\ stack' \in Seq(Int) /\ Len(stack') = Len(stack) - (n + 1)
             /\ \A i \in 1 .. Len(stack') : stack'[i] = Renumbered(vn, stack[i])
<1> DEFINE s == pop(stack, n)
           vn == top(s, 0)
           t == IF vn < 0 THEN renumber(s, vn, vnCounter + 1) ELSE s
<1>1. /\ Len(stack) \in Nat /\ stack \in Seq(Int) /\ locals \in Seq(Int) /\ Len(locals) \in Nat
      /\ n \in Nat /\ vnCounter + 1 \in Int
  BY Typed DEF TypeOK
<1>2. s \in Seq(Int) /\ Len(s) = Len(stack) - n /\ \A i \in 1 .. Len(s) : s[i] = stack[i]
  <2>1. /\ s \in Seq(Int) /\ Len(s) = (IF Len(stack) >= n THEN Len(stack) - n ELSE 0)
        /\ \A i \in 1 .. Len(s) : s[i] = stack[i]
    BY <1>1, PopFacts
  <2>2. Len(stack) >= n
    BY <1>1
  <2> QED BY <2>1, <2>2
<1>3. stack' = pop(t, 1) /\ locals' = IF vn < 0 THEN renumber(locals, vn, vnCounter + 1) ELSE locals
  BY DEF InvokeInit
<1> HIDE DEF s
<1>4. vn = top(stack, n) /\ vn \in Int
  <2>1. 0 < Len(s) /\ Len(s) - 0 = Len(stack) - n /\ Len(stack) - n \in 1 .. Len(s)
    BY <1>1, <1>2
  <2>4. vn = s[Len(s) - 0]
    BY <2>1 DEF top
  <2>6. Len(stack) - n \in 1 .. Len(stack)
    BY <1>1
  <2>7. s[Len(s) - 0] = stack[Len(stack) - n]
    BY <1>2, <2>1
  <2>5. s[Len(s) - 0] = stack[Len(stack) - n] /\ Len(stack) - n \in 1 .. Len(stack)
    BY <2>6, <2>7
  <2>2. vn = stack[Len(stack) - n] /\ vn \in Int
    BY <1>1, <2>4, <2>5
  <2>3. top(stack, n) = stack[Len(stack) - n]
    BY <1>1 DEF top
  <2> QED BY <2>2, <2>3
<1> HIDE DEF vn
<1>5. \A u \in Seq(Int) : LET r == IF vn < 0 THEN renumber(u, vn, vnCounter + 1) ELSE u
                          IN  /\ r \in Seq(Int) /\ Len(r) = Len(u)
                              /\ \A i \in 1 .. Len(u) : r[i] = Renumbered(vn, u[i])
  <2> SUFFICES ASSUME NEW u \in Seq(Int)
               PROVE  LET r == IF vn < 0 THEN renumber(u, vn, vnCounter + 1) ELSE u
                      IN  /\ r \in Seq(Int) /\ Len(r) = Len(u)
                          /\ \A i \in 1 .. Len(u) : r[i] = Renumbered(vn, u[i])
    OBVIOUS
  <2>1. CASE vn < 0
    <3> DEFINE r == renumber(u, vn, vnCounter + 1)
    <3>1. r = [i \in 1 .. Len(u) |-> IF u[i] = vn THEN vnCounter + 1 ELSE u[i]]
      BY DEF renumber
    <3>2. \A i \in 1 .. Len(u) : (IF u[i] = vn THEN vnCounter + 1 ELSE u[i]) \in Int
      BY <1>1
    <3>3. r \in Seq(Int) /\ Len(r) = Len(u)
      BY <3>1, <3>2
    <3>4. \A i \in 1 .. Len(u) : r[i] = Renumbered(vn, u[i])
      BY <2>1, <3>1 DEF Renumbered
    <3> QED BY <2>1, <3>3, <3>4
  <2>2. CASE ~(vn < 0)
    BY <2>2 DEF Renumbered
  <2> QED BY <2>1, <2>2
<1>6. /\ locals' \in Seq(Int) /\ Len(locals') = Len(locals)
      /\ \A i \in 1 .. Len(locals) : locals'[i] = Renumbered(vn, locals[i])
  BY <1>1, <1>3, <1>5
<1>7. t \in Seq(Int) /\ Len(t) = Len(s) /\ \A i \in 1 .. Len(s) : t[i] = Renumbered(vn, s[i])
  BY <1>2, <1>5
<1> HIDE DEF t
<1>8. /\ stack' \in Seq(Int) /\ Len(stack') = Len(s) - 1
      /\ \A i \in 1 .. Len(stack') : stack'[i] = t[i]
  <2>1. 1 \in Nat /\ Len(t) >= 1
    BY <1>1, <1>2, <1>7
  <2> QED BY <1>3, <1>7, <2>1, PopFacts
<1>9. /\ Len(stack') = Len(stack) - (n + 1)
      /\ \A i \in 1 .. Len(stack') : stack'[i] = Renumbered(vn, stack[i])
  <2>1. Len(stack') = Len(stack) - (n + 1) /\ Len(stack') <= Len(s)
    BY <1>1, <1>2, <1>8
  <2>2. ASSUME NEW i \in 1 .. Len(stack') PROVE stack'[i] = Renumbered(vn, stack[i])
    <3>1. i \in 1 .. Len(s)
      BY <2>1, <1>1, <1>2
    <3> QED BY <1>2, <1>7, <1>8, <3>1
  <2> QED BY <2>1, <2>2
<1> QED BY <1>4, <1>6, <1>8, <1>9 DEF vn, s

\* The types do not depend on how high the adapter's stack is.
LEMMA InitTypes ==
  ASSUME TypeOK, NEW n \in 0 .. 1, InvokeInit(n)
  PROVE  locals' \in Seq(Int) /\ StackTypes
<1> DEFINE s == pop(stack, n)
           vn == top(s, 0)
           t == IF vn < 0 THEN renumber(s, vn, vnCounter + 1) ELSE s
<1>1. /\ stack \in Seq(Int) /\ locals \in Seq(Int) /\ jstack \in Seq(Values)
      /\ n \in Nat /\ n + 1 \in Nat /\ vnCounter + 1 \in Int /\ Len(jstack) \in Nat
  <2>1. Len(jstack) \in Nat
    BY Typed
  <2> QED BY <2>1 DEF TypeOK, Values
<1>2. s \in Seq(Int)
  BY <1>1, PopFacts
<1>3. /\ stack' = pop(t, 1) /\ locals' = IF vn < 0 THEN renumber(locals, vn, vnCounter + 1) ELSE locals
      /\ n + 1 <= Len(jstack) /\ jstack' = SubSeq(jstack, 1, Len(jstack) - (n + 1))
  BY DEF InvokeInit, Has, Below
<1> HIDE DEF s, vn
<1>4. ASSUME NEW u \in Seq(Int) PROVE renumber(u, vn, vnCounter + 1) \in Seq(Int)
  <2>1. renumber(u, vn, vnCounter + 1) = [i \in 1 .. Len(u) |-> IF u[i] = vn THEN vnCounter + 1 ELSE u[i]]
    BY DEF renumber
  <2>2. \A i \in 1 .. Len(u) : (IF u[i] = vn THEN vnCounter + 1 ELSE u[i]) \in Int
    BY <1>1
  <2> QED BY <2>1, <2>2
<1>5. locals' \in Seq(Int) /\ t \in Seq(Int)
  BY <1>1, <1>2, <1>3, <1>4
<1> HIDE DEF t
<1>6. stack' \in Seq(Int)
  BY <1>3, <1>5, PopFacts
<1>7. jstack' = pop(jstack, n + 1)
  BY <1>1, <1>3 DEF pop
<1>8. jstack' \in Seq(Values)
  BY <1>1, <1>7, PopFacts
<1> QED BY <1>5, <1>6, <1>8 DEF StackTypes

LEMMA InvokeInitStep ==
  ASSUME IInv, NEW n \in 0 .. 1, InvokeInit(n)
  PROVE  IInv'
<1> DEFINE vn == top(stack, n)
           ren(x) == Renumbered(vn, x)
<1>0. /\ TypeOK /\ Counted /\ falls /\ GoesOn /\ raw \subseteq Objects /\ Val(n) \in raw
      /\ raw' = raw \ {Val(n)} /\ vnCounter' = vnCounter + 1 /\ uninitCounter' = uninitCounter
      /\ stamped' = {} /\ covered' = {} /\ excused' = {} /\ missed' = missed /\ jlocals' = jlocals
      /\ self' = self
      /\ vnCounter \in Nat /\ uninitCounter \in Int
      /\ n + 1 <= Len(jstack) /\ jstack' = SubSeq(jstack, 1, Len(jstack) - (n + 1))
  BY Basics DEF InvokeInit, NewVn, Has, Below, TypeOK
<1>1. Counted'
  BY <1>0, FlushStep, Amounts DEF InvokeInit
<1>2. TypeOK'
  BY <1>0, InitTypes DEF TypeOK, StackTypes, GoesOn, Values
<1>3. uninitCounter' <= 0
  BY <1>0 DEF IInv
<1>4. ASSUME known # "nothing" PROVE Numbered'
  <2>1. /\ Numbered /\ uninitCounter <= 0 /\ Len(jstack) <= Len(stack)
        /\ Len(locals) <= Len(jlocals) /\ known' = known
    BY <1>0, <1>4 DEF IInv, Numbered, Aligned, GoesOn
  <2>22. Len(stack) \in Nat /\ Len(jstack) \in Nat /\ Len(locals) \in Nat /\ Len(jlocals) \in Nat
    BY <1>0, Typed
  <2>2. /\ Len(stack) \in Nat /\ Len(jstack) \in Nat /\ Len(locals) \in Nat /\ Len(jlocals) \in Nat
        /\ n \in 0 .. Len(jstack) - 1 /\ n + 1 <= Len(stack) /\ n \in Nat
    BY <1>0, <2>1, <2>22
  <2>3. <<vn, Val(n)>> \in Pairs /\ vn \in Int
    BY <1>0, <2>2, Place
  <2>4. vn < 0
    BY <1>0, <2>1, <2>3 DEF Numbered, NumbersKnown
  <2>5. /\ Len(locals') = Len(locals)
        /\ \A i \in 1 .. Len(locals) : locals'[i] = ren(locals[i])
        /\ Len(stack') = Len(stack) - (n + 1)
        /\ \A i \in 1 .. Len(stack') : stack'[i] = ren(stack[i])
    BY <1>0, <2>2, InitStacks
  <2> HIDE DEF vn, ren
  <2>6. ren(0) = 0
    BY <2>3, <2>4 DEF Renumbered, ren
  <2>7. /\ Len(jstack') = Len(jstack) - (n + 1)
        /\ \A i \in 1 .. Len(jstack') : jstack'[i] = jstack[i]
    <3>1. jstack' = pop(jstack, n + 1) /\ n + 1 \in Nat /\ Len(jstack) >= n + 1
      BY <1>0, <2>2 DEF pop
    <3>2. jstack \in Seq(Values)
      BY <1>0 DEF TypeOK, Values
    <3> QED BY <3>1, <3>2, PopFacts
  <2>8. Aligned'
    BY <1>0, <2>1, <2>2, <2>5, <2>7 DEF Aligned
  <2>9. ASSUME NEW p \in StackPairs'
        PROVE  \E q \in StackPairs : p[1] = ren(q[1]) /\ p[2] = q[2]
    <3>1. PICK i \in 0 .. Len(jstack') - 1 : p = <<top(stack', i), jstack'[Len(jstack') - i]>>
      BY DEF StackPairs, Val
    <3> DEFINE k == i + n + 1
    <3>2. /\ k \in 0 .. Len(jstack) - 1 /\ k < Len(stack) /\ i < Len(stack')
          /\ Len(stack') - i \in 1 .. Len(stack') /\ Len(stack') - i = Len(stack) - k
          /\ Len(jstack') - i \in 1 .. Len(jstack') /\ Len(jstack') - i = Len(jstack) - k
      <4>1. i \in Nat /\ i < Len(jstack) - (n + 1) /\ k = i + n + 1
        BY <2>2, <2>7
      <4> HIDE DEF k
      <4>2. k \in 0 .. Len(jstack) - 1 /\ k < Len(stack) /\ i < Len(stack) - (n + 1)
        BY <2>1, <2>2, <4>1
      <4>3. /\ Len(stack) - (n + 1) - i \in 1 .. Len(stack) - (n + 1)
            /\ Len(stack) - (n + 1) - i = Len(stack) - k
        BY <2>2, <4>1, <4>2
      <4>4. /\ Len(jstack) - (n + 1) - i \in 1 .. Len(jstack) - (n + 1)
            /\ Len(jstack) - (n + 1) - i = Len(jstack) - k
        BY <2>2, <4>1, <4>2
      <4> QED BY <2>5, <2>7, <4>2, <4>3, <4>4
    <3>3. p[1] = stack'[Len(stack') - i] /\ p[2] = jstack'[Len(jstack') - i]
      BY <3>1, <3>2 DEF top
    <3>4. top(stack, k) = stack[Len(stack) - k] /\ Val(k) = jstack[Len(jstack) - k]
      BY <3>2 DEF top, Val
    <3>5. p[1] = ren(top(stack, k)) /\ p[2] = Val(k)
      BY <2>5, <2>7, <3>2, <3>3, <3>4
    <3>6. <<top(stack, k), Val(k)>> \in StackPairs
      BY <1>0, <3>2, Place
    <3> QED BY <3>5, <3>6
  <2>10. ASSUME NEW p \in LocalPairs'
         PROVE  \E q \in LocalPairs : p[1] = ren(q[1]) /\ p[2] = q[2]
    <3>1. PICK i \in DOMAIN jlocals : p = <<get(locals', i - 1), jlocals[i]>>
      BY <1>0 DEF LocalPairs
    <3>2. <<get(locals, i - 1), jlocals[i]>> \in LocalPairs
      BY DEF LocalPairs
    <3>3. i \in 1 .. Len(jlocals)
      BY <1>0 DEF TypeOK
    <3>4. get(locals', i - 1) = ren(get(locals, i - 1))
      <4>1. CASE i - 1 < Len(locals)
        <5>1. i \in 1 .. Len(locals) /\ i - 1 + 1 = i
          BY <4>1, <3>3, <2>2
        <5> QED BY <4>1, <5>1, <2>5 DEF get
      <4>2. CASE ~(i - 1 < Len(locals))
        BY <4>2, <2>5, <2>6 DEF get
      <4> QED BY <4>1, <4>2
    <3> QED BY <3>1, <3>2, <3>4
  <2>11. ASSUME NEW p \in Pairs'
         PROVE  \E q \in Pairs : p[1] = ren(q[1]) /\ p[2] = q[2]
    BY <2>9, <2>10 DEF Pairs
  <2>12. ASSUME NEW q \in Pairs
         PROVE  /\ q[1] \in Int /\ uninitCounter <= q[1] /\ q[1] <= vnCounter
                /\ q[1] < 0 <=> q[2] \in raw
                /\ q[1] = vn <=> q[2] = Val(n)
                /\ q[1] = vn => ren(q[1]) = vnCounter + 1
                /\ q[1] # vn => ren(q[1]) = q[1]
    <3>1. q[1] \in Int /\ uninitCounter <= q[1] /\ q[1] <= vnCounter /\ (q[1] < 0 <=> q[2] \in raw)
      BY <1>0, <2>1, PairTypes DEF Numbered, NumbersKnown
    <3>2. q[1] = vn => q[2] = Val(n)
      <4> DEFINE r == <<vn, Val(n)>>
      <4>1. r \in Pairs /\ r[1] = vn /\ r[2] = Val(n)
        BY <2>3
      <4> HIDE DEF r
      <4> QED BY <2>1, <2>4, <4>1 DEF Numbered, OneValue
    <3>3. q[2] = Val(n) => q[1] = vn
      <4> DEFINE r == <<vn, Val(n)>>
      <4>1. r \in Pairs /\ r[1] = vn /\ r[2] = Val(n)
        BY <2>3
      <4> HIDE DEF r
      <4> QED BY <1>0, <2>1, <4>1 DEF Numbered, OneNumber
    <3> QED BY <2>4, <3>1, <3>2, <3>3 DEF ren, Renumbered
  <2>13. PrimsPlain'
    <3> SUFFICES ASSUME NEW p \in StackPairs', p[2] = Prim PROVE p[1] = 0
      BY DEF PrimsPlain
    <3>1. PICK q \in StackPairs : p[1] = ren(q[1]) /\ p[2] = q[2]
      BY <2>9
    <3>2. q[1] = 0
      BY <2>1, <3>1 DEF Numbered, PrimsPlain
    <3> QED BY <2>6, <3>1, <3>2
  <2>14. NumbersKnown'
    <3> SUFFICES ASSUME NEW p \in Pairs'
                 PROVE  uninitCounter' <= p[1] /\ p[1] <= vnCounter' /\ (p[1] < 0 <=> p[2] \in raw')
      BY DEF NumbersKnown
    <3>1. PICK q \in Pairs : p[1] = ren(q[1]) /\ p[2] = q[2]
      BY <2>11
    <3>2. CASE q[1] = vn
      BY <1>0, <2>1, <2>12, <3>1, <3>2
    <3>3. CASE q[1] # vn
      BY <1>0, <2>12, <3>1, <3>3
    <3> QED BY <3>2, <3>3
  <2>15. ASSUME NEW p \in Pairs', NEW r \in Pairs'
         PROVE  /\ p[1] = r[1] /\ p[1] # 0 /\ (known = "values" \/ p[1] < 0) => p[2] = r[2]
                /\ p[2] = r[2] /\ p[2] \in raw' => p[1] = r[1]
    <3>1. PICK q \in Pairs : p[1] = ren(q[1]) /\ p[2] = q[2]
      BY <2>11
    <3>2. PICK u \in Pairs : r[1] = ren(u[1]) /\ r[2] = u[2]
      BY <2>11
    <3>3. q[1] = u[1] /\ q[1] # 0 /\ (known = "values" \/ q[1] < 0) => q[2] = u[2]
      BY <2>1 DEF Numbered, OneValue
    <3>4. q[2] = u[2] /\ q[2] \in raw => q[1] = u[1]
      BY <2>1 DEF Numbered, OneNumber
    <3>5. ASSUME p[1] = r[1] PROVE q[1] = u[1]
      <4>1. /\ q[1] \in Int /\ q[1] <= vnCounter /\ (q[1] = vn => p[1] = vnCounter + 1)
            /\ (q[1] # vn => p[1] = q[1])
        BY <2>12, <3>1
      <4>2. /\ u[1] \in Int /\ u[1] <= vnCounter /\ (u[1] = vn => r[1] = vnCounter + 1)
            /\ (u[1] # vn => r[1] = u[1])
        BY <2>12, <3>2
      <4>3. CASE q[1] = vn /\ u[1] = vn
        BY <4>3
      <4>4. CASE q[1] = vn /\ u[1] # vn
        BY <1>0, <3>5, <4>1, <4>2, <4>4
      <4>5. CASE q[1] # vn /\ u[1] = vn
        BY <1>0, <3>5, <4>1, <4>2, <4>5
      <4>6. CASE q[1] # vn /\ u[1] # vn
        BY <3>5, <4>1, <4>2, <4>6
      <4> QED BY <4>3, <4>4, <4>5, <4>6
    <3>6. q[1] = 0 => p[1] = 0
      BY <2>6, <3>1
    <3>9. p[1] < 0 => q[1] < 0
      BY <1>0, <2>4, <2>12, <3>1
    <3>7. p[1] = r[1] /\ p[1] # 0 /\ (known = "values" \/ p[1] < 0) => p[2] = r[2]
      BY <3>1, <3>2, <3>3, <3>5, <3>6, <3>9
    <3>8. p[2] = r[2] /\ p[2] \in raw' => p[1] = r[1]
      BY <1>0, <3>1, <3>2, <3>4
    <3> QED BY <3>7, <3>8
  <2>16. Numbered'
    BY <2>1, <2>8, <2>13, <2>14, <2>15 DEF Numbered, OneValue, OneNumber
  <2> QED BY <2>16
<1>5. StampsRight'
  BY <1>0 DEF StampsRight
<1> QED BY <1>0, <1>1, <1>2, <1>3, <1>4, <1>5, LocalsToo DEF IInv, GoesOn

-----------------------------------------------------------------------------
(* Frames.                                                                 *)

\* The first place of a value is the same place whichever copy one starts from.
First(values, v) ==
  CHOOSE j \in DOMAIN values : values[j] = v /\ \A k \in 1 .. j - 1 : values[k] # v

\* There is such a place.
LEMMA FirstPlace ==
  ASSUME NEW values \in Seq(Values), NEW i \in 1 .. Len(values)
  PROVE  First(values, values[i]) \in 1 .. Len(values) /\ values[First(values, values[i])] = values[i]
<1> DEFINE T == {j \in 1 .. Len(values) : values[j] = values[i]}
<1>1. T \in SUBSET Nat /\ T # {}
  OBVIOUS
<1>2. PICK m \in T : \A n \in T : m <= n
  BY <1>1, LeastNat
<1>3. m \in DOMAIN values /\ values[m] = values[i]
  BY <1>2
<1>4. ASSUME NEW k \in 1 .. m - 1 PROVE values[k] # values[i]
  <2>1. m \in 1 .. Len(values) /\ Len(values) \in Nat
    BY <1>2
  <2>2. k \in 1 .. Len(values) /\ ~(m <= k)
    BY <2>1
  <2>3. k \notin T
    BY <1>2, <2>2
  <2> QED BY <2>2, <2>3
<1>5. \E j \in DOMAIN values : values[j] = values[i] /\ \A k \in 1 .. j - 1 : values[k] # values[i]
  BY <1>3, <1>4
<1>6. First(values, values[i]) \in DOMAIN values /\ values[First(values, values[i])] = values[i]
  BY <1>5 DEF First
<1> QED BY <1>6

\* What a frame gives one place.
LEMMA FrameNumber ==
  ASSUME NEW values \in Seq(Values), NEW R \in SUBSET Objects, NEW i \in 1 .. Len(values)
  PROVE  LET f == FrameVn(values, R, i)
             v == values[i]
         IN  /\ v = Prim => f = 0
             /\ v \in R /\ v = self => f = -1
             /\ v \in R /\ v # self => f = -1 - First(values, v)
             /\ v \notin R /\ v # Prim => f = i
             /\ f \in Int /\ -1 - Len(values) <= f /\ f <= Len(values)
             /\ f < 0 <=> v \in R
<1> DEFINE f == FrameVn(values, R, i)
           v == values[i]
<1>1. First(values, v) \in 1 .. Len(values) /\ Len(values) \in Nat /\ i \in Int
  BY FirstPlace
<1>2. f = IF v = Prim THEN 0 ELSE IF v \notin R THEN i ELSE IF v = self THEN -1 ELSE -1 - First(values, v)
  BY DEF FrameVn, First
<1>3. Prim \notin R
  BY RewriterAssumption
<1> HIDE DEF f, v
<1>4. CASE v = Prim
  BY <1>1, <1>2, <1>3, <1>4 DEF f, v
<1>5. CASE v # Prim /\ v \notin R
  BY <1>1, <1>2, <1>5 DEF f, v
<1>6. CASE v # Prim /\ v \in R /\ v = self
  BY <1>1, <1>2, <1>6 DEF f, v
<1>7. CASE v # Prim /\ v \in R /\ v # self
  BY <1>1, <1>2, <1>7 DEF f, v
<1> QED BY <1>4, <1>5, <1>6, <1>7

\* Two places of a frame.
LEMMA FrameNumbers ==
  ASSUME NEW values \in Seq(Values), NEW R \in SUBSET Objects,
         NEW i \in 1 .. Len(values), NEW j \in 1 .. Len(values)
  PROVE  LET f == FrameVn(values, R, i)
             g == FrameVn(values, R, j)
         IN  /\ f = g /\ f # 0 => values[i] = values[j]
             /\ values[i] = values[j] /\ values[i] \in R => f = g
<1> DEFINE f == FrameVn(values, R, i)
           g == FrameVn(values, R, j)
<1>1. values[i] = values[j] /\ values[i] \in R => f = g
  BY FrameNumber
<1>2. ASSUME f = g, f > 0 PROVE values[i] = values[j]
  <2>1. values[i] \notin R /\ values[i] # Prim
    BY <1>2, FrameNumber
  <2>2. values[j] \notin R /\ values[j] # Prim
    BY <1>2, FrameNumber
  <2>3. f = i /\ g = j
    BY <2>1, <2>2, FrameNumber
  <2> QED BY <1>2, <2>3
<1>3. ASSUME f = g, f < 0 PROVE values[i] = values[j]
  <2>1. values[i] \in R /\ values[j] \in R
    BY <1>3, FrameNumber
  <2>2. /\ First(values, values[i]) \in 1 .. Len(values) /\ values[First(values, values[i])] = values[i]
        /\ First(values, values[j]) \in 1 .. Len(values) /\ values[First(values, values[j])] = values[j]
    BY FirstPlace
  <2>3. /\ values[i] = self => f = -1
        /\ values[i] # self => f = -1 - First(values, values[i])
        /\ values[j] = self => g = -1
        /\ values[j] # self => g = -1 - First(values, values[j])
    BY <2>1, FrameNumber
  <2>4. CASE values[i] = self /\ values[j] = self
    BY <2>4
  <2>5. CASE values[i] = self /\ values[j] # self
    <3>1. -1 # -1 - First(values, values[j])
      BY <2>2
    <3> QED BY <1>3, <2>3, <2>5, <3>1
  <2>6. CASE values[i] # self /\ values[j] = self
    <3>1. -1 # -1 - First(values, values[i])
      BY <2>2
    <3> QED BY <1>3, <2>3, <2>6, <3>1
  <2>7. CASE values[i] # self /\ values[j] # self
    <3>1. -1 - First(values, values[i]) = -1 - First(values, values[j])
      BY <1>3, <2>3, <2>7
    <3>2. First(values, values[i]) = First(values, values[j])
      BY <2>2, <3>1
    <3> QED BY <2>2, <3>2
  <2> QED BY <2>4, <2>5, <2>6, <2>7
<1>4. f \in Int
  BY FrameNumber
<1> HIDE DEF f, g
<1>5. f # 0 => f > 0 \/ f < 0
  BY <1>4
<1> QED BY <1>1, <1>2, <1>3, <1>5 DEF f, g

\* The numbers a frame gives are right, whatever the adapter had before.
LEMMA FrameRight ==
  ASSUME TypeOK, frames, visitFrame, jlocals' \in Seq(Values), Len(jlocals') = Len(jlocals),
         jstack' \in Seq(Values), self' = self, raw' = raw
  PROVE  /\ locals' \in Seq(Int) /\ stack' \in Seq(Int) /\ vnCounter' \in Nat /\ uninitCounter' \in Int
         /\ uninitCounter' <= 0 /\ stamped' = {} /\ Numbered' /\ StampsRight'
<1> DEFINE values == jlocals' \o jstack'
           l == Len(jlocals)
           k == Len(jstack')
           f(i) == FrameVn(values, raw, i)
<1>1. /\ values \in Seq(Values) /\ Len(values) = l + k /\ l \in Nat /\ k \in Nat
      /\ raw \in SUBSET Objects
      /\ \A i \in 1 .. l : values[i] = jlocals'[i]
      /\ \A i \in 1 .. k : values[l + i] = jstack'[i]
  <2>1. l \in Nat /\ k \in Nat /\ raw \in SUBSET Objects /\ Len(jlocals') = l
    BY DEF TypeOK
  <2>2. /\ values \in Seq(Values) /\ Len(values) = Len(jlocals') + Len(jstack')
        /\ \A i \in 1 .. Len(jlocals') : values[i] = jlocals'[i]
        /\ \A i \in 1 .. Len(jstack') : values[Len(jlocals') + i] = jstack'[i]
    <3>1. JoinedAs(jlocals', jstack', Values)
      BY JoinedValues
    <3>2. /\ values \in Seq(Values) /\ Len(values) = Len(jlocals') + Len(jstack')
          /\ \A i \in 1 .. Len(jlocals') + Len(jstack') :
               values[i] = IF i <= Len(jlocals') THEN jlocals'[i] ELSE jstack'[i - Len(jlocals')]
      BY <3>1 DEF JoinedAs
    <3> HIDE DEF values
    <3>3. Len(jlocals') \in Nat /\ Len(jstack') \in Nat
      BY <2>1
    <3>4. \A i \in 1 .. Len(jlocals') : i \in 1 .. Len(jlocals') + Len(jstack') /\ i <= Len(jlocals')
      BY <3>3
    <3>5. ASSUME NEW i \in 1 .. Len(jstack') PROVE values[Len(jlocals') + i] = jstack'[i]
      <4>1. /\ Len(jlocals') + i \in 1 .. Len(jlocals') + Len(jstack') /\ ~(Len(jlocals') + i <= Len(jlocals'))
            /\ Len(jlocals') + i - Len(jlocals') = i
        BY <3>3
      <4> QED BY <3>2, <4>1
    <3> QED BY <3>2, <3>4, <3>5
  <2> QED BY <2>1, <2>2
<1>2. /\ locals' = [i \in 1 .. l |-> f(i)] /\ stack' = [i \in 1 .. k |-> f(l + i)]
      /\ vnCounter' = Len(values) /\ uninitCounter' = -1 - Len(values) /\ stamped' = {}
  BY DEF visitFrame
<1> HIDE DEF values, l, k
<1>3. \A i \in 1 .. l + k : /\ f(i) \in Int /\ -1 - (l + k) <= f(i) /\ f(i) <= l + k
                            /\ f(i) < 0 <=> values[i] \in raw
                            /\ values[i] = Prim => f(i) = 0
  BY <1>1, FrameNumber
<1>4. \A i, j \in 1 .. l + k : /\ f(i) = f(j) /\ f(i) # 0 => values[i] = values[j]
                               /\ values[i] = values[j] /\ values[i] \in raw => f(i) = f(j)
  <2> SUFFICES ASSUME NEW i \in 1 .. l + k, NEW j \in 1 .. l + k
               PROVE  /\ f(i) = f(j) /\ f(i) # 0 => values[i] = values[j]
                      /\ values[i] = values[j] /\ values[i] \in raw => f(i) = f(j)
    OBVIOUS
  <2>1. i \in 1 .. Len(values) /\ j \in 1 .. Len(values)
    BY <1>1
  <2> QED BY <1>1, <2>1, FrameNumbers
<1> HIDE DEF f
<1>5. /\ locals' \in Seq(Int) /\ stack' \in Seq(Int) /\ Len(locals') = l /\ Len(stack') = k
      /\ vnCounter' = l + k /\ uninitCounter' = -1 - (l + k)
  <2>1. \A i \in 1 .. l : i \in 1 .. l + k
    BY <1>1
  <2>2. \A i \in 1 .. k : l + i \in 1 .. l + k
    BY <1>1
  <2>3. \A i \in 1 .. l : f(i) \in Int
    BY <1>3, <2>1
  <2>4. \A i \in 1 .. k : f(l + i) \in Int
    BY <1>3, <2>2
  <2>5. locals' \in [1 .. l -> Int] /\ stack' \in [1 .. k -> Int]
    BY <1>2, <2>3, <2>4
  <2>6. locals' \in Seq(Int) /\ Len(locals') = l
    BY <1>1, <2>5
  <2>7. stack' \in Seq(Int) /\ Len(stack') = k
    BY <1>1, <2>5
  <2> QED BY <1>1, <1>2, <2>6, <2>7
<1>6. ASSUME NEW p \in StackPairs' PROVE \E i \in 1 .. l + k : p = <<f(i), values[i]>>
  <2>1. PICK i \in 0 .. k - 1 : p = <<top(stack', i), jstack'[k - i]>>
    BY DEF StackPairs, Val, k
  <2>2. k - i \in 1 .. k /\ l + (k - i) \in 1 .. l + k /\ i < k
    BY <1>1
  <2>3. top(stack', i) = stack'[k - i]
    BY <1>5, <2>2 DEF top
  <2>4. stack'[k - i] = f(l + (k - i)) /\ jstack'[k - i] = values[l + (k - i)]
    BY <1>1, <1>2, <2>2
  <2> QED BY <2>1, <2>2, <2>3, <2>4
<1>7. ASSUME NEW p \in LocalPairs' PROVE \E i \in 1 .. l + k : p = <<f(i), values[i]>>
  <2>1. PICK i \in DOMAIN jlocals' : p = <<get(locals', i - 1), jlocals'[i]>>
    BY DEF LocalPairs
  <2>2. i \in 1 .. l
    BY <2>1 DEF l
  <2>3. i - 1 < l /\ i - 1 + 1 = i /\ i \in 1 .. l + k
    BY <1>1, <2>2
  <2>4. get(locals', i - 1) = f(i)
    BY <1>2, <1>5, <2>2, <2>3 DEF get
  <2> QED BY <1>1, <2>1, <2>2, <2>3, <2>4
<1>8. ASSUME NEW p \in Pairs' PROVE \E i \in 1 .. l + k : p[1] = f(i) /\ p[2] = values[i]
  <2>1. PICK i \in 1 .. l + k : p = <<f(i), values[i]>>
    BY <1>6, <1>7 DEF Pairs
  <2> QED BY <2>1
<1>9. Aligned'
  BY <1>1, <1>5 DEF Aligned, k, l
<1>10. PrimsPlain'
  <2> SUFFICES ASSUME NEW p \in StackPairs', p[2] = Prim PROVE p[1] = 0
    BY DEF PrimsPlain
  <2>1. PICK i \in 1 .. l + k : p = <<f(i), values[i]>>
    BY <1>6
  <2>2. p[1] = f(i) /\ p[2] = values[i]
    BY <2>1
  <2> QED BY <1>3, <2>2
<1>11. NumbersKnown'
  <2> SUFFICES ASSUME NEW p \in Pairs'
               PROVE  uninitCounter' <= p[1] /\ p[1] <= vnCounter' /\ (p[1] < 0 <=> p[2] \in raw')
    BY DEF NumbersKnown
  <2>1. PICK i \in 1 .. l + k : p[1] = f(i) /\ p[2] = values[i]
    BY <1>8
  <2> QED BY <1>3, <1>5, <2>1
<1>12. OneValue' /\ OneNumber'
  <2>1. ASSUME NEW p \in Pairs', NEW q \in Pairs'
        PROVE  /\ p[1] = q[1] /\ p[1] # 0 => p[2] = q[2]
               /\ p[2] = q[2] /\ p[2] \in raw' => p[1] = q[1]
    <3>1. PICK i \in 1 .. l + k : p[1] = f(i) /\ p[2] = values[i]
      BY <1>8
    <3>2. PICK j \in 1 .. l + k : q[1] = f(j) /\ q[2] = values[j]
      BY <1>8
    <3> QED BY <1>4, <3>1, <3>2
  <2> QED BY <2>1 DEF OneValue, OneNumber
<1>13. StampsRight'
  BY <1>2 DEF StampsRight
<1>14. uninitCounter' <= 0 /\ vnCounter' \in Nat /\ uninitCounter' \in Int
  BY <1>1, <1>5
<1> QED BY <1>2, <1>5, <1>9, <1>10, <1>11, <1>12, <1>13, <1>14 DEF Numbered

\* After a frame the invariant holds.
LEMMA FrameStep ==
  ASSUME IInv, frames, visitFrame, jlocals' \in Seq(Values), Len(jlocals') = Len(jlocals),
         jstack' \in Seq(Values), self' = self, raw' = raw, missed' = missed, known' = known,
         covered' \subseteq Objects, excused' \subseteq Objects, falls' = TRUE, Counted'
  PROVE  IInv'
<1>0. TypeOK /\ missed \subseteq Objects /\ raw \subseteq Objects /\ self \in Objects \cup {Null}
  BY DEF IInv, TypeOK
<1>1. /\ locals' \in Seq(Int) /\ stack' \in Seq(Int) /\ vnCounter' \in Nat /\ uninitCounter' \in Int
      /\ uninitCounter' <= 0 /\ stamped' = {} /\ Numbered' /\ StampsRight'
  BY <1>0, FrameRight
<1>2. Len(jlocals') >= 1
  BY <1>0 DEF TypeOK
<1>3. TypeOK'
  BY <1>0, <1>1, <1>2 DEF TypeOK, Values
<1> QED BY <1>1, <1>3, LocalsToo DEF IInv

\* Without one the types stay what they are.
LEMMA NoFrame ==
  ASSUME TypeOK, ~frames, visitFrame, jlocals' \in Seq(Values), Len(jlocals') = Len(jlocals),
         jstack' \in Seq(Values), self' = self, raw' = raw, missed' = missed,
         known' \in {"values", "kinds", "nothing"},
         covered' \subseteq Objects, excused' \subseteq Objects, falls' = TRUE
  PROVE  TypeOK' /\ UNCHANGED <<locals, stack, stamped, vnCounter, uninitCounter>>
<1>1. UNCHANGED <<locals, stack, stamped, vnCounter, uninitCounter>>
  BY DEF visitFrame, adapter
<1>2. Len(jlocals') >= 1
  BY DEF TypeOK
<1> QED BY <1>1, <1>2 DEF TypeOK, Values

LEMMA FallInStep ==
  ASSUME IInv, FallIn
  PROVE  IInv'
<1>0. TypeOK /\ Counted /\ known \in {"values", "kinds", "nothing"}
  BY DEF IInv, TypeOK
<1>1. /\ falls /\ jlocals' = jlocals /\ jstack' = jstack /\ self' = self /\ raw' = raw
      /\ missed' = missed /\ covered' = covered /\ excused' = excused /\ visitFrame /\ falls' = TRUE
      /\ known' = known
  BY <1>0 DEF FallIn, machine, NoUse, stamps, GoesOn, TypeOK
<1>2. Counted'
  BY <1>0, <1>1, FlushStep, Amounts DEF FallIn
<1>3. /\ jlocals' \in Seq(Values) /\ jstack' \in Seq(Values) /\ Len(jlocals') = Len(jlocals)
      /\ covered' \subseteq Objects /\ excused' \subseteq Objects
  BY <1>0, <1>1 DEF TypeOK, Values
<1>4. CASE frames
  BY <1>0, <1>1, <1>2, <1>3, <1>4, FrameStep
<1>5. CASE ~frames
  <2>1. TypeOK'
    BY <1>0, <1>1, <1>3, <1>5, NoFrame
  <2>2. UNCHANGED <<adapter, machine, stamps, falls, known>>
    BY <1>5 DEF FallIn, visitFrame, NoUse, GoesOn
  <2> QED BY <1>2, <2>1, <2>2, NothingMoves DEF IInv
<1> QED BY <1>4, <1>5

\* The locals a jump brings are as many as before.
LEMMA Arriving ==
  ASSUME TypeOK, ArrivingLocals
  PROVE  jlocals' \in Seq(Values) /\ Len(jlocals') = Len(jlocals)
<1>1. jlocals' \in [1 .. Len(jlocals) -> Values] /\ Len(jlocals) \in Nat
  <2>1. Len(jlocals) \in Nat
    BY Typed
  <2> QED BY <2>1 DEF TypeOK, ArrivingLocals, Values
<1> QED BY <1>1

\* The pairs of Q are those of P, where values in S have come for values in S.
Exchanged(P, Q, S) ==
  \A q \in Q : \E p \in P : p[1] = q[1] /\ IF p[2] \in S THEN q[2] \in S ELSE q[2] = p[2]

\* Pairs whose constructed objects were exchanged keep the kinds right.
LEMMA KindsStay ==
  ASSUME NEW P, NEW Q, NEW R, NEW lo, NEW hi, NEW k, NEW S, S \cap R = {},
         Right(P, R, lo, hi, k), Exchanged(P, Q, S)
  PROVE  Right(Q, R, lo, hi, "kinds")
<1>1. ASSUME NEW q \in Q
      PROVE  \E p \in P : /\ p[1] = q[1] /\ lo <= p[1] /\ p[1] <= hi
                          /\ p[1] < 0 <=> p[2] \in R
                          /\ q[2] \in R <=> p[2] \in R
                          /\ p[2] \in R => q[2] = p[2]
  BY DEF Right, Exchanged
<1>2. \A q \in Q : lo <= q[1] /\ q[1] <= hi /\ (q[1] < 0 <=> q[2] \in R)
  BY <1>1
<1>3. ASSUME NEW q \in Q, NEW u \in Q
      PROVE  /\ q[1] = u[1] /\ q[1] # 0 /\ q[1] < 0 => q[2] = u[2]
             /\ q[2] = u[2] /\ q[2] \in R => q[1] = u[1]
  <2>1. PICK p \in P : /\ p[1] = q[1] /\ (p[1] < 0 <=> p[2] \in R)
                       /\ q[2] \in R <=> p[2] \in R
                       /\ p[2] \in R => q[2] = p[2]
    BY <1>1
  <2>2. PICK r \in P : /\ r[1] = u[1] /\ (r[1] < 0 <=> r[2] \in R)
                       /\ u[2] \in R <=> r[2] \in R
                       /\ r[2] \in R => u[2] = r[2]
    BY <1>1
  <2>3. /\ p[1] = r[1] /\ p[1] # 0 /\ (k = "values" \/ p[1] < 0) => p[2] = r[2]
        /\ p[2] = r[2] /\ p[2] \in R => p[1] = r[1]
    BY DEF Right
  <2>4. ASSUME q[1] = u[1], q[1] # 0, q[1] < 0 PROVE q[2] = u[2]
    <3>1. p[1] = r[1] /\ p[1] # 0 /\ p[1] < 0 /\ r[1] < 0
      BY <2>1, <2>2, <2>4
    <3>2. p[2] = r[2] /\ p[2] \in R /\ r[2] \in R
      BY <2>1, <2>2, <2>3, <3>1
    <3> QED BY <2>1, <2>2, <3>2
  <2>5. ASSUME q[2] = u[2], q[2] \in R PROVE q[1] = u[1]
    <3>1. p[2] = r[2] /\ p[2] \in R
      BY <2>1, <2>2, <2>5
    <3> QED BY <2>1, <2>2, <2>3, <3>1
  <2> QED BY <2>4, <2>5
<1> QED BY <1>2, <1>3 DEF Right

\* A jump without a frame brings constructed objects and null to places of such, and to no
\* others: k is as many places as there were, or none.
LEMMA ArrivingPairs ==
  ASSUME TypeOK, ArrivingLocals, locals' = locals, stack' = stack,
         \/ jstack' \in [1 .. Len(jstack) -> Values] /\ Arrives(jstack, jstack')
         \/ jstack' = <<>>
  PROVE  Exchanged(LocalPairs, LocalPairs', Refs) /\ Exchanged(StackPairs, StackPairs', Refs)
<1>1. ASSUME NEW q \in LocalPairs'
      PROVE  \E p \in LocalPairs :
               p[1] = q[1] /\ IF p[2] \in Refs THEN q[2] \in Refs ELSE q[2] = p[2]
  <2>1. PICK i \in DOMAIN jlocals' : q = <<get(locals', i - 1), jlocals'[i]>>
    BY DEF LocalPairs
  <2>2. DOMAIN jlocals' = DOMAIN jlocals
    BY DEF ArrivingLocals, Arrives
  <2>3. IF jlocals[i] \in Refs THEN jlocals'[i] \in Refs ELSE jlocals'[i] = jlocals[i]
    BY <2>2 DEF ArrivingLocals, Arrives
  <2> DEFINE p == <<get(locals, i - 1), jlocals[i]>>
  <2>4. p \in LocalPairs
    BY <2>2 DEF LocalPairs
  <2>5. p[1] = q[1] /\ p[2] = jlocals[i] /\ q[2] = jlocals'[i]
    BY <2>1
  <2> HIDE DEF p
  <2> QED BY <2>3, <2>4, <2>5
<1>2. ASSUME NEW q \in StackPairs'
      PROVE  \E p \in StackPairs :
               p[1] = q[1] /\ IF p[2] \in Refs THEN q[2] \in Refs ELSE q[2] = p[2]
  <2>1. PICK i \in 0 .. Len(jstack') - 1 : q = <<top(stack', i), jstack'[Len(jstack') - i]>>
    BY <1>2 DEF StackPairs, Val
  <2>2. jstack' # <<>>
    BY <2>1
  <2>3. Len(jstack') = Len(jstack) /\ Len(jstack) \in Nat /\ Arrives(jstack, jstack')
    BY <2>2, Typed
  <2>4. Len(jstack) - i \in DOMAIN jstack /\ i \in 0 .. Len(jstack) - 1
    BY <2>1, <2>3 DEF TypeOK
  <2>5. IF Val(i) \in Refs THEN jstack'[Len(jstack) - i] \in Refs ELSE jstack'[Len(jstack) - i] = Val(i)
    BY <2>3, <2>4 DEF Arrives, Val
  <2> DEFINE p == <<top(stack, i), Val(i)>>
  <2>6. p \in StackPairs
    BY <2>4, Place
  <2>7. p[1] = q[1] /\ p[2] = Val(i) /\ q[2] = jstack'[Len(jstack) - i]
    BY <2>1, <2>3
  <2> HIDE DEF p
  <2> QED BY <2>5, <2>6, <2>7
<1> QED BY <1>1, <1>2 DEF Exchanged

\* Then the numbers still tell the kinds.
LEMMA JoinKeepsKinds ==
  ASSUME IInv, known # "nothing", known' = "kinds", ArrivingLocals, raw' = raw,
         UNCHANGED <<locals, stack, vnCounter, uninitCounter>>,
         \/ falls /\ jstack' \in [1 .. Len(jstack) -> Values] /\ Arrives(jstack, jstack')
         \/ jstack' = <<>>
  PROVE  LocalsNumbered' /\ Numbered'
<1>0. /\ TypeOK /\ LocalsNumbered /\ (falls => Numbered) /\ Refs \cap raw = {} /\ Prim \notin Refs
      /\ Len(jlocals') = Len(jlocals) /\ Len(stack) \in Nat /\ Len(jstack) \in Nat
  BY Typed, Basics, Arriving DEF IInv
<1>1. Exchanged(LocalPairs, LocalPairs', Refs) /\ Exchanged(StackPairs, StackPairs', Refs)
  BY <1>0, ArrivingPairs
<1>2. CASE jstack' = <<>>
  <2>1. StackPairs' = {} /\ Len(jstack') = 0
    <3>1. 0 .. Len(jstack') - 1 = {}
      BY <1>2
    <3> QED BY <1>2, <3>1 DEF StackPairs
  <2>2. Right(LocalPairs, raw, uninitCounter, vnCounter, known)
    BY <1>0 DEF LocalsNumbered
  <2>3. Right(LocalPairs', raw, uninitCounter, vnCounter, "kinds")
    BY <1>0, <1>1, <2>2, KindsStay
  <2>4. Pairs' = LocalPairs'
    BY <2>1 DEF Pairs
  <2>5. Aligned' /\ PrimsPlain'
    BY <1>0, <2>1 DEF Aligned, PrimsPlain, LocalsNumbered
  <2>6. NumbersKnown' /\ OneValue' /\ OneNumber'
    BY <2>3, <2>4 DEF Right, NumbersKnown, OneValue, OneNumber
  <2> QED BY <2>5, <2>6, LocalsToo DEF Numbered
<1>3. CASE falls /\ jstack' \in [1 .. Len(jstack) -> Values] /\ Arrives(jstack, jstack')
  <2>1. Numbered /\ Right(Pairs, raw, uninitCounter, vnCounter, known)
    BY <1>0, <1>3 DEF Numbered, NumbersKnown, OneValue, OneNumber, Right
  <2>3. Exchanged(Pairs, Pairs', Refs)
    BY <1>1 DEF Pairs, Exchanged
  <2>4. Right(Pairs', raw, uninitCounter, vnCounter, "kinds")
    BY <1>0, <2>1, <2>3, KindsStay
  <2>5. Len(jstack') = Len(jstack)
    BY <1>0, <1>3
  <2>6. Aligned'
    BY <1>0, <2>1, <2>5 DEF Aligned, Numbered
  <2>7. PrimsPlain'
    <3> SUFFICES ASSUME NEW q \in StackPairs', q[2] = Prim PROVE q[1] = 0
      BY DEF PrimsPlain
    <3>1. PICK p \in StackPairs : p[1] = q[1] /\ IF p[2] \in Refs THEN q[2] \in Refs ELSE q[2] = p[2]
      BY <1>1 DEF Exchanged
    <3>2. p[2] = Prim
      BY <1>0, <3>1
    <3> QED BY <2>1, <3>1, <3>2 DEF PrimsPlain, Numbered
  <2>8. NumbersKnown' /\ OneValue' /\ OneNumber'
    BY <2>4 DEF Right, NumbersKnown, OneValue, OneNumber
  <2> QED BY <2>6, <2>7, <2>8, LocalsToo DEF Numbered
<1> QED BY <1>2, <1>3

LEMMA JumpInStep ==
  ASSUME IInv, NEW k \in 0 .. MaxStack, JumpIn(k)
  PROVE  IInv'
<1>0. TypeOK /\ Counted /\ k \in Nat
  BY RewriterAssumption DEF IInv, TypeOK
<1>1. /\ self' = self /\ raw' = raw /\ missed' = missed /\ covered' = {} /\ excused' = {} /\ visitFrame
      /\ falls' = TRUE /\ ArrivingLocals /\ jstack' \in [1 .. k -> Values]
      /\ Joins(falls \/ k = 0) /\ (falls => k = Len(jstack))
      /\ Arrives(SubSeq(jstack, 1, k), jstack')
  BY DEF JumpIn, Values
<1>2. Counted'
  <2>1. owed' = <<0, 0>> /\ counts' = <<0, 0>>
    BY <1>0 DEF JumpIn, Counted
  <2> QED BY <1>1, <2>1 DEF Counted
<1>3. jlocals' \in Seq(Values) /\ Len(jlocals') = Len(jlocals) /\ jstack' \in Seq(Values)
  BY <1>0, <1>1, Arriving
<1>4. CASE frames
  BY <1>0, <1>1, <1>2, <1>3, <1>4, FrameStep DEF Joins
<1>5. CASE ~frames
  <2>1. known' = IF (falls \/ k = 0) /\ known # "nothing" THEN "kinds" ELSE "nothing"
    BY <1>1, <1>5 DEF Joins
  <2>2. TypeOK' /\ UNCHANGED <<locals, stack, stamped, vnCounter, uninitCounter>>
    BY <1>0, <1>1, <1>3, <1>5, <2>1, NoFrame
  <2>3. CASE (falls \/ k = 0) /\ known # "nothing"
    <3>1. \/ falls /\ jstack' \in [1 .. Len(jstack) -> Values] /\ Arrives(jstack, jstack')
          \/ jstack' = <<>>
      <4>1. CASE falls
        <5>1. SubSeq(jstack, 1, Len(jstack)) = jstack
          BY <1>0 DEF TypeOK
        <5> QED BY <1>1, <4>1, <5>1
      <4>2. CASE k = 0
        <5>1. Len(jstack') = 0
          BY <1>1, <4>2
        <5> QED BY <1>3, <5>1
      <4> QED BY <2>3, <4>1, <4>2
    <3>2. LocalsNumbered' /\ Numbered'
      BY <1>1, <2>1, <2>2, <2>3, <3>1, JoinKeepsKinds
    <3> QED BY <1>2, <2>1, <2>2, <2>3, <3>2 DEF IInv
  <2>4. CASE ~((falls \/ k = 0) /\ known # "nothing")
    BY <1>2, <2>1, <2>2, <2>4 DEF IInv
  <2> QED BY <2>3, <2>4
<1> QED BY <1>4, <1>5

LEMMA HandlerStep ==
  ASSUME IInv, NEW o \in Objects, Handler(o)
  PROVE  IInv'
<1>0. TypeOK /\ Counted
  BY DEF IInv, TypeOK
<1>1. /\ self' = self /\ raw' = raw /\ missed' = missed /\ excused' = {} /\ visitFrame
      /\ falls' = TRUE /\ ArrivingLocals /\ jstack' = <<o>> /\ covered' \subseteq Objects
      /\ Joins(FALSE)
  BY DEF Handler, Constructed
<1>2. Counted'
  BY <1>1 DEF Counted, Handler
<1>3. jlocals' \in Seq(Values) /\ Len(jlocals') = Len(jlocals)
  BY <1>0, <1>1, Arriving
<1>4. jstack' \in Seq(Values)
  BY <1>1 DEF Values
<1>5. CASE frames
  BY <1>0, <1>1, <1>2, <1>3, <1>4, <1>5, FrameStep DEF Joins
<1>6. CASE ~frames
  <2>1. known' = "nothing"
    BY <1>1, <1>6 DEF Joins
  <2>2. TypeOK' /\ UNCHANGED <<locals, stack, stamped, vnCounter, uninitCounter>>
    BY <1>0, <1>1, <1>3, <1>4, <1>6, <2>1, NoFrame
  <2> QED BY <1>2, <2>1, <2>2 DEF IInv
<1> QED BY <1>5, <1>6

-----------------------------------------------------------------------------
(* The start of the method.                                                *)

\* The adapter's locals are no more than the parameter slots, and a constructor has one.
LEMMA NarrowFacts ==
  ASSUME NEW m \in Methods
  PROVE  /\ Len(Kinds(m)) \in Nat /\ DOMAIN Kinds(m) = 1 .. Len(Kinds(m))
         /\ Cardinality(Narrow(m)) \in Nat /\ Cardinality(Narrow(m)) <= Len(Kinds(m))
         /\ Cardinality(DOMAIN Kinds(m) \ Narrow(m)) \in Nat
         /\ ~ m.static => Len(Kinds(m)) >= 1 /\ Kinds(m)[1] = "L" /\ Cardinality(Narrow(m)) >= 1
<1> DEFINE K == Kinds(m)
           L == {"L", "I", "J"}
<1>1. m.slots \in Seq(L) /\ m.static \in BOOLEAN
  BY RewriterAssumption
<1>2. /\ K \in Seq(L)
      /\ ~ m.static => Len(K) >= 1 /\ K[1] = "L"
  <2>1. CASE m.static
    <3>1. K = m.slots
      BY <1>1, <2>1 DEF Kinds
    <3> QED BY <1>1, <2>1, <3>1
  <2>2. CASE ~ m.static
    <3>1. K = <<"L">> \o m.slots /\ <<"L">> \in Seq(L) /\ Len(<<"L">>) = 1 /\ <<"L">>[1] = "L"
      BY <2>2 DEF Kinds
    <3> HIDE DEF L, K
    <3>2. /\ K \in Seq(L) /\ Len(K) = 1 + Len(m.slots)
          /\ \A i \in 1 .. 1 + Len(m.slots) : K[i] = IF i <= 1 THEN <<"L">>[i] ELSE m.slots[i - 1]
      BY <1>1, <3>1, ConcatProperties
    <3>3. Len(m.slots) \in Nat
      BY <1>1
    <3>4. 1 \in 1 .. 1 + Len(m.slots) /\ 1 <= 1
      BY <3>3
    <3>5. K[1] = "L"
      BY <3>1, <3>2, <3>4
    <3> QED BY <2>2, <3>2, <3>3, <3>5
  <2> QED BY <1>1, <2>1, <2>2
<1> HIDE DEF L
<1>3. Len(K) \in Nat /\ DOMAIN K = 1 .. Len(K)
  BY <1>2
<1>4. IsFiniteSet(DOMAIN K) /\ Cardinality(DOMAIN K) = Len(K)
  <2>1. 1 \in Int /\ Len(K) \in Int /\ (IF 1 > Len(K) THEN 0 ELSE Len(K) - 1 + 1) = Len(K)
    BY <1>3
  <2> HIDE DEF K
  <2>2. IsFiniteSet(1 .. Len(K)) /\ Cardinality(1 .. Len(K)) = IF 1 > Len(K) THEN 0 ELSE Len(K) - 1 + 1
    BY <2>1, FS_Interval
  <2> QED BY <1>3, <2>1, <2>2
<1>5. Narrow(m) \subseteq DOMAIN K /\ DOMAIN K \ Narrow(m) \subseteq DOMAIN K
  BY DEF Narrow
<1> HIDE DEF K
<1>6. /\ IsFiniteSet(Narrow(m)) /\ Cardinality(Narrow(m)) <= Len(K)
      /\ IsFiniteSet(DOMAIN K \ Narrow(m))
  BY <1>4, <1>5, FS_Subset
<1>7. Cardinality(Narrow(m)) \in Nat /\ Cardinality(DOMAIN K \ Narrow(m)) \in Nat
  BY <1>6, FS_CardinalityType
<1>8. ASSUME ~ m.static PROVE Cardinality(Narrow(m)) >= 1
  <2>1. 1 \in Narrow(m)
    BY <1>2, <1>3, <1>8 DEF Narrow, K
  <2>2. Cardinality(Narrow(m)) # 0
    BY <1>6, <2>1, FS_EmptySet
  <2> QED BY <1>7, <2>2
<1> QED BY <1>2, <1>3, <1>6, <1>7, <1>8 DEF K

\* What the method's entry gives the adapter: the number of a local is its place, 0, or
\* the receiver's -1.
LEMMA EntryStacks ==
  ASSUME NEW m \in Methods, visitCode(m)
  PROVE  LET c == Cardinality(Narrow(m))
         IN  /\ locals \in Seq(Int) /\ Len(locals) = c /\ stack \in Seq(Int)
             /\ \A i \in 1 .. c : IF m.init /\ i = 1 THEN locals[i] = -1 ELSE locals[i] \in {0, i}
             /\ vnCounter = c /\ uninitCounter = -2
             /\ stamped \subseteq {i \in 1 .. c : locals[i] = i}
             /\ counts = <<0, 0>>
<1> DEFINE c == Cardinality(Narrow(m))
           w == Cardinality(DOMAIN Kinds(m) \ Narrow(m))
           z(i) == IF m.init /\ i = 1 THEN -1 ELSE IF Kinds(m)[nth(m, i)] = "I" THEN 0 ELSE i
<1>1. c \in Nat /\ w \in Nat
  BY NarrowFacts
<1>2. /\ locals = [i \in 1 .. c |-> z(i)] /\ stack = pushZero(<<>>, w)
      /\ vnCounter = c /\ uninitCounter = -2
      /\ stamped = (IF m.init THEN {} ELSE {i \in 1 .. vnCounter : locals[i] = i})
      /\ counts = <<0, 0>>
  BY DEF visitCode
<1>3. \A i \in 1 .. c : z(i) \in Int /\ IF m.init /\ i = 1 THEN z(i) = -1 ELSE z(i) \in {0, i}
  OBVIOUS
<1> HIDE DEF c, w, z
<1>4. locals \in [1 .. c -> Int]
  BY <1>2, <1>3
<1>5. locals \in Seq(Int) /\ Len(locals) = c
  BY <1>1, <1>4
<1>6. stack \in Seq(Int)
  <2>1. <<>> \in Seq(Int)
    OBVIOUS
  <2> QED BY <1>1, <1>2, <2>1, PushZeroFacts
<1>7. \A i \in 1 .. c : IF m.init /\ i = 1 THEN locals[i] = -1 ELSE locals[i] \in {0, i}
  BY <1>2, <1>3
<1> QED BY <1>2, <1>5, <1>6, <1>7 DEF c

\* What the JVM has at the entry: only a constructor's receiver is raw.
LEMMA EntryValues ==
  ASSUME NEW m \in Methods, JvmEntry(m)
  PROVE  /\ jlocals \in Seq(Values) /\ Len(jlocals) = Len(Kinds(m)) + 1 /\ jstack = <<>>
         /\ raw \subseteq Objects /\ self \in Objects \cup {Null}
         /\ \A i \in 1 .. Len(jlocals) : jlocals[i] \in raw <=> (m.init /\ i = 1)
<1>1. /\ raw \in SUBSET Objects /\ jlocals \in [1 .. Len(Kinds(m)) + 1 -> Values]
      /\ \A i \in DOMAIN jlocals :
           IF i > Len(Kinds(m)) \/ Kinds(m)[i] # "L" THEN jlocals[i] = Prim
           ELSE IF m.init /\ i = 1 THEN jlocals[i] \in raw
           ELSE IF ~m.static /\ i = 1 THEN jlocals[i] \in Objects
           ELSE jlocals[i] \in Refs
      /\ self = IF m.static THEN Null ELSE jlocals[1]
      /\ jstack = <<>> /\ Cardinality(raw) = (IF m.init THEN 1 ELSE 0)
  BY DEF JvmEntry, Values
<1>2. /\ Len(Kinds(m)) \in Nat
      /\ ~ m.static => Len(Kinds(m)) >= 1 /\ Kinds(m)[1] = "L"
      /\ m.init => ~ m.static
      /\ m.init \in BOOLEAN /\ m.static \in BOOLEAN
  BY NarrowFacts, RewriterAssumption
<1>3. jlocals \in Seq(Values) /\ Len(jlocals) = Len(Kinds(m)) + 1 /\ DOMAIN jlocals = 1 .. Len(jlocals)
  BY <1>1, <1>2
<1>4. Prim \notin raw /\ Null \notin raw /\ \A v \in Refs : v \notin raw
  BY <1>1, RewriterAssumption DEF Refs, Constructed
<1>5. ~ m.init => raw = {}
  <2>1. IsFiniteSet(raw)
    BY <1>1, RewriterAssumption, FS_Subset
  <2> QED BY <1>1, <2>1, FS_EmptySet
<1>6. ASSUME NEW i \in 1 .. Len(jlocals) PROVE jlocals[i] \in raw <=> (m.init /\ i = 1)
  <2>1. CASE m.init /\ i = 1
    <3>1. ~(i > Len(Kinds(m))) /\ ~(Kinds(m)[i] # "L")
      BY <1>2, <2>1
    <3> QED BY <1>1, <1>3, <2>1, <3>1
  <2>2. CASE m.init /\ i # 1
    BY <1>1, <1>3, <1>4, <2>2
  <2>3. CASE ~ m.init
    BY <1>5, <2>3
  <2> QED BY <1>2, <2>1, <2>2, <2>3
<1>7. self \in Objects \cup {Null}
  <2>1. CASE m.static
    BY <1>1, <2>1
  <2>2. CASE ~ m.static
    <3>1. 1 \in DOMAIN jlocals /\ ~(1 > Len(Kinds(m))) /\ ~(Kinds(m)[1] # "L")
      BY <1>2, <1>3, <2>2
    <3>2. jlocals[1] \in Objects
      BY <1>1, <2>2, <3>1
    <3> QED BY <1>1, <2>2, <3>2
  <2> QED BY <1>2, <2>1, <2>2
<1> QED BY <1>1, <1>3, <1>6, <1>7

\* The entry establishes the invariant.
LEMMA InitIInv == Init => IInv
<1> SUFFICES ASSUME NEW m \in Methods, visitCode(m), JvmEntry(m),
                    covered = Live \cap Constructed, excused = {}, missed = {},
                    falls = TRUE, owed = <<0, 0>>, known = "values"
             PROVE  IInv
  BY DEF Init
<1> DEFINE c == Cardinality(Narrow(m))
<1>1. /\ locals \in Seq(Int) /\ Len(locals) = c /\ stack \in Seq(Int)
      /\ \A i \in 1 .. c : IF m.init /\ i = 1 THEN locals[i] = -1 ELSE locals[i] \in {0, i}
      /\ vnCounter = c /\ uninitCounter = -2
      /\ stamped \subseteq {i \in 1 .. c : locals[i] = i}
      /\ counts = <<0, 0>>
  BY EntryStacks
<1>2. /\ jlocals \in Seq(Values) /\ Len(jlocals) = Len(Kinds(m)) + 1 /\ jstack = <<>>
      /\ raw \subseteq Objects /\ self \in Objects \cup {Null}
      /\ \A i \in 1 .. Len(jlocals) : jlocals[i] \in raw <=> (m.init /\ i = 1)
  BY EntryValues
<1>3. /\ Len(Kinds(m)) \in Nat /\ c \in Nat /\ c <= Len(Kinds(m))
      /\ m.init => c >= 1
  BY NarrowFacts, RewriterAssumption
<1> HIDE DEF c
<1>4. TypeOK
  <2>1. jstack \in Seq(Values)
    BY <1>2
  <2>2. stamped \subseteq Nat \ {0} /\ vnCounter \in Nat /\ uninitCounter \in Int /\ Len(jlocals) >= 1
    BY <1>1, <1>2, <1>3
  <2>3. covered \subseteq Objects
    BY DEF Constructed
  <2>4. known \in {"values", "kinds", "nothing"}
    BY RewriterAssumption
  <2> QED BY <1>1, <1>2, <2>1, <2>2, <2>3, <2>4 DEF TypeOK, Values
<1>5. Counted
  BY <1>1 DEF Counted
<1>6. StackPairs = {}
  <2>1. Len(jstack) = 0 /\ 0 .. 0 - 1 = {}
    BY <1>2
  <2> QED BY <2>1 DEF StackPairs
<1>7. ASSUME NEW p \in Pairs
      PROVE  \E i \in 1 .. Len(jlocals) :
               /\ p[2] = jlocals[i]
               /\ IF i <= c THEN p[1] = locals[i] ELSE p[1] = 0
  <2>1. PICK i \in DOMAIN jlocals : p = <<get(locals, i - 1), jlocals[i]>>
    BY <1>6 DEF Pairs, LocalPairs
  <2>2. i \in 1 .. Len(jlocals) /\ i - 1 + 1 = i /\ (i - 1 < c <=> i <= c)
    BY <1>2, <1>3
  <2>3. get(locals, i - 1) = IF i <= c THEN locals[i] ELSE 0
    BY <1>1, <2>2 DEF get
  <2> QED BY <2>1, <2>2, <2>3
<1>8. ASSUME NEW p \in Pairs
      PROVE  \E i \in 1 .. Len(jlocals) :
               /\ p[2] = jlocals[i] /\ (p[2] \in raw <=> (m.init /\ i = 1))
               /\ IF m.init /\ i = 1 THEN p[1] = -1 ELSE p[1] \in {0, i}
               /\ p[1] <= c
  <2>1. PICK i \in 1 .. Len(jlocals) : /\ p[2] = jlocals[i]
                                       /\ IF i <= c THEN p[1] = locals[i] ELSE p[1] = 0
    BY <1>7
  <2>2. i \in Nat /\ i >= 1
    BY <1>2, <1>3
  <2>3. CASE i <= c
    <3>1. i \in 1 .. c
      BY <1>3, <2>2, <2>3
    <3>2. IF m.init /\ i = 1 THEN p[1] = -1 ELSE p[1] \in {0, i}
      BY <1>1, <2>1, <2>3, <3>1
    <3> QED BY <1>2, <1>3, <2>1, <2>2, <2>3, <3>2
  <2>4. CASE ~(i <= c)
    <3>1. ~(m.init /\ i = 1)
      BY <1>3, <2>4
    <3> QED BY <1>2, <1>3, <2>1, <2>4, <3>1
  <2> QED BY <2>3, <2>4
<1>9. Aligned
  BY <1>1, <1>2, <1>3, <1>4, Typed DEF Aligned
<1>10. PrimsPlain
  BY <1>6 DEF PrimsPlain
<1>11. NumbersKnown
  <2> SUFFICES ASSUME NEW p \in Pairs
               PROVE  uninitCounter <= p[1] /\ p[1] <= vnCounter /\ (p[1] < 0 <=> p[2] \in raw)
    BY DEF NumbersKnown
  <2>1. PICK i \in 1 .. Len(jlocals) : /\ p[2] \in raw <=> (m.init /\ i = 1)
                                       /\ IF m.init /\ i = 1 THEN p[1] = -1 ELSE p[1] \in {0, i}
                                       /\ p[1] <= c
    BY <1>8
  <2>2. i \in Nat
    BY <1>2, <1>3
  <2> QED BY <1>1, <2>1, <2>2
<1>12. OneValue /\ OneNumber
  <2>1. ASSUME NEW p \in Pairs, NEW q \in Pairs
        PROVE  /\ p[1] = q[1] /\ p[1] # 0 => p[2] = q[2]
               /\ p[2] = q[2] /\ p[2] \in raw => p[1] = q[1]
    <3>1. PICK i \in 1 .. Len(jlocals) :
            /\ p[2] = jlocals[i] /\ (p[2] \in raw <=> (m.init /\ i = 1))
            /\ IF m.init /\ i = 1 THEN p[1] = -1 ELSE p[1] \in {0, i}
      BY <1>8
    <3>2. PICK j \in 1 .. Len(jlocals) :
            /\ q[2] = jlocals[j] /\ (q[2] \in raw <=> (m.init /\ j = 1))
            /\ IF m.init /\ j = 1 THEN q[1] = -1 ELSE q[1] \in {0, j}
      BY <1>8
    <3>3. i \in Nat /\ j \in Nat /\ i >= 1 /\ j >= 1
      BY <1>2, <1>3
    <3>4. ASSUME p[1] = q[1], p[1] # 0 PROVE i = j
      BY <3>1, <3>2, <3>3, <3>4
    <3>5. ASSUME p[2] = q[2], p[2] \in raw PROVE i = 1 /\ j = 1 /\ m.init
      BY <3>1, <3>2, <3>5
    <3> QED BY <3>1, <3>2, <3>4, <3>5
  <2> QED BY <2>1 DEF OneValue, OneNumber
<1>13. StampsRight
  <2>1. \A vn \in stamped : vn <= vnCounter
    BY <1>1, <1>3
  <2>2. \A p \in Pairs : p[2] \in Live
    BY <1>4, PairTypes
  <2> QED BY <2>1, <2>2 DEF StampsRight
<1>14. uninitCounter <= 0
  BY <1>1
<1>15. Numbered
  BY <1>9, <1>10, <1>11, <1>12 DEF Numbered
<1> QED BY <1>4, <1>5, <1>13, <1>14, <1>15, LocalsToo DEF IInv

-----------------------------------------------------------------------------
(* Every instruction.                                                      *)

\* All instructions of a visit method keep the invariant.
LEMMA InsnStep == IInv /\ visitInsn => IInv'
<1> SUFFICES ASSUME IInv, visitInsn PROVE IInv'
  OBVIOUS
<1>1. CASE \E vals \in {<<Null>>, <<Prim>>} : PushUntracked(vals)
  BY <1>1, PushUntrackedStep
<1>2. CASE PushUntracked(<<Prim, Prim>>)
  BY <1>2, PushUntrackedStep
<1>3. CASE \E nr \in {<<0, 0>>, <<1, 2>>, <<2, 1>>, <<3, 2>>, <<4, 2>>, <<4, 1>>} : Arithmetic(nr[1], nr[2])
  <2>1. PICK nr \in {<<0, 0>>, <<1, 2>>, <<2, 1>>, <<3, 2>>, <<4, 2>>, <<4, 1>>} : Arithmetic(nr[1], nr[2])
    BY <1>3
  <2>2. nr[1] \in Nat /\ nr[2] \in Nat
    OBVIOUS
  <2> QED BY <2>1, <2>2, ArithmeticStep
<1>4. CASE \E n \in 1 .. 2 : Pop(n)
  BY <1>4, PopStep
<1>5. CASE \E form \in Shuffles : Shuffle(form)
  BY <1>5, ShuffleStep
<1>6. CASE \E w \in 1 .. 2 : LoadPrim(w)
  BY <1>6, LoadPrimStep
<1>7. CASE \E w \in 1 .. 2 : StorePrim(w)
  BY <1>7, StorePrimStep
<1>8. CASE \E o \in Refs : AALoad(o)
  BY <1>8, AALoadStep
<1>9. CASE AAStore
  BY <1>9, AAStoreStep
<1>10. CASE \E results \in {<<>>, <<Prim>>} : UseTop(results)
  BY <1>10, UseTopStep
<1>11. CASE Exit
  BY <1>11, ExitStep
<1> QED BY <1>1, <1>2, <1>3, <1>4, <1>5, <1>6, <1>7, <1>8, <1>9, <1>10, <1>11 DEF visitInsn

LEMMA FieldInsnStep == IInv /\ visitFieldInsn => IInv'
<1> SUFFICES ASSUME IInv, visitFieldInsn PROVE IInv'
  OBVIOUS
<1>1. CASE \E o \in Refs : GetFieldRef(o)
  BY <1>1, GetFieldRefStep
<1>2. CASE \E o \in Refs : GetStaticRef(o)
  BY <1>2, GetStaticRefStep
<1>3. CASE PutFieldRef
  BY <1>3, PutFieldRefStep
<1>4. CASE PutStaticRef
  BY <1>4, PutStaticRefStep
<1>5. CASE \E w \in 1 .. 2 : GetFieldPrim(w)
  BY <1>5, GetFieldPrimStep
<1>6. CASE \E w \in 1 .. 2 : PutFieldPrim(w)
  BY <1>6, PutFieldPrimStep
<1>7. CASE \E w \in 1 .. 2 : PutStaticPrim(w)
  BY <1>7, PutStaticPrimStep
<1> QED BY <1>1, <1>2, <1>3, <1>4, <1>5, <1>6, <1>7 DEF visitFieldInsn

LEMMA JumpInsnStep == IInv /\ visitJumpInsn => IInv'
<1> SUFFICES ASSUME IInv, visitJumpInsn PROVE IInv'
  OBVIOUS
<1>1. CASE \E n \in 1 .. 2 : IfPrim(n)
  BY <1>1, IfPrimStep
<1>2. CASE IfAcmp
  BY <1>2, IfAcmpStep
<1>3. CASE IfNull
  BY <1>3, IfNullStep
<1>4. CASE Switch
  BY <1>4, SwitchStep
<1> QED BY <1>1, <1>2, <1>3, <1>4 DEF visitJumpInsn

LEMMA TypeInsnStep == IInv /\ visitTypeInsn => IInv'
<1> SUFFICES ASSUME IInv, visitTypeInsn PROVE IInv'
  OBVIOUS
<1>1. CASE \E o \in Objects : New(o)
  BY <1>1, NewStep
<1>2. CASE \E o \in Objects : LdcObject(o)
  BY <1>2, LdcObjectStep
<1>3. CASE \E o \in Objects, dims \in 1 .. 2 : NewArray(dims, o)
  BY <1>3, NewArrayStep
<1>4. CASE CheckCast
  BY <1>4, CheckCastStep
<1>5. CASE InstanceOf
  BY <1>5, InstanceOfStep
<1> QED BY <1>1, <1>2, <1>3, <1>4, <1>5 DEF visitTypeInsn

LEMMA MethodInsnStep == IInv /\ visitMethodInsn => IInv'
<1> SUFFICES ASSUME IInv, visitMethodInsn PROVE IInv'
  OBVIOUS
<1>1. PICK n \in 0 .. 1 :
        \/ InvokeInit(n)
        \/ \E results \in Results : InvokeStatic(n, results) \/ InvokeVirtual(n, results)
  BY DEF visitMethodInsn, Results
<1>2. CASE InvokeInit(n)
  BY <1>2, InvokeInitStep
<1>3. ASSUME NEW results \in Results, InvokeStatic(n, results) PROVE IInv'
  <2>1. n \in Nat /\ Call(n, results) /\ UNCHANGED <<locals, jlocals, raw>>
    BY <1>3 DEF InvokeStatic
  <2> QED BY <2>1, CallStep
<1>4. ASSUME NEW results \in Results, InvokeVirtual(n, results) PROVE IInv'
  <2>1. n + 1 \in Nat /\ Call(n + 1, results) /\ UNCHANGED <<locals, jlocals, raw>>
    BY <1>4 DEF InvokeVirtual
  <2> QED BY <2>1, CallStep
<1> QED BY <1>1, <1>2, <1>3, <1>4

LEMMA VarInsnStep == IInv /\ visitVarInsn => IInv'
<1> SUFFICES ASSUME IInv, NEW i \in 0 .. Len(jlocals) - 1,
                    ALoad(i) \/ AStore(i) \/ StorePrimVar(i) \/ StoreWideVar(i)
             PROVE  IInv'
  BY DEF visitVarInsn
<1>1. CASE ALoad(i)
  BY <1>1, ALoadStep
<1>2. CASE AStore(i)
  BY <1>2, AStoreStep
<1>3. CASE StorePrimVar(i)
  BY <1>3, StorePrimVarStep
<1>4. CASE StoreWideVar(i)
  BY <1>4, StoreWideVarStep
<1> QED BY <1>1, <1>2, <1>3, <1>4

LEMMA LabelsStep == IInv /\ visitLabel => IInv'
<1> SUFFICES ASSUME IInv, visitLabel PROVE IInv'
  OBVIOUS
<1>1. CASE Label
  BY <1>1, LabelStep
<1>2. CASE FallIn
  BY <1>2, FallInStep
<1>3. CASE \E k \in 0 .. MaxStack : JumpIn(k)
  BY <1>3, JumpInStep
<1>4. CASE \E o \in Objects : Handler(o)
  BY <1>4, HandlerStep
<1> QED BY <1>1, <1>2, <1>3, <1>4 DEF visitLabel

\* Every step keeps the invariant.
LEMMA NextIInv == IInv /\ [Next]_vars => IInv'
<1> SUFFICES ASSUME IInv, [Next]_vars PROVE IInv'
  OBVIOUS
<1>1. CASE Next
  BY <1>1, InsnStep, FieldInsnStep, JumpInsnStep, TypeInsnStep, MethodInsnStep, VarInsnStep,
     LabelsStep DEF Next
<1>2. CASE UNCHANGED vars
  <2>1. UNCHANGED <<adapter, machine, stamps, falls, known>> /\ UNCHANGED <<counts, owed>>
    BY <1>2 DEF vars
  <2>2. (TypeOK' <=> TypeOK) /\ (Counted' <=> Counted)
    BY <2>1 DEF TypeOK, Counted, adapter, machine, stamps
  <2>3. falls' = falls /\ known' = known
    BY <2>1
  <2> QED BY <2>1, <2>2, <2>3, NothingMoves DEF IInv
<1> QED BY <1>1, <1>2

-----------------------------------------------------------------------------
(* The theorems.                                                           *)

\* The adapter's stacks hold numbers and the JVM's hold values, and no number that is
\* stamped is 0 or negative, whatever methods are rewritten, with frames or without
\* (ETOptMethodAdapter).
THEOREM RewriterTypesHold == Spec => []TypeOK
<1>1. IInv => TypeOK
  BY DEF IInv
<1> QED BY <1>1, InitIInv, NextIInv, PTL DEF Spec

\* What the calls of counts and longCounts report, and what is still to be flushed, is
\* what was executed, for every width of the packed fields and every number of
\* instructions between two flushes, with frames or without (outputCounts).
THEOREM NothingUncounted == Spec => []CountsConserved
<1>1. IInv => CountsConserved
  BY DEF IInv, Counted, CountsConserved
<1> QED BY <1>1, InitIInv, NextIInv, PTL DEF Spec

\* The adapter's stack covers the JVM's, a primitive slot has no number, and a negative
\* number stands just for an object that is not constructed: so shouldStamp hands no such
\* object to a hook.  With frames that holds in the whole method, without them also behind
\* the jumps that bring values to the same places (ETOptMethodAdapter, visitFrame).
THEOREM NoRawObjectStamped == Spec => []KindsKnown
<1>1. IInv => KindsKnown
  <2> SUFFICES ASSUME IInv, falls, known # "nothing" PROVE KindsKnown
    BY DEF KindsKnown
  <2>1. TypeOK /\ Numbered
    BY DEF IInv
  <2>2. Len(stack) \in Nat /\ Len(jstack) \in Nat /\ Len(jstack) <= Len(stack)
    BY <2>1, Typed DEF Numbered, Aligned
  <2>3. \A p \in StackPairs : p[2] = Prim => p[1] = 0
    BY <2>1 DEF Numbered, PrimsPlain
  <2>4. ASSUME NEW p \in Pairs PROVE (p[1] < 0 => p[2] \in raw) /\ (p[1] > 0 => p[2] \notin raw)
    <3>1. p[1] \in Int /\ (p[1] < 0 <=> p[2] \in raw)
      BY <2>1, PairTypes DEF Numbered, NumbersKnown
    <3> QED BY <3>1
  <2> QED BY <2>2, <2>3, <2>4 DEF KindsKnown
<1> QED BY <1>1, InitIInv, NextIInv, PTL DEF Spec

\* Places with the same value number hold the same value, through all moves, frames and
\* the renumbering of a constructed object (foundInit), without frames up to the first
\* jump that comes in.
THEOREM SameNumberSameValue == Spec => []ValueNumbersSound
<1>1. IInv => ValueNumbersSound
  <2> SUFFICES ASSUME IInv, falls, known = "values" PROVE ValueNumbersSound
    BY DEF ValueNumbersSound
  <2>1. OneValue
    BY DEF IInv, Numbered
  <2> QED BY <2>1 DEF OneValue, ValueNumbersSound
<1> QED BY <1>1, InitIInv, NextIInv, PTL DEF Spec

\* No object is used while it could be reported with an earlier death time: leaving out the
\* calls for values that are stamped already is right, without frames up to the first jump
\* that comes in.  What the adapter takes for stamped without a reason is left out: the
\* elements of arrays that it does not follow, the objects of an AASTORE, what a class
\* initializer left behind, and what is loaded from these (shouldStamp, nowStamped).
THEOREM StampsSuffice == Spec => []UsesCovered
<1>1. IInv => UsesCovered
  BY DEF IInv, UsesCovered
<1> QED BY <1>1, InitIInv, NextIInv, PTL DEF Spec

=============================================================================
