------------------------- MODULE ClassSlots_proofs -------------------------
(***************************************************************************)
(* Proofs about the pipes between the agent and the rewriter and about the *)
(* numbers that go through them, for any number of threads, any classes    *)
(* and any fields.  A thread reads from the pipe only what answers its own *)
(* request: IInv says who has instrumenterLock, namely the thread whose    *)
(* topmost frame is in the middle of a conversation, and how far that      *)
(* conversation is.  The numbers the agent makes up are apart from those   *)
(* of the rewriter: Typed says what is in the frames and in the pipes.     *)
(* Each field has a slot of its own: NumbersRight relates the tables of    *)
(* the rewriter to what is recorded of them in the agent, RecursionRight   *)
(* the frames of getSlotsForClass and handleClassWithoutId to the slots    *)
(* assigned so far.  A class has at least as many slots as it and its      *)
(* superclasses have pointer fields, and its own are the last of them.     *)
(***************************************************************************)
EXTENDS ClassSlots, SequenceTheorems, FiniteSetTheorems, TLAPS

IsSequence(s) == \E S : s \in Seq(S)
Top(s) == s[Len(s)]

\* A thread that holds the lock is loading a class, or waits for an acknowledgement.
Holding(s) ==
  /\ s # <<>>
  /\ Top(s).op = "instrument" \/ (Top(s).op = "send" /\ Top(s).at = "ack")

Parts == {"op", "class", "at", "superSlots", "rest"}
IsFrame(f) == \E S : f \in [Parts -> S]

\* No frame is ever left waiting below another one in the middle of a conversation.
GoodFrame(f) ==
  /\ IsFrame(f)
  /\ f.op = "instrument" => f.at = "lookup" /\ f.class \in Classes
  /\ f.op = "send" => f.rest[1] # "OrigClassFile"
Recursing(f) == f.op \in {"slots", "without"}
Good(s) ==
  /\ IsSequence(s)
  /\ \A i \in 1 .. Len(s) : GoodFrame(s[i]) /\ (i # Len(s) => Recursing(s[i]))

\* The three parts of a conversation: the request is in the pipe, the rewriter is at
\* the class, the answer is there to its end.
Asked(f) ==
  /\ Idle /\ replies = <<>>
  /\ \E q : /\ requests = <<q>>
            /\ IF f.op = "instrument" THEN q = <<"OrigClassFile", f.class>>
               ELSE q[1] # "OrigClassFile"

Informing(i) == replies[i][1] \in {"ClassInfo", "FieldInfo"}

AtWork(f) ==
  /\ f.op = "instrument" /\ requests = <<>> /\ work[1] = f.class
  /\ \A i \in 1 .. Len(replies) : Informing(i)

Answered(f) ==
  /\ Idle /\ requests = <<>>
  /\ IF f.op = "instrument"
     THEN /\ replies # <<>>
          /\ \A i \in 1 .. Len(replies) - 1 : Informing(i)
          /\ replies[Len(replies)] = <<"InstClassFile", f.class>>
     ELSE replies = <<<<"Ack", NoClass>>>>

Conversation(f) == Asked(f) \/ AtWork(f) \/ Answered(f)

IInv ==
  /\ stack \in [Threads -> {stack[t] : t \in Threads}]
  /\ IsSequence(replies)
  /\ \A t \in Threads : Good(stack[t])
  /\ \A t \in Threads : Holding(stack[t]) <=> lock = t
  /\ lock \in Threads \cup {NoClass}
  /\ lock = NoClass => Idle /\ requests = <<>> /\ replies = <<>>
  /\ \A t \in Threads : lock = t => Conversation(Top(stack[t]))

-----------------------------------------------------------------------------
(* Sequences and frames.                                                   *)

\* What Append, Tail, SubSeq and \o do to a sequence of no particular elements.
LEMMA Appending ==
  ASSUME NEW s, IsSequence(s), NEW x
  PROVE  /\ IsSequence(Append(s, x)) /\ Append(s, x) # <<>>
         /\ Len(s) \in Nat /\ Len(Append(s, x)) = Len(s) + 1
         /\ \A i \in 1 .. Len(s) : Append(s, x)[i] = s[i]
         /\ Append(s, x)[Len(s) + 1] = x
<1>1. PICK S : s \in Seq(S)
  BY DEF IsSequence
<1>2. s \in Seq(S \cup {x})
  BY <1>1
<1>3. Append(s, x) \in Seq(S \cup {x})
  BY <1>2
<1> QED BY <1>2, <1>3 DEF IsSequence

LEMMA Tailing ==
  ASSUME NEW s, IsSequence(s), s # <<>>
  PROVE  /\ IsSequence(Tail(s)) /\ Len(s) \in Nat \ {0} /\ Len(Tail(s)) = Len(s) - 1
         /\ Head(s) = s[1]
         /\ \A i \in 1 .. Len(s) - 1 : Tail(s)[i] = s[i + 1]
<1>1. PICK S : s \in Seq(S)
  BY DEF IsSequence
<1> QED BY <1>1 DEF IsSequence

LEMMA Popping ==
  ASSUME NEW s, IsSequence(s), s # <<>>
  PROVE  LET p == SubSeq(s, 1, Len(s) - 1)
         IN  /\ IsSequence(p) /\ Len(s) \in Nat \ {0} /\ Len(p) = Len(s) - 1
             /\ \A i \in 1 .. Len(s) - 1 : p[i] = s[i]
<1>1. PICK S : s \in Seq(S)
  BY DEF IsSequence
<1>2. Len(s) \in Nat \ {0}
  BY <1>1
<1>3. \A i \in 1 .. Len(s) - 1 : s[i] \in S
  BY <1>1, <1>2
<1>4. 1 \in Int /\ Len(s) - 1 \in Int
  BY <1>2
<1>5. /\ SubSeq(s, 1, Len(s) - 1) \in Seq(S)
      /\ Len(SubSeq(s, 1, Len(s) - 1)) = Len(s) - 1
      /\ \A i \in 1 .. Len(s) - 1 : SubSeq(s, 1, Len(s) - 1)[i] = s[i]
  <2>1. \A S1, s1 : \A m, n \in Int : (\A i \in m .. n : s1[i] \in S1) =>
          /\ SubSeq(s1, m, n) \in Seq(S1)
          /\ Len(SubSeq(s1, m, n)) = IF m <= n THEN n - m + 1 ELSE 0
          /\ \A i \in 1 .. n - m + 1 : SubSeq(s1, m, n)[i] = s1[m + i - 1]
    BY SubSeqProperties
  <2>2. /\ SubSeq(s, 1, Len(s) - 1) \in Seq(S)
        /\ Len(SubSeq(s, 1, Len(s) - 1))
             = IF 1 <= Len(s) - 1 THEN (Len(s) - 1) - 1 + 1 ELSE 0
        /\ \A i \in 1 .. (Len(s) - 1) - 1 + 1 : SubSeq(s, 1, Len(s) - 1)[i] = s[1 + i - 1]
    BY <1>3, <1>4, <2>1
  <2>3. /\ (Len(s) - 1) - 1 + 1 = Len(s) - 1
        /\ (IF 1 <= Len(s) - 1 THEN (Len(s) - 1) - 1 + 1 ELSE 0) = Len(s) - 1
        /\ \A i \in 1 .. Len(s) - 1 : 1 + i - 1 = i
    <3>1. PICK k \in Nat : Len(s) = k + 1
      BY <1>2
    <3>2. (Len(s) - 1) - 1 + 1 = Len(s) - 1
      BY <3>1
    <3>3. (IF 1 <= Len(s) - 1 THEN (Len(s) - 1) - 1 + 1 ELSE 0) = Len(s) - 1
      BY <3>1
    <3>4. \A i \in 1 .. Len(s) - 1 : 1 + i - 1 = i
      BY <3>1
    <3> QED BY <3>2, <3>3, <3>4
  <2>4. \A i \in 1 .. Len(s) - 1 : SubSeq(s, 1, Len(s) - 1)[i] = s[1 + i - 1]
    BY <2>2, <2>3
  <2> HIDE <2>1
  <2> QED BY <2>2, <2>3, <2>4
<1> QED BY <1>2, <1>5 DEF IsSequence

LEMMA Joining ==
  ASSUME NEW s, IsSequence(s), NEW r, IsSequence(r)
  PROVE  /\ IsSequence(s \o r) /\ Len(s) \in Nat /\ Len(r) \in Nat
         /\ Len(s \o r) = Len(s) + Len(r)
         /\ \A i \in 1 .. Len(s) : (s \o r)[i] = s[i]
         /\ \A i \in 1 .. Len(r) : (s \o r)[Len(s) + i] = r[i]
<1>1. PICK S : s \in Seq(S)
  BY DEF IsSequence
<1>2. PICK R : r \in Seq(R)
  BY DEF IsSequence
<1>3. s \in Seq(S \cup R) /\ r \in Seq(S \cup R)
  BY <1>1, <1>2
<1>4. s \o r \in Seq(S \cup R)
  BY <1>3
<1> QED BY <1>3, <1>4 DEF IsSequence

LEMMA EmptyIsZero ==
  ASSUME NEW s, IsSequence(s)
  PROVE  Len(s) \in Nat /\ (s = <<>> <=> Len(s) = 0)
<1>1. PICK S : s \in Seq(S)
  BY DEF IsSequence
<1> QED BY <1>1

\* Frame and Send make frames.
LEMMA FramesMade ==
  ASSUME NEW op, NEW c
  PROVE  /\ IsFrame(Frame(op, c)) /\ Frame(op, c).op = op
         /\ Frame(op, c).class = c /\ Frame(op, c).at = "lookup"
<1>1. Frame(op, c) \in [Parts -> {op, c, "lookup", 0, <<>>}]
  BY DEF Parts, Frame
<1> QED BY <1>1 DEF IsFrame, Frame

LEMMA SendsMade ==
  ASSUME NEW k, NEW p
  PROVE  /\ IsFrame(Send(k, p)) /\ Send(k, p).op = "send" /\ Send(k, p).at = "lookup"
         /\ Send(k, p).rest = <<k, p>>
<1>1. Frame("send", NoClass) \in [Parts -> {"send", NoClass, "lookup", 0, <<>>}]
  BY DEF Parts, Frame
<1>2. Send(k, p) \in [Parts -> {"send", NoClass, "lookup", 0, <<>>, <<k, p>>}]
  BY <1>1 DEF Parts, Send
<1> QED BY <1>1, <1>2 DEF IsFrame, Frame, Send, Parts

\* A frame that goes on is still the same call.
LEMMA FrameGoesTo ==
  ASSUME NEW f, IsFrame(f), NEW v
  PROVE  LET g == [f EXCEPT !.at = v]
         IN  IsFrame(g) /\ g.op = f.op /\ g.class = f.class /\ g.at = v /\ g.rest = f.rest
<1>1. PICK S : f \in [Parts -> S]
  BY DEF IsFrame
<1>2. f \in [Parts -> S \cup {v}]
  BY <1>1
<1>3. [f EXCEPT !.at = v] \in [Parts -> S \cup {v}]
  BY <1>2 DEF Parts
<1> QED BY <1>1, <1>3 DEF IsFrame, Parts

LEMMA FrameDropsField ==
  ASSUME NEW f, IsFrame(f), NEW r
  PROVE  LET g == [f EXCEPT !.rest = r] IN IsFrame(g) /\ g.op = f.op
<1>1. PICK S : f \in [Parts -> S]
  BY DEF IsFrame
<1>2. f \in [Parts -> S \cup {r}]
  BY <1>1
<1>3. [f EXCEPT !.rest = r] \in [Parts -> S \cup {r}]
  BY <1>2 DEF Parts
<1> QED BY <1>1, <1>3 DEF IsFrame, Parts

LEMMA FrameGetsSlots ==
  ASSUME NEW f, IsFrame(f), NEW n
  PROVE  LET g == [f EXCEPT !.superSlots = n] IN IsFrame(g) /\ g.op = f.op
<1>1. PICK S : f \in [Parts -> S]
  BY DEF IsFrame
<1>2. f \in [Parts -> S \cup {n}]
  BY <1>1
<1>3. [f EXCEPT !.superSlots = n] \in [Parts -> S \cup {n}]
  BY <1>2 DEF Parts
<1> QED BY <1>1, <1>3 DEF IsFrame, Parts

\* The frames below the top, and the call that gets a value returned.
LEMMA PoppedGood ==
  ASSUME NEW s, Good(s), s # <<>>
  PROVE  LET p == SubSeq(s, 1, Len(s) - 1)
         IN  /\ Good(p) /\ ~Holding(p)
             /\ \A i \in 1 .. Len(p) : Recursing(p[i])
<1> DEFINE p == SubSeq(s, 1, Len(s) - 1)
<1>1. IsSequence(s)
  BY DEF Good
<1>2. /\ IsSequence(p) /\ Len(s) \in Nat \ {0} /\ Len(p) = Len(s) - 1
      /\ \A i \in 1 .. Len(s) - 1 : p[i] = s[i]
  BY <1>1, Popping
<1> HIDE DEF p
<1>3. \A i \in 1 .. Len(p) : Recursing(p[i]) /\ GoodFrame(p[i])
  BY <1>2 DEF Good
<1>4. p # <<>> => Len(p) \in 1 .. Len(p)
  BY <1>2 DEF IsSequence
<1>5. ~Holding(p)
  BY <1>3, <1>4 DEF Holding, Top, Recursing
<1> QED BY <1>2, <1>3, <1>5 DEF p, Good

\* A frame that goes on, and the calls it makes.
LEMMA PushedGood ==
  ASSUME NEW s, Good(s), s # <<>>, NEW f, GoodFrame(f), Recursing(f),
         NEW r, Good(r), ~Holding(r)
  PROVE  LET n == Append(SubSeq(s, 1, Len(s) - 1), f) \o r
         IN  Good(n) /\ ~Holding(n)
<1> DEFINE p == SubSeq(s, 1, Len(s) - 1)
           a == Append(p, f)
           n == a \o r
<1>1. /\ Good(p) /\ \A i \in 1 .. Len(p) : Recursing(p[i])
  BY PoppedGood
<1> HIDE DEF p
<1>2. /\ IsSequence(a) /\ Len(p) \in Nat /\ Len(a) = Len(p) + 1
      /\ \A i \in 1 .. Len(p) : a[i] = p[i]
      /\ a[Len(p) + 1] = f
  BY <1>1, Appending DEF Good
<1> HIDE DEF a
<1>3. \A i \in 1 .. Len(a) : GoodFrame(a[i]) /\ Recursing(a[i])
  BY <1>1, <1>2 DEF Good
<1>4. /\ IsSequence(n) /\ Len(a) \in Nat /\ Len(r) \in Nat /\ Len(n) = Len(a) + Len(r)
      /\ \A i \in 1 .. Len(a) : n[i] = a[i]
      /\ \A i \in 1 .. Len(r) : n[Len(a) + i] = r[i]
      /\ r = <<>> <=> Len(r) = 0
  <2>1. IsSequence(r)
    BY DEF Good
  <2>2. /\ IsSequence(a \o r) /\ Len(a) \in Nat /\ Len(r) \in Nat
        /\ Len(a \o r) = Len(a) + Len(r)
        /\ \A i \in 1 .. Len(a) : (a \o r)[i] = a[i]
        /\ \A i \in 1 .. Len(r) : (a \o r)[Len(a) + i] = r[i]
    <3>1. IsSequence(a)
      BY <1>2
    <3> HIDE <1>1, <1>2
    <3> QED BY <2>1, <3>1, Joining
  <2>3. r = <<>> <=> Len(r) = 0
    BY <2>1, EmptyIsZero
  <2> QED BY <2>2, <2>3
<1> HIDE DEF n
<1>5. ASSUME NEW i \in 1 .. Len(n)
      PROVE  GoodFrame(n[i]) /\ (i # Len(n) => Recursing(n[i]))
  <2>1. CASE i \in 1 .. Len(a)
    BY <1>3, <1>4, <2>1
  <2>2. CASE i \notin 1 .. Len(a)
    <3>1. i - Len(a) \in 1 .. Len(r) /\ i = Len(a) + (i - Len(a))
      BY <1>4, <2>2
    <3>2. n[i] = r[i - Len(a)]
      BY <1>4, <3>1
    <3> QED BY <1>4, <3>1, <3>2 DEF Good
  <2> QED BY <2>1, <2>2
<1>6. ~Holding(n)
  <2>1. CASE r = <<>>
    <3>1. Len(n) \in 1 .. Len(a) /\ Top(n) = f
      BY <1>2, <1>4, <2>1 DEF Top
    <3> QED BY <3>1 DEF Holding, Recursing
  <2>2. CASE r # <<>>
    <3>1. Top(n) = Top(r)
      BY <1>4, <2>2 DEF Top
    <3> QED BY <2>2, <3>1 DEF Holding
  <2> QED BY <2>1, <2>2
<1> QED BY <1>4, <1>5, <1>6 DEF Good, n, a, p

LEMMA ReturnedGood ==
  ASSUME NEW s, Good(s), s # <<>>, NEW v
  PROVE  LET p == SubSeq(s, 1, Len(s) - 1)
             n == [p EXCEPT ![Len(p)].superSlots = v]
         IN  p # <<>> => Good(n) /\ ~Holding(n)
<1> DEFINE p == SubSeq(s, 1, Len(s) - 1)
           f == p[Len(p)]
           g == [f EXCEPT !.superSlots = v]
           n == [p EXCEPT ![Len(p)] = g]
<1>1. Good(p) /\ \A i \in 1 .. Len(p) : Recursing(p[i])
  BY PoppedGood
<1> HIDE DEF p
<1> SUFFICES ASSUME p # <<>> PROVE Good(n) /\ ~Holding(n)
  BY DEF p
<1>2. Len(p) \in Nat \ {0} /\ Len(p) \in 1 .. Len(p)
  BY <1>1, EmptyIsZero DEF Good
<1>3. GoodFrame(f) /\ Recursing(f)
  BY <1>1, <1>2 DEF Good
<1> HIDE DEF f
<1>4. IsFrame(g) /\ g.op = f.op
  BY <1>3, FrameGetsSlots DEF GoodFrame
<1> HIDE DEF g
<1>5. GoodFrame(g) /\ Recursing(g)
  BY <1>3, <1>4 DEF GoodFrame, Recursing
<1>6. PICK S : p \in Seq(S)
  BY <1>1 DEF Good, IsSequence
<1>7. p \in Seq(S \cup {g})
  BY <1>6
<1>8. n \in Seq(S \cup {g}) /\ Len(n) = Len(p)
  BY <1>2, <1>7
<1>9. \A i \in 1 .. Len(p) : n[i] = IF i = Len(p) THEN g ELSE p[i]
  BY <1>2, <1>7
<1> HIDE DEF n
<1>10. \A i \in 1 .. Len(n) : GoodFrame(n[i]) /\ Recursing(n[i])
  BY <1>1, <1>5, <1>8, <1>9 DEF Good
<1>11. Good(n)
  BY <1>8, <1>10 DEF Good, IsSequence
<1>12. ~Holding(n)
  BY <1>2, <1>8, <1>10 DEF Holding, Top, Recursing
<1> QED BY <1>11, <1>12

\* A thread that has just begun to recurse.
LEMMA EmptyGood == Good(<<>>) /\ ~Holding(<<>>)
<1>1. <<>> \in Seq({})
  OBVIOUS
<1> QED BY <1>1 DEF Good, IsSequence, Holding

LEMMA OneGood ==
  ASSUME NEW f, GoodFrame(f)
  PROVE  Good(<<f>>) /\ Top(<<f>>) = f /\ <<f>> # <<>>
<1>1. <<f>> \in Seq({f}) /\ Len(<<f>>) = 1 /\ <<f>>[1] = f
  OBVIOUS
<1>2. \A i \in 1 .. Len(<<f>>) : <<f>>[i] = f /\ i = Len(<<f>>)
  BY <1>1
<1> QED BY <1>1, <1>2 DEF Good, IsSequence, Top

LEMMA SlotsGood ==
  ASSUME NEW c
  PROVE  LET f == Frame("slots", c) IN GoodFrame(f) /\ Recursing(f)
BY FramesMade DEF GoodFrame, Recursing

LEMMA TwoGood ==
  ASSUME NEW f, GoodFrame(f), Recursing(f), NEW s, Good(s), ~Holding(s)
  PROVE  Good(<<f>> \o s) /\ ~Holding(<<f>> \o s)
<1> DEFINE a == <<f>>
           n == a \o s
<1>1. IsSequence(a) /\ Len(a) = 1 /\ a[1] = f
  BY OneGood DEF Good
<1>2. IsSequence(s)
  BY DEF Good
<1> HIDE DEF a
<1>3. /\ IsSequence(n) /\ Len(s) \in Nat /\ Len(n) = Len(a) + Len(s)
      /\ \A i \in 1 .. Len(a) : n[i] = a[i]
      /\ \A i \in 1 .. Len(s) : n[Len(a) + i] = s[i]
  <2> HIDE <1>1
  <2>1. IsSequence(a)
    BY <1>1
  <2>2. \A p, q : IsSequence(p) /\ IsSequence(q) =>
          /\ IsSequence(p \o q) /\ Len(q) \in Nat /\ Len(p \o q) = Len(p) + Len(q)
          /\ \A i \in 1 .. Len(p) : (p \o q)[i] = p[i]
          /\ \A i \in 1 .. Len(q) : (p \o q)[Len(p) + i] = q[i]
    <3> HIDE <2>1, <1>2
    <3> QED BY Joining
  <2> QED BY <2>1, <1>2, <2>2
<1> HIDE DEF n
<1>4. n[1] = f /\ Len(n) = Len(s) + 1 /\ \A i \in 1 .. Len(s) : n[i + 1] = s[i]
  BY <1>1, <1>3
<1>5. ASSUME NEW i \in 1 .. Len(n)
      PROVE  GoodFrame(n[i]) /\ (i # Len(n) => Recursing(n[i]))
  <2>1. CASE i = 1
    BY <1>4, <2>1
  <2>2. CASE i # 1
    <3>1. i - 1 \in 1 .. Len(s) /\ i = (i - 1) + 1 /\ n[i] = s[i - 1]
      BY <1>3, <1>4, <2>2
    <3> QED BY <1>3, <1>4, <3>1 DEF Good
  <2> QED BY <2>1, <2>2
<1>6. ~Holding(n)
  <2>1. CASE s = <<>>
    <3>1. Top(n) = f
      BY <1>4, <2>1 DEF Top
    <3> QED BY <3>1 DEF Holding, Recursing
  <2>2. CASE s # <<>>
    <3>1. Len(s) \in 1 .. Len(s)
      BY <1>2, <2>2, EmptyIsZero
    <3>2. Top(n) = Top(s)
      BY <1>3, <1>4, <3>1 DEF Top
    <3> QED BY <2>2, <3>2 DEF Holding
  <2> QED BY <2>1, <2>2
<1> QED BY <1>3, <1>5, <1>6 DEF Good, n, a

\* TagCalls has at most two frames.
LEMMA TagCallsGood ==
  ASSUME NEW c
  PROVE  Good(TagCalls(c)) /\ ~Holding(TagCalls(c))
<1> DEFINE f == Frame("slots", Class)
<1>1. GoodFrame(f) /\ Recursing(f)
  BY SlotsGood
<1> HIDE DEF f
<1>2. Good(<<f>>) /\ ~Holding(<<f>>)
  BY <1>1, OneGood DEF Holding, Recursing
<1>3. Good(<<f>> \o <<f>>) /\ ~Holding(<<f>> \o <<f>>)
  BY <1>1, <1>2, TwoGood
<1>4. <<f, f>> = <<f>> \o <<f>>
  OBVIOUS
<1>5. TagCalls(c) \in {<<>>, <<f>>, <<f, f>>}
  BY DEF TagCalls, f
<1> QED BY <1>2, <1>3, <1>4, <1>5, EmptyGood

-----------------------------------------------------------------------------
(* The steps.                                                              *)

\* What a change of one stack leaves as it was.
LEMMA StackStep ==
  ASSUME IInv, NEW t \in Threads, NEW s, Good(s), Goes(t, s)
  PROVE  /\ stack' \in [Threads -> {stack'[u] : u \in Threads}]
         /\ \A u \in Threads : Good(stack'[u])
         /\ stack'[t] = s /\ \A u \in Threads \ {t} : stack'[u] = stack[u]
BY DEF IInv, Goes

\* A step of getSlotsForClass or handleClassWithoutId does not touch the pipes.
LEMMA Recurses ==
  ASSUME IInv, NEW t \in Threads, NEW s, Good(s), ~Holding(s), ~Holding(stack[t]),
         Goes(t, s), UNCHANGED <<pipes, work>>
  PROVE  IInv'
<1>1. /\ stack' \in [Threads -> {stack'[u] : u \in Threads}]
      /\ \A u \in Threads : Good(stack'[u])
      /\ stack'[t] = s /\ \A u \in Threads \ {t} : stack'[u] = stack[u]
  BY StackStep
<1>2. UNCHANGED <<lock, requests, replies, work>>
  BY DEF pipes
<1>3. IsSequence(replies')
  BY <1>2 DEF IInv
<1>4. \A u \in Threads : Holding(stack'[u]) <=> lock' = u
  BY <1>1, <1>2 DEF IInv
<1>5. lock' \in Threads \cup {NoClass} /\ (lock' = NoClass => Idle' /\ requests' = <<>> /\ replies' = <<>>)
  BY <1>2 DEF IInv, Idle
<1>6. \A u \in Threads : lock' = u => Conversation(Top(stack[u]))' /\ u # t
  BY <1>1, <1>2 DEF IInv, Conversation, Asked, AtWork, Answered, Idle, Informing
<1> QED BY <1>1, <1>3, <1>4, <1>5, <1>6 DEF IInv

LEMMA TopIsGood ==
  ASSUME IInv, NEW t \in Threads, stack[t] # <<>>
  PROVE  /\ Good(stack[t]) /\ GoodFrame(TopFrame(t)) /\ TopFrame(t) = Top(stack[t])
         /\ Recursing(TopFrame(t)) => ~Holding(stack[t])
<1>1. Good(stack[t])
  BY DEF IInv
<1>2. Len(stack[t]) \in 1 .. Len(stack[t])
  BY <1>1, EmptyIsZero DEF Good
<1>3. TopFrame(t) = Top(stack[t]) /\ GoodFrame(TopFrame(t))
  BY <1>1, <1>2 DEF Good, Top, TopFrame
<1> QED BY <1>1, <1>3 DEF Holding, Recursing

LEMMA Returns ==
  ASSUME IInv, NEW t \in Threads, stack[t] # <<>>, NEW v, Return(t, v)
  PROVE  \E s : Good(s) /\ ~Holding(s) /\ Goes(t, s)
<1> DEFINE p == Popped(t)
           n == [p EXCEPT ![Len(p)].superSlots = v]
<1>1. Good(stack[t])
  BY DEF IInv
<1>2. p = SubSeq(stack[t], 1, Len(stack[t]) - 1)
  BY DEF Popped
<1>3. CASE p = <<>>
  <2>1. Goes(t, p)
    BY <1>3 DEF Return
  <2> QED BY <1>3, <2>1, EmptyGood
<1>4. CASE p # <<>>
  <2>1. Goes(t, n)
    BY <1>4 DEF Return
  <2>2. Good(n) /\ ~Holding(n)
    BY <1>1, <1>2, <1>4, ReturnedGood
  <2> QED BY <2>1, <2>2
<1> QED BY <1>3, <1>4

LEMMA Continues ==
  ASSUME IInv, NEW t \in Threads, stack[t] # <<>>, NEW f, GoodFrame(f), Recursing(f),
         NEW r, Good(r), ~Holding(r), Continue(t, f, r)
  PROVE  \E s : Good(s) /\ ~Holding(s) /\ Goes(t, s)
<1> DEFINE n == Append(SubSeq(stack[t], 1, Len(stack[t]) - 1), f) \o r
<1>1. Goes(t, n)
  BY DEF Continue, Popped
<1>2. Good(stack[t])
  BY DEF IInv
<1>3. Good(n) /\ ~Holding(n)
  BY <1>2, PushedGood
<1> QED BY <1>1, <1>3

LEMMA SendingGood ==
  ASSUME NEW k, k # "OrigClassFile", NEW p
  PROVE  Good(<<Send(k, p)>>) /\ ~Holding(<<Send(k, p)>>)
<1> DEFINE f == Send(k, p)
<1>1. IsFrame(f) /\ f.op = "send" /\ f.at = "lookup" /\ f.rest = <<k, p>>
  BY SendsMade
<1> HIDE DEF f
<1>2. GoodFrame(f)
  BY <1>1 DEF GoodFrame
<1>3. Good(<<f>>) /\ Top(<<f>>) = f
  BY <1>2, OneGood
<1>4. ~Holding(<<f>>)
  BY <1>1, <1>3 DEF Holding
<1> QED BY <1>3, <1>4 DEF f

\* One frame before the frames that TagCalls pushes.
LEMMA TagPathGood ==
  ASSUME NEW c
  PROVE  LET s == <<Frame("slots", c)>> \o TagCalls(c) IN Good(s) /\ ~Holding(s)
<1>1. GoodFrame(Frame("slots", c)) /\ Recursing(Frame("slots", c))
  BY SlotsGood
<1>2. Good(TagCalls(c)) /\ ~Holding(TagCalls(c))
  BY TagCallsGood
<1> QED BY <1>1, <1>2, TwoGood

LEMMA RecursionStep ==
  ASSUME IInv, NEW t \in Threads, getSlotsForClass(t) \/ handleClassWithoutId(t)
  PROVE  IInv'
<1> DEFINE f == TopFrame(t)
<1>1. /\ stack[t] # <<>> /\ Recursing(f) /\ UNCHANGED <<pipes, work>>
  BY DEF getSlotsForClass, handleClassWithoutId, LookupTag, LookupId, AssignSlots, WithoutId,
         SyntheticClass, SyntheticField, Busy, Recursing, Tables, rewriter
<1>2. GoodFrame(f) /\ ~Holding(stack[t])
  BY <1>1, TopIsGood
<1> SUFFICES \E s : Good(s) /\ ~Holding(s) /\ Goes(t, s)
  BY <1>1, <1>2, Recurses
<1>3. ASSUME NEW v
      PROVE  GoodFrame([f EXCEPT !.at = v]) /\ Recursing([f EXCEPT !.at = v])
  BY <1>1, <1>2, FrameGoesTo DEF GoodFrame, Recursing
<1>4. ASSUME NEW r
      PROVE  GoodFrame([f EXCEPT !.rest = r]) /\ Recursing([f EXCEPT !.rest = r])
  BY <1>1, <1>2, FrameDropsField DEF GoodFrame, Recursing
<1>5. ASSUME NEW v, NEW n, NEW r
      PROVE  LET g == [f EXCEPT !.at = v, !.superSlots = n, !.rest = r]
             IN  GoodFrame(g) /\ Recursing(g)
  <2> DEFINE g == [f EXCEPT !.at = v, !.superSlots = n, !.rest = r]
  <2>1. IsFrame(f)
    BY <1>2 DEF GoodFrame
  <2> HIDE DEF f
  <2>2. IsFrame(g) /\ g.op = f.op
    <3>1. PICK S : f \in [Parts -> S]
      BY <2>1 DEF IsFrame
    <3>2. f \in [Parts -> S \cup {v, n, r}]
      BY <3>1
    <3>3. g \in [Parts -> S \cup {v, n, r}]
      BY <3>2 DEF Parts
    <3> QED BY <3>1, <3>3 DEF IsFrame, Parts
  <2> HIDE DEF g, f
  <2>3. GoodFrame(g) /\ Recursing(g)
    BY <1>1, <2>2 DEF GoodFrame, Recursing
  <2> QED BY <2>3 DEF g
<1>6. \A c : Good(<<Frame("slots", c)>> \o TagCalls(c))
             /\ ~Holding(<<Frame("slots", c)>> \o TagCalls(c))
  BY TagPathGood
<1>7. CASE LookupTag(t)
  <2>1. CASE Return(t, classTag2slots[f.class])
    BY <1>1, <2>1, Returns
  <2>2. CASE Continue(t, [f EXCEPT !.at = "find"],
                      IF f.class \in DOMAIN className2classId THEN <<>>
                      ELSE <<Frame("without", f.class)>>)
    <3> DEFINE w == Frame("without", f.class)
    <3>1. GoodFrame(w) /\ Recursing(w)
      BY FramesMade DEF GoodFrame, Recursing
    <3> HIDE DEF w
    <3>2. Good(<<w>>) /\ ~Holding(<<w>>)
      BY <3>1, OneGood DEF Holding, Recursing
    <3>3. CASE f.class \in DOMAIN className2classId
      <4>1. Continue(t, [f EXCEPT !.at = "find"], <<>>)
        BY <2>2, <3>3
      <4> QED BY <1>1, <1>3, <4>1, EmptyGood, Continues
    <3>4. CASE f.class \notin DOMAIN className2classId
      <4>1. Continue(t, [f EXCEPT !.at = "find"], <<w>>)
        BY <2>2, <3>4 DEF w
      <4> QED BY <1>1, <1>3, <3>2, <4>1, Continues
    <3> QED BY <3>3, <3>4
  <2> QED BY <1>7, <2>1, <2>2 DEF LookupTag
<1>8. CASE LookupId(t)
  <2>1. ASSUME NEW v, Return(t, v)
        PROVE  \E s : Good(s) /\ ~Holding(s) /\ Goes(t, s)
    BY <1>1, <2>1, Returns
  <2>2. CASE Continue(t, [f EXCEPT !.at = "assign"],
                      <<Frame("slots", Super[f.class])>> \o TagCalls(Super[f.class]))
    BY <1>1, <1>3, <1>6, <2>2, Continues
  <2> QED BY <1>8, <2>1, <2>2 DEF LookupId
<1>9. CASE AssignSlots(t)
  <2>1. \E v : Return(t, v)
    BY <1>9 DEF AssignSlots
  <2> QED BY <1>1, <2>1, Returns
<1>10. CASE WithoutId(t)
  <2>1. CASE Continue(t, [f EXCEPT !.at = "find"], <<>>)
    BY <1>1, <1>3, <2>1, EmptyGood, Continues
  <2>2. CASE Continue(t, [f EXCEPT !.at = "find"],
                      <<Frame("slots", Super[f.class])>> \o TagCalls(Super[f.class]))
    BY <1>1, <1>3, <1>6, <2>2, Continues
  <2> QED BY <1>10, <2>1, <2>2 DEF WithoutId
<1>11. CASE SyntheticClass(t)
  <2> DEFINE g == [f EXCEPT !.at = "fields", !.superSlots = nextSyntheticId,
                            !.rest = Fields[f.class]]
             r == <<Send("SynthClassInfo", <<nextSyntheticId, f.class>>)>>
  <2>1. Continue(t, g, r)
    BY <1>11 DEF SyntheticClass
  <2>2. Good(r) /\ ~Holding(r)
    BY SendingGood
  <2> QED BY <1>1, <1>5, <2>1, <2>2, Continues
<1>12. CASE SyntheticField(t)
  <2> DEFINE g == [f EXCEPT !.rest = Tail(@)]
             r == <<Send("SynthFieldInfo", <<nextSyntheticId, <<f.class, Head(f.rest)>>>>)>>
  <2>1. CASE Goes(t, Popped(t))
    <3>1. Good(Popped(t)) /\ ~Holding(Popped(t))
      BY <1>1, TopIsGood, PoppedGood DEF Popped
    <3> QED BY <2>1, <3>1
  <2>2. CASE Continue(t, g, r)
    <3>1. Good(r) /\ ~Holding(r)
      BY SendingGood
    <3> QED BY <1>1, <1>4, <2>2, <3>1, Continues
  <2> QED BY <1>12, <2>1, <2>2 DEF SyntheticField
<1> QED BY <1>7, <1>8, <1>9, <1>10, <1>11, <1>12 DEF getSlotsForClass, handleClassWithoutId

LEMMA TagObjectStep ==
  ASSUME IInv, NEW t \in Threads, NEW c, TagObject(t, c)
  PROVE  IInv'
<1>1. Goes(t, <<Frame("slots", c)>> \o TagCalls(c)) /\ UNCHANGED <<pipes, work>>
  BY DEF TagObject, rewriter
<1>2. ~Holding(stack[t])
  BY DEF TagObject, Holding
<1> QED BY <1>1, <1>2, TagPathGood, Recurses

\* The class load hook and sendInfo take the lock and write their request.
LEMMA instrumentClassStep ==
  ASSUME IInv, NEW t \in Threads, NEW c \in Classes, instrumentClass(t, c)
  PROVE  IInv'
<1> DEFINE f == Frame("instrument", c)
           q == <<"OrigClassFile", c>>
<1>1. /\ lock = NoClass /\ lock' = t /\ Goes(t, <<f>>)
      /\ requests' = Append(requests, q) /\ UNCHANGED <<replies, work>>
  BY DEF instrumentClass, rewriter, writeUntilDone
<1>2. IsFrame(f) /\ f.op = "instrument" /\ f.class = c /\ f.at = "lookup"
  BY FramesMade
<1> HIDE DEF f
<1>3. GoodFrame(f)
  BY <1>2 DEF GoodFrame
<1>4. Good(<<f>>) /\ Top(<<f>>) = f /\ Holding(<<f>>)
  BY <1>2, <1>3, OneGood DEF Holding
<1>5. /\ stack' \in [Threads -> {stack'[u] : u \in Threads}]
      /\ \A u \in Threads : Good(stack'[u])
      /\ stack'[t] = <<f>> /\ \A u \in Threads \ {t} : stack'[u] = stack[u]
  BY <1>1, <1>4, StackStep
<1>6. Idle /\ requests = <<>> /\ replies = <<>> /\ \A u \in Threads : ~Holding(stack[u])
  BY <1>1, SlotsAssumption DEF IInv
<1>7. requests' = <<q>>
  BY <1>1, <1>6
<1>8. \A u \in Threads : Holding(stack'[u]) <=> lock' = u
  BY <1>1, <1>4, <1>5, <1>6
<1>9. Idle' /\ replies' = <<>> /\ IsSequence(replies')
  BY <1>1, <1>6 DEF Idle, IInv
<1>10. Asked(Top(stack[t]))'
  BY <1>2, <1>4, <1>5, <1>7, <1>9 DEF Asked
<1>11. lock' # NoClass
  BY <1>1, SlotsAssumption
<1> QED BY <1>1, <1>5, <1>8, <1>9, <1>10, <1>11 DEF IInv, Conversation

LEMMA SendInfoStep ==
  ASSUME IInv, NEW t \in Threads, SendInfo(t)
  PROVE  IInv'
<1> DEFINE f == TopFrame(t)
           g == [f EXCEPT !.at = "ack"]
           q == f.rest
           p == Popped(t)
           n == Append(p, g)
<1>1. /\ lock = NoClass /\ lock' = t /\ Goes(t, n \o <<>>)
      /\ requests' = Append(requests, q) /\ UNCHANGED <<replies, work>>
      /\ stack[t] # <<>> /\ f.op = "send"
  BY DEF SendInfo, rewriter, writeUntilDone, Continue, Busy
<1>2. GoodFrame(f) /\ Good(stack[t])
  BY <1>1, TopIsGood
<1>3. /\ Good(p) /\ \A i \in 1 .. Len(p) : Recursing(p[i])
  BY <1>1, <1>2, PoppedGood DEF Popped
<1>4. IsFrame(g) /\ g.op = "send" /\ g.at = "ack" /\ g.rest = q
  BY <1>1, <1>2, FrameGoesTo DEF GoodFrame
<1>5. q[1] # "OrigClassFile" /\ GoodFrame(g)
  BY <1>1, <1>2, <1>4 DEF GoodFrame
<1> HIDE DEF f, g, p
<1>6. /\ IsSequence(n) /\ n # <<>> /\ Len(p) \in Nat /\ Len(n) = Len(p) + 1
      /\ \A i \in 1 .. Len(p) : n[i] = p[i]
      /\ n[Len(p) + 1] = g
  BY <1>3, Appending DEF Good
<1> HIDE DEF n
<1>7. n \o <<>> = n
  BY <1>6 DEF IsSequence
<1>8. \A i \in 1 .. Len(n) : GoodFrame(n[i]) /\ (i # Len(n) => Recursing(n[i]))
  BY <1>3, <1>5, <1>6 DEF Good
<1>9. Good(n) /\ Top(n) = g /\ Holding(n)
  BY <1>4, <1>6, <1>8 DEF Good, Holding, Top
<1>10. /\ stack' \in [Threads -> {stack'[u] : u \in Threads}]
       /\ \A u \in Threads : Good(stack'[u])
       /\ stack'[t] = n /\ \A u \in Threads \ {t} : stack'[u] = stack[u]
  BY <1>1, <1>7, <1>9, StackStep
<1>11. Idle /\ requests = <<>> /\ replies = <<>> /\ \A u \in Threads : ~Holding(stack[u])
  BY <1>1, SlotsAssumption DEF IInv
<1>12. requests' = <<q>>
  BY <1>1, <1>11
<1>13. \A u \in Threads : Holding(stack'[u]) <=> lock' = u
  BY <1>1, <1>9, <1>10, <1>11
<1>14. Idle' /\ replies' = <<>> /\ IsSequence(replies')
  BY <1>1, <1>11 DEF Idle, IInv
<1>15. Asked(Top(stack[t]))'
  BY <1>4, <1>5, <1>9, <1>10, <1>12, <1>14 DEF Asked
<1>16. lock' # NoClass
  BY <1>1, SlotsAssumption
<1> QED BY <1>1, <1>10, <1>13, <1>14, <1>15, <1>16 DEF IInv, Conversation

\* A thread that has read all of its answer gives the lock back.
LEMMA Releases ==
  ASSUME IInv, NEW t \in Threads, lock = t, lock' = NoClass,
         NEW s, Good(s), ~Holding(s), Goes(t, s),
         Idle', requests' = <<>>, replies' = <<>>
  PROVE  IInv'
<1>1. /\ stack' \in [Threads -> {stack'[u] : u \in Threads}]
      /\ \A u \in Threads : Good(stack'[u])
      /\ stack'[t] = s /\ \A u \in Threads \ {t} : stack'[u] = stack[u]
  BY StackStep
<1>2. IsSequence(replies')
  <2>1. <<>> \in Seq({})
    OBVIOUS
  <2> QED BY <2>1 DEF IsSequence
<1>3. \A u \in Threads : lock' # u
  BY SlotsAssumption
<1>4. \A u \in Threads : ~Holding(stack'[u])
  BY <1>1 DEF IInv
<1> QED BY <1>1, <1>2, <1>3, <1>4 DEF IInv

\* The holder of the lock is in the middle of the conversation that its frame says.
LEMMA Holds ==
  ASSUME IInv, NEW t \in Threads, Holding(stack[t])
  PROVE  lock = t /\ Conversation(TopFrame(t)) /\ GoodFrame(TopFrame(t))
BY TopIsGood DEF IInv, Holding

\* The conversation of the holder of the lock goes on.
LEMMA InHand ==
  ASSUME IInv, NEW t \in Threads, lock = t, UNCHANGED <<lock, stack>>,
         IsSequence(replies'), Conversation(TopFrame(t))'
  PROVE  IInv'
<1>1. Conversation(Top(stack[t]))'
  BY DEF Conversation, Asked, AtWork, Answered, TopFrame, Top
<1>2. \A u \in Threads : Good(stack'[u]) /\ (Holding(stack'[u]) <=> lock' = u)
  BY DEF IInv
<1>3. lock' = t /\ t # NoClass
  BY SlotsAssumption
<1> QED BY <1>1, <1>2, <1>3 DEF IInv

LEMMA ReadAckStep ==
  ASSUME IInv, NEW t \in Threads, ReadAck(t)
  PROVE  IInv'
<1>1. /\ stack[t] # <<>> /\ TopFrame(t).op = "send" /\ Holding(stack[t])
      /\ replies # <<>> /\ replies' = Tail(replies) /\ lock' = NoClass
      /\ Goes(t, Popped(t)) /\ UNCHANGED <<requests, work>>
  BY DEF ReadAck, Busy, Holding, TopFrame, Top, rewriter
<1>2. lock = t /\ Answered(TopFrame(t))
  BY <1>1, Holds DEF Conversation, Asked, AtWork
<1>3. Idle' /\ requests' = <<>> /\ replies' = <<>>
  <2>1. Idle' /\ requests' = <<>> /\ replies = <<<<"Ack", NoClass>>>>
    BY <1>1, <1>2 DEF Answered, Idle
  <2>2. Tail(<<<<"Ack", NoClass>>>>) = <<>>
    OBVIOUS
  <2> QED BY <1>1, <2>1, <2>2
<1>4. Good(Popped(t)) /\ ~Holding(Popped(t))
  BY <1>1, TopIsGood, PoppedGood DEF Popped
<1> QED BY <1>1, <1>2, <1>3, <1>4, Releases

LEMMA ReadRecordStep ==
  ASSUME IInv, NEW t \in Threads, ReadRecord(t)
  PROVE  IInv'
<1> DEFINE f == TopFrame(t)
<1>1. /\ stack[t] # <<>> /\ f.op = "instrument" /\ Holding(stack[t])
      /\ replies # <<>> /\ replies' = Tail(replies) /\ UNCHANGED <<requests, work>>
      /\ \/ Head(replies)[1] \in {"ClassInfo", "FieldInfo"} /\ UNCHANGED <<lock, stack>>
         \/ Head(replies)[1] = "InstClassFile" /\ lock' = NoClass /\ Goes(t, <<>>)
  BY DEF ReadRecord, Busy, Holding, TopFrame, Top, rewriter, readUntilDone
<1>2. lock = t /\ Conversation(f)
  BY <1>1, Holds
<1>3. /\ IsSequence(Tail(replies)) /\ Len(replies) \in Nat \ {0}
      /\ Len(Tail(replies)) = Len(replies) - 1 /\ Head(replies) = replies[1]
      /\ \A i \in 1 .. Len(replies) - 1 : Tail(replies)[i] = replies[i + 1]
  BY <1>1, Tailing DEF IInv
<1>4. CASE Head(replies)[1] \in {"ClassInfo", "FieldInfo"} /\ UNCHANGED <<lock, stack>>
  <2>1. ASSUME AtWork(f) PROVE Conversation(f)'
    <3>1. \A i \in 1 .. Len(replies') : Informing(i)'
      BY <1>1, <1>3, <2>1 DEF AtWork, Informing
    <3>2. AtWork(f)'
      BY <1>1, <1>4, <2>1, <3>1 DEF AtWork, TopFrame
    <3> QED BY <3>2 DEF Conversation
  <2>2. ASSUME Answered(f) PROVE Conversation(f)'
    <3>1. Len(replies) # 1
      BY <1>1, <1>3, <1>4, <2>2 DEF Answered
    <3>2. \A i \in 1 .. Len(replies') - 1 : Informing(i)'
      BY <1>1, <1>3, <2>2 DEF Answered, Informing
    <3>3. replies' # <<>> /\ replies'[Len(replies')] = <<"InstClassFile", f.class>>
      BY <1>1, <1>3, <2>2, <3>1 DEF Answered
    <3>4. Answered(f)'
      BY <1>1, <1>4, <2>2, <3>2, <3>3 DEF Answered, TopFrame, Idle
    <3> QED BY <3>4 DEF Conversation
  <2>3. Conversation(f)'
    BY <1>1, <1>2, <2>1, <2>2 DEF Conversation, Asked
  <2> QED BY <1>1, <1>2, <1>3, <1>4, <2>3, InHand
<1>5. CASE Head(replies)[1] = "InstClassFile" /\ lock' = NoClass /\ Goes(t, <<>>)
  <2>1. Answered(f)
    BY <1>1, <1>2, <1>3, <1>5 DEF Conversation, Asked, AtWork, Informing
  <2>2. Len(replies) = 1
    BY <1>1, <1>3, <1>5, <2>1 DEF Answered, Informing
  <2>3. replies' = <<>> /\ requests' = <<>> /\ Idle'
    <3>1. Tail(replies) = <<>>
      <4>1. IsSequence(Tail(replies)) /\ Len(Tail(replies)) = 0
        BY <1>3, <2>2
      <4> QED BY <4>1, EmptyIsZero
    <3> QED BY <1>1, <2>1, <3>1 DEF Answered, Idle
  <2> QED BY <1>2, <1>5, <2>3, EmptyGood, Releases
<1> QED BY <1>1, <1>4, <1>5

\* The rewriter works only for the thread that has the lock.
LEMMA RewriterStep ==
  ASSUME IInv, Rewriter
  PROVE  IInv'
<1>1. UNCHANGED <<lock, stack>> /\ (~Idle \/ requests # <<>>)
  BY DEF Rewriter, Visit, newFieldId, WriteClass, Synthetic
<1>2. PICK t \in Threads : lock = t
  BY <1>1 DEF IInv
<1> DEFINE f == TopFrame(t)
<1>3. Holding(stack[t]) /\ Conversation(f) /\ GoodFrame(f) /\ UNCHANGED f
  BY <1>1, <1>2, Holds DEF IInv, TopFrame
<1>4. f.op = "instrument" => f.class \in Classes /\ f.class # NoClass
  BY <1>3, SlotsAssumption DEF GoodFrame
<1>5. \A x : /\ IsSequence(Append(replies, x)) /\ Append(replies, x) # <<>>
             /\ Len(replies) \in Nat /\ Len(Append(replies, x)) = Len(replies) + 1
             /\ \A i \in 1 .. Len(replies) : Append(replies, x)[i] = replies[i]
             /\ Append(replies, x)[Len(replies) + 1] = x
  BY Appending DEF IInv
<1>6. AtWork(f) => ~Idle
  BY <1>4 DEF AtWork, Idle
<1> SUFFICES IsSequence(replies') /\ Conversation(f)'
  BY <1>1, <1>2, InHand
<1> HIDE DEF f
<1>7. CASE Visit
  <2>1. Asked(f) /\ f.op = "instrument" /\ Head(requests)[2] = f.class
    <3>1. Asked(f)
      BY <1>3, <1>6, <1>7 DEF Visit, Conversation, Answered
    <3>2. PICK q : /\ requests = <<q>>
                   /\ IF f.op = "instrument" THEN q = <<"OrigClassFile", f.class>>
                      ELSE q[1] # "OrigClassFile"
      BY <3>1 DEF Asked
    <3>3. Head(requests) = q
      BY <3>2
    <3> QED BY <1>7, <3>1, <3>2, <3>3 DEF Visit
  <2>2. requests' = <<>> /\ work'[1] = f.class
    BY <1>7, <2>1 DEF Visit, Asked
  <2>3. PICK x : replies' = Append(replies, <<"ClassInfo", x>>)
    BY <1>7 DEF Visit
  <2>4. Len(replies) = 0
    BY <2>1, EmptyIsZero DEF Asked, IInv
  <2>5. \A i \in 1 .. Len(replies') : Informing(i)'
    BY <1>5, <2>3, <2>4 DEF Informing
  <2>6. AtWork(f)'
    BY <1>3, <2>1, <2>2, <2>5 DEF AtWork
  <2> QED BY <1>5, <2>3, <2>6 DEF Conversation
<1>8. CASE newFieldId
  <2>1. AtWork(f) /\ requests' = <<>> /\ work'[1] = f.class
    BY <1>3, <1>8 DEF newFieldId, Conversation, Asked, AtWork, Answered
  <2>2. \/ replies' = replies
        \/ \E x : replies' = Append(replies, <<"FieldInfo", x>>)
    BY <1>8 DEF newFieldId
  <2>3. \A i \in 1 .. Len(replies') : Informing(i)'
    BY <1>5, <2>1, <2>2 DEF AtWork, Informing
  <2>4. AtWork(f)'
    BY <1>3, <2>1, <2>3 DEF AtWork
  <2> QED BY <1>5, <2>2, <2>4 DEF Conversation, IInv
<1>9. CASE WriteClass
  <2>1. AtWork(f)
    BY <1>3, <1>9 DEF WriteClass, Conversation, Asked, Answered
  <2>2. /\ Idle' /\ requests' = <<>>
        /\ replies' = Append(replies, <<"InstClassFile", f.class>>)
    BY <1>9, <2>1 DEF WriteClass, AtWork, Idle
  <2>3. \A i \in 1 .. Len(replies') - 1 : Informing(i)'
    BY <1>5, <2>1, <2>2 DEF AtWork, Informing
  <2>4. Answered(f)'
    BY <1>3, <1>5, <2>1, <2>2, <2>3 DEF Answered, AtWork
  <2> QED BY <1>5, <2>2, <2>4 DEF Conversation
<1>10. CASE Synthetic
  <2>1. Asked(f) /\ f.op # "instrument"
    <3>1. Asked(f)
      BY <1>3, <1>6, <1>10 DEF Synthetic, Conversation, Answered
    <3>2. PICK q : /\ requests = <<q>>
                   /\ IF f.op = "instrument" THEN q = <<"OrigClassFile", f.class>>
                      ELSE q[1] # "OrigClassFile"
      BY <3>1 DEF Asked
    <3>3. Head(requests) = q
      BY <3>2
    <3> QED BY <1>10, <3>1, <3>2, <3>3 DEF Synthetic
  <2>2. Idle' /\ requests' = <<>> /\ replies' = Append(<<>>, <<"Ack", NoClass>>)
    BY <1>10, <2>1 DEF Synthetic, Asked, Idle
  <2>3. replies' = <<<<"Ack", NoClass>>>>
    BY <2>2
  <2>4. Answered(f)'
    BY <1>3, <2>1, <2>2, <2>3 DEF Answered
  <2>5. replies' = Append(replies, <<"Ack", NoClass>>)
    BY <1>10 DEF Synthetic
  <2> QED BY <1>5, <2>4, <2>5 DEF Conversation
<1> QED BY <1>7, <1>8, <1>9, <1>10 DEF Rewriter

LEMMA InitIInv == Init => IInv
<1> SUFFICES ASSUME Init PROVE IInv
  OBVIOUS
<1>1. /\ lock = NoClass /\ requests = <<>> /\ replies = <<>> /\ work[1] = NoClass
      /\ stack = [t \in Threads |-> <<>>]
  BY DEF Init
<1>2. IsSequence(<<>>)
  BY EmptyGood DEF Good
<1>3. \A t \in Threads : stack[t] = <<>> /\ lock # t
  BY <1>1, SlotsAssumption
<1> QED BY <1>1, <1>2, <1>3, EmptyGood DEF IInv, Idle

LEMMA NextIInv == IInv /\ [Next]_vars => IInv'
<1> SUFFICES ASSUME IInv, [Next]_vars PROVE IInv'
  OBVIOUS
<1>1. CASE UNCHANGED vars
  <2>1. UNCHANGED <<lock, requests, replies, work, stack>>
    BY <1>1 DEF vars, pipes, rewriter
  <2> QED BY <2>1 DEF IInv, Conversation, Asked, AtWork, Answered, Idle, Informing
<1>2. CASE Rewriter
  BY <1>2, RewriterStep
<1>3. ASSUME NEW t \in Threads, Works(t)
      PROVE  IInv'
  BY <1>3, ReadRecordStep, SendInfoStep, ReadAckStep, RecursionStep DEF Works
<1>4. ASSUME NEW t \in Threads, NEW c \in Classes, instrumentClass(t, c) \/ TagObject(t, c)
      PROVE  IInv'
  BY <1>4, instrumentClassStep, TagObjectStep
<1> QED BY <1>1, <1>2, <1>3, <1>4 DEF Next

LEMMA IInvImplies == IInv => RepliesMatch
<1> SUFFICES ASSUME IInv PROVE RepliesMatch
  OBVIOUS
<1>1. lock = NoClass => replies = <<>> /\ requests = <<>>
  BY DEF IInv
<1>2. ASSUME NEW t \in Threads, Busy(t, "instrument", "lookup")
      PROVE  \A i \in DOMAIN replies :
               /\ replies[i][1] # "Ack"
               /\ replies[i][1] = "InstClassFile" =>
                    replies[i][2] = TopFrame(t).class /\ i = Len(replies)
  <2> DEFINE f == TopFrame(t)
  <2>1. Holding(stack[t]) /\ f.op = "instrument"
    BY <1>2 DEF Busy, Holding, TopFrame, Top
  <2>2. Conversation(f)
    BY <2>1, Holds
  <2> HIDE DEF f
  <2>3. Len(replies) \in Nat /\ DOMAIN replies = 1 .. Len(replies)
    BY DEF IInv, IsSequence
  <2>4. (replies = <<>>) => (DOMAIN replies = {})
    OBVIOUS
  <2>5. \A n \in Nat : \A i \in 1 .. n : i \in 1 .. n - 1 \/ i = n
    OBVIOUS
  <2>6. ASSUME NEW i \in DOMAIN replies
        PROVE  Informing(i) \/ (replies[i] = <<"InstClassFile", f.class>> /\ i = Len(replies))
    BY <2>1, <2>2, <2>3, <2>4, <2>5 DEF Conversation, Asked, AtWork, Answered
  <2> QED BY <2>6 DEF Informing, f
<1>3. ASSUME NEW t \in Threads, Busy(t, "send", "ack")
      PROVE  replies \in {<<>>, <<<<"Ack", NoClass>>>>}
  <2>1. Holding(stack[t]) /\ TopFrame(t).op = "send"
    BY <1>3 DEF Busy, Holding, TopFrame, Top
  <2>2. Conversation(TopFrame(t))
    BY <2>1, Holds
  <2> QED BY <2>1, <2>2 DEF Conversation, Asked, AtWork, Answered
<1> QED BY <1>1, <1>2, <1>3 DEF RepliesMatch

(* A thread finds in the pipe only the answer to its own request, and the  *)
(* pipes are empty when nobody has instrumenterLock (instrumentClass,      *)
(* sendInfo).                                                              *)
THEOREM RepliesMatchTheirRequests == Spec => []RepliesMatch
BY InitIInv, NextIInv, IInvImplies, PTL DEF Spec

-----------------------------------------------------------------------------
(* Types.  The numbers of the rewriter stay below SYNTHETIC_ID_BASE: a     *)
(* number is drawn for a class or a field that has none, so there are no   *)
(* more numbers than classes and fields.  A class gets a made up number    *)
(* only if the VM did not tell of it, because a class whose new file the   *)
(* VM has was recorded before, and objects are made only of linked         *)
(* classes.                                                                *)

\* Ancestors is what its equation says: the least set that is closed under Super.
LEMMA AncestorsFacts ==
  \A c \in Classes :
    Ancestors[c] = {c} \cup IF Super[c] = NoClass THEN {} ELSE Ancestors[Super[c]]
<1> DEFINE Closed(S) == \A x \in S : Super[x] # NoClass => Super[x] \in S
           A(c) == {x \in Classes : \A S \in SUBSET Classes : Closed(S) /\ c \in S => x \in S}
           f == [c \in Classes |-> A(c)]
           Eq(g) == g = [c \in Classes |->
                          {c} \cup IF Super[c] = NoClass THEN {} ELSE g[Super[c]]]
<1>1. ASSUME NEW c \in Classes
      PROVE  /\ c \in A(c) /\ Closed(A(c)) /\ A(c) \in SUBSET Classes
             /\ \A S \in SUBSET Classes : Closed(S) /\ c \in S => A(c) \subseteq S
  <2>1. Closed(A(c))
    BY SlotsAssumption
  <2> QED BY <2>1
<1>2. ASSUME NEW c \in Classes
      PROVE  A(c) = {c} \cup IF Super[c] = NoClass THEN {} ELSE A(Super[c])
  <2> DEFINE s == Super[c]
             U == {c} \cup IF s = NoClass THEN {} ELSE A(s)
  <2>1. s # NoClass => s \in Classes
    BY SlotsAssumption
  <2>2. s # NoClass => s \in A(s) /\ Closed(A(s)) /\ A(s) \in SUBSET Classes
    BY <1>1, <2>1
  <2>3. c \in A(c) /\ Closed(A(c)) /\ A(c) \in SUBSET Classes
    BY <1>1
  <2>4. s # NoClass => A(s) \subseteq A(c)
    <3>1. s # NoClass => s \in A(c)
      BY <2>3
    <3> HIDE DEF A, s, Closed
    <3> QED BY <1>1, <2>1, <2>3, <3>1
  <2>5. U \in SUBSET Classes /\ c \in U
    BY <2>2
  <2>6. Closed(U)
    <3> HIDE DEF A
    <3> QED BY <2>2
  <2>7. A(c) \subseteq U
    <3> HIDE DEF A, U, Closed
    <3> QED BY <1>1, <2>5, <2>6
  <2>8. U \subseteq A(c)
    <3> HIDE DEF A
    <3> QED BY <2>3, <2>4
  <2> HIDE DEF A
  <2> QED BY <2>7, <2>8
<1>3. Eq(f)
  <2>1. \A c \in Classes : f[c] = {c} \cup IF Super[c] = NoClass THEN {} ELSE f[Super[c]]
    <3> HIDE DEF A
    <3> QED BY <1>2, SlotsAssumption
  <2> QED BY <2>1
<1>4. Ancestors = CHOOSE g : Eq(g)
  BY DEF Ancestors
<1>5. Eq(Ancestors)
  <2> HIDE DEF Eq, f
  <2> QED BY <1>3, <1>4
<1> QED BY <1>5

\* What a class of a hierarchy that is loaded may be.
Known(c) == c \in Classes /\ Linked(c)

LEMMA KnownFacts ==
  ASSUME NEW c, Known(c)
  PROVE  /\ Known(Class) /\ c \in loaded \cup Untold
         /\ Super[c] # NoClass => Known(Super[c])
<1>1. \A d \in Classes : d \in Ancestors[d] /\ (Super[d] # NoClass => Ancestors[Super[d]] \subseteq Ancestors[d])
  BY AncestorsFacts
<1>2. Super[c] # NoClass => Super[c] \in Classes
  BY SlotsAssumption DEF Known
<1> QED BY <1>1, <1>2, SlotsAssumption DEF Known, Linked

\* A request with a made up number, and a frame.
SyntheticRequest(q) ==
  /\ q[1] \in {"SynthClassInfo", "SynthFieldInfo"}
  /\ q[1] = "SynthClassInfo" => q[2][2] \in Untold
  /\ q[1] = "SynthFieldInfo" => q[2][2] \in FieldKeys /\ q[2][2][1] \in Untold

FrameOK(f) ==
  /\ IsFrame(f)
  /\ f.op \in {"instrument", "send", "slots", "without"}
  /\ f.at \in {"lookup", "find", "assign", "fields", "ack"}
  /\ f.op = "instrument" => f.class \in Classes \ Untold
  /\ f.op = "send" => SyntheticRequest(f.rest)
  /\ f.op \in {"slots", "without"} => Known(f.class)
  /\ f.op = "without" => f.class \in Untold
  /\ f.op = "without" /\ f.at = "fields" =>
       f.rest \in Seq(Names) /\ \A i \in 1 .. Len(f.rest) : <<f.class, f.rest[i]>> \in FieldKeys

StackOK(s) == IsSequence(s) /\ \A i \in 1 .. Len(s) : FrameOK(s[i])

RequestOK(q) == \/ q[1] = "OrigClassFile" /\ q[2] \in Classes \ Untold
                \/ SyntheticRequest(q)

ReplyOK(r) ==
  /\ r[1] = "ClassInfo" => /\ r[2][2] \in Classes \ Untold
                           /\ r[2][1] \in Nat /\ r[2][1] < SYNTHETIC_ID_BASE

\* The record of the class is in the table, or in the first n places of the pipe.
Informed(c, n) ==
  \/ c \in DOMAIN className2classId
  \/ \E i \in 1 .. n : replies[i][1] = "ClassInfo" /\ replies[i][2][2] = c

PipesOK ==
  /\ IsSequence(requests) /\ \A i \in 1 .. Len(requests) : RequestOK(requests[i])
  /\ IsSequence(replies) /\ \A i \in 1 .. Len(replies) : ReplyOK(replies[i])
  /\ \A i \in 1 .. Len(replies) :
       replies[i][1] = "InstClassFile" => Informed(replies[i][2], i - 1)

RewriterOK ==
  /\ DOMAIN classIds \subseteq Classes /\ DOMAIN fieldIdTables \subseteq FieldKeys
  /\ lastClassId \in Nat /\ lastClassId <= Cardinality(DOMAIN classIds)
  /\ lastFieldId \in Nat /\ lastFieldId <= Cardinality(DOMAIN fieldIdTables)
  /\ \A c \in DOMAIN classIds \ Untold : classIds[c] \in Nat /\ classIds[c] <= lastClassId
  /\ ~Idle => /\ work[2] \in Seq(FieldKeys)
              /\ Informed(work[1], Len(replies))

AgentOK ==
  /\ DOMAIN className2classId \subseteq Classes
  /\ \A c \in DOMAIN className2classId :
       /\ className2classId[c] \in Nat
       /\ className2classId[c] >= SYNTHETIC_ID_BASE <=> c \in Untold
  /\ nextSyntheticId \in Nat /\ nextSyntheticId >= SYNTHETIC_ID_BASE
  /\ loaded \subseteq DOMAIN className2classId \ Untold
  /\ instanced \subseteq Classes /\ classTagged \subseteq Classes

Typed == PipesOK /\ RewriterOK /\ AgentOK /\ \A t \in Threads : StackOK(stack[t])

LEMMA TypedImplies == IInv /\ Typed => TypeOK
<1> SUFFICES ASSUME IInv, Typed PROVE TypeOK
  OBVIOUS
<1>1. lastClassId < SYNTHETIC_ID_BASE
  <2>1. Cardinality(DOMAIN classIds) <= Cardinality(Classes)
    BY NumbersAssumption, FS_Subset DEF Typed, RewriterOK
  <2>2. Cardinality(Classes) \in Nat /\ Cardinality(DOMAIN classIds) \in Nat
    BY NumbersAssumption, FS_Subset, FS_CardinalityType DEF Typed, RewriterOK
  <2> QED BY <2>1, <2>2, NumbersAssumption, SlotsAssumption DEF Typed, RewriterOK
<1>2. lastFieldId < SYNTHETIC_ID_BASE
  <2>1. Cardinality(DOMAIN fieldIdTables) <= Cardinality(FieldKeys)
    BY NumbersAssumption, FS_Subset DEF Typed, RewriterOK
  <2>2. Cardinality(FieldKeys) \in Nat /\ Cardinality(DOMAIN fieldIdTables) \in Nat
    BY NumbersAssumption, FS_Subset, FS_CardinalityType DEF Typed, RewriterOK
  <2> QED BY <2>1, <2>2, NumbersAssumption, SlotsAssumption DEF Typed, RewriterOK
<1>3. \A t \in Threads : \A i \in DOMAIN stack[t] : FrameOK(stack[t][i])
  BY DEF Typed, StackOK, IsSequence
<1> QED BY <1>1, <1>2, <1>3 DEF TypeOK, IInv, Typed, AgentOK, RewriterOK, FrameOK

-----------------------------------------------------------------------------
(* Types of frames and stacks.                                             *)

\* Changes of a frame.
LEMMA FrameKeeps ==
  ASSUME NEW f, IsFrame(f), NEW v
  PROVE  /\ LET g == [f EXCEPT !.superSlots = v]
            IN  IsFrame(g) /\ g.op = f.op /\ g.class = f.class /\ g.at = f.at /\ g.rest = f.rest
         /\ LET g == [f EXCEPT !.rest = v]
            IN  IsFrame(g) /\ g.op = f.op /\ g.class = f.class /\ g.at = f.at /\ g.rest = v
<1>1. PICK S : f \in [Parts -> S]
  BY DEF IsFrame
<1>2. f \in [Parts -> S \cup {v}]
  BY <1>1
<1>3. /\ [f EXCEPT !.superSlots = v] \in [Parts -> S \cup {v}]
      /\ [f EXCEPT !.rest = v] \in [Parts -> S \cup {v}]
  BY <1>2 DEF Parts
<1> QED BY <1>1, <1>3 DEF IsFrame, Parts

\* What is typed stays so when more classes are loaded.
LEMMA TypesStay ==
  ASSUME loaded \subseteq loaded'
  PROVE  /\ \A c : Known(c) => Known(c)'
         /\ \A f : FrameOK(f) => FrameOK(f)'
         /\ \A s : StackOK(s) => StackOK(s)'
<1>1. \A c : Known(c) => Known(c)'
  BY DEF Known, Linked
<1>2. \A f : FrameOK(f) => FrameOK(f)'
  BY <1>1 DEF FrameOK, SyntheticRequest
<1> QED BY <1>1, <1>2 DEF StackOK

LEMMA EmptyOK == StackOK(<<>>)
BY EmptyGood DEF StackOK, Good

LEMMA PoppedOK ==
  ASSUME NEW s, StackOK(s), s # <<>>
  PROVE  /\ StackOK(SubSeq(s, 1, Len(s) - 1))
         /\ FrameOK(s[Len(s)])
BY Popping DEF StackOK

LEMMA OneOK ==
  ASSUME NEW f, FrameOK(f)
  PROVE  StackOK(<<f>>)
<1>1. <<f>> \in Seq({f}) /\ Len(<<f>>) = 1 /\ <<f>>[1] = f
  OBVIOUS
<1>2. \A i \in 1 .. Len(<<f>>) : <<f>>[i] = f
  BY <1>1
<1>3. IsSequence(<<f>>)
  BY <1>1 DEF IsSequence
<1> QED BY <1>2, <1>3 DEF StackOK

LEMMA JoinedOK ==
  ASSUME NEW s, StackOK(s), NEW r, StackOK(r)
  PROVE  StackOK(s \o r)
<1>1. /\ IsSequence(s \o r) /\ Len(s) \in Nat /\ Len(r) \in Nat
      /\ Len(s \o r) = Len(s) + Len(r)
      /\ \A i \in 1 .. Len(s) : (s \o r)[i] = s[i]
      /\ \A i \in 1 .. Len(r) : (s \o r)[Len(s) + i] = r[i]
  BY Joining DEF StackOK
<1> DEFINE n == s \o r
<1> HIDE DEF n
<1>2. ASSUME NEW i \in 1 .. Len(n)
      PROVE  FrameOK(n[i])
  <2>1. CASE i \in 1 .. Len(s)
    BY <1>1, <2>1 DEF StackOK, n
  <2>2. CASE i \notin 1 .. Len(s)
    <3>1. i - Len(s) \in 1 .. Len(r) /\ i = Len(s) + (i - Len(s))
      BY <1>1, <2>2 DEF n
    <3>2. n[i] = r[i - Len(s)]
      BY <1>1, <3>1 DEF n
    <3> QED BY <3>1, <3>2 DEF StackOK
  <2> QED BY <2>1, <2>2
<1> QED BY <1>1, <1>2 DEF StackOK, n

LEMMA PushedOK ==
  ASSUME NEW s, StackOK(s), s # <<>>, NEW f, FrameOK(f), NEW r, StackOK(r)
  PROVE  StackOK(Append(SubSeq(s, 1, Len(s) - 1), f) \o r)
<1> DEFINE p == SubSeq(s, 1, Len(s) - 1)
           a == Append(p, f)
<1>1. StackOK(p)
  BY PoppedOK
<1> HIDE DEF p
<1>2. /\ IsSequence(a) /\ Len(p) \in Nat /\ Len(a) = Len(p) + 1
      /\ \A i \in 1 .. Len(p) : a[i] = p[i]
      /\ a[Len(p) + 1] = f
  BY <1>1, Appending DEF StackOK
<1>3. StackOK(a)
  <2> HIDE DEF a
  <2> QED BY <1>1, <1>2 DEF StackOK
<1> HIDE DEF a
<1> QED BY <1>3, JoinedOK DEF a, p

LEMMA ReturnedOK ==
  ASSUME NEW s, StackOK(s), s # <<>>, NEW v
  PROVE  LET p == SubSeq(s, 1, Len(s) - 1)
         IN  p # <<>> => StackOK([p EXCEPT ![Len(p)].superSlots = v])
<1> DEFINE p == SubSeq(s, 1, Len(s) - 1)
           f == p[Len(p)]
           g == [f EXCEPT !.superSlots = v]
           n == [p EXCEPT ![Len(p)] = g]
<1>1. StackOK(p)
  BY PoppedOK
<1> HIDE DEF p
<1> SUFFICES ASSUME p # <<>> PROVE StackOK(n)
  BY DEF p
<1>2. Len(p) \in Nat \ {0} /\ Len(p) \in 1 .. Len(p)
  BY <1>1, EmptyIsZero DEF StackOK
<1>3. FrameOK(f)
  BY <1>1, <1>2 DEF StackOK
<1> HIDE DEF f
<1>4. IsFrame(g) /\ g.op = f.op /\ g.class = f.class /\ g.at = f.at /\ g.rest = f.rest
  BY <1>3, FrameKeeps DEF FrameOK
<1> HIDE DEF g
<1>5. FrameOK(g)
  BY <1>3, <1>4 DEF FrameOK
<1>6. PICK S : p \in Seq(S)
  BY <1>1 DEF StackOK, IsSequence
<1>7. p \in Seq(S \cup {g})
  BY <1>6
<1>8. n \in Seq(S \cup {g}) /\ Len(n) = Len(p)
  BY <1>2, <1>7
<1>9. \A i \in 1 .. Len(p) : n[i] = IF i = Len(p) THEN g ELSE p[i]
  BY <1>2, <1>7
<1> HIDE DEF n
<1> QED BY <1>1, <1>5, <1>8, <1>9 DEF StackOK, IsSequence

\* The frames of calls.
LEMMA CallsOK ==
  ASSUME NEW c, Known(c)
  PROVE  /\ FrameOK(Frame("slots", c))
         /\ c \in Untold => FrameOK(Frame("without", c))
BY FramesMade DEF FrameOK

LEMMA TagPathOK ==
  ASSUME NEW c, Known(c)
  PROVE  StackOK(<<Frame("slots", c)>> \o TagCalls(c))
<1> DEFINE f == Frame("slots", Class)
           g == Frame("slots", c)
<1>1. FrameOK(f) /\ FrameOK(g)
  BY KnownFacts, CallsOK
<1> HIDE DEF f, g
<1>2. StackOK(<<f>>) /\ StackOK(<<g>>)
  BY <1>1, OneOK
<1>3. StackOK(<<f>> \o <<f>>)
  BY <1>2, JoinedOK
<1>4. <<f, f>> = <<f>> \o <<f>>
  OBVIOUS
<1>5. TagCalls(c) \in {<<>>, <<f>>, <<f, f>>}
  BY DEF TagCalls, f
<1>6. StackOK(TagCalls(c))
  BY <1>2, <1>3, <1>4, <1>5, EmptyOK
<1> QED BY <1>2, <1>6, JoinedOK DEF g

LEMMA SendOK ==
  ASSUME NEW k, NEW p, SyntheticRequest(<<k, p>>)
  PROVE  StackOK(<<Send(k, p)>>)
<1> DEFINE f == Send(k, p)
<1>1. IsFrame(f) /\ f.op = "send" /\ f.at = "lookup" /\ f.rest = <<k, p>>
  BY SendsMade
<1> HIDE DEF f
<1>2. FrameOK(f)
  BY <1>1 DEF FrameOK
<1> QED BY <1>2, OneOK DEF f

-----------------------------------------------------------------------------
(* Steps.                                                                  *)

TInv == IInv /\ Typed

\* More classes in the table, and nothing new in the pipes and at the rewriter.
LEMMA PipesStay ==
  ASSUME Typed, UNCHANGED <<requests, replies, rewriter>>,
         DOMAIN className2classId \subseteq DOMAIN className2classId'
  PROVE  PipesOK' /\ RewriterOK'
<1>1. \A c, n : Informed(c, n) => Informed(c, n)'
  BY DEF Informed
<1>2. PipesOK'
  <2>1. \A q : RequestOK(q) => RequestOK(q)'
    BY DEF RequestOK, SyntheticRequest
  <2>2. \A r : ReplyOK(r) => ReplyOK(r)'
    BY DEF ReplyOK
  <2> QED BY <1>1, <2>1, <2>2 DEF Typed, PipesOK
<1>3. RewriterOK'
  BY <1>1 DEF Typed, RewriterOK, rewriter, Idle
<1> QED BY <1>2, <1>3

\* One stack changes.
LEMMA StacksOK ==
  ASSUME TInv, NEW t \in Threads, NEW s, StackOK(s), Goes(t, s), UNCHANGED loaded
  PROVE  \A u \in Threads : StackOK(stack[u])'
<1>1. \A q : StackOK(q) => StackOK(q)'
  BY TypesStay
<1>2. stack'[t] = s /\ \A u \in Threads \ {t} : stack'[u] = stack[u]
  BY DEF TInv, IInv, Goes
<1> QED BY <1>1, <1>2 DEF TInv, Typed

LEMMA TopOK ==
  ASSUME TInv, NEW t \in Threads, stack[t] # <<>>
  PROVE  StackOK(stack[t]) /\ FrameOK(TopFrame(t)) /\ StackOK(Popped(t))
BY PoppedOK DEF TInv, Typed, TopFrame, Popped

LEMMA ReturnsOK ==
  ASSUME TInv, NEW t \in Threads, stack[t] # <<>>, TopFrame(t).op = "slots",
         NEW v, Return(t, v)
  PROVE  /\ \E s : StackOK(s) /\ Goes(t, s)
         /\ instanced' \subseteq Classes
<1> DEFINE p == Popped(t)
           n == [p EXCEPT ![Len(p)].superSlots = v]
<1>1. StackOK(stack[t]) /\ FrameOK(TopFrame(t))
  BY TopOK
<1>2. p = SubSeq(stack[t], 1, Len(stack[t]) - 1) /\ StackOK(p)
  BY TopOK DEF Popped
<1>3. instanced' \subseteq Classes
  BY <1>1 DEF Return, FrameOK, Known, TInv, Typed, AgentOK
<1>4. CASE p = <<>>
  <2>1. Goes(t, p)
    BY <1>4 DEF Return
  <2> QED BY <1>2, <1>3, <2>1
<1>5. CASE p # <<>>
  <2>1. Goes(t, n)
    BY <1>5 DEF Return
  <2>2. StackOK(n)
    BY <1>1, <1>2, <1>5, ReturnedOK
  <2> QED BY <1>3, <2>1, <2>2
<1> QED BY <1>4, <1>5

LEMMA ContinuesOK ==
  ASSUME TInv, NEW t \in Threads, stack[t] # <<>>, NEW f, FrameOK(f),
         NEW r, StackOK(r), Continue(t, f, r)
  PROVE  \E s : StackOK(s) /\ Goes(t, s)
<1> DEFINE n == Append(SubSeq(stack[t], 1, Len(stack[t]) - 1), f) \o r
<1>1. Goes(t, n)
  BY DEF Continue, Popped
<1>2. StackOK(stack[t])
  BY TopOK
<1>3. StackOK(n)
  BY <1>2, PushedOK
<1> QED BY <1>1, <1>3

\* What the steps of the recursion leave as it is, and what they change.
LEMMA RecursesOK ==
  ASSUME TInv, IInv', NEW t \in Threads, \E s : StackOK(s) /\ Goes(t, s),
         UNCHANGED <<requests, replies, rewriter, loaded>>,
         DOMAIN className2classId \subseteq DOMAIN className2classId', AgentOK'
  PROVE  TInv'
<1>1. PipesOK' /\ RewriterOK'
  BY PipesStay DEF TInv
<1>2. \A u \in Threads : StackOK(stack[u])'
  BY StacksOK
<1> QED BY <1>1, <1>2 DEF TInv, Typed

\* The recursion leaves the numbers of the agent alone.
LEMMA AgentStays ==
  ASSUME TInv, UNCHANGED <<className2classId, nextSyntheticId, loaded>>,
         instanced' \subseteq Classes, classTagged' \subseteq Classes
  PROVE  AgentOK'
BY DEF TInv, Typed, AgentOK

\* A frame that goes on to another point, but to the fields.
LEMMA AtOK ==
  ASSUME NEW f, FrameOK(f), NEW v \in {"find", "assign", "ack"}
  PROVE  FrameOK([f EXCEPT !.at = v])
<1>1. LET g == [f EXCEPT !.at = v]
      IN  IsFrame(g) /\ g.op = f.op /\ g.class = f.class /\ g.at = v /\ g.rest = f.rest
  BY FrameGoesTo DEF FrameOK
<1> DEFINE g == [f EXCEPT !.at = v]
<1> HIDE DEF g
<1>2. IsFrame(g) /\ g.op = f.op /\ g.class = f.class /\ g.at = v /\ g.rest = f.rest
  BY <1>1 DEF g
<1>3. FrameOK(g)
  BY <1>2 DEF FrameOK
<1> QED BY <1>3 DEF g

LEMMA LookupTagTyped ==
  ASSUME TInv, IInv', NEW t \in Threads, LookupTag(t)
  PROVE  TInv'
<1> DEFINE f == TopFrame(t)
           w == Frame("without", f.class)
<1>1. /\ stack[t] # <<>> /\ f.op = "slots" /\ UNCHANGED <<requests, replies, rewriter, loaded>>
      /\ UNCHANGED <<className2classId, nextSyntheticId, classTagged>>
  BY DEF LookupTag, Busy, Tables, pipes, recorded
<1>2. FrameOK(f) /\ Known(f.class)
  BY <1>1, TopOK DEF FrameOK
<1>3. CASE Return(t, classTag2slots[f.class])
  <2>1. (\E s : StackOK(s) /\ Goes(t, s)) /\ instanced' \subseteq Classes
    BY <1>1, <1>3, ReturnsOK
  <2>2. AgentOK'
    BY <1>1, <2>1, AgentStays DEF TInv, Typed, AgentOK
  <2> QED BY <1>1, <2>1, <2>2, RecursesOK
<1>4. CASE /\ Continue(t, [f EXCEPT !.at = "find"],
                       IF f.class \in DOMAIN className2classId THEN <<>> ELSE <<w>>)
           /\ UNCHANGED instanced
  <2>1. FrameOK([f EXCEPT !.at = "find"])
    BY <1>1, <1>2, AtOK
  <2>2. f.class \notin DOMAIN className2classId => FrameOK(w)
    <3>1. f.class \notin DOMAIN className2classId => f.class \in Untold
      BY <1>2, KnownFacts DEF TInv, Typed, AgentOK
    <3> QED BY <1>2, <3>1, CallsOK
  <2> HIDE DEF w, f
  <2>3. StackOK(IF f.class \in DOMAIN className2classId THEN <<>> ELSE <<w>>)
    <3>1. CASE f.class \in DOMAIN className2classId
      BY <3>1, EmptyOK
    <3>2. CASE f.class \notin DOMAIN className2classId
      <4>1. StackOK(<<w>>)
        BY <2>2, <3>2, OneOK
      <4> QED BY <3>2, <4>1
    <3> QED BY <3>1, <3>2
  <2>4. \E s : StackOK(s) /\ Goes(t, s)
    BY <1>1, <1>4, <2>1, <2>3, ContinuesOK
  <2>5. AgentOK'
    BY <1>1, <1>4, AgentStays DEF TInv, Typed, AgentOK
  <2> QED BY <1>1, <2>4, <2>5, RecursesOK
<1> QED BY <1>3, <1>4 DEF LookupTag

\* The call for the superclass of a class.
LEMMA SuperCall ==
  ASSUME TInv, NEW t \in Threads, stack[t] # <<>>, NEW c, Known(c), Super[c] # NoClass,
         NEW f, FrameOK(f), TagClass(Super[c]),
         Continue(t, f, <<Frame("slots", Super[c])>> \o TagCalls(Super[c]))
  PROVE  (\E s : StackOK(s) /\ Goes(t, s)) /\ classTagged' \subseteq Classes
<1>1. Known(Super[c])
  BY KnownFacts
<1> DEFINE r == <<Frame("slots", Super[c])>> \o TagCalls(Super[c])
<1>2. StackOK(r)
  BY <1>1, TagPathOK
<1>3. classTagged' \subseteq Classes
  BY <1>1, SlotsAssumption DEF TagClass, Known, TInv, Typed, AgentOK
<1> HIDE DEF r
<1>4. Continue(t, f, r)
  BY DEF r
<1> QED BY <1>2, <1>3, <1>4, ContinuesOK

LEMMA LookupIdTyped ==
  ASSUME TInv, IInv', NEW t \in Threads, LookupId(t)
  PROVE  TInv'
<1> DEFINE f == TopFrame(t)
<1>1. /\ stack[t] # <<>> /\ f.op = "slots" /\ UNCHANGED <<requests, replies, rewriter, loaded>>
      /\ UNCHANGED <<className2classId, nextSyntheticId>>
  BY DEF LookupId, Busy, Tables, pipes, recorded
<1>2. FrameOK(f) /\ Known(f.class)
  BY <1>1, TopOK DEF FrameOK
<1>3. ASSUME NEW v, Return(t, v), UNCHANGED classTagged
      PROVE  TInv'
  <2>1. (\E s : StackOK(s) /\ Goes(t, s)) /\ instanced' \subseteq Classes
    BY <1>1, <1>3, ReturnsOK
  <2>2. AgentOK'
    BY <1>1, <1>3, <2>1, AgentStays DEF TInv, Typed, AgentOK
  <2> QED BY <1>1, <2>1, <2>2, RecursesOK
<1>4. ASSUME Super[f.class] # NoClass, TagClass(Super[f.class]), UNCHANGED instanced,
             Continue(t, [f EXCEPT !.at = "assign"],
                      <<Frame("slots", Super[f.class])>> \o TagCalls(Super[f.class]))
      PROVE  TInv'
  <2>1. FrameOK([f EXCEPT !.at = "assign"])
    BY <1>1, <1>2, AtOK
  <2>2. (\E s : StackOK(s) /\ Goes(t, s)) /\ classTagged' \subseteq Classes
    <3> HIDE DEF f
    <3> QED BY <1>1, <1>2, <1>4, <2>1, SuperCall
  <2>3. AgentOK'
    BY <1>1, <1>4, <2>2, AgentStays DEF TInv, Typed, AgentOK
  <2> QED BY <1>1, <2>2, <2>3, RecursesOK
<1> QED BY <1>3, <1>4 DEF LookupId

LEMMA AssignSlotsTyped ==
  ASSUME TInv, IInv', NEW t \in Threads, AssignSlots(t)
  PROVE  TInv'
<1> DEFINE f == TopFrame(t)
<1>1. /\ stack[t] # <<>> /\ f.op = "slots" /\ UNCHANGED <<requests, replies, rewriter, loaded>>
      /\ UNCHANGED <<className2classId, nextSyntheticId, classTagged>>
  BY DEF AssignSlots, Busy, Tables, pipes, recorded
<1>2. PICK v : Return(t, v)
  BY DEF AssignSlots
<1>3. (\E s : StackOK(s) /\ Goes(t, s)) /\ instanced' \subseteq Classes
  BY <1>1, <1>2, ReturnsOK
<1>4. AgentOK'
  BY <1>1, <1>3, AgentStays DEF TInv, Typed, AgentOK
<1> QED BY <1>1, <1>3, <1>4, RecursesOK

LEMMA WithoutIdTyped ==
  ASSUME TInv, IInv', NEW t \in Threads, WithoutId(t)
  PROVE  TInv'
<1> DEFINE f == TopFrame(t)
           g == [f EXCEPT !.at = "find"]
<1>1. /\ stack[t] # <<>> /\ f.op = "without" /\ UNCHANGED <<requests, replies, rewriter, loaded>>
      /\ UNCHANGED <<className2classId, nextSyntheticId, instanced>>
  BY DEF WithoutId, Busy, Tables, pipes, recorded
<1>2. FrameOK(f) /\ Known(f.class) /\ FrameOK(g)
  BY <1>1, TopOK, AtOK DEF FrameOK
<1>3. CASE Super[f.class] = NoClass
  <2>1. Continue(t, g, <<>>) /\ UNCHANGED classTagged
    BY <1>3 DEF WithoutId
  <2>2. \E s : StackOK(s) /\ Goes(t, s)
    <3> HIDE DEF g
    <3> QED BY <1>1, <1>2, <2>1, EmptyOK, ContinuesOK
  <2>3. AgentOK'
    BY <1>1, <2>1, AgentStays DEF TInv, Typed, AgentOK
  <2> QED BY <1>1, <2>2, <2>3, RecursesOK
<1>4. CASE Super[f.class] # NoClass
  <2>1. /\ TagClass(Super[f.class])
        /\ Continue(t, g, <<Frame("slots", Super[f.class])>> \o TagCalls(Super[f.class]))
    BY <1>4 DEF WithoutId
  <2>2. (\E s : StackOK(s) /\ Goes(t, s)) /\ classTagged' \subseteq Classes
    <3> HIDE DEF f, g
    <3> QED BY <1>1, <1>2, <1>4, <2>1, SuperCall
  <2>3. AgentOK'
    BY <1>1, <2>2, AgentStays DEF TInv, Typed, AgentOK
  <2> QED BY <1>1, <2>2, <2>3, RecursesOK
<1> QED BY <1>3, <1>4

LEMMA SyntheticClassTyped ==
  ASSUME TInv, IInv', NEW t \in Threads, SyntheticClass(t)
  PROVE  TInv'
<1> DEFINE f == TopFrame(t)
           id == nextSyntheticId
           g == [f EXCEPT !.at = "fields", !.superSlots = id, !.rest = Fields[f.class]]
           q == <<"SynthClassInfo", <<id, f.class>>>>
           r == <<Send("SynthClassInfo", <<id, f.class>>)>>
<1>1. /\ stack[t] # <<>> /\ f.op = "without" /\ UNCHANGED <<requests, replies, rewriter, loaded>>
      /\ UNCHANGED <<classTagged, instanced>> /\ nextSyntheticId' = id + 1
      /\ RecordClassInfo(id, f.class) /\ Continue(t, g, r)
  BY DEF SyntheticClass, Busy, pipes
<1>2. FrameOK(f) /\ Known(f.class) /\ f.class \in Untold /\ f.class \in Classes
  BY <1>1, TopOK DEF FrameOK, Known
<1>3. /\ Fields[f.class] \in Seq(Names)
      /\ \A i \in 1 .. Len(Fields[f.class]) : <<f.class, Fields[f.class][i]>> \in FieldKeys
  <2>1. Fields[f.class] \in Seq(Names)
    BY <1>2, NumbersAssumption
  <2> QED BY <1>2, <2>1 DEF FieldKeys
<1>4. FrameOK(g)
  <2>1. IsFrame(g) /\ g.op = f.op /\ g.class = f.class /\ g.at = "fields" /\ g.rest = Fields[f.class]
    <3>1. IsFrame(f)
      BY <1>2 DEF FrameOK
    <3> DEFINE F == Fields[f.class]
    <3>2. g = [f EXCEPT !.at = "fields", !.superSlots = id, !.rest = F]
      OBVIOUS
    <3> HIDE DEF f, id, g, F
    <3>3. IsFrame(g) /\ g.op = f.op /\ g.class = f.class /\ g.at = "fields" /\ g.rest = F
      <4>1. PICK S : f \in [Parts -> S]
        BY <3>1 DEF IsFrame
      <4>2. f \in [Parts -> S \cup {"fields", id, F}]
        BY <4>1
      <4>3. g \in [Parts -> S \cup {"fields", id, F}]
        BY <3>2, <4>2 DEF Parts
      <4> QED BY <3>2, <4>1, <4>3 DEF IsFrame, Parts
    <3> QED BY <3>3 DEF F
  <2> HIDE DEF f, g
  <2> QED BY <1>1, <1>2, <1>3, <2>1 DEF FrameOK
<1>5. StackOK(r)
  <2>1. SyntheticRequest(q)
    BY <1>2 DEF SyntheticRequest
  <2> QED BY <2>1, SendOK
<1>6. \E s : StackOK(s) /\ Goes(t, s)
  <2> HIDE DEF g, r, f
  <2> QED BY <1>1, <1>4, <1>5, ContinuesOK
<1>7. AgentOK'
  <2> HIDE DEF f, g, r
  <2> QED BY <1>1, <1>2, SlotsAssumption DEF RecordClassInfo, Put, TInv, Typed, AgentOK
<1>8. DOMAIN className2classId \subseteq DOMAIN className2classId'
  BY <1>1 DEF RecordClassInfo, Put
<1> QED BY <1>1, <1>6, <1>7, <1>8, RecursesOK

LEMMA SyntheticFieldTyped ==
  ASSUME TInv, IInv', NEW t \in Threads, SyntheticField(t)
  PROVE  TInv'
<1> DEFINE f == TopFrame(t)
           id == nextSyntheticId
           g == [f EXCEPT !.rest = Tail(f.rest)]
           q == <<"SynthFieldInfo", <<id, <<f.class, Head(f.rest)>>>>>>
           r == <<Send("SynthFieldInfo", <<id, <<f.class, Head(f.rest)>>>>)>>
<1>1. /\ stack[t] # <<>> /\ f.op = "without" /\ f.at = "fields"
      /\ UNCHANGED <<requests, replies, rewriter, loaded>>
      /\ UNCHANGED <<classTagged, instanced, className2classId>>
      /\ nextSyntheticId' \in {id, id + 1}
  BY DEF SyntheticField, Busy, pipes
<1>2. FrameOK(f) /\ StackOK(Popped(t))
  BY <1>1, TopOK
<1>3. /\ f.rest \in Seq(Names) /\ \A i \in 1 .. Len(f.rest) : <<f.class, f.rest[i]>> \in FieldKeys
  BY <1>1, <1>2 DEF FrameOK
<1>4. AgentOK'
  <2>1. nextSyntheticId' \in Nat /\ nextSyntheticId' >= SYNTHETIC_ID_BASE
    BY <1>1, SlotsAssumption DEF TInv, Typed, AgentOK
  <2> HIDE DEF f, id
  <2> QED BY <1>1, <2>1 DEF TInv, Typed, AgentOK
<1>5. CASE Goes(t, Popped(t))
  <2>1. \E s : StackOK(s) /\ Goes(t, s)
    BY <1>2, <1>5
  <2> QED BY <1>1, <1>4, <2>1, RecursesOK
<1>6. CASE f.rest # <<>> /\ Continue(t, g, r)
  <2> DEFINE x == f.rest
  <2>1. /\ Head(x) = x[1] /\ 1 \in 1 .. Len(x) /\ Tail(x) \in Seq(Names)
        /\ Len(Tail(x)) = Len(x) - 1 /\ \A i \in 1 .. Len(Tail(x)) : Tail(x)[i] = x[i + 1]
        /\ Len(x) \in Nat
    <3> HIDE DEF f, x
    <3>1. x \in Seq(Names) /\ x # <<>>
      BY <1>3, <1>6 DEF x
    <3> QED BY <3>1
  <2>2. FrameOK(g)
    <3>1. IsFrame(g) /\ g.op = f.op /\ g.class = f.class /\ g.at = f.at /\ g.rest = Tail(x)
      <4>1. IsFrame(f)
        BY <1>2 DEF FrameOK
      <4> HIDE DEF f
      <4> QED BY <4>1, FrameKeeps
    <3>2. \A i \in 1 .. Len(Tail(x)) : <<f.class, Tail(x)[i]>> \in FieldKeys
      <4> HIDE DEF f, g
      <4> QED BY <1>3, <2>1
    <3> HIDE DEF f, g, x
    <3> QED BY <1>1, <1>2, <2>1, <3>1, <3>2 DEF FrameOK
  <2>3. StackOK(r)
    <3>1. SyntheticRequest(q)
      <4>1. f.class \in Untold
        BY <1>1, <1>2 DEF FrameOK
      <4> QED BY <1>3, <2>1, <4>1 DEF SyntheticRequest
    <3> QED BY <3>1, SendOK
  <2>4. \E s : StackOK(s) /\ Goes(t, s)
    <3> HIDE DEF f, g, r
    <3> QED BY <1>1, <1>6, <2>2, <2>3, ContinuesOK
  <2> QED BY <1>1, <1>4, <2>4, RecursesOK
<1> QED BY <1>5, <1>6 DEF SyntheticField

LEMMA TagObjectTyped ==
  ASSUME TInv, IInv', NEW t \in Threads, NEW c \in Classes, TagObject(t, c)
  PROVE  TInv'
<1>1. /\ UNCHANGED <<requests, replies, rewriter, loaded>>
      /\ UNCHANGED <<className2classId, nextSyntheticId, instanced>>
      /\ TagClass(c) /\ Goes(t, <<Frame("slots", c)>> \o TagCalls(c)) /\ Known(c)
  BY DEF TagObject, pipes, recorded, Known
<1>2. StackOK(<<Frame("slots", c)>> \o TagCalls(c))
  BY <1>1, TagPathOK
<1>3. AgentOK'
  <2>1. classTagged' \subseteq Classes
    BY <1>1, SlotsAssumption DEF TagClass, TInv, Typed, AgentOK
  <2> QED BY <1>1, <2>1, AgentStays DEF TInv, Typed, AgentOK
<1> QED BY <1>1, <1>2, <1>3, RecursesOK

\* A request is written.
LEMMA RequestsOK ==
  ASSUME TInv, IInv', NEW t \in Threads, NEW s, StackOK(s), Goes(t, s),
         NEW q, RequestOK(q), requests' = Append(requests, q),
         UNCHANGED <<replies, rewriter, className2classId, nextSyntheticId, loaded, instanced,
                     classTagged>>
  PROVE  TInv'
<1>1. \A x, n : Informed(x, n) => Informed(x, n)'
  BY DEF Informed
<1>2. PipesOK'
  <2>1. \A x : RequestOK(x) => RequestOK(x)'
    BY DEF RequestOK, SyntheticRequest
  <2>2. \A r : ReplyOK(r) => ReplyOK(r)'
    BY DEF ReplyOK
  <2>3. /\ IsSequence(requests') /\ Len(requests) \in Nat /\ Len(requests') = Len(requests) + 1
        /\ \A i \in 1 .. Len(requests) : requests'[i] = requests[i]
        /\ requests'[Len(requests) + 1] = q
    BY Appending DEF TInv, Typed, PipesOK
  <2>4. ASSUME NEW i \in 1 .. Len(requests') PROVE RequestOK(requests[i])'
    BY <2>1, <2>3 DEF TInv, Typed, PipesOK, RequestOK
  <2> QED BY <1>1, <2>2, <2>3, <2>4 DEF TInv, Typed, PipesOK
<1>3. RewriterOK'
  BY <1>1 DEF TInv, Typed, RewriterOK, rewriter, Idle
<1>4. AgentOK'
  BY AgentStays DEF TInv, Typed, AgentOK
<1>5. \A u \in Threads : StackOK(stack[u])'
  BY StacksOK
<1> QED BY <1>2, <1>3, <1>4, <1>5 DEF TInv, Typed

LEMMA instrumentClassTyped ==
  ASSUME TInv, IInv', NEW t \in Threads, NEW c \in Classes, instrumentClass(t, c)
  PROVE  TInv'
<1> DEFINE f == Frame("instrument", c)
<1>1. /\ Goes(t, <<f>>) /\ requests' = Append(requests, <<"OrigClassFile", c>>)
      /\ UNCHANGED <<replies, rewriter, className2classId, nextSyntheticId, loaded, instanced,
                     classTagged>>
      /\ c \notin Untold
  BY DEF instrumentClass, recorded, writeUntilDone
<1>2. IsFrame(f) /\ f.op = "instrument" /\ f.class = c /\ f.at = "lookup"
  BY FramesMade
<1>3. RequestOK(<<"OrigClassFile", c>>)
  BY <1>1 DEF RequestOK
<1> HIDE DEF f
<1>4. FrameOK(f)
  BY <1>1, <1>2 DEF FrameOK
<1>5. StackOK(<<f>>)
  BY <1>4, OneOK
<1> QED BY <1>1, <1>3, <1>5, RequestsOK

LEMMA SendInfoTyped ==
  ASSUME TInv, IInv', NEW t \in Threads, SendInfo(t)
  PROVE  TInv'
<1> DEFINE f == TopFrame(t)
           g == [f EXCEPT !.at = "ack"]
<1>1. /\ stack[t] # <<>> /\ f.op = "send"
      /\ Continue(t, g, <<>>) /\ requests' = Append(requests, f.rest)
      /\ UNCHANGED <<replies, rewriter, className2classId, nextSyntheticId, loaded, instanced,
                     classTagged>>
  BY DEF SendInfo, recorded, writeUntilDone, Busy
<1>2. FrameOK(f) /\ FrameOK(g)
  BY <1>1, TopOK, AtOK
<1>3. RequestOK(f.rest)
  BY <1>1, <1>2 DEF FrameOK, RequestOK
<1> HIDE DEF f, g
<1>4. PICK s : StackOK(s) /\ Goes(t, s)
  BY <1>1, <1>2, EmptyOK, ContinuesOK
<1> QED BY <1>1, <1>3, <1>4, RequestsOK

LEMMA ReadAckTyped ==
  ASSUME TInv, IInv', NEW t \in Threads, ReadAck(t)
  PROVE  TInv'
<1>1. /\ stack[t] # <<>> /\ TopFrame(t).op = "send" /\ Holding(stack[t])
      /\ replies # <<>> /\ replies' = Tail(replies) /\ Goes(t, Popped(t))
      /\ UNCHANGED <<requests, rewriter, className2classId, nextSyntheticId, loaded, instanced,
                     classTagged>>
  BY DEF ReadAck, Busy, Holding, TopFrame, Top, recorded
<1>2. Answered(TopFrame(t))
  BY <1>1, Holds DEF TInv, Conversation, Asked, AtWork
<1>3. Idle' /\ replies' = <<>>
  <2>1. Idle' /\ replies = <<<<"Ack", NoClass>>>>
    BY <1>1, <1>2 DEF Answered, Idle, rewriter
  <2>2. Tail(<<<<"Ack", NoClass>>>>) = <<>>
    OBVIOUS
  <2> QED BY <1>1, <2>1, <2>2
<1>4. PipesOK'
  <2>1. IsSequence(<<>>) /\ Len(<<>>) = 0
    BY EmptyGood DEF Good
  <2>2. \A q : RequestOK(q) => RequestOK(q)'
    BY DEF RequestOK, SyntheticRequest
  <2>3. \A i \in 1 .. Len(requests') : RequestOK(requests[i])'
    BY <1>1, <2>2 DEF TInv, Typed, PipesOK
  <2>4. 1 .. Len(replies') = {}
    BY <1>3, <2>1
  <2>5. IsSequence(replies')
    BY <1>3, <2>1
  <2> QED BY <1>1, <2>3, <2>4, <2>5 DEF TInv, Typed, PipesOK
<1>5. RewriterOK'
  BY <1>1, <1>3 DEF TInv, Typed, RewriterOK, rewriter
<1>6. AgentOK'
  BY <1>1, AgentStays DEF TInv, Typed, AgentOK
<1>7. \A u \in Threads : StackOK(stack[u])'
  BY <1>1, TopOK, StacksOK
<1> QED BY <1>4, <1>5, <1>6, <1>7 DEF TInv, Typed

\* Who reads the record of a class from the pipe has it in the table; so nobody who
\* was informed is not informed any more.
LEMMA StillInformed ==
  ASSUME IsSequence(replies), replies # <<>>, replies' = Tail(replies),
         DOMAIN className2classId \subseteq DOMAIN className2classId',
         replies[1][1] = "ClassInfo" => replies[1][2][2] \in DOMAIN className2classId',
         NEW c, NEW n \in 0 .. Len(replies), Informed(c, n)
  PROVE  n # 0 => Informed(c, n - 1)'
<1> SUFFICES ASSUME n # 0, c \notin DOMAIN className2classId' PROVE Informed(c, n - 1)'
  BY DEF Informed
<1>0. Len(replies) \in Nat
  BY EmptyIsZero
<1>1. PICK i \in 1 .. n : replies[i][1] = "ClassInfo" /\ replies[i][2][2] = c
  BY DEF Informed
<1>2. i # 1
  BY <1>1
<1>3. i - 1 \in 1 .. n - 1
  BY <1>0, <1>2
<1>4. replies'[i - 1] = replies[i]
  <2>1. Len(replies) \in Nat /\ \A k \in 1 .. Len(replies) - 1 : Tail(replies)[k] = replies[k + 1]
    BY Tailing
  <2>2. i - 1 \in 1 .. Len(replies) - 1 /\ (i - 1) + 1 = i
    BY <1>0, <1>2, <2>1
  <2> QED BY <2>1, <2>2
<1> QED BY <1>1, <1>3, <1>4 DEF Informed

LEMMA ReadRecordTyped ==
  ASSUME TInv, IInv', NEW t \in Threads, ReadRecord(t)
  PROVE  TInv'
<1> DEFINE f == TopFrame(t)
           it == Head(replies)[2]
<1>1. /\ stack[t] # <<>> /\ f.op = "instrument" /\ Holding(stack[t])
      /\ replies # <<>> /\ replies' = Tail(replies)
      /\ UNCHANGED <<requests, rewriter, nextSyntheticId, instanced, classTagged>>
      /\ \/ /\ Head(replies)[1] = "ClassInfo" /\ RecordClassInfo(it[1], it[2])
            /\ UNCHANGED <<stack, loaded>>
         \/ Head(replies)[1] = "FieldInfo" /\ UNCHANGED <<className2classId, stack, loaded>>
         \/ /\ Head(replies)[1] = "InstClassFile" /\ UNCHANGED className2classId
            /\ loaded' = loaded \cup {f.class} /\ Goes(t, <<>>)
  BY DEF ReadRecord, Busy, Holding, TopFrame, Top, readUntilDone, recorded
<1>2. Conversation(f) /\ FrameOK(f)
  BY <1>1, Holds, TopOK DEF TInv
<1>3. /\ IsSequence(Tail(replies)) /\ Len(replies) \in Nat \ {0}
      /\ Len(Tail(replies)) = Len(replies) - 1 /\ Head(replies) = replies[1]
      /\ \A i \in 1 .. Len(replies) - 1 : Tail(replies)[i] = replies[i + 1]
  BY <1>1, Tailing DEF TInv, IInv
<1>4. /\ \A i \in 1 .. Len(replies) : ReplyOK(replies[i])
      /\ \A i \in 1 .. Len(replies) : replies[i][1] = "InstClassFile" => Informed(replies[i][2], i - 1)
  BY DEF TInv, Typed, PipesOK
<1>5. /\ DOMAIN className2classId \subseteq DOMAIN className2classId'
      /\ replies[1][1] = "ClassInfo" => replies[1][2][2] \in DOMAIN className2classId'
  BY <1>1, <1>3 DEF RecordClassInfo, Put
<1>6. \A c : \A n \in 0 .. Len(replies) : Informed(c, n) /\ n # 0 => Informed(c, n - 1)'
  BY <1>1, <1>5, StillInformed DEF TInv, IInv
<1>7. PipesOK'
  <2>1. \A q : RequestOK(q) => RequestOK(q)'
    BY DEF RequestOK, SyntheticRequest
  <2>2. ASSUME NEW i \in 1 .. Len(replies')
        PROVE  ReplyOK(replies[i])' /\ (replies'[i][1] = "InstClassFile" => Informed(replies[i][2], i - 1)')
    <3>0. i \in 1 .. Len(replies) - 1
      BY <1>1, <1>3
    <3>1. i + 1 \in 1 .. Len(replies) /\ i \in 0 .. Len(replies) /\ i # 0 /\ (i + 1) - 1 = i
      BY <1>3, <3>0
    <3>2. replies'[i] = replies[i + 1]
      BY <1>1, <1>3, <3>0
    <3>3. ReplyOK(replies[i])'
      BY <1>4, <3>1, <3>2 DEF ReplyOK
    <3>4. ASSUME replies'[i][1] = "InstClassFile" PROVE Informed(replies[i][2], i - 1)'
      <4>1. Informed(replies[i + 1][2], i)
        BY <1>4, <3>1, <3>2, <3>4
      <4>2. \A c : Informed(c, i) => Informed(c, i - 1)'
        BY <1>6, <3>1
      <4> QED BY <3>2, <4>1, <4>2 DEF Informed
    <3> QED BY <3>3, <3>4
  <2>3. IsSequence(replies') /\ IsSequence(requests')
        /\ \A i \in 1 .. Len(requests') : RequestOK(requests[i])'
    BY <1>1, <1>3, <2>1 DEF TInv, Typed, PipesOK
  <2> QED BY <2>2, <2>3 DEF PipesOK
<1>8. RewriterOK'
  <2>1. ~Idle => Informed(work[1], Len(replies))'
    <3> SUFFICES ASSUME ~Idle PROVE Informed(work[1], Len(replies))'
      OBVIOUS
    <3>1. Informed(work[1], Len(replies))
      BY DEF TInv, Typed, RewriterOK
    <3>0. Len(replies) \in 0 .. Len(replies)
      BY <1>3
    <3>2. PICK n \in 0 .. Len(replies) : n = Len(replies)
      BY <3>0
    <3>3. n # 0 /\ Informed(work[1], n)
      BY <1>3, <3>1, <3>2
    <3>4. PICK c : c = work[1]
      OBVIOUS
    <3>5. Informed(c, n - 1)'
      BY <1>6, <3>3, <3>4
    <3>6. Len(replies') = n - 1 /\ UNCHANGED work
      BY <1>1, <1>3, <3>2 DEF rewriter
    <3> QED BY <3>4, <3>5, <3>6 DEF Informed
  <2> QED BY <1>1, <2>1 DEF TInv, Typed, RewriterOK, rewriter, Idle
<1>9. CASE Head(replies)[1] = "InstClassFile"
  <2>1. loaded' = loaded \cup {f.class} /\ Goes(t, <<>>) /\ UNCHANGED className2classId
    BY <1>1, <1>9
  <2>2. Answered(f) /\ Len(replies) = 1 /\ replies[1] = <<"InstClassFile", f.class>>
    <3>1. Answered(f)
      BY <1>1, <1>2, <1>3, <1>9 DEF Conversation, Asked, AtWork, Informing
    <3>2. Len(replies) = 1
      BY <1>1, <1>3, <1>9, <3>1 DEF Answered, Informing
    <3> QED BY <1>1, <3>1, <3>2 DEF Answered
  <2>3. f.class \in DOMAIN className2classId
    <3>1. Informed(f.class, 0)
      <4>1. 1 \in 1 .. Len(replies) /\ replies[1][1] = "InstClassFile" /\ replies[1][2] = f.class /\ 1 - 1 = 0
        BY <2>2
      <4> HIDE DEF f
      <4> QED BY <1>4, <4>1
    <3> QED BY <3>1 DEF Informed
  <2>4. AgentOK'
    <3>1. f.class \notin Untold
      BY <1>1, <1>2 DEF FrameOK
    <3> HIDE DEF f
    <3> QED BY <1>1, <2>1, <2>3, <3>1 DEF TInv, Typed, AgentOK
  <2>5. \A u \in Threads : StackOK(stack[u])'
    <3>1. \A s : StackOK(s) => StackOK(s)'
      BY <2>1, TypesStay
    <3>2. stack'[t] = <<>> /\ \A u \in Threads \ {t} : stack'[u] = stack[u]
      BY <2>1 DEF TInv, IInv, Goes
    <3> QED BY <3>1, <3>2, EmptyOK DEF TInv, Typed
  <2> QED BY <1>7, <1>8, <2>4, <2>5 DEF TInv, Typed
<1>10. CASE Head(replies)[1] # "InstClassFile"
  <2>1. UNCHANGED <<stack, loaded>>
    BY <1>1, <1>10
  <2>2. \A u \in Threads : StackOK(stack[u])'
    <3>1. \A s : StackOK(s) => StackOK(s)'
      BY <2>1, TypesStay
    <3> QED BY <2>1, <3>1 DEF TInv, Typed
  <2>3. AgentOK'
    <3>1. CASE UNCHANGED className2classId
      BY <1>1, <2>1, <3>1, AgentStays DEF TInv, Typed, AgentOK
    <3>2. CASE Head(replies)[1] = "ClassInfo" /\ RecordClassInfo(it[1], it[2])
      <4>1. ReplyOK(replies[1]) /\ it = replies[1][2]
        BY <1>3, <1>4
      <4>2. it[2] \in Classes \ Untold /\ it[1] \in Nat /\ it[1] < SYNTHETIC_ID_BASE
        BY <1>3, <3>2, <4>1 DEF ReplyOK
      <4> HIDE DEF it
      <4> QED BY <1>1, <2>1, <3>2, <4>2, SlotsAssumption
              DEF RecordClassInfo, Put, TInv, Typed, AgentOK
    <3> QED BY <1>1, <1>10, <3>1, <3>2
  <2> QED BY <1>7, <1>8, <2>2, <2>3 DEF TInv, Typed
<1> QED BY <1>9, <1>10

\* The steps of the rewriter.  A number is drawn only for a class that has none.
LEMMA getClassIdFacts ==
  ASSUME NEW ids, NEW last \in Nat, NEW c \in Classes, DOMAIN ids \subseteq Classes,
         last <= Cardinality(DOMAIN ids),
         \A d \in DOMAIN ids \ Untold : ids[d] \in Nat /\ ids[d] <= last,
         NEW new, new = getClassId(ids, last, c)
  PROVE  /\ DOMAIN new[1] = DOMAIN ids \cup {c}
         /\ new[2] \in Nat /\ new[2] >= last /\ new[2] <= Cardinality(DOMAIN new[1])
         /\ \A d \in DOMAIN new[1] \ Untold : new[1][d] \in Nat /\ new[1][d] <= new[2]
<1>1. CASE c \in DOMAIN ids
  <2>1. new[1] = ids /\ new[2] = last
    BY <1>1 DEF getClassId
  <2>2. Cardinality(DOMAIN ids) \in Nat
    BY NumbersAssumption, FS_Subset, FS_CardinalityType
  <2> QED BY <1>1, <2>1, <2>2
<1>2. CASE c \notin DOMAIN ids
  <2>1. new[1] = Put(ids, c, last + 1) /\ new[2] = last + 1
    BY <1>2 DEF getClassId
  <2>2. /\ DOMAIN new[1] = DOMAIN ids \cup {c}
        /\ new[1][c] = last + 1 /\ \A d \in DOMAIN ids : new[1][d] = ids[d]
    BY <1>2, <2>1 DEF Put
  <2>3. /\ IsFiniteSet(DOMAIN ids)
        /\ Cardinality(DOMAIN ids) \in Nat
        /\ Cardinality(DOMAIN ids \cup {c}) = Cardinality(DOMAIN ids) + 1
    BY <1>2, NumbersAssumption, FS_Subset, FS_CardinalityType, FS_AddElement
  <2> QED BY <2>1, <2>2, <2>3
<1> QED BY <1>1, <1>2

\* Something is put into the pipe.
LEMMA RepliesOK ==
  ASSUME TInv, IInv', NEW r, ReplyOK(r), replies' = Append(replies, r),
         r[1] = "InstClassFile" => Informed(r[2], Len(replies)),
         UNCHANGED <<className2classId, nextSyntheticId, loaded, instanced, classTagged, stack>>,
         requests' \in {requests, Tail(requests)}, requests' # requests => requests # <<>>,
         RewriterOK'
  PROVE  TInv'
<1>1. /\ IsSequence(replies') /\ Len(replies) \in Nat /\ Len(replies') = Len(replies) + 1
      /\ \A i \in 1 .. Len(replies) : replies'[i] = replies[i]
      /\ replies'[Len(replies) + 1] = r
  BY Appending DEF TInv, Typed, PipesOK
<1>2. \A c : \A n \in 0 .. Len(replies) : Informed(c, n) => Informed(c, n)'
  BY <1>1 DEF Informed
<1>3. \A i \in 1 .. Len(replies') : ReplyOK(replies[i])'
  BY <1>1 DEF TInv, Typed, PipesOK, ReplyOK
<1>4. ASSUME NEW i \in 1 .. Len(replies'), replies'[i][1] = "InstClassFile"
      PROVE  Informed(replies[i][2], i - 1)'
  <2>1. CASE i \in 1 .. Len(replies)
    <3>1. replies'[i] = replies[i] /\ i - 1 \in 0 .. Len(replies)
      BY <1>1, <2>1
    <3>2. Informed(replies[i][2], i - 1)
      BY <1>4, <2>1, <3>1 DEF TInv, Typed, PipesOK
    <3>3. \A c : Informed(c, i - 1) => Informed(c, i - 1)'
      BY <1>2, <3>1
    <3> QED BY <3>1, <3>2, <3>3 DEF Informed
  <2>2. CASE i = Len(replies) + 1
    <3>1. replies'[i] = r /\ i - 1 = Len(replies) /\ i - 1 \in 0 .. Len(replies)
      BY <1>1, <2>2
    <3>2. Informed(r[2], i - 1)
      BY <1>4, <3>1
    <3>3. \A c : Informed(c, i - 1) => Informed(c, i - 1)'
      BY <1>2, <3>1
    <3> QED BY <3>1, <3>2, <3>3 DEF Informed
  <2> QED BY <1>1, <2>1, <2>2
<1>5. IsSequence(requests') /\ \A i \in 1 .. Len(requests') : RequestOK(requests[i])'
  <2>1. CASE requests' = requests
    BY <2>1 DEF TInv, Typed, PipesOK, RequestOK, SyntheticRequest
  <2>2. CASE requests # <<>> /\ requests' = Tail(requests)
    <3>1. /\ IsSequence(requests') /\ Len(requests) \in Nat \ {0} /\ Len(requests') = Len(requests) - 1
          /\ \A i \in 1 .. Len(requests) - 1 : requests'[i] = requests[i + 1]
      BY <2>2, Tailing DEF TInv, Typed, PipesOK
    <3>2. ASSUME NEW i \in 1 .. Len(requests') PROVE RequestOK(requests[i])'
      <4>1. i \in 1 .. Len(requests) - 1 /\ i + 1 \in 1 .. Len(requests)
        BY <3>1
      <4>2. RequestOK(requests[i + 1]) /\ requests'[i] = requests[i + 1]
        BY <3>1, <4>1 DEF TInv, Typed, PipesOK
      <4> QED BY <4>2 DEF RequestOK, SyntheticRequest
    <3> QED BY <3>1, <3>2
  <2> QED BY <2>1, <2>2
<1>6. AgentOK'
  BY AgentStays DEF TInv, Typed, AgentOK
<1>7. \A u \in Threads : StackOK(stack[u])'
  BY TypesStay DEF TInv, Typed
<1> QED BY <1>1, <1>3, <1>4, <1>5, <1>6, <1>7 DEF TInv, Typed, PipesOK

LEMMA VisitTyped ==
  ASSUME TInv, IInv', Visit
  PROVE  TInv'
<1>1. PICK c : c = Head(requests)[2]
  OBVIOUS
<1>2. PICK own : own = getClassId(classIds, lastClassId, c)
  OBVIOUS
<1>3. PICK both : both = IF Super[c] = NoClass THEN own ELSE getClassId(own[1], own[2], Super[c])
  OBVIOUS
<1>4. PICK left : left = [i \in DOMAIN Fields[c] |-> <<c, Fields[c][i]>>] \o Accesses[c]
  OBVIOUS
<1> DEFINE r == <<"ClassInfo", <<both[1][c], c>>>>
<1>5. /\ requests # <<>> /\ Head(requests)[1] = "OrigClassFile"
      /\ classIds' = both[1] /\ lastClassId' = both[2] /\ work' = <<c, left>>
      /\ replies' = Append(replies, r) /\ requests' = Tail(requests)
      /\ UNCHANGED <<fieldIdTables, lastFieldId, className2classId, nextSyntheticId, loaded,
                     instanced, classTagged, stack>>
  BY <1>1, <1>2, <1>3, <1>4 DEF Visit, recorded
<1>6. c \in Classes \ Untold
  <2>1. Head(requests) = requests[1] /\ 1 \in 1 .. Len(requests)
    BY <1>5, Tailing DEF TInv, Typed, PipesOK
  <2>2. RequestOK(Head(requests))
    BY <2>1 DEF TInv, Typed, PipesOK
  <2> QED BY <1>1, <1>5, <2>2 DEF RequestOK, SyntheticRequest
<1>7. /\ DOMAIN own[1] = DOMAIN classIds \cup {c}
      /\ own[2] \in Nat /\ own[2] >= lastClassId /\ own[2] <= Cardinality(DOMAIN own[1])
      /\ \A d \in DOMAIN own[1] \ Untold : own[1][d] \in Nat /\ own[1][d] <= own[2]
  BY <1>2, <1>6, getClassIdFacts DEF TInv, Typed, RewriterOK
<1>8. /\ DOMAIN both[1] \subseteq Classes /\ c \in DOMAIN both[1]
      /\ both[2] \in Nat /\ both[2] <= Cardinality(DOMAIN both[1])
      /\ \A d \in DOMAIN both[1] \ Untold : both[1][d] \in Nat /\ both[1][d] <= both[2]
  <2>1. DOMAIN own[1] \subseteq Classes
    BY <1>6, <1>7 DEF TInv, Typed, RewriterOK
  <2>2. CASE Super[c] = NoClass
    BY <1>3, <1>7, <2>1, <2>2
  <2>3. CASE Super[c] # NoClass
    <3>1. Super[c] \in Classes /\ both = getClassId(own[1], own[2], Super[c])
      BY <1>3, <1>6, <2>3, SlotsAssumption
    <3>2. /\ DOMAIN both[1] = DOMAIN own[1] \cup {Super[c]}
          /\ both[2] \in Nat /\ both[2] >= own[2] /\ both[2] <= Cardinality(DOMAIN both[1])
          /\ \A d \in DOMAIN both[1] \ Untold : both[1][d] \in Nat /\ both[1][d] <= both[2]
      <4>1. PICK ids, last, d : ids = own[1] /\ last = own[2] /\ d = Super[c]
        OBVIOUS
      <4>2. /\ last \in Nat /\ d \in Classes /\ DOMAIN ids \subseteq Classes
            /\ last <= Cardinality(DOMAIN ids)
            /\ \A e \in DOMAIN ids \ Untold : ids[e] \in Nat /\ ids[e] <= last
            /\ both = getClassId(ids, last, d)
        BY <1>7, <2>1, <3>1, <4>1
      <4>3. /\ DOMAIN both[1] = DOMAIN ids \cup {d}
            /\ both[2] \in Nat /\ both[2] >= last /\ both[2] <= Cardinality(DOMAIN both[1])
            /\ \A e \in DOMAIN both[1] \ Untold : both[1][e] \in Nat /\ both[1][e] <= both[2]
        <5> HIDE <4>1
        <5> QED BY <4>2, getClassIdFacts
      <4> QED BY <4>1, <4>3
    <3> QED BY <1>7, <2>1, <3>1, <3>2
  <2> QED BY <2>2, <2>3
<1>9. left \in Seq(FieldKeys)
  <2> DEFINE own2 == [i \in DOMAIN Fields[c] |-> <<c, Fields[c][i]>>]
  <2>1. Fields[c] \in Seq(Names) /\ Accesses[c] \in Seq(Classes \X Names)
    BY <1>6, NumbersAssumption
  <2>2. Len(Fields[c]) \in Nat /\ DOMAIN Fields[c] = 1 .. Len(Fields[c])
    BY <2>1
  <2>3. own2 \in [1 .. Len(Fields[c]) -> FieldKeys]
    <3>1. ASSUME NEW i \in 1 .. Len(Fields[c]) PROVE <<c, Fields[c][i]>> \in FieldKeys
      <4> DEFINE K(b) == {<<b, Fields[b][j]>> : j \in DOMAIN Fields[b]}
                           \cup {Accesses[b][j] : j \in DOMAIN Accesses[b]}
      <4>1. <<c, Fields[c][i]>> \in K(c)
        BY <2>2
      <4>2. FieldKeys = UNION {K(b) : b \in Classes}
        BY DEF FieldKeys
      <4> HIDE DEF K
      <4> QED BY <1>6, <4>1, <4>2
    <3> QED BY <2>2, <3>1
  <2>4. own2 \in Seq(FieldKeys)
    <3> HIDE DEF own2
    <3> QED BY <2>2, <2>3
  <2>5. Accesses[c] \in Seq(FieldKeys)
    <3>1. \A i \in 1 .. Len(Accesses[c]) : Accesses[c][i] \in FieldKeys
      BY <1>6, <2>1 DEF FieldKeys
    <3>2. /\ Len(Accesses[c]) \in Nat /\ DOMAIN Accesses[c] = 1 .. Len(Accesses[c])
          /\ Accesses[c] \in [1 .. Len(Accesses[c]) -> Classes \X Names]
      BY <2>1
    <3>3. Accesses[c] \in [1 .. Len(Accesses[c]) -> FieldKeys]
      BY <3>1, <3>2
    <3> QED BY <3>2, <3>3
  <2> HIDE DEF own2
  <2>6. own2 \o Accesses[c] \in Seq(FieldKeys)
    BY <2>4, <2>5
  <2> QED BY <1>4, <2>6 DEF own2
<1>10. ReplyOK(r)
  <2>1. Cardinality(DOMAIN both[1]) <= Cardinality(Classes)
        /\ Cardinality(DOMAIN both[1]) \in Nat /\ Cardinality(Classes) \in Nat
    BY <1>8, NumbersAssumption, FS_Subset, FS_CardinalityType
  <2>2. both[1][c] \in Nat /\ both[1][c] <= both[2]
    BY <1>6, <1>8
  <2>3. both[1][c] \in Nat /\ both[1][c] < SYNTHETIC_ID_BASE
    BY <1>8, <2>1, <2>2, NumbersAssumption, SlotsAssumption
  <2> QED BY <1>6, <2>3 DEF ReplyOK
<1>11. Informed(work[1], Len(replies))'
  <2>1. /\ Len(replies) \in Nat /\ Len(replies') = Len(replies) + 1
        /\ replies'[Len(replies) + 1] = r
    BY <1>5, Appending DEF TInv, Typed, PipesOK
  <2>2. Len(replies') \in 1 .. Len(replies') /\ replies'[Len(replies')] = r
    BY <2>1
  <2>3. work'[1] = c /\ r[1] = "ClassInfo" /\ r[2][2] = c
    BY <1>5
  <2> HIDE DEF r
  <2> QED BY <2>2, <2>3 DEF Informed
<1>12. RewriterOK'
  <2>1. work'[2] = left
    BY <1>5
  <2> QED BY <1>5, <1>8, <1>9, <1>11, <2>1 DEF TInv, Typed, RewriterOK
<1>13. r[1] # "InstClassFile"
  OBVIOUS
<1> HIDE DEF r
<1> QED BY <1>5, <1>10, <1>12, <1>13, RepliesOK

\* The number of a field.
LEMMA newFieldIdTyped ==
  ASSUME TInv, IInv', newFieldId
  PROVE  TInv'
<1>1. PICK key : key = Head(work[2])
  OBVIOUS
<1>2. PICK id : id = Get(fieldIdTables, key, lastFieldId + 1)
  OBVIOUS
<1>3. PICK class : class = getClassId(classIds, lastClassId, key[1])
  OBVIOUS
<1>4. PICK r : r = <<"FieldInfo", <<class[1][key[1]], key[2], id, IsStatic(key[1], key[2])>>>>
  OBVIOUS
<1> DEFINE known == key \in DOMAIN fieldIdTables
<1>5. /\ ~Idle /\ work[2] # <<>> /\ work' = <<work[1], Tail(work[2])>>
      /\ fieldIdTables' = Put(fieldIdTables, key, id)
      /\ lastFieldId' = IF known THEN lastFieldId ELSE id
      /\ classIds' = IF known THEN classIds ELSE class[1]
      /\ lastClassId' = IF known THEN lastClassId ELSE class[2]
      /\ replies' = IF known THEN replies ELSE Append(replies, r)
      /\ UNCHANGED <<requests, className2classId, nextSyntheticId, loaded,
                     instanced, classTagged, stack>>
  BY <1>1, <1>2, <1>3, <1>4 DEF newFieldId, recorded
<1>6. work[2] \in Seq(FieldKeys) /\ key \in FieldKeys /\ Tail(work[2]) \in Seq(FieldKeys)
  <2>1. work[2] \in Seq(FieldKeys) /\ work[2] # <<>>
    BY <1>5 DEF TInv, Typed, RewriterOK
  <2> QED BY <1>1, <2>1
<1>7. key[1] \in Classes
  <2>1. PICK c \in Classes : \/ \E i \in DOMAIN Fields[c] : key = <<c, Fields[c][i]>>
                             \/ \E i \in DOMAIN Accesses[c] : key = Accesses[c][i]
    BY <1>6 DEF FieldKeys
  <2>2. Accesses[c] \in Seq(Classes \X Names)
    BY NumbersAssumption
  <2>3. \A i \in DOMAIN Accesses[c] : Accesses[c][i] \in Classes \X Names
    BY <2>2
  <2> QED BY <2>1, <2>3
<1>8. Len(replies') >= Len(replies) /\ \A c : \A n \in 0 .. Len(replies) : Informed(c, n) => Informed(c, n)'
  <2>1. \A x : /\ Len(replies) \in Nat /\ Len(Append(replies, x)) = Len(replies) + 1
               /\ \A i \in 1 .. Len(replies) : Append(replies, x)[i] = replies[i]
    BY Appending DEF TInv, Typed, PipesOK
  <2> QED BY <1>5, <2>1 DEF Informed
<1>9. Informed(work[1], Len(replies))'
  <2>1. Len(replies) \in Nat /\ Len(replies') \in Nat
    BY EmptyIsZero DEF TInv, IInv
  <2>2. PICK n \in 0 .. Len(replies) : n = Len(replies)
    <3>1. Len(replies) \in 0 .. Len(replies)
      BY <2>1
    <3> QED BY <3>1
  <2>3. PICK c : c = work[1]
    OBVIOUS
  <2>4. Informed(c, n)
    BY <1>5, <2>2, <2>3 DEF TInv, Typed, RewriterOK
  <2>5. Informed(c, n)'
    BY <1>8, <2>4
  <2>6. work'[1] = c /\ 1 .. n \subseteq 1 .. Len(replies')
    BY <1>5, <1>8, <2>1, <2>2, <2>3
  <2> QED BY <2>5, <2>6 DEF Informed
<1>10. RewriterOK'
  <2>1. work'[2] = Tail(work[2])
    BY <1>5
  <2>2. /\ DOMAIN fieldIdTables' = DOMAIN fieldIdTables \cup {key}
        /\ DOMAIN fieldIdTables' \subseteq FieldKeys
    BY <1>5, <1>6 DEF Put, TInv, Typed, RewriterOK
  <2>3. lastFieldId' \in Nat /\ lastFieldId' <= Cardinality(DOMAIN fieldIdTables')
    <3>1. IsFiniteSet(DOMAIN fieldIdTables) /\ Cardinality(DOMAIN fieldIdTables) \in Nat
      BY NumbersAssumption, FS_Subset, FS_CardinalityType DEF TInv, Typed, RewriterOK
    <3>2. CASE known
      <4>1. DOMAIN fieldIdTables' = DOMAIN fieldIdTables
        BY <2>2, <3>2
      <4> QED BY <1>5, <3>2, <4>1 DEF TInv, Typed, RewriterOK
    <3>3. CASE ~known
      <4>1. Cardinality(DOMAIN fieldIdTables') = Cardinality(DOMAIN fieldIdTables) + 1
        BY <2>2, <3>1, <3>3, FS_AddElement
      <4>2. lastFieldId' = lastFieldId + 1
        BY <1>2, <1>5, <3>3 DEF Get
      <4> QED BY <3>1, <4>1, <4>2 DEF TInv, Typed, RewriterOK
    <3> QED BY <3>2, <3>3
  <2>4. /\ DOMAIN class[1] = DOMAIN classIds \cup {key[1]}
        /\ class[2] \in Nat /\ class[2] >= lastClassId /\ class[2] <= Cardinality(DOMAIN class[1])
        /\ \A d \in DOMAIN class[1] \ Untold : class[1][d] \in Nat /\ class[1][d] <= class[2]
    BY <1>3, <1>7, getClassIdFacts DEF TInv, Typed, RewriterOK
  <2>5. /\ DOMAIN classIds' \subseteq Classes
        /\ lastClassId' \in Nat /\ lastClassId' <= Cardinality(DOMAIN classIds')
        /\ \A c \in DOMAIN classIds' \ Untold : classIds'[c] \in Nat /\ classIds'[c] <= lastClassId'
    <3>1. CASE known
      BY <1>5, <3>1 DEF TInv, Typed, RewriterOK
    <3>2. CASE ~known
      BY <1>5, <1>7, <2>4, <3>2 DEF TInv, Typed, RewriterOK
    <3> QED BY <3>1, <3>2
  <2> QED BY <1>6, <1>9, <2>1, <2>2, <2>3, <2>5 DEF RewriterOK
<1>11. CASE known
  <2>1. replies' = replies
    BY <1>5, <1>11
  <2>2. PipesOK' /\ AgentOK' /\ \A u \in Threads : StackOK(stack[u])'
    BY <1>5, <2>1, TypesStay, AgentStays DEF TInv, Typed, PipesOK, AgentOK, RequestOK,
       SyntheticRequest, ReplyOK, Informed
  <2> QED BY <1>10, <2>2 DEF TInv, Typed
<1>12. CASE ~known
  <2>1. replies' = Append(replies, r) /\ ReplyOK(r) /\ r[1] # "InstClassFile"
    BY <1>4, <1>5, <1>12 DEF ReplyOK
  <2> QED BY <1>5, <1>10, <2>1, RepliesOK
<1> QED BY <1>11, <1>12

LEMMA WriteClassTyped ==
  ASSUME TInv, IInv', WriteClass
  PROVE  TInv'
<1> DEFINE r == <<"InstClassFile", work[1]>>
<1>1. /\ ~Idle /\ work' = <<NoClass, <<>>>> /\ replies' = Append(replies, r)
      /\ UNCHANGED <<requests, classIds, fieldIdTables, lastClassId, lastFieldId,
                     className2classId, nextSyntheticId, loaded, instanced, classTagged, stack>>
  BY DEF WriteClass, recorded
<1>2. RewriterOK'
  BY <1>1 DEF TInv, Typed, RewriterOK, Idle
<1>3. ReplyOK(r) /\ Informed(r[2], Len(replies))
  BY <1>1 DEF ReplyOK, TInv, Typed, RewriterOK
<1> HIDE DEF r
<1> QED BY <1>1, <1>2, <1>3, RepliesOK

LEMMA SyntheticTyped ==
  ASSUME TInv, IInv', Synthetic
  PROVE  TInv'
<1>1. PICK q : q = Head(requests)
  OBVIOUS
<1> DEFINE r == <<"Ack", NoClass>>
<1>2. /\ Idle /\ requests # <<>> /\ q[1] # "OrigClassFile"
      /\ classIds' = IF q[1] = "SynthClassInfo" THEN Put(classIds, q[2][2], q[2][1]) ELSE classIds
      /\ fieldIdTables' = IF q[1] = "SynthFieldInfo" THEN Put(fieldIdTables, q[2][2], q[2][1])
                          ELSE fieldIdTables
      /\ replies' = Append(replies, r) /\ requests' = Tail(requests)
      /\ UNCHANGED <<lastClassId, lastFieldId, work, className2classId, nextSyntheticId,
                     loaded, instanced, classTagged, stack>>
  BY <1>1 DEF Synthetic, recorded
<1>3. SyntheticRequest(q)
  <2>1. Head(requests) = requests[1] /\ 1 \in 1 .. Len(requests)
    BY <1>2, Tailing DEF TInv, Typed, PipesOK
  <2>2. RequestOK(q)
    BY <1>1, <2>1 DEF TInv, Typed, PipesOK
  <2> QED BY <1>2, <2>2 DEF RequestOK
<1>4. RewriterOK'
  <2>1. /\ DOMAIN classIds \subseteq DOMAIN classIds' /\ DOMAIN classIds' \subseteq Classes
        /\ \A c \in DOMAIN classIds' \ Untold : c \in DOMAIN classIds /\ classIds'[c] = classIds[c]
    BY <1>2, <1>3, SlotsAssumption DEF Put, SyntheticRequest, TInv, Typed, RewriterOK
  <2>2. DOMAIN fieldIdTables \subseteq DOMAIN fieldIdTables' /\ DOMAIN fieldIdTables' \subseteq FieldKeys
    BY <1>2, <1>3 DEF Put, SyntheticRequest, TInv, Typed, RewriterOK
  <2>3. /\ Cardinality(DOMAIN classIds) <= Cardinality(DOMAIN classIds')
        /\ Cardinality(DOMAIN classIds) \in Nat /\ Cardinality(DOMAIN classIds') \in Nat
    <3>1. IsFiniteSet(DOMAIN classIds')
      BY <2>1, NumbersAssumption, FS_Subset
    <3> QED BY <2>1, <3>1, FS_Subset, FS_CardinalityType
  <2>4. /\ Cardinality(DOMAIN fieldIdTables) <= Cardinality(DOMAIN fieldIdTables')
        /\ Cardinality(DOMAIN fieldIdTables) \in Nat /\ Cardinality(DOMAIN fieldIdTables') \in Nat
    <3>1. IsFiniteSet(DOMAIN fieldIdTables')
      BY <2>2, NumbersAssumption, FS_Subset
    <3> QED BY <2>2, <3>1, FS_Subset, FS_CardinalityType
  <2>5. lastClassId' \in Nat /\ lastClassId' <= Cardinality(DOMAIN classIds')
    BY <1>2, <2>3 DEF TInv, Typed, RewriterOK
  <2>6. lastFieldId' \in Nat /\ lastFieldId' <= Cardinality(DOMAIN fieldIdTables')
    BY <1>2, <2>4 DEF TInv, Typed, RewriterOK
  <2>7. \A c \in DOMAIN classIds' \ Untold : classIds'[c] \in Nat /\ classIds'[c] <= lastClassId'
    BY <1>2, <2>1 DEF TInv, Typed, RewriterOK
  <2> QED BY <1>2, <2>1, <2>2, <2>5, <2>6, <2>7 DEF RewriterOK, Idle
<1>5. ReplyOK(r) /\ r[1] # "InstClassFile"
  BY DEF ReplyOK
<1> HIDE DEF r
<1> QED BY <1>2, <1>4, <1>5, RepliesOK

LEMMA InitTInv == Init => TInv
<1> SUFFICES ASSUME Init PROVE TInv
  OBVIOUS
<1>1. /\ requests = <<>> /\ replies = <<>> /\ classIds = Empty /\ fieldIdTables = Empty
      /\ lastClassId = 0 /\ lastFieldId = 0 /\ work[1] = NoClass
      /\ className2classId = Empty /\ nextSyntheticId = SYNTHETIC_ID_BASE
      /\ stack = [t \in Threads |-> <<>>] /\ classTagged = {} /\ loaded = {} /\ instanced = {}
  BY DEF Init
<1>2. DOMAIN Empty = {} /\ Cardinality({}) = 0
  BY FS_EmptySet DEF Empty
<1>3. IsSequence(<<>>) /\ 1 .. Len(<<>>) = {}
  BY EmptyGood DEF Good
<1>4. PipesOK
  BY <1>1, <1>3 DEF PipesOK
<1>5. RewriterOK
  BY <1>1, <1>2 DEF RewriterOK, Idle
<1>6. AgentOK
  BY <1>1, <1>2, SlotsAssumption DEF AgentOK
<1> QED BY <1>1, <1>4, <1>5, <1>6, EmptyOK, InitIInv DEF TInv, Typed

LEMMA NextTInv == TInv /\ [Next]_vars => TInv'
<1> SUFFICES ASSUME TInv, [Next]_vars PROVE TInv'
  OBVIOUS
<1>0. IInv'
  BY NextIInv DEF TInv
<1>1. CASE UNCHANGED vars
  <2>1. UNCHANGED <<requests, replies, rewriter, className2classId, nextSyntheticId, loaded,
                    instanced, classTagged, stack>>
    BY <1>1 DEF vars, pipes, recorded
  <2>2. PipesOK' /\ RewriterOK'
    BY <2>1, PipesStay DEF TInv
  <2>3. AgentOK' /\ \A u \in Threads : StackOK(stack[u])'
    BY <2>1, TypesStay, AgentStays DEF TInv, Typed, AgentOK
  <2> QED BY <1>0, <2>2, <2>3 DEF TInv, Typed
<1>2. CASE Rewriter
  BY <1>0, <1>2, VisitTyped, newFieldIdTyped, WriteClassTyped, SyntheticTyped DEF Rewriter
<1>3. ASSUME NEW t \in Threads, Works(t)
      PROVE  TInv'
  BY <1>0, <1>3, ReadRecordTyped, SendInfoTyped, ReadAckTyped, LookupTagTyped, LookupIdTyped,
     AssignSlotsTyped, WithoutIdTyped, SyntheticClassTyped, SyntheticFieldTyped
     DEF Works, getSlotsForClass, handleClassWithoutId
<1>4. ASSUME NEW t \in Threads, NEW c \in Classes, instrumentClass(t, c) \/ TagObject(t, c)
      PROVE  TInv'
  BY <1>0, <1>4, instrumentClassTyped, TagObjectTyped
<1> QED BY <1>1, <1>2, <1>3, <1>4 DEF Next

(* The numbers that the agent makes up and those of the rewriter are apart *)
(* as long as there are fewer classes and fields than SYNTHETIC_ID_BASE,   *)
(* and just the classes that the VM did not tell of have a made up one     *)
(* (RecordClassInfo, handleClassWithoutId, getClassId, getFieldId).        *)
THEOREM NumbersApart == Spec => []TypeOK
<1>1. TInv => TypeOK
  BY TypedImplies DEF TInv
<1> QED BY <1>1, InitTInv, NextTInv, PTL DEF Spec

-----------------------------------------------------------------------------
(* Slots.  The classes above a class, and its fields.                      *)

\* Nobody walks up the hierarchy for ever: a set of classes from each of which one gets
\* to another one in it is empty.
LEMMA Descent ==
  ASSUME NEW Bad \in SUBSET Classes,
         \A c \in Bad : Super[c] # NoClass /\ Super[c] \in Bad
  PROVE  Bad = {}
<1> SUFFICES ASSUME Bad # {} PROVE FALSE
  OBVIOUS
<1> DEFINE A(c) == Ancestors[c] \cap Bad
           TT == {A(c) : c \in Bad}
           R == StrictSubsetOrdering(Classes)
           F == FiniteSubsetsOf(Classes)
<1>1. TT \subseteq F
  BY NumbersAssumption, FS_Subset DEF FiniteSubsetsOf
<1>2. IsWellFoundedOn(R, F)
  BY FS_StrictSubsetOrderingWellFounded
<1>3. TT # {}
  OBVIOUS
<1>4. PICK x \in TT : \A y \in TT : ~ (<<y, x>> \in R)
  <2> HIDE DEF R, F, TT
  <2> QED BY <1>1, <1>2, <1>3, WFMin
<1>5. PICK c \in Bad : x = A(c)
  OBVIOUS
<1>6. Super[c] \in Bad /\ Super[c] \in Classes
  OBVIOUS
<1>7. A(c) = A(Super[c]) \cup {c} /\ c \notin A(Super[c])
  BY AncestorsFacts, HierarchyAssumption
<1>8. <<A(Super[c]), A(c)>> \in R
  <2>1. A(c) \in SUBSET Classes /\ A(Super[c]) \in SUBSET Classes
    OBVIOUS
  <2> HIDE DEF A
  <2> QED BY <1>7, <2>1 DEF StrictSubsetOrdering
<1>9. A(Super[c]) \in TT
  BY <1>6
<1> HIDE DEF R, TT, A
<1> QED BY <1>4, <1>5, <1>8, <1>9

\* Ancestors[c] is the least set with c that is closed under Super, and it is a chain.
LEMMA AncestorsLeast ==
  ASSUME NEW S, \A x \in S : Super[x] # NoClass => Super[x] \in S,
         NEW c \in Classes, c \in S
  PROVE  Ancestors[c] \subseteq S
<1> DEFINE Bad == {d \in Classes : d \in S /\ ~(Ancestors[d] \subseteq S)}
<1>1. ASSUME NEW d \in Bad PROVE Super[d] # NoClass /\ Super[d] \in Bad
  BY AncestorsFacts, SlotsAssumption
<1>2. Bad = {}
  <2> HIDE DEF Bad
  <2>1. Bad \in SUBSET Classes
    BY DEF Bad
  <2> QED BY <1>1, <2>1, Descent
<1> QED BY <1>2

LEMMA AncestorsAbove ==
  ASSUME NEW c \in Classes
  PROVE  /\ c \in Ancestors[c] /\ Ancestors[c] \subseteq Classes
         /\ \A d \in Ancestors[c] : Ancestors[d] \subseteq Ancestors[c]
         /\ \A d, e \in Ancestors[c] : d \in Ancestors[e] \/ e \in Ancestors[d]
<1>1. \A d \in Classes : d \in Ancestors[d]
  BY AncestorsFacts
<1>2. \A d \in Classes : Ancestors[d] \subseteq Classes
  BY SlotsAssumption, AncestorsLeast
<1>3. \A d \in Ancestors[c] : Ancestors[d] \subseteq Ancestors[c]
  <2> DEFINE Bad == {b \in Classes : \E d \in Ancestors[b] : ~(Ancestors[d] \subseteq Ancestors[b])}
  <2>1. ASSUME NEW b \in Bad PROVE Super[b] # NoClass /\ Super[b] \in Bad
    BY AncestorsFacts, SlotsAssumption
  <2>2. Bad = {}
    <3> HIDE DEF Bad
    <3>1. Bad \in SUBSET Classes
      BY DEF Bad
    <3> QED BY <2>1, <3>1, Descent
  <2> QED BY <2>2
<1>4. \A d, e \in Ancestors[c] : d \in Ancestors[e] \/ e \in Ancestors[d]
  <2> DEFINE Bad == {b \in Classes : \E d, e \in Ancestors[b] :
                                       d \notin Ancestors[e] /\ e \notin Ancestors[d]}
  <2>1. ASSUME NEW b \in Bad PROVE Super[b] # NoClass /\ Super[b] \in Bad
    <3>1. PICK d \in Ancestors[b], e \in Ancestors[b] : d \notin Ancestors[e] /\ e \notin Ancestors[d]
      OBVIOUS
    <3>2. d # b /\ e # b
      BY <3>1
    <3>3. Super[b] # NoClass /\ d \in Ancestors[Super[b]] /\ e \in Ancestors[Super[b]]
      BY <3>2, AncestorsFacts
    <3> QED BY <3>1, <3>3, SlotsAssumption
  <2>2. Bad = {}
    <3> HIDE DEF Bad
    <3>1. Bad \in SUBSET Classes
      BY DEF Bad
    <3> QED BY <2>1, <3>1, Descent
  <2> QED BY <2>2
<1> QED BY <1>1, <1>2, <1>3, <1>4

\* A class that declares the field is the one that the JVM finds.
LEMMA DeclarerIsOwner ==
  ASSUME NEW o \in Classes, NEW n \in Names, n \in NamesOf(o)
  PROVE  Declarer[<<o, n>>] = o
<1> DEFINE K == Classes \X Names
           End(k) == k[2] \in NamesOf(k[1]) \/ Super[k[1]] = NoClass
           Up(k) == <<Super[k[1]], k[2]>>
           Closed(S) == \A x \in S : ~End(x) => Up(x) \in S
           D(k) == {x \in K : End(x) /\ \A S \in SUBSET K : Closed(S) /\ k \in S => x \in S}
           F(k) == IF End(k) THEN k[1] ELSE (CHOOSE x \in D(k) : TRUE)[1]
           f == [k \in K |-> F(k)]
           Eq(g) == g = [k \in K |-> IF k[2] \in NamesOf(k[1]) \/ Super[k[1]] = NoClass THEN k[1]
                                     ELSE g[<<Super[k[1]], k[2]>>]]
<1>1. ASSUME NEW k \in K, ~End(k)
      PROVE  Up(k) \in K /\ F(k) = F(Up(k))
  <2>1. Up(k) \in K
    BY <1>1, SlotsAssumption
  <2>2. D(k) = D(Up(k))
    <3>1. ASSUME NEW x \in D(Up(k)) PROVE x \in D(k)
      <4> HIDE DEF End, Up
      <4> QED BY <1>1
    <3>2. ASSUME NEW x \in D(k), NEW S \in SUBSET K, Closed(S), Up(k) \in S
          PROVE  x \in S
      <4>1. Closed(S \cup {k}) /\ S \cup {k} \in SUBSET K
        <5> HIDE DEF End, Up, K
        <5> QED BY <3>2
      <4>2. x \in S \cup {k}
        <5> HIDE DEF Closed, End
        <5> QED BY <4>1
      <4>3. x # k
        <5> HIDE DEF End
        <5> QED BY <1>1
      <4> QED BY <4>2, <4>3
    <3>3. \A x \in D(k) : x \in K /\ End(x)
      OBVIOUS
    <3> HIDE DEF End, Up, K
    <3> QED BY <3>1, <3>2, <3>3
  <2>3. CASE ~End(Up(k))
    <3> HIDE DEF D, End, Up, K
    <3> QED BY <1>1, <2>1, <2>2, <2>3
  <2>4. CASE End(Up(k))
    <3>1. D(Up(k)) = {Up(k)}
      <4> HIDE DEF End, Up, K
      <4>1. Up(k) \in D(Up(k))
        BY <2>1, <2>4
      <4>2. ASSUME NEW x \in D(Up(k)) PROVE x = Up(k)
        <5>1. Closed({Up(k)}) /\ {Up(k)} \in SUBSET K
          BY <2>1, <2>4
        <5> HIDE DEF Closed
        <5> QED BY <5>1
      <4> HIDE DEF D
      <4> QED BY <4>1, <4>2
    <3> HIDE DEF D, End, Up, K
    <3> QED BY <1>1, <2>1, <2>2, <2>4, <3>1
  <2> QED BY <2>1, <2>3, <2>4
<1>2. Eq(f)
  <2>1. ASSUME NEW k \in K
        PROVE  F(k) = IF End(k) THEN k[1] ELSE f[Up(k)]
    <3>1. CASE End(k)
      <4> HIDE DEF End, Up
      <4> QED BY <3>1
    <3>2. CASE ~End(k)
      <4>1. f[Up(k)] = F(Up(k))
        <5>1. Up(k) \in K
          BY <1>1, <3>2
        <5> HIDE DEF F, Up, K
        <5> QED BY <5>1
      <4> HIDE DEF F, f, K, End, Up
      <4> QED BY <1>1, <3>2, <4>1
    <3> QED BY <3>1, <3>2
  <2> HIDE DEF F
  <2> QED BY <2>1
<1>3. Declarer = CHOOSE g : Eq(g)
  BY DEF Declarer
<1>4. Eq(Declarer)
  <2> HIDE DEF Eq, f
  <2> QED BY <1>2, <1>3
<1>5. <<o, n>> \in K /\ <<o, n>>[1] = o /\ <<o, n>>[2] = n
  OBVIOUS
<1>6. Declarer[<<o, n>>] = <<o, n>>[1]
  BY <1>4, <1>5
<1> QED BY <1>5, <1>6

\* The slots of a class come behind those of its superclass.
Total(c) == Cardinality(InstanceFields(c))
Own(c) == {d \in {c} \X Names : d[2] \in NamesOf(c) /\ d \notin Static}

LEMMA TotalFacts ==
  ASSUME NEW c \in Classes
  PROVE  /\ Total(c) \in Nat /\ IsFiniteSet(Own(c)) /\ Cardinality(Own(c)) \in Nat
         /\ Super[c] # NoClass => Total(c) = Total(Super[c]) + Cardinality(Own(c))
         /\ \A d \in Ancestors[c] : Total(d) <= Total(c)
         /\ Total(Object) = 0 /\ NamesOf(Object) = {}
<1>1. \A x \in Classes : \A n \in NamesOf(x) : <<x, n>> \in FieldKeys /\ n \in Names
  <2>1. ASSUME NEW x \in Classes, NEW n \in NamesOf(x)
        PROVE  <<x, n>> \in FieldKeys /\ n \in Names
    <3>1. n \in Names
      BY DEF Names
    <3>2. PICK i \in DOMAIN Fields[x] : n = Fields[x][i]
      BY DEF NamesOf
    <3> DEFINE K(b) == {<<b, Fields[b][j]>> : j \in DOMAIN Fields[b]}
                         \cup {Accesses[b][j] : j \in DOMAIN Accesses[b]}
    <3>3. <<x, n>> \in K(x)
      BY <3>2
    <3>4. FieldKeys = UNION {K(b) : b \in Classes}
      BY DEF FieldKeys
    <3> HIDE DEF K
    <3> QED BY <3>1, <3>3, <3>4
  <2> QED BY <2>1
<1>2. ASSUME NEW x \in Classes
      PROVE  IsFiniteSet(InstanceFields(x)) /\ Total(x) \in Nat
  <2>1. InstanceFields(x) \in SUBSET FieldKeys
    BY <1>1, AncestorsAbove DEF InstanceFields
  <2> QED BY <2>1, NumbersAssumption, FS_Subset, FS_CardinalityType DEF Total
<1>3. IsFiniteSet(Own(c)) /\ Cardinality(Own(c)) \in Nat
  <2>1. Own(c) \in SUBSET FieldKeys
    BY <1>1 DEF Own
  <2> QED BY <2>1, NumbersAssumption, FS_Subset, FS_CardinalityType
<1>4. ASSUME Super[c] # NoClass
      PROVE  Total(c) = Total(Super[c]) + Cardinality(Own(c))
  <2>1. Super[c] \in Classes
    BY <1>4, SlotsAssumption
  <2>2. Ancestors[c] = {c} \cup Ancestors[Super[c]] /\ c \notin Ancestors[Super[c]]
    BY <1>4, AncestorsFacts, HierarchyAssumption
  <2>3. InstanceFields(c) = InstanceFields(Super[c]) \cup Own(c)
    BY <2>2 DEF InstanceFields, Own
  <2>4. InstanceFields(Super[c]) \cap Own(c) = {}
    BY <2>2 DEF InstanceFields, Own
  <2>5. Cardinality(InstanceFields(c))
          = Cardinality(InstanceFields(Super[c])) + Cardinality(Own(c)) - Cardinality({})
    BY <1>2, <1>3, <2>1, <2>3, <2>4, FS_Union
  <2> QED BY <1>2, <1>3, <2>1, <2>5, FS_EmptySet DEF Total
<1>5. ASSUME NEW d \in Ancestors[c]
      PROVE  Total(d) <= Total(c)
  <2>1. d \in Classes /\ Ancestors[d] \subseteq Ancestors[c]
    BY AncestorsAbove
  <2>2. InstanceFields(d) \in SUBSET InstanceFields(c)
    BY <2>1 DEF InstanceFields
  <2> QED BY <1>2, <2>2, FS_Subset DEF Total
<1>6. Total(Object) = 0 /\ NamesOf(Object) = {}
  <2>1. NamesOf(Object) = {}
    <3>1. DOMAIN Fields[Object] = {}
      BY HierarchyAssumption
    <3> QED BY <3>1 DEF NamesOf
  <2>2. Ancestors[Object] = {Object}
    BY AncestorsFacts, SlotsAssumption
  <2>3. InstanceFields(Object) = {}
    BY <2>1, <2>2 DEF InstanceFields
  <2> QED BY <2>1, <2>3, FS_EmptySet DEF Total
<1> QED BY <1>2, <1>3, <1>4, <1>5, <1>6

\* The instance fields of a class get the places from superSlots on, each one its own.
LEMMA SlotsDense ==
  ASSUME NEW info, IsSequence(info), NEW base \in Nat,
         \A i \in 1 .. Len(info) : info[i][2] \in Int,
         \A i, j \in 1 .. Len(info) : info[i][2] = info[j][2] => i = j
  PROVE  LET g == SlotsFrom(base, info)
         IN  /\ DOMAIN g = InstanceIds(info) /\ IsFiniteSet(DOMAIN g)
             /\ Cardinality(DOMAIN g) \in Nat
             /\ \A x \in DOMAIN g : g[x] \in base .. base + Cardinality(DOMAIN g) - 1
             /\ \A x, y \in DOMAIN g : g[x] = g[y] => x = y
<1> DEFINE P == {i \in 1 .. Len(info) : info[i][2] > 0}
           Before(j) == {i \in P : i < j}
           g == SlotsFrom(base, info)
<1>1. Len(info) \in Nat /\ DOMAIN info = 1 .. Len(info)
  BY DEF IsSequence
<1>2. DOMAIN g = InstanceIds(info) /\ InstanceIds(info) = {info[i][2] : i \in P}
  BY <1>1 DEF SlotsFrom, InstanceIds
<1>3. IsFiniteSet(P)
  <2>1. IsFiniteSet(1 .. Len(info)) /\ P \in SUBSET (1 .. Len(info))
    BY <1>1, FS_Interval
  <2> HIDE DEF P
  <2> QED BY <2>1, FS_Subset
<1>4. IsFiniteSet(InstanceIds(info)) /\ Cardinality(InstanceIds(info)) = Cardinality(P)
      /\ Cardinality(P) \in Nat
  <2> DEFINE b == [i \in P |-> info[i][2]]
  <2>1. b \in Bijection(P, InstanceIds(info))
    <3>1. b \in [P -> InstanceIds(info)]
      BY <1>2
    <3>2. \A i, j \in P : b[i] = b[j] => i = j
      OBVIOUS
    <3>3. \A x \in InstanceIds(info) : \E i \in P : b[i] = x
      BY <1>2
    <3> HIDE DEF b, P
    <3> QED BY <3>1, <3>2, <3>3 DEF Bijection, Injection, Surjection, IsInjective
  <2>2. ExistsBijection(P, InstanceIds(info))
    BY <2>1 DEF ExistsBijection
  <2> QED BY <1>3, <2>2, FS_Bijection, FS_CardinalityType
<1>5. ASSUME NEW j \in P
      PROVE  g[info[j][2]] = base + Cardinality(Before(j)) /\ info[j][2] \in DOMAIN g
  <2>1. info[j][2] \in DOMAIN g
    BY <1>2
  <2>2. (CHOOSE i \in DOMAIN info : info[i][2] = info[j][2]) = j
    BY <1>1
  <2>3. {i \in DOMAIN info : info[i][2] > 0
           /\ i < CHOOSE k \in DOMAIN info : info[k][2] = info[j][2]} = Before(j)
    BY <1>1, <2>2
  <2>4. g[info[j][2]] = base + Cardinality({i \in DOMAIN info : info[i][2] > 0
           /\ i < CHOOSE k \in DOMAIN info : info[k][2] = info[j][2]})
    BY <1>2, <2>1 DEF SlotsFrom
  <2> QED BY <2>1, <2>3, <2>4
<1>6. ASSUME NEW j \in P
      PROVE  /\ Cardinality(Before(j)) \in Nat /\ Cardinality(Before(j)) < Cardinality(P)
             /\ \A i \in P : i < j => Cardinality(Before(i)) < Cardinality(Before(j))
  <2>1. \A k \in P : Before(k) \in SUBSET P /\ IsFiniteSet(Before(k)) /\ Cardinality(Before(k)) \in Nat
    BY <1>3, FS_Subset, FS_CardinalityType
  <2>2. Before(j) # P
    BY <1>1
  <2>3. Cardinality(Before(j)) < Cardinality(P)
    <3> HIDE DEF P, Before
    <3> QED BY <1>3, <1>4, <2>1, <2>2, FS_Subset
  <2>4. ASSUME NEW i \in P, i < j
        PROVE  Cardinality(Before(i)) < Cardinality(Before(j))
    <3>1. Before(i) \in SUBSET Before(j) /\ Before(i) # Before(j)
      BY <1>1, <2>4
    <3> HIDE DEF P, Before
    <3> QED BY <2>1, <3>1, FS_Subset
  <2> QED BY <2>1, <2>3, <2>4
<1>7. \A x \in DOMAIN g : \E j \in P : x = info[j][2]
  BY <1>2
<1>8. ASSUME NEW x \in DOMAIN g
      PROVE  g[x] \in base .. base + Cardinality(DOMAIN g) - 1
  <2>1. PICK j \in P : x = info[j][2]
    BY <1>7
  <2> HIDE DEF P, Before, g
  <2>2. PICK n, k : n = Cardinality(Before(j)) /\ k = Cardinality(DOMAIN g)
    OBVIOUS
  <2>3. n \in Nat /\ k \in Nat /\ n < k /\ g[x] = base + n
    BY <1>2, <1>4, <1>5, <1>6, <2>1, <2>2
  <2> QED BY <2>2, <2>3
<1>9. ASSUME NEW x \in DOMAIN g, NEW y \in DOMAIN g, g[x] = g[y]
      PROVE  x = y
  <2>1. PICK i \in P, j \in P : x = info[i][2] /\ y = info[j][2]
    BY <1>7
  <2>2. i \in Nat /\ j \in Nat
    BY <1>1
  <2>3. Cardinality(Before(i)) = Cardinality(Before(j))
    <3> HIDE DEF P, Before, g
    <3> QED BY <1>5, <1>6, <1>9, <2>1
  <2>4. i = j
    <3> HIDE DEF P, Before, g
    <3> QED BY <1>6, <2>2, <2>3
  <2> QED BY <2>1, <2>4
<1> HIDE DEF P, Before, g
<1> QED BY <1>2, <1>4, <1>8, <1>9 DEF g

-----------------------------------------------------------------------------
(* Slots: the numbers of fields and what is recorded under them.  Code     *)
(* has the number of a field that the rewriter has put into its table; the *)
(* record of the field is then on its way to the agent, or the agent has   *)
(* it, once.  An entry of classId2fieldsInfo is at a place of a class id.  *)

\* Code may name a subclass of the class that declares the field: such a key is one more
\* key, with a number and an entry of its own.
ToldKeys == {k \in Classes \X Names : k[1] \notin Untold}

Places(x) == IF x \in DOMAIN classId2fieldsInfo THEN 1 .. Len(classId2fieldsInfo[x]) ELSE {}
NameAt(x, j) == classId2fieldsInfo[x][j][1]
NumberAt(x, j) == classId2fieldsInfo[x][j][2]
Magnitude(n) == IF n < 0 THEN -n ELSE n

Numbered(k) == k \in ToldKeys /\ k \in DOMAIN fieldIdTables
Signed(k) == IF IsStatic(k[1], k[2]) THEN -fieldIdTables[k] ELSE fieldIdTables[k]
EntryOf(x, j, k) == Numbered(k) /\ classIds[k[1]] = x /\ NameAt(x, j) = k[2] /\ NumberAt(x, j) = Signed(k)
Recorded(k) == \E j \in Places(classIds[k[1]]) : EntryOf(classIds[k[1]], j, k)
Report(r, k) == /\ Numbered(k) /\ r[1] = classIds[k[1]] /\ r[2] = k[2]
                /\ r[3] = fieldIdTables[k] /\ (r[4] <=> IsStatic(k[1], k[2]))
Pending(i) == replies[i][1] = "FieldInfo"
Free(n) == \A x \in DOMAIN classId2fieldsInfo : \A j \in Places(x) : Magnitude(NumberAt(x, j)) # n

\* The class that the rewriter is at, and the tables.
HasKeys(c) == \A n \in NamesOf(c) : <<c, n>> \in DOMAIN fieldIdTables
WorkRight ==
  ~Idle => /\ work[1] \in Classes \ Untold
           /\ \A i \in 1 .. Len(work[2]) : work[2][i] \in Classes \X Names
           /\ \A n \in NamesOf(work[1]) : \/ <<work[1], n>> \in DOMAIN fieldIdTables
                                          \/ \E i \in 1 .. Len(work[2]) : work[2][i] = <<work[1], n>>
TablesRight ==
  /\ \A k \in DOMAIN fieldIdTables : k[1] \notin Untold =>
       k \in ToldKeys /\ fieldIdTables[k] \in 1 .. lastFieldId /\ k[1] \in DOMAIN classIds
  /\ \A k, l \in DOMAIN fieldIdTables :
       k[1] \notin Untold /\ l[1] \notin Untold /\ fieldIdTables[k] = fieldIdTables[l] => k = l
  /\ \A c, d \in DOMAIN classIds \ Untold : classIds[c] = classIds[d] => c = d
CodeRight == \A u \in code : u[2] \notin Untold =>
               Numbered(<<u[2], u[3]>>) /\ u[4] = fieldIdTables[<<u[2], u[3]>>]

\* What is in the pipe to the agent.
ReplyRight(r) ==
  /\ r[1] = "ClassInfo" => r[2][2] \in DOMAIN classIds \ Untold /\ r[2][1] = classIds[r[2][2]]
  /\ r[1] = "FieldInfo" =>
       /\ r[2][3] \in 1 .. lastFieldId /\ r[2][4] \in BOOLEAN
       /\ \A k \in ToldKeys : Numbered(k) /\ fieldIdTables[k] = r[2][3] => Report(r[2], k)
  /\ r[1] = "InstClassFile" => HasKeys(r[2])
RepliesRight ==
  /\ \A i \in 1 .. Len(replies) : ReplyRight(replies[i])
  /\ \A i, j \in 1 .. Len(replies) :
       Pending(i) /\ Pending(j) /\ replies[i][2][3] = replies[j][2][3] => i = j
  /\ \A i \in 1 .. Len(replies) : Pending(i) => Free(replies[i][2][3])

\* What the agent has recorded.
EntryRight(x, j) ==
  /\ NumberAt(x, j) \in Int /\ NumberAt(x, j) # 0
  /\ \/ Magnitude(NumberAt(x, j)) <= lastFieldId
     \/ SYNTHETIC_ID_BASE <= Magnitude(NumberAt(x, j)) /\ Magnitude(NumberAt(x, j)) < nextSyntheticId
Covered(k) == \/ Recorded(k)
              \/ \E i \in 1 .. Len(replies) : Pending(i) /\ replies[i][2][3] = fieldIdTables[k]
EntriesApart ==
  \A x, y \in DOMAIN classId2fieldsInfo : \A i \in Places(x), j \in Places(y) :
    Magnitude(NumberAt(x, i)) = Magnitude(NumberAt(y, j)) => x = y /\ i = j
InfosAreSequences ==
  \A x \in DOMAIN classId2fieldsInfo : IsSequence(classId2fieldsInfo[x])
InfosRight ==
  /\ InfosAreSequences /\ EntriesApart
  /\ \A x \in DOMAIN classId2fieldsInfo : \A j \in Places(x) : EntryRight(x, j)
  /\ \A k \in ToldKeys : Numbered(k) => Covered(k)
StaticsRight ==
  /\ staticSlots \in Nat
  /\ \A x \in DOMAIN classId2fieldsInfo : \A i \in Places(x) : NumberAt(x, i) < 0 =>
       /\ -NumberAt(x, i) \in DOMAIN fieldId2slot /\ fieldId2slot[-NumberAt(x, i)] \in Nat
       /\ fieldId2slot[-NumberAt(x, i)] < staticSlots
  /\ \A x, y \in DOMAIN classId2fieldsInfo : \A i \in Places(x), j \in Places(y) :
       NumberAt(x, i) < 0 /\ NumberAt(y, j) < 0
         /\ fieldId2slot[-NumberAt(x, i)] = fieldId2slot[-NumberAt(y, j)]
         => NumberAt(x, i) = NumberAt(y, j)
NamesRight ==
  /\ \A c \in DOMAIN className2classId \ Untold :
       c \in DOMAIN classIds /\ className2classId[c] = classIds[c]
  /\ \A c \in DOMAIN className2classId : className2classId[c] < nextSyntheticId
  /\ \A c, d \in DOMAIN className2classId : className2classId[c] = className2classId[d] => c = d

\* A class that is being loaded is not loaded yet.  Of one that is loaded the agent knows
\* all fields, and all that its code updates.
Unloaded ==
  \A t \in Threads :
    stack[t] # <<>> /\ Top(stack[t]).op = "instrument" => Top(stack[t]).class \notin loaded
LoadedRight ==
  /\ Unloaded
  /\ \A c \in loaded : \A n \in NamesOf(c) : Recorded(<<c, n>>)
  /\ \A u \in code : u[1] \in loaded /\ u[2] \notin Untold => Recorded(<<u[2], u[3]>>)

NumbersRight ==
  WorkRight /\ TablesRight /\ CodeRight /\ RepliesRight /\ InfosRight /\ StaticsRight
    /\ NamesRight /\ LoadedRight

\* A field is recorded, at the next place.
NextPlace(x) == Len(Get(classId2fieldsInfo, x, <<>>)) + 1

Records(x, name, v) ==
  /\ classId2fieldsInfo' = Put(classId2fieldsInfo, x, Append(Get(classId2fieldsInfo, x, <<>>), <<name, v>>))
  /\ staticSlots' = IF v < 0 THEN staticSlots + 1 ELSE staticSlots
  /\ fieldId2slot' = IF v < 0 THEN Put(fieldId2slot, -v, staticSlots) ELSE fieldId2slot

LEMMA RecordsEntry ==
  ASSUME InfosAreSequences, NEW x, NEW name, NEW v, Records(x, name, v),
         NEW n, n = NextPlace(x)
  PROVE  /\ InfosAreSequences' /\ DOMAIN classId2fieldsInfo' = DOMAIN classId2fieldsInfo \cup {x}
         /\ \A y : y # x => Places(y)' = Places(y)
         /\ \A y : \A j \in Places(y) : /\ j \in Places(y)' /\ NameAt(y, j)' = NameAt(y, j)
                                        /\ NumberAt(y, j)' = NumberAt(y, j)
         /\ n \notin Places(x) /\ Places(x)' = Places(x) \cup {n}
         /\ NameAt(x, n)' = name /\ NumberAt(x, n)' = v
<1> DEFINE old == Get(classId2fieldsInfo, x, <<>>)
           new == Append(old, <<name, v>>)
<1>1. classId2fieldsInfo' = Put(classId2fieldsInfo, x, new)
  BY DEF Records
<1>2. /\ DOMAIN classId2fieldsInfo' = DOMAIN classId2fieldsInfo \cup {x}
      /\ classId2fieldsInfo'[x] = new
      /\ \A y \in DOMAIN classId2fieldsInfo : y # x => classId2fieldsInfo'[y] = classId2fieldsInfo[y]
  <2> HIDE DEF new
  <2> QED BY <1>1 DEF Put
<1>3. IsSequence(old) /\ Places(x) = 1 .. Len(old)
      /\ (x \in DOMAIN classId2fieldsInfo => old = classId2fieldsInfo[x])
  <2>1. CASE x \in DOMAIN classId2fieldsInfo
    BY <2>1 DEF InfosAreSequences, Get, Places
  <2>2. CASE x \notin DOMAIN classId2fieldsInfo
    <3>1. IsSequence(<<>>) /\ 1 .. Len(<<>>) = {}
      BY EmptyGood DEF Good
    <3> QED BY <2>2, <3>1 DEF Get, Places
  <2> QED BY <2>1, <2>2
<1> HIDE DEF old
<1>4. /\ IsSequence(new) /\ Len(old) \in Nat /\ Len(new) = Len(old) + 1
      /\ \A i \in 1 .. Len(old) : new[i] = old[i]
      /\ new[Len(old) + 1] = <<name, v>>
  BY <1>3, Appending
<1> HIDE DEF new
<1>6. /\ n \notin Places(x) /\ Places(x)' = Places(x) \cup {n}
      /\ NameAt(x, n)' = name /\ NumberAt(x, n)' = v
  <2>1. n = Len(old) + 1
    BY DEF NextPlace, old
  <2> QED BY <1>2, <1>3, <1>4, <2>1 DEF Places, NameAt, NumberAt
<1>7. \A y : y # x => Places(y)' = Places(y)
  BY <1>2 DEF Places
<1>8. ASSUME NEW y, NEW j \in Places(y)
      PROVE  /\ j \in Places(y)' /\ NameAt(y, j)' = NameAt(y, j) /\ NumberAt(y, j)' = NumberAt(y, j)
  <2>1. CASE y = x
    <3>1. classId2fieldsInfo'[y][j] = new[j] /\ new[j] = old[j] /\ classId2fieldsInfo[y][j] = old[j]
        BY <1>2, <1>3, <1>4, <2>1 DEF Places
    <3> QED BY <1>6, <2>1, <3>1 DEF NameAt, NumberAt
  <2>2. CASE y # x
    BY <1>2, <1>7, <2>2 DEF Places, NameAt, NumberAt
  <2> QED BY <2>1, <2>2
<1>9. InfosAreSequences'
  BY <1>2, <1>4 DEF InfosAreSequences
<1> QED BY <1>2, <1>6, <1>7, <1>8, <1>9

\* The number that is recorded is one that no entry has.
LEMMA EntryAdded ==
  ASSUME InfosAreSequences, EntriesApart, StaticsRight,
         \A y \in DOMAIN classId2fieldsInfo : \A j \in Places(y) : NumberAt(y, j) \in Int,
         NEW x, NEW name, NEW v \in Int \ {0}, Free(Magnitude(v)), Records(x, name, v)
  PROVE  EntriesApart' /\ StaticsRight'
<1>0. PICK id : id = Magnitude(v)
  OBVIOUS
<1>5. PICK n : n = NextPlace(x)
  OBVIOUS
<1>1. /\ DOMAIN classId2fieldsInfo' = DOMAIN classId2fieldsInfo \cup {x}
      /\ \A y : y # x => Places(y)' = Places(y)
      /\ \A y : \A j \in Places(y) : NumberAt(y, j)' = NumberAt(y, j)
  BY <1>5, RecordsEntry
<1>2. n \notin Places(x) /\ Places(x)' = Places(x) \cup {n} /\ NumberAt(x, n)' = v
  BY <1>5, RecordsEntry
<1>3. v \in Int /\ v # 0 /\ Magnitude(v) = id /\ id \in Nat /\ (v < 0 => id = -v)
  BY <1>0 DEF Magnitude
<1>4. \A y \in DOMAIN classId2fieldsInfo' : \A j \in Places(y)' :
        \/ y = x /\ j = n /\ NumberAt(y, j)' = v
        \/ /\ y \in DOMAIN classId2fieldsInfo /\ j \in Places(y)
           /\ NumberAt(y, j)' = NumberAt(y, j) /\ NumberAt(y, j) \in Int
           /\ Magnitude(NumberAt(y, j)) # id
  <2>1. \A y, j : j \in Places(y) => y \in DOMAIN classId2fieldsInfo
    BY DEF Places
  <2> QED BY <1>0, <1>1, <1>2, <2>1 DEF Free
<1>9. EntriesApart'
  <2> SUFFICES ASSUME NEW y \in DOMAIN classId2fieldsInfo', NEW z \in DOMAIN classId2fieldsInfo',
                      NEW i \in Places(y)', NEW j \in Places(z)',
                      Magnitude(NumberAt(y, i)') = Magnitude(NumberAt(z, j)')
               PROVE  y = z /\ i = j
    BY DEF EntriesApart, Magnitude
  <2> QED BY <1>3, <1>4 DEF EntriesApart
<1>6. /\ staticSlots' \in Nat /\ staticSlots' >= staticSlots
      /\ v < 0 => staticSlots' = staticSlots + 1 /\ id \in DOMAIN fieldId2slot'
                     /\ fieldId2slot'[id] = staticSlots
      /\ \A m \in DOMAIN fieldId2slot : m # id => m \in DOMAIN fieldId2slot' /\ fieldId2slot'[m] = fieldId2slot[m]
  BY <1>3 DEF Records, StaticsRight, Put
<1>7. ASSUME NEW y \in DOMAIN classId2fieldsInfo', NEW j \in Places(y)', NumberAt(y, j)' < 0
      PROVE  /\ -NumberAt(y, j)' \in DOMAIN fieldId2slot' /\ fieldId2slot'[-NumberAt(y, j)'] \in Nat
             /\ fieldId2slot'[-NumberAt(y, j)'] < staticSlots'
             /\ \/ y = x /\ j = n /\ NumberAt(y, j)' = v /\ fieldId2slot'[-NumberAt(y, j)'] = staticSlots
                \/ /\ y \in DOMAIN classId2fieldsInfo /\ j \in Places(y)
                   /\ NumberAt(y, j)' = NumberAt(y, j) /\ fieldId2slot'[-NumberAt(y, j)'] < staticSlots
                   /\ fieldId2slot'[-NumberAt(y, j)'] = fieldId2slot[-NumberAt(y, j)]
  <2>1. CASE y = x /\ j = n /\ NumberAt(y, j)' = v
    <3>1. v < 0 /\ -NumberAt(y, j)' = id
      BY <1>0, <1>3, <1>7, <2>1
    <3> QED BY <1>6, <2>1, <3>1 DEF StaticsRight
  <2>2. CASE /\ y \in DOMAIN classId2fieldsInfo /\ j \in Places(y)
             /\ NumberAt(y, j)' = NumberAt(y, j) /\ NumberAt(y, j) \in Int
             /\ Magnitude(NumberAt(y, j)) # id
    <3>1. -NumberAt(y, j) # id
      BY <1>7, <2>2 DEF Magnitude
    <3>2. -NumberAt(y, j) \in DOMAIN fieldId2slot /\ fieldId2slot[-NumberAt(y, j)] \in Nat
          /\ fieldId2slot[-NumberAt(y, j)] < staticSlots
      BY <1>7, <2>2 DEF StaticsRight
    <3> QED BY <1>6, <2>2, <3>1, <3>2 DEF StaticsRight
  <2> QED BY <1>4, <2>1, <2>2
<1>8. StaticsRight'
  <2>1. ASSUME NEW y \in DOMAIN classId2fieldsInfo', NEW z \in DOMAIN classId2fieldsInfo',
               NEW i \in Places(y)', NEW j \in Places(z)', NumberAt(y, i)' < 0, NumberAt(z, j)' < 0,
               fieldId2slot'[-NumberAt(y, i)'] = fieldId2slot'[-NumberAt(z, j)']
        PROVE  NumberAt(y, i)' = NumberAt(z, j)'
    <3>1. staticSlots \in Nat
      BY DEF StaticsRight
    <3> QED BY <1>7, <2>1, <3>1 DEF StaticsRight
  <2> QED BY <1>6, <1>7, <2>1 DEF StaticsRight
<1> QED BY <1>8, <1>9

-----------------------------------------------------------------------------
(* Slots: steps of the rewriter.                                           *)

TablesGrow ==
  /\ \A k \in DOMAIN fieldIdTables : /\ k \in DOMAIN fieldIdTables'
                                     /\ k[1] \notin Untold => fieldIdTables'[k] = fieldIdTables[k]
  /\ \A c \in DOMAIN classIds \ Untold : c \in DOMAIN classIds' /\ classIds'[c] = classIds[c]

LEMMA Growing ==
  ASSUME TablesRight, TablesGrow, UNCHANGED classId2fieldsInfo
  PROVE  /\ \A k : Numbered(k) => /\ Numbered(k)' /\ classIds'[k[1]] = classIds[k[1]]
                                  /\ fieldIdTables'[k] = fieldIdTables[k] /\ Signed(k)' = Signed(k)
         /\ \A k : Recorded(k) => Recorded(k)'
         /\ \A x, j, k : EntryOf(x, j, k) => EntryOf(x, j, k)'
         /\ \A r, k : Report(r, k) => Report(r, k)'
<1>1. \A k : Numbered(k) => /\ Numbered(k)' /\ classIds'[k[1]] = classIds[k[1]]
                            /\ fieldIdTables'[k] = fieldIdTables[k] /\ Signed(k)' = Signed(k)
  BY DEF TablesRight, TablesGrow, Numbered, Signed, ToldKeys
<1>2. \A x, j : Places(x)' = Places(x) /\ NameAt(x, j)' = NameAt(x, j) /\ NumberAt(x, j)' = NumberAt(x, j)
  BY DEF Places, NameAt, NumberAt
<1>3. \A x, j, k : EntryOf(x, j, k) => EntryOf(x, j, k)'
  BY <1>1, <1>2 DEF EntryOf
<1>4. \A k : Recorded(k) => Recorded(k)'
  BY <1>1, <1>2, <1>3 DEF Recorded, EntryOf
<1>5. \A r, k : Report(r, k) => Report(r, k)'
  BY <1>1 DEF Report
<1> QED BY <1>1, <1>3, <1>4, <1>5

\* The rewriter adds to its tables, and reports what it adds.
LEMMA RewriterAdds ==
  ASSUME NumbersRight, TInv, TablesGrow, WorkRight', TablesRight', CodeRight', NEW r,
         UNCHANGED <<className2classId, classId2fieldsInfo, fieldId2slot, staticSlots,
                     nextSyntheticId, loaded, stack>>,
         replies' = replies \/ (replies' = Append(replies, r) /\ ReplyRight(r)'),
         r[1] = "FieldInfo" =>
           Free(r[2][3]) /\ \A i \in 1 .. Len(replies) : Pending(i) => replies[i][2][3] # r[2][3],
         \A k : Numbered(k)' =>
           Numbered(k) \/ (/\ replies' = Append(replies, r) /\ r[1] = "FieldInfo"
                           /\ r[2][3] = fieldIdTables'[k] /\ fieldIdTables'[k] > lastFieldId),
         lastFieldId' \in Nat, lastFieldId' >= lastFieldId,
         \A u \in code' : u \in code \/ u[1] \notin loaded
  PROVE  NumbersRight'
<1>1. /\ \A k : Numbered(k) => /\ Numbered(k)' /\ classIds'[k[1]] = classIds[k[1]]
                               /\ fieldIdTables'[k] = fieldIdTables[k] /\ Signed(k)' = Signed(k)
      /\ \A k : Recorded(k) => Recorded(k)'
      /\ \A x, j, k : EntryOf(x, j, k) => EntryOf(x, j, k)'
      /\ \A q, k : Report(q, k) => Report(q, k)'
  BY Growing DEF NumbersRight
<1>2. \A x, j : Places(x)' = Places(x) /\ NameAt(x, j)' = NameAt(x, j) /\ NumberAt(x, j)' = NumberAt(x, j)
  BY DEF Places, NameAt, NumberAt
<1>3. \A m : Free(m)' <=> Free(m)
  BY <1>2 DEF Free
<1>4. \A q : ReplyRight(q) => ReplyRight(q)'
  <2>1. lastFieldId \in Nat
    BY DEF TInv, Typed, RewriterOK
  <2>2. ASSUME NEW q, ReplyRight(q), q[1] = "FieldInfo"
        PROVE  /\ q[2][3] \in 1 .. lastFieldId' /\ q[2][4] \in BOOLEAN
               /\ \A k \in ToldKeys : Numbered(k)' /\ fieldIdTables'[k] = q[2][3] => Report(q[2], k)'
    <3>1. q[2][3] \in 1 .. lastFieldId /\ q[2][4] \in BOOLEAN
      BY <2>2 DEF ReplyRight
    <3>2. ASSUME NEW k \in ToldKeys, Numbered(k)', fieldIdTables'[k] = q[2][3]
          PROVE  Report(q[2], k)'
      <4>1. Numbered(k)
        BY <2>1, <3>1, <3>2
      <4> QED BY <1>1, <2>2, <3>2, <4>1 DEF ReplyRight
    <3> QED BY <2>1, <3>1, <3>2
  <2>3. \A q : ReplyRight(q) => /\ q[1] = "ClassInfo" => q[2][2] \in DOMAIN classIds' \ Untold
                                                           /\ q[2][1] = classIds'[q[2][2]]
                                /\ q[1] = "InstClassFile" => HasKeys(q[2])'
    BY <1>1 DEF ReplyRight, TablesGrow, HasKeys
  <2> QED BY <2>2, <2>3 DEF ReplyRight
<1>5. /\ Len(replies) \in Nat
      /\ \A i \in 1 .. Len(replies) : replies'[i] = replies[i]
      /\ \/ replies' = replies
         \/ /\ Len(replies') = Len(replies) + 1 /\ replies'[Len(replies) + 1] = r
            /\ replies' = Append(replies, r) /\ ReplyRight(r)'
  BY Appending DEF TInv, Typed, PipesOK
<1>6. \A i \in 1 .. Len(replies') :
        \/ i \in 1 .. Len(replies) /\ replies'[i] = replies[i]
        \/ i = Len(replies) + 1 /\ replies'[i] = r /\ ReplyRight(r)'
  BY <1>5
<1>7. RepliesRight'
  <2>1. \A i \in 1 .. Len(replies') : ReplyRight(replies[i])'
    BY <1>4, <1>6 DEF NumbersRight, RepliesRight
  <2>2. \A i, j \in 1 .. Len(replies') :
          Pending(i)' /\ Pending(j)' /\ replies'[i][2][3] = replies'[j][2][3] => i = j
    BY <1>6 DEF NumbersRight, RepliesRight, Pending
  <2>3. \A i \in 1 .. Len(replies') : Pending(i)' => Free(replies[i][2][3])'
    BY <1>3, <1>6 DEF NumbersRight, RepliesRight, Pending
  <2> QED BY <2>1, <2>2, <2>3 DEF RepliesRight
<1>8. InfosRight'
  <2>1. \A k : Covered(k) /\ Numbered(k) => Covered(k)'
    <3>1. \A i \in 1 .. Len(replies) : i \in 1 .. Len(replies') /\ replies'[i] = replies[i]
      BY <1>5
    <3> QED BY <1>1, <3>1 DEF Covered, Pending
  <2>2. ASSUME NEW k \in ToldKeys, Numbered(k)'
        PROVE  Covered(k)'
    <3>1. CASE Numbered(k)
      BY <2>1, <3>1 DEF NumbersRight, InfosRight
    <3>2. CASE replies' = Append(replies, r) /\ r[1] = "FieldInfo" /\ r[2][3] = fieldIdTables'[k]
      <4>1. Len(replies) + 1 \in 1 .. Len(replies') /\ replies'[Len(replies) + 1] = r
        BY <3>2, Appending DEF TInv, Typed, PipesOK
      <4> QED BY <3>2, <4>1 DEF Covered, Pending
    <3> QED BY <2>2, <3>1, <3>2
  <2>3. \A x, j : EntryRight(x, j) => EntryRight(x, j)'
    <3>1. lastFieldId \in Nat
      BY DEF TInv, Typed, RewriterOK
    <3> QED BY <1>1, <1>2, <3>1 DEF EntryRight, Magnitude
  <2>4. EntriesApart' /\ InfosAreSequences'
    BY <1>2 DEF NumbersRight, InfosRight, EntriesApart, InfosAreSequences
  <2> QED BY <1>2, <2>2, <2>3, <2>4 DEF NumbersRight, InfosRight
<1>9. StaticsRight'
  BY <1>2 DEF NumbersRight, StaticsRight
<1>10. NamesRight'
  BY DEF NumbersRight, NamesRight, TablesGrow
<1>11. LoadedRight'
  BY <1>1 DEF NumbersRight, LoadedRight, Unloaded
<1> QED BY <1>7, <1>8, <1>9, <1>10, <1>11 DEF NumbersRight

LEMMA getClassIdGrows ==
  ASSUME NEW ids, NEW last \in Nat, NEW c \in Classes,
         \A d \in DOMAIN ids \ Untold : ids[d] \in Nat /\ ids[d] <= last
  PROVE  LET g == getClassId(ids, last, c)[1]
         IN  /\ c \in DOMAIN g /\ \A d \in DOMAIN ids : d \in DOMAIN g /\ g[d] = ids[d]
             /\ (\A d, e \in DOMAIN ids \ Untold : ids[d] = ids[e] => d = e)
                  => \A d, e \in DOMAIN g \ Untold : g[d] = g[e] => d = e
<1>1. CASE c \in DOMAIN ids
  BY <1>1 DEF getClassId
<1>2. CASE c \notin DOMAIN ids
  <2> DEFINE g == getClassId(ids, last, c)[1]
  <2>1. DOMAIN g = DOMAIN ids \cup {c} /\ g[c] = last + 1 /\ \A d \in DOMAIN ids : g[d] = ids[d]
    BY <1>2 DEF getClassId, Put
  <2> HIDE DEF g
  <2>2. ASSUME \A d, e \in DOMAIN ids \ Untold : ids[d] = ids[e] => d = e,
               NEW d \in DOMAIN g \ Untold, NEW e \in DOMAIN g \ Untold, g[d] = g[e]
        PROVE  d = e
    <3>1. \A x \in DOMAIN ids \ Untold : g[x] # last + 1
      BY <2>1
    <3> QED BY <2>1, <2>2, <3>1
  <2> QED BY <2>1, <2>2 DEF g
<1> QED BY <1>1, <1>2

\* The class that the rewriter is at is not loaded.
LEMMA AtWorkNotLoaded ==
  ASSUME IInv, LoadedRight, ~Idle
  PROVE  work[1] \notin loaded
<1>1. PICK t \in Threads : lock = t
  BY DEF IInv
<1>2. Holding(stack[t]) /\ Conversation(Top(stack[t]))
  BY <1>1 DEF IInv
<1>3. AtWork(Top(stack[t]))
  BY <1>2 DEF Conversation, Asked, Answered
<1> QED BY <1>2, <1>3 DEF AtWork, Holding, LoadedRight, Unloaded

\* A number that the rewriter has not used yet is in no entry and in no record.
LEMMA NumbersInUse ==
  ASSUME NumbersRight, TInv, NEW m \in Nat, m > lastFieldId, m < SYNTHETIC_ID_BASE
  PROVE  Free(m) /\ \A i \in 1 .. Len(replies) : Pending(i) => replies[i][2][3] # m
<1>1. lastFieldId \in Nat /\ SYNTHETIC_ID_BASE \in Nat
  BY SlotsAssumption DEF TInv, Typed, RewriterOK
<1>2. ASSUME NEW x \in DOMAIN classId2fieldsInfo, NEW j \in Places(x)
      PROVE  Magnitude(NumberAt(x, j)) # m
  BY <1>1 DEF NumbersRight, InfosRight, EntryRight, Magnitude
<1>3. ASSUME NEW i \in 1 .. Len(replies), Pending(i)
      PROVE  replies[i][2][3] # m
  BY <1>1, <1>3 DEF NumbersRight, RepliesRight, ReplyRight, Pending
<1> QED BY <1>2, <1>3 DEF Free

LEMMA VisitNumbers ==
  ASSUME NumbersRight, TInv, Visit
  PROVE  NumbersRight' /\ TablesGrow
<1>1. PICK c : c = Head(requests)[2]
  OBVIOUS
<1>2. PICK own : own = getClassId(classIds, lastClassId, c)
  OBVIOUS
<1>3. PICK both : both = IF Super[c] = NoClass THEN own ELSE getClassId(own[1], own[2], Super[c])
  OBVIOUS
<1>4. PICK mine : mine = [i \in DOMAIN Fields[c] |-> <<c, Fields[c][i]>>]
  OBVIOUS
<1> DEFINE r == <<"ClassInfo", <<both[1][c], c>>>>
<1>5. /\ Idle /\ requests # <<>> /\ Head(requests)[1] = "OrigClassFile"
      /\ classIds' = both[1] /\ replies' = Append(replies, r) /\ work' = <<c, mine \o Accesses[c]>>
      /\ UNCHANGED <<fieldIdTables, lastFieldId, code, className2classId, classId2fieldsInfo,
                     fieldId2slot, staticSlots, nextSyntheticId, loaded, stack>>
  BY <1>1, <1>2, <1>3, <1>4 DEF Visit, recorded
<1>6. c \in Classes \ Untold
  <2>1. Head(requests) = requests[1] /\ 1 \in 1 .. Len(requests)
    BY <1>5, Tailing DEF TInv, Typed, PipesOK
  <2>2. RequestOK(Head(requests))
    BY <2>1 DEF TInv, Typed, PipesOK
  <2> QED BY <1>1, <1>5, <2>2 DEF RequestOK, SyntheticRequest
<1>7. /\ DOMAIN own[1] = DOMAIN classIds \cup {c} /\ own[2] \in Nat
      /\ \A d \in DOMAIN own[1] \ Untold : own[1][d] \in Nat /\ own[1][d] <= own[2]
      /\ \A d \in DOMAIN classIds : own[1][d] = classIds[d]
      /\ \A d, e \in DOMAIN own[1] \ Untold : own[1][d] = own[1][e] => d = e
  <2>1. \A d, e \in DOMAIN classIds \ Untold : classIds[d] = classIds[e] => d = e
    BY DEF NumbersRight, TablesRight
  <2>2. /\ lastClassId \in Nat /\ DOMAIN classIds \subseteq Classes
        /\ \A d \in DOMAIN classIds \ Untold : classIds[d] \in Nat /\ classIds[d] <= lastClassId
    BY DEF TInv, Typed, RewriterOK
  <2>3. /\ DOMAIN own[1] = DOMAIN classIds \cup {c} /\ own[2] \in Nat
        /\ \A d \in DOMAIN own[1] \ Untold : own[1][d] \in Nat /\ own[1][d] <= own[2]
    BY <1>2, <1>6, getClassIdFacts DEF TInv, Typed, RewriterOK
  <2> QED BY <1>2, <1>6, <2>1, <2>2, <2>3, getClassIdGrows
<1>8. /\ c \in DOMAIN both[1] /\ \A d \in DOMAIN classIds : d \in DOMAIN both[1] /\ both[1][d] = classIds[d]
      /\ \A d, e \in DOMAIN both[1] \ Untold : both[1][d] = both[1][e] => d = e
  <2>1. CASE Super[c] = NoClass
    BY <1>3, <1>7, <2>1
  <2>2. CASE Super[c] # NoClass
    <3>1. Super[c] \in Classes /\ both = getClassId(own[1], own[2], Super[c])
      BY <1>3, <1>6, <2>2, SlotsAssumption
    <3>2. PICK ids, last, d : ids = own[1] /\ last = own[2] /\ d = Super[c]
      OBVIOUS
    <3>3. /\ last \in Nat /\ d \in Classes /\ both = getClassId(ids, last, d)
          /\ \A e \in DOMAIN ids \ Untold : ids[e] \in Nat /\ ids[e] <= last
          /\ \A e, f \in DOMAIN ids \ Untold : ids[e] = ids[f] => e = f
      BY <1>7, <3>1, <3>2
    <3>4. /\ \A e \in DOMAIN ids : e \in DOMAIN both[1] /\ both[1][e] = ids[e]
          /\ \A e, f \in DOMAIN both[1] \ Untold : both[1][e] = both[1][f] => e = f
      <4> HIDE <3>2, <1>7
      <4> QED BY <3>3, getClassIdGrows
    <3> QED BY <1>7, <3>2, <3>4
  <2> QED BY <2>1, <2>2
<1>9. TablesGrow
  BY <1>5, <1>8 DEF TablesGrow
<1>10. TablesRight'
  BY <1>5, <1>8 DEF NumbersRight, TablesRight
<1>11. WorkRight'
  <2>1. IsSequence(mine) /\ Len(mine) = Len(Fields[c]) /\ IsSequence(Accesses[c])
        /\ \A i \in 1 .. Len(mine) : mine[i] = <<c, Fields[c][i]>>
    <3>1. Fields[c] \in Seq(Names) /\ Accesses[c] \in Seq(Classes \X Names)
      BY <1>6, NumbersAssumption
    <3>2. Len(Fields[c]) \in Nat /\ DOMAIN Fields[c] = 1 .. Len(Fields[c])
      BY <3>1
    <3>3. mine \in [1 .. Len(Fields[c]) -> {mine[i] : i \in 1 .. Len(Fields[c])}]
      BY <1>4, <3>2
    <3>4. mine \in Seq({mine[i] : i \in 1 .. Len(Fields[c])}) /\ Len(mine) = Len(Fields[c])
      <4> DEFINE M == {mine[i] : i \in 1 .. Len(Fields[c])}
      <4> HIDE DEF M
      <4>1. mine \in [1 .. Len(Fields[c]) -> M]
        BY <3>3 DEF M
      <4>2. mine \in Seq(M) /\ Len(mine) = Len(Fields[c])
        BY <3>2, <4>1
      <4> QED BY <4>2 DEF M
    <3> QED BY <1>4, <3>1, <3>2, <3>4 DEF IsSequence
  <2>2. \A i \in 1 .. Len(mine) : <<c, Fields[c][i]>> \in Classes \X Names
    <3>1. Fields[c] \in Seq(Names)
      BY <1>6, NumbersAssumption
    <3>2. DOMAIN Fields[c] = 1 .. Len(Fields[c]) /\ \A i \in 1 .. Len(Fields[c]) : Fields[c][i] \in Names
      BY <3>1
    <3> QED BY <1>6, <2>1, <3>2
  <2>3. \A i \in 1 .. Len(Accesses[c]) : Accesses[c][i] \in Classes \X Names
    <3>1. Accesses[c] \in Seq(Classes \X Names)
      BY <1>6, NumbersAssumption
    <3> QED BY <3>1
  <2>4. PICK w : w = mine \o Accesses[c]
    OBVIOUS
  <2>5. /\ Len(mine) \in Nat /\ Len(Accesses[c]) \in Nat /\ Len(w) = Len(mine) + Len(Accesses[c])
        /\ \A i \in 1 .. Len(mine) : w[i] = mine[i]
        /\ \A i \in 1 .. Len(Accesses[c]) : w[Len(mine) + i] = Accesses[c][i]
    <3>1. PICK acc : acc = Accesses[c]
      OBVIOUS
    <3>2. IsSequence(mine) /\ IsSequence(acc)
      BY <2>1, <3>1
    <3>3. /\ Len(mine) \in Nat /\ Len(acc) \in Nat /\ Len(mine \o acc) = Len(mine) + Len(acc)
          /\ \A i \in 1 .. Len(mine) : (mine \o acc)[i] = mine[i]
          /\ \A i \in 1 .. Len(acc) : (mine \o acc)[Len(mine) + i] = acc[i]
      <4> HIDE <2>1, <1>4, <2>4, <3>1
      <4> QED BY <3>2, Joining
    <3> QED BY <2>4, <3>1, <3>3
  <2>6. \A i \in 1 .. Len(w) : w[i] \in Classes \X Names
    <3>1. ASSUME NEW i \in 1 .. Len(w) PROVE w[i] \in Classes \X Names
      <4>1. CASE i \in 1 .. Len(mine)
        BY <2>1, <2>2, <2>5, <4>1
      <4>2. CASE i \notin 1 .. Len(mine)
        <5>1. i - Len(mine) \in 1 .. Len(Accesses[c]) /\ Len(mine) + (i - Len(mine)) = i
          BY <2>5, <4>2
        <5> QED BY <2>3, <2>5, <5>1
      <4> QED BY <4>1, <4>2
    <3> QED BY <3>1
  <2>7. \A n \in NamesOf(c) : \E i \in 1 .. Len(w) : w[i] = <<c, n>>
    <3>1. Fields[c] \in Seq(Names)
      BY <1>6, NumbersAssumption
    <3>2. DOMAIN Fields[c] = 1 .. Len(mine)
      BY <2>1, <3>1
    <3>3. 1 .. Len(mine) \subseteq 1 .. Len(w)
      BY <2>5
    <3> QED BY <2>1, <2>5, <3>2, <3>3 DEF NamesOf
  <2>8. work'[1] = c /\ work'[2] = w
    BY <1>5, <2>4
  <2> QED BY <1>6, <2>6, <2>7, <2>8 DEF WorkRight
<1>12. CodeRight'
  BY <1>5 DEF NumbersRight, CodeRight, Numbered
<1>13. ReplyRight(r)' /\ r[1] # "FieldInfo"
  BY <1>5, <1>6, <1>8 DEF ReplyRight
<1>14. \A k : Numbered(k)' => Numbered(k)
  BY <1>5 DEF Numbered
<1>15. lastFieldId' \in Nat /\ lastFieldId' >= lastFieldId
  BY <1>5 DEF TInv, Typed, RewriterOK
<1> HIDE DEF r
<1> QED BY <1>5, <1>15, <1>9, <1>10, <1>11, <1>12, <1>13, <1>14, RewriterAdds

LEMMA newFieldIdNumbers ==
  ASSUME NumbersRight, TInv, TInv', newFieldId
  PROVE  NumbersRight' /\ TablesGrow
<1>1. PICK key : key = Head(work[2])
  OBVIOUS
<1>2. PICK id : id = Get(fieldIdTables, key, lastFieldId + 1)
  OBVIOUS
<1>3. PICK class : class = getClassId(classIds, lastClassId, key[1])
  OBVIOUS
<1>4. PICK r : r = <<"FieldInfo", <<class[1][key[1]], key[2], id, IsStatic(key[1], key[2])>>>>
  OBVIOUS
<1> DEFINE known == key \in DOMAIN fieldIdTables
           u == <<work[1], key[1], key[2], id>>
<1>5. /\ ~Idle /\ work[2] # <<>> /\ work' = <<work[1], Tail(work[2])>>
      /\ fieldIdTables' = Put(fieldIdTables, key, id)
      /\ lastFieldId' = IF known THEN lastFieldId ELSE id
      /\ classIds' = IF known THEN classIds ELSE class[1]
      /\ replies' = IF known THEN replies ELSE Append(replies, r)
      /\ code' = code \cup {u}
      /\ UNCHANGED <<className2classId, classId2fieldsInfo, fieldId2slot, staticSlots,
                     nextSyntheticId, loaded, stack>>
  BY <1>1, <1>2, <1>3, <1>4 DEF newFieldId, recorded
<1>6. work[2] \in Seq(FieldKeys) /\ IsSequence(work[2])
  BY <1>5 DEF TInv, Typed, RewriterOK, IsSequence
<1>7. /\ Len(work[2]) \in Nat \ {0} /\ Len(Tail(work[2])) = Len(work[2]) - 1 /\ key = work[2][1]
      /\ \A i \in 1 .. Len(work[2]) - 1 : Tail(work[2])[i] = work[2][i + 1]
  BY <1>1, <1>5, <1>6, Tailing
<1>8. /\ key \in Classes \X Names /\ key = <<key[1], key[2]>>
      /\ key[1] \in Classes /\ (key[1] \notin Untold => key \in ToldKeys)
  <2>1. 1 \in 1 .. Len(work[2])
    BY <1>7
  <2>2. key \in Classes \X Names
    BY <1>5, <1>7, <2>1 DEF NumbersRight, WorkRight
  <2> QED BY <2>2 DEF ToldKeys
<1>9. lastFieldId \in Nat /\ lastFieldId' \in Nat /\ lastFieldId' < SYNTHETIC_ID_BASE
      /\ DOMAIN classIds \subseteq Classes
  <2>1. /\ lastFieldId' \in Nat /\ lastFieldId' <= Cardinality(DOMAIN fieldIdTables')
        /\ DOMAIN fieldIdTables' \subseteq FieldKeys
    BY DEF TInv, Typed, RewriterOK
  <2>2. Cardinality(DOMAIN fieldIdTables') <= Cardinality(FieldKeys)
        /\ Cardinality(DOMAIN fieldIdTables') \in Nat /\ Cardinality(FieldKeys) \in Nat
    BY <2>1, NumbersAssumption, FS_Subset, FS_CardinalityType
  <2>3. lastFieldId' < SYNTHETIC_ID_BASE
    BY <2>1, <2>2, NumbersAssumption, SlotsAssumption
  <2> QED BY <2>1, <2>3 DEF TInv, Typed, RewriterOK
<1>10. /\ DOMAIN fieldIdTables' = DOMAIN fieldIdTables \cup {key} /\ fieldIdTables'[key] = id
       /\ \A k \in DOMAIN fieldIdTables : fieldIdTables'[k] = fieldIdTables[k]
  BY <1>2, <1>5 DEF Put, Get
<1>11. ~known => id = lastFieldId + 1 /\ lastFieldId' = id
  BY <1>2, <1>5 DEF Get
<1>12. /\ key[1] \in DOMAIN class[1]
       /\ \A d \in DOMAIN classIds : d \in DOMAIN class[1] /\ class[1][d] = classIds[d]
       /\ \A d, e \in DOMAIN class[1] \ Untold : class[1][d] = class[1][e] => d = e
  <2>1. \A d, e \in DOMAIN classIds \ Untold : classIds[d] = classIds[e] => d = e
    BY DEF NumbersRight, TablesRight
  <2>2. /\ lastClassId \in Nat
        /\ \A d \in DOMAIN classIds \ Untold : classIds[d] \in Nat /\ classIds[d] <= lastClassId
    BY DEF TInv, Typed, RewriterOK
  <2> QED BY <1>3, <1>8, <2>1, <2>2, getClassIdGrows
<1>13. TablesGrow
  <2>1. \A c \in DOMAIN classIds : c \in DOMAIN classIds' /\ classIds'[c] = classIds[c]
    BY <1>5, <1>12
  <2> QED BY <1>10, <2>1 DEF TablesGrow
<1>14. key[1] \notin Untold => key[1] \in DOMAIN classIds'
  <2>1. CASE known
    BY <1>5, <1>8, <2>1 DEF NumbersRight, TablesRight
  <2>2. CASE ~known
    BY <1>5, <1>12, <2>2
  <2> QED BY <2>1, <2>2
<1>15. TablesRight'
  <2>1. ASSUME NEW k \in DOMAIN fieldIdTables', k[1] \notin Untold
        PROVE  /\ k \in ToldKeys /\ fieldIdTables'[k] \in 1 .. lastFieldId' /\ k[1] \in DOMAIN classIds'
               /\ k \notin DOMAIN fieldIdTables => k = key /\ fieldIdTables'[k] = lastFieldId + 1
    <3>1. CASE k \in DOMAIN fieldIdTables
      <4>1. k \in ToldKeys /\ fieldIdTables[k] \in 1 .. lastFieldId /\ k[1] \in DOMAIN classIds
        BY <2>1, <3>1 DEF NumbersRight, TablesRight
      <4>2. lastFieldId <= lastFieldId'
        BY <1>5, <1>9, <1>11
      <4>3. k[1] \in DOMAIN classIds'
        BY <1>13, <2>1, <4>1 DEF TablesGrow
      <4> QED BY <1>9, <1>10, <3>1, <4>1, <4>2, <4>3
    <3>2. CASE k \notin DOMAIN fieldIdTables
      <4>1. k = key /\ fieldIdTables'[k] = lastFieldId + 1 /\ lastFieldId' = lastFieldId + 1
        BY <1>10, <1>11, <2>1, <3>2
      <4> QED BY <1>8, <1>9, <1>14, <2>1, <4>1
    <3> QED BY <3>1, <3>2
  <2>2. ASSUME NEW k \in DOMAIN fieldIdTables', NEW l \in DOMAIN fieldIdTables',
               k[1] \notin Untold, l[1] \notin Untold, fieldIdTables'[k] = fieldIdTables'[l]
        PROVE  k = l
    <3>1. \A m \in DOMAIN fieldIdTables : m[1] \notin Untold =>
            fieldIdTables'[m] = fieldIdTables[m] /\ fieldIdTables'[m] # lastFieldId + 1
      BY <1>9, <1>10 DEF NumbersRight, TablesRight
    <3>2. k \in DOMAIN fieldIdTables /\ l \in DOMAIN fieldIdTables => k = l
      BY <2>2, <3>1 DEF NumbersRight, TablesRight
    <3> QED BY <2>1, <2>2, <3>1, <3>2
  <2>3. \A c, d \in DOMAIN classIds' \ Untold : classIds'[c] = classIds'[d] => c = d
    BY <1>5, <1>12 DEF NumbersRight, TablesRight
  <2> QED BY <2>1, <2>2, <2>3 DEF TablesRight
<1>16. WorkRight'
  <2>1. \A i \in 1 .. Len(work[2]) - 1 : i + 1 \in 1 .. Len(work[2])
    BY <1>7
  <2>2. \A i \in 1 .. Len(Tail(work[2])) : Tail(work[2])[i] \in Classes \X Names
    BY <1>5, <1>7, <2>1 DEF NumbersRight, WorkRight
  <2>3. ASSUME NEW n \in NamesOf(work[1])
        PROVE  \/ <<work[1], n>> \in DOMAIN fieldIdTables'
               \/ \E i \in 1 .. Len(Tail(work[2])) : Tail(work[2])[i] = <<work[1], n>>
    <3>1. CASE <<work[1], n>> \in DOMAIN fieldIdTables
      BY <1>10, <3>1
    <3>2. ASSUME NEW i \in 1 .. Len(work[2]), work[2][i] = <<work[1], n>>
          PROVE  \/ <<work[1], n>> \in DOMAIN fieldIdTables'
                 \/ \E j \in 1 .. Len(Tail(work[2])) : Tail(work[2])[j] = <<work[1], n>>
      <4>1. CASE i = 1
        BY <1>7, <1>10, <3>2, <4>1
      <4>2. CASE i # 1
        <5>1. i - 1 \in 1 .. Len(work[2]) - 1 /\ i = (i - 1) + 1
          BY <1>7, <4>2
        <5>2. Tail(work[2])[i - 1] = <<work[1], n>>
          BY <1>7, <3>2, <5>1
        <5> QED BY <1>7, <5>1, <5>2
      <4> QED BY <4>1, <4>2
    <3> QED BY <1>5, <3>1, <3>2 DEF NumbersRight, WorkRight
  <2>4. work'[1] = work[1] /\ work'[2] = Tail(work[2]) /\ work[1] \in Classes \ Untold
    BY <1>5 DEF NumbersRight, WorkRight
  <2> QED BY <2>2, <2>3, <2>4 DEF WorkRight
<1>17. \A k : Numbered(k)' => Numbered(k) \/ (~known /\ k = key)
  BY <1>10 DEF Numbered
<1>18. (key[1] \notin Untold => Numbered(key)') /\ \A k : Numbered(k) => Numbered(k)' /\ fieldIdTables'[k] = fieldIdTables[k]
  BY <1>8, <1>10 DEF Numbered
<1>19. CodeRight'
  <2>1. u[2] = key[1] /\ u[3] = key[2] /\ u[4] = id
    OBVIOUS
  <2> HIDE DEF u
  <2> QED BY <1>5, <1>8, <1>10, <1>18, <2>1 DEF NumbersRight, CodeRight
<1>20. work[1] \notin loaded
  BY <1>5, AtWorkNotLoaded DEF TInv, NumbersRight
<1>21. \A w \in code' : w \in code \/ w[1] \notin loaded
  <2>1. u[1] = work[1]
    OBVIOUS
  <2> HIDE DEF u
  <2> QED BY <1>5, <1>20, <2>1
<1>22. ~known => /\ Free(id) /\ ReplyRight(r)'
                 /\ \A i \in 1 .. Len(replies) : Pending(i) => replies[i][2][3] # id
  <2> SUFFICES ASSUME ~known PROVE /\ Free(id) /\ ReplyRight(r)'
                 /\ \A i \in 1 .. Len(replies) : Pending(i) => replies[i][2][3] # id
    OBVIOUS
  <2>1. id \in Nat /\ id > lastFieldId /\ id < SYNTHETIC_ID_BASE
    BY <1>9, <1>11
  <2>2. Free(id) /\ \A i \in 1 .. Len(replies) : Pending(i) => replies[i][2][3] # id
    BY <2>1, NumbersInUse
  <2>3. \A k \in ToldKeys : Numbered(k)' /\ fieldIdTables'[k] = id => k = key
    <3>1. \A k \in ToldKeys : k \in DOMAIN fieldIdTables => fieldIdTables[k] <= lastFieldId
      BY <1>9 DEF NumbersRight, TablesRight, ToldKeys
    <3> QED BY <1>9, <1>10, <2>1, <3>1 DEF Numbered
  <2>4. Numbered(key)' => Report(r[2], key)'
    <3>1. classIds' = class[1]
      BY <1>5
    <3>2. r[2][1] = class[1][key[1]] /\ r[2][2] = key[2] /\ r[2][3] = id /\ r[2][4] = IsStatic(key[1], key[2])
      BY <1>4
    <3> QED BY <1>10, <3>1, <3>2 DEF Report
  <2>5. r[1] = "FieldInfo" /\ r[2][3] = id /\ r[2][4] \in BOOLEAN
    BY <1>4 DEF IsStatic
  <2>6. id \in 1 .. lastFieldId'
    BY <1>9, <1>11
  <2> QED BY <2>2, <2>3, <2>4, <2>5, <2>6 DEF ReplyRight
<1> HIDE DEF u
<1>25. lastFieldId' >= lastFieldId
  BY <1>5, <1>9, <1>11
<1>23. CASE ~known
  <2>1. r[1] = "FieldInfo" /\ r[2][3] = id /\ replies' = Append(replies, r) /\ id > lastFieldId
    BY <1>4, <1>5, <1>9, <1>11, <1>23
  <2> QED BY <1>5, <1>9, <1>25, <1>10, <1>13, <1>15, <1>16, <1>17, <1>19, <1>21, <1>22, <1>23, <2>1, RewriterAdds
<1>24. CASE known
  <2>1. PICK q : q = <<"Ack", NoClass>>
    OBVIOUS
  <2>2. q[1] # "FieldInfo" /\ replies' = replies
    BY <1>5, <1>24, <2>1
  <2> QED BY <1>5, <1>9, <1>25, <1>13, <1>15, <1>16, <1>17, <1>19, <1>21, <1>24, <2>2, RewriterAdds
<1> QED BY <1>23, <1>24

LEMMA WriteClassNumbers ==
  ASSUME NumbersRight, TInv, WriteClass
  PROVE  NumbersRight' /\ TablesGrow
<1>0. PICK r : r = <<"InstClassFile", work[1]>>
  OBVIOUS
<1>1. /\ ~Idle /\ work[2] = <<>> /\ work' = <<NoClass, <<>>>> /\ replies' = Append(replies, r)
      /\ UNCHANGED <<classIds, fieldIdTables, lastFieldId, code, className2classId,
                     classId2fieldsInfo, fieldId2slot, staticSlots, nextSyntheticId, loaded, stack>>
  BY <1>0 DEF WriteClass, recorded
<1>2. TablesGrow /\ TablesRight' /\ CodeRight' /\ \A k : Numbered(k)' => Numbered(k)
  BY <1>1 DEF NumbersRight, TablesGrow, TablesRight, CodeRight, Numbered
<1>3. WorkRight'
  BY <1>1 DEF WorkRight, Idle
<1>4. HasKeys(work[1])
  <2>1. 1 .. Len(work[2]) = {}
    BY <1>1
  <2> QED BY <1>1, <2>1 DEF NumbersRight, WorkRight, HasKeys
<1>5. ReplyRight(r)' /\ r[1] # "FieldInfo"
  <2>1. r[1] = "InstClassFile" /\ r[2] = work[1]
    BY <1>0
  <2> QED BY <1>1, <1>4, <2>1 DEF ReplyRight, HasKeys
<1>6. lastFieldId' \in Nat /\ lastFieldId' >= lastFieldId
  BY <1>1 DEF TInv, Typed, RewriterOK
<1> QED BY <1>1, <1>2, <1>3, <1>5, <1>6, RewriterAdds

LEMMA SyntheticNumbers ==
  ASSUME NumbersRight, TInv, Synthetic
  PROVE  NumbersRight' /\ TablesGrow
<1>1. PICK q : q = Head(requests)
  OBVIOUS
<1> DEFINE r == <<"Ack", NoClass>>
<1>2. /\ Idle /\ requests # <<>> /\ q[1] # "OrigClassFile"
      /\ classIds' = IF q[1] = "SynthClassInfo" THEN Put(classIds, q[2][2], q[2][1]) ELSE classIds
      /\ fieldIdTables' = IF q[1] = "SynthFieldInfo" THEN Put(fieldIdTables, q[2][2], q[2][1])
                          ELSE fieldIdTables
      /\ replies' = Append(replies, r)
      /\ UNCHANGED <<lastFieldId, work, code, className2classId, classId2fieldsInfo,
                     fieldId2slot, staticSlots, nextSyntheticId, loaded, stack>>
  BY <1>1 DEF Synthetic, recorded
<1>3. SyntheticRequest(q)
  <2>1. Head(requests) = requests[1] /\ 1 \in 1 .. Len(requests)
    BY <1>2, Tailing DEF TInv, Typed, PipesOK
  <2>2. RequestOK(q)
    BY <1>1, <2>1 DEF TInv, Typed, PipesOK
  <2> QED BY <1>2, <2>2 DEF RequestOK
<1>4. /\ \A c \in Classes \ Untold : c \in DOMAIN classIds' <=> c \in DOMAIN classIds
      /\ \A c \in DOMAIN classIds : c \notin Untold => c \in DOMAIN classIds' /\ classIds'[c] = classIds[c]
      /\ \A c \in DOMAIN classIds' : c \notin Untold => c \in DOMAIN classIds
  BY <1>2, <1>3 DEF Put, SyntheticRequest
<1>5. /\ \A k \in DOMAIN fieldIdTables : k \in DOMAIN fieldIdTables'
      /\ \A k \in DOMAIN fieldIdTables' : k[1] \notin Untold =>
           k \in DOMAIN fieldIdTables /\ fieldIdTables'[k] = fieldIdTables[k]
  BY <1>2, <1>3 DEF Put, SyntheticRequest
<1>6. TablesGrow
  BY <1>4, <1>5 DEF TablesGrow
<1>7. TablesRight'
  <2>1. \A k \in DOMAIN fieldIdTables' : k[1] \notin Untold =>
          k \in ToldKeys /\ fieldIdTables'[k] \in 1 .. lastFieldId' /\ k[1] \in DOMAIN classIds'
    BY <1>2, <1>4, <1>5 DEF NumbersRight, TablesRight
  <2>2. \A k, l \in DOMAIN fieldIdTables' :
          k[1] \notin Untold /\ l[1] \notin Untold /\ fieldIdTables'[k] = fieldIdTables'[l] => k = l
    BY <1>5 DEF NumbersRight, TablesRight
  <2>3. \A c, d \in DOMAIN classIds' \ Untold : classIds'[c] = classIds'[d] => c = d
    BY <1>4 DEF NumbersRight, TablesRight
  <2> QED BY <2>1, <2>2, <2>3 DEF TablesRight
<1>8. \A k : Numbered(k)' <=> Numbered(k)
  BY <1>5 DEF Numbered, ToldKeys
<1>9. CodeRight'
  <2>1. \A k : Numbered(k) => fieldIdTables'[k] = fieldIdTables[k]
    BY <1>5 DEF Numbered, ToldKeys
  <2> QED BY <1>2, <1>8, <2>1 DEF NumbersRight, CodeRight
<1>10. WorkRight'
  BY <1>2 DEF WorkRight, Idle
<1>11. ReplyRight(r)' /\ r[1] # "FieldInfo"
  BY DEF ReplyRight
<1>12. lastFieldId' \in Nat /\ lastFieldId' >= lastFieldId
  BY <1>2 DEF TInv, Typed, RewriterOK
<1> HIDE DEF r
<1> QED BY <1>2, <1>12, <1>6, <1>7, <1>8, <1>9, <1>10, <1>11, RewriterAdds

-----------------------------------------------------------------------------
(* Slots: steps of the agent that leave the numbers as they are.           *)

\* Who holds the lock stays what it was.
LEMMA HolderStays ==
  ASSUME IInv, IInv', Unloaded, UNCHANGED loaded, NEW t \in Threads,
         lock' = NoClass \/ (lock' = lock /\ ~Holding(stack[t])),
         \A u \in Threads \ {t} : stack'[u] = stack[u]
  PROVE  Unloaded'
<1> SUFFICES ASSUME NEW u \in Threads, stack'[u] # <<>>, Top(stack'[u]).op = "instrument"
             PROVE  Top(stack'[u]).class \notin loaded
  BY DEF Unloaded, Top
<1>1. Holding(stack'[u])
  BY DEF Holding
<1>2. lock' = u
  BY <1>1 DEF IInv, Holding, Top
<1>3. lock = u /\ u # t /\ stack'[u] = stack[u]
  BY <1>2, SlotsAssumption DEF IInv
<1> QED BY <1>3 DEF Unloaded

LEMMA NumbersKeep ==
  ASSUME NumbersRight, Unloaded', StaticsRight',
         UNCHANGED <<work, fieldIdTables, lastFieldId, classIds, code, replies, classId2fieldsInfo,
                     className2classId, nextSyntheticId, loaded>>
  PROVE  NumbersRight'
<1>1. \A x, j : Places(x)' = Places(x) /\ NameAt(x, j)' = NameAt(x, j) /\ NumberAt(x, j)' = NumberAt(x, j)
  BY DEF Places, NameAt, NumberAt
<1>2. \A k : /\ Numbered(k)' <=> Numbered(k)
             /\ Recorded(k)' <=> Recorded(k)
             /\ Covered(k)' <=> Covered(k)
  BY DEF Numbered, Recorded, Covered, EntryOf, Signed, Places, NameAt, NumberAt, Pending
<1>3. WorkRight' /\ TablesRight' /\ CodeRight'
  BY DEF NumbersRight, WorkRight, TablesRight, CodeRight, Idle, Numbered
<1>4. \A q, k : Report(q, k)' <=> Report(q, k)
  BY DEF Report, Numbered
<1>5. \A q : ReplyRight(q) => ReplyRight(q)'
  BY <1>2, <1>4 DEF ReplyRight, HasKeys
<1>6. \A m : Free(m) => Free(m)'
  BY <1>1 DEF Free
<1>7. RepliesRight'
  BY <1>5, <1>6 DEF NumbersRight, RepliesRight, Pending
<1>8. \A x, j : EntryRight(x, j) => EntryRight(x, j)'
  BY DEF EntryRight, EntryOf, Numbered, Signed, NameAt, NumberAt
<1>9. EntriesApart' /\ InfosAreSequences'
  BY <1>1 DEF NumbersRight, InfosRight, EntriesApart, InfosAreSequences
<1>10. InfosRight'
  BY <1>1, <1>2, <1>8, <1>9 DEF NumbersRight, InfosRight
<1>11. NamesRight'
  BY DEF NumbersRight, NamesRight
<1>12. LoadedRight'
  BY <1>2 DEF NumbersRight, LoadedRight
<1> QED BY <1>3, <1>7, <1>10, <1>11, <1>12 DEF NumbersRight

LEMMA StaticsStay ==
  ASSUME StaticsRight, UNCHANGED <<classId2fieldsInfo, fieldId2slot, staticSlots>>
  PROVE  StaticsRight'
BY DEF StaticsRight, Places, NumberAt

LEMMA RecursionNumbers ==
  ASSUME NumbersRight, TInv, IInv', NEW t \in Threads,
         LookupTag(t) \/ LookupId(t) \/ WithoutId(t)
  PROVE  NumbersRight'
<1>1. /\ stack[t] # <<>> /\ TopFrame(t).op \in {"slots", "without"}
      /\ UNCHANGED <<lock, replies, rewriter, recorded, fieldId2slot, staticSlots, nextSyntheticId, loaded>>
  BY DEF LookupTag, LookupId, WithoutId, Busy, Tables, pipes
<1>2. ~Holding(stack[t])
  BY <1>1 DEF Holding, Top, TopFrame
<1>3. \A u \in Threads \ {t} : stack'[u] = stack[u]
  <2>1. \E s : Goes(t, s)
    BY DEF LookupTag, LookupId, WithoutId, Return, Continue
  <2> QED BY <2>1 DEF Goes, TInv, IInv
<1>4. Unloaded'
  BY <1>1, <1>2, <1>3, HolderStays DEF TInv, NumbersRight, LoadedRight
<1>5. StaticsRight'
  BY <1>1, StaticsStay DEF NumbersRight, recorded
<1> QED BY <1>1, <1>4, <1>5, NumbersKeep DEF rewriter, recorded

LEMMA TagObjectNumbers ==
  ASSUME NumbersRight, TInv, IInv', NEW t \in Threads, NEW c, TagObject(t, c)
  PROVE  NumbersRight'
<1>1. /\ stack[t] = <<>>
      /\ UNCHANGED <<lock, replies, rewriter, recorded, fieldId2slot, staticSlots, nextSyntheticId, loaded>>
  BY DEF TagObject, pipes
<1>2. ~Holding(stack[t])
  BY <1>1 DEF Holding
<1>3. \A u \in Threads \ {t} : stack'[u] = stack[u]
  BY DEF TagObject, Goes, TInv, IInv
<1>4. Unloaded'
  BY <1>1, <1>2, <1>3, HolderStays DEF TInv, NumbersRight, LoadedRight
<1>5. StaticsRight'
  BY <1>1, StaticsStay DEF NumbersRight, recorded
<1> QED BY <1>1, <1>4, <1>5, NumbersKeep DEF rewriter, recorded

LEMMA instrumentClassNumbers ==
  ASSUME NumbersRight, TInv, NEW t \in Threads, NEW c, instrumentClass(t, c)
  PROVE  NumbersRight'
<1>1. /\ c \notin loaded
      /\ UNCHANGED <<replies, rewriter, recorded, fieldId2slot, staticSlots, nextSyntheticId, loaded>>
      /\ Goes(t, <<Frame("instrument", c)>>)
  BY DEF instrumentClass, pipes
<1>2. stack'[t] = <<Frame("instrument", c)>> /\ \A u \in Threads \ {t} : stack'[u] = stack[u]
  BY <1>1 DEF Goes, TInv, IInv
<1>3. Top(stack'[t]).class = c
  BY <1>2, FramesMade DEF Top
<1>4. Unloaded'
  BY <1>1, <1>2, <1>3 DEF Unloaded, NumbersRight, LoadedRight, Top
<1>5. StaticsRight'
  BY <1>1, StaticsStay DEF NumbersRight, recorded
<1> QED BY <1>1, <1>4, <1>5, NumbersKeep DEF rewriter, recorded

LEMMA SendInfoNumbers ==
  ASSUME NumbersRight, TInv, TInv', NEW t \in Threads, SendInfo(t)
  PROVE  NumbersRight'
<1>1. /\ stack[t] # <<>> /\ TopFrame(t).op = "send"
      /\ UNCHANGED <<replies, rewriter, recorded, fieldId2slot, staticSlots, nextSyntheticId, loaded>>
      /\ Continue(t, [TopFrame(t) EXCEPT !.at = "ack"], <<>>)
  BY DEF SendInfo, pipes, Busy
<1>2. PICK f : f = [TopFrame(t) EXCEPT !.at = "ack"]
  OBVIOUS
<1>3. IsFrame(TopFrame(t)) /\ IsSequence(stack[t])
  BY <1>1, TopIsGood DEF TInv, IInv, Good, GoodFrame
<1>4. f.op = "send"
  BY <1>1, <1>2, <1>3, FrameGoesTo
<1>5. PICK p : p = SubSeq(stack[t], 1, Len(stack[t]) - 1)
  OBVIOUS
<1>6. IsSequence(p)
  BY <1>1, <1>3, <1>5, Popping
<1>7. IsSequence(Append(p, f)) /\ Len(Append(p, f)) = Len(p) + 1 /\ Append(p, f)[Len(p) + 1] = f
  BY <1>6, Appending
<1>8. Append(p, f) \o <<>> = Append(p, f)
  BY <1>7 DEF IsSequence
<1>9. stack'[t] = Append(p, f) /\ \A u \in Threads \ {t} : stack'[u] = stack[u]
  BY <1>1, <1>2, <1>5, <1>8 DEF Continue, Goes, Popped, TInv, IInv
<1>10. Top(stack'[t]).op = "send"
  BY <1>4, <1>7, <1>9 DEF Top
<1>11. Unloaded'
  BY <1>1, <1>9, <1>10 DEF Unloaded, NumbersRight, LoadedRight, Top
<1>12. StaticsRight'
  BY <1>1, StaticsStay DEF NumbersRight, recorded
<1> QED BY <1>1, <1>11, <1>12, NumbersKeep DEF rewriter, recorded

-----------------------------------------------------------------------------
(* Slots: records of fields and classes.                                   *)

LEMMA RepliesShorten ==
  ASSUME RepliesRight, IsSequence(replies), replies # <<>>, replies' = Tail(replies),
         UNCHANGED <<classIds, fieldIdTables, lastFieldId>>,
         \A m : \A i \in 2 .. Len(replies) : Pending(i) /\ m = replies[i][2][3] => Free(m)'
  PROVE  RepliesRight'
<1>1. /\ Len(replies) \in Nat \ {0} /\ Len(replies') = Len(replies) - 1
      /\ \A i \in 1 .. Len(replies) - 1 : replies'[i] = replies[i + 1]
  BY Tailing
<1>2. \A i \in 1 .. Len(replies') : i + 1 \in 2 .. Len(replies) /\ replies'[i] = replies[i + 1]
                                    /\ i + 1 \in 1 .. Len(replies) /\ i \in Nat
  BY <1>1
<1>3. \A q : ReplyRight(q) => ReplyRight(q)'
  BY DEF ReplyRight, Report, Numbered, HasKeys
<1>4. \A i \in 1 .. Len(replies') : ReplyRight(replies[i])'
  BY <1>2, <1>3 DEF RepliesRight
<1>5. \A i, j \in 1 .. Len(replies') :
        Pending(i)' /\ Pending(j)' /\ replies'[i][2][3] = replies'[j][2][3] => i = j
  <2> SUFFICES ASSUME NEW i \in 1 .. Len(replies'), NEW j \in 1 .. Len(replies'),
                      Pending(i)', Pending(j)', replies'[i][2][3] = replies'[j][2][3]
               PROVE  i = j
    OBVIOUS
  <2>1. i + 1 = j + 1
    BY <1>2 DEF RepliesRight, Pending
  <2> QED BY <1>2, <2>1
<1>6. \A i \in 1 .. Len(replies') : Pending(i)' => Free(replies[i][2][3])'
  BY <1>2 DEF Pending
<1> QED BY <1>4, <1>5, <1>6 DEF RepliesRight

LEMMA RecordAdded ==
  ASSUME InfosRight, StaticsRight, UNCHANGED <<classIds, fieldIdTables>>, NEW x, NEW name,
         NEW v \in Int \ {0}, Free(Magnitude(v)), Records(x, name, v)
  PROVE  /\ InfosAreSequences' /\ EntriesApart' /\ StaticsRight'
         /\ DOMAIN classId2fieldsInfo' = DOMAIN classId2fieldsInfo \cup {x}
         /\ \A k : Numbered(k)' <=> Numbered(k)
         /\ \A k : Recorded(k) => Recorded(k)'
         /\ \A y, j, k : j \in Places(y) /\ EntryOf(y, j, k) => EntryOf(y, j, k)'
         /\ \A y : \A j \in Places(y) : j \in Places(y)'
         /\ \A y : \A j \in Places(y)' :
              \/ y = x /\ NameAt(y, j)' = name /\ NumberAt(y, j)' = v
              \/ /\ y \in DOMAIN classId2fieldsInfo /\ j \in Places(y)
                 /\ NameAt(y, j)' = NameAt(y, j) /\ NumberAt(y, j)' = NumberAt(y, j)
         /\ \E j \in Places(x)' : NameAt(x, j)' = name /\ NumberAt(x, j)' = v
         /\ \A m : Free(m) /\ m # Magnitude(v) => Free(m)'
<1>1. PICK n : n = NextPlace(x)
  OBVIOUS
<1>2. /\ InfosAreSequences' /\ DOMAIN classId2fieldsInfo' = DOMAIN classId2fieldsInfo \cup {x}
      /\ \A y : y # x => Places(y)' = Places(y)
      /\ \A y : \A j \in Places(y) : /\ j \in Places(y)' /\ NameAt(y, j)' = NameAt(y, j)
                                     /\ NumberAt(y, j)' = NumberAt(y, j)
      /\ n \notin Places(x) /\ Places(x)' = Places(x) \cup {n}
      /\ NameAt(x, n)' = name /\ NumberAt(x, n)' = v
  BY <1>1, RecordsEntry DEF InfosRight
<1>3. EntriesApart' /\ StaticsRight'
  <2>1. \A y \in DOMAIN classId2fieldsInfo : \A j \in Places(y) : NumberAt(y, j) \in Int
    BY DEF InfosRight, EntryRight
  <2> QED BY <2>1, EntryAdded DEF InfosRight
<1>4. \A y : \A j \in Places(y)' :
        \/ y = x /\ NameAt(y, j)' = name /\ NumberAt(y, j)' = v
        \/ /\ y \in DOMAIN classId2fieldsInfo /\ j \in Places(y)
           /\ NameAt(y, j)' = NameAt(y, j) /\ NumberAt(y, j)' = NumberAt(y, j)
  <2>1. \A y, j : j \in Places(y) => y \in DOMAIN classId2fieldsInfo
    BY DEF Places
  <2> QED BY <1>2, <2>1
<1>5. \A k : (Numbered(k)' <=> Numbered(k)) /\ Signed(k)' = Signed(k)
  BY DEF Numbered, Signed
<1>6. \A y, j, k : j \in Places(y) /\ EntryOf(y, j, k) => EntryOf(y, j, k)'
  BY <1>2, <1>5 DEF EntryOf
<1>7. \A k : Recorded(k) => Recorded(k)'
  BY <1>2, <1>6 DEF Recorded
<1>8. \A m : Free(m) /\ m # Magnitude(v) => Free(m)'
  <2> SUFFICES ASSUME NEW m, Free(m), m # Magnitude(v),
                      NEW y \in DOMAIN classId2fieldsInfo', NEW j \in Places(y)'
               PROVE  Magnitude(NumberAt(y, j)') # m
    BY DEF Free, Magnitude
  <2> QED BY <1>4 DEF Free
<1>9. \E j \in Places(x)' : NameAt(x, j)' = name /\ NumberAt(x, j)' = v
  BY <1>2
<1>10. \A y : \A j \in Places(y) : j \in Places(y)'
  BY <1>2
<1> QED BY <1>2, <1>3, <1>4, <1>5, <1>6, <1>7, <1>8, <1>9, <1>10

LEMMA ReadAckNumbers ==
  ASSUME NumbersRight, TInv, IInv', NEW t \in Threads, ReadAck(t)
  PROVE  NumbersRight'
<1>1. /\ stack[t] # <<>> /\ TopFrame(t).op = "send" /\ Holding(stack[t]) /\ lock' = NoClass
      /\ replies # <<>> /\ replies' = Tail(replies) /\ Goes(t, Popped(t))
      /\ UNCHANGED <<rewriter, recorded, fieldId2slot, staticSlots, nextSyntheticId, loaded>>
  BY DEF ReadAck, Busy, Holding, TopFrame, Top
<1>2. Answered(TopFrame(t))
  BY <1>1, Holds DEF TInv, Conversation, Asked, AtWork
<1>3. replies = <<<<"Ack", NoClass>>>> /\ replies' = <<>>
  <2>1. replies = <<<<"Ack", NoClass>>>>
    BY <1>1, <1>2 DEF Answered
  <2>2. Tail(<<<<"Ack", NoClass>>>>) = <<>>
    OBVIOUS
  <2> QED BY <1>1, <2>1, <2>2
<1>4. /\ \A i \in 1 .. Len(replies) : ~Pending(i)
      /\ 1 .. Len(replies') = {}
  <2>1. Len(replies) = 1 /\ replies[1][1] = "Ack"
    BY <1>3
  <2> QED BY <1>3, <2>1 DEF Pending
<1>5. Unloaded'
  <2>1. \A u \in Threads \ {t} : stack'[u] = stack[u]
    BY <1>1 DEF Goes, TInv, IInv
  <2> QED BY <1>1, <2>1, HolderStays DEF TInv, NumbersRight, LoadedRight
<1>6. RepliesRight'
  BY <1>4 DEF RepliesRight
<1>7. WorkRight' /\ TablesRight' /\ CodeRight'
  BY <1>1 DEF rewriter, NumbersRight, WorkRight, TablesRight, CodeRight, Idle, Numbered
<1>8. \A k : /\ Numbered(k)' <=> Numbered(k)
             /\ Recorded(k)' <=> Recorded(k)
  BY <1>1 DEF rewriter, recorded, Numbered, Recorded, EntryOf, Signed, Places, NameAt, NumberAt
<1>9. InfosRight'
  <2>1. \A k : Covered(k) => Recorded(k)
    BY <1>4 DEF Covered
  <2>2. \A k \in ToldKeys : Numbered(k)' => Covered(k)'
    BY <1>8, <2>1 DEF Covered, NumbersRight, InfosRight
  <2>3. \A x, j : /\ Places(x)' = Places(x) /\ NameAt(x, j)' = NameAt(x, j)
                  /\ NumberAt(x, j)' = NumberAt(x, j)
                  /\ EntryRight(x, j) => EntryRight(x, j)'
    BY <1>1 DEF rewriter, recorded, EntryRight, EntryOf, Numbered, Signed, Places, NameAt, NumberAt
  <2>4. EntriesApart' /\ InfosAreSequences'
    BY <1>1, <2>3 DEF recorded, NumbersRight, InfosRight, EntriesApart, InfosAreSequences
  <2> QED BY <1>1, <2>2, <2>3, <2>4 DEF recorded, NumbersRight, InfosRight
<1>10. StaticsRight'
  BY <1>1, StaticsStay DEF NumbersRight, recorded
<1>11. NamesRight'
  BY <1>1 DEF recorded, rewriter, NumbersRight, NamesRight
<1>12. LoadedRight'
  BY <1>1, <1>5, <1>8 DEF rewriter, NumbersRight, LoadedRight
<1> QED BY <1>6, <1>7, <1>9, <1>10, <1>11, <1>12 DEF NumbersRight

\* The record of a class.
LEMMA ClassRecordNumbers ==
  ASSUME NumbersRight, TInv, replies # <<>>, replies' = Tail(replies), replies[1][1] = "ClassInfo",
         RecordClassInfo(replies[1][2][1], replies[1][2][2]),
         UNCHANGED <<rewriter, classId2fieldsInfo, fieldId2slot, staticSlots, nextSyntheticId,
                     stack, loaded>>
  PROVE  NumbersRight'
<1>0. /\ IsSequence(replies) /\ Len(replies) \in Nat \ {0} /\ Len(replies') = Len(replies) - 1
      /\ \A i \in 1 .. Len(replies) - 1 : replies'[i] = replies[i + 1]
  BY Tailing DEF TInv, IInv
<1>1. PICK c, id : c = replies[1][2][2] /\ id = replies[1][2][1]
  OBVIOUS
<1>2. c \in DOMAIN classIds \ Untold /\ id = classIds[c]
  <2>1. ReplyRight(replies[1])
    BY <1>0 DEF NumbersRight, RepliesRight
  <2> QED BY <1>1, <2>1 DEF ReplyRight
<1>3. \A x, j : Places(x)' = Places(x) /\ NameAt(x, j)' = NameAt(x, j) /\ NumberAt(x, j)' = NumberAt(x, j)
  BY DEF Places, NameAt, NumberAt
<1>4. \A m : Free(m) => Free(m)'
  BY <1>3 DEF Free
<1>5. RepliesRight'
  <2>1. 2 .. Len(replies) \subseteq 1 .. Len(replies)
    BY <1>0
  <2> QED BY <1>0, <1>4, <2>1, RepliesShorten DEF NumbersRight, RepliesRight, rewriter
<1>6. WorkRight' /\ TablesRight' /\ CodeRight'
  BY DEF rewriter, NumbersRight, WorkRight, TablesRight, CodeRight, Idle, Numbered
<1>7. \A k : (Numbered(k)' <=> Numbered(k)) /\ (Recorded(k)' <=> Recorded(k))
  BY DEF rewriter, Numbered, Recorded, EntryOf, Signed, Places, NameAt, NumberAt
<1>8. InfosRight'
  <2>1. ASSUME NEW k \in ToldKeys, Numbered(k)'
        PROVE  Covered(k)'
    <3>1. Covered(k)
      BY <1>7, <2>1 DEF NumbersRight, InfosRight
    <3>2. CASE Recorded(k)
      BY <1>7, <3>2 DEF Covered
    <3>3. ASSUME NEW i \in 1 .. Len(replies), Pending(i), replies[i][2][3] = fieldIdTables[k]
          PROVE  Covered(k)'
      <4>1. i # 1
        BY <3>3 DEF Pending
      <4>2. i - 1 \in 1 .. Len(replies') /\ replies'[i - 1] = replies[i]
        <5>1. i - 1 \in 1 .. Len(replies) - 1 /\ (i - 1) + 1 = i
          BY <1>0, <4>1
        <5> QED BY <1>0, <5>1
      <4>3. fieldIdTables' = fieldIdTables
        BY DEF rewriter
      <4> QED BY <3>3, <4>2, <4>3 DEF Covered, Pending
    <3> QED BY <3>1, <3>2, <3>3 DEF Covered
  <2>2. \A x, j : EntryRight(x, j) => EntryRight(x, j)'
    BY DEF rewriter, EntryRight, EntryOf, Numbered, Signed, NameAt, NumberAt
  <2>3. EntriesApart' /\ InfosAreSequences'
    BY <1>3 DEF NumbersRight, InfosRight, EntriesApart, InfosAreSequences
  <2> QED BY <1>3, <2>1, <2>2, <2>3 DEF NumbersRight, InfosRight
<1>9. StaticsRight'
  BY StaticsStay DEF NumbersRight
<1>10. NamesRight'
  <2>1. /\ DOMAIN className2classId' = DOMAIN className2classId \cup {c}
        /\ c \notin DOMAIN className2classId => className2classId'[c] = id
        /\ \A d \in DOMAIN className2classId : className2classId'[d] = className2classId[d]
    BY <1>1 DEF RecordClassInfo, Put
  <2>2. id < SYNTHETIC_ID_BASE /\ id \in Nat
    <3>1. ReplyOK(replies[1])
      BY <1>0 DEF TInv, Typed, PipesOK
    <3> QED BY <1>1, <3>1 DEF ReplyOK
  <2>3. \A d \in DOMAIN className2classId : d \notin Untold => className2classId[d] = classIds[d] /\ d \in DOMAIN classIds
    BY DEF NumbersRight, NamesRight
  <2>4. \A d \in DOMAIN className2classId : d \in Untold => className2classId[d] # id
    <3>1. \A d \in DOMAIN className2classId : d \in Untold =>
            className2classId[d] >= SYNTHETIC_ID_BASE /\ className2classId[d] \in Nat
      BY DEF TInv, Typed, AgentOK
    <3> QED BY <2>2, <3>1, SlotsAssumption
  <2>5. \A d \in DOMAIN className2classId : className2classId[d] = id => d = c
    BY <1>2, <2>3, <2>4 DEF NumbersRight, TablesRight
  <2>6. /\ UNCHANGED <<classIds, nextSyntheticId>> /\ id < nextSyntheticId
    BY <2>2, SlotsAssumption DEF rewriter, TInv, Typed, AgentOK
  <2>7. \A d \in DOMAIN className2classId' : d \notin Untold => d \in DOMAIN classIds /\ className2classId'[d] = classIds[d]
    BY <1>2, <2>1, <2>3
  <2>8. \A d \in DOMAIN className2classId' : className2classId'[d] < nextSyntheticId
    BY <2>1, <2>6 DEF NumbersRight, NamesRight
  <2>9. \A d, e \in DOMAIN className2classId' : className2classId'[d] = className2classId'[e] => d = e
    BY <2>1, <2>5 DEF NumbersRight, NamesRight
  <2> QED BY <2>6, <2>7, <2>8, <2>9 DEF NamesRight
<1>11. LoadedRight'
  BY <1>7 DEF rewriter, NumbersRight, LoadedRight, Unloaded
<1> QED BY <1>5, <1>6, <1>8, <1>9, <1>10, <1>11 DEF NumbersRight

\* The record of a field.
LEMMA FieldRecordNumbers ==
  ASSUME NumbersRight, TInv, replies # <<>>, replies' = Tail(replies), Pending(1),
         RecordFieldInfo(replies[1][2][1], replies[1][2][2], replies[1][2][3], replies[1][2][4]),
         UNCHANGED <<rewriter, className2classId, nextSyntheticId, stack, loaded>>
  PROVE  NumbersRight'
<1>0. /\ IsSequence(replies) /\ Len(replies) \in Nat \ {0} /\ Len(replies') = Len(replies) - 1
      /\ \A i \in 1 .. Len(replies) - 1 : replies'[i] = replies[i + 1]
      /\ 1 \in 1 .. Len(replies)
  BY Tailing DEF TInv, IInv
<1>1. PICK x, v, id, name : /\ x = replies[1][2][1] /\ name = replies[1][2][2] /\ id = replies[1][2][3]
                            /\ v = IF replies[1][2][4] THEN -id ELSE id
  OBVIOUS
<1>2. /\ id \in 1 .. lastFieldId /\ replies[1][2][4] \in BOOLEAN
      /\ \A k \in ToldKeys : Numbered(k) /\ fieldIdTables[k] = id => Report(replies[1][2], k)
  <2>1. ReplyRight(replies[1])
    BY <1>0 DEF NumbersRight, RepliesRight
  <2> QED BY <1>1, <2>1 DEF ReplyRight, Pending
<1>4. lastFieldId \in Nat
  BY DEF TInv, Typed, RewriterOK
<1>5. id \in Nat \ {0}
  BY <1>2, <1>4
<1>6. v \in Int \ {0} /\ Magnitude(v) = id
  BY <1>1, <1>5 DEF Magnitude
<1>3. \A k \in ToldKeys : Numbered(k) /\ fieldIdTables[k] = id =>
        x = classIds[k[1]] /\ name = k[2] /\ v = Signed(k)
  BY <1>1, <1>2 DEF Report, Signed, IsStatic
<1>7. Records(x, name, v)
  <2>1. CASE replies[1][2][4]
    BY <1>1, <1>5, <2>1 DEF RecordFieldInfo, Records
  <2>2. CASE ~replies[1][2][4]
    BY <1>1, <1>5, <2>2 DEF RecordFieldInfo, Records
  <2> QED BY <2>1, <2>2
<1>8. Free(Magnitude(v))
  BY <1>0, <1>1, <1>6 DEF NumbersRight, RepliesRight
<1>9. UNCHANGED <<classIds, fieldIdTables>>
  BY DEF rewriter
<1>10. /\ InfosAreSequences' /\ EntriesApart' /\ StaticsRight'
       /\ DOMAIN classId2fieldsInfo' = DOMAIN classId2fieldsInfo \cup {x}
       /\ \A l : Numbered(l)' <=> Numbered(l)
       /\ \A l : Recorded(l) => Recorded(l)'
       /\ \A y, j, l : j \in Places(y) /\ EntryOf(y, j, l) => EntryOf(y, j, l)'
       /\ \A y : \A j \in Places(y) : j \in Places(y)'
       /\ \A y : \A j \in Places(y)' :
            \/ y = x /\ NameAt(y, j)' = name /\ NumberAt(y, j)' = v
            \/ /\ y \in DOMAIN classId2fieldsInfo /\ j \in Places(y)
               /\ NameAt(y, j)' = NameAt(y, j) /\ NumberAt(y, j)' = NumberAt(y, j)
       /\ \E j \in Places(x)' : NameAt(x, j)' = name /\ NumberAt(x, j)' = v
       /\ \A m : Free(m) /\ m # Magnitude(v) => Free(m)'
  <2>1. InfosRight /\ StaticsRight
    BY DEF NumbersRight
  <2>2. v \in Int \ {0} /\ Free(Magnitude(v)) /\ Records(x, name, v)
        /\ UNCHANGED <<classIds, fieldIdTables>>
    BY <1>6, <1>7, <1>8, <1>9
  <2> HIDE <1>1, <1>2, <1>6, <1>5
  <2> QED BY <2>1, <2>2, RecordAdded
<1>12. ASSUME NEW k \in ToldKeys, Numbered(k), fieldIdTables[k] = id
       PROVE  Recorded(k)'
  <2>1. PICK j \in Places(x)' : NameAt(x, j)' = name /\ NumberAt(x, j)' = v
    BY <1>10
  <2>2. classIds'[k[1]] = x /\ name = k[2] /\ v = Signed(k) /\ Numbered(k)' /\ Signed(k)' = Signed(k)
    BY <1>3, <1>9, <1>10, <1>12 DEF Signed
  <2>3. EntryOf(x, j, k)'
    BY <2>1, <2>2 DEF EntryOf
  <2> QED BY <2>2, <2>3 DEF Recorded
<1>13. RepliesRight'
  <2>1. \A i \in 2 .. Len(replies) : i \in 1 .. Len(replies) /\ i # 1
    BY <1>0
  <2>2. \A m : \A i \in 2 .. Len(replies) : Pending(i) /\ m = replies[i][2][3] => Free(m) /\ m # id
    BY <1>0, <1>1, <2>1 DEF NumbersRight, RepliesRight
  <2>3. \A m : \A i \in 2 .. Len(replies) : Pending(i) /\ m = replies[i][2][3] => Free(m)'
    BY <1>6, <1>10, <2>2
  <2>4. RepliesRight /\ UNCHANGED lastFieldId
    BY DEF NumbersRight, rewriter
  <2> QED BY <1>0, <1>9, <2>3, <2>4, RepliesShorten
<1>14. WorkRight' /\ TablesRight' /\ CodeRight'
  BY DEF rewriter, NumbersRight, WorkRight, TablesRight, CodeRight, Idle, Numbered
<1>15. InfosRight'
  <2>1. ASSUME NEW l \in ToldKeys, Numbered(l)'
        PROVE  Covered(l)'
    <3>1. Covered(l) /\ Numbered(l)
      BY <1>10, <2>1 DEF NumbersRight, InfosRight
    <3>2. CASE Recorded(l)
      BY <1>10, <3>2 DEF Covered
    <3>3. ASSUME NEW i \in 1 .. Len(replies), Pending(i), replies[i][2][3] = fieldIdTables[l]
          PROVE  Covered(l)'
      <4>1. CASE i = 1
        <5>1. fieldIdTables[l] = id
          BY <1>1, <3>3, <4>1
        <5> QED BY <1>12, <3>1, <5>1 DEF Covered
      <4>2. CASE i # 1
        <5>1. i - 1 \in 1 .. Len(replies') /\ replies'[i - 1] = replies[i]
          <6>1. i - 1 \in 1 .. Len(replies) - 1 /\ (i - 1) + 1 = i
            BY <1>0, <4>2
          <6> QED BY <1>0, <6>1
        <5> QED BY <1>9, <3>3, <5>1 DEF Covered, Pending
      <4> QED BY <4>1, <4>2
    <3> QED BY <3>1, <3>2, <3>3 DEF Covered
  <2>2. lastFieldId' = lastFieldId /\ id <= lastFieldId /\ nextSyntheticId' = nextSyntheticId
    BY <1>2, <1>4 DEF rewriter
  <2>3. ASSUME NEW y \in DOMAIN classId2fieldsInfo', NEW j \in Places(y)'
        PROVE  EntryRight(y, j)'
    <3>1. CASE y = x /\ NameAt(y, j)' = name /\ NumberAt(y, j)' = v
      <4>1. Magnitude(NumberAt(y, j))' = id /\ NumberAt(y, j)' \in Int \ {0}
        BY <1>6, <3>1 DEF Magnitude
      <4> QED BY <2>2, <4>1 DEF EntryRight
    <3>2. CASE /\ y \in DOMAIN classId2fieldsInfo /\ j \in Places(y)
               /\ NameAt(y, j)' = NameAt(y, j) /\ NumberAt(y, j)' = NumberAt(y, j)
      <4>1. EntryRight(y, j)
        BY <3>2 DEF NumbersRight, InfosRight
      <4>2. Magnitude(NumberAt(y, j))' = Magnitude(NumberAt(y, j))
        BY <3>2 DEF Magnitude
      <4> QED BY <2>2, <3>2, <4>1, <4>2 DEF EntryRight
    <3> QED BY <1>10, <3>1, <3>2
  <2> QED BY <1>10, <2>1, <2>3 DEF InfosRight
<1>16. NamesRight'
  BY DEF rewriter, NumbersRight, NamesRight
<1>17. LoadedRight'
  BY <1>10 DEF rewriter, NumbersRight, LoadedRight, Unloaded
<1> QED BY <1>10, <1>13, <1>14, <1>15, <1>16, <1>17 DEF NumbersRight

\* The class is loaded: everything was recorded before.
LEMMA ClassFileNumbers ==
  ASSUME NumbersRight, TInv, NEW t \in Threads, stack[t] # <<>>, TopFrame(t).op = "instrument",
         replies # <<>>, replies' = Tail(replies), replies[1][1] = "InstClassFile",
         loaded' = loaded \cup {TopFrame(t).class}, lock' = NoClass, Goes(t, <<>>),
         IInv', UNCHANGED <<rewriter, recorded, fieldId2slot, staticSlots, nextSyntheticId>>
  PROVE  NumbersRight'
<1>1. /\ Conversation(TopFrame(t)) /\ FrameOK(TopFrame(t)) /\ Holding(stack[t])
  <2>1. Holding(stack[t])
    BY DEF Holding, Top, TopFrame
  <2> QED BY <2>1, Holds, TopOK DEF TInv
<1>2. /\ IsSequence(replies) /\ Len(replies) \in Nat \ {0} /\ Len(replies') = Len(replies) - 1
  BY Tailing DEF TInv, IInv
<1>3. Answered(TopFrame(t)) /\ Len(replies) = 1 /\ replies[1] = <<"InstClassFile", TopFrame(t).class>>
  <2>1. Answered(TopFrame(t))
    BY <1>1, <1>2 DEF Conversation, Asked, AtWork, Informing
  <2>2. Len(replies) = 1
    BY <1>2, <2>1 DEF Answered, Informing
  <2> QED BY <2>1, <2>2 DEF Answered
<1>4. PICK c : c = TopFrame(t).class
  OBVIOUS
<1>5. c \in Classes \ Untold /\ HasKeys(c) /\ 1 .. Len(replies') = {}
      /\ \A i \in 1 .. Len(replies) : ~Pending(i)
  <2>1. c \in Classes \ Untold
    BY <1>1, <1>4 DEF FrameOK
  <2>2. ReplyRight(replies[1]) /\ replies[1][2] = c /\ replies[1][1] = "InstClassFile"
    BY <1>3, <1>4 DEF NumbersRight, RepliesRight
  <2>3. HasKeys(c)
    BY <2>2 DEF ReplyRight
  <2>4. \A i \in 1 .. Len(replies) : i = 1
    BY <1>3
  <2>5. 1 .. Len(replies') = {}
    <3>1. PICK n : n = Len(replies')
      OBVIOUS
    <3>2. n = 0
      BY <1>2, <1>3, <3>1
    <3>3. 1 .. n = {}
      BY <3>2
    <3> QED BY <3>1, <3>3
  <2> QED BY <2>1, <2>2, <2>3, <2>4, <2>5 DEF Pending
<1>6. \A k : Numbered(k) => Recorded(k)
  BY <1>5 DEF NumbersRight, InfosRight, Covered, Numbered
<1>7. \A k : (Numbered(k)' <=> Numbered(k)) /\ (Recorded(k)' <=> Recorded(k))
  BY DEF rewriter, recorded, Numbered, Recorded, EntryOf, Signed, Places, NameAt, NumberAt
<1>8. \A n \in NamesOf(c) : Recorded(<<c, n>>)
  <2>1. \A n \in NamesOf(c) : n \in Names
    BY <1>5 DEF Names
  <2>2. \A n \in NamesOf(c) : Numbered(<<c, n>>)
    BY <1>5, <2>1 DEF Numbered, ToldKeys, HasKeys
  <2> QED BY <1>6, <2>2
<1>9. LoadedRight'
  <2>1. \A d \in loaded' : \A n \in NamesOf(d) : Recorded(<<d, n>>)
    BY <1>4, <1>8 DEF NumbersRight, LoadedRight
  <2>2. \A u \in code : u[2] \notin Untold => Recorded(<<u[2], u[3]>>)
    BY <1>6 DEF NumbersRight, CodeRight
  <2>3. Unloaded'
    <3>1. \A u \in Threads : ~Holding(stack'[u])
      BY SlotsAssumption DEF IInv
    <3> QED BY <3>1 DEF Unloaded, Holding
  <2> QED BY <1>7, <2>1, <2>2, <2>3 DEF LoadedRight, rewriter
<1>10. RepliesRight'
  BY <1>5 DEF RepliesRight
<1>11. WorkRight' /\ TablesRight' /\ CodeRight'
  BY DEF rewriter, NumbersRight, WorkRight, TablesRight, CodeRight, Idle, Numbered
<1>12. InfosRight'
  <2>1. \A k \in ToldKeys : Numbered(k)' => Covered(k)'
    BY <1>6, <1>7 DEF Covered
  <2>2. \A x, j : /\ Places(x)' = Places(x) /\ NameAt(x, j)' = NameAt(x, j)
                  /\ NumberAt(x, j)' = NumberAt(x, j)
                  /\ EntryRight(x, j) => EntryRight(x, j)'
    BY DEF rewriter, recorded, EntryRight, EntryOf, Numbered, Signed, Places, NameAt, NumberAt
  <2>3. EntriesApart' /\ InfosAreSequences'
    BY <2>2 DEF recorded, NumbersRight, InfosRight, EntriesApart, InfosAreSequences
  <2> QED BY <2>1, <2>2, <2>3 DEF recorded, NumbersRight, InfosRight
<1>13. StaticsRight'
  BY StaticsStay DEF NumbersRight, recorded
<1>14. NamesRight'
  BY DEF recorded, rewriter, NumbersRight, NamesRight
<1> QED BY <1>9, <1>10, <1>11, <1>12, <1>13, <1>14 DEF NumbersRight

LEMMA ReadRecordNumbers ==
  ASSUME NumbersRight, TInv, IInv', NEW t \in Threads, ReadRecord(t)
  PROVE  NumbersRight'
<1>1. /\ stack[t] # <<>> /\ TopFrame(t).op = "instrument" /\ replies # <<>>
      /\ replies' = Tail(replies) /\ UNCHANGED <<rewriter, nextSyntheticId>>
      /\ Head(replies) = replies[1]
  BY Tailing DEF ReadRecord, Busy, TInv, IInv
<1>2. CASE Head(replies)[1] = "ClassInfo"
  <2>1. /\ RecordClassInfo(replies[1][2][1], replies[1][2][2])
        /\ UNCHANGED <<classId2fieldsInfo, fieldId2slot, staticSlots, stack, loaded>>
    BY <1>1, <1>2 DEF ReadRecord, readUntilDone
  <2> QED BY <1>1, <1>2, <2>1, ClassRecordNumbers
<1>3. CASE Head(replies)[1] = "FieldInfo"
  <2>1. /\ RecordFieldInfo(replies[1][2][1], replies[1][2][2], replies[1][2][3], replies[1][2][4])
        /\ UNCHANGED <<className2classId, stack, loaded>>
    BY <1>1, <1>3 DEF ReadRecord, readUntilDone
  <2>2. Pending(1)
    BY <1>1, <1>3 DEF Pending
  <2> QED BY <1>1, <2>1, <2>2, FieldRecordNumbers
<1>4. CASE Head(replies)[1] = "InstClassFile"
  <2>1. /\ loaded' = loaded \cup {TopFrame(t).class} /\ lock' = NoClass /\ Goes(t, <<>>)
        /\ UNCHANGED <<recorded, fieldId2slot, staticSlots>>
    BY <1>1, <1>4 DEF ReadRecord, readUntilDone
  <2> QED BY <1>1, <1>4, <2>1, ClassFileNumbers
<1> QED BY <1>2, <1>3, <1>4 DEF ReadRecord, readUntilDone

\* A made up number for a class.
LEMMA SyntheticClassNumbers ==
  ASSUME NumbersRight, TInv, IInv', NEW t \in Threads, SyntheticClass(t)
  PROVE  NumbersRight'
<1>1. PICK c : c = TopFrame(t).class
  OBVIOUS
<1>2. /\ stack[t] # <<>> /\ TopFrame(t).op = "without" /\ RecordClassInfo(nextSyntheticId, c)
      /\ nextSyntheticId' = nextSyntheticId + 1
      /\ UNCHANGED <<lock, replies, rewriter, classId2fieldsInfo, fieldId2slot, staticSlots, loaded>>
  BY <1>1 DEF SyntheticClass, Busy, pipes
<1>3. c \in Untold /\ c \in Classes /\ nextSyntheticId \in Nat
  BY <1>1, <1>2, TopOK DEF FrameOK, Known, TInv, Typed, AgentOK
<1>4. Unloaded'
  <2>1. ~Holding(stack[t])
    BY <1>2 DEF Holding, Top, TopFrame
  <2>2. \A u \in Threads \ {t} : stack'[u] = stack[u]
    BY DEF SyntheticClass, Continue, Goes, TInv, IInv
  <2> QED BY <1>2, <2>1, <2>2, HolderStays DEF TInv, NumbersRight, LoadedRight
<1>5. WorkRight' /\ TablesRight' /\ CodeRight'
  BY <1>2 DEF rewriter, NumbersRight, WorkRight, TablesRight, CodeRight, Idle, Numbered
<1>6. /\ \A k : /\ Numbered(k)' <=> Numbered(k)
                /\ Recorded(k)' <=> Recorded(k)
                /\ Covered(k)' <=> Covered(k)
      /\ \A x, j : Places(x)' = Places(x) /\ NameAt(x, j)' = NameAt(x, j) /\ NumberAt(x, j)' = NumberAt(x, j)
  BY <1>2 DEF rewriter, Numbered, Recorded, Covered, EntryOf, Signed, Places, NameAt, NumberAt, Pending
<1>7. RepliesRight'
  <2>1. \A q : ReplyRight(q) => ReplyRight(q)'
    BY <1>2 DEF rewriter, ReplyRight, Report, Numbered, HasKeys
  <2>2. \A m : Free(m) => Free(m)'
    BY <1>2, <1>6 DEF Free
  <2> QED BY <1>2, <2>1, <2>2 DEF NumbersRight, RepliesRight, Pending
<1>8. InfosRight'
  <2>1. ASSUME NEW x \in DOMAIN classId2fieldsInfo, NEW j \in Places(x)
        PROVE  EntryRight(x, j)'
    <3>1. EntryRight(x, j)
      BY DEF NumbersRight, InfosRight
    <3>2. UNCHANGED lastFieldId
      BY <1>2 DEF rewriter
    <3>3. Magnitude(NumberAt(x, j)) \in Int
      BY <3>1 DEF EntryRight, Magnitude
    <3>4. Magnitude(NumberAt(x, j))' = Magnitude(NumberAt(x, j))
      BY <1>6 DEF Magnitude
    <3> QED BY <1>2, <1>3, <1>6, <3>1, <3>2, <3>3, <3>4 DEF EntryRight
  <2>2. EntriesApart' /\ InfosAreSequences'
    BY <1>2, <1>6 DEF NumbersRight, InfosRight, EntriesApart, InfosAreSequences
  <2> QED BY <1>2, <1>6, <2>1, <2>2 DEF NumbersRight, InfosRight
<1>9. StaticsRight'
  BY <1>2, StaticsStay DEF NumbersRight
<1>10. NamesRight'
  <2>1. /\ DOMAIN className2classId' = DOMAIN className2classId \cup {c}
        /\ c \notin DOMAIN className2classId => className2classId'[c] = nextSyntheticId
        /\ \A d \in DOMAIN className2classId : className2classId'[d] = className2classId[d]
    BY <1>2 DEF RecordClassInfo, Put
  <2>2. \A d \in DOMAIN className2classId : /\ className2classId[d] \in Nat
                                            /\ className2classId[d] < nextSyntheticId
    BY DEF NumbersRight, NamesRight, TInv, Typed, AgentOK
  <2>3. \A d, e \in DOMAIN className2classId : className2classId[d] = className2classId[e] => d = e
    BY DEF NumbersRight, NamesRight
  <2>4. \A d \in DOMAIN className2classId' : className2classId'[d] < nextSyntheticId'
    BY <1>2, <1>3, <2>1, <2>2
  <2>5. \A d, e \in DOMAIN className2classId' : className2classId'[d] = className2classId'[e] => d = e
    BY <1>3, <2>1, <2>2, <2>3
  <2>6. \A d \in DOMAIN className2classId' \ Untold :
          d \in DOMAIN classIds' /\ className2classId'[d] = classIds'[d]
    BY <1>2, <1>3, <2>1 DEF rewriter, NumbersRight, NamesRight
  <2> QED BY <2>4, <2>5, <2>6 DEF NamesRight
<1>11. LoadedRight'
  BY <1>2, <1>4, <1>6 DEF rewriter, NumbersRight, LoadedRight
<1> QED BY <1>5, <1>7, <1>8, <1>9, <1>10, <1>11 DEF NumbersRight

\* The class whose fields get made up numbers has one.
Filling(f) == f.op = "without" /\ f.at = "fields"
Numbering(f) ==
  f.superSlots \in Nat /\ f.superSlots >= SYNTHETIC_ID_BASE /\ f.superSlots < nextSyntheticId

\* A made up number for a field.
LEMMA SyntheticFieldNumbers ==
  ASSUME NumbersRight, TInv, IInv', NEW t \in Threads, SyntheticField(t), Numbering(TopFrame(t))
  PROVE  NumbersRight'
<1>1. PICK x, name, id : x = TopFrame(t).superSlots /\ name = Head(TopFrame(t).rest) /\ id = nextSyntheticId
  OBVIOUS
<1>2. /\ stack[t] # <<>> /\ TopFrame(t).op = "without"
      /\ UNCHANGED <<lock, replies, rewriter, className2classId, loaded>>
  BY DEF SyntheticField, Busy, pipes
<1>3. Unloaded'
  <2>1. ~Holding(stack[t])
    BY <1>2 DEF Holding, Top, TopFrame
  <2>2. \A u \in Threads \ {t} : stack'[u] = stack[u]
    BY DEF SyntheticField, Continue, Goes, TInv, IInv
  <2> QED BY <1>2, <2>1, <2>2, HolderStays DEF TInv, NumbersRight, LoadedRight
<1>4. CASE TopFrame(t).rest = <<>>
  <2>1. UNCHANGED <<classId2fieldsInfo, staticSlots, fieldId2slot, nextSyntheticId>>
    BY <1>4 DEF SyntheticField
  <2>2. StaticsRight'
    BY <2>1, StaticsStay DEF NumbersRight
  <2> QED BY <1>2, <1>3, <2>1, <2>2, NumbersKeep DEF rewriter
<1>5. CASE TopFrame(t).rest # <<>>
  <2>1. /\ nextSyntheticId' = id + 1
        /\ RecordFieldInfo(x, name, id, <<TopFrame(t).class, name>> \in Static)
    BY <1>1, <1>5 DEF SyntheticField
  <2>2. id \in Nat \ {0} /\ id >= SYNTHETIC_ID_BASE /\ SYNTHETIC_ID_BASE \in Nat
    BY <1>1, SlotsAssumption DEF TInv, Typed, AgentOK
  <2>14. UNCHANGED lastFieldId /\ lastFieldId \in Nat /\ lastFieldId < SYNTHETIC_ID_BASE
    <3>1. lastFieldId < SYNTHETIC_ID_BASE
      BY TypedImplies DEF TInv, TypeOK
    <3> QED BY <1>2, <3>1 DEF TInv, Typed, RewriterOK, rewriter
  <2>3. PICK v : v = IF <<TopFrame(t).class, name>> \in Static THEN -id ELSE id
    OBVIOUS
  <2>4. v \in Int \ {0} /\ Magnitude(v) = id
    BY <2>2, <2>3 DEF Magnitude
  <2>5. Records(x, name, v)
    <3>1. CASE <<TopFrame(t).class, name>> \in Static
      BY <2>1, <2>2, <2>3, <3>1 DEF RecordFieldInfo, Records
    <3>2. CASE <<TopFrame(t).class, name>> \notin Static
      BY <2>1, <2>2, <2>3, <3>2 DEF RecordFieldInfo, Records
    <3> QED BY <3>1, <3>2
  <2>6. Free(Magnitude(v))
    <3>1. \A y \in DOMAIN classId2fieldsInfo : \A j \in Places(y) :
            NumberAt(y, j) \in Int /\ Magnitude(NumberAt(y, j)) < id
      <4>1. \A n \in Int : Magnitude(n) \in Int
        BY DEF Magnitude
      <4>2. \A y \in DOMAIN classId2fieldsInfo : \A j \in Places(y) : EntryRight(y, j)
        BY DEF NumbersRight, InfosRight
      <4> QED BY <1>1, <2>2, <2>14, <4>1, <4>2 DEF EntryRight
    <3>2. \A n \in Int : Magnitude(n) \in Int
      BY DEF Magnitude
    <3> QED BY <2>2, <2>4, <3>1, <3>2 DEF Free
  <2>7. UNCHANGED <<classIds, fieldIdTables>>
    BY <1>2 DEF rewriter
  <2>8. /\ InfosAreSequences' /\ EntriesApart' /\ StaticsRight'
        /\ DOMAIN classId2fieldsInfo' = DOMAIN classId2fieldsInfo \cup {x}
        /\ \A l : Numbered(l)' <=> Numbered(l)
        /\ \A l : Recorded(l) => Recorded(l)'
        /\ \A y, j, l : j \in Places(y) /\ EntryOf(y, j, l) => EntryOf(y, j, l)'
        /\ \A y : \A j \in Places(y) : j \in Places(y)'
        /\ \A y : \A j \in Places(y)' :
             \/ y = x /\ NameAt(y, j)' = name /\ NumberAt(y, j)' = v
             \/ /\ y \in DOMAIN classId2fieldsInfo /\ j \in Places(y)
                /\ NameAt(y, j)' = NameAt(y, j) /\ NumberAt(y, j)' = NumberAt(y, j)
        /\ \E j \in Places(x)' : NameAt(x, j)' = name /\ NumberAt(x, j)' = v
        /\ \A m : Free(m) /\ m # Magnitude(v) => Free(m)'
    <3>1. InfosRight /\ StaticsRight
      BY DEF NumbersRight
    <3>2. v \in Int \ {0} /\ Free(Magnitude(v)) /\ Records(x, name, v)
          /\ UNCHANGED <<classIds, fieldIdTables>>
      BY <2>2, <2>4, <2>5, <2>6, <2>7
    <3> HIDE <2>3, <2>4, <2>2
    <3> QED BY <3>1, <3>2, RecordAdded
  <2>9. RepliesRight'
    <3>1. \A q : ReplyRight(q) => ReplyRight(q)'
      BY <1>2 DEF rewriter, ReplyRight, Report, Numbered, HasKeys
    <3>2. ASSUME NEW i \in 1 .. Len(replies), Pending(i)
          PROVE  replies[i][2][3] # id
      <4>1. replies[i][2][3] \in 1 .. lastFieldId
        BY <3>2 DEF NumbersRight, RepliesRight, ReplyRight, Pending
      <4> QED BY <2>2, <2>14, <4>1
    <3>3. \A m : \A i \in 1 .. Len(replies) : Pending(i) /\ m = replies[i][2][3] => Free(m)'
      BY <2>4, <2>8, <3>2 DEF NumbersRight, RepliesRight
    <3>4. UNCHANGED replies
      BY <1>2
    <3> QED BY <3>1, <3>3, <3>4 DEF NumbersRight, RepliesRight, Pending
  <2>10. WorkRight' /\ TablesRight' /\ CodeRight'
    BY <1>2 DEF rewriter, NumbersRight, WorkRight, TablesRight, CodeRight, Idle, Numbered
  <2>11. InfosRight'
    <3>1. \A k \in ToldKeys : Numbered(k)' => Covered(k)'
      BY <1>2, <2>7, <2>8 DEF NumbersRight, InfosRight, Covered, Pending
    <3>2. ASSUME NEW y \in DOMAIN classId2fieldsInfo', NEW j \in Places(y)'
          PROVE  EntryRight(y, j)'
      <4>1. CASE y = x /\ NameAt(y, j)' = name /\ NumberAt(y, j)' = v
        <5>1. Magnitude(NumberAt(y, j))' = id /\ NumberAt(y, j)' \in Int \ {0}
          BY <2>4, <4>1 DEF Magnitude
        <5> QED BY <2>1, <2>2, <5>1 DEF EntryRight
      <4>2. CASE /\ y \in DOMAIN classId2fieldsInfo /\ j \in Places(y)
                 /\ NameAt(y, j)' = NameAt(y, j) /\ NumberAt(y, j)' = NumberAt(y, j)
        <5>1. EntryRight(y, j)
          BY <4>2 DEF NumbersRight, InfosRight
        <5>2. Magnitude(NumberAt(y, j))' = Magnitude(NumberAt(y, j)) /\ Magnitude(NumberAt(y, j)) \in Int
          BY <4>2, <5>1 DEF Magnitude, EntryRight
        <5> QED BY <1>1, <2>1, <2>2, <2>14, <4>2, <5>1, <5>2 DEF EntryRight
      <4> QED BY <2>8, <4>1, <4>2
    <3> QED BY <2>8, <3>1, <3>2 DEF InfosRight
  <2>12. NamesRight'
    <3>1. \A c \in DOMAIN className2classId : className2classId[c] \in Nat
      BY DEF TInv, Typed, AgentOK
    <3>2. UNCHANGED <<className2classId, classIds>>
      BY <1>2, <2>7
    <3>3. \A c \in DOMAIN className2classId : className2classId[c] < nextSyntheticId'
      BY <1>1, <2>1, <2>2, <3>1 DEF NumbersRight, NamesRight
    <3> QED BY <3>2, <3>3 DEF NumbersRight, NamesRight
  <2>13. LoadedRight'
    BY <1>2, <1>3, <2>8 DEF rewriter, NumbersRight, LoadedRight
  <2> QED BY <2>8, <2>9, <2>10, <2>11, <2>12, <2>13 DEF NumbersRight
<1> QED BY <1>4, <1>5

\* The slots of the instance fields are apart from those of the static ones.
LEMMA AssignSlotsNumbers ==
  ASSUME NumbersRight, TInv, IInv', NEW t \in Threads, AssignSlots(t)
  PROVE  NumbersRight'
<1>1. /\ stack[t] # <<>> /\ TopFrame(t).op = "slots"
      /\ UNCHANGED <<lock, replies, rewriter, recorded, staticSlots, nextSyntheticId, loaded>>
  BY DEF AssignSlots, Busy, Tables, pipes
<1>2. Unloaded'
  <2>1. ~Holding(stack[t])
    BY <1>1 DEF Holding, Top, TopFrame
  <2>2. \A u \in Threads \ {t} : stack'[u] = stack[u]
    BY DEF AssignSlots, Return, Goes, TInv, IInv
  <2> QED BY <1>1, <2>1, <2>2, HolderStays DEF TInv, NumbersRight, LoadedRight
<1>3. CASE fieldId2slot' = fieldId2slot
  <2>1. StaticsRight'
    BY <1>1, <1>3, StaticsStay DEF NumbersRight, recorded
  <2> QED BY <1>1, <1>2, <2>1, NumbersKeep DEF rewriter, recorded
<1>4. CASE fieldId2slot' # fieldId2slot
  <2>1. PICK x : x = className2classId[TopFrame(t).class]
    OBVIOUS
  <2>2. PICK info : info = Get(classId2fieldsInfo, x, <<>>)
    OBVIOUS
  <2>3. PICK given : given = SlotsFrom(TopFrame(t).superSlots, info)
    OBVIOUS
  <2>4. fieldId2slot' = [m \in DOMAIN fieldId2slot \cup DOMAIN given |->
                           IF m \in DOMAIN given THEN given[m] ELSE fieldId2slot[m]]
    BY <1>4, <2>1, <2>2, <2>3 DEF AssignSlots
  <2>5. DOMAIN given = InstanceIds(info)
    BY <2>3 DEF SlotsFrom
  <2>6. ASSUME NEW m \in InstanceIds(info)
        PROVE  x \in DOMAIN classId2fieldsInfo /\ \E j \in Places(x) : NumberAt(x, j) = m /\ m > 0
    <3>1. PICK j \in DOMAIN info : m = info[j][2] /\ info[j][2] > 0
      BY DEF InstanceIds
    <3>2. x \in DOMAIN classId2fieldsInfo /\ info = classId2fieldsInfo[x]
      BY <2>2, <3>1 DEF Get
    <3>3. DOMAIN info = 1 .. Len(info)
      BY <3>2 DEF NumbersRight, InfosRight, InfosAreSequences, IsSequence
    <3> QED BY <3>1, <3>2, <3>3 DEF Places, NumberAt
  <2>7. ASSUME NEW y \in DOMAIN classId2fieldsInfo, NEW j \in Places(y), NumberAt(y, j) < 0
        PROVE  -NumberAt(y, j) \notin InstanceIds(info)
    <3> SUFFICES ASSUME -NumberAt(y, j) \in InstanceIds(info) PROVE FALSE
      OBVIOUS
    <3>1. PICK i \in Places(x) : NumberAt(x, i) = -NumberAt(y, j) /\ x \in DOMAIN classId2fieldsInfo
      BY <2>6
    <3>2. NumberAt(y, j) \in Int /\ NumberAt(x, i) \in Int
      BY <3>1 DEF NumbersRight, InfosRight, EntryRight
    <3>3. Magnitude(NumberAt(x, i)) = Magnitude(NumberAt(y, j))
      BY <2>7, <3>1, <3>2 DEF Magnitude
    <3>4. x = y /\ i = j
      BY <3>1, <3>3 DEF NumbersRight, InfosRight, EntriesApart
    <3> QED BY <2>7, <3>1, <3>2, <3>4
  <2>8. \A y \in DOMAIN classId2fieldsInfo : \A j \in Places(y) : NumberAt(y, j) < 0 =>
          /\ -NumberAt(y, j) \in DOMAIN fieldId2slot'
          /\ fieldId2slot'[-NumberAt(y, j)] = fieldId2slot[-NumberAt(y, j)]
    BY <2>4, <2>5, <2>7 DEF NumbersRight, StaticsRight
  <2>9. \A y, j : Places(y)' = Places(y) /\ NumberAt(y, j)' = NumberAt(y, j)
    BY <1>1 DEF recorded, Places, NumberAt
  <2>10. StaticsRight'
    BY <1>1, <2>8, <2>9 DEF recorded, NumbersRight, StaticsRight
  <2> QED BY <1>1, <1>2, <2>10, NumbersKeep DEF rewriter, recorded
<1> QED BY <1>3, <1>4

-----------------------------------------------------------------------------
(* Slots: the recursion.  The frame on top of another one is what that one *)
(* waits for: the superclass, a class without a number, the record of a    *)
(* made up number.  What returns to it, is what it needs.                  *)

In(f, s) == \E i \in 1 .. Len(s) : s[i] = f
InStack(f) == \E t \in Threads : In(f, stack[t])

\* Slots are assigned from the superclass on.
Rank(c) == c \in DOMAIN classTag2slots \cup {Object}
Size(c) == IF c = Object THEN 0 ELSE classTag2slots[c]

FrameRight(f) ==
  /\ Filling(f) =>
       /\ f.class \in DOMAIN className2classId /\ Numbering(f)
       /\ \A d \in DOMAIN className2classId : className2classId[d] = f.superSlots => d = f.class
  /\ f.op = "slots" /\ f.at = "assign" =>
       Super[f.class] # NoClass /\ f.class \in DOMAIN className2classId
Under(f, g) ==
  /\ Filling(f) => g.op = "send"
  /\ f.op = "slots" /\ f.at = "assign" => g.op = "slots" /\ g.class = Super[f.class]
  /\ f.op = "slots" /\ f.at = "find" => g.op = "without" /\ g.class = f.class
Ready(f) ==
  /\ f.op = "slots" /\ f.at = "find" => f.class \in DOMAIN className2classId
  /\ f.op = "slots" /\ f.at = "assign" => f.superSlots = Size(Super[f.class]) /\ Rank(Super[f.class])
Chain(s) == \A i \in 1 .. Len(s) : FrameRight(s[i]) /\ (i # Len(s) => Under(s[i], s[i + 1]))
Shape(s) == Chain(s) /\ (s # <<>> => Ready(Top(s)))

\* Who is not the scanner comes after it.
Plain(s) ==
  \A i \in 1 .. Len(s) : s[i].op = "instrument" \/ (s[i].op = "slots" /\ Untold \subseteq instanced)
StacksRight ==
  /\ \A t \in Threads : Shape(stack[t])
  /\ \A t \in Threads \ Scanners : Plain(stack[t])

\* The class has its fields recorded but for those that are left.
HasEntry(x, k) ==
  \E j \in Places(x) : NameAt(x, j) = k[2] /\ (NumberAt(x, j) < 0 <=> k \in Static)
Partial(c, rest) ==
  LET x == className2classId[c]
  IN  /\ \A n \in NamesOf(c) : \/ HasEntry(x, <<c, n>>)
                               \/ \E i \in 1 .. Len(rest) : rest[i] = n
      /\ \A i \in 1 .. Len(rest) : rest[i] \in NamesOf(c)
Completes(f, c) == Filling(f) /\ f.class = c /\ f.superSlots = className2classId[c]
FillingRight ==
  /\ \A f : InStack(f) /\ Completes(f, f.class) => Partial(f.class, f.rest)
  /\ \A c \in Untold \cap DOMAIN className2classId :
       Partial(c, <<>>) \/ \E f : InStack(f) /\ Completes(f, c)

\* The slots of a class follow those of its superclass.  There may be more of them than
\* the class declares fields: code that names the class for an inherited field adds one.
SlotsOf(c) ==
  /\ \A n \in NamesOf(c) : <<c, n>> \notin Static =>
       /\ fieldIdTables[<<c, n>>] \in DOMAIN fieldId2slot
       /\ fieldId2slot[fieldIdTables[<<c, n>>]] \in Size(Super[c]) .. Size(c) - 1
  /\ \A n, m \in NamesOf(c) : <<c, n>> \notin Static /\ <<c, m>> \notin Static
       /\ fieldId2slot[fieldIdTables[<<c, n>>]] = fieldId2slot[fieldIdTables[<<c, m>>]] => n = m
TagRight(c) ==
  /\ Known(c) /\ c # Object /\ c \in DOMAIN className2classId /\ Rank(Super[c])
  /\ Size(c) \in Nat /\ Size(Super[c]) \in Nat /\ Size(Super[c]) + Cardinality(Own(c)) <= Size(c)
  /\ c \notin Untold => SlotsOf(c)
IdRight(x) ==
  \E c \in DOMAIN classTag2slots : className2classId[c] = x /\ classId2slots[x] = classTag2slots[c]
InstancedRight(c) == Rank(c) /\ c \in DOMAIN className2classId /\ (c \in Untold => Partial(c, <<>>))
SlotsInv ==
  /\ \A c \in DOMAIN classTag2slots : TagRight(c)
  /\ \A x \in DOMAIN classId2slots : IdRight(x)
  /\ \A c \in instanced : InstancedRight(c)

-----------------------------------------------------------------------------
(* Slots: shapes of stacks.                                                *)

\* n is s with f on top instead, and the calls r that f makes.
Spliced(n, s, f, r) ==
  /\ IsSequence(n) /\ Len(s) \in Nat \ {0} /\ Len(r) \in Nat /\ Len(n) = Len(s) + Len(r)
  /\ \A i \in 1 .. Len(s) - 1 : n[i] = s[i]
  /\ n[Len(s)] = f /\ \A i \in 1 .. Len(r) : n[Len(s) + i] = r[i]

LEMMA Splicing ==
  ASSUME NEW s, IsSequence(s), s # <<>>, NEW f, NEW r, IsSequence(r),
         NEW n, n = Append(SubSeq(s, 1, Len(s) - 1), f) \o r
  PROVE  Spliced(n, s, f, r)
<1> DEFINE p == SubSeq(s, 1, Len(s) - 1)
           a == Append(p, f)
<1>1. IsSequence(p) /\ Len(s) \in Nat \ {0} /\ Len(p) = Len(s) - 1
      /\ \A i \in 1 .. Len(s) - 1 : p[i] = s[i]
  BY Popping
<1> HIDE DEF p
<1>2. /\ IsSequence(a) /\ Len(a) = Len(p) + 1 /\ \A i \in 1 .. Len(p) : a[i] = p[i]
      /\ a[Len(p) + 1] = f
  BY <1>1, Appending
<1> HIDE DEF a
<1>3. /\ IsSequence(a \o r) /\ Len(r) \in Nat /\ Len(a \o r) = Len(a) + Len(r)
      /\ \A i \in 1 .. Len(a) : (a \o r)[i] = a[i]
      /\ \A i \in 1 .. Len(r) : (a \o r)[Len(a) + i] = r[i]
  <2>1. \A q : IsSequence(q) =>
          /\ IsSequence(q \o r) /\ Len(r) \in Nat /\ Len(q \o r) = Len(q) + Len(r)
          /\ \A i \in 1 .. Len(q) : (q \o r)[i] = q[i]
          /\ \A i \in 1 .. Len(r) : (q \o r)[Len(q) + i] = r[i]
    <3> HIDE <1>1, <1>2
    <3> QED BY Joining
  <2> QED BY <1>2, <2>1
<1>4. n = a \o r /\ Len(a) = Len(s)
  BY <1>1, <1>2 DEF a, p
<1>5. \A i \in 1 .. Len(s) - 1 : n[i] = s[i]
  <2>1. \A i \in 1 .. Len(s) - 1 : i \in 1 .. Len(p) /\ i \in 1 .. Len(a)
    BY <1>1, <1>4
  <2> QED BY <1>1, <1>2, <1>3, <1>4, <2>1
<1>6. n[Len(s)] = f
  <2>1. Len(s) = Len(p) + 1 /\ Len(s) \in 1 .. Len(a)
    BY <1>1, <1>4
  <2> QED BY <1>2, <1>3, <1>4, <2>1
<1> QED BY <1>1, <1>3, <1>4, <1>5, <1>6 DEF Spliced

\* The tables of the agent grow.
AgentGrows ==
  /\ \A c \in DOMAIN className2classId :
       c \in DOMAIN className2classId' /\ className2classId'[c] = className2classId[c]
  /\ \A c \in DOMAIN className2classId' :
       \/ c \in DOMAIN className2classId
       \/ className2classId'[c] = nextSyntheticId
       \/ className2classId'[c] \in Nat /\ className2classId'[c] < SYNTHETIC_ID_BASE
  /\ nextSyntheticId \in Nat /\ nextSyntheticId' \in Nat /\ nextSyntheticId' >= nextSyntheticId
  /\ \A c \in DOMAIN classTag2slots :
       c \in DOMAIN classTag2slots' /\ classTag2slots'[c] = classTag2slots[c]

LEMMA FramesStay ==
  ASSUME AgentGrows
  PROVE  \A f : (FrameRight(f) => FrameRight(f)') /\ (Ready(f) => Ready(f)')
<1>1. ASSUME NEW f, FrameRight(f)
      PROVE  FrameRight(f)'
  <2>1. ASSUME Filling(f)
        PROVE  /\ f.class \in DOMAIN className2classId' /\ Numbering(f)'
               /\ \A d \in DOMAIN className2classId' : className2classId'[d] = f.superSlots => d = f.class
    <3>1. /\ f.class \in DOMAIN className2classId
          /\ f.superSlots \in Nat /\ f.superSlots >= SYNTHETIC_ID_BASE /\ f.superSlots < nextSyntheticId
      BY <1>1, <2>1 DEF FrameRight, Numbering
    <3>2. Numbering(f)'
      BY <3>1 DEF AgentGrows, Numbering
    <3>3. ASSUME NEW d \in DOMAIN className2classId', className2classId'[d] = f.superSlots
          PROVE  d = f.class
      <4>1. d \in DOMAIN className2classId
        BY <3>1, <3>3, SlotsAssumption DEF AgentGrows
      <4> QED BY <1>1, <2>1, <3>3, <4>1 DEF AgentGrows, FrameRight
    <3> QED BY <3>1, <3>2, <3>3 DEF AgentGrows
  <2> QED BY <1>1, <2>1 DEF FrameRight, Filling, AgentGrows
<1>2. ASSUME NEW f, Ready(f)
      PROVE  Ready(f)'
  BY <1>2 DEF Ready, AgentGrows, Rank, Size
<1> QED BY <1>1, <1>2

\* A frame goes on, and makes calls.
LEMMA SplicedShape ==
  ASSUME AgentGrows, NEW s, Chain(s), NEW f, FrameRight(f)', f.op = Top(s).op, f.class = Top(s).class,
         NEW r, IsSequence(r), Shape(r)', r = <<>> => Ready(f)', r # <<>> => Under(f, r[1]),
         NEW n, Spliced(n, s, f, r)
  PROVE  Shape(n)'
<1>0. PICK m, k : m = Len(s) /\ k = Len(r)
  OBVIOUS
<1>1. /\ IsSequence(n) /\ m \in Nat \ {0} /\ k \in Nat /\ Len(n) = m + k
      /\ \A i \in 1 .. m - 1 : n[i] = s[i]
      /\ n[m] = f /\ \A i \in 1 .. k : n[m + i] = r[i]
  BY <1>0 DEF Spliced
<1>2. r = <<>> <=> k = 0
  BY <1>0, EmptyIsZero
<1>3. ASSUME NEW i \in 1 .. Len(n)
      PROVE  \/ i \in 1 .. m - 1
             \/ i = m
             \/ i - m \in 1 .. k /\ n[i] = r[i - m]
  <2>1. i \in 1 .. m + k
    BY <1>1
  <2>2. i \in 1 .. m - 1 \/ i = m \/ (i - m \in 1 .. k /\ m + (i - m) = i)
    <3> HIDE <1>0
    <3> QED BY <1>1, <2>1
  <2> QED BY <1>1, <2>2
<1>4. ASSUME NEW i \in 1 .. Len(n)
      PROVE  FrameRight(n[i])' /\ (i # Len(n) => Under(n[i], n[i + 1]))
  <2>1. CASE i \in 1 .. m - 1
    <3>1. /\ i \in 1 .. m /\ i # m /\ i # Len(n) /\ n[i] = s[i]
          /\ (i + 1 \in 1 .. m - 1 \/ i + 1 = m)
      BY <1>1, <2>1
    <3>2. FrameRight(s[i]) /\ Under(s[i], s[i + 1])
      BY <1>0, <3>1 DEF Chain
    <3>3. n[i + 1].op = s[i + 1].op /\ n[i + 1].class = s[i + 1].class
      BY <1>0, <1>1, <3>1 DEF Top
    <3> QED BY <3>1, <3>2, <3>3, FramesStay DEF Under
  <2>2. CASE i = m
    <3>1. CASE r = <<>>
      BY <1>1, <1>2, <2>2, <3>1
    <3>2. CASE r # <<>>
      <4>1. 1 \in 1 .. k /\ i # Len(n)
        BY <1>1, <1>2, <2>2, <3>2
      <4>2. n[i + 1] = r[1]
        BY <1>1, <2>2, <4>1
      <4> QED BY <1>1, <2>2, <3>2, <4>1, <4>2
    <3> QED BY <3>1, <3>2
  <2>3. CASE i - m \in 1 .. k /\ n[i] = r[i - m]
    <3>1. PICK j \in 1 .. k : j = i - m
      BY <2>3
    <3>2. (i = Len(n) <=> j = k) /\ i = m + j
      BY <1>1, <3>1
    <3>3. i # Len(n) => n[i + 1] = r[j + 1]
      <4> SUFFICES ASSUME i # Len(n) PROVE n[i + 1] = r[j + 1]
        OBVIOUS
      <4>1. j + 1 \in 1 .. k /\ m + (j + 1) = i + 1
        <5> HIDE <1>0
        <5> QED BY <1>1, <3>1, <3>2
      <4> QED BY <1>1, <4>1
    <3> QED BY <1>0, <2>3, <3>1, <3>2, <3>3 DEF Shape, Chain
  <2> QED BY <1>3, <2>1, <2>2, <2>3
<1>5. Ready(Top(n))'
  <2>1. CASE r = <<>>
    BY <1>1, <1>2, <2>1 DEF Top
  <2>2. CASE r # <<>>
    <3>1. k \in 1 .. k /\ Top(n) = r[k]
      BY <1>1, <1>2, <2>2 DEF Top
    <3> QED BY <1>0, <2>2, <3>1 DEF Shape, Top
  <2> QED BY <2>1, <2>2
<1> QED BY <1>4, <1>5 DEF Shape, Chain, Top

LEMMA SplicedFrames ==
  ASSUME NEW s, NEW f, NEW r, NEW n, Spliced(n, s, f, r)
  PROVE  \A i \in 1 .. Len(n) :
           \/ i \in 1 .. Len(s) - 1 /\ n[i] = s[i]
           \/ i = Len(s) /\ n[i] = f
           \/ \E j \in 1 .. Len(r) : i = Len(s) + j /\ n[i] = r[j]
<1> SUFFICES ASSUME NEW i \in 1 .. Len(n)
             PROVE  \/ i \in 1 .. Len(s) - 1 /\ n[i] = s[i]
                    \/ i = Len(s) /\ n[i] = f
                    \/ \E j \in 1 .. Len(r) : i = Len(s) + j /\ n[i] = r[j]
  OBVIOUS
<1>1. i \in 1 .. Len(s) + Len(r) /\ Len(s) \in Nat \ {0} /\ Len(r) \in Nat
  BY DEF Spliced
<1>2. i \in 1 .. Len(s) - 1 \/ i = Len(s) \/ (i - Len(s) \in 1 .. Len(r) /\ i = Len(s) + (i - Len(s)))
  BY <1>1
<1> QED BY <1>2 DEF Spliced

\* Frames that have just been called wait for nothing yet.
LEMMA FreshShape ==
  ASSUME NEW r, IsSequence(r), \A i \in 1 .. Len(r) : r[i].at = "lookup"
  PROVE  Shape(r) /\ Shape(r)'
<1>1. \A i \in 1 .. Len(r) : FrameRight(r[i]) /\ FrameRight(r[i])' /\ Ready(r[i]) /\ Ready(r[i])'
                               /\ \A g : Under(r[i], g)
  BY DEF FrameRight, Filling, Ready, Under
<1>2. r # <<>> => Len(r) \in 1 .. Len(r)
  BY EmptyIsZero
<1> QED BY <1>1, <1>2 DEF Shape, Chain, Top

LEMMA TagPathFresh ==
  ASSUME NEW c
  PROVE  LET r == <<Frame("slots", c)>> \o TagCalls(c)
         IN  /\ IsSequence(r) /\ r # <<>> /\ r[1] = Frame("slots", c)
             /\ \A i \in 1 .. Len(r) : r[i].op = "slots" /\ r[i].at = "lookup"
<1> DEFINE f == Frame("slots", c)
           g == Frame("slots", Class)
           r == <<f>> \o TagCalls(c)
<1>1. f.op = "slots" /\ f.at = "lookup" /\ g.op = "slots" /\ g.at = "lookup"
  BY FramesMade
<1>2. TagCalls(c) \in {<<>>, <<g>>, <<g, g>>}
  BY DEF TagCalls
<1> HIDE DEF f, g
<1>3. <<g>> \in Seq({f, g}) /\ <<g, g>> \in Seq({f, g}) /\ <<>> \in Seq({f, g}) /\ <<f>> \in Seq({f, g})
  OBVIOUS
<1>4. PICK w \in Seq({f, g}) : w = TagCalls(c)
  BY <1>2, <1>3
<1>5. <<f>> \o w \in Seq({f, g}) /\ Len(<<f>> \o w) \in Nat /\ (<<f>> \o w)[1] = f /\ Len(<<f>> \o w) = 1 + Len(w)
  OBVIOUS
<1>6. r \in Seq({f, g}) /\ r # <<>> /\ r[1] = f
  BY <1>4, <1>5
<1> HIDE DEF r
<1>7. \A i \in 1 .. Len(r) : r[i] \in {f, g}
  BY <1>6
<1> QED BY <1>1, <1>6, <1>7 DEF IsSequence, r, f

\* What is below the top of a stack.
Below(p, s) ==
  /\ IsSequence(p) /\ Chain(p) /\ (p # <<>> => Len(p) \in 1 .. Len(p))
  /\ Len(p) = Len(s) - 1 /\ Len(s) \in Nat /\ \A i \in 1 .. Len(p) : p[i] = s[i]
  /\ Len(s) \in 1 .. Len(s) /\ FrameRight(Top(s))
  /\ p # <<>> => /\ Recursing(Top(p)) /\ IsFrame(Top(p)) /\ FrameRight(Top(p))
                 /\ Under(Top(p), Top(s))
  /\ \A g : In(g, s) <=> g = Top(s) \/ In(g, p)
  /\ Top(s).op # "send" => \A g : In(g, p) => ~Filling(g)

LEMMA Lower ==
  ASSUME NEW s, Good(s), Chain(s), s # <<>>, NEW p, p = SubSeq(s, 1, Len(s) - 1)
  PROVE  Below(p, s)
<1>1. PICK m, k : m = Len(s) /\ k = Len(p)
  OBVIOUS
<1>2. /\ IsSequence(s) /\ IsSequence(p) /\ m \in Nat \ {0} /\ k = m - 1
      /\ \A i \in 1 .. k : p[i] = s[i]
  BY <1>1, Popping DEF Good
<1>3. p # <<>> => k \in 1 .. k
  BY <1>1, <1>2, EmptyIsZero
<1>4. \A i \in 1 .. k : /\ i \in 1 .. m /\ i # m /\ i + 1 \in 1 .. m /\ (i # k => i + 1 \in 1 .. k)
                        /\ i = k => i + 1 = m
  <2> HIDE <1>1
  <2> QED BY <1>2
<1>5. \A i \in 1 .. k : FrameRight(p[i]) /\ Under(p[i], s[i + 1]) /\ Recursing(p[i]) /\ IsFrame(p[i])
  BY <1>1, <1>2, <1>4 DEF Good, GoodFrame, Chain
<1>6. Chain(p)
  BY <1>1, <1>2, <1>4, <1>5 DEF Chain
<1>7. m \in 1 .. m /\ FrameRight(Top(s))
  BY <1>1, <1>2 DEF Chain, Top
<1>8. p # <<>> => /\ Recursing(Top(p)) /\ IsFrame(Top(p)) /\ FrameRight(Top(p))
                  /\ Under(Top(p), Top(s))
  BY <1>1, <1>3, <1>4, <1>5 DEF Top
<1>9. \A g : In(g, s) <=> g = Top(s) \/ In(g, p)
  <2>1. \A i \in 1 .. m : i = m \/ i \in 1 .. k
    BY <1>2
  <2>2. ASSUME NEW g, In(g, s) PROVE g = Top(s) \/ In(g, p)
    BY <1>1, <1>2, <2>1, <2>2 DEF In, Top
  <2>3. ASSUME NEW g, g = Top(s) \/ In(g, p) PROVE In(g, s)
    BY <1>1, <1>2, <1>4, <1>7, <2>3 DEF In, Top
  <2> QED BY <2>2, <2>3
<1>10. Top(s).op # "send" => \A i \in 1 .. k : ~Filling(p[i])
  <2> SUFFICES ASSUME NEW i \in 1 .. k, Filling(p[i]), Top(s).op # "send" PROVE FALSE
    OBVIOUS
  <2>1. s[i + 1].op = "send"
    BY <1>5 DEF Under
  <2>2. ~Recursing(s[i + 1])
    BY <2>1 DEF Recursing
  <2>3. i + 1 = m
    BY <1>1, <1>4, <2>2 DEF Good
  <2> QED BY <1>1, <2>1, <2>3 DEF Top
<1>11. Top(s).op # "send" => \A g : In(g, p) => ~Filling(g)
  BY <1>1, <1>10 DEF In
<1> QED BY <1>1, <1>2, <1>3, <1>6, <1>7, <1>8, <1>9, <1>11 DEF Below

\* One stack changes.
LEMMA StackMoves ==
  ASSUME TInv, StacksRight, AgentGrows, instanced \subseteq instanced',
         NEW t \in Threads, NEW s, Goes(t, s), Shape(s)', t \notin Scanners => Plain(s)'
  PROVE  StacksRight'
<1>1. stack'[t] = s /\ \A u \in Threads \ {t} : stack'[u] = stack[u]
  BY DEF TInv, IInv, Goes
<1>2. \A q : Chain(q) => Chain(q)'
  BY FramesStay DEF Chain
<1>3. \A q : Shape(q) => Shape(q)'
  BY <1>2, FramesStay DEF Shape, Top
<1>4. \A q : Plain(q) => Plain(q)'
  BY DEF Plain
<1>5. \A u \in Threads : Shape(stack[u])'
  BY <1>1, <1>3 DEF StacksRight
<1>6. \A u \in Threads \ Scanners : Plain(stack[u])'
  BY <1>1, <1>4 DEF StacksRight
<1> QED BY <1>5, <1>6 DEF StacksRight

\* The topmost call goes on, and makes calls.
LEMMA CallsMove ==
  ASSUME TInv, StacksRight, AgentGrows, instanced \subseteq instanced',
         NEW t \in Threads, stack[t] # <<>>, Recursing(TopFrame(t)),
         NEW f, f.op = TopFrame(t).op, f.class = TopFrame(t).class, FrameRight(f)',
         NEW r, IsSequence(r), \A i \in 1 .. Len(r) : r[i].at = "lookup",
         r = <<>> => Ready(f)', r # <<>> => Under(f, r[1]),
         t \notin Scanners => \A i \in 1 .. Len(r) : r[i].op = "slots",
         Continue(t, f, r)
  PROVE  /\ StacksRight'
         /\ \A g : Filling(g) => /\ In(g, stack[t]) <=> g = TopFrame(t)
                                 /\ In(g, stack'[t]) <=> g = f
<1>1. PICK s, p, n : s = stack[t] /\ p = SubSeq(s, 1, Len(s) - 1) /\ n = Append(p, f) \o r
  OBVIOUS
<1>2. Good(s) /\ s # <<>> /\ Top(s) = TopFrame(t) /\ IsSequence(s) /\ Shape(s) /\ Chain(s)
  BY <1>1 DEF TInv, IInv, Good, StacksRight, Shape, Top, TopFrame
<1>3. Goes(t, n) /\ stack'[t] = n
  BY <1>1 DEF Continue, Popped, Goes, TInv, IInv
<1>4. Spliced(n, s, f, r)
  <2> HIDE <1>3
  <2> QED BY <1>1, <1>2, Splicing
<1>5. Shape(n)'
  <2>1. Shape(r)'
    BY FreshShape
  <2> HIDE <1>1, <1>3
  <2> QED BY <1>2, <1>4, <2>1, SplicedShape
<1>6. \A i \in 1 .. Len(n) :
        \/ i \in 1 .. Len(s) - 1 /\ n[i] = s[i]
        \/ i = Len(s) /\ n[i] = f
        \/ \E j \in 1 .. Len(r) : i = Len(s) + j /\ n[i] = r[j]
  BY <1>4, SplicedFrames
<1>7. /\ \A i \in 1 .. Len(p) : p[i] = s[i] /\ i \in 1 .. Len(s) - 1
      /\ 1 .. Len(p) = 1 .. Len(s) - 1 /\ Len(s) \in 1 .. Len(s) /\ Len(s) \in Nat
      /\ \A g : In(g, s) <=> g = Top(s) \/ In(g, p)
      /\ \A g : In(g, p) => ~Filling(g)
  <2>1. Below(p, s)
    <3> HIDE <1>3, <1>4
    <3> QED BY <1>1, <1>2, Lower
  <2> HIDE <1>1, <1>2, <1>3, <1>4
  <2>2. Top(s).op # "send"
    BY <1>2 DEF Recursing
  <2> QED BY <2>1, <2>2 DEF Below
<1>8. t \notin Scanners => Plain(n)'
  <2> SUFFICES ASSUME t \notin Scanners, NEW i \in 1 .. Len(n)
               PROVE  n[i].op = "instrument" \/ (n[i].op = "slots" /\ Untold \subseteq instanced)
    BY DEF Plain
  <2>1. Plain(s)
    BY <1>1 DEF StacksRight
  <2>2. Top(s).op = "slots" /\ Untold \subseteq instanced
    <3>1. Top(s).op \in {"slots", "without"}
      BY <1>2 DEF Recursing
    <3> QED BY <1>7, <2>1, <3>1 DEF Plain, Top
  <2>3. f.op = Top(s).op
    BY <1>2
  <2> HIDE <1>1, <1>2, <1>3, <1>4, <1>5
  <2>4. CASE i \in 1 .. Len(s) - 1 /\ n[i] = s[i]
    <3>1. i \in 1 .. Len(s)
      BY <1>7, <2>4
    <3> QED BY <2>1, <2>4, <3>1 DEF Plain
  <2>5. CASE i = Len(s) /\ n[i] = f
    BY <2>2, <2>3, <2>5
  <2>6. CASE \E j \in 1 .. Len(r) : i = Len(s) + j /\ n[i] = r[j]
    BY <2>2, <2>6
  <2> QED BY <1>6, <2>4, <2>5, <2>6
<1>9. \A g : Filling(g) => /\ In(g, s) <=> g = Top(s)
                           /\ In(g, n) <=> g = f
  <2> SUFFICES ASSUME NEW g, Filling(g)
               PROVE  (In(g, s) <=> g = Top(s)) /\ (In(g, n) <=> g = f)
    OBVIOUS
  <2>1. In(g, s) <=> g = Top(s)
    BY <1>7
  <2>2. ASSUME In(g, n) PROVE g = f
    <3>1. PICK i \in 1 .. Len(n) : n[i] = g
      BY <2>2 DEF In
    <3>2. ~(i \in 1 .. Len(s) - 1 /\ n[i] = s[i])
      <4> HIDE <1>1, <1>2, <1>3, <1>4, <1>5
      <4> QED BY <1>7, <3>1 DEF In
    <3>3. \A j \in 1 .. Len(r) : r[j] # g
      BY DEF Filling
    <3> QED BY <1>6, <3>1, <3>2, <3>3
  <2>3. In(f, n)
    <3>1. Len(s) \in 1 .. Len(n) /\ n[Len(s)] = f
      <4> HIDE <1>1, <1>2, <1>3, <1>5
      <4> QED BY <1>4 DEF Spliced
    <3> QED BY <3>1 DEF In
  <2> QED BY <2>1, <2>2, <2>3
<1> QED BY <1>1, <1>2, <1>3, <1>5, <1>8, <1>9, StackMoves

\* The topmost call returns to the one below it.
LEMMA ReturnMoves ==
  ASSUME TInv, StacksRight, AgentGrows, NEW t \in Threads, stack[t] # <<>>, TopFrame(t).op = "slots",
         NEW c, c = TopFrame(t).class, NEW v, v = Size(c)', Rank(c)', Return(t, v)
  PROVE  /\ StacksRight'
         /\ \A g : Filling(g) => ~In(g, stack[t]) /\ ~In(g, stack'[t])
<1>1. PICK s, p : s = stack[t] /\ p = SubSeq(s, 1, Len(s) - 1)
  OBVIOUS
<1>2. Good(s) /\ s # <<>> /\ Top(s) = TopFrame(t) /\ Chain(s) /\ (t \notin Scanners => Plain(s))
  BY <1>1 DEF TInv, IInv, Good, StacksRight, Shape, Top, TopFrame
<1>3. /\ instanced \subseteq instanced'
      /\ p = <<>> => Goes(t, p) /\ stack'[t] = p
      /\ p # <<>> => /\ Goes(t, [p EXCEPT ![Len(p)].superSlots = v])
                     /\ stack'[t] = [p EXCEPT ![Len(p)].superSlots = v]
  BY <1>1 DEF Return, Popped, Goes, TInv, IInv
<1>4. Below(p, s)
  <2> HIDE <1>3
  <2> QED BY <1>1, <1>2, Lower
<1>5. /\ \A g : Filling(g) => ~In(g, s) /\ ~In(g, p)
      /\ t \notin Scanners => \A i \in 1 .. Len(p) : p[i].op = "instrument" \/ (p[i].op = "slots" /\ Untold \subseteq instanced)
  <2> HIDE <1>1, <1>3
  <2>1. Top(s).op = "slots"
    BY <1>2
  <2>2. \A i \in 1 .. Len(p) : i \in 1 .. Len(s)
    BY <1>4 DEF Below
  <2> QED BY <1>2, <1>4, <2>1, <2>2 DEF Below, Filling, Plain
<1>6. CASE p = <<>>
  <2>1. Shape(p)' /\ Plain(p)' /\ \A g : ~In(g, p)
    <3>1. IsSequence(p) /\ 1 .. Len(p) = {}
      BY <1>6, EmptyGood DEF Good
    <3> QED BY <3>1, FreshShape DEF Plain, In
  <2> QED BY <1>1, <1>3, <1>5, <1>6, <2>1, StackMoves
<1>7. CASE p # <<>>
  <2>1. PICK h, g, n : h = Top(p) /\ g = [h EXCEPT !.superSlots = v] /\ n = [p EXCEPT ![Len(p)].superSlots = v]
    OBVIOUS
  <2>2. IsFrame(h) /\ Recursing(h) /\ FrameRight(h) /\ Under(h, TopFrame(t)) /\ ~Filling(h)
      /\ (h.op = "slots" /\ h.at = "assign" => Super[h.class] = c) /\ ~(h.op = "slots" /\ h.at = "find")
    <3> HIDE <1>1, <1>3
    <3>1. In(h, p)
      BY <1>4, <1>7, <2>1 DEF Below, In, Top
    <3>2. IsFrame(h) /\ Recursing(h) /\ FrameRight(h) /\ Under(h, TopFrame(t)) /\ ~Filling(h)
      BY <1>2, <1>4, <1>5, <1>7, <2>1, <3>1 DEF Below
    <3> QED BY <3>2 DEF Under
  <2>3. IsFrame(g) /\ g.op = h.op /\ g.class = h.class /\ g.at = h.at /\ g.superSlots = v
    <3>1. PICK S : h \in [Parts -> S]
      BY <2>2 DEF IsFrame
    <3>2. g.superSlots = v
      BY <2>1, <3>1 DEF Parts
    <3>3. IsFrame(h) /\ g = [h EXCEPT !.superSlots = v]
      BY <2>1, <2>2
    <3> HIDE <1>1, <1>2, <1>3, <1>4, <1>5, <1>7, <2>1, <2>2
    <3>4. IsFrame(g) /\ g.op = h.op /\ g.class = h.class /\ g.at = h.at
      <4>1. \A x, y : IsFrame(x) => /\ IsFrame([x EXCEPT !.superSlots = y])
                                    /\ [x EXCEPT !.superSlots = y].op = x.op
                                    /\ [x EXCEPT !.superSlots = y].class = x.class
                                    /\ [x EXCEPT !.superSlots = y].at = x.at
        BY FrameKeeps
      <4> QED BY <3>3, <4>1
    <3> QED BY <3>2, <3>4
  <2>4. Spliced(n, p, g, <<>>)
    <3> HIDE <1>1, <1>3
    <3>1. IsSequence(p) /\ Len(p) \in Nat \ {0} /\ Len(p) \in 1 .. Len(p)
      BY <1>4, <1>7, EmptyIsZero DEF Below
    <3>2. PICK S : p \in Seq(S)
      BY <3>1 DEF IsSequence
    <3>3. p \in Seq(S \cup {g})
      BY <3>2
    <3>4. n = [p EXCEPT ![Len(p)] = g]
      BY <2>1 DEF Top
    <3>5. n \in Seq(S \cup {g}) /\ Len(n) = Len(p) /\ \A i \in 1 .. Len(p) : n[i] = IF i = Len(p) THEN g ELSE p[i]
      BY <3>1, <3>3, <3>4
    <3> QED BY <3>1, <3>5 DEF Spliced, IsSequence
  <2> HIDE <1>1, <1>3, <2>1
  <2>5. /\ Chain(p) /\ FrameRight(g)' /\ g.op = Top(p).op /\ g.class = Top(p).class
        /\ Ready(g)' /\ ~Filling(g)
    <3>1. h = Top(p) /\ Chain(p)
      BY <1>4, <2>1 DEF Below
    <3>2. ~Filling(g)
      BY <2>2, <2>3 DEF Filling
    <3>3. FrameRight(g)'
      <4>1. FrameRight(h)'
        BY <2>2, FramesStay
      <4> QED BY <2>3, <3>2, <4>1 DEF FrameRight, Filling
    <3>4. Ready(g)'
      BY <2>2, <2>3 DEF Ready
    <3> QED BY <2>3, <3>1, <3>2, <3>3, <3>4
  <2>6. IsSequence(<<>>) /\ Shape(<<>>)' /\ 1 .. Len(<<>>) = {}
    <3>1. IsSequence(<<>>) /\ 1 .. Len(<<>>) = {}
      BY EmptyGood DEF Good
    <3> QED BY <3>1, FreshShape
  <2>7. Shape(n)'
    BY <2>4, <2>5, <2>6, SplicedShape
  <2>8. \A i \in 1 .. Len(n) : (i \in 1 .. Len(p) /\ n[i] = p[i]) \/ (i = Len(p) /\ n[i] = g)
    <3>1. \A i \in 1 .. Len(p) - 1 : i \in 1 .. Len(p)
      BY <2>4 DEF Spliced
    <3> QED BY <2>4, <2>6, <3>1, SplicedFrames
  <2>9. t \notin Scanners => Plain(n)'
    <3>1. Len(p) \in 1 .. Len(p) /\ g.op = p[Len(p)].op
      BY <1>4, <1>7, <2>5 DEF Below, Top
    <3> QED BY <1>3, <1>5, <2>8, <3>1 DEF Plain
  <2>10. \A w : Filling(w) => ~In(w, n)
    BY <1>5, <2>5, <2>8 DEF In
  <2>11. Goes(t, n) /\ stack'[t] = n /\ stack[t] = s
    BY <1>1, <1>3, <1>7, <2>1
  <2> QED BY <1>3, <1>5, <2>7, <2>9, <2>10, <2>11, StackMoves
<1> QED BY <1>6, <1>7

\* The topmost call is over.
LEMMA PopMoves ==
  ASSUME TInv, StacksRight, AgentGrows, UNCHANGED instanced, NEW t \in Threads, stack[t] # <<>>,
         TopFrame(t).op = "send" \/ (TopFrame(t).op = "without" /\ TopFrame(t).class \in DOMAIN className2classId),
         Goes(t, Popped(t))
  PROVE  /\ StacksRight'
         /\ \A g : In(g, stack[t]) <=> g = TopFrame(t) \/ In(g, stack'[t])
         /\ TopFrame(t).op # "send" => \A g : Filling(g) => ~In(g, stack'[t])
<1>1. PICK s, p : s = stack[t] /\ p = SubSeq(s, 1, Len(s) - 1)
  OBVIOUS
<1>2. Good(s) /\ s # <<>> /\ Top(s) = TopFrame(t) /\ Chain(s) /\ (t \notin Scanners => Plain(s))
  BY <1>1 DEF TInv, IInv, Good, StacksRight, Shape, Top, TopFrame
<1>3. Goes(t, p) /\ stack'[t] = p
  BY <1>1 DEF Popped, Goes, TInv, IInv
<1>4. Below(p, s)
  <2> HIDE <1>3
  <2> QED BY <1>1, <1>2, Lower
<1>5. Shape(p)'
  <2>1. \A f, g : Under(f, g)' <=> Under(f, g)
    BY DEF Under, Filling
  <2>2. Chain(p)'
    BY <1>4, FramesStay DEF Below, Chain
  <2>3. p # <<>> => Ready(Top(p))
    <3> HIDE <1>1, <1>3
    <3> QED BY <1>2, <1>4 DEF Below, Under, Ready
  <2> QED BY <2>2, <2>3, FramesStay DEF Shape, Top
<1>6. t \notin Scanners => Plain(p)'
  <2>1. \A i \in 1 .. Len(p) : i \in 1 .. Len(s) /\ p[i] = s[i]
    <3> HIDE <1>1, <1>3
    <3> QED BY <1>4 DEF Below
  <2> QED BY <1>2, <2>1 DEF Plain
<1>7. StacksRight'
  BY <1>3, <1>5, <1>6, StackMoves
<1> QED BY <1>1, <1>2, <1>3, <1>4, <1>7 DEF Below

\* A thread takes the lock, and sends the record.
LEMMA SendMoves ==
  ASSUME TInv, StacksRight, AgentGrows, UNCHANGED instanced, NEW t \in Threads, stack[t] # <<>>,
         TopFrame(t).op = "send", Continue(t, [TopFrame(t) EXCEPT !.at = "ack"], <<>>)
  PROVE  /\ StacksRight'
         /\ \A g : Filling(g) => (In(g, stack'[t]) <=> In(g, stack[t]))
<1>1. PICK s, p, f, n : /\ s = stack[t] /\ p = SubSeq(s, 1, Len(s) - 1)
                        /\ f = [TopFrame(t) EXCEPT !.at = "ack"] /\ n = Append(p, f) \o <<>>
  OBVIOUS
<1>2. /\ Good(s) /\ s # <<>> /\ Top(s) = TopFrame(t) /\ IsSequence(s) /\ Chain(s)
      /\ t \notin Scanners => Plain(s)
  BY <1>1 DEF TInv, IInv, Good, StacksRight, Shape, Top, TopFrame
<1>3. Goes(t, n) /\ stack'[t] = n
  BY <1>1 DEF Continue, Popped, Goes, TInv, IInv
<1>4. f.op = "send" /\ f.class = Top(s).class
  <2>1. IsFrame(TopFrame(t))
    BY TopIsGood DEF GoodFrame, TInv
  <2> QED BY <1>1, <1>2, <2>1, FrameGoesTo
<1>5. IsSequence(<<>>) /\ Shape(<<>>)' /\ 1 .. Len(<<>>) = {}
  <2>1. IsSequence(<<>>) /\ 1 .. Len(<<>>) = {}
    BY EmptyGood DEF Good
  <2> QED BY <2>1, FreshShape
<1>6. Spliced(n, s, f, <<>>)
  <2> HIDE <1>3
  <2> QED BY <1>1, <1>2, <1>5, Splicing
<1>7. Below(p, s)
  <2> HIDE <1>3
  <2> QED BY <1>1, <1>2, Lower
<1>8. t \in Scanners
  <2> HIDE <1>1, <1>3
  <2> QED BY <1>2, <1>7 DEF Below, Plain, Top
<1>9. Shape(n)'
  <2>1. FrameRight(f)' /\ Ready(f)'
    BY <1>4 DEF FrameRight, Ready, Filling
  <2> HIDE <1>1, <1>3
  <2> QED BY <1>2, <1>4, <1>5, <1>6, <2>1, SplicedShape
<1>10. \A g : Filling(g) => (In(g, n) <=> In(g, s))
  <2> HIDE <1>1, <1>3
  <2>1. \A i \in 1 .. Len(n) : (i \in 1 .. Len(s) - 1 /\ n[i] = s[i]) \/ (i = Len(s) /\ n[i] = f)
    BY <1>5, <1>6, SplicedFrames
  <2>2. /\ 1 .. Len(p) = 1 .. Len(s) - 1 /\ \A i \in 1 .. Len(p) : p[i] = s[i] /\ i \in 1 .. Len(n)
    BY <1>5, <1>6, <1>7 DEF Below, Spliced
  <2>3. \A g : Filling(g) => (In(g, s) <=> In(g, p))
    BY <1>2, <1>7 DEF Below, Filling
  <2>4. \A g : Filling(g) => (In(g, n) <=> In(g, p))
    BY <1>4, <1>6, <2>1, <2>2 DEF In, Filling, Spliced
  <2> QED BY <2>3, <2>4
<1> QED BY <1>1, <1>3, <1>8, <1>9, <1>10, StackMoves

-----------------------------------------------------------------------------
(* Slots: the fields of the classes that nobody told of.                   *)

LEMMA PartialStays ==
  ASSUME NEW c, className2classId'[c] = className2classId[c], NEW x, x = className2classId[c],
         \A j \in Places(x) : /\ j \in Places(x)'
                              /\ NameAt(x, j)' = NameAt(x, j) /\ NumberAt(x, j)' = NumberAt(x, j)
  PROVE  \A rest : Partial(c, rest) => Partial(c, rest)'
<1>1. \A k : HasEntry(x, k) => HasEntry(x, k)'
  BY DEF HasEntry
<1> QED BY <1>1 DEF Partial

\* A field of a class gets its record.
LEMMA PartialNext ==
  ASSUME NEW c, UNCHANGED className2classId, NEW x, x = className2classId[c],
         NEW rest, IsSequence(rest), rest # <<>>, Partial(c, rest), NEW name, name = Head(rest),
         NEW v, v < 0 <=> <<c, name>> \in Static,
         NEW n, Places(x)' = Places(x) \cup {n},
         NameAt(x, n)' = name, NumberAt(x, n)' = v,
         \A j \in Places(x) : NameAt(x, j)' = NameAt(x, j) /\ NumberAt(x, j)' = NumberAt(x, j)
  PROVE  Partial(c, Tail(rest))'
<1>1. PICK m, k, tl : m = Len(rest) /\ tl = Tail(rest) /\ k = Len(tl)
  OBVIOUS
<1>2. m \in Nat \ {0} /\ k = m - 1 /\ name = rest[1] /\ \A i \in 1 .. k : tl[i] = rest[i + 1]
  BY <1>1, Tailing
<1>3. /\ \A i \in 1 .. k : i + 1 \in 1 .. m
      /\ \A i \in 1 .. m : i = 1 \/ (i - 1 \in 1 .. k /\ (i - 1) + 1 = i)
  <2> HIDE <1>1
  <2> QED BY <1>2
<1>4. /\ \A y \in NamesOf(c) : HasEntry(x, <<c, y>>) \/ \E i \in 1 .. m : rest[i] = y
      /\ \A i \in 1 .. m : rest[i] \in NamesOf(c)
  BY <1>1 DEF Partial
<1> HIDE <1>1
<1>5. \A y : HasEntry(x, <<c, y>>) => HasEntry(x, <<c, y>>)'
  BY DEF HasEntry
<1>6. HasEntry(x, <<c, name>>)'
  BY DEF HasEntry
<1>7. ASSUME NEW y \in NamesOf(c), \A i \in 1 .. k : tl[i] # y
      PROVE  HasEntry(x, <<c, y>>)'
  <2>1. CASE HasEntry(x, <<c, y>>)
    BY <1>5, <2>1
  <2>2. ASSUME NEW i \in 1 .. m, rest[i] = y
        PROVE  y = name
    <3>1. CASE i - 1 \in 1 .. k /\ (i - 1) + 1 = i
      <4>1. tl[i - 1] = rest[(i - 1) + 1]
        BY <1>2, <3>1
      <4> QED BY <1>7, <2>2, <3>1, <4>1
    <3> QED BY <1>2, <1>3, <2>2, <3>1
  <2> QED BY <1>4, <1>6, <2>1, <2>2
<1>8. \A i \in 1 .. k : tl[i] \in NamesOf(c)
  BY <1>2, <1>3, <1>4
<1> QED BY <1>1, <1>7, <1>8 DEF Partial

\* Whoever fills is the one scanner, and is at it.
LEMMA FillersRight ==
  ASSUME TInv, StacksRight
  PROVE  /\ \A f : InStack(f) => FrameRight(f)
         /\ \A t \in Threads : \A f : In(f, stack[t]) /\ f.op = "without" => t \in Scanners
         /\ \A t \in Threads : stack[t] # <<>> => In(TopFrame(t), stack[t])
         /\ \A t \in Threads : stack[t] # <<>> /\ TopFrame(t).op # "send" =>
              \A f : In(f, stack[t]) /\ Filling(f) => f = TopFrame(t)
<1>1. \A t \in Threads : Good(stack[t]) /\ Chain(stack[t])
  BY DEF TInv, IInv, StacksRight, Shape
<1>2. \A f : InStack(f) => FrameRight(f)
  BY <1>1 DEF InStack, In, Chain
<1>3. \A t \in Threads : \A f : In(f, stack[t]) /\ f.op = "without" => t \in Scanners
  BY DEF In, StacksRight, Plain
<1>4. ASSUME NEW t \in Threads, stack[t] # <<>>
      PROVE  /\ In(TopFrame(t), stack[t])
             /\ TopFrame(t).op # "send" => \A f : In(f, stack[t]) /\ Filling(f) => f = TopFrame(t)
  <2>1. PICK s, p : s = stack[t] /\ p = SubSeq(s, 1, Len(s) - 1)
    OBVIOUS
  <2>2. Good(s) /\ Chain(s) /\ s # <<>> /\ TopFrame(t) = Top(s)
    BY <1>1, <1>4, <2>1 DEF TopFrame, Top
  <2>3. Below(p, s)
    BY <2>1, <2>2, Lower
  <2> QED BY <2>1, <2>2, <2>3 DEF Below
<1> QED BY <1>2, <1>3, <1>4

LEMMA FillersKeep ==
  ASSUME TInv, StacksRight, FillingRight, AgentGrows,
         \A f : Filling(f) => (InStack(f)' <=> InStack(f)),
         \A c \in DOMAIN className2classId' : c \in Untold => c \in DOMAIN className2classId,
         \A x : \A j \in Places(x) : /\ j \in Places(x)' /\ NameAt(x, j)' = NameAt(x, j)
                                     /\ NumberAt(x, j)' = NumberAt(x, j)
  PROVE  /\ FillingRight'
         /\ \A c \in DOMAIN className2classId : Partial(c, <<>>) => Partial(c, <<>>)'
<1>1. ASSUME NEW c \in DOMAIN className2classId
      PROVE  \A rest : Partial(c, rest) => Partial(c, rest)'
  BY PartialStays DEF AgentGrows
<1>3. ASSUME NEW f, InStack(f)', Completes(f, f.class)'
      PROVE  Partial(f.class, f.rest)'
  <2>1. Filling(f) /\ f.superSlots = className2classId'[f.class]
    BY <1>3 DEF Completes, Filling
  <2>2. InStack(f) /\ FrameRight(f)
    BY <1>3, <2>1, FillersRight
  <2>3. f.class \in DOMAIN className2classId /\ Completes(f, f.class)
    BY <2>1, <2>2 DEF FrameRight, AgentGrows, Completes
  <2> QED BY <1>1, <2>2, <2>3 DEF FillingRight
<1>4. ASSUME NEW c \in Untold \cap DOMAIN className2classId'
      PROVE  Partial(c, <<>>)' \/ \E f : InStack(f)' /\ Completes(f, c)'
  <2>1. c \in DOMAIN className2classId /\ className2classId'[c] = className2classId[c]
    BY DEF AgentGrows
  <2>2. Partial(c, <<>>) => Partial(c, <<>>)'
    BY <1>1, <2>1
  <2>3. \A f : InStack(f) /\ Completes(f, c) => InStack(f)' /\ Completes(f, c)'
    BY <2>1 DEF Completes, Filling
  <2> QED BY <2>1, <2>2, <2>3 DEF FillingRight
<1>5. FillingRight'
  BY <1>3, <1>4 DEF FillingRight
<1> QED BY <1>1, <1>5

\* Who looks for slots finds the classes complete that have a number.
LEMMA UntoldComplete ==
  ASSUME TInv, StacksRight, FillingRight, SlotsInv, NEW t \in Threads, stack[t] # <<>>,
         Recursing(TopFrame(t)), ~Filling(TopFrame(t))
  PROVE  \A c \in Untold \cap DOMAIN className2classId : Partial(c, <<>>)
<1>1. CASE t \notin Scanners
  <2>1. In(TopFrame(t), stack[t])
    BY FillersRight
  <2>2. TopFrame(t).op = "slots" /\ Untold \subseteq instanced
    BY <1>1, <2>1 DEF In, StacksRight, Plain, Recursing
  <2> QED BY <2>2 DEF SlotsInv, InstancedRight
<1>2. CASE t \in Scanners
  <2>1. TopFrame(t).op # "send"
    BY DEF Recursing
  <2>2. \A f : InStack(f) => ~Filling(f)
    <3> SUFFICES ASSUME NEW f, NEW u \in Threads, In(f, stack[u]), Filling(f) PROVE FALSE
      BY DEF InStack
    <3>1. u = t
      BY <1>2, FillersRight, HierarchyAssumption DEF Filling
    <3> QED BY <2>1, <3>1, FillersRight
  <2> QED BY <2>2 DEF FillingRight, Completes
<1> QED BY <1>1, <1>2

-----------------------------------------------------------------------------
(* Slots: what a step keeps.                                               *)

RecursionRight == StacksRight /\ FillingRight /\ SlotsInv

\* For the class that declares a field the rewriter finds it static if it is.
LEMMA StaticKeys ==
  ASSUME NEW c \in Classes, NEW n \in NamesOf(c)
  PROVE  n \in Names /\ (IsStatic(c, n) <=> <<c, n>> \in Static)
<1>1. n \in Names
  BY DEF Names
<1> QED BY <1>1, DeclarerIsOwner DEF IsStatic

\* A class that is loaded has its fields recorded.
LEMMA ToldComplete ==
  ASSUME TInv, NumbersRight, NEW c, Known(c), c \notin Untold
  PROVE  /\ c \in DOMAIN className2classId /\ \A n \in NamesOf(c) : Recorded(<<c, n>>) /\ <<c, n>> \in ToldKeys
         /\ className2classId[c] = classIds[c] /\ Partial(c, <<>>)
<1>1. c \in loaded /\ c \in Classes /\ c \in DOMAIN className2classId /\ className2classId[c] < SYNTHETIC_ID_BASE
  <2>1. c \in loaded /\ c \in Classes
    BY KnownFacts DEF Known
  <2>2. c \in DOMAIN className2classId /\ className2classId[c] \in Nat
        /\ ~(className2classId[c] >= SYNTHETIC_ID_BASE)
    BY <2>1 DEF TInv, Typed, AgentOK
  <2> QED BY <2>1, <2>2, SlotsAssumption
<1>2. PICK x : x = className2classId[c]
  OBVIOUS
<1>3. c \in DOMAIN classIds /\ x = classIds[c]
  BY <1>1, <1>2 DEF NumbersRight, NamesRight
<1>4. \A n \in NamesOf(c) : Recorded(<<c, n>>)
  BY <1>1 DEF NumbersRight, LoadedRight
<1>5. \A n \in NamesOf(c) : HasEntry(x, <<c, n>>)
  <2> SUFFICES ASSUME NEW n \in NamesOf(c) PROVE HasEntry(x, <<c, n>>)
    OBVIOUS
  <2>0. PICK k : k = <<c, n>>
    OBVIOUS
  <2>1. k = <<c, n>> /\ k[1] = c /\ k[2] = n
    BY <2>0
  <2>2. PICK j \in Places(x) : EntryOf(x, j, k)
    BY <1>3, <1>4, <2>1 DEF Recorded
  <2>3. fieldIdTables[k] \in 1 .. lastFieldId /\ lastFieldId \in Nat
    BY <2>2 DEF EntryOf, Numbered, ToldKeys, NumbersRight, TablesRight, TInv, Typed, RewriterOK
  <2>4. IsStatic(k[1], k[2]) <=> k \in Static
    BY <1>1, <2>1, StaticKeys
  <2>5. NumberAt(x, j) < 0 <=> k \in Static
    BY <2>2, <2>3, <2>4 DEF EntryOf, Signed
  <2> QED BY <2>1, <2>2, <2>5 DEF EntryOf, HasEntry
<1>6. Partial(c, <<>>)
  <2>1. 1 .. Len(<<>>) = {}
    OBVIOUS
  <2> QED BY <1>2, <1>5, <2>1 DEF Partial
<1>7. \A n \in NamesOf(c) : <<c, n>> \in ToldKeys
  BY <1>4 DEF Recorded, EntryOf, Numbered
<1> QED BY <1>1, <1>2, <1>3, <1>4, <1>6, <1>7

\* The field is declared by a class that has its slots.
OwnSlot(k) ==
  /\ Numbered(k) /\ k[2] \in NamesOf(k[1]) /\ k \notin Static
  /\ k[1] \in DOMAIN classTag2slots /\ fieldIdTables[k] \in DOMAIN fieldId2slot

LEMMA OwnSlotsStay ==
  ASSUME UNCHANGED fieldId2slot
  PROVE  \A k : LET id == fieldIdTables[k]
               IN  OwnSlot(k) => id \in DOMAIN fieldId2slot' /\ fieldId2slot'[id] = fieldId2slot[id]
BY DEF OwnSlot

LEMMA SlotsStay ==
  ASSUME TInv, NumbersRight, SlotsInv, AgentGrows, loaded \subseteq loaded',
         \A k : Numbered(k) => fieldIdTables'[k] = fieldIdTables[k],
         \A k : LET id == fieldIdTables[k]
                IN  OwnSlot(k) => id \in DOMAIN fieldId2slot' /\ fieldId2slot'[id] = fieldId2slot[id],
         \A x \in DOMAIN classId2slots : classId2slots'[x] = classId2slots[x],
         \A c \in Untold \cap instanced : Partial(c, <<>>) => Partial(c, <<>>)',
         \A c \in DOMAIN classTag2slots' : c \in DOMAIN classTag2slots \/ TagRight(c)',
         \A x \in DOMAIN classId2slots' : x \in DOMAIN classId2slots \/ IdRight(x)',
         \A c \in instanced' : c \in instanced \/ InstancedRight(c)'
  PROVE  SlotsInv'
<1>1. \A c : Known(c) => Known(c)'
  BY TypesStay
<1>2. ASSUME NEW c \in DOMAIN classTag2slots
      PROVE  TagRight(c)'
  <2>1. TagRight(c)
    BY DEF SlotsInv
  <2>3. Size(c)' = Size(c) /\ Size(Super[c])' = Size(Super[c])
    BY <2>1 DEF Size, TagRight, Rank, AgentGrows
  <2>2. ASSUME c \notin Untold
        PROVE  SlotsOf(c)'
    <3>1. \A n \in NamesOf(c) : Numbered(<<c, n>>)
      BY <2>1, <2>2, ToldComplete DEF TagRight, Recorded, EntryOf
    <3>2. \A n \in NamesOf(c) : <<c, n>> \notin Static =>
            /\ fieldIdTables'[<<c, n>>] = fieldIdTables[<<c, n>>]
            /\ fieldIdTables[<<c, n>>] \in DOMAIN fieldId2slot'
            /\ fieldId2slot'[fieldIdTables[<<c, n>>]] = fieldId2slot[fieldIdTables[<<c, n>>]]
      BY <2>1, <2>2, <3>1 DEF TagRight, SlotsOf, OwnSlot
    <3> QED BY <2>1, <2>2, <2>3, <3>2 DEF TagRight, SlotsOf
  <2> QED BY <1>1, <2>1, <2>2, <2>3 DEF TagRight, Rank, AgentGrows
<1>3. \A x \in DOMAIN classId2slots : IdRight(x)'
  <2>1. \A c \in DOMAIN classTag2slots : c \in DOMAIN className2classId
    BY DEF SlotsInv, TagRight
  <2> QED BY <2>1 DEF SlotsInv, IdRight, AgentGrows
<1>4. \A c \in instanced : InstancedRight(c)'
  BY DEF SlotsInv, InstancedRight, AgentGrows, Rank
<1> QED BY <1>2, <1>3, <1>4 DEF SlotsInv

\* A step that looks for slots, and records nothing.
LEMMA LookingStays ==
  ASSUME TInv, NumbersRight, RecursionRight, AgentGrows, StacksRight',
         UNCHANGED <<className2classId, classId2fieldsInfo, fieldIdTables, loaded>>,
         \A f : Filling(f) => (InStack(f)' <=> InStack(f)),
         \A k : LET id == fieldIdTables[k]
                IN  OwnSlot(k) => id \in DOMAIN fieldId2slot' /\ fieldId2slot'[id] = fieldId2slot[id],
         \A x \in DOMAIN classId2slots : classId2slots'[x] = classId2slots[x],
         \A c \in DOMAIN classTag2slots' : c \in DOMAIN classTag2slots \/ TagRight(c)',
         \A x \in DOMAIN classId2slots' : x \in DOMAIN classId2slots \/ IdRight(x)',
         \A c \in instanced' : c \in instanced \/ InstancedRight(c)'
  PROVE  RecursionRight'
<1>1. \A x, j : Places(x)' = Places(x) /\ NameAt(x, j)' = NameAt(x, j) /\ NumberAt(x, j)' = NumberAt(x, j)
  BY DEF Places, NameAt, NumberAt
<1>2. \A c \in Untold \cap instanced : c \in DOMAIN className2classId
  BY DEF RecursionRight, SlotsInv, InstancedRight
<1>3. FillingRight' /\ \A c \in DOMAIN className2classId : Partial(c, <<>>) => Partial(c, <<>>)'
  BY <1>1, FillersKeep DEF RecursionRight
<1>4. SlotsInv'
  BY <1>2, <1>3, SlotsStay DEF RecursionRight
<1> QED BY <1>3, <1>4 DEF RecursionRight

\* A stack without a class being filled, before and after.
LEMMA NobodyFills ==
  ASSUME TInv, NEW t \in Threads, NEW s, Goes(t, s),
         \A g : Filling(g) => (In(g, stack'[t]) <=> In(g, stack[t]))
  PROVE  \A g : Filling(g) => (InStack(g)' <=> InStack(g))
<1>1. \A u \in Threads \ {t} : stack'[u] = stack[u]
  BY DEF TInv, IInv, Goes
<1>2. \A g : InStack(g)' <=> \E u \in Threads : In(g, stack'[u])
  BY DEF InStack, In
<1> QED BY <1>1, <1>2 DEF InStack

-----------------------------------------------------------------------------
(* Slots: the steps that look for them.                                    *)

\* A call that returns the slots of its class.
LEMMA ReturnRight ==
  ASSUME TInv, NumbersRight, RecursionRight, AgentGrows, NEW t \in Threads, stack[t] # <<>>,
         TopFrame(t).op = "slots", NEW c, c = TopFrame(t).class, NEW v, v = Size(c)', Rank(c)',
         c \in DOMAIN className2classId, Return(t, v),
         UNCHANGED <<className2classId, classId2fieldsInfo, fieldIdTables, loaded>>,
         \A k : LET id == fieldIdTables[k]
                IN  OwnSlot(k) => id \in DOMAIN fieldId2slot' /\ fieldId2slot'[id] = fieldId2slot[id],
         \A x \in DOMAIN classId2slots : classId2slots'[x] = classId2slots[x],
         \A d \in DOMAIN classTag2slots' : d \in DOMAIN classTag2slots \/ TagRight(d)',
         \A x \in DOMAIN classId2slots' : x \in DOMAIN classId2slots \/ IdRight(x)'
  PROVE  RecursionRight'
<1>1. StacksRight' /\ \A g : Filling(g) => ~In(g, stack[t]) /\ ~In(g, stack'[t])
  BY ReturnMoves DEF RecursionRight
<1>2. \A g : Filling(g) => (InStack(g)' <=> InStack(g))
  <2>1. \E s : Goes(t, s)
    BY DEF Return
  <2> QED BY <1>1, <2>1, NobodyFills
<1>3. c \in Untold => Partial(c, <<>>)'
  <2>1. Recursing(TopFrame(t)) /\ ~Filling(TopFrame(t))
    BY DEF Recursing, Filling
  <2>2. c \in Untold => Partial(c, <<>>)
    BY <2>1, UntoldComplete DEF RecursionRight
  <2>3. className2classId'[c] = className2classId[c]
    OBVIOUS
  <2>4. \A x, j : Places(x)' = Places(x) /\ NameAt(x, j)' = NameAt(x, j) /\ NumberAt(x, j)' = NumberAt(x, j)
    BY DEF Places, NameAt, NumberAt
  <2> QED BY <2>2, <2>3, <2>4, PartialStays
<1>4. InstancedRight(c)'
  BY <1>3 DEF InstancedRight
<1>5. \A d \in instanced' : d \in instanced \/ InstancedRight(d)'
  BY <1>4 DEF Return
<1> QED BY <1>1, <1>2, <1>5, LookingStays

\* A call that goes on, with the tables as they were.
LEMMA CallRight ==
  ASSUME TInv, NumbersRight, RecursionRight, NEW t \in Threads, stack[t] # <<>>,
         Recursing(TopFrame(t)), ~Filling(TopFrame(t)),
         NEW f, f.op = TopFrame(t).op, f.class = TopFrame(t).class, ~Filling(f), FrameRight(f),
         NEW r, IsSequence(r), \A i \in 1 .. Len(r) : r[i].at = "lookup",
         r = <<>> => Ready(f), r # <<>> => Under(f, r[1]),
         t \notin Scanners => \A i \in 1 .. Len(r) : r[i].op = "slots",
         Continue(t, f, r),
         UNCHANGED <<className2classId, nextSyntheticId, classId2fieldsInfo, fieldIdTables, loaded,
                     fieldId2slot, classTag2slots, classId2slots, instanced>>
  PROVE  RecursionRight'
<1>1. AgentGrows
  BY DEF AgentGrows, TInv, Typed, AgentOK
<1>2. /\ StacksRight'
      /\ \A g : Filling(g) => ~In(g, stack[t]) /\ ~In(g, stack'[t])
  <2>1. FrameRight(f)' /\ (r = <<>> => Ready(f)')
    BY <1>1, FramesStay
  <2>2. /\ StacksRight'
        /\ \A g : Filling(g) => /\ In(g, stack[t]) <=> g = TopFrame(t)
                                /\ In(g, stack'[t]) <=> g = f
    BY <1>1, <2>1, CallsMove DEF RecursionRight
  <2> QED BY <2>2
<1>3. \A g : Filling(g) => (InStack(g)' <=> InStack(g))
  <2>1. \E s : Goes(t, s)
    BY DEF Continue
  <2> QED BY <1>2, <2>1, NobodyFills
<1> QED BY <1>1, <1>2, <1>3, OwnSlotsStay, LookingStays

LEMMA TopReady ==
  ASSUME TInv, StacksRight, NEW t \in Threads, stack[t] # <<>>
  PROVE  Ready(TopFrame(t)) /\ FrameRight(TopFrame(t)) /\ IsFrame(TopFrame(t)) /\ FrameOK(TopFrame(t))
<1>1. TopFrame(t) = Top(stack[t]) /\ IsFrame(TopFrame(t)) /\ FrameOK(TopFrame(t))
  BY TopIsGood, TopOK DEF TInv, GoodFrame
<1>2. Ready(TopFrame(t))
  BY <1>1 DEF StacksRight, Shape, Top
<1>3. FrameRight(TopFrame(t))
  <2>1. InStack(TopFrame(t))
    BY FillersRight DEF InStack
  <2> QED BY <2>1, FillersRight
<1> QED BY <1>1, <1>2, <1>3

LEMMA GoesOn ==
  ASSUME NEW f, IsFrame(f), NEW v, NEW g, g = [f EXCEPT !.at = v]
  PROVE  g.op = f.op /\ g.class = f.class /\ g.at = v
BY FrameGoesTo

LEMMA LookupTagRight ==
  ASSUME TInv, NumbersRight, RecursionRight, NEW t \in Threads, LookupTag(t)
  PROVE  RecursionRight'
<1>1. PICK f, c : f = TopFrame(t) /\ c = f.class
  OBVIOUS
<1>2. /\ stack[t] # <<>> /\ f.op = "slots" /\ f.at = "lookup"
      /\ UNCHANGED <<className2classId, nextSyntheticId, classId2fieldsInfo, fieldIdTables, loaded,
                     fieldId2slot, classTag2slots, classId2slots>>
  BY <1>1 DEF LookupTag, Busy, Tables, recorded, rewriter, slots
<1>3. IsFrame(f) /\ FrameOK(f) /\ Known(c) /\ FrameRight(f)
  BY <1>1, <1>2, TopReady DEF RecursionRight, FrameOK
<1>4. CASE c \in DOMAIN classTag2slots
  <2>1. Return(t, classTag2slots[c])
    BY <1>1, <1>4 DEF LookupTag
  <2>2. classTag2slots[c] = Size(c)' /\ c \in DOMAIN className2classId /\ Rank(c)'
    BY <1>2, <1>4 DEF RecursionRight, SlotsInv, TagRight, Rank, Size
  <2>3. AgentGrows
    BY <1>2 DEF AgentGrows, TInv, Typed, AgentOK
  <2> QED BY <1>1, <1>2, <1>4, <2>1, <2>2, <2>3, OwnSlotsStay, ReturnRight
<1>5. CASE c \notin DOMAIN classTag2slots
  <2>1. PICK g, w, r : /\ g = [f EXCEPT !.at = "find"] /\ w = Frame("without", c)
                       /\ r = IF c \in DOMAIN className2classId THEN <<>> ELSE <<w>>
    OBVIOUS
  <2>2. Continue(t, g, r) /\ UNCHANGED instanced
    BY <1>1, <1>5, <2>1 DEF LookupTag
  <2>3. g.op = "slots" /\ g.class = c /\ g.at = "find"
    BY <1>1, <1>2, <1>3, <2>1, GoesOn
  <2>4. w.op = "without" /\ w.class = c /\ w.at = "lookup"
    BY <2>1, FramesMade
  <2>5. ~Filling(g) /\ FrameRight(g) /\ Recursing(f) /\ ~Filling(f)
    BY <1>2, <2>3 DEF Filling, FrameRight, Recursing
  <2>6. CASE c \in DOMAIN className2classId
    <3>1. r = <<>> /\ IsSequence(r) /\ 1 .. Len(r) = {}
      BY <2>1, <2>6, EmptyGood DEF Good
    <3>2. Ready(g)
      BY <2>3, <2>6 DEF Ready
    <3> HIDE <1>4, <1>5, <2>1
    <3> QED BY <1>1, <1>2, <2>2, <2>3, <2>5, <3>1, <3>2, CallRight
  <2>7. CASE c \notin DOMAIN className2classId
    <3>1. t \in Scanners
      <4>1. c \in Untold
        BY <1>3, <2>7, KnownFacts DEF TInv, Typed, AgentOK
      <4>2. c \notin instanced
        BY <2>7 DEF RecursionRight, SlotsInv, InstancedRight
      <4>3. In(f, stack[t])
        BY <1>1, <1>2, FillersRight DEF RecursionRight
      <4> QED BY <1>2, <4>1, <4>2, <4>3 DEF In, RecursionRight, StacksRight, Plain
    <3>2. r = <<w>>
      BY <2>1, <2>7
    <3>3. IsSequence(r) /\ r # <<>> /\ r[1] = w /\ \A i \in 1 .. Len(r) : r[i] = w
      <4>1. <<w>> \in Seq({w}) /\ <<w>> # <<>> /\ <<w>>[1] = w /\ \A i \in 1 .. Len(<<w>>) : <<w>>[i] = w
        OBVIOUS
      <4> QED BY <3>2, <4>1 DEF IsSequence
    <3>4. Under(g, r[1])
      BY <2>3, <2>4, <3>3 DEF Under, Filling
    <3>5. \A i \in 1 .. Len(r) : r[i].at = "lookup"
      BY <2>4, <3>3
    <3> HIDE <1>4, <1>5, <2>1, <3>2
    <3> QED BY <1>1, <1>2, <2>2, <2>3, <2>5, <3>1, <3>3, <3>4, <3>5, CallRight
  <2> QED BY <2>6, <2>7
<1> QED BY <1>4, <1>5

LEMMA LookupIdRight ==
  ASSUME TInv, NumbersRight, RecursionRight, NEW t \in Threads, LookupId(t)
  PROVE  RecursionRight'
<1>1. PICK f, c, id : f = TopFrame(t) /\ c = f.class /\ id = className2classId[c]
  OBVIOUS
<1>2. /\ stack[t] # <<>> /\ f.op = "slots" /\ f.at = "find"
      /\ UNCHANGED <<className2classId, nextSyntheticId, classId2fieldsInfo, fieldIdTables, loaded,
                     fieldId2slot, classId2slots>>
  BY <1>1 DEF LookupId, Busy, Tables, recorded, rewriter
<1>3. IsFrame(f) /\ Known(c) /\ c \in Classes /\ c \in DOMAIN className2classId
  BY <1>1, <1>2, TopReady DEF RecursionRight, FrameOK, Known, Ready
<1>4. CASE id \in DOMAIN classId2slots
  <2>1. Return(t, classId2slots[id]) /\ classTag2slots' = Put(classTag2slots, c, classId2slots[id])
    BY <1>1, <1>4 DEF LookupId
  <2>2. c \in DOMAIN classTag2slots /\ c # Object /\ classId2slots[id] = classTag2slots[c]
    <3>1. PICK d \in DOMAIN classTag2slots : className2classId[d] = id /\ classId2slots[id] = classTag2slots[d]
      BY <1>4 DEF RecursionRight, SlotsInv, IdRight
    <3>2. d \in DOMAIN className2classId /\ d # Object
      BY DEF RecursionRight, SlotsInv, TagRight
    <3>3. d = c
      BY <1>1, <1>3, <3>1, <3>2 DEF NumbersRight, NamesRight
    <3> QED BY <3>1, <3>2, <3>3
  <2>3. /\ DOMAIN classTag2slots' = DOMAIN classTag2slots
        /\ \A d \in DOMAIN classTag2slots : classTag2slots'[d] = classTag2slots[d]
    BY <2>1, <2>2 DEF Put
  <2>4. AgentGrows /\ Rank(c)' /\ classId2slots[id] = Size(c)'
    BY <1>2, <2>2, <2>3 DEF AgentGrows, TInv, Typed, AgentOK, Rank, Size
  <2> QED BY <1>1, <1>2, <1>3, <2>1, <2>2, <2>3, <2>4, OwnSlotsStay, ReturnRight
<1>5. CASE id \notin DOMAIN classId2slots /\ Super[c] = NoClass
  <2>1. Return(t, 0) /\ UNCHANGED classTag2slots
    BY <1>1, <1>5 DEF LookupId
  <2>2. c = Object /\ 0 = Size(c)'
    BY <1>3, <1>5, SlotsAssumption DEF Size
  <2>3. AgentGrows /\ Rank(c)'
    BY <1>2, <2>1, <2>2 DEF AgentGrows, TInv, Typed, AgentOK, Rank
  <2> QED BY <1>1, <1>2, <1>3, <2>1, <2>2, <2>3, OwnSlotsStay, ReturnRight
<1>6. CASE id \notin DOMAIN classId2slots /\ Super[c] # NoClass
  <2>1. PICK g, r : g = [f EXCEPT !.at = "assign"] /\ r = <<Frame("slots", Super[c])>> \o TagCalls(Super[c])
    OBVIOUS
  <2>2. Continue(t, g, r) /\ UNCHANGED <<instanced, classTag2slots>>
    BY <1>1, <1>6, <2>1 DEF LookupId
  <2>3. g.op = "slots" /\ g.class = c /\ g.at = "assign"
    BY <1>1, <1>2, <1>3, <2>1, GoesOn
  <2>4. /\ IsSequence(r) /\ r # <<>> /\ r[1] = Frame("slots", Super[c])
        /\ \A i \in 1 .. Len(r) : r[i].op = "slots" /\ r[i].at = "lookup"
    BY <2>1, TagPathFresh
  <2>5. ~Filling(g) /\ FrameRight(g) /\ Recursing(f) /\ ~Filling(f)
    BY <1>2, <1>3, <1>6, <2>3 DEF Filling, FrameRight, Recursing
  <2>6. Under(g, r[1])
    BY <2>3, <2>4, FramesMade DEF Under, Filling
  <2> HIDE <1>6, <2>1
  <2> QED BY <1>1, <1>2, <2>2, <2>3, <2>4, <2>5, <2>6, CallRight
<1> QED BY <1>4, <1>5, <1>6

LEMMA WithoutIdRight ==
  ASSUME TInv, NumbersRight, RecursionRight, NEW t \in Threads, WithoutId(t)
  PROVE  RecursionRight'
<1>1. PICK f, g, super : f = TopFrame(t) /\ g = [f EXCEPT !.at = "find"] /\ super = Super[f.class]
  OBVIOUS
<1>2. /\ stack[t] # <<>> /\ f.op = "without" /\ f.at = "lookup"
      /\ UNCHANGED <<className2classId, nextSyntheticId, classId2fieldsInfo, fieldIdTables, loaded,
                     fieldId2slot, classTag2slots, classId2slots, instanced>>
  BY <1>1 DEF WithoutId, Busy, Tables, recorded, rewriter, slots
<1>3. IsFrame(f)
  BY <1>1, <1>2, TopReady DEF RecursionRight
<1>4. g.op = "without" /\ g.class = f.class /\ g.at = "find"
  BY <1>1, <1>2, <1>3, GoesOn
<1>5. ~Filling(g) /\ FrameRight(g) /\ Ready(g) /\ Recursing(f) /\ ~Filling(f) /\ \A h : Under(g, h)
  BY <1>2, <1>4 DEF Filling, FrameRight, Recursing, Ready, Under
<1>6. PICK r : r = IF super = NoClass THEN <<>> ELSE <<Frame("slots", super)>> \o TagCalls(super)
  OBVIOUS
<1>7. Continue(t, g, r)
  BY <1>1, <1>6 DEF WithoutId
<1>8. IsSequence(r) /\ \A i \in 1 .. Len(r) : r[i].op = "slots" /\ r[i].at = "lookup"
  <2>1. CASE super = NoClass
    <3>1. r = <<>> /\ IsSequence(<<>>) /\ 1 .. Len(<<>>) = {}
      BY <1>6, <2>1, EmptyGood DEF Good
    <3> QED BY <3>1
  <2>2. CASE super # NoClass
    BY <1>6, <2>2, TagPathFresh
  <2> QED BY <2>1, <2>2
<1> HIDE <1>6
<1> QED BY <1>1, <1>2, <1>4, <1>5, <1>7, <1>8, CallRight

\* A step of a thread that looks for no slots.
LEMMA OtherRight ==
  ASSUME TInv, NumbersRight, RecursionRight, StacksRight', NEW t \in Threads, NEW s, Goes(t, s),
         \A g : Filling(g) => (In(g, stack'[t]) <=> In(g, stack[t])),
         UNCHANGED <<className2classId, nextSyntheticId, classId2fieldsInfo, fieldIdTables, loaded,
                     fieldId2slot, classTag2slots, classId2slots, instanced>>
  PROVE  RecursionRight'
<1>1. AgentGrows
  BY DEF AgentGrows, TInv, Typed, AgentOK
<1>2. \A g : Filling(g) => (InStack(g)' <=> InStack(g))
  BY NobodyFills
<1> QED BY <1>1, <1>2, OwnSlotsStay, LookingStays

\* The first call of a thread.
LEMMA FirstRight ==
  ASSUME TInv, NumbersRight, RecursionRight, NEW t \in Threads, stack[t] = <<>>, NEW s, Goes(t, s),
         IsSequence(s), \A i \in 1 .. Len(s) : s[i].at = "lookup" /\ ~Filling(s[i]),
         t \notin Scanners => Plain(s),
         UNCHANGED <<className2classId, nextSyntheticId, classId2fieldsInfo, fieldIdTables, loaded,
                     fieldId2slot, classTag2slots, classId2slots, instanced>>
  PROVE  RecursionRight'
<1>1. AgentGrows
  BY DEF AgentGrows, TInv, Typed, AgentOK
<1>2. Shape(s)'
  BY FreshShape
<1>3. t \notin Scanners => Plain(s)'
  BY DEF Plain
<1>4. StacksRight'
  BY <1>1, <1>2, <1>3, StackMoves DEF RecursionRight
<1>5. \A g : Filling(g) => ~In(g, stack'[t]) /\ ~In(g, stack[t])
  <2>1. stack'[t] = s
    BY DEF Goes, TInv, IInv
  <2>2. \A g : ~In(g, <<>>)
    BY DEF In
  <2> QED BY <2>1, <2>2 DEF In
<1> QED BY <1>4, <1>5, OtherRight

LEMMA TagObjectRight ==
  ASSUME TInv, NumbersRight, RecursionRight, NEW t \in Threads, NEW c, TagObject(t, c)
  PROVE  RecursionRight'
<1>1. PICK s : s = <<Frame("slots", c)>> \o TagCalls(c)
  OBVIOUS
<1>2. /\ stack[t] = <<>> /\ Goes(t, s) /\ (t \in Scanners \/ Untold \subseteq instanced)
      /\ UNCHANGED <<className2classId, nextSyntheticId, classId2fieldsInfo, fieldIdTables, loaded,
                     fieldId2slot, classTag2slots, classId2slots, instanced>>
  BY <1>1 DEF TagObject, recorded, rewriter, slots
<1>3. IsSequence(s) /\ \A i \in 1 .. Len(s) : s[i].op = "slots" /\ s[i].at = "lookup"
  BY <1>1, TagPathFresh
<1> HIDE <1>1
<1>4. \A i \in 1 .. Len(s) : s[i].at = "lookup" /\ ~Filling(s[i])
  BY <1>3 DEF Filling
<1>5. t \notin Scanners => Plain(s)
  BY <1>2, <1>3 DEF Plain
<1> QED BY <1>2, <1>3, <1>4, <1>5, FirstRight

LEMMA instrumentClassRight ==
  ASSUME TInv, NumbersRight, RecursionRight, NEW t \in Threads, NEW c, instrumentClass(t, c)
  PROVE  RecursionRight'
<1>1. PICK f : f = Frame("instrument", c)
  OBVIOUS
<1>2. /\ stack[t] = <<>> /\ Goes(t, <<f>>)
      /\ UNCHANGED <<className2classId, nextSyntheticId, classId2fieldsInfo, fieldIdTables, loaded,
                     fieldId2slot, classTag2slots, classId2slots, instanced>>
  BY <1>1 DEF instrumentClass, recorded, rewriter, slots
<1>3. f.op = "instrument" /\ f.at = "lookup"
  BY <1>1, FramesMade
<1>4. IsSequence(<<f>>) /\ \A i \in 1 .. Len(<<f>>) : <<f>>[i] = f
  <2>1. <<f>> \in Seq({f}) /\ \A i \in 1 .. Len(<<f>>) : <<f>>[i] = f
    OBVIOUS
  <2> QED BY <2>1 DEF IsSequence
<1> HIDE <1>1
<1>5. \A i \in 1 .. Len(<<f>>) : <<f>>[i].at = "lookup" /\ ~Filling(<<f>>[i])
  BY <1>3, <1>4 DEF Filling
<1>6. Plain(<<f>>)
  BY <1>3, <1>4 DEF Plain
<1> QED BY <1>2, <1>4, <1>5, <1>6, FirstRight

LEMMA SendInfoRight ==
  ASSUME TInv, NumbersRight, RecursionRight, NEW t \in Threads, SendInfo(t)
  PROVE  RecursionRight'
<1>1. /\ stack[t] # <<>> /\ TopFrame(t).op = "send" /\ Continue(t, [TopFrame(t) EXCEPT !.at = "ack"], <<>>)
      /\ UNCHANGED <<className2classId, nextSyntheticId, classId2fieldsInfo, fieldIdTables, loaded,
                     fieldId2slot, classTag2slots, classId2slots, instanced>>
  BY DEF SendInfo, Busy, recorded, rewriter, slots
<1>2. AgentGrows
  BY <1>1 DEF AgentGrows, TInv, Typed, AgentOK
<1>3. StacksRight' /\ \A g : Filling(g) => (In(g, stack'[t]) <=> In(g, stack[t]))
  BY <1>1, <1>2, SendMoves DEF RecursionRight
<1>4. \E s : Goes(t, s)
  BY <1>1 DEF Continue
<1> QED BY <1>1, <1>3, <1>4, OtherRight

LEMMA ReadAckRight ==
  ASSUME TInv, NumbersRight, RecursionRight, NEW t \in Threads, ReadAck(t)
  PROVE  RecursionRight'
<1>1. /\ stack[t] # <<>> /\ TopFrame(t).op = "send" /\ Goes(t, Popped(t))
      /\ UNCHANGED <<className2classId, nextSyntheticId, classId2fieldsInfo, fieldIdTables, loaded,
                     fieldId2slot, classTag2slots, classId2slots, instanced>>
  BY DEF ReadAck, Busy, recorded, rewriter, slots
<1>2. AgentGrows
  BY <1>1 DEF AgentGrows, TInv, Typed, AgentOK
<1>3. StacksRight' /\ \A g : In(g, stack[t]) <=> g = TopFrame(t) \/ In(g, stack'[t])
  BY <1>1, <1>2, PopMoves DEF RecursionRight
<1>4. \A g : Filling(g) => (In(g, stack'[t]) <=> In(g, stack[t]))
  BY <1>1, <1>3 DEF Filling
<1> QED BY <1>1, <1>3, <1>4, OtherRight

-----------------------------------------------------------------------------
(* Slots: the steps of the rewriter, and its records.                      *)

LEMMA StacksStay ==
  ASSUME StacksRight, AgentGrows, UNCHANGED <<stack, instanced>>
  PROVE  StacksRight' /\ \A f : InStack(f)' <=> InStack(f)
<1>1. \A q : Chain(q) => Chain(q)'
  BY FramesStay DEF Chain
<1>2. \A q : Shape(q) => Shape(q)'
  BY <1>1, FramesStay DEF Shape, Top
<1>3. \A q : Plain(q) => Plain(q)'
  BY DEF Plain
<1>4. StacksRight'
  BY <1>2, <1>3 DEF StacksRight
<1> QED BY <1>4 DEF InStack, In

\* A step of the rewriter, or one that records what it sent: it assigns no slots.
LEMMA ToldStep ==
  ASSUME TInv, NumbersRight, RecursionRight, AgentGrows, StacksRight', loaded \subseteq loaded',
         UNCHANGED <<classTag2slots, classId2slots, instanced>>,
         \A f : Filling(f) => (InStack(f)' <=> InStack(f)),
         \A c \in DOMAIN className2classId' : c \in Untold => c \in DOMAIN className2classId,
         \A x : \A j \in Places(x) : /\ j \in Places(x)' /\ NameAt(x, j)' = NameAt(x, j)
                                     /\ NumberAt(x, j)' = NumberAt(x, j),
         \A k : Numbered(k) => fieldIdTables'[k] = fieldIdTables[k],
         \A k : LET id == fieldIdTables[k]
                IN  OwnSlot(k) => id \in DOMAIN fieldId2slot' /\ fieldId2slot'[id] = fieldId2slot[id]
  PROVE  RecursionRight'
<1>1. \A c \in Untold \cap instanced : c \in DOMAIN className2classId
  BY DEF RecursionRight, SlotsInv, InstancedRight
<1>2. FillingRight' /\ \A c \in DOMAIN className2classId : Partial(c, <<>>) => Partial(c, <<>>)'
  BY FillersKeep DEF RecursionRight
<1>3. SlotsInv'
  <2>1. \A c \in DOMAIN classTag2slots : classTag2slots'[c] = classTag2slots[c]
    OBVIOUS
  <2>2. \A x \in DOMAIN classId2slots : classId2slots'[x] = classId2slots[x]
    OBVIOUS
  <2>3. \A c \in DOMAIN classTag2slots' : c \in DOMAIN classTag2slots \/ TagRight(c)'
    OBVIOUS
  <2>4. \A x \in DOMAIN classId2slots' : x \in DOMAIN classId2slots \/ IdRight(x)'
    OBVIOUS
  <2>5. \A c \in instanced' : c \in instanced \/ InstancedRight(c)'
    OBVIOUS
  <2> QED BY <1>1, <1>2, <2>1, <2>2, <2>3, <2>4, <2>5, SlotsStay DEF RecursionRight
<1> QED BY <1>2, <1>3 DEF RecursionRight

LEMMA RewriterRight ==
  ASSUME TInv, NumbersRight, RecursionRight, TablesGrow,
         UNCHANGED <<recorded, slots, fieldId2slot, nextSyntheticId, stack, loaded, instanced>>
  PROVE  RecursionRight'
<1>1. AgentGrows
  BY DEF AgentGrows, TInv, Typed, AgentOK, recorded, slots
<1>2. StacksRight' /\ \A f : InStack(f)' <=> InStack(f)
  BY <1>1, StacksStay DEF RecursionRight
<1>3. \A k : Numbered(k) => fieldIdTables'[k] = fieldIdTables[k]
  BY DEF TablesGrow, Numbered, ToldKeys
<1>4. \A x, j : Places(x)' = Places(x) /\ NameAt(x, j)' = NameAt(x, j) /\ NumberAt(x, j)' = NumberAt(x, j)
  BY DEF Places, NameAt, NumberAt, recorded
<1> QED BY <1>1, <1>2, <1>3, <1>4, OwnSlotsStay, ToldStep DEF recorded, slots

LEMMA RewriterStepRight ==
  ASSUME TInv, TInv', NumbersRight, RecursionRight, Rewriter
  PROVE  NumbersRight' /\ RecursionRight'
<1>1. UNCHANGED <<recorded, slots, fieldId2slot, nextSyntheticId, stack, loaded, instanced>>
  BY DEF Rewriter, Visit, newFieldId, WriteClass, Synthetic
<1>2. NumbersRight' /\ TablesGrow
  BY VisitNumbers, newFieldIdNumbers, WriteClassNumbers, SyntheticNumbers DEF Rewriter
<1> QED BY <1>1, <1>2, RewriterRight

\* The record of a class the VM told of.
LEMMA ClassRecordRight ==
  ASSUME TInv, NumbersRight, RecursionRight, replies # <<>>, replies[1][1] = "ClassInfo",
         RecordClassInfo(replies[1][2][1], replies[1][2][2]),
         UNCHANGED <<rewriter, slots, classId2fieldsInfo, fieldId2slot, nextSyntheticId, stack, loaded, instanced>>
  PROVE  RecursionRight'
<1>1. PICK c, id : c = replies[1][2][2] /\ id = replies[1][2][1]
  OBVIOUS
<1>2. 1 \in 1 .. Len(replies) /\ ReplyOK(replies[1])
  BY Tailing DEF TInv, IInv, Typed, PipesOK
<1>3. c \notin Untold /\ id \in Nat /\ id < SYNTHETIC_ID_BASE
  BY <1>1, <1>2 DEF ReplyOK
<1>4. /\ \A d \in DOMAIN className2classId : d \in DOMAIN className2classId' /\ className2classId'[d] = className2classId[d]
      /\ \A d \in DOMAIN className2classId' : d \in DOMAIN className2classId \/ (d = c /\ className2classId'[d] = id)
  BY <1>1 DEF RecordClassInfo, Put
<1>5. AgentGrows
  BY <1>3, <1>4 DEF AgentGrows, TInv, Typed, AgentOK, slots
<1>6. StacksRight' /\ \A f : InStack(f)' <=> InStack(f)
  BY <1>5, StacksStay DEF RecursionRight
<1>7. \A x, j : Places(x)' = Places(x) /\ NameAt(x, j)' = NameAt(x, j) /\ NumberAt(x, j)' = NumberAt(x, j)
  BY DEF Places, NameAt, NumberAt
<1> HIDE <1>1
<1> QED BY <1>3, <1>4, <1>5, <1>6, <1>7, OwnSlotsStay, ToldStep DEF slots, rewriter

\* The record of a field: it puts a static one into its slot, and that is no instance field
\* of a class that has its slots.
LEMMA FieldRecordRight ==
  ASSUME TInv, NumbersRight, RecursionRight, replies # <<>>, Pending(1),
         RecordFieldInfo(replies[1][2][1], replies[1][2][2], replies[1][2][3], replies[1][2][4]),
         UNCHANGED <<rewriter, slots, className2classId, nextSyntheticId, stack, loaded, instanced>>
  PROVE  RecursionRight'
<1>0. IsSequence(replies) /\ 1 \in 1 .. Len(replies)
  BY Tailing DEF TInv, IInv
<1>1. PICK x, v, id, name : /\ x = replies[1][2][1] /\ name = replies[1][2][2] /\ id = replies[1][2][3]
                            /\ v = IF replies[1][2][4] THEN -id ELSE id
  OBVIOUS
<1>2. /\ id \in 1 .. lastFieldId /\ replies[1][2][4] \in BOOLEAN
      /\ \A k \in ToldKeys : Numbered(k) /\ fieldIdTables[k] = id => Report(replies[1][2], k)
  <2>1. ReplyRight(replies[1])
    BY <1>0 DEF NumbersRight, RepliesRight
  <2> QED BY <1>1, <2>1 DEF ReplyRight, Pending
<1>3. id \in Nat \ {0}
  BY <1>2 DEF TInv, Typed, RewriterOK
<1>4. Records(x, name, v)
  <2>1. CASE replies[1][2][4]
    BY <1>1, <1>3, <2>1 DEF RecordFieldInfo, Records
  <2>2. CASE ~replies[1][2][4]
    BY <1>1, <1>3, <2>2 DEF RecordFieldInfo, Records
  <2> QED BY <2>1, <2>2
<1>5. \A y : \A j \in Places(y) : /\ j \in Places(y)' /\ NameAt(y, j)' = NameAt(y, j)
                                 /\ NumberAt(y, j)' = NumberAt(y, j)
  <2>1. PICK n : n = NextPlace(x)
    OBVIOUS
  <2>2. InfosAreSequences
    BY DEF NumbersRight, InfosRight
  <2> HIDE <1>1
  <2> QED BY <1>4, <2>1, <2>2, RecordsEntry
<1>6. ASSUME NEW k, OwnSlot(k), fieldIdTables[k] = id
      PROVE  ~replies[1][2][4]
  <2>1. k \in ToldKeys /\ Numbered(k) /\ k[1] \in Classes /\ k[2] \in NamesOf(k[1])
        /\ k = <<k[1], k[2]>> /\ k \notin Static
    BY <1>6 DEF OwnSlot, Numbered, ToldKeys
  <2>2. ~IsStatic(k[1], k[2])
    BY <2>1, StaticKeys
  <2> QED BY <1>2, <1>6, <2>1, <2>2 DEF Report
<1>7. \A k : LET n == fieldIdTables[k]
             IN  OwnSlot(k) => n \in DOMAIN fieldId2slot' /\ fieldId2slot'[n] = fieldId2slot[n]
  <2>1. CASE replies[1][2][4]
    <3>1. fieldId2slot' = Put(fieldId2slot, id, staticSlots)
      BY <1>1, <2>1 DEF RecordFieldInfo
    <3>2. \A n \in DOMAIN fieldId2slot : n # id => n \in DOMAIN fieldId2slot' /\ fieldId2slot'[n] = fieldId2slot[n]
      BY <3>1 DEF Put
    <3> QED BY <1>6, <2>1, <3>2 DEF OwnSlot
  <2>2. CASE ~replies[1][2][4]
    BY <2>2 DEF RecordFieldInfo, OwnSlot
  <2> QED BY <2>1, <2>2
<1>9. AgentGrows
  BY DEF AgentGrows, TInv, Typed, AgentOK, slots
<1>10. StacksRight' /\ \A f : InStack(f)' <=> InStack(f)
  BY <1>9, StacksStay DEF RecursionRight
<1> HIDE <1>1
<1> QED BY <1>5, <1>7, <1>9, <1>10, ToldStep DEF slots, rewriter

\* The class is loaded.
LEMMA ClassFileRight ==
  ASSUME TInv, NumbersRight, RecursionRight, NEW t \in Threads, stack[t] # <<>>,
         TopFrame(t).op = "instrument", Goes(t, <<>>), loaded \subseteq loaded',
         UNCHANGED <<rewriter, slots, recorded, fieldId2slot, nextSyntheticId, instanced>>
  PROVE  RecursionRight'
<1>1. AgentGrows
  BY DEF AgentGrows, TInv, Typed, AgentOK, slots, recorded
<1>2. IsSequence(<<>>) /\ 1 .. Len(<<>>) = {}
  BY EmptyGood DEF Good
<1>3. StacksRight'
  <2>1. Shape(<<>>)' /\ Plain(<<>>)'
    BY <1>2, FreshShape DEF Plain
  <2> QED BY <1>1, <2>1, StackMoves DEF RecursionRight
<1>4. \A g : Filling(g) => ~In(g, stack'[t]) /\ ~In(g, stack[t])
  <2>1. stack'[t] = <<>> /\ \A g : ~In(g, <<>>)
    BY <1>2 DEF Goes, TInv, IInv, In
  <2>2. \A g : In(g, stack[t]) /\ Filling(g) => g = TopFrame(t)
    BY FillersRight DEF RecursionRight
  <2> QED BY <2>1, <2>2 DEF Filling
<1>5. \A g : Filling(g) => (InStack(g)' <=> InStack(g))
  BY <1>4, NobodyFills
<1>6. \A x, j : Places(x)' = Places(x) /\ NameAt(x, j)' = NameAt(x, j) /\ NumberAt(x, j)' = NumberAt(x, j)
  BY DEF Places, NameAt, NumberAt, recorded
<1> QED BY <1>1, <1>3, <1>5, <1>6, OwnSlotsStay, ToldStep DEF slots, rewriter, recorded

LEMMA ReadRecordRight ==
  ASSUME TInv, NumbersRight, RecursionRight, NEW t \in Threads, ReadRecord(t)
  PROVE  RecursionRight'
<1>1. /\ stack[t] # <<>> /\ TopFrame(t).op = "instrument" /\ replies # <<>>
      /\ UNCHANGED <<rewriter, slots, nextSyntheticId, instanced>>
      /\ Head(replies) = replies[1]
  BY Tailing DEF ReadRecord, Busy, TInv, IInv
<1>2. CASE Head(replies)[1] = "ClassInfo"
  <2>1. /\ RecordClassInfo(replies[1][2][1], replies[1][2][2])
        /\ UNCHANGED <<classId2fieldsInfo, fieldId2slot, stack, loaded>>
    BY <1>1, <1>2 DEF ReadRecord, readUntilDone
  <2> QED BY <1>1, <1>2, <2>1, ClassRecordRight
<1>3. CASE Head(replies)[1] = "FieldInfo"
  <2>1. /\ RecordFieldInfo(replies[1][2][1], replies[1][2][2], replies[1][2][3], replies[1][2][4])
        /\ UNCHANGED <<className2classId, stack, loaded>>
    BY <1>1, <1>3 DEF ReadRecord, readUntilDone
  <2>2. Pending(1)
    BY <1>1, <1>3 DEF Pending
  <2> QED BY <1>1, <2>1, <2>2, FieldRecordRight
<1>4. CASE Head(replies)[1] = "InstClassFile"
  <2>1. /\ loaded' = loaded \cup {TopFrame(t).class} /\ Goes(t, <<>>)
        /\ UNCHANGED <<recorded, fieldId2slot>>
    BY <1>1, <1>4 DEF ReadRecord, readUntilDone
  <2> QED BY <1>1, <2>1, ClassFileRight
<1> QED BY <1>2, <1>3, <1>4 DEF ReadRecord, readUntilDone

-----------------------------------------------------------------------------
(* Slots: the steps that make up numbers.                                  *)

LEMMA FillingFrames ==
  ASSUME NEW f, IsFrame(f), NEW x, NEW q
  PROVE  /\ LET g == [f EXCEPT !.at = "fields", !.superSlots = x, !.rest = q]
            IN  /\ g.op = f.op /\ g.class = f.class /\ g.at = "fields" /\ g.superSlots = x /\ g.rest = q
         /\ LET g == [f EXCEPT !.rest = q]
            IN  /\ g.op = f.op /\ g.class = f.class /\ g.at = f.at /\ g.superSlots = f.superSlots
                /\ g.rest = q
<1>1. PICK S : f \in [Parts -> S]
  BY DEF IsFrame
<1> QED BY <1>1 DEF Parts

LEMMA SendOnly ==
  ASSUME NEW w, w.op = "send", w.at = "lookup"
  PROVE  /\ IsSequence(<<w>>) /\ <<w>> # <<>> /\ <<w>>[1] = w
         /\ \A i \in 1 .. Len(<<w>>) : <<w>>[i].at = "lookup"
<1>1. <<w>> \in Seq({w}) /\ <<w>> # <<>> /\ <<w>>[1] = w /\ \A i \in 1 .. Len(<<w>>) : <<w>>[i] = w
  OBVIOUS
<1> QED BY <1>1 DEF IsSequence

\* Whoever makes up numbers is the scanner, and no other thread does.
LEMMA OnlyFiller ==
  ASSUME TInv, StacksRight, NEW t \in Threads, stack[t] # <<>>, TopFrame(t).op = "without"
  PROVE  /\ t \in Scanners
         /\ \A h : Filling(h) => /\ \A u \in Threads \ {t} : ~In(h, stack[u])
                                 /\ In(h, stack[t]) => h = TopFrame(t)
<1>1. t \in Scanners
  BY FillersRight
<1>2. ASSUME NEW h, Filling(h), NEW u \in Threads, In(h, stack[u])
      PROVE  u = t
  <2>1. u \in Scanners
    BY <1>2, FillersRight DEF Filling
  <2> QED BY <1>1, <2>1, HierarchyAssumption
<1>3. \A h : Filling(h) /\ In(h, stack[t]) => h = TopFrame(t)
  BY FillersRight
<1> QED BY <1>1, <1>2, <1>3

\* A class without a number gets one; all its fields are left.
LEMMA PartialFirst ==
  ASSUME NEW c \in Classes
  PROVE  Partial(c, Fields[c])'
<1>1. PICK s : s = Fields[c]
  OBVIOUS
<1>2. s \in Seq(Names)
  BY <1>1, NumbersAssumption
<1>3. DOMAIN s = 1 .. Len(s)
  BY <1>2
<1>4. NamesOf(c) = {s[i] : i \in DOMAIN s}
  BY <1>1 DEF NamesOf
<1> HIDE <1>1
<1>5. Partial(c, s)'
  BY <1>3, <1>4 DEF Partial
<1> QED BY <1>1, <1>5

LEMMA SyntheticClassRight ==
  ASSUME TInv, NumbersRight, RecursionRight, NEW t \in Threads, SyntheticClass(t)
  PROVE  RecursionRight'
<1>1. PICK f, c, id, g, w : /\ f = TopFrame(t) /\ c = f.class /\ id = nextSyntheticId
                            /\ g = [f EXCEPT !.at = "fields", !.superSlots = id, !.rest = Fields[c]]
                            /\ w = Send("SynthClassInfo", <<id, c>>)
  OBVIOUS
<1>2. /\ stack[t] # <<>> /\ f.op = "without" /\ f.at = "find" /\ RecordClassInfo(id, c)
      /\ Continue(t, g, <<w>>) /\ nextSyntheticId' = id + 1
      /\ UNCHANGED <<fieldIdTables, classId2fieldsInfo, fieldId2slot, classTag2slots, classId2slots,
                     loaded, instanced>>
  BY <1>1 DEF SyntheticClass, Busy, rewriter, slots
<1>3. /\ IsFrame(f) /\ c \in Classes /\ c \in Untold
      /\ id \in Nat /\ id >= SYNTHETIC_ID_BASE
  BY <1>1, <1>2, TopReady DEF RecursionRight, FrameOK, Known, TInv, Typed, AgentOK
<1>4. g.op = "without" /\ g.class = c /\ g.at = "fields" /\ g.superSlots = id /\ g.rest = Fields[c]
  BY <1>1, <1>2, <1>3, FillingFrames
<1>5. w.op = "send" /\ w.at = "lookup"
  BY <1>1, SendsMade
<1>6. /\ \A d \in DOMAIN className2classId : /\ d \in DOMAIN className2classId'
                                             /\ className2classId'[d] = className2classId[d]
                                             /\ className2classId[d] \in Nat /\ className2classId[d] < id
      /\ \A d \in DOMAIN className2classId' : d \in DOMAIN className2classId \/ (d = c /\ className2classId'[d] = id)
      /\ c \in DOMAIN className2classId'
  <2>1. \A d \in DOMAIN className2classId : className2classId[d] \in Nat /\ className2classId[d] < id
    BY <1>1 DEF NumbersRight, NamesRight, TInv, Typed, AgentOK
  <2> QED BY <1>2, <2>1 DEF RecordClassInfo, Put
<1>7. id = nextSyntheticId /\ \A d \in DOMAIN className2classId' : className2classId'[d] = id => d = c
  <2>1. \A d \in DOMAIN className2classId : className2classId[d] # id
    BY <1>3, <1>6
  <2> QED BY <1>1, <1>6, <2>1
<1>8. \A x, j : Places(x)' = Places(x) /\ NameAt(x, j)' = NameAt(x, j) /\ NumberAt(x, j)' = NumberAt(x, j)
  BY <1>2 DEF Places, NameAt, NumberAt
<1>9. /\ t \in Scanners
      /\ \A h : Filling(h) => /\ \A u \in Threads \ {t} : ~In(h, stack[u])
                              /\ In(h, stack[t]) => h = f
  BY <1>1, <1>2, OnlyFiller DEF RecursionRight
<1>10. \A d \in Untold \cap DOMAIN className2classId : Partial(d, <<>>)
  <2>1. Recursing(TopFrame(t)) /\ ~Filling(TopFrame(t))
    BY <1>1, <1>2 DEF Recursing, Filling
  <2> QED BY <1>2, <2>1, UntoldComplete DEF RecursionRight
<1>11. f = TopFrame(t) /\ c = f.class /\ Recursing(f)
  BY <1>1, <1>2 DEF Recursing
<1> HIDE <1>1
<1>12. AgentGrows
  BY <1>2, <1>3, <1>6, <1>7 DEF AgentGrows
<1>13. FrameRight(g)'
  BY <1>2, <1>3, <1>4, <1>6, <1>7 DEF FrameRight, Numbering
<1>14. /\ StacksRight'
       /\ \A h : Filling(h) => (In(h, stack'[t]) <=> h = g)
  <2>1. PICK r : r = <<w>>
    OBVIOUS
  <2>2. IsSequence(r) /\ r # <<>> /\ r[1] = w /\ \A i \in 1 .. Len(r) : r[i].at = "lookup"
    BY <1>5, <2>1, SendOnly
  <2>3. Under(g, r[1])
    BY <1>4, <1>5, <2>2 DEF Under
  <2>4. Continue(t, g, r)
    BY <1>2, <2>1
  <2>5. g.op = TopFrame(t).op /\ g.class = TopFrame(t).class /\ Recursing(TopFrame(t))
    BY <1>2, <1>4, <1>11
  <2> HIDE <2>1
  <2>6. StacksRight /\ instanced \subseteq instanced' /\ stack[t] # <<>>
    BY <1>2 DEF RecursionRight
  <2>7. /\ StacksRight'
        /\ \A h : Filling(h) => /\ In(h, stack[t]) <=> h = TopFrame(t)
                                /\ In(h, stack'[t]) <=> h = g
    BY <1>9, <1>12, <1>13, <2>2, <2>3, <2>4, <2>5, <2>6, CallsMove
  <2> QED BY <2>7
<1>15. \A h : Filling(h) => (InStack(h)' <=> h = g)
  <2>1. \A u \in Threads \ {t} : stack'[u] = stack[u]
    BY <1>2 DEF Continue, Goes, TInv, IInv
  <2>2. \A h : InStack(h)' <=> \E u \in Threads : In(h, stack'[u])
    BY DEF InStack, In
  <2> QED BY <1>9, <1>14, <2>1, <2>2
<1>16. \A d \in DOMAIN className2classId : Partial(d, <<>>) => Partial(d, <<>>)'
  <2> SUFFICES ASSUME NEW d \in DOMAIN className2classId PROVE Partial(d, <<>>) => Partial(d, <<>>)'
    OBVIOUS
  <2>1. PICK x : x = className2classId[d]
    OBVIOUS
  <2> QED BY <1>6, <1>8, <2>1, PartialStays
<1>17. FillingRight'
  <2>1. ASSUME NEW h, InStack(h)', Completes(h, h.class)'
        PROVE  Partial(h.class, h.rest)'
    <3>1. h = g /\ className2classId'[c] = id
      BY <1>4, <1>15, <2>1 DEF Completes
    <3>2. Partial(c, Fields[c])'
      BY <1>3, PartialFirst
    <3> QED BY <1>4, <3>1, <3>2
  <2>2. ASSUME NEW d \in Untold \cap DOMAIN className2classId'
        PROVE  Partial(d, <<>>)' \/ \E h : InStack(h)' /\ Completes(h, d)'
    <3>1. CASE d \in DOMAIN className2classId
      BY <1>10, <1>16, <3>1
    <3>2. CASE d = c /\ className2classId'[d] = id
      <4>1. Filling(g)
        BY <1>4 DEF Filling
      <4>2. Completes(g, d)'
        BY <1>4, <3>2, <4>1 DEF Completes, Filling
      <4> QED BY <1>15, <4>1, <4>2
    <3> QED BY <1>6, <3>1, <3>2
  <2> QED BY <2>1, <2>2 DEF FillingRight
<1>18. SlotsInv'
  <2>1. \A d \in Untold \cap instanced : Partial(d, <<>>) => Partial(d, <<>>)'
    BY <1>16 DEF RecursionRight, SlotsInv, InstancedRight
  <2>2. \A d \in DOMAIN classTag2slots : classTag2slots'[d] = classTag2slots[d]
    BY <1>2
  <2>3. \A x \in DOMAIN classId2slots : classId2slots'[x] = classId2slots[x]
    BY <1>2
  <2>4. \A d \in DOMAIN classTag2slots' : d \in DOMAIN classTag2slots \/ TagRight(d)'
    BY <1>2
  <2>5. \A x \in DOMAIN classId2slots' : x \in DOMAIN classId2slots \/ IdRight(x)'
    BY <1>2
  <2>6. \A d \in instanced' : d \in instanced \/ InstancedRight(d)'
    BY <1>2
  <2>7. \A k : OwnSlot(k) => fieldIdTables[k] \in DOMAIN fieldId2slot
    BY DEF OwnSlot
  <2> QED BY <1>2, <1>12, <2>1, <2>2, <2>3, <2>4, <2>5, <2>6, <2>7, SlotsStay DEF RecursionRight
<1> QED BY <1>14, <1>17, <1>18 DEF RecursionRight

\* The last field is recorded.
LEMMA FilledRight ==
  ASSUME TInv, NumbersRight, RecursionRight, NEW t \in Threads, SyntheticField(t), TopFrame(t).rest = <<>>
  PROVE  RecursionRight'
<1>1. PICK f, c : f = TopFrame(t) /\ c = f.class
  OBVIOUS
<1>2. /\ stack[t] # <<>> /\ f.op = "without" /\ f.at = "fields" /\ f.rest = <<>>
      /\ Goes(t, Popped(t))
      /\ UNCHANGED <<className2classId, nextSyntheticId, fieldIdTables, classId2fieldsInfo, fieldId2slot,
                     classTag2slots, classId2slots, loaded, instanced>>
  BY <1>1 DEF SyntheticField, Busy, rewriter, slots
<1>3. AgentGrows
  BY <1>2 DEF AgentGrows, TInv, Typed, AgentOK
<1>4. Filling(f) /\ FrameRight(f) /\ c \in DOMAIN className2classId /\ InStack(f)
  <2>1. Filling(f)
    BY <1>2 DEF Filling
  <2>2. InStack(f)
    BY <1>1, <1>2, FillersRight DEF RecursionRight, InStack
  <2>3. FrameRight(f)
    BY <2>2, FillersRight DEF RecursionRight
  <2> QED BY <1>1, <2>1, <2>2, <2>3 DEF FrameRight
<1>5. \A h : Filling(h) => /\ \A u \in Threads \ {t} : ~In(h, stack[u])
                           /\ In(h, stack[t]) => h = f
  BY <1>1, <1>2, OnlyFiller DEF RecursionRight
<1>6. StacksRight' /\ \A h : Filling(h) => ~In(h, stack'[t])
  BY <1>1, <1>2, <1>3, <1>4, PopMoves DEF RecursionRight
<1>7. \A h : Filling(h) => ~InStack(h)'
  <2>1. \A u \in Threads \ {t} : stack'[u] = stack[u]
    BY <1>2 DEF Goes, TInv, IInv
  <2>2. \A h : InStack(h)' <=> \E u \in Threads : In(h, stack'[u])
    BY DEF InStack, In
  <2> QED BY <1>5, <1>6, <2>1, <2>2
<1>8. \A d \in DOMAIN className2classId : Partial(d, <<>>) => Partial(d, <<>>)'
  BY <1>2 DEF Partial, HasEntry, Places, NameAt, NumberAt
<1>9. FillingRight'
  <2>1. ASSUME NEW d \in Untold \cap DOMAIN className2classId
        PROVE  Partial(d, <<>>)
    <3> SUFFICES ASSUME NEW h, InStack(h), Completes(h, d) PROVE Partial(d, <<>>)
      BY DEF RecursionRight, FillingRight
    <3>1. Filling(h) /\ h.class = d
      BY DEF Completes
    <3>2. Partial(d, h.rest)
      BY <3>1 DEF RecursionRight, FillingRight
    <3>3. h = f
      BY <1>5, <3>1 DEF InStack
    <3> QED BY <1>2, <3>2, <3>3
  <2>2. UNCHANGED className2classId
    BY <1>2
  <2>3. \A h : ~(InStack(h)' /\ Completes(h, h.class)')
    BY <1>7 DEF Completes, Filling
  <2>4. \A d \in Untold \cap DOMAIN className2classId' : Partial(d, <<>>)'
    BY <1>8, <2>1, <2>2
  <2> HIDE <1>1, <1>2
  <2> QED BY <2>3, <2>4 DEF FillingRight
<1>10. SlotsInv'
  <2>1. \A d \in Untold \cap instanced : Partial(d, <<>>) => Partial(d, <<>>)'
    BY <1>8 DEF RecursionRight, SlotsInv, InstancedRight
  <2>2. \A d \in DOMAIN classTag2slots : classTag2slots'[d] = classTag2slots[d]
    BY <1>2
  <2>3. \A x \in DOMAIN classId2slots : classId2slots'[x] = classId2slots[x]
    BY <1>2
  <2>4. \A d \in DOMAIN classTag2slots' : d \in DOMAIN classTag2slots \/ TagRight(d)'
    BY <1>2
  <2>5. \A x \in DOMAIN classId2slots' : x \in DOMAIN classId2slots \/ IdRight(x)'
    BY <1>2
  <2>6. \A d \in instanced' : d \in instanced \/ InstancedRight(d)'
    BY <1>2
  <2>7. \A k : OwnSlot(k) => fieldIdTables[k] \in DOMAIN fieldId2slot
    BY DEF OwnSlot
  <2> QED BY <1>2, <1>3, <2>1, <2>2, <2>3, <2>4, <2>5, <2>6, <2>7, SlotsStay DEF RecursionRight
<1> QED BY <1>6, <1>9, <1>10 DEF RecursionRight

\* A field of the class gets its number, and its record.
LEMMA FillsRight ==
  ASSUME TInv, NumbersRight, RecursionRight, NEW t \in Threads, SyntheticField(t), TopFrame(t).rest # <<>>
  PROVE  RecursionRight'
<1>1. PICK f, c, x, name, id, tl, g, w, v, n :
        /\ f = TopFrame(t) /\ c = f.class /\ x = f.superSlots /\ name = Head(f.rest)
        /\ id = nextSyntheticId /\ tl = Tail(f.rest) /\ g = [f EXCEPT !.rest = tl]
        /\ w = Send("SynthFieldInfo", <<id, <<c, name>>>>)
        /\ v = (IF <<c, name>> \in Static THEN -id ELSE id) /\ n = NextPlace(x)
  OBVIOUS
<1>2. /\ stack[t] # <<>> /\ f.op = "without" /\ f.at = "fields" /\ f.rest # <<>>
      /\ RecordFieldInfo(x, name, id, <<c, name>> \in Static)
      /\ Continue(t, g, <<w>>) /\ nextSyntheticId' = id + 1
      /\ UNCHANGED <<className2classId, fieldIdTables, classTag2slots, classId2slots, loaded, instanced>>
  BY <1>1 DEF SyntheticField, Busy, rewriter, slots
<1>3. /\ IsFrame(f) /\ FrameRight(f) /\ FrameOK(f)
      /\ id \in Nat \ {0} /\ id >= SYNTHETIC_ID_BASE
  BY <1>1, <1>2, TopReady, SlotsAssumption DEF RecursionRight, TInv, Typed, AgentOK
<1>4. /\ g.op = f.op /\ g.class = c /\ g.at = "fields" /\ g.superSlots = x /\ g.rest = tl
      /\ w.op = "send" /\ w.at = "lookup"
  BY <1>1, <1>2, <1>3, FillingFrames, SendsMade
<1>5. /\ Filling(f) /\ Filling(g) /\ c \in DOMAIN className2classId /\ x \in Nat
      /\ \A d \in DOMAIN className2classId : className2classId[d] = x => d = c
  <2>1. Filling(f) /\ Filling(g)
    BY <1>2, <1>4 DEF Filling
  <2> QED BY <1>1, <1>3, <2>1 DEF FrameRight, Numbering
<1>6. IsSequence(f.rest)
  BY <1>2, <1>3 DEF FrameOK, IsSequence
<1>7. (v < 0 <=> <<c, name>> \in Static) /\ v \in Int
  BY <1>1, <1>3
<1>8. Records(x, name, v)
  <2>1. CASE <<c, name>> \in Static
    <3>1. v = -id /\ -v = id /\ v < 0
      BY <1>1, <1>3, <2>1
    <3> QED BY <1>2, <2>1, <3>1 DEF RecordFieldInfo, Records
  <2>2. CASE <<c, name>> \notin Static
    BY <1>1, <1>2, <1>3, <2>2 DEF RecordFieldInfo, Records
  <2> QED BY <2>1, <2>2
<1>9. /\ \A y : y # x => Places(y)' = Places(y)
      /\ \A y : \A j \in Places(y) : /\ j \in Places(y)' /\ NameAt(y, j)' = NameAt(y, j)
                                     /\ NumberAt(y, j)' = NumberAt(y, j)
      /\ n \notin Places(x) /\ Places(x)' = Places(x) \cup {n}
      /\ NameAt(x, n)' = name /\ NumberAt(x, n)' = v
  <2>1. InfosAreSequences /\ n = NextPlace(x)
    BY <1>1 DEF NumbersRight, InfosRight
  <2>2. InfosAreSequences /\ x \in Nat /\ Records(x, name, v) /\ n = NextPlace(x)
    BY <1>5, <1>8, <2>1
  <2> HIDE <1>1, <1>2, <1>3, <1>4, <1>5, <1>6, <1>7, <1>8, <2>1
  <2> QED BY <2>2, RecordsEntry
<1>10. /\ t \in Scanners
       /\ \A h : Filling(h) => /\ \A u \in Threads \ {t} : ~In(h, stack[u])
                               /\ In(h, stack[t]) => h = f
       /\ InStack(f)
  <2>1. In(f, stack[t])
    BY <1>1, <1>2, FillersRight DEF RecursionRight
  <2> QED BY <1>1, <1>2, <2>1, OnlyFiller DEF RecursionRight, InStack
<1>11. f = TopFrame(t) /\ c = f.class /\ x = f.superSlots /\ name = Head(f.rest) /\ tl = Tail(f.rest)
       /\ Recursing(f) /\ id = nextSyntheticId
  BY <1>1, <1>2 DEF Recursing
<1>12. \A k : Numbered(k) => fieldIdTables[k] # id
  <2>1. lastFieldId < SYNTHETIC_ID_BASE
    BY TypedImplies DEF TInv, TypeOK
  <2>2. \A k : Numbered(k) => fieldIdTables[k] \in 1 .. lastFieldId /\ lastFieldId \in Nat
    BY DEF Numbered, ToldKeys, NumbersRight, TablesRight, TInv, Typed, RewriterOK
  <2> QED BY <1>3, <2>1, <2>2, SlotsAssumption
<1>13. \A m \in DOMAIN fieldId2slot : m # id => m \in DOMAIN fieldId2slot' /\ fieldId2slot'[m] = fieldId2slot[m]
  BY <1>2 DEF RecordFieldInfo, Put
<1> HIDE <1>1
<1>14. AgentGrows
  BY <1>2, <1>3, <1>11 DEF AgentGrows, TInv, Typed, AgentOK
<1>15. FrameRight(g)'
  <2>1. FrameRight(f)'
    BY <1>3, <1>14, FramesStay
  <2> QED BY <1>2, <1>4, <1>5, <1>11, <2>1 DEF FrameRight, Numbering, Filling
<1>16. /\ StacksRight'
       /\ \A h : Filling(h) => (In(h, stack'[t]) <=> h = g)
  <2>1. PICK r : r = <<w>>
    OBVIOUS
  <2>2. IsSequence(r) /\ r # <<>> /\ r[1] = w /\ \A i \in 1 .. Len(r) : r[i].at = "lookup"
    BY <1>4, <2>1, SendOnly
  <2>3. Under(g, r[1])
    BY <1>2, <1>4, <2>2 DEF Under
  <2>4. Continue(t, g, r)
    BY <1>2, <2>1
  <2>5. g.op = TopFrame(t).op /\ g.class = TopFrame(t).class /\ Recursing(TopFrame(t))
    BY <1>4, <1>11
  <2> HIDE <2>1
  <2>6. StacksRight /\ instanced \subseteq instanced' /\ stack[t] # <<>>
    BY <1>2 DEF RecursionRight
  <2>7. /\ StacksRight'
        /\ \A h : Filling(h) => /\ In(h, stack[t]) <=> h = TopFrame(t)
                                /\ In(h, stack'[t]) <=> h = g
    BY <1>10, <1>14, <1>15, <2>2, <2>3, <2>4, <2>5, <2>6, CallsMove
  <2> QED BY <2>7
<1>17. \A h : Filling(h) => (InStack(h)' <=> h = g)
  <2>1. \A u \in Threads \ {t} : stack'[u] = stack[u]
    BY <1>2 DEF Continue, Goes, TInv, IInv
  <2>2. \A h : InStack(h)' <=> \E u \in Threads : In(h, stack'[u])
    BY DEF InStack, In
  <2> QED BY <1>10, <1>16, <2>1, <2>2
<1>18. \A d \in DOMAIN className2classId : Partial(d, <<>>) => Partial(d, <<>>)'
  <2> SUFFICES ASSUME NEW d \in DOMAIN className2classId
               PROVE  Partial(d, <<>>) => Partial(d, <<>>)'
    OBVIOUS
  <2>1. PICK y : y = className2classId[d]
    OBVIOUS
  <2>2. className2classId'[d] = className2classId[d]
    BY <1>2
  <2> QED BY <1>9, <2>1, <2>2, PartialStays
<1>19. ASSUME x = className2classId[c]
       PROVE  Completes(f, c) /\ Partial(c, f.rest) /\ Partial(c, tl)'
  <2>1. Completes(f, c) /\ Partial(c, f.rest)
    BY <1>5, <1>10, <1>11, <1>19 DEF Completes, RecursionRight, FillingRight
  <2>2. PICK q : q = f.rest
    OBVIOUS
  <2>3. /\ IsSequence(q) /\ q # <<>> /\ Partial(c, q) /\ name = Head(q) /\ tl = Tail(q)
        /\ UNCHANGED className2classId
        /\ \A j \in Places(x) : NameAt(x, j)' = NameAt(x, j) /\ NumberAt(x, j)' = NumberAt(x, j)
    BY <1>2, <1>6, <1>9, <1>11, <2>1, <2>2
  <2>4. Partial(c, Tail(q))'
    <3> HIDE <1>2, <1>11, <2>2
    <3> QED BY <1>7, <1>9, <1>19, <2>3, PartialNext
  <2>5. Partial(c, tl)'
    BY <2>3, <2>4
  <2> QED BY <2>1, <2>5
<1>20. FillingRight'
  <2>1. ASSUME NEW h, InStack(h)', Completes(h, h.class)'
        PROVE  Partial(h.class, h.rest)'
    <3>1. h = g /\ className2classId'[c] = x
      BY <1>4, <1>17, <2>1 DEF Completes
    <3> QED BY <1>2, <1>4, <1>19, <3>1
  <2>2. ASSUME NEW d \in Untold \cap DOMAIN className2classId'
        PROVE  Partial(d, <<>>)' \/ \E h : InStack(h)' /\ Completes(h, d)'
    <3>1. CASE className2classId[d] = x
      <4>1. d = c /\ className2classId'[d] = x
        BY <1>2, <1>5, <3>1
      <4>2. Completes(g, d)'
        BY <1>4, <1>5, <4>1 DEF Completes, Filling
      <4> QED BY <1>5, <1>17, <4>2
    <3>2. CASE className2classId[d] # x
      <4>1. ASSUME NEW h, InStack(h), Completes(h, d) PROVE FALSE
        <5>1. h = f
          BY <1>10, <4>1 DEF Completes, InStack
        <5> QED BY <1>11, <3>2, <4>1, <5>1 DEF Completes
      <4>2. Partial(d, <<>>)
        BY <1>2, <4>1 DEF RecursionRight, FillingRight
      <4> QED BY <1>2, <1>18, <4>2
    <3> QED BY <3>1, <3>2
  <2> QED BY <2>1, <2>2 DEF FillingRight
<1>21. SlotsInv'
  <2>1. ASSUME NEW d \in Untold \cap instanced, Partial(d, <<>>)
        PROVE  Partial(d, <<>>)'
    <3>1. d \in DOMAIN className2classId
      BY DEF RecursionRight, SlotsInv, InstancedRight
    <3> QED BY <1>18, <2>1, <3>1
  <2>2. \A d \in DOMAIN classTag2slots : classTag2slots'[d] = classTag2slots[d]
    BY <1>2
  <2>3. \A y \in DOMAIN classId2slots : classId2slots'[y] = classId2slots[y]
    BY <1>2
  <2>4. \A d \in DOMAIN classTag2slots' : d \in DOMAIN classTag2slots \/ TagRight(d)'
    BY <1>2
  <2>5. \A y \in DOMAIN classId2slots' : y \in DOMAIN classId2slots \/ IdRight(y)'
    BY <1>2
  <2>6. \A d \in instanced' : d \in instanced \/ InstancedRight(d)'
    BY <1>2
  <2>7. \A k : Numbered(k) => fieldIdTables'[k] = fieldIdTables[k]
    BY <1>2
  <2>8. \A k : LET m == fieldIdTables[k]
               IN  OwnSlot(k) => m \in DOMAIN fieldId2slot' /\ fieldId2slot'[m] = fieldId2slot[m]
    BY <1>12, <1>13 DEF OwnSlot
  <2> QED BY <1>2, <1>14, <2>1, <2>2, <2>3, <2>4, <2>5, <2>6, <2>7, <2>8, SlotsStay DEF RecursionRight
<1> QED BY <1>16, <1>20, <1>21 DEF RecursionRight

LEMMA SyntheticFieldRight ==
  ASSUME TInv, NumbersRight, RecursionRight, NEW t \in Threads, SyntheticField(t)
  PROVE  RecursionRight' /\ Numbering(TopFrame(t))
<1>1. stack[t] # <<>> /\ Filling(TopFrame(t))
  BY DEF SyntheticField, Busy, Filling
<1>2. Numbering(TopFrame(t))
  BY <1>1, TopReady DEF RecursionRight, FrameRight
<1> QED BY <1>2, FilledRight, FillsRight

-----------------------------------------------------------------------------
(* Slots: the step that assigns them.                                      *)

\* What an instance field of class c gets, when the slots begin at base.
Gives(c, base, x, given) ==
  x = className2classId[c] /\ given = SlotsFrom(base, Get(classId2fieldsInfo, x, <<>>))

\* A class whose fields are all recorded gets slots for all its instance fields, and one
\* for each record of another number.
LEMMA GivenSlots ==
  ASSUME NumbersRight, NEW c \in Classes, Partial(c, <<>>), NEW base \in Nat,
         NEW x, NEW given, Gives(c, base, x, given)
  PROVE  /\ Cardinality(DOMAIN given) \in Nat /\ Cardinality(Own(c)) <= Cardinality(DOMAIN given)
         /\ \A m \in DOMAIN given : given[m] \in base .. base + Cardinality(DOMAIN given) - 1
         /\ \A m, k \in DOMAIN given : given[m] = given[k] => m = k
         /\ \A m : m \in DOMAIN given <=> \E j \in Places(x) : NumberAt(x, j) = m /\ m > 0
<1>0. PICK info : info = Get(classId2fieldsInfo, x, <<>>)
  OBVIOUS
<1>1. IsSequence(info) /\ Places(x) = 1 .. Len(info) /\ (x \in DOMAIN classId2fieldsInfo => info = classId2fieldsInfo[x])
  <2>1. CASE x \in DOMAIN classId2fieldsInfo
    BY <1>0, <2>1 DEF NumbersRight, InfosRight, InfosAreSequences, Get, Places
  <2>2. CASE x \notin DOMAIN classId2fieldsInfo
    <3>1. IsSequence(<<>>) /\ 1 .. Len(<<>>) = {}
      BY EmptyGood DEF Good
    <3> QED BY <1>0, <2>2, <3>1 DEF Get, Places
  <2> QED BY <2>1, <2>2
<1>2. \A j \in Places(x) : x \in DOMAIN classId2fieldsInfo /\ info[j][2] = NumberAt(x, j)
  BY <1>1 DEF Places, NumberAt
<1>3. /\ \A j \in Places(x) : NumberAt(x, j) \in Int /\ NumberAt(x, j) # 0
      /\ \A i, j \in Places(x) : NumberAt(x, i) = NumberAt(x, j) => i = j
  BY <1>2 DEF NumbersRight, InfosRight, EntryRight, EntriesApart, Magnitude
<1>4. /\ DOMAIN given = InstanceIds(info) /\ Cardinality(DOMAIN given) \in Nat /\ IsFiniteSet(DOMAIN given)
      /\ \A m \in DOMAIN given : given[m] \in base .. base + Cardinality(DOMAIN given) - 1
      /\ \A m, k \in DOMAIN given : given[m] = given[k] => m = k
  <2>1. /\ \A i \in 1 .. Len(info) : info[i][2] \in Int
        /\ \A i, j \in 1 .. Len(info) : info[i][2] = info[j][2] => i = j
    BY <1>1, <1>2, <1>3
  <2>2. given = SlotsFrom(base, info)
    BY <1>0 DEF Gives
  <2> HIDE <1>0
  <2> QED BY <1>1, <2>1, <2>2, SlotsDense
<1>5. \A m : m \in DOMAIN given <=> \E j \in Places(x) : NumberAt(x, j) = m /\ m > 0
  <2>1. DOMAIN info = Places(x)
    BY <1>1 DEF IsSequence
  <2> QED BY <1>2, <1>4, <2>1 DEF InstanceIds
<1>6. PICK entry : entry = [d \in Own(c) |-> CHOOSE j \in Places(x) : NameAt(x, j) = d[2] /\ NumberAt(x, j) > 0]
  OBVIOUS
<1>7. \A d \in Own(c) : entry[d] \in Places(x) /\ NameAt(x, entry[d]) = d[2] /\ NumberAt(x, entry[d]) > 0
  <2> SUFFICES ASSUME NEW d \in Own(c)
               PROVE  \E j \in Places(x) : NameAt(x, j) = d[2] /\ NumberAt(x, j) > 0
    BY <1>6
  <2>1. d = <<c, d[2]>> /\ d[2] \in NamesOf(c) /\ d \notin Static
    BY DEF Own
  <2>2. HasEntry(x, d)
    <3>1. PICK e : e = <<>>
      OBVIOUS
    <3>2. 1 .. Len(e) = {} /\ Partial(c, e)
      BY <3>1
    <3> QED BY <2>1, <3>2 DEF Partial, Gives
  <2>3. PICK j \in Places(x) : NameAt(x, j) = d[2] /\ ~(NumberAt(x, j) < 0)
    BY <2>1, <2>2 DEF HasEntry
  <2>4. NumberAt(x, j) > 0
    BY <1>3, <2>3
  <2> QED BY <2>3, <2>4
<1>8. PICK number : number = [d \in Own(c) |-> NumberAt(x, entry[d])]
  OBVIOUS
<1> HIDE <1>6
<1>9. number \in [Own(c) -> DOMAIN given]
  BY <1>5, <1>7, <1>8
<1>10. \A d, e \in Own(c) : number[d] = number[e] => d = e
  <2> SUFFICES ASSUME NEW d \in Own(c), NEW e \in Own(c), number[d] = number[e] PROVE d = e
    OBVIOUS
  <2>1. entry[d] = entry[e]
    BY <1>3, <1>7, <1>8
  <2>2. d = <<c, d[2]>> /\ e = <<c, e[2]>>
    BY DEF Own
  <2> QED BY <1>7, <2>1, <2>2
<1>11. number \in Injection(Own(c), DOMAIN given)
  <2> HIDE <1>8
  <2> QED BY <1>9, <1>10 DEF Injection, IsInjective
<1>12. Cardinality(Own(c)) <= Cardinality(DOMAIN given)
  BY <1>4, <1>11, FS_Injection
<1> QED BY <1>4, <1>5, <1>12

LEMMA AssignSlotsRight ==
  ASSUME TInv, NumbersRight, RecursionRight, NEW t \in Threads, AssignSlots(t)
  PROVE  RecursionRight'
<1>1. PICK f, c, x, info, given, total :
        /\ f = TopFrame(t) /\ c = f.class /\ x = className2classId[c]
        /\ info = Get(classId2fieldsInfo, x, <<>>) /\ given = SlotsFrom(f.superSlots, info)
        /\ total = f.superSlots + Cardinality(DOMAIN given)
  OBVIOUS
<1>2. /\ stack[t] # <<>> /\ f.op = "slots" /\ f.at = "assign"
      /\ UNCHANGED <<className2classId, nextSyntheticId, classId2fieldsInfo, fieldIdTables, loaded>>
  BY <1>1 DEF AssignSlots, Busy, Tables, recorded, rewriter
<1>3. /\ Known(c) /\ c \in Classes /\ c \in DOMAIN className2classId /\ Super[c] # NoClass
      /\ f.superSlots = Size(Super[c]) /\ Rank(Super[c]) /\ c # Object
  <2>1. FrameOK(f) /\ Ready(f) /\ FrameRight(f)
    BY <1>1, <1>2, TopReady DEF RecursionRight
  <2> QED BY <1>1, <1>2, <2>1, SlotsAssumption DEF FrameOK, Known, Ready, FrameRight
<1>4. CASE c \in DOMAIN classTag2slots
  <2>1. Return(t, classTag2slots[c]) /\ UNCHANGED <<classTag2slots, classId2slots, fieldId2slot>>
    BY <1>1, <1>4 DEF AssignSlots, slots
  <2>2. classTag2slots[c] = Size(c)'
    BY <1>3, <2>1 DEF Size
  <2>3. AgentGrows /\ Rank(c)'
    BY <1>2, <1>4, <2>1 DEF AgentGrows, TInv, Typed, AgentOK, Rank
  <2>4. /\ \A d \in DOMAIN classTag2slots : classTag2slots'[d] = classTag2slots[d]
        /\ \A y \in DOMAIN classId2slots : classId2slots'[y] = classId2slots[y]
        /\ \A d \in DOMAIN classTag2slots' : d \in DOMAIN classTag2slots \/ TagRight(d)'
        /\ \A y \in DOMAIN classId2slots' : y \in DOMAIN classId2slots \/ IdRight(y)'
        /\ \A k : OwnSlot(k) => /\ fieldIdTables[k] \in DOMAIN fieldId2slot'
                               /\ fieldId2slot'[fieldIdTables[k]] = fieldId2slot[fieldIdTables[k]]
    BY <2>1 DEF OwnSlot
  <2> QED BY <1>1, <1>2, <1>3, <2>1, <2>2, <2>3, <2>4, ReturnRight
<1>5. CASE c \notin DOMAIN classTag2slots
  <2>1. /\ fieldId2slot' = [m \in DOMAIN fieldId2slot \cup DOMAIN given |->
                              IF m \in DOMAIN given THEN given[m] ELSE fieldId2slot[m]]
        /\ classId2slots' = Put(classId2slots, x, total)
        /\ classTag2slots' = Put(classTag2slots, c, total)
        /\ Return(t, total)
    BY <1>1, <1>5 DEF AssignSlots
  <2>2. Partial(c, <<>>)
    <3>1. CASE c \notin Untold
      BY <1>3, <3>1, ToldComplete
    <3>2. CASE c \in Untold
      <4>1. Recursing(TopFrame(t)) /\ ~Filling(TopFrame(t))
        BY <1>1, <1>2 DEF Recursing, Filling
      <4> QED BY <1>2, <1>3, <3>2, <4>1, UntoldComplete DEF RecursionRight
    <3> QED BY <3>1, <3>2
  <2>3. Size(Super[c]) \in Nat /\ Cardinality(Own(c)) \in Nat
    <3>1. Size(Super[c]) \in Nat
      BY <1>3 DEF Rank, Size, RecursionRight, SlotsInv, TagRight
    <3> QED BY <1>3, <3>1, TotalFacts
  <2>4. PICK base \in Nat, size \in Nat :
        /\ base = Size(Super[c]) /\ size = Cardinality(DOMAIN given)
        /\ Cardinality(Own(c)) <= size
        /\ \A m \in DOMAIN given : given[m] \in base .. base + size - 1
        /\ \A m, k \in DOMAIN given : given[m] = given[k] => m = k
        /\ \A m : m \in DOMAIN given <=> \E j \in Places(x) : NumberAt(x, j) = m /\ m > 0
    <3>1. PICK base \in Nat : base = Size(Super[c])
      BY <2>3
    <3>2. Gives(c, base, x, given)
      BY <1>1, <1>3, <3>1 DEF Gives
    <3>3. /\ Cardinality(DOMAIN given) \in Nat /\ Cardinality(Own(c)) <= Cardinality(DOMAIN given)
          /\ \A m \in DOMAIN given : given[m] \in base .. base + Cardinality(DOMAIN given) - 1
          /\ \A m, k \in DOMAIN given : given[m] = given[k] => m = k
          /\ \A m : m \in DOMAIN given <=> \E j \in Places(x) : NumberAt(x, j) = m /\ m > 0
      <4> HIDE <1>1, <2>1
      <4> QED BY <1>3, <2>2, <3>2, GivenSlots
    <3> QED BY <3>1, <3>3
  <2>5. /\ total = base + size /\ c = TopFrame(t).class /\ x = className2classId[c]
        /\ TopFrame(t).op = "slots" /\ total \in Nat
        /\ \A m \in DOMAIN given : given[m] \in base .. total - 1
    BY <1>1, <1>2, <1>3, <2>3, <2>4
  <2> HIDE <1>1
  <2>6. /\ \A m \in DOMAIN given : m \in DOMAIN fieldId2slot' /\ fieldId2slot'[m] = given[m]
        /\ \A m \in DOMAIN fieldId2slot : m \notin DOMAIN given => /\ m \in DOMAIN fieldId2slot'
                                                                   /\ fieldId2slot'[m] = fieldId2slot[m]
    BY <2>1
  <2>7. /\ c \in DOMAIN classTag2slots' /\ classTag2slots'[c] = total
        /\ \A d \in DOMAIN classTag2slots : d \in DOMAIN classTag2slots' /\ classTag2slots'[d] = classTag2slots[d]
        /\ \A d \in DOMAIN classTag2slots' : d \in DOMAIN classTag2slots \/ d = c
    BY <1>5, <2>1 DEF Put
  <2>8. x \notin DOMAIN classId2slots
    <3> SUFFICES ASSUME x \in DOMAIN classId2slots PROVE FALSE
      OBVIOUS
    <3>1. PICK d \in DOMAIN classTag2slots : className2classId[d] = x
      BY DEF RecursionRight, SlotsInv, IdRight
    <3>2. d \in DOMAIN className2classId
      BY DEF RecursionRight, SlotsInv, TagRight
    <3>3. d = c
      BY <1>3, <2>5, <3>1, <3>2 DEF NumbersRight, NamesRight
    <3> QED BY <1>5, <3>3
  <2>9. /\ \A y \in DOMAIN classId2slots : classId2slots'[y] = classId2slots[y]
        /\ \A y \in DOMAIN classId2slots' : y \in DOMAIN classId2slots \/ (y = x /\ classId2slots'[y] = total)
    BY <2>1, <2>8 DEF Put
  <2>10. AgentGrows /\ Rank(c)' /\ total = Size(c)' /\ base = Size(Super[c])'
    BY <1>2, <1>3, <2>4, <2>7 DEF AgentGrows, TInv, Typed, AgentOK, Rank, Size
  <2>11. ASSUME NEW k, OwnSlot(k)
         PROVE  fieldIdTables[k] \notin DOMAIN given
    <3> SUFFICES ASSUME fieldIdTables[k] \in DOMAIN given PROVE FALSE
      OBVIOUS
    <3>1. PICK j \in Places(x) : NumberAt(x, j) = fieldIdTables[k]
      BY <2>4
    <3>2. PICK d : d = k[1]
      OBVIOUS
    <3>3. d \in DOMAIN classTag2slots /\ d \notin Untold /\ k = <<d, k[2]>> /\ k[2] \in NamesOf(d)
      BY <2>11, <3>2 DEF OwnSlot, Numbered, ToldKeys
    <3>4. Known(d) /\ d \in Classes
      BY <3>3 DEF RecursionRight, SlotsInv, TagRight, Known
    <3>5. /\ d \in DOMAIN className2classId /\ className2classId[d] = classIds[d]
          /\ \A n \in NamesOf(d) : Recorded(<<d, n>>)
      BY <3>3, <3>4, ToldComplete
    <3>6. PICK y, i : i \in Places(y) /\ EntryOf(y, i, k) /\ y = classIds[d]
      BY <3>2, <3>3, <3>5 DEF Recorded
    <3>7. NumberAt(y, i) = NumberAt(x, j)
      <4>1. ~IsStatic(k[1], k[2])
        BY <2>11, <3>2, <3>3, <3>4, StaticKeys DEF OwnSlot
      <4> QED BY <3>1, <3>6, <4>1 DEF EntryOf, Signed
    <3>8. x = y
      BY <3>1, <3>6, <3>7 DEF NumbersRight, InfosRight, EntriesApart, Places
    <3>9. d = c
      BY <1>3, <2>5, <3>5, <3>6, <3>8 DEF NumbersRight, NamesRight
    <3> QED BY <1>5, <3>3, <3>9
  <2>12. \A k : LET m == fieldIdTables[k]
                IN  OwnSlot(k) => m \in DOMAIN fieldId2slot' /\ fieldId2slot'[m] = fieldId2slot[m]
    BY <2>6, <2>11 DEF OwnSlot
  <2>13. ASSUME c \notin Untold
         PROVE  SlotsOf(c)'
    <3>1. /\ x = classIds[c] /\ \A n \in NamesOf(c) : Recorded(<<c, n>>)
      BY <1>3, <2>5, <2>13, ToldComplete
    <3>2. ASSUME NEW n \in NamesOf(c), <<c, n>> \notin Static
          PROVE  fieldIdTables[<<c, n>>] \in DOMAIN given /\ Numbered(<<c, n>>)
      <4>1. PICK k : k = <<c, n>>
        OBVIOUS
      <4>2. k[1] = c /\ k \notin Static /\ Recorded(k)
        BY <3>1, <3>2, <4>1
      <4>3. PICK j \in Places(x) : EntryOf(x, j, k)
        BY <3>1, <4>2 DEF Recorded
      <4>7. ~IsStatic(k[1], k[2])
        BY <1>3, <3>2, <4>1, StaticKeys
      <4>4. Numbered(k) /\ NumberAt(x, j) = fieldIdTables[k]
        BY <4>3, <4>7 DEF EntryOf, Signed
      <4>5. fieldIdTables[k] \in 1 .. lastFieldId /\ lastFieldId \in Nat
        BY <4>4 DEF Numbered, ToldKeys, NumbersRight, TablesRight, TInv, Typed, RewriterOK
      <4>6. fieldIdTables[k] > 0
        BY <4>5
      <4>8. fieldIdTables[k] \in DOMAIN given
        BY <2>4, <4>3, <4>4, <4>6
      <4> QED BY <4>1, <4>4, <4>8
    <3>3. \A n, m \in NamesOf(c) : <<c, n>> \notin Static /\ <<c, m>> \notin Static
            /\ fieldIdTables[<<c, n>>] = fieldIdTables[<<c, m>>] => n = m
      BY <3>2 DEF Numbered, ToldKeys, NumbersRight, TablesRight
    <3>4. \A n \in NamesOf(c) : <<c, n>> \notin Static =>
            /\ fieldIdTables'[<<c, n>>] \in DOMAIN fieldId2slot'
            /\ fieldId2slot'[fieldIdTables'[<<c, n>>]] = given[fieldIdTables[<<c, n>>]]
            /\ fieldId2slot'[fieldIdTables'[<<c, n>>]] \in base .. total - 1
      BY <1>2, <2>5, <2>6, <3>2
    <3>5. \A n, m \in NamesOf(c) : <<c, n>> \notin Static /\ <<c, m>> \notin Static
            /\ fieldId2slot'[fieldIdTables'[<<c, n>>]] = fieldId2slot'[fieldIdTables'[<<c, m>>]] => n = m
      BY <2>4, <3>2, <3>3, <3>4
    <3> QED BY <2>10, <3>4, <3>5 DEF SlotsOf
  <2>14. TagRight(c)'
    <3>1. Known(c)'
      <4>1. loaded \subseteq loaded'
        BY <1>2
      <4> QED BY <1>3, <4>1, TypesStay
    <3>2. base + Cardinality(Own(c)) <= total
      BY <2>3, <2>4, <2>5
    <3>3. Rank(Super[c])'
      BY <1>3, <2>7 DEF Rank
    <3> QED BY <1>2, <1>3, <2>5, <2>10, <2>13, <3>1, <3>2, <3>3 DEF TagRight
  <2>15. \A d \in DOMAIN classTag2slots' : d \in DOMAIN classTag2slots \/ TagRight(d)'
    BY <2>7, <2>14
  <2>16. \A y \in DOMAIN classId2slots' : y \in DOMAIN classId2slots \/ IdRight(y)'
    BY <1>2, <2>5, <2>7, <2>9 DEF IdRight
  <2>17. Return(t, total) /\ stack[t] # <<>> /\ \A d \in DOMAIN classTag2slots : classTag2slots'[d] = classTag2slots[d]
    BY <1>2, <2>1, <2>7
  <2> HIDE <2>1, <2>6, <2>7, <1>5
  <2> QED BY <1>2, <1>3, <2>5, <2>9, <2>10, <2>12, <2>15, <2>16, <2>17, ReturnRight
<1> QED BY <1>4, <1>5

-----------------------------------------------------------------------------
(* Slots: the invariant, and what follows.                                 *)

SInv == TInv /\ NumbersRight /\ RecursionRight

LEMMA InitSInv == Init => SInv
<1> SUFFICES ASSUME Init PROVE SInv
  OBVIOUS
<1>1. /\ replies = <<>> /\ classIds = Empty /\ fieldIdTables = Empty /\ work[1] = NoClass /\ code = {}
      /\ className2classId = Empty /\ classId2fieldsInfo = Empty /\ classTag2slots = Empty
      /\ classId2slots = Empty /\ staticSlots = 0 /\ stack = [t \in Threads |-> <<>>]
      /\ loaded = {} /\ instanced = {}
  BY DEF Init
<1>2. DOMAIN Empty = {}
  BY DEF Empty
<1>3. IsSequence(<<>>) /\ 1 .. Len(<<>>) = {}
  BY EmptyGood DEF Good
<1>4. WorkRight /\ TablesRight /\ CodeRight
  BY <1>1, <1>2 DEF WorkRight, Idle, TablesRight, CodeRight
<1>5. RepliesRight
  BY <1>1, <1>3 DEF RepliesRight
<1>6. InfosRight /\ StaticsRight
  BY <1>1, <1>2 DEF InfosRight, InfosAreSequences, EntriesApart, StaticsRight, Numbered
<1>7. NamesRight
  BY <1>1, <1>2 DEF NamesRight
<1>8. LoadedRight
  BY <1>1 DEF LoadedRight, Unloaded
<1>9. StacksRight /\ \A f : ~InStack(f)
  <2>1. Shape(<<>>)
    BY <1>3, FreshShape
  <2>2. Plain(<<>>) /\ \A f : ~In(f, <<>>)
    BY <1>3 DEF Plain, In
  <2>3. \A t \in Threads : stack[t] = <<>>
    BY <1>1
  <2> QED BY <2>1, <2>2, <2>3 DEF StacksRight, InStack
<1>10. FillingRight
  BY <1>1, <1>2, <1>9 DEF FillingRight
<1>11. SlotsInv
  BY <1>1, <1>2 DEF SlotsInv
<1> QED BY <1>4, <1>5, <1>6, <1>7, <1>8, <1>9, <1>10, <1>11, InitTInv DEF SInv, NumbersRight, RecursionRight

LEMMA NextSInv ==
  ASSUME SInv, [Next]_vars
  PROVE  SInv'
<1>1. TInv' /\ IInv'
  BY NextTInv DEF SInv, TInv
<1>2. CASE UNCHANGED vars
  <2>1. UNCHANGED <<rewriter, recorded, slots, replies, fieldId2slot, staticSlots, nextSyntheticId,
                    stack, loaded, instanced>>
    BY <1>2 DEF vars, pipes
  <2>2. RecursionRight'
    BY <2>1, RewriterRight DEF SInv, TablesGrow, rewriter
  <2>3. Unloaded' /\ StaticsRight'
    BY <2>1, StaticsStay DEF SInv, NumbersRight, LoadedRight, Unloaded, recorded
  <2>4. NumbersRight'
    BY <2>1, <2>3, NumbersKeep DEF SInv, rewriter, recorded
  <2> QED BY <1>1, <2>2, <2>4 DEF SInv
<1>3. CASE Rewriter
  BY <1>1, <1>3, RewriterStepRight DEF SInv
<1>4. ASSUME NEW t \in Threads, Works(t)
      PROVE  SInv'
  <2>1. CASE ReadRecord(t) \/ SendInfo(t) \/ ReadAck(t)
    BY <1>1, <2>1, ReadRecordNumbers, ReadRecordRight, SendInfoNumbers, SendInfoRight,
       ReadAckNumbers, ReadAckRight DEF SInv
  <2>2. CASE LookupTag(t) \/ LookupId(t) \/ WithoutId(t)
    BY <1>1, <2>2, RecursionNumbers, LookupTagRight, LookupIdRight, WithoutIdRight DEF SInv
  <2>3. CASE AssignSlots(t) \/ SyntheticClass(t)
    BY <1>1, <2>3, AssignSlotsNumbers, AssignSlotsRight, SyntheticClassNumbers,
       SyntheticClassRight DEF SInv
  <2>4. CASE SyntheticField(t)
    BY <1>1, <2>4, SyntheticFieldNumbers, SyntheticFieldRight DEF SInv
  <2> QED BY <1>4, <2>1, <2>2, <2>3, <2>4 DEF Works, getSlotsForClass, handleClassWithoutId
<1>5. ASSUME NEW t \in Threads, NEW c \in Classes, instrumentClass(t, c) \/ TagObject(t, c)
      PROVE  SInv'
  BY <1>1, <1>5, instrumentClassNumbers, instrumentClassRight, TagObjectNumbers, TagObjectRight DEF SInv
<1> QED BY <1>2, <1>3, <1>4, <1>5 DEF Next

\* The update of a field under the name of a class the VM told of.
LEMMA UpdateFacts ==
  ASSUME SInv, NEW u \in Running, u[2] \notin Untold, NEW k, k = <<u[2], u[3]>>
  PROVE  /\ Numbered(k) /\ Recorded(k) /\ u[4] = fieldIdTables[k]
         /\ k \in Classes \X Names /\ k[1] = u[2] /\ k[2] = u[3] /\ fieldIdTables[k] \in Nat \ {0}
         /\ u[3] \in NamesOf(u[2]) => FieldOf(u) = k
<1>1. u \in code /\ u[1] \in loaded
  BY DEF Running
<1>2. Numbered(k) /\ u[4] = fieldIdTables[k] /\ Recorded(k)
  BY <1>1 DEF SInv, NumbersRight, CodeRight, LoadedRight
<1>3. k \in Classes \X Names /\ k[1] = u[2] /\ k[2] = u[3]
  BY <1>2 DEF Numbered, ToldKeys
<1>4. u[3] \in NamesOf(u[2]) => FieldOf(u) = k
  BY <1>3, DeclarerIsOwner DEF FieldOf
<1>5. fieldIdTables[k] \in Nat \ {0}
  <2>1. fieldIdTables[k] \in 1 .. lastFieldId /\ lastFieldId \in Nat
    BY <1>2 DEF Numbered, ToldKeys, SInv, NumbersRight, TablesRight, TInv, Typed, RewriterOK
  <2> QED BY <2>1
<1> QED BY <1>2, <1>3, <1>4, <1>5

LEMMA ObjectAbove ==
  ASSUME NEW c \in Classes
  PROVE  Object \in Ancestors[c]
<1>1. PICK Bad : Bad = {d \in Classes : Object \notin Ancestors[d]}
  OBVIOUS
<1>2. ASSUME NEW d \in Bad
      PROVE  Super[d] # NoClass /\ Super[d] \in Bad
  <2>1. d \in Classes /\ Object \notin Ancestors[d] /\ d \in Ancestors[d]
    BY <1>1, AncestorsAbove
  <2>2. Super[d] # NoClass /\ Super[d] \in Classes
    BY <2>1, SlotsAssumption
  <2>3. Ancestors[Super[d]] \subseteq Ancestors[d]
    BY <2>1, <2>2, AncestorsFacts
  <2> QED BY <1>1, <2>1, <2>2, <2>3
<1>3. Bad = {}
  <2>1. Bad \in SUBSET Classes
    BY <1>1
  <2> HIDE <1>1
  <2> QED BY <1>2, <2>1, Descent
<1> QED BY <1>1, <1>3

\* All superclasses of a class that has its slots have theirs, and it has at least those,
\* and one for each of its fields.
LEMMA SizesAbove ==
  ASSUME SInv, NEW c \in Classes, Rank(c)
  PROVE  /\ Size(c) \in Nat /\ Total(c) \in Nat /\ Total(c) <= Size(c)
         /\ \A d \in Ancestors[c] : Rank(d) /\ Size(d) \in Nat /\ Size(d) <= Size(c)
<1> DEFINE Fits(d) == /\ d \in Classes /\ Rank(d) /\ Size(d) \in Nat /\ Size(d) <= Size(c)
                      /\ Total(c) - Total(d) <= Size(c) - Size(d)
<1>1. PICK S : S = {d \in Classes : Fits(d)}
  OBVIOUS
<1>2. \A d \in Classes : Total(d) \in Nat
  BY TotalFacts
<1>3. c \in S
  <2>1. Size(c) \in Nat
    BY DEF Rank, Size, SInv, RecursionRight, SlotsInv, TagRight
  <2>2. Total(c) - Total(c) <= Size(c) - Size(c) /\ Size(c) <= Size(c)
    BY <1>2, <2>1
  <2> QED BY <1>1, <2>1, <2>2
<1>4. ASSUME NEW d \in S, Super[d] # NoClass
      PROVE  Super[d] \in S
  <2>1. Fits(d) /\ d # Object /\ Super[d] \in Classes
    BY <1>1, <1>4, SlotsAssumption
  <2>2. /\ Rank(Super[d]) /\ Size(Super[d]) \in Nat
        /\ Size(Super[d]) + Cardinality(Own(d)) <= Size(d)
    BY <2>1 DEF Rank, SInv, RecursionRight, SlotsInv, TagRight
  <2>3. Total(d) = Total(Super[d]) + Cardinality(Own(d)) /\ Cardinality(Own(d)) \in Nat
    BY <1>4, <2>1, TotalFacts
  <2>4. PICK i, j, k, l, m, n, o : /\ i = Size(c) /\ j = Size(d) /\ k = Size(Super[d])
                                   /\ l = Cardinality(Own(d)) /\ m = Total(c) /\ n = Total(d)
                                   /\ o = Total(Super[d])
    OBVIOUS
  <2>5. /\ j \in Nat /\ k \in Nat /\ l \in Nat /\ m \in Nat /\ n \in Nat /\ o \in Nat
        /\ j <= i /\ m - n <= i - j /\ k + l <= j /\ n = o + l
    BY <1>2, <2>1, <2>2, <2>3, <2>4
  <2>6. i \in Nat
    BY <1>1, <1>3, <2>4
  <2>7. k <= i /\ m - o <= i - k
    <3> HIDE <2>4
    <3> QED BY <2>5, <2>6
  <2>8. Fits(Super[d])
    BY <2>1, <2>2, <2>4, <2>7
  <2> HIDE DEF Fits
  <2> QED BY <1>1, <2>1, <2>8
<1>5. Ancestors[c] \subseteq S
  BY <1>3, <1>4, AncestorsLeast
<1>6. Total(c) <= Size(c) /\ Size(c) \in Nat
  <2>1. Fits(Object) /\ Fits(c)
    BY <1>1, <1>3, <1>5, ObjectAbove
  <2>2. Size(Object) = 0 /\ Total(Object) = 0
    BY TotalFacts DEF Size
  <2> QED BY <1>2, <2>1, <2>2
<1> QED BY <1>1, <1>2, <1>5, <1>6

LEMMA InstancedFacts ==
  ASSUME SInv, NEW c \in instanced
  PROVE  c \in Classes /\ Rank(c)
BY DEF SInv, RecursionRight, SlotsInv, InstancedRight, TInv, Typed, AgentOK

LEMMA InstanceUpdate ==
  ASSUME SInv, NEW c \in instanced, NEW u \in UpdatesOf(c), NamesDeclarer(u), NEW d, d = u[2]
  PROVE  /\ d \in Ancestors[c] /\ d \in Classes \ {Object} /\ Super[d] \in Classes /\ SlotsOf(d)
         /\ u[3] \in NamesOf(d) /\ <<d, u[3]>> \notin Static /\ FieldOf(u) = <<d, u[3]>>
         /\ SlotOf(u) = fieldId2slot[fieldIdTables[<<d, u[3]>>]]
         /\ SlotOf(u) \in Size(Super[d]) .. Size(d) - 1
<1>1. u \in Running /\ FieldOf(u) \notin Static /\ d \in Ancestors[c]
  BY DEF UpdatesOf
<1>2. PICK k : k = <<u[2], u[3]>>
  OBVIOUS
<1>3. /\ d \in Classes \ Untold /\ u[3] \in NamesOf(d) /\ <<d, u[3]>> \notin Static
      /\ FieldOf(u) = <<d, u[3]>> /\ u[4] = fieldIdTables[<<d, u[3]>>]
  BY <1>1, <1>2, UpdateFacts DEF NamesDeclarer
<1>4. d # Object
  BY <1>3, TotalFacts
<1>5. d \in DOMAIN classTag2slots
  BY <1>1, <1>4, InstancedFacts, SizesAbove DEF Rank
<1>6. SlotsOf(d)
  BY <1>3, <1>5 DEF SInv, RecursionRight, SlotsInv, TagRight
<1>7. /\ fieldIdTables[<<d, u[3]>>] \in DOMAIN fieldId2slot
      /\ fieldId2slot[fieldIdTables[<<d, u[3]>>]] \in Size(Super[d]) .. Size(d) - 1
  BY <1>3, <1>6 DEF SlotsOf
<1>8. SlotOf(u) = fieldId2slot[fieldIdTables[<<d, u[3]>>]]
  BY <1>3, <1>7 DEF SlotOf, Get
<1>9. Super[d] \in Classes
  BY <1>3, <1>4, SlotsAssumption
<1> QED BY <1>1, <1>3, <1>4, <1>6, <1>7, <1>8, <1>9

LEMMA SlotsApart ==
  ASSUME SInv, NEW c \in instanced, NEW u \in UpdatesOf(c), NEW v \in UpdatesOf(c),
         NamesDeclarer(u), NamesDeclarer(v), SlotOf(u) = SlotOf(v)
  PROVE  FieldOf(u) = FieldOf(v)
<1>1. PICK d, e : d = u[2] /\ e = v[2]
  OBVIOUS
<1>2. /\ d \in Ancestors[c] /\ d \in Classes \ {Object} /\ Super[d] \in Classes /\ SlotsOf(d)
      /\ u[3] \in NamesOf(d) /\ <<d, u[3]>> \notin Static /\ FieldOf(u) = <<d, u[3]>>
      /\ SlotOf(u) = fieldId2slot[fieldIdTables[<<d, u[3]>>]]
      /\ SlotOf(u) \in Size(Super[d]) .. Size(d) - 1
  BY <1>1, InstanceUpdate
<1>3. /\ e \in Ancestors[c] /\ e \in Classes \ {Object} /\ Super[e] \in Classes /\ SlotsOf(e)
      /\ v[3] \in NamesOf(e) /\ <<e, v[3]>> \notin Static /\ FieldOf(v) = <<e, v[3]>>
      /\ SlotOf(v) = fieldId2slot[fieldIdTables[<<e, v[3]>>]]
      /\ SlotOf(v) \in Size(Super[e]) .. Size(e) - 1
  BY <1>1, InstanceUpdate
<1>4. c \in Classes /\ Rank(c)
  BY InstancedFacts
<1>5. \A a, b \in Classes : a # b /\ a \in Ancestors[b] /\ b \in Ancestors[c] /\ Super[b] \in Classes =>
        Size(a) <= Size(Super[b]) /\ Size(a) \in Nat /\ Size(Super[b]) \in Nat /\ Size(b) \in Nat
  <2> SUFFICES ASSUME NEW a \in Classes, NEW b \in Classes, a # b, a \in Ancestors[b],
                      b \in Ancestors[c], Super[b] \in Classes
               PROVE  Size(a) <= Size(Super[b]) /\ Size(a) \in Nat /\ Size(Super[b]) \in Nat /\ Size(b) \in Nat
    OBVIOUS
  <2>1. a \in Ancestors[Super[b]] /\ Super[b] \in Ancestors[b]
    <3>1. Super[b] # NoClass
      BY SlotsAssumption
    <3>2. Super[b] \in Ancestors[Super[b]]
      BY AncestorsAbove
    <3> QED BY <3>1, <3>2, AncestorsFacts
  <2>2. Super[b] \in Ancestors[c]
    BY <1>4, <2>1, AncestorsAbove
  <2>3. Rank(Super[b]) /\ Size(b) \in Nat
    BY <1>4, <2>2, SizesAbove
  <2> QED BY <2>1, <2>3, SizesAbove
<1>6. d \in Ancestors[e] \/ e \in Ancestors[d]
  BY <1>2, <1>3, <1>4, AncestorsAbove
<1>7. \A a, b, x : x \in Size(Super[a]) .. Size(a) - 1 /\ x \in Size(Super[b]) .. Size(b) - 1
        /\ Size(a) \in Nat /\ Size(b) \in Nat /\ Size(Super[b]) \in Nat /\ Size(a) <= Size(Super[b]) => FALSE
  <2> SUFFICES ASSUME NEW a, NEW b, NEW x, x \in Size(Super[a]) .. Size(a) - 1,
                      x \in Size(Super[b]) .. Size(b) - 1, Size(a) \in Nat, Size(b) \in Nat,
                      Size(Super[b]) \in Nat, Size(a) <= Size(Super[b])
               PROVE  FALSE
    OBVIOUS
  <2>1. PICK m, n, p, q : m = Size(Super[a]) /\ n = Size(a) /\ p = Size(Super[b]) /\ q = Size(b)
    OBVIOUS
  <2>2. x \in m .. n - 1 /\ x \in p .. q - 1 /\ n \in Nat /\ p \in Nat /\ q \in Nat /\ n <= p
    BY <2>1
  <2> HIDE <2>1
  <2> QED BY <2>2
<1>8. d = e
  <2> HIDE <1>1
  <2>1. ASSUME d # e, d \in Ancestors[e] PROVE FALSE
    BY <1>2, <1>3, <1>5, <1>7, <2>1
  <2>2. ASSUME d # e, e \in Ancestors[d] PROVE FALSE
    BY <1>2, <1>3, <1>5, <1>7, <2>2
  <2> QED BY <1>6, <2>1, <2>2
<1>9. u[3] = v[3]
  BY <1>2, <1>3, <1>8 DEF SlotsOf
<1> QED BY <1>2, <1>3, <1>8, <1>9

LEMMA StaticsApart ==
  ASSUME SInv, NEW u \in OfStatics, NEW v \in OfStatics, u[2] \notin Untold, v[2] \notin Untold,
         SlotOf(u) = SlotOf(v)
  PROVE  FieldOf(u) = FieldOf(v)
<1>1. ASSUME NEW w \in OfStatics, w[2] \notin Untold, NEW k, k = <<w[2], w[3]>>
      PROVE  \E x \in DOMAIN classId2fieldsInfo : \E j \in Places(x) :
               /\ NumberAt(x, j) < 0 /\ NumberAt(x, j) = -fieldIdTables[k]
               /\ SlotOf(w) = fieldId2slot[-NumberAt(x, j)]
  <2>1. w \in Running /\ FieldOf(w) \in Static
    BY DEF OfStatics
  <2>2. Recorded(k) /\ w[4] = fieldIdTables[k] /\ fieldIdTables[k] \in Nat \ {0}
    BY <1>1, <2>1, UpdateFacts
  <2>3. PICK x, j : j \in Places(x) /\ EntryOf(x, j, k)
    BY <2>2 DEF Recorded
  <2>4. x \in DOMAIN classId2fieldsInfo
    BY <2>3 DEF Places
  <2>5. NumberAt(x, j) = -fieldIdTables[k] /\ NumberAt(x, j) < 0 /\ -NumberAt(x, j) = fieldIdTables[k]
    <3>1. IsStatic(k[1], k[2])
      BY <1>1, <2>1 DEF IsStatic, FieldOf
    <3> QED BY <2>2, <2>3, <3>1 DEF EntryOf, Signed
  <2>6. fieldIdTables[k] \in DOMAIN fieldId2slot
    BY <2>3, <2>4, <2>5 DEF SInv, NumbersRight, StaticsRight
  <2>7. SlotOf(w) = fieldId2slot[fieldIdTables[k]]
    BY <2>2, <2>6 DEF SlotOf, Get
  <2> QED BY <2>3, <2>4, <2>5, <2>7
<1>2. PICK k, l : k = <<u[2], u[3]>> /\ l = <<v[2], v[3]>>
  OBVIOUS
<1>3. PICK x \in DOMAIN classId2fieldsInfo : \E j \in Places(x) :
        /\ NumberAt(x, j) < 0 /\ NumberAt(x, j) = -fieldIdTables[k]
        /\ SlotOf(u) = fieldId2slot[-NumberAt(x, j)]
  BY <1>1, <1>2
<1>4. PICK y \in DOMAIN classId2fieldsInfo : \E j \in Places(y) :
        /\ NumberAt(y, j) < 0 /\ NumberAt(y, j) = -fieldIdTables[l]
        /\ SlotOf(v) = fieldId2slot[-NumberAt(y, j)]
  BY <1>1, <1>2
<1>5. -fieldIdTables[k] = -fieldIdTables[l]
  BY <1>3, <1>4 DEF SInv, NumbersRight, StaticsRight
<1>6. u \in Running /\ v \in Running
  BY DEF OfStatics
<1>7. /\ Numbered(k) /\ fieldIdTables[k] \in Nat /\ k[1] = u[2] /\ k[2] = u[3]
      /\ Numbered(l) /\ fieldIdTables[l] \in Nat /\ l[1] = v[2] /\ l[2] = v[3]
  BY <1>2, <1>6, UpdateFacts
<1>8. fieldIdTables[k] = fieldIdTables[l]
  BY <1>5, <1>7
<1>9. k = l
  BY <1>7, <1>8 DEF Numbered, ToldKeys, SInv, NumbersRight, TablesRight
<1> QED BY <1>7, <1>9 DEF FieldOf

LEMMA SInvImplies == SInv => SlotsRight
<1> SUFFICES ASSUME SInv PROVE SlotsRight
  OBVIOUS
<1>1. ASSUME NEW c \in instanced \ {Object}
      PROVE  Get(classTag2slots, c, 0) >= Cardinality(InstanceFields(c)) /\ classTag2slots[c] = Size(c)
  <2>1. c \in DOMAIN classTag2slots /\ c \in Classes /\ Rank(c)
    BY InstancedFacts DEF Rank
  <2>2. Size(c) = classTag2slots[c] /\ Get(classTag2slots, c, 0) = Size(c)
    BY <2>1 DEF Size, Get
  <2>3. Cardinality(InstanceFields(c)) <= Size(c) /\ Size(c) \in Nat /\ Cardinality(InstanceFields(c)) \in Nat
    BY <2>1, SizesAbove DEF Total
  <2> QED BY <2>2, <2>3
<1>2. ASSUME NEW c \in instanced \ {Object}, NEW u \in UpdatesOf(c), NEW v \in UpdatesOf(c),
             NamesDeclarer(u), NamesDeclarer(v)
      PROVE  SlotOf(u) < classTag2slots[c] /\ (SlotOf(u) = SlotOf(v) <=> FieldOf(u) = FieldOf(v))
  <2>1. PICK d, e : d = u[2] /\ e = v[2]
    OBVIOUS
  <2>2. /\ d \in Ancestors[c] /\ SlotOf(u) \in Size(Super[d]) .. Size(d) - 1
        /\ FieldOf(u) = <<d, u[3]>> /\ SlotOf(u) = fieldId2slot[fieldIdTables[<<d, u[3]>>]]
        /\ d \in Classes /\ Super[d] \in Classes
    BY <1>2, <2>1, InstanceUpdate
  <2>3. FieldOf(v) = <<e, v[3]>> /\ SlotOf(v) = fieldId2slot[fieldIdTables[<<e, v[3]>>]]
    BY <1>2, <2>1, InstanceUpdate
  <2>4. SlotOf(u) < Size(c)
    <3>1. c \in Classes /\ Rank(c)
      BY InstancedFacts
    <3>2. Size(d) \in Nat /\ Size(d) <= Size(c) /\ Size(c) \in Nat
      BY <2>2, <3>1, SizesAbove
    <3>3. Super[d] \in Ancestors[c]
      <4>1. Super[d] \in Ancestors[d]
        <5>1. Super[d] # NoClass /\ Super[d] \in Ancestors[Super[d]]
          BY <2>2, SlotsAssumption, AncestorsAbove
        <5> QED BY <2>2, <5>1, AncestorsFacts
      <4> QED BY <2>2, <3>1, <4>1, AncestorsAbove
    <3>4. Size(Super[d]) \in Nat
      BY <3>1, <3>3, SizesAbove
    <3>5. PICK x, i, j, k : x = SlotOf(u) /\ i = Size(Super[d]) /\ j = Size(d) /\ k = Size(c)
      OBVIOUS
    <3>6. x \in i .. j - 1 /\ i \in Nat /\ j \in Nat /\ k \in Nat /\ j <= k
      BY <2>2, <3>2, <3>4, <3>5
    <3>7. x < k
      <4> HIDE <3>5
      <4> QED BY <3>6
    <3> QED BY <3>5, <3>7
  <2>5. FieldOf(u) = FieldOf(v) => SlotOf(u) = SlotOf(v)
    BY <2>2, <2>3
  <2> QED BY <1>1, <1>2, <2>4, <2>5, SlotsApart
<1>3. \A u, v \in {w \in OfStatics : w[2] \notin Untold} : SlotOf(u) = SlotOf(v) => FieldOf(u) = FieldOf(v)
  BY StaticsApart
<1> QED BY <1>1, <1>2, <1>3 DEF SlotsRight

(* When an object of a class can be updated its node has a slot for each   *)
(* of its pointer fields, and the update hook finds it: no two fields of   *)
(* an object share one, nor do two static fields, in whatever order        *)
(* classes are loaded and first used (RecordFieldInfo, getSlotsForClass,   *)
(* handleClassWithoutId).  It is about the instructions that name the      *)
(* class that declares the field, a class the VM told of, beside any       *)
(* number of others.                                                       *)
THEOREM EachFieldHasItsSlot == Spec => []SlotsRight
<1>1. SInv /\ [Next]_vars => SInv'
  BY NextSInv
<1> QED BY <1>1, InitSInv, SInvImplies, PTL DEF Spec

=============================================================================
