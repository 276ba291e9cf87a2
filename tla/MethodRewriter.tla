--------------------------- MODULE MethodRewriter ---------------------------
(***************************************************************************)
(* ETOptMethodAdapter rewrites one method.  It visits the instructions in  *)
(* the order of the code, keeps a model of the local variables and of the  *)
(* operand stack that holds value numbers, and puts calls of the agent's   *)
(* hooks between the instructions.  An object must have the current time   *)
(* as its stamp whenever the method uses it; the value numbers tell the    *)
(* adapter which values have it already (stamped), so that most uses need  *)
(* no call.  A call of another method advances the time.                   *)
(*                                                                         *)
(* The module runs the adapter in lockstep with the JVM: a step visits an  *)
(* instruction and executes it, with the hook calls in front of and behind *)
(* it.  A method is any sequence of instructions that the verifier takes.  *)
(* Code that is reached by a jump is entered at a label, with any objects  *)
(* that fit the shape of the stack there, so that one pass over the code   *)
(* meets every iteration of a loop.                                        *)
(*                                                                         *)
(* A value number names a value: 0 one that is not followed, a negative    *)
(* one an object whose constructor was not called yet, -1 such a receiver. *)
(* Which numbers a method's entry and a frame draw does not matter as long *)
(* as they differ: the model takes positions.  Of the five counts it keeps *)
(* two, instructions and heap reads, in the lowest and in the highest bits *)
(* of the packed word.  Left out: Object.finalize, which is not rewritten, *)
(* the site numbers, and the order of hook and store.                      *)
(*                                                                         *)
(* A definition Name_Fault is Name with a plausible bug.  No specification *)
(* uses it: it stands there to show which property notices the bug.        *)
(***************************************************************************)
EXTENDS Integers, Sequences, FiniteSets

CONSTANTS
  Objects, Null, Prim,
  Modes,        \* TRUE is in it: with the rewriter's -opt option; FALSE: without it
  Methods,      \* bound: the methods that are rewritten
  MaxStack,     \* bound: the depth of the operand stack
  MaxVn,        \* bound: the value numbers in use
  MaxPending,   \* bound: the instructions between two flushes of the counts
  MaxVisits,    \* bound: the instructions and labels of the method
  HEAP_BITS_SMALL, INST_BITS_SMALL

Groups == {"primitives", "moves", "arrays", "fields", "types", "objects", "calls", "labels"}

\* A method: is it static, is it a constructor, what its parameter slots hold, the
\* receiver apart (a reference L, a narrow value I, a half of a wide one J), and the
\* groups of instructions its code has.
ASSUME RewriterAssumption ==
  /\ Null \notin Objects /\ Prim \notin Objects /\ Null # Prim /\ IsFiniteSet(Objects)
  /\ Modes \subseteq BOOLEAN
  /\ Methods \subseteq [static : BOOLEAN, init : BOOLEAN, slots : Seq({"L", "I", "J"}),
                        code : SUBSET Groups]
  /\ \A m \in Methods : m.init => ~ m.static
  /\ MaxStack \in Nat /\ MaxVn \in Nat /\ MaxPending \in Nat /\ MaxVisits \in Nat
  /\ HEAP_BITS_SMALL \in Nat \ {0} /\ INST_BITS_SMALL \in Nat \ {0}

VARIABLES
  locals, stack,     \* the adapter: IntStacks of value numbers
  stamped, vnCounter, uninitCounter,
  counts,            \* the adapter: instCount and heapReads
  jlocals, jstack,   \* the JVM: the values
  self,              \* the receiver, or Null in a static method
  raw,               \* the JVM: the objects whose constructor was not called
  falls,             \* the code can go on with the next instruction
  covered,           \* objects that cannot be reported with an earlier death time
  excused,           \* objects the adapter takes for covered with no reason
  missed,            \* history: objects that were used without being covered
  owed,              \* history: counts of what was executed and not reported
  visits,            \* how many instructions and labels were visited
  code,              \* the groups of instructions in the method
  frames,            \* is the option -opt given, so that frames are read
  known              \* history: what the numbers still tell, "values", "kinds" or "nothing"

adapter == <<locals, stack, stamped, vnCounter, uninitCounter>>
machine == <<jlocals, jstack, self, raw>>
stamps  == <<covered, excused, missed>>
vars == <<adapter, counts, machine, falls, stamps, owed, visits, code, frames, known>>

-----------------------------------------------------------------------------
(* IntStack.                                                               *)

pushZero(s, n) == s \o [i \in 1 .. n |-> 0]
pop(s, n) == SubSeq(s, 1, IF Len(s) >= n THEN Len(s) - n ELSE 0)
top(s, i) == IF i < Len(s) THEN s[Len(s) - i] ELSE 0
get(s, i) == IF i < Len(s) THEN s[i + 1] ELSE 0
set(s, i, vn) == IF i < Len(s) THEN [s EXCEPT ![i + 1] = vn] ELSE s
renumber(s, old, new) == [i \in DOMAIN s |-> IF s[i] = old THEN new ELSE s[i]]

-----------------------------------------------------------------------------
(* The JVM's operands, from the top of the stack.                          *)

Val(i) == jstack[Len(jstack) - i]
Has(n) == Len(jstack) >= n
Fits(n) == Len(jstack) + n <= MaxStack
Below(n) == SubSeq(jstack, 1, Len(jstack) - n)
Prims(n) == [i \in 1 .. n |-> Prim]
AllPrim(from, to) == \A i \in from .. to : Val(i) = Prim
Constructed == Objects \ raw
Refs == Constructed \cup {Null}
Live == {jstack[i] : i \in DOMAIN jstack} \cup {jlocals[i] : i \in DOMAIN jlocals}

-----------------------------------------------------------------------------
(* The counts.                                                             *)

\* <<instCount, heapReads>> of an instruction: header reads the length, the lock or the
\* type of an object, load a length and an element
doCounts == [plain |-> <<1, 0>>, header |-> <<1, 1>>, load |-> <<1, 2>>]

bounded(amount, bound) == IF amount < bound THEN amount ELSE bound - 1

\* what _counts gets for <<instCount, heapReads>> packed with these field widths
Decoded(c, instBits, heapBits) ==
  LET packed == c[1] + c[2] * 2 ^ (instBits + 3 * heapBits)
  IN  <<packed % (2 ^ instBits),
        (packed \div 2 ^ (instBits + 3 * heapBits)) % (2 ^ heapBits)>>

Plus(c, d) == <<c[1] + d[1], c[2] + d[2]>>
Minus(c, d) == <<c[1] - d[1], c[2] - d[2]>>

\* Mutated: the remainder is taken with the wide bounds.
outputCounts_Fault(c) ==
  Decoded(<<bounded(c[1], 2 ^ (2 * INST_BITS_SMALL)),
            bounded(c[2], 2 ^ (2 * HEAP_BITS_SMALL))>>, INST_BITS_SMALL, HEAP_BITS_SMALL)

\* the sum of what the calls report that outputCounts emits for c
outputCounts(c) ==
  LET emitted[d \in Nat \X Nat] ==
        IF d[1] >= 2 ^ INST_BITS_SMALL \/ d[2] >= 2 ^ HEAP_BITS_SMALL
        THEN LET part == <<bounded(d[1], 2 ^ (2 * INST_BITS_SMALL)),
                           bounded(d[2], 2 ^ (2 * HEAP_BITS_SMALL))>>
             IN  Plus(Decoded(part, 2 * INST_BITS_SMALL, 2 * HEAP_BITS_SMALL),
                      emitted[Minus(d, part)])
        ELSE Decoded(d, INST_BITS_SMALL, HEAP_BITS_SMALL)
  IN  emitted[c]

incrCounts(c) ==
  /\ counts[1] < MaxPending
  /\ counts' = Plus(counts, c)
  /\ owed' = Plus(owed, c)

incrCountsAndFlush(c) ==
  /\ counts' = <<0, 0>>
  /\ owed' = Minus(Plus(owed, c), outputCounts(Plus(counts, c)))

-----------------------------------------------------------------------------
(* Stamps.                                                                 *)

\* Mutated: a value that is not followed is taken for stamped.
nowStamped_Fault(vns) == stamped' = stamped \cup vns

nowStamped(vns) == stamped' = stamped \cup {vn \in vns : vn > 0}

\* Mutated: a value is taken for stamped once it has a number.
shouldStamp_Fault(i) == top(stack, i) > 0 /\ stamped = {}

shouldStamp(i) == top(stack, i) > 0 /\ top(stack, i) \notin stamped
StampsFor(i) == IF shouldStamp(i) THEN {Val(i)} ELSE {}

\* The instruction uses the operands at places; the hooks in front of it stamp the
\* objects in hooked.
Misses(places, hooked) ==
  missed' = missed \cup (({Val(i) : i \in {j \in places : top(stack, j) # 0}} \cap Constructed)
                          \ (covered \cup hooked \cup excused))

Use(places, hooked) ==
  /\ covered' = covered \cup (hooked \cap Objects)
  /\ Misses(places, hooked)
  /\ UNCHANGED excused

\* As Use; and from now on the objects in held hang on the object from.  They die no
\* earlier than it, or than the update that takes them off.
UseAndHang(places, hooked, from, held) ==
  LET safe == covered \cup hooked
      hung == held \cap Objects
  IN  /\ covered' = IF from \in safe THEN (safe \cap Objects) \cup hung ELSE safe \cap Objects
      /\ excused' = IF from \in safe THEN excused ELSE excused \cup hung
      /\ Misses(places, hooked)

NoUse == UNCHANGED stamps

\* A class initializer may run inside the instruction and advance the time.
Initializes(hooked) ==
  \/ /\ covered' = covered \cup hooked
     /\ UNCHANGED <<excused, missed>>
  \/ /\ covered' = hooked
     /\ excused' = excused \cup (covered \ hooked)
     /\ UNCHANGED missed

-----------------------------------------------------------------------------
(* The start of the method.                                                *)

Kinds(m) == (IF m.static THEN <<>> ELSE <<"L">>) \o m.slots
Narrow(m) == {j \in DOMAIN Kinds(m) : Kinds(m)[j] # "J"}
nth(m, i) == CHOOSE j \in Narrow(m) : Cardinality({k \in Narrow(m) : k <= j}) = i

\* visitCode has one entry for each narrow slot: pushZero(2) for a wide parameter
\* extends the operand stack and not the locals.
visitCode(m) ==
  /\ locals = [i \in 1 .. Cardinality(Narrow(m)) |->
                IF m.init /\ i = 1 THEN -1
                ELSE IF Kinds(m)[nth(m, i)] = "I" THEN 0 ELSE i]
  /\ stack = pushZero(<<>>, Cardinality(DOMAIN Kinds(m) \ Narrow(m)))
  /\ vnCounter = Cardinality(Narrow(m)) /\ uninitCounter = -2
  /\ stamped = IF m.init THEN {} ELSE {i \in 1 .. vnCounter : locals[i] = i}
  /\ counts = <<0, 0>>

\* The arguments, and one more local variable.
JvmEntry(m) ==
  /\ raw \in SUBSET Objects /\ Cardinality(raw) = (IF m.init THEN 1 ELSE 0)
  /\ jlocals \in [1 .. Len(Kinds(m)) + 1 -> Objects \cup {Null, Prim}]
  /\ \A i \in DOMAIN jlocals :
       IF i > Len(Kinds(m)) \/ Kinds(m)[i] # "L" THEN jlocals[i] = Prim
       ELSE IF m.init /\ i = 1 THEN jlocals[i] \in raw
       ELSE IF ~m.static /\ i = 1 THEN jlocals[i] \in Objects
       ELSE jlocals[i] \in Refs
  /\ self = IF m.static THEN Null ELSE jlocals[1]
  /\ jstack = <<>>

Init ==
  /\ \E m \in Methods : visitCode(m) /\ JvmEntry(m) /\ code = m.code
  /\ covered = Live \cap Constructed    \* onMethodEnter
  /\ excused = {} /\ missed = {}
  /\ falls = TRUE /\ owed = <<0, 0>> /\ visits = 0
  /\ frames \in Modes /\ known = "values"

-----------------------------------------------------------------------------
(* visitInsn, and the other instructions that only move primitive values.  *)

\* the operand stacks after n operands are popped, and the values vals are pushed
Pushes(n, vns, vals) ==
  /\ falls /\ Has(n) /\ Fits(Len(vals) - n)
  /\ stack' = pop(stack, n) \o vns
  /\ jstack' = Below(n) \o vals

Same(n) == [i \in 1 .. n |-> 0]

NoVn == UNCHANGED <<vnCounter, uninitCounter>>
NewVn == vnCounter < MaxVn /\ vnCounter' = vnCounter + 1 /\ UNCHANGED uninitCounter
NoLocals == UNCHANGED <<locals, jlocals, self>>
GoesOn == UNCHANGED <<falls, known>>

\* constants, LDC of a number, BIPUSH, SIPUSH, ILOAD to DLOAD
PushUntracked(vals) ==
  /\ Pushes(0, Same(Len(vals)), vals)
  /\ incrCounts(doCounts.plain)
  /\ NoUse /\ NoVn /\ NoLocals /\ GoesOn /\ UNCHANGED <<stamped, raw>>

\* arithmetic: takes n primitive slots and leaves r, which the adapter follows as
\* a pop of the difference
Arithmetic(n, r) ==
  /\ Has(n) /\ AllPrim(0, n - 1)
  /\ falls /\ Fits(r - n)
  /\ stack' = IF r > n THEN pushZero(stack, r - n) ELSE pop(stack, n - r)
  /\ jstack' = Below(n) \o Prims(r)
  /\ incrCounts(doCounts.plain)
  /\ NoUse /\ NoVn /\ NoLocals /\ GoesOn /\ UNCHANGED <<stamped, raw>>

\* POP, POP2
Pop(n) ==
  /\ Pushes(n, <<>>, <<>>)
  /\ incrCounts(doCounts.plain)
  /\ NoUse /\ NoVn /\ NoLocals /\ GoesOn /\ UNCHANGED <<stamped, raw>>

\* DUP and its variants, SWAP: what is left of the slots they take, as places
\* from the top, the lowest first
Shuffles == {<<0, 0>>, <<0, 1, 0>>, <<0, 2, 1, 0>>, <<1, 0, 1, 0>>, <<1, 0, 2, 1, 0>>,
             <<1, 0, 3, 2, 1, 0>>, <<0, 1>>}
Taken(form) == CHOOSE n \in 1 .. 4 : {form[i] : i \in DOMAIN form} = 0 .. n - 1

\* Mutated: DUP_X1 leaves the two values below the copy in the old order.
Shuffled_Fault(form) ==
  LET f == IF form = <<0, 1, 0>> THEN <<1, 0, 0>> ELSE form
  IN  [i \in DOMAIN form |-> top(stack, f[i])]

Shuffled(form) == [i \in DOMAIN form |-> top(stack, form[i])]

Shuffle(form) ==
  /\ Has(Taken(form))
  /\ Pushes(Taken(form), Shuffled(form), [i \in DOMAIN form |-> Val(form[i])])
  /\ incrCounts(doCounts.plain)
  /\ NoUse /\ NoVn /\ NoLocals /\ GoesOn /\ UNCHANGED <<stamped, raw>>

\* IALOAD to SALOAD: the hook CALoadEvent ... does the load, or a call of varEvent1
\* goes before it
LoadPrim(w) ==
  /\ Has(2) /\ AllPrim(0, 0) /\ Val(1) \in Constructed
  /\ Pushes(2, Same(w), Prims(w))
  /\ nowStamped({top(stack, 1)})
  /\ Use({1}, StampsFor(1))
  /\ incrCounts(doCounts.load)
  /\ NoVn /\ NoLocals /\ GoesOn /\ UNCHANGED raw

\* AALOAD: the element hangs on the array, which is stamped
AALoad(o) ==
  /\ Has(2) /\ AllPrim(0, 0) /\ Val(1) \in Constructed
  /\ Pushes(2, <<vnCounter + 1>>, <<o>>)
  /\ NewVn
  /\ nowStamped({top(stack, 1), vnCounter + 1})
  /\ UseAndHang({1}, StampsFor(1), Val(1), {o})
  /\ incrCounts(doCounts.header)
  /\ NoLocals /\ GoesOn /\ UNCHANGED raw

\* IASTORE to SASTORE
StorePrim(w) ==
  /\ Has(w + 2) /\ AllPrim(0, w) /\ Val(w + 1) \in Constructed
  /\ Pushes(w + 2, <<>>, <<>>)
  /\ nowStamped({top(stack, w + 1)})
  /\ Use({w + 1}, StampsFor(w + 1))
  /\ incrCounts(doCounts.header)
  /\ NoVn /\ NoLocals /\ GoesOn /\ UNCHANGED raw

\* AASTORE: AAStoreEvent records the update and does not stamp the array
AAStore ==
  /\ Has(3) /\ Val(0) \in Refs /\ AllPrim(1, 1) /\ Val(2) \in Constructed
  /\ Pushes(3, <<>>, <<>>)
  /\ nowStamped({top(stack, 0), top(stack, 2)})
  /\ UseAndHang({}, {}, Val(2), {Val(0), Val(2)})
  /\ incrCounts(doCounts.header)
  /\ NoVn /\ NoLocals /\ GoesOn /\ UNCHANGED raw

\* ARRAYLENGTH (results = <<Prim>>), MONITORENTER and MONITOREXIT (none)
UseTop(results) ==
  /\ Has(1) /\ Val(0) \in Constructed
  /\ Pushes(1, Same(Len(results)), results)
  /\ nowStamped({top(stack, 0)})
  /\ Use({0}, StampsFor(0))
  /\ incrCounts(doCounts.header)
  /\ NoVn /\ NoLocals /\ GoesOn /\ UNCHANGED raw

\* the returns, ATHROW and GOTO: the hook of the exit stamps the exception, and the code
\* that follows is reached by jumps only
Exit ==
  /\ falls /\ falls' = FALSE
  /\ incrCountsAndFlush(doCounts.plain)
  /\ NoUse /\ UNCHANGED <<adapter, machine, known>>

-----------------------------------------------------------------------------
(* visitFieldInsn.                                                         *)

GetFieldRef(o) ==
  /\ Has(1) /\ Val(0) \in Constructed
  /\ NewVn
  /\ Pushes(1, <<vnCounter + 1>>, <<o>>)
  /\ nowStamped({top(stack, 0)})
  /\ Use({0}, StampsFor(0))
  /\ incrCounts(<<1, 0>>)
  /\ NoLocals /\ GoesOn /\ UNCHANGED raw

GetFieldPrim(w) ==
  /\ Has(1) /\ Val(0) \in Constructed
  /\ Pushes(1, Same(w), Prims(w))
  /\ nowStamped({top(stack, 0)})
  /\ Use({0}, StampsFor(0))
  /\ incrCounts(<<1, 0>>)
  /\ NoVn /\ NoLocals /\ GoesOn /\ UNCHANGED raw

GetStaticRef(o) ==
  /\ NewVn
  /\ Pushes(0, <<vnCounter + 1>>, <<o>>)
  /\ Initializes({})
  /\ incrCounts(<<1, 0>>)
  /\ NoLocals /\ GoesOn /\ UNCHANGED <<stamped, raw>>

\* pointerUpdated, or uninitPutfield for a receiver that is not constructed yet,
\* stamps the object; the value hangs on it
PutFieldRef ==
  /\ Has(2) /\ Val(0) \in Refs /\ Val(1) \in Constructed \cup ({self} \cap raw)
  /\ Pushes(2, <<>>, <<>>)
  /\ nowStamped({top(stack, 0), top(stack, 1)})
  /\ UseAndHang({1}, {Val(1)}, Val(1), {Val(0)})
  /\ incrCounts(<<1, 0>>)
  /\ NoVn /\ NoLocals /\ GoesOn /\ UNCHANGED raw

PutFieldPrim(w) ==
  /\ Has(w + 1) /\ AllPrim(0, w - 1) /\ Val(w) \in Constructed \cup ({self} \cap raw)
  /\ Pushes(w + 1, <<>>, <<>>)
  /\ nowStamped({top(stack, 0), top(stack, w)})
  /\ Use({w}, StampsFor(w))
  /\ incrCounts(<<1, 0>>)
  /\ NoVn /\ NoLocals /\ GoesOn /\ UNCHANGED raw

\* the value hangs on the class
PutStaticRef ==
  /\ Has(1) /\ Val(0) \in Refs
  /\ Pushes(1, <<>>, <<>>)
  /\ nowStamped({top(stack, 0)})
  /\ Initializes({Val(0)} \cap Objects)
  /\ incrCounts(<<1, 0>>)
  /\ NoVn /\ NoLocals /\ GoesOn /\ UNCHANGED raw

PutStaticPrim(w) ==
  /\ Has(w) /\ AllPrim(0, w - 1)
  /\ Pushes(w, <<>>, <<>>)
  /\ nowStamped({top(stack, 0)})
  /\ Initializes({})
  /\ incrCounts(<<1, 0>>)
  /\ NoVn /\ NoLocals /\ GoesOn /\ UNCHANGED raw

-----------------------------------------------------------------------------
(* visitJumpInsn, where the jump is not taken, and the switches.           *)

IfPrim(n) ==
  /\ Has(n) /\ AllPrim(0, n - 1)
  /\ Pushes(n, <<>>, <<>>)
  /\ incrCountsAndFlush(doCounts.plain)
  /\ NoUse /\ NoVn /\ NoLocals /\ GoesOn /\ UNCHANGED <<stamped, raw>>

IfAcmp ==
  /\ Has(2) /\ Val(0) \in Refs /\ Val(1) \in Refs
  /\ Pushes(2, <<>>, <<>>)
  /\ nowStamped({top(stack, 0), top(stack, 1)})
  /\ Use({0, 1}, IF shouldStamp(1) \/ shouldStamp(0) THEN {Val(0), Val(1)} ELSE {})
  /\ incrCountsAndFlush(doCounts.plain)
  /\ NoVn /\ NoLocals /\ GoesOn /\ UNCHANGED raw

IfNull ==
  /\ Has(1) /\ Val(0) \in Refs
  /\ Pushes(1, <<>>, <<>>)
  /\ nowStamped({top(stack, 0)})
  /\ Use({0}, StampsFor(0))
  /\ incrCountsAndFlush(doCounts.plain)
  /\ NoVn /\ NoLocals /\ GoesOn /\ UNCHANGED raw

\* The adapter does not override the visits of the switches: it pops nothing and
\* counts nothing, and what it would emit at the next label is not reached from here.
Switch ==
  /\ falls /\ Has(1) /\ AllPrim(0, 0)
  /\ jstack' = Below(1)
  /\ owed' = <<0, 0>> /\ falls' = FALSE
  /\ NoUse /\ UNCHANGED <<adapter, counts, jlocals, self, raw, known>>

-----------------------------------------------------------------------------
(* visitTypeInsn, visitIntInsn, visitMultiANewArrayInsn, visitLdcInsn.     *)

New(o) ==
  /\ o \notin Live /\ uninitCounter > -MaxVn
  /\ Pushes(0, <<uninitCounter - 1>>, <<o>>)
  /\ uninitCounter' = uninitCounter - 1
  /\ raw' = (raw \cap Live) \cup {o}
  /\ Initializes({o})
  /\ incrCounts(doCounts.plain)
  /\ NoLocals /\ GoesOn /\ UNCHANGED <<stamped, vnCounter>>

\* NEWARRAY, ANEWARRAY and MULTIANEWARRAY with their dims lengths
NewArray(dims, o) ==
  /\ Has(dims) /\ AllPrim(0, dims - 1) /\ o \notin Live
  /\ Pushes(dims, <<vnCounter + 1>>, <<o>>)
  /\ NewVn
  /\ nowStamped({vnCounter + 1})
  /\ raw' = raw \ {o}
  /\ covered' = covered \cup {o}
  /\ incrCounts(doCounts.plain)
  /\ NoLocals /\ GoesOn /\ UNCHANGED <<excused, missed>>

\* LDC of a String or a class
LdcObject(o) ==
  /\ o \in Constructed
  /\ Pushes(0, <<vnCounter + 1>>, <<o>>)
  /\ NewVn
  /\ incrCounts(doCounts.plain)
  /\ NoUse /\ NoLocals /\ GoesOn /\ UNCHANGED <<stamped, raw>>

CheckCast ==
  /\ falls /\ Has(1) /\ Val(0) \in Refs
  /\ nowStamped({top(stack, 0)})
  /\ Use({0}, StampsFor(0))
  /\ incrCounts(doCounts.header)
  /\ NoVn /\ NoLocals /\ GoesOn /\ UNCHANGED <<stack, jstack, raw>>

InstanceOf ==
  /\ Has(1) /\ Val(0) \in Refs
  /\ Pushes(1, <<0>>, <<Prim>>)
  /\ nowStamped({top(stack, 0)})
  /\ Use({0}, StampsFor(0))
  /\ incrCounts(doCounts.header)
  /\ NoVn /\ NoLocals /\ GoesOn /\ UNCHANGED raw

-----------------------------------------------------------------------------
(* visitMethodInsn.  A call takes n slots of arguments and a receiver; the *)
(* time advances, and a reference that is returned is stamped.             *)

Call(popped, results) ==
  /\ Pushes(popped, IF results = <<>> \/ results[1] = Prim THEN Same(Len(results))
                     ELSE <<vnCounter + 1>>, results)
  /\ NewVn
  /\ stamped' = (IF results = <<>> \/ results[1] = Prim THEN {} ELSE {vnCounter + 1})
  /\ covered' = {results[i] : i \in DOMAIN results} \cap Objects
  /\ excused' = {}
  /\ incrCountsAndFlush(doCounts.plain)
  /\ GoesOn /\ UNCHANGED <<missed, self>>

Arguments(n) == Has(n) /\ \A i \in 0 .. n - 1 : Val(i) \notin raw

InvokeStatic(n, results) ==
  /\ Arguments(n)
  /\ Call(n, results)
  /\ UNCHANGED <<locals, jlocals, raw>>

InvokeVirtual(n, results) ==
  /\ Has(n + 1) /\ Arguments(n) /\ Val(n) \in Constructed
  /\ Call(n + 1, results)
  /\ UNCHANGED <<locals, jlocals, raw>>

\* foundInit
InvokeInit(n) ==
  /\ falls /\ Has(n + 1) /\ Arguments(n) /\ Val(n) \in raw
  /\ LET vn == top(pop(stack, n), 0)
     IN  /\ locals' = IF vn < 0 THEN renumber(locals, vn, vnCounter + 1) ELSE locals
         /\ stack' = pop(IF vn < 0 THEN renumber(pop(stack, n), vn, vnCounter + 1)
                         ELSE pop(stack, n), 1)
  /\ jstack' = Below(n + 1)
  /\ raw' = raw \ {Val(n)}
  /\ NewVn
  /\ stamped' = {} /\ covered' = {} /\ excused' = {}
  /\ incrCountsAndFlush(doCounts.plain)
  /\ GoesOn /\ UNCHANGED <<missed, jlocals, self>>

-----------------------------------------------------------------------------
(* visitVarInsn.                                                           *)

ALoad(i) ==
  /\ jlocals[i + 1] # Prim
  /\ Pushes(0, <<get(locals, i)>>, <<jlocals[i + 1]>>)
  /\ incrCounts(doCounts.plain)
  /\ NoUse /\ NoVn /\ NoLocals /\ GoesOn /\ UNCHANGED <<stamped, raw>>

\* Compilers never keep an object in a variable before its constructor was called.
AStore(i) ==
  /\ Has(1) /\ Val(0) \in Refs
  /\ Pushes(1, <<>>, <<>>)
  /\ locals' = set(locals, i, top(stack, 0))
  /\ jlocals' = [jlocals EXCEPT ![i + 1] = Val(0)]
  /\ incrCounts(doCounts.plain)
  /\ NoUse /\ NoVn /\ GoesOn /\ UNCHANGED <<stamped, self, raw>>

StorePrimVar(i) ==
  /\ Has(1) /\ AllPrim(0, 0)
  /\ Pushes(1, <<>>, <<>>)
  /\ locals' = set(locals, i, 0)
  /\ jlocals' = [jlocals EXCEPT ![i + 1] = Prim]
  /\ incrCounts(doCounts.plain)
  /\ NoUse /\ NoVn /\ GoesOn /\ UNCHANGED <<stamped, self, raw>>

StoreWideVar(i) ==
  /\ Has(2) /\ AllPrim(0, 1) /\ i + 2 <= Len(jlocals)
  /\ Pushes(2, <<>>, <<>>)
  /\ locals' = set(set(locals, i, 0), i + 1, 0)
  /\ jlocals' = [jlocals EXCEPT ![i + 1] = Prim, ![i + 2] = Prim]
  /\ incrCounts(doCounts.plain)
  /\ NoUse /\ NoVn /\ GoesOn /\ UNCHANGED <<stamped, self, raw>>

-----------------------------------------------------------------------------
(* visitLabel, visitFrame.                                                 *)

\* Mutated: the copies of an unconstructed object are numbered one by one.
FrameVn_Fault(values, isRaw, i) ==
  LET v == values[i]
  IN  IF v = Prim THEN 0
      ELSE IF v \notin isRaw THEN i
      ELSE -1 - i

\* what the frame gives the i-th of the values of the locals and the stack
FrameVn(values, isRaw, i) ==
  LET v == values[i]
      first == CHOOSE j \in DOMAIN values : values[j] = v /\ \A k \in 1 .. j - 1 : values[k] # v
  IN  IF v = Prim THEN 0
      ELSE IF v \notin isRaw THEN i
      ELSE IF v = self THEN -1 ELSE -1 - first

\* The frame of a jump target; without -opt the class reader skips it.
visitFrame ==
  IF frames
  THEN LET values == jlocals' \o jstack'
       IN  /\ locals' = [i \in 1 .. Len(jlocals) |-> FrameVn(values, raw, i)]
           /\ stack' = [i \in 1 .. Len(jstack') |-> FrameVn(values, raw, Len(jlocals) + i)]
           /\ vnCounter' = Len(values) /\ uninitCounter' = -1 - Len(values)
           /\ stamped' = {}
  ELSE UNCHANGED adapter

\* a label in the flow of the code, of a line number, say
Label ==
  /\ falls /\ counts # <<0, 0>>
  /\ incrCountsAndFlush(<<0, 0>>)
  /\ NoUse /\ GoesOn /\ UNCHANGED <<adapter, machine>>

\* the code falls into a jump target
FallIn ==
  /\ falls
  /\ UNCHANGED machine
  /\ visitFrame
  /\ incrCountsAndFlush(<<0, 0>>)
  /\ NoUse /\ GoesOn

\* another path, on which nothing was stamped since the last call, may have other
\* objects in the places of the constructed ones
Arrives(s, t) ==
  /\ DOMAIN s = DOMAIN t
  /\ \A i \in DOMAIN s : IF s[i] \in Refs THEN t[i] \in Refs ELSE t[i] = s[i]

ArrivingLocals ==
  /\ jlocals' \in [DOMAIN jlocals -> Objects \cup {Null, Prim}]
  /\ Arrives(jlocals, jlocals')

\* Other values come to the places the adapter has numbered.  Without a frame the numbers
\* still tell which of them are constructed, if the places are the same ones: all of them,
\* or the local variables alone.
Joins(samePlaces) ==
  known' = IF frames THEN known
           ELSE IF samePlaces /\ known # "nothing" THEN "kinds" ELSE "nothing"

\* A jump arrives.  Where the code does not fall in, the stack is a lower part of what
\* it was in the code above.
JumpIn(k) ==
  /\ k \in 0 .. Len(jstack) /\ (falls => k = Len(jstack))
  /\ ArrivingLocals
  /\ jstack' \in [1 .. k -> Objects \cup {Null, Prim}]
  /\ Arrives(SubSeq(jstack, 1, k), jstack')
  /\ visitFrame /\ Joins(falls \/ k = 0)
  /\ covered' = {} /\ excused' = {}
  /\ falls' = TRUE
  /\ counts' = <<0, 0>> /\ owed' = IF falls THEN <<0, 0>> ELSE owed
  /\ UNCHANGED <<missed, self, raw>>

\* The label of a handler: exceptionHandle advances the time and stamps the exception
\* and the receiver.
Handler(o) ==
  /\ ~falls /\ o \in Constructed
  /\ ArrivingLocals
  /\ jstack' = <<o>>
  /\ visitFrame /\ Joins(FALSE)
  /\ covered' = {o} \cup (IF self = Null THEN {} ELSE {jlocals'[1]} \cap Constructed)
  /\ excused' = {}
  /\ falls' = TRUE
  /\ counts' = <<0, 0>> /\ owed' = <<0, 0>>
  /\ UNCHANGED <<missed, self, raw>>

-----------------------------------------------------------------------------
\* The bound on the code: a method has loads and stores of references and constants,
\* and the instructions of the groups in code.
In(group) == group \in code

visitInsn ==
  \/ \E vals \in {<<Null>>, <<Prim>>} : PushUntracked(vals)
  \/ /\ In("primitives")
     /\ \/ PushUntracked(<<Prim, Prim>>)
        \/ \E nr \in {<<0, 0>>, <<1, 2>>, <<2, 1>>, <<3, 2>>, <<4, 2>>, <<4, 1>>} :
             Arithmetic(nr[1], nr[2])
  \/ In("moves") /\ ((\E n \in 1 .. 2 : Pop(n)) \/ \E form \in Shuffles : Shuffle(form))
  \/ /\ In("arrays")
     /\ \/ \E w \in 1 .. 2 : LoadPrim(w) \/ StorePrim(w)
        \/ \E o \in Refs : AALoad(o)
        \/ AAStore
        \/ \E results \in {<<>>, <<Prim>>} : UseTop(results)
  \/ In("labels") /\ Exit

visitFieldInsn ==
  \/ In("fields") /\ ((\E o \in Refs : GetFieldRef(o) \/ GetStaticRef(o)) \/ PutFieldRef \/ PutStaticRef)
  \/ In("primitives") /\ \E w \in 1 .. 2 : GetFieldPrim(w) \/ PutFieldPrim(w) \/ PutStaticPrim(w)

visitJumpInsn ==
  \/ In("primitives") /\ \E n \in 1 .. 2 : IfPrim(n)
  \/ In("types") /\ (IfAcmp \/ IfNull)
  \/ In("labels") /\ Switch

visitTypeInsn ==
  \/ In("objects") /\ \E o \in Objects : New(o) \/ LdcObject(o)
  \/ In("arrays") /\ \E o \in Objects, dims \in 1 .. 2 : NewArray(dims, o)
  \/ In("types") /\ (CheckCast \/ InstanceOf)

visitMethodInsn ==
  \E n \in 0 .. 1 :
    \/ In("objects") /\ InvokeInit(n)
    \/ /\ In("calls")
       /\ \E results \in {<<>>, <<Prim, Prim>>} \cup {<<v>> : v \in Refs} :
            InvokeStatic(n, results) \/ InvokeVirtual(n, results)

visitVarInsn ==
  \E i \in 0 .. Len(jlocals) - 1 :
    \/ ALoad(i) \/ AStore(i)
    \/ In("primitives") /\ (StorePrimVar(i) \/ StoreWideVar(i))

visitLabel ==
  /\ In("labels")
  /\ \/ Label \/ FallIn
     \/ \E k \in 0 .. MaxStack : JumpIn(k)
     \/ \E o \in Objects : Handler(o)

Next ==
  /\ visits < MaxVisits /\ visits' = visits + 1 /\ UNCHANGED <<code, frames>>
  /\ \/ visitInsn \/ visitFieldInsn \/ visitJumpInsn \/ visitTypeInsn
     \/ visitMethodInsn \/ visitVarInsn \/ visitLabel

Spec == Init /\ [][Next]_vars

-----------------------------------------------------------------------------
(* Properties.                                                             *)

\* The variables stay in their types; a number is in stamped only if it is positive.
TypeOK ==
  /\ locals \in Seq(Int) /\ stack \in Seq(Int)
  /\ vnCounter \in Nat /\ uninitCounter \in Int /\ stamped \subseteq Nat \ {0}
  /\ jlocals \in Seq(Objects \cup {Null, Prim}) /\ jstack \in Seq(Objects \cup {Null, Prim})
  /\ Len(jlocals) >= 1 /\ self \in Objects \cup {Null}
  /\ raw \subseteq Objects /\ covered \subseteq Objects /\ excused \subseteq Objects
  /\ missed \subseteq Objects /\ falls \in BOOLEAN
  /\ known \in {"values", "kinds", "nothing"}

\* the adapter's numbers and the JVM's values that stand in the same place
StackPairs == {<<top(stack, i), Val(i)>> : i \in 0 .. Len(jstack) - 1}
LocalPairs == {<<get(locals, i - 1), jlocals[i]>> : i \in DOMAIN jlocals}
Pairs == StackPairs \cup LocalPairs

\* The adapter's stack is never shorter than the JVM's where the code goes on, the
\* primitive slots have no number, and a number is negative just for an object whose
\* constructor was not called: so no hook is given such an object, which the verifier
\* would refuse (shouldStamp), and uninitPutfield is called for no other.  Without frames,
\* as the agent runs the rewriter, that lasts across the jumps the code falls into and
\* those that bring no operands, to the first handler or other jump (visitFrame).
KindsKnown ==
  falls /\ known # "nothing" =>
    /\ Len(stack) >= Len(jstack)
    /\ \A p \in StackPairs : p[2] = Prim => p[1] = 0
    /\ \A p \in Pairs : /\ p[1] < 0 => p[2] \in raw
                        /\ p[1] > 0 => p[2] \notin raw

\* Places with the same value number hold the same value, through all moves, frames and
\* the renumbering of an object when its constructor was called (foundInit).  Without
\* frames that lasts to the first jump that arrives.
ValueNumbersSound ==
  falls /\ known = "values" =>
    \A p, q \in Pairs : p[1] = q[1] /\ p[1] # 0 => p[2] = q[2]

\* An object that the adapter follows (its number is not 0) is used only when it cannot
\* be reported with a death time before the use: it has the stamp of the time the last
\* call left, or hangs on an object that has; without frames, to the first jump that
\* arrives.  The exceptions, up to the next call of a method: what is loaded from an array
\* that is not followed itself, for AALOAD takes the element for stamped and stamps
\* nothing (lines 577, 775-776); the objects of an AASTORE, whose hook stamps nothing;
\* what a class initializer left behind; and what is loaded from one of these.
UsesCovered == known = "values" => missed = {}

\* What visitFrame and stamped promise ("stamped since last reset"), on all paths.
UsesCoveredOnAllPaths == missed = {}

\* What the calls of counts and longCounts report, after packing and unpacking, and
\* what is still to be flushed, is what was executed, on every path through the code
\* that meets no switch and no exception.
CountsConserved == falls => owed = counts

====
