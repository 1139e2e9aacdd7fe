-------------------------- MODULE InterpreterProofs --------------------------
(***************************************************************************)
(* Theorems about the bytecode interpreter (Interpreter), for every module *)
(* that links, every host and every limit.  They rest on what the program  *)
(* can name: every reference that a register, a local, a field, a list of  *)
(* leaves or the pending exception holds is the reference of an object of  *)
(* the heap, and the type of an object never changes.                      *)
(***************************************************************************)
EXTENDS Interpreter, ListLemmas

(* ------------------------------ the machine --------------------------- *)

IsList(s) == s \in Seq(Elements(s))

IsDelegate(t) == t \in DOMAIN Types /\ Types[t].kind = "delegate"

Opcodes ==
    ConstantOps \cup LocalOps \cup ConvertOps \cup TypeTests \cup NewOps \cup ArrayOps
    \cup {"CheckNotNull", "Call"} \cup FieldOps \cup DelegateOps \cup ArithmeticOps

\* What every module has once it is decoded: lists, and opcodes of the enumeration.
DecodedInstruction(ins) == IsList(ins.args) /\ ins.op \in Opcodes
DecodedBlock(b) ==
    /\ IsList(b.params) /\ IsList(b.code) /\ IsList(b.term.to)
    /\ \A k \in 1 .. Len(b.code) : DecodedInstruction(b.code[k])
    /\ \A k \in 1 .. Len(b.term.to) : IsList(b.term.to[k][2])
DecodedFunction(f) ==
    /\ IsList(f.params) /\ IsList(f.locals) /\ IsList(f.regs) /\ IsList(f.blocks)
    /\ IsList(f.handlers)
    /\ \A b \in 1 .. Len(f.blocks) : DecodedBlock(f.blocks[b])

\* What the compiler does not write: a delegate type with fields, a base or an interface.  Of
\* the names, those that stand for something else are not names of call references.
DelegatesBare ==
    /\ \A t \in DOMAIN Types : IsDelegate(t) =>
        /\ Types[t].fields = <<>> /\ IsList(Types[t].invoke.params)
        /\ \A u \in DOMAIN Types : Assignable(t, u) => t = u
    /\ {NoId, "list"} \cap DOMAIN References = {}

Decoded ==
    /\ \A s \in DOMAIN Code : DecodedFunction(Code[s])
    /\ \A r \in DOMAIN References : IsList(References[r].params)
    /\ DelegatesBare

(* ------------------------------- the values --------------------------- *)

\* U is a set of values that a program can have when the heap is h: their references are
\* those of the heap, and the fields of their structs are in U.
Closed(h, U) ==
    /\ {Unset, NullObject} \subseteq U
    /\ \A v \in U : \/ v \in {Unset, Unresolved, NullObject, NullArray}
                  \/ v[1] \in {"Int", "Bool", "Ref", "Struct"}
    /\ \A i \in 1 .. Len(h) : Ref(i) \in U
    /\ \A v \in U : v[1] = "Ref" => v[2] \in 1 .. Len(h)
    /\ \A v \in U : v[1] = "Struct" =>
        /\ DOMAIN v[2][2] = DOMAIN Types[v[2][1]].fields
        /\ \A k \in DOMAIN v[2][2] : v[2][2][k] \in U

\* What a host invokes the program with: no references, for the heap is empty.
InputSound(i) ==
    /\ i.main \in DOMAIN Code
    /\ \E U : Closed(<<>>, U) /\ i.args \in Seq(U) /\ i.host \in U

InterpreterInit == Idle /\ Decoded /\ \A i \in Inputs(program) : InputSound(i)
InterpreterNext == Link \/ Start \/ Interpret
InterpreterSpec == InterpreterInit /\ [][InterpreterNext]_vars

(* ------------------------------ the invariant ------------------------- *)

\* An object: its fields hold values, and those with a call, and only those, are delegates.
\* The nodes of an invocation list refer to delegates that are older.
ObjectSound(h, U, i) ==
    LET o == h[i] IN
    /\ DOMAIN o = {"type", "array", "el", "fields", "call"}
    /\ o.array \in BOOLEAN
    /\ \A k \in DOMAIN o.fields : o.fields[k] \in U
    /\ o.call # NoId => ~o.array /\ IsDelegate(o.type) /\ DOMAIN o.fields = 1 .. 2
    /\ ~o.array /\ IsDelegate(o.type) => o.call # NoId
    /\ o.call = "list" => \A k \in 1 .. 2 :
        o.fields[k][2] \in 1 .. (i - 1) /\ h[o.fields[k][2]].call # NoId

HeapSound(h, U) == IsList(h) /\ \A i \in 1 .. Len(h) : ObjectSound(h, U, i)

\* The delegates of the heap, which may be leaves of an invocation list.
Delegates(h) == {Ref(i) : i \in {j \in 1 .. Len(h) : h[j].call # NoId}}

\* A frame stands in a block of its function, and has its room in the arena.
FrameSound(fr, h, room) ==
    /\ DOMAIN fr = {"fn", "block", "at", "base", "leaves"}
    /\ fr.fn \in DOMAIN Code
    /\ fr.block \in 1 .. Len(Code[fr.fn].blocks)
    /\ fr.at \in Nat \ {0}
    /\ fr.base \in Nat
    /\ fr.base + FrameSize(Code[fr.fn]) <= room
    /\ fr.leaves \in Seq(Delegates(h))

StackSound(stack, h, room) ==
    IsList(stack) /\ \A d \in 1 .. Len(stack) : FrameSound(stack[d], h, room)

\* An entry of the cache has what its site, of which it keeps the first receiver, dispatches to.
CallOf(site) == References[Code[site[1]].blocks[site[2]].code[site[3]].idx]
EntrySound(e, h) ==
    /\ e.target \in DOMAIN Code
    /\ e.receiver[2] \in 1 .. Len(h) /\ h[e.receiver[2]].type = e.type
    /\ e.target = Dispatched(CallOf(e.site), e.type)

CacheSound(entries, h) == \A k \in DOMAIN entries : EntrySound(entries[k], h)

\* Objects stay what they are, and new ones come after them.
Grown(h, g) ==
    /\ Len(h) <= Len(g)
    /\ \A i \in 1 .. Len(h) : h[i].type = g[i].type /\ h[i].call = g[i].call

MemorySound(h, values, U) == Closed(h, U) /\ HeapSound(h, U) /\ values \in Seq(U)

Invoked == status \in {"enter", "run", "unwind"}

InvocationSound ==
    /\ Links /\ InputSound(input)
    /\ \E U :
        /\ MemorySound(heap, arena, U)
        /\ pending \in U /\ input.args \in Seq(U) /\ input.host \in U
    /\ StackSound(frames, heap, Len(arena))
    /\ CacheSound(cache, heap)
    /\ IF status = "enter" THEN frames = <<>> ELSE frames # <<>>
    /\ status = "unwind" => pending[1] = "Ref"

InterpreterInv ==
    /\ Decoded /\ \A i \in Inputs(program) : InputSound(i)
    /\ DOMAIN outcome = {Tiers[k] : k \in DOMAIN Tiers} /\ mode \in DOMAIN outcome
    /\ ~Invoked => frames = <<>>
    /\ status = "link" => mode = "traced"
    /\ status = "start" => Links /\ (mode = "traced" \/ InputSound(input))
    /\ Invoked => InvocationSound

(* --------------------------- lists and frames ------------------------- *)

LEMMA ListEntries ==
  ASSUME NEW s, IsList(s)
  PROVE  /\ Len(s) \in Nat /\ DOMAIN s = 1 .. Len(s)
         /\ \A i \in 1 .. Len(s) : s[i] \in Elements(s)
BY DEF IsList, Elements

LEMMA ListsOf ==
  ASSUME NEW S, NEW s \in Seq(S)
  PROVE  IsList(s)
<1>1. Len(s) \in Nat /\ s = [i \in 1 .. Len(s) |-> s[i]] /\ \A i \in 1 .. Len(s) : s[i] \in Elements(s)
  BY DEF Elements
<1> QED BY <1>1 DEF IsList

\* The numbers of a list have a bound.
LEMMA BoundedList ==
  ASSUME NEW n \in Nat, NEW s \in [1 .. n -> Nat]
  PROVE  \E b \in Nat : \A i \in 1 .. n : s[i] <= b
<1> DEFINE Bad == {m \in 0 .. n : ~ \E b \in Nat : \A i \in 1 .. m : s[i] <= b}
<1> SUFFICES ASSUME ~ \E b \in Nat : \A i \in 1 .. n : s[i] <= b
             PROVE  FALSE
  OBVIOUS
<1>0. n \in Bad
  OBVIOUS
<1>1. Bad \in SUBSET Int /\ IsFiniteSet(Bad)
  <2>1. Bad \in SUBSET (0 .. n) /\ 0 \in Int /\ n \in Int
    OBVIOUS
  <2> HIDE DEF Bad
  <2> QED BY <2>1, PartsOfIntervals
<1>2. PICK m \in 0 .. n : m \in Bad /\ \A k \in Bad : m <= k
  <2>1. \E m \in Bad : \A k \in Bad : m <= k
    <3> HIDE DEF Bad
    <3> QED BY <1>0, <1>1, LeastIs
  <2> QED BY <2>1
<1>3. ~ \E b \in Nat : \A i \in 1 .. m : s[i] <= b
  BY <1>2
<1>9. m # 0
  <2> SUFFICES ASSUME m = 0 PROVE FALSE
    OBVIOUS
  <2>1. \A i \in 1 .. m : s[i] <= 0
    OBVIOUS
  <2> QED BY <1>3, <2>1
<1>4. m - 1 \in 0 .. n /\ m - 1 \notin Bad /\ m \in 1 .. n
  <2>1. m - 1 \in 0 .. n /\ ~(m <= m - 1) /\ m \in 1 .. n
    BY <1>0, <1>3, <1>9
  <2> HIDE DEF Bad
  <2> QED BY <1>2, <2>1
<1>5. PICK b \in Nat : \A i \in 1 .. (m - 1) : s[i] <= b
  <2>1. ~(m - 1 \in 0 .. n /\ ~ \E b \in Nat : \A i \in 1 .. (m - 1) : s[i] <= b)
    BY <1>4
  <2> HIDE DEF Bad
  <2> QED BY <1>4, <2>1
<1> HIDE DEF Bad
<1>6. s[m] \in Nat
  BY <1>4
<1>7. PICK k \in Nat : b <= k /\ s[m] <= k
  <2>1. \A x \in Nat : \E k \in Nat : b <= k /\ x <= k
    <3> TAKE x \in Nat
    <3>1. b + x \in Nat /\ b <= b + x /\ x <= b + x
      OBVIOUS
    <3> QED BY <3>1
  <2> QED BY <1>6, <2>1
<1>8. \A i \in 1 .. m : s[i] <= k
  <2> TAKE i \in 1 .. m
  <2>1. CASE i = m
    BY <1>7, <2>1
  <2>2. CASE i # m
    <3>1. i \in 1 .. (m - 1) /\ i \in 1 .. n
      BY <1>4, <2>2
    <3>2. s[i] <= b
      BY <1>5, <3>1
    <3>3. s[i] \in Nat
      BY <3>1
    <3> QED BY <1>7, <3>2, <3>3
  <2> QED BY <2>1, <2>2
<1> QED BY <1>3, <1>7, <1>8

LEMMA GreatestOf ==
  ASSUME NEW N \in Nat, NEW S \in SUBSET (0 .. N), S # {}
  PROVE  MaxOf(S) \in S /\ \A y \in S : MaxOf(S) >= y
<1> DEFINE T == {m \in 0 .. N : \A y \in S : y <= m}
<1>1. T \in SUBSET Int /\ IsFiniteSet(T) /\ N \in T
  <2>1. T \in SUBSET (0 .. N) /\ 0 \in Int /\ N \in Int
    OBVIOUS
  <2>2. N \in T
    OBVIOUS
  <2> HIDE DEF T
  <2> QED BY <2>1, <2>2, PartsOfIntervals
<1>2. PICK m \in T : \A k \in T : m <= k
  <2> HIDE DEF T
  <2> QED BY <1>1, LeastIs
<1>3. m \in S
  <2> SUFFICES ASSUME m \notin S PROVE FALSE
    OBVIOUS
  <2>1. PICK y \in S : TRUE
    OBVIOUS
  <2>2. y <= m /\ y # m /\ y \in Nat /\ m \in Nat
    BY <1>2, <2>1
  <2>3. m - 1 \in T
    BY <1>2, <2>2
  <2> QED BY <1>2, <2>2, <2>3
<1>4. \A y \in S : m >= y
  BY <1>2
<1>5. \E x \in S : \A y \in S : x >= y
  BY <1>3, <1>4
<1> QED BY <1>5 DEF MaxOf

LEMMA FrameSizes ==
  ASSUME NEW f, DecodedFunction(f)
  PROVE  /\ Len(f.params) \in Nat /\ Len(f.locals) \in Nat /\ Len(f.regs) \in Nat
         /\ FrameSize(f) \in Nat
         /\ FrameSize(f) >= Len(f.params) + Len(f.locals) + Len(f.regs)
<1> DEFINE exits(b) == f.blocks[b].term.to
           ends(b) == [k \in 1 .. Len(exits(b)) |-> Len(exits(b)[k][2])]
           n == Len(f.blocks)
           greatest == [b \in 1 .. n |->
                         CHOOSE m \in Nat : \A k \in 1 .. Len(exits(b)) : ends(b)[k] <= m]
           lengths == {0} \cup UNION {{Len(exits(b)[k][2]) : k \in DOMAIN exits(b)} :
                                       b \in DOMAIN f.blocks}
<1>1. /\ Len(f.params) \in Nat /\ Len(f.locals) \in Nat /\ Len(f.regs) \in Nat /\ n \in Nat
      /\ DOMAIN f.blocks = 1 .. n
  BY ListEntries DEF DecodedFunction
<1>2. ASSUME NEW b \in 1 .. n
      PROVE  /\ DOMAIN exits(b) = 1 .. Len(exits(b)) /\ Len(exits(b)) \in Nat
             /\ greatest[b] \in Nat
             /\ \A k \in 1 .. Len(exits(b)) : Len(exits(b)[k][2]) \in 0 .. greatest[b]
  <2>1. IsList(exits(b)) /\ \A k \in 1 .. Len(exits(b)) : IsList(exits(b)[k][2])
    BY <1>2 DEF DecodedFunction, DecodedBlock
  <2>2. /\ DOMAIN exits(b) = 1 .. Len(exits(b)) /\ Len(exits(b)) \in Nat
        /\ \A k \in 1 .. Len(exits(b)) : Len(exits(b)[k][2]) \in Nat
    BY <2>1, ListEntries
  <2> HIDE DEF exits
  <2>3. ends(b) \in [1 .. Len(exits(b)) -> Nat]
    BY <2>2
  <2> HIDE DEF ends
  <2>4. \E m \in Nat : \A k \in 1 .. Len(exits(b)) : ends(b)[k] <= m
    BY <2>2, <2>3, BoundedList
  <2>5. greatest[b] \in Nat /\ \A k \in 1 .. Len(exits(b)) : ends(b)[k] <= greatest[b]
    BY <1>2, <2>4
  <2> HIDE DEF greatest
  <2>6. \A k \in 1 .. Len(exits(b)) : ends(b)[k] = Len(exits(b)[k][2])
    BY DEF ends
  <2> QED BY <2>2, <2>5, <2>6
<1> HIDE DEF exits, ends
<1>3. greatest \in [1 .. n -> Nat]
  <2>1. \A b \in 1 .. n : greatest[b] \in Nat
    BY <1>2
  <2> QED BY <2>1
<1> HIDE DEF greatest
<1>4. PICK N \in Nat : \A b \in 1 .. n : greatest[b] <= N
  <2> HIDE DEF n
  <2> QED BY <1>1, <1>3, BoundedList
<1>5. lengths \in SUBSET (0 .. N) /\ lengths # {}
  <2> SUFFICES ASSUME NEW b \in 1 .. n, NEW k \in DOMAIN exits(b)
               PROVE  Len(exits(b)[k][2]) \in 0 .. N
    BY <1>1
  <2>1. Len(exits(b)[k][2]) \in 0 .. greatest[b] /\ greatest[b] \in Nat
    BY <1>2
  <2> QED BY <1>4, <2>1
<1>6. ScratchSize(f) = MaxOf(lengths)
  BY DEF ScratchSize, exits
<1> HIDE DEF lengths
<1>7. ScratchSize(f) \in Nat
  <2>1. MaxOf(lengths) \in lengths
    BY <1>5, GreatestOf
  <2>2. \A m \in lengths : m \in Nat
    BY <1>5
  <2> QED BY <1>6, <2>1, <2>2
<1>8. FrameSize(f) = Len(f.params) + Len(f.locals) + Len(f.regs) + ScratchSize(f)
  BY DEF FrameSize
<1>9. ASSUME NEW p \in Nat, NEW l \in Nat, NEW r \in Nat, NEW k \in Nat
      PROVE  p + l + r + k \in Nat /\ p + l + r + k >= p + l + r
  OBVIOUS
<1>10. /\ Len(f.params) + Len(f.locals) + Len(f.regs) + ScratchSize(f) \in Nat
       /\ Len(f.params) + Len(f.locals) + Len(f.regs) + ScratchSize(f)
            >= Len(f.params) + Len(f.locals) + Len(f.regs)
  BY <1>1, <1>7, <1>9
<1> QED BY <1>1, <1>8, <1>10

\* The places of a frame lie in its room of the arena.
LEMMA PlacesHeld ==
  ASSUME Decoded, NEW h, NEW U, NEW values \in Seq(U), NEW fr, FrameSound(fr, h, Len(values))
  PROVE  /\ \A r \in DOMAIN Code[fr.fn].regs :
              RegAt(fr, r) \in 1 .. Len(values) /\ values[RegAt(fr, r)] \in U
         /\ \A k \in DOMAIN Code[fr.fn].locals :
              LocalAt(fr, k) \in 1 .. Len(values) /\ values[LocalAt(fr, k)] \in U
         /\ \A k \in DOMAIN Code[fr.fn].params :
              ArgAt(fr, k) \in 1 .. Len(values) /\ values[ArgAt(fr, k)] \in U
<1> DEFINE f == Code[fr.fn]
<1>1. /\ fr.fn \in DOMAIN Code /\ DecodedFunction(f) /\ fr.base \in Nat
      /\ fr.base + FrameSize(f) <= Len(values)
  BY DEF FrameSound, Decoded
<1>2. /\ Len(f.params) \in Nat /\ Len(f.locals) \in Nat /\ Len(f.regs) \in Nat
      /\ FrameSize(f) \in Nat
      /\ FrameSize(f) >= Len(f.params) + Len(f.locals) + Len(f.regs)
  BY <1>1, FrameSizes
<1>3. /\ DOMAIN f.params = 1 .. Len(f.params) /\ DOMAIN f.locals = 1 .. Len(f.locals)
      /\ DOMAIN f.regs = 1 .. Len(f.regs)
  BY <1>1, ListEntries DEF DecodedFunction
<1>4. Len(values) \in Nat /\ \A i \in 1 .. Len(values) : values[i] \in U
  OBVIOUS
<1>5. ASSUME NEW p \in Nat, NEW l \in Nat, NEW g \in Nat, NEW size \in Nat, NEW base \in Nat,
             NEW room \in Nat, size >= p + l + g, base + size <= room
      PROVE  /\ \A r \in 1 .. g : base + p + l + r \in 1 .. room
             /\ \A k \in 1 .. l : base + p + k \in 1 .. room
             /\ \A k \in 1 .. p : base + k \in 1 .. room
  BY <1>5
<1>6. /\ \A r \in 1 .. Len(f.regs) :
          fr.base + Len(f.params) + Len(f.locals) + r \in 1 .. Len(values)
      /\ \A k \in 1 .. Len(f.locals) : fr.base + Len(f.params) + k \in 1 .. Len(values)
      /\ \A k \in 1 .. Len(f.params) : fr.base + k \in 1 .. Len(values)
  <2> HIDE DEF f
  <2> QED BY <1>1, <1>2, <1>4, <1>5
<1> QED BY <1>3, <1>4, <1>6 DEF RegAt, LocalAt, ArgAt

(* ----------------------------- instructions --------------------------- *)

\* What an instruction may answer when the values there are are those of U.
Sane(answer, U) ==
    answer.code = "None" =>
        \E V : /\ U \subseteq V /\ answer.value \in V
               /\ Closed(answer.heap, V) /\ HeapSound(answer.heap, V)
               /\ Grown(heap, answer.heap)

LEMMA ErrorsSane ==
  ASSUME NEW c, c # "None", NEW U
  PROVE  Sane(Error(c), U)
BY DEF Sane, Error

LEMMA AnswersSane ==
  ASSUME NEW U, NEW V, U \subseteq V, Closed(heap, V), HeapSound(heap, U), NEW v \in V
  PROVE  Sane(Answer(v), U)
<1>1. HeapSound(heap, V)
  BY DEF HeapSound, ObjectSound
<1>2. Grown(heap, heap)
  <2>1. Len(heap) \in Nat
    BY ListEntries DEF HeapSound
  <2> QED BY <2>1 DEF Grown
<1>3. Answer(v).value = v /\ Answer(v).heap = heap
  BY DEF Answer
<1> QED BY <1>1, <1>2, <1>3 DEF Sane

LEMMA PlainSane ==
  ASSUME NEW U, Closed(heap, U), HeapSound(heap, U), NEW v,
         v \in {Unset, NullObject, NullArray} \/ v[1] \in {"Int", "Bool"}
  PROVE  Sane(Answer(v), U)
<1>1. v[1] \notin {"Ref", "Struct"}
  BY DEF Unset, NullObject, NullArray
<1>2. Closed(heap, U \cup {v})
  BY <1>1 DEF Closed
<1> QED BY <1>2, AnswersSane

LEMMA StructsSane ==
  ASSUME NEW U, Closed(heap, U), HeapSound(heap, U), NEW t, NEW fields,
         DOMAIN fields = DOMAIN Types[t].fields, \A k \in DOMAIN fields : fields[k] \in U
  PROVE  Sane(Answer(StructV(t, fields)), U)
<1> DEFINE v == StructV(t, fields)
<1>1. v[1] = "Struct" /\ v[2][1] = t /\ v[2][2] = fields
  BY DEF StructV
<1> HIDE DEF v
<1>2. Closed(heap, U \cup {v})
  BY <1>1 DEF Closed
<1> QED BY <1>2, AnswersSane DEF v

\* An object is made: of a class or an array, or a delegate.
ObjectMade(o, V) ==
    /\ DOMAIN o = {"type", "array", "el", "fields", "call"}
    /\ o.array \in BOOLEAN
    /\ \A k \in DOMAIN o.fields : o.fields[k] \in V
    /\ o.call # "list"
    /\ o.call # NoId => ~o.array /\ IsDelegate(o.type) /\ DOMAIN o.fields = 1 .. 2
    /\ ~o.array /\ IsDelegate(o.type) => o.call # NoId

LEMMA CreatedSane ==
  ASSUME NEW U, NEW V, U \subseteq V, Closed(heap, V), HeapSound(heap, U), NEW o, ObjectMade(o, V)
  PROVE  Sane(Created(o), U)
<1> DEFINE h == Append(heap, o)
           n == Len(heap)
           W == V \cup {Ref(n + 1)}
<1>1. heap \in Seq(Elements(heap) \cup {o}) /\ n \in Nat
  BY ListEntries DEF HeapSound, IsList
<1>2. /\ h \in Seq(Elements(heap) \cup {o}) /\ Len(h) = n + 1
      /\ \A i \in 1 .. n : h[i] = heap[i]
      /\ h[n + 1] = o
  <2> HIDE DEF h
  <2>1. h \in Seq(Elements(heap) \cup {o})
    BY <1>1, AppendedEntry DEF h
  <2>2. /\ Len(h) = n + 1
        /\ \A i \in 1 .. n : h[i] = heap[i]
        /\ h[n + 1] = o
    BY <1>1, AppendedEntry DEF h
  <2> QED BY <2>1, <2>2
<1> HIDE DEF h, n
<1>3. IsList(h)
  BY <1>2, ListsOf
<1>4. Ref(n + 1)[1] = "Ref" /\ Ref(n + 1)[2] = n + 1
  BY DEF Ref
<1>5. Closed(h, W)
  <2>1. \A i \in 1 .. Len(h) : Ref(i) \in W
    <3> TAKE i \in 1 .. Len(h)
    <3>1. i \in 1 .. n \/ i = n + 1
      BY <1>1, <1>2
    <3> QED BY <3>1 DEF Closed, n
  <2>2. \A v \in W : v[1] = "Ref" => v[2] \in 1 .. Len(h)
    <3>1. \A i \in 1 .. n : i \in 1 .. Len(h)
      BY <1>1, <1>2
    <3>2. n + 1 \in 1 .. Len(h)
      BY <1>1, <1>2
    <3> QED BY <1>4, <3>1, <3>2 DEF Closed, n
  <2>3. \A v \in W : v[1] = "Struct" =>
          /\ DOMAIN v[2][2] = DOMAIN Types[v[2][1]].fields
          /\ \A k \in DOMAIN v[2][2] : v[2][2][k] \in W
    BY <1>4 DEF Closed
  <2>4. /\ {Unset, NullObject} \subseteq W
        /\ \A v \in W : \/ v \in {Unset, Unresolved, NullObject, NullArray}
                        \/ v[1] \in {"Int", "Bool", "Ref", "Struct"}
    BY <1>4 DEF Closed
  <2> HIDE DEF W
  <2> QED BY <2>1, <2>2, <2>3, <2>4 DEF Closed
<1>6. ASSUME NEW i \in 1 .. Len(h)
      PROVE  ObjectSound(h, W, i)
  <2>1. CASE i = n + 1
    BY <1>2, <2>1 DEF ObjectMade, ObjectSound
  <2>2. CASE i # n + 1
    <3>1. i \in 1 .. n
      BY <1>1, <1>2, <2>2
    <3>2. h[i] = heap[i] /\ ObjectSound(heap, U, i)
      BY <1>2, <3>1 DEF HeapSound, n
    <3>3. \A j \in 1 .. (i - 1) : h[j] = heap[j]
      <4> TAKE j \in 1 .. (i - 1)
      <4>1. j \in 1 .. n
        BY <1>1, <3>1
      <4> QED BY <1>2, <4>1
    <3> QED BY <3>2, <3>3 DEF ObjectSound
  <2> QED BY <2>1, <2>2
<1>7. HeapSound(h, W)
  BY <1>3, <1>6 DEF HeapSound
<1>8. Grown(heap, h)
  <2>1. n <= Len(h)
    BY <1>1, <1>2
  <2> QED BY <1>2, <2>1 DEF Grown, n
<1>9. Created(o) = IF n >= HeapLimit THEN Error("OutOfMemory")
                   ELSE [code |-> "None", value |-> Ref(n + 1), heap |-> h]
  BY DEF Created, h, n
<1>10. CASE n >= HeapLimit
  BY <1>9, <1>10, ErrorsSane
<1>11. CASE ~(n >= HeapLimit)
  <2>1. U \subseteq W /\ Ref(n + 1) \in W
    OBVIOUS
  <2>2. Created(o).value = Ref(n + 1) /\ Created(o).heap = h
    BY <1>9, <1>11
  <2> QED BY <1>5, <1>7, <1>8, <2>1, <2>2 DEF Sane
<1> QED BY <1>10, <1>11

\* A field or an element is replaced, of what is no delegate.
LEMMA UpdatedSane ==
  ASSUME NEW U, Closed(heap, U), HeapSound(heap, U),
         NEW i \in 1 .. Len(heap), heap[i].call = NoId, NEW k, NEW v \in U
  PROVE  Sane(Updated(i, k, v), U)
<1> DEFINE h == [heap EXCEPT ![i].fields[k] = v]
           n == Len(heap)
<1>1. n \in Nat /\ DOMAIN heap = 1 .. n /\ heap \in Seq(Elements(heap))
  BY ListEntries DEF HeapSound, IsList
<1>2. ObjectSound(heap, U, i)
  BY DEF HeapSound
<1>3. /\ DOMAIN h = 1 .. n
      /\ \A j \in 1 .. n : j # i => h[j] = heap[j]
      /\ h[i] = [heap[i] EXCEPT !.fields = [heap[i].fields EXCEPT ![k] = v]]
  BY <1>1
<1>4. /\ DOMAIN h[i] = DOMAIN heap[i]
      /\ h[i].type = heap[i].type /\ h[i].array = heap[i].array /\ h[i].call = heap[i].call
      /\ DOMAIN h[i].fields = DOMAIN heap[i].fields
      /\ \A j \in DOMAIN h[i].fields : h[i].fields[j] \in U
  BY <1>2, <1>3 DEF ObjectSound
<1>5. IsList(h) /\ Len(h) = n
  <2>1. h = [j \in 1 .. n |-> h[j]]
    BY <1>1
  <2> HIDE DEF h
  <2>2. h \in Seq({h[j] : j \in 1 .. n}) /\ Len(h) = n
    BY <1>1, <2>1
  <2> QED BY <2>2, ListsOf
<1> HIDE DEF h
<1>6. Closed(h, U)
  BY <1>5 DEF Closed, n
<1>7. \A j \in 1 .. n : h[j].call = heap[j].call /\ h[j].type = heap[j].type
  BY <1>3, <1>4
<1>8. ASSUME NEW j \in 1 .. n
      PROVE  ObjectSound(h, U, j)
  <2>1. ObjectSound(heap, U, j)
    BY DEF HeapSound, n
  <2>2. CASE j = i
    <3>1. heap[i].call # "list"
      BY DEF NoId
    <3> QED BY <1>2, <1>4, <2>2, <3>1 DEF ObjectSound
  <2>3. CASE j # i
    <3>1. h[j] = heap[j]
      BY <1>3, <2>3
    <3>2. \A l \in 1 .. (j - 1) : l \in 1 .. n
      BY <1>1
    <3> QED BY <1>7, <2>1, <3>1, <3>2 DEF ObjectSound
  <2> QED BY <2>2, <2>3
<1>9. HeapSound(h, U)
  BY <1>5, <1>8 DEF HeapSound
<1>10. Grown(heap, h)
  BY <1>1, <1>5, <1>7 DEF Grown, n
<1>11. Updated(i, k, v).value = Unset /\ Updated(i, k, v).heap = h
  BY DEF Updated, h
<1>12. Unset \in U
  BY DEF Closed
<1> QED BY <1>6, <1>9, <1>10, <1>11, <1>12 DEF Sane

(* ------------------------------- defaults ----------------------------- *)

Structs == {t \in DOMAIN Types : Types[t].kind = "struct"}

\* One step of the recursion of StructDefault, and the function it defines.
DefaultsOf(g, n) ==
    [t \in Structs |->
        StructV(t, [k \in DOMAIN Types[t].fields |->
            LET ty == Types[t].fields[k] IN
            IF ty[1] = "Struct" /\ n > 0 THEN g[n - 1][ty[2]] ELSE FlatDefault(ty)])]

LEMMA DefaultsCongruent ==
  ASSUME NEW g, NEW h, NEW n \in Nat, n > 0 => g[n - 1] = h[n - 1]
  PROVE  DefaultsOf(g, n) = DefaultsOf(h, n)
<1>1. CASE n > 0
  BY <1>1 DEF DefaultsOf
<1>2. CASE ~(n > 0)
  BY <1>2 DEF DefaultsOf
<1> QED BY <1>1, <1>2

LEMMA StructDefaultDef ==
  StructDefault = [n \in 0 .. 64 |-> DefaultsOf(StructDefault, n)]
<1> DEFINE Solves(g, m) == g = [n \in 0 .. m |-> DefaultsOf(g, n)]
           Bad == {m \in 0 .. 64 : ~ \E g : Solves(g, m)}
<1>1. Bad = {}
  <2> SUFFICES ASSUME Bad # {} PROVE FALSE
    OBVIOUS
  <2>1. Bad \in SUBSET (0 .. 64) /\ 0 \in Int /\ 64 \in Int
    OBVIOUS
  <2>2. PICK m \in 0 .. 64 : m \in Bad /\ \A k \in Bad : m <= k
    <3> HIDE DEF Bad
    <3>1. Bad \in SUBSET Int /\ IsFiniteSet(Bad)
      BY <2>1, PartsOfIntervals
    <3> QED BY <2>1, <3>1, LeastIs
  <2>3. ~ \E g : Solves(g, m)
    BY <2>2
  <2>4. \E g : m # 0 => Solves(g, m - 1)
    <3>1. CASE m = 0
      BY <3>1
    <3>2. CASE m # 0
      <4>1. m - 1 \in 0 .. 64 /\ ~(m <= m - 1)
        BY <3>2
      <4>2. m - 1 \notin Bad
        <5> HIDE DEF Bad
        <5> QED BY <2>2, <4>1
      <4> HIDE DEF Solves
      <4> QED BY <4>1, <4>2
    <3> QED BY <3>1, <3>2
  <2>5. PICK g : m # 0 => Solves(g, m - 1)
    BY <2>4
  <2> DEFINE h == [n \in 0 .. m |-> DefaultsOf(g, n)]
  <2>6. ASSUME NEW n \in 0 .. m
        PROVE  DefaultsOf(h, n) = DefaultsOf(g, n)
    <3>1. CASE n = 0
      BY <3>1, DefaultsCongruent
    <3>2. CASE n # 0
      <4>1. n - 1 \in 0 .. m /\ n - 1 \in 0 .. (m - 1) /\ m # 0 /\ n \in Nat
        BY <3>2
      <4>2. g[n - 1] = DefaultsOf(g, n - 1)
        BY <2>5, <4>1
      <4>3. h[n - 1] = DefaultsOf(g, n - 1)
        BY <4>1
      <4> HIDE DEF h
      <4> QED BY <4>1, <4>2, <4>3, DefaultsCongruent
    <3> QED BY <3>1, <3>2
  <2>7. h = [n \in 0 .. m |-> DefaultsOf(h, n)]
    BY <2>6
  <2> HIDE DEF h
  <2> QED BY <2>3, <2>7
<1>2. \E g : Solves(g, 64)
  <2>1. 64 \in 0 .. 64
    OBVIOUS
  <2> HIDE DEF Solves
  <2> QED BY <1>1, <2>1
<1>3. StructDefault = CHOOSE g : Solves(g, 64)
  BY DEF StructDefault, DefaultsOf, Structs
<1>4. Solves(StructDefault, 64)
  <2> HIDE DEF Solves
  <2> QED BY <1>2, <1>3
<1> QED BY <1>4

\* Where values of U are, there may be those and the default values as well.
LEMMA DefaultsHeld ==
  ASSUME Links, NEW U, Closed(heap, U)
  PROVE  \E V : /\ U \subseteq V /\ Closed(heap, V)
                /\ \A ty : KnownIdentity(ty) => DefaultValue(ty) \in V
<1> DEFINE plain == {Unset, IntV(0), BoolV(FALSE), NullObject, NullArray}
           built == {StructDefault[n][t] : n \in 0 .. 64, t \in Structs}
           V == U \cup plain \cup built
<1>0. \A n \in 0 .. 64 : \A t \in Structs : StructDefault[n][t] \in built
  OBVIOUS
<1>1. \A ty : FlatDefault(ty) \in plain
  BY DEF FlatDefault
<1>2. \A v \in plain : /\ v[1] \notin {"Ref", "Struct"}
                       /\ \/ v \in {Unset, Unresolved, NullObject, NullArray}
                          \/ v[1] \in {"Int", "Bool", "Ref", "Struct"}
  <2>1. /\ Unset[1] = "Null" /\ NullObject[1] = "NullObject" /\ NullArray[1] = "NullArray"
        /\ IntV(0)[1] = "Int" /\ BoolV(FALSE)[1] = "Bool"
    BY DEF Unset, IntV, BoolV, NullObject, NullArray
  <2> QED BY <2>1
<1>3. ASSUME NEW n \in 0 .. 64, NEW t \in Structs
      PROVE  /\ StructDefault[n][t][1] = "Struct" /\ StructDefault[n][t][2][1] = t
             /\ DOMAIN StructDefault[n][t][2][2] = DOMAIN Types[t].fields
             /\ \A k \in DOMAIN Types[t].fields : StructDefault[n][t][2][2][k] \in plain \cup built
  <2> DEFINE fields == [k \in DOMAIN Types[t].fields |->
                          LET ty == Types[t].fields[k] IN
                          IF ty[1] = "Struct" /\ n > 0 THEN StructDefault[n - 1][ty[2]]
                          ELSE FlatDefault(ty)]
  <2>1. StructDefault[n] = DefaultsOf(StructDefault, n)
    <3> DEFINE whole == [m \in 0 .. 64 |-> DefaultsOf(StructDefault, m)]
    <3>1. whole[n] = DefaultsOf(StructDefault, n)
      OBVIOUS
    <3>2. StructDefault = whole
      BY StructDefaultDef
    <3> HIDE DEF whole
    <3> QED BY <3>1, <3>2
  <2>2. StructDefault[n][t] = StructV(t, fields)
    BY <2>1 DEF DefaultsOf
  <2>3. ASSUME NEW k \in DOMAIN Types[t].fields
        PROVE  fields[k] \in plain \cup built
    <3> DEFINE ty == Types[t].fields[k]
    <3>1. KnownIdentity(ty)
      BY DEF Links, VerifyModule, DescriptorOk, Structs
    <3>2. CASE ty[1] = "Struct" /\ n > 0
      <4>1. ty[2] \in Structs
        BY <3>1, <3>2 DEF KnownIdentity, Structs
      <4>2. n - 1 \in 0 .. 64
        BY <3>2
      <4>3. fields[k] = StructDefault[n - 1][ty[2]]
        BY <3>2
      <4> HIDE DEF fields, plain, built
      <4>4. StructDefault[n - 1][ty[2]] \in built
        BY <1>0, <4>1, <4>2
      <4> QED BY <4>3, <4>4
    <3>3. CASE ~(ty[1] = "Struct" /\ n > 0)
      <4>1. fields[k] = FlatDefault(ty)
        BY <3>3
      <4> HIDE DEF fields, plain, built
      <4> QED BY <1>1, <4>1
    <3> HIDE DEF fields, plain, built, ty
    <3> QED BY <3>2, <3>3
  <2>4. DOMAIN fields = DOMAIN Types[t].fields
    OBVIOUS
  <2> HIDE DEF fields, plain, built
  <2>5. /\ StructV(t, fields)[1] = "Struct" /\ StructV(t, fields)[2][1] = t
        /\ StructV(t, fields)[2][2] = fields
    BY DEF StructV
  <2> QED BY <2>2, <2>3, <2>4, <2>5
<1> HIDE DEF plain
<1>4. U \subseteq V /\ plain \subseteq V /\ built \subseteq V
  OBVIOUS
<1>5. ASSUME NEW v \in built
      PROVE  /\ v[1] = "Struct" /\ DOMAIN v[2][2] = DOMAIN Types[v[2][1]].fields
             /\ \A k \in DOMAIN v[2][2] : v[2][2][k] \in V
  <2>1. PICK n \in 0 .. 64, t \in Structs : v = StructDefault[n][t]
    OBVIOUS
  <2> HIDE DEF built, V
  <2>2. plain \cup built \subseteq V
    BY <1>4
  <2> DEFINE w == StructDefault[n][t]
  <2>3. w[1] = "Struct" /\ w[2][1] = t /\ DOMAIN w[2][2] = DOMAIN Types[t].fields
        /\ \A k \in DOMAIN w[2][2] : w[2][2][k] \in plain \cup built
    BY <1>3
  <2> HIDE DEF w
  <2>4. v = w
    BY <2>1 DEF w
  <2> QED BY <2>2, <2>3, <2>4
<1> HIDE DEF built
<1>6. Closed(heap, V)
  BY <1>2, <1>5 DEF Closed
<1>7. ASSUME NEW ty, KnownIdentity(ty)
      PROVE  DefaultValue(ty) \in V
  <2>1. CASE ty[1] = "Struct"
    <3>1. ty[2] \in Structs
      BY <1>7, <2>1 DEF KnownIdentity, Structs
    <3>2. DefaultValue(ty) = StructDefault[64][ty[2]]
      BY <2>1 DEF DefaultValue
    <3>3. StructDefault[64][ty[2]] \in built
      BY <3>1 DEF built
    <3> QED BY <3>2, <3>3
  <2>2. CASE ty[1] # "Struct"
    <3>1. DefaultValue(ty) = FlatDefault(ty)
      BY <2>2 DEF DefaultValue
    <3> QED BY <1>1, <3>1
  <2> QED BY <2>1, <2>2
<1> HIDE DEF V
<1> QED BY <1>4, <1>6, <1>7

(* ------------------------------- delegates ---------------------------- *)

\* One step of the recursion of LeafList, and the function it defines.
LeavesOf(g, i) ==
    IF heap[i].call = "list" THEN g[heap[i].fields[1][2]] \o g[heap[i].fields[2][2]] ELSE <<Ref(i)>>

LEMMA LeavesCongruent ==
  ASSUME NEW U, HeapSound(heap, U), NEW i \in 1 .. Len(heap), NEW g, NEW h,
         \A j \in 1 .. (i - 1) : g[j] = h[j]
  PROVE  LeavesOf(g, i) = LeavesOf(h, i)
<1>1. heap[i].call = "list" => \A k \in 1 .. 2 : heap[i].fields[k][2] \in 1 .. (i - 1)
  BY DEF HeapSound, ObjectSound
<1>2. 1 \in 1 .. 2 /\ 2 \in 1 .. 2
  OBVIOUS
<1>3. CASE heap[i].call = "list"
  <2>1. /\ g[heap[i].fields[1][2]] = h[heap[i].fields[1][2]]
        /\ g[heap[i].fields[2][2]] = h[heap[i].fields[2][2]]
    BY <1>1, <1>2, <1>3
  <2> QED BY <1>3, <2>1 DEF LeavesOf
<1>4. CASE heap[i].call # "list"
  BY <1>4 DEF LeavesOf
<1> QED BY <1>3, <1>4

LEMMA LeafListDef ==
  ASSUME NEW U, HeapSound(heap, U)
  PROVE  LeafList = [i \in 1 .. Len(heap) |-> LeavesOf(LeafList, i)]
<1> DEFINE Solves(g, m) == g = [i \in 1 .. m |-> LeavesOf(g, i)]
           Bad == {m \in 0 .. Len(heap) : ~ \E g : Solves(g, m)}
<1>0. Len(heap) \in Nat /\ DOMAIN heap = 1 .. Len(heap)
  BY ListEntries DEF HeapSound
<1>1. Bad = {}
  <2> SUFFICES ASSUME Bad # {} PROVE FALSE
    OBVIOUS
  <2>1. Bad \in SUBSET (0 .. Len(heap)) /\ 0 \in Int /\ Len(heap) \in Int
    BY <1>0
  <2>2. PICK m \in 0 .. Len(heap) : m \in Bad /\ \A k \in Bad : m <= k
    <3> HIDE DEF Bad
    <3>1. Bad \in SUBSET Int /\ IsFiniteSet(Bad)
      BY <2>1, PartsOfIntervals
    <3> QED BY <2>1, <3>1, LeastIs
  <2>3. ~ \E g : Solves(g, m)
    BY <2>2
  <2>4. \E g : m # 0 => Solves(g, m - 1)
    <3>1. CASE m = 0
      BY <3>1
    <3>2. CASE m # 0
      <4>1. m - 1 \in 0 .. Len(heap) /\ ~(m <= m - 1)
        BY <1>0, <3>2
      <4>2. m - 1 \notin Bad
        <5> HIDE DEF Bad
        <5> QED BY <2>2, <4>1
      <4> HIDE DEF Solves
      <4> QED BY <4>1, <4>2
    <3> QED BY <3>1, <3>2
  <2>5. PICK g : m # 0 => Solves(g, m - 1)
    BY <2>4
  <2> DEFINE h == [i \in 1 .. m |-> LeavesOf(g, i)]
  <2>6. ASSUME NEW i \in 1 .. m
        PROVE  LeavesOf(h, i) = LeavesOf(g, i)
    <3>1. i \in 1 .. Len(heap)
      BY <1>0
    <3>2. ASSUME NEW j \in 1 .. (i - 1)
          PROVE  h[j] = g[j]
      <4>1. j \in 1 .. m /\ j \in 1 .. (m - 1) /\ m # 0
        BY <1>0
      <4>2. g[j] = LeavesOf(g, j)
        BY <2>5, <4>1
      <4>3. h[j] = LeavesOf(g, j)
        BY <4>1
      <4> QED BY <4>2, <4>3
    <3> HIDE DEF h
    <3> QED BY <3>1, <3>2, LeavesCongruent
  <2>7. h = [i \in 1 .. m |-> LeavesOf(h, i)]
    BY <2>6
  <2> HIDE DEF h
  <2> QED BY <2>3, <2>7
<1>2. \E g : Solves(g, Len(heap))
  <2>1. Len(heap) \in 0 .. Len(heap)
    BY <1>0
  <2> HIDE DEF Solves
  <2> QED BY <1>1, <2>1
<1>3. LeafList = CHOOSE g : Solves(g, Len(heap))
  BY <1>0 DEF LeafList, LeavesOf
<1>4. Solves(LeafList, Len(heap))
  <2> HIDE DEF Solves
  <2> QED BY <1>2, <1>3
<1> QED BY <1>4

\* The leaves of a delegate are delegates of the heap.
LEMMA LeavesHeld ==
  ASSUME NEW U, HeapSound(heap, U), NEW i \in 1 .. Len(heap), heap[i].call # NoId
  PROVE  LeafList[i] \in Seq(Delegates(heap))
<1> DEFINE Bad == {j \in 1 .. Len(heap) : heap[j].call # NoId /\ LeafList[j] \notin Seq(Delegates(heap))}
<1>0. Len(heap) \in Nat
  BY ListEntries DEF HeapSound
<1>1. ASSUME NEW j \in 1 .. Len(heap)
      PROVE  LeafList[j] = LeavesOf(LeafList, j)
  <2> DEFINE whole == [k \in 1 .. Len(heap) |-> LeavesOf(LeafList, k)]
  <2>1. whole[j] = LeavesOf(LeafList, j)
    OBVIOUS
  <2>2. LeafList = whole
    BY LeafListDef
  <2> HIDE DEF whole
  <2> QED BY <2>1, <2>2
<1>2. Bad = {}
  <2> SUFFICES ASSUME Bad # {} PROVE FALSE
    OBVIOUS
  <2>1. Bad \in SUBSET (1 .. Len(heap)) /\ 1 \in Int /\ Len(heap) \in Int
    BY <1>0
  <2>2. PICK m \in 1 .. Len(heap) : m \in Bad /\ \A k \in Bad : m <= k
    <3> HIDE DEF Bad
    <3>1. Bad \in SUBSET Int /\ IsFiniteSet(Bad)
      BY <2>1, PartsOfIntervals
    <3> QED BY <2>1, <3>1, LeastIs
  <2>3. heap[m].call # NoId /\ LeafList[m] \notin Seq(Delegates(heap))
    BY <2>2
  <2>4. CASE heap[m].call = "list"
    <3>1. ASSUME NEW k \in 1 .. 2
          PROVE  LeafList[heap[m].fields[k][2]] \in Seq(Delegates(heap))
      <4>1. heap[m].fields[k][2] \in 1 .. (m - 1) /\ heap[heap[m].fields[k][2]].call # NoId
        BY <2>4 DEF HeapSound, ObjectSound
      <4>2. \A j \in 1 .. (m - 1) : j \in 1 .. Len(heap) /\ ~(m <= j)
        BY <1>0
      <4>3. \A j \in 1 .. (m - 1) : j \notin Bad
        <5> HIDE DEF Bad
        <5> QED BY <2>2, <4>2
      <4> QED BY <4>1, <4>2, <4>3
    <3>2. LeafList[m] = LeafList[heap[m].fields[1][2]] \o LeafList[heap[m].fields[2][2]]
      BY <1>1, <2>4 DEF LeavesOf
    <3>3. LeafList[heap[m].fields[1][2]] \in Seq(Delegates(heap)) /\
          LeafList[heap[m].fields[2][2]] \in Seq(Delegates(heap))
      BY <3>1
    <3>4. \A p, q \in Seq(Delegates(heap)) : p \o q \in Seq(Delegates(heap))
      OBVIOUS
    <3> QED BY <2>3, <3>2, <3>3, <3>4
  <2>5. CASE heap[m].call # "list"
    <3>1. LeafList[m] = <<Ref(m)>>
      BY <1>1, <2>5 DEF LeavesOf
    <3>2. Ref(m) \in Delegates(heap)
      BY <2>3 DEF Delegates
    <3> QED BY <2>3, <3>1, <3>2
  <2> QED BY <2>4, <2>5
<1> QED BY <1>2

\* What remains of a list when a run is taken out consists of its leaves.
LEMMA WithoutRunHeld ==
  ASSUME NEW S, NEW l \in Seq(S), NEW r \in Seq(S)
  PROVE  WithoutRun(l, r) \in Seq(S)
<1> DEFINE starts == {k \in 0 .. (Len(l) - Len(r)) : \A j \in DOMAIN r : SameLeaf(l[k + j], r[j])}
           m == MaxOf(starts)
<1>1. Len(l) \in Nat /\ Len(r) \in Nat /\ \A i \in 1 .. Len(l) : l[i] \in S
  OBVIOUS
<1>2. WithoutRun(l, r) = IF r = <<>> \/ starts = {} THEN l
                         ELSE SubSeq(l, 1, m) \o SubSeq(l, m + Len(r) + 1, Len(l))
  BY DEF WithoutRun
<1>3. ASSUME starts # {}
      PROVE  m \in 0 .. (Len(l) - Len(r))
  <2>1. starts \in SUBSET (0 .. Len(l))
    BY <1>1
  <2>2. \A k \in starts : k \in 0 .. (Len(l) - Len(r))
    OBVIOUS
  <2> HIDE DEF starts
  <2>3. MaxOf(starts) \in starts
    BY <1>1, <1>3, <2>1, GreatestOf
  <2> QED BY <2>2, <2>3
<1> HIDE DEF starts, m
<1>4. ASSUME m \in 0 .. (Len(l) - Len(r))
      PROVE  SubSeq(l, 1, m) \in Seq(S) /\ SubSeq(l, m + Len(r) + 1, Len(l)) \in Seq(S)
  <2>1. /\ m \in Int /\ m + Len(r) + 1 \in Int /\ Len(l) \in Int /\ 1 \in Int
        /\ \A i \in 1 .. m : i \in 1 .. Len(l)
        /\ \A i \in m + Len(r) + 1 .. Len(l) : i \in 1 .. Len(l)
    BY <1>1, <1>4
  <2>2. /\ \A i \in 1 .. m : l[i] \in S
        /\ \A i \in m + Len(r) + 1 .. Len(l) : l[i] \in S
    BY <1>1, <2>1
  <2> QED BY <2>1, <2>2, SubSeqProperties
<1>5. \A p, q \in Seq(S) : p \o q \in Seq(S)
  OBVIOUS
<1> QED BY <1>2, <1>3, <1>4, <1>5

\* The nodes that are new in a list of delegates.
NodeOf(t, leaves, k) ==
    Delegate(t, IF k = 1 THEN leaves[1] ELSE Ref(Len(heap) + k - 1), "list", leaves[k + 1])
NodesOf(t, leaves) == [k \in 1 .. (Len(leaves) - 1) |-> NodeOf(t, leaves, k)]

LEMMA JoinedEntries ==
  ASSUME NEW s, IsList(s), NEW m \in Nat, NEW g, g = [k \in 1 .. m |-> g[k]]
  PROVE  /\ IsList(s \o g) /\ Len(s \o g) = Len(s) + m
         /\ \A i \in 1 .. Len(s) : (s \o g)[i] = s[i]
         /\ \A k \in 1 .. m : (s \o g)[Len(s) + k] = g[k]
<1> DEFINE S == Elements(s) \cup {g[k] : k \in 1 .. m}
<1>1. s \in Seq(Elements(s)) /\ Len(s) \in Nat
  BY ListEntries DEF IsList
<1>2. s \in Seq(S) /\ \A k \in 1 .. m : g[k] \in S
  BY <1>1
<1> HIDE DEF S
<1>3. g \in Seq(S) /\ Len(g) = m
  BY <1>2
<1>4. /\ s \o g \in Seq(S) /\ Len(s \o g) = Len(s) + m
      /\ \A i \in 1 .. Len(s) : (s \o g)[i] = s[i]
  BY <1>1, <1>2, <1>3
<1>5. ASSUME NEW k \in 1 .. m
      PROVE  (s \o g)[Len(s) + k] = g[k]
  BY <1>1, <1>2, <1>3
<1> QED BY <1>4, <1>5, ListsOf

\* A list of delegates is made, of new nodes that point to what is older.
LEMMA ListsSane ==
  ASSUME NEW U, Closed(heap, U), HeapSound(heap, U), NEW t, IsDelegate(t),
         NEW leaves \in Seq(Delegates(heap))
  PROVE  Sane(ListOf(t, leaves), U)
<1> DEFINE n == Len(leaves)
           size == Len(heap)
           node(k) == NodeOf(t, leaves, k)
           nodes == NodesOf(t, leaves)
           h == heap \o nodes
           W == U \cup {Ref(i) : i \in 1 .. Len(h)}
<1>1. n \in Nat /\ size \in Nat /\ DOMAIN heap = 1 .. size /\ heap \in Seq(Elements(heap))
  BY ListEntries DEF HeapSound, IsList
<1>2. ASSUME NEW k \in 1 .. n
      PROVE  /\ leaves[k] \in U /\ leaves[k][2] \in 1 .. size /\ heap[leaves[k][2]].call # NoId
  <2>1. leaves[k] \in Delegates(heap)
    OBVIOUS
  <2>2. PICK i \in 1 .. size : leaves[k] = Ref(i) /\ heap[i].call # NoId
    BY <2>1 DEF Delegates
  <2>3. Ref(i) \in U /\ Ref(i)[2] = i
    BY DEF Closed, Ref
  <2> QED BY <2>2, <2>3
<1>3. CASE n = 0
  <2>1. ListOf(t, leaves) = Answer(NullObject)
    BY <1>3 DEF ListOf
  <2>2. NullObject \in U
    BY DEF Closed
  <2> QED BY <2>1, <2>2, AnswersSane
<1>4. CASE n = 1
  <2>1. ListOf(t, leaves) = Answer(leaves[1])
    BY <1>4 DEF ListOf
  <2>2. leaves[1] \in U
    BY <1>2, <1>4
  <2> QED BY <2>1, <2>2, AnswersSane
<1>5. CASE n > 1
  <2>0. n # 0 /\ n # 1 /\ n - 1 \in Nat
    <3>1. \A x \in Nat : x > 1 => x # 0 /\ x # 1 /\ x - 1 \in Nat
      OBVIOUS
    <3> HIDE DEF n
    <3> QED BY <1>1, <1>5, <3>1
  <2>1. ListOf(t, leaves) =
          IF size + n - 1 > HeapLimit THEN Error("OutOfMemory")
          ELSE [code |-> "None", value |-> Ref(size + n - 1), heap |-> h]
    BY <2>0, SMTT(30) DEF ListOf, NodesOf, NodeOf
  <2>2. nodes = [k \in 1 .. (n - 1) |-> nodes[k]] /\ \A k \in 1 .. (n - 1) : nodes[k] = node(k)
    BY DEF NodesOf
  <2>3. /\ IsList(h) /\ Len(h) = size + (n - 1)
        /\ \A i \in 1 .. size : h[i] = heap[i]
        /\ \A k \in 1 .. (n - 1) : h[size + k] = nodes[k]
    <3> HIDE DEF nodes
    <3>1. IsList(heap)
      BY DEF HeapSound
    <3> QED BY <2>0, <2>2, <3>1, JoinedEntries, SMTT(30)
  <2>4. ASSUME NEW k \in 1 .. (n - 1)
        PROVE  h[size + k] = node(k)
    BY <2>2, <2>3
  <2> HIDE DEF h, nodes
  <2>6. /\ \A i \in 1 .. size : i \in 1 .. Len(h)
        /\ \A k \in 1 .. (n - 1) : size + k \in 1 .. Len(h) /\ size + k \in Nat
        /\ \A i \in 1 .. Len(h) : i \in 1 .. size \/ \E k \in 1 .. (n - 1) : i = size + k
    <3>1. Len(h) = size + (n - 1)
      BY <2>3
    <3>2. ASSUME NEW i \in 1 .. Len(h), i \notin 1 .. size
          PROVE  \E k \in 1 .. (n - 1) : i = size + k
      <4>1. i - size \in 1 .. (n - 1) /\ i = size + (i - size)
        BY <1>1, <1>5, <3>1, <3>2
      <4> QED BY <4>1
    <3> QED BY <1>1, <1>5, <3>1, <3>2
  <2>7. ASSUME NEW i \in 1 .. Len(h)
        PROVE  Ref(i) \in W /\ Ref(i)[1] = "Ref" /\ Ref(i)[2] = i
    BY DEF Ref
  <2>8. \A w \in W : w \in U \/ \E i \in 1 .. Len(h) : w = Ref(i)
    OBVIOUS
  <2>9. U \subseteq W
    OBVIOUS
  <2> HIDE DEF W
  <2>10. Closed(h, W)
    <3>1. \A w \in W : w[1] = "Ref" => w[2] \in 1 .. Len(h)
      BY <2>6, <2>7, <2>8 DEF Closed, size
    <3>2. \A w \in W : w[1] = "Struct" =>
            /\ DOMAIN w[2][2] = DOMAIN Types[w[2][1]].fields
            /\ \A k \in DOMAIN w[2][2] : w[2][2][k] \in W
      BY <2>7, <2>8, <2>9 DEF Closed
    <3>3. \A w \in W : \/ w \in {Unset, Unresolved, NullObject, NullArray}
                       \/ w[1] \in {"Int", "Bool", "Ref", "Struct"}
      BY <2>7, <2>8 DEF Closed
    <3>4. {Unset, NullObject} \subseteq W
      BY <2>9 DEF Closed
    <3> QED BY <2>7, <3>1, <3>2, <3>3, <3>4 DEF Closed
  <2> DEFINE older(k) == IF k = 1 THEN leaves[1] ELSE Ref(size + k - 1)
  <2>11. ASSUME NEW k \in 1 .. (n - 1)
         PROVE  /\ older(k) \in W /\ older(k)[2] \in 1 .. (size + k - 1)
                /\ h[older(k)[2]].call # NoId
    <3>1. CASE k = 1
      <4>1. 1 \in 1 .. n /\ size + k - 1 = size
        BY <1>1, <1>5, <3>1
      <4>2. leaves[1] \in U /\ leaves[1][2] \in 1 .. size /\ heap[leaves[1][2]].call # NoId
        BY <1>2, <4>1
      <4> QED BY <2>3, <2>9, <3>1, <4>1, <4>2
    <3>2. CASE k # 1
      <4>1. k - 1 \in 1 .. (n - 1) /\ size + k - 1 = size + (k - 1) /\ size + k - 1 \in 1 .. (size + k - 1)
        BY <1>1, <1>5, <3>2
      <4>2. size + k - 1 \in 1 .. Len(h)
        BY <2>6, <4>1
      <4>3. h[size + k - 1] = node(k - 1)
        BY <2>4, <4>1
      <4>4. node(k - 1).call = "list"
        BY DEF NodeOf, Delegate, Object
      <4>5. older(k) = Ref(size + k - 1)
        BY <3>2
      <4> HIDE DEF node, older
      <4> QED BY <2>7, <4>1, <4>2, <4>3, <4>4, <4>5 DEF NoId
    <3> QED BY <3>1, <3>2
  <2>12. ASSUME NEW k \in 1 .. (n - 1)
         PROVE  /\ leaves[k + 1] \in W /\ leaves[k + 1][2] \in 1 .. (size + k - 1)
                /\ h[leaves[k + 1][2]].call # NoId
    <3>1. k + 1 \in 1 .. n /\ \A i \in 1 .. size : i \in 1 .. (size + k - 1)
      BY <1>1, <1>5
    <3>2. leaves[k + 1] \in U /\ leaves[k + 1][2] \in 1 .. size /\ heap[leaves[k + 1][2]].call # NoId
      BY <1>2, <3>1
    <3> QED BY <2>3, <2>9, <3>1, <3>2
  <2>13. ASSUME NEW k \in 1 .. (n - 1)
         PROVE  ObjectSound(h, W, size + k)
    <3> DEFINE o == h[size + k]
    <3>1. o = node(k)
      BY <2>4
    <3>2. /\ DOMAIN node(k) = {"type", "array", "el", "fields", "call"}
          /\ node(k).array = FALSE /\ node(k).type = t /\ node(k).call = "list"
          /\ node(k).fields = <<older(k), leaves[k + 1]>>
      <4>1. node(k) = Delegate(t, older(k), "list", leaves[k + 1])
        BY DEF NodeOf
      <4> HIDE DEF older, node
      <4> QED BY <4>1 DEF Delegate, Object
    <3> HIDE DEF older, node
    <3>3. \A f : f = <<older(k), leaves[k + 1]>> =>
            DOMAIN f = 1 .. 2 /\ f[1] = older(k) /\ f[2] = leaves[k + 1]
      OBVIOUS
    <3>4. /\ DOMAIN o.fields = 1 .. 2 /\ o.fields[1] = older(k) /\ o.fields[2] = leaves[k + 1]
      BY <3>1, <3>2, <3>3
    <3> HIDE DEF o
    <3>5. \A j \in 1 .. 2 : /\ o.fields[j] \in W /\ o.fields[j][2] \in 1 .. (size + k - 1)
                            /\ h[o.fields[j][2]].call # NoId
      <4>1. \A j \in 1 .. 2 : j = 1 \/ j = 2
        OBVIOUS
      <4> QED BY <2>11, <2>12, <3>4, <4>1
    <3>6. /\ DOMAIN o = {"type", "array", "el", "fields", "call"}
          /\ o.array = FALSE /\ o.type = t /\ o.call = "list"
      BY <3>1, <3>2
    <3>7. "list" # NoId /\ size + k - 1 = (size + k) - 1
      BY DEF NoId
    <3>8. \A j \in DOMAIN o.fields : o.fields[j] \in W
      BY <3>4, <3>5
    <3>9. o.array \in BOOLEAN /\ ~o.array /\ IsDelegate(o.type)
      BY <3>6
    <3>10. /\ o.call # NoId => ~o.array /\ IsDelegate(o.type) /\ DOMAIN o.fields = 1 .. 2
           /\ ~o.array /\ IsDelegate(o.type) => o.call # NoId
      BY <3>4, <3>6, <3>7, <3>9
    <3>11. o.call = "list" => \A j \in 1 .. 2 :
             o.fields[j][2] \in 1 .. ((size + k) - 1) /\ h[o.fields[j][2]].call # NoId
      BY <3>5, <3>7
    <3> QED BY <3>6, <3>8, <3>9, <3>10, <3>11 DEF ObjectSound, o
  <2>14. ASSUME NEW i \in 1 .. size
         PROVE  ObjectSound(h, W, i)
    <3>1. ObjectSound(heap, U, i) /\ h[i] = heap[i]
      BY <2>3 DEF HeapSound
    <3>2. \A j \in 1 .. (i - 1) : h[j] = heap[j]
      <4>1. \A j \in 1 .. (i - 1) : j \in 1 .. size
        BY <1>1
      <4> QED BY <2>3, <4>1
    <3> QED BY <2>9, <3>1, <3>2 DEF ObjectSound
  <2>15. HeapSound(h, W)
    BY <2>3, <2>6, <2>13, <2>14 DEF HeapSound
  <2>16. Grown(heap, h)
    <3>1. size <= Len(h)
      BY <1>1, <1>5, <2>3
    <3> QED BY <2>3, <3>1 DEF Grown
  <2>17. Ref(size + n - 1) \in W
    <3>1. n - 1 \in 1 .. (n - 1) /\ size + n - 1 = size + (n - 1)
      BY <1>1, <1>5
    <3>2. size + n - 1 \in 1 .. Len(h)
      BY <2>6, <3>1
    <3> QED BY <2>7, <3>2
  <2>18. CASE size + n - 1 > HeapLimit
    BY <2>1, <2>18, ErrorsSane
  <2>19. CASE ~(size + n - 1 > HeapLimit)
    <3>1. ListOf(t, leaves).value = Ref(size + n - 1) /\ ListOf(t, leaves).heap = h
      BY <2>1, <2>19
    <3> QED BY <2>9, <2>10, <2>15, <2>16, <2>17, <3>1 DEF Sane
  <2> QED BY <2>18, <2>19
<1> QED
  <2> HIDE DEF n
  <2>1. n = 0 \/ n = 1 \/ n > 1
    BY <1>1
  <2> QED BY <1>3, <1>4, <1>5, <2>1

(* --------------------------- what the verifier checked ---------------- *)

TypesOf(f, ins) == [k \in DOMAIN ins.args |-> RegType(f, ins.args[k])]

\* The innermost frame stands at an instruction of a function that was verified.
Standing(U) ==
    /\ Decoded /\ Links /\ MemorySound(heap, arena, U)
    /\ AtInstruction /\ FrameSound(Frame, heap, Len(arena))

LEMMA FunctionsOk ==
  ASSUME Decoded, Links, NEW h, NEW room, NEW fr, FrameSound(fr, h, room)
  PROVE  LET f == Code[fr.fn] IN
         /\ DecodedFunction(f) /\ FunctionOk(f)
         /\ DOMAIN f.blocks = 1 .. Len(f.blocks) /\ fr.block \in DOMAIN f.blocks
         /\ DecodedBlock(f.blocks[fr.block])
         /\ LET b == f.blocks[fr.block] IN DOMAIN b.code = 1 .. Len(b.code) /\ Len(b.code) \in Nat
<1> DEFINE f == Code[fr.fn]
           b == f.blocks[fr.block]
<1>1. fr.fn \in DOMAIN Code /\ fr.block \in 1 .. Len(f.blocks)
  BY DEF FrameSound
<1>2. DecodedFunction(f)
  BY <1>1 DEF Decoded
<1>3. FunctionOk(f)
  BY <1>1 DEF Links, VerifyModule
<1>4. IsList(f.blocks) /\ DecodedBlock(b)
  BY <1>1, <1>2 DEF DecodedFunction
<1>5. IsList(b.code)
  BY <1>4 DEF DecodedBlock
<1> HIDE DEF b
<1>6. DOMAIN b.code = 1 .. Len(b.code) /\ Len(b.code) \in Nat
  BY <1>5, ListEntries
<1> HIDE DEF f
<1>7. DOMAIN f.blocks = 1 .. Len(f.blocks)
  BY <1>4, ListEntries
<1> QED BY <1>1, <1>2, <1>3, <1>4, <1>6, <1>7 DEF f, b

LEMMA InstructionStands ==
  ASSUME NEW U, Standing(U)
  PROVE  /\ FunctionOk(Fun) /\ DecodedInstruction(Ins)
         /\ Frame.block \in DOMAIN Fun.blocks /\ Frame.at \in DOMAIN Block.code
         /\ InstructionOk(Fun, Frame.block, Frame.at)
         /\ IF Defines(Ins) THEN Ins.res \in DOMAIN Fun.regs ELSE Ins.res = NoReg
<1>1. /\ DecodedFunction(Fun) /\ FunctionOk(Fun) /\ Frame.block \in DOMAIN Fun.blocks
      /\ DecodedBlock(Block) /\ DOMAIN Block.code = 1 .. Len(Block.code) /\ Len(Block.code) \in Nat
  BY FunctionsOk DEF Standing, Fun, Block
<1>2. Frame.at \in Nat \ {0} /\ Frame.at <= Len(Block.code)
  BY DEF Standing, FrameSound, AtInstruction
<1>3. Frame.at \in 1 .. Len(Block.code)
  BY <1>1, <1>2
<1>4. DecodedInstruction(Ins)
  BY <1>1, <1>3 DEF DecodedBlock, Ins
<1>5. InstructionOk(Fun, Frame.block, Frame.at)
  BY <1>1, <1>3 DEF FunctionOk, Block
<1>6. IF Defines(Ins) THEN Ins.res \in DOMAIN Fun.regs ELSE Ins.res = NoReg
  BY <1>1, <1>3 DEF FunctionOk, DefinedOnce, Ins, Block
<1> QED BY <1>1, <1>3, <1>4, <1>5, <1>6

\* The operands of the instruction are values, one for every argument.
LEMMA OperandsHeld ==
  ASSUME NEW U, Standing(U)
  PROVE  /\ Len(Ins.args) \in Nat
         /\ DOMAIN Ins.args = 1 .. Len(Ins.args) /\ DOMAIN Operands(Ins) = 1 .. Len(Ins.args)
         /\ TypesOf(Fun, Ins) \in Seq(Elements(TypesOf(Fun, Ins)))
         /\ Len(TypesOf(Fun, Ins)) = Len(Ins.args)
         /\ \A k \in 1 .. Len(Ins.args) :
              Ins.args[k] \in DOMAIN Fun.regs /\ Reg(Ins.args[k]) \in U /\ Operands(Ins)[k] = Reg(Ins.args[k])
         /\ Operands(Ins) \in Seq(U) /\ Len(Operands(Ins)) = Len(Ins.args)
<1>1. DecodedInstruction(Ins) /\ InstructionOk(Fun, Frame.block, Frame.at)
  BY InstructionStands
<1>2. Len(Ins.args) \in Nat /\ DOMAIN Ins.args = 1 .. Len(Ins.args)
  BY <1>1, ListEntries DEF DecodedInstruction
<1>3. \A k \in 1 .. Len(Ins.args) : Ins.args[k] \in DOMAIN Fun.regs
  BY <1>1, <1>2 DEF InstructionOk, UsableAt, Ins, Block
<1>4. \A r \in DOMAIN Fun.regs : Reg(r) \in U
  <2>1. arena \in Seq(U)
    BY DEF Standing, MemorySound
  <2> QED BY <2>1, PlacesHeld DEF Standing, Fun, Reg
<1>5. /\ Operands(Ins) = [k \in 1 .. Len(Ins.args) |-> Reg(Ins.args[k])]
      /\ TypesOf(Fun, Ins) = [k \in 1 .. Len(Ins.args) |-> RegType(Fun, Ins.args[k])]
  BY <1>2 DEF Operands, TypesOf
<1>6. Operands(Ins) \in Seq(U) /\ Len(Operands(Ins)) = Len(Ins.args)
  <2>1. \A k \in 1 .. Len(Ins.args) : Reg(Ins.args[k]) \in U
    BY <1>3, <1>4
  <2> QED BY <1>2, <1>5, <2>1
<1>7. /\ TypesOf(Fun, Ins) \in Seq(Elements(TypesOf(Fun, Ins)))
      /\ Len(TypesOf(Fun, Ins)) = Len(Ins.args)
  <2>1. \A k \in 1 .. Len(Ins.args) : RegType(Fun, Ins.args[k]) \in {RegType(Fun, Ins.args[j]) : j \in 1 .. Len(Ins.args)}
    OBVIOUS
  <2>2. /\ TypesOf(Fun, Ins) \in Seq({RegType(Fun, Ins.args[j]) : j \in 1 .. Len(Ins.args)})
        /\ Len(TypesOf(Fun, Ins)) = Len(Ins.args)
    BY <1>2, <1>5, <2>1
  <2> QED BY <2>2, ListsOf DEF IsList
<1> QED BY <1>2, <1>3, <1>4, <1>5, <1>6, <1>7

LEMMA RulesFollowed ==
  ASSUME NEW U, Standing(U)
  PROVE  LET a == TypesOf(Fun, Ins)  r == RegType(Fun, Ins.res) IN
         /\ Ins.op \in ConstantOps => ConstantRule(Ins, a, r)
         /\ Ins.op \in LocalOps => LocalRule(Fun, Ins, a, r)
         /\ Ins.op \in ConvertOps => ConvertRule(Ins, a, r)
         /\ Ins.op \in TypeTests => TypeTestRule(Ins, a, r)
         /\ Ins.op \in NewOps => NewRule(Ins, a, r)
         /\ Ins.op \in ArrayOps => ArrayRule(Ins, a, r)
         /\ Ins.op = "CheckNotNull" => CheckNotNullRule(Ins, a, r)
         /\ Ins.op \in FieldOps => FieldRule(Ins, a, r)
         /\ Ins.op = "Call" => CallRule(Ins, a, r)
         /\ Ins.op \in DelegateOps => DelegateRule(Ins, a, r)
<1>1. InstructionOk(Fun, Frame.block, Frame.at)
  BY InstructionStands
<1>2. Ins = Fun.blocks[Frame.block].code[Frame.at]
  BY DEF Ins, Block
<1> DEFINE a == TypesOf(Fun, Ins)
           r == RegType(Fun, Ins.res)
<1>3. (CASE Ins.op \in ConstantOps  -> ConstantRule(Ins, a, r)
          [] Ins.op \in LocalOps      -> LocalRule(Fun, Ins, a, r)
          [] Ins.op \in ConvertOps    -> ConvertRule(Ins, a, r)
          [] Ins.op \in TypeTests     -> TypeTestRule(Ins, a, r)
          [] Ins.op \in NewOps        -> NewRule(Ins, a, r)
          [] Ins.op \in ArrayOps      -> ArrayRule(Ins, a, r)
          [] Ins.op = "CheckNotNull"  -> CheckNotNullRule(Ins, a, r)
          [] Ins.op \in FieldOps      -> FieldRule(Ins, a, r)
          [] Ins.op = "Call"          -> CallRule(Ins, a, r)
          [] Ins.op \in DelegateOps   -> DelegateRule(Ins, a, r)
          [] Ins.op \in ArithmeticOps -> ArithmeticRule(Ins, a, r))
  BY <1>1, <1>2 DEF InstructionOk, TypesOf
<1> HIDE DEF a, r
<1>4. ASSUME Ins.op \in ConstantOps
      PROVE  ConstantRule(Ins, a, r)
  BY <1>3, <1>4 DEF ConstantOps, LocalOps, ConvertOps, TypeTests, NewOps, ArrayOps, FieldOps,
     DelegateOps, ArithmeticOps, IntOps, IntTests
<1>5. ASSUME Ins.op \in LocalOps
      PROVE  LocalRule(Fun, Ins, a, r)
  BY <1>3, <1>5 DEF ConstantOps, LocalOps, ConvertOps, TypeTests, NewOps, ArrayOps, FieldOps,
     DelegateOps, ArithmeticOps, IntOps, IntTests
<1>6. ASSUME Ins.op \in ConvertOps
      PROVE  ConvertRule(Ins, a, r)
  BY <1>3, <1>6 DEF ConstantOps, LocalOps, ConvertOps, TypeTests, NewOps, ArrayOps, FieldOps,
     DelegateOps, ArithmeticOps, IntOps, IntTests
<1>7. ASSUME Ins.op \in TypeTests
      PROVE  TypeTestRule(Ins, a, r)
  BY <1>3, <1>7 DEF ConstantOps, LocalOps, ConvertOps, TypeTests, NewOps, ArrayOps, FieldOps,
     DelegateOps, ArithmeticOps, IntOps, IntTests
<1>8. ASSUME Ins.op \in NewOps
      PROVE  NewRule(Ins, a, r)
  BY <1>3, <1>8 DEF ConstantOps, LocalOps, ConvertOps, TypeTests, NewOps, ArrayOps, FieldOps,
     DelegateOps, ArithmeticOps, IntOps, IntTests
<1>9. ASSUME Ins.op \in ArrayOps
      PROVE  ArrayRule(Ins, a, r)
  BY <1>3, <1>9 DEF ConstantOps, LocalOps, ConvertOps, TypeTests, NewOps, ArrayOps, FieldOps,
     DelegateOps, ArithmeticOps, IntOps, IntTests
<1>10. ASSUME Ins.op = "CheckNotNull"
      PROVE  CheckNotNullRule(Ins, a, r)
  BY <1>3, <1>10 DEF ConstantOps, LocalOps, ConvertOps, TypeTests, NewOps, ArrayOps, FieldOps,
     DelegateOps, ArithmeticOps, IntOps, IntTests
<1>11. ASSUME Ins.op \in FieldOps
      PROVE  FieldRule(Ins, a, r)
  BY <1>3, <1>11 DEF ConstantOps, LocalOps, ConvertOps, TypeTests, NewOps, ArrayOps, FieldOps,
     DelegateOps, ArithmeticOps, IntOps, IntTests
<1>12. ASSUME Ins.op = "Call"
      PROVE  CallRule(Ins, a, r)
  BY <1>3, <1>12 DEF ConstantOps, LocalOps, ConvertOps, TypeTests, NewOps, ArrayOps, FieldOps,
     DelegateOps, ArithmeticOps, IntOps, IntTests
<1>13. ASSUME Ins.op \in DelegateOps
      PROVE  DelegateRule(Ins, a, r)
  BY <1>3, <1>13 DEF ConstantOps, LocalOps, ConvertOps, TypeTests, NewOps, ArrayOps, FieldOps,
     DelegateOps, ArithmeticOps, IntOps, IntTests
<1> QED BY <1>4, <1>5, <1>6, <1>7, <1>8, <1>9, <1>10, <1>11, <1>12, <1>13 DEF a, r

(* ------------------------- what an instruction answers ---------------- *)

\* A value that is an array, or a record, is the reference of one.
LEMMA ReferencesAre ==
  ASSUME NEW U, Closed(heap, U), NEW v \in U
  PROVE  /\ PrimOf(v) = "Array" /\ v # NullArray =>
              v[1] = "Ref" /\ v[2] \in 1 .. Len(heap) /\ heap[v[2]].array
         /\ IsRecord(v) => v[1] = "Ref" /\ v[2] \in 1 .. Len(heap) /\ ~heap[v[2]].array
         /\ PrimOf(v) = "Struct" => v[1] = "Struct"
<1>1. \/ v \in {Unset, Unresolved, NullObject, NullArray}
      \/ v[1] \in {"Int", "Bool", "Ref", "Struct"}
  BY DEF Closed
<1>2. /\ Unset[1] = "Null" /\ Unresolved[1] = "Unresolved" /\ NullObject[1] = "NullObject"
      /\ NullArray[1] = "NullArray"
  BY DEF Unset, Unresolved, NullObject, NullArray
<1>3. v[1] = "Ref" => v[2] \in 1 .. Len(heap)
  BY DEF Closed
<1>4. ASSUME PrimOf(v) = "Array", v # NullArray
      PROVE  v[1] = "Ref" /\ heap[v[2]].array
  BY <1>1, <1>2, <1>4 DEF PrimOf
<1>5. PrimOf(v) = "Struct" => v[1] = "Struct"
  BY <1>1, <1>2 DEF PrimOf
<1> QED BY <1>3, <1>4, <1>5 DEF IsRecord

LEMMA ConstantSane ==
  ASSUME NEW U, Standing(U), Ins.op \in ConstantOps
  PROVE  Sane(EvalConstant(Ins), U)
<1>1. Closed(heap, U) /\ HeapSound(heap, U)
  BY DEF Standing, MemorySound
<1>2. PICK v : EvalConstant(Ins) = Answer(v) /\ (v = Unset \/ v[1] \in {"Int", "Bool"})
  <2>1. CASE Ins.op = "ConstantInt"
    BY <2>1 DEF EvalConstant, IntV
  <2>2. CASE Ins.op = "ConstantBool"
    BY <2>2 DEF EvalConstant, BoolV
  <2>3. CASE Ins.op \notin {"ConstantInt", "ConstantBool"}
    BY <2>3 DEF EvalConstant
  <2> QED BY <2>1, <2>2, <2>3
<1> QED BY <1>1, <1>2, PlainSane

LEMMA LocalSane ==
  ASSUME NEW U, Standing(U), Ins.op \in LocalOps
  PROVE  Sane(EvalLocal(Ins, Operands(Ins)), U)
<1>1. Closed(heap, U) /\ HeapSound(heap, U) /\ arena \in Seq(U)
  BY DEF Standing, MemorySound
<1>2. LocalRule(Fun, Ins, TypesOf(Fun, Ins), RegType(Fun, Ins.res))
  BY RulesFollowed
<1>3. /\ \A k \in DOMAIN Fun.params : arena[ArgAt(Frame, k)] \in U
      /\ \A k \in DOMAIN Fun.locals : arena[LocalAt(Frame, k)] \in U
  BY <1>1, PlacesHeld DEF Standing, Fun
<1>4. CASE Ins.op = "LoadParameter"
  <2>1. EvalLocal(Ins, Operands(Ins)) = Answer(arena[ArgAt(Frame, Ins.idx)])
    BY <1>4 DEF EvalLocal
  <2>2. Ins.idx \in DOMAIN Fun.params
    BY <1>2, <1>4 DEF LocalRule
  <2> QED BY <1>1, <1>3, <2>1, <2>2, AnswersSane
<1>5. CASE Ins.op = "LoadLocal"
  <2>1. EvalLocal(Ins, Operands(Ins)) = Answer(arena[LocalAt(Frame, Ins.idx)])
    BY <1>5 DEF EvalLocal
  <2>2. Ins.idx \in DOMAIN Fun.locals
    BY <1>2, <1>5 DEF LocalRule
  <2> QED BY <1>1, <1>3, <2>1, <2>2, AnswersSane
<1>6. CASE Ins.op = "StoreLocal"
  <2>1. EvalLocal(Ins, Operands(Ins)) = Answer(Operands(Ins)[1])
    BY <1>6 DEF EvalLocal
  <2>2. Len(Ins.args) = 1
    BY <1>2, <1>6, OperandsHeld DEF LocalRule
  <2>3. Operands(Ins)[1] \in U
    BY <2>2, OperandsHeld
  <2> QED BY <1>1, <2>1, <2>3, AnswersSane
<1> QED BY <1>4, <1>5, <1>6 DEF LocalOps

LEMMA ConvertSane ==
  ASSUME NEW U, Standing(U), Ins.op \in ConvertOps
  PROVE  Sane(EvalConvert(Ins, Operands(Ins)), U)
<1>1. Closed(heap, U) /\ HeapSound(heap, U)
  BY DEF Standing, MemorySound
<1>2. Sane(Answer(NullObject), U) /\ Sane(Answer(NullArray), U) /\ Sane(Error("TypeMismatch"), U)
  BY <1>1, PlainSane, ErrorsSane
<1>3. EvalConvert(Ins, Operands(Ins)) \in {Answer(NullObject), Answer(NullArray), Error("TypeMismatch")}
  BY DEF EvalConvert
<1> QED BY <1>2, <1>3

LEMMA TypeTestSane ==
  ASSUME NEW U, Standing(U), Ins.op \in TypeTests
  PROVE  Sane(EvalTypeTest(Ins, Operands(Ins)), U)
<1> DEFINE v == Operands(Ins)[1]
<1>1. Closed(heap, U) /\ HeapSound(heap, U)
  BY DEF Standing, MemorySound
<1>2. Len(Ins.args) = 1
  BY OperandsHeld, RulesFollowed DEF TypeTestRule
<1>3. v \in U
  BY <1>2, OperandsHeld
<1> HIDE DEF v
<1>4. Sane(Answer(NullObject), U) /\ Sane(Answer(NullArray), U) /\ Sane(Answer(v), U)
  BY <1>1, <1>3, PlainSane, AnswersSane
<1>5. \A b : Sane(Answer(BoolV(b)), U)
  <2> TAKE b
  <2>1. BoolV(b)[1] = "Bool"
    BY DEF BoolV
  <2> QED BY <1>1, <2>1, PlainSane
<1>6. \/ EvalTypeTest(Ins, Operands(Ins)) \in {Answer(NullObject), Answer(NullArray), Answer(v)}
      \/ \E b : EvalTypeTest(Ins, Operands(Ins)) = Answer(BoolV(b))
  BY DEF EvalTypeTest, v
<1> QED BY <1>4, <1>5, <1>6

LEMMA NewSane ==
  ASSUME NEW U, Standing(U), Ins.op \in NewOps
  PROVE  Sane(EvalNew(Ins, Operands(Ins)), U)
<1>1. Links /\ Decoded /\ Closed(heap, U) /\ HeapSound(heap, U)
  BY DEF Standing, MemorySound
<1>2. PICK V : /\ U \subseteq V /\ Closed(heap, V)
               /\ \A ty : KnownIdentity(ty) => DefaultValue(ty) \in V
  BY <1>1, DefaultsHeld
<1>3. NewRule(Ins, TypesOf(Fun, Ins), RegType(Fun, Ins.res))
  BY RulesFollowed
<1>4. \A t, f : /\ DOMAIN Object(t, f) = {"type", "array", "el", "fields", "call"}
                /\ Object(t, f).type = t /\ Object(t, f).array = FALSE
                /\ Object(t, f).fields = f /\ Object(t, f).call = NoId
  BY DEF Object
<1>5. CASE Ins.op = "NewObject"
  <2> DEFINE t == Ins.idx
             fields == [k \in DOMAIN Types[t].fields |-> DefaultValue(Types[t].fields[k])]
  <2>1. t \in DOMAIN Types /\ Types[t].kind = "class"
    BY <1>3, <1>5 DEF NewRule
  <2>2. EvalNew(Ins, Operands(Ins)) = Created(Object(t, fields))
    BY <1>5, <2>1 DEF EvalNew
  <2>3. \A k \in DOMAIN Types[t].fields : KnownIdentity(Types[t].fields[k])
    BY <1>1, <2>1 DEF Links, VerifyModule, DescriptorOk
  <2>4. \A k \in DOMAIN fields : fields[k] \in V
    BY <1>2, <2>3
  <2> HIDE DEF fields
  <2>5. ~IsDelegate(t)
    BY <2>1 DEF IsDelegate
  <2> DEFINE o == Object(t, fields)
  <2>6. /\ DOMAIN o = {"type", "array", "el", "fields", "call"}
        /\ o.type = t /\ o.array = FALSE /\ o.fields = fields /\ o.call = NoId
    BY <1>4
  <2> HIDE DEF o
  <2>7. ObjectMade(o, V)
    BY <2>4, <2>5, <2>6 DEF ObjectMade, NoId
  <2> QED BY <1>1, <1>2, <2>2, <2>7, CreatedSane DEF o
<1>6. CASE Ins.op = "NewStruct"
  <2>1. KnownIdentity(Ty("Struct", Ins.idx))
    BY <1>3, <1>6 DEF NewRule, KnownIdentity, Ty
  <2>2. EvalNew(Ins, Operands(Ins)) = Answer(DefaultValue(Ty("Struct", Ins.idx)))
    BY <1>6 DEF EvalNew
  <2> QED BY <1>1, <1>2, <2>1, <2>2, AnswersSane
<1>7. CASE Ins.op = "NewArray"
  <2> DEFINE x == Operands(Ins)
             t == RegType(Fun, Ins.res)[2]
             fields == [k \in 1 .. x[1][2] |-> DefaultValue(Ins.el)]
             o == [Object(t, fields) EXCEPT !.array = TRUE, !.el = Ins.el]
  <2>1. KnownIdentity(Ins.el)
    BY <1>3, <1>7 DEF NewRule
  <2>2. EvalNew(Ins, x) \in {Error("TypeMismatch"), Error("IndexOutOfRange"), Created(o)}
    BY <1>7 DEF EvalNew
  <2>3. \A k \in DOMAIN fields : fields[k] \in V
    BY <1>2, <2>1
  <2> HIDE DEF fields, x, t
  <2>4. /\ DOMAIN o = {"type", "array", "el", "fields", "call"}
        /\ o.array = TRUE /\ o.fields = fields /\ o.call = NoId
    BY DEF Object
  <2> HIDE DEF o
  <2>5. ObjectMade(o, V)
    BY <2>3, <2>4 DEF ObjectMade, NoId
  <2>6. Sane(Created(o), U) /\ Sane(Error("TypeMismatch"), U) /\ Sane(Error("IndexOutOfRange"), U)
    BY <1>1, <1>2, <2>5, CreatedSane, ErrorsSane
  <2> QED BY <2>2, <2>6 DEF x
<1> QED BY <1>5, <1>6, <1>7 DEF NewOps

LEMMA ArraySane ==
  ASSUME NEW U, Standing(U), Ins.op \in ArrayOps
  PROVE  Sane(EvalArray(Ins, Operands(Ins)), U)
<1> DEFINE x == Operands(Ins)
<1>1. Closed(heap, U) /\ HeapSound(heap, U)
  BY DEF Standing, MemorySound
<1>2. \A c : c # "None" => Sane(Error(c), U)
  BY ErrorsSane
<1>3. ArrayRule(Ins, TypesOf(Fun, Ins), RegType(Fun, Ins.res))
  BY RulesFollowed
<1>4. Len(Ins.args) = (IF Ins.op = "ArrayLength" THEN 1 ELSE IF Ins.op = "LoadElement" THEN 2 ELSE 3)
  BY <1>3, OperandsHeld DEF ArrayRule
<1>5. x[1] \in U /\ (Ins.op = "StoreElement" => x[3] \in U)
  <2>1. 1 \in 1 .. Len(Ins.args) /\ (Ins.op = "StoreElement" => 3 \in 1 .. Len(Ins.args))
    BY <1>4
  <2> QED BY <2>1, OperandsHeld
<1> HIDE DEF x
<1>6. CASE Ins.op = "ArrayLength"
  <2> DEFINE e == ArrayError(x[1], IntV(0))
             n == Len(heap[x[1][2]].fields)
  <2>1. EvalArray(Ins, x) = IF e \in {"NullReference", "TypeMismatch"} THEN Error(e) ELSE Answer(IntV(n))
    BY <1>6 DEF EvalArray
  <2>2. IntV(n)[1] = "Int"
    BY DEF IntV
  <2> HIDE DEF e, n
  <2>3. Sane(Answer(IntV(n)), U)
    BY <1>1, <2>2, PlainSane
  <2> QED BY <1>2, <2>1, <2>3 DEF x
<1>7. CASE Ins.op # "ArrayLength"
  <2> DEFINE e == ArrayError(x[1], x[2])
             i == x[1][2]
             k == x[2][2] + 1
             v == heap[i].fields[k]
  <2>1. \/ \E c : c # "None" /\ EvalArray(Ins, x) = Error(c)
        \/ e = "None" /\ Ins.op = "StoreElement" /\ EvalArray(Ins, x) = Updated(i, k, x[3])
        \/ e = "None" /\ EvalArray(Ins, x) = Answer(v)
    <3>1. EvalArray(Ins, x) =
            IF Ins.op = "StoreElement" /\ x[1] # NullArray /\ ~HasType(x[3], Ins.el) THEN Error("TypeMismatch")
            ELSE IF e # "None" THEN Error(e)
            ELSE IF heap[i].el # Ins.el THEN Error("TypeMismatch")
            ELSE IF Ins.op = "StoreElement" THEN Updated(i, k, x[3])
            ELSE IF HasType(v, Ins.el) THEN Answer(v) ELSE Error("TypeMismatch")
      BY <1>7 DEF EvalArray
    <3>2. "TypeMismatch" # "None"
      OBVIOUS
    <3> HIDE DEF e, i, k, v
    <3> QED BY <3>1, <3>2
  <2>2. ASSUME e = "None"
        PROVE  i \in 1 .. Len(heap) /\ heap[i].call = NoId /\ v \in U
    <3>1. x[1] # NullArray /\ PrimOf(x[1]) = "Array" /\ k \in DOMAIN heap[i].fields
      BY <2>2 DEF ArrayError
    <3>2. i \in 1 .. Len(heap) /\ heap[i].array
      BY <1>1, <1>5, <3>1, ReferencesAre
    <3> HIDE DEF i, k
    <3>3. ObjectSound(heap, U, i)
      BY <1>1, <3>2 DEF HeapSound
    <3> QED BY <3>1, <3>2, <3>3 DEF ObjectSound
  <2> HIDE DEF e, i, k, v
  <2>3. CASE \E c : c # "None" /\ EvalArray(Ins, x) = Error(c)
    BY <1>2, <2>3 DEF x
  <2>4. CASE e = "None" /\ Ins.op = "StoreElement" /\ EvalArray(Ins, x) = Updated(i, k, x[3])
    <3>1. Sane(Updated(i, k, x[3]), U)
      BY <1>1, <1>5, <2>2, <2>4, UpdatedSane
    <3> QED BY <2>4, <3>1 DEF x
  <2>5. CASE e = "None" /\ EvalArray(Ins, x) = Answer(v)
    <3>1. Sane(Answer(v), U)
      BY <1>1, <2>2, <2>5, AnswersSane
    <3> QED BY <2>5, <3>1 DEF x
  <2> QED BY <2>1, <2>3, <2>4, <2>5
<1> QED BY <1>6, <1>7

LEMMA CheckNotNullSane ==
  ASSUME NEW U, Standing(U), Ins.op = "CheckNotNull"
  PROVE  Sane(EvalCheckNotNull(Ins, Operands(Ins)), U)
<1> DEFINE v == Operands(Ins)[1]
           e == ReceiverError(v, Ins.idx)
<1>1. Closed(heap, U) /\ HeapSound(heap, U)
  BY DEF Standing, MemorySound
<1>2. Len(Ins.args) = 1
  BY OperandsHeld, RulesFollowed DEF CheckNotNullRule
<1>3. v \in U
  BY <1>2, OperandsHeld
<1>4. EvalCheckNotNull(Ins, Operands(Ins)) = IF e # "None" THEN Error(e) ELSE Answer(v)
  BY DEF EvalCheckNotNull
<1> HIDE DEF v, e
<1> QED BY <1>1, <1>3, <1>4, AnswersSane, ErrorsSane

\* What has fields, as a type of the module, is no delegate.
LEMMA FieldsOfObjects ==
  ASSUME NEW U, Standing(U), NEW v \in U, NEW t \in DOMAIN Types, DOMAIN Types[t].fields # {},
         ReceiverError(v, t) = "None"
  PROVE  v[2] \in 1 .. Len(heap) /\ heap[v[2]].call = NoId /\ ObjectSound(heap, U, v[2])
<1>1. Closed(heap, U) /\ HeapSound(heap, U) /\ DelegatesBare
  BY DEF Standing, MemorySound, Decoded
<1>2. IsRecord(v) /\ Assignable(heap[v[2]].type, t)
  BY DEF ReceiverError
<1>3. v[2] \in 1 .. Len(heap)
  BY <1>1, <1>2, ReferencesAre
<1>4. ObjectSound(heap, U, v[2])
  BY <1>1, <1>3 DEF HeapSound
<1>5. heap[v[2]].call = NoId
  <2> SUFFICES ASSUME heap[v[2]].call # NoId PROVE FALSE
    OBVIOUS
  <2>1. IsDelegate(heap[v[2]].type)
    BY <1>4 DEF ObjectSound
  <2>2. heap[v[2]].type = t
    BY <1>1, <1>2, <2>1 DEF DelegatesBare, IsDelegate
  <2>3. Types[t].fields = <<>>
    BY <1>1, <2>1, <2>2 DEF DelegatesBare, IsDelegate
  <2> QED BY <2>3
<1> QED BY <1>3, <1>4, <1>5

LEMMA FieldSane ==
  ASSUME NEW U, Standing(U), Ins.op \in {"LoadField", "StoreField"}
  PROVE  Sane(EvalField(Ins, Operands(Ins)), U)
<1> DEFINE x == Operands(Ins)
           t == Ins.idx[1]
           k == Ins.idx[2]
           i == x[1][2]
           e == ReceiverError(x[1], t)
           v == heap[i].fields[k]
<1>1. Closed(heap, U) /\ HeapSound(heap, U)
  BY DEF Standing, MemorySound
<1>2. FieldRule(Ins, TypesOf(Fun, Ins), RegType(Fun, Ins.res))
  BY RulesFollowed DEF FieldOps
<1>3. /\ t \in DOMAIN Types /\ k \in DOMAIN Types[t].fields
      /\ Len(Ins.args) = (IF Ins.op = "LoadField" THEN 1 ELSE 2)
  BY <1>2, OperandsHeld DEF FieldRule
<1>4. x[1] \in U /\ (Ins.op = "StoreField" => x[2] \in U)
  <2>1. 1 \in 1 .. Len(Ins.args) /\ (Ins.op = "StoreField" => 2 \in 1 .. Len(Ins.args))
    BY <1>3
  <2> QED BY <2>1, OperandsHeld
<1>5. EvalField(Ins, x) =
        IF e # "None" THEN Error(e)
        ELSE IF Ins.op = "StoreField"
             THEN IF ~HasType(x[2], Types[t].fields[k]) THEN Error("TypeMismatch")
                  ELSE IF k \notin DOMAIN heap[i].fields THEN Error("InvalidProgram")
                  ELSE Updated(i, k, x[2])
        ELSE IF k \notin DOMAIN heap[i].fields THEN Error("InvalidProgram")
        ELSE IF HasType(v, Types[t].fields[k]) THEN Answer(v)
        ELSE Error("TypeMismatch")
  BY DEF EvalField
<1>6. ASSUME e = "None"
      PROVE  i \in 1 .. Len(heap) /\ heap[i].call = NoId /\ ObjectSound(heap, U, i)
  <2> HIDE DEF x
  <2> QED BY <1>3, <1>4, <1>6, FieldsOfObjects
<1> HIDE DEF x, t, k, i, e
<1>7. CASE e # "None"
  BY <1>5, <1>7, ErrorsSane DEF x
<1>8. CASE e = "None"
  <2>1. Sane(Error("TypeMismatch"), U) /\ Sane(Error("InvalidProgram"), U)
    BY ErrorsSane
  <2>2. Ins.op = "StoreField" => Sane(Updated(i, k, x[2]), U)
    BY <1>1, <1>4, <1>6, <1>8, UpdatedSane
  <2>3. k \in DOMAIN heap[i].fields => Sane(Answer(v), U)
    <3>1. k \in DOMAIN heap[i].fields => v \in U
      BY <1>6, <1>8 DEF ObjectSound
    <3> QED BY <1>1, <3>1, AnswersSane
  <2> HIDE DEF v
  <2>4. Sane(EvalField(Ins, x), U)
    BY <1>5, <1>8, <2>1, <2>2, <2>3
  <2> QED BY <2>4 DEF x
<1> QED BY <1>7, <1>8

LEMMA StructFieldSane ==
  ASSUME NEW U, Standing(U), Ins.op \in {"LoadStructField", "StoreStructField"}
  PROVE  Sane(EvalStructField(Ins, Operands(Ins)), U)
<1> DEFINE x == Operands(Ins)
           t == Ins.idx[1]
           k == Ins.idx[2]
           fields == [x[1][2][2] EXCEPT ![k] = x[2]]
<1>1. Closed(heap, U) /\ HeapSound(heap, U)
  BY DEF Standing, MemorySound
<1>2. FieldRule(Ins, TypesOf(Fun, Ins), RegType(Fun, Ins.res))
  BY RulesFollowed DEF FieldOps
<1>3. /\ t \in DOMAIN Types /\ k \in DOMAIN Types[t].fields
      /\ Len(Ins.args) = (IF Ins.op = "LoadStructField" THEN 1 ELSE 2)
  BY <1>2, OperandsHeld DEF FieldRule
<1>4. x[1] \in U /\ (Ins.op = "StoreStructField" => x[2] \in U)
  <2>1. 1 \in 1 .. Len(Ins.args) /\ (Ins.op = "StoreStructField" => 2 \in 1 .. Len(Ins.args))
    BY <1>3
  <2> QED BY <2>1, OperandsHeld
<1>5. EvalStructField(Ins, x) =
        IF ~HasType(x[1], Ty("Struct", t)) THEN Error("TypeMismatch")
        ELSE IF Ins.op = "LoadStructField" THEN Answer(x[1][2][2][k])
        ELSE IF ~HasType(x[2], Types[t].fields[k]) THEN Error("TypeMismatch")
        ELSE Answer(StructV(t, fields))
  BY DEF EvalStructField
<1> HIDE DEF x, t, k
<1>6. ASSUME HasType(x[1], Ty("Struct", t))
      PROVE  /\ DOMAIN x[1][2][2] = DOMAIN Types[t].fields
             /\ \A j \in DOMAIN Types[t].fields : x[1][2][2][j] \in U
  <2>1. PrimOf(x[1]) = "Struct" /\ x[1][2][1] = t
    BY <1>6 DEF HasType, Ty
  <2>2. x[1][1] = "Struct"
    BY <1>1, <1>4, <2>1, ReferencesAre
  <2> QED BY <1>1, <1>4, <2>1, <2>2 DEF Closed
<1>7. HasType(x[1], Ty("Struct", t)) => Sane(Answer(x[1][2][2][k]), U)
  BY <1>1, <1>3, <1>6, AnswersSane
<1>8. ASSUME HasType(x[1], Ty("Struct", t)), Ins.op = "StoreStructField"
      PROVE  Sane(Answer(StructV(t, fields)), U)
  <2>1. DOMAIN fields = DOMAIN Types[t].fields /\ \A j \in DOMAIN fields : fields[j] \in U
    BY <1>4, <1>6, <1>8
  <2> HIDE DEF fields
  <2> QED BY <1>1, <2>1, StructsSane
<1>9. Sane(Error("TypeMismatch"), U)
  BY ErrorsSane
<1>10. Sane(EvalStructField(Ins, x), U)
  <2> HIDE DEF fields
  <2> QED BY <1>5, <1>7, <1>8, <1>9
<1> QED BY <1>10 DEF x

\* The delegates that an operand stands for.
LEMMA LeavesOfOperand ==
  ASSUME NEW U, Closed(heap, U), HeapSound(heap, U), NEW t, IsDelegate(t), NEW v \in U,
         v # NullObject => IsRecord(v) /\ heap[v[2]].type = t
  PROVE  Leaves(v) \in Seq(Delegates(heap))
<1>1. CASE v = NullObject
  BY <1>1 DEF Leaves
<1>2. CASE v # NullObject
  <2>1. v[2] \in 1 .. Len(heap) /\ ~heap[v[2]].array /\ heap[v[2]].type = t
    BY <1>2, ReferencesAre
  <2>2. heap[v[2]].call # NoId
    BY <2>1 DEF HeapSound, ObjectSound
  <2>3. Leaves(v) = LeafList[v[2]]
    BY <1>2 DEF Leaves
  <2> QED BY <2>1, <2>2, <2>3, LeavesHeld
<1> QED BY <1>1, <1>2

LEMMA DelegateSane ==
  ASSUME NEW U, Standing(U), Ins.op \in DelegateOps, Ins.op # "InvokeDelegate"
  PROVE  Sane(EvalDelegate(Ins, Operands(Ins)), U)
<1> DEFINE x == Operands(Ins)
           t == Ins.el[2]
<1>1. Closed(heap, U) /\ HeapSound(heap, U) /\ DelegatesBare
  BY DEF Standing, MemorySound, Decoded
<1>2. DelegateRule(Ins, TypesOf(Fun, Ins), RegType(Fun, Ins.res))
  BY RulesFollowed
<1>3. IsDelegate(t)
  BY <1>2 DEF DelegateRule, IsDelegate
<1>4. NullObject \in U
  BY <1>1 DEF Closed
<1>5. CASE Ins.op = "NewDelegate"
  <2>1. Ins.idx \in DOMAIN References
    BY <1>2, <1>5 DEF DelegateRule
  <2>2. Ins.idx # NoId /\ Ins.idx # "list"
    BY <1>1, <2>1 DEF DelegatesBare
  <2>3. ASSUME NEW v \in U
        PROVE  Sane(Created(Delegate(t, v, Ins.idx, NullObject)), U)
    <3> DEFINE o == Delegate(t, v, Ins.idx, NullObject)
    <3>1. /\ DOMAIN o = {"type", "array", "el", "fields", "call"}
          /\ o.type = t /\ o.array = FALSE /\ o.fields = <<v, NullObject>> /\ o.call = Ins.idx
      BY DEF Delegate, Object
    <3>2. \A f : f = <<v, NullObject>> => DOMAIN f = 1 .. 2 /\ f[1] = v /\ f[2] = NullObject
      OBVIOUS
    <3>3. \A j \in 1 .. 2 : j = 1 \/ j = 2
      OBVIOUS
    <3> HIDE DEF o, t
    <3>4. DOMAIN o.fields = 1 .. 2 /\ \A j \in DOMAIN o.fields : o.fields[j] \in U
      BY <1>4, <3>1, <3>2, <3>3
    <3>5. o.call # "list" /\ o.array \in BOOLEAN /\ ~o.array /\ IsDelegate(o.type) /\ o.call # NoId
      BY <1>3, <2>2, <3>1
    <3>6. ObjectMade(o, U)
      BY <3>1, <3>4, <3>5 DEF ObjectMade
    <3> QED BY <1>1, <3>6, CreatedSane DEF o
  <2>4. x # <<>> => x[1] \in U
    <3>1. x \in Seq(U)
      BY OperandsHeld
    <3> HIDE DEF x
    <3> QED BY <3>1
  <2>5. \/ x # <<>> /\ EvalDelegate(Ins, x) = Created(Delegate(t, x[1], Ins.idx, NullObject))
        \/ EvalDelegate(Ins, x) = Created(Delegate(t, NullObject, Ins.idx, NullObject))
        \/ \E c : c # "None" /\ EvalDelegate(Ins, x) = Error(c)
    <3>1. "TypeMismatch" # "None" /\ "InvalidProgram" # "None"
      OBVIOUS
    <3> HIDE DEF x
    <3> QED BY <1>5, <3>1 DEF EvalDelegate
  <2> HIDE DEF x, t
  <2> QED BY <1>4, <2>3, <2>4, <2>5, ErrorsSane DEF x
<1>6. CASE Ins.op \in {"CombineDelegate", "RemoveDelegate"}
  <2>1. Len(Ins.args) = 2
    <3>1. \A p, q : Len(<<p, q>>) = 2
      OBVIOUS
    <3>2. TypesOf(Fun, Ins) = <<Ty("Object", t), Ty("Object", t)>>
      BY <1>2, <1>6 DEF DelegateRule
    <3> QED BY <3>1, <3>2, OperandsHeld
  <2>2. x[1] \in U /\ x[2] \in U
    <3>1. 1 \in 1 .. Len(Ins.args) /\ 2 \in 1 .. Len(Ins.args)
      BY <2>1
    <3> QED BY <3>1, OperandsHeld
  <2> DEFINE wrong == \E k \in 1 .. 2 : x[k] # NullObject /\ (~IsRecord(x[k]) \/ heap[x[k][2]].type # t)
             left == Leaves(x[1])
             right == Leaves(x[2])
             leaves == IF Ins.op = "CombineDelegate" THEN left \o right ELSE WithoutRun(left, right)
  <2>3. EvalDelegate(Ins, x) = IF wrong THEN Error("TypeMismatch") ELSE ListOf(t, leaves)
    BY <1>6 DEF EvalDelegate
  <2>4. ASSUME ~wrong
        PROVE  leaves \in Seq(Delegates(heap))
    <3>1. \A k \in 1 .. 2 : x[k] # NullObject => IsRecord(x[k]) /\ heap[x[k][2]].type = t
      BY <2>4
    <3>2. 1 \in 1 .. 2 /\ 2 \in 1 .. 2
      OBVIOUS
    <3> HIDE DEF x, t, wrong
    <3>3. left \in Seq(Delegates(heap)) /\ right \in Seq(Delegates(heap))
      BY <1>1, <1>3, <2>2, <3>1, <3>2, LeavesOfOperand
    <3> HIDE DEF left, right
    <3>4. left \o right \in Seq(Delegates(heap))
      BY <3>3
    <3>5. WithoutRun(left, right) \in Seq(Delegates(heap))
      BY <3>3, WithoutRunHeld
    <3> QED BY <3>4, <3>5
  <2> HIDE DEF wrong, leaves, x, t
  <2>5. ~wrong => Sane(ListOf(t, leaves), U)
    BY <1>1, <1>3, <2>4, ListsSane
  <2>6. Sane(Error("TypeMismatch"), U)
    BY ErrorsSane
  <2> QED BY <2>3, <2>5, <2>6 DEF x
<1> QED BY <1>5, <1>6 DEF DelegateOps

\* Arithmetic makes numbers and truth values.
LEMMA ArithmeticPlain ==
  ASSUME NEW ins, ins.op \in ArithmeticOps, NEW x
  PROVE  \/ \E c : c # "None" /\ EvalArithmetic(ins, x) = Error(c)
         \/ \E v : v[1] \in {"Int", "Bool"} /\ EvalArithmetic(ins, x) = Answer(v)
<1>1. /\ \A n : IntV(n)[1] = "Int"
      /\ \A b : BoolV(b)[1] = "Bool"
  BY DEF IntV, BoolV
<1> DEFINE fails(e) == \E c : c # "None" /\ e = Error(c)
           plain(e) == \E v : v[1] \in {"Int", "Bool"} /\ e = Answer(v)
<1>2. \A n : plain(Answer(IntV(n)))
  BY <1>1
<1>3. \A b : plain(Answer(BoolV(b)))
  BY <1>1
<1>4. \A c : c # "None" => fails(Error(c))
  OBVIOUS
<1>5. PrimOf(x[1]) = "Int" => plain(Answer(x[1]))
  <2>1. PrimOf(x[1]) = "Int" => x[1][1] = "Int"
    BY DEF PrimOf
  <2> QED BY <2>1
<1> HIDE DEF fails, plain
<1>6. CASE ins.op = "NegateInt"
  <2>1. EvalArithmetic(ins, x) =
          IF PrimOf(x[1]) # "Int" THEN Error("TypeMismatch")
          ELSE IF InRange(-x[1][2]) THEN Answer(IntV(-x[1][2]))
          ELSE IF ins.checked THEN Error("IntegerOverflow") ELSE Answer(x[1])
    BY <1>6 DEF EvalArithmetic
  <2>2. fails(Error("TypeMismatch")) /\ fails(Error("IntegerOverflow")) /\ plain(Answer(IntV(-x[1][2])))
    BY <1>2, <1>4
  <2>3. fails(EvalArithmetic(ins, x)) \/ plain(EvalArithmetic(ins, x))
    BY <1>5, <2>1, <2>2
  <2> QED BY <2>3 DEF fails, plain
<1>7. CASE ins.op \in {"LogicalNot", "Equal", "NotEqual"}
  <2>1. EvalArithmetic(ins, x) = Error("TypeMismatch") \/ \E b : EvalArithmetic(ins, x) = Answer(BoolV(b))
    BY <1>7 DEF EvalArithmetic
  <2>2. fails(Error("TypeMismatch"))
    BY <1>4
  <2>3. fails(EvalArithmetic(ins, x)) \/ plain(EvalArithmetic(ins, x))
    BY <1>3, <2>1, <2>2
  <2> QED BY <2>3 DEF fails, plain
<1>8. CASE ins.op \in IntOps \cup IntTests
  <2> DEFINE a == x[1][2]
             b == x[2][2]
  <2>1. EvalArithmetic(ins, x) = IF x[1][1] # "Int" \/ x[2][1] # "Int" THEN Error("BadVariantAccess")
                                 ELSE EvalBinaryInt(ins, a, b)
    BY <1>8 DEF EvalArithmetic, IntOps, IntTests
  <2> HIDE DEF a, b
  <2>2. \/ EvalBinaryInt(ins, a, b) \in {Error("IntegerOverflow"), Error("DivisionByZero")}
        \/ \E n : EvalBinaryInt(ins, a, b) = Answer(IntV(n))
        \/ \E c : EvalBinaryInt(ins, a, b) = Answer(BoolV(c))
    <3>1. CASE ins.op \in {"AddInt", "SubtractInt", "MultiplyInt"}
      BY <3>1 DEF EvalBinaryInt
    <3>2. CASE ins.op \in {"DivideInt", "RemainderInt"}
      BY <3>2 DEF EvalBinaryInt
    <3>3. CASE ins.op \in IntTests
      BY <3>3 DEF EvalBinaryInt, IntTests
    <3> QED BY <1>8, <3>1, <3>2, <3>3 DEF IntOps
  <2>3. fails(Error("IntegerOverflow")) /\ fails(Error("DivisionByZero")) /\ fails(Error("BadVariantAccess"))
    BY <1>4
  <2>4. fails(EvalArithmetic(ins, x)) \/ plain(EvalArithmetic(ins, x))
    BY <1>2, <1>3, <2>1, <2>2, <2>3
  <2> QED BY <2>4 DEF fails, plain
<1> QED BY <1>6, <1>7, <1>8 DEF ArithmeticOps

\* Whatever the instruction is, what it answers are values and a heap for them.
LEMMA EvaluateSane ==
  ASSUME NEW U, Standing(U), Ins.op \notin {"Call", "InvokeDelegate"}
  PROVE  Sane(Evaluate(Ins, Operands(Ins)), U)
<1> DEFINE x == Operands(Ins)
<1>0. Ins.op \in Opcodes
  BY InstructionStands DEF DecodedInstruction
<1> HIDE DEF x
<1> USE DEF ConstantOps, LocalOps, ConvertOps, TypeTests, NewOps, ArrayOps, FieldOps, DelegateOps,
        ArithmeticOps, IntOps, IntTests
<1>1. CASE Ins.op \in ConstantOps
  <2>1. Evaluate(Ins, x) = EvalConstant(Ins)
    BY <1>1 DEF Evaluate
  <2> QED BY <1>1, <2>1, ConstantSane DEF x
<1>2. CASE Ins.op \in LocalOps
  <2>1. Evaluate(Ins, x) = EvalLocal(Ins, x)
    BY <1>2 DEF Evaluate
  <2> QED BY <1>2, <2>1, LocalSane DEF x
<1>3. CASE Ins.op \in ConvertOps
  <2>1. Evaluate(Ins, x) = EvalConvert(Ins, x)
    BY <1>3 DEF Evaluate
  <2> QED BY <1>3, <2>1, ConvertSane DEF x
<1>4. CASE Ins.op \in TypeTests
  <2>1. Evaluate(Ins, x) = EvalTypeTest(Ins, x)
    BY <1>4 DEF Evaluate
  <2> QED BY <1>4, <2>1, TypeTestSane DEF x
<1>5. CASE Ins.op \in NewOps
  <2>1. Evaluate(Ins, x) = EvalNew(Ins, x)
    BY <1>5 DEF Evaluate
  <2> QED BY <1>5, <2>1, NewSane DEF x
<1>6. CASE Ins.op \in ArrayOps
  <2>1. Evaluate(Ins, x) = EvalArray(Ins, x)
    BY <1>6 DEF Evaluate
  <2> QED BY <1>6, <2>1, ArraySane DEF x
<1>7. CASE Ins.op = "CheckNotNull"
  <2>1. Evaluate(Ins, x) = EvalCheckNotNull(Ins, x)
    BY <1>7 DEF Evaluate
  <2> QED BY <1>7, <2>1, CheckNotNullSane DEF x
<1>8. CASE Ins.op \in {"LoadField", "StoreField"}
  <2>1. Evaluate(Ins, x) = EvalField(Ins, x)
    BY <1>8 DEF Evaluate
  <2> QED BY <1>8, <2>1, FieldSane DEF x
<1>9. CASE Ins.op \in {"LoadStructField", "StoreStructField"}
  <2>1. Evaluate(Ins, x) = EvalStructField(Ins, x)
    BY <1>9 DEF Evaluate
  <2> QED BY <1>9, <2>1, StructFieldSane DEF x
<1>10. CASE Ins.op \in DelegateOps
  <2>1. Evaluate(Ins, x) = EvalDelegate(Ins, x)
    BY <1>10 DEF Evaluate
  <2> QED BY <1>10, <2>1, DelegateSane DEF x
<1>11. CASE Ins.op \in ArithmeticOps
  <2>1. Evaluate(Ins, x) = EvalArithmetic(Ins, x)
    BY <1>11 DEF Evaluate
  <2>2. Closed(heap, U) /\ HeapSound(heap, U)
    BY DEF Standing, MemorySound
  <2>3. /\ \A c : c # "None" => Sane(Error(c), U)
        /\ \A v : v[1] \in {"Int", "Bool"} => Sane(Answer(v), U)
    BY <2>2, PlainSane, ErrorsSane
  <2>4. \/ \E c : c # "None" /\ EvalArithmetic(Ins, x) = Error(c)
        \/ \E v : v[1] \in {"Int", "Bool"} /\ EvalArithmetic(Ins, x) = Answer(v)
    BY <1>11, ArithmeticPlain
  <2> QED BY <2>1, <2>3, <2>4 DEF x
<1> QED BY <1>0, <1>1, <1>2, <1>3, <1>4, <1>5, <1>6, <1>7, <1>8, <1>9, <1>10, <1>11 DEF Opcodes

(* ----------------------- what a step leaves as it is ------------------ *)

\* The module is never replaced, and what is said of it stays true.
LEMMA ProgramKept ==
  ASSUME program' = program
  PROVE  /\ Links' = Links /\ Decoded' = Decoded
         /\ \A i : InputSound(i)' = InputSound(i)
         /\ \A h, U : Closed(h, U)' = Closed(h, U)
         /\ \A h, U : HeapSound(h, U)' = HeapSound(h, U)
         /\ \A h, values, U : MemorySound(h, values, U)' = MemorySound(h, values, U)
         /\ \A s, h, room : StackSound(s, h, room)' = StackSound(s, h, room)
         /\ \A e, h : CacheSound(e, h)' = CacheSound(e, h)
<1>1. Links' = Links
  BY DEF Links, VerifyModule, DescriptorOk, ReferenceOk, FunctionOk, DefinedOnce, Definitions,
     Defines, HandlersOk, KnownIdentity, InstructionOk, TerminatorOk, EdgeOk, UsableAt, Dominates,
     Compatible, Assignable, Ancestors, Ancestry, ObjectModelOk, ClassContractOk, SlotsOk,
     Implements, ConstantRule, LocalRule, ConvertRule, TypeTestRule, NewRule, ArrayRule,
     CheckNotNullRule, FieldRule, CallRule, DelegateRule, ArithmeticRule, Types, References, Code
<1>2. Decoded' = Decoded
  BY DEF Decoded, DelegatesBare, IsDelegate, Assignable, Ancestors, Ancestry, Types, References, Code
<1>3. \A h, U : Closed(h, U)' = Closed(h, U)
  BY DEF Closed, Types
<1>4. \A i : InputSound(i)' = InputSound(i)
  BY <1>3 DEF InputSound, Code
<1>5. \A h, U : HeapSound(h, U)' = HeapSound(h, U)
  BY DEF HeapSound, ObjectSound, IsDelegate, Types
<1>6. \A h, values, U : MemorySound(h, values, U)' = MemorySound(h, values, U)
  BY <1>3, <1>5 DEF MemorySound
<1>7. \A s, h, room : StackSound(s, h, room)' = StackSound(s, h, room)
  BY DEF StackSound, FrameSound, Code
<1>8. \A e, h : CacheSound(e, h)' = CacheSound(e, h)
  BY DEF CacheSound, EntrySound, CallOf, Dispatched, InterfaceMap, MapOwners, Ancestors, Ancestry,
     Types, References, Code
<1> QED BY <1>1, <1>2, <1>3, <1>4, <1>5, <1>6, <1>7, <1>8

\* The invocation is over: nothing is left but the outcome.
Ended ==
    /\ UNCHANGED <<program, input>>
    /\ frames' = <<>> /\ status' \in {"start", "done"}
    /\ DOMAIN outcome' = DOMAIN outcome /\ mode' \in DOMAIN outcome

LEMMA EndedKeeps ==
  ASSUME InterpreterInv, Invoked, Ended
  PROVE  InterpreterInv'
<1>1. program' = program /\ input' = input /\ status' \in {"start", "done"} /\ frames' = <<>>
  BY DEF Ended
<1>2. /\ Decoded /\ \A i \in Inputs(program) : InputSound(i)
      /\ Links /\ InputSound(input)
  BY DEF InterpreterInv, InvocationSound
<1>3. /\ Decoded' /\ (\A i \in Inputs(program) : InputSound(i))' /\ Links' /\ InputSound(input)'
  BY <1>1, <1>2, ProgramKept
<1>4. DOMAIN outcome' = {Tiers[k] : k \in DOMAIN Tiers} /\ mode' \in DOMAIN outcome'
  BY DEF Ended, InterpreterInv
<1>5. ~Invoked' /\ status' # "link"
  BY <1>1 DEF Invoked
<1> QED BY <1>1, <1>3, <1>4, <1>5 DEF InterpreterInv

LEMMA FinishEnds ==
  ASSUME InterpreterInv, Invoked, NEW c, NEW v, Finish(c, v)
  PROVE  Ended
<1> DEFINE k == CHOOSE i \in DOMAIN Tiers : Tiers[i] = mode
<1>1. DOMAIN outcome = {Tiers[i] : i \in DOMAIN Tiers} /\ mode \in DOMAIN outcome
  BY DEF InterpreterInv
<1>2. k \in DOMAIN Tiers
  BY <1>1
<1>3. DOMAIN Tiers = 1 .. Len(Tiers) /\ Len(Tiers) \in Nat
  BY TiersAssumption
<1>4. /\ outcome' = [outcome EXCEPT ![mode] = [code |-> c, value |-> v, executed |-> executed',
                                              heap |-> IF c = "None" THEN heap' ELSE <<>>]]
      /\ frames' = <<>> /\ UNCHANGED <<program, input>>
      /\ \/ k < Len(Tiers) /\ mode' = Tiers[k + 1] /\ status' = "start"
         \/ status' = "done" /\ mode' = mode
  BY DEF Finish
<1>5. DOMAIN outcome' = DOMAIN outcome
  BY <1>4
<1> HIDE DEF k
<1>6. k < Len(Tiers) => k + 1 \in DOMAIN Tiers
  BY <1>2, <1>3
<1>7. mode' \in DOMAIN outcome
  BY <1>1, <1>4, <1>6
<1> QED BY <1>4, <1>5, <1>7 DEF Ended

LEMMA FailEnds ==
  ASSUME InterpreterInv, Invoked, NEW c, Fail(c)
  PROVE  Ended
BY FinishEnds DEF Fail

\* The invocation goes on with a memory that is sound.
GoesOn(V) ==
    /\ UNCHANGED <<program, input, mode, outcome>>
    /\ status' \in {"run", "unwind"}
    /\ MemorySound(heap', arena', V) /\ pending' \in V
    /\ StackSound(frames', heap', Len(arena')) /\ frames' # <<>>
    /\ status' = "unwind" => pending'[1] = "Ref"

LEMMA GoingOnKeeps ==
  ASSUME InterpreterInv, Invoked, NEW V, GoesOn(V), input.args \in Seq(V), input.host \in V,
         CacheSound(cache', heap')
  PROVE  InterpreterInv'
<1>1. /\ program' = program /\ input' = input /\ mode' = mode /\ outcome' = outcome
      /\ status' \in {"run", "unwind"}
  BY DEF GoesOn
<1>2. /\ Decoded /\ \A i \in Inputs(program) : InputSound(i)
      /\ Links /\ InputSound(input)
      /\ DOMAIN outcome = {Tiers[k] : k \in DOMAIN Tiers} /\ mode \in DOMAIN outcome
  BY DEF InterpreterInv, InvocationSound
<1>3. /\ Decoded' /\ (\A i \in Inputs(program) : InputSound(i))' /\ Links' /\ InputSound(input)'
  BY <1>1, <1>2, ProgramKept
<1>4. /\ MemorySound(heap, arena, V)' /\ StackSound(frames, heap, Len(arena))' /\ CacheSound(cache, heap)'
  BY <1>1, ProgramKept DEF GoesOn
<1>5. InvocationSound'
  BY <1>1, <1>3, <1>4 DEF InvocationSound, GoesOn
<1> QED BY <1>1, <1>2, <1>3, <1>5 DEF InterpreterInv, Invoked

(* --------------------------- the memory of a step --------------------- *)

LEMMA HeapsGrow ==
  ASSUME NEW h, NEW g, IsList(h), IsList(g), Grown(h, g), NEW stack, NEW room \in Nat, NEW more \in Nat,
         room <= more, StackSound(stack, h, room), Decoded
  PROVE  Delegates(h) \subseteq Delegates(g) /\ StackSound(stack, g, more)
<1>1. Len(h) \in Nat /\ Len(g) \in Nat /\ Len(h) <= Len(g)
  BY ListEntries DEF Grown
<1>2. Delegates(h) \subseteq Delegates(g)
  <2>1. \A i \in 1 .. Len(h) : i \in 1 .. Len(g) /\ h[i].call = g[i].call
    BY <1>1 DEF Grown
  <2> QED BY <2>1 DEF Delegates
<1>3. ASSUME NEW d \in 1 .. Len(stack)
      PROVE  FrameSound(stack[d], g, more)
  <2> DEFINE fr == stack[d]
  <2>1. FrameSound(fr, h, room)
    BY DEF StackSound
  <2> HIDE DEF fr
  <2>2. fr.fn \in DOMAIN Code /\ fr.base \in Nat /\ fr.base + FrameSize(Code[fr.fn]) <= room
    BY <2>1 DEF FrameSound
  <2>3. FrameSize(Code[fr.fn]) \in Nat
    BY <2>2, FrameSizes DEF Decoded
  <2>4. fr.base + FrameSize(Code[fr.fn]) <= more
    BY <2>2, <2>3
  <2>5. fr.leaves \in Seq(Delegates(g))
    <3>1. \A s \in Seq(Delegates(h)) : s \in Seq(Delegates(g))
      BY <1>2
    <3> QED BY <2>1, <3>1 DEF FrameSound
  <2>6. FrameSound(fr, g, more)
    BY <2>1, <2>4, <2>5 DEF FrameSound
  <2> QED BY <2>6 DEF fr
<1> QED BY <1>2, <1>3 DEF StackSound

LEMMA CacheGrows ==
  ASSUME NEW h, NEW g, IsList(h), IsList(g), Grown(h, g), NEW entries, CacheSound(entries, h)
  PROVE  CacheSound(entries, g)
<1>1. Len(h) \in Nat /\ Len(g) \in Nat /\ Len(h) <= Len(g)
  BY ListEntries DEF Grown
<1>2. \A i \in 1 .. Len(h) : i \in 1 .. Len(g) /\ h[i].type = g[i].type
  BY <1>1 DEF Grown
<1> QED BY <1>2 DEF CacheSound, EntrySound

LEMMA WrittenHeld ==
  ASSUME NEW U, NEW values \in Seq(U), NEW slot, NEW v \in U
  PROVE  /\ Written(values, slot, v) \in Seq(U)
         /\ Len(Written(values, slot, v)) = Len(values)
         /\ Len(values) \in Nat
<1>1. Len(values) \in Nat /\ DOMAIN values = 1 .. Len(values) /\ \A i \in 1 .. Len(values) : values[i] \in U
  OBVIOUS
<1> DEFINE w == [i \in 1 .. Len(values) |-> IF i = slot THEN v ELSE values[i]]
<1>2. \A i \in 1 .. Len(values) : (IF i = slot THEN v ELSE values[i]) \in U
  BY <1>1
<1>3. w \in Seq(U) /\ Len(w) = Len(values)
  BY <1>1, <1>2
<1>4. Written(values, slot, v) = w
  BY <1>1 DEF Written
<1> QED BY <1>1, <1>3, <1>4

LEMMA ClearedHeld ==
  ASSUME NEW U, NEW values \in Seq(U), NEW from, NEW to, Unset \in U
  PROVE  /\ Cleared(values, from, to) \in Seq(U)
         /\ Len(Cleared(values, from, to)) = Len(values)
         /\ Len(values) \in Nat
<1>1. Len(values) \in Nat /\ DOMAIN values = 1 .. Len(values) /\ \A i \in 1 .. Len(values) : values[i] \in U
  OBVIOUS
<1> DEFINE w == [i \in 1 .. Len(values) |-> IF i > from /\ i <= to THEN Unset ELSE values[i]]
<1>2. \A i \in 1 .. Len(values) : (IF i > from /\ i <= to THEN Unset ELSE values[i]) \in U
  BY <1>1
<1>3. w \in Seq(U) /\ Len(w) = Len(values)
  BY <1>1, <1>2
<1>4. Cleared(values, from, to) = w
  BY <1>1 DEF Cleared
<1> QED BY <1>1, <1>3, <1>4

LEMMA ReleasedHeld ==
  ASSUME NEW U, arena \in Seq(U), Unset \in U, NEW fr
  PROVE  Released(fr) \in Seq(U) /\ Len(Released(fr)) = Len(arena)
BY ClearedHeld DEF Released

LEMMA AllocatedHeld ==
  ASSUME NEW U, arena \in Seq(U), Unset \in U, NEW base \in Nat, NEW size \in Nat
  PROVE  /\ Allocated(base, size) \in Seq(U) /\ Len(Allocated(base, size)) \in Nat
         /\ Len(arena) <= Len(Allocated(base, size))
         /\ base + size <= Len(Allocated(base, size))
<1> DEFINE top == base + size
           n == Len(arena)
           m == MaxOf({top, n})
           grown == [i \in 1 .. m |-> IF i <= n THEN arena[i] ELSE Unset]
<1>1. n \in Nat /\ \A i \in 1 .. n : arena[i] \in U
  OBVIOUS
<1>2. top \in Nat
  OBVIOUS
<1> HIDE DEF top, n
<1>3. m \in {top, n} /\ m >= top /\ m >= n
  <2>1. {top, n} \in SUBSET (0 .. (top + n)) /\ top + n \in Nat /\ {top, n} # {}
    BY <1>1, <1>2
  <2> DEFINE S == {top, n}
  <2> HIDE DEF S
  <2>2. MaxOf(S) \in S /\ \A y \in S : MaxOf(S) >= y
    BY <2>1, GreatestOf DEF S
  <2> QED BY <2>2 DEF S
<1> HIDE DEF m
<1>4. m \in Nat
  BY <1>1, <1>2, <1>3
<1>5. \A i \in 1 .. m : (IF i <= n THEN arena[i] ELSE Unset) \in U
  BY <1>1, <1>4
<1>6. grown \in Seq(U) /\ Len(grown) = m
  BY <1>4, <1>5
<1>7. Allocated(base, size) = IF n >= top /\ mode = "traced" THEN Cleared(grown, base, top) ELSE grown
  BY DEF Allocated, top, n, m
<1> HIDE DEF grown
<1>8. Allocated(base, size) \in Seq(U) /\ Len(Allocated(base, size)) = m
  BY <1>6, <1>7, ClearedHeld
<1> QED BY <1>1, <1>3, <1>4, <1>8 DEF top, n

\* Where the next frame begins.
LEMMA TopHeld ==
  ASSUME Decoded, NEW h, NEW room, StackSound(frames, h, room)
  PROVE  Top \in Nat /\ Len(frames) \in Nat /\ (frames # <<>> => FrameSound(Frame, h, room))
<1>1. Len(frames) \in Nat /\ frames \in Seq(Elements(frames))
  BY ListEntries DEF StackSound, IsList
<1>2. CASE frames = <<>>
  BY <1>1, <1>2 DEF Top
<1>3. CASE frames # <<>>
  <2>1. Len(frames) \in 1 .. Len(frames)
    BY <1>1, <1>3
  <2>2. FrameSound(Frame, h, room)
    BY <2>1 DEF StackSound, Frame, Depth
  <2>3. Frame.base \in Nat /\ FrameSize(Fun) \in Nat
    BY <2>2, FrameSizes DEF FrameSound, Fun, Decoded
  <2> QED BY <1>1, <1>3, <2>2, <2>3 DEF Top
<1> QED BY <1>2, <1>3

\* A function is entered with values that are there.
LEMMA EnterKeeps ==
  ASSUME InterpreterInv, Invoked, NEW V, MemorySound(heap, arena, V), pending \in V,
         input.args \in Seq(V), input.host \in V, CacheSound(cache', heap),
         NEW s \in DOMAIN Code, NEW args \in Seq(V), NEW checked, Enter(s, args, checked)
  PROVE  InterpreterInv'
<1> DEFINE f == Code[s]
           base == Top
           size == FrameSize(f)
           room == Allocated(base, size)
           fr == [fn |-> s, block |-> 1, at |-> 1, base |-> base, leaves |-> <<>>]
           values == [i \in DOMAIN room |-> IF i > base /\ i <= base + Len(args) THEN args[i - base] ELSE room[i]]
<1>1. Decoded /\ Links /\ StackSound(frames, heap, Len(arena))
  BY DEF InterpreterInv, InvocationSound
<1>2. base \in Nat /\ Len(frames) \in Nat
  BY <1>1, TopHeld
<1>3. DecodedFunction(f) /\ size \in Nat
  BY <1>1, FrameSizes DEF Decoded
<1>4. arena \in Seq(V) /\ Unset \in V /\ Closed(heap, V) /\ HeapSound(heap, V)
  BY DEF MemorySound, Closed
<1>5. /\ room \in Seq(V) /\ Len(room) \in Nat /\ Len(arena) <= Len(room)
      /\ base + size <= Len(room)
  <2> HIDE DEF base, size
  <2> QED BY <1>2, <1>3, <1>4, AllocatedHeld
<1> HIDE DEF base, room, size
<1>6. values \in Seq(V) /\ Len(values) = Len(room)
  <2>1. DOMAIN room = 1 .. Len(room) /\ \A i \in 1 .. Len(room) : room[i] \in V
    BY <1>5
  <2>2. Len(args) \in Nat /\ \A j \in 1 .. Len(args) : args[j] \in V
    OBVIOUS
  <2>3. ASSUME NEW i \in 1 .. Len(room), i > base /\ i <= base + Len(args)
        PROVE  args[i - base] \in V
    <3>1. i - base \in 1 .. Len(args)
      BY <1>2, <1>5, <2>2, <2>3
    <3> QED BY <2>2, <3>1
  <2>4. \A i \in 1 .. Len(room) :
          (IF i > base /\ i <= base + Len(args) THEN args[i - base] ELSE room[i]) \in V
    BY <2>1, <2>3
  <2>5. values = [i \in 1 .. Len(room) |-> IF i > base /\ i <= base + Len(args) THEN args[i - base] ELSE room[i]]
    BY <2>1
  <2> HIDE DEF values
  <2> QED BY <1>5, <2>4, <2>5
<1>7. \/ \E c : Fail(c)
      \/ /\ frames' = Append(frames, fr) /\ arena' = values /\ status' = "run"
         /\ UNCHANGED <<program, input, mode, heap, pending, outcome>>
  BY DEF Enter, base, room, size
<1>8. CASE \E c : Fail(c)
  BY <1>8, FailEnds, EndedKeeps
<1>9. CASE /\ frames' = Append(frames, fr) /\ arena' = values /\ status' = "run"
           /\ UNCHANGED <<program, input, mode, heap, pending, outcome>>
  <2>1. IsList(heap) /\ IsList(frames) /\ Len(heap) \in Nat /\ Len(arena) \in Nat /\ Len(arena) <= Len(values)
        /\ Len(values) \in Nat
    <3>1. IsList(heap) /\ IsList(frames)
      BY <1>1, <1>4 DEF HeapSound, StackSound
    <3> HIDE DEF values
    <3> QED BY <1>4, <1>5, <1>6, <3>1, ListEntries
  <2>2. Grown(heap, heap)
    BY <2>1 DEF Grown
  <2> HIDE DEF values
  <2>3. StackSound(frames, heap, Len(values))
    BY <1>1, <2>1, <2>2, HeapsGrow
  <2>4. FrameSound(fr, heap, Len(values))
    <3>1. f.blocks # <<>> /\ IsList(f.blocks)
      BY <1>1, <1>3 DEF Links, VerifyModule, FunctionOk, DecodedFunction
    <3>2. 1 \in 1 .. Len(f.blocks)
      <4>1. f.blocks \in Seq(Elements(f.blocks))
        BY <3>1 DEF IsList
      <4> QED BY <3>1, <4>1
    <3>3. base + size <= Len(values)
      BY <1>5, <1>6
    <3>4. <<>> \in Seq(Delegates(heap))
      OBVIOUS
    <3>5. /\ DOMAIN fr = {"fn", "block", "at", "base", "leaves"}
          /\ fr.fn = s /\ fr.block = 1 /\ fr.at = 1 /\ fr.base = base /\ fr.leaves = <<>>
      OBVIOUS
    <3> HIDE DEF fr
    <3> QED BY <1>2, <3>2, <3>3, <3>4, <3>5 DEF FrameSound, size
  <2>5. /\ frames' \in Seq(Elements(frames) \cup {fr}) /\ Len(frames') = Len(frames) + 1
        /\ \A d \in 1 .. Len(frames) : frames'[d] = frames[d]
        /\ frames'[Len(frames) + 1] = fr
    <3>1. frames \in Seq(Elements(frames) \cup {fr})
      BY <2>1 DEF IsList
    <3> HIDE DEF fr
    <3> QED BY <1>9, <3>1, AppendedEntry
  <2> HIDE DEF fr
  <2>6. StackSound(frames', heap, Len(values))
    <3>1. \A d \in 1 .. Len(frames') : d \in 1 .. Len(frames) \/ d = Len(frames) + 1
      BY <1>2, <2>5
    <3>2. IsList(frames')
      BY <2>5, ListsOf
    <3> QED BY <2>3, <2>4, <2>5, <3>1, <3>2 DEF StackSound
  <2>7. frames' # <<>>
    BY <1>2, <2>5
  <2>8. GoesOn(V)
    BY <1>4, <1>6, <1>9, <2>6, <2>7 DEF GoesOn, MemorySound
  <2>9. CacheSound(cache', heap')
    BY <1>9
  <2> QED BY <2>8, <2>9, GoingOnKeeps
<1> QED BY <1>7, <1>8, <1>9

(* ------------------------------- the steps ---------------------------- *)

Present(U) ==
    MemorySound(heap, arena, U) /\ pending \in U /\ input.args \in Seq(U) /\ input.host \in U

LEMMA InvokedSound ==
  ASSUME InterpreterInv, Invoked
  PROVE  /\ Decoded /\ Links /\ InputSound(input)
         /\ StackSound(frames, heap, Len(arena)) /\ CacheSound(cache, heap)
         /\ \E U : Present(U)
         /\ frames # <<>> => FrameSound(Frame, heap, Len(arena))
<1>1. /\ Decoded /\ Links /\ InputSound(input)
      /\ StackSound(frames, heap, Len(arena)) /\ CacheSound(cache, heap)
      /\ \E U : Present(U)
  BY DEF InterpreterInv, InvocationSound, Present
<1> QED BY <1>1, TopHeld

LEMMA RunningStands ==
  ASSUME InterpreterInv, AtInstruction
  PROVE  Invoked /\ \A U : Present(U) => Standing(U)
<1>1. Invoked /\ frames # <<>>
  BY DEF AtInstruction, Running, Invoked
<1> QED BY <1>1, InvokedSound DEF Standing, Present

\* Heap, arena and stack stay sound, and so does what was cached.
LEMMA StepKeeps ==
  ASSUME InterpreterInv, Invoked, NEW U, Present(U), NEW V, U \subseteq V,
         Closed(heap', V), HeapSound(heap', V), Grown(heap, heap'), arena' \in Seq(V),
         pending' \in V, StackSound(frames', heap', Len(arena')), frames' # <<>>, cache' = cache,
         status' \in {"run", "unwind"}, status' = "unwind" => pending'[1] = "Ref",
         UNCHANGED <<program, input, mode, outcome>>
  PROVE  InterpreterInv'
<1>1. GoesOn(V)
  BY DEF GoesOn, MemorySound
<1>2. CacheSound(cache', heap')
  <2>1. CacheSound(cache, heap) /\ IsList(heap) /\ IsList(heap')
    BY InvokedSound DEF Present, MemorySound, HeapSound
  <2> QED BY <2>1, CacheGrows
<1>3. input.args \in Seq(V) /\ input.host \in V
  <2>1. \A s \in Seq(U) : s \in Seq(V)
    OBVIOUS
  <2> QED BY <2>1 DEF Present
<1> QED BY <1>1, <1>2, <1>3, GoingOnKeeps

\* The last frame of a stack gives way to another.
LEMMA TopReplaced ==
  ASSUME NEW stack, NEW h, NEW room, StackSound(stack, h, room), stack # <<>>,
         NEW g, g = [d \in DOMAIN stack |-> g[d]],
         \A d \in DOMAIN stack : d # Len(stack) => g[d] = stack[d], FrameSound(g[Len(stack)], h, room)
  PROVE  StackSound(g, h, room) /\ g # <<>>
<1>1. Len(stack) \in Nat /\ DOMAIN stack = 1 .. Len(stack) /\ IsList(stack)
  BY ListEntries DEF StackSound
<1>2. Len(stack) # 0
  BY <1>1 DEF IsList
<1>3. g \in Seq({g[d] : d \in 1 .. Len(stack)}) /\ Len(g) = Len(stack)
  BY <1>1
<1>4. IsList(g)
  BY <1>3, ListsOf
<1>5. ASSUME NEW d \in 1 .. Len(g)
      PROVE  FrameSound(g[d], h, room)
  <2>1. d \in DOMAIN stack
    BY <1>1, <1>3
  <2> QED BY <1>1, <2>1 DEF StackSound
<1>6. g # <<>>
  BY <1>2, <1>3
<1> QED BY <1>4, <1>5, <1>6 DEF StackSound

LEMMA MovedHeld ==
  ASSUME NEW h, NEW room, StackSound(frames, h, room), frames # <<>>, NEW span \in Nat
  PROVE  StackSound(Moved(span), h, room) /\ Moved(span) # <<>>
<1> DEFINE g == Moved(span)
           fr == frames[Depth]
<1>1. Len(frames) \in Nat /\ DOMAIN frames = 1 .. Len(frames) /\ IsList(frames)
  BY ListEntries DEF StackSound
<1>2. Depth \in DOMAIN frames
  BY <1>1 DEF Depth, IsList
<1>3. FrameSound(fr, h, room)
  BY <1>1, <1>2 DEF StackSound
<1>4. /\ g = [d \in DOMAIN frames |-> g[d]]
      /\ \A d \in DOMAIN frames : d # Depth => g[d] = frames[d]
      /\ g[Depth] = [fr EXCEPT !.at = fr.at + span, !.leaves = <<>>]
  BY <1>1, <1>2 DEF Moved
<1>5. FrameSound(g[Depth], h, room)
  <2> DEFINE to == [fr EXCEPT !.at = fr.at + span, !.leaves = <<>>]
  <2>1. fr.at + span \in Nat \ {0}
    BY <1>3 DEF FrameSound
  <2>2. /\ DOMAIN to = DOMAIN fr
        /\ to.fn = fr.fn /\ to.block = fr.block /\ to.base = fr.base
        /\ to.at = fr.at + span /\ to.leaves = <<>>
    BY <1>3 DEF FrameSound
  <2>3. <<>> \in Seq(Delegates(h))
    OBVIOUS
  <2> HIDE DEF to, fr
  <2>4. FrameSound(to, h, room)
    BY <1>3, <2>1, <2>2, <2>3 DEF FrameSound
  <2> HIDE DEF g
  <2> QED BY <1>4, <2>4 DEF to
<1> HIDE DEF g
<1>6. StackSound(g, h, room) /\ g # <<>>
  BY <1>4, <1>5, TopReplaced DEF Depth
<1> QED BY <1>6 DEF g

LEMMA ExecuteKeeps ==
  ASSUME InterpreterInv, Execute
  PROVE  InterpreterInv'
<1> DEFINE answer == Evaluate(Ins, Operands(Ins))
<1>1. Invoked /\ \A U : Present(U) => Standing(U)
  BY RunningStands DEF Execute
<1>2. PICK U : Present(U)
  BY <1>1, InvokedSound
<1>3. Sane(answer, U)
  BY <1>1, <1>2, EvaluateSane DEF Execute
<1>4. /\ cache' = cache
      /\ \/ \E c : Fail(c)
         \/ /\ answer.code = "None"
            /\ arena' = Written(arena, Target(Frame, Ins), answer.value)
            /\ heap' = answer.heap /\ frames' = Moved(1)
            /\ UNCHANGED <<program, input, mode, status, pending, outcome>>
  BY DEF Execute
<1>5. CASE \E c : Fail(c)
  BY <1>1, <1>5, FailEnds, EndedKeeps
<1> HIDE DEF answer
<1>6. CASE /\ answer.code = "None"
           /\ arena' = Written(arena, Target(Frame, Ins), answer.value)
           /\ heap' = answer.heap /\ frames' = Moved(1)
           /\ UNCHANGED <<program, input, mode, status, pending, outcome>>
  <2>1. PICK V : /\ U \subseteq V /\ answer.value \in V
                 /\ Closed(heap', V) /\ HeapSound(heap', V) /\ Grown(heap, heap')
    BY <1>3, <1>6 DEF Sane
  <2>2. arena \in Seq(V) /\ pending' \in V
    <3>1. \A s \in Seq(U) : s \in Seq(V)
      BY <2>1
    <3> QED BY <1>2, <1>6, <2>1, <3>1 DEF Present, MemorySound
  <2>3. arena' \in Seq(V) /\ Len(arena') = Len(arena) /\ Len(arena) \in Nat
    BY <1>6, <2>1, <2>2, WrittenHeld
  <2>4. StackSound(frames, heap, Len(arena)) /\ frames # <<>> /\ status = "run" /\ Decoded
    BY <1>1, InvokedSound DEF Execute, AtInstruction, Running
  <2>5. StackSound(frames, heap', Len(arena'))
    <3>1. IsList(heap) /\ IsList(heap') /\ Len(arena) <= Len(arena')
      BY <1>2, <2>1, <2>3 DEF Present, MemorySound, HeapSound
    <3> QED BY <2>1, <2>3, <2>4, <3>1, HeapsGrow
  <2>6. StackSound(frames', heap', Len(arena')) /\ frames' # <<>>
    BY <1>6, <2>4, <2>5, MovedHeld
  <2> QED BY <1>1, <1>2, <1>4, <1>6, <2>1, <2>2, <2>3, <2>4, <2>6, StepKeeps
<1> QED BY <1>4, <1>5, <1>6

\* The places that the instructions which are fused name.
LEMMA PlacesNamed ==
  ASSUME NEW f, FunctionOk(f), NEW b \in DOMAIN f.blocks, NEW p \in DOMAIN f.blocks[b].code
  PROVE  LET ins == f.blocks[b].code[p] IN
         /\ ins.op = "LoadParameter" => ins.idx \in DOMAIN f.params /\ ins.res \in DOMAIN f.regs
         /\ ins.op = "LoadLocal" => ins.idx \in DOMAIN f.locals /\ ins.res \in DOMAIN f.regs
         /\ ins.op \in IntOps \cup IntTests => ins.res \in DOMAIN f.regs
<1> DEFINE ins == f.blocks[b].code[p]
<1>1. IF Defines(ins) THEN ins.res \in DOMAIN f.regs ELSE ins.res = NoReg
  BY DEF FunctionOk, DefinedOnce
<1>2. InstructionOk(f, b, p)
  BY DEF FunctionOk
<1>3. ASSUME ins.op \in LocalOps
      PROVE  LocalRule(f, ins, TypesOf(f, ins), RegType(f, ins.res))
  BY <1>2, <1>3 DEF InstructionOk, TypesOf, ConstantOps, LocalOps, ConvertOps, TypeTests, NewOps,
     ArrayOps, FieldOps, DelegateOps, ArithmeticOps, IntOps, IntTests
<1> HIDE DEF ins
<1>4. ins.op \in {"LoadParameter", "LoadLocal"} \cup IntOps \cup IntTests => Defines(ins)
  BY DEF Defines, IntOps, IntTests
<1>5. /\ ins.op = "LoadParameter" => ins.idx \in DOMAIN f.params
      /\ ins.op = "LoadLocal" => ins.idx \in DOMAIN f.locals
  BY <1>3 DEF LocalOps, LocalRule
<1> QED BY <1>1, <1>4, <1>5 DEF ins

LEMMA PlainAdded ==
  ASSUME NEW h, NEW U, Closed(h, U), HeapSound(h, U), NEW v, v[1] \in {"Int", "Bool"}
  PROVE  Closed(h, U \cup {v}) /\ HeapSound(h, U \cup {v})
<1>1. Closed(h, U \cup {v})
  BY DEF Closed
<1>2. HeapSound(h, U \cup {v})
  BY DEF HeapSound, ObjectSound
<1> QED BY <1>1, <1>2

\* The instructions that are fused, and what each takes from the one before.
LEMMA FusedParts ==
  ASSUME NEW U, Standing(U), Span > 1
  PROVE  LET code == Block.code
             at == Frame.at IN
         /\ Span \in 2 .. 4 /\ at \in Nat
         /\ Span = 2 => /\ at \in DOMAIN code /\ code[at].op = "LoadParameter"
                        /\ code[at + 1].args[1] = code[at].res
         /\ Span # 2 => /\ at \in DOMAIN code /\ code[at].op = "LoadLocal"
                        /\ at + 1 \in DOMAIN code /\ code[at + 1].op \in {"ConstantInt", "LoadLocal"}
                        /\ at + 2 \in DOMAIN code /\ code[at + 2].op \in IntOps \cup IntTests
         /\ Span = 4 => code[at + 3].args[1] = code[at + 2].res
<1> DEFINE code == Block.code
           at == Frame.at
           span == FusedSpan(Fun, code, at)
<1>1. /\ FrameSound(Frame, heap, Len(arena)) /\ Decoded /\ Links
      /\ DOMAIN code = 1 .. Len(code) /\ Len(code) \in Nat
  BY FunctionsOk DEF Standing, Fun, Block
<1>2. at \in Nat \ {0}
  BY <1>1 DEF FrameSound
<1>3. Span = span
  BY DEF Span
<1> HIDE DEF code, at
<1>4. \A ops : /\ IsQuick(Fun, code, at, ops) => at \in DOMAIN code /\ code[at].op \in ops
               /\ IsQuick(Fun, code, at + 1, ops) => at + 1 \in DOMAIN code /\ code[at + 1].op \in ops
               /\ IsQuick(Fun, code, at + 2, ops) => at + 2 \in DOMAIN code /\ code[at + 2].op \in ops
  <2>1. \A p \in Nat : p <= Len(code) /\ p # 0 => p \in DOMAIN code
    BY <1>1
  <2>2. at + 1 \in Nat /\ at + 1 # 0 /\ at + 2 \in Nat /\ at + 2 # 0
    BY <1>2
  <2> QED BY <1>2, <2>1, <2>2 DEF IsQuick
<1>5. CASE span = 2
  <2>1. IsQuick(Fun, code, at, {"LoadParameter"}) /\ code[at + 1].args[1] = code[at].res
    BY <1>5 DEF FusedSpan
  <2>2. at \in DOMAIN code /\ code[at].op = "LoadParameter"
    BY <1>4, <2>1
  <2> HIDE DEF span
  <2> QED BY <1>2, <1>3, <1>5, <2>1, <2>2 DEF code, at
<1>6. CASE span # 2
  <2>1. /\ IsQuick(Fun, code, at, {"LoadLocal"})
        /\ IsQuick(Fun, code, at + 1, {"ConstantInt", "LoadLocal"})
        /\ IsQuick(Fun, code, at + 2, IntOps \cup IntTests)
        /\ span \in {3, 4}
        /\ span = 4 => code[at + 3].args[1] = code[at + 2].res
    BY <1>3, <1>6 DEF FusedSpan
  <2>2. /\ at \in DOMAIN code /\ code[at].op = "LoadLocal"
        /\ at + 1 \in DOMAIN code /\ code[at + 1].op \in {"ConstantInt", "LoadLocal"}
        /\ at + 2 \in DOMAIN code /\ code[at + 2].op \in IntOps \cup IntTests
    <3> HIDE DEF span
    <3> QED BY <1>4, <2>1
  <2> HIDE DEF span
  <2> QED BY <1>2, <1>3, <1>6, <2>1, <2>2 DEF code, at
<1> QED BY <1>5, <1>6

LEMMA ExecuteFusedKeeps ==
  ASSUME InterpreterInv, ExecuteFused
  PROVE  InterpreterInv'
<1> DEFINE code == Block.code
           at == Frame.at
           part(k) == code[at + k - 1]
           loaded(values, ins) ==
               IF ins.op = "ConstantInt" THEN IntV(ins.idx)
               ELSE IF ins.op = "LoadParameter" THEN values[ArgAt(Frame, ins.idx)]
               ELSE values[LocalAt(Frame, ins.idx)]
           first == Written(arena, RegAt(Frame, part(1).res), loaded(arena, part(1)))
           stored(values, ins) == Written(values, LocalAt(Frame, ins.idx), values[RegAt(Frame, ins.args[1])])
           second == Written(first, RegAt(Frame, part(2).res), loaded(first, part(2)))
           answer == EvalArithmetic(part(3), <<second[RegAt(Frame, part(3).args[1])],
                                               second[RegAt(Frame, part(3).args[2])]>>)
           third == Written(second, RegAt(Frame, part(3).res), answer.value)
<1>1. Invoked /\ AtInstruction /\ Span > 1 /\ \A U : Present(U) => Standing(U)
  BY RunningStands DEF ExecuteFused
<1>2. PICK U : Present(U)
  BY <1>1, InvokedSound
<1>3. /\ Closed(heap, U) /\ HeapSound(heap, U) /\ arena \in Seq(U) /\ pending \in U
      /\ FrameSound(Frame, heap, Len(arena)) /\ Decoded /\ Links /\ Standing(U)
      /\ StackSound(frames, heap, Len(arena)) /\ frames # <<>> /\ status = "run"
  BY <1>1, <1>2, InvokedSound DEF Present, MemorySound, AtInstruction, Running, Standing
<1>4. /\ Span \in 2 .. 4 /\ at \in Nat
      /\ Span = 2 => /\ at \in DOMAIN code /\ code[at].op = "LoadParameter"
                     /\ code[at + 1].args[1] = code[at].res
      /\ Span # 2 => /\ at \in DOMAIN code /\ code[at].op = "LoadLocal"
                     /\ at + 1 \in DOMAIN code /\ code[at + 1].op \in {"ConstantInt", "LoadLocal"}
                     /\ at + 2 \in DOMAIN code /\ code[at + 2].op \in IntOps \cup IntTests
      /\ Span = 4 => code[at + 3].args[1] = code[at + 2].res
  BY <1>1, <1>3, FusedParts
<1>5. /\ cache' = cache
      /\ \/ \E c : Fail(c)
         \/ /\ \/ Span = 2 /\ arena' = stored(first, part(2))
               \/ Span # 2 /\ answer.code = "None"
                  /\ arena' = IF Span = 4 THEN stored(third, part(4)) ELSE third
            /\ frames' = Moved(Span)
            /\ UNCHANGED <<program, input, mode, status, heap, pending, outcome>>
  BY DEF ExecuteFused
<1>6. CASE \E c : Fail(c)
  BY <1>1, <1>6, FailEnds, EndedKeeps
<1>7. ASSUME NEW p \in DOMAIN code
      PROVE  /\ code[p].op = "LoadParameter" => code[p].idx \in DOMAIN Fun.params /\ code[p].res \in DOMAIN Fun.regs
             /\ code[p].op = "LoadLocal" => code[p].idx \in DOMAIN Fun.locals /\ code[p].res \in DOMAIN Fun.regs
             /\ code[p].op \in IntOps \cup IntTests => code[p].res \in DOMAIN Fun.regs
  <2>1. FunctionOk(Fun) /\ Frame.block \in DOMAIN Fun.blocks
    BY <1>3, InstructionStands
  <2> QED BY <2>1, PlacesNamed DEF Block
<1>8. ASSUME NEW V, NEW values \in Seq(V), Len(values) = Len(arena)
      PROVE  /\ \A r \in DOMAIN Fun.regs : values[RegAt(Frame, r)] \in V
             /\ \A k \in DOMAIN Fun.locals : values[LocalAt(Frame, k)] \in V
             /\ \A k \in DOMAIN Fun.params : values[ArgAt(Frame, k)] \in V
  BY <1>3, <1>8, PlacesHeld DEF Fun
<1>9. part(1) = code[at] /\ part(2) = code[at + 1] /\ part(3) = code[at + 2] /\ part(4) = code[at + 3]
  <2>1. at + 1 - 1 = at /\ at + 2 - 1 = at + 1 /\ at + 3 - 1 = at + 2 /\ at + 4 - 1 = at + 3
    BY <1>4
  <2> QED BY <2>1
<1> HIDE DEF code, at, part
<1>10. first \in Seq(U) /\ Len(first) = Len(arena)
  <2>1. loaded(arena, part(1)) \in U
    BY <1>3, <1>4, <1>7, <1>8, <1>9
  <2> HIDE DEF loaded
  <2> QED BY <1>3, <2>1, WrittenHeld
<1> HIDE DEF first
<1>11. CASE /\ \/ Span = 2 /\ arena' = stored(first, part(2))
               \/ Span # 2 /\ answer.code = "None"
                  /\ arena' = IF Span = 4 THEN stored(third, part(4)) ELSE third
            /\ frames' = Moved(Span)
            /\ UNCHANGED <<program, input, mode, status, heap, pending, outcome>>
  <2>1. \E V : /\ U \subseteq V /\ Closed(heap, V) /\ HeapSound(heap, V)
               /\ arena' \in Seq(V) /\ Len(arena') = Len(arena)
    <3>1. CASE Span = 2
      <4>1. part(2).args[1] \in DOMAIN Fun.regs
        BY <1>4, <1>7, <1>9, <3>1
      <4>2. first[RegAt(Frame, part(2).args[1])] \in U
        BY <1>8, <1>10, <4>1
      <4>3. stored(first, part(2)) \in Seq(U) /\ Len(stored(first, part(2))) = Len(arena)
        BY <1>10, <4>2, WrittenHeld
      <4>4. arena' = stored(first, part(2))
        BY <1>11, <3>1
      <4> HIDE DEF stored
      <4> QED BY <1>3, <4>3, <4>4
    <3>2. CASE Span # 2
      <4>1. PICK n : n[1] = "Int" /\ (part(2).op = "ConstantInt" => loaded(first, part(2)) = n)
        <5>1. IntV(part(2).idx)[1] = "Int"
          BY DEF IntV
        <5> QED BY <5>1
      <4>2. PICK v : v[1] \in {"Int", "Bool"} /\ (answer.code = "None" => answer.value = v)
        <5>1. part(3).op \in ArithmeticOps
          BY <1>4, <1>9, <3>2 DEF ArithmeticOps
        <5>2. \/ \E c : c # "None" /\ answer = Error(c)
              \/ \E w : w[1] \in {"Int", "Bool"} /\ answer = Answer(w)
          BY <5>1, ArithmeticPlain
        <5>3. IntV(0)[1] = "Int"
          BY DEF IntV
        <5> HIDE DEF answer
        <5> QED BY <5>2, <5>3 DEF Error, Answer
      <4> DEFINE W == U \cup {n}
                 V == W \cup {v}
      <4>3. Closed(heap, W) /\ HeapSound(heap, W)
        BY <1>3, <4>1, PlainAdded
      <4>4. Closed(heap, V) /\ HeapSound(heap, V)
        <5> HIDE DEF W
        <5> QED BY <4>2, <4>3, PlainAdded
      <4>5. U \subseteq V /\ n \in V /\ v \in V
        OBVIOUS
      <4> HIDE DEF W, V
      <4>6. first \in Seq(V)
        <5>1. \A s \in Seq(U) : s \in Seq(V)
          BY <4>5
        <5> QED BY <1>10, <5>1
      <4>7. loaded(first, part(2)) \in V
        <5>1. CASE part(2).op = "ConstantInt"
          BY <4>1, <4>5, <5>1
        <5>2. CASE part(2).op = "LoadLocal"
          <6>1. part(2).idx \in DOMAIN Fun.locals
            BY <1>4, <1>7, <1>9, <3>2, <5>2
          <6>2. first[LocalAt(Frame, part(2).idx)] \in V
            BY <1>8, <1>10, <4>6, <6>1
          <6> QED BY <5>2, <6>2
        <5> QED BY <1>4, <1>9, <3>2, <5>1, <5>2
      <4> HIDE DEF loaded
      <4>8. second \in Seq(V) /\ Len(second) = Len(arena)
        BY <1>10, <4>6, <4>7, WrittenHeld
      <4> HIDE DEF second, answer
      <4>9. third \in Seq(V) /\ Len(third) = Len(arena)
        <5>1. answer.value \in V
          BY <1>11, <3>2, <4>2, <4>5
        <5> QED BY <4>8, <5>1, WrittenHeld
      <4> HIDE DEF third
      <4>10. ASSUME Span = 4
             PROVE  stored(third, part(4)) \in Seq(V) /\ Len(stored(third, part(4))) = Len(arena)
        <5>1. part(4).args[1] \in DOMAIN Fun.regs
          BY <1>4, <1>7, <1>9, <3>2, <4>10
        <5>2. third[RegAt(Frame, part(4).args[1])] \in V
          BY <1>8, <4>9, <5>1
        <5> QED BY <4>9, <5>2, WrittenHeld
      <4> HIDE DEF stored
      <4>11. arena' \in Seq(V) /\ Len(arena') = Len(arena)
        BY <1>11, <3>2, <4>9, <4>10
      <4> QED BY <4>4, <4>5, <4>11
    <3> QED BY <3>1, <3>2
  <2>2. PICK V : /\ U \subseteq V /\ Closed(heap, V) /\ HeapSound(heap, V)
                 /\ arena' \in Seq(V) /\ Len(arena') = Len(arena)
    BY <2>1
  <2>3. StackSound(frames', heap, Len(arena')) /\ frames' # <<>>
    <3>1. Span \in Nat
      BY <1>4
    <3> QED BY <1>3, <1>11, <2>2, <3>1, MovedHeld
  <2>4. Grown(heap, heap)
    <3>1. Len(heap) \in Nat
      BY <1>3, ListEntries DEF HeapSound
    <3> QED BY <3>1 DEF Grown
  <2>5. heap' = heap /\ pending' \in V /\ status' = "run" /\ UNCHANGED <<program, input, mode, outcome>>
    BY <1>3, <1>11, <2>2
  <2> QED BY <1>1, <1>2, <1>5, <2>2, <2>3, <2>4, <2>5, StepKeeps
<1> QED BY <1>5, <1>6, <1>11

LEMMA CallDirectKeeps ==
  ASSUME InterpreterInv, CallDirect
  PROVE  InterpreterInv'
<1>1. Invoked /\ \A U : Present(U) => Standing(U)
  BY RunningStands DEF CallDirect, AtCall
<1>2. PICK U : Present(U)
  BY <1>1, InvokedSound
<1>3. Operands(Ins) \in Seq(U)
  BY <1>1, <1>2, OperandsHeld
<1>4. CacheSound(cache', heap)
  BY <1>1, InvokedSound DEF CallDirect
<1>5. Callee.symbol \in DOMAIN Code /\ Enter(Callee.symbol, Operands(Ins), FALSE)
  BY DEF CallDirect
<1> QED BY <1>1, <1>2, <1>3, <1>4, <1>5, EnterKeeps DEF Present

\* The receiver of a call that is dispatched is a value.
LEMMA ReceiverHeld ==
  ASSUME NEW U, Standing(U), AtCall, Callee.mode # "direct", Callee.mode \in {"virtual", "interface"}
  PROVE  Operands(Ins)[1] \in U /\ Operands(Ins)[1] = Reg(Ins.args[1])
<1>1. Decoded /\ Links
  BY DEF Standing
<1>2. CallRule(Ins, TypesOf(Fun, Ins), RegType(Fun, Ins.res))
  BY RulesFollowed DEF AtCall
<1>3. Ins.idx \in DOMAIN References /\ Len(Ins.args) = Len(Callee.params)
  BY <1>2, OperandsHeld DEF CallRule, Callee
<1>4. IsList(Callee.params) /\ Callee.params # <<>>
  BY <1>1, <1>3 DEF Decoded, Links, VerifyModule, ReferenceOk, Callee
<1>5. Len(Callee.params) \in Nat \ {0}
  BY <1>4 DEF IsList
<1>6. 1 \in 1 .. Len(Ins.args)
  BY <1>3, <1>5
<1> QED BY <1>6, OperandsHeld

LEMMA CallDispatchedKeeps ==
  ASSUME InterpreterInv, CallDispatched
  PROVE  InterpreterInv'
<1> DEFINE x == Operands(Ins)
           target == Dispatched(Callee, heap[x[1][2]].type)
           entry == [site |-> Site, receiver |-> x[1], type |-> heap[x[1][2]].type, target |-> target]
<1>1. Invoked /\ AtInstruction /\ \A U : Present(U) => Standing(U)
  BY RunningStands DEF CallDispatched, AtCall
<1>2. PICK U : Present(U)
  BY <1>1, InvokedSound
<1>3. x \in Seq(U) /\ x[1] \in U
  BY <1>1, <1>2, OperandsHeld, ReceiverHeld DEF CallDispatched
<1>4. CacheSound(cache, heap) /\ Closed(heap, U)
  BY <1>1, <1>2, InvokedSound DEF Present, MemorySound
<1>5. \/ \E c : Fail(c)
      \/ Hit(x[1]) /\ Enter(cache[CacheIndex].target, x, FALSE) /\ cache' = cache
      \/ /\ IsRecord(x[1]) /\ target \in DOMAIN Code
         /\ cache' = [k \in DOMAIN cache \cup {CacheIndex} |-> IF k = CacheIndex THEN entry ELSE cache[k]]
         /\ Enter(target, x, TRUE)
  BY DEF CallDispatched
<1>6. CASE \E c : Fail(c)
  BY <1>1, <1>6, FailEnds, EndedKeeps
<1> HIDE DEF x
<1>7. CASE Hit(x[1]) /\ Enter(cache[CacheIndex].target, x, FALSE) /\ cache' = cache
  <2>1. cache[CacheIndex].target \in DOMAIN Code
    BY <1>4, <1>7 DEF Hit, CacheSound, EntrySound
  <2> QED BY <1>1, <1>2, <1>3, <1>4, <1>7, <2>1, EnterKeeps DEF Present
<1>8. CASE /\ IsRecord(x[1]) /\ target \in DOMAIN Code
           /\ cache' = [k \in DOMAIN cache \cup {CacheIndex} |-> IF k = CacheIndex THEN entry ELSE cache[k]]
           /\ Enter(target, x, TRUE)
  <2>1. x[1][2] \in 1 .. Len(heap)
    BY <1>3, <1>4, <1>8, ReferencesAre
  <2>2. CallOf(Site) = Callee
    <3>1. Site[1] = Frame.fn /\ Site[2] = Frame.block /\ Site[3] = Frame.at
      BY DEF Site
    <3> QED BY <3>1 DEF CallOf, Callee, Ins, Block, Fun
  <2>3. EntrySound(entry, heap)
    <3>1. /\ entry.site = Site /\ entry.receiver = x[1] /\ entry.type = heap[x[1][2]].type
          /\ entry.target = target
      OBVIOUS
    <3> HIDE DEF entry
    <3> QED BY <1>8, <2>1, <2>2, <3>1 DEF EntrySound
  <2> HIDE DEF entry, target
  <2>4. ASSUME NEW k \in DOMAIN cache'
        PROVE  cache'[k] = entry \/ (k \in DOMAIN cache /\ cache'[k] = cache[k])
    BY <1>8
  <2>5. CacheSound(cache', heap)
    BY <1>4, <2>3, <2>4 DEF CacheSound
  <2> QED BY <1>1, <1>2, <1>3, <1>8, <2>5, EnterKeeps DEF Present
<1> QED BY <1>5, <1>6, <1>7, <1>8

LEMMA CallExternalKeeps ==
  ASSUME InterpreterInv, CallExternal
  PROVE  InterpreterInv'
<1>1. Invoked /\ AtInstruction
  BY RunningStands DEF CallExternal, AtCall
<1>2. PICK U : Present(U)
  BY <1>1, InvokedSound
<1>3. /\ Closed(heap, U) /\ HeapSound(heap, U) /\ arena \in Seq(U) /\ pending \in U /\ input.host \in U
      /\ StackSound(frames, heap, Len(arena)) /\ frames # <<>> /\ status = "run"
  BY <1>1, <1>2, InvokedSound DEF Present, MemorySound, AtInstruction, Running
<1>4. /\ cache' = cache
      /\ \/ \E c : Fail(c)
         \/ /\ arena' = Written(arena, Target(Frame, Ins), input.host)
            /\ frames' = Moved(1)
            /\ UNCHANGED <<program, input, mode, status, heap, pending, outcome>>
  BY DEF CallExternal
<1>5. CASE \E c : Fail(c)
  BY <1>1, <1>5, FailEnds, EndedKeeps
<1>6. CASE /\ arena' = Written(arena, Target(Frame, Ins), input.host)
           /\ frames' = Moved(1)
           /\ UNCHANGED <<program, input, mode, status, heap, pending, outcome>>
  <2>1. arena' \in Seq(U) /\ Len(arena') = Len(arena)
    BY <1>3, <1>6, WrittenHeld
  <2>2. StackSound(frames', heap', Len(arena')) /\ frames' # <<>>
    BY <1>3, <1>6, <2>1, MovedHeld
  <2>3. Grown(heap, heap')
    <3>1. Len(heap) \in Nat
      BY <1>3, ListEntries DEF HeapSound
    <3> QED BY <1>6, <3>1 DEF Grown
  <2>4. heap' = heap /\ pending' = pending /\ status' = "run" /\ UNCHANGED <<program, input, mode, outcome>>
    BY <1>3, <1>6
  <2> QED BY <1>1, <1>2, <1>3, <1>4, <2>1, <2>2, <2>3, <2>4, StepKeeps
<1> QED BY <1>4, <1>5, <1>6

\* Entering a leaf, a delegate of the heap, whose target is a value.
LEMMA EnterLeafKeeps ==
  ASSUME InterpreterInv, Invoked, NEW U, Present(U), cache' = cache,
         NEW leaf, leaf[2] \in 1 .. Len(heap), heap[leaf[2]].call # NoId, NEW args \in Seq(U), NEW sig, EnterLeaf(leaf, args, sig)
  PROVE  InterpreterInv'
<1> DEFINE d == heap[leaf[2]]
           full == IF d.fields[1] = NullObject THEN args ELSE <<d.fields[1]>> \o args
<1>1. PICK i \in 1 .. Len(heap) : leaf[2] = i /\ heap[i].call # NoId
  OBVIOUS
<1>2. d = heap[i]
  BY <1>1
<1>3. d.fields[1] \in U
  <2>1. ObjectSound(heap, U, i)
    BY DEF Present, MemorySound, HeapSound
  <2>2. 1 \in DOMAIN heap[i].fields
    <3>1. 1 \in 1 .. 2
      OBVIOUS
    <3> QED BY <1>1, <2>1, <3>1 DEF ObjectSound
  <2> QED BY <1>2, <2>1, <2>2 DEF ObjectSound
<1>4. full \in Seq(U)
  <2>1. \A v \in U : <<v>> \o args \in Seq(U)
    OBVIOUS
  <2> HIDE DEF d
  <2> QED BY <1>3, <2>1
<1>5. \/ \E c : Fail(c)
      \/ \E target \in DOMAIN Code : Enter(target, full, TRUE)
  BY DEF EnterLeaf
<1>6. CASE \E c : Fail(c)
  BY <1>6, FailEnds, EndedKeeps
<1>7. ASSUME NEW target \in DOMAIN Code, Enter(target, full, TRUE)
      PROVE  InterpreterInv'
  <2>1. CacheSound(cache', heap)
    BY InvokedSound
  <2> HIDE DEF full
  <2> QED BY <1>4, <1>7, <2>1, EnterKeeps DEF Present
<1> QED BY <1>5, <1>6, <1>7

LEMMA InvokeOperands ==
  ASSUME NEW U, Standing(U), AtInvoke
  PROVE  IsDelegate(Ins.el[2]) /\ 1 \in 1 .. Len(Ins.args)
<1>1. DelegateRule(Ins, TypesOf(Fun, Ins), RegType(Fun, Ins.res))
  BY RulesFollowed DEF AtInvoke, DelegateOps
<1>2. IsDelegate(Ins.el[2])
  BY <1>1 DEF DelegateRule, IsDelegate
<1>3. Len(Ins.args) = Len(Types[Ins.el[2]].invoke.params) + 1
  BY <1>1, OperandsHeld DEF DelegateRule, AtInvoke
<1>4. Len(Types[Ins.el[2]].invoke.params) \in Nat
  BY <1>2, ListEntries DEF Standing, Decoded, DelegatesBare, IsDelegate
<1>5. \A n \in Nat : 1 \in 1 .. (n + 1)
  OBVIOUS
<1> QED BY <1>2, <1>3, <1>4, <1>5

LEMMA InvokeDelegateKeeps ==
  ASSUME InterpreterInv, InvokeDelegate
  PROVE  InterpreterInv'
<1> DEFINE x == Operands(Ins)
           t == Ins.el[2]
<1>1. Invoked /\ AtInstruction /\ AtInvoke /\ \A U : Present(U) => Standing(U)
  BY RunningStands DEF InvokeDelegate, AtInvoke
<1>2. PICK U : Present(U)
  BY <1>1, InvokedSound
<1>3. /\ Closed(heap, U) /\ HeapSound(heap, U) /\ arena \in Seq(U) /\ pending \in U
      /\ StackSound(frames, heap, Len(arena)) /\ frames # <<>> /\ status = "run"
  BY <1>1, <1>2, InvokedSound DEF Present, MemorySound, AtInstruction, Running
<1>4. IsDelegate(t) /\ x \in Seq(U) /\ x # <<>> /\ x[1] \in U
  <2>1. IsDelegate(t) /\ 1 \in 1 .. Len(Ins.args)
    BY <1>1, <1>2, InvokeOperands
  <2>2. x \in Seq(U) /\ Len(x) = Len(Ins.args) /\ Len(x) \in Nat
    BY <1>1, <1>2, OperandsHeld
  <2> HIDE DEF x
  <2> QED BY <2>1, <2>2
<1>5. /\ cache' = cache
      /\ \/ \E c : Fail(c)
         \/ /\ x[1] # NullObject /\ IsRecord(x[1]) /\ heap[x[1][2]].type = t
            /\ frames' = [frames EXCEPT ![Depth].leaves = Leaves(x[1])]
            /\ UNCHANGED <<program, input, mode, status, arena, heap, pending, outcome>>
         \/ /\ x[1] # NullObject /\ IsRecord(x[1]) /\ heap[x[1][2]].type = t
            /\ EnterLeaf(x[1], Tail(x), Types[t].invoke)
  BY DEF InvokeDelegate
<1> HIDE DEF x, t
<1>6. CASE \E c : Fail(c)
  BY <1>1, <1>6, FailEnds, EndedKeeps
<1>7. CASE /\ x[1] # NullObject /\ IsRecord(x[1]) /\ heap[x[1][2]].type = t
           /\ frames' = [frames EXCEPT ![Depth].leaves = Leaves(x[1])]
           /\ UNCHANGED <<program, input, mode, status, arena, heap, pending, outcome>>
  <2> DEFINE fr == frames[Depth]
             to == [fr EXCEPT !.leaves = Leaves(x[1])]
  <2>1. Leaves(x[1]) \in Seq(Delegates(heap))
    BY <1>3, <1>4, <1>7, LeavesOfOperand
  <2>2. FrameSound(fr, heap, Len(arena))
    BY <1>1, <1>3, InvokedSound DEF Frame
  <2>3. Depth \in DOMAIN frames /\ DOMAIN frames = 1 .. Len(frames)
    <3>1. IsList(frames)
      BY <1>3 DEF StackSound
    <3> QED BY <1>3, <3>1, ListEntries DEF Depth, IsList
  <2>4. /\ frames' = [d \in DOMAIN frames |-> frames'[d]]
        /\ \A d \in DOMAIN frames : d # Depth => frames'[d] = frames[d]
        /\ frames'[Depth] = to
    BY <1>7, <2>3
  <2>5. /\ DOMAIN to = DOMAIN fr /\ to.leaves = Leaves(x[1])
        /\ to.fn = fr.fn /\ to.block = fr.block /\ to.base = fr.base /\ to.at = fr.at
    BY <2>2 DEF FrameSound
  <2> HIDE DEF fr, to
  <2>6. FrameSound(to, heap, Len(arena))
    BY <2>1, <2>2, <2>5 DEF FrameSound
  <2>7. StackSound(frames', heap, Len(arena)) /\ frames' # <<>>
    BY <1>3, <2>4, <2>6, TopReplaced DEF Depth
  <2>8. Grown(heap, heap')
    <3>1. Len(heap) \in Nat
      BY <1>3, ListEntries DEF HeapSound
    <3> QED BY <1>7, <3>1 DEF Grown
  <2>9. heap' = heap /\ arena' = arena /\ pending' = pending /\ status' = "run"
        /\ UNCHANGED <<program, input, mode, outcome>>
    BY <1>3, <1>7
  <2> QED BY <1>1, <1>2, <1>3, <1>5, <2>7, <2>8, <2>9, StepKeeps
<1>8. CASE /\ x[1] # NullObject /\ IsRecord(x[1]) /\ heap[x[1][2]].type = t
           /\ EnterLeaf(x[1], Tail(x), Types[t].invoke)
  <2>1. x[1][1] = "Ref" /\ x[1][2] \in 1 .. Len(heap) /\ ~heap[x[1][2]].array
    BY <1>3, <1>4, <1>8, ReferencesAre
  <2>2. heap[x[1][2]].call # NoId
    BY <1>3, <1>4, <1>8, <2>1 DEF HeapSound, ObjectSound
  <2>3. Tail(x) \in Seq(U)
    BY <1>4
  <2> QED BY <1>1, <1>2, <1>5, <1>8, <2>1, <2>2, <2>3, EnterLeafKeeps
<1> QED BY <1>5, <1>6, <1>7, <1>8

LEMMA InvokeNextLeafKeeps ==
  ASSUME InterpreterInv, InvokeNextLeaf
  PROVE  InterpreterInv'
<1> DEFINE leaf == Head(Frame.leaves)
           args == Ins.args
           x == [k \in DOMAIN args |-> IF args[k] = args[1] THEN leaf ELSE Reg(args[k])]
<1>1. Invoked /\ AtInstruction /\ AtInvoke /\ \A U : Present(U) => Standing(U)
  BY RunningStands DEF InvokeNextLeaf, AtInvoke
<1>2. PICK U : Present(U)
  BY <1>1, InvokedSound
<1>3. FrameSound(Frame, heap, Len(arena)) /\ Closed(heap, U)
  BY <1>1, <1>2, InvokedSound DEF Present, MemorySound, AtInstruction, Running
<1>4. leaf \in Delegates(heap)
  <2>1. \A S : \A s \in Seq(S) : s # <<>> => Head(s) \in S
    BY HeadTailProperties
  <2>2. Frame.leaves \in Seq(Delegates(heap)) /\ Frame.leaves # <<>>
    BY <1>3 DEF InvokeNextLeaf, FrameSound
  <2> QED BY <2>1, <2>2
<1>5. PICK i \in 1 .. Len(heap) : leaf = Ref(i) /\ heap[i].call # NoId
  BY <1>4 DEF Delegates
<1>6. leaf \in U /\ leaf[2] \in 1 .. Len(heap) /\ heap[leaf[2]].call # NoId
  <2>1. Ref(i) \in U
    BY <1>3 DEF Closed
  <2>2. Ref(i)[2] = i
    BY DEF Ref
  <2> HIDE DEF leaf
  <2> QED BY <1>5, <2>1, <2>2
<1>7. x \in Seq(U) /\ x # <<>>
  <2>1. 1 \in 1 .. Len(args)
    BY <1>1, <1>2, InvokeOperands
  <2>2. /\ Len(args) \in Nat /\ DOMAIN args = 1 .. Len(args)
        /\ \A k \in 1 .. Len(args) : Reg(args[k]) \in U
    BY <1>1, <1>2, OperandsHeld
  <2> HIDE DEF args, leaf
  <2>3. \A k \in 1 .. Len(args) : (IF args[k] = args[1] THEN leaf ELSE Reg(args[k])) \in U
    BY <1>6, <2>2
  <2>4. x = [k \in 1 .. Len(args) |-> IF args[k] = args[1] THEN leaf ELSE Reg(args[k])]
    BY <2>2
  <2>5. x \in Seq(U) /\ Len(x) = Len(args)
    BY <2>2, <2>3, <2>4
  <2> HIDE DEF x
  <2> QED BY <2>1, <2>2, <2>5
<1>8. EnterLeaf(leaf, Tail(x), Types[Ins.el[2]].invoke) /\ cache' = cache
  BY DEF InvokeNextLeaf
<1> HIDE DEF x, leaf
<1>9. Tail(x) \in Seq(U)
  BY <1>7
<1> QED BY <1>1, <1>2, <1>6, <1>8, <1>9, EnterLeafKeeps

LEMMA OutOfBudgetKeeps ==
  ASSUME InterpreterInv, OutOfBudget
  PROVE  InterpreterInv'
BY FailEnds, EndedKeeps DEF OutOfBudget, Invoked

LEMMA EnterMainKeeps ==
  ASSUME InterpreterInv, EnterMain
  PROVE  InterpreterInv'
<1>1. Invoked /\ cache' = cache /\ Enter(input.main, input.args, TRUE)
  BY DEF EnterMain, Invoked
<1>2. PICK U : Present(U)
  BY <1>1, InvokedSound
<1>3. CacheSound(cache', heap) /\ input.main \in DOMAIN Code /\ input.args \in Seq(U)
  BY <1>1, <1>2, InvokedSound DEF InputSound, Present
<1> QED BY <1>1, <1>2, <1>3, EnterKeeps DEF Present

(* ----------------------------- terminators ---------------------------- *)

LEMMA RegistersHeld ==
  ASSUME InterpreterInv, Invoked, frames # <<>>, NEW U, Present(U)
  PROVE  \A r \in DOMAIN Fun.regs : RegAt(Frame, r) \in 1 .. Len(arena) /\ Reg(r) \in U
<1>1. Decoded /\ FrameSound(Frame, heap, Len(arena)) /\ arena \in Seq(U)
  BY InvokedSound DEF Present, MemorySound
<1> QED BY <1>1, PlacesHeld DEF Fun, Reg

LEMMA TerminatorStands ==
  ASSUME InterpreterInv, AtTerminator
  PROVE  /\ Invoked /\ status = "run" /\ frames # <<>>
         /\ DecodedFunction(Fun) /\ DecodedBlock(Block)
         /\ DOMAIN Fun.blocks = 1 .. Len(Fun.blocks)
         /\ TerminatorOk(Fun, Frame.block)
<1>1. Invoked /\ status = "run" /\ frames # <<>>
  BY DEF AtTerminator, Running, Invoked
<1>2. Decoded /\ Links /\ FrameSound(Frame, heap, Len(arena))
  BY <1>1, InvokedSound
<1>3. /\ DecodedFunction(Fun) /\ FunctionOk(Fun) /\ DecodedBlock(Block)
      /\ DOMAIN Fun.blocks = 1 .. Len(Fun.blocks) /\ Frame.block \in DOMAIN Fun.blocks
  BY <1>2, FunctionsOk DEF Fun, Block
<1>4. TerminatorOk(Fun, Frame.block)
  BY <1>3 DEF FunctionOk
<1> QED BY <1>1, <1>3, <1>4

LEMMA FollowKeeps ==
  ASSUME InterpreterInv, AtTerminator, NEW edge, EdgeOk(Fun, Frame.block, edge), IsList(edge[2]),
         Follow(edge), cache' = cache
  PROVE  InterpreterInv'
<1> DEFINE params == Fun.blocks[edge[1]].params
           given == edge[2]
           n == Len(arena)
           scratch == RegAt(Frame, Len(Fun.regs))
           value(i) == IF \E k \in DOMAIN params : i = RegAt(Frame, params[k])
                       THEN Reg(given[CHOOSE k \in DOMAIN params : i = RegAt(Frame, params[k])])
                       ELSE IF i - scratch \in DOMAIN given THEN Reg(given[i - scratch])
                       ELSE arena[i]
           fr == frames[Depth]
           to == [fr EXCEPT !.block = edge[1], !.at = 1]
<1>1. /\ Invoked /\ status = "run" /\ frames # <<>>
      /\ DecodedFunction(Fun) /\ DOMAIN Fun.blocks = 1 .. Len(Fun.blocks)
  BY TerminatorStands
<1>2. PICK U : Present(U)
  BY <1>1, InvokedSound
<1>3. /\ Closed(heap, U) /\ HeapSound(heap, U) /\ arena \in Seq(U) /\ pending \in U
      /\ StackSound(frames, heap, n) /\ FrameSound(Frame, heap, n)
  BY <1>1, <1>2, InvokedSound DEF Present, MemorySound
<1>4. edge[1] \in DOMAIN Fun.blocks /\ Len(given) = Len(params)
      /\ \A k \in DOMAIN given : given[k] \in DOMAIN Fun.regs
  BY DEF EdgeOk, UsableAt
<1>5. DOMAIN params = DOMAIN given
  <2>1. IsList(params)
    BY <1>1, <1>4 DEF DecodedFunction, DecodedBlock
  <2> HIDE DEF params, given
  <2>2. DOMAIN params = 1 .. Len(params) /\ DOMAIN given = 1 .. Len(given)
    BY <2>1, ListEntries DEF given
  <2> QED BY <1>4, <2>2
<1>6. \A k \in DOMAIN given : Reg(given[k]) \in U
  BY <1>1, <1>2, <1>4, RegistersHeld
<1>7. n \in Nat /\ DOMAIN arena = 1 .. n /\ \A i \in 1 .. n : arena[i] \in U
  BY <1>3
<1>8. /\ arena' = [i \in DOMAIN arena |-> value(i)]
      /\ frames' = [frames EXCEPT ![Depth].block = edge[1], ![Depth].at = 1]
      /\ UNCHANGED <<program, input, mode, status, heap, pending, outcome>>
  BY DEF Follow
<1> HIDE DEF params, given, scratch, n
<1>9. ASSUME NEW i \in 1 .. n
      PROVE  value(i) \in U
  <2>1. CASE \E k \in DOMAIN params : i = RegAt(Frame, params[k])
    <3> DEFINE j == CHOOSE k \in DOMAIN params : i = RegAt(Frame, params[k])
    <3>1. j \in DOMAIN given
      BY <1>5, <2>1
    <3>2. value(i) = Reg(given[j])
      BY <2>1
    <3> HIDE DEF j
    <3> QED BY <1>6, <3>1, <3>2
  <2>2. CASE ~ \E k \in DOMAIN params : i = RegAt(Frame, params[k])
    <3>1. value(i) = IF i - scratch \in DOMAIN given THEN Reg(given[i - scratch]) ELSE arena[i]
      BY <2>2
    <3> HIDE DEF value
    <3> QED BY <1>6, <1>7, <3>1
  <2> QED BY <2>1, <2>2
<1> HIDE DEF value
<1>10. arena' \in Seq(U) /\ Len(arena') = n
  <2>1. arena' = [i \in 1 .. n |-> value(i)]
    BY <1>7, <1>8
  <2> QED BY <1>7, <1>9, <2>1
<1>11. Depth \in DOMAIN frames /\ DOMAIN frames = 1 .. Len(frames)
  <2>1. IsList(frames)
    BY <1>3 DEF StackSound
  <2> QED BY <1>1, <2>1, ListEntries DEF Depth, IsList
<1>12. FrameSound(fr, heap, n)
  BY <1>3 DEF Frame
<1>13. /\ frames' = [d \in DOMAIN frames |-> frames'[d]]
       /\ \A d \in DOMAIN frames : d # Depth => frames'[d] = frames[d]
       /\ frames'[Depth] = to
  BY <1>8, <1>11
<1>14. /\ DOMAIN to = DOMAIN fr /\ to.leaves = fr.leaves
       /\ to.fn = fr.fn /\ to.block = edge[1] /\ to.base = fr.base /\ to.at = 1
  BY <1>12 DEF FrameSound
<1>15. edge[1] \in 1 .. Len(Code[fr.fn].blocks)
  BY <1>1, <1>4 DEF Fun, Frame
<1> HIDE DEF fr, to
<1>16. FrameSound(to, heap, n)
  BY <1>12, <1>14, <1>15 DEF FrameSound
<1>17. StackSound(frames', heap, n) /\ frames' # <<>>
  BY <1>1, <1>3, <1>13, <1>16, TopReplaced DEF Depth
<1>18. Grown(heap, heap')
  <2>1. Len(heap) \in Nat
    BY <1>3, ListEntries DEF HeapSound
  <2> QED BY <1>8, <2>1 DEF Grown
<1>19. heap' = heap /\ pending' = pending /\ status' = "run" /\ UNCHANGED <<program, input, mode, outcome>>
  BY <1>1, <1>8
<1> QED BY <1>1, <1>2, <1>3, <1>10, <1>17, <1>18, <1>19, StepKeeps

LEMMA JumpOrBranchKeeps ==
  ASSUME InterpreterInv, JumpOrBranch
  PROVE  InterpreterInv'
<1>1. /\ AtTerminator /\ cache' = cache /\ Term.kind \in {"Jump", "Branch"}
      /\ \/ Term.kind = "Jump" /\ Follow(Term.to[1])
         \/ \E c : Fail(c)
         \/ Term.kind = "Branch" /\ \E k \in 1 .. 2 : Follow(Term.to[k])
  BY DEF JumpOrBranch
<1>2. Invoked /\ DecodedBlock(Block) /\ TerminatorOk(Fun, Frame.block)
  BY <1>1, TerminatorStands
<1>3. \A k \in 1 .. Len(Term.to) : IsList(Term.to[k][2])
  BY <1>2 DEF DecodedBlock, Term
<1>4. /\ Term.kind = "Jump" => Len(Term.to) = 1 /\ EdgeOk(Fun, Frame.block, Term.to[1])
      /\ Term.kind = "Branch" =>
          Len(Term.to) = 2 /\ \A k \in 1 .. 2 : EdgeOk(Fun, Frame.block, Term.to[k])
  BY <1>2 DEF TerminatorOk, Term, Block
<1>5. CASE Term.kind = "Jump" /\ Follow(Term.to[1])
  <2>1. IsList(Term.to[1][2])
    <3>1. 1 \in 1 .. 1
      OBVIOUS
    <3> QED BY <1>3, <1>4, <1>5, <3>1
  <2> QED BY <1>1, <1>4, <1>5, <2>1, FollowKeeps
<1>6. CASE \E c : Fail(c)
  BY <1>2, <1>6, FailEnds, EndedKeeps
<1>7. ASSUME Term.kind = "Branch", NEW k \in 1 .. 2, Follow(Term.to[k])
      PROVE  InterpreterInv'
  <2>1. EdgeOk(Fun, Frame.block, Term.to[k]) /\ IsList(Term.to[k][2])
    BY <1>3, <1>4, <1>7
  <2> QED BY <1>1, <1>7, <2>1, FollowKeeps
<1> QED BY <1>1, <1>5, <1>6, <1>7

\* The frame that is left gives way to its caller, which has its place in its function.
LEMMA CallerHeld ==
  ASSUME InterpreterInv, Invoked, frames # <<>>, Depth # 1
  PROVE  LET popped == SubSeq(frames, 1, Depth - 1) IN
         /\ StackSound(popped, heap, Len(arena)) /\ popped # <<>>
         /\ Len(popped) = Depth - 1 /\ popped[Depth - 1] = frames[Depth - 1]
         /\ FrameSound(frames[Depth - 1], heap, Len(arena))
         /\ DOMAIN popped = 1 .. (Depth - 1) /\ Depth - 1 \in 1 .. (Depth - 1)
<1> DEFINE popped == SubSeq(frames, 1, Depth - 1)
<1>1. StackSound(frames, heap, Len(arena)) /\ IsList(frames)
  BY InvokedSound DEF StackSound
<1>2. /\ Depth \in Nat \ {0} /\ popped \in Seq(Elements(frames)) /\ Len(popped) = Depth - 1
      /\ \A d \in 1 .. Depth - 1 : popped[d] = frames[d]
  BY <1>1, PoppedEntry DEF IsList, Depth
<1>3. IsList(popped)
  BY <1>2, ListsOf
<1>4. \A d \in 1 .. Depth - 1 : d \in 1 .. Len(frames)
  BY <1>2 DEF Depth
<1>5. \A d \in 1 .. Depth - 1 : FrameSound(popped[d], heap, Len(arena))
  BY <1>1, <1>2, <1>4 DEF StackSound
<1>6. Depth - 1 \in 1 .. (Depth - 1)
  BY <1>2
<1> HIDE DEF popped
<1>7. popped # <<>> /\ DOMAIN popped = 1 .. (Depth - 1)
  BY <1>2, <1>3, <1>6, ListEntries
<1> QED BY <1>2, <1>3, <1>5, <1>6, <1>7 DEF StackSound, popped

LEMMA ReturnKeeps ==
  ASSUME InterpreterInv, Return
  PROVE  InterpreterInv'
<1> DEFINE v == IF Term.kind = "ReturnVoid" THEN Unset ELSE Reg(Term.reg)
           cleared == Released(Frame)
           caller == frames[Depth - 1]
           ins == Code[caller.fn].blocks[caller.block].code[caller.at]
           popped == SubSeq(frames, 1, Depth - 1)
           next == [caller EXCEPT !.leaves = Tail(caller.leaves)]
           done == [caller EXCEPT !.at = caller.at + 1, !.leaves = <<>>]
<1>1. /\ AtTerminator /\ cache' = cache /\ Term.kind \in {"ReturnValue", "ReturnVoid"}
      /\ \/ \E c : Fail(c)
         \/ Finish("None", v)
         \/ /\ Depth # 1 /\ Len(caller.leaves) > 1
            /\ frames' = [popped EXCEPT ![Depth - 1].leaves = Tail(@)] /\ arena' = cleared
            /\ UNCHANGED <<program, input, mode, status, heap, pending, outcome>>
         \/ /\ Depth # 1
            /\ frames' = [popped EXCEPT ![Depth - 1].at = @ + 1, ![Depth - 1].leaves = <<>>]
            /\ arena' = Written(cleared, Target(caller, ins), v)
            /\ UNCHANGED <<program, input, mode, status, heap, pending, outcome>>
  BY DEF Return
<1>2. Invoked /\ status = "run" /\ frames # <<>> /\ TerminatorOk(Fun, Frame.block)
  BY <1>1, TerminatorStands
<1>3. PICK U : Present(U)
  BY <1>2, InvokedSound
<1>4. /\ Closed(heap, U) /\ HeapSound(heap, U) /\ arena \in Seq(U) /\ pending \in U /\ Unset \in U
  BY <1>3 DEF Present, MemorySound, Closed
<1>5. v \in U
  <2>1. CASE Term.kind = "ReturnVoid"
    BY <1>4, <2>1
  <2>2. CASE Term.kind = "ReturnValue"
    <3>1. UsableAt(Fun, Term.reg, Frame.block, Len(Fun.blocks[Frame.block].code) + 1)
      BY <1>2, <2>2 DEF TerminatorOk, Term, Block
    <3>2. Term.reg \in DOMAIN Fun.regs
      BY <3>1 DEF UsableAt
    <3>3. v = Reg(Term.reg)
      BY <2>2
    <3> QED BY <1>2, <1>3, <3>2, <3>3, RegistersHeld
  <2> QED BY <1>1, <2>1, <2>2
<1>6. cleared \in Seq(U) /\ Len(cleared) = Len(arena)
  BY <1>4, ReleasedHeld
<1>7. Grown(heap, heap)
  <2>1. Len(heap) \in Nat
    BY <1>4, ListEntries DEF HeapSound
  <2> QED BY <2>1 DEF Grown
<1> HIDE DEF v, cleared, ins
<1>8. CASE \E c : Fail(c)
  BY <1>2, <1>8, FailEnds, EndedKeeps
<1>9. CASE Finish("None", v)
  BY <1>2, <1>9, FinishEnds, EndedKeeps
<1>10. ASSUME Depth # 1, NEW to, FrameSound(to, heap, Len(arena)),
              frames' = [popped EXCEPT ![Depth - 1] = to],
              arena' \in Seq(U), Len(arena') = Len(arena),
              UNCHANGED <<program, input, mode, status, heap, pending, outcome>>
       PROVE  InterpreterInv'
  <2>1. /\ StackSound(popped, heap, Len(arena)) /\ popped # <<>>
        /\ Len(popped) = Depth - 1 /\ DOMAIN popped = 1 .. (Depth - 1) /\ Depth - 1 \in 1 .. (Depth - 1)
    BY <1>2, <1>10, CallerHeld
  <2> HIDE DEF popped
  <2>2. /\ frames' = [d \in DOMAIN popped |-> frames'[d]]
        /\ \A d \in DOMAIN popped : d # Depth - 1 => frames'[d] = popped[d]
        /\ frames'[Depth - 1] = to
    BY <1>10, <2>1
  <2>3. StackSound(frames', heap, Len(arena)) /\ frames' # <<>>
    BY <1>10, <2>1, <2>2, TopReplaced
  <2>4. /\ heap' = heap /\ pending' = pending /\ status' = "run"
        /\ UNCHANGED <<program, input, mode, outcome>>
    BY <1>2, <1>10
  <2> QED BY <1>1, <1>2, <1>3, <1>4, <1>7, <1>10, <2>3, <2>4, StepKeeps
<1>11. ASSUME Depth # 1
       PROVE  FrameSound(caller, heap, Len(arena)) /\ popped[Depth - 1] = caller /\ Depth - 1 \in DOMAIN popped
  BY <1>2, <1>11, CallerHeld
<1>12. CASE /\ Depth # 1 /\ Len(caller.leaves) > 1
            /\ frames' = [popped EXCEPT ![Depth - 1].leaves = Tail(@)] /\ arena' = cleared
            /\ UNCHANGED <<program, input, mode, status, heap, pending, outcome>>
  <2>1. FrameSound(caller, heap, Len(arena)) /\ popped[Depth - 1] = caller /\ Depth - 1 \in DOMAIN popped
    BY <1>11, <1>12
  <2> HIDE DEF popped, caller
  <2>2. /\ DOMAIN next = DOMAIN caller /\ next.leaves = Tail(caller.leaves)
        /\ next.fn = caller.fn /\ next.block = caller.block /\ next.base = caller.base /\ next.at = caller.at
    BY <2>1 DEF FrameSound
  <2>3. Tail(caller.leaves) \in Seq(Delegates(heap))
    <3>1. \A S : \A s \in Seq(S) : s # <<>> => Tail(s) \in Seq(S)
      BY HeadTailProperties
    <3>2. caller.leaves \in Seq(Delegates(heap)) /\ caller.leaves # <<>>
      BY <1>12, <2>1 DEF FrameSound
    <3> QED BY <3>1, <3>2
  <2>4. frames' = [popped EXCEPT ![Depth - 1] = next]
    BY <1>12, <2>1
  <2> HIDE DEF next
  <2>5. FrameSound(next, heap, Len(arena))
    BY <2>1, <2>2, <2>3 DEF FrameSound
  <2> QED BY <1>6, <1>10, <1>12, <2>4, <2>5
<1>13. CASE /\ Depth # 1
            /\ frames' = [popped EXCEPT ![Depth - 1].at = @ + 1, ![Depth - 1].leaves = <<>>]
            /\ arena' = Written(cleared, Target(caller, ins), v)
            /\ UNCHANGED <<program, input, mode, status, heap, pending, outcome>>
  <2>1. FrameSound(caller, heap, Len(arena)) /\ popped[Depth - 1] = caller /\ Depth - 1 \in DOMAIN popped
    BY <1>11, <1>13
  <2>2. arena' \in Seq(U) /\ Len(arena') = Len(arena)
    BY <1>5, <1>6, <1>13, WrittenHeld
  <2> HIDE DEF popped, caller
  <2>3. /\ DOMAIN done = DOMAIN caller /\ done.leaves = <<>>
        /\ done.fn = caller.fn /\ done.block = caller.block /\ done.base = caller.base
        /\ done.at = caller.at + 1
    BY <2>1 DEF FrameSound
  <2>4. caller.at + 1 \in Nat \ {0} /\ <<>> \in Seq(Delegates(heap))
    BY <2>1 DEF FrameSound
  <2>5. frames' = [popped EXCEPT ![Depth - 1] = done]
    BY <1>13, <2>1
  <2> HIDE DEF done
  <2>6. FrameSound(done, heap, Len(arena))
    BY <2>1, <2>3, <2>4 DEF FrameSound
  <2> QED BY <1>10, <1>13, <2>2, <2>5, <2>6
<1> QED BY <1>1, <1>8, <1>9, <1>12, <1>13

LEMMA ThrowKeeps ==
  ASSUME InterpreterInv, Throw
  PROVE  InterpreterInv'
<1>1. /\ AtTerminator /\ cache' = cache /\ Term.kind = "Throw"
      /\ \/ \E c : Fail(c)
         \/ /\ Reg(Term.reg)[1] = "Ref" /\ pending' = Reg(Term.reg) /\ status' = "unwind"
            /\ UNCHANGED <<program, input, mode, frames, arena, heap, outcome>>
  BY DEF Throw
<1>2. Invoked /\ frames # <<>> /\ TerminatorOk(Fun, Frame.block)
  BY <1>1, TerminatorStands
<1>3. PICK U : Present(U)
  BY <1>2, InvokedSound
<1>4. /\ Closed(heap, U) /\ HeapSound(heap, U) /\ arena \in Seq(U)
      /\ StackSound(frames, heap, Len(arena))
  BY <1>2, <1>3, InvokedSound DEF Present, MemorySound
<1>5. Reg(Term.reg) \in U
  <2>1. UsableAt(Fun, Term.reg, Frame.block, Len(Fun.blocks[Frame.block].code) + 1)
    BY <1>1, <1>2 DEF TerminatorOk, Term, Block
  <2>2. Term.reg \in DOMAIN Fun.regs
    BY <2>1 DEF UsableAt
  <2> QED BY <1>2, <1>3, <2>2, RegistersHeld
<1>6. CASE \E c : Fail(c)
  BY <1>2, <1>6, FailEnds, EndedKeeps
<1>7. CASE /\ Reg(Term.reg)[1] = "Ref" /\ pending' = Reg(Term.reg) /\ status' = "unwind"
           /\ UNCHANGED <<program, input, mode, frames, arena, heap, outcome>>
  <2>1. Grown(heap, heap)
    <3>1. Len(heap) \in Nat
      BY <1>4, ListEntries DEF HeapSound
    <3> QED BY <3>1 DEF Grown
  <2>2. /\ frames' = frames /\ heap' = heap /\ arena' = arena /\ UNCHANGED <<program, input, mode, outcome>>
        /\ pending' \in U /\ pending'[1] = "Ref" /\ status' = "unwind"
    BY <1>5, <1>7
  <2> QED BY <1>1, <1>2, <1>3, <1>4, <2>1, <2>2, StepKeeps
<1> QED BY <1>1, <1>6, <1>7

(* ------------------------------ exceptions ---------------------------- *)

\* The handlers of a frame that take the exception, and the frames that have one.
Takes(d, k) ==
    LET handlers == Code[frames[d].fn].handlers IN
    /\ frames[d].block \in handlers[k].protect
    /\ LET class == handlers[k].catch IN class = NoId \/ Assignable(heap[pending[2]].type, class)
TakersAt(d) == {k \in DOMAIN Code[frames[d].fn].handlers : Takes(d, k)}
Takers == {d \in 1 .. Depth : \E k \in DOMAIN Code[frames[d].fn].handlers : Takes(d, k)}
Deepest == MaxOf(Takers)
FirstAt(d) == CHOOSE k \in DOMAIN Code[frames[d].fn].handlers :
                Takes(d, k) /\ \A j \in 1 .. (k - 1) : ~Takes(d, j)
TargetAt(d) == Code[frames[d].fn].handlers[FirstAt(d)].target

LEMMA NearestIs ==
  /\ Takers = {} => Nearest = <<0, 0>>
  /\ \A d \in Takers : d = Deepest => Nearest = <<d, TargetAt(d)>>
<1>1. Nearest = IF Takers = {} THEN <<0, 0>> ELSE <<MaxOf(Takers), TargetAt(MaxOf(Takers))>>
  BY DEF Nearest, Takers, TargetAt, FirstAt, Takes
<1> QED BY <1>1 DEF Deepest

LEMMA TakingAt ==
  Taking(Frame) = TakersAt(Depth)
BY DEF Taking, TakersAt, Takes, HandlersOf, Frame

\* The first handler of the table that takes the exception.
LEMMA FirstTaking ==
  ASSUME InterpreterInv, Invoked, frames # <<>>, Taking(Frame) # {}
  PROVE  /\ FirstOf(Taking(Frame)) \in DOMAIN Fun.handlers
         /\ FirstOf(Taking(Frame)) \in TakersAt(Depth)
         /\ \A j \in TakersAt(Depth) : FirstOf(Taking(Frame)) <= j
         /\ DOMAIN Fun.handlers = 1 .. Len(Fun.handlers) /\ Len(Fun.handlers) \in Nat
<1> DEFINE S == TakersAt(Depth)
<1>1. DecodedFunction(Fun)
  BY InvokedSound, FunctionsOk DEF Fun
<1>2. DOMAIN Fun.handlers = 1 .. Len(Fun.handlers) /\ Len(Fun.handlers) \in Nat
  BY <1>1, ListEntries DEF DecodedFunction
<1>3. S \in SUBSET (1 .. Len(Fun.handlers)) /\ S # {}
  BY <1>2, TakingAt DEF TakersAt, Fun, Frame
<1> HIDE DEF S
<1>4. S \in SUBSET Int /\ IsFiniteSet(S)
  <2>1. 1 \in Int /\ Len(Fun.handlers) \in Int
    BY <1>2
  <2>2. S \in SUBSET Int
    BY <1>3
  <2> QED BY <1>3, <2>1, <2>2, PartsOfIntervals
<1>5. \E k \in S : \A j \in S : k <= j
  BY <1>3, <1>4, LeastIs
<1>6. FirstOf(S) \in S /\ \A j \in S : FirstOf(S) <= j
  BY <1>5 DEF FirstOf
<1>7. FirstOf(S) \in DOMAIN Fun.handlers
  BY <1>2, <1>3, <1>6
<1> QED BY <1>2, <1>6, <1>7, TakingAt DEF S

LEMMA UnwindKeeps ==
  ASSUME InterpreterInv, Unwind
  PROVE  InterpreterInv'
<1> DEFINE h == Fun.handlers[FirstOf(Taking(Frame))]
           fr == frames[Depth]
           to == [fr EXCEPT !.block = h.target, !.at = 1, !.leaves = <<>>]
           popped == SubSeq(frames, 1, Depth - 1)
<1>1. Invoked /\ frames # <<>> /\ status = "unwind" /\ cache' = cache /\ pending[1] = "Ref"
  BY DEF Unwind, Invoked, InterpreterInv, InvocationSound
<1>2. PICK U : Present(U)
  BY <1>1, InvokedSound
<1>3. /\ Closed(heap, U) /\ HeapSound(heap, U) /\ arena \in Seq(U) /\ pending \in U /\ Unset \in U
      /\ StackSound(frames, heap, Len(arena)) /\ FrameSound(fr, heap, Len(arena))
      /\ Decoded /\ Links
  BY <1>1, <1>2, InvokedSound DEF Present, MemorySound, Closed, Frame
<1>4. Grown(heap, heap)
  <2>1. Len(heap) \in Nat
    BY <1>3, ListEntries DEF HeapSound
  <2> QED BY <2>1 DEF Grown
<1>5. \/ /\ Taking(Frame) # {}
         /\ arena' = Written(arena, LocalAt(Frame, h.local), pending)
         /\ pending' = Unset
         /\ frames' = [frames EXCEPT ![Depth].block = h.target, ![Depth].at = 1, ![Depth].leaves = <<>>]
         /\ status' = "run"
         /\ UNCHANGED <<program, input, mode, heap, outcome>>
      \/ Finish("ScriptException", Unset)
      \/ /\ Depth # 1 /\ frames' = popped /\ arena' = Released(Frame)
         /\ UNCHANGED <<program, input, mode, status, heap, pending, outcome>>
  BY DEF Unwind
<1>6. CASE Finish("ScriptException", Unset)
  BY <1>1, <1>6, FinishEnds, EndedKeeps
<1>7. CASE /\ Depth # 1 /\ frames' = popped /\ arena' = Released(Frame)
           /\ UNCHANGED <<program, input, mode, status, heap, pending, outcome>>
  <2>1. StackSound(popped, heap, Len(arena)) /\ popped # <<>>
    BY <1>1, <1>7, CallerHeld
  <2>2. arena' \in Seq(U) /\ Len(arena') = Len(arena)
    BY <1>3, <1>7, ReleasedHeld
  <2> HIDE DEF popped
  <2>3. /\ frames' = popped /\ heap' = heap /\ pending' = pending /\ status' = "unwind"
        /\ UNCHANGED <<program, input, mode, outcome>>
    BY <1>1, <1>7
  <2> QED BY <1>1, <1>2, <1>3, <1>4, <2>1, <2>2, <2>3, StepKeeps
<1>8. CASE /\ Taking(Frame) # {}
           /\ arena' = Written(arena, LocalAt(Frame, h.local), pending)
           /\ pending' = Unset
           /\ frames' = [frames EXCEPT ![Depth].block = h.target, ![Depth].at = 1, ![Depth].leaves = <<>>]
           /\ status' = "run"
           /\ UNCHANGED <<program, input, mode, heap, outcome>>
  <2>1. FirstOf(Taking(Frame)) \in DOMAIN Fun.handlers
    BY <1>1, <1>3, <1>8, FirstTaking
  <2>2. h.target \in 1 .. Len(Code[fr.fn].blocks)
    <3>1. FunctionOk(Fun) /\ DOMAIN Fun.blocks = 1 .. Len(Fun.blocks)
      BY <1>3, FunctionsOk DEF Fun, Frame
    <3>2. HandlersOk(Fun)
      BY <3>1 DEF FunctionOk
    <3> DEFINE n == FirstOf(Taking(Frame))
    <3> HIDE DEF n
    <3>3. Fun.handlers[n].target \in DOMAIN Fun.blocks
      BY <2>1, <3>2 DEF HandlersOk, n
    <3> QED BY <3>1, <3>3 DEF Fun, Frame, n
  <2>3. arena' \in Seq(U) /\ Len(arena') = Len(arena)
    BY <1>3, <1>8, WrittenHeld
  <2>4. Depth \in DOMAIN frames /\ DOMAIN frames = 1 .. Len(frames)
    <3>1. IsList(frames)
      BY <1>3 DEF StackSound
    <3> QED BY <1>1, <3>1, ListEntries DEF Depth, IsList
  <2> HIDE DEF h
  <2>5. /\ frames' = [d \in DOMAIN frames |-> frames'[d]]
        /\ \A d \in DOMAIN frames : d # Depth => frames'[d] = frames[d]
        /\ frames'[Depth] = to
    BY <1>8, <2>4
  <2>6. /\ DOMAIN to = DOMAIN fr /\ to.leaves = <<>>
        /\ to.fn = fr.fn /\ to.block = h.target /\ to.base = fr.base /\ to.at = 1
    BY <1>3 DEF FrameSound
  <2>7. <<>> \in Seq(Delegates(heap))
    OBVIOUS
  <2> HIDE DEF to, fr
  <2>8. FrameSound(to, heap, Len(arena))
    BY <1>3, <2>2, <2>6, <2>7 DEF FrameSound
  <2>9. StackSound(frames', heap, Len(arena)) /\ frames' # <<>>
    BY <1>1, <1>3, <2>5, <2>8, TopReplaced DEF Depth
  <2>10. heap' = heap /\ pending' = Unset /\ status' = "run" /\ UNCHANGED <<program, input, mode, outcome>>
    BY <1>8
  <2> QED BY <1>1, <1>2, <1>3, <1>4, <2>3, <2>9, <2>10, StepKeeps
<1> QED BY <1>5, <1>6, <1>7, <1>8

(* ------------------------------ the invariant ------------------------- *)

LEMMA LinkKeeps ==
  ASSUME InterpreterInv, Link
  PROVE  InterpreterInv'
<1>1. /\ program' = program /\ frames' = frames /\ mode' = mode /\ outcome' = outcome
      /\ status = "link" /\ status' \in {"start", "rejected"} /\ (status' = "start" => Links)
  BY DEF Link
<1>2. /\ Decoded /\ \A i \in Inputs(program) : InputSound(i)
      /\ DOMAIN outcome = {Tiers[k] : k \in DOMAIN Tiers} /\ mode \in DOMAIN outcome
      /\ frames = <<>> /\ mode = "traced"
  BY <1>1 DEF InterpreterInv, Invoked
<1>3. /\ Decoded' /\ (\A i \in Inputs(program) : InputSound(i))' /\ (Links => Links')
  BY <1>1, <1>2, ProgramKept
<1> QED BY <1>1, <1>2, <1>3 DEF InterpreterInv, Invoked

LEMMA StartKeeps ==
  ASSUME InterpreterInv, Start
  PROVE  InterpreterInv'
<1>1. /\ program' = program /\ frames' = frames /\ mode' = mode /\ outcome' = outcome
      /\ status = "start" /\ status' = "enter"
      /\ input' \in (IF mode = "traced" THEN Inputs(program) ELSE {input})
      /\ arena' = <<>> /\ heap' = <<>> /\ pending' = Unset /\ cache' = [i \in {} |-> 0]
  BY DEF Start
<1>2. /\ Decoded /\ \A i \in Inputs(program) : InputSound(i)
      /\ DOMAIN outcome = {Tiers[k] : k \in DOMAIN Tiers} /\ mode \in DOMAIN outcome
      /\ frames = <<>> /\ Links /\ (mode = "traced" \/ InputSound(input))
  BY <1>1 DEF InterpreterInv, Invoked
<1>3. /\ Decoded' /\ (\A i \in Inputs(program) : InputSound(i))' /\ Links'
  BY <1>1, <1>2, ProgramKept
<1>4. InputSound(input')
  BY <1>1, <1>2
<1>5. PICK U : Closed(<<>>, U) /\ input'.args \in Seq(U) /\ input'.host \in U
  BY <1>4 DEF InputSound
<1>6. /\ MemorySound(<<>>, <<>>, U) /\ StackSound(<<>>, <<>>, 0) /\ CacheSound(cache', <<>>)
      /\ Unset \in U /\ Len(<<>>) = 0
  <2>1. IsList(<<>>) /\ 1 .. Len(<<>>) = {} /\ <<>> \in Seq(U) /\ Len(<<>>) = 0
    BY DEF IsList
  <2>2. DOMAIN cache' = {}
    BY <1>1
  <2> QED BY <1>5, <2>1, <2>2 DEF MemorySound, HeapSound, StackSound, CacheSound, Closed
<1>7. InputSound(input)'
  BY <1>1, <1>4, ProgramKept
<1>8. MemorySound(heap, arena, U)' /\ StackSound(frames, heap, Len(arena))' /\ CacheSound(cache, heap)'
  BY <1>1, <1>2, <1>6, ProgramKept
<1>9. InvocationSound'
  BY <1>1, <1>2, <1>3, <1>5, <1>6, <1>7, <1>8 DEF InvocationSound
<1> QED BY <1>1, <1>2, <1>3, <1>9 DEF InterpreterInv, Invoked

LEMMA InterpreterStarts ==
  ASSUME InterpreterInit
  PROVE  InterpreterInv
<1>1. DOMAIN outcome = {Tiers[k] : k \in DOMAIN Tiers} /\ mode = Tiers[1] /\ frames = <<>>
      /\ status = "link"
  BY DEF InterpreterInit, Idle, Unstarted
<1>2. mode = "traced" /\ 1 \in DOMAIN Tiers
  <2>1. Len(Tiers) \in Nat \ {0} /\ DOMAIN Tiers = 1 .. Len(Tiers)
    BY TiersAssumption
  <2> QED BY <1>1, <2>1, TiersAssumption
<1> QED BY <1>1, <1>2 DEF InterpreterInit, InterpreterInv, Invoked

LEMMA InterpreterSteps ==
  ASSUME InterpreterInv, [InterpreterNext]_vars
  PROVE  InterpreterInv'
<1>1. CASE Link
  BY <1>1, LinkKeeps
<1>2. CASE Start
  BY <1>2, StartKeeps
<1>3. CASE Interpret
  BY <1>3, EnterMainKeeps, OutOfBudgetKeeps, ExecuteKeeps, ExecuteFusedKeeps, CallDirectKeeps,
     CallDispatchedKeeps, CallExternalKeeps, InvokeDelegateKeeps, InvokeNextLeafKeeps,
     JumpOrBranchKeeps, ReturnKeeps, ThrowKeeps, UnwindKeeps DEF Interpret
<1>4. CASE UNCHANGED vars
  <2>1. /\ program' = program /\ frames' = frames /\ mode' = mode /\ outcome' = outcome
        /\ status' = status /\ input' = input /\ arena' = arena /\ heap' = heap
        /\ pending' = pending /\ cache' = cache
    BY <1>4 DEF vars
  <2>2. Invoked => InvocationSound'
    BY <2>1, ProgramKept DEF InvocationSound, InterpreterInv
  <2>3. Decoded' = Decoded /\ Links' = Links /\ (\A i \in Inputs(program) : InputSound(i))' = (\A i \in Inputs(program) : InputSound(i))
        /\ InputSound(input)' = InputSound(input)
    BY <2>1, ProgramKept
  <2> QED BY <2>1, <2>2, <2>3 DEF InterpreterInv, Invoked
<1> QED BY <1>1, <1>2, <1>3, <1>4 DEF InterpreterNext

\* Every value a program can reach refers to an object that is there, every frame has its room,
\* and what is cached is what its site dispatches to, from the link of the module on.
THEOREM InterpreterInvariance == InterpreterSpec => []InterpreterInv
<1>1. InterpreterInit => InterpreterInv
  BY InterpreterStarts
<1>2. InterpreterInv /\ [InterpreterNext]_vars => InterpreterInv'
  BY InterpreterSteps
<1> QED BY <1>1, <1>2, PTL DEF InterpreterSpec

\* A call that hits the inline cache enters the function that its own reference dispatches to on
\* the receiver at hand, whatever sites share the entry and whatever receivers passed before.
THEOREM CachesAreExact == InterpreterSpec => []CacheExact
<1>1. InterpreterInv => CacheExact
  <2> SUFFICES ASSUME InterpreterInv, AtCall, Callee.mode # "direct", IsRecord(Reg(Ins.args[1])),
                      Hit(Reg(Ins.args[1]))
               PROVE  cache[CacheIndex].target
                        = Dispatched(Callee, heap[Reg(Ins.args[1])[2]].type)
    BY DEF CacheExact
  <2> DEFINE receiver == Reg(Ins.args[1])
             entry == cache[CacheIndex]
  <2>1. Invoked
    BY DEF AtCall, AtInstruction, Running, Invoked
  <2>2. EntrySound(entry, heap)
    BY <2>1, InvokedSound DEF CacheSound, Hit
  <2>3. CallOf(Site) = Callee
    <3>1. Site[1] = Frame.fn /\ Site[2] = Frame.block /\ Site[3] = Frame.at
      BY DEF Site
    <3> QED BY <3>1 DEF CallOf, Callee, Ins, Block, Fun
  <2>4. entry.site = Site /\ (entry.receiver = receiver \/ entry.type = heap[receiver[2]].type)
    BY DEF Hit
  <2> HIDE DEF entry, receiver
  <2>5. entry.type = heap[receiver[2]].type
    BY <2>2, <2>4 DEF EntrySound
  <2>6. entry.target = Dispatched(Callee, heap[receiver[2]].type)
    BY <2>2, <2>3, <2>4, <2>5 DEF EntrySound
  <2> QED BY <2>6 DEF entry, receiver
<1> QED BY <1>1, InterpreterInvariance, PTL

\* One step of unwinding, by where the innermost frame that takes the exception is.
LEMMA UnwindStep ==
  ASSUME InterpreterInv, Unwind
  PROVE  \/ status' = "unwind" /\ Nearest' = Nearest
         \/ status' = "run" /\ Nearest = <<Len(frames'), frames'[Len(frames')].block>>
         \/ outcome'[mode].code = "ScriptException" /\ Nearest = <<0, 0>>
<1> DEFINE n == FirstOf(Taking(Frame))
           popped == SubSeq(frames, 1, Depth - 1)
<1>1. Invoked /\ frames # <<>> /\ status = "unwind"
  BY DEF Unwind, Invoked, InterpreterInv, InvocationSound
<1>2. Depth \in Nat \ {0} /\ IsList(frames) /\ DOMAIN frames = 1 .. Depth
  <2>1. IsList(frames)
    BY <1>1, InvokedSound DEF StackSound
  <2> QED BY <1>1, <2>1, ListEntries DEF Depth, IsList
<1>3. Takers \in SUBSET (0 .. Depth) /\ (Takers # {} => Deepest \in Takers /\ \A y \in Takers : Deepest >= y)
  <2>1. Takers \in SUBSET (0 .. Depth)
    BY <1>2 DEF Takers
  <2> QED BY <1>2, <2>1, GreatestOf DEF Deepest
<1>4. \/ /\ Taking(Frame) # {} /\ status' = "run"
         /\ frames' = [frames EXCEPT ![Depth].block = Fun.handlers[n].target, ![Depth].at = 1,
                                     ![Depth].leaves = <<>>]
      \/ Taking(Frame) = {} /\ Depth = 1 /\ Finish("ScriptException", Unset)
      \/ /\ Taking(Frame) = {} /\ Depth # 1 /\ frames' = popped
         /\ UNCHANGED <<program, status, heap, pending>>
  BY DEF Unwind
<1>5. Depth \in Takers <=> Taking(Frame) # {}
  BY <1>2, TakingAt DEF TakersAt, Takers
<1>6. CASE /\ Taking(Frame) # {} /\ status' = "run"
           /\ frames' = [frames EXCEPT ![Depth].block = Fun.handlers[n].target, ![Depth].at = 1,
                                       ![Depth].leaves = <<>>]
  <2>1. Depth \in Takers /\ Depth = Deepest
    <3>1. Depth \in Takers
      BY <1>5, <1>6
    <3>2. Deepest \in 0 .. Depth /\ Deepest >= Depth
      BY <1>3, <3>1
    <3> QED BY <1>2, <3>1, <3>2
  <2>2. FirstAt(Depth) = n
    <3> DEFINE m == Len(Fun.handlers)
               good(k) == Takes(Depth, k) /\ \A j \in 1 .. (k - 1) : ~Takes(Depth, j)
    <3>1. /\ n \in 1 .. m /\ Takes(Depth, n) /\ m \in Nat /\ DOMAIN Fun.handlers = 1 .. m
          /\ \A j \in 1 .. m : Takes(Depth, j) => n <= j
      BY <1>1, <1>6, FirstTaking DEF TakersAt, Fun, Frame
    <3> HIDE DEF n, m
    <3>2. \A j \in 1 .. (n - 1) : j \in 1 .. m /\ ~(n <= j)
      BY <3>1
    <3>3. good(n)
      BY <3>1, <3>2
    <3>4. ASSUME NEW k \in 1 .. m, good(k)
          PROVE  k = n
      <4>1. n <= k
        BY <3>1, <3>4
      <4>2. ~(n \in 1 .. (k - 1))
        BY <3>1, <3>4
      <4> QED BY <3>1, <4>1, <4>2
    <3>5. FirstAt(Depth) = CHOOSE k \in 1 .. m : good(k)
      BY <3>1 DEF FirstAt, Fun, Frame
    <3> HIDE DEF good
    <3> QED BY <3>1, <3>3, <3>4, <3>5
  <2>3. Nearest = <<Depth, Fun.handlers[n].target>>
    <3>1. Nearest = <<Depth, TargetAt(Depth)>>
      BY <2>1, NearestIs
    <3>2. TargetAt(Depth) = Fun.handlers[n].target
      BY <2>2 DEF TargetAt, Fun, Frame
    <3> QED BY <3>1, <3>2
  <2>4. Len(frames') = Depth /\ frames'[Depth].block = Fun.handlers[n].target
    <3>1. FrameSound(frames[Depth], heap, Len(arena))
      BY <1>1, InvokedSound DEF Frame
    <3>2. DOMAIN frames[Depth] = {"fn", "block", "at", "base", "leaves"}
      BY <3>1 DEF FrameSound
    <3> HIDE DEF n
    <3>3. frames' = [d \in 1 .. Depth |-> frames'[d]]
      BY <1>2, <1>6
    <3>4. frames'[Depth].block = Fun.handlers[n].target
      BY <1>2, <1>6, <3>2
    <3>5. Len(frames') = Depth
      BY <1>2, <3>3
    <3> QED BY <3>4, <3>5
  <2> HIDE DEF n
  <2> QED BY <1>6, <2>3, <2>4
<1>7. CASE Taking(Frame) = {} /\ Depth = 1 /\ Finish("ScriptException", Unset)
  <2>1. Takers = {}
    <3>1. \A d \in 1 .. 1 : d = 1
      OBVIOUS
    <3>2. Takers \subseteq 1 .. Depth
      BY DEF Takers
    <3> QED BY <1>5, <1>7, <3>1, <3>2
  <2>2. outcome'[mode].code = "ScriptException"
    <3>1. mode \in DOMAIN outcome
      BY DEF InterpreterInv
    <3>2. outcome' = [outcome EXCEPT ![mode] = [code |-> "ScriptException", value |-> Unset, executed |-> executed',
                                               heap |-> <<>>]]
      BY <1>7 DEF Finish
    <3> QED BY <3>1, <3>2
  <2> QED BY <2>1, <2>2, NearestIs
<1>8. CASE /\ Taking(Frame) = {} /\ Depth # 1 /\ frames' = popped
           /\ UNCHANGED <<program, status, heap, pending>>
  <2>1. Len(popped) = Depth - 1 /\ \A d \in 1 .. Depth - 1 : popped[d] = frames[d]
    <3>1. frames \in Seq(Elements(frames))
      BY <1>2 DEF IsList
    <3> QED BY <1>1, <3>1, PoppedEntry DEF Depth
  <2>2. Depth' = Depth - 1 /\ \A d \in 1 .. Depth - 1 : frames'[d] = frames[d]
    <3> HIDE DEF popped
    <3>1. Depth' = Len(frames')
      BY DEF Depth
    <3> QED BY <1>8, <2>1, <3>1
  <2>3. program' = program /\ pending' = pending /\ heap' = heap
    BY <1>8
  <2>4. ASSUME NEW d \in 1 .. Depth - 1
        PROVE  /\ Code'[frames'[d].fn] = Code[frames[d].fn]
               /\ \A k : Takes(d, k)' = Takes(d, k)
    <3>1. frames'[d] = frames[d]
      BY <2>2
    <3> QED BY <2>3, <3>1 DEF Takes, Assignable, Ancestors, Ancestry, Types, Code
  <2>5. \A d \in 1 .. Depth - 1 : TargetAt(d)' = TargetAt(d)
    BY <2>4 DEF TargetAt, FirstAt
  <2>6. Takers' = Takers
    <3>1. \A d \in 1 .. Depth : d \in 1 .. Depth - 1 \/ d = Depth
      BY <1>2
    <3>2. \A d \in 1 .. Depth - 1 : d \in 1 .. Depth
      BY <1>2
    <3>3. \A d \in 1 .. Depth - 1 : d \in Takers' <=> d \in Takers
      BY <2>2, <2>4, <3>2 DEF Takers
    <3>4. Takers \subseteq 1 .. Depth /\ Takers' \subseteq 1 .. Depth'
      BY DEF Takers
    <3>5. Depth \notin Takers
      BY <1>5, <1>8
    <3> QED BY <2>2, <3>1, <3>3, <3>4, <3>5
  <2>7. Deepest' = Deepest
    BY <2>6 DEF Deepest
  <2>8. (/\ Takers = {} => Nearest = <<0, 0>>
         /\ \A d \in Takers : d = Deepest => Nearest = <<d, TargetAt(d)>>)'
    BY NearestIs, PTL
  <2>9. Nearest' = Nearest
    <3>1. CASE Takers = {}
      BY <2>6, <2>8, <3>1, NearestIs
    <3>2. CASE Takers # {}
      <4>1. Deepest \in Takers /\ Deepest \in 1 .. Depth /\ Deepest # Depth
        BY <1>3, <1>5, <1>8, <3>2 DEF Takers
      <4>2. Deepest \in 1 .. Depth - 1
        BY <1>2, <4>1
      <4>3. PICK d \in Takers : d = Deepest /\ d \in 1 .. Depth - 1
        BY <4>1, <4>2
      <4>4. Nearest = <<d, TargetAt(d)>>
        BY <4>3, NearestIs
      <4>5. Nearest' = <<d, TargetAt(d)'>>
        BY <2>6, <2>7, <2>8, <4>3
      <4> QED BY <2>5, <4>3, <4>4, <4>5
    <3> QED BY <3>1, <3>2
  <2> QED BY <1>1, <1>8, <2>9
<1> QED BY <1>4, <1>6, <1>7, <1>8

\* Unwinding one frame at a time ends in the innermost frame that has a handler and there at the
\* first in the table, and as an unhandled exception only when no frame has one.
THEOREM ExceptionsReachTheNearest == InterpreterSpec => UnwindsToNearest
<1>1. ASSUME InterpreterInv, [InterpreterNext]_vars
      PROVE  [status = "unwind" =>
                \/ status' = "unwind" /\ Nearest' = Nearest
                \/ status' \in {"run", "native"} /\ Nearest = <<Len(frames'), frames'[Len(frames')].block>>
                \/ outcome'[mode].code = "ScriptException" /\ Nearest = <<0, 0>>]_vars
  <2> SUFFICES ASSUME InterpreterNext, status = "unwind"
               PROVE  \/ status' = "unwind" /\ Nearest' = Nearest
                      \/ status' = "run" /\ Nearest = <<Len(frames'), frames'[Len(frames')].block>>
                      \/ outcome'[mode].code = "ScriptException" /\ Nearest = <<0, 0>>
    BY <1>1
  <2>1. Unwind
    BY DEF InterpreterNext, Link, Start, Interpret, EnterMain, OutOfBudget, Execute, ExecuteFused,
       CallDirect, CallDispatched, CallExternal, InvokeDelegate, InvokeNextLeaf, JumpOrBranch,
       Return, Throw, AtCall, AtInvoke, AtInstruction, AtTerminator, Running
  <2> QED BY <1>1, <2>1, UnwindStep
<1> QED BY <1>1, InterpreterInvariance, PTL DEF InterpreterSpec, UnwindsToNearest

=============================================================================
