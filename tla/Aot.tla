--------------------------------- MODULE Aot ---------------------------------
(***************************************************************************)
(* The ahead-of-time compiler (AotCpp.cpp) and the runtime its C++ calls   *)
(* (AotRuntime.cpp), as tiers after the interpreter's: "aot" counts one    *)
(* instruction at a time, "batch" is the same program with fast accounting *)
(* and "jit" (Jit.cpp) is what the optimizer makes of it, with fast        *)
(* accounting.  Functions over Int and Bool alone get typed C++, in which  *)
(* arithmetic the range analysis proves safe is not checked and fast       *)
(* accounting counts instructions in batches.                              *)
(***************************************************************************)
EXTENDS Interpreter, Optimizer, MirVerifier

CONSTANT WideningLimit      \* updates of a range before it is widened: 8

VARIABLE jitted             \* what the optimizer makes of the program; the jit tier swaps them

avars == <<vars, jitted>>

NativeTiers == {"aot", "batch", "jit"}

(* --------------------- which functions are typed ---------------------- *)

TypedPrims == {"Int", "Bool"}
TypedOps == {"LoadParameter", "ConstantInt", "ConstantBool", "LoadLocal", "StoreLocal"}
            \cup IntTests \cup IntOps \cup {"NegateInt", "LogicalNot", "Equal", "NotEqual"}

\* supportsTypedPrimitiveAot
Typed(f) ==
    /\ f.handlers = <<>> /\ f.ret[1] \in TypedPrims \cup {"Void"}
    /\ \A k \in DOMAIN f.params : f.params[k][1] \in TypedPrims
    /\ \A k \in DOMAIN f.locals : f.locals[k][1] \in TypedPrims
    /\ \A r \in DOMAIN f.regs : f.regs[r][1] \in TypedPrims
    /\ \A ins \in AllCode(f) :
          /\ ins.op \in TypedOps
          /\ ins.op \in IntOps \cup {"NegateInt"} => ins.checked
          /\ ins.op = "LogicalNot" => RegType(f, ins.args[1])[1] = "Bool"
          /\ ins.op \in {"Equal", "NotEqual"} => RegType(f, ins.args[1])[1] = RegType(f, ins.args[2])[1]
    /\ \A b \in DOMAIN f.blocks : f.blocks[b].term.kind # "Throw"

(* --------------------------- range analysis --------------------------- *)

Full == <<IntMin, IntMax>>
Least(S) == CHOOSE x \in S : \A y \in S : x <= y
Hull(S) == <<Least(S), MaxOf(S)>>

\* The bounds a range may be widened to: around every constant, and zero.
Thresholds(f) ==
    {IntMin, 0, IntMax} \cup
    UNION {{ins.idx - 1, ins.idx, ins.idx + 1} \cap (IntMin..IntMax) :
           ins \in {i \in AllCode(f) : i.op = "ConstantInt"}}

NoOrigin == <<0, 0>>

\* The exact results over all values of the operand ranges.
Results(op, a, b) ==
    CASE op = "AddInt"      -> <<a[1] + b[1], a[2] + b[2]>>
      [] op = "SubtractInt" -> <<a[1] - b[2], a[2] - b[1]>>
      [] op = "MultiplyInt" -> Hull({a[1] * b[1], a[1] * b[2], a[2] * b[1], a[2] * b[2]})
      [] op = "NegateInt"   -> <<-a[2], -a[1]>>

RangedOps == {"AddInt", "SubtractInt", "MultiplyInt", "NegateInt"}

\* One instruction of a block: ranges of locals and registers, the local and
\* its version a register was loaded from, and what was found of arithmetic.
RangeOne(f, s, ins) ==
    LET x == [k \in DOMAIN ins.args |-> s.values[ins.args[k]]]
        set(range, origin) == [s EXCEPT !.values[ins.res] = range, !.origins[ins.res] = origin]
    IN  IF ins.op = "ConstantInt" THEN set(<<ins.idx, ins.idx>>, NoOrigin)
        ELSE IF ins.op = "LoadLocal" THEN set(s.locals[ins.idx], <<ins.idx, s.versions[ins.idx]>>)
        ELSE IF ins.op = "StoreLocal"
             THEN [s EXCEPT !.locals[ins.idx] = x[1], !.versions[ins.idx] = @ + 1]
        ELSE IF ins.op \in RangedOps
             THEN LET r == Results(ins.op, x[1], IF Len(x) = 2 THEN x[2] ELSE x[1])
                      safe == InRange(r[1]) /\ InRange(r[2])
                  IN  [set(IF safe THEN r ELSE Full, NoOrigin) EXCEPT
                         !.evaluated = @ \cup {ins.res}, !.unsafe = IF safe THEN @ ELSE @ \cup {ins.res}]
        ELSE IF ins.op \in IntTests
             THEN [s EXCEPT !.tests = (ins.res :> [op |-> ins.op, left |-> x[1], right |-> x[2],
                                                   from |-> <<s.origins[ins.args[1]], s.origins[ins.args[2]]>>]) @@ @]
        ELSE s

RECURSIVE RangeBlock(_, _, _)
RangeBlock(f, s, code) == IF code = <<>> THEN s ELSE RangeBlock(f, RangeOne(f, s, Head(code)), Tail(code))

\* What a comparison says of its operands when it holds: the greatest left and
\* least right values, or the least left and greatest right ones.
Bounds(op, holds, left, right) ==
    LET less == (op \in {"LessInt", "LessOrEqualInt"}) = holds
        gap == IF (op \in {"LessInt", "GreaterInt"}) = holds THEN 1 ELSE 0
    IN  IF less THEN <<<<IntMin - 1, right[2] - gap>>, <<left[1] + gap, IntMax + 1>>>>
        ELSE <<<<right[1] + gap, IntMax + 1>>, <<IntMin - 1, left[2] - gap>>>>

\* Fault: a comparison narrows a local that has been written since.
NarrowedStale(s, origin, range) ==
    IF origin = NoOrigin THEN s
    ELSE [s EXCEPT !.locals[origin[1]] = <<MaxOf({@[1], range[1]}), Least({@[2], range[2]})>>]

\* A local is narrowed only while it still holds the value that was compared.
Narrowed(s, origin, range) ==
    IF origin = NoOrigin \/ s.versions[origin[1]] # origin[2] THEN s
    ELSE [s EXCEPT !.locals[origin[1]] = <<MaxOf({@[1], range[1]}), Least({@[2], range[2]})>>]

Refined(s, test, holds) ==
    LET bounds == Bounds(test.op, holds, test.left, test.right) IN
    Narrowed(Narrowed(s, test.from[1], bounds[1]), test.from[2], bounds[2])
Feasible(s) == \A l \in DOMAIN s.locals : s.locals[l][1] <= s.locals[l][2]

\* The edges the analysis follows from a block, with the locals on each.
RangeEdges(f, b, s) ==
    LET t == f.blocks[b].term
        plain == [k \in DOMAIN t.to |-> <<t.to[k][1], s>>]
    IN  IF t.kind = "Branch" /\ t.reg \in DOMAIN s.tests
        THEN LET both == <<<<t.to[1][1], Refined(s, s.tests[t.reg], TRUE)>>,
                           <<t.to[2][1], Refined(s, s.tests[t.reg], FALSE)>>>>
                 feasible(edge) == Feasible(edge[2])
             IN  SelectSeq(both, feasible)
        ELSE plain

\* The entry range of one local after one more edge; the bound that moved is
\* widened to the next threshold once it has moved too often.
Merged(f, old, new, lower, upper) ==
    LET low == Least({old[1], new[1]})  high == MaxOf({old[2], new[2]})
        below == {t \in Thresholds(f) : t <= low}  above == {t \in Thresholds(f) : t >= high}
    IN  <<IF low < old[1] /\ lower + 1 > WideningLimit THEN MaxOf(below) ELSE low,
          IF high > old[2] /\ upper + 1 > WideningLimit THEN Least(above) ELSE high>>

MergeEdge(f, a, edge) ==
    LET b == edge[1]
        in == edge[2].locals
        queued == IF \E k \in DOMAIN a.work : a.work[k] = b THEN a.work ELSE Append(a.work, b)
        int(l) == f.locals[l][1] = "Int"
        merged == [l \in DOMAIN in |-> IF int(l) THEN Merged(f, a.entry[b][l], in[l], a.lower[b][l], a.upper[b][l])
                                       ELSE a.entry[b][l]]
        moved(k, l) == int(l) /\ (IF k = 1 THEN in[l][1] < a.entry[b][l][1] ELSE in[l][2] > a.entry[b][l][2])
    IN  IF b \notin a.reached THEN [a EXCEPT !.entry[b] = in, !.reached = @ \cup {b}, !.work = queued]
        ELSE [a EXCEPT !.entry[b] = merged,
                       !.lower[b] = [l \in DOMAIN @ |-> IF moved(1, l) THEN @[l] + 1 ELSE @[l]],
                       !.upper[b] = [l \in DOMAIN @ |-> IF moved(2, l) THEN @[l] + 1 ELSE @[l]],
                       !.work = IF merged # a.entry[b] THEN queued ELSE @]

RECURSIVE MergeEdges(_, _, _), Analyze(_, _)
MergeEdges(f, a, edges) == IF edges = <<>> THEN a ELSE MergeEdges(f, MergeEdge(f, a, Head(edges)), Tail(edges))

\* The worklist, until no entry changes.
Analyze(f, a) ==
    IF a.work = <<>> THEN a
    ELSE LET b == Head(a.work)
             start == [locals |-> a.entry[b], versions |-> [l \in DOMAIN f.locals |-> 0],
                       values |-> [r \in DOMAIN f.regs |-> Full], origins |-> [r \in DOMAIN f.regs |-> NoOrigin],
                       tests |-> [r \in {} |-> 0], evaluated |-> a.evaluated, unsafe |-> a.unsafe]
             done == RangeBlock(f, start, f.blocks[b].code)
         IN  Analyze(f, MergeEdges(f, [a EXCEPT !.work = Tail(@), !.evaluated = done.evaluated, !.unsafe = done.unsafe],
                                   RangeEdges(f, b, done)))

\* The checked arithmetic whose result is always an Int.
SafeArithmetic(f) ==
    LET perLocal(x) == [b \in DOMAIN f.blocks |-> [l \in DOMAIN f.locals |-> x]]
        first == [entry |-> [perLocal(Full) EXCEPT ![1] =
                               [l \in DOMAIN f.locals |-> IF f.locals[l][1] = "Int" THEN <<0, 0>> ELSE Full]],
                  reached |-> {1}, lower |-> perLocal(0), upper |-> perLocal(0), work |-> <<1>>,
                  evaluated |-> {}, unsafe |-> {}]
        done == Analyze(f, first)
    IN  done.evaluated \ done.unsafe

(* ------------------------ the operations it calls --------------------- *)

\* expectSignatureType of the AOT runtime: an empty value stands for void.
NativeHasType(v, ty) == IF ty = VoidT THEN v = Unset ELSE HasType(v, ty)

\* checkNotNull
NativeReceiver(v, t) ==
    IF v = NullObject THEN "NullReference" ELSE IF NativeHasType(v, Ty("Object", t)) THEN "None" ELSE "TypeMismatch"

NativeNew(ins, x) ==
    LET d == Types[ins.idx] IN
    CASE ins.op = "NewObject" ->
            IF d.kind # "class" THEN Error("InvalidProgram")
            ELSE Created(Object(ins.idx, [k \in DOMAIN d.fields |-> DefaultValue(d.fields[k])]))
      [] ins.op = "NewStruct" ->
            IF d.kind # "struct" THEN Error("InvalidProgram") ELSE Answer(DefaultValue(Ty("Struct", ins.idx)))
      [] OTHER ->
            IF PrimOf(x[1]) # "Int" THEN Error("TypeMismatch")
            ELSE IF x[1][2] < 0 THEN Error("IndexOutOfRange")
            ELSE Created([Object(RegType(Fun, ins.res)[2], [k \in 1..x[1][2] |-> DefaultValue(ins.el)])
                            EXCEPT !.array = TRUE, !.el = ins.el])

\* typeOperation
NativeTypeTest(ins, x) ==
    LET v == x[1]
        matches == /\ v \notin {Unset, NullObject, NullArray}
                   /\ IF ins.el[1] = "Object" THEN IsRecord(v) /\ Assignable(heap[v[2]].type, ins.el[2])
                      ELSE IF ins.el[1] = "Array" THEN PrimOf(v) = "Array" /\ heap[v[2]].type = ins.el[2]
                      ELSE RegType(Fun, ins.args[1])[1] = ins.el[1]
    IN  IF ins.op = "IsType" THEN Answer(BoolV(matches))
        ELSE Answer(IF matches THEN v ELSE IF ins.el[1] = "Array" THEN NullArray ELSE NullObject)

\* arrayLength, loadElement, storeElement: null, then the types of all
\* operands, then the range, then the element type of the array.
NativeArray(ins, x) ==
    LET v == IF ins.op = "StoreElement" THEN x[3] ELSE Unset
        elements == heap[x[1][2]].fields
        k == x[2][2] + 1
    IN  IF x[1] = NullArray THEN Error("NullReference")
        ELSE IF PrimOf(x[1]) # "Array" THEN Error("TypeMismatch")
        ELSE IF ins.op = "ArrayLength" THEN Answer(IntV(Len(elements)))
        ELSE IF PrimOf(x[2]) # "Int" \/ (ins.op = "StoreElement" /\ ~NativeHasType(v, ins.el)) THEN Error("TypeMismatch")
        ELSE IF k \notin DOMAIN elements THEN Error("IndexOutOfRange")
        ELSE IF heap[x[1][2]].el # ins.el THEN Error("TypeMismatch")
        ELSE IF ins.op = "StoreElement" THEN Updated(x[1][2], k, v)
        ELSE IF NativeHasType(elements[k], ins.el) THEN Answer(elements[k]) ELSE Error("TypeMismatch")

\* loadField, storeField
NativeField(ins, x) ==
    LET d == Types[ins.idx[1]]
        k == ins.idx[2]
        e == NativeReceiver(x[1], ins.idx[1])
        slots == heap[x[1][2]].fields
    IN  IF d.kind \notin ClassKinds \/ k \notin DOMAIN d.fields THEN Error("InvalidProgram")
        ELSE IF e # "None" THEN Error(e)
        ELSE IF ins.op = "LoadField"
             THEN IF k \notin DOMAIN slots THEN Error("InvalidProgram")
                  ELSE IF NativeHasType(slots[k], d.fields[k]) THEN Answer(slots[k]) ELSE Error("TypeMismatch")
        ELSE IF ~NativeHasType(x[2], d.fields[k]) THEN Error("TypeMismatch")
        ELSE IF k \notin DOMAIN slots THEN Error("InvalidProgram") ELSE Updated(x[1][2], k, x[2])

\* loadStructField, storeStructField: bad metadata fails without an error code.
NativeStructField(ins, x) ==
    LET t == ins.idx[1]  k == ins.idx[2] IN
    IF Types[t].kind # "struct" \/ k \notin DOMAIN Types[t].fields THEN Error("NoErrorSet")
    ELSE IF ~NativeHasType(x[1], Ty("Struct", t)) THEN Error("TypeMismatch")
    ELSE IF ins.op = "LoadStructField"
         THEN IF NativeHasType(x[1][2][2][k], Types[t].fields[k]) THEN Answer(x[1][2][2][k]) ELSE Error("TypeMismatch")
    ELSE IF ~NativeHasType(x[2], Types[t].fields[k]) THEN Error("TypeMismatch")
    ELSE Answer(StructV(t, [x[1][2][2] EXCEPT ![k] = x[2]]))

\* combineDelegates: leaves are joined one node at a time, so a full heap
\* stops it after the first ones.
RECURSIVE Joined(_, _, _)
Joined(t, answer, rest) ==
    IF rest = <<>> \/ answer.code # "None" THEN answer
    ELSE IF Len(answer.heap) >= HeapLimit THEN Error("OutOfMemory")
    ELSE Joined(t, [answer EXCEPT !.value = Ref(Len(answer.heap) + 1),
                                  !.heap = Append(@, Delegate(t, answer.value, "list", Head(rest)))], Tail(rest))

NativeDelegate(ins, x) ==
    LET t == ins.el[2]
        ref == References[ins.idx]
        dispatched == ref.mode # "direct"
    IN  IF ins.op = "NewDelegate"
        THEN IF x # <<>> /\ (ref.params = <<>> \/ ~NativeHasType(x[1], ref.params[1])) THEN Error("TypeMismatch")
             ELSE IF x = <<>> /\ dispatched THEN Error("InvalidProgram")
             ELSE Created(Delegate(t, IF x = <<>> THEN NullObject ELSE x[1], ins.idx, NullObject))
        ELSE IF \E k \in DOMAIN x : ~NativeHasType(x[k], Ty("Object", t)) THEN Error("TypeMismatch")
        ELSE IF \E k \in DOMAIN x : x[k] # NullObject /\ heap[x[k][2]].type # t THEN Error("InvalidProgram")
        ELSE LET leaves == IF ins.op = "CombineDelegate" THEN Leaves(x[1]) \o Leaves(x[2])
                           ELSE WithoutRun(Leaves(x[1]), Leaves(x[2]))
             IN  IF leaves = <<>> THEN Answer(NullObject) ELSE Joined(t, Answer(leaves[1]), Tail(leaves))

\* A checked result is tested, an unchecked one is wrapped.
Settled(ins, n) ==
    IF InRange(n) THEN Answer(IntV(n)) ELSE IF ins.checked THEN Error("IntegerOverflow") ELSE Answer(IntV(Wrap(n)))

NativeUnary(ins, x) ==
    IF PrimOf(x[1]) # (IF ins.op = "LogicalNot" THEN "Bool" ELSE "Int") THEN Error("TypeMismatch")
    ELSE IF ins.op = "LogicalNot" THEN Answer(BoolV(~x[1][2])) ELSE Settled(ins, -x[1][2])

NativeEquality(ins, x) == Answer(BoolV((PrimOf(x[1]) = PrimOf(x[2]) /\ x[1] = x[2]) = (ins.op = "Equal")))

NativeBinary(ins, a, b) ==
    CASE ins.op = "AddInt"           -> Settled(ins, a + b)
      [] ins.op = "SubtractInt"      -> Settled(ins, a - b)
      [] ins.op = "MultiplyInt"      -> Settled(ins, a * b)
      [] ins.op = "DivideInt"        -> IF b = 0 THEN Error("DivisionByZero")
                                        ELSE IF InRange(Quotient(a, b)) THEN Answer(IntV(Quotient(a, b)))
                                        ELSE Error("IntegerOverflow")
      [] ins.op = "RemainderInt"     -> IF b = 0 THEN Error("DivisionByZero") ELSE Answer(IntV(Remainder(a, b)))
      [] ins.op = "LessInt"          -> Answer(BoolV(a < b))
      [] ins.op = "LessOrEqualInt"   -> Answer(BoolV(a <= b))
      [] ins.op = "GreaterInt"       -> Answer(BoolV(a > b))
      [] ins.op = "GreaterOrEqualInt" -> Answer(BoolV(a >= b))

NativeArithmetic(ins, x) ==
    IF ins.op \in {"Equal", "NotEqual"} THEN NativeEquality(ins, x)
    ELSE IF Len(x) = 1 THEN NativeUnary(ins, x)
    ELSE IF \E k \in DOMAIN x : PrimOf(x[k]) # "Int" THEN Error("TypeMismatch")
    ELSE NativeBinary(ins, x[1][2], x[2][2])

NativeEvaluate(ins, x) ==
    CASE ins.op \in ConstantOps  -> EvalConstant(ins)
      [] ins.op \in ConvertOps   -> EvalConvert(ins, x)
      [] ins.op \in TypeTests    -> NativeTypeTest(ins, x)
      [] ins.op \in NewOps       -> NativeNew(ins, x)
      [] ins.op \in ArrayOps     -> NativeArray(ins, x)
      [] ins.op = "CheckNotNull" ->
            LET e == NativeReceiver(x[1], ins.idx) IN IF e = "None" THEN Answer(x[1]) ELSE Error(e)
      [] ins.op \in {"LoadField", "StoreField"} -> NativeField(ins, x)
      [] ins.op \in FieldOps     -> NativeStructField(ins, x)
      [] ins.op \in DelegateOps  -> NativeDelegate(ins, x)
      [] OTHER                   -> NativeArithmetic(ins, x)

\* Typed C++ computes in 64 bits and tests what is not proven safe.
TypedEvaluate(ins, x, safe) ==
    LET a == x[1][2]  b == x[Len(x)][2]
        exact == CASE ins.op = "AddInt" -> a + b [] ins.op = "SubtractInt" -> a - b
                   [] ins.op = "MultiplyInt" -> a * b [] OTHER -> -a
    IN  IF ins.op \in RangedOps
        THEN IF ins.res \in safe \/ InRange(exact) THEN Answer(IntV(exact)) ELSE Error("IntegerOverflow")
        ELSE IF ins.op \in {"DivideInt", "RemainderInt"}
             THEN IF b = 0 THEN Error("DivisionByZero")
                  ELSE IF a = IntMin /\ b = -1 THEN Error("IntegerOverflow")
                  ELSE Answer(IntV(IF ins.op = "DivideInt" THEN Quotient(a, b) ELSE Remainder(a, b)))
        ELSE IF ins.op \in ConstantOps THEN EvalConstant(ins)
        ELSE NativeArithmetic(ins, x)

(* ------------------------------ execution ----------------------------- *)

\* ExecutionContext::invoke up to the generated body.
EnterNative(s, args) ==
    LET f == Code[s]
        frame == [fn |-> s, block |-> 1, at |-> 1, leaves |-> <<>>, args |-> args,
                  locals |-> [l \in DOMAIN f.locals |-> DefaultValue(f.locals[l])],
                  regs |-> [r \in DOMAIN f.regs |-> Unset],
                  typed |-> Typed(f), safe |-> IF Typed(f) THEN SafeArithmetic(f) ELSE {}]
    IN  IF Depth >= RecursionLimit THEN Fail("RecursionLimitExceeded")
        ELSE IF Len(args) # Len(f.params) THEN Fail("InvalidArguments")
        ELSE IF \E k \in DOMAIN args : ~NativeHasType(args[k], f.params[k]) THEN Fail("TypeMismatch")
        ELSE /\ frames' = Append(frames, frame)
             /\ status' = "native"
             /\ UNCHANGED <<program, shaped, input, mode, arena, heap, pending, outcome>>

\* Program::invoke: a fresh context; the jit's program replaces the other.
StartNative ==
    /\ status = "start" /\ mode \in NativeTiers
    /\ IF mode = "jit" THEN program' = jitted /\ jitted' = program ELSE UNCHANGED <<program, jitted>>
    /\ arena' = <<>> /\ heap' = <<>> /\ pending' = Unset
    /\ executed' = 0 /\ cache' = [i \in {} |-> 0]
    /\ status' = "enter"
    /\ UNCHANGED <<shaped, input, mode, frames, outcome>>

EnterNativeMain ==
    /\ status = "enter" /\ mode \in NativeTiers
    /\ UNCHANGED <<executed, cache, jitted>>
    /\ EnterNative(input.main, input.args)

Native == status = "native"
NativeAt == Native /\ Frame.at <= Len(Block.code)
NativeEnd == Native /\ Frame.at > Len(Block.code)
NReg(r) == Frame.regs[r]
NOperands == [k \in DOMAIN Ins.args |-> NReg(Ins.args[k])]

\* Fault: a batch runs on past an operation that can fail.
CanFailDivision(fr, ins) == ins.op \in {"DivideInt", "RemainderInt"}

CanFail(fr, ins) ==
    \/ ins.op \in {"LoadParameter", "DivideInt", "RemainderInt"}
    \/ ins.op \in RangedOps /\ ins.res \notin fr.safe

\* typedRawConsumeBatches: what is consumed before the instruction at hand.
Batched == mode # "aot" /\ Frame.typed
BatchStart == Frame.at = 1 \/ CanFail(Frame, Block.code[Frame.at - 1])
BatchSize ==
    LET failing == {k \in Frame.at..Len(Block.code) : CanFail(Frame, Block.code[k])} IN
    (IF failing = {} THEN Len(Block.code) + 1 ELSE Least(failing)) - Frame.at + 1
Cost == IF ~Batched THEN 1 ELSE IF BatchStart THEN BatchSize ELSE 0

NativeConsume ==
    /\ Cost <= input.budget - executed
    /\ executed' = executed + Cost

\* What is left of the budget goes with the batch that does not fit.
NativeOutOfBudget ==
    /\ Native /\ Cost > input.budget - executed
    /\ executed' = IF Batched THEN input.budget ELSE executed
    /\ UNCHANGED <<cache, jitted>>
    /\ Fail("InstructionBudgetExceeded")

\* The frame at `d` goes on after its instruction, which answered `v`.
Advanced(fs, d, v) ==
    LET ins == Code[fs[d].fn].blocks[fs[d].block].code[fs[d].at] IN
    [fs EXCEPT ![d].at = @ + 1, ![d].leaves = <<>>,
               ![d].regs = IF ins.res = NoReg THEN @ ELSE [@ EXCEPT ![ins.res] = v]]

NativeExecute ==
    /\ NativeAt /\ Ins.op \notin {"Call", "InvokeDelegate"}
    /\ NativeConsume
    /\ LET x == NOperands
           answer == IF Ins.op = "LoadParameter" THEN Answer(Frame.args[Ins.idx])
                     ELSE IF Ins.op = "LoadLocal" THEN Answer(Frame.locals[Ins.idx])
                     ELSE IF Ins.op = "StoreLocal" THEN Answer(x[1])
                     ELSE IF Frame.typed THEN TypedEvaluate(Ins, x, Frame.safe)
                     ELSE NativeEvaluate(Ins, x)
           next == Advanced(frames, Depth, answer.value)
       IN  IF answer.code # "None" THEN Fail(answer.code)
           ELSE /\ frames' = IF Ins.op = "StoreLocal" THEN [next EXCEPT ![Depth].locals[Ins.idx] = x[1]] ELSE next
                /\ heap' = answer.heap
                /\ UNCHANGED <<program, shaped, input, mode, status, arena, pending, outcome>>
    /\ UNCHANGED <<cache, jitted>>

\* The function a dispatched reference reaches: the dispatch maps of the
\* receiver's own descriptor, not those of its bases.
NativeDispatched(ref, t) ==
    LET slots == IF ref.mode = "virtual" THEN Types[t].vtable
                 ELSE IF ref.iface \in DOMAIN Types[t].ifaces THEN Types[t].ifaces[ref.iface] ELSE <<>>
    IN  IF ref.slot \in DOMAIN slots THEN slots[ref.slot] ELSE NoId

AtNativeCall == NativeAt /\ Ins.op = "Call"
ArgumentsFit(x) == \A k \in DOMAIN x : NativeHasType(x[k], Callee.params[k])

NativeCall ==
    /\ AtNativeCall /\ (Callee.mode # "direct" \/ Callee.symbol \in DOMAIN Code)
    /\ NativeConsume
    /\ LET x == NOperands
           target == IF Callee.mode = "direct" THEN Callee.symbol ELSE NativeDispatched(Callee, heap[x[1][2]].type)
       IN  IF ~ArgumentsFit(x) THEN Fail("TypeMismatch")
           ELSE IF Callee.mode # "direct" /\ x[1] = NullObject THEN Fail("NullReference")
           ELSE IF target \notin DOMAIN Code THEN Fail("InvalidProgram")
           ELSE EnterNative(target, x)
    /\ UNCHANGED <<cache, jitted>>

NativeCallExternal ==
    /\ AtNativeCall /\ Callee.mode = "direct" /\ Callee.symbol \notin DOMAIN Code
    /\ NativeConsume
    /\ LET x == NOperands IN
       IF ~ArgumentsFit(x) THEN Fail("TypeMismatch")
       ELSE IF input.host = Unresolved THEN Fail("ExternalFunctionUnresolved")
       ELSE IF ~NativeHasType(input.host, Callee.ret) THEN Fail("ExternalTypeMismatch")
       ELSE /\ frames' = Advanced(frames, Depth, input.host)
            /\ UNCHANGED <<program, shaped, input, mode, status, arena, heap, pending, outcome>>
    /\ UNCHANGED <<cache, jitted>>

\* A list is flattened; its leaves are called in order, each counted.
NativeInvokeDelegate ==
    /\ NativeAt /\ Ins.op = "InvokeDelegate"
    /\ NativeConsume
    /\ LET x == NOperands
           leaf == IF Frame.leaves = <<>> THEN x[1] ELSE Head(Frame.leaves)
           d == heap[leaf[2]]
           ref == References[d.call]
           full == IF d.fields[1] = NullObject THEN Tail(x) ELSE <<d.fields[1]>> \o Tail(x)
           target == IF ref.mode = "direct" THEN ref.symbol ELSE NativeDispatched(ref, heap[full[1][2]].type)
       IN  IF leaf = NullObject THEN Fail("NullReference")
           ELSE IF ~IsRecord(leaf) \/ d.type # Ins.el[2] THEN Fail("TypeMismatch")
           ELSE IF d.call = "list"
                THEN /\ frames' = [frames EXCEPT ![Depth].leaves = Leaves(leaf)]
                     /\ UNCHANGED <<program, shaped, input, mode, status, arena, heap, pending, outcome>>
           ELSE IF ref.mode # "direct" /\ (full = <<>> \/ ~IsRecord(full[1])) THEN Fail("InvalidObjectReference")
           ELSE IF target \notin DOMAIN Code THEN Fail("InvalidProgram")
           ELSE EnterNative(target, full)
    /\ UNCHANGED <<cache, jitted>>

\* emitTransfer: all arguments of the edge are read before a parameter is set.
NativeFollow(edge) ==
    LET params == Fun.blocks[edge[1]].params IN
    /\ frames' = [frames EXCEPT ![Depth].block = edge[1], ![Depth].at = 1,
                     ![Depth].regs = [r \in DOMAIN @ |->
                         IF \E k \in DOMAIN params : params[k] = r
                         THEN @[edge[2][CHOOSE k \in DOMAIN params : params[k] = r]] ELSE @[r]]]
    /\ UNCHANGED <<program, shaped, input, mode, status, arena, heap, pending, outcome>>

NativeJumpOrBranch ==
    /\ NativeEnd /\ Term.kind \in {"Jump", "Branch"}
    /\ NativeConsume
    /\ IF Term.kind = "Jump" THEN NativeFollow(Term.to[1])
       ELSE IF PrimOf(NReg(Term.reg)) # "Bool" THEN Fail("TypeMismatch")
       ELSE NativeFollow(IF NReg(Term.reg)[2] THEN Term.to[1] ELSE Term.to[2])
    /\ UNCHANGED <<cache, jitted>>

NativeReturn ==
    /\ NativeEnd /\ Term.kind \in {"ReturnValue", "ReturnVoid"}
    /\ NativeConsume
    /\ LET v == IF Term.kind = "ReturnVoid" THEN Unset ELSE NReg(Term.reg)
           popped == SubSeq(frames, 1, Depth - 1)
           caller == frames[Depth - 1]
       IN  IF ~NativeHasType(v, Fun.ret) THEN Fail("TypeMismatch")
           ELSE IF Depth = 1 THEN UNCHANGED <<arena, heap>> /\ Finish("None", v)
           ELSE /\ frames' = IF Len(caller.leaves) > 1 THEN [popped EXCEPT ![Depth - 1].leaves = Tail(@)]
                             ELSE Advanced(popped, Depth - 1, v)
                /\ UNCHANGED <<program, shaped, input, mode, status, arena, heap, pending, outcome>>
    /\ UNCHANGED <<cache, jitted>>

\* throwScript
NativeThrow ==
    /\ NativeEnd /\ Term.kind = "Throw"
    /\ NativeConsume
    /\ IF NReg(Term.reg)[1] # "Ref" THEN Fail("NullReference")
       ELSE /\ pending' = NReg(Term.reg)
            /\ status' = "unwind"
            /\ UNCHANGED <<program, shaped, input, mode, frames, arena, heap, outcome>>
    /\ UNCHANGED <<cache, jitted>>

\* The route generated after a call and a throw: the handlers of the block in
\* the table's order, else the function fails and its caller routes.
Route ==
    /\ status = "unwind" /\ mode \in NativeTiers
    /\ UNCHANGED <<executed, cache, jitted>>
    /\ IF Taking(Frame) # {}
       THEN LET h == Fun.handlers[FirstOf(Taking(Frame))] IN
            /\ frames' = [frames EXCEPT ![Depth].block = h.target, ![Depth].at = 1, ![Depth].leaves = <<>>,
                                        ![Depth].locals[h.local] = pending]
            /\ pending' = Unset
            /\ status' = "native"
            /\ UNCHANGED <<program, shaped, input, mode, arena, heap, outcome>>
       ELSE IF Depth = 1 THEN UNCHANGED <<arena, heap>> /\ Finish("ScriptException", Unset)
       ELSE /\ frames' = SubSeq(frames, 1, Depth - 1)
            /\ UNCHANGED <<program, shaped, input, mode, status, arena, heap, pending, outcome>>

\* ProgramImage::link, and ToolchainJit::compile, which optimizes the module.
LinkAndCompile ==
    /\ Link
    /\ jitted' = IF Links THEN OptimizeModule(program) ELSE program

Done ==
    /\ status \in {"done", "rejected"}
    /\ UNCHANGED avars

Next ==
    \/ LinkAndCompile
    \/ (Start \/ Interpret) /\ UNCHANGED jitted
    \/ StartNative \/ EnterNativeMain \/ NativeOutOfBudget
    \/ NativeExecute \/ NativeCall \/ NativeCallExternal \/ NativeInvokeDelegate
    \/ NativeJumpOrBranch \/ NativeReturn \/ NativeThrow \/ Route
    \/ Done

(* ------------------------------ properties ---------------------------- *)

\* A typed function that takes a remainder: its C++ fails for the least Int and
\* -1 where the interpreter and the AOT runtime answer 0.
TypedRemainder ==
    \E p \in {program, jitted} : \E s \in DOMAIN p.functions :
        LET f == p.functions[s] IN Typed(f) /\ \E ins \in AllCode(f) : ins.op = "RemainderInt"

\* Tracing, fused runs, native code and its batched accounting change nothing
\* but speed: the same value or error, heap and instruction count; and the
\* optimizer changes no more than the count (State.fastAccounting, AotCpp.cpp,
\* Optimizer.cpp).
TiersAgree ==
    status = "done" /\ shaped /\ ~TypedRemainder =>
        /\ outcome["fast"] = outcome["traced"]
        /\ outcome["aot"] = outcome["traced"] /\ outcome["batch"] = outcome["traced"]
        /\ outcome["traced"].code # "InstructionBudgetExceeded" =>
              /\ [outcome["jit"] EXCEPT !.executed = 0] = [outcome["traced"] EXCEPT !.executed = 0]
              /\ outcome["jit"].executed <= outcome["traced"].executed

\* Arithmetic that typed code does not check never leaves the range of Int:
\* the range analysis covers every way into a block (analyzeTypedIntegerRanges).
ElidedChecksSafe ==
    Native /\ Frame.typed =>
        \A r \in DOMAIN Frame.regs : Frame.regs[r][1] = "Int" => InRange(Frame.regs[r][2])

\* The verifiers of MIR and of bytecode agree on the function that was compiled,
\* and what the optimizer makes of a verified module verifies again, with the
\* shape the runtimes rely on (Optimizer.cpp, its second verification).
PipelineVerifies ==
    /\ status = "link" => VerifiersAgreeOn(Code["main"])
    /\ status = "enter" /\ mode = "jit" =>
          \A s \in DOMAIN Code : Code[s] # jitted.functions[s] =>
              FunctionOk(Code[s]) /\ (shaped => FunctionShape(Code[s]))

\* Every invocation ends, whatever loops or handlers the program has, because
\* nothing runs without the budget (consume, the recursion limit).
InvocationEnds == (status # "done") ~> (status \in {"done", "rejected"})

=============================================================================
