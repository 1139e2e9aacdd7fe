----------------------------- MODULE Interpreter -----------------------------
(***************************************************************************)
(* The bytecode interpreter (Interpreter.cpp) over a linked program and    *)
(* the execution mirror it decodes (RuntimeServices.cpp).  One invocation  *)
(* of the same program, arguments, host and limits is run twice: with      *)
(* tracing, and then with fast accounting, where frames of the value arena *)
(* are not cleared and runs of instructions are fused.  The heap has no    *)
(* collector here (ManagedHeap models it).                                 *)
(***************************************************************************)
EXTENDS Bytecode

CONSTANTS
    RecursionLimit,     \* Limits.recursionLimit
    HeapLimit,          \* objects the heap can hold
    CacheSlots,         \* entries of the inline call cache
    Tiers,              \* the ways a program is run, one after the other
    Inputs(_)           \* what a program is invoked with

ASSUME LimitsAssumption ==
    RecursionLimit \in Nat \ {0} /\ HeapLimit \in Nat /\ CacheSlots \in Nat \ {0}

\* The first tier chooses the input, and the others get the same.
ASSUME TiersAssumption == Tiers \in Seq(STRING) /\ Tiers # <<>> /\ Tiers[1] = "traced"

VARIABLES
    shaped,     \* history: the program has the shape the compiler gives it
    input,      \* the entry, its arguments, the host's answer and the budget
    mode,       \* the tier: "traced" and "fast" are the interpreter's
    status,     \* "link", "rejected", "start", "enter", "run", "unwind", "done"
    frames,     \* the activation records, innermost last
    arena,      \* State.values
    heap,       \* the objects allocated, by reference
    pending,    \* State.pendingException, Unset when there is none
    executed,   \* State.executed
    cache,      \* State.inlineCallCache
    outcome     \* tier -> what the invocation returned

vars == <<program, shaped, input, mode, status, frames, arena, heap, pending, executed, cache, outcome>>

(* -------------------------------- values ------------------------------ *)

Unset == <<"Null", 0>>                    \* std::monostate
Unresolved == <<"Unresolved", 0>>          \* the host has no such function
IntV(n) == <<"Int", n>>
BoolV(b) == <<"Bool", b>>
NullObject == <<"NullObject", 0>>
NullArray == <<"NullArray", 0>>
Ref(i) == <<"Ref", i>>
StructV(t, fields) == <<"Struct", <<t, fields>>>>

PrimOf(v) ==
    CASE v[1] = "NullObject" -> "Object"
      [] v[1] = "NullArray"  -> "Array"
      [] v[1] = "Ref"        -> IF heap[v[2]].array THEN "Array" ELSE "Object"
      [] OTHER               -> v[1]

IsRecord(v) == v[1] = "Ref" /\ ~heap[v[2]].array

\* expectSignatureType: the value may stand where `ty` is declared.
HasType(v, ty) ==
    /\ PrimOf(v) = ty[1]
    /\ CASE ty[1] = "Object" -> v = NullObject \/ ty[2] = NoId \/ Assignable(heap[v[2]].type, ty[2])
         [] ty[1] = "Array"  -> v = NullArray \/ ty[2] = NoId \/ heap[v[2]].type = ty[2]
         [] ty[1] = "Struct" -> v[2][1] = ty[2]
         [] OTHER            -> TRUE

FlatDefault(ty) ==
    CASE ty[1] = "Int"    -> IntV(0)
      [] ty[1] = "Bool"   -> BoolV(FALSE)
      [] ty[1] = "Object" -> NullObject
      [] ty[1] = "Array"  -> NullArray
      [] OTHER            -> Unset

StructDefault[n \in 0..64] ==
    [t \in {s \in DOMAIN Types : Types[s].kind = "struct"} |->
        StructV(t, [k \in DOMAIN Types[t].fields |->
            LET ty == Types[t].fields[k] IN
            IF ty[1] = "Struct" /\ n > 0 THEN StructDefault[n - 1][ty[2]] ELSE FlatDefault(ty)])]

DefaultValue(ty) == IF ty[1] = "Struct" THEN StructDefault[64][ty[2]] ELSE FlatDefault(ty)

(* -------------------------------- frames ------------------------------ *)

MaxOf(S) == CHOOSE x \in S : \A y \in S : x >= y

ScratchSize(f) ==
    MaxOf({0} \cup UNION {{Len(f.blocks[b].term.to[k][2]) : k \in DOMAIN f.blocks[b].term.to} :
                          b \in DOMAIN f.blocks})
FrameSize(f) == Len(f.params) + Len(f.locals) + Len(f.regs) + ScratchSize(f)

Depth == Len(frames)
Frame == frames[Depth]
Fun == Code[Frame.fn]
Block == Fun.blocks[Frame.block]
Top == IF frames = <<>> THEN 0 ELSE Frame.base + FrameSize(Fun)

ArgAt(fr, k) == fr.base + k
LocalAt(fr, k) == fr.base + Len(Code[fr.fn].params) + k
RegAt(fr, r) == fr.base + Len(Code[fr.fn].params) + Len(Code[fr.fn].locals) + r
Reg(r) == arena[RegAt(Frame, r)]

\* ArenaFrameScope: a frame is cleared where it is made and where it is left,
\* except under fast accounting, where only storage never used before is clear.
Cleared(values, from, to) == [i \in DOMAIN values |-> IF i > from /\ i <= to THEN Unset ELSE values[i]]
Allocated(base, size) ==
    LET top == base + size
        grown == [i \in 1..MaxOf({top, Len(arena)}) |-> IF i <= Len(arena) THEN arena[i] ELSE Unset]
    IN  IF Len(arena) >= top /\ mode = "traced" THEN Cleared(grown, base, top) ELSE grown
Released(fr) ==
    IF mode = "traced" THEN Cleared(arena, fr.base, fr.base + FrameSize(Code[fr.fn])) ELSE arena

(* ----------------------- the end of an invocation --------------------- *)

\* The next tier starts from the same inputs, until none is left.
Finish(code, v) ==
    LET k == CHOOSE i \in DOMAIN Tiers : Tiers[i] = mode IN
    /\ outcome' = [outcome EXCEPT ![mode] = [code |-> code, value |-> v, executed |-> executed',
                                             heap |-> IF code = "None" THEN heap' ELSE <<>>]]
    /\ frames' = <<>> /\ pending' = Unset
    /\ IF k < Len(Tiers) THEN mode' = Tiers[k + 1] /\ status' = "start" ELSE status' = "done" /\ UNCHANGED mode
    /\ UNCHANGED <<program, shaped, input>>

\* An error other than a script exception leaves every frame at once.
Fail(code) == UNCHANGED <<arena, heap>> /\ Finish(code, Unset)

(* --------------------------- entering a function ---------------------- *)

\* executeFunction up to its first block; `checked` says that the call site
\* leaves the check of the arguments to the callee.
Enter(s, args, checked) ==
    LET f == Code[s]
        base == Top
        room == Allocated(base, FrameSize(f))
    IN  IF Depth >= RecursionLimit THEN Fail("RecursionLimitExceeded")
        ELSE IF checked /\ Len(args) # Len(f.params) THEN Fail("InvalidArguments")
        ELSE IF checked /\ \E k \in DOMAIN args : ~HasType(args[k], f.params[k]) THEN Fail("TypeMismatch")
        ELSE /\ frames' = Append(frames, [fn |-> s, block |-> 1, at |-> 1, base |-> base, leaves |-> <<>>])
             /\ arena' = [i \in DOMAIN room |->
                            IF i > base /\ i <= base + Len(args) THEN args[i - base] ELSE room[i]]
             /\ status' = "run"
             /\ UNCHANGED <<program, shaped, input, mode, heap, pending, outcome>>

Link ==
    /\ status = "link"
    /\ IF Links THEN status' = "start" /\ shaped' = CompilerShape
       ELSE status' = "rejected" /\ UNCHANGED shaped
    /\ UNCHANGED <<program, input, mode, frames, arena, heap, pending, executed, cache, outcome>>

\* invoke(): a fresh State on the shared program.
Start ==
    /\ status = "start" /\ mode \in {"traced", "fast"}
    /\ input' \in IF mode = "traced" THEN Inputs(program) ELSE {input}
    /\ arena' = <<>> /\ heap' = <<>> /\ pending' = Unset
    /\ executed' = 0 /\ cache' = [i \in {} |-> 0]
    /\ status' = "enter"
    /\ UNCHANGED <<program, shaped, mode, frames, outcome>>

EnterMain ==
    /\ status = "enter" /\ mode \in {"traced", "fast"}
    /\ UNCHANGED <<executed, cache>>
    /\ Enter(input.main, input.args, TRUE)

(* ------------------------ evaluating an instruction ------------------- *)

Answer(v) == [code |-> "None", value |-> v, heap |-> heap]
Error(code) == [code |-> code, value |-> Unset, heap |-> heap]
Object(type, fields) ==
    [type |-> type, array |-> FALSE, el |-> VoidT, fields |-> fields, call |-> NoId]
Created(obj) ==
    IF Len(heap) >= HeapLimit THEN Error("OutOfMemory")
    ELSE [code |-> "None", value |-> Ref(Len(heap) + 1), heap |-> Append(heap, obj)]
Updated(i, k, v) == [code |-> "None", value |-> Unset, heap |-> [heap EXCEPT ![i].fields[k] = v]]

\* expectObject with null not allowed: what stops the use of `v` as a `t`.
ReceiverError(v, t) ==
    IF v = NullObject THEN "NullReference"
    ELSE IF ~IsRecord(v) \/ ~Assignable(heap[v[2]].type, t) THEN "TypeMismatch"
    ELSE "None"

ArrayError(v, n) ==
    IF v = NullArray THEN "NullReference"
    ELSE IF PrimOf(v) # "Array" \/ PrimOf(n) # "Int" THEN "TypeMismatch"
    ELSE IF n[2] + 1 \notin DOMAIN heap[v[2]].fields THEN "IndexOutOfRange"
    ELSE "None"

EvalConstant(ins) ==
    CASE ins.op = "ConstantInt"  -> Answer(IntV(ins.idx))
      [] ins.op = "ConstantBool" -> Answer(BoolV(ins.idx))
      [] OTHER                   -> Answer(Unset)

EvalLocal(ins, x) ==
    CASE ins.op = "LoadParameter" -> Answer(arena[ArgAt(Frame, ins.idx)])
      [] ins.op = "LoadLocal"     -> Answer(arena[LocalAt(Frame, ins.idx)])
      [] OTHER                    -> Answer(x[1])

EvalConvert(ins, x) ==
    IF PrimOf(x[1]) # "Null" THEN Error("TypeMismatch")
    ELSE Answer(IF ins.op = "ConvertNullToObject" THEN NullObject ELSE NullArray)

EvalTypeTest(ins, x) ==
    LET v == x[1]
        matches == /\ v \notin {Unset, NullObject, NullArray}
                   /\ CASE ins.el[1] = "Object" -> IsRecord(v) /\ Assignable(heap[v[2]].type, ins.el[2])
                        [] ins.el[1] = "Array"  -> PrimOf(v) = "Array" /\ heap[v[2]].type = ins.el[2]
                        [] OTHER                -> RegType(Fun, ins.args[1])[1] = ins.el[1]
    IN  IF ins.op = "IsType" THEN Answer(BoolV(matches))
        ELSE IF matches THEN Answer(v)
        ELSE Answer(IF ins.el[1] = "Array" THEN NullArray ELSE NullObject)

EvalNew(ins, x) ==
    CASE ins.op = "NewObject" ->
            IF Types[ins.idx].kind \in {"interface", "delegate"} THEN Error("InvalidProgram")
            ELSE Created(Object(ins.idx, [k \in DOMAIN Types[ins.idx].fields |->
                                             DefaultValue(Types[ins.idx].fields[k])]))
      [] ins.op = "NewStruct" -> Answer(DefaultValue(Ty("Struct", ins.idx)))
      [] ins.op = "NewArray" ->
            IF PrimOf(x[1]) # "Int" THEN Error("TypeMismatch")
            ELSE IF x[1][2] < 0 THEN Error("IndexOutOfRange")
            ELSE Created([Object(RegType(Fun, ins.res)[2], [k \in 1..x[1][2] |-> DefaultValue(ins.el)])
                            EXCEPT !.array = TRUE, !.el = ins.el])

EvalArray(ins, x) ==
    IF ins.op = "ArrayLength"
    THEN LET e == ArrayError(x[1], IntV(0)) IN
         IF e \in {"NullReference", "TypeMismatch"} THEN Error(e) ELSE Answer(IntV(Len(heap[x[1][2]].fields)))
    ELSE LET e == ArrayError(x[1], x[2]) IN
         IF ins.op = "StoreElement" /\ x[1] # NullArray /\ ~HasType(x[3], ins.el) THEN Error("TypeMismatch")
         ELSE IF e # "None" THEN Error(e)
         ELSE LET a == heap[x[1][2]]  v == a.fields[x[2][2] + 1] IN
              IF a.el # ins.el THEN Error("TypeMismatch")
              ELSE IF ins.op = "StoreElement" THEN Updated(x[1][2], x[2][2] + 1, x[3])
              ELSE IF HasType(v, ins.el) THEN Answer(v) ELSE Error("TypeMismatch")

EvalCheckNotNull(ins, x) ==
    LET e == ReceiverError(x[1], ins.idx) IN IF e # "None" THEN Error(e) ELSE Answer(x[1])

EvalField(ins, x) ==
    LET k == ins.idx[2]
        ty == Types[ins.idx[1]].fields[k]
        e == ReceiverError(x[1], ins.idx[1])
    IN  IF e # "None" THEN Error(e)
        ELSE IF ins.op = "StoreField"
             THEN IF ~HasType(x[2], ty) THEN Error("TypeMismatch")
                  ELSE IF k \notin DOMAIN heap[x[1][2]].fields THEN Error("InvalidProgram")
                  ELSE Updated(x[1][2], k, x[2])
        ELSE IF k \notin DOMAIN heap[x[1][2]].fields THEN Error("InvalidProgram")
        ELSE IF HasType(heap[x[1][2]].fields[k], ty) THEN Answer(heap[x[1][2]].fields[k])
        ELSE Error("TypeMismatch")

\* A struct is a value: a store makes a new one.
EvalStructField(ins, x) ==
    LET t == ins.idx[1]  k == ins.idx[2]  ty == Types[t].fields[k] IN
    IF ~HasType(x[1], Ty("Struct", t)) THEN Error("TypeMismatch")
    ELSE IF ins.op = "LoadStructField" THEN Answer(x[1][2][2][k])
    ELSE IF ~HasType(x[2], ty) THEN Error("TypeMismatch")
    ELSE Answer(StructV(t, [x[1][2][2] EXCEPT ![k] = x[2]]))

\* Int operands take the quick path, which reads them without a check.
EvalBinaryInt(ins, a, b) ==
    LET exact == CASE ins.op = "AddInt"      -> a + b
                   [] ins.op = "SubtractInt" -> a - b
                   [] ins.op = "MultiplyInt" -> a * b
                   [] OTHER                  -> 0
    IN  CASE ins.op \in {"AddInt", "SubtractInt", "MultiplyInt"} ->
                IF ~ins.checked THEN Answer(IntV(Wrap(exact)))
                ELSE IF InRange(exact) THEN Answer(IntV(exact)) ELSE Error("IntegerOverflow")
          [] ins.op \in {"DivideInt", "RemainderInt"} ->
                IF b = 0 THEN Error("DivisionByZero")
                ELSE IF ins.op = "RemainderInt" THEN Answer(IntV(Remainder(a, b)))
                ELSE IF a = IntMin /\ b = -1 THEN Error("IntegerOverflow")
                ELSE Answer(IntV(Quotient(a, b)))
          [] ins.op = "LessInt"           -> Answer(BoolV(a < b))
          [] ins.op = "LessOrEqualInt"    -> Answer(BoolV(a <= b))
          [] ins.op = "GreaterInt"        -> Answer(BoolV(a > b))
          [] ins.op = "GreaterOrEqualInt" -> Answer(BoolV(a >= b))

EvalArithmetic(ins, x) ==
    CASE ins.op = "NegateInt" ->
            IF PrimOf(x[1]) # "Int" THEN Error("TypeMismatch")
            ELSE IF InRange(-x[1][2]) THEN Answer(IntV(-x[1][2]))
            ELSE IF ins.checked THEN Error("IntegerOverflow") ELSE Answer(x[1])
      [] ins.op = "LogicalNot" ->
            IF PrimOf(x[1]) # "Bool" THEN Error("TypeMismatch") ELSE Answer(BoolV(~x[1][2]))
      [] ins.op = "Equal"    -> Answer(BoolV(PrimOf(x[1]) = PrimOf(x[2]) /\ x[1] = x[2]))
      [] ins.op = "NotEqual" -> Answer(BoolV(~(PrimOf(x[1]) = PrimOf(x[2]) /\ x[1] = x[2])))
      [] OTHER -> IF x[1][1] # "Int" \/ x[2][1] # "Int" THEN Error("BadVariantAccess")
                  ELSE EvalBinaryInt(ins, x[1][2], x[2][2])

(* ------------------------------ delegates ----------------------------- *)

\* A delegate object holds its target, the reference it calls and, when it is
\* a node of an invocation list ("list"), the list on its left and one leaf.
Delegate(t, target, call, right) == [Object(t, <<target, right>>) EXCEPT !.call = call]

LeafList[i \in DOMAIN heap] ==
    IF heap[i].call = "list"
    THEN LeafList[heap[i].fields[1][2]] \o LeafList[heap[i].fields[2][2]]
    ELSE <<Ref(i)>>
Leaves(v) == IF v = NullObject THEN <<>> ELSE LeafList[v[2]]

SameLeaf(a, b) ==
    LET p == References[heap[a[2]].call]  q == References[heap[b[2]].call] IN
    /\ heap[a[2]].fields[1] = heap[b[2]].fields[1]
    /\ <<p.symbol, p.mode, p.slot, p.iface>> = <<q.symbol, q.mode, q.slot, q.iface>>

\* buildDelegateList: one new node for every leaf after the first.
ListOf(t, leaves) ==
    LET n == Len(leaves)
        node(k) == Delegate(t, IF k = 1 THEN leaves[1] ELSE Ref(Len(heap) + k - 1), "list", leaves[k + 1])
    IN  IF n = 0 THEN Answer(NullObject)
        ELSE IF n = 1 THEN Answer(leaves[1])
        ELSE IF Len(heap) + n - 1 > HeapLimit THEN Error("OutOfMemory")
        ELSE [code |-> "None", value |-> Ref(Len(heap) + n - 1), heap |-> heap \o [k \in 1..(n - 1) |-> node(k)]]

\* The last run of `l` that equals `r` is taken out.
WithoutRun(l, r) ==
    LET starts == {k \in 0..(Len(l) - Len(r)) : \A j \in DOMAIN r : SameLeaf(l[k + j], r[j])} IN
    IF r = <<>> \/ starts = {} THEN l
    ELSE SubSeq(l, 1, MaxOf(starts)) \o SubSeq(l, MaxOf(starts) + Len(r) + 1, Len(l))

EvalDelegate(ins, x) ==
    LET t == ins.el[2] IN
    IF ins.op = "NewDelegate"
    THEN LET ref == References[ins.idx] IN
         IF x # <<>>
         THEN IF ~HasType(x[1], ref.params[1]) THEN Error("TypeMismatch")
              ELSE Created(Delegate(t, x[1], ins.idx, NullObject))
         ELSE IF ref.params # <<>> /\ ref.mode # "direct" THEN Error("InvalidProgram")
         ELSE Created(Delegate(t, NullObject, ins.idx, NullObject))
    ELSE IF \E k \in 1..2 : x[k] # NullObject /\ (~IsRecord(x[k]) \/ heap[x[k][2]].type # t) THEN Error("TypeMismatch")
    ELSE ListOf(t, IF ins.op = "CombineDelegate" THEN Leaves(x[1]) \o Leaves(x[2])
                   ELSE WithoutRun(Leaves(x[1]), Leaves(x[2])))

Evaluate(ins, x) ==
    CASE ins.op \in ConstantOps  -> EvalConstant(ins)
      [] ins.op \in LocalOps     -> EvalLocal(ins, x)
      [] ins.op \in ConvertOps   -> EvalConvert(ins, x)
      [] ins.op \in TypeTests    -> EvalTypeTest(ins, x)
      [] ins.op \in NewOps       -> EvalNew(ins, x)
      [] ins.op \in ArrayOps     -> EvalArray(ins, x)
      [] ins.op = "CheckNotNull" -> EvalCheckNotNull(ins, x)
      [] ins.op \in {"LoadField", "StoreField"} -> EvalField(ins, x)
      [] ins.op \in {"LoadStructField", "StoreStructField"} -> EvalStructField(ins, x)
      [] ins.op \in DelegateOps  -> EvalDelegate(ins, x)
      [] OTHER                   -> EvalArithmetic(ins, x)

(* -------------------------- executing a function ---------------------- *)

Running == status = "run" /\ frames # <<>>
AtInstruction == Running /\ Frame.at <= Len(Block.code)
AtTerminator == Running /\ Frame.at > Len(Block.code)
Ins == Block.code[Frame.at]
Operands(ins) == [k \in DOMAIN ins.args |-> Reg(ins.args[k])]

\* The place an instruction writes: a local slot, its result register or none.
Target(fr, ins) ==
    IF ins.op = "StoreLocal" THEN LocalAt(fr, ins.idx)
    ELSE IF ins.res = NoReg THEN 0 ELSE RegAt(fr, ins.res)
Written(values, slot, v) == [i \in DOMAIN values |-> IF i = slot THEN v ELSE values[i]]

Moved(span) == [frames EXCEPT ![Depth].at = @ + span, ![Depth].leaves = <<>>]

\* Fault: a block is left without being counted.
ConsumeInstructionsOnly ==
    /\ executed < input.budget
    /\ executed' = executed + (IF AtInstruction THEN 1 ELSE 0)

\* consume(): one unit for every instruction and for every terminator.
Consume ==
    /\ executed < input.budget
    /\ executed' = executed + 1

OutOfBudget ==
    /\ status = "run" /\ executed >= input.budget
    /\ UNCHANGED <<executed, cache>>
    /\ Fail("InstructionBudgetExceeded")

\* The run of instructions that fast accounting fuses at `at`, 1 for none.
Quick(f, ins) ==
    \/ ins.op \in LocalOps
    \/ ins.op = "ConstantInt" /\ f.regs[ins.res][1] = "Int"
    \/ ins.op \in IntOps \cup IntTests /\ \A k \in 1..2 : f.regs[ins.args[k]][1] = "Int"
IsQuick(f, code, at, ops) == at <= Len(code) /\ code[at].op \in ops /\ Quick(f, code[at])

FusedSpan(f, code, at) ==
    IF /\ IsQuick(f, code, at, {"LoadParameter"}) /\ IsQuick(f, code, at + 1, {"StoreLocal"})
       /\ code[at + 1].args[1] = code[at].res
    THEN 2
    ELSE IF /\ IsQuick(f, code, at, {"LoadLocal"})
            /\ IsQuick(f, code, at + 1, {"ConstantInt", "LoadLocal"})
            /\ IsQuick(f, code, at + 2, IntOps \cup IntTests)
            /\ code[at + 2].args = <<code[at].res, code[at + 1].res>>
         THEN IF IsQuick(f, code, at + 3, {"StoreLocal"}) /\ code[at + 3].args[1] = code[at + 2].res
              THEN 4 ELSE 3
    ELSE 1

\* Fusing scans a block from its start and never overlaps.
FusesAt(f, code, at) ==
    LET scan[p \in 1..(Len(code) + 4)] == IF p >= at THEN p ELSE scan[p + FusedSpan(f, code, p)]
    IN  scan[1] = at

Span ==
    LET span == FusedSpan(Fun, Block.code, Frame.at) IN
    IF mode = "fast" /\ span > 1 /\ span <= input.budget - executed /\ FusesAt(Fun, Block.code, Frame.at)
    THEN span ELSE 1

Execute ==
    /\ AtInstruction /\ Ins.op \notin {"Call", "InvokeDelegate"} /\ Span = 1
    /\ Consume
    /\ LET answer == Evaluate(Ins, Operands(Ins)) IN
       IF answer.code # "None" THEN Fail(answer.code)
       ELSE /\ arena' = Written(arena, Target(Frame, Ins), answer.value)
            /\ heap' = answer.heap
            /\ frames' = Moved(1)
            /\ UNCHANGED <<program, shaped, input, mode, status, pending, outcome>>
    /\ UNCHANGED cache

\* executeSuperInstruction: the same effects in one step, counted one by one.
ExecuteFused ==
    /\ AtInstruction /\ Span > 1
    /\ LET code == Block.code
           part(k) == code[Frame.at + k - 1]
           loaded(values, ins) ==
               IF ins.op = "ConstantInt" THEN IntV(ins.idx)
               ELSE IF ins.op = "LoadParameter" THEN values[ArgAt(Frame, ins.idx)]
               ELSE values[LocalAt(Frame, ins.idx)]
           first == Written(arena, RegAt(Frame, part(1).res), loaded(arena, part(1)))
           stored(values, ins) == Written(values, LocalAt(Frame, ins.idx), values[RegAt(Frame, ins.args[1])])
       IN  IF Span = 2
           THEN /\ arena' = stored(first, part(2))
                /\ executed' = executed + 2
                /\ frames' = Moved(2)
                /\ UNCHANGED <<program, shaped, input, mode, status, heap, pending, outcome>>
           ELSE LET second == Written(first, RegAt(Frame, part(2).res), loaded(first, part(2)))
                    a == second[RegAt(Frame, part(3).args[1])]
                    b == second[RegAt(Frame, part(3).args[2])]
                    answer == EvalArithmetic(part(3), <<a, b>>)
                    third == Written(second, RegAt(Frame, part(3).res), answer.value)
                IN  IF answer.code # "None"
                    THEN executed' = executed + 3 /\ Fail(answer.code)
                    ELSE /\ arena' = IF Span = 4 THEN stored(third, part(4)) ELSE third
                         /\ executed' = executed + Span
                         /\ frames' = Moved(Span)
                         /\ UNCHANGED <<program, shaped, input, mode, status, heap, pending, outcome>>
    /\ UNCHANGED cache

(* -------------------------------- calls ------------------------------- *)

\* The nearest class whose dispatch maps serve the interface.
MapOwners(t, i) == {a \in Ancestors(t) : i \in DOMAIN Types[a].ifaces}
InterfaceMap(t, i) ==
    LET owners == MapOwners(t, i) IN
    IF owners = {} THEN <<>>
    ELSE Types[CHOOSE a \in owners : \A b \in owners : b \in Ancestors(a)].ifaces[i]

\* The function a dispatched reference reaches on a receiver of type `t`.
Dispatched(ref, t) ==
    LET slots == IF ref.mode = "virtual" THEN Types[t].vtable ELSE InterfaceMap(t, ref.iface)
    IN  IF ref.slot \in DOMAIN slots THEN slots[ref.slot] ELSE NoId

AtCall == AtInstruction /\ Ins.op = "Call"
Callee == References[Ins.idx]

\* A direct call of a function of the image is resolved before it runs, and
\* the verifier's work is not repeated on its arguments.
CallDirect ==
    /\ AtCall /\ Callee.mode = "direct" /\ Callee.symbol \in DOMAIN Code
    /\ Consume
    /\ Enter(Callee.symbol, Operands(Ins), FALSE)
    /\ UNCHANGED cache

Site == <<Frame.fn, Frame.block, Frame.at>>
CacheIndex == (Frame.block + Frame.at) % CacheSlots
\* Fault: an entry of the call site is used for every receiver.
HitAnyReceiver(receiver) == CacheIndex \in DOMAIN cache /\ cache[CacheIndex].site = Site

Hit(receiver) ==
    /\ CacheIndex \in DOMAIN cache
    /\ cache[CacheIndex].site = Site
    /\ \/ cache[CacheIndex].receiver = receiver
       \/ cache[CacheIndex].type = heap[receiver[2]].type

CallDispatched ==
    /\ AtCall /\ Callee.mode \in {"virtual", "interface"}
    /\ Consume
    /\ LET x == Operands(Ins)
           target == Dispatched(Callee, heap[x[1][2]].type)
       IN  IF x[1] = NullObject THEN Fail("NullReference") /\ UNCHANGED cache
           ELSE IF ~IsRecord(x[1]) THEN Fail("InvalidObjectReference") /\ UNCHANGED cache
           ELSE IF Hit(x[1]) THEN Enter(cache[CacheIndex].target, x, FALSE) /\ UNCHANGED cache
           ELSE IF target \notin DOMAIN Code THEN Fail("InvalidProgram") /\ UNCHANGED cache
           ELSE /\ cache' = [k \in DOMAIN cache \cup {CacheIndex} |->
                               IF k = CacheIndex
                               THEN [site |-> Site, receiver |-> x[1], type |-> heap[x[1][2]].type, target |-> target]
                               ELSE cache[k]]
                /\ Enter(target, x, TRUE)

\* The host answers with a value or with a failure; its answer is checked.  The
\* code's TypeMismatch for a wrong answer has a name of its own here, because
\* it is the host's fault and not the program's.
CallExternal ==
    /\ AtCall /\ Callee.mode = "direct" /\ Callee.symbol \notin DOMAIN Code
    /\ Consume
    /\ LET x == Operands(Ins) IN
       IF \E k \in DOMAIN x : ~HasType(x[k], Callee.params[k]) THEN Fail("TypeMismatch")
       ELSE IF input.host = Unresolved THEN Fail("ExternalFunctionUnresolved")
       ELSE IF ~HasType(input.host, Callee.ret) THEN Fail("ExternalTypeMismatch")
       ELSE /\ arena' = Written(arena, Target(Frame, Ins), input.host)
            /\ frames' = Moved(1)
            /\ UNCHANGED <<program, shaped, input, mode, status, heap, pending, outcome>>
    /\ UNCHANGED cache

\* One leaf: the delegate's own target comes first unless it is null.
EnterLeaf(leaf, args, sig) ==
    LET d == heap[leaf[2]]
        ref == References[d.call]
        full == IF d.fields[1] = NullObject THEN args ELSE <<d.fields[1]>> \o args
        target == IF ref.mode = "direct" THEN ref.symbol
                  ELSE Dispatched(ref, heap[full[1][2]].type)
    IN  IF \E k \in DOMAIN args : ~HasType(args[k], sig.params[k]) THEN Fail("TypeMismatch")
        ELSE IF ref.mode # "direct" /\ (full = <<>> \/ ~IsRecord(full[1])) THEN Fail("InvalidObjectReference")
        ELSE IF target \notin DOMAIN Code THEN Fail("InvalidProgram")
        ELSE Enter(target, full, TRUE)

AtInvoke == AtInstruction /\ Ins.op = "InvokeDelegate"

\* An invocation list calls its leaves in order, each as an instruction of
\* its own; the last result stands.
InvokeDelegate ==
    /\ AtInvoke /\ Frame.leaves = <<>>
    /\ Consume
    /\ LET x == Operands(Ins)  t == Ins.el[2] IN
       IF x[1] = NullObject THEN Fail("NullReference")
       ELSE IF ~IsRecord(x[1]) \/ heap[x[1][2]].type # t THEN Fail("TypeMismatch")
       ELSE IF heap[x[1][2]].call = "list"
            THEN /\ frames' = [frames EXCEPT ![Depth].leaves = Leaves(x[1])]
                 /\ UNCHANGED <<program, shaped, input, mode, status, arena, heap, pending, outcome>>
       ELSE EnterLeaf(x[1], Tail(x), Types[t].invoke)
    /\ UNCHANGED cache

InvokeNextLeaf ==
    /\ AtInvoke /\ Frame.leaves # <<>>
    /\ Consume
    /\ LET leaf == Head(Frame.leaves)
           x == [k \in DOMAIN Ins.args |-> IF Ins.args[k] = Ins.args[1] THEN leaf ELSE Reg(Ins.args[k])]
       IN  EnterLeaf(leaf, Tail(x), Types[Ins.el[2]].invoke)
    /\ UNCHANGED cache

(* ----------------------------- terminators ---------------------------- *)

Term == Block.term

\* The arguments of an edge are read before any parameter is written.
Follow(edge) ==
    LET params == Fun.blocks[edge[1]].params
        scratch == RegAt(Frame, Len(Fun.regs))
    IN  /\ arena' = [i \in DOMAIN arena |->
                       IF \E k \in DOMAIN params : i = RegAt(Frame, params[k])
                       THEN Reg(edge[2][CHOOSE k \in DOMAIN params : i = RegAt(Frame, params[k])])
                       ELSE IF i - scratch \in DOMAIN edge[2] THEN Reg(edge[2][i - scratch])
                       ELSE arena[i]]
        /\ frames' = [frames EXCEPT ![Depth].block = edge[1], ![Depth].at = 1]
        /\ UNCHANGED <<program, shaped, input, mode, status, heap, pending, outcome>>

JumpOrBranch ==
    /\ AtTerminator /\ Term.kind \in {"Jump", "Branch"}
    /\ Consume
    /\ IF Term.kind = "Jump" THEN Follow(Term.to[1])
       ELSE IF PrimOf(Reg(Term.reg)) # "Bool" THEN Fail("TypeMismatch")
       ELSE Follow(IF Reg(Term.reg)[2] THEN Term.to[1] ELSE Term.to[2])
    /\ UNCHANGED cache

\* The frame is released; the caller's instruction takes the result, or the
\* next leaf of its invocation list is due.
Return ==
    /\ AtTerminator /\ Term.kind \in {"ReturnValue", "ReturnVoid"}
    /\ Consume
    /\ LET v == IF Term.kind = "ReturnVoid" THEN Unset ELSE Reg(Term.reg)
           cleared == Released(Frame)
           caller == frames[Depth - 1]
           ins == Code[caller.fn].blocks[caller.block].code[caller.at]
           popped == SubSeq(frames, 1, Depth - 1)
       IN  IF Term.kind = "ReturnValue" /\ ~HasType(v, Fun.ret) THEN Fail("TypeMismatch")
           ELSE IF Depth = 1 THEN UNCHANGED <<arena, heap>> /\ Finish("None", v)
           ELSE /\ IF Len(caller.leaves) > 1
                   THEN /\ frames' = [popped EXCEPT ![Depth - 1].leaves = Tail(@)]
                        /\ arena' = cleared
                   ELSE /\ frames' = [popped EXCEPT ![Depth - 1].at = @ + 1, ![Depth - 1].leaves = <<>>]
                        /\ arena' = Written(cleared, Target(caller, ins), v)
                /\ UNCHANGED <<program, shaped, input, mode, status, heap, pending, outcome>>
    /\ UNCHANGED cache

Throw ==
    /\ AtTerminator /\ Term.kind = "Throw"
    /\ Consume
    /\ IF Reg(Term.reg)[1] # "Ref" THEN Fail("NullReference")
       ELSE /\ pending' = Reg(Term.reg)
            /\ status' = "unwind"
            /\ UNCHANGED <<program, shaped, input, mode, frames, arena, heap, outcome>>
    /\ UNCHANGED cache

\* Fault: a handler takes only exceptions of exactly its own class.
TakingExactly(fr) ==
    {k \in HandlersOf(Code[fr.fn], fr.block) :
        Code[fr.fn].handlers[k].catch \in {NoId, heap[pending[2]].type}}

\* The handlers of a frame that take the exception, in the table's order.
Taking(fr) ==
    LET f == Code[fr.fn] IN
    {k \in HandlersOf(f, fr.block) :
        f.handlers[k].catch = NoId \/ Assignable(heap[pending[2]].type, f.handlers[k].catch)}
FirstOf(S) == CHOOSE k \in S : \A j \in S : k <= j

\* routePendingException: to the handler in this frame, else out of it.
Unwind ==
    /\ status = "unwind" /\ mode \in {"traced", "fast"}
    /\ UNCHANGED <<executed, cache>>
    /\ IF Taking(Frame) # {}
       THEN LET h == Fun.handlers[FirstOf(Taking(Frame))] IN
            /\ arena' = Written(arena, LocalAt(Frame, h.local), pending)
            /\ pending' = Unset
            /\ frames' = [frames EXCEPT ![Depth].block = h.target, ![Depth].at = 1, ![Depth].leaves = <<>>]
            /\ status' = "run"
            /\ UNCHANGED <<program, shaped, input, mode, heap, outcome>>
       ELSE IF Depth = 1 THEN UNCHANGED <<arena, heap>> /\ Finish("ScriptException", Unset)
       ELSE /\ frames' = SubSeq(frames, 1, Depth - 1)
            /\ arena' = Released(Frame)
            /\ UNCHANGED <<program, shaped, input, mode, status, heap, pending, outcome>>

Interpret ==
    \/ EnterMain \/ OutOfBudget
    \/ Execute \/ ExecuteFused
    \/ CallDirect \/ CallDispatched \/ CallExternal
    \/ InvokeDelegate \/ InvokeNextLeaf
    \/ JumpOrBranch \/ Return \/ Throw \/ Unwind

Unstarted ==
    /\ shaped = FALSE /\ mode = Tiers[1]
    /\ frames = <<>> /\ arena = <<>> /\ heap = <<>> /\ pending = Unset
    /\ input = [main |-> NoId, args |-> <<>>, budget |-> 0, host |-> Unresolved]
    /\ executed = 0 /\ cache = [i \in {} |-> 0]
    /\ outcome = [m \in {Tiers[k] : k \in DOMAIN Tiers} |->
                     [code |-> "Pending", value |-> Unset, heap |-> <<>>, executed |-> 0]]

Idle == Unstarted /\ status = "link"

(* ------------------------------ properties ---------------------------- *)

\* The verifier is sound: a module that links, with the shape the compiler
\* gives it, is never stopped for a type, a slot or an argument count, and
\* whatever runs next finds values of their declared types in its registers
\* (BytecodeVerifier.cpp, the checks repeated by executeInstruction).
StuckCodes == {"TypeMismatch", "InvalidProgram", "InvalidObjectReference", "BadVariantAccess"}

VerifiedNeverStuck ==
    shaped =>
        /\ \A m \in DOMAIN outcome : outcome[m].code \notin StuckCodes
        /\ Running => \A r \in RegsOf(Fun, Frame.block, Frame.at) : HasType(Reg(r), Fun.regs[r])

\* A call that hits the inline cache enters the function its own reference
\* dispatches to on the receiver at hand, whatever sites share the entry and
\* whatever receivers passed before (executeCall).
CacheExact ==
    AtCall /\ Callee.mode # "direct" /\ IsRecord(Reg(Ins.args[1])) =>
        LET receiver == Reg(Ins.args[1]) IN
        Hit(receiver) => cache[CacheIndex].target = Dispatched(Callee, heap[receiver[2]].type)

\* The frame and handler an exception must reach: the innermost frame that has
\* one, and there the first in the handler table; <<0, 0>> when there is none.
Nearest ==
    LET handlers(d) == Code[frames[d].fn].handlers
        takes(d, k) == /\ frames[d].block \in handlers(d)[k].protect
                       /\ LET class == handlers(d)[k].catch IN class = NoId \/ Assignable(heap[pending[2]].type, class)
        takers == {d \in 1..Depth : \E k \in DOMAIN handlers(d) : takes(d, k)}
    IN  IF takers = {} THEN <<0, 0>>
        ELSE LET d == MaxOf(takers)
                 k == CHOOSE k \in DOMAIN handlers(d) : takes(d, k) /\ \A j \in 1..(k - 1) : ~takes(d, j)
             IN  <<d, handlers(d)[k].target>>

\* Unwinding one frame at a time ends where that search says, and as an
\* unhandled exception only when no frame has a handler, in every tier
\* (routePendingException; the routes AotCpp.cpp generates after each call).
UnwindsToNearest ==
    [][status = "unwind" =>
        \/ status' = "unwind" /\ Nearest' = Nearest
        \/ status' \in {"run", "native"} /\ Nearest = <<Len(frames'), frames'[Len(frames')].block>>
        \/ outcome'[mode].code = "ScriptException" /\ Nearest = <<0, 0>>]_vars
=============================================================================
