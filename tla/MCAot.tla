-------------------------------- MODULE MCAot --------------------------------
(***************************************************************************)
(* The programs the tiers are compared on: one object model, and main      *)
(* functions built from pools of instructions in four control shapes.      *)
(* Ill-typed combinations are built too; the verifier has to refuse them.  *)
(***************************************************************************)
EXTENDS Aot

CONSTANT Budgets

ObjT(t) == Ty("Object", t)
StrT(t) == Ty("Struct", t)

MCClass(base, fields, vtable, ifaces) ==
    [kind |-> "class", base |-> base, fields |-> fields, vtable |-> vtable, ifaces |-> ifaces,
     methods |-> <<>>, abstract |-> FALSE, sealed |-> FALSE, invoke |-> <<>>]
NoFaces == [i \in {} |-> <<>>]
Bare(kind) == [MCClass(NoId, <<>>, <<>>, NoFaces) EXCEPT !.kind = kind]
Getter == [params |-> <<>>, ret |-> IntT]

MCTypes ==
    [A |-> MCClass(NoId, <<IntT>>, <<"A.m">>, [I |-> <<"A.m">>]),
     B |-> MCClass("A", <<IntT, ObjT("A")>>, <<"B.m">>, [I |-> <<"B.m">>]),
     I |-> [Bare("interface") EXCEPT !.methods = <<Getter>>, !.abstract = TRUE],
     E |-> MCClass(NoId, <<>>, <<>>, NoFaces),
     F |-> MCClass("E", <<>>, <<>>, NoFaces),
     D |-> [Bare("delegate") EXCEPT !.invoke = Getter],
     P |-> [Bare("struct") EXCEPT !.fields = <<IntT, BoolT>>]]

\* Link errors: a derived class that drops its base's fields, and an empty slot.
MCTypesTruncated == [MCTypes EXCEPT !.B.fields = <<>>]
MCTypesEmptySlot == [MCTypes EXCEPT !.B.vtable = <<NoId>>]

MCRef(symbol, params, ret, dispatch) ==
    [symbol |-> symbol, params |-> params, ret |-> ret, mode |-> dispatch,
     slot |-> IF dispatch = "direct" THEN 0 ELSE 1, iface |-> IF dispatch = "interface" THEN "I" ELSE NoId]

MCReferences ==
    [vm    |-> MCRef("A.m", <<ObjT("A")>>, IntT, "virtual"),
     im    |-> MCRef("I.m", <<ObjT("I")>>, IntT, "interface"),
     leaf  |-> MCRef("leaf", <<>>, IntT, "direct"),
     div   |-> MCRef("div", <<IntT, IntT>>, IntT, "direct"),
     try   |-> MCRef("try", <<ObjT("A")>>, IntT, "direct"),
     spin  |-> MCRef("spin", <<>>, IntT, "direct"),
     host  |-> MCRef("host", <<>>, IntT, "direct"),
     hostV |-> MCRef("hostV", <<IntT>>, VoidT, "direct")]

\* Instructions and terminators.
I(op, res, args, idx) == [op |-> op, res |-> res, args |-> args, idx |-> idx, el |-> VoidT, checked |-> TRUE]
IE(op, res, args, idx, el) == [I(op, res, args, idx) EXCEPT !.el = el]
IU(op, res, args) == [I(op, res, args, 0) EXCEPT !.checked = FALSE]
T(kind, reg, to) == [kind |-> kind, reg |-> reg, to |-> to]
Ret(r) == T("ReturnValue", r, <<>>)
Jump(b, args) == T("Jump", NoReg, <<<<b, args>>>>)
If(r, b, c) == T("Branch", r, <<<<b, <<>>>>, <<c, <<>>>>>>)
B(params, code, term) == [params |-> params, code |-> code, term |-> term]
Fn(params, ret, locals, regs, blocks, handlers) ==
    [params |-> params, ret |-> ret, locals |-> locals, regs |-> regs, blocks |-> blocks, handlers |-> handlers]
Handler(protect, catch, local, target) ==
    [protect |-> protect, catch |-> catch, local |-> local, target |-> target]

MCFunctions ==
    ("A.m" :> Fn(<<ObjT("A")>>, IntT, <<>>, <<ObjT("A"), IntT>>,
        <<B(<<>>, <<I("LoadParameter", 1, <<>>, 1), I("LoadField", 2, <<1>>, <<"A", 1>>)>>, Ret(2))>>, <<>>)) @@
    ("B.m" :> Fn(<<ObjT("B")>>, IntT, <<>>, <<ObjT("F")>>,
        <<B(<<>>, <<I("NewObject", 1, <<>>, "F")>>, T("Throw", 1, <<>>))>>, <<>>)) @@
    ("leaf" :> Fn(<<>>, IntT, <<>>, <<IntT>>, <<B(<<>>, <<I("ConstantInt", 1, <<>>, 2)>>, Ret(1))>>, <<>>)) @@
    ("div" :> Fn(<<IntT, IntT>>, IntT, <<IntT, IntT>>, <<IntT, IntT, IntT, IntT, IntT, IntT>>,
        <<B(<<>>, <<I("LoadParameter", 1, <<>>, 1), I("StoreLocal", 0, <<1>>, 1),
                    I("LoadParameter", 2, <<>>, 2), I("StoreLocal", 0, <<2>>, 2),
                    I("LoadLocal", 3, <<>>, 1), I("LoadLocal", 4, <<>>, 2),
                    I("DivideInt", 5, <<3, 4>>, 0), I("StoreLocal", 0, <<5>>, 1),
                    I("LoadLocal", 6, <<>>, 1)>>, Ret(6))>>, <<>>)) @@
    \* Calls its receiver and catches what it throws.
    ("try" :> Fn(<<ObjT("A")>>, IntT, <<ObjT("E"), ObjT("F")>>, <<ObjT("A"), IntT, IntT>>,
        <<B(<<>>, <<I("LoadParameter", 1, <<>>, 1), I("Call", 2, <<1>>, "vm")>>, Ret(2)),
          B(<<>>, <<I("ConstantInt", 3, <<>>, 1)>>, Ret(3))>>,
        <<Handler({1}, "E", 1, 2)>>)) @@
    \* Catches only what it never throws, while the exception passes through.
    ("spin" :> Fn(<<>>, IntT, <<ObjT("A")>>, <<ObjT("F"), IntT>>,
        <<B(<<>>, <<I("NewObject", 1, <<>>, "F")>>, T("Throw", 1, <<>>)),
          B(<<>>, <<I("ConstantInt", 2, <<>>, 1)>>, Ret(2))>>,
        <<Handler({1}, "A", 1, 2)>>))

Image(main) == [types |-> MCTypes, references |-> MCReferences, functions |-> ("main" :> main) @@ MCFunctions]

(* --------------- straight code with one optional handler -------------- *)

First ==
    <<<<IntT, I("ConstantInt", 1, <<>>, 0)>>, <<IntT, I("LoadParameter", 1, <<>>, 1)>>,
      <<ObjT("A"), I("NewObject", 1, <<>>, "A")>>, <<ObjT("B"), I("NewObject", 1, <<>>, "B")>>,
      <<ObjT("F"), I("NewObject", 1, <<>>, "F")>>, <<StrT("P"), I("NewStruct", 1, <<>>, "P")>>,
      <<ObjT("D"), IE("NewDelegate", 1, <<>>, "leaf", ObjT("D"))>>, <<NullT, I("ConstantNull", 1, <<>>, 0)>>>>

Second ==
    <<<<IntT, I("LoadParameter", 2, <<>>, 1)>>, <<IntT, I("ConstantInt", 2, <<>>, -1)>>,
      <<ObjT("A"), I("ConvertNullToObject", 2, <<1>>, 0)>>,
      <<ArrayOf(IntT), I("ConvertNullToArray", 2, <<1>>, 0)>>,
      <<ArrayOf(IntT), IE("NewArray", 2, <<1>>, 0, IntT)>>,
      <<ObjT("A"), I("CheckNotNull", 2, <<1>>, "A")>>,
      <<BoolT, IE("IsType", 2, <<1>>, 0, ObjT("B"))>>, <<ObjT("B"), IE("AsType", 2, <<1>>, 0, ObjT("B"))>>,
      <<IntT, I("LoadField", 2, <<1>>, <<"A", 1>>)>>, <<BoolT, I("LoadStructField", 2, <<1>>, <<"P", 2>>)>>,
      <<IntT, I("Call", 2, <<1>>, "vm")>>, <<IntT, I("Call", 2, <<1>>, "try")>>,
      <<ObjT("D"), IE("NewDelegate", 2, <<1>>, "im", ObjT("D"))>>,
      <<ObjT("D"), IE("CombineDelegate", 2, <<1, 1>>, 0, ObjT("D"))>>>>

Third ==
    <<<<IntT, I("AddInt", 3, <<1, 2>>, 0)>>, <<IntT, IU("MultiplyInt", 3, <<1, 2>>)>>,
      <<IntT, I("DivideInt", 3, <<1, 2>>, 0)>>, <<IntT, I("RemainderInt", 3, <<1, 2>>, 0)>>, <<IntT, I("Call", 3, <<2, 1>>, "div")>>,
      <<BoolT, I("LessInt", 3, <<1, 2>>, 0)>>, <<BoolT, I("NotEqual", 3, <<2, 2>>, 0)>>,
      <<BoolT, I("LogicalNot", 3, <<2>>, 0)>>, <<IntT, IU("NegateInt", 3, <<1>>)>>,
      <<IntT, IE("LoadElement", 3, <<2, 1>>, 0, IntT)>>, <<IntT, I("ArrayLength", 3, <<2>>, 0)>>,
      <<IntT, I("StoreField", 0, <<1, 2>>, <<"A", 1>>)>>,
      <<StrT("P"), I("StoreStructField", 3, <<1, 2>>, <<"P", 2>>)>>,
      <<IntT, I("LoadField", 3, <<2>>, <<"B", 1>>)>>,
      <<ObjT("D"), IE("RemoveDelegate", 3, <<2, 1>>, 0, ObjT("D"))>>,
      <<IntT, IE("InvokeDelegate", 3, <<2>>, 0, ObjT("D"))>>, <<IntT, I("Call", 3, <<1>>, "im")>>,
      <<IntT, I("Call", 3, <<>>, "host")>>, <<IntT, I("Call", 3, <<1>>, "hostV")>>,
      <<IntT, I("Call", 3, <<>>, "spin")>>,
      <<IntT, IE("StoreElement", 0, <<2, 1, 1>>, 0, IntT)>>>>

Terms == <<Jump(2, <<>>), If(3, 2, 2), T("Throw", 1, <<>>)>>
Catches == <<NoId, "E", "A">>

\* Instructions without a result do not take a register.
Straight(i, j, k, t, c, r) ==
    LET third == Third[k]
        regs == <<First[i][1], Second[j][1], third[1], IntT, IntT>>
        code == <<First[i][2], Second[j][2], third[2]>>
        filler == IF third[2].res = NoReg THEN <<I("ConstantInt", 3, <<>>, 1)>> ELSE <<>>
        second == B(<<>>, <<I("ConstantInt", 4, <<>>, 3)>> , Ret(r))
    IN  Fn(<<IntT>>, IntT, <<Ty("Object", IF c = 0 THEN NoId ELSE Catches[c])>>,
           IF c = 0 THEN SubSeq(regs, 1, 4) ELSE regs,
           <<B(<<>>, code \o filler, Terms[t]), second>> \o
           IF c = 0 THEN <<>> ELSE <<B(<<>>, <<I("ConstantInt", 5, <<>>, 1)>>, Ret(IF r = 4 THEN 5 ELSE r))>>,
           IF c = 0 THEN <<>> ELSE <<Handler({1}, Catches[c], 1, 3)>>)

(* ------------------- a loop that swaps its two receivers -------------- *)

\* Block 2 takes two receivers and a counter; block 3 calls the first through
\* `call`, inside a handler that leads back into the loop when `again` holds.
Swapping(call, first, second, again) ==
    Fn(<<IntT>>, IntT, <<ObjT("E"), IntT, ObjT("F")>>,
       <<ObjT(first), ObjT(second), IntT, ObjT("A"), ObjT("A"), IntT, BoolT, IntT, IntT, IntT, IntT, IntT>>,
       <<B(<<>>, <<I("NewObject", 1, <<>>, first), I("NewObject", 2, <<>>, second),
                   I("LoadParameter", 3, <<>>, 1), I("StoreLocal", 0, <<3>>, 2)>>, Jump(2, <<1, 2, 3>>)),
         B(<<4, 5, 6>>, <<I("ConstantInt", 8, <<>>, 2), I("LessInt", 7, <<6, 8>>, 0)>>, If(7, 3, 4)),
         B(<<>>, <<I("Call", 9, <<4>>, call), I("ConstantInt", 10, <<>>, 1), I("AddInt", 11, <<6, 10>>, 0),
                   I("StoreLocal", 0, <<11>>, 2)>>, Jump(2, <<5, 4, 11>>)),
         B(<<>>, <<>>, Ret(6)),
         B(<<>>, <<I("LoadLocal", 12, <<>>, 2)>>, IF again THEN Jump(2, <<5, 4, 12>>) ELSE Ret(12))>>,
       <<Handler({3}, "E", 1, 5), Handler({3}, "F", 3, 5)>>)

Idling == Fn(<<IntT>>, IntT, <<>>, <<>>,
    <<B(<<>>, <<>>, Jump(2, <<>>)), B(<<>>, <<>>, Jump(3, <<>>)), B(<<>>, <<>>, Jump(2, <<>>))>>, <<>>)

(* ---------------------- a loop over an Int local ---------------------- *)

\* Blocks: set the local, test it against `limit`, step it, answer.  `start`
\* sets it from a constant, the parameter, or the one after the other; with
\* `late` it is written between the test and the branch; `way` decides the
\* entry by a test of constants.
Starts == <<<<I("ConstantInt", 1, <<>>, -1), I("StoreLocal", 0, <<1>>, 1)>>,
            <<I("LoadParameter", 1, <<>>, 1), I("StoreLocal", 0, <<1>>, 1)>>,
            <<I("ConstantInt", 11, <<>>, 2), I("StoreLocal", 0, <<11>>, 1),
              I("LoadParameter", 1, <<>>, 1), I("StoreLocal", 0, <<1>>, 1)>>>>
Lasts == <<I("NegateInt", 9, <<8>>, 0), I("AddInt", 9, <<8, 8>>, 0), I("RemainderInt", 9, <<8, 12>>, 0),
           I("DivideInt", 9, <<8, 12>>, 0)>>
Ways == <<Jump(2, <<>>), If(14, 2, 4), If(14, 4, 2)>>

\* The constants 12 and 13 and the registers that only one variant needs stand
\* in every function, so that each register has one definition.
Counting(start, test, limit, op, late, last, way) ==
    LET rest == (IF start = 3 THEN <<>> ELSE <<I("ConstantInt", 11, <<>>, 0)>>) \o
                <<I("LoadLocal", 15, <<>>, 1), I("StoreLocal", 0, <<15>>, 1), I("ConstantInt", 12, <<>>, -1),
                  I("ConstantInt", 13, <<>>, IntMax), I("LessInt", 14, <<12, 13>>, 0)>>
        written == IF late THEN <<I("StoreLocal", 0, <<13>>, 1)>> ELSE <<>>
    IN  Fn(<<IntT>>, IntT, <<IntT>>,
           [r \in 1..15 |-> IF r \in {4, 14} THEN BoolT ELSE IntT],
           <<B(<<>>, Starts[start] \o rest, Ways[way]),
             B(<<>>, <<I("LoadLocal", 2, <<>>, 1), I("ConstantInt", 3, <<>>, limit), I(test, 4, <<2, 3>>, 0)>> \o written,
               If(4, 3, 4)),
             B(<<>>, <<I("LoadLocal", 5, <<>>, 1), I("ConstantInt", 6, <<>>, 1), I(op, 7, <<5, 6>>, 0),
                       I("StoreLocal", 0, <<7>>, 1)>>, Jump(2, <<>>)),
             B(<<>>, <<I("LoadLocal", 8, <<>>, 1), Lasts[last], I("AddInt", 10, <<9, 9>>, 0)>>, Ret(10))>>, <<>>)

(* ------------------------------ the instance -------------------------- *)

MCTiers == <<"traced", "fast", "aot", "batch", "jit">>

CallsHost(f) == \E ins \in AllCode(f) : ins.op = "Call" /\ ins.idx \in {"host", "hostV"}

MCInputs(p) ==
    {[main |-> "main", args |-> <<IntV(n)>>, budget |-> budget, host |-> host] :
        n \in {2, IntMin}, budget \in Budgets,
        host \in IF CallsHost(p.functions["main"]) THEN {Unresolved, Unset, IntV(1)} ELSE {Unresolved}}

\* A branch is tried on conditions and a throw on objects; the handler and the
\* result are varied with the instructions.
TermsFor(i, k) ==
    {1} \cup (IF Third[k][1] = BoolT THEN {2} ELSE {}) \cup (IF First[i][1][1] = "Object" THEN {3} ELSE {})
ResultsFor(k, t) == IF Third[k][1] = IntT /\ t # 3 THEN {3, 4} ELSE {4}

StraightInit ==
    \E i \in DOMAIN First, j \in DOMAIN Second, k \in DOMAIN Third :
        \E t \in TermsFor(i, k) : \E r \in ResultsFor(k, t) :
            program = Image(Straight(i, j, k, t, (i + j + k + t) % 4, r))
SwappingInit ==
    \E call \in {"vm", "im", "try"}, first, second \in {"A", "B"}, again \in BOOLEAN :
        program = Image(Swapping(call, first, second, again))
Steps == <<"AddInt", "SubtractInt", "MultiplyInt">>
Tests == <<"LessInt", "LessOrEqualInt", "GreaterInt", "GreaterOrEqualInt">>
CountingInit ==
    \E start \in DOMAIN Starts, test \in DOMAIN Tests, step \in DOMAIN Steps, limit \in {-2, 1}, late \in BOOLEAN :
        program = Image(Counting(start, Tests[test], limit, Steps[step], late,
                                 ((start + test + step) % 4) + 1, ((start + test) % 3) + 1))
IdlingInit ==
    \/ program = Image(Idling)
    \/ \E types \in {"truncated", "empty slot"} :
          program = [Image(Idling) EXCEPT !.types = IF types = "truncated" THEN MCTypesTruncated
                                                    ELSE MCTypesEmptySlot]

MCInit ==
    /\ Idle /\ jitted = [none |-> 0]
    /\ StraightInit \/ SwappingInit \/ CountingInit \/ IdlingInit

\* Weak fairness of Next, with what enables it spelled out: there is a step
\* to take until the end (the check for deadlock), so it is taken.
Progress == []<>(status \in {"done", "rejected"}) \/ []<><<TRUE>>_avars

MCSpec == MCInit /\ [][Next]_avars /\ Progress

=============================================================================
