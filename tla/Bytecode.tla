------------------------------ MODULE Bytecode ------------------------------
(***************************************************************************)
(* Bytecode modules, the verifier that admits them for execution and the   *)
(* checks of the link step (Bytecode.h, BytecodeVerifier.cpp,              *)
(* RuntimeServices.cpp).  A type is a pair of a primitive kind and the     *)
(* identity of a descriptor, NoId where the kind has none.  Registers,     *)
(* blocks and local slots are numbered from 1; block 1 is the entry.       *)
(* Names, source ranges and debug information are left out.                *)
(***************************************************************************)
EXTENDS Arithmetic, Sequences, FiniteSets, TLC

VARIABLE
    program       \* the module: its types, call references and functions

Types == program.types
References == program.references
Code == program.functions

NoId == "none"
NoReg == 0

Ty(prim, id) == <<prim, id>>
Plain(prim) == <<prim, NoId>>

IntT == Plain("Int")
BoolT == Plain("Bool")
NullT == Plain("Null")
VoidT == Plain("Void")

ReferencePrims == {"Object", "Array"}
StoragePrims == {"Int", "Bool", "Object", "Array", "Struct"}
IntCarrier == {"Int", "UInt"}

(* ----------------------------- descriptors ---------------------------- *)

\* The classes from which a descriptor inherits, itself included.
Ancestry[n \in 0..Cardinality(DOMAIN Types)] ==
    [t \in DOMAIN Types |->
        IF n = 0 \/ Types[t].base \notin DOMAIN Types THEN {t}
        ELSE {t} \cup Ancestry[n - 1][Types[t].base]]

Ancestors(t) ==
    IF t \in DOMAIN Types THEN Ancestry[Cardinality(DOMAIN Types)][t] ELSE {}

\* Equal, inherited from, or mapped as an interface by a class on the way.
Assignable(actual, expected) ==
    \/ actual = expected
    \/ \E t \in Ancestors(actual) :
          expected = Types[t].base \/ expected \in DOMAIN Types[t].ifaces

Compatible(actual, expected) ==
    /\ actual[1] = expected[1]
    /\ IF actual[1] = "Object"
       THEN \/ expected[2] = NoId
            \/ actual[2] # NoId /\ Assignable(actual[2], expected[2])
       ELSE actual[2] = expected[2]

ClassKinds == {"class", "interface", "delegate"}

KnownIdentity(ty) ==
    CASE ty[1] = "Object" -> ty[2] = NoId \/ (ty[2] \in DOMAIN Types /\ Types[ty[2]].kind \in ClassKinds)
      [] ty[1] = "Struct" -> ty[2] \in DOMAIN Types /\ Types[ty[2]].kind = "struct"
      [] ty[1] = "Array"  -> ty[2] # NoId
      [] OTHER            -> ty[2] = NoId

ArrayId(el) == (IF el[1] \in {"Object", "Struct"} THEN el[2] ELSE el[1]) \o "[]"
ArrayOf(el) == Ty("Array", ArrayId(el))

DescriptorOk(t) ==
    LET d == Types[t] IN
    /\ d.kind # "class" => d.vtable = <<>>
    /\ d.kind = "interface" => d.fields = <<>> /\ d.ifaces = <<>>
    /\ ~d.abstract =>
          /\ \A s \in DOMAIN d.vtable : d.vtable[s] # NoId
          /\ \A i \in DOMAIN d.ifaces : \A s \in DOMAIN d.ifaces[i] : d.ifaces[i][s] # NoId
    /\ \A k \in DOMAIN d.fields :
          d.fields[k][1] \in StoragePrims /\ KnownIdentity(d.fields[k])

ReferenceOk(r) ==
    LET ref == References[r] IN
    /\ ref.ret[1] \in StoragePrims \cup {"Void"} /\ KnownIdentity(ref.ret)
    /\ \A k \in DOMAIN ref.params :
          ref.params[k][1] \in StoragePrims /\ KnownIdentity(ref.params[k])
    /\ ref.mode = "virtual" =>
          /\ ref.params # <<>> /\ ref.params[1][1] = "Object"
          /\ ref.params[1][2] \in DOMAIN Types
          /\ ref.slot \in DOMAIN Types[ref.params[1][2]].vtable
    /\ ref.mode = "interface" =>
          /\ ref.params # <<>> /\ ref.params[1][1] = "Object"
          /\ ref.params[1][2] \in DOMAIN Types
          /\ Types[ref.params[1][2]].kind = "interface"
          /\ ref.slot \in DOMAIN Types[ref.params[1][2]].methods
    /\ ref.symbol \in DOMAIN Code =>
          Code[ref.symbol].params = ref.params /\ Code[ref.symbol].ret = ref.ret

(* ------------------------------ functions ----------------------------- *)

RegType(f, r) == IF r \in DOMAIN f.regs THEN f.regs[r] ELSE Plain("Error")
Successors(f, b) == {f.blocks[b].term.to[k][1] : k \in DOMAIN f.blocks[b].term.to}
HandlersOf(f, b) == {k \in DOMAIN f.handlers : b \in f.handlers[k].protect}

\* Jumps, branches, and the way from a protected block to its handler.
FlowTo(f, b) ==
    (Successors(f, b) \cup {f.handlers[k].target : k \in HandlersOf(f, b)}) \cap DOMAIN f.blocks

\* The blocks reached from the entry by a path that avoids `without`.
ReachedAvoiding(f, without) ==
    LET grow[n \in 0..Len(f.blocks)] ==
            IF n = 0 THEN {1} \ without
            ELSE LET seen == grow[n - 1] IN seen \cup (UNION {FlowTo(f, b) : b \in seen} \ without)
    IN  grow[Len(f.blocks)]

Dominates(f, a, b) == a = b \/ b \notin ReachedAvoiding(f, {a})

Defines(ins) ==
    CASE ins.op \in {"StoreLocal", "StoreField", "StoreElement"} -> FALSE
      [] ins.op = "Call" -> References[ins.idx].ret # VoidT
      [] ins.op = "InvokeDelegate" -> ins.res # NoReg
      [] OTHER -> TRUE

\* The places that define a register: a block parameter stands before the
\* first instruction of its block.
Definitions(f, r) ==
    UNION {{<<b, 0>> : k \in {j \in DOMAIN f.blocks[b].params : f.blocks[b].params[j] = r}} \cup
           {<<b, i>> : i \in {j \in DOMAIN f.blocks[b].code :
                Defines(f.blocks[b].code[j]) /\ f.blocks[b].code[j].res = r}} : b \in DOMAIN f.blocks}

DefinedOnce(f) ==
    /\ \A r \in DOMAIN f.regs : Cardinality(Definitions(f, r)) = 1
    /\ \A b \in DOMAIN f.blocks :
          /\ \A i, j \in DOMAIN f.blocks[b].params :
                i # j => f.blocks[b].params[i] # f.blocks[b].params[j]
          /\ \A k \in DOMAIN f.blocks[b].code :
                LET ins == f.blocks[b].code[k] IN
                IF Defines(ins) THEN ins.res \in DOMAIN f.regs ELSE ins.res = NoReg

UsableAt(f, r, b, at) ==
    /\ r \in DOMAIN f.regs
    /\ \E d \in Definitions(f, r) :
          IF d[1] = b THEN d[2] < at ELSE Dominates(f, d[1], b)

HandlersOk(f) ==
    \A k \in DOMAIN f.handlers :
        LET h == f.handlers[k] IN
        /\ h.target \in DOMAIN f.blocks
        /\ h.protect \subseteq DOMAIN f.blocks
        /\ h.local \in DOMAIN f.locals
        /\ f.locals[h.local] = Ty("Object", h.catch)
        /\ h.catch # NoId => h.catch \in DOMAIN Types /\ Types[h.catch].kind \in ClassKinds

EdgeOk(f, b, edge) ==
    LET at == Len(f.blocks[b].code) + 1 IN
    /\ edge[1] \in DOMAIN f.blocks
    /\ Len(edge[2]) = Len(f.blocks[edge[1]].params)
    /\ \A k \in DOMAIN edge[2] :
          /\ UsableAt(f, edge[2][k], b, at)
          /\ Compatible(RegType(f, edge[2][k]), RegType(f, f.blocks[edge[1]].params[k]))

(* ---------------------------- instructions ---------------------------- *)

\* What an opcode demands of its operand types `a` and its result type `r`;
\* the operand count is part of the demand.
ConstantRule(ins, a, r) ==
    /\ a = <<>>
    /\ CASE ins.op = "ConstantInt"  -> r[1] = "Int"
         [] ins.op = "ConstantBool" -> r[1] = "Bool"
         [] ins.op = "ConstantNull" -> r[1] = "Null"

LocalRule(f, ins, a, r) ==
    CASE ins.op = "LoadParameter" -> a = <<>> /\ ins.idx \in DOMAIN f.params /\ r = f.params[ins.idx]
      [] ins.op = "LoadLocal"     -> a = <<>> /\ ins.idx \in DOMAIN f.locals /\ r = f.locals[ins.idx]
      [] ins.op = "StoreLocal"    -> Len(a) = 1 /\ ins.idx \in DOMAIN f.locals
                                     /\ Compatible(a[1], f.locals[ins.idx])

ConvertRule(ins, a, r) ==
    /\ Len(a) = 1
    /\ a[1][1] = "Null"
    /\ IF ins.op = "ConvertNullToObject" THEN r[1] = "Object" ELSE r[1] = "Array" /\ r[2] # NoId

TypeTestRule(ins, a, r) ==
    /\ Len(a) = 1 /\ a[1][1] \in ReferencePrims
    /\ ins.el[1] \in {"Object", "Struct", "Array"} => ins.el[2] \in DOMAIN Types
    /\ IF ins.op = "IsType" THEN r[1] = "Bool"
       ELSE r[1] = ins.el[1] /\ ins.el[1] \in ReferencePrims

NewRule(ins, a, r) ==
    CASE ins.op = "NewObject" -> a = <<>> /\ ins.idx \in DOMAIN Types
                                 /\ Types[ins.idx].kind = "class" /\ r = Ty("Object", ins.idx)
      [] ins.op = "NewStruct" -> a = <<>> /\ ins.idx \in DOMAIN Types
                                 /\ Types[ins.idx].kind = "struct" /\ r = Ty("Struct", ins.idx)
      [] ins.op = "NewArray"  -> Len(a) = 1 /\ a[1][1] = "Int" /\ KnownIdentity(ins.el)
                                 /\ r = ArrayOf(ins.el)

ArrayRule(ins, a, r) ==
    IF ins.op = "ArrayLength" THEN Len(a) = 1 /\ a[1][1] = "Array" /\ r[1] = "Int"
    ELSE /\ Len(a) = (IF ins.op = "LoadElement" THEN 2 ELSE 3)
         /\ KnownIdentity(ins.el)
         /\ a[1] = ArrayOf(ins.el) /\ a[2][1] = "Int"
         /\ IF ins.op = "LoadElement" THEN r = ins.el ELSE Compatible(a[3], ins.el)

CheckNotNullRule(ins, a, r) ==
    /\ Len(a) = 1 /\ a[1][1] = "Object"
    /\ ins.idx \in DOMAIN Types /\ Types[ins.idx].kind \in ClassKinds
    /\ Assignable(a[1][2], ins.idx)
    /\ r = Ty("Object", ins.idx)

FieldRule(ins, a, r) ==
    /\ ins.idx[1] \in DOMAIN Types
    /\ LET t == ins.idx[1]  d == Types[t]  k == ins.idx[2]
           prim == IF ins.op \in {"LoadField", "StoreField"} THEN "Object" ELSE "Struct" IN
       /\ IF prim = "Object" THEN d.kind \in ClassKinds ELSE d.kind = "struct"
       /\ k \in DOMAIN d.fields /\ Len(a) >= 1 /\ a[1] = Ty(prim, t)
       /\ CASE ins.op \in {"LoadField", "LoadStructField"} -> Len(a) = 1 /\ r = d.fields[k]
            [] ins.op = "StoreField"       -> Len(a) = 2 /\ Compatible(a[2], d.fields[k])
            [] ins.op = "StoreStructField" -> Len(a) = 2 /\ a[2] = d.fields[k] /\ r = Ty("Struct", t)

\* Fault: the arguments of a call are counted and not compared.
CallRuleByCount(ins, a, r) ==
    /\ ins.idx \in DOMAIN References
    /\ Len(a) = Len(References[ins.idx].params)
    /\ References[ins.idx].ret # VoidT => r = References[ins.idx].ret

CallRule(ins, a, r) ==
    /\ ins.idx \in DOMAIN References
    /\ LET ref == References[ins.idx] IN
       /\ Len(a) = Len(ref.params)
       /\ \A k \in DOMAIN a : Compatible(a[k], ref.params[k])
       /\ ref.ret # VoidT => r = ref.ret

DelegateRule(ins, a, r) ==
    /\ ins.el[2] \in DOMAIN Types /\ Types[ins.el[2]].kind = "delegate"
    /\ LET me == Ty("Object", ins.el[2])  sig == Types[ins.el[2]].invoke IN
       CASE ins.op = "NewDelegate" ->
               /\ Len(a) <= 1 /\ ins.idx \in DOMAIN References /\ r = me
               /\ a # <<>> => /\ References[ins.idx].params # <<>>
                              /\ Compatible(a[1], References[ins.idx].params[1])
         [] ins.op = "InvokeDelegate" ->
               /\ Len(a) = Len(sig.params) + 1 /\ a[1] = me
               /\ \A k \in DOMAIN sig.params : Compatible(a[k + 1], sig.params[k])
               /\ IF sig.ret = VoidT THEN ins.res = NoReg ELSE ins.res # NoReg /\ r = sig.ret
         [] OTHER -> a = <<me, me>> /\ r = me

IntOps == {"AddInt", "SubtractInt", "MultiplyInt", "DivideInt", "RemainderInt"}
IntTests == {"LessInt", "LessOrEqualInt", "GreaterInt", "GreaterOrEqualInt"}

ArithmeticRule(ins, a, r) ==
    CASE ins.op = "NegateInt"  -> Len(a) = 1 /\ a[1][1] \in IntCarrier /\ r[1] = a[1][1]
      [] ins.op = "LogicalNot" -> Len(a) = 1 /\ a[1][1] = "Bool" /\ r[1] = "Bool"
      [] ins.op \in IntOps     -> Len(a) = 2 /\ r[1] \in IntCarrier /\ a[1][1] = r[1] /\ a[2][1] = r[1]
      [] ins.op \in IntTests   -> Len(a) = 2 /\ a[1][1] \in IntCarrier /\ a[2][1] = a[1][1] /\ r[1] = "Bool"
      [] OTHER                 -> Len(a) = 2 /\ a[1][1] = a[2][1] /\ r[1] = "Bool"

ConstantOps == {"ConstantInt", "ConstantBool", "ConstantNull"}
LocalOps == {"LoadParameter", "LoadLocal", "StoreLocal"}
ConvertOps == {"ConvertNullToObject", "ConvertNullToArray"}
TypeTests == {"IsType", "AsType"}
NewOps == {"NewObject", "NewStruct", "NewArray"}
ArrayOps == {"ArrayLength", "LoadElement", "StoreElement"}
FieldOps == {"LoadField", "StoreField", "LoadStructField", "StoreStructField"}
DelegateOps == {"NewDelegate", "InvokeDelegate", "CombineDelegate", "RemoveDelegate"}
ArithmeticOps == {"NegateInt", "LogicalNot", "Equal", "NotEqual"} \cup IntOps \cup IntTests
UncheckedOps == {"NegateInt", "AddInt", "SubtractInt", "MultiplyInt", "DivideInt", "RemainderInt"}

InstructionOk(f, b, at) ==
    LET ins == f.blocks[b].code[at]
        a == [k \in DOMAIN ins.args |-> RegType(f, ins.args[k])]
        r == RegType(f, ins.res)
    IN  /\ ~ins.checked => ins.op \in UncheckedOps
        /\ \A k \in DOMAIN ins.args : UsableAt(f, ins.args[k], b, at)
        /\ CASE ins.op \in ConstantOps   -> ConstantRule(ins, a, r)
             [] ins.op \in LocalOps      -> LocalRule(f, ins, a, r)
             [] ins.op \in ConvertOps    -> ConvertRule(ins, a, r)
             [] ins.op \in TypeTests     -> TypeTestRule(ins, a, r)
             [] ins.op \in NewOps        -> NewRule(ins, a, r)
             [] ins.op \in ArrayOps      -> ArrayRule(ins, a, r)
             [] ins.op = "CheckNotNull"  -> CheckNotNullRule(ins, a, r)
             [] ins.op \in FieldOps      -> FieldRule(ins, a, r)
             [] ins.op = "Call"          -> CallRule(ins, a, r)
             [] ins.op \in DelegateOps   -> DelegateRule(ins, a, r)
             [] ins.op \in ArithmeticOps -> ArithmeticRule(ins, a, r)

TerminatorOk(f, b) ==
    LET t == f.blocks[b].term
        used == UsableAt(f, t.reg, b, Len(f.blocks[b].code) + 1)
        ty == RegType(f, t.reg)
    IN  CASE t.kind = "Jump"        -> Len(t.to) = 1 /\ EdgeOk(f, b, t.to[1])
          [] t.kind = "Branch"      -> used /\ ty[1] = "Bool" /\ Len(t.to) = 2
                                       /\ EdgeOk(f, b, t.to[1]) /\ EdgeOk(f, b, t.to[2])
          [] t.kind = "ReturnValue" -> used /\ f.ret # VoidT /\ Compatible(ty, f.ret)
          [] t.kind = "ReturnVoid"  -> f.ret = VoidT
          [] t.kind = "Throw"       -> used /\ ty[1] = "Object"
          [] OTHER                  -> FALSE

FunctionOk(f) ==
    /\ f.ret[1] \in StoragePrims \cup {"Void"} /\ KnownIdentity(f.ret)
    /\ \A k \in DOMAIN f.params : f.params[k][1] \in StoragePrims /\ KnownIdentity(f.params[k])
    /\ \A r \in DOMAIN f.regs : f.regs[r][1] \in StoragePrims \cup {"Null"} /\ KnownIdentity(f.regs[r])
    /\ \A l \in DOMAIN f.locals : f.locals[l][1] \in StoragePrims /\ KnownIdentity(f.locals[l])
    /\ f.blocks # <<>>
    /\ DefinedOnce(f)
    /\ HandlersOk(f)
    /\ ReachedAvoiding(f, {}) = DOMAIN f.blocks
    /\ \A b \in DOMAIN f.blocks :
          /\ \A at \in DOMAIN f.blocks[b].code : InstructionOk(f, b, at)
          /\ TerminatorOk(f, b)

VerifyModule ==
    /\ \A t \in DOMAIN Types : DescriptorOk(t)
    /\ \A r \in DOMAIN References : ReferenceOk(r)
    /\ \A s \in DOMAIN Code : FunctionOk(Code[s])

(* ------------------------------- linking ------------------------------ *)

\* The receiver of a method is its first parameter.
Implements(s, contract) ==
    /\ s \in DOMAIN Code /\ Code[s].params # <<>>
    /\ Tail(Code[s].params) = contract.params /\ Code[s].ret = contract.ret

ClassContractOk(t) ==
    LET d == Types[t] IN
    /\ t \notin UNION {Ancestors(b) : b \in {d.base} \cap DOMAIN Types}
    /\ d.base # NoId =>
          /\ d.base \in DOMAIN Types /\ Types[d.base].kind = "class" /\ ~Types[d.base].sealed
          /\ Len(Types[d.base].fields) <= Len(d.fields)
          /\ \A k \in DOMAIN Types[d.base].fields : Types[d.base].fields[k] = d.fields[k]

\* A slot is checked against the method this very type declares for it.
SlotsOk(t) ==
    LET d == Types[t] IN
    /\ \A s \in DOMAIN d.vtable : IF d.vtable[s] = NoId THEN d.abstract ELSE d.vtable[s] \in DOMAIN Code
    /\ \A i \in DOMAIN d.ifaces :
          /\ i \in DOMAIN Types /\ Types[i].kind = "interface"
          /\ DOMAIN d.ifaces[i] = DOMAIN Types[i].methods
          /\ \A s \in DOMAIN d.ifaces[i] :
                IF d.ifaces[i][s] = NoId THEN d.abstract
                ELSE Implements(d.ifaces[i][s], Types[i].methods[s])

ObjectModelOk ==
    \A t \in DOMAIN Types : (Types[t].kind = "class" => ClassContractOk(t)) /\ SlotsOk(t)

Links == VerifyModule /\ ObjectModelOk

(* ----------------- what the verifier leaves to the compiler ----------- *)

\* The blocks reached when the normal exits of `d` are cut: the way to its
\* handlers stays open, because an exception leaves a block before its end.
ReachedCutting(f, d) ==
    LET exits(b) == IF b = d THEN {f.handlers[k].target : k \in HandlersOf(f, b)} ELSE FlowTo(f, b)
        grow[n \in 0..Len(f.blocks)] ==
            IF n = 0 THEN {1} ELSE LET seen == grow[n - 1] IN seen \cup UNION {exits(b) : b \in seen}
    IN  grow[Len(f.blocks)]

Completed(f, d, b, at) == IF d[1] = b THEN d[2] < at ELSE b \notin ReachedCutting(f, d[1])

RegsOf(f, b, at) ==
    IF at \in DOMAIN f.blocks[b].code
    THEN {f.blocks[b].code[at].args[k] : k \in DOMAIN f.blocks[b].code[at].args}
    ELSE UNION {{f.blocks[b].term.to[k][2][j] : j \in DOMAIN f.blocks[b].term.to[k][2]} :
                k \in DOMAIN f.blocks[b].term.to}
         \cup ({f.blocks[b].term.reg} \ {NoReg})

\* Every register is computed, not just defined on the way, before its use.
ComputedBeforeUse(f) ==
    \A b \in DOMAIN f.blocks : \A at \in 1..(Len(f.blocks[b].code) + 1) : \A r \in RegsOf(f, b, at) :
        \E d \in Definitions(f, r) : d[2] = 0 \/ Completed(f, d, b, at)

LocalsAssigned(f) ==
    \A b \in DOMAIN f.blocks : \A at \in DOMAIN f.blocks[b].code :
        LET ins == f.blocks[b].code[at] IN
        ins.op = "LoadLocal" =>
            \/ \E k \in DOMAIN f.handlers :
                  f.handlers[k].local = ins.idx /\ Dominates(f, f.handlers[k].target, b)
            \/ \E c \in DOMAIN f.blocks : \E j \in DOMAIN f.blocks[c].code :
                  /\ f.blocks[c].code[j].op = "StoreLocal" /\ f.blocks[c].code[j].idx = ins.idx
                  /\ Completed(f, <<c, j>>, b, at)

NoParametersFromNowhere(f) ==
    \A b \in {1} \cup {f.handlers[k].target : k \in DOMAIN f.handlers} : f.blocks[b].params = <<>>

InstructionShape(f, ins) ==
    /\ ins.op = "AsType" => RegType(f, ins.res) = ins.el
    /\ ins.op = "NewObject" => ~Types[ins.idx].abstract
    /\ ins.op = "NewDelegate" =>
          LET ref == References[ins.idx]  sig == Types[ins.el[2]].invoke IN
          /\ ref.symbol \in DOMAIN Code
          /\ ref.ret = sig.ret
          /\ sig.params = IF ins.args = <<>> THEN ref.params ELSE Tail(ref.params)
    /\ ins.op = "Call" => References[ins.idx].symbol \in DOMAIN Code \/ References[ins.idx].ret # VoidT

\* An override keeps the signature of the slot it fills.
SlotShape(t) ==
    \A a \in Ancestors(t) : \A s \in DOMAIN Types[a].vtable :
        /\ s \in DOMAIN Types[t].vtable
        /\ LET base == Types[a].vtable[s]  own == Types[t].vtable[s] IN
           base # NoId /\ own # NoId =>
               Tail(Code[base].params) = Tail(Code[own].params) /\ Code[base].ret = Code[own].ret

\* A class repeats the dispatch maps of its bases.
FaceShape(t) == \A a \in Ancestors(t) : DOMAIN Types[a].ifaces \subseteq DOMAIN Types[t].ifaces

FunctionShape(f) ==
    /\ ComputedBeforeUse(f) /\ LocalsAssigned(f) /\ NoParametersFromNowhere(f)
    /\ \A b \in DOMAIN f.blocks : \A at \in DOMAIN f.blocks[b].code : InstructionShape(f, f.blocks[b].code[at])

CompilerShape ==
    /\ \A t \in DOMAIN Types : SlotShape(t) /\ FaceShape(t)
    /\ \A s \in DOMAIN Code : FunctionShape(Code[s])
=============================================================================
