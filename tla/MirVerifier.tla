----------------------------- MODULE MirVerifier -----------------------------
(***************************************************************************)
(* The verifier of MIR (MirVerifier.cpp), over the module records of       *)
(* Bytecode: an instruction of MIR carries the signature it calls and the  *)
(* type of its result, which the lowering (BytecodeLowerer.cpp) turns one  *)
(* for one into call references and register types.  Both verifiers are    *)
(* written for the same functions; what each asks for is not the same.     *)
(***************************************************************************)
EXTENDS Bytecode

ExactPrims == {"Object", "Array", "Struct"}

\* validTypeIdentity: an identity is asked for, not looked up.
MirIdentity(ty) == IF ty[1] \in ExactPrims THEN ty = Plain("Object") \/ ty[2] # NoId ELSE ty[2] = NoId

Named(t) == t \in DOMAIN Types
ClassLike(t) == Named(t) /\ Types[t].kind \in ClassKinds

MirTypeOk(t) ==
    LET d == Types[t] IN
    /\ d.kind \notin ClassKinds => d.vtable = <<>>
    /\ d.kind = "interface" => d.fields = <<>> /\ d.vtable = <<>> /\ d.ifaces = <<>>
    /\ ~d.abstract =>
          /\ \A s \in DOMAIN d.vtable : d.vtable[s] # NoId
          /\ \A i \in DOMAIN d.ifaces : \A s \in DOMAIN d.ifaces[i] : d.ifaces[i][s] # NoId
    /\ \A k \in DOMAIN d.fields : d.fields[k][1] \notin {"Void", "Null", "Error"}

MirHandlersOk(f) ==
    \A k \in DOMAIN f.handlers :
        LET h == f.handlers[k] IN
        /\ h.target \in DOMAIN f.blocks /\ h.local \in DOMAIN f.locals
        /\ f.locals[h.local] = Ty("Object", h.catch)
        /\ h.catch # NoId => ClassLike(h.catch)
        /\ h.protect \subseteq DOMAIN f.blocks

MirEdgeOk(f, b, edge) ==
    /\ edge[1] \in DOMAIN f.blocks
    /\ Len(edge[2]) = Len(f.blocks[edge[1]].params)
    /\ \A k \in DOMAIN edge[2] :
          /\ UsableAt(f, edge[2][k], b, Len(f.blocks[b].code) + 1)
          /\ Compatible(RegType(f, edge[2][k]), RegType(f, f.blocks[edge[1]].params[k]))

\* expectedOperandCount
OperandCount(ins) ==
    CASE ins.op \in ConstantOps \cup {"LoadParameter", "LoadLocal", "NewObject", "NewStruct"} -> 0
      [] ins.op \in ConvertOps \cup TypeTests \cup
            {"StoreLocal", "NewArray", "CheckNotNull", "ArrayLength", "LoadField", "LoadStructField",
             "NegateInt", "LogicalNot"}     -> 1
      [] ins.op = "StoreElement"            -> 3
      [] ins.op = "Call"                    -> Len(References[ins.idx].params)
      [] ins.op \in {"NewDelegate", "InvokeDelegate"} -> Len(ins.args)
      [] OTHER                              -> 2

MirLocalRule(f, ins, a, r) ==
    CASE ins.op = "LoadParameter" -> ins.idx \in DOMAIN f.params /\ r = f.params[ins.idx]
      [] ins.op = "LoadLocal"     -> ins.idx \in DOMAIN f.locals /\ r = f.locals[ins.idx]
      [] ins.op = "StoreLocal"    -> ins.idx \in DOMAIN f.locals /\ Compatible(a[1], f.locals[ins.idx])

MirConstantRule(ins, r) ==
    CASE ins.op = "ConstantInt"  -> r[1] = "Int"
      [] ins.op = "ConstantBool" -> r[1] = "Bool"
      [] ins.op = "ConstantNull" -> r[1] = "Null"

MirConvertRule(ins, a, r) ==
    /\ a[1][1] = "Null"
    /\ IF ins.op = "ConvertNullToObject" THEN r[1] = "Object" ELSE r[1] = "Array" /\ r[2] # NoId

\* The element of an array is checked; the array's own identity is not.
MirElement(el) ==
    /\ el[1] \notin {"Error", "Void"}
    /\ el[1] \in ExactPrims => el[2] # NoId
    /\ el[1] \in {"Object", "Struct"} => Named(el[2])

MirArrayRule(ins, a, r) ==
    CASE ins.op = "NewArray"     -> r[1] = "Array" /\ r[2] # NoId /\ a[1][1] = "Int" /\ MirElement(ins.el)
      [] ins.op = "ArrayLength"  -> r[1] = "Int" /\ a[1][1] = "Array"
      [] ins.op = "LoadElement"  -> a[1][1] = "Array" /\ a[2][1] = "Int" /\ MirElement(ins.el) /\ r = ins.el
      [] ins.op = "StoreElement" -> a[1][1] = "Array" /\ a[2][1] = "Int" /\ MirElement(ins.el)
                                    /\ Compatible(a[3], ins.el)

MirNewRule(ins, r) ==
    /\ Named(ins.idx)
    /\ IF ins.op = "NewStruct" THEN Types[ins.idx].kind = "struct" /\ r = Ty("Struct", ins.idx)
       ELSE Types[ins.idx].kind = "class" /\ r = Ty("Object", ins.idx)

MirCheckNotNullRule(ins, a, r) == r[1] = "Object" /\ a[1][1] = "Object" /\ Named(ins.idx)

MirTypeTestRule(ins, a, r) ==
    /\ a[1][1] \in ReferencePrims
    /\ IF ins.op = "IsType" THEN r[1] = "Bool" ELSE r[1] = ins.el[1] /\ ins.el[1] \in ReferencePrims
    /\ ins.el[1] \in ExactPrims => Named(ins.el[2])

MirFieldRule(ins, a, r) ==
    LET t == ins.idx[1]  k == ins.idx[2]
        prim == IF ins.op \in {"LoadField", "StoreField"} THEN "Object" ELSE "Struct"
    IN  /\ Named(t) /\ k \in DOMAIN Types[t].fields /\ a[1] = Ty(prim, t)
        /\ CASE ins.op \in {"LoadField", "LoadStructField"} -> r = Types[t].fields[k]
             [] ins.op = "StoreField"       -> Compatible(a[2], Types[t].fields[k])
             [] ins.op = "StoreStructField" -> Compatible(a[2], Types[t].fields[k]) /\ r = Ty("Struct", t)

MirDelegateRule(ins, a, r) ==
    LET me == Ty("Object", ins.el[2])  sig == Types[ins.el[2]].invoke IN
    /\ Named(ins.el[2]) /\ Types[ins.el[2]].kind = "delegate"
    /\ CASE ins.op = "NewDelegate" ->
               /\ Len(a) <= 1 /\ r = me /\ ins.idx \in DOMAIN References
               /\ a # <<>> => References[ins.idx].params # <<>> /\ Compatible(a[1], References[ins.idx].params[1])
         [] ins.op = "InvokeDelegate" ->
               /\ a # <<>> /\ Len(sig.params) + 1 = Len(a) /\ a[1] = me
               /\ \A k \in 2..Len(a) : Compatible(a[k], sig.params[k - 1])
               /\ IF sig.ret = VoidT THEN ins.res = NoReg ELSE ins.res # NoReg /\ r = sig.ret
         [] OTHER -> a = <<me, me>> /\ r = me

MirCallRule(ins, a, r) ==
    /\ ins.idx \in DOMAIN References
    /\ LET ref == References[ins.idx]  receiver == ref.params[1] IN
       /\ Len(ref.params) = Len(a) /\ MirIdentity(ref.ret)
       /\ \A k \in DOMAIN a : Compatible(a[k], ref.params[k]) /\ MirIdentity(ref.params[k])
       /\ ref.mode = "virtual" =>
             /\ ref.params # <<>> /\ receiver[1] = "Object" /\ Named(receiver[2])
             /\ ref.slot \in DOMAIN Types[receiver[2]].vtable
       /\ ref.mode = "interface" =>
             /\ ref.params # <<>> /\ receiver = Ty("Object", ref.iface) /\ Named(ref.iface)
             /\ Types[ref.iface].kind = "interface" /\ ref.slot \in DOMAIN Types[ref.iface].methods
       /\ IF ref.ret = VoidT THEN ins.res = NoReg ELSE ins.res # NoReg /\ r = ref.ret

MirArithmeticRule(ins, a, r) ==
    CASE ins.op = "NegateInt"  -> a[1][1] \in IntCarrier /\ r[1] = a[1][1]
      [] ins.op = "LogicalNot" -> a[1][1] = "Bool" /\ r[1] = "Bool"
      [] ins.op \in IntOps     -> a[1][1] \in IntCarrier /\ r[1] = a[1][1] /\ a[2][1] = a[1][1]
      [] ins.op \in IntTests   -> a[1][1] \in IntCarrier /\ a[2][1] = a[1][1] /\ r[1] = "Bool"
      [] OTHER                 -> a[1] = a[2] /\ r[1] = "Bool"

MirInstructionOk(f, b, at) ==
    LET ins == f.blocks[b].code[at]
        a == [k \in DOMAIN ins.args |-> RegType(f, ins.args[k])]
        r == RegType(f, ins.res)
    IN  /\ (ins.op = "Call" => ins.idx \in DOMAIN References) /\ Len(ins.args) = OperandCount(ins)
        /\ ~ins.checked => ins.op \in UncheckedOps
        /\ \A k \in DOMAIN ins.args : UsableAt(f, ins.args[k], b, at)
        /\ CASE ins.op \in ConstantOps   -> MirConstantRule(ins, r)
             [] ins.op \in LocalOps      -> MirLocalRule(f, ins, a, r)
             [] ins.op \in ConvertOps    -> MirConvertRule(ins, a, r)
             [] ins.op \in TypeTests     -> MirTypeTestRule(ins, a, r)
             [] ins.op \in {"NewObject", "NewStruct"} -> MirNewRule(ins, r)
             [] ins.op \in ArrayOps \cup {"NewArray"} -> MirArrayRule(ins, a, r)
             [] ins.op = "CheckNotNull"  -> MirCheckNotNullRule(ins, a, r)
             [] ins.op \in FieldOps      -> MirFieldRule(ins, a, r)
             [] ins.op = "Call"          -> MirCallRule(ins, a, r)
             [] ins.op \in DelegateOps   -> MirDelegateRule(ins, a, r)
             [] ins.op \in ArithmeticOps -> MirArithmeticRule(ins, a, r)

MirTerminatorOk(f, b) ==
    LET t == f.blocks[b].term
        used == UsableAt(f, t.reg, b, Len(f.blocks[b].code) + 1)
    IN  CASE t.kind = "Jump"        -> MirEdgeOk(f, b, t.to[1])
          [] t.kind = "Branch"      -> /\ used /\ RegType(f, t.reg)[1] = "Bool"
                                       /\ MirEdgeOk(f, b, t.to[1]) /\ MirEdgeOk(f, b, t.to[2])
          [] t.kind = "ReturnValue" -> used /\ f.ret # VoidT /\ Compatible(RegType(f, t.reg), f.ret)
          [] t.kind = "ReturnVoid"  -> f.ret = VoidT
          [] t.kind = "Throw"       -> used /\ RegType(f, t.reg)[1] = "Object"
          [] OTHER                  -> FALSE

MirFunctionOk(f) ==
    /\ MirIdentity(f.ret)
    /\ \A k \in DOMAIN f.params : MirIdentity(f.params[k])
    /\ \A l \in DOMAIN f.locals : MirIdentity(f.locals[l])
    /\ \A r \in DOMAIN f.regs : MirIdentity(f.regs[r])
    /\ f.blocks # <<>> /\ DefinedOnce(f) /\ MirHandlersOk(f)
    /\ ReachedAvoiding(f, {}) = DOMAIN f.blocks
    /\ \A b \in DOMAIN f.blocks :
          /\ \A at \in DOMAIN f.blocks[b].code : MirInstructionOk(f, b, at)
          /\ MirTerminatorOk(f, b)

VerifyMir ==
    /\ \A t \in DOMAIN Types : MirTypeOk(t)
    /\ \A s \in DOMAIN Code : MirFunctionOk(Code[s])

(* ------------------------- where the two differ ----------------------- *)

\* What MIR is trusted with: identities name descriptors, and those of arrays
\* and null checks follow from the types at hand.
TrustedInstruction(f, ins) ==
    LET a == [k \in DOMAIN ins.args |-> RegType(f, ins.args[k])]  r == RegType(f, ins.res) IN
    /\ ins.op = "NewArray" => r = ArrayOf(ins.el)
    /\ ins.op \in {"LoadElement", "StoreElement"} => a[1] = ArrayOf(ins.el)
    /\ ins.op = "CheckNotNull" =>
          ClassLike(ins.idx) /\ Assignable(a[1][2], ins.idx) /\ r = Ty("Object", ins.idx)
    /\ ins.op = "StoreStructField" => a[2] = Types[ins.idx[1]].fields[ins.idx[2]]
\* Only MIR compares the identities of what is tested for equality.
UnlikeEquality(f, ins) ==
    ins.op \in {"Equal", "NotEqual"} /\ RegType(f, ins.args[1]) # RegType(f, ins.args[2])

\* A function that one verifier admits and the other refuses differs in one of
\* those ways and in no other (MirVerifier.cpp, BytecodeVerifier.cpp), so that
\* code lowered from verified MIR of the front end is never refused later.
VerifiersAgreeOn(f) ==
    LET code == UNION {{f.blocks[b].code[k] : k \in DOMAIN f.blocks[b].code} : b \in DOMAIN f.blocks} IN
    /\ MirFunctionOk(f) => FunctionOk(f) \/ \E ins \in code : ~TrustedInstruction(f, ins)
    /\ FunctionOk(f) => MirFunctionOk(f) \/ \E ins \in code : UnlikeEquality(f, ins)
=============================================================================
