----------------------------- MODULE ScriptState ----------------------------
(***************************************************************************)
(* The persistent state of script objects                                  *)
(* (src/game/GameProductization.cpp): a snapshot of the fields of an       *)
(* object whose values mean something in another process, its file format, *)
(* and the restoration into an object of the same class, field by field    *)
(* through setMember (src/game/ScriptInvokeRuntime.cpp).                   *)
(*                                                                         *)
(* An object is [type, layout, values]: the layout lists the names and the *)
(* declared types of the fields of its class.  A state is [type, fields].  *)
(* Values are pairs of a tag and a value; whatever lives in one process    *)
(* only (objects, arrays, native handles, null references) has the tag     *)
(* ProcessLocal.                                                           *)
(***************************************************************************)
EXTENDS Bytes, FiniteSets

VoidTag == 0
NullStringTag == 1
BoolTag == 2
IntTag == 3
LongTag == 4
DoubleTag == 5
EnumTag == 6
StructTag == 7
StringTag == 8
ByteTag == 9
SByteTag == 10
ShortTag == 11
UShortTag == 12
UIntTag == 13
ULongTag == 14
FloatTag == 15
CharTag == 16
ProcessLocal == 17

-----------------------------------------------------------------------------
(* ScriptStatePolicy: [strings, doubles, fields, depth, bytes]. *)

RECURSIVE Allowed(_, _, _)
Allowed(v, policy, depth) ==
    /\ depth <= policy.depth
    /\ CASE v[1] \in {FloatTag, DoubleTag} -> policy.doubles
         [] v[1] = StringTag               -> policy.strings
         [] v[1] = StructTag               ->
                \A i \in 1 .. Len(v[2][2]) : Allowed(v[2][2][i], policy, depth + 1)
         [] v[1] = ProcessLocal            -> FALSE
         [] OTHER                          -> TRUE

\* stableValueHash: one zero and one not-a-number.
RECURSIVE ValueWords(_)
ValueWords(v) ==
    <<v[1]>> \o
    CASE v[1] \in {VoidTag, NullStringTag, ProcessLocal} -> <<>>
      [] v[1] = BoolTag                -> Flag(v[2])
      [] v[1] \in {FloatTag, DoubleTag} -> <<Canonical(v[2])>>
      [] v[1] = EnumTag                -> v[2]
      [] v[1] = StructTag              ->
             <<v[2][1], Len(v[2][2])>> \o All(v[2][2], ValueWords)
      [] v[1] = StringTag              -> <<Len(v[2])>> \o v[2]
      [] OTHER                         -> <<v[2]>>

TextWords(text) == <<Len(text)>> \o text

CanonicalHash(state) ==
    Hash(TextWords(state.type) \o <<Len(state.fields)>>
         \o All(state.fields, LAMBDA f : TextWords(f.name) \o ValueWords(f.value)))

-----------------------------------------------------------------------------
(* snapshotScriptObject and restoreScriptObject. *)

Failure == [ok |-> FALSE, value |-> <<>>]

SnapshotObject(object, policy) ==
    LET fields == Len(object.layout) IN
    IF /\ fields <= policy.fields
       /\ \A i \in 1 .. fields : Allowed(object.values[i], policy, 0)
    THEN [ok    |-> TRUE,
          value |-> [type   |-> object.type,
                     fields |-> [i \in 1 .. fields |->
                                    [name  |-> object.layout[i].name,
                                     value |-> object.values[i]]]]]
    ELSE Failure

\* Objects of classes whose fields have the same names; values are checked as the
\* policy says, not against the types of the fields.
Compatible(object, state, policy) ==
    /\ object.type = state.type
    /\ Len(state.fields) = Len(object.layout)
    /\ Len(state.fields) <= policy.fields
    /\ \A i \in 1 .. Len(state.fields) :
        /\ state.fields[i].name = object.layout[i].name
        /\ Allowed(state.fields[i].value, policy, 0)

\* valueMatches; the types of enumerations and structs have ids, and the fields of a
\* struct are not looked at.
Matches(v, field) ==
    \/ field.tag = StringTag /\ v[1] = NullStringTag
    \/ /\ v[1] = field.tag
       /\ v[1] \in {EnumTag, StructTag} => v[2][1] = field.typeId

\* The fields before the first one that setMember refuses are set.
Settable(object, state) ==
    LET Refuses(i) == ~Matches(state.fields[i].value, object.layout[i])
        refused    == {i \in 1 .. Len(state.fields) : Refuses(i)}
    IN
    IF refused = {} THEN Len(state.fields)
    ELSE (CHOOSE i \in refused : \A j \in refused : i <= j) - 1

\* The object afterwards, and whether the restoration succeeded.
RestoreObject(object, state, policy) ==
    LET set == Settable(object, state) IN
    IF ~Compatible(object, state, policy)
    THEN [ok |-> FALSE, object |-> object]
    ELSE [ok     |-> set = Len(state.fields),
          object |-> [object EXCEPT !.values =
                        [i \in 1 .. Len(@) |->
                            IF i <= set THEN state.fields[i].value ELSE @[i]]]]

-----------------------------------------------------------------------------
(* encodeScriptObjectState. *)

TextBytes(text) == U32(Len(text)) \o text

Zeroed(bits) == IF bits = NegativeZero THEN 0 ELSE bits

\* A float keeps its not-a-number, a double does not.
RECURSIVE ValueBytes(_)
ValueBytes(v) ==
    U8(v[1]) \o
    CASE v[1] \in {VoidTag, NullStringTag} -> <<>>
      [] v[1] = BoolTag                    -> Flag(v[2])
      [] v[1] \in {ByteTag, SByteTag}      -> U8(v[2])
      [] v[1] \in {ShortTag, UShortTag, UIntTag, CharTag} -> U32(v[2])
      [] v[1] \in {IntTag, LongTag, ULongTag} -> U64(Unsigned(v[2]))
      [] v[1] = FloatTag                   -> U32(Zeroed(v[2]))
      [] v[1] = DoubleTag                  -> U64(Canonical(v[2]))
      [] v[1] = EnumTag                    -> U64(v[2][1]) \o U64(Unsigned(v[2][2]))
      [] v[1] = StructTag                  -> U64(v[2][1]) \o Counted(v[2][2], ValueBytes)
      [] v[1] = StringTag                  -> TextBytes(v[2])

NamesOf(fields) == {fields[i].name : i \in 1 .. Len(fields)}

\* Every field has a name of its own.
Named(fields) == <<>> \notin NamesOf(fields) /\ Cardinality(NamesOf(fields)) = Len(fields)

ObjectMagic == <<82, 83, 83, 49>>

ObjectVersion == 1

ObjectBytes(state) ==
    ObjectMagic \o U32(ObjectVersion) \o TextBytes(state.type)
    \o Counted(state.fields, LAMBDA f : TextBytes(f.name) \o ValueBytes(f.value))
    \o U64(CanonicalHash(state))

EncodeObject(state, policy) ==
    IF /\ state.type # <<>>
       /\ Len(state.fields) <= policy.fields
       /\ Named(state.fields)
       /\ \A i \in 1 .. Len(state.fields) : Allowed(state.fields[i].value, policy, 0)
       /\ Len(ObjectBytes(state)) <= policy.bytes
    THEN [ok |-> TRUE, value |-> ObjectBytes(state)]
    ELSE Failure

-----------------------------------------------------------------------------
(* decodeScriptObjectState. *)

UInt16 == Num(4, 65535)

\* A type has an id.
TypeId == [UInt64 EXCEPT !.kept = "positive"]

\* What a value may be at that depth; a short keeps the lower half of its word.
RECURSIVE ValueShape(_, _)
ValueShape(policy, depth) ==
    IF depth > policy.depth THEN Nothing ELSE Tagged(
    VoidTag :> Fields(<<>>) @@ NullStringTag :> Fields(<<>>) @@ BoolTag :> Bool
    @@ ByteTag :> UInt8 @@ SByteTag :> UInt8
    @@ ShortTag :> [UInt32 EXCEPT !.kept = "half"] @@ UShortTag :> UInt16 @@ CharTag :> UInt16
    @@ UIntTag :> UInt32 @@ ULongTag :> UInt64
    @@ IntTag :> Negative(UInt64) @@ LongTag :> Negative(UInt64)
    @@ EnumTag :> Pair(TypeId, Negative(UInt64))
    @@ StructTag :> Pair(TypeId, List(ValueShape(policy, depth + 1), policy.fields, 0, 0))
    @@ (IF policy.doubles THEN FloatTag :> UInt32 @@ DoubleTag :> UInt64 ELSE <<>>)
    @@ (IF policy.strings THEN StringTag :> Inline(Large) ELSE <<>>))

ObjectShape(policy) == Fields(<<
    <<"magic", UInt32>>, <<"version", UInt32>>, <<"type", Inline(Large)>>,
    <<"fields", List(Fields(<<
        <<"name", Inline(Large)>>, <<"value", ValueShape(policy, 0)>> >>),
        policy.fields, 0, 0)>>,
    <<"hash", UInt64>> >>)

Verified(bytes, policy, read) ==
    LET state == [type |-> read.value.type, fields |-> read.value.fields] IN
    IF /\ bytes # <<>> /\ Len(bytes) <= policy.bytes
       /\ Finished(read)
       /\ SubSeq(bytes, 1, 4) = ObjectMagic
       /\ read.value.version = ObjectVersion
       /\ state.type # <<>>
       /\ Named(state.fields)
       /\ CanonicalHash(state) = read.value.hash
    THEN [ok |-> TRUE, value |-> state]
    ELSE Failure

DecodeObject(bytes, policy) ==
    Verified(bytes, policy, Read(Reader(bytes, 0, Len(bytes), <<>>), ObjectShape(policy)))

\* Values as the hash tells them apart.
RECURSIVE CanonicalValue(_)
CanonicalValue(v) ==
    CASE v[1] \in {FloatTag, DoubleTag} -> <<v[1], Canonical(v[2])>>
      [] v[1] = StructTag ->
             <<v[1], <<v[2][1], [i \in 1 .. Len(v[2][2]) |-> CanonicalValue(v[2][2][i])]>>>>
      [] OTHER -> v

Held(values) == [i \in 1 .. Len(values) |-> CanonicalValue(values[i])]

=============================================================================
