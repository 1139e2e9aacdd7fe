--------------------------- MODULE BytecodeCodec ---------------------------
(***************************************************************************)
(* The file format of bytecode modules                                     *)
(* (src/bytecode/BytecodeCodec.cpp): the strings of a module are pooled,   *)
(* eight sections are written behind a directory, and the decoder checks   *)
(* the directory, every length, index, tag and flag before it builds the   *)
(* module again.                                                           *)
(*                                                                         *)
(* A module is a record with the fields of bytecode::Module.  Enumerations *)
(* and groups of flags are the numbers they are stored as: the flags of    *)
(* functions, types and references are one byte.  Primitive types are      *)
(* their tags, 255 is the absent type; doubles are their bits.             *)
(***************************************************************************)
EXTENDS Bytes

\* The versions 0.minor that are understood.
Minors == 6 .. 9

HasObjectModel(minor) == minor >= 7

HasSequenceResult(minor) == minor >= 8

HasExceptions(minor) == minor >= 9

\* Opcode and TerminatorKind are numbers; these are the ones the format knows.
ConstantString == 4
ConstantTypeId == 65
Throw == 5

Void == <<118, 111, 105, 100>>   \* "void", the result of a sequence without one

-----------------------------------------------------------------------------
(* The pool: every string once, in the order of its first use. *)

FunctionStrings(f) ==
    <<f.declaringTypeName, f.moduleName, f.name, f.ownerTypeName, f.returnTypeName,
      f.sourceName>>
    \o All(f.parameters, LAMBDA p : <<p.name, p.typeName, p.storageTypeName>>)

PropertyStrings(p) ==
    <<p.name, p.declaringTypeName, p.typeName, p.sourceName>>
    \o All(p.getter, FunctionStrings) \o All(p.setter, FunctionStrings)

Present(text) == IF text = <<>> THEN <<>> ELSE <<text>>

TypeStrings(t) ==
    <<t.moduleName, t.name>> \o Present(t.baseTypeName)
    \o All(t.fields, LAMBDA f : <<f.declaringTypeName, f.sourceName>>)
    \o All(t.methods, FunctionStrings)
    \o All(t.constructors, FunctionStrings)
    \o All(t.properties, PropertyStrings)
    \o All(t.fields, LAMBDA f : <<f.name>> \o Present(f.typeName))
    \o All(t.enumMembers, LAMBDA e : <<e.name>>)

\* String constants carry their text, the other instructions none.
BodyStrings(f) ==
    <<f.name>>
    \o All(f.locals, LAMBDA l : <<l.name>>)
    \o All(f.blocks, LAMBDA b :
           All(b.instructions, LAMBDA i : IF i.opcode = ConstantString THEN <<i.text>> ELSE <<>>))

MetadataStrings(m) ==
    All(m.attributes, LAMBDA a :
        <<a.target, a.name, a.sourceName>> \o All(a.arguments, LAMBDA x : <<x.name, x.value>>))
    \o All(m.interfaces, LAMBDA i : <<i.typeName>> \o i.interfaces)
    \o All(m.generics, LAMBDA g : <<g.genericName, g.generatedName>> \o g.arguments)
    \o All(m.sequences, LAMBDA s :
           <<s.typeName, s.name>>
           \o (IF HasSequenceResult(m.minor) THEN <<s.resultTypeName>> ELSE <<>>)
           \o <<s.sourceName>> \o s.callbacks)

ModuleStrings(m) ==
    <<m.name>> \o All(m.types, TypeStrings)
    \o All(m.sources, LAMBDA s : <<s.path>>)
    \o All(m.references, LAMBDA r : <<r.name>>)
    \o All(m.functions, BodyStrings)
    \o MetadataStrings(m)

RECURSIVE Unique(_, _, _)
Unique(texts, i, pool) ==
    IF i > Len(texts) THEN pool
    ELSE Unique(texts, i + 1,
                IF \E j \in 1 .. Len(pool) : pool[j] = texts[i]
                THEN pool ELSE Append(pool, texts[i]))

Pool(m) == Unique(ModuleStrings(m), 1, <<>>)

-----------------------------------------------------------------------------
(* The encoder. *)

IndexOf(pool, text) == U32((CHOOSE i \in 1 .. Len(pool) : pool[i] = text) - 1)

OptionalIndex(pool, text) == IF text = <<>> THEN U32(AllOnes) ELSE IndexOf(pool, text)

Types(types) == Counted(types, U8)

Ids(ids) == Counted(ids, U64)

Registers(registers) == Counted(registers, U32)

ParameterBytes(pool, p) ==
    IndexOf(pool, p.name) \o U8(p.type) \o IndexOf(pool, p.typeName) \o U8(p.storageType)
    \o IndexOf(pool, p.storageTypeName) \o U8(p.modifier) \o U64(p.index)
    \o Flag(p.parameter) \o U64(p.id)

FunctionSymbolBytes(pool, f) ==
    U64(f.id) \o U8(f.accessibility) \o U64(f.declaringTypeId)
    \o IndexOf(pool, f.declaringTypeName) \o U8(f.flags) \o U8(f.secondaryFlags)
    \o U32(f.virtualSlot) \o U32(f.interfaceSlot) \o IndexOf(pool, f.moduleName)
    \o IndexOf(pool, f.name) \o IndexOf(pool, f.ownerTypeName) \o U64(f.ownerTypeId)
    \o U8(f.returnType) \o IndexOf(pool, f.returnTypeName) \o IndexOf(pool, f.sourceName)
    \o Counted(f.parameters, LAMBDA p : ParameterBytes(pool, p))

OptionBytes(pool, f) == Flag(f # <<>>) \o All(f, LAMBDA g : FunctionSymbolBytes(pool, g))

PropertySymbolBytes(pool, p) ==
    IndexOf(pool, p.name) \o U8(p.accessibility) \o U64(p.declaringTypeId)
    \o IndexOf(pool, p.declaringTypeName) \o U8(p.type) \o IndexOf(pool, p.typeName)
    \o Flag(p.static) \o OptionBytes(pool, p.getter) \o OptionBytes(pool, p.setter)
    \o U64(p.backingField) \o IndexOf(pool, p.sourceName) \o U64(p.id)

StringSection(pool) == Counted(pool, LAMBDA text : U32(Len(text)) \o text)

TypeSection(m, pool) ==
    Counted(m.types, LAMBDA t :
        U64(t.id) \o U8(t.kind) \o IndexOf(pool, t.moduleName) \o IndexOf(pool, t.name)
        \o Counted(t.fields, LAMBDA f :
               IndexOf(pool, f.name) \o U8(f.type) \o OptionalIndex(pool, f.typeName)
               \o U32(f.index) \o Flag(f.synthetic))
        \o Counted(t.enumMembers, LAMBDA e : IndexOf(pool, e.name) \o U64(Unsigned(e.value))))

ReferenceSection(m, pool) ==
    Counted(m.references, LAMBDA r :
        U64(r.symbol) \o IndexOf(pool, r.name) \o U8(r.returnType) \o U64(r.returnTypeId)
        \o Types(r.parameterTypes) \o Ids(r.parameterTypeIds))

ObjectModelSection(m, pool) ==
    Counted(m.types, LAMBDA t :
        U64(t.id) \o U8(t.accessibility) \o U8(t.flags) \o U64(t.baseTypeId)
        \o OptionalIndex(pool, t.baseTypeName)
        \o Counted(t.fields, LAMBDA f :
               U8(f.accessibility) \o U64(f.declaringTypeId)
               \o IndexOf(pool, f.declaringTypeName) \o IndexOf(pool, f.sourceName)
               \o U64(f.id))
        \o Counted(t.methods, LAMBDA f : FunctionSymbolBytes(pool, f))
        \o Counted(t.constructors, LAMBDA f : FunctionSymbolBytes(pool, f))
        \o Counted(t.properties, LAMBDA p : PropertySymbolBytes(pool, p))
        \o Ids(t.vtable)
        \o Counted(t.dispatchMaps, LAMBDA d : U64(d.interface) \o Ids(d.slots)))
    \o Counted(m.references, LAMBDA r :
        U8(r.dispatch) \o U32(r.virtualSlot) \o U64(r.interfaceTypeId) \o U32(r.interfaceSlot))

InstructionBytes(pool, i) ==
    U8(i.opcode) \o U32(i.result) \o Registers(i.operands) \o U32(i.index) \o U32(i.typeIndex)
    \o U8(i.elementType) \o U64(i.elementTypeId) \o U64(Unsigned(i.integer)) \o U64(i.double)
    \o U8((IF i.boolean THEN 1 ELSE 0) + (IF i.checked THEN 0 ELSE 2))
    \o (IF i.opcode = ConstantString THEN IndexOf(pool, i.text) ELSE U32(AllOnes))

\* Fault: only a branch has its second target written.
BranchTargetOnly(t) ==
    U8(t.kind) \o U32(t.condition) \o U32(t.value) \o U32(t.target)
    \o U32(IF t.kind = 2 THEN t.falseTarget ELSE AllOnes)
    \o Registers(t.arguments) \o Registers(t.falseArguments)

TerminatorBytes(t) ==
    U8(t.kind) \o U32(t.condition) \o U32(t.value) \o U32(t.target) \o U32(t.falseTarget)
    \o Registers(t.arguments) \o Registers(t.falseArguments)

HandlerBytes(h) ==
    Registers(h.protected) \o U32(h.handler) \o U64(h.catch) \o U32(h.local)

CodeBytes(minor, pool, f) ==
    Counted(f.blocks, LAMBDA b :
        U32(b.id)
        \o Counted(b.parameters, LAMBDA p : U32(p.target) \o U8(p.type) \o U64(p.typeId))
        \o Counted(b.instructions, LAMBDA i : InstructionBytes(pool, i))
        \o TerminatorBytes(b.terminator))
    \o (IF HasExceptions(minor) THEN Counted(f.handlers, HandlerBytes) ELSE <<>>)

FunctionSection(m, pool, codes) ==
    LET Offset(n) == Len(Bytes([k \in 1 .. n - 1 |-> codes[k]], LAMBDA c : c, 1))
        Record(n) ==
            LET f == m.functions[n] IN
            U64(f.symbol) \o IndexOf(pool, f.name) \o U8(f.returnType) \o U64(f.returnTypeId)
            \o Types(f.parameterTypes) \o Ids(f.parameterTypeIds)
            \o Types(f.localTypes) \o Ids(f.localTypeIds)
            \o Types(f.registerTypes) \o Ids(f.registerTypeIds)
            \o U32(Offset(n)) \o U32(Len(codes[n]))
    IN Counted([n \in 1 .. Len(m.functions) |-> n], Record)

RangeBytes(range) ==
    U32(range.file) \o U64(range.start) \o U64(range.length) \o U32(range.line)
    \o U32(range.column) \o U32(range.endLine) \o U32(range.endColumn)

DebugSection(m, pool) ==
    Counted(m.sources, LAMBDA s :
        U32(s.id) \o IndexOf(pool, s.path) \o U64(s.hash) \o Registers(s.lineStarts))
    \o Counted(m.functions, LAMBDA f :
        U64(f.symbol) \o U32(f.source) \o RangeBytes(f.declaration) \o RangeBytes(f.body)
        \o Counted(f.points, LAMBDA p :
               U32(p.block) \o U32(p.instruction) \o Flag(p.terminator) \o RangeBytes(p.range))
        \o Counted(f.locals, LAMBDA l :
               IndexOf(pool, l.name) \o U32(l.slot) \o U8(l.type) \o U64(l.typeId)
               \o Flag(l.parameter) \o RangeBytes(l.declaration) \o RangeBytes(l.scope)))

MetadataSection(m, pool) ==
    LET Indices(texts) == Counted(texts, LAMBDA text : IndexOf(pool, text)) IN
    Counted(m.attributes, LAMBDA a :
        IndexOf(pool, a.target) \o IndexOf(pool, a.name) \o IndexOf(pool, a.sourceName)
        \o U64(a.offset)
        \o Counted(a.arguments, LAMBDA x : IndexOf(pool, x.name) \o IndexOf(pool, x.value)))
    \o Counted(m.interfaces, LAMBDA i : IndexOf(pool, i.typeName) \o Indices(i.interfaces))
    \o Counted(m.generics, LAMBDA g :
        IndexOf(pool, g.genericName) \o IndexOf(pool, g.generatedName) \o Indices(g.arguments))
    \o Counted(m.sequences, LAMBDA s :
        IndexOf(pool, s.typeName) \o IndexOf(pool, s.name)
        \o (IF HasSequenceResult(m.minor) THEN IndexOf(pool, s.resultTypeName) ELSE <<>>)
        \o IndexOf(pool, s.sourceName) \o U64(s.offset) \o Indices(s.callbacks))

Magic == <<82, 83, 66, 67>>

\* The sections are numbered in the order in which they are written, but for the
\* metadata, which is section 7, and the object model, which is section 8.
SectionsWith(m, pool) ==
    LET codes == [n \in 1 .. Len(m.functions) |-> CodeBytes(m.minor, pool, m.functions[n])] IN
    <<StringSection(pool), TypeSection(m, pool), ReferenceSection(m, pool),
      FunctionSection(m, pool, codes), All(codes, LAMBDA c : c), DebugSection(m, pool),
      MetadataSection(m, pool)>>
    \o (IF HasObjectModel(m.minor) THEN <<ObjectModelSection(m, pool)>> ELSE <<>>)

Sections(m) == SectionsWith(m, Pool(m))

HeaderSize == 16

EntrySize == 12

File(minor, sections) ==
    LET n == Len(sections)
        start[i \in 1 .. n + 1] ==
            IF i = 1 THEN HeaderSize + n * EntrySize ELSE start[i - 1] + Len(sections[i - 1])
        Entry(i) == U32(i) \o U32(start[i]) \o U32(Len(sections[i]))
    IN
    Magic \o U16(0) \o U16(minor) \o U32(0) \o U32(n)
    \o All([i \in 1 .. n |-> i], Entry) \o All(sections, LAMBDA s : s)

EncodeModule(m) == File(m.minor, Sections(m))

-----------------------------------------------------------------------------
(* The decoder. *)

Text == Pooled(FALSE)

OptionalText == Pooled(TRUE)

Type == Num(1, 19)

OptionalType == [Type EXCEPT !.also = 255]

Accessibility == Num(1, 3)

Many(of, least) == List(of, Large, least, 0)

\* The decoder allows one element more than fits in these lists.
ManyMore(of, least) == List(of, Large, least, 1)

ParameterSize == 35

ParameterShape == Fields(<<
    <<"name", Text>>, <<"type", Type>>, <<"typeName", Text>>, <<"storageType", OptionalType>>,
    <<"storageTypeName", Text>>, <<"modifier", Num(1, 3)>>, <<"index", UInt64>>,
    <<"parameter", Bool>>, <<"id", UInt64>> >>)

\* What the file does not hold of a method: the storage of a returned reference.
NewFunctionSymbol == [returnModifier |-> 0, storageReturnType |-> 255]

FunctionSymbolShape == FieldsAnd(<<
    <<"id", UInt64>>, <<"accessibility", Accessibility>>, <<"declaringTypeId", UInt64>>,
    <<"declaringTypeName", Text>>, <<"flags", UInt8>>, <<"secondaryFlags", Num(1, 7)>>,
    <<"virtualSlot", UInt32>>, <<"interfaceSlot", UInt32>>, <<"moduleName", Text>>,
    <<"name", Text>>, <<"ownerTypeName", Text>>, <<"ownerTypeId", UInt64>>,
    <<"returnType", Type>>, <<"returnTypeName", Text>>, <<"sourceName", Text>>,
    <<"parameters", Many(ParameterShape, ParameterSize)>> >>, NewFunctionSymbol)

PropertySymbolShape == Fields(<<
    <<"name", Text>>, <<"accessibility", Accessibility>>, <<"declaringTypeId", UInt64>>,
    <<"declaringTypeName", Text>>, <<"type", Type>>, <<"typeName", Text>>, <<"static", Bool>>,
    <<"getter", Option(FunctionSymbolShape)>>, <<"setter", Option(FunctionSymbolShape)>>,
    <<"backingField", UInt64>>, <<"sourceName", Text>>, <<"id", UInt64>> >>)

TypesShape == Many(Type, 1)

IdsShape == Many(UInt64, 8)

RegistersShape == Many(UInt32, 4)

StringsShape == Many(Inline(Large), 4)

TypesOfModule == ManyMore(Fields(<<
    <<"id", UInt64>>, <<"kind", Num(1, 2)>>, <<"moduleName", Text>>, <<"name", Text>>,
    <<"fields", Many(Fields(<<
        <<"name", Text>>, <<"type", Type>>, <<"typeName", OptionalText>>, <<"index", UInt32>>,
        <<"synthetic", AnyBool>> >>), 13)>>,
    <<"enumMembers", Many(Fields(<< <<"name", Text>>, <<"value", Negative(UInt64)>> >>), 12)>> >>), 24)

ReferencesShape == Many(Fields(<<
    <<"symbol", UInt64>>, <<"name", Text>>, <<"returnType", Type>>, <<"returnTypeId", UInt64>>,
    <<"parameterTypes", TypesShape>>, <<"parameterTypeIds", IdsShape>> >>), 17)

FieldModelShape == Fields(<<
    <<"accessibility", Accessibility>>, <<"declaringTypeId", UInt64>>,
    <<"declaringTypeName", Text>>, <<"sourceName", Text>>, <<"id", UInt64>> >>)

TypeModelShape == Fields(<<
    <<"id", UInt64>>, <<"accessibility", Accessibility>>, <<"flags", Num(1, 31)>>,
    <<"baseTypeId", UInt64>>, <<"baseTypeName", OptionalText>>,
    <<"fields", Many(FieldModelShape, 0)>>,
    <<"methods", Many(FunctionSymbolShape, 59)>>,
    <<"constructors", Many(FunctionSymbolShape, 59)>>,
    <<"properties", Many(PropertySymbolShape, 40)>>,
    <<"vtable", IdsShape>>,
    <<"dispatchMaps", Many(Fields(<< <<"interface", UInt64>>, <<"slots", IdsShape>> >>), 12)>> >>)

ObjectModelShape == Fields(<<
    <<"types", Many(TypeModelShape, 0)>>,
    <<"references", Many(Fields(<<
        <<"dispatch", Num(1, 3)>>, <<"virtualSlot", UInt32>>, <<"interfaceTypeId", UInt64>>,
        <<"interfaceSlot", UInt32>> >>), 0)>> >>)

FunctionsShape == Many(Fields(<<
    <<"symbol", UInt64>>, <<"name", Text>>, <<"returnType", Type>>, <<"returnTypeId", UInt64>>,
    <<"parameterTypes", TypesShape>>, <<"parameterTypeIds", IdsShape>>,
    <<"localTypes", TypesShape>>, <<"localTypeIds", IdsShape>>,
    <<"registerTypes", TypesShape>>, <<"registerTypeIds", IdsShape>>,
    <<"codeOffset", UInt32>>, <<"codeSize", UInt32>> >>), 33)

InstructionShape == Fields(<<
    <<"opcode", Num(1, ConstantTypeId)>>, <<"result", UInt32>>, <<"operands", RegistersShape>>,
    <<"index", UInt32>>, <<"typeIndex", UInt32>>, <<"elementType", OptionalType>>,
    <<"elementTypeId", UInt64>>, <<"integer", Negative(UInt64)>>, <<"double", UInt64>>,
    <<"arithmetic", Num(1, 3)>>, <<"text", UInt32>> >>)

TerminatorShape == Fields(<<
    <<"kind", Num(1, Throw)>>, <<"condition", UInt32>>, <<"value", UInt32>>, <<"target", UInt32>>,
    <<"falseTarget", UInt32>>, <<"arguments", RegistersShape>>,
    <<"falseArguments", RegistersShape>> >>)

BlocksShape == ManyMore(Fields(<<
    <<"id", UInt32>>,
    <<"parameters", Many(Fields(<<
        <<"target", UInt32>>, <<"type", Type>>, <<"typeId", UInt64>> >>), 13)>>,
    <<"instructions", ManyMore(InstructionShape, 39)>>,
    <<"terminator", TerminatorShape>> >>), 37)

HandlersShape == ManyMore(Fields(<<
    <<"protected", RegistersShape>>, <<"handler", UInt32>>, <<"catch", UInt64>>,
    <<"local", UInt32>> >>), 20)

CodeShape(minor) == Fields(
    << <<"blocks", BlocksShape>> >>
    \o (IF HasExceptions(minor) THEN << <<"handlers", HandlersShape>> >> ELSE <<>>))

RangeShape == Fields(<<
    <<"file", UInt32>>, <<"start", UInt64>>, <<"length", UInt64>>, <<"line", UInt32>>, <<"column", UInt32>>,
    <<"endLine", UInt32>>, <<"endColumn", UInt32>> >>)

DebugShape == Fields(<<
    <<"sources", ManyMore(Fields(<<
        <<"id", UInt32>>, <<"path", Text>>, <<"hash", UInt64>>,
        <<"lineStarts", RegistersShape>> >>), 20)>>,
    <<"functions", Many(Fields(<<
        <<"symbol", UInt64>>, <<"source", UInt32>>, <<"declaration", RangeShape>>,
        <<"body", RangeShape>>,
        <<"points", ManyMore(Fields(<<
            <<"block", UInt32>>, <<"instruction", UInt32>>, <<"terminator", AnyBool>>,
            <<"range", RangeShape>> >>), 45)>>,
        <<"locals", ManyMore(Fields(<<
            <<"name", Text>>, <<"slot", UInt32>>, <<"type", Type>>, <<"typeId", UInt64>>,
            <<"parameter", AnyBool>>, <<"declaration", RangeShape>>,
            <<"scope", RangeShape>> >>), 90)>> >>), 0)>> >>)

NewSequence == [resultTypeName |-> Void]

MetadataShape(minor) ==
    LET Texts == Many(Text, 4) IN
    Fields(<<
    <<"attributes", Many(Fields(<<
        <<"target", Text>>, <<"name", Text>>, <<"sourceName", Text>>, <<"offset", UInt64>>,
        <<"arguments", Many(Fields(<< <<"name", Text>>, <<"value", Text>> >>), 8)>> >>), 4)>>,
    <<"interfaces", Many(Fields(<<
        <<"typeName", Text>>, <<"interfaces", Texts>> >>), 4)>>,
    <<"generics", Many(Fields(<<
        <<"genericName", Text>>, <<"generatedName", Text>>, <<"arguments", Texts>> >>), 4)>>,
    <<"sequences", Many(FieldsAnd(
        << <<"typeName", Text>>, <<"name", Text>> >>
        \o (IF HasSequenceResult(minor) THEN << <<"resultTypeName", Text>> >> ELSE <<>>)
        \o << <<"sourceName", Text>>, <<"offset", UInt64>>, <<"callbacks", Texts>> >>,
        NewSequence), 4)>> >>)

-----------------------------------------------------------------------------
(* decodeModule: the directory, then section by section. *)

\* The first n sections of a file of that version.
SectionCount(minor) == IF HasObjectModel(minor) THEN 8 ELSE 7

Words(bytes, at, n, width) ==
    [i \in 1 .. n |-> Value(SubSeq(bytes, at + (i - 1) * width + 1, at + i * width))]

Directory(bytes, n) ==
    [i \in 1 .. n |-> LET entry == Words(bytes, HeaderSize + (i - 1) * EntrySize, 3, 4) IN
                      [kind |-> entry[1], offset |-> entry[2], size |-> entry[3]]]

\* Sections that start at the same byte are checked in the order of the hash map
\* they are kept in, which no standard fixes: ascending says which.
Overlap(directory, ascending) ==
    LET Follows(a, b) ==
            \/ a.offset < b.offset
            \/ a.offset = b.offset /\ (IF ascending THEN a.kind < b.kind ELSE b.kind < a.kind)
        Section == {directory[i] : i \in 1 .. Len(directory)}
    IN
    \E a, b \in Section : Follows(a, b) /\ a.offset + a.size > b.offset

ValidDirectory(bytes, directory, ascending) ==
    /\ \A i \in 1 .. Len(directory) :
        /\ directory[i].kind \in 1 .. Len(directory)
        /\ directory[i].offset >= HeaderSize + Len(directory) * EntrySize
        /\ directory[i].offset <= Len(bytes)
        /\ directory[i].size <= Len(bytes) - directory[i].offset
        /\ \A j \in 1 .. i - 1 : directory[i].kind # directory[j].kind
    /\ ~Overlap(directory, ascending)

ValidHeader(bytes) ==
    /\ Len(bytes) >= HeaderSize
    /\ SubSeq(bytes, 1, 4) = Magic
    /\ Words(bytes, 4, 2, 2) \in {<<0, minor>> : minor \in Minors}
    /\ LET n == Words(bytes, 12, 1, 4)[1] IN
        /\ n = SectionCount(Words(bytes, 4, 2, 2)[2])
        /\ Len(bytes) >= HeaderSize + n * EntrySize

\* A section is read to its end.
ToItsEnd(r) == [r EXCEPT !.ok = Finished(r)]

ReadSection(bytes, section, pool, shape) ==
    ToItsEnd(Read(Reader(bytes, section.offset, section.offset + section.size, pool), shape))

MergedTypes(types, models) ==
    [i \in 1 .. Len(types) |->
        [fields |-> [j \in 1 .. Len(types[i].fields) |->
                        types[i].fields[j] @@ models[i].fields[j]]]
        @@ types[i] @@ models[i]]

Matching(types, models) ==
    /\ Len(models) = Len(types)
    /\ \A i \in 1 .. Len(types) :
        models[i].id = types[i].id /\ Len(models[i].fields) = Len(types[i].fields)

ValidText(pool, i) ==
    IF i.opcode = ConstantString THEN i.text < Len(pool) ELSE i.text = AllOnes

\* The instruction of what was read.
Instruction(pool, i) ==
    [opcode |-> i.opcode, result |-> i.result, operands |-> i.operands, index |-> i.index,
     typeIndex |-> i.typeIndex, elementType |-> i.elementType,
     elementTypeId |-> i.elementTypeId, integer |-> i.integer, double |-> i.double,
     boolean |-> i.arithmetic % 2 = 1, checked |-> i.arithmetic < 2,
     text |-> IF i.opcode = ConstantString THEN pool[i.text + 1] ELSE <<>>]

Bodies(pool, blocks) ==
    [b \in 1 .. Len(blocks) |->
        [blocks[b] EXCEPT !.instructions =
            [i \in 1 .. Len(@) |-> Instruction(pool, @[i])]]]

CodeInside(records, size) ==
    \A i \in 1 .. Len(records) :
        records[i].codeOffset <= size /\ records[i].codeSize <= size - records[i].codeOffset

CodeApart(records) ==
    \A i, j \in 1 .. Len(records) :
        i < j => \/ records[i].codeOffset + records[i].codeSize <= records[j].codeOffset
                 \/ records[j].codeOffset + records[j].codeSize <= records[i].codeOffset

\* The code of every function, each read to the end of its range.
Codes(bytes, section, minor, pool, records) ==
    [i \in 1 .. Len(records) |->
        ReadSection(bytes, [offset |-> section.offset + records[i].codeOffset,
                            size   |-> records[i].codeSize], pool, CodeShape(minor))]

ValidCode(pool, code) ==
    /\ code.ok
    /\ \A b \in 1 .. Len(code.value.blocks) :
        \A i \in 1 .. Len(code.value.blocks[b].instructions) :
            ValidText(pool, code.value.blocks[b].instructions[i])

\* As many functions have debug information as there are functions; it belongs to the
\* first function with that symbol, and what is read twice is added up.
KnownFunctions(infos, records) ==
    /\ Len(infos) = Len(records)
    /\ \A i \in 1 .. Len(infos) : \E j \in 1 .. Len(records) : records[j].symbol = infos[i].symbol

NoRange == [file |-> 0, start |-> 0, length |-> 0, line |-> 0, column |-> 0, endLine |-> 0,
            endColumn |-> 0]
NoDebug == [source |-> 0, declaration |-> NoRange, body |-> NoRange, points |-> <<>>,
            locals |-> <<>>]

DebugOf(infos, records, n) ==
    LET symbol == records[n].symbol
        first  == \A i \in 1 .. n - 1 : records[i].symbol # symbol
        mine   == SelectSeq(infos, LAMBDA info : info.symbol = symbol)
        latest == mine[Len(mine)]
    IN
    IF ~first \/ mine = <<>> THEN NoDebug
    ELSE [source |-> latest.source, declaration |-> latest.declaration, body |-> latest.body,
          points |-> All(mine, LAMBDA info : info.points),
          locals |-> All(mine, LAMBDA info : info.locals)]

Function(pool, record, code, info) ==
    [symbol |-> record.symbol, name |-> record.name, returnType |-> record.returnType,
     returnTypeId |-> record.returnTypeId, parameterTypes |-> record.parameterTypes,
     parameterTypeIds |-> record.parameterTypeIds, localTypes |-> record.localTypes,
     localTypeIds |-> record.localTypeIds, registerTypes |-> record.registerTypes,
     registerTypeIds |-> record.registerTypeIds, blocks |-> Bodies(pool, code.blocks),
     handlers |-> IF "handlers" \in DOMAIN code THEN code.handlers ELSE <<>>,
     source |-> info.source, declaration |-> info.declaration, body |-> info.body,
     points |-> info.points, locals |-> info.locals]

\* The result of a decoder: what it read, if it read it all.
Failure == [ok |-> FALSE, value |-> <<>>]
Success(value) == [ok |-> TRUE, value |-> value]

\* What a version does not store is what a new record holds.
NewField == [accessibility |-> 0, declaringTypeId |-> 0, declaringTypeName |-> <<>>,
             sourceName |-> <<>>, id |-> 0]
NewType == [accessibility |-> 0, flags |-> 0, baseTypeId |-> 0, baseTypeName |-> <<>>,
            methods |-> <<>>, constructors |-> <<>>, properties |-> <<>>, vtable |-> <<>>,
            dispatchMaps |-> <<>>]
NewDispatch == [dispatch |-> 0, virtualSlot |-> AllOnes, interfaceTypeId |-> 0,
                interfaceSlot |-> AllOnes]
Legacy(types) ==
    [i \in 1 .. Len(types) |->
        [fields |-> [j \in 1 .. Len(types[i].fields) |-> types[i].fields[j] @@ NewField]]
        @@ types[i] @@ NewType]

\* The module of its sections; `code` is where the code of the functions is.
Joined(bytes, minor, code, strings, metadata, types, references, model, records, debug) ==
    LET pool       == strings.value
        codes      == Codes(bytes, code, minor, pool, records.value)
        modelled   ==
            HasObjectModel(minor) =>
                /\ model.ok
                /\ Matching(types.value, model.value.types)
                /\ Len(model.value.references) = Len(references.value)
        accepted   ==
            /\ strings.ok /\ pool # <<>> /\ metadata.ok /\ types.ok /\ references.ok
            /\ modelled
            /\ records.ok
            /\ CodeInside(records.value, code.size)
            /\ CodeApart(records.value)
            /\ \A i \in 1 .. Len(codes) : ValidCode(pool, codes[i])
            /\ debug.ok
            /\ KnownFunctions(debug.value.functions, records.value)
    IN
    IF ~accepted THEN Failure ELSE Success(
        [minor      |-> minor,
         name       |-> pool[1],
         types      |-> IF HasObjectModel(minor)
                        THEN MergedTypes(types.value, model.value.types)
                        ELSE Legacy(types.value),
         references |-> [i \in 1 .. Len(references.value) |->
                            references.value[i] @@
                            (IF HasObjectModel(minor) THEN model.value.references[i]
                                                      ELSE NewDispatch)],
         functions  |-> [i \in 1 .. Len(codes) |->
                            Function(pool, records.value[i], codes[i].value,
                                     DebugOf(debug.value.functions, records.value, i))],
         sources    |-> debug.value.sources,
         attributes |-> metadata.value.attributes,
         interfaces |-> metadata.value.interfaces,
         generics   |-> metadata.value.generics,
         sequences  |-> metadata.value.sequences])

DecodePooled(bytes, minor, sections, strings) ==
    LET At(i, shape) == ReadSection(bytes, sections[i], strings.value, shape) IN
    Joined(bytes, minor, sections[5], strings, At(7, MetadataShape(minor)), At(2, TypesOfModule),
           At(3, ReferencesShape), At(8, ObjectModelShape), At(4, FunctionsShape), At(6, DebugShape))

DecodeSections(bytes, minor, sections) ==
    DecodePooled(bytes, minor, sections, ReadSection(bytes, sections[1], <<>>, StringsShape))

DecodeModule(bytes, ascending) ==
    LET minor     == Words(bytes, 4, 2, 2)[2]
        directory == Directory(bytes, SectionCount(minor))
        SectionOf(kind) ==
            directory[CHOOSE i \in 1 .. Len(directory) : directory[i].kind = kind]
    IN
    IF ValidHeader(bytes) /\ ValidDirectory(bytes, directory, ascending)
    THEN DecodeSections(bytes, minor, [kind \in 1 .. Len(directory) |-> SectionOf(kind)])
    ELSE Failure

-----------------------------------------------------------------------------
(* What a file keeps of a module. *)

StoredFunctionSymbol(f) == NewFunctionSymbol @@ f

StoredProperty(p) ==
    LET Accessor(a) == [i \in 1 .. Len(a) |-> StoredFunctionSymbol(a[i])] IN
    [p EXCEPT !.getter = Accessor(@), !.setter = Accessor(@)]

StoredType(minor, t) ==
    LET Symbols(list) == [i \in 1 .. Len(list) |-> StoredFunctionSymbol(list[i])] IN
    IF HasObjectModel(minor)
    THEN [t EXCEPT !.methods = Symbols(@), !.constructors = Symbols(@),
                   !.properties = [i \in 1 .. Len(@) |-> StoredProperty(@[i])]]
    ELSE [fields |-> [j \in 1 .. Len(t.fields) |-> NewField @@ t.fields[j]]] @@ NewType @@ t

Stored(m) ==
    [m EXCEPT
        !.types = [i \in 1 .. Len(@) |-> StoredType(m.minor, @[i])],
        !.references =
            IF HasObjectModel(m.minor) THEN @ ELSE [i \in 1 .. Len(@) |-> NewDispatch @@ @[i]],
        !.functions =
            IF HasExceptions(m.minor) THEN @
            ELSE [i \in 1 .. Len(@) |-> [@[i] EXCEPT !.handlers = <<>>]],
        !.sequences =
            IF HasSequenceResult(m.minor) THEN @
            ELSE [i \in 1 .. Len(@) |-> NewSequence @@ @[i]]]

\* The modules that are read back for certain: with functions, for an empty code
\* section starts where the next one does; of symbols of their own, for debug
\* information is found by symbol; and whose methods have so few parameters
\* that the bytes behind them are not too few for the size a parameter is taken for.
FewParameters(list) == \A i \in 1 .. Len(list) : Len(list[i].parameters) < 6

Readable(m) ==
    /\ m.functions # <<>>
    /\ \A i, j \in 1 .. Len(m.functions) :
        i # j => m.functions[i].symbol # m.functions[j].symbol
    /\ \A i \in 1 .. Len(m.types) :
        FewParameters(m.types[i].constructors) /\ FewParameters(m.types[i].methods)

=============================================================================
