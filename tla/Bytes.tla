------------------------------- MODULE Bytes -------------------------------
(***************************************************************************)
(* Byte strings, as the three codecs of the repository write and read them *)
(* (src/bytecode/BytecodeCodec.cpp, src/game/GameplayStateCodec.cpp and    *)
(* src/game/GameProductization.cpp): little-endian words of one, two, four *)
(* and eight bytes, lists that start with their length, strings, options,  *)
(* tagged values.                                                          *)
(*                                                                         *)
(* A writer is a concatenation of words; a reader is a shape, the fields   *)
(* in the order in which they are read with the conditions on each, which  *)
(* Read interprets.  Writer and reader of a format are translated from     *)
(* different functions of the code and nothing makes them agree.           *)
(*                                                                         *)
(* Words above 65535 are one number, Large, but for the word of all ones,  *)
(* which is -1 and the invalid index.  Text is a sequence of bytes.        *)
(***************************************************************************)
EXTENDS Integers, Sequences, TLC

Large == 2 ^ 24

AllOnes == 2 ^ 30

\* The number a signed field of that width holds, and its word.
Signed(word) == IF word = AllOnes THEN -1 ELSE word

Unsigned(number) == IF number < 0 THEN AllOnes ELSE number

Word(width, number) ==
    [i \in 1 .. width |-> IF number = AllOnes THEN 255
                          ELSE IF number = Large THEN IF i = 3 THEN 1 ELSE 0
                          ELSE IF i <= 2 THEN (number \div 256 ^ (i - 1)) % 256
                          ELSE 0]

U8(number)  == <<number>>
U16(number) == Word(2, number)
U32(number) == Word(4, number)
U64(number) == Word(8, number)

Flag(boolean) == IF boolean THEN <<1>> ELSE <<0>>

Value(word) ==
    IF \A i \in 3 .. Len(word) : word[i] = 0
    THEN IF Len(word) = 1 THEN word[1] ELSE word[1] + 256 * word[2]
    ELSE IF \A i \in 1 .. Len(word) : word[i] = 255 THEN AllOnes ELSE Large

\* The concatenation of the bytes of all elements of a sequence.
RECURSIVE Bytes(_, _, _)
Bytes(items, Of(_), i) ==
    IF i > Len(items) THEN <<>> ELSE Of(items[i]) \o Bytes(items, Of, i + 1)

All(items, Of(_)) == Bytes(items, Of, 1)

Counted(items, Of(_)) == U32(Len(items)) \o All(items, Of)

\* Doubles and floats are scaled down to one byte of their word: 0 .. 125 are the
\* finite numbers from zero upwards, 128 is the negative zero, 127 the one
\* not-a-number that is written.
Infinity == 126
NotANumber == 127
NegativeZero == 128

IsNaN(bits) == bits \in NotANumber .. 255 \ (NegativeZero .. 253)

IsFinite(bits) == ~IsNaN(bits) /\ bits \notin {Infinity, 253}

\* One zero, one not-a-number.
Canonical(bits) == IF bits = NegativeZero THEN 0 ELSE IF IsNaN(bits) THEN NotANumber ELSE bits

\* The hashes of the runtime: every step is a bijection of what came before and of
\* the word added.
Modulus == 65521

Mixed(hash, word) == (((hash + Unsigned(word)) % Modulus) * 31 + 7) % Modulus

\* (A hash is never negative: the test has TLC compute it at every step.)
RECURSIVE HashFrom(_, _, _)
HashFrom(hash, words, i) ==
    IF hash >= 0 /\ i > Len(words) THEN hash ELSE HashFrom(Mixed(hash, words[i]), words, i + 1)

Hash(words) == HashFrom(1, words, 1)

-----------------------------------------------------------------------------
(* Shapes. *)

\* A word of the given width, at most upTo or the one number that is also allowed,
\* which is kept as a number, a signed number, a boolean or its lower half; a word
\* that is kept as a positive number is not 0.
Num(width, upTo) ==
    [is |-> "word", width |-> width, upTo |-> upTo, also |-> upTo, kept |-> "number"]

UInt8    == Num(1, 255)
UInt32   == Num(4, AllOnes)
UInt64   == Num(8, AllOnes)
Negative(word) == [word EXCEPT !.kept = "signed"]
Bool     == [Num(1, 1) EXCEPT !.kept = "boolean"]
AnyBool  == [UInt8 EXCEPT !.kept = "boolean"]

\* A string behind its length.
Inline(maximum) == [is |-> "inline", maximum |-> maximum]

\* A string of the pool, by its index; the invalid index may stand for "none".
Pooled(optional) == [is |-> "pooled", optional |-> optional]

\* fields is a sequence of <<name, shape>>; the rest of the record is not read.
FieldsAnd(fields, rest) == [is |-> "fields", fields |-> fields, rest |-> rest]

Fields(fields) == FieldsAnd(fields, <<>>)

\* A list of at most maximum elements, which claims no more elements than the
\* bytes left can hold at `least` bytes each, and `slack` more.
List(of, maximum, least, slack) ==
    [is |-> "list", of |-> of, maximum |-> maximum, least |-> least, slack |-> slack]

\* Two values one after the other.
Pair(first, second) == [is |-> "pair", first |-> first, second |-> second]

\* A byte, and if it is one, a value.
Option(of) == [is |-> "option", of |-> of]

\* A byte that selects the shape of the value behind it.
Tagged(shapes) == [is |-> "tagged", shapes |-> shapes]

\* No value at all: values nested too deep.
Nothing == [is |-> "nothing"]

\* A reader: the bytes, where it is, where its section ends, the strings known
\* and what it has just read.
Reader(bytes, at, end, pool) ==
    [bytes |-> bytes, at |-> at, end |-> end, pool |-> pool, ok |-> end <= Len(bytes),
     value |-> <<>>]

Refused(r) == [r EXCEPT !.ok = FALSE]

Finished(r) == r.ok /\ r.at = r.end

Remaining(r) == r.end - r.at

Take(r, width) ==
    IF ~r.ok \/ width > Remaining(r)
    THEN Refused(r)
    ELSE [r EXCEPT !.at = @ + width, !.value = SubSeq(r.bytes, r.at + 1, r.at + width)]

Kept(shape, word, bytes) ==
    CASE shape.kept = "number"  -> word
      [] shape.kept = "signed"  -> Signed(word)
      [] shape.kept = "boolean" -> word # 0
      [] shape.kept = "half"    -> Value(SubSeq(bytes, 1, 2))
      [] shape.kept = "positive" -> word

Admitted(shape, taken) ==
    LET word == Value(taken.value) IN
    IF ~taken.ok THEN taken
    ELSE IF (word <= shape.upTo \/ word = shape.also) /\ (shape.kept = "positive" => word # 0)
    THEN [taken EXCEPT !.value = Kept(shape, word, taken.value)]
    ELSE Refused(taken)

ReadWord(r, shape) == Admitted(shape, Take(r, shape.width))

\* The length of a list or a string.
ReadCount(r, maximum) == ReadWord(r, Num(4, maximum))

ReadInline(r, shape) ==
    LET length == ReadCount(r, shape.maximum) IN
    IF length.ok THEN Take(length, length.value) ELSE length

ReadPooled(r, shape) ==
    LET index == ReadWord(r, UInt32) IN
    IF ~index.ok THEN index
    ELSE IF shape.optional /\ index.value = AllOnes
    THEN [index EXCEPT !.value = <<>>]
    ELSE IF index.value < Len(r.pool)
    THEN [index EXCEPT !.value = r.pool[index.value + 1]]
    ELSE Refused(index)

Fits(count, shape) ==
    shape.least = 0 \/ count.value <= Remaining(count) \div shape.least + shape.slack

RECURSIVE Read(_, _), ReadFields(_, _, _, _), ReadMany(_, _, _, _)

ReadFields(r, fields, i, record) ==
    IF i > Len(fields)
    THEN [r EXCEPT !.value = record]
    ELSE LET next == Read(r, fields[i][2]) IN
         IF next.ok
         THEN ReadFields(next, fields, i + 1, (fields[i][1] :> next.value) @@ record)
         ELSE next

ReadMany(r, of, n, list) ==
    IF n = 0
    THEN [r EXCEPT !.value = list]
    ELSE LET next == Read(r, of) IN
         IF next.ok THEN ReadMany(next, of, n - 1, Append(list, next.value)) ELSE next

ReadList(r, shape) ==
    LET count == ReadCount(r, shape.maximum) IN
    IF ~count.ok THEN count
    ELSE IF Fits(count, shape) THEN ReadMany(count, shape.of, count.value, <<>>)
    ELSE Refused(count)

ReadOption(r, shape) ==
    LET flag  == ReadWord(r, Num(1, 1))
        inner == Read(flag, shape.of)
    IN
    IF ~flag.ok THEN flag
    ELSE IF flag.value = 0 THEN [flag EXCEPT !.value = <<>>]
    ELSE IF inner.ok THEN [inner EXCEPT !.value = <<@>>]
    ELSE inner

ReadPair(r, shape) ==
    LET first  == Read(r, shape.first)
        second == Read(first, shape.second)
    IN
    IF first.ok /\ second.ok THEN [second EXCEPT !.value = <<first.value, @>>]
    ELSE Refused(r)

ReadTagged(r, shape) ==
    LET tag   == ReadWord(r, UInt8)
        inner == Read(tag, shape.shapes[tag.value])
    IN
    IF ~tag.ok THEN tag
    ELSE IF tag.value \notin DOMAIN shape.shapes THEN Refused(tag)
    ELSE IF inner.ok THEN [inner EXCEPT !.value = <<tag.value, @>>]
    ELSE inner

Read(r, shape) ==
    CASE shape.is = "word"    -> ReadWord(r, shape)
      [] shape.is = "inline"  -> ReadInline(r, shape)
      [] shape.is = "pooled"  -> ReadPooled(r, shape)
      [] shape.is = "fields"  -> ReadFields(r, shape.fields, 1, shape.rest)
      [] shape.is = "list"    -> ReadList(r, shape)
      [] shape.is = "option"  -> ReadOption(r, shape)
      [] shape.is = "pair"    -> ReadPair(r, shape)
      [] shape.is = "tagged"  -> ReadTagged(r, shape)
      [] shape.is = "nothing" -> Refused(r)

=============================================================================
