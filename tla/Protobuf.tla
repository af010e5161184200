------------------------------ MODULE Protobuf -------------------------------
(***************************************************************************)
(* The Protobuf encoding of rkwhisper-protocol: varints, keys and fields.  *)
(* A message is a sequence of bytes; what may fail to decode is a sequence *)
(* of at most one value.                                                   *)
(***************************************************************************)
EXTENDS Integers, Sequences, FiniteSetsExt

CONSTANTS Word64,       \* how many values an u64 has, 2^64 in the code,
          Word32,       \* and an u32
          MaxGroups     \* bytes of the longest varint, 10 in the code

\* How many numbers so many groups of seven bits make.
GroupsHold[k \in 0..MaxGroups] == IF k = 0 THEN 1 ELSE 128 * GroupsHold[k - 1]

\* The longest varint has room for an u64; a key of one byte is an u64, and its
\* field number an u32; an u64 is some whole u32s wide.
ASSUME WidthAssumption ==
    /\ {Word64, Word32, MaxGroups} \subseteq Nat
    /\ Word32 >= 16 /\ Word64 >= 128 /\ Word32 <= Word64 /\ Word64 <= GroupsHold[MaxGroups]
    /\ Word64 % Word32 = 0

U32  == 0..(Word32 - 1)
I32  == (-(Word32 \div 2))..(Word32 \div 2 - 1)
U64  == 0..(Word64 - 1)
Byte == 0..255

Fails   == <<>>
Is(v)   == <<v>>
AsU32(n) == n % Word32
AsU64(n) == n % Word64      \* of an i32 too, whose sign is extended
AsI32(n) == AsU32(n) - IF AsU32(n) < Word32 \div 2 THEN 0 ELSE Word32

\* Whether a varint goes on after its lowest seven bits.
GoesOn(n) == n >= 128

\* Seven bits in each byte, the lowest first; all but the last are flagged.
Varint[n \in U64] ==
    IF GoesOn(n) THEN <<(n % 128) + 128>> \o Varint[n \div 128] ELSE <<n>>

\* The fields of a message: wire type 0, 5 and 2.
FieldVarint(field, n)      == Varint[field * 8] \o Varint[n]
FieldFixed32(field, four)  == Varint[field * 8 + 5] \o four
FieldMessage(field, bytes) == Varint[field * 8 + 2] \o Varint[Len(bytes)] \o bytes

\* A field of any number that has a key, and of any wire type that is skipped.
IsField(f) ==
    /\ f = [field |-> f.field, wire |-> f.wire, value |-> f.value]
    /\ f.field \in U32 /\ f.field * 8 + f.wire \in U64
    /\ \/ f.wire = 0 /\ f.value \in U64
       \/ f.wire = 1 /\ f.value \in [1..8 -> Byte]
       \/ f.wire = 2 /\ f.value \in Seq(Byte) /\ Len(f.value) \in U64
       \/ f.wire = 5 /\ f.value \in [1..4 -> Byte]

\* A double: no message of this version has one.
FieldFixed64(field, eight) == Varint[field * 8 + 1] \o eight

EncodeField(f) ==
    CASE f.wire = 0 -> FieldVarint(f.field, f.value)
      [] f.wire = 1 -> FieldFixed64(f.field, f.value)
      [] f.wire = 2 -> FieldMessage(f.field, f.value)
      [] f.wire = 5 -> FieldFixed32(f.field, f.value)

-----------------------------------------------------------------------------
(* ProtoInput.  Each of these gives what is at pos and the position after. *)

\* What seven bits of each byte make, the lowest first.
Number(groups) ==
    LET From[i \in 1..(Len(groups) + 1)] ==
            IF i > Len(groups) THEN 0 ELSE (groups[i] % 128) + 128 * From[i + 1]
    IN  From[1]

VarintAt(bytes, pos) ==
    LET EndingAt(ends) ==
            IF ends = {} THEN Fails
            ELSE Is([value |-> AsU64(Number(SubSeq(bytes, pos, Min(ends)))),
                     next  |-> Min(ends) + 1])
    IN  EndingAt({p \in DOMAIN bytes : p \in pos..(pos + MaxGroups - 1) /\ bytes[p] < 128})

BytesAt(bytes, pos, n) ==
    IF pos + n - 1 > Len(bytes) THEN Fails
    ELSE Is([value |-> SubSeq(bytes, pos, pos + n - 1), next |-> pos + n])

\* bytes(): the length and then as many bytes.
DelimitedAt(bytes, pos) ==
    LET OfLength(n) == IF n = Fails THEN Fails ELSE BytesAt(bytes, n[1].next, n[1].value)
    IN  OfLength(VarintAt(bytes, pos))

\* Faulty variant of the next: a double is taken for as long as a float.
ContentAtShort(bytes, pos, wire) ==
    CASE wire = 0 -> VarintAt(bytes, pos)
      [] wire = 2 -> DelimitedAt(bytes, pos)
      [] wire \in {1, 5} -> BytesAt(bytes, pos, 4)
      [] OTHER    -> Fails

\* What follows a key of each wire type, whether it is read or skipped.
ContentAt(bytes, pos, wire) ==
    CASE wire = 0 -> VarintAt(bytes, pos)
      [] wire = 1 -> BytesAt(bytes, pos, 8)
      [] wire = 2 -> DelimitedAt(bytes, pos)
      [] wire = 5 -> BytesAt(bytes, pos, 4)
      [] OTHER    -> Fails

FieldAt(bytes, pos) ==
    LET Whole(key, content) ==
            IF content = Fails THEN Fails
            ELSE Is([value |-> [field |-> AsU32(key.value \div 8), wire |-> key.value % 8,
                                value |-> content[1].value],
                     next  |-> content[1].next])
        After(key) ==
            IF key = Fails THEN Fails
            ELSE Whole(key[1], ContentAt(bytes, key[1].next, key[1].value % 8))
    IN  After(VarintAt(bytes, pos))

\* All fields of a message, or none if one cannot be read.
Fields(bytes) ==
    LET Prepended(f, rest) == IF rest = Fails THEN Fails ELSE Is(<<f>> \o rest[1])
        From[pos \in 1..(Len(bytes) + 1)] ==
            LET Then(f) == IF f = Fails THEN Fails ELSE Prepended(f[1].value, From[f[1].next])
            IN  IF pos > Len(bytes) THEN Is(<<>>) ELSE Then(FieldAt(bytes, pos))
    IN  From[1]
=============================================================================
