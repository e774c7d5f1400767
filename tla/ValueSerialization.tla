--------------------------- MODULE ValueSerialization ---------------------------
(***************************************************************************)
(* The bytes of a patch tree's records, as they are built with USE_VSI and *)
(* USE_VSI_T: LEB128 numbers (patch/variable_size_integer.h), interval     *)
(* lists, addition and deletion values, the deltas of their positions, and *)
(* triples, which are the keys.  A byte is a number, a record a sequence.  *)
(*                                                                         *)
(* The checks for encoded numbers over 64 bits are left out: TLC's numbers *)
(* have 32, and the program decodes what it encoded.                       *)
(***************************************************************************)
EXTENDS PatchTree

More == 128                                   \* the high bit of a byte

-----------------------------------------------------------------------------
(* variable_size_integer.h *)

\* encode_ULEB128
ULEB128[n \in Nat] == IF n < More THEN <<n>> ELSE <<(n % More) + More>> \o ULEB128[n \div More]

\* encode_SLEB128; its last byte has the sign in its second bit.
Fits(n) == n \in -64 .. 63
SLEB128[n \in Int] ==
  IF Fits(n) THEN <<n % More>> ELSE <<(n % More) + More>> \o SLEB128[n \div More]

LastByte(bytes, at) == Min({i \in at .. Len(bytes) : bytes[i] < More})

\* decode_ULEB128 and decode_SLEB128: the number at a place, and the place after it.
Decoded(bytes, at, lastDigit(_)) ==
  LET last == LastByte(bytes, at)
      value[i \in at .. last] ==
        IF i = last THEN lastDigit(bytes[i]) ELSE bytes[i] - More + More * value[i + 1]
  IN [value |-> value[at], next |-> last + 1]

DecodeULEB128(bytes, at) == Decoded(bytes, at, LAMBDA b : b)
DecodeSLEB128(bytes, at) == Decoded(bytes, at, LAMBDA b : IF b < 64 THEN b ELSE b - More)

EncodeAll(numbers) == FlattenSeq([i \in DOMAIN numbers |-> SLEB128[numbers[i]]])
DecodeAll(bytes) ==
  LET from[at \in 1 .. Len(bytes) + 1] ==
        IF at > Len(bytes) THEN <<>>
        ELSE LET n == DecodeSLEB128(bytes, at) IN <<n.value>> \o from[n.next]
  IN from[1]

\* A size_t that is copied: eight bytes, the lowest first.
SizeBytes == 8
CopySize(n) == <<n % 256, n \div 256>> \o [i \in 1 .. SizeBytes - 2 |-> 0]
CopiedSize(bytes, at) == bytes[at] + 256 * bytes[at + 1]

-----------------------------------------------------------------------------
(* IntervalList::serialize and deserialize *)

InOrder(ids) == SetToSortSeq(ids, <)

SerializeList(l) ==
  LET starts == InOrder(DOMAIN l)
  IN FlattenSeq([i \in DOMAIN starts |-> EncodeAll(<<starts[i], l[starts[i]]>>)])

DeserializeList(bytes) ==
  LET numbers == DecodeAll(bytes)
      places == {i \in DOMAIN numbers : i % 2 = 1}
  IN [s \in {numbers[i] : i \in places} |->
        numbers[1 + CHOOSE i \in places : numbers[i] = s]]

-----------------------------------------------------------------------------
(* PatchTreeAdditionValue *)

SerializeAddition(v) ==
  LET patches == SerializeList(v.patches)
  IN ULEB128[Len(patches)] \o patches \o SerializeList(v.local)

DeserializeAddition(bytes) ==
  LET size == DecodeULEB128(bytes, 1)
      local == size.next + size.value
  IN [patches |-> DeserializeList(SubSeq(bytes, size.next, local - 1)),
      local   |-> DeserializeList(SubSeq(bytes, local, Len(bytes)))]

-----------------------------------------------------------------------------
(* PatchPositions and DeltaPatchPositionsContainerV2 *)

KindsInOrder ==
  SelectSeq(<<"sp_", "s_o", "s__", "_po", "_p_", "__o", "___">>, LAMBDA k : k \in Kinds)

EncodePositions(p) == EncodeAll([i \in DOMAIN KindsInOrder |-> p[KindsInOrder[i]]])

\* A positions value from the numbers for some of its kinds, or of its differences.
FromNumbers(numbers) ==
  [k \in Kinds |-> numbers[CHOOSE i \in DOMAIN KindsInOrder : KindsInOrder[i] = k]]

\* The kinds in which two values differ, one bit each.
Changed(before, p) == {i \in DOMAIN KindsInOrder : before[KindsInOrder[i]] # p[KindsInOrder[i]]}
HeadByte(bits) == MapThenSumSet(LAMBDA i : 2^(i - 1), bits)
BitsOf(head) == {i \in DOMAIN KindsInOrder : (head \div 2^(i - 1)) % 2 = 1}

\* position_diff
EncodeDelta(before, id, p) ==
  LET bits == InOrder(Changed(before, p))
      difference(i) == p[KindsInOrder[i]] - before[KindsInOrder[i]]
  IN <<HeadByte(Changed(before, p))>> \o SLEB128[id]
       \o EncodeAll([j \in DOMAIN bits |-> difference(bits[j])])

\* delta_serialize_position_vec
SerializePositions(positions) ==
  LET ids == InOrder(DOMAIN positions)
  IN FlattenSeq([i \in DOMAIN ids |->
       IF i = 1 THEN SLEB128[ids[1]] \o EncodePositions(positions[ids[1]])
       ELSE EncodeDelta(positions[ids[i - 1]], ids[i], positions[ids[i]])])

\* count numbers from a place on, and the place after them.
DecodeSome(bytes, at, count) ==
  LET from[i \in 0 .. count] ==
        IF i = 0 THEN [numbers |-> <<>>, next |-> at]
        ELSE LET n == DecodeSLEB128(bytes, from[i - 1].next)
             IN [numbers |-> Append(from[i - 1].numbers, n.value), next |-> n.next]
  IN from[count]

\* position_undiff, with the values of the entry before.
UndiffedFromFirst(first, before, differences, bits) ==            \* mutant
  [k \in Kinds |->
     LET i == CHOOSE j \in DOMAIN KindsInOrder : KindsInOrder[j] = k
     IN first[k] + IF i \in bits THEN differences[Cardinality({j \in bits : j <= i})] ELSE 0]
Undiffed(first, before, differences, bits) ==
  [k \in Kinds |->
     LET i == CHOOSE j \in DOMAIN KindsInOrder : KindsInOrder[j] = k
     IN before[k] + IF i \in bits THEN differences[Cardinality({j \in bits : j <= i})] ELSE 0]

\* delta_deserialize_position_vec
DeserializePositions(bytes) ==
  LET firstId == DecodeSLEB128(bytes, 1)
      values == DecodeSome(bytes, firstId.next, Len(KindsInOrder))
      first == FromNumbers(values.numbers)
      rest[at \in 1 .. Len(bytes) + 1, before \in [Kinds -> Int]] ==
        IF at > Len(bytes) THEN [id \in {} |-> before]
        ELSE LET bits == BitsOf(bytes[at])
                 id == DecodeSLEB128(bytes, at + 1)
                 differences == DecodeSome(bytes, id.next, Cardinality(bits))
                 p == Undiffed(first, before, differences.numbers, bits)
             IN rest[differences.next, p] @@ (id.value :> p)
  IN rest[values.next, first] @@ (firstId.value :> first)

-----------------------------------------------------------------------------
(* DVIntervalList *)

SerializeDeletion(v) ==
  LET patches == SerializeList(v.patches)
      local == SerializeList(v.local)
  IN CopySize(Len(patches)) \o CopySize(Len(local)) \o patches \o local
       \o SerializePositions(v.positions)

\* Into a value that was used before: without positions its own stay.
DeserializeDeletion(used, bytes) ==
  LET patches == 2 * SizeBytes + 1
      local == patches + CopiedSize(bytes, 1)
      positions == local + CopiedSize(bytes, SizeBytes + 1)
  IN [patches   |-> DeserializeList(SubSeq(bytes, patches, local - 1)),
      local     |-> DeserializeList(SubSeq(bytes, local, positions - 1)),
      positions |-> IF positions > Len(bytes) THEN used.positions
                    ELSE DeserializePositions(SubSeq(bytes, positions, Len(bytes)))]

-----------------------------------------------------------------------------
(* Triple *)

SerializeTriple(s, p, o) == ULEB128[s] \o ULEB128[p] \o ULEB128[o]
DeserializeTriple(bytes) ==
  LET s == DecodeULEB128(bytes, 1)
      p == DecodeULEB128(bytes, s.next)
      o == DecodeULEB128(bytes, p.next)
  IN <<s.value, p.value, o.value>>

-----------------------------------------------------------------------------

\* Numbers around those where an encoding gets a byte more.
EdgeNumbers == {-129, -128, -65, -64, -1, 0, 63, 64, 127, 128, 8191, 8192, 2147483647}

NumbersExact ==
  /\ \A n \in EdgeNumbers : DecodeAll(SLEB128[n]) = <<n>>
  /\ \A s, p, o \in EdgeNumbers \cap Nat :
       DeserializeTriple(SerializeTriple(s, p, o)) = <<s, p, o>>

(***************************************************************************)
(* What the trees hold is what was put there: every value that a merge     *)
(* produces, for ids and positions on both sides of the byte boundaries    *)
(* and positions that grow and shrink, is read back from its bytes, also   *)
(* into a value object that was used for another triple before.            *)
(***************************************************************************)
StoredExact ==
  /\ NumbersExact
  /\ \A t \in Triples :
       /\ DeserializeAddition(SerializeAddition(additions[t])) = additions[t]
       /\ DeserializeList(SerializeList(reduced[t].patches)) = reduced[t].patches
       /\ InDeletions(t) => \A u \in Triples :
            DeserializeDeletion(deletions[u], SerializeDeletion(deletions[t])) = deletions[t]
===============================================================================
