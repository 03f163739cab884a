---------------------------------- MODULE Wire ----------------------------------
(***************************************************************************)
(* The reader of protocol buffers that the decoders share                  *)
(* (internal/protobuf).  A message is a sequence of bytes.  What is read of  *)
(* it depends on the message, so each says how it reads its fields:        *)
(*                                                                         *)
(*   "number"   a varint, if that is what is there; otherwise skipped        *)
(*   "bytes"    a length and so many bytes, if that is what is there        *)
(*   "blindly"  a varint, whatever the tag says is there                   *)
(*   "packed"   varints, one or a run of them, and nothing else             *)
(*   "layer"    bytes, and nothing else                                    *)
(*   "fixed4", "fixed8"  so many bytes, if that is what is there             *)
(*                                                                         *)
(* A message that ends in a field, or holds one nobody may write, is no     *)
(* message; which of the two it is does not matter.                        *)
(***************************************************************************)
EXTENDS Integers, Sequences, SequencesExt

CONSTANTS
    GroupBits,          \* bits of a number in a byte (7)
    WordBits,           \* bits of the widest number (64)
    NarrowBits          \* bits of the narrower ones (32)

ASSUME WireAssumption ==
    /\ {GroupBits, WordBits, NarrowBits} \subseteq Nat \ {0}
    /\ GroupBits < WordBits /\ NarrowBits < WordBits

Broken == [ok |-> FALSE]

-----------------------------------------------------------------------------
(***************************************************************************)
(* Numbers.                                                                *)
(***************************************************************************)
MaxGroups == (WordBits + GroupBits - 1) \div GroupBits
\* What fits in the last byte of the longest number.
LastGroup == 2^(WordBits - GroupBits * (MaxGroups - 1))

\* The number at i, least significant group first.
Uvarint(b, i) ==
    LET ends == {j \in i..Len(b) : b[j] < 2^GroupBits}
        last == CHOOSE j \in ends : \A k \in ends : j <= k
        Group(j) == (b[j] % 2^GroupBits) * 2^(GroupBits * (j - i))
    IN  IF ends = {} THEN Broken
        ELSE IF last - i >= MaxGroups THEN Broken
        ELSE IF last - i = MaxGroups - 1 /\ b[last] >= LastGroup THEN Broken
        ELSE [ok |-> TRUE, next |-> last + 1,
              v |-> FoldLeft(LAMBDA sum, j : sum + Group(j), 0,
                             [n \in 1..last - i + 1 |-> i + n - 1])]

\* A word read as a signed number of so many bits.
Signed(v, bits) == IF v < 2^(bits - 1) THEN v ELSE v - 2^bits
FitsSigned(i) == -(2^(NarrowBits - 1)) <= i /\ i < 2^(NarrowBits - 1)
FitsUnsigned(v) == v < 2^NarrowBits

Unzigzag(v) == IF v % 2 = 0 THEN v \div 2 ELSE -(v \div 2) - 1
Zigzag(i) == IF i >= 0 THEN 2 * i ELSE -2 * i - 1

-----------------------------------------------------------------------------
(***************************************************************************)
(* Fields.                                                                 *)
(***************************************************************************)
Run(b, i, n) ==
    IF n > Len(b) - i + 1 THEN Broken
    ELSE [ok |-> TRUE, next |-> i + n, v |-> SubSeq(b, i, i + n - 1)]

Lengthy(b, i) ==
    LET n == Uvarint(b, i) IN IF n.ok THEN Run(b, n.next, n.v) ELSE Broken

\* Past a field, or as a field of its own wire type.
Skip(b, i, wire) ==
    CASE wire = 0 -> Uvarint(b, i)
      [] wire = 1 -> Run(b, i, 8)
      [] wire = 2 -> Lengthy(b, i)
      [] wire = 5 -> Run(b, i, 4)
      [] OTHER -> Broken

RECURSIVE Numbers(_, _)
Numbers(b, i) ==
    LET n == Uvarint(b, i)
        rest == Numbers(b, n.next)
    IN  IF i > Len(b) THEN [ok |-> TRUE, v |-> <<>>]
        ELSE IF ~n.ok \/ ~rest.ok THEN Broken
        ELSE [ok |-> TRUE, v |-> <<n.v>> \o rest.v]

Packed(b, i, wire) ==
    LET one == Uvarint(b, i)
        run == Lengthy(b, i)
        all == Numbers(run.v, 1)
    IN  CASE wire = 0 -> IF one.ok THEN [one EXCEPT !.v = <<@>>] ELSE Broken
          [] wire = 2 -> IF run.ok /\ all.ok THEN [run EXCEPT !.v = all.v] ELSE Broken
          [] OTHER -> Broken

Wanted(how) == CASE how = "number" -> 0 [] how = "bytes" -> 2
                 [] how = "fixed4" -> 5 [] how = "fixed8" -> 1

ReadAs(how, b, i, wire) ==
    CASE how = "blindly" -> Uvarint(b, i)
      [] how = "packed" -> Packed(b, i, wire)
      [] how = "layer" -> IF wire = 2 THEN Lengthy(b, i) ELSE Broken
      [] OTHER -> Skip(b, i, wire)

Kept(how, wire) == how \in {"blindly", "packed", "layer"} \/ wire = Wanted(how)

\* The fields of a message from byte i on, those the message knows.
RECURSIVE FieldsFrom(_, _, _)
FieldsFrom(b, i, knows) ==
    LET tag == Uvarint(b, i)
        field == tag.v \div 8
        wire == tag.v % 8
        known == field \in DOMAIN knows
        got == IF known THEN ReadAs(knows[field], b, tag.next, wire)
               ELSE Skip(b, tag.next, wire)
        rest == FieldsFrom(b, got.next, knows)
    IN  IF i > Len(b) THEN [ok |-> TRUE, fields |-> <<>>]
        ELSE IF ~tag.ok THEN Broken
        ELSE IF field = 0 \/ ~got.ok THEN Broken
        ELSE IF ~rest.ok THEN Broken
        ELSE IF known /\ Kept(knows[field], wire)
        THEN [rest EXCEPT !.fields = <<[field |-> field, v |-> got.v]>> \o @]
        ELSE rest

Fields(b, knows) == FieldsFrom(b, 1, knows)

\* Every value of a field, in order; the last one; all the packed ones.
Given(m, field) ==
    LET all == SelectSeq(m.fields, LAMBDA f : f.field = field)
    IN  [i \in DOMAIN all |-> all[i].v]
Scalar(m, field, default) ==
    IF Given(m, field) = <<>> THEN default ELSE Last(Given(m, field))
Listed(m, field) == FlattenSeq(Given(m, field))

Over(f(_), values) == [i \in DOMAIN values |-> f(values[i])]
Signs(values) == Over(LAMBDA v : Signed(v, WordBits), values)
Unzigzags(values) == Over(Unzigzag, values)

-----------------------------------------------------------------------------
(***************************************************************************)
(* Decompression within a limit (internal/inflate): one byte past it is     *)
(* asked for, so that an answer of just so many bytes is no failure.        *)
(***************************************************************************)
Within(stream, limit) ==
    IF ~stream.ok \/ Len(stream.v) > limit THEN Broken ELSE stream

-----------------------------------------------------------------------------
\* How the fields are written, which the program does in tests only.
RECURSIVE Varint(_)
Varint(v) == IF v < 2^GroupBits THEN <<v>>
             ELSE <<2^GroupBits + (v % 2^GroupBits)>> \o Varint(v \div 2^GroupBits)
Number(field, v) == Varint(8 * field) \o Varint(v)
Block(field, b) == Varint(8 * field + 2) \o Varint(Len(b)) \o b
Varints(values) == FlattenSeq(Over(Varint, values))
Word(i) == IF i < 0 THEN i + 2^WordBits ELSE i
=============================================================================
