------------------------------ MODULE Upc8Unit ------------------------------
(***************************************************************************)
(* fpga/rtl/upc8_unit.sv: the combinational UPC-8 engine behind MOV with   *)
(* rs2 = 4, 5 and 6.  A code is a byte {cls[7:6], row[5:3], free[2],       *)
(* nasal[1], length[0]}.                                                   *)
(***************************************************************************)
EXTENDS LispWord

Byte == 0 .. 255

Cls(c)    == c \div 64
Row(c)    == (c \div 8) % 8
Free(c)   == (c \div 4) % 2
Nasal(c)  == (c \div 2) % 2
Length(c) == c % 2

Class10(c)     == Cls(c) = 2
SktLayer(c)    == Class10(c) /\ Free(c) = 0
OralSkt(c)     == SktLayer(c) /\ Nasal(c) = 0
Ac14(c)        == OralSkt(c) /\ Row(c) < 7
An(c)          == OralSkt(c) /\ Row(c) < 5
Ik(c)          == OralSkt(c) /\ Row(c) \in 1 .. 4
ReservedRow(c) == Class10(c) /\ Row(c) = 7

Bit(b) == IF b THEN 1 ELSE 0

(* Rows 0 to 6 in a circle.                                                *)
NextRow(c) == (Row(c) + 1) % 7
PrevRow(c) == (Row(c) + 6) % 7

WithRow(c, r)  == c + 8 * (r - Row(c))
WithLength1(c) == c + (1 - Length(c))
FlipLength(c)  == c + 1 - 2 * Length(c)
FaultyFlipNasal(c) == c + 4 * (1 - 2 * Free(c))        \* Faulty: the mask of the next bit
FlipNasal(c)   == c + 2 * (1 - 2 * Nasal(c))

NOP == 0
TOGGLE_LENGTH == 1
TOGGLE_NASAL == 2
NEXT_ROW == 3
PREV_ROW == 4
GUNA == 5
VOICE == 6
ASPIRATE == 7

(* The two consonant tables, as sets of <<from, to>>; Faulty: one entry of *)
(* the first with the code of another column.                              *)
FaultyVoicePairs == {<<35, 24>>, <<27, 19>>, <<32, 22>>, <<29, 17>>, <<33, 25>>,
                     <<30, 20>>, <<34, 26>>, <<31, 21>>, <<36, 22>>, <<28, 18>>}
VoicePairs    == {<<35, 24>>, <<27, 19>>, <<32, 22>>, <<29, 17>>, <<33, 25>>,
                  <<30, 20>>, <<34, 26>>, <<31, 21>>, <<36, 23>>, <<28, 18>>}
AspiratePairs == {<<35, 27>>, <<24, 19>>, <<32, 29>>, <<22, 17>>, <<33, 30>>,
                  <<25, 20>>, <<34, 31>>, <<26, 21>>, <<36, 28>>, <<23, 18>>}

Only(cond, x) == IF cond THEN {x} ELSE {}

(* Rows 5 and 6 become long, row 0 goes to row 5, rows 1 to 4 to row 0.    *)
GunaOf(c) == IF Row(c) >= 5 THEN WithLength1(c) ELSE WithRow(c, IF Row(c) = 0 THEN 5 ELSE 0)

(* The codes an operation may produce from c: one, or none when it is an   *)
(* error.                                                                  *)
Images(op, c) ==
    CASE op = NOP           -> {c}
      [] op = TOGGLE_LENGTH -> Only(SktLayer(c), FlipLength(c))
      [] op = TOGGLE_NASAL  -> Only(SktLayer(c), FlipNasal(c))
      [] op = NEXT_ROW      -> Only(SktLayer(c) /\ Row(c) < 7, WithRow(c, NextRow(c)))
      [] op = PREV_ROW      -> Only(SktLayer(c) /\ Row(c) < 7, WithRow(c, PrevRow(c)))
      [] op = GUNA          -> Only(OralSkt(c) /\ Row(c) < 7, GunaOf(c))
      [] op = VOICE         -> {p[2] : p \in {q \in VoicePairs : q[1] = c}}
      [] op = ASPIRATE      -> {p[2] : p \in {q \in AspiratePairs : q[1] = c}}

(* On an error the code comes back unchanged and the error bit is set.     *)
TransformError(op, c) == Images(op, c) = {}
TransformOut(op, c)   == IF TransformError(op, c) THEN c
                         ELSE CHOOSE x \in Images(op, c) : TRUE

CodeOf(w) == w.value % 256
OpOf(w)   == (w.value \div 256) % 8

DecodeValue(c) ==
    c + 256 * Bit(Class10(c)) + 512 * Bit(Ac14(c)) + 1024 * Bit(An(c))
      + 2048 * Bit(Ik(c)) + 4096 * Bit(ReservedRow(c)) + 8192 * Row(c)

(* transform_valid is set for every operation, the failing ones included.  *)
TransformValue(op, c) ==
    TransformOut(op, c) + 256 + 512 * Bit(TransformError(op, c)) + 8192 * op

PredicateValue(c) ==
    Bit(Class10(c)) + 2 * Bit(Ac14(c)) + 4 * Bit(An(c)) + 8 * Bit(Ik(c)) + 16 * Bit(ReservedRow(c))

(* upc8_result, selected by rs2.                                           *)
Upc8Result(rs2, w) ==
    CASE rs2 = 4 -> MkWord(TAG_FIXNUM, DecodeValue(CodeOf(w)))
      [] rs2 = 5 -> MkWord(TAG_FIXNUM, TransformValue(OpOf(w), CodeOf(w)))
      [] rs2 = 6 -> MkWord(TAG_FIXNUM, PredicateValue(CodeOf(w)))
      [] OTHER   -> w
=============================================================================
