----------------------------- MODULE Upc8Chain ------------------------------
(***************************************************************************)
(* A program that applies the transforms of fpga/rtl/upc8_unit.sv one      *)
(* after another with MOV rs2 = 5, each time to the code of the last       *)
(* result.  One step is one such MOV.                                      *)
(***************************************************************************)
EXTENDS Upc8Unit

VARIABLES origin,         \* history: the code the chain started with
          code, op,       \* the operand of the last MOV
          result          \* and its result word

chainVars == <<origin, code, op, result>>

Operand(o, c) == MkWord(TAG_FIXNUM, c + 256 * o)

ChainInit == /\ origin \in Byte
             /\ code = origin
             /\ op = NOP
             /\ result = Upc8Result(5, Operand(NOP, origin))

Transform(o) == /\ code' = CodeOf(result)
                /\ op' = o
                /\ result' = Upc8Result(5, Operand(o, CodeOf(result)))
                /\ UNCHANGED origin

ChainNext == \E o \in NOP .. ASPIRATE : Transform(o)

Now   == CodeOf(result)

-----------------------------------------------------------------------------
(* No chain of transforms leaves the layer it started in: a vowel stays a  *)
(* vowel code of the Sanskrit layer and never enters the reserved row, and *)
(* every other code stays out of it (upc8_unit.sv:84-198).                 *)
ChainsStayInLayer ==
    /\ SktLayer(Now) <=> SktLayer(origin)
    /\ SktLayer(Now) => (ReservedRow(Now) <=> ReservedRow(origin))

Then(p, q, c) == UNION {Images(q, d) : d \in Images(p, c)}

(* At every code a chain comes to: voicing and aspirating, where both are  *)
(* defined, come to the same consonant in either order, so the two tables  *)
(* of ten entries agree; and the rows form one cycle, NEXT_ROW and         *)
(* PREV_ROW undoing each other wherever one of them is defined             *)
(* (upc8_unit.sv:110-134, 153-191).                                        *)
TransformsAgree ==
    /\ Images(VOICE, Now) # {} /\ Images(ASPIRATE, Now) # {}
          => /\ Then(VOICE, ASPIRATE, Now) = Then(ASPIRATE, VOICE, Now)
             /\ Then(VOICE, ASPIRATE, Now) # {}
    /\ Images(NEXT_ROW, Now) # {} <=> Images(PREV_ROW, Now) # {}
    /\ Images(NEXT_ROW, Now) # {} => /\ Then(NEXT_ROW, PREV_ROW, Now) = {Now}
                                     /\ Then(PREV_ROW, NEXT_ROW, Now) = {Now}
=============================================================================
