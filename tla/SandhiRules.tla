---------------------------- MODULE SandhiRules -----------------------------
(***************************************************************************)
(* The rule table of fpga/rtl/sandhi_engine.sv and the sandhi of a pair of *)
(* UPC-8 codes that the table stands for.                                  *)
(***************************************************************************)
EXTENDS Upc8Unit

(* A result: the mode (0 passthrough, 1 one code, 2 two codes) and the two *)
(* output codes.                                                           *)
Mk(m, a, b) == [mode |-> m, out0 |-> a, out1 |-> b]

(* The rule table: what rule r makes of a pair, as a set with one member   *)
(* when the rule matches and none when it does not.                        *)
Savarna(p, c) == Only(Row(p) = Row(c), Mk(1, 128 + 8 * Row(p) + 1, 0))
Guna(p, c)    == Only(Row(p) = 0 /\ Row(c) \in {1, 2}, Mk(1, IF Row(c) = 1 THEN 168 ELSE 176, 0))
Yan(p, c)     == Only(Row(p) \in {1, 2} /\ Row(c) # Row(p), Mk(2, IF Row(p) = 1 THEN 10 ELSE 11, c))
Rule(r, p, c) ==
    IF ~OralSkt(p) \/ ~OralSkt(c) THEN {}
    ELSE CASE r = 0 -> Savarna(p, c) [] r = 1 -> Guna(p, c) [] r = 2 -> Yan(p, c)

(* The sandhi of a pair, by the order of the sutras: the first rule that   *)
(* applies gives the result, and a pair no rule applies to passes through. *)
SandhiOf(p, c) ==
    IF \A r \in 0 .. 2 : Rule(r, p, c) = {} THEN Mk(0, p, c)
    ELSE LET first == CHOOSE r \in 0 .. 2 :
                         Rule(r, p, c) # {} /\ \A s \in 0 .. (r - 1) : Rule(s, p, c) = {}
         IN CHOOSE x \in Rule(first, p, c) : TRUE

(* The 18 result bits as the CPU packs them: mode, result_1, result_0.     *)
Packed(l) == l.out0 + 256 * l.out1 + 65536 * l.mode
=============================================================================
