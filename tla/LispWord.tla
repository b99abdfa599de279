------------------------------ MODULE LispWord ------------------------------
(***************************************************************************)
(* The 32-bit Lisp word of fpga/rtl/lisp_word.sv: a 4-bit tag and a 28-bit *)
(* value.  Every register, heap field and data-path wire carries one.      *)
(***************************************************************************)
EXTENDS Integers

TAG_FIXNUM        == 0
TAG_CONS          == 1
TAG_SYMBOL        == 2
TAG_NIL           == 3
TAG_TRUE          == 4
TAG_PRIMITIVE     == 5
TAG_PREDICATE_BIT == 6

Tag      == 0 .. 15
ValueMod == 268435456                                         \* 2^28
Value    == 0 .. (ValueMod - 1)
Word     == [tag : Tag, value : Value]

MkWord(t, v) == [tag |-> t, value |-> v]
ZeroWord     == MkWord(TAG_FIXNUM, 0)           \* '0, the reset value
Nil          == MkWord(TAG_NIL, 0)
SYM_T        == 79                              \* canonical symbol t
SymT         == MkWord(TAG_SYMBOL, SYM_T)
Truth(b)     == IF b THEN SymT ELSE Nil

IsCons(w)    == w.tag = TAG_CONS

(* Addition and subtraction of two 28-bit values wrap.                     *)
WrapAdd(x, y) == IF x + y < ValueMod THEN x + y ELSE x + y - ValueMod
WrapSub(x, y) == IF x >= y THEN x - y ELSE x - y + ValueMod
=============================================================================
