-------------------------- MODULE MC_LispDataUnit ---------------------------
(* The data unit on its own, driven by every sequence of commands.         *)
EXTENDS LispDataUnit

Junk == MkWord(TAG_SYMBOL, 5)
MCPowerUp == {Junk}
(* An atom and a pointer with value bits above the heap address, which     *)
(* reaches cell 0 of the two; cell 1 is reached by CONS and by peeks.      *)
MCOperandA == {Junk, MkWord(TAG_CONS, 2)}
MCOperandB == {Nil, Junk}
=============================================================================
