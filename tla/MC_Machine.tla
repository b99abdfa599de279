----------------------------- MODULE MC_Machine ------------------------------
(* Programs and registers for the runs of the composed machine.            *)
EXTENDS MachineProperties, TLC

MCPowerUp  == {MkWord(TAG_CONS, 1)}        \* the worst the RAM can hold
Registers(r, w) == {[s \in Reg |-> IF s = r THEN w ELSE ZeroWord]}

-----------------------------------------------------------------------------
(* Every program of five words, the first a CONS, over the instructions    *)
(* that build, read and backpatch pairs, on a heap of three pairs; and     *)
(* every loop of three words over the instructions that talk to the UART,  *)
(* branch, call, trap or use the sandhi engine.  A host may send a byte at *)
(* any clock.  At the end of a program the pc wraps to its start.          *)
Pairs == {I(OP_CONS, 1, 1, 2, 0),          \* R1 := (R1 . R2)
          I(OP_CONS, 2, 2, 1, 0),          \* R2 := (R2 . R1)
          I(OP_CAR, 2, 1, 0, 0),           \* R2 := car R1
          I(OP_CAR, 2, 1, 2, 0),           \* FETCH_PAIR, both halves to R2
          I(OP_CAR, 1, 1, 2, 0),           \* FETCH_PAIR R1, R2 := R1
          I(OP_CDR, 1, 1, 0, 0),           \* R1 := cdr R1
          I(OP_ATOM, 3, 1, 2, 0),          \* SETCDR R1, R2
          I(OP_ATOM, 2, 2, 1, 0)}          \* SETCDR R2, R1

Others == {I(OP_OUT, 0, 1, 0, 0),          \* send R1
           I(OP_IN, 1, 0, 0, 0),           \* R1 := a received byte
           I(OP_MOV, 1, 1, 7, 0),          \* R1 := sandhi of the pair in R1
           I(OP_MOV, 2, 1, 5, 0),          \* R2 := the transform in R1
           I(OP_EQ, 2, 1, 3, 0),           \* R2 := R1 eq R3
           I(OP_JMP, 3, 0, 0, 2),          \* CALL 2, link in R3
           I(OP_JMP, 0, 3, 0, 0),          \* RET R3
           I(OP_JF, 0, 2, 0, 0),           \* to 0 when R2 is NIL
           I(OP_SUB, 2, 3, 1, 0),          \* R2 := R3 - R1, which may wrap
           I(OP_HALT, 0, 0, 1, 0)}         \* the trap

Back == I(OP_JMP, 0, 0, 0, 0)

(* A CALL in the last word of imem: the link is the size of imem, which    *)
(* RET cuts back to 0.  The code it calls copies, subtracts or conses the  *)
(* link first.                                                             *)
LastWordCall(i) == <<I(OP_JMP, 0, 0, 0, 4), i, I(OP_JMP, 0, 3, 0, 0), Back, I(OP_JMP, 3, 0, 0, 1)>>
LastWordCalls   == {[k \in 0 .. 4 |-> LastWordCall(i)[k + 1]] :
                       i \in {I(OP_MOV, 2, 3, 0, 0), I(OP_SUB, 2, 1, 3, 0), I(OP_CONS, 1, 3, 1, 0)}}

InstructionPrograms == {p \in [0 .. 4 -> Pairs] : p[0].op = OP_CONS}
                       \cup {p \in [0 .. 4 -> Others \cup {Back}] : p[3] = Back /\ p[4] = Back}
                       \cup LastWordCalls
(* R1 holds the codes of a and i, which the guna rule joins.               *)
InstructionRegInits == Registers(1, MkWord(TAG_FIXNUM, 128 * 256 + 136))

-----------------------------------------------------------------------------
(* A program that allocates three pairs and traps, for a host that sends   *)
(* any bytes to the monitor at any clock.  The low address byte reaches    *)
(* two pairs, so both address bytes are needed for the four.               *)
Build == <<I(OP_CONS, 1, 2, 1, 0), I(OP_CONS, 1, 1, 3, 0), I(OP_CONS, 3, 1, 2, 0),
           I(OP_HALT, 0, 0, 1, 0)>>

MonitorPrograms == {[k \in 0 .. 3 |-> Build[k + 1]]}
MonitorRegInits == Registers(2, MkWord(TAG_SYMBOL, 66051))

-----------------------------------------------------------------------------
(* For the board's reset at any clock: every loop of four words that       *)
(* starts with a CONS, so that every pair a run leaves in the RAM is there *)
(* when the next program runs.  Some of the loops fill the heap.           *)
Conses == {I(OP_CONS, 1, 1, 2, 0), I(OP_CONS, 2, 2, 1, 0)}
Uses   == Conses \cup {I(OP_ATOM, 2, 1, 1, 0),       \* SETCDR R1, R1
                       I(OP_CAR, 2, 1, 2, 0),        \* FETCH_PAIR, both to R2
                       I(OP_CDR, 1, 1, 0, 0)}        \* R1 := cdr R1

ResetPrograms == {(0 :> a) @@ (1 :> b) @@ (2 :> c) @@ (3 :> Back) : a \in Conses, b \in Uses, c \in Uses}
ResetRegInits == Registers(1, ZeroWord)
=============================================================================
