---------------------------- MODULE Instruction -----------------------------
(***************************************************************************)
(* The instruction set as control.sv executes it: the fields that          *)
(* instruction_decoder.sv cuts out of a 32-bit instruction, the predicates *)
(* that choose between the forms of one opcode, and the value of the       *)
(* instructions that write a register without leaving ST_EXECUTE.          *)
(***************************************************************************)
EXTENDS SandhiRules

OP_NOP     == 0
OP_LOADI   == 1
OP_MOV     == 2
OP_CONS    == 3
OP_CAR     == 4
OP_CDR     == 5
OP_ATOM    == 6
OP_EQ      == 7
OP_JMP     == 8
OP_LOADSYM == 9
OP_JF      == 10
OP_HALT    == 11
OP_OUT     == 12
OP_ADD     == 13
OP_SUB     == 14
OP_IN      == 15

Reg    == 0 .. 15
Imm    == 0 .. 65535
Instr  == [op : 0 .. 15, rd : Reg, rs1 : Reg, rs2 : Reg, imm : Imm]
I(op, rd, rs1, rs2, imm) == [op |-> op, rd |-> rd, rs1 |-> rs1, rs2 |-> rs2, imm |-> imm]
NopInstr == I(OP_NOP, 0, 0, 0, 0)                     \* the reset value

IsFetchPair(i) == i.op = OP_CAR /\ i.rs2 # 0
IsSetCdr(i)    == i.op = OP_ATOM /\ i.rs2 # 0
IsSandhi(i)    == i.op = OP_MOV /\ i.rs2 = 7
IsCall(i)      == i.op = OP_JMP /\ i.rd # 0 /\ i.rs1 = 0
IsTrap(i)      == i.op = OP_HALT /\ i.rd = 0 /\ i.rs1 = 0 /\ i.rs2 = 1 /\ i.imm = 0

(* CONS, CAR, CDR, FETCH_PAIR and SETCDR go through the data unit.         *)
UsesLdu(i) == i.op \in {OP_CONS, OP_CAR, OP_CDR} \/ IsSetCdr(i)

(* The instructions that finish in ST_EXECUTE and do not branch.           *)
IsLocal(i) == \/ i.op \in {OP_NOP, OP_LOADI, OP_LOADSYM, OP_ADD, OP_SUB, OP_EQ}
              \/ i.op = OP_MOV /\ ~IsSandhi(i)
              \/ i.op = OP_ATOM /\ ~IsSetCdr(i)

MovValue(mode, a) ==
    CASE mode = 1        -> MkWord(TAG_FIXNUM, a.tag)
      [] mode = 2        -> MkWord(TAG_PRIMITIVE, a.value)
      [] mode = 3        -> MkWord(TAG_FIXNUM, a.value)
      [] mode \in 4 .. 6 -> Upc8Result(mode, a)
      [] OTHER           -> a

(* reg_wr_data of a local instruction; a and b are what rs1 and rs2 hold.  *)
LocalValue(i, a, b) ==
    CASE i.op = OP_LOADI   -> MkWord(TAG_FIXNUM, i.imm)
      [] i.op = OP_LOADSYM -> MkWord(TAG_SYMBOL, i.imm)
      [] i.op = OP_MOV     -> MovValue(i.rs2, a)
      [] i.op = OP_ATOM    -> Truth(~IsCons(a))
      [] i.op = OP_EQ      -> Truth(a = b)
      [] i.op = OP_ADD     -> MkWord(TAG_FIXNUM, WrapAdd(a.value, b.value))
      [] i.op = OP_SUB     -> MkWord(TAG_FIXNUM, WrapSub(a.value, b.value))

LocalWrite(i, regs) ==
    IF i.op = OP_NOP THEN regs
    ELSE [regs EXCEPT ![i.rd] = LocalValue(i, regs[i.rs1], regs[i.rs2])]
=============================================================================
