------------------------------ MODULE LispISA -------------------------------
(***************************************************************************)
(* The machine a programmer sees: one step is one whole instruction.  The  *)
(* heap is the pairs allocated so far, and an instruction that follows a   *)
(* pointer is only defined when the pair is allocated.  control.sv with    *)
(* its data unit implements this machine in three to a dozen clocks per    *)
(* instruction.                                                            *)
(***************************************************************************)
EXTENDS Instruction

CONSTANTS HeapCells,      \* number of pairs
          ImemWords,      \* number of instructions the program counter reaches
          Programs,       \* what the bootloader may leave in instruction memory
          RegInits        \* what it may leave in the registers

VARIABLES prog, pc, regs,
          used,           \* pairs 0 .. used-1 are allocated
          cells,          \* cells[i] = the pair at i, for i < used
          halted,
          err,            \* err_flag and err_pc
          sent            \* the last byte handed to the transmitter

vars == <<prog, pc, regs, used, cells, halted, err, sent>>

NoErr == [flag |-> FALSE, pc |-> 0]

Boot == /\ prog \in Programs
        /\ regs \in RegInits
        /\ pc = 0
        /\ used = 0
        /\ cells = <<>>
        /\ halted = FALSE
        /\ err = NoErr

Init == Boot /\ sent = 0

instr  == prog[pc]
A      == regs[instr.rs1]
B      == regs[instr.rs2]
PcNext == (pc + 1) % ImemWords
Allocated(w)   == IsCons(w) /\ w.value < used
SetReg(r, w)   == regs' = [regs EXCEPT ![r] = w]
Advance        == pc' = PcNext /\ UNCHANGED <<prog, halted, err>>

Local == /\ IsLocal(instr)
         /\ regs' = LocalWrite(instr, regs)
         /\ Advance
         /\ UNCHANGED <<used, cells, sent>>

(* CALL links and jumps, RET jumps to a register, JMP jumps.               *)
Jump == /\ instr.op = OP_JMP
        /\ pc' = (IF instr.rs1 # 0 THEN A.value ELSE instr.imm) % ImemWords
        /\ IF IsCall(instr) THEN SetReg(instr.rd, MkWord(TAG_FIXNUM, pc + 1)) ELSE UNCHANGED regs
        /\ UNCHANGED <<prog, used, cells, halted, err, sent>>

JumpFalse == /\ instr.op = OP_JF
             /\ pc' = IF A.tag = TAG_NIL THEN instr.imm % ImemWords ELSE PcNext
             /\ UNCHANGED <<prog, regs, used, cells, halted, err, sent>>

Fault == /\ halted' = TRUE
         /\ err' = [flag |-> TRUE, pc |-> pc]
         /\ UNCHANGED <<prog, pc, regs, used, cells, sent>>

Halt == /\ instr.op = OP_HALT
        /\ IF IsTrap(instr) THEN Fault
           ELSE halted' = TRUE /\ UNCHANGED <<prog, pc, regs, used, cells, err, sent>>

Cons == /\ instr.op = OP_CONS
        /\ used < HeapCells
        /\ cells' = [k \in 0 .. used |-> IF k = used THEN [car |-> A, cdr |-> B] ELSE cells[k]]
        /\ used' = used + 1
        /\ SetReg(instr.rd, MkWord(TAG_CONS, used))
        /\ Advance
        /\ UNCHANGED sent

HeapFull == instr.op = OP_CONS /\ used = HeapCells /\ Fault

TypeError == UsesLdu(instr) /\ instr.op # OP_CONS /\ ~IsCons(A) /\ Fault

Car == /\ instr.op = OP_CAR /\ ~IsFetchPair(instr)
       /\ Allocated(A)
       /\ SetReg(instr.rd, cells[A.value].car)
       /\ Advance
       /\ UNCHANGED <<used, cells, sent>>

Cdr == /\ instr.op = OP_CDR
       /\ Allocated(A)
       /\ SetReg(instr.rd, cells[A.value].cdr)
       /\ Advance
       /\ UNCHANGED <<used, cells, sent>>

(* FETCH_PAIR writes two registers; the CDR is written last.               *)
FetchPair == /\ IsFetchPair(instr)
             /\ Allocated(A)
             /\ regs' = [[regs EXCEPT ![instr.rd] = cells[A.value].car]
                               EXCEPT ![instr.rs2] = cells[A.value].cdr]
             /\ Advance
             /\ UNCHANGED <<used, cells, sent>>

SetCdr == /\ IsSetCdr(instr)
          /\ Allocated(A)
          /\ cells' = [cells EXCEPT ![A.value].cdr = B]
          /\ SetReg(instr.rd, B)
          /\ Advance
          /\ UNCHANGED <<used, sent>>

Out == /\ instr.op = OP_OUT
       /\ sent' = A.value % 256
       /\ Advance
       /\ UNCHANGED <<regs, used, cells>>

In == /\ instr.op = OP_IN
      /\ \E b \in Byte : SetReg(instr.rd, MkWord(TAG_FIXNUM, b))
      /\ Advance
      /\ UNCHANGED <<used, cells, sent>>

Sandhi == /\ IsSandhi(instr)
          /\ SetReg(instr.rd, MkWord(TAG_FIXNUM, Packed(SandhiOf((A.value \div 256) % 256, A.value % 256))))
          /\ Advance
          /\ UNCHANGED <<used, cells, sent>>

Step == /\ ~halted
        /\ \/ Local \/ Jump \/ JumpFalse \/ Halt
           \/ Cons \/ HeapFull \/ TypeError
           \/ Car \/ Cdr \/ FetchPair \/ SetCdr
           \/ Out \/ In \/ Sandhi

(* After a halt the transmitter belongs to the monitor.                    *)
MonitorTalks == /\ halted
                /\ sent' \in Byte
                /\ UNCHANGED <<prog, pc, regs, used, cells, halted, err>>

Reboot == Boot' /\ UNCHANGED sent

Next == Step \/ MonitorTalks \/ Reboot

Spec == Init /\ [][Next]_vars
=============================================================================
