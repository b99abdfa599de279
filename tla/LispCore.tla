------------------------------ MODULE LispCore ------------------------------
(***************************************************************************)
(* The running machine of fpga/rtl/lisp_machine.sv: the execution states   *)
(* of control.sv, the register file, the instruction memory, the Lisp data *)
(* unit, the sandhi engine, the one-byte receive buffer and the            *)
(* transmitter's busy flag, all clocked together.  One step is one rising  *)
(* clock edge.  The monitor states, reset and boot are in LispMachine, which     *)
(* completes this module to a specification.                               *)
(***************************************************************************)
EXTENDS Instruction

CONSTANTS HeapCells,      \* 2^HEAP_ADDR_WIDTH (4096)
          ImemWords,      \* instructions a 12-bit pc reaches (4096)
          PerfMod,        \* the performance counters wrap at 2^32
          PowerUp,        \* words the heap RAM may hold when power comes up
          Programs,       \* what the bootloader may leave in imem
          RegInits,       \* what it may leave in the registers
          RxBytes,        \* bytes the host may send while the machine runs
          Arg1Span,       \* addresses the first byte of a peek reaches (256)
          MayReset        \* whether the board's reset may be pressed

ASSUME HeapCellsAssumption ==
    HeapCells \in Nat /\ HeapCells > 0 /\ HeapCells <= ValueMod
ASSUME ImemWordsAssumption ==
    ImemWords \in Nat /\ ImemWords > 0 /\ ImemWords < ValueMod
ASSUME WidthAssumption ==
    /\ PerfMod \in Nat /\ PerfMod > 0 /\ (PerfMod - 1) \div 16777216 < 256    \* 32 bits
    /\ Arg1Span \in Nat /\ Arg1Span > 0
ASSUME BootAssumption ==
    /\ PowerUp \subseteq Word
    /\ \A p \in Programs : p \in [0 .. (ImemWords - 1) -> Instr]
    /\ \A r \in RegInits : r \in [Reg -> Word]
    /\ RxBytes \subseteq Byte
    /\ MayReset \in BOOLEAN

VARIABLES imem, regs,
          state, pc,
          instruction,    \* the staged instruction, decoded
          err,            \* err_flag, err_pc
          second,         \* is_fetch_pair, pair_cdr_buf, pair_cdr_addr
          perf,           \* perf_cycles .. perf_heap_peak
          in,             \* in_valid, in_data: the receive holding buffer
          tx              \* tx_busy, and the last byte the transmitter took

VARIABLES hp, port, rd, ans, peek, car_ram, cdr_ram, car_out, cdr_out
VARIABLES fsm, codes, latch

LDU == INSTANCE LispDataUnit WITH OperandA <- Word, OperandB <- Word
Eng == INSTANCE SandhiEngine WITH Inputs <- Byte

ctrlVars == <<state, pc, instruction, err, second, perf>>
coreVars == <<imem, regs, ctrlVars, in, tx, LDU!lduVars, Eng!engVars>>

PcNext == (pc + 1) % ImemWords

MonitorStates == {"MON_CMD", "MON_ARG1", "MON_ARG2", "MON_HEAP_WAIT", "MON_REG_SEND",
                  "MON_HP_SEND", "MON_ERR_SEND", "MON_PERF_SEND", "MON_TX_START", "MON_TX_WAIT"}
Halted == state \in {"HALT"} \cup MonitorStates

ResetPerf == [cycles |-> 0, cons |-> 0, car_cdr |-> 0, eval_calls |-> 0, jumps |-> 0, heap_peak |-> 0]

(* What the bootloader and the reset leave behind: boot_done releases the  *)
(* CPU, the data unit and the receive buffer with the program in imem and  *)
(* the initial words in the registers.                                     *)
NoErr    == [flag |-> FALSE, pc |-> 0]
NoSecond == [on |-> FALSE, buf |-> ZeroWord, addr |-> 0]
Empty    == [valid |-> FALSE, data |-> 0]

CoreInit == /\ imem \in Programs
            /\ regs \in RegInits
            /\ state = "FETCH"
            /\ pc = 0
            /\ instruction = NopInstr
            /\ err = NoErr
            /\ second = NoSecond
            /\ perf = ResetPerf
            /\ in = Empty
            /\ tx = [busy |-> FALSE, byte |-> 0]
            /\ LDU!Init
            /\ Eng!Init

(* Faulty: a reset that leaves the registers, the pc or perf_heap_peak.    *)
FaultyCoreReset(newRegs, newPc, newPeak) ==
             /\ imem' \in Programs
             /\ regs' \in newRegs
             /\ state' = "FETCH"
             /\ pc' = newPc
             /\ instruction' = NopInstr
             /\ err' = NoErr
             /\ second' = NoSecond
             /\ perf' = [ResetPerf EXCEPT !.heap_peak = newPeak]
             /\ in' = Empty
             /\ LDU!Reset
             /\ Eng!Reset
FaultyResetKeepsRegs == FaultyCoreReset({regs}, 0, 0)
FaultyResetKeepsPc   == FaultyCoreReset(RegInits, pc, 0)
FaultyResetKeepsPeak == FaultyCoreReset(RegInits, 0, perf.heap_peak)

CoreReset == /\ imem' \in Programs
             /\ regs' \in RegInits
             /\ state' = "FETCH"
             /\ pc' = 0
             /\ instruction' = NopInstr
             /\ err' = NoErr
             /\ second' = NoSecond
             /\ perf' = ResetPerf
             /\ in' = Empty
             /\ LDU!Reset
             /\ Eng!Reset

-----------------------------------------------------------------------------
(* The units beside the control unit, at one clock edge.                   *)

(* The receive buffer: a byte that arrives replaces the one held, taken or *)
(* not; otherwise an acknowledged byte is dropped.                         *)
RxClock(ack) ==
    \/ \E b \in RxBytes : in' = [valid |-> TRUE, data |-> b]
    \/ in' = [in EXCEPT !.valid = in.valid /\ ~ack]

(* The transmitter leaves tx_busy up for as many clocks as it needs and    *)
(* only looks at tx_start when it is idle.                                 *)
TxClock   == tx' \in {tx, [tx EXCEPT !.busy = FALSE]}
TxSend(b) == IF tx.busy THEN TxClock ELSE tx' = [busy |-> TRUE, byte |-> b]

LduClock == LDU!NoCmd \/ LDU!Reading

(* Nothing is asked of any unit at this edge.                              *)
Quiet == LduClock /\ Eng!Clock /\ RxClock(FALSE) /\ TxClock

-----------------------------------------------------------------------------
(* ST_FETCH .. ST_EXECUTE.                                                 *)
op == instruction.op
A  == regs[instruction.rs1]
B  == regs[instruction.rs2]

SetReg(r, w) == regs' = [regs EXCEPT ![r] = w]
Goto(s)      == state' = s
Bump(c)      == perf' = [perf EXCEPT ![c] = (@ + 1) % PerfMod]
NoPair       == second' = [second EXCEPT !.on = FALSE]

Fetch == /\ state = "FETCH"
         /\ instruction' = imem[pc]
         /\ Bump("cycles")
         /\ Goto("DECODE")
         /\ Quiet
         /\ UNCHANGED <<imem, regs, pc, err, second>>

Decode == /\ state = "DECODE"
          /\ Goto("EXECUTE")
          /\ Quiet
          /\ UNCHANGED <<imem, regs, pc, instruction, err, second, perf>>

Execute == state = "EXECUTE" /\ NoPair /\ UNCHANGED <<imem, instruction>>

ExecLocal == /\ Execute
             /\ IsLocal(instruction)
             /\ regs' = LocalWrite(instruction, regs)
             /\ pc' = PcNext
             /\ Goto("FETCH")
             /\ Quiet
             /\ UNCHANGED <<err, perf>>

ExecJmp == /\ Execute
           /\ op = OP_JMP
           /\ IF IsCall(instruction)
              THEN SetReg(instruction.rd, MkWord(TAG_FIXNUM, pc + 1))
              ELSE UNCHANGED regs
           /\ pc' = (IF instruction.rs1 # 0 THEN A.value ELSE instruction.imm) % ImemWords
           /\ perf' = [perf EXCEPT !.jumps = (@ + 1) % PerfMod,
                                   !.eval_calls = IF IsCall(instruction) THEN (@ + 1) % PerfMod ELSE @]
           /\ Goto("FETCH")
           /\ Quiet
           /\ UNCHANGED err

ExecJf == /\ Execute
          /\ op = OP_JF
          /\ pc' = IF A.tag = TAG_NIL THEN instruction.imm % ImemWords ELSE PcNext
          /\ Bump("jumps")
          /\ Goto("FETCH")
          /\ Quiet
          /\ UNCHANGED <<regs, err>>

ExecHalt == /\ Execute
            /\ op = OP_HALT
            /\ err' = IF IsTrap(instruction) THEN [flag |-> TRUE, pc |-> pc] ELSE err
            /\ Goto("HALT")
            /\ Quiet
            /\ UNCHANGED <<regs, pc, perf>>

(* A data unit command: the unit takes it, or is in the middle of a read   *)
(* and does not look at it.                                                *)
Command(taken) == (taken \/ LDU!Reading) /\ Eng!Clock /\ RxClock(FALSE) /\ TxClock

ExecCons == /\ Execute
            /\ op = OP_CONS
            /\ Command(LDU!CmdCons(A, B) \/ LDU!CmdConsFull)
            /\ Bump("cons")
            /\ Goto("WAIT_LDU")
            /\ UNCHANGED <<regs, pc, err>>

ExecSetCdr == /\ Execute
              /\ IsSetCdr(instruction)
              /\ Command(LDU!CmdSetCdr(A, B) \/ LDU!CmdTypeError(A))
              /\ Goto("WAIT_LDU")
              /\ UNCHANGED <<regs, pc, err, perf>>

ExecRead == /\ state = "EXECUTE"
            /\ op \in {OP_CAR, OP_CDR}
            /\ LET type == IF IsFetchPair(instruction) THEN LDU!FETCH_PAIR
                           ELSE IF op = OP_CAR THEN LDU!CAR ELSE LDU!CDR
               IN Command(LDU!CmdRead(type, A) \/ LDU!CmdTypeError(A))
            /\ second' = [second EXCEPT !.on = IsFetchPair(instruction)]
            /\ Bump("car_cdr")
            /\ Goto("WAIT_LDU")
            /\ UNCHANGED <<imem, instruction, regs, pc, err>>

ExecOut == /\ Execute
           /\ op = OP_OUT
           /\ Goto("OUT_START")
           /\ Quiet
           /\ UNCHANGED <<regs, pc, err, perf>>

ExecIn == /\ Execute
          /\ op = OP_IN
          /\ Goto("IN_WAIT")
          /\ Quiet
          /\ UNCHANGED <<regs, pc, err, perf>>

ExecSandhi == /\ Execute
              /\ IsSandhi(instruction)
              /\ Eng!Start((A.value \div 256) % 256, A.value % 256) \/ Eng!Walk
              /\ LduClock /\ RxClock(FALSE) /\ TxClock
              /\ Goto("WAIT_SANDHI")
              /\ UNCHANGED <<regs, pc, err, perf>>

-----------------------------------------------------------------------------
(* The states that wait for a unit.                                        *)
LduValid == /\ state = "WAIT_LDU"
            /\ ans.valid /\ ~ans.error
            /\ SetReg(instruction.rd, ans.result)
            /\ perf' = [perf EXCEPT !.heap_peak = IF LDU!hp_out > @ THEN LDU!hp_out ELSE @]
            /\ second' = IF second.on
                         THEN [second EXCEPT !.buf = ans.result_cdr, !.addr = instruction.rs2]
                         ELSE second
            /\ pc' = PcNext
            /\ Goto(IF second.on THEN "WRITE_PAIR_CDR" ELSE "FETCH")
            /\ Quiet
            /\ UNCHANGED <<imem, instruction, err>>

(* Faulty: the error is recorded and the machine runs on.                  *)
FaultyErrorRunsOn == /\ state = "WAIT_LDU"
                     /\ ans.error
                     /\ err' = [flag |-> TRUE, pc |-> pc]
                     /\ pc' = PcNext
                     /\ Goto("FETCH")
                     /\ Quiet
                     /\ UNCHANGED <<imem, regs, instruction, second, perf>>

LduError == /\ state = "WAIT_LDU"
            /\ ans.error
            /\ err' = [flag |-> TRUE, pc |-> pc]
            /\ Goto("HALT")
            /\ Quiet
            /\ UNCHANGED <<imem, regs, pc, instruction, second, perf>>

(* Faulty: the second write of FETCH_PAIR advances the pc again.           *)
FaultyPairAdvancesTwice == /\ state = "WRITE_PAIR_CDR"
                           /\ SetReg(second.addr, second.buf)
                           /\ pc' = PcNext
                           /\ Goto("FETCH")
                           /\ Quiet
                           /\ UNCHANGED <<imem, instruction, err, second, perf>>

WritePairCdr == /\ state = "WRITE_PAIR_CDR"
                /\ SetReg(second.addr, second.buf)
                /\ Goto("FETCH")
                /\ Quiet
                /\ UNCHANGED <<imem, pc, instruction, err, second, perf>>

OutStart == /\ state = "OUT_START"
            /\ TxSend(A.value % 256)
            /\ Goto("OUT_WAIT")
            /\ LduClock /\ Eng!Clock /\ RxClock(FALSE)
            /\ UNCHANGED <<imem, regs, pc, instruction, err, second, perf>>

(* Faulty: the next instruction does not wait for the transmitter.         *)
FaultyOutNoWait == /\ state = "OUT_WAIT"
                   /\ pc' = PcNext
                   /\ Goto("FETCH")
                   /\ Quiet
                   /\ UNCHANGED <<imem, regs, instruction, err, second, perf>>

OutDone == /\ state = "OUT_WAIT"
           /\ ~tx.busy
           /\ pc' = PcNext
           /\ Goto("FETCH")
           /\ Quiet
           /\ UNCHANGED <<imem, regs, instruction, err, second, perf>>

InTake == /\ state = "IN_WAIT"
          /\ in.valid
          /\ SetReg(instruction.rd, MkWord(TAG_FIXNUM, in.data))
          /\ pc' = PcNext
          /\ Goto("FETCH")
          /\ LduClock /\ Eng!Clock /\ RxClock(TRUE) /\ TxClock
          /\ UNCHANGED <<imem, instruction, err, second, perf>>

SandhiDone == /\ state = "WAIT_SANDHI"
              /\ Eng!done
              /\ SetReg(instruction.rd, MkWord(TAG_FIXNUM, Packed(latch)))
              /\ pc' = PcNext
              /\ Goto("FETCH")
              /\ Quiet
              /\ UNCHANGED <<imem, instruction, err, second, perf>>

(* A wait that is not over: the control unit keeps its state.              *)
Waiting == \/ state = "WAIT_LDU" /\ ~ans.valid /\ ~ans.error
           \/ state = "OUT_WAIT" /\ tx.busy
           \/ state = "IN_WAIT" /\ ~in.valid
           \/ state = "WAIT_SANDHI" /\ ~Eng!done
           \/ state = "HALT" /\ ~in.valid

Wait == Waiting /\ Quiet /\ UNCHANGED <<imem, regs, ctrlVars>>

(* A held byte takes a halted machine to the monitor, which will read it.  *)
EnterMonitor == /\ state = "HALT"
                /\ in.valid
                /\ Goto("MON_CMD")
                /\ Quiet
                /\ UNCHANGED <<imem, regs, pc, instruction, err, second, perf>>

Run == \/ Fetch \/ Decode
       \/ ExecLocal \/ ExecJmp \/ ExecJf \/ ExecHalt
       \/ ExecCons \/ ExecSetCdr \/ ExecRead
       \/ ExecOut \/ ExecIn \/ ExecSandhi
       \/ LduValid \/ LduError \/ WritePairCdr
       \/ OutStart \/ OutDone \/ InTake \/ SandhiDone
       \/ Wait \/ EnterMonitor
=============================================================================
