------------------------- MODULE MachineProperties --------------------------
(***************************************************************************)
(* What must be true of the CPU of LispMachine.                            *)
(***************************************************************************)
EXTENDS LispMachine

(* A pair counts as allocated when its instruction is over; the CONS in    *)
(* the write port is not there yet.                                        *)
Committed == IF port.we_car THEN hp - 1 ELSE hp

IsaPc    == IF state = "OUT_WAIT" THEN PcNext ELSE pc
IsaRegs  == IF state = "WRITE_PAIR_CDR" THEN [regs EXCEPT ![second.addr] = second.buf] ELSE regs
IsaCells == [k \in 0 .. (Committed - 1) |-> [car |-> car_ram[k], cdr |-> cdr_ram[k]]]

ISA == INSTANCE LispISA WITH prog <- imem, pc <- IsaPc, regs <- IsaRegs,
                             used <- Committed, cells <- IsaCells,
                             halted <- Halted, sent <- tx.byte

(* Every program runs as the instruction-at-a-time machine would run it,   *)
(* whatever the interleaving with the transmitter, the receiver, the data  *)
(* unit's latency and resets: each instruction takes effect once and as a  *)
(* whole (FETCH_PAIR's two writes and OUT's two states included), a pair   *)
(* is never readable before its CONS is over, and no instruction follows a *)
(* pointer to a pair that is not allocated.                                *)
ImplementsISA == ISA!Spec

(* The data unit and the sandhi engine only work while control.sv waits    *)
(* for them: their one-clock answer pulses cannot come when nobody looks,  *)
(* and a command cannot come when they do not look.  And a byte is offered *)
(* to the transmitter only when it is idle, as uart_tx ignores tx_start    *)
(* when it is busy: no OUT and no monitor reply byte is lost               *)
(* (control.sv:246-278, 520-529, lisp_data_unit.sv:93-182, uart.sv:30-40). *)
UnitsAreAwaited ==
    /\ ans.valid \/ ans.error \/ port.we_car \/ port.we_cdr => state = "WAIT_LDU"
    /\ rd.state # 0 => state \in {"WAIT_LDU", "MON_HEAP_WAIT"}
    /\ peek.valid => state = "MON_HEAP_WAIT"
    /\ fsm.state # "IDLE" => state = "WAIT_SANDHI"
    /\ state \in {"OUT_START", "MON_TX_START"} => ~tx.busy

(* Pointers.  A live word is not a pair or points below n.                 *)
Below(w, n) == IsCons(w) => w.value < n

(* No register, no field of an allocated pair and no word on its way to a  *)
(* register points to a pair that is not allocated, although a reset frees *)
(* the heap without clearing it.                                           *)
NoDanglingPointer ==
    /\ \A r \in Reg : Below(regs[r], Committed)
    /\ \A k \in 0 .. (Committed - 1) : Below(car_ram[k], Committed) /\ Below(cdr_ram[k], Committed)
    /\ ans.valid => Below(ans.result, hp) /\ (second.on => Below(ans.result_cdr, hp))
    /\ state = "WRITE_PAIR_CDR" => Below(second.buf, Committed)

(* The CAR of a pair is older than the pair: only SETCDR can tie a knot,   *)
(* and it ties it through a CDR.  A traversal that recurs on CARs ends.    *)
CarIsOlder == \A k \in 0 .. (Committed - 1) : Below(car_ram[k], k)

(* perf_cons counts the allocations, and the one a full heap refused; and  *)
(* perf_heap_peak is the heap pointer between instructions, until the last *)
(* cell is taken: hp_out cuts that pointer to 0, and the peak stays where  *)
(* it was, at one less (control.sv:208-224, 254-268,                       *)
(* lisp_data_unit.sv:39; control.sv:171 has "max hp seen during run").     *)
HeapWasFull == instruction.op = OP_CONS /\ (ans.error \/ (Halted /\ err.flag))
PeakOf(n)   == IF n < HeapCells THEN n ELSE HeapCells - 1
CountersAreTrue ==
    /\ perf.cons = (hp + (IF HeapWasFull THEN 1 ELSE 0)) % PerfMod
    /\ state # "WAIT_LDU" => perf.heap_peak = PeakOf(hp)

(* err_flag means the machine has halted at the instruction err_pc names,  *)
(* and that instruction is one that can fail (isa-contract.lisp: ldu-error *)
(* halts and records the pc, and so does the trap).                        *)
ErrorIsPrecise ==
    err.flag => /\ Halted
                /\ err.pc = pc
                /\ IsTrap(imem[pc]) \/ UsesLdu(imem[pc])

(* Every instruction but an IN that has no byte to take comes to its end.  *)
InstructionEnds ==
    (state = "EXECUTE") ~> (state \in {"FETCH", "HALT"} \/ (state = "IN_WAIT" /\ ~in.valid))

(* The monitor looks and does not touch: while the machine stays halted,   *)
(* registers, heap and heap pointer keep their values.                     *)
MonitorOnlyReads ==
    [][Halted /\ Halted' => UNCHANGED <<regs, hp, car_ram, cdr_ram, pc, err>>]_vars

-----------------------------------------------------------------------------
(* What a monitor command is answered with: the bytes of one register, of  *)
(* the heap pointer, of the error record, of a counter, or of the two      *)
(* words of a pair.                                                        *)
ReplyLength == IF mon.cmd = CMD_HEAP THEN 8 ELSE 4
PairBytes(k) == WordBytes(car_ram[k]) \o WordBytes(cdr_ram[k])
Sending == state \in {"MON_TX_START", "MON_TX_WAIT"}
RemainingOf(bytes) ==
    \A k \in 1 .. mon.left : mon.buf[k] = bytes[ReplyLength - mon.left + k]

(* A reply is complete and in order: what is left to send is always the    *)
(* tail of the answer to the command that was given.                       *)
RepliesInOrder ==
    Sending =>
      /\ mon.left \in 1 .. ReplyLength
      /\ mon.cmd = CMD_REG   => RemainingOf(WordBytes(regs[mon.arg1 % 16]))
      /\ mon.cmd = CMD_HP    => RemainingOf(NumBytes(LDU!hp_out))
      /\ mon.cmd = CMD_ERR   => RemainingOf(NumBytes(err.pc + (IF err.flag THEN ImemWords ELSE 0)))
      /\ mon.cmd \in CMD_PERF => RemainingOf(NumBytes(PerfCounter))
      /\ mon.cmd = CMD_HEAP  => \E k \in 0 .. (HeapCells - 1) : RemainingOf(PairBytes(k))

(* A command that has all its bytes is answered: the monitor is ready for  *)
(* the next command again.                                                 *)
Answering == MonitorStates \ {"MON_CMD", "MON_ARG1", "MON_ARG2"}
MonitorAnswers == (state \in Answering) ~> (state \in {"MON_CMD", "FETCH"})

-----------------------------------------------------------------------------
(* A statement of the source that the code does not keep.                  *)

(* control.sv, the protocol comment: command 0x02 lo hi replies with the   *)
(* pair at the address it was given.                                       *)
AddressGiven == (mon.arg1 + Arg1Span * (mon.arg2 % 16)) % HeapCells
HeapReplyIsForAddress ==
    Sending /\ mon.cmd = CMD_HEAP => RemainingOf(PairBytes(AddressGiven))
=============================================================================
