---------------------------- MODULE LispMachine -----------------------------
(***************************************************************************)
(* The whole CPU of fpga/rtl/lisp_machine.sv: the running machine of       *)
(* LispCore, the monitor that control.sv becomes after ST_HALT, and the    *)
(* two ways back to a fresh program: the board's reset and the monitor's   *)
(* REARM command.  The bootloader's work is one step here: it ends with a  *)
(* program in imem and initial words in the registers.                     *)
(***************************************************************************)
EXTENDS LispCore, Sequences

VARIABLE mon              \* mon_cmd, mon_arg1, mon_arg2, mon_tx_buf, mon_tx_remaining

vars == <<coreVars, mon>>

CMD_REG   == 1
CMD_HEAP  == 2
CMD_HP    == 3
CMD_ERR   == 4
CMD_PERF  == 5 .. 10
CMD_REARM == 11

(* The four bytes of a word, low byte first, and of a plain number.        *)
WordBytes(w) == <<w.value % 256, (w.value \div 256) % 256, (w.value \div 65536) % 256,
                  (w.value \div 16777216) + 16 * w.tag>>
NumBytes(n)  == <<n % 256, (n \div 256) % 256, (n \div 65536) % 256, n \div 16777216>>
Zero4        == <<0, 0, 0, 0>>

ResetMon == [cmd |-> 0, arg1 |-> 0, arg2 |-> 0, buf |-> Zero4 \o Zero4, left |-> 0]

Init == CoreInit /\ mon = ResetMon

-----------------------------------------------------------------------------
(* ST_MON_*.  The execution state is not touched.                          *)
Kept == UNCHANGED <<imem, regs, pc, instruction, err, second, perf>>

Taking(s) == state = s /\ in.valid /\ Eng!Clock /\ RxClock(TRUE) /\ TxClock /\ Kept

PerfCounter == CASE mon.cmd = 5 -> perf.cycles
                 [] mon.cmd = 6 -> perf.cons
                 [] mon.cmd = 7 -> perf.car_cdr
                 [] mon.cmd = 8 -> perf.eval_calls
                 [] mon.cmd = 9 -> perf.jumps
                 [] OTHER       -> perf.heap_peak

NextOfCmd(b) == CASE b \in {CMD_REG, CMD_HEAP} -> "MON_ARG1"
                  [] b = CMD_HP                -> "MON_HP_SEND"
                  [] b = CMD_ERR               -> "MON_ERR_SEND"
                  [] b \in CMD_PERF            -> "MON_PERF_SEND"
                  [] OTHER                     -> "MON_CMD"

MonCmd == /\ Taking("MON_CMD")
          /\ in.data # CMD_REARM
          /\ mon' = [mon EXCEPT !.cmd = in.data]
          /\ Goto(NextOfCmd(in.data))
          /\ LduClock

MonArg1 == /\ Taking("MON_ARG1")
           /\ mon' = [mon EXCEPT !.arg1 = in.data]
           /\ Goto(IF mon.cmd = CMD_HEAP THEN "MON_ARG2" ELSE "MON_REG_SEND")
           /\ LduClock

(* The data unit takes its address at the edge that also latches mon_arg2, *)
(* so mon_peek_addr is made of the arg2 the register held before.          *)
PeekAddr == (mon.arg1 + Arg1Span * (mon.arg2 % 16)) % HeapCells

MonArg2 == /\ Taking("MON_ARG2")
           /\ mon' = [mon EXCEPT !.arg2 = in.data]
           /\ Goto("MON_HEAP_WAIT")
           /\ LDU!CmdPeek(PeekAddr) \/ LDU!Reading

Reply(bytes, n) == /\ mon' = [mon EXCEPT !.buf = bytes, !.left = n]
                   /\ Goto("MON_TX_START")
                   /\ Quiet
                   /\ Kept

FaultyRegReplyOfRs1  == state = "MON_REG_SEND" /\ Reply(WordBytes(A) \o Zero4, 4)
FaultyErrReplyClears ==
    /\ state = "MON_ERR_SEND"
    /\ mon' = [mon EXCEPT !.buf = NumBytes(err.pc + (IF err.flag THEN ImemWords ELSE 0)) \o Zero4,
                          !.left = 4]
    /\ Goto("MON_TX_START")
    /\ Quiet
    /\ err' = NoErr
    /\ UNCHANGED <<imem, regs, pc, instruction, second, perf>>

MonHeapReply == state = "MON_HEAP_WAIT" /\ peek.valid
                   /\ Reply(WordBytes(peek.car) \o WordBytes(peek.cdr), 8)
MonRegReply  == state = "MON_REG_SEND" /\ Reply(WordBytes(regs[mon.arg1 % 16]) \o Zero4, 4)
MonHpReply   == state = "MON_HP_SEND" /\ Reply(NumBytes(LDU!hp_out) \o Zero4, 4)
MonErrReply  == state = "MON_ERR_SEND"
                   /\ Reply(NumBytes(err.pc + (IF err.flag THEN ImemWords ELSE 0)) \o Zero4, 4)
MonPerfReply == state = "MON_PERF_SEND" /\ Reply(NumBytes(PerfCounter) \o Zero4, 4)

MonTxStart == /\ state = "MON_TX_START"
              /\ TxSend(mon.buf[1])
              /\ Goto("MON_TX_WAIT")
              /\ LduClock /\ Eng!Clock /\ RxClock(FALSE)
              /\ Kept
              /\ UNCHANGED mon

MonTxNext == /\ state = "MON_TX_WAIT"
             /\ ~tx.busy
             /\ mon' = [mon EXCEPT !.buf = Append(Tail(@), 0), !.left = (@ - 1) % 16]
             /\ Goto(IF mon.left > 1 THEN "MON_TX_START" ELSE "MON_CMD")
             /\ Quiet
             /\ Kept

MonWait == /\ \/ state \in {"MON_CMD", "MON_ARG1", "MON_ARG2"} /\ ~in.valid
              \/ state = "MON_HEAP_WAIT" /\ ~peek.valid
              \/ state = "MON_TX_WAIT" /\ tx.busy
           /\ Quiet
           /\ Kept
           /\ UNCHANGED <<state, mon>>

Monitor == \/ MonCmd \/ MonArg1 \/ MonArg2
           \/ MonHeapReply \/ MonRegReply \/ MonHpReply \/ MonErrReply \/ MonPerfReply
           \/ MonTxStart \/ MonTxNext \/ MonWait

-----------------------------------------------------------------------------
FreshCpu == CoreReset /\ mon' = ResetMon

(* REARM: rearm_count resets the bootloader and the registers, boot_done   *)
(* falls and resets the CPU.  The UART stays alive.                        *)
Rearm == /\ state = "MON_CMD"
         /\ in.valid
         /\ in.data = CMD_REARM
         /\ FreshCpu
         /\ TxClock

(* The board's reset may come at any time, and resets the UART too.        *)
Reboot == /\ MayReset
          /\ FreshCpu
          /\ tx' = [tx EXCEPT !.busy = FALSE]

Tick == (Run /\ UNCHANGED mon) \/ Monitor \/ Rearm
Next == Tick \/ Reboot

(* The clock never stops, and the transmitter finishes its byte.           *)
TxFinishes == Tick /\ tx.busy /\ ~tx'.busy
Fairness   == WF_vars(Tick) /\ WF_vars(TxFinishes)

Spec == Init /\ [][Next]_vars /\ Fairness
=============================================================================
