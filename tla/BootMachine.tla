----------------------------- MODULE BootMachine -----------------------------
(***************************************************************************)
(* Loading a program into fpga/rtl/lisp_machine.sv: the bootloader, imem,  *)
(* the register file, the receive buffer and the re-arm pulse, with the    *)
(* host that sends frames (job_transport.py, upload.py).  Of the CPU only  *)
(* what loading meets is here: it runs and writes registers, it halts into *)
(* the monitor, and the monitor takes 0x0B.  One step is one clock edge,   *)
(* or the operator's and the host's doing.                                 *)
(***************************************************************************)
EXTENDS Bootloader

CONSTANTS Jobs,           \* what hosts ask for: words for registers, a program
          Garbage,        \* words a running program may put in a register
          GarbageRegs,    \* and the registers it puts them in
          RearmGap,       \* clocks between 0x0B and the frame that follows, at least
          BlindRearm      \* whether --soft-rearm is used on boards not halted

RegInput == [reg : BootReg, word : BootWord]

ASSUME SizesAssumption == /\ ImemWords \in Nat /\ ImemWords > 0
                          /\ LoSpan \in Nat /\ LoSpan > 0
                          /\ RearmGap \in Nat
                          /\ BlindRearm \in BOOLEAN

(* job_transport.py:50-70 and upload.py:29: no register twice, at most     *)
(* sixteen, fewer words than imem holds, and none only without registers.  *)
ASSUME JobsAssumption ==
    \A j \in Jobs :
        /\ j.regs \in Seq(RegInput) /\ Len(j.regs) <= 16
        /\ \A m, n \in 1 .. Len(j.regs) : j.regs[m].reg = j.regs[n].reg => m = n
        /\ j.prog \in Seq(BootWord)
        /\ Len(j.prog) < ImemWords /\ Len(j.prog) < 16 * LoSpan
        /\ j.prog = <<>> => j.regs = <<>>

ASSUME GarbageAssumption == Garbage \subseteq BootWord /\ GarbageRegs \subseteq BootReg

VARIABLES imem, regs,
          rearm_count,
          cpu,            \* "run", or "cmd": in ST_MON_CMD
          in,             \* in_valid, in_data
          host            \* phase, soft, job, bytes sent, clocks to wait

vars == <<boot, imem, regs, rearm_count, cpu, in, host>>

REARM   == 11
Empty   == [valid |-> FALSE, data |-> 0]
Silent  == Empty
Cleared == [r \in BootReg |-> Zero]
NoJob   == [regs |-> <<>>, prog |-> <<>>]

Fresh == [phase |-> "fresh", soft |-> FALSE, job |-> NoJob, sent |-> 0, gap |-> 0]

Init == /\ boot = ResetBoot
        /\ imem = [a \in 0 .. (ImemWords - 1) |-> Zero]
        /\ regs = Cleared
        /\ rearm_count = 0
        /\ cpu = "run"
        /\ in = Empty
        /\ host = Fresh

-----------------------------------------------------------------------------
(* The frame of a job, byte by byte from 0.                                *)
Header(j) == LET lo == Len(j.prog) % LoSpan
                 hi == Len(j.prog) \div LoSpan
             IN  IF j.regs = <<>> THEN <<lo, hi>> ELSE <<lo, hi + 128, Len(j.regs)>>

RegsEnd(j)  == Len(Header(j)) + 5 * Len(j.regs)
FrameLen(j) == RegsEnd(j) + 4 * Len(j.prog)

FrameByte(j, i) ==
    IF i < Len(Header(j)) THEN Header(j)[i + 1]
    ELSE IF i < RegsEnd(j)
    THEN LET k == i - Len(Header(j))
             r == j.regs[(k \div 5) + 1]
         IN  IF k % 5 = 0 THEN r.reg ELSE r.word[k % 5]
    ELSE LET k == i - RegsEnd(j) IN j.prog[(k \div 4) + 1][(k % 4) + 1]

(* What arrives at this clock, as the host goes on.                        *)
SendsRearm(rx) == /\ host.phase = "rearm"
                  /\ rx = [valid |-> TRUE, data |-> REARM]
                  /\ host' = [host EXCEPT !.phase = "frame", !.gap = RearmGap]
SendsByte(rx)  == /\ host.phase = "frame"
                  /\ host.gap = 0
                  /\ rx = [valid |-> TRUE, data |-> FrameByte(host.job, host.sent)]
                  /\ host' = [host EXCEPT !.sent = @ + 1,
                                          !.phase = IF host.sent + 1 = FrameLen(host.job)
                                                    THEN "sent" ELSE "frame"]
SendsNothing(rx) == /\ rx = Silent
                    /\ host' = [host EXCEPT !.gap = IF @ = 0 THEN 0 ELSE @ - 1]
Arrives(rx) == SendsRearm(rx) \/ SendsByte(rx) \/ SendsNothing(rx)

RxBytes == {Silent} \cup [valid : {TRUE}, data : Byte]

(* The receive buffer, out of reset.                                       *)
Buffered(rx, ack) == in' = IF rx.valid THEN rx ELSE [in EXCEPT !.valid = in.valid /\ ~ack]

-----------------------------------------------------------------------------
(* boot_done is low: the CPU, the data unit and the receive buffer are in  *)
(* reset, and the bootloader writes imem and the registers.                *)
Loading ==
    /\ rearm_count = 0
    /\ ~boot_done
    /\ \E rx \in RxBytes :
          /\ Arrives(rx)
          /\ BootClock(rx)
          /\ imem' = IF boot_we(rx) THEN [imem EXCEPT ![boot.word_count] = Assembled(rx.data)]
                                    ELSE imem
          /\ regs' = IF boot_reg_we(rx) THEN [regs EXCEPT ![boot.input_reg_addr] = Assembled(rx.data)]
                                        ELSE regs
    /\ UNCHANGED <<rearm_count, cpu, in>>

(* boot_done is high and the program runs: it may write a register, take a *)
(* byte, halt.                                                             *)
Running ==
    /\ rearm_count = 0
    /\ boot_done
    /\ cpu = "run"
    /\ \E rx \in RxBytes, ack \in BOOLEAN : Arrives(rx) /\ Buffered(rx, ack)
    /\ cpu' \in {"run", "cmd"}
    /\ regs' \in {regs} \cup {[regs EXCEPT ![r] = w] : r \in GarbageRegs, w \in Garbage}
    /\ UNCHANGED <<boot, imem, rearm_count>>

(* The monitor waits for a command; every one but REARM is passed over.    *)
Monitoring ==
    /\ rearm_count = 0
    /\ boot_done
    /\ cpu = "cmd"
    /\ ~(in.valid /\ in.data = REARM)
    /\ \E rx \in RxBytes : Arrives(rx) /\ Buffered(rx, TRUE)
    /\ UNCHANGED <<boot, imem, regs, rearm_count, cpu>>

(* Faulty: re-arm leaves the register file alone.                          *)
FaultyInReset == /\ boot' = ResetBoot
                 /\ cpu' = "run"
                 /\ in' = Empty
                 /\ UNCHANGED <<imem, regs>>

(* What the pulse holds in reset: the bootloader and the registers, and    *)
(* through boot_done the CPU and the receive buffer.                       *)
InReset == /\ boot' = ResetBoot
           /\ regs' = Cleared
           /\ cpu' = "run"
           /\ in' = Empty
           /\ UNCHANGED imem

Rearm ==
    /\ rearm_count = 0
    /\ boot_done
    /\ cpu = "cmd"
    /\ in.valid /\ in.data = REARM
    /\ \E rx \in RxBytes : Arrives(rx)
    /\ rearm_count' = 2
    /\ InReset

(* A byte that arrives now is lost.                                        *)
Rearming ==
    /\ rearm_count # 0
    /\ \E rx \in RxBytes : Arrives(rx)
    /\ rearm_count' = rearm_count - 1
    /\ InReset

Clock == Loading \/ Running \/ Monitoring \/ Rearm \/ Rearming

-----------------------------------------------------------------------------
(* The board's RESET button; a host that was sending is stopped.           *)
Reset == /\ InReset
         /\ rearm_count' = 0
         /\ host' = Fresh

(* A new job: after RESET as it is, on a halted board through 0x0B.        *)
Soft == \/ host.phase = "sent" /\ boot_done /\ cpu = "cmd" /\ ~in.valid
        \/ BlindRearm /\ host.phase \in {"fresh", "aborted"}

StartJob == /\ \E j \in Jobs :
                \/ /\ host.phase = "fresh"
                   /\ host' = [Fresh EXCEPT !.phase = "frame", !.job = j]
                \/ /\ Soft
                   /\ j.prog # <<>>          \* job_transport.py:52
                   /\ host' = [Fresh EXCEPT !.phase = "rearm", !.job = j, !.soft = TRUE]
            /\ UNCHANGED <<boot, imem, regs, rearm_count, cpu, in>>

(* The host is killed, or its write times out.                             *)
Abort == /\ host.phase \in {"rearm", "frame"}
         /\ host' = [Fresh EXCEPT !.phase = "aborted"]
         /\ UNCHANGED <<boot, imem, regs, rearm_count, cpu, in>>

Next == Clock \/ Reset \/ StartJob \/ Abort

Spec == Init /\ [][Next]_vars

-----------------------------------------------------------------------------
(* The registers a job asks for; all others are zero.                      *)
Expected(j) == [r \in BootReg |-> IF \E n \in 1 .. Len(j.regs) : j.regs[n].reg = r
                                  THEN (CHOOSE x \in {j.regs[n] : n \in 1 .. Len(j.regs)} : x.reg = r).word
                                  ELSE Zero]

Holds(j) == /\ \A a \in 1 .. Len(j.prog) : imem[a - 1] = j.prog[a]
            /\ regs = Expected(j)

(* The CPU is released exactly by the last byte of a job's frame, with     *)
(* that job's program in imem and its words in the registers and nothing   *)
(* of an earlier program, of an upload cut off or of a re-arm in them      *)
(* (bootloader.sv:95-201, lisp_machine.sv:32-49, tb_monitor.sv:129).       *)
LoadedIsSent == [][~boot_done /\ boot_done' => host'.phase = "sent" /\ Holds(host.job)']_vars

(* A frame sent to its end leaves no loader waiting for more.              *)
SentIsLoaded == host.phase = "sent" => boot_done

=============================================================================
