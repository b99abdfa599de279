---------------------------- MODULE SerialBoard -----------------------------
(***************************************************************************)
(* The board as the programs on the host meet it through one serial port:  *)
(* the bootloader that waits for a frame, a program that runs, and the     *)
(* monitor after HALT with its receive buffer of one byte.  The modules    *)
(* BootMachine and LispMachine have the clocks; one step here is a byte    *)
(* taken or sent.  A frame is two items on the line: its header, and what  *)
(* follows it.  A byte the board sends is a record that says what it is    *)
(* part of.                                                                *)
(***************************************************************************)
EXTENDS Naturals, Sequences

CONSTANTS Jobs,           \* programs, numbers from 1
          Talkers,        \* the jobs whose program sends bytes with OUT
          WordLen,        \* bytes of a word (4)
          MaxInput        \* bound: what the driver's buffer holds

VARIABLES board,          \* mode, job, need, buf, cmd, tx
          line,           \* what the host has written and the board has not taken
          input,          \* the driver's input buffer
          port,           \* who has the port open
          presses         \* how often RESET may still be pressed

boardVars == <<board, line, input, port, presses>>

Junk    == 0              \* a program no host asked for
Nobody  == "nobody"
REG == 1   HEAP == 2   HP == 3   ERR == 4   PERF == 5 .. 10   REARM == 11
ARG2 == 12                \* HEAP with its first address byte taken

(* Items the host writes.                                                  *)
Byte(n)       == [kind |-> "byte", n |-> n, job |-> Junk]
Header(j, n)  == [kind |-> "header", n |-> n, job |-> j]       \* n bytes are announced
Payload(j, n) == [kind |-> "payload", n |-> n, job |-> j]      \* n bytes follow

(* Words the board sends.                                                  *)
WordOf(what, n, j) == [k \in 1 .. WordLen |-> [what |-> what, n |-> n, job |-> j, k |-> k]]

Output(j) == <<[what |-> "out", n |-> 0, job |-> j, k |-> 1]>>

Waiting(mode) == [mode |-> mode, job |-> Junk, need |-> 0, buf |-> <<>>, cmd |-> 0, tx |-> <<>>]
Fresh         == Waiting("boot")
Lost          == Waiting("lost")
Running(j)    == [Fresh EXCEPT !.mode = "run", !.job = j]
Halted(j)     == [Fresh EXCEPT !.mode = "halt", !.job = j]

(* The monitor is between two commands and has nothing to send.            *)
Quiet == /\ line = <<>>
         /\ \E j \in Jobs : board = Halted(j)

BoardInit == /\ board = Fresh
             /\ line = <<>>
             /\ input = <<>>
             /\ port = Nobody

-----------------------------------------------------------------------------
Item == Head(line)

(* The loader waits for a header; anything else puts it out of step.       *)
TakeHeader == /\ board.mode = "boot"
              /\ board' = IF Item.kind = "header"
                          THEN [Fresh EXCEPT !.mode = "load", !.job = Item.job, !.need = Item.n]
                          ELSE Lost

(* It releases the CPU with the last byte announced; what is over falls    *)
(* into the receive buffer (HEAP stands for any byte).                     *)
TakePayload ==
    /\ board.mode = "load"
    /\ board' = IF Item.kind # "payload" \/ Item.n < board.need THEN Lost
                ELSE [Running(board.job) EXCEPT !.buf = IF Item.n > board.need THEN <<HEAP>> ELSE <<>>]

(* Out of step it takes any bytes and may come to run them as a program,   *)
(* which, or the monitor after it, sends anything or nothing, and can be   *)
(* re-armed like any other.                                                *)
TakeAnything == /\ board.mode = "lost"
                /\ board.tx = <<>>
                /\ board' \in {Lost, [Lost EXCEPT !.tx = Output(Junk)]}
                              \cup (IF Item = Byte(REARM) THEN {Fresh} ELSE {})

(* A byte that was not taken is overwritten (lisp_machine.sv:145-162); the *)
(* monitor is faster than the line unless it is sending.                   *)
TakeByte == /\ board.mode \in {"run", "halt"}
            /\ ~(board.mode = "halt" /\ board.tx = <<>> /\ board.buf # <<>>)
            /\ Item.kind = "byte"
            /\ board' = [board EXCEPT !.buf = <<Item.n>>]

(* A frame that a program or the monitor meets is a run of any bytes.      *)
TakeFrame == /\ board.mode \in {"run", "halt"}
             /\ Item.kind # "byte"
             /\ board' \in {[board EXCEPT !.buf = <<>>], [board EXCEPT !.buf = <<HEAP>>]}
                           \cup (IF board.mode = "halt" THEN {Lost} ELSE {})

Take == /\ line # <<>>
        /\ \/ TakeHeader \/ TakePayload \/ TakeAnything \/ TakeByte \/ TakeFrame
        /\ line' = Tail(line)
        /\ UNCHANGED <<input, port, presses>>

(* The program takes a byte with IN, sends one with OUT, halts.            *)
ProgramIn   == /\ board.mode = "run" /\ board.buf # <<>>
               /\ board' = [board EXCEPT !.buf = <<>>]
ProgramOut  == /\ board.mode = "run" /\ board.tx = <<>>
               /\ board.job \in Talkers
               /\ board' = [board EXCEPT !.tx = Output(board.job)]
ProgramHalt == /\ board.mode = "run" /\ board.tx = <<>>
               /\ board' = [board EXCEPT !.mode = "halt"]
Program == (ProgramIn \/ ProgramOut \/ ProgramHalt) /\ UNCHANGED <<line, input, port, presses>>

(* The monitor takes the byte in the buffer: a command, or the argument a  *)
(* command waits for.                                                      *)
Replying(w)  == [board EXCEPT !.buf = <<>>, !.cmd = 0, !.tx = w]
CommandTo(b) == CASE b = REG             -> [board EXCEPT !.buf = <<>>, !.cmd = REG]
                  [] b = HEAP            -> [board EXCEPT !.buf = <<>>, !.cmd = HEAP]
                  [] b = HP              -> Replying(WordOf("hp", 0, board.job))
                  [] b = ERR             -> Replying(WordOf("err", 0, board.job))
                  [] b \in PERF          -> Replying(WordOf("perf", b, board.job))
                  [] b = REARM           -> Fresh
                  [] OTHER               -> [board EXCEPT !.buf = <<>>]
ArgumentTo(b) == CASE board.cmd = REG    -> Replying(WordOf("reg", b, board.job))
                   [] board.cmd = HEAP   -> [board EXCEPT !.buf = <<>>, !.cmd = ARG2]
                   [] OTHER              -> Replying(WordOf("car", b, board.job) \o WordOf("cdr", b, board.job))
Monitor == /\ board.mode = "halt" /\ board.tx = <<>> /\ board.buf # <<>>
           /\ LET b == Head(board.buf)
              IN  board' = IF board.cmd = 0 THEN CommandTo(b) ELSE ArgumentTo(b)
           /\ UNCHANGED <<line, input, port, presses>>

(* A byte sent to a host that has the port closed is lost, and so is one   *)
(* the driver has no room for.                                             *)
Send == /\ board.tx # <<>>
        /\ board' = [board EXCEPT !.tx = Tail(@)]
        /\ input' = IF port = Nobody \/ Len(input) = MaxInput THEN input
                    ELSE Append(input, Head(board.tx))
        /\ UNCHANGED <<line, port, presses>>

BoardStep == Take \/ Program \/ Monitor \/ Send

(* The operator's button.                                                  *)
Press == /\ presses > 0
         /\ presses' = presses - 1
         /\ board' = Fresh
         /\ UNCHANGED <<line, input, port>>

(* Nothing comes without a further HALT or OUT of the program.             *)
Still == /\ line = <<>> /\ board.tx = <<>>
         /\ ~(board.mode = "halt" /\ board.buf # <<>>)
=============================================================================
