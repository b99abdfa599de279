---------------------------- MODULE JobTransport ----------------------------
(***************************************************************************)
(* job_transport.py: a request is parsed, the board is reset by hand or    *)
(* re-armed through the monitor, the frame is written, and after a fixed   *)
(* time a register and the error word are read back.  The session of a     *)
(* process p with the port; the runner bridge and monitor.py use the same  *)
(* steps.                                                                  *)
(***************************************************************************)
EXTENDS SerialBoard, FiniteSets

CONSTANTS Process,        \* whatever talks to the port
          Asked,          \* per process, what it may be started for: op, request, soft
          Traps           \* the jobs whose program ends in a type error

VARIABLES pc,             \* where each process is
          sess            \* what each process knows

sessionVars == <<pc, sess>>

(* A request: the fields of its header, the register addresses of its      *)
(* inputs, the words it announces, the bytes it has after the header.      *)
Announced(q) == (IF q.extended THEN 1 + 5 * Len(q.inputs) ELSE 0) + 4 * q.words

(* parse_request: everything it refuses, it refuses with an exception.     *)
Accepted(q) ==
    /\ q.magic /\ q.version = 1 /\ q.register <= 15 /\ q.reserved = 0 /\ q.bits = 0
    /\ q.words \in 1 .. 4095
    /\ q.extended => /\ Len(q.inputs) \in 1 .. 16
                     /\ \A i \in DOMAIN q.inputs : q.inputs[i] <= 15
                     /\ \A i, j \in DOMAIN q.inputs : q.inputs[i] = q.inputs[j] => i = j
    /\ q.size = Announced(q)

bootloader_frame(q) == <<Header(q.job, Announced(q)), Payload(q.job, q.size)>>

(* What a process knows: its request, the words it read; and for the       *)
(* properties, whether the loader waited for its frame and whether the     *)
(* board was quiet when the reading began, no RESET since.                 *)
NoWord == <<>>
NoRequest == <<>>
Idle   == [op |-> "none", req |-> NoRequest, soft |-> FALSE, word |-> NoWord, err |-> NoWord, loaded |-> FALSE, asked |-> FALSE,
           result |-> "none"]

Started(a) == [Idle EXCEPT !.op = a.op, !.req = a.req, !.soft = a.soft]

Goto(p, l)   == pc' = [pc EXCEPT ![p] = l]
Know(p, r)   == sess' = [sess EXCEPT ![p] = r]
At(p, l)     == pc[p] = l
Write(items) == line' = line \o items

(* The end of "with serial.Serial": the port is closed, what it held is    *)
(* gone.                                                                   *)
Closed(p) == IF port = p THEN port' = Nobody /\ input' = <<>> ELSE UNCHANGED <<port, input>>

Finish(p, outcome) == /\ Goto(p, "finished")
                      /\ Know(p, [sess[p] EXCEPT !.result = outcome])
                      /\ Closed(p)
                      /\ UNCHANGED <<board, line, presses>>

-----------------------------------------------------------------------------
(* execute(), step by step; it ends at "finished".                         *)

(* What is checked before the port is touched.                             *)
Start(p) == /\ At(p, "start")
            /\ sess[p].op = "execute"
            /\ IF Accepted(sess[p].req)
               THEN /\ Goto(p, IF sess[p].soft THEN "open" ELSE "reset_wait")
                    /\ UNCHANGED <<boardVars, sess>>
               ELSE Finish(p, "error")

(* The sleep in which the operator should press RESET ends.                *)
ResetWaited(p) == /\ At(p, "reset_wait")
                  /\ Goto(p, "open")
                  /\ UNCHANGED <<boardVars, sess>>

(* The driver gives the port to one process.  What else there is to send   *)
(* before the frame goes out at once.                                      *)
Open(p) == /\ At(p, "open")
           /\ port = Nobody
           /\ port' = p
           /\ input' = <<>>
           /\ CASE sess[p].op = "execute" /\ sess[p].soft -> Write(<<Byte(REARM)>>) /\ Goto(p, "rearm_wait")
                [] sess[p].op = "execute" /\ ~sess[p].soft -> UNCHANGED line /\ Goto(p, "frame")
                [] sess[p].op = "monitor" -> UNCHANGED line /\ Goto(p, "ask_reg")
                [] OTHER                  -> UNCHANGED line /\ Goto(p, "opened")
           /\ Know(p, [sess[p] EXCEPT !.asked = sess[p].op = "monitor" /\ Quiet])
           /\ UNCHANGED <<board, presses>>

OpenFails(p) == At(p, "open") /\ port # Nobody /\ Finish(p, "error")

RearmWaited(p) == /\ At(p, "rearm_wait")
                  /\ line = <<>>
                  /\ Goto(p, "frame")
                  /\ input' = <<>>
                  /\ UNCHANGED <<board, line, port, presses, sess>>

SendFrame(p) == /\ At(p, "frame")
                /\ Write(bootloader_frame(sess[p].req))
                /\ Know(p, [sess[p] EXCEPT !.loaded = (board = Fresh /\ line = <<>>)])
                /\ Goto(p, "halt_wait")
                /\ UNCHANGED <<board, input, port, presses>>

(* The driver takes the header and no more before write_timeout.           *)
SendFails(p) == /\ At(p, "frame")
                /\ Write(<<Header(sess[p].req.job, Announced(sess[p].req))>>)
                /\ Goto(p, "finished")
                /\ Know(p, [sess[p] EXCEPT !.result = "error"])
                /\ Closed(p)
                /\ UNCHANGED <<board, presses>>

(* Faulty: the driver's buffer is not emptied before the monitor is asked. *)
FaultySettled(p) == /\ At(p, "halt_wait")
                    /\ line = <<>>
                    /\ Goto(p, "ask_reg")
                    /\ Know(p, [sess[p] EXCEPT !.asked = Quiet])
                    /\ UNCHANGED boardVars

(* flush() and the two sleeps are over, whatever the program does.         *)
Settled(p) == /\ At(p, "halt_wait")
              /\ line = <<>>
              /\ Goto(p, "ask_reg")
              /\ input' = <<>>
              /\ Know(p, [sess[p] EXCEPT !.asked = Quiet])
              /\ UNCHANGED <<board, line, port, presses>>

(* Faulty: the register before the command.                                *)
FaultyAskReg(p) == /\ At(p, "ask_reg")
                   /\ Write(<<Byte(sess[p].req.register), Byte(REG)>>)
                   /\ Goto(p, "read_reg")
                   /\ UNCHANGED <<board, input, port, presses, sess>>

AskReg(p) == /\ At(p, "ask_reg")
             /\ Write(<<Byte(REG), Byte(sess[p].req.register)>>)
             /\ Goto(p, "read_reg")
             /\ UNCHANGED <<board, input, port, presses, sess>>

(* read_exact: n bytes, or an exception that drops the bytes there were.   *)
ReadExact(n) == Len(input) >= n /\ input' = SubSeq(input, n + 1, Len(input))
Got(n)       == SubSeq(input, 1, n)
TimedOut(n)  == Len(input) < n /\ Still

ReadReg(p) == /\ At(p, "read_reg")
              /\ line = <<>>
              /\ ReadExact(WordLen)
              /\ Know(p, [sess[p] EXCEPT !.word = Got(WordLen)])
              /\ Write(<<Byte(ERR)>>)
              /\ Goto(p, "read_err")
              /\ UNCHANGED <<board, port, presses>>

(* The answer is ok when the error word reads as zero; a word that is not  *)
(* an error word may be anything.                                          *)
ReadsZero(w) == IF w = WordOf("err", 0, w[1].job) THEN {w[1].job \notin Traps} ELSE BOOLEAN

ReadErr(p) ==
    /\ At(p, "read_err")
    /\ line = <<>>
    /\ Len(input) >= WordLen
    /\ \E zero \in ReadsZero(Got(WordLen)) :
          Know(p, [sess[p] EXCEPT !.err = Got(WordLen), !.result = IF zero THEN "ok" ELSE "trapped"])
    /\ Goto(p, "finished")
    /\ port' = Nobody
    /\ input' = <<>>
    /\ UNCHANGED <<board, line, presses>>

ReadFails(p) == /\ pc[p] \in {"read_reg", "read_err"}
                /\ TimedOut(WordLen)
                /\ Finish(p, "error")

Execute(p) == \/ Start(p) \/ ResetWaited(p) \/ RearmWaited(p) \/ SendFrame(p) \/ SendFails(p)
              \/ Settled(p)
Readout(p) == AskReg(p) \/ ReadReg(p) \/ ReadErr(p) \/ ReadFails(p)
Session(p) == Execute(p) \/ Readout(p) \/ Open(p) \/ OpenFails(p)

(* RESET is pressed: nobody's exchange with the board is as it was.        *)
PressReset == /\ Press
              /\ sess' = [p \in Process |-> [sess[p] EXCEPT !.loaded = FALSE, !.asked = FALSE]]
              /\ UNCHANGED pc
=============================================================================
