---------------------------- MODULE DirectTools -----------------------------
(***************************************************************************)
(* The tools that open the serial port themselves: monitor.py (upload and  *)
(* a prompt for monitor commands), upload.py (upload and a terminal),      *)
(* evidence/upc8-hardware-2026-09-06/upc8_smoke_driver.py (upload, wait    *)
(* for HALT by asking for R0, read registers) and job_transport.py run on  *)
(* its own.                                                                *)
(***************************************************************************)
EXTENDS JobTransport

CONSTANTS Questions,      \* what is typed at monitor.py's prompt: <<command, argument>>
          Typed,          \* bytes typed at upload.py's terminal
          MaxPolls,       \* bound: how often the smoke driver asks for R0 (100)
          MaxReads        \* bound: how many registers it reads afterwards (10)

VARIABLE talk             \* per process: what it has asked the board

toolVars == <<boardVars, sessionVars, talk>>

(* want: the reply it is owed; asked and polls: how many questions went    *)
(* out.                                                                    *)
Silence == [want |-> <<>>, asked |-> 0, polls |-> 0]

Heard(p, t) == talk' = [talk EXCEPT ![p] = t]

Launch(p) == /\ At(p, "unused")
             /\ \E a \in Asked[p] :
                   /\ Know(p, Started(a))
                   /\ Goto(p, CASE a.op = "upload.py" -> "press_now"
                                [] a.op = "execute"   -> "start"
                                [] OTHER              -> "open")
             /\ UNCHANGED <<boardVars, talk>>

(* monitor.py without a file goes straight to its prompt; with one it asks *)
(* for RESET with the port open.  upload.py asks before it opens it.       *)
Prompted(p) == /\ At(p, "press_now")
               /\ Goto(p, "open")
               /\ UNCHANGED <<boardVars, sess, talk>>
Opened(p) == /\ At(p, "opened")
             /\ \/ sess[p].op = "monitor.py" /\ Goto(p, "prompt")
                \/ sess[p].op \in {"monitor.py", "upload.py", "smoke"} /\ Goto(p, "upload")
             /\ UNCHANGED <<boardVars, sess, talk>>

TooLong(p) == At(p, "opened") /\ sess[p].op = "monitor.py" /\ Finish(p, "error") /\ UNCHANGED talk

Upload(p) == /\ At(p, "upload")
             /\ Write(bootloader_frame(sess[p].req))
             /\ input' = IF sess[p].op = "upload.py" THEN input ELSE <<>>
             /\ Know(p, [sess[p] EXCEPT !.loaded = (board = Fresh /\ line = <<>>)])
             /\ Goto(p, CASE sess[p].op = "monitor.py" -> "discard"
                          [] sess[p].op = "smoke"      -> "poll"
                          [] OTHER                     -> "terminal")
             /\ UNCHANGED <<board, port, presses, talk>>

(* monitor.py sleeps, empties the driver's buffer and waits for Enter.     *)
Discard(p) == /\ At(p, "discard")
              /\ line = <<>>
              /\ input' = <<>>
              /\ Goto(p, "prompt")
              /\ UNCHANGED <<board, line, port, presses, sess, talk>>

-----------------------------------------------------------------------------
(* A question of monitor.py's prompt, and the reply it is owed.            *)
BytesOf(c, a) == CASE c = REG  -> <<Byte(REG), Byte(a)>>
                   [] c = HEAP -> <<Byte(HEAP), Byte(a), Byte(0)>>
                   [] OTHER    -> <<Byte(c)>>
ReplyTo(c, a) == CASE c = REG  -> WordOf("reg", a, board.job)
                   [] c = HEAP -> WordOf("car", 0, board.job) \o WordOf("cdr", 0, board.job)
                   [] c = HP   -> WordOf("hp", 0, board.job)
                   [] OTHER    -> WordOf("err", 0, board.job)

InSync(p) == IF talk[p].asked = 0 THEN Quiet /\ input = <<>> ELSE sess[p].asked

Asks(p, c, a) == /\ Write(BytesOf(c, a))
                 /\ Heard(p, [talk[p] EXCEPT !.want = ReplyTo(c, a), !.asked = 1])
                 /\ Know(p, [sess[p] EXCEPT !.word = NoWord, !.asked = InSync(p)])

AskPrompt(p) == /\ At(p, "prompt")
                /\ \E q \in Questions : Asks(p, q[1], q[2])
                /\ Goto(p, "answer")
                /\ UNCHANGED <<board, input, port, presses>>

(* Faulty: a reply of two words is read as one.                            *)
FaultyAnswer(p) == /\ At(p, "answer")
                   /\ line = <<>>
                   /\ ReadExact(WordLen)
                   /\ Know(p, [sess[p] EXCEPT !.word = Got(WordLen)])
                   /\ Goto(p, "prompt")
                   /\ UNCHANGED <<board, line, port, presses, talk>>

Answer(p) == /\ At(p, "answer")
             /\ line = <<>>
             /\ ReadExact(Len(talk[p].want))
             /\ Know(p, [sess[p] EXCEPT !.word = Got(Len(talk[p].want))])
             /\ Goto(p, "prompt")
             /\ UNCHANGED <<board, line, port, presses, talk>>

(* "No reply from board": the prompt comes back, the driver's buffer keeps *)
(* only what comes later.                                                  *)
NoReply(p) == /\ At(p, "answer")
              /\ TimedOut(Len(talk[p].want))
              /\ input' = <<>>
              /\ Goto(p, "prompt")
              /\ UNCHANGED <<board, line, port, presses, sess, talk>>

(* quit, the end of the input, or an argument that is no number.           *)
Quit(p) == /\ At(p, "prompt")
           /\ \E outcome \in {"ok", "error"} : Finish(p, outcome)
           /\ UNCHANGED talk

-----------------------------------------------------------------------------
(* The smoke driver: R0 is asked for until a whole word comes.             *)
Polling(p) == talk[p].polls < MaxPolls

Poll(p) == /\ At(p, "poll")
           /\ Polling(p)
           /\ input' = <<>>
           /\ Write(<<Byte(REG), Byte(0)>>)
           /\ Heard(p, [talk[p] EXCEPT !.want = WordOf("reg", 0, sess[p].req.job), !.polls = @ + 1])
           /\ Goto(p, "polled")
           /\ UNCHANGED <<board, port, presses, sess>>

PollAnswered(p) == /\ At(p, "polled")
                   /\ line = <<>>
                   /\ ReadExact(WordLen)
                   /\ Know(p, [sess[p] EXCEPT !.word = Got(WordLen)])
                   /\ Goto(p, "dump")
                   /\ UNCHANGED <<board, line, port, presses, talk>>
PollFails(p) == /\ At(p, "polled")
                /\ TimedOut(WordLen)
                /\ IF Polling(p) THEN Goto(p, "poll") /\ input' = <<>> /\ UNCHANGED <<board, line, port, presses, sess>>
                                 ELSE Finish(p, "error")
                /\ UNCHANGED talk

(* Then the registers one by one and the error word; a reply that does not *)
(* come is shown as TIMEOUT.                                               *)
Dump(p) == /\ At(p, "dump")
           /\ IF talk[p].asked <= MaxReads
              THEN /\ \E c \in IF talk[p].asked < MaxReads THEN {REG} ELSE {ERR} :
                         /\ Write(BytesOf(c, talk[p].asked))
                         /\ Heard(p, [talk[p] EXCEPT !.asked = @ + 1,
                                         !.want = WordOf(IF c = REG THEN "reg" ELSE "err",
                                                         IF c = REG THEN talk[p].asked ELSE 0,
                                                         sess[p].req.job)])
                   /\ Know(p, [sess[p] EXCEPT !.word = NoWord])
                   /\ Goto(p, "dumping")
                   /\ UNCHANGED <<board, input, port, presses>>
              ELSE Finish(p, "ok") /\ UNCHANGED talk
Dumped(p) == /\ At(p, "dumping")
             /\ line = <<>>
             /\ ReadExact(WordLen)
             /\ Know(p, [sess[p] EXCEPT !.word = Got(WordLen)])
             /\ Goto(p, "dump")
             /\ UNCHANGED <<board, line, port, presses, talk>>
DumpFails(p) == /\ At(p, "dumping")
                /\ TimedOut(WordLen)
                /\ input' = <<>>
                /\ Goto(p, "dump")
                /\ UNCHANGED <<board, line, port, presses, sess, talk>>

(* upload.py's terminal shows what comes and sends what is typed.          *)
Show(p) == /\ At(p, "terminal")
           /\ input # <<>>
           /\ input' = <<>>
           /\ UNCHANGED <<board, line, port, presses, sessionVars, talk>>
Type(p) == /\ At(p, "terminal")
           /\ line = <<>>
           /\ \E b \in Typed : Write(<<Byte(b)>>)
           /\ UNCHANGED <<board, input, port, presses, sessionVars, talk>>
Interrupt(p) == At(p, "terminal") /\ Finish(p, "ok") /\ UNCHANGED talk

MonitorPy(p) == TooLong(p) \/ Discard(p) \/ AskPrompt(p) \/ Answer(p) \/ NoReply(p) \/ Quit(p)
Smoke(p)     == Poll(p) \/ PollAnswered(p) \/ PollFails(p) \/ Dump(p) \/ Dumped(p) \/ DumpFails(p)
Terminal(p)  == Prompted(p) \/ Show(p) \/ Type(p) \/ Interrupt(p)
Tool(p) == \/ Launch(p) \/ Opened(p) \/ Upload(p) \/ MonitorPy(p) \/ Smoke(p) \/ Terminal(p)
           \/ Session(p) /\ UNCHANGED talk
=============================================================================
