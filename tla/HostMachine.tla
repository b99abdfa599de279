---------------------------- MODULE HostMachine -----------------------------
(***************************************************************************)
(* One board, the runner bridge with its lanes, and the tools that open    *)
(* the port beside it.                                                     *)
(***************************************************************************)
EXTENDS RunnerBridge, DirectTools

CONSTANT Casts            \* bound: the processes started together, and the RESETs, the tries of a lane

ToolProcess == Process \ Conn

vars == <<boardVars, sessionVars, lock, lane, talk>>

Init == /\ BoardInit
        /\ \E cast \in Casts :
              /\ pc = [p \in Process |-> IF p \in cast.started THEN "unused" ELSE "done"]
              /\ presses = cast.presses
              /\ BridgeInit(cast.tries)
        /\ sess = [p \in Process |-> Idle]
        /\ talk = [p \in Process |-> Silence]

Board  == BoardStep /\ UNCHANGED <<sessionVars, lock, lane, talk>>
Button == PressReset /\ UNCHANGED <<lock, lane, talk>>
Bridge == (\/ \E c \in Conn : Thread(c)
           \/ \E l \in Lane : LaneStep(l)) /\ UNCHANGED talk
Beside == \E p \in ToolProcess : Tool(p) /\ UNCHANGED <<lock, lane>>

Next == Board \/ Button \/ Bridge \/ Beside

(* The board answers, threads run, sleeps and timeouts end, and a lock     *)
(* that stays free is taken.                                               *)
Fairness == /\ WF_vars(Take /\ Board) /\ WF_vars(Monitor /\ Board) /\ WF_vars(Send /\ Board)
            /\ \A c \in Conn : WF_vars(Thread(c) /\ UNCHANGED talk)

Spec == Init /\ [][Next]_vars /\ Fairness

-----------------------------------------------------------------------------
(* The serial port has one user: a thread is between the two ends of       *)
(* "with SERIAL_LOCK" exactly when it holds the lock, and a thread that    *)
(* has the port open is that one (fpga_runner_bridge_server.py:199-206).   *)
LockGuardsPort ==
    /\ \A c \in Conn : InLock(c) <=> lock = c
    /\ port \in Conn => lock = port

(* The lock is there so that lanes wait for each other instead of failing: *)
(* a thread that finds the port taken finds it taken by a tool beside the  *)
(* bridge (fpga_runner_lane.py:2, "single-owner").                         *)
OnlyToolsCollide == \A c \in Conn : At(c, "open") => port \in ToolProcess \cup {Nobody}

(* A job that found the loader waiting, whose program had halted when the  *)
(* monitor was asked, and that RESET has not disturbed, is answered with   *)
(* the result register and the error word of that job: whatever lanes that *)
(* gave up, retries, monitor reads and other tools did before or wait to   *)
(* do, and whatever the program sent (job_transport.py:93-125).            *)
JobAnswerIsOwn ==
    \A p \in Process :
        LET s == sess[p]
        IN  s.op = "execute" /\ s.result \in {"ok", "trapped"} /\ s.loaded /\ s.asked =>
               /\ s.word = WordOf("reg", s.req.register, s.req.job)
               /\ s.err = WordOf("err", 0, s.req.job)
               /\ s.result = "ok" <=> s.req.job \notin Traps

(* The two reads of a monitor request that found the board quiet are about *)
(* one run of one program (fpga_runner_bridge_server.py:106-119).          *)
MonitorReadsOneRun ==
    \A p \in Process :
        LET s == sess[p]
        IN  s.op = "monitor" /\ s.result \in {"ok", "trapped"} /\ s.asked =>
               \E j \in Jobs : /\ s.word = WordOf("reg", s.req.register, j)
                               /\ s.err = WordOf("err", 0, j)

(* A tool whose first question found the board quiet reads the reply of    *)
(* the question it asked, to the last question, and the smoke driver that  *)
(* asks a program still running for R0 is not shown anything else          *)
(* (monitor.py:79-133, upc8_smoke_driver.py:23-44).                        *)
Trusted(p) == \/ sess[p].op = "monitor.py" /\ sess[p].asked
              \/ sess[p].op = "smoke" /\ sess[p].loaded /\ sess[p].req.job \notin Talkers
ToolReadsItsReply ==
    \A p \in ToolProcess :
        sess[p].word # NoWord /\ Trusted(p) => sess[p].word = talk[p].want

(* In the end every connection that was accepted has been served, whatever *)
(* the board does and whoever has gone away: nobody keeps the lock         *)
(* (fpga_runner_bridge_server.py:211-234).                                 *)
RequestsEnd == <>[](\A c \in Conn : pc[c] \in {"unused", "done"})

-----------------------------------------------------------------------------
(* docs/hardware-setup.md:166-168: job_transport.py owns the timing of     *)
(* HALT and exact monitor reads, so an ok answer to a job that was loaded  *)
(* and sends nothing itself, with no RESET since, is the result register   *)
(* of its program (job_transport.py:108-125).                              *)
ResultIsExact ==
    \A p \in Process :
        sess[p].op = "execute" /\ sess[p].result = "ok" /\ sess[p].loaded /\ sess[p].req.job \notin Talkers =>
            sess[p].word = WordOf("reg", sess[p].req.register, sess[p].req.job)
=============================================================================
