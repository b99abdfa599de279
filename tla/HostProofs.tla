----------------------------- MODULE HostProofs -----------------------------
(***************************************************************************)
(* For any number of lanes, connections and tools the thread that holds    *)
(* SERIAL_LOCK is the one that works, and a thread meets a port that is    *)
(* taken only when a tool beside the bridge has it.  Then the exchanges:   *)
(* while a process has the port, the bytes on the line, in the board and   *)
(* in the driver's buffer are those of its own question and its reply, so  *)
(* what it reads is the answer it asked for.                               *)
(***************************************************************************)
EXTENDS HostMachine, SequenceTheorems, TLAPS

(* Where a process of execute(), monitor() or probe() has the port open.   *)
Holding == {"opened", "rearm_wait", "frame", "halt_wait", "ask_reg", "read_reg", "read_err"}

PcOK     == pc = [p \in Process |-> pc[p]]
PortOK   == port \in Process \cup {Nobody}
LockOK   == \A c \in Conn : InLock(c) <=> lock = c
HolderOK == /\ \A p \in Process : pc[p] \in Holding => port = p
            /\ \A c \in Conn : port = c => pc[c] \in Holding

IInv == PcOK /\ PortOK /\ LockOK /\ HolderOK

(* One process moves; the port stays as it is, is taken by it when free,   *)
(* or is given back by it.                                                 *)
Moves(p, labels) == \E l \in labels : pc' = [pc EXCEPT ![p] = l]
MovesOff(p, labels) == \E l : l \notin labels /\ pc' = [pc EXCEPT ![p] = l]
PortStays        == port' = port
PortTaken(p)     == port = Nobody /\ port' = p
PortGiven(p)     == port = p /\ port' = Nobody

Working  == {"start", "reset_wait", "open", "opened", "rearm_wait", "frame", "halt_wait",
             "ask_reg", "read_reg", "read_err", "finished"}

-----------------------------------------------------------------------------
(* What a step of a session does to the port: it opens it, it works with   *)
(* it open or closed, or it ends and closes it.                            *)
Opens(p)  == pc[p] = "open" /\ PortTaken(p) /\ Moves(p, Holding)
Works(p)  == /\ PortStays
             /\ \/ pc[p] \in Holding /\ Moves(p, Holding)
                \/ pc[p] \in {"start", "reset_wait"} /\ Moves(p, {"reset_wait", "open"})
Ends(p)   == /\ pc[p] \in Working \ {"finished"}
             /\ Moves(p, {"finished"})
             /\ IF port = p THEN port' = Nobody ELSE port' = port

SessionEffect(p) == Opens(p) \/ Works(p) \/ Ends(p)

LEMMA FinishEnds ==
  ASSUME NEW p \in Process, NEW outcome, pc[p] \in Working \ {"finished"}, Finish(p, outcome)
  PROVE  Ends(p)
BY DEF Finish, Goto, Closed, Ends, Moves

LEMMA SessionHasEffect ==
  ASSUME NEW p \in Process, IInv, Session(p)
  PROVE  SessionEffect(p)
<1>1. CASE Start(p)
  BY <1>1, FinishEnds DEF Start, At, Goto, SessionEffect, Works, PortStays, Moves, boardVars, Working
<1>2. CASE ResetWaited(p)
  BY <1>2 DEF ResetWaited, At, Goto, SessionEffect, Works, PortStays, Moves, boardVars
<1>3. CASE RearmWaited(p) \/ SendFrame(p) \/ Settled(p) \/ AskReg(p) \/ ReadReg(p)
  BY <1>3 DEF RearmWaited, SendFrame, Settled, AskReg, ReadReg, At, Goto, SessionEffect, Works,
     PortStays, Moves, Holding
<1>4. CASE SendFails(p)
  BY <1>4 DEF SendFails, At, Goto, Closed, SessionEffect, Ends, Moves, Working
<1>5. CASE ReadErr(p)
  <2>1. port = p
    BY <1>5 DEF ReadErr, At, IInv, HolderOK, Holding
  <2>2. QED
    BY <1>5, <2>1 DEF ReadErr, At, Goto, SessionEffect, Ends, Moves, Working
<1>6. CASE ReadFails(p)
  BY <1>6, FinishEnds DEF ReadFails, SessionEffect, Working
<1>7. CASE Open(p)
  BY <1>7 DEF Open, At, Goto, SessionEffect, Opens, PortTaken, Moves, Holding
<1>8. CASE OpenFails(p)
  BY <1>8, FinishEnds DEF OpenFails, At, SessionEffect, Working
<1>9. QED
  BY <1>1, <1>2, <1>3, <1>4, <1>5, <1>6, <1>7, <1>8 DEF Session, Execute, Readout

-----------------------------------------------------------------------------
LEMMA InLockIsWorking ==
  /\ \A c \in Conn : InLock(c) <=> pc[c] \in Working
  /\ (\A c \in Conn : InLock(c) <=> pc[c] \in Working)'
BY DEF InLock, Working

LEMMA MovesOne ==
  ASSUME PcOK, NEW p \in Process, NEW labels
  PROVE  /\ Moves(p, labels) => /\ PcOK' /\ pc'[p] \in labels
                                /\ \A q \in Process : q # p => pc'[q] = pc[q]
         /\ MovesOff(p, labels) => /\ PcOK' /\ pc'[p] \notin labels
                                   /\ \A q \in Process : q # p => pc'[q] = pc[q]
BY DEF PcOK, Moves, MovesOff

LEMMA GotoMoves ==
  ASSUME NEW p, NEW l, Goto(p, l), NEW labels
  PROVE  /\ l \in labels => Moves(p, labels)
         /\ l \notin labels => MovesOff(p, labels)
BY DEF Goto, Moves, MovesOff

LEMMA Labels ==
  /\ Holding \subseteq Working
  /\ "finished" \in Working /\ "finished" \notin Holding
  /\ {"start", "reset_wait", "open"} \subseteq Working /\ "open" \notin Holding
  /\ "start" \notin Holding /\ "reset_wait" \notin Holding
BY DEF Holding, Working

(* A step that moves nobody and leaves lock and port alone.                *)
LEMMA NothingMoves ==
  ASSUME IInv, UNCHANGED <<pc, lock, port>>
  PROVE  IInv'
BY InLockIsWorking DEF IInv, PcOK, PortOK, LockOK, HolderOK

(* A thread outside the lock moves to another place outside it.            *)
LEMMA MovesOutside ==
  ASSUME IInv, NEW c \in Conn, pc[c] \notin Working, MovesOff(c, Working),
         UNCHANGED <<lock, port>>
  PROVE  IInv'
<1>1. c \in Process /\ Conn \subseteq Process
  BY ProcessAssumption
<1>2. PcOK' /\ pc'[c] \notin Working /\ \A q \in Process : q # c => pc'[q] = pc[q]
  BY <1>1, MovesOne DEF IInv
<1>3. QED
  BY <1>1, <1>2, InLockIsWorking, Labels DEF IInv, PortOK, LockOK, HolderOK
(* A thread at work goes on with what a session may do.                    *)
LEMMA ConnWorks ==
  ASSUME IInv, NEW c \in Conn, pc[c] \in Working, SessionEffect(c), lock' = lock
  PROVE  IInv'
<1>0. c \in Process /\ Nobody \notin Process /\ Conn \subseteq Process
  BY ProcessAssumption
<1>1. CASE Opens(c)
  <2>1. PcOK' /\ pc'[c] \in Holding /\ \A q \in Process : q # c => pc'[q] = pc[q]
    BY <1>0, <1>1, MovesOne, Labels DEF IInv, Opens
  <2>2. \A q \in Process : pc[q] \notin Holding
    BY <1>0, <1>1 DEF IInv, HolderOK, Opens, PortTaken
  <2>3. QED
    BY <1>0, <1>1, <2>1, <2>2, InLockIsWorking, Labels DEF IInv, PortOK, LockOK, HolderOK, Opens, PortTaken
<1>2. CASE Works(c)
  <2>1. CASE pc[c] \in Holding /\ Moves(c, Holding)
    <3>1. PcOK' /\ pc'[c] \in Holding /\ \A q \in Process : q # c => pc'[q] = pc[q]
      BY <1>0, <2>1, MovesOne, Labels DEF IInv
    <3>2. QED
      BY <1>0, <1>2, <2>1, <3>1, InLockIsWorking, Labels DEF IInv, PortOK, LockOK, HolderOK, Works, PortStays
  <2>2. CASE pc[c] \in {"start", "reset_wait"} /\ Moves(c, {"reset_wait", "open"})
    <3>1. PcOK' /\ pc'[c] \in {"reset_wait", "open"} /\ \A q \in Process : q # c => pc'[q] = pc[q]
      BY <1>0, <2>2, MovesOne, Labels DEF IInv
    <3>2. QED
      BY <1>0, <1>2, <2>2, <3>1, InLockIsWorking, Labels DEF IInv, PortOK, LockOK, HolderOK, Works, PortStays
  <2>3. QED
    BY <1>2, <2>1, <2>2 DEF Works
<1>3. CASE Ends(c)
  <2>1. PcOK' /\ pc'[c] \in {"finished"} /\ \A q \in Process : q # c => pc'[q] = pc[q]
    BY <1>0, <1>3, MovesOne, Labels DEF IInv, Ends
  <2>2. QED
    BY <1>0, <1>3, <2>1, InLockIsWorking, Labels DEF IInv, PortOK, LockOK, HolderOK, Ends
<1>4. QED
  BY <1>1, <1>2, <1>3 DEF SessionEffect

(* A tool moves, and leaves the places of execute() alone or follows them. *)
ToolEffect(p) ==
    \/ SessionEffect(p)
    \/ pc[p] = "opened" /\ PortStays /\ MovesOff(p, Holding)
    \/ pc[p] \notin Holding /\ MovesOff(p, Holding)
                            /\ (PortStays \/ PortGiven(p))

LEMMA ToolMoves ==
  ASSUME IInv, NEW p \in ToolProcess, ToolEffect(p), lock' = lock
  PROVE  IInv'
<1>0. p \in Process /\ p \notin Conn /\ Nobody \notin Process /\ Conn \subseteq Process
  BY ProcessAssumption DEF ToolProcess
<1>1. CASE Opens(p)
  <2>1. PcOK' /\ pc'[p] \in Holding /\ \A q \in Process : q # p => pc'[q] = pc[q]
    BY <1>0, <1>1, MovesOne, Labels DEF IInv, Opens
  <2>2. \A q \in Process : pc[q] \notin Holding
    BY <1>0, <1>1 DEF IInv, HolderOK, Opens, PortTaken
  <2>3. QED
    BY <1>0, <1>1, <2>1, <2>2, InLockIsWorking, Labels DEF IInv, PortOK, LockOK, HolderOK, Opens, PortTaken
<1>2. CASE Works(p)
  <2>1. CASE pc[p] \in Holding /\ Moves(p, Holding)
    <3>1. PcOK' /\ pc'[p] \in Holding /\ \A q \in Process : q # p => pc'[q] = pc[q]
      BY <1>0, <2>1, MovesOne, Labels DEF IInv
    <3>2. QED
      BY <1>0, <1>2, <2>1, <3>1, InLockIsWorking, Labels DEF IInv, PortOK, LockOK, HolderOK, Works, PortStays
  <2>2. CASE pc[p] \in {"start", "reset_wait"} /\ Moves(p, {"reset_wait", "open"})
    <3>1. PcOK' /\ pc'[p] \in {"reset_wait", "open"} /\ \A q \in Process : q # p => pc'[q] = pc[q]
      BY <1>0, <2>2, MovesOne, Labels DEF IInv
    <3>2. QED
      BY <1>0, <1>2, <2>2, <3>1, InLockIsWorking, Labels DEF IInv, PortOK, LockOK, HolderOK, Works, PortStays
  <2>3. QED
    BY <1>2, <2>1, <2>2 DEF Works
<1>3. CASE Ends(p)
  <2>1. PcOK' /\ pc'[p] \in {"finished"} /\ \A q \in Process : q # p => pc'[q] = pc[q]
    BY <1>0, <1>3, MovesOne, Labels DEF IInv, Ends
  <2>2. QED
    BY <1>0, <1>3, <2>1, InLockIsWorking, Labels DEF IInv, PortOK, LockOK, HolderOK, Ends
<1>4. CASE pc[p] = "opened" /\ PortStays /\ MovesOff(p, Holding)
  <2>1. PcOK' /\ pc'[p] \notin Holding /\ \A q \in Process : q # p => pc'[q] = pc[q]
    BY <1>0, <1>4, MovesOne DEF IInv
  <2>2. QED
    BY <1>0, <1>4, <2>1, InLockIsWorking, Labels DEF IInv, PortOK, LockOK, HolderOK, PortStays
<1>5. CASE pc[p] \notin Holding /\ MovesOff(p, Holding) /\ (PortStays \/ PortGiven(p))
  <2>1. PcOK' /\ pc'[p] \notin Holding /\ \A q \in Process : q # p => pc'[q] = pc[q]
    BY <1>0, <1>5, MovesOne DEF IInv
  <2>2. QED
    BY <1>0, <1>5, <2>1, InLockIsWorking, Labels DEF IInv, PortOK, LockOK, HolderOK, PortStays, PortGiven
<1>6. QED
  BY <1>1, <1>2, <1>3, <1>4, <1>5 DEF ToolEffect, SessionEffect

-----------------------------------------------------------------------------
(* The threads of the bridge.                                              *)
LEMMA ThreadStep ==
  ASSUME IInv, NEW c \in Conn, Thread(c)
  PROVE  IInv'
<1>0. c \in Process /\ Nobody \notin Process /\ Conn \subseteq Process
  BY ProcessAssumption
<1>1. CASE Disallowed(c) \/ NoLine(c) \/ Dispatch(c) \/ Reply(c)
  <2>1. pc[c] \notin Working /\ MovesOff(c, Working) /\ UNCHANGED <<lock, port>>
    <3>1. \E l \in {"reply", "done", "lock"} : Goto(c, l)
      BY <1>1 DEF Disallowed, NoLine, Dispatch, Respond, Reply
    <3>2. MovesOff(c, Working)
      BY <3>1, GotoMoves DEF Working
    <3>3. pc[c] \in {"accepted", "reply"} /\ UNCHANGED <<lock, port>>
      BY <1>1 DEF Disallowed, NoLine, Dispatch, Respond, Reply, At, boardVars
    <3>4. QED
      BY <3>2, <3>3 DEF Working
  <2>2. QED
    BY <2>1, MovesOutside
<1>2. CASE Acquire(c)
  <2>1. PcOK' /\ pc'[c] \in {"start"} /\ \A q \in Process : q # c => pc'[q] = pc[q]
    <3>1. Moves(c, {"start"})
      BY <1>2, GotoMoves DEF Acquire
    <3>2. QED
      BY <1>0, <3>1, MovesOne DEF IInv
  <2>2. port' = port /\ lock = Nobody /\ lock' = c /\ pc[c] = "lock"
    BY <1>2 DEF Acquire, At, boardVars
  <2>3. "start" \in Working /\ "start" \notin Holding /\ "lock" \notin Holding
    BY DEF Working, Holding
  <2>4. QED
    BY <1>0, <2>1, <2>2, <2>3, InLockIsWorking DEF IInv, PortOK, LockOK, HolderOK
<1>3. CASE Work(c)
  <2>1. SessionEffect(c) /\ pc[c] \in Working
    <3>1. CASE Session(c)
      <4>1. SessionEffect(c)
        BY <1>0, <3>1, SessionHasEffect
      <4>2. QED
        BY <4>1, Labels DEF SessionEffect, Opens, Works, Ends
    <3>2. CASE StartMonitor(c) \/ StartProbe(c)
      BY <1>0, <3>2, FinishEnds DEF StartMonitor, StartProbe, At, Goto, SessionEffect, Works,
         PortStays, Moves, boardVars, Working
    <3>3. CASE Probed(c)
      BY <1>0, <3>3, FinishEnds DEF Probed, At, SessionEffect, Working
    <3>4. QED
      BY <1>3, <3>1, <3>2, <3>3 DEF Work
  <2>2. QED
    BY <1>3, <2>1, ConnWorks DEF Work
<1>4. CASE Release(c)
  <2>1. PcOK' /\ pc'[c] \in {"reply"} /\ \A q \in Process : q # c => pc'[q] = pc[q]
    <3>1. Moves(c, {"reply"})
      BY <1>4, GotoMoves DEF Release
    <3>2. QED
      BY <1>0, <3>1, MovesOne DEF IInv
  <2>2. port' = port /\ lock' = Nobody /\ pc[c] = "finished"
    BY <1>4 DEF Release, At, boardVars
  <2>3. "reply" \notin Working /\ "reply" \notin Holding /\ "finished" \in Working /\ "finished" \notin Holding
    BY DEF Working, Holding
  <2>4. QED
    BY <1>0, <2>1, <2>2, <2>3, InLockIsWorking DEF IInv, PortOK, LockOK, HolderOK
<1>5. QED
  BY <1>1, <1>2, <1>3, <1>4 DEF Thread

(* The clients: one that connects moves the thread of its connection.      *)
LEMMA LaneStepKeeps ==
  ASSUME IInv, NEW l \in Lane, LaneStep(l)
  PROVE  IInv'
<1>1. CASE Refuse(l) \/ Receive(l) \/ GiveUp(l)
  BY <1>1, NothingMoves DEF Refuse, Receive, GiveUp, boardVars, sessionVars
<1>2. CASE Connect(l)
  <2>1. PICK c \in Conn : At(c, "unused") /\ Goto(c, "accepted")
    BY <1>2 DEF Connect
  <2>2. pc[c] \notin Working /\ MovesOff(c, Working) /\ UNCHANGED <<lock, port>>
    BY <1>2, <2>1, GotoMoves DEF Connect, At, Working, boardVars
  <2>3. QED
    BY <2>1, <2>2, MovesOutside
<1>3. QED
  BY <1>1, <1>2 DEF LaneStep

(* The tools beside the bridge.                                            *)
LEMMA ToolHasEffect ==
  ASSUME IInv, NEW p \in ToolProcess, Tool(p)
  PROVE  ToolEffect(p) \/ UNCHANGED <<pc, port>>
<1>0. p \in Process
  BY DEF ToolProcess
<1>1. CASE Launch(p) \/ Prompted(p) \/ Upload(p)
  <2>1. pc[p] \in {"unused", "press_now", "upload"} /\ PortStays
    BY <1>1 DEF Launch, Prompted, Upload, At, PortStays, boardVars
  <2>2. \E l \in {"press_now", "start", "open", "discard", "poll", "terminal"} : Goto(p, l)
    BY <1>1 DEF Launch, Prompted, Upload
  <2>3. MovesOff(p, Holding)
    BY <2>2, GotoMoves DEF Holding
  <2>4. QED
    BY <2>1, <2>3 DEF ToolEffect, Holding
<1>2. CASE Opened(p)
  <2>1. pc[p] = "opened" /\ PortStays /\ \E l \in {"prompt", "upload"} : Goto(p, l)
    BY <1>2 DEF Opened, At, PortStays, boardVars
  <2>2. MovesOff(p, Holding)
    BY <2>1, GotoMoves DEF Holding
  <2>3. QED
    BY <2>1, <2>2 DEF ToolEffect
<1>3. CASE TooLong(p)
  BY <1>0, <1>3, FinishEnds DEF TooLong, At, ToolEffect, SessionEffect, Working
<1>4. CASE Session(p)
  BY <1>0, <1>4, SessionHasEffect DEF ToolEffect
<1>5. CASE Show(p) \/ Type(p)
  BY <1>5 DEF Show, Type, sessionVars
<1>6. ASSUME NEW l \in {"prompt", "answer", "poll", "polled", "dump", "dumping"}, Goto(p, l),
             pc[p] \notin Holding, port' = port
      PROVE  ToolEffect(p)
  <2>1. MovesOff(p, Holding)
    BY <1>6, GotoMoves DEF Holding
  <2>2. QED
    BY <1>6, <2>1 DEF ToolEffect, PortStays
<1>7. CASE Discard(p) \/ AskPrompt(p) \/ Answer(p) \/ NoReply(p) \/ Poll(p) \/ PollAnswered(p) \/ Dumped(p) \/ DumpFails(p)
  <2>1. pc[p] \in {"discard", "prompt", "answer", "poll", "polled", "dumping"} /\ port' = port
    BY <1>7 DEF Discard, AskPrompt, Answer, NoReply, Poll, PollAnswered, Dumped, DumpFails, At
  <2>2. \E l \in {"prompt", "answer", "polled", "dump"} : Goto(p, l)
    BY <1>7 DEF Discard, AskPrompt, Answer, NoReply, Poll, PollAnswered, Dumped, DumpFails
  <2>3. pc[p] \notin Holding
    BY <2>1 DEF Holding
  <2>4. QED
    BY <1>6, <2>1, <2>2, <2>3
<1>8. ASSUME NEW outcome, pc[p] \notin Holding, Finish(p, outcome)
      PROVE  ToolEffect(p)
  <2>1. Goto(p, "finished") /\ (PortStays \/ PortGiven(p))
    BY <1>8 DEF Finish, Closed, PortStays, PortGiven
  <2>2. MovesOff(p, Holding)
    BY <2>1, GotoMoves, Labels
  <2>3. QED
    BY <1>8, <2>1, <2>2 DEF ToolEffect
<1>9. CASE Quit(p) \/ Interrupt(p)
  <2>1. pc[p] \in {"prompt", "terminal"} /\ \E outcome \in {"ok", "error"} : Finish(p, outcome)
    BY <1>9 DEF Quit, Interrupt, At
  <2>2. pc[p] \notin Holding
    BY <2>1 DEF Holding
  <2>3. QED
    BY <1>8, <2>1, <2>2
<1>10. CASE PollFails(p)
  <2>1. pc[p] \notin Holding
    BY <1>10 DEF PollFails, At, Holding
  <2>2. CASE Polling(p)
    BY <1>6, <1>10, <2>1, <2>2 DEF PollFails
  <2>3. QED
    BY <1>8, <1>10, <2>1, <2>2 DEF PollFails
<1>11. CASE Dump(p)
  <2>1. pc[p] \notin Holding
    BY <1>11 DEF Dump, At, Holding
  <2>2. CASE talk[p].asked <= MaxReads
    BY <1>6, <1>11, <2>1, <2>2 DEF Dump
  <2>3. QED
    BY <1>8, <1>11, <2>1, <2>2 DEF Dump
<1>12. QED
  BY <1>1, <1>2, <1>3, <1>4, <1>5, <1>7, <1>9, <1>10, <1>11 DEF Tool, MonitorPy, Smoke, Terminal

-----------------------------------------------------------------------------
LEMMA InitIInv == Init => IInv
<1>1. ASSUME Init PROVE IInv
  <2>1. PICK cast \in Casts : pc = [p \in Process |-> IF p \in cast.started THEN "unused" ELSE "done"]
    BY <1>1 DEF Init
  <2>2. lock = Nobody /\ port = Nobody
    BY <1>1 DEF Init, BoardInit, BridgeInit
  <2>3. PcOK /\ \A p \in Process : pc[p] \notin Working
    BY <2>1 DEF PcOK, Working
  <2>4. QED
    BY <2>2, <2>3, InLockIsWorking, Labels, ProcessAssumption DEF IInv, PortOK, LockOK, HolderOK
<1>2. QED
  BY <1>1

LEMMA NextIInv == IInv /\ [Next]_vars => IInv'
<1>1. SUFFICES ASSUME IInv, [Next]_vars PROVE IInv'
  OBVIOUS
<1>2. CASE Board \/ Button \/ UNCHANGED vars
  <2>1. UNCHANGED <<pc, lock, port>>
    BY <1>2 DEF Board, Button, PressReset, Press, BoardStep, Take, Program, Monitor, Send, vars, boardVars, sessionVars
  <2>2. QED
    BY <1>1, <2>1, NothingMoves
<1>3. CASE Bridge
  BY <1>1, <1>3, ThreadStep, LaneStepKeeps DEF Bridge
<1>4. CASE Beside
  <2>1. PICK p \in ToolProcess : Tool(p) /\ UNCHANGED <<lock, lane>>
    BY <1>4 DEF Beside
  <2>2. ToolEffect(p) \/ UNCHANGED <<pc, port>>
    BY <1>1, <2>1, ToolHasEffect
  <2>3. QED
    BY <1>1, <2>1, <2>2, ToolMoves, NothingMoves
<1>5. QED
  BY <1>1, <1>2, <1>3, <1>4 DEF Next

LEMMA IInvHolds == Spec => []IInv
BY InitIInv, NextIInv, PTL DEF Spec

(* The lock is held by the thread that works, and the thread that has the  *)
(* port open is the one that holds it, for any lanes, connections, tools   *)
(* and requests (fpga_runner_bridge_server.py:199-206).                    *)
THEOREM LockCorrect == Spec => []LockGuardsPort
<1>1. IInv => LockGuardsPort
  <2>1. ASSUME IInv, port \in Conn PROVE lock = port
    <3>1. pc[port] \in Holding
      BY <2>1 DEF IInv, HolderOK
    <3>2. QED
      BY <2>1, <3>1, InLockIsWorking, Labels DEF IInv, LockOK
  <2>2. QED
    BY <2>1 DEF IInv, LockOK, LockGuardsPort
<1>2. QED
  BY <1>1, IInvHolds, PTL

(* Threads of the bridge never find each other in the port: what refuses   *)
(* it to one of them is a tool beside the bridge.                          *)
THEOREM ThreadsDoNotCollide == Spec => []OnlyToolsCollide
<1>1. IInv => OnlyToolsCollide
  <2>1. SUFFICES ASSUME IInv, NEW c \in Conn, At(c, "open"), port \in Conn PROVE FALSE
    BY DEF OnlyToolsCollide, IInv, PortOK, ToolProcess
  <2>2. pc[port] \in Holding /\ pc[c] = "open"
    BY <2>1 DEF IInv, HolderOK, At
  <2>3. lock = port /\ lock = c
    BY <2>1, <2>2, InLockIsWorking, Labels DEF IInv, LockOK
  <2>4. QED
    BY <2>2, <2>3, Labels
<1>2. QED
  BY <1>1, IInvHolds, PTL

-----------------------------------------------------------------------------
(* What is under way between one process and the board.  The process that  *)
(* has the port is the only one that writes; so while it waits, the bytes  *)
(* on the line, in the board and in the driver's buffer are those of its   *)
(* own exchange.                                                           *)
Owning  == Holding \cup {"upload", "discard", "prompt", "answer", "poll", "polled", "dump", "dumping", "terminal"}
FileOps == {"monitor.py", "upload.py", "smoke"}
Ended   == {"finished", "reply", "done"}
Worded  == {"read_err", "prompt", "dump"}

(* The hypotheses.  A reply of the board fits into the driver's buffer; a  *)
(* tool announces as many bytes as it sends; monitor.py asks what the      *)
(* monitor answers.                                                        *)
DriverHoldsReply == WordLen \in Nat /\ WordLen > 0 /\ MaxInput \in Nat /\ MaxInput >= 2 * WordLen
Fitting(q)       == q.size = Announced(q) /\ q.size \in Nat
FramesFit        == \A p \in Process : \A a \in Asked[p] : a.op \in FileOps => Fitting(a.req)
QuestionsKnown   == \A q \in Questions : q[1] \in {REG, HEAP, HP, ERR}

(* Which operation has which places, and what it knows there.              *)
PlaceOK(p) ==
    LET s == sess[p]
    IN  /\ pc[p] \in Owning => port = p
        /\ pc[p] \notin Ended => s.result = "none"
        /\ pc[p] \in {"reset_wait", "rearm_wait", "frame", "halt_wait"} => s.op = "execute"
        /\ pc[p] \in {"ask_reg", "read_reg", "read_err"} => s.op \in {"execute", "monitor"}
        /\ pc[p] \in {"opened", "upload", "discard", "prompt", "answer", "poll", "polled", "dump", "dumping",
                      "terminal"} => s.op \notin {"execute", "monitor"}
        /\ pc[p] \in {"upload", "poll", "polled", "dump", "dumping"} => s.op \in FileOps
        /\ pc[p] \in {"discard", "prompt", "answer"} => s.op = "monitor.py"
        /\ pc[p] \in {"poll", "polled", "dump", "dumping"} => s.op = "smoke"
        /\ pc[p] \in {"reset_wait", "open", "rearm_wait", "frame", "halt_wait"} /\ s.op = "execute" => Accepted(s.req)
        /\ FramesFit /\ s.op \in FileOps => Fitting(s.req)
        /\ pc[p] = "press_now" => s.op = "upload.py"
        /\ pc[p] \notin Worded \cup Ended => s.word = NoWord
        /\ pc[p] \in {"opened", "upload", "discard"} => ~s.asked
        /\ s.op = "monitor.py" /\ s.asked => talk[p].asked = 1
        /\ talk[p].asked \in Nat

(* The board with a program: running or halted.                            *)
BoardAt(mode, j, buf, cmd, tx) ==
    [mode |-> mode, job |-> j, need |-> 0, buf |-> buf, cmd |-> cmd, tx |-> tx]

(* A frame is on its way, with nothing or a poll of R0 behind it.          *)
HeaderOf(q)  == Header(q.job, Announced(q))
PayloadOf(q) == Payload(q.job, q.size)
LoadingOf(q) == [Fresh EXCEPT !.mode = "load", !.job = q.job, !.need = Announced(q)]
FrameOnWay(q) == \/ board = Fresh /\ line = <<HeaderOf(q), PayloadOf(q)>>
                 \/ board = LoadingOf(q) /\ line = <<PayloadOf(q)>>
FrameAndPoll(q) == \/ board = Fresh /\ line = <<HeaderOf(q), PayloadOf(q), Byte(REG), Byte(0)>>
                   \/ board = LoadingOf(q) /\ line = <<PayloadOf(q), Byte(REG), Byte(0)>>

(* The program of the frame runs or has halted; nobody has asked anything. *)
RunsAlone(j) == /\ line = <<>>
                /\ \/ board = BoardAt("run", j, <<>>, 0, <<>>)
                   \/ board = BoardAt("run", j, <<>>, 0, Output(j)) /\ j \in Talkers
                   \/ board = Halted(j)

(* A poll that no monitor has taken as a question, and what it may leave.  *)
Unpolled(j) == /\ board \in {BoardAt(m, j, board.buf, 0, <<>>) : m \in {"run", "halt"}}
               /\ line = <<>> /\ board.buf \in {<<>>, <<0>>}
Unheard(j)  == /\ board \in {BoardAt(m, j, board.buf, 0, <<>>) : m \in {"run", "halt"}}
               /\ input = <<>>
               /\ \/ line = <<Byte(REG), Byte(0)>> /\ board.buf \in {<<>>, <<0>>}
                  \/ line = <<Byte(0)>> /\ board.buf \in {<<>>, <<REG>>}
                  \/ line = <<>> /\ board.buf \in {<<>>, <<0>>}

(* One, two or three bytes that the monitor has still to take.             *)
One(a)         == \/ board.buf = <<>> /\ line = <<Byte(a)>>
                  \/ board.buf = <<a>> /\ line = <<>>
Two(a, b)      == \/ board.buf = <<>> /\ line = <<Byte(a), Byte(b)>>
                  \/ board.buf = <<a>> /\ line = <<Byte(b)>>
Three(a, b, c) == \/ board.buf = <<>> /\ line = <<Byte(a), Byte(b), Byte(c)>>
                  \/ board.buf = <<a>> /\ line = <<Byte(b), Byte(c)>>

(* A question c with its argument a, put to the monitor after the program  *)
(* j, and nothing else: until its last byte is taken nothing has come, and *)
(* from then on what has come and what the board has left are the reply.   *)
ReplyOf(c, a, j) == CASE c = REG  -> WordOf("reg", a, j)
                      [] c = HEAP -> WordOf("car", 0, j) \o WordOf("cdr", 0, j)
                      [] c = HP   -> WordOf("hp", 0, j)
                      [] OTHER    -> WordOf("err", 0, j)
Halting(j) == board = BoardAt("halt", j, board.buf, board.cmd, board.tx)
Question(c, a, j) ==
    /\ Halting(j) /\ board.tx = <<>> /\ input = <<>>
    /\ \/ c = REG /\ board.cmd = 0 /\ Two(REG, a)
       \/ c = REG /\ board.cmd = REG /\ One(a)
       \/ c \in {HP, ERR} /\ board.cmd = 0 /\ One(c)
       \/ c = HEAP /\ board.cmd = 0 /\ Three(HEAP, a, 0)
       \/ c = HEAP /\ board.cmd = HEAP /\ Two(a, 0)
       \/ c = HEAP /\ board.cmd = ARG2 /\ One(0)
Answered(w, j) ==
    /\ Halting(j) /\ board.buf = <<>> /\ board.cmd = 0 /\ line = <<>>
    /\ \E k \in 0 .. Len(w) : input = SubSeq(w, 1, k) /\ board.tx = SubSeq(w, k + 1, Len(w))
Exchange(c, a, j) == Question(c, a, j) \/ Answered(ReplyOf(c, a, j), j)
AtRest(j) == board = Halted(j) /\ line = <<>> /\ input = <<>>

(* The session of execute() and of monitor().                              *)
Mine(p, j)    == sess[p].op = "execute" /\ sess[p].loaded => j = sess[p].req.job
LoadOK(p)     == pc[p] = "halt_wait" /\ sess[p].loaded =>
                     FrameOnWay(sess[p].req) \/ RunsAlone(sess[p].req.job)
AskRegOK(p)   == pc[p] = "ask_reg" /\ sess[p].asked => \E j \in Jobs : AtRest(j) /\ Mine(p, j)
ReadRegOK(p)  == pc[p] = "read_reg" /\ sess[p].asked =>
                     \E j \in Jobs : Exchange(REG, sess[p].req.register, j) /\ Mine(p, j)
ReadErrOK(p)  == pc[p] = "read_err" /\ sess[p].asked =>
                     \E j \in Jobs : /\ Exchange(ERR, 0, j) /\ Mine(p, j)
                                     /\ sess[p].word = WordOf("reg", sess[p].req.register, j)
OutcomeOK(p)  == sess[p].op \in {"execute", "monitor"} /\ sess[p].asked /\ sess[p].result \in {"ok", "trapped"} =>
                     \E j \in Jobs : /\ Mine(p, j)
                                     /\ sess[p].word = WordOf("reg", sess[p].req.register, j)
                                     /\ sess[p].err = WordOf("err", 0, j)
                                     /\ sess[p].result = "ok" <=> j \notin Traps

(* monitor.py at its prompt, and the smoke driver.                         *)
PromptOK(p)  == QuestionsKnown /\ pc[p] = "prompt" /\ sess[p].asked => \E j \in Jobs : AtRest(j)
AnswerOK(p)  == QuestionsKnown /\ pc[p] = "answer" /\ sess[p].asked =>
                    \E j \in Jobs, q \in Questions : /\ talk[p].want = ReplyOf(q[1], q[2], j)
                                                     /\ Exchange(q[1], q[2], j)
Smoking(p)   == FramesFit /\ sess[p].loaded /\ sess[p].req.job \notin Talkers
PollOK(p)    == pc[p] = "poll" /\ Smoking(p) => FrameOnWay(sess[p].req) \/ Unpolled(sess[p].req.job)
PolledOK(p)  == pc[p] = "polled" /\ Smoking(p) =>
                    /\ talk[p].want = WordOf("reg", 0, sess[p].req.job)
                    /\ \/ FrameAndPoll(sess[p].req) /\ input = <<>>
                       \/ Unheard(sess[p].req.job)
                       \/ Exchange(REG, 0, sess[p].req.job)
DumpOK(p)    == pc[p] = "dump" /\ Smoking(p) => AtRest(sess[p].req.job)
DumpingOK(p) == pc[p] = "dumping" /\ Smoking(p) =>
                    \E c \in {REG, ERR}, a \in 0 .. talk[p].asked :
                       /\ talk[p].want = ReplyOf(c, a, sess[p].req.job)
                       /\ Exchange(c, a, sess[p].req.job)
ShownOK(p)   == QuestionsKnown /\ FramesFit /\ sess[p].word # NoWord /\ Trusted(p) =>
                    sess[p].word = talk[p].want

KnowsOK      == /\ pc = [q \in Process |-> pc[q]] /\ sess = [q \in Process |-> sess[q]]
                /\ talk = [q \in Process |-> talk[q]]
                /\ \A q \in Process : DOMAIN sess[q] = DOMAIN Idle /\ DOMAIN talk[q] = DOMAIN Silence
SessionOK(p) == LoadOK(p) /\ AskRegOK(p) /\ ReadRegOK(p) /\ ReadErrOK(p)
ToolOK(p)    == PromptOK(p) /\ AnswerOK(p) /\ PollOK(p) /\ PolledOK(p) /\ DumpOK(p) /\ DumpingOK(p)
FactsOf(p)   == PlaceOK(p) /\ SessionOK(p) /\ OutcomeOK(p) /\ ToolOK(p) /\ ShownOK(p)
HostInv      == KnowsOK /\ \A p \in Process : FactsOf(p)

-----------------------------------------------------------------------------
(* Replies, as sequences.                                                  *)
LEMMA RepliesAreWords ==
  ASSUME DriverHoldsReply, NEW c, NEW a, NEW j
  PROVE  /\ \E S : ReplyOf(c, a, j) \in Seq(S)
         /\ Len(ReplyOf(c, a, j)) \in 1 .. (2 * WordLen)
         /\ c # HEAP => Len(ReplyOf(c, a, j)) = WordLen
<1>1. WordLen \in Nat /\ WordLen > 0
  BY DEF DriverHoldsReply
<1>2. ASSUME NEW what, NEW n PROVE \E S : WordOf(what, n, j) \in Seq(S) /\ Len(WordOf(what, n, j)) = WordLen
  <2> DEFINE Part(k) == [what |-> what, n |-> n, job |-> j, k |-> k]
             Parts   == {Part(k) : k \in 1 .. WordLen}
  <2>1. WordOf(what, n, j) = [k \in 1 .. WordLen |-> Part(k)] /\ \A k \in 1 .. WordLen : Part(k) \in Parts
    BY DEF WordOf
  <2> HIDE DEF Part, Parts
  <2>2. WordOf(what, n, j) \in Seq(Parts) /\ Len(WordOf(what, n, j)) = WordLen
    BY <1>1, <2>1
  <2>3. QED
    BY <2>2
<1>3. CASE c = HEAP
  <2>1. PICK S : WordOf("car", 0, j) \in Seq(S) /\ Len(WordOf("car", 0, j)) = WordLen
    BY <1>2
  <2>2. PICK T : WordOf("cdr", 0, j) \in Seq(T) /\ Len(WordOf("cdr", 0, j)) = WordLen
    BY <1>2
  <2> DEFINE U == S \cup T
  <2>3. WordOf("car", 0, j) \in Seq(U) /\ WordOf("cdr", 0, j) \in Seq(U)
    BY <2>1, <2>2
  <2>4. ReplyOf(c, a, j) = WordOf("car", 0, j) \o WordOf("cdr", 0, j)
    BY <1>3 DEF ReplyOf, HEAP, REG, HP
  <2> HIDE DEF U
  <2>5. ReplyOf(c, a, j) \in Seq(U) /\ Len(ReplyOf(c, a, j)) = 2 * WordLen
    <3>1. \A v, x \in Seq(U) : v \o x \in Seq(U) /\ Len(v \o x) = Len(v) + Len(x)
      OBVIOUS
    <3>2. /\ ReplyOf(c, a, j) \in Seq(U)
          /\ Len(ReplyOf(c, a, j)) = Len(WordOf("car", 0, j)) + Len(WordOf("cdr", 0, j))
      BY <2>3, <2>4, <3>1
    <3>3. QED
      BY <1>1, <2>1, <2>2, <3>2
  <2>6. QED
    BY <1>1, <1>3, <2>5
<1>4. CASE c # HEAP
  <2>1. \E what, n : ReplyOf(c, a, j) = WordOf(what, n, j)
    BY <1>4 DEF ReplyOf
  <2>2. PICK S : ReplyOf(c, a, j) \in Seq(S) /\ Len(ReplyOf(c, a, j)) = WordLen
    BY <1>2, <2>1
  <2>3. QED
    BY <1>1, <1>4, <2>2
<1>5. QED
  BY <1>3, <1>4

(* What has come and what is left, before and after a byte.                *)
LEMMA ReplyMoves ==
  ASSUME NEW S, NEW w \in Seq(S), NEW k \in 0 .. Len(w)
  PROVE  /\ Len(SubSeq(w, 1, k)) = k
         /\ SubSeq(w, k + 1, Len(w)) # <<>> => k < Len(w)
         /\ k < Len(w) => /\ Append(SubSeq(w, 1, k), Head(SubSeq(w, k + 1, Len(w)))) = SubSeq(w, 1, k + 1)
                          /\ Tail(SubSeq(w, k + 1, Len(w))) = SubSeq(w, (k + 1) + 1, Len(w))
<1>1. Len(SubSeq(w, 1, k)) = k
  OBVIOUS
<1>2. SubSeq(w, k + 1, Len(w)) # <<>> => k < Len(w)
  OBVIOUS
<1>3. ASSUME k < Len(w)
      PROVE  /\ Append(SubSeq(w, 1, k), Head(SubSeq(w, k + 1, Len(w)))) = SubSeq(w, 1, k + 1)
             /\ Tail(SubSeq(w, k + 1, Len(w))) = SubSeq(w, (k + 1) + 1, Len(w))
  <2>1. Head(SubSeq(w, k + 1, Len(w))) = w[k + 1]
    BY <1>3
  <2>2. Append(SubSeq(w, 1, k), w[k + 1]) = SubSeq(w, 1, k + 1)
    BY <1>3
  <2>3. Tail(SubSeq(w, k + 1, Len(w))) = SubSeq(w, (k + 1) + 1, Len(w))
    BY <1>3
  <2>4. QED
    BY <2>1, <2>2, <2>3
<1>4. QED
  BY <1>1, <1>2, <1>3

LEMMA ReplyEnds ==
  ASSUME NEW S, NEW w \in Seq(S), Len(w) > 0
  PROVE  /\ SubSeq(w, 1, Len(w)) = w
         /\ SubSeq(w, 1, 0) = <<>> /\ SubSeq(w, 0 + 1, Len(w)) = w
         /\ SubSeq(w, Len(w) + 1, Len(w)) = <<>>
<1>1. SubSeq(w, 1, Len(w)) = w
  OBVIOUS
<1>2. SubSeq(w, 1, 0) = <<>> /\ SubSeq(w, Len(w) + 1, Len(w)) = <<>>
  OBVIOUS
<1>3. QED
  BY <1>1, <1>2

-----------------------------------------------------------------------------
(* The board's steps in the middle of an exchange.                         *)
LEMMA BytesAreItems ==
  /\ \A b : Byte(b).kind = "byte" /\ Byte(b).n = b
  /\ \A a : Head(<<a>>) = a /\ Tail(<<a>>) = <<>> /\ <<a>> # <<>>
  /\ \A a, b : Head(<<a, b>>) = a /\ Tail(<<a, b>>) = <<b>> /\ <<a, b>> # <<>>
  /\ \A a, b, c : Head(<<a, b, c>>) = a /\ Tail(<<a, b, c>>) = <<b, c>> /\ <<a, b, c>> # <<>>
  /\ \A a, b, c, d : Head(<<a, b, c, d>>) = a /\ Tail(<<a, b, c, d>>) = <<b, c, d>> /\ <<a, b, c, d>> # <<>>
BY DEF Byte

LEMMA HaltingBoard ==
  ASSUME NEW j, Halting(j), board.tx = <<>>
  PROVE  /\ board.mode = "halt"
         /\ \A b : [board EXCEPT !.buf = b] = BoardAt("halt", j, b, board.cmd, <<>>)
         /\ \A b, c : [board EXCEPT !.buf = b, !.cmd = c] = BoardAt("halt", j, b, c, <<>>)
         /\ \A w : Replying(w) = BoardAt("halt", j, <<>>, 0, w)
         /\ board.job = j
<1> DEFINE At0(b, c, t) == [mode |-> "halt", job |-> j, need |-> 0, buf |-> b, cmd |-> c, tx |-> t]
<1>1. \E b, c, t : board = At0(b, c, t)
  BY DEF Halting, BoardAt
<1>2. PICK b0, c0, t0 : board = At0(b0, c0, t0)
  BY <1>1
<1>3. board.mode = "halt" /\ board.job = j /\ board.cmd = c0 /\ t0 = <<>>
  BY <1>2
<1>4. \A b : [board EXCEPT !.buf = b] = At0(b, c0, <<>>)
  BY <1>2, <1>3
<1>5. ASSUME NEW b, NEW c PROVE [board EXCEPT !.buf = b, !.cmd = c] = At0(b, c, <<>>)
  <2>1. [At0(b0, c0, t0) EXCEPT !.buf = b] = At0(b, c0, t0) /\ [At0(b, c0, t0) EXCEPT !.cmd = c] = At0(b, c, t0)
    OBVIOUS
  <2>2. [board EXCEPT !.buf = b, !.cmd = c] = [[board EXCEPT !.buf = b] EXCEPT !.cmd = c]
    OBVIOUS
  <2>3. QED
    BY <1>2, <1>3, <2>1, <2>2
<1>6. ASSUME NEW w PROVE [board EXCEPT !.buf = <<>>, !.cmd = 0, !.tx = w] = At0(<<>>, 0, w)
  <2>1. /\ [At0(b0, c0, t0) EXCEPT !.buf = <<>>] = At0(<<>>, c0, t0)
        /\ [At0(<<>>, c0, t0) EXCEPT !.cmd = 0] = At0(<<>>, 0, t0)
        /\ [At0(<<>>, 0, t0) EXCEPT !.tx = w] = At0(<<>>, 0, w)
    OBVIOUS
  <2>2. [board EXCEPT !.buf = <<>>, !.cmd = 0, !.tx = w]
           = [[[board EXCEPT !.buf = <<>>] EXCEPT !.cmd = 0] EXCEPT !.tx = w]
    OBVIOUS
  <2>3. QED
    BY <1>2, <2>1, <2>2
<1>7. QED
  BY <1>3, <1>4, <1>5, <1>6 DEF BoardAt, Replying

(* Halted and silent, the board takes a byte when its buffer is free.      *)
LEMMA TakeWhenHalted ==
  ASSUME NEW j, Halting(j), board.tx = <<>>, Take, Item.kind = "byte"
  PROVE  /\ board.buf = <<>> /\ board' = BoardAt("halt", j, <<Item.n>>, board.cmd, <<>>)
         /\ line' = Tail(line) /\ input' = input
BY HaltingBoard DEF Take, TakeHeader, TakePayload, TakeAnything, TakeFrame, TakeByte

LEMMA TakeShifts ==
  ASSUME NEW j, Halting(j), board.tx = <<>>, Take, NEW a, NEW b, NEW c
  PROVE  /\ One(a) \/ Two(a, b) \/ Three(a, b, c)
             => board' = BoardAt("halt", j, board'.buf, board.cmd, <<>>) /\ input' = input
         /\ One(a) => One(a)'
         /\ Two(a, b) => Two(a, b)'
         /\ Three(a, b, c) => Three(a, b, c)'
<1>0. line # <<>>
  BY DEF Take
<1>1. ASSUME NEW x, board.buf = <<>>, line # <<>>, Item = Byte(x)
      PROVE  /\ board' = BoardAt("halt", j, <<x>>, board.cmd, <<>>) /\ board'.buf = <<x>>
             /\ line' = Tail(line) /\ input' = input
  BY <1>1, TakeWhenHalted, BytesAreItems DEF BoardAt
<1>2. ASSUME NEW x, board.buf = <<x>>, Item.kind = "byte" PROVE FALSE
  BY <1>2, TakeWhenHalted
<1>3. ASSUME One(a)
      PROVE  board' = BoardAt("halt", j, board'.buf, board.cmd, <<>>) /\ input' = input /\ One(a)'
  <2>1. board.buf = <<>> /\ line = <<Byte(a)>>
    BY <1>0, <1>3 DEF One
  <2>2. Item = Byte(a) /\ Tail(line) = <<>>
    BY <2>1, BytesAreItems DEF Item
  <2>3. QED
    BY <1>0, <1>1, <2>1, <2>2 DEF One
<1>4. ASSUME Two(a, b)
      PROVE  board' = BoardAt("halt", j, board'.buf, board.cmd, <<>>) /\ input' = input /\ Two(a, b)'
  <2>1. CASE board.buf = <<>> /\ line = <<Byte(a), Byte(b)>>
    <3>1. Item = Byte(a) /\ Tail(line) = <<Byte(b)>>
      BY <2>1, BytesAreItems DEF Item
    <3>2. QED
      BY <1>0, <1>1, <2>1, <3>1 DEF Two
  <2>2. CASE board.buf = <<a>> /\ line = <<Byte(b)>>
    BY <1>2, <2>2, BytesAreItems DEF Item
  <2>3. QED
    BY <1>4, <2>1, <2>2 DEF Two
<1>5. ASSUME Three(a, b, c)
      PROVE  board' = BoardAt("halt", j, board'.buf, board.cmd, <<>>) /\ input' = input /\ Three(a, b, c)'
  <2>1. CASE board.buf = <<>> /\ line = <<Byte(a), Byte(b), Byte(c)>>
    <3>1. Item = Byte(a) /\ Tail(line) = <<Byte(b), Byte(c)>>
      BY <2>1, BytesAreItems DEF Item
    <3>2. QED
      BY <1>0, <1>1, <2>1, <3>1 DEF Three
  <2>2. CASE board.buf = <<a>> /\ line = <<Byte(b), Byte(c)>>
    BY <1>2, <2>2, BytesAreItems DEF Item
  <2>3. QED
    BY <1>5, <2>1, <2>2 DEF Three
<1>6. QED
  BY <1>3, <1>4, <1>5

(* The monitor takes the byte in the buffer.                               *)
LEMMA MonitorTakes ==
  ASSUME NEW j, Halting(j), board.tx = <<>>, Monitor, NEW b, board.buf = <<b>>
  PROVE  /\ board' = IF board.cmd = 0 THEN CommandTo(b) ELSE ArgumentTo(b)
         /\ line' = line /\ input' = input
BY BytesAreItems DEF Monitor

LEMMA MonitorShifts ==
  ASSUME NEW j, Halting(j), board.tx = <<>>, Monitor, NEW a, NEW b, NEW c
  PROVE  /\ One(a) => board.buf = <<a>> /\ line' = <<>>
         /\ Two(a, b) => board.buf = <<a>> /\ (board'.buf = <<>> => One(b)')
         /\ Three(a, b, c) => board.buf = <<a>> /\ (board'.buf = <<>> => Two(b, c)')
BY DEF Monitor, One, Two, Three

LEMMA CommandNumbers ==
  /\ REG = 1 /\ HEAP = 2 /\ HP = 3 /\ ERR = 4 /\ ARG2 = 12 /\ REARM = 11 /\ PERF = 5 .. 10
BY DEF REG, HEAP, HP, ERR, ARG2, REARM, PERF

LEMMA CommandsTaken ==
  ASSUME NEW j, Halting(j), board.tx = <<>>
  PROVE  /\ CommandTo(REG) = BoardAt("halt", j, <<>>, REG, <<>>)
         /\ CommandTo(HEAP) = BoardAt("halt", j, <<>>, HEAP, <<>>)
         /\ CommandTo(HP) = BoardAt("halt", j, <<>>, 0, WordOf("hp", 0, j))
         /\ CommandTo(ERR) = BoardAt("halt", j, <<>>, 0, WordOf("err", 0, j))
         /\ CommandTo(0) = BoardAt("halt", j, <<>>, board.cmd, <<>>)
         /\ board.cmd = REG => \A b : ArgumentTo(b) = BoardAt("halt", j, <<>>, 0, WordOf("reg", b, j))
         /\ board.cmd = HEAP => \A b : ArgumentTo(b) = BoardAt("halt", j, <<>>, ARG2, <<>>)
         /\ board.cmd = ARG2 => \A b : ArgumentTo(b) = BoardAt("halt", j, <<>>, 0,
                                                                WordOf("car", b, j) \o WordOf("cdr", b, j))
<1>1. /\ \A b : [board EXCEPT !.buf = b] = BoardAt("halt", j, b, board.cmd, <<>>)
      /\ \A b, c : [board EXCEPT !.buf = b, !.cmd = c] = BoardAt("halt", j, b, c, <<>>)
      /\ \A w : Replying(w) = BoardAt("halt", j, <<>>, 0, w)
      /\ board.job = j
  BY HaltingBoard
<1>2. /\ CommandTo(REG) = [board EXCEPT !.buf = <<>>, !.cmd = REG]
      /\ CommandTo(HEAP) = [board EXCEPT !.buf = <<>>, !.cmd = HEAP]
      /\ CommandTo(HP) = Replying(WordOf("hp", 0, board.job))
      /\ CommandTo(ERR) = Replying(WordOf("err", 0, board.job))
      /\ CommandTo(0) = [board EXCEPT !.buf = <<>>]
  BY CommandNumbers DEF CommandTo
<1>3. /\ board.cmd = REG => \A b : ArgumentTo(b) = Replying(WordOf("reg", b, board.job))
      /\ board.cmd = HEAP => \A b : ArgumentTo(b) = [board EXCEPT !.buf = <<>>, !.cmd = ARG2]
      /\ board.cmd = ARG2 => \A b : ArgumentTo(b) = Replying(WordOf("car", b, board.job)
                                                             \o WordOf("cdr", b, board.job))
  BY CommandNumbers DEF ArgumentTo
<1>4. QED
  BY <1>1, <1>2, <1>3

LEMMA ReplyBegins ==
  ASSUME DriverHoldsReply, NEW c, NEW a, NEW j,
         board' = BoardAt("halt", j, <<>>, 0, ReplyOf(c, a, j)), line' = <<>>, input' = <<>>
  PROVE  Exchange(c, a, j)'
<1> DEFINE w == ReplyOf(c, a, j)
<1>1. PICK S : w \in Seq(S)
  BY RepliesAreWords
<1>2. Len(w) \in Nat /\ Len(w) > 0
  BY RepliesAreWords DEF DriverHoldsReply
<1>3. SubSeq(w, 1, 0) = <<>> /\ SubSeq(w, 0 + 1, Len(w)) = w /\ 0 \in 0 .. Len(w)
  BY <1>1, <1>2, ReplyEnds
<1>4. /\ board'.buf = <<>> /\ board'.cmd = 0 /\ board'.tx = w
      /\ board' = BoardAt("halt", j, board'.buf, board'.cmd, board'.tx)
  BY DEF BoardAt
<1> HIDE DEF w
<1>5. Answered(w, j)'
  BY <1>3, <1>4 DEF Answered, Halting
<1>6. QED
  BY <1>5 DEF Exchange, w

LEMMA QuestionTaken ==
  ASSUME NEW c, NEW a, NEW j, Question(c, a, j), Take
  PROVE  Exchange(c, a, j)'
<1>1. /\ Halting(j) /\ board.tx = <<>> /\ input = <<>>
      /\ \/ c = REG /\ board.cmd = 0 /\ Two(REG, a)
         \/ c = REG /\ board.cmd = REG /\ One(a)
         \/ c \in {HP, ERR} /\ board.cmd = 0 /\ One(c)
         \/ c = HEAP /\ board.cmd = 0 /\ Three(HEAP, a, 0)
         \/ c = HEAP /\ board.cmd = HEAP /\ Two(a, 0)
         \/ c = HEAP /\ board.cmd = ARG2 /\ One(0)
  BY DEF Question
<1>2. ASSUME board' = BoardAt("halt", j, board'.buf, board.cmd, <<>>), input' = input
      PROVE  Halting(j)' /\ board'.tx = <<>> /\ input' = <<>> /\ board'.cmd = board.cmd
  BY <1>1, <1>2 DEF BoardAt, Halting
<1>3. CASE c = REG /\ board.cmd = 0 /\ Two(REG, a)
  BY <1>1, <1>2, <1>3, TakeShifts DEF Question, Exchange
<1>4. CASE c = REG /\ board.cmd = REG /\ One(a)
  BY <1>1, <1>2, <1>4, TakeShifts DEF Question, Exchange
<1>5. CASE c \in {HP, ERR} /\ board.cmd = 0 /\ One(c)
  BY <1>1, <1>2, <1>5, TakeShifts DEF Question, Exchange
<1>6. CASE c = HEAP /\ board.cmd = 0 /\ Three(HEAP, a, 0)
  BY <1>1, <1>2, <1>6, TakeShifts DEF Question, Exchange
<1>7. CASE c = HEAP /\ board.cmd = HEAP /\ Two(a, 0)
  BY <1>1, <1>2, <1>7, TakeShifts DEF Question, Exchange
<1>8. CASE c = HEAP /\ board.cmd = ARG2 /\ One(0)
  BY <1>1, <1>2, <1>8, TakeShifts DEF Question, Exchange
<1>9. QED
  BY <1>1, <1>3, <1>4, <1>5, <1>6, <1>7, <1>8

LEMMA QuestionAnswered ==
  ASSUME DriverHoldsReply, NEW c, NEW a, NEW j, Question(c, a, j), Monitor
  PROVE  Exchange(c, a, j)'
<1>1. Halting(j) /\ board.tx = <<>> /\ input = <<>>
  BY DEF Question
<1>2. ASSUME NEW d, board' = BoardAt("halt", j, <<>>, d, <<>>), input' = input
      PROVE  Halting(j)' /\ board'.tx = <<>> /\ input' = <<>> /\ board'.cmd = d /\ board'.buf = <<>>
  BY <1>1, <1>2 DEF BoardAt, Halting
<1>3. CASE c = REG /\ board.cmd = 0 /\ Two(REG, a)
  <2>1. board.buf = <<REG>> /\ (board'.buf = <<>> => One(a)')
    BY <1>1, <1>3, MonitorShifts
  <2>2. board' = BoardAt("halt", j, <<>>, REG, <<>>) /\ input' = input
    BY <1>1, <1>3, <2>1, MonitorTakes, CommandsTaken
  <2>3. QED
    BY <1>2, <1>3, <2>1, <2>2 DEF Question, Exchange
<1>4. CASE c = REG /\ board.cmd = REG /\ One(a)
  <2>1. board.buf = <<a>> /\ line' = <<>>
    BY <1>1, <1>4, MonitorShifts
  <2>2. board' = BoardAt("halt", j, <<>>, 0, WordOf("reg", a, j)) /\ input' = input
    BY <1>1, <1>4, <2>1, MonitorTakes, CommandsTaken, CommandNumbers
  <2>3. ReplyOf(c, a, j) = WordOf("reg", a, j)
    BY <1>4, CommandNumbers DEF ReplyOf
  <2>4. QED
    BY <1>1, <2>1, <2>2, <2>3, ReplyBegins
<1>5. CASE c \in {HP, ERR} /\ board.cmd = 0 /\ One(c)
  <2>1. board.buf = <<c>> /\ line' = <<>>
    BY <1>1, <1>5, MonitorShifts
  <2>2. board' = CommandTo(c) /\ input' = input
    BY <1>1, <1>5, <2>1, MonitorTakes
  <2>3. ReplyOf(c, a, j) = IF c = HP THEN WordOf("hp", 0, j) ELSE WordOf("err", 0, j)
    BY <1>5, CommandNumbers DEF ReplyOf
  <2>4. board' = BoardAt("halt", j, <<>>, 0, ReplyOf(c, a, j))
    BY <1>1, <1>5, <2>2, <2>3, CommandsTaken, CommandNumbers
  <2>5. QED
    BY <1>1, <2>1, <2>2, <2>4, ReplyBegins
<1>6. CASE c = HEAP /\ board.cmd = 0 /\ Three(HEAP, a, 0)
  <2>1. board.buf = <<HEAP>> /\ (board'.buf = <<>> => Two(a, 0)')
    BY <1>1, <1>6, MonitorShifts
  <2>2. board' = BoardAt("halt", j, <<>>, HEAP, <<>>) /\ input' = input
    BY <1>1, <1>6, <2>1, MonitorTakes, CommandsTaken
  <2>3. QED
    BY <1>2, <1>6, <2>1, <2>2 DEF Question, Exchange
<1>7. CASE c = HEAP /\ board.cmd = HEAP /\ Two(a, 0)
  <2>1. board.buf = <<a>> /\ (board'.buf = <<>> => One(0)')
    BY <1>1, <1>7, MonitorShifts
  <2>2. board' = BoardAt("halt", j, <<>>, ARG2, <<>>) /\ input' = input
    BY <1>1, <1>7, <2>1, MonitorTakes, CommandsTaken, CommandNumbers
  <2>3. QED
    BY <1>2, <1>7, <2>1, <2>2 DEF Question, Exchange
<1>8. CASE c = HEAP /\ board.cmd = ARG2 /\ One(0)
  <2>1. board.buf = <<0>> /\ line' = <<>>
    BY <1>1, <1>8, MonitorShifts
  <2>2. board' = BoardAt("halt", j, <<>>, 0, WordOf("car", 0, j) \o WordOf("cdr", 0, j)) /\ input' = input
    BY <1>1, <1>8, <2>1, MonitorTakes, CommandsTaken, CommandNumbers
  <2>3. ReplyOf(c, a, j) = WordOf("car", 0, j) \o WordOf("cdr", 0, j)
    BY <1>8, CommandNumbers DEF ReplyOf
  <2>4. QED
    BY <1>1, <2>1, <2>2, <2>3, ReplyBegins
<1>9. QED
  BY <1>3, <1>4, <1>5, <1>6, <1>7, <1>8 DEF Question

LEMMA ReplySent ==
  ASSUME DriverHoldsReply, NEW c, NEW a, NEW j, Answered(ReplyOf(c, a, j), j), Send, port # Nobody
  PROVE  Exchange(c, a, j)'
<1> DEFINE w == ReplyOf(c, a, j)
<1>1. PICK S : w \in Seq(S)
  BY RepliesAreWords
<1>2. Len(w) \in Nat /\ Len(w) <= MaxInput /\ MaxInput \in Nat
  BY RepliesAreWords DEF DriverHoldsReply
<1> HIDE DEF w
<1>3. /\ Halting(j) /\ board.buf = <<>> /\ board.cmd = 0 /\ line = <<>>
      /\ \E k \in 0 .. Len(w) : input = SubSeq(w, 1, k) /\ board.tx = SubSeq(w, k + 1, Len(w))
  BY DEF Answered, w
<1>4. PICK k \in 0 .. Len(w) : input = SubSeq(w, 1, k) /\ board.tx = SubSeq(w, k + 1, Len(w))
  BY <1>3
<1>5. k < Len(w) /\ k + 1 \in 0 .. Len(w) /\ Len(input) = k
  BY <1>1, <1>2, <1>4, ReplyMoves DEF Send
<1>6. /\ Append(input, Head(board.tx)) = SubSeq(w, 1, k + 1)
      /\ Tail(board.tx) = SubSeq(w, (k + 1) + 1, Len(w))
  BY <1>1, <1>4, <1>5, ReplyMoves
<1>7. input' = SubSeq(w, 1, k + 1) /\ line' = <<>>
  <2>1. Len(input) # MaxInput
    BY <1>2, <1>5
  <2>2. input' = Append(input, Head(board.tx)) /\ line' = line
    BY <2>1 DEF Send
  <2>3. QED
    BY <1>3, <1>6, <2>2
<1>8. board' = BoardAt("halt", j, <<>>, 0, SubSeq(w, (k + 1) + 1, Len(w)))
  <2>1. board = BoardAt("halt", j, <<>>, 0, board.tx)
    BY <1>3 DEF Halting
  <2>2. board' = [board EXCEPT !.tx = SubSeq(w, (k + 1) + 1, Len(w))]
    BY <1>6 DEF Send
  <2>3. \A t, u : [BoardAt("halt", j, <<>>, 0, t) EXCEPT !.tx = u] = BoardAt("halt", j, <<>>, 0, u)
    BY DEF BoardAt
  <2>4. QED
    BY <2>1, <2>2, <2>3
<1>9. Answered(w, j)'
  BY <1>5, <1>7, <1>8 DEF Answered, Halting, BoardAt
<1>10. QED
  BY <1>9 DEF Exchange, w

(* A question that is alone with the board gets its own reply.             *)
LEMMA ExchangeGoesOn ==
  ASSUME DriverHoldsReply, NEW c, NEW a, NEW j, Exchange(c, a, j), BoardStep, port # Nobody
  PROVE  Exchange(c, a, j)'
<1>1. CASE Question(c, a, j)
  <2>1. board.mode = "halt" /\ board.tx = <<>>
    BY <1>1, HaltingBoard DEF Question
  <2>2. Take \/ Monitor
    BY <2>1 DEF BoardStep, Program, ProgramIn, ProgramOut, ProgramHalt, Send
  <2>3. QED
    BY <1>1, <2>2, QuestionTaken, QuestionAnswered
<1>2. CASE Answered(ReplyOf(c, a, j), j)
  <2>1. board.mode = "halt" /\ board.buf = <<>> /\ line = <<>>
    BY <1>2 DEF Answered, Halting, BoardAt
  <2>2. Send
    BY <2>1 DEF BoardStep, Program, ProgramIn, ProgramOut, ProgramHalt, Take, Monitor
  <2>3. QED
    BY <1>2, <2>2, ReplySent
<1>3. QED
  BY <1>1, <1>2 DEF Exchange

(* Nothing to take, to send or to run: nothing happens.                    *)
LEMMA RestIsRest ==
  ASSUME NEW j, AtRest(j)
  PROVE  ~BoardStep
BY DEF AtRest, Halted, Fresh, Waiting, BoardStep, Take, Program, ProgramIn, ProgramOut, ProgramHalt, Monitor, Send

-----------------------------------------------------------------------------
(* The board's steps while a frame comes and its program runs.             *)
LEMMA FrameItems ==
  ASSUME NEW q
  PROVE  /\ HeaderOf(q).kind = "header" /\ HeaderOf(q).n = Announced(q) /\ HeaderOf(q).job = q.job
         /\ PayloadOf(q).kind = "payload" /\ PayloadOf(q).n = q.size
BY DEF HeaderOf, PayloadOf, Header, Payload

LEMMA BoardParts ==
  ASSUME NEW m, NEW j, NEW b, NEW c, NEW t
  PROVE  /\ BoardAt(m, j, b, c, t).mode = m /\ BoardAt(m, j, b, c, t).job = j /\ BoardAt(m, j, b, c, t).buf = b
         /\ BoardAt(m, j, b, c, t).cmd = c /\ BoardAt(m, j, b, c, t).tx = t
         /\ \A x : /\ [BoardAt(m, j, b, c, t) EXCEPT !.mode = x] = BoardAt(x, j, b, c, t)
                   /\ [BoardAt(m, j, b, c, t) EXCEPT !.buf = x] = BoardAt(m, j, x, c, t)
                   /\ [BoardAt(m, j, b, c, t) EXCEPT !.tx = x] = BoardAt(m, j, b, c, x)
BY DEF BoardAt

LEMMA HaltedIsHalt ==
  ASSUME NEW j
  PROVE  Halted(j) = BoardAt("halt", j, <<>>, 0, <<>>) /\ Running(j) = BoardAt("run", j, <<>>, 0, <<>>)
<1>1. ASSUME NEW m PROVE [Fresh EXCEPT !.mode = m, !.job = j] = BoardAt(m, j, <<>>, 0, <<>>)
  <2>1. Fresh = BoardAt("boot", Junk, <<>>, 0, <<>>)
    BY DEF Fresh, Waiting, BoardAt
  <2>2. [Fresh EXCEPT !.mode = m, !.job = j] = [[Fresh EXCEPT !.mode = m] EXCEPT !.job = j]
    OBVIOUS
  <2>3. [BoardAt(m, Junk, <<>>, 0, <<>>) EXCEPT !.job = j] = BoardAt(m, j, <<>>, 0, <<>>)
    BY DEF BoardAt
  <2>4. [Fresh EXCEPT !.mode = m] = BoardAt(m, Junk, <<>>, 0, <<>>)
    BY <2>1, BoardParts
  <2>5. QED
    BY <2>2, <2>3, <2>4
<1>2. QED
  BY <1>1 DEF Halted, Running

LEMMA HeaderTaken ==
  ASSUME NEW q, board = Fresh, line # <<>>, Head(line) = HeaderOf(q), BoardStep
  PROVE  board' = LoadingOf(q) /\ line' = Tail(line) /\ input' = input
<1>1. board.mode = "boot" /\ board.tx = <<>>
  BY DEF Fresh, Waiting
<1>2. Take /\ TakeHeader
  BY <1>1 DEF BoardStep, Program, ProgramIn, ProgramOut, ProgramHalt, Monitor, Send, Take, TakePayload,
              TakeAnything, TakeByte, TakeFrame
<1>3. Item.kind = "header" /\ Item.job = q.job /\ Item.n = Announced(q)
  BY FrameItems DEF Item
<1>4. board' = LoadingOf(q)
  BY <1>2, <1>3 DEF TakeHeader, LoadingOf
<1>5. QED
  BY <1>2, <1>4 DEF Take

LEMMA PayloadTaken ==
  ASSUME NEW q, Fitting(q), board = LoadingOf(q), line # <<>>, Head(line) = PayloadOf(q), BoardStep
  PROVE  board' = BoardAt("run", q.job, <<>>, 0, <<>>) /\ line' = Tail(line) /\ input' = input
<1>1. board.mode = "load" /\ board.tx = <<>> /\ board.need = Announced(q) /\ board.job = q.job
  BY DEF LoadingOf, Fresh, Waiting
<1>2. Take /\ TakePayload
  BY <1>1 DEF BoardStep, Program, ProgramIn, ProgramOut, ProgramHalt, Monitor, Send, Take, TakeHeader,
              TakeAnything, TakeByte, TakeFrame
<1>3. ~(Item.kind # "payload" \/ Item.n < board.need) /\ ~(Item.n > board.need)
  <2>1. Item.kind = "payload" /\ Item.n = board.need /\ board.need \in Nat
    BY <1>1, FrameItems DEF Item, Fitting
  <2>2. QED
    BY <2>1
<1>4. board' = [Running(board.job) EXCEPT !.buf = <<>>]
  BY <1>2, <1>3 DEF TakePayload
<1>5. [Running(q.job) EXCEPT !.buf = <<>>] = BoardAt("run", q.job, <<>>, 0, <<>>)
  BY HaltedIsHalt, BoardParts
<1>6. QED
  BY <1>1, <1>2, <1>4, <1>5 DEF Take

(* With nothing on the line a program prints and halts, no more.           *)
LEMMA ProgramGoesOn ==
  ASSUME NEW j, RunsAlone(j), BoardStep
  PROVE  RunsAlone(j)'
<1>1. line = <<>> /\ ~Take
  BY DEF RunsAlone, Take
<1>2. CASE board = BoardAt("run", j, <<>>, 0, <<>>)
  <2>1. board.mode = "run" /\ board.buf = <<>> /\ board.tx = <<>> /\ board.job = j
    BY <1>2, BoardParts
  <2>2. line' = line /\ (ProgramOut \/ ProgramHalt)
    BY <1>1, <2>1 DEF BoardStep, Program, ProgramIn, Monitor, Send
  <2>3. \/ board' = BoardAt("run", j, <<>>, 0, Output(j)) /\ j \in Talkers
        \/ board' = BoardAt("halt", j, <<>>, 0, <<>>)
    BY <1>2, <2>1, <2>2, BoardParts DEF ProgramOut, ProgramHalt
  <2>4. QED
    BY <1>1, <2>2, <2>3, HaltedIsHalt DEF RunsAlone
<1>3. CASE board = BoardAt("run", j, <<>>, 0, Output(j)) /\ j \in Talkers
  <2>1. board.mode = "run" /\ board.buf = <<>> /\ board.tx = Output(j) /\ Output(j) # <<>> /\ Tail(Output(j)) = <<>>
    BY <1>3, BoardParts, BytesAreItems DEF Output
  <2>2. Send
    BY <1>1, <2>1 DEF BoardStep, Program, ProgramIn, ProgramOut, ProgramHalt, Monitor
  <2>3. board' = [board EXCEPT !.tx = <<>>] /\ line' = line
    BY <2>1, <2>2 DEF Send
  <2>4. board' = BoardAt("run", j, <<>>, 0, <<>>)
    BY <1>3, <2>3, BoardParts
  <2>5. QED
    BY <1>1, <2>3, <2>4 DEF RunsAlone
<1>4. CASE board = Halted(j)
  <2>1. board.mode = "halt" /\ board.buf = <<>> /\ board.tx = <<>>
    BY <1>4, BoardParts, HaltedIsHalt
  <2>2. FALSE
    BY <1>1, <2>1 DEF BoardStep, Program, ProgramIn, ProgramOut, ProgramHalt, Monitor, Send
  <2>3. QED
    BY <2>2
<1>5. QED
  BY <1>2, <1>3, <1>4 DEF RunsAlone

(* The last byte of a frame starts its program.                            *)
LEMMA FrameGoesOn ==
  ASSUME NEW q, Fitting(q), FrameOnWay(q), BoardStep
  PROVE  FrameOnWay(q)' \/ (board' = BoardAt("run", q.job, <<>>, 0, <<>>) /\ line' = <<>>)
<1>1. CASE board = Fresh /\ line = <<HeaderOf(q), PayloadOf(q)>>
  BY <1>1, HeaderTaken, BytesAreItems DEF FrameOnWay
<1>2. CASE board = LoadingOf(q) /\ line = <<PayloadOf(q)>>
  BY <1>2, PayloadTaken, BytesAreItems
<1>3. QED
  BY <1>1, <1>2 DEF FrameOnWay

LEMMA FramePollGoesOn ==
  ASSUME NEW q, Fitting(q), FrameAndPoll(q), BoardStep, input = <<>>
  PROVE  (FrameAndPoll(q)' /\ input' = <<>>) \/ Unheard(q.job)'
<1>1. CASE board = Fresh /\ line = <<HeaderOf(q), PayloadOf(q), Byte(REG), Byte(0)>>
  BY <1>1, HeaderTaken, BytesAreItems DEF FrameAndPoll
<1>2. CASE board = LoadingOf(q) /\ line = <<PayloadOf(q), Byte(REG), Byte(0)>>
  <2>1. /\ board' = BoardAt("run", q.job, <<>>, 0, <<>>) /\ line' = <<Byte(REG), Byte(0)>> /\ input' = <<>>
    BY <1>2, PayloadTaken, BytesAreItems
  <2>2. board'.buf = <<>>
    BY <2>1, BoardParts
  <2>3. QED
    BY <2>1, <2>2 DEF Unheard
<1>3. QED
  BY <1>1, <1>2 DEF FrameAndPoll

(* A silent program, or the monitor, with a byte or none in the buffer.    *)
LEMMA SilentStep ==
  ASSUME NEW j, j \notin Talkers, NEW m \in {"run", "halt"}, NEW b, board = BoardAt(m, j, b, 0, <<>>),
         BoardStep, line # <<>> => Head(line).kind = "byte"
  PROVE  /\ input' = input
         /\ \/ /\ line # <<>> /\ (m = "run" \/ b = <<>>)
               /\ board' = BoardAt(m, j, <<Head(line).n>>, 0, <<>>) /\ line' = Tail(line)
            \/ line' = line /\ board' \in {BoardAt(m, j, <<>>, 0, <<>>), BoardAt("halt", j, b, 0, <<>>)}
                            /\ m = "run"
            \/ line' = line /\ m = "halt" /\ b # <<>> /\ board' = CommandTo(Head(b))
<1>1. board.mode = m /\ board.buf = b /\ board.cmd = 0 /\ board.tx = <<>> /\ board.job = j
  BY BoardParts
<1>2. CASE Take
  <2>1. TakeByte
    BY <1>1, <1>2 DEF Take, TakeHeader, TakePayload, TakeAnything, TakeFrame, Item
  <2>2. board' = [board EXCEPT !.buf = <<Head(line).n>>] /\ (m = "run" \/ b = <<>>)
    BY <1>1, <2>1 DEF TakeByte, Item
  <2>3. board' = BoardAt(m, j, <<Head(line).n>>, 0, <<>>)
    BY <2>2, BoardParts
  <2>4. QED
    BY <1>2, <2>2, <2>3 DEF Take
<1>3. CASE Program
  <2>1. m = "run" /\ input' = input /\ line' = line
    BY <1>1, <1>3 DEF Program, ProgramIn, ProgramOut, ProgramHalt
  <2>2. board' = [board EXCEPT !.buf = <<>>] \/ board' = [board EXCEPT !.mode = "halt"]
    BY <1>1, <1>3 DEF Program, ProgramIn, ProgramOut, ProgramHalt
  <2>3. QED
    BY <2>1, <2>2, BoardParts
<1>4. CASE Monitor
  BY <1>1, <1>4 DEF Monitor
<1>5. CASE Send
  BY <1>1, <1>5 DEF Send
<1>6. QED
  BY <1>2, <1>3, <1>4, <1>5 DEF BoardStep

LEMMA SilentBoard ==
  ASSUME NEW j, NEW b, board = BoardAt("halt", j, b, 0, <<>>)
  PROVE  /\ CommandTo(0) = BoardAt("halt", j, <<>>, 0, <<>>)
         /\ CommandTo(REG) = BoardAt("halt", j, <<>>, REG, <<>>)
<1>1. Halting(j) /\ board.tx = <<>> /\ board.cmd = 0
  BY BoardParts DEF Halting
<1>2. QED
  BY <1>1, CommandsTaken

LEMMA UnpolledGoesOn ==
  ASSUME NEW j, j \notin Talkers, Unpolled(j), BoardStep
  PROVE  Unpolled(j)'
<1>1. line = <<>> /\ board.buf \in {<<>>, <<0>>}
  BY DEF Unpolled
<1>2. PICK m \in {"run", "halt"} : board = BoardAt(m, j, board.buf, 0, <<>>)
  BY DEF Unpolled
<1>3. PICK b \in {<<>>, <<0>>} : board = BoardAt(m, j, b, 0, <<>>)
  BY <1>1, <1>2
<1>4. /\ line' = <<>>
      /\ \/ m = "run" /\ board' \in {BoardAt(m, j, <<>>, 0, <<>>), BoardAt("halt", j, b, 0, <<>>)}
         \/ m = "halt" /\ b = <<0>> /\ board' = CommandTo(0)
  BY <1>1, <1>3, SilentStep, BytesAreItems
<1>5. \E x \in {"run", "halt"}, d \in {<<>>, <<0>>} : board' = BoardAt(x, j, d, 0, <<>>)
  BY <1>3, <1>4, SilentBoard
<1>6. PICK x \in {"run", "halt"}, d \in {<<>>, <<0>>} : board' = BoardAt(x, j, d, 0, <<>>)
  BY <1>5
<1>7. board'.buf = d
  BY <1>6, BoardParts
<1>8. QED
  BY <1>4, <1>6, <1>7 DEF Unpolled

LEMMA UnheardGoesOn ==
  ASSUME NEW j, j \notin Talkers, Unheard(j), BoardStep
  PROVE  Unheard(j)' \/ Exchange(REG, 0, j)'
<1>1. /\ input = <<>>
      /\ \/ line = <<Byte(REG), Byte(0)>> /\ board.buf \in {<<>>, <<0>>}
         \/ line = <<Byte(0)>> /\ board.buf \in {<<>>, <<REG>>}
         \/ line = <<>> /\ board.buf \in {<<>>, <<0>>}
  BY DEF Unheard
<1>2. PICK m \in {"run", "halt"} : board = BoardAt(m, j, board.buf, 0, <<>>)
  BY DEF Unheard
<1>3. PICK b : b = board.buf
  OBVIOUS
<1>4. board = BoardAt(m, j, b, 0, <<>>)
  BY <1>2, <1>3
<1>5. line # <<>> => Head(line).kind = "byte"
  BY <1>1, BytesAreItems
<1>6. /\ input' = <<>>
      /\ \/ /\ line # <<>> /\ (m = "run" \/ b = <<>>)
            /\ board' = BoardAt(m, j, <<Head(line).n>>, 0, <<>>) /\ line' = Tail(line)
         \/ line' = line /\ board' \in {BoardAt(m, j, <<>>, 0, <<>>), BoardAt("halt", j, b, 0, <<>>)}
                         /\ m = "run"
         \/ line' = line /\ m = "halt" /\ b # <<>> /\ board' = CommandTo(Head(b))
  BY <1>1, <1>4, <1>5, SilentStep
<1>7. ASSUME NEW x \in {"run", "halt"}, NEW d, board' = BoardAt(x, j, d, 0, <<>>),
             \/ line' = <<Byte(REG), Byte(0)>> /\ d \in {<<>>, << 0 >>}
             \/ line' = <<Byte(0)>> /\ d \in {<<>>, <<REG>>}
             \/ line' = <<>> /\ d \in {<<>>, << 0 >>}
      PROVE  Unheard(j)'
  <2>1. board'.buf = d
    BY <1>7, BoardParts
  <2>2. QED
    BY <1>6, <1>7, <2>1 DEF Unheard
<1>8. CASE line # <<>> /\ (m = "run" \/ b = <<>>) /\ board' = BoardAt(m, j, <<Head(line).n>>, 0, <<>>)
           /\ line' = Tail(line)
  <2>1. CASE line = <<Byte(REG), Byte(0)>>
    BY <1>7, <1>8, <2>1, BytesAreItems
  <2>2. CASE line = <<Byte(0)>>
    BY <1>7, <1>8, <2>2, BytesAreItems
  <2>3. QED
    BY <1>1, <1>8, <2>1, <2>2
<1>9. CASE line' = line /\ board' \in {BoardAt(m, j, <<>>, 0, <<>>), BoardAt("halt", j, b, 0, <<>>)}
  BY <1>1, <1>3, <1>7, <1>9
<1>10. CASE line' = line /\ m = "halt" /\ b # <<>> /\ board' = CommandTo(Head(b))
  <2>1. CASE b = <<0>>
    <3>1. board' = BoardAt("halt", j, <<>>, 0, <<>>)
      BY <1>4, <1>10, <2>1, SilentBoard, BytesAreItems
    <3>2. QED
      BY <1>1, <1>7, <1>10, <3>1
  <2>2. CASE b = <<REG>> /\ line = <<Byte(0)>>
    <3>1. board' = BoardAt("halt", j, <<>>, REG, <<>>)
      BY <1>4, <1>10, <2>2, SilentBoard, BytesAreItems
    <3>2. board'.buf = <<>> /\ board'.cmd = REG /\ board'.tx = <<>>
      BY <3>1, BoardParts
    <3>3. Question(REG, 0, j)'
      BY <1>6, <1>10, <2>2, <3>1, <3>2 DEF Question, Halting, One
    <3>4. QED
      BY <3>3 DEF Exchange
  <2>3. QED
    BY <1>1, <1>3, <1>10, <2>1, <2>2
<1>11. QED
  BY <1>6, <1>8, <1>9, <1>10

-----------------------------------------------------------------------------
(* A process whose exchange nobody touches, or that has none.              *)
LEMMA BoardKept ==
  ASSUME board' = board, line' = line, input' = input
  PROVE  /\ \A q : FrameOnWay(q) => FrameOnWay(q)'
         /\ \A q : FrameAndPoll(q) => FrameAndPoll(q)'
         /\ \A j : RunsAlone(j) => RunsAlone(j)'
         /\ \A j : Unpolled(j) => Unpolled(j)'
         /\ \A j : Unheard(j) => Unheard(j)'
         /\ \A j : AtRest(j) => AtRest(j)'
         /\ \A c, a, j : Exchange(c, a, j) => Exchange(c, a, j)'
<1>1. \A q : (FrameOnWay(q) => FrameOnWay(q)') /\ (FrameAndPoll(q) => FrameAndPoll(q)')
  BY DEF FrameOnWay, FrameAndPoll
<1>2. \A j : (RunsAlone(j) => RunsAlone(j)') /\ (AtRest(j) => AtRest(j)')
  BY DEF RunsAlone, AtRest
<1>3. \A j : (Unpolled(j) => Unpolled(j)') /\ (Unheard(j) => Unheard(j)')
  BY DEF Unpolled, Unheard
<1>4. \A a, b, c : (One(a) => One(a)') /\ (Two(a, b) => Two(a, b)') /\ (Three(a, b, c) => Three(a, b, c)')
  BY DEF One, Two, Three
<1>5. \A c, a, j : (Question(c, a, j) => Question(c, a, j)') /\ (\A w : Answered(w, j) => Answered(w, j)')
  <2>1. \A j : Halting(j) => Halting(j)'
    BY DEF Halting
  <2>2. \A c, a, j : Question(c, a, j) => Question(c, a, j)'
    BY <1>4, <2>1 DEF Question
  <2>3. \A w, j : Answered(w, j) => Answered(w, j)'
    BY <2>1 DEF Answered
  <2>4. QED
    BY <2>2, <2>3
<1>6. \A c, a, j : Exchange(c, a, j) => Exchange(c, a, j)'
  BY <1>5 DEF Exchange
<1>7. QED
  BY <1>1, <1>2, <1>3, <1>6

(* The parts of the facts about a process that no board step touches.      *)
LEMMA PlaceKept ==
  ASSUME NEW p \in Process, PlaceOK(p), pc'[p] = pc[p], sess'[p] = sess[p], talk'[p] = talk[p],
         pc[p] \in Owning => port' = port
  PROVE  PlaceOK(p)'
BY DEF PlaceOK

LEMMA OutcomeKept ==
  ASSUME NEW p \in Process, OutcomeOK(p), sess'[p] = sess[p]
  PROVE  OutcomeOK(p)'
BY DEF OutcomeOK, Mine

LEMMA ShownKept ==
  ASSUME NEW p \in Process, ShownOK(p), sess'[p] = sess[p], talk'[p] = talk[p]
  PROVE  ShownOK(p)'
BY DEF ShownOK, Trusted

OwnPlaces ==
  {"halt_wait", "ask_reg", "read_reg", "read_err", "prompt", "answer", "poll", "polled", "dump", "dumping"}

LEMMA OwnPlacesOwn == OwnPlaces \subseteq Owning
BY DEF OwnPlaces, Owning, Holding

LEMMA SessionKept ==
  ASSUME NEW p \in Process, SessionOK(p), pc'[p] = pc[p], sess'[p] = sess[p],
         board' = board, line' = line, input' = input
  PROVE  SessionOK(p)'
<1>1. LoadOK(p)'
  BY BoardKept DEF SessionOK, LoadOK
<1>2. AskRegOK(p)'
  BY BoardKept DEF SessionOK, AskRegOK, Mine
<1>3. ReadRegOK(p)'
  BY BoardKept DEF SessionOK, ReadRegOK, Mine
<1>4. ReadErrOK(p)'
  BY BoardKept DEF SessionOK, ReadErrOK, Mine
<1>5. QED
  BY <1>1, <1>2, <1>3, <1>4 DEF SessionOK

LEMMA ToolKept ==
  ASSUME NEW p \in Process, ToolOK(p), pc'[p] = pc[p], sess'[p] = sess[p], talk'[p] = talk[p],
         board' = board, line' = line, input' = input
  PROVE  ToolOK(p)'
<1>0. Smoking(p)' <=> Smoking(p)
  BY DEF Smoking
<1>1. PromptOK(p)'
  BY BoardKept DEF ToolOK, PromptOK
<1>2. AnswerOK(p)'
  BY BoardKept DEF ToolOK, AnswerOK
<1>3. PollOK(p)'
  BY <1>0, BoardKept DEF ToolOK, PollOK
<1>4. PolledOK(p)'
  BY <1>0, BoardKept DEF ToolOK, PolledOK
<1>5. DumpOK(p)'
  BY <1>0, BoardKept DEF ToolOK, DumpOK
<1>6. DumpingOK(p)'
  BY <1>0, BoardKept DEF ToolOK, DumpingOK
<1>7. QED
  BY <1>1, <1>2, <1>3, <1>4, <1>5, <1>6 DEF ToolOK

LEMMA OthersKept ==
  ASSUME NEW p \in Process, FactsOf(p), pc'[p] = pc[p], sess'[p] = sess[p], talk'[p] = talk[p],
         pc[p] \in Owning => UNCHANGED <<board, line, input, port>>
  PROVE  FactsOf(p)'
<1>1. PlaceOK(p)' /\ OutcomeOK(p)' /\ ShownOK(p)'
  BY PlaceKept, OutcomeKept, ShownKept DEF FactsOf
<1>2. CASE pc[p] \in Owning
  BY <1>1, <1>2, SessionKept, ToolKept DEF FactsOf
<1>3. CASE pc[p] \notin Owning
  <2>1. pc'[p] \notin OwnPlaces
    BY <1>3, OwnPlacesOwn
  <2>2. SessionOK(p)' /\ ToolOK(p)'
    BY <2>1 DEF OwnPlaces, SessionOK, LoadOK, AskRegOK, ReadRegOK, ReadErrOK, ToolOK, PromptOK, AnswerOK, PollOK,
                PolledOK, DumpOK, DumpingOK
  <2>3. QED
    BY <1>1, <2>2 DEF FactsOf
<1>4. QED
  BY <1>2, <1>3

(* One process moves to l, knowing r and having asked t.                   *)
StepOf(p, l, r, t) == /\ pc' = [pc EXCEPT ![p] = l] /\ sess' = [sess EXCEPT ![p] = r]
                      /\ talk' = [talk EXCEPT ![p] = t]
                      /\ DOMAIN r = DOMAIN Idle /\ DOMAIN t = DOMAIN Silence
                      /\ port \in {p, Nobody} \/ UNCHANGED <<board, line, input, port>>

LEMMA StepMoves ==
  ASSUME KnowsOK, NEW p \in Process, NEW l, NEW r, NEW t, StepOf(p, l, r, t)
  PROVE  pc'[p] = l /\ sess'[p] = r /\ talk'[p] = t /\ KnowsOK'
BY DEF KnowsOK, StepOf

LEMMA StepKeeps ==
  ASSUME HostInv, NEW p \in Process, NEW l, NEW r, NEW t, StepOf(p, l, r, t), FactsOf(p)'
  PROVE  HostInv'
<1>1. KnowsOK'
  BY StepMoves DEF HostInv
<1>2. ASSUME NEW q \in Process, q # p PROVE FactsOf(q)'
  <2>1. pc'[q] = pc[q] /\ sess'[q] = sess[q] /\ talk'[q] = talk[q] /\ FactsOf(q)
    BY <1>2 DEF HostInv, KnowsOK, StepOf
  <2>2. pc[q] \in Owning => port = q
    BY <2>1 DEF FactsOf, PlaceOK
  <2>3. pc[q] \in Owning => UNCHANGED <<board, line, input, port>>
    BY <1>2, <2>2, ProcessAssumption DEF StepOf
  <2>4. QED
    BY <2>1, <2>3, OthersKept
<1>3. QED
  BY <1>1, <1>2 DEF HostInv

(* A request that is accepted announces what it has.                       *)
LEMMA AcceptedFits ==
  ASSUME NEW q, Accepted(q)
  PROVE  Fitting(q)
<1>1. q.size = Announced(q)
  BY DEF Accepted
<1>2. q.words \in 1 .. 4095 /\ (q.extended => Len(q.inputs) \in 1 .. 16)
  BY DEF Accepted
<1>3. (\A x : x \in 1 .. 4095 => x \in Nat) /\ (\A x : x \in 1 .. 16 => x \in Nat)
  <2>1. \A x : x \in 1 .. 4095 => x \in Nat
    OBVIOUS
  <2>2. \A x : x \in 1 .. 16 => x \in Nat
    OBVIOUS
  <2>3. QED
    BY <2>1, <2>2
<1>4. q.words \in Nat /\ (q.extended => Len(q.inputs) \in Nat)
  BY <1>2, <1>3
<1>5. PICK w, n, a : /\ w \in Nat /\ w = q.words /\ n = Len(q.inputs) /\ a = Announced(q)
                     /\ (q.extended => n \in Nat)
  BY <1>4
<1>6. a \in Nat
  <2>1. a = (IF q.extended THEN 1 + 5 * n ELSE 0) + 4 * w
    BY <1>5 DEF Announced
  <2>2. \A x, y \in Nat : (1 + 5 * x) + 4 * y \in Nat /\ 0 + 4 * y \in Nat
    OBVIOUS
  <2>3. CASE q.extended
    <3>1. a = (1 + 5 * n) + 4 * w
      BY <2>1, <2>3
    <3>2. n \in Nat /\ w \in Nat
      BY <1>5, <2>3
    <3>3. QED
      BY <2>2, <3>1, <3>2
  <2>4. CASE ~q.extended
    <3>1. a = 0 + 4 * w
      BY <2>1, <2>4
    <3>2. w \in Nat
      BY <1>5
    <3>3. QED
      BY <2>2, <3>1, <3>2
  <2>5. QED
    BY <2>3, <2>4
<1>7. QED
  BY <1>1, <1>5, <1>6 DEF Fitting

(* A step of the board.                                                    *)
LEMMA BoardKeeps ==
  ASSUME DriverHoldsReply, HostInv, Board
  PROVE  HostInv'
<1>0. /\ BoardStep /\ UNCHANGED <<pc, sess, talk>> /\ port' = port
  BY DEF Board, sessionVars, BoardStep, Take, Program, Monitor, Send
<1>1. KnowsOK'
  BY <1>0 DEF HostInv, KnowsOK
<1>2. ASSUME NEW p \in Process, pc[p] \in OwnPlaces PROVE FactsOf(p)'
  <2>0. FactsOf(p) /\ port # Nobody
    BY <1>2, OwnPlacesOwn, ProcessAssumption DEF HostInv, FactsOf, PlaceOK
  <2>1. PlaceOK(p)' /\ OutcomeOK(p)' /\ ShownOK(p)'
    BY <1>0, <2>0, PlaceKept, OutcomeKept, ShownKept DEF FactsOf
  <2>2. \A j : ~AtRest(j)
    BY <1>0, RestIsRest
  <2>3. \A c, a, j : Exchange(c, a, j) => Exchange(c, a, j)'
    BY <1>0, <2>0, ExchangeGoesOn
  <2>4. LoadOK(p)'
    <3>1. SUFFICES ASSUME pc[p] = "halt_wait", sess[p].loaded
                   PROVE  FrameOnWay(sess[p].req)' \/ RunsAlone(sess[p].req.job)'
      BY <1>0 DEF LoadOK
    <3>2. Accepted(sess[p].req) /\ (FrameOnWay(sess[p].req) \/ RunsAlone(sess[p].req.job))
      BY <2>0, <3>1 DEF FactsOf, PlaceOK, SessionOK, LoadOK
    <3>3. Fitting(sess[p].req)
      BY <3>2, AcceptedFits
    <3>4. PICK q, j : q = sess[p].req /\ j = sess[p].req.job /\ q' = q /\ j' = j
      BY <1>0
    <3>5. QED
      BY <1>0, <3>2, <3>3, <3>4, FrameGoesOn, ProgramGoesOn DEF RunsAlone
  <2>5. AskRegOK(p)' /\ ReadRegOK(p)' /\ ReadErrOK(p)'
    BY <1>0, <2>0, <2>2, <2>3 DEF FactsOf, SessionOK, AskRegOK, ReadRegOK, ReadErrOK, Mine
  <2>6. PromptOK(p)' /\ AnswerOK(p)' /\ DumpOK(p)' /\ DumpingOK(p)'
    BY <1>0, <2>0, <2>2, <2>3 DEF FactsOf, ToolOK, PromptOK, AnswerOK, DumpOK, DumpingOK, Smoking
  <2>7. PollOK(p)' /\ PolledOK(p)'
    <3>1. PICK q, j : q = sess[p].req /\ j = q.job /\ q' = q /\ j' = j
      BY <1>0
    <3>2. pc[p] \in {"poll", "polled"} /\ FramesFit => Fitting(q)
      BY <2>0, <3>1 DEF FactsOf, PlaceOK, FileOps
    <3>3. pc[p] \in {"poll", "polled"} /\ Smoking(p) => Fitting(q) /\ j \notin Talkers
      BY <3>1, <3>2 DEF Smoking
    <3>4. Smoking(p)' <=> Smoking(p)
      BY <1>0 DEF Smoking
    <3>5. ASSUME pc[p] = "poll", Smoking(p) PROVE FrameOnWay(q)' \/ Unpolled(j)'
      <4>1. FrameOnWay(q) \/ Unpolled(j)
        BY <2>0, <3>1, <3>5 DEF FactsOf, ToolOK, PollOK
      <4>2. CASE Unpolled(j)
        BY <1>0, <3>3, <3>5, <4>2, UnpolledGoesOn
      <4>3. CASE FrameOnWay(q)
        <5>1. FrameOnWay(q)' \/ (board' = BoardAt("run", j, <<>>, 0, <<>>) /\ line' = <<>>)
          BY <1>0, <3>1, <3>3, <3>5, <4>3, FrameGoesOn
        <5>2. board' = BoardAt("run", j, <<>>, 0, <<>>) /\ line' = <<>> => Unpolled(j)'
          BY BoardParts, <3>1 DEF Unpolled
        <5>3. QED
          BY <5>1, <5>2
      <4>4. QED
        BY <4>1, <4>2, <4>3
    <3>6. PollOK(p)'
      BY <1>0, <3>1, <3>4, <3>5 DEF PollOK
    <3>7. ASSUME pc[p] = "polled", Smoking(p)
          PROVE  (FrameAndPoll(q)' /\ input' = <<>>) \/ Unheard(j)' \/ Exchange(REG, 0, j)'
      <4>1. (FrameAndPoll(q) /\ input = <<>>) \/ Unheard(j) \/ Exchange(REG, 0, j)
        BY <2>0, <3>1, <3>7 DEF FactsOf, ToolOK, PolledOK
      <4>2. CASE FrameAndPoll(q) /\ input = <<>>
        BY <1>0, <3>1, <3>3, <3>7, <4>2, FramePollGoesOn
      <4>3. CASE Unheard(j)
        BY <1>0, <3>3, <3>7, <4>3, UnheardGoesOn
      <4>4. CASE Exchange(REG, 0, j)
        BY <2>3, <3>1, <4>4
      <4>5. QED
        BY <4>1, <4>2, <4>3, <4>4
    <3>8. pc[p] = "polled" /\ Smoking(p) => talk[p].want = WordOf("reg", 0, j)
      BY <2>0, <3>1 DEF FactsOf, ToolOK, PolledOK
    <3>9. PolledOK(p)'
      BY <1>0, <3>1, <3>4, <3>7, <3>8 DEF PolledOK
    <3>10. QED
      BY <3>6, <3>9
  <2>8. QED
    BY <2>1, <2>4, <2>5, <2>6, <2>7 DEF FactsOf, SessionOK, ToolOK
<1>3. ASSUME NEW p \in Process, pc[p] \notin OwnPlaces PROVE FactsOf(p)'
  <2>1. PlaceOK(p)' /\ OutcomeOK(p)' /\ ShownOK(p)'
    BY <1>0, PlaceKept, OutcomeKept, ShownKept DEF HostInv, FactsOf
  <2>2. SessionOK(p)' /\ ToolOK(p)'
    BY <1>0, <1>3 DEF OwnPlaces, SessionOK, LoadOK, AskRegOK, ReadRegOK, ReadErrOK, ToolOK, PromptOK, AnswerOK,
                      PollOK, PolledOK, DumpOK, DumpingOK
  <2>3. QED
    BY <2>1, <2>2 DEF FactsOf
<1>4. QED
  BY <1>1, <1>2, <1>3 DEF HostInv

-----------------------------------------------------------------------------
LEMMA Unmoved ==
  ASSUME KnowsOK, NEW p \in Process
  PROVE  /\ pc = [pc EXCEPT ![p] = pc[p]] /\ sess = [sess EXCEPT ![p] = sess[p]]
         /\ talk = [talk EXCEPT ![p] = talk[p]]
         /\ DOMAIN sess[p] = DOMAIN Idle /\ DOMAIN talk[p] = DOMAIN Silence
BY DEF KnowsOK

(* Where a process has no exchange, these parts say nothing.               *)
LEMMA Elsewhere ==
  ASSUME NEW p \in Process, pc'[p] \notin OwnPlaces
  PROVE  SessionOK(p)' /\ ToolOK(p)'
BY DEF OwnPlaces, SessionOK, LoadOK, AskRegOK, ReadRegOK, ReadErrOK, ToolOK, PromptOK, AnswerOK, PollOK,
       PolledOK, DumpOK, DumpingOK

(* RESET: nobody counts on anything any more.                              *)
LEMMA ButtonKeeps ==
  ASSUME HostInv, Button
  PROVE  HostInv'
<1>1. /\ sess' = [p \in Process |-> [sess[p] EXCEPT !.loaded = FALSE, !.asked = FALSE]]
      /\ pc' = pc /\ talk' = talk /\ port' = port
  BY DEF Button, PressReset, Press
<1>2. ASSUME NEW p \in Process
      PROVE  /\ DOMAIN sess'[p] = DOMAIN Idle
             /\ sess'[p].loaded = FALSE /\ sess'[p].asked = FALSE
             /\ sess'[p].op = sess[p].op /\ sess'[p].req = sess[p].req /\ sess'[p].word = sess[p].word
             /\ sess'[p].result = sess[p].result
  <2>1. sess'[p] = [sess[p] EXCEPT !.loaded = FALSE, !.asked = FALSE] /\ DOMAIN sess[p] = DOMAIN Idle
    BY <1>1 DEF HostInv, KnowsOK
  <2>2. QED
    BY <2>1 DEF Idle
<1>3. KnowsOK'
  BY <1>1, <1>2 DEF HostInv, KnowsOK
<1>4. ASSUME NEW p \in Process PROVE FactsOf(p)'
  <2>1. PlaceOK(p)'
    <3>1. PlaceOK(p) /\ pc'[p] = pc[p] /\ talk'[p] = talk[p] /\ port' = port
      BY <1>1 DEF HostInv, FactsOf
    <3>2. PICK r : /\ r = sess'[p] /\ r.asked = FALSE /\ r.op = sess[p].op /\ r.req = sess[p].req
                   /\ r.word = sess[p].word /\ r.result = sess[p].result
      BY <1>2
    <3>3. QED
      BY <3>1, <3>2 DEF PlaceOK
  <2>2. SessionOK(p)' /\ OutcomeOK(p)'
    BY <1>2 DEF SessionOK, LoadOK, AskRegOK, ReadRegOK, ReadErrOK, OutcomeOK
  <2>3. ToolOK(p)' /\ ShownOK(p)'
    BY <1>2 DEF ToolOK, PromptOK, AnswerOK, PollOK, PolledOK, DumpOK, DumpingOK, Smoking, ShownOK, Trusted
  <2>4. QED
    BY <2>1, <2>2, <2>3 DEF FactsOf
<1>5. QED
  BY <1>3, <1>4 DEF HostInv

(* The end of a session.                                                   *)
LEMMA FinishKeeps ==
  ASSUME HostInv, NEW p \in Process, NEW outcome, Finish(p, outcome), talk' = talk,
         outcome = "error" \/ sess[p].op \notin {"execute", "monitor"}
  PROVE  HostInv'
<1> DEFINE r == [sess[p] EXCEPT !.result = outcome]
<1>0. KnowsOK /\ FactsOf(p)
  BY DEF HostInv
<1>1. /\ DOMAIN r = DOMAIN Idle /\ r.op = sess[p].op /\ r.req = sess[p].req /\ r.word = sess[p].word
      /\ r.asked = sess[p].asked /\ r.loaded = sess[p].loaded /\ r.result = outcome
  BY <1>0, Unmoved DEF Idle
<1>2. StepOf(p, "finished", r, talk[p])
  BY <1>0, <1>1, Unmoved DEF Finish, Goto, Know, Closed, StepOf
<1>3. pc'[p] = "finished" /\ sess'[p] = r /\ talk'[p] = talk[p]
  BY <1>0, <1>2, StepMoves
<1> HIDE DEF r
<1>4. PlaceOK(p)'
  BY <1>0, <1>1, <1>3 DEF FactsOf, PlaceOK, Owning, Holding, Ended
<1>5. SessionOK(p)' /\ ToolOK(p)'
  BY <1>3, Elsewhere DEF OwnPlaces
<1>6. OutcomeOK(p)' /\ ShownOK(p)'
  BY <1>0, <1>1, <1>3 DEF FactsOf, OutcomeOK, ShownOK, Trusted
<1>7. QED
  BY <1>2, <1>4, <1>5, <1>6, StepKeeps DEF FactsOf

-----------------------------------------------------------------------------
(* The ends of an exchange.                                                *)
LEMMA Asking ==
  ASSUME NEW c \in {REG, HEAP, HP, ERR}, NEW a, NEW j, board = Halted(j), input' = <<>>, board' = board,
         line' = BytesOf(c, a)
  PROVE  Exchange(c, a, j)'
<1>1. PICK h : h = BoardAt("halt", j, <<>>, 0, <<>>) /\ board' = h
  BY HaltedIsHalt
<1>2. board'.buf = <<>> /\ board'.cmd = 0 /\ board'.tx = <<>>
  BY <1>1, BoardParts
<1>3. Halting(j)'
  BY <1>1, <1>2 DEF Halting
<1>4. CASE c = REG
  BY <1>2, <1>3, <1>4, CommandNumbers DEF Exchange, Question, Two, BytesOf
<1>5. CASE c = HEAP
  BY <1>2, <1>3, <1>5, CommandNumbers DEF Exchange, Question, Three, BytesOf
<1>6. CASE c \in {HP, ERR}
  BY <1>2, <1>3, <1>6, CommandNumbers DEF Exchange, Question, One, BytesOf
<1>7. QED
  BY <1>4, <1>5, <1>6

LEMMA QuestionWaits ==
  ASSUME NEW c, NEW a, NEW j, Question(c, a, j)
  PROVE  ~Still /\ input = <<>> /\ (line = <<>> => board.buf # <<>>)
<1>1. board.mode = "halt"
  BY HaltingBoard DEF Question
<1>2. board.buf # <<>> \/ line # <<>>
  <2>1. ASSUME NEW x, NEW y, NEW z PROVE One(x) \/ Two(x, y) \/ Three(x, y, z) => board.buf # <<>> \/ line # <<>>
    BY BytesAreItems DEF One, Two, Three
  <2>2. QED
    BY <2>1 DEF Question
<1>3. QED
  BY <1>1, <1>2 DEF Question, Still

(* Nothing more to come: the whole reply is there.                         *)
LEMMA ReplyIsThere ==
  ASSUME DriverHoldsReply, NEW c, NEW a, NEW j, Exchange(c, a, j),
         Len(input) >= Len(ReplyOf(c, a, j)) \/ Still
  PROVE  /\ input = ReplyOf(c, a, j) /\ Len(input) = Len(ReplyOf(c, a, j))
         /\ SubSeq(input, 1, Len(ReplyOf(c, a, j))) = ReplyOf(c, a, j)
         /\ SubSeq(input, Len(ReplyOf(c, a, j)) + 1, Len(input)) = <<>>
         /\ board = Halted(j) /\ line = <<>>
<1> DEFINE w == ReplyOf(c, a, j)
<1>1. PICK S : w \in Seq(S)
  BY RepliesAreWords
<1>2. Len(w) \in Nat /\ Len(w) > 0
  <2>1. Len(w) \in 1 .. (2 * WordLen)
    BY RepliesAreWords
  <2>2. QED
    BY <2>1 DEF DriverHoldsReply
<1>3. Exchange(c, a, j) /\ (Len(input) >= Len(w) \/ Still)
  OBVIOUS
<1> HIDE DEF w
<1>4. ~Question(c, a, j)
  BY <1>2, <1>3, QuestionWaits
<1>5. Answered(w, j)
  BY <1>3, <1>4 DEF Exchange, w
<1>6. PICK k \in 0 .. Len(w) : input = SubSeq(w, 1, k) /\ board.tx = SubSeq(w, k + 1, Len(w))
  BY <1>5 DEF Answered
<1>7. Len(input) = k /\ (board.tx = <<>> => k >= Len(w))
  <2>1. Len(SubSeq(w, 1, k)) = k
    BY <1>1, ReplyMoves
  <2>2. k < Len(w) => Len(SubSeq(w, k + 1, Len(w))) > 0
    BY <1>1, <1>2
  <2>3. board.tx = <<>> => Len(board.tx) = 0
    OBVIOUS
  <2>4. board.tx = <<>> => ~(k < Len(w))
    BY <1>6, <2>2, <2>3
  <2>5. Len(input) = k
    BY <1>6, <2>1
  <2>6. QED
    BY <1>2, <2>4, <2>5
<1>8. k = Len(w)
  BY <1>2, <1>3, <1>7 DEF Still
<1>9. input = w /\ board.tx = <<>>
  BY <1>1, <1>2, <1>6, <1>8, ReplyEnds
<1>10. board = Halted(j) /\ line = <<>>
  BY <1>5, <1>9, HaltedIsHalt DEF Answered, Halting
<1>11. SubSeq(input, 1, Len(w)) = w /\ SubSeq(input, Len(w) + 1, Len(input)) = <<>>
  BY <1>1, <1>2, <1>9, ReplyEnds
<1>12. QED
  BY <1>9, <1>10, <1>11 DEF w

-----------------------------------------------------------------------------
(* A process moves on, with no answer and no word of a tool.               *)
ToolPlaces == {"prompt", "answer", "poll", "polled", "dump", "dumping"}

LEMMA MoveKeeps ==
  ASSUME HostInv, NEW p \in Process, NEW l, NEW r, NEW t, StepOf(p, l, r, t), l \notin ToolPlaces, r.result = "none",
         r.word = NoWord \/ r.op \notin {"monitor.py", "smoke"}, PlaceOK(p)', SessionOK(p)'
  PROVE  HostInv'
<1>1. pc'[p] = l /\ sess'[p] = r /\ talk'[p] = t
  BY StepMoves DEF HostInv
<1>2. ToolOK(p)'
  BY <1>1 DEF ToolPlaces, ToolOK, PromptOK, AnswerOK, PollOK, PolledOK, DumpOK, DumpingOK
<1>3. OutcomeOK(p)' /\ ShownOK(p)'
  BY <1>1 DEF OutcomeOK, ShownOK, Trusted
<1>4. QED
  BY <1>2, <1>3, StepKeeps DEF FactsOf

LEMMA WalkKeeps ==
  ASSUME HostInv, NEW p \in Process, NEW l, NEW r, NEW t, StepOf(p, l, r, t), l \notin OwnPlaces, r.result = "none",
         r.word = NoWord \/ r.op \notin {"monitor.py", "smoke"}, PlaceOK(p)'
  PROVE  HostInv'
<1>1. pc'[p] = l
  BY StepMoves DEF HostInv
<1>2. SessionOK(p)' /\ l \notin ToolPlaces
  BY <1>1, Elsewhere DEF OwnPlaces, ToolPlaces
<1>3. QED
  BY <1>2, MoveKeeps

(* What a step may change when its process has the port, or nothing of it. *)
LEMMA HasPort ==
  ASSUME HostInv, NEW p \in Process, pc[p] \in Owning
  PROVE  port = p
BY DEF HostInv, FactsOf, PlaceOK

(* The steps of execute() and monitor() before the monitor is asked.       *)
LEMMA StartKeeps ==
  ASSUME HostInv, NEW p \in Process, Start(p), talk' = talk
  PROVE  HostInv'
<1>0. KnowsOK /\ FactsOf(p) /\ pc[p] = "start" /\ sess[p].op = "execute"
  BY DEF HostInv, Start, At
<1>1. CASE ~Accepted(sess[p].req)
  BY <1>1, FinishKeeps DEF Start
<1>2. CASE Accepted(sess[p].req)
  <2>1. PICK l \in {"open", "reset_wait"} : Goto(p, l) /\ UNCHANGED <<boardVars, sess>>
    BY <1>2 DEF Start
  <2>2. StepOf(p, l, sess[p], talk[p])
    BY <1>0, <2>1, Unmoved DEF Goto, StepOf, boardVars
  <2>3. pc'[p] = l /\ sess'[p] = sess[p] /\ talk'[p] = talk[p]
    BY <1>0, <2>2, StepMoves
  <2>4. sess[p].result = "none" /\ sess[p].word = NoWord
    BY <1>0 DEF FactsOf, PlaceOK, Ended, Worded
  <2>5. PlaceOK(p)'
    BY <1>0, <1>2, <2>3 DEF FactsOf, PlaceOK, Owning, Holding, Ended, Worded, FileOps
  <2>6. QED
    BY <2>2, <2>4, <2>5, WalkKeeps DEF OwnPlaces
<1>3. QED
  BY <1>1, <1>2

LEMMA ResetWaitedKeeps ==
  ASSUME HostInv, NEW p \in Process, ResetWaited(p), talk' = talk
  PROVE  HostInv'
<1>0. KnowsOK /\ FactsOf(p) /\ pc[p] = "reset_wait"
  BY DEF HostInv, ResetWaited, At
<1>1. StepOf(p, "open", sess[p], talk[p])
  BY <1>0, Unmoved DEF ResetWaited, Goto, StepOf, boardVars
<1>2. pc'[p] = "open" /\ sess'[p] = sess[p] /\ talk'[p] = talk[p]
  BY <1>0, <1>1, StepMoves
<1>3. sess[p].result = "none" /\ sess[p].word = NoWord
  BY <1>0 DEF FactsOf, PlaceOK, Ended, Worded
<1>4. PlaceOK(p)'
  BY <1>0, <1>2 DEF FactsOf, PlaceOK, Owning, Holding, Ended, Worded, FileOps
<1>5. QED
  BY <1>1, <1>3, <1>4, WalkKeeps DEF OwnPlaces

(* What a process knows, but for one flag.                                 *)
LEMMA Flagged ==
  ASSUME KnowsOK, NEW p \in Process, NEW v, NEW r,
         r = [sess[p] EXCEPT !.asked = v] \/ r = [sess[p] EXCEPT !.loaded = v]
  PROVE  /\ DOMAIN r = DOMAIN Idle /\ r.op = sess[p].op /\ r.req = sess[p].req /\ r.word = sess[p].word
         /\ r.result = sess[p].result /\ r.err = sess[p].err /\ r.soft = sess[p].soft
         /\ r = [sess[p] EXCEPT !.asked = v] => r.asked = v /\ r.loaded = sess[p].loaded
         /\ r = [sess[p] EXCEPT !.loaded = v] => r.loaded = v
BY DEF KnowsOK, Idle

LEMMA OpenKeeps ==
  ASSUME HostInv, NEW p \in Process, Open(p), talk' = talk
  PROVE  HostInv'
<1>0. KnowsOK /\ FactsOf(p) /\ pc[p] = "open" /\ port = Nobody /\ port' = p /\ input' = <<>> /\ board' = board
  BY DEF HostInv, Open, At
<1>1. PICK l \in {"rearm_wait", "frame", "ask_reg", "opened"} :
         /\ Goto(p, l) /\ (l # "rearm_wait" => line' = line)
         /\ l \in {"rearm_wait", "frame"} => sess[p].op = "execute"
         /\ l = "ask_reg" => sess[p].op = "monitor"
         /\ l = "opened" => sess[p].op \notin {"execute", "monitor"}
  BY DEF Open
<1>2. PICK v, r : /\ v = (sess[p].op = "monitor" /\ Quiet) /\ r = [sess[p] EXCEPT !.asked = v]
                  /\ sess' = [sess EXCEPT ![p] = r]
  BY DEF Open, Know
<1>3. /\ DOMAIN r = DOMAIN Idle /\ r.op = sess[p].op /\ r.req = sess[p].req /\ r.word = sess[p].word
      /\ r.result = sess[p].result /\ r.loaded = sess[p].loaded /\ r.asked = v
  BY <1>0, <1>2, Flagged
<1>4. StepOf(p, l, r, talk[p])
  BY <1>0, <1>1, <1>2, <1>3, Unmoved DEF Goto, StepOf
<1>5. pc'[p] = l /\ sess'[p] = r /\ talk'[p] = talk[p]
  BY <1>0, <1>4, StepMoves
<1>6. r.result = "none" /\ r.word = NoWord
  BY <1>0, <1>3 DEF FactsOf, PlaceOK, Ended, Worded
<1>7. PlaceOK(p)'
  BY <1>0, <1>1, <1>2, <1>3, <1>5 DEF FactsOf, PlaceOK, Owning, Holding, Ended, Worded, FileOps
<1>8. CASE l # "ask_reg"
  BY <1>1, <1>4, <1>6, <1>7, <1>8, WalkKeeps DEF OwnPlaces
<1>9. CASE l = "ask_reg"
  <2>1. v => \E j \in Jobs : AtRest(j)' /\ Mine(p, j)'
    BY <1>0, <1>1, <1>2, <1>3, <1>5, <1>9 DEF Quiet, AtRest, Mine
  <2>2. AskRegOK(p)'
    BY <1>3, <1>5, <2>1 DEF AskRegOK
  <2>3. SessionOK(p)'
    BY <1>5, <1>9, <2>2 DEF SessionOK, LoadOK, ReadRegOK, ReadErrOK
  <2>4. QED
    BY <1>4, <1>6, <1>7, <1>9, <2>3, MoveKeeps DEF ToolPlaces
<1>10. QED
  BY <1>8, <1>9

LEMMA RearmWaitedKeeps ==
  ASSUME HostInv, NEW p \in Process, RearmWaited(p), talk' = talk
  PROVE  HostInv'
<1>0. KnowsOK /\ FactsOf(p) /\ pc[p] = "rearm_wait" /\ port = p /\ port' = p
  BY HasPort DEF HostInv, RearmWaited, At, Owning, Holding
<1>1. StepOf(p, "frame", sess[p], talk[p])
  BY <1>0, Unmoved DEF RearmWaited, Goto, StepOf
<1>2. pc'[p] = "frame" /\ sess'[p] = sess[p] /\ talk'[p] = talk[p]
  BY <1>0, <1>1, StepMoves
<1>3. sess[p].result = "none" /\ sess[p].word = NoWord
  BY <1>0 DEF FactsOf, PlaceOK, Ended, Worded
<1>4. PlaceOK(p)'
  BY <1>0, <1>2 DEF FactsOf, PlaceOK, Owning, Holding, Ended, Worded, FileOps
<1>5. QED
  BY <1>1, <1>3, <1>4, WalkKeeps DEF OwnPlaces

(* The frame goes out: if the loader waits for it, it is on its way.       *)
LEMMA FrameLeaves ==
  ASSUME NEW q, line' = line \o bootloader_frame(q), board' = board, board = Fresh, line = <<>>
  PROVE  FrameOnWay(q)'
BY DEF FrameOnWay, bootloader_frame, HeaderOf, PayloadOf

LEMMA SendFrameKeeps ==
  ASSUME HostInv, NEW p \in Process, SendFrame(p), talk' = talk
  PROVE  HostInv'
<1>0. /\ KnowsOK /\ FactsOf(p) /\ pc[p] = "frame" /\ port = p /\ port' = p
      /\ Write(bootloader_frame(sess[p].req)) /\ board' = board
  BY HasPort DEF HostInv, SendFrame, At, Owning, Holding
<1>1. PICK v, r : /\ v = (board = Fresh /\ line = <<>>) /\ r = [sess[p] EXCEPT !.loaded = v]
                  /\ sess' = [sess EXCEPT ![p] = r]
  BY DEF SendFrame, Know
<1>2. /\ DOMAIN r = DOMAIN Idle /\ r.op = sess[p].op /\ r.req = sess[p].req /\ r.word = sess[p].word
      /\ r.result = sess[p].result /\ r.loaded = v
  <2>1. r = [sess[p] EXCEPT !.loaded = v] /\ KnowsOK
    BY <1>0, <1>1
  <2>2. QED
    BY <2>1, Flagged
<1>3. StepOf(p, "halt_wait", r, talk[p])
  BY <1>0, <1>1, <1>2, Unmoved DEF SendFrame, Goto, StepOf
<1>4. pc'[p] = "halt_wait" /\ sess'[p] = r /\ talk'[p] = talk[p]
  BY <1>0, <1>3, StepMoves
<1>5. r.result = "none" /\ r.word = NoWord /\ r.op = "execute"
  BY <1>0, <1>2 DEF FactsOf, PlaceOK, Ended, Worded
<1>6. PlaceOK(p)'
  BY <1>0, <1>2, <1>4, <1>5 DEF FactsOf, PlaceOK, Owning, Holding, Ended, Worded, FileOps
<1>7. LoadOK(p)'
  <2>1. v => FrameOnWay(sess[p].req)'
    <3>1. PICK q : q = sess[p].req /\ q = sess'[p].req
      BY <1>2, <1>4
    <3>2. QED
      BY <1>0, <1>1, <3>1, FrameLeaves DEF Write
  <2>2. QED
    BY <1>2, <1>4, <2>1 DEF LoadOK
<1>8. SessionOK(p)'
  BY <1>4, <1>7 DEF SessionOK, AskRegOK, ReadRegOK, ReadErrOK
<1>9. QED
  BY <1>3, <1>5, <1>6, <1>8, MoveKeeps DEF ToolPlaces

LEMMA SendFailsKeeps ==
  ASSUME HostInv, NEW p \in Process, SendFails(p), talk' = talk
  PROVE  HostInv'
<1> DEFINE r == [sess[p] EXCEPT !.result = "error"]
<1>0. KnowsOK /\ FactsOf(p) /\ pc[p] = "frame" /\ port = p
  BY HasPort DEF HostInv, SendFails, At, Owning, Holding
<1>1. /\ DOMAIN r = DOMAIN Idle /\ r.op = sess[p].op /\ r.req = sess[p].req /\ r.word = sess[p].word
      /\ r.asked = sess[p].asked /\ r.result = "error"
  BY <1>0, Unmoved DEF Idle
<1>2. StepOf(p, "finished", r, talk[p])
  BY <1>0, <1>1, Unmoved DEF SendFails, Goto, Know, StepOf
<1>3. pc'[p] = "finished" /\ sess'[p] = r /\ talk'[p] = talk[p]
  BY <1>0, <1>2, StepMoves
<1>4. sess[p].word = NoWord
  BY <1>0 DEF FactsOf, PlaceOK, Ended, Worded
<1> HIDE DEF r
<1>5. PlaceOK(p)'
  BY <1>0, <1>1, <1>3 DEF FactsOf, PlaceOK, Owning, Holding, Ended
<1>6. SessionOK(p)' /\ ToolOK(p)'
  BY <1>3, Elsewhere DEF OwnPlaces
<1>7. OutcomeOK(p)' /\ ShownOK(p)'
  BY <1>1, <1>3, <1>4 DEF OutcomeOK, ShownOK
<1>8. QED
  BY <1>2, <1>5, <1>6, <1>7, StepKeeps DEF FactsOf

(* The monitor is asked: a quiet board is the one of the job that was      *)
(* loaded.                                                                 *)
LEMMA SettledKeeps ==
  ASSUME HostInv, NEW p \in Process, Settled(p), talk' = talk
  PROVE  HostInv'
<1>0. /\ KnowsOK /\ FactsOf(p) /\ pc[p] = "halt_wait" /\ port = p /\ port' = p
      /\ line = <<>> /\ line' = <<>> /\ input' = <<>> /\ board' = board
  BY HasPort DEF HostInv, Settled, At, Owning, Holding
<1>1. PICK v, r : /\ v = Quiet /\ r = [sess[p] EXCEPT !.asked = v]
                  /\ sess' = [sess EXCEPT ![p] = r]
  BY DEF Settled, Know
<1>2. /\ DOMAIN r = DOMAIN Idle /\ r.op = sess[p].op /\ r.req = sess[p].req /\ r.word = sess[p].word
      /\ r.result = sess[p].result /\ r.loaded = sess[p].loaded /\ r.asked = v
  BY <1>0, <1>1, Flagged
<1>3. StepOf(p, "ask_reg", r, talk[p])
  BY <1>0, <1>1, <1>2, Unmoved DEF Settled, Goto, StepOf
<1>4. pc'[p] = "ask_reg" /\ sess'[p] = r /\ talk'[p] = talk[p]
  BY <1>0, <1>3, StepMoves
<1>5. r.result = "none" /\ r.word = NoWord /\ r.op = "execute"
  BY <1>0, <1>2 DEF FactsOf, PlaceOK, Ended, Worded
<1>6. PlaceOK(p)'
  BY <1>0, <1>2, <1>4, <1>5 DEF FactsOf, PlaceOK, Owning, Holding, Ended, Worded, FileOps
<1>7. ASSUME Quiet PROVE \E j \in Jobs : AtRest(j)' /\ Mine(p, j)'
  <2>1. PICK j \in Jobs : board = Halted(j)
    BY <1>7 DEF Quiet
  <2>2. sess[p].loaded => j = sess[p].req.job
    <3>1. SUFFICES ASSUME sess[p].loaded PROVE j = sess[p].req.job
      OBVIOUS
    <3>2. PICK q, i : q = sess[p].req /\ i = q.job /\ (FrameOnWay(q) \/ RunsAlone(i))
      BY <1>0, <3>1 DEF FactsOf, SessionOK, LoadOK
    <3>3. ~FrameOnWay(q)
      BY <1>0, BytesAreItems DEF FrameOnWay
    <3>4. board = BoardAt("halt", j, <<>>, 0, <<>>) /\ Halted(i) = BoardAt("halt", i, <<>>, 0, <<>>)
      BY <2>1, HaltedIsHalt
    <3>5. board.mode = "halt" /\ board.job = j /\ BoardAt("halt", i, <<>>, 0, <<>>).job = i
      BY <3>4, BoardParts
    <3>6. \A t : BoardAt("run", i, <<>>, 0, t).mode = "run"
      BY BoardParts
    <3>7. board = Halted(i)
      BY <3>2, <3>3, <3>5, <3>6 DEF RunsAlone
    <3>8. QED
      BY <3>2, <3>4, <3>5, <3>7
  <2>3. AtRest(j)' /\ Mine(p, j)'
    BY <1>0, <1>2, <1>4, <2>1, <2>2 DEF AtRest, Mine
  <2>4. QED
    BY <2>3
<1>8. AskRegOK(p)'
  BY <1>1, <1>2, <1>4, <1>7 DEF AskRegOK
<1>9. SessionOK(p)'
  BY <1>4, <1>8 DEF SessionOK, LoadOK, ReadRegOK, ReadErrOK
<1>10. QED
  BY <1>3, <1>5, <1>6, <1>9, MoveKeeps DEF ToolPlaces

LEMMA AskRegKeeps ==
  ASSUME HostInv, NEW p \in Process, AskReg(p), talk' = talk
  PROVE  HostInv'
<1>0. /\ KnowsOK /\ FactsOf(p) /\ pc[p] = "ask_reg" /\ port = p /\ port' = p
      /\ line' = line \o <<Byte(REG), Byte(sess[p].req.register)>> /\ input' = input /\ board' = board
  BY HasPort DEF HostInv, AskReg, Write, At, Owning, Holding
<1>1. StepOf(p, "read_reg", sess[p], talk[p])
  BY <1>0, Unmoved DEF AskReg, Goto, StepOf
<1>2. pc'[p] = "read_reg" /\ sess'[p] = sess[p] /\ talk'[p] = talk[p]
  BY <1>0, <1>1, StepMoves
<1>3. sess[p].result = "none" /\ sess[p].word = NoWord
  BY <1>0 DEF FactsOf, PlaceOK, Ended, Worded
<1>4. PlaceOK(p)'
  BY <1>0, <1>2, <1>3 DEF FactsOf, PlaceOK, Owning, Holding, Ended, Worded, FileOps
<1>5. ASSUME sess[p].asked PROVE \E j \in Jobs : Exchange(REG, sess[p].req.register, j)' /\ Mine(p, j)'
  <2>1. PICK j \in Jobs : AtRest(j) /\ Mine(p, j)
    BY <1>0, <1>5 DEF FactsOf, SessionOK, AskRegOK
  <2>2. PICK a : a = sess[p].req.register /\ a = sess'[p].req.register
    BY <1>2
  <2>3. line' = BytesOf(REG, a)
    <3>1. BytesOf(REG, a) = <<Byte(REG), Byte(a)>>
      BY CommandNumbers DEF BytesOf
    <3>2. line = <<>>
      BY <2>1 DEF AtRest
    <3>3. QED
      BY <1>0, <2>2, <3>1, <3>2
  <2>4. Exchange(REG, a, j)'
    BY <1>0, <2>1, <2>3, Asking DEF AtRest
  <2>5. Mine(p, j)'
    BY <1>2, <2>1 DEF Mine
  <2>6. QED
    BY <2>2, <2>4, <2>5
<1>6. ReadRegOK(p)'
  <2>1. PICK a : a = sess[p].req.register /\ a = sess'[p].req.register
    BY <1>2
  <2>2. QED
    BY <1>2, <1>5 DEF ReadRegOK
<1>7. SessionOK(p)'
  BY <1>2, <1>6 DEF SessionOK, LoadOK, AskRegOK, ReadErrOK
<1>8. QED
  BY <1>1, <1>3, <1>4, <1>7, MoveKeeps DEF ToolPlaces

(* The whole reply is read: it is the register of the job.                 *)
LEMMA ReadRegKeeps ==
  ASSUME DriverHoldsReply, HostInv, NEW p \in Process, ReadReg(p), talk' = talk
  PROVE  HostInv'
<1>0. /\ KnowsOK /\ FactsOf(p) /\ pc[p] = "read_reg" /\ port = p /\ port' = p
      /\ line = <<>> /\ line' = line \o <<Byte(ERR)>> /\ board' = board
      /\ Len(input) >= WordLen /\ input' = SubSeq(input, WordLen + 1, Len(input))
  BY HasPort DEF HostInv, ReadReg, ReadExact, Write, At, Owning, Holding
<1>1. PICK w, r : /\ w = SubSeq(input, 1, WordLen) /\ r = [sess[p] EXCEPT !.word = w]
                  /\ sess' = [sess EXCEPT ![p] = r]
  BY DEF ReadReg, Know, Got
<1>2. /\ DOMAIN r = DOMAIN Idle /\ r.op = sess[p].op /\ r.req = sess[p].req /\ r.word = w
      /\ r.result = sess[p].result /\ r.loaded = sess[p].loaded /\ r.asked = sess[p].asked
  BY <1>0, <1>1 DEF KnowsOK, Idle
<1>3. StepOf(p, "read_err", r, talk[p])
  BY <1>0, <1>1, <1>2, Unmoved DEF ReadReg, Goto, StepOf
<1>4. pc'[p] = "read_err" /\ sess'[p] = r /\ talk'[p] = talk[p]
  BY <1>0, <1>3, StepMoves
<1>5. r.result = "none" /\ r.op \in {"execute", "monitor"}
  BY <1>0, <1>2 DEF FactsOf, PlaceOK, Ended
<1>6. PlaceOK(p)'
  BY <1>0, <1>2, <1>4, <1>5 DEF FactsOf, PlaceOK, Owning, Holding, Ended, Worded, FileOps
<1>7. ASSUME sess[p].asked
      PROVE  \E j \in Jobs : /\ Exchange(ERR, 0, j)' /\ Mine(p, j)'
                             /\ w = WordOf("reg", sess[p].req.register, j)
  <2>1. PICK j \in Jobs : Exchange(REG, sess[p].req.register, j) /\ Mine(p, j)
    BY <1>0, <1>7 DEF FactsOf, SessionOK, ReadRegOK
  <2>2. PICK a, n : a = sess[p].req.register /\ n = ReplyOf(REG, a, j) /\ Exchange(REG, a, j)
    BY <2>1
  <2>3. n = WordOf("reg", a, j) /\ Len(n) = WordLen
    BY <2>2, RepliesAreWords, CommandNumbers DEF ReplyOf
  <2>4. /\ input = n /\ Len(input) = Len(n) /\ SubSeq(input, 1, Len(n)) = n
        /\ SubSeq(input, Len(n) + 1, Len(input)) = <<>> /\ board = Halted(j)
    BY <1>0, <2>2, <2>3, ReplyIsThere
  <2>5. input' = <<>> /\ w = n
    BY <1>0, <1>1, <2>3, <2>4
  <2>6. line' = BytesOf(ERR, 0)
    <3>1. BytesOf(ERR, 0) = <<Byte(ERR)>>
      BY CommandNumbers DEF BytesOf
    <3>2. QED
      BY <1>0, <3>1
  <2>7. Exchange(ERR, 0, j)'
    BY <1>0, <2>4, <2>5, <2>6, Asking
  <2>8. Mine(p, j)'
    BY <1>2, <1>4, <2>1 DEF Mine
  <2>9. QED
    BY <2>2, <2>3, <2>5, <2>7, <2>8
<1>8. ReadErrOK(p)'
  <2>1. PICK a : a = sess[p].req.register /\ a = sess'[p].req.register
    BY <1>2, <1>4
  <2>2. sess[p].asked => \E j \in Jobs : Exchange(ERR, 0, j)' /\ Mine(p, j)' /\ w = WordOf("reg", a, j)
    BY <1>7, <2>1
  <2>3. sess'[p].asked = sess[p].asked /\ sess'[p].word = w
    BY <1>2, <1>4
  <2>4. QED
    BY <2>1, <2>2, <2>3 DEF ReadErrOK
<1>9. SessionOK(p)'
  BY <1>4, <1>8 DEF SessionOK, LoadOK, AskRegOK, ReadRegOK
<1>10. QED
  BY <1>3, <1>5, <1>6, <1>9, MoveKeeps DEF ToolPlaces

(* An error word says of which job it is.                                  *)
LEMMA ZeroOfItsJob ==
  ASSUME DriverHoldsReply, NEW j, NEW zero \in ReadsZero(WordOf("err", 0, j))
  PROVE  zero = (j \notin Traps)
<1>1. 1 \in 1 .. WordLen
  BY DEF DriverHoldsReply
<1>2. WordOf("err", 0, j)[1].job = j
  BY <1>1 DEF WordOf
<1>3. QED
  BY <1>2 DEF ReadsZero

LEMMA ReadErrKeeps ==
  ASSUME DriverHoldsReply, HostInv, NEW p \in Process, ReadErr(p), talk' = talk
  PROVE  HostInv'
<1>0. /\ KnowsOK /\ FactsOf(p) /\ pc[p] = "read_err" /\ port = p /\ Len(input) >= WordLen
  BY HasPort DEF HostInv, ReadErr, At, Owning, Holding
<1>1. PICK w, zero, v, r : /\ w = SubSeq(input, 1, WordLen) /\ zero \in ReadsZero(w)
                           /\ v = (IF zero THEN "ok" ELSE "trapped")
                           /\ r = [sess[p] EXCEPT !.err = w, !.result = v] /\ sess' = [sess EXCEPT ![p] = r]
  BY DEF ReadErr, Know, Got
<1>2. /\ DOMAIN r = DOMAIN Idle /\ r.op = sess[p].op /\ r.req = sess[p].req /\ r.word = sess[p].word
      /\ r.result = v /\ r.err = w /\ r.loaded = sess[p].loaded /\ r.asked = sess[p].asked
  BY <1>0, <1>1 DEF KnowsOK, Idle
<1>3. StepOf(p, "finished", r, talk[p])
  BY <1>0, <1>1, <1>2, Unmoved DEF ReadErr, Goto, StepOf
<1>4. pc'[p] = "finished" /\ sess'[p] = r /\ talk'[p] = talk[p]
  BY <1>0, <1>3, StepMoves
<1>5. r.op \in {"execute", "monitor"}
  BY <1>0, <1>2 DEF FactsOf, PlaceOK
<1>6. PlaceOK(p)'
  BY <1>0, <1>2, <1>4, <1>5 DEF FactsOf, PlaceOK, Owning, Holding, Ended, Worded, FileOps
<1>7. SessionOK(p)' /\ ToolOK(p)'
  BY <1>4, Elsewhere DEF OwnPlaces
<1>8. ShownOK(p)'
  BY <1>4, <1>5 DEF ShownOK, Trusted
<1>9. ASSUME sess[p].asked
      PROVE  \E j \in Jobs : /\ Mine(p, j)' /\ sess[p].word = WordOf("reg", sess[p].req.register, j)
                             /\ w = WordOf("err", 0, j) /\ (v = "ok" <=> j \notin Traps)
  <2>1. PICK j \in Jobs : /\ Exchange(ERR, 0, j) /\ Mine(p, j)
                          /\ sess[p].word = WordOf("reg", sess[p].req.register, j)
    BY <1>0, <1>9 DEF FactsOf, SessionOK, ReadErrOK
  <2>2. PICK n : n = ReplyOf(ERR, 0, j)
    OBVIOUS
  <2>3. n = WordOf("err", 0, j) /\ Len(n) = WordLen
    <3>1. ERR # REG /\ ERR # HEAP /\ ERR # HP
      BY CommandNumbers
    <3>2. n = WordOf("err", 0, j)
      BY <2>2, <3>1 DEF ReplyOf
    <3>3. Len(n) = WordLen
      BY <2>2, <3>1, RepliesAreWords
    <3>4. QED
      BY <3>2, <3>3
  <2>4. SubSeq(input, 1, Len(n)) = n
    BY <1>0, <2>1, <2>2, <2>3, ReplyIsThere
  <2>5. w = WordOf("err", 0, j)
    BY <1>1, <2>3, <2>4
  <2>6. zero = (j \notin Traps)
    BY <1>1, <2>5, ZeroOfItsJob
  <2>7. Mine(p, j)'
    BY <1>2, <1>4, <2>1 DEF Mine
  <2>8. v = "ok" <=> j \notin Traps
    BY <1>1, <2>6
  <2>9. QED
    BY <2>1, <2>5, <2>7, <2>8
<1>10. OutcomeOK(p)'
  <2>1. PICK a : a = sess[p].req.register /\ a = sess'[p].req.register
    BY <1>2, <1>4
  <2>2. sess[p].asked => \E j \in Jobs : /\ Mine(p, j)' /\ sess[p].word = WordOf("reg", a, j)
                                         /\ w = WordOf("err", 0, j) /\ (v = "ok" <=> j \notin Traps)
    BY <1>9, <2>1
  <2>3. sess'[p].asked = sess[p].asked /\ sess'[p].word = sess[p].word /\ sess'[p].err = w /\ sess'[p].result = v
    BY <1>2, <1>4
  <2>4. QED
    BY <2>1, <2>2, <2>3 DEF OutcomeOK
<1>11. QED
  BY <1>3, <1>6, <1>7, <1>8, <1>10, StepKeeps DEF FactsOf

LEMMA SessionKeeps ==
  ASSUME DriverHoldsReply, HostInv, NEW p \in Process, Session(p), talk' = talk
  PROVE  HostInv'
<1>1. CASE Execute(p)
  BY <1>1, StartKeeps, ResetWaitedKeeps, RearmWaitedKeeps, SendFrameKeeps, SendFailsKeeps, SettledKeeps
     DEF Execute
<1>2. CASE Readout(p)
  <2>1. CASE ReadFails(p)
    BY <2>1, FinishKeeps DEF ReadFails
  <2>2. CASE ~ReadFails(p)
    BY <1>2, <2>2, AskRegKeeps, ReadRegKeeps, ReadErrKeeps DEF Readout
  <2>3. QED
    BY <2>1, <2>2
<1>3. CASE Open(p) \/ OpenFails(p)
  BY <1>3, OpenKeeps, FinishKeeps DEF OpenFails
<1>4. QED
  BY <1>1, <1>2, <1>3 DEF Session

-----------------------------------------------------------------------------
(* The threads of the bridge and the lanes.                                *)
LEMMA NothingKeeps ==
  ASSUME HostInv, UNCHANGED <<board, line, input, port, pc, sess, talk>>
  PROVE  HostInv'
<1>1. KnowsOK'
  BY DEF HostInv, KnowsOK
<1>2. ASSUME NEW p \in Process PROVE FactsOf(p)'
  BY OthersKept DEF HostInv
<1>3. QED
  BY <1>1, <1>2 DEF HostInv

(* A process goes on, and knows what it knew.                              *)
LEMMA GoesKeeps ==
  ASSUME HostInv, NEW p \in Process, NEW l, Goto(p, l), UNCHANGED <<boardVars, sess, talk>>,
         pc[p] \notin Worded \cup Ended,
         l \in {"lock", "start", "done", "open", "upload"},
         l = "open" => sess[p].op # "execute",
         l = "upload" => pc[p] = "opened" /\ sess[p].op \in FileOps
  PROVE  HostInv'
<1>0. KnowsOK /\ FactsOf(p)
  BY DEF HostInv
<1>1. StepOf(p, l, sess[p], talk[p])
  BY <1>0, Unmoved DEF Goto, StepOf, boardVars
<1>2. pc'[p] = l /\ sess'[p] = sess[p] /\ talk'[p] = talk[p] /\ port' = port
  BY <1>0, <1>1, StepMoves DEF boardVars
<1>3. sess[p].result = "none" /\ sess[p].word = NoWord
  BY <1>0 DEF FactsOf, PlaceOK
<1>4. PlaceOK(p)'
  <2>1. l = "upload" => port = p /\ ~sess[p].asked
    BY <1>0, HasPort DEF Owning, Holding, FactsOf, PlaceOK
  <2>2. QED
    BY <1>0, <1>2, <1>3, <2>1 DEF FactsOf, PlaceOK, Owning, Holding, Ended, Worded, FileOps
<1>5. QED
  BY <1>1, <1>3, <1>4, WalkKeeps DEF OwnPlaces

(* A process starts with what it was asked for.                            *)
LEMMA BeginKeeps ==
  ASSUME HostInv, NEW p \in Process, NEW l, NEW a \in Asked[p], Goto(p, l), Know(p, Started(a)),
         UNCHANGED <<boardVars, talk>>, l \in {"accepted", "press_now", "start", "open"},
         l = "open" => a.op # "execute", l = "press_now" => a.op = "upload.py"
  PROVE  HostInv'
<1>0. KnowsOK /\ FactsOf(p)
  BY DEF HostInv
<1>1. PICK r : r = Started(a)
  OBVIOUS
<1>2. /\ DOMAIN r = DOMAIN Idle /\ r.op = a.op /\ r.req = a.req /\ r.word = NoWord /\ r.result = "none"
      /\ r.asked = FALSE
  BY <1>1 DEF Started, Idle
<1>3. StepOf(p, l, r, talk[p])
  BY <1>0, <1>1, <1>2, Unmoved DEF Goto, Know, StepOf, boardVars
<1>4. pc'[p] = l /\ sess'[p] = r /\ talk'[p] = talk[p]
  BY <1>0, <1>3, StepMoves
<1>5. FramesFit /\ a.op \in FileOps => Fitting(a.req)
  BY DEF FramesFit
<1>6. PlaceOK(p)'
  BY <1>0, <1>2, <1>4, <1>5 DEF FactsOf, PlaceOK, Owning, Holding, Ended, Worded
<1>7. QED
  BY <1>2, <1>3, <1>6, WalkKeeps DEF OwnPlaces

(* An answer is settled without the port.                                  *)
LEMMA RespondKeeps ==
  ASSUME HostInv, NEW c \in Process, NEW outcome, Respond(c, outcome), talk' = talk, pc[c] = "accepted",
         outcome = "error" \/ sess[c].op \notin {"execute", "monitor"}
  PROVE  HostInv'
<1> DEFINE r == [sess[c] EXCEPT !.result = outcome]
<1>0. KnowsOK /\ FactsOf(c)
  BY DEF HostInv
<1>1. /\ DOMAIN r = DOMAIN Idle /\ r.op = sess[c].op /\ r.req = sess[c].req /\ r.word = sess[c].word
      /\ r.asked = sess[c].asked /\ r.result = outcome
  BY <1>0, Unmoved DEF Idle
<1>2. StepOf(c, "reply", r, talk[c])
  BY <1>0, <1>1, Unmoved DEF Respond, Goto, Know, StepOf, boardVars
<1>3. pc'[c] = "reply" /\ sess'[c] = r /\ talk'[c] = talk[c]
  BY <1>0, <1>2, StepMoves
<1>4. sess[c].word = NoWord
  BY <1>0 DEF FactsOf, PlaceOK, Ended, Worded
<1> HIDE DEF r
<1>5. PlaceOK(c)'
  BY <1>0, <1>1, <1>3 DEF FactsOf, PlaceOK, Owning, Holding, Ended
<1>6. SessionOK(c)' /\ ToolOK(c)'
  BY <1>3, Elsewhere DEF OwnPlaces
<1>7. OutcomeOK(c)' /\ ShownOK(c)'
  BY <1>1, <1>3, <1>4 DEF OutcomeOK, ShownOK
<1>8. QED
  BY <1>2, <1>5, <1>6, <1>7, StepKeeps DEF FactsOf

LEMMA ReleaseKeeps ==
  ASSUME HostInv, NEW c \in Process, Release(c), talk' = talk
  PROVE  HostInv'
<1>0. KnowsOK /\ FactsOf(c) /\ pc[c] = "finished"
  BY DEF HostInv, Release, At
<1>1. StepOf(c, "reply", sess[c], talk[c])
  BY <1>0, Unmoved DEF Release, Goto, StepOf, boardVars
<1>2. pc'[c] = "reply" /\ sess'[c] = sess[c] /\ talk'[c] = talk[c]
  BY <1>0, <1>1, StepMoves
<1>3. PlaceOK(c)'
  BY <1>0, <1>2 DEF FactsOf, PlaceOK, Owning, Holding, Ended
<1>4. SessionOK(c)' /\ ToolOK(c)'
  BY <1>2, Elsewhere DEF OwnPlaces
<1>5. OutcomeOK(c)' /\ ShownOK(c)'
  BY <1>0, <1>2, OutcomeKept, ShownKept DEF FactsOf
<1>6. QED
  BY <1>1, <1>3, <1>4, <1>5, StepKeeps DEF FactsOf

LEMMA ReplyKeeps ==
  ASSUME HostInv, NEW c \in Process, Reply(c), talk' = talk
  PROVE  HostInv'
<1> DEFINE r == [Idle EXCEPT !.result = sess[c].result]
<1>0. KnowsOK /\ FactsOf(c)
  BY DEF HostInv
<1>1. DOMAIN r = DOMAIN Idle /\ r.op = "none" /\ r.word = NoWord
  BY DEF Idle
<1>2. StepOf(c, "done", r, talk[c])
  BY <1>0, <1>1, Unmoved DEF Reply, Goto, Know, StepOf, boardVars
<1>3. pc'[c] = "done" /\ sess'[c] = r /\ talk'[c] = talk[c]
  BY <1>0, <1>2, StepMoves
<1> HIDE DEF r
<1>4. PlaceOK(c)'
  BY <1>0, <1>1, <1>3 DEF FactsOf, PlaceOK, Owning, Holding, Ended, FileOps
<1>5. SessionOK(c)' /\ ToolOK(c)'
  BY <1>3, Elsewhere DEF OwnPlaces
<1>6. OutcomeOK(c)' /\ ShownOK(c)'
  BY <1>1, <1>3 DEF OutcomeOK, ShownOK
<1>7. QED
  BY <1>2, <1>4, <1>5, <1>6, StepKeeps DEF FactsOf

LEMMA ThreadKeeps ==
  ASSUME DriverHoldsReply, HostInv, NEW c \in Process, Thread(c), talk' = talk
  PROVE  HostInv'
<1>1. CASE Disallowed(c)
  BY <1>1, RespondKeeps DEF Disallowed, At
<1>2. CASE NoLine(c)
  BY <1>2, GoesKeeps DEF NoLine, At, Worded, Ended
<1>3. CASE Dispatch(c)
  <2>1. \/ \E outcome : /\ Respond(c, outcome)
                        /\ outcome = "error" \/ sess[c].op \notin {"execute", "monitor"}
        \/ Goto(c, "lock") /\ UNCHANGED <<boardVars, sess>>
    BY <1>3 DEF Dispatch
  <2>2. pc[c] = "accepted"
    BY <1>3 DEF Dispatch, At
  <2>3. QED
    BY <2>1, <2>2, RespondKeeps, GoesKeeps DEF Worded, Ended
<1>4. CASE Acquire(c)
  BY <1>4, GoesKeeps DEF Acquire, At, Worded, Ended
<1>5. CASE Session(c)
  BY <1>5, SessionKeeps
<1>6. CASE StartMonitor(c) \/ StartProbe(c)
  <2>1. pc[c] = "start" /\ sess[c].op \in {"monitor", "probe"}
    BY <1>6 DEF StartMonitor, StartProbe, At
  <2>2. (Goto(c, "open") /\ UNCHANGED <<boardVars, sess>>) \/ Finish(c, "error")
    BY <1>6 DEF StartMonitor, StartProbe
  <2>3. QED
    BY <2>1, <2>2, GoesKeeps, FinishKeeps DEF Worded, Ended
<1>7. CASE Probed(c)
  <2>1. sess[c].op \notin {"execute", "monitor"}
    BY <1>7 DEF Probed, At, HostInv, FactsOf, PlaceOK
  <2>2. QED
    BY <1>7, <2>1, FinishKeeps DEF Probed
<1>8. CASE Release(c) \/ Reply(c)
  BY <1>8, ReleaseKeeps, ReplyKeeps
<1>9. QED
  BY <1>1, <1>2, <1>3, <1>4, <1>5, <1>6, <1>7, <1>8 DEF Thread, Work

LEMMA LaneKeeps ==
  ASSUME HostInv, NEW l \in Lane, LaneStep(l), talk' = talk
  PROVE  HostInv'
<1>1. CASE Connect(l)
  <2>1. PICK c \in Conn : \E a \in Asked[c] : Know(c, Started(a)) /\ Goto(c, "accepted") /\ UNCHANGED boardVars
    BY <1>1 DEF Connect
  <2>2. c \in Process
    BY ProcessAssumption
  <2>3. QED
    BY <2>1, <2>2, BeginKeeps
<1>2. CASE Refuse(l) \/ Receive(l) \/ GiveUp(l)
  BY <1>2, NothingKeeps DEF Refuse, Receive, GiveUp, boardVars, sessionVars
<1>3. QED
  BY <1>1, <1>2 DEF LaneStep

-----------------------------------------------------------------------------
(* The tools beside the bridge: launching, uploading, the terminal.        *)
LEMMA LaunchKeeps ==
  ASSUME HostInv, NEW p \in Process, Launch(p)
  PROVE  HostInv'
<1>1. PICK a \in Asked[p] : /\ Know(p, Started(a)) /\ UNCHANGED <<boardVars, talk>>
                            /\ Goto(p, CASE a.op = "upload.py" -> "press_now"
                                         [] a.op = "execute"   -> "start"
                                         [] OTHER              -> "open")
  BY DEF Launch
<1>2. PICK l : /\ Goto(p, l) /\ l \in {"press_now", "start", "open"}
               /\ (l = "open" => a.op # "execute") /\ (l = "press_now" => a.op = "upload.py")
  BY <1>1
<1>3. QED
  BY <1>1, <1>2, BeginKeeps

LEMMA PromptedKeeps ==
  ASSUME HostInv, NEW p \in Process, Prompted(p)
  PROVE  HostInv'
<1>1. pc[p] = "press_now" /\ sess[p].op = "upload.py"
  BY DEF HostInv, FactsOf, PlaceOK, Prompted, At
<1>2. QED
  BY <1>1, GoesKeeps DEF Prompted, Worded, Ended

(* monitor.py comes to its prompt with nothing asked yet.                  *)
LEMMA OpenedKeeps ==
  ASSUME HostInv, NEW p \in Process, Opened(p)
  PROVE  HostInv'
<1>0. /\ KnowsOK /\ FactsOf(p) /\ pc[p] = "opened" /\ port = p /\ UNCHANGED <<boardVars, sess, talk>>
  BY HasPort DEF HostInv, Opened, At, Owning, Holding
<1>1. CASE Goto(p, "upload") /\ sess[p].op \in FileOps
  BY <1>0, <1>1, GoesKeeps DEF Worded, Ended
<1>2. CASE sess[p].op = "monitor.py" /\ Goto(p, "prompt")
  <2>1. StepOf(p, "prompt", sess[p], talk[p])
    BY <1>0, <1>2, Unmoved DEF Goto, StepOf, boardVars
  <2>2. pc'[p] = "prompt" /\ sess'[p] = sess[p] /\ talk'[p] = talk[p] /\ port' = p
    BY <1>0, <2>1, StepMoves DEF boardVars
  <2>3. sess[p].result = "none" /\ sess[p].word = NoWord /\ ~sess[p].asked
    BY <1>0 DEF FactsOf, PlaceOK, Ended, Worded
  <2>4. PlaceOK(p)'
    BY <1>0, <1>2, <2>2, <2>3 DEF FactsOf, PlaceOK, Owning, Holding, Ended, Worded, FileOps
  <2>5. SessionOK(p)' /\ ToolOK(p)'
    BY <2>2, <2>3 DEF SessionOK, LoadOK, AskRegOK, ReadRegOK, ReadErrOK, ToolOK, PromptOK, AnswerOK, PollOK,
                      PolledOK, DumpOK, DumpingOK
  <2>6. OutcomeOK(p)' /\ ShownOK(p)'
    BY <2>2, <2>3 DEF OutcomeOK, ShownOK
  <2>7. QED
    BY <2>1, <2>4, <2>5, <2>6, StepKeeps DEF FactsOf
<1>3. QED
  BY <1>1, <1>2 DEF Opened, FileOps

LEMMA UploadKeeps ==
  ASSUME HostInv, NEW p \in Process, Upload(p)
  PROVE  HostInv'
<1>0. /\ KnowsOK /\ FactsOf(p) /\ pc[p] = "upload" /\ port = p /\ port' = p
      /\ Write(bootloader_frame(sess[p].req)) /\ board' = board /\ talk' = talk
  BY HasPort DEF HostInv, Upload, At, Owning
<1>1. PICK v, r : /\ v = (board = Fresh /\ line = <<>>) /\ r = [sess[p] EXCEPT !.loaded = v]
                  /\ sess' = [sess EXCEPT ![p] = r]
  BY DEF Upload, Know
<1>2. /\ DOMAIN r = DOMAIN Idle /\ r.op = sess[p].op /\ r.req = sess[p].req /\ r.word = sess[p].word
      /\ r.result = sess[p].result /\ r.loaded = v /\ r.asked = sess[p].asked
  BY <1>0, <1>1 DEF KnowsOK, Idle
<1>3. PICK l : /\ Goto(p, l) /\ l \in {"discard", "poll", "terminal"}
               /\ (l = "discard" => sess[p].op = "monitor.py") /\ (l = "poll" => sess[p].op = "smoke")
  BY DEF Upload
<1>4. StepOf(p, l, r, talk[p])
  BY <1>0, <1>1, <1>2, <1>3, Unmoved DEF Goto, StepOf
<1>5. pc'[p] = l /\ sess'[p] = r /\ talk'[p] = talk[p]
  BY <1>0, <1>4, StepMoves
<1>6. r.result = "none" /\ r.word = NoWord /\ r.op \in FileOps /\ ~r.asked
  BY <1>0, <1>2 DEF FactsOf, PlaceOK, Ended, Worded
<1>7. PlaceOK(p)'
  BY <1>0, <1>2, <1>3, <1>5, <1>6 DEF FactsOf, PlaceOK, Owning, Holding, Ended, Worded, FileOps
<1>8. CASE l # "poll"
  BY <1>3, <1>4, <1>6, <1>7, <1>8, WalkKeeps DEF OwnPlaces
<1>9. CASE l = "poll"
  <2>1. v => FrameOnWay(sess[p].req)'
    <3>1. PICK q : q = sess[p].req /\ q = sess'[p].req
      BY <1>2, <1>5
    <3>2. QED
      BY <1>0, <1>1, <3>1, FrameLeaves DEF Write
  <2>2. PollOK(p)'
    BY <1>2, <1>5, <2>1 DEF PollOK, Smoking
  <2>3. SessionOK(p)' /\ ToolOK(p)'
    BY <1>5, <1>9, <2>2 DEF SessionOK, LoadOK, AskRegOK, ReadRegOK, ReadErrOK, ToolOK, PromptOK, AnswerOK,
                            PolledOK, DumpOK, DumpingOK
  <2>4. OutcomeOK(p)' /\ ShownOK(p)'
    BY <1>5, <1>6 DEF OutcomeOK, ShownOK
  <2>5. QED
    BY <1>4, <1>7, <2>3, <2>4, StepKeeps DEF FactsOf
<1>10. QED
  BY <1>8, <1>9

LEMMA TerminalKeeps ==
  ASSUME HostInv, NEW p \in Process, Show(p) \/ Type(p) \/ Interrupt(p)
  PROVE  HostInv'
<1>0. KnowsOK /\ FactsOf(p) /\ pc[p] = "terminal" /\ port = p /\ talk' = talk
  BY HasPort DEF HostInv, Show, Type, Interrupt, At, Owning
<1>1. CASE Interrupt(p)
  <2>1. sess[p].op \notin {"execute", "monitor"}
    BY <1>0 DEF FactsOf, PlaceOK
  <2>2. QED
    BY <1>0, <1>1, <2>1, FinishKeeps DEF Interrupt
<1>2. CASE Show(p) \/ Type(p)
  <2>1. UNCHANGED <<pc, sess, port>>
    BY <1>2 DEF Show, Type, sessionVars
  <2>2. StepOf(p, "terminal", sess[p], talk[p])
    BY <1>0, <2>1, Unmoved DEF StepOf
  <2>3. pc'[p] = "terminal" /\ sess'[p] = sess[p] /\ talk'[p] = talk[p]
    BY <1>0, <2>2, StepMoves
  <2>4. sess[p].result = "none" /\ sess[p].word = NoWord
    BY <1>0 DEF FactsOf, PlaceOK, Ended, Worded
  <2>5. PlaceOK(p)'
    BY <1>0, <2>1, <2>3, PlaceKept DEF FactsOf
  <2>6. QED
    BY <2>2, <2>4, <2>5, WalkKeeps DEF OwnPlaces
<1>3. QED
  BY <1>1, <1>2

-----------------------------------------------------------------------------
(* monitor.py's prompt.                                                    *)
LEMMA DiscardKeeps ==
  ASSUME HostInv, NEW p \in Process, Discard(p)
  PROVE  HostInv'
<1>0. /\ KnowsOK /\ FactsOf(p) /\ pc[p] = "discard" /\ port = p /\ port' = p /\ UNCHANGED <<sess, talk>>
  BY HasPort DEF HostInv, Discard, At, Owning
<1>1. StepOf(p, "prompt", sess[p], talk[p])
  BY <1>0, Unmoved DEF Discard, Goto, StepOf
<1>2. pc'[p] = "prompt" /\ sess'[p] = sess[p] /\ talk'[p] = talk[p]
  BY <1>0, <1>1, StepMoves
<1>3. sess[p].result = "none" /\ sess[p].word = NoWord /\ ~sess[p].asked /\ sess[p].op = "monitor.py"
  BY <1>0 DEF FactsOf, PlaceOK, Ended, Worded
<1>4. PlaceOK(p)'
  BY <1>0, <1>2, <1>3 DEF FactsOf, PlaceOK, Owning, Holding, Ended, Worded, FileOps
<1>5. SessionOK(p)' /\ ToolOK(p)'
  BY <1>2, <1>3 DEF SessionOK, LoadOK, AskRegOK, ReadRegOK, ReadErrOK, ToolOK, PromptOK, AnswerOK, PollOK,
                    PolledOK, DumpOK, DumpingOK
<1>6. OutcomeOK(p)' /\ ShownOK(p)'
  BY <1>2, <1>3 DEF OutcomeOK, ShownOK
<1>7. QED
  BY <1>1, <1>4, <1>5, <1>6, StepKeeps DEF FactsOf

LEMMA AskPromptKeeps ==
  ASSUME HostInv, NEW p \in Process, AskPrompt(p)
  PROVE  HostInv'
<1>0. /\ KnowsOK /\ FactsOf(p) /\ pc[p] = "prompt" /\ port = p /\ port' = p
      /\ board' = board /\ input' = input
  BY HasPort DEF HostInv, AskPrompt, At, Owning
<1>1. PICK q \in Questions : Asks(p, q[1], q[2])
  BY DEF AskPrompt
<1>2. PICK c, a, v, w, r, t :
         /\ c = q[1] /\ a = q[2] /\ v = InSync(p) /\ w = ReplyTo(c, a)
         /\ r = [sess[p] EXCEPT !.word = NoWord, !.asked = v] /\ sess' = [sess EXCEPT ![p] = r]
         /\ t = [talk[p] EXCEPT !.want = w, !.asked = 1] /\ talk' = [talk EXCEPT ![p] = t]
         /\ line' = line \o BytesOf(c, a)
  BY <1>1 DEF Asks, Heard, Know, Write
<1>3. /\ DOMAIN r = DOMAIN Idle /\ r.op = sess[p].op /\ r.req = sess[p].req /\ r.word = NoWord
      /\ r.result = sess[p].result /\ r.loaded = sess[p].loaded /\ r.asked = v
  BY <1>0, <1>2 DEF KnowsOK, Idle
<1>4. DOMAIN t = DOMAIN Silence /\ t.want = w /\ t.asked = 1
  BY <1>0, <1>2 DEF KnowsOK, Silence
<1>5. StepOf(p, "answer", r, t)
  BY <1>0, <1>2, <1>3, <1>4 DEF AskPrompt, Goto, StepOf
<1>6. pc'[p] = "answer" /\ sess'[p] = r /\ talk'[p] = t
  BY <1>0, <1>5, StepMoves
<1>7. r.result = "none" /\ r.op = "monitor.py"
  BY <1>0, <1>3 DEF FactsOf, PlaceOK, Ended
<1>8. PlaceOK(p)'
  BY <1>0, <1>3, <1>4, <1>6, <1>7 DEF FactsOf, PlaceOK, Owning, Holding, Ended, Worded, FileOps
<1>9. ASSUME QuestionsKnown, v PROVE \E j \in Jobs : w = ReplyOf(c, a, j) /\ Exchange(c, a, j)'
  <2>1. PICK j \in Jobs : AtRest(j)
    <3>1. CASE talk[p].asked = 0
      BY <1>2, <1>9, <3>1 DEF InSync, Quiet, AtRest
    <3>2. CASE talk[p].asked # 0
      BY <1>0, <1>2, <1>9, <3>2 DEF InSync, FactsOf, ToolOK, PromptOK
    <3>3. QED
      BY <3>1, <3>2
  <2>2. c \in {REG, HEAP, HP, ERR}
    BY <1>2, <1>9 DEF QuestionsKnown
  <2>3. board = Halted(j) /\ line = <<>> /\ input = <<>>
    BY <2>1 DEF AtRest
  <2>4. board.job = j
    BY <2>3, HaltedIsHalt, BoardParts
  <2>5. w = ReplyOf(c, a, j)
    BY <1>2, <2>4 DEF ReplyTo, ReplyOf
  <2>6. line' = BytesOf(c, a)
    <3>1. \/ BytesOf(c, a) = <<Byte(REG), Byte(a)>>
          \/ BytesOf(c, a) = <<Byte(HEAP), Byte(a), Byte(0)>>
          \/ BytesOf(c, a) = <<Byte(c)>>
      BY DEF BytesOf
    <3>2. QED
      BY <1>2, <2>3, <3>1
  <2>7. Exchange(c, a, j)'
    BY <1>0, <2>2, <2>3, <2>6, Asking
  <2>8. QED
    BY <2>5, <2>7
<1>10. AnswerOK(p)'
  <2>1. v /\ QuestionsKnown => \E j \in Jobs : w = ReplyOf(q[1], q[2], j) /\ Exchange(q[1], q[2], j)'
    BY <1>2, <1>9
  <2>2. talk'[p].want = w /\ sess'[p].asked = v
    BY <1>3, <1>4, <1>6
  <2>3. q' = q
    OBVIOUS
  <2>4. QED
    BY <2>1, <2>2 DEF AnswerOK
<1>11. SessionOK(p)' /\ ToolOK(p)'
  BY <1>6, <1>10 DEF SessionOK, LoadOK, AskRegOK, ReadRegOK, ReadErrOK, ToolOK, PromptOK, PollOK,
                     PolledOK, DumpOK, DumpingOK
<1>12. OutcomeOK(p)' /\ ShownOK(p)'
  BY <1>3, <1>6, <1>7 DEF OutcomeOK, ShownOK
<1>13. QED
  BY <1>5, <1>8, <1>11, <1>12, StepKeeps DEF FactsOf

(* The reply of the question that was asked is read, and the board rests.  *)
LEMMA AnswerKeeps ==
  ASSUME DriverHoldsReply, HostInv, NEW p \in Process, Answer(p)
  PROVE  HostInv'
<1> DEFINE n == Len(talk[p].want)
<1>0. /\ KnowsOK /\ FactsOf(p) /\ pc[p] = "answer" /\ port = p /\ port' = p /\ talk' = talk
      /\ line = <<>> /\ line' = line /\ board' = board
      /\ Len(input) >= n /\ input' = SubSeq(input, n + 1, Len(input))
  BY HasPort DEF HostInv, Answer, ReadExact, At, Owning
<1>1. PICK w, r : /\ w = SubSeq(input, 1, n) /\ r = [sess[p] EXCEPT !.word = w]
                  /\ sess' = [sess EXCEPT ![p] = r]
  BY DEF Answer, Know, Got
<1>2. /\ DOMAIN r = DOMAIN Idle /\ r.op = sess[p].op /\ r.req = sess[p].req /\ r.word = w
      /\ r.result = sess[p].result /\ r.loaded = sess[p].loaded /\ r.asked = sess[p].asked
  BY <1>0, <1>1 DEF KnowsOK, Idle
<1>3. StepOf(p, "prompt", r, talk[p])
  BY <1>0, <1>1, <1>2, Unmoved DEF Answer, Goto, StepOf
<1>4. pc'[p] = "prompt" /\ sess'[p] = r /\ talk'[p] = talk[p]
  BY <1>0, <1>3, StepMoves
<1>5. r.result = "none" /\ r.op = "monitor.py"
  BY <1>0, <1>2 DEF FactsOf, PlaceOK, Ended
<1>6. PlaceOK(p)'
  BY <1>0, <1>2, <1>4, <1>5 DEF FactsOf, PlaceOK, Owning, Holding, Ended, Worded, FileOps
<1>7. ASSUME QuestionsKnown, sess[p].asked
      PROVE  w = talk[p].want /\ \E j \in Jobs : AtRest(j)'
  <2>1. PICK j \in Jobs : \E q \in Questions : talk[p].want = ReplyOf(q[1], q[2], j) /\ Exchange(q[1], q[2], j)
    BY <1>0, <1>7 DEF FactsOf, ToolOK, AnswerOK
  <2>2. PICK q \in Questions : talk[p].want = ReplyOf(q[1], q[2], j) /\ Exchange(q[1], q[2], j)
    BY <2>1
  <2>3. PICK c, a, m : /\ m = ReplyOf(c, a, j) /\ Exchange(c, a, j) /\ m = talk[p].want
    BY <2>2
  <2>4. /\ SubSeq(input, 1, Len(m)) = m
        /\ SubSeq(input, Len(m) + 1, Len(input)) = <<>> /\ board = Halted(j)
    BY <1>0, <2>3, ReplyIsThere
  <2>5. w = m /\ input' = <<>>
    BY <1>0, <1>1, <2>3, <2>4
  <2>6. AtRest(j)'
    BY <1>0, <2>4, <2>5 DEF AtRest
  <2>7. QED
    BY <2>3, <2>5, <2>6
<1>8. PromptOK(p)'
  BY <1>2, <1>4, <1>7 DEF PromptOK
<1>9. SessionOK(p)' /\ ToolOK(p)'
  BY <1>4, <1>8 DEF SessionOK, LoadOK, AskRegOK, ReadRegOK, ReadErrOK, ToolOK, AnswerOK, PollOK,
                    PolledOK, DumpOK, DumpingOK
<1>10. OutcomeOK(p)'
  BY <1>4, <1>5 DEF OutcomeOK
<1>11. ShownOK(p)'
  BY <1>2, <1>4, <1>5, <1>7 DEF ShownOK, Trusted
<1>12. QED
  BY <1>3, <1>6, <1>9, <1>10, <1>11, StepKeeps DEF FactsOf

(* No reply in time: only a question that was put out of step.             *)
LEMMA NoReplyKeeps ==
  ASSUME DriverHoldsReply, HostInv, NEW p \in Process, NoReply(p)
  PROVE  HostInv'
<1>0. /\ KnowsOK /\ FactsOf(p) /\ pc[p] = "answer" /\ port = p /\ port' = p /\ talk' = talk /\ sess' = sess
      /\ Len(input) < Len(talk[p].want) /\ Still
  BY HasPort DEF HostInv, NoReply, TimedOut, At, Owning
<1>1. StepOf(p, "prompt", sess[p], talk[p])
  BY <1>0, Unmoved DEF NoReply, Goto, StepOf
<1>2. pc'[p] = "prompt" /\ sess'[p] = sess[p] /\ talk'[p] = talk[p]
  BY <1>0, <1>1, StepMoves
<1>3. sess[p].result = "none" /\ sess[p].word = NoWord /\ sess[p].op = "monitor.py"
  BY <1>0 DEF FactsOf, PlaceOK, Ended, Worded
<1>4. PlaceOK(p)'
  BY <1>0, <1>2, <1>3 DEF FactsOf, PlaceOK, Owning, Holding, Ended, Worded, FileOps
<1>5. ~(QuestionsKnown /\ sess[p].asked)
  <2>1. SUFFICES ASSUME QuestionsKnown, sess[p].asked PROVE FALSE
    OBVIOUS
  <2>2. PICK j \in Jobs : \E q \in Questions : talk[p].want = ReplyOf(q[1], q[2], j) /\ Exchange(q[1], q[2], j)
    BY <1>0, <2>1 DEF FactsOf, ToolOK, AnswerOK
  <2>3. PICK c, a, m : m = ReplyOf(c, a, j) /\ Exchange(c, a, j) /\ m = talk[p].want
    BY <2>2
  <2>4. Len(input) = Len(m) /\ Len(m) \in 1 .. (2 * WordLen)
    BY <1>0, <2>3, ReplyIsThere, RepliesAreWords
  <2>5. QED
    BY <1>0, <2>3, <2>4 DEF DriverHoldsReply
<1>6. SessionOK(p)' /\ ToolOK(p)'
  BY <1>2, <1>5 DEF SessionOK, LoadOK, AskRegOK, ReadRegOK, ReadErrOK, ToolOK, PromptOK, AnswerOK, PollOK,
                    PolledOK, DumpOK, DumpingOK
<1>7. OutcomeOK(p)' /\ ShownOK(p)'
  BY <1>2, <1>3 DEF OutcomeOK, ShownOK
<1>8. QED
  BY <1>1, <1>4, <1>6, <1>7, StepKeeps DEF FactsOf

LEMMA MonitorPyKeeps ==
  ASSUME DriverHoldsReply, HostInv, NEW p \in Process, MonitorPy(p)
  PROVE  HostInv'
<1>1. CASE TooLong(p)
  BY <1>1, FinishKeeps DEF TooLong
<1>2. CASE Quit(p)
  <2>1. sess[p].op \notin {"execute", "monitor"}
    BY <1>2 DEF Quit, At, HostInv, FactsOf, PlaceOK
  <2>2. QED
    BY <1>2, <2>1, FinishKeeps DEF Quit
<1>3. QED
  BY <1>1, <1>2, DiscardKeeps, AskPromptKeeps, AnswerKeeps, NoReplyKeeps DEF MonitorPy

-----------------------------------------------------------------------------
(* The smoke driver.  What a poll leaves when it is not answered.          *)
LEMMA PollLeaves ==
  ASSUME DriverHoldsReply, HostInv, NEW p \in Process, pc[p] = "polled", Smoking(p),
         NEW j, j = sess[p].req.job, Still
  PROVE  Unpolled(j) \/ Exchange(REG, 0, j)
<1>1. PICK q : q = sess[p].req
  OBVIOUS
<1>2. (FrameAndPoll(q) /\ input = <<>>) \/ Unheard(j) \/ Exchange(REG, 0, j)
  BY <1>1 DEF HostInv, FactsOf, ToolOK, PolledOK
<1>3. ~FrameAndPoll(q)
  BY BytesAreItems DEF FrameAndPoll, Still
<1>4. Unheard(j) => Unpolled(j)
  BY BytesAreItems DEF Unheard, Unpolled, Still
<1>5. QED
  BY <1>2, <1>3, <1>4

LEMMA TuplesJoin ==
  ASSUME NEW x, NEW y, NEW z, NEW u
  PROVE  <<x, y>> \o <<z, u>> = <<x, y, z, u>> /\ <<y>> \o <<z, u>> = <<y, z, u>>
<1> DEFINE S == {x, y, z, u}
<1>1. /\ <<x, y>> \in Seq(S) /\ <<y>> \in Seq(S) /\ <<z, u>> \in Seq(S)
      /\ <<x, y, z, u>> \in Seq(S) /\ <<y, z, u>> \in Seq(S)
  OBVIOUS
<1>2. Len(<<x, y>> \o <<z, u>>) = 4 /\ Len(<<y>> \o <<z, u>>) = 3
  BY <1>1
<1>3. \A i \in 1 .. 4 : (<<x, y>> \o <<z, u>>)[i] = <<x, y, z, u>>[i]
  OBVIOUS
<1>4. \A i \in 1 .. 3 : (<<y>> \o <<z, u>>)[i] = <<y, z, u>>[i]
  OBVIOUS
<1>5. <<x, y>> \o <<z, u>> \in Seq(S) /\ <<y>> \o <<z, u>> \in Seq(S)
  BY <1>1
<1>6. <<x, y>> \o <<z, u>> = <<x, y, z, u>>
  BY <1>1, <1>2, <1>3, <1>5, SeqEqual
<1>7. <<y>> \o <<z, u>> = <<y, z, u>>
  BY <1>1, <1>2, <1>4, <1>5, SeqEqual
<1>8. QED
  BY <1>6, <1>7

LEMMA PollKeeps ==
  ASSUME HostInv, NEW p \in Process, Poll(p)
  PROVE  HostInv'
<1>0. /\ KnowsOK /\ FactsOf(p) /\ pc[p] = "poll" /\ port = p /\ port' = p /\ sess' = sess /\ board' = board
      /\ input' = <<>> /\ line' = line \o <<Byte(REG), Byte(0)>>
  BY HasPort DEF HostInv, Poll, At, Owning, Write
<1>1. PICK w, n, t : /\ w = WordOf("reg", 0, sess[p].req.job) /\ n = talk[p].polls + 1
                     /\ t = [talk[p] EXCEPT !.want = w, !.polls = n] /\ talk' = [talk EXCEPT ![p] = t]
  BY DEF Poll, Heard
<1>2. DOMAIN t = DOMAIN Silence /\ t.want = w /\ t.asked = talk[p].asked
  BY <1>0, <1>1 DEF KnowsOK, Silence
<1>3. StepOf(p, "polled", sess[p], t)
  BY <1>0, <1>1, <1>2, Unmoved DEF Poll, Goto, StepOf
<1>4. pc'[p] = "polled" /\ sess'[p] = sess[p] /\ talk'[p] = t
  BY <1>0, <1>3, StepMoves
<1>5. sess[p].result = "none" /\ sess[p].word = NoWord /\ sess[p].op = "smoke"
  BY <1>0 DEF FactsOf, PlaceOK, Ended, Worded
<1>6. PlaceOK(p)'
  BY <1>0, <1>2, <1>4, <1>5 DEF FactsOf, PlaceOK, Owning, Holding, Ended, Worded, FileOps
<1>7. PolledOK(p)'
  <2>1. PICK q, j : q = sess[p].req /\ j = q.job /\ q' = q /\ j' = j
    BY <1>0
  <2>2. Smoking(p)' => FrameOnWay(q) \/ Unpolled(j)
    BY <1>0, <1>4, <2>1 DEF FactsOf, ToolOK, PollOK, Smoking
  <2>3. FrameOnWay(q) => FrameAndPoll(q)'
    <3>1. \A x, y, z, u : <<x, y>> \o <<z, u>> = <<x, y, z, u>> /\ <<y>> \o <<z, u>> = <<y, z, u>>
      BY TuplesJoin
    <3>2. QED
      <4>1. CASE line = <<HeaderOf(q), PayloadOf(q)>> /\ board = Fresh
        <5>1. line' = <<HeaderOf(q), PayloadOf(q), Byte(REG), Byte(0)>>
          BY <1>0, <3>1, <4>1
        <5>2. QED
          BY <1>0, <4>1, <5>1 DEF FrameAndPoll
      <4>2. CASE line = <<PayloadOf(q)>> /\ board = LoadingOf(q)
        <5>1. line' = <<PayloadOf(q), Byte(REG), Byte(0)>>
          BY <1>0, <3>1, <4>2
        <5>2. QED
          BY <1>0, <4>2, <5>1 DEF FrameAndPoll
      <4>3. QED
        BY <4>1, <4>2 DEF FrameOnWay
  <2>4. Unpolled(j) => Unheard(j)'
    BY <1>0 DEF Unpolled, Unheard
  <2>5. QED
    BY <1>0, <1>1, <1>2, <1>4, <2>1, <2>2, <2>3, <2>4 DEF PolledOK
<1>8. SessionOK(p)' /\ ToolOK(p)'
  BY <1>4, <1>7 DEF SessionOK, LoadOK, AskRegOK, ReadRegOK, ReadErrOK, ToolOK, PromptOK, AnswerOK, PollOK,
                    DumpOK, DumpingOK
<1>9. OutcomeOK(p)' /\ ShownOK(p)'
  BY <1>4, <1>5 DEF OutcomeOK, ShownOK
<1>10. QED
  BY <1>3, <1>6, <1>8, <1>9, StepKeeps DEF FactsOf

(* The word that ends the polling is R0 of the program.                    *)
LEMMA PollAnsweredKeeps ==
  ASSUME DriverHoldsReply, HostInv, NEW p \in Process, PollAnswered(p)
  PROVE  HostInv'
<1>0. /\ KnowsOK /\ FactsOf(p) /\ pc[p] = "polled" /\ port = p /\ port' = p /\ talk' = talk
      /\ line = <<>> /\ line' = line /\ board' = board
      /\ Len(input) >= WordLen /\ input' = SubSeq(input, WordLen + 1, Len(input))
  BY HasPort DEF HostInv, PollAnswered, ReadExact, At, Owning
<1>1. PICK w, r : /\ w = SubSeq(input, 1, WordLen) /\ r = [sess[p] EXCEPT !.word = w]
                  /\ sess' = [sess EXCEPT ![p] = r]
  BY DEF PollAnswered, Know, Got
<1>2. /\ DOMAIN r = DOMAIN Idle /\ r.op = sess[p].op /\ r.req = sess[p].req /\ r.word = w
      /\ r.result = sess[p].result /\ r.loaded = sess[p].loaded /\ r.asked = sess[p].asked
  BY <1>0, <1>1 DEF KnowsOK, Idle
<1>3. StepOf(p, "dump", r, talk[p])
  BY <1>0, <1>1, <1>2, Unmoved DEF PollAnswered, Goto, StepOf
<1>4. pc'[p] = "dump" /\ sess'[p] = r /\ talk'[p] = talk[p]
  BY <1>0, <1>3, StepMoves
<1>5. r.result = "none" /\ r.op = "smoke"
  BY <1>0, <1>2 DEF FactsOf, PlaceOK, Ended
<1>6. PlaceOK(p)'
  BY <1>0, <1>2, <1>4, <1>5 DEF FactsOf, PlaceOK, Owning, Holding, Ended, Worded, FileOps
<1>7. Smoking(p)' <=> Smoking(p)
  BY <1>2, <1>4 DEF Smoking
<1>8. ASSUME Smoking(p) PROVE w = talk[p].want /\ AtRest(sess[p].req.job)'
  <2>1. PICK q, j : q = sess[p].req /\ j = q.job
    OBVIOUS
  <2>2. /\ talk[p].want = WordOf("reg", 0, j)
        /\ (FrameAndPoll(q) /\ input = <<>>) \/ Unheard(j) \/ Exchange(REG, 0, j)
    BY <1>0, <1>8, <2>1 DEF FactsOf, ToolOK, PolledOK
  <2>3. input # <<>>
    BY <1>0 DEF DriverHoldsReply
  <2>4. Exchange(REG, 0, j)
    BY <2>2, <2>3 DEF Unheard
  <2>5. PICK m : m = ReplyOf(REG, 0, j)
    OBVIOUS
  <2>6. m = WordOf("reg", 0, j) /\ Len(m) = WordLen
    <3>1. m = WordOf("reg", 0, j)
      BY <2>5, CommandNumbers DEF ReplyOf
    <3>2. REG # HEAP
      BY CommandNumbers
    <3>3. Len(m) = WordLen
      BY <2>5, <3>2, RepliesAreWords
    <3>4. QED
      BY <3>1, <3>3
  <2>7. SubSeq(input, 1, Len(m)) = m /\ SubSeq(input, Len(m) + 1, Len(input)) = <<>> /\ board = Halted(j)
    BY <1>0, <2>4, <2>5, <2>6, ReplyIsThere
  <2>8. AtRest(j)'
    BY <1>0, <2>6, <2>7 DEF AtRest
  <2>9. QED
    BY <1>1, <2>1, <2>2, <2>6, <2>7, <2>8
<1>9. DumpOK(p)'
  <2>1. PICK j : j = sess[p].req.job /\ j = sess'[p].req.job
    BY <1>2, <1>4
  <2>2. QED
    BY <1>7, <1>8, <2>1 DEF DumpOK
<1>10. SessionOK(p)' /\ ToolOK(p)'
  BY <1>4, <1>9 DEF SessionOK, LoadOK, AskRegOK, ReadRegOK, ReadErrOK, ToolOK, PromptOK, AnswerOK, PollOK,
                    PolledOK, DumpingOK
<1>11. OutcomeOK(p)'
  BY <1>4, <1>5 DEF OutcomeOK
<1>12. ShownOK(p)'
  BY <1>2, <1>4, <1>5, <1>8 DEF ShownOK, Trusted, Smoking
<1>13. QED
  BY <1>3, <1>6, <1>10, <1>11, <1>12, StepKeeps DEF FactsOf

(* Nothing has come and nothing is left of the poll that the monitor could *)
(* answer later; the next one is the first that it hears.                  *)
LEMMA PollFailsKeeps ==
  ASSUME DriverHoldsReply, HostInv, NEW p \in Process, PollFails(p)
  PROVE  HostInv'
<1>0. /\ KnowsOK /\ FactsOf(p) /\ pc[p] = "polled" /\ port = p /\ talk' = talk
      /\ Len(input) < WordLen /\ Still
  BY HasPort DEF HostInv, PollFails, TimedOut, At, Owning
<1>1. sess[p].result = "none" /\ sess[p].word = NoWord /\ sess[p].op = "smoke"
  BY <1>0 DEF FactsOf, PlaceOK, Ended, Worded
<1>2. CASE Finish(p, "error")
  BY <1>0, <1>2, FinishKeeps
<1>3. CASE Goto(p, "poll") /\ UNCHANGED <<board, line, port, sess>>
  <2>1. StepOf(p, "poll", sess[p], talk[p])
    BY <1>0, <1>3, Unmoved DEF Goto, StepOf
  <2>2. pc'[p] = "poll" /\ sess'[p] = sess[p] /\ talk'[p] = talk[p] /\ port' = p
    BY <1>0, <1>3, <2>1, StepMoves
  <2>3. PlaceOK(p)'
    BY <1>0, <1>1, <2>2 DEF FactsOf, PlaceOK, Owning, Holding, Ended, Worded, FileOps
  <2>4. Smoking(p) => Unpolled(sess[p].req.job)
    <3>1. SUFFICES ASSUME Smoking(p) PROVE Unpolled(sess[p].req.job)
      OBVIOUS
    <3>2. PICK j : j = sess[p].req.job
      OBVIOUS
    <3>3. PICK m : m = ReplyOf(REG, 0, j)
      OBVIOUS
    <3>4. Len(m) = WordLen
      BY <3>3, RepliesAreWords, CommandNumbers
    <3>5. Exchange(REG, 0, j) => Len(input) = Len(m)
      BY <1>0, <3>3, ReplyIsThere
    <3>6. ~Exchange(REG, 0, j)
      BY <1>0, <3>4, <3>5 DEF DriverHoldsReply
    <3>7. QED
      BY <1>0, <3>1, <3>2, <3>6, PollLeaves
  <2>5. PollOK(p)'
    <3>1. PICK j : j = sess[p].req.job /\ j = sess'[p].req.job
      BY <2>2
    <3>2. Unpolled(j) => Unpolled(j)'
      BY <1>3 DEF Unpolled
    <3>3. Smoking(p)' <=> Smoking(p)
      BY <2>2 DEF Smoking
    <3>4. QED
      BY <2>4, <3>1, <3>2, <3>3 DEF PollOK
  <2>6. SessionOK(p)' /\ ToolOK(p)'
    BY <2>2, <2>5 DEF SessionOK, LoadOK, AskRegOK, ReadRegOK, ReadErrOK, ToolOK, PromptOK, AnswerOK, PolledOK,
                      DumpOK, DumpingOK
  <2>7. OutcomeOK(p)' /\ ShownOK(p)'
    BY <1>1, <2>2 DEF OutcomeOK, ShownOK
  <2>8. QED
    BY <2>1, <2>3, <2>6, <2>7, StepKeeps DEF FactsOf
<1>4. QED
  BY <1>2, <1>3 DEF PollFails

LEMMA DumpKeeps ==
  ASSUME HostInv, NEW p \in Process, Dump(p)
  PROVE  HostInv'
<1>0. KnowsOK /\ FactsOf(p) /\ pc[p] = "dump" /\ port = p /\ sess[p].op = "smoke"
  BY HasPort DEF HostInv, FactsOf, PlaceOK, Dump, At, Owning
<1>1. CASE Finish(p, "ok") /\ talk' = talk
  BY <1>0, <1>1, FinishKeeps
<1>2. CASE ~(Finish(p, "ok") /\ talk' = talk)
  <2>1. PICK c \in {REG, ERR} :
           /\ Write(BytesOf(c, talk[p].asked))
           /\ Heard(p, [talk[p] EXCEPT !.asked = @ + 1,
                           !.want = WordOf(IF c = REG THEN "reg" ELSE "err",
                                           IF c = REG THEN talk[p].asked ELSE 0,
                                           sess[p].req.job)])
           /\ Know(p, [sess[p] EXCEPT !.word = NoWord])
           /\ Goto(p, "dumping")
           /\ UNCHANGED <<board, input, port, presses>>
    BY <1>2 DEF Dump
  <2>2. PICK a, n, j, w, r, t :
           /\ a = talk[p].asked /\ n = a + 1 /\ j = sess[p].req.job
           /\ w = WordOf(IF c = REG THEN "reg" ELSE "err", IF c = REG THEN a ELSE 0, j)
           /\ r = [sess[p] EXCEPT !.word = NoWord] /\ sess' = [sess EXCEPT ![p] = r]
           /\ t = [talk[p] EXCEPT !.asked = n, !.want = w] /\ talk' = [talk EXCEPT ![p] = t]
           /\ line' = line \o BytesOf(c, a)
    BY <2>1 DEF Heard, Know, Write
  <2>3. /\ DOMAIN r = DOMAIN Idle /\ r.op = sess[p].op /\ r.req = sess[p].req /\ r.word = NoWord
        /\ r.result = sess[p].result /\ r.loaded = sess[p].loaded /\ r.asked = sess[p].asked
    BY <1>0, <2>2 DEF KnowsOK, Idle
  <2>4. DOMAIN t = DOMAIN Silence /\ t.want = w /\ t.asked = n
    BY <1>0, <2>2 DEF KnowsOK, Silence
  <2>5. StepOf(p, "dumping", r, t)
    BY <1>0, <2>1, <2>2, <2>3, <2>4 DEF Goto, StepOf
  <2>6. pc'[p] = "dumping" /\ sess'[p] = r /\ talk'[p] = t
    BY <1>0, <2>5, StepMoves
  <2>7. r.result = "none" /\ r.op = "smoke"
    BY <1>0, <2>3 DEF FactsOf, PlaceOK, Ended
  <2>8. a \in Nat /\ n \in Nat /\ a \in 0 .. n
    <3>1. a \in Nat
      BY <1>0, <2>2 DEF FactsOf, PlaceOK
    <3>2. n = a + 1
      BY <2>2
    <3>3. QED
      BY <3>1, <3>2
  <2>9. PlaceOK(p)'
    BY <1>0, <2>1, <2>3, <2>4, <2>6, <2>7, <2>8 DEF FactsOf, PlaceOK, Owning, Holding, Ended, Worded, FileOps
  <2>10. ASSUME Smoking(p) PROVE w = ReplyOf(c, a, j) /\ Exchange(c, a, j)'
    <3>1. board = Halted(j) /\ line = <<>> /\ input = <<>>
      BY <1>0, <2>2, <2>10 DEF FactsOf, ToolOK, DumpOK, AtRest
    <3>2. c = REG \/ (c = ERR /\ ERR # REG /\ ERR # HEAP /\ ERR # HP)
      BY CommandNumbers
    <3>3. w = ReplyOf(c, a, j)
      <4>1. CASE c = REG
        BY <2>2, <4>1, CommandNumbers DEF ReplyOf
      <4>2. CASE c = ERR /\ ERR # REG /\ ERR # HEAP /\ ERR # HP
        BY <2>2, <4>2 DEF ReplyOf
      <4>3. QED
        BY <3>2, <4>1, <4>2
    <3>4. BytesOf(c, a) = <<Byte(REG), Byte(a)>> \/ BytesOf(c, a) = <<Byte(c)>>
      <4>1. CASE c = REG
        BY <4>1, CommandNumbers DEF BytesOf
      <4>2. CASE c = ERR /\ ERR # REG /\ ERR # HEAP /\ ERR # HP
        BY <4>2 DEF BytesOf
      <4>3. QED
        BY <3>2, <4>1, <4>2
    <3>5. line' = BytesOf(c, a)
      BY <2>2, <3>1, <3>4
    <3>6. c \in {REG, HEAP, HP, ERR}
      BY <2>1
    <3>7. Exchange(c, a, j)'
      BY <2>1, <3>1, <3>5, <3>6, Asking
    <3>8. QED
      BY <3>3, <3>7
  <2>11. DumpingOK(p)'
    <3>1. Smoking(p)' <=> Smoking(p)
      BY <2>3, <2>6 DEF Smoking
    <3>2. talk'[p].want = w /\ talk'[p].asked = n /\ sess'[p].req.job = j
      BY <2>2, <2>3, <2>4, <2>6
    <3>3. QED
      BY <2>8, <2>10, <3>1, <3>2 DEF DumpingOK
  <2>12. SessionOK(p)' /\ ToolOK(p)'
    BY <2>6, <2>11 DEF SessionOK, LoadOK, AskRegOK, ReadRegOK, ReadErrOK, ToolOK, PromptOK, AnswerOK, PollOK,
                       PolledOK, DumpOK
  <2>13. OutcomeOK(p)' /\ ShownOK(p)'
    BY <2>3, <2>6, <2>7 DEF OutcomeOK, ShownOK
  <2>14. QED
    BY <2>5, <2>9, <2>12, <2>13, StepKeeps DEF FactsOf
<1>3. QED
  BY <1>1, <1>2

LEMMA DumpedKeeps ==
  ASSUME DriverHoldsReply, HostInv, NEW p \in Process, Dumped(p)
  PROVE  HostInv'
<1>0. /\ KnowsOK /\ FactsOf(p) /\ pc[p] = "dumping" /\ port = p /\ port' = p /\ talk' = talk
      /\ line = <<>> /\ line' = line /\ board' = board
      /\ Len(input) >= WordLen /\ input' = SubSeq(input, WordLen + 1, Len(input))
  BY HasPort DEF HostInv, Dumped, ReadExact, At, Owning
<1>1. PICK w, r : /\ w = SubSeq(input, 1, WordLen) /\ r = [sess[p] EXCEPT !.word = w]
                  /\ sess' = [sess EXCEPT ![p] = r]
  BY DEF Dumped, Know, Got
<1>2. /\ DOMAIN r = DOMAIN Idle /\ r.op = sess[p].op /\ r.req = sess[p].req /\ r.word = w
      /\ r.result = sess[p].result /\ r.loaded = sess[p].loaded /\ r.asked = sess[p].asked
  BY <1>0, <1>1 DEF KnowsOK, Idle
<1>3. StepOf(p, "dump", r, talk[p])
  BY <1>0, <1>1, <1>2, Unmoved DEF Dumped, Goto, StepOf
<1>4. pc'[p] = "dump" /\ sess'[p] = r /\ talk'[p] = talk[p]
  BY <1>0, <1>3, StepMoves
<1>5. r.result = "none" /\ r.op = "smoke"
  BY <1>0, <1>2 DEF FactsOf, PlaceOK, Ended
<1>6. PlaceOK(p)'
  BY <1>0, <1>2, <1>4, <1>5 DEF FactsOf, PlaceOK, Owning, Holding, Ended, Worded, FileOps
<1>7. Smoking(p)' <=> Smoking(p)
  BY <1>2, <1>4 DEF Smoking
<1>8. ASSUME Smoking(p) PROVE w = talk[p].want /\ AtRest(sess[p].req.job)'
  <2>1. PICK j : j = sess[p].req.job
    OBVIOUS
  <2>2. PICK c \in {REG, ERR} : \E a \in 0 .. talk[p].asked : talk[p].want = ReplyOf(c, a, j) /\ Exchange(c, a, j)
    BY <1>0, <1>8, <2>1 DEF FactsOf, ToolOK, DumpingOK
  <2>3. PICK a, m : m = ReplyOf(c, a, j) /\ talk[p].want = m /\ Exchange(c, a, j)
    BY <2>2
  <2>4. c # HEAP
    BY CommandNumbers
  <2>5. Len(m) = WordLen
    BY <2>3, <2>4, RepliesAreWords
  <2>6. SubSeq(input, 1, Len(m)) = m /\ SubSeq(input, Len(m) + 1, Len(input)) = <<>> /\ board = Halted(j)
    BY <1>0, <2>3, <2>5, ReplyIsThere
  <2>7. AtRest(j)'
    BY <1>0, <2>5, <2>6 DEF AtRest
  <2>8. QED
    BY <1>1, <2>1, <2>3, <2>5, <2>6, <2>7
<1>9. DumpOK(p)'
  <2>1. PICK j : j = sess[p].req.job /\ j = sess'[p].req.job
    BY <1>2, <1>4
  <2>2. QED
    BY <1>7, <1>8, <2>1 DEF DumpOK
<1>10. SessionOK(p)' /\ ToolOK(p)'
  BY <1>4, <1>9 DEF SessionOK, LoadOK, AskRegOK, ReadRegOK, ReadErrOK, ToolOK, PromptOK, AnswerOK, PollOK,
                    PolledOK, DumpingOK
<1>11. OutcomeOK(p)'
  BY <1>4, <1>5 DEF OutcomeOK
<1>12. ShownOK(p)'
  BY <1>2, <1>4, <1>5, <1>8 DEF ShownOK, Trusted, Smoking
<1>13. QED
  BY <1>3, <1>6, <1>10, <1>11, <1>12, StepKeeps DEF FactsOf

LEMMA DumpFailsKeeps ==
  ASSUME DriverHoldsReply, HostInv, NEW p \in Process, DumpFails(p)
  PROVE  HostInv'
<1>0. /\ KnowsOK /\ FactsOf(p) /\ pc[p] = "dumping" /\ port = p /\ port' = p /\ talk' = talk /\ sess' = sess
      /\ Len(input) < WordLen /\ Still
  BY HasPort DEF HostInv, DumpFails, TimedOut, At, Owning
<1>1. StepOf(p, "dump", sess[p], talk[p])
  BY <1>0, Unmoved DEF DumpFails, Goto, StepOf
<1>2. pc'[p] = "dump" /\ sess'[p] = sess[p] /\ talk'[p] = talk[p]
  BY <1>0, <1>1, StepMoves
<1>3. sess[p].result = "none" /\ sess[p].word = NoWord /\ sess[p].op = "smoke"
  BY <1>0 DEF FactsOf, PlaceOK, Ended, Worded
<1>4. PlaceOK(p)'
  BY <1>0, <1>2, <1>3 DEF FactsOf, PlaceOK, Owning, Holding, Ended, Worded, FileOps
<1>5. ~Smoking(p)
  <2>1. SUFFICES ASSUME Smoking(p) PROVE FALSE
    OBVIOUS
  <2>2. PICK j : j = sess[p].req.job
    OBVIOUS
  <2>3. PICK c \in {REG, ERR} : \E a \in 0 .. talk[p].asked : talk[p].want = ReplyOf(c, a, j) /\ Exchange(c, a, j)
    BY <1>0, <2>1, <2>2 DEF FactsOf, ToolOK, DumpingOK
  <2>4. PICK a, m : m = ReplyOf(c, a, j) /\ Exchange(c, a, j)
    BY <2>3
  <2>5. c # HEAP
    BY CommandNumbers
  <2>6. Len(m) = WordLen
    BY <2>4, <2>5, RepliesAreWords
  <2>7. Len(input) = Len(m)
    BY <1>0, <2>4, ReplyIsThere
  <2>8. QED
    BY <1>0, <2>6, <2>7 DEF DriverHoldsReply
<1>6. DumpOK(p)'
  BY <1>2, <1>5 DEF DumpOK, Smoking
<1>7. SessionOK(p)' /\ ToolOK(p)'
  BY <1>2, <1>6 DEF SessionOK, LoadOK, AskRegOK, ReadRegOK, ReadErrOK, ToolOK, PromptOK, AnswerOK, PollOK,
                    PolledOK, DumpingOK
<1>8. OutcomeOK(p)' /\ ShownOK(p)'
  BY <1>2, <1>3 DEF OutcomeOK, ShownOK
<1>9. QED
  BY <1>1, <1>4, <1>7, <1>8, StepKeeps DEF FactsOf

LEMMA ToolKeeps ==
  ASSUME DriverHoldsReply, HostInv, NEW p \in Process, Tool(p)
  PROVE  HostInv'
<1>1. CASE Launch(p) \/ Opened(p) \/ Upload(p)
  BY <1>1, LaunchKeeps, OpenedKeeps, UploadKeeps
<1>2. CASE MonitorPy(p)
  BY <1>2, MonitorPyKeeps
<1>3. CASE Smoke(p)
  BY <1>3, PollKeeps, PollAnsweredKeeps, PollFailsKeeps, DumpKeeps, DumpedKeeps, DumpFailsKeeps DEF Smoke
<1>4. CASE Terminal(p)
  BY <1>4, PromptedKeeps, TerminalKeeps DEF Terminal
<1>5. CASE Session(p) /\ talk' = talk
  BY <1>5, SessionKeeps
<1>6. QED
  BY <1>1, <1>2, <1>3, <1>4, <1>5 DEF Tool

-----------------------------------------------------------------------------
LEMMA InitHostInv == Init => HostInv
<1>1. SUFFICES ASSUME Init PROVE HostInv
  OBVIOUS
<1>2. /\ pc = [p \in Process |-> pc[p]] /\ \A p \in Process : pc[p] \in {"unused", "done"}
      /\ sess = [p \in Process |-> Idle] /\ talk = [p \in Process |-> Silence]
  BY <1>1 DEF Init
<1>3. KnowsOK
  BY <1>2 DEF KnowsOK
<1>4. ASSUME NEW p \in Process PROVE FactsOf(p)
  <2>1. pc[p] \in {"unused", "done"} /\ sess[p] = Idle /\ talk[p] = Silence
    BY <1>2
  <2>2. /\ Idle.op = "none" /\ Idle.word = NoWord /\ Idle.result = "none" /\ Silence.asked = 0
    BY DEF Idle, Silence
  <2>3. PlaceOK(p)
    BY <2>1, <2>2 DEF PlaceOK, Owning, Holding, Ended, Worded, FileOps
  <2>4. SessionOK(p) /\ ToolOK(p)
    BY <2>1 DEF SessionOK, LoadOK, AskRegOK, ReadRegOK, ReadErrOK, ToolOK, PromptOK, AnswerOK, PollOK,
                PolledOK, DumpOK, DumpingOK
  <2>5. OutcomeOK(p) /\ ShownOK(p)
    BY <2>1, <2>2 DEF OutcomeOK, ShownOK
  <2>6. QED
    BY <2>3, <2>4, <2>5 DEF FactsOf
<1>5. QED
  BY <1>3, <1>4 DEF HostInv

LEMMA NextHostInv == DriverHoldsReply /\ HostInv /\ [Next]_vars => HostInv'
<1>1. SUFFICES ASSUME DriverHoldsReply, HostInv, [Next]_vars PROVE HostInv'
  OBVIOUS
<1>2. CASE Board \/ Button
  BY <1>1, <1>2, BoardKeeps, ButtonKeeps
<1>3. CASE Bridge
  <2>1. talk' = talk /\ ((\E c \in Conn : Thread(c)) \/ (\E l \in Lane : LaneStep(l)))
    BY <1>3 DEF Bridge
  <2>2. \A c \in Conn : c \in Process
    BY ProcessAssumption
  <2>3. QED
    BY <1>1, <2>1, <2>2, ThreadKeeps, LaneKeeps
<1>4. CASE Beside
  BY <1>1, <1>4, ToolKeeps DEF Beside, ToolProcess
<1>5. CASE UNCHANGED vars
  BY <1>1, <1>5, NothingKeeps DEF vars, boardVars, sessionVars
<1>6. QED
  BY <1>1, <1>2, <1>3, <1>4, <1>5 DEF Next

LEMMA HostInvHolds == DriverHoldsReply => (Spec => []HostInv)
<1>1. Init => HostInv
  BY InitHostInv
<1>2. SUFFICES ASSUME DriverHoldsReply PROVE Spec => []HostInv
  OBVIOUS
<1>3. HostInv /\ [Next]_vars => HostInv'
  BY <1>2, NextHostInv
<1>4. QED
  BY <1>1, <1>3, PTL DEF Spec

(* If the driver's buffer holds a reply of the board, then whatever lanes, *)
(* tools and programs do, a job that found the loader waiting and the      *)
(* monitor quiet, with no RESET since, is answered with its own register   *)
(* and error word (job_transport.py:93-125).                               *)
THEOREM JobsAnsweredInKind == ASSUME DriverHoldsReply PROVE Spec => []JobAnswerIsOwn
<1>1. HostInv => JobAnswerIsOwn
  <2>1. ASSUME HostInv, NEW p \in Process, sess[p].op = "execute", sess[p].result \in {"ok", "trapped"},
               sess[p].loaded, sess[p].asked
        PROVE  /\ sess[p].word = WordOf("reg", sess[p].req.register, sess[p].req.job)
               /\ sess[p].err = WordOf("err", 0, sess[p].req.job)
               /\ sess[p].result = "ok" <=> sess[p].req.job \notin Traps
    BY <2>1 DEF HostInv, FactsOf, OutcomeOK, Mine
  <2>2. QED
    BY <2>1 DEF JobAnswerIsOwn
<1>2. Spec => []HostInv
  BY HostInvHolds
<1>3. QED
  BY <1>1, <1>2, PTL

(* Under the same hypothesis the two words of a monitor request that found *)
(* the board quiet are of one run (fpga_runner_bridge_server.py:106-119).  *)
THEOREM MonitorSeesOneRun == ASSUME DriverHoldsReply PROVE Spec => []MonitorReadsOneRun
<1>1. HostInv => MonitorReadsOneRun
  BY DEF HostInv, FactsOf, OutcomeOK, MonitorReadsOneRun
<1>2. Spec => []HostInv
  BY HostInvHolds
<1>3. QED
  BY <1>1, <1>2, PTL

(* If besides the tools send files that are as long as they announce, and  *)
(* monitor.py asks what the monitor answers, every word that a tool reads  *)
(* in step is the reply of its own question (monitor.py:79-133,            *)
(* upc8_smoke_driver.py:23-44).                                            *)
THEOREM ToolsReadTheirReplies ==
  ASSUME DriverHoldsReply, FramesFit, QuestionsKnown PROVE Spec => []ToolReadsItsReply
<1>1. HostInv => ToolReadsItsReply
  BY DEF HostInv, FactsOf, ShownOK, ToolReadsItsReply, ToolProcess
<1>2. Spec => []HostInv
  BY HostInvHolds
<1>3. QED
  BY <1>1, <1>2, PTL

-----------------------------------------------------------------------------
(* How many steps a thread of the bridge still has at most: its places in  *)
(* the order in which handle, execute, monitor and probe come to them.     *)
StepsLeft(c) ==
    CASE pc[c] = "unused"     -> 14
      [] pc[c] = "accepted"   -> 13
      [] pc[c] = "lock"       -> 12
      [] pc[c] = "start"      -> 11
      [] pc[c] = "reset_wait" -> 10
      [] pc[c] = "open"       -> 9
      [] pc[c] \in {"opened", "rearm_wait"} -> 8
      [] pc[c] = "frame"      -> 7
      [] pc[c] = "halt_wait"  -> 6
      [] pc[c] = "ask_reg"    -> 5
      [] pc[c] = "read_reg"   -> 4
      [] pc[c] = "read_err"   -> 3
      [] pc[c] = "finished"   -> 2
      [] pc[c] = "reply"      -> 1
      [] OTHER                -> 0
NoWayBack == \A c \in Conn : /\ StepsLeft(c)' <= StepsLeft(c)
                             /\ Thread(c) => StepsLeft(c)' < StepsLeft(c)

LEMMA StepsAreNat == ASSUME NEW c PROVE StepsLeft(c) \in 0 .. 14 /\ StepsLeft(c)' \in 0 .. 14
BY DEF StepsLeft

LEMMA GotoPlace ==
  ASSUME PcOK, NEW p \in Process, NEW l, Goto(p, l)
  PROVE  pc'[p] = l /\ \A q \in Process : q # p => pc'[q] = pc[q]
BY DEF PcOK, Goto

(* The session's part: the port is opened at most once.                    *)
LEMMA SessionDescends ==
  ASSUME PcOK, NEW c \in Process, Session(c) \/ StartMonitor(c) \/ StartProbe(c) \/ Probed(c)
  PROVE  StepsLeft(c)' < StepsLeft(c)
<1>1. CASE \/ Start(c) \/ ResetWaited(c) \/ StartMonitor(c) \/ StartProbe(c)
  <2>1. /\ pc[c] \in {"start", "reset_wait"}
        /\ \E l \in {"open", "reset_wait", "finished"} : Goto(c, l) /\ (l = "reset_wait" => pc[c] = "start")
    BY <1>1 DEF Start, ResetWaited, StartMonitor, StartProbe, At, Finish
  <2>2. pc'[c] \in {"open", "reset_wait", "finished"} /\ (pc'[c] = "reset_wait" => pc[c] = "start")
    BY <2>1, GotoPlace
  <2>3. QED
    BY <2>1, <2>2 DEF StepsLeft
<1>2. CASE Open(c)
  <2>1. /\ pc[c] = "open"
        /\ \E l \in {"rearm_wait", "frame", "ask_reg", "opened"} : Goto(c, l)
    BY <1>2 DEF Open, At
  <2>2. pc'[c] \in {"rearm_wait", "frame", "ask_reg", "opened"}
    BY <2>1, GotoPlace
  <2>3. QED
    BY <2>1, <2>2 DEF StepsLeft
<1>3. CASE RearmWaited(c) \/ SendFrame(c) \/ Settled(c) \/ AskReg(c) \/ ReadReg(c)
  <2>1. \/ pc[c] = "rearm_wait" /\ Goto(c, "frame")
        \/ pc[c] = "frame" /\ Goto(c, "halt_wait")
        \/ pc[c] = "halt_wait" /\ Goto(c, "ask_reg")
        \/ pc[c] = "ask_reg" /\ Goto(c, "read_reg")
        \/ pc[c] = "read_reg" /\ Goto(c, "read_err")
    BY <1>3 DEF RearmWaited, SendFrame, Settled, AskReg, ReadReg, At
  <2>2. \/ pc[c] = "rearm_wait" /\ pc'[c] = "frame"
        \/ pc[c] = "frame" /\ pc'[c] = "halt_wait"
        \/ pc[c] = "halt_wait" /\ pc'[c] = "ask_reg"
        \/ pc[c] = "ask_reg" /\ pc'[c] = "read_reg"
        \/ pc[c] = "read_reg" /\ pc'[c] = "read_err"
    BY <2>1, GotoPlace
  <2>3. QED
    BY <2>2 DEF StepsLeft
<1>4. CASE SendFails(c) \/ ReadErr(c) \/ ReadFails(c) \/ OpenFails(c) \/ Probed(c)
  <2>1. pc[c] \in {"frame", "read_reg", "read_err", "open", "opened"} /\ Goto(c, "finished")
    BY <1>4 DEF SendFails, ReadErr, ReadFails, OpenFails, Probed, At, Finish
  <2>2. pc'[c] = "finished"
    BY <2>1, GotoPlace
  <2>3. QED
    BY <2>1, <2>2 DEF StepsLeft
<1>5. QED
  BY <1>1, <1>2, <1>3, <1>4 DEF Session, Execute, Readout

LEMMA ThreadDescends ==
  ASSUME PcOK, NEW c \in Conn, Thread(c)
  PROVE  StepsLeft(c)' < StepsLeft(c) /\ \A q \in Process : q # c => pc'[q] = pc[q]
<1>0. c \in Process
  BY ProcessAssumption
<1>1. \E l : Goto(c, l)
  <2>1. CASE Work(c)
    BY <2>1 DEF Work, Session, Execute, Readout, Start, ResetWaited, Open, OpenFails, RearmWaited,
                SendFrame, SendFails, Settled, AskReg, ReadReg, ReadErr, ReadFails, StartMonitor,
                StartProbe, Probed, Finish
  <2>2. CASE Disallowed(c) \/ NoLine(c) \/ Dispatch(c) \/ Acquire(c) \/ Release(c) \/ Reply(c)
    BY <2>2 DEF Disallowed, NoLine, Dispatch, Respond, Acquire, Release, Reply
  <2>3. QED
    BY <2>1, <2>2 DEF Thread
<1>2. \A q \in Process : q # c => pc'[q] = pc[q]
  BY <1>0, <1>1, GotoPlace
<1>3. CASE Work(c)
  BY <1>0, <1>2, <1>3, SessionDescends DEF Work
<1>4. CASE Disallowed(c) \/ NoLine(c) \/ Dispatch(c) \/ Acquire(c) \/ Release(c) \/ Reply(c)
  <2>1. \/ pc[c] = "accepted" /\ \E l \in {"reply", "done", "lock"} : Goto(c, l)
        \/ pc[c] = "lock" /\ Goto(c, "start")
        \/ pc[c] = "finished" /\ Goto(c, "reply")
        \/ pc[c] = "reply" /\ Goto(c, "done")
    BY <1>4 DEF Disallowed, NoLine, Dispatch, Respond, Acquire, Release, Reply, At
  <2>2. \/ pc[c] = "accepted" /\ pc'[c] \in {"reply", "done", "lock"}
        \/ pc[c] = "lock" /\ pc'[c] = "start"
        \/ pc[c] = "finished" /\ pc'[c] = "reply"
        \/ pc[c] = "reply" /\ pc'[c] = "done"
    BY <1>0, <2>1, GotoPlace
  <2>3. QED
    BY <1>2, <2>2 DEF StepsLeft
<1>5. QED
  BY <1>2, <1>3, <1>4 DEF Thread

(* A tool moves nobody but itself.                                         *)
LEMMA ToolMovesItself ==
  ASSUME NEW p \in Process, Tool(p)
  PROVE  (\E l : Goto(p, l)) \/ pc' = pc
<1>1. CASE Launch(p) \/ Opened(p) \/ Upload(p)
  BY <1>1 DEF Launch, Opened, Upload
<1>2. CASE MonitorPy(p)
  BY <1>2 DEF MonitorPy, TooLong, Discard, AskPrompt, Answer, NoReply, Quit, Finish
<1>3. CASE Smoke(p)
  BY <1>3 DEF Smoke, Poll, PollAnswered, PollFails, Dump, Dumped, DumpFails, Finish
<1>4. CASE Terminal(p)
  BY <1>4 DEF Terminal, Prompted, Show, Type, Interrupt, Finish, sessionVars
<1>5. CASE Session(p)
  BY <1>5 DEF Session, Execute, Readout, Start, ResetWaited, Open, OpenFails, RearmWaited,
              SendFrame, SendFails, Settled, AskReg, ReadReg, ReadErr, ReadFails, Finish
<1>6. QED
  BY <1>1, <1>2, <1>3, <1>4, <1>5 DEF Tool

(* A client, a tool and the board leave the threads where they are, but    *)
(* for the connection a client opens.                                      *)
LEMMA OthersLeaveThreads ==
  ASSUME PcOK, NEW c \in Conn,
         \/ Board \/ Button \/ Beside \/ UNCHANGED vars
         \/ \E l \in Lane : LaneStep(l)
  PROVE  pc'[c] = pc[c] \/ (pc[c] = "unused" /\ pc'[c] = "accepted")
<1>0. c \in Process
  BY ProcessAssumption
<1>1. CASE Board \/ Button \/ UNCHANGED vars
  BY <1>1 DEF Board, Button, PressReset, vars, sessionVars
<1>2. CASE Beside
  <2>1. PICK p \in ToolProcess : Tool(p)
    BY <1>2 DEF Beside
  <2>2. p \in Process /\ p # c
    BY <2>1 DEF ToolProcess
  <2>3. (\E l : Goto(p, l)) \/ pc' = pc
    BY <2>1, <2>2, ToolMovesItself
  <2>4. QED
    BY <1>0, <2>2, <2>3, GotoPlace
<1>3. CASE \E l \in Lane : LaneStep(l)
  <2>1. PICK l \in Lane : LaneStep(l)
    BY <1>3
  <2>2. CASE Refuse(l) \/ Receive(l) \/ GiveUp(l)
    BY <2>2 DEF Refuse, Receive, GiveUp, sessionVars
  <2>3. CASE Connect(l)
    <3>1. PICK d \in Conn : pc[d] = "unused" /\ Goto(d, "accepted")
      BY <2>3 DEF Connect, At
    <3>2. d \in Process
      BY ProcessAssumption
    <3>3. QED
      BY <1>0, <3>1, <3>2, GotoPlace
  <2>4. QED
    BY <2>1, <2>2, <2>3 DEF LaneStep
<1>4. QED
  BY <1>1, <1>2, <1>3

(* No request goes round, and no thread is ever moved by another one: each *)
(* step of a thread, by success, refusal or any of the exceptions, is one  *)
(* nearer to its end, which it reaches after at most thirteen, and nothing *)
(* else moves it but the client that opens its connection.  So RequestsEnd *)
(* asks of the scheduler only that the threads, and what they wait for     *)
(* (the line, the lock, a timeout), go on                                  *)
(* (fpga_runner_bridge_server.py:106-234).                         *)
THEOREM ThreadsDescend == Spec => [][NoWayBack]_vars
<1>1. ASSUME PcOK, [Next]_vars, NEW c \in Conn
      PROVE  /\ StepsLeft(c)' <= StepsLeft(c)
             /\ Thread(c) => StepsLeft(c)' < StepsLeft(c)
  <2>0. c \in Process /\ Conn \subseteq Process
    BY ProcessAssumption
  <2>1. Thread(c) => StepsLeft(c)' < StepsLeft(c)
    BY <1>1, ThreadDescends
  <2>2. StepsLeft(c)' <= StepsLeft(c)
    <3>1. CASE \E d \in Conn : Thread(d)
      <4>1. PICK d \in Conn : Thread(d)
        BY <3>1
      <4>2. CASE d = c
        BY <2>1, <4>1, <4>2, StepsAreNat
      <4>3. CASE d # c
        <5>1. pc'[c] = pc[c]
          BY <1>1, <2>0, <4>1, <4>3, ThreadDescends
        <5>2. QED
          BY <5>1, StepsAreNat DEF StepsLeft
      <4>4. QED
        BY <4>2, <4>3
    <3>2. CASE \/ Board \/ Button \/ Beside \/ UNCHANGED vars
               \/ \E l \in Lane : LaneStep(l)
      <4>1. pc'[c] = pc[c] \/ (pc[c] = "unused" /\ pc'[c] = "accepted")
        BY <1>1, <3>2, OthersLeaveThreads
      <4>2. CASE pc'[c] = pc[c]
        BY <4>2, StepsAreNat DEF StepsLeft
      <4>3. CASE pc[c] = "unused" /\ pc'[c] = "accepted"
        BY <4>3 DEF StepsLeft
      <4>4. QED
        BY <4>1, <4>2, <4>3
    <3>3. QED
      BY <1>1, <3>1, <3>2 DEF Next, Bridge
  <2>3. QED
    BY <2>1, <2>2
<1>2. PcOK /\ [Next]_vars => NoWayBack
  BY <1>1 DEF NoWayBack
<1>3. IInv => PcOK
  BY DEF IInv
<1>4. QED
  BY <1>2, <1>3, IInvHolds, PTL DEF Spec
=============================================================================
