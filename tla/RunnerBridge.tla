---------------------------- MODULE RunnerBridge ----------------------------
(***************************************************************************)
(* scripts/fpga_runner_bridge_server.py, which gives the lanes of          *)
(* scripts/fpga_runner_lane.py one board in turn: a thread for every       *)
(* connection, and one lock around whatever touches the serial port.  A    *)
(* lane that has waited too long goes away and may be started again, and   *)
(* the thread of its first connection works on.  The tools that open the   *)
(* port themselves (monitor.py and others) are processes beside the        *)
(* bridge: the lock does not know them.                                    *)
(***************************************************************************)
EXTENDS JobTransport

CONSTANTS Lane,           \* clients
          Conn            \* connections, each served by a thread

ASSUME ProcessAssumption == Conn \subseteq Process /\ Nobody \notin Process

VARIABLES lock,           \* SERIAL_LOCK: the thread that holds it
          lane            \* what each client waits for

(* tries bounds how often a lane is still started.                         *)
BridgeInit(tries) == /\ lock = Nobody
                     /\ lane = [l \in Lane |-> [at |-> "idle", conn |-> Nobody, tries |-> tries]]

InLock(c) == pc[c] \in {"start", "reset_wait", "open", "opened", "rearm_wait", "frame", "halt_wait",
                        "ask_reg", "read_reg", "read_err", "finished"}

-----------------------------------------------------------------------------
(* The lane: a file that is not a program is refused before anything is    *)
(* sent; otherwise one request goes out on a connection of its own.        *)
Refuse(l) == /\ lane[l].at \in {"idle", "failed"}
             /\ lane[l].tries > 0
             /\ lane' = [lane EXCEPT ![l] = [at |-> "failed", conn |-> Nobody, tries |-> @.tries - 1]]
             /\ UNCHANGED <<boardVars, sessionVars, lock>>

FromFile(q) == q.version = 1 /\ ~q.extended /\ q.reserved = 0 /\ q.bits = 0 /\ q.size = 4 * q.words

Connect(l) ==
    /\ lane[l].at \in {"idle", "failed"}
    /\ lane[l].tries > 0
    /\ \E c \in Conn :
          /\ At(c, "unused")
          /\ \E a \in Asked[c] :
                /\ a.op = "execute" => FromFile(a.req)
                /\ Know(c, Started(a))
          /\ Goto(c, "accepted")
          /\ lane' = [lane EXCEPT ![l] = [at |-> "waiting", conn |-> c, tries |-> @.tries - 1]]
    /\ UNCHANGED <<boardVars, lock>>

(* transact: only an answer with ok true is returned.                      *)
Receive(l) == /\ lane[l].at = "waiting"
              /\ At(lane[l].conn, "done")
              /\ lane' = [lane EXCEPT ![l].at = IF sess[lane[l].conn].result = "ok" THEN "returned"
                                                                                   ELSE "failed"]
              /\ UNCHANGED <<boardVars, sessionVars, lock>>

(* The socket's timeout, or the lane is stopped.                           *)
GiveUp(l) == /\ lane[l].at = "waiting"
             /\ ~At(lane[l].conn, "done")
             /\ lane' = [lane EXCEPT ![l].at = "failed"]
             /\ UNCHANGED <<boardVars, sessionVars, lock>>

-----------------------------------------------------------------------------
(* Handler.handle: the peer, then the line, then the request.              *)
Respond(c, outcome) == /\ Goto(c, "reply")
                      /\ Know(c, [sess[c] EXCEPT !.result = outcome])
                      /\ UNCHANGED <<boardVars, lock, lane>>

(* A client that went away before it sent anything.                        *)
NoLine(c) == /\ At(c, "accepted")
             /\ \A l \in Lane : ~(lane[l].conn = c /\ lane[l].at = "waiting")
             /\ Goto(c, "done")
             /\ UNCHANGED <<boardVars, sess, lock, lane>>

(* A peer that is not in the WSL network, or whose network is not known.    *)
Disallowed(c) == At(c, "accepted") /\ Respond(c, "error")

(* handle_request: ping needs no lock, an unknown op and bad JSON raise.   *)
Dispatch(c) == /\ At(c, "accepted")
               /\ CASE sess[c].op = "ping" -> Respond(c, "ok")
                    [] sess[c].op \in {"probe", "monitor", "execute"} ->
                           /\ Goto(c, "lock")
                           /\ UNCHANGED <<boardVars, sess, lock, lane>>
                    [] OTHER -> Respond(c, "error")

(* Faulty: a monitor read does not take the lock.                          *)
FaultyAcquire(c) == /\ At(c, "lock")
                    /\ lock = Nobody \/ sess[c].op = "monitor"
                    /\ lock' = c
                    /\ Goto(c, "start")
                    /\ UNCHANGED <<boardVars, sess, lane>>

Acquire(c) == /\ At(c, "lock")
              /\ lock = Nobody
              /\ lock' = c
              /\ Goto(c, "start")
              /\ UNCHANGED <<boardVars, sess, lane>>

(* monitor() and probe(): their checks, and what probe does with the port. *)
StartMonitor(c) == /\ At(c, "start")
                   /\ sess[c].op = "monitor"
                   /\ IF sess[c].req.register <= 15
                      THEN Goto(c, "open") /\ UNCHANGED <<boardVars, sess>>
                      ELSE Finish(c, "error")
StartProbe(c) == /\ At(c, "start")
                 /\ sess[c].op = "probe"
                 /\ \/ Goto(c, "open") /\ UNCHANGED <<boardVars, sess>>
                    \/ Finish(c, "error")                    \* no such port
Probed(c) == At(c, "opened") /\ Finish(c, "ok")

Work(c) == /\ Session(c) \/ StartMonitor(c) \/ StartProbe(c) \/ Probed(c)
           /\ UNCHANGED <<lock, lane>>

(* Faulty: an exception leaves the lock taken.                             *)
FaultyRelease(c) == /\ At(c, "finished")
                    /\ lock' = IF sess[c].result = "error" THEN lock ELSE Nobody
                    /\ Goto(c, "reply")
                    /\ UNCHANGED <<boardVars, sess, lane>>

(* The end of "with SERIAL_LOCK", by a return or an exception.             *)
Release(c) == /\ At(c, "finished")
              /\ lock' = Nobody
              /\ Goto(c, "reply")
              /\ UNCHANGED <<boardVars, sess, lane>>

(* The answer is written, to a lane that still waits or to nobody, and the *)
(* thread ends.                                                            *)
Reply(c) == /\ At(c, "reply")
            /\ Goto(c, "done")
            /\ Know(c, [Idle EXCEPT !.result = sess[c].result])
            /\ UNCHANGED <<boardVars, lock, lane>>

Thread(c) == \/ Disallowed(c) \/ NoLine(c) \/ Dispatch(c) \/ Acquire(c) \/ Work(c) \/ Release(c)
             \/ Reply(c)
LaneStep(l) == Refuse(l) \/ Connect(l) \/ Receive(l) \/ GiveUp(l)
=============================================================================
