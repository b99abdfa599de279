---------------------------- MODULE SandhiEngine ----------------------------
(***************************************************************************)
(* fpga/rtl/sandhi_engine.sv: the sequential rule engine behind MOV with   *)
(* rs2 = 7.  One step is one clock edge.  It walks three rules in order,   *)
(* three clocks each, and stops at the first that matches.                 *)
(***************************************************************************)
EXTENDS SandhiRules

CONSTANT Inputs           \* codes that may be on code_prev and code_curr

ASSUME InputsAssumption == Inputs \subseteq Byte

VARIABLES fsm,            \* state, rule_idx, matched
          codes,          \* prev_q, curr_q
          latch           \* m_mode, m_out0, m_out1

engVars == <<fsm, codes, latch>>

IdleFsm == [state |-> "IDLE", rule |-> 0, matched |-> FALSE]
Init == /\ fsm = IdleFsm
        /\ codes = [prev |-> 0, curr |-> 0]
        /\ latch = Mk(0, 0, 0)

Hit  == Rule(fsm.rule, codes.prev, codes.curr)
done == fsm.state = "OUTPUT"

Start(p, c) == /\ fsm.state = "IDLE"
               /\ fsm' = [IdleFsm EXCEPT !.state = "LOAD_RULE"]
               /\ codes' = [prev |-> p, curr |-> c]
               /\ UNCHANGED latch

Rest == /\ fsm.state = "IDLE"
        /\ fsm' = IdleFsm
        /\ UNCHANGED <<codes, latch>>

LoadRule == /\ fsm.state = "LOAD_RULE"
            /\ fsm' = [fsm EXCEPT !.state = "APPLY"]
            /\ UNCHANGED <<codes, latch>>

Apply == /\ fsm.state = "APPLY"
         /\ \/ /\ Hit = {}
               /\ fsm' = [fsm EXCEPT !.state = "CHECK_NEXT"]
               /\ UNCHANGED latch
            \/ /\ latch' \in Hit
               /\ fsm' = [fsm EXCEPT !.state = "CHECK_NEXT", !.matched = TRUE]
         /\ UNCHANGED codes

(* Faulty: a rule that fails is tried again; a passthrough shows what an   *)
(* earlier run latched.                                                    *)
FaultyCheckNext(step, pass) ==
    /\ fsm.state = "CHECK_NEXT"
    /\ \/ /\ fsm.matched
          /\ fsm' = [fsm EXCEPT !.state = "OUTPUT"]
          /\ UNCHANGED latch
       \/ /\ ~fsm.matched /\ fsm.rule = 2
          /\ fsm' = [fsm EXCEPT !.state = "OUTPUT"]
          /\ latch' = pass
       \/ /\ ~fsm.matched /\ fsm.rule < 2
          /\ fsm' = [fsm EXCEPT !.state = "LOAD_RULE", !.rule = @ + step]
          /\ UNCHANGED latch
    /\ UNCHANGED codes
FaultySameRule        == FaultyCheckNext(0, Mk(0, codes.prev, codes.curr))
FaultyStalePassthrough == FaultyCheckNext(1, latch)

CheckNext == /\ fsm.state = "CHECK_NEXT"
             /\ \/ /\ fsm.matched
                   /\ fsm' = [fsm EXCEPT !.state = "OUTPUT"]
                   /\ UNCHANGED latch
                \/ /\ ~fsm.matched /\ fsm.rule = 2
                   /\ fsm' = [fsm EXCEPT !.state = "OUTPUT"]
                   /\ latch' = Mk(0, codes.prev, codes.curr)
                \/ /\ ~fsm.matched /\ fsm.rule < 2
                   /\ fsm' = [fsm EXCEPT !.state = "LOAD_RULE", !.rule = @ + 1]
                   /\ UNCHANGED latch
             /\ UNCHANGED codes

Output == /\ done
          /\ fsm' = [fsm EXCEPT !.state = "IDLE"]
          /\ UNCHANGED <<codes, latch>>

Reset == /\ fsm' = IdleFsm
         /\ codes' = [prev |-> 0, curr |-> 0]
         /\ latch' = Mk(0, 0, 0)

(* A start is only looked at in IDLE.                                      *)
Walk  == LoadRule \/ Apply \/ CheckNext \/ Output
Clock == Rest \/ Walk

Next == \/ \E p, c \in Inputs : Start(p, c)
        \/ Clock
        \/ Reset

Spec == Init /\ [][Next]_engVars /\ WF_engVars(Walk)
-----------------------------------------------------------------------------
(* When the engine says done it shows the result of the first matching     *)
(* rule for the codes it was started on, whatever was on its inputs since   *)
(* and whatever an earlier run left latched.                               *)
DoneIsSandhi == done => latch = SandhiOf(codes.prev, codes.curr)

(* Every started run ends: the engine always comes back to IDLE, where it  *)
(* can be started again.                                                   *)
EveryRunEnds == (fsm.state = "LOAD_RULE") ~> (fsm.state = "IDLE")
=============================================================================
