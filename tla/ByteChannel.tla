---------------------------- MODULE ByteChannel ----------------------------
(***************************************************************************)
(* What a serial line of fpga/rtl/uart.sv promises: the bytes given to the *)
(* transmitter come out of the receiver, each once and in order, each as a *)
(* pulse of one clock.  A reset drops what is under way.                   *)
(***************************************************************************)
EXTENDS Naturals, Sequences

CONSTANT Bytes            \* what may be sent

VARIABLES flight,         \* taken by the transmitter, not yet received
          out             \* what the receiver shows: rx_valid, rx_data

channelVars == <<flight, out>>

Shown(v) == v \in [valid : BOOLEAN, data : 0 .. 255]

Init == /\ flight = <<>>
        /\ out = [valid |-> FALSE, data |-> 0]

(* One clock: a byte may be taken, and the oldest one may come out.        *)
Taken(f)  == \E b \in Bytes : flight' = Append(f, b)
Kept(f)   == flight' = f
Deliver   == /\ flight # <<>>
             /\ out' = [valid |-> TRUE, data |-> Head(flight)]
             /\ Taken(Tail(flight)) \/ Kept(Tail(flight))
Quiet     == /\ out' = [out EXCEPT !.valid = FALSE]
             /\ Taken(flight) \/ Kept(flight)
Reset     == Init'

Next == Deliver \/ Quiet \/ Reset
Spec == Init /\ [][Next]_channelVars /\ WF_channelVars(Deliver)
=============================================================================
