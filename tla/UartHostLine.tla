---------------------------- MODULE UartHostLine ----------------------------
(***************************************************************************)
(* uart_rx of fpga/rtl/uart.sv at the end of a real line.  The host's      *)
(* serial adapter is no part of the repository: it has a clock of its own, *)
(* so an edge of a frame may come up to Early clocks before or Late clocks *)
(* after its time, and an idle line may pick up a short pulse.             *)
(***************************************************************************)
EXTENDS Integers, Sequences

CONSTANTS ClkPerBit, Bytes,
          Early, Late,    \* how far an edge may be from its time, in clocks
          Calm            \* clocks between a pulse and the next pulse or frame

VARIABLES host,           \* bit of the frame (0: idle), its age in clocks, the skew
                          \* of its first edge, byte, calm, noise
          receiver,
          flight          \* history: bytes of started frames, not yet shown

Rx == INSTANCE UartRx

Resting == [bit |-> 0, age |-> 0, skew |-> 0, byte |-> 0, calm |-> 0, noise |-> 0]

Weights == <<1, 2, 4, 8, 16, 32, 64, 128>>

Line == CASE host.bit = 0        -> 1 - host.noise
          [] host.bit = 1        -> 0
          [] host.bit \in 2 .. 9 -> (host.byte \div Weights[host.bit - 1]) % 2
          [] host.bit = 10       -> 1

Log(started) == flight' = (IF receiver'.rx_valid /\ flight # <<>> THEN Tail(flight) ELSE flight)
                              \o started

(* Where the edge would be if the bit ended with this clock.               *)
Edge == host.skew + host.age + 1 - ClkPerBit

Lasts  == /\ host.bit # 0
          /\ Edge < Late
          /\ host' = [host EXCEPT !.age = @ + 1]
          /\ Log(<<>>)
Ends   == /\ host.bit # 0
          /\ Edge \in (-Early) .. Late
          /\ host' = IF host.bit = 10 THEN Resting
                                      ELSE [host EXCEPT !.bit = @ + 1, !.age = 0, !.skew = Edge]
          /\ Log(<<>>)
Starts == \E b \in Bytes : /\ host.bit = 0
                           /\ host.calm = 0
                           /\ host' = [Resting EXCEPT !.bit = 1, !.byte = b]
                           /\ Log(<<b>>)
Rests  == /\ host.bit = 0
          /\ host' = [host EXCEPT !.noise = 0, !.calm = IF @ = 0 THEN 0 ELSE @ - 1]
          /\ Log(<<>>)
Pulse  == /\ host.bit = 0
          /\ host.calm = 0
          /\ Calm > 0
          /\ host' = [host EXCEPT !.noise = 1, !.calm = Calm]
          /\ Log(<<>>)

Clock == Rx!Receive(Line) /\ (Lasts \/ Ends \/ Starts \/ Rests \/ Pulse)
=============================================================================
