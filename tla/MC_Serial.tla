----------------------------- MODULE MC_Serial ------------------------------
(* The two ends of the serial line, one in a behaviour: the receiver with  *)
(* the board's transmitter or a host's adapter on its line, clock by       *)
(* clock, and the bootloader on its board, byte by byte, with frames of    *)
(* every shape: none, one, two and three words (lengths that need both     *)
(* length bytes), none, one and two registers.                             *)
EXTENDS UartLine, BootMachine

W(n) == <<n, n + 1, n + 2, n + 3>>
R(r, n) == [reg |-> r, word |-> W(n)]

MCJobs == {[regs |-> <<>>, prog |-> <<>>],
           [regs |-> <<>>, prog |-> <<W(16)>>],
           [regs |-> <<>>, prog |-> <<W(32), W(48), W(64)>>],
           [regs |-> <<R(1, 80)>>, prog |-> <<W(96), W(112)>>],
           [regs |-> <<R(2, 80), R(0, 128)>>, prog |-> <<W(144)>>]}
MCGarbage == {<<255, 255, 255, 255>>}

VARIABLE part

SerialInit == /\ part \in {"line", "loader"}
              /\ LineInit /\ (part = "loader" => wire = "board")
              /\ Init
SerialNext == \/ part = "line" /\ LineNext /\ UNCHANGED <<part, vars>>
              \/ part = "loader" /\ Next /\ UNCHANGED <<part, lineVars>>
SerialSpec == /\ SerialInit
              /\ [][SerialNext]_<<part, lineVars, vars>>
              /\ WF_lineVars(part = "line" /\ BoardDrives)
              /\ WF_lineVars(part = "line" /\ HostDrives)
=============================================================================
