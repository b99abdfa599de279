------------------------------ MODULE UartLine ------------------------------
(***************************************************************************)
(* The two ends the receiver of fpga/rtl/uart.sv is used with: the board's *)
(* own transmitter (UartLink) and a host's serial adapter (UartHostLine).  *)
(* Which one drives the line is chosen once.                               *)
(***************************************************************************)
EXTENDS UartLink

CONSTANTS Early, Late,    \* how far an edge of the host may be from its time
          Calm            \* clocks between a pulse and the next pulse or frame

ASSUME SkewAssumption == Early \in Nat /\ Late \in Nat /\ Calm \in Nat

VARIABLES adapter,        \* the host's adapter, host in UartHostLine
          wire            \* who drives the line

lineVars == <<linkVars, adapter, wire>>

Adapter == INSTANCE UartHostLine WITH host <- adapter

LineInit == LinkInit /\ adapter = Adapter!Resting /\ wire \in {"board", "host"}

BoardDrives == wire = "board" /\ LinkClock /\ UNCHANGED <<adapter, wire>>
BoardResets == wire = "board" /\ LinkReset /\ UNCHANGED <<adapter, wire>>
HostDrives  == wire = "host" /\ Adapter!Clock /\ UNCHANGED <<sender, wire>>

LineNext == BoardDrives \/ BoardResets \/ HostDrives

LineSpec == /\ LineInit
            /\ [][LineNext]_lineVars
            /\ WF_lineVars(BoardDrives) /\ WF_lineVars(HostDrives)
=============================================================================
