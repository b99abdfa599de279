------------------------------ MODULE UartLink ------------------------------
(***************************************************************************)
(* The transmitter of fpga/rtl/uart.sv wired to its receiver, on one clock *)
(* and one reset.  A byte is offered at any clock at which tx_busy is low. *)
(***************************************************************************)
EXTENDS Naturals, Sequences

CONSTANTS ClkPerBit, Bytes

ASSUME LineAssumption  == ClkPerBit \in Nat /\ ClkPerBit > 1
ASSUME BytesAssumption == Bytes \subseteq 0 .. 255

VARIABLES sender, receiver,
          flight          \* history: bytes taken and not yet shown

linkVars == <<sender, receiver, flight>>

Tx == INSTANCE UartTx
Rx == INSTANCE UartRx

TypeOK == Tx!TxTypeOK /\ Rx!RxTypeOK /\ flight \in Seq(Bytes)

LinkInit == Tx!TxInit /\ receiver = Rx!RxReset /\ flight = <<>>

(* The history after this clock, with what the transmitter took.           *)
Log(taken) == flight' = (IF receiver'.rx_valid /\ flight # <<>> THEN Tail(flight) ELSE flight)
                            \o taken

Offer == \E b \in Bytes : /\ ~sender.tx_busy
                          /\ Tx!Accept(b)
                          /\ Rx!Receive(sender.tx)
                          /\ Log(<<b>>)
Rest  == (Tx!TxIdle \/ Tx!Sending) /\ Rx!Receive(sender.tx) /\ Log(<<>>)
LinkClock == Offer \/ Rest

(* rst_n drops both frames.                                                *)
LinkReset == sender' = Tx!TxReset /\ receiver' = Rx!RxReset /\ flight' = <<>>

LinkNext == LinkClock \/ LinkReset
LinkSpec == LinkInit /\ [][LinkNext]_linkVars /\ WF_linkVars(LinkClock)

Channel == INSTANCE ByteChannel WITH
    out <- [valid |-> receiver.rx_valid, data |-> receiver.rx_data]

(* Whatever is offered, and at whatever clock, comes out once, in order    *)
(* and in the end: transmitter and receiver agree on the frame, the bit    *)
(* order and the sampling point, back-to-back frames included              *)
(* (uart.sv:21-80, 103-174).  A reset in the middle excuses a loss.  With  *)
(* the host's adapter on the line (UartLine) it says that every byte the   *)
(* host sends is received whatever the jitter of its edges within Early    *)
(* and Late, and that a pulse on the idle line is taken for no byte.       *)
ImplementsChannel == Channel!Spec

(* tx_busy tells the control unit the truth (uart.sv:30-40, 68-77).        *)
BusyIsSending == Tx!BusyIsSending
=============================================================================
