------------------------------- MODULE UartTx -------------------------------
(***************************************************************************)
(* uart_tx of fpga/rtl/uart.sv: a byte leaves as a low start bit, eight    *)
(* data bits, the lowest first, and a high stop bit, each ClkPerBit clocks *)
(* long.  One step is one rising clock edge.                               *)
(***************************************************************************)
EXTENDS Naturals

CONSTANT ClkPerBit        \* CLK_PER_BIT, CLK_FREQ / BAUD_RATE (434)

VARIABLE sender           \* state, clk_cnt, bit_cnt, shift_reg, tx, tx_busy

TxPhase == {"IDLE", "START", "DATA", "STOP"}

TxTypeOK == sender \in [state : TxPhase, clk_cnt : 0 .. (ClkPerBit - 1), bit_cnt : 0 .. 7,
                        shift_reg : 0 .. 255, tx : {0, 1}, tx_busy : BOOLEAN]

(* The transmitter is busy exactly while it is not idle: what control.sv   *)
(* relies on when it offers a byte because tx_busy is low (uart.sv:30-40). *)
BusyIsSending == sender.tx_busy <=> sender.state # "IDLE"

TxReset == [state |-> "IDLE", clk_cnt |-> 0, bit_cnt |-> 0, shift_reg |-> 0,
            tx |-> 1, tx_busy |-> FALSE]

TxInit == sender = TxReset

LastClock == sender.clk_cnt = ClkPerBit - 1

Accept(b) == /\ sender.state = "IDLE"
             /\ sender' = [sender EXCEPT !.state = "START", !.shift_reg = b, !.clk_cnt = 0,
                                         !.tx = 1, !.tx_busy = TRUE]

TxIdle == /\ sender.state = "IDLE"
          /\ sender' = [sender EXCEPT !.tx = 1, !.tx_busy = FALSE]

(* The line's value in each part of the frame.                             *)
Level == CASE sender.state = "START" -> 0
           [] sender.state = "DATA"  -> sender.shift_reg % 2
           [] OTHER                  -> 1

Hold == /\ sender.state # "IDLE"
        /\ ~LastClock
        /\ sender' = [sender EXCEPT !.tx = Level, !.clk_cnt = @ + 1]

EndStart == /\ sender.state = "START"
            /\ LastClock
            /\ sender' = [sender EXCEPT !.tx = Level, !.state = "DATA", !.clk_cnt = 0, !.bit_cnt = 0]

EndBit == /\ sender.state = "DATA"
          /\ LastClock
          /\ sender' = [sender EXCEPT !.tx = Level, !.clk_cnt = 0, !.shift_reg = @ \div 2,
                                      !.state   = IF sender.bit_cnt = 7 THEN "STOP" ELSE "DATA",
                                      !.bit_cnt = IF @ = 7 THEN @ ELSE @ + 1]

(* Faulty: tx_busy stays up until the next idle clock.                     *)
FaultyEndStopBusy ==
    /\ sender.state = "STOP"
    /\ LastClock
    /\ sender' = [sender EXCEPT !.tx = Level, !.state = "IDLE", !.clk_cnt = 0]

EndStop == /\ sender.state = "STOP"
           /\ LastClock
           /\ sender' = [sender EXCEPT !.tx = Level, !.state = "IDLE", !.clk_cnt = 0, !.tx_busy = FALSE]

Sending == Hold \/ EndStart \/ EndBit \/ EndStop
=============================================================================
