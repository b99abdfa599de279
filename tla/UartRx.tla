------------------------------- MODULE UartRx -------------------------------
(***************************************************************************)
(* uart_rx of fpga/rtl/uart.sv: it waits for a low line, looks again half  *)
(* a bit later, then samples eight data bits and the stop bit one bit time *)
(* apart, and shows the byte for one clock if the stop bit is high.  The   *)
(* line reaches it through two flip-flops.  One step is one clock edge.    *)
(***************************************************************************)
EXTENDS Naturals

CONSTANT ClkPerBit        \* CLK_PER_BIT

VARIABLE receiver         \* state, clk_cnt, bit_cnt, shift_reg, rx_d1, rx_d2, rx_valid, rx_data

RxPhase     == {"IDLE", "START", "DATA", "STOP"}
RxRegisters == [state : RxPhase, clk_cnt : 0 .. (ClkPerBit - 1), bit_cnt : 0 .. 7,
                shift_reg : 0 .. 255, rx_d1 : {0, 1}, rx_d2 : {0, 1},
                rx_valid : BOOLEAN, rx_data : 0 .. 255]
RxTypeOK    == receiver \in RxRegisters

RxReset == [state |-> "IDLE", clk_cnt |-> 0, bit_cnt |-> 0, shift_reg |-> 0,
            rx_d1 |-> 1, rx_d2 |-> 1, rx_valid |-> FALSE, rx_data |-> 0]

(* The clock edge of the synchroniser, with rx_valid's default of one      *)
(* pulse; line is the input rx.                                            *)
Sync(line) == [receiver EXCEPT !.rx_d1 = line, !.rx_d2 = receiver.rx_d1, !.rx_valid = FALSE]

Low == receiver.rx_d2 = 0

WaitStart(line) ==
    /\ receiver.state = "IDLE"
    /\ receiver' = [Sync(line) EXCEPT !.clk_cnt = 0, !.state = IF Low THEN "START" ELSE "IDLE"]

(* Faulty: a start bit is not looked at again after half a bit.            *)
FaultyCheckStartBlind(line) ==
    /\ receiver.state = "START"
    /\ receiver.clk_cnt = ClkPerBit \div 2
    /\ receiver' = [Sync(line) EXCEPT !.state = "DATA", !.clk_cnt = 0, !.bit_cnt = 0]

CheckStart(line) ==
    /\ receiver.state = "START"
    /\ receiver.clk_cnt = ClkPerBit \div 2
    /\ receiver' = IF Low THEN [Sync(line) EXCEPT !.state = "DATA", !.clk_cnt = 0, !.bit_cnt = 0]
                          ELSE [Sync(line) EXCEPT !.state = "IDLE"]

Count(line) ==
    /\ \/ receiver.state = "START" /\ receiver.clk_cnt # ClkPerBit \div 2
       \/ receiver.state \in {"DATA", "STOP"} /\ receiver.clk_cnt # ClkPerBit - 1
    /\ receiver' = [Sync(line) EXCEPT !.clk_cnt = @ + 1]

(* Faulty: no data bit is the last one.                                    *)
FaultySampleEndless(line) ==
    /\ receiver.state = "DATA"
    /\ receiver.clk_cnt = ClkPerBit - 1
    /\ receiver' = [Sync(line) EXCEPT !.clk_cnt = 0, !.bit_cnt = @ + 1]

SampleBit(line) ==
    /\ receiver.state = "DATA"
    /\ receiver.clk_cnt = ClkPerBit - 1
    /\ receiver' = [Sync(line) EXCEPT !.clk_cnt   = 0,
                                      !.shift_reg = 128 * receiver.rx_d2 + @ \div 2,
                                      !.state     = IF receiver.bit_cnt = 7 THEN "STOP" ELSE "DATA",
                                      !.bit_cnt   = IF @ = 7 THEN @ ELSE @ + 1]

(* A frame without its stop bit is dropped.                                *)
SampleStop(line) ==
    /\ receiver.state = "STOP"
    /\ receiver.clk_cnt = ClkPerBit - 1
    /\ receiver' = IF Low THEN [Sync(line) EXCEPT !.state = "IDLE"]
                          ELSE [Sync(line) EXCEPT !.state = "IDLE", !.rx_valid = TRUE,
                                                  !.rx_data = receiver.shift_reg]

Receive(line) == \/ WaitStart(line) \/ CheckStart(line) \/ Count(line)
                 \/ SampleBit(line) \/ SampleStop(line)
=============================================================================
