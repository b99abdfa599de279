---------------------------- MODULE SerialProofs ----------------------------
(***************************************************************************)
(* The serial line and the bootloader behind it: both ends of the line     *)
(* keep in step for any length of a bit, what one sends the other shows,   *)
(* and a frame sent to its end is the program and the registers the CPU    *)
(* starts with.                                                            *)
(***************************************************************************)
EXTENDS UartLine, BootMachine, SequenceTheorems, TLAPS

(* The types of both ends and tx_busy.  The receiver's counter stays in    *)
(* its width only because it leaves START half a bit after it came.        *)
StartIsHalf == receiver.state = "START" => receiver.clk_cnt <= ClkPerBit \div 2
EndsOK      == Tx!TxTypeOK /\ Tx!BusyIsSending /\ Rx!RxTypeOK /\ StartIsHalf

LEMMA InitEnds == LinkInit => EndsOK
  BY LineAssumption DEF LinkInit, EndsOK, StartIsHalf, Tx!TxTypeOK, Tx!BusyIsSending, Tx!TxInit, Tx!TxReset,
     Tx!TxPhase, Rx!RxTypeOK, Rx!RxRegisters, Rx!RxPhase, Rx!RxReset

LEMMA ZeroIsClock == 0 \in 0 .. (ClkPerBit - 1)
  BY LineAssumption

LEMMA NextClock == ASSUME NEW c \in 0 .. (ClkPerBit - 1), c # ClkPerBit - 1
                   PROVE  c + 1 \in 0 .. (ClkPerBit - 1)
  BY LineAssumption

LEMMA AcceptOK == ASSUME EndsOK, NEW b \in Bytes, Tx!Accept(b)
                  PROVE  Tx!TxTypeOK' /\ Tx!BusyIsSending'
<1>1. b \in 0 .. 255
  BY BytesAssumption
<1>2. Tx!TxTypeOK'
  BY <1>1, ZeroIsClock, ZenonT(60) DEF EndsOK, Tx!TxTypeOK, Tx!TxPhase, Tx!Accept
<1>3. sender'.tx_busy = TRUE /\ sender'.state = "START"
  BY DEF EndsOK, Tx!TxTypeOK, Tx!Accept
<1>4. QED
  BY <1>2, <1>3 DEF Tx!BusyIsSending

LEMMA RestOK == ASSUME EndsOK, Tx!TxIdle \/ Tx!Sending
                PROVE  Tx!TxTypeOK' /\ Tx!BusyIsSending'
<1> USE DEF EndsOK, Tx!TxTypeOK, Tx!BusyIsSending, Tx!TxPhase, Tx!LastClock
<1>1. CASE Tx!TxIdle
  BY <1>1, ZenonT(60) DEF Tx!TxIdle
<1>2. Tx!Level \in {0, 1}
  BY DEF Tx!Level
<1>3. CASE Tx!Hold
  <2>1. sender.clk_cnt + 1 \in 0 .. (ClkPerBit - 1)
    BY <1>3, NextClock DEF Tx!Hold
  <2>2. QED
    BY <1>2, <1>3, <2>1, ZenonT(60) DEF Tx!Hold
<1>4. CASE Tx!EndStart
  <2>1. 0 \in 0 .. 7
    OBVIOUS
  <2>2. QED
    BY <1>2, <1>4, <2>1, ZeroIsClock, ZenonT(60) DEF Tx!EndStart
<1>5. CASE Tx!EndBit
  <2>1. sender.shift_reg \div 2 \in 0 .. 255
    OBVIOUS
  <2>2. (IF sender.bit_cnt = 7 THEN sender.bit_cnt ELSE sender.bit_cnt + 1) \in 0 .. 7
    OBVIOUS
  <2>3. /\ (IF sender.bit_cnt = 7 THEN "STOP" ELSE "DATA") \in Tx!TxPhase
        /\ (IF sender.bit_cnt = 7 THEN "STOP" ELSE "DATA") # "IDLE"
    OBVIOUS
  <2>4. QED
    BY <1>2, <1>5, <2>1, <2>2, <2>3, ZeroIsClock, ZenonT(60) DEF Tx!EndBit
<1>6. CASE Tx!EndStop
  BY <1>2, <1>6, ZeroIsClock, ZenonT(60) DEF Tx!EndStop
<1>7. QED
  BY <1>1, <1>3, <1>4, <1>5, <1>6 DEF Tx!Sending

(* The updates the receiver's steps make to a record r of its registers.   *)
InPhase(r, p)          == [r EXCEPT !.state = p]
AtClock(r, c)          == [r EXCEPT !.clk_cnt = c]
AtClockInPhase(r, c, p) == [r EXCEPT !.clk_cnt = c, !.state = p]
AtFirstBit(r, p, c, b) == [r EXCEPT !.state = p, !.clk_cnt = c, !.bit_cnt = b]
Sampled(r, c, v, p, b) == [r EXCEPT !.clk_cnt = c, !.shift_reg = v, !.state = p, !.bit_cnt = b]
Shown(r, p, v)         == [r EXCEPT !.state = p, !.rx_valid = TRUE, !.rx_data = v]

(* Each of them keeps every register in its range.                         *)
LEMMA SetPhase ==
    ASSUME NEW r \in Rx!RxRegisters, NEW p \in Rx!RxPhase
    PROVE  /\ InPhase(r, p) \in Rx!RxRegisters
           /\ InPhase(r, p).state = p
<1>1. InPhase(r, p) \in Rx!RxRegisters
  BY ZenonT(60) DEF Rx!RxRegisters, InPhase
<1>2. QED
  BY <1>1, ZenonT(60) DEF Rx!RxRegisters, InPhase

LEMMA SetClock ==
    ASSUME NEW r \in Rx!RxRegisters, NEW c \in 0 .. (ClkPerBit - 1)
    PROVE  /\ AtClock(r, c) \in Rx!RxRegisters
           /\ AtClock(r, c).clk_cnt = c
           /\ AtClock(r, c).state = r.state
<1>1. AtClock(r, c) \in Rx!RxRegisters
  BY ZenonT(60) DEF Rx!RxRegisters, AtClock
<1>2. QED
  BY <1>1, ZenonT(60) DEF Rx!RxRegisters, AtClock

LEMMA SetClockPhase ==
    ASSUME NEW r \in Rx!RxRegisters, NEW c \in 0 .. (ClkPerBit - 1), NEW p \in Rx!RxPhase
    PROVE  /\ AtClockInPhase(r, c, p) \in Rx!RxRegisters
           /\ AtClockInPhase(r, c, p).clk_cnt = c
<1>1. AtClockInPhase(r, c, p) \in Rx!RxRegisters
  BY ZenonT(60) DEF Rx!RxRegisters, AtClockInPhase
<1>2. QED
  BY <1>1, ZenonT(60) DEF Rx!RxRegisters, AtClockInPhase

LEMMA SetFirstBit ==
    ASSUME NEW r \in Rx!RxRegisters, NEW p \in Rx!RxPhase, NEW c \in 0 .. (ClkPerBit - 1),
           NEW b \in 0 .. 7
    PROVE  /\ AtFirstBit(r, p, c, b) \in Rx!RxRegisters
           /\ AtFirstBit(r, p, c, b).state = p
<1>1. AtFirstBit(r, p, c, b) \in Rx!RxRegisters
  BY ZenonT(60) DEF Rx!RxRegisters, AtFirstBit
<1>2. QED
  BY <1>1, ZenonT(60) DEF Rx!RxRegisters, AtFirstBit

LEMMA SetSample ==
    ASSUME NEW r \in Rx!RxRegisters, NEW c \in 0 .. (ClkPerBit - 1), NEW v \in 0 .. 255,
           NEW p \in Rx!RxPhase, NEW b \in 0 .. 7
    PROVE  /\ Sampled(r, c, v, p, b) \in Rx!RxRegisters
           /\ Sampled(r, c, v, p, b).state = p
<1>1. Sampled(r, c, v, p, b) \in Rx!RxRegisters
  BY ZenonT(60) DEF Rx!RxRegisters, Sampled
<1>2. QED
  BY <1>1, ZenonT(60) DEF Rx!RxRegisters, Sampled

LEMMA SetShown ==
    ASSUME NEW r \in Rx!RxRegisters, NEW p \in Rx!RxPhase, NEW v \in 0 .. 255
    PROVE  /\ Shown(r, p, v) \in Rx!RxRegisters
           /\ Shown(r, p, v).state = p
<1>1. Shown(r, p, v) \in Rx!RxRegisters
  BY ZenonT(60) DEF Rx!RxRegisters, Shown
<1>2. QED
  BY <1>1, ZenonT(60) DEF Rx!RxRegisters, Shown

(* What the synchroniser leaves alone.                                     *)
LEMMA SyncOK == ASSUME receiver \in Rx!RxRegisters, NEW l \in {0, 1}
                PROVE  /\ Rx!Sync(l) \in Rx!RxRegisters
                       /\ Rx!Sync(l).clk_cnt = receiver.clk_cnt
                       /\ Rx!Sync(l).bit_cnt = receiver.bit_cnt
                       /\ Rx!Sync(l).shift_reg = receiver.shift_reg
                       /\ Rx!Sync(l).state = receiver.state
<1>1. receiver.rx_d1 \in {0, 1}
  BY DEF Rx!RxRegisters
<1>2. Rx!Sync(l) \in Rx!RxRegisters
  BY <1>1, ZenonT(60) DEF Rx!Sync, Rx!RxRegisters
<1>3. QED
  BY <1>2, ZenonT(60) DEF Rx!Sync, Rx!RxRegisters

LEMMA ReceiveOK == ASSUME EndsOK, NEW l \in {0, 1}, Rx!Receive(l)
                   PROVE  Rx!RxTypeOK' /\ StartIsHalf'
<1> DEFINE synced == Rx!Sync(l)
<1>1. receiver \in Rx!RxRegisters
  BY ZenonT(60) DEF EndsOK, Rx!RxTypeOK
<1>2. /\ synced \in Rx!RxRegisters
      /\ synced.clk_cnt = receiver.clk_cnt
      /\ synced.bit_cnt = receiver.bit_cnt
      /\ synced.shift_reg = receiver.shift_reg
      /\ synced.state = receiver.state
  BY <1>1, SyncOK
<1>3. /\ receiver.clk_cnt \in 0 .. (ClkPerBit - 1)
      /\ receiver.bit_cnt \in 0 .. 7
      /\ receiver.shift_reg \in 0 .. 255
      /\ receiver.rx_d2 \in {0, 1}
  BY <1>1 DEF Rx!RxRegisters
<1>4. /\ "IDLE" \in Rx!RxPhase /\ "START" \in Rx!RxPhase
      /\ "DATA" \in Rx!RxPhase /\ "STOP" \in Rx!RxPhase
  BY DEF Rx!RxPhase
<1>5. 0 \in 0 .. 7 /\ 0 <= ClkPerBit \div 2
  BY LineAssumption
<1>6. ASSUME receiver' \in Rx!RxRegisters,
             receiver'.state # "START" \/ receiver'.clk_cnt <= ClkPerBit \div 2
      PROVE  Rx!RxTypeOK' /\ StartIsHalf'
  BY <1>6 DEF Rx!RxTypeOK, StartIsHalf
<1>7. CASE Rx!WaitStart(l)
  <2> DEFINE next == IF Rx!Low THEN "START" ELSE "IDLE"
  <2>1. receiver' = AtClockInPhase(synced, 0, next)
    BY <1>7, ZenonT(60) DEF Rx!WaitStart, AtClockInPhase
  <2>2. next \in Rx!RxPhase
    BY <1>4
  <2> HIDE DEF synced, next
  <2>3. receiver' \in Rx!RxRegisters /\ receiver'.clk_cnt = 0
    BY <1>2, <2>1, <2>2, ZeroIsClock, SetClockPhase, ZenonT(60)
  <2>4. QED
    BY <1>5, <1>6, <2>3
<1>8. CASE Rx!CheckStart(l)
  <2>1. CASE Rx!Low
    <3>1. receiver' = AtFirstBit(synced, "DATA", 0, 0)
      BY <1>8, <2>1, ZenonT(60) DEF Rx!CheckStart, AtFirstBit
    <3> HIDE DEF synced
    <3>2. receiver' \in Rx!RxRegisters /\ receiver'.state = "DATA"
      BY <1>2, <1>4, <1>5, <3>1, ZeroIsClock, SetFirstBit, ZenonT(60)
    <3>3. QED
      BY <1>6, <3>2
  <2>2. CASE ~Rx!Low
    <3>1. receiver' = InPhase(synced, "IDLE")
      BY <1>8, <2>2, ZenonT(60) DEF Rx!CheckStart, InPhase
    <3> HIDE DEF synced
    <3>2. receiver' \in Rx!RxRegisters /\ receiver'.state = "IDLE"
      BY <1>2, <1>4, <3>1, SetPhase, ZenonT(60)
    <3>3. QED
      BY <1>6, <3>2
  <2>3. QED
    BY <2>1, <2>2
<1>9. CASE Rx!Count(l)
  <2>1. /\ receiver.clk_cnt + 1 \in 0 .. (ClkPerBit - 1)
        /\ receiver.state = "START" => receiver.clk_cnt + 1 <= ClkPerBit \div 2
    <3>1. receiver.state = "START" => receiver.clk_cnt <= ClkPerBit \div 2
      BY DEF EndsOK, StartIsHalf
    <3>2. \/ receiver.state = "START" /\ receiver.clk_cnt # ClkPerBit \div 2
          \/ receiver.state # "START" /\ receiver.clk_cnt # ClkPerBit - 1
      BY <1>9 DEF Rx!Count
    <3>3. QED
      BY <1>3, <3>1, <3>2, LineAssumption
  <2>2. receiver' = AtClock(synced, synced.clk_cnt + 1)
    BY <1>9, ZenonT(60) DEF Rx!Count, AtClock
  <2> HIDE DEF synced
  <2>3. receiver' = AtClock(synced, receiver.clk_cnt + 1)
    BY <1>2, <2>2
  <2>4. /\ receiver' \in Rx!RxRegisters
        /\ receiver'.clk_cnt = receiver.clk_cnt + 1
        /\ receiver'.state = receiver.state
    BY <1>2, <2>1, <2>3, SetClock, ZenonT(60)
  <2>5. QED
    BY <1>6, <2>1, <2>4
<1>10. CASE Rx!SampleBit(l)
  <2> DEFINE phase == IF receiver.bit_cnt = 7 THEN "STOP" ELSE "DATA"
             value == 128 * receiver.rx_d2 + synced.shift_reg \div 2
             count == IF synced.bit_cnt = 7 THEN synced.bit_cnt ELSE synced.bit_cnt + 1
  <2>1. receiver' = Sampled(synced, 0, value, phase, count)
    BY <1>10, ZenonT(60) DEF Rx!SampleBit, Sampled
  <2> HIDE DEF synced
  <2>2. value \in 0 .. 255
    BY <1>2, <1>3
  <2>3. count \in 0 .. 7
    BY <1>2, <1>3
  <2>4. phase \in Rx!RxPhase /\ phase # "START"
    BY <1>4
  <2> HIDE DEF phase, value, count
  <2>5. receiver' \in Rx!RxRegisters /\ receiver'.state = phase
    BY <1>2, <2>1, <2>2, <2>3, <2>4, ZeroIsClock, SetSample, ZenonT(60)
  <2>6. QED
    BY <1>6, <2>4, <2>5
<1>11. CASE Rx!SampleStop(l)
  <2>1. CASE Rx!Low
    <3>1. receiver' = InPhase(synced, "IDLE")
      BY <1>11, <2>1, ZenonT(60) DEF Rx!SampleStop, InPhase
    <3> HIDE DEF synced
    <3>2. receiver' \in Rx!RxRegisters /\ receiver'.state = "IDLE"
      BY <1>2, <1>4, <3>1, SetPhase, ZenonT(60)
    <3>3. QED
      BY <1>6, <3>2
  <2>2. CASE ~Rx!Low
    <3>1. receiver' = Shown(synced, "IDLE", receiver.shift_reg)
      BY <1>11, <2>2, ZenonT(60) DEF Rx!SampleStop, Shown
    <3> HIDE DEF synced
    <3>2. receiver' \in Rx!RxRegisters /\ receiver'.state = "IDLE"
      BY <1>2, <1>3, <1>4, <3>1, SetShown, ZenonT(60)
    <3>3. QED
      BY <1>6, <3>2
  <2>3. QED
    BY <2>1, <2>2
<1>12. QED
  BY <1>7, <1>8, <1>9, <1>10, <1>11 DEF Rx!Receive

LEMMA EndsStep == ASSUME EndsOK, [LinkNext]_linkVars
                  PROVE  EndsOK'
<1> sender.tx \in {0, 1}
  BY ZenonT(60) DEF EndsOK, Tx!TxTypeOK
<1>1. CASE Offer
  BY <1>1, AcceptOK, ReceiveOK DEF Offer, EndsOK
<1>2. CASE Rest
  BY <1>2, RestOK, ReceiveOK DEF Rest, EndsOK
<1>3. CASE LinkReset
  BY <1>3, LineAssumption DEF LinkReset, EndsOK, StartIsHalf, Tx!TxTypeOK, Tx!BusyIsSending,
     Tx!TxReset, Tx!TxPhase, Rx!RxTypeOK, Rx!RxRegisters, Rx!RxPhase, Rx!RxReset
<1>4. CASE UNCHANGED linkVars
  BY <1>4 DEF linkVars, EndsOK, StartIsHalf, Tx!TxTypeOK, Tx!BusyIsSending, Tx!TxPhase, Rx!RxTypeOK
<1>5. QED
  BY <1>1, <1>2, <1>3, <1>4 DEF LinkNext, LinkClock

THEOREM EndsAreOK == LinkSpec => []EndsOK
<1>1. LinkInit => EndsOK
  BY InitEnds
<1>2. EndsOK /\ [LinkNext]_linkVars => EndsOK'
  BY EndsStep
<1>3. QED
  BY <1>1, <1>2, PTL DEF LinkSpec

(* tx_busy is up exactly while a frame is being sent, at any baud rate and *)
(* through resets: a byte offered while it is low is never ignored         *)
(* (uart.sv:21-80).                                                        *)
THEOREM BusyIsTrue == LinkSpec => []BusyIsSending
<1>1. EndsOK => BusyIsSending
  BY DEF EndsOK, BusyIsSending
<1>2. QED
  BY <1>1, EndsAreOK, PTL

LEMMA LogType == ASSUME flight \in Seq(Bytes), NEW taken \in Seq(Bytes), Log(taken)
                 PROVE  flight' \in Seq(Bytes)
<1>1. (IF receiver'.rx_valid /\ flight # <<>> THEN Tail(flight) ELSE flight) \in Seq(Bytes)
  OBVIOUS
<1>2. QED
  BY <1>1 DEF Log

LEMMA FlightStep == ASSUME flight \in Seq(Bytes), [LinkNext]_linkVars
                    PROVE  flight' \in Seq(Bytes)
<1>1. CASE Offer
  <2>1. PICK b \in Bytes : Log(<<b>>)
    BY <1>1 DEF Offer
  <2>2. <<b>> \in Seq(Bytes)
    OBVIOUS
  <2>3. QED
    BY <2>1, <2>2, LogType
<1>2. CASE Rest
  <2>1. <<>> \in Seq(Bytes)
    OBVIOUS
  <2>2. QED
    BY <1>2, <2>1, LogType DEF Rest
<1>3. CASE LinkReset
  BY <1>3 DEF LinkReset
<1>4. CASE UNCHANGED linkVars
  BY <1>4 DEF linkVars
<1>5. QED
  BY <1>1, <1>2, <1>3, <1>4 DEF LinkNext, LinkClock

(* The registers of both ends keep the widths the source declares: no      *)
(* counter of uart.sv wraps, for any number of clocks per bit.             *)
THEOREM LineTypeCorrect == LinkSpec => []TypeOK
<1>1. LinkInit /\ EndsOK => TypeOK
  BY DEF LinkInit, EndsOK, TypeOK
<1>2. TypeOK /\ EndsOK' /\ [LinkNext]_linkVars => TypeOK'
  BY FlightStep DEF TypeOK, EndsOK
<1>3. QED
  BY <1>1, <1>2, EndsAreOK, PTL DEF LinkSpec

-----------------------------------------------------------------------------
(* The wired pair implements the channel.  Both ends are placed in the     *)
(* frame of one byte: slot 0 is its start bit, 1 to 8 its data bits and 9  *)
(* its stop bit.  The line of slot p carries LevelOf(b, p); the wire and   *)
(* the two registers of the synchroniser follow one clock after another.   *)
Half         == ClkPerBit \div 2
Pow          == <<1, 2, 4, 8, 16, 32, 64, 128, 256>>
Bit(b, k)    == (b \div Pow[k + 1]) % 2
LevelOf(b, p) == CASE p = 0 -> 0 [] p \in 1 .. 8 -> Bit(b, p - 1) [] OTHER -> 1
Was(b, p)    == IF p = 0 THEN 1 ELSE LevelOf(b, p - 1)
SeenAt(b, p, c, n) == IF c >= n THEN LevelOf(b, p) ELSE Was(b, p)

(* The slot the transmitter sends and the one the receiver looks at next.  *)
TxSlot       == CASE sender.state = "START" -> 0 [] sender.state = "DATA" -> sender.bit_cnt + 1 [] OTHER -> 9
RxSlot       == IF receiver.state = "DATA" THEN receiver.bit_cnt + 1 ELSE 9

(* What the wire, its copies and the transmitter hold of b's frame.        *)
LineAt(b, p, c) == /\ sender.tx = SeenAt(b, p, c, 1)
                   /\ receiver.rx_d1 = SeenAt(b, p, c, 2)
                   /\ receiver.rx_d2 = SeenAt(b, p, c, 3)
RestAt(b)    == /\ sender.state = "START" => sender.shift_reg = b
                /\ sender.state = "DATA" => sender.shift_reg = b \div Pow[sender.bit_cnt + 1]
LineIs(b)    == sender.state # "IDLE" /\ LineAt(b, TxSlot, sender.clk_cnt) /\ RestAt(b)
LineHigh     == sender.tx = 1 /\ receiver.rx_d1 = 1 /\ receiver.rx_d2 = 1

(* The receiver holds the lowest bits of b.  The slot before the one it    *)
(* looks at began Elapsed clocks ago: three of the wire and synchroniser,  *)
(* one to leave IDLE, Half in START, one to leave it, and its count.       *)
(* InStep says that the transmitter agrees.                                *)
Got(b)       == receiver.shift_reg \div Pow[10 - RxSlot] = b % Pow[RxSlot]
Elapsed      == receiver.clk_cnt + 5 + Half
InStep       == \/ TxSlot = RxSlot /\ sender.clk_cnt + ClkPerBit = Elapsed
                \/ TxSlot + 1 = RxSlot /\ sender.clk_cnt = Elapsed
                \/ TxSlot = RxSlot + 1 /\ sender.clk_cnt + 2 * ClkPerBit = Elapsed

(* The frame on the line began n clocks ago.                               *)
Age(n)       == \/ TxSlot = 0 /\ sender.clk_cnt = n
                \/ TxSlot = 1 /\ sender.clk_cnt + ClkPerBit = n

(* The receiver waits; checks a start bit; reads a frame, the transmitter  *)
(* being in it or done with it; or waits for a stop bit while the next     *)
(* frame has begun.                                                        *)
Waiting   == /\ receiver.state = "IDLE"
             /\ \/ sender.state = "IDLE" /\ flight = <<>> /\ LineHigh
                \/ sender.state = "STOP" /\ flight = <<>> /\ LineHigh /\ sender.clk_cnt >= 3
                \/ \E b \in Bytes, n \in 0 .. 3 : flight = <<b>> /\ LineIs(b) /\ Age(n)
Starting  == /\ receiver.state = "START" /\ receiver.clk_cnt <= Half
             /\ \E b \in Bytes : flight = <<b>> /\ LineIs(b) /\ Age(4 + receiver.clk_cnt)
Reading   == /\ receiver.state \in {"DATA", "STOP"}
             /\ \E b \in Bytes : flight = <<b>> /\ Got(b)
                    /\ \/ LineIs(b) /\ InStep
                       \/ sender.state = "IDLE" /\ LineHigh /\ receiver.state = "STOP" /\ Elapsed >= 2 * ClkPerBit
Overtaken == /\ receiver.state = "STOP"
             /\ \E a, b \in Bytes : /\ flight = <<a, b>> /\ Got(a)
                                    /\ LineIs(b) /\ sender.state = "START"
                                    /\ sender.clk_cnt + 2 * ClkPerBit + 1 <= Elapsed
LinkInv   == Waiting \/ Starting \/ Reading \/ Overtaken

(* Arithmetic of slots and bits.                                           *)
LEMMA HalfIs == Half \in Nat /\ 2 * Half <= ClkPerBit /\ ClkPerBit <= 2 * Half + 1 /\ ClkPerBit \in Nat
  BY LineAssumption DEF Half

LEMMA PowIs == /\ Pow[1] = 1 /\ Pow[2] = 2 /\ Pow[3] = 4 /\ Pow[4] = 8 /\ Pow[5] = 16 /\ Pow[6] = 32
               /\ Pow[7] = 64 /\ Pow[8] = 128 /\ Pow[9] = 256
  BY DEF Pow

LEMMA WasIs == ASSUME NEW b PROVE /\ Was(b, 0) = 1 /\ LevelOf(b, 0) = 0 /\ LevelOf(b, 9) = 1
                                  /\ \A p \in 0 .. 9 : Was(b, p + 1) = LevelOf(b, p)
                                  /\ \A k \in 0 .. 7 : LevelOf(b, k + 1) = Bit(b, k)
  BY DEF Was, LevelOf

(* A byte shifted once more, bit by bit.                                   *)
LEMMA Shifts == ASSUME NEW b \in 0 .. 255, NEW k \in 0 .. 6
                PROVE  (b \div Pow[k + 1]) \div 2 = b \div Pow[k + 2]
<1>1. k \in {0, 1, 2, 3, 4, 5, 6}
  OBVIOUS
<1>2. CASE k = 0 BY <1>2, PowIs
<1>3. CASE k = 1 BY <1>3, PowIs
<1>4. CASE k = 2 BY <1>4, PowIs
<1>5. CASE k = 3 BY <1>5, PowIs
<1>6. CASE k = 4 BY <1>6, PowIs
<1>7. CASE k = 5 BY <1>7, PowIs
<1>8. CASE k = 6 BY <1>8, PowIs
<1>9. QED BY <1>1, <1>2, <1>3, <1>4, <1>5, <1>6, <1>7, <1>8

(* The register after another sample.                                      *)
LEMMA Sample0 ==
  \A b, s \in Nat : s \div 256 = b % 1 => (128 * ((b \div 1) % 2) + s \div 2) \div 128 = b % 2
<1>1. SUFFICES ASSUME NEW b \in Nat, NEW s \in Nat, s \div 256 = b % 1
               PROVE  (128 * ((b \div 1) % 2) + s \div 2) \div 128 = b % 2
  OBVIOUS
<1>2. PICK l \in Nat, x \in Nat : l = b % 1 /\ x = (b \div 1) % 2 /\ b % 2 = 1 * x + l
  OBVIOUS
<1>3. PICK i \in Nat : i < 128 /\ s \div 2 = 128 * (s \div 256) + i
  OBVIOUS
<1>4. \A y, j \in Nat : j < 128 => (128 * y + j) \div 128 = y
  OBVIOUS
<1>5. 1 * x + l \in Nat /\ 128 * x + s \div 2 = 128 * (1 * x + l) + i
  BY <1>1, <1>2, <1>3
<1>6. QED
  BY <1>2, <1>3, <1>4, <1>5

LEMMA Sample1 ==
  \A b, s \in Nat : s \div 128 = b % 2 => (128 * ((b \div 2) % 2) + s \div 2) \div 64 = b % 4
<1>1. SUFFICES ASSUME NEW b \in Nat, NEW s \in Nat, s \div 128 = b % 2
               PROVE  (128 * ((b \div 2) % 2) + s \div 2) \div 64 = b % 4
  OBVIOUS
<1>2. PICK l \in Nat, x \in Nat : l = b % 2 /\ x = (b \div 2) % 2 /\ b % 4 = 2 * x + l
  OBVIOUS
<1>3. PICK i \in Nat : i < 64 /\ s \div 2 = 64 * (s \div 128) + i
  OBVIOUS
<1>4. \A y, j \in Nat : j < 64 => (64 * y + j) \div 64 = y
  OBVIOUS
<1>5. 2 * x + l \in Nat /\ 128 * x + s \div 2 = 64 * (2 * x + l) + i
  BY <1>1, <1>2, <1>3
<1>6. QED
  BY <1>2, <1>3, <1>4, <1>5

LEMMA Sample2 ==
  \A b, s \in Nat : s \div 64 = b % 4 => (128 * ((b \div 4) % 2) + s \div 2) \div 32 = b % 8
<1>1. SUFFICES ASSUME NEW b \in Nat, NEW s \in Nat, s \div 64 = b % 4
               PROVE  (128 * ((b \div 4) % 2) + s \div 2) \div 32 = b % 8
  OBVIOUS
<1>2. PICK l \in Nat, x \in Nat : l = b % 4 /\ x = (b \div 4) % 2 /\ b % 8 = 4 * x + l
  OBVIOUS
<1>3. PICK i \in Nat : i < 32 /\ s \div 2 = 32 * (s \div 64) + i
  OBVIOUS
<1>4. \A y, j \in Nat : j < 32 => (32 * y + j) \div 32 = y
  OBVIOUS
<1>5. 4 * x + l \in Nat /\ 128 * x + s \div 2 = 32 * (4 * x + l) + i
  BY <1>1, <1>2, <1>3
<1>6. QED
  BY <1>2, <1>3, <1>4, <1>5

LEMMA Sample3 ==
  \A b, s \in Nat : s \div 32 = b % 8 => (128 * ((b \div 8) % 2) + s \div 2) \div 16 = b % 16
<1>1. SUFFICES ASSUME NEW b \in Nat, NEW s \in Nat, s \div 32 = b % 8
               PROVE  (128 * ((b \div 8) % 2) + s \div 2) \div 16 = b % 16
  OBVIOUS
<1>2. PICK l \in Nat, x \in Nat : l = b % 8 /\ x = (b \div 8) % 2 /\ b % 16 = 8 * x + l
  OBVIOUS
<1>3. PICK i \in Nat : i < 16 /\ s \div 2 = 16 * (s \div 32) + i
  OBVIOUS
<1>4. \A y, j \in Nat : j < 16 => (16 * y + j) \div 16 = y
  OBVIOUS
<1>5. 8 * x + l \in Nat /\ 128 * x + s \div 2 = 16 * (8 * x + l) + i
  BY <1>1, <1>2, <1>3
<1>6. QED
  BY <1>2, <1>3, <1>4, <1>5

LEMMA Sample4 ==
  \A b, s \in Nat : s \div 16 = b % 16 => (128 * ((b \div 16) % 2) + s \div 2) \div 8 = b % 32
<1>1. SUFFICES ASSUME NEW b \in Nat, NEW s \in Nat, s \div 16 = b % 16
               PROVE  (128 * ((b \div 16) % 2) + s \div 2) \div 8 = b % 32
  OBVIOUS
<1>2. PICK l \in Nat, x \in Nat : l = b % 16 /\ x = (b \div 16) % 2 /\ b % 32 = 16 * x + l
  OBVIOUS
<1>3. PICK i \in Nat : i < 8 /\ s \div 2 = 8 * (s \div 16) + i
  OBVIOUS
<1>4. \A y, j \in Nat : j < 8 => (8 * y + j) \div 8 = y
  OBVIOUS
<1>5. 16 * x + l \in Nat /\ 128 * x + s \div 2 = 8 * (16 * x + l) + i
  BY <1>1, <1>2, <1>3
<1>6. QED
  BY <1>2, <1>3, <1>4, <1>5

LEMMA Sample5 ==
  \A b, s \in Nat : s \div 8 = b % 32 => (128 * ((b \div 32) % 2) + s \div 2) \div 4 = b % 64
<1>1. SUFFICES ASSUME NEW b \in Nat, NEW s \in Nat, s \div 8 = b % 32
               PROVE  (128 * ((b \div 32) % 2) + s \div 2) \div 4 = b % 64
  OBVIOUS
<1>2. PICK l \in Nat, x \in Nat : l = b % 32 /\ x = (b \div 32) % 2 /\ b % 64 = 32 * x + l
  OBVIOUS
<1>3. PICK i \in Nat : i < 4 /\ s \div 2 = 4 * (s \div 8) + i
  OBVIOUS
<1>4. \A y, j \in Nat : j < 4 => (4 * y + j) \div 4 = y
  OBVIOUS
<1>5. 32 * x + l \in Nat /\ 128 * x + s \div 2 = 4 * (32 * x + l) + i
  BY <1>1, <1>2, <1>3
<1>6. QED
  BY <1>2, <1>3, <1>4, <1>5

LEMMA Sample6 ==
  \A b, s \in Nat : s \div 4 = b % 64 => (128 * ((b \div 64) % 2) + s \div 2) \div 2 = b % 128
<1>1. SUFFICES ASSUME NEW b \in Nat, NEW s \in Nat, s \div 4 = b % 64
               PROVE  (128 * ((b \div 64) % 2) + s \div 2) \div 2 = b % 128
  OBVIOUS
<1>2. PICK l \in Nat, x \in Nat : l = b % 64 /\ x = (b \div 64) % 2 /\ b % 128 = 64 * x + l
  OBVIOUS
<1>3. PICK i \in Nat : i < 2 /\ s \div 2 = 2 * (s \div 4) + i
  OBVIOUS
<1>4. \A y, j \in Nat : j < 2 => (2 * y + j) \div 2 = y
  OBVIOUS
<1>5. 64 * x + l \in Nat /\ 128 * x + s \div 2 = 2 * (64 * x + l) + i
  BY <1>1, <1>2, <1>3
<1>6. QED
  BY <1>2, <1>3, <1>4, <1>5

LEMMA Sample7 ==
  \A b, s \in Nat : s \div 2 = b % 128 => (128 * ((b \div 128) % 2) + s \div 2) \div 1 = b % 256
<1>1. SUFFICES ASSUME NEW b \in Nat, NEW s \in Nat, s \div 2 = b % 128
               PROVE  (128 * ((b \div 128) % 2) + s \div 2) \div 1 = b % 256
  OBVIOUS
<1>2. PICK l \in Nat, x \in Nat : l = b % 128 /\ x = (b \div 128) % 2 /\ b % 256 = 128 * x + l
  OBVIOUS
<1>3. PICK i \in Nat : i < 1 /\ s \div 2 = 1 * (s \div 2) + i
  OBVIOUS
<1>4. \A y, j \in Nat : j < 1 => (1 * y + j) \div 1 = y
  OBVIOUS
<1>5. 128 * x + l \in Nat /\ 128 * x + s \div 2 = 1 * (128 * x + l) + i
  BY <1>1, <1>2, <1>3
<1>6. QED
  BY <1>2, <1>3, <1>4, <1>5

LEMMA Samples == ASSUME NEW b \in Nat, NEW s \in Nat, NEW k \in 0 .. 7,
                        s \div Pow[9 - k] = b % Pow[k + 1]
                 PROVE  (128 * Bit(b, k) + s \div 2) \div Pow[8 - k] = b % Pow[k + 2]
<1>1. k \in {0, 1, 2, 3, 4, 5, 6, 7}
  OBVIOUS
<1>2. CASE k = 0
  <2>1. Pow[9 - k] = 256 /\ Pow[k + 1] = 1 /\ Pow[8 - k] = 128 /\ Pow[k + 2] = 2
    BY <1>2, PowIs
  <2>2. QED
    BY <2>1, Sample0 DEF Bit
<1>3. CASE k = 1
  <2>1. Pow[9 - k] = 128 /\ Pow[k + 1] = 2 /\ Pow[8 - k] = 64 /\ Pow[k + 2] = 4
    BY <1>3, PowIs
  <2>2. QED
    BY <2>1, Sample1 DEF Bit
<1>4. CASE k = 2
  <2>1. Pow[9 - k] = 64 /\ Pow[k + 1] = 4 /\ Pow[8 - k] = 32 /\ Pow[k + 2] = 8
    BY <1>4, PowIs
  <2>2. QED
    BY <2>1, Sample2 DEF Bit
<1>5. CASE k = 3
  <2>1. Pow[9 - k] = 32 /\ Pow[k + 1] = 8 /\ Pow[8 - k] = 16 /\ Pow[k + 2] = 16
    BY <1>5, PowIs
  <2>2. QED
    BY <2>1, Sample3 DEF Bit
<1>6. CASE k = 4
  <2>1. Pow[9 - k] = 16 /\ Pow[k + 1] = 16 /\ Pow[8 - k] = 8 /\ Pow[k + 2] = 32
    BY <1>6, PowIs
  <2>2. QED
    BY <2>1, Sample4 DEF Bit
<1>7. CASE k = 5
  <2>1. Pow[9 - k] = 8 /\ Pow[k + 1] = 32 /\ Pow[8 - k] = 4 /\ Pow[k + 2] = 64
    BY <1>7, PowIs
  <2>2. QED
    BY <2>1, Sample5 DEF Bit
<1>8. CASE k = 6
  <2>1. Pow[9 - k] = 4 /\ Pow[k + 1] = 64 /\ Pow[8 - k] = 2 /\ Pow[k + 2] = 128
    BY <1>8, PowIs
  <2>2. QED
    BY <2>1, Sample6 DEF Bit
<1>9. CASE k = 7
  <2>1. Pow[9 - k] = 2 /\ Pow[k + 1] = 128 /\ Pow[8 - k] = 1 /\ Pow[k + 2] = 256
    BY <1>9, PowIs
  <2>2. QED
    BY <2>1, Sample7 DEF Bit
<1>10. QED BY <1>1, <1>2, <1>3, <1>4, <1>5, <1>6, <1>7, <1>8, <1>9

-----------------------------------------------------------------------------
(* The registers of both ends, as numbers.                                 *)
LEMMA Ranges ==
  ASSUME EndsOK
  PROVE  /\ sender.state \in {"IDLE", "START", "DATA", "STOP"} /\ sender.clk_cnt \in Nat /\ sender.clk_cnt < ClkPerBit
         /\ sender.bit_cnt \in 0 .. 7 /\ sender.shift_reg \in 0 .. 255 /\ sender.tx \in {0, 1}
         /\ receiver.state \in {"IDLE", "START", "DATA", "STOP"} /\ receiver.clk_cnt \in Nat /\ receiver.clk_cnt < ClkPerBit
         /\ receiver.bit_cnt \in 0 .. 7 /\ receiver.shift_reg \in 0 .. 255
         /\ receiver.rx_d1 \in {0, 1} /\ receiver.rx_d2 \in {0, 1}
<1>1. \A c \in 0 .. ClkPerBit - 1 : c \in Nat /\ c < ClkPerBit
  BY LineAssumption
<1>2. sender \in [state : Tx!TxPhase, clk_cnt : 0 .. (ClkPerBit - 1), bit_cnt : 0 .. 7,
                  shift_reg : 0 .. 255, tx : {0, 1}, tx_busy : BOOLEAN]
  BY Zenon DEF EndsOK, Tx!TxTypeOK
<1>3. receiver \in [state : Rx!RxPhase, clk_cnt : 0 .. (ClkPerBit - 1), bit_cnt : 0 .. 7,
                    shift_reg : 0 .. 255, rx_d1 : {0, 1}, rx_d2 : {0, 1},
                    rx_valid : BOOLEAN, rx_data : 0 .. 255]
  BY Zenon DEF EndsOK, Rx!RxTypeOK, Rx!RxRegisters
<1>4. QED
  BY <1>1, <1>2, <1>3 DEF Tx!TxPhase, Rx!RxPhase

(* What a clock of the transmitter does, register by register.             *)
TxHolds == /\ sender.clk_cnt # ClkPerBit - 1
           /\ sender'.clk_cnt = sender.clk_cnt + 1 /\ sender'.state = sender.state
           /\ sender'.bit_cnt = sender.bit_cnt /\ sender'.shift_reg = sender.shift_reg
TxTurns == /\ sender.clk_cnt = ClkPerBit - 1 /\ sender'.clk_cnt = 0
           /\ \/ sender.state = "START" /\ sender'.state = "DATA" /\ sender'.bit_cnt = 0
                 /\ sender'.shift_reg = sender.shift_reg
              \/ sender.state = "DATA" /\ sender.bit_cnt # 7 /\ sender'.state = "DATA"
                 /\ sender'.bit_cnt = sender.bit_cnt + 1 /\ sender'.shift_reg = sender.shift_reg \div 2
              \/ sender.state = "DATA" /\ sender.bit_cnt = 7 /\ sender'.state = "STOP"
              \/ sender.state = "STOP" /\ sender'.state = "IDLE"

LEMMA TxDoes ==
  ASSUME EndsOK, Tx!Sending
  PROVE  sender.state # "IDLE" /\ sender'.tx = Tx!Level /\ (TxHolds \/ TxTurns)
<1>1. sender \in [state : Tx!TxPhase, clk_cnt : 0 .. (ClkPerBit - 1), bit_cnt : 0 .. 7,
                  shift_reg : 0 .. 255, tx : {0, 1}, tx_busy : BOOLEAN]
  BY Zenon DEF EndsOK, Tx!TxTypeOK
<1>2. CASE Tx!Hold
  BY <1>1, <1>2 DEF Tx!Hold, Tx!LastClock, TxHolds
<1>3. CASE Tx!EndStart
  BY <1>1, <1>3 DEF Tx!EndStart, Tx!LastClock, TxTurns
<1>4. CASE Tx!EndBit
  BY <1>1, <1>4 DEF Tx!EndBit, Tx!LastClock, TxTurns
<1>5. CASE Tx!EndStop
  BY <1>1, <1>5 DEF Tx!EndStop, Tx!LastClock, TxTurns
<1>6. QED
  BY <1>2, <1>3, <1>4, <1>5 DEF Tx!Sending

LEMMA TxRests ==
  ASSUME EndsOK, Tx!TxIdle
  PROVE  sender.state = "IDLE" /\ sender'.state = "IDLE" /\ sender'.tx = 1
BY DEF EndsOK, Tx!TxTypeOK, Tx!TxIdle

LEMMA TxAccepts ==
  ASSUME EndsOK, NEW b, Tx!Accept(b)
  PROVE  /\ sender.state = "IDLE" /\ sender'.state = "START" /\ sender'.clk_cnt = 0
         /\ sender'.shift_reg = b /\ sender'.tx = 1
BY DEF EndsOK, Tx!TxTypeOK, Tx!Accept

(* What a clock of the receiver does, register by register.                *)
Hidden == receiver'.rx_valid = FALSE /\ receiver'.rx_data = receiver.rx_data
RxCounts == /\ receiver'.clk_cnt = receiver.clk_cnt + 1 /\ receiver'.state = receiver.state
            /\ receiver'.bit_cnt = receiver.bit_cnt /\ receiver'.shift_reg = receiver.shift_reg /\ Hidden

LEMMA RxDoes ==
  ASSUME EndsOK, NEW l, Rx!Receive(l)
  PROVE  /\ receiver'.rx_d1 = l /\ receiver'.rx_d2 = receiver.rx_d1
         /\ receiver.state = "IDLE" => /\ receiver'.clk_cnt = 0 /\ Hidden
                                       /\ receiver'.state = IF receiver.rx_d2 = 0 THEN "START" ELSE "IDLE"
         /\ receiver.state = "START" /\ receiver.clk_cnt # Half => RxCounts
         /\ receiver.state = "START" /\ receiver.clk_cnt = Half /\ receiver.rx_d2 = 0 =>
              /\ receiver'.state = "DATA" /\ receiver'.clk_cnt = 0 /\ receiver'.bit_cnt = 0
              /\ receiver'.shift_reg = receiver.shift_reg /\ Hidden
         /\ receiver.state = "START" /\ receiver.clk_cnt = Half /\ receiver.rx_d2 # 0 => receiver'.state = "IDLE" /\ Hidden
         /\ receiver.state \in {"DATA", "STOP"} /\ receiver.clk_cnt # ClkPerBit - 1 => RxCounts
         /\ receiver.state = "DATA" /\ receiver.clk_cnt = ClkPerBit - 1 =>
              /\ receiver'.clk_cnt = 0 /\ Hidden
              /\ receiver'.shift_reg = 128 * receiver.rx_d2 + receiver.shift_reg \div 2
              /\ receiver'.state = IF receiver.bit_cnt = 7 THEN "STOP" ELSE "DATA"
              /\ receiver.bit_cnt # 7 => receiver'.bit_cnt = receiver.bit_cnt + 1
         /\ receiver.state = "STOP" /\ receiver.clk_cnt = ClkPerBit - 1 /\ receiver.rx_d2 = 1 =>
              receiver'.state = "IDLE" /\ receiver'.rx_valid = TRUE /\ receiver'.rx_data = receiver.shift_reg
<1>1. receiver \in [state : Rx!RxPhase, clk_cnt : 0 .. (ClkPerBit - 1), bit_cnt : 0 .. 7,
                    shift_reg : 0 .. 255, rx_d1 : {0, 1}, rx_d2 : {0, 1},
                    rx_valid : BOOLEAN, rx_data : 0 .. 255]
  BY Zenon DEF EndsOK, Rx!RxTypeOK, Rx!RxRegisters
<1> USE DEF Rx!Sync, Rx!Low, Half, Hidden, RxCounts
<1>2. CASE Rx!WaitStart(l)
  BY <1>1, <1>2 DEF Rx!WaitStart
<1>3. CASE Rx!CheckStart(l)
  BY <1>1, <1>3 DEF Rx!CheckStart
<1>4. CASE Rx!Count(l)
  BY <1>1, <1>4 DEF Rx!Count
<1>5. CASE Rx!SampleBit(l)
  BY <1>1, <1>5 DEF Rx!SampleBit
<1>6. CASE Rx!SampleStop(l)
  BY <1>1, <1>6 DEF Rx!SampleStop
<1>7. QED
  BY <1>2, <1>3, <1>4, <1>5, <1>6 DEF Rx!Receive

-----------------------------------------------------------------------------
(* The line carries the frame of b a clock further.                        *)
LEMMA LevelIs ==
  ASSUME EndsOK, NEW b \in 0 .. 255, LineIs(b)
  PROVE  Tx!Level = LevelOf(b, TxSlot) /\ TxSlot \in 0 .. 9
<1>1. CASE sender.state = "START"
  BY <1>1, WasIs DEF Tx!Level, TxSlot
<1>2. CASE sender.state = "DATA"
  <2>1. TxSlot = sender.bit_cnt + 1 /\ sender.bit_cnt \in 0 .. 7
    BY <1>2, Ranges DEF TxSlot
  <2>2. Tx!Level = Bit(b, sender.bit_cnt)
    BY <1>2 DEF Tx!Level, LineIs, RestAt, Bit
  <2>3. QED
    BY <2>1, <2>2, WasIs
<1>3. CASE sender.state = "STOP"
  BY <1>3, WasIs DEF Tx!Level, TxSlot
<1>4. QED
  BY <1>1, <1>2, <1>3, Ranges DEF LineIs

NextClockOf(b) == /\ sender.clk_cnt # ClkPerBit - 1 /\ sender'.clk_cnt = sender.clk_cnt + 1
                  /\ TxSlot' = TxSlot /\ sender'.state = sender.state /\ LineIs(b)'
NextSlotOf(b)  == /\ sender.clk_cnt = ClkPerBit - 1 /\ TxSlot # 9
                  /\ sender'.clk_cnt = 0 /\ TxSlot' = TxSlot + 1 /\ LineIs(b)'
FrameEnds      == /\ sender.clk_cnt = ClkPerBit - 1 /\ TxSlot = 9
                  /\ sender'.state = "IDLE" /\ LineHigh'

LEMMA LineGoesOn ==
  ASSUME EndsOK, ClkPerBit > 2, NEW b \in 0 .. 255, LineIs(b), Tx!Sending,
         receiver'.rx_d1 = sender.tx, receiver'.rx_d2 = receiver.rx_d1
  PROVE  NextClockOf(b) \/ NextSlotOf(b) \/ FrameEnds
<1>1. /\ sender.state # "IDLE" /\ sender'.tx = LevelOf(b, TxSlot) /\ (TxHolds \/ TxTurns) /\ TxSlot \in 0 .. 9
  BY TxDoes, LevelIs
<1>2. /\ sender.tx = SeenAt(b, TxSlot, sender.clk_cnt, 1) /\ receiver.rx_d1 = SeenAt(b, TxSlot, sender.clk_cnt, 2)
      /\ RestAt(b)
  BY DEF LineIs, LineAt
<1>3. /\ sender.state \in {"IDLE", "START", "DATA", "STOP"} /\ sender.clk_cnt \in Nat /\ sender.clk_cnt < ClkPerBit
      /\ sender.bit_cnt \in 0 .. 7 /\ ClkPerBit \in Nat
  BY Ranges, LineAssumption
<1>4. CASE TxHolds
  <2>1. /\ sender'.clk_cnt = sender.clk_cnt + 1 /\ sender.clk_cnt # ClkPerBit - 1
        /\ TxSlot' = TxSlot /\ sender'.state = sender.state /\ sender'.state # "IDLE"
    BY <1>1, <1>4 DEF TxHolds, TxSlot
  <2>2. RestAt(b)'
    BY <1>2, <1>4 DEF TxHolds, RestAt
  <2>3. LineAt(b, TxSlot, sender.clk_cnt)'
    BY <1>1, <1>2, <1>3, <2>1 DEF LineAt, SeenAt
  <2>4. QED
    BY <2>1, <2>2, <2>3 DEF NextClockOf, LineIs
<1>5. CASE TxTurns
  <2>1. sender.clk_cnt = ClkPerBit - 1 /\ sender'.clk_cnt = 0
    BY <1>5 DEF TxTurns
  <2>2. /\ sender.tx = LevelOf(b, TxSlot) /\ receiver.rx_d1 = LevelOf(b, TxSlot)
    BY <1>2, <1>3, <2>1 DEF SeenAt
  <2>3. CASE sender'.state = "IDLE"
    <3>1. TxSlot = 9
      BY <1>5, <2>3 DEF TxTurns, TxSlot
    <3>2. QED
      BY <1>1, <2>1, <2>2, <2>3, <3>1, WasIs DEF FrameEnds, LineHigh
  <2>4. CASE sender'.state # "IDLE"
    <3>1. TxSlot \in 0 .. 8 /\ TxSlot' = TxSlot + 1
      BY <1>3, <1>5, <2>4 DEF TxTurns, TxSlot
    <3>2. RestAt(b)'
      <4>1. CASE sender.state = "START"
        <5>1. b \div Pow[1] = b
          BY PowIs
        <5>2. QED
          BY <1>2, <1>5, <4>1, <5>1 DEF TxTurns, RestAt
      <4>2. CASE sender.state = "DATA" /\ sender.bit_cnt # 7
        <5>1. sender.bit_cnt \in 0 .. 6
          BY <1>3, <4>2
        <5>2. (b \div Pow[sender.bit_cnt + 1]) \div 2 = b \div Pow[sender.bit_cnt + 2]
          BY <5>1, Shifts
        <5>3. /\ sender'.state = "DATA" /\ sender'.bit_cnt + 1 = sender.bit_cnt + 2
              /\ sender'.shift_reg = (b \div Pow[sender.bit_cnt + 1]) \div 2
          BY <1>2, <1>5, <4>2, <5>1 DEF TxTurns, RestAt
        <5>4. QED
          BY <5>2, <5>3 DEF RestAt
      <4>3. CASE sender'.state = "STOP"
        BY <4>3 DEF RestAt
      <4>4. QED
        BY <1>5, <2>4, <4>1, <4>2, <4>3 DEF TxTurns
    <3>3. Was(b, TxSlot + 1) = LevelOf(b, TxSlot)
      BY <1>1, WasIs
    <3>4. LineAt(b, TxSlot, sender.clk_cnt)'
      BY <1>1, <2>1, <2>2, <3>1, <3>3 DEF LineAt, SeenAt
    <3>5. QED
      BY <2>1, <2>4, <3>1, <3>2, <3>4 DEF NextSlotOf, LineIs
  <2>5. QED
    BY <2>3, <2>4
<1>6. QED
  BY <1>1, <1>4, <1>5

(* A frame begins on a line that is high.                                  *)
LEMMA FrameBegins ==
  ASSUME EndsOK, NEW b \in 0 .. 255, LineHigh, Tx!Accept(b),
         receiver'.rx_d1 = sender.tx, receiver'.rx_d2 = receiver.rx_d1
  PROVE  LineIs(b)' /\ sender'.state = "START" /\ sender'.clk_cnt = 0 /\ TxSlot' = 0
<1>1. sender'.state = "START" /\ sender'.clk_cnt = 0 /\ sender'.shift_reg = b /\ sender'.tx = 1
  BY TxAccepts
<1>2. TxSlot' = 0
  BY <1>1 DEF TxSlot
<1>3. Was(b, 0) = 1
  BY WasIs
<1>4. LineAt(b, TxSlot, sender.clk_cnt)'
  BY <1>1, <1>2, <1>3 DEF LineHigh, LineAt, SeenAt
<1>5. QED
  BY <1>1, <1>2, <1>4 DEF LineIs, RestAt

-----------------------------------------------------------------------------
(* The history and the channel, for a clock that takes the bytes t.        *)
Takes(t) == t = <<>> \/ \E b \in Bytes : t = <<b>>
InOrder  == Channel!Quiet \/ Channel!Deliver

LEMMA Silenced == \A v, d, f : [valid |-> f, data |-> d] = [[valid |-> v, data |-> d] EXCEPT !.valid = f]
OBVIOUS

LEMMA ShowsNothing ==
  ASSUME NEW t, Takes(t), Log(t), flight \in Seq(Bytes), Hidden
  PROVE  flight' = flight \o t /\ InOrder
<1>1. flight' = flight \o t
  BY DEF Log, Hidden
<1> DEFINE now  == [valid |-> receiver.rx_valid, data |-> receiver.rx_data]
           next == [valid |-> receiver'.rx_valid, data |-> receiver'.rx_data]
<1>2. next = [valid |-> FALSE, data |-> receiver.rx_data]
  BY Zenon DEF Hidden
<1>3. PICK v, d : v = receiver.rx_valid /\ d = receiver.rx_data
  OBVIOUS
<1>4. [valid |-> FALSE, data |-> d] = [[valid |-> v, data |-> d] EXCEPT !.valid = FALSE]
  BY Silenced, ZenonT(30)
<1>5. next = [now EXCEPT !.valid = FALSE]
  BY <1>2, <1>3, <1>4
<1>6. CASE t = <<>>
  <2>1. flight' = flight
    BY <1>1, <1>6
  <2>2. QED
    BY <1>1, <1>5, <2>1 DEF InOrder, Channel!Quiet, Channel!Kept
<1>7. CASE t # <<>>
  <2>1. PICK b \in Bytes : t = <<b>>
    BY <1>7 DEF Takes
  <2>2. flight' = Append(flight, b)
    BY <1>1, <2>1
  <2>3. QED
    BY <1>1, <1>5, <2>2 DEF InOrder, Channel!Quiet, Channel!Taken
<1>8. QED
  BY <1>6, <1>7

LEMMA ShowsOldest ==
  ASSUME NEW t, Takes(t), Log(t), NEW a \in Bytes, NEW f \in Seq(Bytes), flight = <<a>> \o f,
         receiver'.rx_valid = TRUE, receiver'.rx_data = a
  PROVE  flight' = f \o t /\ InOrder
<1>1. flight # <<>> /\ Head(flight) = a /\ Tail(flight) = f
  OBVIOUS
<1>2. flight' = f \o t
  BY <1>1 DEF Log
<1>3. CASE t = <<>>
  <2>1. flight' = f
    BY <1>2, <1>3
  <2>2. QED
    BY <1>1, <1>2, <2>1 DEF InOrder, Channel!Deliver, Channel!Kept
<1>4. CASE t # <<>>
  <2>1. PICK b \in Bytes : t = <<b>>
    BY <1>4 DEF Takes
  <2>2. flight' = Append(f, b)
    BY <1>2, <2>1
  <2>3. QED
    BY <1>1, <1>2, <2>2 DEF InOrder, Channel!Deliver, Channel!Taken
<1>5. QED
  BY <1>3, <1>4

LEMMA OneByte == ASSUME NEW a \in Bytes
                 PROVE  /\ <<>> \in Seq(Bytes) /\ <<a>> \in Seq(Bytes) /\ <<a>> \o <<>> = <<a>> /\ <<>> \o <<a>> = <<a>>
                        /\ \A b \in Bytes : <<a>> \o <<b>> = <<a, b>> /\ <<a, b>> \in Seq(Bytes)
<1>1. <<>> \in Seq(Bytes) /\ <<a>> \in Seq(Bytes)
  OBVIOUS
<1>2. <<a>> \o <<>> = <<a>> /\ <<>> \o <<a>> = <<a>>
  BY <1>1
<1>3. ASSUME NEW b \in Bytes PROVE <<a>> \o <<b>> = <<a, b>> /\ <<a, b>> \in Seq(Bytes)
  <2>1. <<a, b>> \in Seq(Bytes) /\ Len(<<a, b>>) = 2 /\ <<a>> \o <<b>> = Append(<<a>>, b)
    OBVIOUS
  <2>2. /\ Append(<<a>>, b) \in Seq(Bytes) /\ Len(Append(<<a>>, b)) = 2
        /\ Append(<<a>>, b)[1] = a /\ Append(<<a>>, b)[2] = b
    BY <1>1
  <2>3. \A i \in 1 .. 2 : Append(<<a>>, b)[i] = <<a, b>>[i]
    BY <2>2
  <2>4. QED
    BY <2>1, <2>2, <2>3, SeqEqual
<1>4. QED
  BY <1>1, <1>2, <1>3

LEMMA NoByte == <<>> \in Seq(Bytes) /\ <<>> \o <<>> = <<>>
OBVIOUS

(* A clock, without its history.                                           *)
LEMMA ClockIs ==
  ASSUME EndsOK, LinkClock
  PROVE  /\ receiver'.rx_d1 = sender.tx /\ receiver'.rx_d2 = receiver.rx_d1 /\ Rx!Receive(sender.tx)
         /\ \/ sender.state = "IDLE" /\ Tx!TxIdle /\ Log(<<>>)
            \/ sender.state = "IDLE" /\ \E b \in Bytes : Tx!Accept(b) /\ Log(<<b>>)
            \/ sender.state # "IDLE" /\ Tx!Sending /\ Log(<<>>)
<1>1. Rx!Receive(sender.tx)
  BY DEF LinkClock, Offer, Rest
<1>2. receiver'.rx_d1 = sender.tx /\ receiver'.rx_d2 = receiver.rx_d1
  BY <1>1, RxDoes
<1>3. CASE Offer
  BY <1>1, <1>2, <1>3, TxAccepts DEF Offer
<1>4. CASE Rest
  BY <1>1, <1>2, <1>4, TxRests, TxDoes DEF Rest
<1>5. QED
  BY <1>3, <1>4 DEF LinkClock

-----------------------------------------------------------------------------
(* The receiver waits for a frame.                                         *)
LEMMA AgeGoesOn ==
  ASSUME EndsOK, ClkPerBit > 2, NEW b \in 0 .. 255, NEW n \in Nat, n <= 4 + Half, Age(n), n < 4 + Half \/ n < 4,
         NextClockOf(b) \/ NextSlotOf(b) \/ FrameEnds
  PROVE  Age(n + 1)' /\ LineIs(b)'
<1>1. sender.clk_cnt \in Nat /\ sender.clk_cnt < ClkPerBit /\ ClkPerBit \in Nat /\ Half \in Nat /\ 2 * Half <= ClkPerBit
  BY Ranges, HalfIs
<1>2. CASE TxSlot = 0 /\ sender.clk_cnt = n
  BY <1>1, <1>2 DEF NextClockOf, NextSlotOf, FrameEnds, Age
<1>3. CASE TxSlot = 1 /\ sender.clk_cnt + ClkPerBit = n
  BY <1>1, <1>3 DEF NextClockOf, NextSlotOf, FrameEnds, Age
<1>4. QED
  BY <1>2, <1>3 DEF Age

(* The start bit is low from the third clock of a frame on.                *)
LEMMA StartIsSeen ==
  ASSUME EndsOK, ClkPerBit > 2, NEW b, LineIs(b), NEW n \in Nat, n <= 4 + Half, Age(n)
  PROVE  receiver.rx_d2 = IF n < 3 THEN 1 ELSE 0
<1>1. /\ sender.clk_cnt \in Nat /\ sender.clk_cnt < ClkPerBit /\ ClkPerBit \in Nat
      /\ Half \in Nat /\ 2 * Half <= ClkPerBit
  BY Ranges, HalfIs
<1>2. receiver.rx_d2 = IF sender.clk_cnt >= 3 THEN LevelOf(b, TxSlot) ELSE Was(b, TxSlot)
  BY DEF LineIs, LineAt, SeenAt
<1>3. Was(b, 0) = 1 /\ LevelOf(b, 0) = 0 /\ Was(b, 1) = 0
  <2>1. 0 \in 0 .. 9
    OBVIOUS
  <2>2. QED
    BY <2>1, WasIs
<1>4. CASE TxSlot = 0 /\ sender.clk_cnt = n
  BY <1>1, <1>2, <1>3, <1>4
<1>5. CASE TxSlot = 1 /\ sender.clk_cnt + ClkPerBit = n
  BY <1>1, <1>2, <1>3, <1>5
<1>6. QED
  BY <1>4, <1>5 DEF Age

LEMMA WaitingKeeps ==
  ASSUME EndsOK, ClkPerBit > 2, Waiting, LinkClock
  PROVE  LinkInv' /\ InOrder
<1>1. /\ receiver'.rx_d1 = sender.tx /\ receiver'.rx_d2 = receiver.rx_d1
      /\ Hidden /\ receiver'.clk_cnt = 0
      /\ receiver'.state = IF receiver.rx_d2 = 0 THEN "START" ELSE "IDLE"
  BY ClockIs, RxDoes DEF Waiting
<1>2. CASE sender.state = "IDLE" /\ flight = <<>> /\ LineHigh
  <2>1. receiver'.state = "IDLE"
    BY <1>1, <1>2 DEF LineHigh
  <2>2. CASE Tx!TxIdle /\ Log(<<>>)
    <3>1. flight' = <<>> /\ InOrder
      BY <1>1, <1>2, <2>2, NoByte, ShowsNothing DEF Takes
    <3>2. sender'.state = "IDLE" /\ LineHigh'
      BY <1>1, <1>2, <2>2, TxRests DEF LineHigh
    <3>3. QED
      BY <2>1, <3>1, <3>2 DEF LinkInv, Waiting
  <2>3. CASE \E b \in Bytes : Tx!Accept(b) /\ Log(<<b>>)
    <3>1. PICK b \in Bytes : Tx!Accept(b) /\ Log(<<b>>)
      BY <2>3
    <3>2. flight' = <<b>> /\ InOrder
      BY <1>1, <1>2, <3>1, NoByte, OneByte, ShowsNothing DEF Takes
    <3>3. b \in 0 .. 255
      BY BytesAssumption
    <3>4. LineIs(b)' /\ Age(0)'
      BY <1>1, <1>2, <3>1, <3>3, FrameBegins DEF Age
    <3>5. 0 \in 0 .. 3
      OBVIOUS
    <3>6. QED
      BY <2>1, <3>2, <3>4, <3>5 DEF LinkInv, Waiting
  <2>4. QED
    BY <1>2, <2>2, <2>3, ClockIs
<1>3. CASE sender.state = "STOP" /\ flight = <<>> /\ LineHigh /\ sender.clk_cnt >= 3
  <2>1. receiver'.state = "IDLE"
    BY <1>1, <1>3 DEF LineHigh
  <2>2. Tx!Sending /\ Log(<<>>)
    BY <1>3, ClockIs
  <2>3. flight' = <<>> /\ InOrder
    BY <1>1, <1>3, <2>2, NoByte, ShowsNothing DEF Takes
  <2>4. Tx!Level = 1
    BY <1>3 DEF Tx!Level
  <2>5. LineHigh' /\ (TxHolds \/ TxTurns)
    BY <1>1, <1>3, <2>2, <2>4, TxDoes DEF LineHigh
  <2>6. sender.clk_cnt \in Nat
    BY Ranges
  <2>7. sender'.state = "IDLE" \/ (sender'.state = "STOP" /\ sender'.clk_cnt >= 3)
    <3>1. CASE TxHolds
      BY <1>3, <2>6, <3>1 DEF TxHolds
    <3>2. CASE TxTurns
      <4>1. sender.state = "STOP"
        BY <1>3
      <4>2. QED
        BY <3>2, <4>1 DEF TxTurns
    <3>3. QED
      BY <2>5, <3>1, <3>2
  <2>8. QED
    BY <2>1, <2>3, <2>5, <2>7 DEF LinkInv, Waiting
<1>4. CASE \E b \in Bytes, n \in 0 .. 3 : flight = <<b>> /\ LineIs(b) /\ Age(n)
  <2>1. PICK b \in Bytes, n \in 0 .. 3 : flight = <<b>> /\ LineIs(b) /\ Age(n)
    BY <1>4
  <2>2. b \in 0 .. 255 /\ n \in Nat /\ n < 4 /\ n <= 4 + Half /\ Half \in Nat
    BY BytesAssumption, HalfIs
  <2>3. Tx!Sending /\ Log(<<>>)
    BY <2>1, ClockIs DEF LineIs
  <2>4. flight' = <<b>> /\ InOrder
    BY <1>1, <2>1, <2>3, OneByte, ShowsNothing DEF Takes
  <2>5. Age(n + 1)' /\ LineIs(b)'
    BY <1>1, <2>1, <2>2, <2>3, LineGoesOn, AgeGoesOn
  <2>6. receiver.rx_d2 = IF n < 3 THEN 1 ELSE 0
    BY <2>1, <2>2, StartIsSeen
  <2>7. CASE n < 3
    <3>1. receiver'.state = "IDLE" /\ n + 1 \in 0 .. 3
      BY <1>1, <2>2, <2>6, <2>7
    <3>2. QED
      BY <2>4, <2>5, <3>1 DEF LinkInv, Waiting
  <2>8. CASE n = 3
    <3>1. receiver'.state = "START" /\ receiver'.clk_cnt = 0 /\ n + 1 = 4 + 0 /\ 0 <= Half
      BY <1>1, <2>2, <2>6, <2>8
    <3>2. Age(4 + receiver.clk_cnt)'
      BY <2>5, <3>1 DEF Age
    <3>3. QED
      BY <2>4, <2>5, <3>1, <3>2 DEF LinkInv, Starting, Half
  <2>9. QED
    BY <2>2, <2>7, <2>8
<1>5. QED
  BY <1>2, <1>3, <1>4 DEF Waiting

(* The shift register has none of b yet.                                   *)
LEMMA NothingSampled ==
  ASSUME EndsOK, NEW b \in Bytes, receiver'.state = "DATA", receiver'.bit_cnt = 0,
         receiver'.shift_reg = receiver.shift_reg
  PROVE  Got(b)'
<1>1. RxSlot' = 1
  BY DEF RxSlot
<1>2. receiver.shift_reg \in Nat /\ receiver.shift_reg < 256 /\ b \in Nat
  BY Ranges, BytesAssumption
<1>3. receiver.shift_reg \div 256 = 0 /\ b % 1 = 0
  BY <1>2
<1>4. QED
  BY <1>1, <1>3, PowIs DEF Got

(* It looks at the start bit again half a bit later.                       *)
LEMMA SyncStarts ==
  ASSUME EndsOK, ClkPerBit > 2, NEW b, Age(4 + Half), NextClockOf(b) \/ NextSlotOf(b) \/ FrameEnds,
         receiver'.state = "DATA", receiver'.clk_cnt = 0, receiver'.bit_cnt = 0
  PROVE  LineIs(b)' /\ InStep'
<1>1. /\ sender.clk_cnt \in Nat /\ sender.clk_cnt < ClkPerBit /\ ClkPerBit \in Nat
      /\ Half \in Nat /\ 2 * Half <= ClkPerBit
  BY Ranges, HalfIs
<1>2. RxSlot' = 1 /\ Elapsed' = 5 + Half
  BY <1>1 DEF RxSlot, Elapsed, Half
<1>3. CASE TxSlot = 0 /\ sender.clk_cnt = 4 + Half
  BY <1>1, <1>2, <1>3 DEF NextClockOf, NextSlotOf, FrameEnds, InStep
<1>4. CASE TxSlot = 1 /\ sender.clk_cnt + ClkPerBit = 4 + Half
  BY <1>1, <1>2, <1>4 DEF NextClockOf, NextSlotOf, FrameEnds, InStep
<1>5. QED
  BY <1>3, <1>4 DEF Age

LEMMA StartingKeeps ==
  ASSUME EndsOK, ClkPerBit > 2, Starting, LinkClock
  PROVE  LinkInv' /\ InOrder
<1>1. PICK b \in Bytes : flight = <<b>> /\ LineIs(b) /\ Age(4 + receiver.clk_cnt)
  BY DEF Starting
<1>2. /\ receiver.state = "START" /\ receiver.clk_cnt <= Half /\ receiver.clk_cnt \in Nat /\ Half \in Nat
      /\ b \in 0 .. 255
  BY Ranges, HalfIs, BytesAssumption DEF Starting
<1>3. /\ receiver'.rx_d1 = sender.tx /\ receiver'.rx_d2 = receiver.rx_d1 /\ Rx!Receive(sender.tx)
      /\ Tx!Sending /\ Log(<<>>)
  BY <1>1, ClockIs DEF LineIs
<1>4. NextClockOf(b) \/ NextSlotOf(b) \/ FrameEnds
  BY <1>1, <1>2, <1>3, LineGoesOn
<1>5. CASE receiver.clk_cnt # Half
  <2>1. RxCounts
    BY <1>2, <1>3, <1>5, RxDoes
  <2>2. flight' = <<b>> /\ InOrder
    BY <1>1, <1>3, <2>1, OneByte, ShowsNothing DEF Takes, RxCounts
  <2>3. PICK n \in Nat : n = 4 + receiver.clk_cnt
    BY <1>2
  <2>4. Age(n + 1)' /\ LineIs(b)'
    <3>1. Age(n) /\ n <= 4 + Half /\ n < 4 + Half
      BY <1>1, <1>2, <1>5, <2>3
    <3>2. QED
      BY <1>2, <1>4, <3>1, AgeGoesOn
  <2>5. /\ receiver'.state = "START" /\ receiver'.clk_cnt <= Half /\ 4 + receiver'.clk_cnt = n + 1
    BY <1>2, <1>5, <2>1, <2>3 DEF RxCounts
  <2>6. Age(4 + receiver.clk_cnt)'
    BY <2>4, <2>5 DEF Age
  <2>7. QED
    BY <2>2, <2>4, <2>5, <2>6 DEF LinkInv, Starting, Half
<1>6. CASE receiver.clk_cnt = Half
  <2>1. receiver.rx_d2 = 0
    <3>1. PICK n \in Nat : n = 4 + Half
      BY <1>2
    <3>2. Age(n) /\ n <= 4 + Half /\ ~(n < 3)
      BY <1>1, <1>2, <1>6, <3>1
    <3>3. QED
      BY <1>1, <3>2, StartIsSeen
  <2>2. /\ receiver'.state = "DATA" /\ receiver'.clk_cnt = 0 /\ receiver'.bit_cnt = 0
        /\ receiver'.shift_reg = receiver.shift_reg /\ Hidden
    BY <1>2, <1>3, <1>6, <2>1, RxDoes
  <2>3. flight' = <<b>> /\ InOrder
    BY <1>1, <1>3, <2>2, OneByte, ShowsNothing DEF Takes
  <2>4. LineIs(b)' /\ InStep'
    BY <1>1, <1>4, <1>6, <2>2, SyncStarts
  <2>5. Got(b)'
    BY <2>2, NothingSampled
  <2>6. QED
    BY <2>2, <2>3, <2>4, <2>5 DEF LinkInv, Reading
<1>7. QED
  BY <1>5, <1>6

-----------------------------------------------------------------------------
(* It counts through the bits.                                             *)
LEMMA StepsTogether ==
  ASSUME EndsOK, ClkPerBit > 2, NEW b, InStep, receiver.state \in {"DATA", "STOP"},
         receiver.clk_cnt # ClkPerBit - 1, RxCounts, NextClockOf(b) \/ NextSlotOf(b) \/ FrameEnds
  PROVE  \/ LineIs(b)' /\ InStep'
         \/ /\ sender'.state = "IDLE" /\ LineHigh' /\ receiver'.state = "STOP" /\ Elapsed' >= 2 * ClkPerBit
<1>1. /\ sender.clk_cnt \in Nat /\ sender.clk_cnt < ClkPerBit /\ ClkPerBit \in Nat
      /\ receiver.clk_cnt \in Nat /\ receiver.clk_cnt + 1 < ClkPerBit /\ receiver.bit_cnt \in 0 .. 7
      /\ Half \in Nat /\ 2 * Half <= ClkPerBit
  BY Ranges, HalfIs
<1>2. RxSlot' = RxSlot /\ Elapsed' = Elapsed + 1 /\ receiver'.state = receiver.state /\ Elapsed = receiver.clk_cnt + 5 + Half
  BY <1>1 DEF RxSlot, RxCounts, Elapsed, Half
<1>3. RxSlot \in 1 .. 9 /\ (RxSlot = 9 => receiver.state = "STOP")
  BY <1>1 DEF RxSlot
<1>4. CASE TxSlot = RxSlot /\ sender.clk_cnt + ClkPerBit = Elapsed
  BY <1>1, <1>2, <1>3, <1>4 DEF NextClockOf, NextSlotOf, FrameEnds, InStep
<1>5. CASE TxSlot + 1 = RxSlot /\ sender.clk_cnt = Elapsed
  BY <1>1, <1>2, <1>3, <1>5 DEF NextClockOf, NextSlotOf, FrameEnds, InStep
<1>6. CASE TxSlot = RxSlot + 1 /\ sender.clk_cnt + 2 * ClkPerBit = Elapsed
  BY <1>1, <1>2, <1>3, <1>6 DEF NextClockOf, NextSlotOf, FrameEnds, InStep
<1>7. QED
  BY <1>4, <1>5, <1>6 DEF InStep

(* It samples inside the bit, and the line is a clock further.             *)
LEMMA SamplesInside ==
  ASSUME EndsOK, ClkPerBit > 2, NEW b, InStep, LineIs(b), receiver.state \in {"DATA", "STOP"},
         receiver.clk_cnt = ClkPerBit - 1
  PROVE  /\ receiver.rx_d2 = LevelOf(b, RxSlot)
         /\ \/ TxSlot = RxSlot /\ sender.clk_cnt = 4 + Half
            \/ TxSlot = RxSlot + 1 /\ sender.clk_cnt + ClkPerBit = 4 + Half
<1>1. /\ sender.clk_cnt \in Nat /\ sender.clk_cnt < ClkPerBit /\ ClkPerBit \in Nat
      /\ receiver.bit_cnt \in 0 .. 7 /\ Half \in Nat /\ 2 * Half <= ClkPerBit
  BY Ranges, HalfIs
<1>2. Elapsed = ClkPerBit + 4 + Half
  BY <1>1 DEF Elapsed
<1>3. RxSlot \in 0 .. 9
  BY <1>1 DEF RxSlot
<1>4. receiver.rx_d2 = IF sender.clk_cnt >= 3 THEN LevelOf(b, TxSlot) ELSE Was(b, TxSlot)
  BY DEF LineIs, LineAt, SeenAt
<1>5. CASE TxSlot = RxSlot /\ sender.clk_cnt + ClkPerBit = Elapsed
  BY <1>1, <1>2, <1>4, <1>5
<1>6. ~(TxSlot + 1 = RxSlot /\ sender.clk_cnt = Elapsed)
  BY <1>1, <1>2
<1>7. CASE TxSlot = RxSlot + 1 /\ sender.clk_cnt + 2 * ClkPerBit = Elapsed
  <2>1. Was(b, RxSlot + 1) = LevelOf(b, RxSlot)
    BY <1>3, WasIs
  <2>2. sender.clk_cnt + ClkPerBit = 4 + Half /\ ~(sender.clk_cnt >= 3)
    BY <1>1, <1>2, <1>7
  <2>3. QED
    BY <1>4, <1>7, <2>1, <2>2
<1>8. QED
  BY <1>5, <1>6, <1>7 DEF InStep

LEMMA SampledTogether ==
  ASSUME EndsOK, ClkPerBit > 2, NEW b, receiver.state = "DATA", receiver'.clk_cnt = 0,
         receiver'.state = IF receiver.bit_cnt = 7 THEN "STOP" ELSE "DATA",
         receiver.bit_cnt # 7 => receiver'.bit_cnt = receiver.bit_cnt + 1,
         \/ TxSlot = RxSlot /\ sender.clk_cnt = 4 + Half
         \/ TxSlot = RxSlot + 1 /\ sender.clk_cnt + ClkPerBit = 4 + Half,
         NextClockOf(b) \/ NextSlotOf(b) \/ FrameEnds
  PROVE  /\ RxSlot' = RxSlot + 1
         /\ \/ LineIs(b)' /\ InStep'
            \/ /\ sender'.state = "IDLE" /\ LineHigh' /\ receiver'.state = "STOP" /\ Elapsed' >= 2 * ClkPerBit
<1>1. /\ sender.clk_cnt \in Nat /\ sender.clk_cnt < ClkPerBit /\ ClkPerBit \in Nat
      /\ receiver.bit_cnt \in 0 .. 7 /\ Half \in Nat /\ 2 * Half <= ClkPerBit
  BY Ranges, HalfIs
<1>2. /\ RxSlot = receiver.bit_cnt + 1 /\ RxSlot' = RxSlot + 1 /\ Elapsed' = 5 + Half
      /\ RxSlot = 8 => receiver'.state = "STOP"
  BY <1>1 DEF RxSlot, Elapsed, Half
<1>3. CASE TxSlot = RxSlot /\ sender.clk_cnt = 4 + Half
  BY <1>1, <1>2, <1>3 DEF NextClockOf, NextSlotOf, FrameEnds, InStep
<1>4. CASE TxSlot = RxSlot + 1 /\ sender.clk_cnt + ClkPerBit = 4 + Half
  BY <1>1, <1>2, <1>4 DEF NextClockOf, NextSlotOf, FrameEnds, InStep
<1>5. QED
  BY <1>2, <1>3, <1>4

LEMMA AllSampled ==
  ASSUME EndsOK, receiver.state = "STOP", NEW b \in Bytes, Got(b)
  PROVE  receiver.shift_reg = b
<1>1. RxSlot = 9 /\ Pow[1] = 1 /\ Pow[9] = 256
  BY PowIs DEF RxSlot
<1>2. receiver.shift_reg \div 1 = b % 256
  BY <1>1 DEF Got
<1>3. receiver.shift_reg \in 0 .. 255 /\ b \in 0 .. 255
  BY Ranges, BytesAssumption
<1>4. \A v \in 0 .. 255 : v \in Nat /\ v < 256
  OBVIOUS
<1>5. \A v \in Nat : v < 256 => v \div 1 = v /\ v % 256 = v
  OBVIOUS
<1>6. QED
  BY <1>2, <1>3, <1>4, <1>5

(* Another bit of b in the shift register.                                 *)
LEMMA BitSampled ==
  ASSUME EndsOK, NEW b \in Bytes, Got(b), receiver.state = "DATA", receiver.rx_d2 = LevelOf(b, RxSlot),
         receiver'.shift_reg = 128 * receiver.rx_d2 + receiver.shift_reg \div 2, RxSlot' = RxSlot + 1
  PROVE  Got(b)'
<1>1. PICK k \in 0 .. 7 : k = receiver.bit_cnt
  BY Ranges
<1>2. RxSlot = k + 1 /\ 10 - RxSlot = 9 - k
  BY <1>1 DEF RxSlot
<1>3. receiver.shift_reg \div Pow[9 - k] = b % Pow[k + 1]
  BY <1>2 DEF Got
<1>4. receiver.shift_reg \in Nat /\ b \in Nat
  BY Ranges, BytesAssumption
<1>5. (128 * Bit(b, k) + receiver.shift_reg \div 2) \div Pow[8 - k] = b % Pow[k + 2]
  BY <1>1, <1>3, <1>4, Samples
<1>6. receiver.rx_d2 = Bit(b, k)
  BY <1>1, <1>2, WasIs
<1>7. RxSlot' = k + 2 /\ 10 - RxSlot' = 8 - k
  BY <1>1, <1>2
<1>8. QED
  BY <1>5, <1>6, <1>7 DEF Got

(* The frame of b is being received and still on the line.                 *)
LEMMA ReadingKeeps ==
  ASSUME EndsOK, ClkPerBit > 2, receiver.state \in {"DATA", "STOP"}, NEW b \in Bytes, flight = <<b>>, Got(b),
         LineIs(b), InStep, LinkClock
  PROVE  LinkInv' /\ InOrder
<1>1. b \in 0 .. 255
  BY BytesAssumption
<1>2. /\ receiver'.rx_d1 = sender.tx /\ receiver'.rx_d2 = receiver.rx_d1 /\ Rx!Receive(sender.tx)
      /\ Tx!Sending /\ Log(<<>>)
  BY ClockIs DEF LineIs
<1>3. NextClockOf(b) \/ NextSlotOf(b) \/ FrameEnds
  BY <1>1, <1>2, LineGoesOn
<1>4. CASE receiver.clk_cnt # ClkPerBit - 1
  <2>1. RxCounts
    BY <1>2, <1>4, RxDoes
  <2>2. flight' = <<b>> /\ InOrder
    BY <1>2, <2>1, OneByte, ShowsNothing DEF Takes, RxCounts
  <2>3. Got(b)'
    BY <2>1 DEF Got, RxSlot, RxCounts
  <2>4. receiver'.state \in {"DATA", "STOP"}
    BY <2>1 DEF RxCounts
  <2>5. QED
    BY <1>3, <1>4, <2>1, <2>2, <2>3, <2>4, StepsTogether DEF LinkInv, Reading
<1>5. CASE receiver.clk_cnt = ClkPerBit - 1 /\ receiver.state = "DATA"
  <2>1. /\ receiver.rx_d2 = LevelOf(b, RxSlot)
        /\ \/ TxSlot = RxSlot /\ sender.clk_cnt = 4 + Half
           \/ TxSlot = RxSlot + 1 /\ sender.clk_cnt + ClkPerBit = 4 + Half
    BY <1>5, SamplesInside
  <2>2. /\ receiver'.clk_cnt = 0 /\ Hidden
        /\ receiver'.shift_reg = 128 * receiver.rx_d2 + receiver.shift_reg \div 2
        /\ receiver'.state = IF receiver.bit_cnt = 7 THEN "STOP" ELSE "DATA"
        /\ receiver.bit_cnt # 7 => receiver'.bit_cnt = receiver.bit_cnt + 1
    BY <1>2, <1>5, RxDoes
  <2>3. flight' = <<b>> /\ InOrder
    BY <1>2, <2>2, OneByte, ShowsNothing DEF Takes
  <2>4. /\ RxSlot' = RxSlot + 1
        /\ \/ LineIs(b)' /\ InStep'
           \/ /\ sender'.state = "IDLE" /\ LineHigh' /\ receiver'.state = "STOP" /\ Elapsed' >= 2 * ClkPerBit
    BY <1>3, <1>5, <2>1, <2>2, SampledTogether
  <2>5. Got(b)'
    BY <1>5, <2>1, <2>2, <2>4, BitSampled
  <2>6. receiver'.state \in {"DATA", "STOP"}
    BY <2>2
  <2>7. QED
    BY <2>3, <2>4, <2>5, <2>6 DEF LinkInv, Reading
<1>6. CASE receiver.clk_cnt = ClkPerBit - 1 /\ receiver.state = "STOP"
  <2>1. /\ RxSlot = 9 /\ receiver.rx_d2 = LevelOf(b, RxSlot)
        /\ \/ TxSlot = RxSlot /\ sender.clk_cnt = 4 + Half
           \/ TxSlot = RxSlot + 1 /\ sender.clk_cnt + ClkPerBit = 4 + Half
    BY <1>6, SamplesInside DEF RxSlot
  <2>2. receiver.rx_d2 = 1
    BY <2>1, WasIs
  <2>3. /\ receiver'.state = "IDLE" /\ receiver'.rx_valid = TRUE /\ receiver'.rx_data = b
    BY <1>2, <1>6, <2>2, RxDoes, AllSampled
  <2>4. flight' = <<>> /\ InOrder
    <3>1. flight = <<b>> \o <<>>
      BY OneByte
    <3>2. QED
      BY <1>2, <2>3, <3>1, NoByte, ShowsOldest DEF Takes
  <2>5. TxSlot = 9 /\ sender.clk_cnt = 4 + Half /\ sender.state = "STOP"
    <3>1. TxSlot \in 0 .. 9
      BY <1>1, LevelIs
    <3>2. TxSlot = 9 /\ sender.clk_cnt = 4 + Half
      BY <2>1, <3>1
    <3>3. sender.state = "DATA" => TxSlot \in 1 .. 8
      BY Ranges DEF TxSlot
    <3>4. QED
      BY <3>2, <3>3, Ranges DEF LineIs, TxSlot
  <2>6. CASE NextClockOf(b)
    <3>1. sender'.state = "STOP" /\ sender'.clk_cnt \in Nat /\ sender'.clk_cnt >= 3 /\ TxSlot' = 9
      BY <2>5, <2>6, HalfIs DEF NextClockOf
    <3>2. LineHigh'
      BY <2>6, <3>1, WasIs DEF NextClockOf, LineIs, LineAt, SeenAt, LineHigh
    <3>3. QED
      BY <2>3, <2>4, <3>1, <3>2 DEF LinkInv, Waiting
  <2>7. CASE NextSlotOf(b)
    BY <2>5, <2>7 DEF NextSlotOf
  <2>8. CASE FrameEnds
    BY <2>3, <2>4, <2>8 DEF FrameEnds, LinkInv, Waiting
  <2>9. QED
    BY <1>3, <2>6, <2>7, <2>8
<1>7. QED
  BY <1>4, <1>5, <1>6

(* The receiver waits for the stop bit and the line is free again.         *)
LEMMA EndingKeeps ==
  ASSUME EndsOK, ClkPerBit > 2, receiver.state = "STOP", NEW a \in Bytes, flight = <<a>>, Got(a),
         sender.state = "IDLE", LineHigh, Elapsed >= 2 * ClkPerBit, LinkClock
  PROVE  LinkInv' /\ InOrder
<1>1. /\ receiver'.rx_d1 = sender.tx /\ receiver'.rx_d2 = receiver.rx_d1 /\ Rx!Receive(sender.tx)
      /\ receiver.rx_d2 = 1 /\ receiver.clk_cnt \in Nat /\ Half \in Nat /\ ClkPerBit \in Nat
  BY ClockIs, Ranges, HalfIs DEF LineHigh
<1>2. PICK t : /\ Log(t) /\ Takes(t)
               /\ \/ t = <<>> /\ sender'.state = "IDLE" /\ LineHigh'
                  \/ \E b \in Bytes : /\ t = <<b>> /\ LineIs(b)' /\ sender'.state = "START"
                                      /\ sender'.clk_cnt = 0 /\ TxSlot' = 0
  <2>1. CASE Tx!TxIdle /\ Log(<<>>)
    BY <1>1, <2>1, TxRests DEF LineHigh, Takes
  <2>2. CASE \E b \in Bytes : Tx!Accept(b) /\ Log(<<b>>)
    <3>1. PICK b \in Bytes : Tx!Accept(b) /\ Log(<<b>>)
      BY <2>2
    <3>2. b \in 0 .. 255
      BY BytesAssumption
    <3>3. LineIs(b)' /\ sender'.state = "START" /\ sender'.clk_cnt = 0 /\ TxSlot' = 0
      BY <1>1, <3>1, <3>2, FrameBegins
    <3>4. QED
      BY <3>1, <3>3 DEF Takes
  <2>3. QED
    BY <2>1, <2>2, ClockIs
<1>3. CASE receiver.clk_cnt # ClkPerBit - 1
  <2>1. RxCounts
    BY <1>1, <1>3, RxDoes
  <2>2. flight' = <<a>> \o t /\ InOrder
    BY <1>2, <2>1, OneByte, ShowsNothing DEF RxCounts
  <2>3. receiver'.state = "STOP" /\ Got(a)' /\ Elapsed' = Elapsed + 1 /\ Elapsed \in Nat
    BY <1>1, <2>1 DEF RxCounts, Got, RxSlot, Elapsed, Half
  <2>4. CASE t = <<>> /\ sender'.state = "IDLE" /\ LineHigh'
    <3>1. flight' = <<a>> /\ Elapsed' >= 2 * ClkPerBit
      BY <1>1, <2>2, <2>3, <2>4, OneByte
    <3>2. QED
      BY <2>2, <2>3, <2>4, <3>1 DEF LinkInv, Reading
  <2>5. CASE \E b \in Bytes : /\ t = <<b>> /\ LineIs(b)' /\ sender'.state = "START"
                              /\ sender'.clk_cnt = 0 /\ TxSlot' = 0
    <3>1. PICK b \in Bytes : t = <<b>> /\ LineIs(b)' /\ sender'.state = "START" /\ sender'.clk_cnt = 0
      BY <2>5
    <3>2. flight' = <<a, b>> /\ sender'.clk_cnt + 2 * ClkPerBit + 1 <= Elapsed'
      BY <1>1, <2>2, <2>3, <3>1, OneByte
    <3>3. QED
      BY <2>2, <2>3, <3>1, <3>2 DEF LinkInv, Overtaken
  <2>6. QED
    BY <1>2, <2>4, <2>5
<1>4. CASE receiver.clk_cnt = ClkPerBit - 1
  <2>1. receiver'.state = "IDLE" /\ receiver'.rx_valid = TRUE /\ receiver'.rx_data = a
    BY <1>1, <1>4, RxDoes, AllSampled
  <2>2. flight' = <<>> \o t /\ InOrder
    <3>1. flight = <<a>> \o <<>>
      BY OneByte
    <3>2. QED
      BY <1>2, <2>1, <3>1, NoByte, ShowsOldest
  <2>3. CASE t = <<>> /\ sender'.state = "IDLE" /\ LineHigh'
    <3>1. flight' = <<>>
      BY <2>2, <2>3, NoByte
    <3>2. QED
      BY <2>1, <2>2, <2>3, <3>1 DEF LinkInv, Waiting
  <2>4. CASE \E b \in Bytes : /\ t = <<b>> /\ LineIs(b)' /\ sender'.state = "START"
                              /\ sender'.clk_cnt = 0 /\ TxSlot' = 0
    <3>1. PICK b \in Bytes : t = <<b>> /\ LineIs(b)' /\ sender'.clk_cnt = 0 /\ TxSlot' = 0
      BY <2>4
    <3>2. flight' = <<b>> /\ Age(0)' /\ 0 \in 0 .. 3
      BY <2>2, <3>1, OneByte DEF Age
    <3>3. QED
      BY <2>1, <2>2, <3>1, <3>2 DEF LinkInv, Waiting
  <2>5. QED
    BY <1>2, <2>3, <2>4
<1>5. QED
  BY <1>3, <1>4

(* The next frame has begun before the receiver looks at the stop bit.     *)
LEMMA OvertakenKeeps ==
  ASSUME EndsOK, ClkPerBit > 2, Overtaken, LinkClock
  PROVE  LinkInv' /\ InOrder
<1>1. PICK a \in Bytes, b \in Bytes : /\ flight = <<a, b>> /\ Got(a) /\ LineIs(b) /\ sender.state = "START"
                                      /\ sender.clk_cnt + 2 * ClkPerBit + 1 <= Elapsed
  BY DEF Overtaken
<1>2. /\ receiver.state = "STOP" /\ a \in 0 .. 255 /\ b \in 0 .. 255 /\ TxSlot = 0
      /\ receiver.clk_cnt \in Nat /\ receiver.clk_cnt < ClkPerBit /\ sender.clk_cnt \in Nat /\ ClkPerBit \in Nat
      /\ Half \in Nat /\ 2 * Half <= ClkPerBit /\ Elapsed = receiver.clk_cnt + 5 + Half
  BY <1>1, Ranges, HalfIs, BytesAssumption DEF Overtaken, TxSlot, Elapsed
<1>3. /\ receiver'.rx_d1 = sender.tx /\ receiver'.rx_d2 = receiver.rx_d1 /\ Rx!Receive(sender.tx)
      /\ Tx!Sending /\ Log(<<>>)
  BY <1>1, ClockIs
<1>4. sender.clk_cnt <= 2 /\ sender.clk_cnt + 1 < ClkPerBit
  BY <1>1, <1>2
<1>5. NextClockOf(b)
  <2>1. NextClockOf(b) \/ NextSlotOf(b) \/ FrameEnds
    BY <1>1, <1>2, <1>3, LineGoesOn
  <2>2. ~NextSlotOf(b)
    BY <1>2, <1>4 DEF NextSlotOf
  <2>3. ~FrameEnds
    BY <1>2, <1>4 DEF FrameEnds
  <2>4. QED
    BY <2>1, <2>2, <2>3
<1>6. CASE receiver.clk_cnt # ClkPerBit - 1
  <2>1. RxCounts
    BY <1>2, <1>3, <1>6, RxDoes
  <2>2. flight' = <<a, b>> /\ InOrder
    <3>1. <<a, b>> \in Seq(Bytes) /\ <<a, b>> \o <<>> = <<a, b>>
      BY OneByte
    <3>2. QED
      BY <1>1, <1>3, <2>1, <3>1, ShowsNothing DEF Takes, RxCounts
  <2>3. receiver'.state = "STOP" /\ RxSlot' = RxSlot
    BY <1>2, <2>1 DEF RxCounts, RxSlot
  <2>4. Got(a)'
    BY <1>1, <2>1, <2>3 DEF RxCounts, Got
  <2>5. Elapsed' = Elapsed + 1
    BY <1>2, <2>1 DEF RxCounts, Elapsed, Half
  <2>6. LineIs(b)' /\ sender'.state = "START" /\ sender'.clk_cnt + 2 * ClkPerBit + 1 <= Elapsed'
    BY <1>1, <1>2, <1>5, <2>5 DEF NextClockOf
  <2>7. QED
    BY <2>2, <2>3, <2>4, <2>6 DEF LinkInv, Overtaken
<1>7. CASE receiver.clk_cnt = ClkPerBit - 1
  <2>1. receiver.rx_d2 = 1
    BY <1>1, <1>2, <1>4, WasIs DEF LineIs, LineAt, SeenAt
  <2>2. receiver'.state = "IDLE" /\ receiver'.rx_valid = TRUE /\ receiver'.rx_data = a
    BY <1>1, <1>2, <1>3, <1>7, <2>1, RxDoes, AllSampled
  <2>3. flight' = <<b>> /\ InOrder
    <3>1. flight = <<a>> \o <<b>> /\ <<b>> \in Seq(Bytes) /\ <<b>> \o <<>> = <<b>>
      BY <1>1, OneByte
    <3>2. QED
      BY <1>3, <2>2, <3>1, ShowsOldest DEF Takes
  <2>4. PICK n \in 0 .. 3 : n = sender.clk_cnt + 1
    BY <1>2, <1>4
  <2>5. LineIs(b)' /\ Age(n)'
    BY <1>2, <1>5, <2>4 DEF NextClockOf, Age
  <2>6. QED
    BY <2>2, <2>3, <2>5 DEF LinkInv, Waiting
<1>8. QED
  BY <1>6, <1>7

(* A clock in any of the four situations, a reset, and no step at all.     *)
LEMMA LinkClockKeeps ==
  ASSUME EndsOK, ClkPerBit > 2, LinkInv, LinkClock
  PROVE  LinkInv' /\ InOrder
<1>1. CASE Reading
  <2>1. PICK b \in Bytes : /\ flight = <<b>> /\ Got(b) /\ receiver.state \in {"DATA", "STOP"}
                           /\ \/ LineIs(b) /\ InStep
                              \/ sender.state = "IDLE" /\ LineHigh /\ receiver.state = "STOP" /\ Elapsed >= 2 * ClkPerBit
    BY <1>1 DEF Reading
  <2>2. QED
    BY <2>1, ReadingKeeps, EndingKeeps
<1>2. QED
  BY <1>1, WaitingKeeps, StartingKeeps, OvertakenKeeps DEF LinkInv

LEMMA FreshLink ==
  ASSUME sender = Tx!TxReset, receiver = Rx!RxReset, flight = <<>>
  PROVE  LinkInv /\ Channel!Init
BY DEF Tx!TxReset, Rx!RxReset, LinkInv, Waiting, LineHigh, Channel!Init

LEMMA LinkResetKeeps ==
  ASSUME LinkReset
  PROVE  LinkInv' /\ Channel!Reset
BY DEF LinkReset, Tx!TxReset, Rx!RxReset, LinkInv, Waiting, LineHigh, Channel!Init, Channel!Reset

LEMMA LinkRests ==
  ASSUME LinkInv, UNCHANGED linkVars
  PROVE  LinkInv'
<1>1. sender' = sender /\ receiver' = receiver /\ flight' = flight
  BY DEF linkVars
<1>2. TxSlot' = TxSlot /\ RxSlot' = RxSlot /\ Elapsed' = Elapsed
  BY <1>1 DEF TxSlot, RxSlot, Elapsed, Half
<1>3. LineHigh' = LineHigh /\ InStep' = InStep /\ \A n : Age(n)' = Age(n)
  BY <1>1, <1>2 DEF LineHigh, InStep, Age
<1>4. \A b : LineIs(b)' = LineIs(b) /\ Got(b)' = Got(b)
  BY <1>1, <1>2 DEF LineIs, LineAt, RestAt, Got
<1>5. Waiting => Waiting'
  BY <1>1, <1>3, <1>4 DEF Waiting
<1>6. Starting => Starting'
  BY <1>1, <1>3, <1>4 DEF Starting, Half
<1>7. Reading => Reading'
  BY <1>1, <1>2, <1>3, <1>4 DEF Reading
<1>8. Overtaken => Overtaken'
  BY <1>1, <1>2, <1>3, <1>4 DEF Overtaken
<1>9. QED
  BY <1>5, <1>6, <1>7, <1>8 DEF LinkInv

LEMMA LinkStep ==
  ASSUME EndsOK, ClkPerBit > 2, LinkInv, [LinkNext]_linkVars
  PROVE  LinkInv' /\ [Channel!Next]_(Channel!channelVars)
<1>1. CASE LinkClock
  BY <1>1, LinkClockKeeps DEF InOrder, Channel!Next
<1>2. CASE LinkReset
  BY <1>2, LinkResetKeeps DEF Channel!Next
<1>3. CASE UNCHANGED linkVars
  BY <1>3, LinkRests DEF linkVars, Channel!channelVars
<1>4. QED
  BY <1>1, <1>2, <1>3 DEF LinkNext

(* What the board sends through uart.sv to a receiver of its own kind      *)
(* comes out in order, once each, and nothing else comes out: every step   *)
(* of the wired pair is a step of the channel, for every bit of more than  *)
(* two clocks (uart.sv:21-80, 103-174; the board's has 434, uart.sv:12).   *)
(* That it comes out at all is left to fairness.                           *)
THEOREM LinkIsChannel ==
  ClkPerBit > 2 => (LinkSpec => Channel!Init /\ [][Channel!Next]_(Channel!channelVars))
<1> SUFFICES ASSUME ClkPerBit > 2
             PROVE  LinkSpec => Channel!Init /\ [][Channel!Next]_(Channel!channelVars)
  OBVIOUS
<1>1. LinkInit => LinkInv /\ Channel!Init
  BY FreshLink DEF LinkInit, Tx!TxInit
<1>2. LinkInv /\ EndsOK /\ [LinkNext]_linkVars => LinkInv' /\ [Channel!Next]_(Channel!channelVars)
  BY LinkStep
<1>3. LinkSpec => []EndsOK
  BY EndsAreOK
<1>4. QED
  BY <1>1, <1>2, <1>3, PTL DEF LinkSpec

-----------------------------------------------------------------------------
(* The host's end.  Its edges come early or late, so the position in the   *)
(* frame of b is measured by what has passed on the board's clock since    *)
(* the start bit's edge (Since), and what the line and its copies show is  *)
(* some slot p that this much time allows (Window): in the middle of a     *)
(* slot there is no other one, and that is where the receiver samples.     *)
(* What the receiver can bear of the host's line.                          *)
Tolerable == /\ Late <= Half + 1
             /\ Early + Half + 1 < ClkPerBit
             /\ Calm = 0 \/ Calm > Half

At(p)           == p * ClkPerBit
Since           == At(adapter.bit - 1) + adapter.skew + adapter.age
Window(p, t)    == At(p) <= t + Early /\ t < At(p) + ClkPerBit + Late
Shows(x, b, t)  == IF t < 0 THEN x = 1 ELSE \E p \in 0 .. 9 : x = LevelOf(b, p) /\ Window(p, t)
OnLine(b)       == /\ adapter.bit \in 1 .. 10 /\ adapter.byte = b
                   /\ Since >= 0 /\ Window(adapter.bit - 1, Since)
                   /\ Shows(receiver.rx_d1, b, Since - 1) /\ Shows(receiver.rx_d2, b, Since - 2)

AdapterTyped == adapter \in [bit : 0 .. 10, age : Nat, skew : Int, byte : Nat, calm : Nat, noise : {0, 1}]

LEMMA AtIs == /\ At(0) = 0
              /\ \A p \in 0 .. 10 : At(p) \in Nat /\ At(p + 1) = At(p) + ClkPerBit
              /\ \A p, q \in 0 .. 10 : p < q => At(p) + ClkPerBit <= At(q)
<1>1. ClkPerBit \in Nat
  BY LineAssumption
<1>2. At(0) = 0
  BY <1>1 DEF At
<1>3. ASSUME NEW p \in Nat PROVE At(p) \in Nat /\ At(p + 1) = At(p) + ClkPerBit
  BY <1>1 DEF At
<1>4. ASSUME NEW p \in 0 .. 10, NEW q \in 0 .. 10, p < q PROVE At(p) + ClkPerBit <= At(q)
  <2>1. PICK d \in Nat : q = (p + 1) + d
    BY <1>4
  <2>2. d * ClkPerBit \in Nat /\ (p + 1) * ClkPerBit \in Nat
    BY <1>1
  <2>3. q * ClkPerBit = (p + 1) * ClkPerBit + d * ClkPerBit
    BY <1>1, <2>1
  <2>4. (p + 1) * ClkPerBit = p * ClkPerBit + ClkPerBit /\ p * ClkPerBit \in Nat
    BY <1>1
  <2>5. QED
    BY <1>1, <2>2, <2>3, <2>4 DEF At
<1>5. QED
  BY <1>2, <1>3, <1>4

(* In the middle of a slot the line shows nothing but that slot.           *)
LEMMA MiddleIsCertain ==
  ASSUME Tolerable, NEW k \in 0 .. 9, NEW b, NEW x, Shows(x, b, At(k) + Half + 1)
  PROVE  x = LevelOf(b, k)
<1>1. /\ At(k) \in Nat /\ Half \in Nat /\ Early \in Nat /\ Late \in Nat /\ ClkPerBit \in Nat
  BY AtIs, HalfIs, SkewAssumption
<1>2. PICK p \in 0 .. 9 : x = LevelOf(b, p) /\ Window(p, At(k) + Half + 1)
  BY <1>1 DEF Shows
<1>3. /\ At(p) \in Nat
      /\ p < k => At(p) + ClkPerBit <= At(k)
      /\ k < p => At(k) + ClkPerBit <= At(p)
  BY AtIs
<1>4. ~(p < k) /\ ~(k < p)
  BY <1>1, <1>2, <1>3 DEF Window, Tolerable
<1>5. QED
  BY <1>2, <1>4

LEMMA StartIsLow ==
  ASSUME Tolerable, NEW b, NEW x, NEW t \in 0 .. (Half + 1), Shows(x, b, t)
  PROVE  x = 0
<1>1. Half \in Nat /\ Early \in Nat /\ Late \in Nat /\ ClkPerBit \in Nat
  BY HalfIs, SkewAssumption
<1>2. PICK p \in 0 .. 9 : x = LevelOf(b, p) /\ Window(p, t)
  BY <1>1 DEF Shows
<1>3. At(p) \in Nat /\ At(0) = 0 /\ (0 < p => At(0) + ClkPerBit <= At(p))
  BY AtIs
<1>4. p = 0
  BY <1>1, <1>2, <1>3 DEF Window, Tolerable
<1>5. QED
  BY <1>2, <1>4, WasIs

LEMMA StopIsHigh ==
  ASSUME Tolerable, NEW b, NEW x, NEW t \in Nat, t >= At(9) + Half + 1, Shows(x, b, t)
  PROVE  x = 1
<1>1. /\ At(9) \in Nat /\ Half \in Nat /\ Early \in Nat /\ Late \in Nat /\ ClkPerBit \in Nat
  BY AtIs, HalfIs, SkewAssumption
<1>2. PICK p \in 0 .. 9 : x = LevelOf(b, p) /\ Window(p, t)
  BY <1>1 DEF Shows
<1>3. At(p) \in Nat /\ (p < 9 => At(p) + ClkPerBit <= At(9))
  BY AtIs
<1>4. p = 9
  BY <1>1, <1>2, <1>3 DEF Window, Tolerable
<1>5. QED
  BY <1>2, <1>4, WasIs

(* A clock of the adapter, register by register.                           *)
SameFrame   == adapter'.byte = adapter.byte /\ adapter.bit # 0 /\ Log(<<>>)
BitLasts    == /\ SameFrame /\ adapter'.bit = adapter.bit
               /\ adapter'.age = adapter.age + 1 /\ adapter'.skew = adapter.skew
               /\ adapter.skew + adapter.age + 1 < ClkPerBit + Late
BitEnds     == /\ SameFrame /\ adapter.bit # 10 /\ adapter'.bit = adapter.bit + 1
               /\ adapter'.age = 0 /\ adapter'.skew + ClkPerBit = adapter.skew + adapter.age + 1
               /\ adapter'.skew + Early >= 0 /\ adapter'.skew <= Late
FrameIsOver == /\ adapter.bit = 10 /\ adapter' = Adapter!Resting /\ Log(<<>>)
               /\ adapter.skew + adapter.age + 1 + Early >= ClkPerBit
FrameStarts(b) == /\ adapter.bit = 0 /\ adapter.calm = 0 /\ Log(<<b>>)
                  /\ adapter'.bit = 1 /\ adapter'.age = 0 /\ adapter'.skew = 0 /\ adapter'.byte = b
LineRests   == /\ adapter.bit = 0 /\ Log(<<>>) /\ adapter'.bit = 0 /\ adapter'.noise = 0
               /\ adapter'.calm = IF adapter.calm = 0 THEN 0 ELSE adapter.calm - 1
LinePulses  == /\ adapter.bit = 0 /\ adapter.calm = 0 /\ Calm > 0 /\ Log(<<>>)
               /\ adapter'.bit = 0 /\ adapter'.noise = 1 /\ adapter'.calm = Calm

LEMMA AdapterDoes ==
  ASSUME AdapterTyped, Adapter!Clock
  PROVE  /\ AdapterTyped' /\ Rx!Receive(Adapter!Line) /\ Adapter!Line \in {0, 1}
         /\ \/ BitLasts \/ BitEnds \/ FrameIsOver
            \/ \E b \in Bytes : FrameStarts(b)
            \/ LineRests \/ LinePulses
<1> USE DEF AdapterTyped
<1>1. Rx!Receive(Adapter!Line)
  BY DEF Adapter!Clock, Adapter!Rx!Receive, Rx!Receive, Adapter!Rx!WaitStart, Rx!WaitStart, Adapter!Rx!CheckStart,
     Rx!CheckStart, Adapter!Rx!Count, Rx!Count, Adapter!Rx!SampleBit, Rx!SampleBit, Adapter!Rx!SampleStop,
     Rx!SampleStop, Adapter!Rx!Sync, Rx!Sync, Adapter!Rx!Low, Rx!Low
<1>2. Adapter!Line \in {0, 1}
  <2>1. CASE adapter.bit \in 2 .. 9
    <3>1. adapter.bit - 1 \in 1 .. 8
      BY <2>1
    <3>2. \A k \in 1 .. 8 : Adapter!Weights[k] \in Nat \ {0}
      BY DEF Adapter!Weights
    <3>3. PICK w \in Nat \ {0} : w = Adapter!Weights[adapter.bit - 1]
      BY <3>1, <3>2
    <3>4. Adapter!Line = (adapter.byte \div w) % 2
      BY <2>1, <3>3 DEF Adapter!Line
    <3>5. QED
      BY <3>3, <3>4
  <2>2. CASE adapter.bit \in {0, 1, 10}
    BY <2>2 DEF Adapter!Line
  <2>3. QED
    BY <2>1, <2>2
<1>3. ClkPerBit \in Nat /\ Late \in Nat /\ Early \in Nat /\ Calm \in Nat
  BY LineAssumption, SkewAssumption
<1>4. \A t : Adapter!Log(t) <=> Log(t)
  BY DEF Adapter!Log, Log
<1>5. CASE Adapter!Lasts
  <2>1. /\ adapter.bit # 0 /\ Log(<<>>) /\ adapter.skew + adapter.age + 1 < ClkPerBit + Late
        /\ adapter' = [adapter EXCEPT !.age = @ + 1]
    BY <1>3, <1>4, <1>5 DEF Adapter!Lasts, Adapter!Edge
  <2>2. PICK a \in Nat : a = adapter.age + 1
    OBVIOUS
  <2>3. adapter' = [adapter EXCEPT !.age = a]
    BY <2>1, <2>2
  <2>4. AdapterTyped'
    BY <2>3
  <2>5. BitLasts
    BY <2>1, <2>2, <2>3 DEF BitLasts, SameFrame
  <2>6. QED
    BY <1>1, <1>2, <2>4, <2>5
<1>6. CASE Adapter!Ends
  <2>1. PICK e \in Int : e = Adapter!Edge
    BY <1>3 DEF Adapter!Edge
  <2>2. /\ adapter.bit # 0 /\ Log(<<>>) /\ e + Early >= 0 /\ e <= Late
        /\ e + ClkPerBit = adapter.skew + adapter.age + 1
    BY <1>3, <1>4, <1>6, <2>1 DEF Adapter!Ends, Adapter!Edge
  <2>3. CASE adapter.bit = 10
    <3>1. adapter' = Adapter!Resting
      BY <1>6, <2>3 DEF Adapter!Ends
    <3>2. AdapterTyped' /\ FrameIsOver
      BY <1>3, <2>2, <2>3, <3>1 DEF FrameIsOver, Adapter!Resting
    <3>3. QED
      BY <1>1, <1>2, <3>2
  <2>4. CASE adapter.bit # 10
    <3>1. adapter' = [adapter EXCEPT !.bit = @ + 1, !.age = 0, !.skew = e]
      BY <1>6, <2>1, <2>4 DEF Adapter!Ends
    <3>2. PICK n \in 0 .. 10 : n = adapter.bit + 1
      BY <2>4
    <3>3. adapter' = [adapter EXCEPT !.bit = n, !.age = 0, !.skew = e]
      BY <3>1, <3>2
    <3>4. AdapterTyped'
      BY <3>3
    <3>5. BitEnds
      BY <2>2, <2>4, <3>2, <3>3 DEF BitEnds, SameFrame
    <3>6. QED
      BY <1>1, <1>2, <3>4, <3>5
  <2>5. QED
    BY <2>3, <2>4
<1>7. CASE Adapter!Starts
  <2>1. PICK b \in Bytes : /\ adapter.bit = 0 /\ adapter.calm = 0 /\ Log(<<b>>)
                           /\ adapter' = [Adapter!Resting EXCEPT !.bit = 1, !.byte = b]
    BY <1>4, <1>7 DEF Adapter!Starts
  <2>2. b \in Nat
    BY BytesAssumption
  <2>3. adapter' = [bit |-> 1, age |-> 0, skew |-> 0, byte |-> b, calm |-> 0, noise |-> 0]
    BY <2>1 DEF Adapter!Resting
  <2>4. AdapterTyped'
    BY <2>2, <2>3
  <2>5. adapter'.bit = 1 /\ adapter'.age = 0 /\ adapter'.skew = 0 /\ adapter'.byte = b
    BY <2>3
  <2>6. FrameStarts(b)
    BY <2>1, <2>5, Zenon DEF FrameStarts
  <2>7. QED
    BY <1>1, <1>2, <2>4, <2>6
<1>8. CASE Adapter!Rests
  <2>1. PICK c \in Nat : c = IF adapter.calm = 0 THEN 0 ELSE adapter.calm - 1
    OBVIOUS
  <2>2. /\ adapter.bit = 0 /\ Log(<<>>) /\ adapter' = [adapter EXCEPT !.noise = 0, !.calm = c]
    BY <1>4, <1>8, <2>1 DEF Adapter!Rests
  <2>3. AdapterTyped' /\ LineRests
    BY <2>1, <2>2 DEF LineRests
  <2>4. QED
    BY <1>1, <1>2, <2>3
<1>9. CASE Adapter!Pulse
  <2>1. /\ adapter.bit = 0 /\ adapter.calm = 0 /\ Calm > 0 /\ Log(<<>>)
        /\ adapter' = [adapter EXCEPT !.noise = 1, !.calm = Calm]
    BY <1>4, <1>9 DEF Adapter!Pulse
  <2>2. AdapterTyped' /\ LinePulses
    BY <1>3, <2>1 DEF LinePulses
  <2>3. QED
    BY <1>1, <1>2, <2>2
<1>10. QED
  BY <1>5, <1>6, <1>7, <1>8, <1>9 DEF Adapter!Clock

LEMMA LineCarries ==
  ASSUME AdapterTyped, adapter.bit \in 1 .. 10
  PROVE  Adapter!Line = LevelOf(adapter.byte, adapter.bit - 1)
<1>1. CASE adapter.bit = 1
  BY <1>1 DEF Adapter!Line, LevelOf
<1>2. CASE adapter.bit = 10
  BY <1>2 DEF Adapter!Line, LevelOf
<1>3. CASE adapter.bit \in 2 .. 9
  <2>1. adapter.bit - 1 \in 1 .. 8 /\ (adapter.bit - 1) - 1 = adapter.bit - 2
    BY <1>3
  <2>2. Adapter!Weights[adapter.bit - 1] = Pow[adapter.bit - 1]
    BY <2>1 DEF Adapter!Weights, Pow
  <2>3. Adapter!Line = (adapter.byte \div Adapter!Weights[adapter.bit - 1]) % 2
    BY <1>3 DEF Adapter!Line
  <2>4. QED
    BY <2>1, <2>2, <2>3 DEF LevelOf, Bit
<1>4. QED
  BY <1>1, <1>2, <1>3

-----------------------------------------------------------------------------
(* The receiver n clocks after the line went low: it still waits, perhaps  *)
(* at the end of the half bit a pulse has cost it, or it counts to the     *)
(* middle of what it takes for a start bit.                                *)
Sees(n) == IF n <= 2
           THEN \/ receiver.state = "IDLE"
                \/ receiver.state = "START" /\ receiver.clk_cnt + 1 >= n + Half /\ receiver.clk_cnt <= Half
           ELSE receiver.state = "START" /\ receiver.clk_cnt + 3 = n /\ receiver.clk_cnt <= Half
(* The line is idle, and its last pulse was n clocks ago.                  *)
Hush(n) == /\ adapter.bit = 0 /\ adapter.noise = (IF n = 0 THEN 1 ELSE 0)
           /\ receiver.rx_d1 = (IF n = 1 THEN 0 ELSE 1)
           /\ receiver.rx_d2 = (IF n = 2 THEN 0 ELSE 1)
           /\ IF adapter.calm > 0 THEN adapter.calm + n = Calm ELSE n >= Calm /\ (Calm = 0 => n > 3 + Half)

Listening == /\ flight = <<>>
             /\ \E n \in Nat : Hush(n) /\ IF n > 3 + Half THEN receiver.state = "IDLE" ELSE Sees(n)
Arriving  == \E b \in Bytes : flight = <<b>> /\ OnLine(b) /\ Sees(Since)
Receiving == /\ receiver.state \in {"DATA", "STOP"}
             /\ \E b \in Bytes : flight = <<b>> /\ OnLine(b) /\ Got(b)
             /\ Since = At(RxSlot - 1) + Half + 4 + receiver.clk_cnt
(* The frame is over before the receiver has looked at its stop bit: the   *)
(* line is idle, has a pulse, or begins the next frame.                    *)
Closing   == /\ receiver.state = "STOP"
             /\ receiver.rx_d1 = 1 /\ receiver.clk_cnt >= ClkPerBit - 2
             /\ receiver.clk_cnt = ClkPerBit - 1 => receiver.rx_d2 = 1
             /\ \E a \in Bytes : /\ Got(a)
                  /\ \/ adapter.bit = 0 /\ flight = <<a>> /\ adapter.calm = 0 /\ adapter.noise = 0
                     \/ /\ receiver.clk_cnt = ClkPerBit - 1
                        /\ \/ adapter.bit = 0 /\ flight = <<a>> /\ adapter.calm = Calm /\ Calm > 0 /\ adapter.noise = 1
                           \/ /\ adapter.bit = 1 /\ adapter.age = 0 /\ adapter.skew = 0
                              /\ \E b \in Bytes : adapter.byte = b /\ flight = <<a, b>>
(* The byte is shown before its stop bit is over.                          *)
Finishing == /\ receiver.state = "IDLE" /\ adapter.bit = 10 /\ flight = <<>>
             /\ receiver.rx_d1 = 1 /\ receiver.rx_d2 = 1

HostInv == AdapterTyped /\ (Listening \/ Arriving \/ Receiving \/ Closing \/ Finishing)

LEMMA SeesGoesOn ==
  ASSUME EndsOK, NEW l, Rx!Receive(l), NEW n \in Nat, Sees(n), n <= 2 => (receiver.rx_d2 = 0 <=> n = 2)
  PROVE  /\ Hidden
         /\ n # 3 + Half => Sees(n + 1)'
         /\ n = 3 + Half => receiver.state = "START" /\ receiver.clk_cnt = Half
         /\ Half < n /\ (n = 3 + Half => receiver.rx_d2 = 1) => Sees(0)'
         /\ n = 3 + Half /\ receiver.rx_d2 = 1 => receiver'.state = "IDLE"
<1>1. Half \in Nat /\ receiver.clk_cnt \in Nat /\ receiver.rx_d2 \in {0, 1}
  BY HalfIs, Ranges
<1>2. CASE receiver.state = "IDLE"
  <2>1. n <= 2
    BY <1>2 DEF Sees
  <2>2. Hidden /\ receiver'.clk_cnt = 0 /\ receiver'.state = IF n = 2 THEN "START" ELSE "IDLE"
    BY <1>2, <2>1, RxDoes
  <2>3. Sees(n + 1)'
    BY <1>1, <2>1, <2>2 DEF Sees, Half
  <2>4. Half < n => Sees(0)'
    BY <1>1, <2>1, <2>2 DEF Sees, Half
  <2>5. QED
    BY <1>1, <2>1, <2>2, <2>3, <2>4
<1>3. CASE receiver.state = "START" /\ receiver.clk_cnt # Half
  <2>1. RxCounts
    BY <1>3, RxDoes
  <2>2. /\ receiver.clk_cnt < Half /\ n # 3 + Half
        /\ (n <= 2 => receiver.clk_cnt + 1 >= n + Half) /\ (n > 2 => receiver.clk_cnt + 3 = n)
    BY <1>1, <1>3 DEF Sees
  <2>3. receiver'.state = "START" /\ receiver'.clk_cnt = receiver.clk_cnt + 1 /\ Hidden
    BY <1>3, <2>1 DEF RxCounts
  <2>4. Sees(n + 1)' /\ (Half < n => Sees(0)')
    BY <1>1, <2>2, <2>3 DEF Sees, Half
  <2>5. QED
    BY <2>2, <2>3, <2>4
<1>4. CASE receiver.state = "START" /\ receiver.clk_cnt = Half
  <2>1. Hidden
    BY <1>1, <1>4, RxDoes
  <2>2. n <= 2 \/ n = 3 + Half
    BY <1>1, <1>4 DEF Sees
  <2>3. CASE n = 3 + Half
    BY <1>1, <1>4, <2>1, <2>3, RxDoes DEF Sees
  <2>4. CASE n <= 2
    <3>1. n <= 1 /\ receiver.rx_d2 = 1
      BY <1>1, <1>4, <2>4 DEF Sees
    <3>2. receiver'.state = "IDLE"
      BY <1>4, <3>1, RxDoes
    <3>3. Sees(n + 1)' /\ Sees(0)' /\ n # 3 + Half
      BY <1>1, <3>1, <3>2 DEF Sees
    <3>4. QED
      BY <2>1, <3>3
  <2>5. QED
    BY <2>2, <2>3, <2>4
<1>5. QED
  BY <1>2, <1>3, <1>4 DEF Sees

(* A frame begins on a line that has been high.                            *)
LEMMA FrameArrives ==
  ASSUME NEW b \in Bytes, FrameStarts(b), receiver'.rx_d1 = 1, receiver'.rx_d2 = 1
  PROVE  OnLine(b)' /\ Since' = 0
<1>1. Early \in Nat /\ Late \in Nat /\ ClkPerBit \in Nat /\ ClkPerBit > 0
  BY LineAssumption, SkewAssumption
<1>2. Since' = 0
  BY AtIs DEF FrameStarts, Since
<1>3. Window(0, 0)
  BY <1>1, AtIs DEF Window
<1>4. Shows(receiver'.rx_d1, b, -1) /\ Shows(receiver'.rx_d2, b, -2)
  BY DEF Shows
<1>5. adapter'.bit = 1 /\ adapter'.byte = b /\ adapter'.bit - 1 = 0 /\ Since' - 1 = -1 /\ Since' - 2 = -2
  BY <1>2 DEF FrameStarts
<1>6. QED
  BY <1>2, <1>3, <1>4, <1>5 DEF OnLine

(* The frame of b goes on, and the receiver's registers with it.           *)
LEMMA FrameGoesOn ==
  ASSUME AdapterTyped, AdapterTyped', NEW b, OnLine(b), BitLasts \/ BitEnds,
         receiver'.rx_d1 = Adapter!Line, receiver'.rx_d2 = receiver.rx_d1
  PROVE  OnLine(b)' /\ Since' = Since + 1
<1>1. /\ Early \in Nat /\ Late \in Nat /\ ClkPerBit \in Nat /\ ClkPerBit > 0
      /\ adapter.bit \in 1 .. 10 /\ adapter.age \in Nat /\ adapter.skew \in Int
  BY LineAssumption, SkewAssumption DEF OnLine, AdapterTyped
<1>2. PICK p \in 0 .. 9 : p = adapter.bit - 1
  BY <1>1
<1>3. At(p) \in Nat /\ At(p + 1) = At(p) + ClkPerBit
  BY AtIs
<1>4. Since = At(p) + adapter.skew + adapter.age /\ Since \in Nat
  BY <1>1, <1>2, <1>3 DEF Since, OnLine
<1>5. adapter'.bit \in 1 .. 10 /\ adapter'.byte = b /\ Since' = Since + 1 /\ Window(adapter'.bit - 1, Since + 1)
  <2>1. CASE BitLasts
    <3>1. adapter'.bit = adapter.bit /\ adapter'.byte = b
      BY <2>1 DEF BitLasts, SameFrame, OnLine
    <3>2. Since' = At(p) + adapter'.skew + adapter'.age
      BY <1>2, <3>1 DEF Since
    <3>3. Window(p, Since)
      BY <1>2 DEF OnLine
    <3>4. QED
      BY <1>1, <1>2, <1>3, <1>4, <2>1, <3>1, <3>2, <3>3 DEF BitLasts, Window
  <2>2. CASE BitEnds
    <3>1. adapter'.bit \in 1 .. 10 /\ adapter'.bit - 1 = p + 1 /\ adapter'.byte = b
      <4>1. adapter.bit # 10 /\ adapter'.bit = adapter.bit + 1
        BY <2>2 DEF BitEnds
      <4>2. adapter'.byte = b
        BY <2>2, Zenon DEF BitEnds, SameFrame, OnLine
      <4>3. QED
        BY <1>1, <1>2, <4>1, <4>2
    <3>2. Since' = At(p + 1) + adapter'.skew + adapter'.age
      BY <3>1 DEF Since
    <3>3. /\ adapter'.age = 0 /\ adapter'.skew + ClkPerBit = adapter.skew + adapter.age + 1
          /\ adapter'.skew + Early >= 0 /\ adapter'.skew <= Late /\ adapter'.skew \in Int
      <4>1. /\ adapter'.age = 0 /\ adapter'.skew + ClkPerBit = adapter.skew + adapter.age + 1
            /\ adapter'.skew + Early >= 0 /\ adapter'.skew <= Late
        BY <2>2 DEF BitEnds
      <4>2. adapter'.skew \in Int
        BY DEF AdapterTyped
      <4>3. QED
        BY <4>1, <4>2
    <3>4. Since' = Since + 1
      BY <1>1, <1>3, <1>4, <3>2, <3>3
    <3>5. Window(p + 1, Since + 1)
      BY <1>1, <1>3, <3>2, <3>3, <3>4 DEF Window
    <3>6. QED
      BY <3>1, <3>4, <3>5
  <2>3. QED
    BY <2>1, <2>2
<1>6. Shows(receiver'.rx_d1, b, Since) /\ Shows(receiver'.rx_d2, b, Since - 1)
  <2>1. Adapter!Line = LevelOf(b, p) /\ Window(p, Since)
    BY <1>1, <1>2, LineCarries DEF OnLine
  <2>2. Shows(Adapter!Line, b, Since)
    BY <1>4, <2>1 DEF Shows
  <2>3. QED
    BY <2>2 DEF OnLine
<1>7. Since' - 1 = Since /\ Since' - 2 = Since - 1 /\ Since' >= 0
  BY <1>4, <1>5
<1>8. QED
  BY <1>5, <1>6, <1>7 DEF OnLine

LEMMA LineIsRegistered ==
  ASSUME EndsOK, AdapterTyped, Adapter!Clock
  PROVE  receiver'.rx_d1 = Adapter!Line /\ receiver'.rx_d2 = receiver.rx_d1
BY AdapterDoes, RxDoes

LEMMA ListeningKeeps ==
  ASSUME EndsOK, Tolerable, AdapterTyped, Listening, Adapter!Clock
  PROVE  HostInv' /\ InOrder
<1>1. PICK n \in Nat : Hush(n) /\ IF n > 3 + Half THEN receiver.state = "IDLE" ELSE Sees(n)
  BY DEF Listening
<1>2. /\ AdapterTyped' /\ Rx!Receive(Adapter!Line) /\ flight = <<>> /\ flight \in Seq(Bytes)
      /\ receiver'.rx_d1 = Adapter!Line /\ receiver'.rx_d2 = receiver.rx_d1
      /\ Half \in Nat /\ Half > 0 /\ Calm \in Nat
  <2>1. Half > 0
    BY HalfIs, SkewAssumption DEF Tolerable
  <2>2. QED
    BY <2>1, AdapterDoes, LineIsRegistered, NoByte, HalfIs, SkewAssumption DEF Listening
<1>3. Adapter!Line = IF n = 0 THEN 0 ELSE 1
  BY <1>1 DEF Hush, Adapter!Line
<1>4. /\ Hidden
      /\ IF n + 1 > 3 + Half THEN receiver'.state = "IDLE" ELSE Sees(n + 1)'
      /\ Half < n => Sees(0)'
  <2>1. CASE n > 3 + Half
    <3>1. receiver.state = "IDLE" /\ receiver.rx_d2 # 0
      BY <1>1, <1>2, <2>1 DEF Hush
    <3>2. Hidden /\ receiver'.state = "IDLE"
      BY <1>2, <3>1, RxDoes
    <3>3. QED
      BY <1>2, <2>1, <3>2 DEF Sees
  <2>2. CASE ~(n > 3 + Half)
    <3>1. Sees(n) /\ (receiver.rx_d2 = 0 <=> n = 2) /\ (n = 3 + Half => receiver.rx_d2 = 1)
      BY <1>1, <1>2, <2>2 DEF Hush
    <3>2. /\ Hidden
          /\ n # 3 + Half => Sees(n + 1)'
          /\ Half < n /\ (n = 3 + Half => receiver.rx_d2 = 1) => Sees(0)'
          /\ n = 3 + Half /\ receiver.rx_d2 = 1 => receiver'.state = "IDLE"
      BY <1>2, <3>1, SeesGoesOn
    <3>3. QED
      BY <1>2, <2>2, <3>1, <3>2
  <2>3. QED
    BY <2>1, <2>2
<1>5. adapter.calm = 0 => Half < n /\ n >= 2 /\ ~(0 > 3 + Half)
  BY <1>1, <1>2 DEF Hush, Tolerable
<1>6. CASE LineRests
  <2>1. flight' = <<>> /\ InOrder
    BY <1>2, <1>4, <1>6, NoByte, ShowsNothing DEF LineRests, Takes
  <2>2. Hush(n + 1)'
    BY <1>1, <1>2, <1>3, <1>6 DEF Hush, LineRests, AdapterTyped
  <2>3. Listening'
    BY <1>4, <2>1, <2>2 DEF Listening, Half
  <2>4. QED
    BY <1>2, <2>1, <2>3 DEF HostInv
<1>7. CASE LinePulses
  <2>1. flight' = <<>> /\ InOrder
    BY <1>2, <1>4, <1>7, NoByte, ShowsNothing DEF LinePulses, Takes
  <2>2. Hush(0)'
    BY <1>1, <1>2, <1>3, <1>5, <1>7 DEF Hush, LinePulses
  <2>3. Listening'
    BY <1>4, <1>5, <1>7, <2>1, <2>2 DEF Listening, LinePulses, Half
  <2>4. QED
    BY <1>2, <2>1, <2>3 DEF HostInv
<1>8. CASE \E b \in Bytes : FrameStarts(b)
  <2>1. PICK b \in Bytes : FrameStarts(b)
    BY <1>8
  <2>2. Log(<<b>>) /\ adapter.calm = 0
    BY <2>1 DEF FrameStarts
  <2>3. flight' = <<b>> /\ InOrder
    BY <1>2, <1>4, <2>2, OneByte, ShowsNothing DEF Takes
  <2>4. receiver'.rx_d1 = 1 /\ receiver'.rx_d2 = 1
    BY <1>1, <1>2, <1>3, <1>5, <2>2 DEF Hush
  <2>5. OnLine(b)' /\ Since' = 0
    BY <2>1, <2>4, FrameArrives
  <2>6. Sees(Since)'
    BY <1>4, <1>5, <2>2, <2>5 DEF Sees
  <2>7. QED
    BY <1>2, <2>3, <2>5, <2>6 DEF HostInv, Arriving
<1>9. adapter.bit = 0
  BY <1>1 DEF Hush
<1>10. QED
  BY <1>6, <1>7, <1>8, <1>9, AdapterDoes DEF BitLasts, BitEnds, SameFrame, FrameIsOver

(* An idle line that had no pulse.                                         *)
LEMMA RestedIsListening ==
  ASSUME flight' = <<>>, receiver'.state = "IDLE", receiver'.rx_d1 = 1, receiver'.rx_d2 = 1,
         adapter'.bit = 0, adapter'.calm = 0, adapter'.noise = 0
  PROVE  Listening'
<1>1. Half \in Nat /\ Calm \in Nat
  BY HalfIs, SkewAssumption
<1>2. PICK n \in Nat : n = 4 + Half + Calm
  BY <1>1
<1>3. n > 3 + Half /\ n >= Calm /\ n # 0 /\ n # 1 /\ n # 2
  BY <1>1, <1>2
<1>4. Hush(n)'
  BY <1>3 DEF Hush, Half
<1>5. QED
  BY <1>3, <1>4 DEF Listening, Half

(* A frame that is being sent: its bits go on, or it is over.              *)
LEMMA FrameClock ==
  ASSUME EndsOK, AdapterTyped, Adapter!Clock, NEW b, OnLine(b)
  PROVE  /\ AdapterTyped' /\ Rx!Receive(Adapter!Line) /\ Log(<<>>) /\ Since \in Nat
         /\ \/ OnLine(b)' /\ Since' = Since + 1 /\ ~FrameIsOver
            \/ FrameIsOver /\ Since + Early + 1 >= At(9) + ClkPerBit /\ receiver'.rx_d1 = 1
         /\ receiver'.rx_d2 = receiver.rx_d1
<1>1. /\ AdapterTyped' /\ Rx!Receive(Adapter!Line)
      /\ receiver'.rx_d1 = Adapter!Line /\ receiver'.rx_d2 = receiver.rx_d1
  BY AdapterDoes, LineIsRegistered
<1>2. adapter.bit \in 1 .. 10
  BY DEF OnLine
<1>3. Since \in Nat
  <2>1. PICK p \in 0 .. 9 : p = adapter.bit - 1
    BY <1>2
  <2>2. At(p) \in Nat
    BY AtIs
  <2>3. Since \in Int
    BY <2>1, <2>2 DEF Since, AdapterTyped
  <2>4. QED
    BY <2>3 DEF OnLine
<1>4. BitLasts \/ BitEnds \/ FrameIsOver
  <2>1. adapter.bit # 0
    BY <1>2
  <2>2. ~LineRests /\ ~LinePulses /\ \A c \in Bytes : ~FrameStarts(c)
    BY <2>1, Zenon DEF FrameStarts, LineRests, LinePulses
  <2>3. QED
    BY <2>2, AdapterDoes
<1>5. CASE FrameIsOver
  <2>1. adapter.bit = 10 /\ adapter.skew + adapter.age + 1 + Early >= ClkPerBit
    BY <1>5 DEF FrameIsOver
  <2>2. PICK s \in Int, a \in Nat : s = adapter.skew /\ a = adapter.age
    BY DEF AdapterTyped
  <2>3. Since = At(9) + s + a /\ s + a + 1 + Early >= ClkPerBit
    BY <2>1, <2>2 DEF Since
  <2>4. At(9) \in Nat /\ Early \in Nat /\ ClkPerBit \in Nat
    BY AtIs, LineAssumption, SkewAssumption
  <2>5. Since + Early + 1 >= At(9) + ClkPerBit
    BY <2>3, <2>4
  <2>6. Adapter!Line = 1 /\ Log(<<>>)
    BY <1>5, <2>1 DEF Adapter!Line, FrameIsOver
  <2>7. QED
    BY <1>1, <1>3, <1>5, <2>5, <2>6
<1>6. CASE BitLasts \/ BitEnds
  <2>1. OnLine(b)' /\ Since' = Since + 1
    BY <1>1, <1>6, FrameGoesOn
  <2>2. Log(<<>>)
    BY <1>6 DEF BitLasts, BitEnds, SameFrame
  <2>3. ~FrameIsOver
    BY <2>1 DEF FrameIsOver, OnLine, Adapter!Resting
  <2>4. QED
    BY <1>1, <1>3, <2>1, <2>2, <2>3
<1>7. QED
  BY <1>4, <1>5, <1>6

LEMMA ArrivingClock ==
  ASSUME EndsOK, Tolerable, AdapterTyped, Adapter!Clock, NEW b \in Bytes, OnLine(b), Sees(Since)
  PROVE  /\ AdapterTyped' /\ Log(<<>>) /\ Hidden /\ OnLine(b)'
         /\ Since \in Nat /\ Since <= 3 + Half /\ Since' = Since + 1
         /\ Since # 3 + Half => Sees(Since)'
         /\ Since = 3 + Half => /\ receiver.state = "START" /\ receiver'.state = "DATA"
                                /\ receiver'.clk_cnt = 0 /\ receiver'.bit_cnt = 0
                                /\ receiver'.shift_reg = receiver.shift_reg
<1>1. /\ AdapterTyped' /\ Rx!Receive(Adapter!Line) /\ Log(<<>>) /\ Since \in Nat
      /\ \/ OnLine(b)' /\ Since' = Since + 1 /\ ~FrameIsOver
         \/ FrameIsOver /\ Since + Early + 1 >= At(9) + ClkPerBit /\ receiver'.rx_d1 = 1
  BY FrameClock
<1>2. PICK n \in Nat : n = Since
  BY <1>1
<1>3. /\ Half \in Nat /\ Early \in Nat /\ ClkPerBit \in Nat /\ receiver.clk_cnt \in Nat
      /\ ClkPerBit >= 2
  BY HalfIs, Ranges, SkewAssumption, LineAssumption
<1>4. Sees(n) /\ n <= 3 + Half
  BY <1>2, <1>3 DEF Sees
<1>5. OnLine(b)' /\ Since' = n + 1
  <2>1. At(0) = 0 /\ At(1) \in Nat /\ At(9) \in Nat /\ At(0) + ClkPerBit <= At(1) /\ At(1) + ClkPerBit <= At(9)
    BY AtIs
  <2>2. ~(n + Early + 1 >= At(9) + ClkPerBit)
    BY <1>3, <1>4, <2>1 DEF Tolerable
  <2>3. QED
    BY <1>1, <1>2, <2>2
<1>6. receiver.rx_d2 = IF n < 2 THEN 1 ELSE 0
  <2>1. Shows(receiver.rx_d2, b, n - 2)
    BY <1>2 DEF OnLine
  <2>2. CASE n < 2
    BY <2>1, <2>2 DEF Shows
  <2>3. CASE n >= 2
    <3>1. n - 2 \in 0 .. (Half + 1)
      BY <1>3, <1>4, <2>3
    <3>2. receiver.rx_d2 = 0
      BY <2>1, <3>1, StartIsLow
    <3>3. QED
      BY <2>3, <3>2
  <2>4. QED
    BY <2>2, <2>3
<1>7. /\ Hidden
      /\ n # 3 + Half => Sees(n + 1)'
      /\ n = 3 + Half => receiver.state = "START" /\ receiver.clk_cnt = Half
  <2>1. n <= 2 => (receiver.rx_d2 = 0 <=> n = 2)
    BY <1>6
  <2>2. QED
    BY <1>1, <1>4, <2>1, SeesGoesOn
<1>8. n # 3 + Half => Sees(Since)'
  BY <1>5, <1>7 DEF Sees
<1>9. ASSUME n = 3 + Half
      PROVE  /\ receiver.state = "START" /\ receiver'.state = "DATA"
             /\ receiver'.clk_cnt = 0 /\ receiver'.bit_cnt = 0
             /\ receiver'.shift_reg = receiver.shift_reg
  <2>1. receiver.state = "START" /\ receiver.clk_cnt = Half /\ receiver.rx_d2 = 0
    BY <1>3, <1>6, <1>7, <1>9
  <2>2. QED
    BY <1>1, <2>1, RxDoes
<1>10. QED
  BY <1>1, <1>2, <1>4, <1>5, <1>7, <1>8, <1>9

LEMMA ArrivingKeeps ==
  ASSUME EndsOK, Tolerable, AdapterTyped, Arriving, Adapter!Clock
  PROVE  HostInv' /\ InOrder
<1>1. PICK b \in Bytes : flight = <<b>> /\ OnLine(b) /\ Sees(Since)
  BY DEF Arriving
<1>2. /\ AdapterTyped' /\ Log(<<>>) /\ Hidden /\ OnLine(b)'
      /\ Since \in Nat /\ Since' = Since + 1 /\ Half \in Nat
      /\ Since # 3 + Half => Sees(Since)'
      /\ Since = 3 + Half => /\ receiver'.state = "DATA" /\ receiver'.clk_cnt = 0 /\ receiver'.bit_cnt = 0
                             /\ receiver'.shift_reg = receiver.shift_reg
  BY <1>1, ArrivingClock, HalfIs
<1>3. flight' = <<b>> /\ InOrder
  BY <1>1, <1>2, OneByte, ShowsNothing DEF Takes
<1>4. CASE Since # 3 + Half
  BY <1>2, <1>3, <1>4 DEF HostInv, Arriving
<1>5. CASE Since = 3 + Half
  <2>1. receiver'.state = "DATA" /\ receiver'.clk_cnt = 0 /\ receiver'.bit_cnt = 0
    BY <1>2, <1>5
  <2>2. Got(b)'
    BY <1>2, <1>5, NothingSampled
  <2>3. RxSlot' = 1 /\ RxSlot' - 1 = 0
    BY <2>1 DEF RxSlot
  <2>4. Since' = At(RxSlot' - 1) + Half + 4 + receiver'.clk_cnt
    BY <1>2, <1>5, <2>1, <2>3, AtIs
  <2>5. Receiving'
    BY <1>2, <1>3, <2>1, <2>2, <2>4 DEF Receiving, Half, At
  <2>6. QED
    BY <1>2, <1>3, <2>5 DEF HostInv
<1>6. QED
  BY <1>4, <1>5

LEMMA ReceivingKeeps ==
  ASSUME EndsOK, Tolerable, AdapterTyped, Receiving, Adapter!Clock
  PROVE  HostInv' /\ InOrder
<1>1. PICK b \in Bytes : flight = <<b>> /\ OnLine(b) /\ Got(b)
  BY DEF Receiving
<1>2. /\ AdapterTyped' /\ Rx!Receive(Adapter!Line) /\ Log(<<>>) /\ Since \in Nat
      /\ \/ OnLine(b)' /\ Since' = Since + 1 /\ ~FrameIsOver
         \/ FrameIsOver /\ Since + Early + 1 >= At(9) + ClkPerBit /\ receiver'.rx_d1 = 1
      /\ receiver'.rx_d2 = receiver.rx_d1
  BY <1>1, FrameClock
<1>3. /\ Half \in Nat /\ Early \in Nat /\ Late \in Nat /\ ClkPerBit \in Nat /\ receiver.clk_cnt \in Nat
      /\ receiver.clk_cnt < ClkPerBit /\ ClkPerBit >= 2 /\ receiver.bit_cnt \in 0 .. 7
      /\ receiver.state \in {"DATA", "STOP"} /\ Half + Early + 1 < ClkPerBit /\ Late <= Half + 1 /\ Half > 0
  BY HalfIs, Ranges, SkewAssumption, LineAssumption DEF Tolerable, Receiving
<1>4. PICK k \in 1 .. 9 : k = RxSlot
  BY <1>3 DEF RxSlot
<1>5. /\ receiver.state = "DATA" => k = receiver.bit_cnt + 1 /\ k < 9
      /\ receiver.state = "STOP" => k = 9
  BY <1>3, <1>4 DEF RxSlot
<1>6. /\ At(k) \in Nat /\ At(9) \in Nat /\ k - 1 \in 0 .. 9 /\ At(k - 1) \in Nat
      /\ At(k) = At(k - 1) + ClkPerBit /\ (k < 9 => At(k) + ClkPerBit <= At(9))
  <2>1. k - 1 \in 0 .. 10 /\ (k - 1) + 1 = k /\ k \in 0 .. 10 /\ 9 \in 0 .. 10
    OBVIOUS
  <2>2. QED
    BY <2>1, AtIs
<1>7. Since \in Nat /\ Since + ClkPerBit = At(k) + Half + 4 + receiver.clk_cnt
  <2>1. Since = At(k - 1) + Half + 4 + receiver.clk_cnt
    BY <1>4 DEF Receiving
  <2>2. Since \in Nat
    BY <1>2
  <2>3. QED
    BY <1>3, <1>6, <2>1, <2>2
<1>8. FrameIsOver => receiver.state = "STOP" /\ k = 9 /\ receiver.clk_cnt + 3 >= ClkPerBit
  <2>1. FrameIsOver => Since + Early + 1 >= At(9) + ClkPerBit
    BY <1>2
  <2>2. Since + Early + 1 >= At(9) + ClkPerBit => k = 9 /\ receiver.clk_cnt + 3 >= ClkPerBit
    BY <1>3, <1>6, <1>7
  <2>3. QED
    BY <1>3, <1>5, <2>1, <2>2
<1>9. k = 9 /\ receiver.clk_cnt = ClkPerBit - 2 => receiver.rx_d1 = 1
  <2>1. Shows(receiver.rx_d1, b, Since - 1)
    BY <1>1 DEF OnLine
  <2>2. k = 9 /\ receiver.clk_cnt = ClkPerBit - 2 => Since - 1 \in Nat /\ Since - 1 >= At(9) + Half + 1
    BY <1>3, <1>6, <1>7
  <2>3. QED
    BY <2>1, <2>2, StopIsHigh
<1>10. CASE receiver.clk_cnt # ClkPerBit - 1
  <2>1. RxCounts
    BY <1>2, <1>3, <1>10, RxDoes
  <2>2. flight' = <<b>> /\ InOrder
    BY <1>1, <1>2, <2>1, OneByte, ShowsNothing DEF Takes, RxCounts
  <2>3. Got(b)' /\ RxSlot' = RxSlot
    BY <1>1, <2>1 DEF Got, RxSlot, RxCounts
  <2>4. receiver'.state = receiver.state /\ receiver'.clk_cnt = receiver.clk_cnt + 1
    BY <2>1 DEF RxCounts
  <2>5. CASE FrameIsOver
    <3>1. receiver.state = "STOP" /\ k = 9 /\ receiver.clk_cnt + 3 >= ClkPerBit
      BY <1>8, <2>5
    <3>2. receiver'.rx_d1 = 1 /\ receiver'.rx_d2 = receiver.rx_d1
      BY <1>2, <2>5
    <3>3. receiver'.state = "STOP" /\ receiver'.clk_cnt >= ClkPerBit - 2
      BY <1>3, <2>4, <3>1
    <3>4. receiver'.clk_cnt = ClkPerBit - 1 => receiver'.rx_d2 = 1
      BY <1>3, <1>9, <2>4, <3>1, <3>2
    <3>5. adapter'.bit = 0 /\ adapter'.calm = 0 /\ adapter'.noise = 0
      BY <2>5 DEF FrameIsOver, Adapter!Resting
    <3>6. Closing'
      BY <2>2, <2>3, <3>2, <3>3, <3>4, <3>5 DEF Closing
    <3>7. QED
      BY <1>2, <2>2, <3>6 DEF HostInv
  <2>6. CASE OnLine(b)' /\ Since' = Since + 1
    <3>1. Since' = At(RxSlot' - 1) + Half + 4 + receiver'.clk_cnt
      <4>1. Since = At(RxSlot - 1) + Half + 4 + receiver.clk_cnt /\ At(RxSlot - 1) \in Nat
        BY <1>4, <1>6 DEF Receiving
      <4>2. QED
        BY <1>3, <2>3, <2>4, <2>6, <4>1
    <3>2. Receiving'
      BY <1>3, <2>2, <2>3, <2>4, <2>6, <3>1 DEF Receiving, Half, At
    <3>3. QED
      BY <1>2, <2>2, <3>2 DEF HostInv
  <2>7. QED
    BY <1>2, <2>5, <2>6
<1>11. CASE receiver.clk_cnt = ClkPerBit - 1 /\ receiver.state = "DATA"
  <2>1. Since - 2 = At(k) + Half + 1 /\ k \in 0 .. 9 /\ k < 9
    BY <1>3, <1>5, <1>6, <1>7, <1>11
  <2>2. receiver.rx_d2 = LevelOf(b, k)
    <3>1. Shows(receiver.rx_d2, b, At(k) + Half + 1)
      BY <1>1, <2>1 DEF OnLine
    <3>2. QED
      BY <2>1, <3>1, MiddleIsCertain
  <2>3. /\ receiver'.clk_cnt = 0 /\ Hidden
        /\ receiver'.shift_reg = 128 * receiver.rx_d2 + receiver.shift_reg \div 2
        /\ receiver'.state = IF receiver.bit_cnt = 7 THEN "STOP" ELSE "DATA"
        /\ receiver.bit_cnt # 7 => receiver'.bit_cnt = receiver.bit_cnt + 1
    BY <1>2, <1>11, RxDoes
  <2>4. RxSlot' = k + 1 /\ RxSlot' = RxSlot + 1
    BY <1>3, <1>4, <1>5, <1>11, <2>3 DEF RxSlot
  <2>5. Got(b)'
    BY <1>1, <1>4, <1>11, <2>2, <2>3, <2>4, BitSampled
  <2>6. flight' = <<b>> /\ InOrder
    BY <1>1, <1>2, <2>3, OneByte, ShowsNothing DEF Takes
  <2>7. OnLine(b)' /\ Since' = Since + 1
    BY <1>2, <1>8, <1>11
  <2>8. Since' = At(RxSlot' - 1) + Half + 4 + receiver'.clk_cnt
    <3>1. RxSlot' - 1 = k
      BY <2>4
    <3>2. Since' = At(k) + Half + 4
      BY <1>3, <1>6, <1>7, <2>1, <2>7
    <3>3. QED
      BY <1>3, <1>6, <2>3, <3>1, <3>2
  <2>9. receiver'.state \in {"DATA", "STOP"}
    BY <2>3
  <2>10. Receiving'
    BY <2>5, <2>6, <2>7, <2>8, <2>9 DEF Receiving, Half, At
  <2>11. QED
    BY <1>2, <2>6, <2>10 DEF HostInv
<1>12. CASE receiver.clk_cnt = ClkPerBit - 1 /\ receiver.state = "STOP"
  <2>1. Since = At(9) + Half + 3 /\ k = 9
    BY <1>3, <1>5, <1>6, <1>7, <1>12
  <2>2. receiver.rx_d1 = 1 /\ receiver.rx_d2 = 1
    <3>1. Shows(receiver.rx_d1, b, Since - 1) /\ Shows(receiver.rx_d2, b, Since - 2)
      BY <1>1 DEF OnLine
    <3>2. Since - 1 \in Nat /\ Since - 2 \in Nat /\ Since - 1 >= At(9) + Half + 1 /\ Since - 2 >= At(9) + Half + 1
      BY <1>3, <1>6, <2>1
    <3>3. QED
      BY <3>1, <3>2, StopIsHigh
  <2>3. receiver'.state = "IDLE" /\ receiver'.rx_valid = TRUE /\ receiver'.rx_data = b
    BY <1>1, <1>2, <1>12, <2>2, RxDoes, AllSampled
  <2>4. flight' = <<>> /\ InOrder
    <3>1. flight = <<b>> \o <<>>
      BY <1>1, OneByte
    <3>2. QED
      BY <1>2, <2>3, <3>1, NoByte, ShowsOldest DEF Takes
  <2>5. adapter.bit = 10
    <3>1. PICK p \in 0 .. 9 : p = adapter.bit - 1
      BY <1>1 DEF OnLine
    <3>2. Window(p, Since) /\ At(p) \in Nat /\ (p < 9 => At(p) + ClkPerBit <= At(9))
      BY <1>1, <3>1, AtIs DEF OnLine
    <3>3. p = 9
      BY <1>3, <1>6, <2>1, <3>2 DEF Window
    <3>4. adapter.bit \in 1 .. 10
      BY <1>1 DEF OnLine
    <3>5. QED
      BY <3>1, <3>3, <3>4
  <2>6. receiver'.rx_d1 = 1 /\ receiver'.rx_d2 = 1
    <3>1. Adapter!Line = 1
      BY <2>5 DEF Adapter!Line
    <3>2. QED
      BY <2>2, <3>1, LineIsRegistered
  <2>7. CASE FrameIsOver
    <3>1. adapter'.bit = 0 /\ adapter'.calm = 0 /\ adapter'.noise = 0
      BY <2>7 DEF FrameIsOver, Adapter!Resting
    <3>2. Listening'
      BY <2>3, <2>4, <2>6, <3>1, RestedIsListening
    <3>3. QED
      BY <1>2, <2>4, <3>2 DEF HostInv
  <2>8. CASE BitLasts
    <3>1. adapter'.bit = 10
      BY <2>5, <2>8 DEF BitLasts
    <3>2. Finishing'
      BY <2>3, <2>4, <2>6, <3>1 DEF Finishing
    <3>3. QED
      BY <1>2, <2>4, <3>2 DEF HostInv
  <2>9. QED
    BY <2>5, <2>7, <2>8, AdapterDoes DEF BitEnds, FrameStarts, LineRests, LinePulses
<1>13. QED
  BY <1>3, <1>10, <1>11, <1>12

LEMMA FinishingKeeps ==
  ASSUME EndsOK, AdapterTyped, Finishing, Adapter!Clock
  PROVE  HostInv' /\ InOrder
<1>1. AdapterTyped' /\ Rx!Receive(Adapter!Line) /\ adapter.bit = 10 /\ flight = <<>> /\ receiver.state = "IDLE"
  BY AdapterDoes DEF Finishing
<1>2. receiver'.rx_d1 = 1 /\ receiver'.rx_d2 = 1
  BY <1>1, LineIsRegistered DEF Finishing, Adapter!Line
<1>3. Hidden /\ receiver'.state = "IDLE"
  BY <1>1, RxDoes DEF Finishing
<1>4. BitLasts \/ FrameIsOver
  BY <1>1, AdapterDoes DEF BitEnds, FrameStarts, LineRests, LinePulses
<1>5. flight' = <<>> /\ InOrder
  <2>1. Log(<<>>)
    BY <1>4 DEF BitLasts, SameFrame, FrameIsOver
  <2>2. QED
    BY <1>1, <1>3, <2>1, NoByte, ShowsNothing DEF Takes
<1>6. CASE FrameIsOver
  <2>1. adapter'.bit = 0 /\ adapter'.calm = 0 /\ adapter'.noise = 0
    BY <1>6 DEF FrameIsOver, Adapter!Resting
  <2>2. Listening'
    BY <1>2, <1>3, <1>5, <2>1, RestedIsListening
  <2>3. QED
    BY <1>1, <1>5, <2>2 DEF HostInv
<1>7. CASE BitLasts
  <2>1. Finishing'
    BY <1>1, <1>2, <1>3, <1>5, <1>7 DEF Finishing, BitLasts
  <2>2. QED
    BY <1>1, <1>5, <2>1 DEF HostInv
<1>8. QED
  BY <1>4, <1>6, <1>7

(* The receiver shows a, whatever the adapter does.                        *)
LEMMA StopShows ==
  ASSUME EndsOK, NEW l, Rx!Receive(l), receiver.state = "STOP", receiver.clk_cnt = ClkPerBit - 1, receiver.rx_d2 = 1,
         NEW a \in Bytes, Got(a), NEW f \in Seq(Bytes), flight = <<a>> \o f, NEW t, Takes(t), Log(t)
  PROVE  receiver'.state = "IDLE" /\ flight' = f \o t /\ InOrder
<1>1. receiver'.state = "IDLE" /\ receiver'.rx_valid = TRUE /\ receiver'.rx_data = a
  BY RxDoes, AllSampled
<1>2. QED
  BY <1>1, ShowsOldest

LEMMA ClosingKeeps ==
  ASSUME EndsOK, Tolerable, AdapterTyped, Closing, Adapter!Clock
  PROVE  HostInv' /\ InOrder
<1>1. PICK a \in Bytes :
        /\ Got(a)
        /\ \/ adapter.bit = 0 /\ flight = <<a>> /\ adapter.calm = 0 /\ adapter.noise = 0
           \/ /\ receiver.clk_cnt = ClkPerBit - 1
              /\ \/ adapter.bit = 0 /\ flight = <<a>> /\ adapter.calm = Calm /\ Calm > 0 /\ adapter.noise = 1
                 \/ /\ adapter.bit = 1 /\ adapter.age = 0 /\ adapter.skew = 0
                    /\ \E b \in Bytes : adapter.byte = b /\ flight = <<a, b>>
  BY DEF Closing
<1>2. /\ AdapterTyped' /\ Rx!Receive(Adapter!Line)
      /\ receiver'.rx_d1 = Adapter!Line /\ receiver'.rx_d2 = receiver.rx_d1
  BY AdapterDoes, LineIsRegistered
<1>3. /\ receiver.state = "STOP" /\ receiver.rx_d1 = 1 /\ receiver.clk_cnt >= ClkPerBit - 2
      /\ receiver.clk_cnt = ClkPerBit - 1 => receiver.rx_d2 = 1
      /\ receiver.clk_cnt \in Nat /\ receiver.clk_cnt < ClkPerBit /\ ClkPerBit \in Nat
      /\ Half \in Nat /\ Calm \in Nat
  BY Ranges, HalfIs, SkewAssumption DEF Closing
<1>4. flight = <<a>> => flight \in Seq(Bytes) /\ flight = <<a>> \o <<>> /\ <<>> \in Seq(Bytes)
  BY OneByte
<1>5. ASSUME adapter.bit = 0, adapter.calm = 0, adapter.noise = 0, flight = <<a>>, receiver.clk_cnt # ClkPerBit - 1
      PROVE  HostInv' /\ InOrder
  <2>1. receiver'.rx_d1 = 1 /\ receiver'.rx_d2 = 1 /\ adapter.bit = 0 /\ adapter.calm = 0
    BY <1>2, <1>3, <1>5 DEF Adapter!Line
  <2>2. RxCounts
    BY <1>2, <1>3, <1>5, RxDoes
  <2>3. receiver'.state = "STOP" /\ receiver'.clk_cnt = ClkPerBit - 1
    BY <1>3, <1>5, <2>2 DEF RxCounts
  <2>4. Got(a)' /\ Hidden
    BY <1>1, <2>2 DEF Got, RxSlot, RxCounts
  <2>5. receiver'.clk_cnt >= ClkPerBit - 2
    BY <1>3, <2>3
  <2>6. CASE LineRests
    <3>1. flight' = <<a>> /\ InOrder
      BY <1>4, <1>5, <2>4, <2>6, OneByte, ShowsNothing DEF Takes, LineRests
    <3>2. adapter'.bit = 0 /\ adapter'.calm = 0 /\ adapter'.noise = 0
      BY <2>1, <2>6 DEF LineRests
    <3>3. Closing'
      BY <2>1, <2>3, <2>4, <2>5, <3>1, <3>2 DEF Closing
    <3>4. QED
      BY <1>2, <3>1, <3>3 DEF HostInv
  <2>7. CASE LinePulses
    <3>1. flight' = <<a>> /\ InOrder
      BY <1>4, <1>5, <2>4, <2>7, OneByte, ShowsNothing DEF Takes, LinePulses
    <3>2. adapter'.bit = 0 /\ adapter'.calm = Calm /\ Calm > 0 /\ adapter'.noise = 1
      BY <2>1, <2>7 DEF LinePulses
    <3>3. Closing'
      BY <2>1, <2>3, <2>4, <2>5, <3>1, <3>2 DEF Closing
    <3>4. QED
      BY <1>2, <3>1, <3>3 DEF HostInv
  <2>8. CASE \E b \in Bytes : FrameStarts(b)
    <3>1. PICK b \in Bytes : FrameStarts(b)
      BY <2>8
    <3>2. Log(<<b>>)
      BY <3>1 DEF FrameStarts
    <3>3. flight' = <<a, b>> /\ InOrder
      BY <1>4, <1>5, <2>4, <3>2, OneByte, ShowsNothing DEF Takes
    <3>4. adapter'.bit = 1 /\ adapter'.age = 0 /\ adapter'.skew = 0 /\ adapter'.byte = b
      BY <3>1 DEF FrameStarts
    <3>5. Closing'
      BY <2>1, <2>3, <2>4, <2>5, <3>3, <3>4 DEF Closing
    <3>6. QED
      BY <1>2, <3>3, <3>5 DEF HostInv
  <2>9. QED
    BY <2>1, <2>6, <2>7, <2>8, AdapterDoes DEF BitLasts, BitEnds, SameFrame, FrameIsOver
<1>6. ASSUME adapter.bit = 0, adapter.calm = 0, adapter.noise = 0, flight = <<a>>, receiver.clk_cnt = ClkPerBit - 1
      PROVE  HostInv' /\ InOrder
  <2>1. receiver'.rx_d1 = 1 /\ receiver'.rx_d2 = 1 /\ receiver.rx_d2 = 1 /\ adapter.bit = 0 /\ adapter.calm = 0
    BY <1>2, <1>3, <1>6 DEF Adapter!Line
  <2>2. ASSUME NEW t, Takes(t), Log(t)
        PROVE  receiver'.state = "IDLE" /\ flight' = <<>> \o t /\ InOrder
    BY <1>1, <1>2, <1>3, <1>4, <1>6, <2>1, <2>2, StopShows
  <2>3. CASE LineRests
    <3>1. receiver'.state = "IDLE" /\ flight' = <<>> /\ InOrder
      BY <2>2, <2>3, NoByte DEF Takes, LineRests
    <3>2. adapter'.bit = 0 /\ adapter'.calm = 0 /\ adapter'.noise = 0
      BY <2>1, <2>3 DEF LineRests
    <3>3. Listening'
      BY <2>1, <3>1, <3>2, RestedIsListening
    <3>4. QED
      BY <1>2, <3>1, <3>3 DEF HostInv
  <2>4. CASE LinePulses
    <3>1. receiver'.state = "IDLE" /\ flight' = <<>> /\ InOrder
      BY <2>2, <2>4, NoByte DEF Takes, LinePulses
    <3>2. adapter'.bit = 0 /\ adapter'.calm = Calm /\ Calm > 0 /\ adapter'.noise = 1
      BY <2>1, <2>4 DEF LinePulses
    <3>3. Hush(0)'
      BY <1>3, <2>1, <3>2 DEF Hush
    <3>4. Sees(0)' /\ ~(0 > 3 + Half)
      BY <1>3, <3>1 DEF Sees
    <3>5. Listening'
      BY <3>1, <3>3, <3>4 DEF Listening, Half
    <3>6. QED
      BY <1>2, <3>1, <3>5 DEF HostInv
  <2>5. CASE \E b \in Bytes : FrameStarts(b)
    <3>1. PICK b \in Bytes : FrameStarts(b)
      BY <2>5
    <3>2. Log(<<b>>)
      BY <3>1 DEF FrameStarts
    <3>3. receiver'.state = "IDLE" /\ flight' = <<b>> /\ InOrder
      BY <2>2, <3>2, OneByte DEF Takes
    <3>4. OnLine(b)' /\ Since' = 0
      BY <2>1, <3>1, FrameArrives
    <3>5. Sees(Since)'
      BY <3>3, <3>4 DEF Sees
    <3>6. QED
      BY <1>2, <3>3, <3>4, <3>5 DEF HostInv, Arriving
  <2>6. QED
    BY <2>1, <2>3, <2>4, <2>5, AdapterDoes DEF BitLasts, BitEnds, SameFrame, FrameIsOver
<1>7. ASSUME adapter.bit = 0, adapter.calm = Calm, Calm > 0, adapter.noise = 1, flight = <<a>>,
             receiver.clk_cnt = ClkPerBit - 1
      PROVE  HostInv' /\ InOrder
  <2>1. receiver'.rx_d1 = 0 /\ receiver'.rx_d2 = 1 /\ receiver.rx_d2 = 1
    BY <1>2, <1>3, <1>7 DEF Adapter!Line
  <2>2. LineRests
    <3>1. adapter.bit = 0 /\ adapter.calm # 0
      BY <1>3, <1>7
    <3>2. ~BitLasts /\ ~BitEnds /\ ~FrameIsOver
      BY <3>1 DEF BitLasts, BitEnds, SameFrame, FrameIsOver
    <3>3. ~LinePulses /\ \A b \in Bytes : ~FrameStarts(b)
      BY <3>1, Zenon DEF FrameStarts, LinePulses
    <3>4. QED
      BY <3>2, <3>3, AdapterDoes
  <2>3. Log(<<>>) /\ adapter'.bit = 0 /\ adapter'.noise = 0 /\ adapter'.calm = Calm - 1
    BY <1>7, <2>2 DEF LineRests
  <2>4. receiver'.state = "IDLE" /\ flight' = <<>> /\ InOrder
    <3>1. flight = <<a>> \o <<>> /\ <<>> \in Seq(Bytes) /\ Takes(<<>>) /\ Log(<<>>)
      BY <1>4, <1>7, <2>3 DEF Takes
    <3>2. QED
      BY <1>1, <1>2, <1>3, <1>7, <2>1, <3>1, NoByte, StopShows
  <2>5. Hush(1)'
    BY <1>3, <1>7, <2>1, <2>3 DEF Hush
  <2>6. Sees(1)' /\ ~(1 > 3 + Half)
    BY <1>3, <2>4 DEF Sees
  <2>7. Listening'
    BY <2>4, <2>5, <2>6 DEF Listening, Half
  <2>8. QED
    BY <1>2, <2>4, <2>7 DEF HostInv
<1>8. ASSUME receiver.clk_cnt = ClkPerBit - 1, adapter.bit = 1, adapter.age = 0, adapter.skew = 0,
             NEW b \in Bytes, adapter.byte = b, flight = <<a, b>>
      PROVE  HostInv' /\ InOrder
  <2>1. Since = 0 /\ Window(0, 0) /\ receiver.rx_d2 = 1
    BY <1>3, <1>8, AtIs, LineAssumption, SkewAssumption DEF Since, Window
  <2>2. Since - 1 = -1 /\ Since - 2 = -2 /\ adapter.bit - 1 = 0
    BY <1>8, <2>1
  <2>3. Shows(receiver.rx_d1, b, -1) /\ Shows(receiver.rx_d2, b, -2)
    BY <1>3, <2>1 DEF Shows
  <2>4. OnLine(b)
    BY <1>8, <2>1, <2>2, <2>3 DEF OnLine
  <2>5. Log(<<>>) /\ OnLine(b)' /\ Since' = 1
    <3>1. ~FrameIsOver
      BY <1>8 DEF FrameIsOver
    <3>2. QED
      BY <2>1, <2>4, <3>1, FrameClock
  <2>6. receiver'.state = "IDLE" /\ flight' = <<b>> /\ InOrder
    <3>1. flight = <<a>> \o <<b>> /\ <<b>> \in Seq(Bytes) /\ <<b>> \o <<>> = <<b>>
      BY <1>8, OneByte
    <3>2. QED
      BY <1>1, <1>2, <1>3, <1>8, <2>1, <2>5, <3>1, StopShows DEF Takes
  <2>7. Sees(Since)'
    BY <2>5, <2>6 DEF Sees
  <2>8. QED
    BY <1>2, <2>5, <2>6, <2>7 DEF HostInv, Arriving
<1>9. QED
  BY <1>1, <1>5, <1>6, <1>7, <1>8

LEMMA HostClockKeeps ==
  ASSUME EndsOK, Tolerable, HostInv, Adapter!Clock
  PROVE  HostInv' /\ InOrder
BY ListeningKeeps, ArrivingKeeps, ReceivingKeeps, ClosingKeeps, FinishingKeeps DEF HostInv

LEMMA HostRests ==
  ASSUME HostInv, UNCHANGED lineVars
  PROVE  HostInv'
<1>1. receiver' = receiver /\ flight' = flight /\ adapter' = adapter
  BY DEF lineVars, linkVars
<1>2. RxSlot' = RxSlot /\ Since' = Since
  BY <1>1 DEF RxSlot, Since, At
<1>3. \A b : OnLine(b)' = OnLine(b) /\ Got(b)' = Got(b)
  BY <1>1, <1>2 DEF OnLine, Got
<1>4. \A n : Sees(n)' = Sees(n) /\ Hush(n)' = Hush(n)
  BY <1>1 DEF Sees, Hush, Half
<1>5. Listening => Listening'
  BY <1>1, <1>4 DEF Listening, Half
<1>6. Arriving => Arriving'
  BY <1>1, <1>2, <1>3, <1>4 DEF Arriving, Sees, Half
<1>7. Receiving => Receiving'
  BY <1>1, <1>2, <1>3 DEF Receiving, Half, At
<1>8. Closing => Closing'
  BY <1>1, <1>3 DEF Closing
<1>9. Finishing => Finishing'
  BY <1>1 DEF Finishing
<1>10. AdapterTyped'
  BY <1>1 DEF HostInv, AdapterTyped
<1>11. QED
  BY <1>5, <1>6, <1>7, <1>8, <1>9, <1>10 DEF HostInv

LEMMA FreshLine ==
  ASSUME LineInit
  PROVE  HostInv
<1>1. adapter = [bit |-> 0, age |-> 0, skew |-> 0, byte |-> 0, calm |-> 0, noise |-> 0] /\ flight = <<>>
  BY DEF LineInit, LinkInit, Adapter!Resting
<1>2. AdapterTyped /\ adapter.bit = 0 /\ adapter.calm = 0 /\ adapter.noise = 0
  BY <1>1 DEF AdapterTyped
<1>3. receiver.state = "IDLE" /\ receiver.rx_d1 = 1 /\ receiver.rx_d2 = 1
  BY DEF LineInit, LinkInit, Rx!RxReset
<1>4. Half \in Nat /\ Calm \in Nat
  BY HalfIs, SkewAssumption
<1>5. PICK n \in Nat : n = 4 + Half + Calm
  BY <1>4
<1>6. n > 3 + Half /\ n >= Calm /\ n # 0 /\ n # 1 /\ n # 2
  BY <1>4, <1>5
<1>7. Hush(n)
  BY <1>2, <1>3, <1>6 DEF Hush
<1>8. Listening
  BY <1>1, <1>3, <1>6, <1>7 DEF Listening
<1>9. QED
  BY <1>2, <1>8 DEF HostInv

(* The line, whoever drives it: types first, within no limits.             *)
LineTyped == EndsOK /\ AdapterTyped /\ wire \in {"board", "host"} /\ flight \in Seq(Bytes)

LEMMA LineTypedStep ==
  ASSUME LineTyped, [LineNext]_lineVars
  PROVE  LineTyped'
<1>1. CASE BoardDrives \/ BoardResets \/ UNCHANGED lineVars
  <2>1. [LinkNext]_linkVars /\ wire' = wire /\ adapter' = adapter
    BY <1>1 DEF BoardDrives, BoardResets, LinkNext, lineVars
  <2>2. EndsOK' /\ flight' \in Seq(Bytes)
    BY <2>1, EndsStep, FlightStep DEF LineTyped
  <2>3. QED
    BY <2>1, <2>2 DEF LineTyped, AdapterTyped
<1>2. CASE HostDrives
  <2>1. Adapter!Clock /\ sender' = sender /\ wire' = wire /\ EndsOK /\ AdapterTyped /\ flight \in Seq(Bytes)
    BY <1>2 DEF HostDrives, LineTyped
  <2>2. AdapterTyped' /\ Rx!RxTypeOK' /\ StartIsHalf'
    BY <2>1, AdapterDoes, ReceiveOK
  <2>3. Tx!TxTypeOK' /\ Tx!BusyIsSending'
    BY <2>1 DEF EndsOK, Tx!TxTypeOK, Tx!BusyIsSending
  <2>4. Log(<<>>) \/ \E b \in Bytes : Log(<<b>>)
    BY <2>1, AdapterDoes DEF BitLasts, BitEnds, SameFrame, FrameIsOver, FrameStarts, LineRests, LinePulses
  <2>5. flight' \in Seq(Bytes)
    BY <2>1, <2>4, LogType, NoByte, OneByte
  <2>6. QED
    BY <2>1, <2>2, <2>3, <2>5 DEF LineTyped, EndsOK
<1>3. QED
  BY <1>1, <1>2 DEF LineNext

(* The registers of the receiver keep their widths on the host's line too, *)
(* and the board's tx_busy tells the truth, however the adapter's edges    *)
(* fall (uart.sv:21-80, 103-174).                                          *)
THEOREM LineIsTyped == LineSpec => [](TypeOK /\ BusyIsSending)
<1>1. LineInit => LineTyped
  BY FreshLine, InitEnds, NoByte DEF LineInit, LinkInit, LineTyped, HostInv
<1>2. LineTyped /\ [LineNext]_lineVars => LineTyped'
  BY LineTypedStep
<1>3. LineTyped => TypeOK /\ BusyIsSending
  BY DEF LineTyped, EndsOK, TypeOK, BusyIsSending
<1>4. QED
  BY <1>1, <1>2, <1>3, PTL DEF LineSpec

(* The situation of whichever end drives the line.                         *)
LineInv == (wire = "board" => LinkInv) /\ (wire = "host" => HostInv)

LEMMA LineStep ==
  ASSUME ClkPerBit > 2, Tolerable, LineTyped, LineInv, [LineNext]_lineVars
  PROVE  LineInv' /\ [Channel!Next]_(Channel!channelVars)
<1>1. CASE BoardDrives \/ BoardResets
  <2>1. LinkNext /\ wire = "board" /\ wire' = wire
    BY <1>1 DEF BoardDrives, BoardResets, LinkNext
  <2>2. LinkInv' /\ [Channel!Next]_(Channel!channelVars)
    BY <2>1, LinkStep DEF LineInv, LineTyped
  <2>3. QED
    BY <2>1, <2>2 DEF LineInv
<1>2. CASE HostDrives
  <2>1. Adapter!Clock /\ wire = "host" /\ wire' = wire
    BY <1>2 DEF HostDrives
  <2>2. HostInv' /\ InOrder
    BY <2>1, HostClockKeeps DEF LineTyped, LineInv
  <2>3. QED
    BY <2>1, <2>2 DEF LineInv, InOrder, Channel!Next
<1>3. CASE UNCHANGED lineVars
  <2>1. UNCHANGED linkVars /\ wire' = wire
    BY <1>3 DEF lineVars
  <2>2. (LinkInv => LinkInv') /\ (HostInv => HostInv')
    BY <1>3, <2>1, LinkRests, HostRests
  <2>3. UNCHANGED Channel!channelVars
    BY <2>1 DEF linkVars, Channel!channelVars
  <2>4. QED
    BY <2>1, <2>2, <2>3 DEF LineInv
<1>4. QED
  BY <1>1, <1>2, <1>3 DEF LineNext

(* Every byte the host sends is received once and in order and no pulse is *)
(* taken for a byte, if no edge comes more than half a bit and a clock     *)
(* late, none so early that an early edge and half a bit are a whole bit   *)
(* less a clock, and a pulse is followed by half a bit of quiet            *)
(* (uart.sv:103-174): for 434 clocks a bit (uart.sv:93), 218 late and 215  *)
(* early.  The same line carries what the board sends (LinkIsChannel).     *)
THEOREM LineIsChannel ==
  Tolerable => (LineSpec => Channel!Init /\ [][Channel!Next]_(Channel!channelVars))
<1> SUFFICES ASSUME Tolerable
             PROVE  LineSpec => Channel!Init /\ [][Channel!Next]_(Channel!channelVars)
  OBVIOUS
<1>1. ClkPerBit > 2
  BY HalfIs, LineAssumption, SkewAssumption DEF Tolerable
<1>2. LineInit => LineTyped /\ LineInv /\ Channel!Init
  BY FreshLink, FreshLine, InitEnds, NoByte DEF LineInit, LinkInit, Tx!TxInit, LineTyped, LineInv, HostInv
<1>3. LineTyped /\ [LineNext]_lineVars => LineTyped'
  BY LineTypedStep
<1>4. LineTyped /\ LineInv /\ [LineNext]_lineVars => LineInv' /\ [Channel!Next]_(Channel!channelVars)
  BY <1>1, LineStep
<1>5. QED
  BY <1>2, <1>3, <1>4, PTL DEF LineSpec

-----------------------------------------------------------------------------
(* When a byte is shown.  Due counts the clocks to the end of the oldest   *)
(* frame: from its slots while the receiver samples them, before that from *)
(* the time its start bit has been on the line.                            *)
Longest == At(9) + Half + 5
Due     == IF receiver.state \in {"DATA", "STOP"} THEN At(10 - RxSlot) - receiver.clk_cnt
           ELSE IF wire = "board" THEN Longest - At(TxSlot) - sender.clk_cnt
                                  ELSE Longest - 1 - Since
Falls   == /\ Due \in 1 .. Longest
           /\ receiver'.rx_valid <=> Due = 1
           /\ Due > 1 => Due' = Due - 1

LEMMA DueCounts ==
  ASSUME Due \in Int, 1 < Due, Due <= Longest, Hidden, Due' = Due - 1
  PROVE  Falls
<1>1. Longest \in Int
  BY AtIs, HalfIs DEF Longest
<1>2. receiver'.rx_valid = FALSE
  BY DEF Hidden
<1>3. QED
  BY <1>1, <1>2 DEF Falls

LEMMA LongestIs ==
  /\ Longest \in Int /\ Longest = At(9) + Half + 5 /\ At(9) \in Nat /\ Half \in Nat /\ ClkPerBit \in Nat
  /\ \A n \in Nat : n <= 4 + Half => /\ Longest - n \in Int /\ 1 < Longest - n /\ Longest - n <= Longest
                                     /\ n = 4 + Half => At(9) = (Longest - n) - 1
  /\ \A t, c \in Int : Longest - t - c = Longest - (t + c)
<1>1. At(0) = 0 /\ At(9) \in Nat /\ At(0) + ClkPerBit <= At(9) /\ Half \in Nat /\ ClkPerBit \in Nat /\ ClkPerBit > 1
  BY AtIs, HalfIs, LineAssumption
<1>2. QED
  BY <1>1 DEF Longest

(* While the receiver samples it counts alone.                             *)
LEMMA SamplingIsDue ==
  ASSUME EndsOK, NEW l, Rx!Receive(l), receiver.state \in {"DATA", "STOP"},
         receiver.state = "STOP" /\ receiver.clk_cnt = ClkPerBit - 1 => receiver.rx_d2 = 1
  PROVE  Falls
<1>1. /\ receiver.clk_cnt \in Nat /\ receiver.clk_cnt < ClkPerBit /\ receiver.bit_cnt \in 0 .. 7
      /\ ClkPerBit \in Nat /\ ClkPerBit > 1 /\ Half \in Nat
  BY Ranges, HalfIs, LineAssumption
<1>2. PICK k \in 1 .. 9 : k = 10 - RxSlot
  BY <1>1 DEF RxSlot
<1>3. /\ RxSlot = 10 - k
      /\ receiver.state = "DATA" => k = 9 - receiver.bit_cnt /\ k > 1
      /\ receiver.state = "STOP" => k = 1
  BY <1>1, <1>2 DEF RxSlot
<1>4. PICK j \in 0 .. 8 : j = k - 1
  OBVIOUS
<1>5. /\ At(j) \in Nat /\ At(k) = At(j) + ClkPerBit /\ At(9) \in Nat
      /\ (k < 9 => At(k) + ClkPerBit <= At(9)) /\ (0 < j => At(0) + ClkPerBit <= At(j)) /\ At(0) = 0
  <2>1. j \in 0 .. 10 /\ k = j + 1 /\ k \in 0 .. 10 /\ 9 \in 0 .. 10 /\ 0 \in 0 .. 10
    BY <1>4
  <2>2. QED
    BY <2>1, AtIs
<1>6. Due = At(k) - receiver.clk_cnt
  BY <1>2 DEF Due
<1>7. Due \in Int /\ Due <= Longest
  BY <1>1, <1>5, <1>6 DEF Longest
<1>8. CASE receiver.clk_cnt # ClkPerBit - 1
  <2>1. RxCounts
    BY <1>8, RxDoes
  <2>2. /\ receiver'.state \in {"DATA", "STOP"} /\ RxSlot' = RxSlot /\ Hidden
        /\ receiver'.clk_cnt = receiver.clk_cnt + 1
    BY <2>1 DEF RxCounts, RxSlot
  <2>3. Due' = At(k) - (receiver.clk_cnt + 1)
    BY <1>2, <2>2 DEF Due, At
  <2>4. Due' = Due - 1 /\ 1 < Due
    BY <1>1, <1>5, <1>6, <1>8, <2>3
  <2>5. QED
    BY <1>7, <2>2, <2>4, DueCounts
<1>9. CASE receiver.clk_cnt = ClkPerBit - 1 /\ receiver.state = "DATA"
  <2>1. /\ receiver'.clk_cnt = 0 /\ Hidden
        /\ receiver'.state = IF receiver.bit_cnt = 7 THEN "STOP" ELSE "DATA"
        /\ receiver.bit_cnt # 7 => receiver'.bit_cnt = receiver.bit_cnt + 1
    BY <1>9, RxDoes
  <2>2. 10 - RxSlot' = j /\ receiver'.state \in {"DATA", "STOP"}
    BY <1>1, <1>3, <1>4, <1>9, <2>1 DEF RxSlot
  <2>3. Due' = At(j)
    <3>1. Due' = At(10 - RxSlot') - receiver'.clk_cnt
      BY <2>2 DEF Due, At
    <3>2. QED
      BY <1>5, <2>1, <2>2, <3>1
  <2>4. 0 < j
    BY <1>3, <1>4, <1>9
  <2>5. Due' = Due - 1 /\ 1 < Due
    BY <1>1, <1>5, <1>6, <1>9, <2>3, <2>4
  <2>6. QED
    BY <1>7, <2>1, <2>5, DueCounts
<1>10. CASE receiver.clk_cnt = ClkPerBit - 1 /\ receiver.state = "STOP"
  <2>1. receiver'.rx_valid = TRUE
    BY <1>10, RxDoes
  <2>2. Due = 1
    BY <1>1, <1>3, <1>4, <1>5, <1>6, <1>10
  <2>3. QED
    BY <1>7, <2>1, <2>2 DEF Falls
<1>11. QED
  BY <1>8, <1>9, <1>10

LEMMA BoardFalls ==
  ASSUME EndsOK, ClkPerBit > 2, LinkInv, LinkClock, wire = "board", wire' = wire, flight # <<>>
  PROVE  Falls
<1>1. /\ receiver'.rx_d1 = sender.tx /\ receiver'.rx_d2 = receiver.rx_d1 /\ Rx!Receive(sender.tx)
  BY ClockIs
<1>2. CASE receiver.state \in {"IDLE", "START"}
  <2>1. PICK b \in Bytes, n \in Nat : /\ flight = <<b>> /\ LineIs(b) /\ Age(n)
                                      /\ receiver.state = "IDLE" => n \in 0 .. 3
                                      /\ receiver.state = "START" => n = 4 + receiver.clk_cnt /\ receiver.clk_cnt <= Half
    <3>1. CASE Waiting
      BY <3>1 DEF Waiting
    <3>2. CASE Starting
      <4>1. 4 + receiver.clk_cnt \in Nat
        BY Ranges
      <4>2. QED
        BY <3>2, <4>1 DEF Starting
    <3>3. QED
      BY <1>2, <3>1, <3>2 DEF LinkInv, Reading, Overtaken
  <2>2. Half \in Nat /\ Half > 0 /\ receiver.clk_cnt \in Nat /\ n <= 4 + Half
    BY <1>2, <2>1, HalfIs, Ranges
  <2>11. b \in 0 .. 255
    BY BytesAssumption
  <2>3. Tx!Sending
    BY <2>1, ClockIs DEF LineIs
  <2>4. NextClockOf(b) \/ NextSlotOf(b) \/ FrameEnds
    BY <1>1, <2>1, <2>3, <2>11, LineGoesOn
  <2>5. /\ At(0) = 0 /\ At(1) = ClkPerBit /\ At(9) \in Nat /\ At(1) + ClkPerBit <= At(9)
        /\ ClkPerBit \in Nat /\ sender.clk_cnt \in Nat
    BY AtIs, HalfIs, Ranges DEF At
  <2>6. Due = Longest - n
    <3>1. Due = Longest - At(TxSlot) - sender.clk_cnt
      BY <1>2 DEF Due
    <3>2. At(TxSlot) \in Int /\ sender.clk_cnt \in Int /\ At(TxSlot) + sender.clk_cnt = n
      BY <2>1, <2>5 DEF Age
    <3>3. Longest - At(TxSlot) - sender.clk_cnt = Longest - (At(TxSlot) + sender.clk_cnt)
      BY <3>2, LongestIs
    <3>4. QED
      BY <3>1, <3>2, <3>3
  <2>7. Due \in Int /\ 1 < Due /\ Due <= Longest
    BY <2>2, <2>6, LongestIs
  <2>8. CASE n = 4 + Half
    <3>1. receiver.state = "START" /\ receiver.clk_cnt = Half
      BY <1>2, <2>1, <2>2, <2>8
    <3>2. receiver.rx_d2 = 0
      BY <2>1, <2>2, <2>8, StartIsSeen
    <3>3. Hidden /\ receiver'.state = "DATA" /\ receiver'.clk_cnt = 0 /\ receiver'.bit_cnt = 0
      BY <1>1, <3>1, <3>2, RxDoes
    <3>4. Due' = At(9)
      <4>1. 10 - RxSlot' = 9
        BY <3>3 DEF RxSlot
      <4>2. Due' = At(10 - RxSlot') - receiver'.clk_cnt
        BY <3>3 DEF Due, At
      <4>3. QED
        BY <2>5, <3>3, <4>1, <4>2
    <3>5. Due' = Due - 1
      BY <2>2, <2>6, <2>8, <3>4, LongestIs
    <3>6. QED
      BY <2>7, <3>3, <3>5, DueCounts
  <2>9. CASE n # 4 + Half
    <3>1. n < 4 + Half
      BY <2>2, <2>9
    <3>2. Age(n + 1)'
      BY <2>1, <2>2, <2>4, <2>11, <3>1, AgeGoesOn
    <3>3. Hidden /\ receiver'.state \in {"IDLE", "START"}
      <4>1. CASE receiver.state = "IDLE"
        BY <1>1, <4>1, RxDoes
      <4>2. CASE receiver.state = "START"
        <5>1. receiver.clk_cnt # Half
          BY <2>1, <2>2, <3>1, <4>2
        <5>2. RxCounts
          BY <1>1, <4>2, <5>1, RxDoes
        <5>3. QED
          BY <4>2, <5>2 DEF RxCounts
      <4>3. QED
        BY <1>2, <4>1, <4>2
    <3>4. Due' = Longest - At(TxSlot') - sender'.clk_cnt
      BY <3>3 DEF Due, Longest, At, Half
    <3>5. At(TxSlot') \in Int /\ sender'.clk_cnt \in Int /\ At(TxSlot') + sender'.clk_cnt = n + 1
      <4>1. \/ TxSlot' = 0 /\ sender'.clk_cnt = n + 1
            \/ TxSlot' = 1 /\ sender'.clk_cnt + ClkPerBit = n + 1
        BY <3>2 DEF Age
      <4>2. EndsOK'
        BY EndsStep DEF LinkNext
      <4>3. sender'.clk_cnt \in Int
        BY <4>2 DEF EndsOK, Tx!TxTypeOK
      <4>4. QED
        BY <2>5, <4>1, <4>3
    <3>6. Due' = Longest - (n + 1)
      <4>1. Longest - At(TxSlot') - sender'.clk_cnt = Longest - (At(TxSlot') + sender'.clk_cnt)
        BY <3>5, LongestIs
      <4>2. QED
        BY <3>4, <3>5, <4>1
    <3>7. Due' = Due - 1
      BY <2>6, <3>6, LongestIs
    <3>8. QED
      BY <2>7, <3>3, <3>7, DueCounts
  <2>10. QED
    BY <2>8, <2>9
<1>3. CASE receiver.state \in {"DATA", "STOP"}
  <2>1. ASSUME receiver.state = "STOP", receiver.clk_cnt = ClkPerBit - 1
        PROVE  receiver.rx_d2 = 1
    <3>1. CASE Reading
      <4>1. PICK b \in Bytes : \/ LineIs(b) /\ InStep
                               \/ LineHigh
        BY <3>1 DEF Reading
      <4>2. CASE LineIs(b) /\ InStep
        <5>1. receiver.rx_d2 = LevelOf(b, RxSlot) /\ RxSlot = 9
          BY <2>1, <4>2, SamplesInside DEF RxSlot
        <5>2. QED
          BY <5>1, WasIs
      <4>3. CASE LineHigh
        BY <4>3 DEF LineHigh
      <4>4. QED
        BY <4>1, <4>2, <4>3
    <3>2. CASE Overtaken
      <4>1. PICK b \in Bytes : /\ LineIs(b) /\ sender.state = "START"
                               /\ sender.clk_cnt + 2 * ClkPerBit + 1 <= Elapsed
        BY <3>2 DEF Overtaken
      <4>2. /\ Half \in Nat /\ 2 * Half <= ClkPerBit /\ ClkPerBit \in Nat /\ sender.clk_cnt \in Nat
            /\ Elapsed = (ClkPerBit - 1) + 5 + Half /\ TxSlot = 0
        BY <2>1, <4>1, HalfIs, Ranges DEF Elapsed, TxSlot
      <4>3. sender.clk_cnt <= 2
        BY <4>1, <4>2
      <4>4. receiver.rx_d2 = Was(b, 0)
        BY <4>1, <4>2, <4>3 DEF LineIs, LineAt, SeenAt
      <4>5. QED
        BY <4>4, WasIs DEF Was
    <3>3. QED
      BY <2>1, <3>1, <3>2 DEF LinkInv, Waiting, Starting
  <2>2. QED
    BY <1>1, <1>3, <2>1, SamplingIsDue
<1>4. QED
  BY <1>2, <1>3, Ranges

LEMMA HostFalls ==
  ASSUME EndsOK, Tolerable, HostInv, Adapter!Clock, wire = "host", wire' = wire, flight # <<>>
  PROVE  Falls
<1>1. AdapterTyped /\ Rx!Receive(Adapter!Line)
  BY AdapterDoes DEF HostInv
<1>2. CASE Arriving
  <2>1. PICK b \in Bytes : OnLine(b) /\ Sees(Since)
    BY <1>2 DEF Arriving
  <2>2. PICK n \in Nat : n = Since /\ n <= 3 + Half /\ Sees(n)
    BY <1>1, <2>1, ArrivingClock
  <2>3. /\ Hidden /\ Since' = n + 1
        /\ n # 3 + Half => Sees(Since)'
        /\ n = 3 + Half => receiver'.state = "DATA" /\ receiver'.clk_cnt = 0 /\ receiver'.bit_cnt = 0
    BY <1>1, <2>1, <2>2, ArrivingClock
  <2>4. At(9) \in Nat /\ Half \in Nat /\ Longest = At(9) + Half + 5 /\ receiver.state \in {"IDLE", "START"}
    <3>1. At(9) \in Nat /\ Half \in Nat
      BY AtIs, HalfIs
    <3>2. receiver.state \in {"IDLE", "START"}
      BY <2>2 DEF Sees
    <3>3. QED
      BY <3>1, <3>2 DEF Longest
  <2>5. Due = Longest - 1 - n
    BY <2>2, <2>4 DEF Due
  <2>6. Due \in Int /\ 1 < Due /\ Due <= Longest
    <3>1. n + 1 \in Nat /\ n + 1 <= 4 + Half /\ Due = Longest - (n + 1)
      BY <2>2, <2>4, <2>5, LongestIs
    <3>2. QED
      BY <3>1, LongestIs
  <2>7. CASE n = 3 + Half
    <3>1. receiver'.state = "DATA" /\ receiver'.clk_cnt = 0 /\ receiver'.bit_cnt = 0
      BY <2>3, <2>7
    <3>2. Due' = At(9)
      <4>1. 10 - RxSlot' = 9
        BY <3>1 DEF RxSlot
      <4>2. Due' = At(10 - RxSlot') - receiver'.clk_cnt
        BY <3>1 DEF Due, At
      <4>3. QED
        BY <2>4, <3>1, <4>1, <4>2
    <3>3. Due' = Due - 1
      BY <2>4, <2>5, <2>7, <3>2
    <3>4. QED
      BY <2>3, <2>6, <3>3, DueCounts
  <2>8. CASE n # 3 + Half
    <3>1. receiver'.state \in {"IDLE", "START"}
      BY <2>3, <2>8 DEF Sees
    <3>2. Due' = Longest - 1 - Since'
      BY <3>1 DEF Due, Longest, At, Half
    <3>3. Due' = Due - 1
      BY <2>3, <2>4, <2>5, <3>2
    <3>4. QED
      BY <2>3, <2>6, <3>3, DueCounts
  <2>9. QED
    BY <2>7, <2>8
<1>3. CASE Receiving
  <2>1. PICK b \in Bytes : OnLine(b)
    BY <1>3 DEF Receiving
  <2>2. ASSUME receiver.state = "STOP", receiver.clk_cnt = ClkPerBit - 1
        PROVE  receiver.rx_d2 = 1
    <3>1. RxSlot - 1 = 8 /\ At(8) \in Nat /\ At(9) = At(8) + ClkPerBit /\ Half \in Nat /\ ClkPerBit \in Nat
      BY <2>2, AtIs, HalfIs DEF RxSlot
    <3>2. Since = At(8) + Half + 4 + (ClkPerBit - 1)
      BY <1>3, <2>2, <3>1 DEF Receiving
    <3>3. Since - 2 = At(9) + Half + 1
      BY <3>1, <3>2
    <3>4. Since - 2 \in Nat
      BY <3>1, <3>3
    <3>5. QED
      BY <2>1, <3>1, <3>3, <3>4, StopIsHigh DEF OnLine
  <2>3. QED
    BY <1>1, <1>3, <2>2, SamplingIsDue DEF Receiving
<1>4. CASE Closing
  BY <1>1, <1>4, SamplingIsDue DEF Closing
<1>5. QED
  BY <1>2, <1>3, <1>4 DEF HostInv, Listening, Finishing

(* How long a byte takes: Due is exact.  With every clock of the board it  *)
(* falls by one, and the receiver shows a byte in the clock in which it is *)
(* 1 and in no other, whatever the jitter: 9 bits, half a bit and 5 clocks *)
(* after the transmitter took it, a clock less after the host's start bit  *)
(* (uart.sv:103-174).  This is why a clock that goes on is all that        *)
(* delivery needs.                                                         *)
THEOREM BytesComeInTime ==
  Tolerable => (LineSpec => [][BoardDrives \/ HostDrives => flight = <<>> \/ Falls]_lineVars)
<1> SUFFICES ASSUME Tolerable
             PROVE  LineSpec => [][BoardDrives \/ HostDrives => flight = <<>> \/ Falls]_lineVars
  OBVIOUS
<1>1. ClkPerBit > 2
  BY HalfIs, LineAssumption, SkewAssumption DEF Tolerable
<1>2. LineInit => LineTyped /\ LineInv
  BY FreshLink, FreshLine, InitEnds, NoByte DEF LineInit, LinkInit, Tx!TxInit, LineTyped, LineInv, HostInv
<1>3. LineTyped /\ [LineNext]_lineVars => LineTyped'
  BY LineTypedStep
<1>4. LineTyped /\ LineInv /\ [LineNext]_lineVars => LineInv'
  BY <1>1, LineStep
<1>5. LineTyped /\ LineInv => (BoardDrives \/ HostDrives => flight = <<>> \/ Falls)
  <2> SUFFICES ASSUME LineTyped, LineInv, BoardDrives \/ HostDrives, flight # <<>>
               PROVE  Falls
    OBVIOUS
  <2>1. CASE BoardDrives
    BY <1>1, <2>1, BoardFalls DEF BoardDrives, LineTyped, LineInv
  <2>2. CASE HostDrives
    BY <2>2, HostFalls DEF HostDrives, LineTyped, LineInv
  <2>3. QED
    BY <2>1, <2>2
<1>6. QED
  BY <1>2, <1>3, <1>4, <1>5, PTL DEF LineSpec

-----------------------------------------------------------------------------
(* The bootloader.  The two length bytes of a frame.                       *)
Lo(j) == Len(j.prog) % LoSpan
Hi(j) == Len(j.prog) \div LoSpan

LEMMA LengthBytes ==
  ASSUME NEW j \in Jobs
  PROVE  /\ Len(j.prog) \in Nat /\ Lo(j) \in Nat /\ Lo(j) < LoSpan /\ Hi(j) \in 0 .. 15
         /\ Len(j.prog) = LoSpan * Hi(j) + Lo(j)
         /\ 0 % LoSpan = 0 /\ Lo(j) % LoSpan = Lo(j)
<1>1. LoSpan \in Nat /\ LoSpan > 0
  BY SizesAssumption
<1>2. Len(j.prog) \in Nat /\ Len(j.prog) < 16 * LoSpan
  BY JobsAssumption, SizesAssumption
<1> DEFINE n == Len(j.prog)
<1> HIDE DEF n
<1>3. n \in Nat /\ n < 16 * LoSpan
  BY <1>2 DEF n
<1>4. n % LoSpan \in Nat /\ n % LoSpan < LoSpan /\ n = LoSpan * (n \div LoSpan) + (n % LoSpan) /\ n \div LoSpan \in Nat
  BY <1>1, <1>3
<1>5. n \div LoSpan \in 0 .. 15
  BY <1>1, <1>3, <1>4
<1>6. 0 % LoSpan = 0 
  BY <1>1
<1>7. \A m \in Nat : m < LoSpan => m % LoSpan = m
  BY <1>1
<1>8. QED
  BY <1>3, <1>4, <1>5, <1>6, <1>7 DEF Lo, Hi, n

LEMMA JobParts ==
  ASSUME NEW j \in Jobs
  PROVE  /\ Len(j.regs) \in 0 .. 16 /\ (j.regs = <<>> <=> Len(j.regs) = 0)
         /\ Len(j.prog) \in Nat /\ Len(j.prog) < ImemWords
         /\ Len(j.prog) = 0 => Len(j.regs) = 0
         /\ \A n \in 1 .. Len(j.regs) : j.regs[n].reg \in BootReg /\ j.regs[n].word \in BootWord
         /\ \A a \in 1 .. Len(j.prog) : j.prog[a] \in BootWord
<1>1. /\ j.regs \in Seq(RegInput) /\ Len(j.regs) <= 16
      /\ j.prog \in Seq(BootWord) /\ Len(j.prog) < ImemWords
      /\ j.prog = <<>> => j.regs = <<>>
  BY JobsAssumption
<1>2. \A n \in 1 .. Len(j.regs) : j.regs[n] \in RegInput
  BY <1>1
<1>3. \A n \in 1 .. Len(j.regs) : j.regs[n].reg \in BootReg /\ j.regs[n].word \in BootWord
  BY <1>2 DEF RegInput
<1>4. (j.regs = <<>> <=> Len(j.regs) = 0) /\ (j.prog = <<>> <=> Len(j.prog) = 0)
  BY <1>1, EmptySeq
<1>5. Len(j.regs) \in Nat /\ Len(j.prog) \in Nat
  BY <1>1
<1>6. \A a \in 1 .. Len(j.prog) : j.prog[a] \in BootWord
  BY <1>1
<1>7. Len(j.regs) \in 0 .. 16 /\ (Len(j.prog) = 0 => Len(j.regs) = 0)
  <2>1. Len(j.prog) = 0 => Len(j.regs) = 0
    BY <1>1, <1>4, Zenon
  <2>2. Len(j.regs) <= 16
    BY <1>1
  <2>3. \A n \in Nat : n <= 16 => n \in 0 .. 16
    OBVIOUS
  <2>4. QED
    BY <1>5, <2>1, <2>2, <2>3, Zenon
<1>8. QED
  BY <1>1, <1>3, <1>4, <1>5, <1>6, <1>7

(* The bytes of a frame: the header, the words for registers in fives, the *)
(* program in fours.                                                       *)
Parts(j) == IF j.regs = <<>> THEN 2 ELSE 3

LEMMA HeaderBytes ==
  ASSUME NEW j \in Jobs
  PROVE  /\ Len(Header(j)) = Parts(j)
         /\ RegsEnd(j) = Parts(j) + 5 * Len(j.regs)
         /\ FrameByte(j, 0) = Lo(j)
         /\ FrameByte(j, 1) = IF j.regs = <<>> THEN Hi(j) ELSE Hi(j) + 128
         /\ j.regs # <<>> => FrameByte(j, 2) = Len(j.regs)
<1>1. Header(j) = IF j.regs = <<>> THEN <<Lo(j), Hi(j)>> ELSE <<Lo(j), Hi(j) + 128, Len(j.regs)>>
  BY DEF Header, Lo, Hi
<1>2. Len(Header(j)) = Parts(j)
  BY <1>1 DEF Parts
<1>3. RegsEnd(j) = Parts(j) + 5 * Len(j.regs)
  BY <1>2 DEF RegsEnd
<1>4. /\ Header(j)[1] = Lo(j) /\ Header(j)[2] = IF j.regs = <<>> THEN Hi(j) ELSE Hi(j) + 128
      /\ j.regs # <<>> => Header(j)[3] = Len(j.regs)
  BY <1>1
<1>5. \A i \in 0 .. 2 : i < Parts(j) => FrameByte(j, i) = Header(j)[i + 1]
  BY <1>2 DEF FrameByte
<1>6. 0 < Parts(j) /\ 1 < Parts(j) /\ (j.regs # <<>> => 2 < Parts(j))
  BY DEF Parts
<1>7. QED
  BY <1>2, <1>3, <1>4, <1>5, <1>6

LEMMA RegisterBytes ==
  ASSUME NEW j \in Jobs, NEW q \in Nat, q < Len(j.regs)
  PROVE  /\ FrameByte(j, 3 + 5 * q) = j.regs[q + 1].reg
         /\ \A m \in 0 .. 3 : FrameByte(j, 4 + 5 * q + m) = j.regs[q + 1].word[m + 1]
<1>1. Len(Header(j)) = 3 /\ RegsEnd(j) = 3 + 5 * Len(j.regs) /\ Len(j.regs) \in Nat
  <2>1. Len(j.regs) \in Nat /\ j.regs # <<>>
    BY JobParts
  <2>2. Parts(j) = 3
    BY <2>1 DEF Parts
  <2>3. QED
    BY <2>1, <2>2, HeaderBytes
<1>2. ASSUME NEW i \in 0 .. 4
      PROVE  FrameByte(j, 3 + 5 * q + i) = IF i = 0 THEN j.regs[q + 1].reg ELSE j.regs[q + 1].word[i]
  <2>1. 3 + 5 * q + i \in Nat /\ ~(3 + 5 * q + i < 3) /\ 3 + 5 * q + i < 3 + 5 * Len(j.regs)
    BY <1>1
  <2>2. (3 + 5 * q + i) - 3 = 5 * q + i
    OBVIOUS
  <2>3. (5 * q + i) \div 5 = q /\ (5 * q + i) % 5 = i
    OBVIOUS
  <2>4. QED
    BY <1>1, <2>1, <2>2, <2>3 DEF FrameByte
<1>3. FrameByte(j, 3 + 5 * q) = j.regs[q + 1].reg
  <2>1. 3 + 5 * q + 0 = 3 + 5 * q
    OBVIOUS
  <2>2. QED
    BY <1>2, <2>1
<1>4. ASSUME NEW m \in 0 .. 3 PROVE FrameByte(j, 4 + 5 * q + m) = j.regs[q + 1].word[m + 1]
  <2>1. m + 1 \in 0 .. 4 /\ m + 1 # 0 /\ 4 + 5 * q + m = 3 + 5 * q + (m + 1)
    OBVIOUS
  <2>2. QED
    BY <1>2, <2>1
<1>5. QED
  BY <1>3, <1>4

LEMMA ProgramBytes ==
  ASSUME NEW j \in Jobs, NEW q \in Nat, q < Len(j.prog), NEW m \in 0 .. 3
  PROVE  FrameByte(j, RegsEnd(j) + 4 * q + m) = j.prog[q + 1][m + 1]
<1> DEFINE e == RegsEnd(j)
<1>1. e \in Nat /\ Len(Header(j)) \in Nat /\ Len(Header(j)) <= e
  <2>1. Len(j.regs) \in Nat /\ Parts(j) \in {2, 3}
    BY JobParts DEF Parts
  <2>2. Len(Header(j)) = Parts(j) /\ e = Parts(j) + 5 * Len(j.regs)
    BY HeaderBytes
  <2>3. QED
    BY <2>1, <2>2
<1> HIDE DEF e
<1>2. ~(e + 4 * q + m < Len(Header(j))) /\ ~(e + 4 * q + m < e) /\ (e + 4 * q + m) - e = 4 * q + m
  BY <1>1
<1>3. (4 * q + m) \div 4 = q /\ (4 * q + m) % 4 = m
  OBVIOUS
<1>4. QED
  BY <1>2, <1>3 DEF FrameByte, e

-----------------------------------------------------------------------------
(* What the loader holds after the first bytes of a frame.                 *)
job == host.job

LoadStates == {"WAIT_LENGTH_LO", "WAIT_LENGTH_HI", "WAIT_REG_COUNT", "WAIT_REG_ADDR",
               "READ_REG_BYTES", "READ_BYTES"}
BootRecord == [state : LoadStates \cup {"DONE"}, prog_length : Nat, word_count : Nat,
               byte_count : 0 .. 3, assembled_word : BootWord, input_count : Nat,
               input_index : Nat, input_reg_addr : BootReg]

(* The first q register words are in their registers, and nothing else is. *)
RegsDone(q) == /\ regs \in [BootReg -> BootWord]
               /\ \A n \in 1 .. q : regs[job.regs[n].reg] = job.regs[n].word
               /\ \A r \in BootReg : (\A n \in 1 .. q : job.regs[n].reg # r) => regs[r] = Zero
ProgDone(q) == \A a \in 1 .. q : imem[a - 1] = job.prog[a]

InWord(word) == \A i \in 1 .. boot.byte_count : boot.assembled_word[i] = word[i]

InRegs == /\ boot.prog_length = Len(job.prog)
          /\ boot.input_count = Len(job.regs)
          /\ boot.input_index < Len(job.regs)
          /\ RegsDone(boot.input_index)
          /\ job.regs # <<>>

AtStart    == boot = ResetBoot /\ host.sent = 0 /\ RegsDone(0)
AtLength   == /\ boot.prog_length = Lo(job) /\ host.sent = 1 /\ RegsDone(0)
AtCount    == /\ boot.prog_length = Len(job.prog) /\ job.regs # <<>>
              /\ host.sent = 2 /\ RegsDone(0)
AtAddr     == InRegs /\ host.sent = 3 + 5 * boot.input_index
AtRegister == /\ InRegs
              /\ host.sent = 4 + 5 * boot.input_index + boot.byte_count
              /\ boot.input_reg_addr = job.regs[boot.input_index + 1].reg
              /\ InWord(job.regs[boot.input_index + 1].word)
AtProgram  == /\ boot.prog_length = Len(job.prog)
              /\ boot.word_count < Len(job.prog)
              /\ host.sent = RegsEnd(job) + 4 * boot.word_count + boot.byte_count
              /\ RegsDone(Len(job.regs))
              /\ ProgDone(boot.word_count)
              /\ InWord(job.prog[boot.word_count + 1])

Loader == /\ boot \in BootRecord
          /\ boot.state \in LoadStates
          /\ boot.state = "WAIT_LENGTH_LO" => AtStart
          /\ boot.state = "WAIT_LENGTH_HI" => AtLength
          /\ boot.state = "WAIT_REG_COUNT" => AtCount
          /\ boot.state = "WAIT_REG_ADDR"  => AtAddr
          /\ boot.state = "READ_REG_BYTES" => AtRegister
          /\ boot.state = "READ_BYTES"     => AtProgram

Loaded == boot_done /\ host.sent = FrameLen(job) /\ Holds(job)

(* One byte of the frame into the loader, with the writes it makes.        *)
Feeds == /\ host'.job = job /\ host'.sent = host.sent + 1
         /\ imem' = IF boot.state = "READ_BYTES" /\ boot.byte_count = 3
                    THEN [imem EXCEPT ![boot.word_count] = Assembled(FrameByte(job, host.sent))]
                    ELSE imem
         /\ regs' = IF boot.state = "READ_REG_BYTES" /\ boot.byte_count = 3
                    THEN [regs EXCEPT ![boot.input_reg_addr] = Assembled(FrameByte(job, host.sent))]
                    ELSE regs
Feeding == Loader /\ job \in Jobs /\ host.sent \in Nat /\ Feeds
           /\ imem \in [0 .. (ImemWords - 1) -> BootWord]
           /\ FrameByte(job, host.sent) \in Byte
Fed == \/ Loader' /\ (host.sent < FrameLen(job))'
       \/ Loaded'

-----------------------------------------------------------------------------
LEMMA FrameLength ==
  ASSUME job \in Jobs
  PROVE  /\ RegsEnd(job) \in Nat /\ RegsEnd(job) = Parts(job) + 5 * Len(job.regs)
         /\ Parts(job) = (IF job.regs = <<>> THEN 2 ELSE 3)
         /\ FrameLen(job) = RegsEnd(job) + 4 * Len(job.prog)
<1>1. Len(job.regs) \in Nat /\ Parts(job) \in {2, 3}
  BY JobParts DEF Parts
<1>2. RegsEnd(job) = Parts(job) + 5 * Len(job.regs)
  BY HeaderBytes
<1>3. RegsEnd(job) \in Nat
  BY <1>1, <1>2
<1>4. QED
  BY <1>2, <1>3 DEF FrameLen, Parts

LEMMA ZeroIsWord == Zero \in BootWord
BY DEF Zero, BootWord, Byte

LEMMA RegsStay ==
  ASSUME NEW q, host'.job = job, regs' = regs, RegsDone(q)
  PROVE  RegsDone(q)'
BY DEF RegsDone, job

LEMMA LengthLoFeeds ==
  ASSUME Feeding, LengthLo(FrameByte(job, host.sent))
  PROVE  Fed
<1>1. /\ boot = ResetBoot /\ host.sent = 0 /\ RegsDone(0) /\ job \in Jobs
      /\ boot.state = "WAIT_LENGTH_LO" /\ regs' = regs /\ host'.job = job /\ host'.sent = 1
  BY DEF Feeding, LengthLo, Loader, AtStart, Feeds
<1>2. FrameByte(job, host.sent) = Lo(job)
  BY <1>1, HeaderBytes
<1>3. Lo(job) \in Nat /\ 0 % LoSpan = 0 /\ Lo(job) % LoSpan = Lo(job)
  BY <1>1, LengthBytes
<1>4. boot.prog_length - (boot.prog_length % LoSpan) + (FrameByte(job, host.sent) % LoSpan) = Lo(job)
  <2>1. boot.prog_length = 0
    BY <1>1 DEF ResetBoot
  <2> DEFINE l == Lo(job)  z == 0 % LoSpan
  <2>2. z = 0 /\ l \in Nat
    BY <1>3
  <2> HIDE DEF l, z
  <2>3. 0 - z + l = l
    BY <2>2
  <2>4. QED
    BY <1>2, <1>3, <2>1, <2>3 DEF l, z
<1>5. boot' = [ResetBoot EXCEPT !.prog_length = Lo(job), !.state = "WAIT_LENGTH_HI"]
  BY <1>1, <1>4, Zenon DEF LengthLo
<1>6. /\ boot'.state = "WAIT_LENGTH_HI" /\ boot'.prog_length = Lo(job)
      /\ boot' \in BootRecord
  <2>1. boot' = [state |-> "WAIT_LENGTH_HI", prog_length |-> Lo(job), word_count |-> 0, byte_count |-> 0,
                 assembled_word |-> Zero, input_count |-> 0, input_index |-> 0, input_reg_addr |-> 0]
    BY <1>5 DEF ResetBoot
  <2> HIDE DEF Zero
  <2>2. QED
    BY <1>3, <2>1, ZeroIsWord DEF BootRecord, LoadStates, BootReg
<1>7. RegsDone(0)'
  BY <1>1, RegsStay
<1>8. job' = job /\ Lo(job)' = Lo(job)
  BY <1>1 DEF job, Lo
<1>9. AtLength'
  BY <1>1, <1>6, <1>7, <1>8 DEF AtLength
<1>10. host'.sent < FrameLen(job)
  BY <1>1, FrameLength, JobParts
<1>11. FrameLen(job)' = FrameLen(job)
  BY <1>8 DEF FrameLen, RegsEnd, Header
<1>12. QED
  BY <1>6, <1>9, <1>10, <1>11 DEF Fed, Loader, LoadStates

LEMMA JobStays ==
  ASSUME host'.job = job
  PROVE  /\ job' = job /\ FrameLen(job)' = FrameLen(job) /\ RegsEnd(job)' = RegsEnd(job)
         /\ Lo(job)' = Lo(job) /\ Len(job.regs)' = Len(job.regs) /\ Len(job.prog)' = Len(job.prog)
BY DEF job, FrameLen, RegsEnd, Header, Lo

(* Registers with every word of the job in its place, and zero elsewhere.  *)
LEMMA RegistersExpected ==
  ASSUME NEW j \in Jobs, NEW f \in [BootReg -> BootWord],
         \A n \in 1 .. Len(j.regs) : f[j.regs[n].reg] = j.regs[n].word,
         \A r \in BootReg : (\A n \in 1 .. Len(j.regs) : j.regs[n].reg # r) => f[r] = Zero
  PROVE  f = Expected(j)
<1> DEFINE n == Len(j.regs)
           chosen(r) == CHOOSE x \in {j.regs[m] : m \in 1 .. n} : x.reg = r
<1>1. ASSUME NEW r \in BootReg, NEW m \in 1 .. n, j.regs[m].reg = r
      PROVE  f[r] = chosen(r).word
  <2>1. chosen(r) \in {j.regs[k] : k \in 1 .. n} /\ chosen(r).reg = r
    BY <1>1
  <2>2. PICK k \in 1 .. n : chosen(r) = j.regs[k]
    BY <2>1
  <2> HIDE DEF chosen
  <2>3. QED
    BY <2>1, <2>2
<1>2. ASSUME NEW r \in BootReg, ~ \E m \in 1 .. n : j.regs[m].reg = r
      PROVE  f[r] = Zero
  BY <1>2
<1> HIDE DEF chosen
<1>3. \A r \in BootReg : f[r] = IF \E m \in 1 .. n : j.regs[m].reg = r THEN chosen(r).word ELSE Zero
  BY <1>1, <1>2
<1>4. Expected(j) = [r \in BootReg |-> IF \E m \in 1 .. n : j.regs[m].reg = r THEN chosen(r).word ELSE Zero]
  BY DEF Expected, chosen
<1>5. QED
  BY <1>3, <1>4

LEMMA HoldsWhenDone ==
  ASSUME job' = job, job \in Jobs, RegsDone(Len(job.regs))', ProgDone(Len(job.prog))'
  PROVE  Holds(job)'
<1>1. regs' = Expected(job)
  BY RegistersExpected DEF RegsDone
<1>2. QED
  BY <1>1 DEF Holds, ProgDone

(* The second length byte: what the loader makes of it.                    *)
LEMMA SecondByte ==
  ASSUME Feeding, boot.state = "WAIT_LENGTH_HI"
  PROVE  LET b == FrameByte(job, host.sent)
         IN  /\ b = IF job.regs = <<>> THEN Hi(job) ELSE Hi(job) + 128
             /\ b < 128 <=> job.regs = <<>>
             /\ (boot.prog_length % LoSpan) + LoSpan * (b % 16) = Len(job.prog)
             /\ boot.prog_length % LoSpan = Lo(job)
             /\ host.sent = 1 /\ RegsDone(0) /\ job \in Jobs
<1> DEFINE b == FrameByte(job, host.sent)
<1>1. /\ host.sent = 1 /\ boot.prog_length = Lo(job) /\ RegsDone(0) /\ job \in Jobs
  BY DEF Feeding, Loader, AtLength
<1>2. b = IF job.regs = <<>> THEN Hi(job) ELSE Hi(job) + 128
  BY <1>1, HeaderBytes
<1>3. /\ Lo(job) % LoSpan = Lo(job) /\ Hi(job) \in 0 .. 15
      /\ Len(job.prog) = LoSpan * Hi(job) + Lo(job) /\ Lo(job) \in Nat
  BY <1>1, LengthBytes
<1> HIDE DEF b
<1>4. b % 16 = Hi(job) /\ (b < 128 <=> job.regs = <<>>)
  BY <1>2, <1>3
<1>5. (boot.prog_length % LoSpan) + LoSpan * (b % 16) = Len(job.prog)
  <2>1. boot.prog_length % LoSpan = Lo(job)
    BY <1>1, <1>3
  <2> DEFINE l == Lo(job)  h == LoSpan * Hi(job)
  <2>2. l \in Nat /\ h \in Nat
    <3>1. LoSpan \in Nat
      BY SizesAssumption
    <3>2. \A x \in 0 .. 15 : LoSpan * x \in Nat
      BY <3>1
    <3>3. QED
      BY <1>3, <3>2, Zenon
  <2> HIDE DEF l, h
  <2>3. l + h = h + l
    BY <2>2
  <2>4. QED
    BY <1>3, <1>4, <2>1, <2>3 DEF l, h
<1>6. QED
  BY <1>1, <1>2, <1>3, <1>4, <1>5 DEF b

LEMMA LengthEmptyFeeds ==
  ASSUME Feeding, LengthEmpty(FrameByte(job, host.sent))
  PROVE  Fed
<1> DEFINE b == FrameByte(job, host.sent)
<1>1. boot.state = "WAIT_LENGTH_HI" /\ b = 0 /\ boot.prog_length % LoSpan = 0
  BY DEF LengthEmpty, NoProgram
<1>2. /\ b < 128 <=> job.regs = <<>>
      /\ (boot.prog_length % LoSpan) + LoSpan * (b % 16) = Len(job.prog)
      /\ host.sent = 1 /\ RegsDone(0) /\ job \in Jobs
  BY <1>1, SecondByte
<1>3. job.regs = <<>> /\ Len(job.regs) = 0
  BY <1>1, <1>2, JobParts
<1>4. Len(job.prog) = 0
  <2> HIDE DEF b
  <2>1. (boot.prog_length % LoSpan) + LoSpan * (b % 16) = 0
    BY <1>1, SizesAssumption
  <2>2. QED
    BY <1>2, <2>1
<1>5. boot'.state = "DONE" /\ regs' = regs /\ host'.job = job /\ host'.sent = 2
  <2>1. boot' = [WithLength(b) EXCEPT !.state = "DONE"] /\ boot \in BootRecord
    BY DEF LengthEmpty, Feeding, Loader
  <2>2. boot'.state = "DONE"
    BY <2>1 DEF WithLength, BootRecord
  <2>3. QED
    BY <1>1, <1>2, <2>2 DEF Feeding, Feeds
<1>6. FrameLen(job) = 2
  BY <1>2, <1>3, <1>4, FrameLength
<1>7. RegsDone(Len(job.regs))' /\ ProgDone(Len(job.prog))' /\ job' = job /\ FrameLen(job)' = FrameLen(job)
  <2>1. RegsDone(0)'
    BY <1>2, <1>5, RegsStay
  <2>2. job' = job /\ FrameLen(job)' = FrameLen(job) /\ Len(job.regs)' = 0 /\ Len(job.prog)' = 0
    BY <1>3, <1>4, <1>5, JobStays
  <2>3. QED
    BY <2>1, <2>2 DEF ProgDone, RegsDone
<1>8. Holds(job)'
  BY <1>2, <1>7, HoldsWhenDone
<1>9. QED
  BY <1>5, <1>6, <1>7, <1>8 DEF Fed, Loaded, boot_done

LEMMA LengthPlainFeeds ==
  ASSUME Feeding, LengthPlain(FrameByte(job, host.sent))
  PROVE  Fed
<1> DEFINE b == FrameByte(job, host.sent)
<1>1. boot.state = "WAIT_LENGTH_HI" /\ ~(b = 0 /\ boot.prog_length % LoSpan = 0) /\ b < 128
  BY DEF LengthPlain, NoProgram
<1>2. /\ b = IF job.regs = <<>> THEN Hi(job) ELSE Hi(job) + 128
      /\ b < 128 <=> job.regs = <<>>
      /\ (boot.prog_length % LoSpan) + LoSpan * (b % 16) = Len(job.prog)
      /\ boot.prog_length % LoSpan = Lo(job)
      /\ host.sent = 1 /\ RegsDone(0) /\ job \in Jobs
  BY <1>1, SecondByte
<1>3. job.regs = <<>> /\ Len(job.regs) = 0 /\ Len(job.prog) \in Nat /\ b = Hi(job)
  BY <1>1, <1>2, JobParts
<1>4. Len(job.prog) > 0
  <2>1. SUFFICES ASSUME Len(job.prog) = 0 PROVE FALSE
    BY <1>3
  <2>2. /\ 0 = LoSpan * Hi(job) + Lo(job) /\ Hi(job) \in 0 .. 15 /\ Lo(job) \in Nat
        /\ LoSpan \in Nat /\ LoSpan > 0
    BY <1>2, <2>1, LengthBytes, SizesAssumption
  <2>3. Hi(job) = 0 /\ Lo(job) = 0
    BY <2>2
  <2>4. QED
    BY <1>1, <1>2, <1>3, <2>3
<1> DEFINE p == Len(job.prog)
<1>5. boot' = [boot EXCEPT !.prog_length = p, !.state = "READ_BYTES", !.word_count = 0,
                           !.byte_count = 0, !.assembled_word = Zero]
  <2>1. boot \in BootRecord
    BY DEF Feeding, Loader
  <2>2. WithLength(b) = [boot EXCEPT !.prog_length = p]
    BY <1>2 DEF WithLength
  <2>3. boot' = [WithLength(b) EXCEPT !.state = "READ_BYTES", !.word_count = 0,
                                      !.byte_count = 0, !.assembled_word = Zero]
    BY DEF LengthPlain
  <2> HIDE DEF b, p
  <2>4. QED
    BY <2>1, <2>2, <2>3 DEF BootRecord
<1>6. /\ boot'.state = "READ_BYTES" /\ boot'.prog_length = p /\ boot'.word_count = 0
      /\ boot'.byte_count = 0 /\ boot' \in BootRecord
  <2>1. boot \in BootRecord /\ p \in Nat
    BY <1>3 DEF Feeding, Loader
  <2> HIDE DEF p, Zero, BootWord
  <2>2. boot' = [state |-> "READ_BYTES", prog_length |-> p, word_count |-> 0, byte_count |-> 0,
                 assembled_word |-> Zero, input_count |-> boot.input_count,
                 input_index |-> boot.input_index, input_reg_addr |-> boot.input_reg_addr]
    BY <1>5, <2>1 DEF BootRecord
  <2>3. QED
    BY <2>1, <2>2, ZeroIsWord DEF BootRecord, LoadStates
<1>7. regs' = regs /\ host'.job = job /\ host'.sent = 2
  BY <1>1, <1>2 DEF Feeding, Feeds
<1>8. /\ job' = job /\ FrameLen(job)' = FrameLen(job) /\ RegsEnd(job)' = RegsEnd(job)
      /\ Len(job.regs)' = 0 /\ Len(job.prog)' = p
  BY <1>3, <1>7, JobStays
<1>9. RegsDone(0)' /\ RegsEnd(job) = 2 /\ FrameLen(job) = 2 + 4 * p
  BY <1>2, <1>3, <1>7, RegsStay, FrameLength
<1>10. AtProgram'
  <2>1. RegsDone(Len(job.regs))'
    BY <1>8, <1>9 DEF RegsDone
  <2>2. ProgDone(boot.word_count)' /\ InWord(job.prog[boot.word_count + 1])'
    BY <1>6 DEF ProgDone, InWord
  <2>3. QED
    BY <1>3, <1>4, <1>6, <1>7, <1>8, <1>9, <2>1, <2>2 DEF AtProgram
<1>11. (host.sent < FrameLen(job))'
  BY <1>3, <1>4, <1>7, <1>8, <1>9
<1>12. QED
  BY <1>6, <1>10, <1>11 DEF Fed, Loader, LoadStates

LEMMA LengthExtendedFeeds ==
  ASSUME Feeding, LengthExtended(FrameByte(job, host.sent))
  PROVE  Fed
<1> DEFINE b == FrameByte(job, host.sent)
<1>1. boot.state = "WAIT_LENGTH_HI" /\ b >= 128 /\ b \in Byte
  BY DEF LengthExtended, Feeding
<1>2. /\ b < 128 <=> job.regs = <<>>
      /\ (boot.prog_length % LoSpan) + LoSpan * (b % 16) = Len(job.prog)
      /\ host.sent = 1 /\ RegsDone(0) /\ job \in Jobs
  BY <1>1, SecondByte
<1>3. job.regs # <<>> /\ Len(job.regs) \in Nat /\ Len(job.prog) \in Nat
  <2> HIDE DEF b
  <2>1. ~(b < 128)
    BY <1>1 DEF Byte
  <2>2. QED
    BY <1>2, <2>1, JobParts
<1> DEFINE p == Len(job.prog)
<1>4. boot' = [boot EXCEPT !.prog_length = p, !.state = "WAIT_REG_COUNT", !.input_index = 0]
  <2>1. boot \in BootRecord
    BY DEF Feeding, Loader
  <2>2. WithLength(b) = [boot EXCEPT !.prog_length = p]
    BY <1>2 DEF WithLength
  <2>3. boot' = [WithLength(b) EXCEPT !.state = "WAIT_REG_COUNT", !.input_index = 0]
    BY DEF LengthExtended
  <2> HIDE DEF b, p
  <2>4. QED
    BY <2>1, <2>2, <2>3 DEF BootRecord
<1>5. boot'.state = "WAIT_REG_COUNT" /\ boot'.prog_length = p /\ boot' \in BootRecord
  <2>1. boot \in BootRecord /\ p \in Nat
    BY <1>3 DEF Feeding, Loader
  <2> HIDE DEF p, Zero, BootWord
  <2>2. QED
    BY <1>4, <2>1 DEF BootRecord, LoadStates
<1>6. regs' = regs /\ host'.job = job /\ host'.sent = 2
  BY <1>1, <1>2 DEF Feeding, Feeds
<1>7. job' = job /\ FrameLen(job)' = FrameLen(job) /\ Len(job.prog)' = p
  BY <1>6, JobStays
<1>8. RegsDone(0)'
  BY <1>2, <1>6, RegsStay
<1>9. AtCount'
  BY <1>3, <1>5, <1>6, <1>7, <1>8 DEF AtCount
<1>10. 2 < FrameLen(job)
  <2> DEFINE n == Len(job.regs)
  <2>1. FrameLen(job) = 3 + 5 * n + 4 * p
    BY <1>2, <1>3, FrameLength
  <2>2. n \in Nat /\ p \in Nat
    BY <1>3
  <2> HIDE DEF n, p
  <2>3. QED
    BY <2>1, <2>2
<1>11. QED
  BY <1>5, <1>6, <1>7, <1>9, <1>10 DEF Fed, Loader, LoadStates

LEMMA RegCountFeeds ==
  ASSUME Feeding, RegCount(FrameByte(job, host.sent))
  PROVE  Fed
<1> DEFINE b == FrameByte(job, host.sent)
           n == Len(job.regs)
           p == Len(job.prog)
<1>1. /\ boot.prog_length = p /\ job.regs # <<>> /\ host.sent = 2 /\ RegsDone(0)
      /\ job \in Jobs /\ boot \in BootRecord /\ boot.state = "WAIT_REG_COUNT"
  BY DEF RegCount, Feeding, Loader, AtCount
<1>2. b = n /\ n \in 1 .. 16 /\ p \in Nat /\ n \in Nat
  <2>1. n \in 0 .. 16 /\ n # 0 /\ p \in Nat
    BY <1>1, JobParts
  <2>2. b = n
    BY <1>1, HeaderBytes
  <2> HIDE DEF n
  <2>3. QED
    BY <2>1, <2>2
<1>3. b % 32 = n /\ ~(n = 0)
  <2> HIDE DEF n, b
  <2>1. QED
    BY <1>2
<1>4. boot' = [state |-> "WAIT_REG_ADDR", prog_length |-> p, word_count |-> boot.word_count, byte_count |-> 0,
               assembled_word |-> Zero, input_count |-> n, input_index |-> 0,
               input_reg_addr |-> boot.input_reg_addr]
  <2>1. boot' = [boot EXCEPT !.input_count = n, !.input_index = 0, !.byte_count = 0,
                             !.assembled_word = Zero, !.state = "WAIT_REG_ADDR", !.word_count = boot.word_count]
    BY <1>3 DEF RegCount
  <2> HIDE DEF n, p, b, Zero
  <2>2. QED
    BY <1>1, <2>1 DEF BootRecord
<1>5. /\ boot'.state = "WAIT_REG_ADDR" /\ boot'.prog_length = p /\ boot'.input_count = n
      /\ boot'.input_index = 0 /\ boot' \in BootRecord
  <2> HIDE DEF n, p, b, Zero, BootWord
  <2>1. QED
    BY <1>1, <1>2, <1>4, ZeroIsWord DEF BootRecord, LoadStates
<1>6. regs' = regs /\ host'.job = job /\ host'.sent = 3
  BY <1>1 DEF Feeding, Feeds
<1>7. /\ job' = job /\ FrameLen(job)' = FrameLen(job) /\ Len(job.prog)' = p /\ Len(job.regs)' = n
      /\ RegsDone(0)'
  BY <1>1, <1>6, JobStays, RegsStay
<1>8. AtAddr'
  <2>1. 0 < n
    <3> HIDE DEF n
    <3>1. QED
      BY <1>2
  <2>2. RegsDone(boot.input_index)'
    BY <1>5, <1>7 DEF RegsDone
  <2>3. InRegs'
    BY <1>1, <1>5, <1>7, <2>1, <2>2 DEF InRegs
  <2>4. QED
    BY <1>5, <1>6, <2>3 DEF AtAddr
<1>9. 3 < FrameLen(job)
  <2>1. FrameLen(job) = 3 + 5 * n + 4 * p
    BY <1>1, FrameLength
  <2> HIDE DEF n, p
  <2>2. QED
    BY <1>2, <2>1
<1>10. QED
  BY <1>5, <1>6, <1>7, <1>8, <1>9 DEF Fed, Loader, LoadStates

LEMMA RegAddrFeeds ==
  ASSUME Feeding, RegAddr(FrameByte(job, host.sent))
  PROVE  Fed
<1> DEFINE b == FrameByte(job, host.sent)
           n == Len(job.regs)
           p == Len(job.prog)
           q == boot.input_index
<1>1. /\ InRegs /\ host.sent = 3 + 5 * q
      /\ job \in Jobs /\ boot \in BootRecord /\ boot.state = "WAIT_REG_ADDR"
  BY DEF RegAddr, Feeding, Loader, AtAddr
<1>2. q \in Nat /\ q < n /\ n \in Nat /\ p \in Nat
  BY <1>1, JobParts DEF InRegs, BootRecord
<1>3. b = job.regs[q + 1].reg
  BY <1>1, <1>2, RegisterBytes
<1>4. b \in BootReg
  <2>1. q + 1 \in 1 .. n
    <3> HIDE DEF q, n
    <3>1. QED
      BY <1>2
  <2>2. QED
    BY <1>1, <1>3, <2>1, JobParts
<1>5. boot' = [boot EXCEPT !.input_reg_addr = b, !.byte_count = 0,
                           !.assembled_word = Zero, !.state = "READ_REG_BYTES"]
  <2>1. b % 16 = b
    BY <1>4 DEF BootReg
  <2>2. QED
    BY <2>1 DEF RegAddr
<1>6. /\ boot'.state = "READ_REG_BYTES" /\ boot'.prog_length = boot.prog_length
      /\ boot'.input_count = boot.input_count /\ boot'.input_index = q /\ boot'.input_reg_addr = b
      /\ boot'.byte_count = 0 /\ boot' \in BootRecord
  <2> HIDE DEF b, n, p, Zero, BootWord, BootReg
  <2>1. boot' = [state |-> "READ_REG_BYTES", prog_length |-> boot.prog_length,
                 word_count |-> boot.word_count, byte_count |-> 0, assembled_word |-> Zero,
                 input_count |-> boot.input_count, input_index |-> q, input_reg_addr |-> b]
    BY <1>1, <1>5 DEF BootRecord
  <2>2. QED
    BY <1>1, <1>4, <2>1, ZeroIsWord DEF BootRecord, LoadStates
<1>7. regs' = regs /\ host'.job = job /\ host'.sent = 4 + 5 * q
  BY <1>1, <1>2 DEF Feeding, Feeds
<1>8. /\ job' = job /\ FrameLen(job)' = FrameLen(job) /\ Len(job.prog)' = p /\ Len(job.regs)' = n
  BY <1>7, JobStays
<1>9. InRegs'
  <2>1. RegsDone(q)'
    BY <1>1, <1>6, <1>7, <1>8 DEF InRegs, RegsDone
  <2>2. QED
    BY <1>1, <1>6, <1>8, <2>1 DEF InRegs
<1>10. AtRegister'
  <2>1. InWord(job.regs[boot.input_index + 1].word)'
    BY <1>6 DEF InWord
  <2>2. boot'.input_reg_addr = (job.regs[boot.input_index + 1].reg)'
    BY <1>3, <1>6, <1>8
  <2>3. host'.sent = 4 + 5 * q + 0
    BY <1>2, <1>7
  <2>4. QED
    BY <1>6, <1>9, <2>1, <2>2, <2>3 DEF AtRegister
<1>11. 4 + 5 * q < FrameLen(job)
  <2>1. FrameLen(job) = 3 + 5 * n + 4 * p
    BY <1>1, FrameLength DEF InRegs
  <2> HIDE DEF n, p, q
  <2>2. QED
    BY <1>2, <2>1
<1>12. QED
  BY <1>6, <1>7, <1>8, <1>10, <1>11 DEF Fed, Loader, LoadStates

-----------------------------------------------------------------------------
(* A word that takes one byte more.                                        *)
LEMMA WordGrows ==
  ASSUME boot \in BootRecord, NEW word \in BootWord, InWord(word), NEW b,
         b = word[boot.byte_count + 1]
  PROVE  /\ Assembled(b) \in BootWord
         /\ \A i \in 1 .. (boot.byte_count + 1) : Assembled(b)[i] = word[i]
<1> DEFINE w == boot.assembled_word
           c == boot.byte_count
<1>1. w \in [1 .. 4 -> Byte] /\ c \in 0 .. 3 /\ word \in [1 .. 4 -> Byte]
  BY DEF BootRecord, BootWord
<1>2. \A i \in 1 .. c : w[i] = word[i]
  BY DEF InWord
<1>3. Assembled(b) = [w EXCEPT ![c + 1] = b]
  BY DEF Assembled
<1> HIDE DEF w, c
<1>4. c + 1 \in 1 .. 4 /\ b \in Byte
  BY <1>1 DEF c
<1>5. \A i \in 1 .. (c + 1) : i \in 1 .. 4 /\ (i = c + 1 \/ i \in 1 .. c)
  BY <1>1
<1>6. [w EXCEPT ![c + 1] = b] \in [1 .. 4 -> Byte]
  BY <1>1, <1>4
<1>7. \A i \in 1 .. (c + 1) : [w EXCEPT ![c + 1] = b][i] = word[i]
  BY <1>1, <1>2, <1>4, <1>5 DEF c
<1>8. QED
  BY <1>3, <1>6, <1>7 DEF c, BootWord

LEMMA WholeWord ==
  ASSUME boot \in BootRecord, NEW word \in BootWord, InWord(word), boot.byte_count = 3
  PROVE  Assembled(word[boot.byte_count + 1]) = word
<1> DEFINE b == word[boot.byte_count + 1]
<1>1. Assembled(b) \in BootWord /\ \A i \in 1 .. (boot.byte_count + 1) : Assembled(b)[i] = word[i]
  BY WordGrows
<1>2. boot.byte_count + 1 = 4
  OBVIOUS
<1> HIDE DEF b
<1>3. \A i \in 1 .. 4 : Assembled(b)[i] = word[i]
  BY <1>1, <1>2
<1>4. QED
  BY <1>1, <1>3 DEF BootWord, b

LEMMA NextByteFeeds ==
  ASSUME Feeding, NextByte(FrameByte(job, host.sent))
  PROVE  Fed
<1> DEFINE b == FrameByte(job, host.sent)
           c == boot.byte_count
           n == Len(job.regs)
           p == Len(job.prog)
<1>1. /\ job \in Jobs /\ boot \in BootRecord /\ c \in 0 .. 2 /\ n \in Nat /\ p \in Nat
      /\ boot' = [boot EXCEPT !.assembled_word = Assembled(b), !.byte_count = c + 1]
      /\ regs' = regs /\ imem' = imem /\ host'.job = job /\ host'.sent = host.sent + 1
      /\ boot.state \in {"READ_REG_BYTES", "READ_BYTES"} /\ host.sent \in Nat
  <2>1. boot \in BootRecord /\ c # 3 /\ job \in Jobs
    BY DEF NextByte, Feeding, Loader
  <2>2. c \in 0 .. 2
    BY <2>1 DEF BootRecord
  <2>3. n \in Nat /\ p \in Nat
    BY <2>1, JobParts
  <2>4. QED
    BY <2>1, <2>2, <2>3 DEF NextByte, Feeding, Feeds
<1>2. /\ job' = job /\ FrameLen(job)' = FrameLen(job) /\ Len(job.prog)' = p /\ Len(job.regs)' = n
      /\ RegsEnd(job)' = RegsEnd(job)
  BY <1>1, JobStays
<1>3. ASSUME Assembled(b) \in BootWord
      PROVE  /\ boot'.state = boot.state /\ boot'.prog_length = boot.prog_length
             /\ boot'.word_count = boot.word_count /\ boot'.byte_count = c + 1
             /\ boot'.assembled_word = Assembled(b) /\ boot'.input_count = boot.input_count
             /\ boot'.input_index = boot.input_index /\ boot'.input_reg_addr = boot.input_reg_addr
             /\ boot' \in BootRecord
  <2> HIDE DEF b, BootWord, BootReg, c
  <2>1. c + 1 \in 0 .. 3
    BY <1>1
  <2>2. boot' = [state |-> boot.state, prog_length |-> boot.prog_length,
                 word_count |-> boot.word_count, byte_count |-> c + 1,
                 assembled_word |-> Assembled(b), input_count |-> boot.input_count,
                 input_index |-> boot.input_index, input_reg_addr |-> boot.input_reg_addr]
    BY <1>1 DEF BootRecord
  <2>3. QED
    BY <1>1, <1>3, <2>1, <2>2 DEF BootRecord
<1>4. CASE boot.state = "READ_REG_BYTES"
  <2> DEFINE q == boot.input_index
             word == job.regs[q + 1].word
  <2>1. /\ InRegs /\ host.sent = 4 + 5 * q + c /\ boot.input_reg_addr = job.regs[q + 1].reg
        /\ InWord(word) /\ q \in Nat /\ q < n
    BY <1>1, <1>4 DEF Feeding, Loader, AtRegister, InRegs, BootRecord
  <2>2. b = word[c + 1] /\ word \in BootWord
    <3>1. c \in 0 .. 3
      BY <1>1
    <3>2. q + 1 \in 1 .. n
      <4> HIDE DEF q, n
      <4>1. QED
        BY <1>1, <2>1
    <3> HIDE DEF q, c
    <3>3. FrameByte(job, 4 + 5 * q + c) = job.regs[q + 1].word[c + 1]
      BY <1>1, <2>1, <3>1, RegisterBytes
    <3>4. job.regs[q + 1].word \in BootWord
      BY <1>1, <3>2, JobParts
    <3>5. QED
      BY <2>1, <3>3, <3>4, Zenon
  <2>3. Assembled(b) \in BootWord /\ \A i \in 1 .. (c + 1) : Assembled(b)[i] = word[i]
    BY <1>1, <2>1, <2>2, WordGrows
  <2>4. InWord(job.regs[boot.input_index + 1].word)'
    BY <1>2, <1>3, <2>3 DEF InWord
  <2>5. InRegs'
    <3>1. RegsDone(boot.input_index)'
      BY <1>1, <1>2, <1>3, <2>1, <2>3 DEF InRegs, RegsDone
    <3>2. QED
      BY <1>2, <1>3, <2>1, <2>3, <3>1 DEF InRegs
  <2>6. host'.sent = 4 + 5 * q + (c + 1)
    <3> HIDE DEF q, c
    <3>1. QED
      BY <1>1, <2>1
  <2>7. AtRegister'
    BY <1>2, <1>3, <2>1, <2>3, <2>4, <2>5, <2>6 DEF AtRegister
  <2>8. host'.sent < FrameLen(job)
    <3>1. FrameLen(job) = 3 + 5 * n + 4 * p
      BY <1>1, <2>1, FrameLength DEF InRegs
    <3> HIDE DEF n, p, q, c
    <3>2. QED
      BY <1>1, <2>1, <2>6, <3>1
  <2>9. QED
    BY <1>2, <1>3, <1>4, <2>3, <2>7, <2>8 DEF Fed, Loader, LoadStates
<1>5. CASE boot.state = "READ_BYTES"
  <2> DEFINE q == boot.word_count
             word == job.prog[q + 1]
             e == RegsEnd(job)
  <2>1. /\ boot.prog_length = p /\ host.sent = e + 4 * q + c /\ RegsDone(n) /\ ProgDone(q)
        /\ InWord(word) /\ q \in Nat /\ q < p /\ e \in Nat
    BY <1>1, <1>5, FrameLength DEF Feeding, Loader, AtProgram, BootRecord
  <2>2. b = word[c + 1] /\ word \in BootWord
    <3>1. c \in 0 .. 3
      BY <1>1
    <3>2. q + 1 \in 1 .. p
      <4> HIDE DEF q, p
      <4>1. QED
        BY <1>1, <2>1
    <3> HIDE DEF q, c, e
    <3>3. FrameByte(job, e + 4 * q + c) = job.prog[q + 1][c + 1]
      BY <1>1, <2>1, <3>1, ProgramBytes DEF e
    <3>4. job.prog[q + 1] \in BootWord
      BY <1>1, <3>2, JobParts
    <3>5. QED
      BY <2>1, <3>3, <3>4, Zenon
  <2>3. Assembled(b) \in BootWord /\ \A i \in 1 .. (c + 1) : Assembled(b)[i] = word[i]
    BY <1>1, <2>1, <2>2, WordGrows
  <2>4. InWord(job.prog[boot.word_count + 1])'
    BY <1>2, <1>3, <2>3 DEF InWord
  <2>5. RegsDone(Len(job.regs))' /\ ProgDone(boot.word_count)'
    BY <1>1, <1>2, <1>3, <2>1, <2>3 DEF RegsDone, ProgDone
  <2>6. host'.sent = e + 4 * q + (c + 1)
    <3> HIDE DEF q, c, e
    <3>1. QED
      BY <1>1, <2>1
  <2>7. AtProgram'
    BY <1>2, <1>3, <2>1, <2>3, <2>4, <2>5, <2>6 DEF AtProgram
  <2>8. host'.sent < FrameLen(job)
    <3>1. FrameLen(job) = e + 4 * p
      BY <1>1, FrameLength
    <3> HIDE DEF p, q, c, e
    <3>2. QED
      BY <1>1, <2>1, <2>6, <3>1
  <2>9. QED
    BY <1>2, <1>3, <1>5, <2>3, <2>7, <2>8 DEF Fed, Loader, LoadStates
<1>6. QED
  BY <1>1, <1>4, <1>5

(* One register word more is in its place.                                 *)
LEMMA OneRegisterMore ==
  ASSUME job \in Jobs, host'.job = job, NEW q \in Nat, q < Len(job.regs), RegsDone(q),
         regs' = [regs EXCEPT ![job.regs[q + 1].reg] = job.regs[q + 1].word]
  PROVE  RegsDone(q + 1)'
<1> DEFINE n == Len(job.regs)
           a == job.regs[q + 1].reg
           w == job.regs[q + 1].word
<1>1. n \in Nat /\ q + 1 \in 1 .. n /\ job' = job
  <2>1. n \in Nat /\ q < n
    BY JobParts
  <2> HIDE DEF n
  <2>2. q + 1 \in 1 .. n
    BY <2>1
  <2>3. QED
    BY <2>1, <2>2 DEF job
<1>2. a \in BootReg /\ w \in BootWord
  BY <1>1, JobParts
<1>3. \A m \in 1 .. q : m \in 1 .. n /\ m # q + 1
  <2> HIDE DEF n
  <2>1. QED
    BY <1>1
<1>4. \A m \in 1 .. q : job.regs[m].reg # a
  <2>1. \A m, k \in 1 .. n : job.regs[m].reg = job.regs[k].reg => m = k
    BY JobsAssumption
  <2>2. QED
    BY <1>1, <1>3, <2>1
<1>5. /\ regs \in [BootReg -> BootWord] /\ \A m \in 1 .. q : regs[job.regs[m].reg] = job.regs[m].word
      /\ \A r \in BootReg : (\A m \in 1 .. q : job.regs[m].reg # r) => regs[r] = Zero
  BY DEF RegsDone
<1>6. regs' \in [BootReg -> BootWord] /\ regs'[a] = w /\ \A r \in BootReg : r # a => regs'[r] = regs[r]
  BY <1>2, <1>5
<1>7. \A m \in 1 .. q : job.regs[m].reg \in BootReg
  BY <1>3, JobParts
<1>8. \A m \in 1 .. (q + 1) : m \in 1 .. q \/ m = q + 1
  OBVIOUS
<1>9. \A m \in 1 .. q : m \in 1 .. (q + 1)
  OBVIOUS
<1>10. \A m \in 1 .. (q + 1) : regs'[job.regs[m].reg] = job.regs[m].word
  BY <1>4, <1>5, <1>6, <1>7, <1>8
<1>11. ASSUME NEW r \in BootReg, \A m \in 1 .. (q + 1) : job.regs[m].reg # r PROVE regs'[r] = Zero
  <2>1. q + 1 \in 1 .. (q + 1)
    OBVIOUS
  <2>2. r # a
    BY <1>11, <2>1
  <2>3. \A m \in 1 .. q : job.regs[m].reg # r
    BY <1>9, <1>11
  <2>4. QED
    BY <1>5, <1>6, <2>2, <2>3
<1>12. QED
  BY <1>1, <1>6, <1>10, <1>11 DEF RegsDone

LEMMA LastRegByteFeeds ==
  ASSUME Feeding, LastRegByte(FrameByte(job, host.sent))
  PROVE  Fed
<1> DEFINE b == FrameByte(job, host.sent)
           n == Len(job.regs)
           p == Len(job.prog)
           q == boot.input_index
           word == job.regs[q + 1].word
<1>1. /\ job \in Jobs /\ boot \in BootRecord /\ boot.state = "READ_REG_BYTES" /\ boot.byte_count = 3
      /\ InRegs /\ host.sent = 4 + 5 * q + 3 /\ boot.input_reg_addr = job.regs[q + 1].reg
      /\ InWord(word)
  BY DEF LastRegByte, Feeding, Loader, AtRegister
<1>2. /\ boot.prog_length = p /\ boot.input_count = n /\ q < n /\ q \in Nat /\ n \in 0 .. 16 /\ p \in Nat
      /\ job.regs # <<>> /\ RegsDone(q) /\ n # 0 /\ p # 0
  <2>1. n \in 0 .. 16 /\ p \in Nat /\ (p = 0 => n = 0) /\ (job.regs = <<>> <=> n = 0)
    BY <1>1, JobParts
  <2>2. QED
    BY <1>1, <2>1 DEF InRegs, BootRecord
<1>3. /\ (q + 1) % 32 = q + 1 /\ q + 1 \in Nat /\ (q + 1 = n \/ q + 1 < n) /\ q + 1 \in 1 .. n
      /\ host.sent + 1 = 3 + 5 * (q + 1)
  <2> HIDE DEF q, n
  <2>1. QED
    BY <1>1, <1>2
<1>4. Assembled(b) = word
  <2>1. word \in BootWord
    BY <1>1, <1>3, JobParts
  <2>2. b = word[4]
    <3>1. FrameByte(job, 4 + 5 * q + 3) = job.regs[q + 1].word[3 + 1]
      <4> HIDE DEF q
      <4>1. QED
        BY <1>1, <1>2, RegisterBytes
    <3>2. QED
      BY <1>1, <3>1
  <2>3. Assembled(word[boot.byte_count + 1]) = word
    BY <1>1, <2>1, WholeWord
  <2>4. boot.byte_count + 1 = 4
    BY <1>1
  <2> HIDE DEF b, word
  <2>5. QED
    BY <2>2, <2>3, <2>4
<1>5. /\ host'.job = job /\ host'.sent = host.sent + 1
      /\ regs' = [regs EXCEPT ![job.regs[q + 1].reg] = word]
  BY <1>1, <1>4 DEF Feeding, Feeds
<1>6. /\ job' = job /\ FrameLen(job)' = FrameLen(job) /\ Len(job.prog)' = p /\ Len(job.regs)' = n
      /\ RegsEnd(job)' = RegsEnd(job) /\ RegsEnd(job) = 3 + 5 * n /\ FrameLen(job) = RegsEnd(job) + 4 * p
  BY <1>1, <1>2, <1>5, JobStays, FrameLength
<1>7. \A k \in Nat : k = q + 1 => RegsDone(k)'
  BY <1>1, <1>2, <1>5, OneRegisterMore DEF RegsDone
<1>8. CASE q + 1 = n
  <2>1. boot' = [state |-> "READ_BYTES", prog_length |-> p, word_count |-> 0, byte_count |-> 0,
                 assembled_word |-> Zero, input_count |-> n, input_index |-> q + 1,
                 input_reg_addr |-> boot.input_reg_addr]
    <3>1. boot' = [boot EXCEPT !.input_index = q + 1, !.byte_count = 0, !.assembled_word = Zero,
                               !.state = "READ_BYTES", !.word_count = 0]
      BY <1>2, <1>3, <1>8 DEF LastRegByte
    <3> HIDE DEF n, p, q, Zero
    <3>2. QED
      BY <1>1, <1>2, <3>1 DEF BootRecord
  <2>2. /\ boot'.state = "READ_BYTES" /\ boot'.prog_length = p /\ boot'.word_count = 0
        /\ boot'.byte_count = 0 /\ boot' \in BootRecord
    <3> HIDE DEF n, p, q, Zero, BootWord
    <3>1. QED
      BY <1>1, <1>2, <1>3, <2>1, ZeroIsWord DEF BootRecord, LoadStates
  <2>3. RegsDone(Len(job.regs))'
    BY <1>3, <1>6, <1>7, <1>8 DEF RegsDone
  <2>4. ProgDone(boot.word_count)' /\ InWord(job.prog[boot.word_count + 1])'
    BY <2>2 DEF ProgDone, InWord
  <2>5. 0 < p /\ host'.sent = RegsEnd(job) + 4 * 0 + 0 /\ host'.sent < FrameLen(job)
    <3>1. RegsEnd(job) = 3 + 5 * (q + 1) /\ RegsEnd(job) \in Nat
      BY <1>1, <1>6, <1>8, FrameLength
    <3> HIDE DEF n, p, q
    <3>2. QED
      BY <1>2, <1>3, <1>5, <1>6, <3>1
  <2>6. AtProgram'
    BY <1>6, <2>2, <2>3, <2>4, <2>5 DEF AtProgram
  <2>7. QED
    BY <1>6, <2>2, <2>5, <2>6 DEF Fed, Loader, LoadStates
<1>9. CASE q + 1 < n
  <2>1. boot' = [state |-> "WAIT_REG_ADDR", prog_length |-> p, word_count |-> boot.word_count, byte_count |-> 0,
                 assembled_word |-> Zero, input_count |-> n, input_index |-> q + 1,
                 input_reg_addr |-> boot.input_reg_addr]
    <3>1. ~(q + 1 = n)
      <4> HIDE DEF n, q
      <4>1. QED
        BY <1>2, <1>9
    <3>2. boot' = [boot EXCEPT !.input_index = q + 1, !.byte_count = 0, !.assembled_word = Zero,
                               !.state = "WAIT_REG_ADDR", !.word_count = boot.word_count]
      BY <1>2, <1>3, <3>1 DEF LastRegByte
    <3> HIDE DEF n, p, q, Zero
    <3>3. QED
      BY <1>1, <1>2, <3>2 DEF BootRecord
  <2>2. /\ boot'.state = "WAIT_REG_ADDR" /\ boot'.prog_length = p /\ boot'.input_count = n
        /\ boot'.input_index = q + 1 /\ boot' \in BootRecord
    <3> HIDE DEF n, p, q, Zero, BootWord
    <3>1. QED
      BY <1>1, <1>2, <1>3, <2>1, ZeroIsWord DEF BootRecord, LoadStates
  <2>3. RegsDone(boot.input_index)'
    BY <1>3, <1>7, <2>2 DEF RegsDone
  <2>4. AtAddr'
    BY <1>2, <1>3, <1>5, <1>6, <1>9, <2>2, <2>3 DEF AtAddr, InRegs
  <2>5. host'.sent < FrameLen(job)
    <3> DEFINE e == RegsEnd(job)
    <3>1. e = 3 + 5 * n /\ FrameLen(job) = e + 4 * p /\ n \in Nat
      BY <1>2, <1>6
    <3> HIDE DEF n, p, q, e
    <3>2. QED
      BY <1>2, <1>3, <1>5, <1>9, <3>1
  <2>6. QED
    BY <1>6, <2>2, <2>4, <2>5 DEF Fed, Loader, LoadStates
<1>10. QED
  BY <1>3, <1>8, <1>9

LEMMA LastByteFeeds ==
  ASSUME Feeding, LastByte(FrameByte(job, host.sent))
  PROVE  Fed
<1> DEFINE b == FrameByte(job, host.sent)
           n == Len(job.regs)
           p == Len(job.prog)
           q == boot.word_count
           word == job.prog[q + 1]
           e == RegsEnd(job)
<1>1. /\ job \in Jobs /\ boot \in BootRecord /\ boot.state = "READ_BYTES" /\ boot.byte_count = 3
      /\ boot.prog_length = p /\ host.sent = e + 4 * q + 3 /\ RegsDone(n) /\ ProgDone(q)
      /\ InWord(word) /\ q < p /\ imem \in [0 .. (ImemWords - 1) -> BootWord]
  BY DEF LastByte, Feeding, Loader, AtProgram
<1>2. q \in Nat /\ p \in Nat /\ p < ImemWords /\ ImemWords \in Nat /\ e \in Nat /\ FrameLen(job) = e + 4 * p
  BY <1>1, JobParts, FrameLength, SizesAssumption DEF BootRecord
<1>3. /\ (q + 1) % ImemWords = q + 1 /\ q + 1 \in 1 .. p /\ q \in 0 .. (ImemWords - 1)
      /\ host.sent + 1 = e + 4 * (q + 1)
  <2> HIDE DEF q, p, e
  <2>1. q + 1 \in Nat /\ q + 1 < ImemWords /\ q + 1 \in 1 .. p /\ q \in 0 .. (ImemWords - 1)
    BY <1>1, <1>2
  <2>2. (q + 1) % ImemWords = q + 1
    BY <1>2, <2>1
  <2>3. host.sent + 1 = e + 4 * (q + 1)
    BY <1>1, <1>2
  <2>4. QED
    BY <2>1, <2>2, <2>3
<1>4. Assembled(b) = word /\ word \in BootWord
  <2>1. word \in BootWord
    BY <1>1, <1>3, JobParts
  <2>2. b = word[4]
    <3>1. FrameByte(job, e + 4 * q + 3) = job.prog[q + 1][3 + 1]
      <4> HIDE DEF q, e
      <4>1. QED
        BY <1>1, <1>2, ProgramBytes DEF e
    <3>2. QED
      BY <1>1, <3>1
  <2>3. Assembled(word[boot.byte_count + 1]) = word
    BY <1>1, <2>1, WholeWord
  <2>4. boot.byte_count + 1 = 4
    BY <1>1
  <2> HIDE DEF b, word
  <2>5. QED
    BY <2>1, <2>2, <2>3, <2>4
<1>5. /\ host'.job = job /\ host'.sent = host.sent + 1 /\ regs' = regs
      /\ imem' = [imem EXCEPT ![q] = word]
  BY <1>1, <1>4 DEF Feeding, Feeds
<1>6. /\ job' = job /\ FrameLen(job)' = FrameLen(job) /\ Len(job.prog)' = p /\ Len(job.regs)' = n
      /\ RegsEnd(job)' = e
  BY <1>5, JobStays
<1>7. RegsDone(Len(job.regs))'
  BY <1>1, <1>5, <1>6 DEF RegsDone
<1>8. \A a \in 1 .. (q + 1) : imem'[a - 1] = job.prog[a]
  <2>1. ASSUME NEW a \in 1 .. (q + 1) PROVE imem'[a - 1] = job.prog[a]
    <3>1. a - 1 \in 0 .. (ImemWords - 1) /\ (a - 1 = q => a = q + 1) /\ (a - 1 # q => a \in 1 .. q)
      <4> HIDE DEF q
      <4>1. QED
        BY <1>2, <1>3
    <3>2. imem'[a - 1] = IF a - 1 = q THEN word ELSE imem[a - 1]
      BY <1>1, <1>5, <3>1
    <3>3. QED
      BY <1>1, <3>1, <3>2 DEF ProgDone
  <2>2. QED
    BY <2>1
<1>9. boot' = [boot EXCEPT !.word_count = q + 1, !.byte_count = 0, !.assembled_word = word,
                           !.state = IF q + 1 = p THEN "DONE" ELSE "READ_BYTES"]
  BY <1>1, <1>3, <1>4 DEF LastByte
<1>10. CASE q + 1 = p
  <2>1. boot'.state = "DONE"
    BY <1>1, <1>9, <1>10 DEF BootRecord
  <2>2. ProgDone(Len(job.prog))'
    BY <1>6, <1>8, <1>10 DEF ProgDone
  <2>3. Holds(job)'
    BY <1>1, <1>6, <1>7, <2>2, HoldsWhenDone
  <2>4. host'.sent = FrameLen(job)
    <3> HIDE DEF p, q, e
    <3>1. QED
      BY <1>2, <1>3, <1>5, <1>10
  <2>5. QED
    BY <1>6, <2>1, <2>3, <2>4 DEF Fed, Loaded, boot_done
<1>11. CASE q + 1 # p
  <2>1. boot' = [state |-> "READ_BYTES", prog_length |-> p, word_count |-> q + 1, byte_count |-> 0,
                 assembled_word |-> word, input_count |-> boot.input_count,
                 input_index |-> boot.input_index, input_reg_addr |-> boot.input_reg_addr]
    <3> HIDE DEF p, q, word
    <3>1. QED
      BY <1>1, <1>9, <1>11 DEF BootRecord
  <2>2. /\ boot'.state = "READ_BYTES" /\ boot'.prog_length = p /\ boot'.word_count = q + 1
        /\ boot'.byte_count = 0 /\ boot' \in BootRecord
    <3> HIDE DEF p, q, word, BootWord
    <3>1. q + 1 \in Nat
      BY <1>2
    <3>2. QED
      BY <1>1, <1>2, <1>4, <2>1, <3>1 DEF BootRecord, LoadStates
  <2>3. ProgDone(boot.word_count)' /\ InWord(job.prog[boot.word_count + 1])'
    BY <1>6, <1>8, <2>2 DEF ProgDone, InWord
  <2>4. /\ q + 1 < p /\ host'.sent = e + 4 * (q + 1) + 0 /\ host'.sent < FrameLen(job)
    <3> HIDE DEF p, q, e
    <3>1. QED
      BY <1>2, <1>3, <1>5, <1>11
  <2>5. AtProgram'
    BY <1>6, <1>7, <2>2, <2>3, <2>4 DEF AtProgram
  <2>6. QED
    BY <1>6, <2>2, <2>4, <2>5 DEF Fed, Loader, LoadStates
<1>12. QED
  BY <1>10, <1>11

(* Every byte of a frame, in the loader that has taken those before it.    *)
LEMMA LoaderFeeds ==
  ASSUME Feeding, Take(FrameByte(job, host.sent))
  PROVE  Fed
BY LengthLoFeeds, LengthEmptyFeeds, LengthExtendedFeeds, LengthPlainFeeds, RegCountFeeds, RegAddrFeeds,
   NextByteFeeds, LastRegByteFeeds, LastByteFeeds DEF Take

-----------------------------------------------------------------------------
(* The host and the board together.  The hypotheses: a host waits long     *)
(* enough after 0x0B, and sends it to boards that are halted.              *)
PatientHost == RearmGap >= 3 /\ ~BlindRearm

Phases == {"fresh", "rearm", "frame", "sent", "aborted"}

BoardTyped ==
    /\ host \in [phase : Phases, soft : BOOLEAN, job : Jobs \cup {NoJob}, sent : Nat, gap : Nat]
    /\ host.phase \in {"rearm", "frame"} => job \in Jobs
    /\ imem \in [0 .. (ImemWords - 1) -> BootWord]
    /\ rearm_count \in 0 .. 2
    /\ in \in [valid : BOOLEAN, data : Byte]

(* The receive buffer holds a byte only after 0x0B and before it is taken. *)
RearmWaits == /\ rearm_count = 0 /\ boot_done /\ cpu = "cmd"
              /\ in.valid /\ in.data = REARM
InBuffer   == in.valid => RearmWaits /\ host.phase \in {"frame", "aborted"}

(* The host that has sent 0x0B: its command waits, or the pulse is on and  *)
(* ends before the first byte of the frame, or the loader takes bytes.     *)
BeforePulse == RearmWaits /\ host.sent = 0 /\ host.gap >= 3
InPulse     == rearm_count # 0 /\ host.sent = 0 /\ host.gap >= rearm_count
AfterPulse  == rearm_count = 0 /\ Loader /\ host.sent < FrameLen(job)

Cold  == rearm_count = 0 /\ boot = ResetBoot /\ regs = Cleared
Phased == /\ host.phase = "fresh" => Cold
          /\ host.phase = "rearm" => rearm_count = 0 /\ boot_done /\ cpu = "cmd" /\ host.sent = 0
          /\ host.phase = "frame" => BeforePulse \/ InPulse \/ AfterPulse
          /\ host.phase = "sent"  => rearm_count = 0 /\ boot_done
          /\ rearm_count # 0 => boot = ResetBoot /\ regs = Cleared

BoardInv == BoardTyped /\ InBuffer /\ Phased

-----------------------------------------------------------------------------
LEMMA Idles ==
  ASSUME BoardTyped, NEW rx, SendsNothing(rx)
  PROVE  /\ host'.phase = host.phase /\ host'.job = host.job /\ host'.sent = host.sent
         /\ host'.gap = IF host.gap = 0 THEN 0 ELSE host.gap - 1
         /\ host' \in [phase : Phases, soft : BOOLEAN, job : Jobs \cup {NoJob}, sent : Nat, gap : Nat]
         /\ host.sent \in Nat /\ host.gap \in Nat
<1> DEFINE g == IF host.gap = 0 THEN 0 ELSE host.gap - 1
<1>1. host \in [phase : Phases, soft : BOOLEAN, job : Jobs \cup {NoJob}, sent : Nat, gap : Nat]
  BY DEF BoardTyped
<1>2. host' = [host EXCEPT !.gap = g]
  BY DEF SendsNothing
<1>3. g \in Nat
  BY <1>1
<1> HIDE DEF g
<1>4. host' = [phase |-> host.phase, soft |-> host.soft, job |-> host.job, sent |-> host.sent, gap |-> g]
  BY <1>1, <1>2
<1>5. /\ host'.phase = host.phase /\ host'.job = host.job /\ host'.sent = host.sent /\ host'.gap = g
      /\ host' \in [phase : Phases, soft : BOOLEAN, job : Jobs \cup {NoJob}, sent : Nat, gap : Nat]
  BY <1>1, <1>3, <1>4
<1>6. QED
  BY <1>1, <1>5 DEF g

LEMMA ResetIsWaiting ==
  /\ ResetBoot.state = "WAIT_LENGTH_LO" /\ ResetBoot \in BootRecord
  /\ Cleared \in [BootReg -> BootWord] /\ \A r \in BootReg : Cleared[r] = Zero
<1> HIDE DEF Zero, BootWord
<1>1. ResetBoot.state = "WAIT_LENGTH_LO" /\ ResetBoot \in BootRecord
  BY ZeroIsWord DEF ResetBoot, BootRecord, LoadStates, BootReg
<1>2. QED
  BY <1>1, ZeroIsWord DEF Cleared

(* A loader in reset has taken nothing of any frame.                       *)
LEMMA LoaderStarts ==
  ASSUME boot' = ResetBoot, regs' = Cleared, host'.sent = 0, host'.job \in Jobs
  PROVE  Loader' /\ (host.sent < FrameLen(job))'
<1>1. RegsDone(0)'
  BY ResetIsWaiting DEF RegsDone
<1>2. AtStart'
  BY <1>1 DEF AtStart
<1>3. Loader'
  BY <1>2, ResetIsWaiting DEF Loader, LoadStates
<1>4. \A j \in Jobs : 0 < FrameLen(j)
  <2>1. SUFFICES ASSUME NEW j \in Jobs PROVE 0 < FrameLen(j)
    OBVIOUS
  <2> DEFINE n == Len(j.regs)  p == Len(j.prog)
  <2>2. n \in Nat /\ p \in Nat
    BY JobParts
  <2>3. FrameLen(j) = Parts(j) + 5 * n + 4 * p
    BY HeaderBytes DEF FrameLen
  <2> HIDE DEF n, p
  <2>4. QED
    BY <2>2, <2>3 DEF Parts
<1>5. (0 < FrameLen(job))'
  BY <1>4 DEF job
<1>6. QED
  BY <1>3, <1>5

(* The loader at work: a byte of the frame comes, or none.                 *)
LEMMA LoadingByte ==
  ASSUME BoardInv, rearm_count = 0, ~boot_done, NEW rx \in RxBytes, SendsByte(rx), BootClock(rx),
         imem' = IF boot_we(rx) THEN [imem EXCEPT ![boot.word_count] = Assembled(rx.data)] ELSE imem,
         regs' = IF boot_reg_we(rx) THEN [regs EXCEPT ![boot.input_reg_addr] = Assembled(rx.data)] ELSE regs,
         UNCHANGED <<rearm_count, cpu, in>>
  PROVE  BoardInv' /\ (boot_done' => host'.phase = "sent" /\ Holds(host.job)')
<1> DEFINE b == FrameByte(job, host.sent)
           HostType == [phase : Phases, soft : BOOLEAN, job : Jobs \cup {NoJob}, sent : Nat, gap : Nat]
<1>1. /\ host.phase = "frame" /\ host.gap = 0 /\ rx.valid /\ rx.data = b /\ b \in Byte
      /\ host \in HostType /\ job \in Jobs
  <2>1. rx.valid /\ rx.data = FrameByte(host.job, host.sent)
    BY DEF SendsByte
  <2>2. rx.data \in Byte
    <3>1. rx # Silent
      BY <2>1 DEF Silent, Empty
    <3>2. rx \in [valid : {TRUE}, data : Byte]
      BY <3>1 DEF RxBytes
    <3>3. QED
      BY <3>2
  <2>3. QED
    BY <2>1, <2>2 DEF SendsByte, job, BoardInv, BoardTyped
<1>2. AfterPulse
  BY <1>1 DEF BoardInv, Phased, BeforePulse, RearmWaits, InPulse
<1>3. Take(b)
  BY <1>1 DEF BootClock
<1>4. /\ host' = [phase |-> IF host.sent + 1 = FrameLen(job) THEN "sent" ELSE "frame", soft |-> host.soft,
                  job |-> host.job, sent |-> host.sent + 1, gap |-> host.gap]
  BY <1>1 DEF SendsByte, job
<1>5. /\ host'.job = job /\ host'.sent = host.sent + 1 /\ host.sent \in Nat
      /\ host'.phase = IF host.sent + 1 = FrameLen(job) THEN "sent" ELSE "frame"
      /\ host' \in HostType
  BY <1>1, <1>4 DEF job, Phases
<1>6. Feeding
  <2>1. boot_we(rx) <=> boot.state = "READ_BYTES" /\ boot.byte_count = 3
    BY <1>1 DEF boot_we
  <2>2. boot_reg_we(rx) <=> boot.state = "READ_REG_BYTES" /\ boot.byte_count = 3
    BY <1>1 DEF boot_reg_we
  <2>3. Feeds
    BY <1>1, <1>5, <2>1, <2>2 DEF Feeds
  <2>4. QED
    BY <1>1, <1>2, <1>5, <2>3 DEF Feeding, AfterPulse, BoardInv, BoardTyped
<1>7. Fed
  BY <1>3, <1>6, LoaderFeeds
<1>8. ~in.valid
  BY DEF BoardInv, InBuffer, RearmWaits
<1>9. BoardTyped'
  <2>1. imem' \in [0 .. (ImemWords - 1) -> BootWord]
    <3>1. Assembled(b) \in BootWord
      BY <1>1, <1>2 DEF AfterPulse, Loader, BootRecord, BootWord, Assembled
    <3> HIDE DEF b, BootWord
    <3>2. QED
      BY <1>1, <3>1 DEF BoardInv, BoardTyped
  <2>2. QED
    BY <1>1, <1>5, <2>1 DEF BoardInv, BoardTyped, job
<1>10. InBuffer'
  BY <1>8 DEF InBuffer
<1>11. job' = job /\ FrameLen(job)' = FrameLen(job)
  BY <1>5, JobStays
<1>12. CASE Loader' /\ (host.sent < FrameLen(job))'
  <2>1. ~boot_done'
    BY <1>12 DEF Loader, LoadStates, boot_done
  <2>2. host'.phase = "frame"
    <3>1. host.sent + 1 < FrameLen(job)
      BY <1>5, <1>11, <1>12
    <3>2. FrameLen(job) # host.sent + 1
      BY <1>5, <3>1
    <3>3. QED
      BY <1>5, <3>2
  <2>3. AfterPulse'
    BY <1>12 DEF AfterPulse
  <2>4. Phased'
    BY <2>2, <2>3 DEF Phased
  <2>5. QED
    BY <1>9, <1>10, <2>1, <2>4 DEF BoardInv
<1>13. CASE Loaded'
  <2>1. host'.phase = "sent" /\ boot_done'
    BY <1>5, <1>11, <1>13 DEF Loaded
  <2>2. Phased'
    BY <2>1 DEF Phased
  <2>3. Holds(host.job)'
    BY <1>13 DEF Loaded, job
  <2>4. QED
    BY <1>9, <1>10, <2>1, <2>2, <2>3 DEF BoardInv
<1>14. QED
  BY <1>7, <1>12, <1>13 DEF Fed

LEMMA LoadingNothing ==
  ASSUME BoardInv, rearm_count = 0, ~boot_done, NEW rx, SendsNothing(rx), BootClock(rx),
         imem' = IF boot_we(rx) THEN [imem EXCEPT ![boot.word_count] = Assembled(rx.data)] ELSE imem,
         regs' = IF boot_reg_we(rx) THEN [regs EXCEPT ![boot.input_reg_addr] = Assembled(rx.data)] ELSE regs,
         UNCHANGED <<rearm_count, cpu, in>>
  PROVE  BoardInv' /\ ~boot_done'
<1>1. ~rx.valid
  BY DEF SendsNothing, Silent, Empty
<1>2. boot' = boot /\ imem' = imem /\ regs' = regs
  BY <1>1 DEF BootClock, boot_we, boot_reg_we
<1>3. /\ host'.phase = host.phase /\ host'.job = host.job /\ host'.sent = host.sent
      /\ host' \in [phase : Phases, soft : BOOLEAN, job : Jobs \cup {NoJob}, sent : Nat, gap : Nat]
  BY Idles DEF BoardInv
<1>4. BoardTyped' /\ InBuffer' /\ ~boot_done'
  <2>1. BoardTyped'
    BY <1>2, <1>3 DEF BoardInv, BoardTyped, job
  <2>2. ~boot_done'
    BY <1>2 DEF boot_done
  <2>3. ~in.valid
    BY DEF BoardInv, InBuffer, RearmWaits
  <2>4. InBuffer'
    BY <2>3 DEF InBuffer
  <2>5. QED
    BY <2>1, <2>2, <2>4
<1>5. Phased'
  <2>1. job' = job /\ host'.phase \notin {"rearm", "sent"}
    BY <1>3 DEF BoardInv, Phased, job
  <2>2. host'.phase = "frame" => AfterPulse'
    <3>1. SUFFICES ASSUME host.phase = "frame" PROVE AfterPulse'
      BY <1>3
    <3>2. AfterPulse
      BY <3>1 DEF BoardInv, Phased, BeforePulse, RearmWaits, InPulse
    <3>3. FrameLen(job)' = FrameLen(job)
      BY <1>3, JobStays DEF job
    <3>4. Loader'
      <4>1. RegsEnd(job)' = RegsEnd(job) /\ Lo(job)' = Lo(job)
        BY <1>3, JobStays DEF job
      <4>2. RegsDone(0)' <=> RegsDone(0)
        BY <1>2, <2>1 DEF RegsDone
      <4>3. AtStart' <=> AtStart
        BY <1>2, <1>3, <4>2 DEF AtStart
      <4>4. AtLength' <=> AtLength
        BY <1>2, <1>3, <4>1, <4>2 DEF AtLength
      <4>5. AtCount' <=> AtCount
        BY <1>2, <1>3, <2>1, <4>2 DEF AtCount
      <4>6. InRegs' <=> InRegs
        BY <1>2, <2>1 DEF InRegs, RegsDone
      <4>7. AtAddr' <=> AtAddr
        BY <1>2, <1>3, <4>6 DEF AtAddr
      <4>8. AtRegister' <=> AtRegister
        BY <1>2, <1>3, <2>1, <4>6 DEF AtRegister, InWord
      <4>9. AtProgram' <=> AtProgram
        <5>1. RegsDone(Len(job.regs))' <=> RegsDone(Len(job.regs))
          BY <1>2, <2>1 DEF RegsDone
        <5>2. ProgDone(boot.word_count)' <=> ProgDone(boot.word_count)
          BY <1>2, <2>1 DEF ProgDone
        <5>3. InWord(job.prog[boot.word_count + 1])' <=> InWord(job.prog[boot.word_count + 1])
          BY <1>2, <2>1 DEF InWord
        <5>4. QED
          BY <1>2, <1>3, <2>1, <4>1, <5>1, <5>2, <5>3 DEF AtProgram
      <4>10. QED
        BY <1>2, <3>2, <4>3, <4>4, <4>5, <4>7, <4>8, <4>9 DEF AfterPulse, Loader
    <3>5. QED
      BY <1>3, <3>2, <3>3, <3>4 DEF AfterPulse
  <2>3. host'.phase = "fresh" => Cold'
    BY <1>2, <1>3 DEF BoardInv, Phased, Cold
  <2>4. QED
    BY <2>1, <2>2, <2>3 DEF Phased
<1>6. QED
  BY <1>4, <1>5 DEF BoardInv

LEMMA LoadingKeeps ==
  ASSUME BoardInv, Loading
  PROVE  BoardInv' /\ (boot_done' => host'.phase = "sent" /\ Holds(host.job)')
<1>1. PICK rx \in RxBytes :
          /\ Arrives(rx) /\ BootClock(rx)
          /\ imem' = IF boot_we(rx) THEN [imem EXCEPT ![boot.word_count] = Assembled(rx.data)] ELSE imem
          /\ regs' = IF boot_reg_we(rx) THEN [regs EXCEPT ![boot.input_reg_addr] = Assembled(rx.data)] ELSE regs
  BY DEF Loading
<1>2. rearm_count = 0 /\ ~boot_done /\ UNCHANGED <<rearm_count, cpu, in>>
  BY DEF Loading
<1>3. CASE SendsByte(rx)
  BY <1>1, <1>2, <1>3, LoadingByte
<1>4. CASE SendsNothing(rx)
  BY <1>1, <1>2, <1>4, LoadingNothing
<1>5. ~SendsRearm(rx)
  BY <1>2 DEF SendsRearm, BoardInv, Phased
<1>6. QED
  BY <1>1, <1>3, <1>4, <1>5 DEF Arrives

(* A program that runs meets a host that is done or gone.                  *)
LEMMA RunningKeeps ==
  ASSUME BoardInv, Running
  PROVE  BoardInv' /\ boot_done
<1>1. PICK rx \in RxBytes, ack \in BOOLEAN : Arrives(rx) /\ Buffered(rx, ack)
  BY DEF Running
<1>2. rearm_count = 0 /\ boot_done /\ cpu = "run" /\ UNCHANGED <<boot, imem, rearm_count>>
  BY DEF Running
<1>3. ~in.valid
  BY <1>2 DEF BoardInv, InBuffer, RearmWaits
<1>4. host.phase \in {"sent", "aborted"}
  <2>1. host.phase \in Phases /\ host.phase # "rearm"
    BY <1>2 DEF BoardInv, BoardTyped, Phased
  <2>2. host.phase # "fresh"
    BY <1>2, ResetIsWaiting DEF BoardInv, Phased, Cold, boot_done
  <2>3. host.phase # "frame"
    BY <1>2 DEF BoardInv, Phased, BeforePulse, RearmWaits, InPulse, AfterPulse, Loader, LoadStates, boot_done
  <2>4. QED
    BY <2>1, <2>2, <2>3 DEF Phases
<1>5. SendsNothing(rx)
  BY <1>1, <1>4 DEF Arrives, SendsRearm, SendsByte
<1>6. /\ host'.phase = host.phase /\ host'.job = host.job
      /\ host' \in [phase : Phases, soft : BOOLEAN, job : Jobs \cup {NoJob}, sent : Nat, gap : Nat]
  BY <1>5, Idles DEF BoardInv
<1>7. in' \in [valid : BOOLEAN, data : Byte] /\ ~in'.valid
  <2>1. ~rx.valid
    BY <1>5 DEF SendsNothing, Silent, Empty
  <2>2. in' = [in EXCEPT !.valid = in.valid /\ ~ack]
    BY <1>1, <2>1 DEF Buffered
  <2>3. in \in [valid : BOOLEAN, data : Byte]
    BY DEF BoardInv, BoardTyped
  <2>4. in' = [valid |-> FALSE, data |-> in.data]
    BY <1>3, <2>2, <2>3
  <2>5. QED
    BY <2>3, <2>4
<1>8. BoardTyped' /\ InBuffer'
  BY <1>2, <1>4, <1>6, <1>7 DEF BoardInv, BoardTyped, InBuffer
<1>9. Phased'
  BY <1>2, <1>4, <1>6 DEF Phased, boot_done
<1>10. QED
  BY <1>2, <1>8, <1>9 DEF BoardInv

(* 0x0B reaches a monitor that waits for a command.                        *)
LEMMA MonitoringKeeps ==
  ASSUME BoardInv, PatientHost, Monitoring
  PROVE  BoardInv' /\ boot_done
<1>1. PICK rx \in RxBytes : Arrives(rx) /\ Buffered(rx, TRUE)
  BY DEF Monitoring
<1>2. /\ rearm_count = 0 /\ boot_done /\ cpu = "cmd" /\ ~(in.valid /\ in.data = REARM)
      /\ UNCHANGED <<boot, imem, regs, rearm_count, cpu>>
  BY DEF Monitoring
<1>3. ~in.valid
  BY <1>2 DEF BoardInv, InBuffer, RearmWaits
<1>4. host.phase \in {"rearm", "sent", "aborted"}
  <2>1. host.phase \in Phases
    BY DEF BoardInv, BoardTyped
  <2>2. host.phase # "fresh"
    BY <1>2, ResetIsWaiting DEF BoardInv, Phased, Cold, boot_done
  <2>3. host.phase # "frame"
    BY <1>2, <1>3 DEF BoardInv, Phased, BeforePulse, RearmWaits, InPulse, AfterPulse, Loader, LoadStates, boot_done
  <2>4. QED
    BY <2>1, <2>2, <2>3 DEF Phases
<1> DEFINE HostType == [phase : Phases, soft : BOOLEAN, job : Jobs \cup {NoJob}, sent : Nat, gap : Nat]
<1>5. CASE SendsNothing(rx)
  <2>1. /\ host'.phase = host.phase /\ host'.job = host.job /\ host'.sent = host.sent /\ host' \in HostType
    BY <1>5, Idles DEF BoardInv
  <2>2. in' \in [valid : BOOLEAN, data : Byte] /\ ~in'.valid
    <3>1. ~rx.valid
      BY <1>5 DEF SendsNothing, Silent, Empty
    <3>2. in' = [in EXCEPT !.valid = in.valid /\ ~TRUE]
      BY <1>1, <3>1 DEF Buffered
    <3>3. in \in [valid : BOOLEAN, data : Byte]
      BY DEF BoardInv, BoardTyped
    <3>4. in' = [valid |-> FALSE, data |-> in.data]
      BY <1>3, <3>2, <3>3
    <3>5. QED
      BY <3>3, <3>4
  <2>3. BoardTyped' /\ InBuffer'
    BY <1>2, <2>1, <2>2 DEF BoardInv, BoardTyped, InBuffer, job
  <2>4. Phased'
    BY <1>2, <1>4, <2>1 DEF BoardInv, Phased, boot_done
  <2>5. QED
    BY <1>2, <2>3, <2>4 DEF BoardInv
<1>6. CASE SendsRearm(rx)
  <2>1. host.phase = "rearm" /\ rx.valid /\ rx.data = REARM
    BY <1>6 DEF SendsRearm
  <2>2. host' = [phase |-> "frame", soft |-> host.soft, job |-> host.job, sent |-> host.sent, gap |-> RearmGap]
    BY <1>6 DEF SendsRearm, BoardInv, BoardTyped
  <2>3. host' \in HostType /\ host'.phase = "frame" /\ host'.job = job /\ host'.gap >= 3 /\ host'.sent = 0 /\ job \in Jobs
    <3>1. host \in HostType /\ job \in Jobs
      BY <2>1 DEF BoardInv, BoardTyped, job
    <3>2. RearmGap \in Nat /\ RearmGap >= 3
      BY SizesAssumption DEF PatientHost
    <3>3. host.sent = 0
      BY <2>1 DEF BoardInv, Phased
    <3>4. QED
      BY <2>2, <3>1, <3>2, <3>3 DEF job, Phases
  <2>4. in' = rx
    BY <1>1, <2>1 DEF Buffered
  <2>5. in' \in [valid : BOOLEAN, data : Byte] /\ in'.valid /\ in'.data = REARM
    <3>1. rx = [valid |-> TRUE, data |-> REARM]
      BY <1>6 DEF SendsRearm
    <3>2. QED
      BY <2>4, <3>1 DEF REARM, Byte
  <2>6. RearmWaits'
    BY <1>2, <2>5 DEF RearmWaits, boot_done
  <2>7. BoardTyped' /\ InBuffer'
    BY <1>2, <2>3, <2>5, <2>6 DEF BoardInv, BoardTyped, InBuffer, job
  <2>8. Phased'
    BY <1>2, <2>3, <2>6 DEF Phased, BeforePulse
  <2>9. QED
    BY <1>2, <2>7, <2>8 DEF BoardInv
<1>7. QED
  BY <1>1, <1>4, <1>5, <1>6 DEF Arrives, SendsByte

(* What the pulse resets.                                                  *)
LEMMA PulseResets ==
  ASSUME InReset
  PROVE  /\ boot' = ResetBoot /\ regs' = Cleared /\ imem' = imem /\ ~boot_done'
         /\ in' \in [valid : BOOLEAN, data : Byte] /\ ~in'.valid
<1>1. boot' = ResetBoot /\ regs' = Cleared /\ imem' = imem /\ in' = Empty
  BY DEF InReset
<1>2. ~boot_done'
  BY <1>1, ResetIsWaiting DEF boot_done
<1>3. QED
  BY <1>1, <1>2 DEF Empty, Byte

LEMMA RearmKeeps ==
  ASSUME BoardInv, Rearm
  PROVE  BoardInv' /\ ~boot_done'
<1>1. PICK rx \in RxBytes : Arrives(rx)
  BY DEF Rearm
<1>2. rearm_count = 0 /\ boot_done /\ in.valid /\ rearm_count' = 2 /\ InReset
  BY DEF Rearm
<1>3. host.phase \in {"frame", "aborted"}
  BY <1>2 DEF BoardInv, InBuffer
<1>4. host.phase = "frame" => host.sent = 0 /\ host.gap >= 3
  BY <1>2 DEF BoardInv, Phased, BeforePulse, InPulse, AfterPulse, Loader, LoadStates, boot_done
<1>5. SendsNothing(rx)
  <2>1. host.gap \in Nat
    BY DEF BoardInv, BoardTyped
  <2>2. ~SendsByte(rx)
    BY <1>4, <2>1 DEF SendsByte
  <2>3. QED
    BY <1>1, <1>3, <2>2 DEF Arrives, SendsRearm
<1>6. /\ host'.phase = host.phase /\ host'.job = host.job /\ host'.sent = host.sent
      /\ host'.gap = IF host.gap = 0 THEN 0 ELSE host.gap - 1
      /\ host' \in [phase : Phases, soft : BOOLEAN, job : Jobs \cup {NoJob}, sent : Nat, gap : Nat]
      /\ host.gap \in Nat
  BY <1>5, Idles DEF BoardInv
<1>7. BoardTyped' /\ InBuffer'
  BY <1>2, <1>6, PulseResets DEF BoardInv, BoardTyped, InBuffer, job
<1>8. Phased'
  <2>1. host'.phase = "frame" => InPulse'
    BY <1>2, <1>4, <1>6 DEF InPulse
  <2>2. QED
    BY <1>2, <1>3, <1>6, <2>1, PulseResets DEF Phased
<1>9. QED
  BY <1>2, <1>7, <1>8, PulseResets DEF BoardInv

LEMMA RearmingKeeps ==
  ASSUME BoardInv, Rearming
  PROVE  BoardInv' /\ ~boot_done'
<1>1. PICK rx \in RxBytes : Arrives(rx)
  BY DEF Rearming
<1>2. rearm_count \in 1 .. 2 /\ rearm_count' = rearm_count - 1 /\ InReset
  BY DEF Rearming, BoardInv, BoardTyped
<1>3. host.phase \in {"frame", "aborted"}
  <2>1. host.phase \in Phases
    BY DEF BoardInv, BoardTyped
  <2>2. QED
    BY <1>2, <2>1 DEF BoardInv, Phased, Phases, Cold
<1>4. host.phase = "frame" => host.sent = 0 /\ host.gap >= rearm_count
  BY <1>2 DEF BoardInv, Phased, BeforePulse, RearmWaits, InPulse, AfterPulse
<1>5. SendsNothing(rx)
  <2>1. host.gap \in Nat
    BY DEF BoardInv, BoardTyped
  <2>2. ~SendsByte(rx)
    BY <1>2, <1>4, <2>1 DEF SendsByte
  <2>3. QED
    BY <1>1, <1>3, <2>2 DEF Arrives, SendsRearm
<1>6. /\ host'.phase = host.phase /\ host'.job = host.job /\ host'.sent = host.sent
      /\ host'.gap = IF host.gap = 0 THEN 0 ELSE host.gap - 1
      /\ host' \in [phase : Phases, soft : BOOLEAN, job : Jobs \cup {NoJob}, sent : Nat, gap : Nat]
      /\ host.gap \in Nat
  BY <1>5, Idles DEF BoardInv
<1>7. BoardTyped' /\ InBuffer'
  <2>1. rearm_count' \in 0 .. 2
    BY <1>2
  <2>2. QED
    BY <1>2, <1>6, <2>1, PulseResets DEF BoardInv, BoardTyped, InBuffer, job
<1>8. host'.phase = "frame" => InPulse' \/ AfterPulse'
  <2>1. SUFFICES ASSUME host.phase = "frame" PROVE InPulse' \/ AfterPulse'
    BY <1>6
  <2>2. CASE rearm_count' # 0
    BY <1>2, <1>4, <1>6, <2>1, <2>2 DEF InPulse
  <2>3. CASE rearm_count' = 0
    <3>1. host'.job \in Jobs
      BY <1>6, <2>1 DEF BoardInv, BoardTyped, job
    <3>2. QED
      BY <1>2, <1>4, <1>6, <2>1, <2>3, <3>1, PulseResets, LoaderStarts DEF AfterPulse
  <2>4. QED
    BY <2>2, <2>3
<1>9. Phased'
  BY <1>2, <1>3, <1>6, <1>8, PulseResets DEF Phased
<1>10. QED
  BY <1>2, <1>7, <1>9, PulseResets DEF BoardInv

LEMMA FreshBoard ==
  ASSUME host' = Fresh, boot' = ResetBoot, regs' = Cleared, rearm_count' = 0,
         imem' \in [0 .. (ImemWords - 1) -> BootWord], in' = Empty
  PROVE  BoardInv'
<1>1. host'.phase = "fresh" /\ host' \in [phase : Phases, soft : BOOLEAN, job : Jobs \cup {NoJob}, sent : Nat, gap : Nat]
  <2> HIDE DEF NoJob
  <2>1. QED
    BY DEF Fresh, Phases
<1>2. in' \in [valid : BOOLEAN, data : Byte] /\ ~in'.valid
  BY DEF Empty, Byte
<1>3. BoardTyped' /\ InBuffer'
  BY <1>1, <1>2 DEF BoardTyped, InBuffer
<1>4. Phased'
  BY <1>1 DEF Phased, Cold
<1>5. QED
  BY <1>3, <1>4 DEF BoardInv

LEMMA ResetKeeps ==
  ASSUME BoardInv, Reset
  PROVE  BoardInv' /\ ~boot_done'
BY FreshBoard, PulseResets DEF Reset, InReset, BoardInv, BoardTyped

LEMMA StartJobKeeps ==
  ASSUME BoardInv, PatientHost, StartJob
  PROVE  BoardInv' /\ boot' = boot
<1> DEFINE HostType == [phase : Phases, soft : BOOLEAN, job : Jobs \cup {NoJob}, sent : Nat, gap : Nat]
<1>1. PICK j \in Jobs : \/ /\ host.phase = "fresh"
                           /\ host' = [Fresh EXCEPT !.phase = "frame", !.job = j]
                        \/ /\ Soft
                           /\ host' = [Fresh EXCEPT !.phase = "rearm", !.job = j, !.soft = TRUE]
  BY DEF StartJob
<1>2. UNCHANGED <<boot, imem, regs, rearm_count, cpu, in>>
  BY DEF StartJob
<1>3. CASE host.phase = "fresh" /\ host' = [Fresh EXCEPT !.phase = "frame", !.job = j]
  <2>1. host' = [phase |-> "frame", soft |-> FALSE, job |-> j, sent |-> 0, gap |-> 0]
    BY <1>3 DEF Fresh
  <2>2. host' \in HostType /\ host'.phase = "frame" /\ host'.job \in Jobs /\ host'.sent = 0
    BY <2>1 DEF Phases
  <2>3. boot = ResetBoot /\ regs = Cleared /\ rearm_count = 0 /\ ~in.valid
    BY <1>3 DEF BoardInv, Phased, Cold, InBuffer
  <2>4. AfterPulse'
    BY <1>2, <2>2, <2>3, LoaderStarts DEF AfterPulse
  <2>5. BoardTyped' /\ InBuffer'
    BY <1>2, <2>2, <2>3 DEF BoardInv, BoardTyped, InBuffer, job
  <2>6. Phased'
    BY <1>2, <2>2, <2>3, <2>4 DEF Phased
  <2>7. QED
    BY <1>2, <2>5, <2>6 DEF BoardInv
<1>4. CASE Soft /\ host' = [Fresh EXCEPT !.phase = "rearm", !.job = j, !.soft = TRUE]
  <2>1. host' = [phase |-> "rearm", soft |-> TRUE, job |-> j, sent |-> 0, gap |-> 0]
    BY <1>4 DEF Fresh
  <2>2. host' \in HostType /\ host'.phase = "rearm" /\ host'.job \in Jobs /\ host'.sent = 0
    BY <2>1 DEF Phases
  <2>3. host.phase = "sent" /\ boot_done /\ cpu = "cmd" /\ ~in.valid /\ rearm_count = 0
    BY <1>4 DEF Soft, PatientHost, BoardInv, Phased
  <2>4. BoardTyped' /\ InBuffer'
    BY <1>2, <2>2, <2>3 DEF BoardInv, BoardTyped, InBuffer, job
  <2>5. Phased'
    BY <1>2, <2>2, <2>3 DEF Phased, boot_done
  <2>6. QED
    BY <1>2, <2>4, <2>5 DEF BoardInv
<1>5. QED
  BY <1>1, <1>3, <1>4

LEMMA AbortKeeps ==
  ASSUME BoardInv, Abort
  PROVE  BoardInv' /\ boot' = boot
<1>1. /\ host.phase \in {"rearm", "frame"} /\ UNCHANGED <<boot, imem, regs, rearm_count, cpu, in>>
      /\ host' = [Fresh EXCEPT !.phase = "aborted"]
  BY DEF Abort
<1>2. host' = [phase |-> "aborted", soft |-> FALSE, job |-> NoJob, sent |-> 0, gap |-> 0]
  BY <1>1 DEF Fresh
<1>3. /\ host'.phase = "aborted"
      /\ host' \in [phase : Phases, soft : BOOLEAN, job : Jobs \cup {NoJob}, sent : Nat, gap : Nat]
  <2> HIDE DEF NoJob
  <2>1. QED
    BY <1>2 DEF Phases
<1>4. BoardTyped'
  BY <1>1, <1>3 DEF BoardInv, BoardTyped
<1>5. InBuffer'
  BY <1>1, <1>3 DEF BoardInv, InBuffer, RearmWaits, boot_done
<1>6. Phased'
  BY <1>1, <1>3 DEF BoardInv, Phased
<1>7. QED
  BY <1>1, <1>4, <1>5, <1>6 DEF BoardInv

-----------------------------------------------------------------------------
LEMMA BoardInit == Init => BoardInv
<1>1. SUFFICES ASSUME Init PROVE BoardInv
  OBVIOUS
<1>2. host.phase = "fresh" /\ host \in [phase : Phases, soft : BOOLEAN, job : Jobs \cup {NoJob}, sent : Nat, gap : Nat]
  <2> HIDE DEF NoJob
  <2>1. QED
    BY <1>1 DEF Init, Fresh, Phases
<1>3. in \in [valid : BOOLEAN, data : Byte] /\ ~in.valid
  BY <1>1 DEF Init, Empty, Byte
<1>4. imem \in [0 .. (ImemWords - 1) -> BootWord]
  <2> HIDE DEF Zero, BootWord
  <2>1. QED
    BY <1>1, ZeroIsWord DEF Init
<1>5. BoardTyped /\ InBuffer
  BY <1>1, <1>2, <1>3, <1>4 DEF BoardTyped, InBuffer, Init
<1>6. Phased
  BY <1>1, <1>2 DEF Phased, Cold, Init
<1>7. QED
  BY <1>5, <1>6 DEF BoardInv

(* A step keeps the invariant, and one that releases the CPU is the last   *)
(* byte of a frame.                                                        *)
Releases == ~boot_done /\ boot_done' => host'.phase = "sent" /\ Holds(host.job)'

LEMMA BoardNext ==
  ASSUME PatientHost, BoardInv, [Next]_vars
  PROVE  BoardInv' /\ Releases
<1>1. CASE Loading
  BY <1>1, LoadingKeeps DEF Releases
<1>2. CASE Running
  BY <1>2, RunningKeeps DEF Releases
<1>3. CASE Monitoring
  BY <1>3, MonitoringKeeps DEF Releases
<1>4. CASE Rearm
  BY <1>4, RearmKeeps DEF Releases
<1>5. CASE Rearming
  BY <1>5, RearmingKeeps DEF Releases
<1>6. CASE Reset
  BY <1>6, ResetKeeps DEF Releases
<1>7. CASE StartJob
  BY <1>7, StartJobKeeps DEF Releases, boot_done
<1>8. CASE Abort
  BY <1>8, AbortKeeps DEF Releases, boot_done
<1>9. CASE UNCHANGED vars
  <2>1. UNCHANGED <<boot, imem, regs, rearm_count, cpu, in, host>>
    BY <1>9 DEF vars
  <2>2. job' = job
    BY <2>1 DEF job
  <2>3. BoardTyped' /\ InBuffer'
    BY <2>1 DEF BoardInv, BoardTyped, InBuffer, RearmWaits, boot_done, job
  <2>4. AfterPulse' <=> AfterPulse
    BY <2>1, <2>2 DEF AfterPulse, Loader, AtStart, AtLength, AtCount, AtAddr, AtRegister, AtProgram,
                 InRegs, InWord, RegsDone, ProgDone, Lo, RegsEnd, FrameLen, Header
  <2>5. Phased'
    BY <2>1, <2>4 DEF BoardInv, Phased, Cold, BeforePulse, RearmWaits, InPulse, boot_done
  <2>6. QED
    BY <2>1, <2>3, <2>5 DEF BoardInv, Releases, boot_done
<1>10. QED
  BY <1>1, <1>2, <1>3, <1>4, <1>5, <1>6, <1>7, <1>8, <1>9 DEF Next, Clock

(* If hosts leave three clocks after 0x0B and send it only to halted       *)
(* boards, then for every job, imem and history of uploads cut off, resets *)
(* and re-arms the CPU is released by the last byte of a frame and by no   *)
(* other event, with exactly the job's program and register words in place *)
(* (bootloader.sv:95-201, lisp_machine.sv:32-49).                          *)
THEOREM BootLoadsJob ==
  ASSUME PatientHost
  PROVE  Spec => LoadedIsSent
<1>1. Init => BoardInv
  BY BoardInit
<1>2. BoardInv /\ [Next]_vars => BoardInv'
  BY BoardNext
<1>3. BoardInv /\ [Next]_vars => [~boot_done /\ boot_done' => host'.phase = "sent" /\ Holds(host.job)']_vars
  BY BoardNext DEF Releases
<1>4. QED
  BY <1>1, <1>2, <1>3, PTL DEF Spec, LoadedIsSent

(* Under the same hypotheses no loader waits for more once the host has    *)
(* sent the whole frame.                                                   *)
THEOREM FrameFills ==
  ASSUME PatientHost
  PROVE  Spec => []SentIsLoaded
<1>1. BoardInv => SentIsLoaded
  BY DEF BoardInv, Phased, SentIsLoaded
<1>2. BoardInv /\ [Next]_vars => BoardInv'
  BY BoardNext
<1>3. QED
  BY <1>1, <1>2, BoardInit, PTL DEF Spec
=============================================================================
