----------------------------- MODULE Bootloader -----------------------------
(***************************************************************************)
(* fpga/rtl/bootloader.sv: the state machine that takes a frame from the   *)
(* UART byte by byte.  A frame is a length of two bytes (bit 15 set: words *)
(* for registers follow), then the registers, then the program.  A word is *)
(* the tuple of its four bytes, the lowest first.                          *)
(***************************************************************************)
EXTENDS Naturals, Sequences

CONSTANTS ImemWords,      \* 2^ADDR_WIDTH (4096)
          LoSpan          \* lengths the low length byte tells apart (256)

VARIABLE boot             \* the registers of the module

Byte     == 0 .. 255
BootWord == [1 .. 4 -> Byte]
BootReg  == 0 .. 15
Zero     == <<0, 0, 0, 0>>

ResetBoot == [state |-> "WAIT_LENGTH_LO", prog_length |-> 0, word_count |-> 0, byte_count |-> 0,
              assembled_word |-> Zero, input_count |-> 0, input_index |-> 0, input_reg_addr |-> 0]

boot_done == boot.state = "DONE"

LengthLo(b) == /\ boot.state = "WAIT_LENGTH_LO"
               /\ boot' = [boot EXCEPT !.prog_length = @ - (@ % LoSpan) + (b % LoSpan),
                                       !.state = "WAIT_LENGTH_HI"]

(* The high byte keeps 4 bits of length; with 00 00 there is nothing to    *)
(* load and what imem holds runs.                                          *)
WithLength(b) == [boot EXCEPT !.prog_length = (@ % LoSpan) + LoSpan * (b % 16)]
NoProgram(b)  == b = 0 /\ boot.prog_length % LoSpan = 0

LengthEmpty(b) == /\ boot.state = "WAIT_LENGTH_HI"
                  /\ NoProgram(b)
                  /\ boot' = [WithLength(b) EXCEPT !.state = "DONE"]
LengthExtended(b) == /\ boot.state = "WAIT_LENGTH_HI"
                     /\ b >= 128
                     /\ boot' = [WithLength(b) EXCEPT !.state = "WAIT_REG_COUNT", !.input_index = 0]
LengthPlain(b) == /\ boot.state = "WAIT_LENGTH_HI"
                  /\ ~NoProgram(b)
                  /\ b < 128
                  /\ boot' = [WithLength(b) EXCEPT !.state = "READ_BYTES", !.word_count = 0,
                                                   !.byte_count = 0, !.assembled_word = Zero]

RegCount(b) ==
    /\ boot.state = "WAIT_REG_COUNT"
    /\ boot' = [boot EXCEPT !.input_count = b % 32, !.input_index = 0, !.byte_count = 0,
                            !.assembled_word = Zero,
                            !.state = IF b % 32 = 0 THEN "READ_BYTES" ELSE "WAIT_REG_ADDR",
                            !.word_count = IF b % 32 = 0 THEN 0 ELSE @]

RegAddr(b) ==
    /\ boot.state = "WAIT_REG_ADDR"
    /\ boot' = [boot EXCEPT !.input_reg_addr = b % 16, !.byte_count = 0,
                            !.assembled_word = Zero, !.state = "READ_REG_BYTES"]

Assembled(b) == [boot.assembled_word EXCEPT ![boot.byte_count + 1] = b]

NextByte(b) == /\ boot.state \in {"READ_REG_BYTES", "READ_BYTES"}
               /\ boot.byte_count # 3
               /\ boot' = [boot EXCEPT !.assembled_word = Assembled(b), !.byte_count = @ + 1]

(* Faulty: the index is compared before it moves.                          *)
FaultyLastRegByte(b) ==
    /\ boot.state = "READ_REG_BYTES"
    /\ boot.byte_count = 3
    /\ boot' = [boot EXCEPT !.input_index = (@ + 1) % 32, !.byte_count = 0,
                            !.assembled_word = Zero,
                            !.state = IF boot.input_index = boot.input_count THEN "READ_BYTES"
                                                                             ELSE "WAIT_REG_ADDR"]

LastRegByte(b) ==
    LET last == boot.input_index + 1 = boot.input_count IN
    /\ boot.state = "READ_REG_BYTES"
    /\ boot.byte_count = 3
    /\ boot' = [boot EXCEPT !.input_index = (@ + 1) % 32, !.byte_count = 0,
                            !.assembled_word = Zero,
                            !.state = IF last THEN "READ_BYTES" ELSE "WAIT_REG_ADDR",
                            !.word_count = IF last THEN 0 ELSE @]

LastByte(b) ==
    /\ boot.state = "READ_BYTES"
    /\ boot.byte_count = 3
    /\ boot' = [boot EXCEPT !.word_count = (@ + 1) % ImemWords, !.byte_count = 0,
                            !.assembled_word = Assembled(b),
                            !.state = IF boot.word_count + 1 = boot.prog_length THEN "DONE" ELSE @]

Take(b) == \/ LengthLo(b) \/ LengthEmpty(b) \/ LengthExtended(b) \/ LengthPlain(b)
           \/ RegCount(b) \/ RegAddr(b) \/ NextByte(b) \/ LastRegByte(b) \/ LastByte(b)

(* One clock edge; rx is rx_valid and rx_data.                             *)
BootClock(rx) == \/ rx.valid /\ Take(rx.data)
                 \/ (rx.valid => boot_done) /\ UNCHANGED boot

(* boot_we and boot_reg_we, both in the clock of a word's last byte.       *)
boot_we(rx)     == rx.valid /\ boot.state = "READ_BYTES" /\ boot.byte_count = 3
boot_reg_we(rx) == rx.valid /\ boot.state = "READ_REG_BYTES" /\ boot.byte_count = 3
=============================================================================
