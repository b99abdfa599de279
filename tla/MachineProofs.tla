--------------------------- MODULE MachineProofs ----------------------------
(***************************************************************************)
(* Theorems about the composed CPU of LispMachine, for every program, any  *)
(* initial registers, every heap and memory size, any bytes a host sends   *)
(* at any clock, and the board's reset at any clock.                       *)
(***************************************************************************)
EXTENDS MachineProperties, SequenceTheorems, TLAPS

PcRange == 0 .. (ImemWords - 1)
States  == {"FETCH", "DECODE", "EXECUTE", "WAIT_LDU", "WRITE_PAIR_CDR", "OUT_START", "OUT_WAIT",
            "IN_WAIT", "WAIT_SANDHI", "HALT"} \cup MonitorStates
Second  == [on : BOOLEAN, buf : Word, addr : Reg]
Counter == 0 .. (PerfMod - 1)
Perf    == [cycles : Counter, cons : Counter, car_cdr : Counter, eval_calls : Counter,
            jumps : Counter, heap_peak : LDU!Addr]
Result  == [mode : 0 .. 2, out0 : Byte, out1 : Byte]

(* The width of every register of the composed machine.                    *)
EngOK  == /\ codes \in [prev : Byte, curr : Byte]
          /\ latch \in Result
          /\ fsm \in [state : {"IDLE", "LOAD_RULE", "APPLY", "CHECK_NEXT", "OUTPUT"},
                      rule : 0 .. 2, matched : BOOLEAN]
UartOK == /\ in \in [valid : BOOLEAN, data : Byte]
          /\ tx \in [busy : BOOLEAN, byte : Byte]
CtrlOK == /\ imem \in [PcRange -> Instr]
          /\ regs \in [Reg -> Word]
          /\ state \in States
          /\ pc \in PcRange
          /\ instruction \in Instr
          /\ err \in [flag : BOOLEAN, pc : PcRange]
          /\ second \in Second
          /\ perf \in Perf
MonOK  == mon \in [cmd : Byte, arg1 : Byte, arg2 : Byte, buf : [1 .. 8 -> Byte], left : 0 .. 15]
TypeOK == LDU!TypeOK /\ EngOK /\ UartOK /\ CtrlOK /\ MonOK

-----------------------------------------------------------------------------
(* Arithmetic of words, addresses and bytes, without the digits of the     *)
(* width where they do not matter.                                         *)
LEMMA ValueModNat == ValueMod \in Nat /\ ValueMod > 255
BY SMT DEF ValueMod

LEMMA ModRange == ASSUME NEW n \in Nat, NEW m \in Nat, m > 0 PROVE n % m \in 0 .. (m - 1)
BY SMT

LEMMA MkWordType == ASSUME NEW t \in Tag, NEW v \in Value PROVE MkWord(t, v) \in Word
BY DEF MkWord, Word

LEMMA Tags == {TAG_FIXNUM, TAG_CONS, TAG_SYMBOL, TAG_NIL, TAG_TRUE, TAG_PRIMITIVE} \subseteq Tag
BY SMT DEF TAG_FIXNUM, TAG_CONS, TAG_SYMBOL, TAG_NIL, TAG_TRUE, TAG_PRIMITIVE, Tag

LEMMA ZeroIsWord == ZeroWord \in Word
BY ValueModNat, MkWordType, Tags DEF ZeroWord, Value

LEMMA AddrFacts == 0 \in LDU!Addr /\ LDU!Addr = 0 .. (HeapCells - 1) /\ LDU!Addr \subseteq Value
BY HeapCellsAssumption, ValueModNat DEF LDU!Addr, Value

(* The instance of the data unit speaks of the same words.                 *)
LEMMA LduVocabulary ==
  /\ LDU!Word = Word
  /\ LDU!ZeroWord = ZeroWord
  /\ \A w : LDU!IsCons(w) = IsCons(w)
  /\ \A t, v : LDU!MkWord(t, v) = MkWord(t, v)
  /\ LDU!TAG_CONS = TAG_CONS
<1>1. LDU!ValueMod = ValueMod
  BY SMT DEF LDU!ValueMod, ValueMod
<1>2. QED
  BY <1>1 DEF LDU!Word, Word, LDU!Tag, Tag, LDU!Value, Value, LDU!IsCons, IsCons, LDU!MkWord, MkWord,
              LDU!ZeroWord, ZeroWord, LDU!TAG_CONS, TAG_CONS, LDU!TAG_FIXNUM, TAG_FIXNUM

(* The four bytes of a word and of a number of 32 bits.                    *)
LEMMA HighNibble == ASSUME NEW n \in Nat, n < ValueMod PROVE n \div 16777216 \in 0 .. 15
BY SMT DEF ValueMod

LEMMA WordBytesType ==
  ASSUME NEW w \in Word
  PROVE  WordBytes(w) \in [1 .. 4 -> Byte]
<1>1. w.value \in Nat /\ w.value < ValueMod /\ w.tag \in 0 .. 15
  BY ValueModNat, SMT DEF Word, Value, Tag
<1>2. w.value \div 16777216 \in 0 .. 15
  BY <1>1, HighNibble, SMT
<1>3. (w.value \div 16777216) + 16 * w.tag \in Byte
  BY <1>1, <1>2, SMT DEF Byte
<1>4. /\ w.value % 256 \in Byte
      /\ (w.value \div 256) % 256 \in Byte
      /\ (w.value \div 65536) % 256 \in Byte
  BY <1>1, SMT DEF Byte
<1>5. QED
  BY <1>3, <1>4, SMT DEF WordBytes

LEMMA NumBytesType ==
  ASSUME NEW n \in Nat, n \div 16777216 < 256
  PROVE  NumBytes(n) \in [1 .. 4 -> Byte]
<1>1. n \div 16777216 \in Byte
  BY SMT DEF Byte
<1>2. n % 256 \in Byte /\ (n \div 256) % 256 \in Byte /\ (n \div 65536) % 256 \in Byte
  BY SMT DEF Byte
<1>3. QED
  BY <1>1, <1>2, SMT DEF NumBytes

-----------------------------------------------------------------------------
(* The values an instruction may write without the data unit: a UPC-8      *)
(* result fits a word, and no result is a new CONS word.                   *)
LEMMA CodeFields ==
  ASSUME NEW c \in Byte
  PROVE  /\ Row(c) \in 0 .. 7
         /\ \A r \in 0 .. 7 : WithRow(c, r) \in Byte
         /\ WithLength1(c) \in Byte /\ FlipLength(c) \in Byte /\ FlipNasal(c) \in Byte
<1>1. c \in 0 .. 255 /\ Row(c) \in 0 .. 7
  BY SMT DEF Byte, Row
<1>2. ASSUME NEW r \in 0 .. 7 PROVE WithRow(c, r) \in Byte
  BY <1>1, SMT DEF Byte, Row, WithRow
<1>3. WithLength1(c) \in Byte /\ FlipLength(c) \in Byte
  BY <1>1, SMT DEF Byte, WithLength1, FlipLength, Length
<1>4. FlipNasal(c) \in Byte
  BY <1>1, SMT DEF Byte, FlipNasal, Nasal
<1>5. QED
  BY <1>1, <1>2, <1>3, <1>4

LEMMA ImagesType ==
  ASSUME NEW o \in 0 .. 7, NEW c \in Byte
  PROVE  Images(o, c) \subseteq Byte
<1> USE DEF NOP, TOGGLE_LENGTH, TOGGLE_NASAL, NEXT_ROW, PREV_ROW, GUNA, VOICE, ASPIRATE
<1>1. CASE o \in {0, 1, 2}
  BY <1>1, CodeFields DEF Images, Only
<1>2. CASE o \in {3, 4}
  <2>1. NextRow(c) \in 0 .. 7 /\ PrevRow(c) \in 0 .. 7
    BY CodeFields, SMT DEF NextRow, PrevRow
  <2>2. WithRow(c, NextRow(c)) \in Byte /\ WithRow(c, PrevRow(c)) \in Byte
    BY <2>1, CodeFields
  <2>3. QED
    BY <1>2, <2>2 DEF Images, Only
<1>3. CASE o = 5
  <2>1. GunaOf(c) \in Byte
    BY CodeFields DEF GunaOf
  <2>2. QED
    BY <1>3, <2>1 DEF Images, Only
<1>4. CASE o = 6
  <2>1. \A q \in VoicePairs : q[2] \in Byte
    BY SMT DEF VoicePairs, Byte
  <2>2. QED
    BY <1>4, <2>1 DEF Images
<1>5. CASE o = 7
  <2>1. \A q \in AspiratePairs : q[2] \in Byte
    BY SMT DEF AspiratePairs, Byte
  <2>2. QED
    BY <1>5, <2>1 DEF Images
<1>6. QED
  BY <1>1, <1>2, <1>3, <1>4, <1>5

LEMMA TransformOutType ==
  ASSUME NEW o \in 0 .. 7, NEW c \in Byte
  PROVE  TransformOut(o, c) \in Byte
<1>1. CASE Images(o, c) = {}
  BY <1>1 DEF TransformOut, TransformError
<1>2. CASE Images(o, c) # {}
  <2>1. TransformOut(o, c) \in Images(o, c)
    BY <1>2 DEF TransformOut, TransformError
  <2>2. QED
    BY <2>1, ImagesType
<1>3. QED
  BY <1>1, <1>2

LEMMA SmallValue == ASSUME NEW n \in Nat, n < 200000 PROVE n \in Value
<1>1. ValueMod \in Nat /\ ValueMod > 200000
  BY SMT DEF ValueMod
<1>2. QED
  BY <1>1, SMT DEF Value

LEMMA BitType == ASSUME NEW b PROVE Bit(b) \in 0 .. 1
BY DEF Bit

LEMMA Upc8Values ==
  ASSUME NEW o \in 0 .. 7, NEW c \in Byte
  PROVE  DecodeValue(c) \in Value /\ TransformValue(o, c) \in Value /\ PredicateValue(c) \in Value
<1>1. c \in 0 .. 255 /\ Row(c) \in 0 .. 7 /\ TransformOut(o, c) \in 0 .. 255
  BY CodeFields, TransformOutType DEF Byte
<1>2. DecodeValue(c) \in Value
  <2>1. /\ Bit(Class10(c)) \in 0 .. 1 /\ Bit(Ac14(c)) \in 0 .. 1 /\ Bit(An(c)) \in 0 .. 1
        /\ Bit(Ik(c)) \in 0 .. 1 /\ Bit(ReservedRow(c)) \in 0 .. 1
    BY BitType
  <2>2. QED
    BY <1>1, <2>1, SmallValue, SMT DEF DecodeValue
<1>3. TransformValue(o, c) \in Value
  <2>1. Bit(TransformError(o, c)) \in 0 .. 1
    BY BitType
  <2>2. QED
    BY <1>1, <2>1, SmallValue, SMT DEF TransformValue
<1>4. PredicateValue(c) \in Value
  <2>1. /\ Bit(Class10(c)) \in 0 .. 1 /\ Bit(Ac14(c)) \in 0 .. 1 /\ Bit(An(c)) \in 0 .. 1
        /\ Bit(Ik(c)) \in 0 .. 1 /\ Bit(ReservedRow(c)) \in 0 .. 1
    BY BitType
  <2>2. QED
    BY <1>1, <2>1, SmallValue, SMT DEF PredicateValue
<1>5. QED
  BY <1>2, <1>3, <1>4

LEMMA Upc8Word ==
  ASSUME NEW mode \in 4 .. 6, NEW w \in Word
  PROVE  Upc8Result(mode, w) \in Word /\ ~IsCons(Upc8Result(mode, w))
<1>1. w.value \in Nat
  BY ValueModNat, SMT DEF Word, Value
<1>2. CodeOf(w) \in Byte /\ OpOf(w) \in 0 .. 7
  BY <1>1, SMT DEF CodeOf, OpOf, Byte
<1>3. \E v \in Value : Upc8Result(mode, w) = MkWord(TAG_FIXNUM, v)
  BY <1>2, Upc8Values DEF Upc8Result
<1>4. QED
  BY <1>3, MkWordType, Tags DEF IsCons, MkWord, TAG_FIXNUM, TAG_CONS

LEMMA NotCons ==
  ASSUME NEW t \in {TAG_FIXNUM, TAG_SYMBOL, TAG_NIL, TAG_PRIMITIVE}, NEW v \in Value
  PROVE  MkWord(t, v) \in Word /\ ~IsCons(MkWord(t, v))
BY MkWordType, Tags DEF IsCons, MkWord, TAG_FIXNUM, TAG_SYMBOL, TAG_NIL, TAG_PRIMITIVE, TAG_CONS

LEMMA MovWord ==
  ASSUME NEW mode \in Reg, NEW a \in Word
  PROVE  MovValue(mode, a) \in Word /\ (MovValue(mode, a) = a \/ ~IsCons(MovValue(mode, a)))
<1>1. a.tag \in Value /\ a.value \in Value
  BY ValueModNat, SMT DEF Word, Tag, Value
<1>2. CASE mode \in {1, 2, 3}
  BY <1>1, <1>2, NotCons DEF MovValue
<1>3. CASE mode \in 4 .. 6
  BY <1>3, Upc8Word DEF MovValue
<1>4. CASE mode \notin 1 .. 6
  BY <1>4 DEF MovValue
<1>5. QED
  BY <1>2, <1>3, <1>4 DEF Reg

LEMMA ImmIsValue == ASSUME NEW v \in Imm PROVE v \in Value
<1>1. v \in Nat /\ v < 200000
  BY SMT DEF Imm
<1>2. QED
  BY <1>1, SmallValue

(* An instruction that finishes in ST_EXECUTE makes no pointer of its own. *)
LEMMA LocalWord ==
  ASSUME NEW i \in Instr, IsLocal(i), i.op # OP_NOP, NEW a \in Word, NEW b \in Word
  PROVE  LocalValue(i, a, b) \in Word /\ (LocalValue(i, a, b) = a \/ ~IsCons(LocalValue(i, a, b)))
<1>1. a.value \in Value /\ b.value \in Value /\ i.imm \in Value /\ i.rs2 \in Reg
  BY ImmIsValue DEF Word, Instr
<1>2. WrapAdd(a.value, b.value) \in Value /\ WrapSub(a.value, b.value) \in Value
  BY <1>1, ValueModNat, SMT DEF WrapAdd, WrapSub, Value
<1>3. \A c : Truth(c) \in Word /\ ~IsCons(Truth(c))
  <2>1. SYM_T \in Value /\ 0 \in Value
    BY ValueModNat, SMT DEF SYM_T, Value
  <2>2. QED
    BY <2>1, NotCons DEF Truth, SymT, Nil
<1> USE DEF OP_NOP, OP_LOADI, OP_LOADSYM, OP_MOV, OP_ATOM, OP_EQ, OP_ADD, OP_SUB
<1>4. i.op \in {1, 2, 6, 7, 9, 13, 14}
  BY DEF IsLocal
<1>5. CASE i.op \in {1, 9, 13, 14}
  BY <1>1, <1>2, <1>5, NotCons DEF LocalValue
<1>6. CASE i.op \in {6, 7}
  BY <1>3, <1>6 DEF LocalValue
<1>7. CASE i.op = 2
  BY <1>1, <1>7, MovWord DEF LocalValue
<1>8. QED
  BY <1>4, <1>5, <1>6, <1>7

(* What the sandhi engine may latch, and the word it is packed into.       *)
LEMMA RuleType ==
  ASSUME NEW r \in 0 .. 2, NEW p \in Byte, NEW c \in Byte
  PROVE  Rule(r, p, c) \subseteq Result
<1>1. Row(p) \in 0 .. 7 /\ Row(c) \in 0 .. 7
  BY CodeFields
<1>2. 128 + 8 * Row(p) + 1 \in Byte /\ {0, 10, 11, 168, 176} \subseteq Byte
  BY <1>1, SMT DEF Byte
<1>3. \A m \in 0 .. 2, a \in Byte, b \in Byte : Mk(m, a, b) \in Result
  BY DEF Mk, Result
<1>4. Savarna(p, c) \subseteq Result
  BY <1>2, <1>3 DEF Savarna, Only
<1>5. Guna(p, c) \subseteq Result
  BY <1>2, <1>3 DEF Guna, Only
<1>6. Yan(p, c) \subseteq Result
  BY <1>2, <1>3 DEF Yan, Only
<1>7. Rule(r, p, c) \in {{}, Savarna(p, c), Guna(p, c), Yan(p, c)}
  BY DEF Rule
<1>8. QED
  BY <1>4, <1>5, <1>6, <1>7

LEMMA PackedSum ==
  ASSUME NEW a \in Nat, NEW b \in Nat, NEW m \in Nat, a < 256, b < 256, m < 3
  PROVE  a + 256 * b + 65536 * m \in Value
<1>1. a + 256 * b + 65536 * m \in Nat /\ a + 256 * b + 65536 * m < 200000
  BY SMT
<1>2. QED
  BY <1>1, SmallValue, SMT

LEMMA PackedIsValue == ASSUME NEW l \in Result PROVE Packed(l) \in Value
<1>1. /\ l.mode \in Nat /\ l.out0 \in Nat /\ l.out1 \in Nat
      /\ l.out0 < 256 /\ l.out1 < 256 /\ l.mode < 3
  BY SMT DEF Result, Byte
<1>2. l.out0 + 256 * l.out1 + 65536 * l.mode \in Value
  BY <1>1, PackedSum, SMT
<1>3. QED
  BY <1>2, SMT DEF Packed

-----------------------------------------------------------------------------
(* The data unit.  Whatever words the machine puts on its operands, its    *)
(* registers keep their widths and its pipeline never mixes two operations.*)
LEMMA AddrOfWord == ASSUME NEW w \in Word PROVE LDU!AddrOf(w) \in LDU!Addr
<1>1. w.value \in Nat
  BY ValueModNat, SMT DEF Word, Value
<1>2. QED
  BY <1>1, HeapCellsAssumption, SMT DEF LDU!AddrOf, LDU!Addr

LEMMA LduOffTypes ==
  ASSUME LDU!TypeOK
  PROVE  /\ LDU!WriteOff \in LDU!Port /\ LDU!AnsOff \in LDU!Ans /\ LDU!PeekOff \in LDU!Peek
         /\ LDU!WriteOff.we_car = FALSE /\ LDU!WriteOff.we_cdr = FALSE
         /\ LDU!WriteOff.addr = port.addr
         /\ LDU!AnsOff.valid = FALSE /\ LDU!AnsOff.error = FALSE
         /\ LDU!PeekOff.valid = FALSE
BY DEF LDU!TypeOK, LDU!WriteOff, LDU!AnsOff, LDU!PeekOff, LDU!Port, LDU!Ans, LDU!Peek

LEMMA LduHeapTypes ==
  ASSUME LDU!TypeOK, LDU!HeapClock
  PROVE  /\ car_ram' \in [LDU!Addr -> LDU!Word]
         /\ cdr_ram' \in [LDU!Addr -> LDU!Word]
         /\ car_out' \in LDU!Word
         /\ cdr_out' \in LDU!Word
BY DEF LDU!TypeOK, LDU!HeapClock, LDU!Port

LEMMA LduConsType ==
  ASSUME LDU!TypeOK, NEW a \in Word, NEW b \in Word, LDU!CmdCons(a, b)
  PROVE  LDU!TypeOK'
<1>1. hp \in LDU!Addr /\ hp + 1 \in 0 .. HeapCells
  BY HeapCellsAssumption DEF LDU!CmdCons, LDU!TypeOK, LDU!Addr
<1>2. port' \in LDU!Port
  BY <1>1, LduVocabulary DEF LDU!CmdCons, LDU!Port
<1>3. LDU!MkWord(LDU!TAG_CONS, hp) \in LDU!Word
  BY <1>1, AddrFacts, MkWordType, Tags, LduVocabulary
<1>4. ans' \in LDU!Ans
  BY <1>3 DEF LDU!CmdCons, LDU!TypeOK, LDU!AnsOff, LDU!Ans
<1>5. QED
  BY <1>1, <1>2, <1>4, LduHeapTypes, LduOffTypes DEF LDU!CmdCons, LDU!TypeOK

LEMMA LduSetCdrType ==
  ASSUME LDU!TypeOK, NEW a \in Word, NEW b \in Word, LDU!CmdSetCdr(a, b)
  PROVE  LDU!TypeOK'
<1>1. port' \in LDU!Port
  BY AddrOfWord, LduVocabulary DEF LDU!CmdSetCdr, LDU!TypeOK, LDU!WriteOff, LDU!Port
<1>2. ans' \in LDU!Ans
  BY LduVocabulary DEF LDU!CmdSetCdr, LDU!TypeOK, LDU!AnsOff, LDU!Ans
<1>3. QED
  BY <1>1, <1>2, LduHeapTypes, LduOffTypes DEF LDU!CmdSetCdr, LDU!TypeOK

LEMMA LduReadType ==
  ASSUME LDU!TypeOK, NEW a \in Word, NEW t \in {LDU!CAR, LDU!CDR, LDU!FETCH_PAIR}, LDU!CmdRead(t, a)
  PROVE  LDU!TypeOK'
<1>1. port' \in LDU!Port
  BY AddrOfWord DEF LDU!CmdRead, LDU!TypeOK, LDU!WriteOff, LDU!Port
<1>2. rd' \in LDU!Rd
  BY DEF LDU!CmdRead, LDU!Rd
<1>3. QED
  BY <1>1, <1>2, LduHeapTypes, LduOffTypes DEF LDU!CmdRead, LDU!TypeOK

LEMMA LduErrorType == ASSUME LDU!TypeOK, LDU!Error PROVE LDU!TypeOK'
<1>1. ans' \in LDU!Ans
  BY DEF LDU!TypeOK, LDU!Error, LDU!AnsOff, LDU!Ans
<1>2. QED
  BY <1>1, LduHeapTypes, LduOffTypes DEF LDU!TypeOK, LDU!Error

LEMMA LduPeekType ==
  ASSUME LDU!TypeOK, NEW i \in LDU!Addr, LDU!CmdPeek(i)
  PROVE  LDU!TypeOK'
<1>1. port' \in LDU!Port
  BY DEF LDU!CmdPeek, LDU!TypeOK, LDU!WriteOff, LDU!Port
<1>2. rd' \in LDU!Rd
  BY DEF LDU!CmdPeek, LDU!TypeOK, LDU!Rd
<1>3. QED
  BY <1>1, <1>2, LduHeapTypes, LduOffTypes DEF LDU!CmdPeek, LDU!TypeOK

LEMMA LduReadingType == ASSUME LDU!TypeOK, LDU!NoCmd \/ LDU!Reading PROVE LDU!TypeOK'
<1>1. CASE LDU!NoCmd
  BY <1>1, LduHeapTypes, LduOffTypes DEF LDU!NoCmd, LDU!TypeOK
<1>2. CASE LDU!ReadWait
  <2>1. rd' \in LDU!Rd
    BY <1>2 DEF LDU!ReadWait, LDU!TypeOK, LDU!Rd
  <2>2. QED
    BY <1>2, <2>1, LduHeapTypes, LduOffTypes DEF LDU!ReadWait, LDU!TypeOK
<1>3. CASE LDU!ReadDone
  <2>1. rd' \in LDU!Rd /\ ans' \in LDU!Ans
    BY <1>3 DEF LDU!ReadDone, LDU!TypeOK, LDU!Rd, LDU!Ans
  <2>2. QED
    BY <1>3, <2>1, LduHeapTypes, LduOffTypes DEF LDU!ReadDone, LDU!TypeOK
<1>4. CASE LDU!PeekDone
  <2>1. rd' \in LDU!Rd /\ peek' \in LDU!Peek
    BY <1>4 DEF LDU!PeekDone, LDU!TypeOK, LDU!Rd, LDU!Peek
  <2>2. QED
    BY <1>4, <2>1, LduHeapTypes, LduOffTypes DEF LDU!PeekDone, LDU!TypeOK
<1>5. QED
  BY <1>1, <1>2, <1>3, <1>4 DEF LDU!Reading

LEMMA LduResetTypes ==
  LDU!ResetPort \in LDU!Port /\ LDU!ResetRd \in LDU!Rd /\ LDU!ResetAns \in LDU!Ans /\ LDU!ResetPeek \in LDU!Peek
BY AddrFacts, ZeroIsWord, LduVocabulary
   DEF LDU!ResetPort, LDU!ResetRd, LDU!ResetAns, LDU!ResetPeek, LDU!Port, LDU!Rd, LDU!Ans, LDU!Peek,
       LDU!CAR, LDU!CDR, LDU!FETCH_PAIR

LEMMA LduResetType == ASSUME LDU!TypeOK, LDU!Reset PROVE LDU!TypeOK'
<1>1. car_out' \in LDU!Word /\ cdr_out' \in LDU!Word
  BY AddrFacts DEF LDU!Reset, LDU!TypeOK
<1>2. hp' \in 0 .. HeapCells
  BY HeapCellsAssumption DEF LDU!Reset
<1>3. QED
  BY <1>1, <1>2, LduResetTypes DEF LDU!Reset, LDU!TypeOK

-----------------------------------------------------------------------------
(* What each clock edge of the machine is for its units: the data unit     *)
(* sees one of its commands with words on its operands, a clock without a  *)
(* command, or its reset; the sandhi engine a start on two bytes, a clock  *)
(* or its reset.                                                           *)
Resting == \/ Fetch \/ Decode \/ ExecLocal \/ ExecJmp \/ ExecJf \/ ExecHalt \/ ExecOut \/ ExecIn
           \/ LduValid \/ LduError \/ WritePairCdr \/ OutStart \/ OutDone \/ InTake \/ SandhiDone
           \/ Wait \/ EnterMonitor
Watching == \/ MonCmd \/ MonArg1 \/ MonHeapReply \/ MonRegReply \/ MonHpReply \/ MonErrReply
            \/ MonPerfReply \/ MonTxStart \/ MonTxNext \/ MonWait

LEMMA RestingUnits == Resting => LduClock /\ Eng!Clock
<1>1. Fetch \/ Decode \/ ExecLocal \/ ExecJmp \/ ExecJf => LduClock /\ Eng!Clock
  BY DEF Fetch, Decode, ExecLocal, ExecJmp, ExecJf, Quiet
<1>2. ExecHalt \/ ExecOut \/ ExecIn \/ LduValid \/ LduError => LduClock /\ Eng!Clock
  BY DEF ExecHalt, ExecOut, ExecIn, LduValid, LduError, Quiet
<1>3. WritePairCdr \/ OutStart \/ OutDone \/ InTake \/ SandhiDone => LduClock /\ Eng!Clock
  BY DEF WritePairCdr, OutStart, OutDone, InTake, SandhiDone, Quiet
<1>4. Wait \/ EnterMonitor => LduClock /\ Eng!Clock
  BY DEF Wait, EnterMonitor, Quiet
<1>5. QED
  BY <1>1, <1>2, <1>3, <1>4 DEF Resting

LEMMA WatchingUnits == Watching => LduClock /\ Eng!Clock
<1>1. MonCmd \/ MonArg1 \/ MonTxStart \/ MonTxNext \/ MonWait => LduClock /\ Eng!Clock
  BY DEF MonCmd, MonArg1, Taking, MonTxStart, MonTxNext, MonWait, Quiet
<1>2. MonHeapReply \/ MonRegReply \/ MonHpReply \/ MonErrReply \/ MonPerfReply => LduClock /\ Eng!Clock
  BY DEF MonHeapReply, MonRegReply, MonHpReply, MonErrReply, MonPerfReply, Reply, Quiet
<1>3. QED
  BY <1>1, <1>2 DEF Watching

LEMMA NextShape ==
  Next => \/ Resting /\ UNCHANGED mon
          \/ (ExecCons \/ ExecSetCdr \/ ExecRead \/ ExecSandhi) /\ UNCHANGED mon
          \/ Watching \/ MonArg2
          \/ Rearm \/ Reboot
BY DEF Next, Tick, Run, Monitor, Resting, Watching

LEMMA FreshUnits == FreshCpu => LDU!Reset /\ Eng!Reset
BY DEF FreshCpu, CoreReset

LEMMA PeekAddrType == ASSUME MonOK PROVE PeekAddr \in LDU!Addr
<1>1. mon.arg1 \in Nat /\ mon.arg2 % 16 \in Nat /\ Arg1Span \in Nat
  BY WidthAssumption, SMT DEF MonOK, Byte
<1>2. Arg1Span * (mon.arg2 % 16) \in Nat
  BY <1>1, SMT
<1>3. mon.arg1 + Arg1Span * (mon.arg2 % 16) \in Nat
  BY <1>1, <1>2, SMT
<1>4. QED
  BY <1>3, ModRange, HeapCellsAssumption DEF PeekAddr, LDU!Addr

LEMMA OperandTypes == ASSUME CtrlOK PROVE A \in Word /\ B \in Word
BY DEF CtrlOK, A, B, Instr

(* Each step of the machine is a step of the data unit's specification.    *)
LEMMA LduOfNext ==
  ASSUME TypeOK, [Next]_vars
  PROVE  [LDU!Next]_(LDU!lduVars)
<1>1. CASE LduClock
  BY <1>1 DEF LduClock, LDU!Next
<1>2. CASE ExecCons
  <2>1. LDU!CmdCons(A, B) \/ LDU!CmdConsFull \/ LDU!Reading
    BY <1>2 DEF ExecCons, Command
  <2>2. QED
    BY <2>1, OperandTypes DEF TypeOK, LDU!Next
<1>3. CASE ExecSetCdr
  <2>1. LDU!CmdSetCdr(A, B) \/ LDU!CmdTypeError(A) \/ LDU!Reading
    BY <1>3 DEF ExecSetCdr, Command
  <2>2. QED
    BY <2>1, OperandTypes DEF TypeOK, LDU!Next
<1>4. CASE ExecRead
  <2>1. \/ \E t \in {LDU!CAR, LDU!CDR, LDU!FETCH_PAIR} : LDU!CmdRead(t, A)
        \/ LDU!CmdTypeError(A) \/ LDU!Reading
    BY <1>4 DEF ExecRead, Command
  <2>2. QED
    BY <2>1, OperandTypes DEF TypeOK, LDU!Next
<1>5. CASE ExecSandhi
  BY <1>1, <1>5 DEF ExecSandhi
<1>6. CASE MonArg2
  <2>1. LDU!CmdPeek(PeekAddr) \/ LDU!Reading
    BY <1>6 DEF MonArg2
  <2>2. QED
    BY <2>1, PeekAddrType DEF TypeOK, LDU!Next
<1>7. CASE Rearm \/ Reboot
  BY <1>7, FreshUnits DEF Rearm, Reboot, LDU!Next
<1>8. CASE UNCHANGED vars
  BY <1>8 DEF vars, coreVars
<1>9. QED
  BY <1>1, <1>2, <1>3, <1>4, <1>5, <1>6, <1>7, <1>8, NextShape, RestingUnits, WatchingUnits

LEMMA LduTypeKept ==
  ASSUME LDU!TypeOK, [LDU!Next]_(LDU!lduVars)
  PROVE  LDU!TypeOK'
<1>1. CASE UNCHANGED LDU!lduVars
  BY <1>1 DEF LDU!lduVars, LDU!TypeOK
<1>2. CASE \E a \in Word : LDU!CmdTypeError(a)
  BY <1>2, LduErrorType DEF LDU!CmdTypeError
<1>3. CASE LDU!CmdConsFull
  BY <1>3, LduErrorType DEF LDU!CmdConsFull
<1>4. QED
  BY <1>1, <1>2, <1>3, LduConsType, LduSetCdrType, LduReadType, LduPeekType, LduReadingType, LduResetType
     DEF LDU!Next

(* And each is a step of the sandhi engine.                                *)
LEMMA EngOfNext ==
  ASSUME TypeOK, [Next]_vars
  PROVE  [Eng!Next]_(Eng!engVars)
<1>1. CASE Eng!Clock
  BY <1>1 DEF Eng!Next
<1>2. CASE ExecCons \/ ExecSetCdr \/ ExecRead
  BY <1>1, <1>2 DEF ExecCons, ExecSetCdr, ExecRead, Command
<1>3. CASE ExecSandhi
  <2>1. A.value \in Nat
    BY OperandTypes, ValueModNat, SMT DEF TypeOK, Word, Value
  <2>2. (A.value \div 256) % 256 \in Byte /\ A.value % 256 \in Byte
    BY <2>1, SMT DEF Byte
  <2>3. Eng!Start((A.value \div 256) % 256, A.value % 256) \/ Eng!Walk
    BY <1>3 DEF ExecSandhi
  <2>4. QED
    BY <2>2, <2>3 DEF Eng!Next, Eng!Clock
<1>4. CASE MonArg2
  BY <1>1, <1>4 DEF MonArg2, Taking
<1>5. CASE Rearm \/ Reboot
  BY <1>5, FreshUnits DEF Rearm, Reboot, Eng!Next
<1>6. CASE UNCHANGED vars
  BY <1>6 DEF vars, coreVars
<1>7. QED
  BY <1>1, <1>2, <1>3, <1>4, <1>5, <1>6, NextShape, RestingUnits, WatchingUnits

(* The instance of the engine speaks of the same bytes and rules.          *)
LEMMA EngVocabulary ==
  /\ Eng!Byte = Byte
  /\ \A m, a, b : Eng!Mk(m, a, b) = Mk(m, a, b)
  /\ \A r \in 0 .. 2 : \A p, c : Eng!Rule(r, p, c) = Rule(r, p, c)
<1>1. Eng!Byte = Byte
  BY DEF Eng!Byte, Byte
<1>2. \A m, a, b : Eng!Mk(m, a, b) = Mk(m, a, b)
  BY DEF Eng!Mk, Mk
<1>3. \A c : Eng!Row(c) = Row(c) /\ Eng!OralSkt(c) = OralSkt(c)
  BY DEF Eng!Row, Row, Eng!OralSkt, OralSkt, Eng!SktLayer, SktLayer, Eng!Class10, Class10, Eng!Cls, Cls,
         Eng!Free, Free, Eng!Nasal, Nasal
<1>4. \A p, c : /\ Eng!Savarna(p, c) = Savarna(p, c)
                /\ Eng!Guna(p, c) = Guna(p, c)
                /\ Eng!Yan(p, c) = Yan(p, c)
  BY <1>2, <1>3 DEF Eng!Savarna, Savarna, Eng!Guna, Guna, Eng!Yan, Yan, Eng!Only, Only
<1>5. ASSUME NEW p, NEW c
      PROVE  /\ Eng!Rule(0, p, c) = Rule(0, p, c)
             /\ Eng!Rule(1, p, c) = Rule(1, p, c)
             /\ Eng!Rule(2, p, c) = Rule(2, p, c)
  BY <1>3, <1>4 DEF Eng!Rule, Rule
<1>6. \A r \in 0 .. 2 : r = 0 \/ r = 1 \/ r = 2
  BY SMT
<1>7. QED
  BY <1>1, <1>2, <1>5, <1>6

LEMMA ZeroResult == Mk(0, 0, 0) \in Result /\ [prev |-> 0, curr |-> 0] \in [prev : Byte, curr : Byte]
BY DEF Mk, Result, Byte

LEMMA EngTypeKept ==
  ASSUME EngOK, [Eng!Next]_(Eng!engVars)
  PROVE  EngOK'
<1> USE DEF EngOK
<1>1. CASE UNCHANGED Eng!engVars
  BY <1>1 DEF Eng!engVars
<1>2. ASSUME NEW p \in Byte, NEW c \in Byte, Eng!Start(p, c) PROVE EngOK'
  <2>1. fsm' = [state |-> "LOAD_RULE", rule |-> 0, matched |-> FALSE]
    BY <1>2 DEF Eng!Start, Eng!IdleFsm
  <2>2. fsm' \in [state : {"LOAD_RULE"}, rule : 0 .. 2, matched : BOOLEAN]
    BY <2>1
  <2>3. codes' \in [prev : Byte, curr : Byte] /\ latch' = latch
    BY <1>2 DEF Eng!Start
  <2>4. QED
    BY <2>2, <2>3
<1>3. CASE Eng!Rest
  BY <1>3 DEF Eng!Rest, Eng!IdleFsm
<1>8. CASE Eng!LoadRule \/ Eng!Output
  BY <1>8 DEF Eng!LoadRule, Eng!Output
<1>4. CASE Eng!Apply
  <2>1. codes.prev \in Byte /\ codes.curr \in Byte /\ fsm.rule \in 0 .. 2
    OBVIOUS
  <2>2. Eng!Hit \subseteq Result
    BY <2>1, RuleType, EngVocabulary DEF Eng!Hit
  <2>3. latch' \in Result
    BY <1>4, <2>2 DEF Eng!Apply
  <2>4. fsm' \in [state : {"CHECK_NEXT"}, rule : 0 .. 2, matched : BOOLEAN]
    BY <1>4 DEF Eng!Apply
  <2>5. QED
    BY <1>4, <2>3, <2>4 DEF Eng!Apply
<1>5. CASE Eng!CheckNext
  <2>1. codes.prev \in Byte /\ codes.curr \in Byte
    OBVIOUS
  <2>2. Mk(0, codes.prev, codes.curr) \in Result
    BY <2>1 DEF Mk, Result
  <2>3. latch' \in Result
    BY <1>5, <2>2, EngVocabulary DEF Eng!CheckNext
  <2>4. CASE fsm' = [fsm EXCEPT !.state = "OUTPUT"]
    BY <1>5, <2>3, <2>4 DEF Eng!CheckNext
  <2>5. CASE fsm.rule < 2 /\ fsm' = [fsm EXCEPT !.state = "LOAD_RULE", !.rule = @ + 1]
    <3>1. fsm.rule + 1 \in 0 .. 2
      BY <2>5
    <3>2. fsm' = [state |-> "LOAD_RULE", rule |-> fsm.rule + 1, matched |-> fsm.matched]
      BY <2>5
    <3>3. fsm.matched \in BOOLEAN
      OBVIOUS
    <3>4. fsm' \in [state : {"LOAD_RULE"}, rule : 0 .. 2, matched : BOOLEAN]
      BY <3>1, <3>2, <3>3
    <3>5. QED
      BY <1>5, <2>3, <3>4 DEF Eng!CheckNext
  <2>6. QED
    BY <1>5, <2>4, <2>5 DEF Eng!CheckNext
<1>6. CASE Eng!Reset
  BY <1>6, ZeroResult, EngVocabulary DEF Eng!Reset, Eng!IdleFsm
<1>7. QED
  BY <1>1, <1>2, <1>3, <1>4, <1>5, <1>6, <1>8 DEF Eng!Next, Eng!Clock, Eng!Walk

-----------------------------------------------------------------------------
(* The receive buffer and the transmitter.                                 *)
LEMMA RxType == ASSUME UartOK, NEW ack \in BOOLEAN, RxClock(ack) PROVE in' \in [valid : BOOLEAN, data : Byte]
<1>1. CASE \E b \in RxBytes : in' = [valid |-> TRUE, data |-> b]
  BY <1>1, BootAssumption
<1>2. CASE in' = [in EXCEPT !.valid = in.valid /\ ~ack]
  <2>1. in' = [valid |-> in.valid /\ ~ack, data |-> in.data]
    BY <1>2 DEF UartOK
  <2>2. (in.valid /\ ~ack) \in BOOLEAN /\ in.data \in Byte
    BY DEF UartOK
  <2>3. QED
    BY <2>1, <2>2
<1>3. QED
  BY <1>1, <1>2 DEF RxClock

LEMMA TxType == ASSUME UartOK, TxClock PROVE tx' \in [busy : BOOLEAN, byte : Byte]
BY DEF UartOK, TxClock

LEMMA TxSendType == ASSUME UartOK, NEW b \in Byte, TxSend(b) PROVE tx' \in [busy : BOOLEAN, byte : Byte]
<1>1. CASE TxClock
  BY <1>1, TxType
<1>2. CASE tx' = [busy |-> TRUE, byte |-> b]
  BY <1>2
<1>3. QED
  BY <1>1, <1>2 DEF TxSend

LEMMA QuietUart == ASSUME UartOK, Quiet PROVE UartOK'
BY RxType, TxType DEF Quiet, UartOK

LEMMA UartKept ==
  ASSUME TypeOK, [Next]_vars
  PROVE  UartOK'
<1>0. UartOK
  BY DEF TypeOK
<1>1. CASE Quiet
  BY <1>0, <1>1, QuietUart
<1>2. CASE RxClock(TRUE) /\ TxClock
  BY <1>0, <1>2, RxType, TxType DEF UartOK
<1>3. CASE RxClock(FALSE) /\ TxClock
  BY <1>0, <1>3, RxType, TxType DEF UartOK
<1>4. CASE OutStart
  <2>1. A.value % 256 \in Byte
    BY OperandTypes, ValueModNat, SMT DEF TypeOK, Word, Value, Byte
  <2>2. QED
    BY <1>0, <1>4, <2>1, RxType, TxSendType DEF OutStart, UartOK
<1>5. CASE MonTxStart
  <2>1. mon.buf[1] \in Byte
    BY DEF TypeOK, MonOK
  <2>2. QED
    BY <1>0, <1>5, <2>1, RxType, TxSendType DEF MonTxStart, UartOK
<1>6. CASE Rearm \/ Reboot
  <2>1. in' \in [valid : BOOLEAN, data : Byte]
    <3>1. in' = [valid |-> FALSE, data |-> 0]
      BY <1>6 DEF Rearm, Reboot, FreshCpu, CoreReset, Empty
    <3>2. QED
      BY <3>1 DEF Byte
  <2>2. tx' \in [busy : BOOLEAN, byte : Byte]
    BY <1>0, <1>6, TxType DEF Rearm, Reboot, UartOK
  <2>3. QED
    BY <2>1, <2>2 DEF UartOK
<1>7. CASE UNCHANGED vars
  BY <1>0, <1>7 DEF vars, coreVars, UartOK
<1>8. CASE Resting
  <2>1. Fetch \/ Decode \/ ExecLocal \/ ExecJmp \/ ExecJf \/ ExecHalt \/ ExecOut \/ ExecIn => Quiet
    BY DEF Fetch, Decode, ExecLocal, ExecJmp, ExecJf, ExecHalt, ExecOut, ExecIn
  <2>2. LduValid \/ LduError \/ WritePairCdr \/ OutDone \/ SandhiDone \/ Wait \/ EnterMonitor => Quiet
    BY DEF LduValid, LduError, WritePairCdr, OutDone, SandhiDone, Wait, EnterMonitor
  <2>3. InTake => RxClock(TRUE) /\ TxClock
    BY DEF InTake
  <2>4. QED
    BY <1>1, <1>2, <1>4, <1>8, <2>1, <2>2, <2>3 DEF Resting
<1>9. CASE Watching
  <2>1. MonCmd \/ MonArg1 => RxClock(TRUE) /\ TxClock
    BY DEF MonCmd, MonArg1, Taking
  <2>2. MonHeapReply \/ MonRegReply \/ MonHpReply \/ MonErrReply \/ MonPerfReply \/ MonTxNext \/ MonWait => Quiet
    BY DEF MonHeapReply, MonRegReply, MonHpReply, MonErrReply, MonPerfReply, MonTxNext, MonWait, Reply
  <2>3. QED
    BY <1>1, <1>2, <1>5, <1>9, <2>1, <2>2 DEF Watching
<1>10. ExecCons \/ ExecSetCdr \/ ExecRead \/ ExecSandhi => RxClock(FALSE) /\ TxClock
  BY DEF ExecCons, ExecSetCdr, ExecRead, ExecSandhi, Command
<1>11. MonArg2 => RxClock(TRUE) /\ TxClock
  BY DEF MonArg2, Taking
<1>12. QED
  BY <1>2, <1>3, <1>6, <1>7, <1>8, <1>9, <1>10, <1>11, NextShape

-----------------------------------------------------------------------------
(* The control unit and the register file.                                 *)
LEMMA PcType == ASSUME NEW n \in Nat PROVE n % ImemWords \in PcRange
BY ModRange, ImemWordsAssumption DEF PcRange

LEMMA PcNextType == ASSUME pc \in PcRange PROVE PcNext \in PcRange /\ pc + 1 \in Value
<1>1. pc + 1 \in Nat /\ pc + 1 < ValueMod
  BY ImemWordsAssumption, ValueModNat, SMT DEF PcRange
<1>2. pc + 1 \in Value
  BY <1>1, ValueModNat, SMT DEF Value
<1>3. QED
  BY <1>1, <1>2, PcType DEF PcNext

LEMMA CountType == ASSUME NEW n \in Counter PROVE (n + 1) % PerfMod \in Counter
<1>1. n + 1 \in Nat
  BY WidthAssumption DEF Counter
<1>2. QED
  BY <1>1, ModRange, WidthAssumption DEF Counter

LEMMA BumpType ==
  ASSUME perf \in Perf, NEW c \in {"cycles", "cons", "car_cdr", "eval_calls", "jumps"}, Bump(c)
  PROVE  perf' \in Perf
BY CountType DEF Perf, Bump

LEMMA SetRegType ==
  ASSUME regs \in [Reg -> Word], NEW r \in Reg, NEW w \in Word, SetReg(r, w)
  PROVE  regs' \in [Reg -> Word]
BY DEF SetReg

LEMMA NoPairType == ASSUME second \in Second, NoPair PROVE second' \in Second
BY DEF NoPair, Second

LEMMA SmallStates ==
  States = {"FETCH", "DECODE", "EXECUTE", "WAIT_LDU", "WRITE_PAIR_CDR", "OUT_START", "OUT_WAIT",
            "IN_WAIT", "WAIT_SANDHI", "HALT", "MON_CMD", "MON_ARG1", "MON_ARG2", "MON_HEAP_WAIT",
            "MON_REG_SEND", "MON_HP_SEND", "MON_ERR_SEND", "MON_PERF_SEND", "MON_TX_START",
            "MON_TX_WAIT"}
BY DEF States, MonitorStates

LEMMA InstrFields ==
  ASSUME CtrlOK
  PROVE  /\ instruction.rd \in Reg /\ instruction.rs1 \in Reg /\ instruction.rs2 \in Reg
         /\ instruction.imm \in Nat /\ instruction.op \in 0 .. 15
<1>1. instruction \in Instr
  BY DEF CtrlOK
<1>2. /\ instruction.rd \in Reg /\ instruction.rs1 \in Reg /\ instruction.rs2 \in Reg
      /\ instruction.imm \in Imm /\ instruction.op \in 0 .. 15
  BY <1>1 DEF Instr
<1>3. instruction.imm \in Nat
  BY <1>2, ImmIsValue, ValueModNat DEF Value
<1>4. QED
  BY <1>2, <1>3

LEMMA LocalTypes == ASSUME CtrlOK, ExecLocal PROVE CtrlOK'
<1>1. regs' \in [Reg -> Word]
  <2>1. CASE instruction.op = OP_NOP
    BY <2>1 DEF ExecLocal, LocalWrite, CtrlOK
  <2>2. CASE instruction.op # OP_NOP
    <3>1. instruction \in Instr /\ IsLocal(instruction) /\ A \in Word /\ B \in Word
      BY OperandTypes DEF ExecLocal, CtrlOK
    <3>2. LocalValue(instruction, A, B) \in Word
      BY <2>2, <3>1, LocalWord
    <3>3. regs' = [regs EXCEPT ![instruction.rd] = LocalValue(instruction, A, B)]
      BY <2>2 DEF ExecLocal, LocalWrite, A, B
    <3>4. QED
      BY <3>2, <3>3, InstrFields DEF CtrlOK
  <2>3. QED
    BY <2>1, <2>2
<1>2. pc' \in PcRange
  BY PcNextType DEF ExecLocal, CtrlOK
<1>3. second' \in Second
  BY NoPairType DEF ExecLocal, Execute, CtrlOK
<1>4. QED
  BY <1>1, <1>2, <1>3, SmallStates DEF ExecLocal, Execute, CtrlOK, Goto

LEMMA JumpTypes == ASSUME CtrlOK, ExecJmp \/ ExecJf PROVE CtrlOK'
<1>1. second' \in Second
  BY NoPairType DEF ExecJmp, ExecJf, Execute, CtrlOK
<1>2. pc' \in PcRange
  <2>1. A.value \in Nat
    BY OperandTypes, ValueModNat, SMT DEF Word, Value
  <2>2. A.value % ImemWords \in PcRange /\ instruction.imm % ImemWords \in PcRange
    BY <2>1, InstrFields, PcType
  <2>3. CASE ExecJmp
    BY <2>2, <2>3 DEF ExecJmp
  <2>4. CASE ExecJf
    BY <2>2, <2>4, PcNextType DEF ExecJf, CtrlOK
  <2>5. QED
    BY <2>3, <2>4
<1>3. regs' \in [Reg -> Word]
  <2>1. MkWord(TAG_FIXNUM, pc + 1) \in Word
    BY PcNextType, MkWordType, Tags DEF CtrlOK
  <2>2. QED
    BY <2>1, SetRegType, InstrFields DEF ExecJmp, ExecJf, CtrlOK
<1>4. perf' \in Perf
  <2>1. CASE ExecJmp
    BY <2>1, CountType DEF ExecJmp, CtrlOK, Perf
  <2>2. CASE ExecJf
    BY <2>2, BumpType DEF ExecJf, CtrlOK
  <2>3. QED
    BY <2>1, <2>2
<1>5. QED
  BY <1>1, <1>2, <1>3, <1>4, SmallStates DEF ExecJmp, ExecJf, Execute, CtrlOK, Goto

(* The other instructions leave ST_EXECUTE with at most a counter, the     *)
(* error record and is_fetch_pair changed.                                 *)
LEMMA ExecuteTypes ==
  ASSUME CtrlOK, ExecHalt \/ ExecOut \/ ExecIn \/ ExecCons \/ ExecSetCdr \/ ExecRead \/ ExecSandhi
  PROVE  CtrlOK'
<1>1. CASE ExecHalt
  <2>1. err' \in [flag : BOOLEAN, pc : PcRange]
    BY <1>1 DEF ExecHalt, CtrlOK
  <2>2. second' \in Second
    BY <1>1, NoPairType DEF ExecHalt, Execute, CtrlOK
  <2>3. QED
    BY <1>1, <2>1, <2>2, SmallStates DEF ExecHalt, Execute, CtrlOK, Goto
<1>2. CASE ExecOut \/ ExecIn \/ ExecSandhi \/ ExecSetCdr
  <2>1. second' \in Second
    BY <1>2, NoPairType DEF ExecOut, ExecIn, ExecSandhi, ExecSetCdr, Execute, CtrlOK
  <2>2. QED
    BY <1>2, <2>1, SmallStates DEF ExecOut, ExecIn, ExecSandhi, ExecSetCdr, Execute, CtrlOK, Goto
<1>3. CASE ExecCons
  <2>1. second' \in Second /\ perf' \in Perf
    BY <1>3, NoPairType, BumpType DEF ExecCons, Execute, CtrlOK
  <2>2. QED
    BY <1>3, <2>1, SmallStates DEF ExecCons, Execute, CtrlOK, Goto
<1>4. CASE ExecRead
  <2>1. perf' \in Perf
    BY <1>4, BumpType DEF ExecRead, CtrlOK
  <2>2. IsFetchPair(instruction) \in BOOLEAN
    BY DEF IsFetchPair
  <2>3. second' \in Second
    BY <1>4, <2>2 DEF ExecRead, CtrlOK, Second
  <2>4. QED
    BY <1>4, <2>1, <2>3, SmallStates DEF ExecRead, CtrlOK, Goto
<1>5. QED
  BY <1>1, <1>2, <1>3, <1>4

LEMMA LduValidTypes == ASSUME CtrlOK, LDU!TypeOK, LduValid PROVE CtrlOK'
<1>1. ans.result \in Word /\ ans.result_cdr \in Word
  BY LduVocabulary DEF LDU!TypeOK, LDU!Ans
<1>2. regs' \in [Reg -> Word]
  BY <1>1, SetRegType, InstrFields DEF LduValid, CtrlOK
<1>3. perf' \in Perf
  <2>1. LDU!hp_out \in LDU!Addr
    BY ModRange, HeapCellsAssumption DEF LDU!hp_out, LDU!TypeOK, LDU!Addr
  <2>2. QED
    BY <2>1 DEF LduValid, CtrlOK, Perf
<1>4. second' \in Second
  BY <1>1, InstrFields DEF LduValid, CtrlOK, Second
<1>5. pc' \in PcRange /\ state' \in States
  BY PcNextType, SmallStates DEF LduValid, CtrlOK, Goto
<1>6. QED
  BY <1>2, <1>3, <1>4, <1>5 DEF LduValid, CtrlOK

LEMMA WaitTypes ==
  ASSUME CtrlOK, EngOK, UartOK,
         \/ Fetch \/ Decode \/ LduError \/ WritePairCdr \/ OutStart \/ OutDone \/ InTake \/ SandhiDone
         \/ Wait \/ EnterMonitor
  PROVE  CtrlOK'
<1>1. CASE Fetch
  <2>1. instruction' \in Instr /\ perf' \in Perf
    BY <1>1, BumpType DEF Fetch, CtrlOK
  <2>2. QED
    BY <1>1, <2>1, SmallStates DEF Fetch, CtrlOK, Goto
<1>2. CASE Decode \/ EnterMonitor \/ OutStart
  BY <1>2, SmallStates DEF Decode, EnterMonitor, OutStart, CtrlOK, Goto
<1>3. CASE LduError
  <2>1. err' \in [flag : BOOLEAN, pc : PcRange]
    BY <1>3 DEF LduError, CtrlOK
  <2>2. QED
    BY <1>3, <2>1, SmallStates DEF LduError, CtrlOK, Goto
<1>4. CASE WritePairCdr
  <2>1. regs' \in [Reg -> Word]
    BY <1>4, SetRegType DEF WritePairCdr, CtrlOK, Second
  <2>2. QED
    BY <1>4, <2>1, SmallStates DEF WritePairCdr, CtrlOK, Goto
<1>5. CASE OutDone
  BY <1>5, PcNextType, SmallStates DEF OutDone, CtrlOK, Goto
<1>6. CASE InTake
  <2>1. in.data \in Nat /\ in.data < 256
    BY DEF UartOK, Byte
  <2>2. MkWord(TAG_FIXNUM, in.data) \in Word
    BY <2>1, SmallValue, MkWordType, Tags
  <2>3. regs' \in [Reg -> Word] /\ pc' \in PcRange
    BY <1>6, <2>2, SetRegType, InstrFields, PcNextType DEF InTake, CtrlOK
  <2>4. QED
    BY <1>6, <2>3, SmallStates DEF InTake, CtrlOK, Goto
<1>7. CASE SandhiDone
  <2>1. MkWord(TAG_FIXNUM, Packed(latch)) \in Word
    BY PackedIsValue, MkWordType, Tags DEF EngOK
  <2>2. regs' \in [Reg -> Word] /\ pc' \in PcRange
    BY <1>7, <2>1, SetRegType, InstrFields, PcNextType DEF SandhiDone, CtrlOK
  <2>3. QED
    BY <1>7, <2>2, SmallStates DEF SandhiDone, CtrlOK, Goto
<1>8. CASE Wait
  BY <1>8 DEF Wait, ctrlVars, CtrlOK
<1>9. QED
  BY <1>1, <1>2, <1>3, <1>4, <1>5, <1>6, <1>7, <1>8

LEMMA MonitorStateTypes ==
  ASSUME CtrlOK, Watching \/ MonArg2
  PROVE  CtrlOK'
<1>1. /\ UNCHANGED <<imem, regs, pc, instruction, err, second, perf>>
      /\ state' \in {state, "MON_CMD", "MON_ARG1", "MON_ARG2", "MON_HEAP_WAIT", "MON_REG_SEND",
                     "MON_HP_SEND", "MON_ERR_SEND", "MON_PERF_SEND", "MON_TX_START", "MON_TX_WAIT"}
  <2>1. CASE MonCmd \/ MonArg1 \/ MonArg2
    BY <2>1 DEF MonCmd, MonArg1, MonArg2, Taking, Kept, Goto, NextOfCmd
  <2>2. CASE MonHeapReply \/ MonRegReply \/ MonHpReply \/ MonErrReply \/ MonPerfReply
    BY <2>2 DEF MonHeapReply, MonRegReply, MonHpReply, MonErrReply, MonPerfReply, Reply, Kept, Goto
  <2>3. CASE MonTxStart \/ MonTxNext \/ MonWait
    BY <2>3 DEF MonTxStart, MonTxNext, MonWait, Kept, Goto
  <2>4. QED
    BY <2>1, <2>2, <2>3 DEF Watching
<1>2. QED
  BY <1>1, SmallStates DEF CtrlOK

LEMMA FreshTypes == ASSUME FreshCpu PROVE CtrlOK'
<1>1. /\ imem' \in [PcRange -> Instr] /\ regs' \in [Reg -> Word]
  BY BootAssumption DEF FreshCpu, CoreReset, PcRange
<1>2. 0 \in PcRange /\ 0 \in Counter
  BY ImemWordsAssumption, WidthAssumption DEF PcRange, Counter
<1>3. NopInstr \in Instr
  BY SMT DEF NopInstr, I, Instr, Imm, Reg, OP_NOP
<1>4. NoErr \in [flag : BOOLEAN, pc : PcRange] /\ NoSecond \in Second /\ ResetPerf \in Perf
  BY <1>2, ZeroIsWord, AddrFacts DEF NoErr, NoSecond, ResetPerf, Second, Perf, Reg
<1>5. QED
  BY <1>1, <1>2, <1>3, <1>4, SmallStates DEF FreshCpu, CoreReset, CtrlOK

LEMMA CtrlKept ==
  ASSUME TypeOK, [Next]_vars
  PROVE  CtrlOK'
<1>1. CASE Resting
  BY <1>1, LocalTypes, JumpTypes, ExecuteTypes, LduValidTypes, WaitTypes DEF Resting, TypeOK
<1>2. CASE ExecCons \/ ExecSetCdr \/ ExecRead \/ ExecSandhi
  BY <1>2, ExecuteTypes DEF TypeOK
<1>3. CASE Watching \/ MonArg2
  BY <1>3, MonitorStateTypes DEF TypeOK
<1>4. CASE Rearm \/ Reboot
  BY <1>4, FreshTypes DEF Rearm, Reboot
<1>5. CASE UNCHANGED vars
  BY <1>5 DEF vars, coreVars, ctrlVars, TypeOK, CtrlOK
<1>6. QED
  BY <1>1, <1>2, <1>3, <1>4, <1>5, NextShape

-----------------------------------------------------------------------------
(* The monitor's registers.  Eight bytes are sent from mon_tx_buf, which   *)
(* shifts by one byte after each.                                          *)
LEMMA FunctionIsSeq ==
  ASSUME NEW S, NEW n \in Nat, NEW s \in [1 .. n -> S]
  PROVE  s \in Seq(S) /\ Len(s) = n
<1>1. s \in Seq(S)
  BY SeqDef
<1>2. Len(s) \in Nat /\ 1 .. Len(s) = 1 .. n
  BY <1>1, LenProperties
<1>3. Len(s) = n
  BY <1>2, SMT
<1>4. QED
  BY <1>1, <1>3

LEMMA ShiftedBuf ==
  ASSUME NEW S, NEW s \in [1 .. 8 -> S], NEW b \in S
  PROVE  /\ Append(Tail(s), b) \in [1 .. 8 -> S]
         /\ \A k \in 1 .. 7 : Append(Tail(s), b)[k] = s[k+1]
<1>1. s \in Seq(S) /\ Len(s) = 8
  BY FunctionIsSeq
<1>2. s # << >>
  <2>1. Len(<< >>) = 0
    BY EmptySeq
  <2>2. Len(s) # 0
    BY <1>1
  <2>3. QED
    BY <2>1, <2>2, Zenon
<1>3. /\ Tail(s) \in Seq(S) /\ Len(Tail(s)) = Len(s) - 1
      /\ \A k \in 1 .. Len(Tail(s)) : Tail(s)[k] = s[k + 1]
  BY <1>1, <1>2, HeadTailProperties
<1>4. Len(Tail(s)) = 7
  BY <1>1, <1>3
<1> DEFINE t == Tail(s)
<1> HIDE DEF t
<1>5. t \in Seq(S) /\ Len(t) = 7 /\ \A k \in 1 .. 7 : t[k] = s[k + 1]
  BY <1>3, <1>4 DEF t
<1>9. t \in Seq(S) /\ b \in S
  BY <1>5
<1>6. /\ Append(t, b) \in Seq(S) /\ Len(Append(t, b)) = Len(t) + 1
      /\ \A k \in 1 .. Len(t) : Append(t, b)[k] = t[k]
  <2>1. Append(t, b) \in Seq(S)
    BY <1>9, AppendProperties
  <2>2. Len(Append(t, b)) = Len(t) + 1
    BY <1>9, AppendProperties
  <2>3. \A k \in 1 .. Len(t) : Append(t, b)[k] = t[k]
    BY <1>9, AppendProperties
  <2>4. QED
    BY <2>1, <2>2, <2>3
<1>7. Append(t, b) \in [1 .. 8 -> S]
  <2>1. Append(t, b) \in [1 .. Len(Append(t, b)) -> S]
    BY <1>6, LenProperties
  <2>2. Len(Append(t, b)) = 8
    BY <1>5, <1>6
  <2>3. QED
    BY <2>1, <2>2
<1>8. QED
  BY <1>5, <1>6, <1>7 DEF t

LEMMA JoinedBuf ==
  ASSUME NEW S, NEW s \in [1 .. 4 -> S], NEW t \in [1 .. 4 -> S]
  PROVE  /\ s \o t \in [1 .. 8 -> S]
         /\ \A k \in 1 .. 4 : (s \o t)[k] = s[k] /\ (s \o t)[k+4] = t[k]
<1>1. s \in Seq(S) /\ t \in Seq(S) /\ Len(s) = 4 /\ Len(t) = 4
  BY FunctionIsSeq
<1>2. s \o t \in Seq(S) /\ Len(s \o t) = Len(s) + Len(t)
      /\ \A i \in 1 .. Len(s) + Len(t) : (s \o t)[i] = IF i <= Len(s) THEN s[i] ELSE t[i - Len(s)]
  BY <1>1, ConcatProperties
<1> DEFINE c == s \o t
<1> HIDE DEF c
<1>3. c \in Seq(S) /\ Len(c) = 8 /\ \A i \in 1 .. 8 : c[i] = IF i <= 4 THEN s[i] ELSE t[i - 4]
  BY <1>1, <1>2 DEF c
<1>4. c \in [1 .. 8 -> S]
  BY <1>3, LenProperties
<1>5. ASSUME NEW k \in 1 .. 4 PROVE c[k] = s[k] /\ c[k+4] = t[k]
  BY <1>3
<1>6. QED
  BY <1>4, <1>5 DEF c

LEMMA Zero4Type == Zero4 \in [1 .. 4 -> Byte] /\ Zero4 \o Zero4 \in [1 .. 8 -> Byte]
<1>1. Zero4 \in [1 .. 4 -> Byte]
  BY SMT DEF Zero4, Byte
<1>2. QED
  BY <1>1, JoinedBuf

LEMMA BigDiv ==
  /\ \A n \in Nat : n < 2 * ValueMod => n \div 16777216 < 256
  /\ \A n \in Counter : n \div 16777216 < 256
<1>1. ASSUME NEW n \in Nat, n < 2 * ValueMod PROVE n \div 16777216 < 256
  BY <1>1, SMT DEF ValueMod
<1>2. ASSUME NEW n \in Nat, NEW m \in Nat, n <= m, m \div 16777216 < 256 PROVE n \div 16777216 < 256
  BY <1>2, SMT
<1>3. ASSUME NEW n \in Counter PROVE n \div 16777216 < 256
  <2>1. n \in Nat /\ PerfMod - 1 \in Nat /\ n <= PerfMod - 1
    BY WidthAssumption, SMT DEF Counter
  <2>2. QED
    BY <1>2, <2>1, WidthAssumption
<1>4. QED
  BY <1>1, <1>3

LEMMA ErrNumber ==
  ASSUME CtrlOK
  PROVE  LET n == err.pc + (IF err.flag THEN ImemWords ELSE 0)
         IN n \in Nat /\ n \div 16777216 < 256
<1>1. err.pc \in Nat /\ err.pc < ImemWords
  BY ImemWordsAssumption DEF CtrlOK, PcRange
<1> DEFINE n == err.pc + (IF err.flag THEN ImemWords ELSE 0)
<1>2. n \in Nat /\ n < 2 * ValueMod
  BY <1>1, ImemWordsAssumption, ValueModNat
<1> HIDE DEF n
<1>3. n \div 16777216 < 256
  BY <1>2, BigDiv
<1>4. QED
  BY <1>2, <1>3 DEF n

LEMMA PerfNumber == ASSUME CtrlOK PROVE PerfCounter \in Nat /\ PerfCounter \div 16777216 < 256
<1>1. perf.heap_peak \in Nat /\ perf.heap_peak < 2 * ValueMod
  BY HeapCellsAssumption, ValueModNat DEF CtrlOK, Perf, LDU!Addr
<1>2. \A n \in Counter : n \in Nat
  BY WidthAssumption DEF Counter
<1>3. /\ perf.cycles \in Counter /\ perf.cons \in Counter /\ perf.car_cdr \in Counter
      /\ perf.eval_calls \in Counter /\ perf.jumps \in Counter
  BY DEF CtrlOK, Perf
<1>4. PerfCounter \in {perf.cycles, perf.cons, perf.car_cdr, perf.eval_calls, perf.jumps, perf.heap_peak}
  BY DEF PerfCounter
<1>5. QED
  BY <1>1, <1>2, <1>3, <1>4, BigDiv

LEMMA HpNumber == ASSUME LDU!TypeOK PROVE LDU!hp_out \in Nat /\ LDU!hp_out \div 16777216 < 256
<1>1. LDU!hp_out \in 0 .. (HeapCells - 1)
  BY ModRange, HeapCellsAssumption DEF LDU!hp_out, LDU!TypeOK
<1>2. LDU!hp_out \in Nat /\ LDU!hp_out < 2 * ValueMod
  BY <1>1, HeapCellsAssumption, ValueModNat
<1>3. QED
  BY <1>2, BigDiv

LEMMA ReplyType ==
  ASSUME MonOK, NEW bytes \in [1 .. 8 -> Byte], NEW n \in {4, 8}, Reply(bytes, n)
  PROVE  MonOK'
<1>1. n \in 0 .. 15
  OBVIOUS
<1>2. mon' = [mon EXCEPT !.buf = bytes, !.left = n]
  BY DEF Reply
<1>3. QED
  BY <1>1, <1>2 DEF MonOK

LEMMA MonKept ==
  ASSUME TypeOK, [Next]_vars
  PROVE  MonOK'
<1>0. MonOK /\ CtrlOK /\ UartOK /\ LDU!TypeOK
  BY DEF TypeOK
<1>1. CASE UNCHANGED mon
  BY <1>0, <1>1 DEF MonOK
<1>2. CASE MonCmd \/ MonArg1 \/ MonArg2
  <2>1. in.data \in Byte
    BY <1>0 DEF UartOK
  <2>2. QED
    BY <1>0, <1>2, <2>1 DEF MonOK, MonCmd, MonArg1, MonArg2
<1>3. CASE MonHeapReply
  <2>1. peek.car \in Word /\ peek.cdr \in Word
    BY <1>0, LduVocabulary DEF LDU!TypeOK, LDU!Peek
  <2>2. WordBytes(peek.car) \o WordBytes(peek.cdr) \in [1 .. 8 -> Byte]
    BY <2>1, WordBytesType, JoinedBuf
  <2>3. QED
    BY <1>0, <1>3, <2>2, ReplyType DEF MonHeapReply
<1>4. CASE MonRegReply
  <2>1. mon.arg1 % 16 \in Reg
    BY <1>0, SMT DEF MonOK, Byte, Reg
  <2>2. regs[mon.arg1 % 16] \in Word
    BY <1>0, <2>1 DEF CtrlOK
  <2>3. WordBytes(regs[mon.arg1 % 16]) \o Zero4 \in [1 .. 8 -> Byte]
    BY <2>2, WordBytesType, Zero4Type, JoinedBuf
  <2>4. QED
    BY <1>0, <1>4, <2>3, ReplyType DEF MonRegReply
<1>5. CASE MonHpReply
  <2>1. NumBytes(LDU!hp_out) \o Zero4 \in [1 .. 8 -> Byte]
    BY <1>0, HpNumber, NumBytesType, Zero4Type, JoinedBuf
  <2>2. QED
    BY <1>0, <1>5, <2>1, ReplyType DEF MonHpReply
<1>6. CASE MonErrReply
  <2>1. NumBytes(err.pc + (IF err.flag THEN ImemWords ELSE 0)) \o Zero4 \in [1 .. 8 -> Byte]
    BY <1>0, ErrNumber, NumBytesType, Zero4Type, JoinedBuf
  <2>2. QED
    BY <1>0, <1>6, <2>1, ReplyType DEF MonErrReply
<1>7. CASE MonPerfReply
  <2>1. NumBytes(PerfCounter) \o Zero4 \in [1 .. 8 -> Byte]
    BY <1>0, PerfNumber, NumBytesType, Zero4Type, JoinedBuf
  <2>2. QED
    BY <1>0, <1>7, <2>1, ReplyType DEF MonPerfReply
<1>8. CASE MonTxNext
  <2>1. mon.buf \in [1 .. 8 -> Byte] /\ 0 \in Byte /\ mon.left \in 0 .. 15
    BY <1>0 DEF MonOK, Byte
  <2>2. Append(Tail(mon.buf), 0) \in [1 .. 8 -> Byte]
    BY <2>1, ShiftedBuf
  <2>3. (mon.left - 1) % 16 \in 0 .. 15
    BY <2>1, SMT
  <2>4. QED
    BY <1>0, <1>8, <2>2, <2>3 DEF MonOK, MonTxNext
<1>9. CASE Rearm \/ Reboot
  <2>1. mon' = [cmd |-> 0, arg1 |-> 0, arg2 |-> 0, buf |-> Zero4 \o Zero4, left |-> 0]
    BY <1>9 DEF Rearm, Reboot, FreshCpu, ResetMon
  <2>2. 0 \in Byte /\ 0 \in 0 .. 15
    BY DEF Byte
  <2>3. QED
    BY <2>1, <2>2, Zero4Type DEF MonOK
<1>10. MonTxStart \/ MonWait => UNCHANGED mon
  BY DEF MonTxStart, MonWait
<1>11. UNCHANGED vars => UNCHANGED mon
  BY DEF vars
<1>12. QED
  BY <1>1, <1>2, <1>3, <1>4, <1>5, <1>6, <1>7, <1>8, <1>9, <1>10, <1>11, NextShape DEF Watching

(* Every register of the machine keeps its width.                          *)
THEOREM MachineTypeCorrect == Spec => []TypeOK
<1>1. ASSUME Init PROVE TypeOK
  <2>1. LDU!TypeOK
    <3>1. car_ram \in [LDU!Addr -> LDU!Word] /\ cdr_ram \in [LDU!Addr -> LDU!Word]
      BY <1>1, BootAssumption, LduVocabulary DEF Init, CoreInit, LDU!Init
    <3>2. hp \in 0 .. HeapCells
      BY <1>1, HeapCellsAssumption DEF Init, CoreInit, LDU!Init
    <3>3. QED
      BY <1>1, <3>1, <3>2, LduResetTypes, AddrFacts DEF Init, CoreInit, LDU!Init, LDU!TypeOK
  <2>2. EngOK
    BY <1>1, ZeroResult, EngVocabulary DEF Init, CoreInit, Eng!Init, Eng!IdleFsm, EngOK
  <2>3. UartOK
    BY <1>1 DEF Init, CoreInit, Empty, UartOK, Byte
  <2>4. CtrlOK
    <3>1. /\ imem \in [PcRange -> Instr] /\ regs \in [Reg -> Word]
      BY <1>1, BootAssumption DEF Init, CoreInit, PcRange
    <3>2. 0 \in PcRange /\ 0 \in Counter
      BY ImemWordsAssumption, WidthAssumption DEF PcRange, Counter
    <3>3. NopInstr \in Instr
      BY SMT DEF NopInstr, I, Instr, Imm, Reg, OP_NOP
    <3>4. NoErr \in [flag : BOOLEAN, pc : PcRange] /\ NoSecond \in Second /\ ResetPerf \in Perf
      BY <3>2, ZeroIsWord, AddrFacts DEF NoErr, NoSecond, ResetPerf, Second, Perf, Reg
    <3>5. QED
      BY <1>1, <3>1, <3>2, <3>3, <3>4, SmallStates DEF Init, CoreInit, CtrlOK
  <2>5. MonOK
    BY <1>1, Zero4Type DEF Init, ResetMon, MonOK, Byte
  <2>6. QED
    BY <2>1, <2>2, <2>3, <2>4, <2>5 DEF TypeOK
<1>2. TypeOK /\ [Next]_vars => TypeOK'
  BY LduOfNext, LduTypeKept, EngOfNext, EngTypeKept, UartKept, CtrlKept, MonKept DEF TypeOK
<1>3. QED
  BY <1>1, <1>2, PTL DEF Spec

(* The control unit drives its data unit and its sandhi engine only as     *)
(* their own modules allow, so what is proved of the units alone is true   *)
(* of the units inside the machine (lisp_machine.sv:108-183).              *)
THEOREM MachineDrivesUnits == Spec => LDU!Spec /\ Eng!Init /\ [][Eng!Next]_(Eng!engVars)
<1>1. Init => LDU!Init /\ Eng!Init
  BY DEF Init, CoreInit
<1>2. TypeOK /\ [Next]_vars => [LDU!Next]_(LDU!lduVars) /\ [Eng!Next]_(Eng!engVars)
  BY LduOfNext, EngOfNext DEF TypeOK
<1>3. QED
  BY <1>1, <1>2, MachineTypeCorrect, PTL DEF Spec, LDU!Spec

-----------------------------------------------------------------------------
(* The pipeline of the data unit inside the machine.                       *)
LduOff == ~port.we_car /\ ~port.we_cdr /\ ~ans.valid /\ ~ans.error /\ ~peek.valid

LEMMA NoCmdEffect ==
  ASSUME LDU!TypeOK, LDU!NoCmd
  PROVE  LduOff' /\ rd' = rd /\ rd.state = 0 /\ hp' = hp /\ LDU!HeapClock /\ port'.addr = port.addr
BY LduOffTypes DEF LDU!NoCmd, LDU!Ready, LduOff

LEMMA ConsEffect ==
  ASSUME LDU!TypeOK, NEW a, NEW b, LDU!CmdCons(a, b)
  PROVE  /\ rd' = rd /\ rd.state = 0 /\ hp # HeapCells /\ hp' = hp + 1 /\ LDU!HeapClock
         /\ port' = [we_car |-> TRUE, we_cdr |-> TRUE, addr |-> hp, car_in |-> a, cdr_in |-> b]
         /\ ans'.valid /\ ~ans'.error /\ ans'.result = MkWord(TAG_CONS, hp)
         /\ ans'.result_cdr = ans.result_cdr /\ ~peek'.valid
<1>1. ans'.valid /\ ~ans'.error /\ ans'.result = MkWord(TAG_CONS, hp) /\ ans'.result_cdr = ans.result_cdr
  BY LduVocabulary DEF LDU!CmdCons, LDU!TypeOK, LDU!AnsOff, LDU!Ans
<1>2. QED
  BY <1>1, LduOffTypes DEF LDU!CmdCons, LDU!Ready

LEMMA ErrorEffect ==
  ASSUME LDU!TypeOK, LDU!Error
  PROVE  /\ rd' = rd /\ hp' = hp /\ LDU!HeapClock
         /\ ~port'.we_car /\ ~port'.we_cdr /\ ~ans'.valid /\ ans'.error /\ ~peek'.valid
<1>1. ~ans'.valid /\ ans'.error
  BY DEF LDU!Error, LDU!TypeOK, LDU!AnsOff, LDU!Ans
<1>2. QED
  BY <1>1, LduOffTypes DEF LDU!Error

LEMMA SetCdrEffect ==
  ASSUME LDU!TypeOK, NEW a \in Word, NEW b \in Word, LDU!CmdSetCdr(a, b)
  PROVE  /\ rd' = rd /\ rd.state = 0 /\ hp' = hp /\ LDU!HeapClock /\ IsCons(a)
         /\ ~port'.we_car /\ port'.we_cdr /\ port'.addr = LDU!AddrOf(a) /\ port'.cdr_in = b
         /\ ans'.valid /\ ~ans'.error /\ ans'.result = b /\ ~peek'.valid
<1>1. ans'.valid /\ ~ans'.error /\ ans'.result = b
  BY DEF LDU!CmdSetCdr, LDU!TypeOK, LDU!AnsOff, LDU!Ans
<1>2. ~port'.we_car /\ port'.we_cdr /\ port'.addr = LDU!AddrOf(a) /\ port'.cdr_in = b
  BY DEF LDU!CmdSetCdr, LDU!TypeOK, LDU!WriteOff, LDU!Port
<1>3. QED
  BY <1>1, <1>2, LduOffTypes, LduVocabulary DEF LDU!CmdSetCdr, LDU!Ready

LEMMA ReadEffect ==
  ASSUME LDU!TypeOK, NEW a \in Word, NEW t, LDU!CmdRead(t, a)
  PROVE  /\ LduOff' /\ rd' = [state |-> 1, type |-> t, peek |-> FALSE] /\ rd.state = 0
         /\ hp' = hp /\ LDU!HeapClock /\ IsCons(a) /\ port'.addr = LDU!AddrOf(a)
<1>1. ~port'.we_car /\ ~port'.we_cdr /\ port'.addr = LDU!AddrOf(a)
  BY DEF LDU!CmdRead, LDU!TypeOK, LDU!WriteOff, LDU!Port
<1>2. QED
  BY <1>1, LduOffTypes, LduVocabulary DEF LDU!CmdRead, LDU!Ready, LduOff

LEMMA PeekEffect ==
  ASSUME LDU!TypeOK, NEW i \in LDU!Addr, LDU!CmdPeek(i)
  PROVE  /\ LduOff' /\ rd'.state = 1 /\ rd'.peek /\ rd.state = 0
         /\ hp' = hp /\ LDU!HeapClock /\ port'.addr = i
<1>1. ~port'.we_car /\ ~port'.we_cdr /\ port'.addr = i
  BY DEF LDU!CmdPeek, LDU!TypeOK, LDU!WriteOff, LDU!Port
<1>2. rd'.state = 1 /\ rd'.peek
  BY DEF LDU!CmdPeek
<1>3. QED
  BY <1>1, <1>2, LduOffTypes DEF LDU!CmdPeek, LDU!Ready, LduOff

LEMMA ReadWaitEffect ==
  ASSUME LDU!TypeOK, LDU!ReadWait
  PROVE  /\ LduOff' /\ rd'.state = 2 /\ rd'.peek = rd.peek /\ rd'.type = rd.type /\ rd.state = 1
         /\ hp' = hp /\ LDU!HeapClock /\ port'.addr = port.addr
<1>1. rd'.state = 2 /\ rd'.peek = rd.peek /\ rd'.type = rd.type
  BY DEF LDU!ReadWait, LDU!TypeOK, LDU!Rd
<1>2. QED
  BY <1>1, LduOffTypes DEF LDU!ReadWait, LduOff

LEMMA ReadDoneEffect ==
  ASSUME LDU!TypeOK, LDU!ReadDone
  PROVE  /\ rd'.state = 0 /\ rd.state = 2 /\ ~rd.peek /\ hp' = hp /\ LDU!HeapClock
         /\ ~port'.we_car /\ ~port'.we_cdr /\ port'.addr = port.addr /\ ~peek'.valid
         /\ ans'.valid /\ ~ans'.error
         /\ ans'.result = (IF rd.type = LDU!CDR THEN cdr_out ELSE car_out)
         /\ ans'.result_cdr = (IF rd.type = LDU!FETCH_PAIR THEN cdr_out ELSE ans.result_cdr)
<1>1. rd'.state = 0
  BY DEF LDU!ReadDone, LDU!TypeOK, LDU!Rd
<1>2. QED
  BY <1>1, LduOffTypes DEF LDU!ReadDone

LEMMA PeekDoneEffect ==
  ASSUME LDU!TypeOK, LDU!PeekDone
  PROVE  /\ rd'.state = 0 /\ rd.state = 2 /\ rd.peek /\ hp' = hp /\ LDU!HeapClock
         /\ ~port'.we_car /\ ~port'.we_cdr /\ port'.addr = port.addr
         /\ ~ans'.valid /\ ~ans'.error
         /\ peek' = [valid |-> TRUE, car |-> car_out, cdr |-> cdr_out]
<1>1. rd'.state = 0
  BY DEF LDU!PeekDone, LDU!TypeOK, LDU!Rd
<1>2. QED
  BY <1>1, LduOffTypes DEF LDU!PeekDone

LEMMA LduResetEffect ==
  ASSUME LDU!Reset
  PROVE  LduOff' /\ rd'.state = 0 /\ hp' = 0 /\ car_ram' = car_ram /\ cdr_ram' = cdr_ram
BY DEF LDU!Reset, LDU!ResetPort, LDU!ResetRd, LDU!ResetAns, LDU!ResetPeek, LduOff

(* The RAM of an edge that has nothing to write.                           *)
LEMMA RamKept ==
  ASSUME LDU!TypeOK, LDU!HeapClock, ~port.we_car, ~port.we_cdr
  PROVE  /\ car_ram' = car_ram /\ cdr_ram' = cdr_ram
         /\ car_out' = car_ram[port.addr] /\ cdr_out' = cdr_ram[port.addr]
BY DEF LDU!HeapClock

LEMMA PipelineKept ==
  ASSUME LDU!TypeOK, LDU!PipelineInv, [LDU!Next]_(LDU!lduVars)
  PROVE  LDU!PipelineInv'
<1> USE DEF LDU!PipelineInv, LDU!ReadIsUndisturbed, LDU!RamOutputIsCurrent, LDU!AllocationIsNewest,
            LDU!OneAnswer
<1>1. CASE UNCHANGED LDU!lduVars
  BY <1>1 DEF LDU!lduVars
<1>2. ASSUME NEW a \in Word, NEW b \in Word, LDU!CmdCons(a, b) PROVE LDU!PipelineInv'
  <2>1. hp' > 0 /\ hp = hp' - 1
    BY <1>2, ConsEffect DEF LDU!TypeOK
  <2>2. QED
    BY <1>2, <2>1, ConsEffect
<1>3. ASSUME NEW a \in Word, NEW b \in Word, LDU!CmdSetCdr(a, b) PROVE LDU!PipelineInv'
  BY <1>3, SetCdrEffect
<1>4. ASSUME NEW a \in Word, NEW t \in {LDU!CAR, LDU!CDR, LDU!FETCH_PAIR}, LDU!CmdRead(t, a)
      PROVE  LDU!PipelineInv'
  <2>1. LduOff' /\ rd'.state = 1
    BY <1>4, ReadEffect
  <2>2. QED
    BY <2>1 DEF LduOff
<1>5. ASSUME NEW i \in LDU!Addr, LDU!CmdPeek(i) PROVE LDU!PipelineInv'
  BY <1>5, PeekEffect DEF LduOff
<1>6. CASE LDU!CmdConsFull \/ \E a \in Word : LDU!CmdTypeError(a)
  <2>1. LDU!Ready /\ LDU!Error
    BY <1>6 DEF LDU!CmdConsFull, LDU!CmdTypeError
  <2>2. QED
    BY <2>1, ErrorEffect DEF LDU!Ready
<1>7. CASE LDU!NoCmd
  BY <1>7, NoCmdEffect DEF LduOff
<1>8. CASE LDU!ReadWait
  <2>1. /\ LduOff' /\ rd'.state = 2 /\ port'.addr = port.addr /\ rd.state = 1 /\ LDU!HeapClock
    BY <1>8, ReadWaitEffect
  <2>2. /\ car_ram' = car_ram /\ cdr_ram' = cdr_ram
        /\ car_out' = car_ram[port.addr] /\ cdr_out' = cdr_ram[port.addr]
    BY <2>1, RamKept
  <2>3. QED
    BY <2>1, <2>2 DEF LduOff
<1>9. CASE LDU!ReadDone
  BY <1>9, ReadDoneEffect
<1>10. CASE LDU!PeekDone
  BY <1>10, PeekDoneEffect
<1>11. CASE LDU!Reset
  BY <1>11, LduResetEffect DEF LduOff
<1>12. QED
  BY <1>1, <1>2, <1>3, <1>4, <1>5, <1>6, <1>7, <1>8, <1>9, <1>10, <1>11 DEF LDU!Next, LDU!Reading

-----------------------------------------------------------------------------
(* The units work only while the control unit waits for them.  The         *)
(* invariant says for each state of the control unit what its units are    *)
(* doing: the data unit rests unless an instruction or a peek waits for    *)
(* it, and then it reads or shows its answer; the sandhi engine walks      *)
(* exactly while its instruction waits; the transmitter is busy only when  *)
(* the control unit waits for the end of its byte.                         *)
LduRests == LduOff /\ rd.state = 0
LduWorks == /\ ~peek.valid
            /\ \/ rd.state # 0 /\ ~rd.peek /\ LduOff
               \/ rd.state = 0 /\ (ans.valid \/ ans.error)
LduPeeks == /\ ~port.we_car /\ ~port.we_cdr /\ ~ans.valid /\ ~ans.error
            /\ \/ rd.state # 0 /\ rd.peek /\ ~peek.valid
               \/ rd.state = 0 /\ peek.valid
AwaitInv ==
    /\ state \notin {"WAIT_LDU", "MON_HEAP_WAIT"} => LduRests
    /\ state = "WAIT_LDU" => LduWorks
    /\ state = "MON_HEAP_WAIT" => LduPeeks
    /\ (state = "WAIT_SANDHI") <=> (fsm.state # "IDLE")
    /\ tx.busy => state \in {"OUT_WAIT", "MON_TX_WAIT"}

LEMMA RestingClock ==
  ASSUME LDU!TypeOK, rd.state = 0, LduClock
  PROVE  LduRests' /\ rd' = rd /\ hp' = hp /\ LDU!HeapClock
<1>1. LDU!NoCmd
  BY DEF LduClock, LDU!Reading, LDU!ReadWait, LDU!ReadDone, LDU!PeekDone
<1>2. QED
  BY <1>1, NoCmdEffect DEF LduRests

LEMMA EngineStays ==
  ASSUME fsm.state = "IDLE", Eng!Clock
  PROVE  fsm'.state = "IDLE"
BY DEF Eng!Clock, Eng!Rest, Eng!IdleFsm, Eng!Walk, Eng!LoadRule, Eng!Apply, Eng!CheckNext, Eng!Output,
       Eng!done

LEMMA EngineWalks ==
  ASSUME EngOK, fsm.state # "IDLE", Eng!Clock
  PROVE  (fsm'.state # "IDLE") <=> ~Eng!done
<1>1. CASE Eng!LoadRule
  BY <1>1 DEF EngOK, Eng!LoadRule, Eng!done
<1>2. CASE Eng!Apply
  BY <1>2 DEF EngOK, Eng!Apply, Eng!done
<1>3. CASE Eng!CheckNext
  BY <1>3 DEF EngOK, Eng!CheckNext, Eng!done
<1>4. CASE Eng!Output
  BY <1>4 DEF EngOK, Eng!Output, Eng!done
<1>5. QED
  BY <1>1, <1>2, <1>3, <1>4 DEF Eng!Clock, Eng!Rest, Eng!Walk

LEMMA TxQuiet == ASSUME UartOK, TxClock PROVE tx'.busy => tx.busy
BY DEF UartOK, TxClock

LEMMA BackToRest ==
  ASSUME LDU!TypeOK, rd.state = 0, LduClock,
         fsm'.state = "IDLE",
         state' \notin {"WAIT_LDU", "MON_HEAP_WAIT", "WAIT_SANDHI"},
         tx'.busy => state' \in {"OUT_WAIT", "MON_TX_WAIT"}
  PROVE  AwaitInv'
BY RestingClock DEF AwaitInv

LEMMA RestToRest ==
  ASSUME TypeOK, AwaitInv, LduClock, Eng!Clock,
         state \notin {"WAIT_LDU", "MON_HEAP_WAIT", "WAIT_SANDHI"},
         state' \notin {"WAIT_LDU", "MON_HEAP_WAIT", "WAIT_SANDHI"},
         tx'.busy => state' \in {"OUT_WAIT", "MON_TX_WAIT"}
  PROVE  AwaitInv'
BY BackToRest, EngineStays DEF AwaitInv, LduRests, TypeOK

LEMMA RestToRestQuiet ==
  ASSUME TypeOK, AwaitInv, LduClock, Eng!Clock, TxClock,
         state \notin {"WAIT_LDU", "MON_HEAP_WAIT", "WAIT_SANDHI", "OUT_WAIT", "MON_TX_WAIT"},
         state' \notin {"WAIT_LDU", "MON_HEAP_WAIT", "WAIT_SANDHI"}
  PROVE  AwaitInv'
BY RestToRest, TxQuiet DEF AwaitInv, TypeOK

LEMMA RunAwaits ==
  ASSUME TypeOK, AwaitInv,
         \/ Fetch \/ Decode \/ ExecLocal \/ ExecJmp \/ ExecJf \/ ExecHalt \/ ExecOut \/ ExecIn
         \/ WritePairCdr \/ OutStart \/ OutDone \/ InTake \/ EnterMonitor
  PROVE  AwaitInv'
<1>1. LduClock /\ Eng!Clock
  BY RestingUnits DEF Resting
<1>2. CASE Fetch \/ Decode \/ WritePairCdr \/ InTake \/ EnterMonitor
  BY <1>1, <1>2, RestToRestQuiet DEF Fetch, Decode, WritePairCdr, InTake, EnterMonitor, Goto, Quiet
<1>3. CASE ExecLocal \/ ExecJmp \/ ExecJf \/ ExecHalt \/ ExecOut \/ ExecIn
  BY <1>1, <1>3, RestToRestQuiet
     DEF ExecLocal, ExecJmp, ExecJf, ExecHalt, ExecOut, ExecIn, Execute, Goto, Quiet
<1>4. CASE OutStart
  BY <1>1, <1>4, RestToRest DEF OutStart, Goto
<1>5. CASE OutDone
  <2>1. ~tx'.busy
    BY <1>5, TxQuiet DEF OutDone, Quiet, TypeOK
  <2>2. QED
    BY <1>1, <1>5, <2>1, RestToRest DEF OutDone, Goto
<1>6. QED
  BY <1>2, <1>3, <1>4, <1>5

LEMMA CommandAwaits ==
  ASSUME TypeOK, AwaitInv, ExecCons \/ ExecSetCdr \/ ExecRead
  PROVE  AwaitInv'
<1>1. state = "EXECUTE" /\ state' = "WAIT_LDU" /\ Eng!Clock /\ TxClock
  BY DEF ExecCons, ExecSetCdr, ExecRead, Execute, Command, Goto
<1>2. fsm'.state = "IDLE" /\ ~tx'.busy
  BY <1>1, EngineStays, TxQuiet DEF AwaitInv, TypeOK
<1>3. LDU!TypeOK /\ rd.state = 0 /\ ~LDU!Reading /\ A \in Word /\ B \in Word
  BY <1>1, OperandTypes DEF AwaitInv, LduRests, TypeOK, LDU!Reading, LDU!ReadWait, LDU!ReadDone, LDU!PeekDone
<1>4. LduWorks'
  <2>1. CASE LDU!CmdCons(A, B)
    BY <1>3, <2>1, ConsEffect DEF LduWorks
  <2>2. CASE LDU!CmdConsFull \/ LDU!CmdTypeError(A)
    BY <1>3, <2>2, ErrorEffect DEF LduWorks, LDU!CmdConsFull, LDU!CmdTypeError
  <2>3. CASE LDU!CmdSetCdr(A, B)
    BY <1>3, <2>3, SetCdrEffect DEF LduWorks
  <2>4. ASSUME NEW t, LDU!CmdRead(t, A) PROVE LduWorks'
    <3>1. LduOff' /\ rd' = [state |-> 1, type |-> t, peek |-> FALSE]
      BY <1>3, <2>4, ReadEffect
    <3>2. QED
      BY <3>1 DEF LduWorks, LduOff
  <2>5. QED
    BY <1>3, <2>1, <2>2, <2>3, <2>4 DEF ExecCons, ExecSetCdr, ExecRead, Command
<1>5. QED
  BY <1>1, <1>2, <1>4 DEF AwaitInv

LEMMA SandhiAwaits ==
  ASSUME TypeOK, AwaitInv, ExecSandhi
  PROVE  AwaitInv'
<1>1. state = "EXECUTE" /\ state' = "WAIT_SANDHI" /\ LduClock /\ TxClock
  BY DEF ExecSandhi, Execute, Goto
<1>2. fsm.state = "IDLE" /\ rd.state = 0
  BY <1>1 DEF AwaitInv, LduRests
<1>3. ~tx'.busy
  BY <1>1, TxQuiet DEF AwaitInv, TypeOK
<1>4. fsm' = [state |-> "LOAD_RULE", rule |-> 0, matched |-> FALSE]
  BY <1>2 DEF ExecSandhi, Eng!Start, Eng!IdleFsm, Eng!Walk, Eng!LoadRule, Eng!Apply, Eng!CheckNext,
              Eng!Output, Eng!done
<1>5. LduRests'
  BY <1>1, <1>2, RestingClock DEF TypeOK
<1>6. QED
  BY <1>1, <1>3, <1>4, <1>5 DEF AwaitInv

(* An answer is taken at the edge that shows it, so the wait ends with it; *)
(* a wait that does not end is a read that goes on.                        *)
LEMMA LduWaitAwaits ==
  ASSUME TypeOK, AwaitInv, state = "WAIT_LDU", LduValid \/ LduError \/ Wait
  PROVE  AwaitInv'
<1>1. LduClock /\ Eng!Clock /\ TxClock
  BY RestingUnits DEF Resting, LduValid, LduError, Wait, Quiet
<1>2. fsm'.state = "IDLE" /\ ~tx'.busy
  BY <1>1, EngineStays, TxQuiet DEF AwaitInv, TypeOK
<1>3. CASE LduValid \/ LduError
  <2>1. rd.state = 0
    BY <1>3 DEF AwaitInv, LduWorks, LduOff, LduValid, LduError
  <2>2. state' \notin {"WAIT_LDU", "MON_HEAP_WAIT", "WAIT_SANDHI"}
    BY <1>3 DEF LduValid, LduError, Goto
  <2>3. QED
    BY <1>1, <1>2, <2>1, <2>2, BackToRest DEF TypeOK
<1>4. CASE Wait
  <2>1. ~ans.valid /\ ~ans.error /\ state' = state
    BY <1>4 DEF Wait, Waiting, ctrlVars
  <2>2. rd.state # 0 /\ ~rd.peek
    BY <2>1 DEF AwaitInv, LduWorks
  <2>3. LDU!ReadWait \/ LDU!ReadDone
    BY <1>1, <2>2 DEF LduClock, LDU!NoCmd, LDU!Ready, LDU!Reading, LDU!PeekDone
  <2>4. LduWorks'
    BY <2>2, <2>3, ReadWaitEffect, ReadDoneEffect DEF TypeOK, LduWorks, LduOff
  <2>5. QED
    BY <1>2, <2>1, <2>4 DEF AwaitInv
<1>5. QED
  BY <1>3, <1>4

LEMMA OtherWaitAwaits ==
  ASSUME TypeOK, AwaitInv, state # "WAIT_LDU", Wait \/ SandhiDone
  PROVE  AwaitInv'
<1>1. LduClock /\ Eng!Clock /\ TxClock
  BY RestingUnits DEF Resting, SandhiDone, Wait, Quiet
<1>2. CASE Wait /\ state # "WAIT_SANDHI"
  <2>1. state' = state /\ state \notin {"WAIT_LDU", "MON_HEAP_WAIT", "WAIT_SANDHI"}
    BY <1>2 DEF Wait, Waiting, ctrlVars
  <2>2. tx'.busy => state' \in {"OUT_WAIT", "MON_TX_WAIT"}
    BY <1>1, <2>1, TxQuiet DEF AwaitInv, TypeOK
  <2>3. QED
    BY <1>1, <2>1, <2>2, RestToRest
<1>3. CASE Wait /\ state = "WAIT_SANDHI"
  <2>1. state' = state /\ ~Eng!done
    BY <1>3 DEF Wait, Waiting, ctrlVars
  <2>2. fsm'.state # "IDLE" /\ ~tx'.busy /\ LduRests'
    BY <1>1, <1>3, <2>1, EngineWalks, TxQuiet, RestingClock DEF AwaitInv, TypeOK, LduRests
  <2>3. QED
    BY <1>3, <2>1, <2>2 DEF AwaitInv
<1>4. CASE SandhiDone
  <2>1. fsm'.state = "IDLE" /\ ~tx'.busy /\ rd.state = 0 /\ state' = "FETCH"
    BY <1>1, <1>4, EngineWalks, TxQuiet DEF SandhiDone, Goto, AwaitInv, TypeOK, LduRests
  <2>2. QED
    BY <1>1, <2>1, BackToRest DEF TypeOK
<1>5. QED
  BY <1>2, <1>3, <1>4

LEMMA MonitorAwaits ==
  ASSUME TypeOK, AwaitInv,
         \/ MonCmd \/ MonArg1 \/ MonRegReply \/ MonHpReply \/ MonErrReply \/ MonPerfReply
         \/ MonTxStart \/ MonTxNext
  PROVE  AwaitInv'
<1>1. LduClock /\ Eng!Clock
  BY WatchingUnits DEF Watching
<1>2. CASE MonCmd \/ MonArg1
  BY <1>1, <1>2, RestToRestQuiet DEF MonCmd, MonArg1, Taking, Goto, NextOfCmd
<1>3. CASE MonRegReply \/ MonHpReply \/ MonErrReply \/ MonPerfReply
  BY <1>1, <1>3, RestToRestQuiet DEF MonRegReply, MonHpReply, MonErrReply, MonPerfReply, Reply, Goto, Quiet
<1>4. CASE MonTxStart
  BY <1>1, <1>4, RestToRest DEF MonTxStart, Goto
<1>5. CASE MonTxNext
  <2>1. ~tx'.busy
    BY <1>5, TxQuiet DEF MonTxNext, Quiet, TypeOK
  <2>2. QED
    BY <1>1, <1>5, <2>1, RestToRest DEF MonTxNext, Goto
<1>6. QED
  BY <1>2, <1>3, <1>4, <1>5

LEMMA PeekAwaits ==
  ASSUME TypeOK, AwaitInv, MonArg2 \/ MonHeapReply \/ MonWait
  PROVE  AwaitInv'
<1>1. Eng!Clock /\ TxClock
  BY DEF MonArg2, Taking, MonHeapReply, Reply, MonWait, Quiet
<1>2. CASE MonArg2
  <2>1. /\ state = "MON_ARG2" /\ state' = "MON_HEAP_WAIT"
        /\ rd.state = 0 /\ LDU!TypeOK /\ PeekAddr \in LDU!Addr
    BY <1>2, PeekAddrType DEF MonArg2, Taking, Goto, AwaitInv, LduRests, TypeOK
  <2>2. LDU!CmdPeek(PeekAddr)
    BY <1>2, <2>1 DEF MonArg2, LDU!Reading, LDU!ReadWait, LDU!ReadDone, LDU!PeekDone
  <2>3. LduPeeks'
    BY <2>1, <2>2, PeekEffect DEF LduPeeks, LduOff
  <2>4. fsm'.state = "IDLE" /\ ~tx'.busy
    BY <1>1, <2>1, EngineStays, TxQuiet DEF AwaitInv, TypeOK
  <2>5. QED
    BY <2>1, <2>3, <2>4 DEF AwaitInv
<1>3. CASE MonHeapReply
  <2>1. /\ state = "MON_HEAP_WAIT" /\ state' = "MON_TX_START" /\ LduClock
        /\ rd.state = 0
    BY <1>3 DEF MonHeapReply, Reply, Goto, Quiet, AwaitInv, LduPeeks
  <2>2. fsm'.state = "IDLE" /\ ~tx'.busy
    BY <1>1, <2>1, EngineStays, TxQuiet DEF AwaitInv, TypeOK
  <2>3. QED
    BY <2>1, <2>2, BackToRest DEF TypeOK
<1>4. CASE MonWait /\ state = "MON_HEAP_WAIT"
  <2>1. state' = state /\ LduClock /\ ~peek.valid
    BY <1>4 DEF MonWait, Quiet
  <2>2. rd.state # 0 /\ rd.peek
    BY <1>4, <2>1 DEF AwaitInv, LduPeeks
  <2>3. LDU!ReadWait \/ LDU!PeekDone
    BY <2>1, <2>2 DEF LduClock, LDU!NoCmd, LDU!Ready, LDU!Reading, LDU!ReadDone
  <2>4. LduPeeks'
    <3>1. CASE LDU!ReadWait
      <4>1. LduOff' /\ rd'.state = 2 /\ rd'.peek = rd.peek
        BY <3>1, ReadWaitEffect DEF TypeOK
      <4>2. rd'.peek
        BY <2>2, <4>1, Zenon
      <4>3. QED
        BY <4>1, <4>2 DEF LduPeeks, LduOff
    <3>2. CASE LDU!PeekDone
      <4>1. LduOff' \/ peek'.valid
        BY <2>2, <3>2, PeekDoneEffect DEF TypeOK
      <4>2. QED
        BY <2>2, <3>2, <4>1, PeekDoneEffect DEF TypeOK, LduPeeks, LduOff
    <3>3. QED
      BY <2>3, <3>1, <3>2
  <2>5. fsm'.state = "IDLE" /\ ~tx'.busy
    BY <1>1, <1>4, EngineStays, TxQuiet DEF AwaitInv, TypeOK
  <2>6. QED
    BY <1>4, <2>1, <2>4, <2>5 DEF AwaitInv
<1>5. CASE MonWait /\ state # "MON_HEAP_WAIT"
  <2>1. /\ state' = state /\ LduClock
        /\ state \in {"MON_CMD", "MON_ARG1", "MON_ARG2", "MON_TX_WAIT"}
    BY <1>5 DEF MonWait, Quiet
  <2>2. tx'.busy => state' \in {"OUT_WAIT", "MON_TX_WAIT"}
    BY <1>1, <2>1, TxQuiet DEF AwaitInv, TypeOK
  <2>3. QED
    BY <1>1, <2>1, <2>2, RestToRest
<1>6. QED
  BY <1>2, <1>3, <1>4, <1>5

LEMMA FreshAwaits == ASSUME TypeOK, AwaitInv, Rearm \/ Reboot PROVE AwaitInv'
<1>1. state' = "FETCH" /\ LDU!Reset /\ fsm'.state = "IDLE"
  BY DEF Rearm, Reboot, FreshCpu, CoreReset, Eng!Reset, Eng!IdleFsm
<1>2. ~tx'.busy
  <2>1. CASE Rearm
    BY <2>1, TxQuiet DEF Rearm, AwaitInv, TypeOK
  <2>2. CASE Reboot
    BY <2>2 DEF Reboot, TypeOK, UartOK
  <2>3. QED
    BY <2>1, <2>2
<1>3. QED
  BY <1>1, <1>2, LduResetEffect DEF AwaitInv, LduRests

LEMMA AwaitKept ==
  ASSUME TypeOK, AwaitInv, [Next]_vars
  PROVE  AwaitInv'
<1>1. CASE Resting
  <2>1. LduValid \/ LduError => state = "WAIT_LDU"
    BY DEF LduValid, LduError
  <2>2. SandhiDone => state # "WAIT_LDU"
    BY DEF SandhiDone
  <2>3. QED
    BY <1>1, <2>1, <2>2, RunAwaits, LduWaitAwaits, OtherWaitAwaits DEF Resting
<1>2. CASE ExecCons \/ ExecSetCdr \/ ExecRead \/ ExecSandhi
  BY <1>2, CommandAwaits, SandhiAwaits
<1>3. CASE Watching \/ MonArg2
  BY <1>3, MonitorAwaits, PeekAwaits DEF Watching
<1>4. CASE Rearm \/ Reboot
  BY <1>4, FreshAwaits
<1>5. CASE UNCHANGED vars
  BY <1>5 DEF vars, coreVars, ctrlVars, LDU!lduVars, Eng!engVars, AwaitInv, LduRests, LduWorks, LduPeeks,
              LduOff
<1>6. QED
  BY <1>1, <1>2, <1>3, <1>4, <1>5, NextShape

LEMMA InitAwaits == ASSUME Init PROVE AwaitInv /\ LDU!PipelineInv
<1>1. /\ state = "FETCH" /\ fsm.state = "IDLE" /\ ~tx.busy
      /\ port = LDU!ResetPort /\ rd = LDU!ResetRd /\ ans = LDU!ResetAns /\ peek = LDU!ResetPeek
  BY DEF Init, CoreInit, LDU!Init, Eng!Init, Eng!IdleFsm
<1>2. LduRests
  BY <1>1 DEF LDU!ResetPort, LDU!ResetRd, LDU!ResetAns, LDU!ResetPeek, LduRests, LduOff
<1>3. QED
  BY <1>1, <1>2 DEF AwaitInv, LduRests, LduOff, LDU!PipelineInv, LDU!ReadIsUndisturbed,
                    LDU!RamOutputIsCurrent, LDU!AllocationIsNewest, LDU!OneAnswer

(* The invariant of the composed machine that the later proofs rest on.    *)
UnitInv == TypeOK /\ LDU!PipelineInv /\ AwaitInv

LEMMA MachineUnits == Spec => []UnitInv
<1>1. Init => LDU!PipelineInv /\ AwaitInv
  BY InitAwaits
<1>2. TypeOK /\ LDU!PipelineInv /\ AwaitInv /\ [Next]_vars => LDU!PipelineInv' /\ AwaitInv'
  BY LduOfNext, PipelineKept, AwaitKept DEF TypeOK
<1>3. QED
  BY <1>1, <1>2, MachineTypeCorrect, PTL DEF Spec, UnitInv

(* No answer pulse, no write and no byte comes when nobody waits for it:   *)
(* for every program and every interleaving with the UART and resets       *)
(* (control.sv:246-278, 520-529, lisp_data_unit.sv:93-182).                *)
THEOREM UnitsAwaited == Spec => []UnitsAreAwaited
<1>1. UnitInv => UnitsAreAwaited
  BY DEF UnitInv, AwaitInv, LduRests, LduWorks, LduPeeks, LduOff, UnitsAreAwaited
<1>2. QED
  BY <1>1, MachineUnits, PTL
=============================================================================
