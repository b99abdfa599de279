------------------------- MODULE LispDataUnitProofs -------------------------
(***************************************************************************)
(* Theorems about the Lisp data unit, for every heap size, every power-up  *)
(* content of the RAM and every set of operands.                           *)
(***************************************************************************)
EXTENDS LispDataUnit, TLAPS

(* The width of a value, without its digits.                               *)
LEMMA ValueModNat == ValueMod \in Nat /\ ValueMod > 255
  BY SMT DEF ValueMod

(* Address arithmetic: a word's value cut to the heap address width is an  *)
(* address, and an address is not changed by the cut.                      *)
LEMMA AddrOfInAddr == ASSUME NEW w \in Word PROVE AddrOf(w) \in Addr
  BY HeapCellsAssumption, ValueModNat, SMT DEF AddrOf, Addr, Word, Value

LEMMA ZeroIsAddr == 0 \in Addr
  BY HeapCellsAssumption DEF Addr

LEMMA ConsWordIsWord == ASSUME NEW i \in Addr PROVE MkWord(TAG_CONS, i) \in Word
  BY HeapCellsAssumption, ValueModNat DEF Addr, MkWord, TAG_CONS, Word, Tag, Value

LEMMA ZeroIsWord == ZeroWord \in Word
  BY ValueModNat DEF ZeroWord, MkWord, TAG_FIXNUM, Word, Tag, Value

(* What one clock edge of the RAM does to its type.                        *)
LEMMA HeapClockType ==
  ASSUME TypeOK, HeapClock
  PROVE  /\ car_ram' \in [Addr -> Word]
         /\ cdr_ram' \in [Addr -> Word]
         /\ car_out' \in Word
         /\ cdr_out' \in Word
  BY DEF TypeOK, HeapClock, Port

LEMMA OffTypes ==
  ASSUME TypeOK
  PROVE  WriteOff \in Port /\ AnsOff \in Ans /\ PeekOff \in Peek
  BY DEF TypeOK, WriteOff, AnsOff, PeekOff, Port, Ans, Peek

LEMMA ErrorType == ASSUME TypeOK, Error PROVE TypeOK'
  <1>1. ans' \in Ans
    BY DEF TypeOK, Error, AnsOff, Ans
  <1>2. QED
    BY <1>1, HeapClockType, OffTypes DEF TypeOK, Error

LEMMA ResetTypes ==
  ResetPort \in Port /\ ResetRd \in Rd /\ ResetAns \in Ans /\ ResetPeek \in Peek
  BY ZeroIsAddr, ZeroIsWord
     DEF ResetPort, ResetRd, ResetAns, ResetPeek, Port, Rd, Ans, Peek, CAR, CDR, FETCH_PAIR

(* Every register keeps the width the source declares for it.              *)
THEOREM TypeCorrect == Spec => []TypeOK
<1>1. Init => TypeOK
  <2> SUFFICES ASSUME Init PROVE TypeOK
    OBVIOUS
  <2>1. hp \in 0 .. HeapCells
    BY HeapCellsAssumption DEF Init
  <2>2. /\ car_ram \in [Addr -> Word]
        /\ cdr_ram \in [Addr -> Word]
    BY WordsAssumption DEF Init
  <2>3. QED
    BY <2>1, <2>2, ResetTypes, ZeroIsAddr DEF Init, TypeOK
<1>2. TypeOK /\ [Next]_lduVars => TypeOK'
  <2> SUFFICES ASSUME TypeOK, [Next]_lduVars PROVE TypeOK'
    OBVIOUS
  <2>1. ASSUME NEW a \in OperandA, NEW b \in OperandB, CmdCons(a, b) PROVE TypeOK'
    <3>1. a \in Word /\ b \in Word
      BY WordsAssumption
    <3>2. hp \in Addr /\ hp + 1 \in 0 .. HeapCells
      BY <2>1, HeapCellsAssumption DEF CmdCons, TypeOK, Addr
    <3>3. port' \in Port
      BY <2>1, <3>1, <3>2 DEF CmdCons, Port
    <3>4. ans' \in Ans
      BY <2>1, <3>2, ConsWordIsWord DEF CmdCons, TypeOK, AnsOff, Ans
    <3>5. QED
      BY <2>1, <3>2, <3>3, <3>4, HeapClockType, OffTypes DEF CmdCons, TypeOK
  <2>2. ASSUME NEW a \in OperandA, NEW b \in OperandB, CmdSetCdr(a, b) PROVE TypeOK'
    <3>1. a \in Word /\ b \in Word /\ AddrOf(a) \in Addr
      BY WordsAssumption, AddrOfInAddr
    <3>2. port' \in Port
      BY <2>2, <3>1 DEF CmdSetCdr, TypeOK, WriteOff, Port
    <3>3. ans' \in Ans
      BY <2>2, <3>1 DEF CmdSetCdr, TypeOK, AnsOff, Ans
    <3>4. QED
      BY <2>2, <3>2, <3>3, HeapClockType, OffTypes DEF CmdSetCdr, TypeOK
  <2>3. ASSUME NEW a \in OperandA, NEW t \in {CAR, CDR, FETCH_PAIR}, CmdRead(t, a)
        PROVE  TypeOK'
    <3>1. AddrOf(a) \in Addr
      BY WordsAssumption, AddrOfInAddr
    <3>2. port' \in Port
      BY <2>3, <3>1 DEF CmdRead, TypeOK, WriteOff, Port
    <3>3. rd' \in Rd
      BY <2>3 DEF CmdRead, Rd
    <3>4. QED
      BY <2>3, <3>2, <3>3, HeapClockType, OffTypes DEF CmdRead, TypeOK
  <2>4. ASSUME NEW a \in OperandA, CmdTypeError(a) PROVE TypeOK'
    BY <2>4, ErrorType DEF CmdTypeError
  <2>5. ASSUME NEW i \in Addr, CmdPeek(i) PROVE TypeOK'
    <3>1. port' \in Port
      BY <2>5 DEF CmdPeek, TypeOK, WriteOff, Port
    <3>2. rd' \in Rd
      BY <2>5 DEF CmdPeek, TypeOK, Rd
    <3>3. QED
      BY <2>5, <3>1, <3>2, HeapClockType, OffTypes DEF CmdPeek, TypeOK
  <2>6. CASE CmdConsFull
    BY <2>6, ErrorType DEF CmdConsFull
  <2>7. CASE NoCmd
    BY <2>7, HeapClockType, OffTypes DEF NoCmd, TypeOK
  <2>8. CASE ReadWait
    <3>1. rd' \in Rd
      BY <2>8 DEF ReadWait, TypeOK, Rd
    <3>2. QED
      BY <2>8, <3>1, HeapClockType, OffTypes DEF ReadWait, TypeOK
  <2>9. CASE ReadDone
    <3>1. rd' \in Rd
      BY <2>9 DEF ReadDone, TypeOK, Rd
    <3>2. ans' \in Ans
      BY <2>9 DEF ReadDone, TypeOK, Ans
    <3>3. QED
      BY <2>9, <3>1, <3>2, HeapClockType, OffTypes DEF ReadDone, TypeOK
  <2>12. CASE PeekDone
    <3>1. rd' \in Rd
      BY <2>12 DEF PeekDone, TypeOK, Rd
    <3>2. peek' \in Peek
      BY <2>12 DEF PeekDone, TypeOK, Peek
    <3>3. QED
      BY <2>12, <3>1, <3>2, HeapClockType, OffTypes DEF PeekDone, TypeOK
  <2>10. CASE Reset
    <3>1. car_out' \in Word /\ cdr_out' \in Word
      BY <2>10, ZeroIsAddr DEF Reset, TypeOK
    <3>2. hp' \in 0 .. HeapCells
      BY <2>10, HeapCellsAssumption DEF Reset
    <3>3. QED
      BY <2>10, <3>1, <3>2, ResetTypes DEF Reset, TypeOK
  <2>11. CASE UNCHANGED lduVars
    BY <2>11 DEF lduVars, TypeOK
  <2>13. QED
    BY <2>1, <2>2, <2>3, <2>4, <2>5, <2>6, <2>7, <2>8, <2>9, <2>10, <2>11, <2>12 DEF Next, Reading
<1>3. QED
  BY <1>1, <1>2, PTL DEF Spec

-----------------------------------------------------------------------------
LEMMA QuietHeapClock ==
  ASSUME TypeOK, HeapClock, ~port.we_car, ~port.we_cdr
  PROVE  /\ car_ram' = car_ram /\ cdr_ram' = cdr_ram
         /\ car_out' = car_ram[port.addr] /\ cdr_out' = cdr_ram[port.addr]
  BY DEF HeapClock

LEMMA OffFields ==
  ASSUME TypeOK
  PROVE  /\ WriteOff.we_car = FALSE /\ WriteOff.we_cdr = FALSE
         /\ WriteOff.addr = port.addr
         /\ AnsOff.valid = FALSE /\ AnsOff.error = FALSE
         /\ PeekOff.valid = FALSE
  BY DEF TypeOK, WriteOff, AnsOff, PeekOff, Port, Ans, Peek

LEMMA ErrorPipeline == ASSUME TypeOK, PipelineInv, Ready, Error PROVE PipelineInv'
  <1>1. ans'.valid = FALSE /\ peek'.valid = FALSE /\ port'.we_car = FALSE /\ rd'.state = 0
    BY OffFields DEF Error, Ready, TypeOK, AnsOff, Ans
  <1>2. QED
    BY <1>1 DEF PipelineInv, ReadIsUndisturbed, RamOutputIsCurrent, AllocationIsNewest, OneAnswer

(* The pipeline never mixes two operations.  The invariant is inductive as *)
(* it stands, given the types.                                             *)
THEOREM PipelineCorrect == Spec => []PipelineInv
<1> USE DEF PipelineInv, ReadIsUndisturbed, RamOutputIsCurrent, AllocationIsNewest, OneAnswer
<1>1. Init => PipelineInv
  BY DEF Init, ResetPort, ResetRd, ResetAns, ResetPeek
<1>2. TypeOK /\ PipelineInv /\ [Next]_lduVars => PipelineInv'
  <2> SUFFICES ASSUME TypeOK, PipelineInv, [Next]_lduVars PROVE PipelineInv'
    OBVIOUS
  <2>1. ASSUME NEW a \in OperandA, NEW b \in OperandB, CmdCons(a, b) PROVE PipelineInv'
    <3>1. rd'.state = 0 /\ peek'.valid = FALSE
      BY <2>1, OffFields DEF CmdCons, Ready
    <3>2. ans'.valid /\ ~ans'.error
      BY <2>1 DEF CmdCons, TypeOK, AnsOff, Ans
    <3>3. port'.we_cdr /\ hp' > 0 /\ port'.addr = hp' - 1
      BY <2>1 DEF CmdCons, TypeOK
    <3>4. QED
      BY <3>1, <3>2, <3>3
  <2>2. ASSUME NEW a \in OperandA, NEW b \in OperandB, CmdSetCdr(a, b) PROVE PipelineInv'
    <3>1. rd'.state = 0 /\ peek'.valid = FALSE
      BY <2>2, OffFields DEF CmdSetCdr, Ready
    <3>2. ans'.error = FALSE /\ port'.we_car = FALSE
      BY <2>2 DEF CmdSetCdr, TypeOK, AnsOff, Ans, WriteOff, Port
    <3>3. QED
      BY <3>1, <3>2
  <2>3. ASSUME NEW a \in OperandA, NEW t \in {CAR, CDR, FETCH_PAIR}, CmdRead(t, a)
        PROVE  PipelineInv'
    <3>1. rd'.state = 1 /\ peek'.valid = FALSE /\ ans'.valid = FALSE /\ ans'.error = FALSE
      BY <2>3, OffFields DEF CmdRead
    <3>2. port'.we_car = FALSE /\ port'.we_cdr = FALSE
      BY <2>3 DEF CmdRead, TypeOK, WriteOff, Port
    <3>3. QED
      BY <3>1, <3>2
  <2>4. ASSUME NEW a \in OperandA, CmdTypeError(a) PROVE PipelineInv'
    BY <2>4, ErrorPipeline DEF CmdTypeError
  <2>5. ASSUME NEW i \in Addr, CmdPeek(i) PROVE PipelineInv'
    <3>1. rd'.state = 1 /\ peek'.valid = FALSE /\ ans'.valid = FALSE /\ ans'.error = FALSE
      BY <2>5, OffFields DEF CmdPeek, TypeOK, Rd
    <3>2. port'.we_car = FALSE /\ port'.we_cdr = FALSE
      BY <2>5 DEF CmdPeek, TypeOK, WriteOff, Port
    <3>3. QED
      BY <3>1, <3>2
  <2>6. CASE CmdConsFull
    BY <2>6, ErrorPipeline DEF CmdConsFull
  <2>7. CASE NoCmd
    <3>1. /\ rd'.state = 0 /\ peek'.valid = FALSE /\ ans'.valid = FALSE /\ ans'.error = FALSE
          /\ port'.we_car = FALSE
      BY <2>7, OffFields DEF NoCmd, Ready
    <3>2. QED
      BY <3>1
  <2>8. CASE ReadWait
    <3>1. /\ rd'.state = 2 /\ peek'.valid = FALSE /\ ans'.valid = FALSE /\ ans'.error = FALSE
          /\ port'.we_car = FALSE /\ port'.we_cdr = FALSE /\ port'.addr = port.addr
      BY <2>8, OffFields DEF ReadWait, TypeOK, Rd
    <3>2. /\ car_ram' = car_ram /\ cdr_ram' = cdr_ram
          /\ car_out' = car_ram[port.addr] /\ cdr_out' = cdr_ram[port.addr]
      BY <2>8, QuietHeapClock DEF ReadWait
    <3>3. QED
      BY <3>1, <3>2
  <2>9. CASE ReadDone
    <3>1. rd'.state = 0 /\ port'.we_car = FALSE
      BY <2>9, OffFields DEF ReadDone, TypeOK, Rd
    <3>2. ans'.error = FALSE /\ peek'.valid = FALSE
      BY <2>9, OffFields DEF ReadDone
    <3>3. QED
      BY <3>1, <3>2
  <2>12. CASE PeekDone
    <3>1. rd'.state = 0 /\ port'.we_car = FALSE
      BY <2>12, OffFields DEF PeekDone, TypeOK, Rd
    <3>2. ans'.error = FALSE /\ ans'.valid = FALSE
      BY <2>12, OffFields DEF PeekDone
    <3>3. QED
      BY <3>1, <3>2
  <2>10. CASE Reset
    BY <2>10 DEF Reset, ResetPort, ResetRd, ResetAns, ResetPeek
  <2>11. CASE UNCHANGED lduVars
    BY <2>11 DEF lduVars
  <2>13. QED
    BY <2>1, <2>2, <2>3, <2>4, <2>5, <2>6, <2>7, <2>8, <2>9, <2>10, <2>11, <2>12 DEF Next, Reading
<1>3. QED
  BY <1>1, <1>2, TypeCorrect, PTL DEF Spec

-----------------------------------------------------------------------------
(* An edge writes the port into the RAM, so what the RAM holds afterwards  *)
(* is what the caller already saw before.                                  *)
LEMMA EdgeDrainsPort ==
  ASSUME TypeOK, HeapClock, NEW i \in Addr
  PROVE  car_ram'[i] = CarAt(i) /\ cdr_ram'[i] = CdrAt(i)
  BY DEF TypeOK, HeapClock, CarAt, CdrAt, Port

LEMMA StoreKept ==
  ASSUME TypeOK, HeapClock, port'.we_car = FALSE, port'.we_cdr = FALSE
  PROVE  StoreMem' = StoreMem
  <1>1. \A i \in Addr : CarAt(i)' = CarAt(i) /\ CdrAt(i)' = CdrAt(i)
    BY EdgeDrainsPort DEF CarAt, CdrAt
  <1>2. QED
    BY <1>1 DEF StoreMem

(* The instance of ConsStore speaks of the same words and addresses.       *)
LEMMA SameVocabulary ==
  /\ Store!Word = Word
  /\ Store!Addr = Addr
  /\ \A w : Store!AddrOf(w) = AddrOf(w) /\ Store!IsCons(w) = IsCons(w)
  /\ \A v : Store!MkWord(Store!TAG_CONS, v) = MkWord(TAG_CONS, v)
<1>1. Store!ValueMod = ValueMod
  BY SMT DEF Store!ValueMod, ValueMod
<1>2. QED
  BY <1>1 DEF Store!Word, Word, Store!Tag, Tag, Store!Value, Value, Store!Addr, Addr,
              Store!AddrOf, AddrOf, Store!IsCons, IsCons, Store!MkWord, MkWord,
              Store!TAG_CONS, TAG_CONS

LEMMA StoreMemType == ASSUME TypeOK PROVE StoreMem \in [Addr -> Store!Pair]
  <1>1. \A i \in Addr : CarAt(i) \in Word /\ CdrAt(i) \in Word
    BY DEF TypeOK, CarAt, CdrAt, Port
  <1>2. QED
    BY <1>1, SameVocabulary DEF StoreMem, Store!Pair

(* A CAR once written stays until the heap is taken back.                  *)
LEMMA StepKeepsCars ==
  ASSUME TypeOK, PipelineInv, [Next]_lduVars, hp' >= hp, NEW i \in Addr, i < hp
  PROVE  CarAt(i)' = CarAt(i)
<1>1. CASE HeapClock /\ port'.we_car = FALSE
  BY <1>1, EdgeDrainsPort DEF CarAt
<1>2. ASSUME NEW a \in OperandA, NEW b \in OperandB, CmdCons(a, b) PROVE CarAt(i)' = CarAt(i)
  <2>1. port'.addr = hp /\ port'.addr # i /\ HeapClock
    BY <1>2 DEF CmdCons, TypeOK, Addr
  <2>2. QED
    BY <2>1, EdgeDrainsPort DEF CarAt
<1>3. CASE Reset
  <2>1. hp = 0
    BY <1>3 DEF Reset, TypeOK
  <2>2. QED
    BY <2>1 DEF Addr
<1>4. CASE UNCHANGED lduVars
  BY <1>4 DEF lduVars, CarAt
<1>5. ASSUME NEW a \in OperandA, NEW b \in OperandB, CmdSetCdr(a, b)
      PROVE  HeapClock /\ port'.we_car = FALSE
  BY <1>5 DEF CmdSetCdr, TypeOK, Port, WriteOff
<1>6. ASSUME NEW a \in OperandA, NEW t \in {CAR, CDR, FETCH_PAIR}, CmdRead(t, a)
      PROVE  HeapClock /\ port'.we_car = FALSE
  BY <1>6 DEF CmdRead, TypeOK, Port, WriteOff
<1>7. ASSUME NEW j \in Addr, CmdPeek(j)
      PROVE  HeapClock /\ port'.we_car = FALSE
  BY <1>7 DEF CmdPeek, TypeOK, Port, WriteOff
<1>8. ASSUME \/ \E a \in OperandA : CmdTypeError(a)
             \/ CmdConsFull \/ NoCmd \/ ReadWait \/ ReadDone \/ PeekDone
      PROVE  HeapClock /\ port'.we_car = FALSE
  BY <1>8, OffFields DEF CmdTypeError, CmdConsFull, NoCmd, ReadWait, ReadDone, PeekDone, Error
<1>9. QED
  BY <1>1, <1>2, <1>3, <1>4, <1>5, <1>6, <1>7, <1>8 DEF Next, Reading

(* The CAR of an allocated pair is immutable between resets.               *)
THEOREM CarsImmutable == Spec => CarWrittenOnce
<1>1. ASSUME TypeOK, PipelineInv, [Next]_lduVars
      PROVE  [hp' >= hp => \A i \in Addr : i < hp => CarAt(i)' = CarAt(i)]_lduVars
  BY <1>1, StepKeepsCars
<1>2. QED
  BY <1>1, TypeCorrect, PipelineCorrect, PTL DEF Spec, CarWrittenOnce

-----------------------------------------------------------------------------
(* What a step shows the caller, from the registers it sets.               *)
LEMMA AnswerShown ==
  ASSUME TypeOK', OneAnswer'
  PROVE  /\ ans'.valid => StoreAnswer' = [status |-> "ok", first |-> ans'.result, second |-> ans'.result_cdr]
         /\ ans'.error => Store!Refuse
         /\ peek'.valid => StoreAnswer' = [status |-> "peek", first |-> peek'.car, second |-> peek'.cdr]
         /\ ~ans'.valid /\ ~ans'.error /\ ~peek'.valid => Store!Silent
  BY SameVocabulary DEF TypeOK, OneAnswer, StoreAnswer, Ans, Peek, Store!Refuse, Store!Silent

LEMMA OkShown ==
  ASSUME TypeOK', OneAnswer', ans'.valid
  PROVE  Store!Answers("ok", ans'.result)
  BY AnswerShown, SameVocabulary DEF TypeOK, Ans, Store!Answers

LEMMA ErrorIsRefused ==
  ASSUME TypeOK, TypeOK', PipelineInv', Ready, Error
  PROVE  Store!Refuse /\ StoreMem' = StoreMem /\ hp' = hp /\ StoreAsk' = StoreAsk
<1>1. ans'.error
  BY DEF Error, TypeOK, AnsOff, Ans
<1>2. Store!Refuse
  BY <1>1, AnswerShown DEF PipelineInv
<1>3. StoreMem' = StoreMem
  BY StoreKept, OffFields DEF Error
<1>4. QED
  BY <1>2, <1>3 DEF Error, StoreAsk, Ready

LEMMA TypeErrorRefines ==
  ASSUME TypeOK, TypeOK', PipelineInv', NEW a \in OperandA, CmdTypeError(a)
  PROVE  Store!TypeError(a)
  BY ErrorIsRefused, SameVocabulary DEF CmdTypeError, Ready, StoreAsk, Store!TypeError, Store!NoAsk

LEMMA FullRefines ==
  ASSUME TypeOK, TypeOK', PipelineInv', CmdConsFull
  PROVE  Store!ConsFull
  BY ErrorIsRefused DEF CmdConsFull, Ready, StoreAsk, Store!ConsFull, Store!NoAsk

LEMMA ConsRefines ==
  ASSUME TypeOK, TypeOK', PipelineInv', NEW a \in OperandA, NEW b \in OperandB, CmdCons(a, b)
  PROVE  Store!Cons(a, b)
<1>1. hp \in Addr /\ hp < HeapCells
  BY HeapCellsAssumption DEF CmdCons, TypeOK, Addr
<1>2. ans'.valid /\ ans'.result = MkWord(TAG_CONS, hp)
  BY DEF CmdCons, TypeOK, AnsOff, Ans
<1>3. Store!Answers("ok", Store!MkWord(Store!TAG_CONS, hp))
  BY <1>2, OkShown, SameVocabulary DEF PipelineInv
<1>4. StoreMem' = [StoreMem EXCEPT ![hp] = [car |-> a, cdr |-> b]]
  <2>1. \A i \in Addr : /\ CarAt(i)' = IF i = hp THEN a ELSE CarAt(i)
                        /\ CdrAt(i)' = IF i = hp THEN b ELSE CdrAt(i)
    BY EdgeDrainsPort DEF CmdCons, CarAt, CdrAt
  <2>2. QED
    BY <1>1, <2>1 DEF StoreMem
<1>5. QED
  BY <1>1, <1>3, <1>4 DEF CmdCons, Ready, StoreAsk, Store!Cons, Store!NoAsk

LEMMA SetCdrRefines ==
  ASSUME TypeOK, TypeOK', PipelineInv', NEW a \in OperandA, NEW b \in OperandB, CmdSetCdr(a, b)
  PROVE  Store!SetCdr(a, b)
<1>1. AddrOf(a) \in Addr
  BY WordsAssumption, AddrOfInAddr
<1>2. ans'.valid /\ ans'.result = b
  BY DEF CmdSetCdr, TypeOK, AnsOff, Ans
<1>3. Store!Answers("ok", b)
  BY <1>2, OkShown DEF PipelineInv
<1>4. StoreMem' = [StoreMem EXCEPT ![AddrOf(a)].cdr = b]
  <2>1. /\ port'.we_car = FALSE /\ port'.we_cdr = TRUE
        /\ port'.addr = AddrOf(a) /\ port'.cdr_in = b
    BY <1>1 DEF CmdSetCdr, TypeOK, WriteOff, Port
  <2>2. \A i \in Addr : /\ CarAt(i)' = CarAt(i)
                        /\ CdrAt(i)' = IF i = AddrOf(a) THEN b ELSE CdrAt(i)
    BY <2>1, EdgeDrainsPort DEF CmdSetCdr, CarAt, CdrAt
  <2>3. QED
    BY <1>1, <2>2 DEF StoreMem
<1>5. QED
  BY <1>3, <1>4, SameVocabulary DEF CmdSetCdr, Ready, StoreAsk, Store!SetCdr, Store!NoAsk

LEMMA ReadRefines ==
  ASSUME TypeOK, TypeOK', PipelineInv', NEW a \in OperandA,
         NEW t \in {CAR, CDR, FETCH_PAIR}, CmdRead(t, a)
  PROVE  \E k \in Store!Kind, i \in Store!Addr : Store!Read(k, i)
<1>1. AddrOf(a) \in Store!Addr
  BY WordsAssumption, AddrOfInAddr, SameVocabulary
<1>2. port'.we_car = FALSE /\ port'.we_cdr = FALSE /\ port'.addr = AddrOf(a)
  BY <1>1, SameVocabulary DEF CmdRead, TypeOK, WriteOff, Port
<1>3. StoreMem' = StoreMem
  BY <1>2, StoreKept DEF CmdRead
<1>4. Store!Silent
  BY AnswerShown, OffFields DEF CmdRead, PipelineInv
<1>5. AskedKind' \in Store!Kind
  BY DEF AskedKind, Store!Kind
<1>6. StoreAsk' = [kind |-> AskedKind', addr |-> AddrOf(a)]
  BY <1>2 DEF CmdRead, StoreAsk
<1>7. Store!Read(AskedKind', AddrOf(a))
  BY <1>3, <1>4, <1>6 DEF CmdRead, Ready, StoreAsk, Store!Read, Store!NoAsk
<1>8. QED
  BY <1>1, <1>5, <1>7

LEMMA PeekRefines ==
  ASSUME TypeOK, TypeOK', PipelineInv', NEW i \in Addr, CmdPeek(i)
  PROVE  Store!Read("peek", i)
<1>1. port'.we_car = FALSE /\ port'.we_cdr = FALSE /\ port'.addr = i
  BY DEF CmdPeek, TypeOK, WriteOff, Port
<1>2. StoreMem' = StoreMem
  BY <1>1, StoreKept DEF CmdPeek
<1>3. Store!Silent
  BY AnswerShown, OffFields DEF CmdPeek, PipelineInv
<1>4. StoreAsk' = [kind |-> "peek", addr |-> i]
  BY <1>1 DEF CmdPeek, StoreAsk, AskedKind
<1>5. QED
  BY <1>2, <1>3, <1>4 DEF CmdPeek, Ready, StoreAsk, Store!Read, Store!NoAsk

LEMMA QuietRefines ==
  ASSUME TypeOK, TypeOK', PipelineInv, PipelineInv', NoCmd \/ ReadWait
  PROVE  Store!Idle
<1>1. StoreMem' = StoreMem
  BY StoreKept, OffFields DEF NoCmd, ReadWait
<1>2. Store!Silent
  BY AnswerShown, OffFields DEF NoCmd, ReadWait, PipelineInv
<1>3. StoreAsk' = StoreAsk
  <2>1. port'.addr = port.addr
    BY OffFields DEF NoCmd, ReadWait
  <2>2. CASE NoCmd
    BY <2>2 DEF NoCmd, Ready, StoreAsk
  <2>3. CASE ReadWait
    <3>1. rd'.type = rd.type /\ rd'.peek = rd.peek /\ rd'.state = 2
      BY <2>3 DEF ReadWait, TypeOK, Rd
    <3>2. QED
      BY <2>1, <2>3, <3>1 DEF ReadWait, StoreAsk, AskedKind
  <2>4. QED
    BY <2>2, <2>3
<1>4. QED
  BY <1>1, <1>2, <1>3 DEF NoCmd, ReadWait, Store!Idle

(* A completed read answers with what the pair holds: the RAM output was   *)
(* registered with the write port off, so it is the addressed pair.        *)
LEMMA DoneSeesPair ==
  ASSUME TypeOK, PipelineInv, rd.state = 2
  PROVE  /\ StoreAsk = [kind |-> AskedKind, addr |-> port.addr]
         /\ StoreMem[port.addr] = [car |-> car_out, cdr |-> cdr_out]
<1>1. ~port.we_car /\ ~port.we_cdr /\ port.addr \in Addr
  BY DEF PipelineInv, ReadIsUndisturbed, TypeOK, Port
<1>2. CarAt(port.addr) = car_out /\ CdrAt(port.addr) = cdr_out
  BY <1>1 DEF PipelineInv, RamOutputIsCurrent, CarAt, CdrAt
<1>3. QED
  BY <1>1, <1>2 DEF StoreAsk, StoreMem

LEMMA ReadDoneRefines ==
  ASSUME TypeOK, TypeOK', PipelineInv, PipelineInv', ReadDone
  PROVE  Store!Reply
<1>1. StoreAsk # Store!NoAsk
  BY DoneSeesPair DEF ReadDone, AskedKind, Store!NoAsk
<1>2. StoreAsk' = Store!NoAsk
  BY DEF ReadDone, StoreAsk, TypeOK, Rd, Store!NoAsk
<1>3. StoreMem' = StoreMem /\ hp' = hp
  BY StoreKept, OffFields DEF ReadDone
<1>4. Store!Answers("ok", ans'.result)
  BY OkShown DEF ReadDone, PipelineInv
<1>5. StoreAnswer' = [status |-> "ok", first |-> ans'.result, second |-> ans'.result_cdr]
  BY AnswerShown DEF ReadDone, PipelineInv
<1>6. CASE rd.type = CAR
  BY <1>1, <1>2, <1>3, <1>4, <1>6, DoneSeesPair
     DEF ReadDone, AskedKind, Store!Reply, CAR, CDR
<1>7. CASE rd.type = CDR
  BY <1>1, <1>2, <1>3, <1>4, <1>7, DoneSeesPair
     DEF ReadDone, AskedKind, Store!Reply, CAR, CDR
<1>8. CASE rd.type = FETCH_PAIR
  BY <1>1, <1>2, <1>3, <1>5, <1>8, DoneSeesPair
     DEF ReadDone, AskedKind, Store!Reply, CAR, CDR, FETCH_PAIR
<1>9. QED
  BY <1>6, <1>7, <1>8 DEF TypeOK, Rd

LEMMA PeekDoneRefines ==
  ASSUME TypeOK, TypeOK', PipelineInv, PipelineInv', PeekDone
  PROVE  Store!Reply
<1>1. StoreAsk # Store!NoAsk
  BY DoneSeesPair DEF PeekDone, AskedKind, Store!NoAsk
<1>2. StoreAsk' = Store!NoAsk
  BY DEF PeekDone, StoreAsk, TypeOK, Rd, Store!NoAsk
<1>3. StoreMem' = StoreMem /\ hp' = hp
  BY StoreKept, OffFields DEF PeekDone
<1>4. StoreAnswer' = [status |-> "peek", first |-> peek'.car, second |-> peek'.cdr]
  BY AnswerShown DEF PeekDone, PipelineInv
<1>5. QED
  BY <1>1, <1>2, <1>3, <1>4, DoneSeesPair DEF PeekDone, AskedKind, Store!Reply

LEMMA ResetRefines ==
  ASSUME TypeOK, TypeOK', PipelineInv', Reset
  PROVE  Store!Reset
<1>1. StoreAsk' = Store!NoAsk
  BY DEF Reset, ResetRd, StoreAsk, Store!NoAsk
<1>2. Store!Silent
  BY AnswerShown DEF Reset, ResetAns, ResetPeek, PipelineInv
<1>3. StoreMem' \in [Store!Addr -> Store!Pair]
  <2>1. \A i \in Addr : CarAt(i)' \in Word /\ CdrAt(i)' \in Word
    BY DEF TypeOK, CarAt, CdrAt, Port
  <2>2. QED
    BY <2>1, SameVocabulary DEF StoreMem, Store!Pair
<1>4. \A j \in Addr \ {port.addr} : StoreMem'[j] = StoreMem[j]
  <2>1. \A j \in Addr \ {port.addr} : CarAt(j)' = CarAt(j) /\ CdrAt(j)' = CdrAt(j)
    BY DEF Reset, ResetPort, CarAt, CdrAt
  <2>2. QED
    BY <2>1 DEF StoreMem
<1>5. port.addr \in Addr
  BY DEF TypeOK, Port
<1>6. QED
  BY <1>1, <1>2, <1>3, <1>4, <1>5, SameVocabulary DEF Reset, Store!Reset

LEMMA StutterRefines ==
  ASSUME UNCHANGED lduVars
  PROVE  UNCHANGED Store!vars
<1>1. StoreMem' = StoreMem
  BY DEF lduVars, StoreMem, CarAt, CdrAt
<1>2. StoreAsk' = StoreAsk /\ StoreAnswer' = StoreAnswer
  BY DEF lduVars, StoreAsk, StoreAnswer, AskedKind
<1>3. QED
  BY <1>1, <1>2 DEF lduVars, Store!vars

(* The clocked data unit implements ConsStore: its initial states are      *)
(* stores with nothing allocated, and every edge is a step of the store.   *)
THEOREM StoreImplemented == Spec => ImplementsStore
<1>1. ASSUME Init PROVE Store!Init
  <2>1. StoreMem \in [Store!Addr -> Store!Pair]
    <3>1. \A i \in Addr : CarAt(i) \in Word /\ CdrAt(i) \in Word
      BY <1>1, WordsAssumption DEF Init, ResetPort, CarAt, CdrAt
    <3>2. QED
      BY <3>1, SameVocabulary DEF StoreMem, Store!Pair
  <2>2. StoreAnswer \in [status : {"none"}, first : Store!Word, second : Store!Word]
    BY <1>1, ResetTypes, SameVocabulary DEF Init, ResetAns, ResetPeek, StoreAnswer, Ans
  <2>3. StoreAsk = Store!NoAsk
    BY <1>1 DEF Init, ResetRd, StoreAsk, Store!NoAsk
  <2>4. QED
    BY <1>1, <2>1, <2>2, <2>3 DEF Init, Store!Init
<1>2. ASSUME TypeOK, TypeOK', PipelineInv, PipelineInv', [Next]_lduVars
      PROVE  [Store!Next]_Store!vars
  <2>1. ASSUME NEW a \in OperandA, NEW b \in OperandB, CmdCons(a, b) PROVE Store!Next
    BY <1>2, <2>1, ConsRefines DEF Store!Next
  <2>2. ASSUME NEW a \in OperandA, NEW b \in OperandB, CmdSetCdr(a, b) PROVE Store!Next
    BY <1>2, <2>2, SetCdrRefines DEF Store!Next
  <2>3. ASSUME NEW a \in OperandA, NEW t \in {CAR, CDR, FETCH_PAIR}, CmdRead(t, a)
        PROVE  Store!Next
    BY <1>2, <2>3, ReadRefines DEF Store!Next
  <2>4. ASSUME NEW a \in OperandA, CmdTypeError(a) PROVE Store!Next
    BY <1>2, <2>4, TypeErrorRefines DEF Store!Next
  <2>5. ASSUME NEW i \in Addr, CmdPeek(i) PROVE Store!Next
    <3>1. Store!Read("peek", i) /\ "peek" \in Store!Kind /\ i \in Store!Addr
      BY <1>2, <2>5, PeekRefines, SameVocabulary DEF Store!Kind
    <3>2. QED
      BY <3>1 DEF Store!Next
  <2>6. CASE CmdConsFull
    BY <1>2, <2>6, FullRefines DEF Store!Next
  <2>7. CASE NoCmd \/ ReadWait
    BY <1>2, <2>7, QuietRefines DEF Store!Next
  <2>8. CASE ReadDone
    BY <1>2, <2>8, ReadDoneRefines DEF Store!Next
  <2>9. CASE PeekDone
    BY <1>2, <2>9, PeekDoneRefines DEF Store!Next
  <2>10. CASE Reset
    BY <1>2, <2>10, ResetRefines DEF Store!Next
  <2>11. CASE UNCHANGED lduVars
    BY <2>11, StutterRefines
  <2>12. QED
    BY <1>2, <2>1, <2>2, <2>3, <2>4, <2>5, <2>6, <2>7, <2>8, <2>9, <2>10, <2>11
       DEF Next, Reading
<1>3. QED
  BY <1>1, <1>2, TypeCorrect, PipelineCorrect, PTL DEF Spec, ImplementsStore, Store!Spec
=============================================================================
