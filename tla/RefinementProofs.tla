-------------------------- MODULE RefinementProofs --------------------------
(***************************************************************************)
(* The clocked CPU of LispMachine implements the machine of LispISA, one   *)
(* instruction at a time: for every program that is given no pointer, any  *)
(* heap and memory size, any host and the board's reset at any clock.      *)
(***************************************************************************)
EXTENDS ProgramProofs

-----------------------------------------------------------------------------
(* The abstract machine speaks of the same words and instructions.         *)
LEMMA IsaMov ==
  ASSUME NEW mode, NEW a
  PROVE  ISA!MovValue(mode, a) = MovValue(mode, a)
BY DEF MovValue, Upc8Result, DecodeValue, TransformValue, PredicateValue, TransformOut,
       TransformError, Images, NOP, TOGGLE_LENGTH, TOGGLE_NASAL, NEXT_ROW, PREV_ROW, GUNA, VOICE,
       ASPIRATE, VoicePairs, AspiratePairs, Only, Cls, Row, Free, Nasal, Length, Class10, SktLayer,
       OralSkt, Ac14, An, Ik, ReservedRow, Bit, NextRow, PrevRow, WithRow, WithLength1, FlipLength,
       FlipNasal, GunaOf, CodeOf, OpOf, MkWord, TAG_FIXNUM, TAG_PRIMITIVE, ISA!MovValue,
       ISA!Upc8Result, ISA!DecodeValue, ISA!TransformValue, ISA!PredicateValue, ISA!TransformOut,
       ISA!TransformError, ISA!Images, ISA!NOP, ISA!TOGGLE_LENGTH, ISA!TOGGLE_NASAL, ISA!NEXT_ROW,
       ISA!PREV_ROW, ISA!GUNA, ISA!VOICE, ISA!ASPIRATE, ISA!VoicePairs, ISA!AspiratePairs,
       ISA!Only, ISA!Cls, ISA!Row, ISA!Free, ISA!Nasal, ISA!Length, ISA!Class10, ISA!SktLayer,
       ISA!OralSkt, ISA!Ac14, ISA!An, ISA!Ik, ISA!ReservedRow, ISA!Bit, ISA!NextRow, ISA!PrevRow,
       ISA!WithRow, ISA!WithLength1, ISA!FlipLength, ISA!FlipNasal, ISA!GunaOf, ISA!CodeOf,
       ISA!OpOf, ISA!MkWord, ISA!TAG_FIXNUM, ISA!TAG_PRIMITIVE

LEMMA IsaWrap ==
  ASSUME NEW x, NEW y
  PROVE  ISA!WrapAdd(x, y) = WrapAdd(x, y) /\ ISA!WrapSub(x, y) = WrapSub(x, y)
<1>1. ISA!ValueMod = ValueMod
  BY SMT DEF ISA!ValueMod, ValueMod
<1>2. QED
  BY <1>1 DEF ISA!WrapAdd, ISA!WrapSub, WrapAdd, WrapSub

LEMMA IsaLocal ==
  ASSUME NEW i, NEW a, NEW b
  PROVE  ISA!LocalValue(i, a, b) = LocalValue(i, a, b)
<1>1. ISA!MovValue(i.rs2, a) = MovValue(i.rs2, a)
  BY IsaMov
<1>2. \A x, y : ISA!WrapAdd(x, y) = WrapAdd(x, y) /\ ISA!WrapSub(x, y) = WrapSub(x, y)
  BY IsaWrap
<1>3. QED
  BY <1>1, <1>2
     DEF LocalValue, MkWord, TAG_FIXNUM, TAG_SYMBOL, TAG_NIL, TAG_CONS, Truth, SymT, Nil, SYM_T,
       IsCons, OP_LOADI, OP_LOADSYM, OP_MOV, OP_ATOM, OP_EQ, OP_ADD, OP_SUB, ISA!LocalValue,
       ISA!MkWord, ISA!TAG_FIXNUM, ISA!TAG_SYMBOL, ISA!TAG_NIL, ISA!TAG_CONS, ISA!Truth, ISA!SymT,
       ISA!Nil, ISA!SYM_T, ISA!IsCons, ISA!OP_LOADI, ISA!OP_LOADSYM, ISA!OP_MOV, ISA!OP_ATOM,
       ISA!OP_EQ, ISA!OP_ADD, ISA!OP_SUB

LEMMA IsaWrite ==
  ASSUME NEW i, NEW r
  PROVE  ISA!LocalWrite(i, r) = LocalWrite(i, r)
BY IsaLocal DEF LocalWrite, ISA!LocalWrite, OP_NOP, ISA!OP_NOP

LEMMA IsaForms ==
  ASSUME NEW i
  PROVE  /\ ISA!IsLocal(i) <=> IsLocal(i)
         /\ ISA!IsCall(i) <=> IsCall(i)
         /\ ISA!IsTrap(i) <=> IsTrap(i)
         /\ ISA!IsFetchPair(i) <=> IsFetchPair(i)
         /\ ISA!IsSetCdr(i) <=> IsSetCdr(i)
         /\ ISA!IsSandhi(i) <=> IsSandhi(i)
         /\ ISA!UsesLdu(i) <=> UsesLdu(i)
BY DEF IsLocal, IsCall, IsTrap, IsFetchPair, IsSetCdr, IsSandhi, UsesLdu, OP_NOP, OP_LOADI, OP_MOV,
       OP_CONS, OP_CAR, OP_CDR, OP_ATOM, OP_EQ, OP_JMP, OP_LOADSYM, OP_JF, OP_HALT, OP_OUT, OP_ADD,
       OP_SUB, OP_IN, ISA!IsLocal, ISA!IsCall, ISA!IsTrap, ISA!IsFetchPair, ISA!IsSetCdr,
       ISA!IsSandhi, ISA!UsesLdu, ISA!OP_NOP, ISA!OP_LOADI, ISA!OP_MOV, ISA!OP_CONS, ISA!OP_CAR,
       ISA!OP_CDR, ISA!OP_ATOM, ISA!OP_EQ, ISA!OP_JMP, ISA!OP_LOADSYM, ISA!OP_JF, ISA!OP_HALT,
       ISA!OP_OUT, ISA!OP_ADD, ISA!OP_SUB, ISA!OP_IN

LEMMA IsaCodes ==
  /\ ISA!OP_CONS = OP_CONS /\ ISA!OP_CAR = OP_CAR /\ ISA!OP_CDR = OP_CDR /\ ISA!OP_JMP = OP_JMP
  /\ ISA!OP_JF = OP_JF /\ ISA!OP_HALT = OP_HALT /\ ISA!OP_OUT = OP_OUT /\ ISA!OP_IN = OP_IN
  /\ ISA!TAG_FIXNUM = TAG_FIXNUM /\ ISA!TAG_CONS = TAG_CONS /\ ISA!TAG_NIL = TAG_NIL
  /\ ISA!Byte = Byte /\ ISA!NoErr = NoErr
  /\ \A w : ISA!IsCons(w) <=> IsCons(w)
  /\ \A t, v : ISA!MkWord(t, v) = MkWord(t, v)
  /\ \A l : ISA!Packed(l) = Packed(l)
BY DEF OP_CONS, OP_CAR, OP_CDR, OP_JMP, OP_JF, OP_HALT, OP_OUT, OP_IN, TAG_FIXNUM, TAG_CONS,
       TAG_NIL, Byte, NoErr, IsCons, MkWord, Packed, ISA!OP_CONS, ISA!OP_CAR, ISA!OP_CDR,
       ISA!OP_JMP, ISA!OP_JF, ISA!OP_HALT, ISA!OP_OUT, ISA!OP_IN, ISA!TAG_FIXNUM, ISA!TAG_CONS,
       ISA!TAG_NIL, ISA!Byte, ISA!NoErr, ISA!IsCons, ISA!MkWord, ISA!Packed

LEMMA IsaSandhi ==
  ASSUME NEW p, NEW c
  PROVE  ISA!SandhiOf(p, c) = Eng!SandhiOf(p, c)
BY DEF Eng!SandhiOf, Eng!Rule, Eng!Savarna, Eng!Guna, Eng!Yan, Eng!Only, Eng!OralSkt, Eng!SktLayer,
       Eng!Class10, Eng!Cls, Eng!Row, Eng!Free, Eng!Nasal, Eng!Mk, ISA!SandhiOf, ISA!Rule,
       ISA!Savarna, ISA!Guna, ISA!Yan, ISA!Only, ISA!OralSkt, ISA!SktLayer, ISA!Class10, ISA!Cls,
       ISA!Row, ISA!Free, ISA!Nasal, ISA!Mk

-----------------------------------------------------------------------------
(* The sandhi engine inside the machine.  Its walk finds the first rule    *)
(* that matches the codes it holds (as in UnitProofs), and those are the *)
(* two low bytes of rs1 until its result is written.                       *)
Codes    == [prev |-> (A.value \div 256) % 256, curr |-> A.value % 256]
Tried(n) == \A s \in 0 .. (n - 1) : Eng!Rule(s, codes.prev, codes.curr) = {}
WalkInv ==
    /\ fsm.state \in {"LOAD_RULE", "APPLY"} => ~fsm.matched /\ Tried(fsm.rule)
    /\ fsm.state = "CHECK_NEXT" => /\ Tried(fsm.rule)
                                   /\ fsm.matched => latch \in Eng!Hit
                                   /\ ~fsm.matched => Eng!Hit = {}
    /\ Eng!DoneIsSandhi
AskedInv == state = "WAIT_SANDHI" => codes = Codes

LEMMA RuleGivesOne ==
  ASSUME NEW r \in 0 .. 2, NEW p, NEW c, NEW x \in Eng!Rule(r, p, c), NEW y \in Eng!Rule(r, p, c)
  PROVE  x = y
<1>1. CASE r = 0
  BY <1>1 DEF Eng!Rule, Eng!Savarna, Eng!Only
<1>2. CASE r = 1
  BY <1>2 DEF Eng!Rule, Eng!Guna, Eng!Only
<1>3. CASE r = 2
  BY <1>3 DEF Eng!Rule, Eng!Yan, Eng!Only
<1>4. QED
  BY <1>1, <1>2, <1>3

LEMMA FirstRule ==
  ASSUME NEW r \in 0 .. 2, NEW p, NEW c, NEW x \in Eng!Rule(r, p, c),
         \A s \in 0 .. (r - 1) : Eng!Rule(s, p, c) = {}
  PROVE  Eng!SandhiOf(p, c) = x
<1> DEFINE Matches(q) == Eng!Rule(q, p, c) # {} /\ \A s \in 0 .. (q - 1) : Eng!Rule(s, p, c) = {}
           first      == CHOOSE q \in 0 .. 2 : Matches(q)
           result     == CHOOSE y \in Eng!Rule(first, p, c) : TRUE
<1>1. first \in 0 .. 2 /\ Matches(first)
  <2>1. \E q \in 0 .. 2 : Matches(q)
    OBVIOUS
  <2> HIDE DEF Matches
  <2>2. QED
    BY <2>1
<1>2. first = r
  <2> HIDE DEF first
  <2>1. first < r => first \in 0 .. (r - 1)
    BY <1>1
  <2>2. r < first => r \in 0 .. (first - 1)
    BY <1>1
  <2>3. first = r \/ first < r \/ r < first
    BY <1>1
  <2>4. QED
    BY <1>1, <2>1, <2>2, <2>3
<1>3. result \in Eng!Rule(r, p, c)
  <2> HIDE DEF first
  <2>1. QED
    BY <1>2
<1>4. result = x
  <2> HIDE DEF first, result
  <2>1. QED
    BY <1>3, RuleGivesOne
<1>5. ~ \A q \in 0 .. 2 : Eng!Rule(q, p, c) = {}
  OBVIOUS
<1>6. Eng!SandhiOf(p, c) = result
  BY <1>5 DEF Eng!SandhiOf
<1>7. QED
  BY <1>4, <1>6

LEMMA ApplyWalks ==
  ASSUME EngOK, WalkInv, Eng!Apply
  PROVE  WalkInv'
<1>1. /\ fsm'.state = "CHECK_NEXT" /\ fsm'.rule = fsm.rule /\ codes' = codes
      /\ ~fsm.matched /\ Tried(fsm.rule)
  BY DEF Eng!Apply, EngOK, WalkInv
<1>2. /\ fsm'.matched => latch' \in Eng!Hit
      /\ ~fsm'.matched => Eng!Hit = {}
  BY <1>1 DEF Eng!Apply, EngOK
<1>3. Tried(fsm.rule)' /\ Eng!Hit' = Eng!Hit
  BY <1>1 DEF Tried, Eng!Hit
<1>4. QED
  BY <1>1, <1>2, <1>3 DEF WalkInv, Eng!DoneIsSandhi, Eng!done, Tried

LEMMA CheckWalks ==
  ASSUME EngOK, WalkInv, Eng!CheckNext
  PROVE  WalkInv'
<1>0. /\ fsm.rule \in 0 .. 2 /\ Tried(fsm.rule) /\ codes' = codes
      /\ fsm.matched => latch \in Eng!Hit
      /\ ~fsm.matched => Eng!Hit = {}
  BY DEF Eng!CheckNext, EngOK, WalkInv
<1>1. CASE fsm.matched /\ fsm' = [fsm EXCEPT !.state = "OUTPUT"] /\ latch' = latch
  <2>1. fsm'.state = "OUTPUT"
    BY <1>1 DEF EngOK
  <2>2. latch' = Eng!SandhiOf(codes'.prev, codes'.curr)
    BY <1>0, <1>1, FirstRule DEF Eng!Hit, Tried
  <2>3. QED
    BY <2>1, <2>2 DEF WalkInv, Eng!DoneIsSandhi
<1>2. CASE /\ ~fsm.matched /\ fsm.rule = 2 /\ fsm' = [fsm EXCEPT !.state = "OUTPUT"]
           /\ latch' = Eng!Mk(0, codes.prev, codes.curr)
  <2>1. fsm'.state = "OUTPUT"
    BY <1>2 DEF EngOK
  <2>2. \A s \in 0 .. 2 : Eng!Rule(s, codes.prev, codes.curr) = {}
    BY <1>0, <1>2 DEF Tried, Eng!Hit
  <2>3. latch' = Eng!SandhiOf(codes'.prev, codes'.curr)
    BY <1>0, <1>2, <2>2 DEF Eng!SandhiOf
  <2>4. QED
    BY <2>1, <2>3 DEF WalkInv, Eng!DoneIsSandhi
<1>3. CASE ~fsm.matched /\ fsm.rule < 2 /\ fsm' = [fsm EXCEPT !.state = "LOAD_RULE", !.rule = @ + 1]
  <2>1. fsm' = [state |-> "LOAD_RULE", rule |-> fsm.rule + 1, matched |-> fsm.matched]
    BY <1>3 DEF EngOK
  <2>2. fsm'.state = "LOAD_RULE" /\ fsm'.rule = fsm.rule + 1 /\ ~fsm'.matched
    BY <1>3, <2>1
  <2>3. Tried(fsm.rule + 1)
    BY <1>0, <1>3 DEF Tried, Eng!Hit
  <2>4. Tried(fsm.rule)'
    BY <1>0, <2>2, <2>3 DEF Tried
  <2>5. QED
    BY <2>2, <2>4 DEF WalkInv, Eng!DoneIsSandhi, Eng!done
<1>4. QED
  BY <1>1, <1>2, <1>3 DEF Eng!CheckNext

LEMMA OthersWalk ==
  ASSUME EngOK, WalkInv, [Eng!Next]_(Eng!engVars), ~Eng!Apply, ~Eng!CheckNext
  PROVE  WalkInv'
<1>1. ASSUME NEW p, NEW c, Eng!Start(p, c) PROVE WalkInv'
  <2>1. fsm' = [state |-> "LOAD_RULE", rule |-> 0, matched |-> FALSE]
    BY <1>1 DEF Eng!Start, Eng!IdleFsm
  <2>2. QED
    BY <2>1 DEF WalkInv, Eng!DoneIsSandhi, Eng!done, Tried
<1>2. CASE Eng!LoadRule
  <2>1. /\ fsm'.state = "APPLY" /\ fsm'.rule = fsm.rule /\ fsm'.matched = fsm.matched
        /\ codes' = codes /\ ~fsm.matched /\ Tried(fsm.rule)
    BY <1>2 DEF Eng!LoadRule, EngOK, WalkInv
  <2>2. QED
    BY <2>1 DEF WalkInv, Tried, Eng!DoneIsSandhi, Eng!done
<1>3. CASE Eng!Rest \/ Eng!Output \/ Eng!Reset
  <2>1. fsm'.state = "IDLE"
    BY <1>3 DEF Eng!Rest, Eng!Output, Eng!Reset, Eng!IdleFsm, EngOK
  <2>2. QED
    BY <2>1 DEF WalkInv, Eng!DoneIsSandhi, Eng!done
<1>4. CASE UNCHANGED Eng!engVars
  BY <1>4 DEF Eng!engVars, WalkInv, Eng!DoneIsSandhi, Eng!done, Tried, Eng!Hit
<1>5. QED
  BY <1>1, <1>2, <1>3, <1>4 DEF Eng!Next, Eng!Clock, Eng!Walk

LEMMA MachineWalks == Spec => []WalkInv
<1>1. Eng!Init => WalkInv
  BY DEF Eng!Init, Eng!IdleFsm, WalkInv, Eng!DoneIsSandhi, Eng!done
<1>2. EngOK /\ WalkInv /\ [Eng!Next]_(Eng!engVars) => WalkInv'
  BY ApplyWalks, CheckWalks, OthersWalk
<1>3. TypeOK => EngOK
  BY DEF TypeOK
<1>4. QED
  BY <1>1, <1>2, <1>3, MachineTypeCorrect, MachineDrivesUnits, PTL

LEMMA AskedKept ==
  ASSUME UnitInv, AskedInv, [Next]_vars
  PROVE  AskedInv'
<1>1. CASE ExecSandhi
  <2>1. state = "EXECUTE" /\ fsm.state = "IDLE" /\ UNCHANGED <<regs, instruction>>
    BY <1>1 DEF ExecSandhi, Execute, UnitInv, AwaitInv
  <2>2. Eng!Start((A.value \div 256) % 256, A.value % 256)
    BY <1>1, <2>1 DEF ExecSandhi, Eng!Walk, Eng!LoadRule, Eng!Apply, Eng!CheckNext, Eng!Output, Eng!done
  <2>3. codes' = Codes /\ Codes' = Codes
    BY <2>1, <2>2 DEF Eng!Start, Codes, A
  <2>4. QED
    BY <2>3 DEF AskedInv
<1>2. CASE UNCHANGED vars
  BY <1>2 DEF vars, coreVars, ctrlVars, Eng!engVars, AskedInv, Codes, A
<1>3. CASE Wait
  <2>1. codes' = codes
    BY <1>3 DEF Wait, Quiet, Eng!Clock, Eng!Walk, Eng!Rest, Eng!LoadRule, Eng!Apply, Eng!CheckNext, Eng!Output
  <2>2. state' = state /\ Codes' = Codes
    BY <1>3 DEF Wait, ctrlVars, Codes, A
  <2>3. QED
    BY <2>1, <2>2 DEF AskedInv
<1>4. CASE Resting /\ ~Wait
  <2>1. state' # "WAIT_SANDHI"
    BY <1>4 DEF Resting, Fetch, Decode, ExecLocal, ExecJmp, ExecJf, ExecHalt, ExecOut, ExecIn, LduValid,
                LduError, WritePairCdr, OutStart, OutDone, InTake, SandhiDone, EnterMonitor, Goto
  <2>2. QED
    BY <2>1 DEF AskedInv
<1>5. CASE ExecCons \/ ExecSetCdr \/ ExecRead \/ Rearm \/ Reboot
  BY <1>5 DEF ExecCons, ExecSetCdr, ExecRead, Rearm, Reboot, FreshCpu, CoreReset, Goto, AskedInv
<1>6. CASE Watching \/ MonArg2
  BY <1>6, MonitorShape DEF UnitInv, MonitorStates, AskedInv
<1>7. QED
  BY <1>1, <1>2, <1>3, <1>4, <1>5, <1>6, NextShape

LEMMA MachineAsks == Spec => []AskedInv
<1>1. Init => AskedInv
  BY DEF Init, CoreInit, AskedInv
<1>2. QED
  BY <1>1, AskedKept, MachineUnits, PTL DEF Spec

-----------------------------------------------------------------------------
(* What the abstract machine sees of a clock edge.                         *)
MachineInv == UnitInv /\ ServeInv /\ StagedInv /\ HeapInv /\ WalkInv /\ AskedInv
Settled    == state \notin {"OUT_WAIT", "WRITE_PAIR_CDR"}

LEMMA SeenSettled == Settled => IsaPc = pc /\ IsaRegs = regs
BY DEF Settled, IsaPc, IsaRegs

LEMMA SeenSettledAfter == Settled' => IsaPc' = pc' /\ IsaRegs' = regs'
BY DEF Settled, IsaPc, IsaRegs

LEMMA SeenHeap ==
  ASSUME Committed' = Committed, car_ram' = car_ram, cdr_ram' = cdr_ram
  PROVE  IsaCells' = IsaCells
BY DEF IsaCells

LEMMA SeenByte == ASSUME UartOK, TxClock PROVE tx'.byte = tx.byte
BY DEF UartOK, TxClock

LEMMA SeenRunning ==
  ASSUME ~Halted, ~Halted'
  PROVE  Halted' = Halted
BY DEF Halted, MonitorStates

LEMMA SeenInstruction ==
  ASSUME StagedInv, state \in {"EXECUTE", "WAIT_LDU", "OUT_START", "IN_WAIT", "WAIT_SANDHI"}
  PROVE  /\ ISA!instr = instruction /\ ISA!A = A /\ ISA!B = B /\ ISA!PcNext = PcNext
         /\ Settled /\ ~Halted
<1>1. Settled /\ ~Halted /\ instruction = imem[pc]
  BY DEF Settled, Halted, MonitorStates, StagedInv, Staging
<1>2. IsaPc = pc /\ IsaRegs = regs
  BY <1>1, SeenSettled
<1>3. QED
  BY <1>1, <1>2 DEF ISA!instr, ISA!A, ISA!B, ISA!PcNext, A, B, PcNext

(* The registers, the pc and the error record of an instruction that goes  *)
(* on to the next one.                                                     *)
LEMMA SeenAdvance ==
  ASSUME StagedInv, state \in {"EXECUTE", "WAIT_LDU", "IN_WAIT", "WAIT_SANDHI"}, state' = "FETCH",
         pc' = PcNext, imem' = imem, err' = err
  PROVE  ISA!Advance /\ IsaRegs = regs /\ IsaRegs' = regs'
<1>1. Settled' /\ ~Halted'
  BY DEF Settled, Halted, MonitorStates
<1>2. IsaPc' = pc' /\ IsaRegs' = regs'
  BY <1>1, SeenSettledAfter
<1>3. /\ ISA!PcNext = PcNext /\ IsaRegs = regs
      /\ Halted' = Halted
  BY <1>1, SeenInstruction, SeenSettled, SeenRunning
<1>4. QED
  BY <1>2, <1>3 DEF ISA!Advance

-----------------------------------------------------------------------------
(* The clocks between two instructions and inside one change nothing that  *)
(* the abstract machine sees.                                              *)
LEMMA StepStutters ==
  ASSUME MachineInv, [Next]_vars, ~Rearm, ~Reboot,
         \/ Fetch \/ Decode \/ ExecCons \/ ExecSetCdr \/ ExecRead \/ ExecOut \/ ExecIn \/ ExecSandhi
         \/ WritePairCdr \/ OutDone \/ Wait \/ EnterMonitor
  PROVE  UNCHANGED ISA!vars
<1> USE DEF Goto
<1>1. ~LduValid
  BY DEF LduValid, Fetch, Decode, ExecCons, ExecSetCdr, ExecRead, ExecOut, ExecIn, ExecSandhi, Execute,
         WritePairCdr, OutDone, Wait, Waiting, EnterMonitor
<1>2. Committed' = Committed /\ IsaCells' = IsaCells
  BY <1>1, CommittedKept, SeenHeap DEF MachineInv
<1>3. tx'.byte = tx.byte
  <2>1. TxClock
    BY DEF Fetch, Decode, ExecCons, ExecSetCdr, ExecRead, Command, ExecOut, ExecIn, ExecSandhi, WritePairCdr,
           OutDone, Wait, EnterMonitor, Quiet
  <2>2. QED
    BY <2>1, SeenByte DEF MachineInv, UnitInv, TypeOK
<1>4. imem' = imem /\ err' = err
  BY DEF Fetch, Decode, ExecCons, ExecSetCdr, ExecRead, ExecOut, ExecIn, ExecSandhi, Execute,
         WritePairCdr, OutDone, Wait, EnterMonitor, ctrlVars
<1>5. IsaPc' = IsaPc /\ IsaRegs' = IsaRegs /\ Halted' = Halted
  <2>1. CASE Fetch \/ Decode \/ ExecOut \/ ExecIn \/ ExecSandhi \/ ExecCons \/ ExecSetCdr \/ ExecRead
    <3>1. UNCHANGED <<pc, regs>> /\ Settled /\ Settled' /\ ~Halted /\ ~Halted'
      BY <2>1 DEF Fetch, Decode, ExecCons, ExecSetCdr, ExecRead, ExecOut, ExecIn, ExecSandhi, Execute,
                  Settled, Halted, MonitorStates
    <3>2. QED
      BY <3>1, SeenSettled, SeenSettledAfter, SeenRunning
  <2>2. CASE WritePairCdr
    BY <2>2 DEF WritePairCdr, SetReg, IsaPc, IsaRegs, Halted, MonitorStates
  <2>3. CASE OutDone
    BY <2>3 DEF OutDone, IsaPc, IsaRegs, PcNext, Halted, MonitorStates
  <2>4. CASE Wait
    BY <2>4 DEF Wait, ctrlVars, IsaPc, IsaRegs, PcNext, Halted
  <2>5. CASE EnterMonitor
    BY <2>5 DEF EnterMonitor, IsaPc, IsaRegs, Halted, MonitorStates
  <2>6. QED
    BY <2>1, <2>2, <2>3, <2>4, <2>5
<1>6. QED
  BY <1>2, <1>3, <1>4, <1>5 DEF ISA!vars

(* An instruction that ends in ST_EXECUTE.                                 *)
LEMMA StepExecutes ==
  ASSUME MachineInv, [Next]_vars, ~Rearm, ~Reboot, ExecLocal \/ ExecJmp \/ ExecJf \/ ExecHalt
  PROVE  ISA!Next
<1> USE DEF Goto
<1>1. state = "EXECUTE" /\ ~LduValid /\ imem' = imem
  BY DEF ExecLocal, ExecJmp, ExecJf, ExecHalt, Execute, LduValid
<1>2. Committed' = Committed /\ IsaCells' = IsaCells
  BY <1>1, CommittedKept, SeenHeap DEF MachineInv
<1>3. tx'.byte = tx.byte
  BY SeenByte DEF ExecLocal, ExecJmp, ExecJf, ExecHalt, Quiet, MachineInv, UnitInv, TypeOK
<1>4. /\ ISA!instr = instruction /\ ISA!A = A /\ ISA!B = B /\ ISA!PcNext = PcNext /\ ~Halted
      /\ IsaPc = pc /\ IsaRegs = regs
  BY <1>1, SeenInstruction, SeenSettled DEF MachineInv
<1>5. Settled'
  BY DEF ExecLocal, ExecJmp, ExecJf, ExecHalt, Settled
<1>6. IsaPc' = pc' /\ IsaRegs' = regs'
  BY <1>5, SeenSettledAfter
<1>7. CASE ExecLocal
  <2>1. ISA!Advance
    BY <1>1, <1>7, SeenAdvance DEF ExecLocal, MachineInv
  <2>2. ISA!IsLocal(ISA!instr) /\ IsaRegs' = ISA!LocalWrite(ISA!instr, IsaRegs)
    BY <1>4, <1>6, <1>7, IsaForms, IsaWrite DEF ExecLocal
  <2>3. ISA!Local
    BY <1>2, <1>3, <2>1, <2>2 DEF ISA!Local
  <2>4. QED
    BY <1>4, <2>3 DEF ISA!Next, ISA!Step
<1>8. CASE ExecJmp
  <2>0. ~Halted'
    BY <1>8 DEF ExecJmp, Halted, MonitorStates
  <2>1. Halted' = Halted /\ err' = err /\ op = OP_JMP
    BY <1>4, <1>8, <2>0, SeenRunning DEF ExecJmp
  <2>2. pc' = (IF instruction.rs1 # 0 THEN A.value ELSE instruction.imm) % ImemWords
    BY <1>8 DEF ExecJmp
  <2>3. IF ISA!IsCall(instruction)
        THEN regs' = [regs EXCEPT ![instruction.rd] = ISA!MkWord(ISA!TAG_FIXNUM, pc + 1)]
        ELSE regs' = regs
    BY <1>8, IsaForms, IsaCodes DEF ExecJmp, SetReg
  <2>4. ISA!Jump
    BY <1>1, <1>2, <1>3, <1>4, <1>6, <2>1, <2>2, <2>3, IsaCodes DEF ISA!Jump, ISA!SetReg, op
  <2>5. QED
    BY <1>4, <2>4 DEF ISA!Next, ISA!Step
<1>9. CASE ExecJf
  <2>0. ~Halted'
    BY <1>9 DEF ExecJf, Halted, MonitorStates
  <2>1. Halted' = Halted /\ err' = err /\ op = OP_JF /\ regs' = regs
    BY <1>4, <1>9, <2>0, SeenRunning DEF ExecJf
  <2>2. pc' = IF A.tag = ISA!TAG_NIL THEN instruction.imm % ImemWords ELSE PcNext
    BY <1>9, IsaCodes DEF ExecJf
  <2>3. ISA!JumpFalse
    BY <1>1, <1>2, <1>3, <1>4, <1>6, <2>1, <2>2, IsaCodes DEF ISA!JumpFalse, op
  <2>4. QED
    BY <1>4, <2>3 DEF ISA!Next, ISA!Step
<1>10. CASE ExecHalt
  <2>1. /\ Halted' = TRUE /\ op = OP_HALT /\ regs' = regs /\ pc' = pc
        /\ err' = IF ISA!IsTrap(instruction) THEN [flag |-> TRUE, pc |-> pc] ELSE err
    BY <1>10, IsaForms DEF ExecHalt, Halted
  <2>2. ISA!Halt
    BY <1>1, <1>2, <1>3, <1>4, <1>6, <2>1, IsaCodes DEF ISA!Halt, ISA!Fault, op
  <2>3. QED
    BY <1>4, <2>2 DEF ISA!Next, ISA!Step
<1>11. QED
  BY <1>7, <1>8, <1>9, <1>10

(* IN and SANDHI end when their unit has something for them.               *)
LEMMA StepTakes ==
  ASSUME MachineInv, [Next]_vars, ~Rearm, ~Reboot, InTake \/ SandhiDone
  PROVE  ISA!Next
<1> USE DEF Goto
<1>1. state \in {"IN_WAIT", "WAIT_SANDHI"} /\ ~LduValid
  BY DEF InTake, SandhiDone, LduValid
<1>2. Committed' = Committed /\ IsaCells' = IsaCells
  BY <1>1, CommittedKept, SeenHeap DEF MachineInv
<1>3. tx'.byte = tx.byte
  BY SeenByte DEF InTake, SandhiDone, Quiet, MachineInv, UnitInv, TypeOK
<1>4. /\ ISA!instr = instruction /\ ISA!A = A /\ ~Halted
      /\ ISA!Advance /\ IsaRegs = regs /\ IsaRegs' = regs'
  BY <1>1, SeenInstruction, SeenAdvance DEF InTake, SandhiDone, MachineInv
<1>5. CASE InTake
  <2>1. in.data \in ISA!Byte /\ op = ISA!OP_IN
    BY <1>5, IsaCodes DEF InTake, MachineInv, UnitInv, TypeOK, UartOK, StagedInv
  <2>2. regs' = [regs EXCEPT ![instruction.rd] = ISA!MkWord(ISA!TAG_FIXNUM, in.data)]
    BY <1>5, IsaCodes DEF InTake, SetReg
  <2>3. ISA!In
    BY <1>2, <1>3, <1>4, <2>1, <2>2 DEF ISA!In, ISA!SetReg, op
  <2>4. QED
    BY <1>4, <2>3 DEF ISA!Next, ISA!Step
<1>6. CASE SandhiDone
  <2>1. IsSandhi(instruction) /\ codes = Codes /\ latch = Eng!SandhiOf(codes.prev, codes.curr)
    BY <1>6 DEF SandhiDone, MachineInv, StagedInv, AskedInv, WalkInv, Eng!DoneIsSandhi
  <2>2. latch = ISA!SandhiOf((A.value \div 256) % 256, A.value % 256)
    BY <2>1, IsaSandhi DEF Codes
  <2>3. regs' = [regs EXCEPT ![instruction.rd] = ISA!MkWord(ISA!TAG_FIXNUM, ISA!Packed(latch))]
    BY <1>6, IsaCodes DEF SandhiDone, SetReg
  <2>4. ISA!Sandhi
    BY <1>2, <1>3, <1>4, <2>1, <2>2, <2>3, IsaForms DEF ISA!Sandhi, ISA!SetReg
  <2>5. QED
    BY <1>4, <2>4 DEF ISA!Next, ISA!Step
<1>7. QED
  BY <1>5, <1>6

(* What the end of a data unit instruction leaves alone.                   *)
LEMMA SeenAnswer ==
  ASSUME MachineInv, LduValid
  PROVE  /\ tx'.byte = tx.byte /\ imem' = imem /\ err' = err /\ pc' = PcNext
         /\ ISA!instr = instruction /\ ISA!A = A /\ ISA!B = B /\ ISA!PcNext = PcNext /\ ~Halted
         /\ IsaPc = pc /\ IsaRegs = regs /\ state = "WAIT_LDU"
         /\ regs' = [regs EXCEPT ![instruction.rd] = ans.result]
         /\ (second.on <=> IsFetchPair(instruction)) /\ UsesLdu(instruction)
         /\ IsaCells \in [0 .. (Committed - 1) -> [car : Word, cdr : Word]]
<1>1. state = "WAIT_LDU" /\ imem' = imem /\ err' = err /\ pc' = PcNext
  BY DEF LduValid
<1>2. tx'.byte = tx.byte
  BY SeenByte DEF LduValid, Quiet, MachineInv, UnitInv, TypeOK
<1>3. regs' = [regs EXCEPT ![instruction.rd] = ans.result]
  BY DEF LduValid, SetReg
<1>4. (second.on <=> IsFetchPair(instruction)) /\ UsesLdu(instruction)
  BY <1>1 DEF MachineInv, StagedInv
<1>5. Committed \in 0 .. HeapCells
  BY CommittedRange DEF MachineInv
<1>6. \A k \in 0 .. (Committed - 1) : car_ram[k] \in Word /\ cdr_ram[k] \in Word
  BY <1>5, RamWords DEF MachineInv, UnitInv, TypeOK
<1>7. IsaCells \in [0 .. (Committed - 1) -> [car : Word, cdr : Word]]
  BY <1>6 DEF IsaCells
<1>8. QED
  BY <1>1, <1>2, <1>3, <1>4, <1>7, SeenInstruction, SeenSettled DEF MachineInv

(* An instruction that writes one register is over with the answer.        *)
LEMMA AnswerEnds ==
  ASSUME MachineInv, LduValid, ~IsFetchPair(instruction)
  PROVE  ISA!Advance /\ IsaRegs' = regs'
<1>1. state' = "FETCH" /\ state = "WAIT_LDU"
  BY SeenAnswer DEF LduValid, Goto
<1>2. QED
  BY <1>1, SeenAnswer, SeenAdvance DEF MachineInv

(* The pair of rs1 is an allocated one.                                    *)
LEMMA SeenPair ==
  ASSUME MachineInv, IsCons(A)
  PROVE  /\ A.value \in 0 .. (Committed - 1) /\ LDU!AddrOf(A) = A.value
         /\ A.value \in Nat /\ A.value < Committed
         /\ A.value \in LDU!Addr
         /\ IsaCells[A.value] = [car |-> car_ram[A.value], cdr |-> cdr_ram[A.value]]
<1>1. A \in Word /\ Committed \in 0 .. HeapCells
  BY OperandTypes, CommittedRange DEF MachineInv, UnitInv, TypeOK
<1>2. Below(A, Committed)
  BY InstrFields DEF MachineInv, UnitInv, TypeOK, HeapInv, A
<1>3. LDU!AddrOf(A) = A.value /\ A.value \in 0 .. (Committed - 1)
  BY <1>1, <1>2, AddrOfLive
<1>4. A.value \in LDU!Addr
  BY <1>1, <1>3, RamWords DEF MachineInv, UnitInv, TypeOK
<1>5. QED
  BY <1>1, <1>3, <1>4 DEF IsaCells

LEMMA StepConses ==
  ASSUME MachineInv, LduValid, ServesCons
  PROVE  ISA!Cons
<1>1. op = OP_CONS /\ ~IsFetchPair(instruction)
  BY DEF ServesCons, op, IsFetchPair, OP_CONS, OP_CAR
<1>2. /\ hp \in 0 .. HeapCells /\ hp > 0
      /\ hp' = hp /\ Committed' = hp /\ Committed = hp - 1
  BY CommittedRange, LduValidEffect DEF MachineInv, ServesCons, ServesSetCdr, ServesPair, NoWrite
<1>3. /\ car_ram' = [car_ram EXCEPT ![hp - 1] = A]
      /\ cdr_ram' = [cdr_ram EXCEPT ![hp - 1] = B]
  BY LduValidEffect DEF MachineInv, ServesCons, ServesSetCdr, ServesPair, NoWrite
<1>4. Committed < HeapCells /\ Committed' = Committed + 1 /\ Committed \in Nat
  BY <1>2, HeapCellsAssumption
<1>5. IsaCells' = [k \in 0 .. Committed |-> IF k = Committed THEN [car |-> A, cdr |-> B] ELSE IsaCells[k]]
  <2>1. IsaCells' = [k \in 0 .. Committed |-> [car |-> car_ram'[k], cdr |-> cdr_ram'[k]]]
    BY <1>2 DEF IsaCells
  <2>2. ASSUME NEW k \in 0 .. Committed
        PROVE  [car |-> car_ram'[k], cdr |-> cdr_ram'[k]]
                 = IF k = Committed THEN [car |-> A, cdr |-> B] ELSE IsaCells[k]
    <3>1. k \in LDU!Addr /\ DOMAIN car_ram = LDU!Addr /\ DOMAIN cdr_ram = LDU!Addr
      BY <1>4, HeapCellsAssumption DEF LDU!Addr, MachineInv, UnitInv, TypeOK, LDU!TypeOK
    <3>2. CASE k = Committed
      BY <1>2, <1>3, <3>1, <3>2
    <3>3. CASE k # Committed
      <4>1. k \in 0 .. (Committed - 1)
        BY <1>4, <3>3
      <4>2. car_ram'[k] = car_ram[k] /\ cdr_ram'[k] = cdr_ram[k]
        BY <1>2, <1>3, <3>1, <3>3
      <4>3. QED
        BY <3>3, <4>1, <4>2 DEF IsaCells
    <3>4. QED
      BY <3>2, <3>3
  <2>3. QED
    BY <2>1, <2>2
<1>6. regs' = [regs EXCEPT ![instruction.rd] = ISA!MkWord(ISA!TAG_CONS, Committed)]
  BY <1>2, SeenAnswer, IsaCodes DEF ServesCons
<1>7. QED
  BY <1>1, <1>4, <1>5, <1>6, SeenAnswer, AnswerEnds, IsaCodes DEF ISA!Cons, ISA!SetReg, op

LEMMA StepSetsCdr ==
  ASSUME MachineInv, LduValid, ServesSetCdr
  PROVE  ISA!SetCdr
<1>1. IsSetCdr(instruction) /\ ~IsFetchPair(instruction) /\ IsCons(A) /\ ans.result = B
  BY DEF ServesSetCdr, IsSetCdr, IsFetchPair, OP_ATOM, OP_CAR
<1>2. /\ Committed' = Committed
      /\ car_ram' = car_ram
      /\ cdr_ram' = [cdr_ram EXCEPT ![A.value] = B]
  BY <1>1, SeenPair, LduValidEffect DEF MachineInv, ServesCons, ServesSetCdr, ServesPair, NoWrite
<1>3. IsaCells' = [IsaCells EXCEPT ![A.value].cdr = B]
  <2>1. IsaCells' = [k \in 0 .. (Committed - 1) |-> [car |-> car_ram[k], cdr |-> cdr_ram'[k]]]
    BY <1>2 DEF IsaCells
  <2>2. [IsaCells EXCEPT ![A.value].cdr = B]
          = [k \in 0 .. (Committed - 1) |->
               IF k = A.value THEN [car |-> car_ram[k], cdr |-> B]
                              ELSE [car |-> car_ram[k], cdr |-> cdr_ram[k]]]
    <3>1. [IsaCells[A.value] EXCEPT !.cdr = B] = [car |-> car_ram[A.value], cdr |-> B]
      BY <1>1, SeenPair
    <3>2. /\ DOMAIN IsaCells = 0 .. (Committed - 1)
          /\ \A k \in 0 .. (Committed - 1) : IsaCells[k] = [car |-> car_ram[k], cdr |-> cdr_ram[k]]
      BY DEF IsaCells
    <3>3. [IsaCells EXCEPT ![A.value].cdr = B]
            = [k \in 0 .. (Committed - 1) |->
                 IF k = A.value THEN [IsaCells[A.value] EXCEPT !.cdr = B] ELSE IsaCells[k]]
      BY <3>2, SeenAnswer
    <3>4. QED
      BY <3>1, <3>2, <3>3
  <2>3. ASSUME NEW k \in 0 .. (Committed - 1)
        PROVE  cdr_ram'[k] = IF k = A.value THEN B ELSE cdr_ram[k]
    <3>1. k \in LDU!Addr /\ DOMAIN cdr_ram = LDU!Addr
      BY CommittedRange, RamWords DEF MachineInv, UnitInv, TypeOK, LDU!TypeOK
    <3>2. QED
      BY <1>2, <3>1
  <2>4. QED
    BY <2>1, <2>2, <2>3
<1>4. ISA!Allocated(A)
  BY <1>1, SeenPair, IsaCodes DEF ISA!Allocated
<1>5. QED
  BY <1>1, <1>2, <1>3, <1>4, SeenAnswer, AnswerEnds, IsaForms DEF ISA!SetCdr, ISA!SetReg

LEMMA StepReads ==
  ASSUME MachineInv, LduValid, ServesPair
  PROVE  ISA!Car \/ ISA!Cdr \/ ISA!FetchPair
<1>1. /\ Committed' = Committed /\ car_ram' = car_ram /\ cdr_ram' = cdr_ram
      /\ IsCons(A) /\ op \in {OP_CAR, OP_CDR}
  BY LduValidEffect DEF MachineInv, ServesCons, ServesSetCdr, ServesPair, Reads, NoWrite
<1>2. IsaCells' = IsaCells /\ ISA!Allocated(A)
  BY <1>1, SeenHeap, SeenPair, IsaCodes DEF ISA!Allocated
<1>3. ans.result = (IF op = OP_CAR THEN IsaCells[A.value].car ELSE IsaCells[A.value].cdr)
  BY <1>1, SeenPair DEF ServesPair
<1>4. CASE IsFetchPair(instruction)
  <2>1. op = OP_CAR /\ second.on
    BY <1>4, SeenAnswer DEF IsFetchPair, op
  <2>2. /\ state' = "WRITE_PAIR_CDR"
        /\ second' = [second EXCEPT !.buf = ans.result_cdr, !.addr = instruction.rs2]
    BY <2>1 DEF LduValid, Goto
  <2>3. second'.buf = IsaCells[A.value].cdr /\ second'.addr = instruction.rs2
    <3>1. ans.result_cdr = IsaCells[A.value].cdr
      BY <1>1, <1>4, SeenPair DEF ServesPair
    <3>2. QED
      BY <2>2, <3>1 DEF MachineInv, UnitInv, TypeOK, CtrlOK, Second
  <2>4. IsaPc' = pc' /\ IsaRegs' = [regs' EXCEPT ![instruction.rs2] = IsaCells[A.value].cdr]
    BY <2>2, <2>3 DEF IsaPc, IsaRegs
  <2>5. ~Halted'
    BY <2>2 DEF Halted, MonitorStates
  <2>6. ISA!Advance
    BY <2>4, <2>5, SeenAnswer, SeenRunning DEF ISA!Advance
  <2>7. ISA!FetchPair
    BY <1>1, <1>2, <1>3, <1>4, <2>1, <2>4, <2>6, SeenAnswer, IsaForms DEF ISA!FetchPair
  <2>8. QED
    BY <2>7
<1>5. CASE ~IsFetchPair(instruction)
  <2>1. ISA!Advance /\ IsaRegs' = regs'
    BY <1>5, AnswerEnds
  <2>2. CASE op = OP_CAR
    <3>1. ISA!Car
      BY <1>1, <1>2, <1>3, <1>5, <2>1, <2>2, SeenAnswer, IsaForms, IsaCodes DEF ISA!Car, ISA!SetReg, op
    <3>2. QED
      BY <3>1
  <2>3. CASE op = OP_CDR
    <3>1. op # OP_CAR
      BY <2>3 DEF OP_CAR, OP_CDR
    <3>2. ISA!Cdr
      BY <1>1, <1>2, <1>3, <1>5, <2>1, <2>3, <3>1, SeenAnswer, IsaCodes DEF ISA!Cdr, ISA!SetReg, op
    <3>3. QED
      BY <3>2
  <2>4. QED
    BY <1>1, <2>2, <2>3
<1>6. QED
  BY <1>4, <1>5

LEMMA StepAnswers ==
  ASSUME MachineInv, LduValid
  PROVE  ISA!Next
<1>1. ServesCons \/ ServesSetCdr \/ ServesPair
  BY Answered DEF MachineInv, LduValid
<1>2. ~Halted
  BY SeenAnswer
<1>3. QED
  BY <1>1, <1>2, StepConses, StepSetsCdr, StepReads DEF ISA!Next, ISA!Step

LEMMA StepFails ==
  ASSUME MachineInv, [Next]_vars, ~Rearm, ~Reboot, LduError
  PROVE  ISA!Next
<1>1. /\ state = "WAIT_LDU" /\ ans.error /\ ~LduValid /\ state' = "HALT"
      /\ imem' = imem /\ regs' = regs /\ pc' = pc /\ err' = [flag |-> TRUE, pc |-> pc]
  BY DEF LduError, LduValid, Goto
<1>2. Committed' = Committed /\ IsaCells' = IsaCells
  BY <1>1, CommittedKept, SeenHeap DEF MachineInv
<1>3. tx'.byte = tx.byte
  BY SeenByte DEF LduError, Quiet, MachineInv, UnitInv, TypeOK
<1>4. /\ ISA!instr = instruction /\ ISA!A = A /\ ~Halted /\ IsaPc = pc /\ IsaRegs = regs
      /\ UsesLdu(instruction)
  BY <1>1, SeenInstruction, SeenSettled DEF MachineInv, StagedInv
<1>5. /\ IsaPc' = pc /\ IsaRegs' = regs
      /\ Halted' = TRUE
  BY <1>1, SeenSettledAfter DEF Settled, Halted
<1>6. ISA!Fault
  BY <1>1, <1>2, <1>3, <1>4, <1>5 DEF ISA!Fault
<1>7. ServesError
  BY <1>1 DEF MachineInv, UnitInv, AwaitInv, LduWorks, LduOff, LDU!PipelineInv, LDU!OneAnswer, ServeInv,
              ServesRead, ServesCons, ServesSetCdr, ServesPair
<1>8. CASE op = OP_CONS
  <2>1. Committed = HeapCells
    BY <1>7, <1>8 DEF ServesError, NoWrite, Committed
  <2>2. ISA!HeapFull
    BY <1>4, <1>6, <1>8, <2>1, IsaCodes DEF ISA!HeapFull, op
  <2>3. QED
    BY <1>4, <2>2 DEF ISA!Next, ISA!Step
<1>9. CASE op # OP_CONS
  <2>1. ~IsCons(A)
    BY <1>7, <1>9 DEF ServesError
  <2>2. ISA!TypeError
    BY <1>4, <1>6, <1>9, <2>1, IsaForms, IsaCodes DEF ISA!TypeError, op
  <2>3. QED
    BY <1>4, <2>2 DEF ISA!Next, ISA!Step
<1>10. QED
  BY <1>8, <1>9

(* OUT counts when the transmitter takes its byte.                         *)
LEMMA StepOuts ==
  ASSUME MachineInv, [Next]_vars, ~Rearm, ~Reboot, OutStart
  PROVE  ISA!Next
<1>1. /\ state = "OUT_START" /\ state' = "OUT_WAIT" /\ ~LduValid
      /\ imem' = imem /\ regs' = regs /\ pc' = pc /\ err' = err
  BY DEF OutStart, LduValid, Goto
<1>2. Committed' = Committed /\ IsaCells' = IsaCells
  BY <1>1, CommittedKept, SeenHeap DEF MachineInv
<1>3. ~tx.busy
  BY <1>1 DEF MachineInv, UnitInv, AwaitInv
<1>4. tx' = [busy |-> TRUE, byte |-> A.value % 256]
  BY <1>3 DEF OutStart, TxSend
<1>5. /\ ISA!instr = instruction /\ ISA!A = A /\ ~Halted /\ IsaPc = pc /\ IsaRegs = regs
      /\ ISA!PcNext = PcNext /\ op = OP_OUT
  BY <1>1, SeenInstruction, SeenSettled DEF MachineInv, StagedInv
<1>6. IsaPc' = PcNext /\ IsaRegs' = regs /\ ~Halted'
  BY <1>1 DEF IsaPc, IsaRegs, PcNext, Halted, MonitorStates
<1>7. Halted' = Halted
  BY <1>5, <1>6, SeenRunning
<1>8. ISA!Out
  BY <1>1, <1>2, <1>4, <1>5, <1>6, <1>7, IsaCodes DEF ISA!Out, ISA!Advance, op
<1>9. QED
  BY <1>5, <1>8 DEF ISA!Next, ISA!Step

(* A monitor step at most hands a byte to the transmitter.                 *)
LEMMA StepMonitors ==
  ASSUME MachineInv, [Next]_vars, ~Rearm, ~Reboot, Watching \/ MonArg2
  PROVE  ISA!Next
<1>1. Halted /\ Halted' /\ Kept /\ state \in MonitorStates /\ state' \in MonitorStates
  BY MonitorShape DEF MachineInv, UnitInv
<1>2. Settled /\ Settled' /\ ~LduValid
  BY <1>1 DEF Settled, MonitorStates, LduValid
<1>3. Committed' = Committed /\ IsaCells' = IsaCells
  BY <1>2, CommittedKept, SeenHeap DEF MachineInv
<1>4. IsaPc' = IsaPc /\ IsaRegs' = IsaRegs /\ imem' = imem /\ err' = err
  BY <1>1, <1>2, SeenSettled, SeenSettledAfter DEF Kept
<1>5. Halted' = Halted
  BY <1>1, <1>2 DEF Halted
<1>6. tx'.byte \in Byte
  <2>1. UartOK /\ mon.buf[1] \in Byte
    BY DEF MachineInv, UnitInv, TypeOK, MonOK
  <2>2. TxClock \/ tx' = [busy |-> TRUE, byte |-> mon.buf[1]]
    <3>1. CASE MonCmd \/ MonArg1 \/ MonArg2
      BY <3>1 DEF MonCmd, MonArg1, MonArg2, Taking
    <3>2. CASE MonHeapReply \/ MonRegReply \/ MonHpReply \/ MonErrReply \/ MonPerfReply
      BY <3>2 DEF MonHeapReply, MonRegReply, MonHpReply, MonErrReply, MonPerfReply, Reply, Quiet
    <3>3. CASE MonTxStart \/ MonTxNext \/ MonWait
      BY <3>3 DEF MonTxStart, MonTxNext, MonWait, Quiet, TxSend
    <3>4. QED
      BY <3>1, <3>2, <3>3 DEF Watching
  <2>3. QED
    BY <2>1, <2>2, SeenByte DEF UartOK
<1>7. ISA!MonitorTalks
  BY <1>1, <1>3, <1>4, <1>5, <1>6, IsaCodes DEF ISA!MonitorTalks
<1>8. QED
  BY <1>7 DEF ISA!Next

LEMMA NoCells == Committed = 0 => IsaCells = <<>>
<1>1. ASSUME Committed = 0 PROVE IsaCells = <<>>
  <2>1. 0 .. (Committed - 1) = {}
    BY <1>1
  <2>2. QED
    BY <2>1 DEF IsaCells
<1>2. QED
  BY <1>1

LEMMA StepBoots ==
  ASSUME MachineInv, Rearm \/ Reboot
  PROVE  ISA!Next
<1>1. /\ imem' \in Programs /\ regs' \in RegInits /\ state' = "FETCH" /\ pc' = 0 /\ err' = NoErr
      /\ LDU!Reset
  BY DEF Rearm, Reboot, FreshCpu, CoreReset
<1>2. Committed' = 0
  BY <1>1, LduResetEffect DEF LduOff, Committed
<1>3. IsaCells' = <<>>
  <2>1. 0 .. (Committed' - 1) = {}
    BY <1>2
  <2>2. QED
    BY <2>1 DEF IsaCells
<1>4. IsaPc' = 0 /\ IsaRegs' \in RegInits
  BY <1>1, SeenSettledAfter DEF Settled
<1>5. Halted' = FALSE
  BY <1>1 DEF Halted, MonitorStates
<1>6. tx'.byte = tx.byte
  BY SeenByte DEF Rearm, Reboot, MachineInv, UnitInv, TypeOK, UartOK
<1>7. ISA!Reboot
  BY <1>1, <1>2, <1>3, <1>4, <1>5, <1>6, IsaCodes DEF ISA!Reboot, ISA!Boot
<1>8. QED
  BY <1>7 DEF ISA!Next

LEMMA StepRefines ==
  ASSUME MachineInv, [Next]_vars
  PROVE  [ISA!Next]_(ISA!vars)
<1>1. CASE Rearm \/ Reboot
  BY <1>1, StepBoots
<1>2. CASE UNCHANGED vars
  <2>1. UNCHANGED <<imem, IsaPc, IsaRegs, Committed, IsaCells, err, tx>> /\ Halted' = Halted
    BY <1>2 DEF vars, coreVars, ctrlVars, LDU!lduVars, IsaPc, PcNext, IsaRegs, Committed, IsaCells, Halted
  <2>2. QED
    BY <2>1 DEF ISA!vars
<1>3. CASE /\ ~Rearm /\ ~Reboot
           /\ \/ Fetch \/ Decode \/ ExecCons \/ ExecSetCdr \/ ExecRead \/ ExecOut \/ ExecIn \/ ExecSandhi
              \/ WritePairCdr \/ OutDone \/ Wait \/ EnterMonitor
  BY <1>3, StepStutters
<1>4. CASE /\ ~Rearm /\ ~Reboot
           /\ \/ ExecLocal \/ ExecJmp \/ ExecJf \/ ExecHalt
              \/ InTake \/ SandhiDone \/ LduValid \/ LduError \/ OutStart
  BY <1>4, StepExecutes, StepTakes, StepAnswers, StepFails, StepOuts
<1>5. CASE ~Rearm /\ ~Reboot /\ (Watching \/ MonArg2)
  BY <1>5, StepMonitors
<1>6. QED
  BY <1>1, <1>2, <1>3, <1>4, <1>5, NextShape DEF Resting

(* Every program runs as the instruction-at-a-time machine runs it,        *)
(* whatever its length, the heap, the transmitter's speed, the host and    *)
(* the board's reset (control.sv:226-535, lisp_machine.sv:108-183): an     *)
(* instruction takes effect once and as a whole, and no instruction        *)
(* follows a pointer to a pair that is not allocated.                      *)
THEOREM InstructionsImplemented == ASSUME NoPairLoaded PROVE Spec => ImplementsISA
<1>1. ASSUME Init PROVE ISA!Init
  <2>1. /\ imem \in Programs /\ regs \in RegInits /\ state = "FETCH" /\ pc = 0 /\ err = NoErr
        /\ tx.byte = 0 /\ Committed = 0
    BY <1>1 DEF Init, CoreInit, LDU!Init, LDU!ResetPort, Committed
  <2>2. IsaPc = 0 /\ IsaRegs \in RegInits /\ IsaCells = <<>>
    BY <2>1, SeenSettled, NoCells DEF Settled
  <2>3. Halted = FALSE
    BY <2>1 DEF Halted, MonitorStates
  <2>4. QED
    BY <2>1, <2>2, <2>3, IsaCodes DEF ISA!Init, ISA!Boot
<1>2. MachineInv /\ [Next]_vars => [ISA!Next]_(ISA!vars)
  BY StepRefines
<1>3. UnitInv /\ ServeInv /\ StagedInv /\ HeapInv /\ WalkInv /\ AskedInv => MachineInv
  BY DEF MachineInv
<1>4. QED
  BY <1>1, <1>2, <1>3, MachineUnits, MachineServes, MachineStages, MachineHeap, MachineWalks, MachineAsks,
     PTL DEF Spec, ImplementsISA, ISA!Spec
=============================================================================
