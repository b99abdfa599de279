--------------------------- MODULE ProgramProofs ----------------------------
(***************************************************************************)
(* Theorems about what a program and a host see of the CPU of LispMachine: *)
(* errors, pairs, counters, replies of the monitor, and the machine of     *)
(* LispISA that the clocked one implements.                                *)
(***************************************************************************)
EXTENDS MachineProofs

-----------------------------------------------------------------------------
(* The staged instruction.  From the clock after its fetch until the next  *)
(* fetch it is the word the pc points at, and each state that waits was    *)
(* entered by an instruction of its own kind.                              *)
Staging == state \in {"FETCH", "WRITE_PAIR_CDR"}
StagedInv ==
    /\ ~Staging => instruction = imem[pc]
    /\ state = "WAIT_LDU" => UsesLdu(instruction) /\ (second.on <=> IsFetchPair(instruction))
    /\ state \in {"OUT_START", "OUT_WAIT"} => op = OP_OUT
    /\ state = "IN_WAIT" => op = OP_IN
    /\ state = "WAIT_SANDHI" => IsSandhi(instruction)
    /\ err.flag => Halted /\ err.pc = pc /\ (IsTrap(instruction) \/ UsesLdu(instruction))

(* A step of the monitor starts and ends in a halted state.                *)
LEMMA MonitorShape ==
  ASSUME TypeOK, Watching \/ MonArg2
  PROVE  /\ Halted /\ Halted' /\ Kept
         /\ state \in MonitorStates /\ state' \in MonitorStates
<1> USE DEF Halted, MonitorStates, Goto
<1>1. CASE MonCmd \/ MonArg1 \/ MonArg2
  BY <1>1 DEF MonCmd, MonArg1, MonArg2, Taking, NextOfCmd
<1>2. CASE MonHeapReply \/ MonRegReply \/ MonHpReply \/ MonErrReply \/ MonPerfReply
  BY <1>2 DEF MonHeapReply, MonRegReply, MonHpReply, MonErrReply, MonPerfReply, Reply
<1>3. CASE MonTxStart \/ MonTxNext \/ MonWait
  BY <1>3 DEF MonTxStart, MonTxNext, MonWait
<1>4. QED
  BY <1>1, <1>2, <1>3 DEF Watching

LEMMA StagedKept ==
  ASSUME TypeOK, StagedInv, [Next]_vars
  PROVE  StagedInv'
<1> USE DEF StagedInv, Staging, Halted, MonitorStates, Goto, op
<1>1. CASE Fetch \/ Decode \/ Wait \/ EnterMonitor
  BY <1>1 DEF Fetch, Decode, Wait, Waiting, EnterMonitor, ctrlVars
<1>2. CASE ExecLocal \/ ExecJmp \/ ExecJf \/ LduError
  BY <1>2 DEF ExecLocal, ExecJmp, ExecJf, Execute, LduError
<1>3. CASE ExecHalt
  BY <1>3 DEF ExecHalt, Execute
<1>4. CASE ExecCons \/ ExecSetCdr
  <2>1. ~second'.on /\ state' = "WAIT_LDU" /\ instruction' = instruction /\ imem' = imem /\ pc' = pc
        /\ err' = err /\ state = "EXECUTE"
    BY <1>4 DEF ExecCons, ExecSetCdr, Execute, NoPair, TypeOK, CtrlOK, Second
  <2>2. UsesLdu(instruction) /\ ~IsFetchPair(instruction)
    BY <1>4, SMT DEF op, ExecCons, ExecSetCdr, UsesLdu, IsFetchPair, IsSetCdr, OP_CONS, OP_CAR, OP_CDR, OP_ATOM
  <2>3. QED
    BY <2>1, <2>2
<1>5. CASE ExecRead
  BY <1>5 DEF ExecRead, TypeOK, CtrlOK, Second, UsesLdu
<1>6. CASE ExecOut \/ ExecIn \/ ExecSandhi
  BY <1>6 DEF ExecOut, ExecIn, ExecSandhi, Execute
<1>7. CASE LduValid
  BY <1>7 DEF LduValid
<1>8. CASE WritePairCdr \/ OutStart \/ OutDone \/ InTake \/ SandhiDone
  BY <1>8 DEF WritePairCdr, OutStart, OutDone, InTake, SandhiDone
<1>9. CASE Watching \/ MonArg2
  <2>1. Halted /\ Halted' /\ Kept
    BY <1>9, MonitorShape
  <2>2. QED
    BY <2>1 DEF Kept
<1>10. CASE Rearm \/ Reboot
  BY <1>10 DEF Rearm, Reboot, FreshCpu, CoreReset, NoErr
<1>11. CASE UNCHANGED vars
  BY <1>11 DEF vars, coreVars, ctrlVars
<1>12. QED
  BY <1>1, <1>2, <1>3, <1>4, <1>5, <1>6, <1>7, <1>8, <1>9, <1>10, <1>11, NextShape DEF Resting

LEMMA MachineStages == Spec => []StagedInv
<1>1. Init => StagedInv
  BY DEF Init, CoreInit, StagedInv, Staging, NoErr
<1>2. TypeOK /\ StagedInv /\ [Next]_vars => StagedInv'
  BY StagedKept
<1>3. QED
  BY <1>1, <1>2, MachineTypeCorrect, PTL DEF Spec

(* An error halts the machine, and err_pc names the instruction that       *)
(* failed, which is one that can fail, for every program                   *)
(* (control.sv:246-278, 475-477).                                          *)
THEOREM ErrorNamesFault == Spec => []ErrorIsPrecise
<1>1. StagedInv => ErrorIsPrecise
  BY DEF StagedInv, Staging, ErrorIsPrecise, Halted, MonitorStates
<1>2. QED
  BY <1>1, MachineStages, PTL

-----------------------------------------------------------------------------
(* The monitor looks and does not touch.                                   *)
LEMMA ClockEffect ==
  ASSUME LDU!TypeOK, LduClock
  PROVE  hp' = hp /\ LDU!HeapClock /\ ~port'.we_car /\ ~port'.we_cdr /\ port'.addr = port.addr
BY NoCmdEffect, ReadWaitEffect, ReadDoneEffect, PeekDoneEffect DEF LduClock, LDU!Reading, LduOff

LEMMA HaltedKeeps ==
  ASSUME UnitInv, [Next]_vars, Halted, Halted'
  PROVE  UNCHANGED <<imem, regs, pc, instruction, err, second, perf, hp, car_ram, cdr_ram>>
<1>1. ~port.we_car /\ ~port.we_cdr /\ LDU!TypeOK
  BY DEF UnitInv, TypeOK, AwaitInv, LduRests, LduPeeks, LduOff, Halted, MonitorStates
<1>2. LDU!HeapClock /\ hp' = hp => UNCHANGED <<hp, car_ram, cdr_ram>>
  BY <1>1, RamKept
<1>3. CASE Resting
  <2>1. Wait \/ EnterMonitor
    BY <1>3 DEF Resting, Halted, MonitorStates, Fetch, Decode, ExecLocal, ExecJmp, ExecJf, ExecHalt,
                ExecOut, ExecIn, Execute, LduValid, LduError, WritePairCdr, OutStart, OutDone, InTake,
                SandhiDone
  <2>2. LduClock
    BY <1>3, RestingUnits
  <2>3. UNCHANGED <<imem, regs, pc, instruction, err, second, perf>>
    BY <2>1 DEF Wait, EnterMonitor, ctrlVars
  <2>4. QED
    BY <1>1, <1>2, <2>2, <2>3, ClockEffect
<1>4. CASE Watching
  <2>1. LduClock /\ Kept
    BY <1>4, WatchingUnits, MonitorShape DEF UnitInv
  <2>2. QED
    BY <1>1, <1>2, <2>1, ClockEffect DEF Kept
<1>5. CASE MonArg2
  <2>1. Kept /\ PeekAddr \in LDU!Addr
    BY <1>5, MonitorShape, PeekAddrType DEF UnitInv, TypeOK
  <2>2. LDU!CmdPeek(PeekAddr) \/ LduClock
    BY <1>5 DEF MonArg2, LduClock
  <2>3. QED
    BY <1>1, <1>2, <2>1, <2>2, PeekEffect, ClockEffect DEF Kept
<1>6. ~(Rearm \/ Reboot)
  BY DEF Rearm, Reboot, FreshCpu, CoreReset, Halted, MonitorStates
<1>7. ~(ExecCons \/ ExecSetCdr \/ ExecRead \/ ExecSandhi)
  BY DEF ExecCons, ExecSetCdr, ExecRead, ExecSandhi, Execute, Halted, MonitorStates
<1>8. CASE UNCHANGED vars
  BY <1>8 DEF vars, coreVars, ctrlVars, LDU!lduVars
<1>9. QED
  BY <1>3, <1>4, <1>5, <1>6, <1>7, <1>8, NextShape

(* Whatever a host asks of the monitor, and at whatever clock, a machine   *)
(* that stays halted keeps its registers, heap, heap pointer, pc and error *)
(* record (control.sv:305-470).                                            *)
THEOREM MonitorLeavesState == Spec => MonitorOnlyReads
<1>1. UnitInv /\ [Next]_vars
        => [Halted /\ Halted' => UNCHANGED <<regs, hp, car_ram, cdr_ram, pc, err>>]_vars
  BY HaltedKeeps
<1>2. QED
  BY <1>1, MachineUnits, PTL DEF Spec, MonitorOnlyReads

-----------------------------------------------------------------------------
(* The replies of the monitor.  Each state after a command byte knows its  *)
(* command, a peek shows the pair at the address it was given to, and what *)
(* is left in mon_tx_buf is the tail of an answer.                         *)
Answers == CASE mon.cmd = CMD_REG  -> {WordBytes(regs[mon.arg1 % 16])}
             [] mon.cmd = CMD_HEAP -> {PairBytes(k) : k \in 0 .. (HeapCells - 1)}
             [] mon.cmd = CMD_HP   -> {NumBytes(LDU!hp_out)}
             [] mon.cmd = CMD_ERR  -> {NumBytes(err.pc + (IF err.flag THEN ImemWords ELSE 0))}
             [] OTHER              -> {NumBytes(PerfCounter)}
Tails(m, bytes) ==
    \A k \in 1 .. m.left : m.buf[k] = bytes[(IF m.cmd = CMD_HEAP THEN 8 ELSE 4) - m.left + k]

CmdInv  == /\ state = "MON_ARG1" => mon.cmd \in {CMD_REG, CMD_HEAP}
           /\ state \in {"MON_ARG2", "MON_HEAP_WAIT"} => mon.cmd = CMD_HEAP
           /\ state = "MON_REG_SEND" => mon.cmd = CMD_REG
           /\ state = "MON_HP_SEND" => mon.cmd = CMD_HP
           /\ state = "MON_ERR_SEND" => mon.cmd = CMD_ERR
           /\ state = "MON_PERF_SEND" => mon.cmd \in CMD_PERF
PeekInv == peek.valid => peek.car = car_ram[port.addr] /\ peek.cdr = cdr_ram[port.addr]
SendInv == Sending => mon.left \in 1 .. ReplyLength /\ \E bytes \in Answers : Tails(mon, bytes)
ReplyInv == CmdInv /\ PeekInv /\ SendInv

(* A step of no monitor state leaves or reaches none but MON_CMD.          *)
LEMMA OutsideMonitor ==
  ASSUME \/ Resting \/ ExecCons \/ ExecSetCdr \/ ExecRead \/ ExecSandhi
         \/ Rearm \/ Reboot
  PROVE  state' \notin MonitorStates \/ state' = "MON_CMD"
<1> USE DEF Goto
<1>1. CASE Fetch \/ Decode \/ ExecLocal \/ ExecJmp \/ ExecJf \/ ExecHalt \/ ExecOut \/ ExecIn
  BY <1>1 DEF Fetch, Decode, ExecLocal, ExecJmp, ExecJf, ExecHalt, ExecOut, ExecIn, MonitorStates
<1>2. CASE \/ LduValid \/ LduError \/ WritePairCdr \/ OutStart \/ OutDone \/ InTake
           \/ SandhiDone \/ EnterMonitor
  BY <1>2 DEF LduValid, LduError, WritePairCdr, OutStart, OutDone, InTake, SandhiDone, EnterMonitor,
              MonitorStates
<1>3. CASE ExecCons \/ ExecSetCdr \/ ExecRead \/ ExecSandhi
  BY <1>3 DEF ExecCons, ExecSetCdr, ExecRead, ExecSandhi, MonitorStates
<1>4. CASE Wait
  BY <1>4 DEF Wait, Waiting, ctrlVars, MonitorStates
<1>5. CASE Rearm \/ Reboot
  BY <1>5 DEF Rearm, Reboot, FreshCpu, CoreReset, MonitorStates
<1>6. QED
  BY <1>1, <1>2, <1>3, <1>4, <1>5 DEF Resting

LEMMA CmdKept ==
  ASSUME TypeOK, CmdInv, [Next]_vars
  PROVE  CmdInv'
<1> USE DEF CmdInv, Goto
<1>1. CASE MonCmd
  BY <1>1 DEF MonCmd, NextOfCmd, TypeOK, MonOK
<1>2. CASE MonArg1
  <2>1. mon'.cmd = mon.cmd
    BY <1>2 DEF MonArg1, TypeOK, MonOK
  <2>2. QED
    BY <1>2, <2>1 DEF MonArg1, Taking
<1>3. CASE MonArg2
  <2>1. mon'.cmd = mon.cmd
    BY <1>3 DEF MonArg2, TypeOK, MonOK
  <2>2. QED
    BY <1>3, <2>1 DEF MonArg2, Taking
<1>4. CASE MonHeapReply \/ MonRegReply \/ MonHpReply \/ MonErrReply \/ MonPerfReply
  BY <1>4 DEF MonHeapReply, MonRegReply, MonHpReply, MonErrReply, MonPerfReply, Reply
<1>5. CASE MonTxStart \/ MonTxNext \/ MonWait
  BY <1>5 DEF MonTxStart, MonTxNext, MonWait
<1>6. CASE Resting \/ ExecCons \/ ExecSetCdr \/ ExecRead \/ ExecSandhi
  <2>1. state' \notin MonitorStates \/ state' = "MON_CMD"
    BY <1>6, OutsideMonitor
  <2>2. QED
    BY <2>1 DEF MonitorStates
<1>7. CASE Rearm \/ Reboot
  BY <1>7 DEF Rearm, Reboot, FreshCpu, CoreReset
<1>8. CASE UNCHANGED vars
  BY <1>8 DEF vars, coreVars, ctrlVars
<1>9. QED
  BY <1>1, <1>2, <1>3, <1>4, <1>5, <1>6, <1>7, <1>8, NextShape DEF Watching

LEMMA PeekKept ==
  ASSUME LDU!TypeOK, LDU!PipelineInv, PeekInv, [LDU!Next]_(LDU!lduVars)
  PROVE  PeekInv'
<1>1. CASE LDU!PeekDone
  <2>1. /\ rd.state = 2 /\ LDU!HeapClock /\ port'.addr = port.addr
        /\ peek'.car = car_out /\ peek'.cdr = cdr_out
    BY <1>1, PeekDoneEffect
  <2>2. /\ ~port.we_car /\ ~port.we_cdr
        /\ car_out = car_ram[port.addr] /\ cdr_out = cdr_ram[port.addr]
    BY <2>1 DEF LDU!PipelineInv, LDU!ReadIsUndisturbed, LDU!RamOutputIsCurrent
  <2>3. QED
    BY <2>1, <2>2, RamKept DEF PeekInv
<1>2. CASE UNCHANGED LDU!lduVars
  BY <1>2 DEF PeekInv, LDU!lduVars
<1>3. ASSUME ~LDU!PeekDone, LDU!Next PROVE ~peek'.valid
  <2>1. ASSUME NEW a \in Word, NEW b \in Word, LDU!CmdCons(a, b) \/ LDU!CmdSetCdr(a, b) PROVE ~peek'.valid
    BY <2>1, ConsEffect, SetCdrEffect
  <2>2. ASSUME NEW a \in Word, NEW t \in {LDU!CAR, LDU!CDR, LDU!FETCH_PAIR}, LDU!CmdRead(t, a)
        PROVE  ~peek'.valid
    BY <2>2, ReadEffect DEF LduOff
  <2>3. ASSUME NEW i \in LDU!Addr, LDU!CmdPeek(i) PROVE ~peek'.valid
    BY <2>3, PeekEffect DEF LduOff
  <2>4. CASE LDU!CmdConsFull \/ \E a \in Word : LDU!CmdTypeError(a)
    BY <2>4, ErrorEffect DEF LDU!CmdConsFull, LDU!CmdTypeError
  <2>5. CASE LDU!NoCmd \/ LDU!ReadWait \/ LDU!ReadDone \/ LDU!Reset
    BY <2>5, NoCmdEffect, ReadWaitEffect, ReadDoneEffect, LduResetEffect DEF LduOff
  <2>6. QED
    BY <1>3, <2>1, <2>2, <2>3, <2>4, <2>5 DEF LDU!Next, LDU!Reading
<1>4. QED
  BY <1>1, <1>2, <1>3 DEF PeekInv

LEMMA AnswerSets ==
  /\ mon.cmd = CMD_REG  => Answers = {WordBytes(regs[mon.arg1 % 16])}
  /\ mon.cmd = CMD_HEAP => Answers = {PairBytes(k) : k \in 0 .. (HeapCells - 1)}
  /\ mon.cmd = CMD_HP   => Answers = {NumBytes(LDU!hp_out)}
  /\ mon.cmd = CMD_ERR  => Answers = {NumBytes(err.pc + (IF err.flag THEN ImemWords ELSE 0))}
  /\ mon.cmd \in CMD_PERF => Answers = {NumBytes(PerfCounter)}
<1> USE DEF CMD_REG, CMD_HEAP, CMD_HP, CMD_ERR, CMD_PERF
<1>1. mon.cmd = CMD_REG  => Answers = {WordBytes(regs[mon.arg1 % 16])}
  BY DEF Answers
<1>2. mon.cmd = CMD_HEAP => Answers = {PairBytes(k) : k \in 0 .. (HeapCells - 1)}
  BY DEF Answers
<1>3. mon.cmd = CMD_HP   => Answers = {NumBytes(LDU!hp_out)}
  BY DEF Answers
<1>4. mon.cmd = CMD_ERR  => Answers = {NumBytes(err.pc + (IF err.flag THEN ImemWords ELSE 0))}
  BY DEF Answers
<1>5. mon.cmd \in CMD_PERF => Answers = {NumBytes(PerfCounter)}
  BY DEF Answers
<1>6. QED
  BY <1>1, <1>2, <1>3, <1>4, <1>5

LEMMA AnswersKept ==
  ASSUME UNCHANGED <<regs, err, perf, hp, car_ram, cdr_ram>>, mon'.cmd = mon.cmd, mon'.arg1 = mon.arg1
  PROVE  Answers' = Answers
BY DEF Answers, PairBytes, PerfCounter, LDU!hp_out

LEMMA ReplyStarts ==
  ASSUME TypeOK, mon.cmd # CMD_HEAP, NEW bytes \in [1 .. 4 -> Byte], Reply(bytes \o Zero4, 4),
         bytes \in Answers, Answers' = Answers
  PROVE  SendInv'
<1>1. /\ mon'.left = 4 /\ mon'.cmd = mon.cmd /\ mon'.buf = bytes \o Zero4
  BY DEF Reply, TypeOK, MonOK
<1>2. \A k \in 1 .. 4 : mon'.buf[k] = bytes[k]
  BY <1>1, JoinedBuf, Zero4Type
<1>3. \A k \in 1 .. 4 : 4 - 4 + k = k
  OBVIOUS
<1>4. Tails(mon', bytes)
  BY <1>1, <1>2, <1>3 DEF Tails
<1>5. QED
  BY <1>1, <1>4 DEF SendInv, ReplyLength

LEMMA HeapReplyStarts ==
  ASSUME TypeOK, CmdInv, PeekInv, MonHeapReply, Answers' = Answers
  PROVE  SendInv'
<1> DEFINE bytes == WordBytes(peek.car) \o WordBytes(peek.cdr)
<1>1. port.addr \in 0 .. (HeapCells - 1) /\ bytes = PairBytes(port.addr) /\ mon.cmd = CMD_HEAP
  BY DEF MonHeapReply, CmdInv, PeekInv, PairBytes, TypeOK, LDU!TypeOK, LDU!Port, LDU!Addr
<1>2. bytes \in Answers
  <2>1. Answers = {PairBytes(k) : k \in 0 .. (HeapCells - 1)}
    BY <1>1, AnswerSets
  <2>2. QED
    BY <1>1, <2>1
<1> HIDE DEF bytes
<1>3. mon'.left = 8 /\ mon'.cmd = CMD_HEAP /\ mon'.buf = bytes
  BY <1>1 DEF MonHeapReply, Reply, TypeOK, MonOK, bytes
<1>4. \A k \in 1 .. 8 : 8 - 8 + k = k
  OBVIOUS
<1>5. Tails(mon', bytes)
  BY <1>3, <1>4 DEF Tails
<1>6. QED
  BY <1>2, <1>3, <1>5 DEF SendInv, ReplyLength

LEMMA SendGoesOn ==
  ASSUME TypeOK, SendInv, MonTxNext, Sending', Answers' = Answers
  PROVE  SendInv'
<1>1. /\ state = "MON_TX_WAIT" /\ state' = "MON_TX_START" /\ mon.left > 1 /\ mon.left \in 0 .. 15
      /\ mon.buf \in [1 .. 8 -> Byte]
  BY DEF MonTxNext, Goto, Sending, TypeOK, MonOK
<1>2. mon'.left = mon.left - 1 /\ mon'.cmd = mon.cmd /\ mon'.buf = Append(Tail(mon.buf), 0)
  <2>1. (mon.left - 1) % 16 = mon.left - 1
    BY <1>1, SMT
  <2>2. QED
    BY <2>1 DEF MonTxNext, TypeOK, MonOK
<1>3. mon.left \in 2 .. ReplyLength /\ ReplyLength' = ReplyLength /\ ReplyLength \in {4, 8}
  BY <1>1, <1>2 DEF SendInv, Sending, ReplyLength
<1>4. PICK bytes \in Answers : Tails(mon, bytes)
  BY <1>1 DEF SendInv, Sending
<1>5. ASSUME NEW k \in 1 .. mon'.left PROVE mon'.buf[k] = bytes[ReplyLength - mon'.left + k]
  <2>1. k \in 1 .. 7 /\ k + 1 \in 1 .. mon.left
    BY <1>2, <1>3
  <2>2. mon'.buf[k] = mon.buf[k + 1]
    <3>1. 0 \in Byte
      BY DEF Byte
    <3>2. QED
      BY <1>1, <1>2, <2>1, <3>1, ShiftedBuf
  <2>3. mon.buf[k + 1] = bytes[ReplyLength - mon.left + (k + 1)]
    BY <1>4, <2>1 DEF Tails, ReplyLength
  <2>4. ReplyLength - mon.left + (k + 1) = ReplyLength - mon'.left + k
    BY <1>2, <1>3
  <2>5. QED
    BY <2>2, <2>3, <2>4
<1>6. Tails(mon', bytes)
  BY <1>2, <1>5 DEF Tails, ReplyLength
<1>7. mon'.left \in 1 .. ReplyLength'
  BY <1>2, <1>3
<1>8. QED
  BY <1>4, <1>6, <1>7 DEF SendInv

LEMMA SendKept ==
  ASSUME UnitInv, ReplyInv, [Next]_vars
  PROVE  SendInv'
<1>0. TypeOK /\ LDU!TypeOK /\ CtrlOK /\ CmdInv /\ PeekInv /\ SendInv
  BY DEF UnitInv, TypeOK, ReplyInv
<1>1. SUFFICES ASSUME Sending' PROVE SendInv'
  BY DEF SendInv
<1>2. CASE Watching \/ MonArg2
  <2>1. UNCHANGED <<regs, err, perf, hp, car_ram, cdr_ram>>
    BY <1>0, <1>2, MonitorShape, HaltedKeeps
  <2>2. ASSUME mon'.cmd = mon.cmd, mon'.arg1 = mon.arg1 PROVE Answers' = Answers
    BY <2>1, <2>2, AnswersKept
  <2>3. CASE MonRegReply \/ MonHpReply \/ MonErrReply \/ MonPerfReply \/ MonHeapReply
    <3>1. Answers' = Answers
      <4>1. mon'.cmd = mon.cmd /\ mon'.arg1 = mon.arg1
        BY <1>0, <2>3 DEF MonRegReply, MonHpReply, MonErrReply, MonPerfReply, MonHeapReply, Reply, TypeOK,
                          MonOK
      <4>2. QED
        BY <2>2, <4>1
    <3>2. CASE MonRegReply
      <4>1. WordBytes(regs[mon.arg1 % 16]) \in [1 .. 4 -> Byte]
        <5>1. mon.arg1 % 16 \in Reg
          BY <1>0, SMT DEF TypeOK, MonOK, Byte, Reg
        <5>2. QED
          BY <1>0, <5>1, WordBytesType DEF CtrlOK
      <4>2. mon.cmd = CMD_REG /\ CMD_REG # CMD_HEAP
        BY <1>0, <3>2 DEF MonRegReply, CmdInv, CMD_REG, CMD_HEAP
      <4>3. QED
        BY <1>0, <3>1, <3>2, <4>1, <4>2, AnswerSets, ReplyStarts DEF MonRegReply
    <3>3. CASE MonHpReply
      <4>1. NumBytes(LDU!hp_out) \in [1 .. 4 -> Byte]
        BY <1>0, HpNumber, NumBytesType
      <4>2. mon.cmd = CMD_HP /\ CMD_HP # CMD_HEAP
        BY <1>0, <3>3 DEF MonHpReply, CmdInv, CMD_HP, CMD_HEAP
      <4>3. QED
        BY <1>0, <3>1, <3>3, <4>1, <4>2, AnswerSets, ReplyStarts DEF MonHpReply
    <3>4. CASE MonErrReply
      <4>1. NumBytes(err.pc + (IF err.flag THEN ImemWords ELSE 0)) \in [1 .. 4 -> Byte]
        BY <1>0, ErrNumber, NumBytesType
      <4>2. mon.cmd = CMD_ERR /\ CMD_ERR # CMD_HEAP
        BY <1>0, <3>4 DEF MonErrReply, CmdInv, CMD_ERR, CMD_HEAP
      <4>3. QED
        BY <1>0, <3>1, <3>4, <4>1, <4>2, AnswerSets, ReplyStarts DEF MonErrReply
    <3>5. CASE MonPerfReply
      <4>1. NumBytes(PerfCounter) \in [1 .. 4 -> Byte]
        BY <1>0, PerfNumber, NumBytesType
      <4>2. mon.cmd \in CMD_PERF /\ mon.cmd # CMD_HEAP
        BY <1>0, <3>5 DEF MonPerfReply, CmdInv, CMD_PERF, CMD_HEAP
      <4>3. QED
        BY <1>0, <3>1, <3>5, <4>1, <4>2, AnswerSets, ReplyStarts DEF MonPerfReply
    <3>6. CASE MonHeapReply
      BY <1>0, <3>1, <3>6, HeapReplyStarts
    <3>7. QED
      BY <2>3, <3>2, <3>3, <3>4, <3>5, <3>6
  <2>4. CASE MonTxNext
    <3>1. mon'.cmd = mon.cmd /\ mon'.arg1 = mon.arg1
      BY <1>0, <2>4 DEF MonTxNext, TypeOK, MonOK
    <3>2. QED
      BY <1>0, <1>1, <2>2, <2>4, <3>1, SendGoesOn
  <2>5. CASE MonTxStart \/ MonWait
    <3>1. UNCHANGED mon /\ Sending
      BY <1>1, <2>5 DEF MonTxStart, MonWait, Sending
    <3>2. Answers' = Answers
      BY <2>2, <3>1
    <3>3. QED
      BY <1>0, <3>1, <3>2 DEF SendInv, ReplyLength, Tails
  <2>6. CASE MonCmd \/ MonArg1 \/ MonArg2
    BY <1>1, <2>6 DEF MonCmd, MonArg1, MonArg2, Goto, NextOfCmd, Sending
  <2>7. QED
    BY <1>2, <2>3, <2>4, <2>5, <2>6 DEF Watching
<1>3. CASE UNCHANGED vars
  <2>1. Answers' = Answers /\ UNCHANGED <<mon, state>>
    BY <1>3, AnswersKept DEF vars, coreVars, ctrlVars, LDU!lduVars
  <2>2. QED
    BY <1>0, <2>1 DEF SendInv, Sending, ReplyLength, Tails
<1>4. CASE ~(Watching \/ MonArg2) /\ Next
  BY <1>1, <1>4, NextShape, OutsideMonitor DEF Sending, MonitorStates
<1>5. QED
  BY <1>2, <1>3, <1>4

LEMMA MachineReplies == Spec => []ReplyInv
<1>1. Init => ReplyInv
  BY DEF Init, CoreInit, LDU!Init, LDU!ResetPeek, ReplyInv, CmdInv, PeekInv, SendInv, Sending
<1>2. UnitInv /\ ReplyInv /\ [Next]_vars => ReplyInv'
  BY LduOfNext, CmdKept, PeekKept, SendKept DEF UnitInv, TypeOK, ReplyInv
<1>3. QED
  BY <1>1, <1>2, MachineUnits, PTL DEF Spec

(* A reply of the monitor is complete and in order, whatever else the host *)
(* sends meanwhile: the bytes still to send are always the last ones of    *)
(* the register, number or pair that was asked for (control.sv:305-470).   *)
THEOREM RepliesComplete == Spec => []RepliesInOrder
<1>1. ASSUME ReplyInv, Sending PROVE RepliesInOrder
  <2>1. PICK bytes \in Answers : Tails(mon, bytes)
    BY <1>1 DEF ReplyInv, SendInv
  <2>2. RemainingOf(bytes)
    BY <2>1 DEF Tails, RemainingOf, ReplyLength
  <2>3. mon.cmd = CMD_REG => RemainingOf(WordBytes(regs[mon.arg1 % 16]))
    BY <2>1, <2>2, AnswerSets
  <2>4. mon.cmd = CMD_HP => RemainingOf(NumBytes(LDU!hp_out))
    BY <2>1, <2>2, AnswerSets
  <2>5. mon.cmd = CMD_ERR => RemainingOf(NumBytes(err.pc + (IF err.flag THEN ImemWords ELSE 0)))
    BY <2>1, <2>2, AnswerSets
  <2>6. mon.cmd \in CMD_PERF => RemainingOf(NumBytes(PerfCounter))
    BY <2>1, <2>2, AnswerSets
  <2>7. mon.cmd = CMD_HEAP => \E k \in 0 .. (HeapCells - 1) : RemainingOf(PairBytes(k))
    BY <2>1, <2>2, AnswerSets
  <2>8. QED
    BY <1>1, <2>3, <2>4, <2>5, <2>6, <2>7 DEF ReplyInv, SendInv, RepliesInOrder
<1>2. ReplyInv => RepliesInOrder
  BY <1>1 DEF RepliesInOrder
<1>3. QED
  BY <1>2, MachineReplies, PTL

-----------------------------------------------------------------------------
(* What the data unit is doing for the instruction that waits for it: it   *)
(* reads the pair of rs1, it refuses, or it has just answered and, for a   *)
(* CONS and a SETCDR, holds the write in its port.                         *)
ReadType ==
    IF IsFetchPair(instruction) THEN LDU!FETCH_PAIR ELSE IF op = OP_CAR THEN LDU!CAR ELSE LDU!CDR

Reads   == op \in {OP_CAR, OP_CDR} /\ IsCons(A)
NoWrite == ~port.we_car /\ ~port.we_cdr

ServesRead   == /\ rd.state # 0 /\ rd.type = ReadType
                /\ Reads /\ NoWrite /\ port.addr = LDU!AddrOf(A)
ServesError  == /\ ans.error /\ ~ans.valid /\ NoWrite
                /\ IF op = OP_CONS THEN hp = HeapCells ELSE ~IsCons(A)
ServesCons   == /\ ans.valid /\ op = OP_CONS /\ hp > 0
                /\ port = [we_car |-> TRUE, we_cdr |-> TRUE, addr |-> hp - 1, car_in |-> A, cdr_in |-> B]
                /\ ans.result = MkWord(TAG_CONS, hp - 1)
ServesSetCdr == /\ ans.valid /\ IsSetCdr(instruction) /\ IsCons(A)
                /\ ~port.we_car /\ port.we_cdr /\ port.addr = LDU!AddrOf(A) /\ port.cdr_in = B
                /\ ans.result = B
ServesPair   == /\ ans.valid /\ Reads /\ NoWrite
                /\ ans.result = IF op = OP_CAR THEN car_ram[LDU!AddrOf(A)] ELSE cdr_ram[LDU!AddrOf(A)]
                /\ IsFetchPair(instruction) => ans.result_cdr = cdr_ram[LDU!AddrOf(A)]
ServeInv ==
    state = "WAIT_LDU" => ServesRead \/ ServesError \/ ServesCons \/ ServesSetCdr \/ ServesPair

LEMMA RestingGoesOn ==
  ASSUME Resting \/ ExecSandhi, state # "WAIT_LDU"
  PROVE  state' # "WAIT_LDU"
<1> USE DEF Goto
<1>1. CASE Fetch \/ Decode \/ ExecLocal \/ ExecJmp \/ ExecJf \/ ExecHalt \/ ExecOut \/ ExecIn
  BY <1>1 DEF Fetch, Decode, ExecLocal, ExecJmp, ExecJf, ExecHalt, ExecOut, ExecIn
<1>2. CASE \/ LduValid \/ LduError \/ WritePairCdr \/ OutStart \/ OutDone \/ InTake
           \/ SandhiDone \/ EnterMonitor
  BY <1>2 DEF LduValid, LduError, WritePairCdr, OutStart, OutDone, InTake, SandhiDone, EnterMonitor
<1>3. CASE ExecSandhi
  BY <1>3 DEF ExecSandhi
<1>4. CASE Wait
  BY <1>4 DEF Wait, ctrlVars
<1>5. QED
  BY <1>1, <1>2, <1>3, <1>4 DEF Resting

LEMMA WaitSteps ==
  ASSUME [Next]_vars, state' = "WAIT_LDU"
  PROVE  \/ ExecCons \/ ExecSetCdr \/ ExecRead
         \/ state = "WAIT_LDU" /\ ~ans.valid /\ ~ans.error /\ LduClock /\ UNCHANGED <<regs, instruction>>
         \/ UNCHANGED vars
<1> USE DEF Goto
<1>1. CASE Resting \/ ExecSandhi
  <2>1. state = "WAIT_LDU"
    BY <1>1, RestingGoesOn
  <2>2. Wait
    BY <1>1, <2>1 DEF Resting, Fetch, Decode, ExecLocal, ExecJmp, ExecJf, ExecHalt, ExecOut, ExecIn,
                      ExecSandhi, Execute, LduValid, LduError, WritePairCdr, OutStart, OutDone, InTake,
                      SandhiDone, EnterMonitor
  <2>3. QED
    BY <2>1, <2>2 DEF Wait, Waiting, Quiet, ctrlVars
<1>2. CASE Rearm \/ Reboot
  BY <1>2 DEF Rearm, Reboot, FreshCpu, CoreReset
<1>3. CASE Watching \/ MonArg2
  <2>1. CASE MonCmd \/ MonArg1 \/ MonArg2
    BY <2>1 DEF MonCmd, MonArg1, MonArg2, NextOfCmd
  <2>2. CASE MonHeapReply \/ MonRegReply \/ MonHpReply \/ MonErrReply \/ MonPerfReply
    BY <2>2 DEF MonHeapReply, MonRegReply, MonHpReply, MonErrReply, MonPerfReply, Reply
  <2>3. CASE MonTxStart \/ MonTxNext \/ MonWait
    BY <2>3 DEF MonTxStart, MonTxNext, MonWait
  <2>4. QED
    BY <1>3, <2>1, <2>2, <2>3 DEF Watching
<1>4. QED
  BY <1>1, <1>2, <1>3, NextShape

LEMMA ServeStarts ==
  ASSUME UnitInv, ExecCons \/ ExecSetCdr \/ ExecRead
  PROVE  ServeInv'
<1>1. /\ state = "EXECUTE" /\ UNCHANGED <<regs, instruction>>
  BY DEF ExecCons, ExecSetCdr, ExecRead, Execute
<1>2. LDU!TypeOK /\ rd.state = 0 /\ ~LDU!Reading /\ A \in Word /\ B \in Word
  BY <1>1, OperandTypes DEF UnitInv, TypeOK, AwaitInv, LduRests, LDU!Reading, LDU!ReadWait, LDU!ReadDone,
                            LDU!PeekDone
<1>3. op' = op /\ A' = A /\ B' = B
  BY <1>1 DEF op, A, B
<1>4. CASE ExecCons
  <2>1. op = OP_CONS /\ (LDU!CmdCons(A, B) \/ LDU!CmdConsFull)
    BY <1>2, <1>4 DEF ExecCons, Command
  <2>2. CASE LDU!CmdCons(A, B)
    <3>1. /\ hp' = hp + 1 /\ hp \in Nat
          /\ port' = [we_car |-> TRUE, we_cdr |-> TRUE, addr |-> hp, car_in |-> A, cdr_in |-> B]
          /\ ans'.valid /\ ans'.result = MkWord(TAG_CONS, hp)
      BY <1>2, <2>2, ConsEffect DEF LDU!TypeOK
    <3>2. hp = hp' - 1 /\ hp' > 0
      BY <3>1
    <3>3. ServesCons'
      BY <1>3, <2>1, <3>1, <3>2 DEF ServesCons
    <3>4. QED
      BY <3>3 DEF ServeInv
  <2>3. CASE LDU!CmdConsFull
    <3>1. hp = HeapCells /\ LDU!Error
      BY <2>3 DEF LDU!CmdConsFull
    <3>2. ServesError'
      BY <1>2, <1>3, <2>1, <3>1, ErrorEffect DEF ServesError, NoWrite
    <3>3. QED
      BY <3>2 DEF ServeInv
  <2>4. QED
    BY <2>1, <2>2, <2>3
<1>5. CASE ExecSetCdr
  <2>1. IsSetCdr(instruction) /\ (LDU!CmdSetCdr(A, B) \/ LDU!CmdTypeError(A)) /\ op # OP_CONS
    BY <1>2, <1>5, SMT DEF ExecSetCdr, Command, IsSetCdr, op, OP_ATOM, OP_CONS
  <2>2. CASE LDU!CmdSetCdr(A, B)
    <3>1. ServesSetCdr'
      BY <1>1, <1>2, <1>3, <2>1, <2>2, SetCdrEffect DEF ServesSetCdr
    <3>2. QED
      BY <3>1 DEF ServeInv
  <2>3. CASE LDU!CmdTypeError(A)
    <3>1. ~IsCons(A) /\ LDU!Error
      BY <2>3, LduVocabulary DEF LDU!CmdTypeError
    <3>2. ServesError'
      BY <1>2, <1>3, <2>1, <3>1, ErrorEffect DEF ServesError, NoWrite
    <3>3. QED
      BY <3>2 DEF ServeInv
  <2>4. QED
    BY <2>1, <2>2, <2>3
<1>6. CASE ExecRead
  <2>1. /\ op \in {OP_CAR, OP_CDR} /\ op # OP_CONS
        /\ LDU!CmdRead(ReadType, A) \/ LDU!CmdTypeError(A)
    BY <1>2, <1>6 DEF ExecRead, Command, ReadType, OP_CAR, OP_CDR, OP_CONS
  <2>2. CASE LDU!CmdRead(ReadType, A)
    <3>1. /\ LduOff' /\ rd'.state # 0 /\ rd'.type = ReadType /\ IsCons(A) /\ port'.addr = LDU!AddrOf(A)
      BY <1>2, <2>2, ReadEffect
    <3>2. ReadType' = ReadType
      BY <1>1, <1>3 DEF ReadType
    <3>3. ServesRead'
      BY <1>3, <2>1, <3>1, <3>2 DEF ServesRead, Reads, NoWrite, LduOff
    <3>4. QED
      BY <3>3 DEF ServeInv
  <2>3. CASE LDU!CmdTypeError(A)
    <3>1. ~IsCons(A) /\ LDU!Error
      BY <2>3, LduVocabulary DEF LDU!CmdTypeError
    <3>2. ServesError'
      BY <1>2, <1>3, <2>1, <3>1, ErrorEffect DEF ServesError, NoWrite
    <3>3. QED
      BY <3>2 DEF ServeInv
  <2>4. QED
    BY <2>1, <2>2, <2>3
<1>7. QED
  BY <1>4, <1>5, <1>6

LEMMA ServeGoesOn ==
  ASSUME UnitInv, ServeInv, state = "WAIT_LDU", ~ans.valid, ~ans.error, LduClock,
         UNCHANGED <<regs, instruction>>
  PROVE  ServeInv'
<1>1. LDU!TypeOK /\ ServesRead /\ ~rd.peek
  BY DEF UnitInv, TypeOK, AwaitInv, LduWorks, ServeInv, ServesError, ServesCons, ServesSetCdr, ServesPair
<1>2. op' = op /\ A' = A /\ B' = B /\ ReadType' = ReadType
  BY DEF op, A, B, ReadType
<1>3. LDU!ReadWait \/ LDU!ReadDone
  BY <1>1 DEF LduClock, LDU!NoCmd, LDU!Ready, LDU!Reading, LDU!PeekDone, ServesRead
<1>4. CASE LDU!ReadWait
  <2>1. ServesRead'
    BY <1>1, <1>2, <1>4, ReadWaitEffect DEF ServesRead, Reads, NoWrite, LduOff
  <2>2. QED
    BY <2>1 DEF ServeInv
<1>5. CASE LDU!ReadDone
  <2>1. rd.state = 2 /\ port.addr = LDU!AddrOf(A) /\ NoWrite /\ rd.type = ReadType /\ Reads
    BY <1>1, <1>5, ReadDoneEffect DEF ServesRead
  <2>2. car_out = car_ram[LDU!AddrOf(A)] /\ cdr_out = cdr_ram[LDU!AddrOf(A)]
    BY <2>1 DEF UnitInv, LDU!PipelineInv, LDU!RamOutputIsCurrent
  <2>3. car_ram' = car_ram /\ cdr_ram' = cdr_ram
    BY <1>1, <1>5, <2>1, ReadDoneEffect, RamKept DEF NoWrite
  <2>4. (rd.type = LDU!CDR) <=> (op # OP_CAR)
    BY <2>1 DEF ReadType, Reads, IsFetchPair, op, OP_CAR, OP_CDR, LDU!CAR, LDU!CDR, LDU!FETCH_PAIR
  <2>5. /\ ans'.valid
        /\ ans'.result = (IF op = OP_CAR THEN car_ram[LDU!AddrOf(A)] ELSE cdr_ram[LDU!AddrOf(A)])
    BY <1>1, <1>5, <2>2, <2>4, ReadDoneEffect
  <2>6. IsFetchPair(instruction) => ans'.result_cdr = cdr_ram[LDU!AddrOf(A)]
    BY <1>1, <1>5, <2>1, <2>2, ReadDoneEffect DEF ReadType
  <2>7. NoWrite'
    BY <1>1, <1>5, ReadDoneEffect DEF NoWrite
  <2>8. Reads'
    BY <1>2, <2>1 DEF Reads
  <2>9. LDU!AddrOf(A)' = LDU!AddrOf(A)
    BY <1>2 DEF LDU!AddrOf
  <2>10. ServesPair'
    BY <1>2, <2>3, <2>5, <2>6, <2>7, <2>8, <2>9 DEF ServesPair
  <2>11. QED
    BY <2>10 DEF ServeInv
<1>6. QED
  BY <1>3, <1>4, <1>5

LEMMA ServeKept ==
  ASSUME UnitInv, ServeInv, [Next]_vars
  PROVE  ServeInv'
<1>1. CASE UNCHANGED vars
  BY <1>1 DEF vars, coreVars, ctrlVars, LDU!lduVars, ServeInv, ServesRead, ServesError, ServesCons,
              ServesSetCdr, ServesPair, Reads, NoWrite, ReadType, A, B, op, LDU!AddrOf
<1>2. CASE state' # "WAIT_LDU"
  BY <1>2 DEF ServeInv
<1>3. QED
  BY <1>1, <1>2, WaitSteps, ServeStarts, ServeGoesOn

LEMMA MachineServes == Spec => []ServeInv
<1>1. Init => ServeInv
  BY DEF Init, CoreInit, ServeInv
<1>2. QED
  BY <1>1, ServeKept, MachineUnits, PTL DEF Spec

-----------------------------------------------------------------------------
(* The heap between two clock edges.  A pair counts when its CONS is over, *)
(* and only the end of an instruction that used the data unit changes what *)
(* the heap holds.                                                         *)
LEMMA CommittedRange ==
  ASSUME UnitInv
  PROVE  Committed \in 0 .. HeapCells /\ hp \in 0 .. HeapCells /\ Committed <= hp
BY HeapCellsAssumption DEF UnitInv, TypeOK, LDU!TypeOK, LDU!PipelineInv, LDU!AllocationIsNewest, Committed

LEMMA PortOff ==
  ASSUME UnitInv, ServeInv, state = "WAIT_LDU" => ~ans.valid
  PROVE  NoWrite
BY DEF UnitInv, AwaitInv, LduRests, LduPeeks, LduOff, ServeInv, ServesRead, ServesError, ServesCons,
       ServesSetCdr, ServesPair, NoWrite

LEMMA CommittedKept ==
  ASSUME UnitInv, ServeInv, [Next]_vars, ~LduValid, ~Rearm, ~Reboot
  PROVE  Committed' = Committed /\ car_ram' = car_ram /\ cdr_ram' = cdr_ram
<1>0. LDU!TypeOK /\ TypeOK
  BY DEF UnitInv, TypeOK
<1>1. CASE UNCHANGED vars
  BY <1>1 DEF vars, coreVars, LDU!lduVars, Committed
<1>2. CASE ExecCons \/ ExecSetCdr \/ ExecRead
  <2>1. state = "EXECUTE"
    BY <1>2 DEF ExecCons, ExecSetCdr, ExecRead, Execute
  <2>2. NoWrite /\ rd.state = 0
    BY <2>1, PortOff DEF UnitInv, AwaitInv, LduRests
  <2>3. ~LDU!Reading /\ A \in Word /\ B \in Word
    BY <1>0, <2>2, OperandTypes DEF TypeOK, LDU!Reading, LDU!ReadWait, LDU!ReadDone, LDU!PeekDone
  <2>4. \/ LDU!CmdCons(A, B) \/ LDU!CmdSetCdr(A, B) \/ \E t : LDU!CmdRead(t, A)
        \/ LDU!CmdConsFull \/ LDU!CmdTypeError(A)
    BY <1>2, <2>3 DEF ExecCons, ExecSetCdr, ExecRead, Command
  <2>5. CASE LDU!CmdCons(A, B)
    <3>1. hp' = hp + 1 /\ hp \in Nat /\ port'.we_car /\ LDU!HeapClock
      BY <1>0, <2>5, ConsEffect DEF LDU!TypeOK
    <3>2. QED
      BY <1>0, <2>2, <3>1, RamKept DEF NoWrite, Committed
  <2>6. CASE LDU!CmdSetCdr(A, B) \/ \E t : LDU!CmdRead(t, A)
    <3>1. hp' = hp /\ ~port'.we_car /\ LDU!HeapClock
      BY <1>0, <2>3, <2>6, SetCdrEffect, ReadEffect DEF LduOff
    <3>2. QED
      BY <1>0, <2>2, <3>1, RamKept DEF NoWrite, Committed
  <2>7. CASE LDU!CmdConsFull \/ LDU!CmdTypeError(A)
    <3>1. hp' = hp /\ ~port'.we_car /\ LDU!HeapClock
      BY <1>0, <2>7, ErrorEffect DEF LDU!CmdConsFull, LDU!CmdTypeError
    <3>2. QED
      BY <1>0, <2>2, <3>1, RamKept DEF NoWrite, Committed
  <2>8. QED
    BY <2>4, <2>5, <2>6, <2>7
<1>3. CASE MonArg2
  <2>1. state = "MON_ARG2" /\ PeekAddr \in LDU!Addr
    BY <1>0, <1>3, PeekAddrType DEF MonArg2, Taking, TypeOK
  <2>2. NoWrite
    BY <2>1, PortOff
  <2>3. LDU!CmdPeek(PeekAddr) \/ LduClock
    BY <1>3 DEF MonArg2, LduClock
  <2>4. hp' = hp /\ ~port'.we_car /\ LDU!HeapClock
    BY <1>0, <2>1, <2>3, PeekEffect, ClockEffect DEF LduOff
  <2>5. QED
    BY <1>0, <2>2, <2>4, RamKept DEF NoWrite, Committed
<1>4. CASE Resting \/ Watching \/ ExecSandhi
  <2>1. LduClock
    BY <1>4, RestingUnits, WatchingUnits DEF ExecSandhi
  <2>2. state = "WAIT_LDU" => ~ans.valid
    <3>1. ASSUME state = "WAIT_LDU", ans.valid PROVE FALSE
      <4>1. ~ans.error /\ ~Halted
        BY <3>1 DEF UnitInv, LDU!PipelineInv, LDU!OneAnswer, Halted, MonitorStates
      <4>2. Resting
        BY <1>0, <1>4, <3>1, <4>1, MonitorShape DEF ExecSandhi, Execute
      <4>3. QED
        BY <3>1, <4>1, <4>2
           DEF Resting, Fetch, Decode, ExecLocal, ExecJmp, ExecJf, ExecHalt, ExecOut, ExecIn, Execute,
               LduError, WritePairCdr, OutStart, OutDone, InTake, SandhiDone, Wait, Waiting, EnterMonitor
    <3>2. QED
      BY <3>1
  <2>3. NoWrite
    BY <2>2, PortOff
  <2>4. hp' = hp /\ ~port'.we_car /\ LDU!HeapClock
    BY <1>0, <2>1, ClockEffect
  <2>5. QED
    BY <1>0, <2>3, <2>4, RamKept DEF NoWrite, Committed
<1>5. QED
  BY <1>1, <1>2, <1>3, <1>4, NextShape

LEMMA LduValidEffect ==
  ASSUME UnitInv, ServeInv, LduValid
  PROVE  /\ hp' = hp /\ Committed' = hp
         /\ \/ /\ ServesCons /\ Committed = hp - 1
               /\ car_ram' = [car_ram EXCEPT ![hp - 1] = A]
               /\ cdr_ram' = [cdr_ram EXCEPT ![hp - 1] = B]
            \/ /\ ServesSetCdr /\ Committed = hp
               /\ car_ram' = car_ram
               /\ cdr_ram' = [cdr_ram EXCEPT ![LDU!AddrOf(A)] = B]
            \/ /\ ServesPair /\ Committed = hp
               /\ car_ram' = car_ram /\ cdr_ram' = cdr_ram
<1>1. LDU!TypeOK /\ state = "WAIT_LDU" /\ ans.valid /\ ~ans.error /\ LduClock
  BY DEF UnitInv, TypeOK, LduValid, Quiet
<1>2. hp' = hp /\ LDU!HeapClock /\ ~port'.we_car
  BY <1>1, ClockEffect
<1>3. ServesCons \/ ServesSetCdr \/ ServesPair
  BY <1>1 DEF ServeInv, ServesRead, ServesError, UnitInv, LDU!PipelineInv, LDU!ReadIsUndisturbed
<1>4. CASE ServesCons
  BY <1>2, <1>4 DEF ServesCons, Committed, LDU!HeapClock
<1>5. CASE ServesSetCdr
  BY <1>2, <1>5 DEF ServesSetCdr, Committed, LDU!HeapClock
<1>6. CASE ServesPair
  BY <1>1, <1>2, <1>6, RamKept DEF ServesPair, NoWrite, Committed
<1>7. QED
  BY <1>2, <1>3, <1>4, <1>5, <1>6 DEF Committed

LEMMA AddrOfLive ==
  ASSUME NEW w \in Word, NEW n \in 0 .. HeapCells, IsCons(w), Below(w, n)
  PROVE  LDU!AddrOf(w) = w.value /\ w.value \in 0 .. (n - 1)
<1>1. w.value \in Nat /\ w.value < n
  BY ValueModNat, SMT DEF Word, Value, Below
<1>2. QED
  BY <1>1, HeapCellsAssumption DEF LDU!AddrOf

(* Which word an instruction that does not end in the data unit writes.    *)
LEMMA RegisterStep ==
  ASSUME TypeOK, [Next]_vars, ~LduValid, ~Rearm, ~Reboot
  PROVE  \/ regs' = regs
         \/ \E r \in Reg, w \in Word :
               /\ regs' = [regs EXCEPT ![r] = w]
               /\ \/ ~IsCons(w)
                  \/ \E q \in Reg : w = regs[q]
                  \/ state = "WRITE_PAIR_CDR" /\ w = second.buf
<1>0. CtrlOK /\ instruction \in Instr /\ A \in Word /\ B \in Word
  BY OperandTypes DEF TypeOK, CtrlOK
<1>1. CASE ExecLocal
  <2>1. CASE instruction.op = OP_NOP
    BY <1>1, <2>1 DEF ExecLocal, LocalWrite
  <2>2. CASE instruction.op # OP_NOP
    <3> DEFINE w == LocalValue(instruction, A, B)
    <3>1. w \in Word /\ (w = A \/ ~IsCons(w))
      BY <1>0, <1>1, <2>2, LocalWord DEF ExecLocal
    <3>2. regs' = [regs EXCEPT ![instruction.rd] = w]
      BY <1>1, <2>2 DEF ExecLocal, LocalWrite, A, B
    <3>3. A = regs[instruction.rs1]
      BY DEF A
    <3> HIDE DEF w
    <3>4. QED
      BY <1>0, <3>1, <3>2, <3>3, InstrFields
  <2>3. QED
    BY <2>1, <2>2
<1>2. CASE ExecJmp
  <2>1. MkWord(TAG_FIXNUM, pc + 1) \in Word /\ ~IsCons(MkWord(TAG_FIXNUM, pc + 1))
    BY <1>0, PcNextType, NotCons DEF CtrlOK
  <2>2. QED
    BY <1>0, <1>2, <2>1, InstrFields DEF ExecJmp, SetReg
<1>3. CASE WritePairCdr
  BY <1>0, <1>3 DEF WritePairCdr, SetReg, CtrlOK, Second
<1>4. CASE InTake
  <2>1. MkWord(TAG_FIXNUM, in.data) \in Word /\ ~IsCons(MkWord(TAG_FIXNUM, in.data))
    <3>1. in.data \in Nat /\ in.data < 200000
      BY SMT DEF TypeOK, UartOK, Byte
    <3>2. QED
      BY <3>1, SmallValue, NotCons
  <2>2. QED
    BY <1>0, <1>4, <2>1, InstrFields DEF InTake, SetReg
<1>5. CASE SandhiDone
  <2>1. MkWord(TAG_FIXNUM, Packed(latch)) \in Word /\ ~IsCons(MkWord(TAG_FIXNUM, Packed(latch)))
    BY PackedIsValue, NotCons DEF TypeOK, EngOK
  <2>2. QED
    BY <1>0, <1>5, <2>1, InstrFields DEF SandhiDone, SetReg
<1>6. CASE \/ Fetch \/ Decode \/ ExecJf \/ ExecHalt \/ ExecOut \/ ExecIn \/ LduError \/ OutStart \/ OutDone
           \/ Wait \/ EnterMonitor
  BY <1>6 DEF Fetch, Decode, ExecJf, ExecHalt, ExecOut, ExecIn, LduError, OutStart, OutDone, Wait,
              EnterMonitor
<1>7. CASE ExecCons \/ ExecSetCdr \/ ExecRead \/ ExecSandhi
  BY <1>7 DEF ExecCons, ExecSetCdr, ExecRead, ExecSandhi
<1>8. CASE Watching \/ MonArg2
  BY <1>8, MonitorShape DEF Kept
<1>9. CASE UNCHANGED vars
  BY <1>9 DEF vars, coreVars
<1>10. QED
  BY <1>1, <1>2, <1>3, <1>4, <1>5, <1>6, <1>7, <1>8, <1>9, NextShape DEF Resting

-----------------------------------------------------------------------------
(* Pointers.  They hold of programs that are given no pointer to begin     *)
(* with: the loader writes any word a job names into a register, and a     *)
(* CONS word among them would point at what an earlier program left.       *)
NoPairLoaded == \A r \in RegInits : \A k \in Reg : ~IsCons(r[k])

HeapInv ==
    /\ \A r \in Reg : Below(regs[r], Committed)
    /\ \A k \in 0 .. (Committed - 1) : Below(car_ram[k], k) /\ Below(cdr_ram[k], Committed)
    /\ state = "WRITE_PAIR_CDR" => Below(second.buf, Committed)

LEMMA BelowMore ==
  ASSUME NEW w \in Word, NEW n \in Nat, NEW m \in Nat, Below(w, n), n <= m
  PROVE  Below(w, m)
<1>1. w.value \in Nat
  BY ValueModNat, SMT DEF Word, Value
<1>2. QED
  BY <1>1 DEF Below

LEMMA RamWords ==
  ASSUME LDU!TypeOK, NEW n \in 0 .. HeapCells, NEW k \in 0 .. (n - 1)
  PROVE  k \in LDU!Addr /\ car_ram[k] \in Word /\ cdr_ram[k] \in Word
<1>1. k \in LDU!Addr
  BY HeapCellsAssumption DEF LDU!Addr
<1>2. car_ram \in [LDU!Addr -> Word] /\ cdr_ram \in [LDU!Addr -> Word]
  BY LduVocabulary DEF LDU!TypeOK
<1>3. QED
  BY <1>1, <1>2

LEMMA Answered ==
  ASSUME UnitInv, ServeInv, ans.valid
  PROVE  state = "WAIT_LDU" /\ (ServesCons \/ ServesSetCdr \/ ServesPair)
<1>1. state = "WAIT_LDU"
  BY DEF UnitInv, AwaitInv, LduRests, LduPeeks, LduOff
<1>2. QED
  BY <1>1 DEF ServeInv, ServesRead, ServesError, UnitInv, LDU!PipelineInv, LDU!ReadIsUndisturbed

LEMMA FetchedPair ==
  ASSUME UnitInv, ServeInv, StagedInv, ans.valid, second.on
  PROVE  ServesPair /\ IsFetchPair(instruction)
BY Answered DEF StagedInv, ServesCons, ServesSetCdr, IsFetchPair, IsSetCdr, op, OP_CONS,
                      OP_CAR, OP_ATOM

LEMMA PairWritten ==
  ASSUME [Next]_vars, state' = "WRITE_PAIR_CDR"
  PROVE  UNCHANGED vars \/ LduValid
<1> USE DEF Goto
<1>1. CASE Fetch \/ Decode \/ ExecLocal \/ ExecJmp \/ ExecJf \/ ExecHalt \/ ExecOut \/ ExecIn
  BY <1>1 DEF Fetch, Decode, ExecLocal, ExecJmp, ExecJf, ExecHalt, ExecOut, ExecIn
<1>2. CASE LduError \/ WritePairCdr \/ OutStart \/ OutDone \/ InTake \/ SandhiDone \/ EnterMonitor
  BY <1>2 DEF LduError, WritePairCdr, OutStart, OutDone, InTake, SandhiDone, EnterMonitor
<1>3. CASE ExecCons \/ ExecSetCdr \/ ExecRead \/ ExecSandhi \/ Rearm \/ Reboot
  BY <1>3 DEF ExecCons, ExecSetCdr, ExecRead, ExecSandhi, Rearm, Reboot, FreshCpu, CoreReset
<1>4. CASE Wait
  BY <1>4 DEF Wait, Waiting, ctrlVars
<1>5. CASE Watching \/ MonArg2
  <2>1. CASE MonCmd \/ MonArg1 \/ MonArg2
    BY <2>1 DEF MonCmd, MonArg1, MonArg2, NextOfCmd
  <2>2. CASE MonHeapReply \/ MonRegReply \/ MonHpReply \/ MonErrReply \/ MonPerfReply
    BY <2>2 DEF MonHeapReply, MonRegReply, MonHpReply, MonErrReply, MonPerfReply, Reply
  <2>3. CASE MonTxStart \/ MonTxNext \/ MonWait
    BY <2>3 DEF MonTxStart, MonTxNext, MonWait
  <2>4. QED
    BY <1>5, <2>1, <2>2, <2>3 DEF Watching
<1>6. QED
  BY <1>1, <1>2, <1>3, <1>4, <1>5, NextShape DEF Resting

LEMMA AnswerLive ==
  ASSUME UnitInv, ServeInv, HeapInv, ans.valid
  PROVE  Below(ans.result, hp) /\ (ServesPair /\ IsFetchPair(instruction) => Below(ans.result_cdr, hp))
<1>1. A \in Word /\ B \in Word /\ Committed \in 0 .. HeapCells /\ Committed <= hp /\ hp \in 0 .. HeapCells
  BY OperandTypes, CommittedRange DEF UnitInv, TypeOK
<1>2. Below(A, Committed) /\ Below(B, Committed)
  BY InstrFields DEF UnitInv, TypeOK, HeapInv, A, B
<1>3. CASE ServesCons
  <2>1. ~ServesPair
    BY <1>3 DEF ServesCons, ServesPair, Reads, OP_CONS, OP_CAR, OP_CDR
  <2>2. QED
    BY <1>1, <1>3, <2>1 DEF ServesCons, Below, MkWord
<1>4. CASE ServesSetCdr
  <2>1. ~ServesPair
    BY <1>4 DEF ServesSetCdr, ServesPair, NoWrite
  <2>2. ans.result = B /\ Committed = hp
    BY <1>4 DEF ServesSetCdr, Committed
  <2>3. QED
    BY <1>2, <2>1, <2>2
<1>5. CASE ServesPair
  <2>1. IsCons(A) /\ Committed = hp
    BY <1>5 DEF ServesPair, Reads, NoWrite, Committed
  <2>2. LDU!AddrOf(A) = A.value /\ A.value \in 0 .. (hp - 1)
    BY <1>1, <1>2, <2>1, AddrOfLive
  <2>3. Below(car_ram[A.value], A.value) /\ Below(cdr_ram[A.value], hp)
    BY <2>1, <2>2 DEF HeapInv
  <2>4. car_ram[A.value] \in Word
    BY <1>1, <2>2, RamWords DEF UnitInv, TypeOK
  <2>5. Below(car_ram[A.value], hp)
    BY <1>1, <2>2, <2>3, <2>4, BelowMore
  <2>6. QED
    BY <1>5, <2>2, <2>3, <2>5 DEF ServesPair
<1>6. QED
  BY <1>3, <1>4, <1>5, Answered

LEMMA HeapEndsInstruction ==
  ASSUME UnitInv, ServeInv, StagedInv, HeapInv, LduValid
  PROVE  HeapInv'
<1>1. /\ A \in Word /\ B \in Word /\ Committed \in 0 .. HeapCells /\ Committed <= hp /\ hp \in 0 .. HeapCells
      /\ CtrlOK /\ LDU!TypeOK
  BY OperandTypes, CommittedRange DEF UnitInv, TypeOK
<1>2. Below(A, Committed) /\ Below(B, Committed)
  BY InstrFields DEF UnitInv, TypeOK, HeapInv, A, B
<1>3. Committed' = hp /\ hp' = hp
  BY LduValidEffect
<1>4. ASSUME NEW r \in Reg PROVE Below(regs'[r], hp)
  <2>1. Below(regs[r], hp)
    <3>1. regs[r] \in Word /\ Below(regs[r], Committed)
      BY <1>1 DEF CtrlOK, HeapInv
    <3>2. QED
      BY <1>1, <3>1, BelowMore
  <2>2. regs' = [regs EXCEPT ![instruction.rd] = ans.result]
    BY DEF LduValid, SetReg
  <2>3. regs'[r] = regs[r] \/ regs'[r] = ans.result
    BY <1>1, <2>2 DEF CtrlOK
  <2>4. QED
    BY <2>1, <2>3, AnswerLive DEF LduValid
<1>5. ASSUME NEW k \in 0 .. (hp - 1) PROVE Below(car_ram'[k], k) /\ Below(cdr_ram'[k], hp)
  <2>1. k \in LDU!Addr /\ car_ram[k] \in Word /\ cdr_ram[k] \in Word
    BY <1>1, RamWords
  <2>2. CASE ServesCons /\ Committed = hp - 1
    <3>1. car_ram'[k] = (IF k = hp - 1 THEN A ELSE car_ram[k])
      BY <1>1, <2>1, <2>2, LduValidEffect DEF LDU!TypeOK, ServesCons, ServesSetCdr, ServesPair, NoWrite
    <3>2. cdr_ram'[k] = (IF k = hp - 1 THEN B ELSE cdr_ram[k])
      BY <1>1, <2>1, <2>2, LduValidEffect DEF LDU!TypeOK, ServesCons, ServesSetCdr, ServesPair, NoWrite
    <3>3. k # hp - 1 => Below(car_ram[k], k) /\ Below(cdr_ram[k], hp - 1)
      <4>1. k # hp - 1 => k \in 0 .. (Committed - 1)
        BY <1>1, <2>2
      <4>2. QED
        BY <2>2, <4>1 DEF HeapInv
    <3>4. Below(A, hp - 1) /\ Below(B, hp) /\ (k # hp - 1 => Below(cdr_ram[k], hp))
      BY <1>1, <1>2, <2>1, <2>2, <3>3, BelowMore
    <3>5. QED
      BY <3>1, <3>2, <3>3, <3>4
  <2>3. CASE ServesSetCdr /\ Committed = hp
    <3>1. car_ram' = car_ram /\ cdr_ram' = [cdr_ram EXCEPT ![LDU!AddrOf(A)] = B]
      BY <2>3, LduValidEffect DEF ServesCons, ServesSetCdr, ServesPair, NoWrite
    <3>2. cdr_ram'[k] = cdr_ram[k] \/ cdr_ram'[k] = B
      BY <1>1, <2>1, <3>1 DEF LDU!TypeOK
    <3>3. QED
      BY <1>2, <2>3, <3>1, <3>2 DEF HeapInv
  <2>4. CASE ServesPair /\ Committed = hp
    <3>1. car_ram' = car_ram /\ cdr_ram' = cdr_ram
      BY <2>4, LduValidEffect DEF ServesCons, ServesSetCdr, ServesPair, NoWrite
    <3>2. QED
      BY <2>4, <3>1 DEF HeapInv
  <2>5. QED
    BY <2>2, <2>3, <2>4, LduValidEffect
<1>6. state' = "WRITE_PAIR_CDR" => Below(second'.buf, hp)
  <2>1. ans.valid
    BY DEF LduValid
  <2>2. ASSUME state' = "WRITE_PAIR_CDR" PROVE second.on /\ second'.buf = ans.result_cdr
    BY <1>1, <2>2 DEF LduValid, Goto, CtrlOK, Second
  <2>3. QED
    BY <2>1, <2>2, FetchedPair, AnswerLive
<1>7. QED
  BY <1>3, <1>4, <1>5, <1>6 DEF HeapInv, Below, IsCons

LEMMA HeapKept ==
  ASSUME NoPairLoaded, UnitInv, ServeInv, StagedInv, HeapInv, [Next]_vars
  PROVE  HeapInv'
<1>1. CASE LduValid
  BY <1>1, HeapEndsInstruction
<1>2. CASE Rearm \/ Reboot
  <2>1. regs' \in RegInits /\ state' = "FETCH" /\ LDU!Reset
    BY <1>2 DEF Rearm, Reboot, FreshCpu, CoreReset
  <2>2. Committed' = 0
    BY <2>1, LduResetEffect DEF LduOff, Committed
  <2>3. \A r \in Reg : Below(regs'[r], Committed')
    BY <2>1 DEF NoPairLoaded, Below
  <2>4. QED
    BY <2>1, <2>2, <2>3 DEF HeapInv, Below, IsCons
<1>3. CASE ~LduValid /\ ~Rearm /\ ~Reboot
  <2>1. Committed' = Committed /\ car_ram' = car_ram /\ cdr_ram' = cdr_ram
    BY <1>3, CommittedKept
  <2>2. \A r \in Reg : Below(regs'[r], Committed)
    <3>1. CASE regs' = regs
      BY <3>1 DEF HeapInv
    <3>2. ASSUME NEW i \in Reg, NEW w \in Word, regs' = [regs EXCEPT ![i] = w],
                 \/ ~IsCons(w)
                 \/ \E q \in Reg : w = regs[q]
                 \/ state = "WRITE_PAIR_CDR" /\ w = second.buf
          PROVE  \A r \in Reg : Below(regs'[r], Committed)
      <4>1. Below(w, Committed)
        BY <3>2 DEF HeapInv, Below
      <4>2. ASSUME NEW r \in Reg PROVE regs'[r] = regs[r] \/ regs'[r] = w
        BY <3>2 DEF UnitInv, TypeOK, CtrlOK
      <4>3. QED
        BY <4>1, <4>2 DEF HeapInv
    <3>3. QED
      BY <1>3, <3>1, <3>2, RegisterStep DEF UnitInv
  <2>3. state' = "WRITE_PAIR_CDR" => Below(second'.buf, Committed)
    <3>1. state' = "WRITE_PAIR_CDR" => UNCHANGED vars
      BY <1>3, PairWritten
    <3>2. QED
      BY <3>1 DEF vars, coreVars, ctrlVars, HeapInv
  <2>4. QED
    BY <2>1, <2>2, <2>3 DEF HeapInv, Below, IsCons
<1>4. QED
  BY <1>1, <1>2, <1>3

LEMMA MachineHeap == ASSUME NoPairLoaded PROVE Spec => []HeapInv
<1>1. ASSUME Init PROVE HeapInv
  <2>1. Committed = 0 /\ regs \in RegInits /\ state = "FETCH"
    BY <1>1 DEF Init, CoreInit, LDU!Init, LDU!ResetPort, Committed
  <2>2. QED
    BY <2>1 DEF HeapInv, NoPairLoaded, Below
<1>2. UnitInv /\ ServeInv /\ StagedInv /\ HeapInv /\ [Next]_vars => HeapInv'
  BY HeapKept
<1>3. QED
  BY <1>1, <1>2, MachineUnits, MachineServes, MachineStages, PTL DEF Spec

(* No register, allocated pair or answer on its way to a register points   *)
(* at a pair that is not allocated, for every program, although a reset    *)
(* leaves the heap as it was (lisp_data_unit.sv:93-182, heap.sv).          *)
THEOREM PointersLive == ASSUME NoPairLoaded PROVE Spec => []NoDanglingPointer
<1>1. ASSUME UnitInv, ServeInv, StagedInv, HeapInv PROVE NoDanglingPointer
  <2>1. ASSUME NEW k \in 0 .. (Committed - 1)
        PROVE  Below(car_ram[k], Committed) /\ Below(cdr_ram[k], Committed)
    <3>1. Committed \in 0 .. HeapCells /\ k < Committed
      BY <1>1, CommittedRange
    <3>2. car_ram[k] \in Word
      BY <1>1, <3>1, RamWords DEF UnitInv, TypeOK
    <3>3. QED
      BY <1>1, <3>1, <3>2, BelowMore DEF HeapInv
  <2>2. ASSUME ans.valid PROVE Below(ans.result, hp) /\ (second.on => Below(ans.result_cdr, hp))
    BY <1>1, <2>2, AnswerLive, FetchedPair
  <2>3. QED
    BY <1>1, <2>1, <2>2 DEF NoDanglingPointer, HeapInv
<1>2. QED
  BY <1>1, MachineUnits, MachineServes, MachineStages, MachineHeap, PTL

(* The CAR of a pair is older than the pair, so a walk along CARs ends, as *)
(* long as only SETCDR ties knots (control.sv:254-268, heap.sv).           *)
THEOREM CarsDescend == ASSUME NoPairLoaded PROVE Spec => []CarIsOlder
<1>1. HeapInv => CarIsOlder
  BY DEF HeapInv, CarIsOlder
<1>2. QED
  BY <1>1, MachineHeap, PTL

-----------------------------------------------------------------------------
(* The performance counters.  perf_cons counts at the start of a CONS, the *)
(* heap pointer when the unit takes it, and perf_heap_peak at its end,     *)
(* when the pointer has not come to the last cell.                         *)
LEMMA PerfModPos == PerfMod \in Nat /\ PerfMod > 0
BY WidthAssumption, SMT

LEMMA CountOneMore ==
  ASSUME NEW a \in Nat, NEW n \in Nat, n > 0
  PROVE  ((a % n) + 1) % n = (a + 1) % n
<1>1. a = n * (a \div n) + (a % n) /\ a % n \in 0 .. (n - 1) /\ a \div n \in Int
  BY SMT
<1>2. ASSUME NEW b \in Nat, NEW q \in Int, NEW r \in 0 .. (n - 1), b = n * q + r PROVE b % n = r
  BY <1>2, SMT
<1> DEFINE d == a \div n
           s == a % n
<1>3. a = n * d + s /\ s \in 0 .. (n - 1) /\ d \in Int
  BY <1>1
<1> HIDE DEF d, s
<1>4. CASE s + 1 < n
  <2>1. a + 1 = n * d + (s + 1) /\ s + 1 \in 0 .. (n - 1)
    BY <1>3, <1>4
  <2>2. (a + 1) % n = s + 1
    BY <1>2, <1>3, <2>1
  <2>3. (s + 1) % n = s + 1
    BY <2>1, SMT
  <2>4. QED
    BY <2>2, <2>3 DEF s
<1>5. CASE s + 1 = n
  <2>1. a + 1 = n * (d + 1) + 0 /\ d + 1 \in Int
    BY <1>3, <1>5
  <2>2. (a + 1) % n = 0
    BY <1>2, <1>3, <2>1
  <2>3. (s + 1) % n = 0
    BY <1>5, SMT
  <2>4. QED
    BY <2>2, <2>3 DEF s
<1>6. QED
  BY <1>3, <1>4, <1>5

ConsAnswered == state = "WAIT_LDU" /\ ans.valid /\ op = OP_CONS
CountInv ==
    /\ perf.cons = (hp + (IF HeapWasFull THEN 1 ELSE 0)) % PerfMod
    /\ perf.heap_peak = IF ConsAnswered THEN hp - 1 ELSE PeakOf(hp)

LEMMA PeakIs == /\ PeakOf(0) = 0
                /\ \A n \in 0 .. HeapCells : n < HeapCells => PeakOf(n) = n
                /\ PeakOf(HeapCells) = HeapCells - 1
BY HeapCellsAssumption DEF PeakOf

LEMMA ClockNoError == ASSUME LDU!TypeOK, LduClock PROVE ~ans'.error
BY NoCmdEffect, ReadWaitEffect, ReadDoneEffect, PeekDoneEffect DEF LduClock, LDU!Reading, LduOff

(* Only a CONS and the end of a data unit instruction move the two.        *)
LEMMA PerfStep ==
  ASSUME TypeOK, [Next]_vars, ~ExecCons, ~LduValid, ~Rearm, ~Reboot
  PROVE  perf'.cons = perf.cons /\ perf'.heap_peak = perf.heap_peak
<1>0. perf \in Perf
  BY DEF TypeOK, CtrlOK
<1>1. CASE Fetch \/ ExecJmp \/ ExecJf \/ ExecRead
  BY <1>0, <1>1 DEF Fetch, ExecJmp, ExecJf, ExecRead, Bump, Perf
<1>2. CASE \/ Decode \/ ExecLocal \/ ExecHalt \/ ExecSetCdr \/ ExecOut \/ ExecIn \/ ExecSandhi
           \/ LduError \/ WritePairCdr \/ OutStart \/ OutDone \/ InTake \/ SandhiDone \/ Wait
           \/ EnterMonitor
  BY <1>2 DEF Decode, ExecLocal, ExecHalt, ExecSetCdr, ExecOut, ExecIn, ExecSandhi, LduError, WritePairCdr,
              OutStart, OutDone, InTake, SandhiDone, Wait, EnterMonitor, ctrlVars
<1>3. CASE Watching \/ MonArg2
  BY <1>3, MonitorShape DEF Kept
<1>4. CASE UNCHANGED vars
  BY <1>4 DEF vars, coreVars, ctrlVars
<1>5. QED
  BY <1>1, <1>2, <1>3, <1>4, NextShape DEF Resting

LEMMA ConsCounts ==
  ASSUME UnitInv, StagedInv, ServeInv, CountInv, ExecCons
  PROVE  CountInv'
<1>1. /\ LDU!TypeOK /\ state = "EXECUTE" /\ op = OP_CONS /\ state' = "WAIT_LDU" /\ op' = op
      /\ rd.state = 0 /\ ~ans.error /\ ~Halted /\ hp \in 0 .. HeapCells /\ perf \in Perf
  BY DEF ExecCons, Execute, Goto, op, UnitInv, TypeOK, LDU!TypeOK, CtrlOK, AwaitInv, LduRests, LduOff,
         Halted, MonitorStates
<1>2. perf'.cons = (perf.cons + 1) % PerfMod /\ perf'.heap_peak = perf.heap_peak
  BY <1>1 DEF ExecCons, Bump, Perf
<1>3. perf.cons = hp % PerfMod /\ perf.heap_peak = PeakOf(hp)
  BY <1>1 DEF CountInv, HeapWasFull, ConsAnswered
<1>4. perf'.cons = (hp + 1) % PerfMod
  <2>1. hp \in Nat
    BY <1>1, HeapCellsAssumption
  <2>2. ((hp % PerfMod) + 1) % PerfMod = (hp + 1) % PerfMod
    BY <2>1, PerfModPos, CountOneMore
  <2>3. QED
    BY <1>2, <1>3, <2>2
<1>5. LDU!CmdCons(A, B) \/ LDU!CmdConsFull
  BY <1>1 DEF ExecCons, Command, LDU!Reading, LDU!ReadWait, LDU!ReadDone, LDU!PeekDone
<1>6. CASE LDU!CmdCons(A, B)
  <2>1. hp' = hp + 1 /\ hp # HeapCells /\ ans'.valid /\ ~ans'.error
    BY <1>1, <1>6, ConsEffect
  <2>2. ~Halted' /\ ConsAnswered'
    BY <1>1, <2>1 DEF Halted, MonitorStates, ConsAnswered
  <2>3. ~HeapWasFull' /\ hp' + 0 = hp + 1 /\ hp' - 1 = hp /\ hp < HeapCells
    BY <1>1, <2>1, <2>2, HeapCellsAssumption DEF HeapWasFull
  <2>4. PeakOf(hp) = hp
    BY <1>1, <2>3, PeakIs
  <2>5. QED
    BY <1>2, <1>3, <1>4, <2>2, <2>3, <2>4 DEF CountInv
<1>7. CASE LDU!CmdConsFull
  <2>1. hp = HeapCells /\ hp' = hp /\ ans'.error /\ ~ans'.valid
    BY <1>1, <1>7, ErrorEffect DEF LDU!CmdConsFull
  <2>2. HeapWasFull' /\ ~ConsAnswered'
    BY <1>1, <2>1 DEF HeapWasFull, ConsAnswered, op
  <2>3. QED
    BY <1>2, <1>3, <1>4, <2>1, <2>2 DEF CountInv, PeakOf
<1>8. QED
  BY <1>5, <1>6, <1>7

LEMMA LduValidCounts ==
  ASSUME UnitInv, StagedInv, ServeInv, CountInv, LduValid
  PROVE  CountInv'
<1>1. /\ LDU!TypeOK /\ LduClock /\ state = "WAIT_LDU" /\ ~ans.error /\ ~Halted /\ ~Halted'
      /\ state' # "WAIT_LDU" /\ hp \in 0 .. HeapCells /\ perf \in Perf
  BY DEF LduValid, Goto, Quiet, UnitInv, TypeOK, LDU!TypeOK, CtrlOK, Halted, MonitorStates
<1>2. hp' = hp /\ ~ans'.error
  BY <1>1, ClockEffect, ClockNoError
<1>3. ~HeapWasFull /\ ~HeapWasFull' /\ ~ConsAnswered'
  BY <1>1, <1>2 DEF HeapWasFull, ConsAnswered
<1>4. /\ perf'.cons = perf.cons
      /\ perf'.heap_peak = IF LDU!hp_out > perf.heap_peak THEN LDU!hp_out ELSE perf.heap_peak
  BY <1>1 DEF LduValid, Perf
<1>5. perf'.heap_peak = PeakOf(hp)
  <2>1. CASE hp < HeapCells
    <3>1. LDU!hp_out = hp
      BY <1>1, <2>1, HeapCellsAssumption, SMT DEF LDU!hp_out
    <3>2. PeakOf(hp) = hp
      BY <1>1, <2>1, PeakIs
    <3>3. perf.heap_peak \in {hp - 1, hp}
      BY <3>2 DEF CountInv
    <3>4. QED
      BY <1>1, <1>4, <3>1, <3>2, <3>3
  <2>2. CASE hp = HeapCells
    <3>1. LDU!hp_out = 0
      BY <2>2, HeapCellsAssumption, SMT DEF LDU!hp_out
    <3>2. perf.heap_peak = HeapCells - 1 /\ PeakOf(hp) = HeapCells - 1
      BY <2>2, PeakIs DEF CountInv
    <3>3. ~(LDU!hp_out > perf.heap_peak)
      BY <3>1, <3>2, HeapCellsAssumption
    <3>4. QED
      BY <1>4, <3>2, <3>3
  <2>3. QED
    BY <1>1, <2>1, <2>2, HeapCellsAssumption
<1>6. QED
  BY <1>2, <1>3, <1>4, <1>5 DEF CountInv, PeakOf

(* Every other step leaves the heap pointer, and whether the heap was full *)
(* when the staged CONS came.                                              *)
LEMMA CountStep ==
  ASSUME UnitInv, StagedInv, ServeInv, Next, ~ExecCons, ~LduValid, ~Rearm, ~Reboot
  PROVE  hp' = hp /\ (HeapWasFull' <=> HeapWasFull) /\ ~ConsAnswered /\ ~ConsAnswered'
<1>0. TypeOK /\ LDU!TypeOK /\ StagedInv'
  BY StagedKept DEF UnitInv, TypeOK
<1>1. CASE ExecSetCdr \/ ExecRead
  <2>1. /\ state = "EXECUTE" /\ op # OP_CONS /\ op' = op /\ rd.state = 0 /\ instruction' = instruction
    BY <1>1, SMT DEF ExecSetCdr, ExecRead, Execute, IsSetCdr, op, OP_CONS, OP_CAR, OP_CDR, OP_ATOM, UnitInv,
                     AwaitInv, LduRests
  <2>2. LDU!CmdSetCdr(A, B) \/ LDU!CmdTypeError(A) \/ \E t : LDU!CmdRead(t, A)
    <3>1. ~LDU!Reading
      BY <2>1 DEF LDU!Reading, LDU!ReadWait, LDU!ReadDone, LDU!PeekDone
    <3>2. QED
      BY <1>1, <3>1 DEF ExecSetCdr, ExecRead, Command
  <2>3. A \in Word /\ B \in Word
    BY <1>0, OperandTypes DEF TypeOK
  <2>4. hp' = hp
    BY <1>0, <2>2, <2>3, SetCdrEffect, ErrorEffect, ReadEffect DEF LDU!CmdTypeError
  <2>5. QED
    BY <2>1, <2>4 DEF HeapWasFull, ConsAnswered, op
<1>2. CASE MonArg2 \/ Watching
  <2>1. /\ Halted /\ Halted' /\ Kept
    BY <1>0, <1>2, MonitorShape
  <2>2. PeekAddr \in LDU!Addr
    BY <1>0, PeekAddrType DEF TypeOK
  <2>3. LDU!CmdPeek(PeekAddr) \/ LduClock
    BY <1>2, WatchingUnits DEF MonArg2, LduClock
  <2>4. hp' = hp /\ ~ans'.error
    BY <1>0, <2>2, <2>3, PeekEffect, ClockEffect, ClockNoError DEF LduOff
  <2>5. ~ans.error /\ state # "WAIT_LDU" /\ state' # "WAIT_LDU"
    BY <2>1 DEF Halted, MonitorStates, UnitInv, AwaitInv, LduRests, LduPeeks, LduOff
  <2>6. QED
    BY <2>1, <2>4, <2>5 DEF HeapWasFull, ConsAnswered, Kept
<1>3. CASE LduError
  <2>1. /\ state = "WAIT_LDU" /\ ans.error /\ ~ans.valid /\ LduClock /\ instruction' = instruction
        /\ err'.flag /\ state' = "HALT"
    BY <1>3 DEF LduError, Quiet, Goto, UnitInv, LDU!PipelineInv, LDU!OneAnswer
  <2>2. hp' = hp
    BY <1>0, <2>1, ClockEffect
  <2>3. HeapWasFull' <=> HeapWasFull
    BY <2>1 DEF HeapWasFull, Halted
  <2>4. QED
    BY <2>1, <2>2, <2>3 DEF ConsAnswered
<1>4. CASE Wait /\ state = "WAIT_LDU"
  <2>1. ~ans.valid /\ ~ans.error /\ LduClock /\ instruction' = instruction /\ state' = state
    BY <1>4 DEF Wait, Waiting, Quiet, ctrlVars
  <2>2. hp' = hp /\ ~ans'.error
    BY <1>0, <2>1, ClockEffect, ClockNoError
  <2>3. op \in {OP_CAR, OP_CDR}
    BY <1>4, <2>1 DEF ServeInv, ServesRead, ServesError, ServesCons, ServesSetCdr, ServesPair, Reads
  <2>4. op # OP_CONS /\ op' = op
    BY <2>1, <2>3 DEF OP_CONS, OP_CAR, OP_CDR, op
  <2>5. QED
    BY <2>2, <2>4 DEF HeapWasFull, ConsAnswered, op
<1>5. CASE (Resting \/ ExecSandhi) /\ state # "WAIT_LDU"
  <2>1. LduClock /\ state' # "WAIT_LDU"
    <3>1. LduClock
      BY <1>5, RestingUnits DEF ExecSandhi
    <3>2. QED
      BY <1>5, <3>1, RestingGoesOn
  <2>2. hp' = hp /\ ~ans'.error
    BY <1>0, <2>1, ClockEffect, ClockNoError
  <2>3. ~ans.error
    BY <1>5 DEF UnitInv, AwaitInv, LduRests, LduPeeks, LduOff
  <2>4. HeapWasFull <=> op = OP_CONS /\ err.flag
    BY <2>3 DEF HeapWasFull, StagedInv, op
  <2>5. HeapWasFull' <=> op' = OP_CONS /\ err'.flag
    BY <1>0, <2>2 DEF HeapWasFull, StagedInv, op
  <2>6. (op' = OP_CONS /\ err'.flag) <=> (op = OP_CONS /\ err.flag)
    <3>1. CASE Fetch \/ Decode \/ ExecLocal \/ ExecJmp \/ ExecJf \/ ExecOut \/ ExecIn \/ ExecSandhi
      <4>1. ~err.flag /\ err' = err
        BY <3>1 DEF StagedInv, Halted, MonitorStates, Fetch, Decode, ExecLocal, ExecJmp, ExecJf, ExecOut,
                    ExecIn, ExecSandhi, Execute
      <4>2. QED
        BY <4>1
    <3>2. CASE ExecHalt
      BY <3>2 DEF ExecHalt, Execute, op, OP_HALT, OP_CONS
    <3>3. CASE WritePairCdr \/ OutStart \/ OutDone \/ InTake \/ SandhiDone \/ Wait \/ EnterMonitor
      BY <3>3 DEF WritePairCdr, OutStart, OutDone, InTake, SandhiDone, Wait, EnterMonitor, op, ctrlVars
    <3>4. ~LduError
      BY <1>5 DEF LduError
    <3>5. QED
      BY <1>5, <3>1, <3>2, <3>3, <3>4 DEF Resting
  <2>7. QED
    BY <1>5, <2>1, <2>2, <2>4, <2>5, <2>6 DEF ConsAnswered
<1>6. ASSUME Resting \/ ExecSandhi, state = "WAIT_LDU" PROVE LduError \/ Wait
  BY <1>6 DEF Resting, Fetch, Decode, ExecLocal, ExecJmp, ExecJf, ExecHalt, ExecOut, ExecIn, ExecSandhi,
              Execute, WritePairCdr, OutStart, OutDone, InTake, SandhiDone, EnterMonitor
<1>7. QED
  BY <1>1, <1>2, <1>3, <1>4, <1>5, <1>6, NextShape

LEMMA CountKept ==
  ASSUME UnitInv, StagedInv, ServeInv, CountInv, [Next]_vars
  PROVE  CountInv'
<1>0. TypeOK /\ LDU!TypeOK /\ hp \in 0 .. HeapCells
  BY DEF UnitInv, TypeOK, LDU!TypeOK
<1>1. CASE ExecCons \/ LduValid
  BY <1>1, ConsCounts, LduValidCounts
<1>2. CASE Rearm \/ Reboot
  <2>1. perf' = ResetPerf /\ state' = "FETCH" /\ LDU!Reset
    BY <1>2 DEF Rearm, Reboot, FreshCpu, CoreReset
  <2>2. hp' = 0 /\ ~ans'.error /\ ~ans'.valid
    BY <2>1, LduResetEffect DEF LduOff
  <2>3. ~HeapWasFull' /\ ~ConsAnswered'
    BY <2>1, <2>2 DEF HeapWasFull, ConsAnswered, Halted, MonitorStates
  <2>4. (0 + 0) % PerfMod = 0
    BY PerfModPos, SMT
  <2>5. QED
    BY <2>1, <2>2, <2>3, <2>4, PeakIs DEF CountInv, PeakOf, ResetPerf
<1>3. CASE UNCHANGED vars
  BY <1>3 DEF vars, coreVars, ctrlVars, LDU!lduVars, CountInv, PeakOf, HeapWasFull, ConsAnswered, op, Halted
<1>4. CASE Next /\ ~ExecCons /\ ~LduValid /\ ~Rearm /\ ~Reboot
  <2>1. perf'.cons = perf.cons /\ perf'.heap_peak = perf.heap_peak
    BY <1>0, <1>4, PerfStep
  <2>2. hp' = hp /\ (HeapWasFull' <=> HeapWasFull) /\ ~ConsAnswered /\ ~ConsAnswered'
    BY <1>4, CountStep
  <2>3. QED
    BY <2>1, <2>2 DEF CountInv, PeakOf
<1>5. QED
  BY <1>1, <1>2, <1>3, <1>4

LEMMA MachineCounts == Spec => []CountInv
<1>1. ASSUME Init PROVE CountInv
  <2>1. perf = ResetPerf /\ state = "FETCH" /\ hp = 0 /\ ~ans.error /\ ~ans.valid
    BY <1>1 DEF Init, CoreInit, LDU!Init, LDU!ResetAns
  <2>2. ~HeapWasFull /\ ~ConsAnswered
    BY <2>1 DEF HeapWasFull, ConsAnswered, Halted, MonitorStates
  <2>3. (0 + 0) % PerfMod = 0
    BY PerfModPos, SMT
  <2>4. QED
    BY <2>1, <2>2, <2>3, PeakIs DEF CountInv, ResetPerf
<1>2. UnitInv /\ StagedInv /\ ServeInv /\ CountInv /\ [Next]_vars => CountInv'
  BY CountKept
<1>3. QED
  BY <1>1, <1>2, MachineUnits, MachineServes, MachineStages, PTL DEF Spec

(* perf_cons and perf_heap_peak say what the program did to the heap, for  *)
(* every program, a counter that wraps and a heap that is full included    *)
(* (control.sv:208-224, 254-268).                                          *)
THEOREM CountersTrue == Spec => []CountersAreTrue
<1>1. CountInv => CountersAreTrue
  BY DEF CountInv, CountersAreTrue, ConsAnswered
<1>2. QED
  BY <1>1, MachineCounts, PTL

-----------------------------------------------------------------------------
(* How long an instruction and a reply take.  ClocksLeft bounds the clocks *)
(* to the end of what the control unit has begun, an instruction or the    *)
(* answer to a monitor command, not counting those in which it waits for   *)
(* the transmitter or, in an IN, for a byte of the host (HeldUp).          *)
InWork == state \notin {"HALT", "MON_CMD", "MON_ARG1", "MON_ARG2"}
Begins == state \in {"FETCH", "HALT", "MON_CMD"}
HeldUp == \/ state \in {"OUT_WAIT", "MON_TX_WAIT"} /\ tx.busy
          \/ state = "IN_WAIT" /\ ~in.valid

WalkLeft == CASE fsm.state = "LOAD_RULE"  -> 10 - 3 * fsm.rule
              [] fsm.state = "APPLY"      -> 9 - 3 * fsm.rule
              [] fsm.state = "CHECK_NEXT" -> 8 - 3 * fsm.rule
              [] fsm.state = "OUTPUT"     -> 1
              [] OTHER                    -> 0
ReadLeft == IF rd.state = 0 THEN 0 ELSE 3 - rd.state
ClocksLeft ==
    CASE state = "FETCH"          -> 13
      [] state = "DECODE"         -> 12
      [] state = "EXECUTE"        -> 11
      [] state = "WAIT_SANDHI"    -> WalkLeft
      [] state = "WAIT_LDU"       -> ReadLeft + 2
      [] state = "WRITE_PAIR_CDR" -> 1
      [] state = "OUT_START"      -> 2
      [] state \in {"OUT_WAIT", "IN_WAIT"} -> 1
      [] state = "MON_HEAP_WAIT"  -> ReadLeft + 17
      [] state = "MON_TX_START"   -> 2 * mon.left
      [] state = "MON_TX_WAIT"    -> 2 * mon.left - 1
      [] OTHER                    -> 9
Shortens == /\ ClocksLeft \in 1 .. 19
            /\ \/ Begins'
               \/ ClocksLeft' < ClocksLeft
               \/ HeldUp /\ ClocksLeft' = ClocksLeft

LEMMA WalkFalls ==
  ASSUME EngOK, fsm.state # "IDLE", Eng!Clock
  PROVE  WalkLeft \in 1 .. 10 /\ WalkLeft' \in Nat /\ WalkLeft' < WalkLeft
<1>1. PICK r \in 0 .. 2 : r = fsm.rule
  BY DEF EngOK
<1>2. CASE Eng!LoadRule
  <2>1. fsm.state = "LOAD_RULE" /\ fsm'.state = "APPLY" /\ fsm'.rule = r
    BY <1>1, <1>2 DEF EngOK, Eng!LoadRule
  <2>2. QED
    BY <1>1, <2>1 DEF WalkLeft
<1>3. CASE Eng!Apply
  <2>1. fsm.state = "APPLY" /\ fsm'.state = "CHECK_NEXT" /\ fsm'.rule = r
    BY <1>1, <1>3 DEF EngOK, Eng!Apply
  <2>2. QED
    BY <1>1, <2>1 DEF WalkLeft
<1>4. CASE Eng!CheckNext
  <2>1. /\ fsm.state = "CHECK_NEXT"
        /\ fsm'.state = "OUTPUT" \/ (fsm'.state = "LOAD_RULE" /\ fsm'.rule = r + 1 /\ r < 2)
    BY <1>1, <1>4 DEF EngOK, Eng!CheckNext
  <2>2. QED
    BY <1>1, <2>1 DEF WalkLeft
<1>5. CASE Eng!Output
  <2>1. fsm.state = "OUTPUT" /\ fsm'.state = "IDLE"
    BY <1>5 DEF EngOK, Eng!Output, Eng!done
  <2>2. QED
    BY <2>1 DEF WalkLeft
<1>6. QED
  BY <1>2, <1>3, <1>4, <1>5 DEF Eng!Clock, Eng!Rest, Eng!Walk

LEMMA ReadRange == ASSUME LDU!TypeOK PROVE ReadLeft \in 0 .. 2
<1>1. rd.state \in 0 .. 2
  BY DEF LDU!TypeOK, LDU!Rd
<1>2. QED
  BY <1>1 DEF ReadLeft

LEMMA ReadFalls ==
  ASSUME LDU!TypeOK, LduClock, rd.state # 0
  PROVE  ReadLeft \in 1 .. 2 /\ ReadLeft' = ReadLeft - 1
<1>1. LDU!ReadWait \/ LDU!ReadDone \/ LDU!PeekDone
  BY DEF LduClock, LDU!NoCmd, LDU!Ready, LDU!Reading
<1>2. \/ rd.state = 1 /\ rd'.state = 2
      \/ rd.state = 2 /\ rd'.state = 0
  BY <1>1, ReadWaitEffect, ReadDoneEffect, PeekDoneEffect
<1>3. QED
  BY <1>2 DEF ReadLeft

(* An edge that begins or ends something.                                  *)
LEMMA StepShortens ==
  ASSUME UnitInv,
         \/ Fetch \/ Decode \/ ExecLocal \/ ExecJmp \/ ExecJf \/ ExecHalt \/ ExecOut \/ ExecIn
         \/ WritePairCdr \/ OutStart \/ OutDone \/ InTake
  PROVE  Shortens
<1> USE DEF Goto, Execute
<1>1. CASE Fetch \/ Decode \/ ExecOut \/ ExecIn \/ OutStart
  <2>1. \/ state = "FETCH" /\ state' = "DECODE"
        \/ state = "DECODE" /\ state' = "EXECUTE"
        \/ state = "EXECUTE" /\ state' \in {"OUT_START", "IN_WAIT"}
        \/ state = "OUT_START" /\ state' = "OUT_WAIT"
    BY <1>1 DEF Fetch, Decode, ExecOut, ExecIn, OutStart
  <2>2. QED
    BY <2>1 DEF Shortens, ClocksLeft
<1>2. CASE \/ ExecLocal \/ ExecJmp \/ ExecJf \/ ExecHalt
           \/ WritePairCdr \/ OutDone \/ InTake
  <2>1. /\ state \in {"EXECUTE", "WRITE_PAIR_CDR", "OUT_WAIT", "IN_WAIT"}
        /\ state' \in {"FETCH", "HALT"}
    BY <1>2 DEF ExecLocal, ExecJmp, ExecJf, ExecHalt, WritePairCdr, OutDone, InTake
  <2>2. QED
    BY <2>1 DEF Shortens, ClocksLeft, Begins
<1>3. QED
  BY <1>1, <1>2

(* An edge that asks a unit, and one at which a unit answers.              *)
LEMMA AskShortens ==
  ASSUME UnitInv, TypeOK', ExecCons \/ ExecSetCdr \/ ExecRead \/ ExecSandhi
  PROVE  Shortens
<1>1. state = "EXECUTE"
  BY DEF ExecCons, ExecSetCdr, ExecRead, ExecSandhi, Execute
<1>2. CASE ExecCons \/ ExecSetCdr \/ ExecRead
  <2>1. state' = "WAIT_LDU"
    BY <1>2 DEF ExecCons, ExecSetCdr, ExecRead, Goto
  <2>2. ReadLeft' \in 0 .. 2
    <3>1. rd'.state \in 0 .. 2
      BY DEF TypeOK, LDU!TypeOK, LDU!Rd
    <3>2. QED
      BY <3>1 DEF ReadLeft
  <2>3. QED
    BY <1>1, <2>1, <2>2 DEF Shortens, ClocksLeft
<1>3. CASE ExecSandhi
  <2>1. fsm.state = "IDLE"
    BY <1>1 DEF UnitInv, AwaitInv
  <2>2. state' = "WAIT_SANDHI" /\ fsm'.state = "LOAD_RULE" /\ fsm'.rule = 0
    BY <1>3, <2>1 DEF ExecSandhi, Goto, Eng!Start, Eng!IdleFsm, Eng!Walk, Eng!LoadRule, Eng!Apply,
                      Eng!CheckNext, Eng!Output, Eng!done
  <2>3. WalkLeft' = 10
    BY <2>2 DEF WalkLeft
  <2>4. QED
    BY <1>1, <2>2, <2>3 DEF Shortens, ClocksLeft
<1>4. QED
  BY <1>2, <1>3

LEMMA AnswerShortens ==
  ASSUME UnitInv, LduValid \/ LduError \/ SandhiDone
  PROVE  Shortens
<1>1. CASE LduValid \/ LduError
  <2>1. state = "WAIT_LDU" /\ state' \in {"WRITE_PAIR_CDR", "FETCH", "HALT"}
    BY <1>1 DEF LduValid, LduError, Goto
  <2>2. ReadLeft \in 0 .. 2
    BY ReadRange DEF UnitInv, TypeOK
  <2>3. QED
    BY <2>1, <2>2 DEF Shortens, ClocksLeft, Begins
<1>2. CASE SandhiDone
  <2>1. state = "WAIT_SANDHI" /\ fsm.state = "OUTPUT" /\ state' = "FETCH"
    BY <1>2 DEF SandhiDone, Goto, Eng!done
  <2>2. QED
    BY <2>1 DEF Shortens, ClocksLeft, WalkLeft, Begins
<1>3. QED
  BY <1>1, <1>2

(* An edge of a wait: a unit is at work, or the wait is HeldUp.            *)
LEMMA WaitShortens ==
  ASSUME UnitInv, Wait, InWork
  PROVE  Shortens
<1>1. /\ state' = state /\ LduClock /\ Eng!Clock
      /\ \/ state = "WAIT_LDU" /\ ~ans.valid /\ ~ans.error
         \/ state = "OUT_WAIT" /\ tx.busy
         \/ state = "IN_WAIT" /\ ~in.valid
         \/ state = "WAIT_SANDHI"
  BY DEF Wait, Waiting, Quiet, ctrlVars, InWork
<1>2. CASE state = "WAIT_LDU" /\ ~ans.valid /\ ~ans.error
  <2>1. ReadLeft \in 1 .. 2 /\ ReadLeft' = ReadLeft - 1
    BY <1>1, <1>2, ReadFalls DEF UnitInv, TypeOK, AwaitInv, LduWorks
  <2>2. QED
    BY <1>1, <1>2, <2>1 DEF Shortens, ClocksLeft
<1>3. CASE \/ state = "OUT_WAIT" /\ tx.busy
           \/ state = "IN_WAIT" /\ ~in.valid
  BY <1>1, <1>3 DEF Shortens, ClocksLeft, HeldUp
<1>4. CASE state = "WAIT_SANDHI"
  <2>1. WalkLeft \in 1 .. 10 /\ WalkLeft' \in Nat /\ WalkLeft' < WalkLeft
    BY <1>1, <1>4, WalkFalls DEF UnitInv, TypeOK, AwaitInv
  <2>2. QED
    BY <1>1, <1>4, <2>1 DEF Shortens, ClocksLeft
<1>5. QED
  BY <1>1, <1>2, <1>3, <1>4

LEMMA ReplyShortens ==
  ASSUME UnitInv, ReplyInv, Watching \/ MonArg2, InWork
  PROVE  Shortens
<1>1. mon.left \in 0 .. 15 /\ (state \in {"MON_TX_START", "MON_TX_WAIT"} => mon.left \in 1 .. 8)
  BY DEF UnitInv, TypeOK, MonOK, ReplyInv, SendInv, Sending, ReplyLength
<1>2. CASE MonHeapReply
  <2>1. state = "MON_HEAP_WAIT" /\ state' = "MON_TX_START" /\ mon'.left = 8
    BY <1>2 DEF MonHeapReply, Reply, Goto, UnitInv, TypeOK, MonOK
  <2>2. ReadLeft \in 0 .. 2
    BY ReadRange DEF UnitInv, TypeOK
  <2>3. QED
    BY <2>1, <2>2 DEF Shortens, ClocksLeft
<1>3. CASE MonRegReply \/ MonHpReply \/ MonErrReply \/ MonPerfReply
  <2>1. /\ state \in {"MON_REG_SEND", "MON_HP_SEND", "MON_ERR_SEND", "MON_PERF_SEND"}
        /\ state' = "MON_TX_START" /\ mon'.left = 4
    BY <1>3 DEF MonRegReply, MonHpReply, MonErrReply, MonPerfReply, Reply, Goto, UnitInv, TypeOK, MonOK
  <2>2. QED
    BY <2>1 DEF Shortens, ClocksLeft
<1>4. CASE MonTxStart
  <2>1. state = "MON_TX_START" /\ state' = "MON_TX_WAIT" /\ mon' = mon
    BY <1>4 DEF MonTxStart, Goto
  <2>2. QED
    BY <1>1, <2>1 DEF Shortens, ClocksLeft
<1>5. CASE MonTxNext
  <2>1. PICK n \in 1 .. 8 : n = mon.left
    BY <1>1, <1>5 DEF MonTxNext
  <2>2. state = "MON_TX_WAIT" /\ state' = (IF n > 1 THEN "MON_TX_START" ELSE "MON_CMD")
    BY <1>5, <2>1 DEF MonTxNext, Goto
  <2>3. mon'.left = n - 1
    <3>1. (n - 1) % 16 = n - 1
      BY <2>1, SMT
    <3>2. QED
      BY <1>5, <2>1, <3>1 DEF MonTxNext, UnitInv, TypeOK, MonOK
  <2>4. QED
    BY <2>1, <2>2, <2>3 DEF Shortens, ClocksLeft, Begins
<1>6. CASE MonWait
  <2>1. /\ state' = state /\ mon' = mon /\ LduClock
        /\ \/ state = "MON_HEAP_WAIT" /\ ~peek.valid
           \/ state = "MON_TX_WAIT" /\ tx.busy
    BY <1>6 DEF MonWait, Quiet, InWork
  <2>2. CASE state = "MON_HEAP_WAIT" /\ ~peek.valid
    <3>1. ReadLeft \in 1 .. 2 /\ ReadLeft' = ReadLeft - 1
      BY <2>1, <2>2, ReadFalls DEF UnitInv, TypeOK, AwaitInv, LduPeeks
    <3>2. QED
      BY <2>1, <2>2, <3>1 DEF Shortens, ClocksLeft
  <2>3. CASE state = "MON_TX_WAIT" /\ tx.busy
    BY <1>1, <2>1, <2>3 DEF Shortens, ClocksLeft, HeldUp
  <2>4. QED
    BY <2>1, <2>2, <2>3
<1>7. ~MonCmd /\ ~MonArg1 /\ ~MonArg2
  BY DEF MonCmd, MonArg1, MonArg2, Taking, InWork
<1>8. QED
  BY <1>2, <1>3, <1>4, <1>5, <1>6, <1>7 DEF Watching

(* No instruction and no reply is stuck or goes round: every clock brings  *)
(* it nearer to its end, from 13 clocks for an instruction and 19 for a    *)
(* reply, except the clocks in which the transmitter is busy and those in  *)
(* which an IN has no byte.  So the clock and the transmitter's end, which *)
(* is the fairness of Spec, are all that InstructionEnds and               *)
(* MonitorAnswers need (control.sv:187-530).                               *)
THEOREM WorkShortens == Spec => [][Tick /\ InWork => Shortens]_vars
<1>1. ASSUME UnitInv, TypeOK', ReplyInv, Tick, InWork PROVE Shortens
  <2>1. CASE Run
    <3>1. ~EnterMonitor
      BY <1>1 DEF EnterMonitor, InWork
    <3>2. QED
      BY <1>1, <2>1, <3>1, StepShortens, AskShortens, AnswerShortens, WaitShortens DEF Run
  <2>2. CASE Monitor
    BY <1>1, <2>2, ReplyShortens DEF Monitor, Watching
  <2>3. ~Rearm
    BY <1>1 DEF Rearm, InWork
  <2>4. QED
    BY <1>1, <2>1, <2>2, <2>3 DEF Tick
<1>2. UnitInv => TypeOK
  BY DEF UnitInv
<1>3. QED
  BY <1>1, <1>2, MachineUnits, MachineReplies, PTL DEF Spec
=============================================================================
