---------------------------- MODULE LispDataUnit ----------------------------
(***************************************************************************)
(* fpga/rtl/lisp_data_unit.sv with the heap of fpga/rtl/heap.sv inside it. *)
(* One step is one rising clock edge.  Registers that the source drives    *)
(* together are fields of one record; the field names are the source's.    *)
(*                                                                         *)
(* The write port is registered: an edge that takes a CONS or a SETCDR     *)
(* loads the port, and the NEXT edge writes the RAM.  The RAM output is    *)
(* registered too, so a read takes three edges: present the address, let   *)
(* the RAM register its word (reading_state 1), copy it out                *)
(* (reading_state 2).  A command presented while a read is in progress is  *)
(* not looked at.  control.sv asserts at most one command in a cycle, so   *)
(* each command is an action of its own.                                   *)
(***************************************************************************)
EXTENDS LispWord

CONSTANTS HeapCells,      \* 2^HEAP_ADDR_WIDTH
          PowerUp,        \* words the block RAM may hold when power comes up
          OperandA,       \* words that may be on op_a
          OperandB        \* words that may be on op_b

ASSUME HeapCellsAssumption ==
    HeapCells \in Nat /\ HeapCells > 0 /\ HeapCells <= ValueMod
ASSUME WordsAssumption == PowerUp \subseteq Word /\ OperandA \subseteq Word /\ OperandB \subseteq Word

VARIABLES hp,             \* one bit wider than an address: 0 .. HeapCells
          port,           \* heap_we_car, heap_we_cdr, heap_addr, heap_*_in
          rd,             \* reading_state, read_type, is_peek
          ans,            \* valid, error, result, result_cdr
          peek,           \* peek_valid, peek_car, peek_cdr
          car_ram, cdr_ram,
          car_out, cdr_out

lduVars == <<hp, port, rd, ans, peek, car_ram, cdr_ram, car_out, cdr_out>>

Addr      == 0 .. (HeapCells - 1)
AddrOf(w) == w.value % HeapCells          \* value[HEAP_ADDR_WIDTH-1:0]
hp_out    == hp % HeapCells               \* hp[HEAP_ADDR_WIDTH-1:0]

CAR == 0
CDR == 1
FETCH_PAIR == 2

Port == [we_car : BOOLEAN, we_cdr : BOOLEAN, addr : Addr, car_in : Word, cdr_in : Word]
Rd   == [state : 0 .. 2, type : {CAR, CDR, FETCH_PAIR}, peek : BOOLEAN]
Ans  == [valid : BOOLEAN, error : BOOLEAN, result : Word, result_cdr : Word]
Peek == [valid : BOOLEAN, car : Word, cdr : Word]

TypeOK == /\ hp \in 0 .. HeapCells
          /\ port \in Port
          /\ rd \in Rd
          /\ ans \in Ans
          /\ peek \in Peek
          /\ car_ram \in [Addr -> Word]
          /\ cdr_ram \in [Addr -> Word]
          /\ car_out \in Word
          /\ cdr_out \in Word

ResetPort == [we_car |-> FALSE, we_cdr |-> FALSE, addr |-> 0,
              car_in |-> ZeroWord, cdr_in |-> ZeroWord]
ResetRd   == [state |-> 0, type |-> CAR, peek |-> FALSE]
ResetAns  == [valid |-> FALSE, error |-> FALSE, result |-> ZeroWord, result_cdr |-> ZeroWord]
ResetPeek == [valid |-> FALSE, car |-> ZeroWord, cdr |-> ZeroWord]

Init == /\ hp = 0
        /\ port = ResetPort
        /\ rd = ResetRd
        /\ ans = ResetAns
        /\ peek = ResetPeek
        /\ car_ram \in [Addr -> PowerUp]
        /\ cdr_ram \in [Addr -> PowerUp]
        /\ car_out = car_ram[0]
        /\ cdr_out = cdr_ram[0]

-----------------------------------------------------------------------------
(* heap.sv: the clock edge of the two RAMs.                                *)
HeapClock ==
    /\ car_ram' = IF port.we_car THEN [car_ram EXCEPT ![port.addr] = port.car_in] ELSE car_ram
    /\ cdr_ram' = IF port.we_cdr THEN [cdr_ram EXCEPT ![port.addr] = port.cdr_in] ELSE cdr_ram
    /\ car_out' = IF port.we_car THEN car_out ELSE car_ram[port.addr]
    /\ cdr_out' = IF port.we_cdr THEN cdr_out ELSE cdr_ram[port.addr]

(* The defaults at the head of the clocked block.                          *)
WriteOff == [port EXCEPT !.we_car = FALSE, !.we_cdr = FALSE]
AnsOff   == [ans EXCEPT !.valid = FALSE, !.error = FALSE]
PeekOff  == [peek EXCEPT !.valid = FALSE]

(* Faulty: a command is looked at in the middle of a read.                 *)
FaultyReadyAlways == TRUE
Ready == rd.state = 0

(* Faulty: an error is not reported.                                       *)
FaultySilentError == /\ ans' = AnsOff
                     /\ peek' = PeekOff
                     /\ port' = WriteOff
                     /\ UNCHANGED <<hp, rd>>
                     /\ HeapClock

Error == /\ ans' = [AnsOff EXCEPT !.error = TRUE]
         /\ peek' = PeekOff
         /\ port' = WriteOff
         /\ UNCHANGED <<hp, rd>>
         /\ HeapClock

ReadWait ==
    /\ rd.state = 1
    /\ rd' = [rd EXCEPT !.state = 2]
    /\ ans' = AnsOff
    /\ peek' = PeekOff
    /\ port' = WriteOff
    /\ UNCHANGED hp
    /\ HeapClock

PeekDone ==
    /\ rd.state = 2
    /\ rd.peek
    /\ rd' = [rd EXCEPT !.state = 0]
    /\ peek' = [valid |-> TRUE, car |-> car_out, cdr |-> cdr_out]
    /\ ans' = AnsOff
    /\ port' = WriteOff
    /\ UNCHANGED hp
    /\ HeapClock

(* Faulty: FETCH_PAIR leaves result_cdr as it was.                         *)
FaultyReadDoneOneHalf ==
    /\ rd.state = 2
    /\ ~rd.peek
    /\ rd' = [rd EXCEPT !.state = 0]
    /\ ans' = [ans EXCEPT !.valid = TRUE, !.error = FALSE,
                          !.result = IF rd.type = CDR THEN cdr_out ELSE car_out]
    /\ peek' = PeekOff
    /\ port' = WriteOff
    /\ UNCHANGED hp
    /\ HeapClock

ReadDone ==
    /\ rd.state = 2
    /\ ~rd.peek
    /\ rd' = [rd EXCEPT !.state = 0]
    /\ ans' = [valid      |-> TRUE,
               error      |-> FALSE,
               result     |-> IF rd.type = CDR THEN cdr_out ELSE car_out,
               result_cdr |-> IF rd.type = FETCH_PAIR THEN cdr_out ELSE ans.result_cdr]
    /\ peek' = PeekOff
    /\ port' = WriteOff
    /\ UNCHANGED hp
    /\ HeapClock

(* Faulty: is_peek is not set, so the read ends as a CAR.                  *)
FaultyPeekUnmarked(addr) ==
    /\ Ready
    /\ port' = [WriteOff EXCEPT !.addr = addr]
    /\ rd' = [rd EXCEPT !.state = 1]
    /\ ans' = AnsOff
    /\ peek' = PeekOff
    /\ UNCHANGED hp
    /\ HeapClock

CmdPeek(addr) ==
    /\ Ready
    /\ port' = [WriteOff EXCEPT !.addr = addr]
    /\ rd' = [state |-> 1, type |-> rd.type, peek |-> TRUE]
    /\ ans' = AnsOff
    /\ peek' = PeekOff
    /\ UNCHANGED hp
    /\ HeapClock

(* Faulty: a CONS whose CDR is not written, and one that does not look for *)
(* the end of the heap.                                                    *)
FaultyConsStep(a, b, cdr) ==
    /\ Ready
    /\ port' = [we_car |-> TRUE, we_cdr |-> cdr, addr |-> hp, car_in |-> a, cdr_in |-> b]
    /\ ans' = [AnsOff EXCEPT !.valid = TRUE, !.result = MkWord(TAG_CONS, hp)]
    /\ hp' = hp + 1
    /\ peek' = PeekOff
    /\ UNCHANGED rd
    /\ HeapClock
FaultyConsCarOnly(a, b)   == hp # HeapCells /\ FaultyConsStep(a, b, FALSE)
FaultyConsUnchecked(a, b) == FaultyConsStep(a, b, TRUE)

CmdCons(a, b) ==
    /\ Ready
    /\ hp # HeapCells
    /\ port' = [we_car |-> TRUE, we_cdr |-> TRUE, addr |-> hp, car_in |-> a, cdr_in |-> b]
    /\ ans' = [AnsOff EXCEPT !.valid = TRUE, !.result = MkWord(TAG_CONS, hp)]
    /\ hp' = hp + 1
    /\ peek' = PeekOff
    /\ UNCHANGED rd
    /\ HeapClock

CmdConsFull ==
    /\ Ready
    /\ hp = HeapCells
    /\ Error

(* Faulty: one write enable for both fields.                               *)
FaultySetCdrBothFields(a, b) ==
    /\ Ready
    /\ IsCons(a)
    /\ port' = [port EXCEPT !.we_car = TRUE, !.we_cdr = TRUE, !.addr = AddrOf(a), !.cdr_in = b]
    /\ ans' = [AnsOff EXCEPT !.valid = TRUE, !.result = b]
    /\ peek' = PeekOff
    /\ UNCHANGED <<hp, rd>>
    /\ HeapClock

CmdSetCdr(a, b) ==
    /\ Ready
    /\ IsCons(a)
    /\ port' = [WriteOff EXCEPT !.we_cdr = TRUE, !.addr = AddrOf(a), !.cdr_in = b]
    /\ ans' = [AnsOff EXCEPT !.valid = TRUE, !.result = b]
    /\ peek' = PeekOff
    /\ UNCHANGED <<hp, rd>>
    /\ HeapClock

(* CAR, CDR and FETCH_PAIR of a pair start a read and differ in read_type. *)
CmdRead(type, a) ==
    /\ Ready
    /\ IsCons(a)
    /\ port' = [WriteOff EXCEPT !.addr = AddrOf(a)]
    /\ rd' = [state |-> 1, type |-> type, peek |-> FALSE]
    /\ ans' = AnsOff
    /\ peek' = PeekOff
    /\ UNCHANGED hp
    /\ HeapClock

(* SETCDR, FETCH_PAIR, CAR and CDR of a word that is not a pair.           *)
CmdTypeError(a) ==
    /\ Ready
    /\ ~IsCons(a)
    /\ Error

NoCmd ==
    /\ Ready
    /\ ans' = AnsOff
    /\ peek' = PeekOff
    /\ port' = WriteOff
    /\ UNCHANGED <<hp, rd>>
    /\ HeapClock

(* rst_n: asynchronous for the registers, absent from the RAM.  It is held *)
(* for at least one edge (lisp_machine.sv keeps it low while the           *)
(* bootloader runs), so the RAM outputs settle on cell 0; a write that was *)
(* waiting in the port is lost.                                            *)
Reset ==
    /\ hp' = 0
    /\ port' = ResetPort
    /\ rd' = ResetRd
    /\ ans' = ResetAns
    /\ peek' = ResetPeek
    /\ UNCHANGED <<car_ram, cdr_ram>>
    /\ car_out' = car_ram[0]
    /\ cdr_out' = cdr_ram[0]

Reading == ReadWait \/ ReadDone \/ PeekDone

Next == \/ \E a \in OperandA, b \in OperandB : CmdCons(a, b) \/ CmdSetCdr(a, b)
        \/ \E a \in OperandA, t \in {CAR, CDR, FETCH_PAIR} : CmdRead(t, a)
        \/ \E a \in OperandA : CmdTypeError(a)
        \/ \E i \in Addr : CmdPeek(i)
        \/ CmdConsFull
        \/ NoCmd
        \/ Reading
        \/ Reset

Spec == Init /\ [][Next]_lduVars

-----------------------------------------------------------------------------
(* The store the caller sees: the RAM, with the write waiting in the port  *)
(* already in place.                                                       *)
CarAt(i) == IF port.we_car /\ port.addr = i THEN port.car_in ELSE car_ram[i]
CdrAt(i) == IF port.we_cdr /\ port.addr = i THEN port.cdr_in ELSE cdr_ram[i]

AskedKind == IF rd.peek THEN "peek"
             ELSE CASE rd.type = CAR -> "car" [] rd.type = CDR -> "cdr" [] OTHER -> "pair"

StoreMem    == [i \in Addr |-> [car |-> CarAt(i), cdr |-> CdrAt(i)]]
StoreAsk    == IF rd.state = 0 THEN [kind |-> "none", addr |-> 0]
               ELSE [kind |-> AskedKind, addr |-> port.addr]
StoreAnswer ==
    IF ans.valid THEN [status |-> "ok", first |-> ans.result, second |-> ans.result_cdr]
    ELSE IF ans.error THEN [status |-> "error", first |-> ans.result, second |-> ans.result_cdr]
    ELSE IF peek.valid THEN [status |-> "peek", first |-> peek.car, second |-> peek.cdr]
    ELSE [status |-> "none", first |-> ans.result, second |-> ans.result_cdr]

Store == INSTANCE ConsStore WITH mem <- StoreMem, used <- hp,
                                 ask <- StoreAsk, answer <- StoreAnswer

(* The clocked unit keeps the promise of ConsStore: a pair is readable     *)
(* from the edge that answers its CONS although the RAM is written an edge *)
(* later, every read returns what the pair holds when the answer is given, *)
(* a full heap refuses a CONS and changes nothing.                         *)
ImplementsStore == Store!Spec

(* The pipeline never mixes two operations: while a read is in progress    *)
(* the write port is off and no answer is showing, the RAM output is the   *)
(* addressed cell when the unit copies it out, an allocation in the port   *)
(* is the newest cell and covers both fields, and the unit gives one       *)
(* answer at a time.                                                       *)
ReadIsUndisturbed ==
    rd.state # 0 => ~port.we_car /\ ~port.we_cdr /\ ~ans.valid /\ ~ans.error /\ ~peek.valid
RamOutputIsCurrent ==
    rd.state = 2 => car_out = car_ram[port.addr] /\ cdr_out = cdr_ram[port.addr]
AllocationIsNewest ==
    port.we_car => port.we_cdr /\ hp > 0 /\ port.addr = hp - 1
OneAnswer ==
    ~(ans.valid /\ ans.error) /\ (peek.valid => ~ans.valid /\ ~ans.error)
PipelineInv ==
    ReadIsUndisturbed /\ RamOutputIsCurrent /\ AllocationIsNewest /\ OneAnswer

(* The CAR of an allocated pair never changes until a reset takes the heap *)
(* back: heap.sv has separate write enables so that SETCDR can backpatch a *)
(* CDR without touching its CAR.                                           *)
CarWrittenOnce ==
    [][hp' >= hp => \A i \in Addr : i < hp => CarAt(i)' = CarAt(i)]_lduVars
=============================================================================
