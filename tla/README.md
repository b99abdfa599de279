# A TLA+ model of the fpga-lisp machine

fpga-lisp is a Lisp machine in SystemVerilog: a small CPU whose words carry
tags, a data unit that allocates and reads pairs in block RAM, a phonetic
coprocessor, a UART bootloader and a monitor, with Python tools on the host that
assemble programs, load them, ask for their results and compare those with an
oracle. This directory models the machine (`src/fpga/rtl`) and the tools, checks
them with TLC on small instances and proves what can be proved for all of them.

## 1. The system

| Part | State | Operations | Talks to |
|---|---|---|---|
| Word (`lisp_word.sv`) | - | 4-bit tag, 28-bit value, wrap-around | everything |
| Data unit and heap (`lisp_data_unit.sv`, `heap.sv`) | `hp`, registered write port, read pipeline, answer pulses, two RAMs | CONS, CAR, CDR, FETCH_PAIR, SETCDR, monitor peek | control unit, by one-clock commands and one-clock answers |
| Control unit, execution (`control.sv`, `instruction_decoder.sv`, `registers.sv`) | state, pc, staged instruction, registers, error record, second write of FETCH_PAIR, six counters | 16 opcodes and their encoded modes | data unit, sandhi engine, UART |
| Control unit, monitor | command, two arguments, reply buffer and count | 0x01 to 0x0B after HALT | UART, data unit (peek), boot |
| Sandhi engine (`sandhi_engine.sv`) | state, rule index, matched, latched pair and result | start, walk of three rules | control unit |
| UPC-8 unit (`upc8_unit.sv`) | none | decode, transform, predicate | control unit |
| UART (`uart.sv`) | shift registers and counters of each side | send, receive a byte | the wire, the receive buffer |
| Receive buffer, resets (`lisp_machine.sv`) | one byte and its valid bit, `rearm_count` | hold, acknowledge, overrun; re-arm, boot | all |
| Bootloader (`bootloader.sv`) | header, counts, word being assembled | program and register upload | UART, imem, registers |
| PredicateBit unit | none | three predicates; connected to nothing | - |
| Host tools (`job_transport.py`, `monitor.py`, `upload.py`, the smoke driver in `evidence/`) | what they have asked and read, the driver's input buffer | upload, wait, ask, time out | UART |
| Runner bridge and lanes (`scripts/`) | a lock, a thread for each connection, clients | ping, probe, monitor, execute; give up, retry | job transport |
| Assembler (`assembler.py`), symbol tables (`gen_symbol_table.py`) | labels, symbols, words; files | include, two passes, number, write; scan, show | files, `monitor.py` |
| Oracle tools (`tools/shared_oracle_parity.py`, `oracle_crosscheck.py`, `check_stale_refs.py`) | an evidence directory; an exit code | compile, assemble, simulate, compare, record | files, other repositories |
| Evaluator in assembly (`fpga/asm/eval_core.inc`) | registers by convention, a stack of pairs in R11 | eval, lookup, cond, primitives, closures | the machine's instructions |
| Assembler in Lisp, reports, benchmarks, prototypes | - | - | - |

What is hard here is timing. Every unit works on its own clocked state machine,
the answers are pulses of one clock, the heap is written one clock after it was
promised, the host sends whenever it likes into a buffer of one byte, and a
reset keeps the RAM. On the host nothing tells when a program has halted: the
tools sleep, write and read with timeouts, and the bytes of one exchange may
still be under way in the next. `PROJECT.json` lists the hazards with their lines; each
property below is aimed at one or more of them.

What makes each part correct:

* data unit: it is a store of pairs. A pair can be read from the clock that
  answers its CONS, CARs never change, a full heap refuses and changes nothing;
* control unit: it is an instruction-at-a-time machine, whatever the latencies;
  every instruction ends; errors stop it precisely; no pointer dangles;
* monitor: complete, ordered answers about the right datum, and no side effect;
* engine: the first matching rule of the pair it was started on, every time;
* UART: what one end takes the other end shows, once and in order, whatever the
  clock of the other side within the sampling margin; `tx_busy` tells the truth;
* bootloader and re-arm: the CPU is released when a whole frame has arrived, not a
  byte earlier, with exactly that frame in imem and the registers, after any
  history of programs, cut-off uploads and resets;
* UPC-8 tables: closed over the layer they work on, and consistent with each other;
* host: one user of the port at a time, an answer is about the program and the
  question it was asked for, a timeout does not shift later replies, everyone who
  asks is answered in the end;
* assembler: no line lost or doubled, every name has the value the whole text gives
  it, the decoder takes a word for what its mnemonic says, modes of one opcode included;
* oracle tools: green means that every case was gone through and that what was compared
  agreed (a contract that cannot be read is passed over, see `v_stale_refs`);
* evaluator: every call gives back the stack it was given and returns to its caller,
  and the value is the one lexical scope gives the expression.

## 2. Modules

```
LispWord <- Upc8Unit <- SandhiRules <- Instruction <- LispISA        (abstract machine)
                             ^              ^
                             |              +------ LispCore <- LispMachine <- MachineProperties
                        SandhiEngine <- - - - - - - - '  '- - -> LispDataUnit <- LispDataUnitProofs
ConsStore (abstract store) <- - - - - - - - - - - - - - - - - - - - - -'
MachineProperties <- MachineProofs <- ProgramProofs <- RefinementProofs
Upc8Unit <- Upc8Chain
Bootloader <- BootMachine
UartTx, UartRx, ByteChannel (abstract line) <- - UartLink <- UartLine
UartRx <- - UartHostLine <- - UartLine
UartLine, BootMachine <- SerialProofs
SerialBoard <- JobTransport <- RunnerBridge, DirectTools <- HostMachine <- HostProofs
Instruction <- Assembler <- SymbolTable <- AssemblerProperties
AssemblerProperties, OracleGate, RepoChecks <- ToolProofs   (RepoChecks EXTENDS LispWord)
LispWord <- Evaluator <- EvaluatorMeaning
SandhiEngine, Upc8Chain, Evaluator <- UnitProofs
```
(one arrow: EXTENDS; dashed: INSTANCE)

One step of a clocked module is one rising clock edge, so every assignment in an
`always_ff` block of the source is part of one action. Registers that the source
sets together are fields of one record under their source names.

* `LispWord`, `Upc8Unit`, `SandhiRules`, `Instruction`: pure definitions. The
  UPC-8 transforms and the rule table are functions to sets of results (empty:
  an error, no match). An instruction is the record the decoder cuts it into.
* `ConsStore`: what the data unit promises, without clocks inside a request.
* `LispDataUnit`: `lisp_data_unit.sv` with `heap.sv`. `port` is the registered
  write port and address, `rd` the read pipeline, `ans` and `peek` the answer
  registers. One action per command, plus the pipeline steps, idle and reset.
* `SandhiEngine`: the five states of the engine.
* `LispISA`: the machine the programmer sees, one instruction per step; its heap
  is only the pairs allocated so far, and following any other pointer is undefined.
* `LispCore`: the execution states of `control.sv` with the register file, imem,
  receive buffer, transmitter and INSTANCEs of the data unit and the engine. Each
  state of the source's `case` is an action, ST_EXECUTE one per instruction form;
  each says what every unit does at that edge.
* `LispMachine`: adds the monitor states, re-arm and the board's reset, and the
  specification with its fairness.
* `UartTx`, `UartRx`: the two state machines of `uart.sv`, each one record with the
  source's register names. `UartLink` wires the first to the second; `UartHostLine`
  puts a serial adapter with a clock of its own (external, no part of the
  repository) in front of the second. `UartLine` is the receiver with either of them
  on the line; it implements `ByteChannel`, the line as a queue of bytes.
* `Bootloader`: `bootloader.sv`, one action per branch of its `case`. `BootMachine`
  puts it on the board, with imem, the register file, the receive buffer, the
  re-arm pulse of `lisp_machine.sv` and a host that sends frames, is killed, or
  re-arms. Of the CPU it has what loading meets: it runs and writes registers,
  halts, and its monitor takes 0x0B.
* `Upc8Chain`: a program that applies the UPC-8 transforms one after another.
* `MachineProperties`: the properties of the machine and its refinement mapping.
* `SerialBoard`: the board as the host meets it through its port, one step a byte:
  bootloader waiting, loading, out of step, program running, monitor. A frame is a
  header and what follows it; a byte the board sends says what it is part of, so
  that a reply read one byte off is told from the right one.
* `JobTransport`: `execute()` between any two calls that touch the port, the checks
  of `parse_request`, both exceptions of the serial driver, and the reads that
  `monitor()` of the bridge shares with it. `RunnerBridge`: the threads, the lock,
  the requests and the lanes. `DirectTools`: `monitor.py`, `upload.py` and the
  smoke driver, which open the port without the lock. `HostMachine` puts them
  around one board and an operator with a RESET button.
* `Assembler`: one step is one line of `expand_includes`, of the first pass, of
  `_intern_loadsym_operands` or of the second pass; `Pack` puts unmasked register
  numbers into the word as the shifts do. `SymbolTable`: `gen_symbol_table.py` and
  the names `monitor.py` shows. `AssemblerProperties`: what the passes come to.
* `OracleGate`: `shared_oracle_parity.py` with a directory that earlier runs have
  used; every external program may fail and the script may be killed after any
  step. The content of a file is the number of the run that wrote it.
  `RepoChecks`: the loops and exit codes of the two other scripts.
* `Evaluator`: `eval_core.inc`. A step is the code between two calls of `eval`, or one
  turn of the lookup loop; the words a site pushes and pops are in the order of its
  CONS and CAR instructions. Two history variables: the calls in progress with the
  stack's height and the environment at each, and whether R4 has come back changed to
  code that goes on with it. `EvaluatorMeaning`: what an expression means, by recursion
  on the expression, with lists and environments as sequences and no stack.

The MC modules give the constants values. `MC_Machine` serves the four runs of the
machine, each with its own programs. `MC_Units`, `MC_Serial` and `MC_Toolchain` let
the initial state choose which of several independent parts a behaviour is about.

Operators named `Faulty...` are faulty variants of the definition that follows
them (a dropped guard, a missing reset, a wrong register). They are used by no
specification; substituting one for its original makes the property
that `PROJECT.json` names with it fail, which shows that the property can fail.

## 3. Runs

| Run | Instance | Shows |
|---|---|---|
| `data_unit` | 2 pairs, all commands at every clock, resets | `ImplementsStore`, `PipelineInv`, `CarWrittenOnce` |
| `units` | engine: 9 codes as both inputs, resets; transforms: all 256 codes, chains of any length; evaluator: 473 expressions, each with `t` bound and unbound, on a heap of 360 pairs | `DoneIsSandhi`, `EveryRunEnds`, `ChainsStayInLayer`, `TransformsAgree`; `StackIsBalanced`, `EvaluationEnds`, `RightUntilLost` |
| `instructions` | all five-word programs of CONS, CAR, CDR, FETCH_PAIR, SETCDR that start with a CONS, on 3 pairs; all three-word programs of OUT, IN, sandhi, transform, EQ, CALL, RET, JF, SUB, trap; a CALL in the last word of imem and its RET | the machine implements `LispISA`; `NoDanglingPointer`, `CarIsOlder`, `ErrorIsPrecise`, `UnitsAreAwaited`, `InstructionEnds` |
| `monitor` | 3 pairs of 4 allocated, bytes 1, 2, 3, 4, 6, 11 at any clock | `RepliesInOrder`, `MonitorAnswers`, `MonitorOnlyReads` |
| `reset` | 50 looping programs, reset at any clock | `ImplementsISA`, `NoDanglingPointer`, `CountersAreTrue` |
| `serial` | line: 8 clocks per bit; the board's transmitter with bytes offered at any clock, or a host with every edge up to 2 early or 5 late and pulses; loader: five jobs, imem of 4 words, uploads cut off, RESET, 0x0B | `ImplementsChannel` (delivery in the end included), `BusyIsSending`; `LoadedIsSent`, `SentIsLoaded` |
| `host` | two jobs, one of which prints and traps; two lanes with one retry, or a lane beside a tool, or a tool and RESET | `LockGuardsPort`, `JobAnswerIsOwn`, `MonitorReadsOneRun`, `ToolReadsItsReply`, `RequestsEnd` |
| `toolchain` | every source of up to three lines out of 20, four include files; the gate on five corpora, twice in one directory; the scripts on three and two cases | `LinesConserved`, `NamesResolve`, `SymbolsApart`, `MnemonicIsMeant`, `ShownNameIsNoted`, `EveryAssemblyEnds`; `EvidenceIsWitnessed`, `SabotageIsRed`; `NoFalseGreen` |

The bounds. Two pairs give the data unit a cell that is read while the other is
written; pointers with bits above the heap address are among its operands. Three
pairs and five instructions are enough for a pair that points to a pair that
points to a pair, a backpatched knot, and a CONS that finds the heap full; the
RAM holds pointers to cell 1 at power-up, the worst case for dangling pointers.
The pc wraps at the end of imem, as it does in the source at 4096, so programs
loop until they fault. `PerfMod` is the width of the counters, `Arg1Span` the
number of addresses one byte reaches (256 in the source): with 2 both bytes of a
peek address matter on a heap of 4. A received byte may come at any clock, which
includes every real baud rate.

The line of `serial` uses the widest margins the receiver has: it looks at a bit two flip-flops
and half a bit after its edge, so an edge may be `ClkPerBit / 2 - 2` early or `ClkPerBit / 2 + 1` late; with one clock more on
either side TLC finds a wrong byte. At the real 434 clocks per bit these margins are
215 and 218 clocks. `LoSpan` is the number of lengths one length byte tells apart
(256 in the source); with 2, programs of one to three words need both bytes and
the carry between them. The jobs have zero to two register words, out of
order, zero to three program words, and one fills imem as far as hosts may.
`RearmGap` is the time the host waits after 0x0B: 3 clocks is exactly what the
receive buffer and the two-clock pulse take (the host waits 50 ms).

In `host` a word is one byte (`WordLen`, 4 in the source) and the driver's buffer
holds two (`MaxInput`): what a tool can be off by is a number of words left in the
buffer, and a reply cut short by the end of a word is the same to it as none. `Casts`
lists which processes are started together, how often RESET is pressed and how
often the lane tries again; any two of them meet in some cast. The smoke driver
asks at most twice (`MaxPolls`) and reads one register (`MaxReads`), enough for a
late reply and for one that follows another. A `monitor.py` whose first question meets a
program still running is outside `ToolReadsItsReply` (`Trusted`): the reply comes after the
TimeoutError of `monitor.py:132`, and the next question takes it for its own.

In `toolchain` the include files contain one that two others share, one that
includes itself and one that does not exist; the lines contain a label used
before and after its place, one defined twice, a `.define` beyond 16 bits, a
number with two notes, a register above 15 and three symbols, of which only two fit
below `MaxId` (901; 65535 in the source). One of the include files has every mode of MOV, a
HALT of no operands and the trap. Registers are below 32, the most that
spills one bit. `SymbolsApart` does not compare the numbers given with those
written in a LOADSYM: nothing keeps the two apart. `MaxRuns` is two runs of the gate in one directory, enough for
every file to be an old one; `MaxClaims` two versions claimed of one contract.

In `units` the evaluator's environment has the bootstrap demos' `not`, `second`, `pair`,
`length`, `length-onto` and `equal?`, a closure that calls another in an operand, one
with an environment of its own, and one that calls itself for ever. The
expressions are calls and conds of two levels over them, and malformed ones. They
end in every way there is: about half with a value, the others with a type error
and a few with a full heap; values and type errors occur with R4 lost and not lost. No
expression compares two pairs that cons has made or adds pairs. A depth of 16 calls
(`Fuel`) is more than any of them needs to have a value. The evaluator is a
program that stops, so this run, `host` and `toolchain` do not ask for a next step.

Runs named `v_...` check a sentence of the source that the code does not keep:

* `v_heap_reply`: the monitor's heap command uses the high address byte of the
  previous command (`control.sv:177` is combinational in a register that is
  latched at the same edge);
* `v_job_result`: `job_transport.py` asks for the result a fixed time after the
  upload. A program that is still running does not take the two bytes; the second
  overruns the first in the buffer, and when the program halts the monitor takes
  register number 9 for the performance command 9 and answers with a counter. The
  error word that follows is the true one, so the answer is `ok`;
* `v_eval_scope`: `eval` does not save R4, its environment, around the test of a cond
  clause and the first operand of EQ, CONS and ADD. A closure applied there leaves its
  own environment in R4, and the rest is evaluated in it: `(cons (not ()) x)` looks
  for `x` among the variables of `not`, and `(equal? '(p . q) '(p . q))` compares the second
  halves with the wrong variables. `RightUntilLost` says that this is the only way in
  which a value can be wrong;
* `v_stale_refs`: `check_stale_refs.py:70` passes over a contract that is not found or
  has no version, and the exit code is 0; the head of the file (lines 13 to 16) says 1, "loudly,
  not silently skipped". `isa-contract.my` itself is not in the repository.

The models also follow the code, not the comment, in smaller places, which
have no run: `hp` has 13 bits and `hp_out` 12, so command 0x03 reports a full heap as
0 (`control.sv:59` promises the pointer) and `perf_heap_peak` stays one short of it (`control.sv:171`
has "max hp seen during run"; `CountersAreTrue` says what the code does); `--soft-rearm` (`job_transport.py:138`) sends
0x0B also to a bootloader that waits for a frame and takes it for a length; `perf_cycles` counts instructions and not the "total clock cycles" of
`control.sv:166`; `monitor.py:103` prints every error record as a type error, but a
full heap and the trap set it too; the third sandhi rule also matches the reserved
row, where `sandhi_engine.sv:23` says "vowel"; a transform result echoes the
operation in bits 15 to 13, where `upc8_unit.sv:24` says 15 to 10. EQ and ATOM give the symbol `t`, which `eval` looks up
wherever it is part of an expression: the demos that put it in a cond as the literal
TRUE (`bootstrap_not_demo.asm:4-8`, and those of `length`, `reverse`, `append`, `equal?`,
`eval_cond`) bind no `t` and end with a type error in `lookup`, where
`docs/testing.md:45-64` gives their values. `docs/lisp-machine-plan.md:538` says that a
tail-recursive `length` does not deepen the call stack; every call of a body pushes R5.

Fairness is WF of the clock (`Tick`) and WF of the transmitter finishing its byte
(`uart_tx` counts clocks and always comes back to IDLE); nothing is assumed of
a host that sends bytes, so `InstructionEnds` excepts an IN with no byte to take. The line of
`serial` assumes WF of the clock only: delivery follows from it, as a frame takes a bounded
number of clocks. In `host` the board takes, answers and sends (WF of `Take`,
`Monitor` and `Send`: they are clocked) and each thread of the bridge goes on
(`socketserver` gives every connection a thread of the operating system, every read
has a timeout, and a lock that is released is given to one that waits). Nothing
is assumed of programs, which may run for ever, of lanes, tools and the operator. The
assembler is one process that runs (WF of its steps), and so are the walk of
the engine and the evaluator in `units`.

## 4. Proofs

`LispDataUnitProofs` proves for every heap size up to 2^28, every set of operand
words and every power-up content of the RAM (`HeapCellsAssumption`,
`WordsAssumption`):

* `TypeCorrect`: `Spec => []TypeOK`. TypeOK is inductive by itself.
* `PipelineCorrect`: `Spec => []PipelineInv`. The invariant joins four facts that
  need each other and TypeOK: while a read is in progress nothing is written and
  no answer shows; in the last stage the RAM output is the addressed cell (true
  because nothing was written in the stage before); a CONS in the port is the
  newest cell and writes both fields; one answer at a time.
* `CarsImmutable`: `Spec => CarWrittenOnce`, from the third part.
* `StoreImplemented`: `Spec => Store!Spec`. The mapping reads the RAM through the
  write port. A command maps to the store's step with its answer; the first read
  clock maps to the request, the second to an idle step, the third to the reply,
  where the second part of the invariant makes the answer the pair's content.

`MachineProofs`, `ProgramProofs` and `RefinementProofs` are about the composed machine
(`LispMachine`), for every program, heap size up to 2^28, size of imem and sequence of
received bytes (`HeapCellsAssumption`, `ImemWordsAssumption`, `BootAssumption`;
`WidthAssumption`: the counters have at most 32 bits, as in the source). Each layer is
an invariant that uses the layers below it.

* `MachineTypeCorrect`: `Spec => []TypeOK`; one lemma per action.
* `MachineDrivesUnits`: every clock of the machine is a legal clock of the data unit and
  of the engine, so whatever `LispDataUnitProofs` and `UnitProofs` prove of the units alone
  holds of them in the machine.
* `UnitsAwaited`: `Spec => []UnitsAreAwaited`. `AwaitInv` says for each control state which
  unit may be at work: the data unit exactly in ST_WAIT_LDU and the monitor's peek, the
  engine exactly in ST_WAIT_SANDHI, and elsewhere no pulse is under way that a
  later instruction could take for its own. With TypeOK and `PipelineInv` this is `UnitInv`.
* `ErrorNamesFault`: `Spec => []ErrorIsPrecise`. `StagedInv`: from a fetch to the next the
  staged instruction is the word the pc points at, and each waiting state was entered by
  an instruction of its own kind.
* `MonitorLeavesState`: `Spec => MonitorOnlyReads`, an action property.
* `RepliesComplete`: `Spec => []RepliesInOrder`. `ReplyInv`: the bytes not sent yet are a
  tail of an answer to the command in the buffer (`SendInv`), the answer of a peek is the
  addressed cell (`PeekInv`), a state that builds a reply belongs to its command (`CmdInv`).
* `PointersLive` and `CarsDescend`: `NoDanglingPointer` and `CarIsOlder`. `ServeInv` says what
  the data unit's three phases owe to the instruction that waits (the operands it was
  given, the cell it reads, the answer it holds); `HeapInv` that every CONS word in a
  register, in the second write of FETCH_PAIR or in an allocated cell is below `hp`, a CAR
  below its own cell. The hypothesis is `NoPairLoaded`: the registers a job loads contain no
  pair. The loader writes any word a job names (`job_transport.py:38-75` checks
  register numbers, not tags), and a CONS word among them would point at cells an earlier
  program left; `HeapInv` is false of such a job. The jobs of the repository load none.
* `CountersTrue`: `Spec => []CountersAreTrue`. `CountInv`: the CONS counter is `hp`, plus
  one once a CONS has found the heap full; the peak is what `PeakOf` says of `hp` (one less once the
  last cell is taken), and one behind `hp` in the clocks in which a CONS has been answered and the
  control unit has not seen it.
* `InstructionsImplemented`: `Spec => ImplementsISA`, also under `NoPairLoaded` (the abstract
  machine gives no meaning to a pair that was not allocated). `MachineInv` joins `UnitInv`,
  `ServeInv`, `StagedInv`, `HeapInv`, what the engine has found so far (`WalkInv`) and that
  it was asked for the codes of this instruction (`AskedInv`). The mapping hides the
  clocks: the clock that ends an instruction maps to the instruction's step of `LispISA`, each other clock to a stutter, a reset
  to the abstract reset. The heap of the abstract machine is the RAM below `hp`, read
  through the write port.

* `WorkShortens`: `Spec => [][Tick /\ InWork => Shortens]_vars`, how long things take. `ClocksLeft` is
  a number from 1 to 19 while an instruction or the answer to a monitor command is under way;
  each clock lowers it or begins the next one, except while the transmitter is busy and, in an
  IN, while the host has sent nothing. An instruction thus takes at most 13 clocks and a reply 19
  besides its waits. It needs `AwaitInv`: a wait in which the unit is not at work would not get shorter.

`SerialProofs` proves of the UART, for every `ClkPerBit > 1` and every set of bytes
(`LineAssumption`, `BytesAssumption`):

* `BusyIsTrue`: `LinkSpec => []BusyIsSending`. This is what lets `LispCore` treat the
  transmitter as a busy flag.
* `LineTypeCorrect`: `LinkSpec => []TypeOK`. TypeOK alone is not inductive: the receiver
  counts to `ClkPerBit \div 2` in one state and to `ClkPerBit - 1` in the others,
  and a count past the first would never end. The invariant `EndsOK` adds
  `StartIsHalf`, that a receiver looking at a start bit has not counted past half
  a bit. Both ends are independent, so each has its own lemma with one step per
  action.
* `LinkIsChannel`: for `ClkPerBit > 2`, every behaviour of the wired pair starts as the
  channel does and takes only steps of the channel: bytes come out in the order they were
  taken, each once, and nothing else comes out. `LinkInv` is the invariant behind it. It
  gives both ends a slot of the frame (0 the start bit, 1 to 8 the data bits, 9 the stop
  bit) and has four situations: the receiver waits, checks a start bit, reads a frame, or
  waits for a stop bit while the next frame has already begun. The wire, its two
  registers and the shift registers are functions of the byte and the slots, and
  `Elapsed`, the clocks since the slot before the receiver's own began, ties the two
  counters together. The sample then falls into its slot (`SamplesInside`), because half a
  bit and the synchroniser are less than a bit away from the edge. With `ClkPerBit = 2` the receiver's
  second look at the start bit falls into bit 0 and bytes are lost, so that the bound is
  needed; the board has 434. The bits themselves are arithmetic on the shift register
  (`Shifts`, `Samples`).
* `LineIsTyped` and `LineIsChannel`: the same for `UartLine`, where the line carries either
  the transmitter's frames or those of the host's adapter. The first needs no limit on the
  adapter. The second has the hypothesis `Tolerable`: edges up to half a bit and a clock late,
  or half a bit less two clocks early, and pulses more than half a bit apart. With the board's
  434 clocks that is 218 late and 215 early; `serial` has 8 clocks a bit and exactly the limits
  (5 late, 2 early). The slots of both ends no longer tell where the line is: `Since`, the clocks
  since the start edge, allows one slot or two neighbours (`Window`), and what is proved of the sampling
  clock is that it allows one only (`MiddleIsCertain`). `HostInv` has five situations: waiting (a
  pulse may pass), a start bit on its way through the synchroniser, reading, the stop
  bit with the next frame begun, and the tail of the host's stop bit.
* `BytesComeInTime`: under the same hypothesis, while a byte is on the line the clocks left of
  it (`Due`) are between 1 and `Longest` (nine bits, half a bit and five clocks), fall by one at
  every edge, and `rx_valid` is set at the edge where one is left and at no other. It is the part of
  delivery that is not fairness: a clock that goes on is all that is missing.

and of the bootloader on its board, for any set of jobs, any imem and any `LoSpan`:

* `BootLoadsJob`: `Spec => LoadedIsSent`, and `FrameFills`: `Spec => []SentIsLoaded`. The
  hypothesis `PatientHost` is what the source's host does: it waits at least three clocks
  after 0x0B (50 ms in `job_transport.py`; `RearmGap` in `serial`) and sends 0x0B only to a board that has
  halted. `--soft-rearm` to a bootloader that waits for a frame is outside, as it is
  in the run: there the byte is taken for a length and the theorem is false. The invariant
  `BoardInv` divides a life of the board into the time before, during and after the re-arm
  pulse (`Phased`), says what the one-byte buffer may hold in each (`InBuffer`), and ties
  the loader's state to the number of bytes of the frame the host has sent: the header bytes are
  the lengths, `RegsDone` register words and `ProgDone` program words are in their
  places, `InWord` bytes of the next word are in the assembly register. A frame that was cut
  off is a frame that never reaches its end; only RESET leaves it. TLC checked
  `BoardInv` as an invariant of the loader's instance in `serial` before it was proved.

`UnitProofs` is about the three parts of `units`.

* `EngineCorrect`: `Spec => []DoneIsSandhi` for any set of codes (`InputsAssumption`).
  The invariant adds what the walk has found so far: no rule before the
  current one matches the pair the engine was started on (`WaitsOK`), and after a rule
  `matched` says whether it did and the latch holds what it gave (`CheckOK`).
* `RunShortens`: `Spec => [][Shortens]_engVars`, each clock of a run brings the engine nearer to
  IDLE, which it reaches within ten.
* `ChainsKeepLayer` and `ChainsAgree`: `ChainsStayInLayer` and `TransformsAgree`, for chains of
  any length over any codes. The invariant is that the code a chain has reached is a byte of the layer it
  started in; `LayerKept` (a transform changes one field of a code) and `TablesAgree` (what
  the rows of the tables say about one another) are lemmas about the tables.
* `StackCorrect`: `EvalSpec => []StackIsBalanced`, for any image and any
  heap. The property alone is not inductive: what a site pops at its return was
  pushed when it called, any number of steps before. The invariant `ChainOK` says that below
  each call in progress lies its frame, as long as its site makes it, with the
  return address of the call before in its place; `RunOK` and `AfterOK` say
  that the code which runs belongs to the newest call. Three lemmas carry the proof: a
  frame stays while the stack above it changes (`FramesStay`), a call adds one link
  (`CallKeeps`), a jump to `done` leaves the chain alone (`DoneKeeps`).

`HostProofs` proves for any numbers of lanes, connections and tools, any requests and any
behaviour of the board and the operator (`ProcessAssumption`: connections are
processes):

* `LockCorrect`: `Spec => []LockGuardsPort`. The invariant says that a connection holds the
  lock exactly while its thread is inside the lock section (`LockOK`), that a process between
  its open and its close is the one that has the port, and that a connection has the
  port only there (`HolderOK`);
* `ThreadsDoNotCollide`: `Spec => []OnlyToolsCollide`, from the same invariant;
* `JobsAnsweredInKind`: `Spec => []JobAnswerIsOwn` and `MonitorSeesOneRun`:
  `Spec => []MonitorReadsOneRun`, if the driver's buffer holds a reply of the board, which is at
  most two words (`DriverHoldsReply`; a driver has kilobytes);
* `ToolsReadTheirReplies`: `Spec => []ToolReadsItsReply`, if besides the tools announce
  what they send (`FramesFit`: monitor.py:50-65, upload.py:27-52 and the smoke driver count the words
  they write) and monitor.py asks what the monitor answers (`QuestionsKnown`: monitor.py:118-130).

* `ThreadsDescend`: `Spec => [][NoWayBack]_vars`. Every step of a thread, by whatever way `handle`
  and the request go on or fail, leaves it at a later place of an order of fourteen, and no step of
  anybody else moves it, but the client's that opens its connection. No request is tried again or goes round.

`JobsAnsweredInKind`, `MonitorSeesOneRun` and `ToolsReadTheirReplies` come from one invariant, `HostInv`, which the properties do not hint at: it says of
every process what is under way between it and the board. Between open and close only one
process writes, so the bytes on the line, the byte and the command in the board, what the board
has left to send and what the driver's buffer holds are together one question and its
reply (`Exchange`): either the reply has not begun and nothing has come (`Question`), or the
question is taken and what has come and what is left make up the reply (`Answered`). The frame and its
program have forms of their own (`FrameOnWay`, `RunsAlone`), and so has a poll that a running
program may swallow by one byte or both (`Unpolled`, `Unheard`): the argument of a lost command is 0,
which the monitor takes for no command. One lemma per form says that a step of the board leaves it
in that form or brings it to the next (`ExchangeGoesOn`, `FrameGoesOn`, `UnheardGoesOn`);
`ReplyIsThere` says that a read or a timeout finds the whole reply, so that a question in step cannot
time out; `StepKeeps` says that what one process does touches no other's exchange. RESET
ends every claim (`ButtonKeeps`).

`ToolProofs` is about the tools on the host.

* `SymbolNumbersCorrect`: `Spec => []SymbolsApart`, for any program and
  any range of numbers (`SymbolAssumption`). The invariant adds that every numbered symbol is
  below the next number.
* `NamesAreResolved`, `MnemonicsAreMeant` and `NotedNameIsShown`: `Spec => []NamesResolve`,
  `[]MnemonicIsMeant` and `[]ShownNameIsNoted`, for programs of any number of lines, files,
  names and notes. `ProjectsAssumption` says what the regular expressions leave of a line
  (a list of operands, each a register, a number or a name); nothing is assumed of the
  names, of how files include each other or of the operands' number. One invariant
  (`PassInv`) carries all three: while the first pass is at line m, `labels` has for every
  name the value of the latest line above m that binds it (`LabelsTo`) and `code` the
  instructions above m, each at its address (`CodeTo`); the numbering has replaced the
  symbolic operands below `at` and nothing else (`InternedTo`); the second pass has made
  the words below `at` (`WordsTo`). None of the properties speaks of an unfinished
  assembly, so none is inductive. `FieldsAreMeant`, `WordSays` and the lemmas before them are about
  `Encode` alone: every field holds its operand or 0, and the fields give the word the form and
  the mode its mnemonic names. `MnemonicIsMeant` is about lines whose registers are 0 to 15:
  `parse_reg` takes larger ones, which spill into the next field. `CALL R0`, `RET R0`, and a SETCDR with
  `R0` or no third register, are encoded as the JMP, the jump to 0 and the ATOM of the same fields.
* `LinesAreConserved`: `Spec => []LinesConserved`. The sum of the files' lengths is a fold over
  the set of included files in the order of `CHOOSE`; that it does not depend on the order
  (`AnyFirst`, `TotalAdds`) is proved by a smallest set for which it would.
* `AssemblyShortens`: `Spec => []Counted /\ [][Next => Nearer]_vars`, if the projects have
  finitely many files (`FilesAreFinite`). Each step of an assembly comes to a later stage, reads a file
  that was unread, or leaves fewer lines, also when files include each other in a circle; what is
  counted down is a natural number wherever it matters (`SeenInv`, the invariant of `LinesAreConserved`, and `PassInv`).
* `GreenIsTrue`: `CheckSpec => []NoFalseGreen`, for lists of cases of any
  length (`ListsAssumption`), from the invariant that while `fail` is false no
  case so far was bad. Of contracts that could not be read it says nothing: that is `v_stale_refs`.
* `SabotageFound`: `GateSpec => []SabotageIsRed`, for any
  selection of fixtures (`OrdinalsAssumption`), from the invariant that no fixture the gate
  has left behind was the sabotaged one.
* `GateWitnessed`: `GateSpec => []EvidenceIsWitnessed`, under the same assumption, also when an
  ordinal is listed twice. The invariant (`DirInv`) says of each fixture passed that its value, image and
  transcript are of this run, that the records are in the order of the fixtures, and that a
  result of this run exists only from the coverage stage on.

Only model-checked: all liveness (the prover does not do fairness or ENABLED), and the value an
expression has (`RightUntilLost`: its reference is recursive, and induction over data is out of
the prover's reach). Of most liveness properties the part that is not fairness is proved: what is
bounded, falls at every step and never rises. `WorkShortens` is it for `InstructionEnds` and
`MonitorAnswers`, `RunShortens` for `EveryRunEnds`, `AssemblyShortens` for `EveryAssemblyEnds`,
`ThreadsDescend` for `RequestsEnd`, `BytesComeInTime` for the delivery of bytes; that the clock,
the threads and the transmitter go on is the fairness of the specifications, and that a thread which waits
can go on in the end is what the runs check. Recursive operators are only in `EvaluatorMeaning` and
`MC_Units`, which no proof uses.

## 5. Abstractions

* In `LispMachine` re-arm, the bootloader's work and the release of the CPU are one
  step that puts some program in imem and some words in the registers;
  `BootMachine` has its clocks and shows that this is what happens.
* In `LispMachine` the two sides of the UART are a busy flag of any duration and a
  byte at any clock; `BusyIsSending` and `ImplementsChannel` justify both.
* `BootMachine` takes a byte as a whole, in the clock of `rx_valid`. A word is four
  bytes. Its running program writes any of a few words to any of a few registers.
* On the host's line there is no reset in the middle of a frame (the receiver would
  take the rest for bytes, as any UART does).
* The asynchronous reset takes effect as one step, held for at least one edge.
* On the host a program is one of a few jobs; a frame is two items, its header and its
  payload, and a board that took a wrong header is `Lost` until RESET. Sleeps end at any time.
* A line of assembly is what the regular expressions make of it. A value too
  large for `struct.pack` and register numbers above 31 are left out.
* The programs the oracle gate calls succeed or fail; a file is the number of its run.
* The evaluator's stack is a sequence whose pairs are counted and not numbered, so
  pairs of data have the addresses they would have if the stack took none; no
  expression of the language can see an address. `Evaluator` has the instructions' effect
  (CAR, CONS, EQ) and not their clocks, which `ImplementsISA` justifies.
* Block RAM contents at power-up are any of `PowerUp`.
* Error outputs that nothing reads (`upc8_error`, `sandhi_engine.error`) are left out.

## 6. Not modelled

* `predicate_bit_unit.sv` is combinational and no module instantiates it: it has
  neither a state nor a caller whose use of it could be wrong.
* `assembler.lisp` is a program of another interpreter, which is not in the
  repository; the demos are data for the machine and the evaluator.
* `fixture_coverage.py`, `genesis_manifest.py` and `gpu-worker-parity.py` read files and
  print; they keep no state. The last is a copy whose original is elsewhere (its line 2).
* Benchmarks, prototypes and evidence are measurements and records.
* The compiler, the simulator and the oracle that the tools call are external; a call
  of one gives any outcome.

What remains open: that the evaluator in assembly gives an expression its value for every image
(`RightUntilLost` is checked on the images of `units`).
