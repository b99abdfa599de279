----------------------------- MODULE ToolProofs -----------------------------
(***************************************************************************)
(* The programs that make and compare images, for sources and lists of     *)
(* cases of any length: what the assembler writes is what the text says,   *)
(* name by name and mnemonic by mnemonic, no line of an included file is   *)
(* lost, the numbers of its symbols stay apart, the scripts never forget a *)
(* bad case, and the parity gate turns red when it is told to expect       *)
(* something else.                                                         *)
(***************************************************************************)
EXTENDS AssemblerProperties, RepoChecks, OracleGate, FiniteSetTheorems, SequenceTheorems, TLAPS

-----------------------------------------------------------------------------
(* assembler.py.                                                           *)

(* The numbers given so far are the ones below next_id.                    *)
NextIdOK == next_id \in Nat /\ next_id >= SYMBOL_BASE_ID
IdsBelow == \A o \in DOMAIN ids : ids[o] \in SYMBOL_BASE_ID .. next_id - 1
SymbolInv == NextIdOK /\ IdsBelow /\ SymbolsApart

LEMMA InitSymbolInv == Init => SymbolInv
<1>1. ASSUME Init PROVE SymbolInv
  <2>1. next_id = SYMBOL_BASE_ID /\ DOMAIN ids = {}
    BY <1>1 DEF Init
  <2>2. QED
    BY <2>1, SymbolAssumption DEF SymbolInv, NextIdOK, IdsBelow, SymbolsApart
<1>2. QED
  BY <1>1

LEMMA SameIds ==
  ASSUME SymbolInv, UNCHANGED <<ids, next_id>>
  PROVE  SymbolInv'
BY DEF SymbolInv, NextIdOK, IdsBelow, SymbolsApart

(* A new symbol gets a number above those of the others.                   *)
LEMMA NewSymbol ==
  ASSUME SymbolInv, NEW o, o \notin DOMAIN ids, ~TableFull,
         ids' = Numbered(o), next_id' = next_id + 1
  PROVE  SymbolInv'
<1>1. /\ DOMAIN ids' = DOMAIN ids \cup {o}
      /\ ids'[o] = next_id
      /\ \A p \in DOMAIN ids : ids'[p] = ids[p]
  BY DEF Numbered
<1>2. next_id \in SYMBOL_BASE_ID .. MaxId /\ next_id \in Nat
  BY SymbolAssumption DEF SymbolInv, NextIdOK, TableFull
<1>3. NextIdOK' /\ IdsBelow'
  BY <1>1, <1>2, SymbolAssumption DEF SymbolInv, NextIdOK, IdsBelow
<1>4. \A p \in DOMAIN ids : ids[p] # next_id
  BY <1>2, SymbolAssumption DEF SymbolInv, IdsBelow
<1>5. SymbolsApart'
  BY <1>1, <1>2, <1>4 DEF SymbolInv, SymbolsApart
<1>6. QED
  BY <1>3, <1>5 DEF SymbolInv

LEMMA InternStep ==
  ASSUME SymbolInv, Intern
  PROVE  SymbolInv'
<1> DEFINE o == code[at].args[2]
<1>1. CASE UNCHANGED <<ids, next_id>>
  BY <1>1, SameIds
<1>2. CASE ~UNCHANGED <<ids, next_id>>
  <2>1. /\ o \notin DOMAIN ids /\ ~TableFull
        /\ ids' = Numbered(o) /\ next_id' = next_id + 1
    BY <1>2 DEF Intern
  <2>2. QED
    BY <2>1, NewSymbol
<1>3. QED
  BY <1>1, <1>2

LEMMA NextSymbolInv == SymbolInv /\ [Next]_vars => SymbolInv'
<1>1. SUFFICES ASSUME SymbolInv, [Next]_vars PROVE SymbolInv'
  OBVIOUS
<1>2. CASE Intern
  BY <1>1, <1>2, InternStep
<1>3. CASE ReadInclude \/ ReadLine \/ EndExpand
  BY <1>1, <1>3, SameIds DEF ReadInclude, ReadLine, EndExpand, Exit
<1>4. CASE Pass1 \/ EndPass1
  BY <1>1, <1>4, SameIds DEF Pass1, EndPass1
<1>5. CASE EndIntern \/ Pass2 \/ EndPass2
  BY <1>1, <1>5, SameIds DEF EndIntern, Pass2, EndPass2, Exit
<1>6. CASE Write \/ UNCHANGED vars
  BY <1>1, <1>6, SameIds DEF Write, vars
<1>7. QED
  BY <1>1, <1>2, <1>3, <1>4, <1>5, <1>6 DEF Next

(* The symbols of a program are told apart by their numbers, for programs  *)
(* of any length and any number of symbols (assembler.py:76-95).           *)
THEOREM SymbolNumbersCorrect == Spec => []SymbolsApart
<1>1. SymbolInv => SymbolsApart
  BY DEF SymbolInv
<1>2. QED
  BY <1>1, InitSymbolInv, NextSymbolInv, PTL DEF Spec

-----------------------------------------------------------------------------
(* The words.  What is proved of Encode: each field holds its operand, and *)
(* a word says what its mnemonic stands for.                               *)
LEMMA Opcodes ==
  /\ DOMAIN OPCODES = {"NOP", "LOADI", "MOV", "GETTAG", "MAKEPRIM", "GETVAL", "SANDHI", "CONS", "CAR", "CDR", "ATOM",
                       "SETCDR", "EQ", "JMP", "CALL", "RET", "LOADSYM", "JF", "HALT", "OUT", "ADD", "SUB", "IN"}
  /\ \A m \in Mnemonics : OPCODES[m[1]] = m[2]
<1>1. \A m \in Mnemonics : \A k \in Mnemonics : m[1] = k[1] => m[2] = k[2]
  BY DEF Mnemonics
<1>2. ASSUME NEW m \in Mnemonics PROVE OPCODES[m[1]] = m[2]
  <2> DEFINE k == CHOOSE x \in Mnemonics : x[1] = m[1]
  <2>1. k \in Mnemonics /\ k[1] = m[1]
    OBVIOUS
  <2>2. OPCODES[m[1]] = k[2]
    BY DEF OPCODES
  <2>3. QED
    BY <1>1, <2>1, <2>2
<1>3. DOMAIN OPCODES = {m[1] : m \in Mnemonics}
  BY DEF OPCODES
<1>4. QED
  BY <1>2, <1>3 DEF Mnemonics

LEMMA OpcodeOf ==
  /\ OPCODES["CALL"] = OP_JMP /\ OPCODES["SETCDR"] = OP_ATOM /\ OPCODES["ATOM"] = OP_ATOM
  /\ OPCODES["SANDHI"] = OP_MOV /\ OPCODES["MOV"] = OP_MOV /\ OPCODES["CAR"] = OP_CAR /\ OPCODES["CDR"] = OP_CDR
  /\ OPCODES["JMP"] = OP_JMP /\ OPCODES["HALT"] = OP_HALT /\ OPCODES["RET"] = OP_JMP
  /\ OPCODES["LOADSYM"] = OP_LOADSYM
  /\ OPCODES["GETTAG"] = OP_MOV /\ OPCODES["MAKEPRIM"] = OP_MOV /\ OPCODES["GETVAL"] = OP_MOV
  /\ \A op \in {"NOP", "LOADI", "CONS", "EQ", "LOADSYM", "JF", "OUT", "ADD", "SUB", "IN"} :
        OPCODES[op] \in 0 .. 15 \ {OP_MOV, OP_CAR, OP_ATOM, OP_JMP, OP_HALT}
<1>1. \A o, n : <<o, n>> \in Mnemonics => OPCODES[o] = n
  <2>1. SUFFICES ASSUME NEW o, NEW n, <<o, n>> \in Mnemonics PROVE OPCODES[o] = n
    OBVIOUS
  <2>2. OPCODES[<<o, n>>[1]] = <<o, n>>[2]
    BY <2>1, Opcodes
  <2>3. QED
    BY <2>2
<1>2. /\ <<"CALL", OP_JMP>> \in Mnemonics /\ <<"SETCDR", OP_ATOM>> \in Mnemonics /\ <<"ATOM", OP_ATOM>> \in Mnemonics
      /\ <<"SANDHI", OP_MOV>> \in Mnemonics /\ <<"MOV", OP_MOV>> \in Mnemonics /\ <<"CAR", OP_CAR>> \in Mnemonics
      /\ <<"CDR", OP_CDR>> \in Mnemonics /\ <<"JMP", OP_JMP>> \in Mnemonics /\ <<"HALT", OP_HALT>> \in Mnemonics
      /\ <<"RET", OP_JMP>> \in Mnemonics /\ <<"LOADSYM", OP_LOADSYM>> \in Mnemonics
      /\ <<"GETTAG", OP_MOV>> \in Mnemonics /\ <<"MAKEPRIM", OP_MOV>> \in Mnemonics /\ <<"GETVAL", OP_MOV>> \in Mnemonics
      /\ <<"NOP", OP_NOP>> \in Mnemonics /\ <<"LOADI", OP_LOADI>> \in Mnemonics /\ <<"CONS", OP_CONS>> \in Mnemonics
      /\ <<"EQ", OP_EQ>> \in Mnemonics /\ <<"JF", OP_JF>> \in Mnemonics /\ <<"OUT", OP_OUT>> \in Mnemonics
      /\ <<"ADD", OP_ADD>> \in Mnemonics /\ <<"SUB", OP_SUB>> \in Mnemonics /\ <<"IN", OP_IN>> \in Mnemonics
  BY DEF Mnemonics
<1>3. /\ OPCODES["NOP"] = OP_NOP /\ OPCODES["LOADI"] = OP_LOADI /\ OPCODES["CONS"] = OP_CONS /\ OPCODES["EQ"] = OP_EQ
      /\ OPCODES["LOADSYM"] = OP_LOADSYM /\ OPCODES["JF"] = OP_JF /\ OPCODES["OUT"] = OP_OUT
      /\ OPCODES["ADD"] = OP_ADD /\ OPCODES["SUB"] = OP_SUB /\ OPCODES["IN"] = OP_IN
  BY <1>1, <1>2
<1>4. \A op \in {"NOP", "LOADI", "CONS", "EQ", "LOADSYM", "JF", "OUT", "ADD", "SUB", "IN"} :
        OPCODES[op] \in 0 .. 15 \ {OP_MOV, OP_CAR, OP_ATOM, OP_JMP, OP_HALT}
  BY <1>3 DEF OP_NOP, OP_LOADI, OP_MOV, OP_CONS, OP_CAR, OP_ATOM, OP_EQ, OP_JMP, OP_LOADSYM, OP_JF, OP_HALT, OP_OUT, OP_ADD, OP_SUB, OP_IN
<1>5. QED
  BY <1>1, <1>2, <1>4

(* The field of an operand, and a field without one.                       *)
LEMMA FieldAt ==
  ASSUME NEW op, NEW args, NEW name, NEW k \in DOMAIN Format(op, Len(args)), Format(op, Len(args))[k] = name,
         \A j \in DOMAIN Format(op, Len(args)) : Format(op, Len(args))[j] = name => j = k
  PROVE  Field(op, args, name) = IF name = "imm" THEN parse_imm(args[k]) ELSE args[k].v
<1> DEFINE f  == Format(op, Len(args))
<1> DEFINE ks == {j \in DOMAIN f : f[j] = name}
<1>1. ks = {k}
  OBVIOUS
<1>2. (CHOOSE j \in ks : TRUE) = k
  BY <1>1
<1>3. QED
  BY <1>1, <1>2 DEF Field

LEMMA NoField ==
  ASSUME NEW op, NEW args, NEW name, \A j \in DOMAIN Format(op, Len(args)) : Format(op, Len(args))[j] # name
  PROVE  Field(op, args, name) = 0
BY DEF Field

(* No format names a field twice.                                          *)
LEMMA FormatIs ==
  ASSUME NEW op, NEW n
  PROVE  Format(op, n) \in {<<>>, <<"rd", "rs1", "rs2", "imm">>, <<"rd", "imm">>, <<"rd", "rs1">>, <<"rd", "rs1", "rs2">>,
                            <<"rd">>, <<"rs1">>, <<"imm">>, <<"rs1", "imm">>}
         \/ op \notin DOMAIN OPCODES
BY Opcodes DEF Format

LEMMA FieldsDiffer ==
  ASSUME NEW op \in DOMAIN OPCODES, NEW n
  PROVE  /\ \A j, k \in DOMAIN Format(op, n) : Format(op, n)[j] = Format(op, n)[k] => j = k
         /\ \A j \in DOMAIN Format(op, n) : Format(op, n)[j] \in {"rd", "rs1", "rs2", "imm"}
<1>1. ASSUME NEW f \in {<<>>, <<"rd", "rs1", "rs2", "imm">>, <<"rd", "imm">>, <<"rd", "rs1">>, <<"rd", "rs1", "rs2">>,
                        <<"rd">>, <<"rs1">>, <<"imm">>, <<"rs1", "imm">>}
      PROVE  /\ \A j, k \in DOMAIN f : f[j] = f[k] => j = k
             /\ \A j \in DOMAIN f : f[j] \in {"rd", "rs1", "rs2", "imm"}
  OBVIOUS
<1>2. QED
  BY <1>1, FormatIs

LEMMA FormatLength ==
  ASSUME NEW op \in DOMAIN OPCODES, NEW n
  PROVE  DOMAIN Format(op, n) = 1 .. Len(Format(op, n)) /\ Len(Format(op, n)) \in Nat
<1>1. ASSUME NEW f \in {<<>>, <<"rd", "rs1", "rs2", "imm">>, <<"rd", "imm">>, <<"rd", "rs1">>, <<"rd", "rs1", "rs2">>,
                        <<"rd">>, <<"rs1">>, <<"imm">>, <<"rs1", "imm">>}
      PROVE  DOMAIN f = 1 .. Len(f) /\ Len(f) \in Nat
  OBVIOUS
<1>2. QED
  BY <1>1, FormatIs

LEMMA ImmOfWord ==
  ASSUME NEW op \in DOMAIN OPCODES, NEW args, Parses(op, args),
         NEW k \in DOMAIN Format(op, Len(args)), Format(op, Len(args))[k] = "imm"
  PROVE  IsImm(args[k]) /\ Encode(op, args).imm = parse_imm(args[k]) % 65536
<1>1. \A j \in DOMAIN Format(op, Len(args)) : Format(op, Len(args))[j] = "imm" => j = k
  BY FieldsDiffer
<1>2. Field(op, args, "imm") = parse_imm(args[k])
  BY <1>1, FieldAt
<1>3. Encode(op, args).imm = Field(op, args, "imm") % 65536
  BY DEF Encode, Pack, I
<1>4. QED
  BY <1>2, <1>3 DEF Parses

(* The registers of an instruction that are in range fill their fields and *)
(* no other.                                                               *)
LEMMA PackInRange ==
  ASSUME NEW op, NEW rd \in Reg, NEW rs1 \in Reg, NEW rs2 \in Reg, NEW imm
  PROVE  Pack(op, rd, rs1, rs2, imm) = I(op, rd, rs1, rs2, imm % 65536)
<1>1. \A r \in Reg : r \div 16 = 0 /\ r % 16 = r
  BY DEF Reg
<1>2. \A a : OrLow(a, 0) = a
  BY DEF OrLow
<1>3. Above(rd) = 0 /\ Above(rs1) = 0 /\ Above(rs2) = 0
  BY <1>1 DEF Above
<1>4. QED
  BY <1>1, <1>2, <1>3 DEF Pack

LEMMA FieldInRange ==
  ASSUME NEW line, line.op \in DOMAIN OPCODES, Parses(line.op, line.args), InRange(line),
         line.args \in Seq({line.args[k] : k \in DOMAIN line.args}),
         NEW name \in {"rd", "rs1", "rs2"}
  PROVE  Field(line.op, line.args, name) \in Reg
<1> DEFINE f == Format(line.op, Len(line.args))
<1>1. CASE \E k \in DOMAIN f : f[k] = name
  <2>1. PICK k \in DOMAIN f : f[k] = name
    BY <1>1
  <2>2. \A j \in DOMAIN f : f[j] = name => j = k
    BY <2>1, FieldsDiffer
  <2>3. Field(line.op, line.args, name) = line.args[k].v
    BY <2>1, <2>2, FieldAt
  <2>4. IsReg(line.args[k]) /\ Len(line.args) >= Len(f)
    BY <2>1 DEF Parses
  <2>5. k \in DOMAIN line.args
    <3>1. DOMAIN f = 1 .. Len(f) /\ Len(f) \in Nat
      BY FormatLength
    <3>2. DOMAIN line.args = 1 .. Len(line.args) /\ Len(line.args) \in Nat
      OBVIOUS
    <3>3. QED
      BY <2>1, <2>4, <3>1, <3>2
  <2>6. QED
    BY <2>3, <2>4, <2>5 DEF IsReg, InRange
<1>2. CASE \A k \in DOMAIN f : f[k] # name
  <2>1. Field(line.op, line.args, name) = 0
    BY <1>2, NoField
  <2>2. QED
    BY <2>1 DEF Reg
<1>3. QED
  BY <1>1, <1>2

LEMMA WordInRange ==
  ASSUME NEW line, line.op \in DOMAIN OPCODES, Parses(line.op, line.args), InRange(line),
         line.args \in Seq({line.args[k] : k \in DOMAIN line.args})
  PROVE  Encode(line.op, line.args) =
              I(OPCODES[line.op], Field(line.op, line.args, "rd"), Field(line.op, line.args, "rs1"),
                IF Mode(line.op) # 0 THEN Mode(line.op) ELSE Field(line.op, line.args, "rs2"),
                Field(line.op, line.args, "imm") % 65536)
<1>1. Mode(line.op) \in Reg
  BY DEF Mode, Reg
<1>2. /\ Field(line.op, line.args, "rd") \in Reg /\ Field(line.op, line.args, "rs1") \in Reg
      /\ Field(line.op, line.args, "rs2") \in Reg
  BY FieldInRange
<1> DEFINE rs2 == IF Mode(line.op) # 0 THEN Mode(line.op) ELSE Field(line.op, line.args, "rs2")
<1>3. rs2 \in Reg
  BY <1>1, <1>2
<1>4. Encode(line.op, line.args) = Pack(OPCODES[line.op], Field(line.op, line.args, "rd"),
          Field(line.op, line.args, "rs1"), rs2, Field(line.op, line.args, "imm"))
  BY DEF Encode
<1>5. QED
  BY <1>2, <1>3, <1>4, PackInRange

(* The fields of a word in the order of the operands.  An operand that has *)
(* a field is a register, and the field is its number.                     *)
LEMMA FieldsAreMeant ==
  ASSUME NEW line, line.op \in DOMAIN OPCODES, Parses(line.op, line.args), InRange(line),
         line.args \in Seq({line.args[k] : k \in DOMAIN line.args}),
         NEW w, w = Encode(line.op, line.args)
  PROVE  /\ w.op = OPCODES[line.op]
         /\ <<w.rd, w.rs1>> = TwoRegisters(line)
         /\ Mode(line.op) # 0 => w.rs2 = Mode(line.op)
         /\ Mode(line.op) = 0 =>
               w.rs2 = IF HasThird(line) THEN Number(line, 3) ELSE 0
         /\ line.op \notin TakesNumber /\ ~FullHalt(line) => w.imm = 0
<1> DEFINE F(x) == Field(line.op, line.args, x)
           n    == Len(line.args)
           f    == Format(line.op, n)
<1>1. /\ w.op = OPCODES[line.op] /\ w.rd = F("rd") /\ w.rs1 = F("rs1") /\ w.imm = F("imm") % 65536
      /\ w.rs2 = IF Mode(line.op) # 0 THEN Mode(line.op) ELSE F("rs2")
  <2> DEFINE rs2 == IF Mode(line.op) # 0 THEN Mode(line.op) ELSE F("rs2")
  <2>1. w = I(OPCODES[line.op], F("rd"), F("rs1"), rs2, F("imm") % 65536)
    BY WordInRange
  <2> HIDE DEF F, rs2
  <2>2. w.op = OPCODES[line.op] /\ w.rd = F("rd") /\ w.rs1 = F("rs1") /\ w.imm = F("imm") % 65536 /\ w.rs2 = rs2
    BY <2>1 DEF I
  <2>3. QED
    BY <2>2 DEF rs2
<1>2. DOMAIN line.args = 1 .. n /\ n \in Nat
  OBVIOUS
<1>3. \A x : (\A j \in DOMAIN f : f[j] # x) => F(x) = 0
  BY NoField
<1>4. \A k \in DOMAIN f : f[k] # "imm" => F(f[k]) = Number(line, k)
  <2>1. SUFFICES ASSUME NEW k \in DOMAIN f, f[k] # "imm" PROVE F(f[k]) = Number(line, k)
    OBVIOUS
  <2>2. n >= Len(f) /\ DOMAIN f = 1 .. Len(f) /\ Len(f) \in Nat
    BY FormatLength DEF Parses
  <2>3. \A j \in DOMAIN f : f[j] = f[k] => j = k
    BY FieldsDiffer
  <2>4. F(f[k]) = line.args[k].v
    BY <2>1, <2>3, FieldAt
  <2>5. k <= n
    BY <1>2, <2>1, <2>2
  <2>6. QED
    BY <2>4, <2>5 DEF Number
<1>5. n < 3 => Number(line, 3) = 0
  BY <1>2 DEF Number
<1>6. 0 % 65536 = 0
  OBVIOUS
<1> HIDE DEF F, n, f
<1>7. CASE line.op = "NOP" \/ BareHalt(line)
  <2>1. f = <<>> /\ Mode(line.op) = 0 /\ ~FullHalt(line) /\ line.op \in {"NOP", "HALT"}
    BY <1>7 DEF Format, Mode, FullHalt, BareHalt, f, n
  <2>2. F("rd") = 0 /\ F("rs1") = 0 /\ F("rs2") = 0 /\ F("imm") = 0
    BY <1>3, <2>1
  <2>3. TwoRegisters(line) = <<0, 0>>
    BY <1>7, <2>1 DEF TwoRegisters
  <2>4. w.rd = 0 /\ w.rs1 = 0 /\ w.rs2 = 0
    BY <1>1, <2>1, <2>2
  <2>7. w.imm = 0
    BY <1>1, <1>6, <2>2
  <2>9. ~HasThird(line)
    BY <1>7, <2>1 DEF HasThird
  <2>6. QED
    BY <1>1, <2>1, <2>3, <2>4, <2>7, <2>9
<1>8. CASE FullHalt(line)
  <2>1. f = <<"rd", "rs1", "rs2", "imm">> /\ Mode(line.op) = 0 /\ line.op = "HALT" /\ ~BareHalt(line)
    BY <1>8 DEF Format, Mode, FullHalt, BareHalt, f, n
  <2>2. F("rd") = Number(line, 1) /\ F("rs1") = Number(line, 2) /\ F("rs2") = Number(line, 3)
    BY <1>4, <2>1
  <2>3. TwoRegisters(line) = <<Number(line, 1), Number(line, 2)>>
    BY <2>1 DEF TwoRegisters
  <2>9. HasThird(line)
    BY <1>8, <2>1 DEF HasThird
  <2>4. QED
    BY <1>1, <1>8, <2>1, <2>2, <2>3, <2>9
<1>9. CASE line.op \in {"LOADI", "LOADSYM", "CALL"}
  <2>1. f = <<"rd", "imm">> /\ Mode(line.op) = 0 /\ ~FullHalt(line) /\ ~BareHalt(line) /\ line.op \in TakesNumber
    BY <1>9 DEF Format, Mode, FullHalt, BareHalt, TakesNumber, f
  <2>2. F("rd") = Number(line, 1) /\ F("rs1") = 0 /\ F("rs2") = 0
    BY <1>3, <1>4, <2>1
  <2>3. TwoRegisters(line) = <<Number(line, 1), 0>>
    BY <1>9, <2>1 DEF TwoRegisters
  <2>9. ~HasThird(line)
    BY <1>9, <2>1 DEF HasThird
  <2>4. QED
    BY <1>1, <1>9, <2>1, <2>2, <2>3, <2>9
<1>10. CASE line.op \in {"MOV", "CAR", "CDR", "GETTAG", "MAKEPRIM", "GETVAL", "SANDHI"}
  <2>1. f = <<"rd", "rs1">> /\ ~FullHalt(line) /\ ~BareHalt(line)
    BY <1>10 DEF Format, FullHalt, BareHalt, f
  <2>2. F("rd") = Number(line, 1) /\ F("rs1") = Number(line, 2) /\ F("rs2") = 0 /\ F("imm") = 0
    BY <1>3, <1>4, <2>1
  <2>3. TwoRegisters(line) = <<Number(line, 1), Number(line, 2)>>
    BY <1>10, <2>1 DEF TwoRegisters
  <2>9. ~HasThird(line)
    BY <1>10, <2>1 DEF HasThird
  <2>4. QED
    BY <1>1, <1>6, <1>10, <2>1, <2>2, <2>3, <2>9
<1>11. CASE line.op \in {"CONS", "ADD", "SUB", "EQ", "ATOM", "SETCDR"}
  <2>1. /\ f = (IF n < 3 THEN <<"rd", "rs1">> ELSE <<"rd", "rs1", "rs2">>)
        /\ Mode(line.op) = 0 /\ ~FullHalt(line) /\ ~BareHalt(line)
    BY <1>11 DEF Format, Mode, FullHalt, BareHalt, f
  <2>2. F("rd") = Number(line, 1) /\ F("rs1") = Number(line, 2) /\ F("imm") = 0
    <3>1. CASE n < 3
      BY <1>3, <1>4, <2>1, <3>1
    <3>2. CASE ~(n < 3)
      BY <1>3, <1>4, <2>1, <3>2
    <3>3. QED
      BY <3>1, <3>2
  <2>3. F("rs2") = Number(line, 3)
    <3>1. CASE n < 3
      BY <1>3, <1>5, <2>1, <3>1
    <3>2. CASE ~(n < 3)
      BY <1>4, <2>1, <3>2
    <3>3. QED
      BY <3>1, <3>2
  <2>4. TwoRegisters(line) = <<Number(line, 1), Number(line, 2)>>
    BY <1>11, <2>1 DEF TwoRegisters
  <2>9. HasThird(line)
    BY <1>11, <2>1 DEF HasThird
  <2>5. QED
    BY <1>1, <1>6, <1>11, <2>1, <2>2, <2>3, <2>4, <2>9
<1>12. CASE line.op = "IN"
  <2>1. f = <<"rd">> /\ Mode(line.op) = 0 /\ ~FullHalt(line) /\ ~BareHalt(line)
    BY <1>12 DEF Format, Mode, FullHalt, BareHalt, f
  <2>2. F("rd") = Number(line, 1) /\ F("rs1") = 0 /\ F("rs2") = 0 /\ F("imm") = 0
    BY <1>3, <1>4, <2>1
  <2>3. TwoRegisters(line) = <<Number(line, 1), 0>>
    BY <1>12, <2>1 DEF TwoRegisters
  <2>9. ~HasThird(line)
    BY <1>12, <2>1 DEF HasThird
  <2>4. QED
    BY <1>1, <1>6, <1>12, <2>1, <2>2, <2>3, <2>9
<1>13. CASE line.op \in {"OUT", "RET", "JF"}
  <2>1. /\ f \in {<<"rs1">>, <<"rs1", "imm">>} /\ (line.op \notin TakesNumber => f = <<"rs1">>)
        /\ Mode(line.op) = 0 /\ ~FullHalt(line) /\ ~BareHalt(line)
    BY <1>13 DEF Format, Mode, FullHalt, BareHalt, TakesNumber, f
  <2>2. F("rs1") = Number(line, 1) /\ F("rd") = 0 /\ F("rs2") = 0
    BY <1>3, <1>4, <2>1
  <2>3. line.op \notin TakesNumber => F("imm") = 0
    BY <1>3, <2>1
  <2>4. TwoRegisters(line) = <<0, Number(line, 1)>>
    BY <1>13, <2>1 DEF TwoRegisters
  <2>9. ~HasThird(line)
    BY <1>13, <2>1 DEF HasThird
  <2>5. QED
    BY <1>1, <1>6, <1>13, <2>1, <2>2, <2>3, <2>4, <2>9
<1>14. CASE line.op = "JMP"
  <2>1. f = <<"imm">> /\ Mode(line.op) = 0 /\ ~FullHalt(line) /\ line.op \in TakesNumber
    BY <1>14 DEF Format, Mode, FullHalt, TakesNumber, f
  <2>2. F("rd") = 0 /\ F("rs1") = 0 /\ F("rs2") = 0
    BY <1>3, <2>1
  <2>3. TwoRegisters(line) = <<0, 0>>
    BY <1>14 DEF TwoRegisters
  <2>9. ~HasThird(line)
    BY <1>14, <2>1 DEF HasThird
  <2>4. QED
    BY <1>1, <1>14, <2>1, <2>2, <2>3, <2>9
<1>15. line.op = "HALT" => FullHalt(line) \/ BareHalt(line)
  BY DEF FullHalt, BareHalt
<1>16. QED
  BY <1>7, <1>8, <1>9, <1>10, <1>11, <1>12, <1>13, <1>14, <1>15, Opcodes

LEMMA WordSays ==
  ASSUME NEW line, line.op \in DOMAIN OPCODES, Parses(line.op, line.args), InRange(line),
         line.args \in Seq({line.args[k] : k \in DOMAIN line.args})
  PROVE  Encode(line.op, line.args).op = OPCODES[line.op] /\ Says(line, Encode(line.op, line.args))
<1> DEFINE w == Encode(line.op, line.args)
<1>1. /\ w.op = OPCODES[line.op]
      /\ <<w.rd, w.rs1>> = TwoRegisters(line)
      /\ Mode(line.op) # 0 => w.rs2 = Mode(line.op)
      /\ Mode(line.op) = 0 => w.rs2 = IF HasThird(line) THEN Number(line, 3) ELSE 0
      /\ line.op \notin TakesNumber /\ ~FullHalt(line) => w.imm = 0
  BY FieldsAreMeant
<1> HIDE DEF w
<1>2. w.rd = TwoRegisters(line)[1] /\ w.rs1 = TwoRegisters(line)[2]
  BY <1>1
<1>3. FullHalt(line) => line.op = "HALT"
  BY DEF FullHalt
<1>4. ThirdIsMeant(line, w)
  <2>1. line.op \in Moves => w.rs2 = CASE line.op = "GETTAG" -> 1 [] line.op = "MAKEPRIM" -> 2
                                       [] line.op = "GETVAL" -> 3 [] OTHER -> 0
    BY <1>1, <1>3 DEF Mode, Moves, HasThird
  <2>2. IsSandhi(w) <=> line.op = "SANDHI"
    <3>1. w.op = OP_MOV <=> line.op \in Moves \cup {"SANDHI"}
      BY <1>1, OpcodeOf, Opcodes DEF OP_MOV, OP_CAR, OP_CDR, OP_ATOM, OP_JMP, OP_HALT, Moves
    <3>2. line.op = "SANDHI" => w.rs2 = 7
      BY <1>1 DEF Mode
    <3>3. line.op \in Moves => w.rs2 # 7
      BY <2>1
    <3>4. QED
      BY <3>1, <3>2, <3>3 DEF IsSandhi
  <2>3. line.op \in Moves => \A a : MovValue(w.rs2, a) = Moved(line.op, a)
    <3>1. SUFFICES ASSUME line.op \in Moves, NEW a PROVE MovValue(w.rs2, a) = Moved(line.op, a)
      OBVIOUS
    <3>2. CASE line.op = "MOV"
      BY <2>1, <3>1, <3>2 DEF MovValue, Moved
    <3>3. CASE line.op = "GETTAG"
      BY <2>1, <3>1, <3>3 DEF MovValue, Moved
    <3>4. CASE line.op = "MAKEPRIM"
      BY <2>1, <3>1, <3>4 DEF MovValue, Moved
    <3>5. CASE line.op = "GETVAL"
      BY <2>1, <3>1, <3>5 DEF MovValue, Moved
    <3>6. QED
      BY <3>1, <3>2, <3>3, <3>4, <3>5 DEF Moves
  <2>4. line.op \notin Moves \cup {"SANDHI"} => w.rs2 = IF HasThird(line) THEN Number(line, 3) ELSE 0
    BY <1>1 DEF Mode, Moves
  <2>5. QED
    BY <2>2, <2>3, <2>4 DEF ThirdIsMeant
<1>5. FormIsMeant(line, w)
  <2>1. w.op = OP_JMP <=> line.op \in {"JMP", "CALL", "RET"}
    BY <1>1, OpcodeOf, Opcodes DEF OP_MOV, OP_CAR, OP_CDR, OP_ATOM, OP_JMP, OP_HALT
  <2>2. w.op = OP_ATOM <=> line.op \in {"ATOM", "SETCDR"}
    BY <1>1, OpcodeOf, Opcodes DEF OP_MOV, OP_CAR, OP_CDR, OP_ATOM, OP_JMP, OP_HALT
  <2>3. w.op = OP_CAR <=> line.op = "CAR"
    BY <1>1, OpcodeOf, Opcodes DEF OP_MOV, OP_CAR, OP_CDR, OP_ATOM, OP_JMP, OP_HALT
  <2>4. w.op = OP_HALT <=> line.op = "HALT"
    BY <1>1, OpcodeOf, Opcodes DEF OP_MOV, OP_CAR, OP_CDR, OP_ATOM, OP_JMP, OP_HALT
  <2>5. /\ line.op = "JMP" => w.rd = 0 /\ w.rs1 = 0
        /\ line.op = "CALL" => w.rd = Number(line, 1) /\ w.rs1 = 0
        /\ line.op = "RET" => w.rd = 0 /\ w.rs1 = Number(line, 1)
    BY <1>2 DEF TwoRegisters, BareHalt
  <2>6. (IsCall(w) <=> line.op = "CALL" /\ Number(line, 1) # 0) /\ (IsRet(w) <=> line.op = "RET" /\ Number(line, 1) # 0)
    BY <2>1, <2>5 DEF IsCall, IsRet
  <2>7. IsSetCdr(w) <=> line.op \in {"SETCDR", "ATOM"} /\ Number(line, 3) # 0
    BY <1>1, <2>2 DEF IsSetCdr, HasThird, Mode
  <2>8. IsTrap(w) => FullHalt(line)
    <3>1. line.op = "HALT" /\ ~FullHalt(line) => w.rs2 = 0
      BY <1>1 DEF HasThird, Mode
    <3>2. QED
      BY <2>4, <3>1 DEF IsTrap
  <2>9. ~IsFetchPair(w)
    <3>1. line.op = "CAR" => w.rs2 = 0
      BY <1>1, <1>3 DEF HasThird, Mode
    <3>2. QED
      BY <2>3, <3>1 DEF IsFetchPair
  <2>10. QED
    BY <1>1, <2>6, <2>7, <2>8, <2>9 DEF FormIsMeant
<1>6. QED
  BY <1>1, <1>4, <1>5 DEF Says, w

-----------------------------------------------------------------------------
(* The passes.  Below a line are the lines with an instruction above it in *)
(* the text; a name has the value of the latest line that binds it.        *)
Below(m)        == {j \in Written : j < m}
BoundAt(i)      == IF text[i].is = "define" THEN text[i].value ELSE Address(i)
Latest(i, n, m) == i \in 1 .. m - 1 /\ Binds(i, n) /\ \A j \in 1 .. m - 1 : j > i => ~Binds(j, n)
LabelsTo(m)     == /\ \A o \in DOMAIN labels : \E n, i : o = Name(n) /\ Latest(i, n, m) /\ labels[o] = BoundAt(i)
                   /\ \A i \in 1 .. m - 1 : \A n : Binds(i, n) => Name(n) \in DOMAIN labels

(* The first pass has taken the instructions of the lines below m.         *)
CodeTo(m)       == /\ \E S : code \in Seq(S)
                   /\ Len(code) = Cardinality(Below(m))
                   /\ \A i \in Below(m) : Address(i) + 1 \in 1 .. Len(code) /\ code[Address(i) + 1] = text[i]

(* The numbering has replaced the symbols of the instructions below m.     *)
Interned(line)  == IF Symbolic(line) THEN <<line.args[1], Num(ids[line.args[2]])>> ELSE line.args
InternedAt(i, c) == /\ c.op = text[i].op /\ c.args = Interned(text[i])
                    /\ Symbolic(text[i]) => text[i].args[2] \in DOMAIN ids
InternedTo(m)   == /\ \E S : code \in Seq(S)
                   /\ Len(code) = Cardinality(Written)
                   /\ \A i \in Written :
                         /\ Address(i) + 1 \in 1 .. Len(code)
                         /\ IF Address(i) + 1 < m THEN InternedAt(i, code[Address(i) + 1])
                            ELSE code[Address(i) + 1] = text[i]

(* The second pass has made m words.                                       *)
WordsTo(m)      == /\ \E S : words \in Seq(S)
                   /\ Len(words) = m
                   /\ \A k \in 1 .. m : /\ code[k].op \in DOMAIN OPCODES /\ Parses(code[k].op, code[k].args)
                                        /\ words[k] = Encode(code[k].op, code[k].args)

(* What each pass has done and has left to the next one.                   *)
TextOK     == project \in Projects /\ text \in Seq(LinesOf(project)) /\ at \in Nat /\ at >= 1
ExpandOK   == phase = "expand" => /\ work \in Seq(LinesOf(project)) /\ at = 1
                                  /\ labels = <<>> /\ code = <<>> /\ words = <<>>
Pass1OK    == phase = "pass1" => at <= Len(text) + 1 /\ LabelsTo(at) /\ CodeTo(at) /\ words = <<>>
InternOK   == phase = "intern" => at <= Len(code) + 1 /\ LabelsTo(Len(text) + 1) /\ InternedTo(at) /\ words = <<>>
Pass2OK    == phase = "pass2" => /\ LabelsTo(Len(text) + 1) /\ InternedTo(Len(code) + 1)
                                 /\ at <= Len(code) + 1 /\ WordsTo(at - 1)
DoneOK     == phase \in {"write", "done"} => /\ LabelsTo(Len(text) + 1) /\ InternedTo(Len(code) + 1)
                                             /\ WordsTo(Len(code))
PhaseOK    == phase \in {"expand", "pass1", "intern", "pass2", "write", "done", "failed"}
PassInv    == TextOK /\ PhaseOK /\ ExpandOK /\ Pass1OK /\ InternOK /\ Pass2OK /\ DoneOK

-----------------------------------------------------------------------------
LEMMA TextLines ==
  ASSUME TextOK
  PROVE  /\ Len(text) \in Nat /\ DOMAIN text = 1 .. Len(text)
         /\ \A i \in DOMAIN text : text[i] \in LinesOf(project) /\ IsLine(text[i])
<1>1. text \in Seq(LinesOf(project))
  BY DEF TextOK
<1>2. \A line \in LinesOf(project) : IsLine(line)
  BY ProjectsAssumption DEF TextOK
<1>3. QED
  BY <1>1, <1>2

LEMMA Counting ==
  ASSUME TextOK
  PROVE  /\ \A m : IsFiniteSet(Below(m)) /\ Cardinality(Below(m)) \in Nat
         /\ Below(1) = {} /\ Cardinality(Below(1)) = 0 /\ Below(Len(text) + 1) = Written
         /\ \A m \in 1 .. Len(text) :
               /\ m \in Written => /\ Below(m + 1) = Below(m) \cup {m}
                                   /\ Cardinality(Below(m + 1)) = Cardinality(Below(m)) + 1
               /\ m \notin Written => Below(m + 1) = Below(m)
<1>1. Len(text) \in Nat /\ DOMAIN text = 1 .. Len(text) /\ Written \subseteq 1 .. Len(text)
  BY TextLines DEF Written
<1>2. IsFiniteSet(1 .. Len(text))
  BY <1>1, FS_Interval
<1>3. ASSUME NEW m PROVE IsFiniteSet(Below(m)) /\ Cardinality(Below(m)) \in Nat
  <2>1. Below(m) \in SUBSET (1 .. Len(text))
    BY <1>1 DEF Below
  <2>2. IsFiniteSet(Below(m))
    BY <1>2, <2>1, FS_Subset
  <2>3. QED
    BY <2>2, FS_CardinalityType
<1>8. \A j \in Written : j \in Nat /\ 1 <= j /\ j <= Len(text)
  <2>1. \A j \in 1 .. Len(text) : j \in Nat /\ 1 <= j /\ j <= Len(text)
    BY <1>1
  <2>2. QED
    BY <1>1, <2>1
<1>4. Below(1) = {} /\ Below(Len(text) + 1) = Written
  <2>1. \A j : j \notin Below(1)
    BY <1>8 DEF Below
  <2>2. \A j \in Written : j < Len(text) + 1
    BY <1>8, <1>1
  <2>3. QED
    BY <2>1, <2>2 DEF Below
<1>5. Cardinality(Below(1)) = 0
  BY <1>4, FS_EmptySet
<1>6. ASSUME NEW m \in 1 .. Len(text)
      PROVE  /\ m \in Written => /\ Below(m + 1) = Below(m) \cup {m}
                                 /\ Cardinality(Below(m + 1)) = Cardinality(Below(m)) + 1
             /\ m \notin Written => Below(m + 1) = Below(m)
  <2>1. CASE m \in Written
    <3>1. \A j : j \in Below(m + 1) <=> j \in Below(m) \cup {m}
      <4>1. \A j \in Written : j < m + 1 <=> j < m \/ j = m
        BY <1>8
      <4>2. QED
        BY <2>1, <4>1 DEF Below
    <3>2. Below(m + 1) = Below(m) \cup {m} /\ m \notin Below(m)
      BY <3>1 DEF Below
    <3>3. QED
      BY <1>3, <2>1, <3>2, FS_AddElement
  <2>2. CASE m \notin Written
    <3>1. \A j : j \in Below(m + 1) <=> j \in Below(m)
      <4>1. \A j \in Written : j < m + 1 <=> j < m
        BY <1>8, <2>2
      <4>2. QED
        BY <4>1 DEF Below
    <3>2. QED
      BY <2>2, <3>1
  <2>3. QED
    BY <2>1, <2>2
<1>7. QED
  BY <1>3, <1>4, <1>5, <1>6

LEMMA AddressIs == \A i : Address(i) = Cardinality(Below(i))
BY DEF Address, Below

(* A step of a pass leaves the lines as they are.                          *)
LEMMA SameText ==
  ASSUME text' = text
  PROVE  /\ Written' = Written /\ \A m : Below(m)' = Below(m)
         /\ \A i : Address(i)' = Address(i) /\ BoundAt(i)' = BoundAt(i)
         /\ \A i, n : Binds(i, n)' <=> Binds(i, n)
BY DEF Written, Below, Address, BoundAt, Binds

LEMMA NameIs == \A n, k : Name(n).v = n /\ (Name(n) = Name(k) => n = k)
<1>1. \A n : Name(n).v = n
  BY DEF Name
<1>2. QED
  BY <1>1

(* The line the first pass has come to gives a name its value, or none.    *)
LEMMA LatestNext ==
  ASSUME TextOK, NEW m \in 1 .. Len(text), text' = text, NEW n
  PROVE  /\ Binds(m, n) => Latest(m, n, m + 1)'
         /\ \A i : Latest(i, n, m) /\ ~Binds(m, n) => Latest(i, n, m + 1)'
<1>1. m \in Nat /\ m >= 1 /\ m + 1 - 1 = m /\ \A j \in 1 .. m : j \in Nat /\ ~(j > m) /\ (j # m => j \in 1 .. m - 1)
  BY TextLines
<1>2. \A i : Binds(i, n)' <=> Binds(i, n)
  BY SameText
<1>3. ASSUME Binds(m, n) PROVE Latest(m, n, m + 1)'
  BY <1>1, <1>2, <1>3 DEF Latest
<1>4. ASSUME NEW i, Latest(i, n, m), ~Binds(m, n) PROVE Latest(i, n, m + 1)'
  <2>1. i \in 1 .. m - 1 /\ Binds(i, n) /\ \A j \in 1 .. m - 1 : j > i => ~Binds(j, n)
    BY <1>4 DEF Latest
  <2>2. i \in 1 .. m
    BY <1>1, <2>1
  <2>3. \A j \in 1 .. m : j > i => ~Binds(j, n)
    BY <1>1, <1>4, <2>1
  <2>4. QED
    BY <1>1, <1>2, <2>1, <2>2, <2>3 DEF Latest
<1>5. QED
  BY <1>3, <1>4

LEMMA NoBinding ==
  ASSUME TextOK, NEW m \in 1 .. Len(text), text' = text, labels' = labels, LabelsTo(m), \A n : ~Binds(m, n)
  PROVE  LabelsTo(m + 1)'
<1>1. \A o \in DOMAIN labels : \E n, i : o = Name(n) /\ Latest(i, n, m + 1)' /\ labels[o] = BoundAt(i)
  BY LatestNext DEF LabelsTo
<1>2. \A i : BoundAt(i)' = BoundAt(i)
  BY SameText
<1>3. \A o \in DOMAIN labels : \E n, i : o = Name(n) /\ Latest(i, n, m + 1)' /\ labels[o] = BoundAt(i)'
  BY <1>1, <1>2
<1>4. \A j \in 1 .. m + 1 - 1 : j = m \/ j \in 1 .. m - 1
  BY TextLines
<1>5. \A i \in 1 .. m + 1 - 1 : \A n : Binds(i, n) => Name(n) \in DOMAIN labels
  BY <1>4 DEF LabelsTo
<1>6. \A i, n : Binds(i, n)' <=> Binds(i, n)
  BY SameText
<1>7. \A i \in 1 .. m + 1 - 1 : \A n : Binds(i, n)' => Name(n) \in DOMAIN labels
  BY <1>5, <1>6
<1>8. QED
  BY <1>3, <1>7 DEF LabelsTo

LEMMA NewBinding ==
  ASSUME TextOK, NEW m \in 1 .. Len(text), text' = text, LabelsTo(m), NEW n,
         \A k : Binds(m, k) <=> k = n, labels' = Bind(n, BoundAt(m))
  PROVE  LabelsTo(m + 1)'
<1>1. /\ DOMAIN labels' = DOMAIN labels \cup {Name(n)}
      /\ labels'[Name(n)] = BoundAt(m)
      /\ \A o \in DOMAIN labels : o # Name(n) => labels'[o] = labels[o]
  BY DEF Bind
<1>2. \A i : BoundAt(i)' = BoundAt(i)
  BY SameText
<1>3. ASSUME NEW o \in DOMAIN labels'
      PROVE  \E k, i : o = Name(k) /\ Latest(i, k, m + 1)' /\ labels'[o] = BoundAt(i)'
  <2>1. CASE o = Name(n)
    BY <1>1, <1>2, <2>1, LatestNext
  <2>2. CASE o # Name(n)
    <3>1. PICK k, i : o = Name(k) /\ Latest(i, k, m) /\ labels[o] = BoundAt(i)
      BY <1>1, <1>3, <2>2 DEF LabelsTo
    <3>2. ~Binds(m, k)
      BY <2>2, <3>1
    <3>3. Latest(i, k, m + 1)'
      BY <3>1, <3>2, LatestNext
    <3>4. QED
      BY <1>1, <1>2, <1>3, <2>2, <3>1, <3>3
  <2>3. QED
    BY <2>1, <2>2
<1>4. \A j \in 1 .. m + 1 - 1 : j = m \/ j \in 1 .. m - 1
  BY TextLines
<1>5. \A i \in 1 .. m + 1 - 1 : \A k : Binds(i, k) => Name(k) \in DOMAIN labels'
  BY <1>1, <1>4 DEF LabelsTo
<1>6. \A i, k : Binds(i, k)' <=> Binds(i, k)
  BY SameText
<1>7. \A i \in 1 .. m + 1 - 1 : \A k : Binds(i, k)' => Name(k) \in DOMAIN labels'
  BY <1>5, <1>6
<1>8. QED
  BY <1>3, <1>7 DEF LabelsTo

LEMMA AppendAny ==
  ASSUME NEW S, NEW s \in Seq(S), NEW x
  PROVE  /\ Append(s, x) \in Seq(S \cup {x}) /\ Len(Append(s, x)) = Len(s) + 1 /\ Len(s) \in Nat
         /\ \A i \in 1 .. Len(s) : Append(s, x)[i] = s[i]
         /\ Append(s, x)[Len(s) + 1] = x
<1>1. s \in Seq(S \cup {x})
  <2>1. Len(s) \in Nat /\ s \in [1 .. Len(s) -> S]
    BY ElementOfSeq, LenProperties
  <2>2. s \in [1 .. Len(s) -> S \cup {x}]
    BY <2>1
  <2>3. QED
    BY <2>1, <2>2, SeqDef
<1>2. QED
  BY <1>1

LEMMA CodeStep ==
  ASSUME TextOK, NEW m \in 1 .. Len(text), text' = text, CodeTo(m),
         code' = IF m \in Written THEN Append(code, text[m]) ELSE code
  PROVE  CodeTo(m + 1)'
<1>1. PICK S : code \in Seq(S)
  BY DEF CodeTo
<1>2. Written' = Written /\ Below(m + 1)' = Below(m + 1) /\ \A i : Address(i)' = Address(i)
  BY SameText
<1>3. CASE m \in Written
  <2>1. Below(m + 1) = Below(m) \cup {m} /\ Cardinality(Below(m + 1)) = Cardinality(Below(m)) + 1
    BY <1>3, Counting
  <2>2. /\ code' \in Seq(S \cup {text[m]}) /\ Len(code') = Len(code) + 1 /\ Len(code) \in Nat
        /\ \A i \in 1 .. Len(code) : code'[i] = code[i]
        /\ code'[Len(code) + 1] = text[m]
    BY <1>1, <1>3, AppendAny
  <2>3. Address(m) = Len(code)
    BY AddressIs DEF CodeTo
  <2>4. ASSUME NEW i \in Below(m + 1) PROVE Address(i) + 1 \in 1 .. Len(code') /\ code'[Address(i) + 1] = text[i]
    <3>1. CASE i = m
      BY <2>2, <2>3, <3>1
    <3>2. CASE i \in Below(m)
      BY <2>2, <3>2 DEF CodeTo
    <3>3. QED
      BY <2>1, <2>4, <3>1, <3>2
  <2>5. \E T : code' \in Seq(T)
    BY <2>2
  <2>6. Len(code') = Cardinality(Below(m + 1))
    BY <2>1, <2>2 DEF CodeTo
  <2>7. QED
    BY <1>2, <2>4, <2>5, <2>6 DEF CodeTo
<1>4. CASE m \notin Written
  <2>1. Below(m + 1) = Below(m)
    BY <1>4, Counting
  <2>2. QED
    BY <1>1, <1>2, <1>4, <2>1 DEF CodeTo
<1>5. QED
  BY <1>3, <1>4

LEMMA Pass1Keeps ==
  ASSUME PassInv, Pass1
  PROVE  PassInv'
<1>1. /\ phase = "pass1" /\ at \in 1 .. Len(text) /\ at \in Nat /\ LabelsTo(at) /\ CodeTo(at) /\ words = <<>>
      /\ TextOK /\ Len(text) \in Nat
  BY TextLines DEF PassInv, Pass1, TextOK, Pass1OK
<1>2. UNCHANGED <<phase, project, text, words>> /\ at' = at + 1
  BY DEF Pass1
<1>3. PICK m \in 1 .. Len(text) : m = at
  BY <1>1
<1> DEFINE line == text[m]
<1>4. IsLine(line) /\ m \in DOMAIN text
  BY <1>1, TextLines
<1>5. CodeTo(m + 1)'
  <2>1. m \in Written <=> HasInstruction(line)
    BY <1>4 DEF Written
  <2>2. code' = IF m \in Written THEN Append(code, text[m]) ELSE code
    BY <1>3, <2>1 DEF Pass1
  <2>3. QED
    BY <1>1, <1>2, <1>3, <2>2, CodeStep
<1>6. LabelsTo(m + 1)'
  <2>1. CASE line.is = "define"
    <3>1. labels' = Bind(line.name, BoundAt(m))
      BY <1>3, <2>1 DEF Pass1, BoundAt, HasLabel
    <3>2. \A k : Binds(m, k) <=> k = line.name
      BY <2>1 DEF Binds, HasLabel
    <3>3. QED
      BY <1>1, <1>2, <1>3, <3>1, <3>2, NewBinding
  <2>2. CASE line.is # "define" /\ HasLabel(line)
    <3>1. Len(code) = Address(m)
      BY <1>1, <1>3, AddressIs DEF CodeTo
    <3>2. labels' = Bind(line.label, BoundAt(m))
      BY <1>3, <2>2, <3>1 DEF Pass1, BoundAt
    <3>3. \A k : Binds(m, k) <=> k = line.label
      BY <2>2 DEF Binds
    <3>4. QED
      BY <1>1, <1>2, <1>3, <3>2, <3>3, NewBinding
  <2>3. CASE line.is # "define" /\ ~HasLabel(line)
    <3>1. labels' = labels
      BY <1>3, <2>3 DEF Pass1
    <3>2. \A k : ~Binds(m, k)
      BY <2>3 DEF Binds
    <3>3. QED
      BY <1>1, <1>2, <1>3, <3>1, <3>2, NoBinding
  <2>4. QED
    BY <2>1, <2>2, <2>3
<1>7. LabelsTo(at)' /\ CodeTo(at)'
  <2>1. at' = m + 1
    BY <1>2, <1>3
  <2>2. LabelsTo(at)'
    BY <1>6, <2>1 DEF LabelsTo, Latest
  <2>3. CodeTo(at)'
    BY <1>5, <2>1 DEF CodeTo, Below
  <2>4. QED
    BY <2>2, <2>3
<1>8. Pass1OK'
  BY <1>1, <1>2, <1>7 DEF Pass1OK
<1>9. TextOK' /\ PhaseOK'
  BY <1>1, <1>2 DEF TextOK, PassInv, PhaseOK
<1>10. QED
  BY <1>1, <1>2, <1>8, <1>9 DEF PassInv, ExpandOK, InternOK, Pass2OK, DoneOK

LEMMA SameLabels ==
  ASSUME labels' = labels
  PROVE  /\ \A a : (IsImm(a)' <=> IsImm(a)) /\ parse_imm(a)' = parse_imm(a)
         /\ \A line : Symbolic(line)' <=> Symbolic(line)
         /\ \A op, args : (Parses(op, args)' <=> Parses(op, args)) /\ Encode(op, args)' = Encode(op, args)
<1>1. \A a : (IsImm(a)' <=> IsImm(a)) /\ parse_imm(a)' = parse_imm(a)
  BY DEF IsImm, parse_imm
<1>2. \A line : Symbolic(line)' <=> Symbolic(line)
  BY <1>1 DEF Symbolic
<1>3. \A op, args : Parses(op, args)' <=> Parses(op, args)
  BY <1>1 DEF Parses
<1>4. \A op, args, name : Field(op, args, name)' = Field(op, args, name)
  BY <1>1 DEF Field
<1>5. \A op, args : Encode(op, args)' = Encode(op, args)
  BY <1>4 DEF Encode
<1>6. QED
  BY <1>1, <1>2, <1>3, <1>5

LEMMA BindingsStay ==
  ASSUME text' = text, labels' = labels, LabelsTo(Len(text) + 1)
  PROVE  LabelsTo(Len(text) + 1)'
<1>1. \A i, n : Latest(i, n, Len(text) + 1)' <=> Latest(i, n, Len(text) + 1)
  BY SameText DEF Latest
<1>2. /\ \A o \in DOMAIN labels' : \E n, i : o = Name(n) /\ Latest(i, n, Len(text) + 1)' /\ labels'[o] = BoundAt(i)'
      /\ \A i \in 1 .. Len(text') + 1 - 1 : \A n : Binds(i, n)' => Name(n) \in DOMAIN labels'
  BY <1>1, SameText DEF LabelsTo
<1>3. QED
  BY <1>2 DEF LabelsTo

(* A numbered operand keeps its number.                                    *)
LEMMA StaysInterned ==
  ASSUME text' = text, labels' = labels, \A o \in DOMAIN ids : o \in DOMAIN ids' /\ ids'[o] = ids[o],
         NEW i, NEW c, InternedAt(i, c)
  PROVE  InternedAt(i, c)'
BY SameLabels DEF InternedAt, Interned

LEMMA InternedStep ==
  ASSUME TextOK, NEW m \in 1 .. Len(code), InternedTo(m), text' = text, labels' = labels,
         \A o \in DOMAIN ids : o \in DOMAIN ids' /\ ids'[o] = ids[o],
         \E S : code' \in Seq(S), Len(code') = Len(code),
         \A k \in 1 .. Len(code) : k # m => code'[k] = code[k],
         \A i \in Written : code[m] = text[i] => InternedAt(i, code[m])'
  PROVE  InternedTo(m + 1)'
<1>1. Written' = Written /\ \A i : Address(i)' = Address(i)
  BY SameText
<1>2. Len(code) \in Nat /\ m \in Nat
  BY DEF InternedTo
<1>3. ASSUME NEW i \in Written
      PROVE  /\ Address(i) + 1 \in 1 .. Len(code')
             /\ IF Address(i) + 1 < m + 1 THEN InternedAt(i, code[Address(i) + 1])' ELSE code'[Address(i) + 1] = text[i]
  <2>1. PICK k \in 1 .. Len(code) : k = Address(i) + 1
    BY <1>3 DEF InternedTo
  <2>2. IF k < m THEN InternedAt(i, code[k]) ELSE code[k] = text[i]
    BY <1>3, <2>1 DEF InternedTo
  <2>3. k \in Nat
    BY <1>2
  <2>4. CASE k < m
    <3>1. code'[k] = code[k] /\ InternedAt(i, code[k])
      BY <2>2, <2>3, <2>4, <1>2
    <3>2. PICK c : c = code[k]
      OBVIOUS
    <3>3. InternedAt(i, c)'
      BY <3>1, <3>2, StaysInterned
    <3>4. InternedAt(i, code[k])'
      BY <3>1, <3>2, <3>3 DEF InternedAt
    <3>5. QED
      BY <1>1, <1>2, <2>1, <2>3, <2>4, <3>4 DEF InternedAt
  <2>5. CASE k = m
    <3>1. InternedAt(i, code[m])'
      BY <1>3, <1>2, <2>2, <2>5
    <3>2. QED
      BY <1>1, <1>2, <2>1, <2>5, <3>1 DEF InternedAt
  <2>6. CASE k > m
    BY <1>2, <2>1, <2>2, <2>3, <2>6
  <2>7. QED
    BY <1>2, <2>3, <2>4, <2>5, <2>6
<1>4. Len(code') = Cardinality(Written)
  BY DEF InternedTo
<1>5. ASSUME NEW i \in Written'
      PROVE  /\ Address(i)' + 1 \in 1 .. Len(code')
             /\ IF Address(i)' + 1 < m + 1 THEN InternedAt(i, code[Address(i) + 1])' ELSE code'[Address(i)' + 1] = text'[i]
  BY <1>1, <1>3, <1>5
<1>6. QED
  BY <1>1, <1>4, <1>5 DEF InternedTo

LEMMA InternKeeps ==
  ASSUME PassInv, Intern
  PROVE  PassInv'
<1>1. /\ phase = "intern" /\ TextOK /\ LabelsTo(Len(text) + 1) /\ InternedTo(at) /\ words = <<>>
      /\ at \in 1 .. Len(code) /\ at \in Nat /\ Len(text) \in Nat /\ Len(code) \in Nat
  BY TextLines DEF PassInv, InternOK, InternedTo, TextOK, Intern
<1>2. UNCHANGED <<project, text, labels, words>>
  BY DEF Intern
<1>3. PICK m \in 1 .. Len(code) : m = at
  BY <1>1
<1>4. PICK S : code \in Seq(S)
  BY <1>1 DEF InternedTo
<1>5. CASE phase' = "failed"
  <2>1. at' \in Nat /\ at' >= 1
    BY <1>1 DEF Intern
  <2>2. TextOK' /\ PhaseOK'
    BY <1>1, <1>2, <1>5, <2>1 DEF TextOK, PhaseOK
  <2>3. QED
    BY <1>5, <2>2 DEF PassInv, ExpandOK, Pass1OK, InternOK, Pass2OK, DoneOK
<1>6. CASE phase' # "failed"
  <2>1. at' = m + 1 /\ phase' = phase
    BY <1>3, <1>6 DEF Intern
  <2>2. InternedTo(m + 1)' /\ Len(code') = Len(code)
    <3>1. CASE ~Symbolic(code[m])
      <4>1. UNCHANGED <<code, ids>>
        BY <1>3, <3>1 DEF Intern
      <4>2. ASSUME NEW i \in Written, code[m] = text[i] PROVE InternedAt(i, code[m])'
        BY <1>2, <3>1, <4>1, <4>2, SameLabels DEF InternedAt, Interned
      <4>3. QED
        BY <1>1, <1>2, <1>3, <1>4, <4>1, <4>2, InternedStep
    <3>2. CASE Symbolic(code[m])
      <4> DEFINE line == code[m]
                 o    == line.args[2]
                 d    == [line EXCEPT !.args = <<line.args[1], Num(ids'[o])>>]
      <4>1. /\ ids' = IF o \notin DOMAIN ids THEN Numbered(o) ELSE ids
            /\ code' = [code EXCEPT ![m].args = <<line.args[1], Num(ids'[o])>>]
        BY <1>3, <1>6, <3>2 DEF Intern
      <4>2. o \in DOMAIN ids' /\ \A p \in DOMAIN ids : p \in DOMAIN ids' /\ ids'[p] = ids[p]
        BY <4>1 DEF Numbered
      <4>3. code' = [code EXCEPT ![m] = d]
        BY <4>1
      <4> HIDE DEF d
      <4>4. code \in Seq(S \cup {d})
        BY <1>4, SeqMonotonic
      <4>5. code' \in Seq(S \cup {d}) /\ Len(code') = Len(code)
            /\ \A k \in 1 .. Len(code) : code'[k] = IF k = m THEN d ELSE code[k]
        BY <4>3, <4>4, ExceptSeq
      <4>6. ASSUME NEW i \in Written, code[m] = text[i] PROVE InternedAt(i, code[m])'
        <5>1. IsLine(text[i]) /\ HasInstruction(text[i])
          BY <1>1, TextLines DEF Written
        <5>2. line = [is |-> "code", label |-> line.label, op |-> line.op, args |-> line.args, note |-> line.note]
          BY <4>6, <5>1 DEF IsLine, HasInstruction
        <5>3. d.op = line.op /\ d.args = <<line.args[1], Num(ids'[o])>>
          BY <5>2 DEF d
        <5>4. code'[m] = d /\ Symbolic(text[i])'
          BY <1>2, <3>2, <4>5, <4>6, SameLabels
        <5>5. QED
          BY <1>2, <4>2, <4>6, <5>3, <5>4 DEF InternedAt, Interned
      <4>7. \A k \in 1 .. Len(code) : k # m => code'[k] = code[k]
        BY <4>5
      <4>8. QED
        BY <1>1, <1>2, <1>3, <4>2, <4>5, <4>6, <4>7, InternedStep
    <3>3. QED
      BY <3>1, <3>2
  <2>3. InternedTo(at)'
    BY <2>1, <2>2 DEF InternedTo
  <2>4. LabelsTo(Len(text) + 1)'
    BY <1>1, <1>2, BindingsStay
  <2>5. TextOK' /\ PhaseOK' /\ at' <= Len(code') + 1
    BY <1>1, <1>2, <1>3, <2>1, <2>2 DEF TextOK, PhaseOK
  <2>6. InternOK'
    BY <1>1, <1>2, <2>3, <2>4, <2>5 DEF InternOK
  <2>7. QED
    BY <1>1, <2>1, <2>5, <2>6 DEF PassInv, ExpandOK, Pass1OK, Pass2OK, DoneOK
<1>7. QED
  BY <1>5, <1>6

LEMMA InternedStays ==
  ASSUME InternedTo(Len(code) + 1), UNCHANGED <<text, labels, code, ids>>
  PROVE  InternedTo(Len(code) + 1)'
<1>1. \A i, c : InternedAt(i, c) => InternedAt(i, c)'
  BY SameLabels DEF InternedAt, Interned
<1>2. \A i \in Written : IF Address(i) + 1 < Len(code) + 1 THEN InternedAt(i, code[Address(i) + 1])'
                         ELSE code[Address(i) + 1] = text[i]
  BY <1>1, SameText DEF InternedTo, InternedAt
<1>3. QED
  BY <1>2, SameText DEF InternedTo

LEMMA Pass2Keeps ==
  ASSUME PassInv, Pass2
  PROVE  PassInv'
<1>1. /\ phase = "pass2" /\ TextOK /\ LabelsTo(Len(text) + 1) /\ InternedTo(Len(code) + 1) /\ WordsTo(at - 1)
      /\ at \in 1 .. Len(code) /\ at \in Nat /\ Len(code) \in Nat
  BY DEF PassInv, Pass2OK, InternedTo, TextOK, Pass2
<1>2. UNCHANGED <<project, text, labels, code, ids>>
  BY DEF Pass2, Exit
<1>3. CASE phase' = "failed"
  <2>1. at' = at
    BY <1>1, <1>3 DEF Pass2, Exit
  <2>2. TextOK' /\ PhaseOK'
    BY <1>1, <1>2, <1>3, <2>1 DEF TextOK, PhaseOK
  <2>3. QED
    BY <1>3, <2>2 DEF PassInv, ExpandOK, Pass1OK, InternOK, Pass2OK, DoneOK
<1>4. CASE phase' # "failed"
  <2>1. PICK m \in 1 .. Len(code) : m = at
    BY <1>1
  <2> DEFINE w == Encode(code[m].op, code[m].args)
  <2>2. /\ code[m].op \in DOMAIN OPCODES /\ Parses(code[m].op, code[m].args)
        /\ words' = Append(words, w) /\ at' = m + 1 /\ phase' = phase
    BY <1>4, <2>1 DEF Pass2, Exit
  <2>3. PICK S : words \in Seq(S)
    BY <1>1 DEF WordsTo
  <2> HIDE DEF w
  <2>4. /\ words' \in Seq(S \cup {w}) /\ Len(words') = m
        /\ \A k \in 1 .. m : words'[k] = IF k = m THEN w ELSE words[k]
    BY <1>1, <2>1, <2>2, <2>3, AppendAny DEF WordsTo
  <2>5. \A k \in 1 .. m : /\ code[k].op \in DOMAIN OPCODES /\ Parses(code[k].op, code[k].args)
                          /\ words'[k] = Encode(code[k].op, code[k].args)
    BY <1>1, <2>1, <2>2, <2>4 DEF WordsTo, w
  <2>6. WordsTo(at - 1)'
    <3>1. at' - 1 = m
      BY <1>1, <2>1, <2>2
    <3>2. \A k \in 1 .. m : /\ code'[k].op \in DOMAIN OPCODES' /\ Parses(code[k].op, code[k].args)'
                            /\ words'[k] = Encode(code[k].op, code[k].args)'
      BY <1>2, <2>5, SameLabels DEF OPCODES
    <3>3. QED
      BY <2>4, <3>1, <3>2 DEF WordsTo
  <2>7. LabelsTo(Len(text) + 1)' /\ InternedTo(Len(code) + 1)'
    BY <1>1, <1>2, BindingsStay, InternedStays
  <2>8. TextOK' /\ PhaseOK' /\ at' <= Len(code') + 1
    BY <1>1, <1>2, <2>1, <2>2 DEF TextOK, PhaseOK
  <2>9. Pass2OK'
    BY <2>6, <2>7, <2>8 DEF Pass2OK
  <2>10. QED
    BY <1>1, <2>2, <2>8, <2>9 DEF PassInv, ExpandOK, Pass1OK, InternOK, DoneOK
<1>5. QED
  BY <1>3, <1>4

(* A pass has come to its end, or the program stops.                       *)
LEMMA TurnKeeps ==
  ASSUME PassInv, EndExpand \/ EndPass1 \/ EndIntern \/ EndPass2 \/ Write \/ UNCHANGED vars
  PROVE  PassInv'
<1>1. UNCHANGED <<project, text, labels, code, ids, words>>
  BY DEF EndExpand, EndPass1, EndIntern, EndPass2, Write, vars
<1>2. TextOK /\ Len(text) \in Nat
  BY TextLines DEF PassInv
<1>3. TextOK' /\ PhaseOK'
  BY <1>1 DEF PassInv, TextOK, PhaseOK, EndExpand, EndPass1, EndIntern, EndPass2, Write, vars
<1>4. LabelsTo(Len(text) + 1) => LabelsTo(Len(text) + 1)'
  BY <1>1, BindingsStay
<1>5. InternedTo(Len(code) + 1) => InternedTo(Len(code) + 1)'
  BY <1>1, InternedStays
<1>6. \A m : WordsTo(m) => WordsTo(m)'
  BY <1>1, SameLabels DEF WordsTo, OPCODES
<1>7. CASE EndExpand
  <2>1. /\ phase' = "pass1" /\ at = 1 /\ at' = 1 /\ labels = <<>> /\ code = <<>> /\ words = <<>>
    BY <1>7 DEF EndExpand, PassInv, ExpandOK
  <2>2. LabelsTo(1)' /\ CodeTo(1)'
    <3>1. DOMAIN labels = {} /\ 1 .. 1 - 1 = {} /\ Below(1) = {} /\ Cardinality(Below(1)) = 0
      BY <1>2, <2>1, Counting
    <3>2. code \in Seq({}) /\ Len(code) = 0
      BY <2>1
    <3>3. LabelsTo(1) /\ CodeTo(1)
      BY <3>1, <3>2 DEF LabelsTo, CodeTo
    <3>4. LabelsTo(1)'
      BY <1>1, <3>1 DEF LabelsTo
    <3>5. CodeTo(1)'
      BY <1>1, <3>1, <3>2, SameText DEF CodeTo
    <3>6. QED
      BY <3>4, <3>5
  <2>3. LabelsTo(at)' /\ CodeTo(at)'
    BY <2>1, <2>2 DEF LabelsTo, Latest, CodeTo, Below
  <2>4. Pass1OK'
    BY <1>1, <1>2, <2>1, <2>3 DEF Pass1OK
  <2>5. QED
    BY <1>3, <2>1, <2>4 DEF PassInv, ExpandOK, InternOK, Pass2OK, DoneOK
<1>8. CASE EndPass1
  <2>1. phase' = "intern" /\ at' = 1 /\ LabelsTo(at) /\ CodeTo(at) /\ at = Len(text) + 1 /\ words = <<>>
    BY <1>2, <1>8 DEF EndPass1, PassInv, Pass1OK, TextOK
  <2>2. LabelsTo(Len(text) + 1) /\ CodeTo(Len(text) + 1)
    BY <2>1
  <2>3. Below(Len(text) + 1) = Written
    BY <1>2, Counting
  <2>4. (\E S : code \in Seq(S)) /\ Len(code) = Cardinality(Written) /\ Len(code) \in Nat
    BY <2>2, <2>3 DEF CodeTo
  <2>5. \A i \in Written : /\ Address(i) + 1 \in 1 .. Len(code) /\ code[Address(i) + 1] = text[i]
                           /\ ~(Address(i) + 1 < 1)
    <3>1. \A k \in 1 .. Len(code) : ~(k < 1)
      BY <2>4
    <3>2. QED
      BY <2>2, <2>3, <3>1 DEF CodeTo
  <2>6. InternedTo(at)'
    BY <1>1, <2>1, <2>4, <2>5, SameText DEF InternedTo
  <2>7. InternOK'
    BY <1>1, <1>4, <2>1, <2>2, <2>4, <2>6 DEF InternOK
  <2>8. QED
    BY <1>3, <2>1, <2>7 DEF PassInv, ExpandOK, Pass1OK, Pass2OK, DoneOK
<1>9. CASE EndIntern
  <2>1. /\ phase' = "pass2" /\ at' = 1 /\ LabelsTo(Len(text) + 1) /\ InternedTo(at) /\ at = Len(code) + 1
        /\ words = <<>>
    BY <1>9 DEF EndIntern, PassInv, InternOK, TextOK, InternedTo
  <2>2. InternedTo(Len(code) + 1)'
    BY <1>5, <2>1
  <2>3. WordsTo(0)
    <3>1. words \in Seq({}) /\ Len(words) = 0 /\ 1 .. 0 = {}
      BY <2>1
    <3>2. QED
      BY <3>1 DEF WordsTo
  <2>4. at' - 1 = 0
    BY <2>1
  <2>5. WordsTo(at - 1)'
    BY <1>6, <2>3, <2>4 DEF WordsTo
  <2>6. at' <= Len(code') + 1
    BY <1>1, <2>1 DEF InternedTo
  <2>7. QED
    BY <1>3, <1>4, <2>1, <2>2, <2>5, <2>6 DEF PassInv, ExpandOK, Pass1OK, InternOK, Pass2OK, DoneOK
<1>10. CASE EndPass2
  <2>1. /\ phase' = "write" /\ LabelsTo(Len(text) + 1) /\ InternedTo(Len(code) + 1) /\ WordsTo(at - 1)
        /\ at = Len(code) + 1 /\ Len(code) \in Nat
    BY <1>10 DEF EndPass2, PassInv, Pass2OK, TextOK, InternedTo
  <2>2. at - 1 = Len(code)
    BY <2>1
  <2>3. WordsTo(Len(code))
    BY <2>1, <2>2
  <2>4. WordsTo(Len(code))'
    BY <1>1, <1>6, <2>3 DEF WordsTo
  <2>5. QED
    BY <1>3, <1>4, <1>5, <2>1, <2>4 DEF PassInv, ExpandOK, Pass1OK, InternOK, Pass2OK, DoneOK
<1>11. CASE Write
  <2>1. /\ phase' = "done" /\ LabelsTo(Len(text) + 1) /\ InternedTo(Len(code) + 1) /\ WordsTo(Len(code))
    BY <1>11 DEF Write, PassInv, DoneOK
  <2>2. WordsTo(Len(code))'
    BY <1>1, <1>6, <2>1 DEF WordsTo
  <2>3. QED
    BY <1>3, <1>4, <1>5, <2>1, <2>2 DEF PassInv, ExpandOK, Pass1OK, InternOK, Pass2OK, DoneOK
<1>12. CASE UNCHANGED vars
  <2>1. phase' = phase /\ at' = at /\ work' = work
    BY <1>12 DEF vars
  <2>2. LabelsTo(at) => LabelsTo(at)'
    BY <1>1, <2>1, SameText DEF LabelsTo, Latest
  <2>3. CodeTo(at) => CodeTo(at)'
    BY <1>1, <2>1, SameText DEF CodeTo, Below
  <2>4. InternedTo(at) => InternedTo(at)'
    BY <1>1, <2>1, SameText, SameLabels DEF InternedTo, InternedAt, Interned
  <2>5. WordsTo(at - 1) => WordsTo(at - 1)'
    BY <1>1, <1>6, <2>1 DEF WordsTo
  <2>6. WordsTo(Len(code)) => WordsTo(Len(code))'
    BY <1>1, <1>6 DEF WordsTo
  <2>7. ExpandOK' /\ Pass1OK' /\ InternOK'
    BY <1>1, <1>4, <2>1, <2>2, <2>3, <2>4 DEF PassInv, ExpandOK, Pass1OK, InternOK
  <2>8. Pass2OK' /\ DoneOK'
    BY <1>1, <1>4, <1>5, <2>1, <2>5, <2>6 DEF PassInv, Pass2OK, DoneOK
  <2>9. QED
    BY <1>3, <2>7, <2>8 DEF PassInv
<1>13. QED
  BY <1>7, <1>8, <1>9, <1>10, <1>11, <1>12

LEMMA ExpandKeeps ==
  ASSUME PassInv, ReadInclude \/ ReadLine
  PROVE  PassInv'
<1>1. /\ phase = "expand" /\ work # <<>> /\ TextOK /\ work \in Seq(LinesOf(project)) /\ at = 1
      /\ labels = <<>> /\ code = <<>> /\ words = <<>>
  BY DEF ReadInclude, ReadLine, PassInv, ExpandOK
<1>2. UNCHANGED <<project, at, labels, code, words>>
  BY DEF ReadInclude, ReadLine, Exit
<1>3. Head(work) \in LinesOf(project) /\ Tail(work) \in Seq(LinesOf(project))
  BY <1>1
<1>4. /\ text' \in Seq(LinesOf(project))
      /\ phase' = "failed" \/ (phase' = "expand" /\ work' \in Seq(LinesOf(project)))
  <2>1. CASE ReadLine
    BY <1>1, <1>3, <2>1 DEF ReadLine, TextOK
  <2>2. CASE ReadInclude
    <3>1. CASE Exit
      BY <1>1, <3>1 DEF Exit, TextOK
    <3>2. CASE ~Exit
      <4>1. /\ work' = project.files[Head(work).file] \o Tail(work) /\ Head(work).file \in DOMAIN project.files
            /\ phase' = phase /\ text' = text
        BY <2>2, <3>2 DEF ReadInclude
      <4>2. project.files[Head(work).file] \in Seq(LinesOf(project))
        BY <1>1, <4>1, ProjectsAssumption DEF TextOK
      <4>3. work' \in Seq(LinesOf(project))
        BY <1>3, <4>1, <4>2
      <4>4. QED
        BY <1>1, <4>1, <4>3 DEF TextOK
    <3>3. QED
      BY <3>1, <3>2
  <2>3. QED
    BY <2>1, <2>2
<1>5. TextOK' /\ PhaseOK'
  BY <1>1, <1>2, <1>4 DEF TextOK, PhaseOK
<1>6. QED
  BY <1>1, <1>2, <1>4, <1>5 DEF PassInv, ExpandOK, Pass1OK, InternOK, Pass2OK, DoneOK

LEMMA InitPassInv == Init => PassInv
<1>1. SUFFICES ASSUME Init PROVE PassInv
  OBVIOUS
<1>2. project \in Projects /\ phase = "expand" /\ work = project.main /\ text = <<>> /\ at = 1
      /\ labels = <<>> /\ code = <<>> /\ words = <<>>
  BY <1>1 DEF Init
<1>3. text \in Seq(LinesOf(project)) /\ work \in Seq(LinesOf(project))
  BY <1>2, ProjectsAssumption
<1>4. QED
  BY <1>2, <1>3 DEF PassInv, TextOK, PhaseOK, ExpandOK, Pass1OK, InternOK, Pass2OK, DoneOK

LEMMA NextPassInv == PassInv /\ [Next]_vars => PassInv'
BY ExpandKeeps, Pass1Keeps, InternKeeps, Pass2Keeps, TurnKeeps DEF Next

-----------------------------------------------------------------------------
(* The labels are what the names stand for in the whole text.              *)
LEMMA LabelsMean ==
  ASSUME TextOK, LabelsTo(Len(text) + 1), NEW n
  PROVE  /\ Bindings(n) # {} <=> Name(n) \in DOMAIN labels
         /\ Name(n) \in DOMAIN labels => labels[Name(n)] = Meaning(n)
<1>1. Len(text) \in Nat /\ DOMAIN text = 1 .. Len(text) /\ 1 .. Len(text) + 1 - 1 = 1 .. Len(text)
  BY TextLines
<1>2. Bindings(n) # {} => Name(n) \in DOMAIN labels
  BY <1>1 DEF LabelsTo, Bindings
<1>3. ASSUME Name(n) \in DOMAIN labels
      PROVE  Bindings(n) # {} /\ labels[Name(n)] = Meaning(n)
  <2>1. PICK i : Latest(i, n, Len(text) + 1) /\ labels[Name(n)] = BoundAt(i)
    BY <1>3, NameIs DEF LabelsTo
  <2>2. i \in 1 .. Len(text) /\ Binds(i, n) /\ \A j \in 1 .. Len(text) : j > i => ~Binds(j, n)
    BY <1>1, <2>1 DEF Latest
  <2>3. i \in Bindings(n) /\ \A j \in Bindings(n) : j \in Int /\ i >= j
    BY <1>1, <2>2 DEF Bindings
  <2>4. \A x \in Bindings(n) : (\A y \in Bindings(n) : x >= y) => x = i
    BY <1>1, <2>2, <2>3
  <2>5. Max(Bindings(n)) = i
    BY <2>3, <2>4 DEF Max
  <2>6. QED
    BY <2>1, <2>3, <2>5 DEF Meaning, BoundAt
<1>4. QED
  BY <1>2, <1>3

LEMMA OperandKinds ==
  ASSUME TextOK, LabelsTo(Len(text) + 1), NEW a, IsOperand(a)
  PROVE  /\ a \in DOMAIN labels => a = Name(a.v) /\ a.kind = "name"
         /\ a.kind = "name" => a = Name(a.v)
<1>1. a \in DOMAIN labels => \E n : a = Name(n)
  BY DEF LabelsTo
<1>2. \A n : Name(n).kind = "name" /\ Name(n).v = n
  BY DEF Name
<1>3. R(a.v).kind = "reg" /\ Num(a.v).kind = "num"
  BY DEF R, Num
<1>4. QED
  BY <1>1, <1>2, <1>3 DEF IsOperand

(* An operand without a value is one that parse_imm would not take.        *)
LEMMA ValuesMean ==
  ASSUME TextOK, LabelsTo(Len(text) + 1), NEW a, IsOperand(a)
  PROVE  /\ Unbound(a) <=> ~IsImm(a)
         /\ IsImm(a) => parse_imm(a) = ValueOf(a)
<1>1. a.kind = "name" => a = Name(a.v) /\ (Bindings(a.v) # {} <=> a \in DOMAIN labels)
                         /\ (a \in DOMAIN labels => labels[a] = Meaning(a.v))
  BY OperandKinds, LabelsMean
<1>2. a.kind # "name" => a \notin DOMAIN labels
  BY OperandKinds
<1>3. QED
  BY <1>1, <1>2 DEF Unbound, IsImm, parse_imm, ValueOf

(* What the program ends with: one word for each instruction, made of its  *)
(* operands.                                                               *)
LEMMA DoneWord ==
  ASSUME PassInv, phase = "done", NEW i \in Written
  PROVE  /\ TextOK /\ LabelsTo(Len(text) + 1) /\ IsLine(text[i]) /\ HasInstruction(text[i])
         /\ text[i].op \in DOMAIN OPCODES /\ Parses(text[i].op, Interned(text[i]))
         /\ WordOfLine(i) = Encode(text[i].op, Interned(text[i]))
         /\ Symbolic(text[i]) => text[i].args[2] \in DOMAIN ids
<1>1. TextOK /\ LabelsTo(Len(text) + 1) /\ InternedTo(Len(code) + 1) /\ WordsTo(Len(code))
  BY DEF PassInv, DoneOK
<1>2. IsLine(text[i]) /\ HasInstruction(text[i])
  BY <1>1, TextLines DEF Written
<1>3. PICK k \in 1 .. Len(code) : k = Address(i) + 1
  BY <1>1 DEF InternedTo
<1>4. k < Len(code) + 1
  BY <1>1, <1>3 DEF InternedTo
<1>5. InternedAt(i, code[k])
  BY <1>1, <1>3, <1>4 DEF InternedTo
<1>6. /\ code[k].op \in DOMAIN OPCODES /\ Parses(code[k].op, code[k].args)
      /\ words[k] = Encode(code[k].op, code[k].args)
  BY <1>1, <1>3 DEF WordsTo
<1>7. QED
  BY <1>1, <1>2, <1>3, <1>5, <1>6 DEF InternedAt, WordOfLine

LEMMA SymbolicFormat ==
  ASSUME NEW line, Symbolic(line), NEW n
  PROVE  Format(line.op, n) = <<"rd", "imm">> /\ line.op = "LOADSYM"
BY DEF Symbolic, Format

LEMMA NumberIsImm ==
  ASSUME LabelsTo(Len(text) + 1), NEW n
  PROVE  IsImm(Num(n)) /\ parse_imm(Num(n)) = n
<1>1. Num(n).kind = "num" /\ Num(n).v = n
  BY DEF Num
<1>2. \A k : Name(k).kind = "name"
  BY DEF Name
<1>3. Num(n) \notin DOMAIN labels
  BY <1>1, <1>2 DEF LabelsTo
<1>4. QED
  BY <1>1, <1>3 DEF IsImm, parse_imm

(* Every branch and every immediate has the value its name stands for in   *)
(* the whole text, in programs of any number of lines, files and names     *)
(* (assembler.py:76-147, 219-235).                                         *)
THEOREM NamesAreResolved == Spec => []NamesResolve
<1>1. PassInv => NamesResolve
  <2>1. SUFFICES ASSUME PassInv, phase = "done"
                 PROVE  /\ Len(words) = Cardinality(Written)
                        /\ \A i \in Written : \A o \in ImmOperands(text[i]) :
                              WordOfLine(i).imm = (IF Unbound(o) THEN ids[o] ELSE ValueOf(o)) % 65536
    BY DEF NamesResolve
  <2>2. Len(words) = Cardinality(Written)
    BY <2>1 DEF PassInv, DoneOK, InternedTo, WordsTo
  <2>3. ASSUME NEW i \in Written, NEW o \in ImmOperands(text[i])
        PROVE  WordOfLine(i).imm = (IF Unbound(o) THEN ids[o] ELSE ValueOf(o)) % 65536
    <3> DEFINE line == text[i]
    <3>1. /\ TextOK /\ LabelsTo(Len(text) + 1) /\ IsLine(line) /\ HasInstruction(line)
          /\ line.op \in DOMAIN OPCODES /\ Parses(line.op, Interned(line))
          /\ WordOfLine(i) = Encode(line.op, Interned(line))
          /\ Symbolic(line) => line.args[2] \in DOMAIN ids
      BY <2>1, DoneWord
    <3>2. PICK k \in DOMAIN line.args : /\ k \in DOMAIN Format(line.op, Len(line.args))
                                        /\ Format(line.op, Len(line.args))[k] = "imm" /\ o = line.args[k]
      BY DEF ImmOperands
    <3>3. IsOperand(o)
      BY <3>1, <3>2 DEF IsLine, HasInstruction
    <3>4. CASE Symbolic(line)
      <4>1. /\ Format(line.op, Len(line.args)) = <<"rd", "imm">>
            /\ Format(line.op, Len(Interned(line))) = <<"rd", "imm">>
        BY <3>4, SymbolicFormat
      <4>2. k = 2
        BY <3>2, <4>1
      <4>3. Interned(line) = <<line.args[1], Num(ids[o])>>
        BY <3>2, <3>4, <4>2 DEF Interned
      <4>4. Interned(line)[2] = Num(ids[o])
        BY <4>3
      <4>5. Encode(line.op, Interned(line)).imm = parse_imm(Num(ids[o])) % 65536
        <5>1. 2 \in DOMAIN Format(line.op, Len(Interned(line))) /\ Format(line.op, Len(Interned(line)))[2] = "imm"
          BY <4>1
        <5>2. QED
          BY <3>1, <4>4, <5>1, ImmOfWord
      <4>6. parse_imm(Num(ids[o])) = ids[o]
        BY <3>1, NumberIsImm
      <4>7. Unbound(o)
        BY <3>1, <3>2, <3>3, <3>4, <4>2, ValuesMean DEF Symbolic
      <4>8. QED
        BY <3>1, <4>5, <4>6, <4>7
    <3>5. CASE ~Symbolic(line)
      <4>1. Interned(line) = line.args
        BY <3>5 DEF Interned
      <4>2. IsImm(o) /\ Encode(line.op, line.args).imm = parse_imm(o) % 65536
        BY <3>1, <3>2, <4>1, ImmOfWord
      <4>3. ~Unbound(o) /\ parse_imm(o) = ValueOf(o)
        BY <3>1, <3>3, <4>2, ValuesMean
      <4>4. QED
        BY <3>1, <4>1, <4>2, <4>3
    <3>6. QED
      BY <3>4, <3>5
  <2>4. QED
    BY <2>2, <2>3
<1>2. QED
  BY <1>1, InitPassInv, NextPassInv, PTL DEF Spec

(* The word of every line has each register of the line in its field, 0 in *)
(* the fields that the line does not give, and the form and the mode that  *)
(* the mnemonic names, in programs of any length, for the lines whose      *)
(* registers are 0 to 15 (assembler.py:7-31, 165-235,                      *)
(* docs/isa-contract.md:11, control.sv's modes of one opcode).             *)
THEOREM MnemonicsAreMeant == Spec => []MnemonicIsMeant
<1>1. PassInv => MnemonicIsMeant
  <2>1. SUFFICES ASSUME PassInv, phase = "done", NEW i \in Written, InRange(text[i])
                 PROVE  WordOfLine(i).op = OPCODES[text[i].op] /\ Says(text[i], WordOfLine(i))
    BY DEF MnemonicIsMeant
  <2> DEFINE line == text[i]
  <2>2. /\ TextOK /\ IsLine(line) /\ HasInstruction(line)
        /\ line.op \in DOMAIN OPCODES /\ Parses(line.op, Interned(line))
        /\ WordOfLine(i) = Encode(line.op, Interned(line))
    BY <2>1, DoneWord
  <2>3. line.args \in Seq({line.args[k] : k \in DOMAIN line.args})
    BY <2>2 DEF IsLine, HasInstruction
  <2>4. CASE ~Symbolic(line)
    <3>1. Interned(line) = line.args
      BY <2>4 DEF Interned
    <3>2. QED
      BY <2>1, <2>2, <2>3, <3>1, WordSays
  <2>5. CASE Symbolic(line)
    <3> DEFINE a == <<line.args[1], Num(ids[line.args[2]])>>
               c == [op |-> line.op, args |-> a]
    <3>1. Interned(line) = a /\ line.op = "LOADSYM" /\ Len(line.args) >= 2
      BY <2>5 DEF Interned, Symbolic
    <3>2. 1 \in DOMAIN line.args
      BY <2>3, <3>1
    <3>3. a[1] = line.args[1] /\ a[2] = Num(ids[line.args[2]]) /\ DOMAIN a = {1, 2}
      OBVIOUS
    <3>4. a \in Seq({a[k] : k \in DOMAIN a})
      <4>1. a \in Seq({a[1], a[2]})
        OBVIOUS
      <4>2. {a[1], a[2]} = {a[k] : k \in DOMAIN a}
        BY <3>3
      <4>3. QED
        BY <4>1, <4>2
    <3> HIDE DEF a
    <3>6. \A k \in DOMAIN a : a[k].kind = "reg" => a[k].v \in Reg
      <4>1. a[2].kind = "num"
        BY <3>3 DEF Num
      <4>2. line.args[1].kind = "reg" => line.args[1].v \in Reg
        BY <2>1, <3>2 DEF InRange
      <4>3. QED
        BY <3>3, <4>1, <4>2
    <3>7. c.op = line.op /\ c.args = a
      OBVIOUS
    <3> HIDE DEF c
    <3>8. InRange(c)
      BY <3>6, <3>7 DEF InRange
    <3>9. Encode(c.op, c.args).op = OPCODES[c.op] /\ Says(c, Encode(c.op, c.args))
      BY <2>2, <3>1, <3>4, <3>7, <3>8, WordSays
    <3>5. Number(c, 1) = Number(line, 1)
      <4>1. Len(a) = 2 /\ Len(line.args) \in Nat
        BY <2>3, <3>3, <3>4
      <4>2. QED
        BY <3>1, <3>3, <3>7, <4>1 DEF Number
    <3> DEFINE w == Encode(c.op, c.args)
    <3>10. w = WordOfLine(i) /\ c.op = "LOADSYM" /\ line.op = "LOADSYM"
      BY <2>2, <3>1, <3>7
    <3> HIDE DEF w
    <3>11. w.op = OPCODES[c.op] /\ Says(c, w)
      BY <3>9 DEF w
    <3>12. TwoRegisters(c) = TwoRegisters(line)
      BY <3>5, <3>10 DEF TwoRegisters, BareHalt
    <3>13. ThirdIsMeant(line, w)
      <4>1. ~HasThird(c) /\ ~HasThird(line) /\ line.op \notin Moves \cup {"SANDHI"}
        BY <3>10 DEF HasThird, FullHalt, Moves
      <4>2. w.rs2 = 0 /\ ~IsSandhi(w)
        BY <3>10, <3>11, <4>1 DEF Says, ThirdIsMeant
      <4>3. QED
        BY <4>1, <4>2 DEF ThirdIsMeant
    <3>14. FormIsMeant(line, w)
      BY <3>10, <3>11 DEF Says, FormIsMeant, FullHalt, TakesNumber
    <3>15. QED
      BY <3>10, <3>11, <3>12, <3>13, <3>14 DEF Says
  <2>6. QED
    BY <2>4, <2>5
<1>2. QED
  BY <1>1, InitPassInv, NextPassInv, PTL DEF Spec

-----------------------------------------------------------------------------
(* A set of line numbers has a first and, when it is bounded, a last one.  *)
LEMMA FirstOf ==
  ASSUME NEW T \in SUBSET Nat, T # {}
  PROVE  \E i \in T : \A j \in T : i <= j
<1>1. PICK i \in T : \A j \in T : ~(<<j, i>> \in OpToRel(<, Nat))
  BY WFMin, NatLessThanWellFounded
<1>2. \A j \in T : ~(j < i)
  BY <1>1 DEF OpToRel
<1>3. QED
  BY <1>2

LEMMA LastOf ==
  ASSUME NEW n \in Nat, NEW T \in SUBSET (1 .. n), T # {}
  PROVE  \E i \in T : \A j \in T : j <= i
<1> DEFINE U == {n - j : j \in T}
<1>1. \A j \in T : j \in Nat /\ j <= n
  OBVIOUS
<1>2. U \in SUBSET Nat /\ U # {}
  <2>1. \A j \in T : n - j \in Nat
    BY <1>1
  <2>2. QED
    BY <2>1
<1>3. PICK u \in U : \A v \in U : u <= v
  BY <1>2, FirstOf
<1>4. PICK i \in T : u = n - i
  BY <1>3
<1>5. \A j \in T : n - j \in U
  OBVIOUS
<1>6. \A j \in T : n - i <= n - j
  BY <1>3, <1>4, <1>5
<1>7. QED
  BY <1>1, <1>4, <1>6

LEMMA NoteLines ==
  ASSUME NEW S, NEW lines \in Seq(S), NEW id
  PROVE  Len(lines) \in Nat /\ Notes(lines, id) \in SUBSET (1 .. Len(lines)) /\ Notes(lines, id) \in SUBSET Nat
<1>1. Len(lines) \in Nat /\ DOMAIN lines = 1 .. Len(lines) /\ 1 .. Len(lines) \subseteq Nat
  OBVIOUS
<1>2. QED
  BY <1>1 DEF Notes

(* The name before a line is that of the last note above it.               *)
LEMMA NameBeforeIs ==
  ASSUME NEW S, NEW lines \in Seq(S), NEW id, NEW i, NEW k \in Notes(lines, id), k < i
  PROVE  \E m \in Notes(lines, id) : m < i /\ k <= m /\ NameBefore(lines, id, i) = lines[m].note
<1> DEFINE is == {j \in Notes(lines, id) : j < i}
           m  == CHOOSE j \in is : \A x \in is : x <= j
<1>1. Len(lines) \in Nat /\ Notes(lines, id) \in SUBSET (1 .. Len(lines))
  BY NoteLines
<1>2. k \in is /\ is \in SUBSET (1 .. Len(lines))
  BY <1>1
<1>3. \E j \in is : \A x \in is : x <= j
  BY <1>1, <1>2, LastOf
<1>4. m \in is /\ \A x \in is : x <= m
  BY <1>3
<1>5. NameBefore(lines, id, i) = lines[m].note
  BY <1>2 DEF NameBefore
<1> HIDE DEF m
<1>6. QED
  BY <1>2, <1>4, <1>5

(* Without a conflict every note of a number after one of them says the    *)
(* same as that one.                                                       *)
LEMMA NotesAgree ==
  ASSUME NEW S, NEW lines \in Seq(S), NEW k \in DOMAIN lines, Noted(lines[k]), IdOf(lines[k]) \notin Conflicts(lines)
  PROVE  \A j \in Notes(lines, IdOf(lines[k])) : k <= j => lines[j].note = lines[k].note
<1> DEFINE id == IdOf(lines[k])
           N  == Notes(lines, id)
           T  == {j \in N : k <= j /\ lines[j].note # lines[k].note}
<1>1. SUFFICES ASSUME T # {} PROVE FALSE
  OBVIOUS
<1>2. k \in N /\ id \in Ids(lines) /\ N \in SUBSET Nat
  BY NoteLines DEF Notes, Ids
<1>3. T \in SUBSET Nat
  BY <1>2
<1>4. PICK j \in T : \A x \in T : j <= x
  BY <1>1, <1>3, FirstOf
<1>5. j \in N /\ k < j /\ j \in Nat /\ k \in Nat
  BY <1>2, <1>4
<1>6. PICK m \in N : m < j /\ k <= m /\ NameBefore(lines, id, j) = lines[m].note
  BY <1>2, <1>5, NameBeforeIs
<1>7. m \in Nat /\ m \notin T
  BY <1>2, <1>4, <1>5, <1>6
<1>8. lines[m].note = lines[k].note
  BY <1>6, <1>7
<1>9. NameBefore(lines, id, j) \in {None, lines[j].note}
  BY <1>2, <1>5 DEF Conflicts
<1>10. lines[k].note # None
  BY DEF Noted
<1>11. QED
  BY <1>4, <1>6, <1>8, <1>9, <1>10

LEMMA ScanShowsNote ==
  ASSUME NEW S, NEW lines \in Seq(S), NEW k \in DOMAIN lines, Noted(lines[k]), IdOf(lines[k]) \notin Conflicts(lines)
  PROVE  IdOf(lines[k]) \in DOMAIN scan_file(lines) /\ scan_file(lines)[IdOf(lines[k])] = lines[k].note
<1> DEFINE id == IdOf(lines[k])
<1>1. k \in Notes(lines, id) /\ id \in Ids(lines) /\ Len(lines) \in Nat /\ k \in 1 .. Len(lines)
  BY NoteLines DEF Notes, Ids
<1>2. k < Len(lines) + 1
  BY <1>1
<1>3. PICK m \in Notes(lines, id) : k <= m /\ NameBefore(lines, id, Len(lines) + 1) = lines[m].note
  BY <1>1, <1>2, NameBeforeIs
<1>4. lines[m].note = lines[k].note
  BY <1>3, NotesAgree
<1>5. QED
  BY <1>1, <1>3, <1>4 DEF scan_file

LEMMA ImmFits == \A v \in Imm : v % 65536 = v
<1>1. SUFFICES ASSUME NEW v \in Imm PROVE v % 65536 = v
  OBVIOUS
<1>2. v \in Nat /\ v < 65536
  BY SMTT(60) DEF Imm
<1>3. QED
  BY <1>2, SMT

(* When the generator reports no conflict for a number, monitor.py shows   *)
(* the symbol of a noted LOADSYM under the name of the note, whatever the  *)
(* number of lines and of notes (gen_symbol_table.py:85-97,                *)
(* monitor.py:25-44).                                                      *)
THEOREM NotedNameIsShown == Spec => []ShownNameIsNoted
<1>1. PassInv => ShownNameIsNoted
  <2>1. SUFFICES ASSUME PassInv, phase = "done", NEW i \in Written, NEW k \in DOMAIN project.main,
                        project.main[k] = text[i], Noted(text[i]), IdOf(text[i]) \in Imm,
                        IdOf(text[i]) \notin Conflicts(project.main)
                 PROVE  fmt_word(LocalValue(WordOfLine(i), ZeroWord, ZeroWord), load_symbols(TRUE, project.main))
                            = text[i].note
    BY DEF ShownNameIsNoted
  <2> DEFINE line == text[i]
             w    == WordOfLine(i)
             id   == IdOf(line)
  <2>2. /\ LabelsTo(Len(text) + 1) /\ TextOK /\ IsLine(line) /\ HasInstruction(line)
        /\ Parses(line.op, Interned(line)) /\ w = Encode(line.op, Interned(line))
    BY <2>1, DoneWord
  <2>3. line.op = "LOADSYM" /\ Len(line.args) >= 2 /\ line.args[2].kind = "num" /\ line.args \in Seq({line.args[j] : j \in DOMAIN line.args})
    BY <2>1, <2>2 DEF Noted, IsLine, HasInstruction
  <2>4. 2 \in DOMAIN line.args
    BY <2>3
  <2>5. line.args[2] = Num(id)
    BY <2>2, <2>3, <2>4 DEF IsLine, HasInstruction, IsOperand, IdOf, R, Num, Name
  <2>6. Interned(line) = line.args
    BY <2>3 DEF Interned, Symbolic, IsImm
  <2>7. w.imm = id
    <3>1. 2 \in DOMAIN Format(line.op, Len(line.args)) /\ Format(line.op, Len(line.args))[2] = "imm"
      BY <2>3 DEF Format
    <3>2. line.op \in DOMAIN OPCODES
      BY <2>3, Opcodes
    <3>3. w.imm = parse_imm(line.args[2]) % 65536
      BY <2>2, <2>6, <3>1, <3>2, ImmOfWord
    <3>4. parse_imm(line.args[2]) = id
      BY <2>2, <2>5, NumberIsImm
    <3>5. id % 65536 = id
      BY <2>1, ImmFits
    <3>6. QED
      BY <3>3, <3>4, <3>5
  <2>8. w.op = OP_LOADSYM
    <3>1. \A b : OrLow(OP_LOADSYM, b) = OP_LOADSYM
      BY DEF OrLow, OP_LOADSYM
    <3>2. OPCODES[line.op] = OP_LOADSYM
      BY <2>3, OpcodeOf
    <3>3. QED
      BY <2>2, <2>6, <3>1, <3>2 DEF Encode, Pack, I
  <2>9. LocalValue(w, ZeroWord, ZeroWord) = MkWord(TAG_SYMBOL, id)
    BY <2>7, <2>8 DEF LocalValue, OP_LOADI, OP_LOADSYM, OP_MOV, OP_ATOM, OP_EQ, OP_ADD, OP_SUB
  <2>10. project.main \in Seq(LinesOf(project))
    BY <2>2, ProjectsAssumption DEF TextOK
  <2>11. id \in DOMAIN scan_file(project.main) /\ scan_file(project.main)[id] = line.note
    BY <2>1, <2>10, ScanShowsNote
  <2>12. QED
    BY <2>9, <2>11 DEF fmt_word, load_symbols, MkWord
<1>2. QED
  BY <1>1, InitPassInv, NextPassInv, PTL DEF Spec

-----------------------------------------------------------------------------
(* The lines of a set of files, counted file by file in the order in which *)
(* CHOOSE takes them.                                                      *)
TotalOf(files, S)    == MapThenSumSet(LAMBDA f : Len(files[f]), S)
Pick(s)              == CHOOSE x \in s : TRUE
Entry(files, h, s)   == IF s = {} THEN 0 ELSE Len(files[Pick(s)]) + h[s \ {Pick(s)}]

(* The function that counts the sets of files, the sizes of files, and     *)
(* what it means that the order does not matter.                           *)
Counts(files, S, h)  == h = [s \in SUBSET S |-> Entry(files, h, s)]
Sized(files, S)       == \A x \in S : Len(files[x]) \in Nat
AnyOrder(files, S, h) == \A s \in SUBSET S : \A x \in s : h[s] = Len(files[x]) + h[s \ {x}]
SameCounts(S, h, k)   == \A s \in SUBSET S : h[s] = k[s]

LEMMA TotalIs ==
  ASSUME NEW files, NEW S
  PROVE  TotalOf(files, S) = (CHOOSE h : Counts(files, S, h))[S]
BY DEF TotalOf, Counts, Entry, Pick, MapThenSumSet, MapThenFoldSet

LEMMA SmallestSet ==
  ASSUME NEW S, IsFiniteSet(S), NEW W \in SUBSET (SUBSET S), W # {}
  PROVE  \E s \in W : \A t \in W : Cardinality(s) <= Cardinality(t)
<1> DEFINE C == {Cardinality(s) : s \in W}
<1>1. \A s \in W : Cardinality(s) \in Nat
  BY FS_Subset, FS_CardinalityType
<1>2. C \in SUBSET Nat /\ C # {}
  BY <1>1
<1>3. PICK c \in C : \A d \in C : c <= d
  BY <1>2, FirstOf
<1>4. QED
  BY <1>3

LEMMA Fewer ==
  ASSUME NEW S, IsFiniteSet(S), NEW s \in SUBSET S, NEW x \in s
  PROVE  /\ s \ {x} \in SUBSET S /\ Cardinality(s) \in Nat /\ Cardinality(s \ {x}) = Cardinality(s) - 1
         /\ Cardinality(s) >= 1
<1>1. IsFiniteSet(s)
  BY FS_Subset
<1>2. Cardinality(s) \in Nat /\ Cardinality(s \ {x}) \in Nat /\ Cardinality(s \ {x}) = Cardinality(s) - 1
  BY <1>1, FS_RemoveElement, FS_CardinalityType
<1>3. QED
  BY <1>2

LEMMA PickIn == \A s : s # {} => Pick(s) \in s
BY DEF Pick

LEMMA CountExists ==
  ASSUME NEW files, NEW S, IsFiniteSet(S), \A x \in S : Len(files[x]) \in Nat
  PROVE  \E h : Counts(files, S, h)
<1> DEFINE Good(n) == \E g \in [SUBSET S -> Nat] :
                         \A s \in SUBSET S : Cardinality(s) <= n => g[s] = Entry(files, g, s)
           Bad     == {n \in Nat : ~Good(n)}
<1>1. Good(0)
  <2> DEFINE g == [s \in SUBSET S |-> 0]
  <2>1. ASSUME NEW s \in SUBSET S, Cardinality(s) <= 0 PROVE s = {}
    <3>1. \A x \in s : Cardinality(s) \in Nat /\ Cardinality(s) >= 1
      BY Fewer
    <3>2. QED
      BY <2>1, <3>1
  <2>2. g \in [SUBSET S -> Nat] /\ \A s \in SUBSET S : Cardinality(s) <= 0 => g[s] = Entry(files, g, s)
    BY <2>1 DEF Entry
  <2>3. QED
    BY <2>2
<1>2. ASSUME NEW n \in Nat, Good(n) PROVE Good(n + 1)
  <2>1. PICK g \in [SUBSET S -> Nat] : \A s \in SUBSET S : Cardinality(s) <= n => g[s] = Entry(files, g, s)
    BY <1>2
  <2> DEFINE k == [s \in SUBSET S |-> Entry(files, g, s)]
  <2>2. \A s \in SUBSET S : s # {} => Pick(s) \in S /\ s \ {Pick(s)} \in SUBSET S
    BY PickIn
  <2>3. \A s \in SUBSET S : Entry(files, g, s) \in Nat
    BY <2>2 DEF Entry
  <2>4. k \in [SUBSET S -> Nat]
    BY <2>3
  <2>5. ASSUME NEW s \in SUBSET S, Cardinality(s) <= n + 1 PROVE k[s] = Entry(files, k, s)
    <3>1. CASE s = {}
      BY <3>1 DEF Entry
    <3>2. CASE s # {}
      <4>1. Pick(s) \in s
        BY <3>2, PickIn
      <4>2. s \ {Pick(s)} \in SUBSET S /\ Cardinality(s \ {Pick(s)}) <= n
        BY <2>5, <4>1, Fewer
      <4>3. k[s \ {Pick(s)}] = g[s \ {Pick(s)}]
        BY <2>1, <4>2
      <4>4. QED
        BY <3>2, <4>3 DEF Entry
    <3>3. QED
      BY <3>1, <3>2
  <2>6. QED
    BY <2>4, <2>5
<1> HIDE DEF Good
<1>3. Bad = {}
  <2>1. SUFFICES ASSUME Bad # {} PROVE FALSE
    OBVIOUS
  <2>2. PICK m \in Bad : \A j \in Bad : m <= j
    <3>1. Bad \in SUBSET Nat
      OBVIOUS
    <3>2. QED
      BY <2>1, <3>1, FirstOf
  <2>3. m # 0
    BY <1>1, <2>2
  <2>4. m - 1 \in Nat /\ m - 1 \notin Bad /\ m = (m - 1) + 1
    BY <2>2, <2>3
  <2>5. QED
    BY <1>2, <2>2, <2>4
<1>4. Cardinality(S) \in Nat
  BY FS_CardinalityType
<1>5. PICK g \in [SUBSET S -> Nat] : \A s \in SUBSET S : Cardinality(s) <= Cardinality(S) => g[s] = Entry(files, g, s)
  BY <1>3, <1>4 DEF Good
<1>6. \A s \in SUBSET S : g[s] = Entry(files, g, s)
  BY <1>5, FS_Subset
<1>7. g = [s \in SUBSET S |-> Entry(files, g, s)]
  BY <1>6
<1>8. QED
  BY <1>7 DEF Counts

LEMMA CountIsNat ==
  ASSUME NEW files, NEW S, IsFiniteSet(S), \A x \in S : Len(files[x]) \in Nat, NEW h, Counts(files, S, h)
  PROVE  \A s \in SUBSET S : h[s] \in Nat
<1> DEFINE W == {s \in SUBSET S : h[s] \notin Nat}
<1>1. SUFFICES ASSUME W # {} PROVE FALSE
  OBVIOUS
<1>2. PICK s \in W : \A t \in W : Cardinality(s) <= Cardinality(t)
  BY <1>1, SmallestSet
<1>3. h[s] = Entry(files, h, s)
  BY <1>2 DEF Counts
<1>4. s # {}
  BY <1>2, <1>3 DEF Entry
<1>5. Pick(s) \in s
  BY <1>4, PickIn
<1>6. s \ {Pick(s)} \in SUBSET S /\ ~(Cardinality(s) <= Cardinality(s \ {Pick(s)}))
  BY <1>2, <1>5, Fewer
<1>7. h[s \ {Pick(s)}] \in Nat
  BY <1>2, <1>6
<1>8. QED
  BY <1>2, <1>3, <1>4, <1>5, <1>7 DEF Entry

(* Any file may be counted first.                                          *)
LEMMA AnyFirst ==
  ASSUME NEW files, NEW S, IsFiniteSet(S), Sized(files, S), NEW h, Counts(files, S, h)
  PROVE  AnyOrder(files, S, h)
<1> DEFINE W == {s \in SUBSET S : \E x \in s : h[s] # Len(files[x]) + h[s \ {x}]}
<1> USE DEF Sized
<1>1. SUFFICES ASSUME W # {} PROVE FALSE
  BY DEF AnyOrder
<1>2. PICK s \in W : \A t \in W : Cardinality(s) <= Cardinality(t)
  BY <1>1, SmallestSet
<1>3. PICK x \in s : h[s] # Len(files[x]) + h[s \ {x}]
  BY <1>2
<1>4. PICK p \in s : p = Pick(s)
  BY <1>3, PickIn
<1>5. h[s] = Len(files[p]) + h[s \ {p}]
  BY <1>2, <1>3, <1>4 DEF Counts, Entry
<1>6. p # x
  BY <1>3, <1>5
<1>7. \A y \in s : s \ {y} \in SUBSET S /\ s \ {y} \notin W
  <2>1. SUFFICES ASSUME NEW y \in s PROVE s \ {y} \in SUBSET S /\ s \ {y} \notin W
    OBVIOUS
  <2>2. s \ {y} \in SUBSET S /\ ~(Cardinality(s) <= Cardinality(s \ {y}))
    BY <1>2, Fewer
  <2>3. QED
    BY <1>2, <2>2
<1>8. h[s \ {p}] = Len(files[x]) + h[(s \ {p}) \ {x}]
  BY <1>6, <1>7
<1>9. h[s \ {x}] = Len(files[p]) + h[(s \ {x}) \ {p}]
  BY <1>6, <1>7
<1>10. (s \ {x}) \ {p} = (s \ {p}) \ {x} /\ (s \ {p}) \ {x} \in SUBSET S
  BY <1>2
<1>11. h[(s \ {p}) \ {x}] \in Nat /\ Len(files[x]) \in Nat /\ Len(files[p]) \in Nat
  BY <1>2, <1>10, CountIsNat
<1>12. h[s] = Len(files[p]) + (Len(files[x]) + h[(s \ {p}) \ {x}])
      /\ h[s \ {x}] = Len(files[p]) + h[(s \ {p}) \ {x}]
  BY <1>5, <1>8, <1>9, <1>10
<1>13. QED
  BY <1>3, <1>11, <1>12

(* A file is counted the same among more files.                            *)
LEMMA CountsAgree ==
  ASSUME NEW files, NEW S, NEW T, IsFiniteSet(T), S \subseteq T, NEW h, NEW k,
         Counts(files, S, h), Counts(files, T, k)
  PROVE  SameCounts(S, h, k)
<1> DEFINE W == {s \in SUBSET S : h[s] # k[s]}
<1>1. SUFFICES ASSUME W # {} PROVE FALSE
  BY DEF SameCounts
<1>2. IsFiniteSet(S)
  BY FS_Subset
<1>3. PICK s \in W : \A t \in W : Cardinality(s) <= Cardinality(t)
  BY <1>1, <1>2, SmallestSet
<1>4. h[s] = Entry(files, h, s) /\ k[s] = Entry(files, k, s)
  BY <1>3 DEF Counts
<1>5. s # {}
  BY <1>3, <1>4 DEF Entry
<1>6. Pick(s) \in s
  BY <1>5, PickIn
<1>7. s \ {Pick(s)} \in SUBSET S /\ ~(Cardinality(s) <= Cardinality(s \ {Pick(s)}))
  BY <1>2, <1>3, <1>6, Fewer
<1>8. h[s \ {Pick(s)}] = k[s \ {Pick(s)}]
  BY <1>3, <1>7
<1>9. QED
  BY <1>3, <1>4, <1>5, <1>8 DEF Entry

LEMMA TotalAdds ==
  ASSUME NEW files, NEW S, IsFiniteSet(S), NEW f, f \notin S, \A x \in S \cup {f} : Len(files[x]) \in Nat
  PROVE  TotalOf(files, S \cup {f}) = TotalOf(files, S) + Len(files[f]) /\ TotalOf(files, S) \in Nat
<1>1. PICK T : T = S \cup {f}
  OBVIOUS
<1>2. IsFiniteSet(T) /\ Sized(files, T)
  BY <1>1, FS_AddElement DEF Sized
<1>3. PICK h : Counts(files, S, h) /\ TotalOf(files, S) = h[S]
  BY CountExists, TotalIs
<1>4. PICK k : Counts(files, T, k) /\ TotalOf(files, T) = k[T]
  BY <1>2, CountExists, TotalIs DEF Sized
<1>5. T \in SUBSET T /\ f \in T /\ S \subseteq T /\ S \in SUBSET S /\ T \ {f} = S
  BY <1>1
<1>6. AnyOrder(files, T, k)
  BY <1>2, <1>4, AnyFirst
<1>7. k[T] = Len(files[f]) + k[S]
  BY <1>5, <1>6 DEF AnyOrder
<1>8. SameCounts(S, h, k)
  BY <1>2, <1>3, <1>4, <1>5, CountsAgree
<1>9. h[S] \in Nat
  BY <1>3, <1>5, CountIsNat
<1>10. Len(files[f]) \in Nat
  BY <1>2, <1>5 DEF Sized
<1>11. h[S] = k[S]
  BY <1>5, <1>8 DEF SameCounts
<1>12. QED
  BY <1>1, <1>3, <1>4, <1>7, <1>9, <1>10, <1>11

LEMMA TotalOfNone == \A files : TotalOf(files, {}) = 0
<1>1. SUFFICES ASSUME NEW files PROVE TotalOf(files, {}) = 0
  OBVIOUS
<1> DEFINE h == CHOOSE h : Counts(files, {}, h)
<1>2. Counts(files, {}, h)
  BY CountExists, FS_EmptySet
<1>3. h[{}] = 0
  BY <1>2 DEF Counts, Entry
<1>4. QED
  BY <1>3, TotalIs

-----------------------------------------------------------------------------
(* The lines read and still to be read are those of the main file and of   *)
(* the files included, less the .include lines that were followed.         *)
SeenInv == /\ project \in Projects
           /\ text \in Seq(LinesOf(project)) /\ work \in Seq(LinesOf(project))
           /\ IsFiniteSet(seen) /\ seen \subseteq DOMAIN project.files
           /\ Len(text) + Len(work) + Cardinality(seen) = Len(project.main) + TotalOf(project.files, seen)

LEMMA FilesSized ==
  ASSUME NEW p \in Projects
  PROVE  Len(p.main) \in Nat /\ \A f \in DOMAIN p.files : p.files[f] \in Seq(LinesOf(p)) /\ Len(p.files[f]) \in Nat
BY ProjectsAssumption

LEMMA InitSeenInv == Init => SeenInv
<1>1. SUFFICES ASSUME Init PROVE SeenInv
  OBVIOUS
<1>2. /\ project \in Projects /\ work = project.main /\ seen = {} /\ text = << >>
  BY <1>1 DEF Init
<1>3. TotalOf(project.files, seen) = 0 /\ Cardinality(seen) = 0 /\ IsFiniteSet(seen)
  BY <1>2, TotalOfNone, FS_EmptySet
<1>4. work \in Seq(LinesOf(project)) /\ text \in Seq(LinesOf(project)) /\ Len(text) = 0 /\ Len(work) \in Nat
  BY <1>2, ProjectsAssumption
<1>5. QED
  BY <1>2, <1>3, <1>4 DEF SeenInv

LEMMA SeenStays ==
  ASSUME SeenInv, UNCHANGED <<project, text, work, seen>>
  PROVE  SeenInv'
BY DEF SeenInv

LEMMA IncludeKeeps ==
  ASSUME SeenInv, ReadInclude
  PROVE  SeenInv'
<1> DEFINE f == Head(work).file
<1>1. CASE f \in seen \/ f \notin DOMAIN project.files
  <2>1. Exit
    BY <1>1 DEF ReadInclude
  <2>2. QED
    BY <2>1, SeenStays DEF Exit
<1>2. CASE ~(f \in seen \/ f \notin DOMAIN project.files)
  <2>1. /\ work # << >> /\ f \notin seen /\ f \in DOMAIN project.files
        /\ work' = project.files[f] \o Tail(work) /\ seen' = seen \cup {f}
        /\ project' = project /\ text' = text
    BY <1>2 DEF ReadInclude
  <2>2. PICK F, S : F = project.files /\ S = seen
    OBVIOUS
  <2>3. /\ project.files[f] \in Seq(LinesOf(project)) /\ Len(project.files[f]) \in Nat /\ Len(project.main) \in Nat
        /\ \A x \in seen \cup {f} : Len(project.files[x]) \in Nat
    BY <2>1, FilesSized DEF SeenInv
  <2>4. TotalOf(F, S \cup {f}) = TotalOf(F, S) + Len(F[f]) /\ TotalOf(F, S) \in Nat
    BY <2>1, <2>2, <2>3, TotalAdds DEF SeenInv
  <2>5. Cardinality(seen') = Cardinality(seen) + 1 /\ Cardinality(seen) \in Nat /\ IsFiniteSet(seen')
    BY <2>1, FS_AddElement, FS_CardinalityType DEF SeenInv
  <2>6. Tail(work) \in Seq(LinesOf(project)) /\ Len(Tail(work)) = Len(work) - 1 /\ Len(work) \in Nat
    BY <2>1 DEF SeenInv
  <2>7. work' \in Seq(LinesOf(project)) /\ Len(work') = Len(project.files[f]) + Len(work) - 1
    BY <2>1, <2>3, <2>6
  <2>8. Len(text) \in Nat /\ Len(text) + Len(work) + Cardinality(seen) = Len(project.main) + TotalOf(F, S)
    BY <2>2 DEF SeenInv
  <2>9. TotalOf(project'.files, seen') = TotalOf(F, S \cup {f})
    BY <2>1, <2>2
  <2>10. /\ Len(work') = Len(F[f]) + Len(work) - 1 /\ Len(F[f]) \in Nat
         /\ Len(text') = Len(text) /\ Len(project'.main) = Len(project.main)
    BY <2>1, <2>2, <2>3, <2>7
  <2>11. PICK a \in Nat, b \in Nat, c \in Nat, d \in Nat, t \in Nat, g \in Nat :
            /\ a = Len(text) /\ b = Len(work) /\ c = Cardinality(seen) /\ d = Len(project.main)
            /\ t = TotalOf(F, S) /\ g = Len(F[f])
    BY <2>3, <2>4, <2>5, <2>6, <2>8, <2>10
  <2>12. /\ Len(text') = a /\ Len(work') = g + b - 1 /\ Cardinality(seen') = c + 1
         /\ Len(project'.main) = d /\ TotalOf(project'.files, seen') = t + g
    BY <2>4, <2>5, <2>9, <2>10, <2>11
  <2>13. a + b + c = d + t
    BY <2>8, <2>11
  <2>14. a + (g + b - 1) + (c + 1) = d + (t + g)
    BY <2>13
  <2>15. Len(text') + Len(work') + Cardinality(seen') = Len(project'.main) + TotalOf(project'.files, seen')
    BY <2>12, <2>14
  <2>16. project' \in Projects /\ text' \in Seq(LinesOf(project')) /\ work' \in Seq(LinesOf(project'))
        /\ seen' \subseteq DOMAIN project'.files
    BY <2>1, <2>7 DEF SeenInv
  <2>17. QED
    BY <2>5, <2>15, <2>16 DEF SeenInv
<1>3. QED
  BY <1>1, <1>2

LEMMA ReadLineKeeps ==
  ASSUME SeenInv, ReadLine
  PROVE  SeenInv'
<1>1. /\ work # << >> /\ text' = Append(text, Head(work)) /\ work' = Tail(work)
      /\ project' = project /\ seen' = seen
  BY DEF ReadLine
<1>2. text \in Seq(LinesOf(project)) /\ work \in Seq(LinesOf(project))
  BY DEF SeenInv
<1>3. Head(work) \in LinesOf(project) /\ Tail(work) \in Seq(LinesOf(project)) /\ Len(Tail(work)) = Len(work) - 1
  BY <1>1, <1>2
<1>4. text' \in Seq(LinesOf(project)) /\ Len(text') = Len(text) + 1
  BY <1>1, <1>2, <1>3
<1>5. Len(text') + Len(work') = Len(text) + Len(work)
  BY <1>1, <1>2, <1>3, <1>4
<1>6. QED
  BY <1>1, <1>3, <1>4, <1>5 DEF SeenInv

LEMMA NextSeenInv == SeenInv /\ [Next]_vars => SeenInv'
<1>1. SUFFICES ASSUME SeenInv, [Next]_vars PROVE SeenInv'
  OBVIOUS
<1>2. CASE ReadInclude
  BY <1>1, <1>2, IncludeKeeps
<1>3. CASE ReadLine
  BY <1>1, <1>3, ReadLineKeeps
<1>4. CASE \/ EndExpand \/ Pass1 \/ EndPass1 \/ Intern \/ EndIntern \/ Pass2 \/ EndPass2 \/ Write \/ UNCHANGED vars
  <2>1. UNCHANGED <<project, text, work, seen>>
    BY <1>4 DEF EndExpand, Pass1, EndPass1, Intern, EndIntern, Pass2, Exit, EndPass2, Write, vars
  <2>2. QED
    BY <1>1, <2>1, SeenStays
<1>5. QED
  BY <1>1, <1>2, <1>3, <1>4 DEF Next

(* However the files of a program include each other, no line of a file    *)
(* that was included is lost or taken twice (assembler.py:35-57).          *)
THEOREM LinesAreConserved == Spec => []LinesConserved
<1>1. SeenInv => LinesConserved
  BY DEF SeenInv, LinesConserved, TotalOf
<1>2. QED
  BY <1>1, InitSeenInv, NextSeenInv, PTL DEF Spec

-----------------------------------------------------------------------------
(* How far an assembly is from its end: the stages still to come, then the *)
(* files still unread, then the lines a stage has left.                    *)
StageOf(ph) == CASE ph = "expand" -> 5 [] ph = "pass1" -> 4 [] ph = "intern" -> 3
                 [] ph = "pass2" -> 2 [] ph = "write" -> 1 [] OTHER -> 0
FilesLeft == Cardinality(DOMAIN project.files \ seen)
LinesLeft == CASE phase = "expand" -> Len(work)
               [] phase = "pass1"  -> Len(text) + 1 - at
               [] OTHER            -> Len(code) + 1 - at
Nearer == \/ StageOf(phase') < StageOf(phase)
          \/ phase' = phase /\ FilesLeft' < FilesLeft
          \/ phase' = phase /\ FilesLeft' = FilesLeft /\ LinesLeft' < LinesLeft
Counted == /\ phase = "expand" => FilesLeft \in Nat
           /\ phase \in {"expand", "pass1", "intern", "pass2"} => LinesLeft \in Nat

(* A project is what a disk holds: finitely many files.                    *)
FilesAreFinite == \A p \in Projects : IsFiniteSet(DOMAIN p.files)

LEMMA SomeAreCounted == FilesAreFinite /\ SeenInv /\ PassInv => Counted
<1>1. SUFFICES ASSUME FilesAreFinite, SeenInv, PassInv PROVE Counted
  OBVIOUS
<1>2. FilesLeft \in Nat
  <2>1. IsFiniteSet(DOMAIN project.files \ seen)
    BY <1>1, FS_Subset DEF FilesAreFinite, SeenInv
  <2>2. QED
    BY <2>1, FS_CardinalityType DEF FilesLeft
<1>3. CASE phase = "expand"
  <2>1. Len(work) \in Nat
    BY <1>1 DEF SeenInv
  <2>2. QED
    BY <1>2, <1>3, <2>1 DEF Counted, LinesLeft
<1>4. CASE phase = "pass1"
  <2>1. Len(text) \in Nat /\ at \in Nat /\ at <= Len(text) + 1
    BY <1>1, <1>4, TextLines DEF PassInv, TextOK, Pass1OK
  <2>2. QED
    BY <1>4, <2>1 DEF Counted, LinesLeft
<1>5. CASE phase \in {"intern", "pass2"}
  <2>1. Len(code) \in Nat /\ at \in Nat /\ at <= Len(code) + 1
    BY <1>1, <1>5 DEF PassInv, TextOK, InternOK, Pass2OK, InternedTo
  <2>2. QED
    BY <1>5, <2>1 DEF Counted, LinesLeft
<1>6. QED
  BY <1>3, <1>4, <1>5 DEF Counted

LEMMA IncludesEnd ==
  ASSUME FilesAreFinite, SeenInv, ReadInclude
  PROVE  Nearer
<1>1. CASE phase' = "failed"
  BY <1>1 DEF ReadInclude, Nearer, StageOf
<1>2. CASE phase' # "failed"
  <2>1. PICK f \in DOMAIN project.files : f \notin seen /\ seen' = seen \cup {f} /\ project' = project /\ phase' = phase
    BY <1>2 DEF ReadInclude, Exit
  <2> DEFINE S == DOMAIN project.files \ seen
  <2>2. IsFiniteSet(S) /\ f \in S
    BY <2>1, FS_Subset DEF FilesAreFinite, SeenInv
  <2>3. DOMAIN project'.files \ seen' = S \ {f}
    BY <2>1
  <2> HIDE DEF S
  <2>4. Cardinality(S \ {f}) = Cardinality(S) - 1 /\ Cardinality(S) \in Nat
    BY <2>2, FS_RemoveElement, FS_CardinalityType
  <2>5. FilesLeft' = Cardinality(S \ {f}) /\ FilesLeft = Cardinality(S)
    BY <2>3 DEF FilesLeft, S
  <2>6. FilesLeft' < FilesLeft
    BY <2>4, <2>5
  <2>7. QED
    BY <2>1, <2>6 DEF Nearer
<1>3. QED
  BY <1>1, <1>2

LEMMA LinesEnd ==
  ASSUME SeenInv, PassInv, PassInv', ReadLine \/ Pass1 \/ Intern \/ Pass2
  PROVE  Nearer
<1>1. FilesLeft' = FilesLeft
  BY DEF ReadLine, Pass1, Intern, Pass2, Exit, FilesLeft
<1>2. CASE phase' = "failed"
  BY <1>2 DEF ReadLine, Pass1, Intern, Pass2, Nearer, StageOf
<1>3. CASE ReadLine
  <2>1. Len(work') = Len(work) - 1 /\ Len(work) \in Nat /\ phase = "expand" /\ phase' = phase
    BY <1>3 DEF ReadLine, SeenInv
  <2>2. QED
    BY <1>1, <2>1 DEF Nearer, LinesLeft
<1>4. CASE Pass1
  <2>1. /\ phase = "pass1" /\ phase' = phase /\ text' = text /\ at' = at + 1
        /\ at \in Nat /\ Len(text) \in Nat
    BY <1>4, TextLines DEF Pass1, PassInv, TextOK
  <2>2. QED
    BY <1>1, <2>1 DEF Nearer, LinesLeft
<1>5. CASE (Intern \/ Pass2) /\ phase' # "failed"
  <2>1. phase \in {"intern", "pass2"} /\ phase' = phase /\ text' = text /\ at' = at + 1 /\ at \in Nat
    BY <1>5 DEF Intern, Pass2, Exit, PassInv, TextOK
  <2>2. Len(code) \in Nat /\ Len(code') = Len(code)
    <3>1. Len(code) = Cardinality(Written) /\ Len(code) \in Nat
      BY <2>1 DEF PassInv, InternOK, Pass2OK, InternedTo
    <3>2. Len(code') = Cardinality(Written)'
      BY <2>1 DEF PassInv, InternOK, Pass2OK, InternedTo
    <3>3. Written' = Written
      BY <2>1 DEF Written, HasInstruction
    <3>4. QED
      BY <3>1, <3>2, <3>3
  <2>3. QED
    BY <1>1, <2>1, <2>2 DEF Nearer, LinesLeft
<1>6. QED
  BY <1>2, <1>3, <1>4, <1>5

(* No assembly goes round, files that include each other in a circle and   *)
(* names in any order not excepted: each step brings it nearer to its end, *)
(* and what is counted down is a natural number at every stage             *)
(* (assembler.py:35-57, 97-150).                                           *)
THEOREM AssemblyShortens ==
  FilesAreFinite => (Spec => []Counted /\ [][Next => Nearer]_vars)
<1> SUFFICES ASSUME FilesAreFinite PROVE Spec => []Counted /\ [][Next => Nearer]_vars
  OBVIOUS
<1>1. SeenInv /\ PassInv => Counted
  BY SomeAreCounted
<1>2. ASSUME SeenInv, PassInv, PassInv', Next PROVE Nearer
  <2>1. CASE EndExpand \/ EndPass1 \/ EndIntern \/ EndPass2 \/ Write
    <3>1. \/ phase = "expand" /\ phase' = "pass1"
          \/ phase = "pass1" /\ phase' = "intern"
          \/ phase = "intern" /\ phase' = "pass2"
          \/ phase = "pass2" /\ phase' = "write"
          \/ phase = "write" /\ phase' = "done"
      BY <2>1 DEF EndExpand, EndPass1, EndIntern, EndPass2, Write
    <3>2. QED
      BY <3>1 DEF Nearer, StageOf
  <2>2. QED
    BY <1>2, <2>1, IncludesEnd, LinesEnd DEF Next
<1>3. Spec => []SeenInv
  BY InitSeenInv, NextSeenInv, PTL DEF Spec
<1>4. Spec => []PassInv
  BY InitPassInv, NextPassInv, PTL DEF Spec
<1>5. QED
  BY <1>1, <1>2, <1>3, <1>4, PTL

-----------------------------------------------------------------------------
(* oracle_crosscheck.py and check_stale_refs.py.                           *)

Told == [oracle : Answers, hw : Observations] \cup [live : Versions \cup {NoAnswer}, claims : SUBSET Versions]

(* One record for each case passed; as long as fail is FALSE all of them   *)
(* are good; exit code 0 comes after the last case and not on a fail.      *)
ToldOK == told \in Seq(Told) /\ case = Len(told) + 1
FailOK == ~fail => \A i \in DOMAIN told : Green(script, i, told[i])
PassOK == case <= LastCase + 1
ExitOK == exit = 0 => ~fail /\ case > LastCase
CheckInv == ToldOK /\ FailOK /\ PassOK /\ ExitOK

LEMMA LastIsNat == LastCase \in Nat
<1>1. CASES \in Seq(STRING) /\ CHECKS \in Seq(STRING)
  BY ListsAssumption
<1>2. Len(CASES) \in Nat /\ Len(CHECKS) \in Nat
  BY <1>1
<1>3. QED
  BY <1>2 DEF LastCase

(* A case is passed, a good one or with a fail.                            *)
LEMMA OneMore ==
  ASSUME CheckInv, NEW t \in Told, ToldOf(t), case <= LastCase, exit # 0,
         ~fail' => ~fail /\ Green(script, case, t)
  PROVE  CheckInv'
<1>1. told \in Seq(Told) /\ case = Len(told) + 1 /\ Len(told) \in Nat
  BY DEF CheckInv, ToldOK
<1>2. /\ told' = Append(told, t) /\ case' = case + 1 /\ script' = script /\ exit' = exit
      /\ LastCase' = LastCase
  BY DEF ToldOf, LastCase
<1>3. /\ told' \in Seq(Told) /\ Len(told') = Len(told) + 1
      /\ DOMAIN told' = 1 .. Len(told) + 1 /\ DOMAIN told = 1 .. Len(told)
      /\ \A i \in DOMAIN told : told'[i] = told[i]
      /\ told'[Len(told) + 1] = t
  BY <1>1, <1>2
<1>4. ToldOK' /\ PassOK' /\ ExitOK'
  BY <1>1, <1>2, <1>3, LastIsNat DEF ToldOK, PassOK, ExitOK
<1>5. FailOK'
  <2>1. SUFFICES ASSUME ~fail', NEW i \in DOMAIN told' PROVE Green(script, i, told'[i])
    BY <1>2 DEF FailOK
  <2>2. CASE i \in DOMAIN told
    BY <1>3, <2>1, <2>2 DEF CheckInv, FailOK
  <2>3. CASE i = Len(told) + 1
    BY <1>1, <1>3, <2>1, <2>3
  <2>4. QED
    BY <1>1, <1>3, <2>1, <2>2, <2>3
<1>6. QED
  BY <1>4, <1>5 DEF CheckInv

LEMMA CrossCheckKeeps ==
  ASSUME CheckInv, CrossCheck
  PROVE  CheckInv'
<1>1. PICK oracle \in Answers, hw \in Observations :
          /\ fail' = (fail \/ oracle = NoAnswer \/ hw = NoAnswer \/ ~Agree(CASES[case], oracle, hw))
          /\ ToldOf([oracle |-> oracle, hw |-> hw])
  BY DEF CrossCheck
<1> DEFINE t == [oracle |-> oracle, hw |-> hw]
<1>2. t \in Told /\ t.oracle = oracle /\ t.hw = hw
  BY DEF Told
<1>3. case <= LastCase /\ exit # 0 /\ script = "crosscheck"
  BY DEF CrossCheck, LastCase, Open
<1>4. ~fail' => ~fail /\ oracle # NoAnswer /\ hw # NoAnswer /\ Agree(CASES[case], oracle, hw)
  BY <1>1
<1>5. Agree(CASES[case], oracle, hw) =>
          /\ CASES[case] = "fixnum" => hw.value = oracle
          /\ CASES[case] = "truthy" => (hw.tag = TAG_NIL <=> oracle = Empty)
  BY DEF Agree
<1>6. ~fail' => ~fail /\ Green(script, case, t)
  <2> HIDE DEF t
  <2>1. QED
    BY <1>2, <1>3, <1>4, <1>5 DEF Green
<1>7. QED
  BY <1>1, <1>2, <1>3, <1>6, OneMore

LEMMA StaleRefsKeeps ==
  ASSUME CheckInv, StaleRefs
  PROVE  CheckInv'
<1>1. PICK live \in Versions \cup {NoAnswer}, claims \in SUBSET Versions :
          /\ fail' = (fail \/ FindsDrift(live, claims))
          /\ ToldOf([live |-> live, claims |-> claims])
  BY DEF StaleRefs
<1> DEFINE t == [live |-> live, claims |-> claims]
<1>2. t \in Told /\ t.live = live /\ t.claims = claims
  BY DEF Told
<1>3. case <= LastCase /\ script = "stale_refs"
  BY DEF StaleRefs, LastCase
<1>4. exit # 0
  BY <1>3, LastIsNat DEF CheckInv, ExitOK, ToldOK
<1>5. ~fail' => ~fail /\ (live = NoAnswer \/ claims \subseteq {live})
  BY <1>1 DEF FindsDrift
<1>6. ~fail' => ~fail /\ Green(script, case, t)
  <2> HIDE DEF t
  <2>1. QED
    BY <1>2, <1>3, <1>5 DEF Green
<1>7. QED
  BY <1>1, <1>2, <1>3, <1>4, <1>6, OneMore

LEMMA EndKeeps ==
  ASSUME CheckInv, End \/ TimedOutCase \/ UNCHANGED checkVars
  PROVE  CheckInv'
<1>1. UNCHANGED <<script, case, fail, told>>
  BY DEF End, TimedOutCase, checkVars
<1>2. ToldOK' /\ FailOK' /\ PassOK'
  BY <1>1 DEF CheckInv, ToldOK, FailOK, PassOK, Green, LastCase
<1>3. exit' = 0 => ~fail /\ case > LastCase
  BY DEF End, TimedOutCase, checkVars, CheckInv, ExitOK
<1>4. ExitOK'
  BY <1>1, <1>3 DEF ExitOK, LastCase
<1>5. QED
  BY <1>2, <1>4 DEF CheckInv

-----------------------------------------------------------------------------
LEMMA InitCheckInv == CheckInit => CheckInv
<1>1. SUFFICES ASSUME CheckInit PROVE CheckInv
  OBVIOUS
<1>2. told = <<>> /\ case = 1 /\ exit = 2
  BY <1>1 DEF CheckInit, Open
<1>3. told \in Seq(Told) /\ Len(told) = 0 /\ DOMAIN told = {}
  BY <1>2
<1>4. QED
  BY <1>2, <1>3, LastIsNat DEF CheckInv, ToldOK, FailOK, PassOK, ExitOK

LEMMA NextCheckInv == CheckInv /\ [CheckNext]_checkVars => CheckInv'
BY CrossCheckKeeps, StaleRefsKeeps, EndKeeps DEF CheckNext

(* Exit code 0 means that the list was gone through to its end and no case *)
(* of which there was something to compare was bad, for any list and any   *)
(* answers (oracle_crosscheck.py:73-105, check_stale_refs.py:71-81).       *)
THEOREM GreenIsTrue == CheckSpec => []NoFalseGreen
<1>1. CheckInv => NoFalseGreen
  <2>1. SUFFICES ASSUME CheckInv, exit = 0
                 PROVE  Len(told) = LastCase /\ \A i \in DOMAIN told : Green(script, i, told[i])
    BY DEF NoFalseGreen
  <2>2. Len(told) \in Nat
    BY <2>1 DEF CheckInv, ToldOK
  <2>3. QED
    BY <2>1, <2>2, LastIsNat DEF CheckInv, ToldOK, FailOK, PassOK, ExitOK
<1>2. QED
  BY <1>1, InitCheckInv, NextCheckInv, PTL DEF CheckSpec

-----------------------------------------------------------------------------
(* The fixtures of the gate up to the n-th have not been sabotaged.        *)
N             == Len(SELECTED_ORDINALS)
Sabotaged(j)  == /\ SELECTED_ORDINALS[j] = gate.use.mutate
                 /\ gate.corpus[gate.use.mutate].expected = "t"
Untouched(n)  == \A j \in 1 .. n : ~Sabotaged(j)

(* A fixture is only left behind as confirmed when it was not sabotaged.   *)
ShapeOK == DOMAIN gate = DOMAIN IdleGate
AtOK    == gate.stage \in {"compile", "assemble", "simulate", "compare", "record"} => gate.k \in 1 .. N
StartOK == gate.stage = "simulator" => gate.k = 1
BeforeOK == gate.stage \in {"compile", "assemble", "simulate", "compare"} => Untouched(gate.k - 1)
RecordOK == gate.stage = "record" => Untouched(gate.k)
AfterOK  == gate.stage \in {"witness", "provenance", "result", "coverage", "pass"} => Untouched(N)
GateInv  == ShapeOK /\ AtOK /\ StartOK /\ BeforeOK /\ RecordOK /\ AfterOK

LEMMA NIsPositive == N \in Nat /\ N >= 1 /\ DOMAIN SELECTED_ORDINALS = 1 .. N
BY OrdinalsAssumption DEF N

LEMMA Fields == {"stage", "run", "corpus", "use", "k", "shown", "records", "mutation"} = DOMAIN IdleGate
BY DEF IdleGate

(* What a step leaves alone that the invariant speaks of.                  *)
Keeps == gate'.k = gate.k /\ gate'.use = gate.use /\ gate'.corpus = gate.corpus /\ ShapeOK'

LEMMA ToKeeps ==
  ASSUME GateInv, NEW s, To(s)
  PROVE  gate'.stage = s /\ Keeps
BY Fields DEF GateInv, ShapeOK, To, Keeps

LEMMA UntouchedStays ==
  ASSUME Keeps, NEW n
  PROVE  Untouched(n) <=> Untouched(n)'
BY DEF Keeps, Untouched, Sabotaged

(* The step ends the run or stays on the way it was on.                    *)
LEMMA StopKeeps ==
  ASSUME GateInv, NEW s \in {"red", "crash"}, To(s)
  PROVE  GateInv'
BY ToKeeps DEF GateInv, Keeps, AtOK, StartOK, BeforeOK, RecordOK, AfterOK

LEMMA FixtureKeeps ==
  ASSUME GateInv, Keeps, gate.stage \in {"compile", "assemble", "simulate"},
         gate'.stage \in {"assemble", "simulate", "compare"}
  PROVE  GateInv'
<1>1. gate.k \in 1 .. N /\ Untouched(gate.k - 1)
  BY DEF GateInv, AtOK, BeforeOK
<1>2. Untouched(gate.k - 1)'
  BY <1>1, UntouchedStays DEF Keeps
<1>3. QED
  BY <1>1, <1>2, NIsPositive DEF GateInv, Keeps, AtOK, StartOK, BeforeOK, RecordOK, AfterOK

LEMMA AfterKeeps ==
  ASSUME GateInv, Keeps, gate.stage \in {"witness", "provenance", "result", "coverage"},
         gate'.stage \in {"provenance", "result", "coverage", "pass"}
  PROVE  GateInv'
<1>1. Untouched(N)'
  BY UntouchedStays DEF GateInv, AfterOK
<1>2. QED
  BY <1>1 DEF GateInv, Keeps, AtOK, StartOK, BeforeOK, RecordOK, AfterOK, N

(* The comparison of a sabotaged fixture cannot be passed.                 *)
LEMMA CompareKeeps ==
  ASSUME GateInv, Compare
  PROVE  GateInv'
<1>1. CASE Red
  BY <1>1, StopKeeps DEF Red
<1>2. CASE Expected \in decode_semantic_value(gate.shown[Ordinal]) /\ To("record")
  <2>1. gate.k \in 1 .. N /\ Untouched(gate.k - 1) /\ Keeps /\ gate'.stage = "record"
    BY <1>2, ToKeeps DEF GateInv, Compare, AtOK, BeforeOK
  <2>2. Expected = "t"
    BY <1>2 DEF decode_semantic_value
  <2>3. ~Sabotaged(gate.k)
    BY <2>2 DEF Sabotaged, Expected, Fixture, Ordinal, Mutated
  <2>4. Untouched(gate.k)'
    <3>1. Untouched(gate.k)
      BY <2>1, <2>3, NIsPositive DEF Untouched
    <3>2. QED
      BY <2>1, <3>1, UntouchedStays DEF Keeps
  <2>5. QED
    BY <2>1, <2>4 DEF GateInv, Keeps, AtOK, StartOK, BeforeOK, RecordOK, AfterOK
<1>3. QED
  BY <1>1, <1>2 DEF Compare

(* The next fixture, or the end of the list.                               *)
LEMMA RecordKeeps ==
  ASSUME GateInv, Record
  PROVE  GateInv'
<1>1. CASE Crash
  BY <1>1, StopKeeps DEF Crash
<1>2. CASE ~Crash
  <2> DEFINE next == IF gate.k < N THEN "compile" ELSE IF gate.use.witness THEN "witness" ELSE "provenance"
  <2>1. /\ gate'.k = (gate.k % N) + 1 /\ gate'.stage = next
        /\ gate'.use = gate.use /\ gate'.corpus = gate.corpus /\ ShapeOK'
    BY <1>2, Fields DEF Record, GateInv, ShapeOK, N
  <2>2. gate.k \in 1 .. N /\ Untouched(gate.k)
    BY DEF GateInv, Record, AtOK, RecordOK
  <2>3. \A n : Untouched(n) <=> Untouched(n)'
    BY <2>1 DEF Untouched, Sabotaged
  <2>4. CASE gate.k < N
    <3>1. gate'.k = gate.k + 1 /\ gate'.stage = "compile" /\ gate'.k - 1 = gate.k
      BY <2>1, <2>2, <2>4, NIsPositive
    <3>2. Untouched(gate.k - 1)'
      BY <2>1, <2>2, <3>1 DEF Untouched, Sabotaged
    <3>3. QED
      BY <2>1, <2>2, <2>4, <3>1, <3>2, NIsPositive DEF GateInv, AtOK, StartOK, BeforeOK, RecordOK, AfterOK
  <2>5. CASE gate.k = N
    <3>1. gate'.stage \in {"witness", "provenance"} /\ Untouched(N)'
      BY <2>1, <2>2, <2>3, <2>5, NIsPositive
    <3>2. QED
      BY <2>1, <3>1 DEF GateInv, AtOK, StartOK, BeforeOK, RecordOK, AfterOK, N
  <2>6. QED
    BY <2>2, <2>4, <2>5, NIsPositive
<1>3. QED
  BY <1>1, <1>2

-----------------------------------------------------------------------------
LEMMA InitGateInv == GateInit => GateInv
BY DEF GateInit, IdleGate, GateInv, ShapeOK, AtOK, StartOK, BeforeOK, RecordOK, AfterOK

LEMMA BeginKeeps ==
  ASSUME GateInv, Begin
  PROVE  GateInv'
<1>1. /\ gate'.stage \in {"simulator", "red"} /\ gate'.k = 1
      /\ DOMAIN gate' = DOMAIN IdleGate
  BY DEF Begin, IdleGate
<1>2. QED
  BY <1>1 DEF IdleGate, GateInv, ShapeOK, AtOK, StartOK, BeforeOK, RecordOK, AfterOK

LEMMA NextGateInv == GateInv /\ [GateNext]_gateVars => GateInv'
<1>1. SUFFICES ASSUME GateInv, [GateNext]_gateVars PROVE GateInv'
  OBVIOUS
<1>2. CASE Red \/ Crash \/ Kill
  BY <1>1, <1>2, StopKeeps DEF Red, Crash, Kill
<1>3. CASE Begin
  BY <1>1, <1>3, BeginKeeps
<1>4. CASE compile_simulator
  <2>1. CASE To("compile") /\ gate.stage = "simulator"
    <3>1. gate'.stage = "compile" /\ Keeps /\ gate.k = 1
      BY <1>1, <2>1, ToKeeps DEF GateInv, StartOK
    <3>2. AtOK' /\ BeforeOK'
      BY <3>1, NIsPositive DEF Keeps, AtOK, BeforeOK, Untouched, N
    <3>3. QED
      BY <3>1, <3>2 DEF GateInv, Keeps, StartOK, RecordOK, AfterOK
  <2>2. QED
    BY <1>2, <1>4, <2>1 DEF compile_simulator
<1>5. CASE Compile
  BY <1>1, <1>2, <1>5, ToKeeps, FixtureKeeps DEF Compile
<1>6. CASE Assemble
  BY <1>1, <1>2, <1>6, ToKeeps, StopKeeps, FixtureKeeps DEF Assemble
<1>7. CASE Simulate
  <2>1. ASSUME NEW o, gate.stage = "simulate",
               gate' = [gate EXCEPT !.stage = "compare", !.shown[Ordinal] = o]
        PROVE  GateInv'
    <3>1. gate'.stage = "compare" /\ Keeps
      BY <1>1, <2>1, Fields DEF GateInv, ShapeOK, Keeps
    <3>2. QED
      BY <1>1, <2>1, <3>1, FixtureKeeps
  <2>2. QED
    BY <1>2, <1>7, <2>1 DEF Simulate
<1>8. CASE Compare
  BY <1>1, <1>8, CompareKeeps
<1>9. CASE Record
  BY <1>1, <1>9, RecordKeeps
<1>10. CASE Witness
  <2>1. CASE gate.stage = "witness" /\ gate' = [gate EXCEPT !.stage = "provenance", !.mutation = "detected"]
    <3>1. gate'.stage = "provenance" /\ Keeps
      BY <1>1, <2>1, Fields DEF GateInv, ShapeOK, Keeps
    <3>2. QED
      BY <1>1, <2>1, <3>1, AfterKeeps
  <2>2. QED
    BY <1>2, <1>10, <2>1 DEF Witness
<1>11. CASE Provenance
  BY <1>1, <1>2, <1>11, ToKeeps, AfterKeeps DEF Provenance
<1>12. CASE WriteResult \/ WriteCoverage
  BY <1>1, <1>12, ToKeeps, AfterKeeps DEF WriteResult, WriteCoverage
<1>13. CASE UNCHANGED gateVars
  BY <1>1, <1>13 DEF gateVars, GateInv, ShapeOK, AtOK, StartOK, BeforeOK, RecordOK, AfterOK,
     Untouched, Sabotaged
<1>14. QED
  BY <1>1, <1>2, <1>3, <1>4, <1>5, <1>6, <1>7, <1>8, <1>9, <1>10, <1>11, <1>12, <1>13 DEF GateNext

(* With the expected value of a selected fixture replaced the gate cannot  *)
(* pass, for any selection and any corpus that expects t of it, whatever   *)
(* the simulator shows (shared_oracle_parity.py:300-304, 323-336).         *)
THEOREM SabotageFound == GateSpec => []SabotageIsRed
<1>1. GateInv => SabotageIsRed
  <2>1. SUFFICES ASSUME GateInv, gate.use.mutate \in Selected,
                        gate.corpus[gate.use.mutate].expected = "t", gate.stage = "pass"
                 PROVE  FALSE
    BY DEF SabotageIsRed
  <2>2. PICK j \in 1 .. N : SELECTED_ORDINALS[j] = gate.use.mutate
    BY <2>1, NIsPositive DEF Selected
  <2>3. Untouched(N)
    BY <2>1 DEF GateInv, AfterOK
  <2>4. QED
    BY <2>1, <2>2, <2>3 DEF Untouched, Sabotaged
<1>2. QED
  BY <1>1, InitGateInv, NextGateInv, PTL DEF GateSpec
-----------------------------------------------------------------------------
(* What a run of the gate has in its directory.  Of a fixture that passed: *)
(* the value, and an image and a transcript of this run; of the list so    *)
(* far: one record for each, in order.                                     *)
Digest     == [ordinal : Nat, image : Nat, sidecar : Nat, transcript : Nat]
Shown(o)   == /\ gate.shown[o] = "t"
              /\ gate.use.mutate # o => gate.corpus[o].expected = "t"
              /\ out.bin[o] = gate.run /\ out.txt[o] = gate.run
Filed(recs, n) == /\ Len(recs) = n
                    /\ \A j \in 1 .. n : /\ recs[j].ordinal = SELECTED_ORDINALS[j]
                                         /\ recs[j].image = gate.run /\ recs[j].transcript = gate.run
AtFixture  == {"compile", "assemble", "simulate", "compare", "record"}
PastAll    == {"witness", "provenance", "result", "coverage", "pass"}

DirTyped   == /\ gate.run \in Nat /\ gate.records \in Seq(Digest) /\ DOMAIN gate.shown = Selected
              /\ DOMAIN out = {"bin", "sym", "txt", "result", "coverage"}
              /\ out.bin \in [Selected -> Nat] /\ out.sym \in [Selected -> Nat] /\ out.txt \in [Selected -> Nat]
              /\ out.result.run \in 0 .. gate.run /\ out.result.records \in Seq(Digest)
StartClean == gate.stage = "simulator" => gate.records = <<>>
(* A list may name an ordinal twice: its first files are then replaced.    *)
SoFarOK    == gate.stage \in AtFixture =>
                 /\ Filed(gate.records, gate.k - 1)
                 /\ \A j \in 1 .. (gate.k - 1) : SELECTED_ORDINALS[j] # Ordinal => Shown(SELECTED_ORDINALS[j])
AssembledOK == gate.stage \in {"simulate", "compare", "record"} => out.bin[Ordinal] = gate.run
SimulatedOK == gate.stage \in {"compare", "record"} => out.txt[Ordinal] = gate.run
ComparedOK  == gate.stage = "record" => Shown(Ordinal)
AllShown    == \A j \in 1 .. N : Shown(SELECTED_ORDINALS[j])
AllPassedOK == gate.stage \in PastAll => Filed(gate.records, N) /\ AllShown
ResultOK    == gate.run > 0 /\ out.result.run = gate.run =>
                  /\ gate.stage \in {"coverage", "pass", "crash"}
                  /\ Filed(out.result.records, N) /\ AllShown
CoverageOK  == gate.stage = "pass" =>
                  /\ out.coverage.run = gate.run
                  /\ \A o \in Fixtures : out.coverage.status[o] = "confirmed" <=> o \in Selected
DirInv == /\ GateInv /\ DirTyped /\ StartClean /\ SoFarOK /\ AssembledOK /\ SimulatedOK /\ ComparedOK
          /\ AllPassedOK /\ ResultOK /\ CoverageOK

LEMMA ListWords == \A j \in 1 .. N : SELECTED_ORDINALS[j] \in Nat /\ SELECTED_ORDINALS[j] \in Selected
BY NIsPositive, OrdinalsAssumption DEF Selected

LEMMA SelectedOnly == ASSUME NEW o \in Selected PROVE \E j \in 1 .. N : SELECTED_ORDINALS[j] = o
BY NIsPositive DEF Selected

(* What a step leaves alone that the second invariant speaks of.           *)
Still == Keeps /\ gate'.run = gate.run /\ gate'.shown = gate.shown /\ gate'.records = gate.records

LEMMA ToStill ==
  ASSUME GateInv, NEW s, To(s)
  PROVE  gate'.stage = s /\ Still
BY ToKeeps, Fields DEF To, Still, GateInv, ShapeOK

LEMMA OrdinalStays == ASSUME Keeps PROVE Ordinal' = Ordinal
BY DEF Keeps, Ordinal

LEMMA FiledStays ==
  ASSUME gate'.run = gate.run, NEW recs, NEW n
  PROVE  Filed(recs, n) <=> Filed(recs, n)'
BY DEF Filed

LEMMA ShownStays ==
  ASSUME Still, NEW o, out'.bin[o] = out.bin[o], out'.txt[o] = out.txt[o]
  PROVE  Shown(o) <=> Shown(o)'
BY DEF Still, Keeps, Shown

(* A run that ends keeps what it has found, and has no result unless it    *)
(* got as far as to write one.                                             *)
LEMMA StopsClean ==
  ASSUME DirInv, NEW s \in {"red", "crash"}, To(s), UNCHANGED out,
         s = "red" => gate.stage \notin {"coverage", "pass", "crash"}
  PROVE  DirInv'
<1>1. gate'.stage = s /\ Still /\ GateInv'
  BY ToStill, StopKeeps DEF DirInv
<1>2. DirTyped'
  BY <1>1 DEF DirInv, DirTyped, Still
<1>3. ResultOK'
  <2>1. SUFFICES ASSUME gate'.run > 0, out'.result.run = gate'.run
                 PROVE  s = "crash" /\ Filed(out.result.records, N)' /\ AllShown'
    BY <1>1 DEF ResultOK, Filed
  <2>2. gate.stage \in {"coverage", "pass", "crash"} /\ Filed(out.result.records, N) /\ AllShown
    BY <1>1, <2>1 DEF DirInv, ResultOK, Still
  <2>3. \A j \in 1 .. N : Shown(SELECTED_ORDINALS[j])'
    BY <1>1, <2>2, ShownStays DEF AllShown
  <2>4. Filed(out.result.records, N)'
    BY <1>1, <2>2 DEF Filed, Still
  <2>5. QED
    BY <2>2, <2>3, <2>4 DEF AllShown
<1>4. QED
  BY <1>1, <1>2, <1>3 DEF DirInv, StartClean, SoFarOK, AssembledOK, SimulatedOK, ComparedOK, AllPassedOK,
                          CoverageOK, AtFixture, PastAll

(* No result is there before it is written.                                *)
LEMMA NoResultYet ==
  ASSUME DirInv, gate.run > 0, gate.stage \notin {"coverage", "pass", "crash"}
  PROVE  out.result.run # gate.run
BY DEF DirInv, ResultOK

(* The part of the invariant that a step in the middle of a fixture keeps, *)
(* whatever it does to that fixture's own files.                           *)
LEMMA SoFarStays ==
  ASSUME DirInv, Keeps, gate'.run = gate.run, gate'.records = gate.records, gate.stage \in AtFixture,
         \A o : o # Ordinal => /\ gate'.shown[o] = gate.shown[o]
                               /\ out'.bin[o] = out.bin[o] /\ out'.txt[o] = out.txt[o]
  PROVE  SoFarOK'
<1>1. Filed(gate.records, gate.k - 1)'
  <2>1. Filed(gate.records, gate.k - 1)
    BY DEF DirInv, SoFarOK
  <2>2. QED
    BY <2>1 DEF Filed, Keeps
<1>2. \A j \in 1 .. (gate.k - 1) : SELECTED_ORDINALS[j] # Ordinal => Shown(SELECTED_ORDINALS[j])'
  BY DEF DirInv, SoFarOK, Shown, Keeps
<1>3. QED
  BY <1>1, <1>2, OrdinalStays DEF SoFarOK, Keeps

(* The same with no result written and none to write yet.                  *)
LEMMA NoResultStays ==
  ASSUME DirInv, gate'.run = gate.run, out'.result = out.result,
         gate.stage \notin {"coverage", "pass", "crash"}
  PROVE  ResultOK'
BY NoResultYet DEF ResultOK

LEMMA OrdinalSelected ==
  ASSUME GateInv, gate.stage \in AtFixture
  PROVE  gate.k \in 1 .. N /\ Ordinal \in Selected /\ Ordinal \in Nat
BY ListWords DEF GateInv, AtOK, AtFixture, Ordinal

LEMMA CompileDir ==
  ASSUME DirInv, compile_simulator \/ Compile, gate'.stage # "red", GateInv'
  PROVE  DirInv'
<1>1. CASE gate.stage = "simulator" /\ To("compile") /\ UNCHANGED out
  <2>1. gate'.stage = "compile" /\ Still /\ gate.k = 1 /\ gate.records = <<>>
    BY <1>1, ToStill DEF DirInv, GateInv, StartOK, StartClean
  <2>2. SoFarOK'
    <3>1. gate'.k - 1 = 0 /\ gate'.records = <<>> /\ Len(<<>>) = 0
      BY <2>1 DEF Still, Keeps
    <3>2. QED
      BY <3>1 DEF SoFarOK, Filed
  <2>3. DirTyped' /\ ResultOK'
    BY <1>1, <2>1, NoResultStays DEF DirInv, DirTyped, Still
  <2>4. QED
    BY <2>1, <2>2, <2>3 DEF DirInv, StartClean, AssembledOK, SimulatedOK, ComparedOK, AllPassedOK, CoverageOK,
                            PastAll
<1>2. CASE gate.stage = "compile" /\ To("assemble") /\ UNCHANGED out
  <2>1. gate'.stage = "assemble" /\ Still
    BY <1>2, ToStill DEF DirInv
  <2>2. SoFarOK'
    BY <1>2, <2>1, SoFarStays DEF Still, AtFixture
  <2>3. DirTyped' /\ ResultOK'
    BY <1>2, <2>1, NoResultStays DEF DirInv, DirTyped, Still
  <2>4. QED
    BY <2>1, <2>2, <2>3 DEF DirInv, StartClean, AssembledOK, SimulatedOK, ComparedOK, AllPassedOK, CoverageOK,
                            PastAll
<1>3. ASSUME Red PROVE FALSE
  BY <1>3, ToStill DEF Red, DirInv
<1>4. QED
  BY <1>1, <1>2, <1>3 DEF compile_simulator, Compile

(* The image is of this run, or the run is over.                           *)
LEMMA AssembleDir ==
  ASSUME DirInv, Assemble, GateInv'
  PROVE  DirInv'
<1> USE DEF AtFixture
<1>0. gate.stage = "assemble" /\ Ordinal \in Selected
  BY OrdinalSelected DEF DirInv, Assemble
<1>1. CASE Red
  BY <1>0, <1>1, StopsClean DEF Red
<1>2. CASE To("simulate") \/ To("red")
  <2>1. ASSUME NEW image \in Nat, NEW sidecar \in Nat, image = gate.run,
               out' = [out EXCEPT !.bin[Ordinal] = image, !.sym[Ordinal] = sidecar]
        PROVE  DirInv'
    <3>1. gate'.stage \in {"simulate", "red"} /\ Still
      BY <1>2, ToStill DEF DirInv
    <3>2. /\ out'.bin = [out.bin EXCEPT ![Ordinal] = image] /\ out'.sym = [out.sym EXCEPT ![Ordinal] = sidecar]
          /\ out'.txt = out.txt /\ out'.result = out.result /\ DOMAIN out' = DOMAIN out
      BY <2>1 DEF DirInv, DirTyped
    <3>3. DirTyped' /\ out'.bin[Ordinal] = gate.run
      BY <1>0, <2>1, <3>1, <3>2 DEF DirInv, DirTyped, Still
    <3>4. \A o : o # Ordinal => out'.bin[o] = out.bin[o]
      BY <3>2
    <3>5. SoFarOK' /\ ResultOK'
      BY <1>0, <3>1, <3>2, <3>4, SoFarStays, NoResultStays DEF Still
    <3>6. QED
      BY <3>1, <3>3, <3>5, OrdinalStays DEF DirInv, StartClean, AssembledOK, SimulatedOK, ComparedOK, AllPassedOK,
                                            CoverageOK, PastAll, Still
  <2>2. gate.run \in Nat /\ out.sym[Ordinal] \in Nat /\ out.sym \in [Selected -> Nat]
    BY <1>0 DEF DirInv, DirTyped
  <2>3. CASE out' = [out EXCEPT !.bin[Ordinal] = gate.run]
    <3>1. out' = [out EXCEPT !.bin[Ordinal] = gate.run, !.sym[Ordinal] = out.sym[Ordinal]]
      BY <2>2, <2>3, <1>0 DEF DirInv, DirTyped
    <3>2. QED
      BY <2>1, <2>2, <3>1
  <2>4. ASSUME NEW symbols \in BOOLEAN,
               out' = [out EXCEPT !.bin[Ordinal] = gate.run, !.sym[Ordinal] = IF symbols THEN gate.run ELSE @]
        PROVE  DirInv'
    BY <2>1, <2>2, <2>4
  <2>5. CASE Red
    BY <1>1, <2>5
  <2>6. QED
    BY <2>3, <2>4, <2>5 DEF Assemble
<1>3. QED
  BY <1>1, <1>2 DEF Assemble

LEMMA SimulateDir ==
  ASSUME DirInv, Simulate, GateInv'
  PROVE  DirInv'
<1> USE DEF AtFixture
<1>0. gate.stage = "simulate" /\ Ordinal \in Selected
  BY OrdinalSelected DEF DirInv, Simulate
<1>1. CASE Red
  BY <1>0, <1>1, StopsClean DEF Red
<1>2. ASSUME NEW o, gate' = [gate EXCEPT !.stage = "compare", !.shown[Ordinal] = o],
             out' = [out EXCEPT !.txt[Ordinal] = gate.run]
      PROVE  DirInv'
  <2>1. /\ gate'.stage = "compare" /\ Keeps /\ gate'.run = gate.run /\ gate'.records = gate.records
        /\ gate'.shown = [gate.shown EXCEPT ![Ordinal] = o]
    BY <1>2, Fields DEF DirInv, GateInv, ShapeOK, Keeps
  <2>2. /\ out'.txt = [out.txt EXCEPT ![Ordinal] = gate.run]
        /\ out'.bin = out.bin /\ out'.sym = out.sym /\ out'.result = out.result /\ DOMAIN out' = DOMAIN out
    BY <1>2 DEF DirInv, DirTyped
  <2>3. DirTyped' /\ out'.txt[Ordinal] = gate.run
    BY <1>0, <2>1, <2>2 DEF DirInv, DirTyped
  <2>4. \A p : p # Ordinal => gate'.shown[p] = gate.shown[p] /\ out'.txt[p] = out.txt[p]
    BY <2>1, <2>2
  <2>5. SoFarOK' /\ ResultOK'
    BY <1>0, <2>1, <2>2, <2>4, SoFarStays, NoResultStays
  <2>6. out'.bin[Ordinal] = gate.run
    BY <1>0, <2>2 DEF DirInv, AssembledOK
  <2>7. QED
    BY <2>1, <2>3, <2>5, <2>6, OrdinalStays DEF DirInv, StartClean, AssembledOK, SimulatedOK, ComparedOK,
                                                AllPassedOK, CoverageOK, PastAll
<1>3. QED
  BY <1>1, <1>2 DEF Simulate

(* The comparison: a value that was shown is only recognised when it is t. *)
LEMMA CompareDir ==
  ASSUME DirInv, Compare, GateInv'
  PROVE  DirInv'
<1> USE DEF AtFixture
<1>1. CASE Red
  BY <1>1, StopsClean DEF Red, Compare
<1>2. CASE Expected \in decode_semantic_value(gate.shown[Ordinal]) /\ To("record") /\ UNCHANGED out
  <2>1. gate.stage = "compare" /\ gate'.stage = "record" /\ Still
    BY <1>2, ToStill DEF DirInv, Compare
  <2>2. gate.shown[Ordinal] = "t" /\ Expected = "t"
    BY <1>2 DEF decode_semantic_value
  <2>3. Shown(Ordinal)
    BY <2>1, <2>2 DEF Shown, Expected, Fixture, DirInv, AssembledOK, SimulatedOK
  <2>4. Shown(Ordinal)'
    BY <1>2, <2>1, <2>3 DEF Shown, Still, Keeps, Ordinal
  <2>5. DirTyped' /\ SoFarOK' /\ ResultOK'
    BY <1>2, <2>1, SoFarStays, NoResultStays DEF DirInv, DirTyped, Still
  <2>6. QED
    BY <1>2, <2>1, <2>4, <2>5 DEF DirInv, StartClean, AssembledOK, SimulatedOK, ComparedOK, AllPassedOK,
                                  CoverageOK, PastAll, Shown
<1>3. QED
  BY <1>1, <1>2 DEF Compare

(* The record of the fixture that passed.                                  *)
LEMMA RecordFiles ==
  ASSUME DirInv, Record, ~Crash
  PROVE  /\ gate'.records = Append(gate.records, Digests)
         /\ gate'.records \in Seq(Digest)
         /\ Filed(gate.records, gate.k - 1) /\ Filed(gate'.records, gate.k)
<1> USE DEF AtFixture
<1>0. gate.stage = "record" /\ gate.k \in 1 .. N /\ Ordinal \in Selected /\ Ordinal \in Nat
  BY OrdinalSelected DEF DirInv, Record
<1>1. gate'.records = Append(gate.records, Digests)
  BY Fields DEF Record, DirInv, GateInv, ShapeOK
<1>2. gate.records \in Seq(Digest) /\ Digests \in Digest
  BY <1>0 DEF DirInv, DirTyped, Digest, Digests
<1>3. Filed(gate.records, gate.k - 1)
  BY <1>0 DEF DirInv, SoFarOK
<1>4. Digests.ordinal = SELECTED_ORDINALS[gate.k] /\ Digests.image = gate.run /\ Digests.transcript = gate.run
  BY <1>0 DEF Digests, Ordinal, DirInv, ComparedOK, Shown
<1>5. /\ Len(gate'.records) = gate.k
      /\ gate'.records[gate.k] = Digests
      /\ \A j \in 1 .. (gate.k - 1) : gate'.records[j] = gate.records[j]
      /\ gate'.records \in Seq(Digest)
  BY <1>0, <1>1, <1>2, <1>3 DEF Filed
<1>6. \A j \in 1 .. gate.k : j = gate.k \/ j \in 1 .. (gate.k - 1)
  BY <1>0
<1>7. QED
  BY <1>1, <1>3, <1>4, <1>5, <1>6 DEF Filed

LEMMA RecordDir ==
  ASSUME DirInv, Record, GateInv'
  PROVE  DirInv'
<1> USE DEF AtFixture
<1>0. gate.stage = "record" /\ gate.k \in 1 .. N
  BY OrdinalSelected DEF DirInv, Record
<1>1. CASE Crash
  BY <1>1, StopsClean DEF Crash
<1>2. CASE ~Crash
  <2>1. /\ gate'.k = (gate.k % N) + 1 /\ gate'.use = gate.use /\ gate'.corpus = gate.corpus
        /\ gate'.shown = gate.shown /\ gate'.run = gate.run /\ out' = out
        /\ gate'.stage = IF gate.k < N THEN "compile" ELSE IF gate.use.witness THEN "witness" ELSE "provenance"
    BY <1>2, Fields DEF Record, DirInv, GateInv, ShapeOK, N
  <2>2. \A o : Shown(o) => Shown(o)'
    BY <2>1 DEF Shown
  <2>3. \A j \in 1 .. gate.k : Shown(SELECTED_ORDINALS[j])'
    <3>1. Shown(Ordinal) /\ \A j \in 1 .. (gate.k - 1) : SELECTED_ORDINALS[j] # Ordinal => Shown(SELECTED_ORDINALS[j])
      BY <1>0 DEF DirInv, ComparedOK, SoFarOK
    <3>2. \A j \in 1 .. gate.k : SELECTED_ORDINALS[j] = Ordinal \/ j \in 1 .. (gate.k - 1)
      BY <1>0 DEF Ordinal
    <3>3. QED
      BY <2>2, <3>1, <3>2
  <2>4. Filed(gate'.records, gate.k) /\ gate'.records \in Seq(Digest)
    BY <1>2, RecordFiles
  <2>5. DirTyped' /\ ResultOK'
    BY <1>0, <2>1, <2>4, NoResultStays DEF DirInv, DirTyped
  <2>6. CASE gate.k < N
    <3>1. gate'.k = gate.k + 1 /\ gate'.stage = "compile" /\ gate'.k - 1 = gate.k
      BY <1>0, <2>1, <2>6, NIsPositive
    <3>2. SoFarOK'
      BY <2>1, <2>3, <2>4, <3>1 DEF SoFarOK, Filed
    <3>3. QED
      BY <2>5, <3>1, <3>2 DEF DirInv, StartClean, AssembledOK, SimulatedOK, ComparedOK, AllPassedOK, CoverageOK,
                              PastAll
  <2>7. CASE gate.k = N
    <3>1. gate'.stage \in {"witness", "provenance"}
      BY <1>0, <2>1, <2>7, NIsPositive
    <3>2. AllPassedOK'
      BY <2>1, <2>3, <2>4, <2>7 DEF AllPassedOK, AllShown, Filed, N
    <3>3. QED
      BY <2>5, <3>1, <3>2 DEF DirInv, StartClean, SoFarOK, AssembledOK, SimulatedOK, ComparedOK, CoverageOK
  <2>8. QED
    BY <1>0, <2>6, <2>7, NIsPositive
<1>3. QED
  BY <1>1, <1>2

(* After the last fixture nothing changes what has been found.             *)
LEMMA AllPassedStays ==
  ASSUME DirInv, gate.stage \in PastAll, gate'.run = gate.run, gate'.records = gate.records, Keeps,
         gate'.shown = gate.shown, out'.bin = out.bin, out'.txt = out.txt
  PROVE  AllShown' /\ Filed(gate.records, N)'
<1>1. AllShown /\ Filed(gate.records, N)
  BY DEF DirInv, AllPassedOK
<1>2. QED
  BY <1>1 DEF AllShown, Shown, Filed, Keeps, N

LEMMA WitnessDir ==
  ASSUME DirInv, Witness \/ Provenance, GateInv'
  PROVE  DirInv'
<1>0. gate.stage \in {"witness", "provenance"} /\ gate.stage \in PastAll
  BY DEF Witness, Provenance, PastAll
<1>1. CASE Red \/ Crash
  BY <1>0, <1>1, StopsClean DEF Red, Crash
<1>2. CASE ~Red /\ ~Crash
  <2>1. /\ gate'.stage \in {"provenance", "result"} /\ Keeps /\ gate'.run = gate.run
        /\ gate'.records = gate.records /\ gate'.shown = gate.shown /\ out' = out
    BY <1>2, Fields, ToStill DEF Witness, Provenance, DirInv, GateInv, ShapeOK, Keeps, Still
  <2>2. AllShown' /\ Filed(gate.records, N)'
    BY <1>0, <2>1, AllPassedStays
  <2>3. DirTyped' /\ ResultOK'
    BY <1>0, <2>1, NoResultStays DEF DirInv, DirTyped
  <2>4. QED
    BY <2>1, <2>2, <2>3 DEF DirInv, StartClean, SoFarOK, AssembledOK, SimulatedOK, ComparedOK, AllPassedOK,
                            CoverageOK, AtFixture, Filed
<1>3. QED
  BY <1>1, <1>2

LEMMA WriteResultDir ==
  ASSUME DirInv, WriteResult, GateInv'
  PROVE  DirInv'
<1>0. gate.stage = "result" /\ gate.stage \in PastAll
  BY DEF WriteResult, PastAll
<1>1. gate'.stage = "coverage" /\ Still
  BY ToStill DEF WriteResult, DirInv
<1>2. /\ out'.bin = out.bin /\ out'.sym = out.sym /\ out'.txt = out.txt /\ DOMAIN out' = DOMAIN out
      /\ out'.result.run = gate.run /\ out'.result.records = gate.records
  BY DEF WriteResult, DirInv, DirTyped
<1>3. AllShown' /\ Filed(gate.records, N)'
  BY <1>0, <1>1, <1>2, AllPassedStays DEF Still
<1>4. DirTyped'
  BY <1>1, <1>2 DEF DirInv, DirTyped, Still
<1>5. QED
  BY <1>1, <1>2, <1>3, <1>4 DEF DirInv, StartClean, SoFarOK, AssembledOK, SimulatedOK, ComparedOK, AllPassedOK,
                                ResultOK, CoverageOK, AtFixture, Filed, Still

(* Exactly the selected ordinals have a record.                            *)
LEMMA ConfirmedOnes ==
  ASSUME DirInv, Filed(gate.records, N)
  PROVE  Confirmed = Selected
<1>1. gate.records \in Seq(Digest) /\ Len(gate.records) = N
  BY DEF DirInv, DirTyped, Filed
<1>2. DOMAIN gate.records = 1 .. N
  BY <1>1
<1>3. \A j \in 1 .. N : gate.records[j].ordinal = SELECTED_ORDINALS[j]
  BY DEF Filed
<1>4. Confirmed = {SELECTED_ORDINALS[j] : j \in 1 .. N}
  BY <1>2, <1>3 DEF Confirmed
<1>5. QED
  BY <1>4, NIsPositive DEF Selected

LEMMA WriteCoverageDir ==
  ASSUME DirInv, WriteCoverage, GateInv'
  PROVE  DirInv'
<1>0. gate.stage = "coverage" /\ gate.stage \in PastAll
  BY DEF WriteCoverage, PastAll
<1>1. gate'.stage = "pass" /\ Still
  BY ToStill DEF WriteCoverage, DirInv
<1>2. /\ out'.bin = out.bin /\ out'.sym = out.sym /\ out'.txt = out.txt /\ DOMAIN out' = DOMAIN out
      /\ out'.result = out.result
      /\ out'.coverage.run = gate.run
      /\ out'.coverage.status = [o \in Fixtures |-> IF o \in Confirmed THEN "confirmed" ELSE "unsupported"]
  BY DEF WriteCoverage, DirInv, DirTyped
<1>3. AllShown' /\ Filed(gate.records, N)'
  BY <1>0, <1>1, <1>2, AllPassedStays DEF Still
<1>4. Confirmed = Selected
  BY <1>0, ConfirmedOnes DEF DirInv, AllPassedOK
<1>5. CoverageOK'
  BY <1>1, <1>2, <1>4 DEF CoverageOK, Still
<1>6. ResultOK'
  <2>1. SUFFICES ASSUME gate.run > 0, out.result.run = gate.run
                 PROVE  Filed(out.result.records, N)'
    BY <1>1, <1>2, <1>3 DEF ResultOK, Still
  <2>2. Filed(out.result.records, N)
    BY <2>1 DEF DirInv, ResultOK
  <2>3. QED
    BY <1>1, <1>2, <2>2 DEF Filed, Still
<1>7. DirTyped'
  BY <1>1, <1>2 DEF DirInv, DirTyped, Still
<1>8. QED
  BY <1>1, <1>3, <1>5, <1>6, <1>7 DEF DirInv, StartClean, SoFarOK, AssembledOK, SimulatedOK, ComparedOK,
                                      AllPassedOK, AtFixture, Filed, Still

LEMMA BeginDir ==
  ASSUME DirInv, Begin, GateInv'
  PROVE  DirInv'
<1>1. /\ gate'.run = gate.run + 1 /\ gate'.records = <<>> /\ gate'.stage \in {"simulator", "red"}
      /\ DOMAIN gate'.shown = Selected /\ out' = out
  BY DEF Begin, IdleGate
<1>2. gate.run \in Nat /\ out.result.run \in 0 .. gate.run
  BY DEF DirInv, DirTyped
<1>3. DirTyped' /\ ResultOK'
  BY <1>1, <1>2 DEF DirInv, DirTyped, ResultOK
<1>4. QED
  BY <1>1, <1>3 DEF DirInv, StartClean, SoFarOK, AssembledOK, SimulatedOK, ComparedOK, AllPassedOK, CoverageOK,
                    AtFixture, PastAll

LEMMA InitDirInv == GateInit => DirInv
<1>1. SUFFICES ASSUME GateInit PROVE DirInv
  OBVIOUS
<1>2. /\ gate.run = 0 /\ gate.stage = "idle" /\ gate.records = <<>> /\ DOMAIN gate.shown = Selected
      /\ out.result.run = 0 /\ out.result.records = <<>> /\ out.bin = [o \in Selected |-> 0]
      /\ out.sym = [o \in Selected |-> 0] /\ out.txt = [o \in Selected |-> 0] /\ DOMAIN out = {"bin", "sym", "txt", "result", "coverage"}
  BY <1>1 DEF GateInit, IdleGate, EmptyOut, Never
<1>3. QED
  BY <1>1, <1>2, InitGateInv DEF DirInv, DirTyped, StartClean, SoFarOK, AssembledOK, SimulatedOK, ComparedOK,
                    AllPassedOK, ResultOK, CoverageOK, AtFixture, PastAll

LEMMA NextDirInv == DirInv /\ [GateNext]_gateVars => DirInv'
<1>1. SUFFICES ASSUME DirInv, [GateNext]_gateVars PROVE DirInv'
  OBVIOUS
<1>2. GateInv'
  BY <1>1, NextGateInv DEF DirInv
<1>3. CASE Begin
  BY <1>1, <1>2, <1>3, BeginDir
<1>4. CASE compile_simulator \/ Compile
  <2>1. CASE gate'.stage = "red"
    <3>1. Red
      BY <1>1, <1>4, <2>1, ToStill DEF compile_simulator, Compile, DirInv
    <3>2. QED
      BY <1>1, <1>4, <3>1, StopsClean DEF Red, compile_simulator, Compile
  <2>2. QED
    BY <1>1, <1>2, <1>4, <2>1, CompileDir
<1>5. CASE Assemble
  BY <1>1, <1>2, <1>5, AssembleDir
<1>6. CASE Simulate
  BY <1>1, <1>2, <1>6, SimulateDir
<1>7. CASE Compare
  BY <1>1, <1>2, <1>7, CompareDir
<1>8. CASE Record
  BY <1>1, <1>2, <1>8, RecordDir
<1>9. CASE Witness \/ Provenance
  BY <1>1, <1>2, <1>9, WitnessDir
<1>10. CASE WriteResult
  BY <1>1, <1>2, <1>10, WriteResultDir
<1>11. CASE WriteCoverage
  BY <1>1, <1>2, <1>11, WriteCoverageDir
<1>12. CASE Kill
  BY <1>1, <1>12, StopsClean DEF Kill, Crash
<1>13. CASE UNCHANGED gateVars
  <2>1. gate' = gate /\ out' = out
    BY <1>13 DEF gateVars
  <2>2. DirTyped' /\ StartClean'
    BY <1>1, <2>1 DEF DirInv, DirTyped, StartClean
  <2>3. SoFarOK'
    BY <1>1, <2>1 DEF DirInv, SoFarOK, AtFixture, Shown, Filed, Ordinal
  <2>4. AssembledOK' /\ SimulatedOK' /\ ComparedOK'
    BY <1>1, <2>1 DEF DirInv, AssembledOK, SimulatedOK, ComparedOK, Ordinal, Shown
  <2>5. AllPassedOK' /\ ResultOK'
    BY <1>1, <2>1 DEF DirInv, AllPassedOK, AllShown, ResultOK, Filed, Shown
  <2>6. CoverageOK'
    BY <1>1, <2>1 DEF DirInv, CoverageOK, Confirmed
  <2>7. QED
    BY <1>2, <2>2, <2>3, <2>4, <2>5, <2>6 DEF DirInv
<1>14. QED
  BY <1>1, <1>3, <1>4, <1>5, <1>6, <1>7, <1>8, <1>9, <1>10, <1>11, <1>12, <1>13 DEF GateNext

(* A result.json of a run is there only when that run has seen, for every  *)
(* ordinal of any selection, the value the corpus expects, and names the   *)
(* image and transcript of that run, whatever an earlier run left or a     *)
(* kill cut short (shared_oracle_parity.py:244-289, 321-336, 367-431).     *)
THEOREM GateWitnessed == GateSpec => []EvidenceIsWitnessed
<1>1. DirInv => EvidenceIsWitnessed
  <2>1. SUFFICES ASSUME DirInv, gate.run > 0, out.result.run = gate.run
                 PROVE  /\ \A o \in Selected :
                              /\ Shown(o)
                              /\ \E j \in DOMAIN out.result.records :
                                    LET r == out.result.records[j]
                                    IN  r.ordinal = o /\ r.image = gate.run /\ r.transcript = gate.run
                        /\ gate.stage = "pass" => /\ out.coverage.run = gate.run
                                                  /\ \A o \in Fixtures : out.coverage.status[o] = "confirmed"
                                                                         <=> o \in Selected
    BY DEF EvidenceIsWitnessed, Shown
  <2>2. Filed(out.result.records, N) /\ AllShown
    BY <2>1 DEF DirInv, ResultOK
  <2>3. ASSUME NEW o \in Selected
        PROVE  /\ Shown(o)
               /\ \E j \in DOMAIN out.result.records :
                     LET r == out.result.records[j]
                     IN  r.ordinal = o /\ r.image = gate.run /\ r.transcript = gate.run
    <3>1. PICK j \in 1 .. N : SELECTED_ORDINALS[j] = o
      BY SelectedOnly
    <3>2. j \in DOMAIN out.result.records
      BY <2>1, <2>2 DEF Filed, DirInv, DirTyped
    <3>3. QED
      BY <2>2, <3>1, <3>2 DEF Filed, AllShown
  <2>4. QED
    BY <2>1, <2>3 DEF DirInv, CoverageOK
<1>2. QED
  BY <1>1, InitDirInv, NextDirInv, PTL DEF GateSpec
=============================================================================
