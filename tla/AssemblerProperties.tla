------------------------ MODULE AssemblerProperties -------------------------
(***************************************************************************)
(* What the passes of assembler.py come to, said of the text as a whole.   *)
(***************************************************************************)
EXTENDS SymbolTable, FiniteSetsExt

Written == {i \in DOMAIN text : HasInstruction(text[i])}

(* The address of a line: the instructions before it.                      *)
Address(i) == Cardinality({j \in Written : j < i})

(* What a name stands for: the last line that gives it a value.            *)
Binds(i, n)  == \/ text[i].is = "define" /\ text[i].name = n
                \/ HasLabel(text[i]) /\ text[i].label = n
Bindings(n)  == {i \in DOMAIN text : Binds(i, n)}
Meaning(n)   == LET i == Max(Bindings(n))
                IN  IF text[i].is = "define" THEN text[i].value ELSE Address(i)
Unbound(o)      == o.kind # "num" /\ ~(o.kind = "name" /\ Bindings(o.v) # {})
ValueOf(o)   == IF o.kind = "num" THEN o.v ELSE Meaning(o.v)

(* The immediate operand of a line.                                        *)
ImmOperands(line) == {line.args[k] : k \in {j \in DOMAIN line.args :
                         /\ j \in DOMAIN Format(line.op, Len(line.args))
                         /\ Format(line.op, Len(line.args))[j] = "imm"}}

WordOfLine(i) == words[Address(i) + 1]

-----------------------------------------------------------------------------
(* No line of an included file is lost or taken twice, however the files   *)
(* include each other (assembler.py:35-57).                                *)
LinesConserved ==
    Len(text) + Len(work) + Cardinality(seen)
        = Len(project.main) + MapThenSumSet(LAMBDA f : Len(project.files[f]), seen)

(* Every branch and every immediate has the value its name stands for in   *)
(* the whole text, forward references, lines with a label only and names   *)
(* given twice included; a name without a value is a symbol with its       *)
(* number (assembler.py:76-147, 219-235).                                  *)
NamesResolve ==
    phase = "done" =>
        /\ Len(words) = Cardinality(Written)
        /\ \A i \in Written : \A o \in ImmOperands(text[i]) :
              WordOfLine(i).imm = (IF Unbound(o) THEN ids[o] ELSE ValueOf(o)) % 65536

(* What a mnemonic says of its word, by the machine and not by the tables  *)
(* of the assembler.  Operands stand in the order rd, rs1, rs2; OUT, RET   *)
(* and JF have no rd, HALT takes all fields or none, and what a line does  *)
(* not give is 0.                                                          *)
InRange(line) == \A k \in DOMAIN line.args : line.args[k].kind = "reg" => line.args[k].v \in Reg
Number(line, k) == IF k <= Len(line.args) THEN line.args[k].v ELSE 0
FullHalt(line)  == line.op = "HALT" /\ Len(line.args) = 4
BareHalt(line)  == line.op = "HALT" /\ Len(line.args) # 4

TwoRegisters(line) ==
    CASE line.op \in {"NOP", "JMP"} \/ BareHalt(line)   -> <<0, 0>>
      [] line.op \in {"LOADI", "LOADSYM", "CALL", "IN"} -> <<Number(line, 1), 0>>
      [] line.op \in {"OUT", "RET", "JF"}               -> <<0, Number(line, 1)>>
      [] OTHER                                          -> <<Number(line, 1), Number(line, 2)>>

(* The modes of MOV: what the machine makes of a word a under mode rs2.    *)
Moved(op, a) == CASE op = "MOV"      -> a
                  [] op = "GETTAG"   -> MkWord(TAG_FIXNUM, a.tag)
                  [] op = "MAKEPRIM" -> MkWord(TAG_PRIMITIVE, a.value)
                  [] op = "GETVAL"   -> MkWord(TAG_FIXNUM, a.value)
Samples == {MkWord(TAG_SYMBOL, 5), MkWord(TAG_CONS, 7)}
Moves   == {"MOV", "GETTAG", "MAKEPRIM", "GETVAL"}
HasThird(line) == line.op \in {"CONS", "ADD", "SUB", "EQ", "ATOM", "SETCDR"} \/ FullHalt(line)
ThirdIsMeant(line, w) ==
    /\ IsSandhi(w) <=> line.op = "SANDHI"
    /\ line.op \in Moves => \A a \in Samples : MovValue(w.rs2, a) = Moved(line.op, a)
    /\ line.op \notin Moves \cup {"SANDHI"} => w.rs2 = IF HasThird(line) THEN Number(line, 3) ELSE 0

(* The form the machine takes the word for, where an opcode has several: a *)
(* link register makes a JMP a CALL, a register to jump to makes it a RET, *)
(* a third register makes an ATOM a SETCDR; nothing else does, no word is  *)
(* FETCH_PAIR, and only a HALT of four operands is the trap.               *)
TakesNumber == {"LOADI", "LOADSYM", "CALL", "JMP", "JF"}
IsRet(w) == w.op = OP_JMP /\ w.rs1 # 0
FormIsMeant(line, w) ==
    /\ IsCall(w)   <=> line.op = "CALL" /\ Number(line, 1) # 0
    /\ IsRet(w)    <=> line.op = "RET" /\ Number(line, 1) # 0
    /\ IsSetCdr(w) <=> line.op \in {"SETCDR", "ATOM"} /\ Number(line, 3) # 0
    /\ IsTrap(w)   => FullHalt(line)
    /\ ~IsFetchPair(w)
    /\ line.op \notin TakesNumber /\ ~FullHalt(line) => w.imm = 0

Says(line, w) == /\ <<w.rd, w.rs1>> = TwoRegisters(line)
                 /\ ThirdIsMeant(line, w)
                 /\ FormIsMeant(line, w)

(* The machine decodes every word as what its mnemonic stands for, modes   *)
(* of one opcode included: each register of the line is in its field, the  *)
(* fields the line does not give are 0, and the word has the form and the  *)
(* mode of MOV, JMP, ATOM or HALT that the mnemonic names                  *)
(* (assembler.py:7-31, 165-235, docs/isa-contract.md:11, control.sv's      *)
(* modes).  It is said of lines whose registers are 0 to 15; parse_reg     *)
(* takes larger numbers, which spill into the field above.  CALL R0,       *)
(* RET R0 and SETCDR with R0 or without a third register are the JMP, the  *)
(* jump to 0 and the ATOM of the same fields.                              *)
MnemonicIsMeant ==
    phase = "done" =>
        \A i \in Written : InRange(text[i]) =>
            WordOfLine(i).op = OPCODES[text[i].op] /\ Says(text[i], WordOfLine(i))

(* When the generator reports no conflict for a number, monitor.py shows   *)
(* the symbol that a noted LOADSYM leaves in a register under the name of  *)
(* the note (gen_symbol_table.py:85-97, monitor.py:25-44).                 *)
ShownNameIsNoted ==
    phase = "done" =>
        \A i \in Written :
            LET line == text[i]
            IN  /\ \E k \in DOMAIN project.main : project.main[k] = line
                /\ Noted(line) /\ IdOf(line) \in Imm
                /\ IdOf(line) \notin Conflicts(project.main)
                => fmt_word(LocalValue(WordOfLine(i), ZeroWord, ZeroWord), load_symbols(TRUE, project.main)) = line.note
=============================================================================
