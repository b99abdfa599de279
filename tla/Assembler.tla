----------------------------- MODULE Assembler ------------------------------
(***************************************************************************)
(* assembler.py: .include lines are replaced by the lines of their files,  *)
(* the first pass gives every label the address of the instruction that    *)
(* follows it, symbolic operands of LOADSYM are numbered, the second pass  *)
(* makes the instruction words, and the words and the numbered symbols are *)
(* written.  One step is one line.  A line is what the regular expressions *)
(* make of it: blank, an .include, a .define, or a label and an            *)
(* instruction, each of which may be missing.                              *)
(***************************************************************************)
EXTENDS Instruction, Sequences, FiniteSets

CONSTANTS Projects,       \* main: lines; files: what .include finds; old: what is on the disk
          SYMBOL_BASE_ID, \* 900
          MaxId           \* the last symbol number (65535)

ASSUME SymbolAssumption == SYMBOL_BASE_ID \in Nat /\ MaxId \in Nat

VARIABLES phase,          \* "expand", "pass1", "intern", "pass2", "write", "done" or "failed"
          project,        \* what is assembled
          work, seen,     \* expand_includes: the lines still to be read, the files included
          text,           \* its result
          at,             \* the line a pass has come to
          labels,         \* names and their values
          code,           \* the instructions of the first pass
          ids, next_id,   \* the symbols numbered so far
          words,          \* machine_code
          disk            \* the output file and the .sym file beside it

vars == <<phase, project, work, seen, text, at, labels, code, ids, next_id, words, disk>>

None   == "none"
Blank               == [is |-> "blank"]
Include(f)          == [is |-> "include", file |-> f]
Define(n, v)        == [is |-> "define", name |-> n, value |-> v]
Line(l, op, args)   == [is |-> "code", label |-> l, op |-> op, args |-> args, note |-> None]

R(n)    == [kind |-> "reg", v |-> n]
Num(n)  == [kind |-> "num", v |-> n]
Name(n) == [kind |-> "name", v |-> n]

(* The lines of a program and of its files, and what the regular           *)
(* expressions leave of an instruction: a list of operands, each a         *)
(* register, a number or a name.                                           *)
LinesOf(p)   == UNION {{s[k] : k \in DOMAIN s} : s \in {p.main} \cup {p.files[f] : f \in DOMAIN p.files}}
IsOperand(a) == a \in {R(a.v), Num(a.v), Name(a.v)}
IsLine(line) ==
    line.is = "code" =>
        /\ line = [is |-> "code", label |-> line.label, op |-> line.op, args |-> line.args, note |-> line.note]
        /\ line.args \in Seq({line.args[k] : k \in DOMAIN line.args})
        /\ \A k \in DOMAIN line.args : IsOperand(line.args[k])

ASSUME ProjectsAssumption ==
    \A p \in Projects : /\ p.main \in Seq(LinesOf(p))
                        /\ \A f \in DOMAIN p.files : p.files[f] \in Seq(LinesOf(p))
                        /\ \A line \in LinesOf(p) : IsLine(line)

HasInstruction(line) == line.is = "code" /\ line.op # None
HasLabel(line)       == line.is = "code" /\ line.label # None

(* The mnemonics; some share an opcode and differ in a mode.               *)
Mnemonics == {<<"NOP", OP_NOP>>, <<"LOADI", OP_LOADI>>, <<"MOV", OP_MOV>>, <<"GETTAG", OP_MOV>>,
    <<"MAKEPRIM", OP_MOV>>, <<"GETVAL", OP_MOV>>, <<"SANDHI", OP_MOV>>, <<"CONS", OP_CONS>>,
    <<"CAR", OP_CAR>>, <<"CDR", OP_CDR>>, <<"ATOM", OP_ATOM>>, <<"SETCDR", OP_ATOM>>, <<"EQ", OP_EQ>>,
    <<"JMP", OP_JMP>>, <<"CALL", OP_JMP>>, <<"RET", OP_JMP>>, <<"LOADSYM", OP_LOADSYM>>, <<"JF", OP_JF>>,
    <<"HALT", OP_HALT>>, <<"OUT", OP_OUT>>, <<"ADD", OP_ADD>>, <<"SUB", OP_SUB>>, <<"IN", OP_IN>>}
OPCODES   == [op \in {m[1] : m \in Mnemonics} |-> (CHOOSE m \in Mnemonics : m[1] = op)[2]]

(* Faulty: GETVAL with the mode of MAKEPRIM.                               *)
FaultyMode(op) == CASE op = "GETTAG" -> 1 [] op \in {"MAKEPRIM", "GETVAL"} -> 2
                    [] op = "SANDHI" -> 7 [] OTHER -> 0

(* The rs2 by which some mnemonics choose a mode of MOV.                   *)
Mode(op) == CASE op = "GETTAG" -> 1 [] op = "MAKEPRIM" -> 2 [] op = "GETVAL" -> 3
              [] op = "SANDHI" -> 7 [] OTHER -> 0

(* The fields the operands of a mnemonic go to; HALT takes none or four,   *)
(* and the third register of CONS and its like may be missing.             *)
Format(op, n) ==
    CASE op = "NOP"                                 -> <<>>
      [] op = "HALT"                                -> IF n = 4 THEN <<"rd", "rs1", "rs2", "imm">> ELSE <<>>
      [] op \in {"LOADI", "LOADSYM", "CALL"}        -> <<"rd", "imm">>
      [] op \in {"MOV", "CAR", "CDR", "GETTAG", "MAKEPRIM", "GETVAL", "SANDHI"} -> <<"rd", "rs1">>
      [] op \in {"CONS", "ADD", "SUB", "EQ", "ATOM", "SETCDR"} ->
             IF n < 3 THEN <<"rd", "rs1">> ELSE <<"rd", "rs1", "rs2">>
      [] op = "IN"                                  -> <<"rd">>
      [] op \in {"OUT", "RET"}                      -> <<"rs1">>
      [] op = "JMP"                                 -> <<"imm">>
      [] op = "JF"                                  -> <<"rs1", "imm">>

(* parse_imm, where it does not raise, and parse_reg, which takes any      *)
(* number.                                                                 *)
IsImm(a)     == a.kind = "num" \/ a \in DOMAIN labels
parse_imm(a) == IF a \in DOMAIN labels THEN labels[a] ELSE a.v
IsReg(a)     == a.kind = "reg"

(* Registers are shifted and or-ed into the word unmasked: bit 4 of one    *)
(* (bound: they are below 32) is the lowest bit of the field above.        *)
OrLow(a, b) == IF b = 1 /\ a % 2 = 0 THEN a + 1 ELSE a
Above(r)    == r \div 16
Pack(op, rd, rs1, rs2, imm) ==
    LET high == OrLow(rd % 16, Above(rs1))
    IN  I(OrLow(op, Above(rd)), high, OrLow(rs1 % 16, Above(rs2)), rs2 % 16, imm % 65536)

Parses(op, args) ==
    LET f == Format(op, Len(args))
    IN  /\ Len(args) >= Len(f)
        /\ \A k \in DOMAIN f : IF f[k] = "imm" THEN IsImm(args[k]) ELSE IsReg(args[k])

(* The operand that goes to a field, 0 if there is none.                   *)
Field(op, args, name) ==
    LET f  == Format(op, Len(args))
        ks == {k \in DOMAIN f : f[k] = name}
    IN  IF ks = {} THEN 0
        ELSE LET a == args[CHOOSE k \in ks : TRUE]
             IN  IF name = "imm" THEN parse_imm(a) ELSE a.v

Encode(op, args) ==
    LET rs2 == IF Mode(op) # 0 THEN Mode(op) ELSE Field(op, args, "rs2")
    IN  Pack(OPCODES[op], Field(op, args, "rd"), Field(op, args, "rs1"), rs2, Field(op, args, "imm"))

-----------------------------------------------------------------------------
Init == /\ project \in Projects
        /\ phase = "expand"
        /\ work = project.main
        /\ seen = {} /\ text = <<>> /\ at = 1
        /\ labels = <<>> /\ code = <<>>
        /\ ids = <<>> /\ next_id = SYMBOL_BASE_ID
        /\ words = <<>>
        /\ disk = project.old

(* sys.exit(1), or an exception nobody catches: nothing more is written.   *)
Exit == phase' = "failed" /\ UNCHANGED <<project, work, seen, text, at, labels, code, ids, next_id, words, disk>>

(* Faulty: a file may be included again.                                   *)
FaultyReadInclude ==
    /\ phase = "expand" /\ work # <<>>
    /\ LET line == Head(work)
       IN  /\ line.is = "include"
           /\ line.file \in DOMAIN project.files
           /\ work' = project.files[line.file] \o Tail(work)
           /\ seen' = seen \cup {line.file}
    /\ UNCHANGED <<phase, project, text, at, labels, code, ids, next_id, words, disk>>

ReadInclude ==
    /\ phase = "expand" /\ work # <<>>
    /\ LET line == Head(work)
       IN  /\ line.is = "include"
           /\ IF line.file \in seen \/ line.file \notin DOMAIN project.files
              THEN Exit
              ELSE /\ work' = project.files[line.file] \o Tail(work)
                   /\ seen' = seen \cup {line.file}
                   /\ UNCHANGED <<phase, project, text, at, labels, code, ids, next_id, words, disk>>

ReadLine == /\ phase = "expand" /\ work # <<>>
            /\ Head(work).is # "include"
            /\ text' = Append(text, Head(work))
            /\ work' = Tail(work)
            /\ UNCHANGED <<phase, project, seen, at, labels, code, ids, next_id, words, disk>>

EndExpand == /\ phase = "expand" /\ work = <<>>
             /\ phase' = "pass1"
             /\ UNCHANGED <<project, work, seen, text, at, labels, code, ids, next_id, words, disk>>

-----------------------------------------------------------------------------
(* The first pass.                                                         *)
Bind(n, v) == [o \in DOMAIN labels \cup {Name(n)} |-> IF o = Name(n) THEN v ELSE labels[o]]

(* Faulty: an address is a line number.                                    *)
FaultyPass1 ==
    /\ phase = "pass1" /\ at <= Len(text)
    /\ LET line == text[at]
       IN  /\ labels' = CASE line.is = "define" -> Bind(line.name, line.value)
                          [] HasLabel(line)     -> Bind(line.label, at - 1)
                          [] OTHER              -> labels
           /\ code' = IF HasInstruction(line) THEN Append(code, line) ELSE code
    /\ at' = at + 1
    /\ UNCHANGED <<phase, project, work, seen, text, ids, next_id, words, disk>>

(* Faulty: a line without an instruction is looked at again.               *)
FaultySkip ==
    /\ phase = "pass1" /\ at <= Len(text)
    /\ LET line == text[at]
       IN  /\ labels' = CASE line.is = "define" -> Bind(line.name, line.value)
                          [] HasLabel(line)     -> Bind(line.label, Len(code))
                          [] OTHER              -> labels
           /\ code' = IF HasInstruction(line) THEN Append(code, line) ELSE code
           /\ at' = IF HasInstruction(line) THEN at + 1 ELSE at
    /\ UNCHANGED <<phase, project, work, seen, text, ids, next_id, words, disk>>

Pass1 ==
    /\ phase = "pass1" /\ at <= Len(text)
    /\ LET line == text[at]
       IN  /\ labels' = CASE line.is = "define" -> Bind(line.name, line.value)
                          [] HasLabel(line)     -> Bind(line.label, Len(code))
                          [] OTHER              -> labels
           /\ code' = IF HasInstruction(line) THEN Append(code, line) ELSE code
    /\ at' = at + 1
    /\ UNCHANGED <<phase, project, work, seen, text, ids, next_id, words, disk>>

EndPass1 == /\ phase = "pass1" /\ at > Len(text)
            /\ phase' = "intern" /\ at' = 1
            /\ UNCHANGED <<project, work, seen, text, labels, code, ids, next_id, words, disk>>

-----------------------------------------------------------------------------
(* _intern_loadsym_operands: an operand that is neither a name with a      *)
(* value nor a number gets the next symbol number the first time.          *)
Symbolic(line) == line.op = "LOADSYM" /\ Len(line.args) >= 2 /\ ~IsImm(line.args[2])

Numbered(o) == [p \in DOMAIN ids \cup {o} |-> IF p = o THEN next_id ELSE ids[p]]

(* Faulty: one number too many.                                            *)
FaultyTableFull == next_id > MaxId + 1
TableFull       == next_id > MaxId

Intern ==
    /\ phase = "intern" /\ at <= Len(code)
    /\ LET line == code[at]
           new  == line.args[2] \notin DOMAIN ids
       IN  IF ~Symbolic(line)
           THEN UNCHANGED <<phase, code, ids, next_id>> /\ at' = at + 1
           ELSE IF new /\ TableFull
           THEN phase' = "failed" /\ UNCHANGED <<at, code, ids, next_id>>
           ELSE /\ ids' = IF new THEN Numbered(line.args[2]) ELSE ids
                /\ next_id' = IF new THEN next_id + 1 ELSE next_id
                /\ code' = [code EXCEPT ![at].args = <<line.args[1], Num(ids'[line.args[2]])>>]
                /\ at' = at + 1
                /\ UNCHANGED phase
    /\ UNCHANGED <<project, work, seen, text, labels, words, disk>>

EndIntern == /\ phase = "intern" /\ at > Len(code)
             /\ phase' = "pass2" /\ at' = 1
             /\ UNCHANGED <<project, work, seen, text, labels, code, ids, next_id, words, disk>>

-----------------------------------------------------------------------------
(* The second pass: an unknown mnemonic and an operand that does not parse *)
(* end the program.                                                        *)
Pass2 ==
    /\ phase = "pass2" /\ at <= Len(code)
    /\ LET line == code[at]
       IN  IF line.op \notin DOMAIN OPCODES \/ ~Parses(line.op, line.args)
           THEN Exit
           ELSE /\ words' = Append(words, Encode(line.op, line.args))
                /\ at' = at + 1
                /\ UNCHANGED <<phase, project, work, seen, text, labels, code, ids, next_id, disk>>

EndPass2 == /\ phase = "pass2" /\ at > Len(code)
            /\ phase' = "write"
            /\ UNCHANGED <<project, work, seen, text, at, labels, code, ids, next_id, words, disk>>

(* main: the words, and the symbols if there are any.                      *)
Write == /\ phase = "write"
         /\ disk' = [bin |-> words, sym |-> IF DOMAIN ids = {} THEN disk.sym ELSE ids]
         /\ phase' = "done"
         /\ UNCHANGED <<project, work, seen, text, at, labels, code, ids, next_id, words>>

Next == \/ ReadInclude \/ ReadLine \/ EndExpand \/ Pass1 \/ EndPass1
        \/ Intern \/ EndIntern \/ Pass2 \/ EndPass2 \/ Write
Spec == Init /\ [][Next]_vars /\ WF_vars(Next)

-----------------------------------------------------------------------------

(* Two symbols never share a number, and no number is too large for an     *)
(* instruction (assembler.py:76-95).                                       *)
SymbolsApart == /\ \A o, p \in DOMAIN ids : ids[o] = ids[p] => o = p
                /\ \A o \in DOMAIN ids : ids[o] \in SYMBOL_BASE_ID .. MaxId

(* Every program is assembled or refused, files that include each other    *)
(* in a circle not excepted (assembler.py:48-51).                          *)
AssemblyEnds == <>(phase \in {"done", "failed"})
=============================================================================
