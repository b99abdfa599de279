---------------------------- MODULE MC_Toolchain ----------------------------
(* The programs that make and compare images, one of them in a behaviour.  *)
(* The assembler is given every main file of at most three lines out of    *)
(* the lines below, beside four include files: two that share a third, one *)
(* that includes itself.  The parity gate is given the corpus as it is,    *)
(* one whose digest is wrong, one with a record too few, one that expects  *)
(* the empty list and one that expects an error.                           *)
EXTENDS AssemblerProperties, OracleGate, RepoChecks

I1(op, args)     == Line(None, op, args)
Sym(r, n, note)  == [I1("LOADSYM", <<R(r), Num(n)>>) EXCEPT !.note = note]

Lines == {Blank, Include("a"), Include("b"), Include("loop"), Include("missing"),
          Define("K", 65537), Define("L", 7), Line("L", None, <<>>), Line("L", "JMP", <<Name("L")>>),
          I1("CALL", <<R(1), Name("K")>>), I1("JF", <<R(2), Name("L")>>),
          I1("LOADSYM", <<R(1), Name("FOO")>>), I1("LOADSYM", <<R(2), Name("L")>>), I1("LOADSYM", <<R(2), Name("BAZ")>>),
          Sym(3, 5, "five"), Sym(4, 5, "cinq"), Sym(5, 50, "five"),
          I1("MOV", <<R(16), R(2)>>), I1("RET", <<R(1)>>), I1("BAD", <<>>)}

Shared == <<Line("S", None, <<>>), I1("LOADSYM", <<R(6), Name("BAR")>>)>>
Modes  == <<I1("GETTAG", <<R(1), R(2)>>), I1("MAKEPRIM", <<R(3), R(4)>>), I1("GETVAL", <<R(5), R(6)>>),
            I1("CONS", <<R(1), R(2), R(3)>>), I1("ATOM", <<R(4), R(5)>>), I1("OUT", <<R(2)>>), I1("IN", <<R(3)>>),
            I1("HALT", <<R(0), R(0), R(1), Num(0)>>), I1("HALT", <<>>)>>
Files  == [a |-> <<Include("c"), I1("LOADI", <<R(7), Num(0 - 1)>>)>>,
           b |-> <<Line("B", "SANDHI", <<R(1), R(2)>>), Include("c"), I1("SETCDR", <<R(1), R(2), R(3)>>)>> \o Modes,
           c |-> Shared,
           loop |-> <<I1("HALT", <<>>), Include("loop")>>]

MCProjects == {[main |-> m, files |-> Files, old |-> [bin |-> <<>>, sym |-> <<>>]] :
                  m \in UNION {[1 .. n -> Lines] : n \in 0 .. 3}}
MCRegistry == [id \in {1, 7} |-> IF id = 1 THEN "quote" ELSE "cond"]

-----------------------------------------------------------------------------
Of(value)      == [expected |-> value, error |-> FALSE]
Fails          == [expected |-> NoValue, error |-> TRUE]
Corpus(a, b)   == [o \in 1 .. 17 |-> CASE o = 2 -> a [] o = 3 -> b [] o = 10 -> Fails [] OTHER -> Of("(a b)")]
Pinned(fs)     == [pinned |-> TRUE, fixtures |-> fs]
MCCorpora      == {Pinned(Corpus(Of("t"), Of("t"))), Pinned(SubSeq(Corpus(Of("t"), Of("t")), 1, 16)),
                   Pinned(Corpus(Of("()"), Of("t"))), Pinned(Corpus(Of("t"), Fails)),
                   [pinned |-> FALSE, fixtures |-> Corpus(Of("t"), Of("t"))]}
MCUses         == {[witness |-> w, mutate |-> o] : w \in BOOLEAN, o \in {0, 2, 3}}
MCOrdinals     == <<2, 3>>

CONSTANT Text             \* an answer that is neither a number nor ()
MCCases        == <<"fixnum", "fixnum", "truthy">>
MCAnswers      == {NoAnswer, Empty, Text, 2, 3}
MCObservations == {NoAnswer} \cup [tag : {TAG_FIXNUM, TAG_NIL, TAG_SYMBOL}, value : {2, 3}]
MCChecks       == <<"isa-contract.my", "../my-lisp/language-contract.my">>

VARIABLE tool

Nothing  == [main |-> <<>>, files |-> Files, old |-> [bin |-> <<>>, sym |-> <<>>]]
ToolInit == /\ tool \in {"assembler", "parity gate", "checks"}
            /\ Init /\ (tool # "assembler" => project = Nothing)
            /\ GateInit
            /\ CheckInit /\ (tool # "checks" => script = "stale_refs")
ToolNext == \/ tool = "assembler" /\ Next /\ UNCHANGED <<tool, gateVars, checkVars>>
            \/ tool = "parity gate" /\ GateNext /\ UNCHANGED <<tool, vars, checkVars>>
            \/ tool = "checks" /\ CheckNext /\ UNCHANGED <<tool, vars, gateVars>>
ToolSpec == ToolInit /\ [][ToolNext]_<<tool, vars, gateVars, checkVars>>
                     /\ WF_vars(tool = "assembler" /\ Next)

(* Every program that is assembled is assembled or refused in the end,     *)
(* files that include each other in a circle not excepted                  *)
(* (assembler.py:48-51).                                                   *)
EveryAssemblyEnds == tool = "assembler" => AssemblyEnds
=============================================================================
