---------------------------- MODULE SymbolTable -----------------------------
(***************************************************************************)
(* gen_symbol_table.py reads the names of symbols from the comments of     *)
(* LOADSYM lines, and monitor.py shows a symbol word under the name that   *)
(* the table of the program has for its number.                            *)
(***************************************************************************)
EXTENDS Assembler

CONSTANT Registry         \* the English surfaces of semantic-registry.wsm, by semantic id

(* Hardware symbols and their semantic ids; a registry that lacks one of   *)
(* them is refused.                                                        *)
SPECIAL_FORM_REGISTRY_IDS == {<<50, 1>>, <<80, 7>>}

ASSUME RegistryComplete == \A f \in SPECIAL_FORM_REGISTRY_IDS : f[2] \in DOMAIN Registry

load_special_forms == [id \in {f[1] : f \in SPECIAL_FORM_REGISTRY_IDS} |->
                         Registry[(CHOOSE f \in SPECIAL_FORM_REGISTRY_IDS : f[1] = id)[2]]]

(* What the regular expression finds: a LOADSYM with a number and a name   *)
(* in its comment.                                                         *)
Noted(line)  == /\ HasInstruction(line) /\ line.op = "LOADSYM" /\ line.note # None
                /\ Len(line.args) >= 2 /\ line.args[1].kind = "reg" /\ line.args[2].kind = "num"
IdOf(line)   == line.args[2].v
Notes(lines, id) == {i \in DOMAIN lines : Noted(lines[i]) /\ IdOf(lines[i]) = id}
Ids(lines)   == {IdOf(lines[i]) : i \in {k \in DOMAIN lines : Noted(lines[k])}} \cup DOMAIN load_special_forms

(* The name an id has when the lines before i have been read.              *)
NameBefore(lines, id, i) ==
    LET is == {k \in Notes(lines, id) : k < i}
    IN  IF is # {} THEN lines[CHOOSE k \in is : \A j \in is : j <= k].note
        ELSE IF id \in DOMAIN load_special_forms THEN load_special_forms[id] ELSE None

(* scan_file: the last name wins, and an id that had another is reported.  *)
scan_file(lines) == [id \in Ids(lines) |-> NameBefore(lines, id, Len(lines) + 1)]

(* Faulty: only the special forms are protected.                           *)
FaultyConflicts(lines) ==
    {id \in DOMAIN load_special_forms : \E i \in Notes(lines, id) : lines[i].note # load_special_forms[id]}

Conflicts(lines) ==
    {id \in Ids(lines) : \E i \in Notes(lines, id) : NameBefore(lines, id, i) \notin {None, lines[i].note}}

(* load_symbols and fmt_word: the name a word is shown under, or None.  A  *)
(* program that is in no table is shown without names.                     *)
load_symbols(known, lines)  == IF known THEN scan_file(lines) ELSE <<>>
fmt_word(w, symbols) == IF w.tag = TAG_SYMBOL /\ w.value \in DOMAIN symbols THEN symbols[w.value] ELSE None
=============================================================================
