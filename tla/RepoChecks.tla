----------------------------- MODULE RepoChecks ------------------------------
(***************************************************************************)
(* Two scripts that walk a list of cases and end with an exit code.        *)
(* oracle_crosscheck.py asks the my-lisp oracle and a testbench for the    *)
(* same value; check_stale_refs.py compares the versions that prose claims *)
(* with the version a contract file has.                                   *)
(***************************************************************************)
EXTENDS LispWord, Sequences, FiniteSets

CONSTANTS CASES,          \* shapes: "fixnum", "truthy"
          NoAnswer,       \* None
          Empty,          \* the answer "()"
          Answers,        \* of the oracle: NoAnswer, Empty, numbers, other text
          Observations,   \* of a testbench: NoAnswer, or tag and value
          CHECKS,         \* what check_stale_refs.py looks at: contracts
          Versions,       \* versions that can be read or claimed
          MaxClaims       \* bound: versions claimed of one contract

ASSUME ListsAssumption == CASES \in Seq(STRING) /\ CHECKS \in Seq(STRING)

VARIABLES script,         \* "crosscheck" or "stale_refs"
          case,           \* the case it has come to
          fail,           \* fail, drift_found
          told,           \* history: what it was told in each case
          exit            \* the exit code, or Open

checkVars == <<script, case, fail, told, exit>>

Open == 2

CheckInit == /\ script \in {"crosscheck", "stale_refs"}
             /\ case = 1
             /\ fail = FALSE
             /\ told = <<>>
             /\ exit = Open

ToldOf(t) == told' = Append(told, t) /\ case' = case + 1 /\ UNCHANGED <<script, exit>>

-----------------------------------------------------------------------------
(* oracle_crosscheck.py.                                                   *)
Agree(shape, oracle, hw) ==
    \/ shape = "fixnum" /\ oracle = hw.value
    \/ shape = "truthy" /\ (oracle # Empty <=> hw.tag # TAG_NIL)

(* Faulty: the last case decides.                                          *)
FaultyCrossCheck ==
    /\ script = "crosscheck" /\ exit = Open /\ case <= Len(CASES)
    /\ \E oracle \in Answers, hw \in Observations :
          /\ fail' = (oracle = NoAnswer \/ hw = NoAnswer \/ ~Agree(CASES[case], oracle, hw))
          /\ ToldOf([oracle |-> oracle, hw |-> hw])

CrossCheck ==
    /\ script = "crosscheck" /\ exit = Open /\ case <= Len(CASES)
    /\ \E oracle \in Answers, hw \in Observations :
          /\ fail' = (fail \/ oracle = NoAnswer \/ hw = NoAnswer \/ ~Agree(CASES[case], oracle, hw))
          /\ ToldOf([oracle |-> oracle, hw |-> hw])

(* check_stale_refs.py: a contract that is missing, or has no version that *)
(* can be read, is printed and passed over.                                *)
FindsDrift(live, claims) == live # NoAnswer /\ \E v \in claims : v # live

StaleRefs ==
    /\ script = "stale_refs" /\ case <= Len(CHECKS)
    /\ \E live \in Versions \cup {NoAnswer}, claims \in {s \in SUBSET Versions : Cardinality(s) <= MaxClaims} :
          /\ fail' = (fail \/ FindsDrift(live, claims))
          /\ ToldOf([live |-> live, claims |-> claims])

(* An oracle or a testbench that does not end in time is an exception.     *)
TimedOutCase == /\ script = "crosscheck" /\ exit = Open /\ case <= Len(CASES)
                /\ exit' = 1
                /\ UNCHANGED <<script, case, fail, told>>

LastCase == IF script = "crosscheck" THEN Len(CASES) ELSE Len(CHECKS)
End == /\ exit = Open
       /\ case > LastCase
       /\ exit' = IF fail THEN 1 ELSE 0
       /\ UNCHANGED <<script, case, fail, told>>

CheckNext == CrossCheck \/ TimedOutCase \/ StaleRefs \/ End

CheckSpec == CheckInit /\ [][CheckNext]_checkVars

-----------------------------------------------------------------------------
(* The sides of case i answered and agree; no claim about a contract that  *)
(* could be read differs from it.                                          *)
Green(s, i, t) ==
    IF s = "crosscheck"
    THEN /\ t.oracle # NoAnswer /\ t.hw # NoAnswer
         /\ CASES[i] = "fixnum" => t.hw.value = t.oracle
         /\ CASES[i] = "truthy" => (t.hw.tag = TAG_NIL <=> t.oracle = Empty)
    ELSE t.live # NoAnswer => t.claims \subseteq {t.live}

(* Exit code 0 means that the script came to the end of its list, that in  *)
(* every case of oracle_crosscheck.py both sides answered and the answers  *)
(* agree, and that no prose contradicts a contract that                    *)
(* check_stale_refs.py could read, whatever the order of good and bad      *)
(* cases (oracle_crosscheck.py:73-105, check_stale_refs.py:71-81).  It     *)
(* says nothing of contracts that are missing: that is MissingIsLoud.      *)
NoFalseGreen == exit = 0 => /\ Len(told) = LastCase
                            /\ \A i \in DOMAIN told : Green(script, i, told[i])

-----------------------------------------------------------------------------
(* A statement of the source that the code does not keep.                  *)

(* The head of check_stale_refs.py: exit code 1 also if a contract file    *)
(* the script expects is not found, "loudly, not silently skipped"         *)
(* (check_stale_refs.py:13-16); line 70 passes it over.                    *)
MissingIsLoud ==
    script = "stale_refs" /\ exit = 0 => \A i \in DOMAIN told : told[i].live # NoAnswer
=============================================================================
