----------------------------- MODULE OracleGate ------------------------------
(***************************************************************************)
(* tools/shared_oracle_parity.py: two fixtures of a pinned corpus are      *)
(* compiled by CML, assembled, run in the RTL simulator and compared with  *)
(* the value the corpus expects, and the evidence is written to a          *)
(* directory that earlier runs may have used.  Every external program may  *)
(* fail, and the script may be killed between any two steps.  The content  *)
(* of a file is the number of the run that wrote it.                       *)
(***************************************************************************)
EXTENDS Naturals, Sequences, FiniteSets

CONSTANTS Corpora,        \* what git shows: pinned (its digest), fixtures: expected or error of each
          CorpusSize,     \* 17
          SELECTED_ORDINALS,
          Uses,           \* command lines: witness, mutate (an ordinal, or 0)
          MaxRuns         \* bound: runs with the same directory

ASSUME OrdinalsAssumption == SELECTED_ORDINALS \in Seq(Nat) \ {<<>>}

VARIABLES gate,           \* the script
          out             \* the directory

gateVars == <<gate, out>>

Never    == 0             \* a file that is not there
NoValue  == "none"
Selected == {SELECTED_ORDINALS[k] : k \in DOMAIN SELECTED_ORDINALS}
Fixtures == 1 .. CorpusSize

IdleGate == [stage |-> "idle", run |-> 0, corpus |-> <<>>, use |-> [witness |-> FALSE, mutate |-> 0], k |-> 1,
             shown |-> [o \in Selected |-> NoValue],     \* what the simulator showed in this run
             records |-> <<>>, mutation |-> "not-requested"]
EmptyOut == [bin |-> [o \in Selected |-> Never], sym |-> [o \in Selected |-> Never], txt |-> [o \in Selected |-> Never],
             result |-> [run |-> Never, records |-> <<>>, mutation |-> "not-requested"],
             coverage |-> [run |-> Never, status |-> <<>>]]

GateInit == gate = IdleGate /\ out = EmptyOut

Ordinal == SELECTED_ORDINALS[gate.k]
Fixture == gate.corpus[Ordinal]
Running == gate.stage \notin {"idle", "pass", "red", "crash"}

To(stage) == gate' = [gate EXCEPT !.stage = stage]
(* GateFailure, an exception nobody catches, or the end of the process.    *)
Red   == To("red") /\ UNCHANGED out
Crash == To("crash") /\ UNCHANGED out

-----------------------------------------------------------------------------
(* The pin, the digest and the records of the corpus.                      *)
Wellformed(c) == /\ c.pinned
                 /\ Len(c.fixtures) = CorpusSize
                 /\ \A o \in DOMAIN c.fixtures : c.fixtures[o].error # (c.fixtures[o].expected # NoValue)
Begin == /\ ~Running
         /\ gate.run < MaxRuns
         /\ \E c \in Corpora, u \in Uses :
               gate' = [IdleGate EXCEPT !.stage = IF Wellformed(c) THEN "simulator" ELSE "red",
                                        !.run = gate.run + 1, !.corpus = c.fixtures, !.use = u]
         /\ UNCHANGED out

compile_simulator == /\ gate.stage = "simulator"
                     /\ \/ To("compile") /\ UNCHANGED out
                        \/ Red

(* run_fixture.                                                            *)
Compile == /\ gate.stage = "compile"
           /\ \/ ~Fixture.error /\ To("assemble") /\ UNCHANGED out
              \/ Red

(* The .sym file is only written when there are symbols; an assembler that *)
(* fails on a word has cut the old image short.                            *)
Assemble == /\ gate.stage = "assemble"
            /\ \/ /\ To("simulate")
                  /\ \E symbols \in BOOLEAN :
                        out' = [out EXCEPT !.bin[Ordinal] = gate.run, !.sym[Ordinal] = IF symbols THEN gate.run ELSE @]
               \/ To("red") /\ out' = [out EXCEPT !.bin[Ordinal] = gate.run]
               \/ Red

Simulate == /\ gate.stage = "simulate"
            /\ \/ \E o \in {"t", "other", "incomplete"} :
                     /\ gate' = [gate EXCEPT !.stage = "compare", !.shown[Ordinal] = o]
                     /\ out' = [out EXCEPT !.txt[Ordinal] = gate.run]
               \/ Red

(* A value the simulation showed is recognised only if it is t.            *)
decode_semantic_value(shown) == IF shown = "t" THEN {"t"} ELSE {}

Mutated(expected) == IF expected # "()" THEN "()" ELSE "t"

(* Faulty: the mutation is asked for by position, not by ordinal.          *)
FaultyExpected == IF gate.use.mutate = gate.k THEN Mutated(Fixture.expected) ELSE Fixture.expected
Expected       == IF gate.use.mutate = Ordinal THEN Mutated(Fixture.expected) ELSE Fixture.expected

(* Faulty: a transcript without a result passes.                           *)
FaultyCompare == /\ gate.stage = "compare"
                 /\ IF gate.shown[Ordinal] = "incomplete" \/ Expected \in decode_semantic_value(gate.shown[Ordinal])
                    THEN To("record") /\ UNCHANGED out
                    ELSE Red

Compare == /\ gate.stage = "compare"
           /\ IF Expected \in decode_semantic_value(gate.shown[Ordinal])
              THEN To("record") /\ UNCHANGED out
              ELSE Red

(* The digests are taken of what lies in the directory.                    *)
Digests == [ordinal |-> Ordinal, image |-> out.bin[Ordinal], sidecar |-> out.sym[Ordinal],
            transcript |-> out.txt[Ordinal]]
Record == /\ gate.stage = "record"
          /\ IF out.sym[Ordinal] = Never
             THEN Crash
             ELSE /\ gate' = [gate EXCEPT !.records = Append(@, Digests), !.k = (@ % Len(SELECTED_ORDINALS)) + 1,
                                          !.stage = IF gate.k < Len(SELECTED_ORDINALS) THEN "compile"
                                                    ELSE IF gate.use.witness THEN "witness" ELSE "provenance"]
                  /\ UNCHANGED out

(* The negative witness runs the first fixture again in a directory of its *)
(* own, against a mutated value: that it passes is a failure, any other    *)
(* GateFailure counts as a detection.                                      *)
Witness == /\ gate.stage = "witness"
           /\ \/ /\ gate' = [gate EXCEPT !.stage = "provenance", !.mutation = "detected"]
                 /\ UNCHANGED out
              \/ Mutated(Fixture.expected) = "t" /\ Red

(* The revisions and digests of all sources; one that is missing is an     *)
(* exception of its own.                                                   *)
Provenance == /\ gate.stage = "provenance"
              /\ \/ To("result") /\ UNCHANGED out
                 \/ Red
                 \/ Crash

WriteResult == /\ gate.stage = "result"
               /\ To("coverage")
               /\ out' = [out EXCEPT !.result = [run |-> gate.run, records |-> gate.records,
                                                 mutation |-> gate.mutation]]

Confirmed == {gate.records[j].ordinal : j \in DOMAIN gate.records}
WriteCoverage ==
    /\ gate.stage = "coverage"
    /\ To("pass")
    /\ out' = [out EXCEPT !.coverage =
                  [run |-> gate.run,
                   status |-> [o \in Fixtures |-> IF o \in Confirmed THEN "confirmed" ELSE "unsupported"]]]

Kill == Running /\ Crash

GateNext == \/ Begin \/ compile_simulator \/ Compile \/ Assemble \/ Simulate \/ Compare \/ Record
            \/ Witness \/ Provenance \/ WriteResult \/ WriteCoverage \/ Kill

GateSpec == GateInit /\ [][GateNext]_gateVars

-----------------------------------------------------------------------------
(* A result.json of this run exists only if in this run the simulator      *)
(* showed, for every selected fixture whose value was not replaced, the    *)
(* value the corpus expects, and its records are of the image and the      *)
(* transcript of this run that lie beside it, whatever earlier runs left;  *)
(* and a run that passes has confirmed exactly the selected ordinals       *)
(* (shared_oracle_parity.py:244-289, 321-336, 367-431).                    *)
EvidenceIsWitnessed ==
    gate.run > 0 /\ out.result.run = gate.run =>
        /\ \A o \in Selected :
              /\ gate.shown[o] = "t"
              /\ gate.use.mutate # o => gate.corpus[o].expected = "t"
              /\ \E j \in DOMAIN out.result.records :
                    LET r == out.result.records[j]
                    IN  r.ordinal = o /\ r.image = gate.run /\ r.transcript = gate.run
              /\ out.bin[o] = gate.run /\ out.txt[o] = gate.run
        /\ gate.stage = "pass" => /\ out.coverage.run = gate.run
                                  /\ \A o \in Fixtures : out.coverage.status[o] = "confirmed" <=> o \in Selected

(* The option that replaces the expected value of a selected fixture makes *)
(* the gate fail, as its help says, where the value is one the decoder     *)
(* knows (shared_oracle_parity.py:300-304, 323-336).                       *)
SabotageIsRed ==
    /\ gate.use.mutate \in Selected
    /\ gate.corpus # <<>> /\ gate.use.mutate \in DOMAIN gate.corpus /\ gate.corpus[gate.use.mutate].expected = "t"
    => gate.stage # "pass"
=============================================================================
