------------------------------ MODULE MC_Host -------------------------------
(* Two lanes, one of which may try again, and one tool beside the bridge.  *)
(* Job 2 prints while it runs and traps.    Of the requests two are well  *)
(* formed, one with register inputs; the others have a word too many or a  *)
(* register twice.                                                         *)
EXTENDS HostMachine

Request(j, r) == [magic |-> TRUE, version |-> 1, register |-> r, reserved |-> 0, bits |-> 0,
                  extended |-> FALSE, inputs |-> <<>>, words |-> 1, size |-> 4, job |-> j]

Ask(op, q, soft) == [op |-> op, req |-> q, soft |-> soft]
Run(q, soft)     == Ask("execute", q, soft)
Look             == Ask("monitor", Request(2, 9), FALSE)
Others           == {Ask("probe", <<>>, FALSE), Ask("ping", <<>>, FALSE), Ask("?", <<>>, FALSE)}
Malformed        == {Ask("execute", q, FALSE) : q \in
                       {[Request(2, 0) EXCEPT !.size = 8],
                        [Request(2, 0) EXCEPT !.extended = TRUE, !.inputs = <<3, 4>>, !.size = 15],
                        [Request(2, 0) EXCEPT !.extended = TRUE, !.inputs = <<3, 3>>, !.size = 15]}}
Files            == {Ask(t, Request(1, 9), FALSE) : t \in {"monitor.py", "upload.py", "smoke"}}

MCAsked == [p \in {"c1", "c2", "c3", "t"} |->
               CASE p = "c1" -> {Run(Request(1, 9), FALSE)}
                 [] p = "c2" -> {Run(Request(2, 1), TRUE), Run(Request(2, 1), FALSE), Look}
                 [] p = "c3" -> Others \cup {Look}
                 [] OTHER    -> Malformed \cup Files]

Cast(who, n, m) == [started |-> who, presses |-> n, tries |-> m]
MCCasts == {Cast({"c1", "c2"}, 1, 2), Cast({"c3", "t"}, 0, 1), Cast({"t"}, 1, 0)}
MCQuestions == {<<REG, 9>>, <<HEAP, 0>>, <<ERR, 0>>}
=============================================================================
