----------------------------- MODULE ConsStore ------------------------------
(***************************************************************************)
(* What the Lisp data unit promises to the rest of the machine, with the   *)
(* clocked pipeline, the registered write port and the block-RAM latency   *)
(* taken out: a store of pairs handed out in order, in which a pair exists *)
(* from the step that answers its CONS, a read answers with what the pair  *)
(* holds when the answer is given, and every request gets one answer.      *)
(***************************************************************************)
EXTENDS LispWord

CONSTANTS HeapCells,      \* number of pairs in the store
          OperandA,       \* the words a caller may pass first
          OperandB        \* ... and second

VARIABLES mem,            \* mem[i] = the pair in cell i
          used,           \* cells 0 .. used-1 are allocated
          ask,            \* the read that has not been answered
          answer          \* the answer given by the last step, if any

vars == <<mem, used, ask, answer>>

Addr     == 0 .. (HeapCells - 1)
Pair     == [car : Word, cdr : Word]
Kind     == {"car", "cdr", "pair", "peek"}
NoAsk    == [kind |-> "none", addr |-> 0]

AddrOf(w) == w.value % HeapCells

(* An answer with this status and first word; the second word is only      *)
(* promised by the requests that return a pair.                            *)
Answers(status, first) ==
    answer' \in [status : {status}, first : {first}, second : Word]
Silent == answer' \in [status : {"none"}, first : Word, second : Word]
Refuse == answer' \in [status : {"error"}, first : Word, second : Word]

Init == /\ mem \in [Addr -> Pair]
        /\ used = 0
        /\ ask = NoAsk
        /\ answer \in [status : {"none"}, first : Word, second : Word]

Cons(a, b) ==
    /\ ask = NoAsk
    /\ used < HeapCells
    /\ mem' = [mem EXCEPT ![used] = [car |-> a, cdr |-> b]]
    /\ used' = used + 1
    /\ Answers("ok", MkWord(TAG_CONS, used))
    /\ UNCHANGED ask

ConsFull ==
    /\ ask = NoAsk
    /\ used = HeapCells
    /\ Refuse
    /\ UNCHANGED <<mem, used, ask>>

SetCdr(a, b) ==
    /\ ask = NoAsk
    /\ IsCons(a)
    /\ mem' = [mem EXCEPT ![AddrOf(a)].cdr = b]
    /\ Answers("ok", b)
    /\ UNCHANGED <<used, ask>>

TypeError(a) ==
    /\ ask = NoAsk
    /\ ~IsCons(a)
    /\ Refuse
    /\ UNCHANGED <<mem, used, ask>>

Read(kind, addr) ==
    /\ ask = NoAsk
    /\ ask' = [kind |-> kind, addr |-> addr]
    /\ Silent
    /\ UNCHANGED <<mem, used>>

Reply ==
    /\ ask # NoAsk
    /\ ask' = NoAsk
    /\ LET p == mem[ask.addr]
       IN \/ ask.kind = "car"  /\ Answers("ok", p.car)
          \/ ask.kind = "cdr"  /\ Answers("ok", p.cdr)
          \/ ask.kind = "pair" /\ answer' = [status |-> "ok", first |-> p.car, second |-> p.cdr]
          \/ ask.kind = "peek" /\ answer' = [status |-> "peek", first |-> p.car, second |-> p.cdr]
    /\ UNCHANGED <<mem, used>>

Idle == /\ Silent
        /\ UNCHANGED <<mem, used, ask>>

(* A reset forgets the allocation and the read in progress.  The cells     *)
(* keep their contents, except that the write of the very last step may    *)
(* not have landed.                                                        *)
Reset == /\ used' = 0
         /\ ask' = NoAsk
         /\ Silent
         /\ mem' \in [Addr -> Pair]
         /\ \E i \in Addr : \A j \in Addr \ {i} : mem'[j] = mem[j]

Next == \/ \E a \in OperandA, b \in OperandB : Cons(a, b) \/ SetCdr(a, b)
        \/ \E a \in OperandA : TypeError(a)
        \/ \E k \in Kind, i \in Addr : Read(k, i)
        \/ ConsFull \/ Reply \/ Idle \/ Reset

Spec == Init /\ [][Next]_vars
=============================================================================
