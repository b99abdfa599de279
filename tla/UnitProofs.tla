----------------------------- MODULE UnitProofs -----------------------------
(***************************************************************************)
(* The parts that need no other part of the machine: the walk of the       *)
(* sandhi engine, chains of UPC-8 transforms, and the stack of the         *)
(* evaluator in assembly.  They share no variable.                         *)
(***************************************************************************)
EXTENDS Evaluator, SandhiEngine, Upc8Chain, SequenceTheorems, TLAPS

(* The engine's walk over the rule table finds the sandhi of every pair it *)
(* is started on, for any codes on its inputs and resets at any clock.     *)
Tried(n)  == \A s \in 0 .. (n - 1) : Rule(s, codes.prev, codes.curr) = {}
FsmOK     == fsm \in [state : {"IDLE", "LOAD_RULE", "APPLY", "CHECK_NEXT", "OUTPUT"},
                      rule : 0 .. 2, matched : BOOLEAN]

(* Before a rule is applied nothing has matched, and no rule before it     *)
(* does; after it, matched says whether it did, and the latch what it gave.*)
WaitsOK   == fsm.state \in {"LOAD_RULE", "APPLY"} => ~fsm.matched /\ Tried(fsm.rule)
CheckOK   == fsm.state = "CHECK_NEXT" => /\ Tried(fsm.rule)
                                         /\ fsm.matched => latch \in Hit
                                         /\ ~fsm.matched => Hit = {}
WalkInv      == FsmOK /\ WaitsOK /\ CheckOK /\ DoneIsSandhi

-----------------------------------------------------------------------------
(* A rule makes at most one thing of a pair.                               *)
LEMMA RuleIsPartial ==
  ASSUME NEW r \in 0 .. 2, NEW p, NEW c, NEW x \in Rule(r, p, c), NEW y \in Rule(r, p, c)
  PROVE  x = y
<1>1. CASE r = 0
  BY <1>1 DEF Rule, Savarna, Only
<1>2. CASE r = 1
  BY <1>2 DEF Rule, Guna, Only
<1>3. CASE r = 2
  BY <1>3 DEF Rule, Yan, Only
<1>4. QED
  BY <1>1, <1>2, <1>3

(* The first rule that matches gives the sandhi.                           *)
LEMMA FirstMatch ==
  ASSUME NEW r \in 0 .. 2, NEW p, NEW c, NEW x \in Rule(r, p, c),
         \A s \in 0 .. (r - 1) : Rule(s, p, c) = {}
  PROVE  SandhiOf(p, c) = x
<1> DEFINE Matches(q)  == Rule(q, p, c) # {} /\ \A s \in 0 .. (q - 1) : Rule(s, p, c) = {}
           first       == CHOOSE q \in 0 .. 2 : Matches(q)
           made      == CHOOSE y \in Rule(first, p, c) : TRUE
<1>1. Matches(r)
  OBVIOUS
<1>2. first \in 0 .. 2 /\ Matches(first)
  <2>1. \E q \in 0 .. 2 : Matches(q)
    BY <1>1
  <2> HIDE DEF Matches
  <2>2. QED
    BY <2>1
<1>3. \A q \in 0 .. 2 : Matches(q) => q = r
  <2>1. SUFFICES ASSUME NEW q \in 0 .. 2, Matches(q), q # r PROVE FALSE
    OBVIOUS
  <2>2. CASE q < r
    <3>1. q \in 0 .. (r - 1)
      BY <2>2
    <3>2. QED
      BY <2>1, <3>1
  <2>3. CASE r < q
    <3>1. r \in 0 .. (q - 1)
      BY <2>3
    <3>2. QED
      BY <2>1, <3>1
  <2>4. QED
    BY <2>1, <2>2, <2>3
<1>4. first = r
  <2> HIDE DEF Matches, first
  <2>1. QED
    BY <1>2, <1>3
<1>5. made \in Rule(r, p, c)
  <2> HIDE DEF first
  <2>1. QED
    BY <1>4
<1>6. made = x
  <2> HIDE DEF first, made
  <2>1. QED
    BY <1>5, RuleIsPartial
<1>7. ~ \A q \in 0 .. 2 : Rule(q, p, c) = {}
  OBVIOUS
<1>8. SandhiOf(p, c) = made
  BY <1>7 DEF SandhiOf
<1>9. QED
  BY <1>6, <1>8

(* A pair no rule matches passes through.                                  *)
LEMMA NoMatch ==
  ASSUME NEW p, NEW c, \A s \in 0 .. 2 : Rule(s, p, c) = {}
  PROVE  SandhiOf(p, c) = Mk(0, p, c)
BY DEF SandhiOf

-----------------------------------------------------------------------------
LEMMA StartKeeps ==
  ASSUME WalkInv, NEW p, NEW c, Start(p, c)
  PROVE  WalkInv'
<1>1. fsm' = [state |-> "LOAD_RULE", rule |-> 0, matched |-> FALSE]
  BY DEF Start, IdleFsm
<1>2. FsmOK'
  BY <1>1 DEF FsmOK
<1>3. WaitsOK' /\ CheckOK' /\ DoneIsSandhi'
  BY <1>1 DEF WaitsOK, CheckOK, DoneIsSandhi, done, Tried
<1>4. QED
  BY <1>2, <1>3 DEF WalkInv

LEMMA LoadRuleKeeps ==
  ASSUME WalkInv, LoadRule
  PROVE  WalkInv'
<1>1. /\ fsm'.state = "APPLY" /\ fsm'.rule = fsm.rule /\ fsm'.matched = fsm.matched
      /\ FsmOK' /\ codes' = codes
  BY DEF LoadRule, WalkInv, FsmOK
<1>2. WaitsOK'
  BY <1>1 DEF LoadRule, WalkInv, WaitsOK, Tried
<1>3. CheckOK' /\ DoneIsSandhi'
  BY <1>1 DEF CheckOK, DoneIsSandhi, done
<1>4. QED
  BY <1>1, <1>2, <1>3 DEF WalkInv

LEMMA ApplyKeeps ==
  ASSUME WalkInv, Apply
  PROVE  WalkInv'
<1>1. /\ fsm'.state = "CHECK_NEXT" /\ fsm'.rule = fsm.rule /\ FsmOK' /\ codes' = codes
      /\ ~fsm.matched /\ Tried(fsm.rule)
  BY DEF Apply, WalkInv, FsmOK, WaitsOK
<1>2. /\ fsm'.matched => latch' \in Hit
      /\ ~fsm'.matched => Hit = {}
  BY <1>1 DEF Apply, WalkInv, FsmOK
<1>3. CheckOK'
  BY <1>1, <1>2 DEF CheckOK, Tried, Hit
<1>4. WaitsOK' /\ DoneIsSandhi'
  BY <1>1 DEF WaitsOK, DoneIsSandhi, done
<1>5. QED
  BY <1>1, <1>3, <1>4 DEF WalkInv

LEMMA CheckNextKeeps ==
  ASSUME WalkInv, CheckNext
  PROVE  WalkInv'
<1>0. /\ fsm.rule \in 0 .. 2 /\ Tried(fsm.rule) /\ codes' = codes
      /\ fsm.matched => latch \in Hit
      /\ ~fsm.matched => Hit = {}
  BY DEF CheckNext, WalkInv, FsmOK, CheckOK
<1>1. CASE fsm.matched /\ fsm' = [fsm EXCEPT !.state = "OUTPUT"] /\ latch' = latch
  <2>1. fsm'.state = "OUTPUT" /\ FsmOK'
    BY <1>1 DEF WalkInv, FsmOK
  <2>2. DoneIsSandhi'
    BY <1>0, <1>1, FirstMatch DEF DoneIsSandhi, Hit, Tried
  <2>3. QED
    BY <2>1, <2>2 DEF WalkInv, WaitsOK, CheckOK
<1>2. CASE /\ ~fsm.matched /\ fsm.rule = 2
           /\ fsm' = [fsm EXCEPT !.state = "OUTPUT"] /\ latch' = Mk(0, codes.prev, codes.curr)
  <2>1. fsm'.state = "OUTPUT" /\ FsmOK'
    BY <1>2 DEF WalkInv, FsmOK
  <2>2. \A s \in 0 .. 2 : Rule(s, codes.prev, codes.curr) = {}
    BY <1>0, <1>2 DEF Tried, Hit
  <2>3. DoneIsSandhi'
    BY <1>0, <1>2, <2>2, NoMatch DEF DoneIsSandhi
  <2>4. QED
    BY <2>1, <2>3 DEF WalkInv, WaitsOK, CheckOK
<1>3. CASE /\ ~fsm.matched /\ fsm.rule < 2
           /\ fsm' = [fsm EXCEPT !.state = "LOAD_RULE", !.rule = @ + 1]
  <2>1. /\ fsm'.state = "LOAD_RULE" /\ fsm'.rule = fsm.rule + 1 /\ ~fsm'.matched
        /\ FsmOK'
    <3>1. fsm' = [state |-> "LOAD_RULE", rule |-> fsm.rule + 1, matched |-> fsm.matched]
      BY <1>3 DEF WalkInv, FsmOK
    <3>2. fsm.matched = FALSE /\ fsm.rule + 1 \in 0 .. 2
      BY <1>0, <1>3 DEF WalkInv, FsmOK
    <3>3. QED
      BY <3>1, <3>2 DEF FsmOK
  <2>2. Tried(fsm.rule + 1)
    BY <1>0, <1>3 DEF Tried, Hit
  <2>3. WaitsOK'
    BY <1>0, <2>1, <2>2 DEF WaitsOK, Tried
  <2>4. QED
    BY <2>1, <2>3 DEF WalkInv, CheckOK, DoneIsSandhi, done
<1>4. QED
  BY <1>1, <1>2, <1>3 DEF CheckNext

(* The steps that end in IDLE.                                             *)
LEMMA IdleKeeps ==
  ASSUME WalkInv, Rest \/ Output \/ Reset
  PROVE  WalkInv'
<1>1. fsm'.state = "IDLE" /\ FsmOK'
  <2>1. CASE Rest \/ Reset
    <3>1. fsm' = [state |-> "IDLE", rule |-> 0, matched |-> FALSE]
      BY <2>1 DEF Rest, Reset, IdleFsm
    <3>2. QED
      BY <3>1 DEF FsmOK
  <2>2. CASE Output
    BY <2>2 DEF Output, WalkInv, FsmOK
  <2>3. QED
    BY <2>1, <2>2
<1>2. QED
  BY <1>1 DEF WalkInv, WaitsOK, CheckOK, DoneIsSandhi, done

-----------------------------------------------------------------------------
LEMMA WalkInit == Init => WalkInv
BY DEF Init, IdleFsm, WalkInv, FsmOK, WaitsOK, CheckOK, DoneIsSandhi, done

LEMMA WalkNext == WalkInv /\ [Next]_engVars => WalkInv'
<1>1. SUFFICES ASSUME WalkInv, [Next]_engVars PROVE WalkInv'
  OBVIOUS
<1>2. CASE \E p, c \in Inputs : Start(p, c)
  BY <1>1, <1>2, StartKeeps
<1>3. CASE LoadRule
  BY <1>1, <1>3, LoadRuleKeeps
<1>4. CASE Apply
  BY <1>1, <1>4, ApplyKeeps
<1>5. CASE CheckNext
  BY <1>1, <1>5, CheckNextKeeps
<1>6. CASE Rest \/ Output \/ Reset
  BY <1>1, <1>6, IdleKeeps
<1>7. CASE UNCHANGED engVars
  BY <1>1, <1>7 DEF engVars, WalkInv, FsmOK, WaitsOK, CheckOK, DoneIsSandhi, done, Tried, Hit
<1>8. QED
  BY <1>1, <1>2, <1>3, <1>4, <1>5, <1>6, <1>7 DEF Next, Clock, Walk

(* What the engine shows when it says done is the sandhi of the pair it    *)
(* was started on, for every pair of codes, every history of runs and a    *)
(* reset at any clock (sandhi_engine.sv:152-209).                          *)
THEOREM EngineCorrect == Spec => []DoneIsSandhi
<1>1. WalkInv => DoneIsSandhi
  BY DEF WalkInv
<1>2. QED
  BY <1>1, WalkInit, WalkNext, PTL DEF Spec

-----------------------------------------------------------------------------
(* How many clocks a run still takes at most: three for each rule that is  *)
(* left, and one in which the result is shown.                             *)
WalkLeft == CASE fsm.state = "LOAD_RULE"  -> 10 - 3 * fsm.rule
              [] fsm.state = "APPLY"      -> 9 - 3 * fsm.rule
              [] fsm.state = "CHECK_NEXT" -> 8 - 3 * fsm.rule
              [] fsm.state = "OUTPUT"     -> 1
              [] OTHER                    -> 0
Shortens == fsm.state # "IDLE" => WalkLeft \in 1 .. 10 /\ WalkLeft' \in Nat /\ WalkLeft' < WalkLeft

(* Every clock of a run, or a reset in it, brings it nearer to its end,    *)
(* and a start on the way does nothing: a run takes ten clocks at most, so *)
(* the clock is all that EveryRunEnds needs (sandhi_engine.sv:152-209).    *)
THEOREM RunShortens == Spec => [][Shortens]_engVars
<1>1. ASSUME FsmOK, Next, fsm.state # "IDLE"
      PROVE  WalkLeft \in 1 .. 10 /\ WalkLeft' \in Nat /\ WalkLeft' < WalkLeft
  <2>1. PICK r \in 0 .. 2 : r = fsm.rule
    BY <1>1 DEF FsmOK
  <2>2. CASE LoadRule
    <3>1. fsm.state = "LOAD_RULE" /\ fsm'.state = "APPLY" /\ fsm'.rule = r
      BY <1>1, <2>1, <2>2 DEF FsmOK, LoadRule
    <3>2. QED
      BY <2>1, <3>1 DEF WalkLeft
  <2>3. CASE Apply
    <3>1. fsm.state = "APPLY" /\ fsm'.state = "CHECK_NEXT" /\ fsm'.rule = r
      BY <1>1, <2>1, <2>3 DEF FsmOK, Apply
    <3>2. QED
      BY <2>1, <3>1 DEF WalkLeft
  <2>4. CASE CheckNext
    <3>1. /\ fsm.state = "CHECK_NEXT"
          /\ fsm'.state = "OUTPUT" \/ (fsm'.state = "LOAD_RULE" /\ fsm'.rule = r + 1 /\ r < 2)
      BY <1>1, <2>1, <2>4 DEF FsmOK, CheckNext
    <3>2. QED
      BY <2>1, <3>1 DEF WalkLeft
  <2>5. CASE Output
    <3>1. fsm.state = "OUTPUT" /\ fsm'.state = "IDLE"
      BY <1>1, <2>5 DEF FsmOK, Output, done
    <3>2. QED
      BY <3>1 DEF WalkLeft
  <2>6. CASE Reset
    <3>1. fsm'.state = "IDLE"
      BY <2>6 DEF Reset, IdleFsm
    <3>2. WalkLeft \in 1 .. 10
      BY <1>1, <2>1 DEF WalkLeft, FsmOK
    <3>3. QED
      BY <3>1, <3>2 DEF WalkLeft
  <2>7. ~Rest /\ ~ \E p, c \in Inputs : Start(p, c)
    BY <1>1 DEF Rest, Start
  <2>8. QED
    BY <1>1, <2>2, <2>3, <2>4, <2>5, <2>6, <2>7 DEF Next, Clock, Walk
<1>2. FsmOK /\ Next => Shortens
  BY <1>1 DEF Shortens
<1>3. WalkInv => FsmOK
  BY DEF WalkInv
<1>4. FsmOK /\ [Next]_engVars => [Shortens]_engVars
  BY <1>2
<1>5. QED
  BY <1>3, <1>4, WalkInit, WalkNext, PTL DEF Spec

-----------------------------------------------------------------------------
(* The stack discipline of eval_core.inc, for any memory image and a heap  *)
(* of any size: wherever eval returns, the stack is as high as it was at   *)
(* the call, and control goes back to the caller.                          *)
Sites == 1 .. 5 \cup {AfterFirst(p) : p \in Unary \cup Binary} \cup {AfterSecond(p) : p \in Binary}

(* How many words a call leaves on the stack, and which of them is the     *)
(* return address of the code that makes it.                               *)
RetAt(site)     == IF site \in {AFTER_TEST, AFTER_OPERATOR, AFTER_ONLY} THEN 3
                   ELSE IF site \in {AFTER_ARGUMENT, 12, 14, 15, 22, 24, 25} THEN 2 ELSE 1
FrameSize(site) == IF site = AFTER_ARGUMENT THEN 7 ELSE RetAt(site)

IsSequence(s) == \E S : s \in Seq(S)
Going         == {"eval", "lookup", "return", "after"}

ShapeOK == /\ at \in Going \cup Ended
           /\ cpu = [expr |-> cpu.expr, env |-> cpu.env, ret |-> cpu.ret, val |-> cpu.val, frame |-> cpu.frame]
           /\ IsSequence(stack) /\ IsSequence(calls)

(* Every call in progress but the first has its frame below it, with the   *)
(* return address of the call before.                                      *)
FrameOK(k) == IF k = Len(calls) THEN calls[k].site = HALT /\ calls[k].depth = 0
              ELSE /\ calls[k].site \in Sites
                   /\ calls[k].depth = calls[k + 1].depth + FrameSize(calls[k].site)
                   /\ stack[Len(stack) - calls[k].depth + RetAt(calls[k].site)] = Site(calls[k + 1].site)
ChainOK    == \A k \in 1 .. Len(calls) : /\ calls[k].depth \in Nat
                                         /\ \A j \in 1 .. k : calls[k].depth <= calls[j].depth
                                         /\ FrameOK(k)

Inside(ret, depth) == Len(calls) > 0 /\ depth = calls[1].depth /\ ret = Site(calls[1].site)
RunOK   == at \in {"eval", "lookup", "return"} => Inside(cpu.ret, Len(stack))
AfterOK == at = "after" => \E s \in Sites : /\ cpu.ret = Site(s)
                                            /\ Len(stack) >= FrameSize(s)
                                            /\ Inside(stack[RetAt(s)], Len(stack) - FrameSize(s))
StackInv == ShapeOK /\ ChainOK /\ RunOK /\ AfterOK

-----------------------------------------------------------------------------
(* n elements taken from the front of a sequence and others put there.     *)
Spliced(t, s, n) == t \o SubSeq(s, n + 1, Len(s))

LEMMA PopPush ==
  ASSUME NEW s, NEW t, IsSequence(s), IsSequence(t), NEW n \in 0 .. Len(s)
  PROVE  /\ IsSequence(Spliced(t, s, n))
         /\ Len(Spliced(t, s, n)) = Len(t) + Len(s) - n
         /\ \A i \in 1 .. Len(t) : Spliced(t, s, n)[i] = t[i]
         /\ \A i \in (n + 1) .. Len(s) : Spliced(t, s, n)[Len(t) + i - n] = s[i]
<1>1. PICK S, T : s \in Seq(S) /\ t \in Seq(T)
  BY DEF IsSequence
<1> DEFINE U == S \cup T
           u == SubSeq(s, n + 1, Len(s))
           r == Spliced(t, s, n)
<1>2. s \in Seq(U) /\ t \in Seq(U)
  BY <1>1, SeqMonotonic
<1>3. Len(s) \in Nat /\ Len(t) \in Nat /\ n \in Nat /\ n <= Len(s)
  BY <1>2, LenProperties
<1>4. \A i \in (n + 1) .. Len(s) : s[i] \in U
  BY <1>2, <1>3, ElementOfSeq
<1>5. /\ u \in Seq(U)
      /\ Len(u) = Len(s) - n
      /\ \A i \in 1 .. Len(s) - n : u[i] = s[n + i]
  <2> HIDE DEF U
  <2>1. n + 1 \in Int /\ Len(s) \in Int
    BY <1>3
  <2>2. /\ u \in Seq(U)
        /\ Len(u) = IF n + 1 <= Len(s) THEN Len(s) - (n + 1) + 1 ELSE 0
        /\ \A i \in 1 .. Len(s) - (n + 1) + 1 : u[i] = s[(n + 1) + i - 1]
    BY <2>1, <1>4, SubSeqProperties
  <2>3. QED
    BY <2>2, <1>3
<1>6. r = t \o u
  BY DEF Spliced
<1> HIDE DEF U, u, r
<1>7. /\ r \in Seq(U)
      /\ Len(r) = Len(t) + Len(u)
      /\ \A i \in 1 .. Len(t) + Len(u) : r[i] = IF i <= Len(t) THEN t[i] ELSE u[i - Len(t)]
  BY <1>2, <1>5, <1>6, ConcatProperties
<1>8. ASSUME NEW i \in 1 .. Len(t) PROVE r[i] = t[i]
  <2>1. Len(u) \in Nat
    BY <1>3, <1>5
  <2>2. i \in 1 .. Len(t) + Len(u) /\ i <= Len(t)
    BY <1>3, <2>1
  <2>3. QED
    BY <2>2, <1>7
<1>9. ASSUME NEW i \in (n + 1) .. Len(s) PROVE r[Len(t) + i - n] = s[i]
  <2>1. Len(t) + i - n \in 1 .. Len(t) + Len(u) /\ ~(Len(t) + i - n <= Len(t))
    BY <1>3, <1>5
  <2>2. r[Len(t) + i - n] = u[(Len(t) + i - n) - Len(t)]
    BY <2>1, <1>7
  <2>3. (Len(t) + i - n) - Len(t) = i - n /\ i - n \in 1 .. Len(s) - n /\ n + (i - n) = i
    BY <1>3
  <2>4. QED
    BY <2>2, <2>3, <1>5
<1>10. QED
  BY <1>3, <1>5, <1>7, <1>8, <1>9 DEF IsSequence, r

LEMMA FrameSizes == \A s \in Sites : RetAt(s) \in Nat \ {0} /\ FrameSize(s) \in Nat /\ RetAt(s) <= FrameSize(s)
  BY DEF RetAt, FrameSize

LEMMA SiteIsOne == \A s, u : Site(s) = Site(u) => s = u
  BY DEF Site, MkWord

-----------------------------------------------------------------------------
(* The machine may stop at any step.                                       *)
LEMMA StopKeeps ==
  ASSUME StackInv, NEW how \in {"type error", "heap full"}, Stop(how)
  PROVE  StackInv'
<1>1. at' \in Ended /\ at' \notin Going
  BY DEF Stop, Ended, Going
<1>2. UNCHANGED <<cpu, stack, calls>>
  BY DEF Stop
<1>3. ShapeOK' /\ RunOK' /\ AfterOK'
  BY <1>1, <1>2 DEF StackInv, ShapeOK, RunOK, AfterOK, Going, IsSequence
<1>4. ChainOK'
  BY <1>2 DEF StackInv, ChainOK, FrameOK
<1>5. QED
  BY <1>3, <1>4 DEF StackInv

(* A stack that lost n words and got t has the frames of the calls that    *)
(* were below the n words, at the same height.                             *)
LEMMA FramesStay ==
  ASSUME StackInv, NEW n \in 0 .. Len(stack), Len(calls) > 0, Len(stack) - n = calls[1].depth,
         NEW t, IsSequence(t), NEW k \in 1 .. Len(calls), k # Len(calls),
         NEW r, r = Spliced(t, stack, n)
  PROVE  r[Len(r) - calls[k].depth + RetAt(calls[k].site)] = Site(calls[k + 1].site)
<1> DEFINE i == Len(stack) - calls[k].depth + RetAt(calls[k].site)
<1>1. IsSequence(stack) /\ IsSequence(calls) /\ Len(stack) \in Nat /\ Len(calls) \in Nat /\ Len(t) \in Nat
  BY LenProperties DEF StackInv, ShapeOK, IsSequence
<1>2. /\ calls[k].depth \in Nat /\ calls[k + 1].depth \in Nat /\ calls[1].depth \in Nat
      /\ calls[k].depth <= calls[1].depth /\ FrameOK(k)
  BY <1>1 DEF StackInv, ChainOK
<1>3. /\ RetAt(calls[k].site) \in Nat \ {0} /\ FrameSize(calls[k].site) \in Nat
      /\ RetAt(calls[k].site) <= FrameSize(calls[k].site)
  BY <1>2, FrameSizes DEF FrameOK
<1>4. calls[k].depth = calls[k + 1].depth + FrameSize(calls[k].site) /\ stack[i] = Site(calls[k + 1].site)
  BY <1>2 DEF FrameOK
<1>5. i \in (n + 1) .. Len(stack)
  <2>1. n \in Nat /\ Len(stack) - n = calls[1].depth
    BY <1>1
  <2>2. \A len, m, d, d1, d2, f, a \in Nat :
            len - m = d1 /\ d <= d1 /\ d = d2 + f /\ a # 0 /\ a <= f => len - d + a \in (m + 1) .. len
    OBVIOUS
  <2>3. QED
    BY <1>1, <1>2, <1>3, <1>4, <2>1, <2>2
<1>6. Len(r) = Len(t) + Len(stack) - n /\ r[Len(t) + i - n] = stack[i]
  BY <1>1, <1>5, PopPush
<1>7. Len(r) - calls[k].depth + RetAt(calls[k].site) = Len(t) + i - n
  <2>1. n \in Nat
    BY <1>1
  <2>2. Len(stack) \in Nat /\ Len(t) \in Nat /\ calls[k].depth \in Nat /\ RetAt(calls[k].site) \in Nat
    BY <1>1, <1>2, <1>3
  <2>3. Len(r) = Len(t) + Len(stack) - n
    BY <1>6
  <2>4. QED
    BY ONLY <2>1, <2>2, <2>3
<1>8. QED
  BY <1>4, <1>6, <1>7

(* A call of eval, after n words of the caller are popped.                 *)
LEMMA CallKeeps ==
  ASSUME StackInv, NEW site \in Sites, NEW e, NEW env, NEW new, NEW saved, IsSequence(saved),
         NEW n \in 0 .. Len(stack), Inside(saved[RetAt(site)], Len(stack) - n),
         Len(saved) = FrameSize(site), Call(site, e, env, new, saved, n)
  PROVE  StackInv'
<1>1. CASE ~(used + (Len(new) + Len(saved)) <= HeapCells)
  BY <1>1, StopKeeps DEF Call, Room
<1>2. CASE used + (Len(new) + Len(saved)) <= HeapCells
  <2> DEFINE call == [site |-> site, depth |-> Len(stack) - n + Len(saved), env |-> env]
  <2>1. /\ at' = "eval"
        /\ cpu' = [cpu EXCEPT !.expr = e, !.env = env, !.ret = Site(site)]
        /\ stack' = Spliced(saved, stack, n)
        /\ calls' = <<call>> \o calls
    BY <1>2 DEF Call, Room, Spliced
  <2>2. IsSequence(stack) /\ IsSequence(calls) /\ Len(stack) \in Nat /\ Len(calls) \in Nat /\ Len(saved) \in Nat
    BY LenProperties DEF StackInv, ShapeOK, IsSequence
  <2>3. /\ Len(calls) > 0 /\ Len(stack) - n = calls[1].depth /\ calls[1].depth \in Nat
        /\ saved[RetAt(site)] = Site(calls[1].site)
    BY <2>2 DEF Inside, StackInv, ChainOK
  <2>4. /\ IsSequence(stack') /\ Len(stack') = Len(saved) + Len(stack) - n
        /\ \A i \in 1 .. Len(saved) : stack'[i] = saved[i]
    <3> DEFINE r == Spliced(saved, stack, n)
    <3>1. IsSequence(saved) /\ IsSequence(stack) /\ n \in 0 .. Len(stack)
      BY <2>2
    <3>2. IsSequence(r) /\ Len(r) = Len(saved) + Len(stack) - n /\ \A i \in 1 .. Len(saved) : r[i] = saved[i]
      BY ONLY <3>1, PopPush
    <3>3. stack' = r
      BY <2>1
    <3> HIDE DEF r
    <3>4. QED
      BY <3>2, <3>3
  <2>5. /\ IsSequence(calls') /\ Len(calls') = Len(calls) + 1 /\ calls'[1] = call
        /\ \A k \in 2 .. Len(calls') : calls'[k] = calls[k - 1]
    <3> HIDE DEF call
    <3>1. PICK S : calls \in Seq(S)
      BY <2>2 DEF IsSequence
    <3> DEFINE U == S \cup {call}
    <3>2. calls \in Seq(U) /\ <<call>> \in Seq(U) /\ Len(<<call>>) = 1 /\ <<call>>[1] = call
      BY <3>1, SeqMonotonic
    <3> HIDE DEF U
    <3>3. /\ <<call>> \o calls \in Seq(U) /\ Len(<<call>> \o calls) = 1 + Len(calls)
          /\ \A i \in 1 .. 1 + Len(calls) : (<<call>> \o calls)[i] = IF i <= 1 THEN <<call>>[i] ELSE calls[i - 1]
      BY <3>2, ConcatProperties
    <3>4. QED
      BY <2>1, <2>2, <3>2, <3>3 DEF IsSequence
  <2>6. cpu'.ret = Site(site) /\ cpu' = [expr |-> cpu'.expr, env |-> cpu'.env, ret |-> cpu'.ret,
                                         val |-> cpu'.val, frame |-> cpu'.frame]
    <3>1. cpu' = [expr |-> e, env |-> env, ret |-> Site(site), val |-> cpu.val, frame |-> cpu.frame]
      BY <2>1 DEF StackInv, ShapeOK
    <3>2. QED
      BY <3>1
  <2>7. ShapeOK' /\ RunOK' /\ AfterOK'
    BY <2>1, <2>2, <2>4, <2>5, <2>6 DEF ShapeOK, RunOK, AfterOK, Inside, Going
  <2>8. ASSUME NEW k \in 1 .. Len(calls')
        PROVE  /\ calls'[k].depth \in Nat
               /\ \A i \in 1 .. k : calls'[k].depth <= calls'[i].depth
               /\ FrameOK(k)'
    <3>1. CASE k = 1
      <4>1. calls'[1].site = site /\ calls'[2] = calls[1] /\ Len(calls') # 1
        BY <2>2, <2>3, <2>5
      <4>2. calls'[1].depth = calls[1].depth + FrameSize(site) /\ calls'[1].depth = Len(stack')
        BY <2>2, <2>3, <2>4, <2>5
      <4>3. RetAt(site) \in 1 .. Len(saved) /\ FrameSize(site) \in Nat
        BY FrameSizes
      <4>4. stack'[RetAt(site)] = Site(calls[1].site)
        BY <2>3, <2>4, <4>3
      <4>5. Len(stack') - calls'[1].depth + RetAt(site) = RetAt(site) /\ calls'[1].depth \in Nat
        BY <2>3, <4>2, <4>3
      <4>6. FrameOK(1)'
        <5>1. calls'[1].site \in Sites /\ calls'[1].depth = calls'[2].depth + FrameSize(calls'[1].site)
          BY <4>1, <4>2
        <5>2. stack'[Len(stack') - calls'[1].depth + RetAt(calls'[1].site)] = Site(calls'[2].site)
          BY <4>1, <4>4, <4>5
        <5>3. 1 # Len(calls') /\ 1 + 1 = 2
          BY <4>1
        <5>4. QED
          BY <5>1, <5>2, <5>3 DEF FrameOK
      <4>7. \A i \in 1 .. 1 : calls'[1].depth <= calls'[i].depth
        BY <4>5
      <4>8. QED
        BY <3>1, <4>5, <4>6, <4>7
    <3>2. CASE k # 1
      <4> DEFINE j == k - 1
      <4>1. j \in 1 .. Len(calls) /\ calls'[k] = calls[j]
        BY <2>2, <2>5, <3>2
      <4>2. /\ calls[j].depth \in Nat /\ FrameOK(j)
            /\ \A i \in 1 .. j : calls[j].depth <= calls[i].depth
        BY <4>1 DEF StackInv, ChainOK
      <4>3. calls'[1].depth = calls[1].depth + Len(saved)
        BY <2>2, <2>3, <2>5
      <4>4. FrameOK(k)'
        <5>1. CASE j = Len(calls)
          BY <2>2, <2>5, <4>1, <4>2, <5>1 DEF FrameOK
        <5>2. CASE j # Len(calls)
          <6>1. k # Len(calls') /\ calls'[k + 1] = calls[j + 1]
            <7>1. k \in 1 .. Len(calls') /\ k + 1 \in 2 .. Len(calls') /\ (k + 1) - 1 = j + 1
              BY <2>2, <2>5, <4>1, <5>2
            <7>2. calls'[k + 1] = calls[(k + 1) - 1]
              BY <2>5, <7>1
            <7>3. QED
              BY <2>2, <2>5, <5>2, <7>1, <7>2
          <6>2. stack'[Len(stack') - calls[j].depth + RetAt(calls[j].site)] = Site(calls[j + 1].site)
            BY <2>1, <2>3, <4>1, <5>2, FramesStay
          <6>3. QED
            BY <4>1, <4>2, <5>2, <6>1, <6>2 DEF FrameOK
        <5>3. QED
          BY <5>1, <5>2
      <4>5. ASSUME NEW i \in 1 .. k PROVE calls'[k].depth <= calls'[i].depth
        <5>1. CASE i = 1
          <6>1. calls[j].depth <= calls[1].depth
            BY <2>2, <2>3, <4>1, <4>2
          <6>2. QED
            BY <2>2, <2>3, <4>1, <4>2, <4>3, <5>1, <6>1
        <5>2. CASE i # 1
          <6>1. i - 1 \in 1 .. j /\ i \in 2 .. Len(calls')
            BY <3>2, <5>2, <4>1, <2>2, <2>5
          <6>2. calls'[i] = calls[i - 1] /\ calls[j].depth <= calls[i - 1].depth
            BY <2>5, <4>2, <6>1
          <6>3. QED
            BY <4>1, <6>2
        <5>3. QED
          BY <5>1, <5>2
      <4>6. QED
        BY <4>1, <4>2, <4>4, <4>5
    <3>3. QED
      BY <3>1, <3>2
  <2>9. QED
    BY <2>7, <2>8 DEF StackInv, ChainOK
<1>3. QED
  BY <1>1, <1>2

(* A jump to done, after n words are popped.                               *)
LEMMA DoneKeeps ==
  ASSUME StackInv, NEW v, NEW ret, NEW env, NEW new, NEW n \in 0 .. Len(stack),
         Inside(ret, Len(stack) - n), Done(v, ret, env, new, n)
  PROVE  StackInv'
<1>1. CASE ~(used + Len(new) <= HeapCells)
  BY <1>1, StopKeeps DEF Done, Room
<1>2. CASE used + Len(new) <= HeapCells
  <2>1. /\ at' = "return"
        /\ cpu' = [cpu EXCEPT !.val = v, !.ret = ret, !.env = env]
        /\ stack' = SubSeq(stack, n + 1, Len(stack))
        /\ calls' = calls
    BY <1>2 DEF Done, Room
  <2>2. IsSequence(stack) /\ IsSequence(calls) /\ Len(stack) \in Nat /\ Len(calls) \in Nat
    BY LenProperties DEF StackInv, ShapeOK, IsSequence
  <2>3. stack' = Spliced(<<>>, stack, n) /\ IsSequence(<<>>)
    <3>1. PICK S : stack \in Seq(S)
      BY <2>2 DEF IsSequence
    <3>2. SubSeq(stack, n + 1, Len(stack)) \in Seq(S)
      BY <2>2, <3>1, ElementOfSeq, SubSeqProperties
    <3>3. QED
      BY <2>1, <3>2, ConcatEmptySeq, EmptySeq DEF IsSequence, Spliced
  <2>4. IsSequence(stack') /\ Len(stack') = Len(stack) - n
    <3>1. Len(<<>>) = 0
      BY EmptySeq
    <3> DEFINE r == Spliced(<<>>, stack, n)
    <3>2. IsSequence(<<>>) /\ IsSequence(stack) /\ n \in 0 .. Len(stack)
      BY <2>2, <2>3
    <3>3. IsSequence(r) /\ Len(r) = Len(<<>>) + Len(stack) - n
      BY ONLY <3>2, PopPush
    <3>4. stack' = r
      BY <2>3
    <3> HIDE DEF r
    <3>5. QED
      BY <2>2, <3>1, <3>3, <3>4
  <2>5. cpu'.ret = ret /\ cpu' = [expr |-> cpu'.expr, env |-> cpu'.env, ret |-> cpu'.ret,
                                  val |-> cpu'.val, frame |-> cpu'.frame]
    <3>1. cpu' = [expr |-> cpu.expr, env |-> env, ret |-> ret, val |-> v, frame |-> cpu.frame]
      BY <2>1 DEF StackInv, ShapeOK
    <3>2. QED
      BY <3>1
  <2>6. ShapeOK' /\ RunOK' /\ AfterOK'
    BY <2>1, <2>2, <2>4, <2>5 DEF ShapeOK, RunOK, AfterOK, Inside, Going
  <2>7. ASSUME NEW k \in 1 .. Len(calls) PROVE FrameOK(k)'
    <3>1. FrameOK(k)
      BY DEF StackInv, ChainOK
    <3>2. CASE k = Len(calls)
      BY <2>1, <3>1, <3>2 DEF FrameOK
    <3>3. CASE k # Len(calls)
      <4>1. stack'[Len(stack') - calls[k].depth + RetAt(calls[k].site)] = Site(calls[k + 1].site)
        BY <2>3, <3>3, FramesStay DEF Inside
      <4>2. QED
        BY <2>1, <3>1, <3>3, <4>1 DEF FrameOK
    <3>4. QED
      BY <3>2, <3>3
  <2>8. QED
    BY <2>1, <2>6, <2>7 DEF StackInv, ChainOK
<1>3. QED
  BY <1>1, <1>2

-----------------------------------------------------------------------------
(* The words that the calls push.                                          *)
LEMMA OneWord ==
  ASSUME NEW a
  PROVE  IsSequence(<<a>>) /\ Len(<<a>>) = 1 /\ <<a>>[1] = a
<1>1. <<a>> \in Seq({a})
  OBVIOUS
<1>2. QED
  BY <1>1 DEF IsSequence

LEMMA TwoWords ==
  ASSUME NEW a, NEW b
  PROVE  IsSequence(<<a, b>>) /\ Len(<<a, b>>) = 2 /\ <<a, b>>[2] = b
<1>1. <<a, b>> \in Seq({a, b})
  OBVIOUS
<1>2. QED
  BY <1>1 DEF IsSequence

LEMMA ThreeWords ==
  ASSUME NEW a, NEW b, NEW c
  PROVE  IsSequence(<<a, b, c>>) /\ Len(<<a, b, c>>) = 3 /\ <<a, b, c>>[3] = c
<1>1. <<a, b, c>> \in Seq({a, b, c})
  OBVIOUS
<1>2. QED
  BY <1>1 DEF IsSequence

LEMMA SevenWords ==
  ASSUME NEW a, NEW b, NEW c, NEW d, NEW e, NEW f, NEW g
  PROVE  LET t == <<a, b, c, d, e, f, g>> IN IsSequence(t) /\ Len(t) = 7 /\ t[2] = b
<1>1. <<a, b, c, d, e, f, g>> \in Seq({a, b, c, d, e, f, g})
  OBVIOUS
<1>2. QED
  BY <1>1 DEF IsSequence

LEMMA Frames ==
  /\ {AFTER_TEST, AFTER_BODY, AFTER_OPERATOR, AFTER_ONLY, AFTER_ARGUMENT} \subseteq Sites
  /\ RetAt(AFTER_TEST) = 3 /\ FrameSize(AFTER_TEST) = 3
  /\ RetAt(AFTER_OPERATOR) = 3 /\ FrameSize(AFTER_OPERATOR) = 3
  /\ RetAt(AFTER_ONLY) = 3 /\ FrameSize(AFTER_ONLY) = 3
  /\ RetAt(AFTER_BODY) = 1 /\ FrameSize(AFTER_BODY) = 1
  /\ RetAt(AFTER_ARGUMENT) = 2 /\ FrameSize(AFTER_ARGUMENT) = 7
  /\ \A p \in Unary : AfterFirst(p) \in Sites /\ RetAt(AfterFirst(p)) = 1 /\ FrameSize(AfterFirst(p)) = 1
  /\ \A p \in Binary : AfterFirst(p) \in Sites /\ RetAt(AfterFirst(p)) = 2 /\ FrameSize(AfterFirst(p)) = 2
  /\ \A p \in Binary : AfterSecond(p) \in Sites /\ RetAt(AfterSecond(p)) = 2 /\ FrameSize(AfterSecond(p)) = 2
BY DEF Sites, RetAt, FrameSize, AFTER_TEST, AFTER_BODY, AFTER_OPERATOR, AFTER_ONLY, AFTER_ARGUMENT, AfterFirst,
       AfterSecond, Unary, Binary, PRIM_CAR, PRIM_CDR, PRIM_CONS, PRIM_ATOM, PRIM_EQ, PRIM_ADD

(* What a block that a call returns to finds on the stack.                 *)
LEMMA AfterFrame ==
  ASSUME StackInv, at = "after", NEW s \in Sites, cpu.ret = Site(s)
  PROVE  FrameSize(s) \in 0 .. Len(stack) /\ Inside(stack[RetAt(s)], Len(stack) - FrameSize(s))
<1>1. PICK u \in Sites : /\ cpu.ret = Site(u) /\ Len(stack) >= FrameSize(u)
                         /\ Inside(stack[RetAt(u)], Len(stack) - FrameSize(u))
  BY DEF StackInv, AfterOK
<1>2. u = s
  BY <1>1, SiteIsOne
<1>3. Len(stack) \in Nat /\ FrameSize(s) \in Nat
  BY FrameSizes, LenProperties DEF StackInv, ShapeOK, IsSequence
<1>4. QED
  BY <1>1, <1>2, <1>3

LEMMA EvalFrame ==
  ASSUME StackInv, at \in {"eval", "lookup"}
  PROVE  0 \in 0 .. Len(stack) /\ Inside(cpu.ret, Len(stack) - 0)
<1>1. Len(stack) \in Nat
  BY LenProperties DEF StackInv, ShapeOK, IsSequence
<1>2. QED
  BY <1>1 DEF StackInv, RunOK

-----------------------------------------------------------------------------
(* The pieces the blocks share.                                            *)
LEMMA CondLoopKeeps ==
  ASSUME StackInv, NEW clauses, NEW ret, NEW n \in 0 .. Len(stack), Inside(ret, Len(stack) - n),
         CondLoop(clauses, ret, n)
  PROVE  StackInv'
<1>1. CASE ~IsCons(clauses)
  BY <1>1, DoneKeeps DEF CondLoop
<1>2. CASE IsCons(clauses) /\ ~IsCons(CarOf(clauses))
  BY <1>2, StopKeeps DEF CondLoop, Needs
<1>3. CASE IsCons(clauses) /\ IsCons(CarOf(clauses))
  <2> DEFINE saved == <<CarOf(clauses), clauses, ret>>
  <2>1. Call(AFTER_TEST, CarOf(CarOf(clauses)), cpu.env, <<>>, saved, n)
    BY <1>3 DEF CondLoop, Needs
  <2>2. IsSequence(saved) /\ Len(saved) = FrameSize(AFTER_TEST) /\ saved[RetAt(AFTER_TEST)] = ret
    BY ThreeWords, Frames
  <2>3. AFTER_TEST \in Sites
    BY Frames
  <2> HIDE DEF saved
  <2>4. QED
    BY <2>1, <2>2, <2>3, CallKeeps
<1>4. QED
  BY <1>1, <1>2, <1>3

(* eval of a body, or of a clause's expression, with its caller's address. *)
LEMMA BodyKeeps ==
  ASSUME StackInv, NEW e, NEW env, NEW new, NEW ret, NEW n \in 0 .. Len(stack), Inside(ret, Len(stack) - n),
         Call(AFTER_BODY, e, env, new, <<ret>>, n)
  PROVE  StackInv'
<1>1. IsSequence(<<ret>>) /\ Len(<<ret>>) = FrameSize(AFTER_BODY) /\ <<ret>>[RetAt(AFTER_BODY)] = ret
  BY OneWord, Frames
<1>2. AFTER_BODY \in Sites
  BY Frames
<1>3. QED
  BY <1>1, <1>2, CallKeeps

LEMMA BindKeeps ==
  ASSUME StackInv, NEW params, NEW args, NEW accum, NEW body, NEW ret, NEW env, NEW new,
         NEW n \in 0 .. Len(stack), Inside(ret, Len(stack) - n),
         Bind(params, args, accum, body, ret, env, new, n)
  PROVE  StackInv'
<1>1. CASE ~IsCons(params)
  BY <1>1, BodyKeeps DEF Bind
<1>2. CASE IsCons(params) /\ ~IsCons(args)
  BY <1>2, StopKeeps DEF Bind, Needs
<1>3. CASE IsCons(params) /\ IsCons(args)
  <2> DEFINE saved == <<env, ret, body, accum, CdrOf(args), CdrOf(params), CarOf(params)>>
  <2>1. Call(AFTER_ARGUMENT, CarOf(args), env, new, saved, n)
    BY <1>3 DEF Bind, Needs
  <2>2. IsSequence(saved) /\ Len(saved) = FrameSize(AFTER_ARGUMENT) /\ saved[RetAt(AFTER_ARGUMENT)] = ret
    BY SevenWords, Frames
  <2>3. AFTER_ARGUMENT \in Sites
    BY Frames
  <2> HIDE DEF saved
  <2>4. QED
    BY <2>1, <2>2, <2>3, CallKeeps
<1>4. QED
  BY <1>1, <1>2, <1>3

LEMMA PrimitiveKeeps ==
  ASSUME StackInv, NEW p, NEW args, NEW env, NEW ret, 3 \in 0 .. Len(stack), Inside(ret, Len(stack) - 3),
         Primitive(p, args, env, ret)
  PROVE  StackInv'
<1> DEFINE rest   == CdrOf(args)
           second == IF IsCons(rest) THEN CarOf(rest) ELSE rest
<1>1. CASE ~IsCons(args)
  BY <1>1, StopKeeps DEF Primitive, PrimitivePopping, Needs
<1>2. CASE IsCons(args) /\ p \in Unary
  <2>1. Call(AfterFirst(p), CarOf(args), env, <<>>, <<ret>>, 3)
    BY <1>2 DEF Primitive, PrimitivePopping, Needs
  <2>2. /\ AfterFirst(p) \in Sites /\ IsSequence(<<ret>>) /\ Len(<<ret>>) = FrameSize(AfterFirst(p))
        /\ <<ret>>[RetAt(AfterFirst(p))] = ret
    BY <1>2, OneWord, Frames
  <2>3. QED
    BY <2>1, <2>2, CallKeeps
<1>3. CASE IsCons(args) /\ p \notin Unary /\ p \in Binary
  <2> DEFINE saved == <<second, ret>>
  <2>1. Call(AfterFirst(p), CarOf(args), env, <<>>, saved, 3)
    BY <1>3 DEF Primitive, PrimitivePopping, Needs
  <2>2. /\ AfterFirst(p) \in Sites /\ IsSequence(saved) /\ Len(saved) = FrameSize(AfterFirst(p))
        /\ saved[RetAt(AfterFirst(p))] = ret
    <3> HIDE DEF second
    <3>1. QED
      BY <1>3, TwoWords, Frames
  <2> HIDE DEF saved
  <2>3. QED
    BY <2>1, <2>2, CallKeeps
<1>4. CASE IsCons(args) /\ p \notin Unary /\ p \notin Binary
  <2>1. Done(Nil, ret, env, <<>>, 3)
    BY <1>4 DEF Primitive, PrimitivePopping, Needs
  <2>2. QED
    BY <2>1, DoneKeeps
<1>5. QED
  BY <1>1, <1>2, <1>3, <1>4

LEMMA ClosureKeeps ==
  ASSUME StackInv, NEW f, NEW args, NEW env, NEW ret, 3 \in 0 .. Len(stack), Inside(ret, Len(stack) - 3),
         Closure(f, args, env, ret)
  PROVE  StackInv'
<1>1. CASE ~IsCons(f) \/ (IsCons(CarOf(f)) /\ ~IsCons(CdrOf(f)))
  BY <1>1, StopKeeps DEF Closure
<1>2. CASE IsCons(f) /\ IsCons(CarOf(f)) /\ IsCons(CdrOf(f))
  <2>1. Bind(CarOf(f), args, CdrOf(CdrOf(f)), CarOf(CdrOf(f)), ret, env, <<>>, 3)
    BY <1>2 DEF Closure
  <2>2. QED
    BY <2>1, BindKeeps
<1>3. CASE IsCons(f) /\ ~IsCons(CarOf(f)) /\ ~IsCons(args)
  BY <1>3, StopKeeps DEF Closure, Needs
<1>4. CASE IsCons(f) /\ ~IsCons(CarOf(f)) /\ IsCons(args)
  <2> DEFINE saved == <<f, env, ret>>
  <2>1. Call(AFTER_ONLY, CarOf(args), env, <<>>, saved, 3)
    BY <1>4 DEF Closure, Needs
  <2>2. /\ AFTER_ONLY \in Sites /\ IsSequence(saved) /\ Len(saved) = FrameSize(AFTER_ONLY)
        /\ saved[RetAt(AFTER_ONLY)] = ret
    BY ThreeWords, Frames
  <2> HIDE DEF saved
  <2>3. QED
    BY <2>1, <2>2, CallKeeps
<1>5. QED
  BY <1>1, <1>2, <1>3, <1>4

-----------------------------------------------------------------------------
(* The blocks of eval.                                                     *)
LEMMA EvalBlocks ==
  ASSUME StackInv, SelfEval \/ Symbol \/ lookup \/ Quote \/ Cond \/ TryApply
  PROVE  StackInv'
<1>1. CASE SelfEval
  <2>1. at = "eval" /\ Done(cpu.expr, cpu.ret, cpu.env, <<>>, 0)
    BY <1>1 DEF SelfEval, Answer
  <2>2. QED
    BY <2>1, EvalFrame, DoneKeeps
<1>2. CASE Symbol
  <2>1. at = "eval" /\ at' = "lookup" /\ cpu' = [cpu EXCEPT !.frame = cpu.env] /\ UNCHANGED <<stack, calls>>
    BY <1>2 DEF Symbol
  <2>2. cpu' = [expr |-> cpu.expr, env |-> cpu.env, ret |-> cpu.ret, val |-> cpu.val, frame |-> cpu.env]
    BY <2>1 DEF StackInv, ShapeOK
  <2>3. ShapeOK'
    BY <2>1, <2>2 DEF StackInv, ShapeOK, Going, IsSequence
  <2>4. RunOK' /\ AfterOK'
    BY <2>1, <2>2 DEF StackInv, RunOK, AfterOK, Inside
  <2>5. ChainOK'
    BY <2>1 DEF StackInv, ChainOK, FrameOK
  <2>6. QED
    BY <2>3, <2>4, <2>5 DEF StackInv
<1>3. CASE lookup
  <2>1. at = "lookup"
    BY <1>3 DEF lookup, LookIn
  <2>2. CASE ~IsCons(cpu.frame) \/ ~IsCons(Binding)
    BY <1>3, <2>2, StopKeeps DEF lookup, LookIn
  <2>3. CASE IsCons(cpu.frame) /\ IsCons(Binding) /\ CarOf(Binding) = cpu.expr
    <3>1. Done(CdrOf(Binding), cpu.ret, cpu.env, <<>>, 0)
      BY <1>3, <2>3 DEF lookup, LookIn, Answer
    <3>2. QED
      BY <2>1, <3>1, EvalFrame, DoneKeeps
  <2>4. CASE IsCons(cpu.frame) /\ IsCons(Binding) /\ CarOf(Binding) # cpu.expr
    <3>1. cpu' = [cpu EXCEPT !.frame = CdrOf(cpu.frame)] /\ UNCHANGED <<at, stack, calls>>
      BY <1>3, <2>4 DEF lookup, LookIn
    <3>2. cpu' = [expr |-> cpu.expr, env |-> cpu.env, ret |-> cpu.ret, val |-> cpu.val, frame |-> CdrOf(cpu.frame)]
      BY <3>1 DEF StackInv, ShapeOK
    <3>3. ShapeOK'
      BY <3>1, <3>2 DEF StackInv, ShapeOK, IsSequence
    <3>4. RunOK' /\ AfterOK'
      BY <2>1, <3>1, <3>2 DEF StackInv, RunOK, AfterOK, Inside
    <3>5. ChainOK'
      BY <3>1 DEF StackInv, ChainOK, FrameOK
    <3>6. QED
      BY <3>3, <3>4, <3>5 DEF StackInv
  <2>5. QED
    BY <2>2, <2>3, <2>4
<1>4. CASE Quote
  <2>1. at = "eval"
    BY <1>4 DEF Quote, Form
  <2>2. CASE IsCons(CdrOf(cpu.expr))
    <3>1. Done(CarOf(CdrOf(cpu.expr)), cpu.ret, cpu.env, <<>>, 0)
      BY <1>4, <2>2 DEF Quote, Needs, Answer
    <3>2. QED
      BY <2>1, <3>1, EvalFrame, DoneKeeps
  <2>3. CASE ~IsCons(CdrOf(cpu.expr))
    BY <1>4, <2>3, StopKeeps DEF Quote, Needs
  <2>4. QED
    BY <2>2, <2>3
<1>5. CASE Cond
  <2>1. at = "eval" /\ CondLoop(CdrOf(cpu.expr), cpu.ret, 0)
    BY <1>5 DEF Cond, Form
  <2>2. QED
    BY <2>1, EvalFrame, CondLoopKeeps
<1>6. CASE TryApply
  <2> DEFINE saved == <<CdrOf(cpu.expr), cpu.env, cpu.ret>>
  <2>1. at = "eval" /\ Call(AFTER_OPERATOR, CarOf(cpu.expr), cpu.env, <<>>, saved, 0)
    BY <1>6 DEF TryApply
  <2>2. /\ AFTER_OPERATOR \in Sites /\ IsSequence(saved) /\ Len(saved) = FrameSize(AFTER_OPERATOR)
        /\ saved[RetAt(AFTER_OPERATOR)] = cpu.ret
    BY ThreeWords, Frames
  <2> HIDE DEF saved
  <2>3. QED
    BY <2>1, <2>2, EvalFrame, CallKeeps
<1>7. QED
  BY <1>1, <1>2, <1>3, <1>4, <1>5, <1>6

(* done: the frame of the innermost call is on top of the stack.           *)
LEMMA ReturnKeeps ==
  ASSUME StackInv, Return
  PROVE  StackInv'
<1>1. /\ at = "return" /\ at' = (IF cpu.ret = Site(HALT) THEN "halted" ELSE "after")
      /\ calls' = Tail(calls) /\ UNCHANGED <<cpu, stack>>
  BY DEF Return
<1>2. IsSequence(stack) /\ IsSequence(calls) /\ Len(stack) \in Nat /\ Len(calls) \in Nat
  BY LenProperties DEF StackInv, ShapeOK, IsSequence
<1>3. Len(calls) > 0 /\ Len(stack) = calls[1].depth /\ cpu.ret = Site(calls[1].site)
  BY <1>1 DEF StackInv, RunOK, Inside
<1>4. /\ IsSequence(calls') /\ Len(calls') = Len(calls) - 1
      /\ \A k \in 1 .. Len(calls') : calls'[k] = calls[k + 1]
  <2>1. PICK S : calls \in Seq(S)
    BY <1>2 DEF IsSequence
  <2>2. calls # <<>>
    BY <1>3, EmptySeq
  <2>3. QED
    BY <1>1, <2>1, <2>2, HeadTailProperties DEF IsSequence
<1>5. ShapeOK'
  BY <1>1, <1>2, <1>4 DEF StackInv, ShapeOK, Going, Ended, IsSequence
<1>6. calls[1].depth \in Nat /\ FrameOK(1)
  BY <1>2, <1>3 DEF StackInv, ChainOK
<1>7. AfterOK'
  <2>1. SUFFICES ASSUME at' = "after"
                 PROVE  \E s \in Sites : /\ cpu.ret = Site(s) /\ Len(stack) >= FrameSize(s)
                                         /\ Len(calls') > 0 /\ Len(stack) - FrameSize(s) = calls'[1].depth
                                         /\ stack[RetAt(s)] = Site(calls'[1].site)
    BY <1>1 DEF AfterOK, Inside
  <2> DEFINE s == calls[1].site
  <2>2. cpu.ret = Site(s) /\ s # HALT
    BY <1>1, <1>3, <2>1
  <2>3. /\ Len(calls) # 1 /\ s \in Sites
        /\ calls[1].depth = calls[2].depth + FrameSize(s)
        /\ stack[Len(stack) - calls[1].depth + RetAt(s)] = Site(calls[2].site)
    BY <1>6, <2>2 DEF FrameOK
  <2>4. calls'[1] = calls[2] /\ Len(calls') > 0 /\ 2 \in 1 .. Len(calls)
    BY <1>2, <1>3, <1>4, <2>3
  <2>5. calls[2].depth \in Nat /\ FrameSize(s) \in Nat /\ RetAt(s) \in Nat
    BY <2>3, <2>4, FrameSizes DEF StackInv, ChainOK
  <2>6. Len(stack) - calls[1].depth + RetAt(s) = RetAt(s)
    BY <1>2, <1>3, <1>6, <2>5
  <2>7. Len(stack) - FrameSize(s) = calls'[1].depth /\ Len(stack) >= FrameSize(s)
    BY <1>3, <2>3, <2>4, <2>5
  <2>8. stack[RetAt(s)] = Site(calls'[1].site)
    BY <2>3, <2>4, <2>6
  <2> HIDE DEF s
  <2>9. QED
    BY <2>2, <2>3, <2>4, <2>7, <2>8
<1>8. RunOK'
  BY <1>1 DEF RunOK
<1>9. ASSUME NEW k \in 1 .. Len(calls')
      PROVE  /\ calls'[k].depth \in Nat
             /\ \A i \in 1 .. k : calls'[k].depth <= calls'[i].depth
             /\ FrameOK(k)'
  <2>1. calls'[k] = calls[k + 1] /\ k + 1 \in 1 .. Len(calls)
    BY <1>2, <1>4
  <2>2. /\ calls[k + 1].depth \in Nat /\ FrameOK(k + 1)
        /\ \A i \in 1 .. k + 1 : calls[k + 1].depth <= calls[i].depth
    BY <2>1 DEF StackInv, ChainOK
  <2>3. FrameOK(k)'
    <3>1. CASE k = Len(calls')
      BY <1>2, <1>4, <2>1, <2>2, <3>1 DEF FrameOK
    <3>2. CASE k # Len(calls')
      <4>1. k + 1 # Len(calls) /\ calls'[k + 1] = calls[(k + 1) + 1]
        BY <1>2, <1>4, <3>2
      <4>2. QED
        BY <1>1, <2>1, <2>2, <3>2, <4>1 DEF FrameOK
    <3>3. QED
      BY <3>1, <3>2
  <2>4. ASSUME NEW i \in 1 .. k PROVE calls'[k].depth <= calls'[i].depth
    <3>1. i + 1 \in 1 .. k + 1 /\ calls'[i] = calls[i + 1]
      BY <1>2, <1>4
    <3>2. QED
      BY <2>1, <2>2, <3>1
  <2>5. QED
    BY <2>1, <2>2, <2>3, <2>4
<1>10. QED
  BY <1>5, <1>7, <1>8, <1>9 DEF StackInv, ChainOK

(* The blocks that calls of eval return to.                                *)
LEMMA AfterBlocks ==
  ASSUME StackInv, AfterTest \/ AfterBody \/ AfterOperator \/ AfterOnly \/ AfterArgument
  PROVE  StackInv'
<1>1. CASE AfterTest
  <2> DEFINE clause == stack[1]  clauses == stack[2]  ret == stack[3]
  <2>1. at = "after" /\ cpu.ret = Site(AFTER_TEST)
    BY <1>1 DEF AfterTest, After
  <2>2. 3 \in 0 .. Len(stack) /\ Inside(ret, Len(stack) - 3)
    BY <2>1, Frames, AfterFrame
  <2>3. CASE cpu.val.tag = TAG_NIL
    <3>1. CondLoop(CdrOf(clauses), ret, 3)
      BY <1>1, <2>3 DEF AfterTest
    <3>2. QED
      BY <2>2, <3>1, CondLoopKeeps
  <2>4. CASE cpu.val.tag # TAG_NIL /\ IsCons(CdrOf(clause))
    <3>1. Call(AFTER_BODY, CarOf(CdrOf(clause)), cpu.env, <<>>, <<ret>>, 3)
      BY <1>1, <2>4 DEF AfterTest, Needs
    <3>2. QED
      BY <2>2, <3>1, BodyKeeps
  <2>5. CASE cpu.val.tag # TAG_NIL /\ ~IsCons(CdrOf(clause))
    BY <1>1, <2>5, StopKeeps DEF AfterTest, Needs
  <2>6. QED
    BY <2>3, <2>4, <2>5
<1>2. CASE AfterBody
  <2>1. at = "after" /\ cpu.ret = Site(AFTER_BODY) /\ Done(cpu.val, stack[1], cpu.env, <<>>, 1)
    BY <1>2 DEF AfterBody, After
  <2>2. 1 \in 0 .. Len(stack) /\ Inside(stack[1], Len(stack) - 1)
    BY <2>1, Frames, AfterFrame
  <2>3. QED
    BY <2>1, <2>2, DoneKeeps
<1>3. CASE AfterOperator
  <2> DEFINE args == stack[1]  env == stack[2]  ret == stack[3]
  <2>1. at = "after" /\ cpu.ret = Site(AFTER_OPERATOR)
    BY <1>3 DEF AfterOperator, After
  <2>2. 3 \in 0 .. Len(stack) /\ Inside(ret, Len(stack) - 3)
    BY <2>1, Frames, AfterFrame
  <2>3. Primitive(cpu.val.value, args, env, ret) \/ Closure(cpu.val, args, env, ret)
    BY <1>3 DEF AfterOperator
  <2>4. QED
    BY <2>2, <2>3, PrimitiveKeeps, ClosureKeeps
<1>4. CASE AfterOnly
  <2> DEFINE f == stack[1]  ret == stack[3]
             new == Extended(CarOf(f), CdrOf(CdrOf(f)))
  <2>1. at = "after" /\ cpu.ret = Site(AFTER_ONLY)
    BY <1>4 DEF AfterOnly, After
  <2>2. 3 \in 0 .. Len(stack) /\ Inside(ret, Len(stack) - 3)
    BY <2>1, Frames, AfterFrame
  <2>3. CASE IsCons(CdrOf(f))
    <3>1. Call(AFTER_BODY, CarOf(CdrOf(f)), NewPair(1), new, <<ret>>, 3)
      BY <1>4, <2>3 DEF AfterOnly, Needs
    <3> HIDE DEF new
    <3>2. QED
      BY <2>2, <3>1, BodyKeeps
  <2>4. CASE ~IsCons(CdrOf(f))
    BY <1>4, <2>4, StopKeeps DEF AfterOnly, Needs
  <2>5. QED
    BY <2>3, <2>4
<1>5. CASE AfterArgument
  <2> DEFINE new == Extended(stack[7], stack[4])
  <2>1. /\ at = "after" /\ cpu.ret = Site(AFTER_ARGUMENT)
        /\ Bind(stack[6], stack[5], NewPair(1), stack[3], stack[2], stack[1], new, 7)
    BY <1>5 DEF AfterArgument, BindingIn, After
  <2>2. 7 \in 0 .. Len(stack) /\ Inside(stack[2], Len(stack) - 7)
    BY <2>1, Frames, AfterFrame
  <2> HIDE DEF new
  <2>3. QED
    BY <2>1, <2>2, BindKeeps
<1>6. QED
  BY <1>1, <1>2, <1>3, <1>4, <1>5

LEMMA OperandBlocks ==
  ASSUME StackInv, AfterFirstOperand \/ AfterSecondOperand
  PROVE  StackInv'
<1>1. ASSUME NEW p \in Unary, at = "after", cpu.ret = Site(AfterFirst(p))
      PROVE  1 \in 0 .. Len(stack) /\ Inside(stack[1], Len(stack) - 1)
  BY <1>1, Frames, AfterFrame
<1>2. ASSUME NEW p \in Unary, cpu.ret = Site(AfterFirst(p)), AfterFirstOperand
      PROVE  Stop("type error") \/ \E v : Done(v, stack[1], cpu.env, <<>>, 1)
  <2>1. PRIM_CAR \in Unary /\ PRIM_CDR \in Unary /\ PRIM_ATOM \in Unary
    BY DEF Unary
  <2>2. \A q \in Binary : cpu.ret # Site(AfterFirst(q))
    <3>1. \A q \in Binary : AfterFirst(q) # AfterFirst(p)
      BY DEF AfterFirst, Unary, Binary, PRIM_CAR, PRIM_CDR, PRIM_CONS, PRIM_ATOM, PRIM_EQ, PRIM_ADD
    <3>2. QED
      BY <1>2, <3>1, SiteIsOne
  <2>3. \/ Needs(cpu.val, Done(CarOf(cpu.val), stack[1], cpu.env, <<>>, 1))
        \/ Needs(cpu.val, Done(CdrOf(cpu.val), stack[1], cpu.env, <<>>, 1))
        \/ Done(Truth(~IsCons(cpu.val)), stack[1], cpu.env, <<>>, 1)
    BY <1>2, <2>2 DEF AfterFirstOperand
  <2>4. QED
    BY <2>3 DEF Needs
<1>3. CASE AfterFirstOperand /\ \E p \in Unary : cpu.ret = Site(AfterFirst(p))
  <2>1. at = "after"
    BY <1>3 DEF AfterFirstOperand
  <2>2. 1 \in 0 .. Len(stack) /\ Inside(stack[1], Len(stack) - 1)
    BY <1>1, <1>3, <2>1
  <2>3. Stop("type error") \/ \E v : Done(v, stack[1], cpu.env, <<>>, 1)
    BY <1>2, <1>3
  <2>4. QED
    BY <2>2, <2>3, StopKeeps, DoneKeeps
<1>4. CASE AfterFirstOperand /\ ~ \E p \in Unary : cpu.ret = Site(AfterFirst(p))
  <2> DEFINE saved == <<cpu.val, stack[2]>>
  <2>1. PRIM_CAR \in Unary /\ PRIM_CDR \in Unary /\ PRIM_ATOM \in Unary
    BY DEF Unary
  <2>2. PICK p \in Binary : /\ at = "after" /\ cpu.ret = Site(AfterFirst(p))
                            /\ Call(AfterSecond(p), stack[1], cpu.env, <<>>, saved, 2)
    BY <1>4, <2>1 DEF AfterFirstOperand
  <2>3. 2 \in 0 .. Len(stack) /\ Inside(stack[2], Len(stack) - 2)
    BY <2>2, Frames, AfterFrame
  <2>4. /\ AfterSecond(p) \in Sites /\ IsSequence(saved) /\ Len(saved) = FrameSize(AfterSecond(p))
        /\ saved[RetAt(AfterSecond(p))] = stack[2]
    BY TwoWords, Frames
  <2> HIDE DEF saved
  <2>5. QED
    BY <2>2, <2>3, <2>4, CallKeeps
<1>5. CASE AfterSecondOperand
  <2>1. PRIM_CONS \in Binary /\ PRIM_EQ \in Binary /\ PRIM_ADD \in Binary
    BY DEF Binary
  <2>2. /\ at = "after"
        /\ \E p \in Binary : cpu.ret = Site(AfterSecond(p))
        /\ \E v, new : Done(v, stack[2], cpu.env, new, 2)
    BY <1>5, <2>1 DEF AfterSecondOperand
  <2>3. 2 \in 0 .. Len(stack) /\ Inside(stack[2], Len(stack) - 2)
    BY <2>2, Frames, AfterFrame
  <2>4. QED
    BY <2>2, <2>3, DoneKeeps
<1>6. QED
  BY <1>3, <1>4, <1>5

-----------------------------------------------------------------------------
LEMMA StackInit == EvalInit => StackInv
<1> SUFFICES ASSUME EvalInit PROVE StackInv
  OBVIOUS
<1> DEFINE first == [site |-> HALT, depth |-> 0, env |-> image.env]
<1>1. /\ at = "eval" /\ stack = <<>> /\ calls = <<first>>
      /\ cpu = [expr |-> image.expr, env |-> image.env, ret |-> Site(HALT), val |-> Nil, frame |-> Nil]
  BY DEF EvalInit
<1>2. first.site = HALT /\ first.depth = 0
  OBVIOUS
<1> HIDE DEF first
<1>3. IsSequence(calls) /\ Len(calls) = 1 /\ calls[1] = first
  BY <1>1, OneWord
<1>4. IsSequence(stack) /\ Len(stack) = 0
  BY <1>1, EmptySeq DEF IsSequence
<1>5. ShapeOK /\ RunOK /\ AfterOK
  BY <1>1, <1>2, <1>3, <1>4 DEF ShapeOK, RunOK, AfterOK, Inside, Going
<1>6. ChainOK
  BY <1>2, <1>3 DEF ChainOK, FrameOK
<1>7. QED
  BY <1>5, <1>6 DEF StackInv

LEMMA StackNext == StackInv /\ [EvalNext]_evalVars => StackInv'
<1> SUFFICES ASSUME StackInv, [EvalNext]_evalVars PROVE StackInv'
  OBVIOUS
<1>1. CASE EvalNext
  BY <1>1, EvalBlocks, ReturnKeeps, AfterBlocks, OperandBlocks DEF EvalNext
<1>2. CASE UNCHANGED evalVars
  BY <1>2 DEF evalVars, StackInv, ShapeOK, ChainOK, FrameOK, RunOK, AfterOK, Inside, IsSequence
<1>3. QED
  BY <1>1, <1>2

(* For every memory image, expression and heap size: wherever eval         *)
(* returns, its stack is as high as at the call and R5 holds the address   *)
(* of the caller, however deep the calls (eval_core.inc:19-21, 155-159,    *)
(* 264-272).                                                               *)
THEOREM StackCorrect == EvalSpec => []StackIsBalanced
<1>1. StackInv => StackIsBalanced
  <2>1. SUFFICES ASSUME StackInv, at = "return" PROVE Len(stack) = Head(calls).depth /\ cpu.ret = Site(Head(calls).site)
    BY DEF StackIsBalanced
  <2>2. Len(calls) > 0 /\ Len(stack) = calls[1].depth /\ cpu.ret = Site(calls[1].site)
    BY <2>1 DEF StackInv, RunOK, Inside
  <2>3. Head(calls) = calls[1]
    BY <2>1, <2>2 DEF StackInv, ShapeOK, IsSequence
  <2>4. QED
    BY <2>2, <2>3
<1>2. QED
  BY StackInit, StackNext, <1>1, PTL DEF EvalSpec
-----------------------------------------------------------------------------
(* A chain of UPC-8 transforms.  A byte is the sum of its five fields.     *)
Fielded(a, r, f, n, l) == 64 * a + 8 * r + 4 * f + 2 * n + l

LEMMA FieldsOf ==
  ASSUME NEW a \in 0 .. 3, NEW r \in 0 .. 7, NEW f \in 0 .. 1, NEW n \in 0 .. 1, NEW l \in 0 .. 1
  PROVE  LET c == Fielded(a, r, f, n, l)
         IN  c \in Byte /\ Cls(c) = a /\ Row(c) = r /\ Free(c) = f /\ Nasal(c) = n /\ Length(c) = l
BY SMTT(30) DEF Fielded, Byte, Cls, Row, Free, Nasal, Length

LEMMA ByteIsFielded ==
  ASSUME NEW c \in Byte
  PROVE  /\ Cls(c) \in 0 .. 3 /\ Row(c) \in 0 .. 7
         /\ Free(c) \in 0 .. 1 /\ Nasal(c) \in 0 .. 1 /\ Length(c) \in 0 .. 1
         /\ c = Fielded(Cls(c), Row(c), Free(c), Nasal(c), Length(c))
BY SMTT(30) DEF Fielded, Byte, Cls, Row, Free, Nasal, Length

(* The two consonant tables, one image a code at most.                     *)
VoiceOf(c) ==
    CASE c = 35 -> {24} [] c = 27 -> {19} [] c = 32 -> {22} [] c = 29 -> {17} [] c = 33 -> {25}
      [] c = 30 -> {20} [] c = 34 -> {26} [] c = 31 -> {21} [] c = 36 -> {23} [] c = 28 -> {18}
      [] OTHER  -> {}
AspirateOf(c) ==
    CASE c = 35 -> {27} [] c = 24 -> {19} [] c = 32 -> {29} [] c = 22 -> {17} [] c = 33 -> {30}
      [] c = 25 -> {20} [] c = 34 -> {31} [] c = 26 -> {21} [] c = 36 -> {28} [] c = 23 -> {18}
      [] OTHER  -> {}

LEMMA TablesAreFunctions ==
  ASSUME NEW c \in Byte
  PROVE  Images(VOICE, c) = VoiceOf(c) /\ Images(ASPIRATE, c) = AspirateOf(c)
<1>1. Images(VOICE, c) = {p[2] : p \in {q \in VoicePairs : q[1] = c}}
  BY DEF Images, NOP, TOGGLE_LENGTH, TOGGLE_NASAL, NEXT_ROW, PREV_ROW, GUNA, VOICE, ASPIRATE
<1>2. Images(ASPIRATE, c) = {p[2] : p \in {q \in AspiratePairs : q[1] = c}}
  BY DEF Images, NOP, TOGGLE_LENGTH, TOGGLE_NASAL, NEXT_ROW, PREV_ROW, GUNA, VOICE, ASPIRATE
<1>3. \A x : x \in Images(VOICE, c) <=> <<c, x>> \in VoicePairs
  <2>1. \A q \in VoicePairs : q = <<q[1], q[2]>>
    BY DEF VoicePairs
  <2>2. QED
    BY <1>1, <2>1
<1>4. \A x : x \in Images(ASPIRATE, c) <=> <<c, x>> \in AspiratePairs
  <2>1. \A q \in AspiratePairs : q = <<q[1], q[2]>>
    BY DEF AspiratePairs
  <2>2. QED
    BY <1>2, <2>1
<1>5. \A x : <<c, x>> \in VoicePairs <=> x \in VoiceOf(c)
  BY SMT DEF VoicePairs, VoiceOf, Byte
<1>6. \A x : <<c, x>> \in AspiratePairs <=> x \in AspirateOf(c)
  BY SMT DEF AspiratePairs, AspirateOf, Byte
<1>7. QED
  BY <1>3, <1>4, <1>5, <1>6
(* Two codes of one layer: of the Sanskrit layer both or neither, and then *)
(* of the reserved row both or neither.                                    *)
SameLayer(c, d) == /\ SktLayer(c) <=> SktLayer(d)
                   /\ SktLayer(c) => (ReservedRow(c) <=> ReservedRow(d))

(* What an operation makes of a code of the Sanskrit layer differs from it *)
(* in the row, which stays the reserved one or another, the nasal bit or   *)
(* the length bit.                                                         *)
LEMMA FieldChanged ==
  ASSUME NEW c \in Byte, SktLayer(c), NEW r \in 0 .. 7, r = 7 <=> Row(c) = 7,
         NEW n \in 0 .. 1, NEW l \in 0 .. 1
  PROVE  LET d == Fielded(2, r, 0, n, l)
         IN  d \in Byte /\ SameLayer(c, d) /\ Row(d) = r /\ Nasal(d) = n /\ Length(d) = l
<1> DEFINE d == Fielded(2, r, 0, n, l)
<1>1. d \in Byte /\ Cls(d) = 2 /\ Row(d) = r /\ Free(d) = 0 /\ Nasal(d) = n /\ Length(d) = l
  BY FieldsOf
<1>2. SameLayer(c, d)
  <2> HIDE DEF d
  <2>1. QED
    BY <1>1 DEF SameLayer, SktLayer, Class10, ReservedRow
<1>3. QED
  BY <1>1, <1>2

LEMMA LayerKept ==
  ASSUME NEW c \in Byte, NEW o \in NOP .. ASPIRATE, NEW d \in Images(o, c)
  PROVE  d \in Byte /\ SameLayer(c, d)
<1> USE DEF NOP, TOGGLE_LENGTH, TOGGLE_NASAL, NEXT_ROW, PREV_ROW, GUNA, VOICE, ASPIRATE
<1> DEFINE r == Row(c)  n == Nasal(c)  l == Length(c)
<1>0. /\ r \in 0 .. 7 /\ n \in 0 .. 1 /\ l \in 0 .. 1
      /\ SktLayer(c) => c = Fielded(2, r, 0, n, l)
  BY ByteIsFielded DEF SktLayer, Class10
<1> HIDE DEF r, n, l
<1>1. CASE o = NOP
  BY <1>1 DEF Images, SameLayer
<1>2. CASE o = TOGGLE_LENGTH
  <2>1. SktLayer(c) /\ d = FlipLength(c)
    BY <1>2 DEF Images, Only
  <2>2. d = Fielded(2, r, 0, n, 1 - l) /\ 1 - l \in 0 .. 1
    BY <1>0, <2>1 DEF FlipLength, Fielded, l
  <2>3. QED
    BY <1>0, <2>1, <2>2, FieldChanged DEF r
<1>3. CASE o = TOGGLE_NASAL
  <2>1. SktLayer(c) /\ d = FlipNasal(c)
    BY <1>3 DEF Images, Only
  <2>2. d = Fielded(2, r, 0, 1 - n, l) /\ 1 - n \in 0 .. 1
    BY <1>0, <2>1 DEF FlipNasal, Fielded, n
  <2>3. QED
    BY <1>0, <2>1, <2>2, FieldChanged DEF r
<1>4. CASE o = NEXT_ROW
  <2>1. SktLayer(c) /\ r < 7 /\ d = WithRow(c, NextRow(c))
    BY <1>4 DEF Images, Only, r
  <2>2. NextRow(c) \in 0 .. 6
    BY <1>0 DEF NextRow, r
  <2>3. d = Fielded(2, NextRow(c), 0, n, l)
    BY <1>0, <2>1, <2>2 DEF WithRow, Fielded, r
  <2>4. QED
    BY <1>0, <2>1, <2>2, <2>3, FieldChanged DEF r
<1>5. CASE o = PREV_ROW
  <2>1. SktLayer(c) /\ r < 7 /\ d = WithRow(c, PrevRow(c))
    BY <1>5 DEF Images, Only, r
  <2>2. PrevRow(c) \in 0 .. 6
    BY <1>0 DEF PrevRow, r
  <2>3. d = Fielded(2, PrevRow(c), 0, n, l)
    BY <1>0, <2>1, <2>2 DEF WithRow, Fielded, r
  <2>4. QED
    BY <1>0, <2>1, <2>2, <2>3, FieldChanged DEF r
<1>6. CASE o = GUNA
  <2>1. SktLayer(c) /\ r < 7 /\ d = GunaOf(c)
    BY <1>6 DEF Images, Only, OralSkt, r
  <2>2. CASE r >= 5
    <3>1. d = Fielded(2, r, 0, n, 1)
      BY <1>0, <2>1, <2>2 DEF GunaOf, WithLength1, Fielded, r, l
    <3>2. QED
      BY <1>0, <2>1, <3>1, FieldChanged DEF r
  <2>3. CASE r < 5
    <3>1. PICK q \in {0, 5} : d = WithRow(c, q)
      BY <1>0, <2>1, <2>3 DEF GunaOf, r
    <3>2. d = Fielded(2, q, 0, n, l)
      BY <1>0, <2>1, <3>1 DEF WithRow, Fielded, r
    <3>3. QED
      BY <1>0, <2>1, <3>1, <3>2, FieldChanged DEF r
  <2>4. QED
    BY <1>0, <2>2, <2>3
<1>7. CASE o \in {VOICE, ASPIRATE}
  <2>1. d \in VoiceOf(c) \/ d \in AspirateOf(c)
    BY <1>7, TablesAreFunctions
  <2>2. c \in 22 .. 36 /\ d \in 17 .. 31
    <3>1. CASE d \in VoiceOf(c)
      BY <3>1 DEF VoiceOf
    <3>2. CASE d \in AspirateOf(c)
      BY <3>2 DEF AspirateOf
    <3>3. QED
      BY <2>1, <3>1, <3>2
  <2>3. Cls(c) = 0 /\ Cls(d) = 0 /\ d \in Byte
    BY <2>2 DEF Cls, Byte
  <2>4. QED
    BY <2>3 DEF SameLayer, SktLayer, Class10
<1>8. QED
  BY <1>1, <1>2, <1>3, <1>4, <1>5, <1>6, <1>7
(* The code in the result word is an image of the operand's code, or on an *)
(* error that code itself.                                                 *)
LEMMA ResultCode ==
  ASSUME NEW c \in Byte, NEW o \in NOP .. ASPIRATE
  PROVE  LET d == CodeOf(Upc8Result(5, Operand(o, c)))
         IN  d \in Images(o, c) \/ d = c
<1> DEFINE w == Operand(o, c)
<1>1. CodeOf(w) = c /\ OpOf(w) = o
  BY DEF CodeOf, OpOf, Operand, MkWord, Byte, NOP, ASPIRATE
<1> HIDE DEF w
<1> DEFINE x == TransformOut(o, c)
<1>2. x \in Images(o, c) \/ x = c
  BY DEF TransformOut, TransformError
<1>3. x \in Byte
  BY <1>2, LayerKept
<1>4. CodeOf(Upc8Result(5, w)) = TransformValue(o, c) % 256
  BY <1>1 DEF Upc8Result, CodeOf, MkWord
<1>5. TransformValue(o, c) = x + 256 * (1 + 2 * Bit(TransformError(o, c)) + 32 * o)
  <2>1. Bit(TransformError(o, c)) \in Int
    BY DEF Bit
  <2> HIDE DEF x
  <2>2. TransformValue(o, c) = x + 256 + 512 * Bit(TransformError(o, c)) + 8192 * o
    BY DEF TransformValue, x
  <2>3. QED
    BY <1>3, <2>1, <2>2 DEF Byte, NOP, ASPIRATE
<1>6. TransformValue(o, c) % 256 = x
  <2> DEFINE k == 1 + 2 * Bit(TransformError(o, c)) + 32 * o
  <2>1. k \in Nat
    BY DEF Bit, NOP, ASPIRATE
  <2> HIDE DEF x, k
  <2>2. (x + 256 * k) % 256 = x
    BY <1>3, <2>1 DEF Byte
  <2>3. QED
    BY <1>5, <2>2 DEF k
<1>7. QED
  BY <1>2, <1>4, <1>6 DEF w

ChainInv == origin \in Byte /\ Now \in Byte /\ SameLayer(origin, Now)

LEMMA ChainInitInv == ChainInit => ChainInv
<1>1. SUFFICES ASSUME ChainInit PROVE ChainInv
  OBVIOUS
<1>2. origin \in Byte /\ result = Upc8Result(5, Operand(NOP, origin))
  BY <1>1 DEF ChainInit
<1>3. Now \in Images(NOP, origin) \/ Now = origin
  BY <1>2, ResultCode DEF Now, NOP, ASPIRATE
<1>4. Now = origin
  BY <1>3 DEF Images, NOP, TOGGLE_LENGTH, TOGGLE_NASAL, NEXT_ROW, PREV_ROW, GUNA, VOICE, ASPIRATE
<1>5. QED
  BY <1>2, <1>4 DEF ChainInv, SameLayer

LEMMA ChainNextInv == ChainInv /\ [ChainNext]_chainVars => ChainInv'
<1>1. SUFFICES ASSUME ChainInv, [ChainNext]_chainVars PROVE ChainInv'
  OBVIOUS
<1>2. ASSUME NEW o \in NOP .. ASPIRATE, Transform(o) PROVE ChainInv'
  <2>1. Now \in Byte /\ origin' = origin /\ Now' = CodeOf(Upc8Result(5, Operand(o, Now)))
    BY <1>1, <1>2 DEF ChainInv, Transform, Now
  <2>2. Now' \in Images(o, Now) \/ Now' = Now
    BY <2>1, ResultCode
  <2>3. Now' \in Byte /\ SameLayer(Now, Now')
    BY <2>1, <2>2, LayerKept DEF SameLayer
  <2>4. SameLayer(origin, Now')
    BY <1>1, <2>3 DEF ChainInv, SameLayer
  <2>5. QED
    BY <1>1, <2>1, <2>3, <2>4 DEF ChainInv
<1>3. CASE UNCHANGED chainVars
  BY <1>1, <1>3 DEF chainVars, ChainInv, Now
<1>4. QED
  BY <1>1, <1>2, <1>3 DEF ChainNext

(* No chain of transforms, from any code and of any length, leaves the     *)
(* layer of its first code (upc8_unit.sv:84-198).                          *)
THEOREM ChainsKeepLayer == ChainInit /\ [][ChainNext]_chainVars => []ChainsStayInLayer
<1>1. ChainInv => ChainsStayInLayer
  BY DEF ChainInv, SameLayer, ChainsStayInLayer
<1>2. QED
  BY <1>1, ChainInitInv, ChainNextInv, PTL

(* Voicing and aspirating a code commute where both are defined.           *)
LEMMA TablesAgree ==
  ASSUME NEW c \in Byte, Images(VOICE, c) # {}, Images(ASPIRATE, c) # {}
  PROVE  Then(VOICE, ASPIRATE, c) = Then(ASPIRATE, VOICE, c) /\ Then(VOICE, ASPIRATE, c) # {}
<1>1. \A b \in Byte : Images(VOICE, b) = VoiceOf(b) /\ Images(ASPIRATE, b) = AspirateOf(b)
  BY TablesAreFunctions
<1>2. VoiceOf(c) # {} /\ AspirateOf(c) # {}
  BY <1>1
<1>3. c \in {32, 33, 34, 35, 36}
  <2>1. c \in {35, 27, 32, 29, 33, 30, 34, 31, 36, 28}
    BY <1>2 DEF VoiceOf
  <2>2. c \in {35, 24, 32, 22, 33, 25, 34, 26, 36, 23}
    BY <1>2 DEF AspirateOf
  <2>3. QED
    BY <2>1, <2>2
<1>4. CASE c = 32
  <2>1. VoiceOf(32) = {22} /\ AspirateOf(32) = {29} /\ AspirateOf(22) = {17} /\ VoiceOf(29) = {17}
    BY SMT DEF VoiceOf, AspirateOf
  <2>2. 22 \in Byte /\ 29 \in Byte
    BY DEF Byte
  <2>3. Images(VOICE, c) = {22} /\ Images(ASPIRATE, c) = {29} /\ Images(ASPIRATE, 22) = {17} /\ Images(VOICE, 29) = {17}
    BY <1>1, <1>4, <2>1, <2>2
  <2>4. QED
    BY <2>3 DEF Then
<1>5. CASE c = 33
  <2>1. VoiceOf(33) = {25} /\ AspirateOf(33) = {30} /\ AspirateOf(25) = {20} /\ VoiceOf(30) = {20}
    BY SMT DEF VoiceOf, AspirateOf
  <2>2. 25 \in Byte /\ 30 \in Byte
    BY DEF Byte
  <2>3. Images(VOICE, c) = {25} /\ Images(ASPIRATE, c) = {30} /\ Images(ASPIRATE, 25) = {20} /\ Images(VOICE, 30) = {20}
    BY <1>1, <1>5, <2>1, <2>2
  <2>4. QED
    BY <2>3 DEF Then
<1>6. CASE c = 34
  <2>1. VoiceOf(34) = {26} /\ AspirateOf(34) = {31} /\ AspirateOf(26) = {21} /\ VoiceOf(31) = {21}
    BY SMT DEF VoiceOf, AspirateOf
  <2>2. 26 \in Byte /\ 31 \in Byte
    BY DEF Byte
  <2>3. Images(VOICE, c) = {26} /\ Images(ASPIRATE, c) = {31} /\ Images(ASPIRATE, 26) = {21} /\ Images(VOICE, 31) = {21}
    BY <1>1, <1>6, <2>1, <2>2
  <2>4. QED
    BY <2>3 DEF Then
<1>7. CASE c = 35
  <2>1. VoiceOf(35) = {24} /\ AspirateOf(35) = {27} /\ AspirateOf(24) = {19} /\ VoiceOf(27) = {19}
    BY SMT DEF VoiceOf, AspirateOf
  <2>2. 24 \in Byte /\ 27 \in Byte
    BY DEF Byte
  <2>3. Images(VOICE, c) = {24} /\ Images(ASPIRATE, c) = {27} /\ Images(ASPIRATE, 24) = {19} /\ Images(VOICE, 27) = {19}
    BY <1>1, <1>7, <2>1, <2>2
  <2>4. QED
    BY <2>3 DEF Then
<1>8. CASE c = 36
  <2>1. VoiceOf(36) = {23} /\ AspirateOf(36) = {28} /\ AspirateOf(23) = {18} /\ VoiceOf(28) = {18}
    BY SMT DEF VoiceOf, AspirateOf
  <2>2. 23 \in Byte /\ 28 \in Byte
    BY DEF Byte
  <2>3. Images(VOICE, c) = {23} /\ Images(ASPIRATE, c) = {28} /\ Images(ASPIRATE, 23) = {18} /\ Images(VOICE, 28) = {18}
    BY <1>1, <1>8, <2>1, <2>2
  <2>4. QED
    BY <2>3 DEF Then
<1>9. QED
  BY <1>3, <1>4, <1>5, <1>6, <1>7, <1>8

(* The next row and the previous one undo each other.                      *)
LEMMA RowsAreACycle ==
  ASSUME NEW c \in Byte
  PROVE  /\ Images(NEXT_ROW, c) # {} <=> Images(PREV_ROW, c) # {}
         /\ Images(NEXT_ROW, c) # {} => /\ Then(NEXT_ROW, PREV_ROW, c) = {c}
                                        /\ Then(PREV_ROW, NEXT_ROW, c) = {c}
<1>1. \A d : /\ Images(NEXT_ROW, d) = Only(SktLayer(d) /\ Row(d) < 7, WithRow(d, NextRow(d)))
             /\ Images(PREV_ROW, d) = Only(SktLayer(d) /\ Row(d) < 7, WithRow(d, PrevRow(d)))
  BY DEF Images, NOP, TOGGLE_LENGTH, TOGGLE_NASAL, NEXT_ROW, PREV_ROW, GUNA, VOICE, ASPIRATE
<1>2. SUFFICES ASSUME SktLayer(c), Row(c) < 7
      PROVE  Then(NEXT_ROW, PREV_ROW, c) = {c} /\ Then(PREV_ROW, NEXT_ROW, c) = {c}
  BY <1>1 DEF Only
<1>3. /\ Row(c) \in 0 .. 6 /\ Nasal(c) \in 0 .. 1 /\ Length(c) \in 0 .. 1
      /\ c = Fielded(2, Row(c), 0, Nasal(c), Length(c))
  BY <1>2, ByteIsFielded DEF SktLayer, Class10
<1>4. ASSUME NEW q \in 0 .. 6
      PROVE  LET d == WithRow(c, q)
             IN  SktLayer(d) /\ Row(d) = q /\ \A p \in 0 .. 6 : p = Row(c) => WithRow(d, p) = c
  <2> DEFINE d == WithRow(c, q)
  <2>1. d = Fielded(2, q, 0, Nasal(c), Length(c))
    BY <1>3 DEF WithRow, Fielded
  <2>2. SktLayer(d) /\ Row(d) = q
    BY <1>2, <1>3, <2>1, FieldChanged DEF SameLayer
  <2>3. c \in Int
    BY DEF Byte
  <2>4. WithRow(d, Row(c)) = c
    <3> HIDE DEF d
    <3>1. d = c + 8 * (q - Row(c))
      BY DEF d, WithRow
    <3>2. QED
      BY <1>3, <2>2, <2>3, <3>1 DEF WithRow
  <2>5. QED
    BY <2>2, <2>4
<1>5. /\ NextRow(c) \in 0 .. 6 /\ PrevRow(c) \in 0 .. 6
      /\ \A d : Row(d) = NextRow(c) => PrevRow(d) = Row(c)
      /\ \A d : Row(d) = PrevRow(c) => NextRow(d) = Row(c)
  BY <1>3 DEF NextRow, PrevRow
<1>6. Then(NEXT_ROW, PREV_ROW, c) = {c}
  <2> DEFINE d == WithRow(c, NextRow(c))
  <2>1. SktLayer(d) /\ Row(d) = NextRow(c) /\ WithRow(d, Row(c)) = c
    BY <1>3, <1>4, <1>5
  <2>2. Images(NEXT_ROW, c) = {d}
    BY <1>1, <1>2 DEF Only
  <2> HIDE DEF d
  <2>3. Images(PREV_ROW, d) = {c}
    BY <1>1, <1>5, <2>1 DEF Only
  <2>4. QED
    BY <2>2, <2>3 DEF Then
<1>7. Then(PREV_ROW, NEXT_ROW, c) = {c}
  <2> DEFINE d == WithRow(c, PrevRow(c))
  <2>1. SktLayer(d) /\ Row(d) = PrevRow(c) /\ WithRow(d, Row(c)) = c
    BY <1>3, <1>4, <1>5
  <2>2. Images(PREV_ROW, c) = {d}
    BY <1>1, <1>2 DEF Only
  <2> HIDE DEF d
  <2>3. Images(NEXT_ROW, d) = {c}
    BY <1>1, <1>5, <2>1 DEF Only
  <2>4. QED
    BY <2>2, <2>3 DEF Then
<1>8. QED
  BY <1>6, <1>7

(* At every code a chain comes to, the consonant tables commute and the    *)
(* rows form one cycle (upc8_unit.sv:110-134, 153-191).                    *)
THEOREM ChainsAgree == ChainInit /\ [][ChainNext]_chainVars => []TransformsAgree
<1>1. ChainInv => TransformsAgree
  BY TablesAgree, RowsAreACycle DEF ChainInv, TransformsAgree
<1>2. QED
  BY <1>1, ChainInitInv, ChainNextInv, PTL
=============================================================================
