------------------------------ MODULE Evaluator ------------------------------
(***************************************************************************)
(* fpga/asm/eval_core.inc: eval and lookup, the Lisp evaluator in the      *)
(* machine's own instructions.  A step is the code between two calls of    *)
(* eval, or one turn of the lookup loop.  R3 is expr, R4 env, R5 ret, R9   *)
(* val, R11 the stack; of the other registers a block reads after a call   *)
(* only what it has popped.  The list of pairs in R11 is a sequence here,  *)
(* its pairs are counted in used.                                          *)
(***************************************************************************)
EXTENDS LispWord, Sequences

CONSTANTS EvalImages,     \* what a program may have built: cells, expr and env
          HeapCells

ASSUME EvaluatorAssumption == HeapCells \in Nat

SYM_QUOTE == 50
SYM_COND  == 80
PRIM_CAR  == 0
PRIM_CDR  == 1
PRIM_CONS == 2
PRIM_ATOM == 3
PRIM_EQ   == 4
PRIM_ADD  == 5

(* The addresses eval returns to: that of the caller, and those after a    *)
(* clause's test, an expression that gives the value, an operator, the     *)
(* argument for a single parameter, one of several, an operand.            *)
HALT           == 0
AFTER_TEST     == 1
AFTER_BODY     == 2
AFTER_OPERATOR == 3
AFTER_ONLY     == 4
AFTER_ARGUMENT == 5
AfterFirst(p)  == 10 + p
AfterSecond(p) == 20 + p
Unary  == {PRIM_CAR, PRIM_CDR, PRIM_ATOM}
Binary == {PRIM_CONS, PRIM_EQ, PRIM_ADD}
Site(n) == MkWord(TAG_FIXNUM, n)

VARIABLES image,          \* the image that was started
          at,             \* "eval", "lookup", "return", "after", or how it ended
          cpu,            \* expr, env, ret, val; frame is R13 of lookup
          cells,          \* the pairs that hold data
          used,           \* pairs allocated, those of the stack included
          stack,          \* R11
          calls,          \* history: the calls of eval in progress
          lost            \* history: R4 came back changed and is used again

evalVars == <<image, at, cpu, cells, used, stack, calls, lost>>

Ended == {"halted", "type error", "heap full"}

EvalInit == /\ image \in EvalImages
            /\ at = "eval"
            /\ cpu = [expr |-> image.expr, env |-> image.env, ret |-> Site(HALT), val |-> Nil, frame |-> Nil]
            /\ cells = image.cells
            /\ used = Len(image.cells)
            /\ stack = <<>>
            /\ calls = <<[site |-> HALT, depth |-> 0, env |-> image.env]>>
            /\ lost = FALSE

CarOf(w) == cells[w.value + 1].car
CdrOf(w) == cells[w.value + 1].cdr
NewPair(k) == MkWord(TAG_CONS, Len(cells) + k)

(* CAR or CDR of an atom and CONS on a full heap stop the machine.         *)
Stop(how)        == at' = how /\ UNCHANGED <<image, cpu, cells, used, stack, calls, lost>>
Needs(w, step)   == IF IsCons(w) THEN step ELSE Stop("type error")
Room(n, step)    == IF used + n <= HeapCells THEN step ELSE Stop("heap full")

(* n words are popped, new pairs are made, then                            *)
(* CALL R5, eval with words pushed before it, the last one pushed first;   *)
Call(site, e, env, new, saved, n) ==
    Room(Len(new) + Len(saved),
         /\ at' = "eval"
         /\ cpu' = [cpu EXCEPT !.expr = e, !.env = env, !.ret = Site(site)]
         /\ cells' = cells \o new
         /\ used' = used + Len(new) + Len(saved)
         /\ stack' = saved \o SubSeq(stack, n + 1, Len(stack))
         /\ calls' = <<[site |-> site, depth |-> Len(stack) - n + Len(saved), env |-> env]>> \o calls
         /\ UNCHANGED <<image, lost>>)

(* or JMP done with the value.                                             *)
Done(v, ret, env, new, n) ==
    Room(Len(new),
         /\ at' = "return"
         /\ cpu' = [cpu EXCEPT !.val = v, !.ret = ret, !.env = env]
         /\ cells' = cells \o new
         /\ used' = used + Len(new)
         /\ stack' = SubSeq(stack, n + 1, Len(stack))
         /\ UNCHANGED <<image, calls, lost>>)
Answer(v) == Done(v, cpu.ret, cpu.env, <<>>, 0)

-----------------------------------------------------------------------------
(* eval: atoms, quote, cond, and the operator of anything else.            *)
SelfEval == /\ at = "eval" /\ ~IsCons(cpu.expr) /\ cpu.expr.tag # TAG_SYMBOL
            /\ Answer(cpu.expr)

Symbol == /\ at = "eval" /\ cpu.expr.tag = TAG_SYMBOL
          /\ at' = "lookup"
          /\ cpu' = [cpu EXCEPT !.frame = cpu.env]
          /\ UNCHANGED <<image, cells, used, stack, calls, lost>>

(* Faulty: the next binding is not stepped to.                             *)
Binding == CarOf(cpu.frame)
LookIn(next) ==
    /\ at = "lookup"
    /\ IF ~IsCons(cpu.frame) \/ ~IsCons(Binding) THEN Stop("type error")
       ELSE IF CarOf(Binding) = cpu.expr THEN Answer(CdrOf(Binding))
       ELSE /\ cpu' = [cpu EXCEPT !.frame = next]
            /\ UNCHANGED <<image, at, cells, used, stack, calls, lost>>
FaultyLookup == LookIn(cpu.frame)
lookup       == LookIn(CdrOf(cpu.frame))

Form(sym)   == at = "eval" /\ IsCons(cpu.expr) /\ CarOf(cpu.expr) = MkWord(TAG_SYMBOL, sym)

Quote == /\ Form(SYM_QUOTE)
         /\ Needs(CdrOf(cpu.expr), Answer(CarOf(CdrOf(cpu.expr))))

CondLoop(clauses, ret, n) ==
    IF ~IsCons(clauses) THEN Done(Nil, ret, cpu.env, <<>>, n)
    ELSE Needs(CarOf(clauses),
               Call(AFTER_TEST, CarOf(CarOf(clauses)), cpu.env, <<>>, <<CarOf(clauses), clauses, ret>>, n))

Cond == Form(SYM_COND) /\ CondLoop(CdrOf(cpu.expr), cpu.ret, 0)

TryApply == /\ at = "eval" /\ IsCons(cpu.expr) /\ ~Form(SYM_QUOTE) /\ ~Form(SYM_COND)
            /\ Call(AFTER_OPERATOR, CarOf(cpu.expr), cpu.env, <<>>, <<CdrOf(cpu.expr), cpu.env, cpu.ret>>, 0)

(* done.                                                                   *)
Return == /\ at = "return"
          /\ at' = IF cpu.ret = Site(HALT) THEN "halted" ELSE "after"
          /\ calls' = Tail(calls)
          /\ lost' = (lost \/ /\ cpu.ret.value \in {AFTER_TEST} \cup {AfterFirst(p) : p \in Binary}
                              /\ cpu.env # Head(calls).env)
          /\ UNCHANGED <<image, cpu, cells, used, stack>>
After(site) == at = "after" /\ cpu.ret = Site(site)

AfterTest == /\ After(AFTER_TEST)
             /\ LET clause == stack[1]  clauses == stack[2]  ret == stack[3]
                IN  IF cpu.val.tag = TAG_NIL THEN CondLoop(CdrOf(clauses), ret, 3)
                    ELSE Needs(CdrOf(clause),
                               Call(AFTER_BODY, CarOf(CdrOf(clause)), cpu.env, <<>>, <<ret>>, 3))

AfterBody == After(AFTER_BODY) /\ Done(cpu.val, stack[1], cpu.env, <<>>, 1)

-----------------------------------------------------------------------------
(* The operator's value is applied; the frame of its call is popped.       *)
(* Faulty: a pop that belongs to a push long removed.                      *)
PrimitivePopping(n, p, args, env, ret) ==
    Needs(args,
      LET rest   == CdrOf(args)
          second == IF IsCons(rest) THEN CarOf(rest) ELSE rest
      IN  IF p \in Unary THEN Call(AfterFirst(p), CarOf(args), env, <<>>, <<ret>>, n)
          ELSE IF p \in Binary THEN Call(AfterFirst(p), CarOf(args), env, <<>>, <<second, ret>>, n)
          ELSE Done(Nil, ret, env, <<>>, n))
FaultyPrimitive(p, args, env, ret) == PrimitivePopping(4, p, args, env, ret)
Primitive(p, args, env, ret)       == PrimitivePopping(3, p, args, env, ret)

(* nary_loop: the next parameter, or the body when there is none left.     *)
Bind(params, args, accum, body, ret, env, new, n) ==
    IF ~IsCons(params) THEN Call(AFTER_BODY, body, accum, new, <<ret>>, n)
    ELSE Needs(args,
               Call(AFTER_ARGUMENT, CarOf(args), env, new,
                    <<env, ret, body, accum, CdrOf(args), CdrOf(params), CarOf(params)>>, n))

Closure(f, args, env, ret) ==
    IF ~IsCons(f) \/ (IsCons(CarOf(f)) /\ ~IsCons(CdrOf(f))) THEN Stop("type error")
    ELSE IF IsCons(CarOf(f)) THEN Bind(CarOf(f), args, CdrOf(CdrOf(f)), CarOf(CdrOf(f)), ret, env, <<>>, 3)
    ELSE Needs(args, Call(AFTER_ONLY, CarOf(args), env, <<>>, <<f, env, ret>>, 3))

AfterOperator == /\ After(AFTER_OPERATOR)
                 /\ LET args == stack[1]  env == stack[2]  ret == stack[3]
                    IN  IF cpu.val.tag = TAG_PRIMITIVE THEN Primitive(cpu.val.value, args, env, ret)
                        ELSE Closure(cpu.val, args, env, ret)

(* The environment grows by the pair of the parameter and its value.       *)
Extended(param, env) == <<[car |-> param, cdr |-> cpu.val], [car |-> NewPair(0), cdr |-> env]>>

AfterOnly == /\ After(AFTER_ONLY)
             /\ LET f == stack[1]  ret == stack[3]
                IN  Needs(CdrOf(f),
                      Call(AFTER_BODY, CarOf(CdrOf(f)), NewPair(1), Extended(CarOf(f), CdrOf(CdrOf(f))), <<ret>>, 3))

(* Faulty: the binding is added to the environment of the call.            *)
BindingIn(accum) == /\ After(AFTER_ARGUMENT)
                    /\ Bind(stack[6], stack[5], NewPair(1), stack[3], stack[2], stack[1],
                            Extended(stack[7], accum), 7)
FaultyAfterArgument == BindingIn(stack[1])
AfterArgument       == BindingIn(stack[4])

AfterFirstOperand ==
    /\ at = "after"
    /\ \/ /\ cpu.ret = Site(AfterFirst(PRIM_CAR))
          /\ Needs(cpu.val, Done(CarOf(cpu.val), stack[1], cpu.env, <<>>, 1))
       \/ /\ cpu.ret = Site(AfterFirst(PRIM_CDR))
          /\ Needs(cpu.val, Done(CdrOf(cpu.val), stack[1], cpu.env, <<>>, 1))
       \/ /\ cpu.ret = Site(AfterFirst(PRIM_ATOM))
          /\ Done(Truth(~IsCons(cpu.val)), stack[1], cpu.env, <<>>, 1)
       \/ \E p \in Binary : /\ cpu.ret = Site(AfterFirst(p))
                            /\ Call(AfterSecond(p), stack[1], cpu.env, <<>>, <<cpu.val, stack[2]>>, 2)

AfterSecondOperand ==
    /\ at = "after"
    /\ LET first == stack[1]  ret == stack[2]
       IN  \/ /\ cpu.ret = Site(AfterSecond(PRIM_EQ))
              /\ Done(Truth(first = cpu.val), ret, cpu.env, <<>>, 2)
           \/ /\ cpu.ret = Site(AfterSecond(PRIM_CONS))
              /\ Done(NewPair(0), ret, cpu.env, <<[car |-> first, cdr |-> cpu.val]>>, 2)
           \/ /\ cpu.ret = Site(AfterSecond(PRIM_ADD))
              /\ Done(MkWord(TAG_FIXNUM, WrapAdd(first.value, cpu.val.value)), ret, cpu.env, <<>>, 2)

EvalNext == \/ SelfEval \/ Symbol \/ lookup \/ Quote \/ Cond \/ TryApply \/ Return
            \/ AfterTest \/ AfterBody \/ AfterOperator \/ AfterOnly \/ AfterArgument
            \/ AfterFirstOperand \/ AfterSecondOperand

EvalSpec == EvalInit /\ [][EvalNext]_evalVars /\ WF_evalVars(EvalNext)

-----------------------------------------------------------------------------
(* Wherever eval returns, it has popped what it and the calls within it    *)
(* have pushed, and goes back to the code that called it: what that code   *)
(* pops is its own (eval_core.inc:19-21, 155-159, 264-272).                *)
StackIsBalanced == at = "return" => /\ Len(stack) = Head(calls).depth
                                    /\ cpu.ret = Site(Head(calls).site)

(* Every evaluation ends: a recursion without end takes pairs for its      *)
(* stack until the heap is full, and no lookup goes around in circles      *)
(* (eval_core.inc:65-69, 94-98, 323-332).                                  *)
EvaluationEnds == <>(at \in Ended)
=============================================================================
