--------------------------- MODULE EvaluatorMeaning ---------------------------
(***************************************************************************)
(* What the expressions that eval_core.inc evaluates mean, by recursion on *)
(* the expression, and that eval comes to it.                              *)
(***************************************************************************)
EXTENDS Evaluator

(* What an expression means: a set with its value, empty when it has none. *)
(* A value is a word of the image or, when cons has made it, a record of   *)
(* the pair's parts; env is the sequence of its bindings.  fuel bounds the *)
(* depth of the calls: what goes deeper has no value.                      *)
IsPair(v) == "car" \in DOMAIN v \/ IsCons(v)
Parts(v)  == IF "car" \in DOMAIN v THEN v ELSE image.cells[v.value + 1]

RECURSIVE Elements(_), Meaning(_, _, _), Clauses(_, _, _), Shown(_)

Elements(v) == IF IsPair(v) THEN <<Parts(v).car>> \o Elements(Parts(v).cdr) ELSE <<>>

Bound(sym, env) ==
    LET where == {k \in DOMAIN env : env[k].car = sym}
    IN  {env[k].cdr : k \in {j \in where : \A i \in where : j <= i}}

Values(exprs, env, fuel) ==
    LET each == [k \in DOMAIN exprs |-> Meaning(exprs[k], env, fuel)]
    IN  IF \E k \in DOMAIN each : each[k] = {} THEN {}
        ELSE {[k \in DOMAIN each |-> CHOOSE v \in each[k] : TRUE]}

(* The instances compare no pairs that cons made, and add no pairs.        *)
Operated(p, a, b) ==
    CASE p = PRIM_CAR  -> IF IsPair(a) THEN {Parts(a).car} ELSE {}
      [] p = PRIM_CDR  -> IF IsPair(a) THEN {Parts(a).cdr} ELSE {}
      [] p = PRIM_ATOM -> {Truth(~IsPair(a))}
      [] p = PRIM_EQ   -> {Truth(a = b)}
      [] p = PRIM_CONS -> {[car |-> a, cdr |-> b]}
      [] p = PRIM_ADD  -> {MkWord(TAG_FIXNUM, WrapAdd(a.value, b.value))}

(* A primitive without a second argument is given NIL; a closure with one  *)
(* symbol for its parameters takes the first argument.                     *)
AppliedPrimitive(p, exprs, env, fuel) ==
    IF exprs = <<>> THEN {}
    ELSE LET operands == IF p \in Unary THEN <<exprs[1]>> ELSE SubSeq(Append(exprs, Nil), 1, 2)
         IN  IF p \notin Unary \cup Binary THEN {Nil}
             ELSE UNION {Operated(p, vs[1], vs[Len(vs)]) : vs \in Values(operands, env, fuel)}

AppliedClosure(f, exprs, env, fuel) ==
    LET params == IF IsPair(Parts(f).car) THEN Elements(Parts(f).car) ELSE <<Parts(f).car>>
        code   == Parts(Parts(f).cdr)
        around == Elements(code.cdr)
        n      == Len(params)
        Frame(vs) == [k \in 1 .. n |-> [car |-> params[n + 1 - k], cdr |-> vs[n + 1 - k]]]
    IN  IF Len(exprs) < n THEN {}
        ELSE UNION {Meaning(code.car, Frame(vs) \o [k \in DOMAIN around |-> Parts(around[k])], fuel)
                       : vs \in Values(SubSeq(exprs, 1, n), env, fuel)}

Meaning(e, env, fuel) ==
    IF fuel = 0 THEN {}
    ELSE IF ~IsPair(e) THEN IF e.tag = TAG_SYMBOL THEN Bound(e, env) ELSE {e}
    ELSE LET exprs == Elements(Parts(e).cdr)
         IN  CASE Parts(e).car = MkWord(TAG_SYMBOL, SYM_QUOTE) -> IF exprs = <<>> THEN {} ELSE {exprs[1]}
               [] Parts(e).car = MkWord(TAG_SYMBOL, SYM_COND)  -> Clauses(exprs, env, fuel)
               [] OTHER -> UNION {IF IsPair(f) THEN AppliedClosure(f, exprs, env, fuel - 1)
                                  ELSE IF f.tag = TAG_PRIMITIVE THEN AppliedPrimitive(f.value, exprs, env, fuel - 1)
                                  ELSE {} : f \in Meaning(Parts(e).car, env, fuel - 1)}

Clauses(clauses, env, fuel) ==
    IF clauses = <<>> THEN {Nil}
    ELSE LET clause == Elements(clauses[1])
         IN  IF clause = <<>> THEN {}
             ELSE UNION {IF v = Nil THEN Clauses(Tail(clauses), env, fuel)
                         ELSE IF Len(clause) < 2 THEN {}
                         ELSE Meaning(clause[2], env, fuel - 1) : v \in Meaning(clause[1], env, fuel - 1)}

(* A word of the machine as a value.                                       *)
Shown(w) == IF IsCons(w) /\ w.value >= Len(image.cells)
            THEN [car |-> Shown(CarOf(w)), cdr |-> Shown(CdrOf(w))]
            ELSE w

Fuel == 16
Expected == LET around == Elements(image.env)
            IN  Meaning(image.expr, [k \in DOMAIN around |-> Parts(around[k])], Fuel)

-----------------------------------------------------------------------------
(* A program that eval runs to its end has come to the value that its      *)
(* expression has under lexical scope, and one that stops with a type      *)
(* error has an expression without a value (eval_core.inc:16-24, 88-92,    *)
(* 264-276; docs/testing.md:41-64 gives such values).                      *)
ValueIsLexical == /\ at = "halted"     => Expected = {Shown(cpu.val)}
                  /\ at = "type error" => Expected = {}

(* The same for every program in which no test of a cond and no first      *)
(* operand gives R4 another environment: all of eval, lookup and the       *)
(* binding of parameters is right up to that register                      *)
(* (eval_core.inc:27-332).                                                 *)
RightUntilLost == ~lost => ValueIsLexical
==============================================================================
