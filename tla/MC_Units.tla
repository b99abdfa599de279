------------------------------ MODULE MC_Units -------------------------------
(* Three parts that need no other part of the machine, one in a behaviour: *)
(* a chain of transforms of any length from any of the 256 codes; runs of  *)
(* the rule engine on two short vowels of each of rows 0 to 3, a long one, *)
(* a nasal, a reserved-row code, a free-bit code and a consonant; and eval *)
(* on the expressions below.                                               *)
EXTENDS Upc8Chain, SandhiEngine, EvaluatorMeaning, SequencesExt

MCInputs == {128, 136, 144, 152, 137, 130, 184, 132, 35}

-----------------------------------------------------------------------------
(* Memory images.  A tree is a word or a pair of trees; its pairs lie from *)
(* address b on, its own pair first.                                       *)
Pair(a, d) == [car |-> a, cdr |-> d]
RECURSIVE Size(_), LoadAt(_, _)
Size(t)      == IF "tag" \in DOMAIN t THEN 0 ELSE 1 + Size(t.car) + Size(t.cdr)
WordAt(t, b) == IF "tag" \in DOMAIN t THEN t ELSE MkWord(TAG_CONS, b)
LoadAt(t, b) ==
    IF "tag" \in DOMAIN t THEN <<>>
    ELSE LET d == b + 1 + Size(t.car)
         IN  <<Pair(WordAt(t.car, b + 1), WordAt(t.cdr, d))>> \o LoadAt(t.car, b + 1) \o LoadAt(t.cdr, d)

Sym(n)       == MkWord(TAG_SYMBOL, n)
Num(n)       == MkWord(TAG_FIXNUM, n)
List(s)      == FoldRight(Pair, s, Nil)
Quoted(v)    == List(<<Sym(SYM_QUOTE), v>>)
CondOf(cs)   == Pair(Sym(SYM_COND), List([k \in DOMAIN cs |-> List(cs[k])]))
App1(f, a)   == List(<<f, a>>)
App2(f, a, b) == List(<<f, a, b>>)

(* Every closure but keep captures the environment it is bound in, which   *)
(* is at address 0.  length, length-onto and equal? are those of the       *)
(* bootstrap demos, as are not, second and pair.                           *)
Global == MkWord(TAG_CONS, 0)
Fun(sym, params, body) == Pair(sym, Pair(params, Pair(body, Global)))

x == Sym(10)   y == Sym(11)
car == Sym(1)  cdr == Sym(2)  cons == Sym(3)  atom == Sym(4)  eq == Sym(5)  add == Sym(6)  other == Sym(7)
not == Sym(20)  second == Sym(21)  pair == Sym(22)  length == Sym(23)  lengthOnto == Sym(24)
equal == Sym(25)  loop == Sym(26)  both == Sym(27)  keep == Sym(28)

Primitives == [k \in 1 .. 7 |-> Pair(Sym(k), MkWord(TAG_PRIMITIVE, k - 1))]
Defined ==
  <<Fun(not, x, CondOf(<< <<x, Nil>>, <<SymT, SymT>> >>)),
    Fun(second, x, App1(car, App1(cdr, x))),
    Fun(pair, List(<<x, y>>), App2(cons, x, App2(cons, y, Nil))),
    Fun(length, x, App2(lengthOnto, x, Num(0))),
    Fun(lengthOnto, List(<<x, y>>),
        CondOf(<< <<App1(atom, x), y>>, <<SymT, App2(lengthOnto, App1(cdr, x), App2(add, y, Num(1)))>> >>)),
    Fun(equal, List(<<x, y>>),
        CondOf(<< <<App1(atom, x), CondOf(<< <<App1(atom, y), App2(eq, x, y)>>, <<SymT, Nil>> >>)>>,
                  <<App1(atom, y), Nil>>,
                  <<SymT, CondOf(<< <<App2(equal, App1(car, x), App1(car, y)), App2(equal, App1(cdr, x), App1(cdr, y))>>,
                                    <<SymT, Nil>> >>)>> >>)),
    Fun(loop, x, App1(loop, x)),
    Fun(both, y, App2(cons, App1(second, y), y)),
    Pair(keep, Pair(x, Pair(App2(cons, y, x), Pair(Pair(y, Num(7)), Global))))>>
BindingOfX == Pair(x, List(<<Num(1), Num(2)>>))

(* x is the list (1 2); t has a value or has none.                         *)
WithT == List(Primitives \o Defined \o <<BindingOfX, Pair(SymT, SymT)>>)
NoT   == List(Primitives \o Defined \o <<BindingOfX>>)

Dotted == Quoted(Pair(Sym(30), Sym(31)))
Three  == Quoted(List(<<Sym(30), Sym(31), Sym(32)>>))
Leaves == {x, Dotted, Nil}
Calls1 == Leaves \cup {App1(f, e) : f \in {not, second, car}, e \in Leaves}
Exprs  == Calls1
     \cup {App2(f, a, b) : f \in {cons, pair}, a \in Calls1, b \in Calls1}
     \cup {CondOf(<< <<a, b>>, <<SymT, x>> >>) : a \in Calls1, b \in Calls1}
     \cup {App1(f, a) : f \in {length, both, keep, loop}, a \in {x, Three, Nil}}
     \cup {App2(equal, a, b) : a \in {x, Dotted, Nil}, b \in {Dotted, Nil}}
     \cup {App1(cons, x), App1(add, App1(car, x)), App2(other, x, x), App1(pair, x), App1(x, x), y, List(<<car>>),
           CondOf(<<>>), CondOf(<< <<x>> >>), CondOf(<< <<>> >>), List(<<Sym(SYM_QUOTE)>>)}

Image(env, e) == [cells |-> LoadAt(env, 0) \o LoadAt(e, Size(env)), expr |-> WordAt(e, Size(env)), env |-> Global]
MCImages      == {Image(env, e) : env \in {WithT, NoT}, e \in Exprs}

-----------------------------------------------------------------------------
VARIABLE unit

(* The evaluator of a behaviour of another unit has evaluated NIL.         *)
Evaluated == /\ image = Image(WithT, Nil)
             /\ at = "halted"
             /\ cpu = [expr |-> Nil, env |-> Global, ret |-> Site(HALT), val |-> Nil, frame |-> Nil]
             /\ cells = image.cells
             /\ used = Len(cells)
             /\ stack = <<>> /\ calls = <<>> /\ lost = FALSE

UnitsInit == /\ Init /\ ChainInit
             /\ unit \in IF origin = 0 THEN {"chain", "engine", "evaluator"} ELSE {"chain"}
             /\ IF unit = "evaluator" THEN EvalInit ELSE Evaluated
UnitsNext == \/ unit = "chain" /\ ChainNext /\ UNCHANGED <<unit, engVars, evalVars>>
             \/ unit = "engine" /\ Next /\ UNCHANGED <<unit, chainVars, evalVars>>
             \/ unit = "evaluator" /\ EvalNext /\ UNCHANGED <<unit, chainVars, engVars>>
UnitsSpec == UnitsInit /\ [][UnitsNext]_<<unit, chainVars, engVars, evalVars>>
                       /\ WF_engVars(unit = "engine" /\ Walk)
                       /\ WF_evalVars(unit = "evaluator" /\ EvalNext)
=============================================================================
