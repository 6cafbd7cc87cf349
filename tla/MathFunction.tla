-------------------------- MODULE MathFunction --------------------------
(***************************************************************************)
(* libnano v1's formulas: trees built by the overloaded operators, their   *)
(* value, their derivative, and their two-pass optimization.  A program    *)
(* holds a formula f and applies operations to it.                         *)
(*                                                                         *)
(* Numbers are the field of P elements in place of double, so that the     *)
(* laws that the rules rest on hold exactly; Undef stands for infinity and *)
(* NaN.  The elementary functions are any that obey these laws: cos is     *)
(* even, sin is odd, ln(1/a) = -ln(a), pow(a, 2) = a*a, pow(a, -2) =       *)
(* 1/(a*a).                                                                *)
(***************************************************************************)
EXTENDS Integers, Sequences, FiniteSets, TLC
LOCAL INSTANCE SequencesExt

CONSTANTS P,        \* a prime
          Vars,     \* variables' names
          Operands, \* the other operands of a program's operations
          Handles,  \* a program's MathFunctions and MathVars
          Nodes     \* memory for what they refer to: numbers

VARIABLES f,
          heap,     \* heap[n]: what node n counts, and the nodes it refers to
          held,     \* held[h]: the node of a handle
          lost      \* history: a handle was assigned to itself

ASSUME PrimeField == P \in Nat /\ P > 2 /\ \A a \in 1..P - 1 : \E b \in 1..P - 1 : (a * b) % P = 1

(***************************************************************************)
(* Numbers                                                                 *)
(***************************************************************************)
Undef == P
Num   == 0..P - 1

Lift(a, b, c) == IF Undef \in {a, b} THEN Undef ELSE c % P
Add(a, b) == Lift(a, b, a + b)
Mul(a, b) == Lift(a, b, a * b)
Opp(a)    == Lift(a, a, P - a)
Recip(a)  == IF a \in {0, Undef} THEN Undef ELSE CHOOSE b \in Num : (a * b) % P = 1

One == 1
MinusOne == P - 1

CosOf(a) == Add(Mul(a, a), 1)
SinOf(a) == Add(Mul(a, Mul(a, a)), a)
ExpOf(a) == Add(Mul(a, a), Add(Mul(2, a), 1))
LnOf(a)  == Add(a, Opp(Recip(a)))
PowOf(a, b) ==
  CASE Undef \in {a, b} -> Undef
    [] b = 2            -> Mul(a, a)
    [] b = P - 2        -> Mul(Recip(a), Recip(a))
    [] OTHER            -> Add(Mul(a, b), a)

(***************************************************************************)
(* Formulas: <<type, operand, ...>>, as getType() names them.              *)
(***************************************************************************)
Const(c) == <<"const", c>>
Var(n)   == <<"var", n>>
Is(type, e) == e[1] = type
IsConst(e, c) == e = Const(c)

Neg(a) == <<"neg", a>>
Inv(a) == <<"inv", a>>
Cos(a) == <<"cos", a>>
Sin(a) == <<"sin", a>>
Exp(a) == <<"exp", a>>
Ln(a)  == <<"ln", a>>
Sum(a, b) == <<"sum", a, b>>
Sub(a, b) == <<"sub", a, b>>
Mult(a, b) == <<"mult", a, b>>
Div(a, b) == <<"div", a, b>>
Pow(a, b) == <<"pow", a, b>>
Log(x, a)  == Div(Ln(x), Ln(a))

\* eval(), on numbers and an ε beside them: <<value, derivative>>.  The code
\* computes the first; the second is what derive() is compared with.
RECURSIVE Eval(_, _, _)
Eval(e, at, var) ==
  LET x == Eval(e[2], at, var)
      y == Eval(e[3], at, var)
      Chain(v, d) == <<v, Mul(d, x[2])>>
  IN CASE Is("const", e) -> <<e[2], 0>>
       [] Is("var", e)   -> <<at[e[2]], IF e[2] = var THEN 1 ELSE 0>>
       [] Is("neg", e)   -> <<Opp(x[1]), Opp(x[2])>>
       [] Is("sum", e)   -> <<Add(x[1], y[1]), Add(x[2], y[2])>>
       [] Is("sub", e)   -> <<Add(x[1], Opp(y[1])), Add(x[2], Opp(y[2]))>>
       [] Is("mult", e)  -> <<Mul(x[1], y[1]), Add(Mul(x[2], y[1]), Mul(x[1], y[2]))>>
       [] Is("inv", e)   -> LET r == Recip(x[1]) IN Chain(r, Opp(Mul(r, r)))
       [] Is("div", e)   -> LET r == Recip(y[1])
                            IN <<Mul(x[1], r), Add(Mul(x[2], r), Opp(Mul(x[1], Mul(Mul(r, r), y[2]))))>>
       [] Is("cos", e)   -> Chain(CosOf(x[1]), Opp(SinOf(x[1])))
       [] Is("sin", e)   -> Chain(SinOf(x[1]), CosOf(x[1]))
       [] Is("exp", e)   -> Chain(ExpOf(x[1]), ExpOf(x[1]))
       [] Is("ln", e)    -> Chain(LnOf(x[1]), Recip(x[1]))
       [] Is("pow", e)   -> <<PowOf(x[1], y[1]),
                              Add(Mul(Mul(y[1], PowOf(x[1], Add(y[1], MinusOne))), x[2]),
                                  Mul(Mul(PowOf(x[1], y[1]), LnOf(x[1])), y[2]))>>

Value(e, at) == Eval(e, at, "none")[1]

(***************************************************************************)
(* derive()                                                                *)
(***************************************************************************)
\* Mutant of QuotientRule: the difference is taken the other way round.
QuotientTurned(a, da, b, db) == Div(Sub(Mult(a, db), Mult(da, b)), Pow(b, Const(2)))

QuotientRule(a, da, b, db) == Div(Sub(Mult(da, b), Mult(a, db)), Pow(b, Const(2)))

RECURSIVE Derive(_, _)
Derive(e, var) ==
  LET a == e[2]  b == e[3]
      da == Derive(a, var)  db == Derive(b, var)
  IN CASE Is("const", e) -> Const(0)
       [] Is("var", e)   -> Const(IF a = var THEN 1 ELSE 0)
       [] Is("neg", e)   -> Neg(da)
       [] Is("sum", e)   -> Sum(da, db)
       [] Is("sub", e)   -> Sub(da, db)
       [] Is("inv", e)   -> Neg(Mult(Pow(a, Const(P - 2)), da))
       [] Is("mult", e)  -> Sum(Mult(da, b), Mult(a, db))
       [] Is("div", e)   -> QuotientRule(a, da, b, db)
       [] Is("cos", e)   -> Mult(Neg(Sin(a)), da)
       [] Is("sin", e)   -> Mult(Cos(a), da)
       [] Is("exp", e)   -> Mult(Exp(a), da)
       [] Is("ln", e)    -> Div(da, a)
       [] Is("pow", e)   -> Sum(Mult(Mult(b, Pow(a, Sub(b, Const(1)))), da),
                                Mult(Mult(Pow(a, b), Ln(a)), db))

(***************************************************************************)
(* optimize1(): constants, sums and products.                              *)
(***************************************************************************)
\* A sum or a product with a constant in front.
Leads(type, e) == Is(type, e) /\ Is("const", e[2])

PlusConst(c, e) == IF c = 0 THEN e ELSE Sum(Const(c), e)

\* An optimized constant and an optimized formula, in either order.
ConstPlus(c, e) ==
  IF c = 0 THEN e
  ELSE IF Is("const", e) THEN Const(Add(c, e[2]))
  ELSE IF Leads("sum", e) THEN PlusConst(Add(c, e[2][2]), e[3])
  ELSE Sum(Const(c), e)

\* MathSum::optimize1() of optimized operands: the constants go to the front.
Ahead(e)  == IF Leads("sum", e) THEN e[2][2] ELSE 0
Behind(e) == IF Leads("sum", e) THEN e[3] ELSE e

SumOpt(x, y) ==
  IF Is("const", x) THEN ConstPlus(x[2], y)
  ELSE IF Is("const", y) THEN ConstPlus(y[2], x)
  ELSE PlusConst(Add(Ahead(x), Ahead(y)), Sum(Behind(x), Behind(y)))

TimesConst(c, e) ==
  CASE c = One -> e [] c = MinusOne -> Neg(e) [] OTHER -> Mult(Const(c), e)

\* The constant in front of a product, where a minus is -1, and what follows.
Coef(e) == IF Leads("mult", e) THEN e[2][2] ELSE IF Is("neg", e) THEN MinusOne ELSE One
Rest(e) == IF Leads("mult", e) THEN e[3] ELSE IF Is("neg", e) THEN e[2] ELSE e

ConstTimes(c, e) ==
  CASE c = 0        -> Const(0)
    [] c = One      -> e
    [] c = MinusOne -> IF Is("neg", e) THEN e[2] ELSE Neg(e)
    [] OTHER        -> IF Is("const", e) THEN Const(Mul(c, e[2])) ELSE TimesConst(Mul(c, Coef(e)), Rest(e))

\* MathMult::optimize1() of optimized operands.
MultOpt(x, y) ==
  IF Is("const", x) THEN ConstTimes(x[2], y)
  ELSE IF Is("const", y) THEN ConstTimes(y[2], x)
  ELSE TimesConst(Mul(Coef(x), Coef(y)), Mult(Rest(x), Rest(y)))

\* MathInv::optimize1() takes the operands of a quotient from a null pointer.
Crash == <<"crash">>
Both(x, y, r) == IF Crash \in {x, y} THEN Crash ELSE r

\* A function of constants is replaced by its value; with two arguments only
\* the first is looked at, and the value is that of the moment, at.
FunctionOpt(e, at) == IF Is("const", e[2]) THEN Const(Value(e, at)) ELSE e

RECURSIVE Optimize1(_, _)
Optimize1(e, at) ==
  LET a == e[2]  b == e[3]
      x == Optimize1(a, at)  y == Optimize1(b, at)
      NegOpt  == CASE Is("const", x) -> Const(Opp(x[2]))
                   [] Is("neg", x)   -> Optimize1(x[2], at)
                   [] OTHER          -> Neg(x)
      InvOpt  == CASE Is("const", x) -> Const(Recip(x[2]))
                   [] Is("inv", x)   -> Optimize1(x[2], at)
                   [] OTHER          -> Inv(x)
      SinOpt  == IF Is("neg", x) THEN Neg(Sin(x[2])) ELSE FunctionOpt(Sin(x), at)
      LnOpt   == IF Is("inv", x) THEN Neg(Ln(x[2])) ELSE FunctionOpt(Ln(x), at)
      CosOpt  == FunctionOpt(Cos(IF Is("neg", x) THEN x[2] ELSE x), at)
  IN CASE Is("const", e) \/ Is("var", e) \/ e = Crash -> e
       [] Is("neg", e) ->
            CASE Is("sum", a) -> Optimize1(Sub(Neg(a[2]), a[3]), at)
              [] Is("sub", a) -> Optimize1(Sum(Neg(a[2]), a[3]), at)
              [] OTHER        -> Both(x, x, NegOpt)
       [] Is("inv", e) ->
            CASE Is("neg", a)  -> Optimize1(Neg(Inv(a[2])), at)
              [] Is("mult", a) -> Optimize1(Mult(Inv(a[2]), Inv(a[3])), at)
              [] Is("div", a)  -> Crash
              [] OTHER         -> Both(x, x, InvOpt)
       [] Is("sub", e)  -> Optimize1(Sum(a, Neg(b)), at)
       [] Is("div", e)  -> Optimize1(Mult(a, Inv(b)), at)
       [] Is("sum", e)  -> Both(x, y, SumOpt(x, y))
       [] Is("mult", e) -> Both(x, y, MultOpt(x, y))
       [] Is("cos", e)  -> Both(x, x, CosOpt)
       [] Is("sin", e)  -> Both(x, x, SinOpt)
       [] Is("exp", e)  -> Both(x, x, FunctionOpt(Exp(x), at))
       [] Is("ln", e)   -> Both(x, x, LnOpt)
       [] Is("pow", e)  -> Both(x, y, FunctionOpt(Pow(x, y), at))

(***************************************************************************)
(* optimize2(): differences and quotients come back.                       *)
(***************************************************************************)
\* Mutant of SumFold: the difference is taken the other way round.
SumFoldTurned(x, y) ==
  CASE Is("neg", x) /\ Is("neg", y)   -> Neg(Sum(x[2], y[2]))
    [] Is("neg", x) /\ ~Is("neg", y)  -> Sub(x[2], y)
    [] ~Is("neg", x) /\ Is("neg", y)  -> Sub(x, y[2])
    [] OTHER                          -> Sum(x, y)

SumFold(x, y) ==
  CASE Is("neg", x) /\ Is("neg", y)   -> Neg(Sum(x[2], y[2]))
    [] Is("neg", x) /\ ~Is("neg", y)  -> Sub(y, x[2])
    [] ~Is("neg", x) /\ Is("neg", y)  -> Sub(x, y[2])
    [] OTHER                          -> Sum(x, y)

MultFold(x, y) ==
  CASE Is("inv", x) /\ Is("inv", y)   -> Inv(Mult(x[2], y[2]))
    [] Is("inv", x) /\ ~Is("inv", y)  -> Div(y, x[2])
    [] ~Is("inv", x) /\ Is("inv", y)  -> Div(x, y[2])
    [] OTHER                          -> Mult(x, y)

RECURSIVE Optimize2(_, _)
Optimize2(e, at) ==
  LET x == Optimize2(e[2], at)
      y == Optimize2(e[3], at)
      inner == Optimize1(e[2], at)
  IN CASE Is("const", e) \/ Is("var", e) \/ e = Crash -> e
       [] Is("sum", e)  -> Both(x, y, SumFold(x, y))
       [] Is("mult", e) -> Both(x, y, MultFold(x, y))
       [] Is("inv", e)  -> LET i == Optimize2(inner, at) IN Both(i, i, Inv(i))
       [] e[1] \in {"sub", "div", "pow"}               -> Both(x, y, <<e[1], x, y>>)
       [] e[1] \in {"neg", "cos", "sin", "exp", "ln"}  -> Both(x, x, <<e[1], x>>)

Optimize(e, at) == Optimize2(Optimize1(e, at), at)

(***************************************************************************)
(* What a program does with its formula.                                   *)
(***************************************************************************)
NewFunction == f = Const(0)

Unary == f' \in {Neg(f), Inv(f), Cos(f), Sin(f), Exp(f), Ln(f)}

Binary == \E b \in Operands, type \in {"sum", "sub", "mult", "div", "pow"} :
            f' = <<type, f, b>> \/ f' = <<type, b, f>>

Logarithm == \E b \in Operands : f' = Log(f, b) \/ f' = Log(b, f)

Point == [Vars -> Num]

DeriveCall == \E var \in Vars : f' = Derive(f, var)

OptimizeCall == \E at \in Point : f' = Optimize(f, at)

Operation == f # Crash /\ (Unary \/ Binary \/ Logarithm \/ DeriveCall \/ OptimizeCall)

(***************************************************************************)
(* Handles: a MathFunction or a MathVar counts as one reference to a node, *)
(* and a node holds handles of its operands, which others may share.       *)
(***************************************************************************)
handleVars == <<heap, held, lost>>

HandlesInit == heap = << >> /\ held = << >> /\ lost = FALSE

Lock(mem, n) == [mem EXCEPT ![n].count = @ + 1]

\* A node that nothing refers to is deleted, with its handles of its operands.
RECURSIVE Release(_, _)
Release(mem, n) ==
  IF mem[n].count > 1 THEN [mem EXCEPT ![n].count = @ - 1]
  ELSE FoldLeft(Release, [k \in DOMAIN mem \ {n} |-> mem[k]], mem[n].parts)

\* An operator or a constructor: a node of the operands, and a handle of it.
MakeNode(h, parts) ==
  \E n \in Nodes \ DOMAIN heap :
    /\ h \notin DOMAIN held
    /\ \A k \in Nodes \ DOMAIN heap : n <= k
    /\ heap' = (n :> [count |-> 1, parts |-> parts]) @@ FoldLeft(Lock, heap, parts)
    /\ held' = (h :> n) @@ held
    /\ UNCHANGED lost

CopyHandle(h, g) ==
  /\ h \notin DOMAIN held
  /\ heap' = Lock(heap, held[g]) /\ held' = (h :> held[g]) @@ held
  /\ UNCHANGED lost

DropHandle(h) ==
  /\ heap' = Release(heap, held[h]) /\ held' = [k \in DOMAIN held \ {h} |-> held[k]]
  /\ UNCHANGED lost

\* A bug: what the handle referred to before is not let go.
AssignKeeps(h, g) ==
  /\ heap' = Lock(heap, held[g]) /\ held' = [held EXCEPT ![h] = held[g]]
  /\ UNCHANGED lost

\* operator = lets the old node go first: if that was the last handle of the
\* very node it is to take, it goes on with one that has been deleted.
AssignHandle(h, g) ==
  LET mem == Release(heap, held[h])
  IN  /\ lost' = (held[g] \notin DOMAIN mem)
      /\ heap' = IF lost' THEN mem ELSE Lock(mem, held[g])
      /\ held' = [held EXCEPT ![h] = held[g]]

HandlesNext ==
  /\ ~lost
  /\ \/ \E h \in Handles :
          \/ MakeNode(h, <<>>)
          \/ \E g \in DOMAIN held : MakeNode(h, <<held[g]>>) \/ CopyHandle(h, g)
          \/ \E g, k \in DOMAIN held : MakeNode(h, <<held[g], held[k]>>)
     \/ \E h \in DOMAIN held :
          DropHandle(h) \/ \E g \in DOMAIN held : AssignHandle(h, g)

(***************************************************************************)
(* Properties                                                              *)
(***************************************************************************)
RECURSIVE Parts(_)
Parts(e) ==
  {e} \cup (IF e[1] \in {"const", "var"} \/ e = Crash THEN {} ELSE UNION {Parts(e[i]) : i \in 2..Len(e)})

\* What optimize() has no answer for: a quotient in a divisor, where it
\* follows a null pointer, and a power of a number to a variable exponent,
\* which it takes for a number.
Divisors(e) == {p[Len(p)] : p \in {q \in Parts(e) : q[1] \in {"inv", "div"}}}
Quotients(S) == \E d \in S : \E p \in Parts(d) : Is("div", p)
Variable(e)  == \E p \in Parts(e) : Is("var", p)
Optimizable(e) ==
  /\ ~Quotients(Divisors(e))
  /\ \A p \in Parts(e) : Is("pow", p) => Variable(p[2]) \/ ~Variable(p[3])

\* The two passes of optimize() do not change what a formula says: wherever
\* the formula has a value the optimized one has the same
\* (math.cpp:377-444, 493-510, 553-713, 1013-1016).
OptimizeKeepsValue ==
  f # Crash /\ Optimizable(f) =>
    \A at \in Point : Value(f, at) # Undef => Value(Optimize(f, at), at) = Value(f, at)

\* derive() gives the derivative: wherever it has a value, that is the slope
\* which f has there by the rules of calculus (math.cpp:39, 198, 346-914).
DeriveIsDerivative ==
  f # Crash =>
    \A at \in Point, var \in Vars :
      LET slope == Eval(f, at, var)[2]
          d     == Value(Derive(f, var), at)
      IN  Undef \in {slope, d} \/ d = slope

\* However formulas share their parts and handles come and go, a node is there
\* as long as something refers to it and no longer; only a handle that is the
\* last of its node and is assigned to itself loses it
\* (math.cpp:246-258, 937-976, 1018-1023).
NodesCounted ==
  LET Uses(n) == Cardinality({h \in DOMAIN held : held[h] = n})
                   + Cardinality({<<k, i>> \in (DOMAIN heap) \X (1..2) :
                                    i \in DOMAIN heap[k].parts /\ heap[k].parts[i] = n})
  IN  /\ lost => \E h \in DOMAIN held : held[h] \notin DOMAIN heap /\ Uses(held[h]) = 1
      /\ ~lost => \A n \in Nodes :
           IF n \in DOMAIN heap THEN Uses(n) = heap[n].count /\ Uses(n) > 0 ELSE Uses(n) = 0

\* Both: the rewriting of formulas is sound, whatever was made of them before.
RewritesSound == OptimizeKeepsValue /\ DeriveIsDerivative
=============================================================================
