--------------------------- MODULE MathParser ---------------------------
(***************************************************************************)
(* libnano v1's parser of formulas, a recursive descent over tokens: a     *)
(* program binds names, and parses a text into its formula f, to which it  *)
(* then applies operations.                                                *)
(*                                                                         *)
(* The text is a sequence of tokens: characters and blanks are left out.   *)
(* parse() looks for the end of the text and never at its length.          *)
(***************************************************************************)
EXTENDS MathFunction

CONSTANTS Names,    \* names that may occur in a text
          Numbers,  \* and numbers
          Bound,    \* what a program binds names to
          MaxText,  \* bound on tokens and bindings together,
          MaxBinds, \* on bindings,
          MaxWork   \* and on tokens and operations together

VARIABLES text,     \* what the user has typed
          names,    \* names[n]: what name n is bound to
          phase,    \* "typing", "parsed" or "failed"
          binds,    \* bindings so far
          left      \* operations that MaxWork leaves

parserVars == <<f, text, names, phase, binds, left>>

Function1 == {"exp", "ln", "sin", "cos"}
Function2 == {"pow", "log"}
BuiltIn   == Function1 \cup Function2 \* and the numbers pi and e

Sign(s)  == <<"sign", s>>
TokenSet == {Sign(s) : s \in {"+", "-", "*", "/", "^", "(", ")", ","}}
              \cup {<<"number", n>> : n \in Numbers} \cup {<<"name", n>> : n \in Names}

TokenAt(p) == IF p <= Len(text) THEN text[p] ELSE Sign("end")

Apply(kind, args) ==
  CASE kind = "log" -> Log(args[1], args[2])
    [] OTHER        -> <<kind>> \o args

(***************************************************************************)
(* The parser.  Each part gives <<formula, position behind it>>, or an     *)
(* error and the position of the token it cannot take.                     *)
(***************************************************************************)
Error     == <<"error">>
Failed(r) == r[1] = Error

Expect(s, r) == IF Failed(r) THEN r
                ELSE IF TokenAt(r[2]) = Sign(s) THEN <<r[1], r[2] + 1>> ELSE <<Error, r[2]>>

RECURSIVE ParseSum(_), SumTail(_), ParseMult(_), MultTail(_), ParseAtom(_), ParseNamed(_, _)

\* Mutant of ParseSum: the sign is that of the whole sum.
SignOfAll(p) ==
  LET r == ParseMult(IF TokenAt(p) \in {Sign("+"), Sign("-")} THEN p + 1 ELSE p)
      all == SumTail(r)
  IN  IF Failed(r) \/ Failed(all) THEN IF Failed(r) THEN r ELSE all
      ELSE IF TokenAt(p) = Sign("-") THEN <<Neg(all[1]), all[2]>> ELSE all

ParseSum(p) ==
  LET r == ParseMult(IF TokenAt(p) \in {Sign("+"), Sign("-")} THEN p + 1 ELSE p)
  IN  IF Failed(r) THEN r
      ELSE SumTail(IF TokenAt(p) = Sign("-") THEN <<Neg(r[1]), r[2]>> ELSE r)

SumTail(l) ==
  LET op == TokenAt(l[2])
      r  == ParseMult(l[2] + 1)
  IN  IF op \notin {Sign("+"), Sign("-")} THEN l
      ELSE IF Failed(r) THEN r
      ELSE SumTail(<<IF op = Sign("+") THEN Sum(l[1], r[1]) ELSE Sub(l[1], r[1]), r[2]>>)

ParseMult(p) == LET r == ParseAtom(p) IN IF Failed(r) THEN r ELSE MultTail(r)

MultTail(l) ==
  LET op == TokenAt(l[2])
      r  == ParseAtom(l[2] + 1)
  IN  IF op \notin {Sign("*"), Sign("/")} THEN l
      ELSE IF Failed(r) THEN r
      ELSE MultTail(<<IF op = Sign("*") THEN Mult(l[1], r[1]) ELSE Div(l[1], r[1]), r[2]>>)

ParseAtom(p) ==
  LET t == TokenAt(p)
  IN CASE t[1] = "number" -> <<Const(t[2]), p + 1>>
       [] t[1] = "name"   -> ParseNamed(t[2], p)
       [] t = Sign("(")   -> Expect(")", ParseSum(p + 1))
       [] OTHER           -> <<Error, p>>

\* parseNamedObject(): a variable, or a function and its arguments.
ParseNamed(n, p) ==
  LET opened == Expect("(", <<Const(0), p + 1>>)
      x      == IF Failed(opened) THEN opened ELSE ParseSum(opened[2])
      comma  == Expect(",", x)
      y      == IF Failed(comma) THEN comma ELSE ParseSum(comma[2])
      Closed(r, args) == LET e == Expect(")", r) IN IF Failed(e) THEN e ELSE <<Apply(names[n], args), e[2]>>
  IN CASE names[n] = "unbound"      -> <<Error, p>>
       [] names[n] \in Vars         -> <<Var(names[n]), p + 1>>
       [] names[n] \in Function1    -> Closed(x, <<x[1]>>)
       [] names[n] \in Function2    -> Closed(y, <<x[1], y[1]>>)

Parse == Expect("end", ParseSum(1))

(***************************************************************************)
(* The program.                                                            *)
(***************************************************************************)
\* bindFunctions()
NewNames == [n \in Names |-> IF n \in BuiltIn THEN n ELSE "unbound"]

ParserInit ==
  /\ NewFunction
  /\ text = <<>> /\ phase = "typing" /\ binds = 0 /\ left = 0
  /\ names = NewNames

\* setVar(), setConst(), setFunction(), and unset() of a bound name: that of
\* another erases the map's end.
Bind(n, kind) ==
  /\ phase = "typing" /\ text = <<>> /\ binds < MaxBinds
  /\ kind = "unbound" => names[n] # "unbound"
  /\ names' = [names EXCEPT ![n] = kind]
  /\ binds' = binds + 1
  /\ UNCHANGED <<f, text, phase, left>>

\* The user stops at a token that no text can go on with.
Type(t) ==
  /\ phase = "typing" /\ Len(text) + binds < MaxText
  /\ Failed(Parse) => Parse[2] > Len(text)
  /\ text' = Append(text, t)
  /\ UNCHANGED <<f, names, phase, binds, left>>

\* parse().  The parser is done with then, and what it held is let go.
ParseText ==
  /\ phase = "typing" /\ text # <<>>
  /\ IF Failed(Parse) THEN phase' = "failed" /\ UNCHANGED <<f, left>>
     ELSE phase' = "parsed" /\ f' = Parse[1] /\ left' = IF Len(text) < MaxWork THEN MaxWork - Len(text) ELSE 0
  /\ text' = <<>> /\ names' = NewNames /\ binds' = 0

Operate ==
  /\ phase = "parsed" /\ left > 0 /\ left' = left - 1
  /\ Operation
  /\ UNCHANGED <<text, names, phase, binds>>

ParserNext == (\E n \in Names, kind \in Bound \cup {"unbound"} : Bind(n, kind)) \/ (\E t \in TokenSet : Type(t)) \/ ParseText \/ Operate

ParserSpec == ParserInit /\ [][ParserNext]_parserVars

(***************************************************************************)
(* The grammar, as sets of formulas that tokens i to j stand for: the      *)
(* operators of one rank associate to the left, and a sign may only open   *)
(* a sum.                                                                  *)
(***************************************************************************)
RECURSIVE Sums(_, _), Mults(_, _), Atoms(_, _)

At(op, i, j) == {k \in i + 1..j - 1 : text[k] = Sign(op)}

Sums(i, j) ==
  IF i > j THEN {}
  ELSE Mults(i, j) \cup (IF text[i] = Sign("+") THEN Mults(i + 1, j) ELSE {})
         \cup (IF text[i] = Sign("-") THEN {Neg(a) : a \in Mults(i + 1, j)} ELSE {})
         \cup UNION {{Sum(a, b) : a \in Sums(i, k - 1), b \in Mults(k + 1, j)} : k \in At("+", i, j)}
         \cup UNION {{Sub(a, b) : a \in Sums(i, k - 1), b \in Mults(k + 1, j)} : k \in At("-", i, j)}

Mults(i, j) ==
  IF i > j THEN {}
  ELSE Atoms(i, j)
         \cup UNION {{Mult(a, b) : a \in Mults(i, k - 1), b \in Atoms(k + 1, j)} : k \in At("*", i, j)}
         \cup UNION {{Div(a, b) : a \in Mults(i, k - 1), b \in Atoms(k + 1, j)} : k \in At("/", i, j)}

Atoms(i, j) ==
  LET Named(S)   == text[i][1] = "name" /\ names[text[i][2]] \in S
      Bracket(p) == p < j /\ text[p] = Sign("(") /\ text[j] = Sign(")")
  IN  IF i > j THEN {}
      ELSE IF i = j
      THEN IF text[i][1] = "number" THEN {Const(text[i][2])}
           ELSE IF Named(Vars) THEN {Var(names[text[i][2]])} ELSE {}
      ELSE IF Bracket(i) THEN Sums(i + 1, j - 1)
      ELSE IF Bracket(i + 1) /\ Named(Function1)
      THEN {Apply(names[text[i][2]], <<a>>) : a \in Sums(i + 2, j - 1)}
      ELSE IF Bracket(i + 1) /\ Named(Function2)
      THEN UNION {{Apply(names[text[i][2]], <<a, b>>) : a \in Sums(i + 2, k - 1), b \in Sums(k + 1, j - 1)}
                   : k \in At(",", i + 2, j - 1)}
      ELSE {}

\* The parser takes exactly the texts of the grammar, under whatever the names
\* are bound to, and gives the one formula each stands for
\* (mathparser.cpp:98-161, 384-542).
ParsesTheGrammar ==
  phase = "typing" =>
    Sums(1, Len(text)) = IF Failed(Parse) THEN {} ELSE {Parse[1]}
=============================================================================
