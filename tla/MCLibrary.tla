----------------------------- MODULE MCLibrary -----------------------------
(* The sequential parts of both libraries, one at a time: the pool of      *)
(* blocks, the pools of temporary objects, formulas, and the handles that  *)
(* formulas are held by.                                                   *)
EXTENDS BlocksPool, DoublePool, MathParser

VARIABLE subject

MCOperands == {Var("x"), Const(2), Mult(Const(2), Inv(Var("y")))}

Symmetry == Permutations(Block) \union Permutations(Handles)

LibraryInit ==
  /\ subject \in {"blocks", "objects", "formulas", "handles"}
  /\ Init /\ DoublePoolInit /\ ParserInit /\ HandlesInit

LibraryNext ==
  \/ subject = "blocks" /\ Next /\ UNCHANGED <<subject, dp_vars, parserVars, handleVars>>
  \/ subject = "objects" /\ DoublePoolNext /\ UNCHANGED <<subject, vars, parserVars, handleVars>>
  \/ subject = "formulas" /\ ParserNext /\ UNCHANGED <<subject, vars, dp_vars, handleVars>>
  \/ subject = "handles" /\ HandlesNext /\ UNCHANGED <<subject, vars, dp_vars, parserVars>>

LibrarySpec == LibraryInit /\ [][LibraryNext]_<<subject, vars, dp_vars, parserVars, handleVars>>

(* From a text to a value: the parser gives the formula that the text      *)
(* stands for, what is made of it keeps its value, and its parts live as   *)
(* long as they are needed.                                                *)
FormulasSound == RewritesSound /\ ParsesTheGrammar /\ NodesCounted
=============================================================================
