--------------------------------- MODULE Rpn ---------------------------------
(***************************************************************************)
(* Actionpoint equations of the limit checker, LC (fsw/apps/lc/fsw/src/    *)
(* lc_action.c): an equation in reverse Polish notation over watchpoint    *)
(* results.  LC_EvaluateRPN runs it on a stack; LC_ValidateRPN checks one  *)
(* before its table is activated by counting the depth of that stack.      *)
(*                                                                         *)
(* A token is an operator or a watchpoint; the numbers that are neither    *)
(* are one token, "bad".  A loop that has ended leaves its record as it is.*)
(***************************************************************************)
EXTENDS Integers, Sequences

CONSTANTS
  WPs,       \* watchpoint numbers, below LC_MAX_WATCHPOINTS
  EquSize    \* LC_MAX_RPN_EQU_SIZE

Binary    == {"AND", "OR", "XOR"}
Operators == Binary \cup {"NOT", "EQUAL"}
Bad       == "bad"
Tokens    == Operators \cup {Bad} \cup WPs

ASSUME WatchpointAssumption == WPs \cap (Operators \cup {Bad}) = {}
ASSUME EquSizeAssumption == EquSize \in Nat \ {0}

Truth        == {"TRUE", "FALSE"}
WatchResults == Truth \cup {"STALE", "ERROR"}

Negate(a) == IF a = "TRUE" THEN "FALSE" ELSE "TRUE"

----------------------------------------------------------------------------
\* Variant with a bug, for sensitivity: staleness is looked at before what
\* decides the conjunction, and the result of a mix is false.
CombineAnyFalse(op, a, b) ==
  IF op = "AND" /\ "STALE" \in {a, b} THEN "FALSE"
  ELSE IF op = "OR" /\ "TRUE" \in {a, b} THEN "TRUE"
  ELSE IF "ERROR" \in {a, b} THEN "ERROR"
  ELSE IF "STALE" \in {a, b} THEN "STALE"
  ELSE IF op = "AND" \/ (op = "XOR" /\ a # b) THEN "TRUE" ELSE "FALSE"

\* The binary operators.  An operand that decides the result alone does so
\* even when the other one is an error or stale; an error outranks staleness.
Combine(op, a, b) ==
  IF op = "AND" /\ "FALSE" \in {a, b} THEN "FALSE"
  ELSE IF op = "OR" /\ "TRUE" \in {a, b} THEN "TRUE"
  ELSE IF "ERROR" \in {a, b} THEN "ERROR"
  ELSE IF "STALE" \in {a, b} THEN "STALE"
  ELSE IF op = "AND" \/ (op = "XOR" /\ a # b) THEN "TRUE" ELSE "FALSE"

Invert(a) == IF a \in Truth THEN Negate(a) ELSE a

----------------------------------------------------------------------------
(* LC_EvaluateRPN.  The outcome is "running" until the loop ends: illegal,  *)
(* or with the value that the equation had at the "=".                      *)

EvalStart == [stack |-> <<>>, outcome |-> "running"]
Illegal(e)     == [stack |-> e.stack, outcome |-> "illegal"]
Pop(stack, n)  == SubSeq(stack, 1, Len(stack) - n)
Operand(e, k)  == e.stack[Len(e.stack) - k]   \* k-th below the top
Replace(e, n, a) == [e EXCEPT !.stack = Append(Pop(@, n), a)]

\* Variant with a bug, for sensitivity: operands left over do not matter.
EqualLoose(e) == [stack |-> Pop(e.stack, 1), outcome |-> Operand(e, 0)]

\* Only an error or a stale value ends the loop with operands left over.
Equal(e) ==
  LET a == Operand(e, 0)
  IN  IF a \in Truth /\ Len(e.stack) > 1
      THEN Illegal(e)
      ELSE [stack |-> Pop(e.stack, 1), outcome |-> a]

\* One token, with the watchpoint results in wrt.
EvalToken(e, tok, wrt) ==
  IF e.outcome # "running" THEN e ELSE
  CASE tok \in WPs                              -> Replace(e, 0, wrt[tok])
    [] tok \in Binary /\ Len(e.stack) >= 2      ->
         Replace(e, 2, Combine(tok, Operand(e, 1), Operand(e, 0)))
    [] tok = "NOT" /\ Len(e.stack) >= 1         -> Replace(e, 1, Invert(Operand(e, 0)))
    [] tok = "EQUAL" /\ Len(e.stack) >= 1       -> Equal(e)
    [] OTHER                                    -> Illegal(e)

\* What the value of the equation means for the actionpoint.
ActionResults == {"PASS", "FAIL", "STALE", "ERROR"}
ActionResult(e) ==
  CASE e.outcome = "FALSE" -> "PASS"
    [] e.outcome = "TRUE"  -> "FAIL"
    [] e.outcome = "STALE" -> "STALE"
    [] OTHER               -> "ERROR"

EvalLoop(eqn, wrt) ==
  LET e[n \in 0 .. Len(eqn)] ==
        IF n = 0 THEN EvalStart ELSE EvalToken(e[n - 1], eqn[n], wrt)
  IN  e[Len(eqn)]
EvaluateRPN(eqn, wrt) == ActionResult(EvalLoop(eqn, wrt))

----------------------------------------------------------------------------
(* LC_ValidateRPN.  The verdict is "running" until the loop ends.           *)

CheckStart == [depth |-> 0, verdict |-> "running"]

\* Variant with a bug, for sensitivity: the depth may come down to 0.
CheckTokenLoose(c, tok, last) ==
  LET depth == IF tok \in Binary THEN c.depth - 1
               ELSE IF tok \in WPs THEN c.depth + 1 ELSE c.depth
      stops == last \/ tok \in {"EQUAL", Bad} \/ depth < 0
  IN  IF c.verdict # "running" THEN c
      ELSE [depth |-> depth,
            verdict |-> IF ~stops THEN "running"
                        ELSE IF tok = "EQUAL" /\ depth = 1 THEN "valid" ELSE "invalid"]

\* One token; last tells that it is the last of the LC_MAX_RPN_EQU_SIZE.
CheckToken(c, tok, last) ==
  LET depth == IF tok \in Binary THEN c.depth - 1
               ELSE IF tok \in WPs THEN c.depth + 1 ELSE c.depth
      stops == last \/ tok \in {"EQUAL", Bad} \/ depth <= 0
  IN  IF c.verdict # "running" THEN c
      ELSE [depth |-> depth,
            verdict |-> IF ~stops THEN "running"
                        ELSE IF tok = "EQUAL" /\ depth = 1 THEN "valid" ELSE "invalid"]

CheckLoop(eqn) ==
  LET c[n \in 0 .. Len(eqn)] ==
        IF n = 0 THEN CheckStart ELSE CheckToken(c[n - 1], eqn[n], n = EquSize)
  IN  c[Len(eqn)]
ValidRPN(eqn) == CheckLoop(eqn).verdict = "valid"

==============================================================================
