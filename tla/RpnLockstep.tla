----------------------------- MODULE RpnLockstep -----------------------------
(***************************************************************************)
(* The two loops of LC over one equation, side by side: LC_ValidateRPN,     *)
(* LC_EvaluateRPN with the watchpoint results as they are, and              *)
(* LC_EvaluateRPN as it would come out had every watchpoint that is stale   *)
(* or in error been measured.  Each step takes the next token, whatever it  *)
(* is, so a behaviour is a run of the three loops over any equation.        *)
(***************************************************************************)
EXTENDS Rpn

VARIABLES
  taken,   \* tokens taken, RPNEquationPtr and BufferIndex
  results, \* the watchpoint results
  truth,   \* the same with every unknown result settled one way or the other
  check,   \* LC_ValidateRPN
  eval,    \* LC_EvaluateRPN on results
  known    \* LC_EvaluateRPN on truth

lockstepVars == <<taken, results, truth, check, eval, known>>

LockstepInit ==
  /\ taken = 0
  /\ results \in [WPs -> WatchResults]
  /\ truth \in [WPs -> Truth]
  /\ \A w \in WPs : results[w] \in Truth => truth[w] = results[w]
  /\ check = CheckStart
  /\ eval = EvalStart /\ known = EvalStart

\* LC_EvaluateRPN gives up when the buffer ends before the "=".
AtEnd(e, last) == IF last /\ e.outcome = "running" THEN Illegal(e) ELSE e

Take(tok) ==
  LET last == taken + 1 = EquSize
  IN  /\ \/ check.verdict = "running"
         \/ eval.outcome = "running"
         \/ known.outcome = "running"
      /\ taken' = taken + 1
      /\ check' = CheckToken(check, tok, last)
      /\ eval' = AtEnd(EvalToken(eval, tok, results), last)
      /\ known' = AtEnd(EvalToken(known, tok, truth), last)
      /\ UNCHANGED <<results, truth>>

LockstepNext == \E tok \in Tokens : Take(tok)

LockstepSpec == LockstepInit /\ [][LockstepNext]_lockstepVars

----------------------------------------------------------------------------
\* An equation that LC_ValidateRPN accepts is never found illegal when it is
\* evaluated, whatever the watchpoints are.
ValidIsLegal == check.verdict = "valid" => eval.outcome # "illegal"

\* An equation that it rejects never evaluates to PASS or FAIL, so it could
\* not have requested an RTS.  (It may evaluate to STALE, as <<w1, w2, EQUAL>>
\* does when w2 is stale, and then LC_SampleSingleAP clears the count of
\* failures: the property says nothing of that.)
InvalidDecidesNothing ==
  check.verdict = "invalid" /\ eval.outcome # "running" => eval.outcome \notin Truth

\* PASS or FAIL is what the equation would be however the watchpoints that
\* are stale or in error had come out: a missing measurement can make an
\* actionpoint undecided, never wrong.
DecidedIsCertain ==
  check.verdict = "valid" /\ eval.outcome \in Truth => known.outcome = eval.outcome

=============================================================================
