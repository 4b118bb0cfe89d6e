------------------------------ MODULE RpnProofs ------------------------------
(***************************************************************************)
(* Proofs about the equations of the limit checker, for any number of      *)
(* watchpoints and any size of the equation buffer.  The depth that the    *)
(* validation counts is the height of the stack of the evaluation as long   *)
(* as the validation has not ended, and the two evaluations hold the same   *)
(* value wherever the first one holds a truth value.                       *)
(***************************************************************************)
EXTENDS RpnLockstep, WellFoundedInduction, TLAPS

\* The states of LC_EvaluateRPN's loop.
Evaluations == [stack : Seq(WatchResults),
                outcome : WatchResults \cup {"running", "illegal"}]

\* The results that may come up: all of them or, when no watchpoint is in
\* error, all but the error.
Answers(V) == V \in {WatchResults, WatchResults \ {"ERROR"}}

\* What one evaluation knows, the other agrees with.
Agrees(a, b, V) == a \in V /\ b \in Truth /\ (a \in Truth => b = a)

\* Only the error is left out, if anything.
LEMMA AnswersAre ==
  ASSUME NEW V, Answers(V), NEW a
  PROVE  a \in V <=> a \in WatchResults /\ (a = "ERROR" => "ERROR" \in V)
BY DEF Answers, WatchResults, Truth

\* Both sides of an agreement are results of a watchpoint.
LEMMA AgreeTypes ==
  ASSUME NEW V, Answers(V), NEW a, NEW b, Agrees(a, b, V)
  PROVE  a \in WatchResults /\ b \in WatchResults
BY AnswersAre DEF Agrees, WatchResults

\* A binary operator decides no more than it knows, and makes no error.
LEMMA CombineAgrees ==
  ASSUME NEW V, Answers(V), NEW op \in Binary, NEW a1, NEW a2, NEW b1, NEW b2,
         Agrees(a1, b1, V), Agrees(a2, b2, V)
  PROVE  Agrees(Combine(op, a1, a2), Combine(op, b1, b2), V)
<1> DEFINE a == Combine(op, a1, a2)
           b == Combine(op, b1, b2)
<1>1. /\ a1 \in WatchResults /\ a2 \in WatchResults /\ b1 \in Truth /\ b2 \in Truth
      /\ (a1 \in Truth => b1 = a1) /\ (a2 \in Truth => b2 = a2)
  BY AgreeTypes DEF Agrees
<1>2. a \in WatchResults /\ b \in Truth /\ (a \in Truth => b = a)
      /\ (a = "ERROR" => a1 = "ERROR" \/ a2 = "ERROR")
  <2>1. CASE op = "AND"
    BY <1>1, <2>1, Zenon DEF Combine, WatchResults, Truth
  <2>2. CASE op = "OR"
    BY <1>1, <2>2, Zenon DEF Combine, WatchResults, Truth
  <2>3. CASE op = "XOR"
    BY <1>1, <2>3, Zenon DEF Combine, WatchResults, Truth
  <2> QED  BY <2>1, <2>2, <2>3 DEF Binary
<1>3. a = "ERROR" => "ERROR" \in V
  BY <1>2 DEF Agrees
<1> HIDE DEF a, b
<1>4. a \in V
  BY <1>2, <1>3, AnswersAre
<1> QED  BY <1>2, <1>4 DEF Agrees, a, b

\* So does the negation.
LEMMA InvertAgrees ==
  ASSUME NEW V, Answers(V), NEW a, NEW b, Agrees(a, b, V)
  PROVE  Agrees(Invert(a), Invert(b), V)
BY DEF Answers, Agrees, Invert, Negate, WatchResults, Truth

\* Taking n values off the stack and pushing one.
LEMMA ReplaceStack ==
  ASSUME NEW e \in Evaluations, NEW n \in Nat, n <= Len(e.stack), NEW a \in WatchResults
  PROVE  /\ Replace(e, n, a) \in Evaluations
         /\ Replace(e, n, a).outcome = e.outcome
         /\ Len(Replace(e, n, a).stack) = Len(e.stack) - n + 1
         /\ \A i \in 1 .. Len(e.stack) - n : Replace(e, n, a).stack[i] = e.stack[i]
         /\ Replace(e, n, a).stack[Len(e.stack) - n + 1] = a
<1> DEFINE m == Len(e.stack) - n
           p == Pop(e.stack, n)
           s == Append(p, a)
<1>1. e.stack \in Seq(WatchResults) /\ Len(e.stack) \in Nat /\ m \in Nat /\ m <= Len(e.stack)
  BY DEF Evaluations
<1>2. p \in Seq(WatchResults) /\ Len(p) = m /\ \A i \in 1 .. m : p[i] = e.stack[i]
  BY <1>1 DEF Pop
<1>3. s \in Seq(WatchResults) /\ Len(s) = m + 1
      /\ (\A i \in 1 .. m : s[i] = p[i]) /\ s[m + 1] = a
  <2> HIDE DEF p, m
  <2> QED  BY <1>1, <1>2
<1>4. Replace(e, n, a) = [e EXCEPT !.stack = s]
  BY DEF Replace
<1> HIDE DEF s, m, p
<1>5. Replace(e, n, a).stack = s /\ Replace(e, n, a).outcome = e.outcome
      /\ Replace(e, n, a) \in Evaluations
  BY <1>3, <1>4 DEF Evaluations
<1> QED  BY <1>2, <1>3, <1>5 DEF m

\* Two stacks of one height whose values agree one by one.
StacksAgree(e, k, V) ==
  /\ Len(e.stack) = Len(k.stack)
  /\ \A i \in 1 .. Len(e.stack) : Agrees(e.stack[i], k.stack[i], V)

\* Values that agree, pushed on stacks that agree, leave stacks that agree.
LEMMA ReplaceAgrees ==
  ASSUME NEW V, Answers(V), NEW e \in Evaluations, NEW k \in Evaluations, StacksAgree(e, k, V),
         NEW n \in Nat, n <= Len(e.stack), NEW a, NEW b, Agrees(a, b, V)
  PROVE  StacksAgree(Replace(e, n, a), Replace(k, n, b), V)
<1>1. a \in WatchResults /\ b \in WatchResults
  BY AgreeTypes
<1>2. Len(e.stack) \in Nat /\ Len(k.stack) = Len(e.stack)
  BY DEF Evaluations, StacksAgree
<1> DEFINE m == Len(e.stack) - n
           x == Replace(e, n, a).stack
           y == Replace(k, n, b).stack
<1>3. /\ Len(x) = m + 1 /\ Len(y) = m + 1
      /\ \A i \in 1 .. m : x[i] = e.stack[i] /\ y[i] = k.stack[i]
      /\ x[m + 1] = a /\ y[m + 1] = b
  <2>1. n <= Len(k.stack)
    BY <1>2
  <2>2. /\ Len(x) = m + 1 /\ x[m + 1] = a
        /\ \A i \in 1 .. m : x[i] = e.stack[i]
    BY <1>1, ReplaceStack
  <2>3. /\ Len(y) = Len(k.stack) - n + 1 /\ y[Len(k.stack) - n + 1] = b
        /\ \A i \in 1 .. Len(k.stack) - n : y[i] = k.stack[i]
    BY <1>1, <2>1, ReplaceStack
  <2> HIDE DEF x, y
  <2> QED  BY <1>2, <2>2, <2>3
<1>4. ASSUME NEW i \in 1 .. m + 1 PROVE Agrees(x[i], y[i], V)
  <2>1. CASE i = m + 1
    <3> HIDE DEF x, y, m
    <3> QED  BY <1>3, <2>1
  <2>2. CASE i \in 1 .. m
    <3>1. i \in 1 .. Len(e.stack)
      BY <1>2, <2>2
    <3>2. Agrees(e.stack[i], k.stack[i], V)
      BY <3>1 DEF StacksAgree
    <3> HIDE DEF x, y, m
    <3> QED  BY <1>3, <2>2, <3>2
  <2>3. m \in Int
    BY <1>2
  <2> HIDE DEF m
  <2> QED  BY <2>1, <2>2, <2>3
<1>5. /\ Len(Replace(e, n, a).stack) = Len(Replace(k, n, b).stack)
      /\ \A i \in 1 .. Len(Replace(e, n, a).stack) :
           Agrees(Replace(e, n, a).stack[i], Replace(k, n, b).stack[i], V)
  <2> HIDE DEF m
  <2> QED  BY <1>3, <1>4
<1> QED  BY <1>5 DEF StacksAgree

----------------------------------------------------------------------------
(* One token.  While the validation has not ended, neither evaluation has,  *)
(* and the depth is the height of both stacks; when it ends, both end.      *)

Together(c, e, k, V) ==
  /\ e \in Evaluations /\ k \in Evaluations
  /\ c.verdict = "running"
  /\ e.outcome = "running" /\ k.outcome = "running"
  /\ c.depth = Len(e.stack)
  /\ StacksAgree(e, k, V)

Accepted(c, e, k, V) ==
  /\ c.verdict = "valid"
  /\ Agrees(e.outcome, k.outcome, V)

Rejected(c, e, k) ==
  /\ c.verdict = "invalid"
  /\ e.outcome \in {"illegal", "STALE", "ERROR"}
  /\ k.outcome = "illegal"

Outcome(c, e, k, V) == Together(c, e, k, V) \/ Accepted(c, e, k, V) \/ Rejected(c, e, k)

\* One token, read by the three while they are together: LC_ValidateRPN and both
\* evaluations go on together, all accept, or all refuse.
LEMMA TokenStep ==
  ASSUME NEW V, Answers(V), NEW chk, NEW ev, NEW kn, Together(chk, ev, kn, V),
         NEW rw, NEW tw, \A w \in WPs : Agrees(rw[w], tw[w], V),
         NEW tok \in Tokens, NEW last \in BOOLEAN
  PROVE  Outcome(CheckToken(chk, tok, last),
                 AtEnd(EvalToken(ev, tok, rw), last),
                 AtEnd(EvalToken(kn, tok, tw), last), V)
<1> DEFINE c == CheckToken(chk, tok, last)
           e == EvalToken(ev, tok, rw)
           k == EvalToken(kn, tok, tw)
           h == Len(ev.stack)
<1> SUFFICES Outcome(c, AtEnd(e, last), AtEnd(k, last), V)
  OBVIOUS
<1>1. /\ ev \in Evaluations /\ kn \in Evaluations
      /\ ev.outcome = "running" /\ kn.outcome = "running"
      /\ chk.verdict = "running" /\ chk.depth = h
      /\ StacksAgree(ev, kn, V)
      /\ h \in Nat /\ Len(kn.stack) = h
  BY DEF Together, StacksAgree, Evaluations
\* A step after which all three go on, unless the buffer ends.
<1>2. ASSUME e \in Evaluations, k \in Evaluations,
             e.outcome = "running", k.outcome = "running", StacksAgree(e, k, V),
             c = [depth |-> Len(e.stack), verdict |-> IF last THEN "invalid" ELSE "running"]
      PROVE  Outcome(c, AtEnd(e, last), AtEnd(k, last), V)
  <2>1. CASE last
    <3>1. AtEnd(e, last).outcome = "illegal" /\ AtEnd(k, last).outcome = "illegal"
      <4> HIDE DEF e, k
      <4> QED  BY <1>2, <2>1 DEF AtEnd, Illegal, Evaluations
    <3>2. c.verdict = "invalid"
      <4> HIDE DEF c, e
      <4> QED  BY <1>2, <2>1
    <3> HIDE DEF c, e, k
    <3> QED  BY <3>1, <3>2 DEF Outcome, Rejected
  <2>2. CASE ~last
    <3>1. AtEnd(e, last) = e /\ AtEnd(k, last) = k
      BY <2>2 DEF AtEnd
    <3>2. c.verdict = "running" /\ c.depth = Len(e.stack)
      <4> HIDE DEF c, e
      <4> QED  BY <1>2, <2>2
    <3> HIDE DEF c, e, k
    <3> QED  BY <1>2, <3>1, <3>2 DEF Outcome, Together
  <2> QED  BY <2>1, <2>2
\* A step that finds too few operands, or no token at all.
<1>3. ASSUME e = Illegal(ev), k = Illegal(kn), c.verdict = "invalid"
      PROVE  Outcome(c, AtEnd(e, last), AtEnd(k, last), V)
  <2>1. e.outcome = "illegal" /\ k.outcome = "illegal"
    BY <1>1, <1>3 DEF Illegal, Evaluations
  <2>2. AtEnd(e, last) = e /\ AtEnd(k, last) = k
    BY <2>1 DEF AtEnd
  <2> HIDE DEF c, e, k
  <2> QED  BY <1>3, <2>1, <2>2 DEF Outcome, Rejected
<1>4. CASE tok \in WPs
  <2>1. tok \notin Binary /\ tok # "NOT" /\ tok # "EQUAL" /\ tok # Bad
    BY <1>4, WatchpointAssumption DEF Operators, Binary, Bad
  <2>2. e = Replace(ev, 0, rw[tok]) /\ k = Replace(kn, 0, tw[tok])
    BY <1>1, <1>4, <2>1, Zenon DEF EvalToken
  <2>3. c = [depth |-> h + 1, verdict |-> IF last THEN "invalid" ELSE "running"]
    BY <1>1, <1>4, <2>1 DEF CheckToken, Operators, Binary, Bad
  <2>4. Agrees(rw[tok], tw[tok], V)
    BY <1>4
  <2>5. rw[tok] \in WatchResults /\ tw[tok] \in WatchResults
    BY <2>4, AgreeTypes
  <2>6. /\ e \in Evaluations /\ e.outcome = "running" /\ Len(e.stack) = h + 1
        /\ k \in Evaluations /\ k.outcome = "running"
    <3> HIDE DEF e, k
    <3> QED  BY <1>1, <2>2, <2>5, ReplaceStack
  <2>7. StacksAgree(e, k, V)
    <3> HIDE DEF e, k
    <3> QED  BY <1>1, <2>2, <2>4, ReplaceAgrees
  <2> HIDE DEF e, k, c
  <2> QED  BY <1>2, <2>3, <2>6, <2>7
<1>5. CASE tok \in Binary
  <2>1. tok \notin WPs /\ tok # "NOT" /\ tok # "EQUAL" /\ tok # Bad
    BY <1>5, WatchpointAssumption DEF Operators, Binary, Bad
  <2>2. CASE h >= 2
    <3> DEFINE a == Combine(tok, Operand(ev, 1), Operand(ev, 0))
               b == Combine(tok, Operand(kn, 1), Operand(kn, 0))
    <3>1. e = Replace(ev, 2, a) /\ k = Replace(kn, 2, b)
      BY <1>1, <1>5, <2>1, <2>2, Zenon DEF EvalToken
    <3>2. c = [depth |-> h - 1, verdict |-> IF last THEN "invalid" ELSE "running"]
      BY <1>1, <1>5, <2>1, <2>2 DEF CheckToken
    <3>3. Agrees(Operand(ev, 1), Operand(kn, 1), V) /\ Agrees(Operand(ev, 0), Operand(kn, 0), V)
      <4>1. h \in 1 .. h /\ h - 1 \in 1 .. h
        BY <1>1, <2>2
      <4> QED  BY <1>1, <4>1 DEF StacksAgree, Operand
    <3>4. Agrees(a, b, V)
      BY <1>5, <3>3, CombineAgrees
    <3>5. a \in WatchResults /\ b \in WatchResults
      BY <3>4, AgreeTypes
    <3>6. /\ e \in Evaluations /\ e.outcome = "running" /\ Len(e.stack) = h - 1
          /\ k \in Evaluations /\ k.outcome = "running"
      <4>1. Replace(ev, 2, a) \in Evaluations /\ Replace(ev, 2, a).outcome = "running"
            /\ Len(Replace(ev, 2, a).stack) = h - 2 + 1
        <5> HIDE DEF a, b
        <5> QED  BY <1>1, <2>2, <3>5, ReplaceStack
      <4>2. Replace(kn, 2, b) \in Evaluations /\ Replace(kn, 2, b).outcome = "running"
        <5> HIDE DEF a, b
        <5> QED  BY <1>1, <2>2, <3>5, ReplaceStack
      <4> HIDE DEF e, k, a, b
      <4> QED  BY <1>1, <3>1, <4>1, <4>2
    <3>7. StacksAgree(e, k, V)
      <4> HIDE DEF e, k, a, b
      <4> QED  BY <1>1, <2>2, <3>1, <3>4, ReplaceAgrees
    <3> HIDE DEF e, k, c, a, b
    <3> QED  BY <1>2, <3>2, <3>6, <3>7
  <2>3. CASE h < 2
    <3>1. e = Illegal(ev) /\ k = Illegal(kn)
      <4>1. ~(h >= 2)
        BY <1>1, <2>3
      <4> QED  BY <1>1, <2>1, <4>1, Zenon DEF EvalToken
    <3>2. c.verdict = "invalid"
      BY <1>1, <1>5, <2>1, <2>3 DEF CheckToken
    <3> QED  BY <1>3, <3>1, <3>2
  <2> QED  BY <1>1, <2>2, <2>3
<1>6. CASE tok = "NOT"
  <2>1. tok \notin WPs /\ tok \notin Binary /\ tok # Bad
    BY <1>6, WatchpointAssumption DEF Operators, Binary, Bad
  <2>2. CASE h >= 1
    <3> DEFINE a == Invert(Operand(ev, 0))
               b == Invert(Operand(kn, 0))
    <3>1. e = Replace(ev, 1, a) /\ k = Replace(kn, 1, b)
      BY <1>1, <1>6, <2>1, <2>2, Zenon DEF EvalToken
    <3>2. c = [depth |-> h, verdict |-> IF last THEN "invalid" ELSE "running"]
      BY <1>1, <1>6, <2>1, <2>2 DEF CheckToken
    <3>3. Agrees(Operand(ev, 0), Operand(kn, 0), V)
      <4>1. h \in 1 .. h
        BY <1>1, <2>2
      <4> QED  BY <1>1, <4>1 DEF StacksAgree, Operand
    <3>4. Agrees(a, b, V)
      BY <3>3, InvertAgrees
    <3>5. a \in WatchResults /\ b \in WatchResults
      BY <3>4, AgreeTypes
    <3>6. /\ e \in Evaluations /\ e.outcome = "running" /\ Len(e.stack) = h
          /\ k \in Evaluations /\ k.outcome = "running"
      <4>1. Replace(ev, 1, a) \in Evaluations /\ Replace(ev, 1, a).outcome = "running"
            /\ Len(Replace(ev, 1, a).stack) = h - 1 + 1
        <5> HIDE DEF a, b
        <5> QED  BY <1>1, <2>2, <3>5, ReplaceStack
      <4>2. Replace(kn, 1, b) \in Evaluations /\ Replace(kn, 1, b).outcome = "running"
        <5> HIDE DEF a, b
        <5> QED  BY <1>1, <2>2, <3>5, ReplaceStack
      <4> HIDE DEF e, k, a, b
      <4> QED  BY <1>1, <3>1, <4>1, <4>2
    <3>7. StacksAgree(e, k, V)
      <4> HIDE DEF e, k, a, b
      <4> QED  BY <1>1, <2>2, <3>1, <3>4, ReplaceAgrees
    <3> HIDE DEF e, k, c, a, b
    <3> QED  BY <1>2, <3>2, <3>6, <3>7
  <2>3. CASE h < 1
    <3>1. e = Illegal(ev) /\ k = Illegal(kn)
      <4>1. ~(h >= 1) /\ ~(h >= 2)
        BY <1>1, <2>3
      <4> QED  BY <1>1, <1>6, <2>1, <4>1, Zenon DEF EvalToken
    <3>2. c.verdict = "invalid"
      BY <1>1, <1>6, <2>1, <2>3 DEF CheckToken
    <3> QED  BY <1>3, <3>1, <3>2
  <2> QED  BY <1>1, <2>2, <2>3
<1>7. CASE tok = "EQUAL"
  <2>1. tok \notin WPs /\ tok \notin Binary /\ tok # Bad /\ tok # "NOT"
    BY <1>7, WatchpointAssumption DEF Operators, Binary, Bad
  <2>2. c.verdict = IF h = 1 THEN "valid" ELSE "invalid"
    BY <1>1, <1>7, <2>1 DEF CheckToken
  <2>3. CASE h < 1
    <3>1. e = Illegal(ev) /\ k = Illegal(kn)
      <4>1. ~(h >= 1)
        BY <1>1, <2>3
      <4> QED  BY <1>1, <1>7, <2>1, <4>1, Zenon DEF EvalToken
    <3>2. h # 1
      <4> HIDE DEF h
      <4> QED  BY <2>3
    <3>3. c.verdict = "invalid"
      <4> HIDE DEF c, h
      <4> QED  BY <2>2, <3>2
    <3> QED  BY <1>3, <3>1, <3>3
  <2>4. CASE h >= 1
    <3> DEFINE a == Operand(ev, 0)
               b == Operand(kn, 0)
    <3>1. e = Equal(ev) /\ k = Equal(kn)
      BY <1>1, <1>7, <2>1, <2>4, Zenon DEF EvalToken
    <3>2. Agrees(a, b, V)
      <4>1. h \in 1 .. h
        BY <1>1, <2>4
      <4> QED  BY <1>1, <4>1 DEF StacksAgree, Operand
    <3>3. /\ e.outcome = IF a \in Truth /\ h > 1 THEN "illegal" ELSE a
          /\ k.outcome = IF h > 1 THEN "illegal" ELSE b
      <4>1. b \in Truth
        BY <3>2 DEF Agrees
      <4> HIDE DEF e, k
      <4> QED  BY <1>1, <3>1, <4>1 DEF Equal, Illegal, Evaluations
    <3>4. AtEnd(e, last) = e /\ AtEnd(k, last) = k
      <4>1. e.outcome # "running" /\ k.outcome # "running"
        <5> HIDE DEF e, k, a, b
        <5> QED  BY <3>2, <3>3, AgreeTypes DEF WatchResults, Truth
      <4> HIDE DEF e, k
      <4> QED  BY <4>1 DEF AtEnd
    <3> HIDE DEF e, k, c, a, b
    <3>5. CASE h = 1
      BY <2>2, <3>2, <3>3, <3>4, <3>5 DEF Outcome, Accepted
    <3>6. CASE h > 1
      <4>1. c.verdict = "invalid" /\ k.outcome = "illegal"
        <5> HIDE DEF h
        <5> QED  BY <1>1, <2>2, <3>3, <3>6
      <4>2. e.outcome \in {"illegal", "STALE", "ERROR"}
        <5> HIDE DEF h
        <5> QED  BY <3>2, <3>3, <3>6, AgreeTypes DEF WatchResults, Truth
      <4> QED  BY <3>4, <4>1, <4>2 DEF Outcome, Rejected
    <3>7. h = 1 \/ h > 1
      <4>1. h \in Nat
        BY <1>1
      <4> HIDE DEF h
      <4> QED  BY <2>4, <4>1
    <3> QED  BY <3>5, <3>6, <3>7
  <2> QED  BY <1>1, <2>3, <2>4
<1>8. CASE tok = Bad
  <2>1. tok \notin WPs /\ tok \notin Binary /\ tok # "NOT" /\ tok # "EQUAL"
    BY <1>8, WatchpointAssumption DEF Operators, Binary, Bad
  <2>2. e = Illegal(ev) /\ k = Illegal(kn)
    BY <1>1, <2>1, Zenon DEF EvalToken
  <2>3. c.verdict = "invalid"
    BY <1>1, <1>8, <2>1 DEF CheckToken, Bad
  <2> QED  BY <1>3, <2>2, <2>3
<1> QED  BY <1>4, <1>5, <1>6, <1>7, <1>8 DEF Tokens, Operators
----------------------------------------------------------------------------
(* The loops over a whole equation.  What a recursive function computes is  *)
(* shown by the least counterexample.                                      *)

\* A non-empty set of naturals has a least element.
LEMMA LeastNat ==
  ASSUME NEW S \in SUBSET Nat, S # {}
  PROVE  \E m \in S : \A n \in S : m <= n
<1> DEFINE R == OpToRel(<, Nat)
<1>1. IsWellFoundedOn(R, Nat)
  BY NatLessThanWellFounded
<1>2. \E m \in S : \A n \in S : ~ (<<n, m>> \in R)
  <2> HIDE DEF R
  <2> QED BY <1>1, WFMin
<1>3. \A n, m \in Nat : n < m => <<n, m>> \in R
  BY DEF OpToRel
<1> HIDE DEF R
<1>4. PICK m \in S : \A n \in S : ~ (<<n, m>> \in R)
  BY <1>2
<1>5. ASSUME NEW n \in S PROVE m <= n
  <2>1. m \in Nat /\ n \in Nat /\ ~ (n < m)
    BY <1>3, <1>4
  <2> QED BY <2>1
<1> QED BY <1>5

\* The states of the two loops before the first token and after each of n.
CheckAt(eqn, c, i) ==
  IF i = 0 THEN CheckStart ELSE CheckToken(c[i - 1], eqn[i], i = EquSize)
EvalAt(eqn, rw, e, i) ==
  IF i = 0 THEN EvalStart ELSE EvalToken(e[i - 1], eqn[i], rw)
Checks(eqn, c, n) == c = [i \in 0 .. n |-> CheckAt(eqn, c, i)]
Evaluates(eqn, rw, e, n) == e = [i \in 0 .. n |-> EvalAt(eqn, rw, e, i)]

\* There are such runs for every n: both can be extended by one.
LEMMA RunsExist ==
  ASSUME NEW eqn, NEW rw, NEW n \in Nat
  PROVE  (\E c : Checks(eqn, c, n)) /\ (\E e : Evaluates(eqn, rw, e, n))
<1> DEFINE Good(i) == (\E c : Checks(eqn, c, i)) /\ (\E e : Evaluates(eqn, rw, e, i))
           S == {i \in Nat : ~Good(i)}
<1> SUFFICES ASSUME S # {} PROVE FALSE
  OBVIOUS
<1>1. PICK m \in S : \A i \in S : m <= i
  <2>1. S \in SUBSET Nat
    OBVIOUS
  <2> HIDE DEF S
  <2> QED  BY <2>1, LeastNat
<1>2. m \in Nat /\ ~Good(m)
  BY <1>1
<1>3. CASE m = 0
  <2>1. Checks(eqn, [i \in 0 .. 0 |-> CheckStart], 0)
    BY DEF Checks, CheckAt
  <2>2. Evaluates(eqn, rw, [i \in 0 .. 0 |-> EvalStart], 0)
    BY DEF Evaluates, EvalAt
  <2> QED  BY <1>2, <1>3, <2>1, <2>2
<1>4. CASE m # 0
  <2>1. m - 1 \in Nat /\ Good(m - 1)
    <3>1. m - 1 \in Nat /\ ~(m <= m - 1)
      BY <1>2, <1>4
    <3>2. m - 1 \notin S
      <4> HIDE DEF S
      <4> QED  BY <1>1, <3>1
    <3> HIDE DEF Good
    <3> QED  BY <3>1, <3>2
  <2>2. PICK c, e : Checks(eqn, c, m - 1) /\ Evaluates(eqn, rw, e, m - 1)
    BY <2>1
  <2> DEFINE d == [i \in 0 .. m |-> IF i < m THEN c[i] ELSE CheckAt(eqn, c, m)]
             f == [i \in 0 .. m |-> IF i < m THEN e[i] ELSE EvalAt(eqn, rw, e, m)]
  <2>3. ASSUME NEW i \in 0 .. m
        PROVE  d[i] = CheckAt(eqn, d, i) /\ f[i] = EvalAt(eqn, rw, f, i)
    <3>1. i # 0 => d[i - 1] = c[i - 1] /\ f[i - 1] = e[i - 1]
      BY <1>2
    <3>2. CheckAt(eqn, d, i) = CheckAt(eqn, c, i) /\ EvalAt(eqn, rw, f, i) = EvalAt(eqn, rw, e, i)
      <4> HIDE DEF d, f
      <4> QED  BY <3>1 DEF CheckAt, EvalAt
    <3>3. i < m => c[i] = CheckAt(eqn, c, i) /\ e[i] = EvalAt(eqn, rw, e, i)
      BY <1>2, <2>2 DEF Checks, Evaluates
    <3>4. /\ d[i] = IF i < m THEN c[i] ELSE CheckAt(eqn, c, m)
          /\ f[i] = IF i < m THEN e[i] ELSE EvalAt(eqn, rw, e, m)
      OBVIOUS
    <3>5. i < m \/ i = m
      BY <1>2
    <3> HIDE DEF d, f
    <3> QED  BY <3>2, <3>3, <3>4, <3>5, <1>2
  <2>4. d = [i \in 0 .. m |-> d[i]] /\ f = [i \in 0 .. m |-> f[i]]
    OBVIOUS
  <2> HIDE DEF d, f
  <2>5. Checks(eqn, d, m) /\ Evaluates(eqn, rw, f, m)
    BY <2>3, <2>4 DEF Checks, Evaluates
  <2> QED  BY <1>2, <2>5
<1> QED  BY <1>3, <1>4

\* The runs that the loops are defined by.
CheckRun(eqn) == CHOOSE c : Checks(eqn, c, Len(eqn))
EvalRun(eqn, rw) == CHOOSE e : Evaluates(eqn, rw, e, Len(eqn))

\* Both loops end in the last state of a run over the equation.
LEMMA LoopsAre ==
  ASSUME NEW eqn \in Seq(Tokens), NEW rw
  PROVE  /\ Checks(eqn, CheckRun(eqn), Len(eqn)) /\ CheckLoop(eqn) = CheckRun(eqn)[Len(eqn)]
         /\ Evaluates(eqn, rw, EvalRun(eqn, rw), Len(eqn))
         /\ EvalLoop(eqn, rw) = EvalRun(eqn, rw)[Len(eqn)]
<1>1. (\E c : Checks(eqn, c, Len(eqn))) /\ (\E e : Evaluates(eqn, rw, e, Len(eqn)))
  <2>1. Len(eqn) \in Nat
    OBVIOUS
  <2> QED  BY <2>1, RunsExist
<1>2. Checks(eqn, CheckRun(eqn), Len(eqn)) /\ Evaluates(eqn, rw, EvalRun(eqn, rw), Len(eqn))
  BY <1>1 DEF CheckRun, EvalRun
<1>3. CheckLoop(eqn) = CheckRun(eqn)[Len(eqn)]
  BY DEF CheckLoop, CheckRun, Checks, CheckAt
<1>4. EvalLoop(eqn, rw) = EvalRun(eqn, rw)[Len(eqn)]
  BY DEF EvalLoop, EvalRun, Evaluates, EvalAt
<1> QED  BY <1>2, <1>3, <1>4

\* What holds of the three loops after any number of tokens.
Loops(c, e, k, V) == Together(c, e, k, V) \/ Accepted(c, e, k, V) \/ c.verdict = "invalid"

\* A loop that has ended is left as it is, and the buffer's end is invalid.
LEMMA LoopsStep ==
  ASSUME NEW V, Answers(V), NEW c, NEW e, NEW k, Loops(c, e, k, V),
         NEW rw, NEW tw, \A w \in WPs : Agrees(rw[w], tw[w], V),
         NEW tok \in Tokens, NEW last \in BOOLEAN
  PROVE  Loops(CheckToken(c, tok, last), EvalToken(e, tok, rw), EvalToken(k, tok, tw), V)
<1> DEFINE x == EvalToken(e, tok, rw)
           y == EvalToken(k, tok, tw)
           z == CheckToken(c, tok, last)
<1> SUFFICES Loops(z, x, y, V)
  OBVIOUS
<1>1. CASE Together(c, e, k, V)
  <2>1. Outcome(z, AtEnd(x, last), AtEnd(y, last), V)
    BY <1>1, TokenStep
  <2> HIDE DEF x, y, z
  \* The end of the buffer leaves alone what it does not make illegal.
  <2>2. ASSUME NEW f, AtEnd(f, last).outcome # "illegal" PROVE AtEnd(f, last) = f
    BY <2>2 DEF AtEnd, Illegal
  <2>3. CASE Together(z, AtEnd(x, last), AtEnd(y, last), V)
    <3>1. AtEnd(x, last) = x /\ AtEnd(y, last) = y
      BY <2>2, <2>3 DEF Together
    <3> QED  BY <2>3, <3>1 DEF Loops
  <2>4. CASE Accepted(z, AtEnd(x, last), AtEnd(y, last), V)
    <3>1. AtEnd(x, last) = x /\ AtEnd(y, last) = y
      <4>1. Agrees(AtEnd(x, last).outcome, AtEnd(y, last).outcome, V)
        BY <2>4 DEF Accepted
      <4> QED  BY <2>2, <4>1, AgreeTypes DEF WatchResults, Truth
    <3> QED  BY <2>4, <3>1 DEF Loops
  <2>5. CASE Rejected(z, AtEnd(x, last), AtEnd(y, last))
    BY <2>5 DEF Loops, Rejected
  <2> QED  BY <2>1, <2>3, <2>4, <2>5 DEF Outcome
<1>2. CASE Accepted(c, e, k, V)
  <2>1. c.verdict # "running" /\ e.outcome # "running" /\ k.outcome # "running"
    BY <1>2, AgreeTypes DEF Accepted, WatchResults, Truth
  <2>2. z = c
    BY <2>1 DEF CheckToken
  <2>3. x = e /\ y = k
    BY <2>1, Zenon DEF EvalToken
  <2> HIDE DEF x, y, z
  <2> QED  BY <1>2, <2>2, <2>3 DEF Loops
<1>3. CASE c.verdict = "invalid"
  BY <1>3 DEF CheckToken, Loops
<1> QED  BY <1>1, <1>2, <1>3 DEF Loops

\* Validation and the two evaluations of one equation end together; the first
\* token after which they had not would contradict TokenStep.
LEMMA LoopsAgree ==
  ASSUME NEW V, Answers(V), NEW eqn \in Seq(Tokens),
         NEW rw, NEW tw, \A w \in WPs : Agrees(rw[w], tw[w], V)
  PROVE  Loops(CheckLoop(eqn), EvalLoop(eqn, rw), EvalLoop(eqn, tw), V)
<1> DEFINE N == Len(eqn)
           c == CheckRun(eqn)
           e == EvalRun(eqn, rw)
           k == EvalRun(eqn, tw)
           S == {i \in 0 .. N : ~Loops(c[i], e[i], k[i], V)}
<1>1. N \in Nat /\ \A i \in 1 .. N : eqn[i] \in Tokens
  OBVIOUS
<1>2. /\ \A i \in 0 .. N : c[i] = CheckAt(eqn, c, i)
      /\ \A i \in 0 .. N : e[i] = EvalAt(eqn, rw, e, i) /\ k[i] = EvalAt(eqn, tw, k, i)
  BY LoopsAre DEF Checks, Evaluates
<1>3. CheckLoop(eqn) = c[N] /\ EvalLoop(eqn, rw) = e[N] /\ EvalLoop(eqn, tw) = k[N]
  BY LoopsAre
<1> HIDE DEF c, e, k, N
<1>4. ASSUME S # {} PROVE FALSE
  <2>1. PICK m \in S : \A i \in S : m <= i
    <3>1. S \in SUBSET Nat
      BY <1>1
    <3> HIDE DEF S
    <3> QED  BY <1>4, <3>1, LeastNat
  <2>2. m \in 0 .. N /\ ~Loops(c[m], e[m], k[m], V)
    BY <2>1
  <2>3. CASE m = 0
    <3>1. c[m] = CheckStart /\ e[m] = EvalStart /\ k[m] = EvalStart
      BY <1>2, <2>2, <2>3 DEF CheckAt, EvalAt
    <3>2. EvalStart \in Evaluations /\ Len(EvalStart.stack) = 0 /\ EvalStart.outcome = "running"
      BY DEF EvalStart, Evaluations
    <3>3. Together(CheckStart, EvalStart, EvalStart, V)
      BY <3>2 DEF StacksAgree, Together, CheckStart
    <3> QED  BY <2>2, <3>1, <3>3 DEF Loops
  <2>4. CASE m # 0
    <3>1. m - 1 \in 0 .. N /\ m \in 1 .. N /\ m - 1 < m
      BY <1>1, <2>2, <2>4
    <3>2. Loops(c[m - 1], e[m - 1], k[m - 1], V)
      <4>1. m - 1 \notin S
        <5> HIDE DEF S
        <5> QED  BY <2>1, <2>2, <3>1
      <4> QED  BY <3>1, <4>1
    <3>3. /\ c[m] = CheckToken(c[m - 1], eqn[m], m = EquSize)
          /\ e[m] = EvalToken(e[m - 1], eqn[m], rw)
          /\ k[m] = EvalToken(k[m - 1], eqn[m], tw)
      BY <1>2, <2>2, <2>4 DEF CheckAt, EvalAt
    <3>4. Loops(CheckToken(c[m - 1], eqn[m], m = EquSize),
                EvalToken(e[m - 1], eqn[m], rw), EvalToken(k[m - 1], eqn[m], tw), V)
      BY <1>1, <3>1, <3>2, LoopsStep
    <3> QED  BY <2>2, <3>3, <3>4
  <2> QED  BY <2>3, <2>4
<1>5. N \in 0 .. N
  BY <1>1
<1> QED  BY <1>3, <1>4, <1>5

\* What LC_EvaluateRPN finds for an equation that LC_ValidateRPN accepts is a
\* result of a watchpoint, is in doubt if it would come out otherwise with
\* more known, and is an error only if a watchpoint is.
LEMMA ValidAgrees ==
  ASSUME NEW V, Answers(V), NEW eqn \in Seq(Tokens), ValidRPN(eqn),
         NEW rw, NEW tw, \A w \in WPs : Agrees(rw[w], tw[w], V)
  PROVE  Agrees(EvalLoop(eqn, rw).outcome, EvalLoop(eqn, tw).outcome, V)
<1>1. Loops(CheckLoop(eqn), EvalLoop(eqn, rw), EvalLoop(eqn, tw), V)
  BY LoopsAgree
<1> QED  BY <1>1 DEF ValidRPN, Loops, Together, Accepted

----------------------------------------------------------------------------
\* All that the two loops and the what-if have in common, kept by every step:
\* once a loop has ended nothing changes, since the three end together.
LockstepInv ==
  /\ \A w \in WPs : Agrees(results[w], truth[w], WatchResults)
  /\ Outcome(check, eval, known, WatchResults)

\* Before the first token nothing has been decided.
LEMMA LockstepInitInv == LockstepInit => LockstepInv
<1> SUFFICES ASSUME LockstepInit PROVE LockstepInv
  OBVIOUS
<1>1. ASSUME NEW w \in WPs PROVE Agrees(results[w], truth[w], WatchResults)
  BY DEF LockstepInit, Agrees
<1>2. EvalStart \in Evaluations /\ Len(EvalStart.stack) = 0 /\ EvalStart.outcome = "running"
  BY DEF EvalStart, Evaluations
<1>3. StacksAgree(EvalStart, EvalStart, WatchResults)
  BY <1>2 DEF StacksAgree
<1>4. Together(CheckStart, EvalStart, EvalStart, WatchResults)
  BY <1>2, <1>3 DEF Together, CheckStart
<1> QED  BY <1>1, <1>4 DEF LockstepInit, LockstepInv, Outcome

\* Each token keeps the three together.
LEMMA LockstepStepInv == LockstepInv /\ [LockstepNext]_lockstepVars => LockstepInv'
<1> SUFFICES ASSUME LockstepInv, [LockstepNext]_lockstepVars PROVE LockstepInv'
  OBVIOUS
<1>1. ASSUME NEW tok \in Tokens, Take(tok) PROVE LockstepInv'
  <2>1. Together(check, eval, known, WatchResults)
    <3>1. check.verdict = "running" \/ eval.outcome = "running" \/ known.outcome = "running"
      BY <1>1 DEF Take
    <3>2. ~Accepted(check, eval, known, WatchResults) /\ ~Rejected(check, eval, known)
      BY <3>1 DEF Accepted, Rejected, Agrees, WatchResults, Truth
    <3> QED  BY <3>2 DEF LockstepInv, Outcome
  <2>2. \A w \in WPs : Agrees(results[w], truth[w], WatchResults)
    BY DEF LockstepInv
  <2>3. Outcome(CheckToken(check, tok, taken + 1 = EquSize),
                AtEnd(EvalToken(eval, tok, results), taken + 1 = EquSize),
                AtEnd(EvalToken(known, tok, truth), taken + 1 = EquSize), WatchResults)
    BY <2>1, <2>2, TokenStep DEF Answers
  <2>4. Outcome(check', eval', known', WatchResults)
    BY <1>1, <2>3 DEF Take
  <2> QED  BY <1>1, <2>2, <2>4 DEF Take, LockstepInv
<1>2. CASE UNCHANGED lockstepVars
  BY <1>2 DEF LockstepInv, lockstepVars
<1> QED  BY <1>1, <1>2 DEF LockstepNext

\* LC_ValidateRPN and the two evaluations stay together, token by token, for
\* every equation and all watchpoint results.
THEOREM LockstepInvHolds == LockstepSpec => []LockstepInv
BY LockstepInitInv, LockstepStepInv, PTL DEF LockstepSpec

\* What LC_ValidateRPN lets into the table, LC_EvaluateRPN can run: for every
\* equation and all watchpoint results.
THEOREM RpnValidIsLegal == LockstepSpec => []ValidIsLegal
<1>1. LockstepInv => ValidIsLegal
  BY DEF LockstepInv, ValidIsLegal, Outcome, Together, Accepted, Rejected, Agrees, WatchResults, Truth
<1> QED  BY <1>1, LockstepInvHolds, PTL

\* What LC_ValidateRPN keeps out could not have led to PASS or FAIL.
THEOREM RpnInvalidDecidesNothing == LockstepSpec => []InvalidDecidesNothing
<1>1. LockstepInv => InvalidDecidesNothing
  BY DEF LockstepInv, InvalidDecidesNothing, Outcome, Together, Accepted, Rejected, Truth
<1> QED  BY <1>1, LockstepInvHolds, PTL

\* What is decided without a measurement would be decided the same with it.
THEOREM RpnDecidedIsCertain == LockstepSpec => []DecidedIsCertain
<1>1. LockstepInv => DecidedIsCertain
  BY DEF LockstepInv, DecidedIsCertain, Outcome, Together, Accepted, Rejected, Agrees
<1> QED  BY <1>1, LockstepInvHolds, PTL
=============================================================================
