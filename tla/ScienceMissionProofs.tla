------------------------ MODULE ScienceMissionProofs ------------------------
(***************************************************************************)
(* A theorem about the science mission for any constants: whatever the     *)
(* ground, the orbit and the device do during the sequences, and whether   *)
(* or not the flight software also restarts by itself, RTS 36 restarts it   *)
(* at most twice after the ground has set a mode.                          *)
(***************************************************************************)
EXTENDS ScienceMission, RpnProofs

----------------------------------------------------------------------------
(* The commands of the sequences.  Only RTS 25 sets the mode, and only     *)
(* RTS 1 starts another sequence and sets the state of LC.                 *)

Values == {"", "ACTIVE", "DISABLED", "SUNSAFE", "INERTIAL"} \cup BOOLEAN \cup SUBSET Rtss
Plain == [delay : Nat, of : Nat, to : Values,
          op : {"other", "ap", "sample", "switch", "adcs", "enable", "restart"}]
Special(r) ==
  CASE r = 1  -> {Cmd(1, "lc", 0, "ACTIVE"), Cmd(1, "start", 3, "")}
    [] r = 25 -> {Cmd(0, "mode", 0, "SCIENCE")}
    [] OTHER  -> {}
Lists(S) == {s \in Seq(S) : Len(s) > 0}

\* Sequences put together are sequences.
LEMMA ConcatLists ==
  ASSUME NEW S, NEW s \in Lists(S), NEW t \in Lists(S)
  PROVE  s \o t \in Lists(S)
BY DEF Lists

\* The sequences are put together from few kinds of pieces.
LEMMA RtsLists ==
  ASSUME NEW S, Plain \subseteq S
  PROVE  /\ Rts3 \in Lists(S) /\ Rts26 \in Lists(S) /\ Rts27 \in Lists(S)
         /\ Rts28 \in Lists(S) /\ Rts29 \in Lists(S) /\ Rts30 \in Lists(S)
         /\ Rts33 \in Lists(S) /\ Rts36 \in Lists(S)
         /\ Special(1) \subseteq S => Rts1 \in Lists(S)
         /\ Special(25) \subseteq S => Rts25 \in Lists(S)
<1>1. ASSUME NEW c \in S PROVE <<c>> \in Lists(S)
  BY DEF Lists
<1>2. ASSUME NEW d \in Nat, NEW a \in Nat, NEW v \in Values,
             NEW op \in {"other", "ap", "sample", "switch", "adcs", "enable", "restart"}
      PROVE  Cmd(d, op, a, v) \in S
  BY DEF Cmd, Plain
<1>3. ASSUME NEW n \in Nat \ {0} PROVE Others(n) \in Lists(S)
  <2> DEFINE c == Cmd(1, "other", 0, "")
  <2>1. c \in S
    <3>1. "" \in Values
      BY DEF Values
    <3> QED  BY <1>2, <3>1
  <2>2. Others(n) = [i \in 1 .. n |-> c]
    BY DEF Others
  <2> HIDE DEF c
  <2>3. Others(n) \in Seq(S) /\ Len(Others(n)) = n
    BY <2>1, <2>2
  <2> QED  BY <2>3 DEF Lists
<1>4. ASSUME NEW a \in Nat PROVE Activate(a) \in Lists(S) /\ Disable(a) \in Lists(S)
  <2>1. "ACTIVE" \in Values /\ "DISABLED" \in Values
    BY DEF Values
  <2>2. Cmd(1, "ap", a, "ACTIVE") \in S /\ Cmd(1, "ap", a, "DISABLED") \in S
    BY <1>2, <2>1
  <2> QED  BY <1>1, <2>2 DEF Activate, Disable, SetAP
<1>5. /\ Sample(FALSE) \in Lists(S) /\ Sample(TRUE) \in Lists(S)
      /\ Switch(0, FALSE) \in Lists(S) /\ Switch(1, FALSE) \in Lists(S)
      /\ Switch(0, TRUE) \in Lists(S) /\ Switch(1, TRUE) \in Lists(S)
  <2>1. FALSE \in Values /\ TRUE \in Values
    BY DEF Values
  <2>2. /\ Cmd(1, "sample", 0, FALSE) \in S /\ Cmd(1, "sample", 0, TRUE) \in S
        /\ Cmd(1, "switch", 0, FALSE) \in S /\ Cmd(1, "switch", 1, FALSE) \in S
        /\ Cmd(1, "switch", 0, TRUE) \in S /\ Cmd(1, "switch", 1, TRUE) \in S
    BY <1>2, <2>1, Zenon
  <2> QED  BY <1>1, <2>2 DEF Sample, Switch
<1>6. Adcs("SUNSAFE") \in Lists(S) /\ Adcs("INERTIAL") \in Lists(S)
  <2>1. "SUNSAFE" \in Values /\ "INERTIAL" \in Values
    BY DEF Values
  <2>2. Cmd(5, "adcs", 0, "SUNSAFE") \in S /\ Cmd(5, "adcs", 0, "INERTIAL") \in S
    BY <1>2, <2>1
  <2> QED  BY <1>1, <2>2 DEF Adcs
<1>7. ASSUME NEW d \in Nat, NEW rs \in SUBSET Rtss
      PROVE  <<Cmd(d, "enable", 0, rs)>> \in Lists(S)
  <2>1. rs \in Values
    BY DEF Values
  <2>2. Cmd(d, "enable", 0, rs) \in S
    BY <1>2, <2>1
  <2> QED  BY <1>1, <2>2
<1>8. /\ <<Cmd(5, "other", 0, "")>> \in Lists(S)
      /\ <<Cmd(1, "restart", 0, "")>> \in Lists(S)
  <2>1. "" \in Values
    BY DEF Values
  <2>2. Cmd(5, "other", 0, "") \in S /\ Cmd(1, "restart", 0, "") \in S
    BY <1>2, <2>1
  <2> QED  BY <1>1, <2>2
<1> HIDE DEF Lists
<1>9. StandDown \in Lists(S) /\ Sunsafe \in Lists(S)
  <2> DEFINE a == Sample(FALSE)
             b == Switch(0, FALSE)
             c == Switch(1, FALSE)
  <2>1. StandDown = a \o b /\ Sunsafe = Adcs("SUNSAFE") \o Others(1) \o c
    BY DEF StandDown, Sunsafe
  <2>2. a \in Lists(S) /\ b \in Lists(S) /\ c \in Lists(S)
    BY <1>5
  <2> HIDE DEF a, b, c
  <2> QED  BY <1>3, <1>6, <2>1, <2>2, ConcatLists
<1>10. Rts3 \in Lists(S)
  BY <1>3, <1>6, ConcatLists DEF Rts3
<1>11. Rts26 \in Lists(S)
  BY <1>3, <1>4, <1>7, ConcatLists DEF Rts26, Rtss
<1>12. Rts27 \in Lists(S)
  BY <1>3, <1>4, <1>9, ConcatLists DEF Rts27
<1>13. Rts28 \in Lists(S)
  BY <1>3, <1>4, ConcatLists DEF Rts28
<1>14. Rts29 \in Lists(S)
  <2> DEFINE a == Others(1) \o Disable(27) \o Disable(28) \o Disable(29) \o Disable(30)
             b == a \o Others(2) \o Disable(33) \o Others(2) \o StandDown \o Sunsafe
  <2>1. a \in Lists(S)
    BY <1>3, <1>4, ConcatLists
  <2> HIDE DEF a
  <2>2. b \in Lists(S)
    BY <1>3, <1>4, <1>9, <2>1, ConcatLists
  <2>3. Rts29 = b \o Others(1) \o Activate(26) \o Disable(36)
    BY DEF a, Rts29
  <2> HIDE DEF b
  <2> QED  BY <1>3, <1>4, <2>2, <2>3, ConcatLists
<1>15. Rts30 \in Lists(S)
  <2> DEFINE a == Switch(1, TRUE)
             b == Switch(0, TRUE)
             c == Sample(TRUE)
             d == <<Cmd(5, "other", 0, "")>>
  <2>1. Rts30 = Others(1) \o Others(1) \o a \o Others(1) \o Adcs("INERTIAL")
                \o d \o b \o c \o Others(1) \o Activate(33)
    BY DEF Rts30
  <2>2. a \in Lists(S) /\ b \in Lists(S) /\ c \in Lists(S) /\ d \in Lists(S)
    BY <1>5, <1>8
  <2> HIDE DEF a, b, c, d
  <2> DEFINE e == Others(1) \o Others(1) \o a \o Others(1) \o Adcs("INERTIAL")
  <2>3. e \in Lists(S)
    BY <1>3, <1>6, <2>2, ConcatLists
  <2>4. Rts30 = e \o d \o b \o c \o Others(1) \o Activate(33)
    BY <2>1
  <2> HIDE DEF e
  <2> QED  BY <1>3, <1>4, <2>2, <2>3, <2>4, ConcatLists
<1>16. Rts33 \in Lists(S)
  BY <1>3, <1>4, <1>9, ConcatLists DEF Rts33
<1>17. Rts36 \in Lists(S)
  BY <1>8, <1>9, ConcatLists DEF Rts36
<1>18. ASSUME Special(25) \subseteq S PROVE Rts25 \in Lists(S)
  <2>1. <<Cmd(0, "mode", 0, "SCIENCE")>> \in Lists(S)
    BY <1>1, <1>18 DEF Special
  <2> QED  BY <1>4, <2>1, ConcatLists DEF Rts25
<1>19. ASSUME Special(1) \subseteq S PROVE Rts1 \in Lists(S)
  <2>1. Cmd(1, "lc", 0, "ACTIVE") \in S /\ Cmd(1, "start", 3, "") \in S
    <3>1. Special(1) = {Cmd(1, "lc", 0, "ACTIVE"), Cmd(1, "start", 3, "")}
      BY DEF Special
    <3> QED  BY <1>19, <3>1
  <2> DEFINE x == <<Cmd(1, "enable", 0, Rtss \ {1}), Cmd(1, "lc", 0, "ACTIVE"),
                    Cmd(1, "start", 3, ""), Cmd(0, "enable", 0, {26})>>
             y == <<Cmd(0, "enable", 0, {25})>>
  <2>2. x \in Lists(S)
    <3>1. Cmd(1, "enable", 0, Rtss \ {1}) \in S /\ Cmd(0, "enable", 0, {26}) \in S
      BY <1>2 DEF Values, Rtss
    <3>2. \A a, b, c, d \in S : <<a, b, c, d>> \in Lists(S)
      BY DEF Lists
    <3> QED  BY <2>1, <3>1, <3>2
  <2>3. y \in Lists(S)
    BY <1>7 DEF Rtss
  <2>4. Rts1 = Others(2) \o x \o Others(1) \o Activate(26) \o y \o Others(1)
               \o Activate(25) \o Others(1) \o Others(1)
    BY DEF Rts1
  <2> HIDE DEF x, y
  <2> DEFINE z == Others(2) \o x \o Others(1) \o Activate(26) \o y
  <2>5. z \in Lists(S)
    BY <1>3, <1>4, <2>2, <2>3, ConcatLists
  <2>6. Rts1 = z \o Others(1) \o Activate(25) \o Others(1) \o Others(1)
    BY <2>4
  <2> HIDE DEF z
  <2> QED  BY <1>3, <1>4, <2>5, <2>6, ConcatLists
<1> QED  BY <1>10, <1>11, <1>12, <1>13, <1>14, <1>15, <1>16, <1>17, <1>18, <1>19

\* Every sequence has a first command, and what a command may be.
LEMMA RtsIs ==
  ASSUME NEW r \in Rtss
  PROVE  /\ Len(Rts(r)) \in Nat \ {0}
         /\ \A i \in 1 .. Len(Rts(r)) : Rts(r)[i] \in Plain \cup Special(r)
<1> DEFINE S == Plain \cup Special(r)
<1>1. Rts(r) \in Lists(S)
  <2>1. CASE r \notin {1, 25}
    <3>1. /\ Rts3 \in Lists(S) /\ Rts26 \in Lists(S) /\ Rts27 \in Lists(S)
          /\ Rts28 \in Lists(S) /\ Rts29 \in Lists(S) /\ Rts30 \in Lists(S)
          /\ Rts33 \in Lists(S) /\ Rts36 \in Lists(S)
      <4>1. Plain \subseteq S
        OBVIOUS
      <4> HIDE DEF S
      <4> QED  BY <4>1, RtsLists
    <3> HIDE DEF S
    <3> QED  BY <2>1, <3>1 DEF Rtss, Rts
  <2>2. CASE r = 1
    <3>1. Rts1 \in Lists(Plain \cup Special(1))
      BY RtsLists
    <3> QED  BY <2>2, <3>1 DEF Rts
  <2>3. CASE r = 25
    <3>1. Rts25 \in Lists(Plain \cup Special(25))
      BY RtsLists
    <3> QED  BY <2>3, <3>1 DEF Rts
  <2> QED  BY <2>1, <2>2, <2>3
<1> HIDE DEF S
<1>2. Rts(r) \in Seq(S) /\ Len(Rts(r)) \in Nat /\ Len(Rts(r)) > 0
  BY <1>1 DEF Lists
<1>3. \A i \in 1 .. Len(Rts(r)) : Rts(r)[i] \in S
  BY <1>2
<1> QED  BY <1>2, <1>3 DEF S

\* What the commands of the sequences may do to the mode, LC and SC.
LEMMA CommandIs ==
  ASSUME NEW r \in Rtss, NEW i \in 1 .. Len(Rts(r))
  PROVE  /\ Rts(r)[i].delay \in Nat
         /\ Rts(r)[i].op = "mode" => r = 25 /\ Rts(r)[i].to = "SCIENCE"
         /\ Rts(r)[i].op = "lc" => Rts(r)[i].to = "ACTIVE"
         /\ Rts(r)[i].op = "start" => Rts(r)[i].of = 3
<1> DEFINE c == Rts(r)[i]
<1>1. c \in Plain \/ c \in Special(r)
  BY RtsIs
<1>2. CASE c \in Plain
  <2> HIDE DEF c
  <2>1. c.delay \in Nat /\ c.op \notin {"mode", "lc", "start"}
    BY <1>2 DEF Plain
  <2> QED  BY <2>1 DEF c
<1>3. CASE c \in Special(r)
  <2> HIDE DEF c
  <2>1. CASE r = 1
    <3>1. Special(r) = {Cmd(1, "lc", 0, "ACTIVE"), Cmd(1, "start", 3, "")}
      BY <2>1 DEF Special
    <3>2. c = Cmd(1, "lc", 0, "ACTIVE") \/ c = Cmd(1, "start", 3, "")
      BY <1>3, <3>1
    <3>3. CASE c = Cmd(1, "lc", 0, "ACTIVE")
      <4>1. c.delay = 1 /\ c.op = "lc" /\ c.to = "ACTIVE"
        BY <3>3 DEF Cmd
      <4> QED  BY <4>1 DEF c
    <3>4. CASE c = Cmd(1, "start", 3, "")
      <4>1. c.delay = 1 /\ c.op = "start" /\ c.of = 3
        BY <3>4 DEF Cmd
      <4> QED  BY <4>1 DEF c
    <3> QED  BY <3>2, <3>3, <3>4
  <2>2. CASE r = 25
    <3>1. Special(r) = {Cmd(0, "mode", 0, "SCIENCE")}
      BY <2>2 DEF Special
    <3>2. c = Cmd(0, "mode", 0, "SCIENCE")
      BY <1>3, <3>1
    <3> QED  BY <2>2, <3>2 DEF Cmd, c
  <2>3. CASE r \notin {1, 25}
    BY <1>3, <2>3 DEF Special
  <2> QED  BY <2>1, <2>2, <2>3
<1> QED  BY <1>1, <1>2, <1>3

----------------------------------------------------------------------------
(* Actionpoints 25 and 36, whose equations are given.                      *)

\* The tokens of these equations, one by one.
LEMMA TokenIs ==
  ASSUME NEW e \in Evaluations, e.outcome = "running", NEW v \in [WPs -> WatchResults]
  PROVE  /\ \A w \in WPs : EvalToken(e, w, v) = Replace(e, 0, v[w])
         /\ Len(e.stack) >= 2 => EvalToken(e, "AND", v)
              = Replace(e, 2, Combine("AND", Operand(e, 1), Operand(e, 0)))
         /\ Len(e.stack) >= 1 => EvalToken(e, "EQUAL", v) = Equal(e)
<1>1. \A t \in WPs : t \notin Binary /\ t # "NOT" /\ t # "EQUAL" /\ t # "AND"
  BY WatchpointAssumption DEF Operators, Binary
<1>2. "AND" \in Binary /\ "EQUAL" \notin Binary
  BY DEF Binary
<1>3. \A w \in WPs : EvalToken(e, w, v) = Replace(e, 0, v[w])
  BY <1>1, Zenon DEF EvalToken
<1>4. ASSUME Len(e.stack) >= 2
      PROVE  EvalToken(e, "AND", v) = Replace(e, 2, Combine("AND", Operand(e, 1), Operand(e, 0)))
  BY <1>1, <1>2, <1>4, Zenon DEF EvalToken
<1>5. ASSUME Len(e.stack) >= 1 PROVE EvalToken(e, "EQUAL", v) = Equal(e)
  BY <1>1, <1>2, <1>5, Zenon DEF EvalToken
<1> QED  BY <1>3, <1>4, <1>5

\* What is on the stack after a watchpoint, and after two values made one.
Pushed(e, a, f) ==
  /\ f \in Evaluations /\ f.outcome = e.outcome
  /\ Len(f.stack) = Len(e.stack) + 1 /\ f.stack[Len(e.stack) + 1] = a
  /\ \A i \in 1 .. Len(e.stack) : f.stack[i] = e.stack[i]
Joined(e, a, f) ==
  /\ f \in Evaluations /\ f.outcome = e.outcome
  /\ Len(f.stack) = 1 /\ f.stack[1] = a

\* What pushing a value, and replacing two by one, leave on the stack.
LEMMA StackIs ==
  ASSUME NEW e \in Evaluations, NEW a \in WatchResults
  PROVE  /\ Pushed(e, a, Replace(e, 0, a))
         /\ Len(e.stack) = 2 => Joined(e, a, Replace(e, 2, a))
<1>1. Len(e.stack) \in Nat /\ Len(e.stack) - 0 = Len(e.stack)
  BY DEF Evaluations
<1>2. /\ Replace(e, 0, a) \in Evaluations
      /\ Replace(e, 0, a).outcome = e.outcome
      /\ Len(Replace(e, 0, a).stack) = Len(e.stack) - 0 + 1
      /\ \A i \in 1 .. Len(e.stack) - 0 : Replace(e, 0, a).stack[i] = e.stack[i]
      /\ Replace(e, 0, a).stack[Len(e.stack) - 0 + 1] = a
  <2>1. 0 \in Nat /\ 0 <= Len(e.stack)
    BY <1>1
  <2> QED  BY <2>1, ReplaceStack, Zenon
<1>3. ASSUME Len(e.stack) = 2
      PROVE  /\ Replace(e, 2, a) \in Evaluations /\ Replace(e, 2, a).outcome = e.outcome
             /\ Len(Replace(e, 2, a).stack) = 1 /\ Replace(e, 2, a).stack[1] = a
  <2>1. 2 \in Nat /\ 2 <= Len(e.stack)
    BY <1>3
  <2>2. /\ Replace(e, 2, a) \in Evaluations
        /\ Replace(e, 2, a).outcome = e.outcome
        /\ Len(Replace(e, 2, a).stack) = Len(e.stack) - 2 + 1
        /\ Replace(e, 2, a).stack[Len(e.stack) - 2 + 1] = a
    BY <2>1, ReplaceStack, Zenon
  <2>3. Len(e.stack) - 2 + 1 = 1
    BY <1>3
  <2> QED  BY <2>2, <2>3
<1>4. Len(e.stack) - 0 + 1 = Len(e.stack) + 1 /\ 1 .. Len(e.stack) - 0 = 1 .. Len(e.stack)
  BY <1>1
<1> QED  BY <1>2, <1>3, <1>4 DEF Pushed, Joined

\* An equation that comes to FAIL has TRUE on top of its stack at the end.
LEMMA FailIs ==
  ASSUME NEW e \in Evaluations, ActionResult(Equal(e)) = "FAIL"
  PROVE  Operand(e, 0) = "TRUE"
<1>1. Equal(e).outcome = "TRUE"
  BY DEF ActionResult
<1>2. Equal(e).outcome \in {"illegal", Operand(e, 0)}
  BY DEF Equal, Illegal
<1> QED  BY <1>1, <1>2

\* The equation of an actionpoint over one watchpoint.
LEMMA OneWatchpoint ==
  ASSUME NEW w \in WPs, NEW v \in [WPs -> WatchResults],
         EvaluateRPN(<<w, "EQUAL">>, v) = "FAIL"
  PROVE  v[w] = "TRUE"
<1> DEFINE eqn == <<w, "EQUAL">>
           e == EvalRun(eqn, v)
<1>1. eqn \in Seq(Tokens) /\ Len(eqn) = 2 /\ eqn[1] = w /\ eqn[2] = "EQUAL"
  BY DEF Tokens, Operators
<1>2. Evaluates(eqn, v, e, 2) /\ EvalLoop(eqn, v) = e[2]
  <2> HIDE DEF eqn
  <2> QED  BY <1>1, LoopsAre
<1>3. ActionResult(e[2]) = "FAIL"
  BY <1>2 DEF EvaluateRPN
<1> HIDE DEF eqn, e
<1>4. e[0] = EvalStart /\ e[1] = EvalToken(e[0], w, v) /\ e[2] = EvalToken(e[1], "EQUAL", v)
  BY <1>1, <1>2 DEF Evaluates, EvalAt
<1>5. EvalStart \in Evaluations /\ EvalStart.outcome = "running" /\ Len(EvalStart.stack) = 0
  BY DEF EvalStart, Evaluations
<1>6. e[1] = Replace(EvalStart, 0, v[w])
  BY <1>4, <1>5, TokenIs
<1>7. /\ e[1] \in Evaluations /\ e[1].outcome = "running"
      /\ Len(e[1].stack) = 1 /\ e[1].stack[1] = v[w]
  <2>1. v[w] \in WatchResults
    OBVIOUS
  <2>2. Pushed(EvalStart, v[w], e[1])
    BY <1>5, <1>6, <2>1, StackIs
  <2> QED  BY <1>5, <2>2 DEF Pushed
<1>8. e[2] = Equal(e[1])
  BY <1>4, <1>7, TokenIs
<1>9. Operand(e[1], 0) = "TRUE"
  BY <1>3, <1>7, <1>8, FailIs
<1> QED  BY <1>7, <1>9 DEF Operand

\* The equation of an actionpoint over two watchpoints.
LEMMA TwoWatchpoints ==
  ASSUME NEW w \in WPs, NEW x \in WPs, NEW v \in [WPs -> WatchResults],
         EvaluateRPN(<<w, x, "AND", "EQUAL">>, v) = "FAIL"
  PROVE  v[w] = "TRUE" /\ v[x] = "TRUE"
<1> DEFINE eqn == <<w, x, "AND", "EQUAL">>
           e == EvalRun(eqn, v)
           c == Combine("AND", v[w], v[x])
<1>1. /\ eqn \in Seq(Tokens) /\ Len(eqn) = 4
      /\ eqn[1] = w /\ eqn[2] = x /\ eqn[3] = "AND" /\ eqn[4] = "EQUAL"
  BY DEF Tokens, Operators, Binary
<1>2. Evaluates(eqn, v, e, 4) /\ EvalLoop(eqn, v) = e[4]
  <2> HIDE DEF eqn
  <2> QED  BY <1>1, LoopsAre
<1>3. ActionResult(e[4]) = "FAIL"
  BY <1>2 DEF EvaluateRPN
<1> HIDE DEF eqn, e
<1>4. /\ e[0] = EvalStart /\ e[1] = EvalToken(e[0], w, v) /\ e[2] = EvalToken(e[1], x, v)
      /\ e[3] = EvalToken(e[2], "AND", v) /\ e[4] = EvalToken(e[3], "EQUAL", v)
  BY <1>1, <1>2 DEF Evaluates, EvalAt
<1>5. v[w] \in WatchResults /\ v[x] \in WatchResults
  OBVIOUS
<1>6. EvalStart \in Evaluations /\ EvalStart.outcome = "running" /\ Len(EvalStart.stack) = 0
  BY DEF EvalStart, Evaluations
<1>7. /\ e[1] \in Evaluations /\ e[1].outcome = "running"
      /\ Len(e[1].stack) = 1 /\ e[1].stack[1] = v[w]
  <2>1. e[1] = Replace(EvalStart, 0, v[w])
    BY <1>4, <1>6, TokenIs
  <2>2. Pushed(EvalStart, v[w], e[1])
    BY <1>5, <1>6, <2>1, StackIs
  <2> QED  BY <1>6, <2>2 DEF Pushed
<1>8. /\ e[2] \in Evaluations /\ e[2].outcome = "running"
      /\ Len(e[2].stack) = 2 /\ e[2].stack[1] = v[w] /\ e[2].stack[2] = v[x]
  <2>1. e[2] = Replace(e[1], 0, v[x])
    BY <1>4, <1>7, TokenIs
  <2>2. Pushed(e[1], v[x], e[2])
    BY <1>5, <1>7, <2>1, StackIs
  <2> QED  BY <1>7, <2>2 DEF Pushed
<1>9. c \in WatchResults /\ (c = "TRUE" => v[w] = "TRUE" /\ v[x] = "TRUE")
  BY <1>5 DEF Combine, WatchResults, Truth
<1> HIDE DEF c
<1>10. /\ e[3] \in Evaluations /\ e[3].outcome = "running"
       /\ Len(e[3].stack) = 1 /\ e[3].stack[1] = c
  <2>1. e[3] = Replace(e[2], 2, Combine("AND", Operand(e[2], 1), Operand(e[2], 0)))
    BY <1>4, <1>8, TokenIs
  <2>2. Operand(e[2], 1) = v[w] /\ Operand(e[2], 0) = v[x]
    BY <1>8 DEF Operand
  <2>3. e[3] = Replace(e[2], 2, c)
    BY <2>1, <2>2 DEF c
  <2>4. Joined(e[2], c, e[3])
    BY <1>8, <1>9, <2>3, StackIs
  <2> QED  BY <1>8, <2>4 DEF Joined
<1>11. e[4] = Equal(e[3])
  BY <1>4, <1>10, TokenIs
<1>12. Operand(e[3], 0) = "TRUE"
  BY <1>3, <1>10, <1>11, FailIs
<1> QED  BY <1>9, <1>10, <1>12 DEF Operand

----------------------------------------------------------------------------
(* The invariant.  Watchpoints 25 and 26 see what MGR saves in the same     *)
(* step, and LC sees nothing until RTS 1 has activated it.  So RTS 36 runs  *)
(* only after SCIENCE has been saved; it can return to science once, if a  *)
(* REBOOT_PREP came in between, and then never again.                      *)

Sequencing(s) ==
  /\ s \in [Rtss -> [next : Nat, wait : Int]]
  /\ \A r \in Rtss : s[r].next <= Len(Rts(r))
Types == Sequencing(seq) /\ wrt \in [WPs -> WatchResults] /\ resets \in 0 .. 2

Blind == lcState = "DISABLED" => \A w \in WPs : wrt[w] = "STALE"
SeenIsSaved ==
  /\ wrt["WP25"] = "TRUE" => saved = "SCIENCE_REBOOT"
  /\ wrt["WP26"] = "TRUE" => saved = "SCIENCE"
LastReturn ==
  resets >= 1 /\ (wrt["WP26"] = "TRUE" \/ Executing(36)) =>
    mode # "SCIENCE_REBOOT" /\ saved # "SCIENCE_REBOOT"
Ended ==
  resets = 2 =>
    /\ mode \notin {"SCIENCE", "SCIENCE_REBOOT"} /\ saved # "SCIENCE_REBOOT"
    /\ wrt["WP26"] # "TRUE" /\ ~Executing(25) /\ ~Executing(36)

ResetInv == Types /\ Blind /\ SeenIsSaved /\ LastReturn /\ Ended

\* SC executes the lowest of the sequences that have a command due.
LEMMA LowestIs ==
  ASSUME Due # {}
  PROVE  Lowest(Due) \in Due
<1>1. Due \in SUBSET Nat
  BY DEF Due, Rtss
<1>2. \E r \in Due : \A q \in Due : r <= q
  BY <1>1, LeastNat
<1> QED  BY <1>2 DEF Lowest

\* A sequence advances to the next command or ends, the others stay.
LEMMA AdvancedIs ==
  ASSUME Types, NEW r \in Rtss, Executing(r)
  PROVE  /\ Sequencing(Advanced(r))
         /\ \A q \in Rtss : Advanced(r)[q].next # 0 => Executing(q)
<1>1. /\ seq \in [Rtss -> [next : Nat, wait : Int]] /\ seq[r].next # 0
      /\ \A q \in Rtss : seq[q].next <= Len(Rts(q))
      /\ \A q \in Rtss : Len(Rts(q)) \in Nat \ {0}
  BY RtsIs DEF Types, Sequencing, Executing
<1>2. CASE seq[r].next = Len(Rts(r))
  <2>1. Advanced(r) = [seq EXCEPT ![r] = Idle]
    BY <1>2 DEF Advanced
  <2> QED  BY <1>1, <2>1 DEF Sequencing, Idle, Executing
<1>3. CASE seq[r].next # Len(Rts(r))
  <2> DEFINE n == seq[r].next + 1
             e == [next |-> n, wait |-> Rts(r)[n].delay]
  <2>1. n \in 1 .. Len(Rts(r))
    BY <1>1, <1>3
  <2>2. Rts(r)[n].delay \in Nat
    <3> HIDE DEF n
    <3> QED  BY <2>1, CommandIs
  <2>3. Advanced(r) = [seq EXCEPT ![r] = e]
    BY <1>3 DEF Advanced
  <2>4. e \in [next : Nat, wait : Int] /\ e.next <= Len(Rts(r))
    BY <2>1, <2>2
  <2> HIDE DEF e
  <2> QED  BY <1>1, <2>3, <2>4 DEF Sequencing, Executing
<1> QED  BY <1>2, <1>3

\* A request starts a sequence or leaves all as they are.
LEMMA StartIs ==
  ASSUME NEW s, Sequencing(s), NEW r \in Rtss
  PROVE  Sequencing(Start(r, s)) /\ \A q \in Rtss \ {r} : Start(r, s)[q] = s[q]
<1>1. Len(Rts(r)) \in Nat \ {0}
  BY RtsIs
<1>2. Rts(r)[1].delay \in Nat
  BY <1>1, CommandIs
<1> QED  BY <1>1, <1>2 DEF Start, Sequencing

\* After a start of the flight software.
LEMMA BootIs ==
  ASSUME Boot, resets' \in 0 .. 2, resets' = 2 => saved # "SCIENCE_REBOOT"
  PROVE  ResetInv'
<1>1. /\ saved' = saved /\ mode' = BootMode(saved) /\ lcState' = "DISABLED"
      /\ wrt' = [w \in WPs |-> "STALE"]
      /\ seq' = [r \in Rtss |-> IF r = 1 THEN [next |-> 1, wait |-> 3] ELSE Idle]
  BY DEF Boot, Booted
<1>2. Sequencing(seq')
  <2>1. \A r \in Rtss : Len(Rts(r)) \in Nat \ {0}
    BY RtsIs
  <2> QED  BY <1>1, <2>1 DEF Sequencing, Idle
<1>3. wrt' \in [WPs -> WatchResults] /\ \A w \in WPs : wrt'[w] = "STALE"
  BY <1>1 DEF WatchResults
<1>4. wrt'["WP25"] = "STALE" /\ wrt'["WP26"] = "STALE"
  BY <1>3, ScienceAssumption
<1>5. ~Executing(25)' /\ ~Executing(36)'
  BY <1>1 DEF Executing, Idle, Rtss
<1>6. resets' = 2 => mode' = "SAFE_REBOOT"
  BY <1>1 DEF BootMode
<1> QED  BY <1>1, <1>2, <1>3, <1>4, <1>5, <1>6
         DEF ResetInv, Types, Blind, SeenIsSaved, LastReturn, Ended

\* At the first start nothing has been seen or restarted.
LEMMA ResetInit == Init => ResetInv
<1> SUFFICES ASSUME Init PROVE ResetInv
  OBVIOUS
<1>1. /\ lcState = "DISABLED" /\ resets = 0
      /\ wrt = [w \in WPs |-> "STALE"]
      /\ seq = [r \in Rtss |-> IF r = 1 THEN [next |-> 1, wait |-> 3] ELSE Idle]
  BY DEF Init, Booted
<1>2. Sequencing(seq)
  <2>1. \A r \in Rtss : Len(Rts(r)) \in Nat \ {0}
    BY RtsIs
  <2> QED  BY <1>1, <2>1 DEF Sequencing, Idle
<1>3. wrt \in [WPs -> WatchResults] /\ \A w \in WPs : wrt[w] = "STALE"
  BY <1>1 DEF WatchResults
<1>4. wrt["WP25"] = "STALE" /\ wrt["WP26"] = "STALE"
  BY <1>3, ScienceAssumption
<1> QED  BY <1>1, <1>2, <1>3, <1>4 DEF ResetInv, Types, Blind, SeenIsSaved, LastReturn, Ended

\* What reports change: watchpoints 25 and 26 only those of MGR.
LEMMA ReportsAre ==
  ASSUME Types, NEW S, NEW bad
  PROVE  /\ Reports(S, bad) \in [WPs -> WatchResults]
         /\ lcState = "DISABLED" => Reports(S, bad) = wrt
         /\ Reports(S, bad)["WP25"] = IF lcState # "DISABLED" /\ "MGR" \in S
                                      THEN Bit(mode = "SCIENCE_REBOOT") ELSE wrt["WP25"]
         /\ Reports(S, bad)["WP26"] = IF lcState # "DISABLED" /\ "MGR" \in S
                                      THEN Bit(mode = "SCIENCE") ELSE wrt["WP26"]
<1>1. wrt \in [WPs -> WatchResults]
  BY DEF Types
<1>2. \A w \in WPs : Reading(w, bad) \in WatchResults
  BY DEF Reading, Bit, WatchResults, Truth
<1>3. "WP25" \in WPs /\ "WP26" \in WPs
  BY ScienceAssumption
<1>4. SourceOf("WP25") = "MGR" /\ SourceOf("WP26") = "MGR"
  BY DEF SourceOf
<1>5. /\ Reading("WP25", bad) = Bit(mode = "SCIENCE_REBOOT")
      /\ Reading("WP26", bad) = Bit(mode = "SCIENCE")
  BY DEF Reading, Bit
<1> QED  BY <1>1, <1>2, <1>3, <1>4, <1>5 DEF Reports

\* MGR saves what it reports, so what LC comes to see is saved.
LEMMA TelemetryReset == ResetInv /\ Telemetry => ResetInv'
<1> SUFFICES ASSUME ResetInv, Telemetry PROVE ResetInv'
  OBVIOUS
<1> DEFINE S == {"GPS"} \cup (IF tick % 5 = 0 THEN {"EPS"} ELSE {})
                        \cup (IF tick = 0 THEN {"MGR"} ELSE {})
           seen == lcState # "DISABLED" /\ tick = 0
<1>1. /\ wrt' = Reports(S, sample.bad) /\ seq' = Closer
      /\ saved' = IF tick = 0 THEN mode ELSE saved
      /\ mode' = mode /\ lcState' = lcState /\ resets' = resets
  BY DEF Telemetry
<1>2. "MGR" \in S <=> tick = 0
  OBVIOUS
<1>3. Types
  BY DEF ResetInv
<1>4. /\ wrt' \in [WPs -> WatchResults]
      /\ lcState = "DISABLED" => wrt' = wrt
      /\ wrt'["WP25"] = IF seen THEN Bit(mode = "SCIENCE_REBOOT") ELSE wrt["WP25"]
      /\ wrt'["WP26"] = IF seen THEN Bit(mode = "SCIENCE") ELSE wrt["WP26"]
  <2> HIDE DEF S
  <2> QED  BY <1>1, <1>2, <1>3, ReportsAre
<1>5. Sequencing(seq') /\ \A r \in Rtss : Executing(r)' <=> Executing(r)
  BY <1>1, <1>3 DEF Closer, Executing, Types, Sequencing
<1>6. Executing(25)' = Executing(25) /\ Executing(36)' = Executing(36)
  BY <1>5 DEF Rtss, Executing
<1>7. wrt["WP25"] \in WatchResults /\ wrt["WP26"] \in WatchResults
  BY <1>3, ScienceAssumption DEF Types
<1>8. lcState = "DISABLED" => wrt["WP25"] # "TRUE" /\ wrt["WP26"] # "TRUE"
  BY ScienceAssumption DEF ResetInv, Blind
<1> HIDE DEF S
<1>9. Types' /\ Blind'
  BY <1>1, <1>3, <1>4, <1>5 DEF Types, Blind, ResetInv
<1>10. SeenIsSaved'
  BY <1>1, <1>4, <1>8 DEF SeenIsSaved, ResetInv, Bit
<1>11. LastReturn'
  BY <1>1, <1>4, <1>6 DEF LastReturn, ResetInv, Bit
<1>12. Ended'
  BY <1>1, <1>4, <1>6 DEF Ended, ResetInv, Bit
<1> QED  BY <1>9, <1>10, <1>11, <1>12 DEF ResetInv

\* The telemetry of the instrument does not touch watchpoints 25 and 26.
LEMMA InstrumentReset == ResetInv /\ InstrumentTelemetry => ResetInv'
<1> SUFFICES ASSUME ResetInv, InstrumentTelemetry PROVE ResetInv'
  OBVIOUS
<1>1. PICK bad : wrt' = Reports(IF tick % 5 = 0 THEN {"SAMPLE"} ELSE {}, bad)
  BY DEF InstrumentTelemetry
<1>2. /\ mode' = mode /\ saved' = saved /\ lcState' = lcState /\ seq' = seq
      /\ resets' = resets
  BY DEF InstrumentTelemetry
<1>3. Types
  BY DEF ResetInv
<1>4. /\ wrt' \in [WPs -> WatchResults] /\ (lcState = "DISABLED" => wrt' = wrt)
      /\ wrt'["WP25"] = wrt["WP25"] /\ wrt'["WP26"] = wrt["WP26"]
  <2> DEFINE S == IF tick % 5 = 0 THEN {"SAMPLE"} ELSE {}
  <2>1. "MGR" \notin S /\ wrt' = Reports(S, bad)
    BY <1>1
  <2> HIDE DEF S
  <2> QED  BY <1>3, <2>1, ReportsAre
<1> QED  BY <1>2, <1>3, <1>4
         DEF ResetInv, Types, Blind, SeenIsSaved, LastReturn, Ended, Executing

\* A command of a sequence sets the mode to SCIENCE at most, and not after the
\* second restart: RTS 25 does not execute then.
LEMMA SendReset ==
  ASSUME ResetInv, NEW r \in Rtss, Send(r)
  PROVE  ResetInv'
<1> DEFINE c == Rts(r)[seq[r].next]
<1>1. /\ seq' = IF c.op = "start" THEN Start(c.of, Advanced(r)) ELSE Advanced(r)
      /\ mode' = IF c.op = "mode" THEN c.to ELSE mode
      /\ lcState' = IF c.op = "lc" THEN c.to ELSE lcState
      /\ saved' = saved /\ wrt' = wrt /\ resets' = resets
  BY DEF Send
<1>2. Executing(r)
  BY LowestIs DEF Send, Due
<1>3. Types
  BY DEF ResetInv
<1>4. seq[r].next \in 1 .. Len(Rts(r))
  <2>1. Len(Rts(r)) \in Nat
    BY RtsIs
  <2> QED  BY <1>2, <1>3, <2>1 DEF Types, Sequencing, Executing
<1>5. /\ c.op = "mode" => r = 25 /\ c.to = "SCIENCE"
      /\ c.op = "lc" => c.to = "ACTIVE"
      /\ c.op = "start" => c.of = 3
  BY <1>4, CommandIs
<1> HIDE DEF c
<1>6. Sequencing(Advanced(r)) /\ \A q \in Rtss : Advanced(r)[q].next # 0 => Executing(q)
  BY <1>2, <1>3, AdvancedIs
<1>7. Sequencing(seq') /\ \A q \in Rtss \ {3} : seq'[q].next # 0 => Executing(q)
  <2>1. CASE c.op = "start"
    <3>1. seq' = Start(3, Advanced(r)) /\ 3 \in Rtss
      BY <1>1, <1>5, <2>1 DEF Rtss
    <3> QED  BY <1>6, <3>1, StartIs
  <2>2. CASE c.op # "start"
    BY <1>1, <1>6, <2>2
  <2> QED  BY <2>1, <2>2
<1>8. (Executing(25)' => Executing(25)) /\ (Executing(36)' => Executing(36))
  BY <1>7 DEF Rtss, Executing
<1>9. Types' /\ Blind'
  BY <1>1, <1>3, <1>5, <1>7 DEF Types, Blind, ResetInv
<1>10. SeenIsSaved' /\ LastReturn'
  BY <1>1, <1>5, <1>8 DEF SeenIsSaved, LastReturn, ResetInv
<1>11. Ended'
  BY <1>1, <1>2, <1>5, <1>8 DEF Ended, ResetInv
<1> QED  BY <1>9, <1>10, <1>11 DEF ResetInv

\* RTS 36 restarts the software after at most one restart before, and after one
\* only when the saved mode does not bring science back.
LEMMA RestartReset == ResetInv /\ RestartBySequence => ResetInv'
<1> SUFFICES ASSUME ResetInv, RestartBySequence PROVE ResetInv'
  OBVIOUS
<1>1. Boot /\ resets' = IF resets < 3 THEN resets + 1 ELSE resets
  BY DEF RestartBySequence
<1>2. Executing(36)
  BY LowestIs DEF RestartBySequence, Due
<1>3. resets \in 0 .. 1
  BY <1>2 DEF ResetInv, Types, Ended
<1>4. resets' \in 0 .. 2 /\ (resets' = 2 => resets = 1)
  BY <1>1, <1>3
<1>5. resets = 1 => saved # "SCIENCE_REBOOT"
  BY <1>2, <1>3 DEF ResetInv, LastReturn
<1> QED  BY <1>1, <1>4, <1>5, BootIs

\* RTS 25 and RTS 36 begin only when LC sees their modes, which are then saved.
LEMMA SampleReset == ResetInv /\ SampleAPs => ResetInv'
<1> SUFFICES ASSUME ResetInv, SampleAPs PROVE ResetInv'
  OBVIOUS
<1>1. /\ mode' = mode /\ saved' = saved /\ lcState' = lcState /\ wrt' = wrt
      /\ resets' = resets
      /\ ap' = [a \in APs |-> IF Fires(a) THEN "PASSIVE" ELSE ap[a]]
      /\ seq' = [r \in Rtss |-> IF r \in APs /\ ap'[r] # ap[r] THEN Start(r, seq)[r] ELSE seq[r]]
  BY DEF SampleAPs
<1>2. Types
  BY DEF ResetInv
<1>3. Sequencing(seq')
  <2>1. ASSUME NEW r \in Rtss
        PROVE  seq'[r] \in [next : Nat, wait : Int] /\ seq'[r].next <= Len(Rts(r))
    <3>1. Sequencing(Start(r, seq)) /\ Sequencing(seq)
      BY <1>2, StartIs DEF Types
    <3> QED  BY <1>1, <3>1 DEF Sequencing
  <2>2. seq' = [r \in Rtss |-> seq'[r]]
    BY <1>1
  <2> QED  BY <2>1, <2>2 DEF Sequencing
\* A sequence that begins was asked for by its actionpoint.
<1>4. /\ Executing(25)' => Executing(25) \/ wrt["WP25"] = "TRUE"
      /\ Executing(36)' => Executing(36) \/ wrt["WP26"] = "TRUE"
  <2>1. ASSUME NEW r \in {25, 36}, Executing(r)', ~Executing(r) PROVE EvaluateRPN(Equation(r), wrt) = "FAIL"
    <3>1. r \in Rtss /\ r \in APs
      BY DEF Rtss, APs
    <3>2. ap'[r] # ap[r]
      BY <1>1, <2>1, <3>1 DEF Executing
    <3>3. Fires(r)
      BY <1>1, <3>1, <3>2
    <3> QED  BY <3>3 DEF Fires, Fails
  <2>2. wrt \in [WPs -> WatchResults] /\ {"WP24", "WP25", "WP26"} \subseteq WPs
    BY <1>2, ScienceAssumption DEF Types
  <2>3. Equation(25) = <<"WP25", "EQUAL">> /\ Equation(36) = <<"WP26", "WP24", "AND", "EQUAL">>
    BY DEF Equation
  <2>4. EvaluateRPN(Equation(25), wrt) = "FAIL" => wrt["WP25"] = "TRUE"
    BY <2>2, <2>3, OneWatchpoint
  <2>5. EvaluateRPN(Equation(36), wrt) = "FAIL" => wrt["WP26"] = "TRUE"
    BY <2>2, <2>3, TwoWatchpoints
  <2> QED  BY <2>1, <2>4, <2>5
<1>5. Types' /\ Blind' /\ SeenIsSaved'
  BY <1>1, <1>2, <1>3 DEF Types, Blind, SeenIsSaved, ResetInv
<1>6. LastReturn'
  BY <1>1, <1>4 DEF LastReturn, ResetInv
<1>7. Ended'
  BY <1>1, <1>4 DEF Ended, SeenIsSaved, ResetInv
<1> QED  BY <1>5, <1>6, <1>7 DEF ResetInv

\* Whatever mode the ground sets, the count begins again.
LEMMA GroundReset ==
  ASSUME ResetInv, NEW m, Ground(m)
  PROVE  ResetInv'
BY DEF Ground, ResetInv, Types, Blind, SeenIsSaved, LastReturn, Ended

\* Every step of the mission keeps the invariant.
LEMMA ResetStep == ResetInv /\ [Next]_vars => ResetInv'
<1> SUFFICES ASSUME ResetInv, [Next]_vars PROVE ResetInv'
  OBVIOUS
<1>1. CASE Second
  BY <1>1, TelemetryReset, InstrumentReset, SendReset, RestartReset, SampleReset DEF Second
<1>2. CASE Environment
  BY <1>2 DEF Environment, fswVars, ResetInv, Types, Blind, SeenIsSaved, LastReturn, Ended, Executing
<1>3. CASE SetMode \/ RebootPrep
  BY <1>3, GroundReset DEF SetMode, RebootPrep
<1>4. CASE Restart
  BY <1>4, BootIs DEF Restart, ResetInv, Types, Ended
<1>5. CASE UNCHANGED vars
  BY <1>5 DEF vars, ResetInv, Types, Blind, SeenIsSaved, LastReturn, Ended, Executing
<1> QED  BY <1>1, <1>2, <1>3, <1>4, <1>5 DEF Next

\* A device that stays broken restarts the flight software at most twice after
\* the ground has set a mode, however the world and the ground interrupt the
\* sequences and whether or not it also restarts by itself.
THEOREM ScienceNoResetLoop == Spec => []NoResetLoop
<1>1. ResetInv => NoResetLoop
  BY DEF ResetInv, Types, NoResetLoop
<1> QED  BY <1>1, ResetInit, ResetStep, PTL DEF Spec
=============================================================================
