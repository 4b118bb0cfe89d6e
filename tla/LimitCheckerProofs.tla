------------------------- MODULE LimitCheckerProofs -------------------------
(***************************************************************************)
(* Proofs about the limit checker: type correctness, the freshness of the  *)
(* watchpoint results, one request for each activation, as many failures   *)
(* before it as the table says, and what a request or an error of an       *)
(* actionpoint rests on.  In all but the last part what an equation        *)
(* evaluates to is left open; it is one of the four results.               *)
(***************************************************************************)
EXTENDS LimitChecker, RpnProofs

\* The end of LC_EvaluateRPN yields one of the four action results.
LEMMA ActionResultType ==
  ASSUME NEW e
  PROVE  ActionResult(e) \in ActionResults
BY DEF ActionResult, ActionResults

\* So does the evaluation of an actionpoint.
LEMMA EvaluateType == \A a \in APs : Evaluate(a) \in ActionResults
BY ActionResultType DEF Evaluate, EvaluateRPN

\* The failure count stays within its cap.
LEMMA FailsAfterType ==
  ASSUME TypeOK, NEW a \in APs
  PROVE  FailsAfter(a) \in 0 .. FailCap
<1>1. art[a].fails \in 0 .. FailCap
  BY DEF TypeOK
<1> QED  BY <1>1, LcAssumption DEF FailsAfter

\* LC_SampleSingleAP leaves an entry of the ART.
LEMMA SampleType ==
  ASSUME TypeOK, NEW a \in APs
  PROVE  SampleSingleAP(a) \in [state : APStates, result : ActionResults, fails : 0 .. FailCap]
<1>1. art[a] \in [state : APStates, result : ActionResults, fails : 0 .. FailCap]
  BY DEF TypeOK
<1>2. Evaluate(a) \in ActionResults /\ FailsAfter(a) \in 0 .. FailCap
  BY EvaluateType, FailsAfterType
<1> QED  BY <1>1, <1>2 DEF SampleSingleAP, APStates, Settable

\* Ageing leaves an entry of the WRT.
LEMMA AgedType ==
  ASSUME TypeOK, NEW w \in WPs
  PROVE  Aged(w) \in [result : WatchResults, countdown : 0 .. AgeCap]
<1>1. wrt[w] \in [result : WatchResults, countdown : 0 .. AgeCap]
  BY DEF TypeOK
<1> QED  BY <1>1, LcAssumption DEF Aged, WatchResults

\* Types of the tables in force, for the actions that replace them.
LEMMA ResetTypes ==
  ASSUME NEW t \in AdtTables
  PROVE  /\ ResetWRT \in [WPs -> [result : WatchResults, countdown : 0 .. AgeCap]]
         /\ ResetART(t) \in [APs -> [state : APStates, result : ActionResults,
                                     fails : 0 .. FailCap]]
<1>1. \A a \in APs : t[a].state \in APStates
  BY DEF AdtTables, AdtEntries
<1> QED  BY <1>1, LcAssumption DEF ResetWRT, ResetART, WatchResults, ActionResults

----------------------------------------------------------------------------
\* The start of LC has the right type.
LEMMA InitType == Init => TypeOK
<1> SUFFICES ASSUME Init PROVE TypeOK
  OBVIOUS
<1>1. DefaultWdt \in WdtTables /\ DefaultAdt \in AdtTables
  BY TableAssumption
<1>2. /\ wrt \in [WPs -> [result : WatchResults, countdown : 0 .. AgeCap]]
      /\ art \in [APs -> [state : APStates, result : ActionResults,
                          fails : 0 .. FailCap]]
  BY <1>1, ResetTypes DEF Init
<1>3. measured \in [WPs -> Truth \cup {"ERROR", "none"}] /\ age \in [WPs -> 0 .. AgeCap]
  BY LcAssumption DEF Init, AllWPs
<1>4. streak \in [APs -> 0 .. FailCap] /\ fired \in [APs -> 0 .. 2]
  BY LcAssumption DEF Init, AllAPs
<1>5. lcState \in LCStates /\ requests \subseteq APs
  BY LcAssumption DEF Init
<1>6. pending \in [wdt : WdtTables \cup {NoTable}, adt : AdtTables \cup {NoTable}]
  BY DEF Init
<1> QED  BY <1>1, <1>2, <1>3, <1>4, <1>5, <1>6 DEF Init, TypeOK

\* Every command, load and wakeup keeps the types.
LEMMA NextType == TypeOK /\ [Next]_vars => TypeOK'
<1> SUFFICES ASSUME TypeOK, [Next]_vars PROVE TypeOK'
  OBVIOUS
<1>1. CASE UNCHANGED vars
  BY <1>1 DEF TypeOK, vars
<1>2. CASE Restart
  <2>1. DefaultWdt \in WdtTables /\ DefaultAdt \in AdtTables
    BY TableAssumption
  <2>2. (/\ wrt \in [WPs -> [result : WatchResults, countdown : 0 .. AgeCap]]
         /\ art \in [APs -> [state : APStates, result : ActionResults,
                             fails : 0 .. FailCap]])'
    BY <1>2, <2>1, ResetTypes DEF Restart
  <2>3. (measured \in [WPs -> Truth \cup {"ERROR", "none"}] /\ age \in [WPs -> 0 .. AgeCap])'
    BY <1>2, LcAssumption DEF Restart, AllWPs
  <2>4. (streak \in [APs -> 0 .. FailCap] /\ fired \in [APs -> 0 .. 2])'
    BY <1>2, LcAssumption DEF Restart, AllAPs
  <2>5. (/\ lcState \in LCStates /\ requests \subseteq APs
         /\ pending \in [wdt : WdtTables \cup {NoTable}, adt : AdtTables \cup {NoTable}])'
    BY <1>2, LcAssumption DEF Restart
  <2> QED  BY <1>2, <2>1, <2>2, <2>3, <2>4, <2>5 DEF Restart, TypeOK
<1>3. ASSUME NEW m \in Messages, NEW result \in [OnMsg(m) -> Outcomes],
             CheckMsgForWPs(m, result)
      PROVE  TypeOK'
  <2>1. \A w \in OnMsg(m) : result[w] \in Truth \cup {"ERROR"}
    BY LcAssumption DEF Truth
  <2>2. \A w \in WPs : wdt[w].age \in 0 .. AgeCap /\ wrt[w] \in
          [result : WatchResults, countdown : 0 .. AgeCap]
    BY DEF TypeOK, WdtTables
  <2>3. \A w \in OnMsg(m) : Watched(w, result[w]) \in
          [result : WatchResults, countdown : 0 .. AgeCap]
    BY <2>1, <2>2, LcAssumption DEF Watched, OnMsg, WatchResults
  <2>4. wrt' \in [WPs -> [result : WatchResults, countdown : 0 .. AgeCap]]
    BY <1>3, <2>2, <2>3 DEF CheckMsgForWPs
  <2>5. measured' \in [WPs -> Truth \cup {"ERROR", "none"}]
    BY <1>3, <2>1 DEF CheckMsgForWPs, TypeOK
  <2>6. age' \in [WPs -> 0 .. AgeCap]
    BY <1>3, LcAssumption DEF CheckMsgForWPs, TypeOK
  <2> QED  BY <1>3, <2>4, <2>5, <2>6 DEF CheckMsgForWPs, TypeOK
<1>4. ASSUME NEW first \in APs, NEW last \in APs, NEW updateAge \in BOOLEAN,
             SampleAPReq(first, last, updateAge)
      PROVE  TypeOK'
  <2>1. art' \in [APs -> [state : APStates, result : ActionResults, fails : 0 .. FailCap]]
    BY <1>4, SampleType DEF SampleAPReq, TypeOK
  <2>2. wrt' \in [WPs -> [result : WatchResults, countdown : 0 .. AgeCap]]
    BY <1>4, AgedType DEF SampleAPReq, TypeOK
  <2>3. requests' \subseteq APs
    BY <1>4, LcAssumption DEF SampleAPReq, APs
  <2>4. age' \in [WPs -> 0 .. AgeCap]
    BY <1>4, LcAssumption DEF SampleAPReq, TypeOK
  <2>5. streak' \in [APs -> 0 .. FailCap]
    <3> DEFINE S == {a \in first .. last : Sampled(a)}
               New(a) == CASE a \in S /\ Evaluate(a) \in {"PASS", "STALE"} -> 0
                           [] a \in S /\ Evaluate(a) = "FAIL" /\ streak[a] < FailCap -> streak[a] + 1
                           [] OTHER -> streak[a]
    <3>1. streak' = [a \in APs |-> New(a)]
      BY <1>4 DEF SampleAPReq
    <3>2. ASSUME NEW a \in APs PROVE New(a) \in 0 .. FailCap
      <4>1. streak[a] \in 0 .. FailCap
        BY DEF TypeOK
      <4>2. 0 \in 0 .. FailCap /\ (streak[a] < FailCap => streak[a] + 1 \in 0 .. FailCap)
        BY <4>1, LcAssumption
      <4> QED  BY <4>1, <4>2, Zenon DEF New
    <3> QED  BY <3>1, <3>2
  <2>6. fired' \in [APs -> 0 .. 2]
    BY <1>4 DEF SampleAPReq, TypeOK
  <2> QED  BY <1>4, <2>1, <2>2, <2>3, <2>4, <2>5, <2>6 DEF SampleAPReq, TypeOK
<1>5. ASSUME NEW s \in LCStates, SetLCState(s) PROVE TypeOK'
  BY <1>5 DEF SetLCState, TypeOK, histVars
<1>6. ASSUME NEW A \in Chosen, NEW s \in Settable, SetAPState(A, s) PROVE TypeOK'
  <2>1. art' \in [APs -> [state : APStates, result : ActionResults, fails : 0 .. FailCap]]
    BY <1>6 DEF SetAPState, TypeOK, APStates
  <2>2. fired' \in [APs -> 0 .. 2]
    BY <1>6 DEF SetAPState, TypeOK
  <2> QED  BY <1>6, <2>1, <2>2 DEF SetAPState, TypeOK
<1>7. ASSUME NEW a \in APs, SetAPPermOff(a) PROVE TypeOK'
  <2>1. art' \in [APs -> [state : APStates, result : ActionResults, fails : 0 .. FailCap]]
    BY <1>7 DEF SetAPPermOff, TypeOK, APStates
  <2> QED  BY <1>7, <2>1 DEF SetAPPermOff, TypeOK, histVars
<1>8. ASSUME NEW A \in Chosen, ResetAPStats(A) PROVE TypeOK'
  <2>1. art' \in [APs -> [state : APStates, result : ActionResults, fails : 0 .. FailCap]]
    BY <1>8, LcAssumption DEF ResetAPStats, TypeOK
  <2>2. streak' \in [APs -> 0 .. FailCap]
    BY <1>8, LcAssumption DEF ResetAPStats, TypeOK
  <2> QED  BY <1>8, <2>1, <2>2 DEF ResetAPStats, TypeOK
<1>9. ASSUME NEW t \in WdtLoads, LoadWDT(t) PROVE TypeOK'
  <2>1. t \in WdtTables
    BY TableAssumption
  <2> QED  BY <1>9, <2>1 DEF LoadWDT, TypeOK, histVars
<1>10. ASSUME NEW t \in AdtLoads, LoadADT(t) PROVE TypeOK'
  <2>1. t \in AdtTables
    BY TableAssumption
  <2> QED  BY <1>10, <2>1 DEF LoadADT, TypeOK, histVars
<1>11. CASE ManageTables
  <2>1. /\ pending.wdt # NoTable => pending.wdt \in WdtTables
        /\ pending.adt # NoTable => pending.adt \in AdtTables
    BY DEF TypeOK
  <2>2. wdt' \in WdtTables /\ adt' \in AdtTables
    BY <1>11, <2>1 DEF ManageTables, TypeOK
  <2>3. wrt' \in [WPs -> [result : WatchResults, countdown : 0 .. AgeCap]]
    BY <1>11, TableAssumption, ResetTypes DEF ManageTables, TypeOK
  <2>4. art' \in [APs -> [state : APStates, result : ActionResults, fails : 0 .. FailCap]]
    BY <1>11, <2>1, ResetTypes DEF ManageTables, TypeOK
  <2>5. measured' \in [WPs -> Truth \cup {"ERROR", "none"}] /\ age' \in [WPs -> 0 .. AgeCap]
    BY <1>11, LcAssumption DEF ManageTables, TypeOK, AllWPs
  <2>6. streak' \in [APs -> 0 .. FailCap] /\ fired' \in [APs -> 0 .. 2]
    BY <1>11, LcAssumption DEF ManageTables, TypeOK, AllAPs
  <2> QED  BY <1>11, <2>2, <2>3, <2>4, <2>5, <2>6 DEF ManageTables, TypeOK
<1> QED  BY <1>1, <1>2, <1>3, <1>4, <1>5, <1>6, <1>7, <1>8, <1>9, <1>10, <1>11
         DEF Next, Receive, Sample, Command, Load

\* Type correctness of the limit checker, for any tables and any number of
\* watchpoints and actionpoints.
THEOREM LcTypeCorrect == Spec => []TypeOK
<1>1. Init => TypeOK
  BY InitType
<1>2. TypeOK /\ [Next]_vars => TypeOK'
  BY NextType
<1> QED  BY <1>1, <1>2, PTL DEF Spec

----------------------------------------------------------------------------
(* Freshness.  The countdown of a result that ages and its age add up to    *)
(* the age at which it goes stale, so it reaches 0, and the result goes     *)
(* stale, at that age and not before or after.                              *)

Counted(w) ==
  wrt[w].result \in Truth =>
    /\ measured[w] = wrt[w].result
    /\ wdt[w].age > 0 => /\ wrt[w].countdown > 0
                         /\ age[w] + wrt[w].countdown = wdt[w].age
FreshInv == \A w \in WPs : Counted(w)

\* A countdown that adds up to the limit leaves a result younger than it.
LEMMA FreshInvImplies == TypeOK /\ FreshInv => Fresh
<1> SUFFICES ASSUME TypeOK, FreshInv, NEW w \in WPs, wrt[w].result \in Truth
             PROVE  /\ measured[w] = wrt[w].result
                    /\ wdt[w].age > 0 => age[w] < wdt[w].age
  BY DEF Fresh
<1>1. wdt[w].age \in 0 .. AgeCap /\ age[w] \in 0 .. AgeCap
      /\ wrt[w].countdown \in 0 .. AgeCap
  BY DEF TypeOK, WdtTables
<1> QED  BY <1>1, LcAssumption DEF FreshInv, Counted

\* Results that a table load resets are not counted as measured.
LEMMA ResetIsFresh == wrt' = ResetWRT => FreshInv'
BY DEF FreshInv, Counted, ResetWRT, Truth

\* Packets, ageing and table loads keep the countdowns and ages in step.
LEMMA FreshNext == TypeOK /\ FreshInv /\ [Next]_vars => FreshInv'
<1> SUFFICES ASSUME TypeOK, FreshInv, [Next]_vars PROVE FreshInv'
  OBVIOUS
<1> DEFINE Same == wdt' = wdt /\ wrt' = wrt /\ measured' = measured /\ age' = age
<1>0. Same => FreshInv'
  BY DEF FreshInv, Counted
<1>1. CASE UNCHANGED vars
  BY <1>0, <1>1 DEF vars
<1>2. CASE Restart
  BY <1>2, ResetIsFresh DEF Restart
<1>3. ASSUME NEW m \in Messages, NEW result \in [OnMsg(m) -> Outcomes],
             CheckMsgForWPs(m, result)
      PROVE  FreshInv'
  <2> SUFFICES ASSUME NEW w \in WPs PROVE Counted(w)'
    BY DEF FreshInv
  <2>1. wdt'[w] = wdt[w]
    BY <1>3 DEF CheckMsgForWPs
  <2>2. CASE w \in OnMsg(m)
    <3>1. wrt'[w] = Watched(w, result[w]) /\ measured'[w] = result[w] /\ age'[w] = 0
      BY <1>3, <2>2 DEF CheckMsgForWPs, TypeOK
    <3>2. wdt[w].age \in 0 .. AgeCap
      BY DEF TypeOK, WdtTables
    <3> QED  BY <2>1, <3>1, <3>2, LcAssumption DEF Counted, Watched
  <2>3. CASE w \notin OnMsg(m)
    <3>1. wrt'[w] = wrt[w] /\ measured'[w] = measured[w] /\ age'[w] = age[w]
      BY <1>3, <2>3 DEF CheckMsgForWPs, TypeOK
    <3> QED  BY <2>1, <3>1 DEF FreshInv, Counted
  <2> QED  BY <2>2, <2>3
<1>4. ASSUME NEW first \in APs, NEW last \in APs, NEW updateAge \in BOOLEAN,
             SampleAPReq(first, last, updateAge)
      PROVE  FreshInv'
  <2> SUFFICES ASSUME NEW w \in WPs PROVE Counted(w)'
    BY DEF FreshInv
  <2>1. wdt'[w] = wdt[w] /\ measured'[w] = measured[w]
    BY <1>4 DEF SampleAPReq
  <2>2. CASE ~updateAge
    <3>1. wrt'[w] = wrt[w] /\ age'[w] = age[w]
      BY <1>4, <2>2 DEF SampleAPReq, TypeOK
    <3> QED  BY <2>1, <3>1 DEF FreshInv, Counted
  <2>3. CASE updateAge
    <3>1. /\ wrt'[w] = Aged(w)
          /\ age'[w] = IF age[w] < AgeCap THEN age[w] + 1 ELSE age[w]
      BY <1>4, <2>3 DEF SampleAPReq, TypeOK
    <3>2. /\ wdt[w].age \in 0 .. AgeCap /\ age[w] \in 0 .. AgeCap
          /\ wrt[w] \in [result : WatchResults, countdown : 0 .. AgeCap]
      BY DEF TypeOK, WdtTables
    <3>3. Counted(w)
      BY DEF FreshInv
    <3>4. CASE wrt[w].countdown = 0
      <4>1. wrt'[w] = wrt[w]
        BY <3>1, <3>4 DEF Aged
      <4> QED  BY <2>1, <3>2, <3>3, <3>4, <4>1, LcAssumption DEF Counted
    <3>5. CASE wrt[w].countdown = 1
      <4>1. wrt'[w].result = "STALE"
        BY <3>1, <3>5 DEF Aged
      <4> QED  BY <4>1 DEF Counted, Truth
    <3>6. CASE wrt[w].countdown > 1
      <4>1. wrt'[w] = [wrt[w] EXCEPT !.countdown = @ - 1]
        BY <3>1, <3>2, <3>6, LcAssumption DEF Aged
      <4>2. wrt'[w].result = wrt[w].result /\ wrt'[w].countdown = wrt[w].countdown - 1
        BY <3>2, <4>1
      <4> QED  BY <2>1, <3>1, <3>2, <3>3, <3>6, <4>2, LcAssumption DEF Counted
    <3> QED  BY <3>2, <3>4, <3>5, <3>6, LcAssumption
  <2> QED  BY <2>2, <2>3
<1>5. ASSUME NEW s \in LCStates, SetLCState(s) PROVE FreshInv'
  BY <1>0, <1>5 DEF SetLCState, histVars
<1>6. ASSUME NEW A \in Chosen, NEW s \in Settable, SetAPState(A, s) PROVE FreshInv'
  BY <1>0, <1>6 DEF SetAPState
<1>7. ASSUME NEW a \in APs, SetAPPermOff(a) PROVE FreshInv'
  BY <1>0, <1>7 DEF SetAPPermOff, histVars
<1>8. ASSUME NEW A \in Chosen, ResetAPStats(A) PROVE FreshInv'
  BY <1>0, <1>8 DEF ResetAPStats
<1>9. ASSUME NEW t \in WdtLoads, LoadWDT(t) PROVE FreshInv'
  BY <1>0, <1>9 DEF LoadWDT, histVars
<1>10. ASSUME NEW t \in AdtLoads, LoadADT(t) PROVE FreshInv'
  BY <1>0, <1>10 DEF LoadADT, histVars
<1>11. CASE ManageTables
  <2>1. CASE pending.wdt = NoTable
    BY <1>0, <1>11, <2>1 DEF ManageTables
  <2>2. CASE pending.wdt # NoTable
    BY <1>11, <2>2, ResetIsFresh DEF ManageTables
  <2> QED  BY <2>1, <2>2
<1> QED  BY <1>1, <1>2, <1>3, <1>4, <1>5, <1>6, <1>7, <1>8, <1>9, <1>10, <1>11
         DEF Next, Receive, Sample, Command, Load

\* What an actionpoint is evaluated from is never older than its table
\* allows, for any ages and any interleaving of samples and messages.
THEOREM LcFresh == Spec => []Fresh
<1>1. Init => TypeOK /\ FreshInv
  BY InitType DEF Init, FreshInv, Counted, ResetWRT, Truth
<1>2. (TypeOK /\ FreshInv) /\ [Next]_vars => (TypeOK /\ FreshInv)'
  BY NextType, FreshNext
<1> QED  BY <1>1, <1>2, FreshInvImplies, PTL DEF Spec

----------------------------------------------------------------------------
(* One request for each activation: an actionpoint that is still active has *)
(* not requested yet, because the request itself makes it passive.          *)

Unspent(a) == fired[a] <= 1 /\ (art[a].state = "ACTIVE" => fired[a] = 0)
UnspentInv == \A a \in APs : Unspent(a)

\* Every step of LC keeps an actionpoint that has requested its RTS out of use
\* until it is set active again.
LEMMA UnspentNext == TypeOK /\ UnspentInv /\ [Next]_vars => UnspentInv'
<1> SUFFICES ASSUME TypeOK, UnspentInv, [Next]_vars, NEW a \in APs PROVE Unspent(a)'
  BY DEF UnspentInv
<1>0. /\ Unspent(a)
      /\ art[a] \in [state : APStates, result : ActionResults, fails : 0 .. FailCap]
      /\ fired[a] \in 0 .. 2
  BY DEF UnspentInv, TypeOK
<1> DEFINE Same == art'[a].state = art[a].state /\ fired'[a] = fired[a]
<1>a. Same => Unspent(a)'
  BY <1>0 DEF Unspent
<1>1. CASE UNCHANGED vars
  BY <1>a, <1>1 DEF vars
<1>2. CASE Restart
  BY <1>2 DEF Restart, AllAPs, Unspent
<1>3. ASSUME NEW m \in Messages, NEW result \in [OnMsg(m) -> Outcomes],
             CheckMsgForWPs(m, result)
      PROVE  Unspent(a)'
  BY <1>a, <1>3 DEF CheckMsgForWPs
<1>4. ASSUME NEW first \in APs, NEW last \in APs, NEW updateAge \in BOOLEAN,
             SampleAPReq(first, last, updateAge)
      PROVE  Unspent(a)'
  <2> DEFINE S == {b \in first .. last : Sampled(b)}
  <2>0. /\ art'[a] = IF a \in S THEN SampleSingleAP(a) ELSE art[a]
        /\ fired'[a] = IF a \in requests' /\ fired[a] < 2 THEN fired[a] + 1 ELSE fired[a]
        /\ requests' = {b \in S : Requests(b)}
    BY <1>4 DEF SampleAPReq, TypeOK
  <2>1. CASE a \notin S
    BY <1>a, <2>0, <2>1
  <2>2. CASE a \in S /\ FailedEnough(a)
    <3>1. art'[a].state = "PASSIVE"
      BY <2>0, <2>2 DEF SampleSingleAP
    <3>2. a \in requests' => fired[a] = 0
      BY <1>0, <2>0 DEF Requests, Unspent
    <3>3. fired'[a] <= 1
      BY <1>0, <2>0, <3>2 DEF Unspent
    <3> QED  BY <3>1, <3>3 DEF Unspent
  <2>3. CASE a \in S /\ ~FailedEnough(a)
    <3>1. art'[a].state = art[a].state
      BY <2>0, <2>3 DEF SampleSingleAP
    <3>2. a \notin requests'
      BY <2>0, <2>3 DEF Requests
    <3> QED  BY <1>a, <2>0, <3>1, <3>2
  <2> QED  BY <2>1, <2>2, <2>3
<1>5. ASSUME NEW s \in LCStates, SetLCState(s) PROVE Unspent(a)'
  BY <1>a, <1>5 DEF SetLCState, histVars
<1>6. ASSUME NEW A \in Chosen, NEW s \in Settable, SetAPState(A, s) PROVE Unspent(a)'
  <2> DEFINE S == {b \in A : art[b].state \in Settable}
  <2>1. /\ art'[a] = IF a \in S THEN [art[a] EXCEPT !.state = s] ELSE art[a]
        /\ fired'[a] = IF a \in S /\ s = "ACTIVE" THEN 0 ELSE fired[a]
    BY <1>6 DEF SetAPState
  <2>2. CASE a \notin S
    BY <1>a, <2>1, <2>2
  <2>3. CASE a \in S /\ s = "ACTIVE"
    BY <2>1, <2>3 DEF Unspent
  <2>4. CASE a \in S /\ s # "ACTIVE"
    <3>1. art'[a].state = s /\ fired'[a] = fired[a]
      BY <1>0, <2>1, <2>4
    <3> QED  BY <1>0, <2>4, <3>1 DEF Unspent
  <2> QED  BY <2>2, <2>3, <2>4
<1>7. ASSUME NEW b \in APs, SetAPPermOff(b) PROVE Unspent(a)'
  BY <1>0, <1>7 DEF SetAPPermOff, histVars, Unspent, TypeOK
<1>8. ASSUME NEW A \in Chosen, ResetAPStats(A) PROVE Unspent(a)'
  BY <1>0, <1>a, <1>8 DEF ResetAPStats, TypeOK
<1>9. ASSUME NEW t \in WdtLoads, LoadWDT(t) PROVE Unspent(a)'
  BY <1>a, <1>9 DEF LoadWDT, histVars
<1>10. ASSUME NEW t \in AdtLoads, LoadADT(t) PROVE Unspent(a)'
  BY <1>a, <1>10 DEF LoadADT, histVars
<1>11. CASE ManageTables
  <2>1. CASE pending.adt = NoTable
    BY <1>a, <1>11, <2>1 DEF ManageTables
  <2>2. CASE pending.adt # NoTable
    BY <1>11, <2>2 DEF ManageTables, AllAPs, Unspent
  <2> QED  BY <2>1, <2>2
<1> QED  BY <1>1, <1>2, <1>3, <1>4, <1>5, <1>6, <1>7, <1>8, <1>9, <1>10, <1>11
         DEF Next, Receive, Sample, Command, Load

\* No actionpoint requests its RTS twice for one activation, for any tables,
\* failure limits and commands.
THEOREM LcOneRequest == Spec => []OneRequest
<1>1. Init => TypeOK /\ UnspentInv
  BY InitType DEF Init, UnspentInv, Unspent, AllAPs
<1>2. (TypeOK /\ UnspentInv) /\ [Next]_vars => (TypeOK /\ UnspentInv)'
  BY NextType, UnspentNext
<1>3. UnspentInv => OneRequest
  BY DEF UnspentInv, Unspent, OneRequest
<1> QED  BY <1>1, <1>2, <1>3, PTL DEF Spec

----------------------------------------------------------------------------
(* The failures that count.  LC has one counter, which outlives changes of *)
(* the actionpoint's state and of LC's own; it is never more than the      *)
(* failures since the last PASS, STALE or reset.                           *)

Earned(a) == art[a].fails <= streak[a]
EarnedInv == Consecutive /\ \A a \in APs : Earned(a)

\* Every step of LC keeps the failure count a count of consecutive failures.
LEMMA EarnedNext == TypeOK /\ EarnedInv /\ [Next]_vars => EarnedInv'
<1> SUFFICES ASSUME TypeOK, EarnedInv, [Next]_vars PROVE EarnedInv'
  OBVIOUS
<1>0. /\ art \in [APs -> [state : APStates, result : ActionResults, fails : 0 .. FailCap]]
      /\ \A a \in APs : streak[a] \in 0 .. FailCap /\ Earned(a)
  BY DEF TypeOK, EarnedInv
\* A step that neither evaluates nor resets, and requests nothing.
<1> DEFINE Same == \A a \in APs : art'[a].fails = art[a].fails /\ streak'[a] = streak[a]
<1>a. Same /\ requests' = {} => EarnedInv'
  BY <1>0 DEF EarnedInv, Earned, Consecutive
<1>b. (\A a \in APs : art'[a].fails = 0 /\ streak'[a] = 0) /\ requests' = {} => EarnedInv'
  BY DEF EarnedInv, Earned, Consecutive
<1>1. CASE UNCHANGED vars
  BY <1>1 DEF vars, EarnedInv, Earned, Consecutive
<1>2. CASE Restart
  BY <1>2, <1>b DEF Restart, ResetART, AllAPs
<1>3. ASSUME NEW m \in Messages, NEW result \in [OnMsg(m) -> Outcomes],
             CheckMsgForWPs(m, result)
      PROVE  EarnedInv'
  BY <1>a, <1>3 DEF CheckMsgForWPs
<1>4. ASSUME NEW first \in APs, NEW last \in APs, NEW updateAge \in BOOLEAN,
             SampleAPReq(first, last, updateAge)
      PROVE  EarnedInv'
  <2> DEFINE S == {a \in first .. last : Sampled(a)}
  <2>0. S \subseteq APs /\ requests' = {a \in S : Requests(a)} /\ adt' = adt
    BY <1>4, LcAssumption DEF SampleAPReq, APs
  <2>1. ASSUME NEW a \in APs PROVE Earned(a)'
    <3>1. /\ art[a].fails \in 0 .. FailCap /\ streak[a] \in 0 .. FailCap
          /\ art[a].fails <= streak[a] /\ FailCap \in Nat
      BY <1>0, LcAssumption DEF Earned
    <3>2. CASE a \notin S
      BY <1>4, <3>1, <3>2 DEF SampleAPReq, Earned
    <3>3. CASE a \in S
      <4>1. art'[a].fails = FailsAfter(a)
        BY <1>4, <3>3 DEF SampleAPReq, SampleSingleAP
      <4>2. streak'[a] = CASE Evaluate(a) \in {"PASS", "STALE"} -> 0
                           [] Evaluate(a) = "FAIL" /\ streak[a] < FailCap -> streak[a] + 1
                           [] OTHER -> streak[a]
        BY <1>4, <3>3 DEF SampleAPReq
      <4> QED  BY <3>1, <4>1, <4>2 DEF FailsAfter, Earned
    <3> QED  BY <3>2, <3>3
  <2>2. ASSUME NEW a \in requests' PROVE streak'[a] >= adt'[a].maxFails
    <3>1. a \in S /\ a \in APs /\ FailedEnough(a)
      BY <2>0, <2>2 DEF Requests
    <3>2. art'[a].fails = FailsAfter(a)
      BY <1>4, <3>1 DEF SampleAPReq, SampleSingleAP
    <3>3. FailsAfter(a) <= streak'[a] /\ adt[a].maxFails <= FailsAfter(a)
      BY <2>1, <3>1, <3>2 DEF Earned, FailedEnough
    <3>4. /\ adt[a].maxFails \in 0 .. FailCap /\ FailsAfter(a) \in 0 .. FailCap
          /\ streak'[a] \in 0 .. FailCap
      BY <3>1, FailsAfterType, NextType DEF TypeOK, AdtTables, AdtEntries
    <3> QED  BY <2>0, <3>3, <3>4, LcAssumption
  <2> QED  BY <2>1, <2>2 DEF EarnedInv, Consecutive
<1>5. ASSUME NEW s \in LCStates, SetLCState(s) PROVE EarnedInv'
  BY <1>a, <1>5 DEF SetLCState, histVars
<1>6. ASSUME NEW A \in Chosen, NEW s \in Settable, SetAPState(A, s) PROVE EarnedInv'
  BY <1>0, <1>a, <1>6 DEF SetAPState
<1>7. ASSUME NEW a \in APs, SetAPPermOff(a) PROVE EarnedInv'
  BY <1>0, <1>a, <1>7 DEF SetAPPermOff, histVars
<1>8. ASSUME NEW A \in Chosen, ResetAPStats(A) PROVE EarnedInv'
  BY <1>0, <1>8 DEF ResetAPStats, EarnedInv, Earned, Consecutive
<1>9. ASSUME NEW t \in WdtLoads, LoadWDT(t) PROVE EarnedInv'
  BY <1>a, <1>9 DEF LoadWDT, histVars
<1>10. ASSUME NEW t \in AdtLoads, LoadADT(t) PROVE EarnedInv'
  BY <1>a, <1>10 DEF LoadADT, histVars
<1>11. CASE ManageTables
  <2>1. CASE pending.adt = NoTable
    BY <1>a, <1>11, <2>1 DEF ManageTables
  <2>2. CASE pending.adt # NoTable
    BY <1>b, <1>11, <2>2 DEF ManageTables, ResetART, AllAPs
  <2> QED  BY <2>1, <2>2
<1> QED  BY <1>1, <1>2, <1>3, <1>4, <1>5, <1>6, <1>7, <1>8, <1>9, <1>10, <1>11
         DEF Next, Receive, Sample, Command, Load

\* An RTS is requested only after as many failures as the table in force says,
\* for any tables, limits, commands, reloads and order of samples.
THEOREM LcConsecutive == Spec => []Consecutive
<1>1. Init => TypeOK /\ EarnedInv
  BY InitType, LcAssumption DEF Init, EarnedInv, Earned, Consecutive, ResetART, AllAPs
<1>2. (TypeOK /\ EarnedInv) /\ [Next]_vars => (TypeOK /\ EarnedInv)'
  BY NextType, EarnedNext
<1>3. EarnedInv => Consecutive
  BY DEF EarnedInv
<1> QED  BY <1>1, <1>2, <1>3, PTL DEF Spec
----------------------------------------------------------------------------
(* What an evaluation rests on.  An actionpoint is sampled only if its      *)
(* entry is in use, and the equation of such an entry was validated before *)
(* the table could be activated; the lemmas on equations apply to it.      *)

InUse(a) == art[a].state # "NOT_USED" => adt[a].state # "NOT_USED"
ValidInv ==
  /\ ValidateADT(adt)
  /\ pending.adt # NoTable => ValidateADT(pending.adt)
  /\ \A a \in APs : InUse(a)

\* Loads pass LC_ValidateADT before an activation can bring them into use.
LEMMA ValidNext == TypeOK /\ ValidInv /\ [Next]_vars => ValidInv'
<1> SUFFICES ASSUME TypeOK, ValidInv, [Next]_vars PROVE ValidInv'
  OBVIOUS
<1>0. /\ art \in [APs -> [state : APStates, result : ActionResults, fails : 0 .. FailCap]]
      /\ pending \in [wdt : WdtTables \cup {NoTable}, adt : AdtTables \cup {NoTable}]
  BY DEF TypeOK
\* A step that leaves the tables alone and takes no entry into use.
<1> DEFINE Kept == \A a \in APs : art'[a].state # "NOT_USED" => art[a].state # "NOT_USED"
<1>a. Kept /\ adt' = adt /\ pending'.adt = pending.adt => ValidInv'
  BY DEF ValidInv, InUse, ValidateADT
<1>1. CASE UNCHANGED vars
  BY <1>1, <1>a DEF vars
<1>2. CASE Restart
  BY <1>2, TableAssumption DEF Restart, ValidInv, InUse, ResetART, ValidateADT
<1>3. ASSUME NEW m \in Messages, NEW result \in [OnMsg(m) -> Outcomes],
             CheckMsgForWPs(m, result)
      PROVE  ValidInv'
  BY <1>a, <1>3 DEF CheckMsgForWPs
<1>4. ASSUME NEW first \in APs, NEW last \in APs, NEW updateAge \in BOOLEAN,
             SampleAPReq(first, last, updateAge)
      PROVE  ValidInv'
  <2>1. Kept
    BY <1>4 DEF SampleAPReq, SampleSingleAP, Sampled
  <2> QED  BY <1>a, <1>4, <2>1 DEF SampleAPReq
<1>5. ASSUME NEW s \in LCStates, SetLCState(s) PROVE ValidInv'
  BY <1>a, <1>5 DEF SetLCState
<1>6. ASSUME NEW A \in Chosen, NEW s \in Settable, SetAPState(A, s) PROVE ValidInv'
  <2>1. Kept
    BY <1>0, <1>6 DEF SetAPState, Settable
  <2> QED  BY <1>a, <1>6, <2>1 DEF SetAPState
<1>7. ASSUME NEW a \in APs, SetAPPermOff(a) PROVE ValidInv'
  <2>1. Kept
    BY <1>0, <1>7 DEF SetAPPermOff
  <2> QED  BY <1>a, <1>7, <2>1 DEF SetAPPermOff
<1>8. ASSUME NEW A \in Chosen, ResetAPStats(A) PROVE ValidInv'
  <2>1. Kept
    BY <1>0, <1>8 DEF ResetAPStats
  <2> QED  BY <1>a, <1>8, <2>1 DEF ResetAPStats
<1>9. ASSUME NEW t \in WdtLoads, LoadWDT(t) PROVE ValidInv'
  BY <1>0, <1>a, <1>9 DEF LoadWDT
<1>10. ASSUME NEW t \in AdtLoads, LoadADT(t) PROVE ValidInv'
  <2>1. pending'.adt = t /\ adt' = adt /\ art' = art /\ ValidateADT(t)
    BY <1>0, <1>10 DEF LoadADT
  <2> QED  BY <2>1 DEF ValidInv, InUse, ValidateADT
<1>11. CASE ManageTables
  <2>1. pending'.adt = NoTable
    BY <1>11 DEF ManageTables
  <2>2. CASE pending.adt = NoTable
    BY <1>a, <1>11, <2>1, <2>2 DEF ManageTables
  <2>3. CASE pending.adt # NoTable
    <3>1. adt' = pending.adt /\ art' = ResetART(pending.adt)
      BY <1>11, <2>3 DEF ManageTables
    <3> QED  BY <2>1, <2>3, <3>1 DEF ValidInv, InUse, ResetART, ValidateADT
  <2> QED  BY <2>2, <2>3
<1> QED  BY <1>1, <1>2, <1>3, <1>4, <1>5, <1>6, <1>7, <1>8, <1>9, <1>10, <1>11
         DEF Next, Receive, Sample, Command, Load

\* The equation of an actionpoint that is sampled is valid.
LEMMA SampledIsValid ==
  ASSUME TypeOK, ValidInv, NEW a \in APs, Sampled(a)
  PROVE  adt[a].eqn \in Seq(Tokens) /\ ValidRPN(adt[a].eqn)
<1>1. adt[a].state # "NOT_USED"
  BY DEF ValidInv, InUse, Sampled
<1> QED  BY <1>1 DEF TypeOK, AdtTables, AdtEntries, ValidInv, ValidateADT

\* Only a sample changes the result of an actionpoint to something else than
\* STALE, and only a sample requests.
LEMMA SampleDecides ==
  ASSUME TypeOK, Next, NEW a \in APs,
         a \in requests' \/ (art'[a].result # art[a].result /\ art'[a].result # "STALE")
  PROVE  /\ Sampled(a) /\ art'[a].result = Evaluate(a)
         /\ a \in requests' => Evaluate(a) = "FAIL"
<1>0. art \in [APs -> [state : APStates, result : ActionResults, fails : 0 .. FailCap]]
  BY DEF TypeOK
<1> DEFINE Silent == requests' = {} /\ (art'[a].result = art[a].result \/ art'[a].result = "STALE")
<1>2. CASE Restart
  <2>1. Silent
    BY <1>2 DEF Restart, ResetART
  <2> QED  BY <2>1
<1>3. ASSUME NEW m \in Messages, NEW result \in [OnMsg(m) -> Outcomes],
             CheckMsgForWPs(m, result)
      PROVE  Silent
  BY <1>3 DEF CheckMsgForWPs
<1>4. ASSUME NEW first \in APs, NEW last \in APs, NEW updateAge \in BOOLEAN,
             SampleAPReq(first, last, updateAge)
      PROVE  /\ Sampled(a) /\ art'[a].result = Evaluate(a)
             /\ a \in requests' => Evaluate(a) = "FAIL"
  <2> DEFINE S == {b \in first .. last : Sampled(b)}
  <2>1. /\ art'[a] = IF a \in S THEN SampleSingleAP(a) ELSE art[a]
        /\ requests' = {b \in S : Requests(b)}
    BY <1>4 DEF SampleAPReq
  <2>2. a \in S
    BY <2>1
  <2>3. Sampled(a)
    BY <2>2
  <2> QED  BY <2>1, <2>2, <2>3 DEF SampleSingleAP, Requests, FailedEnough
<1>5. ASSUME NEW s \in LCStates, SetLCState(s) PROVE Silent
  BY <1>5 DEF SetLCState
<1>6. ASSUME NEW A \in Chosen, NEW s \in Settable, SetAPState(A, s) PROVE Silent
  BY <1>0, <1>6 DEF SetAPState
<1>7. ASSUME NEW b \in APs, SetAPPermOff(b) PROVE Silent
  BY <1>0, <1>7 DEF SetAPPermOff
<1>8. ASSUME NEW A \in Chosen, ResetAPStats(A) PROVE Silent
  BY <1>0, <1>8 DEF ResetAPStats
<1>9. ASSUME NEW t \in WdtLoads, LoadWDT(t) PROVE Silent
  BY <1>9 DEF LoadWDT
<1>10. ASSUME NEW t \in AdtLoads, LoadADT(t) PROVE Silent
  BY <1>10 DEF LoadADT
<1>11. CASE ManageTables
  <2>1. Silent
    BY <1>11 DEF ManageTables, ResetART
  <2> QED  BY <2>1
<1> QED  BY <1>2, <1>3, <1>4, <1>5, <1>6, <1>7, <1>8, <1>9, <1>10, <1>11
         DEF Next, Receive, Sample, Command, Load

\* All that the two properties rest on.
RestsInv == TypeOK /\ FreshInv /\ ValidInv

\* It holds at the start, and every step of LC keeps it.
LEMMA RestsInductive == (Init => RestsInv) /\ (RestsInv /\ [Next]_vars => RestsInv')
<1>1. Init => TypeOK /\ FreshInv
  BY InitType DEF Init, FreshInv, Counted, ResetWRT, Truth
<1>2. Init => ValidInv
  BY TableAssumption DEF Init, ValidInv, InUse, ResetART, ValidateADT
<1> QED  BY <1>1, <1>2, NextType, FreshNext, ValidNext DEF RestsInv

\* A request means that the equation fails for every completion of what is known.
LEMMA RequestIsCertain ==
  ASSUME RestsInv, Next, NEW a \in requests', a \in APs, NEW v \in Readings
  PROVE  EvaluateRPN(adt[a].eqn, v) = "FAIL"
<1>1. Sampled(a) /\ Evaluate(a) = "FAIL"
  BY SampleDecides DEF RestsInv
<1>2. adt[a].eqn \in Seq(Tokens) /\ ValidRPN(adt[a].eqn)
  BY <1>1, SampledIsValid DEF RestsInv
<1>3. ASSUME NEW w \in WPs PROVE Agrees(Results[w], v[w], WatchResults)
  <2>1. Results[w] = wrt[w].result /\ wrt[w].result \in WatchResults
    BY DEF Results, RestsInv, TypeOK
  <2>2. v[w] \in Truth /\ (Known(w) => v[w] = measured[w])
    BY DEF Readings
  <2>3. wrt[w].result \in Truth => measured[w] = wrt[w].result /\ Known(w)
    BY FreshInvImplies DEF RestsInv, Fresh, Known
  <2> QED  BY <2>1, <2>2, <2>3 DEF Agrees
<1>4. Agrees(EvalLoop(adt[a].eqn, Results).outcome, EvalLoop(adt[a].eqn, v).outcome, WatchResults)
  BY <1>2, <1>3, ValidAgrees DEF Answers
<1>5. EvalLoop(adt[a].eqn, Results).outcome = "TRUE"
  BY <1>1 DEF Evaluate, EvaluateRPN, ActionResult
<1> QED  BY <1>4, <1>5 DEF Agrees, Truth, EvaluateRPN, ActionResult

\* An RTS is requested only when the equation holds whatever the readings that
\* LC has not got: for any valid tables, equations and interleaving.
THEOREM LcRequestsCertain == Spec => RequestsCertain
<1> DEFINE Step == \A a \in requests' : \A v \in Readings : EvaluateRPN(adt[a].eqn, v) = "FAIL"
<1>1. RestsInv /\ [Next]_vars => [Step]_vars
  <2> SUFFICES ASSUME RestsInv, Next PROVE Step
    OBVIOUS
  <2>1. requests' \subseteq APs
    BY NextType DEF RestsInv, TypeOK
  <2> QED  BY <2>1, RequestIsCertain
<1>2. RequestsCertain <=> [][Step]_vars
  BY DEF RequestsCertain
<1> HIDE DEF Step
<1>3. (Init => RestsInv) /\ (RestsInv /\ [Next]_vars => RestsInv')
  BY RestsInductive
<1> QED  BY <1>1, <1>2, <1>3, PTL DEF Spec

\* With no watchpoint in error, a valid equation does not evaluate to an error.
LEMMA ErrorIsMeasured ==
  ASSUME RestsInv, Next, NEW a \in APs, art'[a].result = "ERROR", art[a].result # "ERROR"
  PROVE  \E w \in WPs : wrt[w].result = "ERROR"
<1> SUFFICES ASSUME \A w \in WPs : wrt[w].result # "ERROR" PROVE FALSE
  OBVIOUS
<1> DEFINE V == WatchResults \ {"ERROR"}
           v == [w \in WPs |-> IF Results[w] \in Truth THEN Results[w] ELSE "TRUE"]
<1>1. Sampled(a) /\ Evaluate(a) = "ERROR"
  BY SampleDecides DEF RestsInv
<1>2. adt[a].eqn \in Seq(Tokens) /\ ValidRPN(adt[a].eqn)
  BY <1>1, SampledIsValid DEF RestsInv
<1>3. ASSUME NEW w \in WPs PROVE Agrees(Results[w], v[w], V)
  <2>1. Results[w] \in V
    BY DEF Results, RestsInv, TypeOK
  <2> QED  BY <2>1 DEF Agrees, Truth
<1> HIDE DEF v
<1>4. Agrees(EvalLoop(adt[a].eqn, Results).outcome, EvalLoop(adt[a].eqn, v).outcome, V)
  BY <1>2, <1>3, ValidAgrees DEF Answers
<1>5. EvalLoop(adt[a].eqn, Results).outcome \in {"TRUE", "FALSE", "STALE"}
  BY <1>4 DEF Agrees, WatchResults, Truth
<1> QED  BY <1>1, <1>5 DEF Evaluate, EvaluateRPN, ActionResult

\* An actionpoint comes to an error only by a watchpoint in error, never by its
\* equation: for any tables that the table services let through.
THEOREM LcErrorsAreMeasured == Spec => ErrorsAreMeasured
<1> DEFINE Step == \A a \in APs : art'[a].result = "ERROR" /\ art[a].result # "ERROR"
                     => \E w \in WPs : wrt[w].result = "ERROR"
<1>1. RestsInv /\ [Next]_vars => [Step]_vars
  BY ErrorIsMeasured
<1>2. ErrorsAreMeasured <=> [][Step]_vars
  BY DEF ErrorsAreMeasured
<1> HIDE DEF Step
<1>3. (Init => RestsInv) /\ (RestsInv /\ [Next]_vars => RestsInv')
  BY RestsInductive
<1> QED  BY <1>1, <1>2, <1>3, PTL DEF Spec
=============================================================================
