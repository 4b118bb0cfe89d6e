---------------------------- MODULE LimitChecker ----------------------------
(***************************************************************************)
(* The limit checker application, LC (fsw/apps/lc/fsw/src): watchpoints    *)
(* compare telemetry with limits as it arrives, actionpoints combine their *)
(* results when a sample is requested, and an actionpoint that fails often *)
(* enough asks the stored command application to start an RTS.  LC is one  *)
(* task that handles one message at a time; its critical data store is     *)
(* compiled out in this mission (LC_SAVE_TO_CDS).                          *)
(*                                                                         *)
(* Abstracted: a comparison of telemetry with a limit is the result it     *)
(* gives; of the statistics only the count of consecutive failures, which  *)
(* is the one that LC acts on; a request that LC rejects changes nothing.  *)
(***************************************************************************)
EXTENDS Rpn

CONSTANTS
  NumAPs,        \* LC_MAX_ACTIONPOINTS
  NotUsed,       \* message of an entry that is not used, LC_WATCH_NOT_USED
  Outcomes,      \* results that comparing telemetry with a limit can give
  DefaultWdt,    \* watchpoint table in LC_WDT_FILENAME
  DefaultAdt,    \* actionpoint table in LC_ADT_FILENAME
  WdtLoads,      \* watchpoint tables the ground may load
  AdtLoads,      \* actionpoint tables the ground may load, valid or not
  PowerOnState,  \* LC_STATE_POWER_ON_RESET
  AgeCap,        \* bound: ages are counted up to here, no limit is larger
  FailCap        \* bound: failures are counted up to here, no limit is larger

APs      == 0 .. NumAPs - 1
LCStates == {"ACTIVE", "PASSIVE", "DISABLED"}
Settable == {"ACTIVE", "PASSIVE", "DISABLED"}
APStates == Settable \cup {"PERMOFF", "NOT_USED"}

ASSUME LcAssumption ==
  /\ NumAPs \in Nat /\ AgeCap \in Nat /\ FailCap \in Nat
  /\ PowerOnState \in LCStates
  /\ Outcomes \subseteq {"TRUE", "FALSE", "ERROR"}

\* Variant with a bug, for sensitivity: the equation is not looked at.
ValidateADTNoRPN(t) ==
  \A a \in APs : t[a].state # "NOT_USED" => t[a].maxFails > 0

\* The equation and the failure limit of each entry in use.
ValidateADT(t) ==
  \A a \in APs : t[a].state # "NOT_USED" => t[a].maxFails > 0 /\ ValidRPN(t[a].eqn)

AdtEntries == [state : APStates, maxFails : 0 .. FailCap, eqn : Seq(Tokens)]
WdtTables  == [WPs -> [msg : STRING, age : 0 .. AgeCap]]
AdtTables  == [APs -> AdtEntries]

ASSUME TableAssumption ==
  /\ DefaultWdt \in WdtTables /\ WdtLoads \subseteq WdtTables
  /\ DefaultAdt \in AdtTables /\ AdtLoads \subseteq AdtTables
  /\ ValidateADT(DefaultAdt)

VARIABLES
  lcState,   \* CurrentLCState
  wdt,       \* watchpoint definition table in force
  adt,       \* actionpoint definition table in force
  wrt,       \* watchpoint results table
  art,       \* actionpoint results table
  pending,   \* tables loaded and validated, waiting to be managed by LC
  requests,  \* actionpoints whose RTS was requested in the last step
  \* history, not in the code:
  measured,  \* result of the last comparison since the table was loaded
  age,       \* samples that aged the results since that comparison
  streak,    \* evaluations to FAIL since the last PASS, STALE or reset
  fired      \* RTS requests since the actionpoint was last made active, up to 2

lcVars   == <<lcState, wdt, adt, wrt, art, pending, requests>>
histVars == <<measured, age, streak, fired>>
vars     == <<lcState, wdt, adt, wrt, art, pending, requests, measured, age,
              streak, fired>>

NoTable == <<>>

TypeOK ==
  /\ lcState \in LCStates
  /\ wdt \in WdtTables
  /\ adt \in AdtTables
  /\ wrt \in [WPs -> [result : WatchResults, countdown : 0 .. AgeCap]]
  /\ art \in [APs -> [state : APStates, result : ActionResults,
                      fails : 0 .. FailCap]]
  /\ pending \in [wdt : WdtTables \cup {NoTable}, adt : AdtTables \cup {NoTable}]
  /\ requests \subseteq APs
  /\ measured \in [WPs -> Truth \cup {"ERROR", "none"}]
  /\ age \in [WPs -> 0 .. AgeCap]
  /\ streak \in [APs -> 0 .. FailCap]
  /\ fired \in [APs -> 0 .. 2]

\* LC_ResetResultsWP and LC_ResetResultsAP when a table is loaded.
ResetWRT    == [w \in WPs |-> [result |-> "STALE", countdown |-> 0]]
ResetART(t) == [a \in APs |-> [state |-> t[a].state, result |-> "STALE", fails |-> 0]]
AllWPs(x)   == [w \in WPs |-> x]
AllAPs(x)   == [a \in APs |-> x]

\* LC_LoadDefaultTables: nothing survives a restart.
Init ==
  /\ lcState = PowerOnState
  /\ wdt = DefaultWdt /\ wrt = ResetWRT
  /\ adt = DefaultAdt /\ art = ResetART(DefaultAdt)
  /\ pending = [wdt |-> NoTable, adt |-> NoTable]
  /\ requests = {}
  /\ measured = AllWPs("none") /\ age = AllWPs(0)
  /\ streak = AllAPs(0) /\ fired = AllAPs(0)

Restart ==
  /\ lcState' = PowerOnState
  /\ wdt' = DefaultWdt /\ wrt' = ResetWRT
  /\ adt' = DefaultAdt /\ art' = ResetART(DefaultAdt)
  /\ pending' = [wdt |-> NoTable, adt |-> NoTable]
  /\ requests' = {}
  /\ measured' = AllWPs("none") /\ age' = AllWPs(0)
  /\ streak' = AllAPs(0) /\ fired' = AllAPs(0)

----------------------------------------------------------------------------
(* Telemetry: LC_CheckMsgForWPs and LC_ProcessWP.                          *)

\* The entry of watchpoint w once a comparison has given r.
Watched(w, r) ==
  [result |-> r, countdown |-> IF r \in Truth THEN wdt[w].age ELSE 0]

Messages  == {wdt[w].msg : w \in WPs} \ {NotUsed}
OnMsg(m)  == {w \in WPs : wdt[w].msg = m}

CheckMsgForWPs(m, result) ==
  /\ lcState # "DISABLED"
  /\ wrt' = [w \in WPs |-> IF w \in OnMsg(m) THEN Watched(w, result[w]) ELSE wrt[w]]
  /\ measured' = [w \in WPs |-> IF w \in OnMsg(m) THEN result[w] ELSE measured[w]]
  /\ age' = [w \in WPs |-> IF w \in OnMsg(m) THEN 0 ELSE age[w]]
  /\ requests' = {}
  /\ UNCHANGED <<lcState, wdt, adt, art, pending, streak, fired>>

----------------------------------------------------------------------------
(* Samples: LC_SampleAPReq, LC_SampleAPs and LC_SampleSingleAP.            *)

Results     == [w \in WPs |-> wrt[w].result]
Evaluate(a) == EvaluateRPN(adt[a].eqn, Results)
Sampled(a)  == art[a].state \in {"ACTIVE", "PASSIVE"}

\* Variant with a bug, for sensitivity: a stale result does not end the
\* count of failures.
FailsAfterKeepsStale(a) ==
  CASE Evaluate(a) = "FAIL" -> IF art[a].fails < FailCap THEN art[a].fails + 1 ELSE FailCap
    [] Evaluate(a) = "PASS" -> 0
    [] OTHER -> art[a].fails

\* The count goes on over an evaluation that ends in an error.
FailsAfter(a) ==
  CASE Evaluate(a) = "FAIL" -> IF art[a].fails < FailCap THEN art[a].fails + 1 ELSE FailCap
    [] Evaluate(a) \in {"PASS", "STALE"} -> 0
    [] OTHER -> art[a].fails

\* Variant with a bug, for sensitivity: only the failure that reaches the limit.
FailedJustEnough(a) == Evaluate(a) = "FAIL" /\ FailsAfter(a) = adt[a].maxFails /\ art[a].fails < FailCap

FailedEnough(a) == Evaluate(a) = "FAIL" /\ FailsAfter(a) >= adt[a].maxFails

\* Variant with a bug, for sensitivity: an actionpoint stays active.
SampleSingleAPStays(a) ==
  IF ~Sampled(a) THEN art[a]
  ELSE [state  |-> art[a].state, result |-> Evaluate(a), fails |-> FailsAfter(a)]

SampleSingleAP(a) ==
  IF ~Sampled(a) THEN art[a]
  ELSE [state  |-> IF FailedEnough(a) THEN "PASSIVE" ELSE art[a].state,
        result |-> Evaluate(a),
        fails  |-> FailsAfter(a)]

\* Whether LC_ExecuteRTS is called: the actionpoint goes passive all the same
\* when LC itself is passive.
Requests(a) == art[a].state = "ACTIVE" /\ FailedEnough(a) /\ lcState = "ACTIVE"

\* Variant with a bug, for sensitivity: what reaches 0 is not made stale.
AgedForever(w) ==
  IF wrt[w].countdown = 0 THEN wrt[w] ELSE [wrt[w] EXCEPT !.countdown = @ - 1]

\* Variant with a bug, for sensitivity: counts down what does not age.
AgedBelowZero(w) ==
  [result |-> IF wrt[w].countdown = 1 THEN "STALE" ELSE wrt[w].result,
   countdown |-> wrt[w].countdown - 1]

\* A countdown of 0 stands for a result that does not age.
Aged(w) ==
  CASE wrt[w].countdown = 0 -> wrt[w]
    [] wrt[w].countdown = 1 -> [result |-> "STALE", countdown |-> 0]
    [] OTHER -> [wrt[w] EXCEPT !.countdown = @ - 1]

\* The results age after the actionpoints have been evaluated.
SampleAPReq(first, last, updateAge) ==
  LET S == {a \in first .. last : Sampled(a)}
  IN  /\ lcState # "DISABLED"
      /\ art' = [a \in APs |-> IF a \in S THEN SampleSingleAP(a) ELSE art[a]]
      /\ requests' = {a \in S : Requests(a)}
      /\ wrt' = IF updateAge THEN [w \in WPs |-> Aged(w)] ELSE wrt
      /\ age' = [w \in WPs |-> IF updateAge /\ age[w] < AgeCap THEN age[w] + 1 ELSE age[w]]
      /\ streak' = [a \in APs |->
           CASE a \in S /\ Evaluate(a) \in {"PASS", "STALE"} -> 0
             [] a \in S /\ Evaluate(a) = "FAIL" /\ streak[a] < FailCap -> streak[a] + 1
             [] OTHER -> streak[a]]
      /\ fired' = [a \in APs |->
           IF a \in requests' /\ fired[a] < 2 THEN fired[a] + 1 ELSE fired[a]]
      /\ UNCHANGED <<lcState, wdt, adt, pending, measured>>

\* The schedule of the mission samples all of them and ages the results.
SampleAll == SampleAPReq(0, NumAPs - 1, TRUE)

----------------------------------------------------------------------------
(* Commands.                                                               *)

SetLCState(s) ==
  /\ lcState' = s
  /\ requests' = {}
  /\ UNCHANGED <<wdt, adt, wrt, art, pending, histVars>>

\* One actionpoint or, with LC_ALL_ACTIONPOINTS, all of them.
Chosen == {{a} : a \in APs} \cup {APs}

\* LC_SetAPStateCmd: what is not used or permanently off stays so.
SetAPState(A, s) ==
  LET S == {a \in A : art[a].state \in Settable}
  IN  /\ art' = [a \in APs |-> IF a \in S THEN [art[a] EXCEPT !.state = s] ELSE art[a]]
      /\ fired' = [a \in APs |-> IF a \in S /\ s = "ACTIVE" THEN 0 ELSE fired[a]]
      /\ requests' = {}
      /\ UNCHANGED <<lcState, wdt, adt, wrt, pending, measured, age, streak>>

SetAPPermOff(a) ==
  /\ art[a].state = "DISABLED"
  /\ art' = [art EXCEPT ![a].state = "PERMOFF"]
  /\ requests' = {}
  /\ UNCHANGED <<lcState, wdt, adt, wrt, pending, histVars>>

\* LC_ResetAPStatsCmd: the state and the last result stay as they are.
ResetAPStats(A) ==
  /\ art' = [a \in APs |-> IF a \in A THEN [art[a] EXCEPT !.fails = 0] ELSE art[a]]
  /\ streak' = [a \in APs |-> IF a \in A THEN 0 ELSE streak[a]]
  /\ requests' = {}
  /\ UNCHANGED <<lcState, wdt, adt, wrt, pending, measured, age, fired>>

----------------------------------------------------------------------------
(* Tables: the table services hold a validated load until LC manages its    *)
(* tables, when housekeeping is requested or no message came for a while.   *)

LoadWDT(t) ==
  /\ pending.wdt = NoTable
  /\ pending' = [pending EXCEPT !.wdt = t]
  /\ requests' = {}
  /\ UNCHANGED <<lcState, wdt, adt, wrt, art, histVars>>

LoadADT(t) ==
  /\ pending.adt = NoTable /\ ValidateADT(t)
  /\ pending' = [pending EXCEPT !.adt = t]
  /\ requests' = {}
  /\ UNCHANGED <<lcState, wdt, adt, wrt, art, histVars>>

\* Variant with a bug, for sensitivity: the results of the old watchpoints
\* are kept.
ManageTablesKeepsResults ==
  LET newWdt == pending.wdt # NoTable
      newAdt == pending.adt # NoTable
  IN  /\ wdt' = IF newWdt THEN pending.wdt ELSE wdt
      /\ adt' = IF newAdt THEN pending.adt ELSE adt
      /\ art' = IF newAdt THEN ResetART(pending.adt) ELSE art
      /\ measured' = IF newWdt THEN AllWPs("none") ELSE measured
      /\ age' = IF newWdt THEN AllWPs(0) ELSE age
      /\ streak' = IF newAdt THEN AllAPs(0) ELSE streak
      /\ fired' = IF newAdt THEN AllAPs(0) ELSE fired
      /\ pending' = [wdt |-> NoTable, adt |-> NoTable]
      /\ requests' = {}
      /\ UNCHANGED <<lcState, wrt>>

\* LC_ManageTables.  A new table resets the results that belong to it, not
\* those of the other one.
ManageTables ==
  LET newWdt == pending.wdt # NoTable
      newAdt == pending.adt # NoTable
  IN  /\ wdt' = IF newWdt THEN pending.wdt ELSE wdt
      /\ wrt' = IF newWdt THEN ResetWRT ELSE wrt
      /\ adt' = IF newAdt THEN pending.adt ELSE adt
      /\ art' = IF newAdt THEN ResetART(pending.adt) ELSE art
      /\ measured' = IF newWdt THEN AllWPs("none") ELSE measured
      /\ age' = IF newWdt THEN AllWPs(0) ELSE age
      /\ streak' = IF newAdt THEN AllAPs(0) ELSE streak
      /\ fired' = IF newAdt THEN AllAPs(0) ELSE fired
      /\ pending' = [wdt |-> NoTable, adt |-> NoTable]
      /\ requests' = {}
      /\ UNCHANGED lcState

----------------------------------------------------------------------------
Receive == \E m \in Messages : \E result \in [OnMsg(m) -> Outcomes] :
             CheckMsgForWPs(m, result)

Sample == \E first, last \in APs, updateAge \in BOOLEAN :
            first <= last /\ SampleAPReq(first, last, updateAge)

Command ==
  \/ \E s \in LCStates : SetLCState(s)
  \/ \E A \in Chosen, s \in Settable : SetAPState(A, s)
  \/ \E a \in APs : SetAPPermOff(a)
  \/ \E A \in Chosen : ResetAPStats(A)

Load == (\E t \in WdtLoads : LoadWDT(t)) \/ (\E t \in AdtLoads : LoadADT(t))

Next == Restart \/ Receive \/ Sample \/ Command \/ Load \/ ManageTables

Spec == Init /\ [][Next]_vars

\* The scheduler asks for a sample of all actionpoints every second.
LiveSpec == Spec /\ WF_vars(SampleAll)

----------------------------------------------------------------------------
(* Properties.                                                             *)

\* A watchpoint that counts as true or false was compared since its table
\* was loaded, came out that way, and is younger than the age at which it
\* goes stale, however samples, messages, errors and reloads interleave.
Fresh ==
  \A w \in WPs : wrt[w].result \in Truth =>
    /\ measured[w] = wrt[w].result
    /\ wdt[w].age > 0 => age[w] < wdt[w].age

\* An RTS is requested only when the equation holds however the watchpoints
\* that were never measured, are too old or in error had come out.
Known(w) == /\ measured[w] \in Truth
            /\ wdt[w].age > 0 => age[w] < wdt[w].age
Readings == {v \in [WPs -> Truth] : \A w \in WPs : Known(w) => v[w] = measured[w]}
RequestsCertain ==
  [][\A a \in requests' : \A v \in Readings : EvaluateRPN(adt[a].eqn, v) = "FAIL"]_vars

\* However long it goes on failing, an actionpoint requests its RTS once for
\* each time it is made active, by command or by loading its table.
OneRequest == \A a \in APs : fired[a] <= 1

\* An RTS is requested only after as many failures as its table says, with
\* no evaluation to PASS or STALE and no reset of the statistics in between.
Consecutive == \A a \in requests : streak[a] >= adt[a].maxFails

\* An actionpoint that has no watchpoint in error evaluates without one: the
\* equations in force were all checked when their table was loaded.
ErrorsAreMeasured ==
  [][\A a \in APs : art'[a].result = "ERROR" /\ art[a].result # "ERROR"
       => \E w \in WPs : wrt[w].result = "ERROR"]_vars

\* While LC and an actionpoint are both active and the equation keeps
\* failing, it comes to a request, unless its count is reset for ever.
Failing(a) == lcState = "ACTIVE" /\ art[a].state = "ACTIVE" /\ Evaluate(a) = "FAIL"
EventuallyRequested ==
  \A a \in APs : <>[]Failing(a) => []<>(streak[a] = 0)

=============================================================================
