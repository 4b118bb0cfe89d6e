--------------------------- MODULE MCLimitChecker ---------------------------
(* Small instances of LimitChecker.                                        *)
EXTENDS LimitChecker, TLC

MCWPs == {"w1", "w2"}

Wp(m, n) == [msg |-> m, age |-> n]
TwoMsgs == [w \in MCWPs |-> IF w = "w1" THEN Wp("m1", 1) ELSE Wp("m2", 0)]
OneMsg  == [w \in MCWPs |-> IF w = "w1" THEN Wp("m1", 2) ELSE Wp("m1", 1)]
OneWp   == [w \in MCWPs |-> IF w = "w1" THEN Wp("m1", 0) ELSE Wp("none", 0)]

Ap(s, n, e) == [state |-> s, maxFails |-> n, eqn |-> e]
Simple   == <<"w1", "EQUAL">>
Both     == <<"w1", "w2", "NOT", "AND", "EQUAL">>
Excess   == <<"w1", "w2", "EQUAL">>

\* One actionpoint over both watchpoints, and a load that must be refused.
OneAp    == 0 :> Ap("ACTIVE", 2, Both)
OneSimple == 0 :> Ap("ACTIVE", 2, Simple)
IllFormed == 0 :> Ap("ACTIVE", 2, Excess)

\* Two actionpoints over one watchpoint, and a load that changes their roles.
TwoAps   == 0 :> Ap("ACTIVE", 2, Simple) @@ 1 :> Ap("DISABLED", 1, Simple)
Swapped  == 0 :> Ap("NOT_USED", 0, <<>>) @@ 1 :> Ap("ACTIVE", 2, Simple)

Reload     == {OneMsg}
Same       == {OneWp}
Refused    == {IllFormed}
SwapLoads  == {Swapped}
None       == {}
WithErrors == {"TRUE", "FALSE", "ERROR"}
NoErrors   == {"TRUE", "FALSE"}
=============================================================================
