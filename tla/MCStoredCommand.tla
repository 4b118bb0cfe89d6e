--------------------------- MODULE MCStoredCommand ---------------------------
(* Small instances of StoredCommand: seconds modulo 16, of which the clock   *)
(* passes the first few.                                                     *)
EXTENDS StoredCommand, TLC

Cmd(t)     == [time |-> t, kind |-> "cmd"]
Switch(t)  == [time |-> t, kind |-> "switch"]

\* Two commands in the same second; two against their number order, so that
\* the append table may move the second behind the first; an ATS that
\* switches to the other one by itself.
SameAts    == (1 :> Cmd(1) @@ 2 :> Cmd(1))
OrderAts   == (1 :> Cmd(2) @@ 2 :> Cmd(1))
SwitchAts  == (1 :> Switch(1) @@ 2 :> Cmd(2))
MCAtsLoads     == {SameAts, OrderAts, SwitchAts}
MCAppendLoads  == {2 :> Cmd(2)}
MCJumpTimes    == {0, 2, 3}

\* An RTS with a delay before its first command and none before its second,
\* one the other way round, and a null load.
MCRtsLoads == {<<1, 0>>, <<0, 2>>, <<>>}

\* One ATS and one RTS table, for both processors at once.
MCMixedAts == {SameAts}
MCMixedRts == {<<0, 1>>}

None == {}
==============================================================================
