--------------------------- MODULE ScienceMission ---------------------------
(***************************************************************************)
(* The science scenario of this mission: its tables (cfg/nos3_defs/tables) *)
(* run by the limit checker LC, the stored command application SC and the  *)
(* mode manager MGR.  Watchpoints read the mode, the battery, the position *)
(* and the health of the instrument; actionpoint n asks SC for RTS n; the  *)
(* sequences switch the instrument and arm the actionpoints for the next   *)
(* event.  A second is: housekeeping arrives, SC sends the commands that   *)
(* are due, LC samples its actionpoints.                                   *)
(*                                                                         *)
(* Abstracted: the three regions behave alike and are one, Alaska, whose   *)
(* five watchpoints (30 to 34) are one; every actionpoint fails at its     *)
(* first failure, so its statistics do not matter; a command with no       *)
(* effect here keeps its place and delay in its sequence (Others).         *)
(***************************************************************************)
EXTENDS Rpn

CONSTANTS
  Undisturbed,   \* sequences during which nothing outside the tables changes
  Patient,       \* nothing outside changes before the last change is reported
  Resets         \* the flight software may restart by itself

Rtss == {1, 3, 25, 26, 27, 28, 29, 30, 33, 36}
APs  == {25, 26, 27, 28, 29, 30, 33, 36}
ASSUME ScienceAssumption ==
  /\ Undisturbed \subseteq Rtss /\ Patient \in BOOLEAN /\ Resets \in BOOLEAN
  /\ WPs = {"WP24", "WP25", "WP26", "WP27", "WP28", "WP29", "WP30"}

Modes   == {"SAFE", "SAFE_REBOOT", "SCIENCE", "SCIENCE_REBOOT"}
Levels  == <<"low", "middle", "high">>   \* battery, around limits 27 and 28

VARIABLES
  mode,       \* SpacecraftMode of MGR
  saved,      \* mode in /data/mgr.bin
  lcState,    \* CurrentLCState of LC
  ap,         \* state of each actionpoint
  wrt,        \* watchpoint results
  enabled,    \* sequences whose DisabledFlag is clear
  seq,        \* next command of each sequence, 0 when it is not executing,
              \* and the seconds until it is due
  tick,       \* seconds, modulo the longest period of the schedule
  phase,      \* part of the second
  sample,     \* instrument application: enabled, and the status it reports
  switch,     \* EPS switches 0 (instrument) and 1 (star tracker)
  adcs,       \* attitude control mode
  battery, inRegion, healthy,   \* outside: an index of Levels, two facts
  \* history, not in the code:
  resets,     \* restarts by RTS 36 since the ground last set the mode, up to 3
  stranded    \* the instrument has been on since a restart not by RTS 36

fswVars == <<mode, saved, lcState, ap, wrt, enabled, seq, sample, adcs>>
envVars == <<battery, inRegion, healthy>>
vars    == <<mode, saved, lcState, ap, wrt, enabled, seq, tick, phase,
             sample, switch, adcs, battery, inRegion, healthy, resets, stranded>>

----------------------------------------------------------------------------
(* Commands and sequences.                                                 *)

Cmd(d, op, a, v) == [delay |-> d, op |-> op, of |-> a, to |-> v]
Others(n)     == [i \in 1 .. n |-> Cmd(1, "other", 0, "")]
SetAP(a, s)   == <<Cmd(1, "ap", a, s)>>
Sample(b)     == <<Cmd(1, "sample", 0, b)>>
Switch(n, b)  == <<Cmd(1, "switch", n, b)>>
Adcs(m)       == <<Cmd(5, "adcs", 0, m)>>
Activate(a)   == SetAP(a, "ACTIVE")
Disable(a)    == SetAP(a, "DISABLED")
StandDown     == Sample(FALSE) \o Switch(0, FALSE)
Sunsafe       == Adcs("SUNSAFE") \o Others(1) \o Switch(1, FALSE)

Rts1 == Others(2) \o <<Cmd(1, "enable", 0, Rtss \ {1}), Cmd(1, "lc", 0, "ACTIVE"),
        Cmd(1, "start", 3, ""), Cmd(0, "enable", 0, {26})>> \o Others(1)
        \o Activate(26) \o <<Cmd(0, "enable", 0, {25})>> \o Others(1)
        \o Activate(25) \o Others(1) \o Others(1)
Rts3 == Others(6) \o Adcs("SUNSAFE")
Rts25 == Disable(25) \o <<Cmd(0, "mode", 0, "SCIENCE")>>
\* Variant with a bug, for sensitivity: the exit from science is not armed.
Rts26NoExit ==
         <<Cmd(1, "enable", 0, {27, 28, 29, 30})>> \o Others(5)
         \o Activate(27) \o Others(1) \o Activate(30) \o Others(2)
         \o Activate(36) \o Others(1)
Rts26 == <<Cmd(1, "enable", 0, {27, 28, 29, 30})>> \o Others(5)
         \o Activate(27) \o Activate(29) \o Activate(30) \o Others(2)
         \o Activate(36) \o Others(1)
\* Variant with a bug, for sensitivity: the entry of the region stays armed.
Rts27KeepsEntry ==
         Others(1) \o Others(3) \o Disable(33) \o Others(2)
         \o StandDown \o Sunsafe \o Others(1) \o Activate(28)
Rts27 == Others(1) \o Disable(30) \o Others(2) \o Disable(33) \o Others(2)
         \o StandDown \o Sunsafe \o Others(1) \o Activate(28)
\* Variant with a bug, for sensitivity: no region is entered any more.
Rts28NoEntry == Others(1) \o Disable(28) \o Others(5)
                \o Activate(27) \o Activate(29) \o Others(3)
Rts28 == Others(1) \o Disable(28) \o Others(5)
         \o Activate(27) \o Activate(29) \o Activate(30) \o Others(2)
Rts29 == Others(1) \o Disable(27) \o Disable(28) \o Disable(29) \o Disable(30)
         \o Others(2) \o Disable(33) \o Others(2) \o StandDown \o Sunsafe
         \o Others(1) \o Activate(26) \o Disable(36)
Rts30 == Others(1) \o Others(1) \o Switch(1, TRUE) \o Others(1)
         \o Adcs("INERTIAL") \o <<Cmd(5, "other", 0, "")>> \o Switch(0, TRUE)
         \o Sample(TRUE) \o Others(1) \o Activate(33)
\* Variant with a bug, for sensitivity: the region is entered only once.
Rts33Once == Others(1) \o StandDown \o Sunsafe \o Others(2)
Rts33 == Others(1) \o StandDown \o Sunsafe \o Others(1) \o Activate(30)
Rts36 == StandDown \o <<Cmd(1, "restart", 0, "")>>

Rts(r) == CASE r = 1 -> Rts1 [] r = 3 -> Rts3 [] r = 25 -> Rts25 [] r = 26 -> Rts26
            [] r = 27 -> Rts27 [] r = 28 -> Rts28 [] r = 29 -> Rts29
            [] r = 30 -> Rts30 [] r = 33 -> Rts33 [] r = 36 -> Rts36

Equation(a) ==
  CASE a = 25 -> <<"WP25", "EQUAL">> [] a = 26 -> <<"WP26", "EQUAL">>
    [] a = 27 -> <<"WP27", "EQUAL">> [] a = 28 -> <<"WP28", "EQUAL">>
    [] a = 29 -> <<"WP29", "EQUAL">> [] a = 30 -> <<"WP30", "EQUAL">>
    [] a = 33 -> <<"WP30", "NOT", "EQUAL">>
    [] a = 36 -> <<"WP26", "WP24", "AND", "EQUAL">>

Idle == [next |-> 0, wait |-> 0]
Executing(r) == seq[r].next # 0
Start(r, s) ==
  IF r \in enabled /\ s[r].next = 0
  THEN [s EXCEPT ![r] = [next |-> 1, wait |-> Rts(r)[1].delay]]
  ELSE s
Due        == {r \in Rtss : Executing(r) /\ seq[r].wait = 0}
Lowest(rs) == CHOOSE r \in rs : \A q \in rs : r <= q
Quiet(rs)  == \A r \in rs : ~Executing(r)

----------------------------------------------------------------------------
(* Start of the flight software.  The switches are hardware, the file keeps *)
(* the mode; MGR starts in a reboot mode whatever it saved.                *)

\* Variant with a bug, for sensitivity: science goes on after any restart.
BootModeKeeps(m) ==
  IF m \in {"SCIENCE", "SCIENCE_REBOOT"} THEN "SCIENCE_REBOOT" ELSE "SAFE_REBOOT"

BootMode(m) == IF m = "SCIENCE_REBOOT" THEN m ELSE "SAFE_REBOOT"
Booted      == [mode |-> BootMode(saved), lcState |-> "DISABLED",
                ap |-> [a \in APs |-> IF a \in {25, 26} THEN "PASSIVE" ELSE "DISABLED"],
                wrt |-> [w \in WPs |-> "STALE"],
                enabled |-> {1},
                seq |-> [r \in Rtss |-> IF r = 1 THEN [next |-> 1, wait |-> 3] ELSE Idle],
                sample |-> [enabled |-> FALSE, bad |-> FALSE],
                adcs |-> "PASSIVE"]

Boot ==
  /\ mode' = Booted.mode /\ saved' = saved
  /\ lcState' = Booted.lcState /\ ap' = Booted.ap /\ wrt' = Booted.wrt
  /\ enabled' = Booted.enabled /\ seq' = Booted.seq
  /\ sample' = Booted.sample /\ adcs' = Booted.adcs
  /\ phase' = "telemetry" /\ tick' = 0
  /\ UNCHANGED <<switch, envVars>>

Init ==
  /\ saved \in Modes
  /\ mode = Booted.mode
  /\ lcState = Booted.lcState /\ ap = Booted.ap /\ wrt = Booted.wrt
  /\ enabled = Booted.enabled /\ seq = Booted.seq
  /\ sample = Booted.sample /\ adcs = Booted.adcs
  /\ phase = "telemetry" /\ tick = 0
  /\ switch = [n \in {0, 1} |-> FALSE]
  /\ battery = 3 /\ inRegion = FALSE /\ healthy = TRUE
  /\ resets = 0 /\ stranded = FALSE

----------------------------------------------------------------------------
(* Telemetry.                                                              *)

SourceOf(w) ==
  CASE w = "WP24" -> "SAMPLE" [] w \in {"WP25", "WP26", "WP29"} -> "MGR"
    [] w \in {"WP27", "WP28"} -> "EPS" [] w = "WP30" -> "GPS"

Bit(b) == IF b THEN "TRUE" ELSE "FALSE"
Reading(w, bad) ==
  Bit(CASE w = "WP24" -> bad
        [] w = "WP25" -> mode = "SCIENCE_REBOOT"
        [] w = "WP26" -> mode = "SCIENCE"
        [] w = "WP27" -> Levels[battery] = "low"
        [] w = "WP28" -> Levels[battery] = "high"
        [] w = "WP29" -> mode = "SAFE"
        [] w = "WP30" -> inRegion)

\* The watchpoints after the given applications have reported.
Reports(S, bad) ==
  [w \in WPs |-> IF lcState # "DISABLED" /\ SourceOf(w) \in S
                 THEN Reading(w, bad) ELSE wrt[w]]

\* Commands of the executing sequences come a second closer.
Closer == [r \in Rtss |-> IF Executing(r) THEN [seq[r] EXCEPT !.wait = @ - 1] ELSE seq[r]]

\* A second begins: the position is new, the power system was asked late in
\* the last second of five, MGR is asked in every tenth and saves what it
\* reports.
Telemetry ==
  /\ phase = "telemetry"
  /\ wrt' = Reports({"GPS"} \cup (IF tick % 5 = 0 THEN {"EPS"} ELSE {})
                           \cup (IF tick = 0 THEN {"MGR"} ELSE {}), sample.bad)
  /\ saved' = IF tick = 0 THEN mode ELSE saved
  /\ seq' = Closer
  /\ phase' = "wakeup"
  /\ UNCHANGED <<mode, lcState, ap, enabled, tick, sample, switch, adcs, envVars,
                 resets, stranded>>

\* SC has no more to send.  In every fifth second the instrument application
\* asks its device and reports; it stops when the device is bad.
InstrumentTelemetry ==
  /\ phase = "wakeup" /\ Due = {}
  /\ LET asked == tick % 5 = 0 /\ sample.enabled /\ switch[0]
         bad   == IF asked THEN ~healthy ELSE sample.bad
     IN  /\ sample' = [enabled |-> sample.enabled /\ ~(asked /\ bad), bad |-> bad]
         /\ wrt' = Reports(IF tick % 5 = 0 THEN {"SAMPLE"} ELSE {}, bad)
  /\ phase' = "sample"
  /\ UNCHANGED <<mode, saved, lcState, ap, enabled, seq, tick, switch, adcs, envVars,
                 resets, stranded>>

----------------------------------------------------------------------------
(* SC sends the commands that are due, the lowest sequence first.          *)

Advanced(r) ==
  IF seq[r].next = Len(Rts(r)) THEN [seq EXCEPT ![r] = Idle]
  ELSE [seq EXCEPT ![r] = [next |-> @.next + 1, wait |-> Rts(r)[@.next + 1].delay]]

Send(r) ==
  LET c == Rts(r)[seq[r].next]
  IN  /\ phase = "wakeup" /\ Due # {} /\ r = Lowest(Due)
      /\ c.op # "restart"
      /\ seq' = IF c.op = "start" THEN Start(c.of, Advanced(r)) ELSE Advanced(r)
      /\ mode' = IF c.op = "mode" THEN c.to ELSE mode
      /\ lcState' = IF c.op = "lc" THEN c.to ELSE lcState
      /\ ap' = IF c.op = "ap" THEN [ap EXCEPT ![c.of] = c.to] ELSE ap
      /\ enabled' = IF c.op = "enable" THEN enabled \cup c.to ELSE enabled
      /\ sample' = IF c.op = "sample" THEN [sample EXCEPT !.enabled = c.to] ELSE sample
      /\ switch' = IF c.op = "switch" THEN [switch EXCEPT ![c.of] = c.to] ELSE switch
      /\ adcs' = IF c.op = "adcs" THEN c.to ELSE adcs
      /\ stranded' = (stranded /\ switch'[0])
      /\ UNCHANGED <<saved, wrt, tick, phase, envVars, resets>>

\* The last command of RTS 36.
RestartBySequence ==
  /\ phase = "wakeup" /\ Due # {} /\ Lowest(Due) = 36
  /\ Rts36[seq[36].next].op = "restart"
  /\ resets' = IF resets < 3 THEN resets + 1 ELSE resets
  /\ Boot
  /\ UNCHANGED stranded

----------------------------------------------------------------------------
(* LC samples its actionpoints; one that fails asks SC for its sequence,   *)
(* which refuses it when the sequence is executing.                        *)

Fails(a) == ap[a] = "ACTIVE" /\ EvaluateRPN(Equation(a), wrt) = "FAIL"
Fires(a) == lcState = "ACTIVE" /\ Fails(a)

SampleAPs ==
  /\ phase = "sample"
  /\ ap' = [a \in APs |-> IF Fires(a) THEN "PASSIVE" ELSE ap[a]]
  /\ seq' = [r \in Rtss |-> IF r \in APs /\ ap'[r] # ap[r] THEN Start(r, seq)[r]
                            ELSE seq[r]]
  /\ phase' = "telemetry" /\ tick' = (tick + 1) % 10
  /\ UNCHANGED <<mode, saved, lcState, wrt, enabled, sample, switch, adcs,
                 envVars, resets, stranded>>

----------------------------------------------------------------------------
(* Outside: the orbit, the battery, the instrument and the ground.         *)

Reported == \A w \in WPs : wrt[w] = Reading(w, sample.bad)
Calm == phase = "telemetry" /\ Quiet(Undisturbed) /\ (Patient => Reported)

Environment ==
  /\ Calm
  /\ \/ /\ battery' \in {battery - 1, battery + 1} \cap (1 .. Len(Levels))
        /\ UNCHANGED <<inRegion, healthy>>
     \/ inRegion' = ~inRegion /\ UNCHANGED <<battery, healthy>>
     \/ healthy' = ~healthy /\ UNCHANGED <<battery, inRegion>>
  /\ UNCHANGED <<fswVars, tick, phase, switch, resets, stranded>>

Ground(m) ==
  /\ Calm
  /\ mode' = m /\ mode # m
  /\ resets' = 0
  /\ UNCHANGED <<saved, lcState, ap, wrt, enabled, seq, tick, phase, sample,
                 switch, adcs, envVars, stranded>>

SetMode    == \E m \in {"SAFE", "SCIENCE"} : Ground(m)
RebootPrep == Ground(IF mode \in {"SCIENCE", "SCIENCE_REBOOT"} THEN "SCIENCE_REBOOT"
                     ELSE "SAFE_REBOOT")

\* The flight software restarts by itself or by a command of the ground.
Restart ==
  /\ Resets /\ phase = "telemetry"
  /\ Boot
  /\ stranded' = switch[0]
  /\ UNCHANGED resets

Second == Telemetry \/ (\E r \in Rtss : Send(r)) \/ RestartBySequence
          \/ InstrumentTelemetry \/ SampleAPs

Next == Second \/ Environment \/ SetMode \/ RebootPrep \/ Restart
Spec == Init /\ [][Next]_vars

\* The schedule wakes the applications up every second.
LiveSpec == Spec /\ WF_vars(Second)

----------------------------------------------------------------------------
\* Every sequence is over, every change has been reported and no actionpoint
\* is about to ask for a sequence.
AtRest ==
  /\ phase = "telemetry" /\ Quiet(Rtss)
  /\ Reported
  /\ sample.enabled => (healthy \/ sample.bad)
  /\ \A a \in APs : ~Fails(a)

\* Once all is quiet the instrument has power only in science mode, with a
\* battery that is not low, over the region and with the attitude that the
\* star tracker gives: whichever sequence was last (27, 29, 30, 33, 36) left
\* switches and attitude as its table intends.  A restart that RTS 36 did not
\* order leaves the switches as they were, which is told apart.
InstrumentJustified ==
  AtRest /\ switch[0] /\ ~stranded =>
    /\ mode \in {"SCIENCE", "SCIENCE_REBOOT"}
    /\ Levels[battery] # "low" /\ inRegion
    /\ switch[1] /\ adcs = "INERTIAL"

\* Once all is quiet the actionpoints wait for what can happen next: in
\* science mode the exit, the fault of the instrument, the loss or the return
\* of power and, with power, the entry or the end of the region, never both;
\* in safe mode the way back to science but not the entry of a region.
Armed ==
  AtRest =>
    CASE mode = "SCIENCE" ->
           /\ ap[29] = "ACTIVE" /\ ap[36] = "ACTIVE"
           /\ (ap[27] = "ACTIVE") # (ap[28] = "ACTIVE")
           /\ ap[27] = "ACTIVE" => (ap[30] = "ACTIVE") # (ap[33] = "ACTIVE")
           /\ ap[28] = "ACTIVE" => ap[30] # "ACTIVE" /\ ap[33] # "ACTIVE"
      [] mode = "SAFE" -> ap[26] = "ACTIVE" /\ ap[30] # "ACTIVE"
      [] OTHER -> TRUE

\* A device that stays broken restarts the flight software at most twice after
\* the ground has set a mode: MGR starts in a safe mode because it had saved
\* SCIENCE before actionpoint 36 could see it.  Twice, because a REBOOT_PREP
\* in science mode makes the first start a planned return to science.
NoResetLoop == resets <= 2

\* Science with good power over the region ends with the instrument on: no
\* request that SC refused and no actionpoint left passive is in the way.
Entered ==
  <>[](mode = "SCIENCE" /\ Levels[battery] = "high" /\ inRegion /\ healthy)
    => <>[](switch[0] /\ switch[1] /\ adcs = "INERTIAL")

\* A spacecraft that the ground keeps in safe mode switches the instrument off.
Left ==
  <>[](mode = "SAFE") => <>[](switch[0] => stranded)

\* The promise of Scenario_Controlling_ADCS_During_Science: leaving active
\* science by command of the ground ends in a state known to be safe.  RTS 29
\* does not stop an RTS 30 that is executing, whose later commands undo it.
SafeOutsideScience ==
  AtRest /\ mode = "SAFE" => ~switch[0] /\ ~switch[1] /\ adcs = "SUNSAFE"

==============================================================================
