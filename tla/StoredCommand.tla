---------------------------- MODULE StoredCommand ----------------------------
(***************************************************************************)
(* The stored command application, SC (fsw/apps/sc/fsw/src): one absolute- *)
(* time processor (ATP) that runs one of two absolute-time sequences (ATS) *)
(* at a time, and a relative-time processor (RTP) that interleaves any     *)
(* number of relative-time sequences (RTS).  SC is one task: it takes one  *)
(* message at a time from its pipe and runs it to the end.  On the 1 Hz    *)
(* wakeup it loops, one stored command per pass, until nothing more is due *)
(* or the limit for a second is reached; pc is the point in that loop.     *)
(*                                                                         *)
(* Abstracted: a stored command is a time and what SC makes of it, an RTS  *)
(* table the sequence of its delays, a size one unit per entry; counters   *)
(* and events are left out, so a request that SC rejects changes nothing.  *)
(* Tables reach SC through the table services, which validate them first.  *)
(***************************************************************************)
EXTENDS AtsTable

CONSTANTS
  NumberOfRts,      \* SC_NUMBER_OF_RTS
  MaxCmdsPerSec,    \* SC_MAX_CMDS_PER_SEC
  AtsBuffSize,      \* SC_ATS_BUFF_SIZE32, in entries
  AutoStart,        \* RTS_ID_AUTO_POWER_ON or RTS_ID_AUTO_PROCESSOR, by reset
  AtsLoads,         \* ATS tables the ground may load, none of them empty
  AppendLoads,      \* append tables the ground may load, none of them empty
  RtsLoads,         \* RTS tables the ground may load: sequences of delays
  JumpTimes,        \* times the ground may jump an ATS to
  Horizon,          \* bound on the clock: the last second of a run
  ReloadExecuting   \* whether the ground may load over a running sequence

AtsIds == {1, 2}
RtsIds == 1 .. NumberOfRts

ASSUME ScAssumption ==
  /\ NumberOfRts \in Nat
  /\ MaxCmdsPerSec \in Nat \ {0}
  /\ AtsBuffSize \in Nat
  /\ AutoStart \in RtsIds \cup {0}
  /\ Horizon \in Times
  /\ ReloadExecuting \in BOOLEAN
ASSUME LoadAssumption ==
  /\ AtsLoads \subseteq AtsTables /\ AppendLoads \subseteq AtsTables
  /\ RtsLoads \subseteq Seq(Nat)
  /\ JumpTimes \subseteq Times
\* The mission's times: the first half of the clock's range, so that none is
\* taken for a rollover.
ASSUME NearAssumption ==
  /\ Horizon < HalfRange
  /\ \A tbl \in AtsLoads \cup AppendLoads : NearTimes(tbl)

VARIABLES
  now,        \* CurrentTime, read at the start of each request
  pc,         \* where the wakeup loop is; "idle" between requests
  numCmds,    \* NumCmdsSec
  nextProc,   \* NextProcNumber
  atp,        \* AtsCtrlBlck, and NextCmdTime[SC_ATP]
  rtp,        \* RtsCtrlBlck, and NextCmdTime[SC_RTP]
  atsTbl,     \* the two ATS tables
  atsStatus,  \* AtsCmdStatusTbl
  atsSize,    \* AtsInfoTbl.AtsSize
  appendTbl,  \* the append table
  rtsTbl,     \* the RTS tables
  rtsInfo,    \* RtsInfoTbl
  autoStart,  \* AutoStartRTS
  \* history, not in the code:
  out,        \* the message sent in this pass of the loop, and when it was due
  burst,      \* messages sent since the wakeup
  sent        \* times each ATS command was sent since it was loaded, up to 2

loopVars == <<pc, numCmds, nextProc, out, burst>>
atsVars  == <<atp, atsTbl, atsStatus, atsSize, appendTbl, sent>>
rtsVars  == <<rtp, rtsTbl, rtsInfo, autoStart>>
vars     == <<now, loopVars, atsVars, rtsVars>>

Status    == {"EMPTY", "LOADED", "EXECUTED", "SKIPPED", "FAILED_DISTRIB"}
RtsStates == {"EMPTY", "LOADED", "EXECUTING"}
NoMsg     == [proc |-> "NONE", kind |-> "none", pos |-> 0, due |-> 0]

TypeOK ==
  /\ now \in Times
  /\ pc \in {"idle", "switch", "process", "update"}
  /\ numCmds \in 0 .. MaxCmdsPerSec
  /\ nextProc \in {"NONE", "ATP", "RTP"}
  /\ atp \in [state : {"IDLE", "EXECUTING"}, ats : AtsIds \cup {0},
              cmd : CmdNums \cup {0}, ptr : Nat, pend : BOOLEAN, next : Times]
  /\ rtp \in [num : RtsIds \cup {0}, active : Nat, next : Times]
  /\ atsTbl \in [AtsIds -> AtsTables]
  /\ atsStatus \in [AtsIds -> [CmdNums -> Status]]
  /\ atsSize \in [AtsIds -> 0 .. AtsBuffSize]
  /\ appendTbl \in AtsTables
  /\ rtsTbl \in [RtsIds -> Seq(Nat)]
  /\ rtsInfo \in [RtsIds -> [status : RtsStates, disabled : BOOLEAN,
                             next : Times, ptr : Nat]]
  /\ autoStart \in RtsIds \cup {0}
  /\ out \in [proc : {"NONE", "ATP", "RTP"},
              kind : {"none", "cmd", "corrupt", "rts"}, pos : Nat, due : Times]
  /\ burst \in Nat
  /\ sent \in [AtsIds -> [CmdNums -> 0 .. 2]]

\* SC_AppInit and SC_InitTables: what they set each part of the state to.
NoTable     == [c \in {} |-> 0]
InitAtp     == [state |-> "IDLE", ats |-> 0, cmd |-> 0, ptr |-> 0,
                pend |-> FALSE, next |-> MaxTime]
InitRtp     == [num |-> 0, active |-> 0, next |-> MaxTime]
InitStatus  == [c \in CmdNums |-> "EMPTY"]
InitRtsInfo == [status |-> "EMPTY", disabled |-> TRUE, next |-> MaxTime, ptr |-> 1]
InitSent    == [c \in CmdNums |-> 0]

Init ==
  /\ now = 0
  /\ pc = "idle" /\ numCmds = 0 /\ nextProc = "NONE" /\ out = NoMsg /\ burst = 0
  /\ atp = InitAtp
  /\ rtp = InitRtp
  /\ atsTbl = [a \in AtsIds |-> NoTable]
  /\ atsStatus = [a \in AtsIds |-> InitStatus]
  /\ atsSize = [a \in AtsIds |-> 0]
  /\ appendTbl = NoTable
  /\ rtsTbl = [r \in RtsIds |-> <<>>]
  /\ rtsInfo = [r \in RtsIds |-> InitRtsInfo]
  /\ autoStart = AutoStart
  /\ sent = [a \in AtsIds |-> InitSent]

----------------------------------------------------------------------------
(* The clock, and the reset of the application.                            *)

Tick ==
  /\ pc = "idle"
  /\ now < Horizon
  /\ now' = now + 1
  /\ UNCHANGED <<loopVars, atsVars, rtsVars>>

\* A reset at any point of the loop: everything but the clock starts over.
Reset ==
  /\ pc' = "idle" /\ numCmds' = 0 /\ nextProc' = "NONE" /\ out' = NoMsg /\ burst' = 0
  /\ atp' = InitAtp
  /\ rtp' = InitRtp
  /\ atsTbl' = [a \in AtsIds |-> NoTable]
  /\ atsStatus' = [a \in AtsIds |-> InitStatus]
  /\ atsSize' = [a \in AtsIds |-> 0]
  /\ appendTbl' = NoTable
  /\ rtsTbl' = [r \in RtsIds |-> <<>>]
  /\ rtsInfo' = [r \in RtsIds |-> InitRtsInfo]
  /\ autoStart' = AutoStart
  /\ sent' = [a \in AtsIds |-> InitSent]
  /\ UNCHANGED now

----------------------------------------------------------------------------
(* The ATS control block.                                                  *)

Running(a)   == atp.state = "EXECUTING" /\ atp.ats = a
OtherAts     == 3 - atp.ats              \* SC_ToggleAtsIndex
KillAts(p)   == [p EXCEPT !.state = "IDLE", !.next = MaxTime]
CancelAts(p) == [KillAts(p) EXCEPT !.pend = FALSE]

\* Point the control block at the i-th command of table tbl of ATS a.
PointAt(p, a, tbl, i) ==
  LET c == BuildTimeIndexTable(tbl)[i]
  IN  [p EXCEPT !.ats = a, !.cmd = c, !.ptr = i, !.next = tbl[c].time]

Begins(tbl, t) == Passed(tbl, t) < NumCommands(tbl)

\* Variant with a bug, for sensitivity: a jump or an append of the running ATS
\* moves to another command and leaves the cached time.
BeginAtsKeepsTime(p, a, tbl, t, state) ==
  IF Begins(tbl, t)
  THEN [PointAt(p, a, tbl, Passed(tbl, t) + 1) EXCEPT
          !.state = state, !.next = IF p.state = "EXECUTING" THEN p.next ELSE @]
  ELSE KillAts(p)

\* SC_BeginAts at time t: the commands that are past become SKIPPED,
\* whatever they were; if all of them are past the ATP is stopped.
BeginAts(p, a, tbl, t, state) ==
  IF Begins(tbl, t)
  THEN [PointAt(p, a, tbl, Passed(tbl, t) + 1) EXCEPT !.state = state]
  ELSE KillAts(p)
SkipPassed(status, tbl, t) ==
  [c \in CmdNums |-> IF c \in PassedCommands(tbl, t) THEN "SKIPPED" ELSE status[c]]

\* Variant with a bug, for sensitivity: the last command is not followed by a
\* stop.
GetNextAtsCommandStays(p) ==
  CASE p.state = "STARTING" -> [p EXCEPT !.state = "EXECUTING"]
    [] p.state = "EXECUTING" ->
         IF p.ptr < NumCommands(atsTbl[p.ats])
         THEN PointAt(p, p.ats, atsTbl[p.ats], p.ptr + 1)
         ELSE p
    [] OTHER -> p

\* SC_GetNextAtsCommand
GetNextAtsCommand(p) ==
  CASE p.state = "STARTING" -> [p EXCEPT !.state = "EXECUTING"]
    [] p.state = "EXECUTING" ->
         IF p.ptr < NumCommands(atsTbl[p.ats])
         THEN PointAt(p, p.ats, atsTbl[p.ats], p.ptr + 1)
         ELSE CancelAts(p)
    [] OTHER -> p

----------------------------------------------------------------------------
(* The wakeup loop: SC_ServiceSwitchPend, then the processor that is next, *)
(* then SC_UpdateNextTime.                                                 *)

Wakeup ==
  /\ pc = "idle"
  /\ pc' = "switch"
  /\ UNCHANGED <<now, numCmds, nextProc, out, burst, atsVars, rtsVars>>

\* Variant with a bug, for sensitivity: switch at once.
SwitchDueAtOnce == atp.pend

SwitchDue == atp.pend /\ Later(atp.next, now)
CanSwitch == atp.state = "EXECUTING" /\ NumCommands(atsTbl[OtherAts]) > 0

ServiceSwitchPend ==
  /\ pc = "switch" /\ SwitchDue /\ CanSwitch
  /\ LET new   == OtherAts
         start == ComputeAbsTime(now, 1)
     IN  /\ atp' = [BeginAts(KillAts(atp), new, atsTbl[new], start, "EXECUTING")
                      EXCEPT !.pend = FALSE]
         /\ atsStatus' = [atsStatus EXCEPT ![new] = SkipPassed(@, atsTbl[new], start)]
  /\ pc' = "process"
  /\ UNCHANGED <<now, numCmds, nextProc, out, burst, atsTbl, atsSize, appendTbl,
                 sent, rtsVars>>

DropSwitchPend ==
  /\ pc = "switch" /\ SwitchDue /\ ~CanSwitch
  /\ atp' = [atp EXCEPT !.pend = FALSE]
  /\ pc' = "process"
  /\ UNCHANGED <<now, numCmds, nextProc, out, burst, atsTbl, atsStatus, atsSize,
                 appendTbl, sent, rtsVars>>

NoSwitch ==
  /\ pc = "switch" /\ ~SwitchDue
  /\ pc' = "process"
  /\ UNCHANGED <<now, numCmds, nextProc, out, burst, atsVars, rtsVars>>

\* SC_ProcessAtpCmd.
AtpDue ==
  /\ pc = "process" /\ nextProc = "ATP" /\ atp.state = "EXECUTING"
  /\ ~Later(atp.next, now)

\* Variant with a bug, for sensitivity: send what is not to be skipped.
AtpCmdNotSkipped == atsStatus[atp.ats][atp.cmd] # "SKIPPED"

AtpCmdLoaded == atsStatus[atp.ats][atp.cmd] = "LOADED"
AtpEntry     == atsTbl[atp.ats][atp.cmd]

\* Any command but a switch: sent whether or not its checksum is right.  A
\* failure on the software bus aborts the ATS.
AtpSend(ok) ==
  /\ AtpDue /\ AtpCmdLoaded /\ AtpEntry.kind # "switch"
  /\ atsStatus' = [atsStatus EXCEPT ![atp.ats][atp.cmd] =
                     IF ok THEN "EXECUTED" ELSE "FAILED_DISTRIB"]
  /\ atp' = IF ok THEN GetNextAtsCommand(atp) ELSE CancelAts(atp)
  /\ numCmds' = numCmds + 1
  /\ burst' = burst + 1
  /\ out' = [proc |-> "ATP", kind |-> AtpEntry.kind, pos |-> atp.ptr,
             due |-> AtpEntry.time]
  /\ sent' = [sent EXCEPT ![atp.ats][atp.cmd] = IF @ = 0 THEN 1 ELSE 2]
  /\ pc' = "update"
  /\ UNCHANGED <<now, nextProc, atsTbl, atsSize, appendTbl, rtsVars>>

\* A switch command in the ATS: SC_InlineSwitch.
InlineSwitch ==
  /\ AtpDue /\ AtpCmdLoaded /\ AtpEntry.kind = "switch"
  /\ LET new    == OtherAts
         loaded == NumCommands(atsTbl[new]) > 0
         ok     == loaded /\ Begins(atsTbl[new], now)
         p      == IF loaded
                   THEN BeginAts(KillAts(atp), new, atsTbl[new], now, "STARTING")
                   ELSE atp
     IN  /\ atp' = GetNextAtsCommand([p EXCEPT !.pend = FALSE])
         /\ atsStatus' = [atsStatus EXCEPT
              ![new] = IF loaded THEN SkipPassed(@, atsTbl[new], now) ELSE @,
              ![atp.ats][atp.cmd] = IF ok THEN "EXECUTED" ELSE "FAILED_DISTRIB"]
  /\ numCmds' = numCmds + 1
  /\ pc' = "update"
  /\ UNCHANGED <<now, nextProc, out, burst, atsTbl, atsSize, appendTbl, sent,
                 rtsVars>>

\* Executed, skipped or failed before: passed over without counting.
AtpPassOver ==
  /\ AtpDue /\ ~AtpCmdLoaded
  /\ atp' = GetNextAtsCommand(atp)
  /\ pc' = "update"
  /\ UNCHANGED <<now, numCmds, nextProc, out, burst, atsTbl, atsStatus, atsSize,
                 appendTbl, sent, rtsVars>>

\* SC_KillRts on each of the sequences in R.
Executing == {r \in RtsIds : rtsInfo[r].status = "EXECUTING"}
KillRts(R) ==
  /\ rtsInfo' = [r \in RtsIds |->
       IF r \in R \cap Executing
       THEN [rtsInfo[r] EXCEPT !.status = "LOADED", !.next = MaxTime]
       ELSE rtsInfo[r]]
  /\ rtp' = [rtp EXCEPT !.active =
       LET n == Cardinality(R \cap Executing) IN IF @ > n THEN @ - n ELSE 0]

\* Variant with a bug, for sensitivity: the processor that is next is due.
RtpNext == pc = "process" /\ nextProc = "RTP" /\ rtp.num \in Executing

RtpDue ==
  /\ pc = "process" /\ nextProc = "RTP" /\ rtp.next <= now
  /\ rtp.num \in Executing

\* SC_GetNextRtsCommand: the delay of the next command counts from now; after
\* the last one the sequence ends.
GetNextRtsCommand(r) ==
  LET next == rtsInfo[r].ptr + 1
  IN  IF next \in DOMAIN rtsTbl[r]
      THEN /\ rtsInfo' = [rtsInfo EXCEPT
                ![r].ptr  = next,
                ![r].next = ComputeAbsTime(now, rtsTbl[r][next])]
           /\ UNCHANGED rtp
      ELSE KillRts({r})

\* SC_ProcessRtpCommand.  An empty RTS has nothing the bus would take, and a
\* failure on the bus stops the sequence.
RtpSend(ok) ==
  /\ RtpDue
  /\ LET r == rtp.num
     IN  /\ IF ok THEN rtsInfo[r].ptr \in DOMAIN rtsTbl[r] /\ GetNextRtsCommand(r)
                  ELSE KillRts({r})
         /\ out' = [proc |-> "RTP", kind |-> "rts", pos |-> rtsInfo[r].ptr,
                    due |-> rtsInfo[r].next]
  /\ numCmds' = numCmds + 1
  /\ burst' = burst + 1
  /\ pc' = "update"
  /\ UNCHANGED <<now, nextProc, atsVars, rtsTbl, autoStart>>

NothingDue ==
  /\ pc = "process" /\ ~AtpDue /\ ~RtpDue
  /\ pc' = "update"
  /\ UNCHANGED <<now, numCmds, nextProc, out, burst, atsVars, rtsVars>>

\* Variant with a bug, for sensitivity: the lowest number first, whatever its time.
LowestRts ==
  IF Executing = {}
  THEN [rtp EXCEPT !.num = 0, !.next = MaxTime]
  ELSE LET first == CHOOSE r \in Executing : \A q \in Executing : r <= q
       IN  [rtp EXCEPT !.num = first, !.next = rtsInfo[first].next]

\* SC_GetNextRtsTime: the earliest executing RTS, the lowest number first.
GetNextRtsTime ==
  IF Executing = {}
  THEN [rtp EXCEPT !.num = 0, !.next = MaxTime]
  ELSE LET first == CHOOSE r \in Executing : \A q \in Executing :
                      \/ rtsInfo[r].next < rtsInfo[q].next
                      \/ rtsInfo[r].next = rtsInfo[q].next /\ r <= q
       IN  [rtp EXCEPT !.num = first, !.next = rtsInfo[first].next]

\* Variant with a bug, for sensitivity: one command too many.
LimitExceeded == numCmds > MaxCmdsPerSec

LimitReached == numCmds >= MaxCmdsPerSec

\* SC_UpdateNextTime, and the test at the end of the loop.
UpdateNextTime ==
  /\ pc = "update"
  /\ rtp' = GetNextRtsTime
  /\ nextProc' = IF rtp'.num > 0 /\ rtp'.next < atp.next THEN "RTP"
                 ELSE IF atp.state = "EXECUTING" THEN "ATP" ELSE "NONE"
  /\ LET again == /\ \/ nextProc' = "ATP" /\ atp.next <= now
                     \/ nextProc' = "RTP" /\ rtp'.next <= now
                  /\ ~LimitReached
     IN  IF again THEN pc' = "switch" /\ UNCHANGED <<numCmds, burst>>
                  ELSE pc' = "idle" /\ numCmds' = 0 /\ burst' = 0
  /\ out' = NoMsg
  /\ UNCHANGED <<now, atsVars, rtsTbl, rtsInfo, autoStart>>

----------------------------------------------------------------------------
(* Requests that come over the pipe: SC_ProcessRequest, SC_ProcessCommand.  *)

AtsRequest == pc = "idle" /\ UNCHANGED <<now, loopVars, rtsVars>>
RtsRequest == pc = "idle" /\ UNCHANGED <<now, loopVars, atsVars>>

StartAts(a) ==
  /\ AtsRequest
  /\ atp.state = "IDLE" /\ NumCommands(atsTbl[a]) > 0
  /\ atp' = BeginAts(atp, a, atsTbl[a], now, "EXECUTING")
  /\ atsStatus' = [atsStatus EXCEPT ![a] = SkipPassed(@, atsTbl[a], now)]
  /\ UNCHANGED <<atsTbl, atsSize, appendTbl, sent>>

StopAts ==
  /\ AtsRequest
  /\ atp' = CancelAts(atp)
  /\ UNCHANGED <<atsTbl, atsStatus, atsSize, appendTbl, sent>>

\* The flag is cleared when the request is rejected.
GroundSwitch ==
  /\ AtsRequest
  /\ atp' = [atp EXCEPT !.pend = CanSwitch]
  /\ UNCHANGED <<atsTbl, atsStatus, atsSize, appendTbl, sent>>

\* Unlike a start, a jump leaves what was already executed or skipped as it
\* is.
JumpAts(t) ==
  /\ AtsRequest
  /\ atp.state = "EXECUTING"
  /\ LET tbl == atsTbl[atp.ats]
     IN  /\ atsStatus' = [atsStatus EXCEPT ![atp.ats] = [c \in CmdNums |->
              IF c \in PassedCommands(tbl, t) /\ @[c] = "LOADED"
              THEN "SKIPPED" ELSE @[c]]]
         /\ atp' = BeginAts(atp, atp.ats, tbl, t, "EXECUTING")
  /\ UNCHANGED <<atsTbl, atsSize, appendTbl, sent>>

\* Variant with a bug, for sensitivity: room is counted by commands.
AppendFitsCommands(a) ==
  NumCommands(atsTbl[a]) + NumCommands(appendTbl) <= AtsBuffSize

\* A replaced command still takes up its room in the table.
AppendFits(a) == atsSize[a] + NumCommands(appendTbl) <= AtsBuffSize

\* SC_AppendAtsCmd and SC_ProcessAppend: the append table is merged in, its
\* commands are loaded again, and a running ATS is begun again at now.
AppendAts(a) ==
  /\ AtsRequest
  /\ NumCommands(atsTbl[a]) > 0 /\ NumCommands(appendTbl) > 0
  /\ AppendFits(a)
  /\ LET new    == DOMAIN appendTbl
         tbl    == [c \in new \cup DOMAIN atsTbl[a] |->
                      IF c \in new THEN appendTbl[c] ELSE atsTbl[a][c]]
         status == [c \in CmdNums |->
                      IF c \in new THEN "LOADED" ELSE atsStatus[a][c]]
     IN  /\ atsTbl' = [atsTbl EXCEPT ![a] = tbl]
         /\ atsStatus' = [atsStatus EXCEPT ![a] =
              IF Running(a) THEN SkipPassed(status, tbl, now) ELSE status]
         /\ atp' = IF Running(a) THEN BeginAts(atp, a, tbl, now, "EXECUTING") ELSE atp
         /\ sent' = [sent EXCEPT ![a] =
              [c \in CmdNums |-> IF c \in new THEN 0 ELSE @[c]]]
  /\ atsSize' = [atsSize EXCEPT ![a] = @ + NumCommands(appendTbl)]
  /\ UNCHANGED <<appendTbl>>

\* SC_ManageTable for an ATS (SC_LoadAts), the append table
\* (SC_UpdateAppend) and an RTS (SC_LoadRts).  None of them looks at what is
\* running.
LoadAts(a, tbl) ==
  /\ AtsRequest
  /\ Running(a) => ReloadExecuting
  /\ NumCommands(tbl) <= AtsBuffSize
  /\ atsTbl' = [atsTbl EXCEPT ![a] = tbl]
  /\ atsStatus' = [atsStatus EXCEPT ![a] =
       [c \in CmdNums |-> IF c \in DOMAIN tbl THEN "LOADED" ELSE "EMPTY"]]
  /\ atsSize' = [atsSize EXCEPT ![a] = NumCommands(tbl)]
  /\ sent' = [sent EXCEPT ![a] = [c \in CmdNums |-> 0]]
  /\ UNCHANGED <<atp, appendTbl>>

UpdateAppend(tbl) ==
  /\ AtsRequest
  /\ appendTbl' = tbl
  /\ UNCHANGED <<atp, atsTbl, atsStatus, atsSize, sent>>

LoadRts(r, tbl) ==
  /\ RtsRequest
  /\ r \in Executing => ReloadExecuting
  /\ rtsTbl' = [rtsTbl EXCEPT ![r] = tbl]
  /\ rtsInfo' = [rtsInfo EXCEPT ![r] =
       [status |-> "LOADED", disabled |-> TRUE, next |-> 0, ptr |-> 1]]
  /\ UNCHANGED <<rtp, autoStart>>

\* Variant with a bug, for sensitivity: start what is already executing.
StartableEnabled(R) == {r \in R : ~rtsInfo[r].disabled}

\* Start each sequence of R that is loaded and enabled.
FirstDelay(r) == IF rtsTbl[r] = <<>> THEN 0 ELSE rtsTbl[r][1]
Startable(R) == {r \in R : ~rtsInfo[r].disabled /\ rtsInfo[r].status = "LOADED"}
BeginRts(R) ==
  /\ RtsRequest
  /\ rtsInfo' = [r \in RtsIds |->
       IF r \in Startable(R)
       THEN [rtsInfo[r] EXCEPT !.status = "EXECUTING", !.ptr = 1,
                               !.next = ComputeAbsTime(now, FirstDelay(r))]
       ELSE rtsInfo[r]]
  /\ rtp' = [rtp EXCEPT !.active = @ + Cardinality(Startable(R))]
  /\ UNCHANGED <<rtsTbl, autoStart>>

\* An empty RTS cannot be started on its own, but can be within a group.
StartRts(r)       == rtsTbl[r] # <<>> /\ BeginRts({r})
StartRtsGrp(f, l) == BeginRts(f .. l)

StopRts(r)       == RtsRequest /\ KillRts({r}) /\ UNCHANGED <<rtsTbl, autoStart>>
StopRtsGrp(f, l) == RtsRequest /\ KillRts(f .. l) /\ UNCHANGED <<rtsTbl, autoStart>>

\* ENABLE and DISABLE_RTS(_GRP), loaded or not.
SetDisabled(R, d) ==
  /\ RtsRequest
  /\ rtsInfo' = [r \in RtsIds |->
       IF r \in R THEN [rtsInfo[r] EXCEPT !.disabled = d] ELSE rtsInfo[r]]
  /\ UNCHANGED <<rtp, rtsTbl, autoStart>>

\* The first housekeeping request enables the automatic RTS and sends SC
\* itself the command to start it, which StartRts then handles.
SendHk ==
  /\ RtsRequest
  /\ autoStart # 0
  /\ rtsInfo' = IF rtsInfo[autoStart].status = "LOADED"
                THEN [rtsInfo EXCEPT ![autoStart].disabled = FALSE] ELSE rtsInfo
  /\ autoStart' = 0
  /\ UNCHANGED <<rtp, rtsTbl>>

----------------------------------------------------------------------------
AtsCommand ==
  \/ \E a \in AtsIds : StartAts(a) \/ AppendAts(a)
  \/ \E a \in AtsIds, tbl \in AtsLoads : LoadAts(a, tbl)
  \/ \E tbl \in AppendLoads : UpdateAppend(tbl)
  \/ \E t \in JumpTimes : JumpAts(t)
  \/ StopAts
  \/ GroundSwitch

RtsCommand ==
  \/ \E r \in RtsIds : StartRts(r) \/ StopRts(r)
  \/ \E f, l \in RtsIds : f <= l /\ (StartRtsGrp(f, l) \/ StopRtsGrp(f, l))
  \/ \E f, l \in RtsIds, d \in BOOLEAN : SetDisabled(f .. l, d)
  \/ \E r \in RtsIds, tbl \in RtsLoads : LoadRts(r, tbl)
  \/ SendHk

Loop ==
  \/ ServiceSwitchPend \/ DropSwitchPend \/ NoSwitch
  \/ \E ok \in BOOLEAN : AtpSend(ok) \/ RtpSend(ok)
  \/ InlineSwitch \/ AtpPassOver \/ NothingDue
  \/ UpdateNextTime

Next == Tick \/ Reset \/ Wakeup \/ Loop \/ AtsCommand \/ RtsCommand

Spec == Init /\ [][Next]_vars

\* The wakeup comes again and again and the task runs each request to its
\* end (weak fairness); the clock advances between requests, however many
\* of them there are (strong fairness: it is not the task's to stop it).
Fairness == WF_vars(Wakeup) /\ WF_vars(Loop) /\ SF_vars(Tick)
LiveSpec == Spec /\ Fairness

----------------------------------------------------------------------------
(* Properties.                                                             *)

\* No command of an ATS is handed to the software bus twice for one load,
\* whatever starts, jumps, switches and appends happen in between: it goes
\* out only while it is LOADED, and nothing but a load makes it LOADED.
AtMostOnce == \A a \in AtsIds, c \in CmdNums : sent[a][c] <= 1

\* While an ATS runs, the cached position is the command's place in the time
\* index, the cached time is that command's, and every command still waiting
\* comes no earlier in time, and no earlier in number within its second:
\* nothing is sent out of order or left behind.  Loading over the running
\* ATS is excepted.
AtpInOrder ==
  atp.state = "EXECUTING" /\ ~ReloadExecuting =>
    LET tbl == atsTbl[atp.ats]
    IN  /\ atp.ptr \in 1 .. NumCommands(tbl)
        /\ atp.cmd = BuildTimeIndexTable(tbl)[atp.ptr]
        /\ atp.next = tbl[atp.cmd].time
        /\ \A c \in DOMAIN tbl : atsStatus[atp.ats][c] = "LOADED" =>
             tbl[c].time > atp.next \/ (tbl[c].time = atp.next /\ c >= atp.cmd)

\* No ATS command goes out before its time, although the loop decides on the
\* time cached with the control block (NextCmdTime), which starts, jumps,
\* appends, switches and loads in between may have outdated.
AtsNotEarly == out.proc = "ATP" /\ ~ReloadExecuting => out.due <= now

\* No RTS command after the first goes out before its time, although the loop
\* decides on the sequence and the time that were cached at the last wakeup.
\* (The first may: an RTS that is stopped and started again between two
\* wakeups is due at the time cached for its old start.)
RtsNotEarly == out.proc = "RTP" /\ out.pos > 1 => out.due <= now

\* No more than SC_MAX_CMDS_PER_SEC commands go out on one wakeup, whatever
\* the mix of ATS and RTS commands due.
RateLimit == burst <= MaxCmdsPerSec

\* The number of active RTS that telemetry reports is the number executing,
\* whatever starts, stops, completions and failures happened.
ActiveCount == ~ReloadExecuting => rtp.active = Cardinality(Executing)

\* When a pending switch is serviced, the ATS that is left has sent or given
\* up every command due by now and the other one begins after now: the
\* commands the two have in common are neither sent twice nor missed.
Switching == pc = "switch" /\ pc' = "process" /\ atp'.ats # atp.ats
SafeSwitch ==
  [][Switching /\ ~ReloadExecuting =>
       /\ \A c \in DOMAIN atsTbl[atp.ats] :
            atsStatus[atp.ats][c] = "LOADED" => atsTbl[atp.ats][c].time > now
       /\ atp'.next > now]_vars

\* Every wakeup comes to an end: each pass of the loop sends a command
\* against the limit, or moves the ATP forward, or finds nothing due.
WakeupEnds == pc # "idle" ~> pc = "idle"

\* An RTS whose next command is due before the clock's last second sends it
\* or is stopped: neither another sequence nor the ATP, which goes first in a
\* tie, can hold it up for ever.
RtsProgress ==
  \A r \in RtsIds, t \in 0 .. Horizon - 1 :
    (r \in Executing /\ rtsInfo[r].next = t) ~>
      ~(r \in Executing /\ rtsInfo[r].next = t)

==============================================================================
