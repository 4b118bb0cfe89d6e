# NOS3 flight software: TLA+ models, checks and proofs

NOS3 is a small-satellite simulator around NASA's core Flight System (cFS).  This
directory models the flight software that decides what the spacecraft does on its own and
the services it stands on: the mode manager, which carries the spacecraft mode through
resets; the stored command application, which runs command sequences with nobody on the
line; the limit checker, which starts those sequences; the science scenario that the
mission's tables make of the three; and below them the scheduler, the software bus and the
table services.  Each module is translated from the C sources; the line ranges are in
`PROJECT.json` under `map`.

    tlc -workers 2 -config MCMgr.cfg MCMgr              # model-check (see "Runs")
    tlapm StoredCommandProofs.tla                       # check proofs (see "Proofs")

## 1. Inventory

### 1.1 How the system is put together

Every flight application is one task (some with a child task) that waits on a software
bus pipe and handles one message at a time.  The scheduler sends the wakeup and
housekeeping messages, once a second or faster.  Applications talk only through the
bus, through tables that the table services load and activate, and through files.

    ground --- CI ----+                                    +--- DS, TO ---> ground, files
                      v                                    ^
    SCH --wakeup--> [ software bus (SB) ] <--telemetry-- components, EPS, ADCS
                      ^        |     ^
       starts RTS     |        v     |  set mode, science status
    LC --action point-+      SC -----+--> MGR <--> /data/mgr.bin
       (watches EPS, MGR...)    |
                               +--> the commands in the ATS and RTS tables

The mission loop runs through three of them: LC watches telemetry (battery voltage,
MGR's mode and region settings) and asks SC to start an RTS; the RTS commands the
instrument, MGR and LC itself; MGR's telemetry feeds LC again.

### 1.2 Components

For each: the state it keeps, its operations, what is hard, what makes it correct.

**Mode manager, MGR** (`components/mgr/fsw/cfs/src`) -- *modelled.*
State: one packet (mode, boot counter, anomalous-boot counter, science pass counter,
science status, region enables, command counters), in RAM and in `/data/mgr.bin`.
Operations: 11 ground commands, the housekeeping request, which also saves the file, and
the restore at start.  Hard: a reset at any point of the save (truncate, then write) or of
the restore (remove, create, write, with nothing checked); short reads; 8- and 16-bit
counters.  Correct when: each boot is counted once, in the right counter; a boot resumes
from a packet that was really saved, or from a cleared one.

**Stored command, SC** (`fsw/apps/sc/fsw/src`) -- *modelled.*
State: an absolute-time processor (ATP) with two ATS tables, their command status, a
time-sorted index and an append table; a relative-time processor (RTP) with a status,
next time and position for each RTS; cached next times of both; a switch-pending flag; the
number of commands sent this second.  Operations: start, stop, jump, append, switch for
ATS; start, stop, enable, disable for one RTS or a group; table loads; the 1 Hz loop; the
automatic start after a reset.  Hard: the loop decides on times cached at the last wakeup
while requests in between change everything; a switch must neither repeat nor lose a
command; sorting with a clock that rolls over; a count kept by hand on a dozen paths.
Correct when: no ATS command is sent twice, early, or out of order; the rate limit holds;
the loop ends; no RTS is starved; the telemetered count of active RTS is true.

**Limit checker, LC** (`fsw/apps/lc/fsw/src`) -- *modelled.*
State: a result and a countdown for each watchpoint; state, result and consecutive-failure
count for each action point; the application state (active, passive, disabled); two
definition tables and those waiting to replace them.  Operations: compare a packet with the
watchpoints on it, sample action points (reverse Polish equations over watchpoints), age
results, set states and reset statistics by command, validate and load tables.  Hard:
results that are stale, in error or of an old table; failure counts across state changes; a
validation and an evaluation of the same equation that must agree.  Correct when: an RTS is
requested once for each activation, after the failures its table asks for, and only on
measurements that justify it; and it is requested in the end.

**Mission tables** (`cfg/nos3_defs/tables`) -- *partly: the science scenario.*
Ten sequences and eight action points enter and leave science, follow the battery and the
region, and answer a fault of the instrument with a restart.  Hard: sequences last up to half
a minute, overlap and undo each other; telemetry is seconds old when it is used; a
restart keeps the switches but not the sequences.  Correct when: the instrument has power only
where it may, the action points that should wait do, restarts do not repeat for ever, science
is entered and left.

**Scheduler, SCH** (`fsw/apps/sch/fsw/src`) -- *partly: the walk over the slots.*
State: next slot, last count, the slot of the last tone, synchronisation flags, the noise
detection, a binary semaphore.  Operations: the callbacks of the timer and of the tone, each
in another task; a wakeup; one slot; the command that takes the noise detection back.  Hard:
both callbacks in the same tick, in either order, around a task that is late; a clock that is
re-based under the task.  Correct when: no slot is lost or repeated but by a skip, and the walk
follows the clock again after a disturbance.

**Software bus, SB/SBR** (`fsw/cfe/modules/sb`, `sbr`) -- *partly.*
State: pipes and their queues, routes with a destination block for each subscribed pipe,
reference-counted buffers.  Operations: create, delete, options; subscribe, unsubscribe,
enable and disable a route; transmit by copy and by zero copy; receive; the clean-up of an
application that has ended.  Hard: a lock that is given up around every queue operation; one
buffer in several queues at once; a pipe closed under a receiver.  Correct when: a buffer's
count is the number of its users; limits and depths stay true; the users see messages whole,
in order and unchanged.

**Table services, TBL** (`fsw/cfe/modules/tbl`) -- *partly.*
State: a registry record for each table, its images, the shared buffers, the validation
response blocks.  Operations: ground load, validate, activate, abort; the owner's first load,
get and release of the address, update, validation; the end and restart of an owner.  Hard: the
table task and the owners change the same records with hardly a lock.  Correct when: an
owner reads validated tables that do not change under it; buffers and blocks have one user
and are given back.

**Executive services, ES** (`fsw/cfe/modules/es`).  Application life cycle, resets and their
log, critical data store, memory pools.  Modelled by what it does to the others: a reset in
`Mgr`, `StoredCommand`, `LimitChecker`, `ScienceMission`; the clean-up of an application in
`SoftwareBus` and `TableServices`.

**Time services, TIME** (`fsw/cfe/modules/time`) -- *partly.*  Which tones are accepted, the
update of the MET at a tone and flywheel mode are in `Scheduler`, as SCH depends on them;
`CFE_TIME_Compare` is in `AtsTable`.

**CFDP, CF** (`fsw/apps/cf/fsw/src`) -- *not modelled, the first candidate for a further
module.*  Class 1 and 2 transfers: lost, duplicated and reordered PDUs, timers, NAK and ACK
limits.

**OSAL** (`fsw/osal/src/os/shared`).  Queues, timers, semaphores as their users see them; the
object identifier map is not modelled.

**File manager, FM; data storage, DS** -- *candidates.*  FM passes commands to a child task
through a bounded queue; DS filters packets and rotates files.

**Device components** (`components/*`).  Enable, disable, configure and request commands with
a device task; most follow `components/sample`.  `ScienceMission` has the instrument as the
tables use it.  The attitude control law is floating-point and stays out.

**Everything else** -- event, file, message and configuration services, PSP, CI/TO, SBN,
I/O libraries, CryptoLib, F Prime, ground systems, simulators: not modelled, each with its
reason in `PROJECT.json`.

### 1.3 Hazards

`PROJECT.json` lists, at the line where it bites, each thing in this code that a test
would hardly reach, with the properties that watch it, or with the reason why none does.  A
property is named only where the runs let the hazard happen: what a restriction such as
`Patient`, `TimerFirst` or `ReloadExecuting` keeps out of them is listed without one.

## 2. Plan

| Module | What | Status |
|---|---|---|
| `HkStore`; `Mgr`, `MgrProofs` | packet store that survives resets; the mode manager, refining it | done |
| `AtsTable`; `StoredCommand`, `StoredCommandProofs` | ATS time index; both processors and the loop | done |
| `Rpn`, `RpnLockstep`, `RpnProofs` | equations of LC: validation and evaluation side by side | done |
| `LimitChecker`, `LimitCheckerProofs` | watchpoints, action points, RTS requests | done |
| `ScienceMission`, `ScienceMissionProofs` | the mission's tables on LC, SC, MGR, the schedule and a world outside | done |
| `MessageBus`; `SoftwareBus`, `SoftwareBusProofs` | the bus as its users see it; pipes, routes and shared buffers, refining it | done |
| `TableServices`, `TableServicesProofs` | load, validate, activate against the owner | done |
| `Scheduler`, `SchedulerProofs` | slots, wakeups, synchronisation with the tone | done |
| `CfdpTransfer` | class 2 over a lossy link, abstract file copy as specification | open |
| `Executive`, `IdMap`, `DeviceApp` | life cycle, identifiers, the sample component | open |

Composition: `ScienceMission` puts LC (through `Rpn`), the RTS half of SC, MGR, the schedule
and the restart script together, each reduced to what the tables can tell apart.  The bus
and the table services are composed with their users through their specifications: the
applications assume what `MessageBus` and the properties of `TableServices` promise (a message
arrives whole or not at all; a load is a validated table).

Theorems worth proving next: `Armed` and `InstrumentJustified` of `ScienceMission`.  They depend on
the seconds between the commands of overlapping sequences, so their invariant has to list how
far each sequence can be when another begins (section 5).

## 3. Modules and the code

### 3.1 `Mgr`

| Model | Code (`mgr_app.c`) |
|---|---|
| `hk`, `file` | `MGR_AppData.HkTelemetryPkt`, `/data/mgr.bin` |
| `phase` | where the task is: not started (`down`), in the middle of `MGR_RestoreHkFile` (`recreating`, `rewriting`), in its loop (`running`), between the truncating open and the write of `MGR_SaveHkFile` (`saving`) |
| `RestoreRead` | file opened; a full read keeps the packet, a short one clears it |
| `RestoreRemove`, `RestoreCreate`, `RestoreWrite` | file not opened: the three unchecked calls, each of which may fail and each of which a reset may follow |
| `FixMode`, `ResetCounters` | end of the restore |
| `Accept` and the commands on it | `MGR_VerifyCmdLength`, then the branch of `MGR_ProcessGroundCommand` |
| `SaveOpen`, `SaveOpenFails`, `SaveWrite` | `MGR_SaveHkFile` |
| `Reset` | any reset of the application or the processor |

`boots` and `intact` are history: how often the task came up, and whether every boot so far is
accounted for by the packet or the file (no save was torn or lost on the way).

`HkStore` is the abstract specification: a packet in RAM, a stored packet that may be lost
but never mixed, and a boot that counts once.  `Mgr` implements it with
`live <- hk`, `stored <- file.packet`, `up <- phase \in {"running", "saving"}`.

### 3.2 `AtsTable`

Times compare as `CFE_TIME_Compare` does (a difference of more than half the range is a
rollover).  `Insert` and `BuildTimeIndexTable` are the insertion sort of `sc_loads.c`, one
number after the other (a recursive function, the prefix of the index for each number); a table
is a function from command numbers, so `AtsCmdIndexBuffer` is the table itself, and
`PassedCommands` is the walk of `SC_BeginAts` over the head of the index.

### 3.3 `StoredCommand`

| Model | Code (`fsw/apps/sc/fsw/src`) |
|---|---|
| `atp`, `rtp` | the control blocks and their element of `NextCmdTime` |
| `nextProc`, `numCmds` | `NextProcNumber`, `NumCmdsSec` |
| `atsTbl`, `atsStatus`, `atsSize`, `appendTbl` | the ATS and append tables, command status, size in use |
| `rtsTbl`, `rtsInfo`, `autoStart` | RTS tables (delays), `RtsInfoTbl`, `AutoStartRTS` |
| `pc` | the point in the loop of `SC_ProcessRequest`: `switch` before `SC_ServiceSwitchPend`, `process` before the processor that is next, `update` before `SC_UpdateNextTime`, `idle` between requests |
| `Wakeup`, `Loop` | the 1 Hz wakeup and the do-while loop, one action for each path through a pass |
| `StartAts` ... `LoadRts`, `SendHk` | one action per request; a rejected request changes only counters and events, so it is no step |
| `Reset`, `Tick` | `SC_AppInit` again, at any point; the clock |

`out`, `burst` and `sent` are history: the message of this pass with the time it was due,
the messages since the wakeup, and how often each ATS command went out since it was loaded.

Each action is a whole handler.  The loop is cut into passes and the passes into steps only so
that a reset can strike inside it: SC is one task, and no other request is handled before
the loop ends (`pc = "idle"`).

What the model leaves out of SC, and why it may:

- *Counters, events, housekeeping telemetry other than the count of active RTS.*  Nothing is
  decided on them.
- *Table bytes.*  A stored command is a time and what SC makes of it (a command, SC's own
  switch command, or a command whose checksum is wrong).  Table validation
  (`SC_VerifyAtsTable`, `SC_ParseRts`) is the precondition of a load: the table services refuse
  a table it rejects.
- *The mismatch branch* of `SC_ProcessAtpCmd` (command number in the table differs from
  the one in the control block).  The index tables are rebuilt by every load, so only memory
  corruption reaches it.
- *`CONTINUE_ATS_ON_FAILURE`.*  The flag is read only in the branch for a wrong checksum,
  which the code has disabled (`if (true)`, `sc_cmds.c:105`).
- *RTS number 0*, which `sc_rtsrq.c` lets through to an index out of range: what it overwrites
  is outside the state modelled.
- *The Boolean constant `ReloadExecuting`* chooses whether a load may hit a running sequence.
  The properties about order and count hold without such loads; section 4.3 says what happens
  with them, and the theorems that do not need the restriction do not have it.

### 3.4 `Rpn`, `RpnLockstep` and `LimitChecker`

`Rpn` has one step of `LC_ValidateRPN` (`CheckToken`, a depth) and one of `LC_EvaluateRPN`
(`EvalToken`, a stack), and the two loops as recursive functions over the prefixes of an
equation (`CheckLoop` with `ValidRPN`, `EvalLoop` with `EvaluateRPN`); `EquSize` is
`LC_MAX_RPN_EQU_SIZE`, the last token that is read.  The operators are written as the chain of
branches that the code has: alternatives of a `CASE` that overlap would leave the value open, so
that nothing could be proved of it, although TLC takes the first one.  `RpnLockstep` runs
validation, evaluation, and evaluation with every unknown watchpoint settled one way or the
other, side by side over any equation: each step takes any token, so nothing enumerates
equations.

| Model (`LimitChecker`) | Code (`fsw/apps/lc/fsw/src`) |
|---|---|
| `lcState`, `wdt`, `adt`, `wrt`, `art` | `CurrentLCState`, the definition and result tables |
| `pending` | tables the table services have validated, until LC manages them |
| `CheckMsgForWPs` | `LC_CheckMsgForWPs`, for any results of the comparisons on the message |
| `SampleAPReq` | `LC_SampleAPs` over a range, with the ageing of results at its end |
| `SetLCState`, `SetAPState`, `SetAPPermOff`, `ResetAPStats` | the ground commands |
| `LoadADT`, `LoadWDT`, `ManageTables`, `Restart` | `LC_ValidateADT`, `LC_ManageTables`, `LC_LoadDefaultTables` |

A comparison with a limit is the result it gives; events and statistics other than the count
of consecutive failures are left out, as nothing is decided on them.  `measured`, `age`,
`streak` and `fired` are history.

### 3.5 `ScienceMission`

A second has three phases: housekeeping arrives (`Telemetry`), SC sends what is due, one command
a step, the lowest sequence first (`Send`, `RestartBySequence`), and the instrument reports and LC
samples (`InstrumentTelemetry`, `SampleAPs`).  This is the order of the mission's schedule: GPS
every second, MGR in every tenth (slot 25), SC's wakeup (slot 26), the instrument in every fifth
(slot 35), LC's sample (slot 51), EPS in every fifth (slot 55).  The sequences are those of
`sc_rts*.c` with their delays; a command without effect here keeps its place (`Others`).

`Boot` is what a restart leaves: MGR's saved mode, made a reboot mode (`BootMode`), default
tables, no sequence but RTS 1 and a second later what it starts; the switches of EPS stay as
they were.  `fsw_respawn.sh` always restarts with a power-on reset, whatever the cause.

`Undisturbed` and `Patient` restrict the world outside: battery, orbit, health and ground do
not change while RTS 26-30 or 33 execute, and each change is reported before the next.  They
are not promises of anybody; they are what the tables need, found by removing them one
at a time (section 4.3).

### 3.6 `MessageBus` and `SoftwareBus`

`MessageBus` is the bus as its users see it: messages in transmission, an inbox for each pipe,
the message a receiver holds, and who subscribed.  It has no buffers.

| Model (`SoftwareBus`) | Code (`cfe/modules/sb`, `sbr`) |
|---|---|
| `pipe`, `queue` | `PipeTbl` entry with `CurrentQueueDepth` and `LastBuffer`; the OS queue |
| `routes`, `dest` | routes and destination blocks with `Active`, `BuffCount`, `MsgId2PipeLim` |
| `use`, `content`, `zbuf` | buffer descriptors: `UseCount`, contents, zero-copy owner |
| `task` | where a task is between two sections of the lock, with its local variables |
| `TransmitMsg`, `TransmitBuffer`, then `BroadcastBufferToRoute` | fill or adopt the buffer under the lock; then the queues |
| `ReceiveBuffer`, `QueueGet`, `ReceiveNothing`, `ReceiveDone` | give up the last buffer; wait outside the lock; account under it |
| `DeletePipe`, `DrainPrevious`, `DrainNext` | `CFE_SB_DeletePipeFull`, section by section |
| `CleanUpApp`, `CleanUpPipe`, `ZeroCopyReleaseAppId` | `CFE_SB_CleanUpApp` |

Each action is one section under `CFE_SB_LockSharedData` or one call of the operating system
outside it.  `SoftwareBus` implements `MessageBus` with inboxes read through the buffers, so
that a buffer reused too early shows as a message that changed: the mapping is the operators
`sending`, `inbox`, `held`, `subs` and `open`.  A broadcast is one step of `MessageBus`, the
delivery to some subscribers and at least to the open ones whose inbox is empty.  A message is
taken when `CFE_SB_ReceiveBuffer` accounts for it under the lock, not when the OS queue gives it.

Assumed of the users: one task serves a pipe (the note in `CFE_SB_ReceiveBuffer`), and an
application that is cleaned up has stopped using the bus but for a receive, which is what
`CFE_ES_ExitApp` gives.  An application that ES deletes from outside is not in the model.

### 3.7 `TableServices`

| Model | Code (`cfe/modules/tbl/fsw/src`) |
|---|---|
| `reg` | the registry record: `ActiveBufferIndex`, `TableLoadedOnce`, `LoadInProgress`, `LoadPending`, `ValidateActiveIndex`, `ValidateInactiveIndex` |
| `img`, `taken` | the images (are they good, `Validated`) and `LoadBuffs[].Taken` |
| `slot` | `ValidationResults[].State` |
| `hold` | the handle's `BufferIndex` and `LockFlag` |
| `LoadCmd`, `LoadCmdRead`, `ValidateCmd`, `ActivateCmd`, `AbortLoadCmd`, `GetHkData` | the table task |
| `Load`, `LoadDone`, `GetAddress`, `ReleaseAddress`, `Update`, `UpdateDone`, `Validate`, `ValidateDone`, `Restart` | the owner, in its own task |

Loads, updates and validations are cut where the two tasks really interleave: around the read of
the file, between the copy and the notification, around the validation function.  With
`Patient`, the ground waits for the answer to a validation before it commands the table again
(`cfe_tbl.dox:66`-72 tells it to), and a command does not overtake the owner's first load or
the few instructions of an update.  Each table has one owner, as in the mission.

### 3.8 `Scheduler`

| Model | Code (`fsw/apps/sch/fsw/src`, `cfe/modules/time`) |
|---|---|
| `now` | the tick of 10 ms within the second |
| `tone`, `latch`, `atTone` | how far time services are with the tone; `ToneSignalLatch`; the tick from which the MET counts (`AtToneLatch`) |
| `clock` | `ClockFlyState`, `Forced2Fly`, the seconds since the last update of the MET |
| `timer` | the OSAL timer of the minor frames |
| `sem` | `TimeSemaphore`, which is binary: wakeups may merge |
| `frame` | `MajorFrameSource`, `SyncToMET`, `LastSyncMETSlot`, `IgnoreMajorFrame`, `ConsecutiveNoisyFrameCounter` |
| `next`, `lastCount`, `todo` | `NextSlotNumber`, `LastProcessCount`, `ProcessCount` |
| `MinorFrameCallback` | `SCH_MinorFrameCallback` |
| `ToneRejected`; `ToneInTime` | `CFE_TIME_OneHzCmd` for a tone that is not about a second after the one before (`CFE_TIME_Tone1HzISR`): nobody is called back, the MET is not updated |
| `MajorFrameCallback`, `MajorFrameSlot` | the same for an accepted tone: `SCH_MajorFrameCallback` up to the semaphore, and after it |
| `ClockAtTone` | `CFE_TIME_Local1HzStateMachine`, which goes first in that handler: flywheel by itself |
| `ToneUpdate` | `CFE_TIME_ToneVerify`, then `CFE_TIME_ToneUpdate` unless the clock was commanded to fly |
| `SetState` | `CFE_TIME_SetState`: the commands into flywheel mode and out of it |
| `Wakeup`, `ProcessNextSlot` | `SCH_ProcessScheduleTable`, one step for each slot |

It is the build of this mission: nos-linux gives a timer as coarse as a slot, so minor frames are
synchronised to the MET.  `OS_TimerSet` refuses a call from a timer callback, so the long and
the short slot and the restart of the timer in `SCH_MinorFrameCallback` do not happen.

A tone is accepted if it is less than `ToneLimit` ticks (20 ms in the mission) off a second after
the one before, accepted or not.  So of tones that time services see late, one a tick late is
accepted and re-bases the MET, and one two ticks late is rejected, as is the next one if that
one is in time.  The clock flies of itself when the last update is `StartFly` seconds old, and until
the next; SCH may start while it flies, with a MET that counts from any tick.  Commanded flywheel
lasts until another command.  The clock state is read at the tone and written by its update; a
command at any other point of the second acts as one just before the next of these, which is where
`SetState` takes it.  The limits on the delay between the tone and its message (200 ms) are not
reached, as time services are less late than that; the command that sets the MET is left out.

`late` bounds the lateness of the task and `tone.age` that of time services; `calm` is a
switch of the environment after which nobody is late.  `tracked` and `behind` are history: the
tones have been in time since the first, and the slots that came due since and were not done.

## 4. Runs

| Run | Module and cfg | Checks | States |
|---|---|---|---|
| `mgr` | `MCMgr` / `MCMgr.cfg` | `TypeOK`, `BootsAccounted`, `ImplementsStore` | 222 463 |
| `sc_ats` | `MCStoredCommand` / `MCAts.cfg` | `TypeOK`, `AtMostOnce`, `AtpInOrder`, `AtsNotEarly`, `SafeSwitch` | 924 248 |
| `sc_rts` | `MCStoredCommand` / `MCRts.cfg` | `ActiveCount`, `RtsProgress` | 157 520 |
| `sc_mixed` | `MCStoredCommand` / `MCMixed.cfg` | `RtsNotEarly`, `RateLimit`, `WakeupEnds` | 228 562 |
| `lc_rpn` | `MCRpn` / `MCRpn.cfg` | `ValidIsLegal`, `InvalidDecidesNothing`, `DecidedIsCertain` | 74 387 |
| `lc_watch` | `MCLimitChecker` / `MCLcWatch.cfg` | `TypeOK`, `Fresh`, `RequestsCertain`, `ErrorsAreMeasured` | 39 974 |
| `lc_action` | `MCLimitChecker` / `MCLcAction.cfg` | `OneRequest`, `Consecutive`, `EventuallyRequested` | 45 792 |
| `science` | `MCScience` / `MCScience.cfg` | `InstrumentJustified`, `Armed`, `NoResetLoop`, `Entered`, `Left` | 109 448 |
| `science_race` | `MCScience` / `MCScienceRace.cfg` | `SafeOutsideScience`, which does not hold (4.3) | |
| `sb` | `MCSoftwareBus` / `MCSoftwareBus.cfg` | `TypeOK`, `RefCounted`, `PipeAccounted`, `ImplementsBus` | 675 103 |
| `tbl` | `MCTableServices` / `MCTableServices.cfg` | `TypeOK`, `BuffersAccounted`, `SlotsAccounted`, `OnlyValidated`, `Steady` | 2 814 768 |
| `sch` | `MCScheduler` / `MCScheduler.cfg` | `TypeOK`, `InStep`, `CatchesUp` | 1 122 620 |

What they show:

- `mgr`: with a reset possible at every step, every boot that was followed by a complete save
  is in exactly one counter, and MGR implements `HkStore`.
- `sc_ats`: through every order of loads, starts, stops, jumps, appends, ground and inline
  switches, failures and resets, the ATP's cached position and time follow its table, no
  command goes out twice, behind another or before its time (a jump or an append changes the
  command under the cached time), and a serviced switch neither repeats nor drops what the two
  ATS have in common.
- `sc_rts`: the hand-kept count is right with groups, null loads, failed sends and automatic
  start, and a due RTS always sends or stops.
- `sc_mixed`: with both processors at work, no RTS command goes out early although the loop
  trusts cached times (but for the first command of an RTS, see 4.3), the rate limit holds, and
  the loop ends.  `RtsProgress` was checked apart on this instance and holds: the ATP, which wins
  ties, does not hold up a due RTS for ever.
- `lc_rpn`: for every equation of up to seven tokens, what the validation accepts the evaluation can
  run, what it refuses would not have come to PASS or FAIL (it may come to STALE), and PASS or
  FAIL from partial measurements is what full ones would have given.
- `lc_watch`: results age, go stale, are in error and belong to one table or the next, in every
  order of packets, samples, loads and restarts; no request rests on a result that is not a
  current measurement.
- `lc_action`: one request for each activation, after the failures the table asks for, and in
  the end one.
- `science`: from the boot on, with restarts at any time, the battery, the orbit, faults and the
  ground: at rest the instrument is on only when it may be and the right action points wait; a broken
  instrument restarts the software at most twice; science is entered and left.
- `sb`: two applications, one of which ES may clean up, send, receive, subscribe, delete and
  create over two pipes that share buffers: counts are the users, limits never stick, and
  the bus is `MessageBus`.
- `tbl`: two tables contend for a shared buffer and two response blocks while the ground loads,
  aborts and activates and the owners read, update, validate, end and start: nothing is lost or
  shared, and what an owner reads is validated and does not change under it.
- `sch`: a task up to two ticks late; tones up to two ticks late, of which those of two ticks
  are rejected; merged and doubled wakeups, noise detection, flywheel by itself and by command, a
  start on either source: while the tones are in time no slot is lost or repeated beyond a
  skip, and whatever happened, when everyone is in time again the walk is with the clock and stays
  there, even if the MET itself stays shifted because the clock was commanded to fly.

### 4.1 Bounds, and why they are enough

- `Mgr`: one region (the three handlers differ in the byte they set); 16-bit counters modulo
  3, so that they wrap and the two differ by more than parity; the 8-bit counters modulo 1,
  since nothing is decided on them; two science statuses.
- `StoredCommand`: 32-bit seconds become 6 or 8 (`MaxTime` = 5 or 7), with `HalfRange` half of
  that, so that comparing with `SC_MAX_TIME` shows the rollover of the code.  `Horizon` = 2
  keeps the clock in the first half, as a mission's is.  It is the only
  bound on behaviour: everything else is finite by itself.
- Two ATS (as in the code) of two commands: two in the same second, two whose number order is
  against their time order, one with an inline switch.  The append table moves a command behind
  another.  `AtsBuffSize` = 3 allows one append and refuses the next.
- Two RTS: enough for groups, ties and overtaking.  Delays of zero and more, before the first
  and before a later command, and a null load.  The rate limit is 1 in `sc_ats` and 2 elsewhere, so
  that it is reached.  The ATS instance has no RTS and the RTS instance no ATS; `sc_mixed` has
  both.  The requests of one processor do not touch the other's state, only the loop couples
  them.
- `RpnLockstep`: two watchpoints, a buffer of seven tokens: a binary operator over compound
  operands, an equation that fills the buffer, one that has no end.  The mission's equations fit
  into the 20 tokens (`LC_MAX_RPN_EQU_SIZE`) that `ScienceMission` is given.
- `LimitChecker`: `lc_watch` has two watchpoints on different packets with and without an age limit,
  moved to one packet by a load, and an equation over both; `lc_action` has two action points
  with limits of one and two, of which a load changes the roles.  `AgeCap` and `FailCap` are the
  largest limits of the tables: beyond them counting changes nothing.
- `ScienceMission`: one region, for which the three regions' tables are the same but for
  numbers; the battery at, between and beyond the limits; the periods of the schedule as they
  are.  `resets` stops at three, one more than the property allows.
- `SoftwareBus`: two pipes of depth 1 and 2, one message identifier with a limit of 1, two
  buffers and two payloads: a buffer in two queues, a full queue, a limit reached, no buffer left.
  One pipe with two messages, three buffers and limits of 1 and 2 was checked apart and passes;
  both together take TLC too long.  Buffers and messages are symmetric.  `MaxDests` = 2 is never
  short, as two pipes exist.
- `TableServices`: a single-buffered table, a second that is registered either way, one shared
  buffer (the mission has four for more tables) and two response blocks (of ten).  The blocks
  are symmetric and no liveness is checked.
- `Scheduler`: six slots, two of them a wakeup (mission: five), two noisy tones, a lag limit of
  3 (mission: 50 of 100 slots): a wakeup may find more than the lag limit behind, and a lag never
  wraps round the table.  `ToneLimit` = 2 ticks and `StartFly` = 2 seconds are the mission's.  Seven
  slots with a task up to three ticks late were checked apart and pass (2 126 652 states).

Deadlock is checked except in `lc_rpn`, where a behaviour ends with its equation.

### 4.2 Fairness

`StoredCommand`: weak fairness of `Wakeup` and of `Loop`, and strong fairness of `Tick`.  SCH
sends the wakeup every second and SC's task runs every request it takes to the end (nothing in
the loop blocks), which is weak fairness.  Time is not SC's to stop: `Tick` is enabled again after
each request, however many requests there are, and strong fairness says that it then happens.
No request is assumed to come, and none is assumed to stop coming.

`LimitChecker`: weak fairness of the sample of all action points, which the schedule sends every
second (slot 51).  Packets need not arrive.

`ScienceMission`: weak fairness of the steps that make up a second, all of which the schedule
sends.  The ground, the orbit, the battery and faults need not change, nor stop changing.

`Scheduler`: weak fairness of `Tick` and of each task's steps.  The bounds on lateness are guards
of `Tick` (time does not pass a task that has been late for as long as it may be); `calm` need
not happen, and `CatchesUp` speaks of behaviours in which it does.  No command to time services
need come.

### 4.3 Where the code and its documents disagree

One run ends in a counterexample, and `PROJECT.json` quotes the line it refutes:
`science_race`.  RTS 30 switches the instrument on fifteen seconds after it starts; RTS 29, which
switches it off twelve seconds after it starts, neither stops nor disables it.  A spacecraft
commanded to safe mode while RTS 30 executes ends in safe mode with the instrument on.

The following were met while modelling.  No run of the project ends in them, mostly because the
constants or the environment keep them out of the runs above; each was seen in a
counterexample or follows from a few lines of code.

*MGR.*  After a first reset the restored mode stays a reboot mode; a second, unprepared reset is
then a regular boot in `BootCounter`, not an anomalous one (`mgr_app.c:573`, `MGR_TLM.txt:16`).

*SC.*
- An RTS stopped and started again between two wakeups sends its first command at the time
  cached for its old start, without its delay (`sc_cmds.c:307`; requirement SC4001.2).  This is
  why `RtsNotEarly` speaks of the commands after the first.
- An ATS command with a wrong checksum is sent: the result of the validation is ignored
  (`sc_cmds.c:105`; requirement SC3000.3).
- A jump past the last command, or an append that begins past it, stops the ATP with a switch
  still pending, and the next ATS that is started inherits it (`sc_atsrq.c:572`).
- A load over an executing RTS leaves it in the count of active RTS (`sc_loads.c:337`).  The
  theorems `RateLimited`, `NeverTwice` and `RtsOnTime` hold with such loads.
- ATS commands more than half the clock's range old are due for the loop and in the future for
  `SC_ProcessAtpCmd` (`sc_cmds.c:585`).

*LC.*
- A failure, an error, a failure count as consecutive: an error neither counts nor interrupts
  (`lc_action.c:262`; `cfs_lc.dox:179`).
- A watchpoint goes stale by age, not only by a reset (`cfs_lc.dox:429`), and a reset of its
  statistics leaves its result (`cfs_lc.dox:316`).

*The science tables*, when the world outside does not wait (`Undisturbed`, `Patient`):
- `INITIALIZED`, which RTS 26 reports to MGR, overwrites the science status of an RTS 30 in the
  same seconds.
- A planned reset in science mode while action point 25 is still active is undone by RTS 25.
- Safe mode followed by a planned reset within one of MGR's ten seconds is never seen by action
  point 29.
- A battery that falls low while RTS 30 has just started is reported up to five seconds late; RTS 27
  runs first and RTS 30 switches the instrument on after it.
- RTS 28 and RTS 29 in the same seconds can leave action point 30 armed in safe mode.
- RTS 36 leaves the switch of the star tracker on (the ADCS scenario says otherwise).
- If MGR's save failed just before RTS 36 restarts the software, the restart would come up in the
  old mode, and the resets could repeat.
- A restart that RTS 36 did not order leaves the instrument's switch as it was (`stranded`).

*TBL*, with an impatient ground (`Patient = FALSE`, under which every invariant but `Steady` fails):
- A load that ends in an error after bytes were written (a file too short or too long) leaves
  `Validated` as the image's last user had it (`cfe_tbl_task_cmds.c:413`-476;
  `cfe_tbl.dox:164`-166), and the image can be activated.  This one needs no impatience: it is the
  exception `cut` in `OnlyValidated`.
- An abort leaves a pending validation standing, and the owner then validates `LoadBuffs[-1]`
  (`cfe_tbl_api.c:1350`: updates go first, although the comment puts validations first).
- A second validation request for an image overwrites the index of the first; its block is
  never answered.
- A load command may write the image while the owner's validation function reads it.
- An abort and an update of the owner may both give back the shared buffer; a load command during
  the owner's first load shares or loses one.
- An activation between the update and the end of its notification, or repeated just after it,
  leaves `LoadPending` set with no load in progress.  The next load command then finds "a
  previous load still pending" (`cfe_tbl_task_cmds.c:395`), an abort finds no load to abort, and
  `CFE_TBL_Update` nothing to update: the table takes no loads until its owner restarts.
- The end of an owner leaves the block of its pending validation pending for ever (`lost`).

*SCH.*
- A wakeup left over from a tick that reads the next tick's slot before the timer's callback,
  then the wakeups of timer and tone in that same tick: the third finds the walk a whole table
  behind, reports "Slots skipped", does slot zero twice and counts a pass too many.  `TimerFirst`
  keeps it out of the run; with it FALSE the run finds it.
- A tone handled a tick late is accepted: `LastSyncMETSlot` is read before the MET is re-based, so
  the current slot falls back a little, slots are skipped and sent again, and a pass is counted
  too many.  `CatchesUp` shows that it passes.
- A tone handled two ticks late is rejected, and so is the next one, which is in time but less than
  980 ms after it (`cfe_time_tone.c:1001`): SCH hears of neither, and by the third second the clock
  flies, until a tone is accepted.
- A clock commanded to fly after a late tone keeps its shifted MET (`cfe_time_tone.c:744`).  The next
  accepted tone still calls SCH back, which notes the shift in `LastSyncMETSlot`: it does not go away,
  but the slots follow the tone.  When the command is taken back, the next update moves the MET
  under the noted shift for a second.
- The noise test uses how far the task is, not when the tone came.  The task often does slot
  zero before the tone's callback runs; two such tones and the tone is ignored, however exact it
  is (`cfs_sch.dox:212`-216 calls this a tone outside its window).  The walk goes on with the MET.
- If no tone comes within the startup period (TIME in flywheel), the startup timer expires once and
  cannot be set again from its callback: SCH waits for a tone, although `cfs_sch.dox` says that
  it goes on with the minor frame timer.
- A task kept from its work for a whole table (half a second and more in the mission) loses
  passes without counting them: this is what `LagAssumption` excludes.

## 5. Proofs

TLAPS checks these for every value of the constants, under the modules' assumptions.

| Theorem | Statement |
|---|---|
| `MgrProofs!TypeCorrect` | `Spec => []TypeOK` |
| `MgrProofs!BootsAreAccounted` | `Spec => []BootsAccounted` |
| `MgrProofs!Refinement` | `Spec => ImplementsStore` |
| `StoredCommandProofs!RateLimited` | `Spec => []RateLimit` |
| `StoredCommandProofs!NeverTwice` | `Spec => []AtMostOnce` |
| `StoredCommandProofs!ActiveCounted` | `Spec => []ActiveCount` |
| `StoredCommandProofs!RtsOnTime` | `Spec => []RtsNotEarly` |
| `StoredCommandProofs!AtpOrdered` | `Spec => []AtpInOrder` |
| `StoredCommandProofs!AtsOnTime` | `Spec => []AtsNotEarly` |
| `StoredCommandProofs!SwitchSafe` | `Spec => SafeSwitch` |
| `StoredCommandProofs!ScTypeOK` | `Spec => []TypeOK` |
| `StoredCommandProofs!TimeIndex` | the time index lists each command of a table once, in order |
| `RpnProofs!RpnValidIsLegal` | `LockstepSpec => []ValidIsLegal` |
| `RpnProofs!RpnInvalidDecidesNothing` | `LockstepSpec => []InvalidDecidesNothing` |
| `RpnProofs!RpnDecidedIsCertain` | `LockstepSpec => []DecidedIsCertain` |
| `LimitCheckerProofs!LcTypeCorrect` | `Spec => []TypeOK` |
| `LimitCheckerProofs!LcFresh` | `Spec => []Fresh` |
| `LimitCheckerProofs!LcOneRequest` | `Spec => []OneRequest` |
| `LimitCheckerProofs!LcConsecutive` | `Spec => []Consecutive` |
| `LimitCheckerProofs!LcRequestsCertain` | `Spec => RequestsCertain` |
| `LimitCheckerProofs!LcErrorsAreMeasured` | `Spec => ErrorsAreMeasured` |
| `ScienceMissionProofs!ScienceNoResetLoop` | `Spec => []NoResetLoop` |
| `TableServicesProofs!TblTypeOK` | `Patient /\ Spec => []TypeOK` |
| `TableServicesProofs!TblBuffersAccounted` | `Patient /\ Spec => []BuffersAccounted` |
| `TableServicesProofs!TblSlotsAccounted` | `Patient /\ Spec => []SlotsAccounted` |
| `TableServicesProofs!TblOnlyValidated` | `Patient /\ Spec => []OnlyValidated` |
| `TableServicesProofs!TblSteady` | `Patient /\ Spec => Steady` |
| `SoftwareBusProofs!SbTypeOK` | `Spec => []TypeOK` |
| `SoftwareBusProofs!SbRefCounted` | `Spec => []RefCounted` |
| `SoftwareBusProofs!SbPipeAccounted` | `Spec => []PipeAccounted` |
| `SoftwareBusProofs!SbImplementsBus` | `Spec => ImplementsBus` |
| `SchedulerProofs!SchTypeOK` | `TimerFirst /\ Spec => []TypeOK` |
| `SchedulerProofs!SchInStep` | `TimerFirst /\ Spec => []InStep` |

Assumptions: the counter moduli are positive (`CounterAssumption`); the clock's range is twice
the half range (`TimeAssumption`); the limit per second is positive and the tables the ground loads
are well-formed tables (`ScAssumption`, `LoadAssumption`); the clock and the times in
the tables are in the first half of the clock's range (`NearAssumption`: with 32-bit seconds,
68 years from the epoch; beyond that the plain comparison of the loop and the rollover of
`SC_CompareAbsTime` disagree, a listed hazard); LC's default action point table is one
that its own validation accepts (`TableAssumption`); images, shared buffers and "none" are
different things (`TableAssumption` of `TableServices`); the scheduler's lag limit and the
lateness of its task together are shorter than the table (`LagAssumption`: 50 slots and less than
half a second in the mission), and a tone is handled before the next (`SchAssumption`); the pipes and the tasks are finitely many, as the tables that hold
them have a fixed size, and the software bus's "none" is no message, subscription, task or
buffer (`SbAssumption`).  Nothing is assumed of the number of regions, sequences,
commands, watchpoints, action points, tables, buffers, pipes, applications or slots, nor of the
contents of tables.

`Patient`, with which the theorems about table services begin, is the constant that keeps the
ground from commanding a table it waits for (3.7); without it they do not hold (4.3).
`TimerFirst` is the corresponding constant of `Scheduler`.

The arguments:

- *BootsAccounted* is not inductive: it says nothing of a boot under way.  The invariant adds
  that, while the task is down or restoring and nothing was lost, the counters a boot will
  read back (of the file, or the cleared packet) sum to the number of boots.
- *Refinement*: each step of `Mgr` is a step of `HkStore` or a stutter; it rests on
  `TypeOK`, in particular on a file without a packet reading back as the cleared one.
- *RateLimit*: no more messages than `numCmds`, which is zero between requests and below the limit
  whenever a pass begins.
- *AtMostOnce*: a command that is `LOADED` has not been sent since its load, and one that was
  sent was sent once.  Every handler either keeps a status, moves it away from `LOADED`, or
  loads it and so starts its count again.  The argument needs nothing of the time
  index: whatever order it is in, the status guards the command.
- *ActiveCount*: the count is the cardinality of the set of executing RTS.  A start adds the
  startable ones, disjoint from the executing; a kill removes only those that execute; and
  what `SC_GetNextRtsTime` picks exists (`LeastKey`) and leaves the count alone.
- *RtsNotEarly*: between two passes of the loop, the time cached for the RTP is the time of the
  sequence it was cached for, or that sequence was started again and its first command is
  next.
- *The time index* (the first part of `StoredCommandProofs`).  The index is a recursive function over the command
  numbers.  What it holds at a number is shown by induction written out as a least counterexample:
  the numbers at which the statement fails, if any, have a least one, and the step from the
  number before contradicts it (`IndexStep`, `IndexInduction`).  One insertion loses and repeats
  nothing whatever the times (`InsertEnumerates`); it keeps the order of time, then number, as
  long as `SC_CompareAbsTime` is the plain comparison (`LaterIs`, `InsertOrdered`).
- *AtpInOrder* rests on that order: what a start, jump, append or switch passes over is the head of
  the index, and is no longer `LOADED` (`BeginWaiting`); a command that was sent, failed or passed
  over is followed by the next one of the index, and all that still waits is behind it
  (`NextWaiting`).  The invariant (`OrderInv`) adds to the property the types of the ATS half, that
  what is `LOADED` is in its table and that the times are near.  Where `ReloadExecuting` allows a
  load over the running ATS, the order is not claimed.
- *AtsNotEarly*: the command is sent when the cached time has come, and by `OrderInv` the cached
  time is its own.  *SafeSwitch*: the switch is serviced when the cached time is later than now,
  and everything that waits is behind it; the other ATS is begun at the next second.  Neither
  follows from its own guard alone: both are about what was cached in an earlier request.
- *TypeOK* of `StoredCommand` is the sum of the invariants of the two processors and the loop.
- *The equations*: while the validation has not ended, its depth is the height of both stacks
  and both evaluations run; what stands on one stack agrees with what stands on the other.
  When the validation ends, the invariant says how each evaluation ends: in one result,
  or, if it was refused, in no truth value.  The step (`TokenStep`) is a lemma about the operators
  of `Rpn` for any set of results that watchpoints may have, and serves twice: in `RpnLockstep` as the
  inductive step, and in `LoopsAgree` for the two loops as recursive functions, by the least
  prefix of the equation at which they would part.  What the specifications use is `ValidAgrees`:
  the evaluations of a valid equation over two assignments that agree end in results that agree.
- *RequestsCertain* and *ErrorsAreMeasured* are properties of steps and follow from one
  invariant (`RestsInv`): the types, *Fresh*, and that the tables in use and those waiting to be used
  passed `LC_ValidateADT` (`ValidInv`; it must also know that an action point that is used has an
  equation that was looked at).  A request is `ValidAgrees` between the results as they are and any
  readings that could be behind them; an error is the same lemma with the errors taken out of the
  possible results, so that it is `LC_ValidateRPN` that keeps an error from arising by itself.
- *Fresh*: a result that is a truth value was the last comparison, and what is left of its
  countdown and its age add up to the age its table allows; a countdown is never left
  at zero.
- *OneRequest*: an action point that is active has not fired since it became so.
- *BuffersAccounted*: a shared buffer is taken exactly if some table's load names it, and then one
  table's.  This needs to know where owners and ground are: a table in its first load has no
  other load, one in an update has a pending load, one with an unanswered validation has an
  inactive image and no pending load (`Phases`).
- *SlotsAccounted*: block by block (`Blocks`).  It has to know that a block left behind by an
  ended owner is named by no record, so that no answer reaches it and no new request takes it,
  and that an owner about to answer for its active image was asked.
- *OnlyValidated* is about the active image only, and says nothing of the image that becomes the
  active one next.  The invariant (`VInv`) follows an image from the file to the owner: where
  the load of a table can be (`Placed`), that a pending load has been validated or written by the
  owner (`Ready`), that the image the table task is filling is its table's load and marked as cut
  until it is whole (`Filling`), and that `Validated` is believed only of good images
  (`Verdicts`).
- *Steady*, a property of steps, follows from `Placed`: a locked image is the active one, the image
  that is written is not.
- *Consecutive*: the one counter of LC, which outlives changes of state and loads, is at no
  time more than the failures that count.
- *NoResetLoop* (`ResetInv`): watchpoints 25 and 26 show a mode only once MGR has
  saved it, because MGR saves the packet in the handler that reports it (`SeenIsSaved`), and LC
  sees nothing before RTS 1 has activated it (`Blind`).  So the first restart leaves
  SCIENCE_REBOOT at most, from which RTS 25 may go back to science; when LC has seen SCIENCE, which RTS 36
  needs to begin, the mode in RAM and in the file is SCIENCE_REBOOT no longer (`LastReturn`).  After
  the second one the mode is SAFE_REBOOT, RTS 25 and RTS 36 have no reason to begin (`Ended`), and only
  the ground leads on.  A restart for another reason, at any point, breaks none of this: it can only
  lower the mode.  The theorem holds for all values of `Undisturbed`, `Patient` and `Resets`, so it
  needs none of the restrictions of 3.5 that the run makes.
- *The software bus* takes four invariants, each resting on the one before.  `TInv` adds to the
  types what the local variables of a call say of its pipe.  `RInv` adds `RefCounted`, which
  is not inductive: that a count is right after a buffer is sent or released depends on that
  nobody else uses a buffer being filled or sent (`Sole`), and that the buffers that bear an
  application's name are those of its tasks (`Holders`), or the clean-up would free another's.  Each
  step changes one of four counts (places in queues, last buffers, buffers being filled, calls) by
  at most one, for which the lemmas on cardinalities stand.  `MInv` adds that what is under way is a
  message, and with the counts that it does not change (`MessageStays`).  `BInv` adds
  `PipeAccounted`; the count of a subscription falls only while a message of it is on the pipe.
- *ImplementsBus*: one lemma for each action says which step of `MessageBus` it is.  `MInv` gives
  the contents, and `PipeAccounted` that a broadcast reaches every open pipe with an empty inbox:
  with nothing on the pipe, neither its depth nor the limit of a subscription can refuse.
- *InStep* is not inductive either.  The invariant places the next slot: `behind` slots before
  the clock, around the table (`Place`); it bounds how far behind it can be, and this
  depends on where the task is: a tick that finds the task in the middle of a wakeup leaves the
  semaphore or the timer to wake it again, so without either it is below the lag limit
  (`Lag`); and it says when it may be a slot early: only after the last wakeup of a tick, and
  with `LastProcessCount` such that the tone's wakeup in the same tick finds a slot to do or is
  forgiven once (`Early`).  TLC checks the invariant on the run's instance too.

Model-checked only: `Armed` and `InstrumentJustified` of `ScienceMission`.  Both rest on the times at
which overlapping sequences send their commands; the mission's tables are one instance with finite
constants and TLC explores all of it, so a proof would list by hand the states that the run
enumerates.  Liveness (`WakeupEnds`, `RtsProgress`, `EventuallyRequested`, `Entered`, `Left`,
`CatchesUp`) needs fairness and `ENABLED`, which the prover does not support.

## 6. What is not modelled

- Of MGR: `TimeTics` (carried in the packet, used once to set the clock), packet headers,
  events, the performance log.
- Of SC: see 3.3.  ATS times more than half the clock's range away from the clock.
- Of LC: typed comparisons, statistics and events; the critical data store, which this mission
  compiles out.
- Of the mission tables: the second and the third region, which repeat the first; RTS 5 and 37;
  the entries that concern no mode.
- Of SCH: what a slot sends, the commands on entries and groups, table validation, telemetry; the
  processing state (`SCH_GetProcessingState`, `sch_app.c:198`-203), which other applications may
  switch off and none of this mission does; the build without synchronisation to
  the MET, which this mission does not use.
- Of TIME: the command that sets the MET, time formats and adjustments, the limits on the delay of the
  tone's message, clients on other processors, callbacks but SCH's.
- Of SB: subscription reports, telemetry, file dumps, sequence counts, the message-ID map (a
  function), an OS queue failing for another reason than being full; the deletion of an application in
  the middle of a call (a listed hazard).
- Of TBL: tables shared by several applications (none of the mission's), critical and dump-only
  tables, user-defined addresses, `CFE_TBL_Modified`, dumps, telemetry; the end of an owner inside an
  update.
- The executive, as far as the others use it, is its possible outcomes: a reset comes at any time,
  an application ends and starts again.
- All components of section 1.2 that are not marked modelled; the list with reasons is in
  `PROJECT.json`.  Most of the repository is not flight logic: vendored libraries (SQLite, JSON,
  googletest, F Prime), unit tests, simulators and ground systems; that is why the map covers
  a small share of its lines.
