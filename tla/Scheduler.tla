------------------------------- MODULE Scheduler -------------------------------
(***************************************************************************)
(* The scheduler application, SCH (fsw/apps/sch/fsw/src): one task walks   *)
(* the slots of a table, a slot for each tick of 10 ms.  A binary          *)
(* semaphore wakes it, given by two callbacks in other tasks: the minor    *)
(* frame's in the thread of the timer, the major frame's, at the tone, in  *)
(* the task of time services.                                              *)
(*                                                                         *)
(* This is the mission's build: the timer of nos-linux is as coarse as a   *)
(* slot, so SyncToMET starts as SCH_MINOR_SYNCHRONIZED and the current     *)
(* slot is read from the mission elapsed time (MET).  OS_TimerSet refuses  *)
(* a call from a timer callback (osapi-time.c), so those that              *)
(* SCH_MinorFrameCallback makes change nothing: there is no long or short  *)
(* slot, and the startup timer expires once.  Attempts to find slot zero   *)
(* therefore end at the first, and SyncAttemptsLeft decides nothing.       *)
(*                                                                         *)
(* Of time services the model has what SCH depends on: which tones they    *)
(* accept, when the MET is counted from a new tone, and flywheel mode; the *)
(* tone is simulated, the time source internal.  The timer is external.    *)
(*                                                                         *)
(* Left out: what a slot sends, the commands on table entries, telemetry   *)
(* (MinorFramesSinceTone decides nothing in this build), the processing    *)
(* state that other applications may ask for (SCH_GetProcessingState), the *)
(* end of the task after an error of the bus, and the command that sets    *)
(* the MET.                                                                *)
(***************************************************************************)
EXTENDS Integers

CONSTANTS
    Slots,          \* SCH_TOTAL_SLOTS; a second has as many ticks
    MaxLag,         \* SCH_MAX_LAG_COUNT
    MaxPerWakeup,   \* SCH_MAX_SLOTS_PER_WAKEUP
    MaxNoisy,       \* SCH_MAX_NOISY_MAJORF
    WorstCase,      \* WorstCaseSlotsPerMinorFrame
    StartupPeriod,  \* SCH_STARTUP_PERIOD, in ticks
    TaskDelay,      \* ticks for which the task may be kept from its work
    ToneDelay,      \* ticks by which time services may be late with a tone
    ToneLimit,      \* CFE_PLATFORM_TIME_CFG_TONE_LIMIT, in ticks
    StartFly,       \* CFE_PLATFORM_TIME_CFG_START_FLY, in seconds
    TimerFirst      \* the task starts no wakeup between a tick and the timer's callback

ASSUME SchAssumption ==
    /\ {Slots, MaxLag, MaxPerWakeup, MaxNoisy, StartupPeriod, ToneLimit, StartFly} \subseteq Nat \ {0}
    /\ {WorstCase, TaskDelay, ToneDelay} \subseteq Nat
    /\ ToneDelay < Slots
    /\ TimerFirst \in BOOLEAN

\* The task is never so late that a whole table behind looks like none.
ASSUME LagAssumption == 1 < MaxLag /\ MaxLag + TaskDelay < Slots

VARIABLES
    now,        \* tick of the second; the tone is due at 0
    tone,       \* the tone: how far time services are with it, and for how long
    latch,      \* ToneSignalLatch of time services: the tick of the last tone
    atTone,     \* AtToneLatch: the tick from which the MET counts
    clock,      \* ClockFlyState and Forced2Fly; the seconds since atTone, until it flies
    timer,      \* the minor frame timer: ticks to its end, and what then
    sem,        \* TimeSemaphore
    frame,      \* MajorFrameSource, SyncToMET, LastSyncMETSlot and the noise detection
    next,       \* NextSlotNumber
    lastCount,  \* LastProcessCount
    todo,       \* ProcessCount in the loop over slots; 0 while the task waits
    late,       \* ticks since the task has work to do
    calm,       \* environment: from now on every task is in time
    tracked,    \* history: the tones came in time since the first that SCH took
    behind      \* history: slots that came due since then and were not done

environment == <<now, tone, latch, atTone, clock, timer>>
vars == <<environment, sem, frame, next, lastCount, todo, late, calm, tracked, behind>>

SyncSlot == Slots - 1      \* SCH_TIME_SYNC_SLOT

\* Slots from a to b, around the table.
Distance(a, b) == IF b < a THEN b - a + Slots ELSE b - a

\* SCH_GetMETSlotNumber and SCH_CustomGetCurrentSlotNumber.
METSlot == Distance(atTone, now)
CurrentSlot == Distance(frame.lastSync, METSlot)

\* The slot after slot.
After(slot) == IF slot = SyncSlot THEN 0 ELSE slot + 1

\* SCH_TimerInit and SCH_CustomLateInit.  The clock flies until its first update.
Init ==
    /\ now \in 0 .. SyncSlot
    /\ tone = [at |-> "done", age |-> 0] /\ latch = 0
    /\ clock \in [flying : BOOLEAN, forced : {FALSE}, since : {0}]
    /\ atTone \in IF clock.flying THEN 0 .. SyncSlot ELSE {0}
    /\ timer = [wait |-> StartupPeriod, periodic |-> FALSE, expired |-> FALSE]
    /\ sem = FALSE
    /\ frame = [source |-> "none", sync |-> "minor", lastSync |-> 0, ignore |-> FALSE, noisy |-> 0]
    /\ next = 0 /\ lastCount = 0 /\ todo = 0 /\ late = 0
    /\ calm = FALSE /\ tracked = FALSE /\ behind = 0

----------------------------------------------------------------------------
(***************************************************************************)
(* Time.  The thread of the timer is in time; the task and time services   *)
(* may be late.                                                            *)
(***************************************************************************)

Busy == sem \/ todo > 0

\* A tick of the simulated clock (NOS_timer_fire for the timer).
Tick ==
    /\ ~timer.expired
    /\ tone.at # "done" => ~calm /\ tone.age < ToneDelay
    /\ Busy => ~calm /\ late < TaskDelay
    /\ now' = After(now)
    /\ tone' = IF now' = 0 THEN [at |-> "due", age |-> 0]
               ELSE IF tone.at = "done" THEN tone
               ELSE [tone EXCEPT !.age = @ + 1]
    /\ clock' = IF now' = 0 /\ ~clock.flying /\ clock.since <= StartFly
                THEN [clock EXCEPT !.since = @ + 1] ELSE clock
    /\ timer' = IF timer.wait = 1
                THEN [timer EXCEPT !.wait = IF timer.periodic THEN 1 ELSE 0, !.expired = TRUE]
                ELSE [timer EXCEPT !.wait = IF timer.wait = 0 THEN 0 ELSE timer.wait - 1]
    /\ late' = IF Busy THEN late + 1 ELSE 0
    /\ tracked' = (tracked /\ tone.at \notin {"due", "given"})
    /\ behind' = IF tracked' THEN behind + 1 ELSE 0
    /\ UNCHANGED <<latch, atTone, sem, frame, next, lastCount, todo, calm>>

\* The environment's: no task is late any more.
CalmDown ==
    /\ ~calm
    /\ calm' = TRUE
    /\ UNCHANGED <<environment, sem, frame, next, lastCount, todo, late, tracked, behind>>

\* SCH_MinorFrameCallback.  Before the first tone it waits for slot zero of the MET.
MinorFrameCallback ==
    LET first == frame.source = "none"
        pending == first \/ (frame.source = "timer" /\ frame.sync = "pending")
        lost == pending /\ METSlot # 0
    IN /\ timer.expired
       /\ timer' = [timer EXCEPT !.expired = FALSE]
       /\ frame' = [frame EXCEPT
            !.source = IF first THEN "timer" ELSE @,
            !.sync = IF lost THEN "pending" ELSE IF pending THEN "major" ELSE @,
            !.lastSync = IF first \/ (pending /\ ~lost) THEN 0 ELSE @]
       /\ sem' = (sem \/ ~lost)
       /\ UNCHANGED <<now, tone, latch, atTone, clock, next, lastCount, todo, late, calm, tracked, behind>>

----------------------------------------------------------------------------
(***************************************************************************)
(* The tone: time services latch it, and if they accept it they call back  *)
(* and, later, after a message to themselves, count the MET from it.       *)
(***************************************************************************)

\* CFE_TIME_Local1HzStateMachine: with no update for too long the clock flies.
Flying == clock.flying \/ clock.since * Slots + now - atTone >= StartFly * Slots
ClockAtTone == [clock EXCEPT !.flying = Flying, !.since = IF Flying THEN 0 ELSE @]

\* CFE_TIME_Tone1HzISR accepts a tone about a second after the one before.
ToneInTime == now - latch < ToneLimit /\ latch - now < ToneLimit

\* CFE_TIME_OneHzCmd for a tone that is not accepted: SCH does not hear of it.
ToneRejected ==
    /\ tone.at = "due" /\ ~ToneInTime
    /\ tone' = [at |-> "done", age |-> 0]
    /\ latch' = now
    /\ clock' = ClockAtTone
    /\ UNCHANGED <<now, atTone, timer, sem, frame, next, lastCount, todo, late, calm, tracked, behind>>

\* The task has all but the last slots behind it.
Expected ==
    \/ frame.sync # "minor"
    \/ next = 0 \/ next >= Slots - WorstCase - 1

\* CFE_TIME_OneHzCmd for an accepted tone: SCH_MajorFrameCallback up to the semaphore.
MajorFrameCallback ==
    LET noisy == CASE Flying -> frame.noisy
                   [] ~Flying /\ Expected -> 0
                   [] OTHER -> IF frame.ignore THEN frame.noisy ELSE frame.noisy + 1
        ignore == frame.ignore \/ (~Flying /\ noisy >= MaxNoisy)
        sync == ~Flying /\ ~ignore
        first == sync /\ frame.source = "none" /\ frame.lastSync = 0 /\ now = 0 /\ atTone = 0
    IN /\ tone.at = "due" /\ ToneInTime
       /\ tone' = [tone EXCEPT !.at = "given"]
       /\ latch' = now
       /\ clock' = ClockAtTone
       /\ frame' = [frame EXCEPT
            !.noisy = noisy, !.ignore = ignore,
            !.source = IF sync THEN "tone" ELSE @,
            !.sync = IF sync THEN "minor" ELSE @]
       /\ timer' = IF sync THEN [timer EXCEPT !.wait = 1, !.periodic = TRUE] ELSE timer
       /\ sem' = (sem \/ sync)
       /\ tracked' = (tracked \/ first)
       /\ behind' = IF first THEN 1 ELSE behind
       /\ UNCHANGED <<now, atTone, next, lastCount, todo, late, calm>>

\* The end of SCH_MajorFrameCallback, after the semaphore.
MajorFrameSlot ==
    /\ tone.at = "given"
    /\ tone' = [tone EXCEPT !.at = "latched"]
    /\ frame' = [frame EXCEPT !.lastSync = METSlot]
    /\ UNCHANGED <<now, latch, atTone, clock, timer, sem, next, lastCount, todo, late, calm, tracked, behind>>

\* CFE_TIME_ToneVerify: the MET counts from the tone and the clock no longer flies,
\* unless a command made it fly.
ToneUpdate ==
    /\ tone.at = "latched"
    /\ tone' = [at |-> "done", age |-> 0]
    /\ IF clock.forced
       THEN UNCHANGED <<atTone, clock>>
       ELSE /\ atTone' = latch
            /\ clock' = [flying |-> FALSE, forced |-> FALSE, since |-> 0]
    /\ UNCHANGED <<now, latch, timer, sem, frame, next, lastCount, todo, late, calm, tracked, behind>>

\* CFE_TIME_SetState, by a command to the task that calls back.  Nothing reads the clock
\* state between two tones: a command then is one before the later of them.
SetState(flywheel) ==
    /\ tone.at \in {"due", "latched"}
    /\ clock' = IF flywheel THEN [flying |-> TRUE, forced |-> TRUE, since |-> 0]
                ELSE [clock EXCEPT !.forced = FALSE]
    /\ UNCHANGED <<now, tone, latch, atTone, timer, sem, frame, next, lastCount, todo, late,
                   calm, tracked, behind>>

----------------------------------------------------------------------------
(***************************************************************************)
(* The task.                                                               *)
(***************************************************************************)

\* ProcessCount: the slots from the next to the current one.  None is a whole table.
Count == Distance(next, CurrentSlot) + 1

\* Variant with a bug, for sensitivity: every early wakeup is forgiven.
ForgivenAlways ==
    CASE Count = 2 -> IF lastCount = 1 THEN 1 ELSE 2
      [] Count = Slots -> 1
      [] OTHER -> Count

\* One wakeup that is early or late by a slot is forgiven; a second early one does nothing.
Forgiven ==
    CASE Count = 2 -> IF lastCount = 1 THEN 1 ELSE 2
      [] Count = Slots -> IF lastCount = Slots THEN 0 ELSE 1
      [] OTHER -> Count

\* Variants with a bug, for sensitivity: all that is due at once, and never more than one.
AllowedAll == Forgiven
AllowedOne == IF Forgiven > 1 THEN 1 ELSE Forgiven

\* How many slots this wakeup does, when it does not skip.
Allowed == IF Forgiven > MaxPerWakeup THEN MaxPerWakeup ELSE Forgiven

\* SCH_ProcessCommands: of the commands, SCH_EnableSyncCmd changes what is modelled.
ProcessCommands ==
    \/ frame' = frame
    \/ frame' = [frame EXCEPT !.ignore = FALSE, !.noisy = 0]

\* SCH_ProcessScheduleTable up to its loop.
Wakeup ==
    LET skip == Forgiven > MaxLag
    IN /\ sem /\ todo = 0
       /\ TimerFirst => ~timer.expired
       /\ sem' = FALSE
       /\ lastCount' = Count
       /\ todo' = IF skip THEN 1 ELSE Allowed
       /\ next' = IF skip THEN CurrentSlot ELSE next
       /\ IF skip /\ next + Forgiven > SyncSlot THEN ProcessCommands ELSE frame' = frame
       /\ behind' = IF tracked /\ skip THEN behind - (Forgiven - 1) ELSE behind
       /\ late' = IF todo' > 0 THEN late ELSE 0
       /\ UNCHANGED <<environment, calm, tracked>>

\* SCH_ProcessNextSlot.
ProcessNextSlot ==
    /\ todo > 0
    /\ todo' = todo - 1
    /\ IF next = SyncSlot THEN ProcessCommands ELSE frame' = frame
    /\ next' = After(next)
    /\ behind' = IF tracked THEN behind - 1 ELSE behind
    /\ late' = IF todo' > 0 \/ sem THEN late ELSE 0
    /\ UNCHANGED <<environment, sem, lastCount, calm, tracked>>

Next ==
    \/ Tick \/ CalmDown
    \/ MinorFrameCallback
    \/ ToneRejected \/ MajorFrameCallback \/ MajorFrameSlot \/ ToneUpdate
    \/ \E flywheel \in BOOLEAN : SetState(flywheel)
    \/ Wakeup \/ ProcessNextSlot

Spec == Init /\ [][Next]_vars

\* Time goes on, and every task runs when it has something to do.  No command need come.
LiveSpec ==
    /\ Spec
    /\ WF_vars(Tick) /\ WF_vars(MinorFrameCallback)
    /\ WF_vars(ToneRejected) /\ WF_vars(MajorFrameCallback)
    /\ WF_vars(MajorFrameSlot) /\ WF_vars(ToneUpdate)
    /\ WF_vars(Wakeup) /\ WF_vars(ProcessNextSlot)

----------------------------------------------------------------------------
(***************************************************************************)
(* Properties.                                                             *)
(***************************************************************************)

\* Types.  NextSlotNumber indexes the table; a wakeup does a bounded number of slots.
TypeOK ==
    /\ now \in 0 .. SyncSlot /\ latch \in 0 .. SyncSlot /\ atTone \in 0 .. SyncSlot
    /\ tone \in [at : {"due", "given", "latched", "done"}, age : 0 .. ToneDelay]
    /\ clock \in [flying : BOOLEAN, forced : BOOLEAN, since : 0 .. StartFly + 1]
    /\ timer \in [wait : 0 .. StartupPeriod, periodic : BOOLEAN, expired : BOOLEAN]
    /\ sem \in BOOLEAN /\ calm \in BOOLEAN /\ tracked \in BOOLEAN
    /\ frame \in [source : {"none", "timer", "tone"}, sync : {"minor", "pending", "major"},
                  lastSync : 0 .. SyncSlot, ignore : BOOLEAN, noisy : 0 .. MaxNoisy]
    /\ next \in 0 .. SyncSlot
    /\ lastCount \in 0 .. Slots /\ todo \in 0 .. MaxPerWakeup /\ late \in 0 .. TaskDelay
    /\ behind \in Int

\* While the tones come in time, a wakeup counts exactly the slots that came due and were not
\* done (none of them reads as a whole table): late wakeups, two in one tick, wakeups forgiven
\* and slots skipped never add up to a slot done twice or a pass over the table lost, and slots
\* are skipped only when the task is too far behind (SCH_ProcessScheduleTable).
InStep ==
    tracked =>
       /\ behind >= -1
       /\ sem /\ todo = 0 /\ ~timer.expired => Count = IF behind = 0 THEN Slots ELSE behind

\* Whatever came before (late and rejected tones, which shift the MET under the slots, a late
\* task, a tone that is ignored as noisy, flywheel mode by itself or by command), once every
\* task is in time the schedule is with the clock again: the slot that SCH computes is the
\* tick of the second, and the next slot is that one or, by an early wakeup, one or two after it.
\* A clock that was shifted and then commanded to fly stays shifted; LastSyncMETSlot
\* (SCH_MajorFrameCallback) makes up for it.
CatchesUp ==
    (calm /\ timer.periodic) ~>
        [](CurrentSlot = now /\ next \in {now, After(now), After(After(now))})
=============================================================================
