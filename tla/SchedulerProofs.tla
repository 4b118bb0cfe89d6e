---------------------------- MODULE SchedulerProofs ----------------------------
(***************************************************************************)
(* Scheduler for any number of slots, any limits and any lateness of its   *)
(* task that LagAssumption allows: the state keeps its type, and while the *)
(* tones come in time a wakeup counts the slots that are to be done.       *)
(***************************************************************************)
EXTENDS Scheduler, TLAPS

\* Until the first callback the task has nothing to do; it is late only with work.
Quiet ==
  /\ ~Busy => late = 0
  /\ frame.source = "none" => next = 0 /\ ~Busy
  /\ ~frame.ignore => frame.noisy < MaxNoisy

\* Tones in time leave the slots where they are, and the timer runs.
OnTone ==
  /\ frame.source = "tone" /\ timer.periodic /\ timer.wait = 1
  /\ frame.lastSync = 0 /\ atTone = 0
  /\ tone.at \in {"due", "given"} => now = 0
  /\ tone.at \in {"given", "latched"} => latch = 0

\* The next slot is as far behind the clock as behind says, around the table.
Place == next + behind - (now + 1) \in {0 - Slots, 0, Slots}

\* The task is never further behind than what makes it skip, and its lateness:
\* a tick within a wakeup leaves the semaphore or the timer to wake it again.
Lag ==
  /\ behind <= MaxLag + late
  /\ ~sem => behind - todo <= MaxLag
  /\ ~sem /\ ~timer.expired => behind - todo < MaxLag

\* The task is a slot early only after the last wakeup of a tick, and a second
\* wakeup of the tick of the tone finds a slot to do, or the first early one noted.
Early ==
  /\ behind - todo >= -1
  /\ behind - todo = -1 =>
       lastCount = Slots /\ ~sem /\ ~timer.expired /\ tone.at # "due"
  /\ behind - todo = 0 /\ (sem \/ timer.expired) /\ tone.at = "due" => lastCount = Slots

Tracking == OnTone /\ Place /\ Lag /\ Early

IInv == TypeOK /\ Quiet /\ (tracked => Tracking)

----------------------------------------------------------------------------

LEMMA Bounds ==
  /\ Slots \in Nat /\ MaxLag \in Nat /\ MaxPerWakeup \in Nat /\ MaxNoisy \in Nat
  /\ StartupPeriod \in Nat /\ StartFly \in Nat /\ WorstCase \in Nat /\ TaskDelay \in Nat /\ ToneDelay \in Nat
  /\ 2 < Slots /\ 1 < MaxLag /\ 0 < MaxPerWakeup /\ 0 < MaxNoisy /\ 0 < StartupPeriod
  /\ MaxLag + TaskDelay < Slots /\ SyncSlot = Slots - 1
  BY SchAssumption, LagAssumption DEF SyncSlot

\* Distance and After stay in the table.
LEMMA InTable ==
  ASSUME NEW a \in 0 .. SyncSlot, NEW b \in 0 .. SyncSlot
  PROVE  Distance(a, b) \in 0 .. SyncSlot /\ After(a) \in 0 .. SyncSlot /\ Distance(0, b) = b
  BY Bounds DEF Distance, After

LEMMA InitIInv == Init => IInv
<1> SUFFICES ASSUME Init PROVE IInv
  OBVIOUS
<1>1. tone \in [at : {"due", "given", "latched", "done"}, age : 0 .. ToneDelay]
  BY Bounds DEF Init
<1>2. timer \in [wait : 0 .. StartupPeriod, periodic : BOOLEAN, expired : BOOLEAN]
  BY Bounds DEF Init
<1>3. frame \in [source : {"none", "timer", "tone"}, sync : {"minor", "pending", "major"},
                lastSync : 0 .. SyncSlot, ignore : BOOLEAN, noisy : 0 .. MaxNoisy]
  BY Bounds DEF Init
<1>4. /\ now \in 0 .. SyncSlot /\ latch \in 0 .. SyncSlot /\ atTone \in 0 .. SyncSlot
      /\ next \in 0 .. SyncSlot /\ lastCount \in 0 .. Slots /\ todo \in 0 .. MaxPerWakeup
      /\ late \in 0 .. TaskDelay /\ behind \in Int
  BY Bounds DEF Init
<1>6. sem \in BOOLEAN /\ calm \in BOOLEAN /\ tracked \in BOOLEAN
  BY DEF Init
<1>8. clock \in [flying : BOOLEAN, forced : BOOLEAN, since : 0 .. StartFly + 1]
  <2>1. {FALSE} \subseteq BOOLEAN /\ {0} \subseteq 0 .. StartFly + 1
    BY Bounds
  <2>2. clock \in [flying : BOOLEAN, forced : {FALSE}, since : {0}]
    BY DEF Init
  <2> QED  BY <2>1, <2>2
<1>7. TypeOK
  BY <1>1, <1>2, <1>3, <1>4, <1>6, <1>8 DEF TypeOK
<1>5. Quiet
  BY Bounds DEF Init, Quiet, Busy
<1> QED  BY <1>5, <1>7 DEF Init, IInv

\* While the tones come in time the current slot is the tick of the second.
LEMMA Current ==
  ASSUME TypeOK
  PROVE  /\ METSlot \in 0 .. SyncSlot /\ CurrentSlot \in 0 .. SyncSlot
         /\ Count \in 1 .. Slots
         /\ OnTone => METSlot = now /\ CurrentSlot = now
<1>1. METSlot \in 0 .. SyncSlot /\ (OnTone => METSlot = now)
  BY InTable DEF METSlot, TypeOK, OnTone
<1>2. CurrentSlot \in 0 .. SyncSlot /\ (OnTone => CurrentSlot = now)
  BY <1>1, InTable DEF CurrentSlot, TypeOK, OnTone
<1>3. Count \in 1 .. Slots
  BY <1>2, InTable, Bounds DEF Count, TypeOK
<1> QED  BY <1>1, <1>2, <1>3

\* At a wakeup, Count is what is behind; nothing reads as a whole table.
LEMMA CountIsBehind ==
  ASSUME IInv, tracked, sem, todo = 0
  PROVE  /\ behind \in 0 .. MaxLag + late
         /\ MaxLag + late < Slots
         /\ Count = IF behind = 0 THEN Slots ELSE behind
<1>1. behind \in Int /\ late \in 0 .. TaskDelay /\ now \in 0 .. SyncSlot /\ next \in 0 .. SyncSlot
  BY DEF IInv, TypeOK
<1>2. behind \in 0 .. MaxLag + late /\ MaxLag + late < Slots
  BY <1>1, Bounds DEF IInv, Tracking, Lag, Early
<1>3. CurrentSlot = now
  BY Current DEF IInv, Tracking
<1>4. Count = IF behind = 0 THEN Slots ELSE behind
  BY <1>1, <1>2, <1>3, Bounds DEF Count, Distance, IInv, Tracking, Place
<1> QED  BY <1>2, <1>4

----------------------------------------------------------------------------

LEMMA TickIInv ==
  ASSUME IInv, Tick
  PROVE  IInv'
<1> USE Bounds
<1>1. now' \in 0 .. SyncSlot
  BY InTable DEF Tick, IInv, TypeOK
<1>2. tone' \in [at : {"due", "given", "latched", "done"}, age : 0 .. ToneDelay]
  BY DEF Tick, IInv, TypeOK
<1>3. timer' \in [wait : 0 .. StartupPeriod, periodic : BOOLEAN, expired : BOOLEAN]
  <2>1. timer \in [wait : 0 .. StartupPeriod, periodic : BOOLEAN, expired : BOOLEAN]
    BY DEF IInv, TypeOK
  <2>2. (IF timer.periodic THEN 1 ELSE 0) \in 0 .. StartupPeriod
    OBVIOUS
  <2>3. (IF timer.wait = 0 THEN 0 ELSE timer.wait - 1) \in 0 .. StartupPeriod
    BY <2>1
  <2>4. CASE timer.wait = 1
    BY <2>1, <2>2, <2>4 DEF Tick
  <2>5. CASE timer.wait # 1
    BY <2>1, <2>3, <2>5 DEF Tick
  <2> QED  BY <2>4, <2>5
<1>4. late' \in 0 .. TaskDelay
  BY DEF Tick, IInv, TypeOK
<1>5. tracked' \in BOOLEAN /\ behind' \in Int
  BY DEF Tick, IInv, TypeOK
<1>9. clock' \in [flying : BOOLEAN, forced : BOOLEAN, since : 0 .. StartFly + 1]
  BY DEF Tick, IInv, TypeOK
<1>6. TypeOK'
  BY <1>1, <1>2, <1>3, <1>4, <1>5, <1>9 DEF Tick, IInv, TypeOK
<1>7. Quiet'
  BY DEF Tick, IInv, Quiet, Busy
<1>8. ASSUME tracked' PROVE Tracking'
  <2>1. /\ tracked /\ Tracking /\ behind' = behind + 1
        /\ tone.at \notin {"due", "given"} /\ ~timer.expired
    BY <1>8 DEF Tick, IInv
  <2>2. timer'.expired /\ timer'.periodic /\ timer'.wait = 1
    <3>1. timer.wait = 1 /\ timer.periodic
      BY <2>1 DEF Tracking, OnTone
    <3>2. timer' = [timer EXCEPT !.wait = 1, !.expired = TRUE]
      BY <3>1 DEF Tick
    <3> QED  BY <3>1, <3>2 DEF IInv, TypeOK
  <2>3. OnTone'
    BY <2>1, <2>2 DEF Tick, IInv, TypeOK, Tracking, OnTone
  <2>4. Place'
    <3>1. /\ now' = After(now) /\ next' = next /\ behind' = behind + 1 /\ behind \in Int
          /\ now \in 0 .. SyncSlot /\ next \in 0 .. SyncSlot /\ todo \in 0 .. MaxPerWakeup
          /\ late \in 0 .. TaskDelay
      BY <2>1 DEF Tick, IInv, TypeOK
    <3> QED  BY <2>1, <3>1 DEF Tracking, Place, Lag, Early, After
  <2>5. Lag'
    BY <2>1, <2>2 DEF Tick, IInv, TypeOK, Tracking, Lag, Busy, Quiet
  <2>6. Early'
    BY <2>1, <2>2 DEF Tick, IInv, TypeOK, Tracking, Early
  <2> QED  BY <2>3, <2>4, <2>5, <2>6 DEF Tracking
<1> QED  BY <1>6, <1>7, <1>8 DEF IInv

LEMMA MinorFrameIInv ==
  ASSUME IInv, MinorFrameCallback
  PROVE  IInv'
<1> USE Bounds
<1>1. timer' \in [wait : 0 .. StartupPeriod, periodic : BOOLEAN, expired : BOOLEAN]
  BY DEF MinorFrameCallback, IInv, TypeOK
<1>2. /\ frame' \in [source : {"none", "timer", "tone"}, sync : {"minor", "pending", "major"},
                    lastSync : 0 .. SyncSlot, ignore : BOOLEAN, noisy : 0 .. MaxNoisy]
      /\ frame'.ignore = frame.ignore /\ frame'.noisy = frame.noisy
      /\ frame'.source # "none"
      /\ frame.source = "tone" => frame' = frame /\ sem'
  <2> DEFINE first == frame.source = "none"
             pending == first \/ (frame.source = "timer" /\ frame.sync = "pending")
             lost == pending /\ METSlot # 0
             sync == IF lost THEN "pending" ELSE IF pending THEN "major" ELSE frame.sync
             lastSync == IF first \/ (pending /\ ~lost) THEN 0 ELSE frame.lastSync
  <2>1. /\ frame' = [frame EXCEPT !.source = IF first THEN "timer" ELSE frame.source,
                                 !.sync = sync, !.lastSync = lastSync]
        /\ sem' = (sem \/ ~lost)
    BY DEF MinorFrameCallback
  <2>2. sync \in {"minor", "pending", "major"} /\ lastSync \in 0 .. SyncSlot
    BY DEF IInv, TypeOK
  <2>3. frame.source = "tone" => ~pending
    OBVIOUS
  <2> HIDE DEF pending, lost, sync, lastSync
  <2>4. frame.source = "tone" => sync = frame.sync /\ lastSync = frame.lastSync /\ ~lost
    BY <2>3 DEF sync, lastSync, lost
  <2> QED  BY <2>1, <2>2, <2>4 DEF IInv, TypeOK
<1>3. sem' \in BOOLEAN
  BY DEF MinorFrameCallback
<1>4. TypeOK'
  BY <1>1, <1>2, <1>3 DEF MinorFrameCallback, IInv, TypeOK
<1>5. Quiet'
  BY <1>2 DEF MinorFrameCallback, IInv, Quiet, Busy
<1>6. ASSUME tracked' PROVE Tracking'
  <2>1. tracked /\ Tracking /\ frame' = frame /\ sem'
    BY <1>2, <1>6 DEF MinorFrameCallback, IInv, Tracking, OnTone
  <2>2. timer'.periodic = timer.periodic /\ timer'.wait = timer.wait /\ timer.expired /\ ~timer'.expired
    BY DEF MinorFrameCallback, IInv, TypeOK
  <2>3. OnTone' /\ Place' /\ Lag' /\ Early'
    BY <2>1, <2>2 DEF MinorFrameCallback, Tracking, OnTone, Place, Lag, Early
  <2> QED  BY <2>3 DEF Tracking
<1> QED  BY <1>4, <1>5, <1>6 DEF IInv

\* What time services do at a tone, accepted or not.
LEMMA ClockType ==
  ASSUME IInv
  PROVE  /\ Flying \in BOOLEAN
         /\ ClockAtTone \in [flying : BOOLEAN, forced : BOOLEAN, since : 0 .. StartFly + 1]
<1>1. clock \in [flying : BOOLEAN, forced : BOOLEAN, since : 0 .. StartFly + 1]
  BY DEF IInv, TypeOK
<1>2. Flying \in BOOLEAN
  BY <1>1 DEF Flying
<1>3. (IF Flying THEN 0 ELSE clock.since) \in 0 .. StartFly + 1
  BY <1>1, Bounds
<1>4. ClockAtTone \in [flying : BOOLEAN, forced : BOOLEAN, since : 0 .. StartFly + 1]
  BY <1>1, <1>2, <1>3 DEF ClockAtTone
<1> QED  BY <1>2, <1>4

LEMMA ToneRejectedIInv ==
  ASSUME IInv, ToneRejected
  PROVE  IInv'
<1> USE Bounds
<1>1. tone' \in [at : {"due", "given", "latched", "done"}, age : 0 .. ToneDelay]
      /\ tone'.at = "done"
  BY DEF ToneRejected
<1>2. clock' \in [flying : BOOLEAN, forced : BOOLEAN, since : 0 .. StartFly + 1]
  BY ClockType DEF ToneRejected
<1>3. TypeOK'
  BY <1>1, <1>2 DEF ToneRejected, IInv, TypeOK
<1>4. Quiet'
  BY DEF ToneRejected, IInv, Quiet, Busy
<1>5. ASSUME tracked PROVE Tracking'
  BY <1>1, <1>5 DEF ToneRejected, IInv, Tracking, OnTone, Place, Lag, Early
<1> QED  BY <1>3, <1>4, <1>5 DEF ToneRejected, IInv

LEMMA SetStateIInv ==
  ASSUME IInv, NEW flywheel \in BOOLEAN, SetState(flywheel)
  PROVE  IInv'
<1> USE Bounds
<1>1. clock' \in [flying : BOOLEAN, forced : BOOLEAN, since : 0 .. StartFly + 1]
  <2>1. clock \in [flying : BOOLEAN, forced : BOOLEAN, since : 0 .. StartFly + 1]
    BY DEF IInv, TypeOK
  <2>2. CASE flywheel
    BY <2>2 DEF SetState
  <2>3. CASE ~flywheel
    BY <2>1, <2>3 DEF SetState
  <2> QED  BY <2>2, <2>3
<1>2. TypeOK'
  BY <1>1 DEF SetState, IInv, TypeOK
<1>3. Quiet'
  BY DEF SetState, IInv, Quiet, Busy
<1>4. ASSUME tracked PROVE Tracking'
  BY <1>4 DEF SetState, IInv, Tracking, OnTone, Place, Lag, Early
<1> QED  BY <1>2, <1>3, <1>4 DEF SetState, IInv

LEMMA MajorFrameIInv ==
  ASSUME IInv, MajorFrameCallback
  PROVE  IInv'
<1> USE Bounds
<1> DEFINE noisy == CASE Flying -> frame.noisy
                      [] ~Flying /\ Expected -> 0
                      [] OTHER -> IF frame.ignore THEN frame.noisy ELSE frame.noisy + 1
           ignore == frame.ignore \/ (~Flying /\ noisy >= MaxNoisy)
           sync == ~Flying /\ ~ignore
           first == sync /\ frame.source = "none" /\ frame.lastSync = 0 /\ now = 0 /\ atTone = 0
<1>2. /\ noisy \in 0 .. MaxNoisy /\ ignore \in BOOLEAN
      /\ ~ignore => noisy < MaxNoisy
  <2>1. frame.noisy \in 0 .. MaxNoisy /\ frame.ignore \in BOOLEAN
        /\ (~frame.ignore => frame.noisy < MaxNoisy)
    BY DEF IInv, TypeOK, Quiet
  <2>2. CASE Flying
    BY <2>1, <2>2
  <2>3. CASE ~Flying /\ Expected
    BY <2>1, <2>3
  <2>4. CASE ~Flying /\ ~Expected
    BY <2>1, <2>4
  <2> QED  BY <2>2, <2>3, <2>4
<1>3. /\ tone.at = "due" /\ tone' = [tone EXCEPT !.at = "given"] /\ latch' = now
      /\ clock' = ClockAtTone
      /\ frame' = [frame EXCEPT !.noisy = noisy, !.ignore = ignore,
                               !.source = IF sync THEN "tone" ELSE @,
                               !.sync = IF sync THEN "minor" ELSE @]
      /\ timer' = IF sync THEN [timer EXCEPT !.wait = 1, !.periodic = TRUE] ELSE timer
      /\ sem' = (sem \/ sync) /\ tracked' = (tracked \/ first)
      /\ behind' = IF first THEN 1 ELSE behind
      /\ UNCHANGED <<now, atTone, next, lastCount, todo, late, calm>>
  BY DEF MajorFrameCallback
<1>4. sync \in BOOLEAN /\ first \in BOOLEAN /\ (first => sync)
      /\ (first => frame.source = "none" /\ frame.lastSync = 0 /\ now = 0 /\ atTone = 0)
  OBVIOUS
<1> HIDE DEF noisy, ignore, sync, first
<1>5. /\ frame' \in [source : {"none", "timer", "tone"}, sync : {"minor", "pending", "major"},
                    lastSync : 0 .. SyncSlot, ignore : BOOLEAN, noisy : 0 .. MaxNoisy]
      /\ frame'.source = (IF sync THEN "tone" ELSE frame.source)
      /\ frame'.lastSync = frame.lastSync
      /\ frame'.ignore = ignore /\ frame'.noisy = noisy
  BY <1>2, <1>3, <1>4 DEF IInv, TypeOK
<1>6. /\ timer' \in [wait : 0 .. StartupPeriod, periodic : BOOLEAN, expired : BOOLEAN]
      /\ timer'.expired = timer.expired
      /\ sync => timer'.wait = 1 /\ timer'.periodic
      /\ ~sync => timer' = timer
  <2>3. timer \in [wait : 0 .. StartupPeriod, periodic : BOOLEAN, expired : BOOLEAN]
    BY DEF IInv, TypeOK
  <2>1. CASE sync
    <3>1. timer' = [timer EXCEPT !.wait = 1, !.periodic = TRUE]
      BY <1>3, <2>1
    <3>2. timer' \in [wait : 0 .. StartupPeriod, periodic : BOOLEAN, expired : BOOLEAN]
      <4>1. 1 \in 0 .. StartupPeriod
        OBVIOUS
      <4> QED  BY <2>3, <3>1, <4>1
    <3>3. timer'.expired = timer.expired /\ timer'.wait = 1
      BY <2>3, <3>1
    <3>4. timer'.periodic
      BY <2>3, <3>1
    <3> QED  BY <2>1, <3>2, <3>3, <3>4
  <2>2. CASE ~sync
    <3>1. timer' = timer
      BY <1>3, <2>2
    <3> QED  BY <2>2, <2>3, <3>1
  <2> QED  BY <2>1, <2>2
<1>7. tone' \in [at : {"due", "given", "latched", "done"}, age : 0 .. ToneDelay]
      /\ tone'.at = "given"
  BY <1>3 DEF IInv, TypeOK
<1>8. sem' \in BOOLEAN /\ tracked' \in BOOLEAN /\ behind' \in Int
  <2>1. behind' \in Int
    BY <1>3, <1>4 DEF IInv, TypeOK
  <2>2. sem' \in BOOLEAN /\ tracked' \in BOOLEAN
    BY <1>3, ZenonT(20)
  <2> QED  BY <2>1, <2>2
<1>9. TypeOK'
  BY <1>3, <1>5, <1>6, <1>7, <1>8, ClockType DEF IInv, TypeOK
<1>10. Quiet'
  BY <1>2, <1>3, <1>4, <1>5 DEF IInv, Quiet, Busy
<1>11. CASE first
  <2>1. /\ sync /\ sem' /\ behind' = 1 /\ next = 0 /\ todo = 0 /\ late = 0 /\ now = 0
        /\ atTone = 0 /\ frame.lastSync = 0
    <3>1. sync /\ frame.source = "none" /\ frame.lastSync = 0 /\ now = 0 /\ atTone = 0
      BY <1>4, <1>11
    <3>2. sem' /\ behind' = 1
      BY <1>3, <1>11, <3>1
    <3>3. next = 0 /\ ~Busy /\ late = 0
      BY <3>1 DEF IInv, Quiet
    <3>4. todo = 0
      BY <3>3 DEF Busy, IInv, TypeOK
    <3> QED  BY <3>1, <3>2, <3>3, <3>4
  <2>2. OnTone' /\ Place' /\ Lag' /\ Early'
    BY <2>1, <1>3, <1>5, <1>6, <1>7 DEF OnTone, Place, Lag, Early
  <2> QED  BY <2>2, <1>9, <1>10 DEF IInv, Tracking
<1>12. CASE ~first
  <2>1. behind' = behind
    BY <1>3, <1>12
  <2>3. tracked' = tracked
    <3>1. tracked \in BOOLEAN /\ tracked' = (tracked \/ first)
      BY <1>3 DEF IInv, TypeOK
    <3> QED  BY <3>1, <1>12, ZenonT(20)
  <2>2. ASSUME tracked PROVE OnTone' /\ Place' /\ Lag' /\ Early'
    <3>1. OnTone /\ Place /\ Lag /\ Early
      BY <2>2 DEF IInv, Tracking
    <3>2. OnTone'
      BY <3>1, <1>3, <1>5, <1>6, <1>7 DEF OnTone
    <3>3. Place'
      BY <3>1, <2>1, <1>3 DEF Place
    <3>4. Lag' /\ Early'
      BY <3>1, <2>1, <1>3, <1>6, <1>7 DEF Lag, Early, IInv, TypeOK
    <3> QED  BY <3>2, <3>3, <3>4
  <2> QED  BY <2>2, <2>3, <1>9, <1>10 DEF IInv, Tracking
<1> QED  BY <1>11, <1>12

LEMMA MajorFrameSlotIInv ==
  ASSUME IInv, MajorFrameSlot
  PROVE  IInv'
<1> USE Bounds
<1>1. METSlot \in 0 .. SyncSlot /\ (OnTone => METSlot = now)
  BY Current DEF IInv
<1>2. TypeOK'
  BY <1>1 DEF MajorFrameSlot, IInv, TypeOK
<1>3. frame' = [frame EXCEPT !.lastSync = METSlot] /\ tone' = [tone EXCEPT !.at = "latched"] /\ tone.at = "given"
  BY DEF MajorFrameSlot
<1>4. /\ frame'.source = frame.source /\ frame'.ignore = frame.ignore /\ frame'.noisy = frame.noisy
      /\ frame'.lastSync = METSlot /\ tone'.at = "latched"
  BY <1>3 DEF IInv, TypeOK
<1>5. Quiet'
  BY <1>4 DEF MajorFrameSlot, IInv, Quiet, Busy
<1>6. ASSUME tracked PROVE Tracking'
  <2>1. OnTone /\ Place /\ Lag /\ Early
    BY <1>6 DEF IInv, Tracking
  <2>2. OnTone'
    BY <2>1, <1>1, <1>3, <1>4 DEF MajorFrameSlot, OnTone
  <2>3. Place' /\ Lag' /\ Early'
    BY <2>1, <1>3, <1>4 DEF MajorFrameSlot, Place, Lag, Early
  <2> QED  BY <2>2, <2>3 DEF Tracking
<1> QED  BY <1>2, <1>5, <1>6 DEF MajorFrameSlot, IInv

LEMMA ToneUpdateIInv ==
  ASSUME IInv, ToneUpdate
  PROVE  IInv'
<1> USE Bounds
<1>4. tone' \in [at : {"due", "given", "latched", "done"}, age : 0 .. ToneDelay]
  BY DEF ToneUpdate
<1>5. clock' \in [flying : BOOLEAN, forced : BOOLEAN, since : 0 .. StartFly + 1]
  <2>1. CASE clock.forced
    <3>1. clock' = clock
      BY <2>1 DEF ToneUpdate
    <3> QED  BY <3>1 DEF IInv, TypeOK
  <2>2. CASE ~clock.forced
    <3>1. clock' = [flying |-> FALSE, forced |-> FALSE, since |-> 0]
      BY <2>2 DEF ToneUpdate
    <3> QED  BY <3>1
  <2> QED  BY <2>1, <2>2
<1>1. TypeOK'
  BY <1>4, <1>5 DEF ToneUpdate, IInv, TypeOK
<1>2. Quiet'
  BY DEF ToneUpdate, IInv, Quiet, Busy
<1>3. ASSUME tracked PROVE Tracking'
  BY <1>3 DEF ToneUpdate, IInv, Tracking, OnTone, Place, Lag, Early
<1> QED  BY <1>1, <1>2, <1>3 DEF ToneUpdate, IInv

\* Commands only take the noise detection back.
LEMMA Commands ==
  ASSUME IInv, ProcessCommands \/ frame' = frame
  PROVE  /\ frame' \in [source : {"none", "timer", "tone"}, sync : {"minor", "pending", "major"},
                        lastSync : 0 .. SyncSlot, ignore : BOOLEAN, noisy : 0 .. MaxNoisy]
         /\ frame'.source = frame.source /\ frame'.lastSync = frame.lastSync
         /\ ~frame'.ignore => frame'.noisy < MaxNoisy
<1> USE Bounds
<1>1. CASE frame' = frame
  BY <1>1 DEF IInv, TypeOK, Quiet
<1>2. CASE frame' = [frame EXCEPT !.ignore = FALSE, !.noisy = 0]
  <2>1. frame \in [source : {"none", "timer", "tone"}, sync : {"minor", "pending", "major"},
                   lastSync : 0 .. SyncSlot, ignore : BOOLEAN, noisy : 0 .. MaxNoisy]
    BY DEF IInv, TypeOK
  <2>2. frame'.noisy = 0 /\ frame'.source = frame.source /\ frame'.lastSync = frame.lastSync
    BY <1>2, <2>1
  <2>3. frame' \in [source : {"none", "timer", "tone"}, sync : {"minor", "pending", "major"},
                    lastSync : 0 .. SyncSlot, ignore : BOOLEAN, noisy : 0 .. MaxNoisy]
    <3>1. 0 \in 0 .. MaxNoisy
      OBVIOUS
    <3> QED  BY <1>2, <2>1, <3>1
  <2> QED  BY <2>2, <2>3
<1> QED  BY <1>1, <1>2 DEF ProcessCommands

LEMMA WakeupIInv ==
  ASSUME IInv, Wakeup, TimerFirst
  PROVE  IInv'
<1> USE Bounds
<1> DEFINE skip == Forgiven > MaxLag
<1>1. /\ Count \in 1 .. Slots /\ CurrentSlot \in 0 .. SyncSlot
      /\ OnTone => CurrentSlot = now
  BY Current DEF IInv
<1>2. /\ Forgiven \in 0 .. Slots
      /\ Forgiven = 0 <=> Count = Slots /\ lastCount = Slots
      /\ Forgiven = 1 => Count \in {1, 2, Slots}
      /\ Forgiven > 1 => Forgiven = Count /\ Count # Slots
  BY <1>1 DEF Forgiven
<1>3. Allowed \in 0 .. MaxPerWakeup /\ Allowed <= Forgiven /\ (Forgiven > 0 => Allowed > 0)
  BY <1>2 DEF Allowed
<1>4. /\ sem /\ todo = 0 /\ ~timer.expired /\ sem' = FALSE /\ lastCount' = Count
      /\ todo' = (IF skip THEN 1 ELSE Allowed)
      /\ next' = (IF skip THEN CurrentSlot ELSE next)
      /\ ProcessCommands \/ frame' = frame
      /\ behind' = (IF tracked /\ skip THEN behind - (Forgiven - 1) ELSE behind)
      /\ late' = (IF todo' > 0 THEN late ELSE 0)
      /\ UNCHANGED <<now, tone, latch, atTone, clock, timer, calm, tracked>>
  BY DEF Wakeup, environment
<1>5. /\ frame' \in [source : {"none", "timer", "tone"}, sync : {"minor", "pending", "major"},
                    lastSync : 0 .. SyncSlot, ignore : BOOLEAN, noisy : 0 .. MaxNoisy]
      /\ frame'.source = frame.source /\ frame'.lastSync = frame.lastSync
      /\ ~frame'.ignore => frame'.noisy < MaxNoisy
  BY <1>4, Commands
<1>6. /\ todo' \in 0 .. MaxPerWakeup /\ next' \in 0 .. SyncSlot
      /\ late' \in 0 .. TaskDelay /\ behind' \in Int
  BY <1>1, <1>2, <1>3, <1>4 DEF IInv, TypeOK
<1>7. TypeOK'
  <2>1. sem' \in BOOLEAN
    BY <1>4
  <2>2. lastCount' \in 0 .. Slots
    BY <1>1, <1>4
  <2>3. UNCHANGED <<now, tone, latch, atTone, clock, timer, calm, tracked>>
    BY <1>4
  <2> QED  BY <2>1, <2>2, <2>3, <1>5, <1>6 DEF IInv, TypeOK
<1>8. Quiet'
  <2>1. frame.source # "none"
    BY <1>4 DEF IInv, Quiet, Busy
  <2> QED  BY <1>4, <1>5, <1>6, <2>1 DEF Quiet, Busy
<1>9. ASSUME tracked PROVE Tracking'
  <2>1. OnTone /\ Place /\ Lag /\ Early
    BY <1>9 DEF IInv, Tracking
  <2>2. /\ behind \in 0 .. MaxLag + late /\ MaxLag + late < Slots
        /\ Count = IF behind = 0 THEN Slots ELSE behind
    BY <1>4, <1>9, CountIsBehind
  <2>3. OnTone'
    BY <2>1, <1>4, <1>5 DEF OnTone
  <2>4. late \in 0 .. TaskDelay /\ now \in 0 .. SyncSlot /\ next \in 0 .. SyncSlot
    BY DEF IInv, TypeOK
  <2>5. CASE skip
    <3>1. Forgiven = behind /\ behind > MaxLag
      BY <2>2, <2>5, <1>2
    <3>2. behind' = 1 /\ next' = now /\ todo' = 1 /\ now' = now
      <4>1. behind' = behind - (behind - 1)
        BY <2>5, <3>1, <1>4, <1>9
      <4>2. next' = now /\ todo' = 1 /\ now' = now
        BY <2>1, <2>5, <1>1, <1>4
      <4> QED  BY <2>2, <4>1, <4>2
    <3>3. Place'
      BY <2>4, <3>2 DEF Place
    <3>4. Lag' /\ Early'
      BY <2>4, <3>2, <1>4, <1>6 DEF Lag, Early
    <3> QED  BY <2>3, <3>3, <3>4 DEF Tracking
  <2>6. CASE ~skip /\ behind = 0
    <3>1. behind' = 0 /\ next' = next /\ now' = now /\ lastCount' = Slots
          /\ Count = Slots /\ todo' = Allowed
      BY <2>2, <2>6, <1>4
    <3>2. todo' \in {0, 1} /\ (todo' = 0 => lastCount = Slots)
      BY <3>1, <1>2, <1>3, <2>2
    <3>3. Place'
      BY <2>1, <3>1, <2>6 DEF Place
    <3>4. todo' = 1 => tone.at # "due"
      BY <1>4, <2>1, <2>6, <3>1, <3>2, <1>2, <1>3 DEF Early
    <3>5. Lag' /\ Early'
      BY <3>1, <3>2, <3>4, <1>4, <1>6 DEF Lag, Early
    <3> QED  BY <2>3, <3>3, <3>5 DEF Tracking
  <2>7. CASE ~skip /\ behind > 0
    <3>1. behind' = behind /\ next' = next /\ now' = now /\ todo' = Allowed /\ Count = behind
      BY <2>2, <2>7, <1>4
    <3>2. todo' \in 1 .. behind /\ behind <= MaxLag
      <4>1. Forgiven \in 1 .. MaxLag
        BY <3>1, <2>2, <2>4, <2>7, <1>2
      <4>2. Forgiven <= behind /\ behind <= MaxLag
        BY <3>1, <2>2, <2>4, <2>7, <4>1, <1>2
      <4> QED  BY <3>1, <2>2, <4>1, <4>2, <1>3
    <3>3. Place'
      BY <2>1, <3>1 DEF Place
    <3>4. Lag' /\ Early'
      BY <3>1, <3>2, <2>4, <1>4, <1>6 DEF Lag, Early
    <3> QED  BY <2>3, <3>3, <3>4 DEF Tracking
  <2> QED  BY <2>2, <2>5, <2>6, <2>7
<1> QED  BY <1>4, <1>7, <1>8, <1>9 DEF IInv

LEMMA ProcessNextSlotIInv ==
  ASSUME IInv, ProcessNextSlot
  PROVE  IInv'
<1> USE Bounds
<1>1. /\ todo > 0 /\ todo' = todo - 1 /\ next' = After(next)
      /\ ProcessCommands \/ frame' = frame
      /\ behind' = (IF tracked THEN behind - 1 ELSE behind)
      /\ late' = (IF todo' > 0 \/ sem THEN late ELSE 0)
      /\ UNCHANGED <<now, tone, latch, atTone, clock, timer, sem, lastCount, calm, tracked>>
  BY DEF ProcessNextSlot, environment
<1>2. /\ frame' \in [source : {"none", "timer", "tone"}, sync : {"minor", "pending", "major"},
                    lastSync : 0 .. SyncSlot, ignore : BOOLEAN, noisy : 0 .. MaxNoisy]
      /\ frame'.source = frame.source /\ frame'.lastSync = frame.lastSync
      /\ ~frame'.ignore => frame'.noisy < MaxNoisy
  BY <1>1, Commands
<1>3. /\ todo' \in 0 .. MaxPerWakeup /\ next' \in 0 .. SyncSlot
      /\ late' \in 0 .. TaskDelay /\ behind' \in Int
  BY <1>1, InTable DEF IInv, TypeOK
<1>4. TypeOK'
  BY <1>1, <1>2, <1>3 DEF IInv, TypeOK
<1>5. Quiet'
  <2>1. frame.source # "none"
    BY <1>1 DEF IInv, Quiet, Busy
  <2> QED  BY <1>1, <1>2, <1>3, <2>1 DEF Quiet, Busy
<1>6. ASSUME tracked PROVE Tracking'
  <2>1. OnTone /\ Place /\ Lag /\ Early
    BY <1>6 DEF IInv, Tracking
  <2>2. behind' = behind - 1 /\ behind' - todo' = behind - todo
    BY <1>1, <1>6 DEF IInv, TypeOK
  <2>3. behind \in Int /\ todo \in 1 .. MaxPerWakeup /\ late \in 0 .. TaskDelay
        /\ now \in 0 .. SyncSlot /\ next \in 0 .. SyncSlot
    BY <1>1 DEF IInv, TypeOK
  <2>4. OnTone'
    BY <2>1, <1>1, <1>2 DEF OnTone
  <2>5. Place'
    <3>1. CASE next = SyncSlot
      <4>1. next' = next + 1 - Slots
        BY <1>1, <3>1 DEF After
      <4> QED  BY <2>1, <2>2, <2>3, <3>1, <4>1, <1>1 DEF Place, Lag, Early
    <3>2. CASE next # SyncSlot
      <4>1. next' = next + 1
        BY <1>1, <3>2 DEF After
      <4> QED  BY <2>1, <2>2, <2>3, <4>1, <1>1 DEF Place
    <3> QED  BY <3>1, <3>2
  <2>6. Lag'
    <3>1. behind' <= MaxLag + late'
      BY <2>1, <2>2, <2>3, <1>1, <1>3 DEF Lag
    <3> QED  BY <2>1, <2>2, <3>1, <1>1 DEF Lag
  <2>7. Early'
    BY <2>1, <2>2, <1>1 DEF Early
  <2> QED  BY <2>4, <2>5, <2>6, <2>7 DEF Tracking
<1> QED  BY <1>1, <1>4, <1>5, <1>6 DEF IInv

\* The invariant is inductive.
LEMMA NextIInv ==
  ASSUME IInv, [Next]_vars, TimerFirst
  PROVE  IInv'
<1>1. CASE CalmDown
  BY <1>1 DEF CalmDown, environment, IInv, TypeOK, Quiet, Busy, Tracking, OnTone, Place, Lag, Early
<1>2. CASE UNCHANGED vars
  BY <1>2 DEF vars, environment, IInv, TypeOK, Quiet, Busy, Tracking, OnTone, Place, Lag, Early
<1>3. CASE Next /\ ~CalmDown
  BY <1>3, TickIInv, MinorFrameIInv, ToneRejectedIInv, MajorFrameIInv, MajorFrameSlotIInv,
     ToneUpdateIInv, SetStateIInv, WakeupIInv, ProcessNextSlotIInv DEF Next
<1> QED  BY <1>1, <1>2, <1>3

----------------------------------------------------------------------------

\* The index of the next slot stays in the table, and a wakeup does no more slots than it may
\* (SCH_ProcessScheduleTable, SCH_ProcessNextSlot).
THEOREM SchTypeOK == TimerFirst /\ Spec => []TypeOK
<1> SUFFICES ASSUME TimerFirst PROVE Spec => []TypeOK
  OBVIOUS
<1>1. IInv => TypeOK
  BY DEF IInv
<1> QED  BY InitIInv, NextIInv, <1>1, PTL DEF Spec

\* While the tones come in time, a wakeup counts exactly the slots that came due and were not
\* done: no slot is done twice and no pass over the table is lost, however late the task is
\* within LagAssumption (SCH_ProcessScheduleTable).
THEOREM SchInStep == TimerFirst /\ Spec => []InStep
<1> SUFFICES ASSUME TimerFirst PROVE Spec => []InStep
  OBVIOUS
<1>1. ASSUME IInv PROVE InStep
  <2>1. ASSUME tracked PROVE behind >= -1
    BY <1>1, <2>1 DEF IInv, TypeOK, Tracking, Early
  <2>2. ASSUME tracked, sem, todo = 0 PROVE Count = IF behind = 0 THEN Slots ELSE behind
    BY <1>1, <2>2, CountIsBehind
  <2> QED  BY <2>1, <2>2 DEF InStep
<1> QED  BY InitIInv, NextIInv, <1>1, PTL DEF Spec
=============================================================================
