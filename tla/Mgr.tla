-------------------------------- MODULE Mgr --------------------------------
(***************************************************************************)
(* The NOS3 mode manager (components/mgr/fsw/cfs/src/mgr_app.c).           *)
(*                                                                         *)
(* MGR owns the spacecraft mode, the boot and science-pass counters and    *)
(* the region configuration.  All of it lives in one packet, HkTelemetryPkt*)
(* (here hk), which is copied to /data/mgr.bin (here file) every time      *)
(* housekeeping is requested, and read back by MGR_RestoreHkFile after a   *)
(* reset.  A save truncates the file and then writes it; a reset can strike*)
(* between any two steps.                                                  *)
(*                                                                         *)
(* Abstracted: TimeTics (carried in the packet, read only to set the OS    *)
(* clock), the packet header, event messages.  The three region handlers   *)
(* (AK, CONUS, HI) differ only in the byte they set, so config is indexed  *)
(* by Regions.                                                             *)
(***************************************************************************)
EXTENDS Integers

CONSTANTS
  Regions,       \* science regions with an enable byte: AK, CONUS, HI
  SciStatusMax,  \* SS_EXITED_SCIENCE_MODE, the largest science status
  U8Mod,         \* size of the uint8 command counters (256 in flight)
  U16Mod         \* size of the uint16 boot and pass counters (65536)

ASSUME SciStatusAssumption == SciStatusMax \in Nat
ASSUME CounterAssumption == U8Mod \in Nat \ {0} /\ U16Mod \in Nat \ {0}

\* MGR_SAFE_MODE .. MGR_SCIENCE_REBOOT_MODE
SAFE           == 1
SAFE_REBOOT    == 2
SCIENCE        == 3
SCIENCE_REBOOT == 4
Modes       == SAFE .. SCIENCE_REBOOT
RebootModes == {SAFE_REBOOT, SCIENCE_REBOOT}

\* The packet.  Mode 0 is the cleared packet, which no command can set.
Packets == [mode      : Modes \cup {0},
            boot      : 0 .. U16Mod - 1,
            anom      : 0 .. U16Mod - 1,
            pass      : 0 .. U16Mod - 1,
            sciStatus : 0 .. SciStatusMax,
            config    : [Regions -> {0, 1}],
            cmdCount  : 0 .. U8Mod - 1,
            errCount  : 0 .. U8Mod - 1]

ZeroPacket == [mode |-> 0, boot |-> 0, anom |-> 0, pass |-> 0,
               sciStatus |-> 0, config |-> [r \in Regions |-> 0],
               cmdCount |-> 0, errCount |-> 0]

\* What /data/mgr.bin can be: not there, shorter than a packet (truncated
\* and not yet written, or a failed write), or a packet.  The packet field
\* is what a boot would read back.
Missing     == [state |-> "missing", packet |-> ZeroPacket]
Short       == [state |-> "short",   packet |-> ZeroPacket]
Holds(p)    == [state |-> "packet",  packet |-> p]
HoldsPacket(f) == f.state = "packet"

VARIABLES
  phase,    \* where the MGR task is
  hk,       \* HkTelemetryPkt in RAM
  file,     \* /data/mgr.bin
  \* history, not in the code:
  boots,    \* number of completed restores, modulo U16Mod
  intact    \* every boot so far is accounted for by the packet or the file

mgrVars  == <<phase, hk, file>>
histVars == <<boots, intact>>
vars     == <<phase, hk, file, boots, intact>>

Phases == {"down", "recreating", "rewriting", "running", "saving"}

TypeOK ==
  /\ phase \in Phases
  /\ hk \in Packets
  /\ file \in [state : {"missing", "short", "packet"}, packet : Packets]
  /\ ~HoldsPacket(file) => file.packet = ZeroPacket
  /\ boots \in 0 .. U16Mod - 1
  /\ intact \in BOOLEAN

----------------------------------------------------------------------------
Inc8(n)  == (n + 1) % U8Mod
\* Variant with a bug, for sensitivity: a counter that does not wrap.
Inc16NoWrap(n) == n + 1

Inc16(n) == (n + 1) % U16Mod


\* Variant with a bug, for sensitivity: all counters are reset.
ResetAllCounters(p) ==
  [p EXCEPT !.cmdCount = 0, !.errCount = 0, !.boot = 0, !.anom = 0]

\* MGR_ResetCounters
ResetCounters(p) == [p EXCEPT !.cmdCount = 0, !.errCount = 0]

\* Variant with a bug, for sensitivity: every boot raises the boot counter.
FixModeCountsTwice(p) ==
  IF p.mode \in RebootModes
  THEN [p EXCEPT !.boot = Inc16(@)]
  ELSE [p EXCEPT !.mode = SAFE_REBOOT, !.anom = Inc16(@), !.boot = Inc16(@)]

\* The end of MGR_RestoreHkFile: any mode but a reboot mode is anomalous.
FixMode(p) ==
  IF p.mode \in RebootModes
  THEN [p EXCEPT !.boot = Inc16(@)]
  ELSE [p EXCEPT !.mode = SAFE_REBOOT, !.anom = Inc16(@)]

Init ==
  /\ phase = "down"
  /\ hk = ZeroPacket
  /\ file = Missing
  /\ boots = 0
  /\ intact = TRUE

----------------------------------------------------------------------------
(* Boot: MGR_AppInit and MGR_RestoreHkFile.                                *)

\* The file could be opened.  A read that returns fewer bytes than a packet
\* (a short file, or an error on an intact one) clears the packet.
RestoreRead ==
  /\ phase = "down"
  /\ file # Missing
  /\ \E readOk \in BOOLEAN :
       LET good == readOk /\ HoldsPacket(file)
           read == IF good THEN file.packet ELSE ZeroPacket
       IN  /\ hk' = ResetCounters(FixMode(read))
           /\ intact' = (intact /\ good)
  /\ phase' = "running"
  /\ boots' = Inc16(boots)
  /\ UNCHANGED file

\* The file could not be opened (none there, or an error on an existing
\* one): it is removed, created again and written, none of which is checked.
RestoreRemove ==
  /\ phase = "down"
  /\ phase' = "recreating"
  /\ intact' = (intact /\ file = Missing)
  /\ file' \in {Missing, file}
  /\ UNCHANGED <<hk, boots>>

RestoreCreate ==
  /\ phase = "recreating"
  /\ phase' = "rewriting"
  /\ file' \in {Short, file}
  /\ UNCHANGED <<hk, histVars>>

\* The packet is written as it is in RAM, before its mode is fixed.
RestoreWrite ==
  /\ phase = "rewriting"
  /\ \/ file = Short /\ file' = Holds(hk)
     \/ UNCHANGED file
  /\ hk' = ResetCounters(FixMode(hk))
  /\ phase' = "running"
  /\ boots' = Inc16(boots)
  /\ UNCHANGED intact

----------------------------------------------------------------------------
(* Ground and RTS commands: MGR_ProcessGroundCommand.                      *)

\* A command whose length is right: MGR_VerifyCmdLength counts it, then the
\* handler changes the packet to p.
Accept(p) ==
  /\ phase = "running"
  /\ hk' = [p EXCEPT !.cmdCount = Inc8(@)]
  /\ UNCHANGED <<phase, file, boots, intact>>

\* NOOP, and a command whose argument is out of range: counted, no effect.
NoEffect == Accept(hk)

\* A wrong length, an unknown command code or an unknown message ID.
RejectCommand ==
  /\ phase = "running"
  /\ hk' = [hk EXCEPT !.errCount = Inc8(@)]
  /\ UNCHANGED <<phase, file, boots, intact>>

\* RESET_COUNTERS clears the counters after the command itself is counted.
ResetCountersCmd ==
  /\ phase = "running"
  /\ hk' = ResetCounters(hk)
  /\ UNCHANGED <<phase, file, boots, intact>>

SetMode(m) == Accept([hk EXCEPT !.mode = m])

RebootPrep ==
  Accept([hk EXCEPT !.mode = IF @ \in {SCIENCE, SCIENCE_REBOOT}
                             THEN SCIENCE_REBOOT
                             ELSE SAFE_REBOOT])

SciPassInc == Accept([hk EXCEPT !.pass = Inc16(@)])

SciPassReset == Accept([hk EXCEPT !.pass = 0])

SetRegion(r, v) == Accept([hk EXCEPT !.config[r] = v])

UpdateSciStatus(s) == Accept([hk EXCEPT !.sciStatus = s])

----------------------------------------------------------------------------
(* Housekeeping request: MGR_ReportHousekeeping and MGR_SaveHkFile.        *)

\* The packet is published and the file opened with OS_FILE_FLAG_TRUNCATE.
SaveOpen ==
  /\ phase = "running"
  /\ file' = Short
  /\ phase' = "saving"
  /\ UNCHANGED <<hk, histVars>>

\* The open failed: the old file stays as it is.
SaveOpenFails ==
  /\ phase = "running"
  /\ UNCHANGED vars

SaveWrite ==
  /\ phase = "saving"
  /\ file' \in {Holds(hk), Short}
  /\ phase' = "running"
  /\ UNCHANGED <<hk, histVars>>

----------------------------------------------------------------------------
\* A reset, commanded or not, at any point: RAM is lost, the file stays.
Reset ==
  /\ phase # "down"
  /\ phase' = "down"
  /\ intact' = (/\ intact
                /\ HoldsPacket(file)
                /\ file.packet.boot = hk.boot
                /\ file.packet.anom = hk.anom)
  /\ hk' = ZeroPacket
  /\ UNCHANGED <<file, boots>>

Command ==
  \/ NoEffect
  \/ RejectCommand
  \/ ResetCountersCmd
  \/ \E m \in Modes : SetMode(m)
  \/ RebootPrep
  \/ SciPassInc
  \/ SciPassReset
  \/ \E r \in Regions, v \in {0, 1} : SetRegion(r, v)
  \/ \E s \in 0 .. SciStatusMax : UpdateSciStatus(s)

Restore == RestoreRead \/ RestoreRemove \/ RestoreCreate \/ RestoreWrite

Next ==
  \/ Restore
  \/ Command
  \/ SaveOpen
  \/ SaveOpenFails
  \/ SaveWrite
  \/ Reset

Spec == Init /\ [][Next]_vars

----------------------------------------------------------------------------
(* Properties.                                                             *)

\* As long as no save was torn or lost and every boot was followed by a
\* save before the next reset, the boot counter and the anomalous-boot
\* counter together count the boots: a boot is never counted twice, in
\* neither, or in both, whichever mode it comes up in.
BootsAccounted ==
  (intact /\ phase \in {"running", "saving"})
    => (hk.boot + hk.anom) % U16Mod = boots

\* The packet and its file implement the store of HkStore: what a boot
\* resumes from is a packet that was in RAM when a save completed, or a
\* cleared one, wherever the reset struck.
Store == INSTANCE HkStore WITH
           SafeRebootMode <- SAFE_REBOOT,
           up <- phase \in {"running", "saving"},
           live <- hk,
           stored <- file.packet
ImplementsStore == Store!Spec

============================================================================
