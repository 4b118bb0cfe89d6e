----------------------------- MODULE MgrProofs -----------------------------
(***************************************************************************)
(* Theorems about Mgr for any number of regions and any counter width:     *)
(* type correctness, the accounting of boots, and the refinement of        *)
(* HkStore.                                                                *)
(***************************************************************************)
EXTENDS Mgr, TLAPS

----------------------------------------------------------------------------
(* Counters that wrap.                                                     *)

\* A counter reduced by its modulus is within its width.
LEMMA ModRange ==
  ASSUME NEW M \in Nat \ {0}, NEW x \in Int
  PROVE  x % M \in 0 .. M - 1
  BY SMT

\* A value within the width is kept as it is.
LEMMA ModSmall ==
  ASSUME NEW M \in Nat \ {0}, NEW x \in 0 .. M - 1
  PROVE  x % M = x
  BY SMT

\* A value past the width by less than the width wraps once.
LEMMA ModOnce ==
  ASSUME NEW M \in Nat \ {0}, NEW x \in M .. 2 * M - 1
  PROVE  x % M = x - M
  BY SMT

\* Raising one of two counters raises their sum, whichever of them wraps.
LEMMA IncSum ==
  ASSUME NEW M \in Nat \ {0}, NEW a \in 0 .. M - 1, NEW b \in 0 .. M - 1
  PROVE  (((a + 1) % M) + b) % M = (((a + b) % M) + 1) % M
<1>1. CASE a + 1 = M
  <2>1. (a + 1) % M = 0
    BY <1>1, ModOnce, SMT
  <2>2. b % M = b
    BY ModSmall
  <2>3. CASE b = 0
    <3>1. (a + b) % M = M - 1
      BY <1>1, <2>3, ModSmall, SMT
    <3>2. (M - 1 + 1) % M = 0
      BY ModOnce, SMT
    <3> QED BY <2>1, <2>2, <2>3, <3>1, <3>2, SMT
  <2>4. CASE b > 0
    <3>1. (a + b) % M = b - 1
      <4>1. a + b \in M .. 2 * M - 1
        BY <1>1, <2>4, SMT
      <4> QED BY <1>1, <4>1, ModOnce, SMT
    <3> QED BY <2>1, <2>2, <3>1, SMT
  <2> QED BY <2>3, <2>4, SMT
<1>2. CASE a + 1 < M
  <2>1. (a + 1) % M = a + 1
    BY <1>2, ModSmall, SMT
  <2>2. CASE a + b + 1 < M
    <3>1. (a + b) % M = a + b
      BY <2>2, ModSmall, SMT
    <3> QED BY <2>1, <3>1, SMT
  <2>3. CASE a + b + 1 = M
    <3>1. (a + b) % M = a + b
      BY <2>3, ModSmall, SMT
    <3> QED BY <2>1, <3>1, SMT
  <2>4. CASE a + b >= M
    <3>1. a + b \in M .. 2 * M - 1 /\ a + b + 1 \in M .. 2 * M - 1
      BY <1>2, <2>4, SMT
    <3>2. (a + b) % M = a + b - M
      BY <3>1, ModOnce
    <3> DEFINE s == a + b + 1
    <3>3. s % M = s - M
      <4> HIDE DEF s
      <4> QED BY <3>1, ModOnce DEF s
    <3>4. a + b - M + 1 \in 0 .. M - 1
      BY <1>2, <2>4, SMT
    <3>5. (a + b - M + 1) % M = a + b - M + 1
      BY <3>4, ModSmall
    <3> QED BY <2>1, <3>2, <3>3, <3>5, SMT
  <2> QED BY <2>2, <2>3, <2>4, SMT
<1> QED BY <1>1, <1>2, SMT

----------------------------------------------------------------------------
(* What the helpers return.                                                *)

\* Both increments (uint8 ++, uint16 ++) stay within their width.
LEMMA IncType ==
  /\ \A n \in Nat : Inc8(n) \in 0 .. U8Mod - 1
  /\ \A n \in Nat : Inc16(n) \in 0 .. U16Mod - 1
<1>1. \A n \in Nat : (n + 1) % U8Mod \in 0 .. U8Mod - 1
  BY CounterAssumption, ModRange
<1>2. \A n \in Nat : (n + 1) % U16Mod \in 0 .. U16Mod - 1
  BY CounterAssumption, ModRange
<1> QED BY <1>1, <1>2 DEF Inc8, Inc16

\* The cleared packet of memset is a packet.
LEMMA ZeroPacketType == ZeroPacket \in Packets
  BY SciStatusAssumption, CounterAssumption DEF ZeroPacket, Packets

\* The three states of the file have their type and read back as said.
LEMMA FileType ==
  /\ Missing.packet = ZeroPacket /\ Short.packet = ZeroPacket
  /\ \A p \in Packets : {Missing, Short, Holds(p)} \subseteq
                         [state : {"missing", "short", "packet"}, packet : Packets]
  /\ Missing.state = "missing" /\ Short.state = "short"
  /\ \A p : Holds(p).state = "packet" /\ Holds(p).packet = p
  BY ZeroPacketType DEF Missing, Short, Holds

\* Every field of a packet has its type, and FixMode and ResetCounters keep
\* them.
LEMMA PacketOps ==
  ASSUME NEW p \in Packets
  PROVE  /\ ResetCounters(p) \in Packets
         /\ FixMode(p) \in Packets
         /\ ResetCounters(FixMode(p)) \in Packets
<1>1. ASSUME NEW q \in Packets
      PROVE  ResetCounters(q) \in Packets
  <2>1. 0 \in 0 .. U8Mod - 1
    BY CounterAssumption
  <2> QED BY <2>1 DEF ResetCounters, Packets
<1>2. FixMode(p) \in Packets
  <2>1. Inc16(p.boot) \in 0 .. U16Mod - 1 /\ Inc16(p.anom) \in 0 .. U16Mod - 1
    BY IncType, CounterAssumption DEF Packets
  <2>2. SAFE_REBOOT \in Modes
    BY DEF SAFE_REBOOT, Modes, SAFE, SCIENCE_REBOOT
  <2> QED BY <2>1, <2>2 DEF FixMode, Packets
<1> QED BY <1>1, <1>2

----------------------------------------------------------------------------
(* The inductive invariant.                                                *)

Up == phase \in {"running", "saving"}

Recreating == phase \in {"recreating", "rewriting"}

\* Nothing is in RAM before the restore.
BeforeBoot == ~Up => hk = ZeroPacket

\* BootsAccounted through a reset: while the task is down the counters that
\* will be resumed are those of the file, or there was no boot yet.
Accounted ==
  intact =>
    /\ Up => (hk.boot + hk.anom) % U16Mod = boots
    /\ phase = "down" /\ HoldsPacket(file) =>
         (file.packet.boot + file.packet.anom) % U16Mod = boots
    /\ phase = "down" /\ ~HoldsPacket(file) => file = Missing /\ boots = 0
    /\ Recreating => ~HoldsPacket(file) /\ boots = 0

IInv == TypeOK /\ BeforeBoot /\ Accounted

\* Whichever counter a boot raises, the two together go up by one.
LEMMA BootCounts ==
  ASSUME NEW p \in Packets
  PROVE  LET q == ResetCounters(FixMode(p))
         IN  (q.boot + q.anom) % U16Mod = Inc16((p.boot + p.anom) % U16Mod)
<1> DEFINE q == ResetCounters(FixMode(p))
<1>1. /\ p.boot \in 0 .. U16Mod - 1
      /\ p.anom \in 0 .. U16Mod - 1
  BY DEF Packets
<1>2. (Inc16(p.boot) + p.anom) % U16Mod = Inc16((p.boot + p.anom) % U16Mod)
  BY <1>1, CounterAssumption, IncSum DEF Inc16
<1>3. (Inc16(p.anom) + p.boot) % U16Mod = Inc16((p.anom + p.boot) % U16Mod)
  BY <1>1, CounterAssumption, IncSum DEF Inc16
<1>4. p.anom + p.boot = p.boot + p.anom
  BY <1>1
<1>5. Inc16(p.anom) + p.boot = p.boot + Inc16(p.anom)
  BY <1>1, CounterAssumption, IncType, SMT
<1>6. CASE p.mode \in RebootModes
  <2>1. q.boot = Inc16(p.boot) /\ q.anom = p.anom
    BY <1>6 DEF ResetCounters, FixMode, Packets
  <2> QED BY <2>1, <1>2
<1>7. CASE p.mode \notin RebootModes
  <2>1. q.boot = p.boot /\ q.anom = Inc16(p.anom)
    BY <1>7 DEF ResetCounters, FixMode, Packets
  <2> QED BY <2>1, <1>3, <1>4, <1>5
<1> QED BY <1>6, <1>7

\* The invariant holds before the first boot.
LEMMA InitIInv == Init => IInv
<1> SUFFICES ASSUME Init PROVE IInv
  OBVIOUS
<1>1. TypeOK
  <2>1. 0 \in 0 .. U16Mod - 1
    BY CounterAssumption
  <2>2. Missing \in [state : {"missing", "short", "packet"}, packet : Packets]
    BY FileType, ZeroPacketType
  <2> QED BY <2>1, <2>2, ZeroPacketType, FileType DEF Init, TypeOK, Phases
<1>2. BeforeBoot /\ Accounted
  BY FileType DEF Init, BeforeBoot, Accounted, Up, Recreating, HoldsPacket
<1> QED BY <1>1, <1>2 DEF IInv

----------------------------------------------------------------------------
(* Each action preserves it.                                               *)

\* MGR_RestoreHkFile, read branch: what it counts is the boot of the packet
\* it read, and a cleared packet is no longer accounted for.
LEMMA RestoreReadIInv == IInv /\ RestoreRead => IInv'
<1> SUFFICES ASSUME IInv, RestoreRead PROVE IInv'
  OBVIOUS
<1> USE DEF IInv
<1>1. PICK readOk \in BOOLEAN :
        LET good == readOk /\ HoldsPacket(file)
            read == IF good THEN file.packet ELSE ZeroPacket
        IN  /\ hk' = ResetCounters(FixMode(read))
            /\ intact' = (intact /\ good)
  BY DEF RestoreRead
<1> DEFINE good == readOk /\ HoldsPacket(file)
           read == IF good THEN file.packet ELSE ZeroPacket
<1>2. /\ phase = "down" /\ phase' = "running"
      /\ file' = file /\ boots' = Inc16(boots)
  BY DEF RestoreRead
<1>3. read \in Packets
  BY ZeroPacketType DEF TypeOK
<1>4. hk' \in Packets
  BY <1>1, <1>3, PacketOps
<1>5. boots' \in 0 .. U16Mod - 1
  BY <1>2, IncType DEF TypeOK
<1>6. TypeOK'
  BY <1>1, <1>2, <1>4, <1>5 DEF TypeOK, Phases, HoldsPacket
<1>7. BeforeBoot'
  BY <1>2 DEF BeforeBoot, Up
<1>8. ASSUME intact' PROVE (hk'.boot + hk'.anom) % U16Mod = boots'
  <2>1. intact /\ good
    BY <1>1, <1>8
  <2>2. (file.packet.boot + file.packet.anom) % U16Mod = boots
    BY <2>1, <1>2 DEF Accounted
  <2>3. hk' = ResetCounters(FixMode(file.packet)) /\ file.packet \in Packets
    BY <1>1, <1>3, <2>1
  <2> QED BY <1>2, <2>2, <2>3, BootCounts
<1>9. Accounted'
  BY <1>2, <1>8 DEF Accounted, Up, Recreating
<1> QED BY <1>6, <1>7, <1>9

\* MGR_RestoreHkFile, open-fail branch: removing the file loses the account
\* unless there was none.
LEMMA RestoreRemoveIInv == IInv /\ RestoreRemove => IInv'
<1> SUFFICES ASSUME IInv, RestoreRemove PROVE IInv'
  OBVIOUS
<1> USE DEF IInv, RestoreRemove
<1>1. TypeOK'
  BY FileType, ZeroPacketType DEF TypeOK, Phases, HoldsPacket
<1>2. BeforeBoot'
  BY DEF BeforeBoot, Up
<1>3. Accounted'
  BY FileType DEF Accounted, Up, Recreating, HoldsPacket
<1> QED BY <1>1, <1>2, <1>3

\* MGR_RestoreHkFile, creating the file: it still holds no packet.
LEMMA RestoreCreateIInv == IInv /\ RestoreCreate => IInv'
<1> SUFFICES ASSUME IInv, RestoreCreate PROVE IInv'
  OBVIOUS
<1> USE DEF IInv, RestoreCreate, histVars
<1>1. TypeOK'
  BY FileType, ZeroPacketType DEF TypeOK, Phases, HoldsPacket
<1>2. BeforeBoot'
  BY DEF BeforeBoot, Up
<1>3. Accounted'
  BY FileType DEF Accounted, Up, Recreating, HoldsPacket
<1> QED BY <1>1, <1>2, <1>3

\* MGR_RestoreHkFile, writing the new file: the first boot counts 1.
LEMMA RestoreWriteIInv == IInv /\ RestoreWrite => IInv'
<1> SUFFICES ASSUME IInv, RestoreWrite PROVE IInv'
  OBVIOUS
<1> USE DEF IInv, RestoreWrite
<1>1. hk = ZeroPacket /\ hk \in Packets
  BY ZeroPacketType DEF BeforeBoot, Up
<1>2. hk' \in Packets /\ boots' \in 0 .. U16Mod - 1
  BY <1>1, PacketOps, IncType DEF TypeOK
<1>3. TypeOK'
  BY <1>1, <1>2, FileType DEF TypeOK, Phases, HoldsPacket
<1>4. BeforeBoot'
  BY DEF BeforeBoot, Up
<1>5. ASSUME intact' PROVE (hk'.boot + hk'.anom) % U16Mod = boots'
  <2>1. boots = 0
    BY <1>5 DEF Accounted, Recreating
  <2>2. (ZeroPacket.boot + ZeroPacket.anom) % U16Mod = 0
    BY CounterAssumption, ModSmall DEF ZeroPacket
  <2> QED BY <1>1, <2>1, <2>2, BootCounts
<1>6. Accounted'
  BY <1>5 DEF Accounted, Up, Recreating
<1> QED BY <1>3, <1>4, <1>6

\* A request changes the packet but neither boot counter, and nothing else
\* of the state.
PacketChange ==
  /\ phase = "running" /\ phase' = phase
  /\ hk' \in Packets /\ hk'.boot = hk.boot /\ hk'.anom = hk.anom
  /\ file' = file /\ boots' = boots /\ intact' = intact

\* A handler that leaves both boot counters alone is such a change.
LEMMA AcceptChange ==
  ASSUME TypeOK, NEW p \in Packets, p.boot = hk.boot, p.anom = hk.anom,
         Accept(p)
  PROVE  PacketChange
<1>1. Inc8(p.cmdCount) \in 0 .. U8Mod - 1
  BY IncType, CounterAssumption DEF Packets
<1>2. /\ [p EXCEPT !.cmdCount = Inc8(@)] \in Packets
      /\ [p EXCEPT !.cmdCount = Inc8(@)].boot = p.boot
      /\ [p EXCEPT !.cmdCount = Inc8(@)].anom = p.anom
  BY <1>1 DEF Packets
<1> QED BY <1>2 DEF Accept, PacketChange

\* No handler of MGR_ProcessGroundCommand touches a boot counter.
LEMMA CommandChange == TypeOK /\ Command => PacketChange
<1> SUFFICES ASSUME TypeOK, Command PROVE PacketChange
  OBVIOUS
<1>0. hk \in Packets
  BY DEF TypeOK
<1>1. CASE NoEffect
  BY <1>0, <1>1, AcceptChange DEF NoEffect
<1>2. CASE RejectCommand
  <2>1. Inc8(hk.errCount) \in 0 .. U8Mod - 1
    BY <1>0, IncType, CounterAssumption DEF Packets
  <2>2. hk' \in Packets /\ hk'.boot = hk.boot /\ hk'.anom = hk.anom
    BY <1>0, <1>2, <2>1 DEF RejectCommand, Packets
  <2> QED BY <1>0, <1>2, <2>2 DEF RejectCommand, PacketChange
<1>3. CASE ResetCountersCmd
  <2>1. hk' \in Packets
    BY <1>0, <1>3, PacketOps DEF ResetCountersCmd
  <2>2. hk'.boot = hk.boot /\ hk'.anom = hk.anom
    BY <1>0, <1>3 DEF ResetCountersCmd, ResetCounters, Packets
  <2> QED BY <1>0, <1>3, <2>1, <2>2 DEF ResetCountersCmd, PacketChange
<1>4. ASSUME NEW m \in Modes, SetMode(m) PROVE PacketChange
  <2> DEFINE p == [hk EXCEPT !.mode = m]
  <2>1. p \in Packets /\ p.boot = hk.boot /\ p.anom = hk.anom
    BY <1>0 DEF Packets
  <2> QED BY <1>4, <2>1, AcceptChange DEF SetMode
<1>5. CASE RebootPrep
  <2> DEFINE m == IF hk.mode \in {SCIENCE, SCIENCE_REBOOT}
                  THEN SCIENCE_REBOOT ELSE SAFE_REBOOT
             p == [hk EXCEPT !.mode = m]
  <2>1. m \in Modes
    BY DEF Modes, SAFE, SAFE_REBOOT, SCIENCE_REBOOT
  <2>2. p \in Packets /\ p.boot = hk.boot /\ p.anom = hk.anom
    <3> HIDE DEF m
    <3> QED BY <1>0, <2>1 DEF Packets
  <2>3. Accept(p)
    BY <1>5 DEF RebootPrep
  <2> QED BY <2>2, <2>3, AcceptChange
<1>6. CASE SciPassInc
  <2> DEFINE p == [hk EXCEPT !.pass = Inc16(@)]
  <2>1. Inc16(hk.pass) \in 0 .. U16Mod - 1
    BY <1>0, IncType, CounterAssumption DEF Packets
  <2>2. p \in Packets /\ p.boot = hk.boot /\ p.anom = hk.anom
    BY <1>0, <2>1 DEF Packets
  <2>3. Accept(p)
    BY <1>0, <1>6 DEF SciPassInc
  <2> QED BY <2>2, <2>3, AcceptChange
<1>7. CASE SciPassReset
  <2> DEFINE p == [hk EXCEPT !.pass = 0]
  <2>1. 0 \in 0 .. U16Mod - 1
    BY CounterAssumption
  <2>2. p \in Packets /\ p.boot = hk.boot /\ p.anom = hk.anom
    BY <1>0, <2>1 DEF Packets
  <2>3. Accept(p)
    BY <1>0, <1>7 DEF SciPassReset
  <2> QED BY <2>2, <2>3, AcceptChange
<1>8. ASSUME NEW r \in Regions, NEW v \in {0, 1}, SetRegion(r, v)
      PROVE  PacketChange
  <2> DEFINE p == [hk EXCEPT !.config[r] = v]
  <2>1. [hk.config EXCEPT ![r] = v] \in [Regions -> {0, 1}]
    BY <1>0 DEF Packets
  <2>2. p \in Packets /\ p.boot = hk.boot /\ p.anom = hk.anom
    BY <1>0, <2>1 DEF Packets
  <2>3. Accept(p)
    BY <1>0, <1>8 DEF SetRegion
  <2> QED BY <2>2, <2>3, AcceptChange
<1>9. ASSUME NEW v \in 0 .. SciStatusMax, UpdateSciStatus(v) PROVE PacketChange
  <2> DEFINE p == [hk EXCEPT !.sciStatus = v]
  <2>1. p \in Packets /\ p.boot = hk.boot /\ p.anom = hk.anom
    BY <1>0 DEF Packets
  <2>2. Accept(p)
    BY <1>0, <1>9 DEF UpdateSciStatus
  <2> QED BY <2>1, <2>2, AcceptChange
<1> QED BY <1>1, <1>2, <1>3, <1>4, <1>5, <1>6, <1>7, <1>8, <1>9 DEF Command

\* Requests preserve the invariant: it reads nothing of the packet but its
\* type and the boot counters.
LEMMA ChangeIInv == IInv /\ PacketChange => IInv'
<1> SUFFICES ASSUME IInv, PacketChange PROVE IInv'
  OBVIOUS
<1> USE DEF IInv, PacketChange
<1>1. TypeOK'
  BY DEF TypeOK, HoldsPacket
<1>2. BeforeBoot' /\ Accounted'
  BY DEF BeforeBoot, Accounted, Up, Recreating, HoldsPacket
<1> QED BY <1>1, <1>2

\* MGR_SaveHkFile: neither the truncation nor the write touches RAM.
LEMMA SaveIInv == IInv /\ (SaveOpen \/ SaveWrite) => IInv'
<1> SUFFICES ASSUME IInv, SaveOpen \/ SaveWrite PROVE IInv'
  OBVIOUS
<1> USE DEF IInv, histVars
<1>1. CASE SaveOpen
  <2>1. TypeOK'
    BY <1>1, FileType, ZeroPacketType DEF SaveOpen, TypeOK, Phases, HoldsPacket
  <2>2. BeforeBoot' /\ Accounted'
    BY <1>1 DEF SaveOpen, BeforeBoot, Accounted, Up, Recreating
  <2> QED BY <2>1, <2>2
<1>2. CASE SaveWrite
  <2>1. hk \in Packets
    BY DEF TypeOK
  <2>2. /\ file' \in [state : {"missing", "short", "packet"}, packet : Packets]
        /\ ~HoldsPacket(file)' => file'.packet = ZeroPacket
    BY <1>2, <2>1, FileType DEF SaveWrite, HoldsPacket
  <2>3. TypeOK'
    BY <1>2, <2>2 DEF SaveWrite, TypeOK, Phases
  <2>4. BeforeBoot' /\ Accounted'
    BY <1>2 DEF SaveWrite, BeforeBoot, Accounted, Up, Recreating
  <2> QED BY <2>3, <2>4
<1> QED BY <1>1, <1>2

\* A reset leaves boots accounted for only if the file holds both counters.
LEMMA ResetIInv == IInv /\ Reset => IInv'
<1> SUFFICES ASSUME IInv, Reset PROVE IInv'
  OBVIOUS
<1> USE DEF IInv, Reset
<1>1. TypeOK'
  BY ZeroPacketType DEF TypeOK, Phases, HoldsPacket
<1>2. BeforeBoot'
  BY DEF BeforeBoot, Up
<1>3. ASSUME intact'
      PROVE  HoldsPacket(file) /\ (file.packet.boot + file.packet.anom) % U16Mod = boots
  <2>1. /\ intact /\ HoldsPacket(file)
        /\ file.packet.boot = hk.boot /\ file.packet.anom = hk.anom
    BY <1>3
  <2>2. Up
    BY <2>1, FileType DEF TypeOK, Phases, Up, Accounted, Recreating
  <2> QED BY <2>1, <2>2 DEF Accounted
<1>4. Accounted'
  BY <1>3 DEF Accounted, Up, Recreating, HoldsPacket
<1> QED BY <1>1, <1>2, <1>4

\* Every step preserves the invariant.
LEMMA NextIInv == IInv /\ [Next]_vars => IInv'
<1> SUFFICES ASSUME IInv, [Next]_vars PROVE IInv'
  OBVIOUS
<1>1. CASE Restore
  BY <1>1, RestoreReadIInv, RestoreRemoveIInv, RestoreCreateIInv, RestoreWriteIInv
     DEF Restore
<1>2. CASE Command
  BY <1>2, CommandChange, ChangeIInv DEF IInv
<1>3. CASE SaveOpen \/ SaveWrite
  BY <1>3, SaveIInv
<1>4. CASE SaveOpenFails \/ UNCHANGED vars
  BY <1>4 DEF SaveOpenFails, vars, IInv, TypeOK, BeforeBoot, Accounted, Up, Recreating, HoldsPacket
<1>5. CASE Reset
  BY <1>5, ResetIInv
<1> QED BY <1>1, <1>2, <1>3, <1>4, <1>5 DEF Next

\* The invariant holds throughout.
LEMMA Invariance == Spec => []IInv
<1>1. Init => IInv
  BY InitIInv
<1>2. IInv /\ [Next]_vars => IInv'
  BY NextIInv
<1> QED BY <1>1, <1>2, PTL DEF Spec

----------------------------------------------------------------------------
(* The theorems.                                                           *)

\* Every counter stays within its width, the mode stays one of the four (or
\* the cleared one), and a file that holds no packet reads back as a cleared
\* one, for any number of regions and any width of the counters.
THEOREM TypeCorrect == Spec => []TypeOK
<1>1. IInv => TypeOK
  BY DEF IInv
<1> QED BY <1>1, Invariance, PTL

\* MGR_RestoreHkFile raises exactly one of its two counters on each boot,
\* through wrap-around and through a file that has to be created again.
THEOREM BootsAreAccounted == Spec => []BootsAccounted
<1>1. IInv => BootsAccounted
  BY DEF IInv, Accounted, BootsAccounted, Up, Recreating
<1> QED BY <1>1, Invariance, PTL

----------------------------------------------------------------------------
(* The refinement of HkStore.                                              *)

\* A boot that resumes from the packet p makes of it what HkStore allows.
LEMMA FixModeRecovers ==
  ASSUME NEW p \in Packets
  PROVE  Store!Recovered(ResetCounters(FixMode(p)), p)
<1>1. CASE p.mode \in RebootModes
  BY <1>1 DEF Store!Recovered, ResetCounters, FixMode, Packets, Inc16
<1>2. CASE p.mode \notin RebootModes
  BY <1>2 DEF Store!Recovered, ResetCounters, FixMode, Packets, Inc16
<1> QED BY <1>1, <1>2

\* Every step of the code is a step of the store, or one it does not see.
LEMMA StepSimulation == IInv /\ [Next]_vars => [Store!Next]_(Store!vars)
<1> SUFFICES ASSUME IInv, [Next]_vars PROVE [Store!Next]_(Store!vars)
  OBVIOUS
<1> USE DEF IInv, Store!Next, Store!vars
<1>1. CASE RestoreRead
  <2>1. PICK read \in {file.packet, ZeroPacket} : hk' = ResetCounters(FixMode(read))
    BY <1>1 DEF RestoreRead
  <2>2. read \in Packets
    BY ZeroPacketType DEF TypeOK
  <2>3. hk' \in Packets /\ Store!Recovered(hk', read)
    BY <2>1, <2>2, PacketOps, FixModeRecovers
  <2>4. /\ phase = "down" /\ phase' = "running" /\ file' = file
    BY <1>1 DEF RestoreRead
  <2> QED BY <2>3, <2>4 DEF Store!Boot
<1>2. CASE RestoreRemove \/ RestoreCreate
  <2>1. phase \notin {"running", "saving"} /\ phase' \notin {"running", "saving"}
    BY <1>2 DEF RestoreRemove, RestoreCreate
  <2>2. hk' = hk /\ file'.packet \in {file.packet, ZeroPacket}
    BY <1>2, FileType DEF RestoreRemove, RestoreCreate
  <2> QED BY <2>1, <2>2 DEF Store!Lose
<1>3. CASE RestoreWrite
  <2>1. hk = ZeroPacket /\ phase = "rewriting" /\ phase' = "running"
    BY <1>3 DEF RestoreWrite, BeforeBoot, Up
  <2>2. hk' \in Packets /\ Store!Recovered(hk', ZeroPacket)
    BY <1>3, <2>1, ZeroPacketType, PacketOps, FixModeRecovers DEF RestoreWrite
  <2>3. file'.packet = file.packet
    BY <1>3, <2>1, FileType DEF RestoreWrite
  <2> QED BY <2>1, <2>2, <2>3 DEF Store!Boot
<1>4. CASE Command
  <2>1. PacketChange
    BY <1>4, CommandChange
  <2> QED BY <2>1 DEF PacketChange, Store!Change
<1>5. CASE SaveOpen
  BY <1>5, FileType DEF SaveOpen, histVars, Store!Lose
<1>6. CASE SaveWrite
  <2>1. /\ phase = "saving" /\ phase' = "running" /\ hk' = hk
        /\ file'.packet = hk \/ file'.packet = ZeroPacket
    BY <1>6, FileType DEF SaveWrite, histVars
  <2> QED BY <2>1 DEF Store!Save, Store!Lose
<1>7. CASE Reset
  <2>1. phase' = "down" /\ hk' = ZeroPacket /\ file' = file
    BY <1>7 DEF Reset
  <2> QED BY <2>1 DEF Store!Crash
<1>8. CASE SaveOpenFails \/ UNCHANGED vars
  BY <1>8 DEF SaveOpenFails, vars
<1> QED BY <1>1, <1>2, <1>3, <1>4, <1>5, <1>6, <1>7, <1>8 DEF Next, Restore

\* Wherever a reset strikes, a boot resumes from the packet of a completed
\* save or from a cleared one, counts itself once, and no command touches
\* the boot counters: MGR_SaveHkFile and MGR_RestoreHkFile implement HkStore.
THEOREM Refinement == Spec => ImplementsStore
<1>1. Init => Store!Init
  BY FileType DEF Init, Store!Init
<1>2. IInv /\ [Next]_vars => [Store!Next]_(Store!vars)
  BY StepSimulation
<1> QED BY <1>1, <1>2, Invariance, PTL DEF Spec, ImplementsStore, Store!Spec

============================================================================
