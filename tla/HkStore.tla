------------------------------ MODULE HkStore ------------------------------
(***************************************************************************)
(* What the mode manager promises about its packet, whatever happens to    *)
(* the file it is kept in: a boot resumes from the packet of the last      *)
(* completed save or from a cleared one, never from a mixture; it leaves a *)
(* reboot mode and counts exactly one boot; and between two boots no       *)
(* command touches the two boot counters.                                  *)
(***************************************************************************)
EXTENDS Integers

CONSTANTS Packets,        \* the packets there are
          ZeroPacket,     \* the cleared packet
          RebootModes,    \* the modes a boot may resume in
          SafeRebootMode, \* the mode of a boot that cannot resume
          U16Mod          \* modulus of the two boot counters

VARIABLES up,      \* the task has restored and is serving requests
          live,    \* the packet in RAM
          stored   \* what a boot would read back: a packet, or ZeroPacket

vars == <<up, live, stored>>

\* p is what a boot may make of the packet q it resumes from.
Recovered(p, q) ==
  /\ p.pass = q.pass /\ p.sciStatus = q.sciStatus /\ p.config = q.config
  /\ \/ /\ q.mode \in RebootModes
        /\ p.mode = q.mode
        /\ p.boot = (q.boot + 1) % U16Mod /\ p.anom = q.anom
     \/ /\ q.mode \notin RebootModes
        /\ p.mode = SafeRebootMode
        /\ p.anom = (q.anom + 1) % U16Mod /\ p.boot = q.boot

Init == up = FALSE /\ live = ZeroPacket /\ stored = ZeroPacket

Boot ==
  /\ ~up
  /\ up' = TRUE
  /\ live' \in Packets
  /\ \E q \in {stored, ZeroPacket} : Recovered(live', q)
  /\ UNCHANGED stored

\* A command changes the packet, but neither of its boot counters.
Change ==
  /\ up
  /\ live' \in Packets
  /\ live'.boot = live.boot /\ live'.anom = live.anom
  /\ UNCHANGED <<up, stored>>

Save == up /\ stored' = live /\ UNCHANGED <<up, live>>

\* A torn, failed or removed file.
Lose == stored' = ZeroPacket /\ UNCHANGED <<up, live>>

Crash == up' = FALSE /\ live' = ZeroPacket /\ UNCHANGED stored

Next == Boot \/ Change \/ Save \/ Lose \/ Crash

Spec == Init /\ [][Next]_vars
============================================================================
