------------------------------ MODULE AtsTable ------------------------------
(***************************************************************************)
(* Times and absolute-time tables of the stored command application        *)
(* (fsw/apps/sc/fsw/src/sc_utils.c, sc_loads.c).                           *)
(*                                                                         *)
(* A table is a function from the command numbers in it to entries         *)
(*     [time |-> absolute second, kind |-> "cmd", "switch" or "corrupt"]   *)
(* where "switch" is SC's own SWITCH_ATS command and "corrupt" a command   *)
(* whose stored checksum does not match.  AtsCmdIndexBuffer (command       *)
(* number to entry) is the function itself.                                *)
(***************************************************************************)
EXTENDS Integers, FiniteSets, SequencesExt

CONSTANTS
  MaxTime,    \* SC_MAX_TIME, the largest second: 2^32 - 1
  HalfRange,  \* CFE_TIME_NEGATIVE: 2^31
  MaxAtsCmds  \* SC_MAX_ATS_CMDS, the largest command number

ASSUME TimeAssumption ==
  /\ MaxTime \in Nat /\ HalfRange \in Nat
  /\ MaxTime + 1 = 2 * HalfRange
ASSUME MaxAtsCmdsAssumption == MaxAtsCmds \in Nat

Times   == 0 .. MaxTime
CmdNums == 1 .. MaxAtsCmds

\* SC_CompareAbsTime: CFE_TIME_Compare takes a difference of more than half
\* the range for a rollover.
Later(s, t) == IF s > t THEN s - t <= HalfRange ELSE t - s > HalfRange

\* SC_ComputeAbsTime: 32-bit seconds.
ComputeAbsTime(now, delay) == (now + delay) % (MaxTime + 1)

AtsEntries == [time : Times, kind : {"cmd", "switch", "corrupt"}]
AtsTables  == UNION {[S -> AtsEntries] : S \in SUBSET CmdNums}

\* The times of a table all lie in the first half of the clock's range.
NearTimes(tbl) == \A c \in DOMAIN tbl : tbl[c].time <= HalfRange

----------------------------------------------------------------------------
\* Variant with a bug, for sensitivity: step over entries of the same
\* second too.
InsertBeforeEqual(tbl, list, c) ==
  LET stops == {i \in 1 .. Len(list) : Later(tbl[c].time, tbl[list[i]].time)}
  IN  InsertAt(list, Max(stops \cup {0}) + 1, c)

\* SC_Insert: from the end of the sorted list, step over the entries that
\* are later than the new one.
Insert(tbl, list, c) ==
  LET stops == {i \in 1 .. Len(list) : ~Later(tbl[list[i]].time, tbl[c].time)}
  IN  InsertAt(list, Max(stops \cup {0}) + 1, c)

\* SC_BuildTimeIndexTable: insert the numbers in use in increasing order.
BuildTimeIndexTable(tbl) ==
  LET index[n \in 0 .. MaxAtsCmds] ==
        IF n = 0 THEN <<>>
        ELSE IF n \in DOMAIN tbl THEN Insert(tbl, index[n - 1], n) ELSE index[n - 1]
  IN  index[MaxAtsCmds]

\* NumberOfCommands
NumCommands(tbl) == Cardinality(DOMAIN tbl)

\* The entries at the head of the time index that a start at t passes over.
Passed(tbl, t) ==
  LET list == BuildTimeIndexTable(tbl)
  IN  CHOOSE n \in 0 .. Len(list) :
        /\ \A i \in 1 .. n : Later(t, tbl[list[i]].time)
        /\ n = Len(list) \/ ~Later(t, tbl[list[n + 1]].time)

PassedCommands(tbl, t) ==
  {BuildTimeIndexTable(tbl)[i] : i \in 1 .. Passed(tbl, t)}

============================================================================
