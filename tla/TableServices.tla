--------------------------- MODULE TableServices ---------------------------
(***************************************************************************)
(* cFE table services (fsw/cfe/modules/tbl/fsw/src): the ground loads an   *)
(* inactive image of a table, has the application that owns the table      *)
(* validate it, and activates it; the owner swaps or copies it in when it  *)
(* calls CFE_TBL_Manage.  A double-buffered table has two images of its    *)
(* own, every other table borrows one of the shared buffers for a load.    *)
(* The table task and the owners are separate tasks, and hardly anything   *)
(* here is under a mutex.                                                  *)
(*                                                                         *)
(* Every table has a validation function and one application uses it, as   *)
(* no application of the mission shares a table; it loads its table from a *)
(* file once, when it starts.  Abstracted: an image is its verdict under   *)
(* the validation function.  Left out: critical and dump-only tables, user *)
(* addresses, CFE_TBL_Modified, dumps and telemetry.                       *)
(***************************************************************************)
EXTENDS Naturals, FiniteSets

CONSTANTS
  Tables,    \* registered tables, each with its owner
  Layouts,   \* the sets of tables that may be registered as double-buffered
  Shared,    \* CFE_TBL_Global.LoadBuffs
  Slots,     \* CFE_TBL_Global.ValidationResults
  None,      \* CFE_TBL_NO_LOAD_IN_PROGRESS, CFE_TBL_NO_VALIDATION_PENDING
  Patient    \* the ground leaves a table alone while its owner is at it

Own(t) == {<<t, 0>>, <<t, 1>>}
Images == (UNION {Own(t) : t \in Tables}) \cup Shared

ASSUME TableAssumption ==
  /\ Layouts \subseteq SUBSET Tables /\ Patient \in BOOLEAN
  /\ None \notin Images /\ None \notin Slots /\ None \notin {0, 1}
  /\ \A t \in Tables : Shared \cap Own(t) = {}

VARIABLES
  double,   \* tables registered with CFE_TBL_OPT_DBL_BUFFER
  reg,      \* Registry: one record for each table
  img,      \* contents and Validated flag of each image
  taken,    \* shared buffers with Taken set
  slot,     \* State of each validation response block
  hold,     \* image index the owner has locked with CFE_TBL_GetAddress, or None
  loading,  \* CFE_TBL_LoadCmd in the table task: its table and image, or None
  pc,       \* what the owner is doing inside table services
  \* history, not in the code:
  lost,     \* response blocks whose table was removed before its owner replied
  wild      \* a shared buffer was addressed with CFE_TBL_NO_LOAD_IN_PROGRESS

vars == <<double, reg, img, taken, slot, hold, loading, pc, lost, wild>>

\* active: ActiveBufferIndex, loaded: TableLoadedOnce, load: the image that
\* LoadInProgress names, pending: LoadPending, inactive and running: the block
\* in ValidateInactiveIndex and ValidateActiveIndex.
Fresh == [active |-> 0, loaded |-> FALSE, load |-> None, pending |-> FALSE,
          inactive |-> None, running |-> None]

\* cut (history): the last load into this image ended in an error, after bytes
\* of the file had been written, and nothing has validated it since.
Blank == [good |-> FALSE, validated |-> FALSE, cut |-> FALSE]

Init ==
  /\ double \in Layouts
  /\ reg = [t \in Tables |-> Fresh]
  /\ img = [x \in Images |-> Blank]
  /\ taken = {}
  /\ slot = [s \in Slots |-> "free"]
  /\ hold = [t \in Tables |-> None]
  /\ loading = None
  /\ pc = [t \in Tables |-> "starting"]
  /\ lost = {} /\ wild = FALSE

Active(t)   == <<t, reg[t].active>>
Inactive(t) == IF t \in double THEN <<t, 1 - reg[t].active>> ELSE reg[t].load

\* Assumed of the ground: it waits for the answer to a validation before its
\* next command on the inactive image, and a command does not overtake the
\* owner's own first load or the few instructions of an update.
Settled(t) ==
  Patient => reg[t].inactive = None /\ pc[t] \notin {"loading", "updating"}

----------------------------------------------------------------------------
(* The table task: one command at a time.                                  *)

\* Variant with a bug, for sensitivity: the locks are not looked at.
FreeImagesUnlocked(t) == IF t \in double THEN {Inactive(t)} ELSE Shared \ taken

FreeImages(t) ==
  IF t \in double
  THEN {x \in {Inactive(t)} : hold[t] # x[2]}
  ELSE Shared \ taken

\* Variant with a bug, for sensitivity: a table's own image is marked taken too.
GetWorkingBufferTakes(t, x) ==
  /\ x \in IF reg[t].load # None THEN {Inactive(t)} ELSE FreeImages(t)
  /\ taken' = taken \cup {x}
  /\ reg' = [reg EXCEPT ![t].load = IF @ = None THEN x ELSE @]
  /\ img' = [img EXCEPT ![x].cut = TRUE,
               ![x].good = IF reg[t].load = None THEN img[Active(t)].good ELSE @]

\* CFE_TBL_GetWorkingBuffer for the table task: the image of the load in
\* progress, or a free one filled from the active image.
GetWorkingBuffer(t, x) ==
  /\ x \in IF reg[t].load # None THEN {Inactive(t)} ELSE FreeImages(t)
  /\ taken' = taken \cup ({x} \cap Shared)
  /\ reg' = [reg EXCEPT ![t].load = IF @ = None THEN x ELSE @]
  /\ img' = [img EXCEPT ![x].cut = TRUE,
               ![x].good = IF reg[t].load = None THEN img[Active(t)].good ELSE @]

LoadCmd(t) ==
  /\ loading = None /\ Settled(t)
  /\ ~reg[t].pending
  /\ \E x \in Images : GetWorkingBuffer(t, x) /\ loading' = [of |-> t, to |-> x]
  /\ UNCHANGED <<double, slot, hold, pc, lost, wild>>

\* Variant with a bug, for sensitivity: the flag is not cleared.
LoadReadKeeps(x, complete) ==
  \E data \in BOOLEAN :
    img' = [img EXCEPT ![x].good = data, ![x].cut = @ /\ ~complete]

\* Any data; a file that is shorter or longer than its header says is an error.
LoadRead(x, complete) ==
  \E data \in BOOLEAN :
    img' = [img EXCEPT ![x] = IF complete
                              THEN [Blank EXCEPT !.good = data]
                              ELSE [@ EXCEPT !.good = data]]

LoadCmdRead ==
  /\ loading # None
  /\ \E complete \in BOOLEAN : LoadRead(loading.to, complete)
  /\ loading' = None
  /\ UNCHANGED <<double, reg, taken, slot, hold, pc, lost, wild>>

ValidateCmd(t, s) ==
  /\ loading = None
  /\ slot[s] = "free"
  /\ slot' = [slot EXCEPT ![s] = "pending"]
  /\ \/ /\ Inactive(t) # None
        /\ Settled(t) /\ (Patient => ~reg[t].pending)
        /\ reg' = [reg EXCEPT ![t].inactive = s]
     \/ /\ Patient => reg[t].running = None
        /\ reg' = [reg EXCEPT ![t].running = s]
  /\ UNCHANGED <<double, img, taken, hold, loading, pc, lost, wild>>

ActivateCmd(t) ==
  /\ loading = None /\ Settled(t)
  /\ reg[t].load # None
  /\ img[Inactive(t)].validated
  /\ reg' = [reg EXCEPT ![t].pending = TRUE]
  /\ UNCHANGED <<double, img, taken, slot, hold, loading, pc, lost, wild>>

\* Variant with a bug, for sensitivity: the shared buffer is not freed.
AbortLoadKeeps(t) ==
  /\ taken' = taken
  /\ reg' = [reg EXCEPT ![t].load = None, ![t].pending = FALSE]

AbortLoad(t) ==
  /\ taken' = taken \ {reg[t].load}
  /\ reg' = [reg EXCEPT ![t].load = None, ![t].pending = FALSE]

AbortLoadCmd(t) ==
  /\ loading = None /\ Settled(t)
  /\ reg[t].load # None
  /\ AbortLoad(t)
  /\ UNCHANGED <<double, img, slot, hold, loading, pc, lost, wild>>

\* A housekeeping request frees a response block whose result it reports.
GetHkData(s) ==
  /\ loading = None
  /\ slot[s] = "performed"
  /\ slot' = [slot EXCEPT ![s] = "free"]
  /\ UNCHANGED <<double, reg, img, taken, hold, loading, pc, lost, wild>>

----------------------------------------------------------------------------
(* The owner of a table.                                                   *)

\* The first load goes directly to the active image and is validated at once.
Load(t) ==
  /\ pc[t] = "starting"
  /\ pc' = [pc EXCEPT ![t] = IF reg[t].load = None THEN "loading" ELSE "idle"]
  /\ UNCHANGED <<double, reg, img, taken, slot, hold, loading, lost, wild>>

\* CFE_TBL_NotifyTblUsersOfUpdate ends a load that has reached the table.
NotifyTblUsersOfUpdate(t) ==
  reg' = [reg EXCEPT ![t].load = None, ![t].pending = FALSE, ![t].loaded = TRUE]

LoadDone(t) ==
  /\ pc[t] = "loading"
  /\ \/ /\ NotifyTblUsersOfUpdate(t)
        /\ img' = [img EXCEPT ![Active(t)].good = TRUE]
        /\ UNCHANGED taken
     \/ /\ taken' = IF reg[t].loaded THEN taken \ {reg[t].load} ELSE taken
        /\ reg' = [reg EXCEPT ![t].load = None]
        /\ img' = [img EXCEPT ![Active(t)].good = FALSE]
  /\ pc' = [pc EXCEPT ![t] = "idle"]
  /\ UNCHANGED <<double, slot, hold, loading, lost, wild>>

GetAddress(t) ==
  /\ pc[t] = "idle" /\ hold[t] = None
  /\ hold' = [hold EXCEPT ![t] = reg[t].active]
  /\ UNCHANGED <<double, reg, img, taken, slot, loading, pc, lost, wild>>

ReleaseAddress(t) ==
  /\ pc[t] = "idle" /\ hold[t] # None
  /\ hold' = [hold EXCEPT ![t] = None]
  /\ UNCHANGED <<double, reg, img, taken, slot, loading, pc, lost, wild>>

\* CFE_TBL_UpdateInternal up to its notification: swap, or copy and give back
\* the shared buffer.  Without a load in progress, or with a single image that
\* its owner has locked, it does nothing.
Update(t) ==
  /\ pc[t] = "idle" /\ reg[t].pending /\ reg[t].load # None
  /\ t \in double \/ hold[t] = None
  /\ IF t \in double
     THEN /\ reg' = [reg EXCEPT ![t].active = reg[t].load[2]]
          /\ UNCHANGED <<img, taken>>
     ELSE /\ img' = [img EXCEPT ![<<t, 0>>].good = img[reg[t].load].good,
                                ![<<t, 0>>].cut  = img[reg[t].load].cut]
          /\ taken' = taken \ {reg[t].load}
          /\ UNCHANGED reg
  /\ pc' = [pc EXCEPT ![t] = "updating"]
  /\ UNCHANGED <<double, slot, hold, loading, lost, wild>>

UpdateDone(t) ==
  /\ pc[t] = "updating"
  /\ NotifyTblUsersOfUpdate(t)
  /\ pc' = [pc EXCEPT ![t] = "idle"]
  /\ UNCHANGED <<double, img, taken, slot, hold, loading, lost, wild>>

\* CFE_TBL_Validate runs the function on the inactive image first.  A pending
\* update comes before both (CFE_TBL_GetStatus).
Validate(t) ==
  /\ pc[t] = "idle" /\ ~reg[t].pending
  /\ \/ /\ reg[t].inactive # None
        /\ wild' = (wild \/ Inactive(t) = None)
        /\ \E verdict \in {"passed", "failed"} :
             /\ Inactive(t) # None => (img[Inactive(t)].good <=> verdict = "passed")
             /\ pc' = [pc EXCEPT ![t] = verdict]
     \/ /\ reg[t].inactive = None /\ reg[t].running # None
        /\ pc' = [pc EXCEPT ![t] = "answering"]
        /\ UNCHANGED wild
  /\ UNCHANGED <<double, reg, img, taken, slot, hold, loading, lost>>

\* Variant with a bug, for sensitivity: the index is left in the registry.
AnswerKeeps(t, field) ==
  /\ slot' = [slot EXCEPT ![reg[t][field]] = "performed"]
  /\ reg' = reg

\* The block is answered and no longer the table's.
Answer(t, field) ==
  /\ slot' = [slot EXCEPT ![reg[t][field]] = "performed"]
  /\ reg' = [reg EXCEPT ![t][field] = None]

ValidateDone(t) ==
  /\ \/ /\ pc[t] \in {"passed", "failed"}
        /\ Answer(t, "inactive")
        /\ wild' = (wild \/ Inactive(t) = None)
        /\ img' = [x \in Images |->
                     IF pc[t] = "passed" /\ x = Inactive(t)
                     THEN [img[x] EXCEPT !.validated = TRUE, !.cut = FALSE]
                     ELSE img[x]]
     \/ /\ pc[t] = "answering"
        /\ Answer(t, "running")
        /\ UNCHANGED <<img, wild>>
  /\ pc' = [pc EXCEPT ![t] = "idle"]
  /\ UNCHANGED <<double, taken, hold, loading, lost>>

\* The owner ends at any point but inside an update or a load command, is
\* cleaned up (CFE_TBL_CleanUpApp) and registers its table again.
Restart(t) ==
  /\ Patient => pc[t] # "updating"
  /\ loading # None => loading.of # t
  /\ pc[t] # "starting"
  /\ taken' = taken \ {reg[t].load}
  /\ reg' = [reg EXCEPT ![t] = Fresh]
  /\ img' = [x \in Images |-> IF x \in Own(t) THEN Blank ELSE img[x]]
  /\ hold' = [hold EXCEPT ![t] = None]
  /\ pc' = [pc EXCEPT ![t] = "starting"]
  /\ lost' = lost \cup ({reg[t].inactive, reg[t].running} \ {None})
  /\ UNCHANGED <<double, slot, loading, wild>>

----------------------------------------------------------------------------

Next ==
  \/ \E t \in Tables :
       \/ LoadCmd(t) \/ ActivateCmd(t) \/ AbortLoadCmd(t)
       \/ \E s \in Slots : ValidateCmd(t, s)
       \/ Load(t) \/ LoadDone(t) \/ GetAddress(t) \/ ReleaseAddress(t)
       \/ Update(t) \/ UpdateDone(t) \/ Validate(t) \/ ValidateDone(t)
       \/ Restart(t)
  \/ LoadCmdRead
  \/ \E s \in Slots : GetHkData(s)

Spec == Init /\ [][Next]_vars

----------------------------------------------------------------------------
(* Properties.                                                             *)

\* The state stays in its type, and no shared buffer is addressed with the
\* index that means "no load" (LoadBuffs[-1] in CFE_TBL_Validate).
TypeOK ==
  /\ double \in Layouts
  /\ reg \in [Tables -> [active : {0, 1}, loaded : BOOLEAN, pending : BOOLEAN,
                         load : Images \cup {None},
                         inactive : Slots \cup {None}, running : Slots \cup {None}]]
  /\ img \in [Images -> [good : BOOLEAN, validated : BOOLEAN, cut : BOOLEAN]]
  /\ taken \subseteq Shared
  /\ slot \in [Slots -> {"free", "pending", "performed"}]
  /\ hold \in [Tables -> {None, 0, 1}]
  /\ loading \in [of : Tables, to : Images] \cup {None}
  /\ pc \in [Tables -> {"starting", "loading", "idle", "updating",
                        "passed", "failed", "answering"}]
  /\ lost \subseteq Slots
  /\ ~wild

Borrowed(t) == IF pc[t] = "updating" THEN {} ELSE {reg[t].load} \cap Shared

\* The shared buffers that are taken are exactly those of the loads in
\* progress, and no buffer serves two tables: none is lost to an abort, an
\* update or the end of an application, and no load gets another's image.
BuffersAccounted ==
  /\ taken = UNION {Borrowed(t) : t \in Tables}
  /\ \A t, u \in Tables : t # u => Borrowed(t) \cap Borrowed(u) = {}

Asked(t) == {reg[t].inactive, reg[t].running} \ {None}

\* A response block waits for an answer exactly while one table's registry
\* record names it, so that every answer goes to the request it belongs to;
\* only the end of an owner leaves a block pending for ever.
SlotsAccounted ==
  /\ {s \in Slots : slot[s] = "pending"} = lost \cup UNION {Asked(t) : t \in Tables}
  /\ \A t \in Tables :
       /\ reg[t].inactive = reg[t].running => reg[t].inactive = None
       /\ \A u \in Tables \ {t} : Asked(t) \cap Asked(u) = {}

\* A loaded table is one its validation function accepts, except where the
\* last load of the image ended in an error: CFE_TBL_LoadCmd leaves Validated
\* as the image's last user had it, and the image can be activated.
OnlyValidated ==
  \A t \in Tables :
    reg[t].loaded /\ pc[t] # "loading" =>
      img[Active(t)].good \/ img[Active(t)].cut

\* What an owner reads between CFE_TBL_GetAddress and CFE_TBL_ReleaseAddress
\* does not change under it, whatever is loaded, aborted or activated.
Steady ==
  [][\A t \in Tables :
       hold[t] # None /\ hold'[t] = hold[t] =>
         img'[<<t, hold[t]>>].good = img[<<t, hold[t]>>].good]_vars
=============================================================================
