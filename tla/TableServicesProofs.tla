------------------------ MODULE TableServicesProofs ------------------------
(***************************************************************************)
(* TableServices with a patient ground, for any number of tables, shared   *)
(* buffers and response blocks: the state keeps its type, shared buffers   *)
(* and response blocks are accounted for, what is loaded was accepted, and *)
(* what an owner has locked stays as it is.                                *)
(***************************************************************************)
EXTENDS TableServices, TLAPS

\* The load of table t occupies shared buffer b.
Uses(t, b) == pc[t] # "updating" /\ reg[t].load = b

\* BuffersAccounted, buffer by buffer.
Accounted ==
  /\ \A b \in Shared : b \in taken <=> \E t \in Tables : Uses(t, b)
  /\ \A b \in Shared, t, u \in Tables : Uses(t, b) /\ Uses(u, b) => t = u

\* What a table's record says while its owner or the ground is in the middle
\* of a load, an update or a validation.
Phase(t) ==
  /\ t \in double => reg[t].load \in {None} \cup Own(t)
  /\ t \notin double => reg[t].load \in {None} \cup Shared
  /\ pc[t] = "loading" => reg[t].load = None
  /\ pc[t] = "updating" => reg[t].pending
  /\ pc[t] \in {"passed", "failed"} => reg[t].inactive # None
  /\ reg[t].pending => reg[t].load # None /\ reg[t].inactive = None
  /\ reg[t].inactive # None => Inactive(t) # None
Phases == \A t \in Tables : Phase(t)

IInv == TypeOK /\ Phases /\ Accounted

----------------------------------------------------------------------------
(* Images and records.                                                     *)

Record == [active : {0, 1}, loaded : BOOLEAN, pending : BOOLEAN,
           load : Images \cup {None},
           inactive : Slots \cup {None}, running : Slots \cup {None}]
Image  == [good : BOOLEAN, validated : BOOLEAN, cut : BOOLEAN]

\* The images of a table are images, none of them a shared buffer or None.
LEMMA OwnImages ==
  ASSUME NEW t \in Tables
  PROVE  /\ <<t, 0>> \in Images /\ <<t, 1>> \in Images /\ Shared \subseteq Images
         /\ Own(t) = {<<t, 0>>, <<t, 1>>} /\ Own(t) \cap Shared = {}
         /\ None \notin Own(t) /\ None \notin Shared
BY TableAssumption DEF Own, Images

\* The active image, and the inactive one if there is one, are images; the
\* inactive image of a double-buffered table is its own.
LEMMA TableImages ==
  ASSUME TypeOK, NEW t \in Tables
  PROVE  /\ Active(t) \in Own(t) /\ Active(t) \in Images
         /\ Inactive(t) \in Images \cup {None}
         /\ t \in double => Inactive(t) \in Own(t) /\ Inactive(t) # None
<1>1. reg[t].active \in {0, 1} /\ reg[t].load \in Images \cup {None}
  BY DEF TypeOK
<1>2. 1 - reg[t].active \in {0, 1}
  BY <1>1
<1> QED  BY <1>1, <1>2, OwnImages DEF Active, Inactive

\* A free image is unused: an own image, or a shared buffer that is not taken.
LEMMA FreeIsUnused ==
  ASSUME TypeOK, NEW t \in Tables, NEW x \in FreeImages(t)
  PROVE  /\ x \in Images /\ x # None
         /\ t \in double => x = Inactive(t) /\ x \in Own(t)
         /\ t \notin double => x \in Shared \ taken
BY TableImages, OwnImages DEF FreeImages

\* Marking an image and filling it leaves images images.
LEMMA WriteType ==
  ASSUME TypeOK, NEW t \in Tables, NEW x \in Images,
         img' = [img EXCEPT ![x].cut = TRUE,
                   ![x].good = IF reg[t].load = None THEN img[Active(t)].good ELSE @]
  PROVE  img' \in [Images -> Image]
<1>1. img[x] \in Image /\ img[Active(t)] \in Image
  BY TableImages DEF TypeOK, Image
<1> DEFINE v == IF reg[t].load = None THEN img[Active(t)].good ELSE img[x].good
<1>2. v \in BOOLEAN
  BY <1>1 DEF Image
<1>3. [[img[x] EXCEPT !.cut = TRUE] EXCEPT !.good = v] \in Image
  <2> HIDE DEF v
  <2> QED  BY <1>1, <1>2 DEF Image
<1>4. img' = [img EXCEPT ![x] = [[img[x] EXCEPT !.cut = TRUE] EXCEPT !.good = v]]
  BY <1>1 DEF TypeOK, Image
<1> QED  BY <1>3, <1>4 DEF TypeOK, Image

----------------------------------------------------------------------------
(* The parts of the invariant, for steps that leave most of them alone.    *)

\* A step that changes the record and phase of one table to ones that satisfy
\* Phase, and no other's, preserves Phases.
LEMMA OneTable ==
  ASSUME TypeOK, Phases, NEW t \in Tables, NEW r, NEW p,
         double' = double,
         reg' = [reg EXCEPT ![t] = r], pc' = [pc EXCEPT ![t] = p], Phase(t)'
  PROVE  Phases'
<1> SUFFICES ASSUME NEW u \in Tables, u # t PROVE Phase(u)'
  BY DEF Phases
<1>1. reg'[u] = reg[u] /\ pc'[u] = pc[u]
  BY DEF TypeOK
<1> QED  BY <1>1 DEF Phases, Phase, Inactive

\* A step that changes no load, no update and no shared buffer keeps account.
LEMMA SameUse ==
  ASSUME Accounted, taken' = taken,
         \A u \in Tables, b \in Shared : Uses(u, b)' <=> Uses(u, b)
  PROVE  Accounted'
BY DEF Accounted

\* A step that ends the use of buffers by one table and frees its load.
LEMMA LastUse ==
  ASSUME Accounted, NEW t \in Tables, taken' = taken \ {reg[t].load},
         pc[t] # "updating",
         \A b \in Shared : ~Uses(t, b)',
         \A u \in Tables \ {t}, b \in Shared : Uses(u, b)' <=> Uses(u, b)
  PROVE  Accounted'
BY DEF Accounted, Uses

----------------------------------------------------------------------------
(* The table task.                                                         *)

\* A load command takes an image that nobody uses, or keeps the one it has.
LEMMA LoadCmdIInv ==
  ASSUME Patient, IInv, NEW t \in Tables, LoadCmd(t)
  PROVE  IInv'
<1> USE DEF IInv
<1>1. PICK x \in Images : GetWorkingBuffer(t, x) /\ loading' = [of |-> t, to |-> x]
  BY DEF LoadCmd
<1>2. /\ ~reg[t].pending /\ reg[t].inactive = None
      /\ pc[t] \notin {"loading", "updating"}
      /\ UNCHANGED <<double, slot, hold, pc, lost, wild>>
  BY DEF LoadCmd, Settled
<1>3. reg[t] \in Record /\ Phase(t)
  BY DEF TypeOK, Record, Phases
<1>4. CASE reg[t].load # None
  <2>1. x = Inactive(t) /\ reg' = reg
    BY <1>1, <1>3, <1>4 DEF GetWorkingBuffer, TypeOK, Record
  <2>2. taken' = taken
    <3>1. CASE t \in double
      BY <1>1, <2>1, <3>1, TableImages, OwnImages DEF GetWorkingBuffer
    <3>2. CASE t \notin double
      <4>1. x = reg[t].load /\ x \in Shared /\ Uses(t, x)
        BY <1>2, <1>3, <1>4, <2>1, <3>2 DEF Inactive, Phase, Uses
      <4> QED  BY <1>1, <4>1 DEF GetWorkingBuffer, Accounted
    <3> QED  BY <3>1, <3>2
  <2>3. TypeOK'
    <3>1. img' \in [Images -> Image]
      BY <1>1, WriteType DEF GetWorkingBuffer
    <3> QED  BY <1>1, <1>2, <2>1, <2>2, <3>1 DEF TypeOK, Image
  <2>4. Phases'
    BY <1>2, <2>1 DEF Phases, Phase, Inactive
  <2>5. Accounted'
    BY <1>2, <2>1, <2>2 DEF Accounted, Uses
  <2> QED  BY <2>3, <2>4, <2>5
<1>5. CASE reg[t].load = None
  <2>1. x \in FreeImages(t)
    BY <1>1, <1>5 DEF GetWorkingBuffer
  <2>2. /\ x # None
        /\ t \in double => x \in Own(t) /\ x \notin Shared
        /\ t \notin double => x \in Shared \ taken
    BY <2>1, FreeIsUnused, OwnImages
  <2>3. /\ reg' = [reg EXCEPT ![t] = [reg[t] EXCEPT !.load = x]]
        /\ taken' = taken \cup ({x} \cap Shared)
    BY <1>1, <1>3, <1>5 DEF GetWorkingBuffer, TypeOK, Record
  <2>4. [reg[t] EXCEPT !.load = x] \in Record
    BY <1>3 DEF Record
  <2>5. TypeOK'
    <3>1. img' \in [Images -> Image]
      BY <1>1, WriteType DEF GetWorkingBuffer
    <3>2. reg' \in [Tables -> Record]
      BY <2>3, <2>4 DEF TypeOK, Record
    <3> QED  BY <1>1, <1>2, <2>3, <3>1, <3>2 DEF TypeOK, Record, Image
  <2>6. reg'[t] = [reg[t] EXCEPT !.load = x]
    BY <2>3 DEF TypeOK
  <2>7. Phase(t)'
    BY <1>2, <1>3, <2>2, <2>6 DEF Phase, Record
  <2>8. Phases'
    <3>1. pc' = [pc EXCEPT ![t] = pc[t]]
      BY <1>2 DEF TypeOK
    <3> QED  BY <1>2, <2>3, <2>7, <3>1, OneTable
  <2>9. Accounted'
    <3>1. \A u \in Tables \ {t}, b \in Shared : Uses(u, b)' <=> Uses(u, b)
      BY <1>2, <2>3 DEF TypeOK, Uses
    <3>2. \A b \in Shared : ~Uses(t, b) /\ (Uses(t, b)' <=> b = x)
      BY <1>2, <1>3, <1>5, <2>6, OwnImages DEF Uses, Record
    <3>3. x \in Shared => \A u \in Tables : ~Uses(u, x)
      BY <2>2, OwnImages, <3>2 DEF Accounted
    <3> QED  BY <2>3, <3>1, <3>2, <3>3 DEF Accounted
  <2> QED  BY <2>5, <2>8, <2>9
<1> QED  BY <1>4, <1>5

\* The rest of a load command only writes to the image.
LEMMA LoadCmdReadIInv == IInv /\ LoadCmdRead => IInv'
<1> SUFFICES ASSUME IInv, LoadCmdRead PROVE IInv'
  OBVIOUS
<1> USE DEF IInv, LoadCmdRead
<1>1. loading.to \in Images
  BY DEF TypeOK
<1>2. PICK c \in BOOLEAN, v \in BOOLEAN :
        img' = [img EXCEPT ![loading.to] = IF c THEN [Blank EXCEPT !.good = v]
                                                ELSE [@ EXCEPT !.good = v]]
  BY DEF LoadRead
<1>3. img[loading.to] \in Image /\ Blank \in Image
  BY <1>1 DEF TypeOK, Image, Blank
<1>4. /\ [Blank EXCEPT !.good = v] \in Image
      /\ [img[loading.to] EXCEPT !.good = v] \in Image
  BY <1>3 DEF Image
<1>5. img' \in [Images -> Image]
  BY <1>2, <1>4 DEF TypeOK, Image
<1>6. TypeOK'
  BY <1>5 DEF TypeOK, Image
<1>7. Phases'
  BY DEF Phases, Phase, Inactive
<1>8. Accounted'
  BY SameUse DEF Uses
<1> QED  BY <1>6, <1>7, <1>8

\* A validation is asked of an image there is.
LEMMA ValidateCmdIInv ==
  ASSUME Patient, IInv, NEW t \in Tables, NEW s \in Slots, ValidateCmd(t, s)
  PROVE  IInv'
<1> USE DEF IInv
<1>1. slot' \in [Slots -> {"free", "pending", "performed"}]
  BY DEF ValidateCmd, TypeOK
<1>2. reg[t] \in Record /\ Phase(t)
  BY DEF TypeOK, Record, Phases
<1>3. PICK f \in {"inactive", "running"} :
        /\ reg' = [reg EXCEPT ![t] = [reg[t] EXCEPT ![f] = s]]
        /\ f = "inactive" => Inactive(t) # None /\ ~reg[t].pending
  BY <1>2 DEF ValidateCmd, Record, TypeOK
<1>4. /\ reg'[t] = [reg[t] EXCEPT ![f] = s] /\ reg'[t] \in Record
      /\ reg'[t].load = reg[t].load /\ reg'[t].pending = reg[t].pending
      /\ reg'[t].active = reg[t].active
      /\ f = "running" => reg'[t].inactive = reg[t].inactive
      /\ f = "inactive" => reg'[t].inactive = s
  BY <1>2, <1>3 DEF TypeOK, Record
<1>5. TypeOK'
  <2>1. reg' \in [Tables -> Record]
    BY <1>3, <1>4 DEF TypeOK, Record
  <2> QED  BY <1>1, <2>1 DEF TypeOK, ValidateCmd, Record
<1>6. Phases'
  <2>1. Phase(t)'
    BY <1>2, <1>3, <1>4, TableAssumption DEF Phase, Inactive, ValidateCmd
  <2>2. pc' = [pc EXCEPT ![t] = pc[t]] /\ double' = double
    BY DEF ValidateCmd, TypeOK
  <2> QED  BY <1>3, <2>1, <2>2, OneTable
<1>7. Accounted'
  <2>1. \A u \in Tables : reg'[u].load = reg[u].load
    BY <1>3, <1>4 DEF TypeOK
  <2> QED  BY <2>1, SameUse DEF Uses, ValidateCmd
<1> QED  BY <1>5, <1>6, <1>7

\* An activation is of a load, with no validation outstanding.
LEMMA ActivateCmdIInv ==
  ASSUME Patient, IInv, NEW t \in Tables, ActivateCmd(t)
  PROVE  IInv'
<1> USE DEF IInv
<1>1. reg[t] \in Record /\ Phase(t)
  BY DEF TypeOK, Record, Phases
<1> DEFINE r == [reg[t] EXCEPT !.pending = TRUE]
<1>2. /\ reg' = [reg EXCEPT ![t] = r] /\ r \in Record /\ reg'[t] = r
      /\ r.load = reg[t].load /\ r.inactive = reg[t].inactive
      /\ r.active = reg[t].active /\ r.pending
  BY <1>1 DEF ActivateCmd, TypeOK, Record
<1> HIDE DEF r
<1>3. TypeOK'
  <2>1. reg' \in [Tables -> Record]
    BY <1>2 DEF TypeOK, Record
  <2> QED  BY <2>1 DEF TypeOK, Record, ActivateCmd
<1>4. Phase(t)'
  BY <1>1, <1>2 DEF Phase, Inactive, ActivateCmd, Settled
<1>5. Phases'
  <2>1. pc' = [pc EXCEPT ![t] = pc[t]] /\ double' = double
    BY DEF ActivateCmd, TypeOK
  <2> QED  BY <1>2, <1>4, <2>1, OneTable
<1>6. Accounted'
  <2>1. \A u \in Tables : reg'[u].load = reg[u].load
    BY <1>2 DEF TypeOK
  <2> QED  BY <2>1, SameUse DEF Uses, ActivateCmd
<1> QED  BY <1>3, <1>5, <1>6

\* An abort gives back the shared buffer, which no update has given back yet.
LEMMA AbortLoadCmdIInv ==
  ASSUME Patient, IInv, NEW t \in Tables, AbortLoadCmd(t)
  PROVE  IInv'
<1> USE DEF IInv
<1>1. reg[t] \in Record /\ Phase(t)
  BY DEF TypeOK, Record, Phases
<1> DEFINE r == [reg[t] EXCEPT !.load = None, !.pending = FALSE]
<1>2. /\ reg' = [reg EXCEPT ![t] = r] /\ r \in Record /\ reg'[t] = r
      /\ r.load = None /\ r.inactive = reg[t].inactive /\ ~r.pending
  BY <1>1 DEF AbortLoadCmd, AbortLoad, TypeOK, Record
<1> HIDE DEF r
<1>3. reg[t].inactive = None /\ pc[t] # "updating"
  BY DEF AbortLoadCmd, Settled
<1>4. TypeOK'
  BY <1>2 DEF TypeOK, Record, AbortLoadCmd, AbortLoad
<1>5. Phase(t)'
  BY <1>1, <1>2, <1>3 DEF Phase, AbortLoadCmd
<1>6. Phases'
  <2>1. pc' = [pc EXCEPT ![t] = pc[t]] /\ double' = double
    BY DEF AbortLoadCmd, TypeOK
  <2> QED  BY <1>2, <1>5, <2>1, OneTable
<1>7. Accounted'
  <2>1. \A b \in Shared : ~Uses(t, b)'
    BY <1>2, OwnImages DEF Uses
  <2>2. \A u \in Tables \ {t}, b \in Shared : Uses(u, b)' <=> Uses(u, b)
    BY <1>2 DEF Uses, TypeOK, AbortLoadCmd
  <2>3. taken' = taken \ {reg[t].load}
    BY DEF AbortLoadCmd, AbortLoad
  <2> QED  BY <1>3, <2>1, <2>2, <2>3, LastUse
<1> QED  BY <1>4, <1>6, <1>7

\* Housekeeping frees response blocks and nothing else.
LEMMA GetHkDataIInv ==
  ASSUME IInv, NEW s \in Slots, GetHkData(s)
  PROVE  IInv'
<1> USE DEF IInv, GetHkData
<1>1. TypeOK'
  BY DEF TypeOK
<1>2. Phases'
  BY DEF Phases, Phase, Inactive
<1>3. Accounted'
  BY SameUse DEF Uses
<1> QED  BY <1>1, <1>2, <1>3

----------------------------------------------------------------------------
(* The owner.                                                              *)

\* The owner's steps that change only its phase, its lock or what has been
\* addressed leave the record as it is.
LEMMA OwnerOnly ==
  ASSUME IInv, NEW t \in Tables, NEW p,
         UNCHANGED <<double, reg, img, taken, slot, loading, lost>>,
         pc' = [pc EXCEPT ![t] = p],
         p \in {"loading", "idle", "passed", "failed", "answering"},
         p = "loading" => reg[t].load = None,
         p \in {"passed", "failed"} => reg[t].inactive # None,
         pc[t] # "updating",
         hold' \in [Tables -> {None, 0, 1}], ~wild'
  PROVE  IInv'
<1> USE DEF IInv
<1>1. TypeOK'
  BY DEF TypeOK
<1>2. pc'[t] = p
  BY DEF TypeOK
<1>3. \A u \in Tables : pc'[u] = "updating" <=> pc[u] = "updating"
  BY <1>2 DEF TypeOK
<1>4. Phases'
  <2>1. \A u \in Tables :
          /\ pc'[u] = "loading" => reg[u].load = None
          /\ pc'[u] \in {"passed", "failed"} => reg[u].inactive # None
    BY <1>2 DEF TypeOK, Phases, Phase
  <2> QED  BY <1>3, <2>1 DEF Phases, Phase, Inactive
<1>5. Accounted'
  BY <1>3, SameUse DEF Uses
<1> QED  BY <1>1, <1>4, <1>5

\* The start of the first load, the two calls that lock and release the table,
\* and the start of a validation.
LEMMA OwnerStartsIInv ==
  ASSUME IInv, NEW t \in Tables,
         Load(t) \/ GetAddress(t) \/ ReleaseAddress(t) \/ Validate(t)
  PROVE  IInv'
<1>0. TypeOK /\ Phase(t)
  BY DEF IInv, Phases
<1>1. CASE Load(t)
  <2>1. ~wild' /\ hold' \in [Tables -> {None, 0, 1}]
    BY <1>0, <1>1 DEF Load, TypeOK
  <2> QED  BY <1>1, <2>1, OwnerOnly DEF Load
<1>2. CASE GetAddress(t) \/ ReleaseAddress(t)
  <2>1. reg[t].active \in {0, 1}
    BY <1>0 DEF TypeOK
  <2>2. ~wild' /\ hold' \in [Tables -> {None, 0, 1}]
    BY <1>0, <1>2, <2>1 DEF GetAddress, ReleaseAddress, TypeOK
  <2>3. pc' = [pc EXCEPT ![t] = "idle"] /\ pc[t] # "updating"
    BY <1>0, <1>2 DEF GetAddress, ReleaseAddress, TypeOK
  <2> QED  BY <1>2, <2>2, <2>3, OwnerOnly DEF GetAddress, ReleaseAddress
<1>3. CASE Validate(t)
  <2>1. ~wild' /\ hold' \in [Tables -> {None, 0, 1}]
    BY <1>0, <1>3 DEF Validate, Phase, TypeOK
  <2>2. PICK p \in {"passed", "failed", "answering"} :
          /\ pc' = [pc EXCEPT ![t] = p]
          /\ p \in {"passed", "failed"} => reg[t].inactive # None
    BY <1>3 DEF Validate
  <2> QED  BY <1>3, <2>1, <2>2, OwnerOnly DEF Validate
<1> QED  BY <1>1, <1>2, <1>3

\* The first load reaches the active image without a shared buffer.
LEMMA LoadDoneIInv ==
  ASSUME IInv, NEW t \in Tables, LoadDone(t)
  PROVE  IInv'
<1> USE DEF IInv
<1>1. /\ reg[t] \in Record /\ Phase(t) /\ reg[t].load = None
      /\ Active(t) \in Images /\ img[Active(t)] \in Image
  <2>1. Active(t) \in Images
    BY TableImages
  <2>2. img[Active(t)] \in Image
    BY <2>1 DEF TypeOK, Image
  <2>3. reg[t] \in Record /\ Phase(t)
    BY DEF TypeOK, Record, Phases
  <2> QED  BY <2>1, <2>2, <2>3 DEF LoadDone, Phase
<1>2. PICK r \in Record, v \in BOOLEAN :
        /\ reg' = [reg EXCEPT ![t] = r]
        /\ img' = [img EXCEPT ![Active(t)].good = v]
        /\ r.load = None /\ r.inactive = reg[t].inactive
        /\ r.active = reg[t].active
        /\ r.pending = reg[t].pending \/ ~r.pending
  <2>1. CASE NotifyTblUsersOfUpdate(t) /\ img' = [img EXCEPT ![Active(t)].good = TRUE]
    <3> DEFINE r == [reg[t] EXCEPT !.load = None, !.pending = FALSE, !.loaded = TRUE]
    <3>1. /\ r \in Record /\ r.load = None /\ r.inactive = reg[t].inactive
          /\ r.active = reg[t].active /\ ~r.pending
      BY <1>1 DEF Record
    <3>2. reg' = [reg EXCEPT ![t] = r]
      BY <1>1, <2>1 DEF NotifyTblUsersOfUpdate, TypeOK, Record
    <3> HIDE DEF r
    <3> QED  BY <2>1, <3>1, <3>2
  <2>2. CASE /\ reg' = [reg EXCEPT ![t].load = None]
             /\ img' = [img EXCEPT ![Active(t)].good = FALSE]
    <3> DEFINE r == [reg[t] EXCEPT !.load = None]
    <3>1. /\ r \in Record /\ r.load = None /\ r.inactive = reg[t].inactive
          /\ r.active = reg[t].active /\ r.pending = reg[t].pending
      BY <1>1 DEF Record
    <3>2. reg' = [reg EXCEPT ![t] = r]
      BY <1>1, <2>2 DEF TypeOK, Record
    <3> HIDE DEF r
    <3> QED  BY <2>2, <3>1, <3>2
  <2> QED  BY <2>1, <2>2 DEF LoadDone
<1>3. taken' = taken
  <2>1. taken \ {None} = taken
    BY OwnImages DEF TypeOK
  <2>2. taken' \in {taken, taken \ {None}}
    BY <1>1 DEF LoadDone
  <2> QED  BY <2>1, <2>2
<1>4. reg'[t] = r /\ pc'[t] = "idle"
  BY <1>2 DEF TypeOK, LoadDone
<1>5. TypeOK'
  <2>1. [img[Active(t)] EXCEPT !.good = v] \in Image
    BY <1>1 DEF Image
  <2>2. img' \in [Images -> Image]
    BY <1>1, <1>2, <2>1 DEF TypeOK, Image
  <2>3. reg' \in [Tables -> Record]
    BY <1>2 DEF TypeOK, Record
  <2> QED  BY <1>3, <2>2, <2>3 DEF TypeOK, Record, Image, LoadDone
<1>6. Phases'
  <2>1. Phase(t)'
    BY <1>1, <1>2, <1>4 DEF Phase, Inactive, LoadDone
  <2> QED  BY <1>2, <2>1, OneTable DEF LoadDone
<1>7. Accounted'
  <2>1. \A u \in Tables, b \in Shared : Uses(u, b)' <=> Uses(u, b)
    BY <1>1, <1>2, <1>4, OwnImages DEF Uses, TypeOK, LoadDone
  <2> QED  BY <1>3, <2>1, SameUse
<1> QED  BY <1>5, <1>6, <1>7

\* An update gives back the shared buffer before it ends the load.
LEMMA UpdateIInv ==
  ASSUME IInv, NEW t \in Tables, Update(t)
  PROVE  IInv'
<1> USE DEF IInv
<1>1. reg[t] \in Record /\ Phase(t) /\ pc[t] = "idle" /\ reg[t].pending
  BY DEF TypeOK, Record, Phases, Update
<1>2. pc' = [pc EXCEPT ![t] = "updating"] /\ pc'[t] = "updating"
      /\ UNCHANGED <<double, slot, hold, loading, lost, wild>>
  BY DEF Update, TypeOK
<1>3. \A b \in Shared : ~Uses(t, b)'
  BY <1>2 DEF Uses
<1>4. CASE t \in double
  <2> DEFINE r == [reg[t] EXCEPT !.active = reg[t].load[2]]
  <2>0. reg[t].load \in Own(t)
    BY <1>1, <1>4 DEF Phase, Update
  <2>1. reg[t].load \in Own(t) /\ reg[t].load[2] \in {0, 1}
    <3>1. reg[t].load = <<t, 0>> \/ reg[t].load = <<t, 1>>
      BY <2>0 DEF Own
    <3> QED  BY <2>0, <3>1
  <2>2. /\ r \in Record /\ r.load = reg[t].load /\ r.pending
        /\ r.inactive = reg[t].inactive
    BY <1>1, <2>1 DEF Record
  <2>3. reg' = [reg EXCEPT ![t] = r] /\ reg'[t] = r /\ UNCHANGED <<img, taken>>
    BY <1>1, <1>4 DEF Update, TypeOK, Record
  <2> HIDE DEF r
  <2>4. TypeOK'
    <3>1. reg' \in [Tables -> Record]
      BY <2>2, <2>3 DEF TypeOK, Record
    <3> QED  BY <1>2, <2>3, <3>1 DEF TypeOK, Record
  <2>5. Phase(t)'
    BY <1>1, <1>2, <1>4, <2>2, <2>3 DEF Phase
  <2>6. Accounted'
    <3>1. \A u \in Tables, b \in Shared : Uses(u, b)' <=> Uses(u, b)
      BY <1>2, <1>3, <2>1, <2>3, OwnImages DEF Uses, TypeOK
    <3> QED  BY <2>3, <3>1, SameUse
  <2> QED  BY <1>2, <2>3, <2>4, <2>5, <2>6, OneTable
<1>5. CASE t \notin double
  <2>1. reg[t].load \in Shared
    BY <1>1, <1>5 DEF Phase, Update
  <2>2. /\ img' = [img EXCEPT ![<<t, 0>>].good = img[reg[t].load].good,
                              ![<<t, 0>>].cut  = img[reg[t].load].cut]
        /\ taken' = taken \ {reg[t].load} /\ reg' = reg
    BY <1>5 DEF Update
  <2>3. TypeOK'
    <3>1. img[reg[t].load] \in Image /\ img[<<t, 0>>] \in Image /\ <<t, 0>> \in Images
      BY <2>1, OwnImages DEF TypeOK, Image
    <3> DEFINE i == [[img[<<t, 0>>] EXCEPT !.good = img[reg[t].load].good]
                       EXCEPT !.cut = img[reg[t].load].cut]
    <3>2. i \in Image
      BY <3>1 DEF Image
    <3>3. img' = [img EXCEPT ![<<t, 0>>] = i]
      BY <2>2, <3>1 DEF TypeOK, Image
    <3> HIDE DEF i
    <3>4. img' \in [Images -> Image]
      BY <3>2, <3>3 DEF TypeOK, Image
    <3> QED  BY <1>2, <2>2, <3>4 DEF TypeOK, Image
  <2>4. Phases'
    <3>1. reg' = [reg EXCEPT ![t] = reg[t]]
      BY <2>2 DEF TypeOK
    <3>2. Phase(t)'
      BY <1>1, <1>2, <2>2 DEF Phase, Inactive
    <3> QED  BY <1>2, <3>1, <3>2, OneTable
  <2>5. Accounted'
    <3>1. \A u \in Tables \ {t}, b \in Shared : Uses(u, b)' <=> Uses(u, b)
      BY <1>2, <2>2 DEF Uses, TypeOK
    <3> QED  BY <1>1, <1>3, <2>2, <3>1, LastUse
  <2> QED  BY <2>3, <2>4, <2>5
<1> QED  BY <1>4, <1>5

\* The end of an update ends the load that has been given back.
LEMMA UpdateDoneIInv ==
  ASSUME IInv, NEW t \in Tables, UpdateDone(t)
  PROVE  IInv'
<1> USE DEF IInv
<1>1. reg[t] \in Record /\ Phase(t) /\ pc[t] = "updating"
  BY DEF TypeOK, Record, Phases, UpdateDone
<1> DEFINE r == [reg[t] EXCEPT !.load = None, !.pending = FALSE, !.loaded = TRUE]
<1>2. r \in Record /\ r.load = None /\ r.inactive = reg[t].inactive /\ ~r.pending
  BY <1>1 DEF Record
<1>3. reg' = [reg EXCEPT ![t] = r] /\ reg'[t] = r
  BY <1>1 DEF UpdateDone, NotifyTblUsersOfUpdate, TypeOK, Record
<1> HIDE DEF r
<1>4. pc'[t] = "idle" /\ double' = double /\ taken' = taken
  BY DEF UpdateDone, TypeOK
<1>5. TypeOK'
  <2>1. reg' \in [Tables -> Record]
    BY <1>2, <1>3 DEF TypeOK, Record
  <2> QED  BY <2>1 DEF TypeOK, Record, UpdateDone
<1>6. Phases'
  <2>1. Phase(t)'
    BY <1>1, <1>2, <1>3, <1>4 DEF Phase
  <2> QED  BY <1>3, <2>1, OneTable DEF UpdateDone
<1>7. Accounted'
  <2>1. \A u \in Tables, b \in Shared : Uses(u, b)' <=> Uses(u, b)
    BY <1>1, <1>2, <1>3, <1>4, OwnImages DEF Uses, TypeOK, UpdateDone
  <2> QED  BY <1>4, <2>1, SameUse
<1> QED  BY <1>5, <1>6, <1>7

\* An answer ends the validation; only flags of an image change.
LEMMA ValidateDoneIInv ==
  ASSUME IInv, NEW t \in Tables, ValidateDone(t)
  PROVE  IInv'
<1> USE DEF IInv
<1>1. reg[t] \in Record /\ Phase(t)
  BY DEF TypeOK, Record, Phases
<1>2. PICK f \in {"inactive", "running"} :
        /\ Answer(t, f)
        /\ f = "inactive" => wild' = (wild \/ Inactive(t) = None)
        /\ f = "running" => UNCHANGED <<img, wild>>
        /\ f = "inactive" =>
             img' = [x \in Images |->
                       IF pc[t] = "passed" /\ x = Inactive(t)
                       THEN [img[x] EXCEPT !.validated = TRUE, !.cut = FALSE]
                       ELSE img[x]]
        /\ f = "inactive" <=> pc[t] \in {"passed", "failed"}
  BY DEF ValidateDone
<1>3. pc[t] \in {"passed", "failed", "answering"} /\ pc' = [pc EXCEPT ![t] = "idle"]
      /\ pc'[t] = "idle" /\ UNCHANGED <<double, taken, hold, loading, lost>>
  BY DEF ValidateDone, TypeOK
<1> DEFINE r == [reg[t] EXCEPT ![f] = None]
<1>4. /\ r \in Record /\ r.load = reg[t].load /\ r.active = reg[t].active
      /\ r.pending = reg[t].pending /\ r.inactive \in {None, reg[t].inactive}
  BY <1>1 DEF Record
<1>5. reg' = [reg EXCEPT ![t] = r] /\ reg'[t] = r
  BY <1>1, <1>2 DEF Answer, TypeOK, Record
<1> HIDE DEF r
<1>6. Phases'
  <2>1. Phase(t)'
    BY <1>1, <1>3, <1>4, <1>5 DEF Phase, Inactive
  <2> QED  BY <1>3, <1>5, <2>1, OneTable
<1>7. Accounted'
  <2>1. \A u \in Tables, b \in Shared : Uses(u, b)' <=> Uses(u, b)
    BY <1>3, <1>4, <1>5 DEF Uses, TypeOK
  <2> QED  BY <1>3, <2>1, SameUse
<1>8. ~wild'
  BY <1>1, <1>2 DEF Phase, TypeOK
<1>9. img' \in [Images -> Image]
  <2>1. \A x \in Images : [img[x] EXCEPT !.validated = TRUE, !.cut = FALSE] \in Image
    BY DEF TypeOK, Image
  <2>2. img \in [Images -> Image]
    BY DEF TypeOK, Image
  <2> QED  BY <1>2, <2>1, <2>2
<1>10. TypeOK'
  <2>1. reg' \in [Tables -> Record]
    BY <1>4, <1>5 DEF TypeOK, Record
  <2>2. slot' \in [Slots -> {"free", "pending", "performed"}]
    BY <1>2 DEF Answer, TypeOK
  <2> QED  BY <1>3, <1>8, <1>9, <2>1, <2>2 DEF TypeOK, Record, Image
<1> QED  BY <1>6, <1>7, <1>10

\* The end of an owner frees the buffer of a load, unless it strikes in the
\* middle of an update.
LEMMA RestartIInv ==
  ASSUME Patient, IInv, NEW t \in Tables, Restart(t)
  PROVE  IInv'
<1> USE DEF IInv
<1>1. /\ Fresh \in Record /\ Fresh.load = None /\ ~Fresh.pending
      /\ Fresh.inactive = None /\ Blank \in Image
  BY DEF Fresh, Record, Blank, Image
<1>2. /\ reg' = [reg EXCEPT ![t] = Fresh] /\ reg'[t] = Fresh
      /\ pc' = [pc EXCEPT ![t] = "starting"] /\ pc'[t] = "starting"
      /\ double' = double /\ taken' = taken \ {reg[t].load}
      /\ pc[t] # "updating"
  BY DEF Restart, TypeOK
<1>3. TypeOK'
  <2>1. reg' \in [Tables -> Record]
    BY <1>1, <1>2 DEF TypeOK, Record
  <2>2. img' \in [Images -> Image]
    BY <1>1 DEF Restart, TypeOK, Image
  <2>3. hold' \in [Tables -> {None, 0, 1}] /\ lost' \subseteq Slots
    BY DEF Restart, TypeOK
  <2> QED  BY <1>2, <2>1, <2>2, <2>3 DEF TypeOK, Record, Image, Restart
<1>4. Phases'
  <2>1. Phase(t)'
    BY <1>1, <1>2 DEF Phase
  <2> QED  BY <1>2, <2>1, OneTable
<1>5. Accounted'
  <2>1. \A b \in Shared : ~Uses(t, b)'
    BY <1>1, <1>2, OwnImages DEF Uses
  <2>2. \A u \in Tables \ {t}, b \in Shared : Uses(u, b)' <=> Uses(u, b)
    BY <1>2 DEF Uses, TypeOK
  <2> QED  BY <1>2, <2>1, <2>2, LastUse
<1> QED  BY <1>3, <1>4, <1>5

----------------------------------------------------------------------------
(* The invariant.                                                          *)

LEMMA InitIInv == Init => IInv
<1> SUFFICES ASSUME Init PROVE IInv
  OBVIOUS
<1> USE DEF Init, Fresh, Blank
<1>1. TypeOK
  BY DEF TypeOK
<1>2. Phases
  BY DEF Phases, Phase
<1>3. Accounted
  BY OwnImages DEF Accounted, Uses
<1> QED  BY <1>1, <1>2, <1>3 DEF IInv

LEMMA NextIInv ==
  ASSUME Patient, IInv, [Next]_vars
  PROVE  IInv'
<1>1. CASE UNCHANGED vars
  BY <1>1 DEF vars, IInv, TypeOK, Phases, Phase, Accounted, Uses, Inactive
<1>2. CASE LoadCmdRead
  BY <1>2, LoadCmdReadIInv
<1>3. ASSUME NEW s \in Slots, GetHkData(s) PROVE IInv'
  BY <1>3, GetHkDataIInv
<1>4. ASSUME NEW t \in Tables, LoadCmd(t) PROVE IInv'
  BY <1>4, LoadCmdIInv
<1>5. ASSUME NEW t \in Tables, ActivateCmd(t) PROVE IInv'
  BY <1>5, ActivateCmdIInv
<1>6. ASSUME NEW t \in Tables, AbortLoadCmd(t) PROVE IInv'
  BY <1>6, AbortLoadCmdIInv
<1>7. ASSUME NEW t \in Tables, NEW s \in Slots, ValidateCmd(t, s) PROVE IInv'
  BY <1>7, ValidateCmdIInv
<1>8. ASSUME NEW t \in Tables,
             Load(t) \/ GetAddress(t) \/ ReleaseAddress(t) \/ Validate(t)
      PROVE  IInv'
  BY <1>8, OwnerStartsIInv
<1>9. ASSUME NEW t \in Tables, LoadDone(t) PROVE IInv'
  BY <1>9, LoadDoneIInv
<1>10. ASSUME NEW t \in Tables, Update(t) PROVE IInv'
  BY <1>10, UpdateIInv
<1>11. ASSUME NEW t \in Tables, UpdateDone(t) PROVE IInv'
  BY <1>11, UpdateDoneIInv
<1>12. ASSUME NEW t \in Tables, ValidateDone(t) PROVE IInv'
  BY <1>12, ValidateDoneIInv
<1>13. ASSUME NEW t \in Tables, Restart(t) PROVE IInv'
  BY <1>13, RestartIInv
<1> QED
  BY <1>1, <1>2, <1>3, <1>4, <1>5, <1>6, <1>7, <1>8, <1>9, <1>10, <1>11, <1>12,
     <1>13 DEF Next

LEMMA AccountedBuffers == IInv => BuffersAccounted
<1> SUFFICES ASSUME IInv PROVE BuffersAccounted
  OBVIOUS
<1>1. \A t \in Tables : \A b : b \in Borrowed(t) <=> b \in Shared /\ Uses(t, b)
  BY DEF Borrowed, Uses
<1>2. taken = UNION {Borrowed(t) : t \in Tables}
  BY <1>1 DEF IInv, TypeOK, Accounted
<1>3. \A t, u \in Tables : t # u => Borrowed(t) \cap Borrowed(u) = {}
  BY <1>1 DEF IInv, Accounted
<1> QED  BY <1>2, <1>3 DEF BuffersAccounted

\* With a ground that waits for the answer to a validation, the state of table
\* services keeps its type and CFE_TBL_Validate never takes the index "no load
\* in progress" for a shared buffer.
THEOREM TblTypeOK == Patient /\ Spec => []TypeOK
<1> SUFFICES ASSUME Patient PROVE Spec => []TypeOK
  OBVIOUS
<1>1. IInv /\ [Next]_vars => IInv'
  BY NextIInv
<1>2. IInv => TypeOK
  BY DEF IInv
<1> QED  BY <1>1, <1>2, InitIInv, PTL DEF Spec

\* For any number of tables and shared buffers, no buffer is lost to an abort,
\* an update or the end of an application, and none serves two tables.
THEOREM TblBuffersAccounted == Patient /\ Spec => []BuffersAccounted
<1> SUFFICES ASSUME Patient PROVE Spec => []BuffersAccounted
  OBVIOUS
<1>1. IInv /\ [Next]_vars => IInv'
  BY NextIInv
<1> QED  BY <1>1, InitIInv, AccountedBuffers, PTL DEF Spec

----------------------------------------------------------------------------
(* Validation response blocks.                                             *)

\* The record of table t names response block s.
Names(t, s) == reg[t].inactive = s \/ reg[t].running = s

\* SlotsAccounted, block by block, and what it rests on: a block that an ended
\* owner left behind is named by no record, so no answer goes to it, and an
\* owner that answers for its active image has been asked.
Blocks ==
  /\ \A s \in Slots : slot[s] = "pending" <=> s \in lost \/ \E t \in Tables : Names(t, s)
  /\ \A t \in Tables : reg[t].inactive = reg[t].running => reg[t].inactive = None
  /\ \A t, u \in Tables, s \in Slots : Names(t, s) /\ Names(u, s) => t = u
  /\ \A t \in Tables, s \in Slots : Names(t, s) => s \notin lost
  /\ \A t \in Tables : pc[t] = "answering" => reg[t].running # None

\* A step that leaves the blocks and their names alone keeps account of them.
LEMMA SameNames ==
  ASSUME Blocks, slot' = slot, lost' = lost,
         \A u \in Tables : /\ reg'[u].inactive = reg[u].inactive
                           /\ reg'[u].running = reg[u].running
                           /\ pc'[u] = "answering" => reg[u].running # None
  PROVE  Blocks'
BY DEF Blocks, Names

\* A request takes a block that is free, and no earlier request of the table
\* loses its own.
LEMMA ValidateCmdBlocks ==
  ASSUME Patient, IInv, Blocks, NEW t \in Tables, NEW s \in Slots, ValidateCmd(t, s)
  PROVE  Blocks'
<1>1. reg[t] \in Record /\ slot[s] = "free" /\ s # None
  BY TableAssumption DEF IInv, TypeOK, Record, ValidateCmd
<1>2. /\ slot' = [slot EXCEPT ![s] = "pending"] /\ lost' = lost /\ pc' = pc
      /\ slot'[s] = "pending" /\ \A r \in Slots \ {s} : slot'[r] = slot[r]
  BY DEF ValidateCmd, IInv, TypeOK
<1>3. PICK f \in {"inactive", "running"} :
        reg' = [reg EXCEPT ![t] = [reg[t] EXCEPT ![f] = s]] /\ reg[t][f] = None
  BY <1>1 DEF ValidateCmd, Settled, Record, IInv, TypeOK
<1>4. /\ \A r \in Slots : Names(t, r)' <=> Names(t, r) \/ r = s
      /\ \A u \in Tables \ {t} : reg'[u] = reg[u]
      /\ reg[t].running # None => reg'[t].running # None
  BY <1>1, <1>3, TableAssumption DEF Names, Record, IInv, TypeOK
<1>5. s \notin lost /\ \A u \in Tables : ~Names(u, s)
  BY <1>1 DEF Blocks
<1>6. reg'[t].inactive = reg'[t].running => reg'[t].inactive = None
  BY <1>1, <1>3, <1>5 DEF Record, Names, IInv, TypeOK
<1> QED  BY <1>2, <1>4, <1>5, <1>6 DEF Blocks, Names

\* An answer goes to a block that waits for it, and to no other.
LEMMA ValidateDoneBlocks ==
  ASSUME IInv, Blocks, NEW t \in Tables, ValidateDone(t)
  PROVE  Blocks'
<1>1. reg[t] \in Record /\ Phase(t) /\ lost' = lost
  BY DEF IInv, TypeOK, Record, Phases, ValidateDone
<1>2. PICK f \in {"inactive", "running"} : Answer(t, f) /\ reg[t][f] # None
  BY <1>1 DEF ValidateDone, Phase, Blocks
<1> DEFINE s == reg[t][f]
<1>3. s \in Slots /\ Names(t, s) /\ s # None
  BY <1>1, <1>2 DEF Record, Names
<1>4. /\ reg' = [reg EXCEPT ![t] = [reg[t] EXCEPT ![f] = None]]
      /\ slot' = [slot EXCEPT ![s] = "performed"]
  BY <1>1, <1>2 DEF Answer, Record, IInv, TypeOK
<1>5. slot'[s] # "pending" /\ \A r \in Slots \ {s} : slot'[r] = slot[r]
  BY <1>3, <1>4 DEF IInv, TypeOK
<1>6. /\ \A r \in Slots : Names(t, r)' <=> Names(t, r) /\ r # s
      /\ \A u \in Tables \ {t} : reg'[u] = reg[u]
      /\ reg'[t].inactive = reg'[t].running => reg'[t].inactive = None
  BY <1>1, <1>3, <1>4, TableAssumption DEF Names, Record, Blocks, IInv, TypeOK
<1>7. s \notin lost /\ \A u \in Tables \ {t} : ~Names(u, s)
  BY <1>3 DEF Blocks
<1>8. pc'[t] = "idle" /\ \A u \in Tables \ {t} : pc'[u] = pc[u]
  BY DEF ValidateDone, IInv, TypeOK
<1> HIDE DEF s
<1> QED  BY <1>1, <1>3, <1>5, <1>6, <1>7, <1>8 DEF Blocks, Names

\* The blocks of an owner that ends stay pending, and are lost.
LEMMA RestartBlocks ==
  ASSUME IInv, Blocks, NEW t \in Tables, Restart(t)
  PROVE  Blocks'
<1>1. reg[t] \in Record
  BY DEF IInv, TypeOK, Record
<1>2. /\ reg'[t] = Fresh /\ pc'[t] = "starting" /\ slot' = slot
      /\ lost' = lost \cup ({reg[t].inactive, reg[t].running} \ {None})
      /\ \A u \in Tables \ {t} : reg'[u] = reg[u] /\ pc'[u] = pc[u]
  BY DEF Restart, IInv, TypeOK
<1>3. \A s \in Slots : ~Names(t, s)' /\ (s \in lost' <=> s \in lost \/ Names(t, s))
  BY <1>2, TableAssumption DEF Names, Fresh
<1>4. reg'[t].inactive = None
  BY <1>2 DEF Fresh
<1> QED  BY <1>2, <1>3, <1>4 DEF Blocks, Names

LEMMA NextBlocks ==
  ASSUME Patient, IInv, Blocks, [Next]_vars
  PROVE  Blocks'
<1>0. reg \in [Tables -> Record]
  BY DEF IInv, TypeOK, Record
<1>1. CASE UNCHANGED vars
  BY <1>1, SameNames DEF vars, Blocks
<1>2. CASE LoadCmdRead
  BY <1>2, SameNames DEF LoadCmdRead, Blocks
<1>3. ASSUME NEW s \in Slots, GetHkData(s) PROVE Blocks'
  BY <1>3 DEF GetHkData, Blocks, Names, IInv, TypeOK
<1>4. ASSUME NEW t \in Tables, LoadCmd(t) \/ ActivateCmd(t) \/ AbortLoadCmd(t)
      PROVE  Blocks'
  <2>1. slot' = slot /\ lost' = lost /\ pc' = pc
    BY <1>4 DEF LoadCmd, ActivateCmd, AbortLoadCmd
  <2>2. \A u \in Tables : reg'[u].inactive = reg[u].inactive /\ reg'[u].running = reg[u].running
    <3>1. CASE LoadCmd(t)
      <4>1. PICK x \in Images : GetWorkingBuffer(t, x)
        BY <3>1 DEF LoadCmd
      <4> QED  BY <1>0, <4>1 DEF GetWorkingBuffer, Record
    <3>2. CASE ActivateCmd(t)
      BY <1>0, <3>2 DEF ActivateCmd, Record
    <3>3. CASE AbortLoadCmd(t)
      BY <1>0, <3>3 DEF AbortLoadCmd, AbortLoad, Record
    <3> QED  BY <1>4, <3>1, <3>2, <3>3
  <2> QED  BY <2>1, <2>2, SameNames DEF Blocks
<1>5. ASSUME NEW t \in Tables, NEW s \in Slots, ValidateCmd(t, s) PROVE Blocks'
  BY <1>5, ValidateCmdBlocks
<1>6. ASSUME NEW t \in Tables,
             \/ Load(t) \/ GetAddress(t) \/ ReleaseAddress(t) \/ Validate(t)
             \/ LoadDone(t) \/ Update(t) \/ UpdateDone(t)
      PROVE  Blocks'
  <2>1. slot' = slot /\ lost' = lost
    BY <1>6 DEF Load, GetAddress, ReleaseAddress, Validate, LoadDone, Update, UpdateDone
  <2>2. \A u \in Tables : reg'[u].inactive = reg[u].inactive /\ reg'[u].running = reg[u].running
    BY <1>0, <1>6 DEF Load, GetAddress, ReleaseAddress, Validate, LoadDone, Update, UpdateDone,
       NotifyTblUsersOfUpdate, Record
  <2>3. \A u \in Tables : pc'[u] = "answering" => pc[u] = "answering" \/ reg[u].running # None
    BY <1>6 DEF Load, GetAddress, ReleaseAddress, Validate, LoadDone, Update, UpdateDone,
       IInv, TypeOK
  <2>4. \A u \in Tables : pc'[u] = "answering" => reg[u].running # None
    BY <2>3 DEF Blocks
  <2> QED  BY <2>1, <2>2, <2>4, SameNames
<1>7. ASSUME NEW t \in Tables, ValidateDone(t) PROVE Blocks'
  BY <1>7, ValidateDoneBlocks
<1>8. ASSUME NEW t \in Tables, Restart(t) PROVE Blocks'
  BY <1>8, RestartBlocks
<1> QED
  BY <1>1, <1>2, <1>3, <1>4, <1>5, <1>6, <1>7, <1>8 DEF Next

LEMMA BlocksAccounted == IInv /\ Blocks => SlotsAccounted
<1> SUFFICES ASSUME IInv, Blocks PROVE SlotsAccounted
  OBVIOUS
<1>1. lost \subseteq Slots /\ \A t \in Tables : reg[t] \in Record
  BY DEF IInv, TypeOK, Record
<1>2. \A t \in Tables : \A s : s \in Asked(t) <=> s \in Slots /\ Names(t, s)
  BY <1>1, TableAssumption DEF Asked, Names, Record
<1>3. {s \in Slots : slot[s] = "pending"} = lost \cup UNION {Asked(t) : t \in Tables}
  BY <1>1, <1>2 DEF Blocks
<1>4. \A t, u \in Tables : u # t => Asked(t) \cap Asked(u) = {}
  BY <1>2 DEF Blocks
<1> QED  BY <1>3, <1>4 DEF SlotsAccounted, Blocks

\* For any number of tables and response blocks, every answer of an owner goes
\* to the request it belongs to, and only the end of an owner leaves a block
\* of CFE_TBL_Global.ValidationResults pending for ever.
THEOREM TblSlotsAccounted == Patient /\ Spec => []SlotsAccounted
<1> SUFFICES ASSUME Patient PROVE Spec => []SlotsAccounted
  OBVIOUS
<1>1. Init => IInv /\ Blocks
  BY InitIInv, TableAssumption DEF Init, Fresh, Blocks, Names
<1>2. (IInv /\ Blocks) /\ [Next]_vars => (IInv /\ Blocks)'
  BY NextIInv, NextBlocks
<1> QED  BY <1>1, <1>2, BlocksAccounted, PTL DEF Spec

----------------------------------------------------------------------------
(* Where images are, and what is in them.                                  *)

\* An image that may become the active one.
Sound(x) == img[x].good \/ img[x].cut

\* A load of a double-buffered table is its inactive image, except for the
\* moment between the swap and its notification; the owner has the active image
\* locked then, or none.  A table with a single image is never swapped.
Placed(t) ==
  /\ t \notin double => reg[t].active = 0
  /\ t \in double /\ reg[t].load # None /\ pc[t] # "updating" => reg[t].load = Inactive(t)
  /\ hold[t] # None =>
       /\ pc[t] \notin {"starting", "loading"}
       /\ t \notin double => hold[t] = 0
       /\ t \in double /\ reg[t].load # None /\ pc[t] # "updating" => hold[t] = reg[t].active

\* What is activated, about to be activated or accepted may be.
Ready(t) ==
  /\ pc[t] \in {"starting", "loading"} => ~reg[t].loaded /\ ~img[Active(t)].validated
  /\ reg[t].loaded \/ pc[t] = "updating" => Sound(Active(t))
  /\ reg[t].pending /\ pc[t] # "updating" => Sound(reg[t].load)
  /\ pc[t] = "passed" => img[Inactive(t)].good

\* The table task is in the middle of a load command.
Filling ==
  loading # None =>
    LET t == loading.of IN
    /\ reg[t].load = loading.to /\ ~reg[t].pending /\ reg[t].inactive = None
    /\ pc[t] \notin {"loading", "updating", "passed", "failed"}
    /\ img[loading.to].cut

Verdicts == \A x \in Images : img[x].validated => Sound(x)

VInv == (\A t \in Tables : Placed(t) /\ Ready(t)) /\ Filling /\ Verdicts

\* Tables have no image in common.
LEMMA Apart ==
  ASSUME IInv, NEW t \in Tables, NEW u \in Tables, t # u
  PROVE  /\ Active(u) \notin Own(t) /\ reg[u].load \notin Own(t)
         /\ Inactive(u) \notin Own(t)
<1>1. Own(u) \cap Own(t) = {}
  BY DEF Own
<1>2. Shared \cap Own(t) = {} /\ None \notin Own(t)
  BY OwnImages
<1>3. reg[u].load \in {None} \cup Own(u) \cup Shared
  BY DEF IInv, Phases, Phase
<1>4. Active(u) \in Own(u) /\ (u \in double => Inactive(u) \in Own(u))
  BY TableImages DEF IInv
<1>5. u \notin double => Inactive(u) = reg[u].load
  BY DEF Inactive
<1> QED  BY <1>1, <1>2, <1>3, <1>4, <1>5

\* The two images of a double-buffered table are distinct.
LEMMA TwoImages ==
  ASSUME IInv, NEW t \in Tables, t \in double
  PROVE  Inactive(t) \in Own(t) /\ Inactive(t) # Active(t) /\ Inactive(t) # None
<1>1. reg[t].active \in {0, 1}
  BY DEF IInv, TypeOK
<1>2. 1 - reg[t].active # reg[t].active
  BY <1>1
<1>3. Inactive(t) # Active(t)
  BY <1>2 DEF Inactive, Active
<1> QED  BY <1>3, TableImages DEF IInv

\* A step at table t that writes its own images, or shared ones that no other
\* table uses, leaves the other tables as they are.
LEMMA OtherTable ==
  ASSUME IInv, VInv, NEW t \in Tables, NEW u \in Tables \ {t}, NEW W,
         double' = double, reg'[u] = reg[u], pc'[u] = pc[u], hold'[u] = hold[u],
         \A x \in Images \ W : img'[x] = img[x],
         \A x \in W : x \in Own(t) \/ (x \in Shared /\ ~Uses(u, x))
  PROVE  Placed(u)' /\ Ready(u)'
<1>1. Placed(u) /\ Ready(u) /\ Phase(u)
  BY DEF VInv, IInv, Phases
<1>2. Placed(u)'
  BY <1>1 DEF Placed, Inactive
<1>3. img'[Active(u)] = img[Active(u)]
  <2>1. Active(u) \in Images /\ Active(u) \notin Shared /\ Active(u) \notin Own(t)
    BY TableImages, OwnImages, Apart DEF IInv
  <2> QED  BY <2>1
<1>4. ASSUME reg[u].load # None, pc[u] # "updating"
      PROVE  img'[reg[u].load] = img[reg[u].load]
  <2>1. reg[u].load \in Images /\ reg[u].load \notin Own(t)
    BY <1>4, Apart DEF IInv, TypeOK
  <2>2. reg[u].load \in Shared => Uses(u, reg[u].load)
    BY <1>4 DEF Uses
  <2> QED  BY <2>1, <2>2
<1>5. pc[u] = "passed" => img'[Inactive(u)] = img[Inactive(u)]
  <2>1. CASE u \in double
    <3>1. Inactive(u) \in Images /\ Inactive(u) \notin Shared /\ Inactive(u) \notin Own(t)
      BY <2>1, TableImages, OwnImages, Apart DEF IInv
    <3> QED  BY <3>1
  <2>2. CASE u \notin double
    BY <1>1, <1>4, <2>2 DEF Inactive, Phase
  <2> QED  BY <2>1, <2>2
<1>6. Ready(u)'
  BY <1>1, <1>3, <1>4, <1>5 DEF Ready, Sound, Active, Inactive, Phase
<1> QED  BY <1>2, <1>6

\* For the invariant after a step at table t it is enough to look at t, at the
\* images written and at a load command under way for t.
LEMMA AtOneTable ==
  ASSUME IInv, VInv, NEW t \in Tables, NEW W, double' = double,
         \A u \in Tables \ {t} : reg'[u] = reg[u] /\ pc'[u] = pc[u] /\ hold'[u] = hold[u],
         \A x \in Images \ W : img'[x] = img[x],
         \A x \in W : \/ x \in Own(t)
                      \/ x \in Shared /\ \A u \in Tables \ {t} : ~Uses(u, x),
         Placed(t)', Ready(t)',
         \A x \in W : img'[x].validated => Sound(x)',
         Filling' \/ (loading' = loading /\ (loading # None => loading.of # t))
  PROVE  VInv'
<1>1. \A u \in Tables : Placed(u)' /\ Ready(u)'
  BY OtherTable
<1>2. Verdicts'
  BY DEF VInv, Verdicts, Sound
<1>3. ASSUME loading' = loading, loading # None, loading.of # t
      PROVE  Filling'
  <2> DEFINE u == loading.of
  <2>1. u \in Tables \ {t} /\ loading.to \in Images
    BY <1>3 DEF IInv, TypeOK
  <2>2. /\ reg[u].load = loading.to /\ ~reg[u].pending /\ reg[u].inactive = None
        /\ pc[u] \notin {"loading", "updating", "passed", "failed"}
        /\ img[loading.to].cut
    BY <1>3 DEF VInv, Filling
  <2>3. loading.to \notin W
    <3>1. loading.to \notin Own(t)
      BY <2>1, <2>2, Apart
    <3>2. Uses(u, loading.to)
      BY <2>2 DEF Uses
    <3> QED  BY <2>1, <3>1, <3>2
  <2>4. reg'[u] = reg[u] /\ pc'[u] = pc[u] /\ img'[loading.to] = img[loading.to]
    BY <2>1, <2>3
  <2> QED  BY <1>3, <2>2, <2>4 DEF Filling
<1>4. loading' = loading /\ loading = None => Filling'
  BY DEF Filling
<1> QED  BY <1>1, <1>2, <1>3, <1>4 DEF VInv

\* A load command goes to an image that no owner has locked.
LEMMA LoadCmdVInv ==
  ASSUME Patient, IInv, VInv, NEW t \in Tables, LoadCmd(t)
  PROVE  VInv'
<1>1. PICK x \in Images : GetWorkingBuffer(t, x) /\ loading' = [of |-> t, to |-> x]
  BY DEF LoadCmd
<1>2. /\ ~reg[t].pending /\ reg[t].inactive = None
      /\ pc[t] \notin {"loading", "updating"}
      /\ UNCHANGED <<double, hold, pc>>
  BY DEF LoadCmd, Settled
<1>3. /\ reg[t] \in Record /\ Phase(t) /\ Placed(t) /\ Ready(t)
      /\ reg \in [Tables -> Record] /\ img \in [Images -> Image]
  BY DEF IInv, TypeOK, Record, Image, Phases, VInv
<1>4. /\ reg'[t] = [reg[t] EXCEPT !.load = x]
      /\ \A u \in Tables \ {t} : reg'[u] = reg[u]
  <2>1. reg[t].load # None => x = reg[t].load
    BY <1>1, <1>2, <1>3 DEF GetWorkingBuffer, Placed, Inactive
  <2> QED  BY <1>1, <1>3, <2>1 DEF GetWorkingBuffer, Record
<1>5. /\ x = Inactive(t) \/ t \notin double
      /\ t \in double => x \in Own(t) /\ x # Active(t)
      /\ t \notin double => x \in Shared /\ \A u \in Tables \ {t} : ~Uses(u, x)
  <2>1. CASE reg[t].load # None
    <3>1. x = Inactive(t)
      BY <1>1, <2>1 DEF GetWorkingBuffer
    <3>2. t \notin double => x \in Shared /\ Uses(t, x)
      BY <1>2, <1>3, <2>1, <3>1 DEF Phase, Inactive, Uses
    <3> QED  BY <1>3, <3>1, <3>2, TwoImages DEF IInv, Accounted
  <2>2. CASE reg[t].load = None
    <3>1. x \in FreeImages(t)
      BY <1>1, <2>2 DEF GetWorkingBuffer
    <3>2. t \notin double => x \in Shared \ taken
      BY <3>1, FreeIsUnused DEF IInv
    <3>3. t \in double => x = Inactive(t) /\ x \in Own(t)
      BY <3>1, FreeIsUnused DEF IInv
    <3> QED  BY <1>3, <3>2, <3>3, TwoImages DEF IInv, Accounted
  <2> QED  BY <2>1, <2>2
<1>6. img'[x].cut /\ \A y \in Images \ {x} : img'[y] = img[y]
  BY <1>1, <1>3 DEF GetWorkingBuffer, Image
<1>7. img'[Active(t)] = img[Active(t)]
  BY <1>5, <1>6, TableImages, OwnImages DEF IInv
<1>8. Placed(t)'
  <2>1. t \in double /\ hold[t] # None => hold[t] = reg[t].active
    <3>1. CASE reg[t].load # None
      BY <1>2, <1>3, <3>1 DEF Placed
    <3>2. CASE reg[t].load = None
      <4>1. t \in double => x = Inactive(t) /\ hold[t] # x[2]
        BY <1>1, <3>2 DEF GetWorkingBuffer, FreeImages
      <4>2. hold[t] \in {None, 0, 1} /\ reg[t].active \in {0, 1}
        BY <1>3 DEF IInv, TypeOK, Record
      <4> QED  BY <4>1, <4>2 DEF Inactive
    <3> QED  BY <3>1, <3>2
  <2> QED  BY <1>2, <1>3, <1>4, <1>5, <2>1 DEF Placed, Inactive, Record
<1>9. Ready(t)'
  BY <1>2, <1>3, <1>4, <1>7 DEF Ready, Sound, Active, Phase, Record
<1>10. Filling'
  BY <1>1, <1>2, <1>3, <1>4, <1>6 DEF Filling, Record, Phase
<1> QED
  <2> DEFINE W == {x}
  <2>1. /\ \A y \in Images \ W : img'[y] = img[y]
        /\ \A y \in W : \/ y \in Own(t)
                        \/ y \in Shared /\ \A u \in Tables \ {t} : ~Uses(u, y)
        /\ \A y \in W : img'[y].validated => Sound(y)'
    BY <1>5, <1>6 DEF Sound
  <2>2. \A u \in Tables \ {t} : reg'[u] = reg[u] /\ pc'[u] = pc[u] /\ hold'[u] = hold[u]
    BY <1>2, <1>4
  <2> HIDE DEF W
  <2> QED  BY <1>2, <1>8, <1>9, <1>10, <2>1, <2>2, AtOneTable

\* What a complete file leaves is not validated; what an incomplete one leaves
\* is marked as cut short.
LEMMA LoadCmdReadVInv ==
  ASSUME IInv, VInv, LoadCmdRead
  PROVE  VInv'
<1>0. PICK t \in Tables, x \in Images : loading = [of |-> t, to |-> x]
  <2>1. loading \in [of : Tables, to : Images]
    BY DEF LoadCmdRead, IInv, TypeOK
  <2>2. loading = [of |-> loading.of, to |-> loading.to]
    BY <2>1
  <2>3. loading.of \in Tables /\ loading.to \in Images
    BY <2>1
  <2> QED  BY <2>2, <2>3
<1>1. /\ t = loading.of /\ x = loading.to /\ loading # None /\ loading' = None
      /\ UNCHANGED <<double, reg, pc, hold>>
  BY <1>0 DEF LoadCmdRead
<1>2. /\ reg[t].load = x /\ ~reg[t].pending /\ reg[t].inactive = None
      /\ pc[t] \notin {"loading", "updating", "passed", "failed"} /\ img[x].cut
  BY <1>1 DEF VInv, Filling
<1>3. Phase(t) /\ Placed(t) /\ Ready(t) /\ img \in [Images -> Image] /\ reg[t] \in Record
  BY <1>1 DEF IInv, TypeOK, Record, Image, Phases, VInv
<1>4. PICK c \in BOOLEAN, v \in BOOLEAN :
        img' = [img EXCEPT ![x] = IF c THEN [Blank EXCEPT !.good = v]
                                       ELSE [@ EXCEPT !.good = v]]
  BY <1>1 DEF LoadCmdRead, LoadRead
<1>5. img'[x].validated => img'[x].cut
  BY <1>1, <1>2, <1>3, <1>4 DEF Blank, Image
<1>6. \A y \in Images \ {x} : img'[y] = img[y]
  BY <1>3, <1>4
<1>7. \/ x \in Own(t) /\ x # Active(t)
      \/ x \in Shared /\ \A u \in Tables \ {t} : ~Uses(u, x)
  <2>1. CASE t \in double
    <3>1. x = Inactive(t)
      BY <1>1, <1>2, <1>3, <2>1, TableAssumption DEF Placed
    <3> QED  BY <2>1, <3>1, TwoImages
  <2>2. CASE t \notin double
    <3>1. x \in Shared /\ Uses(t, x)
      BY <1>1, <1>2, <1>3, <2>2, TableAssumption DEF Phase, Uses
    <3> QED  BY <1>1, <3>1 DEF IInv, Accounted
  <2> QED  BY <2>1, <2>2
<1>8. img'[Active(t)] = img[Active(t)]
  BY <1>1, <1>6, <1>7, TableImages, OwnImages DEF IInv
<1>9. Placed(t)'
  BY <1>1, <1>3 DEF Placed, Inactive
<1>10. Ready(t)'
  BY <1>1, <1>2, <1>3, <1>8 DEF Ready, Sound, Active
<1>11. Filling'
  BY <1>1 DEF Filling
<1> QED
  <2> DEFINE W == {x}
  <2>1. /\ \A y \in Images \ W : img'[y] = img[y]
        /\ \A y \in W : \/ y \in Own(t)
                        \/ y \in Shared /\ \A u \in Tables \ {t} : ~Uses(u, y)
        /\ \A y \in W : img'[y].validated => Sound(y)'
    BY <1>5, <1>6, <1>7 DEF Sound
  <2> HIDE DEF W
  <2> QED  BY <1>1, <1>9, <1>10, <1>11, <2>1, AtOneTable

\* A step at table t that writes no image.
LEMMA NoImage ==
  ASSUME IInv, VInv, NEW t \in Tables, double' = double, img' = img,
         \A u \in Tables \ {t} : reg'[u] = reg[u] /\ pc'[u] = pc[u] /\ hold'[u] = hold[u],
         Placed(t)', Ready(t)',
         Filling' \/ (loading' = loading /\ (loading # None => loading.of # t))
  PROVE  VInv'
<1> DEFINE W == {}
<1>1. \A x \in Images \ W : img'[x] = img[x]
  OBVIOUS
<1> HIDE DEF W
<1>2. W = {}
  BY DEF W
<1> QED  BY <1>1, <1>2, AtOneTable

\* A validation that is asked for changes no image; a housekeeping request
\* frees a block and nothing else.
LEMMA ValidateCmdVInv ==
  ASSUME IInv, VInv, NEW t \in Tables, NEW s \in Slots, ValidateCmd(t, s)
  PROVE  VInv'
<1>1. reg \in [Tables -> Record] /\ Placed(t) /\ Ready(t)
  BY DEF IInv, TypeOK, Record, VInv
<1>2. /\ reg'[t].active = reg[t].active /\ reg'[t].load = reg[t].load
      /\ reg'[t].loaded = reg[t].loaded /\ reg'[t].pending = reg[t].pending
      /\ \A u \in Tables \ {t} : reg'[u] = reg[u]
  BY <1>1 DEF ValidateCmd, Record
<1>3. loading' = None /\ UNCHANGED <<double, img, hold, pc>>
  BY DEF ValidateCmd
<1>4. Placed(t)' /\ Ready(t)' /\ Filling'
  BY <1>1, <1>2, <1>3 DEF Placed, Ready, Filling, Active, Inactive, Sound
<1> QED  BY <1>2, <1>3, <1>4, NoImage

LEMMA GetHkDataVInv ==
  ASSUME VInv, NEW s \in Slots, GetHkData(s)
  PROVE  VInv'
BY DEF GetHkData, VInv, Placed, Ready, Filling, Verdicts, Sound, Active, Inactive

\* An activation is of an image that its owner has accepted since it was last
\* filled, or that the last load cut short.
LEMMA ActivateCmdVInv ==
  ASSUME Patient, IInv, VInv, NEW t \in Tables, ActivateCmd(t)
  PROVE  VInv'
<1>1. reg \in [Tables -> Record] /\ Placed(t) /\ Ready(t)
  BY DEF IInv, TypeOK, Record, VInv
<1>2. /\ reg[t].load # None /\ img[Inactive(t)].validated /\ pc[t] # "updating"
      /\ loading' = None /\ UNCHANGED <<double, img, hold, pc>>
  BY DEF ActivateCmd, Settled
<1>3. /\ reg'[t] = [reg[t] EXCEPT !.pending = TRUE]
      /\ \A u \in Tables \ {t} : reg'[u] = reg[u]
  BY <1>1 DEF ActivateCmd, Record
<1>4. Sound(reg[t].load)
  <2>1. reg[t].load = Inactive(t) /\ reg[t].load \in Images
    BY <1>1, <1>2 DEF Placed, Inactive, Record
  <2> QED  BY <1>2, <2>1 DEF VInv, Verdicts
<1>5. Placed(t)' /\ Ready(t)' /\ Filling'
  BY <1>1, <1>2, <1>3, <1>4
     DEF Placed, Ready, Filling, Active, Inactive, Sound, Record
<1> QED  BY <1>2, <1>3, <1>5, NoImage

LEMMA AbortLoadCmdVInv ==
  ASSUME Patient, IInv, VInv, NEW t \in Tables, AbortLoadCmd(t)
  PROVE  VInv'
<1>1. reg \in [Tables -> Record] /\ Placed(t) /\ Ready(t) /\ Phase(t)
  BY DEF IInv, TypeOK, Record, VInv, Phases
<1>2. /\ reg[t].inactive = None /\ loading' = None
      /\ UNCHANGED <<double, img, hold, pc>>
  BY DEF AbortLoadCmd, Settled
<1>3. /\ reg'[t] = [reg[t] EXCEPT !.load = None, !.pending = FALSE]
      /\ \A u \in Tables \ {t} : reg'[u] = reg[u]
  BY <1>1 DEF AbortLoadCmd, AbortLoad, Record
<1>4. Placed(t)' /\ Ready(t)' /\ Filling'
  BY <1>1, <1>2, <1>3
     DEF Placed, Ready, Filling, Active, Inactive, Sound, Record, Phase
<1> QED  BY <1>2, <1>3, <1>4, NoImage

\* The owner starts its first load, locks or releases its table, or runs the
\* validation function, whose verdict is that of the image it was asked about.
LEMMA OwnerStartsVInv ==
  ASSUME IInv, VInv, NEW t \in Tables,
         Load(t) \/ GetAddress(t) \/ ReleaseAddress(t) \/ Validate(t)
  PROVE  VInv'
<1>1. reg[t] \in Record /\ Placed(t) /\ Ready(t) /\ Phase(t)
  BY DEF IInv, TypeOK, Record, VInv, Phases
<1>2. /\ UNCHANGED <<double, reg, img, loading>>
      /\ \A u \in Tables \ {t} : pc'[u] = pc[u] /\ hold'[u] = hold[u]
  BY DEF Load, GetAddress, ReleaseAddress, Validate, IInv, TypeOK
<1>3. /\ pc[t] \in {"starting", "idle"}
      /\ pc[t] = "starting" => /\ hold'[t] = hold[t] /\ pc'[t] \in {"loading", "idle"}
                               /\ pc'[t] = "loading" => reg[t].load = None
      /\ pc[t] = "idle" =>
           /\ pc'[t] \in {"idle", "passed", "failed", "answering"}
           /\ hold'[t] \in {None, hold[t], reg[t].active}
           /\ pc'[t] \in {"passed", "failed"} => reg[t].inactive # None
           /\ pc'[t] = "passed" /\ Inactive(t) # None => img[Inactive(t)].good
  BY DEF Load, GetAddress, ReleaseAddress, Validate, IInv, TypeOK
<1>4. Placed(t)'
  BY <1>1, <1>2, <1>3 DEF Placed, Inactive
<1>5. Ready(t)'
  BY <1>1, <1>2, <1>3 DEF Ready, Sound, Active, Inactive, Phase
<1>6. Filling' \/ (loading' = loading /\ (loading # None => loading.of # t))
  <2>1. CASE loading = None
    BY <1>2, <2>1
  <2>2. CASE loading # None /\ loading.of # t
    BY <1>2, <2>2
  <2>3. CASE loading # None /\ loading.of = t
    <3>1. /\ reg[t].load = loading.to /\ ~reg[t].pending /\ reg[t].inactive = None
          /\ img[loading.to].cut /\ reg[t].load # None
      BY <2>3, TableAssumption DEF VInv, Filling, IInv, TypeOK
    <3> QED  BY <1>2, <1>3, <2>3, <3>1 DEF Filling
  <2> QED  BY <2>1, <2>2, <2>3
<1> QED  BY <1>2, <1>4, <1>5, <1>6, NoImage

\* A first load that fails leaves a table that is not loaded; one that succeeds
\* is of an image its owner has accepted.
LEMMA LoadDoneVInv ==
  ASSUME IInv, VInv, NEW t \in Tables, LoadDone(t)
  PROVE  VInv'
<1>1. /\ reg \in [Tables -> Record] /\ img \in [Images -> Image]
      /\ Placed(t) /\ Ready(t) /\ Phase(t)
  BY DEF IInv, TypeOK, Record, Image, VInv, Phases
<1>2. pc[t] = "loading" /\ reg[t].load = None /\ ~reg[t].pending
  BY <1>1 DEF LoadDone, Phase
<1>3. /\ UNCHANGED <<double, hold, loading>> /\ pc'[t] = "idle"
      /\ \A u \in Tables \ {t} : reg'[u] = reg[u] /\ pc'[u] = pc[u] /\ hold'[u] = hold[u]
  BY DEF LoadDone, NotifyTblUsersOfUpdate, IInv, TypeOK
<1>4. Active(t) \in Own(t) /\ Active(t) \in Images
  BY TableImages DEF IInv
<1>5. PICK v \in BOOLEAN :
        /\ img' = [img EXCEPT ![Active(t)].good = v]
        /\ reg'[t].loaded => v
        /\ reg'[t].active = reg[t].active /\ reg'[t].load = None /\ ~reg'[t].pending
  <2>1. CASE NotifyTblUsersOfUpdate(t) /\ img' = [img EXCEPT ![Active(t)].good = TRUE]
    BY <1>1, <2>1 DEF NotifyTblUsersOfUpdate, Record
  <2>2. CASE /\ reg' = [reg EXCEPT ![t].load = None]
             /\ img' = [img EXCEPT ![Active(t)].good = FALSE]
    BY <1>1, <1>2, <2>2 DEF Ready, Record
  <2> QED  BY <2>1, <2>2 DEF LoadDone
<1>6. /\ img'[Active(t)].good = v /\ ~img'[Active(t)].validated
      /\ \A x \in Images \ {Active(t)} : img'[x] = img[x]
  BY <1>1, <1>2, <1>4, <1>5 DEF Ready, Image
<1>7. Placed(t)' /\ Ready(t)'
  BY <1>1, <1>2, <1>3, <1>5, <1>6 DEF Placed, Ready, Sound, Active, Inactive
<1>8. loading # None => loading.of # t
  BY <1>2 DEF VInv, Filling
<1> DEFINE W == {Active(t)}
<1>9. /\ \A x \in Images \ W : img'[x] = img[x]
      /\ \A x \in W : x \in Own(t)
      /\ \A x \in W : img'[x].validated => Sound(x)'
  BY <1>4, <1>6
<1> HIDE DEF W
<1> QED  BY <1>3, <1>7, <1>8, <1>9, AtOneTable

\* An update makes the load the active image: a double-buffered table takes the
\* image itself, the other ones its contents.
LEMMA UpdateVInv ==
  ASSUME IInv, VInv, NEW t \in Tables, Update(t)
  PROVE  VInv'
<1>1. /\ reg \in [Tables -> Record] /\ img \in [Images -> Image]
      /\ Placed(t) /\ Ready(t) /\ Phase(t)
  BY DEF IInv, TypeOK, Record, Image, VInv, Phases
<1>2. /\ pc[t] = "idle" /\ reg[t].pending /\ reg[t].load # None
      /\ UNCHANGED <<double, hold, loading>> /\ pc'[t] = "updating"
      /\ \A u \in Tables \ {t} : pc'[u] = pc[u] /\ hold'[u] = hold[u]
  BY DEF Update, IInv, TypeOK
<1>3. loading # None => loading.of # t
  BY <1>2 DEF VInv, Filling
<1>4. Sound(reg[t].load)
  BY <1>1, <1>2 DEF Ready
<1>5. CASE t \in double
  <2>1. reg[t].load = <<t, 1 - reg[t].active>> /\ img' = img
    BY <1>1, <1>2, <1>5 DEF Placed, Inactive, Update
  <2>2. /\ reg'[t] = [reg[t] EXCEPT !.active = 1 - reg[t].active]
        /\ \A u \in Tables \ {t} : reg'[u] = reg[u]
    BY <1>1, <1>5, <2>1 DEF Update
  <2>3. Active(t)' = reg[t].load
    BY <1>1, <2>1, <2>2 DEF Active, Record
  <2>4. Placed(t)' /\ Ready(t)'
    BY <1>1, <1>2, <1>4, <1>5, <2>1, <2>2, <2>3 DEF Placed, Ready, Sound
  <2> QED  BY <1>2, <1>3, <2>1, <2>2, <2>4, NoImage
<1>6. CASE t \notin double
  <2> DEFINE x == <<t, 0>>  W == {x}
  <2>1. /\ hold[t] = None /\ reg' = reg
        /\ img' = [img EXCEPT ![x].good = img[reg[t].load].good,
                              ![x].cut  = img[reg[t].load].cut]
    BY <1>6 DEF Update
  <2>2. /\ x \in Images /\ x \in Own(t) /\ Active(t) = x /\ reg[t].load \in Images
    BY <1>1, <1>2, <1>6, OwnImages DEF Placed, Active, Record
  <2>3. /\ img'[x].good = img[reg[t].load].good /\ img'[x].cut = img[reg[t].load].cut
        /\ \A y \in Images \ W : img'[y] = img[y]
    BY <1>1, <2>1, <2>2 DEF Image
  <2>4. Placed(t)' /\ Ready(t)'
    BY <1>1, <1>2, <1>4, <1>6, <2>1, <2>2, <2>3 DEF Placed, Ready, Sound, Active
  <2>5. /\ \A y \in W : y \in Own(t)
        /\ \A y \in W : img'[y].validated => Sound(y)'
    BY <1>4, <2>2, <2>3 DEF Sound
  <2>6. \A u \in Tables \ {t} : reg'[u] = reg[u] /\ pc'[u] = pc[u] /\ hold'[u] = hold[u]
    BY <1>2, <2>1
  <2> HIDE DEF W, x
  <2> QED  BY <1>2, <1>3, <2>3, <2>4, <2>5, <2>6, AtOneTable
<1> QED  BY <1>5, <1>6

LEMMA UpdateDoneVInv ==
  ASSUME IInv, VInv, NEW t \in Tables, UpdateDone(t)
  PROVE  VInv'
<1>1. reg \in [Tables -> Record] /\ Placed(t) /\ Ready(t) /\ pc[t] = "updating"
  BY DEF IInv, TypeOK, Record, VInv, UpdateDone
<1>2. /\ reg'[t] = [reg[t] EXCEPT !.load = None, !.pending = FALSE, !.loaded = TRUE]
      /\ \A u \in Tables \ {t} : reg'[u] = reg[u]
  BY <1>1 DEF UpdateDone, NotifyTblUsersOfUpdate, Record
<1>3. /\ UNCHANGED <<double, img, hold, loading>> /\ pc'[t] = "idle"
      /\ \A u \in Tables \ {t} : pc'[u] = pc[u] /\ hold'[u] = hold[u]
  BY DEF UpdateDone, IInv, TypeOK
<1>4. loading # None => loading.of # t
  BY <1>1 DEF VInv, Filling
<1>5. Placed(t)' /\ Ready(t)'
  BY <1>1, <1>2, <1>3 DEF Placed, Ready, Sound, Active, Inactive, Record
<1> QED  BY <1>2, <1>3, <1>4, <1>5, NoImage

\* Validated is set for the image whose contents have just been accepted.
LEMMA ValidateDoneVInv ==
  ASSUME IInv, VInv, NEW t \in Tables, ValidateDone(t)
  PROVE  VInv'
<1>1. /\ reg \in [Tables -> Record] /\ img \in [Images -> Image]
      /\ Placed(t) /\ Ready(t) /\ Phase(t)
  BY DEF IInv, TypeOK, Record, Image, VInv, Phases
<1>2. /\ UNCHANGED <<double, hold, loading>> /\ pc'[t] = "idle"
      /\ \A u \in Tables \ {t} : pc'[u] = pc[u] /\ hold'[u] = hold[u]
  BY DEF ValidateDone, IInv, TypeOK
<1>3. /\ reg'[t].active = reg[t].active /\ reg'[t].load = reg[t].load
      /\ reg'[t].loaded = reg[t].loaded /\ reg'[t].pending = reg[t].pending
      /\ reg[t].inactive = None => reg'[t].inactive = None
      /\ \A u \in Tables \ {t} : reg'[u] = reg[u]
  BY <1>1 DEF ValidateDone, Answer, Record
<1>4. pc[t] \in {"passed", "failed", "answering"}
  BY DEF ValidateDone
<1>5. Placed(t)'
  BY <1>1, <1>2, <1>3, <1>4 DEF Placed, Inactive
<1>6. Filling' \/ (loading' = loading /\ (loading # None => loading.of # t))
  <2>1. CASE loading # None /\ loading.of = t
    <3>1. reg[t].inactive = None /\ pc[t] = "answering" /\ ~reg[t].pending
          /\ reg[t].load = loading.to /\ img[loading.to].cut
      BY <1>4, <2>1 DEF VInv, Filling
    <3>2. img' = img
      BY <3>1 DEF ValidateDone
    <3> QED  BY <1>2, <1>3, <2>1, <3>1, <3>2 DEF Filling
  <2> QED  BY <1>2, <2>1
<1>7. CASE pc[t] # "passed"
  <2>1. img' = img
    BY <1>1, <1>7 DEF ValidateDone, Image
  <2>2. Ready(t)'
    BY <1>1, <1>2, <1>3, <1>4, <2>1 DEF Ready, Sound, Active
  <2> QED  BY <1>2, <1>3, <1>5, <1>6, <2>1, <2>2, NoImage
<1>8. CASE pc[t] = "passed"
  <2> DEFINE x == Inactive(t)  W == {x}
  <2>1. x \in Images /\ img[x].good
    BY <1>1, <1>8, TableImages DEF Ready, Phase, IInv
  <2>2. /\ x \in Own(t) \/ (x \in Shared /\ Uses(t, x))
        /\ t \in double => x # Active(t)
    BY <1>1, <1>8, <2>1, TwoImages, TableAssumption DEF Phase, Inactive, Uses
  <2>3. /\ img' = [y \in Images |->
                     IF y = x THEN [img[y] EXCEPT !.validated = TRUE, !.cut = FALSE]
                              ELSE img[y]]
    BY <1>8 DEF ValidateDone
  <2>4. /\ img'[x].good /\ \A y \in Images \ W : img'[y] = img[y]
        /\ \A y \in Images : img'[y].good = img[y].good
    BY <1>1, <2>1, <2>3 DEF Image
  <2>5. img'[Active(t)] = img[Active(t)]
    <3>1. Active(t) \in Images /\ Active(t) \notin Shared
      BY TableImages, OwnImages DEF IInv
    <3>2. x # Active(t)
      BY <1>1, <2>1, <2>2, <3>1, TableAssumption DEF Phase, Inactive
    <3> QED  BY <2>3, <3>1, <3>2
  <2>6. Ready(t)'
    <3>1. ~reg[t].pending
      BY <1>1, <1>8 DEF Phase
    <3> QED  BY <1>1, <1>2, <1>3, <1>8, <2>5, <3>1 DEF Ready, Sound, Active
  <2>7. /\ \A y \in W : \/ y \in Own(t)
                        \/ y \in Shared /\ \A u \in Tables \ {t} : ~Uses(u, y)
        /\ \A y \in W : img'[y].validated => Sound(y)'
    BY <2>2, <2>4 DEF Sound, IInv, Accounted
  <2> HIDE DEF W, x
  <2> QED  BY <1>2, <1>3, <1>5, <1>6, <2>4, <2>6, <2>7, AtOneTable
<1> QED  BY <1>7, <1>8

\* A table that is registered again is empty, and nobody has it locked.
LEMMA RestartVInv ==
  ASSUME Patient, IInv, VInv, NEW t \in Tables, Restart(t)
  PROVE  VInv'
<1>1. /\ reg' = [reg EXCEPT ![t] = Fresh] /\ pc' = [pc EXCEPT ![t] = "starting"]
      /\ hold' = [hold EXCEPT ![t] = None]
      /\ img' = [x \in Images |-> IF x \in Own(t) THEN Blank ELSE img[x]]
      /\ UNCHANGED <<double, loading>>
      /\ loading # None => loading.of # t
  BY DEF Restart
<1>2. /\ reg'[t] = Fresh /\ pc'[t] = "starting" /\ hold'[t] = None
      /\ \A u \in Tables \ {t} : reg'[u] = reg[u] /\ pc'[u] = pc[u] /\ hold'[u] = hold[u]
  BY <1>1 DEF IInv, TypeOK
<1>3. /\ \A x \in Images \ Own(t) : img'[x] = img[x]
      /\ \A x \in Own(t) : img'[x] = Blank
  BY <1>1 DEF Images
<1>4. Active(t)' \in Own(t)
  BY <1>2 DEF Active, Fresh, Own
<1>5. Placed(t)' /\ Ready(t)'
  BY <1>2, <1>3, <1>4 DEF Placed, Ready, Sound, Fresh, Blank
<1>6. \A x \in Own(t) : img'[x].validated => Sound(x)'
  BY <1>3 DEF Blank
<1> DEFINE W == Own(t)
<1>7. /\ \A x \in Images \ W : img'[x] = img[x]
      /\ \A x \in W : x \in Own(t)
      /\ \A x \in W : img'[x].validated => Sound(x)'
  BY <1>3, <1>6
<1> HIDE DEF W
<1> QED  BY <1>1, <1>2, <1>5, <1>7, AtOneTable

LEMMA NextVInv ==
  ASSUME Patient, IInv, VInv, [Next]_vars
  PROVE  VInv'
<1>1. CASE UNCHANGED vars
  BY <1>1 DEF vars, VInv, Placed, Ready, Filling, Verdicts, Sound, Active, Inactive
<1>2. CASE LoadCmdRead
  BY <1>2, LoadCmdReadVInv
<1>3. ASSUME NEW s \in Slots, GetHkData(s) PROVE VInv'
  BY <1>3, GetHkDataVInv
<1>4. ASSUME NEW t \in Tables, LoadCmd(t) PROVE VInv'
  BY <1>4, LoadCmdVInv
<1>5. ASSUME NEW t \in Tables, ActivateCmd(t) PROVE VInv'
  BY <1>5, ActivateCmdVInv
<1>6. ASSUME NEW t \in Tables, AbortLoadCmd(t) PROVE VInv'
  BY <1>6, AbortLoadCmdVInv
<1>7. ASSUME NEW t \in Tables, NEW s \in Slots, ValidateCmd(t, s) PROVE VInv'
  BY <1>7, ValidateCmdVInv
<1>8. ASSUME NEW t \in Tables,
             Load(t) \/ GetAddress(t) \/ ReleaseAddress(t) \/ Validate(t)
      PROVE  VInv'
  BY <1>8, OwnerStartsVInv
<1>9. ASSUME NEW t \in Tables, LoadDone(t) PROVE VInv'
  BY <1>9, LoadDoneVInv
<1>10. ASSUME NEW t \in Tables, Update(t) PROVE VInv'
  BY <1>10, UpdateVInv
<1>11. ASSUME NEW t \in Tables, UpdateDone(t) PROVE VInv'
  BY <1>11, UpdateDoneVInv
<1>12. ASSUME NEW t \in Tables, ValidateDone(t) PROVE VInv'
  BY <1>12, ValidateDoneVInv
<1>13. ASSUME NEW t \in Tables, Restart(t) PROVE VInv'
  BY <1>13, RestartVInv
<1> QED
  BY <1>1, <1>2, <1>3, <1>4, <1>5, <1>6, <1>7, <1>8, <1>9, <1>10, <1>11, <1>12,
     <1>13 DEF Next

LEMMA InitVInv == Init => VInv
<1> SUFFICES ASSUME Init PROVE VInv
  OBVIOUS
<1> USE DEF Init, Fresh, Blank
<1>1. \A t \in Tables : Placed(t)
  BY DEF Placed
<1>2. \A t \in Tables : Ready(t)
  BY OwnImages DEF Ready, Active
<1>3. Filling /\ Verdicts
  BY DEF Filling, Verdicts
<1> QED  BY <1>1, <1>2, <1>3 DEF VInv

\* For any number of tables and shared buffers, and whatever is loaded,
\* activated, aborted and restarted meanwhile, a loaded table is one that its
\* validation function accepts, or one whose last load was cut short.
THEOREM TblOnlyValidated == Patient /\ Spec => []OnlyValidated
<1> SUFFICES ASSUME Patient PROVE Spec => []OnlyValidated
  OBVIOUS
<1>1. Init => IInv /\ VInv
  BY InitIInv, InitVInv
<1>2. (IInv /\ VInv) /\ [Next]_vars => (IInv /\ VInv)'
  BY NextIInv, NextVInv
<1>3. VInv => OnlyValidated
  BY DEF VInv, Ready, Sound, OnlyValidated
<1> QED  BY <1>1, <1>2, <1>3, PTL DEF Spec

----------------------------------------------------------------------------
(* What the owner has locked stays as it is.                               *)

\* A step that changes the contents of an image of table t changes one that its
\* owner has not locked, or ends the lock.
LEMMA StepSteady ==
  ASSUME Patient, IInv, VInv, Next, NEW t \in Tables,
         hold[t] # None, hold'[t] = hold[t]
  PROVE  img'[<<t, hold[t]>>].good = img[<<t, hold[t]>>].good
<1> DEFINE x == <<t, hold[t]>>
<1>1. /\ hold[t] \in {0, 1} /\ x \in Images /\ x \in Own(t) /\ x \notin Shared
      /\ Placed(t) /\ Phase(t) /\ img \in [Images -> Image] /\ reg \in [Tables -> Record]
  BY OwnImages DEF IInv, TypeOK, Image, Record, Phases, VInv, Own
<1>2. /\ pc[t] \notin {"starting", "loading"}
      /\ t \notin double => hold[t] = 0
      /\ t \in double /\ reg[t].load # None /\ pc[t] # "updating" => x = Active(t)
  BY <1>1 DEF Placed, Active
<1>3. \A u \in Tables \ {t} : x # Active(u) /\ x # Inactive(u) /\ x \notin Own(u)
  BY <1>1, Apart DEF Own
<1> HIDE DEF x
<1> SUFFICES img'[x].good = img[x].good
  BY DEF x
<1>4. CASE img' = img
  BY <1>4
<1>5. ASSUME NEW u \in Tables, LoadCmd(u) PROVE img'[x].good = img[x].good
  <2>1. PICK y \in Images : GetWorkingBuffer(u, y)
    BY <1>5 DEF LoadCmd
  <2>2. CASE reg[u].load # None
    BY <1>1, <2>1, <2>2 DEF GetWorkingBuffer, Image
  <2>3. CASE reg[u].load = None
    <3>1. y \in FreeImages(u)
      BY <2>1, <2>3 DEF GetWorkingBuffer
    <3>2. u \in double => y = Inactive(u) /\ y \in Own(u) /\ hold[u] # y[2]
      BY <3>1, FreeIsUnused DEF IInv, FreeImages
    <3>3. u \notin double => y \in Shared
      BY <3>1, FreeIsUnused DEF IInv
    <3>4. x # y
      BY <1>1, <1>3, <3>2, <3>3 DEF x
    <3> QED  BY <1>1, <2>1, <3>4 DEF GetWorkingBuffer, Image
  <2> QED  BY <2>2, <2>3
<1>6. CASE LoadCmdRead
  <2>1. loading.of \in Tables /\ loading.to \in Images /\ loading # None
    <3>1. loading \in [of : Tables, to : Images]
      BY <1>6 DEF LoadCmdRead, IInv, TypeOK
    <3> QED  BY <1>6, <3>1 DEF LoadCmdRead
  <2>2. /\ reg[loading.of].load = loading.to
        /\ pc[loading.of] \notin {"loading", "updating", "passed", "failed"}
    BY <2>1 DEF VInv, Filling
  <2>3. Placed(loading.of) /\ loading.to # None /\ Phase(loading.of)
    BY <2>1, TableAssumption DEF VInv, IInv, Phases
  <2>4. loading.of \in double => loading.to = Inactive(loading.of)
    BY <2>2, <2>3 DEF Placed
  <2>5. loading.of \notin double => loading.to \in Shared
    BY <2>2, <2>3 DEF Phase
  <2>6. x # loading.to
    BY <1>1, <1>2, <1>3, <2>1, <2>2, <2>3, <2>4, <2>5, TwoImages
  <2> QED  BY <1>1, <1>6, <2>1, <2>6 DEF LoadCmdRead, LoadRead, Image
<1>7. ASSUME NEW u \in Tables, LoadDone(u) PROVE img'[x].good = img[x].good
  <2>1. u # t /\ Active(u) \in Images
    BY <1>2, <1>7, TableImages DEF LoadDone, IInv
  <2> QED  BY <1>1, <1>3, <1>7, <2>1 DEF LoadDone, Image
<1>8. ASSUME NEW u \in Tables, Update(u) PROVE img'[x].good = img[x].good
  <2>1. u \notin double /\ u = t => hold[t] = None
    BY <1>8 DEF Update
  <2>2. u # t => x # <<u, 0>>
    BY <1>3, OwnImages
  <2>3. <<u, 0>> \in Images
    BY OwnImages
  <2> QED  BY <1>1, <1>8, <2>1, <2>2, <2>3 DEF Update, Image
<1>9. ASSUME NEW u \in Tables, ValidateDone(u) PROVE img'[x].good = img[x].good
  BY <1>1, <1>9 DEF ValidateDone, Image
<1>10. ASSUME NEW u \in Tables, Restart(u) PROVE img'[x].good = img[x].good
  <2>1. u # t
    <3>1. u = t => hold'[t] = None
      BY <1>10 DEF Restart, IInv, TypeOK
    <3> QED  BY <3>1
  <2> QED  BY <1>1, <1>3, <1>10, <2>1 DEF Restart
<1> QED
  BY <1>4, <1>5, <1>6, <1>7, <1>8, <1>9, <1>10
     DEF Next, ActivateCmd, AbortLoadCmd, ValidateCmd, Load, GetAddress, ReleaseAddress,
         UpdateDone, Validate, GetHkData

\* For any number of tables and shared buffers, what an owner reads between
\* CFE_TBL_GetAddress and CFE_TBL_ReleaseAddress does not change under it.
THEOREM TblSteady == Patient /\ Spec => Steady
<1> SUFFICES ASSUME Patient PROVE Spec => Steady
  OBVIOUS
<1> DEFINE Keeps ==
      \A t \in Tables :
        hold[t] # None /\ hold'[t] = hold[t] =>
          img'[<<t, hold[t]>>].good = img[<<t, hold[t]>>].good
<1>1. Init => IInv /\ VInv
  BY InitIInv, InitVInv
<1>2. (IInv /\ VInv) /\ [Next]_vars => (IInv /\ VInv)'
  BY NextIInv, NextVInv
<1>3. (IInv /\ VInv) /\ [Next]_vars => [Keeps]_vars
  BY StepSteady
<1>4. Steady <=> [][Keeps]_vars
  BY DEF Steady
<1> HIDE DEF Keeps
<1> QED  BY <1>1, <1>2, <1>3, <1>4, PTL DEF Spec
=============================================================================
