------------------------- MODULE SoftwareBusProofs -------------------------
(***************************************************************************)
(* The software bus, for any number of applications, tasks, pipes, message *)
(* IDs and buffers: the types, the reference counts, the message counts,   *)
(* and that it implements MessageBus.                                      *)
(*                                                                         *)
(* The invariants build on one another.  TInv: types, and what the local   *)
(* variables of a call say of its pipe.  RInv adds the reference counts:   *)
(* a count can only be shown to stay right when a buffer that is being     *)
(* filled or sent has no other user (Sole) and the buffers that carry the  *)
(* name of an application are its tasks' (Holders).  MInv adds that what   *)
(* is under way is a message; with the counts, it does not change until it *)
(* is received.  On this rest the message counts and the refinement.       *)
(***************************************************************************)
EXTENDS SoftwareBus, FiniteSetTheorems, FunctionTheorems, SequenceTheorems, TLAPS

\* Sets that differ in at most one element differ in size by it.
LEMMA CountDiff ==
  ASSUME NEW A, NEW B, NEW x, IsFiniteSet(A), \A y : y # x => (y \in A <=> y \in B)
  PROVE  /\ IsFiniteSet(B) /\ Cardinality(A) \in Nat /\ Cardinality(B) \in Nat
         /\ Cardinality(B) = Cardinality(A) - (IF x \in A THEN 1 ELSE 0)
                                            + (IF x \in B THEN 1 ELSE 0)
<1>1. Cardinality(A) \in Nat
  BY FS_CardinalityType
<1>2. CASE x \in A <=> x \in B
  <2>1. A = B
    BY <1>2
  <2> QED  BY <1>1, <2>1
<1>3. CASE x \in A /\ x \notin B
  <2>1. B = A \ {x}
    BY <1>3
  <2> QED  BY <1>1, <1>3, <2>1, FS_RemoveElement, FS_CardinalityType
<1>4. CASE x \notin A /\ x \in B
  <2>1. B = A \cup {x}
    BY <1>4
  <2> QED  BY <1>1, <1>4, <2>1, FS_AddElement
<1> QED  BY <1>2, <1>3, <1>4

Queues == {q \in [Pipes -> Seq(Buffers)] : \A p \in Pipes : Len(q[p]) <= MaxDepth}

LEMMA PlacesFinite ==
  ASSUME NEW q, NEW b
  PROVE  IsFiniteSet(Places(q, b)) /\ Cardinality(Places(q, b)) \in Nat
<1>1. IsFiniteSet(Pipes \X (1..MaxDepth))
  <2>1. IsFiniteSet(1..MaxDepth)
    BY SbAssumption, FS_Interval
  <2> QED  BY <2>1, SbAssumption, FS_Product
<1>2. Places(q, b) \subseteq Pipes \X (1..MaxDepth)
  BY DEF Places
<1> QED  BY <1>1, <1>2, FS_Subset, FS_CardinalityType

\* A buffer has no place exactly if no queue holds it.
LEMMA NoPlace ==
  ASSUME NEW q \in Queues, NEW b, Cardinality(Places(q, b)) = 0,
         NEW p \in Pipes, NEW i \in 1..Len(q[p])
  PROVE  q[p][i] # b
<1>1. Places(q, b) = {}
  BY PlacesFinite, FS_EmptySet
<1>2. Len(q[p]) \in Nat /\ Len(q[p]) <= MaxDepth /\ MaxDepth \in Nat
  BY SbAssumption DEF Queues
<1>3. i \in 1..MaxDepth /\ i <= Len(q[p])
  BY <1>2
<1>4. <<p, i>> \in Pipes \X (1..MaxDepth)
  BY <1>3
<1>5. <<p, i>> \notin Places(q, b)
  BY <1>1
<1> QED  BY <1>3, <1>4, <1>5 DEF Places

\* Appending b to the queues of the pipes in to adds one place for each.
LEMMA PlacesAppend ==
  ASSUME NEW q \in Queues, NEW b \in Buffers, NEW to \in SUBSET Pipes,
         \A p \in to : Len(q[p]) < MaxDepth, NEW r,
         \A p \in Pipes : r[p] = IF p \in to THEN Append(q[p], b) ELSE q[p]
  PROVE  /\ Cardinality(Places(r, b)) = Cardinality(Places(q, b)) + Cardinality(to)
         /\ \A c : c # b => Places(r, c) = Places(q, c)
<1> DEFINE new == {x \in Pipes \X (1..MaxDepth) : x[1] \in to /\ x[2] = Len(q[x[1]]) + 1}
<1>1. /\ \A p \in Pipes : q[p] \in Seq(Buffers) /\ Len(q[p]) \in Nat
      /\ \A p \in to : r[p] = Append(q[p], b) /\ Len(r[p]) = Len(q[p]) + 1
      /\ \A p \in Pipes \ to : r[p] = q[p]
  <2>1. \A p \in Pipes : q[p] \in Seq(Buffers) /\ Len(q[p]) \in Nat
    BY DEF Queues
  <2>2. \A p \in to : r[p] = Append(q[p], b)
    OBVIOUS
  <2> QED  BY <2>1, <2>2
<1>2. ASSUME NEW p \in Pipes, NEW i \in 1..MaxDepth, NEW c
      PROVE  <<p, i>> \in Places(r, c) <=>
               \/ <<p, i>> \in Places(q, c)
               \/ c = b /\ <<p, i>> \in new
  <2>1. CASE p \in to
    <3>1. \A j \in 1..Len(q[p]) : r[p][j] = q[p][j]
      BY <1>1, <2>1
    <3>2. r[p][Len(q[p]) + 1] = b
      BY <1>1, <2>1
    <3>3. i <= Len(r[p]) <=> i \in 1..Len(q[p]) \/ i = Len(q[p]) + 1
      BY <1>1, <2>1, SbAssumption
    <3>4. Len(q[p]) + 1 \notin 1..Len(q[p])
      BY <1>1, <2>1
    <3>5. i <= Len(q[p]) <=> i \in 1..Len(q[p])
      BY <1>1, <2>1, SbAssumption
    <3> QED  BY <2>1, <3>1, <3>2, <3>3, <3>4, <3>5 DEF Places
  <2>2. CASE p \notin to
    BY <1>1, <2>2 DEF Places
  <2> QED  BY <2>1, <2>2
<1>3. \A c : c # b => Places(r, c) = Places(q, c)
  <2> SUFFICES ASSUME NEW c, c # b PROVE Places(r, c) = Places(q, c)
    OBVIOUS
  <2>1. \A x \in Pipes \X (1..MaxDepth) : x \in Places(r, c) <=> x \in Places(q, c)
    BY <1>2
  <2>2. Places(r, c) \subseteq Pipes \X (1..MaxDepth) /\ Places(q, c) \subseteq Pipes \X (1..MaxDepth)
    BY DEF Places
  <2> QED  BY <2>1, <2>2
<1>4. Places(r, b) = Places(q, b) \cup new
  <2>1. \A p \in Pipes, i \in 1..MaxDepth :
          <<p, i>> \in Places(r, b) <=> <<p, i>> \in Places(q, b) \cup new
    BY <1>2
  <2>2. Places(r, b) \subseteq Pipes \X (1..MaxDepth) /\ Places(q, b) \subseteq Pipes \X (1..MaxDepth)
        /\ new \subseteq Pipes \X (1..MaxDepth)
    BY DEF Places
  <2> HIDE DEF new
  <2> QED  BY <2>1, <2>2
<1>5. Places(q, b) \cap new = {}
  <2> SUFFICES ASSUME NEW x \in Places(q, b), x \in new PROVE FALSE
    OBVIOUS
  <2>1. x[1] \in Pipes /\ x[2] <= Len(q[x[1]]) /\ x[2] = Len(q[x[1]]) + 1
    BY DEF Places
  <2> QED  BY <1>1, <2>1
<1>6. IsFiniteSet(to) /\ Cardinality(new) = Cardinality(to) /\ IsFiniteSet(new)
  <2>1. IsFiniteSet(to)
    BY SbAssumption, FS_Subset
  <2> DEFINE f == [p \in to |-> <<p, Len(q[p]) + 1>>]
  <2>2. \A p \in to : f[p] \in new
    BY <1>1, SbAssumption
  <2>3. \A x \in new : x[1] \in to /\ f[x[1]] = x
    OBVIOUS
  <2>4. \A p, s \in to : f[p] = f[s] => p = s
    OBVIOUS
  <2>5. f \in Bijection(to, new)
    <3> HIDE DEF new
    <3>1. f \in [to -> new]
      BY <2>2
    <3>2. \A x \in new : \E p \in to : f[p] = x
      BY <2>3
    <3> HIDE DEF f
    <3> QED  BY <2>4, <3>1, <3>2, Fun_IsBij
  <2> QED  BY <2>1, <2>5, FS_Bijection DEF ExistsBijection
<1> HIDE DEF new
<1>7. Cardinality(Places(r, b)) = Cardinality(Places(q, b)) + Cardinality(new)
                                  - Cardinality(Places(q, b) \cap new)
  BY <1>4, <1>6, PlacesFinite, FS_Union
<1>8. Cardinality(to) \in Nat
  BY <1>6, FS_CardinalityType
<1>9. Cardinality(Places(q, b) \cap new) = 0
  BY <1>5, FS_EmptySet
<1>10. Cardinality(Places(q, b)) \in Nat
  BY PlacesFinite
<1> QED  BY <1>3, <1>6, <1>7, <1>8, <1>9, <1>10

\* Taking the first buffer of a queue takes one place of that buffer away.
LEMMA PlacesTail ==
  ASSUME NEW q \in Queues, NEW p \in Pipes, q[p] # <<>>, NEW r,
         r[p] = Tail(q[p]), \A s \in Pipes \ {p} : r[s] = q[s], NEW c
  PROVE  Cardinality(Places(q, c)) = Cardinality(Places(r, c)) + (IF Head(q[p]) = c THEN 1 ELSE 0)
<1> DEFINE rest == Places(q, c) \ {<<p, 1>>}
           up(x) == IF x[1] = p THEN <<p, x[2] + 1>> ELSE x
<1>1. /\ q[p] \in Seq(Buffers) /\ Len(q[p]) \in Nat \ {0} /\ Len(q[p]) <= MaxDepth /\ MaxDepth \in Nat
      /\ r[p] = Tail(q[p]) /\ Len(r[p]) = Len(q[p]) - 1 /\ Head(q[p]) = q[p][1]
      /\ \A i \in 1..Len(r[p]) : r[p][i] = q[p][i+1]
      /\ \A s \in Pipes \ {p} : r[s] = q[s]
  BY SbAssumption DEF Queues
<1>2. <<p, 1>> \in Places(q, c) <=> Head(q[p]) = c
  BY <1>1 DEF Places
<1>3. Cardinality(rest) = Cardinality(Places(r, c))
  <2> DEFINE f == [x \in Places(r, c) |-> up(x)]
  <2>1. ASSUME NEW x \in Places(r, c) PROVE up(x) \in rest
    <3>1. x \in Pipes \X (1..MaxDepth) /\ x[2] <= Len(r[x[1]]) /\ r[x[1]][x[2]] = c
      BY DEF Places
    <3>2. CASE x[1] = p
      <4> DEFINE i == x[2]
      <4>0. i \in 1..MaxDepth /\ i <= Len(r[p]) /\ r[p][i] = c
        BY <3>1, <3>2
      <4> HIDE DEF i
      <4>1. i \in 1..Len(r[p]) /\ i + 1 \in 1..MaxDepth /\ i + 1 <= Len(q[p]) /\ q[p][i + 1] = c
        BY <1>1, <4>0
      <4> USE DEF i
      <4>2. x[2] + 1 # 1
        BY <4>1
      <4> QED  BY <3>2, <4>1, <4>2 DEF Places
    <3>3. CASE x[1] # p
      <4>1. x # <<p, 1>>
        BY <3>3
      <4> QED  BY <1>1, <3>1, <3>3, <4>1 DEF Places
    <3> QED  BY <3>2, <3>3
  <2>2. ASSUME NEW y \in rest PROVE \E x \in Places(r, c) : up(x) = y
    <3>1. y \in Pipes \X (1..MaxDepth) /\ y[2] <= Len(q[y[1]]) /\ q[y[1]][y[2]] = c /\ y # <<p, 1>>
      BY DEF Places
    <3>2. CASE y[1] = p
      <4> DEFINE i == y[2]
      <4>0. i \in 1..MaxDepth /\ i <= Len(q[p]) /\ i # 1 /\ q[p][i] = c
        BY <3>1, <3>2
      <4> HIDE DEF i
      <4>1. i - 1 \in 1..MaxDepth /\ i - 1 \in 1..Len(r[p]) /\ (i - 1) + 1 = i
        BY <1>1, <4>0
      <4>2. r[p][i - 1] = c
        BY <1>1, <4>0, <4>1
      <4>3. <<p, i - 1>> \in Places(r, c)
        <5>1. i - 1 <= Len(r[p])
          BY <1>1, <4>0
        <5> QED  BY <4>1, <4>2, <5>1 DEF Places
      <4> USE DEF i
      <4>4. up(<<p, y[2] - 1>>) = y
        BY <3>1, <3>2, <4>1
      <4> QED  BY <4>3, <4>4
    <3>3. CASE y[1] # p
      <4>1. y \in Places(r, c)
        BY <1>1, <3>1, <3>3 DEF Places
      <4> QED  BY <3>3, <4>1
    <3> QED  BY <3>2, <3>3
  <2>3. \A x, y \in Places(r, c) : up(x) = up(y) => x = y
    <3> SUFFICES ASSUME NEW x \in Pipes \X (1..MaxDepth), NEW y \in Pipes \X (1..MaxDepth),
                        up(x) = up(y)
                 PROVE  x = y
      BY DEF Places
    <3>1. x[1] = y[1] /\ x[2] \in 1..MaxDepth /\ y[2] \in 1..MaxDepth
      OBVIOUS
    <3>2. x[2] = y[2]
      BY <3>1
    <3> QED  BY <3>1, <3>2
  <2> HIDE DEF rest, up
  <2>4. f \in [Places(r, c) -> rest]
    BY <2>1
  <2>5. \A y \in rest : \E x \in Places(r, c) : f[x] = y
    BY <2>2
  <2>6. \A x, y \in Places(r, c) : f[x] = f[y] => x = y
    BY <2>3
  <2> HIDE DEF f
  <2>7. f \in Bijection(Places(r, c), rest)
    BY <2>4, <2>5, <2>6, Fun_IsBij
  <2> QED  BY <2>7, PlacesFinite, FS_Bijection DEF ExistsBijection
<1>4. CASE <<p, 1>> \in Places(q, c)
  <2>1. Cardinality(rest) = Cardinality(Places(q, c)) - 1
    BY <1>4, PlacesFinite, FS_RemoveElement
  <2> HIDE DEF rest
  <2> QED  BY <1>2, <1>3, <1>4, <2>1, PlacesFinite
<1>5. CASE <<p, 1>> \notin Places(q, c)
  <2>1. rest = Places(q, c)
    BY <1>5
  <2>2. Cardinality(Places(q, c)) \in Nat
    BY PlacesFinite
  <2> HIDE DEF rest
  <2> QED  BY <1>2, <1>3, <1>5, <2>1, <2>2
<1> QED  BY <1>4, <1>5

----------------------------------------------------------------------------
(* Types, calls and pipes.                                                 *)

\* What a task's local variables are while it is in a call of the bus.
InCall(t) ==
  /\ At(t, "idle") => task[t].pipe = None /\ task[t].buf = None
  /\ At(t, "sending") => t \in Tasks /\ task[t].pipe = None /\ task[t].buf # None
  /\ At(t, "waiting") => t \in Tasks /\ task[t].pipe # None /\ task[t].buf = None
  /\ At(t, "gotten") => t \in Tasks /\ task[t].pipe # None /\ task[t].buf # None
  /\ At(t, "draining") => task[t].pipe # None /\ pipe[task[t].pipe].state = "reserved"
Calls == \A t \in Tasks \cup {ES} : InCall(t)

Receiving(t, p) == task[t].pc \in {"waiting", "gotten"} /\ task[t].pipe = p
Draining(t, p) == At(t, "draining") /\ task[t].pipe = p

\* A pipe in use is read by the task that serves it only, which has given up
\* the message it had before; a pipe that is closed is emptied by one task.
Served ==
  /\ \A t \in Tasks, p \in Pipes : Receiving(t, p) /\ Used(p) => pipe[p].task = t /\ pipe[p].last = None
  /\ \A t, u \in Tasks \cup {ES}, p \in Pipes : Draining(t, p) /\ Draining(u, p) => t = u

\* A pipe that is not in use has no subscription and no message in hand; a free
\* one has an empty queue.
PipeStates ==
  \A p \in Pipes :
    /\ ~Used(p) => pipe[p].last = None /\ \A m \in Msgs : ~Subscribed(m, p)
    /\ pipe[p].state = "free" => queue[p] = <<>>

Subscription == [active : BOOLEAN, count : Nat, limit : Limits]
PipeRecord == [state : {"free", "used", "reserved"}, app : Apps \cup {None},
               task : Tasks \cup {None}, depth : Nat,
               last : Buffers \cup {None}, ignore : BOOLEAN]
Call == [pc : {"idle", "sending", "waiting", "gotten", "draining"},
         pipe : Pipes \cup {None}, buf : Buffers \cup {None}, routed : BOOLEAN]
Content == [id : Msgs \cup {None}, data : Payloads \cup {None}, app : Apps \cup {None}]

LEMMA Fresh ==
  /\ NoPipe \in PipeRecord /\ Idle \in Call
  /\ None \notin Tasks /\ None \notin Pipes /\ None \notin Msgs /\ None \notin Buffers
  /\ None \notin Apps /\ ES \notin Tasks /\ None \notin Subscription
<1>1. NoPipe \in PipeRecord
  BY DEF NoPipe, PipeRecord
<1>2. Idle \in Call
  BY DEF Idle, Call
<1>3. None \notin Subscription
  BY SbAssumption DEF Subscription
<1> QED  BY <1>1, <1>2, <1>3, SbAssumption

\* The parts of the type invariant.
PipeType == pipe \in [Pipes -> PipeRecord]
QueueType == queue \in [Pipes -> Seq(Buffers)] /\ \A p \in Pipes : Len(queue[p]) <= Depth[p]
DestType == dest \in [Msgs -> [Pipes -> {None} \cup Subscription]]
UseType == use \in [Buffers -> Nat]
ContentType == content \in [Buffers -> Content]
ZbufType == zbuf \in [Tasks -> Buffers \cup {None}]
TaskType == task \in [Tasks \cup {ES} -> Call]
OtherTypes ==
  /\ routes \subseteq Msgs /\ leftover \in [Msgs -> SUBSET Pipes]
  /\ cleaning \in [app : Apps \cup {None}, todo : SUBSET Pipes]

Types == PipeType /\ QueueType /\ DestType /\ UseType /\ ContentType /\ ZbufType /\ TaskType
         /\ OtherTypes

LEMMA TypeParts == (TypeOK <=> Types) /\ (TypeOK' <=> Types')
BY DEF Types, TypeOK, PipeType, QueueType, DestType, UseType, ContentType, ZbufType, TaskType, OtherTypes,
       PipeRecord, Subscription, Content, Call

LEMMA GotoType ==
  ASSUME TaskType, NEW t \in Tasks \cup {ES}, NEW r \in Call, Goto(t, r)
  PROVE  TaskType'
BY DEF TaskType, Goto

LEMMA DecrType ==
  ASSUME UseType, NEW b \in Buffers \cup {None}
  PROVE  Decr(use, b) \in [Buffers -> Nat]
BY Fresh DEF UseType, Decr

LEMMA PoolType ==
  ASSUME UseType, ContentType, NEW b \in Buffers, NEW v \in Content, GetBufferFromPool(b, v)
  PROVE  UseType' /\ ContentType'
BY DEF UseType, ContentType, GetBufferFromPool

LEMMA TakeType ==
  ASSUME QueueType, NEW p \in Pipes, queue[p] # <<>>
  PROVE  Head(queue[p]) \in Buffers /\ Tail(queue[p]) \in Seq(Buffers)
         /\ Len(Tail(queue[p])) = Len(queue[p]) - 1 /\ Len(queue[p]) \in Nat /\ Depth[p] \in Nat
BY SbAssumption DEF QueueType

LEMMA CloseType ==
  ASSUME PipeType, DestType, TaskType, NEW t \in Tasks \cup {ES}, NEW p \in Pipes, NEW a,
         ClosePipe(t, p, a)
  PROVE  PipeType' /\ DestType' /\ TaskType'
<1>1. PipeType'
  BY DEF ClosePipe, PipeType, PipeRecord
<1>2. DestType'
  BY DEF ClosePipe, DestType
<1>3. pipe[p].last \in Buffers \cup {None}
  BY DEF PipeType, PipeRecord
<1>4. [Idle EXCEPT !.pc = "draining", !.pipe = p, !.buf = pipe[p].last] \in Call
  BY <1>3 DEF Idle, Call
<1> QED  BY <1>1, <1>2, <1>4, GotoType DEF ClosePipe

LEMMA TypeStep ==
  ASSUME TypeOK, Calls, Next
  PROVE  TypeOK'
<1> USE TypeParts DEF Types
<1>1. ASSUME NEW t \in Tasks, NEW p \in Pipes, CreatePipe(t, p) PROVE TypeOK'
  <2>1. AppOf[t] \in Apps
    BY SbAssumption
  <2>2. [NoPipe EXCEPT !.state = "used", !.app = AppOf[t], !.task = t] \in PipeRecord
    BY <2>1, Fresh DEF NoPipe, PipeRecord
  <2>3. PipeType'
    BY <1>1, <2>2 DEF CreatePipe, PipeType
  <2> QED  BY <1>1, <2>3 DEF CreatePipe, QueueType, DestType, UseType, ContentType, ZbufType, TaskType, OtherTypes
<1>2. ASSUME NEW t \in Tasks, NEW p \in Pipes, SetPipeOpts(t, p) PROVE TypeOK'
  <2>1. pipe[p] \in PipeRecord
    BY DEF PipeType
  <2> DEFINE v == ~pipe[p].ignore
  <2>2. v \in BOOLEAN
    OBVIOUS
  <2>3. pipe' = [pipe EXCEPT ![p] = [pipe[p] EXCEPT !.ignore = v]]
    BY <1>2 DEF SetPipeOpts, PipeType
  <2> HIDE DEF v
  <2>4. [pipe[p] EXCEPT !.ignore = v] \in PipeRecord
    BY <2>1, <2>2 DEF PipeRecord
  <2>5. PipeType'
    BY <2>3, <2>4 DEF PipeType
  <2> QED  BY <1>2, <2>5 DEF SetPipeOpts, QueueType, DestType, UseType, ContentType, ZbufType, TaskType, OtherTypes
<1>3. ASSUME NEW t \in Tasks, NEW p \in Pipes, ReceiveBuffer(t, p) PROVE TypeOK'
  <2>1. pipe[p].last \in Buffers \cup {None} /\ PipeType'
    BY <1>3 DEF ReceiveBuffer, PipeType, PipeRecord
  <2>2. UseType'
    BY <1>3, <2>1, DecrType DEF ReceiveBuffer, UseType
  <2>3. [Idle EXCEPT !.pc = "waiting", !.pipe = p] \in Call
    BY DEF Idle, Call
  <2>4. TaskType'
    BY <1>3, <2>3, GotoType DEF ReceiveBuffer
  <2> QED  BY <1>3, <2>1, <2>2, <2>4 DEF ReceiveBuffer, QueueType, DestType, ContentType, ZbufType, OtherTypes
<1>4. ASSUME NEW t \in Tasks, NEW p \in Pipes, DeletePipe(t, p) PROVE TypeOK'
  <2>1. PipeType' /\ DestType' /\ TaskType'
    BY <1>4, CloseType DEF DeletePipe
  <2> QED  BY <1>4, <2>1 DEF DeletePipe, ClosePipe, QueueType, UseType, ContentType, ZbufType, OtherTypes
<1>5. ASSUME NEW t \in Tasks, NEW m \in Msgs, NEW p \in Pipes, Unsubscribe(t, m, p) PROVE TypeOK'
  <2>1. DestType'
    BY <1>5 DEF Unsubscribe, DestType
  <2> QED  BY <1>5, <2>1 DEF Unsubscribe, PipeType, QueueType, UseType, ContentType, ZbufType, TaskType, OtherTypes
<1>6. ASSUME NEW t \in Tasks, NEW m \in Msgs, NEW p \in Pipes, NEW lim \in Limits,
             Subscribe(t, m, p, lim)
      PROVE  TypeOK'
  <2>1. [active |-> TRUE, count |-> 0, limit |-> lim] \in Subscription
    BY DEF Subscription
  <2>2. DestType'
    BY <1>6, <2>1 DEF Subscribe, DestType
  <2>3. OtherTypes'
    BY <1>6 DEF Subscribe, OtherTypes
  <2> QED  BY <1>6, <2>2, <2>3 DEF Subscribe, PipeType, QueueType, UseType, ContentType, ZbufType, TaskType
<1>7. ASSUME NEW t \in Tasks, NEW m \in Msgs, NEW d \in Payloads, TransmitMsg(t, m, d) PROVE TypeOK'
  <2>1. PICK b \in Buffers : /\ GetBufferFromPool(b, [id |-> m, data |-> d, app |-> None])
                             /\ Goto(t, [Idle EXCEPT !.pc = "sending", !.buf = b, !.routed = TRUE])
    BY <1>7 DEF TransmitMsg
  <2>2. [id |-> m, data |-> d, app |-> None] \in Content
    BY DEF Content
  <2>3. [Idle EXCEPT !.pc = "sending", !.buf = b, !.routed = TRUE] \in Call
    BY DEF Idle, Call
  <2>4. UseType' /\ ContentType' /\ TaskType'
    BY <2>1, <2>2, <2>3, PoolType, GotoType
  <2> QED  BY <1>7, <2>4 DEF TransmitMsg, PipeType, QueueType, DestType, ZbufType, OtherTypes
<1>8. ASSUME NEW t \in Tasks, NEW m \in Msgs, NEW d \in Payloads, TransmitBuffer(t, m, d) PROVE TypeOK'
  <2>1. zbuf[t] \in Buffers /\ ZbufType'
    BY <1>8 DEF TransmitBuffer, ZbufType
  <2>2. ContentType'
    BY <1>8, <2>1 DEF TransmitBuffer, ContentType, Content
  <2> DEFINE r == m \in routes
  <2>3. [Idle EXCEPT !.pc = "sending", !.buf = zbuf[t], !.routed = r] \in Call
    <3>1. r \in BOOLEAN
      OBVIOUS
    <3> HIDE DEF r
    <3> QED  BY <2>1, <3>1 DEF Idle, Call
  <2>4. TaskType'
    BY <1>8, <2>3, GotoType DEF TransmitBuffer
  <2> QED  BY <1>8, <2>1, <2>2, <2>4 DEF TransmitBuffer, PipeType, QueueType, DestType, UseType, OtherTypes
<1>9. ASSUME NEW t \in Tasks, AllocateMessageBuffer(t) PROVE TypeOK'
  <2>1. PICK b \in Buffers : /\ GetBufferFromPool(b, [id |-> None, data |-> None, app |-> AppOf[t]])
                             /\ zbuf' = [zbuf EXCEPT ![t] = b]
    BY <1>9 DEF AllocateMessageBuffer
  <2>2. [id |-> None, data |-> None, app |-> AppOf[t]] \in Content
    BY SbAssumption DEF Content
  <2>3. UseType' /\ ContentType' /\ ZbufType'
    BY <2>1, <2>2, PoolType DEF ZbufType
  <2> QED  BY <1>9, <2>3 DEF AllocateMessageBuffer, PipeType, QueueType, DestType, TaskType, OtherTypes
<1>10. ASSUME NEW t \in Tasks, ReleaseMessageBuffer(t) PROVE TypeOK'
  <2>1. zbuf[t] \in Buffers /\ ZbufType'
    BY <1>10 DEF ReleaseMessageBuffer, ZbufType
  <2>2. ContentType' /\ UseType'
    BY <1>10, <2>1, DecrType DEF ReleaseMessageBuffer, ContentType, Content, UseType
  <2> QED  BY <1>10, <2>1, <2>2 DEF ReleaseMessageBuffer, PipeType, QueueType, DestType, TaskType, OtherTypes
<1>11. ASSUME NEW t \in Tasks, BroadcastBufferToRoute(t) PROVE TypeOK'
  <2> DEFINE b == task[t].buf
             m == content[b].id
             to == IF task[t].routed THEN Targets(t, m) ELSE {}
             counted == [p \in Pipes |-> IF p \in to THEN [dest[m][p] EXCEPT !.count = @ + 1]
                                                     ELSE dest[m][p]]
  <2>1. b \in Buffers
    BY <1>11 DEF BroadcastBufferToRoute, Calls, InCall, TaskType, Call
  <2>2. to \subseteq Pipes /\ \A p \in to : Len(queue[p]) < Depth[p] /\ (m \in Msgs => dest[m][p] # None)
    BY DEF Targets, Subscribed
  <2>3. /\ queue' = [p \in Pipes |-> IF p \in to THEN Append(queue[p], b) ELSE queue[p]]
        /\ pipe' = [p \in Pipes |-> IF p \in to THEN [pipe[p] EXCEPT !.depth = @ + 1] ELSE pipe[p]]
        /\ dest' = [dest EXCEPT ![m] = counted]
        /\ content' = [content EXCEPT ![b].app = None]
        /\ use' = Decr([use EXCEPT ![b] = @ + Cardinality(to)], b)
        /\ Goto(t, Idle) /\ UNCHANGED <<routes, zbuf, cleaning, leftover>>
    BY <1>11 DEF BroadcastBufferToRoute
  <2>4. Cardinality(to) \in Nat
    BY <2>2, SbAssumption, FS_Subset, FS_CardinalityType
  <2> HIDE DEF counted, to, m, b
  <2>5. QueueType'
    <3> SUFFICES ASSUME NEW p \in Pipes PROVE queue'[p] \in Seq(Buffers) /\ Len(queue'[p]) <= Depth[p]
      BY <2>3 DEF QueueType
    <3>1. Depth[p] \in Nat /\ queue[p] \in Seq(Buffers) /\ Len(queue[p]) <= Depth[p]
      BY SbAssumption DEF QueueType
    <3> QED  BY <2>1, <2>2, <2>3, <3>1
  <2>6. PipeType'
    <3> SUFFICES ASSUME NEW p \in Pipes PROVE pipe'[p] \in PipeRecord
      BY <2>3 DEF PipeType
    <3>1. pipe[p] \in PipeRecord
      BY DEF PipeType
    <3>2. [pipe[p] EXCEPT !.depth = @ + 1] \in PipeRecord
      BY <3>1 DEF PipeRecord
    <3>3. pipe'[p] = IF p \in to THEN [pipe[p] EXCEPT !.depth = @ + 1] ELSE pipe[p]
      BY <2>3
    <3> QED  BY <3>1, <3>2, <3>3
  <2>7. DestType'
    <3>1. CASE m \in Msgs
      <4> SUFFICES ASSUME NEW p \in Pipes PROVE dest'[m][p] \in {None} \cup Subscription
        BY <2>3, <3>1 DEF DestType, counted
      <4>1. dest[m][p] \in {None} \cup Subscription /\ (p \in to => dest[m][p] \in Subscription)
        BY <2>2, <3>1 DEF DestType
      <4>2. p \in to => [dest[m][p] EXCEPT !.count = @ + 1] \in Subscription
        BY <4>1 DEF Subscription
      <4>3. dest'[m][p] = IF p \in to THEN [dest[m][p] EXCEPT !.count = @ + 1] ELSE dest[m][p]
        <5>1. dest'[m] = counted
          BY <2>3, <3>1 DEF DestType
        <5> QED  BY <5>1 DEF counted
      <4> QED  BY <4>1, <4>2, <4>3
    <3>2. CASE m \notin Msgs
      BY <2>3, <3>2 DEF DestType
    <3> QED  BY <3>1, <3>2
  <2>8. UseType'
    BY <2>1, <2>3, <2>4 DEF UseType, Decr
  <2>9. ContentType'
    BY <2>1, <2>3 DEF ContentType, Content
  <2>10. TaskType'
    BY <2>3, Fresh, GotoType
  <2> QED  BY <2>3, <2>5, <2>6, <2>7, <2>8, <2>9, <2>10 DEF ZbufType, OtherTypes
<1>12. ASSUME NEW t \in Tasks, QueueGet(t) PROVE TypeOK'
  <2>1. task[t] \in Call /\ task[t].pipe \in Pipes
    BY <1>12 DEF QueueGet, Calls, InCall, TaskType, Call
  <2>2. queue[task[t].pipe] # <<>>
    BY <1>12 DEF QueueGet
  <2>3. QueueType'
    BY <1>12, <2>1, <2>2, TakeType DEF QueueGet, QueueType
  <2>4. [task[t] EXCEPT !.pc = "gotten", !.buf = Head(queue[task[t].pipe])] \in Call
    BY <2>1, <2>2, TakeType DEF Call
  <2>5. TaskType'
    BY <1>12, <2>4, GotoType DEF QueueGet
  <2> QED  BY <1>12, <2>3, <2>5 DEF QueueGet, PipeType, DestType, UseType, ContentType, ZbufType, OtherTypes
<1>13. ASSUME NEW t \in Tasks, ReceiveNothing(t) PROVE TypeOK'
  <2>1. TaskType'
    BY <1>13, Fresh, GotoType DEF ReceiveNothing
  <2> QED  BY <1>13, <2>1 DEF ReceiveNothing, PipeType, QueueType, DestType, UseType, ContentType, ZbufType, OtherTypes
<1>14. ASSUME NEW t \in Tasks, ReceiveDone(t) PROVE TypeOK'
  <2> DEFINE p == task[t].pipe
             b == task[t].buf
             m == content[b].id
  <2>1. p \in Pipes /\ b \in Buffers
    BY <1>14 DEF ReceiveDone, Calls, InCall, TaskType, Call
  <2>2. TaskType'
    BY <1>14, Fresh, GotoType DEF ReceiveDone
  <2>3. CASE Used(p)
    <3>1. /\ pipe' = [pipe EXCEPT ![p].last = b, ![p].depth = DepthAfter(p, m)]
          /\ dest' = IF Subscribed(m, p) THEN [dest EXCEPT ![m][p].count = Less(@)] ELSE dest
          /\ use' = Decr(Incr(use, b), b)
      BY <1>14, <2>3 DEF ReceiveDone
    <3> HIDE DEF p, b, m
    <3>2. PipeType'
      <4> DEFINE d == DepthAfter(p, m)
      <4>1. pipe[p] \in PipeRecord /\ d \in Nat
        BY <2>1 DEF PipeType, PipeRecord, DepthAfter, Less
      <4>2. pipe' = [pipe EXCEPT ![p] = [pipe[p] EXCEPT !.last = b, !.depth = d]]
        BY <2>1, <3>1 DEF PipeType
      <4> HIDE DEF d
      <4>3. [pipe[p] EXCEPT !.last = b, !.depth = d] \in PipeRecord
        BY <2>1, <4>1 DEF PipeRecord
      <4> QED  BY <4>2, <4>3 DEF PipeType
    <3>3. UseType'
      BY <2>1, <3>1 DEF UseType, Decr, Incr
    <3>4. CASE m \in Msgs /\ Subscribed(m, p)
      <4>1. dest[m][p] \in Subscription
        BY <2>1, <3>4 DEF DestType, Subscribed
      <4>2. [dest[m][p] EXCEPT !.count = Less(@)] \in Subscription
        BY <4>1 DEF Subscription, Less
      <4>3. dest' = [dest EXCEPT ![m][p] = [dest[m][p] EXCEPT !.count = Less(@)]]
        BY <3>1, <3>4 DEF DestType
      <4>4. DestType'
        BY <2>1, <4>2, <4>3 DEF DestType
      <4> QED  BY <1>14, <2>2, <3>2, <3>3, <4>4 DEF ReceiveDone, QueueType, ContentType, ZbufType, OtherTypes
    <3>5. CASE ~(m \in Msgs /\ Subscribed(m, p))
      <4>1. dest' = dest
        BY <3>1, <3>5 DEF DestType
      <4> QED  BY <1>14, <2>2, <3>2, <3>3, <4>1 DEF ReceiveDone, QueueType, DestType, ContentType, ZbufType, OtherTypes
    <3> QED  BY <3>4, <3>5
  <2>4. CASE ~Used(p)
    <3>1. UseType'
      BY <1>14, <2>1, <2>4, DecrType DEF ReceiveDone, UseType
    <3> QED  BY <1>14, <2>2, <2>4, <3>1 DEF ReceiveDone, PipeType, QueueType, DestType, ContentType, ZbufType, OtherTypes
  <2> QED  BY <2>3, <2>4
<1>15. ASSUME NEW t \in Tasks \cup {ES}, DrainPrevious(t) PROVE TypeOK'
  <2>1. task[t] \in Call /\ task[t].buf \in Buffers \cup {None}
    BY DEF TaskType, Call
  <2>2. UseType'
    BY <1>15, <2>1, DecrType DEF DrainPrevious, UseType
  <2>3. [task[t] EXCEPT !.buf = None] \in Call
    BY <2>1 DEF Call
  <2>4. TaskType'
    BY <1>15, <2>3, GotoType DEF DrainPrevious
  <2> QED  BY <1>15, <2>2, <2>4 DEF DrainPrevious, PipeType, QueueType, DestType, ContentType, ZbufType, OtherTypes
<1>16. ASSUME NEW t \in Tasks \cup {ES}, DrainNext(t) PROVE TypeOK'
  <2> DEFINE p == task[t].pipe
  <2>1. task[t] \in Call /\ p \in Pipes
    BY <1>16 DEF DrainNext, Calls, InCall, TaskType, Call
  <2>2. CASE queue[p] # <<>>
    <3>1. QueueType'
      <4>1. queue' = [queue EXCEPT ![p] = Tail(queue[p])]
        BY <1>16, <2>1, <2>2 DEF DrainNext
      <4> HIDE DEF p
      <4> QED  BY <2>1, <2>2, <4>1, TakeType DEF QueueType
    <3>2. [task[t] EXCEPT !.buf = Head(queue[p])] \in Call
      BY <2>1, <2>2, TakeType DEF Call
    <3>3. TaskType'
      BY <1>16, <2>2, <3>2, GotoType DEF DrainNext
    <3> QED  BY <1>16, <2>2, <3>1, <3>3 DEF DrainNext, PipeType, DestType, UseType, ContentType, ZbufType, OtherTypes
  <2>3. CASE queue[p] = <<>>
    <3>1. PipeType' /\ TaskType'
      BY <1>16, <2>3, Fresh, GotoType DEF DrainNext, PipeType
    <3> QED  BY <1>16, <2>3, <3>1 DEF DrainNext, QueueType, DestType, UseType, ContentType, ZbufType, OtherTypes
  <2> QED  BY <2>2, <2>3
<1>17. ASSUME NEW m \in Msgs, NEW p \in Pipes, NEW active \in BOOLEAN, SetRoute(m, p, active)
       PROVE  TypeOK'
  <2>1. dest[m][p] \in Subscription
    BY <1>17 DEF SetRoute, Subscribed, DestType
  <2>2. [dest[m][p] EXCEPT !.active = active] \in Subscription
    BY <2>1 DEF Subscription
  <2>3. dest' = [dest EXCEPT ![m][p] = [dest[m][p] EXCEPT !.active = active]]
    BY <1>17 DEF SetRoute, DestType
  <2>4. DestType'
    BY <2>2, <2>3 DEF DestType
  <2> QED  BY <1>17, <2>4 DEF SetRoute, PipeType, QueueType, UseType, ContentType, ZbufType, TaskType, OtherTypes
<1>18. ASSUME NEW a \in External, CleanUpApp(a) PROVE TypeOK'
  <2>1. OtherTypes'
    BY <1>18, SbAssumption DEF CleanUpApp, OtherTypes
  <2> QED  BY <1>18, <2>1 DEF CleanUpApp, PipeType, QueueType, DestType, UseType, ContentType, ZbufType, TaskType
<1>19. ASSUME CleanUpPipe PROVE TypeOK'
  <2>1. PICK p \in cleaning.todo : ClosePipe(ES, p, cleaning.app)
                                   /\ cleaning' = [cleaning EXCEPT !.todo = @ \ {p}]
    BY <1>19 DEF CleanUpPipe
  <2>2. p \in Pipes
    BY <2>1 DEF OtherTypes
  <2>3. PipeType' /\ DestType' /\ TaskType'
    BY <2>1, <2>2, CloseType
  <2>4. OtherTypes'
    BY <2>1 DEF OtherTypes, ClosePipe
  <2> QED  BY <2>1, <2>3, <2>4 DEF ClosePipe, QueueType, UseType, ContentType, ZbufType
<1>20. ASSUME ZeroCopyReleaseAppId PROVE TypeOK'
  <2>1. UseType'
    BY <1>20 DEF ZeroCopyReleaseAppId, UseType, Less
  <2>2. ZbufType'
    BY <1>20 DEF ZeroCopyReleaseAppId, ZbufType
  <2>3. TaskType'
    BY <1>20, Fresh DEF ZeroCopyReleaseAppId, TaskType
  <2>4. OtherTypes'
    BY <1>20 DEF ZeroCopyReleaseAppId, OtherTypes, NoCleaning
  <2> QED  BY <1>20, <2>1, <2>2, <2>3, <2>4 DEF ZeroCopyReleaseAppId, PipeType, QueueType, DestType, ContentType
<1> QED  BY <1>1, <1>2, <1>3, <1>4, <1>5, <1>6, <1>7, <1>8, <1>9, <1>10, <1>11, <1>12, <1>13,
            <1>14, <1>15, <1>16, <1>17, <1>18, <1>19, <1>20 DEF Next

\* What the shape of the calls and pipes rests on.
Shape == Calls /\ Served /\ PipeStates

LEMMA SameShape ==
  ASSUME Shape, UNCHANGED <<pipe, task, queue, dest>>
  PROVE  Shape'
BY DEF Shape, Calls, InCall, At, Served, Receiving, Draining, Used, PipeStates, Subscribed

\* A call that goes on elsewhere, in its own right, disturbs no other.
LEMMA OneCall ==
  ASSUME TaskType, Calls, NEW t \in Tasks \cup {ES}, NEW r, Goto(t, r), InCall(t)',
         \A u \in (Tasks \cup {ES}) \ {t}, p \in Pipes :
            Draining(u, p) /\ pipe[p].state = "reserved" => pipe'[p].state = "reserved"
  PROVE  Calls'
<1> SUFFICES ASSUME NEW u \in Tasks \cup {ES}, u # t PROVE InCall(u)'
  BY DEF Calls
<1>1. task'[u] = task[u] /\ task[u] \in Call
  BY DEF Goto, TaskType
<1> QED  BY <1>1 DEF Calls, InCall, At, Draining, Call

LEMMA CloseShape ==
  ASSUME TypeOK, Shape, NEW t \in Tasks \cup {ES}, NEW p \in Pipes, NEW a, At(t, "idle"),
         ClosePipe(t, p, a)
  PROVE  Shape'
<1> USE TypeParts DEF Types, Shape
<1>1. /\ pipe'[p].state = "reserved" /\ pipe'[p].last = None
      /\ \A s \in Pipes \ {p} : pipe'[s] = pipe[s]
  BY DEF ClosePipe, PipeType, PipeRecord
<1>2. /\ task'[t].pc = "draining" /\ task'[t].pipe = p
      /\ \A u \in (Tasks \cup {ES}) \ {t} : task'[u] = task[u]
  BY DEF ClosePipe, Goto, TaskType, Idle
<1>3. Calls'
  <2>1. InCall(t)'
    BY <1>1, <1>2, Fresh DEF InCall, At
  <2> QED  BY <1>1, <2>1, OneCall DEF ClosePipe
<1>4. Served'
  <2>1. \A u \in Tasks \cup {ES} : ~Draining(u, p)
    BY DEF Calls, InCall, Draining, ClosePipe, Used
  <2> QED  BY <1>1, <1>2, <2>1 DEF Served, Receiving, Draining, At, Used
<1>5. PipeStates'
  <2>1. \A m \in Msgs, s \in Pipes : dest'[m][s] = IF s = p THEN None ELSE dest[m][s]
    BY DEF ClosePipe, DestType
  <2>2. UNCHANGED queue
    BY DEF ClosePipe
  <2> QED  BY <1>1, <2>1, <2>2 DEF PipeStates, Used, Subscribed
<1> QED  BY <1>3, <1>4, <1>5

LEMMA ShapeStep ==
  ASSUME TypeOK, Shape, Next
  PROVE  Shape'
<1> USE TypeParts DEF Types, Shape
<1>1. ASSUME NEW t \in Tasks, NEW p \in Pipes, CreatePipe(t, p) PROVE Shape'
  <2>1. /\ pipe'[p].state = "used" /\ pipe[p].state = "free"
        /\ \A s \in Pipes \ {p} : pipe'[s] = pipe[s]
        /\ UNCHANGED <<task, queue, dest>> /\ \A u \in Tasks : task[u].pipe # p
    BY <1>1 DEF CreatePipe, PipeType, NoPipe
  <2>2. Calls'
    BY <2>1 DEF Calls, InCall, At, TaskType, Call
  <2>3. Served'
    BY <2>1 DEF Served, Receiving, Draining, At, Used
  <2>4. PipeStates'
    BY <2>1 DEF PipeStates, Used, Subscribed
  <2> QED  BY <2>2, <2>3, <2>4
<1>2. ASSUME NEW t \in Tasks, NEW p \in Pipes, SetPipeOpts(t, p) PROVE Shape'
  <2>1. /\ \A s \in Pipes : /\ pipe'[s].state = pipe[s].state /\ pipe'[s].task = pipe[s].task
                            /\ pipe'[s].last = pipe[s].last
        /\ UNCHANGED <<task, queue, dest>>
    BY <1>2 DEF SetPipeOpts, PipeType, PipeRecord
  <2>2. Calls'
    BY <2>1 DEF Calls, InCall, At, TaskType, Call
  <2>3. Served'
    BY <2>1 DEF Served, Receiving, Draining, At, Used
  <2>4. PipeStates'
    BY <2>1 DEF PipeStates, Used, Subscribed
  <2> QED  BY <2>2, <2>3, <2>4
<1>3. ASSUME NEW t \in Tasks, NEW p \in Pipes, ReceiveBuffer(t, p) PROVE Shape'
  <2>1. /\ \A s \in Pipes : /\ pipe'[s].state = pipe[s].state /\ pipe'[s].task = pipe[s].task
                            /\ pipe'[s].last = IF s = p THEN None ELSE pipe[s].last
        /\ UNCHANGED <<queue, dest>> /\ pipe[p].task = t /\ Used(p)
    BY <1>3 DEF ReceiveBuffer, PipeType, PipeRecord
  <2>2. /\ task'[t].pc = "waiting" /\ task'[t].pipe = p /\ task'[t].buf = None
        /\ \A u \in (Tasks \cup {ES}) \ {t} : task'[u] = task[u]
    BY <1>3 DEF ReceiveBuffer, Goto, TaskType, Idle
  <2>3. Calls'
    <3>1. InCall(t)'
      BY <2>1, <2>2, Fresh DEF InCall, At
    <3> QED  BY <1>3, <2>1, <3>1, OneCall DEF ReceiveBuffer
  <2>4. Served'
    BY <2>1, <2>2 DEF Served, Receiving, Draining, At, Used
  <2>5. PipeStates'
    BY <2>1 DEF PipeStates, Used, Subscribed
  <2> QED  BY <2>3, <2>4, <2>5
<1>4. ASSUME NEW t \in Tasks, NEW p \in Pipes, DeletePipe(t, p) PROVE Shape'
  BY <1>4, CloseShape DEF DeletePipe
<1>5. ASSUME NEW m \in Msgs, NEW p \in Pipes,
             \/ \E t \in Tasks : \/ Unsubscribe(t, m, p)
                                 \/ \E lim \in Limits : Subscribe(t, m, p, lim)
             \/ \E active \in BOOLEAN : SetRoute(m, p, active)
      PROVE  Shape'
  <2>1. Used(p) /\ UNCHANGED <<pipe, task, queue>>
    BY <1>5 DEF Unsubscribe, Subscribe, SetRoute
  <2>2. \A n \in Msgs, s \in Pipes \ {p} : dest'[n][s] = dest[n][s]
    <3>1. CASE \E v : dest' = [dest EXCEPT ![m][p] = v]
      BY <3>1 DEF DestType
    <3>2. CASE \E active \in BOOLEAN : dest' = [dest EXCEPT ![m][p].active = active]
      BY <3>2 DEF DestType
    <3> QED  BY <1>5, <3>1, <3>2 DEF Unsubscribe, Subscribe, SetRoute
  <2> QED  BY <2>1, <2>2 DEF Calls, InCall, At, Served, Receiving, Draining, Used, PipeStates, Subscribed
<1>6. ASSUME NEW t \in Tasks, NEW m \in Msgs, NEW d \in Payloads,
             TransmitMsg(t, m, d) \/ TransmitBuffer(t, m, d)
      PROVE  Shape'
  <2>1. /\ UNCHANGED <<pipe, queue, dest>>
        /\ task'[t].pc = "sending" /\ task'[t].pipe = None /\ task'[t].buf # None
        /\ \A u \in (Tasks \cup {ES}) \ {t} : task'[u] = task[u]
        /\ \E r : Goto(t, r)
    BY <1>6, Fresh DEF TransmitMsg, TransmitBuffer, Goto, TaskType, Idle
  <2>2. Calls'
    <3>1. InCall(t)'
      BY <2>1 DEF InCall, At
    <3> QED  BY <2>1, <3>1, OneCall
  <2>3. Served'
    BY <2>1 DEF Served, Receiving, Draining, At, Used
  <2> QED  BY <2>1, <2>2, <2>3 DEF PipeStates, Used, Subscribed
<1>7. ASSUME NEW t \in Tasks, AllocateMessageBuffer(t) \/ ReleaseMessageBuffer(t) PROVE Shape'
  BY <1>7, SameShape DEF AllocateMessageBuffer, ReleaseMessageBuffer
<1>8. ASSUME NEW t \in Tasks, BroadcastBufferToRoute(t) PROVE Shape'
  <2>1. PICK to \in SUBSET {p \in Pipes : Used(p)} :
           /\ queue' = [p \in Pipes |-> IF p \in to THEN Append(queue[p], task[t].buf) ELSE queue[p]]
           /\ pipe' = [p \in Pipes |-> IF p \in to THEN [pipe[p] EXCEPT !.depth = @ + 1] ELSE pipe[p]]
           /\ \A m \in Msgs, p \in Pipes \ to : dest'[m][p] = dest[m][p]
    <3> DEFINE b == task[t].buf
               m == content[b].id
               to == IF task[t].routed THEN Targets(t, m) ELSE {}
    <3>1. to \in SUBSET {p \in Pipes : Used(p)}
      BY DEF Targets
    <3>2. /\ queue' = [p \in Pipes |-> IF p \in to THEN Append(queue[p], b) ELSE queue[p]]
          /\ pipe' = [p \in Pipes |-> IF p \in to THEN [pipe[p] EXCEPT !.depth = @ + 1] ELSE pipe[p]]
      BY <1>8 DEF BroadcastBufferToRoute
    <3>3. dest' = [dest EXCEPT ![m] = [p \in Pipes |-> IF p \in to THEN [dest[m][p] EXCEPT !.count = @ + 1]
                                                       ELSE dest[m][p]]]
      BY <1>8 DEF BroadcastBufferToRoute
    <3> HIDE DEF b, m, to
    <3>4. \A n \in Msgs, p \in Pipes \ to : dest'[n][p] = dest[n][p]
      BY <3>3 DEF DestType
    <3> QED  BY <3>1, <3>2, <3>4 DEF b
  <2>2. \A s \in Pipes : /\ pipe'[s].state = pipe[s].state /\ pipe'[s].task = pipe[s].task
                         /\ pipe'[s].last = pipe[s].last
    BY <2>1 DEF PipeType, PipeRecord
  <2>3. /\ Goto(t, Idle) /\ task'[t] = Idle
        /\ \A u \in (Tasks \cup {ES}) \ {t} : task'[u] = task[u]
    BY <1>8 DEF BroadcastBufferToRoute, Goto, TaskType
  <2>4. Calls'
    <3>1. InCall(t)'
      BY <2>3 DEF InCall, At, Idle
    <3> QED  BY <2>2, <2>3, <3>1, OneCall
  <2>5. Served'
    BY <2>2, <2>3 DEF Served, Receiving, Draining, At, Used, Idle
  <2>6. PipeStates'
    BY <2>1, <2>2 DEF PipeStates, Used, Subscribed
  <2> QED  BY <2>4, <2>5, <2>6
<1>9. ASSUME NEW t \in Tasks, QueueGet(t) PROVE Shape'
  <2> DEFINE p == task[t].pipe
  <2>1. /\ UNCHANGED <<pipe, dest>> /\ queue[p] # <<>> /\ p \in Pipes /\ At(t, "waiting") /\ p # None
        /\ \A s \in Pipes \ {p} : queue'[s] = queue[s]
    BY <1>9 DEF QueueGet, Calls, InCall, TaskType, Call, QueueType
  <2>2. /\ task'[t].pc = "gotten" /\ task'[t].pipe = p /\ task'[t].buf # None
        /\ \A u \in (Tasks \cup {ES}) \ {t} : task'[u] = task[u]
        /\ \E r : Goto(t, r)
    <3>1. Head(queue[p]) # None
      BY <2>1, TakeType, Fresh
    <3> QED  BY <1>9, <3>1 DEF QueueGet, Goto, TaskType, Call
  <2> HIDE DEF p
  <2>3. Calls'
    <3>1. InCall(t)'
      BY <2>1, <2>2 DEF InCall, At
    <3> QED  BY <2>1, <2>2, <3>1, OneCall
  <2>4. Served'
    BY <2>1, <2>2 DEF Served, Receiving, Draining, At, Used, p
  <2>5. PipeStates'
    BY <2>1 DEF PipeStates, Used, Subscribed
  <2> QED  BY <2>3, <2>4, <2>5
<1>10. ASSUME NEW t \in Tasks, ReceiveNothing(t) PROVE Shape'
  <2>1. /\ Goto(t, Idle) /\ task'[t] = Idle /\ UNCHANGED <<pipe, queue, dest>>
        /\ \A u \in (Tasks \cup {ES}) \ {t} : task'[u] = task[u]
    BY <1>10 DEF ReceiveNothing, Goto, TaskType
  <2>2. Calls'
    <3>1. InCall(t)'
      BY <2>1 DEF InCall, At, Idle
    <3> QED  BY <2>1, <3>1, OneCall
  <2>3. Served'
    BY <2>1 DEF Served, Receiving, Draining, At, Used, Idle
  <2> QED  BY <2>1, <2>2, <2>3 DEF PipeStates, Used, Subscribed
<1>11. ASSUME NEW t \in Tasks, ReceiveDone(t) PROVE Shape'
  <2> DEFINE p == task[t].pipe
  <2>1. /\ Goto(t, Idle) /\ task'[t] = Idle /\ UNCHANGED queue /\ p \in Pipes /\ Receiving(t, p)
        /\ \A u \in (Tasks \cup {ES}) \ {t} : task'[u] = task[u]
    BY <1>11 DEF ReceiveDone, Goto, Calls, InCall, TaskType, Call, Receiving, At
  <2>2. \A s \in Pipes : /\ pipe'[s].state = pipe[s].state /\ pipe'[s].task = pipe[s].task
                         /\ (pipe'[s].last = pipe[s].last \/ (s = p /\ Used(p)))
    <3>1. CASE Used(p)
      <4> DEFINE d == DepthAfter(p, content[task[t].buf].id)
      <4>1. pipe' = [pipe EXCEPT ![p] = [pipe[p] EXCEPT !.last = task[t].buf, !.depth = d]]
        BY <1>11, <2>1, <3>1 DEF ReceiveDone, PipeType
      <4> HIDE DEF d
      <4> HIDE DEF p
      <4> QED  BY <2>1, <3>1, <4>1 DEF PipeType, PipeRecord
    <3>2. CASE ~Used(p)
      BY <1>11, <3>2 DEF ReceiveDone
    <3> QED  BY <3>1, <3>2
  <2>3. \A m \in Msgs, s \in Pipes : ~Used(s) => dest'[m][s] = dest[m][s]
    <3>1. CASE Used(p)
      <4>1. \A m \in Msgs, s \in Pipes \ {p} : dest'[m][s] = dest[m][s]
        <5> DEFINE k == content[task[t].buf].id
        <5>1. dest' = dest \/ dest' = [dest EXCEPT ![k][p] = [dest[k][p] EXCEPT !.count = Less(@)]]
          BY <1>11, <3>1 DEF ReceiveDone
        <5> HIDE DEF k, p
        <5> QED  BY <2>1, <5>1 DEF DestType
      <4> QED  BY <3>1, <4>1
    <3>2. CASE ~Used(p)
      BY <1>11, <3>2 DEF ReceiveDone
    <3> QED  BY <3>1, <3>2
  <2> HIDE DEF p
  <2>4. Calls'
    <3>1. InCall(t)'
      BY <2>1 DEF InCall, At, Idle
    <3> QED  BY <2>1, <2>2, <3>1, OneCall
  <2>5. Served'
    BY <2>1, <2>2 DEF Served, Receiving, Draining, At, Used, Idle
  <2>6. PipeStates'
    BY <2>1, <2>2, <2>3 DEF PipeStates, Used, Subscribed
  <2> QED  BY <2>4, <2>5, <2>6
<1>12. ASSUME NEW t \in Tasks \cup {ES}, DrainPrevious(t) PROVE Shape'
  <2>1. /\ UNCHANGED <<pipe, queue, dest>> /\ At(t, "draining")
        /\ task'[t].pc = "draining" /\ task'[t].pipe = task[t].pipe
        /\ \A u \in (Tasks \cup {ES}) \ {t} : task'[u] = task[u]
        /\ \E r : Goto(t, r)
    BY <1>12 DEF DrainPrevious, Goto, TaskType, Call, At
  <2>2. Calls'
    <3>1. InCall(t)'
      BY <2>1 DEF InCall, At, Calls
    <3> QED  BY <2>1, <3>1, OneCall
  <2>3. Served'
    BY <2>1 DEF Served, Receiving, Draining, At, Used
  <2> QED  BY <2>1, <2>2, <2>3 DEF PipeStates, Used, Subscribed
<1>13. ASSUME NEW t \in Tasks \cup {ES}, DrainNext(t) PROVE Shape'
  <2> DEFINE p == task[t].pipe
  <2>1. /\ UNCHANGED dest /\ At(t, "draining") /\ p \in Pipes /\ p # None /\ pipe[p].state = "reserved"
        /\ Draining(t, p)
    BY <1>13 DEF DrainNext, Calls, InCall, TaskType, Call, Draining
  <2>2. CASE queue[p] # <<>>
    <3>1. /\ task'[t].pc = "draining" /\ task'[t].pipe = p /\ UNCHANGED pipe
          /\ \A u \in (Tasks \cup {ES}) \ {t} : task'[u] = task[u]
          /\ \E r : Goto(t, r)
      BY <1>13, <2>1, <2>2 DEF DrainNext, Goto, TaskType, Call, At
    <3>2. \A s \in Pipes \ {p} : queue'[s] = queue[s]
      BY <1>13, <2>1, <2>2 DEF DrainNext, QueueType
    <3> HIDE DEF p
    <3>3. Calls'
      <4>1. InCall(t)'
        BY <2>1, <3>1 DEF InCall, At
      <4> QED  BY <3>1, <4>1, OneCall
    <3>4. Served'
      BY <2>1, <3>1 DEF Served, Receiving, Draining, At, Used
    <3>5. PipeStates'
      BY <2>1, <3>1, <3>2 DEF PipeStates, Used, Subscribed
    <3> QED  BY <3>3, <3>4, <3>5
  <2>3. CASE queue[p] = <<>>
    <3>1. /\ Goto(t, Idle) /\ task'[t] = Idle /\ UNCHANGED queue
          /\ \A u \in (Tasks \cup {ES}) \ {t} : task'[u] = task[u]
          /\ pipe'[p] = NoPipe /\ \A s \in Pipes \ {p} : pipe'[s] = pipe[s]
      BY <1>13, <2>1, <2>3 DEF DrainNext, Goto, TaskType, PipeType
    <3> HIDE DEF p
    <3>2. Calls'
      <4>1. InCall(t)'
        BY <3>1 DEF InCall, At, Idle
      <4>2. \A u \in (Tasks \cup {ES}) \ {t} : ~Draining(u, p)
        BY <2>1 DEF Served
      <4> QED  BY <3>1, <4>1, <4>2, OneCall
    <3>3. Served'
      BY <2>1, <3>1 DEF Served, Receiving, Draining, At, Used, Idle, NoPipe
    <3>4. PipeStates'
      BY <2>1, <2>3, <3>1 DEF PipeStates, Used, Subscribed, NoPipe
    <3> QED  BY <3>2, <3>3, <3>4
  <2> QED  BY <2>2, <2>3
<1>14. ASSUME NEW a \in External, CleanUpApp(a) PROVE Shape'
  BY <1>14, SameShape DEF CleanUpApp
<1>15. ASSUME CleanUpPipe PROVE Shape'
  <2>1. PICK p \in cleaning.todo : ClosePipe(ES, p, cleaning.app)
    BY <1>15 DEF CleanUpPipe
  <2>2. p \in Pipes
    BY <2>1 DEF OtherTypes
  <2> QED  BY <1>15, <2>1, <2>2, CloseShape DEF CleanUpPipe
<1>16. ASSUME ZeroCopyReleaseAppId PROVE Shape'
  <2>1. /\ UNCHANGED <<pipe, queue, dest>>
        /\ \A u \in Tasks \cup {ES} : task'[u] = task[u] \/ task'[u] = Idle
    BY <1>16 DEF ZeroCopyReleaseAppId, TaskType
  <2>2. Calls'
    BY <2>1 DEF Calls, InCall, At, Idle
  <2>3. Served'
    BY <2>1 DEF Served, Receiving, Draining, At, Used, Idle
  <2>4. PipeStates'
    BY <2>1 DEF PipeStates, Used, Subscribed
  <2> QED  BY <2>2, <2>3, <2>4
<1> HIDE DEF Shape, Types
<1>17. CASE \E t \in Tasks :
              \/ \E p \in Pipes : CreatePipe(t, p) \/ SetPipeOpts(t, p) \/ ReceiveBuffer(t, p)
                                  \/ DeletePipe(t, p)
              \/ \E m \in Msgs, p \in Pipes : Unsubscribe(t, m, p)
                                              \/ \E lim \in Limits : Subscribe(t, m, p, lim)
              \/ \E m \in Msgs, d \in Payloads : TransmitMsg(t, m, d) \/ TransmitBuffer(t, m, d)
  BY <1>1, <1>2, <1>3, <1>4, <1>5, <1>6, <1>17
<1>18. CASE \E m \in Msgs, p \in Pipes, active \in BOOLEAN : SetRoute(m, p, active)
  BY <1>5, <1>18
<1> QED  BY <1>7, <1>8, <1>9, <1>10, <1>11, <1>12, <1>13, <1>14, <1>15, <1>16, <1>17, <1>18 DEF Next

TInv == TypeOK /\ Shape

LEMMA InitTInv == Init => TInv
<1> SUFFICES ASSUME Init PROVE TInv
  OBVIOUS
<1>1. Types
  <2>1. PipeType /\ QueueType /\ DestType /\ UseType
    BY Fresh, SbAssumption DEF Init, PipeType, QueueType, DestType, UseType
  <2>2. ContentType /\ ZbufType /\ TaskType
    BY Fresh DEF Init, ContentType, Content, ZbufType, TaskType
  <2>3. OtherTypes
    BY DEF Init, OtherTypes, NoCleaning
  <2> QED  BY <2>1, <2>2, <2>3 DEF Types
<1>2. \A t \in Tasks \cup {ES} : task[t].pc = "idle" /\ task[t].pipe = None /\ task[t].buf = None
  BY DEF Init, Idle
<1>3. Calls /\ Served
  BY <1>2 DEF Calls, InCall, Served, Receiving, Draining, At
<1>4. PipeStates
  BY DEF Init, PipeStates, Subscribed, NoPipe, Used
<1> QED  BY <1>1, <1>3, <1>4, TypeParts DEF TInv, Shape

LEMMA StepTInv == TInv /\ [Next]_vars => TInv'
<1>1. ASSUME TInv, Next PROVE TInv'
  BY <1>1, TypeStep, ShapeStep DEF TInv, Shape
<1>2. ASSUME TInv, UNCHANGED vars PROVE TInv'
  <2>1. TypeOK'
    BY <1>2 DEF TInv, TypeOK, vars
  <2>2. Shape'
    BY <1>2, SameShape DEF TInv, vars
  <2> QED  BY <2>1, <2>2 DEF TInv
<1> QED  BY <1>1, <1>2

LEMMA AlwaysTInv == Spec => []TInv
BY InitTInv, StepTInv, PTL DEF Spec

\* Every variable stays in its type, whatever tasks, pipes and messages there
\* are: the counters CFE_SB_ReceiveBuffer and the release of buffers decrement
\* do not go below zero, and no queue holds more than its depth.
THEOREM SbTypeOK == Spec => []TypeOK
BY AlwaysTInv, PTL DEF TInv

----------------------------------------------------------------------------
(* Reference counts.                                                       *)

\* The pipes whose receiver has buffer b, the tasks that fill it, and those
\* that have it in a call.
Lasts(b) == {p \in Pipes : pipe[p].last = b}
Fills(b) == {t \in Tasks : zbuf[t] = b}
Hands(b) == {t \in DOMAIN task : task[t].buf = b}
One(yes) == IF yes THEN 1 ELSE 0

LEMMA Counts ==
  ASSUME TypeOK, NEW b
  PROVE  /\ References(b) = Cardinality(Places(queue, b)) + Cardinality(Lasts(b))
                            + Cardinality(Fills(b)) + Cardinality(Hands(b))
         /\ Cardinality(Places(queue, b)) \in Nat /\ Cardinality(Lasts(b)) \in Nat
         /\ Cardinality(Fills(b)) \in Nat /\ Cardinality(Hands(b)) \in Nat
         /\ IsFiniteSet(Lasts(b)) /\ IsFiniteSet(Fills(b)) /\ IsFiniteSet(Hands(b))
<1>1. IsFiniteSet(Tasks \cup {ES})
  BY SbAssumption, FS_AddElement
<1>2. Lasts(b) \subseteq Pipes /\ Fills(b) \subseteq Tasks /\ Hands(b) \subseteq Tasks \cup {ES}
  BY TypeParts DEF Types, TaskType, Lasts, Fills, Hands
<1>3. IsFiniteSet(Lasts(b)) /\ IsFiniteSet(Fills(b)) /\ IsFiniteSet(Hands(b))
  BY <1>1, <1>2, SbAssumption, FS_Subset
<1> QED  BY <1>3, PlacesFinite, FS_CardinalityType DEF References, Lasts, Fills, Hands

LEMMA LastsChange ==
  ASSUME TypeOK, NEW p \in Pipes, \A s \in Pipes \ {p} : pipe'[s].last = pipe[s].last, NEW b
  PROVE  Cardinality(Lasts(b)') = Cardinality(Lasts(b)) - One(pipe[p].last = b) + One(pipe'[p].last = b)
<1>1. \A s : s # p => (s \in Lasts(b) <=> s \in Lasts(b)')
  BY DEF Lasts
<1>2. /\ p \in Lasts(b) <=> pipe[p].last = b
      /\ p \in Lasts(b)' <=> pipe'[p].last = b
  BY DEF Lasts
<1>3. IsFiniteSet(Lasts(b))
  BY Counts
<1> HIDE DEF Lasts
<1>4. Cardinality(Lasts(b)') = Cardinality(Lasts(b)) - One(p \in Lasts(b)) + One(p \in Lasts(b)')
  BY <1>1, <1>3, CountDiff DEF One
<1> QED  BY <1>2, <1>4

LEMMA FillsChange ==
  ASSUME TypeOK, NEW t \in Tasks, \A u \in Tasks \ {t} : zbuf'[u] = zbuf[u], NEW b
  PROVE  Cardinality(Fills(b)') = Cardinality(Fills(b)) - One(zbuf[t] = b) + One(zbuf'[t] = b)
<1>1. \A s : s # t => (s \in Fills(b) <=> s \in Fills(b)')
  BY DEF Fills
<1>2. /\ t \in Fills(b) <=> zbuf[t] = b
      /\ t \in Fills(b)' <=> zbuf'[t] = b
  BY DEF Fills
<1>3. IsFiniteSet(Fills(b))
  BY Counts
<1> HIDE DEF Fills
<1>4. Cardinality(Fills(b)') = Cardinality(Fills(b)) - One(t \in Fills(b)) + One(t \in Fills(b)')
  BY <1>1, <1>3, CountDiff DEF One
<1> QED  BY <1>2, <1>4

LEMMA HandsChange ==
  ASSUME TypeOK, NEW t \in Tasks \cup {ES}, NEW r, Goto(t, r), NEW b
  PROVE  Cardinality(Hands(b)') = Cardinality(Hands(b)) - One(task[t].buf = b) + One(r.buf = b)
<1>1. DOMAIN task = Tasks \cup {ES} /\ task' = [task EXCEPT ![t] = r]
  BY TypeParts DEF Types, TaskType, Goto
<1>2. \A s : s # t => (s \in Hands(b) <=> s \in Hands(b)')
  BY <1>1 DEF Hands
<1>3. /\ t \in Hands(b) <=> task[t].buf = b
      /\ t \in Hands(b)' <=> r.buf = b
  BY <1>1 DEF Hands
<1>4. IsFiniteSet(Hands(b))
  BY Counts
<1> HIDE DEF Hands
<1>5. Cardinality(Hands(b)') = Cardinality(Hands(b)) - One(t \in Hands(b)) + One(t \in Hands(b)')
  BY <1>2, <1>4, CountDiff DEF One
<1> QED  BY <1>3, <1>5

LEMMA AtLeast ==
  ASSUME NEW A, IsFiniteSet(A), NEW x \in A
  PROVE  /\ Cardinality(A) \in Nat /\ Cardinality(A) >= 1
         /\ \A y \in A : y # x => Cardinality(A) >= 2
<1>1. /\ Cardinality(A) \in Nat /\ IsFiniteSet(A \ {x})
      /\ Cardinality(A \ {x}) \in Nat /\ Cardinality(A \ {x}) = Cardinality(A) - 1
  BY FS_CardinalityType, FS_RemoveElement
<1>2. \A y \in A : y # x => Cardinality(A \ {x}) # 0
  BY <1>1, FS_EmptySet
<1> QED  BY <1>1, <1>2

\* A buffer whose count is zero is nowhere; one whose count is one is only with
\* the task that fills it, or only with the one that has it in a call.
LEMMA Unused ==
  ASSUME TypeOK, RefCounted, NEW b \in Buffers, use[b] = 0
  PROVE  /\ \A p \in Pipes : pipe[p].last # b /\ \A i \in 1..Len(queue[p]) : queue[p][i] # b
         /\ \A t \in Tasks : zbuf[t] # b
         /\ \A t \in Tasks \cup {ES} : task[t].buf # b
<1>1. /\ Cardinality(Places(queue, b)) = 0 /\ Cardinality(Lasts(b)) = 0
      /\ Cardinality(Fills(b)) = 0 /\ Cardinality(Hands(b)) = 0
  <2>1. References(b) = 0
    BY DEF RefCounted
  <2> QED  BY <2>1, Counts
<1>2. Lasts(b) = {} /\ Fills(b) = {} /\ Hands(b) = {}
  BY <1>1, Counts, FS_EmptySet
<1>3. queue \in Queues
  BY TypeParts, SbAssumption DEF Types, QueueType, Queues
<1>4. DOMAIN task = Tasks \cup {ES}
  BY TypeParts DEF Types, TaskType
<1> QED  BY <1>1, <1>2, <1>3, <1>4, NoPlace DEF Lasts, Fills, Hands

LEMMA AloneInFill ==
  ASSUME TypeOK, RefCounted, NEW t \in Tasks, zbuf[t] \in Buffers, use[zbuf[t]] = 1
  PROVE  /\ \A p \in Pipes : pipe[p].last # zbuf[t] /\ \A i \in 1..Len(queue[p]) : queue[p][i] # zbuf[t]
         /\ \A u \in Tasks \ {t} : zbuf[u] # zbuf[t]
         /\ \A u \in Tasks \cup {ES} : task[u].buf # zbuf[t]
<1> DEFINE b == zbuf[t]
<1>1. t \in Fills(b) /\ use[b] = References(b)
  BY DEF Fills, RefCounted
<1>2. /\ Cardinality(Places(queue, b)) = 0 /\ Cardinality(Lasts(b)) = 0
      /\ Cardinality(Fills(b)) = 1 /\ Cardinality(Hands(b)) = 0
  <2> HIDE DEF b
  <2> QED  BY <1>1, Counts, AtLeast DEF b
<1>3. Lasts(b) = {} /\ Hands(b) = {} /\ \A u \in Fills(b) : u = t
  <2> HIDE DEF b
  <2> QED  BY <1>1, <1>2, Counts, AtLeast, FS_EmptySet
<1>4. queue \in Queues
  BY TypeParts, SbAssumption DEF Types, QueueType, Queues
<1>5. DOMAIN task = Tasks \cup {ES}
  BY TypeParts DEF Types, TaskType
<1> QED  BY <1>2, <1>3, <1>4, <1>5, NoPlace DEF Lasts, Fills, Hands

LEMMA AloneInCall ==
  ASSUME TypeOK, RefCounted, NEW t \in Tasks, task[t].buf \in Buffers, use[task[t].buf] = 1
  PROVE  /\ \A p \in Pipes : pipe[p].last # task[t].buf
                             /\ \A i \in 1..Len(queue[p]) : queue[p][i] # task[t].buf
         /\ \A u \in Tasks : zbuf[u] # task[t].buf
         /\ \A u \in (Tasks \cup {ES}) \ {t} : task[u].buf # task[t].buf
<1> DEFINE b == task[t].buf
<1>0. DOMAIN task = Tasks \cup {ES}
  BY TypeParts DEF Types, TaskType
<1>1. t \in Hands(b) /\ use[b] = References(b)
  BY <1>0 DEF Hands, RefCounted
<1>2. /\ Cardinality(Places(queue, b)) = 0 /\ Cardinality(Lasts(b)) = 0
      /\ Cardinality(Fills(b)) = 0 /\ Cardinality(Hands(b)) = 1
  <2> HIDE DEF b
  <2> QED  BY <1>1, Counts, AtLeast DEF b
<1>3. Lasts(b) = {} /\ Fills(b) = {} /\ \A u \in Hands(b) : u = t
  <2> HIDE DEF b
  <2> QED  BY <1>1, <1>2, Counts, AtLeast, FS_EmptySet
<1>4. queue \in Queues
  BY TypeParts, SbAssumption DEF Types, QueueType, Queues
<1> QED  BY <1>0, <1>2, <1>3, <1>4, NoPlace DEF Lasts, Fills, Hands

\* A buffer being filled or sent has no other user, and a buffer with the ID of
\* an application has a task of that application that fills or sends it.
Sole ==
  \A t \in Tasks :
    /\ zbuf[t] # None => use[zbuf[t]] = 1 /\ content[zbuf[t]].app = AppOf[t]
    /\ At(t, "sending") => use[task[t].buf] = 1
Holds(t, b) == zbuf[t] = b \/ (At(t, "sending") /\ task[t].buf = b)
Holders ==
  \A b \in Buffers : content[b].app # None /\ use[b] > 0 =>
     \E t \in Tasks : AppOf[t] = content[b].app /\ Holds(t, b)

Refs == RefCounted /\ Sole /\ Holders

\* The count of a buffer, and its users before and after a step.
LEMMA Balance ==
  ASSUME TypeOK, RefCounted, NEW b \in Buffers
  PROVE  /\ use[b] = Cardinality(Places(queue, b)) + Cardinality(Lasts(b))
                     + Cardinality(Fills(b)) + Cardinality(Hands(b))
         /\ References(b)' = Cardinality(Places(queue', b)) + Cardinality(Lasts(b)')
                             + Cardinality(Fills(b)') + Cardinality(Hands(b)')
         /\ Cardinality(Places(queue, b)) \in Nat /\ Cardinality(Lasts(b)) \in Nat
         /\ Cardinality(Fills(b)) \in Nat /\ Cardinality(Hands(b)) \in Nat
<1>1. use[b] = References(b)
  BY DEF RefCounted
<1>2. References(b)' = Cardinality(Places(queue', b)) + Cardinality(Lasts(b)')
                       + Cardinality(Fills(b)') + Cardinality(Hands(b)')
  BY DEF References, Lasts, Fills, Hands
<1> QED  BY <1>1, <1>2, Counts

\* What the users of a buffer depend on.
LEMMA SameUsers ==
  ASSUME NEW b
  PROVE  /\ (\A p \in Pipes : pipe'[p].last = pipe[p].last) => Lasts(b)' = Lasts(b)
         /\ zbuf' = zbuf => Fills(b)' = Fills(b)
         /\ task' = task => Hands(b)' = Hands(b)
BY DEF Lasts, Fills, Hands

LEMMA SameRefs ==
  ASSUME TypeOK, TypeOK', RefCounted, Sole, Holders, UNCHANGED <<queue, use, content, zbuf>>,
         \A p \in Pipes : pipe'[p].last = pipe[p].last,
         \A t \in Tasks \cup {ES} : task'[t].buf = task[t].buf,
         \A t \in Tasks : At(t, "sending")' <=> At(t, "sending")
  PROVE  (RefCounted /\ Sole /\ Holders)'
<1>1. DOMAIN task = Tasks \cup {ES} /\ DOMAIN task' = Tasks \cup {ES}
  BY TypeParts DEF Types, TaskType
<1>2. \A b : Lasts(b)' = Lasts(b) /\ Fills(b)' = Fills(b) /\ Hands(b)' = Hands(b)
  BY <1>1 DEF Lasts, Fills, Hands
<1>3. RefCounted'
  BY <1>2 DEF RefCounted, References, Lasts, Fills, Hands
<1>4. Sole' /\ Holders'
  BY DEF Sole, Holders, Holds
<1> QED  BY <1>3, <1>4

\* A reader that gives back what it has takes no buffer from a sender.
LEMMA NotTheirs ==
  ASSUME TypeOK, RefCounted, Sole, NEW b \in Buffers,
         \/ \E p \in Pipes : pipe[p].last = b
         \/ \E t \in Tasks \cup {ES} : task[t].buf = b /\ ~At(t, "sending")
  PROVE  /\ use[b] > 0 /\ \A t \in Tasks : ~Holds(t, b)
<1> USE TypeParts DEF Types
<1>1. use[b] \in Nat /\ use[b] # 0
  BY Unused DEF UseType
<1>2. ASSUME NEW t \in Tasks, Holds(t, b) PROVE FALSE
  <2>1. CASE zbuf[t] = b
    <3>1. use[b] = 1 /\ b # None
      BY <2>1, Fresh DEF Sole
    <3> QED  BY <2>1, <3>1, AloneInFill
  <2>2. CASE At(t, "sending") /\ task[t].buf = b
    <3>1. use[b] = 1
      BY <2>2 DEF Sole
    <3>2. \A u \in Tasks \cup {ES} : task[u].buf = b /\ ~At(u, "sending") => u # t
      BY <2>2
    <3> QED  BY <2>2, <3>1, <3>2, AloneInCall
  <2> QED  BY <1>2, <2>1, <2>2 DEF Holds
<1> QED  BY <1>1, <1>2

\* A step that takes one use of a buffer that is not being filled or sent, or
\* none, and leaves fillers and senders alone.
LEMMA OtherUse ==
  ASSUME TypeOK, Calls, Sole, Holders, UNCHANGED <<content, zbuf>>,
         \A t \in Tasks : At(t, "sending")' <=> At(t, "sending"),
         \A t \in Tasks : At(t, "sending") => task'[t].buf = task[t].buf,
         \A b \in Buffers : use'[b] > 0 => use[b] > 0,
         \A b \in Buffers : (\E t \in Tasks : Holds(t, b)) => use'[b] = use[b]
  PROVE  (Sole /\ Holders)'
<1> USE TypeParts DEF Types
<1>1. \A t \in Tasks, b \in Buffers : Holds(t, b)' <=> Holds(t, b)
  BY DEF Holds
<1>2. Holders'
  BY <1>1 DEF Holders
<1>3. ASSUME NEW t \in Tasks, zbuf'[t] # None
      PROVE  use'[zbuf'[t]] = 1 /\ content'[zbuf'[t]].app = AppOf[t]
  <2>1. zbuf[t] \in Buffers
    BY <1>3 DEF ZbufType
  <2> QED  BY <1>3, <2>1 DEF Holds, Sole
<1>4. ASSUME NEW t \in Tasks, At(t, "sending")' PROVE use'[task'[t].buf] = 1
  <2>1. At(t, "sending") /\ task'[t].buf = task[t].buf /\ use[task[t].buf] = 1
    BY <1>4 DEF Sole
  <2>2. task[t].buf \in Buffers
    BY <2>1 DEF Calls, InCall, TaskType, Call
  <2> QED  BY <2>1, <2>2 DEF Holds
<1> QED  BY <1>2, <1>3, <1>4 DEF Sole

LEMMA CloseRefs ==
  ASSUME TInv, TypeOK', Refs, NEW t \in Tasks \cup {ES}, NEW p \in Pipes, NEW a, At(t, "idle"),
         ClosePipe(t, p, a)
  PROVE  Refs'
<1> USE TypeParts DEF Types, TInv, Shape, Refs
<1>1. /\ UNCHANGED <<queue, use, content, zbuf>>
      /\ pipe'[p].last = None /\ \A s \in Pipes \ {p} : pipe'[s].last = pipe[s].last
  BY DEF ClosePipe, PipeType, PipeRecord
<1> DEFINE r == [Idle EXCEPT !.pc = "draining", !.pipe = p, !.buf = pipe[p].last]
<1>2. Goto(t, r) /\ r.buf = pipe[p].last /\ task[t].buf = None
  BY DEF ClosePipe, Idle, Calls, InCall
<1>3. task'[t].pc = "draining" /\ \A u \in (Tasks \cup {ES}) \ {t} : task'[u] = task[u]
  BY DEF ClosePipe, Goto, TaskType, Idle
<1> HIDE DEF r
<1>4. RefCounted'
  <2> SUFFICES ASSUME NEW b \in Buffers PROVE use'[b] = References(b)'
    BY DEF RefCounted
  <2>1. Cardinality(Lasts(b)') = Cardinality(Lasts(b)) - One(pipe[p].last = b) + One(pipe'[p].last = b)
    BY <1>1, LastsChange
  <2>2. Cardinality(Hands(b)') = Cardinality(Hands(b)) - One(task[t].buf = b) + One(r.buf = b)
    BY <1>2, HandsChange
  <2>3. Fills(b)' = Fills(b)
    BY <1>1, SameUsers
  <2> QED  BY <1>1, <1>2, <2>1, <2>2, <2>3, Balance, Fresh DEF One
<1>5. Sole' /\ Holders'
  BY <1>1, <1>3, OtherUse DEF At
<1> QED  BY <1>4, <1>5

\* A task takes a message out of a queue.
LEMMA TakeRefs ==
  ASSUME TInv, TypeOK', Refs, NEW t \in Tasks \cup {ES}, ~At(t, "sending"), NEW p \in Pipes,
         queue[p] # <<>>, task[t].buf = None, NEW r, Goto(t, r), r.buf = Head(queue[p]), r.pc # "sending",
         queue' = [queue EXCEPT ![p] = Tail(@)], UNCHANGED <<pipe, use, content, zbuf>>
  PROVE  Refs'
<1> USE TypeParts DEF Types, TInv, Shape, Refs
<1>1. RefCounted'
  <2> SUFFICES ASSUME NEW b \in Buffers PROVE use'[b] = References(b)'
    BY DEF RefCounted
  <2>1. queue \in Queues
    BY SbAssumption DEF QueueType, Queues
  <2>2. Cardinality(Places(queue, b)) = Cardinality(Places(queue', b)) + One(Head(queue[p]) = b)
    <3>1. queue'[p] = Tail(queue[p]) /\ \A u \in Pipes \ {p} : queue'[u] = queue[u]
      BY DEF QueueType
    <3>2. \A q : /\ q[p] = Tail(queue[p]) /\ \A u \in Pipes \ {p} : q[u] = queue[u]
                 => Cardinality(Places(queue, b)) = Cardinality(Places(q, b)) + One(Head(queue[p]) = b)
      BY <2>1, PlacesTail DEF One
    <3> QED  BY <3>1, <3>2
  <2>3. Cardinality(Hands(b)') = Cardinality(Hands(b)) - One(task[t].buf = b) + One(r.buf = b)
    BY HandsChange
  <2>4. Fills(b)' = Fills(b) /\ Lasts(b)' = Lasts(b)
    BY SameUsers
  <2>5. Cardinality(Places(queue', b)) \in Nat
    BY PlacesFinite
  <2>6. task[t].buf # b /\ use'[b] = use[b] /\ r.buf = Head(queue[p])
    BY Fresh
  <2>7. /\ use[b] = Cardinality(Places(queue, b)) + Cardinality(Lasts(b))
                    + Cardinality(Fills(b)) + Cardinality(Hands(b))
        /\ References(b)' = Cardinality(Places(queue', b)) + Cardinality(Lasts(b)')
                            + Cardinality(Fills(b)') + Cardinality(Hands(b)')
        /\ Cardinality(Lasts(b)) \in Nat /\ Cardinality(Fills(b)) \in Nat /\ Cardinality(Hands(b)) \in Nat
    BY Balance
  <2> HIDE DEF Types, TInv, Shape, Refs
  <2> QED  BY <2>2, <2>3, <2>4, <2>5, <2>6, <2>7 DEF One
<1>2. /\ \A u \in Tasks \ {t} : task'[u] = task[u]
      /\ task'[t] = r
  BY DEF Goto, TaskType
<1>3. Sole' /\ Holders'
  BY <1>2, OtherUse DEF At
<1> QED  BY <1>1, <1>3

\* A task that is not sending gives back the buffer it has, if it has one, or
\* hands it to the receiver of pipe p.
LEMMA GiveBackRefs ==
  ASSUME TInv, TypeOK', Refs, NEW t \in Tasks \cup {ES}, ~At(t, "sending"),
         NEW r, Goto(t, r), r.buf = None, r.pc # "sending", UNCHANGED <<queue, content, zbuf>>,
         \/ use' = Decr(use, task[t].buf) /\ UNCHANGED pipe
         \/ /\ UNCHANGED use
            /\ \E p \in Pipes : /\ pipe[p].last = None /\ pipe'[p].last = task[t].buf
                                /\ \A s \in Pipes \ {p} : pipe'[s].last = pipe[s].last
  PROVE  Refs'
<1> USE TypeParts DEF Types, TInv, Shape, Refs
<1> DEFINE x == task[t].buf
<1>1. /\ \A u \in Tasks \ {t} : task'[u] = task[u]
      /\ task'[t] = r
  BY DEF Goto, TaskType
<1>2. x \in Buffers => use[x] > 0 /\ \A u \in Tasks : ~Holds(u, x)
  BY NotTheirs
<1>3. x \in Buffers \cup {None}
  BY DEF TaskType, Call
<1>4. CASE use' = Decr(use, x) /\ UNCHANGED pipe
  <2> HIDE DEF x
  <2>1. \A b \in Buffers : use'[b] = use[b] - One(x = b) /\ use[b] \in Nat
    BY <1>2, <1>3, <1>4, Fresh DEF Decr, UseType, One
  <2>2. RefCounted'
    <3> SUFFICES ASSUME NEW b \in Buffers PROVE use'[b] = References(b)'
      BY DEF RefCounted
    <3>1. Cardinality(Hands(b)') = Cardinality(Hands(b)) - One(x = b) + One(r.buf = b)
      BY HandsChange DEF x
    <3>2. Fills(b)' = Fills(b) /\ Lasts(b)' = Lasts(b)
      BY <1>4, SameUsers
    <3> QED  BY <2>1, <3>1, <3>2, Balance, Fresh DEF One
  <2>3. Sole' /\ Holders'
    <3>1. \A b \in Buffers : (\E u \in Tasks : Holds(u, b)) => use'[b] = use[b]
      BY <1>2, <2>1 DEF One
    <3>2. \A b \in Buffers : use'[b] > 0 => use[b] > 0
      BY <2>1 DEF One
    <3> QED  BY <1>1, <3>1, <3>2, OtherUse DEF At
  <2> QED  BY <2>2, <2>3
<1>5. CASE /\ UNCHANGED use
           /\ \E p \in Pipes : /\ pipe[p].last = None /\ pipe'[p].last = x
                               /\ \A s \in Pipes \ {p} : pipe'[s].last = pipe[s].last
  <2> HIDE DEF x
  <2>1. PICK p \in Pipes : /\ pipe[p].last = None /\ pipe'[p].last = x
                           /\ \A s \in Pipes \ {p} : pipe'[s].last = pipe[s].last
    BY <1>5
  <2>2. RefCounted'
    <3> SUFFICES ASSUME NEW b \in Buffers PROVE use'[b] = References(b)'
      BY DEF RefCounted
    <3>1. Cardinality(Hands(b)') = Cardinality(Hands(b)) - One(x = b) + One(r.buf = b)
      BY HandsChange DEF x
    <3>2. Cardinality(Lasts(b)') = Cardinality(Lasts(b)) - One(pipe[p].last = b) + One(pipe'[p].last = b)
      BY <2>1, LastsChange
    <3>3. Fills(b)' = Fills(b)
      BY SameUsers
    <3> QED  BY <1>5, <2>1, <3>1, <3>2, <3>3, Balance, Fresh DEF One
  <2>3. Sole' /\ Holders'
    BY <1>1, <1>5, OtherUse DEF At
  <2> QED  BY <2>2, <2>3
<1> QED  BY <1>4, <1>5

\* A task gets a buffer from the pool, to send it or to fill it.
LEMMA PoolRefs ==
  ASSUME TInv, TypeOK', Refs, NEW t \in Tasks, At(t, "idle"), NEW b \in Buffers, NEW v,
         GetBufferFromPool(b, v), UNCHANGED <<pipe, queue>>,
         \/ /\ zbuf[t] = None /\ zbuf' = [zbuf EXCEPT ![t] = b] /\ UNCHANGED task
            /\ v.app = AppOf[t]
         \/ /\ v.app = None /\ UNCHANGED zbuf
            /\ \E r : Goto(t, r) /\ r.buf = b /\ r.pc = "sending"
  PROVE  Refs'
<1> USE TypeParts DEF Types, TInv, Shape, Refs
<1>1. /\ use[b] = 0 /\ use'[b] = 1 /\ \A c \in Buffers \ {b} : use'[c] = use[c]
      /\ content'[b] = v /\ \A c \in Buffers \ {b} : content'[c] = content[c]
  BY DEF GetBufferFromPool, UseType, ContentType
<1>2. /\ \A u \in Tasks : zbuf[u] # b
      /\ \A u \in Tasks \cup {ES} : task[u].buf # b
  BY <1>1, Unused
<1>3. CASE /\ zbuf[t] = None /\ zbuf' = [zbuf EXCEPT ![t] = b] /\ UNCHANGED task
           /\ v.app = AppOf[t]
  <2>1. zbuf'[t] = b /\ \A u \in Tasks \ {t} : zbuf'[u] = zbuf[u]
    BY <1>3 DEF ZbufType
  <2>2. RefCounted'
    <3> SUFFICES ASSUME NEW c \in Buffers PROVE use'[c] = References(c)'
      BY DEF RefCounted
    <3>1. Cardinality(Fills(c)') = Cardinality(Fills(c)) - One(zbuf[t] = c) + One(zbuf'[t] = c)
      BY <2>1, FillsChange
    <3>2. Hands(c)' = Hands(c) /\ Lasts(c)' = Lasts(c)
      BY <1>3, SameUsers
    <3>3. zbuf[t] # c
      BY <1>3, Fresh
    <3>4. use'[c] = use[c] + One(zbuf'[t] = c)
      BY <1>1, <2>1 DEF One, UseType
    <3> QED  BY <3>1, <3>2, <3>3, <3>4, Balance DEF One
  <2>3. Sole'
    <3> SUFFICES ASSUME NEW u \in Tasks
                 PROVE  /\ zbuf'[u] # None => use'[zbuf'[u]] = 1 /\ content'[zbuf'[u]].app = AppOf[u]
                        /\ At(u, "sending")' => use'[task'[u].buf] = 1
      BY DEF Sole
    <3>1. CASE u = t
      BY <1>1, <1>3, <2>1, <3>1 DEF At
    <3>2. CASE u # t
      <4>1. zbuf'[u] = zbuf[u] /\ zbuf[u] \in Buffers \cup {None} /\ zbuf[u] # b
        BY <1>2, <2>1, <3>2 DEF ZbufType
      <4>2. At(u, "sending") => task[u].buf \in Buffers /\ task[u].buf # b
        BY <1>2 DEF Calls, InCall, TaskType, Call
      <4> QED  BY <1>1, <1>3, <4>1, <4>2 DEF Sole, At
    <3> QED  BY <3>1, <3>2
  <2>4. Holders'
    <3> SUFFICES ASSUME NEW c \in Buffers, content'[c].app # None, use'[c] > 0
                 PROVE  \E u \in Tasks : AppOf[u] = content'[c].app /\ Holds(u, c)'
      BY DEF Holders
    <3>1. CASE c = b
      BY <1>1, <1>3, <2>1, <3>1 DEF Holds
    <3>2. CASE c # b
      <4>1. PICK u \in Tasks : AppOf[u] = content[c].app /\ Holds(u, c)
        BY <1>1, <3>2 DEF Holders
      <4>2. zbuf[u] = c => u # t
        BY <1>3, Fresh
      <4> QED  BY <1>1, <1>3, <2>1, <3>2, <4>1, <4>2 DEF Holds, At
    <3> QED  BY <3>1, <3>2
  <2> QED  BY <2>2, <2>3, <2>4
<1>4. CASE /\ v.app = None /\ UNCHANGED zbuf
           /\ \E r : Goto(t, r) /\ r.buf = b /\ r.pc = "sending"
  <2>1. PICK r : Goto(t, r) /\ r.buf = b /\ r.pc = "sending"
    BY <1>4
  <2>2. task'[t] = r /\ \A u \in (Tasks \cup {ES}) \ {t} : task'[u] = task[u]
    BY <2>1 DEF Goto, TaskType
  <2>3. RefCounted'
    <3> SUFFICES ASSUME NEW c \in Buffers PROVE use'[c] = References(c)'
      BY DEF RefCounted
    <3>1. Cardinality(Hands(c)') = Cardinality(Hands(c)) - One(task[t].buf = c) + One(r.buf = c)
      BY <2>1, HandsChange
    <3>2. Fills(c)' = Fills(c) /\ Lasts(c)' = Lasts(c)
      BY <1>4, SameUsers
    <3>3. task[t].buf # c
      BY Fresh DEF Calls, InCall
    <3>4. use'[c] = use[c] + One(r.buf = c)
      BY <1>1, <2>1 DEF One, UseType
    <3> QED  BY <3>1, <3>2, <3>3, <3>4, Balance DEF One
  <2>4. Sole'
    <3> SUFFICES ASSUME NEW u \in Tasks
                 PROVE  /\ zbuf'[u] # None => use'[zbuf'[u]] = 1 /\ content'[zbuf'[u]].app = AppOf[u]
                        /\ At(u, "sending")' => use'[task'[u].buf] = 1
      BY DEF Sole
    <3>1. zbuf'[u] = zbuf[u] /\ zbuf[u] \in Buffers \cup {None} /\ zbuf[u] # b
      BY <1>2, <1>4 DEF ZbufType
    <3>2. zbuf'[u] # None => use'[zbuf'[u]] = 1 /\ content'[zbuf'[u]].app = AppOf[u]
      BY <1>1, <3>1 DEF Sole
    <3>3. At(u, "sending")' => use'[task'[u].buf] = 1
      <4>1. CASE u = t
        BY <1>1, <2>1, <2>2, <4>1
      <4>2. CASE u # t
        <5>1. At(u, "sending") => task[u].buf \in Buffers /\ task[u].buf # b
          BY <1>2 DEF Calls, InCall, TaskType, Call
        <5> QED  BY <1>1, <2>2, <4>2, <5>1 DEF Sole, At
      <4> QED  BY <4>1, <4>2
    <3> QED  BY <3>2, <3>3
  <2>5. Holders'
    <3> SUFFICES ASSUME NEW c \in Buffers, content'[c].app # None, use'[c] > 0
                 PROVE  \E u \in Tasks : AppOf[u] = content'[c].app /\ Holds(u, c)'
      BY DEF Holders
    <3>1. c # b
      BY <1>1, <1>4
    <3>2. PICK u \in Tasks : AppOf[u] = content[c].app /\ Holds(u, c)
      BY <1>1, <3>1 DEF Holders
    <3>3. At(u, "sending") => u # t
      BY DEF At
    <3> QED  BY <1>1, <1>4, <2>2, <3>1, <3>2, <3>3 DEF Holds, At
  <2> QED  BY <2>3, <2>4, <2>5
<1> QED  BY <1>3, <1>4

\* A task that fills a buffer sends it or releases it.
LEMMA FillEnds ==
  ASSUME TInv, TypeOK', Refs, NEW t \in Tasks, At(t, "idle"), zbuf[t] # None,
         zbuf' = [zbuf EXCEPT ![t] = None], UNCHANGED <<pipe, queue>>,
         \A c \in Buffers \ {zbuf[t]} : content'[c] = content[c],
         \/ /\ content'[zbuf[t]].app = content[zbuf[t]].app /\ UNCHANGED use
            /\ \E r : Goto(t, r) /\ r.buf = zbuf[t] /\ r.pc = "sending"
         \/ content'[zbuf[t]].app = None /\ use' = Decr(use, zbuf[t]) /\ UNCHANGED task
  PROVE  Refs'
<1> USE TypeParts DEF Types, TInv, Shape, Refs
<1> DEFINE b == zbuf[t]
<1>1. /\ b \in Buffers /\ use[b] = 1 /\ task[t].buf = None
      /\ zbuf'[t] = None /\ \A u \in Tasks \ {t} : zbuf'[u] = zbuf[u]
  BY DEF ZbufType, Sole, Calls, InCall
<1>2. /\ \A u \in Tasks \ {t} : zbuf[u] # b
      /\ \A u \in Tasks \cup {ES} : task[u].buf # b
  BY <1>1, AloneInFill
<1> HIDE DEF b
<1>3. CASE /\ content'[b].app = content[b].app /\ UNCHANGED use
           /\ \E r : Goto(t, r) /\ r.buf = b /\ r.pc = "sending"
  <2>1. PICK r : Goto(t, r) /\ r.buf = b /\ r.pc = "sending"
    BY <1>3
  <2>2. task'[t] = r /\ \A u \in (Tasks \cup {ES}) \ {t} : task'[u] = task[u]
    BY <2>1 DEF Goto, TaskType
  <2>3. RefCounted'
    <3> SUFFICES ASSUME NEW c \in Buffers PROVE use'[c] = References(c)'
      BY DEF RefCounted
    <3>1. Cardinality(Hands(c)') = Cardinality(Hands(c)) - One(task[t].buf = c) + One(r.buf = c)
      BY <2>1, HandsChange
    <3>2. Cardinality(Fills(c)') = Cardinality(Fills(c)) - One(zbuf[t] = c) + One(zbuf'[t] = c)
      BY <1>1, FillsChange
    <3>3. Lasts(c)' = Lasts(c)
      BY SameUsers
    <3>4. /\ task[t].buf # c /\ zbuf'[t] # c /\ use'[c] = use[c]
          /\ r.buf = b /\ zbuf[t] = b
      BY <1>1, <1>3, <2>1, Fresh DEF b
    <3> QED  BY <3>1, <3>2, <3>3, <3>4, Balance DEF One
  <2>4. Sole'
    <3> SUFFICES ASSUME NEW u \in Tasks
                 PROVE  /\ zbuf'[u] # None => use'[zbuf'[u]] = 1 /\ content'[zbuf'[u]].app = AppOf[u]
                        /\ At(u, "sending")' => use'[task'[u].buf] = 1
      BY DEF Sole
    <3>1. CASE u = t
      BY <1>1, <1>3, <2>1, <2>2, <3>1
    <3>2. CASE u # t
      <4>1. zbuf'[u] = zbuf[u] /\ zbuf[u] \in Buffers \cup {None} /\ zbuf[u] # b
        BY <1>1, <1>2, <3>2 DEF ZbufType
      <4>2. zbuf[u] # None => content'[zbuf[u]] = content[zbuf[u]]
        BY <4>1 DEF b
      <4> QED  BY <1>3, <2>2, <3>2, <4>1, <4>2 DEF Sole, At
    <3> QED  BY <3>1, <3>2
  <2>5. Holders'
    <3> SUFFICES ASSUME NEW c \in Buffers, content'[c].app # None, use'[c] > 0
                 PROVE  \E u \in Tasks : AppOf[u] = content'[c].app /\ Holds(u, c)'
      BY DEF Holders
    <3>1. CASE c = b
      <4>1. AppOf[t] = content[b].app
        BY <1>1 DEF Sole, b
      <4> QED  BY <1>3, <2>1, <2>2, <3>1, <4>1 DEF Holds, At
    <3>2. CASE c # b
      <4>1. content'[c] = content[c] /\ use[c] > 0
        BY <1>3, <3>2 DEF b
      <4>2. PICK u \in Tasks : AppOf[u] = content[c].app /\ Holds(u, c)
        BY <4>1 DEF Holders
      <4>3. u # t
        BY <3>2, <4>2 DEF Holds, At, b
      <4> QED  BY <1>1, <2>2, <4>1, <4>2, <4>3 DEF Holds, At
    <3> QED  BY <3>1, <3>2
  <2> QED  BY <2>3, <2>4, <2>5
<1>4. CASE content'[b].app = None /\ use' = Decr(use, b) /\ UNCHANGED task
  <2>1. \A c \in Buffers : use'[c] = (IF c = b THEN 0 ELSE use[c]) /\ use[c] \in Nat
    BY <1>1, <1>4, Fresh DEF Decr, UseType
  <2>2. RefCounted'
    <3> SUFFICES ASSUME NEW c \in Buffers PROVE use'[c] = References(c)'
      BY DEF RefCounted
    <3>1. Cardinality(Fills(c)') = Cardinality(Fills(c)) - One(zbuf[t] = c) + One(zbuf'[t] = c)
      BY <1>1, FillsChange
    <3>2. Lasts(c)' = Lasts(c) /\ Hands(c)' = Hands(c)
      BY <1>4, SameUsers
    <3>3. zbuf'[t] # c /\ use'[c] = use[c] - One(zbuf[t] = c)
      BY <1>1, <2>1, Fresh DEF One, b
    <3> QED  BY <3>1, <3>2, <3>3, Balance DEF One
  <2>3. Sole'
    <3> SUFFICES ASSUME NEW u \in Tasks
                 PROVE  /\ zbuf'[u] # None => use'[zbuf'[u]] = 1 /\ content'[zbuf'[u]].app = AppOf[u]
                        /\ At(u, "sending")' => use'[task'[u].buf] = 1
      BY DEF Sole
    <3>1. At(u, "sending") => task[u].buf \in Buffers /\ task[u].buf # b
      BY <1>2 DEF Calls, InCall, TaskType, Call
    <3>2. At(u, "sending")' => use'[task'[u].buf] = 1
      BY <1>4, <2>1, <3>1 DEF Sole, At
    <3>3. CASE u = t
      BY <1>1, <3>2, <3>3
    <3>4. CASE u # t
      <4>1. zbuf'[u] = zbuf[u] /\ zbuf[u] \in Buffers \cup {None} /\ zbuf[u] # b
        BY <1>1, <1>2, <3>4 DEF ZbufType
      <4>2. zbuf[u] # None => content'[zbuf[u]] = content[zbuf[u]]
        BY <4>1 DEF b
      <4> QED  BY <2>1, <3>2, <4>1, <4>2 DEF Sole
    <3> QED  BY <3>3, <3>4
  <2>4. Holders'
    <3> SUFFICES ASSUME NEW c \in Buffers, content'[c].app # None, use'[c] > 0
                 PROVE  \E u \in Tasks : AppOf[u] = content'[c].app /\ Holds(u, c)'
      BY DEF Holders
    <3>1. c # b /\ use[c] > 0
      BY <2>1
    <3>2. content'[c] = content[c]
      BY <3>1 DEF b
    <3>3. PICK u \in Tasks : AppOf[u] = content[c].app /\ Holds(u, c)
      BY <3>1, <3>2 DEF Holders
    <3>4. zbuf[u] = c => u # t
      BY <3>1 DEF b
    <3> QED  BY <1>1, <1>4, <3>2, <3>3, <3>4 DEF Holds, At
  <2> QED  BY <2>2, <2>3, <2>4
<1> QED  BY <1>3, <1>4 DEF b

\* What a broadcast does: the sender's reference becomes one for each target.
LEMMA BroadcastParts ==
  ASSUME TypeOK, Calls, NEW t \in Tasks, BroadcastBufferToRoute(t)
  PROVE  \E to \in SUBSET Pipes :
           /\ task[t].buf \in Buffers /\ IsFiniteSet(to) /\ Cardinality(to) \in Nat
           /\ to = IF task[t].routed THEN Targets(t, content[task[t].buf].id) ELSE {}
           /\ \A p \in to : Used(p) /\ Len(queue[p]) < Depth[p]
           /\ \A p \in Pipes : queue'[p] = IF p \in to THEN Append(queue[p], task[t].buf) ELSE queue[p]
           /\ \A p \in Pipes : pipe'[p] = IF p \in to THEN [pipe[p] EXCEPT !.depth = @ + 1] ELSE pipe[p]
           /\ \A m \in Msgs, p \in Pipes : dest'[m][p] =
                IF m = content[task[t].buf].id /\ p \in to THEN [dest[m][p] EXCEPT !.count = @ + 1]
                                                           ELSE dest[m][p]
           /\ content' = [content EXCEPT ![task[t].buf].app = None]
           /\ use' = Decr([use EXCEPT ![task[t].buf] = @ + Cardinality(to)], task[t].buf)
           /\ Goto(t, Idle) /\ UNCHANGED <<routes, zbuf, cleaning, leftover>>
<1> USE TypeParts DEF Types
<1> DEFINE b == task[t].buf
           m == content[b].id
           to == IF task[t].routed THEN Targets(t, m) ELSE {}
           counted == [p \in Pipes |-> IF p \in to THEN [dest[m][p] EXCEPT !.count = @ + 1]
                                                   ELSE dest[m][p]]
<1>1. b \in Buffers
  BY DEF BroadcastBufferToRoute, Calls, InCall, TaskType, Call
<1>2. to \in SUBSET Pipes /\ \A p \in to : Used(p) /\ Len(queue[p]) < Depth[p]
  BY DEF Targets
<1>3. /\ queue' = [p \in Pipes |-> IF p \in to THEN Append(queue[p], b) ELSE queue[p]]
      /\ pipe' = [p \in Pipes |-> IF p \in to THEN [pipe[p] EXCEPT !.depth = @ + 1] ELSE pipe[p]]
      /\ dest' = [dest EXCEPT ![m] = counted]
      /\ content' = [content EXCEPT ![b].app = None]
      /\ use' = Decr([use EXCEPT ![b] = @ + Cardinality(to)], b)
      /\ Goto(t, Idle) /\ UNCHANGED <<routes, zbuf, cleaning, leftover>>
  BY DEF BroadcastBufferToRoute
<1>4. IsFiniteSet(to) /\ Cardinality(to) \in Nat
  BY <1>2, SbAssumption, FS_Subset, FS_CardinalityType
<1>5. to = IF task[t].routed THEN Targets(t, content[task[t].buf].id) ELSE {}
  OBVIOUS
<1> HIDE DEF to, counted, m, b
<1>6. ASSUME NEW n \in Msgs, NEW p \in Pipes
      PROVE  dest'[n][p] = IF n = m /\ p \in to THEN [dest[n][p] EXCEPT !.count = @ + 1] ELSE dest[n][p]
  <2>1. CASE n = m
    <3>1. dest'[n] = counted
      BY <1>3, <2>1 DEF DestType
    <3>2. counted[p] = IF p \in to THEN [dest[m][p] EXCEPT !.count = @ + 1] ELSE dest[m][p]
      BY DEF counted
    <3> QED  BY <2>1, <3>1, <3>2
  <2>2. CASE n # m
    BY <1>3, <2>2 DEF DestType
  <2> QED  BY <2>1, <2>2
<1>7. \A p \in Pipes : queue'[p] = IF p \in to THEN Append(queue[p], b) ELSE queue[p]
  BY <1>3
<1>8. \A p \in Pipes : pipe'[p] = IF p \in to THEN [pipe[p] EXCEPT !.depth = @ + 1] ELSE pipe[p]
  BY <1>3
<1> USE <1>2
<1> WITNESS to \in SUBSET Pipes
<1> QED  BY <1>1, <1>2, <1>3, <1>4, <1>5, <1>6, <1>7, <1>8 DEF b, m

LEMMA BroadcastRefs ==
  ASSUME TInv, TypeOK', Refs, NEW t \in Tasks, BroadcastBufferToRoute(t)
  PROVE  Refs'
<1> USE TypeParts DEF Types, TInv, Shape, Refs
<1> DEFINE b == task[t].buf
<1>1. PICK to \in SUBSET Pipes :
           /\ b \in Buffers /\ IsFiniteSet(to) /\ Cardinality(to) \in Nat
           /\ \A p \in to : Len(queue[p]) < Depth[p]
           /\ \A p \in Pipes : queue'[p] = IF p \in to THEN Append(queue[p], b) ELSE queue[p]
           /\ \A p \in Pipes : pipe'[p] = IF p \in to THEN [pipe[p] EXCEPT !.depth = @ + 1] ELSE pipe[p]
           /\ content' = [content EXCEPT ![b].app = None]
           /\ use' = Decr([use EXCEPT ![b] = @ + Cardinality(to)], b)
           /\ Goto(t, Idle) /\ UNCHANGED zbuf
  BY BroadcastParts
<1>2. At(t, "sending") /\ use[b] = 1
  BY DEF BroadcastBufferToRoute, Sole
<1>3. /\ task'[t] = Idle /\ \A u \in (Tasks \cup {ES}) \ {t} : task'[u] = task[u]
  BY <1>1 DEF Goto, TaskType
<1>4. /\ \A u \in Tasks : zbuf[u] # b
      /\ \A u \in (Tasks \cup {ES}) \ {t} : task[u].buf # b
  BY <1>1, <1>2, AloneInCall
<1> HIDE DEF b
<1>5. \A c \in Buffers : /\ use'[c] = use[c] + (IF c = b THEN Cardinality(to) - 1 ELSE 0)
                         /\ content'[c] = IF c = b THEN [content[b] EXCEPT !.app = None] ELSE content[c]
                         /\ use[c] \in Nat
  BY <1>1, <1>2, Fresh DEF Decr, UseType, ContentType
<1>6. RefCounted'
  <2> SUFFICES ASSUME NEW c \in Buffers PROVE use'[c] = References(c)'
    BY DEF RefCounted
  <2>1. queue \in Queues
    BY SbAssumption DEF QueueType, Queues
  <2>2. \A p \in to : Len(queue[p]) < MaxDepth
    <3>1. \A p \in to : Len(queue[p]) < Depth[p] /\ Depth[p] \in 1..MaxDepth /\ Len(queue[p]) \in Nat
      BY <1>1, SbAssumption DEF QueueType
    <3> QED  BY <3>1, SbAssumption
  <2>3. /\ Cardinality(Places(queue', b)) = Cardinality(Places(queue, b)) + Cardinality(to)
        /\ \A d : d # b => Places(queue', d) = Places(queue, d)
    <3>1. \A q : (\A p \in Pipes : q[p] = IF p \in to THEN Append(queue[p], b) ELSE queue[p])
                 => /\ Cardinality(Places(q, b)) = Cardinality(Places(queue, b)) + Cardinality(to)
                    /\ \A d : d # b => Places(q, d) = Places(queue, d)
      BY <1>1, <2>1, <2>2, PlacesAppend
    <3>2. \A p \in Pipes : queue'[p] = IF p \in to THEN Append(queue[p], b) ELSE queue[p]
      BY <1>1
    <3> QED  BY <3>1, <3>2
  <2>4. Cardinality(Hands(c)') = Cardinality(Hands(c)) - One(b = c) + One(Idle.buf = c)
    BY <1>1, HandsChange DEF b
  <2>5. Idle.buf # c
    BY Fresh DEF Idle
  <2>6. Fills(c)' = Fills(c)
    BY <1>1, SameUsers
  <2>7. Lasts(c)' = Lasts(c)
    <3>1. \A p \in Pipes : pipe'[p].last = pipe[p].last
      BY <1>1 DEF PipeType, PipeRecord
    <3> QED  BY <3>1, SameUsers
  <2>8. use'[c] = use[c] + (IF c = b THEN Cardinality(to) - 1 ELSE 0)
    BY <1>5
  <2>9. /\ use[c] = Cardinality(Places(queue, c)) + Cardinality(Lasts(c))
                    + Cardinality(Fills(c)) + Cardinality(Hands(c))
        /\ References(c)' = Cardinality(Places(queue', c)) + Cardinality(Lasts(c)')
                            + Cardinality(Fills(c)') + Cardinality(Hands(c)')
        /\ Cardinality(Places(queue, c)) \in Nat /\ Cardinality(Lasts(c)) \in Nat
        /\ Cardinality(Fills(c)) \in Nat /\ Cardinality(Hands(c)) \in Nat
    BY Balance
  <2>10. Cardinality(to) \in Nat
    BY <1>1
  <2> HIDE DEF Types, TInv, Shape, Refs
  <2>11. CASE c = b
    BY <2>3, <2>4, <2>5, <2>6, <2>7, <2>8, <2>9, <2>10, <2>11 DEF One
  <2>12. CASE c # b
    BY <2>3, <2>4, <2>5, <2>6, <2>7, <2>8, <2>9, <2>10, <2>12 DEF One
  <2> QED  BY <2>11, <2>12
<1>7. Sole'
  <2> SUFFICES ASSUME NEW u \in Tasks
               PROVE  /\ zbuf'[u] # None => use'[zbuf'[u]] = 1 /\ content'[zbuf'[u]].app = AppOf[u]
                      /\ At(u, "sending")' => use'[task'[u].buf] = 1
    BY DEF Sole
  <2>1. zbuf'[u] = zbuf[u] /\ zbuf[u] \in Buffers \cup {None} /\ zbuf[u] # b
    BY <1>1, <1>4 DEF ZbufType
  <2>2. zbuf'[u] # None => use'[zbuf'[u]] = 1 /\ content'[zbuf'[u]].app = AppOf[u]
    BY <1>5, <2>1 DEF Sole
  <2>3. At(u, "sending")' => use'[task'[u].buf] = 1
    <3>1. CASE u = t
      BY <1>3, <3>1 DEF At, Idle
    <3>2. CASE u # t
      <4>1. At(u, "sending") => task[u].buf \in Buffers /\ task[u].buf # b
        BY <1>4, <3>2 DEF Calls, InCall, TaskType, Call
      <4> QED  BY <1>3, <1>5, <3>2, <4>1 DEF Sole, At
    <3> QED  BY <3>1, <3>2
  <2> QED  BY <2>2, <2>3
<1>8. Holders'
  <2> SUFFICES ASSUME NEW c \in Buffers, content'[c].app # None, use'[c] > 0
               PROVE  \E u \in Tasks : AppOf[u] = content'[c].app /\ Holds(u, c)'
    BY DEF Holders
  <2>1. c # b
    BY <1>5 DEF ContentType, Content
  <2>2. content'[c] = content[c] /\ use[c] > 0
    BY <1>5, <2>1
  <2>3. PICK u \in Tasks : AppOf[u] = content[c].app /\ Holds(u, c)
    BY <2>2 DEF Holders
  <2>4. At(u, "sending") /\ task[u].buf = c => u # t
    BY <2>1 DEF b
  <2> QED  BY <1>1, <1>3, <2>2, <2>3, <2>4 DEF Holds, At
<1> QED  BY <1>6, <1>7, <1>8

\* ES gives back what the tasks of an application were filling.
LEMMA ReleaseRefs ==
  ASSUME TInv, TypeOK', Refs, ZeroCopyReleaseAppId
  PROVE  Refs'
<1> USE TypeParts DEF Types, TInv, Shape, Refs
<1> DEFINE a == cleaning.app
<1>1. /\ a # None
      /\ \A t \in Tasks : AppOf[t] = a => task[t].pc \in {"idle", "waiting"}
      /\ use' = [b \in Buffers |-> IF content[b].app = a THEN Less(use[b]) ELSE use[b]]
      /\ zbuf' = [t \in Tasks |-> IF AppOf[t] = a THEN None ELSE zbuf[t]]
      /\ task' = [t \in DOMAIN task |-> IF t \in Tasks /\ AppOf[t] = a THEN Idle ELSE task[t]]
      /\ UNCHANGED <<pipe, queue, content>> /\ DOMAIN task = Tasks \cup {ES}
  BY DEF ZeroCopyReleaseAppId, TaskType
<1> HIDE DEF a
<1>2. \A t \in Tasks \cup {ES} : /\ task'[t].buf = task[t].buf
                                 /\ task'[t].pc = "sending" <=> task[t].pc = "sending"
  <2>1. \A t \in Tasks : AppOf[t] = a => task[t].buf = None /\ task[t].pc # "sending"
    BY <1>1 DEF Calls, InCall, At
  <2> QED  BY <1>1, <2>1 DEF Idle
<1>3. \A b \in Buffers : use'[b] = use[b] \/ (content[b].app = a /\ use[b] > 0 /\ use'[b] = use[b] - 1)
  BY <1>1 DEF UseType, Less
<1>4. ASSUME NEW t \in Tasks, NEW b \in Buffers, Holds(t, b), AppOf[t] # a PROVE use'[b] = use[b]
  <2>1. CASE zbuf[t] = b
    BY <1>1, <1>4, <2>1, Fresh DEF Sole
  <2>2. CASE At(t, "sending") /\ task[t].buf = b
    <3>1. use[b] = 1
      BY <2>2 DEF Sole
    <3>2. ASSUME content[b].app = a PROVE FALSE
      <4>1. PICK u \in Tasks : AppOf[u] = a /\ Holds(u, b)
        BY <1>1, <3>1, <3>2 DEF Holders
      <4>2. u # t
        BY <1>4, <4>1
      <4> QED  BY <2>2, <3>1, <4>1, <4>2, AloneInCall DEF Holds
    <3> QED  BY <1>3, <3>2
  <2> QED  BY <1>4, <2>1, <2>2 DEF Holds
<1>5. RefCounted'
  <2> SUFFICES ASSUME NEW b \in Buffers PROVE use'[b] = References(b)'
    BY DEF RefCounted
  <2>1. Lasts(b)' = Lasts(b)
    BY <1>1, SameUsers
  <2>2. Hands(b)' = Hands(b)
    BY <1>1, <1>2 DEF Hands
  <2>3. CASE \E t \in Tasks : zbuf[t] = b /\ AppOf[t] = a
    <3>1. PICK t \in Tasks : zbuf[t] = b /\ AppOf[t] = a
      BY <2>3
    <3>2. use[b] = 1 /\ content[b].app = a
      BY <3>1, Fresh DEF Sole
    <3>3. use'[b] = 0
      BY <1>1, <3>2 DEF Less
    <3>4. \A u \in Tasks \ {t} : zbuf[u] # b
      BY <3>1, <3>2, AloneInFill
    <3>5. Fills(b) = {t} /\ Fills(b)' = {}
      BY <1>1, <3>1, <3>4, Fresh DEF Fills
    <3>6. Cardinality(Fills(b)) = 1 /\ Cardinality(Fills(b)') = 0
      BY <3>5, FS_Singleton, FS_EmptySet
    <3>7. Places(queue', b) = Places(queue, b)
      BY <1>1
    <3> QED  BY <2>1, <2>2, <3>2, <3>3, <3>6, <3>7, Balance
  <2>4. CASE ~\E t \in Tasks : zbuf[t] = b /\ AppOf[t] = a
    <3>1. Fills(b)' = Fills(b)
      BY <1>1, <2>4, Fresh DEF Fills
    <3>2. use'[b] = use[b]
      <4>1. ASSUME content[b].app = a, use[b] > 0 PROVE FALSE
        <5>1. PICK t \in Tasks : AppOf[t] = a /\ Holds(t, b)
          BY <1>1, <4>1 DEF Holders
        <5> QED  BY <1>1, <2>4, <5>1 DEF Holds, At
      <4> QED  BY <1>3, <4>1
    <3>3. Places(queue', b) = Places(queue, b)
      BY <1>1
    <3> QED  BY <2>1, <2>2, <3>1, <3>2, <3>3, Balance
  <2> QED  BY <2>3, <2>4
<1>6. Sole'
  <2> SUFFICES ASSUME NEW u \in Tasks
               PROVE  /\ zbuf'[u] # None => use'[zbuf'[u]] = 1 /\ content'[zbuf'[u]].app = AppOf[u]
                      /\ At(u, "sending")' => use'[task'[u].buf] = 1
    BY DEF Sole
  <2>1. zbuf'[u] # None => use'[zbuf'[u]] = 1 /\ content'[zbuf'[u]].app = AppOf[u]
    <3> SUFFICES ASSUME zbuf'[u] # None PROVE use'[zbuf'[u]] = 1 /\ content'[zbuf'[u]].app = AppOf[u]
      OBVIOUS
    <3>1. zbuf'[u] = zbuf[u] /\ zbuf[u] \in Buffers /\ AppOf[u] # a
      BY <1>1 DEF ZbufType
    <3> QED  BY <1>1, <1>4, <3>1 DEF Sole, Holds
  <2>2. At(u, "sending")' => use'[task'[u].buf] = 1
    <3> SUFFICES ASSUME At(u, "sending")' PROVE use'[task'[u].buf] = 1
      OBVIOUS
    <3>1. At(u, "sending") /\ task'[u].buf = task[u].buf
      BY <1>2 DEF At
    <3>2. task[u].buf \in Buffers /\ AppOf[u] # a
      BY <1>1, <3>1 DEF Calls, InCall, TaskType, Call, At
    <3> QED  BY <1>4, <3>1, <3>2 DEF Sole, Holds
  <2> QED  BY <2>1, <2>2
<1>7. Holders'
  <2> SUFFICES ASSUME NEW c \in Buffers, content'[c].app # None, use'[c] > 0
               PROVE  \E u \in Tasks : AppOf[u] = content'[c].app /\ Holds(u, c)'
    BY DEF Holders
  <2>1. use[c] > 0 /\ content'[c] = content[c]
    BY <1>1, <1>3 DEF UseType
  <2>2. PICK u \in Tasks : AppOf[u] = content[c].app /\ Holds(u, c)
    BY <2>1 DEF Holders
  <2>3. AppOf[u] # a
    <3>1. ASSUME AppOf[u] = a PROVE FALSE
      <4>1. zbuf[u] = c
        BY <1>1, <2>2, <3>1 DEF Holds, At
      <4>2. use[c] = 1
        BY <4>1, Fresh DEF Sole
      <4>3. content[c].app = a
        BY <2>2, <3>1
      <4>4. use'[c] = 0
        BY <1>1, <4>2, <4>3 DEF Less
      <4> QED  BY <4>4
    <3> QED  BY <3>1
  <2> QED  BY <1>1, <1>2, <2>1, <2>2, <2>3 DEF Holds, At
<1> QED  BY <1>5, <1>6, <1>7

LEMMA RefStep ==
  ASSUME TInv, TypeOK', Refs, Next
  PROVE  Refs'
<1> USE TypeParts DEF Types, TInv, Shape
<1>1. ASSUME NEW t \in Tasks, NEW p \in Pipes, CreatePipe(t, p) \/ SetPipeOpts(t, p) PROVE Refs'
  <2>1. UNCHANGED <<queue, use, content, zbuf, task>>
    BY <1>1 DEF CreatePipe, SetPipeOpts
  <2>2. \A s \in Pipes : pipe'[s].last = pipe[s].last
    <3>1. CASE CreatePipe(t, p)
      <4>1. pipe[p].last = None /\ pipe'[p].last = None /\ \A s \in Pipes \ {p} : pipe'[s] = pipe[s]
        BY <3>1 DEF CreatePipe, PipeType, NoPipe, PipeStates, Used
      <4> QED  BY <4>1
    <3>2. CASE SetPipeOpts(t, p)
      BY <3>2 DEF SetPipeOpts, PipeType, PipeRecord
    <3> QED  BY <1>1, <3>1, <3>2
  <2> QED  BY <2>1, <2>2, SameRefs DEF Refs, At
<1>2. ASSUME NEW m \in Msgs, NEW p \in Pipes,
             \/ \E t \in Tasks : \/ Unsubscribe(t, m, p)
                                 \/ \E lim \in Limits : Subscribe(t, m, p, lim)
             \/ \E active \in BOOLEAN : SetRoute(m, p, active)
      PROVE  Refs'
  <2>1. UNCHANGED <<pipe, queue, use, content, zbuf, task>>
    BY <1>2 DEF Unsubscribe, Subscribe, SetRoute
  <2> QED  BY <2>1, SameRefs DEF Refs, At
<1>3. ASSUME NEW t \in Tasks, NEW p \in Pipes, ReceiveBuffer(t, p) PROVE Refs'
  <2> DEFINE x == pipe[p].last
             r == [Idle EXCEPT !.pc = "waiting", !.pipe = p]
  <2>1. /\ use' = Decr(use, x) /\ UNCHANGED <<queue, content, zbuf>>
        /\ pipe'[p].last = None /\ \A s \in Pipes \ {p} : pipe'[s].last = pipe[s].last
        /\ Goto(t, r) /\ At(t, "idle") /\ x \in Buffers \cup {None}
    BY <1>3 DEF ReceiveBuffer, PipeType, PipeRecord
  <2>2. /\ r.buf = None /\ task[t].buf = None /\ r.pc = "waiting"
        /\ task'[t] = r /\ \A u \in (Tasks \cup {ES}) \ {t} : task'[u] = task[u]
    BY <2>1 DEF Idle, Calls, InCall, Goto, TaskType
  <2>3. x \in Buffers => use[x] > 0 /\ \A u \in Tasks : ~Holds(u, x)
    BY NotTheirs DEF Refs
  <2> HIDE DEF x, r
  <2>4. \A b \in Buffers : use'[b] = use[b] - One(x = b) /\ use[b] \in Nat
    BY <2>1, <2>3, Fresh DEF Decr, UseType, One
  <2>5. RefCounted'
    <3> SUFFICES ASSUME NEW b \in Buffers PROVE use'[b] = References(b)'
      BY DEF RefCounted
    <3>1. Cardinality(Hands(b)') = Cardinality(Hands(b)) - One(task[t].buf = b) + One(r.buf = b)
      BY <2>1, HandsChange
    <3>2. Cardinality(Lasts(b)') = Cardinality(Lasts(b)) - One(x = b) + One(pipe'[p].last = b)
      BY <2>1, LastsChange DEF x
    <3>3. Fills(b)' = Fills(b) /\ queue' = queue
      BY <2>1, SameUsers
    <3> QED  BY <2>1, <2>2, <2>4, <3>1, <3>2, <3>3, Balance, Fresh DEF One, Refs
  <2>6. Sole' /\ Holders'
    <3>1. \A b \in Buffers : (\E u \in Tasks : Holds(u, b)) => use'[b] = use[b]
      BY <2>3, <2>4 DEF One
    <3>2. \A b \in Buffers : use'[b] > 0 => use[b] > 0
      BY <2>4 DEF One
    <3> QED  BY <2>1, <2>2, <3>1, <3>2, OtherUse DEF At, Refs
  <2> QED  BY <2>5, <2>6 DEF Refs
<1>4. ASSUME NEW t \in Tasks, NEW p \in Pipes, DeletePipe(t, p) PROVE Refs'
  BY <1>4, CloseRefs DEF DeletePipe
<1>5. ASSUME NEW t \in Tasks, NEW m \in Msgs, NEW d \in Payloads, TransmitMsg(t, m, d) PROVE Refs'
  <2> DEFINE v == [id |-> m, data |-> d, app |-> None]
  <2>1. PICK b \in Buffers : /\ GetBufferFromPool(b, v)
                             /\ Goto(t, [Idle EXCEPT !.pc = "sending", !.buf = b, !.routed = TRUE])
    BY <1>5 DEF TransmitMsg
  <2>2. v.app = None
    OBVIOUS
  <2>3. \E r : Goto(t, r) /\ r.buf = b /\ r.pc = "sending"
    <3> DEFINE r == [Idle EXCEPT !.pc = "sending", !.buf = b, !.routed = TRUE]
    <3>1. r.buf = b /\ r.pc = "sending"
      BY DEF Idle
    <3> HIDE DEF r
    <3> QED  BY <2>1, <3>1 DEF r
  <2> HIDE DEF v
  <2> QED  BY <1>5, <2>1, <2>2, <2>3, PoolRefs DEF TransmitMsg
<1>6. ASSUME NEW t \in Tasks, NEW m \in Msgs, NEW d \in Payloads, TransmitBuffer(t, m, d) PROVE Refs'
  <2>1. zbuf[t] \in Buffers
    BY <1>6 DEF TransmitBuffer, ZbufType
  <2>2. /\ content'[zbuf[t]].app = content[zbuf[t]].app
        /\ \A c \in Buffers \ {zbuf[t]} : content'[c] = content[c]
    BY <1>6, <2>1 DEF TransmitBuffer, ContentType, Content
  <2>3. \E r : Goto(t, r) /\ r.buf = zbuf[t] /\ r.pc = "sending"
    <3> DEFINE r == [Idle EXCEPT !.pc = "sending", !.buf = zbuf[t], !.routed = m \in routes]
    <3>1. r.buf = zbuf[t] /\ r.pc = "sending"
      BY DEF Idle
    <3>2. Goto(t, r)
      BY <1>6 DEF TransmitBuffer
    <3> HIDE DEF r
    <3> QED  BY <3>1, <3>2
  <2> QED  BY <1>6, <2>2, <2>3, FillEnds DEF TransmitBuffer
<1>7. ASSUME NEW t \in Tasks, AllocateMessageBuffer(t) PROVE Refs'
  <2> DEFINE v == [id |-> None, data |-> None, app |-> AppOf[t]]
  <2>1. PICK b \in Buffers : GetBufferFromPool(b, v) /\ zbuf' = [zbuf EXCEPT ![t] = b]
    BY <1>7 DEF AllocateMessageBuffer
  <2>2. v.app = AppOf[t]
    OBVIOUS
  <2> HIDE DEF v
  <2> QED  BY <1>7, <2>1, <2>2, PoolRefs DEF AllocateMessageBuffer
<1>8. ASSUME NEW t \in Tasks, ReleaseMessageBuffer(t) PROVE Refs'
  <2>1. zbuf[t] \in Buffers
    BY <1>8 DEF ReleaseMessageBuffer, ZbufType
  <2>2. /\ content'[zbuf[t]].app = None
        /\ \A c \in Buffers \ {zbuf[t]} : content'[c] = content[c]
    BY <1>8, <2>1 DEF ReleaseMessageBuffer, ContentType, Content
  <2> QED  BY <1>8, <2>2, FillEnds DEF ReleaseMessageBuffer
<1>9. ASSUME NEW t \in Tasks, BroadcastBufferToRoute(t) PROVE Refs'
  BY <1>9, BroadcastRefs
<1>10. ASSUME NEW t \in Tasks, QueueGet(t) PROVE Refs'
  <2> DEFINE p == task[t].pipe
             r == [task[t] EXCEPT !.pc = "gotten", !.buf = Head(queue[p])]
  <2>1. /\ At(t, "waiting") /\ ~At(t, "sending") /\ p \in Pipes /\ queue[p] # <<>> /\ task[t].buf = None
        /\ Goto(t, r) /\ queue' = [queue EXCEPT ![p] = Tail(@)] /\ UNCHANGED <<pipe, use, content, zbuf>>
        /\ task[t] \in Call
    BY <1>10 DEF QueueGet, Calls, InCall, TaskType, Call, At
  <2>2. r.buf = Head(queue[p]) /\ r.pc # "sending"
    BY <2>1 DEF Call
  <2> HIDE DEF p, r
  <2> QED  BY <2>1, <2>2, TakeRefs
<1>11. ASSUME NEW t \in Tasks, ReceiveNothing(t) PROVE Refs'
  <2>1. /\ UNCHANGED <<pipe, queue, use, content, zbuf>>
        /\ task'[t] = Idle /\ \A u \in (Tasks \cup {ES}) \ {t} : task'[u] = task[u]
        /\ task[t].pc = "waiting" /\ task[t].buf = None
    BY <1>11 DEF ReceiveNothing, Goto, TaskType, Calls, InCall, At
  <2> QED  BY <2>1, SameRefs DEF Refs, At, Idle
<1>12. ASSUME NEW t \in Tasks, ReceiveDone(t) PROVE Refs'
  <2> DEFINE p == task[t].pipe
             b == task[t].buf
             d == DepthAfter(p, content[b].id)
  <2>1. /\ Goto(t, Idle) /\ ~At(t, "sending") /\ UNCHANGED <<queue, content, zbuf>>
        /\ p \in Pipes /\ b \in Buffers /\ Receiving(t, p)
    BY <1>12 DEF ReceiveDone, Calls, InCall, TaskType, Call, Receiving, At
  <2>2. Idle.buf = None /\ Idle.pc # "sending"
    BY DEF Idle
  <2>3. CASE Used(p)
    <3>1. pipe[p].last = None
      BY <2>1, <2>3 DEF Served
    <3>2. pipe' = [pipe EXCEPT ![p] = [pipe[p] EXCEPT !.last = b, !.depth = d]]
          /\ use' = Decr(Incr(use, b), b)
      BY <1>12, <2>1, <2>3 DEF ReceiveDone, PipeType
    <3> HIDE DEF d
    <3>3. pipe'[p].last = b /\ \A s \in Pipes \ {p} : pipe'[s].last = pipe[s].last
      <4> HIDE DEF p, b
      <4> QED  BY <2>1, <3>2 DEF PipeType, PipeRecord
    <3>4. use' = use
      <4> HIDE DEF p, b
      <4> QED  BY <2>1, <3>2, Fresh DEF Decr, Incr, UseType
    <3> QED  BY <2>1, <2>2, <3>1, <3>3, <3>4, GiveBackRefs
  <2>4. CASE ~Used(p)
    <3>1. use' = Decr(use, b) /\ UNCHANGED pipe
      BY <1>12, <2>4 DEF ReceiveDone
    <3> QED  BY <2>1, <2>2, <3>1, GiveBackRefs
  <2> QED  BY <2>3, <2>4
<1>13. ASSUME NEW t \in Tasks \cup {ES}, DrainPrevious(t) PROVE Refs'
  <2> DEFINE r == [task[t] EXCEPT !.buf = None]
  <2>1. /\ Goto(t, r) /\ ~At(t, "sending") /\ UNCHANGED <<pipe, queue, content, zbuf>>
        /\ use' = Decr(use, task[t].buf) /\ task[t] \in Call /\ task[t].pc = "draining"
    BY <1>13 DEF DrainPrevious, TaskType, At
  <2>2. r.buf = None /\ r.pc # "sending"
    BY <2>1 DEF Call
  <2> HIDE DEF r
  <2> QED  BY <2>1, <2>2, GiveBackRefs
<1>14. ASSUME NEW t \in Tasks \cup {ES}, DrainNext(t) PROVE Refs'
  <2> DEFINE p == task[t].pipe
  <2>1. /\ At(t, "draining") /\ ~At(t, "sending") /\ p \in Pipes /\ task[t].buf = None
        /\ UNCHANGED <<use, content, zbuf>> /\ task[t] \in Call /\ pipe[p].state = "reserved"
    BY <1>14 DEF DrainNext, Calls, InCall, TaskType, Call, At
  <2>2. CASE queue[p] # <<>>
    <3> DEFINE r == [task[t] EXCEPT !.buf = Head(queue[p])]
    <3>1. Goto(t, r) /\ queue' = [queue EXCEPT ![p] = Tail(@)] /\ UNCHANGED pipe
      BY <1>14, <2>2 DEF DrainNext
    <3>2. r.buf = Head(queue[p]) /\ r.pc # "sending"
      BY <2>1 DEF Call, At
    <3> HIDE DEF p, r
    <3> QED  BY <2>1, <2>2, <3>1, <3>2, TakeRefs
  <2>3. CASE queue[p] = <<>>
    <3>1. /\ task'[t] = Idle /\ \A u \in (Tasks \cup {ES}) \ {t} : task'[u] = task[u]
          /\ pipe' = [pipe EXCEPT ![p] = NoPipe] /\ UNCHANGED queue
      BY <1>14, <2>3 DEF DrainNext, Goto, TaskType
    <3>2. \A s \in Pipes : pipe'[s].last = pipe[s].last
      <4>1. pipe[p].last = None
        BY <2>1 DEF PipeStates, Used
      <4> HIDE DEF p
      <4> QED  BY <2>1, <3>1, <4>1 DEF PipeType, NoPipe
    <3> QED  BY <2>1, <3>1, <3>2, SameRefs DEF Refs, At, Idle
  <2> QED  BY <2>2, <2>3
<1>15. ASSUME NEW a \in External, CleanUpApp(a) PROVE Refs'
  BY <1>15, SameRefs DEF CleanUpApp, Refs, At
<1>16. ASSUME CleanUpPipe PROVE Refs'
  <2>1. PICK p \in cleaning.todo : ClosePipe(ES, p, cleaning.app)
    BY <1>16 DEF CleanUpPipe
  <2>2. p \in Pipes
    BY <2>1 DEF OtherTypes
  <2> QED  BY <1>16, <2>1, <2>2, CloseRefs DEF CleanUpPipe
<1>17. ASSUME ZeroCopyReleaseAppId PROVE Refs'
  BY <1>17, ReleaseRefs
<1> HIDE DEF Types, TInv, Shape
<1>18. CASE \E t \in Tasks :
              \/ \E p \in Pipes : CreatePipe(t, p) \/ SetPipeOpts(t, p) \/ ReceiveBuffer(t, p)
                                  \/ DeletePipe(t, p)
              \/ \E m \in Msgs, p \in Pipes : Unsubscribe(t, m, p)
                                              \/ \E lim \in Limits : Subscribe(t, m, p, lim)
              \/ \E m \in Msgs, d \in Payloads : TransmitMsg(t, m, d) \/ TransmitBuffer(t, m, d)
  BY <1>1, <1>2, <1>3, <1>4, <1>5, <1>6, <1>18
<1>19. CASE \E m \in Msgs, p \in Pipes, active \in BOOLEAN : SetRoute(m, p, active)
  BY <1>2, <1>19
<1> QED  BY <1>7, <1>8, <1>9, <1>10, <1>11, <1>12, <1>13, <1>14, <1>15, <1>16, <1>17, <1>18, <1>19
         DEF Next

RInv == TInv /\ Refs

LEMMA InitRInv == Init => RInv
<1> SUFFICES ASSUME Init PROVE RInv
  OBVIOUS
<1>1. TInv
  BY InitTInv
<1>2. \A b \in Buffers : use[b] = 0 /\ content[b].app = None
  BY DEF Init
<1>3. \A t \in Tasks : zbuf[t] = None /\ task[t].pc = "idle"
  BY DEF Init, Idle
<1>4. Sole /\ Holders
  BY <1>2, <1>3 DEF Sole, Holders, At
<1>5. RefCounted
  <2> SUFFICES ASSUME NEW b \in Buffers PROVE use[b] = References(b)
    BY DEF RefCounted
  <2>1. Places(queue, b) = {}
    BY SbAssumption DEF Init, Places
  <2>2. Lasts(b) = {} /\ Fills(b) = {} /\ Hands(b) = {}
    BY Fresh DEF Init, Lasts, Fills, Hands, NoPipe, Idle
  <2> QED  BY <1>1, <1>2, <2>1, <2>2, Counts, FS_EmptySet DEF TInv
<1> QED  BY <1>1, <1>4, <1>5 DEF RInv, Refs

LEMMA StepRInv == RInv /\ [Next]_vars => RInv'
<1>1. ASSUME RInv, Next PROVE RInv'
  BY <1>1, StepTInv, RefStep DEF RInv, TInv
<1>2. ASSUME RInv, UNCHANGED vars PROVE RInv'
  <2>1. TInv'
    BY <1>2, StepTInv DEF RInv
  <2> QED  BY <1>2, <2>1, SameRefs DEF RInv, TInv, Refs, vars, At
<1> QED  BY <1>1, <1>2

LEMMA AlwaysRInv == Spec => []RInv
BY InitRInv, StepRInv, PTL DEF Spec

\* Whatever tasks send, receive, fill, release, delete and are cleaned up at
\* once, the use count of a buffer is the number of places, receivers and calls
\* that point at it: CFE_SB_ReceiveBuffer, CFE_SB_DeletePipeFull, the broadcast
\* and the release of zero-copy buffers give each reference back exactly once.
THEOREM SbRefCounted == Spec => []RefCounted
BY AlwaysRInv, PTL DEF RInv, Refs

----------------------------------------------------------------------------
(* Messages.                                                               *)

\* Buffer b is in a queue, with a receiver or in a call.
Queued(b, p) == \E i \in 1..Len(queue[p]) : queue[p][i] = b
Underway(b) ==
  \/ \E p \in Pipes : pipe[p].last = b \/ Queued(b, p)
  \/ \E t \in Tasks \cup {ES} : task[t].buf = b

\* What is under way is a message; a call that empties a pipe or is done has
\* none to send or to deliver.
Sent(b) == content[b].id \in Msgs /\ content[b].data \in Payloads
Mail ==
  /\ \A p \in Pipes : /\ \A i \in 1..Len(queue[p]) : Sent(queue[p][i])
                      /\ pipe[p].last # None => Sent(pipe[p].last)
  /\ \A t \in Tasks \cup {ES} : task[t].buf # None => Sent(task[t].buf)

\* A message under way stays as it is.
LEMMA MessageStays ==
  ASSUME RInv, Next, NEW b \in Buffers, Underway(b)
  PROVE  content'[b].id = content[b].id /\ content'[b].data = content[b].data
<1> USE TypeParts DEF Types, RInv, TInv, Shape, Refs
<1>1. ASSUME NEW c \in Buffers, NEW v, GetBufferFromPool(c, v)
      PROVE  content'[b] = content[b]
  <2>1. b # c
    BY <1>1, Unused DEF GetBufferFromPool, Underway, Queued
  <2> QED  BY <1>1, <2>1 DEF GetBufferFromPool, ContentType
<1>2. ASSUME NEW t \in Tasks, NEW m \in Msgs, NEW d \in Payloads, TransmitBuffer(t, m, d)
      PROVE  content'[b] = content[b]
  <2>1. zbuf[t] \in Buffers /\ use[zbuf[t]] = 1
    BY <1>2 DEF TransmitBuffer, ZbufType, Sole
  <2>2. b # zbuf[t]
    BY <2>1, AloneInFill DEF Underway, Queued
  <2> QED  BY <1>2, <2>2 DEF TransmitBuffer, ContentType
<1>3. ASSUME NEW t \in Tasks, ReleaseMessageBuffer(t) \/ BroadcastBufferToRoute(t)
      PROVE  content'[b].id = content[b].id /\ content'[b].data = content[b].data
  <2>1. \E c : content' = [content EXCEPT ![c].app = None]
    BY <1>3 DEF ReleaseMessageBuffer, BroadcastBufferToRoute
  <2> QED  BY <2>1 DEF ContentType, Content
<1> HIDE DEF Types, RInv, TInv, Shape, Refs
<1>4. CASE \E t \in Tasks :
             \/ \E m \in Msgs, d \in Payloads : TransmitMsg(t, m, d) \/ TransmitBuffer(t, m, d)
             \/ AllocateMessageBuffer(t) \/ ReleaseMessageBuffer(t) \/ BroadcastBufferToRoute(t)
  BY <1>1, <1>2, <1>3, <1>4 DEF TransmitMsg, AllocateMessageBuffer
<1>5. CASE \E t \in Tasks :
             \/ \E p \in Pipes : CreatePipe(t, p) \/ SetPipeOpts(t, p) \/ ReceiveBuffer(t, p)
                                 \/ DeletePipe(t, p)
             \/ \E m \in Msgs, p \in Pipes : Unsubscribe(t, m, p)
                                             \/ \E lim \in Limits : Subscribe(t, m, p, lim)
             \/ QueueGet(t) \/ ReceiveNothing(t) \/ ReceiveDone(t)
  <2>1. PICK t \in Tasks :
             \/ \E p \in Pipes : CreatePipe(t, p) \/ SetPipeOpts(t, p) \/ ReceiveBuffer(t, p)
                                 \/ DeletePipe(t, p)
             \/ \E m \in Msgs, p \in Pipes : Unsubscribe(t, m, p)
                                             \/ \E lim \in Limits : Subscribe(t, m, p, lim)
             \/ QueueGet(t) \/ ReceiveNothing(t) \/ ReceiveDone(t)
    BY <1>5
  <2>2. ASSUME NEW p \in Pipes,
               CreatePipe(t, p) \/ SetPipeOpts(t, p) \/ ReceiveBuffer(t, p) \/ DeletePipe(t, p)
        PROVE  UNCHANGED content
    BY <2>2 DEF CreatePipe, SetPipeOpts, ReceiveBuffer, DeletePipe, ClosePipe
  <2>3. ASSUME NEW m \in Msgs, NEW p \in Pipes, NEW lim \in Limits,
               Unsubscribe(t, m, p) \/ Subscribe(t, m, p, lim)
        PROVE  UNCHANGED content
    BY <2>3 DEF Unsubscribe, Subscribe
  <2>4. ASSUME NEW m \in Msgs, NEW p \in Pipes, Unsubscribe(t, m, p) PROVE UNCHANGED content
    BY <2>4 DEF Unsubscribe
  <2>5. QueueGet(t) \/ ReceiveNothing(t) \/ ReceiveDone(t) => UNCHANGED content
    BY DEF QueueGet, ReceiveNothing, ReceiveDone
  <2> QED  BY <2>1, <2>2, <2>3, <2>4, <2>5
<1>6. CASE \/ \E t \in Tasks \cup {ES} : DrainPrevious(t) \/ DrainNext(t)
           \/ \E m \in Msgs, p \in Pipes, active \in BOOLEAN : SetRoute(m, p, active)
           \/ \E a \in External : CleanUpApp(a)
           \/ CleanUpPipe \/ ZeroCopyReleaseAppId
  BY <1>6 DEF DrainPrevious, DrainNext, SetRoute, CleanUpApp, CleanUpPipe, ClosePipe,
              ZeroCopyReleaseAppId
<1> QED  BY <1>4, <1>5, <1>6 DEF Next

\* What is under way after a step was so before, or is being sent.
LEMMA NewMail ==
  ASSUME RInv, RInv', Next, NEW b \in Buffers, Underway(b)'
  PROVE  Underway(b) \/ Sent(b)'
<1> USE TypeParts DEF Types, RInv, TInv, Shape
<1>1. ASSUME NEW t \in Tasks, NEW p \in Pipes,
             CreatePipe(t, p) \/ SetPipeOpts(t, p) \/ ReceiveBuffer(t, p)
      PROVE  Underway(b)
  <2>1. UNCHANGED queue /\ \A u \in Tasks \cup {ES} : task'[u].buf = task[u].buf
    <3>1. CASE CreatePipe(t, p) \/ SetPipeOpts(t, p)
      BY <3>1 DEF CreatePipe, SetPipeOpts
    <3>2. CASE ReceiveBuffer(t, p)
      BY <3>2 DEF ReceiveBuffer, Goto, TaskType, Idle, Calls, InCall
    <3> QED  BY <1>1, <3>1, <3>2
  <2>2. \A s \in Pipes : pipe'[s].last \in {None, pipe[s].last}
    <3>1. CASE CreatePipe(t, p)
      BY <3>1 DEF CreatePipe, PipeType, PipeRecord, NoPipe
    <3>2. CASE SetPipeOpts(t, p)
      BY <3>2 DEF SetPipeOpts, PipeType, PipeRecord
    <3>3. CASE ReceiveBuffer(t, p)
      BY <3>3 DEF ReceiveBuffer, PipeType, PipeRecord
    <3> QED  BY <1>1, <3>1, <3>2, <3>3
  <2> QED  BY <2>1, <2>2, Fresh DEF Underway, Queued
<1>2. ASSUME NEW t \in Tasks \cup {ES}, NEW p \in Pipes, NEW a, ClosePipe(t, p, a)
      PROVE  Underway(b)
  <2>1. UNCHANGED queue /\ \A s \in Pipes : pipe'[s].last \in {None, pipe[s].last}
    BY <1>2 DEF ClosePipe, PipeType, PipeRecord
  <2>2. \A u \in Tasks \cup {ES} : task'[u].buf \in {task[u].buf, pipe[p].last}
    BY <1>2 DEF ClosePipe, Goto, TaskType, Idle
  <2> QED  BY <2>1, <2>2, Fresh DEF Underway, Queued
<1>3. ASSUME UNCHANGED <<pipe, queue>>, UNCHANGED task PROVE Underway(b)
  BY <1>3 DEF Underway, Queued
<1>4. ASSUME NEW t \in Tasks, NEW m \in Msgs, NEW d \in Payloads,
             TransmitMsg(t, m, d) \/ TransmitBuffer(t, m, d)
      PROVE  Underway(b) \/ Sent(b)'
  <2>1. PICK c \in Buffers : /\ content'[c].id = m /\ content'[c].data = d
                             /\ task'[t].buf = c
                             /\ \A u \in (Tasks \cup {ES}) \ {t} : task'[u] = task[u]
                             /\ UNCHANGED <<pipe, queue>>
    <3>1. CASE TransmitMsg(t, m, d)
      BY <3>1 DEF TransmitMsg, GetBufferFromPool, Goto, TaskType, ContentType, Idle
    <3>2. CASE TransmitBuffer(t, m, d)
      <4>1. zbuf[t] \in Buffers
        BY <3>2 DEF TransmitBuffer, ZbufType
      <4>2. content'[zbuf[t]].id = m /\ content'[zbuf[t]].data = d
        BY <3>2, <4>1 DEF TransmitBuffer, ContentType, Content
      <4> QED  BY <3>2, <4>1, <4>2 DEF TransmitBuffer, Goto, TaskType, Idle
    <3> QED  BY <1>4, <3>1, <3>2
  <2>2. CASE b = c
    BY <2>1, <2>2 DEF Sent
  <2>3. CASE b # c
    BY <2>1, <2>3 DEF Underway, Queued
  <2> QED  BY <2>2, <2>3
<1>5. ASSUME NEW t \in Tasks, BroadcastBufferToRoute(t) PROVE Underway(b)
  <2>1. PICK to \in SUBSET Pipes :
             /\ \A p \in Pipes : queue'[p] = IF p \in to THEN Append(queue[p], task[t].buf) ELSE queue[p]
             /\ \A p \in Pipes : pipe'[p] = IF p \in to THEN [pipe[p] EXCEPT !.depth = @ + 1] ELSE pipe[p]
             /\ Goto(t, Idle) /\ task[t].buf \in Buffers
    BY <1>5, BroadcastParts
  <2>2. \A p \in Pipes : pipe'[p].last = pipe[p].last
    BY <2>1 DEF PipeType, PipeRecord
  <2>3. \A u \in Tasks \cup {ES} : task'[u].buf \in {None, task[u].buf}
    BY <2>1 DEF Goto, TaskType, Idle
  <2>4. ASSUME NEW p \in Pipes, NEW i \in 1..Len(queue'[p]), queue'[p][i] = b
        PROVE  Queued(b, p) \/ b = task[t].buf
    <3>1. queue[p] \in Seq(Buffers)
      BY DEF QueueType
    <3>2. CASE p \in to
      <4>3. queue'[p] = Append(queue[p], task[t].buf) /\ task[t].buf \in Buffers
        BY <2>1, <3>2
      <4>1. /\ Len(queue'[p]) = Len(queue[p]) + 1 /\ Len(queue[p]) \in Nat
            /\ queue'[p][Len(queue[p]) + 1] = task[t].buf
            /\ \A j \in 1..Len(queue[p]) : queue'[p][j] = queue[p][j]
        BY <4>3, <3>1
      <4>2. i \in 1..Len(queue[p]) \/ i = Len(queue[p]) + 1
        BY <4>1
      <4> QED  BY <2>4, <4>1, <4>2 DEF Queued
    <3>3. CASE p \notin to
      BY <2>1, <2>4, <3>3 DEF Queued
    <3> QED  BY <3>2, <3>3
  <2> QED  BY <2>2, <2>3, <2>4, Fresh DEF Underway, Queued
<1>6. ASSUME NEW t \in Tasks \cup {ES}, NEW p \in Pipes, queue[p] # <<>>, UNCHANGED pipe,
             queue' = [queue EXCEPT ![p] = Tail(@)],
             \A u \in (Tasks \cup {ES}) \ {t} : task'[u] = task[u],
             task'[t].buf = Head(queue[p])
      PROVE  Underway(b)
  <2>1. queue[p] \in Seq(Buffers)
    BY DEF QueueType
  <2>2. \A s \in Pipes \ {p} : queue'[s] = queue[s]
    BY <1>6 DEF QueueType
  <2>3. Len(queue[p]) \in Nat \ {0} /\ Head(queue[p]) = queue[p][1]
        /\ queue'[p] = Tail(queue[p]) /\ Len(queue'[p]) = Len(queue[p]) - 1
        /\ \A i \in 1..Len(queue'[p]) : queue'[p][i] = queue[p][i + 1]
    BY <1>6, <2>1 DEF QueueType
  <2>4. Queued(Head(queue[p]), p)
    BY <2>3 DEF Queued
  <2>5. ASSUME NEW i \in 1..Len(queue'[p]), queue'[p][i] = b PROVE Queued(b, p)
    <3>1. i + 1 \in 1..Len(queue[p]) /\ queue[p][i + 1] = b
      BY <2>3, <2>5
    <3> QED  BY <3>1 DEF Queued
  <2> QED  BY <1>6, <2>2, <2>4, <2>5 DEF Underway, Queued
<1>7. ASSUME NEW t \in Tasks, QueueGet(t) PROVE Underway(b)
  <2> DEFINE p == task[t].pipe
  <2>1. /\ p \in Pipes /\ queue[p] # <<>> /\ UNCHANGED pipe /\ queue' = [queue EXCEPT ![p] = Tail(@)]
        /\ \A u \in (Tasks \cup {ES}) \ {t} : task'[u] = task[u]
        /\ task'[t].buf = Head(queue[p])
    BY <1>7 DEF QueueGet, Calls, InCall, TaskType, Call, Goto
  <2> HIDE DEF p
  <2> QED  BY <1>6, <2>1
<1>8. ASSUME NEW t \in Tasks, ReceiveNothing(t) PROVE Underway(b)
  <2>1. UNCHANGED <<pipe, queue>> /\ \A u \in Tasks \cup {ES} : task'[u].buf \in {None, task[u].buf}
    BY <1>8 DEF ReceiveNothing, Goto, TaskType, Idle
  <2> QED  BY <2>1, Fresh DEF Underway, Queued
<1>9. ASSUME NEW t \in Tasks, ReceiveDone(t) PROVE Underway(b)
  <2> DEFINE p == task[t].pipe
             d == DepthAfter(p, content[task[t].buf].id)
  <2>1. UNCHANGED queue /\ p \in Pipes
        /\ \A u \in Tasks \cup {ES} : task'[u].buf \in {None, task[u].buf}
    BY <1>9 DEF ReceiveDone, Goto, TaskType, Idle, Call, Calls, InCall
  <2>2. \/ UNCHANGED pipe
        \/ pipe' = [pipe EXCEPT ![p] = [pipe[p] EXCEPT !.last = task[t].buf, !.depth = d]]
    BY <1>9, <2>1 DEF ReceiveDone, PipeType
  <2> HIDE DEF p, d
  <2>3. \A s \in Pipes : pipe'[s].last \in {pipe[s].last, task[t].buf}
    BY <2>1, <2>2 DEF PipeType, PipeRecord
  <2> QED  BY <2>1, <2>3, Fresh DEF Underway, Queued
<1>10. ASSUME NEW t \in Tasks \cup {ES}, DrainPrevious(t) PROVE Underway(b)
  <2>1. UNCHANGED <<pipe, queue>> /\ \A u \in Tasks \cup {ES} : task'[u].buf \in {None, task[u].buf}
    BY <1>10 DEF DrainPrevious, Goto, TaskType, Call
  <2> QED  BY <2>1, Fresh DEF Underway, Queued
<1>11. ASSUME NEW t \in Tasks \cup {ES}, DrainNext(t) PROVE Underway(b)
  <2> DEFINE p == task[t].pipe
  <2>1. p \in Pipes
    BY <1>11 DEF DrainNext, Calls, InCall, TaskType, Call
  <2>2. CASE queue[p] # <<>>
    <3>1. /\ UNCHANGED pipe /\ queue' = [queue EXCEPT ![p] = Tail(@)]
          /\ \A u \in (Tasks \cup {ES}) \ {t} : task'[u] = task[u]
          /\ task'[t].buf = Head(queue[p])
      BY <1>11, <2>2 DEF DrainNext, TaskType, Call, Goto
    <3> HIDE DEF p
    <3> QED  BY <1>6, <2>1, <2>2, <3>1
  <2>3. CASE queue[p] = <<>>
    <3>1. UNCHANGED queue /\ pipe' = [pipe EXCEPT ![p] = NoPipe]
          /\ \A u \in Tasks \cup {ES} : task'[u].buf \in {None, task[u].buf}
      BY <1>11, <2>3 DEF DrainNext, TaskType, Idle, Goto
    <3> HIDE DEF p
    <3>2. \A s \in Pipes : pipe'[s].last \in {None, pipe[s].last}
      BY <2>1, <3>1 DEF PipeType, NoPipe
    <3> QED  BY <3>1, <3>2, Fresh DEF Underway, Queued
  <2> QED  BY <2>2, <2>3
<1>12. ASSUME ZeroCopyReleaseAppId PROVE Underway(b)
  <2>1. UNCHANGED <<pipe, queue>> /\ \A u \in Tasks \cup {ES} : task'[u].buf \in {None, task[u].buf}
    BY <1>12 DEF ZeroCopyReleaseAppId, TaskType, Idle
  <2> QED  BY <2>1, Fresh DEF Underway, Queued
<1>13. ASSUME CleanUpPipe PROVE Underway(b)
  <2>1. PICK p \in cleaning.todo : ClosePipe(ES, p, cleaning.app)
    BY <1>13 DEF CleanUpPipe
  <2>2. p \in Pipes
    BY <2>1 DEF OtherTypes
  <2> QED  BY <1>2, <2>1, <2>2
<1> HIDE DEF Types, RInv, TInv, Shape
<1>14. CASE \E t \in Tasks :
              \/ \E p \in Pipes : CreatePipe(t, p) \/ SetPipeOpts(t, p) \/ ReceiveBuffer(t, p)
                                  \/ DeletePipe(t, p)
              \/ \E m \in Msgs, p \in Pipes : Unsubscribe(t, m, p)
                                              \/ \E lim \in Limits : Subscribe(t, m, p, lim)
              \/ AllocateMessageBuffer(t) \/ ReleaseMessageBuffer(t)
  BY <1>1, <1>2, <1>3, <1>14 DEF DeletePipe, Unsubscribe, Subscribe, AllocateMessageBuffer,
                                 ReleaseMessageBuffer
<1>15. CASE \/ \E m \in Msgs, p \in Pipes, active \in BOOLEAN : SetRoute(m, p, active)
            \/ \E a \in External : CleanUpApp(a)
  BY <1>3, <1>15 DEF SetRoute, CleanUpApp
<1> QED  BY <1>4, <1>5, <1>7, <1>8, <1>9, <1>10, <1>11, <1>12, <1>13, <1>14, <1>15 DEF Next

LEMMA MailUnderway == TInv => (Mail <=> \A b \in Buffers : Underway(b) => Sent(b))
<1> SUFFICES ASSUME TInv PROVE Mail <=> \A b \in Buffers : Underway(b) => Sent(b)
  OBVIOUS
<1> USE TypeParts DEF Types, TInv
<1>1. \A p \in Pipes : /\ \A i \in 1..Len(queue[p]) : queue[p][i] \in Buffers
                       /\ pipe[p].last # None => pipe[p].last \in Buffers
  BY DEF QueueType, PipeType, PipeRecord
<1>2. \A t \in Tasks \cup {ES} : task[t].buf # None => task[t].buf \in Buffers
  BY DEF TaskType, Call
<1> QED  BY <1>1, <1>2, Fresh DEF Mail, Underway, Queued

LEMMA MailUnderwayNext == (TInv => (Mail <=> \A b \in Buffers : Underway(b) => Sent(b)))'
BY MailUnderway, PTL

MInv == RInv /\ Mail

LEMMA InitMInv == Init => MInv
<1> SUFFICES ASSUME Init PROVE MInv
  OBVIOUS
<1>1. Mail
  BY DEF Init, Mail, NoPipe, Idle
<1> QED  BY <1>1, InitRInv DEF MInv

LEMMA StepMInv == MInv /\ [Next]_vars => MInv'
<1>1. ASSUME MInv, Next PROVE MInv'
  <2>1. RInv'
    BY <1>1, StepRInv DEF MInv
  <2>2. ASSUME NEW b \in Buffers, Underway(b)' PROVE Sent(b)'
    <3>1. CASE Underway(b)
      <4>1. Sent(b)
        BY <1>1, <3>1, MailUnderway DEF MInv, RInv
      <4> QED  BY <1>1, <3>1, <4>1, MessageStays DEF MInv, Sent
    <3> QED  BY <1>1, <2>1, <2>2, <3>1, NewMail DEF MInv
  <2>3. Mail'
    BY <2>1, <2>2, MailUnderwayNext DEF RInv
  <2> QED  BY <2>1, <2>3 DEF MInv
<1>2. ASSUME MInv, UNCHANGED vars PROVE MInv'
  <2>1. RInv'
    BY <1>2, StepRInv DEF MInv
  <2> QED  BY <1>2, <2>1 DEF MInv, Mail, Sent, vars
<1> QED  BY <1>1, <1>2

LEMMA AlwaysMInv == Spec => []MInv
BY InitMInv, StepMInv, PTL DEF Spec

----------------------------------------------------------------------------
(* Depths and message counts.                                              *)

\* The places of queue q, in contents C, that hold a message of ID m.
Marked(q, C, m) == {i \in DOMAIN q : C[q[i]].id = m}

LEMMA MarkedFinite ==
  ASSUME NEW q \in Seq(Buffers), NEW C, NEW m
  PROVE  IsFiniteSet(Marked(q, C, m)) /\ Cardinality(Marked(q, C, m)) \in Nat
<1>1. IsFiniteSet(1..Len(q))
  BY FS_Interval
<1>2. Marked(q, C, m) \subseteq 1..Len(q)
  BY DEF Marked
<1> QED  BY <1>1, <1>2, FS_Subset, FS_CardinalityType

LEMMA MarkedSame ==
  ASSUME NEW q \in Seq(Buffers), NEW C, NEW D, \A i \in 1..Len(q) : C[q[i]].id = D[q[i]].id, NEW m
  PROVE  Marked(q, C, m) = Marked(q, D, m)
BY DEF Marked

LEMMA MarkedAppend ==
  ASSUME NEW q \in Seq(Buffers), NEW b \in Buffers, NEW C, NEW m
  PROVE  Cardinality(Marked(Append(q, b), C, m))
           = Cardinality(Marked(q, C, m)) + (IF C[b].id = m THEN 1 ELSE 0)
<1> DEFINE x == Len(q) + 1
           A == Marked(q, C, m)
           B == Marked(Append(q, b), C, m)
<1>1. /\ Len(q) \in Nat /\ DOMAIN q = 1..Len(q) /\ DOMAIN Append(q, b) = 1..(Len(q) + 1)
      /\ Append(q, b)[x] = b
      /\ \A i \in 1..Len(q) : Append(q, b)[i] = q[i]
  OBVIOUS
<1>2. x \notin A /\ (x \in B <=> C[b].id = m)
  BY <1>1 DEF Marked
<1>3. \A y : y # x => (y \in A <=> y \in B)
  <2>1. ASSUME NEW y, y # x PROVE y \in DOMAIN q <=> y \in DOMAIN Append(q, b)
    BY <1>1, <2>1
  <2> QED  BY <1>1, <2>1 DEF Marked
<1>4. IsFiniteSet(A)
  BY MarkedFinite
<1> HIDE DEF x, A, B
<1>5. /\ Cardinality(A) \in Nat
      /\ Cardinality(B) = Cardinality(A) - (IF x \in A THEN 1 ELSE 0) + (IF x \in B THEN 1 ELSE 0)
  BY <1>3, <1>4, CountDiff
<1>6. Cardinality(B) = Cardinality(A) + (IF C[b].id = m THEN 1 ELSE 0)
  BY <1>2, <1>5
<1> QED  BY <1>6 DEF A, B

LEMMA MarkedTail ==
  ASSUME NEW q \in Seq(Buffers), q # <<>>, NEW C, NEW m
  PROVE  Cardinality(Marked(q, C, m))
           = Cardinality(Marked(Tail(q), C, m)) + (IF C[Head(q)].id = m THEN 1 ELSE 0)
<1> DEFINE A == Marked(q, C, m)
           B == Marked(Tail(q), C, m)
           rest == A \ {1}
<1>1. /\ Len(q) \in Nat \ {0} /\ Tail(q) \in Seq(Buffers) /\ Head(q) = q[1]
      /\ DOMAIN q = 1..Len(q) /\ DOMAIN Tail(q) = 1..(Len(q) - 1)
      /\ \A i \in 1..(Len(q) - 1) : Tail(q)[i] = q[i + 1]
  OBVIOUS
<1>2. 1 \in A <=> C[Head(q)].id = m
  BY <1>1 DEF Marked
<1>3. IsFiniteSet(A) /\ IsFiniteSet(B) /\ Cardinality(A) \in Nat /\ Cardinality(B) \in Nat
  BY <1>1, MarkedFinite
<1>4. \A i \in B : i + 1 \in rest
  BY <1>1 DEF Marked
<1>5. \A i \in rest : i - 1 \in B /\ (i - 1) + 1 = i
  <2> SUFFICES ASSUME NEW i \in 1..Len(q), i # 1, C[q[i]].id = m
               PROVE  i - 1 \in B /\ (i - 1) + 1 = i
    BY <1>1 DEF Marked
  <2>1. i - 1 \in 1..(Len(q) - 1) /\ (i - 1) + 1 = i
    BY <1>1
  <2>2. Tail(q)[i - 1] = q[i]
    BY <1>1, <2>1
  <2> QED  BY <1>1, <2>1, <2>2 DEF Marked
<1>6. \A i, j \in B : i + 1 = j + 1 => i = j
  BY <1>1 DEF Marked
<1>7. Cardinality(rest) = Cardinality(B)
  <2> DEFINE f == [i \in B |-> i + 1]
  <2> HIDE DEF A, B, rest
  <2>1. f \in [B -> rest]
    BY <1>4
  <2>2. \A i, j \in B : f[i] = f[j] => i = j
    BY <1>6
  <2>3. \A y \in rest : \E i \in B : f[i] = y
    BY <1>5
  <2> HIDE DEF f
  <2>4. f \in Bijection(B, rest)
    BY <2>1, <2>2, <2>3, Fun_IsBij
  <2> QED  BY <2>4, <1>3, FS_Bijection DEF ExistsBijection
<1>8. Cardinality(rest) = Cardinality(A) - (IF 1 \in A THEN 1 ELSE 0)
  <2>1. CASE 1 \in A
    BY <2>1, <1>3, FS_RemoveElement
  <2>2. CASE 1 \notin A
    <3>1. rest = A
      BY <2>2
    <3> HIDE DEF A, B, rest
    <3> QED  BY <3>1, <2>2, <1>3
  <2> QED  BY <2>1, <2>2
<1> HIDE DEF A, B, rest
<1>9. Cardinality(A) = Cardinality(B) + (IF C[Head(q)].id = m THEN 1 ELSE 0)
  BY <1>2, <1>3, <1>7, <1>8
<1> QED  BY <1>9 DEF A, B

\* The receivers that have taken a message from pipe p, and those of a message m.
Getters(p) == {t \in Tasks : At(t, "gotten") /\ task[t].pipe = p}
GetOf(m, p) == {t \in Tasks : At(t, "gotten") /\ task[t].pipe = p /\ content[task[t].buf].id = m}

Accounted(p) == Used(p) =>
  /\ pipe[p].depth = Len(queue[p]) + Cardinality(Getters(p))
  /\ \A m \in Msgs : Subscribed(m, p) =>
       /\ dest[m][p].count <= OnPipe(m, p)
       /\ p \notin leftover[m] => dest[m][p].count = OnPipe(m, p)

LEMMA AccountedPipes ==
  /\ PipeAccounted <=> \A p \in Pipes : Accounted(p)
  /\ PipeAccounted' <=> \A p \in Pipes : Accounted(p)'
BY DEF PipeAccounted, Accounted, Getters

LEMMA OnPipeParts ==
  ASSUME QueueType, NEW m, NEW p \in Pipes
  PROVE  /\ OnPipe(m, p) = Cardinality(Marked(queue[p], content, m)) + Cardinality(GetOf(m, p))
         /\ IsFiniteSet(Getters(p)) /\ Cardinality(Getters(p)) \in Nat
         /\ IsFiniteSet(GetOf(m, p)) /\ Cardinality(GetOf(m, p)) \in Nat
         /\ Cardinality(Marked(queue[p], content, m)) \in Nat
         /\ OnPipe(m, p) \in Nat
<1>1. Getters(p) \subseteq Tasks /\ GetOf(m, p) \subseteq Tasks
  BY DEF Getters, GetOf
<1>2. /\ IsFiniteSet(Getters(p)) /\ Cardinality(Getters(p)) \in Nat
      /\ IsFiniteSet(GetOf(m, p)) /\ Cardinality(GetOf(m, p)) \in Nat
  BY <1>1, SbAssumption, FS_Subset, FS_CardinalityType
<1>3. Cardinality(Marked(queue[p], content, m)) \in Nat
  BY MarkedFinite DEF QueueType
<1>4. OnPipe(m, p) = Cardinality(Marked(queue[p], content, m)) + Cardinality(GetOf(m, p))
  BY DEF OnPipe, Marked, GetOf
<1> QED  BY <1>2, <1>3, <1>4

\* A step that takes no message from a queue and finishes no receive; one that
\* does neither for pipe p.
SameGetters == \A t \in Tasks : IF At(t, "gotten") THEN task'[t] = task[t] ELSE ~At(t, "gotten")'
GotFrom(t, p) == At(t, "gotten") /\ task[t].pipe = p
SameGettersOf(p) ==
  \A t \in Tasks : IF GotFrom(t, p) THEN task'[t] = task[t] ELSE ~GotFrom(t, p)'

LEMMA SameGettersAll == SameGetters => \A p \in Pipes : SameGettersOf(p)
BY DEF SameGetters, SameGettersOf, GotFrom, At

LEMMA GotoSameGetters ==
  ASSUME TaskType, NEW t \in Tasks \cup {ES}, NEW r, Goto(t, r), ~At(t, "gotten"), r.pc # "gotten"
  PROVE  SameGetters
BY DEF TaskType, Goto, SameGetters, At

\* The messages under way keep their IDs.
LEMMA SameIds ==
  ASSUME MInv, Next
  PROVE  /\ \A p \in Pipes : \A i \in 1..Len(queue[p]) : content'[queue[p][i]].id = content[queue[p][i]].id
         /\ \A t \in Tasks : At(t, "gotten") => content'[task[t].buf].id = content[task[t].buf].id
<1> USE TypeParts DEF Types, MInv, RInv, TInv, Shape
<1>1. ASSUME NEW p \in Pipes, NEW i \in 1..Len(queue[p])
      PROVE  content'[queue[p][i]].id = content[queue[p][i]].id
  <2>1. queue[p][i] \in Buffers
    BY DEF QueueType
  <2>2. Underway(queue[p][i])
    BY DEF Underway, Queued
  <2> QED  BY <2>1, <2>2, MessageStays
<1>2. ASSUME NEW t \in Tasks, At(t, "gotten")
      PROVE  content'[task[t].buf].id = content[task[t].buf].id
  <2>1. task[t].buf \in Buffers
    BY <1>2 DEF Calls, InCall, TaskType, Call
  <2>2. Underway(task[t].buf)
    BY DEF Underway
  <2> QED  BY <2>1, <2>2, MessageStays
<1> QED  BY <1>1, <1>2

\* What is on a pipe whose queue and receivers stay.
LEMMA SamePipe ==
  ASSUME MInv, Next, NEW p \in Pipes, queue'[p] = queue[p], SameGettersOf(p)
  PROVE  /\ Getters(p)' = Getters(p)
         /\ \A m : OnPipe(m, p)' = OnPipe(m, p)
<1>1. Getters(p)' = Getters(p)
  BY DEF Getters, SameGettersOf, GotFrom, At
<1>2. ASSUME NEW m PROVE OnPipe(m, p)' = OnPipe(m, p)
  <2>1. {t \in Tasks : At(t, "gotten") /\ task[t].pipe = p /\ content[task[t].buf].id = m}'
        = {t \in Tasks : At(t, "gotten") /\ task[t].pipe = p /\ content[task[t].buf].id = m}
    BY SameIds DEF SameGettersOf, GotFrom, At
  <2>2. {i \in DOMAIN queue[p] : content[queue[p][i]].id = m}'
        = {i \in DOMAIN queue[p] : content[queue[p][i]].id = m}
    <3>1. DOMAIN queue[p] = 1..Len(queue[p])
      BY TypeParts DEF MInv, RInv, TInv, Types, QueueType
    <3>2. \A i \in 1..Len(queue[p]) : content'[queue[p][i]].id = content[queue[p][i]].id
      BY SameIds
    <3> QED  BY <3>1, <3>2
  <2> QED  BY <2>1, <2>2 DEF OnPipe
<1> QED  BY <1>1, <1>2

LEMMA SameAccounted ==
  ASSUME MInv, Next, NEW p \in Pipes, Accounted(p), SameGettersOf(p), queue'[p] = queue[p],
         Used(p)' => Used(p) /\ pipe'[p].depth = pipe[p].depth,
         \A m \in Msgs : Subscribed(m, p)' => Subscribed(m, p) /\ dest'[m][p].count = dest[m][p].count,
         UNCHANGED leftover
  PROVE  Accounted(p)'
BY SamePipe DEF Accounted

\* Steps of a task that is not receiving, which leave queues and counts alone.
LEMMA QuietStep ==
  ASSUME MInv, Next, PipeAccounted, SameGetters, UNCHANGED <<queue, leftover>>,
         \A p \in Pipes : Used(p)' => Used(p) /\ pipe'[p].depth = pipe[p].depth,
         \A m \in Msgs, p \in Pipes :
            Subscribed(m, p)' => Subscribed(m, p) /\ dest'[m][p].count = dest[m][p].count
  PROVE  PipeAccounted'
BY SameGettersAll, SameAccounted, AccountedPipes

LEMMA CreateAccounted ==
  ASSUME MInv, Next, PipeAccounted, NEW t \in Tasks, NEW p \in Pipes, CreatePipe(t, p)
  PROVE  PipeAccounted'
<1> USE TypeParts DEF MInv, RInv, TInv, Shape, Types
<1>1. UNCHANGED <<queue, dest, content, task, leftover>>
  BY DEF CreatePipe
<1>2. /\ pipe'[p].depth = 0
      /\ \A s \in Pipes \ {p} : pipe'[s] = pipe[s]
  BY DEF CreatePipe, PipeType, NoPipe
<1>3. queue[p] = <<>> /\ \A m \in Msgs : ~Subscribed(m, p)
  BY DEF CreatePipe, PipeStates, Used
<1>4. Getters(p)' = {}
  BY <1>1 DEF CreatePipe, Getters, At
<1>5. Accounted(p)'
  BY <1>1, <1>2, <1>3, <1>4, FS_EmptySet DEF Accounted, Subscribed
<1>6. SameGetters
  BY <1>1 DEF SameGetters, At
<1> HIDE DEF MInv, RInv, TInv, Shape, Types
<1>7. ASSUME NEW s \in Pipes, s # p PROVE Accounted(s)'
  <2>1. UNCHANGED pipe[s] /\ UNCHANGED <<dest, leftover>> /\ queue'[s] = queue[s]
    BY <1>1, <1>2, <1>7
  <2> QED  BY <1>6, <2>1, SameGettersAll, SameAccounted, AccountedPipes DEF Used, Subscribed
<1> QED  BY <1>5, <1>7, AccountedPipes

LEMMA SubscribeAccounted ==
  ASSUME MInv, Next, PipeAccounted, NEW t \in Tasks, NEW m \in Msgs, NEW p \in Pipes,
         NEW lim \in Limits, Subscribe(t, m, p, lim)
  PROVE  PipeAccounted'
<1> USE TypeParts DEF MInv, RInv, TInv, Shape, Types
<1>1. UNCHANGED <<pipe, queue, content, task>>
  BY DEF Subscribe
<1>2. dest'[m][p].count = 0
  BY DEF Subscribe, DestType
<1>3. \A n \in Msgs, s \in Pipes : n # m \/ s # p => dest'[n][s] = dest[n][s]
  BY DEF Subscribe, DestType
<1>4. /\ p \notin leftover'[m] => ~(OnPipe(m, p) > 0)
      /\ \A n \in Msgs, s \in Pipes : n # m \/ s # p => (s \in leftover'[n] <=> s \in leftover[n])
  BY DEF Subscribe, OtherTypes
<1>5. \A n \in Msgs, s \in Pipes : OnPipe(n, s)' = OnPipe(n, s) /\ Getters(s)' = Getters(s)
                                   /\ OnPipe(n, s) \in Nat
  BY <1>1, OnPipeParts DEF OnPipe, Getters, At
<1> HIDE DEF MInv, RInv, TInv, Shape, Types
<1>6. ASSUME NEW s \in Pipes PROVE Accounted(s)'
  <2>1. Accounted(s)
    BY AccountedPipes
  <2>2. ASSUME Used(s)', NEW n \in Msgs, Subscribed(n, s)'
        PROVE  dest'[n][s].count <= OnPipe(n, s)
               /\ (s \notin leftover'[n] => dest'[n][s].count = OnPipe(n, s))
    <3>1. CASE n = m /\ s = p
      BY <1>2, <1>4, <1>5, <3>1
    <3>2. CASE n # m \/ s # p
      <4>1. Used(s) /\ Subscribed(n, s)
        BY <1>1, <1>3, <2>2, <3>2 DEF Used, Subscribed
      <4> QED  BY <1>3, <1>4, <2>1, <3>2, <4>1 DEF Accounted
    <3> QED  BY <3>1, <3>2
  <2> QED  BY <1>1, <1>5, <2>1, <2>2 DEF Accounted, Used
<1> QED  BY <1>6, AccountedPipes

LEMMA BroadcastAccounted ==
  ASSUME MInv, MInv', Next, PipeAccounted, NEW t \in Tasks, BroadcastBufferToRoute(t)
  PROVE  PipeAccounted'
<1> USE TypeParts DEF MInv, RInv, TInv, Shape, Types
<1> DEFINE b == task[t].buf
           m == content[b].id
<1>1. PICK to \in SUBSET Pipes :
           /\ b \in Buffers
           /\ to = IF task[t].routed THEN Targets(t, m) ELSE {}
           /\ \A p \in Pipes : queue'[p] = IF p \in to THEN Append(queue[p], b) ELSE queue[p]
           /\ \A p \in Pipes : pipe'[p] = IF p \in to THEN [pipe[p] EXCEPT !.depth = @ + 1] ELSE pipe[p]
           /\ \A n \in Msgs, p \in Pipes : dest'[n][p] =
                IF n = m /\ p \in to THEN [dest[n][p] EXCEPT !.count = @ + 1] ELSE dest[n][p]
           /\ content' = [content EXCEPT ![b].app = None]
           /\ Goto(t, Idle) /\ UNCHANGED leftover
  BY BroadcastParts
<1>2. SameGetters
  BY <1>1, GotoSameGetters DEF BroadcastBufferToRoute, At, Idle
<1>3. m \in Msgs /\ \A c \in Buffers : content'[c].id = content[c].id
  BY <1>1, Fresh DEF Mail, Sent, ContentType, Content
<1>4. \A p \in to : Used(p) /\ Subscribed(m, p)
  BY <1>1 DEF Targets
<1>5. ASSUME NEW p \in Pipes, p \notin to PROVE Accounted(p)'
  <2>1. UNCHANGED leftover /\ queue'[p] = queue[p] /\ pipe'[p] = pipe[p]
        /\ \A n \in Msgs : dest'[n][p] = dest[n][p]
    BY <1>1, <1>5
  <2> HIDE DEF MInv, RInv, TInv, Shape, Types
  <2> QED  BY <1>2, <2>1, SameGettersAll, SameAccounted, AccountedPipes DEF Used, Subscribed
<1>6. ASSUME NEW p \in to PROVE Accounted(p)'
  <2>1. queue[p] \in Seq(Buffers) /\ queue'[p] = Append(queue[p], b) /\ b \in Buffers
    BY <1>1, <1>6 DEF QueueType
  <2>2. Len(queue'[p]) = Len(queue[p]) + 1 /\ Len(queue[p]) \in Nat
    BY <2>1
  <2>3. pipe'[p].depth = pipe[p].depth + 1
    BY <1>1, <1>6 DEF PipeType, PipeRecord
  <2>4. Getters(p)' = Getters(p) /\ \A n : GetOf(n, p)' = GetOf(n, p)
    <3>1. \A u \in Tasks : At(u, "gotten") => content'[task[u].buf].id = content[task[u].buf].id
      BY SameIds
    <3> QED  BY <1>2, <3>1 DEF Getters, GetOf, SameGetters, At
  <2>5. Accounted(p) /\ Used(p)
    BY <1>4, <1>6, AccountedPipes
  <2>6. ASSUME NEW n \in Msgs
        PROVE  OnPipe(n, p)' = OnPipe(n, p) + (IF m = n THEN 1 ELSE 0) /\ OnPipe(n, p) \in Nat
    <3>1. Marked(queue'[p], content', n) = Marked(queue'[p], content, n)
      <4>1. queue'[p] \in Seq(Buffers)
        BY <2>1
      <4>2. \A i \in 1..Len(queue'[p]) : content'[queue'[p][i]].id = content[queue'[p][i]].id
        BY <1>3, <4>1
      <4> QED  BY <4>1, <4>2, MarkedSame
    <3>2. Cardinality(Marked(queue'[p], content, n))
            = Cardinality(Marked(queue[p], content, n)) + (IF m = n THEN 1 ELSE 0)
      BY <2>1, MarkedAppend
    <3>3. OnPipe(n, p)' = Cardinality(Marked(queue'[p], content', n)) + Cardinality(GetOf(n, p)')
      BY DEF OnPipe, Marked, GetOf
    <3> HIDE DEF MInv, RInv, TInv, Shape, Types, m, b
    <3>4. QueueType
      BY DEF MInv, RInv, TInv, Types
    <3> QED  BY <2>4, <3>1, <3>2, <3>3, <3>4, OnPipeParts
  <2>7. Cardinality(Getters(p)) \in Nat
    BY OnPipeParts
  <2>8. Len(queue'[p]) + Cardinality(Getters(p)') = pipe'[p].depth
    BY <2>2, <2>3, <2>4, <2>5, <2>7 DEF Accounted
  <2>9. ASSUME NEW n \in Msgs, Subscribed(n, p)'
        PROVE  /\ dest'[n][p].count <= OnPipe(n, p)'
               /\ p \notin leftover'[n] => dest'[n][p].count = OnPipe(n, p)'
    <3>1. CASE n = m
      <4>1. Subscribed(n, p) /\ dest[n][p] \in Subscription
        BY <1>4, <1>6, <3>1 DEF DestType, Subscribed
      <4>2. dest'[n][p].count = dest[n][p].count + 1 /\ dest[n][p].count \in Nat
        <5>1. dest'[n][p] = [dest[n][p] EXCEPT !.count = @ + 1]
          BY <1>1, <1>6, <3>1
        <5> HIDE DEF MInv, RInv, TInv, Shape, Types, m, b
        <5> QED  BY <4>1, <5>1 DEF Subscription
      <4>3. UNCHANGED leftover
        BY <1>1
      <4>4. OnPipe(n, p)' = OnPipe(n, p) + 1 /\ OnPipe(n, p) \in Nat
        BY <2>6, <3>1
      <4>5. /\ dest[n][p].count <= OnPipe(n, p)
            /\ p \notin leftover[n] => dest[n][p].count = OnPipe(n, p)
        BY <2>5, <4>1 DEF Accounted
      <4> HIDE DEF MInv, RInv, TInv, Shape, Types, m, b
      <4> QED  BY <4>2, <4>3, <4>4, <4>5
    <3>2. CASE n # m
      <4>1. dest'[n][p] = dest[n][p] /\ UNCHANGED leftover
        BY <1>1, <3>2
      <4>2. OnPipe(n, p)' = OnPipe(n, p)
        BY <2>6, <3>2
      <4> HIDE DEF MInv, RInv, TInv, Shape, Types, m, b
      <4> QED  BY <2>5, <2>9, <4>1, <4>2 DEF Accounted, Subscribed
    <3> QED  BY <3>1, <3>2
  <2> QED  BY <2>8, <2>9 DEF Accounted
<1> QED  BY <1>5, <1>6, AccountedPipes

LEMMA GetAccounted ==
  ASSUME MInv, Next, PipeAccounted, NEW t \in Tasks, QueueGet(t),
         NEW p, p = task[t].pipe, NEW h, h = Head(queue[p])
  PROVE  PipeAccounted'
<1> USE TypeParts DEF MInv, RInv, TInv, Shape, Types
<1>1. /\ p \in Pipes /\ queue[p] # <<>> /\ At(t, "waiting")
      /\ queue'[p] = Tail(queue[p]) /\ \A s \in Pipes \ {p} : queue'[s] = queue[s]
      /\ UNCHANGED <<pipe, dest, content, leftover>>
  BY DEF QueueGet, Calls, InCall, TaskType, Call, QueueType
<1>2. /\ task'[t].pc = "gotten" /\ task'[t].pipe = p /\ task'[t].buf = h
      /\ \A u \in Tasks \ {t} : task'[u] = task[u]
  BY DEF QueueGet, Goto, TaskType, Call
<1>3. ASSUME NEW s \in Pipes, s # p PROVE Accounted(s)'
  <2>1. SameGettersOf(s)
    BY <1>1, <1>2, <1>3 DEF SameGettersOf, GotFrom, At
  <2>2. UNCHANGED <<pipe, dest, leftover>> /\ queue'[s] = queue[s]
    BY <1>1, <1>3
  <2> HIDE DEF MInv, RInv, TInv, Shape, Types
  <2> QED  BY <2>1, <2>2, SameAccounted, AccountedPipes DEF Used, Subscribed
<1>4. Accounted(p)'
  <2>1. queue[p] \in Seq(Buffers) /\ Len(queue[p]) \in Nat /\ Len(queue'[p]) = Len(queue[p]) - 1
    BY <1>1 DEF QueueType
  <2>2. Cardinality(Getters(p)') = Cardinality(Getters(p)) + 1 /\ Cardinality(Getters(p)) \in Nat
    <3>1. t \notin Getters(p) /\ t \in Getters(p)'
      BY <1>1, <1>2 DEF Getters, At
    <3>2. \A y : y # t => (y \in Getters(p) <=> y \in Getters(p)')
      BY <1>2 DEF Getters, At
    <3>3. IsFiniteSet(Getters(p))
      BY <1>1, OnPipeParts
    <3> HIDE DEF MInv, RInv, TInv, Shape, Types
    <3> DEFINE A == Getters(p)
               B == Getters(p)'
    <3>4. t \notin A /\ t \in B /\ IsFiniteSet(A) /\ \A y : y # t => (y \in A <=> y \in B)
      BY <3>1, <3>2, <3>3
    <3> HIDE DEF A, B
    <3>5. Cardinality(B) = Cardinality(A) + 1 /\ Cardinality(A) \in Nat
      BY <3>4, CountDiff
    <3> QED  BY <3>5 DEF A, B
  <2>3. ASSUME NEW n PROVE OnPipe(n, p)' = OnPipe(n, p)
    <3> DEFINE A == GetOf(n, p)
               B == GetOf(n, p)'
               mark == Cardinality(Marked(queue[p], content, n))
               rest == Cardinality(Marked(Tail(queue[p]), content, n))
    <3>1. t \notin A /\ (t \in B <=> content[h].id = n)
      BY <1>1, <1>2 DEF GetOf, At
    <3>2. \A y : y # t => (y \in A <=> y \in B)
      BY <1>1, <1>2 DEF GetOf, At
    <3>3. IsFiniteSet(A) /\ mark \in Nat /\ OnPipe(n, p) = mark + Cardinality(A)
      BY <1>1, OnPipeParts
    <3>4. OnPipe(n, p)' = rest + Cardinality(B)
      BY <1>1 DEF OnPipe, Marked, GetOf
    <3>5. mark = rest + (IF content[h].id = n THEN 1 ELSE 0)
      BY <1>1, <2>1, MarkedTail
    <3>6. rest \in Nat
      <4>1. Tail(queue[p]) \in Seq(Buffers)
        BY <1>1, <2>1
      <4> QED  BY <4>1, MarkedFinite
    <3> HIDE DEF MInv, RInv, TInv, Shape, Types, A, B, mark, rest
    <3>7. /\ Cardinality(A) \in Nat
          /\ Cardinality(B) = Cardinality(A) + (IF content[h].id = n THEN 1 ELSE 0)
      BY <3>1, <3>2, <3>3, CountDiff
    <3> QED  BY <3>3, <3>4, <3>5, <3>6, <3>7
  <2>4. Accounted(p)
    BY <1>1, AccountedPipes
  <2>5. UNCHANGED <<pipe, dest, leftover>>
    BY <1>1
  <2> HIDE DEF MInv, RInv, TInv, Shape, Types
  <2>6. Len(queue'[p]) + Cardinality(Getters(p)') = Len(queue[p]) + Cardinality(Getters(p))
    <3> DEFINE l == Len(queue[p])
               g == Cardinality(Getters(p))
               ln == Len(queue'[p])
               gn == Cardinality(Getters(p)')
    <3>1. l \in Nat /\ ln = l - 1 /\ g \in Nat /\ gn = g + 1
      BY <2>1, <2>2
    <3> HIDE DEF l, g, ln, gn
    <3>2. ln + gn = l + g
      BY <3>1
    <3> QED  BY <3>2 DEF l, g, ln, gn
  <2>7. ASSUME NEW n \in Msgs
        PROVE  /\ Subscribed(n, p)' = Subscribed(n, p) /\ dest'[n][p] = dest[n][p]
               /\ (p \notin leftover'[n]) = (p \notin leftover[n])
    BY <2>5 DEF Subscribed
  <2> QED  BY <2>3, <2>4, <2>5, <2>6, <2>7 DEF Accounted, Used
<1> HIDE DEF MInv, RInv, TInv, Shape, Types
<1> QED  BY <1>3, <1>4, AccountedPipes

LEMMA DoneAccounted ==
  ASSUME MInv, MInv', Next, PipeAccounted, NEW t \in Tasks, ReceiveDone(t),
         NEW p, p = task[t].pipe, NEW b, b = task[t].buf, NEW m, m = content[b].id
  PROVE  PipeAccounted'
<1> USE TypeParts DEF MInv, RInv, TInv, Shape, Types
<1> DEFINE d == Less(pipe[p].depth)
<1>1. /\ p \in Pipes /\ b \in Buffers /\ At(t, "gotten") /\ m \in Msgs
      /\ UNCHANGED <<queue, content, leftover>>
  BY DEF ReceiveDone, Calls, InCall, TaskType, Call, Mail, Sent
<1>2. task'[t].pc = "idle" /\ \A u \in Tasks \ {t} : task'[u] = task[u]
  BY DEF ReceiveDone, Goto, TaskType, Idle
<1>3. /\ \A s \in Pipes \ {p} : pipe'[s] = pipe[s]
      /\ Used(p)' => Used(p) /\ pipe'[p].depth = d
  <2>1. CASE Used(p)
    <3>1. pipe' = [pipe EXCEPT ![p] = [pipe[p] EXCEPT !.last = b, !.depth = d]]
      BY <1>1, <2>1 DEF ReceiveDone, DepthAfter, PipeType
    <3> HIDE DEF d
    <3> QED  BY <1>1, <2>1, <3>1 DEF PipeType, PipeRecord
  <2>2. CASE ~Used(p)
    BY <2>2 DEF ReceiveDone, Used
  <2> QED  BY <2>1, <2>2
<1>4. /\ \A n \in Msgs, s \in Pipes : n # m \/ s # p => dest'[n][s] = dest[n][s]
      /\ Used(p) /\ Subscribed(m, p)' => /\ Subscribed(m, p)
                                         /\ dest'[m][p].count = Less(dest[m][p].count)
  <2>1. CASE Used(p) /\ Subscribed(m, p)
    <3> DEFINE c == Less(dest[m][p].count)
    <3>4. dest[m][p] \in Subscription
      BY <1>1, <2>1 DEF DestType, Subscribed
    <3>5. dest' = [dest EXCEPT ![m][p].count = c]
      BY <2>1 DEF ReceiveDone
    <3>1. dest' = [dest EXCEPT ![m][p].count = c] /\ dest[m][p] \in Subscription
      BY <3>4, <3>5
    <3> HIDE DEF c, d
    <3>2. /\ \A n \in Msgs, s \in Pipes : n # m \/ s # p => dest'[n][s] = dest[n][s]
          /\ dest'[m][p] = [dest[m][p] EXCEPT !.count = c]
      BY <1>1, <3>1 DEF DestType
    <3>3. dest'[m][p].count = c
      BY <3>1, <3>2 DEF Subscription
    <3> QED  BY <2>1, <3>2, <3>3 DEF c
  <2>2. CASE ~(Used(p) /\ Subscribed(m, p))
    BY <2>2 DEF ReceiveDone, Subscribed
  <2> QED  BY <2>1, <2>2
<1>5. ASSUME NEW s \in Pipes, s # p PROVE Accounted(s)'
  <2>1. SameGettersOf(s)
    BY <1>1, <1>2, <1>5 DEF SameGettersOf, GotFrom, At
  <2>2. /\ UNCHANGED leftover /\ queue'[s] = queue[s] /\ pipe'[s] = pipe[s]
        /\ \A n \in Msgs : dest'[n][s] = dest[n][s]
    BY <1>1, <1>3, <1>4, <1>5
  <2> HIDE DEF MInv, RInv, TInv, Shape, Types, d
  <2> QED  BY <2>1, <2>2, SameAccounted, AccountedPipes DEF Used, Subscribed
<1>6. Accounted(p)'
  <2>1. /\ Cardinality(Getters(p)) = Cardinality(Getters(p)') + 1
        /\ Cardinality(Getters(p)') \in Nat
    <3> DEFINE A == Getters(p)
               B == Getters(p)'
    <3>1. t \in A /\ t \notin B
      BY <1>1, <1>2 DEF Getters, At
    <3>2. \A y : y # t => (y \in A <=> y \in B)
      BY <1>2 DEF Getters, At
    <3>3. IsFiniteSet(A)
      BY <1>1, OnPipeParts
    <3> HIDE DEF MInv, RInv, TInv, Shape, Types, d, A, B
    <3>4. Cardinality(A) = Cardinality(B) + 1 /\ Cardinality(B) \in Nat
      BY <3>1, <3>2, <3>3, CountDiff
    <3> QED  BY <3>4 DEF A, B
  <2>2. ASSUME NEW n PROVE /\ OnPipe(n, p) = OnPipe(n, p)' + (IF m = n THEN 1 ELSE 0)
                           /\ OnPipe(n, p)' \in Nat
    <3> DEFINE A == GetOf(n, p)
               B == GetOf(n, p)'
               mark == Cardinality(Marked(queue[p], content, n))
    <3>1. t \notin B /\ (t \in A <=> m = n)
      BY <1>1, <1>2 DEF GetOf, At
    <3>2. \A y : y # t => (y \in A <=> y \in B)
      BY <1>1, <1>2 DEF GetOf, At
    <3>3. IsFiniteSet(A) /\ mark \in Nat /\ OnPipe(n, p) = mark + Cardinality(A)
      BY <1>1, OnPipeParts
    <3>4. OnPipe(n, p)' = mark + Cardinality(B)
      BY <1>1 DEF OnPipe, Marked, GetOf
    <3> HIDE DEF MInv, RInv, TInv, Shape, Types, d, A, B, mark
    <3>5. /\ Cardinality(A) \in Nat /\ Cardinality(B) \in Nat
          /\ Cardinality(A) = Cardinality(B) + (IF m = n THEN 1 ELSE 0)
      BY <3>1, <3>2, <3>3, CountDiff
    <3> QED  BY <3>3, <3>4, <3>5
  <2>3. Accounted(p)
    BY <1>1, AccountedPipes
  <2>4. Len(queue[p]) \in Nat /\ UNCHANGED <<queue, leftover>>
    BY <1>1 DEF QueueType
  <2>5. ASSUME Used(p)' PROVE pipe'[p].depth = (Len(queue[p]) + Cardinality(Getters(p)))'
    <3>1. pipe[p].depth = Len(queue[p]) + Cardinality(Getters(p))
      BY <1>3, <2>3, <2>5 DEF Accounted
    <3>2. pipe'[p].depth = Less(pipe[p].depth) /\ queue' = queue
      BY <1>3, <2>4, <2>5
    <3> HIDE DEF MInv, RInv, TInv, Shape, Types, d
    <3> QED  BY <2>1, <2>4, <3>1, <3>2 DEF Less
  <2>6. ASSUME Used(p)', NEW n \in Msgs, Subscribed(n, p)'
        PROVE  /\ dest'[n][p].count <= OnPipe(n, p)'
               /\ p \notin leftover'[n] => dest'[n][p].count = OnPipe(n, p)'
    <3>1. CASE n = m
      <4>1. /\ Subscribed(n, p) /\ dest'[n][p].count = Less(dest[n][p].count)
            /\ dest[n][p].count \in Nat
        BY <1>1, <1>3, <1>4, <2>6, <3>1 DEF DestType, Subscription, Subscribed
      <4>2. /\ dest[n][p].count <= OnPipe(n, p)
            /\ p \notin leftover[n] => dest[n][p].count = OnPipe(n, p)
        BY <1>3, <2>3, <2>6, <4>1 DEF Accounted
      <4>3. OnPipe(n, p) = OnPipe(n, p)' + 1 /\ OnPipe(n, p)' \in Nat
        BY <2>2, <3>1
      <4> HIDE DEF MInv, RInv, TInv, Shape, Types, d
      <4> QED  BY <2>4, <4>1, <4>2, <4>3 DEF Less
    <3>2. CASE n # m
      <4>1. dest'[n][p] = dest[n][p] /\ UNCHANGED leftover /\ Used(p)
        BY <1>1, <1>3, <1>4, <2>6, <3>2
      <4>2. OnPipe(n, p)' = OnPipe(n, p)
        BY <2>2, <3>2
      <4> HIDE DEF MInv, RInv, TInv, Shape, Types, d
      <4> QED  BY <2>3, <2>6, <4>1, <4>2 DEF Accounted, Subscribed
    <3> QED  BY <3>1, <3>2
  <2> QED  BY <2>5, <2>6 DEF Accounted
<1> HIDE DEF MInv, RInv, TInv, Shape, Types, d
<1> QED  BY <1>5, <1>6, AccountedPipes

LEMMA CloseAccounted ==
  ASSUME MInv, Next, PipeAccounted, NEW t \in Tasks \cup {ES}, NEW p \in Pipes, NEW a,
         At(t, "idle"), ClosePipe(t, p, a)
  PROVE  PipeAccounted'
<1> USE TypeParts DEF MInv, RInv, TInv, Shape, Types
<1>1. SameGetters
  BY GotoSameGetters DEF ClosePipe, At, Idle
<1>2. \A s \in Pipes : Used(s)' => Used(s) /\ pipe'[s].depth = pipe[s].depth
  BY DEF ClosePipe, PipeType, PipeRecord, Used
<1>3. \A m \in Msgs, s \in Pipes :
         Subscribed(m, s)' => Subscribed(m, s) /\ dest'[m][s].count = dest[m][s].count
  BY DEF ClosePipe, DestType, Subscribed
<1>4. UNCHANGED <<queue, leftover>>
  BY DEF ClosePipe
<1> HIDE DEF MInv, RInv, TInv, Shape, Types
<1> QED  BY <1>1, <1>2, <1>3, <1>4, QuietStep

LEMMA DrainAccounted ==
  ASSUME MInv, Next, PipeAccounted, NEW t \in Tasks \cup {ES}, DrainNext(t),
         NEW p, p = task[t].pipe
  PROVE  PipeAccounted'
<1> USE TypeParts DEF MInv, RInv, TInv, Shape, Types
<1>1. p \in Pipes /\ ~Used(p) /\ UNCHANGED <<dest, leftover>>
  BY DEF DrainNext, Calls, InCall, TaskType, Call, Used
<1>2. /\ ~Used(p)' /\ \A s \in Pipes \ {p} : pipe'[s] = pipe[s] /\ queue'[s] = queue[s]
  BY <1>1 DEF DrainNext, Used, PipeType, QueueType, NoPipe
<1>3. SameGetters
  <2>1. \E r : r.pc # "gotten" /\ Goto(t, r)
    <3>1. CASE queue[p] # <<>>
      BY <3>1 DEF DrainNext, At, TaskType, Call
    <3>2. CASE queue[p] = <<>>
      BY <3>2 DEF DrainNext, Idle
    <3> QED  BY <3>1, <3>2
  <2> QED  BY <2>1, GotoSameGetters DEF DrainNext, At
<1>4. Accounted(p)'
  BY <1>2 DEF Accounted
<1> HIDE DEF MInv, RInv, TInv, Shape, Types
<1>5. ASSUME NEW s \in Pipes, s # p PROVE Accounted(s)'
  <2>1. UNCHANGED <<dest, leftover>> /\ pipe'[s] = pipe[s] /\ queue'[s] = queue[s]
    BY <1>1, <1>2, <1>5
  <2> QED  BY <1>3, <2>1, SameGettersAll, SameAccounted, AccountedPipes DEF Used, Subscribed
<1> QED  BY <1>4, <1>5, AccountedPipes

\* Steps of a task that neither begin nor end a receive, and change none of the
\* pipes and subscriptions.
LEMMA CallAccounted ==
  ASSUME MInv, Next, PipeAccounted, SameGetters, UNCHANGED <<pipe, queue, dest, leftover>>
  PROVE  PipeAccounted'
BY QuietStep DEF Used, Subscribed

LEMMA AccountedStep ==
  ASSUME MInv, MInv', Next, PipeAccounted
  PROVE  PipeAccounted'
<1> USE TypeParts DEF MInv, RInv, TInv, Shape, Types
<1>1. ASSUME NEW t \in Tasks, NEW p \in Pipes, SetPipeOpts(t, p) PROVE PipeAccounted'
  <2>1. UNCHANGED <<queue, dest, leftover, task>>
    BY <1>1 DEF SetPipeOpts
  <2>2. \A s \in Pipes : Used(s)' => Used(s) /\ pipe'[s].depth = pipe[s].depth
    BY <1>1 DEF SetPipeOpts, PipeType, PipeRecord, Used
  <2>3. SameGetters
    BY <2>1 DEF SameGetters, At
  <2> HIDE DEF MInv, RInv, TInv, Shape, Types
  <2> QED  BY <2>1, <2>2, <2>3, QuietStep DEF Subscribed
<1>2. ASSUME NEW t \in Tasks, NEW p \in Pipes, ReceiveBuffer(t, p) PROVE PipeAccounted'
  <2>1. UNCHANGED <<queue, dest, leftover>>
    BY <1>2 DEF ReceiveBuffer
  <2>2. \A s \in Pipes : Used(s)' => Used(s) /\ pipe'[s].depth = pipe[s].depth
    BY <1>2 DEF ReceiveBuffer, PipeType, PipeRecord, Used
  <2>3. SameGetters
    <3>1. \E r : r.pc # "gotten" /\ Goto(t, r)
      BY <1>2 DEF ReceiveBuffer, Idle
    <3> QED  BY <1>2, <3>1, GotoSameGetters DEF ReceiveBuffer, At
  <2> HIDE DEF MInv, RInv, TInv, Shape, Types
  <2> QED  BY <2>1, <2>2, <2>3, QuietStep DEF Subscribed
<1>3. ASSUME NEW t \in Tasks, NEW m \in Msgs, NEW p \in Pipes, Unsubscribe(t, m, p)
      PROVE  PipeAccounted'
  <2>1. UNCHANGED <<pipe, queue, leftover, task>>
    BY <1>3 DEF Unsubscribe
  <2>2. \A n \in Msgs, s \in Pipes :
           Subscribed(n, s)' => Subscribed(n, s) /\ dest'[n][s].count = dest[n][s].count
    BY <1>3 DEF Unsubscribe, DestType, Subscribed
  <2>3. SameGetters
    BY <2>1 DEF SameGetters, At
  <2> HIDE DEF MInv, RInv, TInv, Shape, Types
  <2> QED  BY <2>1, <2>2, <2>3, QuietStep DEF Used
<1>4. ASSUME NEW m \in Msgs, NEW p \in Pipes, NEW active \in BOOLEAN, SetRoute(m, p, active)
      PROVE  PipeAccounted'
  <2>1. UNCHANGED <<pipe, queue, leftover, task>>
    BY <1>4 DEF SetRoute
  <2>2. \A n \in Msgs, s \in Pipes :
           Subscribed(n, s)' => Subscribed(n, s) /\ dest'[n][s].count = dest[n][s].count
    <3>1. dest[m][p] \in Subscription /\ Subscribed(m, p)
      BY <1>4 DEF SetRoute, DestType, Subscribed
    <3>2. dest' = [dest EXCEPT ![m] = [dest[m] EXCEPT ![p] = [dest[m][p] EXCEPT !.active = active]]]
      BY <1>4 DEF SetRoute
    <3>3. [dest[m][p] EXCEPT !.active = active].count = dest[m][p].count
      BY <3>1 DEF Subscription
    <3> DEFINE v == [dest[m][p] EXCEPT !.active = active]
    <3> HIDE DEF v
    <3>4. dest'[m][p] = v /\ v.count = dest[m][p].count
      BY <3>2, <3>3 DEF v, DestType
    <3>5. \A n \in Msgs, s \in Pipes : n # m \/ s # p => dest'[n][s] = dest[n][s]
      BY <3>2 DEF DestType
    <3> QED  BY <3>1, <3>4, <3>5 DEF Subscribed
  <2>3. SameGetters
    BY <2>1 DEF SameGetters, At
  <2> HIDE DEF MInv, RInv, TInv, Shape, Types
  <2> QED  BY <2>1, <2>2, <2>3, QuietStep DEF Used
<1>5. ASSUME NEW t \in Tasks, AllocateMessageBuffer(t) \/ ReleaseMessageBuffer(t) PROVE PipeAccounted'
  <2>1. UNCHANGED <<pipe, queue, dest, leftover>> /\ SameGetters
    BY <1>5 DEF AllocateMessageBuffer, ReleaseMessageBuffer, SameGetters, At
  <2> QED  BY <2>1, CallAccounted
<1>6. ASSUME NEW t \in Tasks, NEW m \in Msgs, NEW d \in Payloads,
             TransmitMsg(t, m, d) \/ TransmitBuffer(t, m, d)
      PROVE  PipeAccounted'
  <2>1. UNCHANGED <<pipe, queue, dest, leftover>> /\ At(t, "idle")
    BY <1>6 DEF TransmitMsg, TransmitBuffer
  <2>2. \E r : r.pc # "gotten" /\ Goto(t, r)
    BY <1>6 DEF TransmitMsg, TransmitBuffer, Idle
  <2> QED  BY <2>1, <2>2, GotoSameGetters, CallAccounted DEF At
<1>7. ASSUME NEW t \in Tasks, ReceiveNothing(t) PROVE PipeAccounted'
  <2>1. UNCHANGED <<pipe, queue, dest, leftover>> /\ SameGetters
    BY <1>7, GotoSameGetters DEF ReceiveNothing, At, Idle
  <2> QED  BY <2>1, CallAccounted
<1>8. ASSUME NEW t \in Tasks \cup {ES}, DrainPrevious(t) PROVE PipeAccounted'
  <2>1. UNCHANGED <<pipe, queue, dest, leftover>> /\ SameGetters
    BY <1>8, GotoSameGetters DEF DrainPrevious, At, TaskType, Call
  <2> QED  BY <2>1, CallAccounted
<1>9. ASSUME NEW a \in External, CleanUpApp(a) PROVE PipeAccounted'
  BY <1>9, CallAccounted DEF CleanUpApp, SameGetters, At
<1>10. ASSUME ZeroCopyReleaseAppId PROVE PipeAccounted'
  <2>1. UNCHANGED <<pipe, queue, dest, leftover>> /\ SameGetters
    BY <1>10 DEF ZeroCopyReleaseAppId, SameGetters, At, TaskType, Idle
  <2> QED  BY <2>1, CallAccounted
<1>11. ASSUME CleanUpPipe PROVE PipeAccounted'
  <2>1. PICK p \in cleaning.todo : ClosePipe(ES, p, cleaning.app)
    BY <1>11 DEF CleanUpPipe
  <2>2. p \in Pipes
    BY <2>1 DEF OtherTypes
  <2> QED  BY <1>11, <2>1, <2>2, CloseAccounted DEF CleanUpPipe
<1> HIDE DEF MInv, RInv, TInv, Shape, Types
<1>12. CASE \E t \in Tasks :
              \/ \E p \in Pipes : CreatePipe(t, p) \/ SetPipeOpts(t, p) \/ ReceiveBuffer(t, p)
                                  \/ DeletePipe(t, p)
              \/ \E m \in Msgs, p \in Pipes : Unsubscribe(t, m, p)
                                              \/ \E lim \in Limits : Subscribe(t, m, p, lim)
              \/ \E m \in Msgs, d \in Payloads : TransmitMsg(t, m, d) \/ TransmitBuffer(t, m, d)
  BY <1>1, <1>2, <1>3, <1>6, <1>12, CreateAccounted, SubscribeAccounted, CloseAccounted DEF DeletePipe
<1>13. CASE \E t \in Tasks :
              \/ AllocateMessageBuffer(t) \/ ReleaseMessageBuffer(t) \/ BroadcastBufferToRoute(t)
              \/ QueueGet(t) \/ ReceiveNothing(t) \/ ReceiveDone(t)
  BY <1>5, <1>7, <1>13, BroadcastAccounted, GetAccounted, DoneAccounted
<1>14. CASE \E t \in Tasks \cup {ES} : DrainPrevious(t) \/ DrainNext(t)
  BY <1>8, <1>14, DrainAccounted
<1> QED  BY <1>4, <1>9, <1>10, <1>11, <1>12, <1>13, <1>14 DEF Next

\* The message limit of a subscription never sticks: its count is at most what
\* is on the pipe, and exact unless the receiver subscribed again with messages
\* still queued; the depth reported for a pipe is what is on it.  The tests for
\* zero in CFE_SB_ReceiveBuffer are what makes this hold at any interleaving.
THEOREM SbPipeAccounted == Spec => []PipeAccounted
<1>1. Init => PipeAccounted
  BY DEF Init, PipeAccounted, Used, NoPipe
<1>2. MInv /\ MInv' /\ PipeAccounted /\ [Next]_vars => PipeAccounted'
  <2>1. CASE UNCHANGED vars
    BY <2>1 DEF vars, PipeAccounted, Used, At, Subscribed, OnPipe
  <2> QED  BY <2>1, AccountedStep
<1> QED  BY <1>1, <1>2, AlwaysMInv, PTL DEF Spec

----------------------------------------------------------------------------
(* The bus implements MessageBus.                                          *)

BInv == MInv /\ PipeAccounted

LEMMA MessageInSame ==
  ASSUME MInv, Next, NEW b \in Buffers, Underway(b)
  PROVE  MessageIn(b)' = MessageIn(b)
BY MessageStays DEF MInv, MessageIn

\* A pipe in use has at most one receiver.
LEMMA OneGetter ==
  ASSUME TInv, NEW p \in Pipes, Used(p), NEW t \in Tasks, GotFrom(t, p)
  PROVE  Undelivered(p) = <<task[t].buf>> \o queue[p]
<1>1. \A u \in Tasks : GotFrom(u, p) => u = t
  BY DEF TInv, Shape, Served, Receiving, GotFrom, At
<1>2. {u \in Tasks : At(u, "gotten") /\ task[u].pipe = p} = {t}
  BY <1>1 DEF GotFrom
<1>3. (CHOOSE u \in {t} : TRUE) = t
  OBVIOUS
<1> QED  BY <1>2, <1>3 DEF Undelivered

LEMMA NoGetter ==
  ASSUME NEW p \in Pipes, \A t \in Tasks : ~GotFrom(t, p)
  PROVE  Undelivered(p) = queue[p]
<1>1. {u \in Tasks : At(u, "gotten") /\ task[u].pipe = p} = {}
  BY DEF GotFrom
<1> QED  BY <1>1 DEF Undelivered

LEMMA OneGetterNext ==
  (\A p \in Pipes, t \in Tasks : TInv /\ Used(p) /\ GotFrom(t, p)
                                 => Undelivered(p) = <<task[t].buf>> \o queue[p])'
<1>1. \A p \in Pipes, t \in Tasks : TInv /\ Used(p) /\ GotFrom(t, p)
                                    => Undelivered(p) = <<task[t].buf>> \o queue[p]
  BY OneGetter
<1> QED  BY <1>1, PTL

LEMMA NoGetterNext ==
  (\A p \in Pipes : (\A t \in Tasks : ~GotFrom(t, p)) => Undelivered(p) = queue[p])'
<1>1. \A p \in Pipes : (\A t \in Tasks : ~GotFrom(t, p)) => Undelivered(p) = queue[p]
  BY NoGetter
<1> QED  BY <1>1, PTL

\* What is undelivered is a sequence of buffers under way.
LEMMA UndeliveredType ==
  ASSUME TInv, NEW p \in Pipes, Used(p)
  PROVE  Undelivered(p) \in Seq(Buffers) /\ \A i \in 1..Len(Undelivered(p)) : Underway(Undelivered(p)[i])
<1> USE TypeParts DEF TInv, Types, Shape
<1>1. queue[p] \in Seq(Buffers) /\ \A i \in 1..Len(queue[p]) : Underway(queue[p][i])
  BY DEF QueueType, Underway, Queued
<1>2. CASE \E t \in Tasks : GotFrom(t, p)
  <2>1. PICK t \in Tasks : GotFrom(t, p)
    BY <1>2
  <2>2. task[t].buf \in Buffers /\ Underway(task[t].buf)
    BY <2>1 DEF GotFrom, Calls, InCall, TaskType, Call, Underway
  <2>3. Undelivered(p) = <<task[t].buf>> \o queue[p]
    BY <2>1, OneGetter
  <2> DEFINE b == task[t].buf
             u == <<b>> \o queue[p]
  <2> HIDE DEF TInv, Types, Shape, b
  <2>4. u \in Seq(Buffers) /\ Len(u) = Len(queue[p]) + 1 /\ Len(queue[p]) \in Nat /\ u[1] = b
        /\ \A i \in 1..Len(queue[p]) : u[i + 1] = queue[p][i]
    BY <1>1, <2>2 DEF b
  <2>5. ASSUME NEW i \in 1..Len(u) PROVE Underway(u[i])
    <3>1. CASE i = 1
      BY <2>2, <2>4, <3>1 DEF b
    <3>2. CASE i # 1
      <4>1. i - 1 \in 1..Len(queue[p]) /\ (i - 1) + 1 = i
        BY <2>4, <3>2
      <4>2. u[i] = queue[p][i - 1]
        BY <2>4, <4>1
      <4> QED  BY <1>1, <4>1, <4>2
    <3> QED  BY <3>1, <3>2
  <2> QED  BY <2>3, <2>4, <2>5 DEF b
<1>3. CASE \A t \in Tasks : ~GotFrom(t, p)
  BY <1>1, <1>3, NoGetter
<1> QED  BY <1>2, <1>3

\* The inbox of a pipe, now and after a step.
LEMMA InboxIs ==
  ASSUME NEW p \in Pipes, NEW s
  PROVE  /\ Used(p) /\ Undelivered(p) = s => inbox[p] = MessagesIn(s)
         /\ ~Used(p) => inbox[p] = <<>>
         /\ Used(p)' /\ Undelivered(p)' = s => inbox'[p] = MessagesIn(s)'
         /\ ~Used(p)' => inbox'[p] = <<>>
BY DEF inbox, MessagesIn, MessageIn

\* Messages under way are carried on unchanged.
LEMMA MessagesSame ==
  ASSUME MInv, Next, NEW s \in Seq(Buffers), \A i \in 1..Len(s) : Underway(s[i])
  PROVE  MessagesIn(s)' = MessagesIn(s)
<1>1. \A i \in 1..Len(s) : s[i] \in Buffers
  OBVIOUS
<1>2. \A i \in 1..Len(s) : MessageIn(s[i])' = MessageIn(s[i])
  BY <1>1, MessageInSame
<1>3. MessagesIn(s)' = [i \in 1..Len(s) |-> MessageIn(s[i])']
  BY DEF MessagesIn, MessageIn
<1> QED  BY <1>2, <1>3 DEF MessagesIn

LEMMA InboxSame ==
  ASSUME MInv, MInv', Next, NEW p \in Pipes, Used(p)' <=> Used(p), SameGettersOf(p), queue'[p] = queue[p]
  PROVE  inbox'[p] = inbox[p]
<1>1. CASE ~Used(p)
  BY <1>1, InboxIs
<1>2. CASE Used(p)
  <2>1. Undelivered(p)' = Undelivered(p)
    <3>1. CASE \E t \in Tasks : GotFrom(t, p)
      <4>1. PICK t \in Tasks : GotFrom(t, p)
        BY <3>1
      <4>2. task'[t] = task[t] /\ GotFrom(t, p)'
        BY <4>1 DEF SameGettersOf, GotFrom, At
      <4>3. Undelivered(p) = <<task[t].buf>> \o queue[p]
        BY <1>2, <4>1, OneGetter DEF MInv, RInv
      <4>4. Undelivered(p)' = <<task'[t].buf>> \o queue'[p]
        BY <1>2, <4>2, OneGetterNext DEF MInv, RInv
      <4> QED  BY <4>2, <4>3, <4>4
    <3>2. CASE \A t \in Tasks : ~GotFrom(t, p)
      <4>1. \A t \in Tasks : ~GotFrom(t, p)'
        BY <3>2 DEF SameGettersOf
      <4> QED  BY <3>2, <4>1, NoGetter, NoGetterNext
    <3> QED  BY <3>1, <3>2
  <2>2. PICK s \in Seq(Buffers) : s = Undelivered(p) /\ \A i \in 1..Len(s) : Underway(s[i])
    BY <1>2, UndeliveredType DEF MInv, RInv
  <2>3. MessagesIn(s)' = MessagesIn(s)
    BY <2>2, MessagesSame
  <2> QED  BY <1>2, <2>1, <2>2, <2>3, InboxIs
<1> QED  BY <1>1, <1>2

\* Variables of MessageBus that a step leaves alone.
LEMMA SendingSame ==
  ASSUME MInv, Next, NEW t \in Tasks,
         IF At(t, "sending") /\ task[t].routed THEN task'[t] = task[t]
                                               ELSE ~(At(t, "sending") /\ task[t].routed)'
  PROVE  sending'[t] = sending[t]
<1>1. CASE At(t, "sending") /\ task[t].routed
  <2>1. PICK b \in Buffers : b = task[t].buf
    BY <1>1, TypeParts DEF MInv, RInv, TInv, Shape, Calls, InCall, Types, TaskType, Call
  <2>2. MessageIn(b)' = MessageIn(b)
    BY <2>1, MessageInSame DEF Underway
  <2>3. sending[t] = MessageIn(b) /\ sending'[t] = MessageIn(b)'
    BY <1>1, <2>1 DEF sending, MessageIn, At
  <2> QED  BY <2>2, <2>3
<1>2. CASE ~(At(t, "sending") /\ task[t].routed)
  BY <1>2 DEF sending
<1> QED  BY <1>1, <1>2

LEMMA HeldSame ==
  ASSUME MInv, Next, NEW p \in Pipes, pipe'[p].last = pipe[p].last
  PROVE  held'[p] = held[p]
<1>1. CASE pipe[p].last = None
  BY <1>1 DEF held
<1>2. CASE pipe[p].last # None
  <2>1. PICK b \in Buffers : b = pipe[p].last
    BY <1>2, TypeParts DEF MInv, RInv, TInv, Types, PipeType, PipeRecord
  <2>2. MessageIn(b)' = MessageIn(b)
    BY <2>1, MessageInSame DEF Underway
  <2>3. held[p] = MessageIn(b) /\ held'[p] = MessageIn(b)'
    BY <1>2, <2>1 DEF held, MessageIn
  <2> QED  BY <2>2, <2>3
<1> QED  BY <1>1, <1>2

SameRoute(m, p) ==
  /\ Subscribed(m, p)' <=> Subscribed(m, p)
  /\ Subscribed(m, p) => /\ dest'[m][p].active <=> dest[m][p].active
                         /\ pipe'[p].ignore <=> pipe[p].ignore

LEMMA RoutesSame ==
  ASSUME \A m \in Msgs, p \in Pipes : SameRoute(m, p)
  PROVE  UNCHANGED <<subs, open>>
<1>1. ASSUME NEW m \in Msgs PROVE subs'[m] = subs[m] /\ open'[m] = open[m]
  BY DEF subs, open, Open, SameRoute
<1>2. subs' = [m \in Msgs |-> subs'[m]] /\ subs = [m \in Msgs |-> subs[m]]
      /\ open' = [m \in Msgs |-> open'[m]] /\ open = [m \in Msgs |-> open[m]]
  BY DEF subs, open
<1> QED  BY <1>1, <1>2

LEMMA BusFunctions ==
  /\ (\A t \in Tasks : sending'[t] = sending[t]) => sending' = sending
  /\ (\A p \in Pipes : inbox'[p] = inbox[p]) => inbox' = inbox
  /\ (\A p \in Pipes : held'[p] = held[p]) => held' = held
<1>1. /\ sending = [t \in Tasks |-> sending[t]] /\ sending' = [t \in Tasks |-> sending'[t]]
      /\ inbox = [p \in Pipes |-> inbox[p]] /\ inbox' = [p \in Pipes |-> inbox'[p]]
      /\ held = [p \in Pipes |-> held[p]] /\ held' = [p \in Pipes |-> held'[p]]
  BY DEF sending, inbox, held
<1> QED  BY <1>1

LEMMA SendingUnchanged ==
  ASSUME MInv, Next, NEW t \in Tasks \cup {ES}, NEW r, Goto(t, r), ~At(t, "sending"), r.pc # "sending"
  PROVE  sending' = sending
<1>1. \A u \in Tasks : IF At(u, "sending") /\ task[u].routed THEN task'[u] = task[u]
                       ELSE ~(At(u, "sending") /\ task[u].routed)'
  BY TypeParts DEF MInv, RInv, TInv, Types, TaskType, Goto, At
<1> QED  BY <1>1, SendingSame, BusFunctions

LEMMA InboxUnchanged ==
  ASSUME MInv, MInv', Next, \A p \in Pipes : Used(p)' <=> Used(p), SameGetters, UNCHANGED queue
  PROVE  inbox' = inbox
BY InboxSame, SameGettersAll, BusFunctions

LEMMA HeldUnchanged ==
  ASSUME MInv, Next, \A p \in Pipes : pipe'[p].last = pipe[p].last
  PROVE  held' = held
BY HeldSame, BusFunctions

BusSame == UNCHANGED <<sending, inbox, held, subs, open>>

\* Steps that change no pipe, queue, subscription or call.
LEMMA PoolBus ==
  ASSUME MInv, MInv', Next, UNCHANGED <<pipe, queue, dest, task>>
  PROVE  BusSame
<1>1. \A u \in Tasks : IF At(u, "sending") /\ task[u].routed THEN task'[u] = task[u]
                       ELSE ~(At(u, "sending") /\ task[u].routed)'
  BY DEF At
<1>2. SameGetters /\ \A p \in Pipes : Used(p)' <=> Used(p)
  BY DEF SameGetters, At, Used
<1>3. \A m \in Msgs, p \in Pipes : SameRoute(m, p)
  BY DEF SameRoute, Subscribed
<1> QED  BY <1>1, <1>2, <1>3, SendingSame, BusFunctions, InboxUnchanged, HeldUnchanged, RoutesSame DEF BusSame

LEMMA CallBus ==
  ASSUME MInv, MInv', Next, UNCHANGED <<pipe, queue, dest>>, NEW t \in Tasks \cup {ES}, NEW r, Goto(t, r),
         task[t].pc \notin {"sending", "gotten"}, r.pc \notin {"sending", "gotten"}
  PROVE  BusSame
<1>1. SameGetters
  BY GotoSameGetters, TypeParts DEF MInv, RInv, TInv, Types, At
<1>2. \A p \in Pipes : Used(p)' <=> Used(p)
  BY DEF Used
<1>3. \A m \in Msgs, p \in Pipes : SameRoute(m, p)
  BY DEF SameRoute, Subscribed
<1>4. sending' = sending
  BY SendingUnchanged DEF At
<1> QED  BY <1>1, <1>2, <1>3, <1>4, InboxUnchanged, HeldUnchanged, RoutesSame DEF BusSame

LEMMA CreateBus ==
  ASSUME MInv, MInv', Next, NEW t \in Tasks, NEW p \in Pipes, CreatePipe(t, p)
  PROVE  BusSame
<1> USE TypeParts DEF MInv, RInv, TInv, Shape, Types
<1>1. UNCHANGED <<queue, dest, task>> /\ ~Used(p) /\ Used(p)'
  BY DEF CreatePipe, Used, PipeType
<1>2. pipe'[p].last = None /\ \A s \in Pipes \ {p} : pipe'[s] = pipe[s]
  BY DEF CreatePipe, PipeType, NoPipe
<1>3. /\ queue[p] = <<>> /\ pipe[p].last = None /\ \A m \in Msgs : ~Subscribed(m, p)
      /\ \A u \in Tasks : ~GotFrom(u, p)
  BY <1>1 DEF CreatePipe, PipeStates, GotFrom
<1>4. \A u \in Tasks : IF At(u, "sending") /\ task[u].routed THEN task'[u] = task[u]
                       ELSE ~(At(u, "sending") /\ task[u].routed)'
  BY <1>1 DEF At
<1>5. \A s \in Pipes : pipe'[s].last = pipe[s].last
  BY <1>2, <1>3
<1>6. \A m \in Msgs, s \in Pipes : SameRoute(m, s)
  BY <1>1, <1>2, <1>3 DEF SameRoute, Subscribed
<1>7. inbox'[p] = inbox[p]
  <2>1. \A u \in Tasks : ~GotFrom(u, p)'
    BY <1>1, <1>3 DEF GotFrom, At
  <2>2. Undelivered(p)' = <<>>
    BY <1>1, <1>3, <2>1, NoGetterNext
  <2>3. MessagesIn(<<>>)' = <<>>
    BY DEF MessagesIn
  <2> QED  BY <1>1, <2>2, <2>3, InboxIs
<1> HIDE DEF MInv, RInv, TInv, Shape, Types
<1>8. ASSUME NEW s \in Pipes, s # p PROVE inbox'[s] = inbox[s]
  <2>1. (Used(s)' <=> Used(s)) /\ SameGettersOf(s) /\ queue'[s] = queue[s]
    BY <1>1, <1>2, <1>8 DEF Used, SameGettersOf, GotFrom, At
  <2> QED  BY <2>1, InboxSame
<1> QED  BY <1>4, <1>5, <1>6, <1>7, <1>8, SendingSame, BusFunctions, HeldUnchanged, RoutesSame DEF BusSame

LEMMA RerouteBus ==
  ASSUME NEW m \in Msgs, NEW p \in Pipes, UNCHANGED <<sending, inbox, held>>,
         \A n \in Msgs, s \in Pipes : n # m \/ s # p => SameRoute(n, s)
  PROVE  Bus!Reroute(m, p)
<1> DEFINE on == p \in subs'[m]
           all == p \in open'[m]
<1>1. /\ \A n \in Msgs, s \in Pipes : n # m \/ s # p => (s \in subs'[n] <=> s \in subs[n])
                                                       /\ (s \in open'[n] <=> s \in open[n])
      /\ \A n \in Msgs : subs[n] \subseteq Pipes /\ subs'[n] \subseteq Pipes
                         /\ open[n] \subseteq Pipes /\ open'[n] \subseteq Pipes
  BY DEF SameRoute, subs, open, Open
<1>2. all => on
  BY DEF subs, open, Open
<1>3. /\ subs'[m] = IF on THEN subs[m] \union {p} ELSE subs[m] \ {p}
      /\ open'[m] = IF all THEN open[m] \union {p} ELSE open[m] \ {p}
      /\ \A n \in Msgs \ {m} : subs'[n] = subs[n] /\ open'[n] = open[n]
  BY <1>1
<1>4. subs' = [n \in Msgs |-> subs'[n]] /\ subs = [n \in Msgs |-> subs[n]]
      /\ open' = [n \in Msgs |-> open'[n]] /\ open = [n \in Msgs |-> open[n]]
  BY DEF subs, open
<1>5. on \in BOOLEAN /\ all \in BOOLEAN
  OBVIOUS
<1> HIDE DEF on, all
<1>6. /\ subs' = [subs EXCEPT ![m] = IF on THEN @ \union {p} ELSE @ \ {p}]
      /\ open' = [open EXCEPT ![m] = IF all THEN @ \union {p} ELSE @ \ {p}]
  BY <1>3, <1>4
<1> QED  BY <1>2, <1>5, <1>6 DEF Bus!Reroute

\* A subscription is made, ended, enabled or disabled.
LEMMA RouteBus ==
  ASSUME MInv, MInv', Next, NEW m \in Msgs, NEW p \in Pipes, UNCHANGED <<pipe, queue, content, task>>,
         \A n \in Msgs, s \in Pipes : n # m \/ s # p => dest'[n][s] = dest[n][s]
  PROVE  Bus!Reroute(m, p)
<1>1. \A u \in Tasks : IF At(u, "sending") /\ task[u].routed THEN task'[u] = task[u]
                       ELSE ~(At(u, "sending") /\ task[u].routed)'
  BY DEF At
<1>2. SameGetters /\ \A s \in Pipes : Used(s)' <=> Used(s)
  BY DEF SameGetters, At, Used
<1>3. \A n \in Msgs, s \in Pipes : n # m \/ s # p => SameRoute(n, s)
  BY DEF SameRoute, Subscribed
<1> QED  BY <1>1, <1>2, <1>3, SendingSame, BusFunctions, InboxUnchanged, HeldUnchanged, RerouteBus

LEMMA OptsBus ==
  ASSUME MInv, MInv', Next, NEW t \in Tasks, NEW p \in Pipes, SetPipeOpts(t, p)
  PROVE  Bus!Retune(p)
<1> USE TypeParts DEF MInv, RInv, TInv, Types
<1>1. UNCHANGED <<queue, dest, task, content>>
  BY DEF SetPipeOpts
<1>2. /\ \A s \in Pipes : pipe'[s].last = pipe[s].last /\ pipe'[s].state = pipe[s].state
      /\ \A s \in Pipes \ {p} : pipe'[s] = pipe[s]
      /\ pipe'[p].ignore <=> ~pipe[p].ignore
  <2> DEFINE v == ~pipe[p].ignore
  <2>1. pipe' = [pipe EXCEPT ![p] = [pipe[p] EXCEPT !.ignore = v]] /\ v \in BOOLEAN
    BY DEF SetPipeOpts
  <2> HIDE DEF v
  <2>2. \A s \in Pipes \ {p} : pipe'[s] = pipe[s]
    BY <2>1 DEF PipeType
  <2>3. pipe'[p].last = pipe[p].last /\ pipe'[p].state = pipe[p].state /\ pipe'[p].ignore = v
    BY <2>1 DEF PipeType, PipeRecord
  <2> QED  BY <2>2, <2>3 DEF v
<1>3. \A u \in Tasks : IF At(u, "sending") /\ task[u].routed THEN task'[u] = task[u]
                       ELSE ~(At(u, "sending") /\ task[u].routed)'
  BY <1>1 DEF At
<1>4. SameGetters /\ \A s \in Pipes : Used(s)' <=> Used(s)
  BY <1>1, <1>2 DEF SameGetters, At, Used
<1> HIDE DEF MInv, RInv, TInv, Types
<1>5. UNCHANGED <<sending, inbox, held>>
  BY <1>1, <1>2, <1>3, <1>4, SendingSame, BusFunctions, InboxUnchanged, HeldUnchanged
<1>6. subs' = subs
  BY <1>1 DEF subs, Subscribed
<1> DEFINE ms == {m \in Msgs : p \in open'[m]}
<1>7. /\ \A m \in Msgs, s \in Pipes \ {p} : s \in open'[m] <=> s \in open[m]
      /\ \A m \in Msgs : open'[m] \subseteq Pipes /\ open[m] \subseteq Pipes
      /\ \A m \in Msgs : p \in open'[m] => p \in subs[m] /\ ~pipe'[p].ignore
      /\ \A m \in Msgs : p \in open[m] => ~pipe[p].ignore
  BY <1>1, <1>2 DEF open, Open, subs, Subscribed
<1>8. open' = [m \in Msgs |-> open'[m]] /\ open = [m \in Msgs |-> open[m]]
  BY DEF open
<1>9. CASE pipe'[p].ignore
  <2>1. \A m \in Msgs : open'[m] = open[m] \ {p}
    BY <1>7, <1>9
  <2> QED  BY <1>5, <1>6, <1>8, <2>1 DEF Bus!Retune
<1>10. CASE ~pipe'[p].ignore
  <2>4. \A m \in Msgs : p \notin open[m]
    BY <1>2, <1>7, <1>10
  <2>1. \A m \in Msgs : open'[m] = IF m \in ms THEN open[m] \union {p} ELSE open[m]
    <3> SUFFICES ASSUME NEW m \in Msgs
                 PROVE  open'[m] = IF p \in open'[m] THEN open[m] \union {p} ELSE open[m]
      OBVIOUS
    <3> DEFINE new == open'[m]
               old == open[m]
    <3>1. /\ \A q \in Pipes \ {p} : q \in new <=> q \in old
          /\ new \subseteq Pipes /\ old \subseteq Pipes /\ p \notin old
      BY <1>7, <2>4
    <3> HIDE DEF new, old
    <3>2. new = IF p \in new THEN old \union {p} ELSE old
      BY <3>1
    <3> QED  BY <3>2 DEF new, old
  <2>2. ms \in SUBSET {m \in Msgs : p \in subs[m]}
    BY <1>7
  <2>3. open' = [m \in Msgs |-> IF m \in ms THEN open[m] \union {p} ELSE open[m]]
    BY <1>8, <2>1
  <2> HIDE DEF ms
  <2> QED  BY <1>5, <1>6, <2>2, <2>3 DEF Bus!Retune
<1> QED  BY <1>9, <1>10

LEMMA CloseBus ==
  ASSUME MInv, MInv', Next, NEW t \in Tasks \cup {ES}, NEW p \in Pipes, NEW a,
         At(t, "idle"), ClosePipe(t, p, a)
  PROVE  Bus!Delete(p)
<1> USE TypeParts DEF MInv, RInv, TInv, Types
<1>1. UNCHANGED queue /\ SameGetters /\ sending' = sending
  <2>1. \E r : r.pc = "draining" /\ Goto(t, r)
    BY DEF ClosePipe, Idle
  <2> QED  BY <2>1, GotoSameGetters, SendingUnchanged DEF ClosePipe, At
<1>2. /\ pipe'[p].last = None /\ ~Used(p)' /\ \A s \in Pipes \ {p} : pipe'[s] = pipe[s]
      /\ \A m \in Msgs : ~Subscribed(m, p)' /\ \A s \in Pipes \ {p} : dest'[m][s] = dest[m][s]
  BY DEF ClosePipe, PipeType, PipeRecord, DestType, Used, Subscribed
<1> HIDE DEF MInv, RInv, TInv, Types
<1>3. inbox' = [inbox EXCEPT ![p] = <<>>]
  <2>1. inbox'[p] = <<>>
    BY <1>2, InboxIs
  <2>2. \A s \in Pipes \ {p} : inbox'[s] = inbox[s]
    BY <1>1, <1>2, InboxSame, SameGettersAll DEF Used
  <2>3. inbox' = [s \in Pipes |-> inbox'[s]] /\ inbox = [s \in Pipes |-> inbox[s]]
    BY DEF inbox
  <2> QED  BY <2>1, <2>2, <2>3
<1>4. held' = [held EXCEPT ![p] = None]
  <2>1. held'[p] = None
    BY <1>2 DEF held
  <2>2. \A s \in Pipes \ {p} : held'[s] = held[s]
    BY <1>2, HeldSame
  <2>3. held' = [s \in Pipes |-> held'[s]] /\ held = [s \in Pipes |-> held[s]]
    BY DEF held
  <2> QED  BY <2>1, <2>2, <2>3
<1>5. subs' = [m \in Msgs |-> subs[m] \ {p}] /\ open' = [m \in Msgs |-> open[m] \ {p}]
  <2>1. \A m \in Msgs : subs'[m] = subs[m] \ {p} /\ open'[m] = open[m] \ {p}
    BY <1>2 DEF subs, open, Open, Subscribed
  <2>2. subs' = [m \in Msgs |-> subs'[m]] /\ open' = [m \in Msgs |-> open'[m]]
    BY DEF subs, open
  <2> QED  BY <2>1, <2>2
<1> QED  BY <1>1, <1>3, <1>4, <1>5 DEF Bus!Delete

\* A task that begins to transmit a message with a route offers it.
LEMMA OfferBus ==
  ASSUME MInv, MInv', Next, NEW t \in Tasks, NEW m \in Msgs, NEW d \in Payloads,
         TransmitMsg(t, m, d) \/ TransmitBuffer(t, m, d)
  PROVE  Bus!Offer(t) \/ BusSame
<1> USE TypeParts DEF MInv, RInv, TInv, Types
<1>1. UNCHANGED <<pipe, queue, dest>> /\ At(t, "idle")
  BY DEF TransmitMsg, TransmitBuffer
<1>2. PICK c \in Buffers : /\ content'[c].id = m /\ content'[c].data = d
                           /\ At(t, "sending")' /\ task'[t].buf = c
                           /\ \A u \in (Tasks \cup {ES}) \ {t} : task'[u] = task[u]
  <2>1. CASE TransmitMsg(t, m, d)
    <3>1. PICK b \in Buffers :
               /\ GetBufferFromPool(b, [id |-> m, data |-> d, app |-> None])
               /\ Goto(t, [Idle EXCEPT !.pc = "sending", !.buf = b, !.routed = TRUE])
      BY <2>1 DEF TransmitMsg
    <3>2. content'[b].id = m /\ content'[b].data = d
      BY <3>1 DEF GetBufferFromPool, ContentType
    <3>3. At(t, "sending")' /\ task'[t].buf = b /\ \A u \in (Tasks \cup {ES}) \ {t} : task'[u] = task[u]
      BY <3>1 DEF Goto, TaskType, Idle, At
    <3> QED  BY <3>2, <3>3
  <2>2. CASE TransmitBuffer(t, m, d)
    <3>1. zbuf[t] \in Buffers
      BY <2>2 DEF TransmitBuffer, ZbufType
    <3>2. content'[zbuf[t]].id = m /\ content'[zbuf[t]].data = d
      BY <2>2, <3>1 DEF TransmitBuffer, ContentType, Content
    <3> QED  BY <2>2, <3>1, <3>2 DEF TransmitBuffer, Goto, TaskType, Idle, At
  <2> QED  BY <2>1, <2>2
<1>3. SameGetters /\ \A p \in Pipes : Used(p)' <=> Used(p)
  BY <1>1, <1>2 DEF SameGetters, At, Used
<1> HIDE DEF MInv, RInv, TInv, Types
<1>4. \A n \in Msgs, p \in Pipes : SameRoute(n, p)
  BY <1>1 DEF SameRoute, Subscribed
<1>5. UNCHANGED <<inbox, held, subs, open>>
  BY <1>1, <1>3, <1>4, InboxUnchanged, HeldUnchanged, RoutesSame
<1>6. \A u \in Tasks \ {t} : sending'[u] = sending[u]
  BY <1>2, SendingSame DEF At
<1>7. sending[t] = None
  BY <1>1 DEF sending, At
<1>8. CASE task'[t].routed
  <2> DEFINE v == [id |-> m, data |-> d]
  <2>1. sending'[t] = v /\ v \in Message
    BY <1>2, <1>8 DEF sending, MessageIn, Message
  <2>2. sending' = [u \in Tasks |-> sending'[u]] /\ sending = [u \in Tasks |-> sending[u]]
    BY DEF sending
  <2> HIDE DEF v
  <2>3. sending' = [sending EXCEPT ![t] = v]
    BY <1>6, <2>1, <2>2
  <2> QED  BY <1>5, <1>7, <2>1, <2>3 DEF Bus!Offer
<1>9. CASE ~task'[t].routed
  <2>1. sending'[t] = None
    BY <1>9 DEF sending
  <2> QED  BY <1>5, <1>6, <1>7, <2>1, BusFunctions DEF BusSame
<1> QED  BY <1>8, <1>9

\* The images of the elements of a sequence under a function.
Images(s, f) == [i \in 1..Len(s) |-> f[s[i]]]

LEMMA ImagesType ==
  ASSUME NEW f, NEW X, \A b \in Buffers : f[b] \in X, NEW s \in Seq(Buffers)
  PROVE  /\ Images(s, f) \in Seq(X) /\ Len(Images(s, f)) = Len(s) /\ Len(s) \in Nat
         /\ \A i \in 1..Len(s) : Images(s, f)[i] = f[s[i]]
<1> DEFINE n == Len(s)
<1>1. n \in Nat /\ \A i \in 1..n : f[s[i]] \in X
  OBVIOUS
<1>2. Images(s, f) = [i \in 1..n |-> f[s[i]]]
  BY DEF Images
<1> HIDE DEF n
<1>3. Images(s, f) \in Seq(X) /\ Len(Images(s, f)) = n
  BY <1>1, <1>2
<1>4. \A i \in 1..n : Images(s, f)[i] = f[s[i]]
  BY <1>2
<1> QED  BY <1>1, <1>3, <1>4 DEF n

LEMMA ImagesAppend ==
  ASSUME NEW f, NEW s \in Seq(Buffers), NEW b \in Buffers
  PROVE  Images(Append(s, b), f) = Append(Images(s, f), f[b])
<1> DEFINE X == {f[c] : c \in Buffers}
           g == Images(s, f)
           h == Images(Append(s, b), f)
<1>1. /\ Append(s, b) \in Seq(Buffers) /\ Len(Append(s, b)) = Len(s) + 1 /\ Len(s) \in Nat
      /\ Append(s, b)[Len(s) + 1] = b /\ \A i \in 1..Len(s) : Append(s, b)[i] = s[i]
  OBVIOUS
<1>3. \A c \in Buffers : f[c] \in X
  OBVIOUS
<1> HIDE DEF X
<1>2. /\ g \in Seq(X) /\ Len(g) = Len(s) /\ \A i \in 1..Len(s) : g[i] = f[s[i]]
      /\ h \in Seq(X) /\ Len(h) = Len(s) + 1
      /\ \A i \in 1..(Len(s) + 1) : h[i] = f[Append(s, b)[i]]
  <2> DEFINE u == Append(s, b)
  <2>1. u \in Seq(Buffers) /\ Len(u) = Len(s) + 1
    BY <1>1
  <2> HIDE DEF u
  <2>2. /\ Images(u, f) \in Seq(X) /\ Len(Images(u, f)) = Len(u)
        /\ \A i \in 1..Len(u) : Images(u, f)[i] = f[u[i]]
    BY <1>3, <2>1, ImagesType
  <2>3. /\ g \in Seq(X) /\ Len(g) = Len(s) /\ \A i \in 1..Len(s) : g[i] = f[s[i]]
    BY <1>3, ImagesType
  <2> HIDE DEF g
  <2> QED  BY <2>1, <2>2, <2>3 DEF u
<1> HIDE DEF g, h
<1>4. /\ Append(g, f[b]) \in Seq(X) /\ Len(Append(g, f[b])) = Len(s) + 1
      /\ \A i \in 1..Len(s) : Append(g, f[b])[i] = g[i]
      /\ Append(g, f[b])[Len(s) + 1] = f[b]
  BY <1>1, <1>2, <1>3
<1>5. \A i \in 1..(Len(s) + 1) : h[i] = Append(g, f[b])[i]
  <2> TAKE i \in 1..(Len(s) + 1)
  <2>1. CASE i \in 1..Len(s)
    BY <1>1, <1>2, <1>4, <2>1
  <2>2. CASE i = Len(s) + 1
    BY <1>1, <1>2, <1>4, <2>2
  <2>3. i \in 1..Len(s) \/ i = Len(s) + 1
    BY <1>1
  <2> QED  BY <2>1, <2>2, <2>3
<1>6. h = Append(g, f[b])
  BY <1>2, <1>4, <1>5, SeqEqual
<1> QED  BY <1>6 DEF g, h

LEMMA ImagesCons ==
  ASSUME NEW f, NEW s \in Seq(Buffers), NEW b \in Buffers
  PROVE  /\ Images(<<b>> \o s, f) # <<>>
         /\ Head(Images(<<b>> \o s, f)) = f[b]
         /\ Tail(Images(<<b>> \o s, f)) = Images(s, f)
<1> DEFINE X == {f[c] : c \in Buffers}
           u == <<b>> \o s
           g == Images(s, f)
           h == Images(u, f)
<1>1. /\ u \in Seq(Buffers) /\ Len(u) = Len(s) + 1 /\ Len(s) \in Nat
      /\ u[1] = b /\ \A i \in 1..Len(s) : u[i + 1] = s[i]
  OBVIOUS
<1>2. /\ g \in Seq(X) /\ Len(g) = Len(s) /\ \A i \in 1..Len(s) : g[i] = f[s[i]]
      /\ h \in Seq(X) /\ Len(h) = Len(s) + 1
      /\ \A i \in 1..(Len(s) + 1) : h[i] = f[u[i]]
  <2>0. \A c \in Buffers : f[c] \in X
    OBVIOUS
  <2> HIDE DEF X, u
  <2>1. /\ h \in Seq(X) /\ Len(h) = Len(u) /\ \A i \in 1..Len(u) : h[i] = f[u[i]]
    BY <1>1, <2>0, ImagesType
  <2>2. /\ g \in Seq(X) /\ Len(g) = Len(s) /\ \A i \in 1..Len(s) : g[i] = f[s[i]]
    BY <2>0, ImagesType
  <2> HIDE DEF g, h
  <2> QED  BY <1>1, <2>1, <2>2
<1> HIDE DEF X, u, g, h
<1>3. h # <<>> /\ Head(h) = h[1] /\ 1 \in 1..(Len(s) + 1)
  BY <1>1, <1>2
<1>4. /\ Tail(h) \in Seq(X) /\ Len(Tail(h)) = Len(s)
      /\ \A i \in 1..Len(s) : Tail(h)[i] = h[i + 1]
  BY <1>1, <1>2, <1>3
<1>5. \A i \in 1..Len(s) : Tail(h)[i] = g[i]
  <2> TAKE i \in 1..Len(s)
  <2>1. i + 1 \in 1..(Len(s) + 1)
    BY <1>1
  <2> QED  BY <1>1, <1>2, <1>4, <2>1
<1>6. Tail(h) = g
  BY <1>2, <1>4, <1>5, SeqEqual
<1>7. Head(h) = f[b]
  BY <1>1, <1>2, <1>3
<1> QED  BY <1>3, <1>6, <1>7 DEF u, g, h

\* Messages, one more at the end of a queue or one taken from its front.
LEMMA MessagesAppend ==
  ASSUME NEW s \in Seq(Buffers), NEW b \in Buffers
  PROVE  /\ MessagesIn(Append(s, b)) = Append(MessagesIn(s), MessageIn(b))
         /\ MessagesIn(Append(s, b))' = Append(MessagesIn(s)', MessageIn(b)')
<1> DEFINE u == Append(s, b)
<1>1. u \in Seq(Buffers)
  OBVIOUS
<1>2. PICK f : f = [c \in Buffers |-> MessageIn(c)]
  OBVIOUS
<1>3. PICK g : g = [c \in Buffers |-> MessageIn(c)']
  OBVIOUS
<1>4. \A r \in Seq(Buffers) : MessagesIn(r) = Images(r, f) /\ MessagesIn(r)' = Images(r, g)
  BY <1>2, <1>3 DEF MessagesIn, MessageIn, Images
<1>5. f[b] = MessageIn(b) /\ g[b] = MessageIn(b)'
  BY <1>2, <1>3
<1>6. Images(u, f) = Append(Images(s, f), f[b]) /\ Images(u, g) = Append(Images(s, g), g[b])
  BY ImagesAppend
<1> HIDE DEF u
<1>7. MessagesIn(u) = Append(MessagesIn(s), MessageIn(b)) /\ MessagesIn(u)' = Append(MessagesIn(s)', MessageIn(b)')
  BY <1>1, <1>4, <1>5, <1>6
<1> QED  BY <1>7 DEF u

LEMMA MessagesCons ==
  ASSUME NEW s \in Seq(Buffers), NEW b \in Buffers
  PROVE  /\ MessagesIn(<<b>> \o s) # <<>>
         /\ Head(MessagesIn(<<b>> \o s)) = MessageIn(b)
         /\ Tail(MessagesIn(<<b>> \o s)) = MessagesIn(s)
<1> DEFINE u == <<b>> \o s
<1>1. u \in Seq(Buffers)
  OBVIOUS
<1>2. PICK f : f = [c \in Buffers |-> MessageIn(c)]
  OBVIOUS
<1>3. \A r \in Seq(Buffers) : MessagesIn(r) = Images(r, f)
  BY <1>2 DEF MessagesIn, Images
<1>4. f[b] = MessageIn(b)
  BY <1>2
<1>5. Images(u, f) # <<>> /\ Head(Images(u, f)) = f[b] /\ Tail(Images(u, f)) = Images(s, f)
  BY ImagesCons
<1> HIDE DEF u
<1>6. MessagesIn(u) # <<>> /\ Head(MessagesIn(u)) = MessageIn(b) /\ Tail(MessagesIn(u)) = MessagesIn(s)
  BY <1>1, <1>3, <1>4, <1>5
<1> QED  BY <1>6 DEF u

LEMMA UndeliveredTypeNext ==
  (\A p \in Pipes : TInv /\ Used(p) => Undelivered(p) \in Seq(Buffers))'
<1>1. \A p \in Pipes : TInv /\ Used(p) => Undelivered(p) \in Seq(Buffers)
  BY UndeliveredType
<1> QED  BY <1>1, PTL

\* A broadcast puts the message at the end of the inboxes it goes to, and an
\* open pipe whose inbox is empty is one of them.
SentTo(t, b, to) ==
  /\ b = task[t].buf /\ to = IF task[t].routed THEN Targets(t, content[b].id) ELSE {}
  /\ \A p \in Pipes : /\ queue'[p] = IF p \in to THEN Append(queue[p], b) ELSE queue[p]
                      /\ pipe'[p].state = pipe[p].state

LEMMA BroadcastInbox ==
  ASSUME BInv, MInv', Next, NEW t \in Tasks, BroadcastBufferToRoute(t),
         NEW b, NEW to \in SUBSET Pipes, SentTo(t, b, to), SameGetters, NEW p \in Pipes
  PROVE  inbox'[p] = IF p \in to THEN Append(inbox[p], MessageIn(b)) ELSE inbox[p]
<1> USE DEF BInv, SentTo
<1>1. CASE p \notin to
  BY <1>1, InboxSame, SameGettersAll DEF Used
<1>2. CASE p \in to
  <2>1. /\ b \in Buffers /\ queue[p] \in Seq(Buffers) /\ Used(p) /\ Used(p)'
        /\ queue'[p] = Append(queue[p], b)
    BY <1>2, TypeParts DEF MInv, RInv, TInv, Shape, Types, QueueType, Targets, Used, BroadcastBufferToRoute,
                           Calls, InCall, TaskType, Call
  <2>2. PICK s \in Seq(Buffers) : s = Undelivered(p) /\ \A i \in 1..Len(s) : Underway(s[i])
    BY <2>1, UndeliveredType DEF MInv, RInv
  <2>3. Undelivered(p)' = Append(s, b)
    <3>1. CASE \E u \in Tasks : GotFrom(u, p)
      <4>1. PICK u \in Tasks : GotFrom(u, p)
        BY <3>1
      <4>2. PICK c : c = task[u].buf
        OBVIOUS
      <4>3. task'[u] = task[u] /\ GotFrom(u, p)' /\ c \in Buffers
        BY <4>1, <4>2, TypeParts DEF SameGetters, GotFrom, At, MInv, RInv, TInv, Shape, Types, Calls, InCall,
                                     TaskType, Call
      <4>4. s = <<c>> \o queue[p]
        BY <2>1, <2>2, <4>1, <4>2, OneGetter DEF MInv, RInv
      <4>5. Undelivered(p)' = <<c>> \o queue'[p]
        BY <2>1, <4>2, <4>3, OneGetterNext DEF MInv, RInv
      <4>6. \A q \in Seq(Buffers) : <<c>> \o Append(q, b) = Append(<<c>> \o q, b)
        BY <2>1, <4>3
      <4> QED  BY <2>1, <4>4, <4>5, <4>6
    <3>2. CASE \A u \in Tasks : ~GotFrom(u, p)
      <4>1. \A u \in Tasks : ~GotFrom(u, p)'
        BY <3>2 DEF SameGetters, GotFrom, At
      <4> QED  BY <2>1, <2>2, <3>2, <4>1, NoGetter, NoGetterNext
    <3> QED  BY <3>1, <3>2
  <2>4. MessagesIn(s)' = MessagesIn(s) /\ MessageIn(b)' = MessageIn(b)
    <3>1. Underway(b)
      BY DEF Underway
    <3> QED  BY <2>1, <2>2, <3>1, MessagesSame, MessageInSame
  <2>5. inbox'[p] = Append(MessagesIn(s)', MessageIn(b)')
    <3>1. PICK r : r = Append(s, b)
      OBVIOUS
    <3>2. inbox'[p] = MessagesIn(r)'
      BY <2>1, <2>3, <3>1, InboxIs
    <3>3. MessagesIn(r)' = Append(MessagesIn(s)', MessageIn(b)')
      BY <2>1, <3>1, MessagesAppend
    <3> QED  BY <3>2, <3>3
  <2>6. inbox[p] = MessagesIn(s)
    BY <2>1, <2>2, InboxIs
  <2> QED  BY <1>2, <2>4, <2>5, <2>6
<1> QED  BY <1>1, <1>2

LEMMA OpenTargets ==
  ASSUME BInv, NEW t \in Tasks, NEW m \in Msgs, NEW p \in Open(m), inbox[p] = <<>>
  PROVE  p \in Targets(t, m)
<1> USE TypeParts DEF BInv, MInv, RInv, TInv, Shape, Types
<1>1. p \in Pipes /\ Subscribed(m, p) /\ dest[m][p].active /\ ~pipe[p].ignore /\ Used(p)
  BY DEF Open, PipeStates
<1>2. queue[p] \in Seq(Buffers) /\ dest[m][p] \in Subscription
  BY <1>1 DEF QueueType, DestType, Subscribed
<1> HIDE DEF BInv, MInv, RInv, TInv, Shape, Types
<1>3. TInv /\ QueueType /\ PipeAccounted
  BY DEF BInv, MInv, RInv, TInv, Types
<1>4. \A u \in Tasks : ~GotFrom(u, p)
  <2> SUFFICES ASSUME NEW u \in Tasks, GotFrom(u, p) PROVE FALSE
    OBVIOUS
  <2>1. PICK c \in Buffers : c = task[u].buf
    BY <1>3, TypeParts DEF TInv, Shape, Types, Calls, InCall, TaskType, Call, GotFrom
  <2>2. Undelivered(p) = <<c>> \o queue[p]
    BY <1>1, <1>3, <2>1, OneGetter
  <2>3. inbox[p] = MessagesIn(<<c>> \o queue[p])
    BY <1>1, <2>2, InboxIs
  <2> QED  BY <1>2, <2>3, MessagesCons
<1>5. queue[p] = <<>>
  <2>1. inbox[p] = MessagesIn(queue[p])
    BY <1>1, <1>4, NoGetter, InboxIs
  <2>2. Len(queue[p]) = 0
    BY <1>2, <2>1 DEF MessagesIn
  <2> QED  BY <1>2, <2>2
<1>6. OnPipe(m, p) = 0
  <2>1. Marked(queue[p], content, m) = {}
    BY <1>5 DEF Marked
  <2>2. GetOf(m, p) = {}
    BY <1>4 DEF GetOf, GotFrom
  <2>3. OnPipe(m, p) = Cardinality(Marked(queue[p], content, m)) + Cardinality(GetOf(m, p))
    BY <1>1, <1>3, OnPipeParts
  <2> QED  BY <2>1, <2>2, <2>3, FS_EmptySet
<1>7. dest[m][p].count < dest[m][p].limit
  <2>1. dest[m][p].count <= OnPipe(m, p)
    BY <1>1, <1>3 DEF PipeAccounted
  <2>2. dest[m][p].count \in Nat /\ dest[m][p].limit \in Nat \ {0}
    BY <1>2, SbAssumption DEF Subscription
  <2> QED  BY <1>6, <2>1, <2>2
<1>8. Len(queue[p]) < Depth[p]
  BY <1>1, <1>5, SbAssumption
<1> QED  BY <1>1, <1>7, <1>8 DEF Targets

LEMMA BroadcastBus ==
  ASSUME BInv, MInv', Next, NEW t \in Tasks, BroadcastBufferToRoute(t)
  PROVE  Bus!Deliver(t) \/ BusSame
<1> USE TypeParts DEF BInv, MInv, RInv, TInv, Shape, Types
<1>1. PICK b \in Buffers : b = task[t].buf
  BY DEF BroadcastBufferToRoute, Calls, InCall, TaskType, Call
<1>15. PICK to \in SUBSET Pipes :
            /\ to = IF task[t].routed THEN Targets(t, content[task[t].buf].id) ELSE {}
            /\ \A p \in Pipes : queue'[p] = IF p \in to THEN Append(queue[p], task[t].buf) ELSE queue[p]
            /\ \A p \in Pipes : pipe'[p] = IF p \in to THEN [pipe[p] EXCEPT !.depth = @ + 1] ELSE pipe[p]
            /\ \A m \in Msgs, p \in Pipes : dest'[m][p] =
                 IF m = content[task[t].buf].id /\ p \in to THEN [dest[m][p] EXCEPT !.count = @ + 1]
                                                            ELSE dest[m][p]
            /\ Goto(t, Idle)
  BY BroadcastParts
<1>2. /\ to = IF task[t].routed THEN Targets(t, content[b].id) ELSE {}
      /\ \A p \in Pipes : queue'[p] = IF p \in to THEN Append(queue[p], b) ELSE queue[p]
      /\ \A p \in Pipes : pipe'[p] = IF p \in to THEN [pipe[p] EXCEPT !.depth = @ + 1] ELSE pipe[p]
      /\ \A m \in Msgs, p \in Pipes : dest'[m][p] =
           IF m = content[b].id /\ p \in to THEN [dest[m][p] EXCEPT !.count = @ + 1] ELSE dest[m][p]
  BY <1>1, <1>15
<1>3. PICK v : v = MessageIn(b)
  OBVIOUS
<1>4. At(t, "sending") /\ task'[t].pc = "idle" /\ \A u \in Tasks \ {t} : task'[u] = task[u]
  <2>1. At(t, "sending")
    BY DEF BroadcastBufferToRoute
  <2> QED  BY <1>15, <2>1 DEF Goto, TaskType, Idle
<1>5. v \in Message /\ IdOf(v) = content[b].id /\ content[b].id \in Msgs /\ v # None
  <2>1. content[b].id \in Msgs /\ content[b].data \in Payloads
    BY <1>1, Fresh DEF Mail, Sent
  <2>2. v \in Message /\ IdOf(v) = content[b].id
    BY <1>3, <2>1 DEF MessageIn, Message, IdOf
  <2> QED  BY <2>1, <2>2, SbAssumption DEF Message
<1>6. \A p \in Pipes : /\ pipe'[p].last = pipe[p].last /\ pipe'[p].state = pipe[p].state
                       /\ pipe'[p].ignore = pipe[p].ignore
  BY <1>2 DEF PipeType, PipeRecord
<1>7. \A m \in Msgs, p \in Pipes : SameRoute(m, p)
  <2> SUFFICES ASSUME NEW m \in Msgs, NEW p \in Pipes PROVE SameRoute(m, p)
    OBVIOUS
  <2>1. CASE m = content[b].id /\ p \in to
    <3>1. Subscribed(m, p) /\ dest[m][p] \in Subscription
      BY <1>2, <2>1 DEF Targets, DestType, Subscribed
    <3>2. dest'[m][p] = [dest[m][p] EXCEPT !.count = @ + 1]
      BY <1>2, <2>1
    <3>3. dest'[m][p] # None /\ dest'[m][p].active = dest[m][p].active
      <4>1. dest'[m][p].active = dest[m][p].active
        BY <3>1, <3>2 DEF Subscription
      <4>2. dest'[m][p] # None
        <5>1. [dest[m][p] EXCEPT !.count = @ + 1] \in Subscription
          BY <3>1 DEF Subscription
        <5> QED  BY <3>2, <5>1, Fresh
      <4> QED  BY <4>1, <4>2
    <3> QED  BY <1>6, <3>1, <3>3 DEF SameRoute, Subscribed
  <2>2. CASE ~(m = content[b].id /\ p \in to)
    <3>1. dest'[m][p] = dest[m][p]
      BY <1>2, <2>2
    <3> QED  BY <1>6, <3>1 DEF SameRoute, Subscribed
  <2> QED  BY <2>1, <2>2
<1> HIDE DEF BInv, MInv, RInv, TInv, Shape, Types
<1>8. MInv
  BY DEF BInv
<1>9. SameGetters
  BY <1>4 DEF SameGetters, At
<1>10. UNCHANGED <<held, subs, open>>
  BY <1>6, <1>7, <1>8, HeldUnchanged, RoutesSame
<1>11. sending'[t] = None /\ \A u \in Tasks \ {t} : sending'[u] = sending[u]
  <2>1. sending'[t] = None
    BY <1>4 DEF sending, At
  <2>2. \A u \in Tasks \ {t} : sending'[u] = sending[u]
    BY <1>4, <1>8, SendingSame DEF At
  <2> QED  BY <2>1, <2>2
<1>12. \A p \in Pipes : inbox'[p] = IF p \in to THEN Append(inbox[p], v) ELSE inbox[p]
  <2>1. SentTo(t, b, to)
    BY <1>1, <1>2, <1>6 DEF SentTo
  <2> QED  BY <1>3, <1>9, <2>1, BroadcastInbox
<1>13. CASE task[t].routed
  <2>1. sending[t] = v
    BY <1>1, <1>3, <1>4, <1>13 DEF sending
  <2>2. sending' = [sending EXCEPT ![t] = None]
    <3>1. sending = [u \in Tasks |-> sending[u]] /\ sending' = [u \in Tasks |-> sending'[u]]
      BY DEF sending
    <3> QED  BY <1>11, <3>1
  <2>3. inbox' = [p \in Pipes |-> IF p \in to THEN Append(inbox[p], v) ELSE inbox[p]]
    <3>1. inbox' = [p \in Pipes |-> inbox'[p]]
      BY DEF inbox
    <3> QED  BY <1>12, <3>1
  <2>4. to \in SUBSET subs[IdOf(v)]
    BY <1>2, <1>5, <1>13 DEF Targets, subs
  <2>5. {p \in open[IdOf(v)] : inbox[p] = <<>>} \subseteq to
    BY <1>2, <1>5, <1>13, OpenTargets DEF open
  <2> QED  BY <1>5, <1>10, <2>1, <2>2, <2>3, <2>4, <2>5 DEF Bus!Deliver
<1>14. CASE ~task[t].routed
  <2>1. sending[t] = None /\ to = {}
    BY <1>2, <1>14 DEF sending
  <2>2. \A p \in Pipes : inbox'[p] = inbox[p]
    BY <1>12, <2>1
  <2> QED  BY <1>10, <1>11, <2>1, <2>2, BusFunctions DEF BusSame
<1> QED  BY <1>13, <1>14

\* The message that a receiver gets from the queue is still in the inbox.
LEMMA GetBus ==
  ASSUME MInv, MInv', Next, NEW t \in Tasks, QueueGet(t), NEW p, p = task[t].pipe
  PROVE  BusSame
<1> USE TypeParts DEF MInv, RInv, TInv, Shape, Types
<1>1. PICK h : h = Head(queue[p])
  OBVIOUS
<1>2. /\ p \in Pipes /\ queue[p] # <<>> /\ At(t, "waiting") /\ queue[p] \in Seq(Buffers)
      /\ queue'[p] = Tail(queue[p]) /\ \A s \in Pipes \ {p} : queue'[s] = queue[s]
      /\ UNCHANGED <<pipe, dest, content>>
  BY DEF QueueGet, Calls, InCall, TaskType, Call, QueueType
<1>3. /\ task'[t].pc = "gotten" /\ task'[t].pipe = p /\ task'[t].buf = h
      /\ \A u \in Tasks \ {t} : task'[u] = task[u]
  BY <1>1 DEF QueueGet, Goto, TaskType, Call
<1>4. Used(p) => \A u \in Tasks : ~GotFrom(u, p)
  BY <1>2 DEF Served, Receiving, GotFrom, At
<1> HIDE DEF MInv, RInv, TInv, Shape, Types
<1>5. \A u \in Tasks : IF At(u, "sending") /\ task[u].routed THEN task'[u] = task[u]
                       ELSE ~(At(u, "sending") /\ task[u].routed)'
  BY <1>2, <1>3 DEF At
<1>6. \A m \in Msgs, s \in Pipes : SameRoute(m, s)
  BY <1>2 DEF SameRoute, Subscribed
<1>7. ASSUME NEW s \in Pipes, s # p PROVE inbox'[s] = inbox[s]
  <2>1. SameGettersOf(s) /\ (Used(s)' <=> Used(s)) /\ queue'[s] = queue[s]
    BY <1>2, <1>3, <1>7 DEF SameGettersOf, GotFrom, At, Used
  <2> QED  BY <2>1, InboxSame
<1>8. inbox'[p] = inbox[p]
  <2>1. CASE ~Used(p)
    <3>1. ~Used(p)'
      BY <1>2, <2>1 DEF Used
    <3> QED  BY <1>2, <2>1, <3>1, InboxIs
  <2>2. CASE Used(p)
    <3>1. GotFrom(t, p)' /\ Used(p)'
      BY <1>2, <1>3, <2>2 DEF GotFrom, At, Used
    <3>2. Undelivered(p)' = <<h>> \o queue'[p]
      BY <1>2, <1>3, <3>1, OneGetterNext DEF MInv, RInv
    <3>3. <<h>> \o queue'[p] = queue[p]
      BY <1>1, <1>2
    <3>4. Undelivered(p) = queue[p]
      BY <1>2, <1>4, <2>2, NoGetter
    <3>5. PICK s \in Seq(Buffers) : s = Undelivered(p) /\ \A i \in 1..Len(s) : Underway(s[i])
      BY <1>2, <2>2, UndeliveredType DEF MInv, RInv
    <3>6. MessagesIn(s)' = MessagesIn(s)
      BY <3>5, MessagesSame
    <3> QED  BY <1>2, <2>2, <3>1, <3>2, <3>3, <3>4, <3>5, <3>6, InboxIs
  <2> QED  BY <2>1, <2>2
<1>9. \A s \in Pipes : pipe'[s].last = pipe[s].last
  BY <1>2
<1> QED  BY <1>5, <1>6, <1>7, <1>8, <1>9, SendingSame, BusFunctions, HeldUnchanged, RoutesSame DEF BusSame

\* What a receive that ends does to pipes and subscriptions.
LEMMA DoneParts ==
  ASSUME MInv, NEW t \in Tasks, ReceiveDone(t), NEW p, p = task[t].pipe, NEW b, b = task[t].buf
  PROVE  /\ p \in Pipes /\ b \in Buffers /\ GotFrom(t, p) /\ UNCHANGED <<queue, content>>
         /\ task'[t].pc = "idle" /\ \A u \in Tasks \ {t} : task'[u] = task[u]
         /\ \A s \in Pipes : /\ pipe'[s].state = pipe[s].state /\ pipe'[s].ignore = pipe[s].ignore
                             /\ pipe'[s].last = IF s = p /\ Used(p) THEN b ELSE pipe[s].last
         /\ \A m \in Msgs, s \in Pipes : SameRoute(m, s)
<1> USE TypeParts DEF MInv, RInv, TInv, Shape, Types
<1>1. PICK m \in Msgs : m = content[b].id
  BY DEF ReceiveDone, Calls, InCall, Mail, Sent
<1>2. p \in Pipes /\ b \in Buffers /\ GotFrom(t, p) /\ UNCHANGED <<queue, content>>
  BY DEF ReceiveDone, Calls, InCall, TaskType, Call, GotFrom
<1>3. task'[t].pc = "idle" /\ \A u \in Tasks \ {t} : task'[u] = task[u]
  BY DEF ReceiveDone, Goto, TaskType, Idle
<1>4. \A s \in Pipes : /\ pipe'[s].state = pipe[s].state /\ pipe'[s].ignore = pipe[s].ignore
                       /\ pipe'[s].last = IF s = p /\ Used(p) THEN b ELSE pipe[s].last
  <2>1. CASE Used(p)
    <3> DEFINE d == Less(pipe[p].depth)
    <3>1. pipe' = [pipe EXCEPT ![p] = [pipe[p] EXCEPT !.last = b, !.depth = d]]
      BY <1>2, <2>1 DEF ReceiveDone, DepthAfter, PipeType
    <3> HIDE DEF d
    <3> QED  BY <1>2, <2>1, <3>1 DEF PipeType, PipeRecord
  <2>2. CASE ~Used(p)
    BY <2>2 DEF ReceiveDone
  <2> QED  BY <2>1, <2>2
<1>5. ASSUME NEW n \in Msgs, NEW s \in Pipes PROVE SameRoute(n, s)
  <2>1. CASE Used(p) /\ Subscribed(m, p)
    <3> DEFINE c == Less(dest[m][p].count)
               r == [dest[m][p] EXCEPT !.count = c]
    <3>1. dest[m][p] \in Subscription
      BY <1>2, <2>1 DEF DestType, Subscribed
    <3>2. dest' = [dest EXCEPT ![m][p].count = c]
      BY <1>1, <2>1 DEF ReceiveDone
    <3>3. c \in Nat
      BY <3>1 DEF Less, Subscription
    <3> HIDE DEF c
    <3>4. r \in Subscription /\ r.active = dest[m][p].active
      BY <3>1, <3>3 DEF Subscription
    <3>5. dest'[m][p] = r /\ \A k \in Msgs, q \in Pipes : k # m \/ q # p => dest'[k][q] = dest[k][q]
      BY <1>2, <3>2 DEF DestType
    <3> HIDE DEF r
    <3>6. CASE n = m /\ s = p
      BY <1>4, <2>1, <3>4, <3>5, <3>6, Fresh DEF SameRoute, Subscribed
    <3>7. CASE n # m \/ s # p
      BY <1>4, <3>5, <3>7 DEF SameRoute, Subscribed
    <3> QED  BY <3>6, <3>7
  <2>2. CASE ~(Used(p) /\ Subscribed(m, p))
    <3>1. UNCHANGED dest
      BY <1>1, <2>2 DEF ReceiveDone
    <3> QED  BY <1>4, <3>1 DEF SameRoute, Subscribed
  <2> QED  BY <2>1, <2>2
<1> QED  BY <1>2, <1>3, <1>4, <1>5

LEMMA DoneBus ==
  ASSUME MInv, MInv', Next, NEW t \in Tasks, ReceiveDone(t), NEW p, p = task[t].pipe, NEW b, b = task[t].buf
  PROVE  (p \in Pipes /\ Bus!Take(p)) \/ BusSame
<1>1. /\ p \in Pipes /\ b \in Buffers /\ GotFrom(t, p) /\ UNCHANGED <<queue, content>>
      /\ task'[t].pc = "idle" /\ \A u \in Tasks \ {t} : task'[u] = task[u]
      /\ \A s \in Pipes : /\ pipe'[s].state = pipe[s].state
                          /\ pipe'[s].last = IF s = p /\ Used(p) THEN b ELSE pipe[s].last
  BY DoneParts
<1>2. UNCHANGED <<subs, open>>
  BY DoneParts, RoutesSame
<1>3. sending' = sending
  <2>1. \A u \in Tasks : IF At(u, "sending") /\ task[u].routed THEN task'[u] = task[u]
                         ELSE ~(At(u, "sending") /\ task[u].routed)'
    BY <1>1 DEF At, GotFrom
  <2> QED  BY <2>1, SendingSame, BusFunctions
<1>4. ASSUME NEW s \in Pipes, s # p PROVE inbox'[s] = inbox[s] /\ held'[s] = held[s]
  <2>1. SameGettersOf(s) /\ (Used(s)' <=> Used(s)) /\ queue'[s] = queue[s] /\ pipe'[s].last = pipe[s].last
    BY <1>1, <1>4 DEF SameGettersOf, GotFrom, At, Used
  <2> QED  BY <2>1, InboxSame, HeldSame
<1>5. CASE ~Used(p)
  <2>1. ~Used(p)' /\ pipe'[p].last = pipe[p].last
    BY <1>1, <1>5 DEF Used
  <2>2. inbox'[p] = inbox[p] /\ held'[p] = held[p]
    BY <1>1, <1>5, <2>1, InboxIs, HeldSame
  <2> QED  BY <1>2, <1>3, <1>4, <2>2, BusFunctions DEF BusSame
<1>6. CASE Used(p)
  <2>1. queue[p] \in Seq(Buffers) /\ pipe[p].last = None /\ \A u \in Tasks : GotFrom(u, p) => u = t
    BY <1>1, <1>6, TypeParts DEF MInv, RInv, TInv, Shape, Types, QueueType, Served, Receiving, GotFrom, At
  <2>2. held[p] = None /\ held'[p] = MessageIn(b)
    <3>1. pipe'[p].last = b /\ b # None
      BY <1>1, <1>6, Fresh
    <3>2. MessageIn(b)' = MessageIn(b)
      BY <1>1 DEF MessageIn
    <3>3. held'[p] = MessageIn(b)'
      BY <1>1, <3>1 DEF held, MessageIn
    <3> QED  BY <1>1, <2>1, <3>2, <3>3 DEF held
  <2>3. PICK q \in Seq(Buffers) : q = queue[p]
    BY <2>1
  <2>4. inbox[p] # <<>> /\ Head(inbox[p]) = MessageIn(b) /\ Tail(inbox[p]) = MessagesIn(q)
    <3>1. PICK s : s = <<b>> \o q
      OBVIOUS
    <3>2. Undelivered(p) = s
      BY <1>1, <1>6, <2>3, <3>1, OneGetter DEF MInv, RInv
    <3>3. inbox[p] = MessagesIn(s)
      BY <1>1, <1>6, <3>2, InboxIs
    <3> QED  BY <1>1, <3>1, <3>3, MessagesCons
  <2>5. inbox'[p] = MessagesIn(q)
    <3>1. (\A u \in Tasks : ~GotFrom(u, p)') /\ Used(p)' /\ queue'[p] = q
      BY <1>1, <1>6, <2>1, <2>3 DEF GotFrom, At, Used
    <3>2. Undelivered(p)' = q
      BY <1>1, <3>1, NoGetterNext
    <3>3. inbox'[p] = MessagesIn(q)'
      BY <1>1, <3>1, <3>2, InboxIs
    <3> QED  BY <1>1, <3>3 DEF MessagesIn, MessageIn
  <2>6. held' = [held EXCEPT ![p] = Head(inbox[p])] /\ inbox' = [inbox EXCEPT ![p] = Tail(@)]
    <3>1. /\ inbox = [s \in Pipes |-> inbox[s]] /\ inbox' = [s \in Pipes |-> inbox'[s]]
          /\ held = [s \in Pipes |-> held[s]] /\ held' = [s \in Pipes |-> held'[s]]
      BY DEF inbox, held
    <3> QED  BY <1>4, <2>2, <2>4, <2>5, <3>1
  <2> QED  BY <1>1, <1>2, <1>3, <2>2, <2>4, <2>6 DEF Bus!Take
<1> QED  BY <1>5, <1>6

\* The receiver is done with its message when it asks for the next.
LEMMA ReceiveBus ==
  ASSUME MInv, MInv', Next, NEW t \in Tasks, NEW p \in Pipes, ReceiveBuffer(t, p)
  PROVE  Bus!Done(p)
<1> USE TypeParts DEF MInv, RInv, TInv, Types
<1>1. UNCHANGED <<queue, dest>> /\ At(t, "idle") /\ \E r : r.pc = "waiting" /\ Goto(t, r)
  BY DEF ReceiveBuffer, Idle
<1>2. /\ pipe'[p].last = None
      /\ \A s \in Pipes \ {p} : pipe'[s] = pipe[s]
      /\ \A s \in Pipes : pipe'[s].state = pipe[s].state /\ pipe'[s].ignore = pipe[s].ignore
  BY DEF ReceiveBuffer, PipeType, PipeRecord
<1>3. SameGetters /\ sending' = sending
  BY <1>1, GotoSameGetters, SendingUnchanged DEF At
<1> HIDE DEF MInv, RInv, TInv, Types
<1>4. inbox' = inbox
  BY <1>1, <1>2, <1>3, InboxUnchanged DEF Used
<1>5. UNCHANGED <<subs, open>>
  BY <1>1, <1>2, RoutesSame DEF SameRoute, Subscribed
<1>6. held' = [held EXCEPT ![p] = None]
  <2>1. held'[p] = None
    BY <1>2 DEF held
  <2>2. \A s \in Pipes \ {p} : held'[s] = held[s]
    BY <1>2, HeldSame
  <2>3. held' = [s \in Pipes |-> held'[s]] /\ held = [s \in Pipes |-> held[s]]
    BY DEF held
  <2> QED  BY <2>1, <2>2, <2>3
<1> QED  BY <1>3, <1>4, <1>5, <1>6 DEF Bus!Done

\* Emptying the queue of a closed pipe is not seen.
LEMMA DrainBus ==
  ASSUME MInv, MInv', Next, NEW t \in Tasks \cup {ES}, DrainNext(t), NEW p, p = task[t].pipe
  PROVE  BusSame
<1> USE TypeParts DEF MInv, RInv, TInv, Shape, Types
<1>1. /\ p \in Pipes /\ ~Used(p) /\ pipe[p].last = None /\ UNCHANGED dest
      /\ \A m \in Msgs : ~Subscribed(m, p)
  BY DEF DrainNext, Calls, InCall, TaskType, Call, PipeStates, Used
<1>2. /\ ~Used(p)' /\ pipe'[p].last = None
      /\ \A s \in Pipes \ {p} : pipe'[s] = pipe[s] /\ queue'[s] = queue[s]
  BY <1>1 DEF DrainNext, Used, PipeType, QueueType, NoPipe
<1>3. SameGetters /\ sending' = sending
  <2>1. \E r : r.pc \notin {"gotten", "sending"} /\ Goto(t, r)
    <3>1. CASE queue[p] # <<>>
      BY <3>1 DEF DrainNext, At, TaskType, Call
    <3>2. CASE queue[p] = <<>>
      BY <3>2 DEF DrainNext, Idle
    <3> QED  BY <3>1, <3>2
  <2> QED  BY <2>1, GotoSameGetters, SendingUnchanged DEF DrainNext, At
<1> HIDE DEF MInv, RInv, TInv, Shape, Types
<1>4. inbox'[p] = inbox[p]
  BY <1>1, <1>2, InboxIs
<1>5. ASSUME NEW s \in Pipes, s # p PROVE inbox'[s] = inbox[s]
  <2>1. SameGettersOf(s) /\ (Used(s)' <=> Used(s)) /\ queue'[s] = queue[s]
    BY <1>2, <1>3, <1>5, SameGettersAll DEF Used
  <2> QED  BY <2>1, InboxSame
<1>6. \A s \in Pipes : pipe'[s].last = pipe[s].last
  BY <1>1, <1>2
<1>7. \A m \in Msgs, s \in Pipes : SameRoute(m, s)
  BY <1>1, <1>2 DEF SameRoute, Subscribed
<1> QED  BY <1>3, <1>4, <1>5, <1>6, <1>7, BusFunctions, HeldUnchanged, RoutesSame DEF BusSame

LEMMA ReleaseAppBus ==
  ASSUME MInv, MInv', Next, ZeroCopyReleaseAppId
  PROVE  BusSame
<1>1. UNCHANGED <<pipe, queue, dest>>
  BY DEF ZeroCopyReleaseAppId
<1>2. \A u \in Tasks : task'[u] = task[u] \/ (task[u].pc \in {"idle", "waiting"} /\ task'[u].pc = "idle")
  BY TypeParts DEF ZeroCopyReleaseAppId, MInv, RInv, TInv, Types, TaskType, Idle, At
<1>3. SameGetters
  BY <1>2 DEF SameGetters, At
<1>4. \A u \in Tasks : IF At(u, "sending") /\ task[u].routed THEN task'[u] = task[u]
                       ELSE ~(At(u, "sending") /\ task[u].routed)'
  BY <1>2 DEF At
<1>5. /\ \A m \in Msgs, s \in Pipes : SameRoute(m, s)
      /\ \A s \in Pipes : Used(s)' <=> Used(s)
  BY <1>1 DEF SameRoute, Subscribed, Used
<1> QED  BY <1>1, <1>3, <1>4, <1>5, SendingSame, BusFunctions, InboxUnchanged, HeldUnchanged, RoutesSame
         DEF BusSame

LEMMA BusStep ==
  ASSUME BInv, MInv', Next
  PROVE  Bus!Next \/ BusSame
<1>0. MInv
  BY DEF BInv
<1>1. ASSUME NEW t \in Tasks, NEW p \in Pipes,
             CreatePipe(t, p) \/ SetPipeOpts(t, p) \/ ReceiveBuffer(t, p) \/ DeletePipe(t, p)
      PROVE  Bus!Next \/ BusSame
  <2>1. CASE CreatePipe(t, p)
    BY <1>0, <2>1, CreateBus
  <2>2. CASE SetPipeOpts(t, p)
    BY <1>0, <2>2, OptsBus DEF Bus!Next
  <2>3. CASE ReceiveBuffer(t, p)
    BY <1>0, <2>3, ReceiveBus DEF Bus!Next
  <2>4. CASE DeletePipe(t, p)
    <3>1. At(t, "idle") /\ ClosePipe(t, p, AppOf[t])
      BY <2>4 DEF DeletePipe
    <3> QED  BY <1>0, <3>1, CloseBus DEF Bus!Next
  <2> QED  BY <1>1, <2>1, <2>2, <2>3, <2>4
<1>2. ASSUME NEW m \in Msgs, NEW p \in Pipes,
             \/ \E t \in Tasks : \/ Unsubscribe(t, m, p)
                                 \/ \E lim \in Limits : Subscribe(t, m, p, lim)
             \/ \E active \in BOOLEAN : SetRoute(m, p, active)
      PROVE  Bus!Next \/ BusSame
  <2>1. DestType
    BY <1>0, TypeParts DEF MInv, RInv, TInv, Types
  <2>2. \E v : dest' = [dest EXCEPT ![m][p] = v]
    <3>1. ASSUME NEW active, SetRoute(m, p, active) PROVE \E v : dest' = [dest EXCEPT ![m][p] = v]
      <4> DEFINE v == [dest[m][p] EXCEPT !.active = active]
      <4>1. dest' = [dest EXCEPT ![m][p] = v]
        BY <3>1 DEF SetRoute
      <4> HIDE DEF v
      <4> QED  BY <4>1
    <3>2. ASSUME NEW t \in Tasks, Unsubscribe(t, m, p) \/ \E lim \in Limits : Subscribe(t, m, p, lim)
          PROVE  \E v : dest' = [dest EXCEPT ![m][p] = v]
      BY <3>2 DEF Unsubscribe, Subscribe
    <3> QED  BY <1>2, <3>1, <3>2
  <2>3. \A n \in Msgs, s \in Pipes : n # m \/ s # p => dest'[n][s] = dest[n][s]
    BY <2>1, <2>2 DEF DestType
  <2>4. UNCHANGED <<pipe, queue, content, task>>
    BY <1>2 DEF Unsubscribe, Subscribe, SetRoute
  <2>5. Bus!Reroute(m, p)
    BY <1>0, <2>3, <2>4, RouteBus
  <2> QED  BY <2>5 DEF Bus!Next
<1>3. ASSUME NEW t \in Tasks, NEW m \in Msgs, NEW d \in Payloads,
             TransmitMsg(t, m, d) \/ TransmitBuffer(t, m, d)
      PROVE  Bus!Next \/ BusSame
  BY <1>0, <1>3, OfferBus DEF Bus!Next
<1>4. ASSUME NEW t \in Tasks, AllocateMessageBuffer(t) \/ ReleaseMessageBuffer(t)
      PROVE  BusSame
  BY <1>0, <1>4, PoolBus DEF AllocateMessageBuffer, ReleaseMessageBuffer
<1>5. ASSUME NEW t \in Tasks, BroadcastBufferToRoute(t) PROVE Bus!Next \/ BusSame
  BY <1>5, BroadcastBus DEF Bus!Next
<1>6. ASSUME NEW t \in Tasks, QueueGet(t) PROVE BusSame
  BY <1>0, <1>6, GetBus
<1>7. ASSUME NEW t \in Tasks, ReceiveDone(t) PROVE Bus!Next \/ BusSame
  <2>1. PICK p, b : p = task[t].pipe /\ b = task[t].buf
    OBVIOUS
  <2>2. (p \in Pipes /\ Bus!Take(p)) \/ BusSame
    BY <1>0, <1>7, <2>1, DoneBus
  <2> QED  BY <2>2 DEF Bus!Next
<1>8. ASSUME NEW t \in Tasks, ReceiveNothing(t) PROVE BusSame
  <2>1. /\ UNCHANGED <<pipe, queue, dest>> /\ task[t].pc \notin {"sending", "gotten"}
        /\ \E r : r.pc \notin {"sending", "gotten"} /\ Goto(t, r)
    BY <1>8 DEF ReceiveNothing, At, Idle
  <2> QED  BY <1>0, <2>1, CallBus
<1>9. ASSUME NEW t \in Tasks \cup {ES}, DrainPrevious(t) PROVE BusSame
  <2>1. /\ UNCHANGED <<pipe, queue, dest>> /\ task[t].pc \notin {"sending", "gotten"}
        /\ \E r : r.pc \notin {"sending", "gotten"} /\ Goto(t, r)
    BY <1>0, <1>9, TypeParts DEF DrainPrevious, At, MInv, RInv, TInv, Types, TaskType, Call
  <2> QED  BY <1>0, <2>1, CallBus
<1>10. ASSUME NEW t \in Tasks \cup {ES}, DrainNext(t) PROVE BusSame
  BY <1>0, <1>10, DrainBus
<1>11. ASSUME NEW a \in External, CleanUpApp(a) PROVE BusSame
  BY <1>0, <1>11, PoolBus DEF CleanUpApp
<1>12. ASSUME CleanUpPipe PROVE Bus!Next
  <2>1. PICK p \in cleaning.todo : ClosePipe(ES, p, cleaning.app)
    BY <1>12 DEF CleanUpPipe
  <2>2. p \in Pipes
    BY <1>0, <2>1, TypeParts DEF MInv, RInv, TInv, Types, OtherTypes
  <2>3. Bus!Delete(p)
    BY <1>0, <1>12, <2>1, <2>2, CloseBus DEF CleanUpPipe
  <2> QED  BY <2>2, <2>3 DEF Bus!Next
<1>13. ASSUME ZeroCopyReleaseAppId PROVE BusSame
  BY <1>0, <1>13, ReleaseAppBus
<1>14. CASE \E t \in Tasks :
              \/ \E p \in Pipes : CreatePipe(t, p) \/ SetPipeOpts(t, p) \/ ReceiveBuffer(t, p)
                                  \/ DeletePipe(t, p)
              \/ \E m \in Msgs, p \in Pipes : Unsubscribe(t, m, p)
                                              \/ \E lim \in Limits : Subscribe(t, m, p, lim)
              \/ \E m \in Msgs, d \in Payloads : TransmitMsg(t, m, d) \/ TransmitBuffer(t, m, d)
              \/ AllocateMessageBuffer(t) \/ ReleaseMessageBuffer(t) \/ BroadcastBufferToRoute(t)
              \/ QueueGet(t) \/ ReceiveNothing(t) \/ ReceiveDone(t)
  BY <1>1, <1>2, <1>3, <1>4, <1>5, <1>6, <1>7, <1>8, <1>14
<1> QED  BY <1>2, <1>9, <1>10, <1>11, <1>12, <1>13, <1>14 DEF Next

\* The software bus implements MessageBus: for all its buffers, counts and
\* tasks, a message arrives as it was sent and in order, at every subscribed
\* pipe that is empty and open, and stays as it is while its receiver works on
\* it.  Underneath are the theorems above: a buffer under way is not taken from
\* the pool, and a count of messages does not stick.
THEOREM SbImplementsBus == Spec => ImplementsBus
<1>1. Init => Bus!Init
  <2> SUFFICES ASSUME Init PROVE Bus!Init
    OBVIOUS
  <2>1. \A t \in Tasks : sending[t] = None
    BY DEF Init, sending, At, Idle
  <2>2. \A p \in Pipes : inbox[p] = <<>> /\ held[p] = None
    BY DEF Init, inbox, held, Used, NoPipe
  <2>3. \A m \in Msgs : subs[m] = {} /\ open[m] = {}
    BY DEF Init, subs, open, Open, Subscribed
  <2>4. /\ sending = [t \in Tasks |-> sending[t]] /\ inbox = [p \in Pipes |-> inbox[p]]
        /\ held = [p \in Pipes |-> held[p]]
        /\ subs = [m \in Msgs |-> subs[m]] /\ open = [m \in Msgs |-> open[m]]
    BY DEF sending, inbox, held, subs, open
  <2> QED  BY <2>1, <2>2, <2>3, <2>4 DEF Bus!Init
<1>2. MInv /\ MInv' /\ PipeAccounted /\ [Next]_vars => [Bus!Next]_(Bus!vars)
  <2> SUFFICES ASSUME MInv, MInv', PipeAccounted, [Next]_vars PROVE Bus!Next \/ UNCHANGED Bus!vars
    OBVIOUS
  <2>1. CASE Next
    BY <2>1, BusStep DEF BInv, BusSame, Bus!vars
  <2>2. CASE UNCHANGED vars
    BY <2>2 DEF vars, Bus!vars, sending, inbox, held, subs, open, MessagesIn, MessageIn, Undelivered, Open,
                Used, Subscribed, At
  <2> QED  BY <2>1, <2>2
<1> QED  BY <1>1, <1>2, AlwaysMInv, SbPipeAccounted, PTL DEF Spec, ImplementsBus, Bus!Spec

=============================================================================
