---------------------------- MODULE SoftwareBus ----------------------------
(***************************************************************************)
(* The cFE software bus: cfe/modules/sb and sbr.  Pipes, subscriptions     *)
(* with their message limits, and buffers shared by reference count        *)
(* between the sender, the queues and the receivers.                       *)
(*                                                                         *)
(* Each action is one section under CFE_SB_LockSharedData or one call of   *)
(* the operating system made outside it: that is where tasks interleave.   *)
(* Put inside the lock and get outside it still make one step of           *)
(* CFE_SB_BroadcastBufferToRoute, for a get moves before or after it.      *)
(*                                                                         *)
(* Left out: telemetry counters and events; sequence counts; requests that *)
(* are refused, which change only counters; the operating system failing a *)
(* put for a reason other than a full queue; the saturation of UseCount at *)
(* 0x7FFF, which is more than all queues can hold.  Pipe IDs are not       *)
(* reused while a task remembers one (the code cycles through 65535).      *)
(*                                                                         *)
(* Two things are assumed of the users.  One task serves a pipe, as the    *)
(* note in CFE_SB_ReceiveBuffer asks.  And an application that ES cleans   *)
(* up has stopped using the bus, except that a task may be in a receive:   *)
(* this is what leaving through CFE_ES_ExitApp gives.                      *)
(***************************************************************************)
EXTENDS Naturals, FiniteSets, Sequences

CONSTANTS Apps, Tasks,
          AppOf,     \* task -> its application
          External,  \* the applications that ES may end; the core ones it may not
          Pipes, Msgs, Buffers, Payloads,
          Creator,   \* pipe -> the task that creates it
          Depth,     \* pipe -> depth it is created with
          Limits,    \* the message limits a subscription may ask for
          MaxDepth,  \* OS_QUEUE_MAX_DEPTH
          MaxDests,  \* CFE_PLATFORM_SB_MAX_DEST_PER_PKT
          ES,        \* the task of the executive
          None

ASSUME SbAssumption ==
  /\ AppOf \in [Tasks -> Apps] /\ External \subseteq Apps /\ Creator \in [Pipes -> Tasks]
  /\ IsFiniteSet(Pipes) /\ IsFiniteSet(Tasks)
  /\ Depth \in [Pipes -> 1..MaxDepth] /\ MaxDepth \in Nat /\ Limits \subseteq Nat \ {0} /\ MaxDests \in Nat
  /\ ES \notin Tasks /\ None \notin Tasks \union Apps \union Pipes \union Msgs
                                 \union Buffers \union Payloads
  /\ None \notin [id : Msgs, data : Payloads] \union [active : BOOLEAN, count : Nat, limit : Limits]

VARIABLES pipe,    \* PipeTbl: state, owner, task that serves it, CurrentQueueDepth,
                   \* LastBuffer, and whether IGNOREMINE is set
          queue,   \* pipe -> the OS queue of buffers
          routes,  \* message IDs that have a route
          dest,    \* message ID -> pipe -> destination block, or None
          use,     \* buffer -> UseCount; 0 when it is in the pool
          content, \* buffer -> MsgId and content, and the AppId of a zero-copy buffer
          zbuf,    \* task -> the zero-copy buffer it has allocated, or None
          task,    \* task -> where it is in a call of the bus, with its local variables
          cleaning,\* the application ES cleans up, or None, and the pipes to delete
          leftover \* history: message ID -> pipes subscribed again before its old
                   \* messages were received

vars == <<pipe, queue, routes, dest, use, content, zbuf, task, cleaning, leftover>>

NoPipe == [state |-> "free", app |-> None, task |-> None, depth |-> 0,
           last |-> None, ignore |-> FALSE]
NoCleaning == [app |-> None, todo |-> {}]
Idle == [pc |-> "idle", pipe |-> None, buf |-> None, routed |-> FALSE]
MessageIn(b) == [id |-> content[b].id, data |-> content[b].data]

Used(p) == pipe[p].state = "used"
Subscribed(m, p) == dest[m][p] # None

\* The application of a running task: none once ES has begun to clean it up.
Running(t) == t \in Tasks /\ cleaning.app # AppOf[t]
At(t, pc) == task[t].pc = pc
Goto(t, r) == task' = [task EXCEPT ![t] = r]

\* Variant with a bug, for sensitivity: the receiver borrows the reference of
\* the queue, which is then given up.
IncrBorrows(u, b) == u

Incr(u, b) == [u EXCEPT ![b] = @ + 1]
\* A count of zero puts the buffer back into the pool.
Decr(u, b) == IF b # None /\ u[b] > 0 THEN [u EXCEPT ![b] = @ - 1] ELSE u

\* CFE_SB_GetBufferFromPool, for a buffer v of task t.
GetBufferFromPool(b, v) ==
  /\ use[b] = 0
  /\ use' = [use EXCEPT ![b] = 1]
  /\ content' = [content EXCEPT ![b] = v]
----------------------------------------------------------------------------
Init ==
  /\ pipe = [p \in Pipes |-> NoPipe]
  /\ queue = [p \in Pipes |-> <<>>]
  /\ routes = {}
  /\ dest = [m \in Msgs |-> [p \in Pipes |-> None]]
  /\ use = [b \in Buffers |-> 0]
  /\ content = [b \in Buffers |-> [id |-> None, data |-> None, app |-> None]]
  /\ zbuf = [t \in Tasks |-> None]
  /\ task = [t \in Tasks \union {ES} |-> Idle]
  /\ cleaning = NoCleaning
  /\ leftover = [m \in Msgs |-> {}]

CreatePipe(t, p) ==
  /\ Running(t) /\ At(t, "idle") /\ Creator[p] = t
  /\ pipe[p].state = "free" /\ \A u \in Tasks : task[u].pipe # p
  /\ pipe' = [pipe EXCEPT ![p] = [NoPipe EXCEPT !.state = "used", !.app = AppOf[t], !.task = t]]
  /\ UNCHANGED <<queue, routes, dest, use, content, zbuf, task, cleaning, leftover>>

SetPipeOpts(t, p) ==
  /\ Running(t) /\ At(t, "idle") /\ Used(p) /\ pipe[p].app = AppOf[t]
  /\ pipe' = [pipe EXCEPT ![p].ignore = ~@]
  /\ UNCHANGED <<queue, routes, dest, use, content, zbuf, task, cleaning, leftover>>

\* Messages of ID m that are on pipe p, the one being received included.
OnPipe(m, p) ==
  Cardinality({i \in DOMAIN queue[p] : content[queue[p][i]].id = m})
  + Cardinality({t \in Tasks : At(t, "gotten") /\ task[t].pipe = p /\ content[task[t].buf].id = m})

Subscribe(t, m, p, lim) ==
  /\ Running(t) /\ At(t, "idle") /\ Used(p) /\ pipe[p].app = AppOf[t]
  /\ ~Subscribed(m, p)
  /\ Cardinality({q \in Pipes : Subscribed(m, q)}) < MaxDests
  /\ routes' = routes \union {m}
  /\ dest' = [dest EXCEPT ![m][p] = [active |-> TRUE, count |-> 0, limit |-> lim]]
  /\ leftover' = [leftover EXCEPT ![m] = IF OnPipe(m, p) > 0 THEN @ \union {p} ELSE @ \ {p}]
  /\ UNCHANGED <<pipe, queue, use, content, zbuf, task, cleaning>>

Unsubscribe(t, m, p) ==
  /\ Running(t) /\ At(t, "idle") /\ Used(p) /\ pipe[p].app = AppOf[t]
  /\ Subscribed(m, p)
  /\ dest' = [dest EXCEPT ![m][p] = None]
  /\ UNCHANGED <<pipe, queue, routes, use, content, zbuf, task, cleaning, leftover>>

\* CFE_SB_EnableRouteCmd and CFE_SB_DisableRouteCmd, ground commands.
SetRoute(m, p, active) ==
  /\ Used(p) /\ Subscribed(m, p)
  /\ dest' = [dest EXCEPT ![m][p].active = active]
  /\ UNCHANGED <<pipe, queue, routes, use, content, zbuf, task, cleaning, leftover>>
----------------------------------------------------------------------------
\* CFE_SB_TransmitMsg as far as the copy of the message into a buffer.
TransmitMsg(t, m, d) ==
  /\ Running(t) /\ At(t, "idle") /\ m \in routes
  /\ \E b \in Buffers :
        /\ GetBufferFromPool(b, [id |-> m, data |-> d, app |-> None])
        /\ Goto(t, [Idle EXCEPT !.pc = "sending", !.buf = b, !.routed = TRUE])
  /\ UNCHANGED <<pipe, queue, routes, dest, zbuf, cleaning, leftover>>

AllocateMessageBuffer(t) ==
  /\ Running(t) /\ At(t, "idle") /\ zbuf[t] = None
  /\ \E b \in Buffers :
        /\ GetBufferFromPool(b, [id |-> None, data |-> None, app |-> AppOf[t]])
        /\ zbuf' = [zbuf EXCEPT ![t] = b]
  /\ UNCHANGED <<pipe, queue, routes, dest, task, cleaning, leftover>>

\* CFE_SB_TransmitBuffer as far as the broadcast: the message the task has
\* written into its buffer, and whether it has a route now.
TransmitBuffer(t, m, d) ==
  /\ Running(t) /\ At(t, "idle") /\ zbuf[t] # None /\ content[zbuf[t]].app # None
  /\ content' = [content EXCEPT ![zbuf[t]].id = m, ![zbuf[t]].data = d]
  /\ Goto(t, [Idle EXCEPT !.pc = "sending", !.buf = zbuf[t], !.routed = m \in routes])
  /\ zbuf' = [zbuf EXCEPT ![t] = None]
  /\ UNCHANGED <<pipe, queue, routes, dest, use, cleaning, leftover>>

ReleaseMessageBuffer(t) ==
  /\ Running(t) /\ At(t, "idle") /\ zbuf[t] # None /\ content[zbuf[t]].app # None
  /\ content' = [content EXCEPT ![zbuf[t]].app = None]
  /\ use' = Decr(use, zbuf[t])
  /\ zbuf' = [zbuf EXCEPT ![t] = None]
  /\ UNCHANGED <<pipe, queue, routes, dest, task, cleaning, leftover>>

\* The pipes a message m from task t goes to.
Targets(t, m) ==
  {p \in Pipes :
     /\ Used(p) /\ Subscribed(m, p) /\ dest[m][p].active
     /\ ~(pipe[p].ignore /\ pipe[p].app = AppOf[t])
     /\ dest[m][p].count < dest[m][p].limit
     /\ Len(queue[p]) < Depth[p]}

BroadcastBufferToRoute(t) ==
  /\ At(t, "sending")
  /\ LET b == task[t].buf
         m == content[b].id
         to == IF task[t].routed THEN Targets(t, m) ELSE {}
         counted == [p \in Pipes |-> IF p \in to THEN [dest[m][p] EXCEPT !.count = @ + 1]
                                                 ELSE dest[m][p]]
     IN /\ queue' = [p \in Pipes |-> IF p \in to THEN Append(queue[p], b) ELSE queue[p]]
        /\ pipe' = [p \in Pipes |-> IF p \in to THEN [pipe[p] EXCEPT !.depth = @ + 1] ELSE pipe[p]]
        /\ dest' = [dest EXCEPT ![m] = counted]
        /\ content' = [content EXCEPT ![b].app = None]
        /\ use' = Decr([use EXCEPT ![b] = @ + Cardinality(to)], b)
  /\ Goto(t, Idle)
  /\ UNCHANGED <<routes, zbuf, cleaning, leftover>>
----------------------------------------------------------------------------
\* CFE_SB_ReceiveBuffer: the caller is done with the message it had.
ReceiveBuffer(t, p) ==
  /\ Running(t) /\ At(t, "idle") /\ Used(p) /\ pipe[p].task = t
  /\ use' = Decr(use, pipe[p].last)
  /\ pipe' = [pipe EXCEPT ![p].last = None]
  /\ Goto(t, [Idle EXCEPT !.pc = "waiting", !.pipe = p])
  /\ UNCHANGED <<queue, routes, dest, content, zbuf, cleaning, leftover>>

QueueGet(t) ==
  /\ At(t, "waiting")
  /\ LET p == task[t].pipe IN
     /\ queue[p] # <<>>
     /\ Goto(t, [task[t] EXCEPT !.pc = "gotten", !.buf = Head(queue[p])])
     /\ queue' = [queue EXCEPT ![p] = Tail(@)]
  /\ UNCHANGED <<pipe, routes, dest, use, content, zbuf, cleaning, leftover>>

\* A poll or a timeout, or the queue is gone.
ReceiveNothing(t) ==
  /\ At(t, "waiting") /\ queue[task[t].pipe] = <<>>
  /\ Goto(t, Idle)
  /\ UNCHANGED <<pipe, queue, routes, dest, use, content, zbuf, cleaning, leftover>>

\* Variant with a bug, for sensitivity: a message that was queued before its
\* pipe subscribed again takes the count below zero.
LessThanZero(n) == n - 1

\* One less, but not below zero.
Less(n) == IF n > 0 THEN n - 1 ELSE n

\* Variant with a bug, for sensitivity: the depth goes down with the count of
\* the subscription only.
DepthAfterSubscribed(p, m) == IF Subscribed(m, p) THEN Less(pipe[p].depth) ELSE pipe[p].depth

DepthAfter(p, m) == Less(pipe[p].depth)

ReceiveDone(t) ==
  /\ At(t, "gotten")
  /\ LET p == task[t].pipe
         b == task[t].buf
         m == content[b].id
     IN IF Used(p)
        THEN /\ pipe' = [pipe EXCEPT ![p].last = b, ![p].depth = DepthAfter(p, m)]
             /\ dest' = IF Subscribed(m, p) THEN [dest EXCEPT ![m][p].count = Less(@)] ELSE dest
             /\ use' = Decr(Incr(use, b), b)
        ELSE /\ use' = Decr(use, b)
             /\ UNCHANGED <<pipe, dest>>
  /\ Goto(t, Idle)
  /\ UNCHANGED <<queue, routes, content, zbuf, cleaning, leftover>>
----------------------------------------------------------------------------
\* Variant with a bug, for sensitivity: the queue is emptied, but the message
\* the receiver has is forgotten.
ClosePipeForgets(t, p, a) ==
  /\ Used(p) /\ pipe[p].app = a
  /\ pipe' = [pipe EXCEPT ![p].state = "reserved", ![p].last = None]
  /\ dest' = [m \in Msgs |-> [dest[m] EXCEPT ![p] = None]]
  /\ Goto(t, [Idle EXCEPT !.pc = "draining", !.pipe = p])
  /\ UNCHANGED <<queue, routes, use, content, zbuf, leftover>>

\* CFE_SB_DeletePipeFull, for application a: the part that closes the pipe;
\* the loop that empties its queue follows.
ClosePipe(t, p, a) ==
  /\ Used(p) /\ pipe[p].app = a
  /\ pipe' = [pipe EXCEPT ![p].state = "reserved", ![p].last = None]
  /\ dest' = [m \in Msgs |-> [dest[m] EXCEPT ![p] = None]]
  /\ Goto(t, [Idle EXCEPT !.pc = "draining", !.pipe = p, !.buf = pipe[p].last])
  /\ UNCHANGED <<queue, routes, use, content, zbuf, leftover>>

DeletePipe(t, p) ==
  /\ Running(t) /\ At(t, "idle")
  /\ ClosePipe(t, p, AppOf[t])
  /\ UNCHANGED cleaning

DrainPrevious(t) ==
  /\ At(t, "draining") /\ task[t].buf # None
  /\ use' = Decr(use, task[t].buf)
  /\ Goto(t, [task[t] EXCEPT !.buf = None])
  /\ UNCHANGED <<pipe, queue, routes, dest, content, zbuf, cleaning, leftover>>

DrainNext(t) ==
  /\ At(t, "draining") /\ task[t].buf = None
  /\ LET p == task[t].pipe IN
     IF queue[p] # <<>>
     THEN /\ Goto(t, [task[t] EXCEPT !.buf = Head(queue[p])])
          /\ queue' = [queue EXCEPT ![p] = Tail(@)]
          /\ UNCHANGED pipe
     ELSE /\ pipe' = [pipe EXCEPT ![p] = NoPipe]
          /\ Goto(t, Idle)
          /\ UNCHANGED queue
  /\ UNCHANGED <<routes, dest, use, content, zbuf, cleaning, leftover>>

\* CFE_SB_CleanUpApp, called by the executive when an application ends.
CleanUpApp(a) ==
  /\ At(ES, "idle") /\ cleaning = NoCleaning
  /\ \A t \in Tasks : AppOf[t] = a => task[t].pc \in {"idle", "waiting", "gotten"}
  /\ cleaning' = [app |-> a, todo |-> {p \in Pipes : Used(p) /\ pipe[p].app = a}]
  /\ UNCHANGED <<pipe, queue, routes, dest, use, content, zbuf, task, leftover>>

CleanUpPipe ==
  /\ At(ES, "idle") /\ cleaning.app # None
  /\ \E p \in cleaning.todo :
        /\ ClosePipe(ES, p, cleaning.app)
        /\ cleaning' = [cleaning EXCEPT !.todo = @ \ {p}]

\* CFE_SB_ZeroCopyReleaseAppId; then ES ends the tasks, and the application
\* may be started anew.
ZeroCopyReleaseAppId ==
  /\ At(ES, "idle") /\ cleaning.app # None /\ cleaning.todo = {}
  /\ \A t \in Tasks : AppOf[t] = cleaning.app => task[t].pc \in {"idle", "waiting"}
  /\ use' = [b \in Buffers |-> IF content[b].app = cleaning.app THEN Less(use[b]) ELSE use[b]]
  /\ zbuf' = [t \in Tasks |-> IF AppOf[t] = cleaning.app THEN None ELSE zbuf[t]]
  /\ task' = [t \in DOMAIN task |-> IF t \in Tasks /\ AppOf[t] = cleaning.app THEN Idle ELSE task[t]]
  /\ cleaning' = NoCleaning
  /\ UNCHANGED <<pipe, queue, routes, dest, content, leftover>>

Next ==
  \/ \E t \in Tasks :
       \/ \E p \in Pipes : CreatePipe(t, p) \/ SetPipeOpts(t, p) \/ ReceiveBuffer(t, p)
                           \/ DeletePipe(t, p)
       \/ \E m \in Msgs, p \in Pipes : Unsubscribe(t, m, p)
                                       \/ \E lim \in Limits : Subscribe(t, m, p, lim)
       \/ \E m \in Msgs, d \in Payloads : TransmitMsg(t, m, d) \/ TransmitBuffer(t, m, d)
       \/ AllocateMessageBuffer(t) \/ ReleaseMessageBuffer(t) \/ BroadcastBufferToRoute(t)
       \/ QueueGet(t) \/ ReceiveNothing(t) \/ ReceiveDone(t)
  \/ \E t \in Tasks \union {ES} : DrainPrevious(t) \/ DrainNext(t)
  \/ \E m \in Msgs, p \in Pipes, active \in BOOLEAN : SetRoute(m, p, active)
  \/ \E a \in External : CleanUpApp(a)
  \/ CleanUpPipe \/ ZeroCopyReleaseAppId

Spec == Init /\ [][Next]_vars
----------------------------------------------------------------------------
Message == [id : Msgs, data : Payloads]

\* Every variable stays in its type; the counters of limits and depth do not go
\* below zero, which the two tests in CFE_SB_ReceiveBuffer are there for.
TypeOK ==
  /\ pipe \in [Pipes -> [state : {"free", "used", "reserved"}, app : Apps \union {None},
                         task : Tasks \union {None}, depth : Nat,
                         last : Buffers \union {None}, ignore : BOOLEAN]]
  /\ queue \in [Pipes -> Seq(Buffers)]
  /\ \A p \in Pipes : Len(queue[p]) <= Depth[p]
  /\ routes \subseteq Msgs
  /\ dest \in [Msgs -> [Pipes -> {None} \union [active : BOOLEAN, count : Nat, limit : Limits]]]
  /\ use \in [Buffers -> Nat]
  /\ content \in [Buffers -> [id : Msgs \union {None}, data : Payloads \union {None},
                              app : Apps \union {None}]]
  /\ zbuf \in [Tasks -> Buffers \union {None}]
  /\ task \in [Tasks \union {ES} ->
                [pc : {"idle", "sending", "waiting", "gotten", "draining"},
                 pipe : Pipes \union {None}, buf : Buffers \union {None}, routed : BOOLEAN]]
  /\ cleaning \in [app : Apps \union {None}, todo : SUBSET Pipes]
  /\ leftover \in [Msgs -> SUBSET Pipes]

\* Everything that points at buffer b: places in queues, the message a pipe's
\* receiver has, buffers being filled, and calls under way.
Places(q, b) == {x \in Pipes \X (1..MaxDepth) : x[2] <= Len(q[x[1]]) /\ q[x[1]][x[2]] = b}
References(b) ==
  Cardinality(Places(queue, b))
  + Cardinality({p \in Pipes : pipe[p].last = b})
  + Cardinality({t \in Tasks : zbuf[t] = b})
  + Cardinality({t \in DOMAIN task : task[t].buf = b})

\* Whatever tasks send, receive and delete at once, the use count of a buffer
\* is the number of its users: it is not given back to the pool under a reader
\* or a queue (the decrements of CFE_SB_ReceiveBuffer and CFE_SB_DeletePipeFull
\* come at different times than those of the sender), and it is given back.
RefCounted == \A b \in Buffers : use[b] = References(b)

\* The message limit of a subscription never sticks: the count is at most what
\* is on the pipe, so that an empty pipe takes the next message, and it is
\* exact unless the receiver subscribed again with old messages still queued
\* (the case CFE_SB_ReceiveBuffer calls nominal).  The depth that telemetry
\* reports is what is on the pipe.
PipeAccounted ==
  \A p \in Pipes : Used(p) =>
    /\ pipe[p].depth = Len(queue[p])
                       + Cardinality({t \in Tasks : At(t, "gotten") /\ task[t].pipe = p})
    /\ \A m \in Msgs : Subscribed(m, p) =>
         /\ dest[m][p].count <= OnPipe(m, p)
         /\ p \notin leftover[m] => dest[m][p].count = OnPipe(m, p)

\* The pipes that take message m from every sender.
Open(m) == {p \in Pipes : Subscribed(m, p) /\ dest[m][p].active /\ ~pipe[p].ignore}

\* The buffers on pipe p in the order of sending, the one being received first.
Undelivered(p) ==
  LET inHand == {t \in Tasks : At(t, "gotten") /\ task[t].pipe = p}
  IN IF inHand = {} THEN queue[p]
     ELSE <<task[CHOOSE t \in inHand : TRUE].buf>> \o queue[p]

MessagesIn(bs) == [i \in 1..Len(bs) |-> MessageIn(bs[i])]

\* The variables of MessageBus.
IdOf(v) == v.id
sending == [t \in Tasks |-> IF At(t, "sending") /\ task[t].routed THEN MessageIn(task[t].buf) ELSE None]
inbox == [p \in Pipes |-> IF Used(p) THEN MessagesIn(Undelivered(p)) ELSE <<>>]
held == [p \in Pipes |-> IF pipe[p].last = None THEN None ELSE MessageIn(pipe[p].last)]
subs == [m \in Msgs |-> {p \in Pipes : Subscribed(m, p)}]
open == [m \in Msgs |-> Open(m)]

Bus == INSTANCE MessageBus WITH Messages <- Message

\* The software bus with its shared buffers keeps the promise of MessageBus: a
\* message arrives as it was sent, in order, at every subscribed pipe that is
\* empty and open, and does not change while its receiver works on it.
ImplementsBus == Bus!Spec
=============================================================================
