----------------------------- MODULE MessageBus -----------------------------
(***************************************************************************)
(* What the software bus promises its users, without buffers, reference    *)
(* counts or queues: a message reaches the pipes subscribed to it, each in *)
(* the order of sending; a pipe that is open and empty cannot miss one;    *)
(* and what a receiver was given stays as it is until it asks for the next *)
(* message or its pipe is deleted.                                         *)
(***************************************************************************)
EXTENDS Sequences

CONSTANTS Tasks, Pipes, Messages, Msgs,
          IdOf(_),  \* the message ID of a message
          None

VARIABLES sending, \* task -> the message it has in transmission, or None
          inbox,   \* pipe -> the messages not received yet
          held,    \* pipe -> the message its receiver is working on, or None
          subs,    \* message ID -> the pipes subscribed to it
          open     \* message ID -> those that take it from every sender

vars == <<sending, inbox, held, subs, open>>

Init ==
  /\ sending = [t \in Tasks |-> None]
  /\ inbox = [p \in Pipes |-> <<>>]
  /\ held = [p \in Pipes |-> None]
  /\ subs = [m \in Msgs |-> {}]
  /\ open = [m \in Msgs |-> {}]

Offer(t) ==
  /\ sending[t] = None
  /\ \E v \in Messages : sending' = [sending EXCEPT ![t] = v]
  /\ UNCHANGED <<inbox, held, subs, open>>

Deliver(t) ==
  /\ sending[t] # None
  /\ LET v == sending[t] IN
     \E to \in SUBSET subs[IdOf(v)] :
        /\ {p \in open[IdOf(v)] : inbox[p] = <<>>} \subseteq to
        /\ inbox' = [p \in Pipes |-> IF p \in to THEN Append(inbox[p], v) ELSE inbox[p]]
  /\ sending' = [sending EXCEPT ![t] = None]
  /\ UNCHANGED <<held, subs, open>>

Take(p) ==
  /\ held[p] = None /\ inbox[p] # <<>>
  /\ held' = [held EXCEPT ![p] = Head(inbox[p])]
  /\ inbox' = [inbox EXCEPT ![p] = Tail(@)]
  /\ UNCHANGED <<sending, subs, open>>

Done(p) ==
  /\ held' = [held EXCEPT ![p] = None]
  /\ UNCHANGED <<sending, inbox, subs, open>>

Reroute(m, p) ==
  /\ \E on, all \in BOOLEAN :
        /\ all => on
        /\ subs' = [subs EXCEPT ![m] = IF on THEN @ \union {p} ELSE @ \ {p}]
        /\ open' = [open EXCEPT ![m] = IF all THEN @ \union {p} ELSE @ \ {p}]
  /\ UNCHANGED <<sending, inbox, held>>

\* The choice of a pipe to take its owner's messages or not, for all IDs.
Retune(p) ==
  /\ \/ open' = [m \in Msgs |-> open[m] \ {p}]
     \/ \E ms \in SUBSET {m \in Msgs : p \in subs[m]} :
          open' = [m \in Msgs |-> IF m \in ms THEN open[m] \union {p} ELSE open[m]]
  /\ UNCHANGED <<sending, inbox, held, subs>>

Delete(p) ==
  /\ inbox' = [inbox EXCEPT ![p] = <<>>]
  /\ held' = [held EXCEPT ![p] = None]
  /\ subs' = [m \in Msgs |-> subs[m] \ {p}]
  /\ open' = [m \in Msgs |-> open[m] \ {p}]
  /\ UNCHANGED sending

Next ==
  \/ \E t \in Tasks : Offer(t) \/ Deliver(t)
  \/ \E p \in Pipes : Take(p) \/ Done(p) \/ Retune(p) \/ Delete(p)
  \/ \E m \in Msgs, p \in Pipes : Reroute(m, p)

Spec == Init /\ [][Next]_vars
=============================================================================
