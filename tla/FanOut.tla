------------------------------- MODULE FanOut -------------------------------
(***************************************************************************)
(* What the WebSocket hub promises its clients, without channels, pumps    *)
(* or locks: a client that is let in sees the events that are broadcast    *)
(* from then on, in order and without a gap, until it is cut off.  What    *)
(* was broadcast before the cut may still reach it, nothing after.         *)
(***************************************************************************)
EXTENDS Integers, Sequences

CONSTANTS Clients

VARIABLES
    sent,    \* how many events have been broadcast
    joined,  \* per client: how many had been when it was let in, -1: never
    cut,     \* per client: how many had been when it was cut off, -1: never
    stream   \* per client: the events it has received

vars == <<sent, joined, cut, stream>>

Init ==
    /\ sent = 0
    /\ joined = [c \in Clients |-> -1]
    /\ cut = [c \in Clients |-> -1]
    /\ stream = [c \in Clients |-> <<>>]

Inside(c) == joined[c] >= 0 /\ cut[c] = -1

(* One event for everybody inside; those in "slow" are cut off instead.    *)
Broadcast(slow) ==
    /\ \A c \in slow : Inside(c)
    /\ sent' = sent + 1
    /\ cut' = [c \in Clients |-> IF c \in slow THEN sent ELSE cut[c]]
    /\ UNCHANGED <<joined, stream>>

Join(c) ==
    /\ joined[c] = -1
    /\ joined' = [joined EXCEPT ![c] = sent]
    /\ UNCHANGED <<sent, cut, stream>>

Leave(c) ==
    /\ Inside(c)
    /\ cut' = [cut EXCEPT ![c] = sent]
    /\ UNCHANGED <<sent, joined, stream>>

Receive(c) ==
    LET next == joined[c] + Len(stream[c]) + 1 IN
    /\ joined[c] >= 0
    /\ next <= IF cut[c] = -1 THEN sent ELSE cut[c]
    /\ stream' = [stream EXCEPT ![c] = Append(@, next)]
    /\ UNCHANGED <<sent, joined, cut>>

Next ==
    \/ \E slow \in SUBSET Clients : Broadcast(slow)
    \/ \E c \in Clients : Join(c) \/ Leave(c) \/ Receive(c)

Spec == Init /\ [][Next]_vars
=============================================================================
