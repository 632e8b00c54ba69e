---------------------------- MODULE BroadcastFeed ----------------------------
(***************************************************************************)
(* What internal/websocket promises to the clients of its hub, without     *)
(* goroutines and channels: one log of messages, and for each member a     *)
(* feed of what the log has got since it joined.  The feed is queued for   *)
(* the member in the order of the log and delivered from its beginning,    *)
(* without a gap.  A member may be dropped at any time and never comes     *)
(* back; then nothing more is queued, but what is queued may be delivered. *)
(***************************************************************************)
EXTENDS Integers, Sequences

CONSTANTS Clients, Messages

VARIABLES
    log,        \* the messages, in the order in which all members get them
    state,      \* of a client
    joined,     \* the length of log when it joined
    queued,     \* the length of log up to which its feed is queued
    received    \* what it has been sent

vars == <<log, state, joined, queued, received>>

TypeOK ==
    /\ log \in Seq(Messages)
    /\ state \in [Clients -> {"outside", "member", "left"}]
    /\ joined \in [Clients -> Nat] /\ queued \in [Clients -> Nat]
    /\ received \in [Clients -> Seq(Messages)]

Init ==
    /\ log = << >>
    /\ state = [c \in Clients |-> "outside"]
    /\ joined = [c \in Clients |-> 0] /\ queued = [c \in Clients |-> 0]
    /\ received = [c \in Clients |-> << >>]

(* the length of log up to which c has received its feed *)
Delivered(c) == joined[c] + Len(received[c])

Join(c) ==
    /\ state[c] = "outside"
    /\ state' = [state EXCEPT ![c] = "member"]
    /\ joined' = [joined EXCEPT ![c] = Len(log)]
    /\ queued' = [queued EXCEPT ![c] = Len(log)]
    /\ UNCHANGED <<log, received>>

Publish(m) ==
    /\ log' = Append(log, m)
    /\ UNCHANGED <<state, joined, queued, received>>

Queue(c) ==
    /\ state[c] = "member" /\ queued[c] < Len(log)
    /\ queued' = [queued EXCEPT ![c] = @ + 1]
    /\ UNCHANGED <<log, state, joined, received>>

Deliver(c) ==
    /\ state[c] # "outside"
    /\ \E n \in Delivered(c)..queued[c] :
        received' = [received EXCEPT ![c] = SubSeq(log, joined[c] + 1, n)]
    /\ UNCHANGED <<log, state, joined, queued>>

(* with what is queued for it, or without *)
Leave(c) ==
    /\ state[c] # "outside"
    /\ state' = [state EXCEPT ![c] = "left"]
    /\ queued' \in {queued, [queued EXCEPT ![c] = Delivered(c)]}
    /\ UNCHANGED <<log, joined, received>>

Next ==
    \/ \E m \in Messages : Publish(m)
    \/ \E c \in Clients : Join(c) \/ Queue(c) \/ Deliver(c) \/ Leave(c)

Spec == Init /\ [][Next]_vars

-----------------------------------------------------------------------------
(* What a client has received is the stretch of the log that begins where it
   joined, so that any two clients agree wherever both have received something;
   and nothing is queued that the log does not have.  *)
FeedsAgree ==
    \A c \in Clients :
        /\ Delivered(c) <= queued[c] /\ queued[c] <= Len(log)
        /\ received[c] = SubSeq(log, joined[c] + 1, Delivered(c))
=============================================================================
