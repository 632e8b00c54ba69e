---------------------------- MODULE WebsocketHub ----------------------------
(***************************************************************************)
(* internal/websocket: one goroutine runs the hub, and each connection has *)
(* a readPump and a writePump.  register, unregister and broadcast are     *)
(* unbuffered, so a send on one of them is a step of the pump and of the   *)
(* hub together; client.send is buffered, and the hub never blocks on it.  *)
(*                                                                         *)
(* Left out: the contents of pings and pongs and the deadlines; a peer     *)
(* that is gone or too slow is an operation on its connection that fails.  *)
(***************************************************************************)
EXTENDS Integers, Sequences, FiniteSets

CONSTANTS
    Clients,        \* the connections that ServeWs is called for
    Messages,
    BufferSize,     \* capacity of client.send
    MaxMessages     \* bound: messages that peers send

ASSUME HubAssumption ==
    Messages # {} /\ BufferSize \in Nat \ {0} /\ MaxMessages \in Nat

VARIABLES
    (* the hub *)
    clients,        \* h.clients
    todo, message,  \* the clients the range loop has yet to visit, and for what
    panicked,       \* it sent to, or closed, a closed channel
    (* each connection *)
    serve,          \* ServeWs
    conn,           \* "open" or "closed", by this side
    send, closed,   \* the channel: its buffer, and whether it is closed
    reader, read,   \* readPump, and the message it has read
    writer, taken,  \* writePump, and what it has received but not written
    (* history *)
    log,            \* the messages in the order the hub took them
    joined,         \* the length of log when the client was registered
    received        \* what was written to the connection

hubVars == <<clients, todo, message, panicked>>
history == <<log, joined, received>>
vars == <<clients, todo, message, panicked, serve, conn, send, closed, reader,
          read, writer, taken, log, joined, received>>

TypeOK ==
    /\ clients \subseteq Clients /\ todo \subseteq Clients
    /\ message \in Messages /\ panicked \in BOOLEAN
    /\ serve \in [Clients -> {"none", "registering", "done"}]
    /\ conn \in [Clients -> {"none", "open", "closed"}]
    /\ send \in [Clients -> Seq(Messages)]
    /\ \A c \in Clients : Len(send[c]) <= BufferSize
    /\ closed \in [Clients -> BOOLEAN]
    /\ reader \in [Clients -> {"none", "reading", "broadcasting",
                               "unregistering", "closing", "done"}]
    /\ read \in [Clients -> Messages]
    /\ writer \in [Clients -> {"none", "waiting", "writing", "done"}]
    /\ taken \in [Clients -> Seq(Messages)]
    /\ log \in Seq(Messages)
    /\ joined \in [Clients -> Nat]
    /\ received \in [Clients -> Seq(Messages)]

Init ==
    LET any == CHOOSE m \in Messages : TRUE IN
    /\ clients = {} /\ todo = {} /\ message = any /\ panicked = FALSE
    /\ serve = [c \in Clients |-> "none"]
    /\ conn = [c \in Clients |-> "none"]
    /\ send = [c \in Clients |-> << >>]
    /\ closed = [c \in Clients |-> FALSE]
    /\ reader = [c \in Clients |-> "none"]
    /\ read = [c \in Clients |-> any]
    /\ writer = [c \in Clients |-> "none"]
    /\ taken = [c \in Clients |-> << >>]
    /\ log = << >>
    /\ joined = [c \in Clients |-> 0]
    /\ received = [c \in Clients |-> << >>]

-----------------------------------------------------------------------------
(* ServeWs and the hub                                                     *)

(* the connection is upgraded; client.hub.register <- client *)
ServeWs(c) ==
    /\ serve[c] = "none"
    /\ serve' = [serve EXCEPT ![c] = "registering"]
    /\ conn' = [conn EXCEPT ![c] = "open"]
    /\ UNCHANGED <<hubVars, send, closed, reader, read, writer, taken, history>>

(* the select of the hub *)
Selecting == todo = {} /\ ~panicked

(* then ServeWs starts the two pumps *)
Register(c) ==
    /\ Selecting /\ serve[c] = "registering"
    /\ clients' = clients \cup {c}
    /\ serve' = [serve EXCEPT ![c] = "done"]
    /\ reader' = [reader EXCEPT ![c] = "reading"]
    /\ writer' = [writer EXCEPT ![c] = "waiting"]
    /\ joined' = [joined EXCEPT ![c] = Len(log)]
    /\ UNCHANGED <<todo, message, panicked, conn, send, closed, read, taken,
                   log, received>>

(* close(client.send) *)
Close(c) == /\ closed' = [closed EXCEPT ![c] = TRUE]
            /\ panicked' = closed[c]

(* mutant: whether the client is registered is not asked *)
UnregisterAnyway(c) ==
    /\ Selecting /\ reader[c] = "unregistering"
    /\ reader' = [reader EXCEPT ![c] = "closing"]
    /\ clients' = clients \ {c} /\ Close(c)
    /\ UNCHANGED <<todo, message, serve, conn, send, read, writer, taken,
                   history>>

(* mutant: the channel stays open *)
UnregisterOpen(c) ==
    /\ Selecting /\ reader[c] = "unregistering"
    /\ reader' = [reader EXCEPT ![c] = "closing"]
    /\ clients' = clients \ {c}
    /\ UNCHANGED <<todo, message, panicked, closed, serve, conn, send, read,
                   writer, taken, history>>

(* c.hub.unregister <- c; the hub may have dropped the client before *)
Unregister(c) ==
    /\ Selecting /\ reader[c] = "unregistering"
    /\ reader' = [reader EXCEPT ![c] = "closing"]
    /\ \/ c \in clients /\ clients' = clients \ {c} /\ Close(c)
       \/ c \notin clients /\ UNCHANGED <<clients, closed, panicked>>
    /\ UNCHANGED <<todo, message, serve, conn, send, read, writer, taken,
                   history>>

(* c.hub.broadcast <- message *)
Broadcast(c) ==
    /\ Selecting /\ reader[c] = "broadcasting"
    /\ message' = read[c] /\ todo' = clients
    /\ log' = Append(log, read[c])
    /\ reader' = [reader EXCEPT ![c] = "reading"]
    /\ UNCHANGED <<clients, panicked, serve, conn, send, closed, read, writer,
                   taken, joined, received>>

(* mutant: room for one more than there is *)
RoomPastEnd(c) == Len(send[c]) <= BufferSize

Room(c) == Len(send[c]) < BufferSize

(* mutant: a client that is behind misses the message *)
SkipMessage(c) ==
    /\ c \in todo /\ ~panicked
    /\ todo' = todo \ {c}
    /\ \/ /\ Room(c)
          /\ send' = [send EXCEPT ![c] = Append(@, message)]
          /\ panicked' = closed[c]
       \/ ~Room(c) /\ UNCHANGED <<send, panicked>>
    /\ UNCHANGED <<clients, closed, message, serve, conn, reader, read, writer,
                   taken, history>>

(* one round of the range loop, in any order: the client has room for the
   message, or it is closed and dropped *)
SendMessage(c) ==
    /\ c \in todo /\ ~panicked
    /\ todo' = todo \ {c}
    /\ \/ /\ Room(c)
          /\ send' = [send EXCEPT ![c] = Append(@, message)]
          /\ panicked' = closed[c]
          /\ UNCHANGED <<clients, closed>>
       \/ /\ ~Room(c)
          /\ Close(c) /\ clients' = clients \ {c}
          /\ UNCHANGED send
    /\ UNCHANGED <<message, serve, conn, reader, read, writer, taken, history>>

-----------------------------------------------------------------------------
(* readPump                                                                *)

(* the readers that wait for the hub with a message *)
Broadcasting == {c \in Clients : reader[c] = "broadcasting"}

ReadMessage(c, m) ==
    /\ reader[c] = "reading" /\ conn[c] = "open"
    /\ Len(log) + Cardinality(Broadcasting) < MaxMessages
    /\ read' = [read EXCEPT ![c] = m]
    /\ reader' = [reader EXCEPT ![c] = "broadcasting"]
    /\ UNCHANGED <<hubVars, serve, conn, send, closed, writer, taken, history>>

(* the peer is gone, sent too much or no pong; or the connection is closed *)
ReadError(c) ==
    /\ reader[c] = "reading"
    /\ reader' = [reader EXCEPT ![c] = "unregistering"]
    /\ UNCHANGED <<hubVars, serve, conn, send, closed, read, writer, taken,
                   history>>

ReaderCloses(c) ==
    /\ reader[c] = "closing"
    /\ reader' = [reader EXCEPT ![c] = "done"]
    /\ conn' = [conn EXCEPT ![c] = "closed"]
    /\ UNCHANGED <<hubVars, serve, send, closed, read, writer, taken, history>>

-----------------------------------------------------------------------------
(* writePump                                                               *)

(* message, ok := <-c.send *)
Receive(c) ==
    /\ writer[c] = "waiting" /\ send[c] # << >>
    /\ taken' = [taken EXCEPT ![c] = <<Head(send[c])>>]
    /\ send' = [send EXCEPT ![c] = Tail(@)]
    /\ writer' = [writer EXCEPT ![c] = "writing"]
    /\ UNCHANGED <<hubVars, serve, conn, closed, reader, read, history>>

(* mutant: the queue goes first *)
WriteQueueFirst(c) ==
    /\ writer[c] = "writing" /\ conn[c] = "open"
    /\ received' = [received EXCEPT ![c] = @ \o send[c] \o taken[c]]
    /\ send' = [send EXCEPT ![c] = << >>]
    /\ taken' = [taken EXCEPT ![c] = << >>]
    /\ writer' = [writer EXCEPT ![c] = "waiting"]
    /\ UNCHANGED <<hubVars, serve, conn, closed, reader, read, log, joined>>

(* the queued messages become part of the same websocket message *)
Write(c) ==
    /\ writer[c] = "writing" /\ conn[c] = "open"
    /\ received' = [received EXCEPT ![c] = @ \o taken[c] \o send[c]]
    /\ send' = [send EXCEPT ![c] = << >>]
    /\ taken' = [taken EXCEPT ![c] = << >>]
    /\ writer' = [writer EXCEPT ![c] = "waiting"]
    /\ UNCHANGED <<hubVars, serve, conn, closed, reader, read, log, joined>>

(* the deferred function: the pump returns *)
WriterReturns(c) ==
    /\ writer' = [writer EXCEPT ![c] = "done"]
    /\ conn' = [conn EXCEPT ![c] = "closed"]
    /\ UNCHANGED <<hubVars, serve, closed, reader, read, history>>

(* NextWriter fails, or Close does when the queue has been received *)
WriteError(c) ==
    /\ writer[c] = "writing"
    /\ send' \in {send, [send EXCEPT ![c] = << >>]}
    /\ taken' = [taken EXCEPT ![c] = << >>]
    /\ WriterReturns(c)

(* the buffer is empty and the hub closed the channel *)
ReceiveClosed(c) ==
    /\ writer[c] = "waiting" /\ send[c] = << >> /\ closed[c]
    /\ WriterReturns(c)
    /\ UNCHANGED <<send, taken>>

(* <-ticker.C, and the ping cannot be written *)
PingError(c) ==
    /\ writer[c] = "waiting"
    /\ WriterReturns(c)
    /\ UNCHANGED <<send, taken>>

-----------------------------------------------------------------------------
Pumps(c) ==
    \/ ReadError(c) \/ ReaderCloses(c)
    \/ Receive(c) \/ Write(c) \/ WriteError(c) \/ ReceiveClosed(c) \/ PingError(c)
    \/ \E m \in Messages : ReadMessage(c, m)

Hub(c) == Register(c) \/ Unregister(c) \/ Broadcast(c) \/ SendMessage(c)

Next == \E c \in Clients : ServeWs(c) \/ Hub(c) \/ Pumps(c)

ReaderMoves(c) == ReaderCloses(c) \/ (conn[c] = "closed" /\ ReadError(c))

WriterMoves(c) ==
    \/ Receive(c) \/ Write(c) \/ WriteError(c) \/ ReceiveClosed(c)
    \/ conn[c] = "closed" /\ PingError(c)

(* Every goroutine is scheduled; Go's select chooses among the ready channels
   uniformly, so a client that waits for the hub is not passed over for ever
   (SF).  On an open connection nothing has to happen; on a closed one reads
   fail, and so do writes, a ping at the latest with the next tick.  *)
Fairness ==
    \A c \in Clients :
        /\ SF_vars(Register(c) \/ Unregister(c) \/ Broadcast(c))
        /\ WF_vars(SendMessage(c))
        /\ WF_vars(ReaderMoves(c)) /\ WF_vars(WriterMoves(c))

Spec == Init /\ [][Next]_vars /\ Fairness

-----------------------------------------------------------------------------
(* The hub never sends to a closed channel and never closes one twice, although
   both the range loop and an unregistration close it.  *)
HubNeverPanics == ~panicked

(* what the client will have received when its buffer is written *)
Feed(c) == received[c] \o taken[c] \o send[c]

(* A registered client misses nothing and gets nothing twice or out of order:
   received, in the pump and buffered together are the messages that the hub
   took since it registered, up to the one that it is handing out.  *)
FeedHasNoGaps ==
    \A c \in clients :
        writer[c] # "done" =>
            Feed(c) = SubSeq(log, joined[c] + 1,
                             Len(log) - (IF c \in todo THEN 1 ELSE 0))

(* What was written to a connection is a prefix of that feed even after the hub has
   dropped it: closing the channel loses none of the buffered messages.  *)
ReceivedIsPrefix ==
    \A c \in Clients :
        LET n == joined[c] + Len(received[c]) IN
        /\ n <= Len(log)
        /\ received[c] = SubSeq(log, joined[c] + 1, n)

(* A closed connection is forgotten: the hub drops the client, closes its
   channel, and both pumps return.  *)
ClosedConnectionsEnd ==
    \A c \in Clients :
        conn[c] = "closed" ~> /\ c \notin clients /\ closed[c]
                              /\ reader[c] = "done" /\ writer[c] = "done"
-----------------------------------------------------------------------------
(* The hub implements the feed: a client is a member from its registration until
   the hub drops it or its writePump returns, and what is queued for it is what
   the buffer and the pump hold.  *)

StateOf(c) ==
    IF writer[c] = "none" THEN "outside"
    ELSE IF c \in clients /\ writer[c] # "done" THEN "member" ELSE "left"

QueuedOf(c) ==
    joined[c] + Len(received[c])
        + (IF writer[c] = "done" THEN 0 ELSE Len(taken[c]) + Len(send[c]))

Promise == INSTANCE BroadcastFeed WITH
    state <- [c \in Clients |-> StateOf(c)],
    queued <- [c \in Clients |-> QueuedOf(c)]

(* Each client is sent, from the moment when it registers, what the log of the
   hub gets, in its order and without a gap, until it is dropped for good; no
   step of a pump or of the hub does anything else to any client.  *)
ImplementsFeed == Promise!Spec
=============================================================================
