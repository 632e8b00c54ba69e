------------------------- MODULE WebsocketHubProofs -------------------------
(* The channels and feeds of the hub, and that it implements BroadcastFeed,
   for any connections, messages and buffer.  *)
EXTENDS WebsocketHub, SequenceTheorems, TLAPS

-----------------------------------------------------------------------------
(* Types                                                                   *)

(* Every variable starts with a value of its type. *)
LEMMA InitTypeOK == Init => TypeOK
  <1> SUFFICES ASSUME Init PROVE TypeOK
    OBVIOUS
  <1>1. (CHOOSE m \in Messages : TRUE) \in Messages
    BY HubAssumption
  <1>2. \A c \in Clients : Len(send[c]) <= BufferSize
    BY HubAssumption DEF Init
  <1>3. panicked \in BOOLEAN /\ closed \in [Clients -> BOOLEAN]
    BY Zenon DEF Init
  <1>4. /\ message \in Messages /\ read \in [Clients -> Messages]
        /\ clients \subseteq Clients /\ todo \subseteq Clients
    BY <1>1 DEF Init
  <1>5. /\ << >> \in Seq(Messages) /\ log = << >>
        /\ send = [c \in Clients |-> << >>]
        /\ taken = [c \in Clients |-> << >>]
        /\ received = [c \in Clients |-> << >>]
        /\ joined = [c \in Clients |-> 0]
    BY EmptySeq, Zenon DEF Init
  <1>6. /\ serve = [c \in Clients |-> "none"] /\ conn = [c \in Clients |-> "none"]
        /\ reader = [c \in Clients |-> "none"]
        /\ writer = [c \in Clients |-> "none"]
    BY Zenon DEF Init
  <1> QED BY <1>2, <1>3, <1>4, <1>5, <1>6 DEF TypeOK

(* A step that writes one entry of the per-connection variables, if any. *)
LEMMA NextTypeOK == TypeOK /\ [Next]_vars => TypeOK'
  <1> SUFFICES ASSUME TypeOK, [Next]_vars PROVE TypeOK'
    OBVIOUS
  <1> USE DEF TypeOK
  <1>1. CASE UNCHANGED vars
    BY <1>1 DEF vars
  <1>2. ASSUME NEW c \in Clients, ServeWs(c) PROVE TypeOK'
    BY <1>2 DEF ServeWs, hubVars, history
  <1>3. ASSUME NEW c \in Clients, Register(c) PROVE TypeOK'
    BY <1>3 DEF Register
  <1>4. ASSUME NEW c \in Clients, Unregister(c) PROVE TypeOK'
    BY <1>4 DEF Unregister, Close, history
  <1>5. ASSUME NEW c \in Clients, Broadcast(c) PROVE TypeOK'
    <2>1. Append(log, read[c]) \in Seq(Messages)
      BY AppendProperties
    <2> QED BY <1>5, <2>1 DEF Broadcast
  <1>6. ASSUME NEW c \in Clients, SendMessage(c) PROVE TypeOK'
    <2>1. CASE Room(c)
      <3>1. /\ Append(send[c], message) \in Seq(Messages)
            /\ Len(Append(send[c], message)) <= BufferSize
        BY <2>1, HubAssumption, AppendProperties, LenProperties DEF Room
      <3>2. /\ send' = [send EXCEPT ![c] = Append(send[c], message)]
            /\ panicked' = closed[c] /\ todo' \subseteq todo
            /\ UNCHANGED <<clients, closed, message, serve, conn, reader, read,
                           writer, taken, history>>
        BY <1>6, <2>1 DEF SendMessage
      <3> QED BY <3>1, <3>2 DEF history
    <2>2. CASE ~Room(c)
      BY <1>6, <2>2 DEF SendMessage, Close, history
    <2> QED BY <2>1, <2>2
  <1>8. ASSUME NEW c \in Clients, NEW m \in Messages, ReadMessage(c, m)
        PROVE  TypeOK'
    BY <1>8 DEF ReadMessage, hubVars, history
  <1>9. ASSUME NEW c \in Clients, ReadError(c) \/ ReaderCloses(c) PROVE TypeOK'
    BY <1>9 DEF ReadError, ReaderCloses, hubVars, history
  <1>10. ASSUME NEW c \in Clients, Receive(c) PROVE TypeOK'
    <2>1. /\ <<Head(send[c])>> \in Seq(Messages)
          /\ Tail(send[c]) \in Seq(Messages)
          /\ Len(Tail(send[c])) <= BufferSize
      BY <1>10, HubAssumption, HeadTailProperties, LenProperties DEF Receive
    <2> QED BY <1>10, <2>1 DEF Receive, hubVars, history
  <1>11. ASSUME NEW c \in Clients, Write(c) PROVE TypeOK'
    <2>1. received[c] \o taken[c] \o send[c] \in Seq(Messages)
      BY ConcatProperties
    <2>2. << >> \in Seq(Messages) /\ Len(<< >>) <= BufferSize
      BY EmptySeq, HubAssumption
    <2> QED BY <1>11, <2>1, <2>2 DEF Write, hubVars
  <1>12. ASSUME NEW c \in Clients, WriteError(c) \/ ReceiveClosed(c) \/ PingError(c)
         PROVE  TypeOK'
    <2>1. << >> \in Seq(Messages) /\ Len(<< >>) <= BufferSize
      BY EmptySeq, HubAssumption
    <2>2. /\ send' \in {send, [send EXCEPT ![c] = << >>]}
          /\ taken' \in {taken, [taken EXCEPT ![c] = << >>]}
          /\ WriterReturns(c)
      BY <1>12 DEF WriteError, ReceiveClosed, PingError
    <2>3. /\ writer' = [writer EXCEPT ![c] = "done"]
          /\ conn' = [conn EXCEPT ![c] = "closed"]
          /\ UNCHANGED <<clients, todo, message, panicked, serve, closed, reader,
                         read, log, joined, received>>
      BY <2>2 DEF WriterReturns, hubVars, history
    <2>4. send' \in [Clients -> Seq(Messages)]
      BY <2>1, <2>2
    <2>5. ASSUME NEW d \in Clients PROVE Len(send'[d]) <= BufferSize
      <3>1. send'[d] = send[d] \/ send'[d] = << >>
        BY <2>2
      <3> QED BY <2>1, <3>1
    <2>6. taken' \in [Clients -> Seq(Messages)]
      BY <2>1, <2>2
    <2> QED BY <2>3, <2>4, <2>5, <2>6
  <1> QED BY <1>1, <1>2, <1>3, <1>4, <1>5, <1>6, <1>8, <1>9, <1>10, <1>11, <1>12
          DEF Next, Hub, Pumps

(* Every variable keeps its type; no buffer holds more than its capacity. *)
THEOREM TypeCorrect == Spec => []TypeOK
  BY InitTypeOK, NextTypeOK, PTL DEF Spec

-----------------------------------------------------------------------------
(* Channels                                                                *)

(* Whoever closes a channel takes the client out of the hub in the same step,
   and nobody registers twice; so the hub, which sends to and closes channels
   of its clients only, meets open ones.  *)
ChannelInv ==
    /\ todo \subseteq clients
    /\ \A c \in clients : serve[c] = "done" /\ ~closed[c]
    /\ \A c \in Clients : serve[c] # "done" => ~closed[c]
    /\ ~panicked

(* No step of the hub, a pump or ServeWs breaks it. *)
LEMMA NextChannelInv == TypeOK /\ ChannelInv /\ [Next]_vars => ChannelInv'
  <1> SUFFICES ASSUME TypeOK, ChannelInv, [Next]_vars PROVE ChannelInv'
    OBVIOUS
  <1> USE DEF ChannelInv, TypeOK
  <1>1. CASE UNCHANGED vars
    BY <1>1 DEF vars
  <1>2. ASSUME NEW c \in Clients, ServeWs(c) PROVE ChannelInv'
    BY <1>2 DEF ServeWs, hubVars
  <1>3. ASSUME NEW c \in Clients, Register(c) PROVE ChannelInv'
    BY <1>3 DEF Register
  <1>4. ASSUME NEW c \in Clients, Unregister(c) PROVE ChannelInv'
    <2>1. todo' = {} /\ serve' = serve
      BY <1>4 DEF Unregister, Selecting
    <2>2. CASE c \in clients
      <3>1. /\ clients' = clients \ {c}
            /\ closed' = [closed EXCEPT ![c] = TRUE]
            /\ panicked' = closed[c]
        BY <1>4, <2>2 DEF Unregister, Close
      <3>2. ~panicked'
        BY <2>2, <3>1, Zenon
      <3> QED BY <2>1, <2>2, <3>1, <3>2
    <2>3. CASE c \notin clients
      <3>1. UNCHANGED <<clients, closed, panicked>>
        BY <1>4, <2>3 DEF Unregister
      <3> QED BY <2>1, <3>1, Zenon
    <2> QED BY <2>2, <2>3
  <1>5. ASSUME NEW c \in Clients, Broadcast(c) PROVE ChannelInv'
    BY <1>5 DEF Broadcast
  <1>6. ASSUME NEW c \in Clients, SendMessage(c) PROVE ChannelInv'
    <2>1. CASE Room(c)
      BY <1>6, <2>1, Zenon DEF SendMessage
    <2>2. CASE ~Room(c)
      BY <1>6, <2>2 DEF SendMessage, Close
    <2> QED BY <2>1, <2>2
  <1>7. ASSUME NEW c \in Clients, Pumps(c) PROVE ChannelInv'
    <2>1. UNCHANGED <<hubVars, serve, closed>>
      BY <1>7 DEF Pumps, ReadError, ReaderCloses, Receive, Write, WriteError,
                  ReceiveClosed, PingError, WriterReturns, ReadMessage
    <2> QED BY <2>1 DEF hubVars
  <1> QED BY <1>1, <1>2, <1>3, <1>4, <1>5, <1>6, <1>7 DEF Next, Hub

(* It holds in every behaviour. *)
LEMMA SpecChannels == Spec => []ChannelInv
  <1>1. Init => ChannelInv
    BY DEF Init, ChannelInv
  <1> QED BY <1>1, TypeCorrect, NextChannelInv, PTL DEF Spec

(* The hub goroutine never sends to a closed channel and never closes one twice,
   however the range loop, unregistrations and the pumps interleave.  *)
THEOREM HubIsSafe == Spec => []HubNeverPanics
  <1>1. ChannelInv => HubNeverPanics
    BY DEF ChannelInv, HubNeverPanics
  <1> QED BY <1>1, SpecChannels, PTL

-----------------------------------------------------------------------------
(* Feeds                                                                   *)

(* A part of a sequence stays the same part when an element is appended. *)
LEMMA PartOfAppend ==
  ASSUME NEW S, NEW s \in Seq(S), NEW e \in S,
         NEW j \in Nat, NEW n \in Nat, j + n <= Len(s)
  PROVE  SubSeq(Append(s, e), j + 1, j + n) = SubSeq(s, j + 1, j + n)
  <1>1. /\ Append(s, e) \in Seq(S) /\ Len(s) \in Nat
        /\ Len(Append(s, e)) = Len(s) + 1
        /\ \A i \in 1..Len(s) : Append(s, e)[i] = s[i] /\ s[i] \in S
    BY AppendProperties, LenProperties, ElementOfSeq
  <1>2. \A i \in (j + 1)..(j + n) : Append(s, e)[i] = s[i] /\ s[i] \in S
    BY <1>1
  <1>3. /\ SubSeq(s, j + 1, j + n) \in Seq(S)
        /\ Len(SubSeq(s, j + 1, j + n)) = n
        /\ \A i \in 1..n : SubSeq(s, j + 1, j + n)[i] = s[j + i]
    BY <1>2, SubSeqProperties
  <1>4. /\ SubSeq(Append(s, e), j + 1, j + n) \in Seq(S)
        /\ Len(SubSeq(Append(s, e), j + 1, j + n)) = n
        /\ \A i \in 1..n : SubSeq(Append(s, e), j + 1, j + n)[i]
                            = Append(s, e)[j + i]
    BY <1>2, SubSeqProperties
  <1>5. \A i \in 1..n : Append(s, e)[j + i] = s[j + i]
    BY <1>2
  <1> QED BY <1>3, <1>4, <1>5, SeqEqual

(* A part that ends before the last element is made longer by it. *)
LEMMA PartToTheEnd ==
  ASSUME NEW S, NEW s \in Seq(S), NEW j \in Nat, j < Len(s)
  PROVE  SubSeq(s, j + 1, Len(s)) = Append(SubSeq(s, j + 1, Len(s) - 1), s[Len(s)])
  <1> DEFINE n == Len(s)
             p == SubSeq(s, j + 1, n - 1)
             q == SubSeq(s, j + 1, n)
  <1>1. n \in Nat /\ \A i \in 1..n : s[i] \in S
    BY LenProperties, ElementOfSeq
  <1> HIDE DEF n
  <1>2. j < n
    BY DEF n
  <1>3. /\ p \in Seq(S) /\ Len(p) = n - 1 - j
        /\ \A i \in 1..(n - 1 - j) : p[i] = s[j + i]
    <2>1. \A i \in (j + 1)..(n - 1) : s[i] \in S
      BY <1>1, <1>2
    <2> QED BY <1>1, <1>2, <2>1, SubSeqProperties
  <1>4. /\ q \in Seq(S) /\ Len(q) = n - j
        /\ \A i \in 1..(n - j) : q[i] = s[j + i]
    <2>1. \A i \in (j + 1)..n : s[i] \in S
      BY <1>1, <1>2
    <2> QED BY <1>1, <1>2, <2>1, SubSeqProperties
  <1> HIDE DEF p, q
  <1>5. /\ Append(p, s[n]) \in Seq(S) /\ Len(Append(p, s[n])) = n - j
        /\ \A i \in 1..(n - 1 - j) : Append(p, s[n])[i] = p[i]
        /\ Append(p, s[n])[n - j] = s[n]
    <2>1. n \in 1..n
      BY <1>1, <1>2
    <2>2. s[n] \in S
      BY <1>1, <2>1
    <2> QED BY <1>1, <1>2, <1>3, <2>2, AppendProperties
  <1>6. \A i \in 1..(n - j) : q[i] = Append(p, s[n])[i]
    BY <1>1, <1>2, <1>3, <1>4, <1>5
  <1>7. q = Append(p, s[n])
    BY <1>4, <1>5, <1>6, SeqEqual
  <1> QED BY <1>7 DEF n, p, q

(* Appending to the second of two sequences appends to both together. *)
LEMMA AppendToConcat ==
  ASSUME NEW S, NEW p \in Seq(S), NEW s \in Seq(S), NEW m \in S
  PROVE  p \o Append(s, m) = Append(p \o s, m)
  <1> DEFINE q == << m >>
  <1>1. q \in Seq(S)
    OBVIOUS
  <1>2. Append(s, m) = s \o q
    BY AppendIsConcat
  <1>3. p \o s \in Seq(S)
    BY ConcatProperties
  <1>4. Append(p \o s, m) = (p \o s) \o q
    BY <1>3, AppendIsConcat
  <1> HIDE DEF q
  <1>5. (p \o s) \o q = p \o (s \o q)
    BY <1>1, ConcatAssociative
  <1> QED BY <1>2, <1>4, <1>5

(* Moving the head of a buffer into the pump leaves the feed as it is. *)
LEMMA HeadAndTail ==
  ASSUME NEW S, NEW r \in Seq(S), NEW s \in Seq(S), s # << >>
  PROVE  r \o << Head(s) >> \o Tail(s) = r \o << >> \o s
  <1> DEFINE h == << Head(s) >>  t == Tail(s)
  <1>1. h \in Seq(S)
    BY HeadTailProperties
  <1>2. t \in Seq(S)
    BY HeadTailProperties
  <1>3. /\ Len(h) = 1 /\ h[1] = s[1]
        /\ Len(t) = Len(s) - 1 /\ Len(s) \in Nat
        /\ \A i \in 1..Len(t) : t[i] = s[i + 1]
    BY HeadTailProperties, LenProperties
  <1> HIDE DEF h, t
  <1>4. h \o t = s
    <2>1. h \o t \in Seq(S)
      BY <1>1, <1>2, ConcatProperties
    <2>2. Len(h \o t) = Len(h) + Len(t)
      BY <1>1, <1>2, ConcatProperties
    <2>3. \A i \in 1..(Len(h) + Len(t)) :
             (h \o t)[i] = IF i <= Len(h) THEN h[i] ELSE t[i - Len(h)]
      BY <1>1, <1>2, ConcatProperties
    <2>4. Len(h \o t) = Len(s)
      BY <1>3, <2>2
    <2>5. \A i \in 1..Len(s) : (h \o t)[i] = s[i]
      BY <1>1, <1>2, <1>3, <2>1, <2>2, <2>3
    <2> DEFINE u == h \o t
    <2>6. u \in Seq(S) /\ Len(u) = Len(s) /\ \A i \in 1..Len(u) : u[i] = s[i]
      BY <2>1, <2>4, <2>5
    <2> HIDE DEF u
    <2>7. u = s
      BY <2>6, SeqEqual
    <2> QED BY <2>7 DEF u
  <1>5. (r \o h) \o t = r \o (h \o t)
    BY <1>1, <1>2, ConcatAssociative
  <1>6. r \o << >> = r
    BY ConcatEmptySeq
  <1> QED BY <1>4, <1>5, <1>6 DEF h, t

(* s has the messages of the log from number j + 1 on *)
IsPart(s, j) == j + Len(s) <= Len(log) /\ s = SubSeq(log, j + 1, j + Len(s))

(* Where the feed of a client ends.  The feed of a client that the hub has
   dropped stays a part of the log, but is no longer added to. *)
FeedInv(c) ==
    /\ serve[c] # "done" => /\ c \notin clients
                            /\ received[c] = << >> /\ taken[c] = << >>
                            /\ send[c] = << >>
    /\ writer[c] # "writing" => taken[c] = << >>
    /\ IsPart(received[c], joined[c])
    /\ writer[c] # "done" =>
         /\ IsPart(Feed(c), joined[c])
         /\ c \in clients => joined[c] + Len(Feed(c)) =
                                Len(log) - (IF c \in todo THEN 1 ELSE 0)

FeedsInv ==
    /\ todo # {} => log # << >> /\ message = log[Len(log)]
    /\ \A c \in Clients : FeedInv(c)

(* There are no feeds before the first client. *)
LEMMA InitFeedsInv == Init => FeedsInv
  <1> SUFFICES ASSUME Init PROVE FeedsInv
    OBVIOUS
  <1>1. /\ log = << >> /\ todo = {} /\ clients = {}
    BY DEF Init
  <1>2. ASSUME NEW c \in Clients PROVE FeedInv(c)
    <2>1. /\ received[c] = << >> /\ taken[c] = << >> /\ send[c] = << >>
          /\ joined[c] = 0
      BY DEF Init
    <2>2. Feed(c) = << >>
      BY <2>1, ConcatEmptySeq, EmptySeq DEF Feed
    <2>3. IsPart(<< >>, 0)
      BY <1>1, SubSeqEmpty, EmptySeq DEF IsPart
    <2> QED BY <1>1, <2>1, <2>2, <2>3 DEF FeedInv
  <1> QED BY <1>1, <1>2 DEF FeedsInv

(* A client whose part of the state stays, but that it may have been dropped. *)
LEMMA FeedKept ==
  ASSUME NEW c \in Clients, FeedInv(c), log' = log,
         serve'[c] = serve[c], writer'[c] = writer[c], joined'[c] = joined[c],
         received'[c] = received[c], taken'[c] = taken[c], send'[c] = send[c],
         c \in clients' => c \in clients /\ (c \in todo' <=> c \in todo)
  PROVE  FeedInv(c)'
  BY DEF FeedInv, Feed, IsPart

(* The same when its pump writes, or returns. *)
LEMMA FeedWritten ==
  ASSUME NEW c \in Clients, FeedInv(c), UNCHANGED <<log, clients, todo, serve>>,
         joined'[c] = joined[c],
         serve[c] # "done" => /\ received'[c] = << >> /\ send'[c] = << >>
                              /\ taken'[c] = << >>,
         writer'[c] # "writing" => taken'[c] = << >>,
         \/ received'[c] = received[c]
         \/ writer[c] # "done" /\ received'[c] = Feed(c),
         writer'[c] # "done" => writer[c] # "done" /\ Feed(c)' = Feed(c)
  PROVE  FeedInv(c)'
  <1>1. IsPart(received'[c], joined[c])
    BY DEF FeedInv
  <1> QED BY <1>1 DEF FeedInv, IsPart

(* A new client's feed is empty and starts at the end of the log. *)
LEMMA RegisterKeepsFeeds ==
  ASSUME TypeOK, FeedsInv, NEW c \in Clients, Register(c)
  PROVE  FeedsInv'
  <1>1. /\ log' = log /\ todo' = todo /\ todo = {} /\ message' = message
        /\ clients' = clients \cup {c}
        /\ UNCHANGED <<send, taken, received>>
        /\ serve' = [serve EXCEPT ![c] = "done"]
        /\ writer' = [writer EXCEPT ![c] = "waiting"]
        /\ joined' = [joined EXCEPT ![c] = Len(log)]
        /\ serve[c] = "registering"
    BY DEF Register, Selecting
  <1>2. ASSUME NEW d \in Clients, d # c PROVE FeedInv(d)'
    <2>1. FeedInv(d)
      BY DEF FeedsInv
    <2>2. /\ serve'[d] = serve[d] /\ writer'[d] = writer[d]
          /\ joined'[d] = joined[d]
      BY <1>1, <1>2 DEF TypeOK
    <2> QED BY <1>1, <1>2, <2>1, <2>2, FeedKept
  <1>3. FeedInv(c)'
    <2>1. /\ received'[c] = << >> /\ taken'[c] = << >> /\ send'[c] = << >>
      BY <1>1 DEF FeedsInv, FeedInv
    <2>2. /\ serve'[c] = "done" /\ writer'[c] = "waiting"
          /\ joined'[c] = Len(log) /\ Len(log) \in Nat
      BY <1>1, LenProperties DEF TypeOK
    <2>3. Feed(c)' = << >>
      BY <2>1, ConcatEmptySeq, EmptySeq DEF Feed
    <2>4. IsPart(<< >>, Len(log))
      BY <2>2, SubSeqEmpty, EmptySeq DEF IsPart
    <2> QED BY <1>1, <2>1, <2>2, <2>3, <2>4, EmptySeq DEF FeedInv, IsPart
  <1> QED BY <1>1, <1>2, <1>3 DEF FeedsInv

(* The log grows by a message that every client is yet to get. *)
LEMMA BroadcastKeepsFeeds ==
  ASSUME TypeOK, FeedsInv, NEW c \in Clients, Broadcast(c)
  PROVE  FeedsInv'
  <1>1. /\ log' = Append(log, read[c]) /\ message' = read[c]
        /\ todo = {} /\ todo' = clients /\ clients' = clients
        /\ UNCHANGED <<serve, send, taken, received, writer, joined>>
    BY DEF Broadcast, Selecting
  <1>2. /\ log \in Seq(Messages) /\ Len(log) \in Nat /\ read[c] \in Messages
    BY LenProperties DEF TypeOK
  <1>3. /\ log' # << >> /\ Len(log') = Len(log) + 1
        /\ log'[Len(log')] = message'
    BY <1>1, <1>2, AppendProperties
  <1>4. ASSUME NEW d \in Clients, NEW s \in Seq(Messages), IsPart(s, joined[d])
        PROVE  IsPart(s, joined[d])'
    <2>1. joined[d] \in Nat /\ Len(s) \in Nat
      BY LenProperties DEF TypeOK
    <2>2. SubSeq(log', joined[d] + 1, joined[d] + Len(s))
            = SubSeq(log, joined[d] + 1, joined[d] + Len(s))
      BY <1>1, <1>2, <1>4, <2>1, PartOfAppend DEF IsPart
    <2>3. joined'[d] + Len(s) <= Len(log')
      BY <1>1, <1>2, <1>3, <1>4, <2>1 DEF IsPart
    <2>4. s = SubSeq(log', joined'[d] + 1, joined'[d] + Len(s))
      BY <1>1, <1>4, <2>2, Zenon DEF IsPart
    <2> QED BY <2>3, <2>4, Zenon DEF IsPart
  <1>5. ASSUME NEW d \in Clients PROVE FeedInv(d)'
    <2>1. received[d] \in Seq(Messages) /\ Feed(d) \in Seq(Messages)
      BY ConcatProperties DEF TypeOK, Feed
    <2>2. Feed(d)' = Feed(d)
      BY <1>1 DEF Feed
    <2>3. FeedInv(d)
      BY DEF FeedsInv
    <2>4. /\ IsPart(received[d], joined[d])'
          /\ writer[d] # "done" => IsPart(Feed(d), joined[d])'
      <3>1. IsPart(received[d], joined[d])
        BY <2>3 DEF FeedInv
      <3>2. writer[d] # "done" => IsPart(Feed(d), joined[d])
        BY <2>3 DEF FeedInv
      <3>3. ASSUME IsPart(Feed(d), joined[d]) PROVE IsPart(Feed(d), joined[d])'
        <4>1. Feed(d) \in Seq(Messages)
          BY <2>1
        <4> DEFINE s == Feed(d)
        <4> QED BY <1>1, <1>4, <2>1, <2>2, <3>3 DEF IsPart
      <3> QED BY <1>1, <1>4, <2>1, <3>1, <3>2, <3>3
    <2>5. writer[d] # "done" /\ d \in clients =>
            joined[d] + Len(Feed(d)) = Len(log)
      BY <1>1, <1>2, <2>3 DEF FeedInv
    <2> QED BY <1>1, <1>2, <1>3, <2>2, <2>3, <2>4, <2>5 DEF FeedInv
  <1> QED BY <1>1, <1>3, <1>5 DEF FeedsInv

(* The message is added to the feed, or the client is dropped. *)
LEMMA SendKeepsFeeds ==
  ASSUME TypeOK, ChannelInv, FeedsInv, NEW c \in Clients, SendMessage(c)
  PROVE  FeedsInv'
  <1>1. /\ c \in todo /\ todo' = todo \ {c} /\ log' = log
        /\ UNCHANGED <<message, serve, writer, taken, received, joined>>
    BY DEF SendMessage, history
  <1>2. ASSUME NEW d \in Clients, d # c PROVE FeedInv(d)'
    <2>1. send'[d] = send[d] /\ (d \in clients' => d \in clients)
      BY <1>2 DEF SendMessage, TypeOK
    <2> QED BY <1>1, <1>2, <2>1, FeedKept DEF FeedsInv
  <1>3. FeedInv(c)'
    <2>1. FeedInv(c) /\ c \in clients /\ serve[c] = "done"
      BY <1>1 DEF FeedsInv, ChannelInv
    <2>2. CASE Room(c)
      <3>1. send' = [send EXCEPT ![c] = Append(send[c], message)]
            /\ clients' = clients
        BY <2>2 DEF SendMessage
      <3>2. CASE writer[c] = "done"
        BY <1>1, <2>1, <3>1, <3>2 DEF FeedInv, IsPart
      <3>3. CASE writer[c] # "done"
        <4>1. /\ log \in Seq(Messages) /\ joined[c] \in Nat
              /\ message \in Messages /\ message = log[Len(log)]
              /\ received[c] \in Seq(Messages) /\ taken[c] \in Seq(Messages)
              /\ send[c] \in Seq(Messages)
          BY <1>1 DEF TypeOK, FeedsInv
        <4>2. /\ joined[c] + Len(Feed(c)) = Len(log) - 1
              /\ Feed(c) = SubSeq(log, joined[c] + 1, Len(log) - 1)
          BY <1>1, <2>1, <3>3 DEF FeedInv, IsPart
        <4>3. Feed(c)' = received[c] \o taken[c] \o Append(send[c], message)
          BY <1>1, <3>1 DEF Feed, TypeOK
        <4> DEFINE p == received[c] \o taken[c]
                   s == send[c]
                   f == Feed(c)
                   g == Feed(c)'
                   j == joined[c]
        <4>4. p \in Seq(Messages) /\ s \in Seq(Messages) /\ j \in Nat
          BY <4>1, ConcatProperties
        <4>5. f = p \o s /\ g = p \o Append(s, message)
          BY <4>3 DEF Feed
        <4>6. j + Len(f) = Len(log) - 1 /\ f = SubSeq(log, j + 1, Len(log) - 1)
          BY <4>2
        <4> HIDE DEF p, s, f, g, j
        <4>7. f \in Seq(Messages)
          BY <4>4, <4>5, ConcatProperties
        <4>8. g = Append(f, message)
          BY <4>1, <4>4, <4>5, AppendToConcat
        <4>9. /\ g = SubSeq(log, j + 1, Len(log)) /\ Len(g) \in Nat
              /\ j + Len(g) = Len(log) /\ Len(log) \in Nat
          <5>1. log \in Seq(Messages)
            BY <4>1
          <5>2. Len(log) \in Nat
            BY <5>1, LenProperties
          <5>3. message \in Messages /\ message = log[Len(log)]
            BY <4>1
          <5>4. Len(f) \in Nat
            BY <4>7, LenProperties
          <5>5. j < Len(log)
            BY <4>4, <4>6, <5>2, <5>4
          <5>6. SubSeq(log, j + 1, Len(log)) = Append(f, message)
            BY <4>4, <4>6, <5>1, <5>3, <5>5, PartToTheEnd
          <5>7. Len(g) = Len(f) + 1
            BY <4>7, <4>8, <5>3, AppendProperties
          <5>8. Len(g) \in Nat /\ j + Len(g) = Len(log)
            BY <4>4, <4>6, <5>2, <5>4, <5>7
          <5> QED BY <4>8, <5>2, <5>6, <5>8
        <4>11. IsPart(g, j)
          BY <4>4, <4>9 DEF IsPart
        <4>12. IsPart(Feed(c), joined[c])'
          BY <1>1, <4>11 DEF g, j, IsPart
        <4>13. c \notin todo' /\ (joined[c] + Len(Feed(c)) = Len(log))'
          BY <1>1, <4>9 DEF g, j
        <4>10. IsPart(received[c], joined[c])'
          BY <1>1, <2>1 DEF FeedInv, IsPart
        <4> QED BY <1>1, <2>1, <3>3, <4>9, <4>10, <4>12, <4>13 DEF FeedInv
      <3> QED BY <3>2, <3>3
    <2>3. CASE ~Room(c)
      <3>1. send' = send /\ clients' = clients \ {c}
        BY <2>3 DEF SendMessage
      <3> QED BY <1>1, <2>1, <3>1, FeedKept
    <2> QED BY <2>2, <2>3
  <1> QED BY <1>1, <1>2, <1>3 DEF FeedsInv

(* A message goes from the buffer to the pump. *)
LEMMA ReceiveKeepsFeeds ==
  ASSUME TypeOK, FeedsInv, NEW c \in Clients, Receive(c)
  PROVE  FeedsInv'
  <1>1. /\ writer[c] = "waiting" /\ send[c] # << >>
        /\ taken' = [taken EXCEPT ![c] = <<Head(send[c])>>]
        /\ send' = [send EXCEPT ![c] = Tail(send[c])]
        /\ writer' = [writer EXCEPT ![c] = "writing"]
        /\ UNCHANGED <<clients, todo, message, serve, log, joined, received>>
    BY DEF Receive, hubVars, history
  <1>2. ASSUME NEW d \in Clients, d # c PROVE FeedInv(d)'
    <2>1. taken'[d] = taken[d] /\ send'[d] = send[d] /\ writer'[d] = writer[d]
      BY <1>1, <1>2 DEF TypeOK
    <2> QED BY <1>1, <2>1, FeedKept DEF FeedsInv
  <1>3. FeedInv(c)'
    <2>1. FeedInv(c) /\ taken[c] = << >> /\ serve[c] = "done"
      BY <1>1 DEF FeedsInv, FeedInv
    <2>2. /\ taken'[c] = << Head(send[c]) >> /\ send'[c] = Tail(send[c])
          /\ writer'[c] = "writing"
          /\ received[c] \in Seq(Messages) /\ send[c] \in Seq(Messages)
      BY <1>1 DEF TypeOK
    <2>3. Feed(c)' = Feed(c)
      <3> DEFINE r == received[c]  s == send[c]
      <3>1. r \in Seq(Messages) /\ s \in Seq(Messages) /\ s # << >>
        BY <1>1, <2>2
      <3>2. Feed(c) = r \o << >> \o s
        BY <2>1 DEF Feed
      <3>3. Feed(c)' = r \o << Head(s) >> \o Tail(s)
        BY <1>1, <2>2 DEF Feed
      <3> HIDE DEF r, s
      <3> QED BY <3>1, <3>2, <3>3, HeadAndTail
    <2> QED BY <1>1, <2>1, <2>2, <2>3, FeedWritten
  <1> QED BY <1>1, <1>2, <1>3 DEF FeedsInv

(* All of the feed is on the connection. *)
LEMMA WriteKeepsFeeds ==
  ASSUME TypeOK, FeedsInv, NEW c \in Clients, Write(c)
  PROVE  FeedsInv'
  <1>1. /\ writer[c] = "writing"
        /\ received' = [received EXCEPT ![c] = Feed(c)]
        /\ send' = [send EXCEPT ![c] = << >>]
        /\ taken' = [taken EXCEPT ![c] = << >>]
        /\ writer' = [writer EXCEPT ![c] = "waiting"]
        /\ UNCHANGED <<clients, todo, message, serve, log, joined>>
    BY DEF Write, hubVars, Feed
  <1>2. ASSUME NEW d \in Clients, d # c PROVE FeedInv(d)'
    <2>1. /\ taken'[d] = taken[d] /\ send'[d] = send[d] /\ writer'[d] = writer[d]
          /\ received'[d] = received[d]
      BY <1>1, <1>2 DEF TypeOK
    <2> QED BY <1>1, <2>1, FeedKept DEF FeedsInv
  <1>3. FeedInv(c)'
    <2>1. FeedInv(c)
      BY DEF FeedsInv
    <2>2. /\ received'[c] = Feed(c) /\ send'[c] = << >> /\ taken'[c] = << >>
          /\ writer'[c] = "waiting"
      BY <1>1 DEF TypeOK
    <2>3. Feed(c) \in Seq(Messages)
      BY ConcatProperties DEF TypeOK, Feed
    <2>4. Feed(c)' = Feed(c)
      BY <2>2, <2>3, ConcatEmptySeq DEF Feed
    <2>5. serve[c] # "done" => received'[c] = << >>
      BY <2>1, <2>2, ConcatEmptySeq, EmptySeq DEF FeedInv, Feed
    <2> QED BY <1>1, <2>1, <2>2, <2>4, <2>5, FeedWritten
  <1> QED BY <1>1, <1>2, <1>3 DEF FeedsInv

(* The feed of a pump that returns ends; what it wrote stays. *)
LEMMA ReturnKeepsFeeds ==
  ASSUME TypeOK, FeedsInv, NEW c \in Clients,
         WriteError(c) \/ ReceiveClosed(c) \/ PingError(c)
  PROVE  FeedsInv'
  <1>1. /\ send' \in {send, [send EXCEPT ![c] = << >>]}
        /\ \/ taken' = [taken EXCEPT ![c] = << >>]
           \/ taken' = taken /\ writer[c] = "waiting"
        /\ writer' = [writer EXCEPT ![c] = "done"]
        /\ UNCHANGED <<clients, todo, message, serve, log, joined, received>>
    BY DEF WriteError, ReceiveClosed, PingError, WriterReturns, hubVars, history
  <1>2. ASSUME NEW d \in Clients, d # c PROVE FeedInv(d)'
    <2>1. taken'[d] = taken[d] /\ send'[d] = send[d] /\ writer'[d] = writer[d]
      BY <1>1, <1>2 DEF TypeOK
    <2> QED BY <1>1, <2>1, FeedKept DEF FeedsInv
  <1>3. FeedInv(c)'
    <2>1. FeedInv(c)
      BY DEF FeedsInv
    <2>2. /\ taken'[c] = << >> /\ writer'[c] = "done"
          /\ send'[c] \in {send[c], << >>}
      BY <1>1, <2>1 DEF TypeOK, FeedInv
    <2> QED BY <1>1, <2>1, <2>2, FeedWritten DEF FeedInv
  <1> QED BY <1>1, <1>2, <1>3 DEF FeedsInv

(* No step breaks the feeds. *)
LEMMA NextFeedsInv ==
  TypeOK /\ ChannelInv /\ FeedsInv /\ [Next]_vars => FeedsInv'
  <1> SUFFICES ASSUME TypeOK, ChannelInv, FeedsInv, [Next]_vars PROVE FeedsInv'
    OBVIOUS
  <1>1. ASSUME UNCHANGED <<todo, message, log, serve, writer, joined, received,
                           taken, send>>,
               clients' \subseteq clients
        PROVE  FeedsInv'
    BY <1>1, FeedKept DEF FeedsInv
  <1>2. CASE UNCHANGED vars
    BY <1>1, <1>2 DEF vars
  <1>3. ASSUME NEW c \in Clients, ServeWs(c) PROVE FeedsInv'
    <2>1. /\ serve[c] = "none" /\ serve' = [serve EXCEPT ![c] = "registering"]
          /\ UNCHANGED <<clients, todo, message, log, writer, joined, received,
                         taken, send>>
      BY <1>3 DEF ServeWs, hubVars, history
    <2>2. ASSUME NEW d \in Clients PROVE FeedInv(d)'
      <3>1. serve'[d] = serve[d] \/ (d = c /\ serve[d] # "done")
        BY <2>1 DEF TypeOK
      <3> QED BY <2>1, <3>1 DEF FeedsInv, FeedInv, Feed, IsPart
    <2> QED BY <2>1, <2>2 DEF FeedsInv
  <1>4. ASSUME NEW c \in Clients, Unregister(c) PROVE FeedsInv'
    BY <1>1, <1>4 DEF Unregister, history
  <1>5. ASSUME NEW c \in Clients, NEW m \in Messages,
               ReadMessage(c, m) \/ ReadError(c) \/ ReaderCloses(c)
        PROVE  FeedsInv'
    BY <1>1, <1>5 DEF ReadMessage, ReadError, ReaderCloses, hubVars, history
  <1>6. ASSUME NEW c \in Clients, ReadError(c) \/ ReaderCloses(c) PROVE FeedsInv'
    BY <1>1, <1>6 DEF ReadError, ReaderCloses, hubVars, history
  <1> QED BY <1>2, <1>3, <1>4, <1>5, <1>6, RegisterKeepsFeeds, BroadcastKeepsFeeds,
             SendKeepsFeeds, ReceiveKeepsFeeds, WriteKeepsFeeds, ReturnKeepsFeeds
          DEF Next, Hub, Pumps

(* The feeds are right in every behaviour. *)
LEMMA SpecFeeds == Spec => []FeedsInv
  BY InitFeedsInv, NextFeedsInv, TypeCorrect, SpecChannels, PTL DEF Spec

(* A registered client whose pump runs misses nothing, and gets nothing twice or
   out of order: what was written to it, is being written and is buffered are the
   messages since it registered, up to the one the hub is handing out. *)
THEOREM FeedsHaveNoGaps == Spec => []FeedHasNoGaps
  <1>1. TypeOK /\ FeedsInv => FeedHasNoGaps
    <2> SUFFICES ASSUME TypeOK, FeedsInv, NEW c \in clients, writer[c] # "done"
                 PROVE  Feed(c) = SubSeq(log, joined[c] + 1,
                                         Len(log) - (IF c \in todo THEN 1 ELSE 0))
      BY DEF FeedHasNoGaps
    <2> QED BY DEF TypeOK, FeedsInv, FeedInv, IsPart
  <1> QED BY <1>1, TypeCorrect, SpecFeeds, PTL

(* What was written to a connection is a gap-free part of the log from the moment
   the client registered, even after the hub has dropped it. *)
THEOREM ReceivedInOrder == Spec => []ReceivedIsPrefix
  <1>1. FeedsInv => ReceivedIsPrefix
    BY DEF FeedsInv, FeedInv, IsPart, ReceivedIsPrefix
  <1> QED BY <1>1, SpecFeeds, PTL

-----------------------------------------------------------------------------
(* The pump of a client is started when the client is registered. *)
StartInv == \A c \in Clients : writer[c] = "none" <=> serve[c] # "done"

(* Only Register starts a pump, and no pump goes back to "none". *)
LEMMA NextStartInv == TypeOK /\ StartInv /\ [Next]_vars => StartInv'
  <1> SUFFICES ASSUME TypeOK, StartInv, [Next]_vars PROVE StartInv'
    OBVIOUS
  <1> USE DEF StartInv, TypeOK
  <1>1. CASE UNCHANGED <<serve, writer>>
    BY <1>1
  <1>2. ASSUME NEW c \in Clients, ServeWs(c) PROVE StartInv'
    BY <1>2 DEF ServeWs
  <1>3. ASSUME NEW c \in Clients, Register(c) PROVE StartInv'
    BY <1>3 DEF Register
  <1>4. ASSUME NEW c \in Clients,
               Unregister(c) \/ Broadcast(c) \/ SendMessage(c)
        PROVE  UNCHANGED <<serve, writer>>
    BY <1>4 DEF Unregister, Broadcast, SendMessage
  <1>5. ASSUME NEW c \in Clients, NEW m \in Messages,
               ReadMessage(c, m) \/ ReadError(c) \/ ReaderCloses(c)
        PROVE  UNCHANGED <<serve, writer>>
    BY <1>5 DEF ReadMessage, ReadError, ReaderCloses, hubVars
  <1>6. ASSUME NEW c \in Clients, Receive(c) \/ Write(c) PROVE StartInv'
    BY <1>6 DEF Receive, Write
  <1>7. ASSUME NEW c \in Clients,
               WriteError(c) \/ ReceiveClosed(c) \/ PingError(c)
        PROVE  StartInv'
    BY <1>7 DEF WriteError, ReceiveClosed, PingError, WriterReturns
  <1>8. ASSUME NEW c \in Clients, ReadError(c) \/ ReaderCloses(c)
        PROVE  UNCHANGED <<serve, writer>>
    BY <1>8 DEF ReadError, ReaderCloses
  <1> QED BY <1>1, <1>2, <1>3, <1>4, <1>5, <1>6, <1>7, <1>8
          DEF Next, Hub, Pumps, vars

(* It holds in every behaviour. *)
LEMMA SpecStart == Spec => []StartInv
  <1>1. Init => StartInv
    BY DEF Init, StartInv
  <1> QED BY <1>1, TypeCorrect, NextStartInv, PTL DEF Spec

-----------------------------------------------------------------------------
(* Steps of the feed                                                       *)

(* Nothing that the feed shows has changed. *)
LEMMA Stutters ==
  ASSUME UNCHANGED <<log, joined, received>>,
         \A d \in Clients : StateOf(d)' = StateOf(d) /\ QueuedOf(d)' = QueuedOf(d)
  PROVE  UNCHANGED Promise!vars
  BY DEF Promise!vars

(* One client is dropped, or its pump returns. *)
LEMMA Leaves ==
  ASSUME NEW c \in Clients, UNCHANGED <<log, joined, received>>,
         StateOf(c) # "outside", StateOf(c)' = "left",
         QueuedOf(c)' \in {QueuedOf(c), joined[c] + Len(received[c])},
         \A d \in Clients \ {c} :
            StateOf(d)' = StateOf(d) /\ QueuedOf(d)' = QueuedOf(d)
  PROVE  Promise!Leave(c)
  BY DEF Promise!Leave, Promise!Delivered

(* What the feed shows of a client is read from its part of the state. *)
LEMMA SameClient ==
  ASSUME NEW d \in Clients,
         writer'[d] = writer[d], joined'[d] = joined[d], received'[d] = received[d],
         taken'[d] = taken[d], send'[d] = send[d],
         d \in clients' <=> d \in clients
  PROVE  StateOf(d)' = StateOf(d) /\ QueuedOf(d)' = QueuedOf(d)
  BY DEF StateOf, QueuedOf

(* A feed is as long as its three parts. *)
LEMMA FeedLength ==
  ASSUME TypeOK, NEW c \in Clients
  PROVE  Len(Feed(c)) = Len(received[c]) + Len(taken[c]) + Len(send[c])
  <1> DEFINE r == received[c]  t == taken[c]  s == send[c]  p == r \o t
  <1>1. r \in Seq(Messages) /\ t \in Seq(Messages) /\ s \in Seq(Messages)
    BY DEF TypeOK
  <1>2. Feed(c) = p \o s
    BY DEF Feed
  <1> HIDE DEF r, t, s
  <1>3. p \in Seq(Messages) /\ Len(p) = Len(r) + Len(t)
    BY <1>1, ConcatProperties
  <1> HIDE DEF p
  <1>4. Len(p \o s) = Len(p) + Len(s)
    BY <1>1, <1>3, ConcatProperties
  <1>5. Len(Feed(c)) = Len(r) + Len(t) + Len(s)
    BY <1>2, <1>3, <1>4
  <1> QED BY <1>5 DEF r, t, s

(* While the pump runs, what is queued is the feed. *)
LEMMA QueuedIsFeed ==
  ASSUME TypeOK, NEW c \in Clients, writer[c] # "done"
  PROVE  QueuedOf(c) = joined[c] + Len(Feed(c))
  <1> DEFINE j == joined[c]  r == Len(received[c])  t == Len(taken[c])
             s == Len(send[c])
  <1>1. j \in Nat /\ r \in Nat /\ t \in Nat /\ s \in Nat
    BY LenProperties DEF TypeOK
  <1>2. QueuedOf(c) = j + r + (t + s) /\ Len(Feed(c)) = r + t + s
    BY FeedLength DEF QueuedOf
  <1> HIDE DEF j, r, t, s
  <1>3. QueuedOf(c) = j + Len(Feed(c))
    BY <1>1, <1>2
  <1> QED BY <1>3 DEF j

(* The hub starts as an empty feed. *)
LEMMA InitFeed == Init => Promise!Init
  <1> SUFFICES ASSUME Init PROVE Promise!Init
    OBVIOUS
  <1>1. ASSUME NEW c \in Clients PROVE StateOf(c) = "outside" /\ QueuedOf(c) = 0
    <2>1. /\ writer[c] = "none" /\ joined[c] = 0 /\ received[c] = << >>
          /\ taken[c] = << >> /\ send[c] = << >>
      BY DEF Init
    <2> QED BY <2>1, EmptySeq DEF StateOf, QueuedOf
  <1>2. /\ log = << >> /\ joined = [c \in Clients |-> 0]
        /\ received = [c \in Clients |-> << >>]
    BY DEF Init
  <1> QED BY <1>1, <1>2 DEF Promise!Init

(* A registration is a join at the end of the log. *)
LEMMA RegisterJoins ==
  ASSUME TypeOK, FeedsInv, StartInv, NEW c \in Clients, Register(c)
  PROVE  Promise!Join(c)
  <1>1. /\ log' = log /\ clients' = clients \cup {c}
        /\ UNCHANGED <<send, taken, received>>
        /\ writer' = [writer EXCEPT ![c] = "waiting"]
        /\ joined' = [joined EXCEPT ![c] = Len(log)]
        /\ serve[c] = "registering"
    BY DEF Register
  <1>2. writer[c] = "none"
    BY <1>1 DEF StartInv
  <1>3. /\ received[c] = << >> /\ taken[c] = << >> /\ send[c] = << >>
    BY <1>1 DEF FeedsInv, FeedInv
  <1>4. /\ joined'[c] = Len(log) /\ writer'[c] = "waiting" /\ Len(log) \in Nat
    BY <1>1, LenProperties DEF TypeOK
  <1>5. /\ StateOf(c) = "outside" /\ StateOf(c)' = "member"
        /\ QueuedOf(c)' = Len(log)
    BY <1>1, <1>2, <1>3, <1>4, EmptySeq DEF StateOf, QueuedOf
  <1>6. \A d \in Clients \ {c} : StateOf(d)' = StateOf(d) /\ QueuedOf(d)' = QueuedOf(d)
    <2>1. ASSUME NEW d \in Clients \ {c}
          PROVE  /\ writer'[d] = writer[d] /\ joined'[d] = joined[d]
                 /\ d \in clients' <=> d \in clients
      BY <1>1 DEF TypeOK
    <2> QED BY <1>1, <2>1, SameClient
  <1> QED BY <1>1, <1>5, <1>6 DEF Promise!Join

(* A broadcast is a publication. *)
LEMMA BroadcastPublishes ==
  ASSUME TypeOK, NEW c \in Clients, Broadcast(c)
  PROVE  Promise!Publish(read[c])
  <1>1. /\ log' = Append(log, read[c])
        /\ UNCHANGED <<clients, writer, joined, received, taken, send>>
    BY DEF Broadcast
  <1>2. \A d \in Clients : StateOf(d)' = StateOf(d) /\ QueuedOf(d)' = QueuedOf(d)
    BY <1>1, SameClient
  <1> QED BY <1>1, <1>2 DEF Promise!Publish

(* A client that is taken out of the hub leaves, unless it has left before. *)
LEMMA DropLeaves ==
  ASSUME TypeOK, ChannelInv, StartInv, NEW c \in clients, clients' = clients \ {c},
         UNCHANGED <<log, writer, joined, received, taken, send>>
  PROVE  Promise!Leave(c) \/ UNCHANGED Promise!vars
  <1>1. c \in Clients /\ writer[c] # "none"
    BY DEF TypeOK, ChannelInv, StartInv
  <1>2. QueuedOf(c)' = QueuedOf(c) /\ StateOf(c)' = "left"
    BY <1>1 DEF StateOf, QueuedOf
  <1>3. \A d \in Clients \ {c} : StateOf(d)' = StateOf(d) /\ QueuedOf(d)' = QueuedOf(d)
    BY SameClient
  <1>4. StateOf(c) # "outside"
    BY <1>1 DEF StateOf
  <1> QED BY <1>1, <1>2, <1>3, <1>4, Leaves

(* A round of the range loop queues the message for the client, or drops it. *)
LEMMA SendQueues ==
  ASSUME TypeOK, ChannelInv, FeedsInv, StartInv, NEW c \in Clients, SendMessage(c)
  PROVE  Promise!Queue(c) \/ Promise!Leave(c) \/ UNCHANGED Promise!vars
  <1>1. /\ c \in todo /\ c \in clients
        /\ UNCHANGED <<log, writer, taken, received, joined>>
    BY DEF SendMessage, history, ChannelInv
  <1>2. CASE ~Room(c)
    BY <1>1, <1>2, DropLeaves DEF SendMessage
  <1>3. CASE Room(c)
    <2>1. send' = [send EXCEPT ![c] = Append(send[c], message)] /\ clients' = clients
      BY <1>3 DEF SendMessage
    <2>2. \A d \in Clients \ {c} : StateOf(d)' = StateOf(d) /\ QueuedOf(d)' = QueuedOf(d)
      <3>1. ASSUME NEW d \in Clients \ {c} PROVE send'[d] = send[d]
        BY <2>1 DEF TypeOK
      <3> QED BY <1>1, <2>1, <3>1, SameClient
    <2>3. StateOf(c)' = StateOf(c)
      BY <1>1, <2>1 DEF StateOf
    <2>4. CASE writer[c] = "done"
      <3>1. QueuedOf(c)' = QueuedOf(c)
        BY <1>1, <2>4 DEF QueuedOf
      <3> QED BY <1>1, <2>2, <2>3, <3>1, Stutters
    <2>5. CASE writer[c] # "done"
      <3>1. StateOf(c) = "member"
        BY <1>1, <2>5 DEF StateOf, ChannelInv, StartInv
      <3>2. send'[c] = Append(send[c], message) /\ Len(send'[c]) = Len(send[c]) + 1
        BY <2>1, AppendProperties DEF TypeOK
      <3>3. /\ joined[c] \in Nat /\ Len(received[c]) \in Nat
            /\ Len(taken[c]) \in Nat /\ Len(send[c]) \in Nat /\ Len(log) \in Nat
        BY LenProperties DEF TypeOK
      <3>4. QueuedOf(c)' = QueuedOf(c) + 1
        <4> DEFINE j == joined[c]  r == Len(received[c])  t == Len(taken[c])
                   s == Len(send[c])
        <4>1. QueuedOf(c) = j + r + (t + s) /\ QueuedOf(c)' = j + r + (t + (s + 1))
          BY <1>1, <2>5, <3>2 DEF QueuedOf
        <4>2. j \in Nat /\ r \in Nat /\ t \in Nat /\ s \in Nat
          BY <3>3
        <4> HIDE DEF j, r, t, s
        <4> QED BY <4>1, <4>2
      <3>5. QueuedOf(c) < Len(log)
        BY <1>1, <2>5, <3>3, QueuedIsFeed DEF FeedsInv, FeedInv
      <3> QED BY <1>1, <2>2, <2>3, <3>1, <3>4, <3>5 DEF Promise!Queue
    <2> QED BY <2>4, <2>5
  <1> QED BY <1>2, <1>3

(* The head of the buffer goes to the pump, and is counted there. *)
LEMMA ReceiveStutters ==
  ASSUME TypeOK, FeedsInv, NEW c \in Clients, Receive(c)
  PROVE  UNCHANGED Promise!vars
  <1>1. /\ writer[c] = "waiting" /\ send[c] # << >>
        /\ taken' = [taken EXCEPT ![c] = <<Head(send[c])>>]
        /\ send' = [send EXCEPT ![c] = Tail(send[c])]
        /\ writer' = [writer EXCEPT ![c] = "writing"]
        /\ UNCHANGED <<clients, log, joined, received>>
    BY DEF Receive, hubVars, history
  <1>2. \A d \in Clients \ {c} : StateOf(d)' = StateOf(d) /\ QueuedOf(d)' = QueuedOf(d)
    <2>1. ASSUME NEW d \in Clients \ {c}
          PROVE  send'[d] = send[d] /\ taken'[d] = taken[d] /\ writer'[d] = writer[d]
      BY <1>1 DEF TypeOK
    <2> QED BY <1>1, <2>1, SameClient
  <1>3. /\ writer'[c] = "writing" /\ taken[c] = << >>
        /\ taken'[c] = << Head(send[c]) >> /\ send'[c] = Tail(send[c])
    BY <1>1 DEF TypeOK, FeedsInv, FeedInv
  <1>4. /\ Len(send[c]) \in Nat /\ Len(Tail(send[c])) = Len(send[c]) - 1
        /\ joined[c] \in Nat /\ Len(received[c]) \in Nat
    BY <1>1, LenProperties, HeadTailProperties DEF TypeOK
  <1>5. Len(taken[c]) = 0 /\ Len(taken'[c]) = 1
    BY <1>3, EmptySeq
  <1>6. QueuedOf(c)' = QueuedOf(c)
    <2> DEFINE j == joined[c]  r == Len(received[c])  s == Len(send[c])
    <2>1. QueuedOf(c) = j + r + (0 + s) /\ QueuedOf(c)' = j + r + (1 + (s - 1))
      BY <1>1, <1>3, <1>4, <1>5 DEF QueuedOf
    <2>2. j \in Nat /\ r \in Nat /\ s \in Nat
      BY <1>4
    <2> HIDE DEF j, r, s
    <2> QED BY <2>1, <2>2
  <1>7. StateOf(c)' = StateOf(c)
    BY <1>1, <1>3 DEF StateOf
  <1> QED BY <1>1, <1>2, <1>6, <1>7, Stutters

(* A write delivers all that is queued. *)
LEMMA WriteDelivers ==
  ASSUME TypeOK, FeedsInv, NEW c \in Clients, Write(c)
  PROVE  Promise!Deliver(c)
  <1>1. /\ writer[c] = "writing"
        /\ received' = [received EXCEPT ![c] = Feed(c)]
        /\ send' = [send EXCEPT ![c] = << >>]
        /\ taken' = [taken EXCEPT ![c] = << >>]
        /\ writer' = [writer EXCEPT ![c] = "waiting"]
        /\ UNCHANGED <<clients, log, joined>>
    BY DEF Write, hubVars, Feed
  <1>2. \A d \in Clients \ {c} : StateOf(d)' = StateOf(d) /\ QueuedOf(d)' = QueuedOf(d)
    <2>1. ASSUME NEW d \in Clients \ {c}
          PROVE  /\ send'[d] = send[d] /\ taken'[d] = taken[d]
                 /\ writer'[d] = writer[d] /\ received'[d] = received[d]
      BY <1>1 DEF TypeOK
    <2> QED BY <1>1, <2>1, SameClient
  <1>3. /\ writer'[c] = "waiting" /\ taken'[c] = << >> /\ send'[c] = << >>
        /\ received'[c] = Feed(c)
    BY <1>1 DEF TypeOK
  <1>4. QueuedOf(c) = joined[c] + Len(Feed(c))
    BY <1>1, QueuedIsFeed
  <1>5. /\ joined[c] \in Nat /\ Len(Feed(c)) \in Nat /\ Len(received[c]) \in Nat
        /\ Len(received[c]) <= Len(Feed(c))
    <2>1. /\ received[c] \in Seq(Messages) /\ taken[c] \in Seq(Messages)
          /\ send[c] \in Seq(Messages)
      BY DEF TypeOK
    <2>2. /\ Len(received[c]) \in Nat /\ Len(taken[c]) \in Nat /\ Len(send[c]) \in Nat
      BY <2>1, LenProperties
    <2>3. joined[c] \in Nat
      BY DEF TypeOK
    <2> DEFINE r == Len(received[c])  t == Len(taken[c])  s == Len(send[c])
               f == Len(Feed(c))
    <2>4. f = r + t + s /\ r \in Nat /\ t \in Nat /\ s \in Nat
      BY <2>2, FeedLength
    <2> HIDE DEF r, t, s, f
    <2>5. f \in Nat /\ r <= f
      BY <2>4
    <2> QED BY <2>2, <2>3, <2>5 DEF r, f
  <1>6. QueuedOf(c)' = QueuedOf(c)
    <2>1. Len(taken'[c]) = 0 /\ Len(send'[c]) = 0
      BY <1>3, EmptySeq
    <2> DEFINE j == joined[c]  f == Len(Feed(c))
    <2>2. QueuedOf(c)' = j + f + (0 + 0)
      BY <1>1, <1>3, <2>1 DEF QueuedOf
    <2>3. j \in Nat /\ f \in Nat /\ QueuedOf(c) = j + f
      BY <1>4, <1>5
    <2> HIDE DEF j, f
    <2> QED BY <2>2, <2>3
  <1>7. StateOf(c)' = StateOf(c) /\ StateOf(c) # "outside"
    BY <1>1, <1>3 DEF StateOf
  <1>8. Feed(c) = SubSeq(log, joined[c] + 1, QueuedOf(c))
    BY <1>1, <1>4 DEF FeedsInv, FeedInv, IsPart
  <1>9. QueuedOf(c) \in (joined[c] + Len(received[c]))..QueuedOf(c)
    BY <1>4, <1>5
  <1> QED BY <1>1, <1>2, <1>6, <1>7, <1>8, <1>9 DEF Promise!Deliver, Promise!Delivered

(* A pump that returns loses what it has not written. *)
LEMMA ReturnLeaves ==
  ASSUME TypeOK, NEW c \in Clients,
         WriteError(c) \/ ReceiveClosed(c) \/ PingError(c)
  PROVE  Promise!Leave(c)
  <1>1. /\ send' \in {send, [send EXCEPT ![c] = << >>]}
        /\ taken' \in {taken, [taken EXCEPT ![c] = << >>]}
        /\ writer[c] \in {"waiting", "writing"}
        /\ writer' = [writer EXCEPT ![c] = "done"]
        /\ UNCHANGED <<clients, log, joined, received>>
    BY DEF WriteError, ReceiveClosed, PingError, WriterReturns, hubVars, history
  <1>2. \A d \in Clients \ {c} : StateOf(d)' = StateOf(d) /\ QueuedOf(d)' = QueuedOf(d)
    <2>1. ASSUME NEW d \in Clients \ {c}
          PROVE  send'[d] = send[d] /\ taken'[d] = taken[d] /\ writer'[d] = writer[d]
      BY <1>1 DEF TypeOK
    <2> QED BY <1>1, <2>1, SameClient
  <1>3. writer'[c] = "done"
    BY <1>1 DEF TypeOK
  <1>4. /\ joined[c] \in Nat /\ Len(received[c]) \in Nat
    BY LenProperties DEF TypeOK
  <1>5. QueuedOf(c)' = joined[c] + Len(received[c])
    BY <1>1, <1>3, <1>4 DEF QueuedOf
  <1>6. StateOf(c) # "outside" /\ StateOf(c)' = "left"
    BY <1>1, <1>3 DEF StateOf
  <1> QED BY <1>1, <1>2, <1>5, <1>6, Leaves

(* Every step of the hub or of a pump is a step of the feed, or none. *)
LEMMA NextFeed ==
  TypeOK /\ ChannelInv /\ FeedsInv /\ StartInv /\ [Next]_vars
    => [Promise!Next]_(Promise!vars)
  <1> SUFFICES ASSUME TypeOK, ChannelInv, FeedsInv, StartInv, [Next]_vars
               PROVE  Promise!Next \/ UNCHANGED Promise!vars
    OBVIOUS
  <1>1. ASSUME UNCHANGED <<clients, log, writer, joined, received, taken, send>>
        PROVE  UNCHANGED Promise!vars
    BY <1>1, SameClient, Stutters
  <1>2. CASE UNCHANGED vars
    BY <1>1, <1>2 DEF vars
  <1>3. ASSUME NEW c \in Clients, ServeWs(c)
        PROVE  UNCHANGED Promise!vars
    BY <1>1, <1>3 DEF ServeWs, hubVars, history
  <1>4. ASSUME NEW c \in Clients, Unregister(c)
        PROVE  Promise!Leave(c) \/ UNCHANGED Promise!vars
    <2>1. UNCHANGED <<log, writer, joined, received, taken, send>>
      BY <1>4 DEF Unregister, history
    <2>2. CASE c \in clients
      BY <1>4, <2>1, <2>2, DropLeaves DEF Unregister
    <2>3. CASE c \notin clients
      BY <1>1, <1>4, <2>1, <2>3 DEF Unregister
    <2> QED BY <2>2, <2>3
  <1>5. ASSUME NEW c \in Clients, NEW m \in Messages, ReadMessage(c, m)
        PROVE  UNCHANGED Promise!vars
    BY <1>1, <1>5 DEF ReadMessage, hubVars, history
  <1>6. ASSUME NEW c \in Clients, ReadError(c) \/ ReaderCloses(c)
        PROVE  UNCHANGED Promise!vars
    BY <1>1, <1>6 DEF ReadError, ReaderCloses, hubVars, history
  <1>7. ASSUME NEW c \in Clients, Broadcast(c)
        PROVE  \E m \in Messages : Promise!Publish(m)
    BY <1>7, BroadcastPublishes DEF TypeOK
  <1>8. ASSUME NEW c \in Clients,
               \/ Promise!Join(c) \/ Promise!Queue(c) \/ Promise!Deliver(c)
               \/ Promise!Leave(c)
        PROVE  Promise!Next
    BY <1>8 DEF Promise!Next
  <1>9. (\E m \in Messages : Promise!Publish(m)) => Promise!Next
    BY DEF Promise!Next
  <1> QED BY <1>2, <1>3, <1>4, <1>5, <1>6, <1>7, <1>8, <1>9, RegisterJoins,
             SendQueues, ReceiveStutters, WriteDelivers, ReturnLeaves
          DEF Next, Hub, Pumps

(* The goroutines of the hub and of the connections, whatever they do, send each
   client a feed of the log: in order, without a gap, until it is dropped. *)
THEOREM HubImplementsFeed == Spec => ImplementsFeed
  <1>1. Spec => Promise!Init
    BY InitFeed DEF Spec
  <1> QED BY <1>1, NextFeed, TypeCorrect, SpecChannels, SpecFeeds, SpecStart, PTL
          DEF Spec, ImplementsFeed, Promise!Spec

(* Any two clients get the same messages in the same order, however they join,
   are dropped and are written to: what each has received is a gap-free part of
   one log, and nothing is queued for it that the log does not have.  *)
THEOREM FeedsAlwaysAgree == Spec => []Promise!FeedsAgree
  <1>1. TypeOK /\ FeedsInv => Promise!FeedsAgree
    <2> SUFFICES ASSUME TypeOK, FeedsInv, NEW c \in Clients
                 PROVE  /\ joined[c] + Len(received[c]) <= QueuedOf(c)
                        /\ QueuedOf(c) <= Len(log)
                        /\ received[c] = SubSeq(log, joined[c] + 1,
                                                joined[c] + Len(received[c]))
      BY DEF Promise!FeedsAgree, Promise!Delivered
    <2> DEFINE j == joined[c]  r == Len(received[c])  t == Len(taken[c])
               s == Len(send[c])  n == Len(log)
    <2>1. j \in Nat /\ r \in Nat /\ t \in Nat /\ s \in Nat /\ n \in Nat
      BY LenProperties DEF TypeOK
    <2>2. j + r <= n /\ received[c] = SubSeq(log, j + 1, j + r)
      BY DEF FeedsInv, FeedInv, IsPart
    <2>3. CASE writer[c] = "done"
      <3>1. QueuedOf(c) = j + r + 0
        BY <2>3 DEF QueuedOf
      <3> HIDE DEF j, r, n
      <3>2. j + r <= QueuedOf(c) /\ QueuedOf(c) <= n
        BY <2>1, <2>2, <3>1
      <3> QED BY <2>2, <3>2 DEF j, r, n
    <2>4. CASE writer[c] # "done"
      <3>1. /\ QueuedOf(c) = j + Len(Feed(c)) /\ Len(Feed(c)) = r + t + s
            /\ j + Len(Feed(c)) <= n
        BY <2>4, QueuedIsFeed, FeedLength DEF FeedsInv, FeedInv, IsPart
      <3> HIDE DEF j, r, t, s, n
      <3>2. j + r <= QueuedOf(c) /\ QueuedOf(c) <= n
        BY <2>1, <3>1
      <3> QED BY <2>2, <3>2 DEF j, r, n
    <2> QED BY <2>3, <2>4
  <1> QED BY <1>1, TypeCorrect, SpecFeeds, PTL
=============================================================================
