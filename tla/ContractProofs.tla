--------------------------- MODULE ContractProofs ---------------------------
(* Theorems about ServerCore: what it promises to its users, to the threads *)
(* that share m_Clients, and to those who send it packets and logins.       *)
EXTENDS ServerCoreProofs

-----------------------------------------------------------------------------
(* Names that others are told *)

\* What is told of a client is a name it has, so one whose password it showed.
LEMMA RosterProvedStep ==
  TypeOK /\ Fresh /\ Locks /\ Connections /\ Proved /\ RosterProved /\ [Next]_vars
    => RosterProved'
<1> SUFFICES ASSUME TypeOK, Fresh, Locks, Connections, Proved, RosterProved,
                    [Next]_vars, NEW c \in Ids, NEW d \in Ids,
                    roster'[c][d] \notin {NoName, Offline, Unknown}
             PROVE  roster'[c][d] \in shown'[d]
  BY DEF RosterProved
<1>1. shown[d] \subseteq shown'[d]
  BY ShownGrows
<1>2. CASE roster'[c][d] = roster[c][d]
  BY <1>1, <1>2 DEF RosterProved
<1>3. CASE roster'[c][d] # roster[c][d]
  <2>1. roster'[c][d] = Report(d)
    <3>1. PICK e \in Ids : BroadcastUserInfo(e)
      BY <1>3, RosterMoves
    <3> QED
      BY <1>3, <3>1, BroadcastTold
  <2>2. HasName(d) /\ Report(d) = handle[d].name
    BY <2>1 DEF Report, HasName
  <2> QED
    BY <1>1, <2>1, <2>2 DEF Proved
<1> QED
  BY <1>2, <1>3

\* Nobody is ever shown to others under a name whose password it has not sent,
\* whatever was told when, and whoever has gone since.
THEOREM OnlyProvedNamesAreTold == Spec => []RosterProved
<1>1. Init => Proved /\ RosterProved
  BY DEF Init, Proved, RosterProved, Vouched, HasName, NewHandle, NoRequest
<1> QED
  BY <1>1, InitRoster, RosterProvedStep, FreshStep, PhasesStep, LocksStep,
     ConnectionsStep, ProvedStep, TypeCorrect, PTL DEF Spec

-----------------------------------------------------------------------------
(* The queue of logins *)

\* Every step puts a login at the end, takes the first, ends the one at hand,
\* or leaves the queue and the login at hand alone.
LEMMA MailStep == TypeOK /\ [Next]_vars => [Mail!Next]_(Mail!mailVars)
<1> SUFFICES ASSUME TypeOK, [Next]_vars PROVE [Mail!Next]_(Mail!mailVars)
  OBVIOUS
<1> USE DEF Mail!Next, Mail!mailVars
<1>1. auth.pc \in {"verified", "named", "authenticated"} => auth.req # NoRequest
  BY DEF TypeOK, AuthPosition, Request, NoRequest, Ids
<1>2. CASE TakeRequest
  BY <1>2 DEF TakeRequest, Mail!Take, TypeOK, AuthPosition
<1>3. CASE HandleLoginInfo \/ HandleStrayStatusRequest
  <2>1. AddReceivedData /\ handle[tick.cur].received # <<>>
    BY <1>3 DEF AddReceivedData, HandleLoginInfo, HandleStrayStatusRequest, AtPacket
  <2>2. tick.cur \in Ids /\ Packet1 \in Packet
    BY <2>1, PacketAt, PacketTypes
  <2>3. CarriesLogin(Packet1)
    BY <1>3 DEF HandleLoginInfo, HandleStrayStatusRequest, AtPacket, CarriesLogin, Packet1
  <2>4. Packet1.name \in Name /\ Packet1.ok \in BOOLEAN
    BY <2>2, <2>3 DEF CarriesLogin, Packet, Name
  <2>5. [id |-> tick.cur, name |-> Packet1.name, ok |-> Packet1.ok] \in Request
    BY <2>2, <2>4 DEF Request
  <2>6. /\ queue' = Append(queue, [id |-> tick.cur, name |-> Packet1.name,
                                   ok |-> Packet1.ok])
        /\ UNCHANGED auth
    BY <1>3
    DEF HandleLoginInfo, HandleStrayStatusRequest, HandleLogin, Continue, TickUnchanged
  <2> QED
    BY <2>5, <2>6 DEF Mail!Put
<1>4. CASE UNCHANGED queue
  <2>1. CASE UNCHANGED auth
    BY <1>4, <2>1
  <2>2. CASE KickUser \/ DropAnswer \/ BroadcastAuthenticated
    BY <1>1, <1>4, <2>2
    DEF KickUser, DropAnswer, BroadcastAuthenticated, AuthIdle, Mail!Finish
  <2>3. CASE Authenticate
    BY <1>1, <1>4, <2>3 DEF Authenticate, AuthIdle, AuthGoto, Mail!Finish, TypeOK,
      AuthPosition
  <2>4. CASE SetAuthenticated
    BY <1>4, <2>4 DEF SetAuthenticated, AuthGoto, TypeOK, AuthPosition
  <2>5. CASE StopAuthenticator
    BY <1>4, <2>5 DEF StopAuthenticator, AuthGoto, Mail!Close, TypeOK, AuthPosition
  <2> QED
    BY <1>2, <2>1, <2>2, <2>3, <2>4, <2>5, AuthMoves
<1> QED
  BY <1>2, <1>3, <1>4, QueueWritten

\* The authenticator answers the logins one by one in the order the tick thread
\* has read them: what Mailbox allows, and Worker does with its event and lock.
THEOREM LoginsAnsweredInOrder == Spec => AnswersInOrder
  BY MailStep, TypeCorrect, PTL DEF Spec, AnswersInOrder

-----------------------------------------------------------------------------
(* The stream of packets *)

\* What arriving, being taken over and being parsed do to two buffers that
\* follow each other.
LEMMA Buffers ==
  ASSUME NEW r \in Seq(Packet), NEW i \in Seq(Packet)
  PROVE  /\ \A p \in Packet : r \o Append(i, p) = Append(r \o i, p)
         /\ r # <<>> => r \o i # <<>> /\ Tail(r) \o i = Tail(r \o i)
         /\ r \o <<>> = r
         /\ (r \o i) \o <<>> = r \o i
<1>1. r \o i \in Seq(Packet) /\ Len(r \o i) = Len(r) + Len(i)
  OBVIOUS
<1>2. ASSUME NEW p \in Packet PROVE r \o Append(i, p) = Append(r \o i, p)
  OBVIOUS
<1>3. ASSUME r # <<>> PROVE r \o i # <<>> /\ Tail(r) \o i = Tail(r \o i)
  <2>1. Len(r) > 0 /\ Len(r \o i) > 0
    BY <1>1, <1>3
  <2>2. r \o i # <<>>
    BY <2>1
  <2>3. Tail(r) \o i = Tail(r \o i)
    BY <1>1, <1>3, <2>1
  <2> QED
    BY <2>2, <2>3
<1>4. ASSUME NEW s \in Seq(Packet) PROVE s \o <<>> = s
  OBVIOUS
<1> QED
  BY <1>1, <1>2, <1>3, <1>4

\* A client's packets are appended at the end and taken from the front; what
\* has arrived but was not parsed is dropped only with telling it to go.
LEMMA StreamStep ==
  ASSUME TypeOK, [Next]_vars, NEW c \in Ids
  PROVE  \/ UNCHANGED Stream(c)
         \/ \E p \in Inbound[c] : Stream(c)' = Append(Stream(c), p)
         \/ Stream(c) # <<>> /\ Stream(c)' = Tail(Stream(c))
         \/ handle'[c].sentDC /\ Stream(c)' = handle[c].received
<1>1. /\ handle[c] \in Handle
      /\ handle[c].received \in Seq(Packet) /\ handle[c].incoming \in Seq(Packet)
  BY DEF TypeOK, Handle
<1>2. CASE SamePackets(c)
  BY <1>2 DEF SamePackets, Stream
<1>3. CASE ReceivePacket(c)
  <2>1. PICK p \in Inbound[c], n \in ResetTicks(c) :
          handle' = [handle EXCEPT ![c].incoming = Append(@, p), ![c].ticks = n]
    BY <1>3 DEF ReceivePacket
  <2>2. /\ handle'[c].received = handle[c].received
        /\ handle'[c].incoming = Append(handle[c].incoming, p)
    BY <1>1, <2>1 DEF TypeOK, Handle
  <2>3. p \in Packet
    BY InboundTypes
  <2>4. Stream(c)' = Append(Stream(c), p)
    <3> DEFINE r == handle[c].received
               i == handle[c].incoming
    <3>1. r \in Seq(Packet) /\ i \in Seq(Packet)
      BY <1>1
    <3>2. Stream(c) = r \o i /\ Stream(c)' = r \o Append(i, p)
      BY <2>2 DEF Stream
    <3> HIDE DEF r, i
    <3>3. r \o Append(i, p) = Append(r \o i, p)
      BY <2>3, <3>1, Buffers
    <3> QED
      BY <3>2, <3>3
  <2> QED
    BY <2>4
<1>4. CASE TakeIncoming(c)
  <2> DEFINE h == handle[c]
             taken == [h EXCEPT !.incoming = <<>>]
             fits == Len(h.received) + Len(h.incoming) <= BufferSize
  <2>1. handle'[c] = IF h.incoming = <<>> THEN h
                     ELSE IF fits THEN [taken EXCEPT !.received = @ \o h.incoming]
                     ELSE Disconnect(taken)
    BY <1>4 DEF TakeIncoming, TypeOK
  <2>2. /\ taken \in Handle
        /\ taken.received = h.received /\ taken.incoming = <<>>
    <3>1. <<>> \in Seq(Packet)
      OBVIOUS
    <3>2. taken \in Handle
      BY <1>1, <3>1, FieldTypes
    <3>3. taken.received = h.received
      BY <1>1 DEF Handle
    <3>4. taken.incoming = <<>>
      BY <1>1 DEF Handle
    <3> QED
      BY <3>2, <3>3, <3>4
  <2>3. /\ Disconnect(taken).received = h.received
        /\ Disconnect(taken).incoming = <<>>
        /\ Disconnect(taken).sentDC
    <3>1. Disconnect(taken).sentDC
      BY <2>2 DEF Disconnect, Handle
    <3> QED
      BY <2>2, <3>1, HandleFrames
  <2>4. /\ [taken EXCEPT !.received = @ \o h.incoming].received = h.received \o h.incoming
        /\ [taken EXCEPT !.received = @ \o h.incoming].incoming = <<>>
    BY <2>2 DEF Handle
  <2> HIDE DEF taken, fits
  <2>5. CASE h.incoming = <<>>
    BY <2>1, <2>5 DEF Stream
  <2>6. CASE h.incoming # <<>> /\ fits
    <3>1. Stream(c)' = (h.received \o h.incoming) \o <<>>
      BY <2>1, <2>4, <2>6 DEF Stream
    <3> QED
      BY <1>1, <3>1, Buffers DEF Stream
  <2>7. CASE h.incoming # <<>> /\ ~fits
    <3>1. Stream(c)' = h.received \o <<>> /\ handle'[c].sentDC
      BY <2>1, <2>3, <2>7 DEF Stream
    <3> QED
      BY <1>1, <3>1, Buffers
  <2> QED
    BY <2>5, <2>6, <2>7
<1>5. CASE /\ handle[c].received # <<>>
           /\ handle'[c].incoming = handle[c].incoming
           /\ handle'[c].received = Tail(handle[c].received)
  <2> DEFINE r == handle[c].received
             i == handle[c].incoming
  <2>1. r \in Seq(Packet) /\ i \in Seq(Packet) /\ r # <<>>
    BY <1>1, <1>5
  <2>2. Stream(c) = r \o i /\ Stream(c)' = Tail(r) \o i
    BY <1>5 DEF Stream
  <2> HIDE DEF r, i
  <2>3. r \o i # <<>> /\ Tail(r) \o i = Tail(r \o i)
    BY <2>1, Buffers
  <2>4. Stream(c) # <<>> /\ Stream(c)' = Tail(Stream(c))
    BY <2>2, <2>3
  <2> QED
    BY <2>4
<1> QED
  BY <1>2, <1>3, <1>4, <1>5, ParserPackets, PacketsWritten

\* No packet of a client is lost, doubled or overtaken between its arrival and
\* its handler, unless the client is told to go.
THEOREM StreamsAreKept == Spec => StreamKept
<1>1. TypeOK /\ [Next]_vars
        => \A c \in Ids :
             \/ UNCHANGED Stream(c)
             \/ \E p \in Inbound[c] : Stream(c)' = Append(Stream(c), p)
             \/ Stream(c) # <<>> /\ Stream(c)' = Tail(Stream(c))
             \/ handle'[c].sentDC /\ Stream(c)' = handle[c].received
  BY StreamStep
<1> QED
  BY <1>1, TypeCorrect, PTL DEF Spec, StreamKept

-----------------------------------------------------------------------------
(* The contract on m_Clients *)

\* A client dies by a call of Destroy() for it, and a dead one is brought back
\* by the thread that holds m_CSClients, while it is in m_Clients.
LEMMA LifeMoves ==
  ASSUME TypeOK, Locks, [Next]_vars, NEW c \in Ids
  PROVE  /\ handle'[c].state >= csDestroying /\ ~(handle[c].state >= csDestroying)
              => \E t \in Thread : /\ DestroyOnce(t) \/ SetDestroyed(t)
                                  /\ call[t] # NoCall /\ call[t].id = c
         /\ handle[c].state >= csDestroying /\ ~(handle'[c].state >= csDestroying)
              => lock \in {"tick", "auth"} /\ c \in clients
         /\ \A t \in Thread : SetDestroyed(t) /\ call[t].id = c
                             => handle'[c].state = csDestroyed
<1>1. ASSUME NEW t \in Thread, DestroyOnce(t) \/ SetDestroyed(t)
      PROVE  call[t] # NoCall
  BY <1>1 DEF DestroyOnce, SetDestroyed, NoCall
<1>2. /\ tick.pc \in {"packets", "promoting"} /\ tick.cur = c
           => lock = "tick" /\ c \in clients
      /\ auth.pc = "named" /\ auth.req.id = c => lock = "auth" /\ c \in clients
  BY DEF Locks, Ids
<1>3. handle[c].state \in 0 .. 5 /\ handle'[c].state \in 0 .. 5
  BY NextTypeOK DEF TypeOK, Handle, csConnected, csDestroyed
<1>4. ASSUME NEW t \in Thread, SetDestroyed(t), call[t].id = c
      PROVE  handle'[c].state = csDestroyed
  BY <1>4 DEF SetDestroyed, TypeOK, Handle
<1> QED
  BY <1>1, <1>2, <1>3, <1>4, StateMoves
  DEF csAuthenticating, csAuthenticated, csWorking, csDestroying, csDestroyed

\* What Lives says of single clients.
LEMMA ClientLives ==
  ASSUME TypeOK, Fresh, Locks, Connections, Lives, [Next]_vars, NEW c \in Ids
  PROVE  /\ Listed(c)' /\ c \notin clients' => handle'[c].state >= csDestroying
         /\ handle'[c].state >= csDestroying
              => /\ ~handle'[c].link
                 /\ socket'[c] => main'.pc \in {"clients", "done"}
<1>1. /\ \A t \in Thread : call[t] # NoCall /\ call[t].id = c => Listed(c)
      /\ socket[c] => Listed(c)
      /\ c \in clients => Listed(c)
  BY ListedGrows DEF Connections
<1>2. ASSUME handle'[c].state >= csDestroying PROVE c # accepting
  <2>1. c = accepting => ~(handle[c].state >= csDestroying)
    BY DEF Fresh, Untouched, csConnected, csDestroying
  <2>2. c = accepting => \A t \in Thread : call[t] = NoCall
    BY DEF Connections, Thread, Ids
  <2> QED
    BY <1>2, <2>1, <2>2, LifeMoves
<1>3. ASSUME Listed(c)', c \notin clients' PROVE handle'[c].state >= csDestroying
  <2>1. CASE c \in clients
    <3>1. CASE RemoveDestroyed(c)
      BY <3>1 DEF RemoveDestroyed, IsDestroyed, csDestroying, csDestroyed
    <3>2. CASE ClearClients
      <4>1. main.pc = "clients" /\ c \notin main.todo /\ call["main"] = NoCall
        BY <3>2 DEF ClearClients
      <4>2. call["main"] # [at |-> "entered", id |-> c]
        BY <4>1 DEF NoCall
      <4> QED
        BY <2>1, <3>2, <4>1, <4>2 DEF Lives, ClearClients
    <3> QED
      BY <1>3, <2>1, <3>1, <3>2, ClientsShrink
  <2>2. CASE c \notin clients
    <3>1. Listed(c)
      BY <1>3, <2>2, ListedGrows DEF ListClient
    <3> QED
      BY <2>2, <3>1, LifeMoves DEF Lives
  <2> QED
    BY <2>1, <2>2
<1>4. ASSUME handle'[c].state >= csDestroying, socket'[c]
      PROVE  main'.pc \in {"clients", "done"}
  <2>1. CASE handle[c].state >= csDestroying
    <3>1. main.pc \in {"clients", "done"}
      BY <1>2, <1>4, <2>1, SocketMoves DEF Lives
    <3>2. main = [pc |-> main.pc, todo |-> main.todo]
      BY DEF TypeOK
    <3> QED
      BY <3>1, <3>2, MainMoves
      DEF CloseListener, AskRestart, TickThreadEnded, ClearClients, DestroyNext
  <2>2. CASE ~(handle[c].state >= csDestroying)
    <3>1. PICK t \in Thread : /\ DestroyOnce(t) \/ SetDestroyed(t)
                              /\ call[t] # NoCall /\ call[t].id = c
      BY <1>4, <2>2, LifeMoves
    <3>2. UNCHANGED main
      BY <3>1 DEF DestroyOnce, SetDestroyed
    <3>3. CASE t = "event"
      <4>1. ~socket[c]
        BY <3>1, <3>3 DEF Connections
      <4> QED
        BY <1>2, <1>4, <4>1, SocketMoves
    <3>4. CASE t = "main"
      BY <3>1, <3>2, <3>4 DEF Connections
    <3> QED
      BY <3>3, <3>4 DEF Thread
  <2> QED
    BY <2>1, <2>2
<1>5. ASSUME handle'[c].state >= csDestroying PROVE ~handle'[c].link
  <2>1. CASE CloseConnection(c) \/ DestroyNext(c)
    <3>1. handle' = [handle EXCEPT ![c].link = FALSE]
      BY <2>1 DEF CloseConnection, DestroyNext
    <3> QED
      BY <3>1 DEF TypeOK, Handle
  <2>2. CASE ~CloseConnection(c) /\ ~DestroyNext(c)
    <3>1. ~handle[c].link
      BY <1>5, LifeMoves DEF Lives
    <3> QED
      BY <1>2, <1>5, <2>2, <3>1, LinkMoves
  <2> QED
    BY <2>1, <2>2
<1> QED
  BY <1>3, <1>4, <1>5

\* Destroy() is called when the link is gone, and Shutdown() calls it for all.
LEMMA LivesStep ==
  TypeOK /\ Fresh /\ Locks /\ Connections /\ Lives /\ [Next]_vars => Lives'
<1> SUFFICES ASSUME TypeOK, Fresh, Locks, Connections, Lives, [Next]_vars
             PROVE  Lives'
  OBVIOUS
<1>1. ASSUME NEW t \in Thread, call'[t] # NoCall PROVE ~handle'[call'[t].id].link
  <2>1. ASSUME NEW c \in Ids, CloseConnection(c) \/ DestroyNext(c)
        PROVE  ~handle'[c].link
    <3>1. handle' = [handle EXCEPT ![c].link = FALSE]
      BY <2>1 DEF CloseConnection, DestroyNext
    <3> QED
      BY <3>1 DEF TypeOK, Handle
  <2>2. ASSUME call[t] # NoCall, call'[t].id = call[t].id
        PROVE  ~handle'[call'[t].id].link
    <3>1. call[t].id \in Ids /\ Listed(call[t].id) /\ ~handle[call[t].id].link
      BY <2>2 DEF TypeOK, DestroyCall, Connections, Lives
    <3>2. call[t].id # accepting
      BY <2>2, <3>1 DEF Connections, Thread, Ids
    <3> QED
      BY <2>1, <2>2, <3>1, <3>2, LinkMoves
  <2> QED
    BY <1>1, <2>1, <2>2, CallMoves
<1>2. ASSUME main'.pc = "clients", NEW c \in clients' \ main'.todo
      PROVE  \/ handle'[c].state >= csDestroying
             \/ call'["main"] = [at |-> "entered", id |-> c]
  <2>0. /\ c \in Ids /\ main = [pc |-> main.pc, todo |-> main.todo]
        /\ call \in [Thread -> DestroyCall] /\ "main" \in Thread
    BY NextTypeOK DEF TypeOK, Thread
  <2>1. CASE TickThreadEnded
    BY <1>2, <2>1 DEF TickThreadEnded
  <2>2. CASE ~TickThreadEnded
    <3>1. main.pc = "clients"
      BY <1>2, <2>0, <2>2, MainMoves DEF CloseListener, AskRestart, ClearClients, DestroyNext
    <3>2. c \in clients
      BY <2>0, <3>1, NoneAccepted DEF Connections
    <3>3. CASE DestroyNext(c)
      BY <2>0, <3>3 DEF DestroyNext
    <3>4. CASE ~DestroyNext(c)
      <4>1. c \notin main.todo
        BY <1>2, <2>0, <3>1, <3>4, MainMoves
        DEF CloseListener, AskRestart, TickThreadEnded, ClearClients, DestroyNext
      <4>2. CASE handle[c].state >= csDestroying
        BY <2>0, <3>1, <4>2, LifeMoves DEF Locks
      <4>3. CASE call["main"] = [at |-> "entered", id |-> c]
        <5>1. call["main"] # NoCall /\ call["main"].at = "entered" /\ call["main"].id = c
          BY <4>3 DEF NoCall
        <5>2. ~SetDestroyed("main") /\ ~BroadcastDestroyed("main")
          BY <5>1 DEF SetDestroyed, BroadcastDestroyed
        <5>3. ASSUME NEW d \in Ids PROVE ~DestroyNext(d)
          BY <5>1 DEF DestroyNext
        <5>4. CASE DestroyOnce("main")
          <6>1. \/ handle[c].state >= csDestroying /\ UNCHANGED handle
                \/ handle' = [handle EXCEPT ![c].state = csDestroying]
            BY <5>1, <5>4 DEF DestroyOnce
          <6>2. csDestroying >= csDestroying
            BY DEF csDestroying
          <6> QED
            BY <2>0, <6>1, <6>2 DEF TypeOK, Handle
        <5> QED
          BY <2>0, <4>3, <5>2, <5>3, <5>4, CallMoves
      <4> QED
        BY <3>1, <3>2, <4>1, <4>2, <4>3 DEF Lives
    <3> QED
      BY <3>3, <3>4
  <2> QED
    BY <2>1, <2>2
<1> QED
  BY <1>1, <1>2, ClientLives DEF Lives

\* m_CSClients changes hands where a thread's work on m_Clients begins or ends.
LEMMA LockWritten ==
  ASSUME TypeOK, [Next]_vars
  PROVE  \/ UNCHANGED lock
         \/ StartTick \/ EndTick \/ Authenticate \/ BroadcastAuthenticated
         \/ TickThreadEnded \/ ClearClients
<1>1. ASSUME NEW c \in Ids,
             \/ ReceivePacket(c) \/ CloseConnection(c) \/ RemoveDestroyed(c)
             \/ TakeIncoming(c) \/ DestroyNext(c)
      PROVE  UNCHANGED lock
  BY <1>1
  DEF ReceivePacket, CloseConnection, RemoveDestroyed, TakeIncoming, DestroyNext,
      TickUnchanged
<1>2. ASSUME \/ Accepting \/ TakeRequest \/ KickUser \/ DropAnswer
             \/ SetAuthenticated \/ StopAuthenticator \/ CloseListener \/ AskRestart
      PROVE  UNCHANGED lock
  BY <1>2
  DEF Accepting, AcceptConnection, ListClient, CreateLink, TakeRequest, KickUser,
      DropAnswer, SetAuthenticated, StopAuthenticator, CloseListener, AskRestart
<1>3. ASSUME NEW t, DestroyOnce(t) \/ SetDestroyed(t) \/ BroadcastDestroyed(t)
      PROVE  UNCHANGED lock
  BY <1>3 DEF DestroyOnce, SetDestroyed, BroadcastDestroyed
<1> QED
  BY <1>1, <1>2, <1>3, ServerTickFrame
  DEF Next, Peers, Accepting, Tick, Authenticator, Shutdown, ServerStopped,
      ServerStuck, Destroy, Thread, vars

\* Every step is one that ClientList allows, or none for it.
LEMMA ListStep ==
  ASSUME TypeOK, Fresh, Locks, Connections, Lives, [Next]_vars
  PROVE  [List!Next]_(List!listVars)
<1> DEFINE Linked == {c \in Ids : handle[c].link}
           Dead == {c \in Ids : handle[c].state >= csDestroying}
           Entering == {accepting} \cap clients
<1> USE DEF List!listVars, List!Free
<1>0. clients \subseteq Ids /\ clients' \subseteq Ids /\ accepting \in Ids \cup {0}
  BY NextTypeOK DEF TypeOK
<1>1. CASE Accepting
  <2>1. accepting \in Ids
          => accepting \notin Linked \cup Dead /\ handle[accepting].state = csConnected
    BY DEF Fresh, Untouched, csConnected, csDestroying
  <2>2. CASE ListClient
    <3>1. /\ accepting \in Ids /\ accepting \notin clients /\ lock = "free"
          /\ clients' = clients \cup {accepting}
          /\ UNCHANGED <<handle, lock, accepting>>
      BY <1>0, <2>2 DEF ListClient
    <3>2. Entering = {} /\ Entering' = {accepting}
      BY <3>1
    <3> QED
      BY <2>1, <3>1, <3>2 DEF List!Next, List!Enter
  <2>3. CASE CreateLink
    <3>1. /\ accepting \in clients /\ accepting \in Ids /\ accepting' = 0
          /\ handle' = [handle EXCEPT ![accepting].link = TRUE]
          /\ UNCHANGED <<clients, lock>>
      BY <1>0, <2>3 DEF CreateLink
    <3>2. Entering = {accepting} /\ Entering' = {}
      BY <1>0, <3>1 DEF Ids
    <3>3. \A c \in Ids : /\ handle'[c].state = handle[c].state
                         /\ handle'[c].link = (handle[c].link \/ c = accepting)
      BY <3>1 DEF TypeOK, Handle
    <3>4. Linked' = Linked \cup {accepting} /\ Dead' = Dead
      BY <3>1, <3>3
    <3> QED
      BY <3>1, <3>2, <3>4 DEF List!Next, List!Link
  <2>4. CASE AcceptConnection
    <3>1. /\ accepting = 0 /\ accepting' = count + 1 /\ accepting' > count
          /\ UNCHANGED <<clients, handle, lock>>
      BY <2>4 DEF AcceptConnection, EventIdle, TypeOK
    <3>2. Entering = {} /\ Entering' = {}
      BY <1>0, <3>1 DEF Fresh, Ids
    <3> QED
      BY <3>1, <3>2
  <2> QED
    BY <1>1, <2>2, <2>3, <2>4 DEF Accepting
<1>2. ASSUME UNCHANGED accepting, clients' \subseteq clients PROVE Entering' = Entering
  <2>1. ASSUME accepting \in clients PROVE accepting \in clients'
    <3>1. ~ClearClients
      BY <1>0, <2>1 DEF ClearClients, Connections, Ids
    <3>2. handle[accepting].state = csConnected
      BY <1>0, <2>1 DEF Fresh, Untouched
    <3>3. ~RemoveDestroyed(accepting)
      BY <3>2 DEF RemoveDestroyed, IsDestroyed, csConnected, csDestroyed
    <3> QED
      BY <2>1, <3>1, <3>3, ClientsShrink
  <2> QED
    BY <1>2, <2>1
<1>3. ASSUME NEW c \in Ids, CloseConnection(c) \/ DestroyNext(c)
      PROVE  [List!Next]_(List!listVars)
  <2>1. handle' = [handle EXCEPT ![c].link = FALSE] /\ UNCHANGED <<clients, lock>>
    BY <1>3 DEF CloseConnection, DestroyNext
  <2> DEFINE g == [handle[c] EXCEPT !.link = FALSE]
  <2>2. /\ handle' = [handle EXCEPT ![c] = g]
        /\ g.state = handle[c].state /\ ~g.link
    BY <2>1 DEF TypeOK, Handle
  <2> HIDE DEF g
  <2>3. \A d \in Ids : /\ handle'[d].state = handle[d].state
                       /\ handle'[d].link = (handle[d].link /\ d # c)
    <3>1. handle'[c].state = handle[c].state /\ ~handle'[c].link
      BY <2>2 DEF TypeOK
    <3>2. \A d \in Ids : d # c => handle'[d] = handle[d]
      BY <2>2 DEF TypeOK
    <3>3. \A d \in Ids : handle[d].link \in BOOLEAN /\ handle'[d].link \in BOOLEAN
      BY NextTypeOK DEF TypeOK, Handle
    <3> QED
      BY <3>1, <3>2, <3>3
  <2>4. Linked' = Linked \ {c} /\ Dead' = Dead
    BY <2>3
  <2>5. Entering' = Entering
    <3>1. accepting' = accepting
      BY <1>3 DEF CloseConnection, DestroyNext, netVars
    <3> QED
      BY <2>1, <3>1
  <2> QED
    BY <2>1, <2>4, <2>5 DEF List!Next, List!Unlink
<1>4. ASSUME NEW t \in Thread, DestroyOnce(t) \/ SetDestroyed(t)
      PROVE  [List!Next]_(List!listVars)
  <2> DEFINE c == call[t].id
  <2>2. /\ c \in Ids /\ Listed(c) /\ ~handle[c].link /\ accepting = 0
        /\ UNCHANGED <<clients, lock, accepting>>
    <3>1. call[t] # NoCall
      BY <1>4 DEF DestroyOnce, SetDestroyed, NoCall
    <3>2. c \in Ids
      BY <3>1 DEF TypeOK, DestroyCall
    <3>3. Listed(c) /\ ~handle[c].link /\ accepting = 0
      BY <3>1 DEF Connections, Lives, Thread
    <3> QED
      BY <1>4, <3>2, <3>3 DEF DestroyOnce, SetDestroyed, netVars
  <2>1. Entering = {} /\ Entering' = {}
    BY <1>0, <2>2 DEF Ids
  <2>3. \/ UNCHANGED handle
        \/ \E st \in {csDestroying, csDestroyed} :
             handle' = [handle EXCEPT ![c].state = st]
    BY <1>4 DEF DestroyOnce, SetDestroyed
  <2>4. CASE UNCHANGED handle
    BY <2>2, <2>4, <2>1
  <2>5. CASE ~UNCHANGED handle
    <3>0. PICK st \in {csDestroying, csDestroyed} :
            handle' = [handle EXCEPT ![c].state = st]
      BY <2>3, <2>5
    <3> HIDE DEF c
    <3>1. \A d \in Ids : handle'[d].link = handle[d].link
      BY <3>0 DEF TypeOK, Handle
    <3>2. handle'[c].state >= csDestroying
      <4>1. handle'[c].state = st
        BY <2>2, <3>0 DEF TypeOK, Handle
      <4> QED
        BY <4>1 DEF csDestroying, csDestroyed
    <3>3. \A d \in Ids \ {c} : handle'[d].state = handle[d].state
      BY <3>0 DEF TypeOK
    <3>4. Linked' = Linked \ {c} /\ Dead' = Dead \cup {c}
      BY <2>2, <3>1, <3>2, <3>3
    <3>5. CASE c \in clients
      BY <2>2, <2>1, <3>4, <3>5 DEF List!Next, List!Kill
    <3>6. CASE c \notin clients
      <4>1. c \in Dead
        BY <2>2, <3>6 DEF Lives
      <4>2. Linked' = Linked /\ Dead' = Dead
        BY <2>2, <3>4, <4>1
      <4> QED
        BY <2>2, <2>1, <4>2
    <3> QED
      BY <3>5, <3>6
  <2> QED
    BY <2>4, <2>5
<1>5. ASSUME NEW c \in Ids, RemoveDestroyed(c) PROVE [List!Next]_(List!listVars)
  <2>1. /\ clients' = clients \ {c} /\ UNCHANGED <<handle, lock>>
        /\ handle[c].state >= csDestroying
    BY <1>5
    DEF RemoveDestroyed, IsDestroyed, csDestroying, csDestroyed
  <2>2. lock = "tick"
    BY <1>5 DEF RemoveDestroyed, NextClient, Locks
  <2>3. Entering' = Entering
    <3>1. UNCHANGED accepting
      BY <1>5 DEF RemoveDestroyed, netVars
    <3> QED
      BY <1>2, <2>1, <3>1
  <2> QED
    BY <2>1, <2>2, <2>3 DEF List!Next, List!Remove
<1>6. CASE StartTick \/ EndTick \/ TickThreadEnded
  <2>1. UNCHANGED <<clients, handle, accepting>>
    BY <1>6 DEF StartTick, EndTick, TickThreadEnded, netVars
  <2>2. \/ lock = "free" /\ lock' \in {"tick", "main"}
        \/ lock' = "free"
    BY <1>6 DEF StartTick, EndTick, TickThreadEnded
  <2> QED
    BY <2>1, <2>2 DEF List!Next, List!Take, List!Release
<1>7. CASE ClearClients
  <2>1. /\ main.pc = "clients" /\ main.todo = {} /\ call["main"] = NoCall
        /\ clients' = {} /\ lock' = "free" /\ UNCHANGED handle
    BY <1>7 DEF ClearClients
  <2>2. clients \subseteq Dead
    <3>1. \A c \in Ids : call["main"] # [at |-> "entered", id |-> c]
      BY <2>1 DEF NoCall
    <3> QED
      BY <1>0, <2>1, <3>1 DEF Lives
  <2>3. lock = "main"
    BY <2>1 DEF Locks
  <2>4. Entering' = Entering
    BY <1>2, <1>7, <2>1 DEF ClearClients, netVars
  <2> QED
    BY <2>1, <2>2, <2>3, <2>4 DEF List!Next, List!Clear
<1>8. CASE Authenticate \/ BroadcastAuthenticated
  <2>1. /\ ~CreateLink
        /\ \A c \in Ids : ~CloseConnection(c) /\ ~DestroyNext(c)
    <3>1. auth' # auth
      BY <1>8
      DEF Authenticate, BroadcastAuthenticated, AuthIdle, AuthGoto, TypeOK, AuthPosition
    <3> QED
      BY <3>1 DEF CreateLink, CloseConnection, DestroyNext
  <2>2. Linked' = Linked
    BY <2>1, LinkMoves
  <2>3. \A c \in Ids : handle'[c].state = handle[c].state
    <3>1. CASE Authenticate
      BY <3>1, AuthenticateNames DEF Same, SameState
    <3>2. CASE BroadcastAuthenticated
      BY <3>2 DEF BroadcastAuthenticated, BroadcastUserInfo, TypeOK, Handle
    <3> QED
      BY <1>8, <3>1, <3>2
  <2>4. Dead' = Dead /\ UNCHANGED <<clients, accepting>>
    BY <1>8, <2>3 DEF Authenticate, BroadcastAuthenticated, netVars
  <2>5. \/ lock = "free" /\ lock' = "auth"
        \/ lock' = "free"
    BY <1>8 DEF Authenticate, BroadcastAuthenticated
  <2> QED
    BY <2>2, <2>4, <2>5 DEF List!Next, List!Take, List!Release
<1>9. ASSUME ~Accepting,
             \A c \in Ids : ~CloseConnection(c) /\ ~DestroyNext(c) /\ ~RemoveDestroyed(c),
             \A t \in Thread : ~DestroyOnce(t) /\ ~SetDestroyed(t),
             UNCHANGED lock, ~ClearClients
      PROVE  [List!Next]_(List!listVars)
  <2>1. UNCHANGED clients /\ Entering' = Entering
    BY <1>2, <1>9, ClientsWritten, ClientsShrink
  <2>2. Linked' = Linked
    BY <1>9, LinkMoves DEF Accepting
  <2>3. Dead' \subseteq Dead
    BY <1>9, LifeMoves
  <2>4. CASE Dead' = Dead
    BY <1>9, <2>1, <2>2, <2>4
  <2>5. ASSUME NEW c \in Dead, c \notin Dead' PROVE [List!Next]_(List!listVars)
    <3>1. c \in Ids /\ lock \in {"tick", "auth"} /\ c \in clients
      BY <2>5, LifeMoves
    <3>2. ASSUME NEW d \in Ids, handle'[d].state # handle[d].state
          PROVE  \/ lock = "tick" /\ d = tick.cur
                 \/ lock = "auth" /\ d = auth.req.id
      BY <1>9, <3>2, StateMoves DEF Locks
    <3>3. \A d \in Ids \ {c} : handle'[d].state = handle[d].state
      BY <2>5, <3>1, <3>2
    <3>4. Dead' = Dead \ {c}
      BY <2>3, <2>5, <3>3
    <3> QED
      BY <1>9, <2>1, <2>2, <3>1, <3>4 DEF List!Next, List!Revive
  <2> QED
    BY <2>3, <2>4, <2>5
<1> QED
  BY <1>1, <1>3, <1>4, <1>5, <1>6, <1>7, <1>8, <1>9, LockWritten

\* At the start nobody is connected, and nothing is said of anybody.
LEMMA InitContract == Init => Lives /\ UniqueNames /\ Proved /\ RemovedIsDestroyed
<1> SUFFICES ASSUME Init PROVE Lives /\ UniqueNames /\ Proved /\ RemovedIsDestroyed
  OBVIOUS
<1>1. Lives
  <2>1. \A c \in Ids : ~Listed(c)
    BY DEF Init, Listed, Ids
  <2>2. \A c \in Ids : handle[c].state = csConnected
    BY DEF Init, NewHandle
  <2> QED
    BY <2>1, <2>2 DEF Init, Lives, Thread, csConnected, csDestroying
<1>2. UniqueNames /\ Proved
  BY DEF Init, UniqueNames, Proved, Vouched, HasName, NewHandle, NoRequest
<1>3. RemovedIsDestroyed
  BY DEF Init, RemovedIsDestroyed, Listed, Ids
<1> QED
  BY <1>1, <1>2, <1>3

\* The chat server keeps to ClientList, on which Links relies: a client enters
\* m_Clients without a link, nothing can end it before it has got one, and who
\* leaves has none, is dead, and is taken out by the thread that holds m_CSClients.
THEOREM ServerKeepsClientList == Spec => KeepsClientList
<1>1. Init => List!Init
  BY DEF Init, List!Init, List!Free, NewHandle, csConnected, csDestroying
<1> QED
  BY <1>1, InitContract, InitRoster, FreshStep, PhasesStep, LocksStep, ConnectionsStep,
     LivesStep, ListStep, TypeCorrect, PTL DEF Spec, KeepsClientList, List!Spec

\* A client that has left m_Clients, whoever still holds it, has no m_Link: the
\* link went before, and no thread that revives the client brings it back.
THEOREM OnlyListedHaveLinks == Spec => [](\A c \in Ids : handle[c].link => c \in clients)
<1>1. TypeOK /\ Fresh /\ Lives => \A c \in Ids : handle[c].link => c \in clients
  <2> SUFFICES ASSUME TypeOK, Fresh, Lives, NEW c \in Ids, handle[c].link
               PROVE  c \in clients
    OBVIOUS
  <2>1. ~(c > count) /\ c # accepting
    BY DEF Fresh, Untouched
  <2>2. Listed(c)
    BY <2>1 DEF Listed, TypeOK, Ids
  <2> QED
    BY <2>2 DEF Lives
<1> QED
  BY <1>1, InitContract, InitRoster, FreshStep, PhasesStep, LocksStep, ConnectionsStep,
     LivesStep, TypeCorrect, PTL DEF Spec

-----------------------------------------------------------------------------
(* The directory of users *)

\* What is told of a client is true: a name it has while it is a member, or that
\* it is gone when its connection is, or the server is closing.
LEMMA ToldIsTrue ==
  ASSUME TypeOK, Fresh, Connections, RemovedIsDestroyed, Lives,
         NEW e \in Ids, BroadcastUserInfo(e), Listed(e), NEW r \in Ids, NEW d \in Ids,
         roster'[r][d] # roster[r][d]
  PROVE  /\ Listed(r) /\ ~handle[r].sentDC /\ Listed(d) /\ r # d
         /\ roster'[r][d] \in Dir!Truth(d)
<1>1. d \in Subjects(e, r) /\ roster'[r][d] = Report(d)
  BY DEF BroadcastUserInfo
<1>2. /\ ~handle[r].sentDC /\ r # d
      /\ \/ r \in clients /\ d = e
         \/ r = e /\ d \in clients
  BY <1>1 DEF Subjects
<1>3. \A c \in clients : c \in Ids /\ Listed(c)
  BY DEF TypeOK, Fresh, Listed, Ids
<1>4. Listed(r) /\ Listed(d)
  BY <1>2, <1>3
<1>5. CASE handle[d].state > csWorking
  <2>1. Report(d) = Offline
    BY <1>5 DEF Report
  <2>2. handle[d].state >= csDestroying
    <3>1. handle[d].state \in 0 .. 5
      BY DEF TypeOK, Handle, csConnected, csDestroyed
    <3> QED
      BY <1>5, <3>1 DEF csWorking, csDestroying
  <2>3. ~socket[d] \/ main.pc \in {"clients", "done"}
    BY <2>2 DEF Lives
  <2>4. d # accepting
    BY <2>2 DEF Fresh, Untouched, csConnected, csDestroying
  <2> QED
    BY <1>1, <1>2, <1>4, <2>1, <2>3, <2>4 DEF Dir!Truth, Dir!Gone
<1>6. CASE ~(handle[d].state > csWorking)
  <2>1. Report(d) = handle[d].name
    BY <1>6 DEF Report
  <2>2. d \in clients
    <3>1. main.pc # "done"
      BY <1>2 DEF Connections
    <3>2. handle[d].state # csDestroyed
      BY <1>6 DEF csWorking, csDestroyed
    <3> QED
      BY <1>4, <3>1, <3>2 DEF RemovedIsDestroyed
  <2> QED
    BY <1>1, <1>2, <1>4, <2>1, <2>2 DEF Dir!Truth
<1> QED
  BY <1>5, <1>6

\* Apart from eight kinds of steps nobody joins, leaves, connects, gets or shows a
\* name, and the server does not close.
LEMMA DirectoryFrame ==
  ASSUME TypeOK, Fresh, Connections, [Next]_vars, ~ListClient, ~CreateLink,
         \A c \in Ids : ~CloseConnection(c) /\ ~ReceivePacket(c) /\ ~RemoveDestroyed(c),
         ~Authenticate, ~TickThreadEnded, ~ClearClients
  PROVE  /\ UNCHANGED <<clients, socket, shown>>
         /\ \A c \in Ids : handle'[c].name = handle[c].name
         /\ \A c \in Ids : /\ Listed(c)' = Listed(c)
                           /\ (Listed(c) /\ c # accepting)' = (Listed(c) /\ c # accepting)
         /\ (main'.pc \in {"clients", "done"}) = (main.pc \in {"clients", "done"})
<1>1. clients \subseteq Ids /\ clients' \subseteq Ids
  BY NextTypeOK DEF TypeOK
<1>2. UNCHANGED clients
  BY <1>1, ClientsShrink, ClientsGrow
<1>3. UNCHANGED <<socket, shown>>
  <2>1. CASE Ids = {}
    BY <2>1, NextTypeOK DEF TypeOK
  <2>2. CASE Ids # {}
    BY <2>2, SocketMoves, ShownGrows
  <2> QED
    BY <2>1, <2>2
<1>4. \A c \in Ids : handle'[c].name = handle[c].name
  BY NamesWritten DEF SameName
<1>5. ASSUME NEW c \in Ids
      PROVE  /\ Listed(c)' = Listed(c)
             /\ (Listed(c) /\ c # accepting)' = (Listed(c) /\ c # accepting)
  <2>1. Listed(c)' = Listed(c)
    BY ListedGrows DEF Listed
  <2>2. CASE AcceptConnection
    <3>1. accepting = 0 /\ accepting' > count
      BY <2>2 DEF AcceptConnection, EventIdle, TypeOK
    <3> QED
      BY <2>1, <3>1 DEF Listed, TypeOK, Ids
  <2>3. CASE ~AcceptConnection
    BY <2>1, <2>3, ClientsWritten DEF Accepting
  <2> QED
    BY <2>2, <2>3
<1>6. (main'.pc \in {"clients", "done"}) = (main.pc \in {"clients", "done"})
  <2>1. main = [pc |-> main.pc, todo |-> main.todo]
    BY DEF TypeOK
  <2>2. ASSUME NEW c \in Ids, DestroyNext(c)
        PROVE  main.pc = "clients" /\ main'.pc = "clients"
    BY <2>1, <2>2 DEF DestroyNext
  <2>3. ASSUME CloseListener \/ AskRestart
        PROVE  main.pc \in {"run", "closing"} /\ main'.pc \in {"closing", "wait"}
    BY <2>1, <2>3 DEF CloseListener, AskRestart
  <2> QED
    BY <2>2, <2>3, MainMoves
<1> QED
  BY <1>2, <1>3, <1>4, <1>5, <1>6

\* Every step is one that Directory allows.
LEMMA DirectoryStep ==
  ASSUME Inductive, RemovedIsDestroyed, Lives, [Next]_vars
  PROVE  [Dir!Next]_(Dir!dirVars)
<1> DEFINE Joined == {c \in Ids : Listed(c)}
           Lost == {c \in Ids : Listed(c) /\ c # accepting /\ ~socket[c]}
           Called == [c \in Ids |-> handle[c].name]
           Dismissed == {c \in Ids : handle[c].sentDC}
           Closing == main.pc \in {"clients", "done"}
<1> USE DEF Inductive
<1>1. Dismissed \subseteq Dismissed'
  BY ToldToGo
<1>2. SUFFICES ASSUME ~UNCHANGED vars
               PROVE  \/ Dir!Tell \/ Dir!Close \/ Dir!Clear \/ Dir!Dismiss
                      \/ \E c \in Ids :
                           \/ Dir!Join(c) \/ Dir!Disconnect(c) \/ Dir!Miss(c)
                           \/ Dir!Leave(c)
                           \/ \E n \in Name : Dir!Show(c, n) \/ Dir!LogIn(c, n)
  <2>1. CASE ~UNCHANGED vars
    BY <1>1, <1>2, <2>1 DEF Dir!Next, Name
  <2>2. CASE UNCHANGED vars
    BY <2>2 DEF Dir!dirVars, vars, Listed
  <2> QED
    BY <2>1, <2>2
<1>3. ~Authenticate => Called' = Called
  BY NamesWritten DEF SameName
<1>4. /\ UNCHANGED <<clients, count, accepting>> => Joined' = Joined
      /\ UNCHANGED <<clients, count, accepting, socket>> => Lost' = Lost
  BY DEF Listed
<1>5. CASE ListClient
  <2>1. /\ accepting \in Ids /\ accepting <= count /\ ~Listed(accepting) /\ ~Closing
        /\ clients' = clients \cup {accepting}
        /\ UNCHANGED <<count, accepting, socket, main, shown, roster, auth>>
    BY <1>5 DEF ListClient, TypeOK, Fresh, Connections, Listed
  <2>2. Joined' = Joined \cup {accepting} /\ Lost' = Lost
    BY <2>1 DEF Listed
  <2>3. ~Authenticate
    BY <2>1 DEF Authenticate, AuthGoto, AuthIdle, TypeOK, AuthPosition
  <2> QED
    BY <1>3, <2>1, <2>2, <2>3 DEF Dir!Join
<1>6. CASE CreateLink
  <2>1. /\ accepting \in clients /\ accepting' = 0
        /\ socket' = [socket EXCEPT ![accepting] = TRUE]
        /\ UNCHANGED <<clients, count, main, shown, roster, auth>>
    BY <1>6 DEF CreateLink
  <2>2. Joined' = Joined /\ Lost' = Lost
    BY <2>1 DEF Listed, TypeOK, Ids
  <2>3. ~Authenticate
    BY <2>1 DEF Authenticate, AuthGoto, AuthIdle, TypeOK, AuthPosition
  <2> QED
    BY <1>3, <2>1, <2>2, <2>3 DEF Dir!Dismiss
<1>7. ASSUME NEW c \in Ids, ReceivePacket(c)
      PROVE  Dir!Dismiss \/ \E n \in Name : Dir!Show(c, n)
  <2>1. /\ socket[c] /\ budget' # budget
        /\ UNCHANGED <<clients, socket, main, roster, count, accepting>>
    BY <1>7 DEF ReceivePacket, netVars, TypeOK
  <2>2. PICK p \in Inbound[c] :
          shown' = IF CarriesLogin(p) /\ p.ok
                   THEN [shown EXCEPT ![c] = @ \cup {p.name}] ELSE shown
    BY <1>7 DEF ReceivePacket
  <2>3. ~Authenticate
    BY <2>1 DEF Authenticate, peerVars
  <2>4. CASE CarriesLogin(p) /\ p.ok
    <3>1. p.name \in Name
      BY <2>4, InboundTypes
    <3>2. c \in Joined \ Lost
      BY <2>1 DEF Connections
    <3> QED
      BY <1>3, <1>4, <2>1, <2>2, <2>3, <2>4, <3>1, <3>2 DEF Dir!Show
  <2>5. CASE ~(CarriesLogin(p) /\ p.ok)
    BY <1>3, <1>4, <2>1, <2>2, <2>3, <2>5 DEF Dir!Dismiss
  <2> QED
    BY <2>4, <2>5
<1>8. ASSUME NEW c \in Ids, CloseConnection(c) PROVE Dir!Disconnect(c)
  <2>1. /\ socket' = [socket EXCEPT ![c] = FALSE] /\ socket[c] /\ accepting = 0
        /\ UNCHANGED <<clients, main, shown, roster, count, accepting, auth>>
    BY <1>8 DEF CloseConnection, EventIdle, netVars
  <2>2. Listed(c) /\ Joined' = Joined
    BY <1>4, <2>1 DEF Connections
  <2>3. Lost' = Lost \cup {c}
    BY <2>1, <2>2 DEF TypeOK, Listed, Ids
  <2>4. ~Authenticate
    BY <2>1 DEF Authenticate, AuthGoto, AuthIdle, TypeOK, AuthPosition
  <2> QED
    BY <1>3, <2>1, <2>2, <2>3, <2>4 DEF Dir!Disconnect
<1>9. ASSUME Authenticate, NEW c \in Ids, c = auth.req.id,
             NEW n \in Name, n = auth.req.name
      PROVE  Dir!Dismiss \/ Dir!LogIn(c, n)
  <2>1. /\ c \in clients /\ auth.pc = "verified" /\ auth.req.ok /\ Awaiting(c)
        /\ UNCHANGED <<clients, main, socket, shown, roster, count, accepting>>
    BY <1>9 DEF Authenticate, peerVars, netVars
  <2>2. CASE Called' = Called
    BY <1>4, <2>1, <2>2 DEF Dir!Dismiss
  <2>3. CASE Called' # Called
    <3>1. /\ CheckMultiLogin(n) /\ handle'[c].name = n
          /\ \A d \in Ids \ {c} : handle'[d] = handle[d]
      BY <1>9, <2>3, AuthenticateNames DEF Same, SameName
    <3>2. handle[c].name = NoName
      <4>1. handle[c].proto = psLogin
        BY <2>1 DEF Phases, Awaiting
      <4> QED
        BY <2>1, <4>1 DEF Phases, HasName, psLogin, psWork
    <3>3. n \in shown[c]
      BY <1>9, <2>1 DEF Proved
    <3>4. \A d \in clients : handle[d].name # n
      BY <1>9, <3>1 DEF CheckMultiLogin, Named
    <3>5. Called' = [Called EXCEPT ![c] = n]
      BY <3>1
    <3>6. \A d \in clients : Called[d] # n
      BY <3>4 DEF TypeOK
    <3> QED
      BY <1>4, <2>1, <3>2, <3>3, <3>5, <3>6 DEF Dir!LogIn
  <2> QED
    BY <2>2, <2>3
<1>10. ASSUME NEW c \in Ids, RemoveDestroyed(c) PROVE Dir!Leave(c)
  <2>1. /\ handle[c].state = csDestroyed /\ clients' = clients \ {c}
        /\ c \in tick.todo /\ tick.pc = "next"
        /\ UNCHANGED <<handle, main, socket, shown, roster, count, accepting>>
    BY <1>10 DEF RemoveDestroyed, NextClient, IsDestroyed, peerVars, netVars
  <2>2. c \in clients /\ c # accepting
    BY <2>1 DEF Locks, Fresh, Untouched, csConnected, csDestroyed
  <2>3. Listed(c) /\ (~socket[c] \/ Closing)
    BY <2>1, <2>2, ListedGrows DEF Lives, csDestroying, csDestroyed
  <2>4. Joined' = Joined /\ Lost' = Lost
    <3>1. accepting \in clients => accepting \in clients'
      BY <2>1, <2>2
    <3> QED
      BY <2>1, <3>1 DEF Listed
  <2> QED
    BY <2>1, <2>2, <2>3, <2>4 DEF Dir!Leave, Dir!Gone
<1>11. CASE TickThreadEnded
  <2>1. /\ main'.pc = "clients"
        /\ UNCHANGED <<handle, clients, socket, shown, roster, count, accepting>>
    BY <1>11 DEF TickThreadEnded, peerVars, netVars
  <2> QED
    BY <1>4, <2>1 DEF Dir!Close
<1>12. CASE ClearClients
  <2>1. /\ main.pc = "clients" /\ main'.pc = "done" /\ clients' = {}
        /\ UNCHANGED <<handle, socket, shown, roster, count, accepting>>
    BY <1>12 DEF ClearClients, peerVars, netVars, TypeOK
  <2>2. accepting = 0
    BY <2>1 DEF Connections
  <2>3. Joined' = Joined /\ Lost' = Lost
    BY <2>1, <2>2 DEF Listed, Ids
  <2> QED
    BY <2>1, <2>3 DEF Dir!Clear
<1>13. ASSUME ~ListClient, ~CreateLink, ~Authenticate, ~TickThreadEnded, ~ClearClients,
              \A c \in Ids : /\ ~CloseConnection(c) /\ ~ReceivePacket(c)
                             /\ ~RemoveDestroyed(c)
       PROVE  Dir!Tell \/ Dir!Dismiss \/ \E c \in Ids : Dir!Miss(c)
  <2>1. /\ UNCHANGED <<clients, socket, shown>>
        /\ Called' = Called /\ Joined' = Joined /\ Closing' = Closing
    BY <1>13, DirectoryFrame
  <2>2. Lost' = Lost
    <3>1. UNCHANGED socket
      BY <2>1
    <3>2. \A c \in Ids : (Listed(c) /\ c # accepting)' = (Listed(c) /\ c # accepting)
      BY <1>13, DirectoryFrame
    <3> QED
      BY <3>1, <3>2
  <2>3. CASE UNCHANGED roster
    BY <2>1, <2>2, <2>3 DEF Dir!Dismiss
  <2>4. ASSUME NEW e \in Ids, BroadcastUserInfo(e), Listed(e) PROVE Dir!Tell
    <3>1. roster' \in [Ids -> [Ids -> Names \cup {NoName, Offline, Unknown}]]
      BY NextTypeOK DEF TypeOK, Name
    <3>2. ASSUME NEW r \in Ids, NEW d \in Ids, roster'[r][d] # roster[r][d]
          PROVE  /\ r \in Joined \ Dismissed /\ d \in Joined /\ r # d
                 /\ roster'[r][d] \in Dir!Truth(d)
      BY <2>4, <3>2, ToldIsTrue
    <3> QED
      BY <2>1, <2>2, <3>1, <3>2 DEF Dir!Tell
  <2>5. CASE FlushOutgoing /\ ~UNCHANGED roster
    <3>1. /\ tick.cur = accepting /\ tick.pc = "flush"
          /\ roster' = [roster EXCEPT ![accepting] = [d \in Ids |-> Unknown]]
      BY <2>5 DEF FlushOutgoing
    <3>2. tick.cur \in Ids /\ tick.cur \in clients
      BY <3>1 DEF TypeOK, TickPosition, Locks, Ids
    <3>3. handle[accepting].name = NoName
      BY <3>1, <3>2 DEF Fresh, Untouched, HasName
    <3>4. Dir!Miss(accepting)
      BY <2>1, <2>2, <3>1, <3>2, <3>3 DEF Dir!Miss
    <3> QED
      BY <3>1, <3>2, <3>4
  <2> QED
    BY <2>3, <2>4, <2>5, RosterMoves
<1>14. Authenticate => auth.req.id \in Ids /\ auth.req.name \in Name
  BY DEF Authenticate, TypeOK, AuthPosition, Request
<1> QED
  BY <1>5, <1>6, <1>7, <1>8, <1>9, <1>10, <1>11, <1>12, <1>13, <1>14

\* However the threads interleave, the chat server is a Directory: nobody joins
\* twice, or leaves while connected unless all leave; a name is one's own and is
\* kept; and whoever has not been told to go is told nothing but the truth.
THEOREM ServerIsDirectory == Spec => IsDirectory
<1>1. Init => Dir!Init
  <2> SUFFICES ASSUME Init PROVE Dir!Init
    OBVIOUS
  <2>1. \A c \in Ids : ~Listed(c)
    BY DEF Init, Listed, Ids
  <2> QED
    BY <2>1 DEF Init, Dir!Init, NewHandle
<1>2. Inductive <=>
        TypeOK /\ Fresh /\ UniqueNames /\ Phases /\ Proved /\ Locks /\ Connections
  BY DEF Inductive
<1> QED
  BY <1>1, <1>2, InitContract, InitRoster, FreshStep, UniqueNamesStep, PhasesStep,
     ProvedStep, LocksStep, ConnectionsStep, LivesStep, DirectoryStep, TypeCorrect,
     RemovedStayDestroyed, PTL DEF Spec, IsDirectory, Dir!Spec

\* So what follows for every Directory holds here: under one name there is one
\* member, it has sent that name's password, and no peer was told another name.
THEOREM NamesOnServer == Spec => [](Dir!Distinct /\ Dir!Genuine)
  BY ServerIsDirectory, Dir!NamesCanBeTrusted, PTL DEF IsDirectory

=============================================================================
