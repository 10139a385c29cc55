-------------------------- MODULE ServerCoreProofs --------------------------
(* Theorems about ServerCore, for every value of its constants: names and   *)
(* admissions, who is in m_Clients, and what its peers know.                *)
EXTENDS ServerCore, TLAPS

-----------------------------------------------------------------------------
(* What the operations of a cClientHandle return. *)

\* SendData, SendDisconnect and SendLoginSuccess return a client handle.
LEMMA HandleTypes ==
  ASSUME NEW h \in Handle
  PROVE  /\ Queue(h) \in Handle
         /\ Disconnect(h) \in Handle
         /\ SendLoginSuccess(h) \in Handle
<1>1. Queue(h) \in Handle
  BY DEF Handle, Queue
<1>2. Disconnect(h) \in Handle
  BY DEF Handle, Disconnect, psStatus, psLogin, psWork
<1>3. SendLoginSuccess(h) \in Handle
  BY <1>1 DEF Handle, SendLoginSuccess, psStatus, psLogin, psWork
<1> QED
  BY <1>1, <1>2, <1>3

\* Each field of a client handle is written with a value of its type.
LEMMA FieldTypes ==
  ASSUME NEW h \in Handle
  PROVE  /\ \A b \in BOOLEAN : /\ [h EXCEPT !.link = b] \in Handle
                              /\ [h EXCEPT !.pending = b] \in Handle
         /\ \A s \in csConnected .. csDestroyed : [h EXCEPT !.state = s] \in Handle
         /\ \A q \in Seq(Packet) : /\ [h EXCEPT !.incoming = q] \in Handle
                                  /\ [h EXCEPT !.received = q] \in Handle
         /\ \A n \in Nat : [h EXCEPT !.ticks = n] \in Handle
         /\ \A p \in {psStatus, psLogin, psWork} : [h EXCEPT !.proto = p] \in Handle
         /\ \A n \in Name : [h EXCEPT !.name = n] \in Handle
  BY DEF Handle

\* Counting a tick, and queueing a report, leave the rest of a handle alone.
LEMMA OtherFields ==
  ASSUME NEW h \in Handle, NEW v
  PROVE  /\ /\ [h EXCEPT !.ticks = v].name = h.name
            /\ [h EXCEPT !.ticks = v].proto = h.proto
            /\ [h EXCEPT !.ticks = v].state = h.state
            /\ [h EXCEPT !.ticks = v].incoming = h.incoming
            /\ [h EXCEPT !.ticks = v].received = h.received
         /\ /\ [h EXCEPT !.pending = v].name = h.name
            /\ [h EXCEPT !.pending = v].proto = h.proto
            /\ [h EXCEPT !.pending = v].state = h.state
<1>1. /\ [h EXCEPT !.ticks = v].name = h.name
      /\ [h EXCEPT !.ticks = v].proto = h.proto
      /\ [h EXCEPT !.ticks = v].state = h.state
  BY DEF Handle
<1>2. /\ [h EXCEPT !.ticks = v].incoming = h.incoming
      /\ [h EXCEPT !.ticks = v].received = h.received
  BY DEF Handle
<1>3. /\ [h EXCEPT !.pending = v].name = h.name
      /\ [h EXCEPT !.pending = v].proto = h.proto
      /\ [h EXCEPT !.pending = v].state = h.state
  BY DEF Handle
<1> QED
  BY <1>1, <1>2, <1>3

\* The states a client handle goes through are states.
LEMMA StateTypes ==
  {csConnected, csAuthenticating, csAuthenticated, csWorking, csDestroying,
   csDestroyed} \subseteq csConnected .. csDestroyed
  BY DEF csConnected, csAuthenticating, csAuthenticated, csWorking, csDestroying,
         csDestroyed

\* A packet that arrives is well formed, and what is read as a login has a name.
LEMMA InboundTypes ==
  ASSUME NEW c \in Ids, NEW p \in Inbound[c]
  PROVE  /\ p \in Packet
         /\ CarriesLogin(p) => p.name \in Name /\ p.ok \in BOOLEAN
<1>1. p \in Packet
  BY InboundAssumption
<1> QED
  BY <1>1 DEF Packet, Name, CarriesLogin

\* The server starts with well-formed state.
LEMMA InitTypeOK == Init => TypeOK
<1> SUFFICES ASSUME Init PROVE TypeOK
  OBVIOUS
<1> USE DEF Init, Ids
<1>1. NewHandle \in Handle
  BY DEF NewHandle, Handle, Name, csConnected, csDestroyed, psStatus, psLogin, psWork
<1>2. handle \in [Ids -> Handle]
  BY <1>1
<1>3. call \in [Thread -> DestroyCall]
  BY DEF Thread, DestroyCall
<1>4. tick \in TickPosition
  BY DEF TickPosition
<1>5. auth \in AuthPosition
  BY DEF AuthPosition
<1>6. queue \in Seq(Request)
  OBVIOUS
<1>7. /\ count \in 0 .. MaxClients
      /\ budget \in [Ids -> 0 .. MaxPackets]
  BY BoundsAssumption
<1> QED
  BY <1>2, <1>3, <1>4, <1>5, <1>6, <1>7 DEF TypeOK, Name

\* A broadcast changes only what is pending and what peers were told.
LEMMA BroadcastTypes ==
  ASSUME TypeOK, NEW c \in Ids, BroadcastUserInfo(c)
  PROVE  /\ handle' \in [Ids -> Handle]
         /\ roster' \in [Ids -> [Ids -> Name \cup {Offline, Unknown}]]
<1>1. \A d \in Ids : Report(d) \in Name \cup {Offline}
  BY DEF TypeOK, Report, Handle
<1>2. roster' \in [Ids -> [Ids -> Name \cup {Offline, Unknown}]]
  BY <1>1 DEF TypeOK, BroadcastUserInfo
<1>3. handle' \in [Ids -> Handle]
  <2>1. \A r \in Ids : handle[r].pending \in BOOLEAN
    BY DEF TypeOK, Handle
  <2>2. \A r \in Ids, b \in BOOLEAN : [handle[r] EXCEPT !.pending = b] \in Handle
    BY FieldTypes DEF TypeOK
  <2>3. \A r \in Ids : (handle[r].pending \/ Subjects(c, r) # {}) \in BOOLEAN
    OBVIOUS
  <2> QED
    BY <2>2, <2>3 DEF BroadcastUserInfo
<1> QED
  BY <1>2, <1>3

\* While packets are parsed, the tick thread works on a client.
LEMMA PacketAt ==
  ASSUME TypeOK, AddReceivedData
  PROVE  tick.cur \in Ids /\ handle[tick.cur] \in Handle
  BY DEF TypeOK, AddReceivedData, HandleStatusRequest, HandleStatusPing,
         HandleLoginInfo, HandleStrayStatusRequest, HandleMedia, HandleIgnored,
         HandleWrongSize, HandleUnknown, HandleEmpty, PacketsDone, AtPacket,
         TickPosition

\* The packet at hand, and the handle without it, are well formed.
LEMMA PacketTypes ==
  ASSUME handle[tick.cur] \in Handle, handle[tick.cur].received # <<>>
  PROVE  Rest \in Handle /\ Packet1 \in Packet
<1>1. /\ handle[tick.cur].received \in Seq(Packet)
      /\ Tail(handle[tick.cur].received) \in Seq(Packet)
      /\ Head(handle[tick.cur].received) \in Packet
  BY DEF Handle
<1> QED
  BY <1>1, FieldTypes DEF Rest, Packet1

\* Every packet handler keeps the state well formed: each takes the packet off
\* the client's buffer and applies the operations of cClientHandle to it.
LEMMA AddReceivedDataTypes ==
  ASSUME TypeOK, AddReceivedData
  PROVE  TypeOK'
<1> USE DEF TypeOK
<1>1. /\ tick.cur \in Ids
      /\ handle[tick.cur] \in Handle
  BY PacketAt
<1>2. ASSUME handle[tick.cur].received # <<>>
      PROVE  /\ Rest \in Handle
             /\ Packet1 \in Packet
  BY <1>1, <1>2, PacketTypes
<1>3. ASSUME NEW h \in Handle, Continue(h), queue' \in Seq(Request)
      PROVE  TypeOK'
  BY <1>1, <1>3 DEF Continue, TickUnchanged, peerVars, netVars
<1>4. ASSUME NEW h \in Handle, Abandon(h), tick.pc = "packets"
      PROVE  TypeOK'
  <2>1. tick' \in TickPosition
    BY <1>4 DEF Abandon, TickPosition
  <2> QED
    BY <1>1, <1>4, <2>1 DEF Abandon, TickUnchanged, peerVars, netVars
<1>5. ASSUME NEW h \in Handle, NEW n \in Name, NEW b \in BOOLEAN, HandleLogin(n, b, h)
      PROVE  TypeOK'
  <2>1. [h EXCEPT !.state = csAuthenticating] \in Handle
    BY FieldTypes, StateTypes
  <2>2. queue' \in Seq(Request)
    BY <1>1, <1>5 DEF HandleLogin, Request
  <2> QED
    BY <1>3, <1>5, <2>1, <2>2 DEF HandleLogin
<1>6. CASE HandleStatusRequest
  <2>1. /\ Rest \in Handle
        /\ ValidState(Packet1.next)
             => [Rest EXCEPT !.proto = Packet1.next] \in Handle
    BY <1>2, <1>6, FieldTypes DEF HandleStatusRequest, AtPacket, ValidState
  <2> QED
    BY <1>3, <1>6, <2>1, HandleTypes DEF HandleStatusRequest
<1>7. CASE HandleStatusPing
  BY <1>2, <1>3, <1>7, HandleTypes DEF HandleStatusPing, AtPacket
<1>8. CASE HandleLoginInfo
  <2>1. Packet1.name \in Name /\ Packet1.ok \in BOOLEAN
    BY <1>2, <1>8 DEF HandleLoginInfo, AtPacket, Packet, Name, Packet1
  <2> QED
    BY <1>2, <1>5, <1>8, <2>1 DEF HandleLoginInfo, AtPacket
<1>9. CASE HandleStrayStatusRequest
  <2>1. Packet1.name \in Name /\ Packet1.ok \in BOOLEAN
    BY <1>2, <1>9 DEF HandleStrayStatusRequest, AtPacket, Packet, Name, Packet1
  <2> QED
    BY <1>2, <1>5, <1>9, <2>1, HandleTypes DEF HandleStrayStatusRequest, AtPacket
<1>10. CASE HandleMedia
  <2>1. Rest \in Handle
    BY <1>2, <1>10 DEF HandleMedia, AtPacket
  <2>2. \A c \in Ids : (IF c = tick.cur THEN Rest ELSE handle[c]) \in Handle
    BY <2>1
  <2>3. handle' \in [Ids -> Handle]
    BY <1>10, <2>2, HandleTypes DEF HandleMedia
  <2> QED
    BY <1>10, <2>3 DEF HandleMedia, TickUnchanged, peerVars, netVars
<1>11. CASE HandleIgnored
  BY <1>2, <1>3, <1>11 DEF HandleIgnored, AtPacket
<1>12. CASE HandleWrongSize
  BY <1>2, <1>3, <1>12, HandleTypes DEF HandleWrongSize, AtPacket
<1>13. CASE HandleUnknown
  BY <1>2, <1>4, <1>13, HandleTypes DEF HandleUnknown, AtPacket
<1>14. CASE HandleEmpty
  BY <1>2, <1>4, <1>14 DEF HandleEmpty, AtPacket
<1>15. CASE PacketsDone
  BY <1>1, <1>4, <1>15 DEF PacketsDone
<1> QED
  BY <1>6, <1>7, <1>8, <1>9, <1>10, <1>11, <1>12, <1>13, <1>14, <1>15
  DEF AddReceivedData

\* A granted login keeps the state well formed, and a refused one too.
LEMMA AuthenticateTypes == TypeOK /\ Authenticate => TypeOK'
<1> SUFFICES ASSUME TypeOK, Authenticate PROVE TypeOK'
  OBVIOUS
<1> USE DEF TypeOK
<1> DEFINE h == handle[auth.req.id]
           named == [h EXCEPT !.name = auth.req.name]
<1>1. auth.req \in Request /\ auth \in [pc : {"verified"}, req : Request]
  BY DEF Authenticate, AuthPosition
<1>2. h \in Handle /\ named \in Handle
  BY <1>1, FieldTypes DEF Request
<1>3. SendLoginSuccess(named) \in Handle /\ Disconnect(h) \in Handle
  BY <1>2, HandleTypes
<1>4. \/ handle' = [handle EXCEPT ![auth.req.id] = SendLoginSuccess(named)]
      \/ handle' = [handle EXCEPT ![auth.req.id] = Disconnect(h)]
  BY DEF Authenticate
<1>5. handle' \in [Ids -> Handle]
  BY <1>3, <1>4
<1>6. \/ auth' = [auth EXCEPT !.pc = "named"] /\ lock' = "auth"
      \/ auth' = [pc |-> "idle", req |-> NoRequest] /\ lock' = lock
  BY DEF Authenticate, AuthGoto, AuthIdle
<1>7. auth' \in AuthPosition
  BY <1>1, <1>6 DEF AuthPosition
<1> QED
  BY <1>5, <1>6, <1>7 DEF Authenticate, peerVars, netVars

\* Every step of every thread keeps the state well formed.
LEMMA NextTypeOK == TypeOK /\ [Next]_vars => TypeOK'
<1> SUFFICES ASSUME TypeOK, [Next]_vars PROVE TypeOK'
  OBVIOUS
<1> USE DEF TypeOK
<1>1. CASE AcceptConnection
  BY <1>1, BoundsAssumption DEF AcceptConnection, Ids
<1>2. CASE ListClient \/ CreateLink
  <2>1. CASE ListClient
    BY <2>1 DEF ListClient
  <2>2. CASE CreateLink
    <3>1. handle' \in [Ids -> Handle]
      BY <2>2, FieldTypes DEF CreateLink
    <3> QED
      BY <2>2, <3>1 DEF CreateLink
  <2> QED
    BY <1>2, <2>1, <2>2
<1>3. ASSUME NEW c \in Ids, ReceivePacket(c) PROVE TypeOK'
  <2> PICK p \in Inbound[c], n \in ResetTicks(c) :
        /\ handle' = [handle EXCEPT ![c].incoming = Append(@, p), ![c].ticks = n]
        /\ shown' = IF CarriesLogin(p) /\ p.ok
                    THEN [shown EXCEPT ![c] = @ \cup {p.name}] ELSE shown
    BY <1>3 DEF ReceivePacket
  <2>1. handle' \in [Ids -> Handle]
    <3> DEFINE grown == [handle[c] EXCEPT !.incoming = Append(@, p)]
    <3>1. Append(handle[c].incoming, p) \in Seq(Packet)
      BY InboundTypes DEF Handle
    <3>2. grown \in Handle
      BY <3>1, FieldTypes
    <3>3. n \in Nat
      BY DEF ResetTicks, Handle
    <3>4. [grown EXCEPT !.ticks = n] \in Handle
      BY <3>2, <3>3, FieldTypes
    <3> QED
      BY <3>2, <3>4
  <2>2. shown' \in [Ids -> SUBSET Name]
    BY InboundTypes
  <2>3. budget' \in [Ids -> 0 .. MaxPackets]
    BY <1>3, BoundsAssumption DEF ReceivePacket
  <2> QED
    BY <1>3, <2>1, <2>2, <2>3 DEF ReceivePacket, netVars
<1>4. ASSUME NEW c \in Ids, CloseConnection(c) PROVE TypeOK'
  <2>1. handle' \in [Ids -> Handle]
    BY <1>4, FieldTypes DEF CloseConnection
  <2> QED
    BY <1>4, <2>1 DEF CloseConnection, DestroyCall, Thread, netVars
<1>5. ASSUME NEW t \in Thread, DestroyOnce(t) PROVE TypeOK'
  <2>1. call[t] \in [at : {"entered", "destroying", "destroyed"}, id : Ids]
    BY <1>5 DEF DestroyOnce, DestroyCall, NoCall
  <2>2. CASE handle[call[t].id].state >= csDestroying
    <3>1. call' = [call EXCEPT ![t] = NoCall] /\ UNCHANGED handle
      BY <1>5, <2>2 DEF DestroyOnce
    <3> QED
      BY <1>5, <3>1 DEF DestroyOnce, DestroyCall, Thread, netVars, peerVars
  <2>3. CASE ~(handle[call[t].id].state >= csDestroying)
    <3>1. /\ handle' = [handle EXCEPT ![call[t].id].state = csDestroying]
          /\ call' = [call EXCEPT ![t].at = "destroying"]
      BY <1>5, <2>3 DEF DestroyOnce
    <3>2. handle' \in [Ids -> Handle]
      BY <2>1, <3>1, FieldTypes, StateTypes
    <3>3. call' \in [Thread -> DestroyCall]
      BY <2>1, <3>1 DEF DestroyCall, Thread
    <3> QED
      BY <1>5, <3>2, <3>3 DEF DestroyOnce, netVars, peerVars
  <2> QED
    BY <2>2, <2>3
<1>6. ASSUME NEW t \in Thread, SetDestroyed(t) PROVE TypeOK'
  <2>1. /\ call[t].id \in Ids
        /\ call' \in [Thread -> DestroyCall]
    BY <1>6 DEF SetDestroyed, DestroyCall, NoCall, Thread
  <2>2. handle' \in [Ids -> Handle]
    BY <1>6, <2>1, FieldTypes, StateTypes DEF SetDestroyed
  <2> QED
    BY <1>6, <2>1, <2>2 DEF SetDestroyed, netVars, peerVars
<1>7. ASSUME NEW t \in Thread, BroadcastDestroyed(t) PROVE TypeOK'
  BY <1>7, BroadcastTypes
  DEF BroadcastDestroyed, DestroyCall, NoCall, Thread, netVars, peerVars
<1>8. CASE StartTick
  BY <1>8 DEF StartTick, TickPosition, netVars, peerVars
<1>9. ASSUME NEW c \in Ids, RemoveDestroyed(c) PROVE TypeOK'
  BY <1>9 DEF RemoveDestroyed, NextClient, TickPosition, netVars, peerVars
<1>10. ASSUME NEW c \in Ids, TakeIncoming(c) PROVE TypeOK'
  <2>1. tick' \in TickPosition
    BY <1>10 DEF TakeIncoming, NextClient, TickPosition
  <2>2. handle' \in [Ids -> Handle]
    <3> DEFINE h == handle[c]
               taken == [h EXCEPT !.incoming = <<>>]
               kept == [taken EXCEPT !.received = @ \o h.incoming]
    <3>1. h \in Handle /\ h.incoming \in Seq(Packet)
      BY DEF Handle
    <3>2. taken \in Handle
      <4>1. <<>> \in Seq(Packet)
        OBVIOUS
      <4> QED
        BY <3>1, <4>1, FieldTypes
    <3>3. taken.received \o h.incoming \in Seq(Packet)
      BY <3>1, <3>2 DEF Handle
    <3>4. kept \in Handle
      BY <3>2, <3>3, FieldTypes
    <3>5. Disconnect(taken) \in Handle
      BY <3>2, HandleTypes
    <3>6. \/ handle' = [handle EXCEPT ![c] = h]
          \/ handle' = [handle EXCEPT ![c] = kept]
          \/ handle' = [handle EXCEPT ![c] = Disconnect(taken)]
      BY <1>10 DEF TakeIncoming
    <3> QED
      BY <3>1, <3>4, <3>5, <3>6
  <2> QED
    BY <1>10, <2>1, <2>2 DEF TakeIncoming, TickUnchanged, netVars, peerVars
<1>11. CASE AddReceivedData
  BY <1>11, AddReceivedDataTypes
<1>12. CASE FlushOutgoing
  <2>1. /\ tick.cur \in Ids
        /\ tick' \in TickPosition
    BY <1>12 DEF FlushOutgoing, TickGoto, TickPosition
  <2>2. handle' \in [Ids -> Handle]
    BY <1>12, <2>1, FieldTypes DEF FlushOutgoing
  <2>3. roster' \in [Ids -> [Ids -> Name \cup {Offline, Unknown}]]
    BY <1>12 DEF FlushOutgoing
  <2> QED
    BY <1>12, <2>1, <2>2, <2>3 DEF FlushOutgoing, TickUnchanged, netVars, peerVars
<1>13. CASE SendOnLink \/ WriteToLink
  BY <1>13
  DEF SendOnLink, WriteToLink, TickGoto, TickPosition, TickUnchanged, netVars, peerVars
<1>14. CASE CheckAuthenticated
  BY <1>14
  DEF CheckAuthenticated, TickGoto, TickPosition, TickUnchanged, netVars, peerVars
<1>15. CASE SetWorking
  <2>1. /\ tick.cur \in Ids
        /\ tick' \in TickPosition
    BY <1>15 DEF SetWorking, TickGoto, TickPosition
  <2>2. handle' \in [Ids -> Handle]
    BY <1>15, <2>1, FieldTypes, StateTypes DEF SetWorking
  <2> QED
    BY <1>15, <2>1, <2>2 DEF SetWorking, TickUnchanged, netVars, peerVars
<1>16. ASSUME NEW due \in BOOLEAN, PingAndTimeout(due) PROVE TypeOK'
  <2>1. /\ tick.cur \in Ids
        /\ tick' \in TickPosition
    BY <1>16 DEF PingAndTimeout, TickPosition
  <2>2. handle' \in [Ids -> Handle]
    <3> DEFINE h == handle[tick.cur]
               pinged == IF due /\ h.state = csWorking /\ h.proto = psWork
                         THEN Queue(h) ELSE h
               n == IF h.ticks > MaxTicks THEN h.ticks ELSE h.ticks + 1
               counted == [pinged EXCEPT !.ticks = n]
    <3>1. h \in Handle /\ h.ticks \in Nat
      BY <2>1 DEF Handle
    <3>2. pinged \in Handle /\ n \in Nat
      BY <3>1, HandleTypes
    <3>3. counted \in Handle
      BY <3>2, FieldTypes
    <3>4. Disconnect(counted) \in Handle
      BY <3>3, HandleTypes
    <3>5. handle' = [handle EXCEPT ![tick.cur] =
                      IF n > MaxTicks THEN Disconnect(counted) ELSE counted]
      BY <1>16 DEF PingAndTimeout
    <3> QED
      BY <2>1, <3>3, <3>4, <3>5
  <2> QED
    BY <1>16, <2>1, <2>2 DEF PingAndTimeout, TickUnchanged, netVars, peerVars
<1>17. CASE EndTick
  BY <1>17 DEF EndTick, TickGoto, TickPosition, AnswerRestart, netVars, peerVars
<1>18. CASE TakeRequest
  BY <1>18 DEF TakeRequest, AuthPosition, netVars, peerVars
<1>19. CASE KickUser
  BY <1>19, HandleTypes DEF KickUser, AuthIdle, AuthPosition, netVars, peerVars
<1>20. CASE DropAnswer
  BY <1>20 DEF DropAnswer, AuthIdle, AuthPosition, netVars, peerVars
<1>21. CASE Authenticate
  BY <1>21, AuthenticateTypes
<1>22. CASE SetAuthenticated
  <2>1. auth.req \in Request
    BY <1>22 DEF SetAuthenticated, AuthPosition
  <2>2. handle' \in [Ids -> Handle]
    BY <1>22, <2>1, FieldTypes, StateTypes DEF SetAuthenticated, Request
  <2> QED
    BY <1>22, <2>1, <2>2
    DEF SetAuthenticated, AuthGoto, AuthPosition, netVars, peerVars
<1>23. CASE BroadcastAuthenticated
  BY <1>23, BroadcastTypes
  DEF BroadcastAuthenticated, AuthIdle, AuthPosition, Request, netVars, peerVars
<1>24. CASE StopAuthenticator
  BY <1>24 DEF StopAuthenticator, AuthGoto, AuthPosition, netVars, peerVars
<1>25. CASE CloseListener \/ AskRestart
  BY <1>25 DEF CloseListener, AskRestart, peerVars, netVars
<1>26. CASE TickThreadEnded
  BY <1>26 DEF TickThreadEnded, netVars, peerVars
<1>27. ASSUME NEW c \in Ids, DestroyNext(c) PROVE TypeOK'
  <2>1. handle' \in [Ids -> Handle]
    BY <1>27, FieldTypes DEF DestroyNext
  <2> QED
    BY <1>27, <2>1 DEF DestroyNext, DestroyCall, Thread, netVars, peerVars
<1>28. CASE ClearClients
  BY <1>28 DEF ClearClients, netVars, peerVars
<1>29. CASE UNCHANGED vars
  BY <1>29 DEF vars
<1> QED
  BY <1>1, <1>2, <1>3, <1>4, <1>5, <1>6, <1>7, <1>8, <1>9, <1>10,
     <1>11, <1>12, <1>13, <1>14, <1>15, <1>16, <1>17, <1>18, <1>19, <1>20, <1>21,
     <1>22, <1>23, <1>24, <1>25, <1>26, <1>27, <1>28, <1>29
  DEF Next, Peers, Tick, ServerTick, Authenticator, Shutdown, ServerStopped,
      ServerStuck, Destroy, Thread

\* Every reachable state is well formed; in particular every thread that works
\* on a client, and every queued login, names a client that exists.
THEOREM TypeCorrect == Spec => []TypeOK
  BY InitTypeOK, NextTypeOK, PTL DEF Spec

-----------------------------------------------------------------------------
(* Who writes m_Username, the protocol's state and m_State. *)

\* SendData and SendDisconnect leave the name, the states and the received
\* packets alone; SendLoginSuccess writes the protocol's state.
LEMMA HandleFrames ==
  ASSUME NEW h \in Handle
  PROVE  /\ Queue(h).name = h.name /\ Queue(h).proto = h.proto
         /\ Queue(h).state = h.state
         /\ Queue(h).incoming = h.incoming /\ Queue(h).received = h.received
         /\ Disconnect(h).name = h.name /\ Disconnect(h).proto = h.proto
         /\ Disconnect(h).state = h.state
         /\ Disconnect(h).incoming = h.incoming /\ Disconnect(h).received = h.received
         /\ SendLoginSuccess(h).name = h.name /\ SendLoginSuccess(h).proto = psWork
         /\ SendLoginSuccess(h).state = h.state
         /\ SendLoginSuccess(h).incoming = h.incoming
         /\ SendLoginSuccess(h).received = h.received
<1>1. /\ Queue(h).name = h.name /\ Queue(h).proto = h.proto /\ Queue(h).state = h.state
      /\ Queue(h).incoming = h.incoming /\ Queue(h).received = h.received
  BY DEF Queue, Handle
<1>2. /\ Disconnect(h).name = h.name /\ Disconnect(h).proto = h.proto
      /\ Disconnect(h).state = h.state
      /\ Disconnect(h).incoming = h.incoming /\ Disconnect(h).received = h.received
  BY DEF Disconnect, Handle
<1>3. Queue(h) \in Handle
  BY HandleTypes
<1> QED
  BY <1>1, <1>2, <1>3 DEF SendLoginSuccess, Handle

\* One field of every client handle is left as it was.
SameName == \A c \in Ids : handle'[c].name = handle[c].name
SameProto == \A c \in Ids : handle'[c].proto = handle[c].proto
SameState == \A c \in Ids : handle'[c].state = handle[c].state
Same == SameName /\ SameProto /\ SameState

\* The steps that write one of the three.
Writes ==
  \/ HandleStatusRequest \/ HandleLoginInfo \/ HandleStrayStatusRequest
  \/ SetWorking \/ Authenticate \/ SetAuthenticated
  \/ \E t \in Thread : DestroyOnce(t) \/ SetDestroyed(t)

\* No other step does.
LEMMA Frames ==
  ASSUME TypeOK, [Next]_vars, ~Writes
  PROVE  Same
<1> USE DEF TypeOK
<1>0. ASSUME UNCHANGED handle PROVE Same
  BY <1>0 DEF Same, SameName, SameProto, SameState
<1>1. ASSUME NEW c \in Ids, NEW h \in Handle, handle' = [handle EXCEPT ![c] = h],
             h.name = handle[c].name, h.proto = handle[c].proto,
             h.state = handle[c].state
      PROVE  Same
  BY <1>1 DEF Same, SameName, SameProto, SameState
<1>2. ASSUME NEW c \in Ids, BroadcastUserInfo(c) PROVE Same
  <2> SUFFICES ASSUME NEW r \in Ids
               PROVE  /\ handle'[r].name = handle[r].name
                      /\ handle'[r].proto = handle[r].proto
                      /\ handle'[r].state = handle[r].state
    BY DEF Same, SameName, SameProto, SameState
  <2>1. handle'[r] = [handle[r] EXCEPT !.pending = @ \/ Subjects(c, r) # {}]
    BY <1>2 DEF BroadcastUserInfo
  <2> QED
    BY <2>1, OtherFields
<1>3. CASE AcceptConnection \/ ListClient
  BY <1>0, <1>3 DEF AcceptConnection, ListClient
<1>4. CASE CreateLink
  <2>1. /\ accepting \in Ids
        /\ [handle[accepting] EXCEPT !.link = TRUE] \in Handle
    BY <1>4, FieldTypes DEF CreateLink
  <2> QED
    BY <1>1, <1>4, <2>1 DEF CreateLink, Handle
<1>5. ASSUME NEW c \in Ids, ReceivePacket(c) PROVE Same
  <2>1. PICK p \in Inbound[c], n \in ResetTicks(c) :
          handle' = [handle EXCEPT ![c].incoming = Append(@, p), ![c].ticks = n]
    BY <1>5 DEF ReceivePacket
  <2> DEFINE q == Append(handle[c].incoming, p)
             got == [handle[c] EXCEPT !.incoming = q]
  <2>2. handle' = [handle EXCEPT ![c] = [got EXCEPT !.ticks = n]]
    BY <2>1
  <2>3. /\ handle[c] \in Handle
        /\ got.name = handle[c].name /\ got.proto = handle[c].proto
        /\ got.state = handle[c].state
    <3> HIDE DEF q
    <3> QED
      BY DEF Handle
  <2>4. q \in Seq(Packet)
    BY InboundTypes DEF Handle
  <2>5. got \in Handle
    <3> HIDE DEF q
    <3> QED
      BY <2>3, <2>4, FieldTypes
  <2> DEFINE new == [got EXCEPT !.ticks = n]
  <2>6. new.name = got.name /\ new.proto = got.proto /\ new.state = got.state
    <3> HIDE DEF got
    <3> QED
      BY <2>5, OtherFields
  <2> HIDE DEF got, new
  <2>7. handle' = [handle EXCEPT ![c] = new]
    BY <2>2 DEF new
  <2> QED
    BY <2>3, <2>6, <2>7 DEF Same, SameName, SameProto, SameState
<1>6. ASSUME NEW c \in Ids, CloseConnection(c) PROVE Same
  BY <1>6 DEF CloseConnection, Same, SameName, SameProto, SameState, Handle
<1>7. ASSUME NEW t \in Thread, BroadcastDestroyed(t) PROVE Same
  BY <1>2, <1>7 DEF BroadcastDestroyed, DestroyCall, NoCall
<1>8. CASE StartTick
  BY <1>0, <1>8 DEF StartTick
<1>9. ASSUME NEW c \in Ids, RemoveDestroyed(c) PROVE Same
  BY <1>0, <1>9 DEF RemoveDestroyed
<1>10. ASSUME NEW c \in Ids, TakeIncoming(c) PROVE Same
  <2> DEFINE h == handle[c]
             taken == [h EXCEPT !.incoming = <<>>]
             kept == [taken EXCEPT !.received = @ \o h.incoming]
  <2>1. <<>> \in Seq(Packet)
    OBVIOUS
  <2>2. taken \in Handle
    BY <2>1, FieldTypes
  <2>3. /\ taken.name = h.name /\ taken.proto = h.proto /\ taken.state = h.state
        /\ kept.name = h.name /\ kept.proto = h.proto /\ kept.state = h.state
    BY DEF Handle
  <2>4. \/ handle' = [handle EXCEPT ![c] = h]
        \/ handle' = [handle EXCEPT ![c] = kept]
        \/ handle' = [handle EXCEPT ![c] = Disconnect(taken)]
    BY <1>10 DEF TakeIncoming
  <2> HIDE DEF taken, kept
  <2>5. PICK g : /\ handle' = [handle EXCEPT ![c] = g]
                 /\ g \in {h, kept, Disconnect(taken)}
    BY <2>4
  <2>6. g.name = h.name /\ g.proto = h.proto /\ g.state = h.state
    <3> HIDE DEF h
    <3> QED
      BY <2>2, <2>3, <2>5, HandleFrames
  <2> QED
    BY <2>5, <2>6 DEF Same, SameName, SameProto, SameState
<1>11. CASE AddReceivedData
  <2>1. tick.cur \in Ids /\ handle[tick.cur] \in Handle
    BY <1>11, PacketAt
  <2>2. ASSUME handle[tick.cur].received # <<>>
        PROVE  /\ Rest \in Handle
               /\ Rest.name = handle[tick.cur].name
               /\ Rest.proto = handle[tick.cur].proto
               /\ Rest.state = handle[tick.cur].state
    BY <2>1, <2>2, PacketTypes DEF Rest, Handle
  <2>3. ASSUME NEW h \in Handle, Continue(h) \/ Abandon(h),
               h.name = handle[tick.cur].name, h.proto = handle[tick.cur].proto,
               h.state = handle[tick.cur].state
        PROVE  Same
    BY <1>1, <2>1, <2>3 DEF Continue, Abandon
  <2>4. CASE HandleStatusPing
    BY <2>2, <2>3, <2>4, HandleTypes, HandleFrames DEF HandleStatusPing, AtPacket
  <2>5. CASE HandleMedia
    BY <2>1, <2>2, <2>5, HandleFrames
    DEF HandleMedia, AtPacket, Same, SameName, SameProto, SameState
  <2>6. CASE HandleIgnored
    BY <2>2, <2>3, <2>6 DEF HandleIgnored, AtPacket
  <2>7. CASE HandleWrongSize
    BY <2>2, <2>3, <2>7, HandleTypes, HandleFrames DEF HandleWrongSize, AtPacket
  <2>8. CASE HandleUnknown
    BY <2>2, <2>3, <2>8, HandleTypes, HandleFrames DEF HandleUnknown, AtPacket
  <2>9. CASE HandleEmpty
    BY <2>2, <2>3, <2>9 DEF HandleEmpty, AtPacket
  <2>10. CASE PacketsDone
    BY <2>1, <2>3, <2>10 DEF PacketsDone
  <2> QED
    BY <1>11, <2>4, <2>5, <2>6, <2>7, <2>8, <2>9, <2>10 DEF AddReceivedData, Writes
<1>12. CASE FlushOutgoing
  <2>1. handle' = [handle EXCEPT ![tick.cur].pending = FALSE]
    BY <1>12 DEF FlushOutgoing
  <2> QED
    BY <2>1, OtherFields DEF Same, SameName, SameProto, SameState
<1>13. CASE SendOnLink \/ WriteToLink
  BY <1>0, <1>13 DEF SendOnLink, WriteToLink
<1>14. CASE CheckAuthenticated
  BY <1>0, <1>14 DEF CheckAuthenticated
<1>15. ASSUME NEW due \in BOOLEAN, PingAndTimeout(due) PROVE Same
  <2> DEFINE h == handle[tick.cur]
             pinged == IF due /\ h.state = csWorking /\ h.proto = psWork
                       THEN Queue(h) ELSE h
             n == IF h.ticks > MaxTicks THEN h.ticks ELSE h.ticks + 1
             counted == [pinged EXCEPT !.ticks = n]
  <2>1. tick.cur \in Ids /\ h \in Handle /\ h.ticks \in Nat
    BY <1>15 DEF PingAndTimeout, TickPosition, Handle
  <2>2. /\ pinged \in Handle /\ n \in Nat
        /\ pinged.name = h.name /\ pinged.proto = h.proto /\ pinged.state = h.state
    <3>1. n \in Nat /\ (pinged = Queue(h) \/ pinged = h)
      BY <2>1
    <3> HIDE DEF pinged, n
    <3>2. CASE pinged = h
      BY <2>1, <3>1, <3>2
    <3>3. CASE pinged = Queue(h)
      <4>1. Queue(h) \in Handle
        BY <2>1, HandleTypes
      <4> QED
        BY <2>1, <3>1, <3>3, <4>1, HandleFrames
    <3> QED
      BY <3>1, <3>2, <3>3
  <2>3. /\ counted \in Handle
        /\ counted.name = h.name /\ counted.proto = h.proto /\ counted.state = h.state
    <3>1. counted \in Handle
      BY <2>2, FieldTypes
    <3>2. /\ counted.name = pinged.name
          /\ counted.proto = pinged.proto
          /\ counted.state = pinged.state
      <4> HIDE DEF pinged, n
      <4> QED
        BY <2>2, OtherFields
    <3> QED
      BY <2>2, <3>1, <3>2
  <2>4. \/ handle' = [handle EXCEPT ![tick.cur] = counted]
        \/ handle' = [handle EXCEPT ![tick.cur] = Disconnect(counted)]
    BY <1>15 DEF PingAndTimeout
  <2> HIDE DEF counted
  <2>5. PICK g : /\ handle' = [handle EXCEPT ![tick.cur] = g]
                 /\ g = counted \/ g = Disconnect(counted)
    BY <2>4
  <2>6. g.name = h.name /\ g.proto = h.proto /\ g.state = h.state
    <3> HIDE DEF h
    <3> QED
      BY <2>3, <2>5, HandleFrames
  <2> QED
    BY <2>1, <2>5, <2>6 DEF Same, SameName, SameProto, SameState
<1>16. CASE EndTick
  BY <1>0, <1>16 DEF EndTick
<1>17. CASE TakeRequest
  BY <1>0, <1>17 DEF TakeRequest
<1>18. CASE KickUser
  BY <1>18, HandleFrames DEF KickUser, Same, SameName, SameProto, SameState
<1>19. CASE DropAnswer
  BY <1>0, <1>19 DEF DropAnswer
<1>20. CASE BroadcastAuthenticated
  BY <1>2, <1>20 DEF BroadcastAuthenticated, AuthPosition, Request
<1>21. CASE StopAuthenticator
  BY <1>0, <1>21 DEF StopAuthenticator
<1>22. CASE CloseListener \/ AskRestart
  BY <1>0, <1>22 DEF CloseListener, AskRestart
<1>23. CASE TickThreadEnded
  BY <1>0, <1>23 DEF TickThreadEnded
<1>24. ASSUME NEW c \in Ids, DestroyNext(c) PROVE Same
  BY <1>24 DEF DestroyNext, Same, SameName, SameProto, SameState, Handle
<1>25. CASE ClearClients
  BY <1>0, <1>25 DEF ClearClients
<1>26. CASE UNCHANGED vars
  BY <1>0, <1>26 DEF vars
<1> QED
  BY <1>3, <1>4, <1>5, <1>6, <1>7, <1>8, <1>9, <1>10, <1>11, <1>12, 
     <1>13, <1>14, <1>15, <1>16, <1>17, <1>18, <1>19, <1>20, <1>21, 
     <1>22, <1>23, <1>24, <1>25, <1>26
  DEF Next, Peers, Tick, ServerTick, Authenticator, Shutdown, ServerStopped, ServerStuck,
      Destroy, Thread, Writes

\* The three steps in which a connection is accepted.
Accepting == AcceptConnection \/ ListClient \/ CreateLink

\* Only they add to m_Clients, and count clients.
LEMMA ClientsWritten ==
  ASSUME [Next]_vars, ~Accepting
  PROVE  /\ clients' \subseteq clients
         /\ UNCHANGED <<count, accepting>>
<1>1. ASSUME NEW h, Continue(h) \/ Abandon(h)
      PROVE  UNCHANGED <<clients, count, accepting>>
  BY <1>1 DEF Continue, Abandon, TickUnchanged, netVars
<1>2. ASSUME AddReceivedData PROVE UNCHANGED <<clients, count, accepting>>
  BY <1>1, <1>2
  DEF AddReceivedData, HandleStatusRequest, HandleStatusPing, HandleLoginInfo,
      HandleStrayStatusRequest, HandleLogin, HandleMedia, HandleIgnored,
      HandleWrongSize, HandleUnknown, HandleEmpty, PacketsDone, TickUnchanged,
      netVars
<1>3. ASSUME NEW c \in Ids,
             ReceivePacket(c) \/ CloseConnection(c) \/ RemoveDestroyed(c)
               \/ TakeIncoming(c) \/ DestroyNext(c)
      PROVE  clients' \subseteq clients /\ UNCHANGED <<count, accepting>>
  BY <1>3
  DEF ReceivePacket, CloseConnection, RemoveDestroyed, TakeIncoming, DestroyNext,
      TickUnchanged, netVars
<1>4. ASSUME NEW t, DestroyOnce(t) \/ SetDestroyed(t) \/ BroadcastDestroyed(t)
      PROVE  UNCHANGED <<clients, count, accepting>>
  BY <1>4 DEF DestroyOnce, SetDestroyed, BroadcastDestroyed, netVars
<1>5. ASSUME StartTick \/ FlushOutgoing \/ SendOnLink \/ WriteToLink
               \/ CheckAuthenticated \/ SetWorking
               \/ (\E due \in BOOLEAN : PingAndTimeout(due)) \/ EndTick
      PROVE  UNCHANGED <<clients, count, accepting>>
  BY <1>5
  DEF StartTick, FlushOutgoing, SendOnLink, WriteToLink, CheckAuthenticated, SetWorking,
      PingAndTimeout, EndTick, TickUnchanged, netVars
<1>6. ASSUME Authenticator PROVE UNCHANGED <<clients, count, accepting>>
  BY <1>6
  DEF Authenticator, TakeRequest, KickUser, DropAnswer, Authenticate,
      SetAuthenticated, BroadcastAuthenticated, StopAuthenticator, netVars
<1>7. ASSUME CloseListener \/ AskRestart \/ TickThreadEnded \/ ClearClients
      PROVE  clients' \subseteq clients /\ UNCHANGED <<count, accepting>>
  BY <1>7 DEF CloseListener, AskRestart, TickThreadEnded, ClearClients, netVars
<1> QED
  BY <1>2, <1>3, <1>4, <1>5, <1>6, <1>7
  DEF Next, Peers, Accepting, Tick, ServerTick, Shutdown, ServerStopped, ServerStuck,
      Destroy, vars

\* m_Username is written by Authenticate() and by nothing else.
LEMMA NamesWritten ==
  ASSUME TypeOK, [Next]_vars, ~Authenticate
  PROVE  SameName
<1> USE DEF SameName
<1>1. CASE ~Writes
  BY <1>1, Frames DEF Same
<1>2. ASSUME AddReceivedData PROVE tick.cur \in Ids /\ handle[tick.cur] \in Handle
  BY <1>2, PacketAt
<1>3. ASSUME NEW h \in Handle, Continue(h), tick.cur \in Ids,
             h.name = handle[tick.cur].name
      PROVE  SameName
  BY <1>3 DEF TypeOK, Continue
<1>4. ASSUME AddReceivedData, handle[tick.cur].received # <<>>
      PROVE  Rest \in Handle /\ Packet1 \in Packet /\ Rest.name = handle[tick.cur].name
  BY <1>2, <1>4, PacketTypes DEF Rest, Handle
<1>5. ASSUME NEW h \in Handle, HandleLogin(Packet1.name, Packet1.ok, h),
             tick.cur \in Ids, h.name = handle[tick.cur].name
      PROVE  SameName
  <2>1. /\ [h EXCEPT !.state = csAuthenticating] \in Handle
        /\ [h EXCEPT !.state = csAuthenticating].name = h.name
    BY FieldTypes, StateTypes DEF Handle
  <2> QED
    BY <1>3, <1>5, <2>1 DEF HandleLogin
<1>6. CASE HandleStatusRequest
  <2>1. AddReceivedData /\ handle[tick.cur].received # <<>>
    BY <1>6 DEF AddReceivedData, HandleStatusRequest, AtPacket
  <2>2. ASSUME ValidState(Packet1.next)
        PROVE  LET h == [Rest EXCEPT !.proto = Packet1.next]
               IN h \in Handle /\ h.name = handle[tick.cur].name
    BY <1>4, <2>1, <2>2, FieldTypes DEF ValidState, Handle
  <2> QED
    BY <1>2, <1>3, <1>4, <1>6, <2>1, <2>2, HandleTypes, HandleFrames
    DEF HandleStatusRequest
<1>7. CASE HandleLoginInfo
  <2>1. AddReceivedData /\ handle[tick.cur].received # <<>>
    BY <1>7 DEF AddReceivedData, HandleLoginInfo, AtPacket
  <2> QED
    BY <1>2, <1>4, <1>5, <1>7, <2>1 DEF HandleLoginInfo
<1>8. CASE HandleStrayStatusRequest
  <2>1. AddReceivedData /\ handle[tick.cur].received # <<>>
    BY <1>8 DEF AddReceivedData, HandleStrayStatusRequest, AtPacket
  <2>2. Rest \in Handle /\ Rest.name = handle[tick.cur].name
    BY <1>4, <2>1
  <2>3. Disconnect(Rest) \in Handle /\ Disconnect(Rest).name = Rest.name
    BY <2>2, HandleTypes, HandleFrames
  <2> QED
    BY <1>2, <1>5, <1>8, <2>1, <2>2, <2>3 DEF HandleStrayStatusRequest
<1>9. CASE SetWorking
  BY <1>9 DEF SetWorking, TypeOK, Handle
<1>10. CASE SetAuthenticated
  BY <1>10 DEF SetAuthenticated, TypeOK, Handle
<1>11. ASSUME NEW t \in Thread, DestroyOnce(t) \/ SetDestroyed(t) PROVE SameName
  <2>1. \/ UNCHANGED handle
        \/ handle' = [handle EXCEPT ![call[t].id].state = csDestroying]
        \/ handle' = [handle EXCEPT ![call[t].id].state = csDestroyed]
    BY <1>11 DEF DestroyOnce, SetDestroyed
  <2>2. ASSUME NEW d, NEW st, handle' = [handle EXCEPT ![d].state = st]
        PROVE  SameName
    BY <2>2 DEF TypeOK, Handle
  <2> QED
    BY <2>1, <2>2
<1> QED
  BY <1>1, <1>6, <1>7, <1>8, <1>9, <1>10, <1>11 DEF Writes

\* Authenticate() either gives a listed client without a name the name nobody
\* in m_Clients has, or leaves all names alone.
LEMMA AuthenticateNames ==
  ASSUME TypeOK, Authenticate
  PROVE  /\ auth.req.id \in clients
         /\ UNCHANGED <<clients, count, accepting, shown, tick>>
         /\ \/ Same /\ auth'.pc = "idle"
            \/ /\ CheckMultiLogin(auth.req.name)
               /\ handle'[auth.req.id].name = auth.req.name
               /\ handle'[auth.req.id].proto = psWork
               /\ handle'[auth.req.id].state = handle[auth.req.id].state
               /\ \A c \in Ids \ {auth.req.id} : handle'[c] = handle[c]
               /\ auth' = [auth EXCEPT !.pc = "named"]
<1> DEFINE c == auth.req.id
           h == handle[c]
           named == [h EXCEPT !.name = auth.req.name]
<1>1. /\ c \in clients /\ c \in Ids
      /\ auth.req \in Request
      /\ UNCHANGED <<clients, count, accepting, shown, tick>>
  BY DEF Authenticate, TypeOK, AuthPosition, peerVars, netVars
<1>2. /\ h \in Handle /\ named \in Handle
      /\ named.name = auth.req.name /\ named.state = h.state
  <2>1. h \in Handle /\ auth.req.name \in Name
    BY <1>1 DEF TypeOK, Request
  <2>2. named \in Handle
    BY <2>1, FieldTypes
  <2> QED
    BY <2>1, <2>2 DEF Handle
<1>3. CASE CheckMultiLogin(auth.req.name)
  <2>1. /\ handle' = [handle EXCEPT ![c] = SendLoginSuccess(named)]
        /\ auth' = [auth EXCEPT !.pc = "named"]
    BY <1>3 DEF Authenticate, AuthGoto
  <2> HIDE DEF named
  <2> QED
    BY <1>1, <1>2, <1>3, <2>1, HandleFrames DEF TypeOK
<1>4. CASE ~CheckMultiLogin(auth.req.name)
  <2>1. /\ handle' = [handle EXCEPT ![c] = Disconnect(h)]
        /\ auth'.pc = "idle"
    BY <1>4 DEF Authenticate, AuthIdle
  <2> QED
    BY <1>1, <1>2, <2>1, HandleFrames
    DEF Same, SameName, SameProto, SameState, TypeOK
<1> QED
  BY <1>1, <1>3, <1>4

-----------------------------------------------------------------------------
(* m_State and the protocol's state *)

\* Apart from Authenticate(), a step changes the protocol's state only in the
\* status state, and m_State only by destroying the client, by a login read in
\* the login state, or by the promotions of the two threads.
LEMMA StatesWritten ==
  ASSUME TypeOK, [Next]_vars, ~Authenticate, NEW c \in Ids
  PROVE  /\ \/ handle'[c].proto = handle[c].proto
            \/ /\ handle[c].proto = psStatus
               /\ handle'[c].proto \in {psStatus, psLogin}
               /\ handle'[c].state = handle[c].state
         /\ \/ handle'[c].state = handle[c].state
            \/ /\ handle[c].state < csDestroying /\ handle'[c].state = csDestroying
               /\ \E t \in Thread : DestroyOnce(t) /\ call[t].id = c
            \/ /\ handle'[c].state = csDestroyed
               /\ \E t \in Thread : SetDestroyed(t) /\ call[t].id = c
            \/ /\ handle'[c].state = csAuthenticating /\ handle[c].proto = psLogin
               /\ tick.pc = "packets" /\ tick.cur = c /\ handle[c].received # <<>>
            \/ /\ handle'[c].state = csWorking
               /\ tick.pc = "promoting" /\ tick.cur = c
            \/ /\ handle'[c].state = csAuthenticated /\ SetAuthenticated
               /\ auth.pc = "named" /\ auth.req.id = c
<1>1. CASE ~Writes
  BY <1>1, Frames DEF Same, SameProto, SameState
<1>2. ASSUME AddReceivedData, handle[tick.cur].received # <<>>
      PROVE  /\ tick.cur \in Ids /\ handle[tick.cur] \in Handle
             /\ Rest \in Handle /\ Packet1 \in Packet
             /\ Rest.proto = handle[tick.cur].proto
             /\ Rest.state = handle[tick.cur].state
  BY <1>2, PacketAt, PacketTypes DEF Rest, Handle
<1>3. CASE HandleStatusRequest
  <2>1. AddReceivedData /\ handle[tick.cur].received # <<>>
    BY <1>3 DEF AddReceivedData, HandleStatusRequest, AtPacket
  <2>2. handle[tick.cur].proto = psStatus
    BY <1>3 DEF HandleStatusRequest, AtPacket
  <2>3. CASE ValidState(Packet1.next)
    <3> DEFINE h == [Rest EXCEPT !.proto = Packet1.next]
    <3>1. /\ h \in Handle /\ h.proto \in {psStatus, psLogin}
          /\ h.state = handle[tick.cur].state
      BY <1>2, <2>1, <2>3, FieldTypes DEF ValidState, Handle
    <3>2. handle' = [handle EXCEPT ![tick.cur] = Queue(h)]
      BY <1>3, <2>3 DEF HandleStatusRequest, Continue
    <3> HIDE DEF h
    <3> QED
      BY <1>2, <2>1, <2>2, <3>1, <3>2, HandleFrames DEF TypeOK
  <2>4. CASE ~ValidState(Packet1.next)
    <3>1. handle' = [handle EXCEPT ![tick.cur] = Disconnect(Rest)]
      BY <1>3, <2>4 DEF HandleStatusRequest, Continue
    <3> QED
      BY <1>2, <2>1, <3>1, HandleFrames DEF TypeOK
  <2> QED
    BY <2>3, <2>4
<1>4. ASSUME NEW h \in Handle, tick.cur \in Ids,
             handle' = [handle EXCEPT ![tick.cur] = [h EXCEPT !.state = csAuthenticating]],
             handle[tick.cur].proto = psLogin, h.proto = psLogin
      PROVE  /\ handle'[c].proto = handle[c].proto
             /\ \/ handle'[c].state = handle[c].state
                \/ /\ handle'[c].state = csAuthenticating /\ tick.cur = c
                   /\ handle[c].proto = psLogin
  <2>1. /\ [h EXCEPT !.state = csAuthenticating].proto = psLogin
        /\ [h EXCEPT !.state = csAuthenticating].state = csAuthenticating
    BY <1>4 DEF Handle
  <2> QED
    BY <1>4, <2>1 DEF TypeOK
<1>5. CASE HandleLoginInfo
  <2>1. /\ AddReceivedData /\ handle[tick.cur].received # <<>>
        /\ handle[tick.cur].proto = psLogin /\ tick.pc = "packets"
    BY <1>5 DEF AddReceivedData, HandleLoginInfo, AtPacket
  <2>2. handle' = [handle EXCEPT ![tick.cur] = [Rest EXCEPT !.state = csAuthenticating]]
    BY <1>5 DEF HandleLoginInfo, HandleLogin, Continue
  <2> QED
    BY <1>2, <1>4, <2>1, <2>2
<1>6. CASE HandleStrayStatusRequest
  <2>1. /\ AddReceivedData /\ handle[tick.cur].received # <<>>
        /\ handle[tick.cur].proto = psLogin /\ tick.pc = "packets"
    BY <1>6 DEF AddReceivedData, HandleStrayStatusRequest, AtPacket
  <2>2. handle' = [handle EXCEPT ![tick.cur] =
                    [Disconnect(Rest) EXCEPT !.state = csAuthenticating]]
    BY <1>6 DEF HandleStrayStatusRequest, HandleLogin, Continue
  <2>3. Disconnect(Rest) \in Handle /\ Disconnect(Rest).proto = psLogin
    BY <1>2, <2>1, HandleTypes, HandleFrames
  <2> QED
    BY <1>2, <1>4, <2>1, <2>2, <2>3
<1>7. ASSUME NEW d, NEW st, handle' = [handle EXCEPT ![d].state = st]
      PROVE  /\ handle'[c].proto = handle[c].proto
             /\ handle'[c].state = IF c = d THEN st ELSE handle[c].state
  BY <1>7 DEF TypeOK, Handle
<1>8. CASE SetWorking
  BY <1>7, <1>8 DEF SetWorking
<1>9. CASE SetAuthenticated
  BY <1>7, <1>9 DEF SetAuthenticated
<1>10. ASSUME NEW t \in Thread, DestroyOnce(t)
       PROVE  /\ handle'[c].proto = handle[c].proto
              /\ \/ handle'[c].state = handle[c].state
                 \/ /\ handle[c].state < csDestroying /\ handle'[c].state = csDestroying
                    /\ call[t].id = c
  <2>1. \/ UNCHANGED handle
        \/ /\ ~(handle[call[t].id].state >= csDestroying)
           /\ handle' = [handle EXCEPT ![call[t].id].state = csDestroying]
    BY <1>10 DEF DestroyOnce
  <2>2. handle[c] \in Handle
    BY DEF TypeOK
  <2>3. ~(handle[c].state >= csDestroying) => handle[c].state < csDestroying
    BY <2>2 DEF Handle, csConnected, csDestroying, csDestroyed
  <2>4. CASE UNCHANGED handle
    BY <2>4
  <2>5. CASE ~UNCHANGED handle
    BY <1>7, <2>1, <2>3, <2>5
  <2> QED
    BY <2>4, <2>5
<1>11. ASSUME NEW t \in Thread, SetDestroyed(t)
       PROVE  /\ handle'[c].proto = handle[c].proto
              /\ \/ handle'[c].state = handle[c].state
                 \/ handle'[c].state = csDestroyed /\ call[t].id = c
  BY <1>7, <1>11 DEF SetDestroyed
<1> QED
  BY <1>1, <1>3, <1>5, <1>6, <1>8, <1>9, <1>10, <1>11, <1>2, <1>4 DEF Writes

\* How m_State changes, Authenticate() included: that one leaves it alone.
LEMMA StateMoves ==
  ASSUME TypeOK, [Next]_vars, NEW c \in Ids
  PROVE  \/ handle'[c].state = handle[c].state
         \/ /\ handle[c].state < csDestroying /\ handle'[c].state = csDestroying
            /\ \E t \in Thread : DestroyOnce(t) /\ call[t].id = c
         \/ /\ handle'[c].state = csDestroyed
            /\ \E t \in Thread : SetDestroyed(t) /\ call[t].id = c
         \/ /\ handle'[c].state = csAuthenticating /\ handle[c].proto = psLogin
            /\ tick.pc = "packets" /\ tick.cur = c /\ handle[c].received # <<>>
         \/ /\ handle'[c].state = csWorking
            /\ tick.pc = "promoting" /\ tick.cur = c
         \/ /\ handle'[c].state = csAuthenticated /\ SetAuthenticated
            /\ auth.pc = "named" /\ auth.req.id = c
<1>1. CASE Authenticate
  BY <1>1, AuthenticateNames DEF Same, SameState
<1>2. CASE ~Authenticate
  BY <1>2, StatesWritten
<1> QED
  BY <1>1, <1>2

\* Only the authenticator thread moves the authenticator thread.
LEMMA AuthMoves ==
  ASSUME [Next]_vars
  PROVE  \/ UNCHANGED auth
         \/ TakeRequest \/ KickUser \/ DropAnswer \/ Authenticate
         \/ SetAuthenticated \/ BroadcastAuthenticated \/ StopAuthenticator
<1>1. ASSUME NEW h, Continue(h) \/ Abandon(h) PROVE UNCHANGED auth
  BY <1>1 DEF Continue, Abandon, TickUnchanged
<1>2. ASSUME Tick PROVE UNCHANGED auth
  BY <1>1, <1>2
  DEF Tick, ServerTick, AddReceivedData, HandleStatusRequest, HandleStatusPing,
      HandleLoginInfo, HandleStrayStatusRequest, HandleLogin, HandleMedia,
      HandleIgnored, HandleWrongSize, HandleUnknown, HandleEmpty, PacketsDone,
      StartTick, RemoveDestroyed, TakeIncoming, FlushOutgoing, SendOnLink, WriteToLink,
      CheckAuthenticated, SetWorking, PingAndTimeout, EndTick, TickUnchanged
<1>3. ASSUME Peers \/ Shutdown \/ (\E t \in Thread : Destroy(t)) PROVE UNCHANGED auth
  BY <1>3
  DEF Peers, AcceptConnection, ListClient, CreateLink, ReceivePacket, CloseConnection,
      Shutdown, CloseListener, AskRestart, TickThreadEnded, DestroyNext, ClearClients,
      Destroy, DestroyOnce, SetDestroyed, BroadcastDestroyed
<1> QED
  BY <1>2, <1>3 DEF Next, Authenticator, ServerStopped, ServerStuck, Thread, vars

\* The authenticator answers the request it has taken from the queue.
LEMMA VerifiedComesFrom ==
  ASSUME TypeOK, [Next]_vars, auth'.pc = "verified"
  PROVE  UNCHANGED auth \/ TakeRequest
<1>1. ASSUME KickUser \/ DropAnswer \/ Authenticate \/ SetAuthenticated
               \/ BroadcastAuthenticated \/ StopAuthenticator
      PROVE  auth'.pc # "verified"
  BY <1>1
  DEF KickUser, DropAnswer, Authenticate, SetAuthenticated, BroadcastAuthenticated,
      StopAuthenticator, AuthGoto, AuthIdle, TypeOK, AuthPosition
<1> QED
  BY <1>1, AuthMoves

\* How the two threads come to the steps that promote a client.
LEMMA Promoting ==
  ASSUME TypeOK, [Next]_vars
  PROVE  /\ tick'.pc = "promoting" =>
              /\ tick'.cur = tick.cur
              /\ tick.pc = "promoting" \/ handle[tick.cur].state = csAuthenticated
         /\ ~Authenticate /\ auth'.pc \in {"named", "authenticated"} =>
              /\ auth.pc \in {"named", "authenticated"} /\ auth'.req = auth.req
         /\ auth.pc = "named" => UNCHANGED auth \/ SetAuthenticated
<1>1. \/ UNCHANGED tick
      \/ tick' = [tick EXCEPT !.pc = "promoting"]
           /\ handle[tick.cur].state = csAuthenticated
      \/ tick'.pc # "promoting"
  <2>1. ASSUME NEW h, Continue(h) PROVE UNCHANGED tick
    BY <2>1 DEF Continue
  <2>2. ASSUME NEW h, Abandon(h), tick.pc = "packets" PROVE tick'.pc # "promoting"
    BY <2>2 DEF Abandon, TypeOK, TickPosition
  <2>3. ASSUME AddReceivedData PROVE UNCHANGED tick \/ tick'.pc # "promoting"
    BY <2>1, <2>2, <2>3
    DEF AddReceivedData, HandleStatusRequest, HandleStatusPing, HandleLoginInfo,
        HandleStrayStatusRequest, HandleLogin, HandleMedia, HandleIgnored,
        HandleWrongSize, HandleUnknown, HandleEmpty, PacketsDone, AtPacket
  <2>4. ASSUME NEW c \in Ids, RemoveDestroyed(c) \/ TakeIncoming(c)
        PROVE  tick'.pc # "promoting"
    <3>1. CASE RemoveDestroyed(c)
      BY <3>1 DEF RemoveDestroyed, NextClient, TypeOK, TickPosition
    <3>2. CASE TakeIncoming(c)
      BY <3>2 DEF TakeIncoming
    <3> QED
      BY <2>4, <3>1, <3>2
  <2>5. ASSUME StartTick \/ FlushOutgoing \/ SendOnLink \/ WriteToLink \/ SetWorking
                 \/ (\E due \in BOOLEAN : PingAndTimeout(due)) \/ EndTick
        PROVE  tick'.pc # "promoting"
    <3>1. ASSUME NEW pc, TickGoto(pc) PROVE tick'.pc = pc
      BY <3>1 DEF TickGoto, TypeOK, TickPosition
    <3>2. CASE StartTick
      BY <3>2 DEF StartTick
    <3>3. CASE FlushOutgoing \/ SendOnLink \/ WriteToLink \/ SetWorking \/ EndTick
      BY <3>1, <3>3 DEF FlushOutgoing, SendOnLink, WriteToLink, SetWorking, EndTick
    <3>4. ASSUME NEW due \in BOOLEAN, PingAndTimeout(due) PROVE tick'.pc # "promoting"
      BY <3>4 DEF PingAndTimeout, TypeOK, TickPosition
    <3> QED
      BY <2>5, <3>2, <3>3, <3>4
  <2>6. ASSUME CheckAuthenticated
        PROVE  \/ /\ tick' = [tick EXCEPT !.pc = "promoting"]
                  /\ handle[tick.cur].state = csAuthenticated
               \/ tick'.pc # "promoting"
    BY <2>6 DEF CheckAuthenticated, TickGoto, TypeOK, TickPosition
  <2>7. ASSUME NEW c \in Ids, ReceivePacket(c) \/ CloseConnection(c) \/ DestroyNext(c)
        PROVE  UNCHANGED tick
    BY <2>7 DEF ReceivePacket, CloseConnection, DestroyNext
  <2>8. ASSUME NEW t, DestroyOnce(t) \/ SetDestroyed(t) \/ BroadcastDestroyed(t)
        PROVE  UNCHANGED tick
    BY <2>8 DEF DestroyOnce, SetDestroyed, BroadcastDestroyed
  <2>9. ASSUME Accepting \/ Authenticator \/ CloseListener \/ AskRestart
                 \/ TickThreadEnded \/ ClearClients
        PROVE  UNCHANGED tick
    BY <2>9
    DEF Accepting, AcceptConnection, ListClient, CreateLink, Authenticator,
        TakeRequest, KickUser, DropAnswer, Authenticate, SetAuthenticated,
        BroadcastAuthenticated, StopAuthenticator, CloseListener, AskRestart,
        TickThreadEnded, ClearClients
  <2> QED
    BY <2>3, <2>4, <2>5, <2>6, <2>7, <2>8, <2>9
    DEF Next, Peers, Accepting, Tick, ServerTick, Shutdown, ServerStopped, ServerStuck,
        Destroy, vars
<1>2. \/ UNCHANGED auth
      \/ TakeRequest \/ KickUser \/ DropAnswer \/ Authenticate
      \/ SetAuthenticated \/ BroadcastAuthenticated \/ StopAuthenticator
  BY AuthMoves
<1>3. ASSUME TakeRequest \/ KickUser \/ DropAnswer \/ StopAuthenticator
               \/ BroadcastAuthenticated
      PROVE  auth'.pc \notin {"named", "authenticated"} /\ auth.pc # "named"
  BY <1>3
  DEF TakeRequest, KickUser, DropAnswer, StopAuthenticator, BroadcastAuthenticated,
      AuthGoto, AuthIdle, TypeOK, AuthPosition
<1>4. ASSUME SetAuthenticated PROVE auth.pc = "named" /\ auth'.req = auth.req
  BY <1>4 DEF SetAuthenticated, AuthGoto, TypeOK, AuthPosition
<1>5. ASSUME Authenticate PROVE auth.pc # "named"
  BY <1>5 DEF Authenticate
<1> QED
  BY <1>1, <1>2, <1>3, <1>4, <1>5 DEF TypeOK, TickPosition

\* Every step keeps the two state machines of a client in agreement.
LEMMA PhasesStep == TypeOK /\ Phases /\ [Next]_vars => Phases'
<1> SUFFICES ASSUME TypeOK, Phases, [Next]_vars PROVE Phases'
  OBVIOUS
<1> USE DEF HasName, Admitted, csAuthenticating, csAuthenticated, csWorking,
            csDestroying, csDestroyed, psStatus, psLogin, psWork
<1>1. /\ auth.pc = "named" => auth.req.id \in Ids
      /\ tick.pc = "promoting" => tick.cur \in Ids
      /\ tick'.pc = "promoting" => tick'.cur \in Ids
      /\ auth'.pc \in {"named", "authenticated"} => auth'.req.id \in Ids
  BY NextTypeOK DEF TypeOK, AuthPosition, TickPosition, Request
<1>2. CASE Authenticate
  <2>1. CASE Same /\ auth'.pc = "idle"
    BY <1>1, <1>2, <2>1, AuthenticateNames
    DEF Phases, Same, SameName, SameProto, SameState, Authenticate
  <2>2. CASE ~(Same /\ auth'.pc = "idle")
    <3> DEFINE c == auth.req.id
    <3>1. c \in Ids /\ handle[c].state = csAuthenticating /\ handle[c].proto # psWork
      BY <1>2, AuthenticateNames DEF Authenticate, Awaiting, TypeOK, Phases
    <3>2. auth.req.name # NoName
      BY <1>2, <2>2, <3>1, AuthenticateNames DEF CheckMultiLogin, Named, Phases
    <3>3. /\ handle'[c].name # NoName /\ handle'[c].proto = psWork
          /\ handle'[c].state = csAuthenticating
          /\ \A d \in Ids \ {c} : handle'[d] = handle[d]
          /\ auth'.pc = "named" /\ auth'.req.id = c
          /\ UNCHANGED tick /\ auth.pc = "verified"
      BY <1>2, <2>2, <3>1, <3>2, AuthenticateNames DEF TypeOK, AuthPosition, Authenticate
    <3> QED
      BY <1>1, <3>1, <3>3 DEF Phases
  <2> QED
    BY <2>1, <2>2
<1>3. CASE ~Authenticate
  <2>1. ASSUME NEW c \in Ids
        PROVE  /\ HasName(c)' <=> handle'[c].proto = psWork
               /\ HasName(c)' <=> HasName(c)
    BY <1>3, NamesWritten, StatesWritten DEF SameName, Phases
  <2>2. ASSUME NEW c \in Ids, handle'[c].state = csAuthenticating
        PROVE  \/ handle'[c].proto = psLogin
               \/ auth'.pc = "named" /\ auth'.req.id = c
    <3>1. CASE handle[c].proto = psLogin
      BY <1>3, <3>1, StatesWritten
    <3>2. CASE handle[c].proto # psLogin
      <4>1. handle[c].state = csAuthenticating
        BY <1>3, <2>2, <3>2, StatesWritten
      <4>2. auth.pc = "named" /\ auth.req.id = c
        BY <3>2, <4>1 DEF Phases
      <4>3. ~SetAuthenticated
        BY <2>2, <4>2 DEF SetAuthenticated, TypeOK, Handle
      <4> QED
        BY <4>2, <4>3, Promoting
    <3> QED
      BY <3>1, <3>2
  <2>3. ASSUME NEW c \in Ids, Admitted(c)' PROVE HasName(c)'
    <3>1. \/ Admitted(c)
          \/ tick.pc = "promoting" /\ tick.cur = c
          \/ auth.pc = "named" /\ auth.req.id = c
      BY <1>3, <2>3, StatesWritten
    <3> QED
      BY <2>1, <3>1 DEF Phases
  <2>4. auth'.pc \in {"named", "authenticated"}
          => HasName(auth.req.id)' /\ auth'.req = auth.req
    BY <1>1, <1>3, <2>1, Promoting DEF Phases
  <2>5. tick'.pc = "promoting" => HasName(tick.cur)' /\ tick'.cur = tick.cur
    BY <1>1, <2>1, Promoting DEF Phases
  <2> QED
    BY <2>1, <2>2, <2>3, <2>4, <2>5 DEF Phases
<1> QED
  BY <1>2, <1>3

\* At the start no client has a name or waits for an answer.
LEMMA InitPhases == Init => Phases
  BY DEF Init, Phases, HasName, Admitted, NewHandle, csConnected, csAuthenticating,
         csAuthenticated, csWorking, psStatus, psLogin, psWork

\* m_State and the protocol's state, written by different threads, agree.
THEOREM StatesAgree == Spec => []PhasesAgree
<1>1. Phases => PhasesAgree
  BY DEF Phases, PhasesAgree
<1> QED
  BY <1>1, InitPhases, PhasesStep, TypeCorrect, PTL DEF Spec

\* No answer, however late, renames a client.
THEOREM NamesAreKept == Spec => NameKept
<1>1. TypeOK /\ Phases /\ [Next]_vars
        => [\A c \in Ids : HasName(c) => handle'[c].name = handle[c].name]_vars
  <2> SUFFICES ASSUME TypeOK, Phases, [Next]_vars, NEW c \in Ids, HasName(c)
               PROVE  handle'[c].name = handle[c].name
    OBVIOUS
  <2>1. CASE ~Authenticate
    BY <2>1, NamesWritten DEF SameName
  <2>2. CASE Authenticate
    <3>1. c # auth.req.id
      BY <2>2 DEF Authenticate, Awaiting, Phases, psLogin, psWork
    <3> QED
      BY <2>2, <3>1, AuthenticateNames DEF Same, SameName
  <2> QED
    BY <2>1, <2>2
<1> QED
  BY <1>1, InitPhases, PhasesStep, TypeCorrect, PTL DEF Spec, NameKept

-----------------------------------------------------------------------------
(* Passwords: from the wire to the name *)

\* Buffers of packets whose passwords are vouched for, under the operations
\* the two threads apply to them.
LEMMA VouchedSequences ==
  ASSUME NEW S, NEW T, S \subseteq T,
         NEW s \in Seq(Packet), Vouched(S, s),
         NEW t \in Seq(Packet), Vouched(S, t)
  PROVE  /\ Vouched(T, s)
         /\ \A p \in Packet :
              (CarriesLogin(p) /\ p.ok => p.name \in T) => Vouched(T, Append(s, p))
         /\ Vouched(T, s \o t)
         /\ s # <<>> => Vouched(T, Tail(s))
<1>1. Vouched(T, s)
  BY DEF Vouched
<1>2. ASSUME NEW p \in Packet, CarriesLogin(p) /\ p.ok => p.name \in T
      PROVE  Vouched(T, Append(s, p))
  BY <1>2 DEF Vouched
<1>3. Vouched(T, s \o t)
  BY DEF Vouched
<1>4. ASSUME s # <<>> PROVE Vouched(T, Tail(s))
  BY <1>4 DEF Vouched
<1> QED
  BY <1>1, <1>2, <1>3, <1>4

\* Nothing ever leaves the set of names a peer has proved.
LEMMA ShownGrows ==
  ASSUME TypeOK, [Next]_vars, NEW c \in Ids
  PROVE  /\ shown[c] \subseteq shown'[c]
         /\ (\A d \in Ids : ~ReceivePacket(d)) => UNCHANGED shown
<1>1. ASSUME NEW d \in Ids, ReceivePacket(d) PROVE shown[c] \subseteq shown'[c]
  BY <1>1 DEF ReceivePacket, TypeOK
<1>2. ASSUME NEW h, Continue(h) \/ Abandon(h) PROVE UNCHANGED shown
  BY <1>2 DEF Continue, Abandon, TickUnchanged, peerVars
<1>3. ASSUME Tick PROVE UNCHANGED shown
  BY <1>2, <1>3
  DEF Tick, ServerTick, AddReceivedData, HandleStatusRequest, HandleStatusPing,
      HandleLoginInfo, HandleStrayStatusRequest, HandleLogin, HandleMedia,
      HandleIgnored, HandleWrongSize, HandleUnknown, HandleEmpty, PacketsDone,
      StartTick, RemoveDestroyed, TakeIncoming, FlushOutgoing, SendOnLink, WriteToLink,
      CheckAuthenticated, SetWorking, PingAndTimeout, EndTick, TickUnchanged,
      peerVars
<1>4. ASSUME Authenticator \/ Shutdown \/ (\E t \in Thread : Destroy(t))
      PROVE  UNCHANGED shown
  BY <1>4
  DEF Authenticator, TakeRequest, KickUser, DropAnswer, Authenticate,
      SetAuthenticated, BroadcastAuthenticated, StopAuthenticator, Shutdown,
      CloseListener, AskRestart, TickThreadEnded, DestroyNext, ClearClients, Destroy,
      DestroyOnce, SetDestroyed, BroadcastDestroyed, peerVars
<1>5. ASSUME NEW d \in Ids, Accepting \/ CloseConnection(d)
      PROVE  UNCHANGED shown
  BY <1>5 DEF Accepting, AcceptConnection, ListClient, CreateLink, CloseConnection
<1> QED
  BY <1>1, <1>3, <1>4, <1>5
  DEF Next, Peers, Accepting, ServerStopped, ServerStuck, Thread, vars

SamePackets(c) ==
  /\ handle'[c].incoming = handle[c].incoming
  /\ handle'[c].received = handle[c].received

\* Only the arrival of a packet, and the tick thread's parser, change the
\* buffers of received packets.
LEMMA PacketsWritten ==
  ASSUME TypeOK, [Next]_vars, NEW c \in Ids, ~AddReceivedData,
         ~ReceivePacket(c), ~TakeIncoming(c)
  PROVE  SamePackets(c)
<1> USE DEF TypeOK
<1>1. ASSUME UNCHANGED handle PROVE SamePackets(c)
  BY <1>1 DEF SamePackets
<1>2. ASSUME NEW d, NEW h, handle' = [handle EXCEPT ![d] = h],
             d \in Ids => /\ h.incoming = handle[d].incoming
                         /\ h.received = handle[d].received
      PROVE  SamePackets(c)
  BY <1>2 DEF SamePackets
<1>3. ASSUME NEW d, BroadcastUserInfo(d) PROVE SamePackets(c)
  BY <1>3 DEF BroadcastUserInfo, SamePackets, Handle
<1>4. CASE CreateLink
  BY <1>4 DEF CreateLink, SamePackets, Handle
<1>5. ASSUME NEW d \in Ids \ {c}, ReceivePacket(d) PROVE SamePackets(c)
  <2>1. PICK h : handle' = [handle EXCEPT ![d] = h]
    BY <1>5 DEF ReceivePacket
  <2> QED
    BY <2>1 DEF SamePackets
<1>6. ASSUME NEW d \in Ids, CloseConnection(d) \/ DestroyNext(d) PROVE SamePackets(c)
  <2>1. handle' = [handle EXCEPT ![d].link = FALSE]
    BY <1>6 DEF CloseConnection, DestroyNext
  <2> QED
    BY <2>1 DEF SamePackets, Handle
<1>7. ASSUME NEW t \in Thread, DestroyOnce(t) \/ SetDestroyed(t) PROVE SamePackets(c)
  <2>1. \/ UNCHANGED handle
        \/ handle' = [handle EXCEPT ![call[t].id].state = csDestroying]
        \/ handle' = [handle EXCEPT ![call[t].id].state = csDestroyed]
    BY <1>7 DEF DestroyOnce, SetDestroyed
  <2>2. ASSUME NEW d, NEW st, handle' = [handle EXCEPT ![d].state = st]
        PROVE  SamePackets(c)
    BY <2>2 DEF SamePackets, Handle
  <2> QED
    BY <1>1, <2>1, <2>2
<1>8. ASSUME NEW t \in Thread, BroadcastDestroyed(t) PROVE SamePackets(c)
  BY <1>3, <1>8 DEF BroadcastDestroyed
<1>9. ASSUME NEW d \in Ids \ {c}, TakeIncoming(d) PROVE SamePackets(c)
  <2>1. PICK h : handle' = [handle EXCEPT ![d] = h]
    BY <1>9 DEF TakeIncoming
  <2> QED
    BY <2>1 DEF SamePackets
<1>10. ASSUME NEW d \in Ids, RemoveDestroyed(d) PROVE SamePackets(c)
  BY <1>1, <1>10 DEF RemoveDestroyed
<1>11. CASE StartTick \/ SendOnLink \/ WriteToLink \/ CheckAuthenticated \/ EndTick
  BY <1>1, <1>11 DEF StartTick, SendOnLink, WriteToLink, CheckAuthenticated, EndTick
<1>12. CASE FlushOutgoing
  <2>1. handle' = [handle EXCEPT ![tick.cur].pending = FALSE]
    BY <1>12 DEF FlushOutgoing
  <2> QED
    BY <2>1 DEF SamePackets, Handle
<1>13. CASE SetWorking
  BY <1>13 DEF SetWorking, SamePackets, Handle
<1>14. ASSUME NEW due \in BOOLEAN, PingAndTimeout(due) PROVE SamePackets(c)
  <2> DEFINE h == handle[tick.cur]
             pinged == IF due /\ h.state = csWorking /\ h.proto = psWork
                       THEN Queue(h) ELSE h
             n == IF h.ticks > MaxTicks THEN h.ticks ELSE h.ticks + 1
             counted == [pinged EXCEPT !.ticks = n]
  <2>1. tick.cur \in Ids /\ h \in Handle /\ h.ticks \in Nat
    BY <1>14 DEF PingAndTimeout, TickPosition, Handle
  <2>2. /\ pinged \in Handle /\ n \in Nat
        /\ pinged.incoming = h.incoming /\ pinged.received = h.received
    <3>1. n \in Nat /\ (pinged = Queue(h) \/ pinged = h)
      BY <2>1
    <3> HIDE DEF pinged, n
    <3>2. CASE pinged = h
      BY <2>1, <3>1, <3>2
    <3>3. CASE pinged = Queue(h)
      <4>1. Queue(h) \in Handle
        BY <2>1, HandleTypes
      <4> QED
        BY <2>1, <3>1, <3>3, <4>1, HandleFrames
    <3> QED
      BY <3>1, <3>2, <3>3
  <2>3. /\ counted \in Handle
        /\ counted.incoming = h.incoming /\ counted.received = h.received
    <3>1. counted \in Handle
      BY <2>2, FieldTypes
    <3>2. /\ counted.incoming = pinged.incoming
          /\ counted.received = pinged.received
      <4> HIDE DEF pinged, n
      <4> QED
        BY <2>2, OtherFields
    <3> QED
      BY <2>2, <3>1, <3>2
  <2>4. \/ handle' = [handle EXCEPT ![tick.cur] = counted]
        \/ handle' = [handle EXCEPT ![tick.cur] = Disconnect(counted)]
    BY <1>14 DEF PingAndTimeout
  <2> HIDE DEF counted
  <2> QED
    BY <1>2, <2>1, <2>3, <2>4, HandleFrames
<1>15. CASE TakeRequest \/ DropAnswer \/ StopAuthenticator
  BY <1>1, <1>15 DEF TakeRequest, DropAnswer, StopAuthenticator
<1>16. CASE KickUser
  BY <1>16, HandleFrames DEF KickUser, SamePackets
<1>17. CASE Authenticate
  <2> DEFINE h == handle[auth.req.id]
             named == [h EXCEPT !.name = auth.req.name]
  <2>1. auth.req \in Request
    BY <1>17 DEF Authenticate, AuthPosition
  <2>2. h \in Handle /\ auth.req.name \in Name /\ auth.req.id \in Ids
    BY <2>1 DEF Request
  <2>3. /\ named \in Handle
        /\ named.incoming = h.incoming /\ named.received = h.received
    BY <2>2, FieldTypes DEF Handle
  <2>4. \/ handle' = [handle EXCEPT ![auth.req.id] = SendLoginSuccess(named)]
        \/ handle' = [handle EXCEPT ![auth.req.id] = Disconnect(h)]
    BY <1>17 DEF Authenticate
  <2> HIDE DEF named
  <2> QED
    BY <1>2, <2>2, <2>3, <2>4, HandleFrames
<1>18. CASE SetAuthenticated
  BY <1>18 DEF SetAuthenticated, SamePackets, Handle
<1>19. CASE BroadcastAuthenticated
  BY <1>3, <1>19 DEF BroadcastAuthenticated
<1>20. CASE AcceptConnection \/ ListClient \/ CloseListener \/ AskRestart
              \/ TickThreadEnded \/ ClearClients \/ UNCHANGED vars
  BY <1>1, <1>20
  DEF AcceptConnection, ListClient, CloseListener, AskRestart, TickThreadEnded,
      ClearClients, vars
<1> QED
  BY <1>4, <1>5, <1>6, <1>7, <1>8, <1>9, <1>10, <1>11, <1>12, <1>13, 
     <1>14, <1>15, <1>16, <1>17, <1>18, <1>19, <1>20
  DEF Next, Peers, Tick, ServerTick, Authenticator, Shutdown, ServerStopped, ServerStuck,
      Destroy, Thread

\* The parser takes packets off the front of one client's buffer.
LEMMA ParserPackets ==
  ASSUME TypeOK, AddReceivedData, NEW c \in Ids
  PROVE  \/ SamePackets(c)
         \/ /\ handle[c].received # <<>>
            /\ handle'[c].incoming = handle[c].incoming
            /\ handle'[c].received = Tail(handle[c].received)
<1>1. tick.cur \in Ids /\ handle[tick.cur] \in Handle
  BY PacketAt
<1>2. ASSUME handle[tick.cur].received # <<>>
      PROVE  /\ Rest \in Handle
             /\ Rest.incoming = handle[tick.cur].incoming
             /\ Rest.received = Tail(handle[tick.cur].received)
  BY <1>1, <1>2, PacketTypes DEF Rest, Handle
<1> DEFINE Taken(h) == /\ handle[tick.cur].received # <<>>
                       /\ h.incoming = handle[tick.cur].incoming
                       /\ h.received = Tail(handle[tick.cur].received)
<1>3. ASSUME NEW h, Continue(h) \/ Abandon(h), Taken(h) \/ h = handle[tick.cur]
      PROVE  \/ SamePackets(c)
             \/ /\ handle[c].received # <<>>
                /\ handle'[c].incoming = handle[c].incoming
                /\ handle'[c].received = Tail(handle[c].received)
  BY <1>1, <1>3 DEF Continue, Abandon, SamePackets, TypeOK
<1>4. ASSUME NEW h \in Handle, Taken(h)
      PROVE  /\ Taken(Queue(h)) /\ Taken(Disconnect(h))
             /\ Taken([h EXCEPT !.state = csAuthenticating])
             /\ \A n : Taken([h EXCEPT !.proto = n])
  <2>1. Taken(Queue(h)) /\ Taken(Disconnect(h))
    BY <1>4, HandleFrames
  <2>2. /\ Taken([h EXCEPT !.state = csAuthenticating])
        /\ \A n : Taken([h EXCEPT !.proto = n])
    BY <1>4 DEF Handle
  <2> QED
    BY <2>1, <2>2
<1>5. ASSUME handle[tick.cur].received # <<>> PROVE Rest \in Handle /\ Taken(Rest)
  BY <1>2, <1>5
<1>6. CASE HandleStatusRequest
  <2>1. Taken(Rest) /\ Rest \in Handle
    BY <1>5, <1>6 DEF HandleStatusRequest, AtPacket
  <2>2. ASSUME ValidState(Packet1.next)
        PROVE  Taken(Queue([Rest EXCEPT !.proto = Packet1.next]))
    <3>1. [Rest EXCEPT !.proto = Packet1.next] \in Handle
      BY <2>1, <2>2, FieldTypes DEF ValidState
    <3> QED
      BY <1>4, <2>1, <3>1
  <2> HIDE DEF Taken
  <2> QED
    BY <1>3, <1>4, <1>6, <2>1, <2>2 DEF HandleStatusRequest
<1>7. CASE HandleStatusPing
  BY <1>3, <1>4, <1>5, <1>7 DEF HandleStatusPing, AtPacket
<1>8. CASE HandleLoginInfo
  BY <1>3, <1>4, <1>5, <1>8 DEF HandleLoginInfo, HandleLogin, AtPacket
<1>9. CASE HandleStrayStatusRequest
  <2>1. Rest \in Handle /\ Taken(Rest)
    BY <1>5, <1>9 DEF HandleStrayStatusRequest, AtPacket
  <2>2. Disconnect(Rest) \in Handle /\ Taken(Disconnect(Rest))
    BY <1>4, <2>1, HandleTypes
  <2>3. Taken([Disconnect(Rest) EXCEPT !.state = csAuthenticating])
    BY <1>4, <2>2
  <2> HIDE DEF Taken
  <2> QED
    BY <1>3, <1>9, <2>3 DEF HandleStrayStatusRequest, HandleLogin
<1>10. CASE HandleMedia
  <2>1. Rest \in Handle /\ Taken(Rest)
    BY <1>5, <1>10 DEF HandleMedia, AtPacket
  <2>2. /\ handle'[c] \in {Rest, Queue(Rest), handle[c], Queue(handle[c])}
        /\ handle'[c] \in {Rest, Queue(Rest)}
             => c = tick.cur \/ handle'[c] \in {handle[c], Queue(handle[c])}
    BY <1>1, <1>10 DEF HandleMedia
  <2>3. handle[c] \in Handle
    BY DEF TypeOK
  <2> QED
    BY <1>2, <2>1, <2>2, <2>3, HandleFrames DEF SamePackets
<1>11. CASE HandleIgnored \/ HandleEmpty
  BY <1>3, <1>5, <1>11 DEF HandleIgnored, HandleEmpty, AtPacket
<1>12. CASE HandleWrongSize \/ HandleUnknown
  BY <1>3, <1>4, <1>5, <1>12 DEF HandleWrongSize, HandleUnknown, AtPacket
<1>13. CASE PacketsDone
  BY <1>3, <1>13 DEF PacketsDone
<1> QED
  BY <1>6, <1>7, <1>8, <1>9, <1>10, <1>11, <1>12, <1>13 DEF AddReceivedData

\* Whatever is buffered of a client's packets carries correct passwords only
\* for names the client has shown, before and after a step.
LEMMA PacketsVouched ==
  ASSUME TypeOK, [Next]_vars, NEW c \in Ids,
         Vouched(shown[c], handle[c].incoming), Vouched(shown[c], handle[c].received)
  PROVE  /\ Vouched(shown'[c], handle'[c].incoming)
         /\ Vouched(shown'[c], handle'[c].received)
<1>1. /\ handle[c].incoming \in Seq(Packet) /\ handle[c].received \in Seq(Packet)
      /\ handle[c] \in Handle /\ shown[c] \subseteq shown'[c]
  BY ShownGrows DEF TypeOK, Handle
<1>2. ASSUME NEW q \in Seq(Packet), Vouched(shown[c], q)
      PROVE  /\ Vouched(shown'[c], q)
             /\ q # <<>> => Vouched(shown'[c], Tail(q))
  BY <1>1, <1>2, VouchedSequences
<1>3. CASE SamePackets(c)
  BY <1>1, <1>2, <1>3 DEF SamePackets
<1>4. CASE AddReceivedData
  BY <1>1, <1>2, <1>3, <1>4, ParserPackets
<1>5. CASE ReceivePacket(c)
  <2>1. PICK p \in Inbound[c], n \in ResetTicks(c) :
          /\ handle' = [handle EXCEPT ![c].incoming = Append(@, p), ![c].ticks = n]
          /\ shown' = IF CarriesLogin(p) /\ p.ok
                      THEN [shown EXCEPT ![c] = @ \cup {p.name}] ELSE shown
    BY <1>5 DEF ReceivePacket
  <2>2. p \in Packet /\ (CarriesLogin(p) /\ p.ok => p.name \in shown'[c])
    BY <2>1, InboundTypes DEF TypeOK
  <2>3. /\ handle'[c].incoming = Append(handle[c].incoming, p)
        /\ handle'[c].received = handle[c].received
    BY <1>1, <2>1 DEF TypeOK, Handle
  <2>4. Vouched(shown'[c], Append(handle[c].incoming, p))
    BY <1>1, <2>2, VouchedSequences
  <2> QED
    BY <1>1, <1>2, <2>3, <2>4
<1>6. CASE TakeIncoming(c)
  <2> DEFINE h == handle[c]
             taken == [h EXCEPT !.incoming = <<>>]
             kept == [taken EXCEPT !.received = @ \o h.incoming]
  <2>1. <<>> \in Seq(Packet) /\ Vouched(shown'[c], <<>>)
    BY DEF Vouched
  <2>2. taken \in Handle /\ taken.incoming = <<>> /\ taken.received = h.received
    BY <1>1, <2>1, FieldTypes DEF Handle
  <2>3. kept.incoming = <<>> /\ kept.received = h.received \o h.incoming
    BY <1>1 DEF Handle
  <2>4. handle'[c] \in {h, kept, Disconnect(taken)}
    BY <1>6 DEF TakeIncoming, TypeOK
  <2> HIDE DEF taken, kept
  <2>5. \/ handle'[c].incoming = h.incoming /\ handle'[c].received = h.received
        \/ handle'[c].incoming = <<>> /\ handle'[c].received = h.received \o h.incoming
        \/ handle'[c].incoming = <<>> /\ handle'[c].received = h.received
    BY <2>2, <2>3, <2>4, HandleFrames
  <2>6. Vouched(shown'[c], h.received \o h.incoming)
    BY <1>1, VouchedSequences
  <2> QED
    BY <1>1, <1>2, <2>1, <2>5, <2>6
<1> QED
  BY <1>3, <1>4, <1>5, <1>6, PacketsWritten

\* Only the tick thread's parser adds to the authenticator's queue, and only
\* the authenticator takes from it.
LEMMA QueueWritten ==
  ASSUME [Next]_vars, ~HandleLoginInfo, ~HandleStrayStatusRequest, ~TakeRequest
  PROVE  UNCHANGED queue
<1>1. ASSUME AddReceivedData, ~HandleLoginInfo, ~HandleStrayStatusRequest
      PROVE  UNCHANGED queue
  BY <1>1
  DEF AddReceivedData, HandleStatusRequest, HandleStatusPing, HandleMedia,
      HandleIgnored, HandleWrongSize, HandleUnknown, HandleEmpty, PacketsDone,
      Abandon
<1>2. ASSUME NEW c, NEW due, NEW t,
             RemoveDestroyed(c) \/ TakeIncoming(c) \/ PingAndTimeout(due)
               \/ DestroyNext(c) \/ ReceivePacket(c) \/ CloseConnection(c)
               \/ DestroyOnce(t) \/ SetDestroyed(t) \/ BroadcastDestroyed(t)
      PROVE  UNCHANGED queue
  BY <1>2
  DEF RemoveDestroyed, TakeIncoming, PingAndTimeout, DestroyNext, ReceivePacket,
      CloseConnection, DestroyOnce, SetDestroyed, BroadcastDestroyed
<1>3. ASSUME StartTick \/ FlushOutgoing \/ SendOnLink \/ WriteToLink \/ CheckAuthenticated
               \/ SetWorking \/ EndTick \/ Accepting
               \/ CloseListener \/ AskRestart \/ TickThreadEnded \/ ClearClients
      PROVE  UNCHANGED queue
  BY <1>3
  DEF StartTick, FlushOutgoing, SendOnLink, WriteToLink, CheckAuthenticated, SetWorking,
      EndTick, Accepting, AcceptConnection, ListClient, CreateLink, CloseListener,
      AskRestart, TickThreadEnded, ClearClients
<1>4. ASSUME Authenticator, ~TakeRequest PROVE UNCHANGED queue
  BY <1>4
  DEF Authenticator, KickUser, DropAnswer, Authenticate, SetAuthenticated,
      BroadcastAuthenticated, StopAuthenticator
<1> QED
  BY <1>1, <1>2, <1>3, <1>4
  DEF Next, Peers, Accepting, Tick, ServerTick, Shutdown, ServerStopped, ServerStuck,
      Destroy, vars

\* So do the queued logins: a new one is made from a packet of that client.
LEMMA RequestsVouched ==
  ASSUME TypeOK, Proved, [Next]_vars, NEW i \in 1 .. Len(queue'), queue'[i].ok
  PROVE  queue'[i].name \in shown'[queue'[i].id]
<1>0. queue \in Seq(Request) /\ queue' \in Seq(Request)
  BY NextTypeOK DEF TypeOK
<1>1. ASSUME NEW r \in Request, r.name \in shown[r.id] PROVE r.name \in shown'[r.id]
  BY <1>1, ShownGrows DEF Request
<1>2. CASE UNCHANGED queue
  BY <1>0, <1>1, <1>2 DEF Proved
<1>3. CASE TakeRequest
  <2>1. queue # <<>> /\ queue' = Tail(queue)
    BY <1>3 DEF TakeRequest
  <2>2. i + 1 \in 1 .. Len(queue) /\ queue'[i] = queue[i + 1]
    BY <1>0, <2>1
  <2> QED
    BY <1>0, <1>1, <2>2 DEF Proved
<1>4. ASSUME NEW r \in Request, queue' = Append(queue, r),
             r.ok => r.name \in shown[r.id]
      PROVE  queue'[i].name \in shown'[queue'[i].id]
  BY <1>0, <1>1, <1>4 DEF Proved
<1>5. CASE HandleLoginInfo \/ HandleStrayStatusRequest
  <2>1. AddReceivedData /\ handle[tick.cur].received # <<>>
    BY <1>5 DEF AddReceivedData, HandleLoginInfo, HandleStrayStatusRequest, AtPacket
  <2>2. /\ tick.cur \in Ids /\ Packet1 \in Packet
        /\ handle[tick.cur].received \in Seq(Packet)
    BY <2>1, PacketAt, PacketTypes DEF Handle
  <2>3. CarriesLogin(Packet1)
    BY <1>5 DEF HandleLoginInfo, HandleStrayStatusRequest, AtPacket, CarriesLogin, Packet1
  <2>4. Packet1.name \in Name /\ Packet1.ok \in BOOLEAN
    BY <2>2, <2>3 DEF CarriesLogin, Packet, Name
  <2>5. Packet1.ok => Packet1.name \in shown[tick.cur]
    BY <2>1, <2>2, <2>3 DEF Proved, Vouched, Packet1
  <2>6. queue' = Append(queue, [id |-> tick.cur, name |-> Packet1.name, ok |-> Packet1.ok])
    BY <1>5 DEF HandleLoginInfo, HandleStrayStatusRequest, HandleLogin
  <2> QED
    BY <1>4, <2>2, <2>4, <2>5, <2>6 DEF Request
<1> QED
  BY <1>2, <1>3, <1>5, QueueWritten

\* A password follows its client from the wire through the queue to the name.
LEMMA ProvedStep == TypeOK /\ Proved /\ [Next]_vars => Proved'
<1> SUFFICES ASSUME TypeOK, Proved, [Next]_vars PROVE Proved'
  OBVIOUS
<1>1. \A c \in Ids : /\ Vouched(shown'[c], handle'[c].incoming)
                     /\ Vouched(shown'[c], handle'[c].received)
  BY PacketsVouched DEF Proved
<1>2. ASSUME NEW c \in Ids, HasName(c)' PROVE handle'[c].name \in shown'[c]
  <2>1. CASE handle'[c].name = handle[c].name
    BY <1>2, <2>1, ShownGrows DEF Proved, HasName
  <2>2. CASE handle'[c].name # handle[c].name
    <3>1. Authenticate
      BY <2>2, NamesWritten DEF SameName
    <3>2. c = auth.req.id /\ handle'[c].name = auth.req.name
      BY <2>2, <3>1, AuthenticateNames DEF Same, SameName
    <3>3. auth.req.name \in shown[auth.req.id]
      BY <3>1 DEF Authenticate, Proved
    <3> QED
      BY <3>2, <3>3, ShownGrows
  <2> QED
    BY <2>1, <2>2
<1>3. \A i \in 1 .. Len(queue') :
        queue'[i].ok => queue'[i].name \in shown'[queue'[i].id]
  BY RequestsVouched
<1>4. ASSUME auth'.pc = "verified", auth'.req.ok
      PROVE  auth'.req.name \in shown'[auth'.req.id]
  <2>1. UNCHANGED auth \/ TakeRequest
    BY <1>4, VerifiedComesFrom
  <2>2. CASE UNCHANGED auth
    BY <1>4, <2>2, ShownGrows DEF Proved, TypeOK, AuthPosition, Request
  <2>3. CASE TakeRequest
    <3>1. queue \in Seq(Request) /\ queue # <<>> /\ auth'.req = Head(queue)
      BY <2>3 DEF TakeRequest, TypeOK
    <3>2. Head(queue) = queue[1] /\ 1 \in 1 .. Len(queue) /\ queue[1] \in Request
      BY <3>1
    <3> QED
      BY <1>4, <3>1, <3>2, ShownGrows DEF Proved, Request
  <2> QED
    BY <2>1, <2>2, <2>3
<1> QED
  BY <1>1, <1>2, <1>3, <1>4 DEF Proved

\* Whoever is admitted has a name and has itself sent the right password for
\* it, although the answer reaches it by id, later, and from another thread.
THEOREM AdmissionsProved == Spec => []AdmittedProved
<1>1. Init => Proved
  BY DEF Init, Proved, Vouched, HasName, NewHandle, NoRequest
<1>2. Phases /\ Proved => AdmittedProved
  BY DEF Phases, Proved, AdmittedProved
<1> QED
  BY <1>1, <1>2, InitPhases, PhasesStep, ProvedStep, TypeCorrect, PTL DEF Spec

-----------------------------------------------------------------------------
(* Who holds m_CSClients *)

\* The tick thread at work on a client keeps m_CSClients and what it iterates
\* over; it tells no peer of anybody, and at most drops what one has not heard.
LEMMA ServerTickFrame ==
  ASSUME TypeOK, ServerTick
  PROVE  /\ UNCHANGED <<clients, lock, restart, call, auth, main, socket, count,
                       accepting, listening>>
         /\ ~FlushOutgoing => UNCHANGED roster
         /\ tick.pc \notin {"idle", "stopped", "next"}
         /\ tick'.pc \notin {"idle", "stopped"}
         /\ tick'.todo = tick.todo /\ tick'.cur \in {tick.cur, 0}
<1> USE DEF TickUnchanged, peerVars, netVars
<1>1. tick = [pc |-> tick.pc, todo |-> tick.todo, cur |-> tick.cur]
  BY DEF TypeOK, TickPosition
<1>2. ASSUME NEW h, Continue(h), tick.pc = "packets"
      PROVE  UNCHANGED <<tick, roster, TickUnchanged>>
  BY <1>2 DEF Continue
<1>3. ASSUME NEW h, Abandon(h), tick.pc = "packets"
      PROVE  /\ UNCHANGED <<roster, TickUnchanged>>
             /\ tick' = [tick EXCEPT !.pc = "flush"]
  BY <1>3 DEF Abandon
<1>4. CASE AddReceivedData
  <2>1. /\ tick.pc = "packets"
        /\ UNCHANGED <<roster, TickUnchanged>>
        /\ UNCHANGED tick \/ tick' = [tick EXCEPT !.pc = "flush"]
    BY <1>2, <1>3, <1>4
    DEF AddReceivedData, HandleStatusRequest, HandleStatusPing, HandleLoginInfo,
        HandleStrayStatusRequest, HandleLogin, HandleMedia, HandleIgnored,
        HandleWrongSize, HandleUnknown, HandleEmpty, PacketsDone, AtPacket
  <2> QED
    BY <1>1, <2>1
<1>5. CASE FlushOutgoing \/ SendOnLink \/ WriteToLink \/ CheckAuthenticated \/ SetWorking
  <2>1. /\ tick.pc \in {"flush", "send", "write", "promote", "promoting"}
        /\ UNCHANGED TickUnchanged
        /\ ~FlushOutgoing => UNCHANGED roster
        /\ \E pc \in {"send", "write", "crashed", "promote", "promoting", "ping"} :
             tick' = [tick EXCEPT !.pc = pc]
    BY <1>5
    DEF FlushOutgoing, SendOnLink, WriteToLink, CheckAuthenticated, SetWorking, TickGoto
  <2> QED
    BY <1>1, <2>1
<1>6. ASSUME NEW due \in BOOLEAN, PingAndTimeout(due)
      PROVE  /\ tick.pc = "ping"
             /\ UNCHANGED <<roster, TickUnchanged>>
             /\ tick' = [tick EXCEPT !.pc = "next", !.cur = 0]
  BY <1>6 DEF PingAndTimeout
<1>7. CASE \E due \in BOOLEAN : PingAndTimeout(due)
  BY <1>1, <1>6, <1>7
<1> QED
  BY <1>4, <1>5, <1>7 DEF ServerTick

\* m_CSClients is taken by one thread at a time, and m_Clients loses a client
\* only under it.
LEMMA LocksStep == TypeOK /\ Locks /\ [Next]_vars => Locks'
<1> SUFFICES ASSUME TypeOK, Locks, [Next]_vars PROVE Locks'
  OBVIOUS
<1> USE DEF Locks
<1>1. /\ tick = [pc |-> tick.pc, todo |-> tick.todo, cur |-> tick.cur]
      /\ tick.pc \in {"idle", "next", "stopped"} => tick.cur = 0
      /\ auth = [pc |-> auth.pc, req |-> auth.req]
      /\ main = [pc |-> main.pc, todo |-> main.todo]
  BY DEF TypeOK, TickPosition, AuthPosition
<1>2. ASSUME NEW c \in Ids, ReceivePacket(c) \/ CloseConnection(c) PROVE Locks'
  BY <1>2 DEF ReceivePacket, CloseConnection
<1>3. CASE Accepting
  BY <1>3 DEF Accepting, AcceptConnection, ListClient, CreateLink
<1>4. ASSUME NEW t, DestroyOnce(t) \/ SetDestroyed(t) \/ BroadcastDestroyed(t)
      PROVE  Locks'
  BY <1>4 DEF DestroyOnce, SetDestroyed, BroadcastDestroyed
<1>5. CASE StartTick
  BY <1>5 DEF StartTick
<1>6. ASSUME NEW c \in Ids, RemoveDestroyed(c) PROVE Locks'
  <2>1. /\ tick.pc = "next" /\ clients' = clients \ {c}
        /\ tick' = [tick EXCEPT !.todo = @ \ {c}]
        /\ UNCHANGED <<lock, auth, main>>
    BY <1>6 DEF RemoveDestroyed, NextClient
  <2>2. tick'.pc = "next" /\ tick'.todo = tick.todo \ {c} /\ tick'.cur = 0
    BY <1>1, <2>1
  <2> QED
    BY <2>1, <2>2
<1>7. ASSUME NEW c \in Ids, TakeIncoming(c) PROVE Locks'
  BY <1>7 DEF TakeIncoming, NextClient, TickUnchanged
<1>8. CASE ServerTick
  BY <1>8, ServerTickFrame
<1>9. CASE EndTick
  BY <1>1, <1>9 DEF EndTick, TickGoto
<1>10. CASE TakeRequest \/ KickUser \/ DropAnswer \/ StopAuthenticator
  BY <1>1, <1>10 DEF TakeRequest, KickUser, DropAnswer, StopAuthenticator, AuthGoto, AuthIdle
<1>11. CASE Authenticate
  BY <1>1, <1>11 DEF Authenticate, AuthGoto, AuthIdle
<1>12. CASE SetAuthenticated
  BY <1>1, <1>12 DEF SetAuthenticated, AuthGoto
<1>13. CASE BroadcastAuthenticated
  BY <1>1, <1>13 DEF BroadcastAuthenticated, AuthIdle
<1>14. CASE CloseListener \/ AskRestart
  BY <1>1, <1>14 DEF CloseListener, AskRestart
<1>15. CASE TickThreadEnded
  BY <1>15 DEF TickThreadEnded
<1>16. ASSUME NEW c \in Ids, DestroyNext(c) PROVE Locks'
  BY <1>1, <1>16 DEF DestroyNext
<1>17. CASE ClearClients
  BY <1>1, <1>17 DEF ClearClients
<1>18. CASE UNCHANGED vars
  BY <1>18 DEF vars
<1> QED
  BY <1>2, <1>3, <1>4, <1>5, <1>6, <1>7, <1>8, <1>9, <1>10, <1>11, <1>12, <1>13,
     <1>14, <1>15, <1>16, <1>17, <1>18
  DEF Next, Peers, Accepting, Tick, Authenticator, Shutdown, ServerStopped, ServerStuck,
      Destroy

-----------------------------------------------------------------------------
(* Connections and calls of Destroy() *)

\* A call of Destroy() goes through its three steps and returns; it starts when
\* a connection is lost, or on the main thread for the clients of m_Clients.
LEMMA CallMoves ==
  ASSUME TypeOK, [Next]_vars, NEW t \in Thread
  PROVE  \/ call'[t] = call[t]
         \/ call'[t] = NoCall /\ (DestroyOnce(t) \/ BroadcastDestroyed(t))
         \/ /\ DestroyOnce(t) \/ SetDestroyed(t)
            /\ call[t] # NoCall /\ call'[t].id = call[t].id
         \/ /\ t = "event"
            /\ \E c \in Ids : /\ CloseConnection(c) /\ call'[t].id = c
                              /\ call'[t].at = "entered"
         \/ /\ t = "main"
            /\ \E c \in Ids : /\ DestroyNext(c) /\ call'[t].id = c
                              /\ call'[t].at = "entered"
<1>1. ASSUME UNCHANGED call PROVE call'[t] = call[t]
  BY <1>1
<1>2. ASSUME NEW c \in Ids, CloseConnection(c)
      PROVE  call' = [call EXCEPT !["event"] = [at |-> "entered", id |-> c]]
  BY <1>2 DEF CloseConnection
<1>3. ASSUME NEW c \in Ids, DestroyNext(c)
      PROVE  call' = [call EXCEPT !["main"] = [at |-> "entered", id |-> c]]
  BY <1>3 DEF DestroyNext
<1>4. ASSUME NEW u \in Thread, DestroyOnce(u) \/ SetDestroyed(u) \/ BroadcastDestroyed(u)
      PROVE  \/ call'[t] = call[t]
             \/ call'[t] = NoCall /\ (DestroyOnce(t) \/ BroadcastDestroyed(t))
             \/ /\ DestroyOnce(t) \/ SetDestroyed(t)
                /\ call[t] # NoCall /\ call'[t].id = call[t].id
  <2>1. call[u].at # "none"
    BY <1>4 DEF DestroyOnce, SetDestroyed, BroadcastDestroyed
  <2>2. \/ /\ DestroyOnce(u) \/ BroadcastDestroyed(u)
           /\ call' = [call EXCEPT ![u] = NoCall]
        \/ /\ DestroyOnce(u) \/ SetDestroyed(u)
           /\ \E at \in {"destroying", "destroyed"} : call' = [call EXCEPT ![u].at = at]
    BY <1>4 DEF DestroyOnce, SetDestroyed, BroadcastDestroyed
  <2>3. call \in [Thread -> DestroyCall]
    BY DEF TypeOK
  <2>4. call' = [call EXCEPT ![u] = NoCall]
          => call'[t] = IF u = t THEN NoCall ELSE call[t]
    BY <2>3
  <2>5. ASSUME NEW at, call' = [call EXCEPT ![u].at = at]
        PROVE  /\ u # t => call'[t] = call[t]
               /\ call'[u].id = call[u].id
    BY <2>3, <2>5 DEF DestroyCall, NoCall
  <2> QED
    BY <2>1, <2>2, <2>4, <2>5 DEF NoCall
<1>5. ASSUME NEW c \in Ids, ReceivePacket(c) \/ RemoveDestroyed(c) \/ TakeIncoming(c)
      PROVE  UNCHANGED call
  BY <1>5 DEF ReceivePacket, RemoveDestroyed, TakeIncoming, TickUnchanged
<1>6. ASSUME Accepting \/ StartTick \/ EndTick \/ Authenticator
               \/ CloseListener \/ AskRestart \/ TickThreadEnded \/ ClearClients
      PROVE  UNCHANGED call
  BY <1>6
  DEF Accepting, AcceptConnection, ListClient, CreateLink, StartTick, EndTick,
      Authenticator, TakeRequest, KickUser, DropAnswer, Authenticate,
      SetAuthenticated, BroadcastAuthenticated, StopAuthenticator, CloseListener,
      AskRestart, TickThreadEnded, ClearClients
<1>7. ASSUME ServerTick PROVE UNCHANGED call
  BY <1>7, ServerTickFrame
<1>8. CASE \E c \in Ids : CloseConnection(c)
  BY <1>2, <1>8 DEF TypeOK, Thread
<1>9. CASE \E c \in Ids : DestroyNext(c)
  BY <1>3, <1>9 DEF TypeOK, Thread
<1> QED
  BY <1>1, <1>4, <1>5, <1>6, <1>7, <1>8, <1>9
  DEF Next, Peers, Accepting, Tick, Shutdown, ServerStopped, ServerStuck, Destroy,
      Thread, vars

\* A connection is open once its client has a link, and closed for good when the
\* event thread enters Destroy().
LEMMA SocketMoves ==
  ASSUME TypeOK, [Next]_vars, NEW c \in Ids
  PROVE  /\ socket'[c] => socket[c] \/ (CreateLink /\ c = accepting)
         /\ CloseConnection(c) => ~socket'[c]
         /\ \/ CreateLink
            \/ \E d \in Ids : CloseConnection(d)
            \/ UNCHANGED socket
<1>1. ASSUME CreateLink, socket'[c] PROVE socket[c] \/ c = accepting
  BY <1>1 DEF CreateLink, TypeOK
<1>2. ASSUME NEW d \in Ids, CloseConnection(d)
      PROVE  /\ socket'[c] => socket[c]
             /\ d = c => ~socket'[c]
  BY <1>2 DEF CloseConnection, TypeOK
<1>3. ASSUME NEW d \in Ids,
             ReceivePacket(d) \/ RemoveDestroyed(d) \/ TakeIncoming(d) \/ DestroyNext(d)
      PROVE  UNCHANGED socket
  BY <1>3
  DEF ReceivePacket, RemoveDestroyed, TakeIncoming, DestroyNext, TickUnchanged, peerVars
<1>4. ASSUME AcceptConnection \/ ListClient \/ StartTick \/ EndTick \/ Authenticator
               \/ CloseListener \/ AskRestart \/ TickThreadEnded \/ ClearClients
      PROVE  UNCHANGED socket
  BY <1>4
  DEF AcceptConnection, ListClient, StartTick, EndTick, Authenticator, TakeRequest,
      KickUser, DropAnswer, Authenticate, SetAuthenticated, BroadcastAuthenticated,
      StopAuthenticator, CloseListener, AskRestart, TickThreadEnded, ClearClients, peerVars
<1>5. ASSUME NEW t, DestroyOnce(t) \/ SetDestroyed(t) \/ BroadcastDestroyed(t)
      PROVE  UNCHANGED socket
  BY <1>5 DEF DestroyOnce, SetDestroyed, BroadcastDestroyed, peerVars
<1>6. ASSUME ServerTick PROVE UNCHANGED socket
  BY <1>6, ServerTickFrame
<1>7. CreateLink \/ (\E d \in Ids : CloseConnection(d)) \/ UNCHANGED socket
  BY <1>3, <1>4, <1>5, <1>6
  DEF Next, Peers, Tick, Shutdown, ServerStopped, ServerStuck, Destroy, vars
<1>8. socket \in [Ids -> BOOLEAN] /\ socket' \in [Ids -> BOOLEAN]
  BY NextTypeOK DEF TypeOK
<1>9. socket'[c] => socket[c] \/ (CreateLink /\ c = accepting)
  BY <1>1, <1>2, <1>7, <1>8
<1> QED
  BY <1>2, <1>7, <1>9

\* Only Shutdown moves the main thread.
LEMMA MainMoves ==
  ASSUME TypeOK, [Next]_vars
  PROVE  \/ UNCHANGED main
         \/ CloseListener \/ AskRestart \/ TickThreadEnded \/ ClearClients
         \/ \E c \in Ids : DestroyNext(c)
<1>1. ASSUME NEW c \in Ids,
             ReceivePacket(c) \/ CloseConnection(c) \/ RemoveDestroyed(c) \/ TakeIncoming(c)
      PROVE  UNCHANGED main
  BY <1>1
  DEF ReceivePacket, CloseConnection, RemoveDestroyed, TakeIncoming, TickUnchanged
<1>2. ASSUME Accepting \/ StartTick \/ EndTick \/ Authenticator
      PROVE  UNCHANGED main
  BY <1>2
  DEF Accepting, AcceptConnection, ListClient, CreateLink, StartTick, EndTick,
      Authenticator, TakeRequest, KickUser, DropAnswer, Authenticate,
      SetAuthenticated, BroadcastAuthenticated, StopAuthenticator
<1>3. ASSUME NEW t, DestroyOnce(t) \/ SetDestroyed(t) \/ BroadcastDestroyed(t)
      PROVE  UNCHANGED main
  BY <1>3 DEF DestroyOnce, SetDestroyed, BroadcastDestroyed
<1> QED
  BY <1>1, <1>2, <1>3, ServerTickFrame
  DEF Next, Peers, Accepting, Tick, Shutdown, ServerStopped, ServerStuck, Destroy, vars

\* The listener accepts no one once Shutdown has disabled it.
LEMMA NoneAccepted ==
  ASSUME TypeOK, [Next]_vars, ~listening, accepting = 0
  PROVE  ~listening' /\ accepting' = 0 /\ clients' \subseteq clients
<1>1. ~Accepting
  BY DEF Accepting, AcceptConnection, ListClient, CreateLink, TypeOK, Ids
<1>2. ASSUME NEW c \in Ids,
             ReceivePacket(c) \/ CloseConnection(c) \/ RemoveDestroyed(c)
               \/ TakeIncoming(c) \/ DestroyNext(c)
      PROVE  UNCHANGED listening
  BY <1>2
  DEF ReceivePacket, CloseConnection, RemoveDestroyed, TakeIncoming, DestroyNext,
      TickUnchanged, netVars
<1>3. ASSUME StartTick \/ EndTick \/ Authenticator \/ TickThreadEnded \/ ClearClients
      PROVE  UNCHANGED listening
  BY <1>3
  DEF StartTick, EndTick, Authenticator, TakeRequest, KickUser, DropAnswer,
      Authenticate, SetAuthenticated, BroadcastAuthenticated, StopAuthenticator,
      TickThreadEnded, ClearClients, netVars
<1>4. ASSUME NEW t, DestroyOnce(t) \/ SetDestroyed(t) \/ BroadcastDestroyed(t)
      PROVE  UNCHANGED listening
  BY <1>4 DEF DestroyOnce, SetDestroyed, BroadcastDestroyed, netVars
<1>5. CloseListener \/ AskRestart => UNCHANGED listening \/ ~listening'
  BY DEF CloseListener, AskRestart, netVars
<1>6. UNCHANGED listening \/ ~listening'
  BY <1>1, <1>2, <1>3, <1>4, <1>5, ServerTickFrame
  DEF Next, Peers, Accepting, Tick, Shutdown, ServerStopped, ServerStuck, Destroy, vars
<1>7. clients' \subseteq clients /\ UNCHANGED accepting
  BY <1>1, ClientsWritten
<1> QED
  BY <1>6, <1>7

\* A client leaves m_Clients when the tick thread finds it destroyed, and with
\* all others when the server has shut down.
LEMMA ClientsShrink ==
  ASSUME TypeOK, [Next]_vars
  PROVE  \/ clients \subseteq clients'
         \/ ClearClients
         \/ \E c \in Ids : RemoveDestroyed(c) /\ clients' = clients \ {c}
<1>1. ASSUME NEW c \in Ids,
             ReceivePacket(c) \/ CloseConnection(c) \/ TakeIncoming(c) \/ DestroyNext(c)
      PROVE  UNCHANGED clients
  BY <1>1 DEF ReceivePacket, CloseConnection, TakeIncoming, DestroyNext, TickUnchanged
<1>2. ASSUME AcceptConnection \/ CreateLink \/ StartTick \/ EndTick \/ Authenticator
               \/ CloseListener \/ AskRestart \/ TickThreadEnded
      PROVE  UNCHANGED clients
  BY <1>2
  DEF AcceptConnection, CreateLink, StartTick, EndTick, Authenticator, TakeRequest,
      KickUser, DropAnswer, Authenticate, SetAuthenticated, BroadcastAuthenticated,
      StopAuthenticator, CloseListener, AskRestart, TickThreadEnded
<1>3. ASSUME NEW t, DestroyOnce(t) \/ SetDestroyed(t) \/ BroadcastDestroyed(t)
      PROVE  UNCHANGED clients
  BY <1>3 DEF DestroyOnce, SetDestroyed, BroadcastDestroyed
<1>4. ListClient => clients \subseteq clients'
  BY DEF ListClient
<1>5. ASSUME NEW c \in Ids, RemoveDestroyed(c) PROVE clients' = clients \ {c}
  BY <1>5 DEF RemoveDestroyed
<1> QED
  BY <1>1, <1>2, <1>3, <1>4, <1>5, ServerTickFrame
  DEF Next, Peers, Tick, Shutdown, ServerStopped, ServerStuck, Destroy, vars

\* A client of m_Clients has been listed, and once listed it stays so: while it
\* is accepted nobody destroys it.
LEMMA ListedGrows ==
  ASSUME TypeOK, Fresh, Connections, [Next]_vars, NEW c \in Ids
  PROVE  /\ c \in clients => Listed(c)
         /\ Listed(c) => Listed(c)'
         /\ Listed(c)' /\ ~Listed(c) => ListClient /\ c = accepting
<1> USE DEF Listed
<1>1. c \in Nat /\ c # 0 /\ count \in Nat
  BY BoundsAssumption DEF TypeOK, Ids
<1>2. c \in clients => Listed(c)
  BY <1>1 DEF Fresh
<1>3. CASE AcceptConnection
  BY <1>1, <1>2, <1>3 DEF AcceptConnection, EventIdle
<1>4. CASE ListClient
  BY <1>1, <1>2, <1>4 DEF ListClient
<1>5. CASE CreateLink
  BY <1>1, <1>2, <1>5 DEF CreateLink
<1>6. CASE ~Accepting
  <2>1. UNCHANGED <<count, accepting>> /\ clients' \subseteq clients
    BY <1>6, ClientsWritten
  <2>2. c = accepting /\ c \in clients => c \in clients'
    <3>1. c = accepting => ~ClearClients
      BY <1>1 DEF ClearClients, Connections
    <3>2. c = accepting => ~RemoveDestroyed(c)
      BY DEF RemoveDestroyed, IsDestroyed, Fresh, Untouched, csConnected, csDestroyed
    <3> QED
      BY <3>1, <3>2, ClientsShrink
  <2> QED
    BY <1>2, <2>1, <2>2
<1> QED
  BY <1>3, <1>4, <1>5, <1>6 DEF Accepting

\* A call of Destroy() on the event thread is for a connection that is gone,
\* one on the main thread for a client of m_Clients.
LEMMA ConnectionsStep ==
  TypeOK /\ Fresh /\ Locks /\ Connections /\ [Next]_vars => Connections'
<1> SUFFICES ASSUME TypeOK, Fresh, Locks, Connections, [Next]_vars
             PROVE  Connections'
  OBVIOUS
<1>1. /\ call \in [Thread -> DestroyCall] /\ call' \in [Thread -> DestroyCall]
      /\ socket \in [Ids -> BOOLEAN] /\ socket' \in [Ids -> BOOLEAN]
      /\ clients \subseteq Ids
      /\ main = [pc |-> main.pc, todo |-> main.todo]
  BY NextTypeOK DEF TypeOK
<1>2. \A t \in Thread : call[t] # NoCall => call[t].id \in Ids
  BY <1>1 DEF DestroyCall
<1>3. ASSUME NEW c \in Ids, socket'[c] PROVE Listed(c)'
  <2>1. CASE socket[c]
    BY <2>1, ListedGrows DEF Connections
  <2>2. CASE ~socket[c]
    <3>1. CreateLink /\ c = accepting
      BY <1>3, <2>2, SocketMoves
    <3> QED
      BY <3>1, BoundsAssumption DEF CreateLink, Listed, Fresh, Ids
  <2> QED
    BY <2>1, <2>2
<1>4. ASSUME NEW c \in Ids, DestroyNext(c) PROVE main.pc = "clients" /\ c \in clients
  BY <1>4 DEF DestroyNext, Connections
<1>5. ASSUME NEW t \in Thread, call'[t] # NoCall PROVE Listed(call[t].id)'
  <2>1. ASSUME NEW c \in Ids, Listed(c)', call'[t].id = c PROVE Listed(call[t].id)'
    BY <2>1 DEF Listed
  <2>2. ASSUME call[t] # NoCall, call'[t].id = call[t].id PROVE Listed(call[t].id)'
    BY <1>2, <2>1, <2>2, ListedGrows DEF Connections
  <2>3. ASSUME NEW c \in Ids, CloseConnection(c) PROVE Listed(c)'
    BY <2>3, ListedGrows DEF Connections, CloseConnection
  <2>4. ASSUME NEW c \in Ids, DestroyNext(c) PROVE Listed(c)'
    BY <1>4, <2>4, ListedGrows
  <2> QED
    BY <1>5, <2>1, <2>2, <2>3, <2>4, CallMoves
<1>6. call'["event"] # NoCall => ~socket'[call'["event"].id] /\ accepting' = 0
  <2> SUFFICES ASSUME call'["event"] # NoCall
               PROVE  ~socket'[call'["event"].id] /\ accepting' = 0
    OBVIOUS
  <2>1. "event" \in Thread
    BY DEF Thread
  <2>2. ASSUME NEW c \in Ids, CloseConnection(c), call'["event"].id = c
        PROVE  ~socket'[call'["event"].id] /\ accepting' = 0
    BY <2>2, SocketMoves DEF CloseConnection, EventIdle, netVars
  <2>3. ASSUME call["event"] # NoCall, call'["event"].id = call["event"].id
        PROVE  ~socket'[call'["event"].id] /\ accepting' = 0
    <3>1. accepting = 0 /\ ~socket[call["event"].id]
      BY <2>3 DEF Connections
    <3>2. ~Accepting
      BY <1>1, <2>3, <3>1
      DEF Accepting, AcceptConnection, EventIdle, ListClient, CreateLink, Ids
    <3> QED
      BY <1>1, <1>2, <2>1, <2>3, <3>1, <3>2, SocketMoves, ClientsWritten DEF Accepting
  <2> QED
    BY <2>1, <2>2, <2>3, CallMoves
<1>7. main.pc = "clients" /\ ~ClearClients =>
        main'.pc = "clients" /\ clients \subseteq clients' /\ main'.todo \subseteq main.todo
  <2> SUFFICES ASSUME main.pc = "clients", ~ClearClients
               PROVE  /\ main'.pc = "clients" /\ clients \subseteq clients'
                      /\ main'.todo \subseteq main.todo
    OBVIOUS
  <2>1. ~CloseListener /\ ~AskRestart /\ ~TickThreadEnded
    BY DEF CloseListener, AskRestart, TickThreadEnded
  <2>2. ASSUME NEW c \in Ids, DestroyNext(c)
        PROVE  main'.pc = "clients" /\ main'.todo \subseteq main.todo
    BY <1>1, <2>2 DEF DestroyNext
  <2>3. ASSUME NEW c \in Ids PROVE ~RemoveDestroyed(c)
    BY DEF RemoveDestroyed, NextClient, Locks
  <2>4. clients \subseteq clients'
    BY <2>1, <2>3, ClientsShrink
  <2> QED
    BY <2>1, <2>2, <2>4, MainMoves
<1>8. call'["main"] # NoCall => main'.pc = "clients" /\ call'["main"].id \in clients'
  <2> SUFFICES ASSUME call'["main"] # NoCall
               PROVE  main'.pc = "clients" /\ call'["main"].id \in clients'
    OBVIOUS
  <2>1. "main" \in Thread
    BY DEF Thread
  <2>2. ASSUME call["main"] # NoCall, call'["main"].id = call["main"].id
        PROVE  main'.pc = "clients" /\ call'["main"].id \in clients'
    BY <1>7, <2>2 DEF Connections, ClearClients
  <2>3. ASSUME NEW c \in Ids, DestroyNext(c), call'["main"].id = c
        PROVE  main'.pc = "clients" /\ call'["main"].id \in clients'
    <3>1. ~ClearClients
      BY <2>3 DEF DestroyNext, ClearClients
    <3> QED
      BY <1>4, <1>7, <2>3, <3>1
  <2> QED
    BY <2>1, <2>2, <2>3, CallMoves
<1>9. main'.pc = "clients" => main'.todo \subseteq clients'
  <2>1. CASE main.pc = "clients" /\ ~ClearClients
    BY <1>7, <2>1 DEF Connections
  <2>2. CASE TickThreadEnded
    BY <2>2 DEF TickThreadEnded
  <2>3. CASE ~(main.pc = "clients" /\ ~ClearClients) /\ ~TickThreadEnded
    BY <1>1, <2>3, MainMoves DEF CloseListener, AskRestart, ClearClients, DestroyNext
  <2> QED
    BY <2>1, <2>2, <2>3
<1>10. main'.pc # "run" => ~listening' /\ accepting' = 0
  <2>1. CASE main.pc # "run"
    BY <2>1, NoneAccepted DEF Connections
  <2>2. CASE CloseListener
    BY <2>2 DEF CloseListener
  <2>3. CASE main.pc = "run" /\ ~CloseListener
    BY <2>3, MainMoves DEF AskRestart, TickThreadEnded, ClearClients, DestroyNext
  <2> QED
    BY <2>1, <2>2, <2>3
<1>11. main'.pc = "done" => clients' = {}
  <2>1. CASE main.pc = "done"
    BY <2>1, NoneAccepted DEF Connections
  <2>2. CASE ClearClients
    BY <2>2 DEF ClearClients
  <2>3. CASE main.pc # "done" /\ ~ClearClients
    <3>1. CloseListener \/ AskRestart \/ TickThreadEnded => main'.pc # "done"
      BY <1>1 DEF CloseListener, AskRestart, TickThreadEnded
    <3>2. (\E c \in Ids : DestroyNext(c)) => main'.pc # "done"
      BY <1>1 DEF DestroyNext
    <3> QED
      BY <2>3, <3>1, <3>2, MainMoves
  <2> QED
    BY <2>1, <2>2, <2>3
<1> QED
  BY <1>3, <1>5, <1>6, <1>8, <1>9, <1>10, <1>11 DEF Connections

\* No operation on the handle touches the link.
LEMMA LinkFrames ==
  ASSUME NEW h \in Handle
  PROVE  /\ Queue(h).link = h.link /\ Disconnect(h).link = h.link
         /\ SendLoginSuccess(h).link = h.link
<1>1. Queue(h).link = h.link /\ Disconnect(h).link = h.link
  BY DEF Queue, Disconnect, Handle
<1>2. Queue(h) \in Handle
  BY HandleTypes
<1> QED
  BY <1>1, <1>2 DEF SendLoginSuccess, Handle

\* A client's m_Link is set at the end of its acceptance, and reset where
\* Destroy() is called.
LEMMA LinkMoves ==
  ASSUME TypeOK, [Next]_vars, NEW c \in Ids, ~(CreateLink /\ c = accepting),
         ~CloseConnection(c), ~DestroyNext(c)
  PROVE  handle'[c].link = handle[c].link
<1> USE DEF TypeOK
<1> DEFINE Kept(h) == h.link = handle[c].link
<1>1. ASSUME NEW d, NEW g, handle' = [handle EXCEPT ![d] = g],
             d = c => Kept(g)
      PROVE  Kept(handle'[c])
  BY <1>1
<1>2. ASSUME NEW d, BroadcastUserInfo(d) PROVE Kept(handle'[c])
  <2>1. handle'[c] = [handle[c] EXCEPT !.pending = @ \/ Subjects(d, c) # {}]
    BY <1>2 DEF BroadcastUserInfo
  <2> QED
    BY <2>1 DEF Handle
<1>3. ASSUME NEW d \in Ids,
             \/ CloseConnection(d) \/ DestroyNext(d) \/ CreateLink \/ FlushOutgoing
             \/ SetWorking \/ SetAuthenticated
             \/ (\E t \in Thread : DestroyOnce(t) \/ SetDestroyed(t))
      PROVE  Kept(handle'[c])
  <2>1. handle[c] \in Handle
    OBVIOUS
  <2>2. \A v : /\ Kept([handle[c] EXCEPT !.pending = v])
               /\ Kept([handle[c] EXCEPT !.state = v])
    BY <2>1 DEF Handle
  <2>3. CASE CloseConnection(d) \/ DestroyNext(d) \/ CreateLink
    BY <1>1, <2>2, <2>3 DEF CloseConnection, DestroyNext, CreateLink
  <2>4. CASE FlushOutgoing
    BY <1>1, <2>2, <2>4 DEF FlushOutgoing
  <2>5. ASSUME NEW e, NEW v, handle' = [handle EXCEPT ![e].state = v]
        PROVE  Kept(handle'[c])
    BY <2>2, <2>5
  <2>6. CASE SetWorking \/ SetAuthenticated
    BY <2>5, <2>6 DEF SetWorking, SetAuthenticated
  <2>7. ASSUME NEW t \in Thread, DestroyOnce(t) \/ SetDestroyed(t)
        PROVE  Kept(handle'[c])
    <3>1. \/ UNCHANGED handle
          \/ handle' = [handle EXCEPT ![call[t].id].state = csDestroying]
          \/ handle' = [handle EXCEPT ![call[t].id].state = csDestroyed]
      BY <2>7 DEF DestroyOnce, SetDestroyed
    <3> QED
      BY <2>5, <3>1
  <2> QED
    BY <1>3, <2>3, <2>4, <2>6, <2>7
<1>4. ASSUME NEW d \in Ids, ReceivePacket(d) PROVE Kept(handle'[c])
  <2>1. PICK p, n :
          handle' = [handle EXCEPT ![d].incoming = Append(@, p), ![d].ticks = n]
    BY <1>4 DEF ReceivePacket
  <2> DEFINE g == [handle[d] EXCEPT !.incoming = Append(@, p), !.ticks = n]
  <2>2. handle' = [handle EXCEPT ![d] = g]
    BY <2>1
  <2>3. d = c => Kept(g)
    BY DEF Handle
  <2> HIDE DEF g
  <2> QED
    BY <1>1, <2>2, <2>3
<1>5. ASSUME NEW d \in Ids, TakeIncoming(d) PROVE Kept(handle'[c])
  <2> DEFINE h == handle[d]
             taken == [h EXCEPT !.incoming = <<>>]
             kept == [taken EXCEPT !.received = @ \o h.incoming]
  <2>1. \/ handle' = [handle EXCEPT ![d] = h]
        \/ handle' = [handle EXCEPT ![d] = kept]
        \/ handle' = [handle EXCEPT ![d] = Disconnect(taken)]
    BY <1>5 DEF TakeIncoming
  <2>2. d = c => Kept(taken) /\ Kept(kept)
    BY DEF Handle
  <2>3. d = c => Kept(Disconnect(taken))
    <3>1. <<>> \in Seq(Packet)
      OBVIOUS
    <3>2. taken \in Handle
      BY <3>1, FieldTypes
    <3> QED
      BY <2>2, <3>2, LinkFrames
  <2> HIDE DEF taken, kept
  <2>4. ASSUME NEW v, handle' = [handle EXCEPT ![d] = v], d = c => Kept(v)
        PROVE  Kept(handle'[c])
    BY <1>1, <2>4
  <2>5. d = c => Kept(h)
    BY <1>1
  <2>6. CASE handle' = [handle EXCEPT ![d] = h]
    BY <2>4, <2>5, <2>6
  <2>7. CASE handle' = [handle EXCEPT ![d] = kept]
    BY <2>2, <2>4, <2>7
  <2>8. CASE handle' = [handle EXCEPT ![d] = Disconnect(taken)]
    BY <2>3, <2>4, <2>8
  <2> QED
    BY <2>1, <2>6, <2>7, <2>8
<1>6. CASE AddReceivedData
  <2>1. tick.cur \in Ids /\ handle[tick.cur] \in Handle
    BY <1>6, PacketAt
  <2>2. ASSUME handle[tick.cur].received # <<>>
        PROVE  /\ Rest \in Handle
               /\ tick.cur = c => Kept(Rest) /\ Kept(Queue(Rest)) /\ Kept(Disconnect(Rest))
    <3>1. Rest \in Handle
      BY <2>1, <2>2, PacketTypes
    <3>2. tick.cur = c => Kept(Rest)
      BY DEF Rest, Handle
    <3> QED
      BY <3>1, <3>2, LinkFrames
  <2>3. ASSUME NEW h, Continue(h) \/ Abandon(h), tick.cur = c => Kept(h)
        PROVE  Kept(handle'[c])
    BY <1>1, <2>3 DEF Continue, Abandon
  <2>4. ASSUME NEW h \in Handle, NEW n, NEW b, HandleLogin(n, b, h),
               tick.cur = c => Kept(h)
        PROVE  Kept(handle'[c])
    <3>1. tick.cur = c => Kept([h EXCEPT !.state = csAuthenticating])
      BY <2>4 DEF Handle
    <3> QED
      BY <2>3, <2>4, <3>1 DEF HandleLogin
  <2>5. CASE HandleStatusRequest
    <3> DEFINE h == [Rest EXCEPT !.proto = Packet1.next]
    <3>1. handle[tick.cur].received # <<>>
      BY <2>5 DEF HandleStatusRequest, AtPacket
    <3>2. ASSUME ValidState(Packet1.next), tick.cur = c PROVE Kept(Queue(h))
      <4>1. h \in Handle /\ Kept(h)
        BY <2>2, <3>1, <3>2, FieldTypes DEF ValidState, Handle
      <4> QED
        BY <4>1, LinkFrames
    <3> HIDE DEF h
    <3>3. Continue(IF ValidState(Packet1.next) THEN Queue(h) ELSE Disconnect(Rest))
      BY <2>5 DEF HandleStatusRequest, h
    <3> QED
      BY <2>2, <2>3, <3>1, <3>2, <3>3
  <2>6. CASE HandleStatusPing \/ HandleIgnored \/ HandleWrongSize \/ HandleUnknown
               \/ HandleEmpty
    BY <2>2, <2>3, <2>6
    DEF HandleStatusPing, HandleIgnored, HandleWrongSize, HandleUnknown, HandleEmpty,
        AtPacket
  <2>7. CASE HandleLoginInfo
    BY <2>2, <2>4, <2>7 DEF HandleLoginInfo, AtPacket
  <2>8. CASE HandleStrayStatusRequest
    BY <2>2, <2>4, <2>8, HandleTypes DEF HandleStrayStatusRequest, AtPacket
  <2>9. CASE HandleMedia
    <3> DEFINE h == IF c = tick.cur THEN Rest ELSE handle[c]
    <3>1. h \in Handle /\ Kept(h)
      BY <2>2, <2>9 DEF HandleMedia, AtPacket
    <3>2. Kept(Queue(h))
      BY <3>1, LinkFrames
    <3>3. handle'[c] = h \/ handle'[c] = Queue(h)
      BY <2>9 DEF HandleMedia
    <3> QED
      BY <3>1, <3>2, <3>3
  <2>10. CASE PacketsDone
    BY <2>3, <2>10 DEF PacketsDone
  <2> QED
    BY <1>6, <2>5, <2>6, <2>7, <2>8, <2>9, <2>10 DEF AddReceivedData
<1>7. ASSUME NEW due \in BOOLEAN, PingAndTimeout(due) PROVE Kept(handle'[c])
  <2> DEFINE h == handle[tick.cur]
             pinged == IF due /\ h.state = csWorking /\ h.proto = psWork
                       THEN Queue(h) ELSE h
             n == IF h.ticks > MaxTicks THEN h.ticks ELSE h.ticks + 1
             counted == [pinged EXCEPT !.ticks = n]
  <2>1. \/ handle' = [handle EXCEPT ![tick.cur] = counted]
        \/ handle' = [handle EXCEPT ![tick.cur] = Disconnect(counted)]
    BY <1>7 DEF PingAndTimeout
  <2>2. ASSUME tick.cur = c PROVE Kept(counted) /\ Kept(Disconnect(counted))
    <3>1. h \in Handle /\ h.ticks \in Nat /\ Kept(h) /\ Queue(h) \in Handle
      BY <2>2, HandleTypes DEF Handle
    <3>2. n \in Nat /\ pinged \in {h, Queue(h)}
      BY <3>1
    <3> HIDE DEF pinged, n
    <3>3. pinged \in Handle /\ Kept(pinged)
      BY <3>1, <3>2, LinkFrames
    <3>4. counted \in Handle /\ Kept(counted)
      BY <3>2, <3>3, FieldTypes DEF Handle
    <3> QED
      BY <3>4, LinkFrames
  <2> HIDE DEF counted
  <2> QED
    BY <1>1, <2>1, <2>2
<1>8. CASE KickUser
  BY <1>1, <1>8, LinkFrames DEF KickUser
<1>9. CASE Authenticate
  <2> DEFINE h == handle[auth.req.id]
             named == [h EXCEPT !.name = auth.req.name]
  <2>1. \/ handle' = [handle EXCEPT ![auth.req.id] = SendLoginSuccess(named)]
        \/ handle' = [handle EXCEPT ![auth.req.id] = Disconnect(h)]
    BY <1>9 DEF Authenticate
  <2>2. ASSUME auth.req.id = c
        PROVE  Kept(SendLoginSuccess(named)) /\ Kept(Disconnect(h))
    <3>1. auth.req \in Request
      BY <1>9 DEF Authenticate, AuthPosition
    <3>2. h \in Handle /\ auth.req.name \in Name
      BY <2>2, <3>1 DEF Request
    <3>3. named \in Handle
      BY <3>2, FieldTypes
    <3>4. Kept(named)
      BY <2>2, <3>2 DEF Handle
    <3> QED
      BY <2>2, <3>2, <3>3, <3>4, LinkFrames
  <2> HIDE DEF named
  <2> QED
    BY <1>1, <2>1, <2>2
<1>10. CASE BroadcastAuthenticated \/ (\E t \in Thread : BroadcastDestroyed(t))
  BY <1>2, <1>10 DEF BroadcastAuthenticated, BroadcastDestroyed
<1>11. ASSUME NEW d \in Ids,
              \/ AcceptConnection \/ ListClient \/ StartTick \/ RemoveDestroyed(d)
              \/ SendOnLink \/ WriteToLink \/ CheckAuthenticated \/ EndTick
              \/ TakeRequest \/ DropAnswer \/ StopAuthenticator \/ CloseListener
              \/ AskRestart \/ TickThreadEnded \/ ClearClients \/ UNCHANGED vars
       PROVE  Kept(handle'[c])
  BY <1>11
  DEF AcceptConnection, ListClient, StartTick, RemoveDestroyed, SendOnLink, WriteToLink,
      CheckAuthenticated, EndTick, TakeRequest, DropAnswer, StopAuthenticator,
      CloseListener, AskRestart, TickThreadEnded, ClearClients, vars
<1> QED
  BY <1>3, <1>4, <1>5, <1>6, <1>7, <1>8, <1>9, <1>10, <1>11
  DEF Next, Peers, Tick, ServerTick, Authenticator, Shutdown, ServerStopped, ServerStuck,
      Destroy, Thread

-----------------------------------------------------------------------------
(* Unique names *)

\* Nothing happens to a client before it has its link: no packet can arrive, so
\* none is parsed, so it waits for no answer; nobody destroys or promotes it.
LEMMA UntouchedKept ==
  ASSUME TypeOK, Fresh, Phases, Connections, [Next]_vars, NEW c \in Ids,
         c > count \/ c = accepting, ~(CreateLink /\ c = accepting)
  PROVE  Untouched(c)'
<1>1. /\ Untouched(c)
      /\ ~(Listed(c) /\ c # accepting)
      /\ \A t \in Thread : call[t] # NoCall => call[t].id # c
      /\ main.pc = "clients" => c \notin main.todo
  <2>1. c \in Nat /\ c # 0 /\ count \in Nat
    BY BoundsAssumption DEF TypeOK, Ids
  <2>2. Untouched(c) /\ ~(Listed(c) /\ c # accepting) /\ c \in clients => c = accepting
    BY <2>1 DEF Fresh, Listed
  <2>3. \A t \in Thread : call[t] # NoCall => Listed(call[t].id) /\ accepting = 0
    BY DEF Connections, Thread
  <2>4. main.pc = "clients" => main.todo \subseteq clients /\ accepting = 0
    BY DEF Connections
  <2> QED
    BY <2>1, <2>2, <2>3, <2>4 DEF Fresh, Listed
<1>2. ~socket'[c]
  BY <1>1, SocketMoves DEF Untouched
<1>3. ~HasName(c)'
  <2>1. CASE Authenticate
    <3>1. c # auth.req.id
      BY <1>1, <2>1
      DEF Authenticate, Awaiting, Untouched, csConnected, csAuthenticating
    <3> QED
      BY <1>1, <2>1, <3>1, AuthenticateNames DEF Same, SameName, HasName, Untouched
  <2>2. CASE ~Authenticate
    BY <1>1, <2>2, NamesWritten DEF SameName, HasName, Untouched
  <2> QED
    BY <2>1, <2>2
<1>4. handle'[c].state = csConnected
  <2>1. ASSUME NEW t \in Thread, DestroyOnce(t) \/ SetDestroyed(t) PROVE call[t].id # c
    BY <1>1, <2>1 DEF DestroyOnce, SetDestroyed, NoCall
  <2>2. /\ ~(tick.pc = "promoting" /\ tick.cur = c)
        /\ ~(auth.pc = "named" /\ auth.req.id = c)
    BY <1>1 DEF Phases, Untouched
  <2> QED
    BY <1>1, <2>1, <2>2, StateMoves DEF Untouched
<1>5. SamePackets(c)
  <2>1. CASE AddReceivedData
    BY <1>1, <2>1, ParserPackets DEF Untouched
  <2>2. CASE TakeIncoming(c)
    BY <1>1, <2>2 DEF TakeIncoming, TypeOK, SamePackets, Untouched
  <2>3. ~ReceivePacket(c)
    BY <1>1 DEF ReceivePacket, Untouched
  <2> QED
    BY <2>1, <2>2, <2>3, PacketsWritten
<1>6. ~handle'[c].link
  <2>1. ~CloseConnection(c) /\ ~DestroyNext(c)
    BY <1>1 DEF CloseConnection, DestroyNext, Untouched
  <2> QED
    BY <1>1, <2>1, LinkMoves DEF Untouched
<1> QED
  BY <1>1, <1>2, <1>3, <1>4, <1>5, <1>6 DEF SamePackets, Untouched

\* Ids beyond s_ClientCount, and the one being accepted, stay nobody's:
\* AcceptConnection hands out the next, CreateLink is the end of it.
LEMMA FreshStep == TypeOK /\ Fresh /\ Phases /\ Connections /\ [Next]_vars => Fresh'
<1> SUFFICES ASSUME TypeOK, Fresh, Phases, Connections, [Next]_vars PROVE Fresh'
  OBVIOUS
<1>1. /\ count \in Nat /\ count' \in Nat /\ accepting \in Nat /\ accepting' \in Nat
      /\ \A c \in Ids : c \in Nat /\ c # 0
  BY NextTypeOK, BoundsAssumption DEF TypeOK, Ids
<1>2. /\ accepting' <= count' /\ count <= count'
      /\ \A c \in Ids : c > count' => c \notin clients'
      /\ accepting' = accepting \/ accepting' = 0 \/ accepting' > count
      /\ CreateLink => accepting' = 0 /\ count' = count
  <2>1. CASE AcceptConnection
    BY <1>1, <2>1 DEF AcceptConnection, CreateLink, Fresh, TypeOK, EventIdle, Ids
  <2>2. CASE ListClient \/ CreateLink
    BY <1>1, <2>2 DEF ListClient, CreateLink, Fresh
  <2>3. CASE ~Accepting
    BY <1>1, <2>3, ClientsWritten DEF Fresh, Accepting
  <2> QED
    BY <2>1, <2>2, <2>3 DEF Accepting
<1>3. ASSUME NEW c \in Ids, c > count' \/ c = accepting' PROVE Untouched(c)'
  <2>1. c > count \/ c = accepting
    BY <1>1, <1>2, <1>3
  <2>2. ~(CreateLink /\ c = accepting)
    BY <1>1, <1>2, <1>3 DEF Fresh
  <2> QED
    BY <2>1, <2>2, UntouchedKept
<1> QED
  BY <1>2, <1>3 DEF Fresh

\* Only Authenticate gives a name, and only one that no client of m_Clients
\* has; only ListClient lists a client, and that one has no name.
LEMMA UniqueNamesStep == TypeOK /\ Fresh /\ UniqueNames /\ [Next]_vars => UniqueNames'
<1> SUFFICES ASSUME TypeOK, Fresh, UniqueNames, [Next]_vars PROVE UniqueNames'
  OBVIOUS
<1> USE DEF UniqueNames, HasName
<1>1. CASE Authenticate
  <2>1. clients \subseteq Ids
    BY DEF TypeOK
  <2> QED
    BY <1>1, <2>1, AuthenticateNames DEF Same, SameName, CheckMultiLogin, Named
<1>2. CASE ~Authenticate
  <2>1. SameName
    BY <1>2, NamesWritten
  <2>2. CASE ListClient
    BY <2>1, <2>2 DEF ListClient, SameName, Fresh, Untouched, TypeOK
  <2>3. CASE AcceptConnection \/ CreateLink
    BY <2>1, <2>3 DEF AcceptConnection, CreateLink, SameName, TypeOK
  <2>4. CASE ~Accepting
    BY <2>1, <2>4, ClientsWritten DEF SameName, TypeOK
  <2> QED
    BY <2>2, <2>3, <2>4 DEF Accepting
<1> QED
  BY <1>1, <1>2

\* The states, m_Clients and calls of Destroy() at the start.
LEMMA InitRoster == Init => Fresh /\ Phases /\ Locks /\ Connections
<1> SUFFICES ASSUME Init PROVE Fresh /\ Locks /\ Connections
  BY InitPhases
<1>1. Fresh /\ Locks
  BY DEF Init, Fresh, Untouched, Locks, HasName, NewHandle
<1>2. Connections
  BY DEF Init, Connections, Thread
<1> QED
  BY <1>1, <1>2

\* Two clients of m_Clients never share a name, for any number of clients,
\* packets and ticks.
THEOREM NamesAreUnique == Spec => []UniqueNames
<1>1. Init => UniqueNames
  BY DEF Init, UniqueNames
<1> QED
  BY <1>1, InitRoster, FreshStep, PhasesStep, LocksStep, ConnectionsStep,
     UniqueNamesStep, TypeCorrect, PTL DEF Spec

-----------------------------------------------------------------------------
(* Removed clients *)

\* The tick thread removes only destroyed clients, and neither it nor the
\* authenticator touches the state of a client that is not in m_Clients.
LEMMA RemovedStep ==
  TypeOK /\ Fresh /\ Locks /\ Connections /\ RemovedIsDestroyed /\ [Next]_vars
    => RemovedIsDestroyed'
<1> SUFFICES ASSUME TypeOK, Fresh, Locks, Connections, RemovedIsDestroyed,
                    [Next]_vars, main'.pc # "done", NEW c \in Ids, Listed(c)',
                    c \notin clients'
             PROVE  handle'[c].state = csDestroyed
  BY DEF RemovedIsDestroyed
<1>1. main.pc # "done" /\ ~ClearClients
  BY MainMoves
  DEF TypeOK, CloseListener, AskRestart, TickThreadEnded, ClearClients, DestroyNext
<1>2. CASE c \in clients
  <2>1. RemoveDestroyed(c)
    BY <1>1, <1>2, ClientsShrink
  <2> QED
    BY <2>1 DEF RemoveDestroyed, IsDestroyed
<1>3. CASE c \notin clients
  <2>1. Listed(c)
    BY <1>3, ListedGrows DEF ListClient
  <2>2. handle[c].state = csDestroyed
    BY <1>1, <1>3, <2>1 DEF RemovedIsDestroyed
  <2>3. /\ ~(tick.pc \in {"packets", "promoting"} /\ tick.cur = c)
        /\ ~(auth.pc = "named" /\ auth.req.id = c)
    BY <1>3 DEF Locks, Ids
  <2> QED
    BY <2>2, <2>3, StateMoves DEF csDestroying, csDestroyed
<1> QED
  BY <1>2, <1>3

\* No thread brings a client back that has left m_Clients, whatever it still
\* has to do for it.
THEOREM RemovedStayDestroyed == Spec => []RemovedIsDestroyed
<1>1. Init => RemovedIsDestroyed
  BY BoundsAssumption DEF Init, RemovedIsDestroyed, Listed, Ids
<1> QED
  BY <1>1, InitRoster, FreshStep, PhasesStep, LocksStep, ConnectionsStep, RemovedStep,
     TypeCorrect, PTL DEF Spec

-----------------------------------------------------------------------------
(* What peers are told *)

\* Once a disconnect has been sent, no operation on the handle forgets it.
LEMMA DisconnectKept ==
  ASSUME NEW h \in Handle, h.sentDC
  PROVE  Queue(h).sentDC /\ Disconnect(h).sentDC /\ SendLoginSuccess(h).sentDC
<1>1. Queue(h) = h /\ Disconnect(h) = h
  BY DEF Queue, Disconnect
<1> QED
  BY <1>1 DEF SendLoginSuccess, Handle

\* A client that has been told to go stays told: no step resets m_HasSentDC.
LEMMA ToldToGo ==
  ASSUME TypeOK, [Next]_vars, NEW c \in Ids, handle[c].sentDC
  PROVE  handle'[c].sentDC
<1> USE DEF TypeOK
<1>1. ASSUME NEW d, NEW g, handle' = [handle EXCEPT ![d] = g],
             d = c => g.sentDC
      PROVE  handle'[c].sentDC
  BY <1>1
<1>2. ASSUME NEW d, BroadcastUserInfo(d) PROVE handle'[c].sentDC
  <2>1. handle'[c] = [handle[c] EXCEPT !.pending = @ \/ Subjects(d, c) # {}]
    BY <1>2 DEF BroadcastUserInfo
  <2> QED
    BY <2>1 DEF Handle
<1>3. ASSUME NEW d \in Ids,
             CloseConnection(d) \/ DestroyNext(d) \/ CreateLink \/ FlushOutgoing
               \/ SetWorking \/ SetAuthenticated
               \/ (\E t \in Thread : DestroyOnce(t) \/ SetDestroyed(t))
      PROVE  handle'[c].sentDC
  <2>1. handle[c] \in Handle
    OBVIOUS
  <2>2. \A v : /\ [handle[c] EXCEPT !.link = v].sentDC
               /\ [handle[c] EXCEPT !.pending = v].sentDC
               /\ [handle[c] EXCEPT !.state = v].sentDC
    BY <2>1 DEF Handle
  <2>3. CASE CloseConnection(d) \/ DestroyNext(d) \/ CreateLink
    BY <1>1, <2>2, <2>3 DEF CloseConnection, DestroyNext, CreateLink
  <2>4. CASE FlushOutgoing
    BY <1>1, <2>2, <2>4 DEF FlushOutgoing
  <2>5. ASSUME NEW e, NEW v, handle' = [handle EXCEPT ![e].state = v]
        PROVE  handle'[c].sentDC
    BY <2>2, <2>5
  <2>6. CASE SetWorking \/ SetAuthenticated
    BY <2>5, <2>6 DEF SetWorking, SetAuthenticated
  <2>7. ASSUME NEW t \in Thread, DestroyOnce(t) \/ SetDestroyed(t)
        PROVE  handle'[c].sentDC
    <3>1. \/ UNCHANGED handle
          \/ handle' = [handle EXCEPT ![call[t].id].state = csDestroying]
          \/ handle' = [handle EXCEPT ![call[t].id].state = csDestroyed]
      BY <2>7 DEF DestroyOnce, SetDestroyed
    <3> QED
      BY <2>5, <3>1
  <2> QED
    BY <1>3, <2>3, <2>4, <2>6, <2>7
<1>4. ASSUME NEW d \in Ids, ReceivePacket(d) PROVE handle'[c].sentDC
  <2>1. PICK p, n :
          handle' = [handle EXCEPT ![d].incoming = Append(@, p), ![d].ticks = n]
    BY <1>4 DEF ReceivePacket
  <2> QED
    BY <2>1 DEF Handle
<1>5. ASSUME NEW d \in Ids, TakeIncoming(d) PROVE handle'[c].sentDC
  <2> DEFINE h == handle[d]
             taken == [h EXCEPT !.incoming = <<>>]
             kept == [taken EXCEPT !.received = @ \o h.incoming]
  <2>1. \/ handle' = [handle EXCEPT ![d] = h]
        \/ handle' = [handle EXCEPT ![d] = kept]
        \/ handle' = [handle EXCEPT ![d] = Disconnect(taken)]
    BY <1>5 DEF TakeIncoming
  <2>2. d = c => taken.sentDC /\ kept.sentDC
    BY DEF Handle
  <2>3. d = c => Disconnect(taken).sentDC
    <3>1. <<>> \in Seq(Packet)
      OBVIOUS
    <3>2. taken \in Handle
      BY <3>1, FieldTypes
    <3> QED
      BY <2>2, <3>2, DisconnectKept
  <2> HIDE DEF taken, kept
  <2> QED
    BY <1>1, <2>1, <2>2, <2>3
<1>6. CASE AddReceivedData
  <2>1. tick.cur \in Ids /\ handle[tick.cur] \in Handle
    BY <1>6, PacketAt
  <2>2. ASSUME handle[tick.cur].received # <<>>
        PROVE  /\ Rest \in Handle
               /\ tick.cur = c => Rest.sentDC /\ Queue(Rest).sentDC /\ Disconnect(Rest).sentDC
    <3>1. Rest \in Handle
      BY <2>1, <2>2, PacketTypes
    <3>2. tick.cur = c => Rest.sentDC
      BY DEF Rest, Handle
    <3> QED
      BY <3>1, <3>2, DisconnectKept
  <2>3. ASSUME NEW h, Continue(h) \/ Abandon(h), tick.cur = c => h.sentDC
        PROVE  handle'[c].sentDC
    BY <1>1, <2>3 DEF Continue, Abandon
  <2>4. ASSUME NEW h \in Handle, NEW n, NEW b, HandleLogin(n, b, h),
               tick.cur = c => h.sentDC
        PROVE  handle'[c].sentDC
    <3>1. tick.cur = c => [h EXCEPT !.state = csAuthenticating].sentDC
      BY <2>4 DEF Handle
    <3> QED
      BY <2>3, <2>4, <3>1 DEF HandleLogin
  <2>5. CASE HandleStatusRequest
    <3> DEFINE h == [Rest EXCEPT !.proto = Packet1.next]
    <3>1. handle[tick.cur].received # <<>>
      BY <2>5 DEF HandleStatusRequest, AtPacket
    <3>2. ASSUME ValidState(Packet1.next), tick.cur = c PROVE Queue(h).sentDC
      <4>1. h \in Handle /\ h.sentDC
        BY <2>2, <3>1, <3>2, FieldTypes DEF ValidState, Handle
      <4> QED
        BY <4>1, DisconnectKept
    <3> HIDE DEF h
    <3> DEFINE v == IF ValidState(Packet1.next) THEN Queue(h) ELSE Disconnect(Rest)
    <3>3. Continue(v)
      BY <2>5 DEF HandleStatusRequest, h
    <3>4. tick.cur = c => v.sentDC
      BY <2>2, <3>1, <3>2
    <3> HIDE DEF v
    <3> QED
      BY <2>3, <3>3, <3>4
  <2>6. CASE HandleStatusPing \/ HandleIgnored \/ HandleWrongSize \/ HandleUnknown
               \/ HandleEmpty
    BY <2>2, <2>3, <2>6
    DEF HandleStatusPing, HandleIgnored, HandleWrongSize, HandleUnknown, HandleEmpty,
        AtPacket
  <2>7. CASE HandleLoginInfo
    BY <2>2, <2>4, <2>7 DEF HandleLoginInfo, AtPacket
  <2>8. CASE HandleStrayStatusRequest
    BY <2>2, <2>4, <2>8, HandleTypes DEF HandleStrayStatusRequest, AtPacket
  <2>9. CASE HandleMedia
    <3> DEFINE h == IF c = tick.cur THEN Rest ELSE handle[c]
    <3>1. h \in Handle /\ h.sentDC
      BY <2>2, <2>9 DEF HandleMedia, AtPacket
    <3>2. Queue(h).sentDC
      BY <3>1, DisconnectKept
    <3>3. handle'[c] = h \/ handle'[c] = Queue(h)
      BY <2>9 DEF HandleMedia
    <3> QED
      BY <3>1, <3>2, <3>3
  <2>10. CASE PacketsDone
    BY <2>3, <2>10 DEF PacketsDone
  <2> QED
    BY <1>6, <2>5, <2>6, <2>7, <2>8, <2>9, <2>10 DEF AddReceivedData
<1>7. ASSUME NEW due \in BOOLEAN, PingAndTimeout(due) PROVE handle'[c].sentDC
  <2> DEFINE h == handle[tick.cur]
             pinged == IF due /\ h.state = csWorking /\ h.proto = psWork
                       THEN Queue(h) ELSE h
             n == IF h.ticks > MaxTicks THEN h.ticks ELSE h.ticks + 1
             counted == [pinged EXCEPT !.ticks = n]
  <2>1. \/ handle' = [handle EXCEPT ![tick.cur] = counted]
        \/ handle' = [handle EXCEPT ![tick.cur] = Disconnect(counted)]
    BY <1>7 DEF PingAndTimeout
  <2>2. ASSUME tick.cur = c PROVE counted.sentDC /\ Disconnect(counted).sentDC
    <3>1. h \in Handle /\ h.sentDC /\ Queue(h) = h
      BY <2>2 DEF Queue
    <3>2. pinged = h
      BY <3>1
    <3>3. h.ticks \in Nat
      BY <3>1 DEF Handle
    <3>4. n \in Nat
      BY <3>3
    <3> HIDE DEF pinged, n
    <3>5. counted \in Handle
      BY <3>1, <3>2, <3>4, FieldTypes
    <3>6. counted.sentDC
      BY <3>1, <3>2 DEF Handle
    <3> QED
      BY <3>5, <3>6, DisconnectKept
  <2> HIDE DEF counted
  <2> QED
    BY <1>1, <2>1, <2>2
<1>8. CASE KickUser
  BY <1>1, <1>8, DisconnectKept DEF KickUser
<1>9. CASE Authenticate
  <2> DEFINE h == handle[auth.req.id]
             named == [h EXCEPT !.name = auth.req.name]
  <2>1. \/ handle' = [handle EXCEPT ![auth.req.id] = SendLoginSuccess(named)]
        \/ handle' = [handle EXCEPT ![auth.req.id] = Disconnect(h)]
    BY <1>9 DEF Authenticate
  <2>2. ASSUME auth.req.id = c
        PROVE  SendLoginSuccess(named).sentDC /\ Disconnect(h).sentDC
    <3>1. auth.req \in Request
      BY <1>9 DEF Authenticate, AuthPosition
    <3>2. h \in Handle /\ auth.req.name \in Name
      BY <2>2, <3>1 DEF Request
    <3>3. named \in Handle
      BY <3>2, FieldTypes
    <3>4. named.sentDC
      BY <2>2, <3>2 DEF Handle
    <3> QED
      BY <2>2, <3>2, <3>3, <3>4, DisconnectKept
  <2> HIDE DEF named
  <2> QED
    BY <1>1, <2>1, <2>2
<1>10. CASE BroadcastAuthenticated \/ (\E t \in Thread : BroadcastDestroyed(t))
  BY <1>2, <1>10 DEF BroadcastAuthenticated, BroadcastDestroyed
<1>11. ASSUME NEW d \in Ids,
              \/ AcceptConnection \/ ListClient \/ StartTick \/ RemoveDestroyed(d)
              \/ SendOnLink \/ WriteToLink \/ CheckAuthenticated \/ EndTick
              \/ TakeRequest \/ DropAnswer \/ StopAuthenticator \/ CloseListener
              \/ AskRestart \/ TickThreadEnded \/ ClearClients \/ UNCHANGED vars
       PROVE  handle'[c].sentDC
  BY <1>11
  DEF AcceptConnection, ListClient, StartTick, RemoveDestroyed, SendOnLink, WriteToLink,
      CheckAuthenticated, EndTick, TakeRequest, DropAnswer, StopAuthenticator,
      CloseListener, AskRestart, TickThreadEnded, ClearClients, vars
<1> QED
  BY <1>3, <1>4, <1>5, <1>6, <1>7, <1>8, <1>9, <1>10, <1>11
  DEF Next, Peers, Tick, ServerTick, Authenticator, Shutdown, ServerStopped, ServerStuck,
      Destroy, Thread

\* A broadcast about e leaves clients' names and states alone, writes only what
\* they are now, tells everybody else about e, and e about everybody.
LEMMA BroadcastTold ==
  ASSUME TypeOK, NEW e \in Ids, BroadcastUserInfo(e), NEW c \in Ids, NEW d \in Ids
  PROVE  /\ roster'[c][d] \in {roster[c][d], Report(d)}
         /\ c \notin clients \cup {e} => roster'[c][d] = roster[c][d]
         /\ /\ c \in clients /\ c # d /\ ~handle[c].sentDC
            /\ d = e \/ (c = e /\ IsLoggedIn(c) /\ d \in clients)
            => roster'[c][d] = Report(d)
<1>1. roster'[c][d] = IF d \in Subjects(e, c) THEN Report(d) ELSE roster[c][d]
  BY DEF BroadcastUserInfo
<1> QED
  BY <1>1 DEF Subjects

\* What peers were told changes with a broadcast about a listed client; what one
\* without a link should have been told, the tick thread drops.
LEMMA RosterMoves ==
  ASSUME TypeOK, Fresh, Locks, Connections, [Next]_vars
  PROVE  \/ UNCHANGED roster
         \/ \E e \in Ids : BroadcastUserInfo(e) /\ Listed(e) /\ UNCHANGED clients
         \/ /\ FlushOutgoing
            /\ \A c, d \in Ids :
                 roster'[c][d] = IF c = accepting THEN Unknown ELSE roster[c][d]
<1>1. CASE BroadcastAuthenticated
  <2>1. auth.req.id \in clients /\ clients \subseteq Ids
    BY <1>1 DEF BroadcastAuthenticated, Locks, TypeOK
  <2> QED
    BY <1>1, <2>1, ListedGrows DEF BroadcastAuthenticated
<1>2. ASSUME NEW t \in Thread, BroadcastDestroyed(t)
      PROVE  \E e \in Ids : BroadcastUserInfo(e) /\ Listed(e) /\ UNCHANGED clients
  <2>1. call[t] # NoCall /\ call[t] \in DestroyCall
    BY <1>2 DEF BroadcastDestroyed, NoCall, TypeOK
  <2>2. call[t].id \in Ids /\ Listed(call[t].id)
    BY <2>1 DEF DestroyCall, Connections
  <2> QED
    BY <1>2, <2>2 DEF BroadcastDestroyed
<1>3. ASSUME NEW c \in Ids,
             ReceivePacket(c) \/ CloseConnection(c) \/ RemoveDestroyed(c)
               \/ TakeIncoming(c) \/ DestroyNext(c)
      PROVE  UNCHANGED roster
  BY <1>3 DEF ReceivePacket, CloseConnection, RemoveDestroyed, TakeIncoming, DestroyNext
<1>4. ASSUME \/ Accepting \/ StartTick \/ EndTick \/ TakeRequest
             \/ KickUser \/ DropAnswer \/ Authenticate \/ SetAuthenticated
             \/ StopAuthenticator \/ CloseListener \/ AskRestart \/ TickThreadEnded
             \/ ClearClients
      PROVE  UNCHANGED roster
  BY <1>4
  DEF Accepting, AcceptConnection, ListClient, CreateLink, StartTick, EndTick,
      TakeRequest, KickUser, DropAnswer, Authenticate, SetAuthenticated,
      StopAuthenticator, CloseListener, AskRestart, TickThreadEnded, ClearClients
<1>5. ASSUME NEW t, DestroyOnce(t) \/ SetDestroyed(t) PROVE UNCHANGED roster
  BY <1>5 DEF DestroyOnce, SetDestroyed
<1>6. CASE FlushOutgoing
  BY <1>6 DEF FlushOutgoing, TypeOK
<1> QED
  BY <1>1, <1>2, <1>3, <1>4, <1>5, <1>6, ServerTickFrame
  DEF Next, Peers, Accepting, Tick, Authenticator, Shutdown, ServerStopped, ServerStuck,
      Destroy, Thread, vars

\* A client not yet in m_Clients enters it from the listener, told of nobody.
LEMMA ClientsGrow ==
  ASSUME TypeOK, Fresh, [Next]_vars, NEW c \in Ids, c \in clients', c \notin clients
  PROVE  ListClient /\ c = accepting /\ ~Listed(c) /\ ~HasName(c)
<1>1. ~AcceptConnection /\ ~CreateLink
  BY DEF AcceptConnection, CreateLink
<1>2. ListClient
  BY <1>1, ClientsWritten DEF Accepting
<1> QED
  BY <1>2 DEF ListClient, Listed, Fresh, Untouched

\* A client about to be promoted has been admitted, unless its connection is
\* lost: it cannot log in again, and Shutdown waits for the tick thread.
LEMMA PromotedAdmitted ==
  ASSUME TypeOK, Fresh, Phases, Locks, Connections, Told, [Next]_vars,
         tick'.pc = "promoting"
  PROVE  Admitted(tick.cur)' \/ ~socket'[tick'.cur]
<1> DEFINE c == tick'.cur
<1>1. c \in Ids /\ socket \in [Ids -> BOOLEAN] /\ socket' \in [Ids -> BOOLEAN]
  BY NextTypeOK DEF TypeOK, TickPosition
<1>2. /\ c = tick.cur
      /\ tick.pc = "promoting" \/ handle[c].state = csAuthenticated
  BY Promoting
<1>3. CASE Admitted(c) /\ socket[c]
  <2>1. handle[c].proto = psWork
    BY <1>1, <1>3 DEF Phases
  <2>2. ASSUME NEW t \in Thread, DestroyOnce(t) \/ SetDestroyed(t) PROVE call[t].id # c
    <3>1. call[t] # NoCall /\ tick.pc = "promoting"
      BY <2>2 DEF DestroyOnce, SetDestroyed, NoCall
    <3>2. t = "event" => call[t].id # c
      BY <1>3, <3>1 DEF Connections
    <3>3. t # "main"
      BY <3>1 DEF Connections, Locks
    <3> QED
      BY <3>2, <3>3 DEF Thread
  <2> QED
    BY <1>1, <1>2, <1>3, <2>1, <2>2, StateMoves DEF Admitted, psLogin, psWork
<1>4. CASE ~socket[c]
  <2>1. c # accepting
    BY <1>1, <1>2 DEF Phases, Admitted, Fresh, Untouched
  <2> QED
    BY <1>1, <1>4, <2>1, SocketMoves
<1>5. CASE ~Admitted(c) /\ socket[c]
  BY <1>2, <1>5 DEF Told, Admitted
<1> QED
  BY <1>1, <1>3, <1>4, <1>5

\* What peers were told stays right: of a destroyed client they hear only that
\* it is gone, and its broadcast reaches all that are not told to go.
LEMMA ToldStep ==
  TypeOK /\ Fresh /\ Phases /\ Locks /\ Connections /\ Told /\ [Next]_vars => Told'
<1> SUFFICES ASSUME TypeOK, Fresh, Phases, Locks, Connections, Told, [Next]_vars
             PROVE  Told'
  OBVIOUS
<1>1. tick'.pc = "promoting" => Admitted(tick.cur)' \/ ~socket'[tick'.cur]
  BY PromotedAdmitted
<1>2. ASSUME NEW c \in Ids, NEW d \in Ids, ~Listed(c)' PROVE roster'[c][d] = Unknown
  <2>1. ~Listed(c) /\ c \notin clients /\ roster[c][d] = Unknown
    BY <1>2, ListedGrows DEF Told
  <2> QED
    BY <2>1, RosterMoves, BroadcastTold
<1>3. ASSUME NEW c \in Ids, NEW d \in Ids, c # d, c \in clients',
             handle'[d].state = csDestroyed, ~Untold(d)', ~handle'[c].sentDC
      PROVE  roster'[c][d] \in {Offline, Unknown}
  <2>1. handle[d].state = csDestroyed
    <3>1. ASSUME NEW t \in Thread, SetDestroyed(t), call[t].id = d PROVE FALSE
      <4>1. call'[t] = [at |-> "destroyed", id |-> d]
        <5>1. /\ call' = [call EXCEPT ![t].at = "destroyed"]
              /\ call \in [Thread -> DestroyCall] /\ call[t].at = "destroying"
          BY <3>1 DEF SetDestroyed, TypeOK
        <5>2. call[t] = [at |-> "destroying", id |-> d]
          BY <3>1, <5>1 DEF DestroyCall, NoCall
        <5> QED
          BY <5>1, <5>2
      <4> QED
        BY <1>3, <4>1 DEF Untold
    <3> QED
      BY <1>3, <3>1, StateMoves
      DEF csAuthenticating, csAuthenticated, csWorking, csDestroying, csDestroyed
  <2>2. Report(d) = Offline
    BY <2>1 DEF Report, csWorking, csDestroyed
  <2>3. ~handle[c].sentDC
    BY <1>3, ToldToGo
  <2>4. CASE Untold(d)
    <3>1. PICK t \in Thread : call[t] = [at |-> "destroyed", id |-> d]
      BY <2>4 DEF Untold
    <3>2. call'[t] # call[t]
      BY <1>3, <3>1 DEF Untold
    <3>3. ~DestroyOnce(t) /\ ~SetDestroyed(t) /\ call[t] # NoCall
      BY <3>1 DEF DestroyOnce, SetDestroyed, NoCall
    <3>4. ASSUME NEW e \in Ids
          PROVE  /\ t = "event" => ~CloseConnection(e)
                 /\ t = "main" => ~DestroyNext(e)
      BY <3>3 DEF CloseConnection, EventIdle, DestroyNext
    <3>5. BroadcastDestroyed(t)
      BY <3>2, <3>3, <3>4, CallMoves
    <3> QED
      BY <1>3, <2>2, <2>3, <3>1, <3>5, BroadcastTold DEF BroadcastDestroyed
  <2>5. CASE ~Untold(d) /\ c \in clients
    <3>1. roster[c][d] \in {Offline, Unknown}
      BY <1>3, <2>1, <2>3, <2>5 DEF Told
    <3> QED
      BY <2>2, <3>1, RosterMoves, BroadcastTold
  <2>6. CASE c \notin clients
    <3>1. ListClient /\ ~Listed(c)
      BY <1>3, <2>6, ClientsGrow
    <3> QED
      BY <3>1 DEF ListClient, Told
  <2> QED
    BY <2>4, <2>5, <2>6
<1>4. clients' \subseteq Ids
  BY NextTypeOK DEF TypeOK
<1> QED
  BY <1>1, <1>2, <1>3, <1>4 DEF Told

\* A connected client that is admitted after a step, and not by this step, was
\* connected and admitted before it, under the same name.
LEMMA StillAdmitted ==
  ASSUME TypeOK, Fresh, Phases, Locks, Told, [Next]_vars, NEW c \in Ids,
         c \in clients', socket'[c], Admitted(c)',
         ~(auth'.pc = "authenticated" /\ auth'.req.id = c)
  PROVE  /\ c \in clients /\ socket[c] /\ Admitted(c)
         /\ handle'[c].name = handle[c].name
<1>1. socket \in [Ids -> BOOLEAN] /\ socket' \in [Ids -> BOOLEAN]
  BY NextTypeOK DEF TypeOK
<1>2. handle'[c].state \in {csAuthenticated, csWorking}
  BY DEF Admitted
<1>3. handle'[c].name = handle[c].name
  <2>1. CASE ~Authenticate
    BY <2>1, NamesWritten DEF SameName
  <2>2. CASE Authenticate
    <3>1. auth.req.id = c => handle[c].state = csAuthenticating
      BY <2>2 DEF Authenticate, Awaiting
    <3> QED
      BY <1>2, <2>2, <3>1, AuthenticateNames
      DEF Same, SameName, SameState, csAuthenticating, csAuthenticated, csWorking
  <2> QED
    BY <2>1, <2>2
<1>4. HasName(c)
  BY <1>3, PhasesStep DEF Phases, HasName, Admitted
<1>5. c \in clients /\ socket[c]
  <2>1. c # accepting
    BY <1>4 DEF Fresh, Untouched
  <2> QED
    BY <1>1, <2>1, ClientsGrow, SocketMoves
<1>6. Admitted(c)
  <2>1. ASSUME SetAuthenticated, auth.req.id = c PROVE FALSE
    BY <2>1 DEF SetAuthenticated, AuthGoto, TypeOK, AuthPosition
  <2>2. ASSUME tick.pc = "promoting", tick.cur = c PROVE Admitted(c)
    BY <1>5, <2>2 DEF Told
  <2> QED
    BY <1>2, <2>1, <2>2, StateMoves
    DEF Admitted, csAuthenticating, csAuthenticated, csWorking, csDestroying, csDestroyed
<1> QED
  BY <1>3, <1>5, <1>6

\* Between two clients that both were admitted before, a step tells nothing but
\* names; the broadcast that ends a login tells each of the other.
LEMMA PresenceStep ==
  TypeOK /\ Fresh /\ Phases /\ Locks /\ Connections /\ Told /\ Presence /\ [Next]_vars
    => Presence'
<1> SUFFICES ASSUME TypeOK, Fresh, Phases, Locks, Connections, Told, Presence,
                    [Next]_vars, NEW c \in clients', NEW d \in clients', c # d,
                    socket'[c], socket'[d], Admitted(c)', Admitted(d)',
                    ~handle'[c].sentDC,
                    ~(auth'.pc = "authenticated" /\ auth'.req.id \in {c, d})
             PROVE  roster'[c][d] = handle'[d].name
  BY DEF Presence
<1>1. c \in Ids /\ d \in Ids
  BY NextTypeOK DEF TypeOK
<1>2. /\ c \in clients /\ d \in clients
      /\ socket[c] /\ socket[d] /\ Admitted(c) /\ Admitted(d)
      /\ handle'[d].name = handle[d].name
  BY <1>1, StillAdmitted
<1>3. ~handle[c].sentDC
  BY <1>1, ToldToGo
<1>4. Report(d) = handle[d].name /\ IsLoggedIn(c)
  BY <1>2
  DEF Report, IsLoggedIn, Admitted, csAuthenticating, csAuthenticated, csWorking
<1>5. CASE auth.pc = "authenticated" /\ auth.req.id \in {c, d}
  <2>1. BroadcastAuthenticated
    BY <1>5, AuthMoves
    DEF TakeRequest, KickUser, DropAnswer, Authenticate, SetAuthenticated,
        StopAuthenticator
  <2> QED
    BY <1>1, <1>2, <1>3, <1>4, <1>5, <2>1, BroadcastTold DEF BroadcastAuthenticated
<1>6. CASE ~(auth.pc = "authenticated" /\ auth.req.id \in {c, d})
  <2>1. roster[c][d] = handle[d].name
    BY <1>2, <1>3, <1>6 DEF Presence
  <2>2. c # accepting
    BY <1>1, <1>2 DEF Phases, Fresh, Untouched
  <2> QED
    BY <1>1, <1>2, <1>4, <2>1, <2>2, RosterMoves, BroadcastTold
<1> QED
  BY <1>5, <1>6

\* Nothing has been told at the start.
LEMMA InitTold == Init => Told /\ Presence
  BY DEF Init, Told, Presence, NewHandle, csConnected, csDestroyed

\* Two connected clients that are logged in know each other, whichever logged
\* in first and whatever was lost, refused or destroyed in between.
THEOREM PeersKnowEachOther == Spec => []Presence
  BY InitRoster, InitTold, FreshStep, PhasesStep, LocksStep, ConnectionsStep,
     ToldStep, PresenceStep, TypeCorrect, PTL DEF Spec

\* What peers were told of a removed client: it is destroyed and no Destroy() of
\* it is under way, so its broadcast is over.
LEMMA GhostsGone ==
  TypeOK /\ Connections /\ Told /\ RemovedIsDestroyed => NoGhostOfRemoved
<1> SUFFICES ASSUME TypeOK, Connections, Told, RemovedIsDestroyed, NEW d \in Ids,
                    NEW c \in clients, Listed(d), d \notin clients,
                    call["event"].id # d, ~handle[c].sentDC
             PROVE  roster[c][d] \in {Offline, Unknown}
  BY DEF NoGhostOfRemoved
<1>1. c \in Ids /\ c # d
  BY DEF TypeOK
<1>2. handle[d].state = csDestroyed
  BY DEF RemovedIsDestroyed, Connections
<1>3. ~Untold(d)
  BY DEF Untold, Connections, Thread, NoCall
<1> QED
  BY <1>1, <1>2, <1>3 DEF Told

\* Nobody who listens believes a removed client is still there.
THEOREM NoGhosts == Spec => []NoGhostOfRemoved
  BY InitRoster, InitTold, FreshStep, PhasesStep, LocksStep, ConnectionsStep,
     ToldStep, GhostsGone, RemovedStayDestroyed, TypeCorrect, PTL DEF Spec

=============================================================================
