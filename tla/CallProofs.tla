----------------------------- MODULE CallProofs ------------------------------
(* Theorems about Call, for any users and any number of requests. *)
EXTENDS Call, TLAPS

-----------------------------------------------------------------------------
(* Types *)

Packet == [to : Users, type : Media]
Notice == [from : Users, type : Media \cup {"offline"}]

\* The state one client has, and a function whose value for it has changed.
LEMMA ClientTypes ==
  ASSUME TypeOK, NEW c \in Users
  PROVE  /\ me[c] \in Conductor
         /\ inbox[c] \in Seq(Packet)
         /\ out[c] \in Seq(Notice)
         /\ posted[c] \in Seq({"closed"} \cup Descriptions)
         /\ \A r \in Conductor : [me EXCEPT ![c] = r] \in [Users -> Conductor]
         /\ \A s \in Seq(Packet) :
              [inbox EXCEPT ![c] = s] \in [Users -> Seq(Packet)]
         /\ \A s \in Seq(Notice) :
              [out EXCEPT ![c] = s] \in [Users -> Seq(Notice)]
         /\ \A s \in Seq({"closed"} \cup Descriptions) :
              [posted EXCEPT ![c] = s]
                \in [Users -> Seq({"closed"} \cup Descriptions)]
<1>1. /\ me \in [Users -> Conductor]
      /\ inbox \in [Users -> Seq(Packet)]
      /\ out \in [Users -> Seq(Notice)]
      /\ posted \in [Users -> Seq({"closed"} \cup Descriptions)]
  BY DEF TypeOK, Packet, Notice
<1> QED
  BY <1>1

\* What Conductor writes to its own state is well formed.
LEMMA ConductorTypes ==
  ASSUME TypeOK, NEW c \in Users
  PROVE  /\ \A ui \in {"connect", "list", "streaming"} :
              Idle(c, ui) \in [Users -> Conductor]
         /\ \A d \in Users, pc \in Connection :
              Begin(c, d, pc) \in [Users -> Conductor]
         /\ \A pc \in Connection \cup {NoConnection} :
              [me EXCEPT ![c].pc = pc] \in [Users -> Conductor]
         /\ [me EXCEPT ![c].peer = NoUser] \in [Users -> Conductor]
<1>1. ASSUME NEW ui \in {"connect", "list", "streaming"}
      PROVE  Idle(c, ui) \in [Users -> Conductor]
  BY ClientTypes DEF Idle, Conductor
<1>2. ASSUME NEW d \in Users, NEW pc \in Connection
      PROVE  Begin(c, d, pc) \in [Users -> Conductor]
  BY ClientTypes DEF Begin, Conductor
<1>3. ASSUME NEW pc \in Connection \cup {NoConnection}
      PROVE  [me EXCEPT ![c].pc = pc] \in [Users -> Conductor]
  <2>1. [me[c] EXCEPT !.pc = pc] \in Conductor
    BY ClientTypes DEF Conductor
  <2> QED
    BY <2>1, ClientTypes
<1>4. [me EXCEPT ![c].peer = NoUser] \in [Users -> Conductor]
  <2>1. [me[c] EXCEPT !.peer = NoUser] \in Conductor
    BY ClientTypes DEF Conductor
  <2> QED
    BY <2>1, ClientTypes
<1> QED
  BY <1>1, <1>2, <1>3, <1>4

\* What a client sends goes to a user.
LEMMA SentTypes ==
  ASSUME TypeOK, NEW c \in Users, NEW d \in Users \cup {NoUser}, NEW type \in Media
  PROVE  Sent(c, d, type) \in [Users -> Seq(Packet)]
<1>1. inbox \in [Users -> Seq(Packet)]
  BY DEF TypeOK, Packet
<1>2. ASSUME d \in Users
      PROVE  Append(inbox[c], [to |-> d, type |-> type]) \in Seq(Packet)
  <2>1. [to |-> d, type |-> type] \in Packet
    BY <1>2 DEF Packet
  <2> QED
    BY <2>1, ClientTypes
<1> QED
  BY <1>1, <1>2, ClientTypes DEF Sent

\* A packet that has arrived was sent by a user.
LEMMA ArrivedTypes ==
  ASSUME TypeOK, NEW c \in Users, NEW types, Arrived(c, types)
  PROVE  /\ Head(out[c]) \in Notice
         /\ Sender(c) \in Users
         /\ Head(out[c]).type \in types
         /\ Taken(c) => out' \in [Users -> Seq(Notice)]
<1>1. out[c] \in Seq(Notice) /\ out[c] # <<>>
  BY ClientTypes DEF Arrived
<1>2. Head(out[c]) \in Notice /\ Tail(out[c]) \in Seq(Notice)
  BY <1>1
<1>3. Taken(c) => out' \in [Users -> Seq(Notice)]
  BY <1>2, ClientTypes DEF Taken
<1>4. Sender(c) \in Users
  BY <1>2 DEF Sender, Notice
<1> QED
  BY <1>2, <1>3, <1>4 DEF Arrived

\* Closing a connection leaves well-formed state.
LEMMA CloseTypes ==
  ASSUME TypeOK, NEW c \in Users, Close(c)
  PROVE  online' \in [Users -> BOOLEAN] /\ out' \in [Users -> Seq(Notice)]
<1>1. online' \in [Users -> BOOLEAN]
  BY DEF TypeOK, Close
<1>2. <<>> \in Seq(Notice)
  OBVIOUS
<1> QED
  BY <1>1, <1>2, ClientTypes DEF Close

\* A callback that is posted is one Conductor knows.
LEMMA PostTypes ==
  ASSUME TypeOK, NEW c \in Users, NEW item \in {"closed"} \cup Descriptions,
         Post(c, item)
  PROVE  posted' \in [Users -> Seq({"closed"} \cup Descriptions)]
<1>1. Append(posted[c], item) \in Seq({"closed"} \cup Descriptions)
  BY ClientTypes
<1> QED
  BY <1>1, ClientTypes DEF Post

\* Everybody starts signed in and without a call.
LEMMA InitTypeOK == Init => TypeOK
<1> SUFFICES ASSUME Init PROVE TypeOK
  OBVIOUS
<1>1. /\ me \in [Users -> Conductor]
      /\ posted \in [Users -> Seq({"closed"} \cup Descriptions)]
      /\ online \in [Users -> BOOLEAN] /\ listed \in [Users -> BOOLEAN]
  BY DEF Init, Conductor, NoConnection
<1>2. /\ inbox \in [Users -> Seq([to : Users, type : Media])]
      /\ out \in [Users -> Seq([from : Users, type : Media \cup {"offline"}])]
  BY DEF Init
<1>3. requests \in [Users -> Nat] /\ agreed \in SUBSET (SUBSET Users)
  BY BoundsAssumption DEF Init
<1> QED
  BY <1>1, <1>2, <1>3 DEF TypeOK

\* The user's actions keep the state well formed.
LEMMA UserTypes ==
  ASSUME TypeOK, NEW c \in Users, User(c)
  PROVE  TypeOK'
<1> DEFINE Typed == /\ me' \in [Users -> Conductor]
                    /\ inbox' \in [Users -> Seq(Packet)]
<1>0. me[c].peer \in Users \cup {NoUser} /\ {"request", "bye"} \subseteq Media
  BY DEF TypeOK, Conductor, Media
<1>1. ASSUME NEW d \in Users, ConnectToPeer(c, d) PROVE TypeOK'
  <2>1. inbox' \in [Users -> Seq(Packet)]
    BY <1>0, <1>1, SentTypes DEF ConnectToPeer
  <2>2. requests' \in [Users -> Nat]
    BY <1>1 DEF ConnectToPeer, TypeOK
  <2> QED
    BY <1>1, <2>1, <2>2 DEF ConnectToPeer, TypeOK, Packet
<1>2. ASSUME DisconnectFromCurrentPeer(c) PROVE TypeOK'
  <2>1. Typed
    BY <1>0, <1>2, SentTypes, ConductorTypes DEF DisconnectFromCurrentPeer, TypeOK, Packet
  <2> QED
    BY <1>2, <2>1 DEF DisconnectFromCurrentPeer, TypeOK, Packet
<1>3. ASSUME CloseWindow(c) PROVE TypeOK'
  <2>1. Typed
    BY <1>0, <1>3, SentTypes, ConductorTypes DEF CloseWindow, TypeOK, Packet
  <2>2. posted' \in [Users -> Seq({"closed"} \cup Descriptions)]
    BY <1>3 DEF CloseWindow, TypeOK
  <2>3. online' \in [Users -> BOOLEAN] /\ out' \in [Users -> Seq(Notice)]
    BY <1>3, CloseTypes DEF CloseWindow
  <2> QED
    BY <1>3, <2>1, <2>2, <2>3 DEF CloseWindow, TypeOK, Packet, Notice
<1> QED
  BY <1>1, <1>2, <1>3 DEF User

\* A packet that is gone from a client's queue leaves the rest of it.
LEMMA TailTypes ==
  ASSUME TypeOK, NEW c \in Users
  PROVE  /\ posted[c] # <<>> =>
              /\ Head(posted[c]) \in {"closed"} \cup Descriptions
              /\ [posted EXCEPT ![c] = Tail(@)]
                   \in [Users -> Seq({"closed"} \cup Descriptions)]
         /\ inbox[c] # <<>> =>
              /\ Head(inbox[c]) \in Packet
              /\ [inbox EXCEPT ![c] = Tail(@)] \in [Users -> Seq(Packet)]
<1>1. ASSUME posted[c] # <<>>
      PROVE  /\ Head(posted[c]) \in {"closed"} \cup Descriptions
             /\ Tail(posted[c]) \in Seq({"closed"} \cup Descriptions)
  BY <1>1, ClientTypes
<1>2. ASSUME inbox[c] # <<>>
      PROVE  Head(inbox[c]) \in Packet /\ Tail(inbox[c]) \in Seq(Packet)
  BY <1>2, ClientTypes
<1> QED
  BY <1>1, <1>2, ClientTypes

\* Handling a posted callback keeps the state well formed.
LEMMA PostedTypes ==
  ASSUME TypeOK, NEW c \in Users, Posted(c)
  PROVE  TypeOK'
<1>1. posted' \in [Users -> Seq({"closed"} \cup Descriptions)]
  BY TailTypes DEF Posted, PeerConnectionClosed, SendMessageToPeer, HandlePosted
<1>2. ASSUME PeerConnectionClosed(c) PROVE TypeOK'
  <2>1. me' \in [Users -> Conductor]
    BY <1>2, ConductorTypes DEF PeerConnectionClosed
  <2> QED
    BY <1>1, <1>2, <2>1 DEF PeerConnectionClosed, HandlePosted, TypeOK
<1>3. ASSUME SendMessageToPeer(c) PROVE TypeOK'
  <2>1. me' \in [Users -> Conductor]
    BY <1>3, ConductorTypes DEF SendMessageToPeer, TypeOK
  <2>2. me[c].peer \in Users \cup {NoUser}
    BY ClientTypes DEF Conductor
  <2>3. Head(posted[c]) \in Media
    BY <1>3 DEF SendMessageToPeer, Media
  <2>4. inbox' \in [Users -> Seq(Packet)]
    BY <1>3, <2>2, <2>3, SentTypes DEF SendMessageToPeer
  <2> QED
    BY <1>1, <1>3, <2>1, <2>4 DEF SendMessageToPeer, HandlePosted, TypeOK, Packet
<1> QED
  BY <1>2, <1>3 DEF Posted

\* A description that is ready keeps the state well formed.
LEMMA DescriptionTypes ==
  ASSUME TypeOK, NEW c \in Users, DescriptionReady(c)
  PROVE  TypeOK'
<1>1. me' \in [Users -> Conductor]
  <2>1. PICK pc \in {"offered", "open"} : me' = [me EXCEPT ![c].pc = pc]
    BY DEF DescriptionReady
  <2>2. pc \in Connection
    BY DEF Connection
  <2> QED
    BY <2>1, <2>2, ConductorTypes
<1>2. posted' \in [Users -> Seq({"closed"} \cup Descriptions)]
  BY PostTypes DEF DescriptionReady, Descriptions
<1> QED
  BY <1>1, <1>2 DEF DescriptionReady, TypeOK

\* WebRTC's states stay among themselves.
LEMMA ConnectionStates ==
  ASSUME TypeOK, NEW c \in Users, InCall(c)
  PROVE  /\ me[c].pc \in Connection
         /\ AfterOffer(me[c].pc) \subseteq Connection
         /\ AfterAnswer(me[c].pc) \in Connection
<1>1. me[c].pc \in Connection
  BY ClientTypes DEF Conductor, InCall
<1> QED
  BY <1>1 DEF AfterOffer, AfterAnswer, Connection

\* Handling a packet keeps the state well formed.
LEMMA ReceiveTypes ==
  ASSUME TypeOK, NEW c \in Users, Receive(c)
  PROVE  TypeOK'
<1> DEFINE NoticeLeft == out' \in [Users -> Seq(Notice)]
<1>1. ASSUME ReceiveRequest(c) PROVE TypeOK'
  <2>1. NoticeLeft /\ Sender(c) \in Users
    BY <1>1, ArrivedTypes DEF ReceiveRequest
  <2>2. inbox' \in [Users -> Seq(Packet)]
    BY <1>1, <2>1, SentTypes DEF ReceiveRequest, Media
  <2>3. agreed' \in SUBSET (SUBSET Users)
    BY <1>1, <2>1 DEF ReceiveRequest, TypeOK
  <2> QED
    BY <1>1, <2>1, <2>2, <2>3 DEF ReceiveRequest, TypeOK, Packet, Notice
<1>2. ASSUME ReceiveAccept(c) PROVE TypeOK'
  <2>1. NoticeLeft /\ Sender(c) \in Users
    BY <1>2, ArrivedTypes DEF ReceiveAccept
  <2>2. me[c].ui \in {"connect", "list", "streaming"} /\ me \in [Users -> Conductor]
    BY ClientTypes DEF Conductor, TypeOK
  <2>3. me' \in [Users -> Conductor]
    <3>1. "offering" \in Connection
      BY DEF Connection
    <3>2. /\ Begin(c, Sender(c), "offering") \in [Users -> Conductor]
          /\ Idle(c, me[c].ui) \in [Users -> Conductor]
      BY <2>1, <2>2, <3>1, ConductorTypes
    <3> QED
      BY <1>2, <2>2, <3>2 DEF ReceiveAccept
  <2> QED
    BY <1>2, <2>1, <2>3 DEF ReceiveAccept, TypeOK, Notice
<1>3. ASSUME ReceiveRefusal(c) PROVE TypeOK'
  <2>1. NoticeLeft /\ me' \in [Users -> Conductor]
    BY <1>3, ArrivedTypes, ConductorTypes DEF ReceiveRefusal
  <2> QED
    BY <1>3, <2>1 DEF ReceiveRefusal, TypeOK, Notice
<1>4. ASSUME ReceiveHangUp(c) PROVE TypeOK'
  <2>1. NoticeLeft
    BY <1>4, ArrivedTypes DEF ReceiveHangUp
  <2>2. posted' \in [Users -> Seq({"closed"} \cup Descriptions)]
    BY <1>4, PostTypes DEF ReceiveHangUp, TypeOK
  <2> QED
    BY <1>4, <2>1, <2>2 DEF ReceiveHangUp, TypeOK, Notice
<1>5. ASSUME ReceiveFirstDescription(c) PROVE TypeOK'
  <2>1. Sender(c) \in Users /\ (Taken(c) => NoticeLeft)
    BY <1>5, ArrivedTypes DEF ReceiveFirstDescription
  <2>2. NoticeLeft /\ online' \in [Users -> BOOLEAN]
    BY <1>5, <2>1, CloseTypes DEF ReceiveFirstDescription, TypeOK
  <2>3. me' \in [Users -> Conductor]
    <3>1. "answering" \in Connection /\ "new" \in Connection
      BY DEF Connection
    <3>2. /\ Begin(c, Sender(c), "answering") \in [Users -> Conductor]
          /\ Begin(c, Sender(c), "new") \in [Users -> Conductor]
          /\ Idle(c, "connect") \in [Users -> Conductor]
      BY <2>1, <3>1, ConductorTypes
    <3> QED
      BY <1>5, <3>2 DEF ReceiveFirstDescription
  <2> QED
    BY <1>5, <2>2, <2>3 DEF ReceiveFirstDescription, TypeOK, Notice
<1>6. ASSUME ReceiveDescription(c) PROVE TypeOK'
  <2>1. NoticeLeft
    BY <1>6, ArrivedTypes DEF ReceiveDescription
  <2>2. me' \in [Users -> Conductor]
    <3>1. PICK pc \in Connection : me' = [me EXCEPT ![c].pc = pc]
      BY <1>6, ConnectionStates DEF ReceiveDescription
    <3> QED
      BY <3>1, ConductorTypes
  <2> QED
    BY <1>6, <2>1, <2>2 DEF ReceiveDescription, TypeOK, Notice
<1> QED
  BY <1>1, <1>2, <1>3, <1>4, <1>5, <1>6 DEF Receive

\* The end of a connection, and the server, keep the state well formed.
LEMMA ServerTypes ==
  ASSUME TypeOK, NEW c \in Users, OnClose(c) \/ HandleErrorCode(c) \/ Server(c)
  PROVE  TypeOK'
<1>1. ASSUME OnClose(c) PROVE TypeOK'
  BY <1>1, CloseTypes DEF OnClose, TypeOK, Notice
<1>2. ASSUME HandleErrorCode(c) PROVE TypeOK'
  <2>1. me' \in [Users -> Conductor]
    BY <1>2, ConductorTypes DEF HandleErrorCode
  <2> QED
    BY <1>2, <2>1, CloseTypes DEF HandleErrorCode, TypeOK, Notice
<1>3. ASSUME Relay(c) PROVE TypeOK'
  <2> DEFINE m == Head(inbox[c])
  <2>1. m \in Packet /\ inbox' \in [Users -> Seq(Packet)]
    BY <1>3, TailTypes DEF Relay
  <2>2. [from |-> c, type |-> m.type] \in Notice /\ m.to \in Users
    BY <2>1 DEF Packet, Notice
  <2>3. Append(out[m.to], [from |-> c, type |-> m.type]) \in Seq(Notice)
    BY <2>2, ClientTypes
  <2>4. out \in [Users -> Seq(Notice)]
    BY DEF TypeOK, Notice
  <2>5. out' \in [Users -> Seq(Notice)]
    BY <1>3, <2>2, <2>3, <2>4, ClientTypes DEF Relay, Queued
  <2> QED
    BY <1>3, <2>1, <2>5 DEF Relay, TypeOK, Packet, Notice
<1>4. ASSUME Remove(c) PROVE TypeOK'
  <2>1. listed' \in [Users -> BOOLEAN]
    BY <1>4 DEF Remove, TypeOK
  <2>2. inbox' \in [Users -> Seq(Packet)]
    BY <1>4, ClientTypes DEF Remove
  <2>3. ASSUME NEW d \in Users
        PROVE  /\ out[d] \in Seq(Notice)
               /\ Append(out[d], [from |-> c, type |-> "offline"]) \in Seq(Notice)
    <3>1. [from |-> c, type |-> "offline"] \in Notice
      BY DEF Notice
    <3> QED
      BY <3>1, ClientTypes
  <2>4. out' \in [Users -> Seq(Notice)]
    BY <1>4, <2>3 DEF Remove
  <2> QED
    BY <1>4, <2>1, <2>2, <2>4 DEF Remove, TypeOK, Packet, Notice
<1> QED
  BY <1>1, <1>2, <1>3, <1>4 DEF Server

\* Every step keeps the state well formed.
LEMMA NextTypeOK == TypeOK /\ [Next]_vars => TypeOK'
<1> SUFFICES ASSUME TypeOK, [Next]_vars PROVE TypeOK'
  OBVIOUS
<1>1. CASE UNCHANGED vars
  BY <1>1 DEF vars, TypeOK
<1>2. CASE AllGone
  BY <1>1, <1>2 DEF AllGone
<1>3. ASSUME NEW c \in Users,
             \/ User(c) \/ Posted(c) \/ DescriptionReady(c) \/ Receive(c)
             \/ OnClose(c) \/ HandleErrorCode(c) \/ Server(c)
      PROVE  TypeOK'
  BY <1>3, UserTypes, PostedTypes, DescriptionTypes, ReceiveTypes, ServerTypes
<1> QED
  BY <1>1, <1>2, <1>3 DEF Next

\* The state is well formed, for any users and any number of requests.
THEOREM TypeCorrect == Spec => []TypeOK
<1> QED
  BY InitTypeOK, NextTypeOK, PTL DEF Spec

-----------------------------------------------------------------------------
(* What a step does to the Conductor of the client that takes it *)

Step(c) ==
  \/ User(c) \/ Posted(c) \/ DescriptionReady(c) \/ Receive(c)
  \/ OnClose(c) \/ HandleErrorCode(c) \/ Server(c)

Ends(c) == \E ui \in {"connect", "list"} : me' = Idle(c, ui)

Begins(c) ==
  /\ ~InCall(c)
  /\ \E d \in Users, pc \in Connection : {c, d} \in agreed /\ me' = Begin(c, d, pc)

GoesOn(c) ==
  /\ InCall(c)
  /\ \E pc \in Connection : me' = [me EXCEPT ![c].pc = pc]

Forgets(c) == me' = [me EXCEPT ![c].peer = NoUser]

Agrees(c) == \E d \in Users : agreed' = agreed \cup {{c, d}}

\* A client that is not in a call, and stays so, keeps its Conductor as it is.
LEMMA IdleStays ==
  ASSUME TypeOK, CallShown, NEW c \in Users, ~InCall(c)
  PROVE  /\ Idle(c, me[c].ui) = me
         /\ [me EXCEPT ![c].peer = NoUser] = me
<1>1. me[c].peer = NoUser /\ me[c].pc = NoConnection
  BY DEF CallShown, InCall
<1>2. me[c] = [peer |-> NoUser, pc |-> NoConnection, ui |-> me[c].ui]
  BY <1>1, ClientTypes DEF Conductor
<1>3. [me[c] EXCEPT !.peer = NoUser] = me[c]
  BY <1>1, <1>2
<1>4. me \in [Users -> Conductor]
  BY DEF TypeOK
<1> QED
  BY <1>2, <1>3, <1>4 DEF Idle

\* With the packet at the head of its queue a client has its sender's consent.
LEMMA ArrivedAgreed ==
  ASSUME TypeOK, ConsentKept, NEW c \in Users, NEW types \in SUBSET Agreed,
         Arrived(c, types)
  PROVE  Sender(c) \in Users /\ {c, Sender(c)} \in agreed
<1>1. out[c] \in Seq(Notice) /\ out[c] # <<>> /\ Head(out[c]).type \in Agreed
  BY ClientTypes DEF Arrived
<1>2. 1 \in 1 .. Len(out[c]) /\ Head(out[c]) = out[c][1]
  BY <1>1
<1>3. {c, Sender(c)} \in agreed
  BY <1>1, <1>2 DEF ConsentKept, SentTo, Sender
<1> QED
  BY <1>3, ArrivedTypes

\* Every step leaves the Conductors alone, or ends, begins, goes on with or
\* forgets the partner of one client's call; pairs that agree are only added.
LEMMA ConductorSteps ==
  ASSUME TypeOK, CallShown, ConsentKept, NEW c \in Users, Step(c)
  PROVE  \/ UNCHANGED me /\ (UNCHANGED agreed \/ Agrees(c))
         \/ UNCHANGED agreed /\ (Ends(c) \/ Begins(c) \/ GoesOn(c) \/ Forgets(c))
<1> DEFINE Goal == \/ UNCHANGED me /\ (UNCHANGED agreed \/ Agrees(c))
                   \/ UNCHANGED agreed
                        /\ (Ends(c) \/ Begins(c) \/ GoesOn(c) \/ Forgets(c))
<1>1. ASSUME User(c) PROVE Goal
  BY <1>1 DEF User, ConnectToPeer, DisconnectFromCurrentPeer, CloseWindow, Ends
<1>2. ASSUME Posted(c) PROVE Goal
  <2>1. CASE PeerConnectionClosed(c)
    BY <2>1 DEF PeerConnectionClosed, HandlePosted, Ends
  <2>2. CASE SendMessageToPeer(c)
    BY <2>2 DEF SendMessageToPeer, HandlePosted, Forgets
  <2> QED
    BY <1>2, <2>1, <2>2 DEF Posted
<1>3. ASSUME DescriptionReady(c) PROVE Goal
  <2>1. InCall(c) /\ {"offered", "open"} \subseteq Connection
    BY <1>3 DEF DescriptionReady, InCall, NoConnection, Connection
  <2> QED
    BY <1>3, <2>1 DEF DescriptionReady, GoesOn
<1>4. ASSUME ReceiveRequest(c) PROVE Goal
  <2>1. Sender(c) \in Users
    BY <1>4, ArrivedTypes DEF ReceiveRequest
  <2> QED
    BY <1>4, <2>1 DEF ReceiveRequest, Agrees
<1>5. ASSUME ReceiveAccept(c) PROVE Goal
  <2>1. Sender(c) \in Users /\ {c, Sender(c)} \in agreed
    BY <1>5, ArrivedAgreed DEF ReceiveAccept, Agreed
  <2>2. "offering" \in Connection
    BY DEF Connection
  <2> QED
    BY <1>5, <2>1, <2>2, IdleStays DEF ReceiveAccept, Begins
<1>6. ASSUME ReceiveRefusal(c) \/ ReceiveHangUp(c) PROVE Goal
  BY <1>6 DEF ReceiveRefusal, ReceiveHangUp, Forgets
<1>7. ASSUME ReceiveFirstDescription(c) PROVE Goal
  <2>1. Sender(c) \in Users /\ {c, Sender(c)} \in agreed
    BY <1>7, ArrivedAgreed DEF ReceiveFirstDescription, Agreed
  <2>2. {"answering", "new"} \subseteq Connection
    BY DEF Connection
  <2> QED
    BY <1>7, <2>1, <2>2 DEF ReceiveFirstDescription, Begins, Ends
<1>8. ASSUME ReceiveDescription(c) PROVE Goal
  BY <1>8, ConnectionStates DEF ReceiveDescription, GoesOn
<1>9. ASSUME OnClose(c) \/ HandleErrorCode(c) \/ Server(c) PROVE Goal
  BY <1>9 DEF OnClose, HandleErrorCode, Server, Relay, Remove, Ends
<1> QED
  BY <1>1, <1>2, <1>3, <1>4, <1>5, <1>6, <1>7, <1>8, <1>9 DEF Step, Receive

\* What the four kinds of change make of the Conductor, and of nobody else's.
LEMMA ConductorChanges ==
  ASSUME TypeOK, NEW c \in Users
  PROVE  /\ Ends(c) \/ Begins(c) \/ GoesOn(c) \/ Forgets(c) =>
              /\ DOMAIN me' = Users
              /\ \A d \in Users \ {c} : me'[d] = me[d]
         /\ Ends(c) => /\ me'[c].peer = NoUser /\ me'[c].pc = NoConnection
                       /\ me'[c].ui # "streaming"
         /\ Begins(c) => /\ me'[c].peer \in Users /\ {c, me'[c].peer} \in agreed
                         /\ me'[c].pc # NoConnection /\ me'[c].ui = "streaming"
         /\ GoesOn(c) => /\ me'[c].peer = me[c].peer /\ me'[c].ui = me[c].ui
                         /\ me'[c].pc # NoConnection
         /\ Forgets(c) => /\ me'[c].peer = NoUser /\ me'[c].ui = me[c].ui
                          /\ me'[c].pc = me[c].pc
<1>1. me \in [Users -> Conductor] /\ NoConnection \notin Connection
  BY DEF TypeOK, NoConnection, Connection
<1>2. me[c] \in Conductor
  BY <1>1
<1>3. ASSUME Ends(c)
      PROVE  /\ DOMAIN me' = Users
             /\ \A d \in Users \ {c} : me'[d] = me[d]
             /\ me'[c].peer = NoUser /\ me'[c].pc = NoConnection
             /\ me'[c].ui # "streaming"
  BY <1>1, <1>3 DEF Ends, Idle
<1>4. ASSUME Begins(c)
      PROVE  /\ DOMAIN me' = Users
             /\ \A d \in Users \ {c} : me'[d] = me[d]
             /\ me'[c].peer \in Users /\ {c, me'[c].peer} \in agreed
             /\ me'[c].pc # NoConnection /\ me'[c].ui = "streaming"
  BY <1>1, <1>4 DEF Begins, Begin
<1>5. ASSUME GoesOn(c)
      PROVE  /\ DOMAIN me' = Users
             /\ \A d \in Users \ {c} : me'[d] = me[d]
             /\ me'[c].peer = me[c].peer /\ me'[c].ui = me[c].ui
             /\ me'[c].pc # NoConnection
  BY <1>1, <1>2, <1>5 DEF GoesOn, Conductor
<1>6. ASSUME Forgets(c)
      PROVE  /\ DOMAIN me' = Users
             /\ \A d \in Users \ {c} : me'[d] = me[d]
             /\ me'[c].peer = NoUser /\ me'[c].ui = me[c].ui
             /\ me'[c].pc = me[c].pc
  BY <1>1, <1>2, <1>6 DEF Forgets, Conductor
<1> QED
  BY <1>3, <1>4, <1>5, <1>6

-----------------------------------------------------------------------------
(* The window and the call *)

\* Whatever a client does, its window, its PeerConnection and its peer agree.
LEMMA CallShownStep ==
  TypeOK /\ CallShown /\ ConsentKept /\ [Next]_vars => CallShown'
<1> SUFFICES ASSUME TypeOK, CallShown, ConsentKept, [Next]_vars PROVE CallShown'
  OBVIOUS
<1>1. CASE UNCHANGED me
  BY <1>1 DEF CallShown, InCall
<1>2. ASSUME NEW c \in Users, Ends(c) \/ Begins(c) \/ GoesOn(c) \/ Forgets(c)
      PROVE  CallShown'
  <2> SUFFICES ASSUME NEW d \in Users
               PROVE  /\ ~InCall(d)' => me'[d].peer = NoUser
                      /\ InCall(d)' <=> me'[d].ui = "streaming"
    BY DEF CallShown
  <2>0. /\ me[d].pc = NoConnection => me[d].peer = NoUser
        /\ me[d].pc # NoConnection <=> me[d].ui = "streaming"
    BY DEF CallShown, InCall
  <2>1. CASE d # c
    <3>1. me'[d] = me[d]
      BY <1>2, <2>1, ConductorChanges
    <3> QED
      BY <2>0, <3>1 DEF InCall
  <2>2. ASSUME d = c, Ends(c)
        PROVE  ~InCall(d)' /\ me'[d].peer = NoUser /\ me'[d].ui # "streaming"
    BY <2>2, ConductorChanges DEF InCall
  <2>3. ASSUME d = c, Begins(c) PROVE InCall(d)' /\ me'[d].ui = "streaming"
    BY <2>3, ConductorChanges DEF InCall
  <2>4. ASSUME d = c, GoesOn(c) PROVE InCall(d)' /\ me'[d].ui = "streaming"
    <3>1. me'[c].ui = me[c].ui /\ me'[c].pc # NoConnection
      BY <2>4, ConductorChanges
    <3>2. me[c].pc # NoConnection
      BY <2>4 DEF GoesOn, InCall
    <3> QED
      BY <2>0, <2>4, <3>1, <3>2 DEF InCall
  <2>5. ASSUME d = c, Forgets(c)
        PROVE  /\ me'[d].peer = NoUser
               /\ InCall(d)' <=> me'[d].ui = "streaming"
    <3>1. me'[c].peer = NoUser /\ me'[c].ui = me[c].ui /\ me'[c].pc = me[c].pc
      BY <2>5, ConductorChanges
    <3> QED
      BY <2>0, <2>5, <3>1 DEF InCall
  <2> QED
    BY <1>2, <2>1, <2>2, <2>3, <2>4, <2>5
<1>3. CASE AllGone \/ UNCHANGED vars
  BY <1>1, <1>3 DEF AllGone, vars
<1> QED
  BY <1>1, <1>2, <1>3, ConductorSteps DEF Next, Step

-----------------------------------------------------------------------------
(* No call without consent *)

\* Consent that covers what is queued covers what is left of it, and more with
\* a packet that needs none or has it; and it stays when more users agree.
LEMMA ConsentOfQueues ==
  ASSUME NEW c \in Users, NEW A, NEW B, A \subseteq B
  PROVE  /\ \A s \in Seq(Packet) : SentBy(c, s, A) =>
              /\ SentBy(c, s, B)
              /\ s # <<>> => SentBy(c, Tail(s), B)
              /\ \A p \in Packet : (p.type \in Agreed => {c, p.to} \in B)
                   => SentBy(c, Append(s, p), B)
         /\ \A s \in Seq(Notice) : SentTo(c, s, A) =>
              /\ SentTo(c, s, B)
              /\ s # <<>> => SentTo(c, Tail(s), B)
              /\ \A p \in Notice : (p.type \in Agreed => {c, p.from} \in B)
                   => SentTo(c, Append(s, p), B)
         /\ SentBy(c, <<>>, B) /\ SentTo(c, <<>>, B)
<1>1. ASSUME NEW s \in Seq(Packet), SentBy(c, s, A)
      PROVE  /\ SentBy(c, s, B)
             /\ s # <<>> => SentBy(c, Tail(s), B)
             /\ \A p \in Packet : (p.type \in Agreed => {c, p.to} \in B)
                  => SentBy(c, Append(s, p), B)
  <2>1. \A i \in 1 .. Len(s) : s[i].type \in Agreed => {c, s[i].to} \in B
    BY <1>1 DEF SentBy
  <2>2. ASSUME s # <<>> PROVE SentBy(c, Tail(s), B)
    <3>1. Len(Tail(s)) = Len(s) - 1 /\ Len(s) \in Nat
      BY <1>1, <2>2
    <3>2. \A i \in 1 .. Len(Tail(s)) : i + 1 \in 1 .. Len(s) /\ Tail(s)[i] = s[i + 1]
      BY <1>1, <2>2, <3>1
    <3> QED
      BY <2>1, <3>2 DEF SentBy
  <2>3. ASSUME NEW p \in Packet, p.type \in Agreed => {c, p.to} \in B
        PROVE  SentBy(c, Append(s, p), B)
    <3>1. \A i \in 1 .. Len(Append(s, p)) :
            IF i = Len(s) + 1 THEN Append(s, p)[i] = p
            ELSE i \in 1 .. Len(s) /\ Append(s, p)[i] = s[i]
      BY <1>1
    <3> QED
      BY <2>1, <2>3, <3>1 DEF SentBy
  <2>4. SentBy(c, s, B)
    BY <2>1 DEF SentBy
  <2> QED
    BY <2>2, <2>3, <2>4
<1>2. ASSUME NEW s \in Seq(Notice), SentTo(c, s, A)
      PROVE  /\ SentTo(c, s, B)
             /\ s # <<>> => SentTo(c, Tail(s), B)
             /\ \A p \in Notice : (p.type \in Agreed => {c, p.from} \in B)
                  => SentTo(c, Append(s, p), B)
  <2>1. \A i \in 1 .. Len(s) : s[i].type \in Agreed => {c, s[i].from} \in B
    BY <1>2 DEF SentTo
  <2>2. ASSUME s # <<>> PROVE SentTo(c, Tail(s), B)
    <3>1. Len(Tail(s)) = Len(s) - 1 /\ Len(s) \in Nat
      BY <1>2, <2>2
    <3>2. \A i \in 1 .. Len(Tail(s)) : i + 1 \in 1 .. Len(s) /\ Tail(s)[i] = s[i + 1]
      BY <1>2, <2>2, <3>1
    <3> QED
      BY <2>1, <3>2 DEF SentTo
  <2>3. ASSUME NEW p \in Notice, p.type \in Agreed => {c, p.from} \in B
        PROVE  SentTo(c, Append(s, p), B)
    <3>1. \A i \in 1 .. Len(Append(s, p)) :
            IF i = Len(s) + 1 THEN Append(s, p)[i] = p
            ELSE i \in 1 .. Len(s) /\ Append(s, p)[i] = s[i]
      BY <1>2
    <3> QED
      BY <2>1, <2>3, <3>1 DEF SentTo
  <2>4. SentTo(c, s, B)
    BY <2>1 DEF SentTo
  <2> QED
    BY <2>2, <2>3, <2>4
<1>3. SentBy(c, <<>>, B) /\ SentTo(c, <<>>, B)
  BY DEF SentBy, SentTo
<1> QED
  BY <1>1, <1>2, <1>3

\* What a client sends to its peer, or as its consent, is covered by consent.
LEMMA SentAgreed ==
  ASSUME TypeOK, ConsentKept, NEW c \in Users, NEW d \in Users \cup {NoUser},
         NEW type \in Media, agreed \subseteq agreed',
         d # NoUser /\ type \in Agreed => {c, d} \in agreed',
         inbox' = Sent(c, d, type) \/ UNCHANGED inbox
  PROVE  \A e \in Users : SentBy(e, inbox'[e], agreed')
<1>1. \A e \in Users : inbox[e] \in Seq(Packet) /\ SentBy(e, inbox[e], agreed)
  BY ClientTypes DEF ConsentKept
<1>2. \A e \in Users : SentBy(e, inbox[e], agreed')
  BY <1>1, ConsentOfQueues
<1>3. ASSUME d # NoUser
      PROVE  SentBy(c, Append(inbox[c], [to |-> d, type |-> type]), agreed')
  <2>1. [to |-> d, type |-> type] \in Packet
    BY <1>3 DEF Packet
  <2> QED
    BY <1>1, <1>3, <2>1, ConsentOfQueues
<1>4. inbox \in [Users -> Seq(Packet)]
  BY DEF TypeOK, Packet
<1> QED
  BY <1>2, <1>3, <1>4 DEF Sent

\* What clients have sent stays covered by consent.
LEMMA InboxStep ==
  ASSUME TypeOK, CallShown, ConsentKept, NEW c \in Users, Step(c)
  PROVE  \A e \in Users : SentBy(e, inbox'[e], agreed')
<1> DEFINE Goal == \A e \in Users : SentBy(e, inbox'[e], agreed')
<1>1. agreed \subseteq agreed'
  BY ConductorSteps DEF Agrees
<1>2. \A e \in Users : inbox[e] \in Seq(Packet) /\ SentBy(e, inbox[e], agreed')
  BY <1>1, ClientTypes, ConsentOfQueues DEF ConsentKept
<1>3. /\ me[c].peer \in Users \cup {NoUser}
      /\ me[c].peer # NoUser => {c, me[c].peer} \in agreed
  BY ClientTypes DEF Conductor, ConsentKept
<1>4. CASE UNCHANGED inbox
  BY <1>2, <1>4
<1>5. ASSUME NEW d \in Users, ConnectToPeer(c, d) PROVE Goal
  <2>1. "request" \in Media /\ "request" \notin Agreed
    BY DEF Media, Agreed, Descriptions
  <2>2. inbox' = Sent(c, d, "request")
    BY <1>5 DEF ConnectToPeer
  <2> QED
    BY <1>1, <2>1, <2>2, SentAgreed
<1>6. ASSUME DisconnectFromCurrentPeer(c) \/ CloseWindow(c) PROVE Goal
  <2>1. "bye" \in Media /\ "bye" \notin Agreed
    BY DEF Media, Agreed, Descriptions
  <2>2. inbox' = Sent(c, me[c].peer, "bye") \/ UNCHANGED inbox
    BY <1>6 DEF DisconnectFromCurrentPeer, CloseWindow
  <2> QED
    BY <1>1, <1>3, <2>1, <2>2, SentAgreed
<1>7. ASSUME SendMessageToPeer(c) PROVE Goal
  <2>1. Head(posted[c]) \in Media
    BY <1>7 DEF SendMessageToPeer, Media
  <2>2. inbox' = Sent(c, me[c].peer, Head(posted[c]))
    BY <1>7 DEF SendMessageToPeer
  <2> QED
    BY <1>1, <1>3, <2>1, <2>2, SentAgreed
<1>8. ASSUME ReceiveRequest(c) PROVE Goal
  <2> DEFINE reply == IF IsBusy(c) THEN "refuse" ELSE "accept"
  <2>1. Sender(c) \in Users /\ reply \in Media
    BY <1>8, ArrivedTypes DEF ReceiveRequest, Media
  <2>2. reply \in Agreed => {c, Sender(c)} \in agreed'
    BY <1>8 DEF ReceiveRequest, Agreed, Descriptions
  <2>3. inbox' = Sent(c, Sender(c), reply)
    BY <1>8 DEF ReceiveRequest
  <2> HIDE DEF reply
  <2> QED
    BY <1>1, <2>1, <2>2, <2>3, SentAgreed
<1>9. ASSUME Relay(c) PROVE Goal
  <2>1. /\ inbox \in [Users -> Seq(Packet)]
        /\ inbox' = [inbox EXCEPT ![c] = Tail(@)] /\ inbox[c] # <<>>
    BY <1>9 DEF Relay, TypeOK, Packet
  <2>2. SentBy(c, Tail(inbox[c]), agreed')
    BY <1>2, <2>1, ConsentOfQueues
  <2> QED
    BY <1>2, <2>1, <2>2
<1>10. ASSUME Remove(c) PROVE Goal
  <2>1. inbox \in [Users -> Seq(Packet)] /\ inbox' = [inbox EXCEPT ![c] = <<>>]
    BY <1>10 DEF Remove, TypeOK, Packet
  <2>2. SentBy(c, <<>>, agreed')
    BY ConsentOfQueues
  <2> QED
    BY <1>2, <2>1, <2>2
<1> QED
  BY <1>4, <1>5, <1>6, <1>7, <1>8, <1>9, <1>10
  DEF Step, User, Posted, Server, Receive, PeerConnectionClosed, DescriptionReady,
      ReceiveAccept, ReceiveRefusal, ReceiveHangUp, ReceiveFirstDescription,
      ReceiveDescription, OnClose, HandleErrorCode

\* What the server has queued for clients stays covered by consent.
LEMMA OutStep ==
  ASSUME TypeOK, CallShown, ConsentKept, NEW c \in Users, Step(c)
  PROVE  \A e \in Users : SentTo(e, out'[e], agreed')
<1> DEFINE Goal == \A e \in Users : SentTo(e, out'[e], agreed')
<1>1. agreed \subseteq agreed'
  BY ConductorSteps DEF Agrees
<1>2. \A e \in Users : out[e] \in Seq(Notice) /\ SentTo(e, out[e], agreed')
  BY <1>1, ClientTypes, ConsentOfQueues DEF ConsentKept
<1>3. out \in [Users -> Seq(Notice)]
  BY DEF TypeOK, Notice
<1>4. CASE UNCHANGED out
  BY <1>2, <1>4
<1>5. ASSUME out[c] # <<>>, Taken(c) PROVE Goal
  <2>1. SentTo(c, Tail(out[c]), agreed')
    BY <1>2, <1>5, ConsentOfQueues
  <2> QED
    BY <1>2, <1>3, <1>5, <2>1 DEF Taken
<1>6. ASSUME Close(c) PROVE Goal
  <2>1. SentTo(c, <<>>, agreed')
    BY ConsentOfQueues
  <2> QED
    BY <1>2, <1>3, <1>6, <2>1 DEF Close
<1>7. ASSUME Relay(c) PROVE Goal
  <2> DEFINE m == Head(inbox[c])
             n == [from |-> c, type |-> m.type]
  <2>1. inbox[c] \in Seq(Packet) /\ inbox[c] # <<>> /\ SentBy(c, inbox[c], agreed)
    BY <1>7, ClientTypes DEF Relay, ConsentKept
  <2>2. 1 \in 1 .. Len(inbox[c]) /\ m = inbox[c][1] /\ m \in Packet
    BY <2>1
  <2>3. m.type \in Agreed => {c, m.to} \in agreed
    BY <2>1, <2>2 DEF SentBy
  <2>4. m.to \in Users /\ n \in Notice
    BY <2>2 DEF Packet, Notice
  <2>5. n.type \in Agreed => {m.to, n.from} \in agreed'
    <3>1. {c, m.to} = {m.to, c}
      OBVIOUS
    <3> QED
      BY <1>1, <2>3, <3>1
  <2>6. SentTo(m.to, Append(out[m.to], n), agreed')
    <3>1. \A q \in Seq(Notice) : SentTo(m.to, q, agreed') =>
            \A p \in Notice : (p.type \in Agreed => {m.to, p.from} \in agreed')
              => SentTo(m.to, Append(q, p), agreed')
      <4> HIDE DEF m, n
      <4> QED
        BY <2>4, ConsentOfQueues
    <3>2. out[m.to] \in Seq(Notice) /\ SentTo(m.to, out[m.to], agreed')
      BY <1>2, <2>4
    <3> HIDE DEF m, n
    <3> QED
      BY <2>4, <2>5, <3>1, <3>2
  <2>7. UNCHANGED out \/ out' = [out EXCEPT ![m.to] = Append(@, n)]
    BY <1>7 DEF Relay, Queued
  <2> QED
    BY <1>2, <1>3, <2>4, <2>6, <2>7
<1>8. ASSUME Remove(c) PROVE Goal
  <2> SUFFICES ASSUME NEW e \in Users PROVE SentTo(e, out'[e], agreed')
    OBVIOUS
  <2> DEFINE n == [from |-> c, type |-> "offline"]
  <2>1. n \in Notice /\ n.type \notin Agreed
    BY DEF Notice, Agreed, Descriptions
  <2>2. SentTo(e, Append(out[e], n), agreed')
    BY <1>2, <2>1, ConsentOfQueues
  <2>3. out'[e] = out[e] \/ out'[e] = Append(out[e], n)
    BY <1>8 DEF Remove
  <2> QED
    BY <1>2, <2>2, <2>3
<1> QED
  BY <1>4, <1>5, <1>6, <1>7, <1>8
  DEF Step, User, Posted, Server, Receive, Arrived, ConnectToPeer,
      DisconnectFromCurrentPeer, CloseWindow, PeerConnectionClosed,
      SendMessageToPeer, HandlePosted, DescriptionReady, ReceiveRequest,
      ReceiveAccept, ReceiveRefusal, ReceiveHangUp, ReceiveFirstDescription,
      ReceiveDescription, OnClose, HandleErrorCode

\* Calls, and everything under way that may begin one, stay covered by consent.
LEMMA ConsentStep ==
  TypeOK /\ CallShown /\ ConsentKept /\ [Next]_vars => ConsentKept'
<1> SUFFICES ASSUME TypeOK, CallShown, ConsentKept, [Next]_vars PROVE ConsentKept'
  OBVIOUS
<1>1. CASE AllGone \/ UNCHANGED vars
  BY <1>1 DEF AllGone, vars, ConsentKept
<1>2. ASSUME NEW c \in Users, Step(c) PROVE ConsentKept'
  <2>1. ASSUME NEW d \in Users, me'[d].peer # NoUser
        PROVE  {d, me'[d].peer} \in agreed'
    <3>1. CASE UNCHANGED me /\ (UNCHANGED agreed \/ Agrees(c))
      BY <2>1, <3>1 DEF ConsentKept, Agrees
    <3>2. CASE UNCHANGED agreed /\ (Ends(c) \/ Begins(c) \/ GoesOn(c) \/ Forgets(c))
      BY <2>1, <3>2, ConductorChanges DEF ConsentKept
    <3> QED
      BY <1>2, <3>1, <3>2, ConductorSteps
  <2> QED
    BY <1>2, <2>1, InboxStep, OutStep DEF ConsentKept
<1> QED
  BY <1>1, <1>2 DEF Next, Step

\* The invariant holds at the start and is kept by every step.
LEMMA InitInductive == Init => Inductive
<1>1. ASSUME Init PROVE CallShown
  <2>1. \A c \in Users :
          /\ me[c].peer = NoUser /\ ~InCall(c)
          /\ me[c].ui = "list" /\ me[c].ui # "streaming"
    BY <1>1 DEF Init, InCall
  <2> QED
    BY <2>1 DEF CallShown
<1>2. ASSUME Init, NEW c \in Users
      PROVE  /\ me[c].peer = NoUser
             /\ SentBy(c, inbox[c], agreed) /\ SentTo(c, out[c], agreed)
  <2>1. me[c].peer = NoUser /\ inbox[c] = <<>> /\ out[c] = <<>>
    BY <1>2 DEF Init
  <2>2. SentBy(c, <<>>, agreed) /\ SentTo(c, <<>>, agreed)
    BY ConsentOfQueues
  <2> QED
    BY <2>1, <2>2
<1>3. Init => ConsentKept
  BY <1>2 DEF ConsentKept
<1> QED
  BY <1>1, <1>3, InitTypeOK DEF Inductive

LEMMA InductiveStep == Inductive /\ [Next]_vars => Inductive'
<1> QED
  BY NextTypeOK, CallShownStep, ConsentStep DEF Inductive

\* A user without a PeerConnection has no peer, and one with a PeerConnection
\* sees the call and can hang up, whatever arrives, fails or is lost.
THEOREM CallIsShown == Spec => []CallShown
<1>1. Inductive => CallShown
  BY DEF Inductive
<1> QED
  BY <1>1, InitInductive, InductiveStep, PTL DEF Spec

-----------------------------------------------------------------------------
(* Conductors keep what Calls promises *)

\* Each step of a client is a step of Calls, or one that Calls does not see.
LEMMA CallsStep == Inductive /\ [Next]_vars => [Consent!Next]_Consent!callsVars
<1> SUFFICES ASSUME Inductive, [Next]_vars
             PROVE  [Consent!Next]_Consent!callsVars
  OBVIOUS
<1> USE DEF Consent!callsVars
<1> DEFINE Partner == [d \in Users |-> me[d].peer]
           Busy == {d \in Users : InCall(d)}
<1>0. TypeOK /\ CallShown /\ ConsentKept
  BY DEF Inductive
<1>1. CASE UNCHANGED me /\ UNCHANGED agreed
  BY <1>1 DEF InCall
<1>2. ASSUME NEW c \in Users, UNCHANGED me, Agrees(c) PROVE Consent!Next
  BY <1>2 DEF Agrees, Consent!Next, Consent!Agree, InCall
<1>3. ASSUME NEW c \in Users, UNCHANGED agreed, Ends(c)
      PROVE  [Consent!End(c)]_Consent!callsVars
  <2>1. Busy' = Busy \ {c} /\ Partner' = [Partner EXCEPT ![c] = NoUser]
    <3>1. \A e \in Users : me'[e].peer = IF e = c THEN NoUser ELSE me[e].peer
      BY <1>0, <1>3, ConductorChanges
    <3>2. \A e \in Users : InCall(e)' <=> e # c /\ InCall(e)
      BY <1>0, <1>3, ConductorChanges DEF InCall
    <3> QED
      BY <3>1, <3>2
  <2>2. CASE InCall(c)
    BY <1>3, <2>1, <2>2 DEF Consent!End
  <2>3. CASE ~InCall(c)
    <3>1. me[c].peer = NoUser
      BY <1>0, <2>3 DEF CallShown
    <3> QED
      BY <1>3, <2>1, <2>3, <3>1
  <2> QED
    BY <2>2, <2>3
<1>4. ASSUME NEW c \in Users, UNCHANGED agreed, Begins(c)
      PROVE  \E d \in Users : Consent!Begin(c, d)
  <2> DEFINE d == me'[c].peer
  <2>1. d \in Users /\ {c, d} \in agreed /\ ~InCall(c)
    BY <1>0, <1>4, ConductorChanges DEF Begins
  <2>2. Busy' = Busy \cup {c} /\ Partner' = [Partner EXCEPT ![c] = d]
    <3>1. \A e \in Users : me'[e].peer = IF e = c THEN d ELSE me[e].peer
      BY <1>0, <1>4, ConductorChanges
    <3>2. \A e \in Users : InCall(e)' <=> e = c \/ InCall(e)
      BY <1>0, <1>4, ConductorChanges DEF InCall
    <3> QED
      BY <3>1, <3>2
  <2> QED
    BY <1>4, <2>1, <2>2 DEF Consent!Begin
<1>5. ASSUME NEW c \in Users, UNCHANGED agreed, GoesOn(c)
      PROVE  UNCHANGED Consent!callsVars
  <2>1. Busy' = Busy /\ Partner' = Partner
    <3>1. \A e \in Users : me'[e].peer = me[e].peer
      BY <1>0, <1>5, ConductorChanges
    <3>2. \A e \in Users : InCall(e)' <=> InCall(e)
      BY <1>0, <1>5, ConductorChanges DEF InCall, GoesOn
    <3> QED
      BY <3>1, <3>2
  <2> QED
    BY <1>5, <2>1
<1>6. ASSUME NEW c \in Users, UNCHANGED agreed, Forgets(c)
      PROVE  [Consent!Forget(c)]_Consent!callsVars
  <2>1. Busy' = Busy /\ Partner' = [Partner EXCEPT ![c] = NoUser]
    <3>1. \A e \in Users : me'[e].peer = IF e = c THEN NoUser ELSE me[e].peer
      BY <1>0, <1>6, ConductorChanges
    <3>2. \A e \in Users : InCall(e)' <=> InCall(e)
      BY <1>0, <1>6, ConductorChanges DEF InCall
    <3> QED
      BY <3>1, <3>2
  <2>2. CASE InCall(c)
    BY <1>6, <2>1, <2>2 DEF Consent!Forget
  <2>3. CASE ~InCall(c)
    <3>1. me[c].peer = NoUser
      BY <1>0, <2>3 DEF CallShown
    <3> QED
      BY <1>6, <2>1, <2>3, <3>1
  <2> QED
    BY <2>2, <2>3
<1>7. CASE AllGone \/ UNCHANGED vars
  BY <1>1, <1>7 DEF AllGone, vars
<1> QED
  BY <1>0, <1>1, <1>2, <1>3, <1>4, <1>5, <1>6, <1>7, ConductorSteps
  DEF Next, Step, Consent!Next

\* Nobody is put into a call that neither side has agreed to, and no call
\* turns into one with somebody else (CallsKept), for any users.
THEOREM NoCallWithoutConsent == Spec => CallsKept
<1>1. Init => Consent!Init
  BY DEF Init, Consent!Init, InCall
<1> QED
  BY <1>1, InitInductive, InductiveStep, CallsStep, PTL
  DEF Spec, CallsKept, Consent!Spec

=============================================================================
