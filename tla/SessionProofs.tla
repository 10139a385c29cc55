---------------------------- MODULE SessionProofs ----------------------------
(* Theorems about Session, for any other clients and bounds. *)
EXTENDS Session, TLAPS

-----------------------------------------------------------------------------
(* Sequences of packets *)

\* What is appended is the last element, and the others keep their places.
LEMMA Appended ==
  ASSUME NEW q \in Seq(Packet), NEW p \in Packet
  PROVE  /\ Append(q, p) \in Seq(Packet)
         /\ Len(Append(q, p)) = Len(q) + 1 /\ Len(q) \in Nat
         /\ \A i \in 1 .. Len(q) : Append(q, p)[i] = q[i]
         /\ Append(q, p)[Len(q) + 1] = p
  OBVIOUS

\* What is behind the head moves up by one place.
LEMMA Taken ==
  ASSUME NEW q \in Seq(Packet), q # <<>>
  PROVE  /\ Tail(q) \in Seq(Packet) /\ Head(q) \in Packet
         /\ Len(q) \in Nat \ {0} /\ Len(Tail(q)) = Len(q) - 1
         /\ \A i \in 1 .. Len(q) - 1 : Tail(q)[i] = q[i + 1]
         /\ Head(q) = q[1]
  OBVIOUS

\* A sequence without elements is the empty one.
LEMMA Empty == Len(<<>>) = 0 /\ \A q \in Seq(Packet) : Len(q) = 0 => q = <<>>
  OBVIOUS

\* Which kinds of packets wait, after one more and after one less.
LEMMA HasMoves ==
  ASSUME NEW q \in Seq(Packet), NEW type
  PROVE  /\ \A p \in Packet : Has(Append(q, p), type) <=> Has(q, type) \/ p.type = type
         /\ q # <<>> => /\ Has(Tail(q), type) => Has(q, type)
                        /\ Has(q, type) => Head(q).type = type \/ Has(Tail(q), type)
         /\ ~Has(<<>>, type)
<1>1. ASSUME NEW p \in Packet
      PROVE  Has(Append(q, p), type) <=> Has(q, type) \/ p.type = type
  <2> DEFINE r == Append(q, p)
  <2>1. /\ Len(r) = Len(q) + 1 /\ Len(q) \in Nat
        /\ \A i \in 1 .. Len(q) : r[i] = q[i]
        /\ r[Len(q) + 1] = p
    BY Appended
  <2> HIDE DEF r
  <2>2. \A i : i \in 1 .. Len(r) <=> i \in 1 .. Len(q) \/ i = Len(q) + 1
    BY <2>1
  <2> QED
    BY <2>1, <2>2 DEF Has
<1>2. ASSUME q # <<>>
      PROVE  /\ Has(Tail(q), type) => Has(q, type)
             /\ Has(q, type) => Head(q).type = type \/ Has(Tail(q), type)
  <2> DEFINE r == Tail(q)
  <2>1. /\ Len(q) \in Nat \ {0} /\ Len(r) = Len(q) - 1 /\ Head(q) = q[1]
        /\ \A i \in 1 .. Len(q) - 1 : r[i] = q[i + 1]
    BY <1>2, Taken
  <2> HIDE DEF r
  <2>2. ASSUME NEW i \in 1 .. Len(r) PROVE i + 1 \in 1 .. Len(q) /\ r[i] = q[i + 1]
    BY <2>1
  <2>3. ASSUME NEW i \in 1 .. Len(q), i # 1
        PROVE  i - 1 \in 1 .. Len(r) /\ q[i] = r[i - 1]
    BY <2>1, <2>3
  <2>4. Has(r, type) => Has(q, type)
    BY <2>2 DEF Has
  <2>5. Has(q, type) => Head(q).type = type \/ Has(r, type)
    BY <2>1, <2>3 DEF Has
  <2> QED
    BY <2>4, <2>5 DEF r
<1>3. ~Has(<<>>, type)
  BY DEF Has
<1> QED
  BY <1>1, <1>2, <1>3

\* The last packet stays the last until it is taken.
LEMMA LastMoves ==
  ASSUME NEW q \in Seq(Packet)
  PROVE  /\ \A p \in Packet : /\ Append(q, p) # <<>>
                              /\ Append(q, p)[Len(Append(q, p))] = p
         /\ q # <<>> => \/ Tail(q) = <<>> /\ Head(q) = q[Len(q)]
                        \/ Tail(q) # <<>> /\ Tail(q)[Len(Tail(q))] = q[Len(q)]
<1>1. ASSUME NEW p \in Packet
      PROVE  Append(q, p) # <<>> /\ Append(q, p)[Len(Append(q, p))] = p
  <2>1. Len(Append(q, p)) = Len(q) + 1 /\ Len(q) \in Nat
    BY Appended
  <2>2. Append(q, p) # <<>>
    BY <2>1
  <2> QED
    BY <2>1, <2>2, Appended
<1>2. ASSUME q # <<>>
      PROVE  \/ Tail(q) = <<>> /\ Head(q) = q[Len(q)]
             \/ Tail(q) # <<>> /\ Tail(q)[Len(Tail(q))] = q[Len(q)]
  <2> DEFINE r == Tail(q)
  <2>1. /\ Len(q) \in Nat \ {0} /\ Len(r) = Len(q) - 1 /\ Head(q) = q[1]
        /\ \A i \in 1 .. Len(q) - 1 : r[i] = q[i + 1]
        /\ r \in Seq(Packet)
    BY <1>2, Taken
  <2> HIDE DEF r
  <2>2. CASE Len(q) = 1
    <3>1. Len(r) = 0
      BY <2>1, <2>2
    <3> QED
      BY <2>1, <2>2, <3>1, Empty DEF r
  <2>3. CASE Len(q) # 1
    <3>1. Len(r) # 0
      BY <2>1, <2>3
    <3>2. r # <<>>
      BY <3>1, Empty
    <3>3. Len(q) - 1 \in 1 .. Len(q) - 1 /\ (Len(q) - 1) + 1 = Len(q)
      BY <2>1, <2>3
    <3> QED
      BY <2>1, <3>2, <3>3 DEF r
  <2> QED
    BY <2>2, <2>3
<1> QED
  BY <1>1, <1>2

\* What the packets that wait say of somebody, after one more.
LEMMA SaysAppended ==
  ASSUME NEW q \in Seq(Packet), NEW p \in Packet, NEW d
  PROVE  /\ Silent(q, d) /\ ~About(p, d) => Silent(Append(q, p), d)
         /\ \A here, i : LastSays(q, i, d, here) /\ ~About(p, d)
                           => LastSays(Append(q, p), i, d, here)
         /\ \A here : p = UserInfo(d, here)
                        => LastSays(Append(q, p), Len(q) + 1, d, here)
<1> DEFINE r == Append(q, p)
<1>1. /\ Len(r) = Len(q) + 1 /\ Len(q) \in Nat
      /\ \A i \in 1 .. Len(q) : r[i] = q[i]
      /\ r[Len(q) + 1] = p
  BY Appended
<1> HIDE DEF r
<1>2. \A i : i \in 1 .. Len(r) <=> i \in 1 .. Len(q) \/ i = Len(q) + 1
  BY <1>1
<1>3. Silent(q, d) /\ ~About(p, d) => Silent(r, d)
  BY <1>1, <1>2 DEF Silent
<1>4. ASSUME NEW here, NEW i, LastSays(q, i, d, here), ~About(p, d)
      PROVE  LastSays(r, i, d, here)
  BY <1>1, <1>2, <1>4 DEF LastSays
<1>5. ASSUME NEW here, p = UserInfo(d, here)
      PROVE  LastSays(r, Len(q) + 1, d, here)
  <2>1. \A j \in 1 .. Len(r) : ~(j > Len(q) + 1)
    BY <1>1
  <2> QED
    BY <1>1, <1>2, <1>5, <2>1 DEF LastSays
<1> QED
  BY <1>3, <1>4, <1>5 DEF r

\* The same after one less: the head was the last word, or it still waits.
LEMMA SaysTaken ==
  ASSUME NEW q \in Seq(Packet), q # <<>>, NEW d
  PROVE  /\ Silent(q, d) => Silent(Tail(q), d) /\ ~About(Head(q), d)
         /\ \A here, i : LastSays(q, i, d, here)
              => \/ i = 1 /\ Head(q) = UserInfo(d, here) /\ Silent(Tail(q), d)
                 \/ i > 1 /\ i - 1 \in 1 .. Len(Tail(q))
                          /\ LastSays(Tail(q), i - 1, d, here)
<1> DEFINE r == Tail(q)
<1>1. /\ Len(q) \in Nat \ {0} /\ Len(r) = Len(q) - 1 /\ Head(q) = q[1]
      /\ \A i \in 1 .. Len(q) - 1 : r[i] = q[i + 1]
  BY Taken
<1> HIDE DEF r
<1>2. ASSUME NEW i \in 1 .. Len(r)
      PROVE  i + 1 \in 1 .. Len(q) /\ r[i] = q[i + 1] /\ i + 1 > 1
  BY <1>1
<1>3. Silent(q, d) => Silent(r, d) /\ ~About(Head(q), d)
  BY <1>1, <1>2 DEF Silent
<1>4. ASSUME NEW here, NEW i, LastSays(q, i, d, here), i = 1
      PROVE  Head(q) = UserInfo(d, here) /\ Silent(r, d)
  BY <1>1, <1>2, <1>4 DEF LastSays, Silent
<1>5. ASSUME NEW here, NEW i, LastSays(q, i, d, here), i # 1
      PROVE  i > 1 /\ i - 1 \in 1 .. Len(r) /\ LastSays(r, i - 1, d, here)
  <2>1. i \in 1 .. Len(q)
    BY <1>5 DEF LastSays
  <2>2. i > 1 /\ i - 1 \in 1 .. Len(r) /\ (i - 1) + 1 = i
    BY <1>1, <1>5, <2>1
  <2>3. r[i - 1] = UserInfo(d, here)
    BY <1>2, <1>5, <2>2 DEF LastSays
  <2>4. ASSUME NEW j \in 1 .. Len(r), j > i - 1 PROVE ~About(r[j], d)
    <3>1. j + 1 > i
      BY <2>1, <2>4, <1>1
    <3> QED
      BY <1>2, <1>5, <3>1 DEF LastSays
  <2> QED
    BY <2>2, <2>3, <2>4 DEF LastSays
<1> QED
  BY <1>3, <1>4, <1>5 DEF r

-----------------------------------------------------------------------------
(* Types *)

\* A packet is of one of the kinds; a UserInfo is about another client.
LEMMA PacketKinds ==
  /\ \A t \in PlainTypes : Plain(t) \in Packet
  /\ \A d \in Others, b \in BOOLEAN : UserInfo(d, b) \in Packet
  /\ \A p \in Packet :
       \/ p.type \in PlainTypes
       \/ p.type = "UserInfo" /\ p.id \in Others /\ p.here \in BOOLEAN
            /\ p = UserInfo(p.id, p.here)
  /\ \A t : Plain(t).type = t
  /\ \A d, b : UserInfo(d, b).type = "UserInfo" /\ UserInfo(d, b).id = d
                /\ UserInfo(d, b).here = b
<1>1. /\ \A t : Plain(t).type = t
      /\ \A d, b : UserInfo(d, b).type = "UserInfo" /\ UserInfo(d, b).id = d
                    /\ UserInfo(d, b).here = b
  BY DEF Plain, UserInfo
<1>2. /\ \A t \in PlainTypes : Plain(t) \in Packet
      /\ \A d \in Others, b \in BOOLEAN : UserInfo(d, b) \in Packet
  BY DEF Packet
<1>3. ASSUME NEW p \in Packet
      PROVE  \/ p.type \in PlainTypes
             \/ p.type = "UserInfo" /\ p.id \in Others /\ p.here \in BOOLEAN
                  /\ p = UserInfo(p.id, p.here)
  <2>1. \/ \E t \in PlainTypes : p = Plain(t)
        \/ \E d \in Others, b \in BOOLEAN : p = UserInfo(d, b)
    BY <1>3 DEF Packet
  <2> QED
    BY <1>1, <2>1
<1> QED
  BY <1>1, <1>2, <1>3

\* The handle of a new connection is one.
LEMMA NewHandleType == NewHandle \in Handle
  BY DEF NewHandle, Handle

\* The program starts with well-formed state.
LEMMA InitTypeOK == Init => TypeOK
<1> SUFFICES ASSUME Init PROVE TypeOK
  OBVIOUS
<1>1. logins \in 0 .. MaxLogins
  BY BoundsAssumption DEF Init
<1>2. incoming \in Seq(Packet)
  BY DEF Init
<1>3. others \in [Others -> {"away", "listed", "online", "leaving", "gone",
                           "revived", "back"}]
  BY DEF Init
<1>4. server \in Handle
  BY NewHandleType DEF Init
<1>5. /\ state \in {"NOT_CONNECTED"} /\ socket \in {"closed"} /\ page \in {"connect"}
      /\ proto \in 1 .. 3 /\ sent \in {"nothing"}
      /\ peers = {} /\ shown = {} /\ earlier = {}
  BY DEF Init
<1>6. /\ connected \in BOOLEAN /\ button \in BOOLEAN /\ closing \in BOOLEAN
      /\ early \in BOOLEAN /\ failed \in BOOLEAN
  BY Zenon DEF Init
<1> QED
  BY <1>1, <1>2, <1>3, <1>4, <1>5, <1>6 DEF TypeOK

\* Every step of the client keeps the state well formed.
LEMMA ClientTypes ==
  ASSUME TypeOK,
         DoLogin \/ OnResolveResult \/ OnConnect \/ OnClose \/ HandlePacket
           \/ EndCall \/ PeerConnectionClosed \/ CloseWindow
  PROVE  TypeOK'
<1> USE DEF TypeOK
<1>1. Close => /\ state' \in {"NOT_CONNECTED"} /\ socket' \in {"closed"}
               /\ connected' \in BOOLEAN /\ proto' \in 1 .. 3
               /\ incoming' \in Seq(Packet) /\ sent' = "nothing"
               /\ server' \in Handle
               /\ earlier' \subseteq Others /\ early' \in BOOLEAN
               /\ peers' \subseteq Others
  <2>1. <<>> \in Seq(Packet)
    OBVIOUS
  <2>2. Close => incoming' \in Seq(Packet) /\ server' \in Handle
    BY <2>1, NewHandleType DEF Close
  <2>3. Close => peers' = peers /\ earlier' = peers
    BY DEF Close
  <2>4. Close => connected' \in BOOLEAN /\ early' \in BOOLEAN
    BY Zenon DEF Close
  <2>5. Close => /\ state' \in {"NOT_CONNECTED"} /\ socket' \in {"closed"}
                 /\ proto' \in 1 .. 3 /\ sent' = "nothing"
    BY DEF Close
  <2> QED
    BY <2>2, <2>3, <2>4, <2>5
<1>2. SignOut /\ UNCHANGED <<others, logins>> => TypeOK'
  BY <1>1 DEF SignOut, SwitchToConnectUI
<1>3. CASE DoLogin
  <2>1. logins' \in 0 .. MaxLogins
    BY <1>3, BoundsAssumption DEF DoLogin
  <2>2. state' \in {state, "RESOLVING", "SIGNING_IN"} /\ socket' \in {socket, "connecting"}
        /\ failed' \in BOOLEAN
    BY <1>3 DEF DoLogin
  <2> QED
    BY <1>3, <2>1, <2>2 DEF DoLogin, wireVars
<1>4. CASE OnResolveResult
  BY <1>4 DEF OnResolveResult, wireVars, windowVars
<1>5. CASE OnConnect
  BY <1>5 DEF OnConnect, history, windowVars
<1>6. CASE OnClose
  BY <1>1, <1>6 DEF OnClose, Fail, windowVars
<1>7. CASE HandlePacket
  <2> USE DEF AtPacket, Take
  <2>1. ASSUME incoming # <<>>
        PROVE  Tail(incoming) \in Seq(Packet) /\ Head(incoming) \in Packet
    BY <2>1, Taken
  <2> HIDE DEF Packet
  <2>2. CASE HandlePacketStatusRequest
    BY <2>1, <2>2 DEF HandlePacketStatusRequest, windowVars, history
  <2>3. CASE HandlePacketLoginDisconnect
    BY <1>2, <2>1, <2>3
    DEF HandlePacketLoginDisconnect, sessionVars, windowVars, history
  <2>4. CASE HandlePacketLoginSuccess
    BY <2>1, <2>4 DEF HandlePacketLoginSuccess, SwitchToPeerList
  <2>5. CASE HandlePacketKeepAlive
    BY <2>1, <2>5 DEF HandlePacketKeepAlive, sessionVars, windowVars, history
  <2>6. CASE HandlePacketUserInfo
    <3> DEFINE p == Head(incoming)
    <3>1. p.type = "UserInfo" => p.id \in Others
      BY <2>1, <2>6, PacketKinds DEF HandlePacketUserInfo, PlainTypes, Code0
    <3>2. peers' \subseteq Others /\ earlier' \subseteq Others /\ closing' \in BOOLEAN
      BY <2>6, <3>1 DEF HandlePacketUserInfo
    <3> QED
      BY <2>1, <2>6, <3>2 DEF HandlePacketUserInfo, sessionVars
  <2>7. CASE HandlePacketMedia
    <3>1. CASE SignOut
      BY <1>2, <2>7, <3>1 DEF HandlePacketMedia
    <3>2. CASE ~SignOut
      <4>1. /\ page' \in {page, "streaming"}
            /\ incoming' = Tail(incoming) /\ incoming # <<>>
            /\ UNCHANGED <<sessionVars, peers, button, shown, sent, server, history>>
            /\ UNCHANGED <<others, logins>>
        BY <2>7, <3>2, Zenon DEF HandlePacketMedia
      <4>2. closing' \in BOOLEAN
        BY <2>7, <3>2 DEF HandlePacketMedia
      <4> QED
        BY <2>1, <4>1, <4>2 DEF sessionVars, history
    <3> QED
      BY <3>1, <3>2
  <2>8. CASE HandlePacketErrorCode
    <3>1. SignOut /\ UNCHANGED <<others, logins>>
      BY <2>8, Zenon DEF HandlePacketErrorCode
    <3> HIDE DEF TypeOK
    <3> QED
      BY <1>2, <3>1
  <2>9. CASE HandleUnknown
    BY <2>1, <2>9 DEF HandleUnknown, sessionVars, windowVars, history
  <2> QED
    BY <1>7, <2>2, <2>3, <2>4, <2>5, <2>6, <2>7, <2>8, <2>9 DEF HandlePacket
<1>8. CASE EndCall
  BY <1>8 DEF EndCall, SwitchToPeerList, sessionVars, wireVars, history
<1>9. CASE PeerConnectionClosed
  BY <1>9 DEF PeerConnectionClosed, SwitchToPeerList, SwitchToConnectUI, sessionVars,
              wireVars, history
<1>10. CASE CloseWindow
  BY <1>1, <1>10 DEF CloseWindow, wireVars
<1> QED
  BY <1>3, <1>4, <1>5, <1>6, <1>7, <1>8, <1>9, <1>10

\* A step of the server or of another client leaves the client's session and
\* window alone; it sends one packet, or none, and writes one field or two.
LEMMA ServerSteps ==
  ASSUME TypeOK, Server \/ \E d \in Others : Other(d)
  PROVE  /\ ServerKeeps
         /\ server' \in Handle
         /\ sent' \in {sent, "nothing"}
         /\ UNCHANGED incoming \/ \E p \in Packet : incoming' = Append(incoming, p)
         /\ UNCHANGED others \/ \E d \in Others :
              \E to \in {"listed", "online", "leaving", "gone", "revived", "back"} :
                others' = [others EXCEPT ![d] = to]
<1> DEFINE Goal(in, s, h, o) ==
             /\ h \in Handle /\ s \in {sent, "nothing"}
             /\ in = incoming \/ \E p \in Packet : in = Append(incoming, p)
             /\ o = others \/ \E d \in Others :
                  \E to \in {"listed", "online", "leaving", "gone", "revived", "back"} :
                    o = [others EXCEPT ![d] = to]
<1>1. server \in Handle /\ server.todo \subseteq Others
  BY DEF TypeOK, Handle
<1>2. ASSUME NEW p \in Packet, NEW q, q = Sent(p)
      PROVE  q = incoming \/ \E r \in Packet : q = Append(incoming, r)
  BY <1>2 DEF Sent
<1>3. CASE Server
  <2>1. CASE ListClient
    <3>1. server' \in Handle
      BY <1>1, <2>1 DEF ListClient, Handle
    <3> QED
      BY <2>1, <3>1 DEF ListClient
  <2>2. CASE CreateLink
    <3>1. server' \in Handle
      BY <1>1, <2>2 DEF CreateLink, Handle
    <3> QED
      BY <2>2, <3>1 DEF CreateLink
  <2>3. CASE AnswerStatus
    <3>1. server' \in Handle
      BY <1>1, <2>3 DEF AnswerStatus, Handle
    <3> QED
      BY <1>2, <2>3, <3>1, PacketKinds DEF AnswerStatus, PlainTypes, Code0
  <2>4. CASE TakeLogin
    <3>1. server' \in Handle
      BY <1>1, <2>4 DEF TakeLogin, Handle
    <3> QED
      BY <2>4, <3>1 DEF TakeLogin
  <2>5. CASE Authenticate
    <3>1. PICK S \in SUBSET Others :
             server' = [server EXCEPT !.proto = 3, !.todo = S]
      BY <2>5 DEF Authenticate
    <3>2. server' \in Handle
      <4>1. /\ server.listed \in BOOLEAN /\ server.linked \in BOOLEAN
            /\ server.asked \in BOOLEAN
            /\ server.dc \in {"no", "silent", "login", "work"}
        BY <1>1 DEF Handle
      <4>2. server' = [listed |-> server.listed, linked |-> server.linked,
                       proto |-> 3, asked |-> server.asked,
                       dc |-> server.dc, todo |-> S]
        BY <1>1, <3>1 DEF Handle
      <4>3. 3 \in 1 .. 3
        OBVIOUS
      <4> QED
        BY <4>1, <4>2, <4>3 DEF Handle
    <3> QED
      BY <1>2, <2>5, <3>2, PacketKinds DEF Authenticate, PlainTypes
  <2>6. ASSUME NEW d \in Others, Tell(d)
        PROVE  ServerKeeps /\ Goal(incoming', sent', server', others')
    <3>1. server' \in Handle
      BY <1>1, <2>6 DEF Tell, Handle
    <3>2. Present(d) \in BOOLEAN
      BY DEF Present
    <3>3. UserInfo(d, Present(d)) \in Packet
      BY <3>2, PacketKinds
    <3> QED
      BY <1>2, <2>6, <3>1, <3>3 DEF Tell
  <2>7. CASE SendDisconnect
    <3>1. server' \in Handle
      BY <1>1, <2>7 DEF SendDisconnect, Handle
    <3> QED
      BY <2>7, <3>1, PacketKinds DEF SendDisconnect, PlainTypes, Code0
  <2>8. CASE Forward
    <3>1. PICK t \in PlainTypes : incoming' = Append(incoming, Plain(t))
      BY <2>8 DEF Forward, PlainTypes, Code0
    <3> QED
      BY <1>1, <2>8, <3>1, PacketKinds DEF Forward
  <2> QED
    BY <1>3, <2>1, <2>2, <2>3, <2>4, <2>5, <2>6, <2>7, <2>8 DEF Server
<1>4. ASSUME NEW d \in Others, Other(d)
      PROVE  ServerKeeps /\ Goal(incoming', sent', server', others')
  <2>1. ASSUME NEW b \in BOOLEAN, Broadcast(UserInfo(d, b))
        PROVE  incoming' = incoming \/ \E r \in Packet : incoming' = Append(incoming, r)
    BY <1>2, <2>1, PacketKinds DEF Broadcast
  <2>2. ASSUME NEW from, NEW to \in {"listed", "online", "leaving", "gone", "revived", "back"},
               Move(d, from, to)
        PROVE  /\ ServerKeeps /\ server' = server /\ sent' = sent
               /\ others' = [others EXCEPT ![d] = to]
    BY <2>2 DEF Move
  <2>3. CASE OtherConnects(d) \/ OtherIsDestroyed(d) \/ OtherIsRevived(d)
    BY <1>1, <2>2, <2>3 DEF OtherConnects, OtherIsDestroyed, OtherIsRevived
  <2>4. CASE OtherSignsIn(d) \/ OtherIsGone(d)
    BY <1>1, <2>1, <2>2, <2>4 DEF OtherSignsIn, OtherIsGone
  <2> QED
    BY <1>4, <2>3, <2>4 DEF Other
<1> QED
  BY <1>3, <1>4

\* What a tick drops was queued for a client that has not heard anything.
LEMMA FlushStep ==
  ASSUME FlushUnlinked
  PROVE  /\ ServerKeeps /\ UNCHANGED <<sent, server, others>>
         /\ ~server.linked /\ incoming' = <<>>
  BY DEF FlushUnlinked

\* Every step keeps the state well formed.
LEMMA NextTypeOK == TypeOK /\ [Next]_vars => TypeOK'
<1> SUFFICES ASSUME TypeOK, [Next]_vars PROVE TypeOK'
  OBVIOUS
<1>1. CASE UNCHANGED vars
  BY <1>1 DEF TypeOK, vars, sessionVars, windowVars, wireVars, history
<1>2. CASE Server \/ \E d \in Others : Other(d)
  <2>1. /\ ServerKeeps /\ server' \in Handle /\ sent' \in {sent, "nothing"}
        /\ incoming' \in Seq(Packet)
    BY <1>2, ServerSteps, Appended DEF TypeOK
  <2>2. others' \in [Others -> {"away", "listed", "online", "leaving", "gone",
                              "revived", "back"}]
    BY <1>2, ServerSteps DEF TypeOK
  <2> QED
    BY <2>1, <2>2 DEF TypeOK, ServerKeeps, sessionVars, windowVars, history
<1>3. CASE FlushUnlinked
  <2>1. <<>> \in Seq(Packet)
    OBVIOUS
  <2>2. /\ ServerKeeps /\ UNCHANGED <<sent, server, others>>
        /\ incoming' \in Seq(Packet)
    BY <1>3, <2>1, FlushStep
  <2> QED
    BY <2>2 DEF TypeOK, ServerKeeps, sessionVars, windowVars, history
<1> QED
  BY <1>1, <1>2, <1>3, ClientTypes DEF Next

-----------------------------------------------------------------------------
(* The client and its window *)

Shape == SocketAgrees /\ LoginAgain /\ Window

\* Every step of the client keeps what its variables and its window say in
\* agreement.
LEMMA ClientShape ==
  ASSUME TypeOK, Shape,
         DoLogin \/ OnResolveResult \/ OnConnect \/ OnClose \/ HandlePacket
           \/ EndCall \/ PeerConnectionClosed \/ CloseWindow
  PROVE  Shape'
<1> USE DEF TypeOK, Shape, SocketAgrees, LoginAgain, CanLogin, Window, Open
<1>1. SignOut => Shape'
  BY DEF SignOut, Close, SwitchToConnectUI
<1>2. CASE DoLogin
  BY <1>2 DEF DoLogin, wireVars
<1>3. CASE OnResolveResult
  BY <1>3 DEF OnResolveResult, wireVars, windowVars
<1>4. CASE OnConnect
  BY <1>4 DEF OnConnect, windowVars, history
<1>5. CASE OnClose
  BY <1>5 DEF OnClose, Fail, Close, windowVars
<1>6. CASE HandlePacket
  <2>1. Open /\ incoming # <<>> /\ socket = "connected"
    BY <1>6 DEF HandlePacket, AtPacket, HandlePacketStatusRequest,
       HandlePacketLoginDisconnect, HandlePacketLoginSuccess, HandlePacketKeepAlive,
       HandlePacketUserInfo, HandlePacketMedia, HandlePacketErrorCode, HandleUnknown
  <2> USE DEF AtPacket, Take
  <2>2. CASE HandlePacketStatusRequest
    BY <2>1, <2>2 DEF HandlePacketStatusRequest, windowVars, history
  <2>3. CASE HandlePacketLoginDisconnect
    BY <1>1, <2>1, <2>3
    DEF HandlePacketLoginDisconnect, sessionVars, windowVars, history
  <2>4. CASE HandlePacketLoginSuccess
    BY <2>1, <2>4 DEF HandlePacketLoginSuccess, SwitchToPeerList
  <2>5. CASE HandlePacketKeepAlive
    BY <2>1, <2>5 DEF HandlePacketKeepAlive, sessionVars, windowVars, history
  <2>6. CASE HandlePacketUserInfo
    BY <2>1, <2>6 DEF HandlePacketUserInfo, sessionVars
  <2>7. CASE HandlePacketMedia
    <3>1. CASE SignOut
      BY <1>1, <2>7, <3>1 DEF HandlePacketMedia
    <3>2. CASE ~SignOut
      <4>1. /\ proto = 3 /\ page' \in {page, "streaming"}
            /\ closing' = closing \/ closing' = TRUE
            /\ incoming' = Tail(incoming)
            /\ UNCHANGED <<sessionVars, peers, button, shown, sent, server, history>>
        BY <2>7, <3>2, Zenon DEF HandlePacketMedia
      <4> QED
        BY <2>1, <4>1 DEF sessionVars, history
    <3> QED
      BY <3>1, <3>2
  <2>8. CASE HandlePacketErrorCode
    BY <1>1, <2>8 DEF HandlePacketErrorCode
  <2>9. CASE HandleUnknown
    BY <2>1, <2>9 DEF HandleUnknown, sessionVars, windowVars, history
  <2> QED
    BY <1>6, <2>2, <2>3, <2>4, <2>5, <2>6, <2>7, <2>8, <2>9 DEF HandlePacket
<1>7. CASE EndCall
  BY <1>7 DEF EndCall, SwitchToPeerList, sessionVars, wireVars, history
<1>8. CASE PeerConnectionClosed
  BY <1>8 DEF PeerConnectionClosed, SwitchToPeerList, SwitchToConnectUI, sessionVars,
              wireVars, history
<1>9. CASE CloseWindow
  BY <1>9 DEF CloseWindow, Close, wireVars
<1> QED
  BY <1>2, <1>3, <1>4, <1>5, <1>6, <1>7, <1>8, <1>9

\* Nobody sends to a connection that is not in m_Clients.
LEMMA SentWhenListed ==
  ASSUME TypeOK, Phases, Server \/ \E d \in Others : Other(d), ~server.listed
  PROVE  incoming' = incoming
<1>1. server.proto = 1 /\ server.todo = {} /\ ~server.listed /\ ~server.linked
  BY DEF Phases, Unlocked, TypeOK, Handle
<1>2. CASE Server
  BY <1>1, <1>2 DEF Server, ListClient, CreateLink, AnswerStatus, TakeLogin,
                    Authenticate, Tell, SendDisconnect, Forward
<1>3. CASE \E d \in Others : Other(d)
  BY <1>1, <1>3 DEF Other, OtherConnects, OtherSignsIn, OtherIsDestroyed, OtherIsGone,
                    OtherIsRevived, Broadcast
<1> QED
  BY <1>2, <1>3

\* Every step keeps the agreement.
LEMMA NextShape == TypeOK /\ Shape /\ Phases /\ [Next]_vars => Shape'
<1> SUFFICES ASSUME TypeOK, Shape, Phases, [Next]_vars PROVE Shape'
  OBVIOUS
<1>1. CASE UNCHANGED vars
  BY <1>1 DEF Shape, SocketAgrees, LoginAgain, CanLogin, Window, Open, vars,
              sessionVars, windowVars, wireVars, history
<1>2. CASE Server \/ \E d \in Others : Other(d)
  <2>1. ServerKeeps
    BY <1>2, ServerSteps
  <2>2. socket # "connected" => incoming' = incoming
    <3>1. ASSUME socket # "connected" PROVE ~server.listed
      BY <3>1 DEF Shape, SocketAgrees, Phases, NewHandle, TypeOK
    <3> QED
      BY <1>2, <3>1, SentWhenListed
  <2> QED
    BY <2>1, <2>2 DEF Shape, SocketAgrees, LoginAgain, CanLogin, Window, Open,
                      ServerKeeps, sessionVars, windowVars, history, TypeOK
<1>3. CASE FlushUnlinked
  BY <1>3, FlushStep DEF Shape, SocketAgrees, LoginAgain, CanLogin, Window, Open,
                         ServerKeeps, sessionVars, windowVars, history, TypeOK
<1> QED
  BY <1>1, <1>2, <1>3, ClientShape DEF Next

-----------------------------------------------------------------------------
(* The client, its handle and what is between them *)

\* A connection that is closed leaves nothing behind but the peers.
LEMMA Closed ==
  ASSUME TypeOK, Close
  PROVE  Phases' /\ Answers' /\ Roster'
<1>1. /\ connected' = FALSE /\ proto' = 1 /\ incoming' = <<>> /\ sent' = "nothing"
      /\ server' = NewHandle /\ peers' = peers /\ earlier' = peers
      /\ early' = FALSE
  BY DEF Close
<1>2. \A t : ~Has(<<>>, t)
  BY DEF Has
<1>3. /\ NewHandle.listed = FALSE /\ NewHandle.linked = FALSE
      /\ NewHandle.proto = 1 /\ NewHandle.asked = FALSE
      /\ NewHandle.dc = "no" /\ NewHandle.todo = {}
  BY DEF NewHandle
<1>4. Phases'
  BY <1>1, <1>2, <1>3 DEF Phases, Unlocked
<1>5. Answers'
  BY <1>1, <1>3 DEF Answers
<1>6. \A d : Silent(<<>>, d)
  BY DEF Silent
<1>7. Roster'
  BY <1>1, <1>3, <1>6 DEF Roster, Forgotten
<1> QED
  BY <1>4, <1>5, <1>7

\* Pages and names are not on the wire.
Wire == <<connected, proto, peers, incoming, sent, server, others, earlier, early>>

LEMMA WireKept ==
  ASSUME UNCHANGED Wire
  PROVE  (Phases => Phases') /\ (Answers => Answers') /\ (Roster => Roster')
<1> USE DEF Wire
<1>1. Phases => Phases'
  BY DEF Phases, Unlocked
<1>2. Answers => Answers'
  BY DEF Answers
<1>3. Roster => Roster'
  BY DEF Roster, Known, Forgotten
<1> QED
  BY <1>1, <1>2, <1>3

\* The client's steps: it closes the connection, it does nothing on it, it has
\* connected, or it takes a packet.
LEMMA ClientSteps ==
  ASSUME TypeOK, Shape, Phases,
         DoLogin \/ OnResolveResult \/ OnConnect \/ OnClose \/ HandlePacket
           \/ EndCall \/ PeerConnectionClosed \/ CloseWindow
  PROVE  Close \/ UNCHANGED Wire \/ OnConnect \/ HandlePacket
<1> USE DEF Wire
<1>1. DoLogin => UNCHANGED Wire
  BY DEF DoLogin, wireVars
<1>2. OnResolveResult => UNCHANGED Wire
  BY DEF OnResolveResult, wireVars
<1>3. OnClose => Close
  BY DEF OnClose, Fail
<1>4. EndCall => UNCHANGED Wire
  BY DEF EndCall, sessionVars, wireVars, history
<1>5. PeerConnectionClosed => UNCHANGED Wire
  BY DEF PeerConnectionClosed, sessionVars, wireVars, history
<1>6. CloseWindow => Close \/ UNCHANGED Wire
  BY DEF CloseWindow, wireVars
<1> QED
  BY <1>1, <1>2, <1>3, <1>4, <1>5, <1>6

\* What taking a packet does, apart from the window: the connection is closed,
\* or the packet is gone and one of a few things is done.
TakePacket(p) ==
  /\ incoming # <<>> /\ p = Head(incoming) /\ incoming' = Tail(incoming)
  /\ UNCHANGED <<connected, server, others>>
  /\ \/ /\ proto = 1 /\ p.type = "StatusResponse"
        /\ proto' = 2 /\ sent' = "LoginInfo"
        /\ UNCHANGED <<peers, earlier, early>>
     \/ /\ proto = 2 /\ p.type \in Code1
        /\ proto' = 3 /\ early' = (p.type = "UserInfo")
        /\ UNCHANGED <<peers, earlier, sent>>
     \/ /\ proto = 3 /\ p.type = "UserInfo"
        /\ peers' = IF p.here THEN peers \cup {p.id} ELSE peers \ {p.id}
        /\ earlier' = earlier \ {p.id}
        /\ UNCHANGED <<proto, sent, early>>
     \/ /\ proto = 1 => p.type # "StatusResponse"
        /\ proto = 2 => p.type \notin Code1 \cup {"LoginDisconnect"}
        /\ proto = 3 => p.type \notin {"UserInfo", "ErrorCode"}
        /\ UNCHANGED <<peers, earlier, proto, sent, early>>

LEMMA HandlePacketSteps ==
  ASSUME TypeOK, HandlePacket
  PROVE  Close \/ TakePacket(Head(incoming))
<1>0. SignOut => Close
  BY DEF SignOut
<1> USE DEF AtPacket, Take, TakePacket, Code0, Code1
<1>1. CASE HandlePacketStatusRequest
  BY <1>1 DEF HandlePacketStatusRequest, history
<1>2. CASE HandlePacketLoginDisconnect
  BY <1>0, <1>2 DEF HandlePacketLoginDisconnect, history, sessionVars
<1>3. CASE HandlePacketLoginSuccess
  BY <1>3 DEF HandlePacketLoginSuccess
<1>4. CASE HandlePacketKeepAlive
  BY <1>4 DEF HandlePacketKeepAlive, history, sessionVars
<1>5. CASE HandlePacketUserInfo
  BY <1>5 DEF HandlePacketUserInfo, sessionVars
<1>6. CASE HandlePacketMedia
  BY <1>0, <1>6 DEF HandlePacketMedia, history, sessionVars
<1>7. CASE HandlePacketErrorCode
  BY <1>0, <1>7 DEF HandlePacketErrorCode
<1>8. CASE HandleUnknown
  BY <1>8 DEF HandleUnknown, history, sessionVars
<1> QED
  BY <1>1, <1>2, <1>3, <1>4, <1>5, <1>6, <1>7, <1>8 DEF HandlePacket

\* Connecting is the first thing on a connection.
LEMMA ConnectStep ==
  ASSUME TypeOK, Shape, Phases, Answers, Roster, OnConnect
  PROVE  Phases' /\ Answers' /\ Roster'
<1>1. /\ ~connected /\ proto = 1 /\ incoming = <<>> /\ server = NewHandle
      /\ connected' = TRUE /\ sent' = "StatusRequest"
      /\ UNCHANGED <<proto, peers, incoming, server, others, earlier, early>>
  BY DEF OnConnect, Shape, SocketAgrees, Phases, history, TypeOK
<1>2. \A t : ~Has(<<>>, t)
  BY DEF Has
<1>3. /\ NewHandle.listed = FALSE /\ NewHandle.linked = FALSE
      /\ NewHandle.proto = 1 /\ NewHandle.asked = FALSE
      /\ NewHandle.dc = "no" /\ NewHandle.todo = {}
  BY DEF NewHandle
<1>4. Phases'
  BY <1>1, <1>2, <1>3 DEF Phases, Unlocked
<1>5. Answers'
  BY <1>1, <1>3 DEF Answers
<1>6. Roster'
  BY <1>1, <1>3 DEF Roster, Known, Forgotten
<1> QED
  BY <1>4, <1>5, <1>6

LEMMA TakePhases ==
  ASSUME TypeOK, Phases, TakePacket(Head(incoming))
  PROVE  Phases'
<1> DEFINE p == Head(incoming)
<1>1. incoming # <<>> /\ incoming' = Tail(incoming) /\ incoming \in Seq(Packet)
      /\ UNCHANGED <<connected, server>>
  BY DEF TakePacket, TypeOK
<1>2. \A t : Has(incoming', t) => Has(incoming, t)
  BY <1>1, HasMoves
<1>3. Has(incoming, p.type)
  <2>1. Len(incoming) \in Nat \ {0} /\ p = incoming[1]
    BY <1>1, Taken
  <2>2. 1 \in 1 .. Len(incoming)
    BY <2>1
  <2> QED
    BY <2>1, <2>2 DEF Has
<1>4. server.listed
  BY <1>1 DEF Phases
<1>5. connected
  BY <1>4 DEF Phases, NewHandle
<1>6. CASE UNCHANGED <<proto, sent, early>>
  BY <1>1, <1>2, <1>4, <1>6 DEF Phases, Unlocked
<1>7. CASE proto = 1 /\ p.type = "StatusResponse" /\ proto' = 2 /\ sent' = "LoginInfo"
           /\ UNCHANGED early
  <2>1. server.proto # 1
    BY <1>3, <1>7 DEF Phases
  <2> QED
    BY <1>1, <1>2, <1>4, <1>5, <1>7, <2>1 DEF Phases, Unlocked
<1>8. CASE proto = 2 /\ p.type \in Code1 /\ proto' = 3
           /\ early' = (p.type = "UserInfo") /\ UNCHANGED sent
  <2>1. ~early' => Has(incoming, "LoginSuccess")
    BY <1>3, <1>8 DEF Code1
  <2> QED
    BY <1>1, <1>2, <1>4, <1>5, <1>8, <2>1 DEF Phases, Unlocked
<1> QED
  BY <1>6, <1>7, <1>8 DEF TakePacket

LEMMA TakeAnswers ==
  ASSUME TypeOK, Phases, Answers, TakePacket(Head(incoming))
  PROVE  Answers'
<1> DEFINE p == Head(incoming)
           last(q) == q[Len(q)].type
<1>1. incoming # <<>> /\ incoming' = Tail(incoming) /\ incoming \in Seq(Packet)
      /\ UNCHANGED <<connected, server>>
  BY DEF TakePacket, TypeOK
<1>2. \A t : Has(incoming, t) => p.type = t \/ Has(incoming', t)
  BY <1>1, HasMoves
<1>3. \/ incoming' = <<>> /\ p.type = last(incoming)
      \/ incoming' # <<>> /\ last(incoming') = last(incoming)
  BY <1>1, LastMoves
<1>4. \A t : ~Has(<<>>, t)
  BY DEF Has
<1>5. proto \in 1 .. 3 /\ server.proto \in 1 .. 3
      /\ server.dc \in {"no", "silent", "login", "work"}
  BY DEF TypeOK, Handle
<1>6. server.proto = 3 => proto # 1
  BY DEF Phases
<1>7. Has(incoming, "LoginSuccess") => server.proto = 3 /\ server.dc \in {"no", "work"}
  BY DEF Phases
<1>8. Has(incoming, p.type)
  <2>1. Len(incoming) \in Nat \ {0} /\ p = incoming[1]
    BY <1>1, Taken
  <2>2. 1 \in 1 .. Len(incoming)
    BY <2>1
  <2> QED
    BY <2>1, <2>2 DEF Has
<1>9. ASSUME server.proto # 1, server.dc # "silent", proto' = 1
      PROVE  Has(incoming', "StatusResponse")
  <2>1. proto = 1 /\ p.type # "StatusResponse"
    BY <1>5, <1>9 DEF TakePacket
  <2> QED
    BY <1>2, <1>9, <2>1 DEF Answers
<1>10. ASSUME server.proto = 3, server.dc \in {"no", "work"}, proto' # 3
       PROVE  Has(incoming', "LoginSuccess")
  <2>1. proto = 2 /\ p.type # "LoginSuccess"
    BY <1>5, <1>6, <1>10 DEF TakePacket, Code1
  <2> QED
    BY <1>2, <1>10, <2>1 DEF Answers
<1>11. ASSUME server.dc = "login", ~early'
       PROVE  /\ incoming' # <<>> /\ last(incoming') = "LoginDisconnect" /\ proto' # 3
  <2>1. p.type # "LoginSuccess"
    BY <1>7, <1>8, <1>11
  <2>2. ~early /\ proto' # 3
    <3>1. CASE UNCHANGED early /\ proto' \in {proto, 2}
      BY <1>11, <3>1 DEF Answers
    <3>2. CASE early' = (p.type = "UserInfo") /\ p.type \in Code1
      BY <1>11, <2>1, <3>2 DEF Code1
    <3> QED
      BY <3>1, <3>2 DEF TakePacket
  <2>3. last(incoming) = "LoginDisconnect" /\ proto # 3
    BY <1>11, <2>2 DEF Answers
  <2>4. ASSUME incoming' = <<>> PROVE FALSE
    <3>1. p.type = "LoginDisconnect"
      BY <1>3, <2>3, <2>4
    <3>2. proto = 1
      BY <1>5, <2>3, <3>1 DEF TakePacket, Code1
    <3>3. Has(incoming, "StatusResponse")
      BY <1>11, <3>2 DEF Answers, Phases
    <3> QED
      BY <1>2, <1>4, <2>4, <3>1, <3>3
  <2> QED
    BY <1>3, <2>2, <2>3, <2>4
<1>12. ASSUME server.dc = "work"
       PROVE  incoming' # <<>> /\ last(incoming') = "ErrorCode"
  <2>1. last(incoming) = "ErrorCode" /\ server.proto = 3
    BY <1>12 DEF Answers, Phases
  <2>2. ASSUME incoming' = <<>> PROVE FALSE
    <3>1. p.type = "ErrorCode"
      BY <1>3, <2>1, <2>2
    <3>2. proto = 2
      BY <1>5, <1>6, <2>1, <3>1 DEF TakePacket
    <3>3. Has(incoming, "LoginSuccess")
      BY <1>12, <2>1, <3>2 DEF Answers
    <3> QED
      BY <1>2, <1>4, <2>2, <3>1, <3>3
  <2> QED
    BY <1>3, <2>1, <2>2
<1> QED
  BY <1>1, <1>9, <1>10, <1>11, <1>12 DEF Answers

\* Whoever is known, or will be, stays so when a packet is taken that is not
\* about him, and when the client reads the packet that is.
LEMMA KnownTaken ==
  ASSUME TypeOK, NEW d, TakePacket(Head(incoming)), proto \in {2, 3},
         Known(d)
  PROVE  Known(d)'
<1> DEFINE p == Head(incoming)
           r == Tail(incoming)
<1>1. incoming # <<>> /\ incoming' = r /\ incoming \in Seq(Packet)
  BY DEF TakePacket, TypeOK
<1>2. proto' = 3 \/ (proto' = proto /\ p.type # "LoginSuccess")
  BY DEF TakePacket, Code1
<1>3. CASE proto = 3 /\ d \in peers /\ Silent(incoming, d)
  <2>1. Silent(r, d) /\ ~About(p, d)
    BY <1>1, <1>3, SaysTaken
  <2>2. proto' = 3 /\ d \in peers'
    BY <1>3, <2>1 DEF TakePacket, About
  <2> QED
    BY <1>1, <2>1, <2>2 DEF Known
<1>4. ASSUME NEW i \in 1 .. Len(incoming), LastSays(incoming, i, d, TRUE),
             proto = 3 \/ \E k \in 1 .. (i - 1) : incoming[k].type = "LoginSuccess"
      PROVE  Known(d)'
  <2>1. CASE i = 1 /\ p = UserInfo(d, TRUE) /\ Silent(r, d)
    <3>1. proto = 3
      BY <1>4, <2>1
    <3>2. p.type = "UserInfo" /\ p.id = d /\ p.here
      BY <2>1 DEF UserInfo
    <3>3. proto' = 3 /\ d \in peers'
      BY <3>1, <3>2 DEF TakePacket
    <3> QED
      BY <1>1, <2>1, <3>3 DEF Known
  <2>2. CASE i > 1 /\ i - 1 \in 1 .. Len(r) /\ LastSays(r, i - 1, d, TRUE)
    <3>1. proto' = 3 \/ \E k \in 1 .. ((i - 1) - 1) : r[k].type = "LoginSuccess"
      <4>1. SUFFICES ASSUME proto' # 3
                     PROVE  \E k \in 1 .. ((i - 1) - 1) : r[k].type = "LoginSuccess"
        OBVIOUS
      <4>2. proto # 3 /\ p.type # "LoginSuccess"
        BY <1>2, <4>1
      <4>3. PICK k \in 1 .. (i - 1) : incoming[k].type = "LoginSuccess"
        BY <1>4, <4>2
      <4>4. /\ Len(incoming) \in Nat \ {0} /\ p = incoming[1]
            /\ \A j \in 1 .. Len(incoming) - 1 : r[j] = incoming[j + 1]
        BY <1>1, Taken
      <4> HIDE DEF p, r
      <4>5. k # 1
        BY <4>2, <4>3, <4>4
      <4>6. k - 1 \in 1 .. ((i - 1) - 1) /\ k - 1 \in 1 .. Len(incoming) - 1
            /\ (k - 1) + 1 = k
        BY <4>3, <4>4, <4>5
      <4> QED
        BY <4>3, <4>4, <4>6
    <3> QED
      BY <1>1, <2>2, <3>1 DEF Known
  <2> QED
    BY <1>1, <1>4, <2>1, <2>2, SaysTaken
<1> QED
  BY <1>3, <1>4 DEF Known

\* The same for who has gone.
LEMMA ForgottenTaken ==
  ASSUME TypeOK, Roster, NEW d, TakePacket(Head(incoming)), Forgotten(d)
  PROVE  Forgotten(d)'
<1> DEFINE p == Head(incoming)
           r == Tail(incoming)
<1>1. incoming # <<>> /\ incoming' = r /\ incoming \in Seq(Packet)
  BY DEF TakePacket, TypeOK
<1>2. CASE Silent(incoming, d) /\ (d \in peers => d \in earlier)
  <2>1. Silent(r, d) /\ ~About(p, d)
    BY <1>1, <1>2, SaysTaken
  <2>2. d \in peers' => d \in earlier'
    BY <1>2, <2>1 DEF TakePacket, About
  <2> QED
    BY <1>1, <2>1, <2>2 DEF Forgotten
<1>3. ASSUME NEW i \in 1 .. Len(incoming), LastSays(incoming, i, d, FALSE)
      PROVE  Forgotten(d)'
  <2>1. CASE i = 1 /\ p = UserInfo(d, FALSE) /\ Silent(r, d)
    <3>1. d \in peers' => d \in earlier'
      <4>1. CASE proto = 3
        <5>1. p.type = "UserInfo" /\ p.id = d /\ ~p.here
          BY <2>1 DEF UserInfo
        <5> QED
          BY <4>1, <5>1 DEF TakePacket
      <4>2. CASE proto # 3
        BY <4>2 DEF TakePacket, Roster
      <4> QED
        BY <4>1, <4>2
    <3> QED
      BY <1>1, <2>1, <3>1 DEF Forgotten
  <2>2. CASE i - 1 \in 1 .. Len(r) /\ LastSays(r, i - 1, d, FALSE)
    BY <1>1, <2>2 DEF Forgotten
  <2> QED
    BY <1>1, <1>3, <2>1, <2>2, SaysTaken
<1> QED
  BY <1>2, <1>3 DEF Forgotten

LEMMA TakeRoster ==
  ASSUME TypeOK, Phases, Roster, TakePacket(Head(incoming))
  PROVE  Roster'
<1>1. UNCHANGED <<server, others>> /\ proto \in 1 .. 3
  BY DEF TakePacket, TypeOK
<1>2. proto' # 3 => proto # 3 /\ peers' = peers /\ earlier' = earlier
  BY DEF TakePacket
<1>3. ASSUME NEW d \in Others, server.dc = "no", server.proto = 3,
             d \notin server.todo, others[d] \in {"online", "back"}
      PROVE  Known(d)'
  <2>1. proto # 1 /\ Known(d)
    BY <1>3 DEF Phases, Roster
  <2> QED
    BY <1>1, <2>1, KnownTaken
<1>4. ASSUME NEW d \in Others, server.dc = "no", others[d] = "gone"
      PROVE  Forgotten(d)'
  BY <1>4, ForgottenTaken DEF Roster
<1>5. proto' # 3 => peers' \subseteq earlier'
  BY <1>2 DEF Roster
<1> QED
  BY <1>1, <1>3, <1>4, <1>5 DEF Roster

-----------------------------------------------------------------------------
(* The server and the other clients *)

\* What a step of the server writes of the handle.
LEMMA HandleFields ==
  ASSUME server \in Handle
  PROVE  /\ ListClient =>
              /\ server'.listed = TRUE /\ server'.linked = server.linked
              /\ server'.proto = server.proto
              /\ server'.asked = server.asked /\ server'.dc = server.dc
              /\ server'.todo = server.todo
         /\ CreateLink =>
              /\ server'.listed = server.listed /\ server'.linked = TRUE
              /\ server'.proto = server.proto
              /\ server'.asked = server.asked /\ server'.dc = server.dc
              /\ server'.todo = server.todo
         /\ AnswerStatus =>
              /\ server'.listed = server.listed /\ server'.linked = server.linked
              /\ server'.proto = 2
              /\ server'.asked = server.asked /\ server'.dc = server.dc
              /\ server'.todo = server.todo
         /\ TakeLogin =>
              /\ server'.listed = server.listed /\ server'.linked = server.linked
              /\ server'.proto = server.proto
              /\ server'.asked = TRUE /\ server'.dc = server.dc
              /\ server'.todo = server.todo
         /\ Authenticate =>
              /\ server'.listed = server.listed /\ server'.linked = server.linked
              /\ server'.proto = 3
              /\ server'.asked = server.asked /\ server'.dc = server.dc
              /\ \A d \in Others : Present(d) => d \in server'.todo
         /\ \A e : Tell(e) =>
              /\ server'.listed = server.listed /\ server'.linked = server.linked
              /\ server'.proto = server.proto
              /\ server'.asked = server.asked /\ server'.dc = server.dc
              /\ server'.todo = server.todo \ {e}
         /\ SendDisconnect =>
              /\ server'.listed = server.listed /\ server'.linked = server.linked
              /\ server'.proto = server.proto
              /\ server'.asked = server.asked /\ server'.todo = server.todo
              /\ server'.dc = IF server.proto = 1 THEN "silent"
                              ELSE IF server.proto = 2 THEN "login" ELSE "work"
<1> USE DEF Handle
<1>1. ListClient => server' = [server EXCEPT !.listed = TRUE]
  BY DEF ListClient
<1>2. CreateLink => server' = [server EXCEPT !.linked = TRUE]
  BY DEF CreateLink
<1>3. AnswerStatus => server' = [server EXCEPT !.proto = 2]
  BY DEF AnswerStatus
<1>4. TakeLogin => server' = [server EXCEPT !.asked = TRUE]
  BY DEF TakeLogin
<1>5. Authenticate => \E S \in SUBSET Others :
          server' = [server EXCEPT !.proto = 3,
                                   !.todo = {d \in Others : Present(d)} \cup S]
  BY DEF Authenticate
<1>6. \A e : Tell(e) => server' = [server EXCEPT !.todo = server.todo \ {e}]
  BY DEF Tell
<1>7. SendDisconnect =>
        server' = [server EXCEPT !.dc = IF server.proto = 1 THEN "silent"
                                        ELSE IF server.proto = 2 THEN "login" ELSE "work"]
  BY DEF SendDisconnect
<1>8. ListClient =>
        /\ server'.listed = TRUE /\ server'.linked = server.linked
        /\ server'.proto = server.proto
        /\ server'.asked = server.asked /\ server'.dc = server.dc
        /\ server'.todo = server.todo
  BY <1>1
<1>9. CreateLink =>
        /\ server'.listed = server.listed /\ server'.linked = TRUE
        /\ server'.proto = server.proto
        /\ server'.asked = server.asked /\ server'.dc = server.dc
        /\ server'.todo = server.todo
  BY <1>2
<1>10. AnswerStatus =>
        /\ server'.listed = server.listed /\ server'.linked = server.linked
        /\ server'.proto = 2
        /\ server'.asked = server.asked /\ server'.dc = server.dc
        /\ server'.todo = server.todo
  BY <1>3
<1>11. TakeLogin =>
        /\ server'.listed = server.listed /\ server'.linked = server.linked
        /\ server'.proto = server.proto
        /\ server'.asked = TRUE /\ server'.dc = server.dc
        /\ server'.todo = server.todo
  BY <1>4
<1>12. Authenticate =>
         /\ server'.listed = server.listed /\ server'.linked = server.linked
         /\ server'.proto = 3
         /\ server'.asked = server.asked /\ server'.dc = server.dc
         /\ \A d \in Others : Present(d) => d \in server'.todo
  <2> SUFFICES ASSUME Authenticate
               PROVE  /\ server'.listed = server.listed /\ server'.linked = server.linked
                      /\ server'.proto = 3
                      /\ server'.asked = server.asked /\ server'.dc = server.dc
                      /\ \A d \in Others : Present(d) => d \in server'.todo
    OBVIOUS
  <2> DEFINE P == {d \in Others : Present(d)}
  <2>1. \A d \in Others : Present(d) => d \in P
    OBVIOUS
  <2>2. PICK S \in SUBSET Others :
          server' = [server EXCEPT !.proto = 3, !.todo = P \cup S]
    BY <1>5
  <2> HIDE DEF P
  <2>3. /\ server'.listed = server.listed /\ server'.linked = server.linked
        /\ server'.proto = 3
        /\ server'.asked = server.asked /\ server'.dc = server.dc
        /\ server'.todo = P \cup S
    BY <2>2
  <2> QED
    BY <2>1, <2>3
<1>13. ASSUME NEW e, Tell(e)
       PROVE  /\ server'.listed = server.listed /\ server'.linked = server.linked
              /\ server'.proto = server.proto
              /\ server'.asked = server.asked /\ server'.dc = server.dc
              /\ server'.todo = server.todo \ {e}
  BY <1>6, <1>13
<1>14. SendDisconnect =>
         /\ server'.listed = server.listed /\ server'.linked = server.linked
         /\ server'.proto = server.proto
         /\ server'.asked = server.asked /\ server'.todo = server.todo
         /\ server'.dc = IF server.proto = 1 THEN "silent"
                         ELSE IF server.proto = 2 THEN "login" ELSE "work"
  BY <1>7
<1> QED
  BY <1>8, <1>9, <1>10, <1>11, <1>12, <1>13, <1>14

\* A step of another client sends nothing but what it broadcasts.
LEMMA OtherSteps ==
  ASSUME TypeOK, NEW e \in Others, Other(e)
  PROVE  /\ ServerKeeps /\ UNCHANGED <<sent, server>>
         /\ \A d \in Others \ {e} : others'[d] = others[d]
         /\ \/ /\ incoming' = incoming /\ others'[e] \notin {"online", "back", "gone"}
            \/ /\ Unlocked /\ others'[e] \in {"online", "back"}
               /\ Broadcast(UserInfo(e, TRUE))
            \/ /\ Unlocked /\ others'[e] = "gone" /\ Broadcast(UserInfo(e, FALSE))
<1>1. others \in [Others -> {"away", "listed", "online", "leaving", "gone",
                           "revived", "back"}]
  BY DEF TypeOK
<1>2. ASSUME NEW from, NEW to, Move(e, from, to)
      PROVE  /\ ServerKeeps /\ UNCHANGED <<sent, server>>
             /\ \A d \in Others \ {e} : others'[d] = others[d]
             /\ others'[e] = to
  BY <1>1, <1>2 DEF Move
<1>3. CASE OtherConnects(e) \/ OtherIsDestroyed(e) \/ OtherIsRevived(e)
  <2>1. /\ incoming' = incoming
        /\ \E from : \E to \in {"listed", "leaving", "revived"} : Move(e, from, to)
    BY <1>3 DEF OtherConnects, OtherIsDestroyed, OtherIsRevived
  <2> QED
    BY <1>2, <2>1
<1>4. CASE OtherSignsIn(e) \/ OtherIsGone(e)
  BY <1>2, <1>4 DEF OtherSignsIn, OtherIsGone
<1> QED
  BY <1>3, <1>4 DEF Other

LEMMA ServerPhases ==
  ASSUME TypeOK, Shape, Phases, Server \/ \E d \in Others : Other(d)
  PROVE  Phases'
<1>1. /\ server \in Handle /\ incoming \in Seq(Packet)
      /\ UNCHANGED <<connected, proto, early>>
  BY ServerSteps DEF ServerKeeps, sessionVars, history, TypeOK
<1>2. /\ server.listed \in BOOLEAN /\ server.linked \in BOOLEAN
      /\ server.proto \in 1 .. 3 /\ server.asked \in BOOLEAN
      /\ server.dc \in {"no", "silent", "login", "work"}
  BY <1>1 DEF Handle
<1>3. \A t : \A p \in Packet : p.type # t =>
        /\ Has(Append(incoming, p), t) => Has(incoming, t)
        /\ Has(Sent(p), t) => Has(incoming, t)
  BY <1>1, HasMoves DEF Sent
<1>4. server.listed => connected
  BY DEF Phases, NewHandle
<1> USE DEF Phases, Unlocked
<1>5. CASE ListClient
  <2>1. connected /\ UNCHANGED <<incoming, sent>>
    BY <1>5 DEF ListClient, Shape, SocketAgrees
  <2> QED
    BY <1>1, <1>2, <1>5, <2>1, HandleFields
<1>6. CASE CreateLink
  <2>1. connected /\ server.listed /\ UNCHANGED <<incoming, sent>>
    BY <1>4, <1>6 DEF CreateLink
  <2> QED
    BY <1>1, <1>2, <1>6, <2>1, HandleFields
<1>7. CASE AnswerStatus
  <2>1. server.linked /\ sent = "StatusRequest" /\ sent' = "nothing"
        /\ incoming' = Sent(Plain("StatusResponse"))
    BY <1>7 DEF AnswerStatus
  <2>2. Plain("StatusResponse") \in Packet /\ Plain("StatusResponse").type # "LoginSuccess"
    BY PacketKinds DEF PlainTypes, Code0
  <2>3. Has(incoming', "LoginSuccess") => Has(incoming, "LoginSuccess")
    BY <1>3, <2>1, <2>2
  <2>4. /\ server.proto = 1 /\ server.dc \in {"no", "silent"} /\ server.todo = {}
        /\ ~server.asked /\ ~Has(incoming, "LoginSuccess") /\ ~(proto = 3 /\ ~early)
    BY <1>2, <2>1
  <2>5. /\ server'.listed = server.listed /\ server'.linked = server.linked
        /\ server'.proto = 2
        /\ server'.asked = server.asked /\ server'.dc = server.dc
        /\ server'.todo = server.todo
    BY <1>1, <1>7, HandleFields
  <2>6. /\ connected' /\ server'.linked /\ server'.listed /\ ~server'.asked
        /\ ~(proto' = 3 /\ ~early')
    BY <1>1, <1>2, <1>4, <2>1, <2>4, <2>5
  <2> QED
    BY <2>1, <2>3, <2>4, <2>5, <2>6
<1>8. CASE TakeLogin
  <2>1. sent = "LoginInfo" /\ sent' = "nothing" /\ incoming' = incoming
    BY <1>8 DEF TakeLogin
  <2> QED
    BY <1>1, <1>2, <1>8, <2>1, HandleFields
<1>9. CASE Authenticate
  <2>1. /\ server.asked /\ server.proto = 2 /\ sent' = sent
        /\ incoming' = Sent(Plain("LoginSuccess"))
    BY <1>9 DEF Authenticate
  <2>2. Has(incoming', "LoginSuccess") => server.dc = "no"
    <3>1. CASE server.dc # "no"
      BY <2>1, <3>1 DEF Sent
    <3> QED
      BY <3>1
  <2>3. ~(proto = 3 /\ ~early) /\ server.dc # "work"
    BY <2>1
  <2>4. /\ server'.listed = server.listed /\ server'.linked = server.linked
        /\ server'.proto = 3
        /\ server'.asked = server.asked /\ server'.dc = server.dc
    BY <1>1, <1>9, HandleFields
  <2>5. connected' /\ server'.linked /\ server'.listed /\ server'.asked /\ proto' # 1
        /\ ~(proto' = 3 /\ ~early')
    BY <1>1, <1>2, <1>4, <2>1, <2>3, <2>4
  <2> QED
    BY <2>1, <2>2, <2>3, <2>4, <2>5
<1>10. ASSUME NEW e \in Others, Tell(e) PROVE Phases'
  <2>1. server.todo # {} /\ sent' = sent /\ incoming' = Sent(UserInfo(e, Present(e)))
    BY <1>10 DEF Tell
  <2>2. \A t \in {"StatusResponse", "LoginSuccess"} : Has(incoming', t) => Has(incoming, t)
    <3>1. Present(e) \in BOOLEAN
      BY DEF Present
    <3> QED
      BY <1>1, <2>1, <3>1, HasMoves, PacketKinds DEF Sent
  <2> QED
    BY <1>1, <1>2, <1>4, <1>10, <2>1, <2>2, HandleFields
<1>11. CASE SendDisconnect
  <2>1. server.listed /\ server.dc = "no" /\ server.todo = {} /\ sent' = sent
    BY <1>11 DEF SendDisconnect
  <2>2. ASSUME NEW t \in {"StatusResponse", "LoginSuccess"}, Has(incoming', t)
        PROVE  Has(incoming, t)
    <3>1. incoming' = incoming \/ \E u \in {"LoginDisconnect", "ErrorCode"} :
                                   incoming' = Append(incoming, Plain(u))
      BY <1>11 DEF SendDisconnect
    <3>2. \A u \in {"LoginDisconnect", "ErrorCode"} :
            Plain(u) \in Packet /\ Plain(u).type # t
      BY PacketKinds DEF PlainTypes, Code0
    <3> QED
      BY <1>3, <2>2, <3>1, <3>2
  <2>3. ~connected' => FALSE
    BY <1>1, <1>4, <2>1
  <2>4. /\ server.proto # 3 => ~Has(incoming, "LoginSuccess") /\ ~(proto = 3 /\ ~early)
        /\ server'.dc = "login" => server.proto # 1
        /\ server'.dc = "work" <=> server.proto = 3
        /\ server.proto = 3 => server'.dc = "work"
    BY <1>1, <1>2, <1>11, HandleFields
  <2>5. /\ server'.listed = server.listed /\ server'.linked = server.linked
        /\ server'.proto = server.proto
        /\ server'.asked = server.asked /\ server'.todo = server.todo
    BY <1>1, <1>11, HandleFields
  <2> QED
    BY <1>1, <1>2, <2>1, <2>2, <2>3, <2>4, <2>5
<1>12. CASE Forward
  <2>1. server.listed /\ UNCHANGED <<server, sent>>
    BY <1>12 DEF Forward
  <2>2. \A t \in {"StatusResponse", "LoginSuccess"} : Has(incoming', t) => Has(incoming, t)
    BY <1>1, <1>12, HasMoves, PacketKinds DEF Forward, PlainTypes, Code0
  <2> QED
    BY <1>1, <1>2, <1>12, <2>1, <2>2
<1>13. ASSUME NEW e \in Others, Other(e) PROVE Phases'
  <2>1. UNCHANGED <<sent, server>>
    BY <1>13, OtherSteps
  <2>2. ASSUME NEW t \in {"StatusResponse", "LoginSuccess"}, Has(incoming', t)
        PROVE  Has(incoming, t)
    <3>1. incoming' = incoming \/ \E b \in BOOLEAN : incoming' = Sent(UserInfo(e, b))
      BY <1>13, OtherSteps DEF Broadcast
    <3>2. \A b \in BOOLEAN : UserInfo(e, b) \in Packet /\ UserInfo(e, b).type # t
      BY PacketKinds
    <3> QED
      BY <1>3, <2>2, <3>1, <3>2
  <2>3. ~server.listed => incoming' = <<>>
    BY <1>13, SentWhenListed
  <2> QED
    BY <1>1, <1>2, <2>1, <2>2, <2>3
<1> QED
  BY <1>5, <1>6, <1>7, <1>8, <1>9, <1>10, <1>11, <1>12, <1>13 DEF Server

\* A packet that waits is not lost by one that is sent.
LEMMA SentKeeps ==
  ASSUME TypeOK, NEW p \in Packet
  PROVE  /\ \A t : Has(incoming, t) => Has(Append(incoming, p), t)
         /\ Has(Append(incoming, p), p.type)
         /\ Append(incoming, p) # <<>>
         /\ Append(incoming, p)[Len(Append(incoming, p))].type = p.type
  BY HasMoves, LastMoves DEF TypeOK

\* Answers that are awaited are not lost when a packet is sent to a client that
\* has not been told to go.
LEMMA AnswersSent ==
  ASSUME TypeOK, Answers, UNCHANGED <<proto, early, server>>,
         NEW p \in Packet,
         server.dc = "no" /\ incoming' = Append(incoming, p)
  PROVE  Answers'
  BY SentKeeps DEF Answers

LEMMA ServerAnswers ==
  ASSUME TypeOK, Phases, Answers, Server \/ \E d \in Others : Other(d)
  PROVE  Answers'
<1>1. server \in Handle /\ UNCHANGED <<proto, early>>
  BY ServerSteps DEF ServerKeeps, sessionVars, history, TypeOK
<1>2. /\ proto \in 1 .. 3 /\ server.proto \in 1 .. 3
      /\ server.dc \in {"no", "silent", "login", "work"}
  BY <1>1 DEF Handle, TypeOK
<1>3. CASE UNCHANGED incoming /\ server'.proto = server.proto /\ server'.dc = server.dc
  BY <1>1, <1>3 DEF Answers
<1>4. CASE ListClient \/ CreateLink \/ TakeLogin
  <2>1. UNCHANGED incoming
    BY <1>4 DEF ListClient, CreateLink, TakeLogin
  <2> QED
    BY <1>1, <1>3, <1>4, <2>1, HandleFields
<1>5. CASE AnswerStatus
  <2>1. incoming' = Sent(Plain("StatusResponse")) /\ sent = "StatusRequest"
    BY <1>5 DEF AnswerStatus
  <2>2. server'.proto = 2 /\ server'.dc = server.dc
    BY <1>1, <1>5, HandleFields
  <2>3. server.dc \in {"no", "silent"}
    BY <1>2, <2>1 DEF Phases
  <2>4. server.dc = "no" => Has(incoming', "StatusResponse")
    <3>1. Plain("StatusResponse") \in Packet /\ Plain("StatusResponse").type = "StatusResponse"
      BY PacketKinds DEF PlainTypes, Code0
    <3> QED
      BY <2>1, <3>1, SentKeeps DEF Sent
  <2> QED
    BY <2>2, <2>3, <2>4 DEF Answers
<1>6. CASE Authenticate
  <2>1. incoming' = Sent(Plain("LoginSuccess")) /\ server.proto = 2
    BY <1>6 DEF Authenticate
  <2>2. server'.proto = 3 /\ server'.dc = server.dc
    BY <1>1, <1>6, HandleFields
  <2>3. server.dc # "work"
    BY <2>1 DEF Phases
  <2>4. Plain("LoginSuccess") \in Packet /\ Plain("LoginSuccess").type = "LoginSuccess"
    BY PacketKinds DEF PlainTypes
  <2>5. CASE server.dc = "no"
    <3>1. incoming' = Append(incoming, Plain("LoginSuccess"))
      BY <2>1, <2>5 DEF Sent
    <3> QED
      BY <1>1, <2>1, <2>2, <2>4, <2>5, <3>1, SentKeeps DEF Answers
  <2>6. CASE server.dc # "no"
    <3>1. incoming' = incoming
      BY <2>1, <2>6 DEF Sent
    <3> QED
      BY <1>1, <2>1, <2>2, <2>3, <2>6, <3>1 DEF Answers
  <2> QED
    BY <2>5, <2>6
<1>7. ASSUME NEW e \in Others, Tell(e) PROVE Answers'
  <2>1. Present(e) \in BOOLEAN
    BY DEF Present
  <2>2. UserInfo(e, Present(e)) \in Packet /\ incoming' = Sent(UserInfo(e, Present(e)))
    BY <1>7, <2>1, PacketKinds DEF Tell
  <2>3. server'.proto = server.proto /\ server'.dc = server.dc
    BY <1>1, <1>7, HandleFields
  <2>4. CASE server.dc = "no"
    <3>1. incoming' = Append(incoming, UserInfo(e, Present(e)))
      BY <2>2, <2>4 DEF Sent
    <3> QED
      BY <1>1, <2>2, <2>3, <2>4, <3>1, SentKeeps DEF Answers
  <2>5. CASE server.dc # "no"
    BY <1>3, <2>2, <2>3, <2>5 DEF Sent
  <2> QED
    BY <2>4, <2>5
<1>8. CASE SendDisconnect
  <2>1. /\ server.dc = "no" /\ server'.proto = server.proto
        /\ server'.dc = IF server.proto = 1 THEN "silent"
                        ELSE IF server.proto = 2 THEN "login" ELSE "work"
    BY <1>1, <1>8, HandleFields DEF SendDisconnect
  <2>2. \A t \in {"LoginDisconnect", "ErrorCode"} :
          Plain(t) \in Packet /\ Plain(t).type = t
    BY PacketKinds DEF PlainTypes, Code0
  <2>3. CASE server.proto = 1
    BY <2>1, <2>3 DEF Answers
  <2>4. CASE server.proto = 2
    <3>1. incoming' = Append(incoming, Plain("LoginDisconnect"))
      BY <1>8, <2>4 DEF SendDisconnect
    <3>2. ~(proto = 3 /\ ~early)
      BY <2>4 DEF Phases
    <3> QED
      BY <1>1, <2>1, <2>2, <2>4, <3>1, <3>2, SentKeeps DEF Answers
  <2>5. CASE server.proto = 3
    <3>1. incoming' = Append(incoming, Plain("ErrorCode"))
      BY <1>8, <2>5 DEF SendDisconnect
    <3> QED
      BY <1>1, <2>1, <2>2, <2>5, <3>1, SentKeeps DEF Answers
  <2> QED
    BY <1>2, <2>3, <2>4, <2>5
<1>9. CASE Forward
  <2>1. PICK t \in PlainTypes : incoming' = Append(incoming, Plain(t))
    BY <1>9 DEF Forward, PlainTypes, Code0
  <2>2. server.dc = "no" /\ server' = server
    BY <1>9 DEF Forward
  <2> QED
    BY <1>1, <2>1, <2>2, PacketKinds, AnswersSent
<1>10. ASSUME NEW e \in Others, Other(e) PROVE Answers'
  <2>1. server' = server
        /\ (incoming' = incoming \/ \E b \in BOOLEAN : incoming' = Sent(UserInfo(e, b)))
    BY <1>10, OtherSteps DEF Broadcast
  <2>2. CASE incoming' = incoming
    BY <1>3, <2>1, <2>2
  <2>3. CASE /\ server.dc = "no"
             /\ \E b \in BOOLEAN : incoming' = Append(incoming, UserInfo(e, b))
    BY <1>1, <2>1, <2>3, PacketKinds, AnswersSent
  <2> QED
    BY <2>1, <2>2, <2>3 DEF Sent
<1> QED
  BY <1>4, <1>5, <1>6, <1>7, <1>8, <1>9, <1>10 DEF Server

\* A packet that is not about somebody leaves him known, or forgotten.
LEMMA SentOfOthers ==
  ASSUME TypeOK, NEW p \in Packet, NEW d, ~About(p, d),
         UNCHANGED <<proto, peers, earlier>>,
         incoming' = incoming \/ incoming' = Append(incoming, p)
  PROVE  (Known(d) => Known(d)') /\ (Forgotten(d) => Forgotten(d)')
<1>1. incoming \in Seq(Packet)
  BY DEF TypeOK
<1>2. CASE incoming' = incoming
  BY <1>2 DEF Known, Forgotten
<1>3. CASE incoming' = Append(incoming, p)
  <2> DEFINE r == Append(incoming, p)
  <2>1. /\ Len(incoming) \in Nat /\ Len(r) = Len(incoming) + 1
        /\ \A i \in 1 .. Len(incoming) : r[i] = incoming[i]
    BY <1>1, Appended
  <2>2. /\ Silent(incoming, d) => Silent(r, d)
        /\ \A here, i : LastSays(incoming, i, d, here) => LastSays(r, i, d, here)
    BY <1>1, SaysAppended
  <2> HIDE DEF r
  <2>3. 1 .. Len(incoming) \subseteq 1 .. Len(r)
    BY <2>1
  <2>4. ASSUME NEW i \in 1 .. Len(incoming), LastSays(incoming, i, d, TRUE),
               proto = 3 \/ \E k \in 1 .. (i - 1) : incoming[k].type = "LoginSuccess"
        PROVE  /\ i \in 1 .. Len(r) /\ LastSays(r, i, d, TRUE)
               /\ proto = 3 \/ \E k \in 1 .. (i - 1) : r[k].type = "LoginSuccess"
    <3>1. \A k \in 1 .. (i - 1) : k \in 1 .. Len(incoming)
      BY <2>1, <2>4
    <3> QED
      BY <2>1, <2>2, <2>3, <2>4, <3>1
  <2>5. incoming' = r
    BY <1>3 DEF r
  <2>6. Known(d) => Known(d)'
    BY <2>2, <2>4, <2>5 DEF Known
  <2>7. Forgotten(d) => Forgotten(d)'
    BY <2>2, <2>3, <2>5 DEF Forgotten
  <2> QED
    BY <2>6, <2>7
<1> QED
  BY <1>2, <1>3

\* Who is spoken of is known, or forgotten, by what is said of him last.
LEMMA SentOf ==
  ASSUME TypeOK, Answers, NEW d \in Others,
         UNCHANGED <<proto, peers, earlier>>
  PROVE  /\ server.proto = 3 /\ server.dc = "no"
           /\ incoming' = Append(incoming, UserInfo(d, TRUE)) => Known(d)'
         /\ incoming' = Append(incoming, UserInfo(d, FALSE)) => Forgotten(d)'
<1>1. incoming \in Seq(Packet)
  BY DEF TypeOK
<1>2. ASSUME NEW here \in BOOLEAN
      PROVE  LET r == Append(incoming, UserInfo(d, here))
                 n == Len(incoming) + 1
             IN /\ LastSays(r, n, d, here) /\ n \in 1 .. Len(r)
                /\ n - 1 = Len(incoming)
                /\ \A i \in 1 .. Len(incoming) : r[i] = incoming[i]
  <2>1. UserInfo(d, here) \in Packet
    BY PacketKinds
  <2>2. LET r == Append(incoming, UserInfo(d, here))
        IN /\ Len(r) = Len(incoming) + 1 /\ Len(incoming) \in Nat
           /\ \A i \in 1 .. Len(incoming) : r[i] = incoming[i]
           /\ LastSays(r, Len(incoming) + 1, d, here)
    BY <1>1, <2>1, Appended, SaysAppended
  <2> QED
    BY <2>2 DEF LastSays
<1>3. ASSUME server.proto = 3, server.dc = "no",
             incoming' = Append(incoming, UserInfo(d, TRUE))
      PROVE  Known(d)'
  <2> DEFINE n == Len(incoming) + 1
  <2>1. /\ LastSays(incoming', n, d, TRUE) /\ n \in 1 .. Len(incoming')
        /\ n - 1 = Len(incoming)
        /\ \A i \in 1 .. Len(incoming) : incoming'[i] = incoming[i]
    BY <1>2, <1>3
  <2>2. proto = 3 \/ \E k \in 1 .. Len(incoming) : incoming[k].type = "LoginSuccess"
    BY <1>3 DEF Answers, Has
  <2> HIDE DEF n
  <2>3. proto' = 3 \/ \E k \in 1 .. (n - 1) : incoming'[k].type = "LoginSuccess"
    BY <2>1, <2>2
  <2> QED
    BY <2>1, <2>3 DEF Known
<1>4. ASSUME incoming' = Append(incoming, UserInfo(d, FALSE))
      PROVE  Forgotten(d)'
  <2>1. /\ LastSays(incoming', Len(incoming) + 1, d, FALSE)
        /\ Len(incoming) + 1 \in 1 .. Len(incoming')
    BY <1>2, <1>4
  <2> QED
    BY <2>1 DEF Forgotten
<1> QED
  BY <1>3, <1>4

LEMMA ServerRoster ==
  ASSUME TypeOK, Phases, Answers, Roster, Server \/ \E d \in Others : Other(d)
  PROVE  Roster'
<1>1. server \in Handle /\ incoming \in Seq(Packet)
      /\ UNCHANGED <<proto, peers, earlier>>
  BY ServerSteps DEF ServerKeeps, sessionVars, history, TypeOK
<1>2. proto' # 3 => peers' \subseteq earlier'
  BY <1>1 DEF Roster
<1>3. ASSUME NEW p \in Packet, \A d \in Others : ~About(p, d),
             incoming' = incoming \/ incoming' = Append(incoming, p),
             others' = others, server'.dc = "no" => server.dc = "no",
             server'.proto = 3 => server.proto = 3 /\ server'.todo = server.todo
      PROVE  Roster'
  <2>1. ASSUME NEW d \in Others
        PROVE  (Known(d) => Known(d)') /\ (Forgotten(d) => Forgotten(d)')
    BY <1>1, <1>3, SentOfOthers
  <2> QED
    BY <1>2, <1>3, <2>1 DEF Roster
<1>4. \A t \in PlainTypes : /\ Plain(t) \in Packet
                            /\ \A d \in Others : ~About(Plain(t), d)
  BY PacketKinds DEF About, PlainTypes, Code0
<1>5. CASE ListClient \/ CreateLink \/ TakeLogin
  <2>1. UNCHANGED <<incoming, others>>
    BY <1>5 DEF ListClient, CreateLink, TakeLogin
  <2>2. /\ server'.dc = server.dc /\ server'.proto = server.proto
        /\ server'.todo = server.todo
    BY <1>1, <1>5, HandleFields
  <2>3. "Media" \in PlainTypes
    BY DEF PlainTypes
  <2> QED
    BY <1>3, <1>4, <2>1, <2>2, <2>3
<1>6. CASE AnswerStatus
  <2>1. incoming' = Sent(Plain("StatusResponse")) /\ others' = others
    BY <1>6 DEF AnswerStatus
  <2>2. server'.dc = server.dc /\ server'.proto = 2
    BY <1>1, <1>6, HandleFields
  <2>3. "StatusResponse" \in PlainTypes
    BY DEF PlainTypes, Code0
  <2> QED
    BY <1>3, <1>4, <2>1, <2>2, <2>3 DEF Sent
<1>7. CASE Authenticate
  <2>1. incoming' = Sent(Plain("LoginSuccess")) /\ others' = others
    BY <1>7 DEF Authenticate
  <2>2. server'.dc = server.dc /\ \A d \in Others : Present(d) => d \in server'.todo
    BY <1>1, <1>7, HandleFields
  <2>3. "LoginSuccess" \in PlainTypes
    BY DEF PlainTypes
  <2>4. ASSUME NEW d \in Others PROVE Forgotten(d) => Forgotten(d)'
    BY <1>1, <1>4, <2>1, <2>3, SentOfOthers DEF Sent
  <2>5. \A d \in Others : others[d] \in {"online", "back"} => d \in server'.todo
    BY <2>2 DEF Present, Here
  <2> QED
    BY <1>2, <2>1, <2>2, <2>4, <2>5 DEF Roster
<1>8. ASSUME NEW e \in Others, Tell(e) PROVE Roster'
  <2>1. /\ Present(e) \in BOOLEAN
        /\ others[e] \in {"online", "back"} => Present(e) = TRUE
        /\ others[e] = "gone" => Present(e) = FALSE
    BY DEF Present, Here
  <2>2. /\ incoming' = Sent(UserInfo(e, Present(e))) /\ others' = others
        /\ UserInfo(e, Present(e)) \in Packet
        /\ \A d \in Others \ {e} : ~About(UserInfo(e, Present(e)), d)
    BY <1>8, <2>1, PacketKinds DEF Tell, About
  <2>3. /\ server'.dc = server.dc /\ server'.proto = server.proto
        /\ server'.todo = server.todo \ {e}
    BY <1>1, <1>8, HandleFields
  <2>4. server.proto = 3
    BY <1>8 DEF Tell, Phases, Unlocked
  <2>5. ASSUME NEW d \in Others \ {e}
        PROVE  (Known(d) => Known(d)') /\ (Forgotten(d) => Forgotten(d)')
    BY <1>1, <2>2, SentOfOthers DEF Sent
  <2>6. ASSUME server.dc = "no"
        PROVE  /\ others[e] \in {"online", "back"} => Known(e)'
               /\ others[e] = "gone" => Forgotten(e)'
    <3>1. incoming' = Append(incoming, UserInfo(e, Present(e)))
      BY <2>2, <2>6 DEF Sent
    <3> QED
      BY <1>1, <2>1, <2>4, <2>6, <3>1, SentOf
  <2> QED
    BY <1>2, <2>2, <2>3, <2>4, <2>5, <2>6 DEF Roster
<1>9. CASE SendDisconnect
  <2>1. server'.dc # "no"
    BY <1>1, <1>9, HandleFields
  <2> QED
    BY <1>2, <2>1 DEF Roster
<1>10. CASE Forward
  <2>1. PICK t \in PlainTypes : incoming' = Append(incoming, Plain(t))
    BY <1>10 DEF Forward, PlainTypes, Code0
  <2>2. UNCHANGED <<server, others>>
    BY <1>10 DEF Forward
  <2> QED
    BY <1>3, <1>4, <2>1, <2>2
<1>11. ASSUME NEW e \in Others, Other(e) PROVE Roster'
  <2>1. server' = server /\ \A d \in Others \ {e} : others'[d] = others[d]
    BY <1>11, OtherSteps
  <2>2. incoming' = incoming \/ \E b \in BOOLEAN : incoming' = Append(incoming, UserInfo(e, b))
    BY <1>11, OtherSteps DEF Broadcast, Sent
  <2>3. ASSUME NEW d \in Others \ {e}
        PROVE  (Known(d) => Known(d)') /\ (Forgotten(d) => Forgotten(d)')
    <3>1. \A b \in BOOLEAN : UserInfo(e, b) \in Packet /\ ~About(UserInfo(e, b), d)
      BY PacketKinds DEF About
    <3> QED
      BY <1>1, <2>2, <3>1, SentOfOthers
  <2>4. ASSUME server.dc = "no", server.proto = 3, others'[e] \in {"online", "back"}
        PROVE  Known(e)'
    <3>1. Broadcast(UserInfo(e, TRUE))
      BY <1>11, <2>4, OtherSteps
    <3>2. incoming' = Append(incoming, UserInfo(e, TRUE))
      BY <2>4, <3>1 DEF Broadcast, Sent, Phases
    <3> QED
      BY <1>1, <2>4, <3>2, SentOf
  <2>5. ASSUME server.dc = "no", others'[e] = "gone"
        PROVE  Forgotten(e)'
    <3>1. Broadcast(UserInfo(e, FALSE))
      BY <1>11, <2>5, OtherSteps
    <3>2. CASE server.listed
      <4>1. incoming' = Append(incoming, UserInfo(e, FALSE))
        BY <2>5, <3>1, <3>2 DEF Broadcast, Sent
      <4> QED
        BY <1>1, <4>1, SentOf
    <3>3. CASE ~server.listed
      <4>1. incoming' = <<>> /\ proto # 3
        BY <3>1, <3>3 DEF Broadcast, Phases
      <4>2. Silent(<<>>, e)
        BY DEF Silent
      <4> QED
        BY <1>1, <4>1, <4>2 DEF Forgotten, Roster
    <3> QED
      BY <3>2, <3>3
  <2> QED
    BY <1>2, <2>1, <2>3, <2>4, <2>5 DEF Roster
<1> QED
  BY <1>5, <1>6, <1>7, <1>8, <1>9, <1>10, <1>11 DEF Server

\* What is dropped for want of a link takes nothing from a client that has been
\* admitted, or could have been.
LEMMA FlushWire ==
  ASSUME TypeOK, Phases, Answers, Roster, FlushUnlinked
  PROVE  Phases' /\ Answers' /\ Roster'
<1>1. /\ UNCHANGED <<connected, proto, early, peers, earlier, sent, server, others>>
      /\ ~server.linked /\ incoming' = <<>>
  BY FlushStep DEF ServerKeeps, sessionVars, history
<1>2. \A t : ~Has(<<>>, t)
  BY DEF Has
<1>3. server.proto = 1 /\ proto = 1 /\ server.dc \notin {"login", "work"}
  BY <1>1 DEF Phases
<1>4. Phases'
  BY <1>1, <1>2, <1>3 DEF Phases, Unlocked
<1>5. Answers'
  BY <1>1, <1>3 DEF Answers
<1>6. \A d : Silent(<<>>, d)
  BY DEF Silent
<1>7. peers \subseteq earlier
  BY <1>3 DEF Roster
<1>8. Roster'
  BY <1>1, <1>3, <1>6, <1>7 DEF Roster, Forgotten
<1> QED
  BY <1>4, <1>5, <1>8

-----------------------------------------------------------------------------
(* The inductive invariant *)

LEMMA InitInductive == Init => Inductive
<1> SUFFICES ASSUME Init PROVE Inductive
  OBVIOUS
<1>1. /\ state = "NOT_CONNECTED" /\ socket = "closed" /\ connected = FALSE /\ proto = 1
      /\ peers = {} /\ shown = {} /\ page = "connect" /\ button = TRUE
      /\ closing = FALSE /\ incoming = <<>> /\ sent = "nothing"
      /\ server = NewHandle /\ earlier = {} /\ early = FALSE /\ failed = FALSE
      /\ \A d \in Others : others[d] = "away"
  BY DEF Init
<1>2. \A t : ~Has(<<>>, t)
  BY DEF Has
<1>3. /\ NewHandle.listed = FALSE /\ NewHandle.linked = FALSE
      /\ NewHandle.proto = 1 /\ NewHandle.asked = FALSE
      /\ NewHandle.dc = "no" /\ NewHandle.todo = {}
  BY DEF NewHandle
<1>4. SocketAgrees /\ LoginAgain /\ Window
  BY <1>1 DEF SocketAgrees, LoginAgain, CanLogin, Window, Open
<1>5. Phases
  BY <1>1, <1>2, <1>3 DEF Phases, Unlocked
<1>6. Answers
  BY <1>1, <1>3 DEF Answers
<1>7. Roster
  BY <1>1, <1>3 DEF Roster
<1> QED
  BY InitTypeOK, <1>4, <1>5, <1>6, <1>7 DEF Inductive

LEMMA NextInductive == Inductive /\ [Next]_vars => Inductive'
<1> SUFFICES ASSUME Inductive, [Next]_vars PROVE Inductive'
  OBVIOUS
<1>1. /\ TypeOK /\ Shape /\ Phases /\ Answers /\ Roster
  BY DEF Inductive, Shape
<1>2. TypeOK' /\ Shape'
  BY <1>1, NextTypeOK, NextShape
<1>3. CASE UNCHANGED vars
  <2>1. UNCHANGED Wire
    BY <1>3 DEF vars, Wire, sessionVars, wireVars, history
  <2> QED
    BY <1>1, <1>2, <2>1, WireKept DEF Inductive, Shape
<1>4. CASE Server \/ \E d \in Others : Other(d)
  BY <1>1, <1>2, <1>4, ServerPhases, ServerAnswers, ServerRoster DEF Inductive, Shape
<1>5. CASE FlushUnlinked
  BY <1>1, <1>2, <1>5, FlushWire DEF Inductive, Shape
<1>6. CASE DoLogin \/ OnResolveResult \/ OnConnect \/ OnClose \/ HandlePacket
             \/ EndCall \/ PeerConnectionClosed \/ CloseWindow
  <2>1. Close \/ UNCHANGED Wire \/ OnConnect \/ TakePacket(Head(incoming))
    BY <1>1, <1>6, ClientSteps, HandlePacketSteps
  <2>2. Phases' /\ Answers' /\ Roster'
    <3>1. CASE Close
      BY <1>1, <3>1, Closed
    <3>2. CASE UNCHANGED Wire
      BY <1>1, <3>2, WireKept
    <3>3. CASE OnConnect
      BY <1>1, <3>3, ConnectStep
    <3>4. CASE TakePacket(Head(incoming))
      BY <1>1, <3>4, TakePhases, TakeAnswers, TakeRoster
    <3> QED
      BY <2>1, <3>1, <3>2, <3>3, <3>4
  <2> QED
    BY <1>2, <2>2 DEF Inductive, Shape
<1> QED
  BY <1>3, <1>4, <1>5, <1>6 DEF Next

LEMMA InductiveHolds == Spec => []Inductive
  BY InitInductive, NextInductive, PTL DEF Spec

-----------------------------------------------------------------------------
(* Theorems *)

\* The types of the client's, its window's and its server's variables.
THEOREM TypeCorrect == Spec => []TypeOK
<1>1. Inductive => TypeOK
  BY DEF Inductive
<1> QED
  BY InductiveHolds, <1>1, PTL

\* m_bConnect, state_ and the socket agree, whatever the user, the network and
\* the server do: PeerConnectionClient never sends on a socket that is not
\* connected.
THEOREM SocketsAgree == Spec => []SocketAgrees
<1>1. Inductive => SocketAgrees
  BY DEF Inductive
<1> QED
  BY InductiveHolds, <1>1, PTL

\* The login page has its button enabled exactly when MainFrame::doLogin can
\* connect, but after an OnServerConnectionFailure, which shows nothing.
THEOREM LoginStaysPossible == Spec => []LoginAgain
<1>1. Inductive => LoginAgain
  BY DEF Inductive
<1> QED
  BY InductiveHolds, <1>1, PTL

\* A client whose protocol is in the work state was admitted by the server's,
\* but for a UserInfo that it reads as LoginSuccess.
THEOREM SignInsAreAnswered == Spec => []SignedInByServer
<1>1. Inductive => SignedInByServer
  BY DEF Inductive, Phases, SignedInByServer
<1> QED
  BY InductiveHolds, <1>1, PTL

\* The list on the screen is the list of who has signed in, for any number of
\* others who come and go while the client signs in, and again and again.
THEOREM PeersAreKnown == Spec => []PeersKnown
<1>1. Inductive => PeersKnown
  <2> SUFFICES ASSUME Inductive,
                      page = "list", connected, server.proto = 3, server.dc = "no",
                      Unlocked, incoming = <<>>, NEW d \in Others
               PROVE  /\ others[d] \in {"online", "back"} => d \in shown
                      /\ others[d] = "gone" /\ d \in shown => d \in earlier
    BY DEF PeersKnown
  <2>1. shown = peers /\ d \notin server.todo
    BY DEF Inductive, Window, Unlocked
  <2>2. 1 .. Len(incoming) = {}
    OBVIOUS
  <2>3. others[d] \in {"online", "back"} => d \in peers
    BY <2>1, <2>2 DEF Inductive, Roster, Known
  <2>4. others[d] = "gone" /\ d \in peers => d \in earlier
    BY <2>2 DEF Inductive, Roster, Forgotten
  <2> QED
    BY <2>1, <2>3, <2>4
<1> QED
  BY InductiveHolds, <1>1, PTL

\* A client that the server tells to go has gone when it has handled what was
\* sent to it, in the login state and in the work state.
THEOREM ToldToGoGoes == Spec => []GoesWhenTold
<1>1. Inductive => GoesWhenTold
  BY DEF Inductive, Answers, GoesWhenTold
<1> QED
  BY InductiveHolds, <1>1, PTL

=============================================================================
