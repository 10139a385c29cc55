------------------------------- MODULE Session -------------------------------
(***************************************************************************)
(* Signing in: PeerConnectionClient with the window that shows what it     *)
(* does, against a server that answers and broadcasts as ServerCore does.  *)
(*                                                                         *)
(* A client has one thread; each event is one action.  What waits in       *)
(* m_ReceivedData is part of incoming: a packet that has arrived and is    *)
(* not handled is like one that has not arrived.  Calls are those of Call; *)
(* here they matter for the page they show and for how they end.           *)
(***************************************************************************)
EXTENDS Naturals, Sequences

CONSTANTS
  Others,     \* ids of the other clients of the server
  Nobody,     \* the id in packets that are about nobody
  MaxLogins,  \* bound: how often the user presses Login
  MaxWaiting  \* bound: packets waiting when another client causes one more

ASSUME OthersAssumption == Nobody \notin Others

ASSUME BoundsAssumption == MaxLogins \in Nat /\ MaxWaiting \in Nat

VARIABLES
  state,      \* PeerConnectionClient::state_
  socket,     \* control_socket_: what GetState() says
  connected,  \* m_bConnect
  proto,      \* m_State of the client: 1 status, 2 login, 3 work
  peers,      \* peers_
  page,       \* MainFrame: ui_, or "closed"
  button,     \* pBtnLogin is enabled
  closing,    \* PEER_CONNECTION_CLOSED is posted; several do what one does
  shown,      \* userInfo_, the peers in the window's list
  incoming,   \* packets from the server that have not been handled
  sent,       \* the packet to the server that it has not handled
  server,     \* this connection's cClientHandle
  others,     \* the other clients' cClientHandles
  earlier,    \* history: peers from an earlier session, not spoken of since
  early,      \* history: signed in by a packet that was not LoginSuccess
  failed,     \* history: OnServerConnectionFailure since Login was pressed
  logins      \* how often Login may still be pressed

sessionVars == <<state, socket, connected, proto>>
windowVars == <<page, button, closing, shown>>
wireVars == <<incoming, sent, server>>
history == <<earlier, early, failed>>
vars == <<sessionVars, peers, windowVars, wireVars, others, history, logins>>

(***************************************************************************)
(* Packets.  The first two groups have one code each: 0x00 and 0x01.       *)
(***************************************************************************)
Code0 == {"StatusResponse", "LoginDisconnect", "KeepAlive"}
Code1 == {"LoginSuccess", "UserInfo"}

Plain(type) == [type |-> type, id |-> Nobody, here |-> FALSE]
UserInfo(d, here) == [type |-> "UserInfo", id |-> d, here |-> here]

PlainTypes == Code0 \cup {"LoginSuccess", "Media", "ErrorCode"}
Packet == {Plain(t) : t \in PlainTypes}
          \cup {UserInfo(d, here) : d \in Others, here \in BOOLEAN}

\* This connection's cClientHandle: in m_Clients or not yet, with m_Link or not
\* yet, the protocol's state, whether a login was asked for, how it was told to
\* go, and whom it has still to be told of by the broadcast that is going on.
Handle == [listed : BOOLEAN, linked : BOOLEAN, proto : 1 .. 3, asked : BOOLEAN,
           dc : {"no", "silent", "login", "work"}, todo : SUBSET Others]

NewHandle == [listed |-> FALSE, linked |-> FALSE, proto |-> 1, asked |-> FALSE,
              dc |-> "no", todo |-> {}]

-----------------------------------------------------------------------------
(* PeerConnectionClient and what it calls *)

Open == page # "closed"

\* Close(): peers_ is kept.  Mutants: m_State is kept; m_bConnect is.
Close_State ==
  /\ state' = "NOT_CONNECTED" /\ socket' = "closed" /\ connected' = FALSE
  /\ incoming' = <<>> /\ sent' = "nothing" /\ server' = NewHandle
  /\ earlier' = peers /\ early' = FALSE
  /\ UNCHANGED <<peers, proto>>
Close_Connected ==
  /\ state' = "NOT_CONNECTED" /\ socket' = "closed"
  /\ proto' = 1
  /\ incoming' = <<>> /\ sent' = "nothing" /\ server' = NewHandle
  /\ earlier' = peers /\ early' = FALSE
  /\ UNCHANGED <<peers, connected>>
Close ==
  /\ state' = "NOT_CONNECTED" /\ socket' = "closed" /\ connected' = FALSE
  /\ proto' = 1
  /\ incoming' = <<>> /\ sent' = "nothing" /\ server' = NewHandle
  /\ earlier' = peers /\ early' = FALSE
  /\ UNCHANGED peers

\* Mutant: the button stays disabled.
SwitchToConnectUI_Mutant == page' = "connect" /\ UNCHANGED <<button, shown>>
SwitchToConnectUI == page' = "connect" /\ button' = TRUE /\ UNCHANGED shown

\* The window copies the list of peers.  Mutant: it does not.
SwitchToPeerList_Mutant == page' = "list" /\ UNCHANGED <<button, shown>>
SwitchToPeerList == page' = "list" /\ shown' = peers /\ UNCHANGED button

\* SignOut() over a connected socket, and Conductor::OnDisconnected().
SignOut ==
  /\ Close /\ SwitchToConnectUI
  /\ UNCHANGED <<closing, failed>>

\* Close() and OnServerConnectionFailure(), which shows nothing.
Fail ==
  /\ Close
  /\ failed' = TRUE
  /\ UNCHANGED windowVars

-----------------------------------------------------------------------------
(* Connecting *)

\* MainFrame::doLogin: the name of the server has to be resolved, or not, or
\* the socket cannot connect; the button is disabled in the end.  Input waits
\* until posted messages have been handled.  That Connect() would refuse, or
\* StartLogin return at once, does not happen (LoginAgain).
DoLogin ==
  /\ page = "connect" /\ button /\ ~closing /\ state = "NOT_CONNECTED"
  /\ logins > 0
  /\ logins' = logins - 1
  /\ button' = FALSE
  /\ \/ state' = "RESOLVING" /\ failed' = FALSE /\ UNCHANGED socket
     \/ state' = "SIGNING_IN" /\ failed' = FALSE /\ socket' = "connecting"
     \/ failed' = TRUE /\ UNCHANGED <<state, socket>>
  /\ UNCHANGED <<connected, proto, peers, page, closing, shown, wireVars, others,
                 earlier, early>>

\* OnResolveResult; the socket may again be one that cannot connect.
OnResolveResult ==
  /\ Open /\ state = "RESOLVING"
  /\ \/ /\ state' = "SIGNING_IN" /\ socket' = "connecting"
        /\ UNCHANGED failed
     \/ /\ state' = "NOT_CONNECTED" /\ failed' = TRUE
        /\ UNCHANGED socket
  /\ UNCHANGED <<connected, proto, peers, windowVars, wireVars, others, earlier,
                 early, logins>>

\* OnConnect sends StatusRequest.
OnConnect ==
  /\ Open /\ socket = "connecting"
  /\ socket' = "connected" /\ connected' = TRUE
  /\ sent' = "StatusRequest"
  /\ UNCHANGED <<state, proto, peers, windowVars, incoming, server, others,
                 history, logins>>

\* OnClose: the connection cannot be made, or is lost with what was on it.
OnClose ==
  /\ Open /\ socket # "closed"
  /\ Fail
  /\ UNCHANGED <<others, logins>>

-----------------------------------------------------------------------------
(* HandlePacket *)

\* What waits for m_Link has not been sent.
AtPacket(n, types) ==
  /\ Open /\ proto = n /\ server.linked
  /\ incoming # <<>> /\ Head(incoming).type \in types
  /\ UNCHANGED <<others, logins>>

Take == incoming' = Tail(incoming)

\* What is no StatusResponse is too short.
HandlePacketStatusRequest ==
  /\ AtPacket(1, Code0) /\ Take
  /\ IF Head(incoming).type = "StatusResponse"
     THEN proto' = 2 /\ sent' = "LoginInfo" ELSE UNCHANGED <<proto, sent>>
  /\ UNCHANGED <<state, socket, connected, peers, windowVars, server, history>>

\* A KeepAlive is too short.
HandlePacketLoginDisconnect ==
  /\ AtPacket(2, Code0)
  /\ IF Head(incoming).type # "KeepAlive" THEN SignOut
     ELSE /\ Take
          /\ UNCHANGED <<sessionVars, peers, windowVars, sent, server, history>>

\* The packet is not looked at.
HandlePacketLoginSuccess ==
  /\ AtPacket(2, Code1) /\ Take
  /\ proto' = 3
  /\ early' = (Head(incoming).type = "UserInfo")
  /\ SwitchToPeerList
  /\ UNCHANGED <<state, socket, connected, peers, closing, sent, server, earlier,
                 failed>>

\* Anything with this code is answered by a KeepAlive.  In its work state the
\* server measures the latency with it.  In its login state, which only a client
\* signed in early meets, it is read as one more LoginInfo: it finds the first
\* one accepted and changes nothing, or has the client told to go, as
\* SendDisconnect may at any time.
HandlePacketKeepAlive ==
  /\ AtPacket(3, Code0) /\ Take
  /\ UNCHANGED <<sessionVars, peers, windowVars, sent, server, history>>

\* The list is shown anew if it is shown; the end of the partner of a call is
\* posted.  LoginSuccess is too short.
HandlePacketUserInfo ==
  /\ AtPacket(3, Code1) /\ Take
  /\ LET p == Head(incoming)
     IN IF p.type = "UserInfo"
        THEN /\ peers' = IF p.here THEN peers \cup {p.id} ELSE peers \ {p.id}
             /\ earlier' = earlier \ {p.id}
             /\ \/ UNCHANGED closing
                \/ ~p.here /\ page = "streaming" /\ closing' = TRUE
        ELSE UNCHANGED <<peers, earlier, closing>>
  /\ shown' = IF page = "list" THEN peers' ELSE shown
  /\ UNCHANGED <<sessionVars, page, button, sent, server, early, failed>>

\* HandlePacketMedia and HandlePacketMediaMsg: a call begins, its end is posted,
\* or neither; OnMessageFromPeer signs out when there can be no call.
HandlePacketMedia ==
  /\ AtPacket(3, {"Media"})
  /\ \/ /\ Take
        /\ \/ page' = "streaming" /\ UNCHANGED closing
           \/ page = "streaming" /\ closing' = TRUE /\ UNCHANGED page
           \/ UNCHANGED <<page, closing>>
        /\ UNCHANGED <<sessionVars, peers, button, shown, sent, server, history>>
     \/ page = "list" /\ SignOut

HandlePacketErrorCode ==
  /\ AtPacket(3, {"ErrorCode"})
  /\ SignOut

\* A packet that is unknown in this state is gone.
HandleUnknown ==
  /\ \/ AtPacket(1, Code1 \cup {"Media", "ErrorCode"})
     \/ AtPacket(2, {"Media", "ErrorCode"})
  /\ Take
  /\ UNCHANGED <<sessionVars, peers, windowVars, sent, server, history>>

HandlePacket ==
  \/ HandlePacketStatusRequest \/ HandlePacketLoginDisconnect
  \/ HandlePacketLoginSuccess \/ HandlePacketKeepAlive \/ HandlePacketUserInfo
  \/ HandlePacketMedia \/ HandlePacketErrorCode \/ HandleUnknown

-----------------------------------------------------------------------------
(* The window *)

\* DisconnectFromCurrentPeer, asked for by the user.
EndCall ==
  /\ page = "streaming" /\ ~closing
  /\ SwitchToPeerList
  /\ UNCHANGED <<sessionVars, peers, closing, wireVars, others, history, logins>>

\* UIThreadCallback with PEER_CONNECTION_CLOSED.
PeerConnectionClosed ==
  /\ Open /\ closing
  /\ closing' = FALSE
  /\ IF connected THEN SwitchToPeerList ELSE SwitchToConnectUI
  /\ UNCHANGED <<sessionVars, peers, wireVars, others, history, logins>>

\* OnFinalMessage and Conductor::Close: signing out waits for a connection that
\* nobody makes any more.
CloseWindow ==
  /\ Open
  /\ page' = "closed"
  /\ IF socket = "connected" THEN Close
     ELSE /\ state' = IF state = "NOT_CONNECTED" THEN state
                      ELSE "SIGNING_OUT_WAITING"
          /\ UNCHANGED <<socket, connected, proto, peers, wireVars, earlier, early>>
  /\ UNCHANGED <<button, closing, shown, others, failed, logins>>

-----------------------------------------------------------------------------
(* The server.  While it goes over m_Clients it holds m_CSClients.          *)

Unlocked == server.todo = {}

\* Nothing is sent to who has been told to go.
Sent(p) == IF server.dc = "no" THEN Append(incoming, p) ELSE incoming

Room == Len(incoming) < MaxWaiting

ServerKeeps == UNCHANGED <<sessionVars, peers, windowVars, history, logins>>

ListClient ==
  /\ socket = "connected" /\ ~server.listed /\ Unlocked
  /\ server' = [server EXCEPT !.listed = TRUE]
  /\ UNCHANGED <<incoming, sent, others>> /\ ServerKeeps

\* The link is made, set and enabled after that, whoever holds the lock.
CreateLink ==
  /\ server.listed /\ ~server.linked
  /\ server' = [server EXCEPT !.linked = TRUE]
  /\ UNCHANGED <<incoming, sent, others>> /\ ServerKeeps

\* A tick that finds no m_Link drops what is queued for the client.
FlushUnlinked ==
  /\ server.listed /\ ~server.linked /\ incoming # <<>> /\ Unlocked
  /\ incoming' = <<>>
  /\ UNCHANGED <<sent, server, others>> /\ ServerKeeps

\* HandlePacketStatusRequest and HandlePacketLoginInfo of the server.
AnswerStatus ==
  /\ server.linked /\ sent = "StatusRequest" /\ Unlocked
  /\ server' = [server EXCEPT !.proto = 2]
  /\ incoming' = Sent(Plain("StatusResponse"))
  /\ sent' = "nothing"
  /\ UNCHANGED others /\ ServerKeeps

TakeLogin ==
  /\ sent = "LoginInfo" /\ Unlocked
  /\ server' = [server EXCEPT !.asked = TRUE]
  /\ sent' = "nothing"
  /\ UNCHANGED <<incoming, others>> /\ ServerKeeps

Here == {"listed", "online", "revived", "back"}
Present(d) == others[d] \in Here

\* Authenticate: SendLoginSuccess, and the broadcast begins.  Who is destroyed
\* may be in m_Clients still.
Authenticate ==
  /\ server.asked /\ server.proto = 2 /\ Unlocked
  /\ \E going \in SUBSET {d \in Others : others[d] \in {"leaving", "gone"}} :
       server' = [server EXCEPT !.proto = 3,
                                !.todo = {d \in Others : Present(d)} \cup going]
  /\ incoming' = Sent(Plain("LoginSuccess"))
  /\ UNCHANGED <<sent, others>> /\ ServerKeeps

\* The broadcast tells this client of d.
Tell(d) ==
  /\ d \in server.todo
  /\ server' = [server EXCEPT !.todo = @ \ {d}]
  /\ incoming' = Sent(UserInfo(d, Present(d)))
  /\ UNCHANGED <<sent, others>> /\ ServerKeeps

\* SendDisconnect: what it sends depends on the protocol's state.
\* Mutant: the packet of the login state is sent in both.
SendDisconnect_Mutant ==
  /\ server.listed /\ server.dc = "no" /\ Unlocked
  /\ \/ /\ server.proto = 1
        /\ server' = [server EXCEPT !.dc = "silent"]
        /\ UNCHANGED incoming
     \/ /\ server.proto # 1
        /\ server' = [server EXCEPT !.dc = IF server.proto = 2 THEN "login" ELSE "work"]
        /\ incoming' = Append(incoming, Plain("LoginDisconnect"))
  /\ UNCHANGED <<sent, others>> /\ ServerKeeps
SendDisconnect ==
  /\ server.listed /\ server.dc = "no" /\ Unlocked
  /\ \/ /\ server.proto = 1
        /\ server' = [server EXCEPT !.dc = "silent"]
        /\ UNCHANGED incoming
     \/ /\ server.proto = 2
        /\ server' = [server EXCEPT !.dc = "login"]
        /\ incoming' = Append(incoming, Plain("LoginDisconnect"))
     \/ /\ server.proto = 3
        /\ server' = [server EXCEPT !.dc = "work"]
        /\ incoming' = Append(incoming, Plain("ErrorCode"))
  /\ UNCHANGED <<sent, others>> /\ ServerKeeps

\* A ping to who has signed in, or a packet that another client has sent here.
Forward ==
  /\ server.listed /\ server.dc = "no" /\ Unlocked /\ Room
  /\ \E t \in {"Media"} \cup IF server.proto = 3 THEN {"KeepAlive"} ELSE {} :
       incoming' = Append(incoming, Plain(t))
  /\ UNCHANGED <<sent, server, others>> /\ ServerKeeps

Server ==
  \/ ListClient \/ CreateLink \/ AnswerStatus \/ TakeLogin \/ Authenticate
  \/ (\E d \in Others : Tell(d)) \/ SendDisconnect \/ Forward

-----------------------------------------------------------------------------
(* The other clients: what they do is broadcast to this one, if it is listed. *)

Broadcast(p) == incoming' = IF server.listed THEN Sent(p) ELSE incoming

Move(d, from, to) ==
  /\ others[d] \in from
  /\ others' = [others EXCEPT ![d] = to]
  /\ UNCHANGED <<sent, server>> /\ ServerKeeps

OtherConnects(d) ==
  /\ Unlocked /\ Move(d, {"away"}, "listed")
  /\ UNCHANGED incoming

OtherSignsIn(d) ==
  /\ Unlocked /\ Room
  /\ Move(d, {"listed"}, "online") \/ Move(d, {"revived"}, "back")
  /\ Broadcast(UserInfo(d, TRUE))

\* Destroy(): the state first, then the broadcast, which waits for the lock.
OtherIsDestroyed(d) ==
  /\ Move(d, {"listed", "online"}, "leaving")
  /\ UNCHANGED incoming

OtherIsGone(d) ==
  /\ Unlocked /\ Room
  /\ Move(d, {"leaving"}, "gone")
  /\ Broadcast(UserInfo(d, FALSE))

\* A thread in the middle of its login overwrites m_State, for good.
OtherIsRevived(d) ==
  /\ Move(d, {"leaving", "gone"}, "revived")
  /\ UNCHANGED incoming

Other(d) ==
  \/ OtherConnects(d) \/ OtherSignsIn(d) \/ OtherIsDestroyed(d) \/ OtherIsGone(d)
  \/ OtherIsRevived(d)

-----------------------------------------------------------------------------

Init ==
  /\ state = "NOT_CONNECTED" /\ socket = "closed" /\ connected = FALSE /\ proto = 1
  /\ peers = {} /\ shown = {}
  /\ page = "connect" /\ button = TRUE /\ closing = FALSE
  /\ incoming = <<>> /\ sent = "nothing" /\ server = NewHandle
  /\ others = [d \in Others |-> "away"]
  /\ earlier = {} /\ early = FALSE /\ failed = FALSE
  /\ logins = MaxLogins

Next ==
  \/ DoLogin \/ OnResolveResult \/ OnConnect \/ OnClose \/ HandlePacket
  \/ EndCall \/ PeerConnectionClosed \/ CloseWindow
  \/ Server \/ FlushUnlinked \/ \E d \in Others : Other(d)

Spec == Init /\ [][Next]_vars

-----------------------------------------------------------------------------
(* Invariants *)

TypeOK ==
  /\ state \in {"NOT_CONNECTED", "RESOLVING", "SIGNING_IN", "SIGNING_OUT_WAITING"}
  /\ socket \in {"closed", "connecting", "connected"}
  /\ connected \in BOOLEAN
  /\ proto \in 1 .. 3
  /\ peers \subseteq Others /\ shown \subseteq Others /\ earlier \subseteq Others
  /\ page \in {"connect", "list", "streaming", "closed"}
  /\ button \in BOOLEAN /\ closing \in BOOLEAN
  /\ early \in BOOLEAN /\ failed \in BOOLEAN
  /\ incoming \in Seq(Packet)
  /\ sent \in {"nothing", "StatusRequest", "LoginInfo"}
  /\ server \in Handle
  /\ others \in [Others -> {"away", "listed", "online", "leaving", "gone",
                         "revived", "back"}]
  /\ logins \in 0 .. MaxLogins

\* m_bConnect, state_ and the socket say the same: SendData() never sends on a
\* socket that is not connected, and signing out waits for a connection that
\* nobody makes only when the program ends.
SocketAgrees ==
  /\ connected <=> socket = "connected"
  /\ state = "SIGNING_IN" <=> Open /\ socket # "closed"
  /\ state = "SIGNING_OUT_WAITING" => ~Open
  /\ socket # "connected" => proto = 1 /\ incoming = <<>>

\* A user who has not been left without a word by OnServerConnectionFailure()
\* sees what there is: the login page with its button enabled if and only if
\* there is no connection, and none is being made.
CanLogin == page = "connect" /\ button
LoginAgain ==
  /\ Open /\ state = "NOT_CONNECTED" /\ ~failed => CanLogin
  /\ CanLogin => state = "NOT_CONNECTED"
  /\ page \in {"list", "streaming"} => proto = 3 \/ failed

\* Who is shown as signed in has been admitted, unless a broadcast came between
\* StatusResponse and LoginSuccess.
SignedInByServer ==
  proto = 3 /\ ~early => server.asked /\ server.proto = 3

\* Once everything the server has sent is handled, the list shows whoever has
\* signed in, and of those who have gone only such as are left from an earlier
\* session.
PeersKnown ==
  /\ page = "list" /\ connected /\ server.proto = 3 /\ server.dc = "no"
  /\ Unlocked /\ incoming = <<>>
  => \A d \in Others : /\ others[d] \in {"online", "back"} => d \in shown
                       /\ others[d] = "gone" /\ d \in shown => d \in earlier

\* Who is told to go, goes; only who was signed in by a broadcast reads the
\* packet of the login state as a KeepAlive, and stays.
GoesWhenTold ==
  connected /\ incoming = <<>>
    => /\ server.dc = "login" => early
       /\ server.dc # "work"

-----------------------------------------------------------------------------
(* Their inductive strengthening *)

\* What the window shows goes with the session, and so does the end of a call
\* that is posted to it.
Window ==
  /\ connected => Open
  /\ proto = 3 => page \in {"list", "streaming"}
  /\ page \in {"list", "streaming"} => proto = 3 \/ state = "NOT_CONNECTED"
  /\ closing => ~Open \/ proto = 3 \/ state = "NOT_CONNECTED"
  /\ page = "list" => shown = peers

Has(q, type) == \E i \in 1 .. Len(q) : q[i].type = type

\* How far the client and its handle are, and what is between them.
Phases ==
  /\ ~connected => server = NewHandle /\ sent = "nothing"
  /\ sent = "StatusRequest" => server.proto = 1
  /\ server.linked => server.listed
  /\ server.proto # 1 => server.linked
  /\ ~server.listed => incoming = <<>>
  /\ sent = "LoginInfo" \/ server.asked => proto # 1
  /\ proto # 1 \/ Has(incoming, "StatusResponse") => server.proto # 1
  /\ server.proto = 3 => server.asked
  /\ Has(incoming, "LoginSuccess") \/ (proto = 3 /\ ~early)
       => server.proto = 3 /\ server.dc \in {"no", "work"}
  /\ server.dc = "login" => server.proto # 1
  /\ server.dc = "work" \/ ~Unlocked => server.proto = 3

\* The answers to StatusRequest and LoginInfo are still to come, unless they
\* have been handled; and so is what tells the client to go.
Answers ==
  /\ server.proto # 1 /\ server.dc # "silent" /\ proto = 1
       => Has(incoming, "StatusResponse")
  /\ server.proto = 3 /\ server.dc \in {"no", "work"} /\ proto # 3
       => Has(incoming, "LoginSuccess")
  /\ server.dc = "login" /\ ~early
       => /\ incoming # <<>> /\ incoming[Len(incoming)].type = "LoginDisconnect"
          /\ proto # 3
  /\ server.dc = "work"
       => incoming # <<>> /\ incoming[Len(incoming)].type = "ErrorCode"

About(p, d) == p.type = "UserInfo" /\ p.id = d
Silent(q, d) == \A i \in 1 .. Len(q) : ~About(q[i], d)
LastSays(q, i, d, here) ==
  /\ i \in 1 .. Len(q) /\ q[i] = UserInfo(d, here)
  /\ \A j \in 1 .. Len(q) : j > i => ~About(q[j], d)

\* Who has signed in is known, or will be when what is on its way is handled:
\* by a packet that is read as UserInfo, since LoginSuccess comes first.
Known(d) ==
  \/ proto = 3 /\ d \in peers /\ Silent(incoming, d)
  \/ \E i \in 1 .. Len(incoming) :
       /\ LastSays(incoming, i, d, TRUE)
       /\ proto = 3 \/ \E k \in 1 .. (i - 1) : incoming[k].type = "LoginSuccess"

\* Who has gone is forgotten, or will be, but for those from earlier.
Forgotten(d) ==
  \/ Silent(incoming, d) /\ (d \in peers => d \in earlier)
  \/ \E i \in 1 .. Len(incoming) : LastSays(incoming, i, d, FALSE)

Roster ==
  /\ proto # 3 => peers \subseteq earlier
  /\ \A d \in Others : server.dc = "no" =>
       /\ server.proto = 3 /\ d \notin server.todo /\ others[d] \in {"online", "back"}
            => Known(d)
       /\ others[d] = "gone" => Forgotten(d)

Inductive ==
  /\ TypeOK /\ SocketAgrees /\ LoginAgain /\ Window /\ Phases /\ Answers /\ Roster

=============================================================================
