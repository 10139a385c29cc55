-------------------------------- MODULE Call --------------------------------
(***************************************************************************)
(* Video calls: the Conductor of each user, between the user, WebRTC, the  *)
(* window's queue of posted messages and the relay of the server.          *)
(*                                                                         *)
(* A client is single-threaded: each message of the window's queue is one  *)
(* action.  Posted callbacks are handled in order, and before any input of *)
(* the user; packets and WebRTC's callbacks come in between.  A user that  *)
(* signs out comes back, if at all, under another id.                      *)
(***************************************************************************)
EXTENDS Naturals, Sequences

CONSTANTS
  Users,       \* ids of the users that are signed in at the start
  NoUser,      \* -1, the peer_id_ of a Conductor without one
  MaxRequests  \* bound: calls each user asks for

ASSUME UsersAssumption == NoUser \notin Users

ASSUME BoundsAssumption == MaxRequests \in [Users -> Nat]

VARIABLES
  me,        \* each Conductor: peer_id_, peer_connection_, the window's ui_
  posted,    \* UI_THREAD_CALLBACK messages in the window's queue
  online,    \* PeerConnectionClient::m_bConnect
  listed,    \* the server has the user in m_Clients
  inbox,     \* what each user has sent and the server has not relayed
  out,       \* what the server has queued for each user
  requests,  \* calls each user may still ask for
  agreed     \* history: pairs of which one has accepted the other's request

vars == <<me, posted, online, listed, inbox, out, requests, agreed>>

(***************************************************************************)
(* Media packets of type 0, 1 and -1; MediaMsg packets with a description  *)
(* or "BYE"; the UserInfo that says that a user is gone.                   *)
(***************************************************************************)
Descriptions == {"offer", "answer"}
Media == {"request", "accept", "refuse", "bye"} \cup Descriptions

(***************************************************************************)
(* WebRTC's PeerConnection, as far as Conductor notices: it is making an   *)
(* offer or an answer, waits for the answer, or has both descriptions.     *)
(***************************************************************************)
NoConnection == "none"
Connection == {"new", "offering", "offered", "answering", "open"}

\* SetRemoteDescription and CreateAnswer: an offer is refused while an own one
\* is out, and may be refused when it comes in the middle of making one, or of
\* a session.
AfterOffer(pc) ==
  IF pc \in {"new", "offering", "open"} THEN {pc, "answering"} ELSE {pc}

AfterAnswer(pc) == IF pc = "offered" THEN "open" ELSE pc

-----------------------------------------------------------------------------
(* Conductor, and the parts of PeerConnectionClient it calls *)

InCall(c) == me[c].pc # NoConnection

IsBusy(c) == me[c].peer # NoUser /\ InCall(c)

\* DeletePeerConnection, and the window that is then shown.
\* Mutant: peer_id_ is kept.
Idle_Mutant(c, ui) == [me EXCEPT ![c].pc = NoConnection, ![c].ui = ui]
Idle(c, ui) ==
  [me EXCEPT ![c] = [peer |-> NoUser, pc |-> NoConnection, ui |-> ui]]

\* InitializePeerConnection shows the streaming window at its end.
Begin(c, d, pc) ==
  [me EXCEPT ![c] = [peer |-> d, pc |-> pc, ui |-> "streaming"]]

\* SendToPeer: SendData drops what is sent without a connection, and the
\* server what is sent to nobody.  Mutant: it is not dropped.
Sent_Mutant(c, d, type) ==
  IF online[c] THEN [inbox EXCEPT ![c] = Append(@, [to |-> d, type |-> type])]
  ELSE inbox
Sent(c, d, type) ==
  IF online[c] /\ d # NoUser
  THEN [inbox EXCEPT ![c] = Append(@, [to |-> d, type |-> type])] ELSE inbox

Post(c, item) == posted' = [posted EXCEPT ![c] = Append(@, item)]

\* PeerConnectionClient::Close: the connection and what was on it are gone.
Close(c) ==
  /\ online' = [online EXCEPT ![c] = FALSE]
  /\ out' = [out EXCEPT ![c] = <<>>]

-----------------------------------------------------------------------------
(* The user.  Input waits until the posted messages have been handled.      *)

AtRest(c) == posted[c] = <<>>

\* The button may still name a peer that has gone.
ConnectToPeer(c, d) ==
  /\ AtRest(c) /\ me[c].ui = "list" /\ c # d /\ requests[c] > 0
  /\ requests' = [requests EXCEPT ![c] = @ - 1]
  /\ inbox' = Sent(c, d, "request")
  /\ UNCHANGED <<me, posted, online, listed, out, agreed>>

\* The list of peers is shown afterwards, connected or not.
DisconnectFromCurrentPeer(c) ==
  /\ AtRest(c) /\ me[c].ui = "streaming"
  /\ inbox' = IF InCall(c) THEN Sent(c, me[c].peer, "bye") ELSE inbox
  /\ me' = Idle(c, "list")
  /\ UNCHANGED <<posted, online, listed, out, requests, agreed>>

\* OnFinalMessage hangs up, then Conductor::Close signs out.  What is still
\* posted to the window is lost with it.
CloseWindow(c) ==
  /\ online[c] \/ InCall(c)
  /\ inbox' = IF me[c].ui = "streaming" /\ InCall(c)
              THEN Sent(c, me[c].peer, "bye") ELSE inbox
  /\ me' = Idle(c, "connect")
  /\ posted' = [posted EXCEPT ![c] = <<>>]
  /\ Close(c)
  /\ UNCHANGED <<listed, requests, agreed>>

-----------------------------------------------------------------------------
(* Posted callbacks: Conductor::UIThreadCallback *)

HandlePosted(c) ==
  /\ posted[c] # <<>>
  /\ posted' = [posted EXCEPT ![c] = Tail(@)]
  /\ UNCHANGED <<online, listed, out, requests, agreed>>

\* PEER_CONNECTION_CLOSED ends whatever call there is by now.
PeerConnectionClosed(c) ==
  /\ HandlePosted(c) /\ Head(posted[c]) = "closed"
  /\ me' = Idle(c, IF online[c] THEN "list" ELSE "connect")
  /\ UNCHANGED inbox

\* SEND_MESSAGE_TO_PEER sends to whoever is peer_id_ by now.
SendMessageToPeer(c) ==
  /\ HandlePosted(c) /\ Head(posted[c]) \in Descriptions
  /\ inbox' = Sent(c, me[c].peer, Head(posted[c]))
  /\ me' = IF InCall(c) THEN me ELSE [me EXCEPT ![c].peer = NoUser]

-----------------------------------------------------------------------------
(* WebRTC has made the description and gathered its candidates: OnSuccess,   *)
(* SetLocalDescription and OnIceGatheringChange, which posts the description. *)

DescriptionReady(c) ==
  /\ \/ /\ me[c].pc = "offering"
        /\ me' = [me EXCEPT ![c].pc = "offered"]
        /\ Post(c, "offer")
     \/ /\ me[c].pc = "answering"
        /\ me' = [me EXCEPT ![c].pc = "open"]
        /\ Post(c, "answer")
  /\ UNCHANGED <<online, listed, inbox, out, requests, agreed>>

-----------------------------------------------------------------------------
(* Packets that arrive: PeerConnectionClient's handlers with the Conductor's *)

Arrived(c, types) ==
  /\ online[c] /\ out[c] # <<>> /\ Head(out[c]).type \in types

Sender(c) == Head(out[c]).from

Taken(c) == out' = [out EXCEPT ![c] = Tail(@)]

\* HandlePacketMedia, type 0: the answer is 1 or -1, and nothing is noted.
ReceiveRequest(c) ==
  /\ Arrived(c, {"request"}) /\ Taken(c)
  /\ inbox' = Sent(c, Sender(c), IF IsBusy(c) THEN "refuse" ELSE "accept")
  /\ agreed' = IF IsBusy(c) THEN agreed ELSE agreed \cup {{c, Sender(c)}}
  /\ UNCHANGED <<me, posted, online, listed, requests>>

\* OnPeerResponse, code 1.  The factory may fail to be created.
\* Mutant: that there is a call already is not looked at.
ReceiveAccept_Mutant(c) ==
  /\ Arrived(c, {"accept"}) /\ Taken(c)
  /\ me' = Begin(c, Sender(c), "offering")
  /\ UNCHANGED <<posted, online, listed, inbox, requests, agreed>>
ReceiveAccept(c) ==
  /\ Arrived(c, {"accept"}) /\ Taken(c)
  /\ me' \in IF InCall(c) THEN {me}
             ELSE {Begin(c, Sender(c), "offering"), Idle(c, me[c].ui)}
  /\ UNCHANGED <<posted, online, listed, inbox, requests, agreed>>

\* OnPeerResponse, code -1: peer_id_ is cleared, in a call or not.
ReceiveRefusal(c) ==
  /\ Arrived(c, {"refuse"}) /\ Taken(c)
  /\ me' = [me EXCEPT ![c].peer = NoUser]
  /\ UNCHANGED <<posted, online, listed, inbox, requests, agreed>>

\* OnPeerDisconnected, after "BYE" or the UserInfo of a user that has gone.
\* Mutant: such a UserInfo is only good for the list of peers.
ReceiveHangUp_Mutant(c) ==
  /\ Arrived(c, {"bye", "offline"}) /\ Taken(c)
  /\ IF Sender(c) = me[c].peer /\ Head(out[c]).type = "bye"
     THEN Post(c, "closed") ELSE UNCHANGED posted
  /\ UNCHANGED <<me, online, listed, inbox, requests, agreed>>
ReceiveHangUp(c) ==
  /\ Arrived(c, {"bye", "offline"}) /\ Taken(c)
  /\ IF Sender(c) = me[c].peer THEN Post(c, "closed") ELSE UNCHANGED posted
  /\ UNCHANGED <<me, online, listed, inbox, requests, agreed>>

\* OnMessageFromPeer without a call: one begins, whatever the description is.
\* Without a factory the client signs out.
ReceiveFirstDescription(c) ==
  /\ Arrived(c, Descriptions) /\ ~InCall(c)
  /\ \/ /\ me' = Begin(c, Sender(c),
                   IF Head(out[c]).type = "offer" THEN "answering" ELSE "new")
        /\ Taken(c) /\ UNCHANGED online
     \/ me' = Idle(c, "connect") /\ Close(c)
  /\ UNCHANGED <<posted, listed, inbox, requests, agreed>>

\* OnMessageFromPeer in a call: one of somebody else is ignored.
ReceiveDescription(c) ==
  /\ Arrived(c, Descriptions) /\ InCall(c) /\ Taken(c)
  /\ \E pc \in IF Sender(c) # me[c].peer THEN {me[c].pc}
               ELSE IF Head(out[c]).type = "offer" THEN AfterOffer(me[c].pc)
               ELSE {AfterAnswer(me[c].pc)} :
       me' = [me EXCEPT ![c].pc = pc]
  /\ UNCHANGED <<posted, online, listed, inbox, requests, agreed>>

Receive(c) ==
  \/ ReceiveRequest(c) \/ ReceiveAccept(c) \/ ReceiveRefusal(c)
  \/ ReceiveHangUp(c) \/ ReceiveFirstDescription(c) \/ ReceiveDescription(c)

\* OnClose: the connection is lost.  The call and the window stay as they are.
OnClose(c) ==
  /\ online[c] /\ Close(c)
  /\ UNCHANGED <<me, posted, listed, inbox, requests, agreed>>

\* HandleErrorCode: the server has told the client to go, behind all else.
HandleErrorCode(c) ==
  /\ online[c] /\ out[c] = <<>>
  /\ me' = Idle(c, "connect") /\ Close(c)
  /\ UNCHANGED <<posted, listed, inbox, requests, agreed>>

-----------------------------------------------------------------------------
(* The server *)

\* What is queued for a client that has gone is lost.
Queued(c, d, type) ==
  IF online[d] THEN [out EXCEPT ![d] = Append(@, [from |-> c, type |-> type])]
  ELSE out

\* ForwardMedia and ForwardMediaMsg: the recipient is looked up in m_Clients.
Relay(c) ==
  /\ listed[c] /\ inbox[c] # <<>>
  /\ inbox' = [inbox EXCEPT ![c] = Tail(@)]
  /\ out' = LET m == Head(inbox[c])
            IN IF listed[m.to] THEN Queued(c, m.to, m.type) ELSE out
  /\ UNCHANGED <<me, posted, online, listed, requests, agreed>>

\* The user's connection is gone: the rest it has sent is lost, and the others
\* are told.
Remove(c) ==
  /\ listed[c] /\ ~online[c]
  /\ listed' = [listed EXCEPT ![c] = FALSE]
  /\ inbox' = [inbox EXCEPT ![c] = <<>>]
  /\ out' = [d \in Users |->
               IF d # c /\ online[d]
               THEN Append(out[d], [from |-> c, type |-> "offline"]) ELSE out[d]]
  /\ UNCHANGED <<me, posted, online, requests, agreed>>

-----------------------------------------------------------------------------
Init ==
  /\ me = [c \in Users |-> [peer |-> NoUser, pc |-> NoConnection, ui |-> "list"]]
  /\ posted = [c \in Users |-> <<>>]
  /\ online = [c \in Users |-> TRUE]
  /\ listed = [c \in Users |-> TRUE]
  /\ inbox = [c \in Users |-> <<>>]
  /\ out = [c \in Users |-> <<>>]
  /\ requests = MaxRequests
  /\ agreed = {}

User(c) ==
  \/ DisconnectFromCurrentPeer(c) \/ CloseWindow(c)
  \/ \E d \in Users : ConnectToPeer(c, d)

Posted(c) == PeerConnectionClosed(c) \/ SendMessageToPeer(c)

Server(c) == Relay(c) \/ Remove(c)

\* Everybody has gone, and nothing is left to be done.
AllGone ==
  /\ \A c \in Users : ~online[c] /\ ~InCall(c) /\ posted[c] = <<>>
  /\ UNCHANGED vars

Next ==
  \/ AllGone
  \/ \E c \in Users :
       \/ User(c) \/ Posted(c) \/ DescriptionReady(c) \/ Receive(c)
       \/ OnClose(c) \/ HandleErrorCode(c) \/ Server(c)

Spec == Init /\ [][Next]_vars

(***************************************************************************)
(* Fairness: a client that has posted messages or packets to handle        *)
(* handles them, and so does the server's tick.  Users and WebRTC promise  *)
(* nothing.                                                                *)
(***************************************************************************)
Fairness ==
  \A c \in Users : WF_vars(Posted(c)) /\ WF_vars(Receive(c)) /\ WF_vars(Server(c))

FairSpec == Spec /\ Fairness

-----------------------------------------------------------------------------
(* Type invariant *)

Conductor ==
  [peer : Users \cup {NoUser}, pc : Connection \cup {NoConnection},
   ui : {"connect", "list", "streaming"}]

TypeOK ==
  /\ me \in [Users -> Conductor]
  /\ posted \in [Users -> Seq({"closed"} \cup Descriptions)]
  /\ online \in [Users -> BOOLEAN]
  /\ listed \in [Users -> BOOLEAN]
  /\ inbox \in [Users -> Seq([to : Users, type : Media])]
  /\ out \in [Users -> Seq([from : Users, type : Media \cup {"offline"}])]
  /\ requests \in [Users -> Nat]
  /\ agreed \in SUBSET (SUBSET Users)

-----------------------------------------------------------------------------
(* Safety *)

InCallWith(c, d) == InCall(c) /\ me[c].peer = d

\* A Conductor without a PeerConnection has no peer (RTC_DCHECK at the head of
\* OnMessageFromPeer), and one with a PeerConnection shows the call, so that
\* the user can hang up: the two, and the window, change in a dozen handlers.
CallShown ==
  \A c \in Users :
    /\ ~InCall(c) => me[c].peer = NoUser
    /\ InCall(c) <=> me[c].ui = "streaming"

\* Everything a user may rely on (module Calls): no call without consent,
\* even with packets that arrive late, and no call that changes its partner.
Consent == INSTANCE Calls WITH
  partner <- [c \in Users |-> me[c].peer],
  busy <- {c \in Users : InCall(c)}

CallsKept == Consent!Spec

(***************************************************************************)
(* The inductive invariant: why there is no call without consent.          *)
(***************************************************************************)

\* What is sent after somebody has agreed.
Agreed == {"accept"} \cup Descriptions

SentBy(c, seq, pairs) ==
  \A i \in 1 .. Len(seq) : seq[i].type \in Agreed => {c, seq[i].to} \in pairs

SentTo(c, seq, pairs) ==
  \A i \in 1 .. Len(seq) : seq[i].type \in Agreed => {c, seq[i].from} \in pairs

ConsentKept ==
  \A c \in Users :
    /\ me[c].peer # NoUser => {c, me[c].peer} \in agreed
    /\ SentBy(c, inbox[c], agreed)
    /\ SentTo(c, out[c], agreed)

Inductive == TypeOK /\ CallShown /\ ConsentKept

(* Stated by the code's assertions, and not what the code does *)

\* OnMessageFromPeer: in a call, RTC_DCHECK(peer_id_ != -1) before a message of
\* somebody else is ignored.
PeerKnown ==
  \A c \in Users :
    Arrived(c, Descriptions) /\ InCall(c) => me[c].peer # NoUser

-----------------------------------------------------------------------------
(* Liveness, under FairSpec *)

\* c's partner has hung up, or has gone.
HungUp(c, d) ==
  \/ ~listed[d]
  \/ \E i \in 1 .. Len(inbox[d]) : inbox[d][i] = [to |-> c, type |-> "bye"]
  \/ \E i \in 1 .. Len(out[c]) : out[c][i] = [from |-> d, type |-> "bye"]

\* A client does not stay in a call with somebody who has hung up or gone, also
\* when the hang-up is lost with the connection, unless it loses its own.  It
\* may have forgotten its partner by then (ReceiveRefusal), and only that.
HangUpArrives ==
  \A c, d \in Users :
    InCallWith(c, d) /\ HungUp(c, d) ~> ~InCallWith(c, d) \/ ~online[c]

=============================================================================
