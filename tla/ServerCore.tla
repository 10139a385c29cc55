----------------------------- MODULE ServerCore -----------------------------
(***************************************************************************)
(* The chat server: cServer, its cClientHandles with their cProtocol_impl, *)
(* and cAuthenticator, as run by five actors:                              *)
(*                                                                         *)
(*   event  the LibEvent thread: accepts connections, queues received      *)
(*          data, and destroys a client whose connection is gone;          *)
(*   tick   cServer::cTickThread: parses the packets, flushes the          *)
(*          answers, promotes, pings and times out each client;            *)
(*   auth   the cAuthenticator thread: answers the queued logins;          *)
(*   main   cRoot::Start's thread: shuts the server down;                  *)
(*   peers  the remote clients: connect, send packets, disconnect.         *)
(*                                                                         *)
(* cServer::m_CSClients is the variable "lock".  A step that takes and     *)
(* releases it is one action guarded by lock = "free".  cClientHandle's    *)
(* m_State and m_Link are not protected by it, so every step that reads or *)
(* writes them next to a step of Destroy() is an action of its own.  The   *)
(* lock of a client's bufferevent is the event thread's from the loss of   *)
(* the connection until Destroy() has returned.                            *)
(***************************************************************************)
EXTENDS Naturals, Sequences

CONSTANTS
  MaxClients,   \* bound: connections accepted (values of s_ClientCount)
  MaxPackets,   \* bound: packets each peer sends
  MaxTicks,     \* silent ticks before the timeout (600 in the code)
  BufferSize,   \* packets that fit in m_ReceivedData (64 KiB in the code)
  Names,        \* user names peers log in with
  NoName,       \* the empty m_Username of a client that has not logged in
  Inbound       \* packets each peer may send

Ids == 1 .. MaxClients

(***************************************************************************)
(* A packet is its type and what the handlers read from it.  StatusRequest *)
(* carries the wanted protocol state; 0 stands for a request that is not   *)
(* p2pchat's or names a state outside 1..2.  "ok" says whether LoginInfo's *)
(* password is the digest AuthFromDBPoll expects; StatusRequest begins     *)
(* with two strings as well, which may be read as name and password.       *)
(* StatusRequest, LoginInfo and KeepAlive share the wire code 0x00; a       *)
(* KeepAlive answers a ping, so its id is at least 2 (m_PingID).  Media is  *)
(* Media or MediaMsg.                                                      *)
(***************************************************************************)
Packet ==
  [type : {"StatusRequest"}, next : 0 .. 2, name : Names \cup {NoName}, ok : BOOLEAN]
    \cup [type : {"LoginInfo"}, name : Names \cup {NoName}, ok : BOOLEAN]
    \cup [type : {"Media"}, to : Ids]
    \cup [type : {"StatusPing", "KeepAlive", "Empty", "Unknown"}]

ASSUME BoundsAssumption ==
  /\ MaxClients \in Nat
  /\ MaxPackets \in Nat
  /\ MaxTicks \in Nat
  /\ BufferSize \in Nat

ASSUME InboundAssumption ==
  /\ NoName \notin Names
  /\ Inbound \in [Ids -> SUBSET Packet]

\* cClientHandle::eState
csConnected == 0
csAuthenticating == 1
csAuthenticated == 2
csWorking == 3
csDestroying == 4
csDestroyed == 5

\* cProtocol_impl::m_State
psStatus == 1
psLogin == 2
psWork == 3

VARIABLES
  handle,     \* the cClientHandle of each id, with its cProtocol_impl
  clients,    \* cServer::m_Clients: its order is the order of the ids
  count,      \* cClientHandle::s_ClientCount
  lock,       \* who holds cServer::m_CSClients
  listening,  \* the listener of m_ServerHandle is enabled
  restart,    \* m_bRestarting and m_RestartEvent: "no", "asked", "signalled"
  accepting,  \* the handle of the connection that is being accepted
  socket,     \* the connection is open, as the event thread sees it
  call,       \* the Destroy() call the event thread and the main thread are in
  tick,       \* where the tick thread is
  queue,      \* cAuthenticator::m_Queue
  auth,       \* where the authenticator thread is
  main,       \* where the main thread is
  budget,     \* packets each peer may still send
  shown,      \* history: names for which a peer sent the right password
  roster      \* history: what each peer was last told of each other one

peerVars == <<socket, budget, shown>>
netVars == <<listening, accepting, count>>
vars == <<handle, clients, count, lock, listening, restart, accepting, socket,
          call, tick, queue, auth, main, budget, shown, roster>>

-----------------------------------------------------------------------------
(* cClientHandle *)

NewHandle ==
  [state |-> csConnected, proto |-> psStatus, name |-> NoName,
   sentDC |-> FALSE, link |-> FALSE, pending |-> FALSE,
   incoming |-> <<>>, received |-> <<>>, ticks |-> 0]

\* SendData: nothing is queued once a disconnect has been sent.
Queue(h) == IF h.sentDC THEN h ELSE [h EXCEPT !.pending = TRUE]

\* Mutant: only the work state has a disconnect packet, and a flag.
Disconnect_WorkOnly(h) ==
  IF h.sentDC \/ h.proto # psWork THEN h
  ELSE [h EXCEPT !.sentDC = TRUE, !.pending = TRUE]

\* SendDisconnect: the protocol has no disconnect packet in the status state.
Disconnect(h) ==
  IF h.sentDC THEN h
  ELSE [h EXCEPT !.sentDC = TRUE,
                 !.pending = @ \/ h.proto \in {psLogin, psWork}]

IsLoggedIn(c) == handle[c].state >= csAuthenticating

\* Authenticate() is only for a client that waits for it.
Awaiting_Mutant(c) == IsLoggedIn(c)
Awaiting(c) == handle[c].state = csAuthenticating

\* SendLoginSuccess: the packet, then the work state.
SendLoginSuccess_Mutant(h) == Queue(h)
SendLoginSuccess(h) == [Queue(h) EXCEPT !.proto = psWork]

Named(n) == {c \in clients : handle[c].name = n}

\* Mutants: only clients at work count; the client itself does not count.
CheckMultiLogin_Working(n) == {c \in Named(n) : handle[c].state = csWorking} = {}
CheckMultiLogin_Others(n) == Named(n) \ {auth.req.id} = {}

\* Every client of m_Clients counts, the one that is logging in included.
CheckMultiLogin(n) == Named(n) = {}

-----------------------------------------------------------------------------
(* cServer::BroadcastUserInfo *)

Offline == "offline"
Unknown == "unknown"

\* What a UserInfo packet about c says to its reader (a state above
\* csWorking is read as "gone").  Mutants: the state is not looked at, or those
\* at work are gone as well.
Report_Mutant(c) == handle[c].name
Report_Working(c) == IF handle[c].state >= csWorking THEN Offline ELSE handle[c].name
Report(c) == IF handle[c].state > csWorking THEN Offline ELSE handle[c].name

\* Whom r is told of when c's information is broadcast.
\* Mutant: c itself is told of nobody.
Subjects_Mutant(c, r) ==
  IF handle[r].sentDC THEN {} ELSE IF r \in clients \ {c} THEN {c} ELSE {}
Subjects(c, r) ==
  IF handle[r].sentDC THEN {}
  ELSE IF r \in clients \ {c} THEN {c}
  ELSE IF r = c /\ IsLoggedIn(c) THEN clients \ {c}
  ELSE {}

\* The broadcast's effect on the outgoing queues and on what peers know.  One
\* step: m_CSClients is held, and a client that changes state in the middle of
\* it broadcasts the change itself.  Mutant: every packet is about c.
BroadcastUserInfo_Own(c) ==
  /\ roster' = [r \in Ids |-> [d \in Ids |->
                  IF d \in Subjects(c, r) THEN Report(c) ELSE roster[r][d]]]
  /\ handle' = [r \in Ids |->
                  [handle[r] EXCEPT !.pending = @ \/ Subjects(c, r) # {}]]
BroadcastUserInfo(c) ==
  /\ roster' = [r \in Ids |-> [d \in Ids |->
                  IF d \in Subjects(c, r) THEN Report(d) ELSE roster[r][d]]]
  /\ handle' = [r \in Ids |->
                  [handle[r] EXCEPT !.pending = @ \/ Subjects(c, r) # {}]]

-----------------------------------------------------------------------------
(* The event thread: cServerHandleImpl::Callback and the link callbacks.   *)

NoCall == [at |-> "none", id |-> 0]

EventIdle == call["event"] = NoCall /\ accepting = 0

\* OnConnectionAccepted builds the handle before it asks for m_CSClients.
AcceptConnection ==
  /\ listening /\ EventIdle /\ count < MaxClients
  /\ count' = count + 1
  /\ accepting' = count + 1
  /\ UNCHANGED <<handle, clients, lock, listening, restart, socket, call, tick,
                 queue, auth, main, budget, shown, roster>>

\* The handle enters m_Clients, without a link.
ListClient ==
  /\ accepting # 0 /\ accepting \notin clients /\ lock = "free"
  /\ clients' = clients \cup {accepting}
  /\ UNCHANGED <<handle, count, accepting, lock, listening, restart, socket, call,
                 tick, queue, auth, main, budget, shown, roster>>

\* OnLinkCreated sets m_Link, whoever holds m_CSClients; the link is enabled.
CreateLink ==
  /\ accepting \in clients
  /\ handle' = [handle EXCEPT ![accepting].link = TRUE]
  /\ socket' = [socket EXCEPT ![accepting] = TRUE]
  /\ accepting' = 0
  /\ UNCHANGED <<clients, count, lock, listening, restart, call, tick, queue, auth,
                 main, budget, shown, roster>>

\* What m_TicksSinceLastPacket may be after its reset: nothing protects it, so
\* the tick thread's increment can overwrite the 0.
ResetTicks(c) ==
  {0} \cup IF tick.pc = "ping" /\ tick.cur = c THEN {handle[c].ticks} ELSE {}

CarriesLogin(p) == p.type \in {"LoginInfo", "StatusRequest"}

\* OnReceivedData: a packet arrives; the tick thread will parse it.
ReceivePacket(c) ==
  /\ EventIdle /\ socket[c] /\ budget[c] > 0
  /\ \E p \in Inbound[c], n \in ResetTicks(c) :
       /\ handle' = [handle EXCEPT ![c].incoming = Append(@, p), ![c].ticks = n]
       /\ shown' = IF CarriesLogin(p) /\ p.ok
                   THEN [shown EXCEPT ![c] = @ \cup {p.name}] ELSE shown
  /\ budget' = [budget EXCEPT ![c] = @ - 1]
  /\ UNCHANGED <<clients, lock, socket, restart, call, tick, queue, auth, main,
                 roster, netVars>>

\* OnRemoteClosed and OnError: drop the link, then call Destroy().
CloseConnection(c) ==
  /\ EventIdle /\ socket[c]
  /\ socket' = [socket EXCEPT ![c] = FALSE]
  /\ handle' = [handle EXCEPT ![c].link = FALSE]
  /\ call' = [call EXCEPT !["event"] = [at |-> "entered", id |-> c]]
  /\ UNCHANGED <<clients, lock, restart, tick, queue, auth, main, budget, shown,
                 roster, netVars>>

-----------------------------------------------------------------------------
(* cClientHandle::Destroy, on the event thread or on the main thread.      *)

\* Under m_CSDestroyingState: only the first caller goes on.
DestroyOnce(t) ==
  /\ call[t].at = "entered"
  /\ LET c == call[t].id
     IN IF handle[c].state >= csDestroying
        THEN call' = [call EXCEPT ![t] = NoCall] /\ UNCHANGED handle
        ELSE /\ handle' = [handle EXCEPT ![c].state = csDestroying]
             /\ call' = [call EXCEPT ![t].at = "destroying"]
  /\ UNCHANGED <<clients, lock, restart, tick, queue, auth, main, roster,
                 peerVars, netVars>>

SetDestroyed(t) ==
  /\ call[t].at = "destroying"
  /\ handle' = [handle EXCEPT ![call[t].id].state = csDestroyed]
  /\ call' = [call EXCEPT ![t].at = "destroyed"]
  /\ UNCHANGED <<clients, lock, restart, tick, queue, auth, main, roster,
                 peerVars, netVars>>

\* BroadcastUserInfo takes m_CSClients, which the main thread already holds.
BroadcastDestroyed(t) ==
  /\ call[t].at = "destroyed"
  /\ lock = IF t = "main" THEN "main" ELSE "free"
  /\ BroadcastUserInfo(call[t].id)
  /\ call' = [call EXCEPT ![t] = NoCall]
  /\ UNCHANGED <<clients, lock, restart, tick, queue, auth, main, peerVars,
                 netVars>>

Destroy(t) == DestroyOnce(t) \/ SetDestroyed(t) \/ BroadcastDestroyed(t)

-----------------------------------------------------------------------------
(* The tick thread: cServer::Tick, TickClients, cClientHandle::ServerTick.  *)

TickUnchanged == <<clients, lock, restart, call, auth, main, peerVars, netVars>>

StartTick ==
  /\ tick.pc = "idle" /\ lock = "free"
  /\ lock' = "tick"
  /\ tick' = [pc |-> "next", todo |-> clients, cur |-> 0]
  /\ UNCHANGED <<handle, clients, restart, call, queue, auth, main, roster,
                 peerVars, netVars>>

NextClient(c) ==
  /\ tick.pc = "next"
  /\ c \in tick.todo /\ \A d \in tick.todo : c <= d

\* IsDestroyed.  Mutants: a client being destroyed may go, or only such a one,
\* or one without a link.
IsDestroyed_Unlinked(c) == ~handle[c].link
IsDestroyed_Early(c) == handle[c].state >= csDestroying
IsDestroyed_Destroying(c) == handle[c].state = csDestroying
IsDestroyed(c) == handle[c].state = csDestroyed

\* A destroyed client leaves m_Clients.
RemoveDestroyed(c) ==
  /\ NextClient(c) /\ IsDestroyed(c)
  /\ clients' = clients \ {c}
  /\ tick' = [tick EXCEPT !.todo = @ \ {c}]
  /\ UNCHANGED <<handle, lock, restart, call, queue, auth, main, roster,
                 peerVars, netVars>>

\* ServerTick takes the data received since the last tick.  Without any, what
\* is left in the protocol's buffer is not looked at; too much is dropped.
TakeIncoming(c) ==
  /\ NextClient(c) /\ ~IsDestroyed(c)
  /\ LET h == handle[c]
         taken == [h EXCEPT !.incoming = <<>>]
         fits == Len(h.received) + Len(h.incoming) <= BufferSize
         parse == h.incoming # <<>> /\ fits
     IN /\ handle' = [handle EXCEPT ![c] =
             IF h.incoming = <<>> THEN h
             ELSE IF fits THEN [taken EXCEPT !.received = @ \o h.incoming]
             ELSE Disconnect(taken)]
        /\ tick' = [pc |-> IF parse THEN "packets" ELSE "flush",
                    todo |-> tick.todo \ {c}, cur |-> c]
  /\ UNCHANGED <<queue, roster, TickUnchanged>>

(* cProtocol_impl::AddReceivedData: one action per packet and handler.      *)

AtPacket(type, proto) ==
  /\ tick.pc = "packets"
  /\ handle[tick.cur].received # <<>>
  /\ Head(handle[tick.cur].received).type = type
  /\ handle[tick.cur].proto = proto

Packet1 == Head(handle[tick.cur].received)
Rest == [handle[tick.cur] EXCEPT !.received = Tail(@)]

\* The handler leaves the client as h and goes on with the next packet.
Continue(h) ==
  /\ handle' = [handle EXCEPT ![tick.cur] = h]
  /\ UNCHANGED <<tick, roster, TickUnchanged>>

\* HandlePacket failed: the packets behind it wait for more data to arrive.
\* Mutant: they are thrown away.
Abandon_Mutant(h) ==
  /\ handle' = [handle EXCEPT ![tick.cur] = [h EXCEPT !.received = <<>>]]
  /\ tick' = [tick EXCEPT !.pc = "flush"]
  /\ UNCHANGED <<queue, roster, TickUnchanged>>
Abandon(h) ==
  /\ handle' = [handle EXCEPT ![tick.cur] = h]
  /\ tick' = [tick EXCEPT !.pc = "flush"]
  /\ UNCHANGED <<queue, roster, TickUnchanged>>

\* The protocol states a peer may ask for.  Mutant: the lower bound is missing.
ValidState_Mutant(n) == n <= psLogin
ValidState(n) == n \in {psStatus, psLogin}

HandleStatusRequest ==
  /\ AtPacket("StatusRequest", psStatus)
  /\ Continue(IF ValidState(Packet1.next)
              THEN Queue([Rest EXCEPT !.proto = Packet1.next])
              ELSE Disconnect(Rest))
  /\ UNCHANGED queue

HandleStatusPing ==
  /\ AtPacket("StatusPing", psStatus)
  /\ Continue(Queue(Rest))
  /\ UNCHANGED queue

\* HandleLogin: m_State is set whatever it was, and the request is queued.
\* Mutant: it is put in front of those that wait.
HandleLogin_Mutant(name, ok, h) ==
  /\ Continue([h EXCEPT !.state = csAuthenticating])
  /\ queue' = <<[id |-> tick.cur, name |-> name, ok |-> ok]>> \o queue
HandleLogin(name, ok, h) ==
  /\ Continue([h EXCEPT !.state = csAuthenticating])
  /\ queue' = Append(queue, [id |-> tick.cur, name |-> name, ok |-> ok])

HandleLoginInfo ==
  /\ AtPacket("LoginInfo", psLogin)
  /\ HandleLogin(Packet1.name, Packet1.ok, Rest)

\* Read as a LoginInfo, a second StatusRequest is a login with its first two
\* strings, and leaves bytes unread (PacketError).
HandleStrayStatusRequest ==
  /\ AtPacket("StatusRequest", psLogin)
  /\ HandleLogin(Packet1.name, Packet1.ok, Disconnect(Rest))

\* The recipient is looked up by id in m_Clients, whatever its state.
HandleMedia ==
  /\ AtPacket("Media", psWork)
  /\ LET to == Packet1.to
     IN handle' = [c \in Ids |->
          LET h == IF c = tick.cur THEN Rest ELSE handle[c]
          IN IF c = to /\ to \in clients THEN Queue(h) ELSE h]
  /\ UNCHANGED <<tick, queue, roster, TickUnchanged>>

\* A KeepAlive answer only updates the measured latency.  In the other states
\* these packets end before the handler has read its fields, so it gives up.
HandleIgnored ==
  /\ \/ \E proto \in {psStatus, psLogin, psWork} : AtPacket("KeepAlive", proto)
     \/ AtPacket("LoginInfo", psStatus)
  /\ Continue(Rest)
  /\ UNCHANGED queue

\* PacketError: read as a KeepAlive, these packets have bytes left over.
HandleWrongSize ==
  /\ AtPacket("StatusRequest", psWork) \/ AtPacket("LoginInfo", psWork)
  /\ Continue(Disconnect(Rest))
  /\ UNCHANGED queue

HandleUnknown ==
  /\ \/ \E proto \in {psStatus, psLogin, psWork} : AtPacket("Unknown", proto)
     \/ AtPacket("StatusPing", psLogin) \/ AtPacket("StatusPing", psWork)
     \/ AtPacket("Media", psStatus) \/ AtPacket("Media", psLogin)
  /\ Abandon(Disconnect(Rest))

\* A packet of length zero has no type: the loop breaks off.
HandleEmpty ==
  /\ \E proto \in {psStatus, psLogin, psWork} : AtPacket("Empty", proto)
  /\ Abandon(Rest)

PacketsDone ==
  /\ tick.pc = "packets" /\ handle[tick.cur].received = <<>>
  /\ Abandon(handle[tick.cur])

AddReceivedData ==
  \/ HandleStatusRequest \/ HandleStatusPing \/ HandleLoginInfo
  \/ HandleStrayStatusRequest \/ HandleMedia \/ HandleIgnored
  \/ HandleWrongSize \/ HandleUnknown \/ HandleEmpty \/ PacketsDone

(* The rest of ServerTick. *)

TickGoto(pc) == tick' = [tick EXCEPT !.pc = pc]

\* The outgoing data is taken even when there is no link to send it on.  A
\* client that has no link yet loses all it should have been told so far.
FlushOutgoing ==
  /\ tick.pc = "flush"
  /\ LET h == handle[tick.cur]
     IN /\ handle' = [handle EXCEPT ![tick.cur].pending = FALSE]
        /\ TickGoto(IF h.link /\ h.pending THEN "send" ELSE "promote")
  /\ roster' = IF tick.cur = accepting
               THEN [roster EXCEPT ![tick.cur] = [d \in Ids |-> Unknown]] ELSE roster
  /\ UNCHANGED <<queue, TickUnchanged>>

\* m_Link->Send(), on the pointer that was not null one step ago.  It may be the
\* one of the test, or null by now, which ends the program; m_ShouldShutdown may
\* be set once the listener is being closed.
SendOnLink ==
  /\ tick.pc = "send"
  /\ \/ TickGoto("write")
     \/ ~listening /\ TickGoto("promote")
     \/ ~handle[tick.cur].link /\ TickGoto("crashed")
  /\ UNCHANGED <<handle, queue, roster, TickUnchanged>>

\* bufferevent_write waits for the lock of the bufferevent.
WriteToLink ==
  /\ tick.pc = "write" /\ call["event"].id # tick.cur
  /\ TickGoto("promote")
  /\ UNCHANGED <<handle, queue, roster, TickUnchanged>>

CheckAuthenticated ==
  /\ tick.pc = "promote"
  /\ TickGoto(IF handle[tick.cur].state = csAuthenticated
              THEN "promoting" ELSE "ping")
  /\ UNCHANGED <<handle, queue, roster, TickUnchanged>>

SetWorking ==
  /\ tick.pc = "promoting"
  /\ handle' = [handle EXCEPT ![tick.cur].state = csWorking]
  /\ TickGoto("ping")
  /\ UNCHANGED <<queue, roster, TickUnchanged>>

\* A ping if one is due (SendKeepAlive drops it before the work state), then
\* the timeout.  The count of silent ticks stops growing past the limit.
PingAndTimeout(due) ==
  /\ tick.pc = "ping"
  /\ LET h == handle[tick.cur]
         pings == due /\ h.state = csWorking /\ h.proto = psWork
         pinged == IF pings THEN Queue(h) ELSE h
         n == IF h.ticks > MaxTicks THEN h.ticks ELSE h.ticks + 1
         counted == [pinged EXCEPT !.ticks = n]
     IN handle' = [handle EXCEPT ![tick.cur] =
                    IF n > MaxTicks THEN Disconnect(counted) ELSE counted]
  /\ tick' = [tick EXCEPT !.pc = "next", !.cur = 0]
  /\ UNCHANGED <<queue, roster, TickUnchanged>>

\* m_bRestarting is reset and m_RestartEvent set.  Mutant: it is only reset.
AnswerRestart_Mutant(r) == "no"
AnswerRestart(r) == IF r = "asked" THEN "signalled" ELSE r

\* m_CSClients is released; the tick thread ends when m_bRestarting was set.
EndTick ==
  /\ tick.pc = "next" /\ tick.todo = {}
  /\ lock' = "free"
  /\ restart' = AnswerRestart(restart)
  /\ TickGoto(IF restart = "asked" THEN "stopped" ELSE "idle")
  /\ UNCHANGED <<handle, clients, call, queue, auth, main, roster, peerVars,
                 netVars>>

ServerTick ==
  \/ AddReceivedData \/ FlushOutgoing \/ SendOnLink \/ WriteToLink
  \/ CheckAuthenticated \/ SetWorking
  \/ \E due \in BOOLEAN : PingAndTimeout(due)

Tick ==
  \/ StartTick \/ ServerTick \/ EndTick
  \/ \E c \in Ids : RemoveDestroyed(c) \/ TakeIncoming(c)

-----------------------------------------------------------------------------
(* cAuthenticator::Execute, cServer::AuthenticateUser and KickUser.         *)

NoRequest == [id |-> 0, name |-> NoName, ok |-> FALSE]
AuthGoto(pc) == auth' = [auth EXCEPT !.pc = pc]
AuthIdle == auth' = [pc |-> "idle", req |-> NoRequest]

TakeRequest ==
  /\ auth.pc = "idle" /\ queue # <<>>
  /\ auth' = [pc |-> "verified", req |-> Head(queue)]
  /\ queue' = Tail(queue)
  /\ UNCHANGED <<handle, clients, lock, restart, call, tick, main, roster,
                 peerVars, netVars>>

\* KickUser: the password was wrong.
KickUser ==
  /\ auth.pc = "verified" /\ ~auth.req.ok /\ lock = "free"
  /\ handle' = IF auth.req.id \in clients
               THEN [handle EXCEPT ![auth.req.id] = Disconnect(@)] ELSE handle
  /\ AuthIdle
  /\ UNCHANGED <<clients, lock, restart, call, tick, queue, main, roster,
                 peerVars, netVars>>

\* AuthenticateUser finds no such client, or one that is not waiting for it.
DropAnswer ==
  /\ auth.pc = "verified" /\ auth.req.ok /\ lock = "free"
  /\ \/ auth.req.id \notin clients
     \/ ~Awaiting(auth.req.id)
  /\ AuthIdle
  /\ UNCHANGED <<handle, clients, lock, restart, call, tick, queue, main, roster,
                 peerVars, netVars>>

\* Authenticate: the name is taken, or the client gets it and is told so.
\* m_CSClients stays held until the broadcast that ends Authenticate.
Authenticate ==
  /\ auth.pc = "verified" /\ auth.req.ok /\ lock = "free"
  /\ LET c == auth.req.id
         n == auth.req.name
         h == handle[c]
     IN /\ c \in clients /\ Awaiting(c)
        /\ IF CheckMultiLogin(n)
           THEN /\ handle' = [handle EXCEPT ![c] =
                      SendLoginSuccess([h EXCEPT !.name = n])]
                /\ lock' = "auth"
                /\ AuthGoto("named")
           ELSE /\ handle' = [handle EXCEPT ![c] = Disconnect(h)]
                /\ UNCHANGED lock
                /\ AuthIdle
  /\ UNCHANGED <<clients, restart, call, tick, queue, main, roster,
                 peerVars, netVars>>

SetAuthenticated ==
  /\ auth.pc = "named"
  /\ handle' = [handle EXCEPT ![auth.req.id].state = csAuthenticated]
  /\ AuthGoto("authenticated")
  /\ UNCHANGED <<clients, lock, restart, call, tick, queue, main, roster,
                 peerVars, netVars>>

BroadcastAuthenticated ==
  /\ auth.pc = "authenticated"
  /\ BroadcastUserInfo(auth.req.id)
  /\ lock' = "free"
  /\ AuthIdle
  /\ UNCHANGED <<clients, restart, call, tick, queue, main, peerVars, netVars>>

\* cAuthenticator::Stop: the thread ends, whatever is still queued.
StopAuthenticator ==
  /\ auth.pc = "idle" /\ main.pc = "done"
  /\ AuthGoto("stopped")
  /\ UNCHANGED <<handle, clients, lock, restart, call, tick, queue, main, roster,
                 peerVars, netVars>>

Authenticator ==
  \/ TakeRequest \/ KickUser \/ DropAnswer \/ Authenticate
  \/ SetAuthenticated \/ BroadcastAuthenticated \/ StopAuthenticator

-----------------------------------------------------------------------------
(* cServer::Shutdown, on the main thread.                                   *)

\* m_ServerHandle->Close(): evconnlistener_disable waits for the listener's
\* callback, so no accepted connection is on its way when the rest begins.  What
\* it does to the links, and waits for, is in Links.
CloseListener ==
  /\ main.pc = "run" /\ accepting = 0
  /\ listening' = FALSE
  /\ main' = [main EXCEPT !.pc = "closing"]
  /\ UNCHANGED <<handle, clients, count, lock, restart, accepting, call, tick, queue,
                 auth, roster, peerVars>>

AskRestart ==
  /\ main.pc = "closing"
  /\ restart' = "asked"
  /\ main' = [main EXCEPT !.pc = "wait"]
  /\ UNCHANGED <<handle, clients, lock, call, tick, queue, auth, roster, peerVars,
                 netVars>>

\* m_RestartEvent.Wait() returns; m_CSClients is taken until the end.
TickThreadEnded ==
  /\ main.pc = "wait" /\ restart = "signalled" /\ lock = "free"
  /\ lock' = "main"
  /\ main' = [pc |-> "clients", todo |-> clients]
  /\ UNCHANGED <<handle, clients, restart, call, tick, queue, auth, roster,
                 peerVars, netVars>>

DestroyNext(c) ==
  /\ main.pc = "clients" /\ call["main"] = NoCall
  /\ c \in main.todo /\ \A d \in main.todo : c <= d
  /\ main' = [main EXCEPT !.todo = @ \ {c}]
  /\ call' = [call EXCEPT !["main"] = [at |-> "entered", id |-> c]]
  /\ handle' = [handle EXCEPT ![c].link = FALSE]
  /\ UNCHANGED <<clients, lock, restart, tick, queue, auth, roster, peerVars,
                 netVars>>

ClearClients ==
  /\ main.pc = "clients" /\ main.todo = {} /\ call["main"] = NoCall
  /\ clients' = {}
  /\ lock' = "free"
  /\ main' = [main EXCEPT !.pc = "done"]
  /\ UNCHANGED <<handle, restart, call, tick, queue, auth, roster, peerVars,
                 netVars>>

\* The server has shut down: nothing is left to do.
ServerStopped ==
  /\ main.pc = "done" /\ auth.pc = "stopped"
  /\ UNCHANGED vars

Shutdown ==
  \/ CloseListener \/ AskRestart \/ TickThreadEnded \/ ClearClients
  \/ \E c \in Ids : DestroyNext(c)

\* What stops the server for good: the event thread, with the lock of the
\* bufferevent, waits for m_CSClients, and the tick thread, with that, for the
\* bufferevent (the one deadlock of Links); or the program has crashed.
Stuck ==
  \/ tick.pc = "write" /\ call["event"] = [at |-> "destroyed", id |-> tick.cur]
  \/ tick.pc = "crashed"

ServerStuck ==
  /\ Stuck
  /\ UNCHANGED vars

-----------------------------------------------------------------------------
Init ==
  /\ handle = [c \in Ids |-> NewHandle]
  /\ clients = {}
  /\ count = 0
  /\ lock = "free"
  /\ listening = TRUE
  /\ restart = "no"
  /\ accepting = 0
  /\ socket = [c \in Ids |-> FALSE]
  /\ call = [t \in {"event", "main"} |-> NoCall]
  /\ tick = [pc |-> "idle", todo |-> {}, cur |-> 0]
  /\ queue = <<>>
  /\ auth = [pc |-> "idle", req |-> NoRequest]
  /\ main = [pc |-> "run", todo |-> {}]
  /\ budget = [c \in Ids |-> MaxPackets]
  /\ shown = [c \in Ids |-> {}]
  /\ roster = [c \in Ids |-> [d \in Ids |-> Unknown]]

Peers ==
  \/ AcceptConnection \/ ListClient \/ CreateLink
  \/ \E c \in Ids : ReceivePacket(c) \/ CloseConnection(c)

Next ==
  \/ Peers \/ Tick \/ Authenticator \/ Shutdown \/ ServerStopped \/ ServerStuck
  \/ \E t \in {"event", "main"} : Destroy(t)

Spec == Init /\ [][Next]_vars

(***************************************************************************)
(* Fairness: the threads run.  A thread that can take m_CSClients again    *)
(* and again takes it some time (the tick thread sleeps out the rest of    *)
(* its 50 ms without it), hence strong fairness.  Peers promise nothing,   *)
(* and nobody has to ask for a shutdown.                                   *)
(***************************************************************************)
Fairness ==
  /\ SF_vars(Tick)
  /\ SF_vars(Authenticator)
  /\ SF_vars(Destroy("event"))
  /\ SF_vars(Destroy("main") \/ AskRestart \/ TickThreadEnded \/ ClearClients
               \/ \E c \in Ids : DestroyNext(c))

FairSpec == Spec /\ Fairness


-----------------------------------------------------------------------------
(* Type invariant *)

Name == Names \cup {NoName}
Thread == {"event", "main"}
Request == [id : Ids, name : Name, ok : BOOLEAN]

\* A thread that works on a client or on a request has one.
TickPosition ==
  [pc : {"idle", "next", "stopped"}, todo : SUBSET Ids, cur : {0}]
    \cup [pc : {"packets", "flush", "send", "write", "promote", "promoting", "ping",
                "crashed"},
          todo : SUBSET Ids, cur : Ids]

AuthPosition ==
  [pc : {"idle", "stopped"}, req : {NoRequest}]
    \cup [pc : {"verified", "named", "authenticated"}, req : Request]

DestroyCall ==
  {NoCall} \cup [at : {"entered", "destroying", "destroyed"}, id : Ids]

Handle ==
  [state : csConnected .. csDestroyed, proto : {psStatus, psLogin, psWork},
   name : Name, sentDC : BOOLEAN, link : BOOLEAN, pending : BOOLEAN,
   incoming : Seq(Packet), received : Seq(Packet), ticks : Nat]

TypeOK ==
  /\ handle \in [Ids -> Handle]
  /\ clients \subseteq Ids
  /\ count \in 0 .. MaxClients
  /\ lock \in {"free", "tick", "auth", "main"}
  /\ listening \in BOOLEAN
  /\ restart \in {"no", "asked", "signalled"}
  /\ accepting \in Ids \cup {0}
  /\ socket \in [Ids -> BOOLEAN]
  /\ call \in [Thread -> DestroyCall]
  /\ tick \in TickPosition
  /\ queue \in Seq(Request)
  /\ auth \in AuthPosition
  /\ main \in [pc : {"run", "closing", "wait", "clients", "done"}, todo : SUBSET Ids]
  /\ budget \in [Ids -> 0 .. MaxPackets]
  /\ shown \in [Ids -> SUBSET Name]
  /\ roster \in [Ids -> [Ids -> Name \cup {Offline, Unknown}]]

-----------------------------------------------------------------------------
(* Safety *)

Listed(c) == c <= count /\ (c # accepting \/ c \in clients)
HasName(c) == handle[c].name # NoName
Admitted(c) == handle[c].state \in {csAuthenticated, csWorking}

\* No two clients of m_Clients are logged in under one name, however logins,
\* disconnects and the answers of the authenticator interleave
\* (CheckMultiLogin and the assignment of m_Username share one lock).
UniqueNames ==
  \A c, d \in clients :
    c # d /\ HasName(c) => handle[c].name # handle[d].name

\* The server admits a client only under a name whose password that very
\* client has sent, and never under the empty name: an answer reaches the
\* client that asked, although it is delivered by id and later.
AdmittedProved ==
  \A c \in Ids : Admitted(c) =>
    HasName(c) /\ handle[c].name \in shown[c]

\* SendLoginSuccess finds the protocol in the login state (its ASSERT), and
\* an admitted client's protocol is in the work state, where pings are sent:
\* m_State and the protocol's state change on different threads.
PhasesAgree ==
  \A c \in Ids :
    /\ handle[c].state = csAuthenticating /\ ~(auth.pc = "named" /\ auth.req.id = c)
         => handle[c].proto = psLogin
    /\ Admitted(c) => handle[c].proto = psWork

\* A client that has left m_Clients stays destroyed (the destructor's
\* ASSERT): no thread that still knows its id brings it back.
RemovedIsDestroyed ==
  main.pc # "done" =>
    \A c \in Ids : Listed(c) /\ c \notin clients => handle[c].state = csDestroyed

\* Two connected, admitted clients know each other by name, whichever of them
\* logged in first (unless the one that should know has been told to go).
Presence ==
  \A c, d \in clients :
    /\ c # d /\ socket[c] /\ socket[d] /\ Admitted(c) /\ Admitted(d)
    /\ ~handle[c].sentDC
    /\ ~(auth.pc = "authenticated" /\ auth.req.id \in {c, d})
    => roster[c][d] = handle[d].name

\* Once a client has left m_Clients and its Destroy() has returned, nobody who
\* listens still believes it is there.
NoGhostOfRemoved ==
  \A d \in Ids : \A c \in clients :
    /\ Listed(d) /\ d \notin clients /\ call["event"].id # d
    /\ ~handle[c].sentDC
    => roster[c][d] \in {Offline, Unknown}

\* A name, once given, is kept: a second login of the same client, or a late
\* answer to an earlier one, never renames it.
NameKept ==
  [][\A c \in Ids : HasName(c) => handle'[c].name = handle[c].name]_vars

\* What a peer sent is parsed whole and in order, although the event thread
\* appends to it while the tick thread takes it: data is dropped only together
\* with telling the client to go, and then all that was not parsed yet stays.
Stream(c) == handle[c].received \o handle[c].incoming
StreamKept ==
  [][\A c \in Ids :
       \/ UNCHANGED Stream(c)
       \/ \E p \in Inbound[c] : Stream(c)' = Append(Stream(c), p)
       \/ Stream(c) # <<>> /\ Stream(c)' = Tail(Stream(c))
       \/ handle'[c].sentDC /\ Stream(c)' = handle[c].received]_vars

\* A name that anybody has been told of a client is one whose password that
\* client has sent: nobody is ever shown to others as somebody else.
RosterProved ==
  \A c, d \in Ids :
    roster[c][d] \notin {NoName, Offline, Unknown} => roster[c][d] \in shown[d]

-----------------------------------------------------------------------------
(* What the server promises to others *)

Dir == INSTANCE Directory
         WITH Clients <- Ids,
              joined <- {c \in Ids : Listed(c)},
              members <- clients,
              lost <- {c \in Ids : Listed(c) /\ c # accepting /\ ~socket[c]},
              name <- [c \in Ids |-> handle[c].name],
              told <- roster,
              dismissed <- {c \in Ids : handle[c].sentDC},
              closing <- main.pc \in {"clients", "done"}

\* To its users it is a Directory: who is there, under which name, and what the
\* others are told, whichever threads bring it about in whatever order.
IsDirectory == Dir!Spec

List == INSTANCE ClientList
          WITH Clients <- Ids,
               listed <- clients,
               entering <- {accepting} \cap clients,
               linked <- {c \in Ids : handle[c].link},
               dead <- {c \in Ids : handle[c].state >= csDestroying},
               holder <- lock

\* The threads treat m_Clients as Links, which has them in other detail, relies
\* on: a client enters it without a link, gets one before anything can end it,
\* loses it for good, and leaves the list dead and under m_CSClients.
KeepsClientList == List!Spec

Mail == INSTANCE Mailbox
          WITH Tasks <- Request, NoTask <- NoRequest,
               pending <- queue, current <- auth.req, open <- auth.pc # "stopped"

\* Logins are answered in the order they came, one at a time, as Mailbox has it,
\* which Worker, the authenticator's thread in detail, implements.
AnswersInOrder == [][Mail!Next]_(Mail!mailVars)

-----------------------------------------------------------------------------
(***************************************************************************)
(* The inductive invariant: why names are unique, admissions proved and    *)
(* phases in agreement.                                                    *)
(***************************************************************************)

\* An id not yet given out is nobody's, and nothing happens to a client before it
\* has its link.
Untouched(c) ==
  /\ ~socket[c] /\ ~handle[c].link /\ ~HasName(c) /\ handle[c].state = csConnected
  /\ handle[c].received = <<>> /\ handle[c].incoming = <<>>

Fresh ==
  /\ accepting <= count
  /\ \A c \in Ids :
       /\ c > count => c \notin clients
       /\ c > count \/ c = accepting => Untouched(c)

\* Between setting the protocol's state and m_State the authenticator is at
\* that very client; the tick thread promotes only clients that have a name.
Phases ==
  /\ \A c \in Ids :
       /\ HasName(c) <=> handle[c].proto = psWork
       /\ handle[c].state = csAuthenticating
            => \/ handle[c].proto = psLogin
               \/ auth.pc = "named" /\ auth.req.id = c
       /\ Admitted(c) => HasName(c)
  /\ auth.pc \in {"named", "authenticated"} => HasName(auth.req.id)
  /\ tick.pc = "promoting" => HasName(tick.cur)

\* A correct password stays the client's own from the wire to the name.
Vouched(names, seq) ==
  \A i \in 1 .. Len(seq) :
    CarriesLogin(seq[i]) /\ seq[i].ok => seq[i].name \in names

Proved ==
  /\ \A c \in Ids :
       /\ HasName(c) => handle[c].name \in shown[c]
       /\ Vouched(shown[c], handle[c].incoming)
       /\ Vouched(shown[c], handle[c].received)
  /\ \A i \in 1 .. Len(queue) :
       queue[i].ok => queue[i].name \in shown[queue[i].id]
  /\ auth.pc = "verified" /\ auth.req.ok
       => auth.req.name \in shown[auth.req.id]

\* m_CSClients has one owner, and what its owner works on is in m_Clients.
Locks ==
  /\ lock = "tick" <=> tick.pc \notin {"idle", "stopped"}
  /\ lock = "auth" <=> auth.pc \in {"named", "authenticated"}
  /\ lock = "main" <=> main.pc = "clients"
  /\ lock = "tick" => tick.todo \subseteq clients /\ tick.cur \in clients \cup {0}
  /\ lock = "auth" => auth.req.id \in clients

\* Connections, and calls of Destroy(), are those of listed clients; while a
\* connection is accepted none is lost, and during Shutdown none is accepted.
Connections ==
  /\ \A c \in Ids : socket[c] => Listed(c)
  /\ \A t \in Thread : call[t] # NoCall => Listed(call[t].id)
  /\ call["event"] # NoCall => ~socket[call["event"].id] /\ accepting = 0
  /\ call["main"] # NoCall => main.pc = "clients" /\ call["main"].id \in clients
  /\ main.pc = "clients" => main.todo \subseteq clients
  /\ main.pc # "run" => ~listening /\ accepting = 0
  /\ main.pc = "done" => clients = {}

Inductive ==
  TypeOK /\ Fresh /\ UniqueNames /\ Phases /\ Proved /\ Locks /\ Connections

(***************************************************************************)
(* The invariant behind the roster: why removed clients stay destroyed,    *)
(* are forgotten by all, and connected ones are known to each other.       *)
(***************************************************************************)

\* Between SetDestroyed and its broadcast the peers are not yet told of d.
Untold(d) == \E t \in Thread : call[t] = [at |-> "destroyed", id |-> d]

\* What peers were told: nothing before they were listed, and of a destroyed
\* client, once its broadcast is over, that it is gone.  A client about to be
\* promoted has been admitted, unless its connection is lost.
Told ==
  /\ tick.pc = "promoting" => Admitted(tick.cur) \/ ~socket[tick.cur]
  /\ \A c, d \in Ids : ~Listed(c) => roster[c][d] = Unknown
  /\ \A d \in Ids : handle[d].state = csDestroyed /\ ~Untold(d) =>
       \A c \in clients \ {d} :
         ~handle[c].sentDC => roster[c][d] \in {Offline, Unknown}

\* The end of a client: it leaves m_Clients on its way to being destroyed, and
\* while the server runs it is destroyed only without a connection.  Destroy() is
\* called without a link, a dead client has none, and Shutdown has called
\* Destroy() for whom it drops.
Lives ==
  /\ \A c \in Ids :
       /\ Listed(c) /\ c \notin clients => handle[c].state >= csDestroying
       /\ handle[c].state >= csDestroying
            => /\ ~handle[c].link
               /\ socket[c] => main.pc \in {"clients", "done"}
  /\ \A t \in Thread : call[t] # NoCall => ~handle[call[t].id].link
  /\ main.pc = "clients" =>
       \A c \in clients \ main.todo :
         \/ handle[c].state >= csDestroying
         \/ call["main"] = [at |-> "entered", id |-> c]

(* Stated by the code's comments, and not what the code does *)

\* ClientHandle.h on m_Link: m_CSOutgoingData "is used to synchronize access
\* for sending data", so Send() is never called on a link just reset.
LinkSynchronized == tick.pc = "send" => handle[tick.cur].link

-----------------------------------------------------------------------------
(* Liveness, under FairSpec *)

\* Every login is answered, unless the server is stuck: the client is admitted,
\* told to go, or destroyed.
LoginAnswered ==
  \A c \in Ids :
    handle[c].state = csAuthenticating
      ~> handle[c].state # csAuthenticating \/ handle[c].sentDC \/ Stuck

\* Shutdown() returns, unless the server is stuck: the tick thread sees
\* m_bRestarting, signals and ends.
ShutdownReturns == main.pc = "closing" ~> main.pc = "done" \/ Stuck

\* A destroyed client is taken out of m_Clients while the server runs, unless it
\* is stuck, or is brought back to life by a thread in the middle of its login.
DestroyedLeaves ==
  \A c \in Ids :
    c \in clients /\ handle[c].state = csDestroyed
      ~> \/ c \notin clients \/ Admitted(c) \/ Awaiting(c)
         \/ main.pc = "done" \/ Stuck

=============================================================================
