-------------------------------- MODULE Links --------------------------------
(***************************************************************************)
(* The server's TCP links: who keeps a cTCPLinkImpl alive, which locks are *)
(* held while its callbacks run, and how it is shut down.  Three threads:  *)
(*                                                                         *)
(*   event  LibEvent's loop: accepts, writes out what is queued, and runs  *)
(*          EventCallback when a connection is gone;                       *)
(*   tick   cServer::TickClients: sends what clients have queued;          *)
(*   main   cServer::Shutdown: closes the listener, shuts the links down,  *)
(*          stops the tick thread and destroys the clients.                *)
(*                                                                         *)
(* Two kinds of locks matter: cServer::m_CSClients, and the lock of each   *)
(* bufferevent, which LibEvent holds while it runs a callback and which    *)
(* every call on the bufferevent takes.  The other critical sections       *)
(* (m_CS of the listener, m_CSOutgoingData, m_CSDestroyingState) are never *)
(* held while another lock is asked for: they make a step atomic.          *)
(*                                                                         *)
(* What is in a packet, logins and the states of a client are ServerCore's *)
(* subject; here a client is one of m_Clients, destroyed or not, with a    *)
(* link.  The code loads m_Link twice to send; what the second load can    *)
(* find is ServerCore's LinkSynchronized, here there is one load.          *)
(***************************************************************************)
EXTENDS Naturals

CONSTANTS
  Links,   \* connections, each with its cTCPLinkImpl and its cClientHandle
  NoLink,  \* no connection
  MaxSends \* bound: how often the tick thread sends on each link, by link

ASSUME LinksAssumption == NoLink \notin Links

ASSUME BoundsAssumption == MaxSends \in [Links -> Nat]

VARIABLES
  refs,       \* the shared_ptrs to each link, by the name of what holds them
  buffer,     \* each bufferevent and its socket
  owner,      \* the thread that holds each bufferevent's lock
  peer,       \* what the socket reports about the other end
  sends,      \* sends the tick thread may still make on each link
  listening,  \* the listener is enabled
  clients,    \* cServer::m_Clients
  dead,       \* clients whose m_State is csDestroying or csDestroyed
  csClients,  \* the thread that holds m_CSClients
  restarting, \* m_bRestarting
  event,      \* where the event thread is, and at which link
  tick,       \* where the tick thread is
  main        \* where the main thread is

linkVars == <<refs, buffer, owner, sends>>
serverVars == <<clients, dead, csClients, restarting>>
vars == <<refs, buffer, owner, peer, sends, listening, clients, dead, csClients,
          restarting, event, tick, main>>

Free == "free"

(***************************************************************************)
(* A link is destroyed with the last shared_ptr: its own m_Self, the       *)
(* listener's m_Connections, the client's m_Link, and the locals: Link of  *)
(* the listener's Callback, Conns of Close() and Self of EventCallback.    *)
(***************************************************************************)
Holder == {"m_Self", "m_Connections", "m_Link", "Link", "Conns", "Self"}

Alive(l) == refs[l] # {}

\* A thread that drops the last shared_ptr runs ~cTCPLinkImpl, which takes the
\* bufferevent's lock.
Drop(l, holder) ==
  /\ refs' = [refs EXCEPT ![l] = @ \ {holder}]
  /\ refs[l] = {holder} => owner[l] = Free

\* bufferevent_socket_new: writing is enabled, reading is not.
NewBuffer ==
  [out |-> 0, owed |-> 0, write |-> TRUE, pending |-> FALSE, read |-> FALSE,
   should |-> FALSE, fin |-> FALSE]

\* bufferevent_enable: LibEvent reads, and writes once it can, even nothing.
Enabled(b) == [b EXCEPT !.write = TRUE, !.pending = TRUE, !.read = TRUE]

\* bufferevent_write: the write event is added if writing is enabled.
Queued(b) == [b EXCEPT !.out = @ + 1, !.pending = b.write]

\* n pieces have gone out, the oldest first.  "owed" is history: what was
\* queued when Shutdown() was called and has not gone out.
Written(b, n) ==
  [b EXCEPT !.out = @ - n, !.owed = IF n < @ THEN @ - n ELSE 0,
            !.pending = b.out # n]

\* bufferevent_disable(EV_WRITE)
WriteDisabled(b) == [b EXCEPT !.write = FALSE, !.pending = FALSE]

\* WriteCallback, called when nothing is left to write; DoActualShutdown runs
\* under the lock here.
WriteCallback(b) ==
  IF b.out = 0 /\ b.should THEN [WriteDisabled(b) EXCEPT !.fin = TRUE] ELSE b

-----------------------------------------------------------------------------
(* The other end: the socket reports a FIN or a reset.                      *)

PeerLeaves(l) ==
  /\ peer[l] \in {"open", "closed"}
  /\ \E p \in {"closed", "reset"} \ {peer[l]} : peer' = [peer EXCEPT ![l] = p]
  /\ UNCHANGED <<listening, event, tick, main, linkVars, serverVars>>

-----------------------------------------------------------------------------
(* The event thread *)

EventAt(pc, l) == event' = [pc |-> pc, link |-> l]
EventIdle == event.pc = "idle"

AcceptConnection(l) ==
  /\ listening /\ EventIdle /\ peer[l] = "none"
  /\ EventAt("accepting", l)
  /\ UNCHANGED <<peer, listening, tick, main, linkVars, serverVars>>

\* OnConnectionAccepted lists the client.
ListClient ==
  /\ event.pc = "accepting" /\ csClients = Free
  /\ clients' = clients \cup {event.link}
  /\ EventAt("listed", event.link)
  /\ UNCHANGED <<peer, listening, dead, csClients, restarting, tick, main, linkVars>>

\* Callback, which no longer has m_CSClients, makes the link, lists it and hands
\* it to the client: the tick thread may send on it from here on.
CreateLink ==
  /\ event.pc = "listed"
  /\ refs' = [refs EXCEPT ![event.link] = {"Link", "m_Connections", "m_Link"}]
  /\ buffer' = [buffer EXCEPT ![event.link] = NewBuffer]
  /\ peer' = [peer EXCEPT ![event.link] = "open"]
  /\ EventAt("created", event.link)
  /\ UNCHANGED <<owner, sends, listening, tick, main, serverVars>>

\* Link->Enable(Link), and Callback returns.
EnableLink ==
  /\ event.pc = "created"
  /\ refs' = [refs EXCEPT ![event.link] = (@ \ {"Link"}) \cup {"m_Self"}]
  /\ buffer' = [buffer EXCEPT ![event.link] = Enabled(@)]
  /\ EventAt("idle", NoLink)
  /\ UNCHANGED <<owner, peer, sends, listening, tick, main, serverVars>>

\* The listener's Callback, which ends before Close() goes on.
InAccept == {"accepting", "listed", "created"}
Accept == ListClient \/ CreateLink \/ EnableLink

\* LibEvent has work for a link; its lock is taken.
Dispatches(l) == EventIdle /\ Alive(l) /\ owner[l] = Free

SocketFails(l) == buffer[l].fin \/ peer[l] = "reset"

\* bufferevent_writecb
WritesOut(l) ==
  /\ Dispatches(l) /\ buffer[l].pending
  /\ \E n \in 0 .. buffer[l].out :
       /\ n = 0 => buffer[l].out = 0
       /\ n > 0 => ~SocketFails(l)
       /\ LET b == Written(buffer[l], n)
          IN buffer' = [buffer EXCEPT ![l] = IF b.out = 0 THEN WriteCallback(b) ELSE b]
  /\ UNCHANGED <<refs, owner, peer, sends, listening, event, tick, main, serverVars>>

\* EventCallback begins: it copies m_Self, and would use a null one.
BeginEventCallback(l) ==
  /\ owner' = [owner EXCEPT ![l] = "event"]
  /\ IF "m_Self" \in refs[l]
     THEN /\ refs' = [refs EXCEPT ![l] = @ \cup {"Self"}]
          /\ EventAt("callback", l)
     ELSE UNCHANGED refs /\ EventAt("crashed", l)
  /\ UNCHANGED <<peer, sends, listening, tick, main, serverVars>>

\* bufferevent_writecb and bufferevent_readcb find the connection gone.
WriteFails(l) ==
  /\ Dispatches(l) /\ buffer[l].pending /\ buffer[l].out > 0 /\ SocketFails(l)
  /\ buffer' = [buffer EXCEPT ![l] = WriteDisabled(@)]
  /\ BeginEventCallback(l)

ReadEnds(l) ==
  /\ Dispatches(l) /\ buffer[l].read /\ peer[l] \in {"closed", "reset"}
  /\ buffer' = [buffer EXCEPT ![l].read = FALSE]
  /\ BeginEventCallback(l)

\* OnRemoteClosed and OnError.  Mutant: the client keeps its m_Link.
DropLink_Mutant ==
  /\ event.pc = "callback" /\ EventAt("closed", event.link)
  /\ UNCHANGED <<peer, listening, tick, main, linkVars, serverVars>>
DropLink ==
  /\ event.pc = "callback"
  /\ Drop(event.link, "m_Link")
  /\ EventAt("closed", event.link)
  /\ UNCHANGED <<buffer, owner, peer, sends, listening, tick, main, serverVars>>

\* cClientHandle::Destroy, by whoever comes first.
DestroyOnce ==
  /\ event.pc = "closed"
  /\ dead' = dead \cup {event.link}
  /\ EventAt(IF event.link \in dead THEN "remove" ELSE "broadcast", event.link)
  /\ UNCHANGED <<peer, listening, clients, csClients, restarting, tick, main,
                 linkVars>>

\* cServer::BroadcastUserInfo takes m_CSClients and queues reports.
\* Mutant: it goes over m_Clients without.
Broadcast_Mutant ==
  /\ event.pc = "broadcast" /\ EventAt("remove", event.link)
  /\ UNCHANGED <<peer, listening, tick, main, linkVars, serverVars>>
Broadcast ==
  /\ event.pc = "broadcast" /\ csClients = Free
  /\ EventAt("remove", event.link)
  /\ UNCHANGED <<peer, listening, tick, main, linkVars, serverVars>>

\* What is dropped at the end of EventCallback.
\* Mutants: the listener, or the link itself, keeps its shared_ptr.
RemoveLink_Unlisted == {"m_Self", "Self"}
RemoveLink_Leaked == {"m_Connections", "Self"}
RemoveLink == {"m_Connections", "m_Self", "Self"}

EndEventCallback ==
  /\ event.pc = "remove"
  /\ refs' = [refs EXCEPT ![event.link] = @ \ RemoveLink]
  /\ owner' = [owner EXCEPT ![event.link] = Free]
  /\ EventAt("idle", NoLink)
  /\ UNCHANGED <<buffer, peer, sends, listening, tick, main, serverVars>>

Callback == DropLink \/ DestroyOnce \/ Broadcast \/ EndEventCallback
Ready(l) == WritesOut(l) \/ WriteFails(l) \/ ReadEnds(l)

-----------------------------------------------------------------------------
(* The tick thread: cServer::TickClients, cClientHandle::ServerTick         *)

TickGoto(pc, l) == tick' = [pc |-> pc, link |-> l, todo |-> tick.todo]

StartTick ==
  /\ tick.pc = "idle" /\ csClients = Free
  /\ csClients' = "tick"
  /\ tick' = [pc |-> "next", link |-> NoLink, todo |-> clients]
  /\ UNCHANGED <<peer, listening, clients, dead, restarting, event, main, linkVars>>

\* A destroyed client leaves m_Clients.  One without anything to send, or
\* without a link, is done with.  Mutant: one without a link leaves.
TickClient_Unlinked(l) ==
  /\ tick.pc = "next" /\ l \in tick.todo
  /\ clients' = IF "m_Link" \notin refs[l] THEN clients \ {l} ELSE clients
  /\ tick' = [tick EXCEPT !.todo = @ \ {l}]
  /\ UNCHANGED <<peer, listening, dead, csClients, restarting, event, main, linkVars>>
TickClient(l) ==
  /\ tick.pc = "next" /\ l \in tick.todo
  /\ clients' = IF l \in dead THEN clients \ {l} ELSE clients
  /\ tick' = [tick EXCEPT !.todo = @ \ {l}]
  /\ UNCHANGED <<peer, listening, dead, csClients, restarting, event, main, linkVars>>

\* m_Link->Send: the pointer is loaded, and no shared_ptr kept.
LoadLink(l) ==
  /\ tick.pc = "next" /\ l \in tick.todo \ dead
  /\ sends[l] > 0 /\ "m_Link" \in refs[l]
  /\ sends' = [sends EXCEPT ![l] = @ - 1]
  /\ tick' = [pc |-> "send", link |-> l, todo |-> tick.todo \ {l}]
  /\ UNCHANGED <<refs, buffer, owner, peer, listening, event, main, serverVars>>

\* cTCPLinkImpl::Send looks at m_ShouldShutdown first.
CheckShutdown ==
  /\ tick.pc = "send"
  /\ IF buffer[tick.link].should THEN TickGoto("next", NoLink)
                                 ELSE TickGoto("write", tick.link)
  /\ UNCHANGED <<peer, listening, event, main, linkVars, serverVars>>

Send ==
  /\ tick.pc = "write" /\ owner[tick.link] = Free
  /\ buffer' = [buffer EXCEPT ![tick.link] = Queued(@)]
  /\ TickGoto("next", NoLink)
  /\ UNCHANGED <<refs, owner, peer, sends, listening, event, main, serverVars>>

\* cServer::Tick sees m_bRestarting, signals m_RestartEvent and ends the thread.
\* Mutant: it does not look.
AnswerRestart_Mutant == "idle"
AnswerRestart == IF restarting THEN "stopped" ELSE "idle"

EndTick ==
  /\ tick.pc = "next" /\ tick.todo = {}
  /\ csClients' = Free
  /\ restarting' = FALSE
  /\ TickGoto(AnswerRestart, NoLink)
  /\ UNCHANGED <<peer, listening, clients, dead, event, main, linkVars>>

Tick ==
  \/ StartTick \/ CheckShutdown \/ Send \/ EndTick
  \/ \E l \in Links : TickClient(l) \/ LoadLink(l)

-----------------------------------------------------------------------------
(* The main thread: cServer::Shutdown, cServerHandleImpl::Close             *)

MainAt(pc, l, todo) == main' = [pc |-> pc, link |-> l, todo |-> todo]

\* evconnlistener_disable waits for the listener's callback; then the links
\* are taken over.  Mutant: under m_CSClients.
CloseListener_Locked ==
  /\ main.pc = "run" /\ event.pc \notin InAccept /\ csClients = Free
  /\ listening' = FALSE
  /\ csClients' = "main"
  /\ LET Conns == {l \in Links : "m_Connections" \in refs[l]}
     IN /\ refs' = [l \in Links |->
                      IF l \in Conns THEN (refs[l] \ {"m_Connections"}) \cup {"Conns"}
                      ELSE refs[l]]
        /\ MainAt("links", NoLink, Conns)
  /\ UNCHANGED <<buffer, owner, peer, sends, clients, dead, restarting, event, tick>>
CloseListener ==
  /\ main.pc = "run" /\ event.pc \notin InAccept
  /\ listening' = FALSE
  /\ LET Conns == {l \in Links : "m_Connections" \in refs[l]}
     IN /\ refs' = [l \in Links |->
                      IF l \in Conns THEN (refs[l] \ {"m_Connections"}) \cup {"Conns"}
                      ELSE refs[l]]
        /\ MainAt("links", NoLink, Conns)
  /\ UNCHANGED <<buffer, owner, peer, sends, event, tick, serverVars>>

\* cTCPLinkImpl::Shutdown: is there anything to send?
\* Mutant: it does not ask, and shuts the socket down.
AfterCheck_Mutant(b) == "shutdown"
AfterCheck(b) == IF b.out = 0 THEN "shutdown" ELSE "schedule"

ShutdownLink(l) ==
  /\ main.pc = "links" /\ l \in main.todo /\ owner[l] = Free
  /\ buffer' = [buffer EXCEPT ![l].owed = buffer[l].out]
  /\ MainAt(AfterCheck(buffer[l]), l, main.todo \ {l})
  /\ UNCHANGED <<refs, owner, peer, sends, listening, event, tick, serverVars>>

\* DoActualShutdown: the socket first, without the bufferevent's lock.
ShutdownSocket ==
  /\ main.pc = "shutdown"
  /\ buffer' = [buffer EXCEPT ![main.link].fin = TRUE]
  /\ MainAt("disable", main.link, main.todo)
  /\ UNCHANGED <<refs, owner, peer, sends, listening, event, tick, serverVars>>

DisableWrite ==
  /\ main.pc = "disable" /\ owner[main.link] = Free
  /\ buffer' = [buffer EXCEPT ![main.link] = WriteDisabled(@)]
  /\ MainAt("links", NoLink, main.todo)
  /\ UNCHANGED <<refs, owner, peer, sends, listening, event, tick, serverVars>>

ScheduleShutdown ==
  /\ main.pc = "schedule"
  /\ buffer' = [buffer EXCEPT ![main.link].should = TRUE]
  /\ MainAt("links", NoLink, main.todo)
  /\ UNCHANGED <<refs, owner, peer, sends, listening, event, tick, serverVars>>

\* Close() returns: its local Conns goes, link by link.
ReleaseConns(l) ==
  /\ main.pc = "links" /\ main.todo = {} /\ "Conns" \in refs[l]
  /\ Drop(l, "Conns")
  /\ UNCHANGED <<buffer, owner, peer, sends, listening, event, tick, main, serverVars>>

AskRestart ==
  /\ main.pc = "links" /\ main.todo = {}
  /\ \A l \in Links : "Conns" \notin refs[l]
  /\ restarting' = TRUE
  /\ MainAt("wait", NoLink, {})
  /\ UNCHANGED <<peer, listening, clients, dead, csClients, event, tick, linkVars>>

\* m_RestartEvent.Wait() returns; m_CSClients is held until the end.
TickThreadEnded ==
  /\ main.pc = "wait" /\ tick.pc = "stopped" /\ csClients = Free
  /\ csClients' = "main"
  /\ MainAt("clients", NoLink, clients)
  /\ UNCHANGED <<peer, listening, clients, dead, restarting, event, tick, linkVars>>

\* cClientHandle::Destroy on this thread.
DestroyClient(l) ==
  /\ main.pc = "clients" /\ l \in main.todo
  /\ Drop(l, "m_Link")
  /\ dead' = dead \cup {l}
  /\ MainAt("clients", NoLink, main.todo \ {l})
  /\ UNCHANGED <<buffer, owner, peer, sends, listening, clients, csClients,
                 restarting, event, tick>>

ClearClients ==
  /\ main.pc = "clients" /\ main.todo = {}
  /\ clients' = {}
  /\ csClients' = Free
  /\ MainAt("done", NoLink, {})
  /\ UNCHANGED <<peer, listening, dead, restarting, event, tick, linkVars>>

Shutdown ==
  \/ ShutdownSocket \/ DisableWrite \/ ScheduleShutdown \/ AskRestart
  \/ TickThreadEnded \/ ClearClients
  \/ \E l \in Links : ShutdownLink(l) \/ ReleaseConns(l) \/ DestroyClient(l)

-----------------------------------------------------------------------------
Init ==
  /\ refs = [l \in Links |-> {}]
  /\ buffer = [l \in Links |-> NewBuffer]
  /\ owner = [l \in Links |-> Free]
  /\ peer = [l \in Links |-> "none"]
  /\ sends = MaxSends
  /\ listening = TRUE
  /\ clients = {}
  /\ dead = {}
  /\ csClients = Free
  /\ restarting = FALSE
  /\ event = [pc |-> "idle", link |-> NoLink]
  /\ tick = [pc |-> "idle", link |-> NoLink, todo |-> {}]
  /\ main = [pc |-> "run", link |-> NoLink, todo |-> {}]

Next ==
  \/ Accept \/ Callback \/ Tick \/ CloseListener \/ Shutdown
  \/ \E l \in Links : PeerLeaves(l) \/ AcceptConnection(l) \/ Ready(l)

Spec == Init /\ [][Next]_vars

(***************************************************************************)
(* Fairness: the threads run.  A thread that can take a lock again and     *)
(* again takes it some time, and LibEvent gets to every event that is      *)
(* ready, hence strong fairness.  Peers promise nothing, nobody has to     *)
(* connect, and nobody has to ask for a shutdown.                          *)
(***************************************************************************)
Fairness ==
  /\ SF_vars(Accept \/ Callback \/ \E l \in Links : ReadEnds(l))
  /\ SF_vars(Tick)
  /\ SF_vars(Shutdown)

FairSpec == Spec /\ Fairness

-----------------------------------------------------------------------------
(* Type invariant *)

Thread == {"event", "tick", "main"}

\* LibEvent is only asked to write while writing is enabled.
Buffer ==
  {b \in [out : Nat, owed : Nat, write : BOOLEAN, pending : BOOLEAN,
          read : BOOLEAN, should : BOOLEAN, fin : BOOLEAN] :
     b.pending => b.write}

InCallback == {"callback", "closed", "broadcast", "remove", "crashed"}

EventPosition ==
  [pc : {"idle"}, link : {NoLink}]
    \cup [pc : InAccept \cup InCallback, link : Links]

TickPosition ==
  [pc : {"idle", "next", "stopped"}, link : {NoLink}, todo : SUBSET Links]
    \cup [pc : {"send", "write"}, link : Links, todo : SUBSET Links]

MainPosition ==
  [pc : {"run", "links", "wait", "clients", "done"}, link : {NoLink},
   todo : SUBSET Links]
    \cup [pc : {"shutdown", "disable", "schedule"}, link : Links, todo : SUBSET Links]

TypeOK ==
  /\ refs \in [Links -> SUBSET Holder]
  /\ buffer \in [Links -> Buffer]
  /\ owner \in [Links -> Thread \cup {Free}]
  /\ peer \in [Links -> {"none", "open", "closed", "reset"}]
  /\ sends \in [Links -> Nat]
  /\ listening \in BOOLEAN
  /\ clients \subseteq Links
  /\ dead \subseteq Links
  /\ csClients \in {"tick", "main", Free}
  /\ restarting \in BOOLEAN
  /\ event \in EventPosition
  /\ tick \in TickPosition
  /\ main \in MainPosition

-----------------------------------------------------------------------------
(* Safety *)

\* No thread is inside a link that has been destroyed, although the tick
\* thread uses m_Link without a shared_ptr of its own: EventCallback, which
\* drops the last ones, first waits for m_CSClients.
LinkAliveInUse ==
  /\ tick.pc \in {"send", "write"} => Alive(tick.link)
  /\ event.pc \in InCallback => Alive(event.link)
  /\ main.pc \in {"shutdown", "disable", "schedule"} => Alive(main.link)

\* A client's m_Link is never the last shared_ptr: Shutdown(), which resets it
\* with m_CSClients held, never runs a link's destructor, which would wait for
\* a callback that waits for m_CSClients.
ClientNeverLast == \A l \in Links : refs[l] # {"m_Link"}

\* Network.h on Shutdown(): "The link will send any queued outgoing data, then
\* it will send the FIN packet."  What was queued when it was called has gone
\* out when the FIN goes out, however sends and writes interleave with it.
QueuedBeforeFin == \A l \in Links : buffer[l].fin => buffer[l].owed = 0

\* TCPLinkImpl.h on m_Self: it keeps "this object alive as long as the
\* callbacks are coming".  Only Close(), which holds the links it shuts down,
\* can keep a link alive for another callback to find m_Self gone.
SelfInCallback ==
  event.pc = "crashed" =>
    /\ "Conns" \in refs[event.link]
    /\ main.pc \notin {"run", "wait", "clients", "done"}

List == INSTANCE ClientList
          WITH Clients <- Links, listed <- clients, holder <- csClients,
               entering <- IF event.pc = "listed" THEN {event.link} ELSE {},
               linked <- {l \in Links : "m_Link" \in refs[l]}

\* The threads treat m_Clients as ServerCore, which has them in other detail,
\* does: a client enters without a link, gets one before anything can end it,
\* and leaves the list dead and with m_CSClients held.
KeepsClientList == List!Spec

(***************************************************************************)
(* The inductive invariant: why a link in use is alive.                    *)
(***************************************************************************)

ShutsLinks == main.pc \in {"links", "shutdown", "disable", "schedule"}
ShutsLink == main.pc \in {"shutdown", "disable", "schedule"}

\* A bufferevent is locked by its callback; m_CSClients by a tick or by the
\* last part of a shutdown, which comes after the tick thread.
LocksHeld ==
  /\ \A l \in Links :
       owner[l] = IF event.pc \in InCallback /\ event.link = l THEN "event" ELSE Free
  /\ csClients = "tick" <=> tick.pc \in {"next", "send", "write"}
  /\ csClients = "main" <=> main.pc = "clients"
  /\ main.pc \in {"clients", "done"} => tick.pc = "stopped"

\* A connection that has not been made is nobody's, but for the client that is
\* listed first; Close() waits until it has been.
Unmade ==
  /\ event.pc \in {"accepting", "listed"} => peer[event.link] = "none"
  /\ \A l \in Links :
       peer[l] = "none" =>
         /\ refs[l] = {} /\ l \notin dead \cup main.todo
         /\ l \in clients <=> event.pc = "listed" /\ event.link = l
  /\ main.pc # "run" => ~listening /\ event.pc \notin InAccept

\* The event thread is at the link, which it has yet to enable.
Created(l) == event.pc = "created" /\ event.link = l

\* m_Self goes last, but for Close(), and comes when the link is enabled; it goes
\* when EventCallback, which has reset m_Link and had m_CSClients, ends: the tick
\* thread has let go by then.
SelfGoesLast ==
  /\ \A l \in Links :
       /\ "m_Self" \notin refs[l] => refs[l] \subseteq {"Conns"} \/ Created(l)
       /\ "Link" \in refs[l] => Created(l)
  /\ event.pc = "created" =>
       /\ refs[event.link] = {"Link", "m_Connections", "m_Link"}
       /\ event.link \notin dead
  /\ event.pc \in {"callback", "closed", "broadcast", "remove"}
       => "Self" \in refs[event.link]
  /\ event.pc \in {"closed", "broadcast", "remove"} => "m_Link" \notin refs[event.link]
  /\ event.pc = "crashed" => refs[event.link] = {"Conns"}
  /\ tick.pc \in {"send", "write"}
       => /\ "m_Self" \in refs[tick.link] \/ Created(tick.link)
          /\ ~(event.pc = "remove" /\ event.link = tick.link)
  /\ \A l \in dead :
       \/ "m_Self" \notin refs[l]
       \/ tick.pc = "stopped"
       \/ (event.pc \in {"broadcast", "remove"} /\ event.link = l)

\* Close() holds the links it shuts down.
ConnsHeld ==
  /\ \A l \in Links : "Conns" \in refs[l] => ShutsLinks
  /\ ShutsLinks => \A l \in main.todo : "Conns" \in refs[l]
  /\ ShutsLink => "Conns" \in refs[main.link] /\ main.link \notin main.todo

\* What is owed is queued; a link not yet shut down has sent no FIN.
OwedQueued ==
  /\ \A l \in Links :
       /\ buffer[l].owed <= buffer[l].out
       /\ main.pc = "run" \/ (ShutsLinks /\ l \in main.todo)
            => ~buffer[l].should /\ ~buffer[l].fin
  /\ main.pc = "shutdown" => buffer[main.link].owed = 0

\* A client that has been accepted is in m_Clients or dead; those that Shutdown()
\* has been at are dead.
ListedOrDead ==
  /\ \A l \in Links : peer[l] # "none" => l \in clients \cup dead
  /\ main.pc = "clients" => clients \ main.todo \subseteq dead

Inductive ==
  TypeOK /\ LocksHeld /\ Unmade /\ SelfGoesLast /\ ConnsHeld /\ OwedQueued
    /\ QueuedBeforeFin

(* Stated by the code's comments, and not what the code does *)

NeedsClients ==
  (IF event.pc \in {"accepting", "broadcast"} THEN {"event"} ELSE {})
    \cup (IF tick.pc = "idle" THEN {"tick"} ELSE {})
    \cup (IF main.pc = "wait" THEN {"main"} ELSE {})

NeedsLink(l) ==
  (IF tick.pc = "write" /\ tick.link = l THEN {"tick"} ELSE {})
    \cup (IF main.pc = "disable" /\ main.link = l THEN {"main"} ELSE {})

\* Thread t waits for a lock that thread u holds.
WaitsFor(t, u) ==
  \/ t \in NeedsClients /\ csClients = u
  \/ \E l \in Links : t \in NeedsLink(l) /\ owner[l] = u

\* ClientHandle.h on m_OutgoingData: it is "for storing outgoing data from any
\* thread; will get sent in Tick() (to prevent deadlocks)".  No two threads
\* wait for each other.
NoDeadlock ==
  \A t, u \in Thread : t # u => ~(WaitsFor(t, u) /\ WaitsFor(u, t))

\* The same with what the main thread may wait for as well: any link it has yet
\* to shut down, and one whose destructor it runs as it drops the last reference.
MayWaitFor(t, u) ==
  \/ WaitsFor(t, u)
  \/ /\ t = "main"
     /\ \E l \in Links :
          /\ owner[l] = u
          /\ \/ main.pc = "links" /\ l \in main.todo
             \/ main.pc = "links" /\ refs[l] = {"Conns"}
             \/ main.pc = "clients" /\ l \in main.todo /\ refs[l] = {"m_Link"}

\* There is no other deadlock than that of NoDeadlock, between any number of
\* threads: the event thread waits to report a client whose link the tick thread,
\* with m_CSClients, waits to write to.
OneDeadlock ==
  \A S \in (SUBSET Thread) \ {{}} :
    (\A t \in S : \E u \in S : MayWaitFor(t, u)) =>
      /\ {"event", "tick"} \subseteq S
      /\ event.pc = "broadcast" /\ tick.pc = "write" /\ tick.link = event.link

-----------------------------------------------------------------------------
(* Liveness, under FairSpec *)

\* What stops the threads for good: a deadlock, or a null m_Self.
Stuck == ~NoDeadlock \/ event.pc = "crashed"

\* A link whose connection is gone is destroyed: no shared_ptr to it leaks.
LinkFreed ==
  \A l \in Links : Alive(l) /\ peer[l] # "open" ~> ~Alive(l) \/ Stuck

\* cServer::Shutdown returns.
ShutdownReturns == main.pc = "links" ~> main.pc = "done" \/ Stuck

=============================================================================
