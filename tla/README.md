# P2PChat in TLA+

TLA+ specifications of P2PChat, the TLC runs that check them on small
instances, and proofs, checked by TLAPS, that hold for every instance.

P2PChat is a chat and video-call program: a server where users log in and
learn of each other, and a client that relays the offers and answers of a
WebRTC call through that server. The project's own code is in
`src/Src/Server`, `src/Src/Client`, `src/Src/Common` and `src/Include`; the
rest is vendored.

    tlc -workers 2 -config MCServerLogin.cfg MCServerCore     # one run
    tlapm ServerCoreProofs.tla                                # one module's proofs

PROJECT.json lists the runs with their properties, the mutants (for each
property a bug of the kind the code could have, which that property finds), the
source lines of every definition, the hazards, and the theorems.

## 1. Inventory

### Server

**Server core**: `cServer`, `cClientHandle`, `cProtocol_impl`.
*State:* the list `m_Clients` under `m_CSClients`; per client the state
`m_State` (connected, authenticating, authenticated, working, destroying,
destroyed), the protocol state (status, login, work), the name, the link, the
buffers of incoming and outgoing data, `m_HasSentDC`, the tick counter; the
flag and event of the shutdown. *Operations:* accept, receive, close, tick
(parse packets, flush, promote, ping, time out, remove), authenticate, kick,
broadcast, shut down. *Actors:* the LibEvent thread, the tick thread, the
authenticator thread, the thread of `cRoot::Start`, the console's thread.
*Hard:* `m_State`, the protocol state and `m_Link` are written by up to four
threads, each under another lock or none; an answer to a login comes by id and
later; `Destroy()` runs in three steps, on two threads. *Right if* no two
users have one name, nobody is admitted without the password, the two state
machines agree, clients that are gone leave the list and everybody's roster,
every login is answered and a shutdown returns.

**Authenticator**: `cAuthenticator`. A queue of logins under `m_CS`, an event,
a thread; `Authenticate()` queues, `Execute()` checks the password and calls
`KickUser()` or `AuthenticateUser()` of the server, `Stop()` ends the thread.
*Hard:* what is queued when it stops is answered after the next start.

**TCP links and listeners**: `cTCPLinkImpl`, `cServerHandleImpl`. A
`bufferevent` with its lock, a self-reference that keeps a link alive until its
callbacks have ended, and the list of a listener's links. *Hard:* callbacks
run with the lock of the `bufferevent` held, and take the locks of the server;
`Send()` takes them in the other order, and keeps no `shared_ptr` to the link
it runs on. *Right if* nobody uses a link that has been destroyed, none leaks,
what is queued goes out before the FIN, and no two threads wait for each other.

**Root**: `cRoot`. Starts and stops the server in a loop, reads the console on
a thread of its own. *Hard:* the console may ask for a restart while the server
is being taken down. **Packetizer**: `cPacketizer` holds `m_CSPacket` from its
constructor to its destructor, so packets are not interleaved.
**Settings**: an ini file under settings from the command line; sequential.
**Look-ups and UDP**: wrappers of LibEvent that the server does not use.

### Common

**Threads, events and queues**: `cIsThread` (starts and joins a thread,
`m_ShouldTerminate`), `cEvent` (flag, mutex, condition variable),
`cWorkerThread` (a queue of tasks; the same loop as the authenticator),
`cThreadPool`, `cQueue`. *Hard:* the flag is set under one lock, the queue is
tested under another, the notification is sent under none. *Right if* no
wakeup is lost, `Stop()` returns, and each piece of work is run once, in order.

**Byte buffer**: `cByteBuffer`, a ring in which each client's packets are
received and built: three positions, four pieces of code that wrap them.
*Right if* it is a queue that can be read again until `CommitRead()`.

**Logger, files, strings, compression, stack traces**: no state that other
parts depend on.

### Client

**Session**: `PeerConnectionClient`, the client's side of the protocol: states
not connected, resolving, signing in, connected, signing out; the list of
peers. *Hard:* the code 0x01 is LoginSuccess in one state and UserInfo in
another; signing out while a connection is being made, which nothing takes up
again (`SIGNING_OUT_WAITING` is set and never tested, and no code sets
`CONNECTED`). *Right if* the session and the socket agree, a sign-out ends in
being signed out, and the list of peers is the server's.

**Call control**: `Conductor`, an observer of the session and of WebRTC: the
peer it is in a call with, and messages posted to the UI thread. *Hard:* what
is posted acts on the state at the time it is dequeued; two users may call each
other at once; a request leaves no trace in who makes it or in who accepts it.
*Right if* nobody gets into a call that neither side has agreed to, a call does
not turn into one with somebody else, the window shows the call there is, and a
call ends when its other side hangs up or goes.

**Window**: `MainFrame` and the rest of the user interface.

## 2. What is modelled, and where

| module | what it is |
| --- | --- |
| `ServerCore` | the server core with the authenticator's effects, for any clients, names and packets |
| `MCServerCore` | its instances for TLC |
| `ServerCoreProofs` | its theorems on names, states, admissions, removed clients and what peers know |
| `Directory` | what the server promises its users, with what follows from it |
| `ClientList` | what the threads of the server agree on about `m_Clients` |
| `ContractProofs` | theorems that `ServerCore` keeps `Directory`, `ClientList` and the steps of `Mailbox`, and its parser the streams of packets |
| `Event` | `cEvent`, instantiated once per event |
| `Worker` | a thread with a work queue: `cAuthenticator` and `cWorkerThread` on `cIsThread` and two `Event`s |
| `Mailbox` | what such a thread promises |
| `WorkerProofs` | theorems about `Worker`, the refinement of `Mailbox` among them |
| `Links` | accepted links: who keeps each alive, the lock of its `bufferevent` next to `m_CSClients`, sending and shutting down |
| `MCLinks` | its instance for TLC |
| `LinksProofs` | theorems about `Links` |
| `ByteBuffer` | `cByteBuffer` with its ring |
| `ByteFifo` | what it promises: a queue with a read mark |
| `MCByteBuffer` | its instance for TLC |
| `ByteBufferProofs` | theorems about `ByteBuffer`, the refinement of `ByteFifo` among them |
| `Call` | the `Conductor`s of users that are signed in, over the relay of the server |
| `Calls` | what users may rely on when they call each other |
| `MCCall` | an instance of `Call` for TLC |
| `CallProofs` | theorems about `Call`, the refinement of `Calls` among them |
| `Session` | one client with its window, signing in at a server that answers and broadcasts as `ServerCore` does |
| `MCSession` | its instance for TLC |
| `SessionProofs` | theorems about `Session` |

### ServerCore

One variable per piece of shared state: `handle` has the members of each
`cClientHandle` and its protocol, `clients` is `m_Clients`, `lock` is
`m_CSClients`, `queue` is the authenticator's. `tick`, `auth`, `main`, `call`
and `accepting` say where each thread is; `shown` and `roster` are history: the
names for which a peer sent the right password, and what each peer was last
told of each other.

The grain follows the locks. A step that takes and releases `m_CSClients` and
touches nothing else is one action. `m_State` and `m_Link` are read and written
outside of any common lock, so a test of them and what is done after it are two
actions: `CheckAuthenticated` and `SetWorking`, `FlushOutgoing` and
`SendOnLink`, the three steps of `Destroy`, the three of `Authenticate`. Each
packet handler is an action, and so is each way in which the loop of
`AddReceivedData` ends: a packet that is unknown or empty leaves those behind it
in the buffer until more data arrives.

Data is abstract: a packet is its type and the fields the handlers read; the
password is whether it is right; the outgoing buffer is whether it holds
anything; the tick counter stops one past the limit. Packets that share a code
are what the protocol state makes of them: a StatusRequest in the login state is
read as a LoginInfo with bytes left over, and its first two strings as a name and
a password, which may be right.

A connection is accepted in three steps: the `cClientHandle` is built
(`AcceptConnection`), it enters `m_Clients` under `m_CSClients` (`ListClient`),
and the link is made, set and enabled when the lock has been released
(`CreateLink`). In between, every other thread may meet a listed client without a
link: it is ticked, told of others and looked up by id, and `FlushOutgoing` drops
what was queued for it, so what it was told is no longer counted in `roster`.

`Send()` has its steps too. `SendOnLink` uses the pointer tested one step before,
which may be null by now: that ends the program. `WriteToLink` is
`bufferevent_write`, which waits for the lock of the `bufferevent`, held by the
event thread from the callback that has found the connection gone until the end of
its `Destroy()`. `Stuck` are the two states in which the server stops for good: the
tick thread waits there with `m_CSClients` held while the event thread waits for
that (the deadlock of `Links`), or the program has crashed.

Peers send any packets in any order, and disconnect when they like. They do
nothing else, so whatever is shown holds for peers that keep no protocol at all.

`HandleLogin` sets `m_State` whatever it was, and `Authenticate` and `ServerTick`
write it after they have tested it. A peer that sends LoginInfo and closes its
connection can so be destroyed and then be "authenticating" again, without a link,
in `m_Clients`, until the server shuts down. The model has these clients:
`UniqueNames` holds with them, and `DestroyedLeaves` excepts them.

### Directory, ClientList

Two abstract specifications that `ServerCore` implements. `Directory` is the
server as its users see it: who is a member under which name, and what the others
are told of it. Its `Tell` may tell anybody anything that is true at that moment;
that a name is one's own, and the only one that others hear, is not part of the
promise but follows from it (`NamesCanBeTrusted`). Only `m_HasSentDC` bounds who is
told: the code goes on sending to a client until it is told to go, and not after.
What a client was told before it had its link may be lost with it.

`ClientList` is the life of `m_Clients`, `m_Link` and the destroyed states: who may
enter, link, unlink, destroy, revive and remove a client, holding `m_CSClients` or
not. A client enters without a link, under the lock (`Enter`), and gets it later,
whoever holds the lock (`Link`); until then nothing can destroy or remove it.
`Links` models the same threads around the links themselves, and `ServerCore`
around the protocol; both implement `ClientList`, so neither assumes of the other's
subject more than the other does. In the same way `ServerCore` has the authenticator
without its event and lock, takes from its queue as `Mailbox` does
(`AnswersInOrder`), and `Worker` implements `Mailbox`.

### Event, Worker, Mailbox

`Event` has the two steps of `Set()`, under the mutex and after it, and the
loop of `Wait()` with its spurious wakeups. `Worker` puts it between producers,
the thread and its owner, who may start the same object again. A producer holds
`m_CS` until `Set()` has returned; the thread tests `m_ShouldTerminate` and the
queue under `m_CS` and waits without it. `Mailbox` says what comes of it: work
is taken in order, finished, and not left lying while the thread is open.

### Links

`ServerCore` has one step for what a link's callback does to a client; `Links` has
what that step rests on. `refs` are the `shared_ptr`s to each link by the name of
what holds them: its own `m_Self`, the listener's `m_Connections`, the client's
`m_Link`, the local `Link` of the listener's `Callback`, the list `Conns` of
`Close()`, and `EventCallback`'s local `Self`. `owner` is the lock of each
`bufferevent` (`BEV_OPT_THREADSAFE`), held while LibEvent runs a callback and taken
by each call on it; `csClients` is `m_CSClients`. Locks that are never held while
another is asked for make a step atomic and have no variable. `buffer` has what the
code asks LibEvent: how much is queued, whether it wants to write and read,
`m_ShouldShutdown`, whether the FIN is out.

The event thread accepts in four steps: the listener's `Callback` begins, lists the
client (`OnConnectionAccepted` waits for `m_CSClients` without the lock of a link),
makes the link and hands it to the client without `m_CSClients` (`CreateLink`), and
enables it (`EnableLink`), when `m_Self` is set and LibEvent begins to read; the
tick thread may send on the link before that. The event thread then writes out, and
runs `EventCallback`: it copies `m_Self`, resets `m_Link`, marks the client
destroyed, waits for `m_CSClients` to broadcast, and drops what is left. The tick
thread goes over the clients with `m_CSClients` held and sends through `m_Link`: a
test of `m_ShouldShutdown`, then `bufferevent_write`. The main thread is
`cServer::Shutdown`, with `cTCPLinkImpl::Shutdown` in the steps in which other
threads can come between: the test for queued data, the shutdown of the socket or
the flag, the `bufferevent_disable`. What LibEvent does is read from the vendored
`bufferevent_sock.c`. `ReadCallback` takes no lock that matters here and is not a
step. A write that fails and a read that ends are both connections that are gone;
each disables its own direction, so an `EventCallback` may come twice.

### ByteBuffer, ByteFifo

The positions and the memory of the ring, its contents at the start arbitrary.
The typed calls test the space and move as many bytes as the type has: they
are `Read(n)` and `Write(s)`. A VarInt is a run of bytes that say they go on
and one that does not; when the bytes run out, those read stay read. `ByteFifo`
knows neither positions nor memory.

### Call, Calls

`me` has each client's `peer_id_`, the state of its `peer_connection_` as far as
`Conductor` notices it, and the page its window shows; `posted` is the queue of
UI_THREAD_CALLBACK messages, `inbox` and `out` are what the server has from a
client and for it. A client has one thread, so a packet, a callback of WebRTC, a
posted message or a click is one action. Windows hands out posted messages before
input: the user acts when `posted` is empty (`AtRest`), while packets may come
between two posted messages. Users are signed in at the start, may lose the
connection or be sent away at any time, and do not come back under the same id.

`pending_messages_` is empty between two posted messages: `IsSendingMessage()`
asks for the state `CONNECTED`, which no code sets, so a description is sent as
soon as its message is handled. It goes to the `peer_id_` of that moment; with
another user's packet read in between, that may be another user than it was made
for. The model has this, and the theorem about consent covers it: also this user
and the sender have agreed to a call, one with the other.

WebRTC is external: making a description ends at some time, or never; an offer
that comes while an own one is out is refused, and one that comes in the middle
of something is taken or refused. The relay is that of `ServerCore` with what does
not matter here left out; when a connection is gone, `Remove` drops what the
client has sent and was not relayed, and tells the others.

`Calls` knows who is in a call with whom and which pairs agreed, and nothing of
packets. It lets a client forget its partner during a call, since the code does
(see `refused` below).

### Session

`state`, `socket`, `connected`, `proto` and `peers` are `state_`, the
`control_socket_`, `m_bConnect`, `m_State` and `peers_` of a
`PeerConnectionClient`; `page`, `button`, `closing` and `shown` are what
`MainFrame` and `Conductor` make of them. A client has one thread, so each event
and each packet is one action. A packet that is unknown in the present state may
leave those behind it in `m_ReceivedData` until more data comes: to the client that
is the same as if they were still on their way, so both are one sequence,
`incoming`. `server` is the `cClientHandle` of this connection. The server goes
over `m_Clients` with `m_CSClients` held, so while this client has still to be told
of others (`todo`) only what needs no lock can happen. The server lists the client
and sets its link in two steps, as in `ServerCore`: nothing reaches the client
before the second, and `FlushUnlinked` drops what was queued for it by then. Calls
are those of `Call`; here a packet of one may change the page, post its end, or
sign out.

The model shows, and its history variables name, what the code does when its
parts do not meet:

- The server broadcasts to clients that have not signed in, and UserInfo has the
  code of LoginSuccess. A client that waits for the latter takes the former for it
  (`early`; a debug build stops at an assertion about the length). If the server
  then refuses the login, its packet is read as a KeepAlive, and the client stays
  signed in where nobody has admitted it. `SignedInByServer` and `GoesWhenTold`
  hold but for such clients.
- `OnServerConnectionFailure()` shows nothing and enables no button (`failed`), so
  the user cannot try again until something posts PEER_CONNECTION_CLOSED.
- `Close()` keeps `peers_`, and the server tells a new client of those who are
  there, not of those who went meanwhile: the list may hold peers of an earlier
  session (`earlier`), who are gone. `PeersKnown` holds but for those.

## 3. Runs

| run | instance | shows |
| --- | --- | --- |
| `login` | two clients, one name, two packets each | `UniqueNames`, `RemovedIsDestroyed`, `IsDirectory`, `KeepsClientList` |
| `presence` | two clients, two names, two packets each | `Presence`, `NoGhostOfRemoved`, `RosterProved` |
| `packets` | one client, three packets of any kind | `TypeOK`, `AdmittedProved`, `PhasesAgree`, `NameKept`, `AnswersInOrder`, `StreamKept` |
| `live` | one client, three packets, fair threads | unless the server is `Stuck`: `LoginAnswered`, `ShutdownReturns`, `DestroyedLeaves` |
| `link` | one client, two packets | a violation of `LinkSynchronized` |
| `worker` | two producers, three pieces of work, two starts | `NoLostWakeup`, `StartedFirst`, `DeliversMail`, `StopReturns` |
| `buffer` | a ring of three bytes, every sequence of calls | `TypeOK`, `ReadWithinData`, `IsFifo` |
| `call` | two users, one of whom asks twice, the other once | `TypeOK`, `CallShown`, `CallsKept`, `HangUpArrives` |
| `refused` | the same two users | a violation of `PeerKnown` |
| `session` | two others, two logins, three packets waiting | `SocketAgrees`, `LoginAgain`, `SignedInByServer`, `PeersKnown`, `GoesWhenTold` |
| `links` | two connections, a send on one of them, a shutdown, fair threads | `LinkAliveInUse`, `ClientNeverLast`, `QueuedBeforeFin`, `SelfInCallback`, `OneDeadlock`, `KeepsClientList`, `LinkFreed`, `ShutdownReturns` |
| `deadlock` | the same connections | a violation of `NoDeadlock` |

*Bounds.* Two clients are what the properties about pairs speak of, and two
packets are the least that log one in. Three packets let a client log in twice,
or log in and then do something else. `MaxTicks` 1 makes the timeout come on the
second silent tick, before or after any other step; the code waits for 600. In
`login` it is 0 and comes on the first: that a client has been told to go keeps
it from nothing but being sent data, so it logs in, leaves and is removed like
any other, in a quarter of the states. `IsDirectory` is checked there; what is told to
clients that stay is in `presence`, with `RosterProved`, and the theorems cover both
together.
`BufferSize` 2 lets data arrive that does not fit. In `worker`, three pieces of
work and two producers let one be pushed while another is run and a third
announced, and two starts let the second life find what the first has left. In
`buffer`, four positions have every order of start, read and write position
around the ring; byte values 0 and 1 stand for bytes with bit 7 clear and
set, and strings of two bytes or more have a length of two bytes, which needs
128 in the code. In `call`, the second request of one user begins a second call,
into which a hang-up, a refusal or a description of the first may come late; with
one request each there is no such call. With two requests a user is asked while
it asks. What a third user does in between is not in this run; the theorems about
`TypeOK`, `CallShown` and `CallsKept` are for any number of users. In `links`, a
link that has something queued, and one that has not, are shut down in either
order, and each may be reset or closed at any point; a second send only repeats
the first. In `session`, of two other clients one may be told of while the other
signs in or goes; they are alike, so the run is symmetric in them. A second login
finds what the first session has left. Three packets waiting let those of other
clients come before, between and behind the answers; `MaxWaiting` bounds only
packets that others cause, and the theorems are for any bound.

*Deadlock* is checked in every run but those of `Links` and `Session`, where a user
who has closed the window has nothing left to do. A server that has shut
down has an action of its own that changes nothing (`ServerStopped`), and so have
users that have all gone (`AllGone`). `Links` may really stop: its threads may
wait for each other (see `deadlock` below), and a callback that finds `m_Self`
null ends the program. `ServerCore` may stop in the same circle, or by `Send()` on a
null `m_Link`; that is an action of its own too (`ServerStuck`), so that every other
deadlock would be reported. The liveness properties of both say so: they hold unless
one of these has happened (`Stuck`, in each module).

### What the three violations show

`link`. The comment on `m_Link` says that `m_CSOutgoingData` is used to
synchronize its use. `ServerTick` has released it when it tests `m_Link` and
calls `Send()`; the event thread may reset the pointer in between. From there
`ServerCore` goes on with what a build can do: a `Send()` on the pointer that was
tested, or on a null one, which is a crash.

`refused`. `OnMessageFromPeer` asserts that a client in a call knows its peer,
before it ignores a message of somebody else. Two users ask each other, one of
them twice. The second request reaches a user who is in the call by then and
answers with a refusal; it arrives after the call has begun at the other side
too, and `OnPeerResponse` clears `peer_id_` without a look at the
`peer_connection_`. The partner's description that comes next is one of
"somebody else", and the assertion fails; without assertions the description is
dropped, and both users look at a call that is never set up. `IsBusy()` then
says no, so a third user's request is accepted, and a hang-up of the partner is
ignored: the user has to end such a call. `HangUpArrives` is about calls whose
partner is known.

`deadlock`. The comment on `m_OutgoingData` says that it "will get sent in
Tick() (to prevent deadlocks)". It is, but with `m_CSClients` held by
`TickClients`, and `bufferevent_write` takes the lock of the `bufferevent`.
LibEvent holds that lock while it runs `EventCallback`, which destroys the client
and waits for `m_CSClients` to broadcast that. A client that leaves while the tick
has something for it stops both threads, for good; the next login and the
shutdown wait for `m_CSClients` with them. `OneDeadlock` says that this is the only
circle: whichever threads wait for each other, these two are among them, at these
two lines and over one link.

## 4. Fairness

*Server.* Each thread is strongly fair: its steps wait for `m_CSClients`, which
the others take again and again, and the tick thread sleeps out the rest of its
50 ms without it. An operating system that gives a mutex that is free again and
again to a thread that asks for it some time justifies this. It does not help a
thread that waits for a lock which is never released: strong fairness asks for a step
only if it is possible again and again, and the tick thread that waits in `Send()`
for an event thread that waits for `m_CSClients` takes none. Nothing is assumed
of peers, of new connections, or that anybody asks for a shutdown.

*Worker.* The same for the thread. A producer that has begun to push finishes,
an owner that has begun to start or stop finishes. No spurious wakeup has to
come: if one were needed, a wakeup would be lost.

*Links.* The tick thread, the main thread and the event thread are strongly fair,
for the same reason as in `ServerCore`: each waits for locks that others take again
and again. For the event thread that includes a connection whose end is there to
be read, as LibEvent gets to every event that is ready; nothing is assumed of
writing out, which the peer may hold up, and nobody has to connect, to leave, or to
ask for a shutdown.

*Call.* A client whose window has posted messages handles them, one with packets
to read reads them, and the server's tick relays what has come and notices who
has gone: weak fairness for each of the three per client, as nothing another one
does takes such a step away. Nothing is assumed of users, who need not hang up,
of WebRTC, which need not finish a description, or of connections.

*Session* states no fairness: its properties are about states.

## 5. Proofs

Every invariant and action property of the passing runs is proved, among them both
refinements of `ClientList`. Everything below holds for all values of the
constants: any number of clients, names, packets, producers, pieces of work, any
capacity. The assumptions are the `ASSUME`s of the modules: bounds are naturals,
no name is empty, peers send packets, the thread is none of the producers, a byte
that goes on is a byte, `Nobody` is no client. The runs evaluate them.

**ServerCore.** `TypeCorrect` (`TypeOK`), `NamesAreUnique`, `StatesAgree`,
`NamesAreKept`, `AdmissionsProved`. The invariant is `Inductive` = `TypeOK`,
`Fresh`, `UniqueNames`, `Phases`, `Proved`, `Locks`, `Connections`.
Unique names are not inductive: `ListClient` adds a client, so an id not listed yet
must have no name (`Fresh`, `Untouched`). That must stay so while a client is listed
and has no link: it is looked up by id and ticked by then, but has no socket, has
sent nothing, and so is not at any thread that would change its state.
That the states agree needs to know where the threads are: between the protocol's
state and `m_State` the authenticator is at that very client, and the tick thread
promotes only who has a name (`Phases`). That an admission is proved needs the
whole way of the password: received data, buffer, queue, the request being
answered (`Proved`). Each part has its own step lemma, after lemmas on which
actions write the part of the state at hand.

`RemovedStayDestroyed`, `PeersKnowEachOther` and `NoGhosts` are about who is in
`m_Clients` and what the others believe, and rest on two of these parts and on
`Told`. `Locks`: `m_CSClients` has one owner, and the client it is at is in
`m_Clients`; so neither the tick thread nor the authenticator can revive a client
that has left. `Connections`: the event thread destroys only whose connection is
gone, the main thread only who is in `m_Clients`, after the tick thread has ended
and the listener has been closed. `Told`: of a destroyed client nobody hears
anything but that it is gone, the broadcast of `Destroy()` reaches everyone who
listens, and a client about to be promoted has been admitted unless its connection
is lost. The last is what `Presence` needs: otherwise `SetWorking` would admit
somebody of whom no broadcast told. That nobody who has been told to go listens
again is `ToldToGo`, over every action that writes a handle.

**Contracts.** `ServerIsDirectory` and `ServerKeepsClientList` are refinements:
every step of `ServerCore`, mapped, is a step of the contract or leaves it as it
is. A step that tells somebody something must tell the truth of that moment
(`ToldIsTrue`), so it rests on the parts above. A new part, `Lives`, has what they
lack: a client that is being destroyed has no link, and has lost its connection
unless the server is closing, a client that has left `m_Clients` is dead for good,
and `Shutdown()` drops only clients it has called `Destroy()` for. It is not
obvious, as `m_State` of a dead client may be overwritten: only by a thread that
is at the client under `m_CSClients`, and nothing sets the link again: the one
client that has yet to get its link cannot be dead.
`OnlyListedHaveLinks` is what comes of it: whoever still holds a removed client,
its `m_Link` is null. `NamesCanBeTrusted` is proved about every `Directory` and
instantiated (`NamesOnServer`), so it would hold of any server that keeps the
promise. `OnlyProvedNamesAreTold` adds the password to the names: what is in a
broadcast has been shown, since a name is set and told only by the way `Proved`
guards. `LoginsAnsweredInOrder` and `StreamsAreKept` are about order: of logins,
across the threads that queue and answer them, and of packets between
`ReceivedData()` on the event thread and the handler on the tick thread, whatever
is appended or dropped in between.

**Worker.** `TypeCorrect`, `NoWakeupIsLost`, `ThreadWaitsForStart`,
`ImplementsMailbox`. What keeps wakeups is `WakeupsKept`: a thread on its way
into `Wait()` with something to do finds the flag set, or somebody is about to
set it; and while the flag is set over a sleeping thread, the notifier has still
to notify. `StartKept` says the same of `m_evtStart` across lives: it is set
only for a thread that has not passed it yet.

**Links.** `TypeCorrect`, `UsedLinksLive`, `ClientsNeverLast`, `FinComesLast`,
`SelfKept`, `ListKept`, `NoOtherDeadlock`. That a link in use is alive needs all
of `Inductive`. Who holds which lock follows from where the threads are
(`LocksHeld`); a connection that has not been made is nobody's (`Unmade`).
`SelfGoesLast` is the heart: `m_Self` is the last `shared_ptr` to go, but for
`Close()`'s, and it goes at the end of `EventCallback`, which has waited for
`m_CSClients` after it reset `m_Link`; so a tick thread that has loaded `m_Link`
under `m_CSClients` has let go by then. `ConnsHeld` says that `Close()` holds what
it shuts down, `OwedQueued` that what was queued when `Shutdown()` was called is
in the queue until it has gone out. Take the wait for `m_CSClients` out of the
broadcast and a link is used after it has been freed: what makes the deadlock
possible is what keeps the links alive. `NoOtherDeadlock` is about where each lock
is held: a `bufferevent`'s only by the event thread in a callback, `m_CSClients`
never by the event thread at a step of its own, and by the main thread only where
it waits for nobody; so in every set of threads that wait for each other are the
event thread, in its broadcast, and the tick thread, at its write. `ListKept`, the
refinement of `ClientList`, needs that an accepted client is in `m_Clients` or
dead (`ListedOrDead`).

**ByteBuffer.** `PositionsValid`, `ReadStaysWithinData`, `RingIsFifo`. The
invariant is `TypeOK` and `ReadWithinData`. The lemmas are about positions: to
advance is to add, modulo the size, however the code writes it; the three spaces
are distances on the ring; a write moves the write position away from both
others, a read moves the read position towards it. From them, a write appends to
the contents, a read takes the next of them, a commit drops what was read. Each
call then maps to the call of `ByteFifo`.

**Call.** `TypeCorrect`, `CallIsShown`, `NoCallWithoutConsent`. Every step of a
client does one of five things to its `Conductor`: it leaves it alone, or ends,
begins or goes on with a call, or forgets its partner (`ConductorSteps`). The
window is right after each of them (`CallShownStep`). Consent is not inductive
as it stands: a call begins on an acceptance or a description that arrives, so
the invariant `Inductive` says of every such packet, in a client's `inbox` and in
what the server has for one, that the pair has agreed (`ConsentKept`); one that is
sent goes to the peer of a call, or is the acceptance itself. The five things then
map to the actions of `Calls`.

**Session.** `TypeCorrect`, `SocketsAgree`, `LoginStaysPossible`,
`SignInsAreAnswered`, `PeersAreKnown`, `ToldToGoGoes`. The properties speak of a
client that has handled everything; the invariant has to say what is true on the
way there. `Phases` says how far the client and its handle can be apart:
LoginSuccess is on its way, or has been handled, only if the server has admitted
the client and has not dismissed it before that. `Answers` says that what the
server has sent and the client has not acted on is still in `incoming`, and that a
dismissal is the last packet in it. `Roster` is about the last packet that speaks of
each other client: whoever is signed in is in `peers_` and not spoken of any more,
or the last word is that he is here; and that word comes behind LoginSuccess, or
it would be read in its place. Whoever is gone is forgotten, or the last word says
so. `Window` ties page and list to the session. The lemmas are about the sequence:
what it means for each part that a packet is taken from the front, or one is put
at the end. `InductiveHolds` combines a lemma for each part and each actor.

*Only model-checked:* everything under fairness, which is out of the prover's
reach: `LoginAnswered`, both `ShutdownReturns`, `DestroyedLeaves`, `StopReturns`,
`HangUpArrives`, `LinkFreed`, and the liveness of `DeliversMail`.

## 6. What is not modelled

- The creation of a thread that fails: it ends the program.
- `cEvent::SetAll`, the timed `Wait()`, `cThreadPool`, `cQueue`: without
  callers. Who begins to use them should know that `SetAll` wakes all but, as
  `Wait()` resets the flag, lets one go (`Event.h:33`); that `cQueue` announces
  only that something has come, so that with two consumers one may sleep over
  the second item (`Queue.h:99`); and that `BlockTillEmpty` is not woken by
  `Clear` (`Queue.h:115`).
- What a torn or outdated read of `m_Link` could do besides: `SendOnLink` has the
  pointer that was tested and a null one.
- The console, restarts, and calls between clients that sign in and come back: see
  the plan.
- In `Session`, the data a client drops when its receive buffer is full, a name that
  cannot be resolved because the program is being closed, and what user name and
  password the window keeps.
- Outgoing connections and `cTCPLinkImpl::Close()`, which the server does not use;
  the set-up of listening sockets. That a FIN goes out at all is not claimed: when
  the queue runs empty between the test in `Shutdown()` (`TCPLinkImpl.cpp:142`) and
  the assignment of `m_ShouldShutdown` (`:149`), no `WriteCallback` comes any more
  to send it. `Links` has that behaviour; the link goes when the peer closes.
- The vendored libraries. They are far larger than the program, and none of its own
  logic; of LibEvent, `Links` has what the server relies on.
- In `Call`, streams and renderers, ICE candidates (which are not sent one by
  one), descriptions that cannot be parsed or made, and the failure of
  `CreatePeerConnection`, after which `InitializePeerConnection` uses the factory
  it has just dropped.
- `ReadToByteBuffer`, and the bits of numbers and floats.

## 7. Plan

In the order of what matters to the system. Done: 1 to 5 and 7, and the
contracts between them (`Directory`, `ClientList`, `Mailbox`).

1. `ServerCore`, with its proofs: the part where most threads meet.
2. `Event`, `Worker`, `Mailbox`, with their proofs: what the authenticator
   rests on.
3. `ByteBuffer`, `ByteFifo`, with their proofs: what the parser rests on.
4. `Session`, with its proofs: what a client believes about itself and the others.
   `Call` is then to start from clients that sign in and come back.
5. `Call`, `Calls`, with their proofs: the part with most to go wrong between
   two clients.
6. `Lifecycle`: `cRoot::Start` with restarts and the console's thread, over
   servers whose ids never come back; what the authenticator finds in its queue
   after a restart, and what a connection accepted late leaves behind.
7. `Links`, with its proofs: the lock of the `bufferevent` next to `m_CSClients`,
   `Shutdown()` and the self-reference.
8. `Framing`: packets over two `ByteBuffer`s, for what is dropped when data does
   not fit.
9. The merge of settings as an operator checked against its definition.
