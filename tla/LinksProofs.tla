---------------------------- MODULE LinksProofs ----------------------------
(***************************************************************************)
(* Proofs about Links, for any connections and any number of sends: the    *)
(* steps of the inductive invariant, part by part, and the theorems.       *)
(***************************************************************************)
EXTENDS Links, TLAPS

-----------------------------------------------------------------------------
(* Bufferevents *)

\* What is done to a bufferevent leaves it well formed.
LEMMA BufferOps ==
  ASSUME NEW b \in Buffer
  PROVE  /\ NewBuffer \in Buffer
         /\ Enabled(b) \in Buffer
         /\ Queued(b) \in Buffer
         /\ WriteDisabled(b) \in Buffer
         /\ WriteCallback(b) \in Buffer
         /\ b.pending => \A n \in 0 .. b.out : Written(b, n) \in Buffer
         /\ [b EXCEPT !.read = FALSE] \in Buffer
         /\ [b EXCEPT !.fin = TRUE] \in Buffer
         /\ [b EXCEPT !.should = TRUE] \in Buffer
         /\ [b EXCEPT !.owed = b.out] \in Buffer
<1> USE DEF Buffer
<1>1. NewBuffer \in Buffer
  BY DEF NewBuffer
<1>2. Queued(b) \in Buffer
  <2>1. b.out + 1 \in Nat /\ b.write \in BOOLEAN
    OBVIOUS
  <2>2. Queued(b).pending = Queued(b).write
    BY DEF Queued
  <2>3. Queued(b) \in [out : Nat, owed : Nat, write : BOOLEAN,
     pending : BOOLEAN,
                       read : BOOLEAN, should : BOOLEAN, fin : BOOLEAN]
    BY <2>1 DEF Queued
  <2> QED
    BY <2>2, <2>3
<1>3. WriteDisabled(b) \in Buffer
  BY DEF WriteDisabled
<1>4. WriteCallback(b) \in Buffer
  BY DEF WriteCallback, WriteDisabled
<1>5. ASSUME b.pending, NEW n \in 0 .. b.out PROVE Written(b, n) \in Buffer
  <2>1. b.out - n \in Nat /\ (IF n < b.owed THEN b.owed - n ELSE 0) \in Nat
    OBVIOUS
  <2> QED
    BY <1>5, <2>1 DEF Written
<1>6. [b EXCEPT !.read = FALSE] \in Buffer
  OBVIOUS
<1>7. [b EXCEPT !.fin = TRUE] \in Buffer
  OBVIOUS
<1>8. [b EXCEPT !.should = TRUE] \in Buffer
  OBVIOUS
<1>9. [b EXCEPT !.owed = b.out] \in Buffer
  OBVIOUS
<1>10. Enabled(b) \in Buffer
  BY DEF Enabled
<1> QED
  BY <1>1, <1>2, <1>3, <1>4, <1>5, <1>6, <1>7, <1>8, <1>9, <1>10

\* What was queued when Shutdown() was called is still in the queue, until it
\* has gone out, and before the FIN.
Paid(b) == b.owed <= b.out /\ (b.fin => b.owed = 0)

\* Shutdown() has not come to the link.
Early(b) == ~b.should /\ ~b.fin

Keeps(b, c) ==
  /\ Paid(b) => Paid(c)
  /\ Early(b) => Early(c)
  /\ b.owed = 0 => c.owed = 0

\* Everything but Shutdown() keeps that.
LEMMA BufferKeeps ==
  ASSUME NEW b \in Buffer
  PROVE  /\ Keeps(b, b)
         /\ Keeps(b, NewBuffer)
         /\ Keeps(b, Enabled(b))
         /\ Keeps(b, Queued(b))
         /\ Keeps(b, WriteDisabled(b))
         /\ Keeps(b, WriteCallback(b))
         /\ \A n \in 0 .. b.out : Keeps(b, Written(b, n))
<1> USE DEF Keeps, Paid, Early, Buffer
<1>1. Keeps(b, b) /\ Keeps(b, NewBuffer) /\ Keeps(b, Enabled(b))
  BY DEF NewBuffer, Enabled
<1>2. Keeps(b, Queued(b)) /\ Keeps(b, WriteDisabled(b))
  BY DEF Queued, WriteDisabled
<1>3. Keeps(b, WriteCallback(b))
  BY DEF WriteCallback, WriteDisabled
<1>4. ASSUME NEW n \in 0 .. b.out PROVE Keeps(b, Written(b, n))
  BY DEF Written
<1> QED
  BY <1>1, <1>2, <1>3, <1>4

\* Which actions write a bufferevent.
LEMMA BufferWriters ==
  ASSUME [Next]_vars
  PROVE  \/ UNCHANGED buffer
         \/ CreateLink \/ EnableLink
         \/ Send \/ ShutdownSocket \/ DisableWrite \/ ScheduleShutdown
         \/ \E l \in Links :
              WritesOut(l) \/ WriteFails(l) \/ ReadEnds(l) \/ ShutdownLink(l)
<1> USE DEF linkVars, vars
<1>1. ASSUME NEW l \in Links, PeerLeaves(l) PROVE UNCHANGED buffer
  BY <1>1 DEF PeerLeaves
<1>2. ASSUME NEW l \in Links, AcceptConnection(l) PROVE UNCHANGED buffer
  BY <1>2 DEF AcceptConnection
<1>3. CASE DropLink
  BY <1>3 DEF DropLink
<1>4. CASE DestroyOnce
  BY <1>4 DEF DestroyOnce
<1>5. CASE Broadcast
  BY <1>5 DEF Broadcast
<1>6. CASE EndEventCallback
  BY <1>6 DEF EndEventCallback
<1>7. CASE StartTick
  BY <1>7 DEF StartTick
<1>8. ASSUME NEW l \in Links, TickClient(l) PROVE UNCHANGED buffer
  BY <1>8 DEF TickClient
<1>9. ASSUME NEW l \in Links, LoadLink(l) PROVE UNCHANGED buffer
  BY <1>9 DEF LoadLink
<1>10. CASE CheckShutdown
  BY <1>10 DEF CheckShutdown
<1>11. CASE EndTick
  BY <1>11 DEF EndTick
<1>12. CASE CloseListener
  BY <1>12 DEF CloseListener
<1>13. ASSUME NEW l \in Links, ReleaseConns(l) PROVE UNCHANGED buffer
  BY <1>13 DEF ReleaseConns
<1>14. CASE AskRestart
  BY <1>14 DEF AskRestart
<1>15. CASE TickThreadEnded
  BY <1>15 DEF TickThreadEnded
<1>16. ASSUME NEW l \in Links, DestroyClient(l) PROVE UNCHANGED buffer
  BY <1>16 DEF DestroyClient
<1>17. CASE ClearClients
  BY <1>17 DEF ClearClients
<1>18. CASE ListClient
  BY <1>18 DEF ListClient
<1> QED
  BY <1>1, <1>2, <1>3, <1>4, <1>5, <1>6, <1>7, <1>8, <1>9, <1>10, <1>11, <1>12,
     <1>13, <1>14, <1>15, <1>16, <1>17, <1>18
     DEF Next, Accept, Callback, Tick, Shutdown, Ready

LEMMA BufferTyped ==
  ASSUME TypeOK, [Next]_vars PROVE buffer' \in [Links -> Buffer]
<1> USE DEF TypeOK
<1> DEFINE Typed == buffer' \in [Links -> Buffer]
<1>1. ASSUME NEW l \in Links, NEW b \in Buffer,
   buffer' = [buffer EXCEPT ![l] = b]
      PROVE  Typed
  BY <1>1
<1> HIDE DEF Typed
<1>2. \A l \in Links : buffer[l] \in Buffer
  OBVIOUS
<1>3. CASE CreateLink
  <2>1. event.link \in Links
    BY <1>3 DEF CreateLink, EventPosition, InAccept, InCallback
  <2> QED
    BY <1>1, <1>2, <1>3, <2>1, BufferOps DEF CreateLink
<1>14. CASE EnableLink
  <2>1. event.link \in Links
    BY <1>14 DEF EnableLink, EventPosition, InAccept, InCallback
  <2>2. Enabled(buffer[event.link]) \in Buffer
    BY <1>2, <2>1, BufferOps
  <2> QED
    BY <1>1, <1>14, <2>1, <2>2 DEF EnableLink
<1>4. ASSUME NEW l \in Links, WritesOut(l) PROVE Typed
  <2>1. PICK n \in 0 .. buffer[l].out :
          buffer' = [buffer EXCEPT ![l] =
                      IF Written(buffer[l], n).out = 0
                      THEN WriteCallback(Written(buffer[l],
                         n)) ELSE Written(buffer[l], n)]
    BY <1>4 DEF WritesOut
  <2>2. buffer[l].pending
    BY <1>4 DEF WritesOut
  <2>3. Written(buffer[l], n) \in Buffer
    BY <1>2, <2>2, BufferOps
  <2>4. WriteCallback(Written(buffer[l], n)) \in Buffer
    BY <2>3, BufferOps
  <2> QED
    BY <1>1, <2>1, <2>3, <2>4
<1>5. ASSUME NEW l \in Links, WriteFails(l) PROVE Typed
  <2>1. WriteDisabled(buffer[l]) \in Buffer
    BY <1>2, BufferOps
  <2> QED
    BY <1>1, <1>5, <2>1 DEF WriteFails
<1>6. ASSUME NEW l \in Links, ReadEnds(l) PROVE Typed
  BY <1>1, <1>2, <1>6, BufferOps DEF ReadEnds
<1>7. CASE Send
  <2>1. tick.link \in Links
    BY <1>7 DEF Send, TickPosition
  <2>2. Queued(buffer[tick.link]) \in Buffer
    BY <1>2, <2>1, BufferOps
  <2> QED
    BY <1>1, <1>7, <2>1, <2>2 DEF Send
<1>8. ASSUME NEW l \in Links, ShutdownLink(l) PROVE Typed
  BY <1>1, <1>2, <1>8, BufferOps DEF ShutdownLink
<1>9. ASSUME main.pc \in {"shutdown", "disable",
   "schedule"} PROVE main.link \in Links
  BY <1>9 DEF MainPosition
<1>10. CASE ShutdownSocket
  BY <1>1, <1>2, <1>9, <1>10, BufferOps DEF ShutdownSocket
<1>11. CASE DisableWrite
  <2>1. main.link \in Links
    BY <1>9, <1>11 DEF DisableWrite
  <2>2. WriteDisabled(buffer[main.link]) \in Buffer
    BY <1>2, <2>1, BufferOps
  <2> QED
    BY <1>1, <1>11, <2>1, <2>2 DEF DisableWrite
<1>12. CASE ScheduleShutdown
  BY <1>1, <1>2, <1>9, <1>12, BufferOps DEF ScheduleShutdown
<1>13. CASE UNCHANGED buffer
  BY <1>13 DEF Typed
<1> QED
  BY <1>3, <1>4, <1>5, <1>6, <1>7, <1>8, <1>10, <1>11, <1>12, <1>13,
     <1>14, BufferWriters
     DEF Typed

-----------------------------------------------------------------------------
(* Types, locks, shared_ptrs: one step per action *)

\* The rest of the state is typed.
LEMMA TypeStep ==
  ASSUME TypeOK, [Next]_vars, buffer' \in [Links -> Buffer] PROVE TypeOK'
<1> USE LinksAssumption DEF TypeOK, Holder, Thread, EventPosition, TickPosition,
             MainPosition, InAccept, InCallback, linkVars, serverVars, Free
<1>1. ASSUME NEW l \in Links, PeerLeaves(l) PROVE TypeOK'
  BY <1>1 DEF PeerLeaves
<1>2. ASSUME NEW l \in Links, AcceptConnection(l) PROVE TypeOK'
  BY <1>2 DEF AcceptConnection, EventAt, EventIdle
<1>3. CASE ListClient
  BY <1>3 DEF ListClient, EventAt
<1>4. ASSUME NEW l \in Links, WritesOut(l) PROVE TypeOK'
  BY <1>4 DEF WritesOut, Dispatches, SocketFails, EventIdle, Alive
<1>5. ASSUME NEW l \in Links, WriteFails(l) PROVE TypeOK'
  BY <1>5
     DEF WriteFails, Dispatches, SocketFails, EventIdle, BeginEventCallback,
         EventAt, Alive
<1>6. ASSUME NEW l \in Links, ReadEnds(l) PROVE TypeOK'
  BY <1>6
     DEF ReadEnds, Dispatches, EventIdle, BeginEventCallback, EventAt, Alive
<1>7. CASE DropLink
  BY <1>7 DEF DropLink, Drop, EventAt
<1>8. CASE DestroyOnce
  BY <1>8 DEF DestroyOnce, EventAt
<1>9. CASE Broadcast
  BY <1>9 DEF Broadcast, EventAt
<1>10. CASE EndEventCallback
  BY <1>10 DEF EndEventCallback, EventAt, RemoveLink, Holder
<1>11. CASE StartTick
  BY <1>11 DEF StartTick
<1>12. ASSUME NEW l \in Links, TickClient(l) PROVE TypeOK'
  BY <1>12 DEF TickClient
<1>13. ASSUME NEW l \in Links, LoadLink(l) PROVE TypeOK'
  BY <1>13 DEF LoadLink
<1>14. CASE CheckShutdown
  BY <1>14 DEF CheckShutdown, TickGoto
<1>15. CASE Send
  BY <1>15 DEF Send, TickGoto
<1>16. CASE EndTick
  BY <1>16 DEF EndTick, TickGoto, AnswerRestart
<1>17. CASE CloseListener
  BY <1>17 DEF CloseListener, MainAt
<1>18. ASSUME NEW l \in Links, ShutdownLink(l) PROVE TypeOK'
  BY <1>18 DEF ShutdownLink, MainAt, AfterCheck
<1>19. CASE ShutdownSocket
  BY <1>19 DEF ShutdownSocket, MainAt
<1>20. CASE DisableWrite
  BY <1>20 DEF DisableWrite, MainAt
<1>21. CASE ScheduleShutdown
  BY <1>21 DEF ScheduleShutdown, MainAt
<1>22. ASSUME NEW l \in Links, ReleaseConns(l) PROVE TypeOK'
  BY <1>22 DEF ReleaseConns, Drop
<1>23. CASE AskRestart
  BY <1>23 DEF AskRestart, MainAt
<1>24. CASE TickThreadEnded
  BY <1>24 DEF TickThreadEnded, MainAt
<1>25. ASSUME NEW l \in Links, DestroyClient(l) PROVE TypeOK'
  BY <1>25 DEF DestroyClient, Drop, MainAt
<1>26. CASE ClearClients
  BY <1>26 DEF ClearClients, MainAt
<1>27. CASE UNCHANGED vars
  BY <1>27 DEF vars
<1>28. CASE CreateLink
  BY <1>28 DEF CreateLink, EventAt, Created
<1>29. CASE EnableLink
  BY <1>29 DEF EnableLink, EventAt, Created
<1> QED
  BY <1>1, <1>2, <1>3, <1>4, <1>5, <1>6, <1>7, <1>8, <1>9, <1>10, <1>11, <1>12,
     <1>13, <1>14, <1>15, <1>16, <1>17, <1>18, <1>19, <1>20, <1>21, <1>22,
     <1>23, <1>24, <1>25, <1>26, <1>27, <1>28, <1>29
     DEF Next, Accept, Callback, Tick, Shutdown, Ready

\* The locks.
LEMMA LocksStep ==
  ASSUME TypeOK, LocksHeld, [Next]_vars PROVE LocksHeld'
<1> USE LinksAssumption DEF TypeOK, LocksHeld, EventPosition, TickPosition,
             MainPosition, InAccept, InCallback, linkVars, serverVars, Free
<1>1. ASSUME NEW l \in Links, PeerLeaves(l) PROVE LocksHeld'
  BY <1>1 DEF PeerLeaves
<1>2. ASSUME NEW l \in Links, AcceptConnection(l) PROVE LocksHeld'
  BY <1>2 DEF AcceptConnection, EventAt, EventIdle
<1>3. CASE ListClient
  BY <1>3 DEF ListClient, EventAt
<1>4. ASSUME NEW l \in Links, WritesOut(l) PROVE LocksHeld'
  BY <1>4 DEF WritesOut, Dispatches, SocketFails, EventIdle, Alive
<1>5. ASSUME NEW l \in Links, WriteFails(l) PROVE LocksHeld'
  BY <1>5
     DEF WriteFails, Dispatches, SocketFails, EventIdle, BeginEventCallback,
         EventAt, Alive
<1>6. ASSUME NEW l \in Links, ReadEnds(l) PROVE LocksHeld'
  BY <1>6
     DEF ReadEnds, Dispatches, EventIdle, BeginEventCallback, EventAt, Alive
<1>7. CASE DropLink
  BY <1>7 DEF DropLink, Drop, EventAt
<1>8. CASE DestroyOnce
  BY <1>8 DEF DestroyOnce, EventAt
<1>9. CASE Broadcast
  BY <1>9 DEF Broadcast, EventAt
<1>10. CASE EndEventCallback
  BY <1>10 DEF EndEventCallback, EventAt, RemoveLink, Holder
<1>11. CASE StartTick
  BY <1>11 DEF StartTick
<1>12. ASSUME NEW l \in Links, TickClient(l) PROVE LocksHeld'
  BY <1>12 DEF TickClient
<1>13. ASSUME NEW l \in Links, LoadLink(l) PROVE LocksHeld'
  BY <1>13 DEF LoadLink
<1>14. CASE CheckShutdown
  BY <1>14 DEF CheckShutdown, TickGoto
<1>15. CASE Send
  BY <1>15 DEF Send, TickGoto
<1>16. CASE EndTick
  BY <1>16 DEF EndTick, TickGoto, AnswerRestart
<1>17. CASE CloseListener
  BY <1>17 DEF CloseListener, MainAt
<1>18. ASSUME NEW l \in Links, ShutdownLink(l) PROVE LocksHeld'
  BY <1>18 DEF ShutdownLink, MainAt, AfterCheck
<1>19. CASE ShutdownSocket
  BY <1>19 DEF ShutdownSocket, MainAt
<1>20. CASE DisableWrite
  BY <1>20 DEF DisableWrite, MainAt
<1>21. CASE ScheduleShutdown
  BY <1>21 DEF ScheduleShutdown, MainAt
<1>22. ASSUME NEW l \in Links, ReleaseConns(l) PROVE LocksHeld'
  BY <1>22 DEF ReleaseConns, Drop
<1>23. CASE AskRestart
  BY <1>23 DEF AskRestart, MainAt
<1>24. CASE TickThreadEnded
  BY <1>24 DEF TickThreadEnded, MainAt
<1>25. ASSUME NEW l \in Links, DestroyClient(l) PROVE LocksHeld'
  BY <1>25 DEF DestroyClient, Drop, MainAt
<1>26. CASE ClearClients
  BY <1>26 DEF ClearClients, MainAt
<1>27. CASE UNCHANGED vars
  BY <1>27 DEF vars
<1>28. CASE CreateLink
  BY <1>28 DEF CreateLink, EventAt, Created
<1>29. CASE EnableLink
  BY <1>29 DEF EnableLink, EventAt, Created
<1> QED
  BY <1>1, <1>2, <1>3, <1>4, <1>5, <1>6, <1>7, <1>8, <1>9, <1>10, <1>11, <1>12,
     <1>13, <1>14, <1>15, <1>16, <1>17, <1>18, <1>19, <1>20, <1>21, <1>22,
     <1>23, <1>24, <1>25, <1>26, <1>27, <1>28, <1>29
     DEF Next, Accept, Callback, Tick, Shutdown, Ready

\* A link in the hands of the event thread, or of m_Clients, has been made.
LEMMA UnmadeStep ==
  ASSUME TypeOK, Unmade, SelfGoesLast, [Next]_vars PROVE Unmade'
<1> USE LinksAssumption DEF TypeOK, Unmade, SelfGoesLast, EventPosition,
             TickPosition,
             MainPosition, InAccept, InCallback, linkVars, serverVars, Free
<1>1. ASSUME NEW l \in Links, PeerLeaves(l) PROVE Unmade'
  BY <1>1 DEF PeerLeaves
<1>2. ASSUME NEW l \in Links, AcceptConnection(l) PROVE Unmade'
  BY <1>2 DEF AcceptConnection, EventAt, EventIdle
<1>3. CASE ListClient
  BY <1>3 DEF ListClient, EventAt
<1>4. ASSUME NEW l \in Links, WritesOut(l) PROVE Unmade'
  BY <1>4 DEF WritesOut, Dispatches, SocketFails, EventIdle, Alive
<1>5. ASSUME NEW l \in Links, WriteFails(l) PROVE Unmade'
  BY <1>5
     DEF WriteFails, Dispatches, SocketFails, EventIdle, BeginEventCallback,
         EventAt, Alive
<1>6. ASSUME NEW l \in Links, ReadEnds(l) PROVE Unmade'
  BY <1>6
     DEF ReadEnds, Dispatches, EventIdle, BeginEventCallback, EventAt, Alive
<1>7. CASE DropLink
  BY <1>7 DEF DropLink, Drop, EventAt
<1>8. CASE DestroyOnce
  BY <1>8 DEF DestroyOnce, EventAt
<1>9. CASE Broadcast
  BY <1>9 DEF Broadcast, EventAt
<1>10. CASE EndEventCallback
  BY <1>10 DEF EndEventCallback, EventAt, RemoveLink, Holder
<1>11. CASE StartTick
  BY <1>11 DEF StartTick
<1>12. ASSUME NEW l \in Links, TickClient(l) PROVE Unmade'
  BY <1>12 DEF TickClient
<1>13. ASSUME NEW l \in Links, LoadLink(l) PROVE Unmade'
  BY <1>13 DEF LoadLink
<1>14. CASE CheckShutdown
  BY <1>14 DEF CheckShutdown, TickGoto
<1>15. CASE Send
  BY <1>15 DEF Send, TickGoto
<1>16. CASE EndTick
  BY <1>16 DEF EndTick, TickGoto, AnswerRestart
<1>17. CASE CloseListener
  BY <1>17 DEF CloseListener, MainAt
<1>18. ASSUME NEW l \in Links, ShutdownLink(l) PROVE Unmade'
  BY <1>18 DEF ShutdownLink, MainAt
<1>19. CASE ShutdownSocket
  BY <1>19 DEF ShutdownSocket, MainAt
<1>20. CASE DisableWrite
  BY <1>20 DEF DisableWrite, MainAt
<1>21. CASE ScheduleShutdown
  BY <1>21 DEF ScheduleShutdown, MainAt
<1>22. ASSUME NEW l \in Links, ReleaseConns(l) PROVE Unmade'
  BY <1>22 DEF ReleaseConns, Drop
<1>23. CASE AskRestart
  BY <1>23 DEF AskRestart, MainAt
<1>24. CASE TickThreadEnded
  BY <1>24 DEF TickThreadEnded, MainAt
<1>25. ASSUME NEW l \in Links, DestroyClient(l) PROVE Unmade'
  BY <1>25 DEF DestroyClient, Drop, MainAt
<1>26. CASE ClearClients
  BY <1>26 DEF ClearClients, MainAt
<1>27. CASE UNCHANGED vars
  BY <1>27 DEF vars
<1>28. CASE CreateLink
  BY <1>28 DEF CreateLink, EventAt, Created
<1>29. CASE EnableLink
  <2>1. /\ event.pc = "created" /\ event' = [pc |-> "idle", link |-> NoLink]
        /\ UNCHANGED <<peer, listening, main, dead, clients>>
    BY <1>29 DEF EnableLink, EventAt
  <2>2. event.link \in Links /\ refs[event.link] # {}
    BY <2>1
  <2>3. \A l \in Links \ {event.link} : refs'[l] = refs[l]
    BY <1>29 DEF EnableLink
  <2>4. peer[event.link] # "none"
    BY <2>2
  <2> QED
    BY <2>1, <2>2, <2>3, <2>4
<1> QED
  <2>1. CASE Accept \/ Callback
    BY <2>1, <1>3, <1>7, <1>8, <1>9, <1>10, <1>28, <1>29 DEF Accept, Callback
  <2>2. CASE Tick
    BY <2>2, <1>11, <1>12, <1>13, <1>14, <1>15, <1>16 DEF Tick
  <2>3. CASE CloseListener \/ Shutdown
    BY <2>3, <1>17, <1>18, <1>19, <1>20, <1>21, <1>22, <1>23, <1>24, <1>25,
       <1>26 DEF Shutdown
  <2>4. CASE \E l \in Links : PeerLeaves(l) \/ AcceptConnection(l) \/ Ready(l)
    BY <2>4, <1>1, <1>2, <1>4, <1>5, <1>6 DEF Ready
  <2> QED
    BY <1>27, <2>1, <2>2, <2>3, <2>4 DEF Next

\* m_Self.
LEMMA SelfStep ==
  ASSUME TypeOK, LocksHeld, Unmade, SelfGoesLast, ConnsHeld,
     [Next]_vars PROVE SelfGoesLast'
<1> USE LinksAssumption DEF TypeOK, LocksHeld, Unmade, SelfGoesLast, Created,
   EventPosition, TickPosition,
             MainPosition, InAccept, InCallback, linkVars, serverVars, Free
<1>1. ASSUME NEW l \in Links, PeerLeaves(l) PROVE SelfGoesLast'
  BY <1>1 DEF PeerLeaves
<1>2. ASSUME NEW l \in Links, AcceptConnection(l) PROVE SelfGoesLast'
  BY <1>2 DEF AcceptConnection, EventAt, EventIdle
<1>3. CASE ListClient
  BY <1>3 DEF ListClient, EventAt
<1>4. ASSUME NEW l \in Links, WritesOut(l) PROVE SelfGoesLast'
  BY <1>4 DEF WritesOut, Dispatches, SocketFails, EventIdle, Alive
<1>5. ASSUME NEW l \in Links, WriteFails(l) PROVE SelfGoesLast'
  BY <1>5
     DEF WriteFails, Dispatches, SocketFails, EventIdle, BeginEventCallback,
         EventAt, Alive
<1>6. ASSUME NEW l \in Links, ReadEnds(l) PROVE SelfGoesLast'
  BY <1>6
     DEF ReadEnds, Dispatches, EventIdle, BeginEventCallback, EventAt, Alive
<1>7. CASE DropLink
  BY <1>7 DEF DropLink, Drop, EventAt
<1>8. CASE DestroyOnce
  BY <1>8 DEF DestroyOnce, EventAt
<1>9. CASE Broadcast
  BY <1>9 DEF Broadcast, EventAt
<1>10. CASE EndEventCallback
  <2>1. /\ event.pc = "remove" /\ event.link \in Links
        /\ event' = [pc |-> "idle", link |-> NoLink]
        /\ refs' = [refs EXCEPT ![event.link] = @ \ RemoveLink]
        /\ UNCHANGED <<tick, dead>>
    BY <1>10 DEF EndEventCallback, EventAt
  <2>2. refs'[event.link] \subseteq {"Conns"}
    BY <2>1 DEF RemoveLink, Holder
  <2>3. \A l \in Links : l # event.link => refs'[l] = refs[l]
    BY <2>1
  <2> QED
    BY <2>1, <2>2, <2>3
<1>11. CASE StartTick
  BY <1>11 DEF StartTick
<1>12. ASSUME NEW l \in Links, TickClient(l) PROVE SelfGoesLast'
  BY <1>12 DEF TickClient
<1>13. ASSUME NEW l \in Links, LoadLink(l) PROVE SelfGoesLast'
  BY <1>13 DEF LoadLink
<1>14. CASE CheckShutdown
  <2>1. tick.pc = "send" /\ UNCHANGED <<refs, event, dead>>
    BY <1>14 DEF CheckShutdown
  <2>2. tick'.link = tick.link \/ tick'.pc = "next"
    BY <1>14 DEF CheckShutdown, TickGoto
  <2> QED
    BY <2>1, <2>2
<1>15. CASE Send
  BY <1>15 DEF Send, TickGoto
<1>16. CASE EndTick
  BY <1>16 DEF EndTick, TickGoto, AnswerRestart
<1>17. CASE CloseListener
  BY <1>17 DEF CloseListener, MainAt
<1>18. ASSUME NEW l \in Links, ShutdownLink(l) PROVE SelfGoesLast'
  BY <1>18 DEF ShutdownLink, MainAt
<1>19. CASE ShutdownSocket
  BY <1>19 DEF ShutdownSocket, MainAt
<1>20. CASE DisableWrite
  BY <1>20 DEF DisableWrite, MainAt
<1>21. CASE ScheduleShutdown
  BY <1>21 DEF ScheduleShutdown, MainAt
<1>22. ASSUME NEW l \in Links, ReleaseConns(l) PROVE SelfGoesLast'
  BY <1>22 DEF ReleaseConns, Drop
<1>23. CASE AskRestart
  BY <1>23 DEF AskRestart, MainAt
<1>24. CASE TickThreadEnded
  BY <1>24 DEF TickThreadEnded, MainAt
<1>25. ASSUME NEW l \in Links, DestroyClient(l) PROVE SelfGoesLast'
  BY <1>25 DEF DestroyClient, Drop, MainAt
<1>26. CASE ClearClients
  BY <1>26 DEF ClearClients, MainAt
<1>27. CASE UNCHANGED vars
  BY <1>27 DEF vars
<1>28. CASE CreateLink
  BY <1>28 DEF CreateLink, EventAt, Created
<1>29. CASE EnableLink
  BY <1>29 DEF EnableLink, EventAt, Created
<1> QED
  BY <1>1, <1>2, <1>3, <1>4, <1>5, <1>6, <1>7, <1>8, <1>9, <1>10, <1>11, <1>12,
     <1>13, <1>14, <1>15, <1>16, <1>17, <1>18, <1>19, <1>20, <1>21, <1>22,
     <1>23, <1>24, <1>25, <1>26, <1>27, <1>28, <1>29
     DEF Next, Accept, Callback, Tick, Shutdown, Ready

\* Close().
LEMMA ConnsStep ==
  ASSUME TypeOK, Unmade, ConnsHeld, [Next]_vars PROVE ConnsHeld'
<1> USE LinksAssumption DEF TypeOK, Unmade, ConnsHeld, ShutsLinks, ShutsLink,
   EventPosition, TickPosition,
             MainPosition, InAccept, InCallback, linkVars, serverVars, Free
<1>1. ASSUME NEW l \in Links, PeerLeaves(l) PROVE ConnsHeld'
  BY <1>1 DEF PeerLeaves
<1>2. ASSUME NEW l \in Links, AcceptConnection(l) PROVE ConnsHeld'
  BY <1>2 DEF AcceptConnection, EventAt, EventIdle
<1>3. CASE ListClient
  BY <1>3 DEF ListClient, EventAt
<1>4. ASSUME NEW l \in Links, WritesOut(l) PROVE ConnsHeld'
  BY <1>4 DEF WritesOut, Dispatches, SocketFails, EventIdle, Alive
<1>5. ASSUME NEW l \in Links, WriteFails(l) PROVE ConnsHeld'
  BY <1>5
     DEF WriteFails, Dispatches, SocketFails, EventIdle, BeginEventCallback,
         EventAt, Alive
<1>6. ASSUME NEW l \in Links, ReadEnds(l) PROVE ConnsHeld'
  BY <1>6
     DEF ReadEnds, Dispatches, EventIdle, BeginEventCallback, EventAt, Alive
<1>7. CASE DropLink
  BY <1>7 DEF DropLink, Drop, EventAt
<1>8. CASE DestroyOnce
  BY <1>8 DEF DestroyOnce, EventAt
<1>9. CASE Broadcast
  BY <1>9 DEF Broadcast, EventAt
<1>10. CASE EndEventCallback
  BY <1>10 DEF EndEventCallback, EventAt, RemoveLink, Holder
<1>11. CASE StartTick
  BY <1>11 DEF StartTick
<1>12. ASSUME NEW l \in Links, TickClient(l) PROVE ConnsHeld'
  BY <1>12 DEF TickClient
<1>13. ASSUME NEW l \in Links, LoadLink(l) PROVE ConnsHeld'
  BY <1>13 DEF LoadLink
<1>14. CASE CheckShutdown
  BY <1>14 DEF CheckShutdown, TickGoto
<1>15. CASE Send
  BY <1>15 DEF Send, TickGoto
<1>16. CASE EndTick
  BY <1>16 DEF EndTick, TickGoto, AnswerRestart
<1>17. CASE CloseListener
  BY <1>17 DEF CloseListener, MainAt
<1>18. ASSUME NEW l \in Links, ShutdownLink(l) PROVE ConnsHeld'
  BY <1>18 DEF ShutdownLink, MainAt, AfterCheck
<1>19. CASE ShutdownSocket
  BY <1>19 DEF ShutdownSocket, MainAt
<1>20. CASE DisableWrite
  BY <1>20 DEF DisableWrite, MainAt
<1>21. CASE ScheduleShutdown
  BY <1>21 DEF ScheduleShutdown, MainAt
<1>22. ASSUME NEW l \in Links, ReleaseConns(l) PROVE ConnsHeld'
  BY <1>22 DEF ReleaseConns, Drop
<1>23. CASE AskRestart
  BY <1>23 DEF AskRestart, MainAt
<1>24. CASE TickThreadEnded
  BY <1>24 DEF TickThreadEnded, MainAt
<1>25. ASSUME NEW l \in Links, DestroyClient(l) PROVE ConnsHeld'
  BY <1>25 DEF DestroyClient, Drop, MainAt
<1>26. CASE ClearClients
  BY <1>26 DEF ClearClients, MainAt
<1>27. CASE UNCHANGED vars
  BY <1>27 DEF vars
<1>28. CASE CreateLink
  BY <1>28 DEF CreateLink, EventAt, Created
<1>29. CASE EnableLink
  BY <1>29 DEF EnableLink, EventAt, Created
<1> QED
  BY <1>1, <1>2, <1>3, <1>4, <1>5, <1>6, <1>7, <1>8, <1>9, <1>10, <1>11, <1>12,
     <1>13, <1>14, <1>15, <1>16, <1>17, <1>18, <1>19, <1>20, <1>21, <1>22,
     <1>23, <1>24, <1>25, <1>26, <1>27, <1>28, <1>29
     DEF Next, Accept, Callback, Tick, Shutdown, Ready

-----------------------------------------------------------------------------
(* What is owed *)

\* Shutdown() has not come to the link yet.
Calm(l) == main.pc = "run" \/ (ShutsLinks /\ l \in main.todo)

\* Shutdown() comes to a link once, and finds nothing to send only if it looks.
LEMMA MainSteps ==
  ASSUME TypeOK, [Next]_vars
  PROVE  /\ \A l \in Links : Calm(l)' => Calm(l)
         /\ main'.pc = "shutdown"
              => UNCHANGED main \/ \E l \in Links : ShutdownLink(l)
<1> USE DEF Calm, ShutsLinks
<1> DEFINE Goal ==
      /\ \A l \in Links : Calm(l)' => Calm(l)
      /\ main'.pc = "shutdown" => UNCHANGED main \/ \E l \in Links : ShutdownLink(l)
<1>1. CASE UNCHANGED main
  BY <1>1
<1>2. CASE CloseListener
  BY <1>2 DEF CloseListener, MainAt
<1>3. ASSUME NEW l \in Links, ShutdownLink(l) PROVE Goal
  BY <1>3 DEF ShutdownLink, MainAt, AfterCheck
<1>4. CASE ShutdownSocket
  BY <1>4 DEF ShutdownSocket, MainAt
<1>5. CASE DisableWrite
  BY <1>5 DEF DisableWrite, MainAt
<1>6. CASE ScheduleShutdown
  BY <1>6 DEF ScheduleShutdown, MainAt
<1>7. CASE AskRestart
  BY <1>7 DEF AskRestart, MainAt
<1>8. CASE TickThreadEnded
  BY <1>8 DEF TickThreadEnded, MainAt
<1>9. ASSUME NEW l \in Links, DestroyClient(l) PROVE Goal
  BY <1>9 DEF DestroyClient, MainAt
<1>10. CASE ClearClients
  BY <1>10 DEF ClearClients, MainAt
<1>11. CASE Accept \/ Callback \/ Tick
  BY <1>1, <1>11
     DEF Accept, ListClient, CreateLink, EnableLink, Callback, DropLink, DestroyOnce,
         Broadcast, EndEventCallback,
         Tick, StartTick, CheckShutdown, Send, EndTick, TickClient, LoadLink
<1>12. ASSUME NEW l \in Links, PeerLeaves(l) \/ AcceptConnection(l) \/ Ready(l)
       PROVE  Goal
  BY <1>1, <1>12
     DEF PeerLeaves, AcceptConnection, Ready, WritesOut, WriteFails, ReadEnds,
         BeginEventCallback
<1>13. ASSUME NEW l \in Links, ReleaseConns(l) PROVE Goal
  BY <1>1, <1>13 DEF ReleaseConns
<1> QED
  BY <1>1, <1>2, <1>3, <1>4, <1>5, <1>6, <1>7, <1>8, <1>9, <1>10, <1>11, <1>12,
     <1>13 DEF Next, Shutdown, vars

\* What is done to the link at hand, and to no other.
LEMMA BufferSteps ==
  ASSUME TypeOK, [Next]_vars
  PROVE  \/ \A l \in Links : Keeps(buffer[l], buffer'[l])
         \/ ShutdownSocket \/ ScheduleShutdown
         \/ \E l \in Links : ShutdownLink(l)
<1> DEFINE Kept == \A l \in Links : Keeps(buffer[l], buffer'[l])
<1>1. \A l \in Links : buffer[l] \in Buffer
  BY DEF TypeOK
<1>2. ASSUME NEW k \in Links, NEW b, Keeps(buffer[k], b),
             buffer' = [buffer EXCEPT ![k] = b]
      PROVE  Kept
  BY <1>1, <1>2, BufferKeeps DEF TypeOK
<1> HIDE DEF Kept
<1>3. CASE CreateLink
  <2>1. event.link \in Links
    BY <1>3 DEF CreateLink, TypeOK, EventPosition, InAccept, InCallback
  <2> QED
    BY <1>1, <1>2, <1>3, <2>1, BufferKeeps DEF CreateLink
<1>10. CASE EnableLink
  <2>1. event.link \in Links
    BY <1>10 DEF EnableLink, TypeOK, EventPosition, InAccept, InCallback
  <2>2. Keeps(buffer[event.link], Enabled(buffer[event.link]))
    BY <1>1, <2>1, BufferKeeps
  <2>3. buffer' = [buffer EXCEPT ![event.link] = Enabled(buffer[event.link])]
    BY <1>10 DEF EnableLink
  <2>4. Kept
    BY <1>2, <2>1, <2>2, <2>3
  <2> QED
    BY <2>4 DEF Kept
<1>4. ASSUME NEW l \in Links, WritesOut(l) PROVE Kept
  <2>1. PICK n \in 0 .. buffer[l].out :
          buffer' = [buffer EXCEPT ![l] =
                      IF Written(buffer[l], n).out = 0
                      THEN WriteCallback(Written(buffer[l],
                         n)) ELSE Written(buffer[l], n)]
    BY <1>4 DEF WritesOut
  <2>2. Written(buffer[l], n) \in Buffer
    BY <1>1, <1>4, BufferOps DEF WritesOut
  <2>3. Keeps(buffer[l], Written(buffer[l], n))
    BY <1>1, BufferKeeps
  <2>4. Keeps(buffer[l], WriteCallback(Written(buffer[l], n)))
    BY <2>2, <2>3, BufferKeeps DEF Keeps
  <2> QED
    BY <1>2, <2>1, <2>3, <2>4
<1>5. ASSUME NEW l \in Links, WriteFails(l) PROVE Kept
  BY <1>1, <1>2, <1>5, BufferKeeps DEF WriteFails
<1>6. ASSUME NEW l \in Links, ReadEnds(l) PROVE Kept
  <2>1. Keeps(buffer[l], [buffer[l] EXCEPT !.read = FALSE])
    BY <1>1 DEF Keeps, Paid, Early, Buffer
  <2> QED
    BY <1>2, <1>6, <2>1 DEF ReadEnds
<1>7. CASE Send
  <2>1. tick.link \in Links
    BY <1>7 DEF Send, TypeOK, TickPosition
  <2> QED
    BY <1>1, <1>2, <1>7, <2>1, BufferKeeps DEF Send
<1>8. CASE DisableWrite
  <2>1. main.link \in Links
    BY <1>8 DEF DisableWrite, TypeOK, MainPosition
  <2> QED
    BY <1>1, <1>2, <1>8, <2>1, BufferKeeps DEF DisableWrite
<1>9. CASE UNCHANGED buffer
  BY <1>1, <1>9, BufferKeeps DEF Kept
<1> QED
  BY <1>3, <1>4, <1>5, <1>6, <1>7, <1>8, <1>9, <1>10, BufferWriters DEF Kept

Fine(l) ==
  /\ Paid(buffer[l])
  /\ Calm(l) => Early(buffer[l])
  /\ main.pc = "shutdown" /\ main.link = l => buffer[l].owed = 0

LEMMA OwedStep ==
  ASSUME TypeOK, ConnsHeld, OwedQueued, QueuedBeforeFin, [Next]_vars,
         buffer' \in [Links -> Buffer]
  PROVE  OwedQueued' /\ QueuedBeforeFin'
<1> USE DEF Fine
<1>1. \A l \in Links : Fine(l)
  BY DEF OwedQueued, QueuedBeforeFin, Paid, Early, Calm
<1>2. \A l \in Links : Calm(l)' => Calm(l)
  BY MainSteps
<1>3. ASSUME \A l \in Links : Keeps(buffer[l], buffer'[l]),
             \A l \in Links : ~ShutdownLink(l)
      PROVE  \A l \in Links : Fine(l)'
  <2>1. CASE UNCHANGED main
    BY <1>1, <1>2, <1>3, <2>1 DEF Keeps
  <2>2. CASE main'.pc # "shutdown"
    BY <1>1, <1>2, <1>3, <2>2 DEF Keeps
  <2> QED
    BY <1>3, <2>1, <2>2, MainSteps
<1>4. ASSUME ShutdownSocket PROVE \A l \in Links : Fine(l)'
  <2>1. PICK k \in Links : k = main.link
    BY <1>4 DEF ShutdownSocket, TypeOK, MainPosition
  <2>2. ~Calm(k)'
    BY <1>4, <2>1
       DEF ShutdownSocket, MainAt, ConnsHeld, ShutsLink, Calm, ShutsLinks
  <2>3. Fine(k)'
    BY <1>1, <1>4, <2>1, <2>2 DEF ShutdownSocket, MainAt, Paid, TypeOK, Buffer
  <2>4. ASSUME NEW l \in Links, l # k PROVE Fine(l)'
    BY <1>1, <1>2, <1>4, <2>1, <2>4 DEF ShutdownSocket, MainAt, TypeOK
  <2> QED
    BY <2>3, <2>4
<1>5. ASSUME ScheduleShutdown PROVE \A l \in Links : Fine(l)'
  <2>1. PICK k \in Links : k = main.link
    BY <1>5 DEF ScheduleShutdown, TypeOK, MainPosition
  <2>2. ~Calm(k)'
    BY <1>5, <2>1
       DEF ScheduleShutdown, MainAt, ConnsHeld, ShutsLink, Calm, ShutsLinks
  <2>3. Fine(k)'
    BY <1>1, <1>5, <2>1, <2>2 DEF ScheduleShutdown, MainAt, Paid, TypeOK, Buffer
  <2>4. ASSUME NEW l \in Links, l # k PROVE Fine(l)'
    BY <1>1, <1>2, <1>5, <2>1, <2>4 DEF ScheduleShutdown, MainAt, TypeOK
  <2> QED
    BY <2>3, <2>4
<1>6. ASSUME NEW k \in Links, ShutdownLink(k) PROVE \A l \in Links : Fine(l)'
  <2>1. buffer[k] \in Buffer /\ buffer'[k] = [buffer[k] EXCEPT !.owed = buffer[k].out]
    BY <1>6 DEF ShutdownLink, TypeOK
  <2>2. main.pc = "links" /\ k \in main.todo
    BY <1>6 DEF ShutdownLink
  <2>3. Early(buffer[k])
    BY <1>1, <2>2 DEF Calm, ShutsLinks
  <2>4. Paid(buffer'[k]) /\ Early(buffer'[k])
    BY <2>1, <2>3 DEF Paid, Early, Buffer
  <2>5. main'.pc = "shutdown" => main'.link = k /\ buffer'[k].owed = 0
    BY <1>6, <2>1 DEF ShutdownLink, MainAt, AfterCheck, Buffer
  <2>6. \A l \in Links : l # k => buffer'[l] = buffer[l]
    BY <1>6 DEF ShutdownLink, TypeOK
  <2> QED
    BY <1>1, <1>2, <2>4, <2>5, <2>6
<1>7. \A l \in Links : Fine(l)'
  BY <1>3, <1>4, <1>5, <1>6, BufferSteps
<1> QED
  <2>1. main'.pc = "shutdown" => main'.link \in Links
    <3>1. ASSUME NEW k \in Links, ShutdownLink(k) PROVE main'.link \in Links
      BY <3>1 DEF ShutdownLink, MainAt
    <3>2. main'.pc = "shutdown" /\ UNCHANGED main => main'.link \in Links
      BY DEF TypeOK, MainPosition
    <3> QED
      BY <3>1, <3>2, MainSteps
  <2> QED
    BY <1>7, <2>1 DEF OwedQueued, QueuedBeforeFin, Paid, Early, Calm

-----------------------------------------------------------------------------
(* The theorems *)

LEMMA InitInductive ==
  ASSUME Init PROVE Inductive
<1> USE LinksAssumption, BoundsAssumption DEF Init, Free
<1>1. TypeOK
  BY BufferOps
     DEF TypeOK, Thread, Buffer, NewBuffer, EventPosition, TickPosition,
         MainPosition
<1>2. LocksHeld /\ Unmade /\ SelfGoesLast /\ ConnsHeld
  BY
     DEF LocksHeld, Unmade, SelfGoesLast, ConnsHeld, ShutsLinks, ShutsLink,
         InAccept, InCallback
<1>3. OwedQueued /\ QueuedBeforeFin
  BY DEF OwedQueued, QueuedBeforeFin, NewBuffer, ShutsLinks
<1> QED
  BY <1>1, <1>2, <1>3 DEF Inductive

LEMMA NextInductive ==
  ASSUME Inductive, [Next]_vars PROVE Inductive'
<1> USE DEF Inductive
<1>1. buffer' \in [Links -> Buffer]
  BY BufferTyped
<1>2. TypeOK'
  BY <1>1, TypeStep
<1>3. LocksHeld' /\ Unmade' /\ SelfGoesLast' /\ ConnsHeld'
  BY LocksStep, UnmadeStep, SelfStep, ConnsStep
<1>4. OwedQueued' /\ QueuedBeforeFin'
  BY <1>1, OwedStep
<1> QED
  BY <1>2, <1>3, <1>4

LEMMA Invariance == Spec => []Inductive
<1>1. Init => Inductive
  BY InitInductive
<1>2. Inductive /\ [Next]_vars => Inductive'
  BY NextInductive
<1> QED
  BY <1>1, <1>2, PTL DEF Spec

\* The state stays well formed: threads are at links that there are, and
\* LibEvent is asked to write only while writing is enabled.
THEOREM TypeCorrect == Spec => []TypeOK
<1>1. Inductive => TypeOK
  BY DEF Inductive
<1> QED
  BY <1>1, Invariance, PTL

\* No thread is inside a destroyed link: the raw m_Link the tick thread sends
\* on, the link of a callback, the link Close() shuts down.
THEOREM UsedLinksLive == Spec => []LinkAliveInUse
<1>1. Inductive => LinkAliveInUse
  BY
     DEF Inductive, SelfGoesLast, Created, ConnsHeld, ShutsLink, LinkAliveInUse,
         Alive, InCallback
<1> QED
  BY <1>1, Invariance, PTL

\* Resetting a client's m_Link never destroys the link.
THEOREM ClientsNeverLast == Spec => []ClientNeverLast
<1>1. ASSUME Inductive, NEW l \in Links PROVE refs[l] # {"m_Link"}
  <2>1. CASE "m_Self" \in refs[l]
    BY <2>1
  <2>2. CASE Created(l)
    <3>1. "Link" \in refs[l]
      BY <1>1, <2>2 DEF Inductive, SelfGoesLast, Created
    <3> QED
      BY <3>1
  <2>3. CASE refs[l] \subseteq {"Conns"}
    BY <2>3
  <2> QED
    BY <1>1, <2>1, <2>2, <2>3 DEF Inductive, SelfGoesLast
<1>2. Inductive => ClientNeverLast
  BY <1>1 DEF ClientNeverLast
<1> QED
  BY <1>2, Invariance, PTL

\* The FIN of a shutdown comes after what was queued when it began.
THEOREM FinComesLast == Spec => []QueuedBeforeFin
<1>1. Inductive => QueuedBeforeFin
  BY DEF Inductive
<1> QED
  BY <1>1, Invariance, PTL

\* A callback finds m_Self gone only while Close() holds the link.
THEOREM SelfKept == Spec => []SelfInCallback
<1>1. Inductive => SelfInCallback
  <2> SUFFICES ASSUME Inductive, event.pc = "crashed" PROVE SelfInCallback
    BY DEF SelfInCallback
  <2>1. event.link \in Links /\ "Conns" \in refs[event.link]
    BY DEF Inductive, TypeOK, EventPosition, InAccept, InCallback, SelfGoesLast
  <2> QED
    BY <2>1 DEF Inductive, ConnsHeld, ShutsLinks, SelfInCallback
<1> QED
  BY <1>1, Invariance, PTL

-----------------------------------------------------------------------------
(* m_Clients, as ServerCore has it *)

\* An accepted client is listed until it is dead, and Shutdown() kills all.
LEMMA ListedStep ==
  ASSUME TypeOK, LocksHeld, Unmade, ListedOrDead, [Next]_vars PROVE ListedOrDead'
<1> USE DEF TypeOK, LocksHeld, ListedOrDead, EventPosition, TickPosition,
            MainPosition, InAccept, InCallback, linkVars, serverVars, Free
<1>1. ASSUME NEW l \in Links, PeerLeaves(l) PROVE ListedOrDead'
  BY <1>1 DEF PeerLeaves
<1>2. ASSUME NEW l \in Links, AcceptConnection(l) PROVE ListedOrDead'
  BY <1>2 DEF AcceptConnection, EventAt, EventIdle
<1>3. CASE ListClient
  BY <1>3 DEF ListClient, EventAt
<1>4. ASSUME NEW l \in Links, WritesOut(l) PROVE ListedOrDead'
  BY <1>4 DEF WritesOut
<1>5. ASSUME NEW l \in Links, WriteFails(l) PROVE ListedOrDead'
  BY <1>5 DEF WriteFails, BeginEventCallback, EventAt
<1>6. ASSUME NEW l \in Links, ReadEnds(l) PROVE ListedOrDead'
  BY <1>6 DEF ReadEnds, BeginEventCallback, EventAt
<1>7. CASE DropLink
  BY <1>7 DEF DropLink, Drop, EventAt
<1>8. CASE DestroyOnce
  BY <1>8 DEF DestroyOnce, EventAt
<1>9. CASE Broadcast
  BY <1>9 DEF Broadcast, EventAt
<1>10. CASE EndEventCallback
  BY <1>10 DEF EndEventCallback, EventAt, RemoveLink
<1>11. CASE StartTick
  BY <1>11 DEF StartTick
<1>12. ASSUME NEW l \in Links, TickClient(l) PROVE ListedOrDead'
  BY <1>12 DEF TickClient
<1>13. ASSUME NEW l \in Links, LoadLink(l) PROVE ListedOrDead'
  BY <1>13 DEF LoadLink
<1>14. CASE CheckShutdown
  BY <1>14 DEF CheckShutdown
<1>15. CASE Send
  BY <1>15 DEF Send
<1>16. CASE EndTick
  BY <1>16 DEF EndTick
<1>17. CASE CloseListener
  BY <1>17 DEF CloseListener, MainAt
<1>18. ASSUME NEW l \in Links, ShutdownLink(l) PROVE ListedOrDead'
  BY <1>18 DEF ShutdownLink, MainAt, AfterCheck
<1>19. CASE ShutdownSocket
  BY <1>19 DEF ShutdownSocket, MainAt
<1>20. CASE DisableWrite
  BY <1>20 DEF DisableWrite, MainAt
<1>21. CASE ScheduleShutdown
  BY <1>21 DEF ScheduleShutdown, MainAt
<1>22. ASSUME NEW l \in Links, ReleaseConns(l) PROVE ListedOrDead'
  BY <1>22 DEF ReleaseConns, Drop
<1>23. CASE AskRestart
  BY <1>23 DEF AskRestart, MainAt
<1>24. CASE TickThreadEnded
  BY <1>24 DEF TickThreadEnded, MainAt
<1>25. ASSUME NEW l \in Links, DestroyClient(l) PROVE ListedOrDead'
  BY <1>25 DEF DestroyClient, Drop, MainAt
<1>26. CASE ClearClients
  BY <1>26 DEF ClearClients, MainAt
<1>27. CASE UNCHANGED vars
  BY <1>27 DEF vars
<1>28. CASE CreateLink
  BY <1>28 DEF CreateLink, EventAt, Unmade
<1>29. CASE EnableLink
  BY <1>29 DEF EnableLink, EventAt
<1> QED
  BY <1>1, <1>2, <1>3, <1>4, <1>5, <1>6, <1>7, <1>8, <1>9, <1>10, <1>11, <1>12,
     <1>13, <1>14, <1>15, <1>16, <1>17, <1>18, <1>19, <1>20, <1>21, <1>22,
     <1>23, <1>24, <1>25, <1>26, <1>27, <1>28, <1>29
     DEF Next, Accept, Callback, Tick, Shutdown, Ready

\* Each step of a thread is a step of ClientList, or one it does not see.
LEMMA ListStep ==
  ASSUME Inductive, ListedOrDead, [Next]_vars PROVE [List!Next]_List!listVars
<1> USE DEF Inductive, TypeOK, LocksHeld, Unmade, SelfGoesLast, ListedOrDead,
            EventPosition, TickPosition, MainPosition, InAccept, InCallback, linkVars,
            serverVars, Free, List!Free, List!listVars
<1> DEFINE linked == {l \in Links : "m_Link" \in refs[l]}
           entering == IF event.pc = "listed" THEN {event.link} ELSE {}
           Quiet == /\ UNCHANGED <<clients, dead, csClients>>
                    /\ linked' = linked /\ entering' = entering
<1>1. CASE ListClient
  <2>1. /\ event.link \in Links /\ peer[event.link] = "none"
        /\ clients' = clients \cup {event.link}
        /\ csClients = Free /\ UNCHANGED <<refs, dead, csClients>>
    BY <1>1 DEF ListClient
  <2>2. event.link \notin clients \cup linked \cup dead
    BY <1>1, <2>1 DEF ListClient
  <2>3. entering = {} /\ entering' = {event.link}
    BY <1>1 DEF ListClient, EventAt
  <2> QED
    BY <2>1, <2>2, <2>3 DEF List!Next, List!Enter
<1>2. CASE CreateLink
  <2>1. /\ event.link \in Links
        /\ refs' = [refs EXCEPT ![event.link] = {"Link", "m_Connections", "m_Link"}]
        /\ UNCHANGED <<clients, dead, csClients>>
    BY <1>2 DEF CreateLink
  <2>2. linked' = linked \cup {event.link}
    BY <2>1
  <2>3. event.link \in entering /\ entering' = {}
    BY <1>2 DEF CreateLink, EventAt
  <2> QED
    BY <2>1, <2>2, <2>3 DEF List!Next, List!Link
<1>3. CASE EnableLink
  BY <1>3 DEF EnableLink, EventAt
<1>4. CASE DropLink
  <2>1. /\ event.link \in Links
        /\ refs' = [refs EXCEPT ![event.link] = @ \ {"m_Link"}]
        /\ UNCHANGED <<clients, dead, csClients>>
    BY <1>4 DEF DropLink, Drop
  <2>2. linked' = linked \ {event.link}
    BY <2>1
  <2>3. entering = {} /\ entering' = {}
    BY <1>4 DEF DropLink, EventAt
  <2> QED
    BY <2>1, <2>2, <2>3 DEF List!Next, List!Unlink
<1>5. CASE DestroyOnce
  <2>1. /\ event.link \in Links /\ "m_Link" \notin refs[event.link]
        /\ dead' = dead \cup {event.link}
        /\ UNCHANGED <<refs, clients, csClients>>
    BY <1>5 DEF DestroyOnce
  <2>2. linked' = linked \ {event.link}
    BY <2>1
  <2>3. peer[event.link] # "none"
    BY <1>5 DEF DestroyOnce
  <2>4. event.link \in clients \/ dead' = dead
    BY <2>1, <2>3
  <2>5. entering = {} /\ entering' = {}
    BY <1>5 DEF DestroyOnce, EventAt
  <2> QED
    BY <2>1, <2>2, <2>4, <2>5 DEF List!Next, List!Kill
<1>6. ASSUME NEW l \in Links, TickClient(l) PROVE [List!Next]_List!listVars
  <2>1. /\ csClients = "tick"
        /\ clients' = IF l \in dead THEN clients \ {l} ELSE clients
        /\ UNCHANGED <<refs, dead, csClients, event>>
    BY <1>6 DEF TickClient
  <2>2. l \in dead => List!Remove(l)
    BY <2>1 DEF List!Remove
  <2> QED
    BY <2>1, <2>2 DEF List!Next
<1>7. ASSUME NEW l \in Links, DestroyClient(l) PROVE [List!Next]_List!listVars
  <2>1. /\ refs' = [refs EXCEPT ![l] = @ \ {"m_Link"}]
        /\ dead' = dead \cup {l}
        /\ UNCHANGED <<clients, csClients, event>>
    BY <1>7 DEF DestroyClient, Drop
  <2>2. linked' = linked \ {l}
    BY <2>1
  <2>3. peer[l] # "none"
    BY <1>7 DEF DestroyClient
  <2>4. l \in clients \/ (dead' = dead /\ List!Unlink(l))
    BY <2>1, <2>2, <2>3 DEF List!Unlink
  <2>5. entering = {}
    BY <1>7 DEF DestroyClient
  <2>6. l \in clients => List!Kill(l)
    BY <2>1, <2>2, <2>5 DEF List!Kill
  <2> QED
    BY <2>4, <2>6 DEF List!Next
<1>8. CASE StartTick \/ TickThreadEnded
  <2>1. /\ csClients = Free /\ csClients' \in {"tick", "main"}
        /\ UNCHANGED <<refs, clients, dead, event>>
    BY <1>8 DEF StartTick, TickThreadEnded
  <2> QED
    BY <2>1 DEF List!Next, List!Take
<1>9. CASE EndTick
  <2>1. csClients' = Free /\ UNCHANGED <<refs, clients, dead, event>>
    BY <1>9 DEF EndTick
  <2> QED
    BY <2>1 DEF List!Next, List!Release
<1>10. CASE ClearClients
  <2>1. /\ csClients = "main" /\ clients \subseteq dead
        /\ clients' = {} /\ csClients' = Free /\ UNCHANGED <<refs, dead, event>>
    BY <1>10 DEF ClearClients
  <2> QED
    BY <2>1 DEF List!Next, List!Clear
<1>11. ASSUME NEW l \in Links,
             PeerLeaves(l) \/ WritesOut(l) \/ LoadLink(l) \/ ShutdownLink(l)
      PROVE  Quiet
  <2>1. CASE PeerLeaves(l)
    BY <2>1 DEF PeerLeaves
  <2>2. CASE WritesOut(l)
    BY <2>2 DEF WritesOut
  <2>3. CASE LoadLink(l)
    BY <2>3 DEF LoadLink
  <2>4. CASE ShutdownLink(l)
    BY <2>4 DEF ShutdownLink
  <2> QED
    BY <1>11, <2>1, <2>2, <2>3, <2>4
<1>12. ASSUME NEW l \in Links, AcceptConnection(l) PROVE Quiet
  BY <1>12 DEF AcceptConnection, EventIdle, EventAt
<1>13. CASE Broadcast
  BY <1>13 DEF Broadcast, EventAt
<1>14. CASE CheckShutdown \/ Send \/ ShutdownSocket \/ DisableWrite
              \/ ScheduleShutdown \/ AskRestart \/ UNCHANGED vars
  <2>1. UNCHANGED <<refs, clients, dead, csClients, event>>
    BY <1>14
    DEF CheckShutdown, Send, ShutdownSocket, DisableWrite,
        ScheduleShutdown, AskRestart, vars
  <2> QED
    BY <2>1
\* m_Link is not among the references these drop or add.
<1>15. ASSUME NEW l \in Links, WriteFails(l) \/ ReadEnds(l) PROVE Quiet
  BY <1>15
     DEF WriteFails, ReadEnds, Dispatches, EventIdle, BeginEventCallback, EventAt
<1>16. CASE EndEventCallback
  BY <1>16 DEF EndEventCallback, EventAt, RemoveLink
<1>17. CASE CloseListener
  BY <1>17 DEF CloseListener
<1>18. ASSUME NEW l \in Links, ReleaseConns(l) PROVE Quiet
  BY <1>18 DEF ReleaseConns, Drop
<1>19. Quiet => UNCHANGED List!listVars
  OBVIOUS
<1> HIDE DEF Quiet
<1> QED
  <2>1. CASE Accept \/ Callback
    BY <2>1, <1>1, <1>2, <1>3, <1>4, <1>5, <1>13, <1>16, <1>19 DEF Accept, Callback
  <2>2. CASE Tick
    BY <2>2, <1>6, <1>8, <1>9, <1>11, <1>14, <1>19 DEF Tick
  <2>3. CASE CloseListener \/ Shutdown
    BY <2>3, <1>7, <1>8, <1>10, <1>11, <1>14, <1>17, <1>18, <1>19 DEF Shutdown
  <2>4. CASE \E l \in Links : PeerLeaves(l) \/ AcceptConnection(l) \/ Ready(l)
    BY <2>4, <1>11, <1>12, <1>15, <1>19 DEF Ready
  <2> QED
    BY <1>14, <2>1, <2>2, <2>3, <2>4 DEF Next

\* A client enters m_Clients under the lock and without a link, which it gets,
\* with no lock, before anything can end it; it loses the link before or with its
\* life, and leaves m_Clients dead and under the lock.
THEOREM ListKept == Spec => KeepsClientList
<1>1. Init => ListedOrDead /\ List!Init
  BY DEF Init, ListedOrDead, List!Init, List!Free, Free
<1>2. Inductive => TypeOK /\ LocksHeld /\ Unmade
  BY DEF Inductive
<1> QED
  BY <1>1, <1>2, ListedStep, ListStep, Invariance, PTL
  DEF Spec, KeepsClientList, List!Spec

-----------------------------------------------------------------------------
(* Deadlocks *)

\* Threads wait for each other in a circle only as in NoDeadlock.
THEOREM NoOtherDeadlock == Spec => []OneDeadlock
<1>1. ASSUME Inductive PROVE OneDeadlock
  <2> USE <1>1 DEF Inductive, TypeOK, LocksHeld, SelfGoesLast, EventPosition,
                   TickPosition, MainPosition, InAccept, InCallback, Created, Free
  <2> USE DEF MayWaitFor, WaitsFor, NeedsClients, NeedsLink
  <2>1. \A u \in Thread : MayWaitFor("event", u) =>
          event.pc \in {"accepting", "broadcast"} /\ csClients = u
    BY DEF Thread
  <2>2. \A u \in Thread : MayWaitFor("tick", u) =>
          \/ tick.pc = "idle" /\ csClients = u
          \/ tick.pc = "write" /\ owner[tick.link] = u
    BY DEF Thread
  <2>3. \A l \in Links : owner[l] # Free =>
          owner[l] = "event" /\ event.pc \in InCallback /\ event.link = l
    OBVIOUS
  <2>4. csClients # "event"
    BY DEF Thread
  \* Nobody waits for the main thread: it holds m_CSClients only at the end,
  \* where it waits for nobody.
  <2>5. \A t \in {"event", "tick"} : ~MayWaitFor(t, "main") \/ main.pc = "clients"
    BY <2>1, <2>2, <2>3 DEF Thread
  <2>6. main.pc = "clients" => \A u \in Thread : ~MayWaitFor("main", u)
    OBVIOUS
  <2>7. ~MayWaitFor("main", "main")
    BY <2>3
  <2> HIDE DEF MayWaitFor
  <2>8. ~MayWaitFor("event", "event") /\ ~MayWaitFor("tick", "tick")
    BY <2>1, <2>2, <2>3, <2>4 DEF Thread
  <2>9. ASSUME NEW S \in SUBSET Thread, S # {},
               \A t \in S : \E u \in S : MayWaitFor(t, u)
        PROVE  /\ {"event", "tick"} \subseteq S
               /\ MayWaitFor("event", "tick") /\ MayWaitFor("tick", "event")
    <3>1. ASSUME NEW t \in S, t \in {"event", "tick"}
          PROVE  ~MayWaitFor(t, "main") \/ "main" \notin S
      BY <2>5, <2>6, <2>9, <3>1
    <3>2. "event" \in S => "tick" \in S /\ MayWaitFor("event", "tick")
      BY <2>8, <2>9, <3>1 DEF Thread
    <3>3. "tick" \in S => "event" \in S /\ MayWaitFor("tick", "event")
      BY <2>8, <2>9, <3>1 DEF Thread
    <3>4. "main" \in S => "event" \in S \/ "tick" \in S
      BY <2>7, <2>9 DEF Thread
    <3>5. PICK t \in S : t \in Thread
      BY <2>9
    <3>6. "event" \in S \/ "tick" \in S
      BY <3>4, <3>5 DEF Thread
    <3> QED
      BY <3>2, <3>3, <3>6
  <2>10. MayWaitFor("event", "tick") /\ MayWaitFor("tick", "event") =>
          event.pc = "broadcast" /\ tick.pc = "write" /\ tick.link = event.link
    BY <2>1, <2>2, <2>3, <2>4 DEF Thread
  <2>11. ASSUME NEW S \in (SUBSET Thread) \ {{}},
                \A t \in S : \E u \in S : MayWaitFor(t, u)
         PROVE  /\ {"event", "tick"} \subseteq S
                /\ event.pc = "broadcast" /\ tick.pc = "write"
                /\ tick.link = event.link
    <3>1. S \in SUBSET Thread /\ S # {}
      OBVIOUS
    <3> QED
      BY <2>9, <2>10, <2>11, <3>1
  <2> QED
    BY <2>11 DEF OneDeadlock
<1> QED
  BY <1>1, Invariance, PTL

=============================================================================
