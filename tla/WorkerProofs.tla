---------------------------- MODULE WorkerProofs -----------------------------
(* Theorems about Worker, for any producers, work and bounds. *)
EXTENDS Worker, TLAPS

-----------------------------------------------------------------------------
(* Types *)

\* The operations of a cEvent leave a cEvent.
LEMMA EventTypes ==
  ASSUME nonempty \in Nonempty!EventType, start \in Started!EventType
  PROVE  /\ Nonempty!WaitReturns(Consumer) \/ Nonempty!WakesSpuriously(Consumer)
              \/ Nonempty!WaitBlocks(Consumer) \/ Nonempty!SetFlag
              \/ Nonempty!NotifyOne
            => nonempty' \in Nonempty!EventType
         /\ Started!WaitReturns(Consumer) \/ Started!WakesSpuriously(Consumer)
              \/ Started!WaitBlocks(Consumer) \/ Started!SetFlag
              \/ Started!NotifyOne
            => start' \in Started!EventType
<1> USE DEF Nonempty!EventType, Started!EventType
<1>1. ASSUME Nonempty!WaitReturns(Consumer) \/ Nonempty!WakesSpuriously(Consumer)
      PROVE  nonempty' \in Nonempty!EventType
  BY <1>1 DEF Nonempty!WaitReturns, Nonempty!WakesSpuriously, Nonempty!Passing
<1>2. ASSUME Started!WaitReturns(Consumer) \/ Started!WakesSpuriously(Consumer)
      PROVE  start' \in Started!EventType
  BY <1>2 DEF Started!WaitReturns, Started!WakesSpuriously, Started!Passing
<1>3. ASSUME Nonempty!WaitBlocks(Consumer) \/ Nonempty!SetFlag \/ Nonempty!NotifyOne
      PROVE  nonempty' \in Nonempty!EventType
  BY <1>3 DEF Nonempty!WaitBlocks, Nonempty!SetFlag, Nonempty!NotifyOne
<1>4. ASSUME Started!WaitBlocks(Consumer) \/ Started!SetFlag \/ Started!NotifyOne
      PROVE  start' \in Started!EventType
  BY <1>4 DEF Started!WaitBlocks, Started!SetFlag, Started!NotifyOne
<1> QED
  BY <1>1, <1>2, <1>3, <1>4

\* The thread and its queue start with well-formed state.
LEMMA InitTypeOK == Init => TypeOK
<1> SUFFICES ASSUME Init PROVE TypeOK
  OBVIOUS
<1>1. nonempty \in Nonempty!EventType /\ start \in Started!EventType
  BY DEF Init, Nonempty!Unset, Started!Unset, Nonempty!EventType, Started!EventType
<1>2. /\ pushes \in 0 .. MaxPushes
      /\ starts \in 0 .. MaxStarts
  BY TasksAssumption DEF Init
<1>3. /\ queue \in Seq(Tasks)
      /\ producer \in [Producers -> {"idle", "pushed", "set"}]
  BY DEF Init
<1>4. /\ lock \in Producers \cup {Consumer, Nobody}
      /\ terminate \in BOOLEAN
      /\ current \in Tasks \cup {NoTask}
  BY DEF Init
<1>5. worker = "none" /\ owner = "stopped"
  BY DEF Init
<1> QED
  BY <1>1, <1>2, <1>3, <1>4, <1>5 DEF TypeOK

\* Every step keeps the state well formed.
LEMMA NextTypeOK == TypeOK /\ [Next]_vars => TypeOK'
<1> SUFFICES ASSUME TypeOK, [Next]_vars PROVE TypeOK'
  OBVIOUS
<1> USE TasksAssumption DEF TypeOK
<1>1. ASSUME NEW p \in Producers, NEW x \in Tasks, Push(p, x) PROVE TypeOK'
  BY <1>1 DEF Push, ProducerGoto
<1>2. ASSUME NEW p \in Producers, PushSets(p) PROVE TypeOK'
  BY <1>2, EventTypes DEF PushSets, ProducerGoto
<1>3. ASSUME NEW p \in Producers, PushNotifies(p) PROVE TypeOK'
  BY <1>3, EventTypes DEF PushNotifies, ProducerGoto
<1>4. ASSUME Enters \/ AwaitsStart \/ WakesUp \/ Sleeps \/ SpuriousWakeup
      PROVE  TypeOK'
  BY <1>4, EventTypes
  DEF Enters, AwaitsStart, WakesUp, Sleeps, SpuriousWakeup, WorkerUnchanged
<1>5. ASSUME Locks \/ Returns \/ FindsNothing \/ Runs PROVE TypeOK'
  BY <1>5 DEF Locks, Returns, FindsNothing, Runs, WorkerUnchanged
<1>6. ASSUME Takes PROVE TypeOK'
  BY <1>6 DEF Takes, Rest, WorkerUnchanged
<1>7. ASSUME CreateThread \/ StopTerminates \/ Joins PROVE TypeOK'
  <2>1. starts' \in 0 .. MaxStarts
    BY <1>7 DEF CreateThread, StopTerminates, Joins
  <2>2. UNCHANGED <<lock, queue, nonempty, start, producer, current, pushes>>
    BY <1>7 DEF CreateThread, StopTerminates, Joins, OwnerUnchanged
  <2> QED
    BY <1>7, <2>1, <2>2 DEF CreateThread, StopTerminates, Joins
<1>8. ASSUME StartSets \/ StartNotifies \/ StopSets \/ StopNotifies PROVE TypeOK'
  BY <1>8, EventTypes
  DEF StartSets, StartNotifies, StopSets, StopNotifies, OwnerUnchanged
<1>9. CASE UNCHANGED vars
  BY <1>9 DEF vars
<1> QED
  BY <1>1, <1>2, <1>3, <1>4, <1>5, <1>6, <1>7, <1>8, <1>9
  DEF Next, Execute, Owner, Produce

\* The state of the thread, its queue, its events and its owner stays well formed.
THEOREM TypeCorrect == Spec => []TypeOK
<1> QED
  BY InitTypeOK, NextTypeOK, PTL DEF Spec

-----------------------------------------------------------------------------
(* m_QueueNonempty: no wakeup is lost *)

\* A thread that has not gone to Wait() yet hears of work there: whoever queues
\* it, or asks for the end, sets the flag and then notifies.
LEMMA WakeupsStep == TypeOK /\ WakeupsKept /\ [Next]_vars => WakeupsKept'
<1> SUFFICES ASSUME TypeOK, WakeupsKept, [Next]_vars PROVE WakeupsKept'
  OBVIOUS
<1> USE DEF TypeOK, WakeupsKept, Nonempty!EventType
<1>1. ASSUME NEW p \in Producers, NEW x \in Tasks, Push(p, x) PROVE WakeupsKept'
  <2>1. /\ producer'[p] = "pushed"
        /\ \A q \in Producers : producer[q] = "set" => producer'[q] = "set"
    BY <1>1 DEF Push, ProducerGoto
  <2> QED
    BY <1>1, <2>1 DEF Push
<1>2. ASSUME NEW p \in Producers, PushSets(p) PROVE WakeupsKept'
  <2>1. nonempty'.flag /\ producer'[p] = "set"
    BY <1>2 DEF PushSets, ProducerGoto, Nonempty!SetFlag
  <2> QED
    BY <2>1
<1>3. ASSUME NEW p \in Producers, PushNotifies(p) PROVE WakeupsKept'
  <2>1. /\ nonempty'.flag = nonempty.flag
        /\ Consumer \notin nonempty'.waiting
    BY <1>3 DEF PushNotifies, Nonempty!NotifyOne
  <2>2. /\ UNCHANGED <<queue, terminate, worker, owner>>
        /\ \A q \in Producers : producer[q] = "pushed" => producer'[q] = "pushed"
    BY <1>3 DEF PushNotifies, ProducerGoto
  <2> QED
    BY <2>1, <2>2
<1>4. ASSUME WakesUp \/ SpuriousWakeup \/ Enters PROVE WakeupsKept'
  BY <1>4
  DEF WakesUp, SpuriousWakeup, Enters, WorkerUnchanged, Nonempty!WaitReturns,
      Nonempty!WakesSpuriously, Nonempty!Passing
<1>5. ASSUME Sleeps PROVE WakeupsKept'
  BY <1>5 DEF Sleeps, WorkerUnchanged, Nonempty!WaitBlocks
<1>6. ASSUME AwaitsStart \/ Locks \/ Returns \/ FindsNothing \/ Takes \/ Runs
      PROVE  WakeupsKept'
  BY <1>6
  DEF AwaitsStart, Locks, Returns, FindsNothing, Takes, Runs, WorkerUnchanged
<1>7. ASSUME StopSets PROVE WakeupsKept'
  BY <1>7 DEF StopSets, OwnerUnchanged, Nonempty!SetFlag
<1>8. ASSUME StopNotifies PROVE WakeupsKept'
  <2>1. /\ nonempty'.flag = nonempty.flag
        /\ Consumer \notin nonempty'.waiting
    <3>1. CASE UNCHANGED nonempty /\ nonempty.waiting = {}
      BY <3>1
    <3>2. ASSUME NEW t \in nonempty.waiting,
                 nonempty' = [nonempty EXCEPT !.waiting = @ \ {t},
                                              !.woken = @ \cup {t}]
          PROVE  /\ nonempty'.flag = nonempty.flag
                 /\ Consumer \notin nonempty'.waiting
      BY <3>2
    <3> QED
      BY <1>8, <3>1, <3>2 DEF StopNotifies, Nonempty!NotifyOne
  <2> QED
    BY <1>8, <2>1 DEF StopNotifies, OwnerUnchanged
<1>9. ASSUME CreateThread \/ StartSets \/ StartNotifies \/ StopTerminates \/ Joins
      PROVE  WakeupsKept'
  BY <1>9
  DEF CreateThread, StartSets, StartNotifies, StopTerminates, Joins,
      OwnerUnchanged
<1>10. CASE UNCHANGED vars
  BY <1>10 DEF vars
<1> QED
  BY <1>1, <1>2, <1>3, <1>4, <1>5, <1>6, <1>7, <1>8, <1>9, <1>10
  DEF Next, Execute, Owner, Produce

\* The thread never sleeps un-notified over queued work or over the request to
\* end, unless the Set() that will wake it up is still under way.
THEOREM NoWakeupIsLost == Spec => []NoLostWakeup
<1>1. Init => WakeupsKept
  BY DEF Init, WakeupsKept, Nonempty!Unset
<1>2. WakeupsKept => NoLostWakeup
  BY DEF WakeupsKept, NoLostWakeup, Announced
<1> QED
  BY <1>1, <1>2, InitTypeOK, NextTypeOK, WakeupsStep, PTL DEF Spec

-----------------------------------------------------------------------------
(* m_evtStart: the thread does not run ahead of Start() *)

\* The event is set between the creation of a thread and its first step only.
LEMMA StartStep == TypeOK /\ StartKept /\ [Next]_vars => StartKept'
<1> SUFFICES ASSUME TypeOK, StartKept, [Next]_vars PROVE StartKept'
  OBVIOUS
<1> USE DEF TypeOK, StartKept, Started!EventType
<1>1. ASSUME NEW p \in Producers, Produce(p) PROVE StartKept'
  BY <1>1 DEF Produce, Push, PushSets, PushNotifies
<1>2. ASSUME Enters \/ SpuriousWakeup PROVE StartKept'
  BY <1>2
  DEF Enters, SpuriousWakeup, WorkerUnchanged, Started!WaitReturns,
      Started!WakesSpuriously, Started!Passing
<1>3. ASSUME AwaitsStart PROVE StartKept'
  BY <1>3 DEF AwaitsStart, WorkerUnchanged, Started!WaitBlocks
<1>4. ASSUME Locks \/ Returns \/ FindsNothing \/ Takes \/ Runs \/ WakesUp \/ Sleeps
      PROVE  StartKept'
  BY <1>4
  DEF Locks, Returns, FindsNothing, Takes, Runs, WakesUp, Sleeps, WorkerUnchanged
<1>5. ASSUME CreateThread PROVE StartKept'
  BY <1>5 DEF CreateThread, OwnerUnchanged
<1>6. ASSUME StartSets PROVE StartKept'
  BY <1>6 DEF StartSets, OwnerUnchanged, Started!SetFlag
<1>7. ASSUME StartNotifies PROVE StartKept'
  BY <1>7 DEF StartNotifies, OwnerUnchanged, Started!NotifyOne
<1>8. ASSUME StopTerminates \/ StopSets \/ StopNotifies \/ Joins PROVE StartKept'
  BY <1>8 DEF StopTerminates, StopSets, StopNotifies, Joins, OwnerUnchanged
<1>9. CASE UNCHANGED vars
  BY <1>9 DEF vars
<1> QED
  BY <1>1, <1>2, <1>3, <1>4, <1>5, <1>6, <1>7, <1>8, <1>9 DEF Next, Execute, Owner

\* Execute() begins only after Start() has assigned m_Thread, however often the
\* thread is started.
THEOREM ThreadWaitsForStart == Spec => []StartedFirst
<1>1. Init => StartKept
  BY DEF Init, StartKept, Started!Unset
<1>2. StartKept => StartedFirst
  BY DEF StartKept, StartedFirst
<1> QED
  BY <1>1, <1>2, InitTypeOK, NextTypeOK, StartStep, PTL DEF Spec

-----------------------------------------------------------------------------
(* The thread implements Mailbox *)

\* The worker runs something exactly where it says so.
LEMMA RunStep == StartKept /\ RunKept /\ [Next]_vars => RunKept'
<1> SUFFICES ASSUME StartKept, RunKept, [Next]_vars PROVE RunKept'
  OBVIOUS
<1> USE DEF RunKept
<1>1. ASSUME NEW p \in Producers, Produce(p) PROVE RunKept'
  BY <1>1 DEF Produce, Push, PushSets, PushNotifies
<1>2. ASSUME Execute PROVE RunKept'
  BY <1>2 DEF Execute, Enters, AwaitsStart, Locks, Returns, FindsNothing, Takes,
              Runs, WakesUp, Sleeps
<1>3. ASSUME SpuriousWakeup PROVE RunKept'
  BY <1>3 DEF SpuriousWakeup
<1>4. ASSUME Owner PROVE RunKept'
  BY <1>4
  DEF Owner, CreateThread, StartSets, StartNotifies, StopTerminates, StopSets,
      StopNotifies, Joins, OwnerUnchanged, StartKept
<1>5. CASE UNCHANGED vars
  BY <1>5 DEF vars
<1> QED
  BY <1>1, <1>2, <1>3, <1>4, <1>5 DEF Next

\* Each step of the thread, of a producer or of the owner is a step of the
\* mailbox, or one the mailbox does not see.
LEMMA MailStep ==
  ASSUME TypeOK, StartKept, RunKept, [Next]_vars
  PROVE  [Mail!Next]_Mail!mailVars
<1> USE DEF TypeOK, StartKept, RunKept, Mail!Next, Mail!mailVars
<1>1. ASSUME NEW p \in Producers, NEW x \in Tasks, Push(p, x)
      PROVE  Mail!Put(x)
  BY <1>1 DEF Push, Mail!Put
<1>2. ASSUME NEW p \in Producers, PushSets(p) \/ PushNotifies(p)
      PROVE  UNCHANGED Mail!mailVars
  BY <1>2 DEF PushSets, PushNotifies
<1>3. ASSUME Enters \/ AwaitsStart \/ Locks \/ Returns \/ FindsNothing \/ WakesUp
               \/ Sleeps \/ SpuriousWakeup
      PROVE  UNCHANGED Mail!mailVars
  BY <1>3
  DEF Enters, AwaitsStart, Locks, Returns, FindsNothing, WakesUp, Sleeps,
      SpuriousWakeup, WorkerUnchanged
<1>4. ASSUME Takes PROVE Mail!Take
  BY <1>4 DEF Takes, Rest, WorkerUnchanged, Mail!Take
<1>5. ASSUME Runs PROVE [Mail!Finish]_Mail!mailVars
  BY <1>5 DEF Runs, WorkerUnchanged, Mail!Finish
<1>6. ASSUME CreateThread PROVE Mail!Open
  BY <1>6 DEF CreateThread, OwnerUnchanged, Mail!Open
<1>7. ASSUME StopTerminates PROVE Mail!Close
  BY <1>7 DEF StopTerminates, OwnerUnchanged, Mail!Close
<1>8. ASSUME Joins \/ StartSets \/ StartNotifies \/ StopSets \/ StopNotifies
      PROVE  [Mail!Close]_Mail!mailVars
  BY <1>8
  DEF Joins, StartSets, StartNotifies, StopSets, StopNotifies, OwnerUnchanged,
      Mail!Close
<1>9. CASE UNCHANGED vars
  BY <1>9 DEF vars
<1> QED
  BY <1>1, <1>2, <1>3, <1>4, <1>5, <1>6, <1>7, <1>8, <1>9
  DEF Next, Execute, Owner, Produce

\* Queued work is run once and in order, by one thread, across Stop() and
\* Start(): the safety part of DeliversMail.
THEOREM ImplementsMailbox == Spec => Mail!Spec
<1>1. Init => Mail!Init /\ StartKept /\ RunKept
  BY DEF Init, Mail!Init, StartKept, RunKept, Started!Unset
<1> QED
  BY <1>1, InitTypeOK, NextTypeOK, StartStep, RunStep, MailStep, PTL
  DEF Spec, Mail!Spec

=============================================================================
