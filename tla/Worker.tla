------------------------------- MODULE Worker --------------------------------
(***************************************************************************)
(* A thread that runs queued work: cAuthenticator (its queue holds logins) *)
(* and cWorkerThread (its queue holds cTasks) are the same code, on        *)
(* cIsThread and cEvent.  Its actors:                                      *)
(*                                                                         *)
(*   producers  threads that call Authenticate() or PushTask();            *)
(*   worker     the thread in cIsThread::DoExecute() and Execute();        *)
(*   owner      the thread that calls Start() and Stop(), in that order or *)
(*              again and again (cRoot::Start, the destructors).           *)
(*                                                                         *)
(* "lock" is m_CS.  m_ShouldTerminate is atomic and not protected by it.   *)
(***************************************************************************)
EXTENDS Naturals, Sequences

CONSTANTS
  Producers,  \* threads that queue work
  Consumer,   \* the thread that runs it
  Nobody,     \* holder of a free lock
  Tasks,      \* pieces of work
  NoTask,     \* the worker is running nothing
  MaxPushes,  \* bound: pieces of work queued
  MaxStarts   \* bound: calls of Start()

ASSUME ThreadsAssumption ==
  /\ Consumer \notin Producers
  /\ Nobody \notin Producers \cup {Consumer}

ASSUME TasksAssumption ==
  /\ NoTask \notin Tasks
  /\ MaxPushes \in Nat
  /\ MaxStarts \in Nat

VARIABLES
  lock,       \* who holds m_CS
  queue,      \* m_Queue
  nonempty,   \* m_QueueNonempty
  start,      \* m_evtStart
  terminate,  \* m_ShouldTerminate
  producer,   \* where each producer is
  worker,     \* where the thread is
  current,    \* the work it runs
  owner,      \* where the owner is
  pushes,     \* calls of Authenticate() or PushTask() so far
  starts      \* calls of Start() so far

vars == <<lock, queue, nonempty, start, terminate, producer, worker, current,
          owner, pushes, starts>>

Nonempty == INSTANCE Event WITH Threads <- {Consumer}, event <- nonempty
Started == INSTANCE Event WITH Threads <- {Consumer}, event <- start

Init ==
  /\ lock = Nobody
  /\ queue = <<>>
  /\ nonempty = Nonempty!Unset
  /\ start = Started!Unset
  /\ terminate = FALSE
  /\ producer = [p \in Producers |-> "idle"]
  /\ worker = "none"
  /\ current = NoTask
  /\ owner = "stopped"
  /\ pushes = 0
  /\ starts = 0

-----------------------------------------------------------------------------
(* Authenticate(), PushTask(): m_CS is held from the push to the end of Set *)

ProducerGoto(p, pc) == producer' = [producer EXCEPT ![p] = pc]

Push(p, x) ==
  /\ producer[p] = "idle" /\ lock = Nobody /\ pushes < MaxPushes
  /\ lock' = p
  /\ queue' = Append(queue, x)
  /\ pushes' = pushes + 1
  /\ ProducerGoto(p, "pushed")
  /\ UNCHANGED <<nonempty, start, terminate, worker, current, owner, starts>>

PushSets(p) ==
  /\ producer[p] = "pushed"
  /\ Nonempty!SetFlag
  /\ ProducerGoto(p, "set")
  /\ UNCHANGED <<lock, queue, start, terminate, worker, current, owner, pushes,
                 starts>>

PushNotifies(p) ==
  /\ producer[p] = "set"
  /\ Nonempty!NotifyOne
  /\ lock' = Nobody
  /\ ProducerGoto(p, "idle")
  /\ UNCHANGED <<queue, start, terminate, worker, current, owner, pushes, starts>>

Produce(p) == PushSets(p) \/ PushNotifies(p) \/ \E x \in Tasks : Push(p, x)

-----------------------------------------------------------------------------
(* The thread: cIsThread::DoExecute, then Execute                           *)

WorkerUnchanged == <<terminate, producer, owner, pushes, starts>>

\* Wait() on m_evtStart lets the thread into Execute() ...
Enters ==
  /\ worker = "starting"
  /\ Started!WaitReturns(Consumer)
  /\ worker' = "lock"
  /\ UNCHANGED <<lock, queue, nonempty, current, WorkerUnchanged>>

\* ... or holds it up until Start() has assigned m_Thread.
AwaitsStart ==
  /\ worker = "starting"
  /\ Started!WaitBlocks(Consumer)
  /\ UNCHANGED <<lock, queue, nonempty, worker, current, WorkerUnchanged>>

Locks ==
  /\ worker = "lock" /\ lock = Nobody
  /\ lock' = Consumer
  /\ worker' = "check"
  /\ UNCHANGED <<queue, nonempty, start, current, WorkerUnchanged>>

\* Told to terminate: Execute() returns, whatever is queued.
Returns ==
  /\ worker = "check" /\ terminate
  /\ lock' = Nobody
  /\ worker' = "ended"
  /\ UNCHANGED <<queue, nonempty, start, current, WorkerUnchanged>>

FindsNothing ==
  /\ worker = "check" /\ ~terminate /\ queue = <<>>
  /\ lock' = Nobody
  /\ worker' = "wait"
  /\ UNCHANGED <<queue, nonempty, start, current, WorkerUnchanged>>

\* Mutant: the work is copied from the front and left there.
Rest_Mutant == queue
Rest == Tail(queue)

Takes ==
  /\ worker = "check" /\ ~terminate /\ queue # <<>>
  /\ current' = Head(queue)
  /\ queue' = Rest
  /\ lock' = Nobody
  /\ worker' = "run"
  /\ UNCHANGED <<nonempty, start, WorkerUnchanged>>

Runs ==
  /\ worker = "run"
  /\ current' = NoTask
  /\ worker' = "lock"
  /\ UNCHANGED <<lock, queue, nonempty, start, WorkerUnchanged>>

\* Wait() on m_QueueNonempty returns, and m_CS is asked for again ...
WakesUp ==
  /\ worker = "wait"
  /\ Nonempty!WaitReturns(Consumer)
  /\ worker' = "lock"
  /\ UNCHANGED <<lock, queue, start, current, WorkerUnchanged>>

\* ... or blocks.
Sleeps ==
  /\ worker = "wait"
  /\ Nonempty!WaitBlocks(Consumer)
  /\ UNCHANGED <<lock, queue, start, worker, current, WorkerUnchanged>>

\* A thread may also wake up, and find the flag set, before it is notified.
SpuriousWakeup ==
  /\ \/ worker = "starting" /\ Started!WakesSpuriously(Consumer) /\ UNCHANGED nonempty
     \/ worker = "wait" /\ Nonempty!WakesSpuriously(Consumer) /\ UNCHANGED start
  /\ worker' = "lock"
  /\ UNCHANGED <<lock, queue, current, WorkerUnchanged>>

Execute ==
  \/ Enters \/ AwaitsStart \/ Locks \/ Returns \/ FindsNothing \/ Takes \/ Runs
  \/ WakesUp \/ Sleeps

-----------------------------------------------------------------------------
(* Start() and Stop()                                                       *)

OwnerUnchanged == <<lock, queue, producer, current, pushes>>

\* m_ShouldTerminate is reset and the thread created.
CreateThread ==
  /\ owner = "stopped" /\ starts < MaxStarts
  /\ terminate' = FALSE
  /\ worker' = "starting"
  /\ owner' = "created"
  /\ starts' = starts + 1
  /\ UNCHANGED <<nonempty, start, OwnerUnchanged>>

StartSets ==
  /\ owner = "created"
  /\ Started!SetFlag
  /\ owner' = "startSet"
  /\ UNCHANGED <<nonempty, terminate, worker, starts, OwnerUnchanged>>

StartNotifies ==
  /\ owner = "startSet"
  /\ Started!NotifyOne
  /\ owner' = "started"
  /\ UNCHANGED <<nonempty, terminate, worker, starts, OwnerUnchanged>>

\* Stop(), which the destructor calls again when there is no thread any more.
StopTerminates ==
  /\ owner \in {"started", "stopped"}
  /\ terminate' = TRUE
  /\ owner' = "stopping"
  /\ UNCHANGED <<nonempty, start, worker, starts, OwnerUnchanged>>

\* Mutant: cIsThread::Stop(), which does not know of m_QueueNonempty.
StopSets_Mutant ==
  /\ owner = "stopping"
  /\ owner' = "stopSet"
  /\ UNCHANGED <<nonempty, start, terminate, worker, starts, OwnerUnchanged>>
StopSets ==
  /\ owner = "stopping"
  /\ Nonempty!SetFlag
  /\ owner' = "stopSet"
  /\ UNCHANGED <<start, terminate, worker, starts, OwnerUnchanged>>

StopNotifies ==
  /\ owner = "stopSet"
  /\ Nonempty!NotifyOne
  /\ owner' = "joining"
  /\ UNCHANGED <<start, terminate, worker, starts, OwnerUnchanged>>

\* m_Thread.join(), when there is a thread to join.
Joins ==
  /\ owner = "joining" /\ worker \in {"none", "ended"}
  /\ worker' = "none"
  /\ owner' = "stopped"
  /\ UNCHANGED <<nonempty, start, terminate, starts, OwnerUnchanged>>

Owner ==
  \/ CreateThread \/ StartSets \/ StartNotifies
  \/ StopTerminates \/ StopSets \/ StopNotifies \/ Joins

-----------------------------------------------------------------------------
Next == Execute \/ SpuriousWakeup \/ Owner \/ \E p \in Producers : Produce(p)

Spec == Init /\ [][Next]_vars

(***************************************************************************)
(* Fairness: threads run, a mutex that becomes free again and again is     *)
(* got, a notified thread wakes up.  Nobody has to queue, start or stop,   *)
(* and no spurious wakeup has to come.                                     *)
(***************************************************************************)
Fairness ==
  /\ SF_vars(Execute)
  /\ \A p \in Producers : WF_vars(PushSets(p) \/ PushNotifies(p))
  /\ WF_vars(StartSets \/ StartNotifies \/ StopSets \/ StopNotifies \/ Joins)

FairSpec == Spec /\ Fairness

-----------------------------------------------------------------------------
(* Type invariant *)

TypeOK ==
  /\ lock \in Producers \cup {Consumer, Nobody}
  /\ queue \in Seq(Tasks)
  /\ nonempty \in Nonempty!EventType
  /\ start \in Started!EventType
  /\ terminate \in BOOLEAN
  /\ producer \in [Producers -> {"idle", "pushed", "set"}]
  /\ worker \in {"none", "starting", "lock", "check", "wait", "run", "ended"}
  /\ current \in Tasks \cup {NoTask}
  /\ owner \in {"stopped", "created", "startSet", "started", "stopping",
                "stopSet", "joining"}
  /\ pushes \in 0 .. MaxPushes
  /\ starts \in 0 .. MaxStarts

-----------------------------------------------------------------------------
(* Safety *)

\* A Set() that announces work, or the end, is still under way.
Announced ==
  \/ \E p \in Producers : producer[p] \in {"pushed", "set"}
  \/ owner \in {"stopping", "stopSet"}

\* The thread never sleeps, un-notified, over queued work or over the request
\* to end: m_ShouldTerminate and m_Queue are tested before Wait(), and not
\* under the event's mutex, so a Set() in between must not get lost.
NoLostWakeup ==
  /\ worker = "wait" /\ Consumer \in nonempty.waiting
  /\ queue # <<>> \/ terminate
  => Announced

\* Execute() begins only after Start() has assigned m_Thread, which the thread
\* reads in IsCurrentThread() (IsThread.h on m_evtStart), also when the same
\* object, with the same event, is started a second time.
StartedFirst ==
  owner = "created" => worker \in {"none", "starting"}

(***************************************************************************)
(* The inductive invariant: why no wakeup is lost and no thread early.     *)
(***************************************************************************)

\* m_QueueNonempty.  A thread on its way into Wait() with something to do will
\* find the flag set, or somebody is about to set it; and between the flag and
\* the notification the notifier is still there.
WakeupsKept ==
  /\ worker = "wait" /\ (queue # <<>> \/ terminate)
       => \/ nonempty.flag
          \/ \E p \in Producers : producer[p] = "pushed"
          \/ owner = "stopping"
  /\ nonempty.flag /\ Consumer \in nonempty.waiting
       => \/ \E p \in Producers : producer[p] = "set"
          \/ owner = "stopSet"

\* m_evtStart is set only for a thread that has not yet passed it; there is no
\* thread when Start() is called, and one in its beginning until m_Thread is
\* assigned.
StartKept ==
  /\ start.flag => worker = "starting"
  /\ owner = "stopped" => worker = "none"
  /\ owner = "created" => worker = "starting" /\ ~start.flag

\* The worker runs something exactly where it says so.
RunKept == current # NoTask => worker = "run"

Inductive == TypeOK /\ WakeupsKept /\ StartKept /\ RunKept

-----------------------------------------------------------------------------
(* Refinement and liveness, under FairSpec *)

Mail == INSTANCE Mailbox WITH pending <- queue,
                              open <- worker # "none" /\ ~terminate

\* The thread delivers as Mailbox promises: each piece of work is run once, in
\* order, none is left lying while the thread is open, and what is queued when
\* it is stopped waits for the next Start().
DeliversMail == Mail!FairSpec

\* Stop() returns: the thread sees m_ShouldTerminate, however it sleeps, and
\* ends, so that it can be joined.
StopReturns == owner = "stopping" ~> owner = "stopped"

=============================================================================
