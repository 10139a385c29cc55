-------------------------------- MODULE Event --------------------------------
(***************************************************************************)
(* cEvent: a flag, a mutex and a condition variable.  The mutex is held    *)
(* only inside a step.  A thread in Wait() that has found the flag unset   *)
(* is in "waiting" until notify_one picks it ("woken") or it wakes up      *)
(* spuriously; either way it tests the flag again before it returns.       *)
(***************************************************************************)
CONSTANT Threads

VARIABLE event

Unset == [flag |-> FALSE, waiting |-> {}, woken |-> {}]

EventType == [flag : BOOLEAN, waiting : SUBSET Threads, woken : SUBSET Threads]

\* Wait(), or its loop on a wakeup: the flag is set, so it is reset and Wait()
\* returns.  A wakeup without a notification is spurious: it may come, and
\* nobody can rely on it.
\* Mutant: an event that stays set until somebody resets it.
Passing_Mutant(t) ==
  /\ event.flag
  /\ event' = [event EXCEPT !.waiting = @ \ {t}, !.woken = @ \ {t}]
Passing(t) ==
  /\ event.flag
  /\ event' = [event EXCEPT !.flag = FALSE, !.waiting = @ \ {t},
                             !.woken = @ \ {t}]

WaitReturns(t) == t \notin event.waiting /\ Passing(t)
WakesSpuriously(t) == t \in event.waiting /\ Passing(t)

\* The flag is not set: the thread sleeps, for the first time or again.
WaitBlocks(t) ==
  /\ t \notin event.waiting /\ ~event.flag
  /\ event' = [event EXCEPT !.waiting = @ \cup {t}, !.woken = @ \ {t}]

\* Set(), first step, under the mutex.  Mutant: without the flag, a
\* Set() that finds nobody waiting is lost.
SetFlag_Mutant == event' = [event EXCEPT !.flag = event.waiting # {}]
SetFlag == event' = [event EXCEPT !.flag = TRUE]

\* Set(), second step: notify_one, after the mutex has been released.
NotifyOne ==
  \/ event.waiting = {} /\ UNCHANGED event
  \/ \E t \in event.waiting :
       event' = [event EXCEPT !.waiting = @ \ {t}, !.woken = @ \cup {t}]

=============================================================================
