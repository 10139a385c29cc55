\* Two threads queue work for a thread that is stopped and started again.
CONSTANTS
  Producers = {p1, p2}
  Consumer = consumer
  Nobody = nobody
  Tasks = {t1, t2}
  NoTask = none
  MaxPushes = 3
  MaxStarts = 2
SPECIFICATION FairSpec
INVARIANTS
  NoLostWakeup
  StartedFirst
PROPERTIES
  DeliversMail
  StopReturns
