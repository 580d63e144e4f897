CONSTANTS
  Threads = {a, b, c}
  Rounds = 3
  PoolTasks = {t1, t2, t3, t4}
  PoolThreads = {w1, w2}
  PoolRoom = 2
  QueueTasks = {t1, t2, t3}
  QueueRoom = 1
  Readers = {r1, r2, r3}
  MaxSize = 2
  MaxWrites = 3
  Clients = {c1, c2}
  Workers = {s1, s2}
  Owner = c1
SPECIFICATION ThreadingSpec
INVARIANTS Together QueuesSound ServiceSound
PROPERTIES ImplementsTaskPool CompletedIsFinal WaitsEnd
CHECK_DEADLOCK FALSE
