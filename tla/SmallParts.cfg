\* Three threads, four registries, five events; two threads with a tracker, and
\* values below, at and above the first minimum; rounds enough to fail twice
\* between two that succeed; descriptors enough for one to leak beside two
\* objects.
CONSTANTS
  t1 = t1  t2 = t2  t3 = t3
  Threads <- ThreeThreads
  MaxId = 7
  MaxRegistries = 4
  MaxEvents = 5
  Timers = {1, 2}
  IntMax = 2
  MaxClock = 3
  MaxCalls = 3
  MaxFileBytes = 3
  MaxRounds = 4
  Objects = {1, 2}
  Fds = {1, 2, 3}
  Results <- AnyResult
  MaxSocketBytes = 2
  NoObject = NoObject
SPECIFICATION PartsSpec
INVARIANTS Inductive IdFindsRegistry EventsBalance TimingSound DiskBytesAddUp SocketsAccounted
\* Everybody may be done.
CHECK_DEADLOCK FALSE
