\* A new file being written while another call reads or updates it.
SPECIFICATION FairSpec
CONSTANTS
  u1 = u1  u2 = u2  u3 = u3  r1 = r1  w1 = w1  w2 = w2
  p1 = p1  p2 = p2
  Pids = {p1, p2}
  Pid <- MCPid
  File = "m31.xisf"
  NoInode = 0
  Updaters = {u1}
  Readers = {r1}
  Creators = {w1, w2}
  Threaded = FALSE
  Faulty = TRUE
  Links = {"link"}
  Inodes = {1, 2, 3, 4}
  NChunks = 2
INVARIANTS CreatedIsKept
PROPERTIES ImplementsAtomicFile EveryCallEnds
CHECK_DEADLOCK FALSE
