\* Two threads of one process update the same file; nothing fails.
SPECIFICATION Spec
CONSTANTS
  u1 = u1  u2 = u2  u3 = u3  r1 = r1  w1 = w1  w2 = w2
  p1 = p1  p2 = p2
  Pids = {p1, p2}
  Pid <- MCPid
  File = "m31.xisf"
  NoInode = 0
  Updaters = {u1, u2}
  Readers = {}
  Creators = {}
  Threaded = TRUE
  Faulty = FALSE
  Links = {}
  Inodes = {1, 2, 3}
  NChunks = 2
INVARIANTS TargetWhole
CHECK_DEADLOCK FALSE
