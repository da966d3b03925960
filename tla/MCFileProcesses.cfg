\* Updates from two processes, with failures, crashes and a reused process id.
SPECIFICATION Spec
CONSTANTS
  u1 = u1  u2 = u2  u3 = u3  r1 = r1  w1 = w1  w2 = w2
  p1 = p1  p2 = p2
  Pids = {p1, p2}
  Pid <- MCPid
  File = "m31.xisf"
  NoInode = 0
  Updaters = {u1, u2, u3}
  Readers = {}
  Creators = {}
  Threaded = FALSE
  Faulty = TRUE
  Links = {"link"}
  Inodes = {1, 2, 3, 4}
  NChunks = 2
PROPERTIES ImplementsAtomicFile
INVARIANTS TypeOK TargetWhole ErrorUntouched NoStrayTmp ModeKept LinksStay
CHECK_DEADLOCK FALSE
