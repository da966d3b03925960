----------------------------- MODULE ContainerFile -----------------------------
(***************************************************************************)
(* Concurrent calls of Header::update_file, Header::read_from_file and     *)
(* Header::write_to_file on one container, one system call per step        *)
(* (src/src/splice.rs, src/src/reader.rs, src/src/writer.rs).              *)
(*                                                                         *)
(* A container is written in NChunks writes: chunk 1 carries the header,   *)
(* the others its data.  A chunk is known by the version it belongs to,    *)
(* the set of the calls whose edits the container holds; a data chunk of   *)
(* one version under the header of another is at the wrong offset.         *)
(***************************************************************************)
EXTENDS Integers, Sequences, FiniteSets

CONSTANTS
  Updaters, Readers, Creators,  \* calls of each kind
  Pids,                         \* process ids, reused after a crash
  Pid,                          \* the process of each updater
  Threaded,                     \* may two calls of one process overlap?
  Faulty,                       \* may a system call fail?
  Links,                        \* symlinks to the file
  Inodes, NoInode,
  NChunks,
  File                          \* the file's own path

Calls == Updaters \cup Readers \cup Creators

ASSUME FileAssumption ==
  /\ Pid \in [Calls -> Pids]
  /\ Threaded \in BOOLEAN /\ Faulty \in BOOLEAN
  /\ File \notin Links /\ NoInode \notin Inodes /\ Inodes # {}
  /\ "incomplete" \notin Calls   \* NoValue is no version
  /\ NChunks \in Nat /\ NChunks >= 2
  /\ Updaters \cap Readers = {} /\ Updaters \cap Creators = {} /\ Readers \cap Creators = {}

VARIABLES
  dir,     \* the directory entry of every path
  tmp,     \* the inode under each process's temporary name, if any
  data,    \* the content of every inode
  mode,    \* the permissions of every inode: "own" (the target's) or "default"
  pc,      \* where each call is
  path,    \* the path it was given
  target,  \* the path it replaces
  ino,     \* the inode of its open file
  pos,     \* its position in that file
  buf,     \* what it has read
  seen,    \* history: the values the file has had since the call began
  faults   \* history: the ignored failures that happened, and "crash"

fs == <<dir, tmp, data, mode>>
local == <<path, target, ino, pos, buf>>
vars == <<fs, pc, local, seen, faults>>

Paths == {File} \cup Links
Versions == SUBSET Calls
Hole == [part |-> 0, ver |-> {}]
Chunk(k, v) == [part |-> k, ver |-> v]
Container(v) == [k \in 1 .. NChunks |-> Chunk(k, v)]

FileEntry(i) == [kind |-> "file", ino |-> i]
LinkEntry == [kind |-> "link", ino |-> NoInode]
NoEntry == [kind |-> "none", ino |-> NoInode]

Active(c) == pc[c] \notin {"idle", "ok", "err", "crashed"}

-------------------------------------------------------------------------------
(* The file system *)

(* Path resolution, and fs::canonicalize: a link leads to the file. *)
Canonical(p) == IF dir[p].kind = "link" THEN File ELSE p
InodeOf(p) == dir[Canonical(p)].ino

InUse == {dir[p].ino: p \in Paths} \cup {tmp[q]: q \in Pids}
         \cup {ino[c]: c \in {d \in Calls: Active(d)}}
HasFresh == \E i \in Inodes: i \notin InUse
Fresh == CHOOSE i \in Inodes: i \notin InUse

(* write(2) at a file position; a gap left by a truncation reads as zeros. *)
WriteAt(content, k, chunk) ==
  [j \in 1 .. (IF k > Len(content) THEN k ELSE Len(content)) |->
     IF j = k THEN chunk ELSE IF j <= Len(content) THEN content[j] ELSE Hole]

(* Slip: one temporary name for everyone. *)
SlipTmpOf(c) == CHOOSE q \in Pids: TRUE

(* `.<name>.tmp-<pid>`: one name per process. *)
TmpOf(c) == Pid[c]

(* The version the file holds, when it is whole. *)
NoValue == {"incomplete"}
Whole(content) == \E v \in Versions: content = Container(v)
ValueOf(i, content) ==
  IF i = NoInode \/ ~Whole(content[i]) THEN NoValue ELSE content[i][1].ver
Value == ValueOf(InodeOf(File), data)

-------------------------------------------------------------------------------
(* A call's control *)

Goto(c, l) == pc' = [pc EXCEPT ![c] = l]

(* A step that changes neither the file nor what others see of it. *)
Quiet == UNCHANGED <<seen, faults>>

Fail(c) == Goto(c, "err") /\ Quiet /\ UNCHANGED <<fs, local>>

(* Record for every call in progress the value the file has after a step. *)
Witness(v) == seen' = [d \in Calls |-> IF Active(d) THEN seen[d] \cup {v} ELSE seen[d]]

MayStart(c) == \A d \in Updaters: Active(d) => Threaded \/ Pid[d] # Pid[c]

(* Slip: a missing file goes unnoticed. *)
SlipOpenForRead(c, p) ==
  /\ pc[c] = "idle"
  /\ Goto(c, "read")
  /\ path' = [path EXCEPT ![c] = p]
  /\ ino' = [ino EXCEPT ![c] = InodeOf(p)]
  /\ seen' = [seen EXCEPT ![c] = {Value}]
  /\ UNCHANGED <<fs, target, pos, buf, faults>>

(* File::open for reading: NotFound, or the inode the path leads to now. *)
OpenForRead(c, p) ==
  /\ pc[c] = "idle"
  /\ \/ /\ InodeOf(p) # NoInode
        /\ Goto(c, "read")
        /\ path' = [path EXCEPT ![c] = p]
        /\ ino' = [ino EXCEPT ![c] = InodeOf(p)]
        /\ seen' = [seen EXCEPT ![c] = {Value}]
        /\ UNCHANGED <<fs, target, pos, buf, faults>>
     \/ InodeOf(p) = NoInode /\ Fail(c)

(* A signature and a whole header (split_preamble, read_exact). *)
HasHeader(bytes) == Len(bytes) > 0 /\ bytes[1].part = 1

-------------------------------------------------------------------------------
(* Header::update_file *)

UpdateOpen(c, p) == MayStart(c) /\ OpenForRead(c, p)

(* fs::read: chunk after chunk until the end of the file. *)
UpdateRead(c) ==
  LET content == data[ino[c]] IN
  /\ pc[c] = "read"
  /\ \/ /\ pos[c] < Len(content)
        /\ buf' = [buf EXCEPT ![c] = Append(@, content[pos[c] + 1])]
        /\ pos' = [pos EXCEPT ![c] = @ + 1]
        /\ Quiet /\ UNCHANGED <<fs, pc, path, target, ino>>
     \/ /\ pos[c] >= Len(content)
        /\ Goto(c, "edit")
        /\ Quiet /\ UNCHANGED <<fs, local>>
     \/ Faulty /\ Fail(c)

(* Slip: the data is not checked to be there. *)
SlipAcceptable(bytes) == HasHeader(bytes)

(* validate_attachment_layout wants the data within the bytes read. *)
Acceptable(bytes) == HasHeader(bytes) /\ Len(bytes) = NChunks

(* Parse, edit, splice and re-offset, all in memory: any error returns     *)
(* before anything is written.                                             *)
UpdateEdit(c) ==
  /\ pc[c] = "edit"
  /\ \/ /\ Acceptable(buf[c])
        /\ Goto(c, "canonicalize")
        /\ Quiet /\ UNCHANGED <<fs, local>>
     \/ ~Acceptable(buf[c]) /\ Fail(c)
     \/ Faulty /\ Fail(c)   \* the closure or the splice returns an error

(* Chunk k of the edited container: what was misplaced stays misplaced. *)
Edited(c, k) ==
  LET old == buf[c][1].ver
  IN  IF buf[c][k] = Chunk(k, old) THEN Chunk(k, old \cup {c}) ELSE Hole

(* Slip: the rename goes to the path as given. *)
SlipUpdateCanonicalize(c) ==
  /\ pc[c] = "canonicalize"
  /\ target' = [target EXCEPT ![c] = path[c]]
  /\ Goto(c, "create")
  /\ Quiet /\ UNCHANGED <<fs, path, ino, pos, buf>>

UpdateCanonicalize(c) ==
  /\ pc[c] = "canonicalize"
  /\ \/ /\ target' = [target EXCEPT ![c] = Canonical(path[c])]
        /\ Goto(c, "create")
        /\ Quiet /\ UNCHANGED <<fs, path, ino, pos, buf>>
     \/ Faulty /\ Fail(c)

(* Slips: a failure is ignored; returns at once; is retried. *)
SlipIgnoreFailure(c) == Goto(c, "chmod") /\ Quiet /\ UNCHANGED <<fs, local>>
SlipReturnAtOnce(c) == Goto(c, "err") /\ Quiet /\ UNCHANGED <<fs, local>>
SlipRetry(c) == Goto(c, "create") /\ Quiet /\ UNCHANGED <<fs, local>>

(* A failed fs::write or rename is followed by remove_file. *)
FailToCleanup(c) ==
  /\ Goto(c, "cleanup")
  /\ Quiet /\ UNCHANGED <<fs, local>>

(* fs::write opens the temporary name with O_CREAT | O_TRUNC... *)
UpdateCreateTmp(c) ==
  /\ pc[c] = "create"
  /\ \/ LET old == tmp[TmpOf(c)]
            new == IF old = NoInode THEN Fresh ELSE old
        IN  /\ old # NoInode \/ HasFresh
            /\ tmp' = [tmp EXCEPT ![TmpOf(c)] = new]
            /\ data' = [data EXCEPT ![new] = << >>]
            /\ mode' = [mode EXCEPT ![new] = IF old = NoInode THEN "default" ELSE @]
            /\ ino' = [ino EXCEPT ![c] = new]
            /\ pos' = [pos EXCEPT ![c] = 0]
            /\ Goto(c, "write")
            /\ Quiet /\ UNCHANGED <<dir, path, target, buf>>
     \/ Faulty /\ FailToCleanup(c)

(* ... and writes all the bytes through that descriptor. *)
UpdateWriteTmp(c) ==
  /\ pc[c] = "write"
  /\ \/ /\ data' = [data EXCEPT ![ino[c]] = WriteAt(@, pos[c] + 1, Edited(c, pos[c] + 1))]
        /\ pos' = [pos EXCEPT ![c] = @ + 1]
        /\ Goto(c, IF pos[c] + 1 = Len(buf[c]) THEN "chmod" ELSE "write")
        /\ Witness(ValueOf(InodeOf(File), data'))
        /\ UNCHANGED <<dir, tmp, mode, path, target, ino, buf, faults>>
     \/ Faulty /\ FailToCleanup(c)

(* Slip: the mode is not copied. *)
SlipUpdateCopyMode(c) ==
  /\ pc[c] = "chmod"
  /\ Goto(c, "rename")
  /\ Quiet /\ UNCHANGED <<fs, local>>

(* Copy the target's mode to whatever the temporary name is now; a failure *)
(* is ignored.                                                             *)
UpdateCopyMode(c) ==
  LET new == tmp[TmpOf(c)] IN
  /\ pc[c] = "chmod"
  /\ Goto(c, "rename")
  /\ \/ /\ mode' = IF new = NoInode THEN mode
                   ELSE [mode EXCEPT ![new] = mode[InodeOf(target[c])]]
        /\ UNCHANGED faults
     \/ Faulty /\ faults' = faults \cup {"chmod"} /\ UNCHANGED mode
  /\ UNCHANGED <<dir, tmp, data, local, seen>>

(* The temporary name, whatever it is now, replaces the target. *)
UpdateRename(c) ==
  LET new == tmp[TmpOf(c)] IN
  /\ pc[c] = "rename"
  /\ \/ /\ new # NoInode
        /\ dir' = [dir EXCEPT ![target[c]] = FileEntry(new)]
        /\ tmp' = [tmp EXCEPT ![TmpOf(c)] = NoInode]
        /\ Goto(c, "ok")
        /\ Witness(ValueOf(new, data))
        /\ UNCHANGED <<data, mode, local, faults>>
     \/ new = NoInode /\ FailToCleanup(c)
     \/ Faulty /\ FailToCleanup(c)

(* remove_file of the temporary name; a failure is ignored. *)
UpdateCleanup(c) ==
  /\ pc[c] = "cleanup"
  /\ Goto(c, "err")
  /\ \/ tmp' = [tmp EXCEPT ![TmpOf(c)] = NoInode] /\ UNCHANGED faults
     \/ Faulty /\ faults' = faults \cup {"remove"} /\ UNCHANGED tmp
  /\ UNCHANGED <<dir, data, mode, local, seen>>

-------------------------------------------------------------------------------
(* Header::read_from_file reads the header only *)

ReadOpen(c, p) == OpenForRead(c, p)

ReadHeader(c) ==
  LET content == data[ino[c]] IN
  /\ pc[c] = "read"
  /\ \/ /\ HasHeader(content)
        /\ buf' = [buf EXCEPT ![c] = <<content[1]>>]
        /\ Goto(c, "ok")
        /\ Quiet /\ UNCHANGED <<fs, path, target, ino, pos>>
     \/ ~HasHeader(content) /\ Fail(c)
     \/ Faulty /\ Fail(c)

-------------------------------------------------------------------------------
(* Header::write_to_file *)

(* OpenOptions::create_new: AlreadyExists for any entry, a link included. *)
CreateOpen(c, p) ==
  /\ pc[c] = "idle"
  /\ \/ /\ dir[p] = NoEntry /\ HasFresh
        /\ dir' = [dir EXCEPT ![p] = FileEntry(Fresh)]
        /\ data' = [data EXCEPT ![Fresh] = << >>]
        /\ mode' = [mode EXCEPT ![Fresh] = "own"]
        /\ ino' = [ino EXCEPT ![c] = Fresh]
        /\ path' = [path EXCEPT ![c] = p]
        /\ seen' = [seen EXCEPT ![c] = {Value}]
        /\ Goto(c, "write")
        /\ UNCHANGED <<tmp, target, pos, buf, faults>>
     \/ dir[p] # NoEntry /\ Fail(c)

(* write_all of the header, then of the data; an error leaves the file as  *)
(* it is.                                                                  *)
CreateWrite(c) ==
  /\ pc[c] = "write"
  /\ \/ /\ data' = [data EXCEPT ![ino[c]] = WriteAt(@, pos[c] + 1, Chunk(pos[c] + 1, {c}))]
        /\ pos' = [pos EXCEPT ![c] = @ + 1]
        /\ Goto(c, IF pos[c] + 1 = NChunks THEN "ok" ELSE "write")
        /\ Witness(ValueOf(InodeOf(File), data'))
        /\ UNCHANGED <<dir, tmp, mode, path, target, ino, buf, faults>>
     \/ Faulty /\ Fail(c)

-------------------------------------------------------------------------------
(* A process dies: its calls stop where they are, the file system stays.   *)
(* A later call may run under the same process id.                         *)
Crash(q) ==
  LET dying == {c \in Calls: Pid[c] = q /\ Active(c)} IN
  /\ Faulty /\ dying # {}
  /\ pc' = [c \in Calls |-> IF c \in dying THEN "crashed" ELSE pc[c]]
  /\ faults' = faults \cup {"crash"}
  /\ UNCHANGED <<fs, local, seen>>

(* The container exists and is whole, or is not there yet. *)
Init ==
  /\ \/ LET i == CHOOSE i \in Inodes: TRUE
        IN  /\ dir = [p \in Paths |-> IF p = File THEN FileEntry(i) ELSE LinkEntry]
            /\ data = [j \in Inodes |-> IF j = i THEN Container({}) ELSE << >>]
     \/ /\ dir = [p \in Paths |-> IF p = File THEN NoEntry ELSE LinkEntry]
        /\ data = [j \in Inodes |-> << >>]
  /\ tmp = [q \in Pids |-> NoInode]
  /\ mode = [i \in Inodes |-> "own"]
  /\ pc = [c \in Calls |-> "idle"]
  /\ path = [c \in Calls |-> File]
  /\ target = [c \in Calls |-> File]
  /\ ino = [c \in Calls |-> NoInode]
  /\ pos = [c \in Calls |-> 0]
  /\ buf = [c \in Calls |-> << >>]
  /\ seen = [c \in Calls |-> {}]
  /\ faults = {}

UpdateStep(c) ==
  \/ UpdateRead(c) \/ UpdateEdit(c) \/ UpdateCanonicalize(c) \/ UpdateCreateTmp(c)
  \/ UpdateWriteTmp(c) \/ UpdateCopyMode(c) \/ UpdateRename(c) \/ UpdateCleanup(c)

Step(c) == \/ c \in Updaters /\ UpdateStep(c)
           \/ c \in Readers /\ ReadHeader(c)
           \/ c \in Creators /\ CreateWrite(c)

Start(c) == \E p \in Paths: \/ c \in Updaters /\ UpdateOpen(c, p)
                            \/ c \in Readers /\ ReadOpen(c, p)
                            \/ c \in Creators /\ CreateOpen(c, p)

Next == \/ \E c \in Calls: Start(c) \/ Step(c)
        \/ \E q \in Pids: Crash(q)

Spec == Init /\ [][Next]_vars

(* A thread inside a call keeps running; nobody has to start a call. *)
FairSpec == Spec /\ \A c \in Calls: WF_vars(Step(c))
-------------------------------------------------------------------------------
(* What is checked *)

TypeOK ==
  /\ dir \in [Paths -> [kind: {"file", "link", "none"}, ino: Inodes \cup {NoInode}]]
  /\ tmp \in [Pids -> Inodes \cup {NoInode}]
  /\ data \in [Inodes -> Seq({Hole} \cup [part: 1 .. NChunks, ver: Versions])]
  /\ mode \in [Inodes -> {"own", "default"}]
  /\ pc \in [Calls -> {"idle", "read", "edit", "canonicalize", "create", "write", "chmod",
                       "rename", "cleanup", "ok", "err", "crashed"}]
  /\ path \in [Calls -> Paths] /\ target \in [Calls -> Paths]
  /\ ino \in [Calls -> Inodes \cup {NoInode}]
  /\ \A c \in Calls: pc[c] \in {"read", "write"} => ino[c] \in Inodes
  /\ pos \in [Calls -> 0 .. NChunks]
  /\ buf \in [Calls -> Seq({Hole} \cup [part: 1 .. NChunks, ver: Versions])]
  /\ seen \in [Calls -> SUBSET (Versions \cup {NoValue})]
  /\ faults \subseteq {"chmod", "remove", "crash"}

(* "The write is atomic": whatever has failed or died so far, the path     *)
(* leads to one whole container, never to a half-written or mixed one; the *)
(* exception is a new file whose write_to_file has not returned Ok.        *)
TargetWhole ==
  LET i == InodeOf(File)
  IN  \/ i = NoInode
      \/ Whole(data[i])
      \/ \E w \in Creators: ino[w] = i /\ pc[w] # "ok"

(* "On error the file is left untouched": no byte of a call that returned  *)
(* an error, or whose process died before the rename, is in the file.      *)
ErrorUntouched ==
  LET i == InodeOf(File)
  IN  \A c \in Updaters: pc[c] \in {"err", "crashed"} /\ i # NoInode =>
        \A k \in DOMAIN data[i]: c \notin data[i][k].ver

(* The file a write_to_file call returned Ok for is the one at the path,   *)
(* its data included: an update that read it half-written never renames    *)
(* over it, and every later update keeps what it wrote.                    *)
CreatedIsKept ==
  \A w \in Creators: pc[w] = "ok" => Value # NoValue /\ w \in Value

(* "never leaves the temp file behind on failure": it exists only while a  *)
(* call of its process is using it, unless the process died or the removal *)
(* itself failed.                                                          *)
NoStrayTmp ==
  \A q \in Pids:
    tmp[q] # NoInode =>
      \/ \E c \in Updaters: Pid[c] = q /\ pc[c] \in {"create", "write", "chmod", "rename", "cleanup"}
      \/ faults \cap {"crash", "remove"} # {}

(* "preserves the target's unix permission mode", when the best-effort     *)
(* set_permissions did not fail, however many calls replaced the file.     *)
ModeKept ==
  "chmod" \notin faults /\ InodeOf(File) # NoInode => mode[InodeOf(File)] = "own"

(* "keeping a symlinked path pointed at the same target": a call given a   *)
(* link replaces what it leads to and leaves the link a link.              *)
LinksStay == \A l \in Links: dir[l] = LinkEntry

(* Every call that begins returns or dies: no error path is a dead end.    *)
EveryCallEnds == \A c \in Calls: Active(c) ~> ~Active(c)

(* The calls on one file are the whole reads, creations and replacements   *)
(* of AtomicFile, each taking effect in one step or not at all.            *)
Atomic == INSTANCE AtomicFile WITH
  value <- Value,
  status <- [c \in Calls |-> IF Active(c) THEN "busy" ELSE pc[c]],
  got <- [c \in Calls |-> IF c \in Readers /\ pc[c] = "ok" THEN buf[c][1].ver ELSE NoValue]
ImplementsAtomicFile == Atomic!Spec
===============================================================================
