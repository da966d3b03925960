-------------------------- MODULE ContainerFileProofs --------------------------
(*****************************************************************************)
(* Theorems about ContainerFile, for any number of calls and processes and   *)
(* any faults, if no two updates of one process overlap: the file is whole,  *)
(* failed calls leave no trace in it, and every system call of every call is *)
(* a step of AtomicFile or none, whatever fails, dies or interleaves.        *)
(*****************************************************************************)
EXTENDS ContainerFile, TLAPS

-------------------------------------------------------------------------------
(* The invariant *)

(* The beginning of a container. *)
Prefix(v, n) == [k \in 1 .. n |-> Chunk(k, v)]

(* A version holds no update that has not returned Ok, and whatever a      *)
(* write_to_file call is creating or has created.                          *)
Valid(v) ==
  /\ v \in Versions
  /\ \A c \in v \cap Updaters: pc[c] = "ok"
  /\ \A w \in Creators: pc[w] \in {"write", "ok"} => w \in v

(* An inode holds a container, or what a creator has written of it. *)
Holds(i, v, n) ==
  /\ n \in 0 .. NChunks /\ Valid(v) /\ data[i] = Prefix(v, n)
  /\ \/ n = NChunks
     \/ \E w \in Creators: ino[w] = i /\ pc[w] \notin {"idle", "ok"} /\ v = {w}

(* Only the file's own path has a file. *)
Names ==
  /\ \A l \in Links: dir[l] = LinkEntry
  /\ dir[File] = NoEntry \/ \E i \in Inodes: dir[File] = FileEntry(i)

(* No two updates of one process overlap. *)
Alone ==
  \A c, d \in Updaters: Active(c) /\ Active(d) /\ Pid[c] = Pid[d] => c = d

(* A temporary file is no other temporary file, not the file, and not what *)
(* is being read or created.                                               *)
Separate ==
  \A q \in Pids: tmp[q] # NoInode =>
    /\ tmp[q] # dir[File].ino
    /\ \A r \in Pids: tmp[q] = tmp[r] => q = r
    /\ \A c \in Calls: pc[c] = "read" \/ (c \in Creators /\ pc[c] = "write") => tmp[q] # ino[c]

(* Nothing has happened before there is a file. *)
NotYet ==
  dir[File] = NoEntry =>
    /\ \A c \in Calls: pc[c] \in {"idle", "err"} /\ ino[c] = NoInode
    /\ \A q \in Pids: tmp[q] = NoInode

(* A call that has not begun has read and written nothing. *)
NotBegun == \A c \in Calls: pc[c] = "idle" => pos[c] = 0 /\ buf[c] = << >>

(* One call at most creates the file. *)
Sole ==
  /\ \A w, x \in Creators: ino[w] # NoInode /\ ino[x] # NoInode => w = x
  /\ \A w \in Creators: pc[w] \in {"write", "ok"} => ino[w] # NoInode

(* What is at the path is a container, or one that is being created. *)
FileInv ==
  dir[File] # NoEntry => \E v \in Versions, n \in 0 .. NChunks: Holds(dir[File].ino, v, n)

(* While the file is being created no update gets past its layout check. *)
CreatorOK(w) ==
  pc[w] = "write" =>
    /\ pos[w] < NChunks /\ data[ino[w]] = Prefix({w}, pos[w])
    /\ ino[w] = dir[File].ino
    /\ \A c \in Updaters: /\ pc[c] \notin {"canonicalize", "create", "write", "chmod", "rename"}
                          /\ pc[c] = "read" => ino[c] = ino[w]
                          /\ pc[c] = "edit" => Len(buf[c]) < NChunks

(* What is read is the beginning of one container, which the file has been *)
(* since the call began if it is whole.                                    *)
Reading(c, v, n) == Holds(ino[c], v, n) /\ (n = NChunks => v \in seen[c])
ReaderOK(c) == pc[c] = "read" => \E v \in Versions, n \in 0 .. NChunks: Reading(c, v, n)

(* What is edited is a whole container that the file has been. *)
Ready(c, v) == Valid(v) /\ v \in seen[c] /\ buf[c] = Prefix(v, NChunks)

(* What an update has read and written so far; it writes the edit of a     *)
(* whole container, under the temporary name of its own process.           *)
UpdaterOK(c) ==
  /\ pc[c] = "read" =>
       \E v \in Versions, n \in 0 .. NChunks: Reading(c, v, n) /\ pos[c] <= n /\ buf[c] = Prefix(v, pos[c])
  /\ pc[c] = "edit" =>
       \E v \in Versions, n \in 0 .. NChunks:
         Valid(v) /\ buf[c] = Prefix(v, n) /\ (n = NChunks => v \in seen[c])
  /\ pc[c] \in {"canonicalize", "create", "write", "chmod", "rename"} =>
       \E v \in Versions:
         /\ Ready(c, v)
         /\ pc[c] = "write" => data[ino[c]] = Prefix(v \cup {c}, pos[c])
         /\ pc[c] \in {"chmod", "rename"} => data[tmp[Pid[c]]] = Prefix(v \cup {c}, NChunks)
  /\ pc[c] \in {"create", "write", "chmod", "rename"} => target[c] = File
  /\ pc[c] = "write" => ino[c] = tmp[Pid[c]] /\ pos[c] < NChunks
  /\ pc[c] \in {"chmod", "rename"} => tmp[Pid[c]] # NoInode

CallsOK ==
  /\ \A w \in Creators: CreatorOK(w)
  /\ \A c \in Readers: ReaderOK(c)
  /\ \A c \in Updaters: UpdaterOK(c)

(* The mode is copied before the rename. *)
ModeInv ==
  "chmod" \notin faults =>
    /\ dir[File] # NoEntry => mode[dir[File].ino] = "own"
    /\ \A c \in Updaters: pc[c] = "rename" => mode[tmp[Pid[c]]] = "own"

(* Whatever the file is, every call in progress has been a witness of it. *)
Current == \A c \in Calls: Active(c) => Value \in seen[c]

IInv == /\ TypeOK /\ Names /\ Alone /\ Separate /\ NotYet /\ NotBegun /\ Sole
        /\ FileInv /\ CallsOK /\ ModeInv /\ NoStrayTmp /\ Current

-------------------------------------------------------------------------------
(* Prefixes of containers *)

(* The chunks of a container. *)
Chunks == {Hole} \cup [part: 1 .. NChunks, ver: Versions]

(* A prefix is a sequence of chunks, each of its version. *)
LEMMA PrefixType ==
  ASSUME NEW v \in Versions, NEW n \in 0 .. NChunks
  PROVE  /\ Prefix(v, n) \in Seq(Chunks) /\ Len(Prefix(v, n)) = n
         /\ DOMAIN Prefix(v, n) = 1 .. n
         /\ \A k \in 1 .. n: Prefix(v, n)[k] = Chunk(k, v)
<1>1. n \in Nat /\ 1 .. n \subseteq 1 .. NChunks
  BY FileAssumption
<1>2. \A k \in 1 .. n: Chunk(k, v) \in Chunks
  BY <1>1 DEF Chunk, Chunks
<1>3. QED
  BY <1>1, <1>2 DEF Prefix

(* Nothing is the shortest prefix, a container the longest. *)
LEMMA PrefixEnds ==
  ASSUME NEW v \in Versions
  PROVE  Prefix(v, 0) = << >> /\ Prefix(v, NChunks) = Container(v)
<1>1. 1 .. 0 = {}
  OBVIOUS
<1>2. Prefix(v, 0) = << >>
  BY <1>1 DEF Prefix
<1>3. QED
  BY <1>2 DEF Prefix, Container

(* Reading or writing the next chunk gives the next prefix. *)
LEMMA PrefixGrows ==
  ASSUME NEW v \in Versions, NEW n \in 0 .. NChunks, n < NChunks
  PROVE  /\ Append(Prefix(v, n), Chunk(n + 1, v)) = Prefix(v, n + 1)
         /\ WriteAt(Prefix(v, n), n + 1, Chunk(n + 1, v)) = Prefix(v, n + 1)
<1>1. n \in Nat /\ n + 1 \in 0 .. NChunks /\ NChunks \in Nat
  BY FileAssumption
<1>2. Prefix(v, n) \in Seq(Chunks) /\ Len(Prefix(v, n)) = n
      /\ \A k \in 1 .. n: Prefix(v, n)[k] = Chunk(k, v)
  BY PrefixType
<1>3. Append(Prefix(v, n), Chunk(n + 1, v)) = Prefix(v, n + 1)
  BY <1>1, <1>2 DEF Prefix
<1>4. WriteAt(Prefix(v, n), n + 1, Chunk(n + 1, v)) = Prefix(v, n + 1)
  BY <1>1, <1>2 DEF Prefix, WriteAt
<1>5. QED
  BY <1>3, <1>4

(* A prefix is whole when nothing is missing, and of one version. *)
LEMMA PrefixValue ==
  ASSUME NEW v \in Versions, NEW n \in 0 .. NChunks, NEW i \in Inodes, NEW content,
         content[i] = Prefix(v, n)
  PROVE  /\ Whole(content[i]) <=> n = NChunks
         /\ n = NChunks => ValueOf(i, content) = v
         /\ n # NChunks => ValueOf(i, content) = NoValue
         /\ NoValue \notin Versions
<1>1. NChunks \in Nat /\ NChunks >= 2 /\ n \in Nat /\ i # NoInode
  BY FileAssumption
<1>2. Len(Prefix(v, n)) = n /\ \A k \in 1 .. n: Prefix(v, n)[k] = Chunk(k, v)
  BY PrefixType
<1>3. \A w \in Versions: Container(w) = Prefix(w, NChunks) /\ Len(Prefix(w, NChunks)) = NChunks
  BY <1>1, PrefixEnds, PrefixType
<1>4. Whole(content[i]) <=> n = NChunks
  BY <1>2, <1>3 DEF Whole
<1>5. n = NChunks => content[i][1].ver = v
  BY <1>1, <1>2 DEF Chunk
<1>6. NoValue \notin Versions
  BY FileAssumption DEF NoValue, Versions
<1>7. QED
  BY <1>1, <1>4, <1>5, <1>6 DEF ValueOf

(* Two versions that begin alike are one. *)
LEMMA PrefixOfOne ==
  ASSUME NEW v \in Versions, NEW w \in Versions, NEW n \in 0 .. NChunks, NEW m \in 0 .. NChunks,
         Prefix(v, n) = Prefix(w, m)
  PROVE  n = m /\ (n > 0 => v = w)
<1>1. Len(Prefix(v, n)) = n /\ Len(Prefix(w, m)) = m
  BY PrefixType
<1>2. ASSUME n > 0 PROVE v = w
  <2>1. 1 \in 1 .. n /\ 1 \in 1 .. m
    BY <1>1, <1>2, FileAssumption
  <2>2. Chunk(1, v) = Chunk(1, w)
    BY <2>1, PrefixType
  <2>3. QED
    BY <2>2 DEF Chunk
<1>3. QED
  BY <1>1, <1>2

-------------------------------------------------------------------------------
(* States *)

(* Every path leads to the one file. *)
LEMMA EveryPath ==
  ASSUME Names
  PROVE  /\ \A p \in Paths: Canonical(p) = File /\ InodeOf(p) = dir[File].ino
         /\ dir[File] = NoEntry <=> dir[File].ino = NoInode
         /\ dir[File] # NoEntry => dir[File].ino \in Inodes
<1>1. \A p \in Paths: Canonical(p) = File
  BY FileAssumption DEF Names, Paths, Canonical, LinkEntry, NoEntry, FileEntry
<1>2. Canonical(File) = File /\ File \in Paths
  BY <1>1 DEF Paths
<1>3. CASE dir[File] = NoEntry
  BY <1>1, <1>2, <1>3 DEF InodeOf, NoEntry
<1>4. CASE dir[File] # NoEntry
  <2>1. PICK i \in Inodes: dir[File] = FileEntry(i)
    BY <1>4 DEF Names
  <2>2. dir[File].ino = i
    BY <2>1 DEF FileEntry
  <2>3. QED
    BY <1>1, <1>2, <1>4, <2>2, FileAssumption DEF InodeOf
<1>5. QED
  BY <1>3, <1>4

(* The calls of one kind are of no other. *)
LEMMA Kinds ==
  /\ Updaters \subseteq Calls /\ Readers \subseteq Calls /\ Creators \subseteq Calls
  /\ \A c \in Calls: /\ c \in Updaters => c \notin Readers /\ c \notin Creators
                     /\ c \in Readers => c \notin Updaters /\ c \notin Creators
                     /\ c \in Creators => c \notin Updaters /\ c \notin Readers
BY FileAssumption DEF Calls

(* Nobody has begun before there is a file. *)
LEMMA ActiveHasFile ==
  ASSUME NotYet, NEW c \in Calls, Active(c)
  PROVE  dir[File] # NoEntry
BY DEF NotYet, Active

(* What the whole file holds. *)
LEMMA FileValue ==
  ASSUME Names, NEW v \in Versions, NEW n \in 0 .. NChunks, dir[File] # NoEntry,
         data[dir[File].ino] = Prefix(v, n)
  PROVE  /\ n = NChunks => Value = v
         /\ n # NChunks => Value = NoValue
<1>1. File \in Paths
  BY DEF Paths
<1>2. InodeOf(File) = dir[File].ino /\ dir[File].ino \in Inodes
  BY <1>1, EveryPath
<1>3. QED
  BY <1>2, PrefixValue DEF Value

-------------------------------------------------------------------------------
(* Steps *)

(* A finished call stays finished, and no creation begins or ends. *)
Steady ==
  /\ \A c \in Updaters: pc[c] = "ok" => pc'[c] = "ok"
  /\ \A w \in Creators: /\ ino'[w] = ino[w]
                        /\ pc'[w] \in {"write", "ok"} => pc'[w] = pc[w]
                        /\ pc[w] \notin {"idle", "ok"} => pc'[w] \notin {"idle", "ok"}

(* A step that another call takes. *)
Same(d) ==
  /\ pc'[d] = pc[d] /\ target'[d] = target[d] /\ ino'[d] = ino[d]
  /\ pos'[d] = pos[d] /\ buf'[d] = buf[d] /\ seen[d] \subseteq seen'[d]
Others(c) == \A d \in Calls: d # c => Same(d)

(* What is a version of the file stays one... *)
LEMMA SteadyVersion ==
  ASSUME Steady, NEW v, Valid(v)
  PROVE  Valid(v)'
BY DEF Steady, Valid

(* ... and an inode that is not written still holds it. *)
LEMMA SteadyContent ==
  ASSUME Steady, NEW i, NEW v, NEW n, Holds(i, v, n), data'[i] = data[i]
  PROVE  Holds(i, v, n)'
<1>1. Valid(v)'
  BY SteadyVersion DEF Holds
<1>2. QED
  BY <1>1 DEF Steady, Holds

(* A call is not disturbed by a step that leaves alone what it works on. *)
LEMMA ReaderUndisturbed ==
  ASSUME Steady, NEW c \in Readers, ReaderOK(c), Same(c),
         pc[c] = "read" => data'[ino[c]] = data[ino[c]]
  PROVE  ReaderOK(c)'
<1> SUFFICES ASSUME pc[c] = "read"
             PROVE  \E v \in Versions, n \in 0 .. NChunks: Reading(c, v, n)'
  BY DEF ReaderOK, Same
<1>1. PICK v \in Versions, n \in 0 .. NChunks: Reading(c, v, n)
  BY DEF ReaderOK
<1>2. Holds(ino[c], v, n)'
  <2> DEFINE i == ino[c]
  <2>1. Holds(i, v, n) /\ data'[i] = data[i]
    BY <1>1 DEF Reading
  <2> HIDE DEF i
  <2>2. Valid(v)'
    BY <2>1, SteadyVersion DEF Holds
  <2>3. QED
    BY <2>1, <2>2 DEF Holds, Steady, Same, i
<1>3. QED
  BY <1>1, <1>2 DEF Reading, Same

(* Nor is an update, if its temporary name and inode are left alone too. *)
LEMMA UpdaterUndisturbed ==
  ASSUME Steady, NEW c \in Updaters, UpdaterOK(c), Same(c),
         pc[c] \in {"read", "write"} => data'[ino[c]] = data[ino[c]],
         pc[c] \in {"write", "chmod", "rename"} => tmp'[Pid[c]] = tmp[Pid[c]],
         pc[c] \in {"chmod", "rename"} => data'[tmp[Pid[c]]] = data[tmp[Pid[c]]]
  PROVE  UpdaterOK(c)'
<1>1. ASSUME pc[c] = "read"
      PROVE  \E v \in Versions, n \in 0 .. NChunks:
               (Reading(c, v, n) /\ pos[c] <= n /\ buf[c] = Prefix(v, pos[c]))'
  <2>1. PICK v \in Versions, n \in 0 .. NChunks:
          Reading(c, v, n) /\ pos[c] <= n /\ buf[c] = Prefix(v, pos[c])
    BY <1>1 DEF UpdaterOK
  <2>2. Valid(v)'
    BY <2>1, SteadyVersion DEF Reading, Holds
  <2>3. Holds(ino[c], v, n)'
    BY <1>1, <2>1, <2>2 DEF Reading, Holds, Steady, Same
  <2>4. QED
    BY <2>1, <2>3 DEF Reading, Same
<1>2. ASSUME pc[c] = "edit"
      PROVE  \E v \in Versions, n \in 0 .. NChunks:
               (Valid(v) /\ buf[c] = Prefix(v, n) /\ (n = NChunks => v \in seen[c]))'
  <2>1. PICK v \in Versions, n \in 0 .. NChunks:
          Valid(v) /\ buf[c] = Prefix(v, n) /\ (n = NChunks => v \in seen[c])
    BY <1>2 DEF UpdaterOK
  <2>2. Valid(v)'
    BY <2>1, SteadyVersion
  <2>3. QED
    BY <2>1, <2>2 DEF Same
<1>3. ASSUME pc[c] \in {"canonicalize", "create", "write", "chmod", "rename"}
      PROVE  \E v \in Versions:
               (/\ Ready(c, v)
                /\ pc[c] = "write" => data[ino[c]] = Prefix(v \cup {c}, pos[c])
                /\ pc[c] \in {"chmod", "rename"} => data[tmp[Pid[c]]] = Prefix(v \cup {c}, NChunks))'
  <2>1. PICK v \in Versions:
          /\ Ready(c, v)
          /\ pc[c] = "write" => data[ino[c]] = Prefix(v \cup {c}, pos[c])
          /\ pc[c] \in {"chmod", "rename"} => data[tmp[Pid[c]]] = Prefix(v \cup {c}, NChunks)
    BY <1>3 DEF UpdaterOK
  <2>2. Valid(v)'
    BY <2>1, SteadyVersion DEF Ready
  <2>3. Ready(c, v)'
    BY <2>1, <2>2 DEF Ready, Same
  <2>4. QED
    BY <2>1, <2>3 DEF Same
<1>4. pc'[c] = pc[c]
  BY DEF Same
<1>5. (pc[c] \in {"create", "write", "chmod", "rename"} => target[c] = File)'
  BY <1>4 DEF Same, UpdaterOK
<1>6. (pc[c] = "write" => ino[c] = tmp[Pid[c]] /\ pos[c] < NChunks)'
  BY <1>4 DEF Same, UpdaterOK
<1>7. (pc[c] \in {"chmod", "rename"} => tmp[Pid[c]] # NoInode)'
  BY <1>4 DEF Same, UpdaterOK
<1>8. QED
  BY <1>1, <1>2, <1>3, <1>4, <1>5, <1>6, <1>7 DEF UpdaterOK

(* What one call may do without touching the file system. *)
Locally(c) ==
  /\ UNCHANGED <<fs, faults>> /\ Others(c) /\ Steady
  /\ pc'[c] = "read" => \/ pc[c] = "read" /\ ino'[c] = ino[c]
                        \/ pc[c] = "idle" /\ ino'[c] = dir[File].ino /\ dir[File] # NoEntry
  /\ pc[c] = "idle" => \/ pc'[c] = "read" /\ c \notin Creators
                       \/ pc'[c] = "err" /\ ino'[c] = ino[c]
  /\ pc[c] \notin {"ok", "err", "crashed"}
  /\ c \in Updaters /\ pc'[c] = "read" => pc[c] = "read" \/ MayStart(c)
  /\ c \in Creators => pc'[c] = "err"
  /\ c \in Updaters /\ pc[c] \in {"create", "write", "chmod", "rename", "cleanup"} =>
       pc'[c] = "cleanup"
  /\ pc'[c] \in {"read", "edit", "canonicalize", "create", "cleanup", "ok", "err"}
  /\ pc'[c] # "read" /\ pc[c] = "idle" => pc'[c] = "err"
  /\ Value \in seen[c] => Value \in seen'[c]
  /\ pc[c] = "idle" /\ pc'[c] = "read" => Value \in seen'[c]

(* Such a step keeps the invariant if it keeps what is said of the call. *)
LEMMA LocalStep ==
  ASSUME IInv, ~Threaded, NEW c \in Calls, Locally(c), TypeOK',
         c \in Updaters => UpdaterOK(c)', c \in Readers => ReaderOK(c)',
         \A w \in Creators: pc[w] = "write" /\ c \in Updaters =>
           /\ pc'[c] \notin {"canonicalize", "create"}
           /\ pc'[c] = "edit" => Len(buf'[c]) < NChunks
  PROVE  IInv' /\ Value' = Value
<1> USE DEF IInv
<1>1. Steady /\ UNCHANGED fs /\ UNCHANGED <<dir, tmp, data, mode, faults>>
  BY DEF Locally, fs
<1>2. Names'
  BY <1>1 DEF Names
<1>3. Alone'
  BY Kinds DEF Alone, Locally, Others, Same, Active, MayStart
<1>4. Separate'
  BY <1>1, Kinds DEF Separate, Locally, Others, Same, Steady
<1>5. NotYet'
  BY <1>1 DEF NotYet, Locally, Others, Same
<1>6. Sole'
  BY <1>1 DEF Sole, Steady
<1>7. FileInv'
  <2> SUFFICES ASSUME dir[File] # NoEntry
               PROVE  \E v \in Versions, n \in 0 .. NChunks: Holds(dir[File].ino, v, n)'
    BY <1>1 DEF FileInv
  <2>1. PICK v \in Versions, n \in 0 .. NChunks: Holds(dir[File].ino, v, n)
    BY DEF FileInv
  <2>2. PICK i: i = dir[File].ino
    OBVIOUS
  <2>3. Holds(i, v, n)'
    BY <1>1, <2>1, <2>2, SteadyContent
  <2>4. QED
    BY <1>1, <2>2, <2>3
<1>8. CallsOK'
  <2>1. ASSUME NEW d \in Calls, d # c PROVE Same(d)
    BY <2>1 DEF Locally, Others
  <2>2. ASSUME NEW w \in Creators PROVE CreatorOK(w)'
    <3> SUFFICES ASSUME pc'[w] = "write" PROVE CreatorOK(w)'
      BY DEF CreatorOK
    <3>1. pc[w] = "write" /\ w # c /\ CreatorOK(w)
      BY <1>1 DEF Steady, Locally, CallsOK
    <3>2. /\ pos[w] < NChunks /\ data[ino[w]] = Prefix({w}, pos[w]) /\ ino[w] = dir[File].ino
          /\ \A d \in Updaters: /\ pc[d] \notin {"canonicalize", "create", "write", "chmod", "rename"}
                                /\ pc[d] = "read" => ino[d] = ino[w]
                                /\ pc[d] = "edit" => Len(buf[d]) < NChunks
      BY <3>1 DEF CreatorOK
    <3>3. Same(w)
      BY <2>1, <3>1, Kinds
    <3>4. (pos[w] < NChunks /\ data[ino[w]] = Prefix({w}, pos[w]) /\ ino[w] = dir[File].ino)'
      BY <1>1, <3>2, <3>3 DEF Same
    <3>5. ASSUME NEW d \in Updaters
          PROVE  (/\ pc[d] \notin {"canonicalize", "create", "write", "chmod", "rename"}
                  /\ pc[d] = "read" => ino[d] = ino[w]
                  /\ pc[d] = "edit" => Len(buf[d]) < NChunks)'
      <4>1. CASE d # c
        BY <2>1, <3>2, <3>3, <4>1, Kinds DEF Same
      <4>2. CASE d = c
        BY <1>1, <3>1, <3>2, <3>3, <4>2 DEF Same, Locally
      <4>3. QED
        BY <4>1, <4>2
    <3>6. QED
      BY <3>4, <3>5 DEF CreatorOK
  <2>3. ASSUME NEW r \in Readers PROVE ReaderOK(r)'
    BY <1>1, <2>1, ReaderUndisturbed, Kinds DEF CallsOK
  <2>4. ASSUME NEW d \in Updaters PROVE UpdaterOK(d)'
    BY <1>1, <2>1, UpdaterUndisturbed, Kinds DEF CallsOK
  <2>5. QED
    BY <2>2, <2>3, <2>4 DEF CallsOK
<1>9. ModeInv'
  BY <1>1, Kinds DEF ModeInv, Locally, Others, Same
<1>10. NoStrayTmp'
  BY <1>1, Kinds DEF NoStrayTmp, Locally, Others, Same
<1>11. Current' /\ Value' = Value
  <2>1. Value' = Value
    BY <1>1 DEF Value, ValueOf, InodeOf, Canonical
  <2>2. QED
    BY <2>1 DEF Current, Locally, Others, Same, Active
<1>12. NotBegun'
  BY DEF NotBegun, Locally, Others, Same
<1>13. QED
  BY <1>2, <1>3, <1>4, <1>5, <1>6, <1>7, <1>8, <1>9, <1>10, <1>11, <1>12

-------------------------------------------------------------------------------
(* Steps that leave the file system alone *)

(* A call that returns an error is said nothing of any more. *)
LEMMA FailStep ==
  ASSUME IInv, ~Threaded, NEW c \in Calls, Fail(c),
         \/ pc[c] \in {"idle", "read", "edit", "canonicalize"}
         \/ c \in Creators /\ pc[c] = "write"
  PROVE  IInv' /\ Value' = Value
<1>1. /\ UNCHANGED <<dir, tmp, data, mode, path, target, ino, pos, buf, seen, faults>>
      /\ pc' = [pc EXCEPT ![c] = "err"]
  BY DEF Fail, Goto, Quiet, fs, local
<1>2. TypeOK /\ pc \in [Calls -> {"idle", "read", "edit", "canonicalize", "create", "write",
                                 "chmod", "rename", "cleanup", "ok", "err", "crashed"}]
  BY DEF IInv, TypeOK
<1>3. pc'[c] = "err" /\ \A d \in Calls: d # c => pc'[d] = pc[d]
  BY <1>1, <1>2
<1>4. TypeOK'
  BY <1>1, <1>2, <1>3 DEF TypeOK
<1>5. Others(c)
  BY <1>1, <1>3 DEF Others, Same
<1>6. Steady
  BY <1>1, <1>3, Kinds DEF Steady
<1>7. Locally(c)
  BY <1>1, <1>3, <1>5, <1>6, Kinds DEF Locally, fs
<1>8. c \in Updaters => UpdaterOK(c)'
  BY <1>3 DEF UpdaterOK
<1>9. c \in Readers => ReaderOK(c)'
  BY <1>3 DEF ReaderOK
<1>10. QED
  BY <1>3, <1>4, <1>7, <1>8, <1>9, LocalStep

(* Nor is one that has only its temporary file to remove. *)
LEMMA FailToCleanupStep ==
  ASSUME IInv, ~Threaded, NEW c \in Updaters, FailToCleanup(c), pc[c] \in {"create", "write", "rename"}
  PROVE  IInv' /\ Value' = Value
<1>1. /\ UNCHANGED <<dir, tmp, data, mode, path, target, ino, pos, buf, seen, faults>>
      /\ pc' = [pc EXCEPT ![c] = "cleanup"]
  BY DEF FailToCleanup, Goto, Quiet, fs, local
<1>2. TypeOK /\ c \in Calls
      /\ pc \in [Calls -> {"idle", "read", "edit", "canonicalize", "create", "write",
                           "chmod", "rename", "cleanup", "ok", "err", "crashed"}]
  BY Kinds DEF IInv, TypeOK
<1>3. pc'[c] = "cleanup" /\ \A d \in Calls: d # c => pc'[d] = pc[d]
  BY <1>1, <1>2
<1>4. TypeOK'
  BY <1>1, <1>2, <1>3 DEF TypeOK
<1>5. Others(c)
  BY <1>1, <1>3 DEF Others, Same
<1>6. Steady
  BY <1>1, <1>3, Kinds DEF Steady
<1>7. Locally(c)
  BY <1>1, <1>3, <1>5, <1>6, Kinds DEF Locally, fs
<1>8. UpdaterOK(c)'
  BY <1>3 DEF UpdaterOK
<1>9. c \notin Readers
  BY <1>2, Kinds
<1>10. QED
  BY <1>2, <1>3, <1>4, <1>7, <1>8, <1>9, LocalStep

(* The inode that a call opens holds what the file holds now. *)
LEMMA OpenStep ==
  ASSUME IInv, ~Threaded, NEW c \in Updaters \cup Readers, NEW p \in Paths, OpenForRead(c, p),
         c \in Updaters => MayStart(c)
  PROVE  IInv' /\ Value' = Value
<1>1. c \in Calls /\ pc[c] = "idle" /\ c \notin Creators
  BY Kinds DEF OpenForRead
<1>2. Names /\ FileInv /\ TypeOK
  BY DEF IInv
<1>3. CASE Fail(c)
  BY <1>1, <1>3, FailStep
<1>4. CASE /\ InodeOf(p) # NoInode
           /\ Goto(c, "read")
           /\ path' = [path EXCEPT ![c] = p]
           /\ ino' = [ino EXCEPT ![c] = InodeOf(p)]
           /\ seen' = [seen EXCEPT ![c] = {Value}]
           /\ UNCHANGED <<fs, target, pos, buf, faults>>
  <2>1. UNCHANGED <<dir, tmp, data, mode, target, pos, buf, faults>> /\ pc' = [pc EXCEPT ![c] = "read"]
    BY <1>4 DEF Goto, fs
  <2>2. /\ InodeOf(p) = dir[File].ino /\ dir[File] # NoEntry /\ dir[File].ino \in Inodes
        /\ File \in Paths
    BY <1>2, <1>4, EveryPath DEF Paths
  <2>3. /\ pc'[c] = "read" /\ ino'[c] = dir[File].ino /\ seen'[c] = {Value}
        /\ \A d \in Calls: d # c => pc'[d] = pc[d] /\ ino'[d] = ino[d] /\ seen'[d] = seen[d]
    BY <1>1, <1>2, <1>4, <2>1, <2>2 DEF TypeOK
  <2>4. Others(c)
    BY <2>1, <2>3 DEF Others, Same
  <2>5. Steady
    BY <1>1, <2>3, Kinds DEF Steady
  <2>6. Locally(c)
    BY <1>1, <2>1, <2>2, <2>3, <2>4, <2>5, Kinds DEF Locally, fs
  <2>7. PICK v \in Versions, n \in 0 .. NChunks: Holds(dir[File].ino, v, n)
    BY <1>2, <2>2 DEF FileInv
  <2>8. n = NChunks => Value = v
    BY <1>2, <2>2, <2>7, FileValue DEF Holds
  <2>9. Value \in Versions \cup {NoValue}
    BY <1>2, <2>2, <2>7, FileValue DEF Holds
  <2>10. TypeOK'
    BY <1>1, <1>2, <1>4, <2>1, <2>2, <2>3, <2>9 DEF TypeOK
  <2>11. Reading(c, v, n)'
    <3>1. Valid(v)'
      BY <2>5, <2>7, SteadyVersion DEF Holds
    <3>2. Holds(ino[c], v, n)'
      BY <2>1, <2>3, <2>5, <2>7, <3>1 DEF Holds, Steady
    <3>3. QED
      BY <2>3, <2>8, <3>2 DEF Reading
  <2>12. c \in Readers => ReaderOK(c)'
    BY <2>11 DEF ReaderOK
  <2>13. c \in Updaters => UpdaterOK(c)'
    <3>1. pos'[c] = 0 /\ buf'[c] = << >>
      BY <1>1, <2>1 DEF IInv, NotBegun
    <3>2. QED
      BY <2>3, <2>11, <3>1, PrefixEnds, FileAssumption DEF UpdaterOK
  <2>14. QED
    BY <1>1, <2>3, <2>6, <2>10, <2>12, <2>13, LocalStep
<1>5. QED
  BY <1>3, <1>4 DEF OpenForRead

(* What an update has read is the beginning of what its inode holds. *)
LEMMA UpdateReadStep ==
  ASSUME IInv, ~Threaded, NEW c \in Updaters, UpdateRead(c)
  PROVE  IInv' /\ Value' = Value
<1>1. c \in Calls /\ c \notin Creators /\ c \notin Readers /\ pc[c] = "read"
  BY Kinds DEF UpdateRead
<1>2. TypeOK /\ UpdaterOK(c)
  BY DEF IInv, CallsOK
<1>3. PICK v \in Versions, n \in 0 .. NChunks:
        Reading(c, v, n) /\ pos[c] <= n /\ buf[c] = Prefix(v, pos[c])
  BY <1>1, <1>2 DEF UpdaterOK
<1>4. /\ data[ino[c]] = Prefix(v, n) /\ Len(data[ino[c]]) = n /\ Valid(v)
      /\ n = NChunks => v \in seen[c]
      /\ pos[c] \in 0 .. NChunks
      /\ \A k \in 1 .. n: data[ino[c]][k] = Chunk(k, v)
  BY <1>1, <1>2, <1>3, PrefixType DEF Reading, Holds, TypeOK
<1>5. NChunks \in Nat /\ n \in Nat
  BY FileAssumption
<1>6. \A w \in Creators: pc[w] = "write" => n < NChunks
  <2> SUFFICES ASSUME NEW w \in Creators, pc[w] = "write" PROVE n < NChunks
    OBVIOUS
  <2>1. ino[c] = ino[w] /\ data[ino[w]] = Prefix({w}, pos[w]) /\ pos[w] < NChunks
        /\ pos[w] \in 0 .. NChunks
    BY <1>1, Kinds DEF IInv, CallsOK, CreatorOK, TypeOK
  <2>2. {w} \in Versions
    BY Kinds DEF Versions
  <2>3. n = pos[w]
    BY <1>4, <2>1, <2>2, PrefixOfOne
  <2>4. QED
    BY <2>1, <2>3
<1>7. CASE Fail(c)
  BY <1>1, <1>7, FailStep
<1>8. CASE /\ pos[c] < Len(data[ino[c]])
           /\ buf' = [buf EXCEPT ![c] = Append(@, data[ino[c]][pos[c] + 1])]
           /\ pos' = [pos EXCEPT ![c] = @ + 1]
           /\ Quiet /\ UNCHANGED <<fs, pc, path, target, ino>>
  <2>1. UNCHANGED <<dir, tmp, data, mode, pc, path, target, ino, seen, faults>>
    BY <1>8 DEF Quiet, fs
  <2>2. pos[c] + 1 \in 1 .. n /\ pos[c] + 1 \in 0 .. NChunks
    BY <1>4, <1>5, <1>8
  <2>3. Append(buf[c], data[ino[c]][pos[c] + 1]) = Prefix(v, pos[c] + 1)
    BY <1>3, <1>4, <1>5, <2>2, PrefixGrows
  <2>4. /\ pos'[c] = pos[c] + 1 /\ buf'[c] = Prefix(v, pos[c] + 1)
        /\ \A d \in Calls: d # c => pos'[d] = pos[d] /\ buf'[d] = buf[d]
    BY <1>1, <1>2, <1>8, <2>3 DEF TypeOK
  <2>5. Prefix(v, pos[c] + 1) \in Seq(Chunks)
    BY <2>2, PrefixType
  <2>6. TypeOK'
    BY <1>1, <1>2, <1>8, <2>1, <2>2, <2>3, <2>5 DEF TypeOK, Chunks
  <2>7. Others(c)
    BY <2>1, <2>4 DEF Others, Same
  <2>8. Steady
    BY <2>1 DEF Steady
  <2>9. Locally(c)
    BY <1>1, <2>1, <2>7, <2>8 DEF Locally, fs
  <2>10. Valid(v)'
    BY <1>4, <2>8, SteadyVersion
  <2>11. Reading(c, v, n)'
    BY <1>3, <2>1, <2>10 DEF Reading, Holds
  <2>12. UpdaterOK(c)'
    BY <1>1, <2>1, <2>2, <2>4, <2>11 DEF UpdaterOK
  <2>13. QED
    BY <1>1, <2>1, <2>6, <2>9, <2>12, LocalStep
<1>9. CASE /\ pos[c] >= Len(data[ino[c]])
           /\ Goto(c, "edit")
           /\ Quiet /\ UNCHANGED <<fs, local>>
  <2>1. /\ UNCHANGED <<dir, tmp, data, mode, path, target, ino, pos, buf, seen, faults>>
        /\ pc' = [pc EXCEPT ![c] = "edit"]
    BY <1>9 DEF Quiet, Goto, fs, local
  <2>2. pc'[c] = "edit" /\ \A d \in Calls: d # c => pc'[d] = pc[d]
    BY <1>1, <1>2, <2>1 DEF TypeOK
  <2>3. TypeOK'
    BY <1>1, <1>2, <2>1, <2>2 DEF TypeOK
  <2>4. Others(c)
    BY <2>1, <2>2 DEF Others, Same
  <2>5. Steady
    BY <1>1, <2>1, <2>2, Kinds DEF Steady
  <2>6. Locally(c)
    BY <1>1, <2>1, <2>2, <2>4, <2>5 DEF Locally, fs
  <2>7. pos[c] = n /\ buf[c] = Prefix(v, n) /\ Len(buf[c]) = n
    BY <1>3, <1>4, <1>5, <1>9, PrefixType
  <2>8. Valid(v)'
    BY <1>4, <2>5, SteadyVersion
  <2>9. UpdaterOK(c)'
    BY <1>4, <2>1, <2>2, <2>7, <2>8 DEF UpdaterOK
  <2>10. QED
    BY <1>1, <1>6, <2>1, <2>2, <2>3, <2>6, <2>7, <2>9, LocalStep
<1>10. QED
  BY <1>7, <1>8, <1>9 DEF UpdateRead

(* Only a whole container gets past the layout check. *)
LEMMA UpdateEditStep ==
  ASSUME IInv, ~Threaded, NEW c \in Updaters, UpdateEdit(c)
  PROVE  IInv' /\ Value' = Value
<1>1. c \in Calls /\ c \notin Creators /\ c \notin Readers /\ pc[c] = "edit"
  BY Kinds DEF UpdateEdit
<1>2. TypeOK /\ UpdaterOK(c)
  BY DEF IInv, CallsOK
<1>3. PICK v \in Versions, n \in 0 .. NChunks:
        Valid(v) /\ buf[c] = Prefix(v, n) /\ (n = NChunks => v \in seen[c])
  BY <1>1, <1>2 DEF UpdaterOK
<1>4. CASE Fail(c)
  BY <1>1, <1>4, FailStep
<1>5. CASE /\ Acceptable(buf[c])
           /\ Goto(c, "canonicalize")
           /\ Quiet /\ UNCHANGED <<fs, local>>
  <2>1. /\ UNCHANGED <<dir, tmp, data, mode, path, target, ino, pos, buf, seen, faults>>
        /\ pc' = [pc EXCEPT ![c] = "canonicalize"]
    BY <1>5 DEF Quiet, Goto, fs, local
  <2>2. pc'[c] = "canonicalize" /\ \A d \in Calls: d # c => pc'[d] = pc[d]
    BY <1>1, <1>2, <2>1 DEF TypeOK
  <2>3. TypeOK'
    BY <1>1, <1>2, <2>1, <2>2 DEF TypeOK
  <2>4. Others(c)
    BY <2>1, <2>2 DEF Others, Same
  <2>5. Steady
    BY <1>1, <2>1, <2>2, Kinds DEF Steady
  <2>6. Locally(c)
    BY <1>1, <2>1, <2>2, <2>4, <2>5 DEF Locally, fs
  <2>7. n = NChunks /\ Len(buf[c]) = NChunks
    BY <1>3, <1>5, PrefixType DEF Acceptable
  <2>8. Valid(v)'
    BY <1>3, <2>5, SteadyVersion
  <2>9. Ready(c, v)'
    BY <1>3, <2>1, <2>7, <2>8 DEF Ready
  <2>10. UpdaterOK(c)'
    BY <2>2, <2>9 DEF UpdaterOK
  <2>11. ASSUME NEW w \in Creators, pc[w] = "write" PROVE FALSE
    <3>1. Len(buf[c]) < NChunks
      BY <1>1, <2>11 DEF IInv, CallsOK, CreatorOK
    <3>2. QED
      BY <2>7, <3>1, FileAssumption
  <2>12. QED
    BY <1>1, <2>3, <2>6, <2>10, <2>11, LocalStep
<1>6. QED
  BY <1>4, <1>5 DEF UpdateEdit

(* A link is followed to the file before the update is written. *)
LEMMA UpdateCanonicalizeStep ==
  ASSUME IInv, ~Threaded, NEW c \in Updaters, UpdateCanonicalize(c)
  PROVE  IInv' /\ Value' = Value
<1>1. c \in Calls /\ c \notin Creators /\ c \notin Readers /\ pc[c] = "canonicalize"
  BY Kinds DEF UpdateCanonicalize
<1>2. TypeOK /\ UpdaterOK(c) /\ Names
  BY DEF IInv, CallsOK
<1>3. PICK v \in Versions: Ready(c, v)
  BY <1>1, <1>2 DEF UpdaterOK
<1>4. CASE Fail(c)
  BY <1>1, <1>4, FailStep
<1>5. CASE /\ target' = [target EXCEPT ![c] = Canonical(path[c])]
           /\ Goto(c, "create")
           /\ Quiet /\ UNCHANGED <<fs, path, ino, pos, buf>>
  <2>1. /\ UNCHANGED <<dir, tmp, data, mode, path, ino, pos, buf, seen, faults>>
        /\ pc' = [pc EXCEPT ![c] = "create"]
    BY <1>5 DEF Quiet, Goto, fs
  <2>2. Canonical(path[c]) = File /\ File \in Paths
    BY <1>1, <1>2, EveryPath DEF TypeOK, Paths
  <2>3. /\ pc'[c] = "create" /\ target'[c] = File
        /\ \A d \in Calls: d # c => pc'[d] = pc[d] /\ target'[d] = target[d]
    BY <1>1, <1>2, <1>5, <2>1, <2>2 DEF TypeOK
  <2>4. TypeOK'
    BY <1>1, <1>2, <1>5, <2>1, <2>2, <2>3 DEF TypeOK
  <2>5. Others(c)
    BY <2>1, <2>3 DEF Others, Same
  <2>6. Steady
    BY <1>1, <2>1, <2>3, Kinds DEF Steady
  <2>7. Locally(c)
    BY <1>1, <2>1, <2>3, <2>5, <2>6 DEF Locally, fs
  <2>8. Valid(v)'
    BY <1>3, <2>6, SteadyVersion DEF Ready
  <2>9. Ready(c, v)'
    BY <1>3, <2>1, <2>8 DEF Ready
  <2>10. UpdaterOK(c)'
    BY <2>3, <2>9 DEF UpdaterOK
  <2>11. \A w \in Creators: pc[w] # "write"
    BY <1>1 DEF IInv, CallsOK, CreatorOK
  <2>12. QED
    BY <1>1, <2>4, <2>7, <2>10, <2>11, LocalStep
<1>6. QED
  BY <1>4, <1>5 DEF UpdateCanonicalize

(* Reading a header changes nothing but the reader. *)
LEMMA ReadHeaderStep ==
  ASSUME IInv, ~Threaded, NEW c \in Readers, ReadHeader(c)
  PROVE  IInv' /\ Value' = Value
<1>1. c \in Calls /\ c \notin Creators /\ c \notin Updaters /\ pc[c] = "read"
  BY Kinds DEF ReadHeader
<1>2. TypeOK /\ ReaderOK(c)
  BY DEF IInv, CallsOK
<1>3. PICK v \in Versions, n \in 0 .. NChunks: Reading(c, v, n)
  BY <1>1, <1>2 DEF ReaderOK
<1>4. CASE Fail(c)
  BY <1>1, <1>4, FailStep
<1>5. CASE /\ HasHeader(data[ino[c]])
           /\ buf' = [buf EXCEPT ![c] = <<data[ino[c]][1]>>]
           /\ Goto(c, "ok")
           /\ Quiet /\ UNCHANGED <<fs, path, target, ino, pos>>
  <2>1. /\ UNCHANGED <<dir, tmp, data, mode, path, target, ino, pos, seen, faults>>
        /\ pc' = [pc EXCEPT ![c] = "ok"]
    BY <1>5 DEF Quiet, Goto, fs
  <2>2. /\ pc'[c] = "ok" /\ \A d \in Calls: d # c => pc'[d] = pc[d] /\ buf'[d] = buf[d]
    BY <1>1, <1>2, <1>5, <2>1 DEF TypeOK
  <2>3. data[ino[c]] \in Seq(Chunks) /\ Len(data[ino[c]]) > 0
    BY <1>3, <1>5, PrefixType DEF Reading, Holds, HasHeader
  <2>4. <<data[ino[c]][1]>> \in Seq(Chunks)
    BY <2>3
  <2>5. TypeOK'
    BY <1>1, <1>2, <1>5, <2>1, <2>2, <2>4 DEF TypeOK, Chunks
  <2>6. Others(c)
    BY <2>1, <2>2 DEF Others, Same
  <2>7. Steady
    BY <1>1, <2>1, <2>2, Kinds DEF Steady
  <2>8. Locally(c)
    BY <1>1, <2>1, <2>2, <2>6, <2>7 DEF Locally, fs
  <2>9. ReaderOK(c)'
    BY <2>2 DEF ReaderOK
  <2>10. QED
    BY <1>1, <2>5, <2>8, <2>9, LocalStep
<1>6. QED
  BY <1>4, <1>5 DEF ReadHeader

-------------------------------------------------------------------------------
(* Steps of a replacement *)

(* An inode that is no other process's temporary file, not the file, and   *)
(* not what is being read or created.                                      *)
Isolated(c, t) ==
  /\ t # dir[File].ino
  /\ \A q \in Pids: q # Pid[c] /\ tmp[q] # NoInode => tmp[q] # t
  /\ \A d \in Calls: pc[d] = "read" \/ (d \in Creators /\ pc[d] = "write") => t # ino[d]

(* What is written under a temporary name is nobody else's. *)
LEMMA OwnTmpIsIsolated ==
  ASSUME IInv, NEW c \in Updaters, pc[c] \in {"create", "write", "chmod", "rename", "cleanup"}
  PROVE  Isolated(c, tmp[Pid[c]])
<1>1. c \in Calls /\ Pid[c] \in Pids /\ Active(c) /\ TypeOK
  BY Kinds, FileAssumption DEF IInv, Active
<1>2. dir[File] # NoEntry
  BY <1>1, ActiveHasFile DEF IInv
<1>3. CASE tmp[Pid[c]] # NoInode
  BY <1>1, <1>3 DEF IInv, Separate, Isolated
<1>4. CASE tmp[Pid[c]] = NoInode
  <2>1. dir[File].ino # NoInode
    BY <1>2, EveryPath DEF IInv
  <2>2. \A d \in Calls: pc[d] \in {"read", "write"} => ino[d] # NoInode
    BY <1>1, FileAssumption DEF TypeOK
  <2>3. QED
    BY <1>4, <2>1, <2>2 DEF Isolated
<1>5. QED
  BY <1>3, <1>4

(* What one update may do to an isolated inode that becomes, is or was its *)
(* temporary file.                                                         *)
OnTmp(c, t) ==
  /\ Isolated(c, t) /\ Others(c) /\ Steady /\ dir' = dir
  /\ \A q \in Pids: q # Pid[c] => tmp'[q] = tmp[q]
  /\ tmp'[Pid[c]] \in {t, NoInode}
  /\ \A i \in Inodes: i # t => data'[i] = data[i] /\ mode'[i] = mode[i]
  /\ pc[c] \in {"create", "write", "chmod", "cleanup"}
  /\ pc'[c] \in {"write", "chmod", "rename", "err"}
  /\ seen[c] \subseteq seen'[c] /\ faults \subseteq faults'
  /\ pc'[c] = "err" => tmp'[Pid[c]] = NoInode \/ "remove" \in faults'
  /\ pc'[c] = "rename" /\ "chmod" \notin faults' => mode'[tmp'[Pid[c]]] = "own"

(* Such a step does not change the file. *)
LEMMA TmpKeepsValue ==
  ASSUME IInv, NEW c \in Updaters, NEW t, OnTmp(c, t)
  PROVE  /\ Value' = Value
         /\ dir[File] # NoEntry /\ dir[File].ino \in Inodes
         /\ data'[dir[File].ino] = data[dir[File].ino] /\ mode'[dir[File].ino] = mode[dir[File].ino]
<1>1. c \in Calls /\ Active(c) /\ Names /\ dir' = dir
  BY Kinds DEF OnTmp, Active, IInv
<1>2. dir[File] # NoEntry /\ dir[File].ino \in Inodes
  BY <1>1, ActiveHasFile, EveryPath DEF IInv
<1>3. data'[dir[File].ino] = data[dir[File].ino] /\ mode'[dir[File].ino] = mode[dir[File].ino]
  BY <1>2 DEF OnTmp, Isolated
<1>4. File \in Paths
  BY DEF Paths
<1>5. InodeOf(File) = dir[File].ino /\ InodeOf(File)' = dir[File].ino
  BY <1>1, <1>4, EveryPath DEF InodeOf, Canonical
<1>6. QED
  BY <1>2, <1>3, <1>5 DEF Value, ValueOf

(* It keeps the invariant if it keeps what is said of the update.          *)
LEMMA TmpStep ==
  ASSUME IInv, ~Threaded, NEW c \in Updaters, NEW t, OnTmp(c, t), TypeOK', UpdaterOK(c)',
         \A w \in Creators: pc[w] = "write" => pc'[c] = "err"
  PROVE  IInv' /\ Value' = Value
<1> USE DEF IInv
<1>1. c \in Calls /\ c \notin Creators /\ c \notin Readers /\ Pid[c] \in Pids /\ Active(c)
  BY Kinds, FileAssumption DEF OnTmp, Active
<1>2. dir[File] # NoEntry /\ dir[File].ino \in Inodes /\ dir' = dir
  BY TmpKeepsValue DEF OnTmp
<1>3. data'[dir[File].ino] = data[dir[File].ino] /\ mode'[dir[File].ino] = mode[dir[File].ino]
  BY TmpKeepsValue
<1>4. ASSUME NEW d \in Calls, d # c PROVE Same(d)
  BY <1>4 DEF OnTmp, Others
<1>5. ASSUME NEW d \in Updaters, d # c, Active(d) PROVE tmp'[Pid[d]] = tmp[Pid[d]] /\ Pid[d] # Pid[c]
  <2>1. Pid[d] # Pid[c] /\ Pid[d] \in Pids
    BY <1>1, <1>5, Kinds, FileAssumption DEF Alone
  <2>2. QED
    BY <2>1 DEF OnTmp
<1>6. Value' = Value
  BY TmpKeepsValue
<1>7. Names'
  BY <1>2 DEF Names
<1>8. Alone'
  BY <1>1, <1>4, Kinds DEF Alone, Same, Active
<1>9. Separate'
  <2> SUFFICES ASSUME NEW q \in Pids, tmp'[q] # NoInode
               PROVE  /\ tmp'[q] # dir[File].ino
                      /\ \A r \in Pids: tmp'[q] = tmp'[r] => q = r
                      /\ \A d \in Calls: pc'[d] = "read" \/ (d \in Creators /\ pc'[d] = "write")
                           => tmp'[q] # ino'[d]
    BY <1>2 DEF Separate
  <2>1. ASSUME NEW d \in Calls, pc'[d] = "read" \/ (d \in Creators /\ pc'[d] = "write")
        PROVE  d # c /\ pc'[d] = pc[d] /\ ino'[d] = ino[d]
    BY <1>1, <1>4, <2>1 DEF Same, OnTmp
  <2>2. CASE q = Pid[c]
    BY <2>1, <2>2 DEF OnTmp, Isolated
  <2>3. CASE q # Pid[c]
    BY <2>1, <2>3 DEF OnTmp, Isolated, Separate
  <2>4. QED
    BY <2>2, <2>3
<1>10. NotYet'
  BY <1>2 DEF NotYet
<1>11. NotBegun'
  BY <1>4 DEF NotBegun, OnTmp, Same
<1>12. Sole'
  BY DEF Sole, OnTmp, Steady
<1>13. FileInv'
  <2>1. PICK v \in Versions, n \in 0 .. NChunks: Holds(dir[File].ino, v, n)
    BY <1>2 DEF FileInv
  <2>2. PICK i: i = dir[File].ino
    OBVIOUS
  <2>3. Holds(i, v, n)'
    BY <1>3, <2>1, <2>2, SteadyContent DEF OnTmp
  <2>4. QED
    BY <1>2, <2>2, <2>3 DEF FileInv
<1>14. CallsOK'
  <2>1. ASSUME NEW d \in Calls, d # c, pc[d] = "read" \/ (d \in Creators /\ pc[d] = "write")
        PROVE  data'[ino[d]] = data[ino[d]]
    BY <2>1 DEF OnTmp, Isolated, TypeOK
  <2>2. ASSUME NEW w \in Creators PROVE CreatorOK(w)'
    <3> SUFFICES ASSUME pc'[w] = "write" PROVE CreatorOK(w)'
      BY DEF CreatorOK
    <3>1. Same(w) /\ pc[w] = "write" /\ CreatorOK(w) /\ data'[ino[w]] = data[ino[w]]
      BY <1>1, <1>4, <2>1, Kinds DEF Same, CallsOK
    <3>2. pc'[c] = "err"
      BY <3>1
    <3>3. /\ pos[w] < NChunks /\ data[ino[w]] = Prefix({w}, pos[w]) /\ ino[w] = dir[File].ino
          /\ \A d \in Updaters: /\ pc[d] \notin {"canonicalize", "create", "write", "chmod", "rename"}
                                /\ pc[d] = "read" => ino[d] = ino[w]
                                /\ pc[d] = "edit" => Len(buf[d]) < NChunks
      BY <3>1 DEF CreatorOK
    <3>4. (pos[w] < NChunks /\ data[ino[w]] = Prefix({w}, pos[w]) /\ ino[w] = dir[File].ino)'
      BY <1>2, <3>1, <3>3 DEF Same
    <3>5. ASSUME NEW d \in Updaters
          PROVE  (/\ pc[d] \notin {"canonicalize", "create", "write", "chmod", "rename"}
                  /\ pc[d] = "read" => ino[d] = ino[w]
                  /\ pc[d] = "edit" => Len(buf[d]) < NChunks)'
      BY <1>4, <3>1, <3>2, <3>3, Kinds DEF Same
    <3>6. QED
      BY <3>4, <3>5 DEF CreatorOK
  <2>3. ASSUME NEW r \in Readers PROVE ReaderOK(r)'
    <3>1. r \in Calls /\ r # c /\ ReaderOK(r)
      BY <1>1, Kinds DEF CallsOK
    <3>2. QED
      BY <1>4, <2>1, <3>1, ReaderUndisturbed DEF OnTmp
  <2>4. ASSUME NEW d \in Updaters, d # c PROVE UpdaterOK(d)'
    <3>1. d \in Calls /\ Same(d) /\ UpdaterOK(d) /\ Steady
      BY <1>4, <2>4, Kinds DEF CallsOK, OnTmp
    <3>2. ASSUME pc[d] \in {"write", "chmod", "rename"}
          PROVE  tmp'[Pid[d]] = tmp[Pid[d]] /\ data'[tmp[Pid[d]]] = data[tmp[Pid[d]]]
      <4>1. tmp'[Pid[d]] = tmp[Pid[d]] /\ Pid[d] # Pid[c]
        BY <1>5, <2>4, <3>2 DEF Active
      <4>2. tmp[Pid[d]] \in Inodes /\ Pid[d] \in Pids
        BY <3>1, <3>2, FileAssumption DEF UpdaterOK, TypeOK
      <4>3. tmp[Pid[d]] # t
        BY <4>1, <4>2, FileAssumption DEF OnTmp, Isolated
      <4>4. QED
        BY <4>1, <4>2, <4>3 DEF OnTmp
    <3>3. pc[d] = "write" => ino[d] = tmp[Pid[d]]
      BY <3>1 DEF UpdaterOK
    <3>4. pc[d] \in {"read", "write"} => data'[ino[d]] = data[ino[d]]
      BY <2>1, <2>4, <3>1, <3>2, <3>3
    <3>5. QED
      BY <3>1, <3>2, <3>4, UpdaterUndisturbed
  <2>5. QED
    BY <2>2, <2>3, <2>4 DEF CallsOK
<1>15. ModeInv'
  <2> SUFFICES ASSUME "chmod" \notin faults'
               PROVE  /\ mode'[dir[File].ino] = "own"
                      /\ \A d \in Updaters: pc'[d] = "rename" => mode'[tmp'[Pid[d]]] = "own"
    BY <1>2 DEF ModeInv
  <2>1. "chmod" \notin faults
    BY DEF OnTmp
  <2>2. mode'[dir[File].ino] = "own"
    BY <1>2, <1>3, <2>1 DEF ModeInv
  <2>3. ASSUME NEW d \in Updaters, pc'[d] = "rename", d # c PROVE mode'[tmp'[Pid[d]]] = "own"
    <3>1. pc[d] = "rename" /\ d \in Calls
      BY <1>4, <2>3, Kinds DEF Same
    <3>2. tmp'[Pid[d]] = tmp[Pid[d]] /\ Pid[d] # Pid[c]
      BY <1>5, <2>3, <3>1 DEF Active
    <3>3. tmp[Pid[d]] \in Inodes /\ Pid[d] \in Pids
      BY <3>1, FileAssumption DEF CallsOK, UpdaterOK, TypeOK
    <3>4. tmp[Pid[d]] # t
      BY <3>2, <3>3, FileAssumption DEF OnTmp, Isolated
    <3>5. mode[tmp[Pid[d]]] = "own"
      BY <2>1, <3>1 DEF ModeInv
    <3>6. QED
      BY <3>2, <3>3, <3>4, <3>5 DEF OnTmp
  <2>4. QED
    BY <2>2, <2>3 DEF OnTmp
<1>16. NoStrayTmp'
  <2> SUFFICES ASSUME NEW q \in Pids, tmp'[q] # NoInode, faults' \cap {"crash", "remove"} = {}
               PROVE  \E d \in Updaters: Pid[d] = q
                        /\ pc'[d] \in {"create", "write", "chmod", "rename", "cleanup"}
    BY DEF NoStrayTmp
  <2>1. CASE q = Pid[c]
    BY <2>1 DEF OnTmp
  <2>2. CASE q # Pid[c]
    <3>1. tmp[q] # NoInode /\ faults \cap {"crash", "remove"} = {}
      BY <2>2 DEF OnTmp
    <3>2. PICK d \in Updaters: Pid[d] = q /\ pc[d] \in {"create", "write", "chmod", "rename", "cleanup"}
      BY <3>1 DEF NoStrayTmp
    <3>3. QED
      BY <1>4, <2>2, <3>2, Kinds DEF Same
  <2>3. QED
    BY <2>1, <2>2
<1>17. Current'
  BY <1>1, <1>4, <1>6 DEF Current, Same, Active, OnTmp
<1>18. QED
  BY <1>6, <1>7, <1>8, <1>9, <1>10, <1>11, <1>12, <1>13, <1>14, <1>15, <1>16, <1>17

(* The file is nothing or a version. *)
LEMMA ValueType ==
  ASSUME IInv
  PROVE  Value \in Versions \cup {NoValue}
<1>1. CASE dir[File] = NoEntry
  <2>1. File \in Paths
    BY DEF Paths
  <2>2. InodeOf(File) = NoInode
    BY <1>1, <2>1, EveryPath DEF IInv
  <2>3. QED
    BY <2>2 DEF Value, ValueOf
<1>2. CASE dir[File] # NoEntry
  BY <1>2, FileValue DEF IInv, FileInv, Holds
<1>3. QED
  BY <1>1, <1>2

(* No file is being created while an update is past its layout check. *)
LEMMA NobodyCreates ==
  ASSUME IInv, NEW c \in Updaters, pc[c] \in {"canonicalize", "create", "write", "chmod", "rename"}
  PROVE  \A w \in Creators: pc[w] # "write"
BY DEF IInv, CallsOK, CreatorOK

(* The temporary inode is the process's own left-over, or a fresh one. *)
LEMMA UpdateCreateTmpStep ==
  ASSUME IInv, ~Threaded, NEW c \in Updaters, UpdateCreateTmp(c)
  PROVE  IInv' /\ Value' = Value
<1> DEFINE old == tmp[TmpOf(c)]
           new == IF old = NoInode THEN Fresh ELSE old
<1>1. c \in Calls /\ c \notin Creators /\ pc[c] = "create" /\ TmpOf(c) = Pid[c] /\ Pid[c] \in Pids
  BY Kinds, FileAssumption DEF UpdateCreateTmp, TmpOf
<1>2. TypeOK /\ UpdaterOK(c)
  BY DEF IInv, CallsOK
<1>3. CASE FailToCleanup(c)
  BY <1>1, <1>3, FailToCleanupStep
<1>4. CASE /\ old # NoInode \/ HasFresh
           /\ tmp' = [tmp EXCEPT ![TmpOf(c)] = new]
           /\ data' = [data EXCEPT ![new] = << >>]
           /\ mode' = [mode EXCEPT ![new] = IF old = NoInode THEN "default" ELSE @]
           /\ ino' = [ino EXCEPT ![c] = new]
           /\ pos' = [pos EXCEPT ![c] = 0]
           /\ Goto(c, "write")
           /\ Quiet /\ UNCHANGED <<dir, path, target, buf>>
  <2>1. new \in Inodes /\ Isolated(c, new)
    <3>1. CASE old # NoInode
      BY <1>1, <1>2, <3>1, OwnTmpIsIsolated DEF TypeOK
    <3>2. CASE old = NoInode
      <4>1. Fresh \in Inodes /\ Fresh \notin InUse
        BY <1>4, <3>2 DEF HasFresh, Fresh
      <4>2. /\ dir[File].ino \in InUse /\ \A q \in Pids: tmp[q] \in InUse
            /\ \A d \in Calls: pc[d] \in {"read", "write"} => ino[d] \in InUse
        BY DEF InUse, Active, Paths
      <4>3. QED
        BY <3>2, <4>1, <4>2 DEF Isolated
    <3>3. QED
      BY <3>1, <3>2
  <2>2. /\ UNCHANGED <<dir, path, target, buf, seen, faults>>
        /\ pc' = [pc EXCEPT ![c] = "write"]
    BY <1>4 DEF Quiet, Goto
  <2> HIDE DEF new
  <2>3. /\ tmp'[Pid[c]] = new /\ \A q \in Pids: q # Pid[c] => tmp'[q] = tmp[q]
        /\ data'[new] = << >>
        /\ \A i \in Inodes: i # new => data'[i] = data[i] /\ mode'[i] = mode[i]
        /\ pc'[c] = "write" /\ ino'[c] = new /\ pos'[c] = 0
        /\ \A d \in Calls: d # c => pc'[d] = pc[d] /\ ino'[d] = ino[d] /\ pos'[d] = pos[d]
    BY <1>1, <1>2, <1>4, <2>1, <2>2 DEF TypeOK
  <2>4. Others(c)
    BY <2>2, <2>3 DEF Others, Same
  <2>5. Steady
    BY <1>1, <2>2, <2>3, Kinds DEF Steady
  <2>6. OnTmp(c, new)
    BY <1>1, <2>1, <2>2, <2>3, <2>4, <2>5 DEF OnTmp
  <2>7. TypeOK'
    <3>1. << >> \in Seq(Chunks)
      OBVIOUS
    <3>2. /\ tmp' \in [Pids -> Inodes \cup {NoInode}]
          /\ data' \in [Inodes -> Seq({Hole} \cup [part: 1 .. NChunks, ver: Versions])]
          /\ ino' \in [Calls -> Inodes \cup {NoInode}] /\ pos' \in [Calls -> 0 .. NChunks]
      BY <1>1, <1>2, <1>4, <2>1, <3>1, FileAssumption DEF TypeOK, Chunks
    <3>3. mode' \in [Inodes -> {"own", "default"}]
      BY <1>2, <1>4, <2>1 DEF TypeOK
    <3>4. pc' \in [Calls -> {"idle", "read", "edit", "canonicalize", "create", "write", "chmod",
                             "rename", "cleanup", "ok", "err", "crashed"}]
      BY <1>1, <1>2, <2>2 DEF TypeOK
    <3>5. \A d \in Calls: pc'[d] \in {"read", "write"} => ino'[d] \in Inodes
      BY <1>2, <2>1, <2>3 DEF TypeOK
    <3>6. QED
      BY <1>2, <2>2, <3>2, <3>3, <3>4, <3>5 DEF TypeOK
  <2>8. UpdaterOK(c)'
    <3>1. PICK v \in Versions: Ready(c, v)
      BY <1>1, <1>2 DEF UpdaterOK
    <3>2. Ready(c, v)'
      BY <2>2, <2>5, <3>1, SteadyVersion DEF Ready
    <3>3. v \cup {c} \in Versions
      BY <1>1 DEF Versions
    <3>4. data'[ino'[c]] = Prefix(v \cup {c}, pos'[c])
      BY <2>3, <3>3, PrefixEnds
    <3>5. target'[c] = File
      BY <1>1, <1>2, <2>2 DEF UpdaterOK
    <3>6. pos'[c] < NChunks
      BY <2>3, FileAssumption
    <3>7. QED
      BY <2>3, <3>2, <3>4, <3>5, <3>6 DEF UpdaterOK
  <2>9. QED
    BY <1>1, <2>6, <2>7, <2>8, NobodyCreates, TmpStep
<1>5. QED
  BY <1>3, <1>4 DEF UpdateCreateTmp

(* What is written is the next chunk of the edited container. *)
LEMMA UpdateWriteTmpStep ==
  ASSUME IInv, ~Threaded, NEW c \in Updaters, UpdateWriteTmp(c)
  PROVE  IInv' /\ Value' = Value
<1>1. c \in Calls /\ c \notin Creators /\ pc[c] = "write" /\ Pid[c] \in Pids
  BY Kinds, FileAssumption DEF UpdateWriteTmp
<1>2. TypeOK /\ UpdaterOK(c)
  BY DEF IInv, CallsOK
<1>3. /\ ino[c] = tmp[Pid[c]] /\ ino[c] \in Inodes /\ target[c] = File
      /\ pos[c] < NChunks /\ pos[c] \in 0 .. NChunks
  BY <1>1, <1>2 DEF UpdaterOK, TypeOK
<1>4. PICK v \in Versions: Ready(c, v) /\ data[ino[c]] = Prefix(v \cup {c}, pos[c])
  BY <1>1, <1>2 DEF UpdaterOK
<1>5. CASE FailToCleanup(c)
  BY <1>1, <1>5, FailToCleanupStep
<1>6. CASE /\ data' = [data EXCEPT ![ino[c]] = WriteAt(@, pos[c] + 1, Edited(c, pos[c] + 1))]
           /\ pos' = [pos EXCEPT ![c] = @ + 1]
           /\ Goto(c, IF pos[c] + 1 = Len(buf[c]) THEN "chmod" ELSE "write")
           /\ Witness(ValueOf(InodeOf(File), data'))
           /\ UNCHANGED <<dir, tmp, mode, path, target, ino, buf, faults>>
  <2> DEFINE next == IF pos[c] + 1 = Len(buf[c]) THEN "chmod" ELSE "write"
  <2>1. NChunks \in Nat /\ pos[c] + 1 \in 1 .. NChunks /\ pos[c] + 1 \in 0 .. NChunks
    BY <1>3, FileAssumption
  <2>2. v \cup {c} \in Versions
    BY <1>1 DEF Versions
  <2>3. /\ buf[c] = Prefix(v, NChunks) /\ Len(buf[c]) = NChunks
        /\ buf[c][1] = Chunk(1, v) /\ buf[c][pos[c] + 1] = Chunk(pos[c] + 1, v)
    <3>1. NChunks \in 0 .. NChunks /\ 1 \in 1 .. NChunks
      BY FileAssumption
    <3>2. QED
      BY <1>4, <2>1, <3>1, PrefixType DEF Ready
  <2>4. Edited(c, pos[c] + 1) = Chunk(pos[c] + 1, v \cup {c})
    BY <2>3 DEF Edited, Chunk
  <2>5. WriteAt(data[ino[c]], pos[c] + 1, Edited(c, pos[c] + 1)) = Prefix(v \cup {c}, pos[c] + 1)
    BY <1>3, <1>4, <2>2, <2>4, PrefixGrows
  <2>6. /\ data'[ino[c]] = Prefix(v \cup {c}, pos[c] + 1)
        /\ \A i \in Inodes: i # ino[c] => data'[i] = data[i]
        /\ data' \in [Inodes -> Seq(Chunks)]
    <3>1. Prefix(v \cup {c}, pos[c] + 1) \in Seq(Chunks)
      BY <2>1, <2>2, PrefixType
    <3>2. QED
      BY <1>2, <1>3, <1>6, <2>5, <3>1 DEF TypeOK, Chunks
  <2>7. /\ pc' = [pc EXCEPT ![c] = next] /\ next \in {"chmod", "write"}
        /\ UNCHANGED <<dir, tmp, mode, path, target, ino, buf, faults>>
    BY <1>6 DEF Goto
  <2>8. /\ pc'[c] = next /\ pos'[c] = pos[c] + 1
        /\ \A d \in Calls: d # c => pc'[d] = pc[d] /\ pos'[d] = pos[d]
    BY <1>1, <1>2, <1>6, <2>7 DEF TypeOK
  <2>9. \A d \in Calls: seen[d] \subseteq seen'[d]
    BY <1>6 DEF Witness
  <2>10. Others(c)
    BY <2>7, <2>8, <2>9 DEF Others, Same
  <2>11. Steady
    BY <1>1, <2>7, <2>8, Kinds DEF Steady
  <2>12. Isolated(c, ino[c])
    BY <1>1, <1>3, OwnTmpIsIsolated
  <2>13. OnTmp(c, ino[c])
    BY <1>1, <1>3, <2>6, <2>7, <2>8, <2>9, <2>10, <2>11, <2>12 DEF OnTmp
  <2>14. ValueOf(InodeOf(File), data') \in Versions \cup {NoValue}
    <3>1. ValueOf(InodeOf(File), data') = Value'
      BY <2>7 DEF Value, InodeOf, Canonical
    <3>2. QED
      BY <2>13, <3>1, TmpKeepsValue, ValueType
  <2>15. TypeOK'
    <3>1. seen' \in [Calls -> SUBSET (Versions \cup {NoValue})]
      BY <1>2, <1>6, <2>14 DEF TypeOK, Witness
    <3>2. pos' \in [Calls -> 0 .. NChunks]
      BY <1>1, <1>2, <1>6, <2>1 DEF TypeOK
    <3>3. pc' \in [Calls -> {"idle", "read", "edit", "canonicalize", "create", "write", "chmod",
                             "rename", "cleanup", "ok", "err", "crashed"}]
      BY <1>1, <1>2, <2>7 DEF TypeOK
    <3>4. \A d \in Calls: pc'[d] \in {"read", "write"} => ino'[d] \in Inodes
      BY <1>2, <1>3, <2>7, <2>8 DEF TypeOK
    <3>5. QED
      BY <1>2, <2>6, <2>7, <3>1, <3>2, <3>3, <3>4 DEF TypeOK, Chunks
  <2>16. UpdaterOK(c)'
    <3>1. Ready(c, v)'
      BY <1>4, <2>7, <2>9, <2>11, <1>1, SteadyVersion DEF Ready
    <3>2. pos'[c] < NChunks <=> next = "write"
      BY <1>3, <2>1, <2>3, <2>8
    <3>3. data'[ino'[c]] = Prefix(v \cup {c}, pos'[c])
      BY <2>6, <2>7, <2>8
    <3>4. next = "chmod" => data'[tmp'[Pid[c]]] = Prefix(v \cup {c}, NChunks)
      BY <1>3, <2>3, <2>6, <2>7
    <3>5. tmp'[Pid[c]] = ino'[c] /\ tmp'[Pid[c]] # NoInode /\ target'[c] = File
      BY <1>3, <2>7, FileAssumption
    <3>6. QED
      BY <2>7, <2>8, <3>1, <3>2, <3>3, <3>4, <3>5 DEF UpdaterOK
  <2>17. QED
    BY <1>1, <2>13, <2>15, <2>16, NobodyCreates, TmpStep
<1>7. QED
  BY <1>5, <1>6 DEF UpdateWriteTmp

(* The mode that is copied is that of the file. *)
LEMMA UpdateCopyModeStep ==
  ASSUME IInv, ~Threaded, NEW c \in Updaters, UpdateCopyMode(c)
  PROVE  IInv' /\ Value' = Value
<1> DEFINE new == tmp[Pid[c]]
<1>1. c \in Calls /\ c \notin Creators /\ pc[c] = "chmod" /\ Pid[c] \in Pids /\ Active(c)
  BY Kinds, FileAssumption DEF UpdateCopyMode, Active
<1>2. TypeOK /\ UpdaterOK(c) /\ Names /\ ModeInv
  BY DEF IInv, CallsOK
<1>3. target[c] = File /\ new # NoInode /\ new \in Inodes
  BY <1>1, <1>2 DEF UpdaterOK, TypeOK
<1>4. PICK v \in Versions: Ready(c, v) /\ data[new] = Prefix(v \cup {c}, NChunks)
  BY <1>1, <1>2 DEF UpdaterOK
<1>5. /\ pc' = [pc EXCEPT ![c] = "rename"]
      /\ UNCHANGED <<dir, tmp, data, path, target, ino, pos, buf, seen>>
  BY DEF UpdateCopyMode, Goto, local
<1>6. pc'[c] = "rename" /\ \A d \in Calls: d # c => pc'[d] = pc[d]
  BY <1>1, <1>2, <1>5 DEF TypeOK
<1>7. \/ mode' = [mode EXCEPT ![new] = mode[dir[File].ino]] /\ faults' = faults
      \/ mode' = mode /\ faults' = faults \cup {"chmod"}
  <2>1. InodeOf(target[c]) = dir[File].ino
    BY <1>2, <1>3, EveryPath DEF Paths
  <2>2. QED
    BY <1>3, <2>1 DEF UpdateCopyMode, TmpOf
<1>8. dir[File] # NoEntry /\ dir[File].ino \in Inodes
  BY <1>1, <1>2, ActiveHasFile, EveryPath DEF IInv
<1>9. Others(c)
  BY <1>5, <1>6 DEF Others, Same
<1>10. Steady
  BY <1>1, <1>5, <1>6, Kinds DEF Steady
<1>11. Isolated(c, new)
  BY <1>1, OwnTmpIsIsolated
<1>12. "chmod" \notin faults' => mode'[new] = "own"
  BY <1>2, <1>3, <1>7, <1>8 DEF ModeInv, TypeOK
<1>13. OnTmp(c, new)
  <2>1. \A i \in Inodes: i # new => mode'[i] = mode[i]
    BY <1>2, <1>3, <1>7 DEF TypeOK
  <2>2. faults \subseteq faults'
    BY <1>7
  <2>3. QED
    BY <1>1, <1>5, <1>6, <1>9, <1>10, <1>11, <1>12, <2>1, <2>2 DEF OnTmp
<1>14. TypeOK'
  <2>1. mode' \in [Inodes -> {"own", "default"}] /\ faults' \subseteq {"chmod", "remove", "crash"}
    <3>1. mode \in [Inodes -> {"own", "default"}] /\ faults \subseteq {"chmod", "remove", "crash"}
      BY <1>2 DEF TypeOK
    <3>2. mode[dir[File].ino] \in {"own", "default"}
      BY <1>8, <3>1
    <3>3. QED
      BY <1>3, <1>7, <3>1, <3>2
  <2>2. pc' \in [Calls -> {"idle", "read", "edit", "canonicalize", "create", "write", "chmod",
                           "rename", "cleanup", "ok", "err", "crashed"}]
    BY <1>1, <1>2, <1>5 DEF TypeOK
  <2>3. \A d \in Calls: pc'[d] \in {"read", "write"} => ino'[d] \in Inodes
    BY <1>2, <1>5, <1>6 DEF TypeOK
  <2>4. QED
    BY <1>2, <1>5, <2>1, <2>2, <2>3 DEF TypeOK
<1>15. UpdaterOK(c)'
  <2>1. Ready(c, v)'
    BY <1>4, <1>5, <1>10, SteadyVersion DEF Ready
  <2>2. QED
    BY <1>3, <1>4, <1>5, <1>6, <2>1 DEF UpdaterOK
<1>16. QED
  BY <1>1, <1>13, <1>14, <1>15, NobodyCreates, TmpStep

(* Once the temporary file is removed, or its removal failed, none is owed. *)
LEMMA UpdateCleanupStep ==
  ASSUME IInv, ~Threaded, NEW c \in Updaters, UpdateCleanup(c)
  PROVE  IInv' /\ Value' = Value
<1>1. c \in Calls /\ c \notin Creators /\ pc[c] = "cleanup" /\ Pid[c] \in Pids
  BY Kinds, FileAssumption DEF UpdateCleanup
<1>2. TypeOK
  BY DEF IInv
<1>3. /\ pc' = [pc EXCEPT ![c] = "err"]
      /\ UNCHANGED <<dir, data, mode, path, target, ino, pos, buf, seen>>
      /\ \/ tmp' = [tmp EXCEPT ![Pid[c]] = NoInode] /\ faults' = faults
         \/ tmp' = tmp /\ faults' = faults \cup {"remove"}
  BY DEF UpdateCleanup, Goto, local, TmpOf
<1>4. pc'[c] = "err" /\ \A d \in Calls: d # c => pc'[d] = pc[d]
  BY <1>1, <1>2, <1>3 DEF TypeOK
<1>5. Others(c)
  BY <1>3, <1>4 DEF Others, Same
<1>6. Steady
  BY <1>1, <1>3, <1>4, Kinds DEF Steady
<1>7. Isolated(c, tmp[Pid[c]])
  BY <1>1, OwnTmpIsIsolated
<1>8. OnTmp(c, tmp[Pid[c]])
  <2>1. /\ \A q \in Pids: q # Pid[c] => tmp'[q] = tmp[q]
        /\ tmp'[Pid[c]] \in {tmp[Pid[c]], NoInode}
        /\ tmp'[Pid[c]] = NoInode \/ "remove" \in faults'
        /\ faults \subseteq faults'
    BY <1>1, <1>2, <1>3 DEF TypeOK
  <2>2. QED
    BY <1>1, <1>3, <1>4, <1>5, <1>6, <1>7, <2>1 DEF OnTmp
<1>9. TypeOK'
  <2>1. tmp' \in [Pids -> Inodes \cup {NoInode}] /\ faults' \subseteq {"chmod", "remove", "crash"}
    BY <1>1, <1>2, <1>3 DEF TypeOK
  <2>2. pc' \in [Calls -> {"idle", "read", "edit", "canonicalize", "create", "write", "chmod",
                           "rename", "cleanup", "ok", "err", "crashed"}]
    BY <1>1, <1>2, <1>3 DEF TypeOK
  <2>3. \A d \in Calls: pc'[d] \in {"read", "write"} => ino'[d] \in Inodes
    BY <1>2, <1>3, <1>4 DEF TypeOK
  <2>4. QED
    BY <1>2, <1>3, <2>1, <2>2, <2>3 DEF TypeOK
<1>10. UpdaterOK(c)'
  BY <1>4 DEF UpdaterOK
<1>11. QED
  BY <1>4, <1>8, <1>9, <1>10, TmpStep

(* The file becomes the edited container, and the call's edit is in it now *)
(* that it returns Ok.                                                     *)
LEMMA RenameEffect ==
  ASSUME IInv, ~Threaded, NEW c \in Updaters, UpdateRename(c), ~FailToCleanup(c)
  PROVE  \E v \in Versions, t \in Inodes:
           /\ t = tmp[Pid[c]] /\ v \in seen[c] /\ Holds(t, v \cup {c}, NChunks)'
           /\ dir[File] # NoEntry
           /\ dir' = [dir EXCEPT ![File] = FileEntry(t)] /\ dir'[File] = FileEntry(t)
           /\ tmp' = [tmp EXCEPT ![Pid[c]] = NoInode]
           /\ pc' = [pc EXCEPT ![c] = "ok"] /\ pc[c] = "rename"
           /\ v \cup {c} \in Versions /\ Value' = v \cup {c}
           /\ seen' = [d \in Calls |-> IF Active(d) THEN seen[d] \cup {v \cup {c}} ELSE seen[d]]
           /\ UNCHANGED <<data, mode, path, target, ino, pos, buf, faults>>
           /\ Others(c) /\ Steady /\ pc'[c] = "ok"
<1>1. c \in Calls /\ c \notin Creators /\ pc[c] = "rename" /\ Pid[c] \in Pids /\ TmpOf(c) = Pid[c]
      /\ Active(c)
  BY Kinds, FileAssumption DEF UpdateRename, TmpOf, Active
<1>2. TypeOK /\ UpdaterOK(c) /\ Names /\ dir[File] # NoEntry
  BY <1>1, ActiveHasFile DEF IInv, CallsOK
<1>3. PICK v \in Versions: Ready(c, v) /\ data[tmp[Pid[c]]] = Prefix(v \cup {c}, NChunks)
  BY <1>1, <1>2 DEF UpdaterOK
<1>4. PICK t \in Inodes: t = tmp[Pid[c]]
  BY <1>1, <1>2 DEF UpdaterOK, TypeOK
<1>5. target[c] = File /\ t # NoInode /\ File \in Paths
  BY <1>1, <1>2, FileAssumption DEF UpdaterOK, Paths
<1>6. /\ dir' = [dir EXCEPT ![File] = FileEntry(t)]
      /\ tmp' = [tmp EXCEPT ![Pid[c]] = NoInode]
      /\ pc' = [pc EXCEPT ![c] = "ok"]
      /\ Witness(ValueOf(t, data))
      /\ UNCHANGED <<data, mode, path, target, ino, pos, buf, faults>>
  BY <1>1, <1>4, <1>5 DEF UpdateRename, Goto, local
<1>7. v \cup {c} \in Versions /\ NChunks \in 0 .. NChunks
  BY <1>1, FileAssumption DEF Versions
<1>8. ValueOf(t, data) = v \cup {c}
  BY <1>3, <1>4, <1>7, PrefixValue
<1>9. dir'[File] = FileEntry(t)
  BY <1>2, <1>5, <1>6 DEF TypeOK
<1>10. Value' = v \cup {c}
  <2>1. dir'[File].kind # "link" /\ dir'[File].ino = t
    BY <1>9 DEF FileEntry
  <2>2. InodeOf(File)' = t
    BY <2>1 DEF InodeOf, Canonical
  <2>3. QED
    BY <1>6, <1>8, <2>2 DEF Value, ValueOf
<1>11. seen' = [d \in Calls |-> IF Active(d) THEN seen[d] \cup {v \cup {c}} ELSE seen[d]]
  BY <1>6, <1>8 DEF Witness
<1>12. pc'[c] = "ok" /\ \A d \in Calls: d # c => pc'[d] = pc[d]
  BY <1>1, <1>2, <1>6 DEF TypeOK
<1>13. Others(c)
  BY <1>6, <1>11, <1>12 DEF Others, Same
<1>14. Steady
  BY <1>1, <1>6, <1>12, Kinds DEF Steady
<1>15. Holds(t, v \cup {c}, NChunks)'
  <2>1. Valid(v)'
    BY <1>3, <1>14, SteadyVersion DEF Ready
  <2>2. Valid(v \cup {c})'
    BY <1>7, <1>12, <2>1 DEF Valid
  <2>3. QED
    BY <1>3, <1>4, <1>6, <1>7, <2>2 DEF Holds
<1>16. v \in seen[c]
  BY <1>3 DEF Ready
<1>17. QED
  BY <1>1, <1>2, <1>4, <1>6, <1>7, <1>9, <1>10, <1>11, <1>12, <1>13, <1>14, <1>15, <1>16

(* The call's inode, now the file's, is no temporary file any more. *)
LEMMA UpdateRenameStep ==
  ASSUME IInv, ~Threaded, NEW c \in Updaters, UpdateRename(c)
  PROVE  IInv'
<1> USE DEF IInv
<1>1. c \in Calls /\ c \notin Creators /\ c \notin Readers /\ pc[c] = "rename" /\ Pid[c] \in Pids
      /\ Active(c)
  BY Kinds, FileAssumption DEF UpdateRename, Active
<1>2. CASE FailToCleanup(c)
  BY <1>1, <1>2, FailToCleanupStep
<1>3. CASE ~FailToCleanup(c)
  <2>1. PICK v \in Versions, t \in Inodes:
          /\ t = tmp[Pid[c]] /\ v \in seen[c] /\ Holds(t, v \cup {c}, NChunks)'
          /\ dir[File] # NoEntry
          /\ dir' = [dir EXCEPT ![File] = FileEntry(t)] /\ dir'[File] = FileEntry(t)
          /\ tmp' = [tmp EXCEPT ![Pid[c]] = NoInode]
          /\ pc' = [pc EXCEPT ![c] = "ok"] /\ pc[c] = "rename"
          /\ v \cup {c} \in Versions /\ Value' = v \cup {c}
          /\ seen' = [d \in Calls |-> IF Active(d) THEN seen[d] \cup {v \cup {c}} ELSE seen[d]]
          /\ UNCHANGED <<data, mode, path, target, ino, pos, buf, faults>>
          /\ Others(c) /\ Steady /\ pc'[c] = "ok"
    BY <1>3, RenameEffect
  <2>2. dir'[File].ino = t /\ dir'[File] # NoEntry /\ t # NoInode /\ File \in Paths
    BY <2>1, FileAssumption DEF FileEntry, NoEntry, Paths
  <2>3. tmp'[Pid[c]] = NoInode /\ \A q \in Pids: q # Pid[c] => tmp'[q] = tmp[q]
    BY <1>1, <2>1 DEF TypeOK
  <2>4. ASSUME NEW d \in Calls, d # c PROVE Same(d)
    BY <2>1, <2>4 DEF Others
  <2>5. ASSUME NEW d \in Updaters, d # c, Active(d) PROVE tmp'[Pid[d]] = tmp[Pid[d]]
    BY <1>1, <2>3, <2>5, Kinds, FileAssumption DEF Alone
  <2>6. TypeOK'
    <3>1. dir' \in [Paths -> [kind: {"file", "link", "none"}, ino: Inodes \cup {NoInode}]]
      BY <2>1, <2>2 DEF TypeOK, FileEntry
    <3>2. tmp' \in [Pids -> Inodes \cup {NoInode}]
      BY <1>1, <2>1 DEF TypeOK
    <3>3. seen' \in [Calls -> SUBSET (Versions \cup {NoValue})]
      BY <2>1 DEF TypeOK
    <3>4. pc' \in [Calls -> {"idle", "read", "edit", "canonicalize", "create", "write", "chmod",
                             "rename", "cleanup", "ok", "err", "crashed"}]
      BY <1>1, <2>1 DEF TypeOK
    <3>5. \A d \in Calls: pc'[d] \in {"read", "write"} => ino'[d] \in Inodes
      BY <2>1, <2>4 DEF TypeOK, Same
    <3>6. QED
      BY <2>1, <3>1, <3>2, <3>3, <3>4, <3>5 DEF TypeOK
  <2>7. Names'
    <3>1. \A l \in Links: dir'[l] = dir[l]
      BY <2>1, FileAssumption DEF TypeOK, Paths
    <3>2. QED
      BY <2>1, <3>1 DEF Names
  <2>8. Alone'
    BY <2>1, <2>4, Kinds DEF Alone, Same, Active
  <2>9. Separate'
    <3> SUFFICES ASSUME NEW q \in Pids, tmp'[q] # NoInode
                 PROVE  /\ tmp'[q] # t
                        /\ \A r \in Pids: tmp'[q] = tmp'[r] => q = r
                        /\ \A d \in Calls: pc'[d] = "read" \/ (d \in Creators /\ pc'[d] = "write")
                             => tmp'[q] # ino'[d]
      BY <2>2 DEF Separate
    <3>1. q # Pid[c] /\ tmp'[q] = tmp[q]
      BY <2>3
    <3>2. tmp[q] # t
      BY <1>1, <2>1, <3>1 DEF Separate
    <3>3. QED
      BY <2>1, <2>3, <2>4, <3>1, <3>2 DEF Separate, Same
  <2>10. NotYet'
    BY <2>2 DEF NotYet
  <2>11. NotBegun'
    BY <2>1, <2>4 DEF NotBegun, Same
  <2>12. Sole'
    BY <2>1 DEF Sole, Steady
  <2>13. FileInv'
    <3>1. NChunks \in 0 .. NChunks
      BY FileAssumption
    <3>2. QED
      BY <2>1, <2>2, <3>1 DEF FileInv
  <2>14. CallsOK'
    <3>1. ASSUME NEW w \in Creators PROVE CreatorOK(w)'
      BY <1>1, <2>1, NobodyCreates DEF CreatorOK, Steady
    <3>2. ASSUME NEW r \in Readers PROVE ReaderOK(r)'
      BY <1>1, <2>1, <2>4, ReaderUndisturbed, Kinds DEF CallsOK
    <3>3. ASSUME NEW d \in Updaters, d # c PROVE UpdaterOK(d)'
      BY <2>1, <2>4, <2>5, <3>3, UpdaterUndisturbed, Kinds DEF CallsOK, Active
    <3>4. UpdaterOK(c)'
      BY <2>1 DEF UpdaterOK
    <3>5. QED
      BY <3>1, <3>2, <3>3, <3>4 DEF CallsOK
  <2>15. ModeInv'
    <3> SUFFICES ASSUME "chmod" \notin faults
                 PROVE  /\ mode[t] = "own"
                        /\ \A d \in Updaters: pc'[d] = "rename" => mode[tmp'[Pid[d]]] = "own"
      BY <2>1, <2>2 DEF ModeInv
    <3>1. mode[t] = "own"
      BY <1>1, <2>1 DEF ModeInv
    <3>2. ASSUME NEW d \in Updaters, pc'[d] = "rename" PROVE mode[tmp'[Pid[d]]] = "own"
      <4>1. d # c /\ pc[d] = "rename"
        BY <2>1, <2>4, <3>2, Kinds DEF Same
      <4>2. QED
        BY <2>5, <4>1 DEF ModeInv, Active
    <3>3. QED
      BY <3>1, <3>2
  <2>16. NoStrayTmp'
    <3> SUFFICES ASSUME NEW q \in Pids, tmp'[q] # NoInode, faults \cap {"crash", "remove"} = {}
                 PROVE  \E d \in Updaters: Pid[d] = q
                          /\ pc'[d] \in {"create", "write", "chmod", "rename", "cleanup"}
      BY <2>1 DEF NoStrayTmp
    <3>1. q # Pid[c] /\ tmp[q] # NoInode
      BY <2>3
    <3>2. PICK d \in Updaters: Pid[d] = q /\ pc[d] \in {"create", "write", "chmod", "rename", "cleanup"}
      BY <3>1 DEF NoStrayTmp
    <3>3. QED
      BY <2>4, <3>1, <3>2, Kinds DEF Same
  <2>17. Current'
    BY <2>1, <2>4 DEF Current, Active, Same
  <2>18. QED
    BY <2>6, <2>7, <2>8, <2>9, <2>10, <2>11, <2>12, <2>13, <2>14, <2>15, <2>16, <2>17
<1>4. QED
  BY <1>2, <1>3

-------------------------------------------------------------------------------
(* Steps of a creation *)

(* The first one to come creates the file; nothing has happened before. *)
LEMMA CreateOpenStep ==
  ASSUME IInv, ~Threaded, NEW c \in Creators, NEW p \in Paths, CreateOpen(c, p)
  PROVE  IInv' /\ (~Fail(c) => Value = NoValue /\ Value' = NoValue)
<1> USE DEF IInv
<1>1. c \in Calls /\ c \notin Updaters /\ c \notin Readers /\ pc[c] = "idle"
  BY Kinds DEF CreateOpen
<1>2. CASE Fail(c)
  BY <1>1, <1>2, FailStep
<1>3. CASE ~Fail(c)
  <2>1. /\ dir[p] = NoEntry /\ HasFresh
        /\ dir' = [dir EXCEPT ![p] = FileEntry(Fresh)]
        /\ data' = [data EXCEPT ![Fresh] = << >>]
        /\ mode' = [mode EXCEPT ![Fresh] = "own"]
        /\ ino' = [ino EXCEPT ![c] = Fresh]
        /\ path' = [path EXCEPT ![c] = p]
        /\ seen' = [seen EXCEPT ![c] = {Value}]
        /\ pc' = [pc EXCEPT ![c] = "write"]
        /\ UNCHANGED <<tmp, target, pos, buf, faults>>
    BY <1>3 DEF CreateOpen, Goto
  <2>2. p = File /\ dir[File] = NoEntry /\ File \in Paths
    BY <2>1 DEF Names, LinkEntry, NoEntry, Paths
  <2>3. PICK f \in Inodes: f = Fresh /\ f # NoInode
    BY <2>1, FileAssumption DEF HasFresh, Fresh
  <2>4. /\ \A d \in Calls: pc[d] \in {"idle", "err"} /\ ino[d] = NoInode
        /\ \A q \in Pids: tmp[q] = NoInode
    BY <2>2 DEF NotYet
  <2>5. /\ dir'[File] = FileEntry(f) /\ dir'[File].ino = f /\ dir'[File] # NoEntry
        /\ dir'[File].kind # "link" /\ \A l \in Links: dir'[l] = dir[l]
        /\ data'[f] = << >> /\ mode'[f] = "own"
        /\ ino'[c] = f /\ seen'[c] = {Value} /\ pc'[c] = "write"
        /\ \A d \in Calls: d # c => pc'[d] = pc[d] /\ ino'[d] = ino[d] /\ seen'[d] = seen[d]
    <3>1. dir'[File] = FileEntry(f) /\ \A l \in Links: dir'[l] = dir[l]
      BY <2>1, <2>2, <2>3, FileAssumption DEF TypeOK, Paths
    <3>2. dir'[File].ino = f /\ dir'[File] # NoEntry /\ dir'[File].kind # "link"
      BY <2>3, <3>1 DEF FileEntry, NoEntry
    <3>3. QED
      BY <1>1, <2>1, <2>3, <3>1, <3>2 DEF TypeOK
  <2>6. {c} \in Versions /\ 0 \in 0 .. NChunks /\ 0 # NChunks /\ 0 < NChunks
    BY <1>1, FileAssumption DEF Versions
  <2>7. data'[f] = Prefix({c}, 0)
    BY <2>5, <2>6, PrefixEnds
  <2>8. Value = NoValue /\ Value' = NoValue
    <3>1. Value = NoValue
      BY <2>2, EveryPath DEF Value, ValueOf
    <3>2. ValueOf(f, data') = NoValue
      BY <2>6, <2>7, PrefixValue
    <3>3. InodeOf(File)' = f
      BY <2>5 DEF InodeOf, Canonical
    <3>4. QED
      BY <3>1, <3>2, <3>3 DEF Value, ValueOf
  <2>9. TypeOK'
    <3>1. dir' \in [Paths -> [kind: {"file", "link", "none"}, ino: Inodes \cup {NoInode}]]
      BY <2>1, <2>2, <2>3 DEF TypeOK, FileEntry
    <3>2. << >> \in Seq(Chunks)
      OBVIOUS
    <3>3. data' \in [Inodes -> Seq({Hole} \cup [part: 1 .. NChunks, ver: Versions])]
      BY <2>1, <2>3, <3>2 DEF TypeOK, Chunks
    <3>4. mode' \in [Inodes -> {"own", "default"}] /\ ino' \in [Calls -> Inodes \cup {NoInode}]
          /\ path' \in [Calls -> Paths]
      BY <1>1, <2>1, <2>3 DEF TypeOK
    <3>5. seen' \in [Calls -> SUBSET (Versions \cup {NoValue})]
      BY <1>1, <2>1, <2>8 DEF TypeOK
    <3>6. pc' \in [Calls -> {"idle", "read", "edit", "canonicalize", "create", "write", "chmod",
                             "rename", "cleanup", "ok", "err", "crashed"}]
      BY <1>1, <2>1 DEF TypeOK
    <3>7. \A d \in Calls: pc'[d] \in {"read", "write"} => ino'[d] \in Inodes
      BY <2>4, <2>5
    <3>8. QED
      BY <2>1, <3>1, <3>3, <3>4, <3>5, <3>6, <3>7 DEF TypeOK
  <2>10. \A d \in Calls: d # c => pc'[d] \in {"idle", "err"} /\ ino'[d] = NoInode
    BY <2>4, <2>5
  <2>11. Names'
    BY <2>5 DEF Names
  <2>12. Alone'
    BY <1>1, <2>10, Kinds DEF Alone, Active
  <2>13. Separate' /\ NoStrayTmp'
    BY <2>1, <2>4 DEF Separate, NoStrayTmp
  <2>14. NotYet' /\ NotBegun'
    BY <2>1, <2>5 DEF NotYet, NotBegun
  <2>15. Sole'
    BY <2>3, <2>5, <2>10, Kinds DEF Sole
  <2>16. FileInv'
    <3>1. Valid({c})'
      BY <1>1, <2>6, <2>10, Kinds DEF Valid
    <3>2. Holds(f, {c}, 0)'
      BY <2>5, <2>6, <2>7, <3>1 DEF Holds
    <3>3. QED
      BY <2>5, <2>6, <3>2 DEF FileInv
  <2>17. CallsOK'
    <3>1. pos'[c] = 0
      BY <1>1, <2>1 DEF NotBegun
    <3>2. CreatorOK(c)'
      BY <1>1, <2>5, <2>6, <2>7, <2>10, <3>1, Kinds DEF CreatorOK
    <3>3. ASSUME NEW w \in Creators, w # c PROVE CreatorOK(w)'
      BY <2>10, <3>3, Kinds DEF CreatorOK
    <3>4. ASSUME NEW r \in Readers PROVE ReaderOK(r)'
      BY <1>1, <2>10, Kinds DEF ReaderOK
    <3>5. ASSUME NEW d \in Updaters PROVE UpdaterOK(d)'
      <4>1. pc'[d] \in {"idle", "err"}
        BY <1>1, <2>10, Kinds
      <4>2. QED
        BY <4>1 DEF UpdaterOK
    <3>6. QED
      BY <3>2, <3>3, <3>4, <3>5 DEF CallsOK
  <2>18. ModeInv'
    BY <1>1, <2>5, <2>10, Kinds DEF ModeInv
  <2>19. Current'
    BY <2>5, <2>8, <2>10 DEF Current, Active
  <2>20. QED
    BY <2>8, <2>9, <2>11, <2>12, <2>13, <2>14, <2>15, <2>16, <2>17, <2>18, <2>19
<1>4. QED
  BY <1>2, <1>3

(* The file grows by the next chunk; whoever reads it meanwhile reads the  *)
(* beginning of the same container.                                        *)
LEMMA CreateWriteStep ==
  ASSUME IInv, ~Threaded, NEW c \in Creators, CreateWrite(c)
  PROVE  /\ IInv'
         /\ ~Fail(c) => /\ pc'[c] = "ok" => Value = NoValue /\ Value' = {c}
                        /\ pc'[c] # "ok" => Value = NoValue /\ Value' = NoValue
<1> USE DEF IInv
<1>1. c \in Calls /\ c \notin Updaters /\ c \notin Readers /\ pc[c] = "write"
  BY Kinds DEF CreateWrite
<1>2. CASE Fail(c)
  BY <1>1, <1>2, FailStep
<1>3. CASE ~Fail(c)
  <2> DEFINE next == IF pos[c] + 1 = NChunks THEN "ok" ELSE "write"
  <2>1. /\ data' = [data EXCEPT ![ino[c]] = WriteAt(@, pos[c] + 1, Chunk(pos[c] + 1, {c}))]
        /\ pos' = [pos EXCEPT ![c] = @ + 1]
        /\ pc' = [pc EXCEPT ![c] = next]
        /\ Witness(ValueOf(InodeOf(File), data'))
        /\ UNCHANGED <<dir, tmp, mode, path, target, ino, buf, faults>>
    BY <1>3 DEF CreateWrite, Goto
  <2>2. CreatorOK(c)
    BY DEF CallsOK
  <2>3. PICK i \in Inodes: i = ino[c]
    BY <1>1 DEF TypeOK
  <2>4. /\ pos[c] < NChunks /\ pos[c] \in 0 .. NChunks /\ data[i] = Prefix({c}, pos[c])
        /\ i = dir[File].ino
        /\ \A d \in Updaters: /\ pc[d] \notin {"canonicalize", "create", "write", "chmod", "rename"}
                              /\ pc[d] = "read" => ino[d] = i
                              /\ pc[d] = "edit" => Len(buf[d]) < NChunks
    BY <1>1, <2>2, <2>3 DEF CreatorOK, TypeOK
  <2>5. PICK m \in 0 .. NChunks:
          /\ m = pos[c] + 1 /\ m \in 1 .. NChunks /\ pos[c] + 1 \in 0 .. NChunks
          /\ {c} \in Versions /\ NChunks \in Nat
    BY <1>1, <2>4, FileAssumption DEF Versions
  <2>6. /\ data'[i] = Prefix({c}, pos[c] + 1) /\ \A j \in Inodes: j # i => data'[j] = data[j]
        /\ data' \in [Inodes -> Seq(Chunks)]
    <3>1. WriteAt(data[i], pos[c] + 1, Chunk(pos[c] + 1, {c})) = Prefix({c}, pos[c] + 1)
      BY <2>4, <2>5, PrefixGrows
    <3>2. Prefix({c}, pos[c] + 1) \in Seq(Chunks)
      BY <2>5, PrefixType
    <3>3. QED
      BY <2>1, <2>3, <3>1, <3>2 DEF TypeOK, Chunks
  <2>7. /\ pc'[c] = next /\ next \in {"ok", "write"} /\ pos'[c] = pos[c] + 1
        /\ \A d \in Calls: d # c => pc'[d] = pc[d] /\ pos'[d] = pos[d]
        /\ next = "ok" <=> pos[c] + 1 = NChunks
    BY <1>1, <2>1 DEF TypeOK
  <2>8. /\ \A x \in Creators: pc[x] \in {"write", "ok"} => x = c
        /\ \A x \in Creators: ino[x] \in Inodes => x = c
    BY <2>3, FileAssumption DEF Sole
  <2>9. dir[File] # NoEntry /\ dir' = dir
    BY <2>1, <2>4, FileAssumption DEF NoEntry
  <2>10. /\ Value = NoValue
         /\ next = "ok" => Value' = {c}
         /\ next = "write" => Value' = NoValue
    <3>1. File \in Paths
      BY DEF Paths
    <3>2. InodeOf(File) = i /\ InodeOf(File)' = i
      BY <2>4, <2>9, <3>1, EveryPath DEF InodeOf, Canonical
    <3>3. Value = ValueOf(i, data) /\ Value' = ValueOf(i, data')
      BY <3>2 DEF Value, ValueOf
    <3>4. ValueOf(i, data) = NoValue
      BY <2>4, <2>5, PrefixValue
    <3>5. /\ next = "ok" => ValueOf(i, data') = {c}
          /\ next = "write" => ValueOf(i, data') = NoValue
      BY <2>5, <2>6, PrefixValue
    <3>6. QED
      BY <3>3, <3>4, <3>5
  <2>11. seen' = [d \in Calls |-> IF Active(d) THEN seen[d] \cup {Value'} ELSE seen[d]]
    BY <2>1 DEF Witness, Value, InodeOf, Canonical
  <2>12. TypeOK'
    <3>1. seen' \in [Calls -> SUBSET (Versions \cup {NoValue})]
      <4>1. Value' \in Versions \cup {NoValue}
        BY <2>5, <2>7, <2>10
      <4>2. QED
        BY <2>11, <4>1 DEF TypeOK
    <3>2. pos' \in [Calls -> 0 .. NChunks]
      BY <1>1, <2>1, <2>5 DEF TypeOK
    <3>3. pc' \in [Calls -> {"idle", "read", "edit", "canonicalize", "create", "write", "chmod",
                             "rename", "cleanup", "ok", "err", "crashed"}]
      BY <1>1, <2>1 DEF TypeOK
    <3>4. \A d \in Calls: pc'[d] \in {"read", "write"} => ino'[d] \in Inodes
      BY <2>1, <2>3, <2>7 DEF TypeOK
    <3>5. QED
      BY <2>1, <2>6, <3>1, <3>2, <3>3, <3>4 DEF TypeOK, Chunks
  <2>13. Names' /\ NotYet'
    BY <2>9 DEF Names, NotYet
  <2>14. Alone'
    BY <1>1, <2>7, Kinds DEF Alone, Active
  <2>15. Separate'
    BY <1>1, <2>1, <2>7, Kinds DEF Separate
  <2>16. NotBegun'
    BY <2>1, <2>7 DEF NotBegun
  <2>17. Sole'
    BY <2>1, <2>3, <2>7, <2>8, FileAssumption, Kinds DEF Sole
  <2>18. ASSUME NEW v, Valid(v) PROVE Valid(v)'
    BY <1>1, <2>7, <2>18, Kinds DEF Valid
  <2>19. Valid({c})'
    BY <1>1, <2>5, <2>7, <2>8, Kinds DEF Valid
  <2>20. Holds(i, {c}, m)'
    BY <2>1, <2>3, <2>5, <2>6, <2>7, <2>19 DEF Holds
  <2>21. FileInv'
    BY <2>4, <2>5, <2>9, <2>20 DEF FileInv
  <2>22. CallsOK'
    <3>1. ASSUME NEW w \in Creators PROVE CreatorOK(w)'
      <4> SUFFICES ASSUME pc'[w] = "write" PROVE CreatorOK(w)'
        BY DEF CreatorOK
      <4>1. w = c
        BY <1>1, <2>7, <2>8, Kinds
      <4>2. pos[c] + 1 # NChunks
        BY <2>7, <4>1
      <4>3. (pos[c] < NChunks /\ data[ino[c]] = Prefix({c}, pos[c]) /\ ino[c] = dir[File].ino)'
        BY <2>1, <2>3, <2>4, <2>5, <2>6, <2>7, <4>2
      <4>4. \A d \in Updaters:
              (/\ pc[d] \notin {"canonicalize", "create", "write", "chmod", "rename"}
               /\ pc[d] = "read" => ino[d] = ino[c]
               /\ pc[d] = "edit" => Len(buf[d]) < NChunks)'
        BY <1>1, <2>1, <2>3, <2>4, <2>7, Kinds
      <4>5. QED
        BY <4>1, <4>3, <4>4 DEF CreatorOK
    <3>2. ASSUME NEW d \in Calls, d # c, pc[d] = "read", ino[d] = i PROVE Reading(d, {c}, m)'
      <4>1. Holds(ino[d], {c}, m)'
        BY <2>1, <2>20, <3>2 DEF Holds
      <4>2. Value' \in seen'[d]
        BY <2>11, <3>2 DEF Active
      <4>3. QED
        BY <2>5, <2>7, <2>10, <4>1, <4>2 DEF Reading
    <3>3. ASSUME NEW r \in Readers PROVE ReaderOK(r)'
      <4> SUFFICES ASSUME pc[r] = "read"
                   PROVE  \E v \in Versions, n \in 0 .. NChunks: Reading(r, v, n)'
        BY <1>1, <2>7, Kinds DEF ReaderOK
      <4>1. r \in Calls /\ r # c /\ ino[r] \in Inodes
        BY <1>1, Kinds DEF TypeOK
      <4>2. CASE ino[r] = i
        BY <2>5, <3>2, <4>1, <4>2
      <4>3. CASE ino[r] # i
        <5>1. PICK v \in Versions, n \in 0 .. NChunks: Reading(r, v, n)
          BY DEF CallsOK, ReaderOK
        <5>2. n = NChunks
          BY <2>3, <2>8, <4>1, <4>3, <5>1 DEF Reading, Holds
        <5>3. Holds(ino[r], v, n)'
          BY <2>1, <2>6, <2>18, <4>1, <4>3, <5>1, <5>2 DEF Reading, Holds
        <5>4. v \in seen'[r]
          BY <2>11, <4>1, <5>1, <5>2 DEF Reading
        <5>5. QED
          BY <5>3, <5>4 DEF Reading
      <4>4. QED
        BY <4>2, <4>3
    <3>4. ASSUME NEW d \in Updaters PROVE UpdaterOK(d)'
      <4>1. d \in Calls /\ d # c /\ UpdaterOK(d) /\ pc'[d] = pc[d] /\ pos'[d] = pos[d]
            /\ buf'[d] = buf[d] /\ seen[d] \subseteq seen'[d]
            /\ pc[d] \notin {"canonicalize", "create", "write", "chmod", "rename"}
        BY <1>1, <2>1, <2>4, <2>7, <2>11, Kinds DEF CallsOK
      <4>2. ASSUME pc[d] = "read"
            PROVE  \E v \in Versions, n \in 0 .. NChunks:
                     (Reading(d, v, n) /\ pos[d] <= n /\ buf[d] = Prefix(v, pos[d]))'
        <5>1. PICK v \in Versions, n \in 0 .. NChunks:
                Reading(d, v, n) /\ pos[d] <= n /\ buf[d] = Prefix(v, pos[d])
          BY <4>1, <4>2 DEF UpdaterOK
        <5>2. ino[d] = i /\ pos[d] \in 0 .. NChunks
          BY <2>4, <4>1, <4>2 DEF TypeOK
        <5>3. Prefix(v, n) = Prefix({c}, pos[c])
          BY <2>4, <5>1, <5>2 DEF Reading, Holds
        <5>4. n = pos[c] /\ (n > 0 => v = {c})
          BY <2>4, <2>5, <5>3, PrefixOfOne
        <5>5. buf[d] = Prefix({c}, pos[d])
          <6>1. CASE n > 0
            BY <5>1, <5>4, <6>1
          <6>2. CASE n = 0
            <7>1. pos[d] = 0
              BY <5>1, <5>2, <6>2
            <7>2. QED
              BY <2>5, <5>1, <7>1, PrefixEnds
          <6>3. QED
            BY <6>1, <6>2
        <5>6. Reading(d, {c}, m)'
          BY <3>2, <4>1, <4>2, <5>2
        <5>7. pos[d] <= m
          BY <2>4, <2>5, <5>1, <5>2, <5>4
        <5>8. QED
          BY <2>5, <4>1, <5>5, <5>6, <5>7
      <4>3. ASSUME pc[d] = "edit"
            PROVE  \E v \in Versions, n \in 0 .. NChunks:
                     (Valid(v) /\ buf[d] = Prefix(v, n) /\ (n = NChunks => v \in seen[d]))'
        <5>1. PICK v \in Versions, n \in 0 .. NChunks:
                Valid(v) /\ buf[d] = Prefix(v, n) /\ (n = NChunks => v \in seen[d])
          BY <4>1, <4>3 DEF UpdaterOK
        <5>2. QED
          BY <2>18, <4>1, <5>1
      <4>4. QED
        BY <4>1, <4>2, <4>3 DEF UpdaterOK
    <3>5. QED
      BY <3>1, <3>3, <3>4 DEF CallsOK
  <2>23. ModeInv'
    BY <1>1, <2>1, <2>7, Kinds DEF ModeInv
  <2>24. NoStrayTmp'
    BY <1>1, <2>1, <2>7, Kinds DEF NoStrayTmp
  <2>25. Current'
    BY <1>1, <2>7, <2>11 DEF Current, Active
  <2>26. QED
    BY <2>7, <2>10, <2>12, <2>13, <2>14, <2>15, <2>16, <2>17, <2>21, <2>22, <2>23, <2>24, <2>25
<1>4. QED
  BY <1>2, <1>3

-------------------------------------------------------------------------------
(* Any step *)

(* The calls of a process that dies leave everything as it is. *)
LEMMA CrashStep ==
  ASSUME IInv, NEW q \in Pids, Crash(q)
  PROVE  IInv' /\ Value' = Value
<1> USE DEF IInv
<1> DEFINE dying == {c \in Calls: Pid[c] = q /\ Active(c)}
<1>1. /\ UNCHANGED <<dir, tmp, data, mode, path, target, ino, pos, buf, seen>>
      /\ faults' = faults \cup {"crash"} /\ dying # {}
      /\ pc' = [c \in Calls |-> IF c \in dying THEN "crashed" ELSE pc[c]]
  BY DEF Crash, fs, local
<1>2. \A c \in Calls: \/ pc'[c] = pc[c] /\ Same(c)
                      \/ pc'[c] = "crashed" /\ pc[c] \notin {"idle", "ok", "err", "crashed"}
  BY <1>1 DEF Same, Active
<1>3. Steady
  BY <1>1, <1>2, Kinds DEF Steady, Same
<1>4. dir[File] # NoEntry
  BY <1>1, ActiveHasFile
<1>5. TypeOK'
  <2>1. pc' \in [Calls -> {"idle", "read", "edit", "canonicalize", "create", "write", "chmod",
                           "rename", "cleanup", "ok", "err", "crashed"}]
    BY <1>1 DEF TypeOK
  <2>2. \A d \in Calls: pc'[d] \in {"read", "write"} => ino'[d] \in Inodes
    BY <1>1, <1>2 DEF TypeOK
  <2>3. QED
    BY <1>1, <2>1, <2>2 DEF TypeOK
<1>6. Value' = Value
  BY <1>1 DEF Value, ValueOf, InodeOf, Canonical
<1>7. Names' /\ NotYet' /\ NotBegun'
  BY <1>1, <1>2, <1>4 DEF Names, NotYet, NotBegun
<1>8. Alone'
  BY <1>2, Kinds DEF Alone, Active
<1>9. Separate'
  BY <1>1, <1>2 DEF Separate
<1>10. Sole'
  BY <1>3 DEF Sole, Steady
<1>11. FileInv'
  <2>1. PICK v \in Versions, n \in 0 .. NChunks: Holds(dir[File].ino, v, n)
    BY <1>4 DEF FileInv
  <2>2. PICK i: i = dir[File].ino
    OBVIOUS
  <2>3. Holds(i, v, n)'
    BY <1>1, <1>3, <2>1, <2>2, SteadyContent
  <2>4. QED
    BY <1>1, <2>2, <2>3 DEF FileInv
<1>12. CallsOK'
  <2>1. ASSUME NEW w \in Creators PROVE CreatorOK(w)'
    <3> SUFFICES ASSUME pc'[w] = "write" PROVE CreatorOK(w)'
      BY DEF CreatorOK
    <3>1. pc[w] = "write" /\ CreatorOK(w)
      BY <1>2, Kinds DEF CallsOK
    <3>2. \A c \in Updaters: pc'[c] \in {pc[c], "crashed"}
      BY <1>2, Kinds
    <3>3. QED
      BY <1>1, <3>1, <3>2 DEF CreatorOK
  <2>2. ASSUME NEW r \in Readers PROVE ReaderOK(r)'
    <3>1. CASE Same(r)
      BY <1>1, <1>3, <3>1, ReaderUndisturbed DEF CallsOK
    <3>2. CASE pc'[r] = "crashed"
      BY <3>2 DEF ReaderOK
    <3>3. QED
      BY <1>2, <3>1, <3>2, Kinds
  <2>3. ASSUME NEW d \in Updaters PROVE UpdaterOK(d)'
    <3>1. CASE Same(d)
      BY <1>1, <1>3, <3>1, UpdaterUndisturbed DEF CallsOK
    <3>2. CASE pc'[d] = "crashed"
      BY <3>2 DEF UpdaterOK
    <3>3. QED
      BY <1>2, <3>1, <3>2, Kinds
  <2>4. QED
    BY <2>1, <2>2, <2>3 DEF CallsOK
<1>13. ModeInv'
  <2>1. \A c \in Updaters: pc'[c] = "rename" => pc[c] = "rename"
    BY <1>2, Kinds
  <2>2. QED
    BY <1>1, <2>1 DEF ModeInv
<1>14. NoStrayTmp'
  BY <1>1 DEF NoStrayTmp
<1>15. Current'
  BY <1>1, <1>2, <1>6 DEF Current, Active
<1>16. QED
  BY <1>5, <1>6, <1>7, <1>8, <1>9, <1>10, <1>11, <1>12, <1>13, <1>14, <1>15

(* A step that changes nothing changes nothing. *)
LEMMA StutterStep ==
  ASSUME IInv, UNCHANGED vars
  PROVE  IInv' /\ Value' = Value
<1>1. UNCHANGED <<dir, tmp, data, mode, pc, path, target, ino, pos, buf, seen, faults>>
  BY DEF vars, fs, local
<1>2. Value' = Value
  BY <1>1 DEF Value, ValueOf, InodeOf, Canonical
<1>3. TypeOK'
  BY <1>1 DEF IInv, TypeOK
<1>4. Names' /\ Separate' /\ NotYet' /\ NotBegun' /\ Sole'
  BY <1>1 DEF IInv, Names, Separate, NotYet, NotBegun, Sole
<1>5. Alone' /\ Current' /\ ModeInv' /\ NoStrayTmp'
  BY <1>1, <1>2 DEF IInv, Alone, Current, Active, ModeInv, NoStrayTmp
<1>6. FileInv'
  BY <1>1 DEF IInv, FileInv, Holds, Valid
<1>7. CallsOK'
  <2>1. Steady /\ \A c \in Calls: Same(c)
    BY <1>1, Kinds DEF Steady, Same
  <2>2. ASSUME NEW w \in Creators PROVE CreatorOK(w)'
    BY <1>1 DEF IInv, CallsOK, CreatorOK
  <2>3. ASSUME NEW r \in Readers PROVE ReaderOK(r)'
    BY <1>1, <2>1, ReaderUndisturbed, Kinds DEF IInv, CallsOK
  <2>4. ASSUME NEW d \in Updaters PROVE UpdaterOK(d)'
    BY <1>1, <2>1, UpdaterUndisturbed, Kinds DEF IInv, CallsOK
  <2>5. QED
    BY <2>2, <2>3, <2>4 DEF CallsOK
<1>8. QED
  BY <1>2, <1>3, <1>4, <1>5, <1>6, <1>7 DEF IInv

(* Initially there is one whole container, or no file, and no call. *)
LEMMA InitInv ==
  ASSUME Init
  PROVE  IInv
<1>1. /\ tmp = [q \in Pids |-> NoInode] /\ mode = [i \in Inodes |-> "own"]
      /\ pc = [c \in Calls |-> "idle"] /\ path = [c \in Calls |-> File]
      /\ target = [c \in Calls |-> File] /\ ino = [c \in Calls |-> NoInode]
      /\ pos = [c \in Calls |-> 0] /\ buf = [c \in Calls |-> << >>]
      /\ seen = [c \in Calls |-> {}] /\ faults = {}
  BY DEF Init
<1>2. /\ {} \in Versions /\ NChunks \in 0 .. NChunks /\ NChunks \in Nat /\ File \in Paths
      /\ << >> \in Seq(Chunks)
  BY FileAssumption DEF Versions, Paths
<1>3. /\ dir \in [Paths -> [kind: {"file", "link", "none"}, ino: Inodes \cup {NoInode}]]
      /\ data \in [Inodes -> Seq(Chunks)]
      /\ Names /\ FileInv
  <2>1. \A i \in Inodes \cup {NoInode}:
          /\ LinkEntry \in [kind: {"file", "link", "none"}, ino: Inodes \cup {NoInode}]
          /\ NoEntry \in [kind: {"file", "link", "none"}, ino: Inodes \cup {NoInode}]
          /\ FileEntry(i) \in [kind: {"file", "link", "none"}, ino: Inodes \cup {NoInode}]
    BY DEF LinkEntry, NoEntry, FileEntry
  <2>2. Links \subseteq Paths /\ File \notin Links
    BY FileAssumption DEF Paths
  <2>3. CASE /\ dir = [p \in Paths |-> IF p = File THEN NoEntry ELSE LinkEntry]
             /\ data = [j \in Inodes |-> << >>]
    BY <1>2, <2>1, <2>2, <2>3 DEF Names, FileInv
  <2>4. CASE LET i == CHOOSE i \in Inodes: TRUE
             IN  /\ dir = [p \in Paths |-> IF p = File THEN FileEntry(i) ELSE LinkEntry]
                 /\ data = [j \in Inodes |-> IF j = i THEN Container({}) ELSE << >>]
    <3>1. PICK i \in Inodes:
            /\ dir = [p \in Paths |-> IF p = File THEN FileEntry(i) ELSE LinkEntry]
            /\ data = [j \in Inodes |-> IF j = i THEN Container({}) ELSE << >>]
      BY <2>4, FileAssumption
    <3>2. dir[File] = FileEntry(i) /\ dir[File].ino = i /\ \A l \in Links: dir[l] = LinkEntry
      BY <1>2, <2>2, <3>1 DEF FileEntry
    <3>3. data[i] = Prefix({}, NChunks) /\ Prefix({}, NChunks) \in Seq(Chunks)
      BY <1>2, <3>1, PrefixEnds, PrefixType
    <3>4. data \in [Inodes -> Seq(Chunks)]
      BY <1>2, <3>1, <3>3, PrefixEnds
    <3>5. Valid({})
      BY <1>1, <1>2, Kinds DEF Valid
    <3>6. Holds(i, {}, NChunks)
      BY <1>2, <3>3, <3>5 DEF Holds
    <3>7. FileInv
      BY <1>2, <3>2, <3>6 DEF FileInv
    <3>8. QED
      BY <2>1, <3>1, <3>2, <3>4, <3>7 DEF Names
  <2>5. QED
    BY <2>3, <2>4 DEF Init
<1>4. TypeOK
  BY <1>1, <1>2, <1>3 DEF TypeOK, Chunks
<1>5. \A c \in Calls: pc[c] = "idle" /\ ino[c] = NoInode /\ pos[c] = 0 /\ buf[c] = << >>
  BY <1>1
<1>6. Alone /\ Separate /\ NotYet /\ NotBegun /\ Sole /\ Current
  BY <1>1, <1>5, Kinds DEF Alone, Separate, NotYet, NotBegun, Sole, Current, Active
<1>7. CallsOK
  BY <1>5, Kinds DEF CallsOK, CreatorOK, ReaderOK, UpdaterOK
<1>8. ModeInv
  <2>1. dir[File] # NoEntry => mode[dir[File].ino] = "own"
    BY <1>1, <1>3, EveryPath
  <2>2. QED
    BY <1>5, <2>1, Kinds DEF ModeInv
<1>9. NoStrayTmp
  BY <1>1 DEF NoStrayTmp
<1>10. QED
  BY <1>3, <1>4, <1>6, <1>7, <1>8, <1>9 DEF IInv

(* The invariant is inductive: one step of the proof per action. *)
LEMMA InvStep ==
  ASSUME IInv, ~Threaded, [Next]_vars
  PROVE  IInv'
<1>1. ASSUME NEW c \in Updaters, NEW p \in Paths, UpdateOpen(c, p) PROVE IInv'
  BY <1>1, OpenStep DEF UpdateOpen
<1>2. ASSUME NEW c \in Readers, NEW p \in Paths, ReadOpen(c, p) PROVE IInv'
  BY <1>2, OpenStep, Kinds DEF ReadOpen
<1>3. ASSUME NEW c \in Creators, NEW p \in Paths, CreateOpen(c, p) PROVE IInv'
  BY <1>3, CreateOpenStep
<1>4. ASSUME NEW c \in Updaters, UpdateStep(c) PROVE IInv'
  BY <1>4, UpdateReadStep, UpdateEditStep, UpdateCanonicalizeStep, UpdateCreateTmpStep,
     UpdateWriteTmpStep, UpdateCopyModeStep, UpdateRenameStep, UpdateCleanupStep DEF UpdateStep
<1>5. ASSUME NEW c \in Readers, ReadHeader(c) PROVE IInv'
  BY <1>5, ReadHeaderStep
<1>6. ASSUME NEW c \in Creators, CreateWrite(c) PROVE IInv'
  BY <1>6, CreateWriteStep
<1>7. ASSUME NEW q \in Pids, Crash(q) PROVE IInv'
  BY <1>7, CrashStep
<1>8. CASE UNCHANGED vars
  BY <1>8, StutterStep
<1>9. QED
  BY <1>1, <1>2, <1>3, <1>4, <1>5, <1>6, <1>7, <1>8 DEF Next, Start, Step

(* Hence it holds in every state. *)
LEMMA Invariant == ~Threaded => (Spec => []IInv)
<1> SUFFICES ASSUME ~Threaded PROVE Spec => []IInv
  OBVIOUS
<1>1. Init => IInv
  BY InitInv
<1>2. IInv /\ [Next]_vars => IInv'
  BY InvStep
<1>3. QED
  BY <1>1, <1>2, PTL DEF Spec

-------------------------------------------------------------------------------
(* What follows *)

(* Every step of every call keeps its state of the declared types. *)
THEOREM TypeCorrect == ~Threaded => (Spec => []TypeOK)
<1>1. IInv => TypeOK
  BY DEF IInv
<1>2. QED
  BY <1>1, Invariant, PTL

(* "The write is atomic": the path leads to one whole container or to none *)
(* whatever fails and dies when, unless write_to_file is creating the file *)
(* or has failed to.                                                       *)
THEOREM WholeHolds == ~Threaded => (Spec => []TargetWhole)
<1>1. IInv => TargetWhole
  <2> SUFFICES ASSUME IInv PROVE TargetWhole
    OBVIOUS
  <2>1. File \in Paths
    BY DEF Paths
  <2>2. /\ InodeOf(File) = dir[File].ino
        /\ dir[File] = NoEntry <=> dir[File].ino = NoInode
        /\ dir[File] # NoEntry => dir[File].ino \in Inodes
    BY <2>1, EveryPath DEF IInv
  <2>3. CASE dir[File] = NoEntry
    BY <2>2, <2>3 DEF TargetWhole
  <2>4. CASE dir[File] # NoEntry
    <3>1. PICK v \in Versions, n \in 0 .. NChunks: Holds(dir[File].ino, v, n)
      BY <2>4 DEF IInv, FileInv
    <3>2. CASE n = NChunks
      <4>1. Whole(data[dir[File].ino])
        BY <2>2, <2>4, <3>1, <3>2, PrefixValue DEF Holds
      <4>2. QED
        BY <2>2, <4>1 DEF TargetWhole
    <3>3. CASE n # NChunks
      BY <2>2, <3>1, <3>3 DEF Holds, TargetWhole
    <3>4. QED
      BY <3>2, <3>3
  <2>5. QED
    BY <2>3, <2>4
<1>2. QED
  BY <1>1, Invariant, PTL

(* "On error the file is left untouched": no byte of an update that failed *)
(* or died is in the file.                                                 *)
THEOREM FailuresLeaveNoTrace == ~Threaded => (Spec => []ErrorUntouched)
<1>1. IInv => ErrorUntouched
  <2> SUFFICES ASSUME IInv, NEW c \in Updaters, pc[c] \in {"err", "crashed"},
                      InodeOf(File) # NoInode, NEW k \in DOMAIN data[InodeOf(File)]
               PROVE  c \notin data[InodeOf(File)][k].ver
    BY DEF ErrorUntouched
  <2>1. File \in Paths
    BY DEF Paths
  <2>2. InodeOf(File) = dir[File].ino /\ dir[File] # NoEntry
    BY <2>1, EveryPath DEF IInv
  <2>3. PICK v \in Versions, n \in 0 .. NChunks: Holds(dir[File].ino, v, n)
    BY <2>2 DEF IInv, FileInv
  <2>4. data[InodeOf(File)][k] = Chunk(k, v)
    BY <2>2, <2>3, PrefixType DEF Holds
  <2>5. c \notin v
    BY <2>3 DEF Holds, Valid
  <2>6. QED
    BY <2>4, <2>5 DEF Chunk
<1>2. QED
  BY <1>1, Invariant, PTL

(* Once write_to_file has returned Ok, the file is whole and holds what it *)
(* wrote, whatever updates were in progress or come later.                 *)
THEOREM CreationIsKept == ~Threaded => (Spec => []CreatedIsKept)
<1>1. IInv => CreatedIsKept
  <2> SUFFICES ASSUME IInv, NEW w \in Creators, pc[w] = "ok"
               PROVE  Value # NoValue /\ w \in Value
    BY DEF CreatedIsKept
  <2>1. dir[File] # NoEntry
    BY Kinds DEF IInv, NotYet
  <2>2. PICK v \in Versions, n \in 0 .. NChunks: Holds(dir[File].ino, v, n)
    BY <2>1 DEF IInv, FileInv
  <2>3. w \in v
    BY <2>2 DEF Holds, Valid
  <2>4. n = NChunks
    BY <2>2, <2>3 DEF Holds
  <2>5. Value = v
    BY <2>1, <2>2, <2>4, FileValue DEF IInv, Holds
  <2>6. NoValue \notin Versions
    BY FileAssumption DEF NoValue, Versions
  <2>7. QED
    BY <2>3, <2>5, <2>6
<1>2. QED
  BY <1>1, Invariant, PTL

(* "never leaves the temp file behind on failure", unless the process died *)
(* or the removal itself failed.                                           *)
THEOREM NoTmpIsLeft == ~Threaded => (Spec => []NoStrayTmp)
<1>1. IInv => NoStrayTmp
  BY DEF IInv
<1>2. QED
  BY <1>1, Invariant, PTL

(* "preserves the target's unix permission mode", however many updates     *)
(* replace the file, unless set_permissions failed.                        *)
THEOREM ModeIsKept == ~Threaded => (Spec => []ModeKept)
<1>1. IInv => ModeKept
  <2> SUFFICES ASSUME IInv PROVE ModeKept
    OBVIOUS
  <2>1. File \in Paths
    BY DEF Paths
  <2>2. InodeOf(File) = dir[File].ino /\ (dir[File] = NoEntry <=> dir[File].ino = NoInode)
    BY <2>1, EveryPath DEF IInv
  <2>3. QED
    BY <2>2 DEF IInv, ModeInv, ModeKept
<1>2. QED
  BY <1>1, Invariant, PTL

(* "keeping a symlinked path pointed at the same target": a link stays one. *)
THEOREM LinksAreKept == ~Threaded => (Spec => []LinksStay)
<1>1. IInv => LinksStay
  BY DEF IInv, Names, LinksStay
<1>2. QED
  BY <1>1, Invariant, PTL
-------------------------------------------------------------------------------
(* The refinement *)

(* What AtomicFile sees of the calls. *)
Status == [c \in Calls |-> IF Active(c) THEN "busy" ELSE pc[c]]
Got == [c \in Calls |-> IF c \in Readers /\ pc[c] = "ok" THEN buf[c][1].ver ELSE NoValue]

(* The other calls look the same. *)
Aside(c) == \A d \in Calls: d # c => pc'[d] = pc[d] /\ buf'[d] = buf[d]

-------------------------------------------------------------------------------
(* Steps that show in the same way *)

(* What AtomicFile sees of them does not change. *)
LEMMA OthersShowNothing ==
  ASSUME NEW c \in Calls, Aside(c)
  PROVE  \A d \in Calls: d # c => Status'[d] = Status[d] /\ Got'[d] = Got[d]
BY DEF Aside, Status, Got, Active

(* A call in progress that stays in progress. *)
LEMMA ProgressIsHidden ==
  ASSUME NEW c \in Calls, Aside(c), Active(c), Active(c)', Value' = Value, seen' = seen
  PROVE  UNCHANGED Atomic!vars
<1>1. Status'[c] = Status[c] /\ Got'[c] = Got[c]
  BY DEF Status, Got, Active
<1>2. Status' = Status /\ Got' = Got
  <2>1. \A d \in Calls: Status'[d] = Status[d] /\ Got'[d] = Got[d]
    BY <1>1, OthersShowNothing
  <2>2. /\ Status = [d \in Calls |-> Status[d]] /\ Status' = [d \in Calls |-> Status'[d]]
        /\ Got = [d \in Calls |-> Got[d]] /\ Got' = [d \in Calls |-> Got'[d]]
    BY DEF Status, Got
  <2>3. QED
    BY <2>1, <2>2
<1>3. QED
  BY <1>2 DEF Atomic!vars, Status, Got

(* A call that ends with an error. *)
LEMMA FailureIsFail ==
  ASSUME NEW c \in Calls, Aside(c), Active(c) \/ pc[c] = "idle", pc'[c] = "err",
         Value' = Value, seen' = seen
  PROVE  Atomic!Fail(c)
<1>1. /\ Status[c] \in {"idle", "busy"} /\ Status'[c] = "err"
      /\ Got'[c] = Got[c]
  BY DEF Status, Got, Active
<1>2. Status' = [Status EXCEPT ![c] = "err"] /\ Got' = Got
  <2>1. \A d \in Calls: d # c => Status'[d] = Status[d] /\ Got'[d] = Got[d]
    BY OthersShowNothing
  <2>2. /\ Status = [d \in Calls |-> Status[d]] /\ Status' = [d \in Calls |-> Status'[d]]
        /\ Got = [d \in Calls |-> Got[d]] /\ Got' = [d \in Calls |-> Got'[d]]
    BY DEF Status, Got
  <2>3. QED
    BY <1>1, <2>1, <2>2
<1>3. QED
  BY <1>1, <1>2 DEF Atomic!Fail, Status, Got

(* A call that begins. *)
LEMMA OpeningIsBegin ==
  ASSUME NEW c \in Calls, Aside(c), pc[c] = "idle", Active(c)', Value' = Value,
         seen' = [seen EXCEPT ![c] = {Value}]
  PROVE  Atomic!Begin(c)
<1>1. Status[c] = "idle" /\ Status'[c] = "busy" /\ Got'[c] = Got[c]
  BY DEF Status, Got, Active
<1>2. Status' = [Status EXCEPT ![c] = "busy"] /\ Got' = Got
  <2>1. \A d \in Calls: d # c => Status'[d] = Status[d] /\ Got'[d] = Got[d]
    BY OthersShowNothing
  <2>2. /\ Status = [d \in Calls |-> Status[d]] /\ Status' = [d \in Calls |-> Status'[d]]
        /\ Got = [d \in Calls |-> Got[d]] /\ Got' = [d \in Calls |-> Got'[d]]
    BY DEF Status, Got
  <2>3. QED
    BY <1>1, <2>1, <2>2
<1>3. QED
  BY <1>1, <1>2 DEF Atomic!Begin, Status, Got

-------------------------------------------------------------------------------
(* The actions *)

(* An EXCEPT at one call leaves the others aside. *)
LEMMA PcAside ==
  ASSUME TypeOK, NEW c \in Calls, NEW l, pc' = [pc EXCEPT ![c] = l], NEW b,
         buf' = buf \/ buf' = [buf EXCEPT ![c] = b]
  PROVE  Aside(c) /\ pc'[c] = l
BY DEF TypeOK, Aside

(* Every early return is a failure that leaves the file untouched. *)
LEMMA FailRefines ==
  ASSUME IInv, ~Threaded, NEW c \in Calls, Fail(c),
         \/ pc[c] \in {"idle", "read", "edit", "canonicalize"}
         \/ c \in Creators /\ pc[c] = "write"
  PROVE  Atomic!Fail(c)
<1>1. pc' = [pc EXCEPT ![c] = "err"] /\ buf' = buf /\ seen' = seen
  BY DEF Fail, Goto, Quiet, local
<1>2. Aside(c) /\ pc'[c] = "err"
  BY <1>1, PcAside DEF IInv
<1>3. Value' = Value
  BY FailStep
<1>4. QED
  BY <1>1, <1>2, <1>3, FailureIsFail DEF Active

(* A call that has its temporary file to remove is still busy. *)
LEMMA FailToCleanupRefines ==
  ASSUME IInv, ~Threaded, NEW c \in Updaters, FailToCleanup(c), pc[c] \in {"create", "write", "rename"}
  PROVE  UNCHANGED Atomic!vars
<1>1. pc' = [pc EXCEPT ![c] = "cleanup"] /\ buf' = buf /\ seen' = seen /\ c \in Calls
  BY Kinds DEF FailToCleanup, Goto, Quiet, local
<1>2. Aside(c) /\ pc'[c] = "cleanup"
  BY <1>1, PcAside DEF IInv
<1>3. Value' = Value
  BY FailToCleanupStep
<1>4. QED
  BY <1>1, <1>2, <1>3, ProgressIsHidden DEF Active

(* File::open begins a read or an update, or fails. *)
LEMMA OpenRefines ==
  ASSUME IInv, ~Threaded, NEW c \in Updaters \cup Readers, NEW p \in Paths, OpenForRead(c, p),
         c \in Updaters => MayStart(c)
  PROVE  Atomic!Begin(c) \/ Atomic!Fail(c)
<1>1. c \in Calls /\ pc[c] = "idle"
  BY Kinds DEF OpenForRead
<1>2. CASE Fail(c)
  BY <1>1, <1>2, FailRefines
<1>3. CASE ~Fail(c)
  <2>1. pc' = [pc EXCEPT ![c] = "read"] /\ buf' = buf /\ seen' = [seen EXCEPT ![c] = {Value}]
    BY <1>3 DEF OpenForRead, Goto
  <2>2. Aside(c) /\ pc'[c] = "read"
    BY <1>1, <2>1, PcAside DEF IInv
  <2>3. Value' = Value
    BY OpenStep
  <2>4. Atomic!Begin(c)
    BY <1>1, <2>1, <2>2, <2>3, OpeningIsBegin DEF Active
  <2>5. QED
    BY <2>4
<1>4. QED
  BY <1>2, <1>3

(* Reading and editing do not show. *)
LEMMA PrepareRefines ==
  ASSUME IInv, ~Threaded, NEW c \in Updaters,
         UpdateRead(c) \/ UpdateEdit(c) \/ UpdateCanonicalize(c)
  PROVE  Atomic!Fail(c) \/ UNCHANGED Atomic!vars
<1>1. c \in Calls /\ pc[c] \in {"read", "edit", "canonicalize"} /\ TypeOK
  BY Kinds DEF UpdateRead, UpdateEdit, UpdateCanonicalize, IInv
<1>2. Value' = Value
  BY UpdateReadStep, UpdateEditStep, UpdateCanonicalizeStep
<1>3. CASE Fail(c)
  BY <1>1, <1>3, FailRefines
<1>4. CASE ~Fail(c)
  <2>1. /\ seen' = seen
        /\ \/ pc' = pc /\ \E b: buf' = [buf EXCEPT ![c] = b]
           \/ pc' = [pc EXCEPT ![c] = "edit"] /\ buf' = buf
           \/ pc' = [pc EXCEPT ![c] = "canonicalize"] /\ buf' = buf
           \/ pc' = [pc EXCEPT ![c] = "create"] /\ buf' = buf
    BY <1>4 DEF UpdateRead, UpdateEdit, UpdateCanonicalize, Goto, Quiet, local
  <2>2. Aside(c) /\ pc'[c] \in {"read", "edit", "canonicalize", "create"}
    BY <1>1, <2>1 DEF Aside, TypeOK
  <2>3. UNCHANGED Atomic!vars
    BY <1>1, <1>2, <2>1, <2>2, ProgressIsHidden DEF Active
  <2>4. QED
    BY <2>3
<1>5. QED
  BY <1>3, <1>4

(* Nothing shows of the temporary file; its removal ends the call. *)
LEMMA ReplaceRefines ==
  ASSUME IInv, ~Threaded, NEW c \in Updaters,
         UpdateCreateTmp(c) \/ UpdateWriteTmp(c) \/ UpdateCopyMode(c) \/ UpdateCleanup(c)
  PROVE  Atomic!Fail(c) \/ UNCHANGED Atomic!vars
<1>1. c \in Calls /\ TypeOK /\ Current /\ pc[c] \in {"create", "write", "chmod", "cleanup"} /\ Active(c)
  BY Kinds DEF UpdateCreateTmp, UpdateWriteTmp, UpdateCopyMode, UpdateCleanup, IInv, Active
<1>2. Value' = Value
  BY UpdateCreateTmpStep, UpdateWriteTmpStep, UpdateCopyModeStep, UpdateCleanupStep
<1>3. CASE FailToCleanup(c) /\ ~UpdateCopyMode(c) /\ ~UpdateCleanup(c)
  BY <1>3, FailToCleanupRefines DEF UpdateCreateTmp, UpdateWriteTmp
<1>4. CASE UpdateCreateTmp(c) /\ ~FailToCleanup(c)
  <2>1. pc' = [pc EXCEPT ![c] = "write"] /\ buf' = buf /\ seen' = seen
    BY <1>4 DEF UpdateCreateTmp, Goto, Quiet
  <2>2. QED
    BY <1>1, <1>2, <2>1, PcAside, ProgressIsHidden DEF Active
<1>5. CASE UpdateWriteTmp(c) /\ ~FailToCleanup(c)
  <2>1. /\ \/ pc' = [pc EXCEPT ![c] = "write"] \/ pc' = [pc EXCEPT ![c] = "chmod"]
        /\ buf' = buf /\ dir' = dir /\ Witness(ValueOf(InodeOf(File), data'))
    BY <1>5 DEF UpdateWriteTmp, Goto
  <2>2. ValueOf(InodeOf(File), data') = Value
    BY <1>2, <2>1 DEF Value, InodeOf, Canonical
  <2>3. seen' = seen
    BY <1>1, <2>1, <2>2 DEF Witness, Current, TypeOK
  <2>4. Aside(c) /\ pc'[c] \in {"write", "chmod"}
    BY <1>1, <2>1, PcAside
  <2>5. QED
    BY <1>1, <1>2, <2>1, <2>3, <2>4, ProgressIsHidden DEF Active
<1>6. CASE UpdateCopyMode(c)
  <2>1. pc' = [pc EXCEPT ![c] = "rename"] /\ buf' = buf /\ seen' = seen
    BY <1>6 DEF UpdateCopyMode, Goto, local
  <2>2. QED
    BY <1>1, <1>2, <2>1, PcAside, ProgressIsHidden DEF Active
<1>7. CASE UpdateCleanup(c)
  <2>1. pc' = [pc EXCEPT ![c] = "err"] /\ buf' = buf /\ seen' = seen
    BY <1>7 DEF UpdateCleanup, Goto, local
  <2>2. QED
    BY <1>1, <1>2, <2>1, PcAside, FailureIsFail
<1>8. QED
  BY <1>3, <1>4, <1>5, <1>6, <1>7

(* The rename is the update. *)
LEMMA RenameRefines ==
  ASSUME IInv, ~Threaded, NEW c \in Updaters, UpdateRename(c)
  PROVE  Atomic!Update(c) \/ UNCHANGED Atomic!vars
<1>1. c \in Calls /\ c \notin Readers /\ TypeOK
  BY Kinds DEF IInv
<1>2. CASE FailToCleanup(c)
  BY <1>2, FailToCleanupRefines DEF UpdateRename
<1>3. CASE ~FailToCleanup(c)
  <2>1. PICK v \in Versions:
          /\ v \in seen[c] /\ pc[c] = "rename" /\ pc'[c] = "ok" /\ pc' = [pc EXCEPT ![c] = "ok"]
          /\ Value' = v \cup {c} /\ buf' = buf
          /\ seen' = [d \in Calls |-> IF Active(d) THEN seen[d] \cup {v \cup {c}} ELSE seen[d]]
    BY <1>3, RenameEffect
  <2>2. v # NoValue
    BY FileAssumption DEF NoValue, Versions
  <2>3. \A d \in Calls: d # c => Status'[d] = Status[d] /\ Got'[d] = Got[d]
    BY <1>1, <2>1, PcAside, OthersShowNothing
  <2>4. /\ Status[c] = "busy" /\ Status'[c] = "ok" /\ Got'[c] = Got[c]
    BY <1>1, <2>1 DEF Status, Got, Active
  <2>5. /\ Status = [d \in Calls |-> Status[d]] /\ Status' = [d \in Calls |-> Status'[d]]
        /\ Got = [d \in Calls |-> Got[d]] /\ Got' = [d \in Calls |-> Got'[d]]
    BY DEF Status, Got
  <2>6. Status' = [Status EXCEPT ![c] = "ok"] /\ Got' = Got
    BY <2>3, <2>4, <2>5
  <2>7. seen' = [d \in Calls |-> IF Status[d] = "busy" THEN seen[d] \cup {v \cup {c}} ELSE seen[d]]
    <3>1. \A d \in Calls: Status[d] = "busy" <=> Active(d)
      BY <1>1 DEF Status, Active, TypeOK
    <3>2. QED
      BY <2>1, <3>1
  <2>8. Atomic!Become(c, v \cup {c})
    BY <2>1, <2>4, <2>6, <2>7 DEF Atomic!Become, Atomic!Busy, Atomic!Calls, Calls, Status, Got
  <2>9. Atomic!Update(c)
    BY <2>1, <2>2, <2>8 DEF Atomic!Update
  <2>10. QED
    BY <2>9
<1>4. QED
  BY <1>2, <1>3

(* A header that is read whole is that of a container which the file has   *)
(* been since the call began, or of one that is being created.             *)
LEMMA ReadHeaderRefines ==
  ASSUME IInv, ~Threaded, NEW c \in Readers, ReadHeader(c)
  PROVE  Atomic!Read(c) \/ Atomic!Fail(c)
<1>1. c \in Calls /\ pc[c] = "read" /\ TypeOK
  BY Kinds DEF IInv, ReadHeader
<1>2. CASE Fail(c)
  BY <1>1, <1>2, FailRefines
<1>3. CASE ~Fail(c)
  <2>1. /\ HasHeader(data[ino[c]]) /\ buf' = [buf EXCEPT ![c] = <<data[ino[c]][1]>>]
        /\ pc' = [pc EXCEPT ![c] = "ok"] /\ seen' = seen
    BY <1>3 DEF ReadHeader, Goto, Quiet
  <2>2. Value' = Value
    BY ReadHeaderStep
  <2>3. PICK v \in Versions, n \in 0 .. NChunks: Reading(c, v, n)
    BY <1>1 DEF IInv, CallsOK, ReaderOK
  <2>4. data[ino[c]][1] = Chunk(1, v) /\ n > 0
    <3>1. data[ino[c]] = Prefix(v, n) /\ Len(Prefix(v, n)) = n
      BY <2>3, PrefixType DEF Reading, Holds
    <3>2. n > 0 /\ 1 \in 1 .. n
      BY <2>1, <3>1, FileAssumption DEF HasHeader
    <3>3. QED
      BY <3>1, <3>2, PrefixType
  <2>5. buf'[c][1].ver = v
    BY <1>1, <2>1, <2>4 DEF TypeOK, Chunk
  <2>6. Aside(c) /\ pc'[c] = "ok"
    BY <1>1, <2>1, PcAside
  <2>7. \A d \in Calls: d # c => Status'[d] = Status[d] /\ Got'[d] = Got[d]
    BY <1>1, <2>6, OthersShowNothing
  <2>8. Status[c] = "busy" /\ Status'[c] = "ok" /\ Got'[c] = v
    BY <1>1, <2>5, <2>6 DEF Status, Got, Active
  <2>9. /\ Status = [d \in Calls |-> Status[d]] /\ Status' = [d \in Calls |-> Status'[d]]
        /\ Got = [d \in Calls |-> Got[d]] /\ Got' = [d \in Calls |-> Got'[d]]
    BY DEF Status, Got
  <2>10. Status' = [Status EXCEPT ![c] = "ok"] /\ Got' = [Got EXCEPT ![c] = v]
    BY <2>7, <2>8, <2>9
  <2>11. v \in (seen[c] \ {NoValue}) \cup {{d}: d \in {e \in Creators: Status[e] # "idle"}}
    <3>1. CASE n = NChunks
      BY <2>3, <3>1, FileAssumption DEF Reading, NoValue, Versions
    <3>2. CASE n # NChunks
      <4>1. PICK w \in Creators: pc[w] \notin {"idle", "ok"} /\ v = {w}
        BY <2>3, <3>2 DEF Reading, Holds
      <4>2. Status[w] # "idle"
        BY <4>1, Kinds DEF Status, Active
      <4>3. QED
        BY <4>1, <4>2
    <3>3. QED
      BY <3>1, <3>2
  <2>12. Atomic!Read(c)
    BY <2>1, <2>2, <2>8, <2>10, <2>11 DEF Atomic!Read, Atomic!Busy, Status, Got
  <2>13. QED
    BY <2>12
<1>4. QED
  BY <1>2, <1>3

(* A creation begins where there is nothing. *)
LEMMA CreateOpenRefines ==
  ASSUME IInv, ~Threaded, NEW c \in Creators, NEW p \in Paths, CreateOpen(c, p)
  PROVE  Atomic!Begin(c) \/ Atomic!Fail(c)
<1>1. c \in Calls /\ pc[c] = "idle"
  BY Kinds DEF CreateOpen
<1>2. CASE Fail(c)
  BY <1>1, <1>2, FailRefines
<1>3. CASE ~Fail(c)
  <2>1. pc' = [pc EXCEPT ![c] = "write"] /\ buf' = buf /\ seen' = [seen EXCEPT ![c] = {Value}]
    BY <1>3 DEF CreateOpen, Goto
  <2>2. Aside(c) /\ pc'[c] = "write"
    BY <1>1, <2>1, PcAside DEF IInv
  <2>3. Value' = Value
    BY <1>3, CreateOpenStep
  <2>4. Atomic!Begin(c)
    BY <1>1, <2>1, <2>2, <2>3, OpeningIsBegin DEF Active
  <2>5. QED
    BY <2>4
<1>4. QED
  BY <1>2, <1>3

(* The last write makes the file appear. *)
LEMMA CreateWriteRefines ==
  ASSUME IInv, ~Threaded, NEW c \in Creators, CreateWrite(c)
  PROVE  Atomic!Create(c) \/ Atomic!Fail(c) \/ UNCHANGED Atomic!vars
<1>1. c \in Calls /\ c \notin Readers /\ pc[c] = "write" /\ TypeOK /\ Current
  BY Kinds DEF IInv, CreateWrite
<1>2. CASE Fail(c)
  BY <1>1, <1>2, FailRefines
<1>3. CASE ~Fail(c)
  <2>1. /\ \/ pc' = [pc EXCEPT ![c] = "ok"] \/ pc' = [pc EXCEPT ![c] = "write"]
        /\ buf' = buf /\ dir' = dir /\ Witness(ValueOf(InodeOf(File), data'))
    BY <1>3 DEF CreateWrite, Goto
  <2>2. Aside(c) /\ pc'[c] \in {"ok", "write"}
    BY <1>1, <2>1, PcAside
  <2>3. /\ pc'[c] = "ok" => Value = NoValue /\ Value' = {c}
        /\ pc'[c] # "ok" => Value = NoValue /\ Value' = NoValue
    BY <1>3, CreateWriteStep
  <2>4. seen' = [d \in Calls |-> IF Active(d) THEN seen[d] \cup {Value'} ELSE seen[d]]
    BY <2>1 DEF Witness, Value, InodeOf, Canonical
  <2>5. CASE pc'[c] = "write"
    <3>1. seen' = seen
      BY <1>1, <2>3, <2>4, <2>5 DEF Current, TypeOK
    <3>2. QED
      BY <1>1, <2>2, <2>3, <2>5, <3>1, ProgressIsHidden DEF Active
  <2>6. CASE pc'[c] = "ok"
    <3>1. \A d \in Calls: d # c => Status'[d] = Status[d] /\ Got'[d] = Got[d]
      BY <1>1, <2>2, OthersShowNothing
    <3>2. Status[c] = "busy" /\ Status'[c] = "ok" /\ Got'[c] = Got[c]
      BY <1>1, <2>6 DEF Status, Got, Active
    <3>3. /\ Status = [d \in Calls |-> Status[d]] /\ Status' = [d \in Calls |-> Status'[d]]
          /\ Got = [d \in Calls |-> Got[d]] /\ Got' = [d \in Calls |-> Got'[d]]
      BY DEF Status, Got
    <3>4. Status' = [Status EXCEPT ![c] = "ok"] /\ Got' = Got
      BY <3>1, <3>2, <3>3
    <3>5. seen' = [d \in Calls |-> IF Status[d] = "busy" THEN seen[d] \cup {{c}} ELSE seen[d]]
      <4>1. \A d \in Calls: Status[d] = "busy" <=> Active(d)
        BY <1>1 DEF Status, Active, TypeOK
      <4>2. QED
        BY <2>3, <2>4, <2>6, <4>1
    <3>6. Atomic!Become(c, {c})
      BY <2>3, <2>6, <3>2, <3>4, <3>5 DEF Atomic!Become, Atomic!Busy, Atomic!Calls, Calls, Status, Got
    <3>7. Atomic!Create(c)
      BY <2>3, <2>6, <3>6 DEF Atomic!Create
    <3>8. QED
      BY <3>7
  <2>7. QED
    BY <2>2, <2>5, <2>6
<1>4. QED
  BY <1>2, <1>3

(* All the calls of a process die at once. *)
LEMMA CrashRefines ==
  ASSUME IInv, NEW q \in Pids, Crash(q)
  PROVE  \E C \in SUBSET Calls: Atomic!Crash(C)
<1>0. PICK dying \in SUBSET Calls: dying = {c \in Calls: Pid[c] = q /\ Active(c)}
  OBVIOUS
<1>1. /\ pc' = [c \in Calls |-> IF c \in dying THEN "crashed" ELSE pc[c]]
      /\ buf' = buf /\ seen' = seen
  BY <1>0 DEF Crash, local
<1>2. Value' = Value
  BY CrashStep
<1>3. \A c \in Calls: /\ Status'[c] = IF c \in dying THEN "crashed" ELSE Status[c]
                      /\ Got'[c] = Got[c]
                      /\ c \in dying => Status[c] = "busy"
  BY <1>0, <1>1 DEF Status, Got, Active
<1>4. /\ Status' = [c \in Calls |-> IF c \in dying THEN "crashed" ELSE Status[c]]
      /\ Got' = Got
  <2>1. /\ Status' = [d \in Calls |-> Status'[d]]
        /\ Got = [d \in Calls |-> Got[d]] /\ Got' = [d \in Calls |-> Got'[d]]
    BY DEF Status, Got
  <2>2. QED
    BY <1>3, <2>1
<1>5. Atomic!Crash(dying)
  BY <1>1, <1>2, <1>3, <1>4 DEF Atomic!Crash, Atomic!Busy, Atomic!Calls, Calls, Status, Got
<1>6. QED
  BY <1>5

(* There is a whole container, or none. *)
LEMMA InitRefines ==
  ASSUME Init
  PROVE  Atomic!Init
<1>1. /\ pc = [c \in Calls |-> "idle"] /\ seen = [c \in Calls |-> {}] /\ IInv
  BY InitInv DEF Init
<1>2. Status = [c \in Calls |-> "idle"] /\ Got = [c \in Calls |-> NoValue]
  BY <1>1 DEF Status, Got, Active
<1>3. Value \in {NoValue, {}}
  <2>1. File \in Paths /\ {} \in Versions /\ NChunks \in 0 .. NChunks /\ Names
    BY <1>1, FileAssumption DEF Versions, Paths, IInv
  <2>2. CASE dir = [p \in Paths |-> IF p = File THEN NoEntry ELSE LinkEntry]
    <3>1. InodeOf(File) = NoInode
      BY <2>1, <2>2, EveryPath
    <3>2. QED
      BY <3>1 DEF Value, ValueOf
  <2>3. CASE LET i == CHOOSE i \in Inodes: TRUE
             IN  /\ dir = [p \in Paths |-> IF p = File THEN FileEntry(i) ELSE LinkEntry]
                 /\ data = [j \in Inodes |-> IF j = i THEN Container({}) ELSE << >>]
    <3>1. PICK i \in Inodes:
            /\ dir = [p \in Paths |-> IF p = File THEN FileEntry(i) ELSE LinkEntry]
            /\ data = [j \in Inodes |-> IF j = i THEN Container({}) ELSE << >>]
      BY <2>3, FileAssumption
    <3>2. dir[File] = FileEntry(i) /\ dir[File].ino = i /\ dir[File] # NoEntry
      BY <2>1, <3>1 DEF FileEntry, NoEntry
    <3>3. data[dir[File].ino] = Prefix({}, NChunks)
      BY <2>1, <3>1, <3>2, PrefixEnds
    <3>4. QED
      BY <2>1, <3>2, <3>3, FileValue
  <2>4. QED
    BY <2>2, <2>3 DEF Init
<1>4. QED
  BY <1>1, <1>2, <1>3 DEF Atomic!Init, Atomic!Calls, Calls, Status, Got

-------------------------------------------------------------------------------

(* Every step of every call is one step of AtomicFile, or none. *)
LEMMA NextRefines ==
  ASSUME IInv, ~Threaded, [Next]_vars
  PROVE  Atomic!Next \/ UNCHANGED Atomic!vars
<1> USE DEF Atomic!Next
<1>1. Calls = Atomic!Calls
  BY DEF Calls, Atomic!Calls
<1>2. ASSUME NEW c \in Updaters, NEW p \in Paths, UpdateOpen(c, p)
      PROVE  Atomic!Next \/ UNCHANGED Atomic!vars
  BY <1>1, <1>2, OpenRefines, Kinds DEF UpdateOpen
<1>3. ASSUME NEW c \in Readers, NEW p \in Paths, ReadOpen(c, p)
      PROVE  Atomic!Next \/ UNCHANGED Atomic!vars
  BY <1>1, <1>3, OpenRefines, Kinds DEF ReadOpen
<1>4. ASSUME NEW c \in Creators, NEW p \in Paths, CreateOpen(c, p)
      PROVE  Atomic!Next \/ UNCHANGED Atomic!vars
  BY <1>1, <1>4, CreateOpenRefines, Kinds
<1>5. ASSUME NEW c \in Updaters, UpdateStep(c)
      PROVE  Atomic!Next \/ UNCHANGED Atomic!vars
  <2>1. c \in Atomic!Calls
    BY <1>1, Kinds
  <2>2. Atomic!Fail(c) \/ Atomic!Update(c) \/ UNCHANGED Atomic!vars
    BY <1>5, PrepareRefines, ReplaceRefines, RenameRefines DEF UpdateStep
  <2>3. QED
    BY <2>1, <2>2
<1>6. ASSUME NEW c \in Readers, ReadHeader(c)
      PROVE  Atomic!Next \/ UNCHANGED Atomic!vars
  BY <1>1, <1>6, ReadHeaderRefines, Kinds
<1>7. ASSUME NEW c \in Creators, CreateWrite(c)
      PROVE  Atomic!Next \/ UNCHANGED Atomic!vars
  BY <1>1, <1>7, CreateWriteRefines, Kinds
<1>8. ASSUME NEW q \in Pids, Crash(q)
      PROVE  Atomic!Next \/ UNCHANGED Atomic!vars
  BY <1>1, <1>8, CrashRefines
<1>9. CASE UNCHANGED vars
  <2>1. Value' = Value
    BY <1>9, StutterStep
  <2>2. Status' = Status /\ Got' = Got /\ seen' = seen
    BY <1>9 DEF vars, local, Status, Got, Active
  <2>3. QED
    BY <2>1, <2>2 DEF Atomic!vars, Status, Got
<1>10. QED
  BY <1>2, <1>3, <1>4, <1>5, <1>6, <1>7, <1>8, <1>9 DEF Next, Start, Step

(* Calls that read, create and update one file, one system call at a time  *)
(* in any order and with any failures, do what calls that read, create and *)
(* replace it in one step each would do.                                   *)
THEOREM Refinement == ~Threaded => (Spec => ImplementsAtomicFile)
<1> SUFFICES ASSUME ~Threaded PROVE Spec => Atomic!Spec
  BY DEF ImplementsAtomicFile
<1>1. Init => Atomic!Init
  BY InitRefines
<1>2. IInv /\ [Next]_vars => [Atomic!Next]_Atomic!vars
  BY NextRefines
<1>3. Spec => []IInv
  BY Invariant
<1>4. QED
  BY <1>1, <1>2, <1>3, PTL DEF Spec, Atomic!Spec
===============================================================================
