-------------------------------- MODULE Vfs ---------------------------------
(***************************************************************************)
(* The VFS layer of one process: path resolution (fs/namev.c), open and   *)
(* the file-descriptor table (fs/open.c), and the VFS system calls        *)
(* (fs/vfs_syscall.c), over a ramfs file system.                           *)
(*                                                                         *)
(* A path is a record [abs, comps, slash]: whether it starts with '/',    *)
(* its components between slashes, and whether it ends with '/'.  A      *)
(* component is a name of Names, "." or "..", or LongName, one longer    *)
(* than NAME_LEN.  A file system object is an inode of Vnodes with a     *)
(* mode, directory entries (including "." and "..") and a length; the    *)
(* positions and lengths of files count abstract units (one per byte     *)
(* written, one per directory entry read).                                 *)
(*                                                                         *)
(* What lies outside src/ is modelled from the spec and marked so: vref,  *)
(* vput and fget/fput (the reference counts of spec section 4.12), and    *)
(* the ramfs vnode operations.  vput of the last reference evicts the    *)
(* vnode from the cache (spec: "uncache when refcount permits"), so a    *)
(* read of a vnode after its last vput reads freed memory.                 *)
(*                                                                         *)
(* A system call runs without blocking (ramfs never sleeps), so one step  *)
(* is one call.  The operators chain the calls a handler makes on a       *)
(* record m of the whole state; Commit writes it back.  A failed KASSERT *)
(* or a bad pointer stops the kernel: fault, with the state as it was     *)
(* before the call.                                                        *)
(***************************************************************************)
EXTENDS Naturals, Integers, Sequences, FiniteSets, SequencesExt

CONSTANTS
    Vnodes,       \* ramfs inodes
    Root,         \* vfs_root_vn
    Names,        \* file names of at most NAME_LEN characters
    Dot, DotDot,  \* "." and ".."
    LongName,     \* a component longer than NAME_LEN
    Files,        \* the file_t slab
    NFILES,       \* size of p_files
    MaxPos,       \* bound on file positions and lengths
    Paths,        \* paths passed to the calls that take a name
    LinkPaths,    \* paths passed to link(2) and rename(2)
    OpenFlags,    \* oflags passed to open, as sets of flag names
    NULL

ASSUME Root \in Vnodes /\ Cardinality(Files) >= NFILES

FDs == 0 .. NFILES - 1
Entries == Names \cup {Dot, DotDot}

VARIABLES
    mode,         \* vn_mode of each inode; "free" while ramfs has not allocated it
    entry,        \* entry[d][n]: the inode directory d names n, or NULL
    vn_len,       \* vn_len
    vn_refcount,  \* vn_refcount
    f_refcount,   \* f_refcount of each file_t; 0 while it is free
    f_mode,       \* f_mode as a set of "R", "W", "A"
    f_vnode, f_pos,
    p_files, p_cwd,
    fault         \* "none", or how the kernel stopped

vars == <<mode, entry, vn_len, vn_refcount, f_refcount, f_mode, f_vnode, f_pos,
          p_files, p_cwd, fault>>

M == [mode |-> mode, entry |-> entry, len |-> vn_len, ref |-> vn_refcount,
      fref |-> f_refcount, fmode |-> f_mode, fvn |-> f_vnode, pos |-> f_pos,
      files |-> p_files, cwd |-> p_cwd, fault |-> fault]

(* A call either completes, or stops the kernel where it faulted.        *)
Commit(m) ==
    IF m.fault # "none"
    THEN /\ fault' = m.fault
         /\ UNCHANGED <<mode, entry, vn_len, vn_refcount, f_refcount, f_mode,
                        f_vnode, f_pos, p_files, p_cwd>>
    ELSE /\ mode' = m.mode /\ entry' = m.entry /\ vn_len' = m.len
         /\ vn_refcount' = m.ref /\ f_refcount' = m.fref /\ f_mode' = m.fmode
         /\ f_vnode' = m.fvn /\ f_pos' = m.pos
         /\ p_files' = m.files /\ p_cwd' = m.cwd /\ UNCHANGED fault

Fail(m, why) == IF m.fault = "none" THEN [m EXCEPT !.fault = why] ELSE m

NoEntries == [n \in Entries |-> NULL]
DirEntries(d, parent) == [NoEntries EXCEPT ![Dot] = d, ![DotDot] = parent]

(* After vfs_init and the creation of the process: a ramfs root, held by *)
(* vfs_root_vn and by p_cwd; no file open.                                *)
Init ==
    /\ mode = [v \in Vnodes |-> IF v = Root THEN "dir" ELSE "free"]
    /\ entry = [v \in Vnodes |-> IF v = Root THEN DirEntries(Root, Root) ELSE NoEntries]
    /\ vn_len = [v \in Vnodes |-> 0]
    /\ vn_refcount = [v \in Vnodes |-> IF v = Root THEN 2 ELSE 0]
    /\ f_refcount = [f \in Files |-> 0]
    /\ f_mode = [f \in Files |-> {}]
    /\ f_vnode = [f \in Files |-> NULL]
    /\ f_pos = [f \in Files |-> 0]
    /\ p_files = [fd \in FDs |-> NULL]
    /\ p_cwd = Root
    /\ fault = "none"

(***************************************************************************)
(* Reference counts (vnode.c, file.c)                                      *)
(***************************************************************************)
VRef(m, v) == [m EXCEPT !.ref[v] = @ + 1]

(* vput: NULL is a bad pointer; KASSERT(0 < vn_refcount).                 *)
VPut(m, v) ==
    CASE v = NULL       -> Fail(m, "vputnull")
      [] m.ref[v] = 0   -> Fail(m, "kassert")
      [] OTHER          -> [m EXCEPT !.ref[v] = @ - 1]

(* A file_t fget(-1) would hand out: one with no references.              *)
NewFile(m) == CHOOSE f \in Files : m.fref[f] = 0

FAlloc(m, f) == [m EXCEPT !.fref[f] = 1, !.fmode[f] = {}, !.fvn[f] = NULL, !.pos[f] = 0]

FRef(m, f) == [m EXCEPT !.fref[f] = @ + 1]

(* An fput that vputs the vnode on every put, not only the last.          *)
FPutAlwaysVput(m, f) ==
    LET m1 == IF m.fvn[f] # NULL THEN VPut(m, m.fvn[f]) ELSE m
    IN  IF m.fref[f] = 1
        THEN [m1 EXCEPT !.fref[f] = 0, !.fmode[f] = {}, !.fvn[f] = NULL, !.pos[f] = 0]
        ELSE [m1 EXCEPT !.fref[f] = @ - 1]

(* fput: the last reference vputs the vnode and frees the file_t.          *)
FPut(m, f) ==
    IF m.fref[f] = 1
    THEN LET m1 == IF m.fvn[f] # NULL THEN VPut(m, m.fvn[f]) ELSE m
         IN  [m1 EXCEPT !.fref[f] = 0, !.fmode[f] = {}, !.fvn[f] = NULL,
                        !.pos[f] = 0]
    ELSE [m EXCEPT !.fref[f] = @ - 1]

(***************************************************************************)
(* ramfs vnode operations                                                  *)
(***************************************************************************)
IsDir(m, v) == m.mode[v] = "dir"

(* Entries other than "." and "..".                                        *)
Children(m, d) == {n \in Names : m.entry[d][n] # NULL}

(* ramfs create, mkdir and mknod: a fresh inode named n in d; create     *)
(* returns it referenced once, mkdir and mknod put their reference.      *)
(* ENOSPC when no inode is free.                                           *)
RamfsNew(m, d, n, kind) ==
    IF \A v \in Vnodes : m.mode[v] # "free"
    THEN [m |-> m, code |-> "ENOSPC", res |-> NULL]
    ELSE LET v == CHOOSE v \in Vnodes : m.mode[v] = "free"
         IN  [m |-> [m EXCEPT !.mode[v] = kind, !.len[v] = 0,
                              !.entry[v] = IF kind = "dir" THEN DirEntries(v, d) ELSE NoEntries,
                              !.entry[d][n] = v,
                              !.ref[v] = IF kind = "reg" THEN 1 ELSE 0],
              code |-> "ok", res |-> v]

(* ramfs rmdir: only an empty directory entry is removed.                 *)
RamfsRmdir(m, d, n) ==
    LET v == m.entry[d][n]
    IN  CASE v = NULL                -> [m |-> m, code |-> "ENOENT"]
          [] ~IsDir(m, v)            -> [m |-> m, code |-> "ENOTDIR"]
          [] Children(m, v) # {}     -> [m |-> m, code |-> "ENOTEMPTY"]
          [] OTHER -> [m |-> [m EXCEPT !.entry[d][n] = NULL], code |-> "ok"]

RamfsUnlink(m, d, n) == [m EXCEPT !.entry[d][n] = NULL]

RamfsLink(m, v, d, n) == [m EXCEPT !.entry[d][n] = v]

(* Number of entries readdir returns before it returns 0.                 *)
NumEntries(m, d) == Cardinality({n \in Entries : m.entry[d][n] # NULL})

(***************************************************************************)
(* Path resolution (namev.c)                                               *)
(***************************************************************************)
(* lookup: ENOTDIR without a lookup op; the ramfs lookup refs the result. *)
Lookup(m, d, n) ==
    IF ~IsDir(m, d) THEN [m |-> m, code |-> "ENOTDIR", res |-> NULL]
    ELSE IF m.entry[d][n] = NULL THEN [m |-> m, code |-> "ENOENT", res |-> NULL]
    ELSE [m |-> VRef(m, m.entry[d][n]), code |-> "ok", res |-> m.entry[d][n]]

(* The component loop of dir_namev, r = [m, base, cur, code]: base is    *)
(* curBase, cur is curVNode (= prevVNode at the top of each iteration).   *)
(* One iteration after the lookup l of its component: vput(prevVNode),   *)
(* then return on an error or move on to the vnode found.                 *)
WalkStep(r, l) ==
    [r EXCEPT !.m = IF r.cur # NULL THEN VPut(l.m, r.cur) ELSE l.m,
              !.code = l.code, !.base = l.res, !.cur = l.res]

RECURSIVE Walk(_, _)
Walk(r, comps) ==
    CASE comps = <<>> \/ r.code # "ok" -> r
      [] Head(comps) = LongName -> [r EXCEPT !.m = VPut(r.m, r.cur), !.code = "ENAMETOOLONG"]
      [] OTHER -> Walk(WalkStep(r, Lookup(r.m, r.base, Head(comps))), Tail(comps))

(* dir_namev(path, ..., NULL) after the loop w over all components but   *)
(* the last: the parent of the last component, held, and that component  *)
(* (NULL for a path of slashes).                                           *)
DirNamevOf(m, p, w) ==
    LET name == IF p.comps = <<>> THEN NULL ELSE Last(p.comps)
    IN  CASE name = LongName -> [m |-> m, code |-> "ENAMETOOLONG", dir |-> NULL, name |-> name]
          [] w.code # "ok"   -> [m |-> w.m, code |-> w.code, dir |-> NULL, name |-> name]
          [] w.cur # NULL /\ ~IsDir(w.m, w.base) ->
                [m |-> VPut(w.m, w.cur), code |-> "ENOTDIR", dir |-> NULL, name |-> name]
          [] w.cur # NULL    -> [m |-> w.m, code |-> "ok", dir |-> w.cur, name |-> name]
          [] OTHER           -> [m |-> VRef(w.m, w.base), code |-> "ok", dir |-> w.base,
                                 name |-> name]

DirNamev(m, p) ==
    DirNamevOf(m, p, Walk([m |-> m, base |-> IF p.abs THEN Root ELSE m.cwd, cur |-> NULL,
                           code |-> "ok"],
                          IF p.comps = <<>> THEN <<>> ELSE Front(p.comps)))

(* open_namev once lookup l of the last component in d.dir returned.     *)
OpenNamevFound(p, creat, d, l) ==
    CASE l.code # "ok" /\ creat ->
            LET c == RamfsNew(l.m, d.dir, d.name, "reg")
            IN  [m |-> VPut(c.m, d.dir), code |-> c.code, res |-> c.res]
      [] l.code # "ok"   -> [m |-> VPut(l.m, d.dir), code |-> l.code, res |-> NULL]
      [] p.slash /\ ~IsDir(l.m, l.res) ->
            [m |-> VPut(VPut(l.m, l.res), d.dir), code |-> "ENOTDIR", res |-> NULL]
      [] OTHER           -> [m |-> VPut(l.m, d.dir), code |-> "ok", res |-> l.res]

OpenNamevAt(p, creat, d) ==
    CASE d.code # "ok"   -> [m |-> d.m, code |-> d.code, res |-> NULL]
      [] d.name = NULL   -> [m |-> d.m, code |-> "ok", res |-> d.dir]
      [] OTHER           -> OpenNamevFound(p, creat, d, Lookup(d.m, d.dir, d.name))

(* open_namev(path, flag, ..., NULL): the named vnode, held; created     *)
(* with O_CREAT when missing; a trailing '/' needs a directory.          *)
OpenNamev(m, p, creat) == OpenNamevAt(p, creat, DirNamev(m, p))

(***************************************************************************)
(* open.c                                                                  *)
(***************************************************************************)
(* get_empty_fd: the lowest free slot, or -1 for EMFILE.                  *)
GetEmptyFd(m) ==
    IF \A fd \in FDs : m.files[fd] # NULL THEN -1
    ELSE CHOOSE fd \in FDs : m.files[fd] = NULL /\ \A g \in 0 .. fd - 1 : m.files[g] # NULL

(* f_mode from oflags: READ only when oflags is exactly O_RDONLY (0).     *)
FMode(fl) ==
    (IF fl = {} THEN {"R"} ELSE {}) \cup (IF "WRONLY" \in fl THEN {"W"} ELSE {})
    \cup (IF "RDWR" \in fl THEN {"R", "W"} ELSE {}) \cup (IF "APPEND" \in fl THEN {"A"} ELSE {})

(* The actions below bind each intermediate state record with \E over a *)
(* one-element set, so that it is computed once per step.                 *)
do_open(p, fl) ==
    LET undo(m, fd, f) == [FPut(m, f) EXCEPT !.files[fd] = NULL]
    IN  /\ fault = "none"
        /\ ~({"WRONLY", "RDWR"} \subseteq fl)
        /\ GetEmptyFd(M) # -1
        /\ \E fd \in {GetEmptyFd(M)}, f \in {NewFile(M)} :
           \E o \in {OpenNamev([FAlloc(M, f) EXCEPT !.files[fd] = f, !.fmode[f] = FMode(fl)],
                               p, "CREAT" \in fl)} :
              Commit(CASE o.code # "ok" -> undo(o.m, fd, f)
                       [] IsDir(o.m, o.res) /\ fl \cap {"WRONLY", "RDWR"} # {} ->
                             undo(VPut(o.m, o.res), fd, f)
                       [] OTHER -> [o.m EXCEPT !.pos[f] = 0, !.fvn[f] = o.res])

(***************************************************************************)
(* vfs_syscall.c: calls on a file descriptor                              *)
(***************************************************************************)
Open(fd) == p_files[fd] # NULL

(* The bytes the ramfs read of one byte at f_pos returns: none at or past *)
(* the end of a file, none from the (null) device; a variant that reads  *)
(* past the end.                                                           *)
ReadBytesIgnoreLen(m, f) == IF m.mode[m.fvn[f]] = "reg" THEN 1 ELSE 0

ReadBytes(m, f) ==
    IF m.mode[m.fvn[f]] = "reg" /\ m.pos[f] < m.len[m.fvn[f]] THEN 1 ELSE 0

do_read(fd) ==
    /\ fault = "none" /\ Open(fd)
    /\ \E f \in {p_files[fd]} : \E m \in {FRef(M, f)} :
          Commit(IF IsDir(m, f_vnode[f]) \/ "R" \notin m.fmode[f] THEN FPut(m, f)
                 ELSE FPut([m EXCEPT !.pos[f] = @ + ReadBytes(m, f)], f))

(* do_lseek(fd, off, whence) on a record, for do_write's SEEK_END too.    *)
Lseek(m, fd, off, whence) ==
    LET f == m.files[fd]
        to == CASE whence = "SET" -> off
                [] whence = "CUR" -> m.pos[f] + off
                [] whence = "END" -> m.len[m.fvn[f]] + off
    IN  IF to < 0 THEN FPut(FRef(m, f), f) ELSE FPut([FRef(m, f) EXCEPT !.pos[f] = to], f)

do_lseek(fd, off, whence) ==
    /\ fault = "none" /\ Open(fd)
    /\ \E m \in {Lseek(M, fd, off, whence)} :
          /\ m.pos[p_files[fd]] <= MaxPos
          /\ Commit(m)

(* do_write after the APPEND seek, m1: a directory has no write op; the  *)
(* ramfs write of one byte at f_pos, then KASSERT(f_pos <= vn_len).      *)
WriteAt(m1, f, v) ==
    LET m2 == CASE m1.mode[v] = "dir" -> Fail(m1, "nullcall")
                [] m1.mode[v] = "reg" ->
                      [m1 EXCEPT !.len[v] = IF m1.pos[f] + 1 > @ THEN m1.pos[f] + 1 ELSE @,
                                 !.pos[f] = @ + 1]
                [] OTHER -> [m1 EXCEPT !.pos[f] = @ + 1]
    IN  IF m1.mode[v] = "reg" /\ m2.pos[f] > m2.len[v] THEN Fail(m2, "kassert") ELSE m2

do_write(fd) ==
    /\ fault = "none" /\ Open(fd)
    /\ \E f \in {p_files[fd]} : \E m \in {FRef(M, f)} :
       IF m.fmode[f] \cap {"W", "A"} = {} THEN Commit(FPut(m, f))
       ELSE \E m1 \in {IF "A" \in m.fmode[f] THEN Lseek(m, fd, 0, "END") ELSE m} :
              /\ m1.pos[f] + 1 <= MaxPos
              /\ Commit(FPut(WriteAt(m1, f, f_vnode[f]), f))

Close(m, fd) == [FPut(m, m.files[fd]) EXCEPT !.files[fd] = NULL]

do_close(fd) == fault = "none" /\ Open(fd) /\ Commit(Close(M, fd))

do_dup(fd) ==
    /\ fault = "none" /\ Open(fd)
    /\ \E f \in {p_files[fd]} : \E m \in {FRef(M, f)} :
          Commit(IF GetEmptyFd(m) = -1 THEN FPut(m, f) ELSE [m EXCEPT !.files[GetEmptyFd(m)] = f])

(* A do_dup2 that forgets the fput when nfd = ofd.                        *)
do_dup2Self(ofd, nfd) ==
    /\ fault = "none" /\ Open(ofd)
    /\ \E f \in {p_files[ofd]} : \E m \in {FRef(M, f)} :
          Commit([IF m.files[nfd] # NULL /\ nfd # ofd THEN Close(m, nfd) ELSE m
                  EXCEPT !.files[nfd] = f])

do_dup2(ofd, nfd) ==
    /\ fault = "none" /\ Open(ofd)
    /\ \E f \in {p_files[ofd]} : \E m \in {FRef(M, f)} :
       \E m2 \in {[IF m.files[nfd] # NULL /\ nfd # ofd THEN Close(m, nfd) ELSE m
                   EXCEPT !.files[nfd] = f]} :
          Commit(IF nfd = ofd THEN FPut(m2, f) ELSE m2)

do_getdent(fd) ==
    /\ fault = "none" /\ Open(fd)
    /\ \E f \in {p_files[fd]} : \E m \in {FRef(M, f)} :
       \E n \in {IF f_pos[f] < NumEntries(M, f_vnode[f]) THEN 1 ELSE 0} :
          /\ f_pos[f] + n <= MaxPos
          /\ Commit(IF ~IsDir(m, f_vnode[f]) THEN FPut(m, f)
                    ELSE FPut([m EXCEPT !.pos[f] = @ + n], f))

(***************************************************************************)
(* vfs_syscall.c: calls on path names                                      *)
(***************************************************************************)
(* The path "/", whose last component is empty.                            *)
RootPath == [abs |-> TRUE, comps |-> <<>>, slash |-> TRUE]

(* do_mknod and do_mkdir once lookup l of the new name in d.dir returned. *)
MakeAt(d, l, kind) ==
    IF l.code = "ok" THEN VPut(VPut(l.m, l.res), d.dir)
    ELSE VPut(RamfsNew(l.m, d.dir, d.name, kind).m, d.dir)

do_mknod(p) ==
    /\ fault = "none"
    /\ \E d \in {DirNamev(M, p)} :
          Commit(IF d.code # "ok" THEN d.m ELSE MakeAt(d, Lookup(d.m, d.dir, d.name), "chr"))

do_mkdir(p) ==
    /\ fault = "none"
    /\ \E d \in {DirNamev(M, p)} :
          Commit(CASE d.code # "ok"                   -> d.m
                   [] d.name = NULL /\ d.dir = Root   -> VPut(d.m, d.dir)
                   [] OTHER -> MakeAt(d, Lookup(d.m, d.dir, d.name), "dir"))

do_rmdir(p) ==
    /\ fault = "none"
    /\ \E d \in {DirNamev(M, p)} :
          Commit(CASE d.code # "ok"             -> d.m
                   [] d.name \in {Dot, DotDot}  -> VPut(d.m, d.dir)
                   [] OTHER -> VPut(RamfsRmdir(d.m, d.dir, d.name).m, d.dir))

(* do_unlink once lookup l of the name in d.dir returned.                 *)
UnlinkFound(d, l) ==
    CASE l.code # "ok"       -> [m |-> VPut(l.m, d.dir), code |-> l.code]
      [] IsDir(l.m, l.res)   -> [m |-> VPut(VPut(l.m, l.res), d.dir), code |-> "EPERM"]
      [] OTHER -> [m |-> VPut(VPut(RamfsUnlink(l.m, d.dir, d.name), l.res), d.dir),
                   code |-> "ok"]

(* do_unlink on a record, for do_rename too.                               *)
Unlink(m, p) ==
    LET d == DirNamev(m, p)
    IN  IF d.code # "ok" THEN [m |-> d.m, code |-> d.code]
        ELSE UnlinkFound(d, Lookup(d.m, d.dir, d.name))

do_unlink(p) == fault = "none" /\ Commit(Unlink(M, p).m)

(* do_link once dir_namev(to) returned d, o being open_namev(from).       *)
LinkAt(o, d, l) ==
    IF l.code = "ok" THEN [m |-> VPut(VPut(l.m, l.res), d.dir), code |-> "EEXIST"]
    ELSE [m |-> VPut(RamfsLink(l.m, o.res, d.dir, d.name), d.dir), code |-> "ok"]

LinkTo(o, d) ==
    IF d.code # "ok" THEN [m |-> d.m, code |-> d.code]
    ELSE LinkAt(o, d, Lookup(d.m, d.dir, d.name))

(* A do_link without the EPERM check on directories.                      *)
LinkCheckedDirs(to, o, m2) == LinkTo(o, DirNamev(m2, to))

(* do_link after vput(fromVNode): its mode is read, and it is linked,    *)
(* after the put; when that put was the last, both read an evicted vnode. *)
LinkChecked(to, o, m2) ==
    IF IsDir(m2, o.res) THEN [m |-> m2, code |-> "EPERM"]
    ELSE LinkTo(o, DirNamev(m2, to))

LinkFrom(to, o, m1) ==
    LinkChecked(to, o, IF m1.ref[o.res] = 0 THEN Fail(m1, "useafterfree") ELSE m1)

(* do_link on a record, for do_rename too.                                 *)
Link(m, from, to) ==
    LET o == OpenNamev(m, from, FALSE)
    IN  IF o.code # "ok" THEN [m |-> o.m, code |-> o.code]
        ELSE LinkFrom(to, o, VPut(o.m, o.res))

do_link(from, to) == fault = "none" /\ Commit(Link(M, from, to).m)

(* do_rename: do_link, then do_unlink of the old name.                     *)
do_rename(from, to) ==
    /\ fault = "none"
    /\ \E k \in {Link(M, from, to)} : Commit(IF k.code # "ok" THEN k.m ELSE Unlink(k.m, from).m)

(* A do_chdir that keeps the reference on the old cwd.                    *)
do_chdirKeepOld(p) ==
    /\ fault = "none"
    /\ \E o \in {OpenNamev(M, p, FALSE)} :
          Commit(CASE o.code # "ok"       -> o.m
                   [] ~IsDir(o.m, o.res)  -> VPut(o.m, o.res)
                   [] OTHER -> [o.m EXCEPT !.cwd = o.res])

do_chdir(p) ==
    /\ fault = "none"
    /\ \E o \in {OpenNamev(M, p, FALSE)} :
          Commit(CASE o.code # "ok"       -> o.m
                   [] ~IsDir(o.m, o.res)  -> VPut(o.m, o.res)
                   [] OTHER -> [VPut(o.m, M.cwd) EXCEPT !.cwd = o.res])

do_stat(p) ==
    /\ fault = "none"
    /\ \E o \in {OpenNamev(M, p, FALSE)} : Commit(IF o.code # "ok" THEN o.m ELSE VPut(o.m, o.res))

Next ==
    \/ \E p \in Paths \cup {RootPath} :
          \/ \E fl \in OpenFlags : do_open(p, fl)
          \/ do_mkdir(p) \/ do_chdir(p) \/ do_stat(p)
    \/ \E p \in Paths : do_mknod(p) \/ do_rmdir(p) \/ do_unlink(p)
    \/ \E p, q \in LinkPaths : do_link(p, q) \/ do_rename(p, q)
    \/ \E fd \in FDs :
          \/ do_read(fd) \/ do_write(fd) \/ do_close(fd) \/ do_dup(fd) \/ do_getdent(fd)
          \/ \E nfd \in FDs : do_dup2(fd, nfd)
          \/ \E off \in {0, 1}, whence \in {"SET", "CUR", "END"} : do_lseek(fd, off, whence)

Spec == Init /\ [][Next]_vars

(***************************************************************************)
(* Properties                                                              *)
(***************************************************************************)
TypeOK ==
    /\ mode \in [Vnodes -> {"free", "dir", "reg", "chr"}]
    /\ entry \in [Vnodes -> [Entries -> Vnodes \cup {NULL}]]
    /\ vn_len \in [Vnodes -> 0 .. MaxPos]
    /\ vn_refcount \in [Vnodes -> Nat]
    /\ f_refcount \in [Files -> Nat]
    /\ f_mode \in [Files -> SUBSET {"R", "W", "A"}]
    /\ f_vnode \in [Files -> Vnodes \cup {NULL}]
    /\ f_pos \in [Files -> 0 .. MaxPos]
    /\ p_files \in [FDs -> Files \cup {NULL}]
    /\ p_cwd \in Vnodes
    /\ fault \in {"none", "kassert", "vputnull", "nullcall", "useafterfree"}

(* Every vnode reference is held by someone when no call is running:      *)
(* vn_refcount counts the open file_t's on the vnode, p_cwd and           *)
(* vfs_root_vn, after any sequence of calls, failed ones included (each  *)
(* error path of dir_namev, open_namev and the calls puts exactly what   *)
(* it took).                                                               *)
RefsBalanced ==
    \A v \in Vnodes :
        vn_refcount[v] = Cardinality({f \in Files : f_refcount[f] > 0 /\ f_vnode[f] = v})
                         + (IF p_cwd = v THEN 1 ELSE 0) + (IF v = Root THEN 1 ELSE 0)

(* The fd table owns one reference per slot and nothing else does: open, *)
(* dup, dup2 (also onto itself or onto an open slot) and close keep each  *)
(* file_t's f_refcount equal to the number of slots that point to it.    *)
FilesBalanced ==
    \A f \in Files : f_refcount[f] = Cardinality({fd \in FDs : p_files[fd] = f})

(* The inodes reachable from the root through named entries.              *)
RECURSIVE ReachFrom(_)
ReachFrom(S) ==
    LET T == S \cup ({entry[d][n] : d \in {x \in S : mode[x] = "dir"}, n \in Names} \ {NULL})
    IN  IF T = S THEN S ELSE ReachFrom(T)

Tree == ReachFrom({Root})

(* The directories reachable from the root form a tree whose ".." entries *)
(* point up it: mkdir, rmdir, link, unlink and rename never give a        *)
(* directory a second name, never name the root, and keep each          *)
(* directory's ".." on the one directory that names it.                    *)
TreeWellFormed ==
    /\ \A d \in Tree, n \in Names : entry[d][n] # Root
    /\ \A c \in Tree \ {Root} : mode[c] = "dir" =>
           LET Up == {pn \in Tree \X Names : mode[pn[1]] = "dir" /\ entry[pn[1]][pn[2]] = c}
           IN  Cardinality(Up) = 1 /\ entry[c][DotDot] = (CHOOSE pn \in Up : TRUE)[1]

(* No sequence of calls trips a KASSERT: vput is never called on a vnode *)
(* without references, and do_write never leaves f_pos past vn_len.     *)
NoKernelAssert == fault # "kassert"

(* A path component longer than NAME_LEN fails with ENAMETOOLONG (spec   *)
(* 4.11) wherever it is: dir_namev never vputs a NULL curVNode.           *)
NameTooLongIsAnError == fault # "vputnull"

(* write(2) on a descriptor never calls a vnode's missing write op.       *)
WriteNeedsWriteOp == fault # "nullcall"

=============================================================================
