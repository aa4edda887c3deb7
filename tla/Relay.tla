-------------------------------- MODULE Relay --------------------------------
(***************************************************************************)
(* The relay's path operations and its operation table (src/efs-ng.cpp:    *)
(* the handlers that take a pathname, efsng_init, efsng_destroy, the       *)
(* handlers that only assert(false), and main's filling of fuse_operations)*)
(* as the kernel sees them through libfuse.                                *)
(*                                                                         *)
(* The backing directory is a set of Paths, each absent or holding one     *)
(* kind of node.  Every path handler is one system call on the same path   *)
(* that returns 0 or -errno, and a system call is atomic on the backing    *)
(* file system, so each handler is one step whose reply is the call's.     *)
(* File contents, modes, owners, times and extended attribute values are   *)
(* abstracted away; a symbolic link's target is an arbitrary path, so a    *)
(* call that follows one may meet any result.  Handle-based operations are *)
(* modelled in FileHandles and DirStream.                                  *)
(*                                                                         *)
(* NDEBUG (assert compiled out) is a constant of the build.  The set have  *)
(* of config.h macros among HAVE_SETXATTR, HAVE_LIBULOCKMGR,               *)
(* HAVE_UTIMENSAT and HAVE_POSIX_FALLOCATE, and blkdev, whether the file   *)
(* system was mounted with the blkdev option (the only case in which the   *)
(* kernel sends bmap), are chosen in Init and never change, so one run     *)
(* covers every build.  Procs are the processes using the mount.           *)
(***************************************************************************)
EXTENDS Naturals, FiniteSets

CONSTANTS
    Paths,     \* path names in the mounted directory
    Procs,     \* processes calling into the mount
    NDEBUG     \* the relay was built with -DNDEBUG

Kinds == {"none", "file", "dir", "symlink"}

Macros == {"HAVE_SETXATTR", "HAVE_LIBULOCKMGR", "HAVE_UTIMENSAT", "HAVE_POSIX_FALLOCATE"}

VARIABLES
    node,      \* node[p]: what the backing directory holds at p
    daemon,    \* "parsing", "exited", "starting", "mounted", "unmounted" or "aborted"
    flocked,   \* flocked[q]: files q's flock(LOCK_EX) reported holding
    reply,     \* the last answer the kernel got: operation and result
    have,      \* the HAVE_* macros config.h defined for this build
    blkdev     \* mounted with -o blkdev

vars == <<node, daemon, flocked, reply, have, blkdev>>

(* main: the fuse_operations members set before fuse_main; the rest stay *)
(* NULL from the memset.                                                 *)
OpTable ==
    {"getattr", "readlink", "mknod", "mkdir", "unlink", "rmdir", "symlink",
     "rename", "link", "chmod", "chown", "truncate", "open", "read", "write",
     "statfs", "flush", "release", "fsync", "opendir", "readdir",
     "releasedir", "fsyncdir", "init", "destroy", "access", "create",
     "ftruncate", "fgetattr", "bmap", "ioctl", "poll", "write_buf",
     "read_buf", "flock"}
    \cup (IF "HAVE_SETXATTR" \in have
          THEN {"setxattr", "getxattr", "listxattr", "removexattr"} ELSE {})
    \cup (IF "HAVE_LIBULOCKMGR" \in have THEN {"lock"} ELSE {})
    \cup (IF "HAVE_UTIMENSAT" \in have THEN {"utimens"} ELSE {})
    \cup (IF "HAVE_POSIX_FALLOCATE" \in have THEN {"fallocate"} ELSE {})

(* The operations whose handler is assert(false); return 0. *)
AssertOnly == {"fsyncdir", "utimens", "bmap", "ioctl", "poll", "fallocate"}

(* Requests a process can cause that libfuse turns into a call of an       *)
(* optional operation, answering ENOSYS when the member is NULL.           *)
Optional == {"setxattr", "getxattr", "listxattr", "removexattr", "utimens",
             "fallocate"}

Init ==
    /\ node \in [Paths -> Kinds]
    /\ daemon = "parsing"
    /\ flocked = [q \in Procs |-> {}]
    /\ reply = [op |-> "none", res |-> "ok"]
    /\ have \in SUBSET Macros
    /\ blkdev \in BOOLEAN

Serving == daemon = "mounted"

Answer(op, res) ==
    /\ reply' = [op |-> op, res |-> res]
    /\ UNCHANGED <<node, daemon, flocked>>

\* a handler that changes the backing directory: res, and node becomes n
Change(op, res, n) ==
    /\ reply' = [op |-> op, res |-> res]
    /\ node' = n
    /\ UNCHANGED <<daemon, flocked>>

\* errors of a call that needs p to exist, for a call that follows symlinks
Resolve(p) ==
    CASE node[p] = "none"    -> {"ENOENT"}
      [] node[p] = "symlink" -> {"ok", "ENOENT", "ENOTDIR", "EISDIR"}
      [] OTHER               -> {"ok"}

-----------------------------------------------------------------------------
(* main: with no arguments, or when process_args rejects them, print the *)
(* usage and return EXIT_FAILURE; else fill the operation table and call  *)
(* fuse_main.  process_args is not under src/, so either outcome.         *)
ParseArgs ==
    /\ daemon = "parsing"
    /\ daemon' \in {"exited", "starting"}
    /\ UNCHANGED <<node, flocked, reply>>

(* efsng_init: (void) conn; return 0.  libfuse then serves requests. *)
FuseInit ==
    /\ daemon = "starting"
    /\ daemon' = "mounted"
    /\ UNCHANGED <<node, flocked, reply>>

(* fuse_main cannot mount (a bad mount point, no /dev/fuse): it returns  *)
(* without calling init, and main prints its result and returns 0.        *)
MountFails ==
    /\ daemon = "starting"
    /\ daemon' = "exited"
    /\ UNCHANGED <<node, flocked, reply>>

(* efsng_destroy: empty; called by libfuse at unmount. *)
Destroy ==
    /\ Serving
    /\ daemon' = "unmounted"
    /\ UNCHANGED <<node, flocked, reply>>

(* efsng_getattr: lstat, which does not follow a final symlink. *)
Getattr(p) ==
    /\ Serving
    /\ Answer("getattr", IF node[p] = "none" THEN "ENOENT" ELSE "ok")

(* efsng_readlink: readlink(pathname, buf, bufsiz - 1), NUL at buf[res]. *)
Readlink(p) ==
    /\ Serving
    /\ Answer("readlink", CASE node[p] = "none"    -> "ENOENT"
                            [] node[p] = "symlink" -> "ok"
                            [] OTHER               -> "EINVAL")

(* efsng_mknod, efsng_mkdir, efsng_symlink: create a node of kind k at p, *)
(* EEXIST if p is taken (symlink and mknod do not follow an existing one). *)
(* mkdir's "if(!mode & S_IFDIR)" is (!mode) & S_IFDIR, always 0, so the   *)
(* mode passes unchanged; mkdir(2) ignores the type bits anyway.          *)
MakeNode(op, k, p) ==
    /\ Serving
    /\ IF node[p] # "none" THEN Answer(op, "EEXIST")
       ELSE Change(op, "ok", [node EXCEPT ![p] = k])

Mknod(p) == MakeNode("mknod", "file", p)
Mkdir(p) == MakeNode("mkdir", "dir", p)
Symlink(p) == MakeNode("symlink", "symlink", p)

(* efsng_unlink: unlink(2), EISDIR on a directory (Linux). *)
Unlink(p) ==
    /\ Serving
    /\ CASE node[p] = "none" -> Answer("unlink", "ENOENT")
         [] node[p] = "dir"  -> Answer("unlink", "EISDIR")
         [] OTHER            -> Change("unlink", "ok", [node EXCEPT ![p] = "none"])

(* efsng_rmdir: rmdir(2); a directory here has no entries of the model. *)
Rmdir(p) ==
    /\ Serving
    /\ CASE node[p] = "none" -> Answer("rmdir", "ENOENT")
         [] node[p] # "dir"  -> Answer("rmdir", "ENOTDIR")
         [] OTHER            -> Change("rmdir", "ok", [node EXCEPT ![p] = "none"])

(* efsng_rename: rename(2), replacing what is at the new path. *)
Rename(p, q) ==
    /\ Serving
    /\ CASE node[p] = "none"                                -> Answer("rename", "ENOENT")
         [] p = q                                           -> Answer("rename", "ok")
         [] node[p] = "dir" /\ node[q] \notin {"none", "dir"} -> Answer("rename", "ENOTDIR")
         [] node[p] # "dir" /\ node[q] = "dir"              -> Answer("rename", "EISDIR")
         [] OTHER -> Change("rename", "ok", [node EXCEPT ![q] = node[p], ![p] = "none"])

(* efsng_link: link(2), which neither follows p nor links a directory. *)
Link(p, q) ==
    /\ Serving
    /\ CASE node[p] = "none" -> Answer("link", "ENOENT")
         [] node[p] = "dir"  -> Answer("link", "EPERM")
         [] node[q] # "none" -> Answer("link", "EEXIST")
         [] OTHER            -> Change("link", "ok", [node EXCEPT ![q] = node[p]])

(* efsng_chmod (chmod), efsng_truncate (truncate), efsng_statfs (statvfs), *)
(* efsng_access (access): calls that follow a symlink; the metadata they   *)
(* change is abstracted away.  truncate of a directory is EISDIR.          *)
FollowCall(op, p) ==
    /\ Serving
    /\ \E res \in Resolve(p) :
          Answer(op, IF op = "truncate" /\ node[p] = "dir" THEN "EISDIR" ELSE res)

Chmod(p) == FollowCall("chmod", p)
Truncate(p) == FollowCall("truncate", p)
Statfs(p) == FollowCall("statfs", p)
Access(p) == FollowCall("access", p)

(* efsng_chown: lchown, and the l*xattr handlers: calls on p itself. *)
NoFollowCall(op, p) ==
    /\ Serving
    /\ op \in OpTable
    /\ Answer(op, IF node[p] = "none" THEN "ENOENT" ELSE "ok")

Chown(p) == NoFollowCall("chown", p)
Setxattr(p) == NoFollowCall("setxattr", p)
Listxattr(p) == NoFollowCall("listxattr", p)

(* lgetxattr / lremovexattr: ENODATA when p has no such attribute. *)
XattrLookup(op, p) ==
    /\ Serving
    /\ op \in OpTable
    /\ \E res \in IF node[p] = "none" THEN {"ENOENT"} ELSE {"ok", "ENODATA"} :
          Answer(op, res)

Getxattr(p) == XattrLookup("getxattr", p)
Removexattr(p) == XattrLookup("removexattr", p)

(* efsng_lock: ulockmgr_op's 0 or -errno for a POSIX lock request, passed *)
(* through; the lock table is the ulockmgr server's.                     *)
Lock(p) ==
    /\ Serving
    /\ "lock" \in OpTable
    /\ node[p] = "file"
    /\ \E res \in {"ok", "EAGAIN"} : Answer("lock", res)

(* libfuse answers -ENOSYS for an optional operation left NULL. *)
Unregistered(op) ==
    /\ Serving
    /\ op \in Optional \ OpTable
    /\ Answer(op, "ENOSYS")

(* efsng_fsyncdir, efsng_utimens, efsng_bmap, efsng_ioctl, efsng_poll,     *)
(* efsng_fallocate: assert(false) aborts the process; under NDEBUG the     *)
(* handler returns 0 having done nothing.                                  *)
AssertFalse(op) ==
    /\ Serving
    /\ op \in AssertOnly \cap OpTable
    /\ op = "bmap" => blkdev
    /\ IF NDEBUG THEN Answer(op, "ok")
       ELSE /\ daemon' = "aborted"
            /\ UNCHANGED <<node, flocked, reply>>

Fsyncdir == AssertFalse("fsyncdir")
Utimens == AssertFalse("utimens")
Bmap == AssertFalse("bmap")
Ioctl == AssertFalse("ioctl")
Poll == AssertFalse("poll")
Fallocate == AssertFalse("fallocate")

(* efsng_flock(op): assert(false).  Because main sets the flock member,   *)
(* libfuse asks the kernel for BSD locks to be sent to the file system    *)
(* instead of being kept locally, so a process's flock(2) on an open file *)
(* on the mount reaches this handler, and its 0 is what flock returns.    *)
Flock(q, p, how) ==
    /\ Serving
    /\ node[p] = "file"
    /\ IF NDEBUG
       THEN /\ flocked' = [flocked EXCEPT ![q] =
                             IF how = "LOCK_EX" THEN @ \cup {p} ELSE @ \ {p}]
            /\ reply' = [op |-> "flock", res |-> "ok"]
            /\ UNCHANGED <<node, daemon>>
       ELSE /\ daemon' = "aborted"
            /\ UNCHANGED <<node, flocked, reply>>

Next ==
    \/ ParseArgs \/ MountFails \/ FuseInit \/ Destroy
    \/ Fsyncdir \/ Utimens \/ Bmap \/ Ioctl \/ Poll \/ Fallocate
    \/ \E op \in Optional : Unregistered(op)
    \/ \E p \in Paths :
          \/ Getattr(p) \/ Readlink(p) \/ Mknod(p) \/ Mkdir(p) \/ Symlink(p)
          \/ Unlink(p) \/ Rmdir(p) \/ Chmod(p) \/ Chown(p) \/ Truncate(p)
          \/ Statfs(p) \/ Access(p) \/ Setxattr(p) \/ Getxattr(p)
          \/ Listxattr(p) \/ Removexattr(p) \/ Lock(p)
          \/ \E q \in Paths : Rename(p, q) \/ Link(p, q)
          \/ \E q \in Procs, how \in {"LOCK_EX", "LOCK_UN"} : Flock(q, p, how)

Spec == Init /\ [][Next /\ UNCHANGED <<have, blkdev>>]_vars

-----------------------------------------------------------------------------
(* flock(2) through the mount keeps its contract (efsng_flock's comment:  *)
(* "Perform BSD file locking operation ... see flock(2)"): no two         *)
(* processes are told they hold an exclusive lock on the same file.       *)
FlockExclusive ==
    \A p \in Paths : Cardinality({q \in Procs : p \in flocked[q]}) <= 1

=============================================================================
