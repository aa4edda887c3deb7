----------------------------- MODULE FileHandles -----------------------------
(***************************************************************************)
(* The relay's per-handle file state (src/efs-ng.cpp: efsng_open,          *)
(* efsng_create, efsng_read, efsng_write, efsng_read_buf, efsng_write_buf, *)
(* efsng_fsync, efsng_ftruncate, efsng_fgetattr, efsng_flush,              *)
(* efsng_release; the record of src/metadata.h).                           *)
(*                                                                         *)
(* A kernel file handle is one of Handles; while the kernel holds it,      *)
(* file_info->fh names the heap File record its open created, which        *)
(* caches the OS file descriptor.  The process descriptor table maps each  *)
(* of the Fds (1 .. FdLimit, RLIMIT_NOFILE) to the open file description   *)
(* it refers to, named by the handle whose open created it, or Free.       *)
(* open(2) and dup(2) take the lowest free descriptor; close(2) frees its  *)
(* descriptor even when it reports an error (Linux).  Worker threads run   *)
(* handlers concurrently; the kernel sends release for a handle only after *)
(* every other request on it has been answered.                            *)
(***************************************************************************)
EXTENDS Naturals, FiniteSets, FiniteSetsExt

CONSTANTS
    Threads,   \* FUSE worker threads
    Handles,   \* kernel file handles (the File records they point to)
    FdLimit,   \* the process's descriptor limit
    Free,      \* model value: an unused descriptor
    NoFd,      \* model value: no descriptor (-1)
    NoIo       \* model value: a thread has done no I/O yet

Fds == 1 .. FdLimit

VARIABLES
    held,      \* held[h]: the kernel holds h from a successful open/create
    rec,       \* rec[h]: the fd in h's File record
    leaked,    \* handles whose File record was never deleted
    fdtab,     \* fdtab[fd]: the open file description fd refers to
    tpc,       \* tpc[t]: "idle", or "dup" between flush's dup and close
    th,        \* th[t]: the handle a flush is on
    tfd,       \* tfd[t]: what flush's dup returned
    last       \* last[t]: the handle and file of t's last descriptor I/O

vars == <<held, rec, leaked, fdtab, tpc, th, tfd, last>>

FreeFds == {fd \in Fds : fdtab[fd] = Free}

\* the descriptor open(2) and dup(2) return: the lowest free one
LowestFree == Min(FreeFds)

Init ==
    /\ held = [h \in Handles |-> FALSE]
    /\ rec = [h \in Handles |-> NoFd]
    /\ leaked = {}
    /\ fdtab = [fd \in Fds |-> Free]
    /\ tpc = [t \in Threads |-> "idle"]
    /\ th = [t \in Threads |-> CHOOSE h \in Handles : TRUE]
    /\ tfd = [t \in Threads |-> NoFd]
    /\ last = [t \in Threads |-> NoIo]

-----------------------------------------------------------------------------
(* open(pathname, flags[, mode]); on -1 return -errno with nothing made;   *)
(* else fstat and new File(inode, fd, flags) into file_info->fh.  Without  *)
(* a free descriptor open fails (EMFILE); other open errors change nothing *)
(* either, so only success is a step.                                      *)
OpenRecord(h) ==
    /\ ~held[h]
    /\ FreeFds # {}
    /\ fdtab' = [fdtab EXCEPT ![LowestFree] = h]
    /\ rec' = [rec EXCEPT ![h] = LowestFree]
    /\ held' = [held EXCEPT ![h] = TRUE]
    /\ UNCHANGED <<leaked, tpc, th, tfd, last>>

Open(t, h) == tpc[t] = "idle" /\ OpenRecord(h)

Create(t, h) == tpc[t] = "idle" /\ OpenRecord(h)

(* A handler that reads fd = file_record->get_fd() and passes it to one    *)
(* system call (pread, pwrite, fsync, ftruncate, fstat) or to libfuse in a *)
(* fuse_bufvec (read_buf, write_buf).  The call's own result is returned   *)
(* to the kernel; what matters is which file it reached.                   *)
UseFd(t, h) ==
    /\ tpc[t] = "idle"
    /\ held[h]
    /\ last' = [last EXCEPT ![t] = [h |-> h, file |-> fdtab[rec[h]]]]
    /\ UNCHANGED <<held, rec, leaked, fdtab, tpc, th, tfd>>

Read(t, h) == UseFd(t, h)
Write(t, h) == UseFd(t, h)
ReadBuf(t, h) == UseFd(t, h)
WriteBuf(t, h) == UseFd(t, h)
Fsync(t, h) == UseFd(t, h)
Ftruncate(t, h) == UseFd(t, h)
Fgetattr(t, h) == UseFd(t, h)

(* Mutant: flush closes the record's descriptor itself. *)
FlushCloseFd(t, h) ==
    /\ tpc[t] = "idle"
    /\ held[h]
    /\ tpc' = [tpc EXCEPT ![t] = "dup"]
    /\ th' = [th EXCEPT ![t] = h]
    /\ tfd' = [tfd EXCEPT ![t] = rec[h]]
    /\ UNCHANGED <<held, rec, leaked, fdtab, last>>

(* efsng_flush, first half: dup(fd).  At the descriptor limit dup fails   *)
(* and returns -1.                                                         *)
FlushDup(t, h) ==
    /\ tpc[t] = "idle"
    /\ held[h]
    /\ tpc' = [tpc EXCEPT ![t] = "dup"]
    /\ th' = [th EXCEPT ![t] = h]
    /\ IF FreeFds # {}
       THEN /\ fdtab' = [fdtab EXCEPT ![LowestFree] = fdtab[rec[h]]]
            /\ tfd' = [tfd EXCEPT ![t] = LowestFree]
       ELSE /\ tfd' = [tfd EXCEPT ![t] = NoFd]
            /\ UNCHANGED fdtab
    /\ UNCHANGED <<held, rec, leaked, last>>

(* efsng_flush, second half: close of what dup returned; close(-1) fails  *)
(* with EBADF and closes nothing.                                          *)
FlushClose(t) ==
    /\ tpc[t] = "dup"
    /\ fdtab' = IF tfd[t] = NoFd THEN fdtab ELSE [fdtab EXCEPT ![tfd[t]] = Free]
    /\ tpc' = [tpc EXCEPT ![t] = "idle"]
    /\ tfd' = [tfd EXCEPT ![t] = NoFd]
    /\ UNCHANGED <<held, rec, leaked, th, last>>

(* efsng_release: close(fd); if it reports -1, return -errno before       *)
(* delete file_record.  The kernel ignores the result and forgets the     *)
(* handle either way.                                                      *)
Release(t, h) ==
    /\ tpc[t] = "idle"
    /\ held[h]
    /\ \A u \in Threads : tpc[u] = "dup" => th[u] # h
    /\ fdtab' = [fdtab EXCEPT ![rec[h]] = Free]
    /\ held' = [held EXCEPT ![h] = FALSE]
    /\ \E closeFails \in BOOLEAN :
          /\ leaked' = IF closeFails THEN leaked \cup {h} ELSE leaked
          /\ rec' = [rec EXCEPT ![h] = NoFd]
    /\ UNCHANGED <<tpc, th, tfd, last>>

Next ==
    \E t \in Threads :
        \/ FlushClose(t)
        \/ \E h \in Handles :
              \/ Open(t, h) \/ Create(t, h)
              \/ Read(t, h) \/ Write(t, h) \/ ReadBuf(t, h) \/ WriteBuf(t, h)
              \/ Fsync(t, h) \/ Ftruncate(t, h) \/ Fgetattr(t, h)
              \/ FlushDup(t, h) \/ Release(t, h)

Spec == Init /\ [][Next]_vars

-----------------------------------------------------------------------------
(* Every descriptor I/O a handler performs on a handle reaches the file    *)
(* that handle's open opened, through flushes (which must not really      *)
(* close the file), releases and re-opens that recycle descriptors.        *)
IoReachesOwnFile ==
    \A t \in Threads : last[t] # NoIo => last[t].file = last[t].h

(* Release frees the handle's File record (spec 9: the records created on *)
(* open are freed on release): no record outlives its handle.             *)
RecordsFreedOnRelease == leaked = {}

=============================================================================
