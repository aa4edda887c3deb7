------------------------------ MODULE DirStream ------------------------------
(***************************************************************************)
(* The relay's directory handlers (src/efs-ng.cpp: efsng_opendir,          *)
(* efsng_readdir, efsng_releasedir) for one open directory handle, driven  *)
(* by the kernel's readdir requests.                                       *)
(*                                                                         *)
(* The directory holds entries 1 .. NumEntries.  The DIR stream position   *)
(* is the number of entries readdir(3) has consumed; telldir returns it    *)
(* and seekdir restores it, so a cookie is a position.  The Directory      *)
(* record caches one entry read but not yet delivered (`entry`, NoEntry    *)
(* for NULL) and the offset it believes the stream is at.  The kernel      *)
(* asks for entries from its file position with room for `cap` of them;   *)
(* the filler refuses the entry that does not fit.  The kernel serialises  *)
(* readdir calls on one open directory, so a call is one step.             *)
(***************************************************************************)
EXTENDS Naturals, Sequences

CONSTANTS
    NumEntries,   \* entries in the directory
    MaxCap        \* the most entries one reply buffer holds

ASSUME NumEntries \in Nat /\ MaxCap \in Nat \ {0}

NoEntry == 0
Entries == 1 .. NumEntries
Cookie  == 0 .. NumEntries
Dirent  == [name : Entries, off : Cookie]   \* filler(buf, d_name, &st, next_offset)

VARIABLES
    opened,   \* the kernel holds a handle from efsng_opendir
    dir,      \* the Directory record: stream position, cached entry, offset
    fpos,     \* the kernel's file position on the open directory
    request,  \* the last readdir request: offset and room
    reply,    \* the entries the last readdir call filled
    leaked    \* some Directory record was never deleted

vars == <<opened, dir, fpos, request, reply, leaked>>

ClosedDir == [pos |-> 0, entry |-> NoEntry, offset |-> 0]

-----------------------------------------------------------------------------
(* Mutant: on a changed offset, drop the cached entry without seekdir. *)
ResetWithoutSeek(d, offset) ==
    IF offset # d.offset THEN [d EXCEPT !.entry = NoEntry, !.offset = offset] ELSE d

(* if(offset != dir_record->get_offset()): seekdir, forget the cached     *)
(* entry, remember the offset.                                             *)
SeekIfMoved(d, offset) ==
    IF offset # d.offset
    THEN [pos |-> offset, entry |-> NoEntry, offset |-> offset]
    ELSE d

(* Mutant: the end of the stream tested one entry too late. *)
ReadEntryPastEnd(d) ==
    IF d.entry # NoEntry THEN d
    ELSE IF d.pos > NumEntries THEN d
    ELSE [d EXCEPT !.pos = d.pos + 1, !.entry = d.pos + 1]

(* if(dir_record->get_entry() == NULL) entry = readdir(dp): keep the       *)
(* cached entry, or read the next one, NULL (NoEntry) at the end.          *)
ReadEntry(d) ==
    IF d.entry # NoEntry THEN d
    ELSE IF d.pos = NumEntries THEN d
    ELSE [d EXCEPT !.pos = d.pos + 1, !.entry = d.pos + 1]

(* The while(true) loop: read an entry if none is cached (stop at the end *)
(* of the stream), offer it with telldir as its next offset, stop if the  *)
(* buffer is full (keeping the entry cached), else forget it and set the  *)
(* record's offset to 0.  Returns the record and the filled entries.      *)
RECURSIVE FillLoop(_, _, _)
FillLoop(d, cap, out) ==
    LET rd == ReadEntry(d)
    IN  IF rd.entry = NoEntry THEN [dir |-> rd, out |-> out]
        ELSE IF Len(out) = cap THEN [dir |-> rd, out |-> out]
        ELSE FillLoop([rd EXCEPT !.entry = NoEntry, !.offset = 0], cap,
                      Append(out, [name |-> rd.entry, off |-> rd.pos]))

(* efsng_readdir(pathname, buf, filler, offset, file_info) *)
ReaddirResult(d, offset, cap) == FillLoop(SeekIfMoved(d, offset), cap, <<>>)

-----------------------------------------------------------------------------
Init ==
    /\ opened = FALSE
    /\ dir = ClosedDir
    /\ fpos = 0
    /\ request = [offset |-> 0, cap |-> 0]   \* cap 0: no request yet
    /\ reply = <<>>
    /\ leaked = FALSE

(* efsng_opendir: opendir(3) and a new Directory(dp, NULL, 0).  When     *)
(* opendir returns NULL the handler returns -errno having made nothing,   *)
(* so only success is a step.                                              *)
OpenDir ==
    /\ ~opened
    /\ opened' = TRUE
    /\ dir' = [pos |-> 0, entry |-> NoEntry, offset |-> 0]
    /\ fpos' = 0
    /\ UNCHANGED <<request, reply, leaked>>

(* The kernel reads on from its position; it moves to the offset of the   *)
(* last entry it was given.                                                *)
Readdir ==
    /\ opened
    /\ \E cap \in 1 .. MaxCap :
          LET r == ReaddirResult(dir, fpos, cap)
          IN  /\ dir' = r.dir
              /\ reply' = r.out
              /\ request' = [offset |-> fpos, cap |-> cap]
              /\ fpos' = IF r.out = <<>> THEN fpos ELSE r.out[Len(r.out)].off
    /\ UNCHANGED <<opened, leaked>>

(* efsng_releasedir: closedir(3); on -1 return -errno before delete        *)
(* dir_record.  The kernel forgets the handle either way, and closedir     *)
(* frees the DIR stream either way (glibc), so the record is leaked.       *)
ReleaseDir ==
    /\ opened
    /\ opened' = FALSE
    /\ dir' = ClosedDir
    /\ \E closeFails \in BOOLEAN : leaked' = (leaked \/ closeFails)
    /\ UNCHANGED <<fpos, request, reply>>

Next == OpenDir \/ Readdir \/ ReleaseDir

Spec == Init /\ [][Next]_vars

-----------------------------------------------------------------------------
(* What a reply to (offset, cap) must hold: the entries after position    *)
(* `offset`, in order, as many as fit, each with the cookie that resumes  *)
(* after it.                                                               *)
Expected(offset, cap) ==
    [i \in 1 .. (IF NumEntries - offset < cap THEN NumEntries - offset ELSE cap)
       |-> [name |-> offset + i, off |-> offset + i]]

TypeOK ==
    /\ opened \in BOOLEAN
    /\ dir \in [pos : Cookie, entry : {NoEntry} \cup Entries, offset : Cookie]
    /\ fpos \in Cookie
    /\ request \in [offset : Cookie, cap : 0 .. MaxCap]
    /\ reply \in Seq(Dirent)
    /\ leaked \in BOOLEAN

(* Every readdir reply lists exactly the entries that follow the          *)
(* requested offset, none lost or repeated, across calls that split the   *)
(* directory over several buffers (the cached entry and the record's      *)
(* offset carry state from one call to the next).                          *)
ReaddirReplyCorrect ==
    request.cap > 0 => reply = Expected(request.offset, request.cap)

=============================================================================
