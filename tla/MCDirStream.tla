----------------------------- MODULE MCDirStream -----------------------------
(* Model-checking instances of DirStream.  Spec reads the directory        *)
(* sequentially, as ls does; SeekSpec also lets the program move the       *)
(* directory position with rewinddir or seekdir to a telldir cookie, which *)
(* the kernel passes on as the offset of the next readdir request.         *)
EXTENDS DirStream

(* rewinddir(3) / seekdir(3) on the open directory: lseek of its fd *)
UserSeek ==
    /\ opened
    /\ \E c \in Cookie : fpos' = c
    /\ UNCHANGED <<opened, dir, request, reply, leaked>>

SeekSpec == Init /\ [][Next \/ UserSeek]_vars

=============================================================================
