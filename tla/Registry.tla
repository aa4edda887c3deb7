------------------------------ MODULE Registry ------------------------------
(***************************************************************************)
(* The DRAM backend's path -> file registry (src/backends/dram/dram.cpp,   *)
(* dram_backend::load, exists, find; the backend contract in               *)
(* src/backends/backend-base.h).  m_files is an std::unordered_map guarded *)
(* by m_files_mutex in load and exists; find, begin and end read it        *)
(* without the mutex.                                                       *)
(*                                                                         *)
(* A file's contents are abstracted to its size and to a version that an   *)
(* external writer of the backing file bumps; an insertion into the        *)
(* hash map is a window in which the table may be rehashed, and a lookup   *)
(* that reads the table during that window without the mutex is a data    *)
(* race: it may see the table before or after the insert, or walk a bucket *)
(* whose nodes are being relinked and reach its end without the key.       *)
(***************************************************************************)
EXTENDS Naturals, FiniteSets, FiniteSetsExt

CONSTANTS
    Threads,    \* relay threads calling into the backend
    Paths,      \* pathnames that can be loaded
    FileSize,   \* FileSize[p]: the size of p on the backing store
    Capacity,   \* m_capacity, parsed from the backend options
    MaxVersion, \* bound on the backing files' modifications
    NoThread,   \* model value: nobody holds m_files_mutex
    Absent      \* model value: the path is not a key of m_files

ASSUME FileSize \in [Paths -> Nat] /\ Capacity \in Nat

Versions == 0 .. MaxVersion

VARIABLES
    files,      \* files[p]: the version m_files holds for p, or Absent
    disk,       \* disk[p]: the backing file's current version
    mutex,      \* the holder of m_files_mutex
    pc,         \* per-thread program counter
    op,         \* the call a thread is in: "load", "exists", "find" or "iterate"
    path,       \* its pathname argument
    ver,        \* ver[t]: the version a load's populate copied
    res,        \* the answer of a lookup
    returned,   \* history: returned[p], the newest version a returned load(p) copied, or Absent
    atCall      \* history: Loaded when a lookup was called

vars == <<files, disk, mutex, pc, op, path, ver, res, returned, atCall>>

Keys == {p \in Paths : files[p] # Absent}

\* paths some load(p) call has returned for
Loaded == {p \in Paths : returned[p] # Absent}

\* the new keys loads are adding: they hold the mutex inside m_files.insert
\* of a path m_files lacks (an insert of a present key finds it and adds
\* no node, so it relinks nothing)
Inserting == {path[t] : t \in {u \in Threads : pc[u] = "inserting"}} \ Keys

Mutating == Inserting # {}

\* what an unlocked lookup of p answers: the table's answer, and while an
\* insert is relinking nodes also the answer after it, or a miss
RacyLookup(p) ==
    IF Mutating THEN {p \in Keys, p \in Keys \cup Inserting, FALSE}
                ELSE {p \in Keys}

\* bytes the registry's files hold in DRAM
Usage == MapThenSumSet(LAMBDA p : FileSize[p], Keys)

Init ==
    /\ files = [p \in Paths |-> Absent]
    /\ disk = [p \in Paths |-> 0]
    /\ mutex = NoThread
    /\ pc = [t \in Threads |-> "idle"]
    /\ op = [t \in Threads |-> "load"]
    /\ path = [t \in Threads |-> CHOOSE p \in Paths : TRUE]
    /\ ver = [t \in Threads |-> 0]
    /\ res = [t \in Threads |-> FALSE]
    /\ returned = [p \in Paths |-> Absent]
    /\ atCall = [t \in Threads |-> {}]

-----------------------------------------------------------------------------
(* load(pathname): open the file, allocate a mapping of its size, populate *)
(* it and close the file, all before taking the mutex.  m_capacity is not  *)
(* consulted.                                                              *)
Load(t, p) ==
    /\ pc[t] = "idle"
    /\ pc' = [pc EXCEPT ![t] = "populated"]
    /\ op' = [op EXCEPT ![t] = "load"]
    /\ path' = [path EXCEPT ![t] = p]
    /\ ver' = [ver EXCEPT ![t] = disk[p]]
    /\ UNCHANGED <<files, disk, mutex, res, returned, atCall>>

(* std::lock_guard<std::mutex> lock(m_files_mutex) *)
LoadLock(t) ==
    /\ pc[t] = "populated"
    /\ mutex = NoThread
    /\ mutex' = t
    /\ pc' = [pc EXCEPT ![t] = "inserting"]
    /\ UNCHANGED <<files, disk, op, path, ver, res, returned, atCall>>

(* m_files.insert(make_pair(path, make_unique<file>(mp))): a key already   *)
(* present keeps its old file and the new one is destroyed; the guard      *)
(* unlocks on return.                                                      *)
LoadInsert(t) ==
    /\ pc[t] = "inserting"
    /\ files' = IF files[path[t]] = Absent
                THEN [files EXCEPT ![path[t]] = ver[t]]
                ELSE files
    /\ mutex' = NoThread
    /\ pc' = [pc EXCEPT ![t] = "idle"]
    /\ returned' = [returned EXCEPT ![path[t]] =
                       IF @ = Absent \/ @ < ver[t] THEN ver[t] ELSE @]
    /\ UNCHANGED <<disk, op, path, ver, res, atCall>>

(* exists(pathname): lock, m_files.find, unlock, compare with end().  The *)
(* whole call runs under the mutex, so it is one step once the mutex is   *)
(* free.                                                                    *)
Exists(t, p) ==
    /\ pc[t] = "idle"
    /\ mutex = NoThread
    /\ res' = [res EXCEPT ![t] = p \in Keys]
    /\ pc' = [pc EXCEPT ![t] = "done"]
    /\ op' = [op EXCEPT ![t] = "exists"]
    /\ path' = [path EXCEPT ![t] = p]
    /\ atCall' = [atCall EXCEPT ![t] = Loaded]
    /\ UNCHANGED <<files, disk, mutex, ver, returned>>

(* find(path): m_files.find with no lock, racing any insert in progress. *)
Find(t, p) ==
    /\ pc[t] = "idle"
    /\ \E b \in RacyLookup(p) : res' = [res EXCEPT ![t] = b]
    /\ pc' = [pc EXCEPT ![t] = "done"]
    /\ op' = [op EXCEPT ![t] = "find"]
    /\ path' = [path EXCEPT ![t] = p]
    /\ atCall' = [atCall EXCEPT ![t] = Loaded]
    /\ UNCHANGED <<files, disk, mutex, ver, returned>>

(* A walk for p from begin() to end() (or cbegin() to cend()): the        *)
(* iterators come from m_files with no lock, so it races an insert the     *)
(* same way find does.                                                      *)
Iterate(t, p) ==
    /\ pc[t] = "idle"
    /\ \E b \in RacyLookup(p) : res' = [res EXCEPT ![t] = b]
    /\ pc' = [pc EXCEPT ![t] = "done"]
    /\ op' = [op EXCEPT ![t] = "iterate"]
    /\ path' = [path EXCEPT ![t] = p]
    /\ atCall' = [atCall EXCEPT ![t] = Loaded]
    /\ UNCHANGED <<files, disk, mutex, ver, returned>>

(* the caller uses the answer and goes back to the relay *)
Return(t) ==
    /\ pc[t] = "done"
    /\ pc' = [pc EXCEPT ![t] = "idle"]
    /\ UNCHANGED <<files, disk, mutex, op, path, ver, res, returned, atCall>>

(* Another program writes the backing file on the underlying file system. *)
DiskWrite(p) ==
    /\ disk[p] < MaxVersion
    /\ disk' = [disk EXCEPT ![p] = @ + 1]
    /\ UNCHANGED <<files, mutex, pc, op, path, ver, res, returned, atCall>>

Next ==
    \E t \in Threads :
        \/ \E p \in Paths : Load(t, p) \/ Exists(t, p) \/ Find(t, p)
              \/ Iterate(t, p)
        \/ LoadLock(t) \/ LoadInsert(t) \/ Return(t)
    \/ \E p \in Paths : DiskWrite(p)

Spec == Init /\ [][Next]_vars

-----------------------------------------------------------------------------
(* A lookup of kind k answers as if it ran at one instant inside the call: *)
(* "absent" only if no load of the path had returned before the call, and *)
(* "present" only for a path the registry holds or is inserting.           *)
Linearizable(k) ==
    \A t \in Threads : pc[t] = "done" /\ op[t] = k =>
        /\ ~res[t] => path[t] \notin atCall[t]
        /\ res[t] => path[t] \in Keys \cup Inserting

(* find(), and a walk over begin() .. end(), never miss a path whose load  *)
(* had returned before the lookup was called, while another thread loads  *)
(* another path (spec 4.2: lookup is guarded by the registry lock).        *)
FindLinearizable == Linearizable("find") /\ Linearizable("iterate")

(* The files a backend caches never exceed its configured capacity (spec *)
(* 7 and 8, scenario 5: a load beyond capacity fails and the registry is *)
(* left unchanged).                                                       *)
CapacityRespected == Usage <= Capacity

(* A load that has returned leaves the registry holding the backing file  *)
(* as that load read it, or newer (spec 4.2: load reads the source file   *)
(* and inserts a new File under path), also when the path was loaded      *)
(* before and the file has changed since.                                 *)
LoadedIsCurrent ==
    \A p \in Loaded : files[p] # Absent /\ files[p] >= returned[p]

=============================================================================
