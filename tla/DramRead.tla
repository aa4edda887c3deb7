------------------------------ MODULE DramRead ------------------------------
(***************************************************************************)
(* The DRAM tier's read path for ONE cached file (src/backends/dram/       *)
(* dram.cpp, dram_backend::read_prepare) running concurrently with the     *)
(* write-path obligation of spec section 4.4 (the source's write_prepare   *)
(* is a stub; file::add and mapping are declared in headers that are not   *)
(* under src/, so the mutator side is spec-modelled).                      *)
(*                                                                         *)
(* A file is a std::list of mappings.  The list is modelled as `order`, a  *)
(* sequence of mapping ids, and `maps`, the descriptor of each id.  A      *)
(* reader's range-for iterator is the id it stands on, so an insertion     *)
(* before or after it behaves as it does on a linked list.  Buffer data    *)
(* pointers mp_data + delta are file positions offset + delta.             *)
(***************************************************************************)
EXTENDS Integers, Sequences, SequencesExt, FiniteSets

CONSTANTS
    Readers,      \* threads calling read_prepare
    Writers,      \* threads performing the section 4.4 write path
    MaxPos,       \* file positions are 0 .. MaxPos - 1
    MaxMappings,  \* bound on the length of the mapping list
    SizeWrap,     \* 2^w: size_t arithmetic of buf_size is modulo this
    NoThread,     \* model value: a mapping mutex nobody holds
    End           \* model value: the list iterator past the last mapping

ASSUME MaxPos \in Nat \ {0} /\ MaxMappings \in Nat \ {0}
ASSUME SizeWrap > MaxPos

Ids == 1 .. MaxMappings
Pos == 0 .. MaxPos
Mapping == [offset : Pos, size : Pos, bytes : Pos]
Request == [offset : Pos, size : 1 .. MaxPos]   \* the kernel never sends a 0-byte read
Buffer  == [pos : Pos, size : Pos]   \* backend::buffer: m_data as a file position, m_size
Threads == Readers \cup Writers

VARIABLES
    maps,     \* maps[id]: the mapping's offset, size (capacity) and bytes
    order,    \* f.m_mappings: the ids in list order
    owner,    \* owner[id]: the thread holding *mp.m_pmutex, or NoThread
    rpc,      \* reader program counter
    req,      \* req[r]: the (offset, size) of the current read_prepare
    it,       \* it[r]: the mapping the range-for loop stands on, or End
    snaps,    \* snaps[r]: std::list<snapshot> collected so far
    bufmap,   \* bufmap[r]: the buffer_map (bufs and m_size)
    must,     \* history: positions of the window populated when the read began
    wpc,      \* writer program counter
    wid       \* wid[w]: the mapping a writer has locked

vars == <<maps, order, owner, rpc, req, it, snaps, bufmap, must, wpc, wid>>

-----------------------------------------------------------------------------
(* Helpers over the mapping list. *)

Live == {order[i] : i \in 1 .. Len(order)}

IndexOf(id) == CHOOSE i \in 1 .. Len(order) : order[i] = id

\* the iterator's begin() and operator++ on std::list
First(o) == IF o = <<>> THEN End ELSE o[1]
NextOf(o, id) ==
    LET i == CHOOSE k \in 1 .. Len(o) : o[k] = id
    IN  IF i = Len(o) THEN End ELSE o[i + 1]

\* positions [a, a + n)
Span(a, n) == {p \in Pos : a <= p /\ p < a + n}

\* file positions that hold populated bytes in a set of descriptors
Populated(ds) == UNION {Span(d.offset, d.bytes) : d \in ds}

\* file positions a buffer_map hands to the caller
Covered(bm) == UNION {Span(bm.bufs[i].pos, bm.bufs[i].size) : i \in 1 .. Len(bm.bufs)}

EmptyBufMap == [bufs |-> <<>>, m_size |-> 0]

-----------------------------------------------------------------------------
(* mapping::overlaps (spec 4.1): [offset, offset+size) meets the populated *)
(* region [m_offset, m_offset + m_bytes).                                  *)
Overlaps(mp, offset, size) ==
    /\ offset < mp.offset + mp.bytes
    /\ mp.offset < offset + size

(* Mutant: the break test forgets the request size. *)
PastOffset(mp, offset, size) == mp.offset >= offset

(* The read_prepare break test, taken under the mapping's lock. *)
PastWindow(mp, offset, size) == mp.offset >= offset + size

(* Mutant: delta computed as mp_offset - offset (a sign slip). *)
FragmentDeltaSwapped(sn, offset, size) ==
    LET delta == IF offset <= sn.offset THEN 0 ELSE sn.offset - offset
        sz    == IF offset + size <= sn.offset + sn.bytes
                 THEN offset + size - sn.offset - delta
                 ELSE sn.bytes - delta
    IN  [pos |-> sn.offset + delta, size |-> sz % SizeWrap]

(* Mutant: buf_size clipped to the mapping's capacity m_size instead of *)
(* its populated m_bytes.                                                 *)
FragmentUsingSize(sn, offset, size) ==
    LET delta == IF offset <= sn.offset THEN 0 ELSE offset - sn.offset
        sz    == IF offset + size <= sn.offset + sn.size
                 THEN offset + size - sn.offset - delta
                 ELSE sn.size - delta
    IN  [pos |-> sn.offset + delta, size |-> sz % SizeWrap]

(* One buffer built from a snapshot: delta skips the part of the mapping   *)
(* before the request, buf_size clips to the request and to m_bytes, both  *)
(* in size_t arithmetic.                                                   *)
Fragment(sn, offset, size) ==
    LET delta == IF offset <= sn.offset THEN 0 ELSE offset - sn.offset
        sz    == IF offset + size <= sn.offset + sn.bytes
                 THEN offset + size - sn.offset - delta
                 ELSE sn.bytes - delta
    IN  [pos |-> sn.offset + delta, size |-> sz % SizeWrap]

(* buffer_map::emplace_back: append and add to m_size. *)
EmplaceBack(bm, b) == [bufs |-> Append(bm.bufs, b), m_size |-> bm.m_size + b.size]

(* The second loop of read_prepare: buffers from the snapshots, in order. *)
BuildBufferMap(sns, offset, size) ==
    LET step(bm, sn) == EmplaceBack(bm, Fragment(sn, offset, size))
    IN  FoldLeft(step, EmptyBufMap, sns)

-----------------------------------------------------------------------------
(* The file as dram_backend::load leaves it: one mapping of the file's     *)
(* size at offset 0, filled by populate.                                   *)
Init ==
    /\ \E s \in 1 .. MaxPos - 1 :
          maps = [id \in Ids |-> [offset |-> 0, size |-> IF id = 1 THEN s ELSE 0,
                                   bytes |-> IF id = 1 THEN s ELSE 0]]
    /\ order = <<1>>
    /\ owner = [id \in Ids |-> NoThread]
    /\ rpc = [r \in Readers |-> "idle"]
    /\ req = [r \in Readers |-> [offset |-> 0, size |-> 1]]
    /\ it = [r \in Readers |-> End]
    /\ snaps = [r \in Readers |-> <<>>]
    /\ bufmap = [r \in Readers |-> EmptyBufMap]
    /\ must = [r \in Readers |-> {}]
    /\ wpc = [w \in Writers |-> "idle"]
    /\ wid = [w \in Writers |-> 1]

-----------------------------------------------------------------------------
(* read_prepare(file, offset, size, bufmap): the call, with the range-for  *)
(* iterator at begin().                                                    *)
ReadBegin(r) ==
    /\ rpc[r] = "idle"
    /\ \E q \in Request :
          /\ q.offset + q.size <= MaxPos
          /\ req' = [req EXCEPT ![r] = q]
          /\ must' = [must EXCEPT ![r] =
                Span(q.offset, q.size) \cap Populated({maps[id] : id \in Live})]
    /\ rpc' = [rpc EXCEPT ![r] = "scan"]
    /\ it' = [it EXCEPT ![r] = First(order)]
    /\ snaps' = [snaps EXCEPT ![r] = <<>>]
    /\ bufmap' = [bufmap EXCEPT ![r] = EmptyBufMap]
    /\ UNCHANGED <<maps, order, owner, wpc, wid>>

(* std::lock_guard on the mapping's m_pmutex *)
ScanLock(r) ==
    /\ rpc[r] = "scan"
    /\ it[r] # End
    /\ owner[it[r]] = NoThread
    /\ owner' = [owner EXCEPT ![it[r]] = r]
    /\ rpc' = [rpc EXCEPT ![r] = "locked"]
    /\ UNCHANGED <<maps, order, req, it, snaps, bufmap, must, wpc, wid>>

(* Mutant: the break path leaves the mapping locked (a manual unlock     *)
(* instead of the lock_guard, skipped by the break).                      *)
ScanBreakKeepsLock(r) ==
    /\ rpc[r] = "locked"
    /\ PastWindow(maps[it[r]], req[r].offset, req[r].size)
    /\ rpc' = [rpc EXCEPT ![r] = "build"]
    /\ UNCHANGED <<maps, order, owner, req, it, snaps, bufmap, must, wpc, wid>>

(* the mapping starts past the window: break (the guard unlocks) *)
ScanBreak(r) ==
    /\ rpc[r] = "locked"
    /\ PastWindow(maps[it[r]], req[r].offset, req[r].size)
    /\ owner' = [owner EXCEPT ![it[r]] = NoThread]
    /\ rpc' = [rpc EXCEPT ![r] = "build"]
    /\ UNCHANGED <<maps, order, req, it, snaps, bufmap, must, wpc, wid>>

(* snapshot the mapping if it overlaps, unlock, advance the iterator *)
ScanVisit(r) ==
    /\ rpc[r] = "locked"
    /\ ~PastWindow(maps[it[r]], req[r].offset, req[r].size)
    /\ snaps' = [snaps EXCEPT ![r] =
          IF Overlaps(maps[it[r]], req[r].offset, req[r].size)
          THEN Append(@, maps[it[r]]) ELSE @]
    /\ owner' = [owner EXCEPT ![it[r]] = NoThread]
    /\ it' = [it EXCEPT ![r] = NextOf(order, it[r])]
    /\ rpc' = [rpc EXCEPT ![r] = "scan"]
    /\ UNCHANGED <<maps, order, req, bufmap, must, wpc, wid>>

(* the loop ran off the end of the list *)
ScanEnd(r) ==
    /\ rpc[r] = "scan"
    /\ it[r] = End
    /\ rpc' = [rpc EXCEPT ![r] = "build"]
    /\ UNCHANGED <<maps, order, owner, req, it, snaps, bufmap, must, wpc, wid>>

(* lock-free: buffers from the snapshots; the snapshots die on return *)
BuildBuffers(r) ==
    /\ rpc[r] = "build"
    /\ bufmap' = [bufmap EXCEPT ![r] = BuildBufferMap(snaps[r], req[r].offset, req[r].size)]
    /\ snaps' = [snaps EXCEPT ![r] = <<>>]
    /\ rpc' = [rpc EXCEPT ![r] = "done"]
    /\ UNCHANGED <<maps, order, owner, req, it, must, wpc, wid>>

(* the caller consumes the buffer_map, which goes out of scope, and may   *)
(* issue another read                                                      *)
ReadReturn(r) ==
    /\ rpc[r] = "done"
    /\ rpc' = [rpc EXCEPT ![r] = "idle"]
    /\ req' = [req EXCEPT ![r] = [offset |-> 0, size |-> 1]]
    /\ it' = [it EXCEPT ![r] = End]
    /\ bufmap' = [bufmap EXCEPT ![r] = EmptyBufMap]
    /\ must' = [must EXCEPT ![r] = {}]
    /\ UNCHANGED <<maps, order, owner, snaps, wpc, wid>>

-----------------------------------------------------------------------------
(* The write path of spec 4.4 (spec-modelled: write_prepare is a stub).   *)
(* A writer locks a mapping that still has room ...                        *)
WriterLock(w) ==
    /\ wpc[w] = "idle"
    /\ \E id \in Live :
          /\ owner[id] = NoThread
          /\ maps[id].bytes < maps[id].size
          /\ owner' = [owner EXCEPT ![id] = w]
          /\ wid' = [wid EXCEPT ![w] = id]
    /\ wpc' = [wpc EXCEPT ![w] = "locked"]
    /\ UNCHANGED <<maps, order, rpc, req, it, snaps, bufmap, must>>

(* ... copies data in, advancing m_bytes monotonically, and unlocks. *)
WriterCopy(w) ==
    /\ wpc[w] = "locked"
    /\ \E n \in maps[wid[w]].bytes + 1 .. maps[wid[w]].size :
          maps' = [maps EXCEPT ![wid[w]].bytes = n]
    /\ owner' = [owner EXCEPT ![wid[w]] = NoThread]
    /\ wpc' = [wpc EXCEPT ![w] = "idle"]
    /\ wid' = [wid EXCEPT ![w] = 1]
    /\ UNCHANGED <<order, rpc, req, it, snaps, bufmap, must>>

(* Mutant: file::add as push_back, ignoring the offset order. *)
PushBack(o, id, mp) == Append(o, id)

(* file::add: ordered insertion keeping the list sorted by offset. *)
InsertOrdered(o, id, mp) ==
    InsertAt(o, 1 + Cardinality({i \in 1 .. Len(o) : maps[o[i]].offset < mp.offset}), id)

(* A write to a range no mapping backs allocates an empty mapping for the *)
(* gap and inserts it into the list.                                      *)
WriterAllocate(w) ==
    /\ wpc[w] = "idle"
    /\ Len(order) < MaxMappings
    /\ \E off \in Pos, sz \in 1 .. MaxPos :
          LET id == Len(order) + 1
              mp == [offset |-> off, size |-> sz, bytes |-> 0]
          IN  /\ off + sz <= MaxPos
              /\ \A l \in Live : off + sz <= maps[l].offset
                                 \/ maps[l].offset + maps[l].size <= off
              /\ maps' = [maps EXCEPT ![id] = mp]
              /\ order' = InsertOrdered(order, id, mp)
    /\ UNCHANGED <<owner, rpc, req, it, snaps, bufmap, must, wpc, wid>>

-----------------------------------------------------------------------------
Reader(r) ==
    \/ ReadBegin(r) \/ ScanLock(r) \/ ScanBreak(r) \/ ScanVisit(r)
    \/ ScanEnd(r) \/ BuildBuffers(r) \/ ReadReturn(r)

Writer(w) == WriterLock(w) \/ WriterCopy(w) \/ WriterAllocate(w)

Next == (\E r \in Readers : Reader(r)) \/ (\E w \in Writers : Writer(w))

(* Threads are OS threads: a started read keeps running.  std::mutex gives *)
(* no fairness guarantee; we assume a waiter is not starved forever (SF on *)
(* acquisition).  A writer holding a lock finishes its copy.               *)
Fairness ==
    /\ \A r \in Readers :
          /\ SF_vars(ScanLock(r))
          /\ WF_vars(ScanBreak(r) \/ ScanVisit(r) \/ ScanEnd(r) \/ BuildBuffers(r))
    /\ \A w \in Writers : WF_vars(WriterCopy(w))

Spec == Init /\ [][Next]_vars /\ Fairness

-----------------------------------------------------------------------------
TypeOK ==
    /\ maps \in [Ids -> Mapping]
    /\ order \in Seq(Ids) /\ Len(order) <= MaxMappings
    /\ owner \in [Ids -> Threads \cup {NoThread}]
    /\ rpc \in [Readers -> {"idle", "scan", "locked", "build", "done"}]
    /\ req \in [Readers -> Request]
    /\ it \in [Readers -> Ids \cup {End}]
    /\ \A r \in Readers : snaps[r] \in Seq(Mapping)
    /\ \A r \in Readers : bufmap[r].bufs \in Seq(Buffer) /\ bufmap[r].m_size \in Nat
    /\ wpc \in [Writers -> {"idle", "locked"}]
    /\ wid \in [Writers -> Ids]

(* Fragment coverage (spec 8) under concurrent writers: a finished read    *)
(* returns every byte of the window that was populated when the call      *)
(* began, and nothing outside the window or beyond what is populated now. *)
(* This needs the break test, overlaps, the buf_size clipping and the     *)
(* list's offset order to agree, while writers grow m_bytes and insert    *)
(* mappings between the reader's lock/unlock steps.                        *)
ReadCoversWindow ==
    \A r \in Readers : rpc[r] = "done" =>
        /\ must[r] \subseteq Covered(bufmap[r])
        /\ Covered(bufmap[r]) \subseteq
              Span(req[r].offset, req[r].size) \cap Populated({maps[id] : id \in Live})

(* A finished buffer_map lists its fragments in increasing file order and *)
(* disjoint, and its m_size counts each returned byte exactly once, so    *)
(* the caller copies the window's bytes in file order.                    *)
BufferMapOrdered ==
    \A r \in Readers : rpc[r] = "done" =>
        LET bs == bufmap[r].bufs IN
        /\ \A i \in 1 .. Len(bs) - 1 : bs[i].pos + bs[i].size <= bs[i + 1].pos
        /\ bufmap[r].m_size = Cardinality(Covered(bufmap[r]))

(* Every read_prepare that starts scanning returns, whatever the writers  *)
(* and the other readers do with the mapping locks.                        *)
ReadCompletes == \A r \in Readers : rpc[r] = "scan" ~> rpc[r] = "done"

=============================================================================
