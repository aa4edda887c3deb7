# TLA+ models of echofs

This directory holds TLA+ models of the echofs code under `src/src/`, together with the
TLC configurations that check them. echofs is a FUSE relay file system (`efs-ng.cpp`)
that can keep selected files in a DRAM backend (`backends/dram/`). Each module models
one component. An `MC*` module and a `.cfg` file instantiate it for TLC.
`PROJECT.json` records the components, the runs, the mutants, the map from each
definition to the lines of code it translates, the findings, and the hazards.

## The system

| Part | Source | State | Operations |
|---|---|---|---|
| Relay file handlers | `efs-ng.cpp` 219-414, 620-697, 829-880 | a heap `File_record` (`metadata.h`) per open handle holding an OS fd | open, create, read, write, read_buf, write_buf, flush, release, fsync, ftruncate, fgetattr |
| Relay directory handlers | `efs-ng.cpp` 473-556 | a heap `Directory` record: `DIR*`, a cached `dirent*`, an offset | opendir, readdir, releasedir |
| Relay path operations | `efs-ng.cpp` 80-206, 303-312, 418-463, 563-610, 722-926 | none of their own: each forwards one system call on the backing directory | getattr, readlink, mknod, mkdir, unlink, rmdir, symlink, rename, link, chmod, chown, truncate, statfs, access, xattrs, lock; fsyncdir, utimens, bmap, ioctl, poll, flock, fallocate (bodies `assert(false)`); init, destroy |
| Operation table | `efs-ng.cpp` `main` 951-1018 | the `fuse_operations` members set before `fuse_main`, some under `HAVE_*` | decides which requests reach a handler |
| DRAM backend registry | `dram.cpp` 45-107, 218-236 | `m_files` (an `unordered_map`) under `m_files_mutex`, and `m_capacity` | load, exists, find, begin/end |
| DRAM read path | `dram.cpp` 110-193, `backend-base.h` 58-89, `file.h` | the per-file sorted `std::list<mapping>`. Each mapping has `m_offset`, `m_size`, `m_bytes`, and a mutex | read_prepare, which builds a `buffer_map` |
| DRAM write path | `dram.cpp` 202-216 | the same mappings | write_prepare, write_finalize: stubs that do nothing |
| Range locks | `file.h` 57-58 | none | lock_range, unlock_range: empty stubs with no caller |
| Control-channel framing | `api/message.h` | header and body byte buffers | encode_response, decode_header, decode_body, clear, htonll/ntohll |

How the parts interact:

- FUSE calls the relay handlers from several threads.
- The relay's data handlers go to the OS, not to the backend. The backend is exercised through its API: `load` populates a mapping of a whole file, and `read_prepare` turns a byte window into a `buffer_map` of fragments.
- `read_prepare` reads the mapping list without the list lock, which `mapping.h` does not provide. It takes each mapping's mutex only long enough to test it and take a snapshot of it. It then builds fragments from the snapshots with no lock held.
- The write path of spec section 4.4 is meant to grow `m_bytes` and insert new mappings concurrently with reads. `mapping.h`, `snapshot.h` and `file::add` are not under `src/`, and the write path in `dram.cpp` is a stub. That behaviour is therefore modelled from spec.md and marked `spec_modelled` in the map.

## Modules

### `DramRead` — the DRAM read path (`dram.cpp` `read_prepare`)

**State.** The module models one file:

- `maps`, `order`: the mapping list in list order.
- `owner`: the holder of each mapping's mutex.
- Per reader:
  - `rpc`: its position in `read_prepare`;
  - `req`: its window;
  - `it`: its loop iterator;
  - `snaps`: the snapshots taken so far;
  - `bufmap`: the `buffer_map` being built;
  - `must`: a history of the bytes that were populated when the call began.
- Per writer: `wpc` and `wid`.

**Reader actions.** Each reader action is one stretch of `read_prepare` between synchronisation points:

- `ReadBegin`: the call.
- `ScanLock`: `lock_guard` on the mapping.
- `ScanBreak`: the `offset+size <= m_offset` early exit, which releases the lock.
- `ScanVisit`: the overlap test and the snapshot, then unlock and advance.
- `ScanEnd`: the end of the list.
- `BuildBuffers`: the whole lock-free loop over snapshots, with `size_t` arithmetic kept as `% SizeWrap`.
- `ReadReturn`: the return.

**Writer actions.** The writer actions (spec §4.4) lock a mapping and grow its populated prefix (`WriterLock`, `WriterCopy`). They also allocate a new mapping in a gap and insert it in offset order (`WriterAllocate`, `InsertOrdered`).

**Properties.**

- `ReadCoversWindow`: a finished `buffer_map` covers every byte of the window that was populated when the call began. It covers nothing outside the window and nothing unpopulated.
- `BufferMapOrdered`: fragments are in file order and disjoint, and `m_size` counts each byte once.
- `ReadCompletes`: every scan returns.

### `Registry` — the DRAM backend's file registry (`dram.cpp` load, exists, find, begin/end)

**State.**

- `files`: for each path, the version of the backing file that the registered copy holds, or `Absent`.
- `disk`: the current version of each backing file. `DiskWrite` is a write to a backing file by another process, bounded by `MaxVersion`.
- `ver`: the version each thread's populate step copied.
- `mutex`: the holder of `m_files_mutex`.
- Per thread: `pc`, `op`, `path` and `res`.
- History variables: `returned` (for each path, the newest version a returned load copied) and `atCall` (the loaded paths at each lookup's call).

**Actions.**

- `load` is split into three steps: populate, lock, then insert-and-unlock. The populate step (`Load`) opens, allocates, copies and closes without the lock. `LoadInsert` is `m_files.insert`, which leaves an existing key's value alone.
- `Exists` runs under the mutex.
- `Find` takes no lock. `Inserting` is the set of new keys that loads are adding inside `m_files.insert`; an insert of a key already present adds no node and relinks nothing. While `Inserting` is not empty, `RacyLookup` lets an unlocked lookup see the table before the insert or after it, or miss: a walk of a bucket whose nodes are being relinked can reach its end without the key. No other outcome of the data race is modelled: answering "present" for a key that is neither held nor being inserted would need a node that was never allocated.
- `Iterate` is a walk for a path from `begin()` to `end()` (or `cbegin()` to `cend()`). Those iterators are also taken without the lock, so the walk races an insertion the same way.

**Properties.**

- `FindLinearizable`: a lookup answers as at one instant inside the call. It answers "absent" only for a path no load had returned before the call. It answers "present" only for a path the registry holds or is inserting. It covers both `find` and the iterator walk. `exists` is not given a property of its own: it is one step under the mutex, and no key is ever removed, so it is linearizable by construction.
- `CapacityRespected`: registered files fit `m_capacity`.
- `LoadedIsCurrent`: after a load returns, the registry holds the backing file as that load read it, or a newer copy.

### `DirStream` — the directory handlers (`efs-ng.cpp` 473-556)

**State.** One open directory handle:

- `dir`: the `Directory` record, holding the stream position, the cached entry, and the offset.
- `fpos`: the kernel's file position.
- `request` and `reply`: the last call and what it filled.
- `leaked`: whether some `Directory` record was never deleted.

**Actions.**

- `Readdir` is one step, because the kernel serialises readdir on a handle.
- `SeekIfMoved` is the `seekdir` branch.
- `FillLoop` is the `while(true)` loop as a recursive operator. Each element it adds corresponds to one `filler` call. A full buffer stops the loop and keeps the entry cached, and every delivered entry resets the record's offset to 0, as at line 536.
- `ReleaseDir` may meet a failing `closedir`. It then returns `-errno` before `delete`, and the record leaks. A failed `opendir` makes nothing and is not a step.
- Each open directory has its own record and `DIR` stream, so handles share nothing and one handle is enough.
- `Expected` is the reference definition of a correct reply.

**Property.** `ReaddirReplyCorrect`: each reply is exactly `Expected`.

`MCDirStream` adds `UserSeek`: the program's `rewinddir`/`seekdir`, which sets the kernel's position to a cookie it was given earlier.

### `FileHandles` — the relay's file handlers (`efs-ng.cpp` open ... release)

**State.**

- `held`: the kernel's handles.
- `rec`: the fd in each handle's `File_record`.
- `leaked`: records that were never deleted.
- `fdtab`: the process descriptor table, mapping each descriptor to the open file it refers to.
- Per thread: `tpc`, `th` and `tfd`, for a flush between its `dup` and its `close`.
- `last`: the handle and file of each thread's last I/O.

**Actions.**

- `Open` and `Create` take the lowest free descriptor. Both share `OpenRecord`.
- `Read`, `Write`, `ReadBuf`, `WriteBuf`, `Fsync`, `Ftruncate` and `Fgetattr` each pass the record's fd to one call. They are modelled by which file the call reaches.
- `FlushDup` and `FlushClose` are the two halves of `close(dup(fd))`. At the limit, `dup` fails.
- `Release` closes the descriptor. Linux frees it even when `close` reports an error. On that error, the record is leaked.

**Properties.**

- `IoReachesOwnFile`: every I/O reaches the file that its handle opened, through flushes, releases and re-opens that recycle descriptor numbers. It does not state return codes, so the `EBADF` that flush reports when `dup` fails at the limit is not checked.
- `RecordsFreedOnRelease`: no File record outlives its handle.

### `Relay` — path operations and the operation table (`efs-ng.cpp`)

**State.**

- `node`: the kind of node at each path of the backing directory.
- `daemon`: parsing, exited, starting, mounted, unmounted or aborted.
- `flocked`: the files on which each process's `flock(LOCK_EX)` reported success.
- `reply`: the last answer.
- `have`, `blkdev`: the `HAVE_*` macros of the build and the blkdev mount option. Both are chosen in `Init` and never change.

`NDEBUG` is a constant.

**Actions.**

- `ParseArgs` is `main`'s argument check. It prints the usage and exits, or goes on to `fuse_main`; `process_args` is outside `src/`.
- `MountFails` is `fuse_main` returning without mounting. `main` then prints the result and returns 0.
- Every path handler is one atomic step whose reply is its system call's errno case (`Getattr`, `Readlink`, `Mknod`/`Mkdir`/`Symlink` via `MakeNode`, `Unlink`, `Rmdir`, `Rename`, `Link`, `Chmod`/`Truncate`/`Statfs`/`Access` via `FollowCall`, `Chown` and the xattr handlers, `Lock`).
- `OpTable` is the set of members `main` fills; `Unregistered` is libfuse's ENOSYS for an optional member left NULL.
- `Fsyncdir`, `Utimens`, `Bmap`, `Ioctl`, `Poll` and `Fallocate` are `AssertFalse`. It aborts the daemon unless `NDEBUG`, and otherwise returns 0 having done nothing.
- `Flock` is the same for BSD locks, with the process told it holds the lock.

Contents, modes, times and xattr values are abstracted away. A symlink's target is arbitrary, so a call that follows one may meet any of its errors.

`ParseArgs` leads to `starting`; only from there does `fuse_main` either call `efsng_init` (`FuseInit`, the daemon serves) or fail (`MountFails`).

**Property.** `FlockExclusive`: no two processes are told they hold `LOCK_EX` on one file.

A debug build's `assert(false)` handlers abort the daemon (`daemon = "aborted"`). That is modelled, but not checked as a fault: the source says the asserts are there to make sure nobody misses that the handler is used.

### `ByteOrder` — `htonll`, `ntohll` and the header layout (`message.h`)

A byte is scaled to `Radix` values. `htonl` is the C library's. `Htonll` and `Ntohll` transcribe the source's expressions.

- `EncodeLength` is what `encode_response` leaves in `m_header`.
- `DecodeLength` is what `decode_header` reads back.

`MCMessage` checks both over every length, on the byte order of the session's host, against the big-endian reference of spec §6 (`HeaderIsNetworkOrder`, `HeaderLengthDecodes`).

### `Message` — one `api::message` object across frames

**State.** The message's own fields, plus the session's `phase`, the length the peer `sent`, the bytes the last read `got`, and `hostBig`.

**Actions.**

- `DecodeHeader`, `DecodeBody`, `EncodeResponse` and `Clear` are the methods. `ExpectedLength` and `Length` are `expected_length(part)` and `length(part)`.
- `ReadHeader` and `ReadBody` are reads into `buffer(part)`, which transfer as many bytes as the vector holds.
- `Send` and `Reconnect` belong to the server session, which is not under `src/`. They are modelled from spec §6.

**Properties.**

- `HeaderLengthMatchesFrame`: the body length acted on is the one the peer framed.
- `ResponseFramed`: a response about to be sent has `length(body)` equal to the serialised body, and `length(header)` equal to 8. Its header bytes decode to `length(body)` on a peer of either byte order. The message object is reused, so this catches a length left over from an earlier exchange.
- `WellFormedFramesDecode`: well-formed frames are never rejected, also after `clear()`.

## Runs

| Run | Config | Expect | Shows |
|---|---|---|---|
| dram_read | `MCDramRead.cfg` | pass | Two readers and a writer, file of 3 bytes, up to 3 mappings: every buffer_map is correct, whatever the interleaving of scan, snapshot and write, and every read returns under the fairness below. (~307k states, about 3.5 minutes) |
| registry_find_race | `MCRegistryFind.cfg` | violation | t1 loads p1 and returns, then starts inserting p2; t2's `find(p1)`, racing that insert, misses p1. |
| registry_reload | `MCRegistryReload.cfg` | violation | Load p, the backing file changes, load p again: the second load returns but the registry keeps the first copy. |
| registry_capacity | `MCRegistryCapacity.cfg` | violation | Two loads (sizes 2 and 3) put 5 bytes in DRAM under a capacity of 4, because load never reads `m_capacity`. |
| readdir_sequential | `MCDirStream.cfg` | pass | 6 entries, buffers of 1-4 entries: sequential reads return every entry once, in order, across reopen. |
| readdir_rewind | `MCDirStreamSeek.cfg` | violation | After a partial read, rewinding to offset 0 returns entry 2 first. |
| file_handles | `MCFileHandles.cfg` | pass | 2 threads, 3 handles, 3 descriptors (so `dup` can fail and descriptors are reused): I/O always reaches its own file. (~159k states) |
| message_frames | `MCMessage.cfg` | pass | Bodies of 0-3 bytes, bytes in base 2, both host orders, any sequence of frames, responses and `clear()`: the expected length is always the framed one, and every response is framed by its own length. Over all 2^8 lengths, the header is big-endian and decodes to its length. |
| relay_flock_release | `MCRelayFlock.cfg` | violation | Release build: two processes both get `LOCK_EX` on one file. |
| message_clear | `MCMessageClear.cfg` | violation | `clear()`, then the next header read transfers 0 bytes and `decode_header` rejects a well-formed frame. |

### Further configurations

This configuration is kept beside the runs above and is checked by hand with `tlc`:

| Config | Module | Result |
|---|---|---|
| `MCFileHandlesLeak.cfg` | `FileHandles` | `RecordsFreedOnRelease` is violated: a `close` failure in release leaks the File record. |

### Bounds

- **DramRead.** `MaxPos = 3` bytes and three mappings are enough for the cases that matter:
  - a mapping that begins before the window, one inside it, and one past it (which exercises the break);
  - a new mapping inserted between two others during a scan;
  - a mapping that grows after its snapshot.
- **Liveness in DramRead.** The same three mappings serve liveness: the hazard is a mutex left held on the break path, which needs only one mapping past the window.
- **Registry.** Two threads and two paths are enough for an insert to race a lookup, and for the sizes to exceed the capacity. With three threads the state space passes 17 million states without finishing in 6 minutes. A third thread adds no new kind of race: every lookup already meets an insert in progress.
- **DirStream.** Six entries and buffers of up to 4 entries give both full and partial buffers, and a read that ends at the end of the directory.

- **FileHandles.** Three handles and three descriptors let all descriptors be in use, so `dup` fails. A released descriptor can also be reused by another handle while a third handle stays open. Two threads already let a flush's `dup`/`close` straddle another thread's open, I/O or release. A third thread (2.6 million states and not finished in 6 minutes) adds no new pair.
- **ByteOrder.** With base-2 bytes the 2^8 lengths already include values whose two halves differ and whose halves are not palindromes. A swap of the halves, or of the bytes within a half, therefore changes the result; the mutants confirm it.
- **Relay.** Two paths give every pair of kinds for rename and link. Two processes are enough for two holders of one flock.

### Fairness

`ReadCompletes` assumes strong fairness of acquiring a mapping's `std::mutex`. The standard library does not promise this. It is a scheduling assumption, needed because a writer can keep re-taking the lock. It also assumes weak fairness of every lock-free step of a reader, and of the writer's release step. No other action is fair: loads, reads and writes are issued by clients that may stop. The relay and message runs check safety only. Their violation cfgs turn deadlock checking off, because after unmount or an abort the daemon has exited and nothing follows.

## Findings

1. `dram_backend::find` (and `begin`/`end`) read `m_files` without `m_files_mutex`. spec.md §4.2 says lookups are guarded. TLC's shortest trace: t1's `load(p1)` returns, t1 starts inserting p2, and t2's `find(p1)` during that insert misses p1 (registry_find_race).
2. `dram_backend::load` populates a new copy and then calls `m_files.insert`, which does nothing for a path already present. A reload after the backing file changed returns normally and keeps the stale copy (registry_reload).
3. `efsng_readdir` resets the record offset to 0 after each entry (line 536). A later request at offset 0, from `rewinddir` or `seekdir(0)`, then skips the `seekdir`. The reply starts from the stale stream position (readdir_rewind).
4. Under `NDEBUG` the `assert(false)` handlers return 0 having done nothing. Because `flock` is registered, the kernel no longer keeps BSD locks locally, so `flock` locks nothing at all (relay_flock_release).
5. `load` ignores `m_capacity` (spec §7/§8, scenario 5): two loads exceed it (registry_capacity).
6. `message::clear()` (line 124) empties the header vector, so the next header read transfers nothing and `decode_header` rejects a well-formed frame (message_clear). The session that calls `clear()` is not under `src/`; it is modelled from spec §6.
7. Found with the further configuration: `efsng_release` (line 372) returns before `delete` when `close` fails, and so does `efsng_releasedir` (line 550), leaking the record.

## Not modelled, and why

- **The bodies of `process_args` and `usage`, and the backend factory (`create_from_options`, `parse_size`, `name_to_type`).** They are declared, not defined, under `src/`. Nothing under `src/` calls the factory, and `main` never builds a backend. `ParseArgs` takes the argument check's verdict as either outcome.
- **The NVRAM backend.** It is not in the source.
- **`unload`.** It is declared in `backend-base.h` but is not implemented by the DRAM backend.
- **A link-level race in `read_prepare`'s unlocked `std::list` walk (`dram.cpp` 117).** Nothing modifies `m_mappings` after the `dram::file` constructor today, because the write path is a stub. `DramRead` inserts mappings atomically, as spec §4.4's obligation; the race becomes real only once `file::add` is implemented.
- **`decode_header`'s unbounded `resize` (`message.h` 156).** A length above `max_size()` throws. What happens next depends on the session, which is not under `src/`.
- **`read_finalize`, `write_prepare`, `write_finalize` (`dram.cpp` 195-215) and `dram::file::get_size`/`stat` (`file.h` 54-55).** They are empty stubs. Nothing under `src/` calls them, so there is no step to model. `DramRead`'s writer is the spec §4.4 obligation instead.
- **Range locks (`file.h` 57-58).** `dram::file::lock_range` and `unlock_range` have empty bodies, and nothing under `src/` calls them. With no state and no caller there is nothing to check. `lock_range` also has no `return` statement, which is undefined behaviour once something calls it; the compiler's `-Wreturn-type` warning reports it.
- **`name()` and `capacity()`.** They return constants, and `Registry` uses `Capacity` directly.
- **`efsng_mkdir`'s `!mode & S_IFDIR`.** It is always 0, and `mkdir(2)` ignores the type bits, so it has no effect.

## Plan

1. Done: `DramRead`, `Registry` (with versions and iteration), `DirStream` (with `closedir` failure), `FileHandles`, `ByteOrder`, `Message` (with response framing), and `Relay` (with `main`'s argument check and a failed mount).
2. Once `file::add` and `write_prepare` exist, model them in place of the spec §4.4 writer in `DramRead`, together with the unlocked `std::list` walk they would race.
3. Once `unload` exists, add it to `Registry` and re-check `exists`. Its comment relies on nothing ever being removed.
