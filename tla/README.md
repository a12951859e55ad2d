# TLA+ models and proofs of go-nfs

go-nfs is an NFSv3 server library over a `billy.Filesystem`. This directory models where
several connections, background goroutines and a fallible backend meet (the caches of open
files, the durability of writes, the life of file handles, the pipeline of a connection), and
the directory operations over the in-memory filesystem that comes with the library.

## The system

| Part | State | Operations | What makes it hard |
|---|---|---|---|
| Write cache (`handlecache.go`), one per connection | `entries`, `gen`; per fd `dirty`, `closed` | get, putIfFresh, LRU eviction, idle sweep, invalidate, removeIf, removeAndTrack, flushDirty, Close | fds leave the cache under a lock and are closed after it |
| Commit tracker (`committracker.go`), one per server | `pending`, `errs` | begin, finish, record, wait, await | blocking on a channel without the lock; an error has one consumer |
| Write verifier (`server.go`) | one 8-byte value | read for replies, rotate on a loss | when it is read, relative to the loss |
| Read cache (`readcache.go`), one per connection | `entries`, `gen` | as the write cache, without data | fds opened before a change and published after it |
| WRITE, COMMIT, READ | locals only | open or reuse an fd, flush on all connections, wait | retries, fds closed under the request |
| SETATTR, CREATE | locals only | drop fds everywhere, change the file, drop again | changes and opens interleave; steps fail one by one |
| Caching handler (`helpers/cachinghandler.go`) | `activeHandles`, `reverseHandles` | ToHandle, FromHandle, InvalidateHandle, eviction callback | search and insertion are separate critical sections |
| LOOKUP, REMOVE, RENAME | locals only | mint, drop, change the directory, invalidate | racing READ and WRITE under the same handle |
| Connection (`conn.go`) | registration, both caches; one-slot reply channel, context | serve, drain, unregister, serializeWrites | broadcasts meet connections that close; two goroutines end each other |
| READDIR, READDIRPLUS | `activeVerifiers`, the cache of listings | pages with cookies and a verifier | the directory changes between pages, listings are evicted |
| memfs (`helpers/memfs/storage.go`) | the maps `files` and `children` | New, createParent, Rename, move, Remove | two maps that must agree; prefixes of paths; map order |
| MKDIR, SYMLINK | locals only | check, change the directory, mint a handle | over memfs |

`PROJECT.json` lists every part with its status, the map from definitions to source lines,
and the hazards this code is exposed to.

## Modules

A region the code runs under one lock, or one backend call, is one action; goroutines
interleave between them. A connection serves one request at a time, as `serve` does.

- **CommitBarrier** - what the tracker promises: a caller gets through only when no flush of
  its file is in flight, and a recorded loss disappears only into such a caller's hands.
- **CommitTracker** - the tracker at the grain of its lock. `finish` removes the marker and
  stores the error in one step, and closes the channel and calls `onLoss` in later ones;
  `resolve` loops over one channel at a time. It implements CommitBarrier.
- **WriteDurability** - write caches, tracker, verifier, and the handlers WRITE, COMMIT, the
  flush before a READ, broadcast drops, idle sweep and drain. A WRITE is an id: `buf[h]` holds
  the ids not yet flushed, a successful Sync or Close makes them `durable`, a failed Close of
  a dirty fd makes them `lost`. `HasSync` selects the kind of backend. The tracker appears
  here as `pending` and `errs` with atomic wait and await; it implements CommitBarrier too.
- **FdCoherence** - read and write caches of one file against SETATTR and CREATE. The
  attributes are a version, and an fd remembers the version it was opened under; the contents
  are the WRITE ids present. `Plan` is the list of stages of each request, and each stage of
  `Apply` may be unneeded, succeed or fail.
- **HandleLife** - the handle cache with its reverse map, LOOKUP, CREATE, REMOVE, RENAME and
  READ/WRITE. A handler is a list of steps; a step may put further ones in front.
- **Pipeline** - one connection: the serve loop (`Accept` to `Leave`), the channel
  `writeSerializer`, the goroutine serializeWrites, the context, and a client that pipelines,
  cuts a frame short, half-closes, resets or goes away.
- **MemStorage** - the storage of memfs as operators from a storage to a result and a storage.
  `RenamePath` gives a set of results, one for each order in which Go may iterate the map.
- **Namespace** - MKDIR, CREATE, SYMLINK, REMOVE, RENAME, LOOKUP and READDIR(PLUS) over
  MemStorage, with the handles their replies carry and the cache of listings.
- **MC\*** - the instances for TLC.
- **CommitTrackerProofs, WriteDurabilityLemmas, WriteDurabilityProofs, FdCoherenceProofs,
  PipelineProofs, HandleLifeLemmas, HandleLifeProofs, NamespaceProofs** - the theorems and the
  lemmas they rest on. **HandleLifeTerms** has the definitions in which the proofs about
  HandleLife speak of a step.

Definitions marked "Mutation" are plausible bugs. Each is put in the place of the definition
that follows it to confirm that the property concerned notices. No specification uses them.

### Abstractions

- Time: any cached entry may be the oldest, and any set of entries may be idle. A sweep can
  therefore hit an fd that was just used. The first two findings below do not depend on that:
  both were reproduced with the sweep disabled and a drop from another connection instead.
- The backend is external. Open, Sync, Close, Truncate, Chmod, Rename and Remove succeed or
  fail freely. A failed Close of a dirty fd loses its data; a failed Sync keeps it buffered.
- HandleLife has one directory, one fd cache per connection, and one retry for READ or WRITE
  (the code's READ can retry more often; FdCoherence has the full loop). The two lookups by
  name with which RENAME finds the handles to drop (`nfs_onrename.go:90-91`) are one step.
- Pipeline: a frame is its declared body length and what of it arrives; a reply is the number
  of RPC headers in it. What a handler does with files is in the other modules.
- Namespace: memfs takes no concurrent calls, so there is one client and a handler is one step.
  A handle is identified with the path it resolves to (HandleLife has their minting and
  eviction). Links point to nothing, and the client makes nothing over one. Names are kept as
  strings because two properties are about their prefixes and their concatenation.
- Variables called histories (`reported`, `committed`, `dup`, `late`, `raced`, ...) record the
  past for the properties and guard nothing in the code's part of a step.

## Runs

| Run | Instance | Shows |
|---|---|---|
| durability_close | 2 connections, 1 file, 2 fds, 2 WRITEs, 2 other requests, no Sync | types, LossRecorded, BufferedReachable, NoOrphanFd, CommitCovers, StableCovers |
| durability_sync | 2 connections, 2 files, one cache entry, Sync | CommitCovers, ReadCovers, StableCovers, refinement of CommitBarrier |
| durability_live | 1 WRITE and 1 other request, no Sync, fairness | every request is answered, every drain ends; IInv |
| tracker | 2 files, 2 flushes, 2 callers, fairness | VouchedFlushed, NoLostWakeup, CallsReturn, refinement of CommitBarrier |
| fd_coherence | 2 connections, 2 fds, 2 READs or WRITEs, 1 SETATTR or CREATE | FreshUse, FdOwned, CutIsFinal |
| handle_life | 2 connections, 2 names, 3 handles, limit 2, 3 requests, or 4 with at most one CREATE, REMOVE or RENAME | ActiveIsFindable, DeadFdsDropped, ServedFileCurrent |
| pipeline | 4 frames with bodies of 0 or 1, fairness | FrameSync, ReplyIntact, Answered, EndsWhenGone |
| namespace | names `a`, `ab`, `b`, 3 trees, depth 3, 4 requests (a RENAME counts as 2), handle limit 4 | TreeIntact, RenameKeepsFiles, PanicNeedsBareRename, HandleFaithful, ListingComplete |
| durability_settled, durability_stable, fd_resurrection, handle_stale | - | the findings |

**Bounds.** Two connections are what a race needs; two fds let a file have a cached fd and a
replacement or a detached one; a cache of one entry makes two files evict each other; a handle
limit of two with three handles makes the LRU evict. The fds, inodes and handles of an instance
are used up, not recycled, so long executions end early. Outside the TLC runs are therefore
behaviours that need a third fd of one file, evictions by the LRU of a backend without Sync
(durability_close has one file, and durability_sync the evictions), and more than two READs and
WRITEs around a SETATTR or CREATE. The proofs cover them: they hold for any values of the
constants.

`Cost` weighs the requests of HandleLife against one bound: a LOOKUP, a READ, a REMOVE or RENAME
and a second READ fit, which is what it takes to use an fd under a handle that has died.
Four frames are one being written, one in the channel, one being served and one waiting, which
fills the pipeline. Three names give a sibling that begins like another (`a`, `ab`) and
directories whose names join to the same string (`a`, `b` and `ab`); the trees have siblings,
three levels, and an empty directory. Namespace was also checked once with five requests
(2.1 million states, no error). Deadlock checking is off because clients stop when the bounds
are reached; that no goroutine hangs is what RequestsEnd, CallsReturn, Answered and EndsWhenGone
say.

**Fairness.** Weak fairness of each request goroutine, flush and drain: Go schedules runnable
goroutines, and backend calls are assumed to return. Nothing makes a client send. With finitely
many requests no caller can be starved by an endless series of new flushes; the code itself
does not exclude that. In Pipeline the serve loop and the writer are fair and the client is not.

**Qualified properties.** Four properties hold only with an exception, and the exception is
what the corresponding finding is about: CommitCovers and StableCovers accept a loss that *some*
reply for the file has surfaced, CutIsFinal accepts data in fds already detached, and
ServedFileCurrent accepts names for which two handles existed: RENAME invalidates one of them, and
REMOVE the one it found before it removed the file. DeadFdsDropped accepts an fd
under a handle that a READ or WRITE had resolved before it died, so the sentence "no further
READ/WRITE can cache a new fd under it" (`nfs_onremove.go:71-76`) holds only for requests that
resolve the handle later.

In Pipeline, EndsWhenGone excepts the state `Stalled`: a write error ends serializeWrites without
cancelling the context (`conn.go:280`), and serve then waits in `finish` for a slot that nobody
empties, until the server's own context ends. In Namespace three properties leave out RENAMEs
that memfs does not carry out well, called rough:

- `from` equals `to` or contains it: the deferred deletes of `move` follow the insertions, so a
  RENAME of a file to its own name deletes it (`storage.go:147`);
- a sibling begins like `from`: children are selected by prefix without a separator, and the
  sibling is moved too (`storage.go:120`);
- there are entries two levels below `from`: when the map is iterated grandchild first, the
  parent is made anew and its node is lost (`storage.go:119`);
- `to` is a directory with entries, which stay behind without a parent.

HandleFaithful excepts handles below a directory that was renamed (`strayed`), which onRename
does not invalidate, and ListingComplete directories whose old and new names join to the same
string and so share a verifier (`cachinghandler.go:247`). PanicNeedsBareRename says what it takes
to bring the process down, which has no `recover`: `move` stores a nil map for a node without
children (`storage.go:145`), and a CREATE below that path writes to it. A RENAME of an empty
directory is enough, or one of a file whose new path REMOVE and MKDIR then make a directory. With
a handle limit below 4 the first page of a listing ends at `..` and the rest is never listed;
`NamespaceAssumption` excludes that.

## Findings

1. **durability_settled** (`nfs_onwrite.go:173`): a drop or sweep closes the fd after the write,
   the close fails and the verifier rotates, all before the WRITE's reply reads the verifier.
   After another connection's COMMIT took the error, the writer's COMMIT replies OK with a
   matching verifier. `committracker.go:22`: "never reply OK for data that was lost".
2. **durability_stable** (`nfs_onwrite.go:115`): a stable WRITE replies OK for lost data when a
   COMMIT on another connection consumes the recorded error first.
3. **fd_resurrection** (`nfs_onsetattr.go:63`): the drop before a truncate does not wait for an
   fd already detached; its close brings the old data back.
4. **handle_stale** (`helpers/cachinghandler.go:71`): two concurrent ToHandle calls mint two
   handles of one path; RENAME invalidates one, and an fd under the other serves the old file.

## Proofs

Every safety property that a passing run checks, and the refinement of CommitBarrier by both
CommitTracker and WriteDurability, is also proved with TLAPS, for any values of the constants:
connections, files, names, fds, handles, WRITEs, frames and limits.

| Module | Theorems |
|---|---|
| CommitTrackerProofs | TypeOK, VouchedFlushed, NoLostWakeup, ImplementsBarrier |
| WriteDurabilityProofs | TypeOK, CommitCovers, ReadCovers, StableCovers, NoOrphanFd, LossRecorded, BufferedReachable, ImplementsBarrier |
| FdCoherenceProofs | TypeOK, FreshUse, FdOwned, CutIsFinal |
| PipelineProofs | TypeOK, FrameSync, ReplyIntact |
| HandleLifeProofs | TypeOK, ActiveIsFindable, DeadFdsDropped, ServedFileCurrent |
| NamespaceProofs | TypeOK, TreeIntact, PanicNeedsBareRename, HandleFaithful, ListingComplete, RenameKeepsFiles |

Assumed of the constants, and evaluated by TLC on every run: `Nil` is none of the other values;
`KeyOf` gives each WRITE a file; bounds are naturals; the change requests of FdCoherence are
SETATTR and CREATE; no file is at two paths at the start (`LifeAssumption`; the model has no
LINK); the trees that Namespace starts from are trees, without a nil map, and the handle limit
is at least 4 (`NamespaceAssumption`).

None of the properties is inductive, and each module has an invariant `IInv` that is. It is
proved action by action; in Namespace it is in NamespaceProofs, in the others at the end of the
component's module.

**WriteDurability.** That a COMMIT's reply is right depends on where each WRITE's data is while
the broadcast runs. Each fd is private, cached in one place, being flushed, or closed (CachedInv,
PrivateInv, MarkerInv, NoOrphanFd). Data sits in open dirty fds of its own file, and an unreported
loss is recorded or about to be (BufferInv, LossInv, AckInv). What is left to flush for a COMMIT
or READ under way is announced by a marker or cached in a connection still to be visited
(SnapInv), and similarly for a stable WRITE (WriteInv). When wait returns nil, nothing of the file
is in flight and no loss is recorded (lemma Quiescent), so everything covered is durable or
reported. The refinement needs `IInv` too: a goroutine that gets through has a file (ControlInv),
and a flush that finishes has its marker under one file only (MarkerInv). Each step of a request
goroutine changes at most its own place at the barrier (lemma WaitingStep); BarrierStep then sorts
the steps into calls, returns, announcements, finishes and steps the barrier does not see.

**CommitTracker.** Markers stand for flushes in progress, and a blocked caller for a channel that
is closed or will be.

**FdCoherence.** An fd has one owner (OwnerInv). What a cache holds, or would still admit because
its generation has not moved, is as new as every change that replied OK and as every change whose
drop has passed that cache (FreshInv): the generation is what makes an fd opened before the change
and published after it harmless. Data acknowledged before a change is in no write cache its drop
has passed, and once the file is cut only what was detached meanwhile can come back (CutInv).

**Pipeline.** Between requests nothing is left of a body (BodyInv). Numbered in the order they
were sent, the requests are answered, being written, in the channel, being served, or unread, in
this order and without gaps, while the writer lives (OrderInv).

**HandleLife.** A handler is a list of steps, and the invariant says which lists occur: nothing
that can fail comes before the cleaning up of a handle, and once the backend has changed only the
cleaning is left (PlanOK). A handle that is dead has late fds or a drop planned for each
connection that may still cache one (DeadInv). A file that left a path is served under the only
handle of that path only while the request that took it away is still going to invalidate that
handle (ServedInv), which is where RENAME's search of the reverse map and REMOVE's earlier lookup
come in. Most of the proof shows, per kind of step (HandleLifeTerms), what it leaves alone.

**Namespace.** Without a nil map nothing panics. As long as no RENAME was rough and nothing
panicked the two maps of memfs agree and handles reach their files (Whole). RENAME moves one path
after another, and in between the tree is not one: `Halfway` says what it is then, with the
entries still to be moved listed at the new place and found at the old one. Each move takes one
path from that set, in any order, and with none left the tree is whole again. For READDIR, the
pages so far are the listing at the start up to the cookie, and the cache holds that listing or
none (WalkOK). MemStorage defines its few operators on paths itself: the proofs get by without
the lemmas that the library's module of sequences brings along.

TLC checked each `IInv` before it was proved: for WriteDurability in durability_live, for the
others on the instances of their runs.

Only model-checked: the liveness properties RequestsEnd, CallsReturn, Answered and
EndsWhenGone, as fairness and ENABLED are outside what the prover handles.

## Not modelled

- Restarts. A new process starts its verifier from `Server.ID` when one is configured
  (`server.go:73`), so the first verifier after a restart equals the first one before it. One
  assignment decides that; a model would only repeat it.
- READ's arithmetic of offset, count and EOF: the models keep contents as sets of WRITEs.
  `setEOF` is decided before the count is clamped (`nfs_onread.go:86`), within one handler.
- The contents of memfs files (WriteAt, ReadAt, Truncate) and links that lead somewhere.
- LINK and MKNOD: they need a backend with UnixChange and over memfs change nothing and fail.
- XDR encoding, the table of handlers (filled once by init functions), error formatting,
  logging, platform file information, the read-only handlers, MOUNT and the example programs:
  they hold no state shared between requests.
- The parsing of SETATTR's attributes and its guard, and exclusive CREATE, which is refused.
