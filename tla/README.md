# torrent-web-seeder in TLA+

Specifications of the server's own logic, model-checked with TLC on small
instances and, for the modules listed under *Proofs*, proved with TLAPS for
every instance. Source paths are relative to the repository root; `mmap.go`,
`piece_lru.go` and so on are in `src/server/services/`.

- [The system](#the-system): its parts, their state, what makes them hard
- [The modules](#the-modules): what models what
- [What is checked](#what-is-checked): runs, bounds, fairness
- [What is proved](#what-is-proved)
- [Where code and comments disagree](#where-code-and-comments-disagree)
- [What is not modelled](#what-is-not-modelled)
- [Plan](#plan)

## The system

The server downloads torrents on demand with the library `anacrolix/torrent`
and serves their files over HTTP. Disk space per torrent is bounded: pieces are
evicted in LRU order and their bytes are given back to the file system by
punching holes into the files.

| Part | State | Operations | Hard because |
|---|---|---|---|
| Layout arithmetic (`mmap.go:310`, `mmap.go:413`, `piece_completion.go:35-140`) | none | piece range of a file, files of a piece, file regions of a piece | two independent computations must agree at every boundary |
| Piece LRU (`piece_lru.go`) | list, map, byte count | Touch, Add, Remove, Recover, the two-pass choice of evictions | protected pieces, exact limits |
| Completion store (`piece_completion.go`) | four fields in memory, two SQLite tables | Set, UncompleteFiles, CompleteFile, Close, the poller | two copies of one fact, failing statements, a poller that acts on what it read before |
| Piece storage (`mmap.go`) | the files, the two above, a channel | OpenTorrent, MarkComplete, MarkNotComplete, Completion, ReadAt, WriteAt, evictPiece, the sweep | no lock across the steps of an eviction, crashes, a channel that drops |
| Cache metrics (`cache_metrics.go`) | gauges | updated from the storage | read-modify-write around calls of others |
| Torrent map (`torrent_map.go`) | a timer per torrent | Get, Touch, drop | a timer that fires while its torrent is handed out |
| Torrent client (`torrent_client.go`) | library client, error, idle timer | Get, Close, idle close | check then act, an error remembered for ever |
| Statistics (`stat.go`, `stat_grpc.go`, `stat_web.go`) | two goroutines and their channels per stream | Stat, StatStream | who waits for whom at the end of a stream |
| File cache (`file_cache_map.go`, `torrent_file_count_map.go`) | answers kept for a minute | Get, IsDirComplete | rows of another goroutine, read past every lock; an answer outlives the data |
| Web seeder (`web_seeder.go`, `touch_writer.go`, `vault.go`, `touch_map.go`) | none of its own | picks cache, vault or torrent | depends on all of the above |
| Torrent stores (`torrent_store.go`, `torrent_store_map.go`, `file_store_map.go`) | connection, directory listing | fetch a torrent file | remote failures |
| Directory distribution (`common.go`) | none | hash to directory | the last bucket |

How they interact. `WebSeeder` serves a file from the disk if `FileCacheMap`
finds a row of the file in the table `file_completion`; else from the vault;
else from the library, through a torrent obtained from `TorrentMap`. The library
calls the storage: it writes blocks, hashes finished pieces on its own
goroutines and reports the outcome with `MarkComplete` or `MarkNotComplete`.
`MarkComplete` records the piece in the completion store, hands it to the LRU
tracker and evicts, on the same goroutine, what the tracker returns. A sweep
goroutine evicts what is over budget every so often and tells the library of
evicted pieces, which it receives over the channel `verifyCh`, with
`VerifyData`. A poller goroutine of the completion store writes the rows of
files that have become complete.

What must hold, part by part: the two ways of doing the layout arithmetic agree;
the tracker counts exactly what it tracks and gives up just enough, protected
pieces last; memory and database say the same and the flag that ends the poller
is right; an evicted piece is never taken for complete beyond the time its
announcement takes; disk use stays within the budget but for evictions under way;
every mark returns. PROJECT.json lists, line by line, what can go wrong and
which property would notice (`hazards`).

## The modules

    TorrentLayout ── EvictionRegions ─┬─ MCEvictionRegions
                            DataDirs ─┴─ Layout_proof

    Torrent ─┬─ PieceLRU ─┬─ PieceLRUCalls ─┬─ MCPieceLRU
             │            │                 └─ PieceLRU_proof
             │            └──┐
             │               ├─ PieceStorage ─┬─ MCPieceStorage
             │            ┌──┘                └─ CacheMetrics ── MCCacheMetrics
             └─ PieceCompletion ─┬─ PieceCompletionCalls ─┬─ MCPieceCompletion
                                 │                        └─ PieceCompletion_proof
                                 ├─ FileCache ── WebSeeder ─┬─ MCWebSeeder
                                 │                          └─ WebSeeder_proof
                                 └─ FallbackStore ─┬─ MCFallbackStore
                                                   └─ FallbackStore_proof

    Notices ┄┄ PieceStorage       PieceStorage_proof: CacheMetrics, with PieceLRU_proof and
    (abstract)                    PieceCompletion_proof

    Leases ┄┄ TorrentMap ─┬─ MCTorrentMap       StatStream ─┬─ MCStatStream
    (abstract)            └─ TorrentMap_proof               └─ StatWeb ── StatStream_proof

- **TorrentLayout** has the arithmetic as pure operators on a record
  `[pieceLength, lens]`: by pieces (`FilePieces`, `AffectedFiles`) as the completion
  store and `uncompleteAffectedFiles` do it, and by bytes (`Regions`) as
  `pieceFileRegions` does it. Where the Go code has the same loop three times it is
  one operator.
- **EvictionRegions** downloads and evicts pieces of a torrent, each in one step,
  with the bytes on disk as state.
- **Torrent** abstracts a torrent to pieces, sizes and the pieces of each file
  (`Cover`), with assumptions as weak as possible: any sizes, any cover.
- **PieceLRU** is `piece_lru.go`, a method per action; the Go map is the set of
  the list's elements. `computeEvictions` is stated by order and sum: a piece is
  returned if those that the two passes meet before it do not free enough.
  **PieceLRUCalls** runs the methods alone, with an arbitrary set of protected
  pieces at each call, and compares `computeEvictions` with the two loops
  of the code (`TwoPasses`): `FirstPass` goes through the list from the back and puts
  protected pieces aside, `SecondPass` through those that were put aside.
- **PieceCompletion** is `piece_completion.go`: `struct completions` (`pieces`,
  `completedCount`, `completed`, `completedFiles`), the two tables (`dbPieces`,
  `dbFiles`), `Close`, the poller as a small program (`scan`, `write`, `check`,
  `gone`) and every failure of a statement. `CompletionNext` allows all operations in
  any order; **PieceCompletionCalls** restricts them to the calls that marks and
  evictions make.
- **PieceStorage** composes tracker and store with the goroutines of `mmap.go`.
  `thread[t].at` is where goroutine `t` is. A hasher of the library goes
  `idle → markSet → markAdd → (evictions) → refresh → idle`, or
  `idle → unmarkSet → refresh → idle`; the sweep (`Sweep`, which also runs the part
  of `OpenTorrent` that evicts) goes `opening → (evictions) → idle` and from there
  into evictions on a tick or to `verify → await` for a piece from the channel. An
  eviction is five actions, one for each call of `evictPiece`: `EvictSet`,
  `EvictFiles`, `EvictPunch`, `EvictRemove`, `EvictQueue`. `Crash` loses the memory at any
  point and starts `OpenTorrent` again from disk and database. `Completion` panics when
  the statement fails: that is a `Crash` too, as one may happen at any time. `recoverLRU` leaves out a
  piece whose row it cannot read, so that piece is on disk and not tracked.
- **TorrentMap** is `torrent_map.go` together with the start and the idle close of
  `torrent_client.go`. `mux` is the mutex of the map: `GetClient` takes it and
  `GetTorrent` or `GetFails` gives it back, and in between, while the torrent file is
  fetched, timers go off (`Fire`) and the client may be closed (`CloserCheck`, then
  `CloserClose`). A timer has what is left of its lease and the client that its goroutine
  knows: `Drop` drops the torrent of that client. `idle`, `late` and `leaked` are not in
  the code; they measure and remember what the properties speak of (`leaked`: what `GetTorrent` adds
  to one client while the map has the timer of another). A torrent that is
  added to a client that was closed meanwhile is in no client.
- **StatStream** is one stream of `stat.go`: the handler (`select → leaving → stopped →
  returned`), its goroutine (`stat → await → send → select`, or `fail`, `end` while it waits
  on `errCh`), and the shared statistics. A call of `Stat` returns what is in the cache
  or waits for what is being read; bytes, pieces and peers are read one after the
  other. A rendezvous on a channel without a buffer is one action of both sides
  (`ReceiveEnd`, `Done`). The ticker's channel holds one tick, and none after `Stop` (the
  module requires Go 1.25). `view` is the receiver, which puts the differences together.

- **FileCache** puts the completion store between the disk and the reader of its rows. The
  tracker, the channel and the goroutines of PieceStorage are left out: any piece may
  be evicted at any time, in three steps (`EvictSet`, `EvictFiles`, `EvictPunch`), and any
  piece whose hash passed is marked later (`HashPasses`, `MarkComplete`). In place of these, the
  torrent is dropped and opened again: `Drop` is `Close` of the storage, which leaves
  the completion store alone, so that its poller runs on (`orphan`) with a memory that no
  mark reaches any more. `answers` is `FileCacheMap`: what `get` said is kept until `Expire`.
  `stale` and `unproven` are not in the code: they remember which rows stand
  for incomplete files, and which marks came from a hash older than an eviction.
- **CacheMetrics** adds the gauges of `cache_metrics.go` to PieceStorage, with every step between
  which another thread may run: `CountAdd` and then `ReportAdded` in a mark; `ReadUsed`, `CountedRemove`,
  `ReadFreed` and `ReportFreed` in an eviction. `prevUsed`, `freedBytes` and `addedBytes` are what the
  threads remember meanwhile; such a thread takes its next step on the gauges before one on the storage (`Busy`).
  Only the updates of the two gauges by one thread are one step. `astray` is not in the code: it
  remembers that the gauges were moved by something else than the tracker was.
- **Notices** is abstract: the data on disk, what is recorded, what the library holds for complete, of
  which pieces it is still to be told, and which notices were lost. No goroutines, no tracker, no channel, no
  budget. PieceStorage implements it (`Promise`, `KeepsNotices`): a piece that is announced or in the hands of a
  hasher (`Untold`) has a notice.
- **Leases** is abstract: open torrents, what is left of the lease of each, and the
  torrents whose lease ran out and which are still to be closed. No mutex, no timers, no
  goroutines, no client. TorrentMap implements it (`Promise`, `KeepsLeases`): the goroutine of a
  timer that waits for the mutex is a doomed torrent, an idle close closes everything.
- **FallbackStore** is the storage over whichever completion store `pieceCompletionForDir`
  got: the one with the database, or, after an error, the one in memory. `SetCompletion` is `Set` of
  the store in use. The next process may open the database that this one could not. Data comes from
  this process or an earlier one (`WriteAt`), the hasher looks at it (`Hash`) and reports later (`MarkComplete`,
  `MarkNotComplete`), and goroutines evict any piece that is known meanwhile, each in three steps. `overtaken` is not in
  the code: it remembers marks in the database that an eviction of the piece has overtaken, which
  PieceStorage is about.
- **DataDirs** is `common.go`: the directory of a torrent by the digits of its hash, with the
  integer division of the code. It has no state.
- **StatWeb** is the stream of StatStream over HTTP (`stat_web.go`): the mutex that events and
  pings share, the context of the request, and a goroutine that pings and that nobody waits for.
- **WebSeeder** is every request of `web_seeder.go`: file, statistics, `?done`, listing
  and torrent file. What changes is which answers are kept and whether the torrent is opened.
  The vault and the store of torrent files answer anything at any time.

Atomicity. A method that runs under one mutex is one action. `Set` of the
completion store changes memory and then the database under the store's mutex;
the poller reads the memory only and no reader sees the database in between, so it
is one action too; a failure between the two is `SetFails`. `isProtected`, called
by the tracker for one piece after the other, is taken as one look at the
completed files in PieceStorage; PieceLRUCalls lets the answers be any set.

The library is external. Assumed of it: a piece is in the hands of one hasher at a
time; a piece that it has is hashed again only when `VerifyData` asks; `VerifyData`
returns after a new hash of the piece was reported; it refreshes its view of a piece
with `Completion` after reporting a hash, and may do so at any other time; it
writes only to pieces that it does not have.

A definition whose name starts with `Slip` is a deliberate error in the definition
that follows it; no specification uses it. Each checked property comes with one
that breaks it.

## What is checked

| Run | What it asks | Instance |
|---|---|---|
| `layout` | do ranges that complete a file, ranges that invalidate it and punched regions fit together | every torrent of up to 3 files of 0-4 bytes, pieces of 1-3 bytes, up to 5 pieces |
| `lru` | exact count, evictions are the two passes, just enough, protected last | 4 pieces of 3 sizes, budget 4 of 8 |
| `completion` | count, flag, files and database agree with the pieces; rows of complete files appear while the poller lives | 3 pieces, 2 files that share the middle one, 2 failures, close, restarts |
| `completion_readded` | is the row of an evicted and downloaded file always added again (no) | as `completion`, no failure |
| `storage` | gauges, budget, tracking (CacheMetrics) | 2 pieces, budget for one, no file, 2 hashers and the sweep, channel of 1, no failure, any number of crashes |
| `storage_crash` | holes announced and not forgotten, budget, tracking, with failures, crashes and the poller; PieceStorage implements Notices | 2 pieces, 1 file, 1 hasher and the sweep, 1 failure, any number of crashes |
| `storage_live` | types; marks return; the library learns of holes; what a failed eviction left is evicted | 2 pieces, no file, 1 hasher and the sweep, channel of 1, 1 failure |
| `storage_comment` | does the sweep make up for a full channel (no) | as above, no failure |
| `fallback` | is a piece incomplete in the database before it is punched, also over a store in memory (no) | 2 pieces, 1 file, 1 goroutine that evicts, 1 failure, restarts |
| `file_cache` | a row, and the answer that a directory is done, stand for data on disk | 2 files that share the second of 2 pieces, one of them in a directory; 1 failure, 1 hash and 1 eviction under way, crashes, an old poller |
| `torrent_map` | leases, timers, leaks; the idle client is closed; TorrentMap implements Leases | 2 torrents, 2 requests, leases of 2 ticks, 2 clients |
| `stat_stream` | differences add up; end and return of a stream; the receiver catches up | 2 pieces in any state, 2 changes |

Why the bounds are enough. *Layout*: every relation of the boundaries of two
neighbouring files and of a piece (before, at, after; empty files; a short last
piece; a file inside a piece; a piece inside a file) occurs with two files and two
pieces; there is a third of both. *Tracker*: with four pieces, two can be protected and
two not, and either pass may end at any place. *Storage*: two pieces over a budget of
one make every mark evict; the victims of two goroutines coincide, differ or are the
piece being marked, and the channel is full after one announcement; with three
pieces the instances have more than ten million states and nothing new to
disagree about, since no guard compares more than two pieces. What depends on
more than two pieces, the choice of victims, is checked with four in `lru`. The pieces are model values of
one byte that nothing tells apart, nor the hashers: both are a symmetry of the runs `storage` and
`storage_crash`. Two hashers meet in `storage`, with crashes but without failures; failures among several
hashers are left to the proofs. One failure hits
each step of each goroutine, and so do crashes, without bound; two failures are in `completion`.
*File cache*: a piece of one file and a piece of two show both what a row needs and what an
eviction takes from a neighbour; more evictions or hashes at a time and more failures than
one (`MaxEvicted`, `MaxHashed`) are left to the proofs, which hold for any number; of the old pollers one
is looked at at a time (guard of `OpenTorrent`), and requests are for the first file (`Asked`): the
state they leave is one answer for each file, on which nothing else depends.
*Torrent map*: two clients are the old and the new one, all that a goroutine can
confuse; a lease of two ticks may be half over. *Stream*: it may start in any state of
the torrent; with two changes, what is not sent in one round (a piece) meets what
is sent in the next (the number of bytes or peers), and a piece may be lost while it is
read. The bounds on failures (`MaxFaults`), clients (`MaxClients`) and
changes of a torrent (`MaxChanges`) are in the guards; everything else in the state is
finite.

Deadlock is checked in every run.

The hole properties need no second hasher to be interesting, since the sweep evicts beside
the one that marks; that they hold with any number of hashers is proved.
`KeepsNotices` is checked on every step of `storage_crash`, so that `Restart` and `Reopen` of Notices answer to
the process that dies and the one that recovers. The runs without a
file (`storage`, `storage_live`, `storage_comment`) leave the poller out (`QuietSpec`, `QuietMetricsSpec`): without files it changes nothing but its own position.

Fairness. `completion`, `completion_readded`: the poller's loop goes on
(weak fairness of `Poll`; its sleep is bounded; a write into a closed store fails) and a
started eviction is carried through. Storage runs: every goroutine takes its next step (weak fairness);
Go's `select` with several ready cases picks at random, so each case that is ready
again and again is taken (strong fairness of `SweepReceive` and of `SweepTick`); the
library serves the queue into which `VerifyData` puts a piece (strong fairness of
`AskedHash`, since its hashers may be busy). Nothing obliges the library to
download, read or hash anything else, and no failure or crash is fair. Torrent map: time
passes, fetching a torrent file ends (it has a time limit of a minute), the goroutines of
the timers and of the client run; weak fairness is enough, since `IdleClientCloses` speaks of
the time when requests have stopped asking. Stream: weak fairness of each step of handler and
goroutine; replies get old again and again (strong fairness of `Expire`); no fairness
between the cases of a `select` is needed.

The properties:

- `RowMeansWholeFile`, `DiskHoldsCompletePieces` (EvictionRegions): a row promises
  every byte of the file; the disk holds exactly the bytes of complete pieces.
- `EvictionsAreTwoPasses`, `EvictionsJustEnough`, `ProtectedGoLast`,
  `UsedCountsTrackedPieces` (PieceLRUCalls). The tracker's methods exclude each other, so that calls in any order
  are all that goroutines can do to it.
- `CountAgrees`, `CompletedFilesSound`, `MemoryMatchesDatabase` (PieceCompletion),
  `RowsAppear` (PieceCompletionCalls). `RowsAppear`: a file that is complete when
  the poller looks gets its row, unless a statement fails or the store is closed; a poller
  that is gone, which ends when it sees the torrent complete and after one failing statement,
  does not look again before a restart.
- `HolesAnnounced`: what the database records as complete, or a hasher is about to
  record, is on disk, or its hole is announced, or the announcement was lost.
  The variable `lost` is not in the code; it remembers which pieces had an
  announcement dropped at a full channel, lost in a crash, or lost because the
  statement of `MarkNotComplete` failed. An eviction punches a piece that another
  goroutine has just marked complete: this is the property that makes the
  re-verification indispensable.
- `NoForgottenHole`: the library takes a hole for data only while the announcement is
  under way or lost.
- `KeepsNotices`: PieceStorage implements Notices. A step makes a hole only with a notice, and a notice goes only
  when the data is back, or the library has read a record that is gone, or it is known to be lost.
- `BudgetCovered`: without failures, what is tracked beyond the budget is about to be
  evicted by some goroutine, also when two have chosen the same victims.
- `CompletePiecesTracked`: without failures, the data of a complete piece is counted
  by the tracker, or the piece is on its way back to it.
- `GaugesExact` (CacheMetrics): in a process the gauges show what the tracker holds less what
  marks are still to add (`addedBytes`) and plus what evictions are still to take off (`freedBytes`), to the byte; only
  between a removal and the read after it is that not known to anybody. So it stays until one of three things happens:
  a tracked piece is marked again, a piece is evicted twice, or the tracker's count changes between the two
  reads of an eviction. All three do happen with two goroutines; nothing else leads astray.
- `HashersReturn`, `HolesLearned`, `OverBudgetEvicted`: the three things that must
  eventually happen.
- `RowsCoverData` (FileCache): a row stands for pieces that the database calls complete and
  whose data is on disk, or an eviction is about to delete it. This is why `evictPiece`
  deletes rows between its mark and its punch. A row may be stale, and the model says how:
  the poller writes what it saw before an eviction (`piece_completion.go:206`), the
  old poller writes what it saw before the torrent was dropped, `MarkNotComplete` deletes no
  rows, a deletion fails, or the process dies before it. Nothing else makes one stale.
- `DoneMeansOnDisk` (WebSeeder): `?done` counts rows; with as many rows as files, each
  file has one.
- `LeaseKept` (TorrentMap): a torrent is dropped when nobody has asked for it during a whole
  lease. Two exceptions, both real: who asks after the timer has gone off and
  before its goroutine has the mutex, which another request may hold for a minute, is
  given a torrent that is about to be dropped; and a client that is closed takes its
  torrents with it.
- `KeepsLeases`: TorrentMap implements Leases. A torrent is open only with somebody's
  request, and is closed only by a lease of it that has run out, once for each time that
  it runs out, or together with all others.
- `TorrentsHaveTimers`: a torrent in the client has a timer that will drop it, one that was started in
  this client, exactly if it is not in `leaked`. If the client is closed as idle while its timers run, or while a
  Get is about to add a torrent, the map keeps timers of the old client; the next Get adds the torrent to a new
  client, finds such a timer and starts none; the old goroutine drops the old torrent. The property does
  not say that this does no harm: it says that there is no other way to be without a timer.
- `IdleClientCloses`: if requests stop, the client is closed, unless a torrent was leaked.
- `ViewIsLastReply`, `EndIsComplete` (StatStream): differences refer to the reply sent last, so
  the receiver knows exactly that reply; a stream that ends because all bytes are
  there has reported all pieces complete, since bytes are read before the pieces, unless
  a piece was evicted in between.
- `NothingAfterReturn`, `HandlerReturns`: the handler ends its goroutine before it returns,
  and it does return, unless the goroutine has ended, or is waiting to say so: then
  the send on `done` waits for ever, on every stream that ends by itself.
- `ViewCatchesUp`: bytes and peers reach the receiver once the torrent stops changing. Pieces
  alone do not: see below.

## What is proved

For which instances, module by module:

- `PieceLRU_proof`: any finite set of pieces of any size, any budget, lists of any length, any calls.
- `PieceCompletion_proof`, `PieceStorage_proof`: any finite set of pieces of any size, any files, any budget
  above zero, any capacity of the channel, any number of hashers, failures and crashes.
- `WebSeeder_proof`, `FallbackStore_proof`: any torrent, directories and failures, and any number of
  evictions and hashes under way.
- `TorrentMap_proof`: any finite set of torrents, any requests, any lease and any number of clients.
- `StatStream_proof`: any number of pieces and changes.
- `Layout_proof`: any number of files of any lengths (zero included) and pieces of any length; any number of directories.

The assumptions are the named `ASSUME`s of the modules; the runs evaluate them. That they are
not too much to ask is itself a theorem where it is not plain: every layout is a torrent (`LayoutsAreTorrents`).

Every invariant and action property of the passing runs is stated by a theorem for
all instances. Two means recur. Sums of sizes: the folds of the
community modules are recursive, and the provers do no induction over an operator, so `SumSize` is
the number of bytes, `Cardinality(BytesOf(S))` with one element for each byte of each
piece, and sums of disjoint sets are counted with the library's facts on finite
sets. Induction over numbers: a set of naturals has a least element (`LeastOf`, from the
well-foundedness of `<`), taken of the numbers for which a claim would be wrong.

*The layout.*

- `LayoutsAreTorrents`: the pieces, sizes and files of every layout satisfy the assumptions of `Torrent`: each piece of
  the range that completes a file is in the range that invalidates it, and the
  single file needs every piece. The end of a file is given by a recursive function; that
  it exists and grows is shown by the least file at which it would not.
- `DiskAlwaysHoldsPieces`: what `pieceFileRegions` cuts out for a piece, file by file, are the
  bytes of the piece and no others (`RegionsAreThePiece`), so that punching one piece leaves all others.
- `RowsAlwaysMeanWholeFiles`: the invariant has that all pieces of a file with a row are complete
  (`RowsHaveTheirPieces`); it holds because every piece of the range that completes a file invalidates it
  (`NeededIsAffected`), and gives the bytes because each byte of a file lies in a piece of its range (`ByteHasPiece`).
- `LastDigitsAreLost`, `OthersHaveTheirs`, `AddedDirMovesUp` of DataDirs: with two directories
  or more the torrents whose hash has the digits `fffff` get none (the end of the last bucket is exclusive, and the error
  returned is a nil one); up to a thousand directories all others have one; another directory moves a
  torrent up or leaves it. The proofs need the quotient and the remainder of the division only.

*The tracker.*

- `CallsTypeInvariant`, `CallsCountBytes`: the list has no piece twice and the count is the sum of its sizes.
  Each operation has its effect on list and set stated once (`TouchEffect`, `AddEffect`, `RemoveEffect`, `RecoverEffect`); the
  storage cites them too.
- `EvictionsAlwaysTwoPasses`: the model says which pieces must go and in which order; the code has two loops
  that stop when enough is freed. `Greedy` says of a list that it is in that order, that each of its
  pieces must go, and that all that come before a piece in it are in it; each turn of either loop keeps it (`FirstTurns`, `SecondTurns`), it
  is all that must go once a loop has stopped (`GreedyIsAll`), and a set has one ordered listing (`OneOrder`).
- `ProtectedAlwaysLast`, `EvictionsAlwaysJustEnough`: from the order and from the sums of what comes before a
  piece (`MustGoFits`: the pieces that must go free enough; `EvictionsNeeded`: without the last they would not).

*The completion store.*

- `CompletionInvariant`, `CountAlwaysAgrees`, `RestartFindsMemory`: the invariant is `CompletionTypeOK /\
  CountAgrees /\ CompletedFilesSound /\ MemoryMatchesDatabase`. None of the parts is
  inductive alone: that files found by the poller are complete needs the flag
  (`completed` makes every file complete), the flag needs the count, and the count
  needs the finiteness of the pieces.
- `CallsAreCompletion`, `StoreTypeInvariant`: the calls of PieceCompletionCalls are operations of the store, so that
  its invariant holds of them too.
- `OnlyFallbackLeavesHoles`: with the database in use, a piece whose eviction is under way is not
  complete in it, or was marked again meanwhile (`overtaken`). A hole which the database calls complete and
  which no mark has overtaken is then left only over the store in memory, whatever is written, hashed
  and evicted at the same time. The counterexample of `fallback` has no other cause.

*The storage.*

- `TypeInvariant`: `TypeOK` of the storage. Needs that `computeEvictions` and
  `recoverLRU` yield sequences of pieces, and that a goroutine that evicts has a
  victim.
- `StoreImplemented`: `Spec => CompletionSpec`, step by step: each action of the storage
  is an operation of the completion store or leaves the store alone.
  `StorageBookkeeping` gets two of the store's invariants for the storage from it.
- `HolesAlwaysAnnounced`, `HolesNeverForgotten`: the invariant is `HolesAnnounced /\
  NoForgottenHole /\ OneHasherPerPiece` on top of the types. `OneHasherPerPiece` is needed
  for `MarkNotComplete`: it stops announcing a hole on the strength of having
  unmarked it, which would be wrong if another hasher were about to mark it.
  `NoForgottenHole` needs `HolesAnnounced` whenever the library reads the completion of a
  piece. Each action has its case; `HolesKept` says once what they all must show.
- `NoticesImplemented`: `Spec => Promise!NoticesSpec`, action by action, on top of `Holes`: the hardest step is the
  return of a hasher, which ends the notice of its piece; that the record of a hole is gone by then, or
  another notice of it is under way, is `HolesAnnounced`. `NoticesSuffice`: in Notices alone, a hole that is recorded, or
  that the library takes for data, has a notice or its notice was lost.
- `UsedAlwaysCounts`: two goroutines may remove one piece and a third add it meanwhile; the count is that of the list
  because `Add` and `Remove` look at the list under the tracker's mutex. A crash starts from a sum over what was recovered.
- `BudgetAlwaysCovered`: the invariant (`BudgetInv`) adds that a goroutine that does not evict has no victims
  left over, and that the store is never closed, so that no statement fails unless `faults` says so. Choosing victims covers all that is over budget at that moment
  (`CoveredByEvictions`, from `MustGoFits`); a removal takes from the count what it takes from the pending pieces, also if another goroutine has the same victim (`CoveredRemove`).
- `CompleteAlwaysTracked`: the invariant (`TrackedInv`) adds that the library knows what the database has, unless
  a hasher has the piece in hand (`LibraryKnows`), and says which hasher will bring a piece back: one that is still
  to mark it or to hand it to the tracker (`MarkedInSight`). Without the first, the library could write
  data of a piece that is complete in the database and tracked by nobody.
- `GaugesOnlyWatch`: `MetricsSpec => Spec`: the storage with its gauges is a behaviour of
  PieceStorage, so that everything proved of that holds here.
- `GaugesStayExact`: the invariant (`GaugesInv`) adds to `GaugesExact` what it needs between the steps: where the
  threads stand that are to move the gauges (`ReportersWait`), that what they remember can be added up (`Sums`), and, while
  the gauges are not astray, that who has read the count and not yet removed has read what it still is, and
  that at most one has removed and not read again: the gauges then show what that one read before
  (`GaugesFollow`). One thread more or less in a sum makes the difference of its bytes (`RememberSums`,
  `DiscardSums`). A crash starts from what was recovered, which the gauges are set to.

*Torrents, files and streams.*

- `TypeInvariant`, `TimersGuardTorrents`, `LeasesAreKept` of TorrentMap: the invariant has
  `LeaseInv` (what is left of a lease and the time since somebody asked make up a
  lease; a timer that has gone off did so after a lease or somebody was late), `CountInv`
  (the gauge counts the timers, needed for its type), `HashInv` and `CloserInv`.
- `LeasesImplemented`: `Spec => Promise!LeasesSpec`, action by action. A timer goes off when
  the lease has run out (`LeaseInv`), `Drop` finds its torrent doomed, and closing an idle client is `CloseAll`.
- `TypeInvariant`, `RowsAlwaysCoverData`, `DoneAlwaysMeansOnDisk` of WebSeeder: the invariant
  adds `DataInv` to `RowsCoverData`: a piece in the database is on disk or unproven, and
  unproven if an eviction is still to punch it. It is needed twice: a poller writes rows on the strength of
  the database, and a punch must not meet a row that counts on the piece. The
  completion store is taken from `PieceCompletion_proof`; only the old poller and a crash, which do not
  use its methods, have cases of their own. The counting is a fact about subsets of a finite set.
- `TypeInvariant`, `ReceiverKnowsReply`, `EndsComplete`, `NothingSentAfterReturn` of StatStream: the
  invariant follows the statistics from the first byte count to the receiver:
  `ReadingInv` (statistics that claim all bytes and lost no piece have met complete pieces
  only), `RepliesInv` (so have the replies made of them), `EndInv` (what ends the stream was
  sent), `ReturnInv`.
- `WebServesTheStream`, `AtMostOneLatePing`: the stream over HTTP is a behaviour of
  StatStream. A ping that has been started may be written after the handler of the request
  has returned, which Go does not allow, but only one: the ticker has stopped by then.

Only model-checked: the liveness properties (`RowsAppear`, `HashersReturn`, `HolesLearned`, `OverBudgetEvicted`,
`IdleClientCloses`, `HandlerReturns`, `ViewCatchesUp`). They rest on fairness, hence on which actions are
enabled, and no prover at hand reasons about that.

## Where code and comments disagree

Each is a run that ends in a counterexample:

- `completion_readded`: the poller reads the flag `completed` after its scan, without a
  lock, and ends; pieces that were completed in between get no row, although the
  comment (`piece_completion.go:202`) promises that rows are added again after an
  eviction and a new download.
- `fallback`: when `NewPieceCompletion` returns an error, the storage uses a store in memory
  (`mmap.go:574`) and evicts over it. The database keeps calling the pieces complete, although
  `mmap.go:358` says that an eviction marks the piece incomplete in SQLite, and the next process that
  opens it takes holes for data. One statement of the poller is enough for such an error: its goroutine
  assigns the `err` that `NewPieceCompletion` is about to return (`piece_completion.go:207`).
- `storage_comment`: an announcement that meets a full channel is dropped; the comment
  (`mmap.go:409`) says that the sweep will catch up, but the sweep only evicts.

Met while modelling, without a run of their own: `mmap.go:425` takes the piece at the exclusive
end of a file as the file's last. When the file ends on a piece boundary that is the first
piece of the next file: evicting it deletes the row of a file that holds none of its bytes,
although `mmap.go:413` speaks of files that include the piece, and the file is
called complete only together with that piece (`TorrentLayout!EndPiece`). `Close` of the storage
(`mmap.go:201`) leaves the completion store open, and after the torrent is opened again the
old poller writes back a row that the new storage has deleted with an eviction
(`OrphanWrites`). The pattern of `file_cache_map.go:119` lets `_` and `%` in the name of a directory
match rows of other directories, which the comment in line 85 does not expect (`Matches` and `Under`
differ). `availableWithoutTorrent` (`web_seeder.go:304`) says that no torrent is needed if the vault has
the torrent, also when the vault has not the file and serving it falls back
to the torrent; and of a directory that is complete by its rows while a kept "no" of the last minute
still sends its files to the torrent. The README (line 109) says that the stream
sends on change, but a change of piece states that leaves bytes and peers alone (a
priority; one piece evicted and another completed) is not sent (`stat.go:196`); the metric
`torrent_web_seeder_active_torrents_count` (README, line 191) counts timers, which outlive a
client that is closed with a torrent in it and do not count leaked torrents
(`torrent_map.go:138`, `torrent_map.go:195`).

## What is not modelled

In the modelled parts: byte contents and hashing (a piece is on disk or a hole);
`lastAccess`, written and never read; read errors and `madvise`; the torrent that fits
its budget, for which `OpenTorrent` starts no sweep and no tracker; `Close` of the
storage while evictions run (FileCache opens a torrent again when they are over), and with it a sweep
that still receives pieces of a torrent that is no longer in the client (`mmap.go:190-198`, where
`verifyPiece` gives up: a storage that is open has its torrent in the client, which the models take from the library); what
`Close` takes off the gauges, the counter of evictions and the gauge of the budget. That a torrent
of a single file takes another branch of `GetCompletedFiles` is covered by the proofs and
not by a run. The streams of whole torrents: the library's count of their bytes may
include pieces that are not hashed yet, so that `EndIsComplete` is claimed for files only.
A response in
progress: the file that `http.ServeContent` sends may be punched meanwhile. A content file
that another program has removed. An answer of `FileCacheMap` that has outlived its
row is in the model and has no property: serving from it for a minute is what the code says. `TouchMap`,
a time stamp on the directory. The observer goroutine of `TorrentMap.Get`, which feeds histograms. `Close` of client and map at
the end of the process. That `Get` returns no torrent and no error when no store knows
it.

DataDirs and StatWeb are proved and have no run: the first speaks of a million digits, the other
adds pings to a stream that is run.

Whole parts. *Touch map* (`touch_map.go`): a time stamp, written at most once in
a while and read by another program. *Torrent stores* (`torrent_store.go`, `torrent_store_map.go`, `file_store_map.go`):
remote calls; in TorrentMap they are a fetch that succeeds or fails. *Web server and main*: flags, listeners,
wiring (whether the gRPC server starts depends on the flag for its host, `stat_grpc.go:58`, and not on the one
for its use). *Diagnose* and the demo *client*: output of measurements. The *protocol* is generated. `PieceReader` and
`ThrottledReader` are used by nothing. None of them keeps state that another part depends on.

## Plan

Done: everything under *The modules*. Left, in this order:

1. `Close` of the storage during evictions, with what it takes off the gauges.
2. The sources of a torrent file in TorrentMap one by one.
