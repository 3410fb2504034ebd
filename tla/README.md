# Verification of events-analysis

TLA+ specifications of the storage code of this repository, the TLC runs that
check them on small instances, and TLAPS proofs of what matters most for
instances of any size. Paths below are relative to the repository.

## 1. The system

The program stores blockchain events so that they can be read by position and
found by field.

| Component | State it keeps | Operations | Interacts with |
|---|---|---|---|
| packfile writer (`packfile/writer.go`) | the record being accumulated, the pipeline (two channels, workers, hash goroutines, `runWriter`), offsets, the file, `err`, `closed`, `fileClosed` | `Create`, `AppendItem`, `Finish`, `Close` | file system, zstd, content hash, intpack, index |
| packfile reader (`packfile/reader.go`) | the result of a background open, the file, per-call batches and workers, pooled buffers and decoders | `Open`, `ReadItem`, `ReadRange`, `ReadItems`, `Verify`, `Close` | file system, decoder, index |
| record codec (`packfile/decoder.go`), offset index (`packfile/index.go`), intpack | none, apart from pooled buffers | encode and decode | each other |
| content hash (`packfile/contenthash.go`) | the open chunk and the digests | `Add`, `Sum` | writer, `Verify` |
| bitmap index (`bitmapindex`) | field/key to bitmap map; two files, a minimal perfect hash and a packfile of bitmaps in rank order | `Add`, `Finish`, `Open`, `Lookup`, `LookupKeys`, `Close` | packfile, streamhash, roaring |
| event store (`eventstore`) | a packfile | append, read by position | packfile |
| RocksDB stores (`eventstore/rocksdb`, `bitmapindex/rocksdb`, `rocksdbutil`) | an SST file being written, a database | the same interfaces | RocksDB |
| event codec (`event/event.go`) | none | `Marshal`, `Unmarshal` | event store |
| ledger chunk reader, extractor (`reader.go`, `extractor.go`) | offsets and reusable buffers; the caller's slice of events | `NewChunkReader`, `ReadLedger`, `Close`, `ExtractEvents` | zstd, the Stellar SDK |

Where the difficulty is:

* **Concurrency.** A pipelined writer runs one caller, N workers, N hash
  goroutines, `runWriter` and a goroutine that closes `resultCh`, over two
  bounded channels, a pool of slices and three fields of `Writer` shared without
  a lock. `ReadItems` runs a pool of workers over an atomic counter. Readers open
  their files in the background.
* **Failure.** zstd and every file operation may fail at any moment; the caller
  learns of it late, from another goroutine, and may go on calling.
* **Crashes and retries.** Two files make an index, an SST file becomes a database, a
  packfile is written at its final path: a program may fail or be killed at any step,
  and the next one finds what it left.
* **Reuse.** Decoders, buffers, events and slices of events are used again, and some of
  what is returned is a slice of them.
* **Ordering.** Blocks are processed in any order and written in one; batches are
  delivered in any order and must all be delivered.
* **Widths and boundaries.** Counts and sizes are cut to 32, 16 and 8 bits; last
  records, last groups and last chunks are partial; values are bit-packed.

What makes each component correct:

* writer: the file is always a prefix of the items in order; a trailer is only
  written over a complete file, with true counts, index and hash; an error is
  final; a closed writer has left a complete file or none; calls return and
  goroutines end.
* reader: a call that returns no error has delivered every position once, with
  the item the writer was given; the file is closed once; what cannot have been
  written by a writer is refused.
* codecs and index: decoding is the inverse of encoding over their whole domain.
* bitmap index: `LookupKeys` agrees with `Lookup`, a key that was added is found,
  and a failed `Finish` leaves nothing that opens.
* stores: the two implementations of one interface answer alike, position by position
  and key by key, and close what they opened.

`PROJECT.json` lists the hazards line by line, with the properties that cover them.

## 2. Modules

| Module | What it is |
|---|---|
| `PackWriter` | the packfile writer, serial and pipelined, and its properties |
| `ItemFile` | what the writer promises: an append-only list of accepted items and a file that is open, sealed or removed |
| `PackReader` | the packfile reader shared by several goroutines |
| `EventReader` | the event store's reader, composed with `PackReader` below it |
| `KeyedReader` | what every store's reader promises: a call is answered key by key in the order of its keys, or fails; a closed reader answers no more |
| `IndexReader` | the bitmap index reader: two loads, `Lookup`, `LookupKeys`, `Close` |
| `RocksReader`, `RocksIndexReader` | the readers of the two RocksDB stores |
| `IndexWriter` | the bitmap index writer and the two files it leaves, program after program |
| `RocksStore` | the two RocksDB writers and `IngestSST`, program after program |
| `PackFileSystem` | packfile writers and readers of one path, kills, crashes and `Overwrite` |
| `RecordCodec`, `OffsetIndex`, `IntPack`, `EventCodec` | the formats, from values to bytes and back |
| `LedgerEvents` | a chunk of ledgers read, and events extracted from it |
| `MCPackWriter`, `MCPackReader`, `MCEventReader`, `MCRocksIndex` | instances for TLC; `MCPackWriter` has the refinement `PackWriter` => `ItemFile` |
| `MCLookups` | an instance of `IndexReader`, and of `RocksReader` beside it |
| `MCCrashes` | an instance of `PackFileSystem`, and of `IndexWriter` and `RocksStore` beside it |
| `MCFormats` | instances of the formats and of `LedgerEvents` |
| `PackWriterProofs` | theorems of `PackWriter`: types, control, the order of the file, how a writer ends; slices and digests; what is sealed, and the refinement of `ItemFile` |
| `PackReaderProofs` | theorems of `PackReader`: release, decoders, delivery; on top of them those of `EventReader`, and its refinement of `KeyedReader` |
| `IndexReaderProofs` | theorems of `IndexReader` and its refinement of `KeyedReader` |
| `RocksIndexProofs` | theorems of `RocksIndexReader` and its refinement of `KeyedReader` |
| `IndexWriterProofs` | theorems of `IndexWriter`: what any number of programs leave |
| `RocksStoreProofs` | theorems of `RocksStore`: what retries leave, what a `nil` of `Finish` means |
| `PackFileProofs` | theorems of `PackFileSystem`: what kills and crashes leave, what readers see of it |
| `IntPackProofs` | theorems of `IntPack` |

Three compositions are real ones: `EventReader` extends `PackReader` and hands its workers a
callback; `PackFileSystem` puts writers and readers on one file; `PackReader`, `PackWriter`,
`RecordCodec` and `OffsetIndex` rely on each other by contract (an item is its position, a
record decodes or not, a group of the index unpacks to what was packed), and each contract
is a property checked in the module below. `MCLookups`, `MCCrashes` and `MCFormats` are
not compositions: the components they hold do not interact. They draw a *scenario* in
`Init`, one component with its bounds, and every behaviour stays in its scenario, so that
one run answers one question for all the components it concerns. The variables of the
components that do not take part stay as they are.

### PackWriter

*State.* The variables are the fields of `Writer` (`buf`/`sizes` are `buf`; `total`,
`err`, `closed`, `fileClosed`, `nextBlockID`, `offsets`, `digests`, `pos` is
`Len(file)`), the local state of each goroutine (`wpc`, `work`, `hashOut`;
`rpc`, `pending`, `nextWrite`), the contents of the channels (`workCh`,
`resultCh`, `doneMsg` for `writerDone`), and the file (`file`, `index`,
`trailer`, `exists`). `workState` is the channel field `workCh` itself: open,
closed, nil after `Finish` has drained the pipeline, or the panic of a second
`close`.

*Actions.* A call of the API that takes no blocking operation is one action
(`Refuse`, `AppendBuffered`, `AppendSerial`, `FinishSerial`, `CloseAgain`). A
call that may block is cut where it may block: `AppendPipelined` then
`AppendSend`; `FinishFlush`, `FinishSend` or `FinishDrain`, `FinishJoin`, then
`Seal`, `WriteIndex`, `WriteAppData`, `WriteTrailer`, `Sync`, `FileClose`, each of
which may fail (`SealFails`); `CloseBegin`, `CloseJoin`, `CloseFile`. `pc` says
where the call stands. A worker receives, formats, collects the digest,
sends; its hash goroutine hashes in between (`HashBlock`). `runWriter` receives,
writes what is due, drains after an error, exits.

*Data.* The k-th item is the number k and a record occupies one cell per item. So
a missing, repeated or misplaced item shows as a wrong number in `file`. Sizes
slices keep their contents when they go back to the pool, so that a slice used
by two blocks shows in a digest. SHA-256 is injective: the digest of a chunk is
the chunk; a hash goroutine that reads a payload cut by the wrong sizes, or
already rewritten in place, yields `Garbage`.

*Races.* `runWriter` stores `w.err` while the caller reads it with no
synchronisation. `ErrReads` lets every read before the join return the old value
too. The payload of a block is shared by the worker and its hash goroutine:
their steps are separate, and only the wait for the digest orders them.

*Left out.* The bytes of a record (`RecordCodec`); the content of the
app data; `AppendItem` with no argument, which returns at once; a failure of
`os.Remove`; the wrap of `nextBlockID`, which takes 2^32 blocks; a pool that
runs dry, which it cannot with more slices than blocks that can hold one
(`WriterAssumption`); writeback, a hint to the kernel. A section of the file written
in part is as good as none, since only the trailer makes the file readable.

### ItemFile

Three variables: how many items were accepted, which are stored, and whether the file
is open, sealed or removed. Items are stored in order and only while the file is
open; sealing requires that all accepted items are stored and none other; nothing changes
a sealed or removed file. `MCPackWriter!Abstract` maps `total`, `file` and the
pair `fileClosed`, `exists` to them.

### PackReader

*State.* Three sets of processes. The goroutine `Open` starts (`opener`), with its channel
(`openCh`), the `sync.OnceValue` around it (`once`, `openErr`), `closeOnce` and the
file handle. The callers (`cpc`, `req`, `ret`, `got`), each in one call at a time, with
the variables of `ReadItems`: the batch being cut (`cut`), `batches`, `nextBatch`,
`cancelled`, `firstErr`, and its context (`ctxDone`). The workers (`wpc`, `local`, `dec`), and
the decoders of `decoderPool` (`pool`, `decoded`).

*Actions.* `OpenFile`, `CheckFile` are `doOpen`. A call begins (`Read`, `CallClose`), passes
`closeOnce` (`EnterClose`) and `waitOpen` (`EnterWait`, `RecvOpen`), then closes the file
(`CloseFile`), is refused (`Refused`) or cuts its positions (`Split`, `SplitNext`,
`Launch`) and waits for its workers (`Join`). A worker takes a decoder, claims a batch,
looks at the flag and at the context, reads, and decodes and delivers item by item;
the claim and the look at the flag are separate steps, as they are in the code.
`ReadItem` and `ReadRange` run in the goroutine of the caller: here its first worker
stands for it, and the neighbours a range reads at once are the batches of the same
partition without the share of the positions. A consumer that leaves a range early is an `fn` that
fails.

*Data.* An item is its position, a piece of the file the interval of offsets it covers, a
decoder the record it decoded last. So an item delivered from another record, or at another
index, shows in `got`, and a slice outside of the buffer as the cause `"panic"`.

*Left out.* `Verify` (`PackFileSystem`); requests for nothing, which return at once; the panics of
`ReadItems` and `ReadRange` on positions out of range or order, a precondition stated in
`ReaderAssumption`; `readBufPool`, held and given back together with the decoder;
what is wrong with the file in detail: `CheckFile` fails or not, and a record decodes or not. A pool
that is empty makes a new decoder; there is one for every worker here.

### EventReader

*State.* That of `PackReader`, and per caller: whether it is inside the packfile reader or yields
(`stage`), the slice of results the callbacks write (`results`), the events it has been
given (`held`) and how its call ended. A byte slice is a copy or a slice of a
decoder's buffer, which shows what the decoder holds when it is looked at (`Value`).

*Actions.* `BeginCall` is the call, `Callback` the function `ReadPositions` or the loop over
`ReadEvents` runs in a worker (`PackReader!WorkerFn` with what it does), `Returned` and
`Yield` what follows. `Inside` is every other step of `PackReader`. Callers close after their
last call: no document allows `Close` during an iteration.

### IndexReader

*State.* The MPHF's goroutine, its channel and `sync.OnceValues` (`loader`, `loaded`, `once`),
the two files, `closeOnce`; per call, `found` sorted by rank, the ranks whose group waits for a
callback (`todo`) and, per rank, the position in `found` its callback has reached (`running`). `query` is what the
MPHF answers: any rank or none for an unknown key. `damaged` are entries that do not deserialize, `faults`
what goes wrong in this behaviour; both are drawn in `Init`.

*Actions.* `Start`, the wait for the MPHF (`FirstWait`, `LaterWait`), `Lookup`, `QueryKeys`, one
action for each start, key and end of a callback, `ReadFails`, `ReadReturns`; `EnterOnce`,
`CloseMPHF`, `CloseData`. `ReadItems` is used by its contract, which `PackReader` checks: it
runs at most `Concurrency` callbacks, each group once, and waits for them.

### RocksReader, RocksIndexReader

*State.* `sync.Once` (who runs the open), the error it left, the database, the cached count,
`closeOnce`; per call the shares of its workers, what they have written and the first error.
A share is done step by step by its worker; `Join` waits for all. RocksDB is external: a get
or a step of an iterator returns what is there or fails.

### IndexWriter, RocksStore

*State.* What one program has in memory and what the directory holds. Both draw a sequence of
programs: each adds, finishes step by step, fails at any of them, is killed between any two, and
`NewProgram`/`NextProgram` starts another on the same directory. `RocksStore` has the event
writer and the index writer side by side. The MPHF builder and RocksDB are external: a
builder given the same keys gives the same ranks; an ingest is atomic.

### PackFileSystem

*State.* For each file its cells as programs see them (`file`), and what may be found after a crash (`disk`, per
cell; `sizes`; `names` for the directory). A record, the index and the trailer are cells. `Crash`
draws each of them on its own: nothing that was not synced is ordered. `Kill` loses the
process only. `Replaced` says that a program with `Overwrite` has truncated the file. Readers keep what the trailer said at open (`sees`) and the file itself (`open`), so an
overwritten file shows. `Verify` hashes record by record.

### RecordCodec, OffsetIndex, IntPack, EventCodec, LedgerEvents

Each is a machine whose steps are the calls of the code on reused buffers, not one function on
one input: what an earlier call left is part of the state.

* `RecordCodec`: a record of any format is written and one pooled decoder reads records of several
  files, whole or damaged. A byte is the item it belongs to and its place there. A zstd frame is its
  header, content and checksum: damage to the content is detected, but a header that says the
  content has no byte ends `Decode` before anything is checked (`zstd/zstd.go:185-187`), and one that
  asks for more than memory holds makes it panic (`:190`). A size is cut to 32 bits (`SizeMod`).
* `OffsetIndex`: `encodeIndex` group by group, `decodeIndex` backward, by the lengths of the groups.
  The plausibility check and the checksum are there.
* `IntPack`: the buffer is the set of its bits that are one. `Pack` is the 8-byte
  read-modify-write, `Unpack` both ways of reading; `access` is the last slice taken of the buffer.
* `EventCodec`: `Marshal` into a reused buffer, `Unmarshal` of it, cut anywhere or followed by
  something else, into a reused event; counts are cut to their widths.
* `LedgerEvents`: `NewChunkReader` over whole, cut, descending or foreign index files,
  `ReadLedger` at every index, of frames that are sound, damaged, or have one of those two
  headers (`Damage`); `ExtractEvents` transaction by transaction. An event keeps a slice
  of the hash of the loop's variable `tx`: `txs` holds one variable per turn.

## 3. Properties and runs

| Property | What it says |
|---|---|
| `PrefixInOrder` | the record area is always a prefix of the items, in order |
| `SealedComplete` | a trailer is only written over a file with every item, true counts and an index that locates each record |
| `SealedHash` | the hash in the trailer is the serial definition's, whoever computed the chunks |
| `SlicesOwned` | a sizes slice has one holder |
| `FinalFate` | a closed writer has left a file if and only if `Finish` completed it |
| `NoPanic` | `workCh` is never closed twice |
| `ErrorIsFinal` | after a call has returned an error no later `Finish` completes the file |
| `ImplementsItemFile` | every behaviour is one of `ItemFile` |
| `CallReturns`, `GoroutinesEnd` | calls return; once `workCh` is closed every goroutine ends |
| `CompleteOrRemoved` | with `defer w.Close()` the end is a complete file or none |
| `DeliveredOnce` | no index is handed to `fn` twice, nor with an item it did not ask for |
| `NilMeansAll` | a read that returns nil has delivered every index |
| `ErrorHasCause` | a read reports an error only for a reason of its own or of the file, and slices no buffer out of range |
| `DecodersOwned` | a decoder is in the pool, empty, or with one worker; a call that has returned holds none |
| `NotLeaked` | once `Close` has returned the file is not open and the open is over |
| `CallsReturn` | every call returns |
| `NoRace` | callbacks and workers that run at once write different elements of what is returned, and none writes after it is |
| `ImplementsReader` | of `EventReader`: it is a `KeyedReader`, answered in order, with bytes no decoder will overwrite; of `IndexReader`: it is one, where an unknown key gets nil or the bitmap of a key with its fingerprint; of `RocksIndexReader`: it is an exact one |
| `Released` | after `Close` nothing is open nor will be |
| `TrueAnswers` | what the index answers for a key depends on the key alone, not on the batch, the callbacks or other callers; an unknown key fails no call |
| `EventAnswers` | `RocksReader` is a `KeyedReader`; what is missing or out of range is said to be; no read touches a database that is not open, and `Close` leaves none |
| `IndexWhole` | two files that open are the index of the stream; `Finish` says what it leaves; a packfile of another program stays |
| `EmptyOrWhole` | while programs try to write the same entries, a database that opens is empty or has all of them |
| `FinishTrue` | when `Finish` returned nil the store holds all it was given, whatever was there before; no SST file is left by a success |
| `FinishedWhole` | what `Finish` reported is whole wherever its name survives, and nobody who fails removes it |
| `ReadsItsFile` | a reader of a file in whose records a missing part is found (`Checked`: not Raw, nor Compressed with one item a record) gets the records of the file whose trailer it read, or an error |
| `VerifyTrue` | when `Verify` returns nil the file holds every record its writer wrote, checksums or not; of the app data, which has no checksum, it says nothing |
| `InBounds`, `RoundTrip` | bit packing stays in its buffer and comes back |
| `FilesRight` | each record is found where it was written; a decoder that decoded has this record's items, whole, but for a damaged Raw payload and a frame that says it is empty, which leaves empty items only; a record as it was written is refused for known reasons only; a ledger is read as what it is, as an empty one for such a frame, or not at all, and its events are extracted once, in order, with their transaction's hash |
| `DamageRefused` | a damaged Compressed record does not decode: what `packfile-library.md` says, and the code does not do |
| `EventsRight` | an event comes back as it was, whatever buffer and event were used before; no header is a mixture |

Where a property of a run joins several of its modules (`IndexWhole` is `WholeIndex`, `FinishSays`,
`DataKeptStep` and the types; `FilesRight` has a part per format), its parts are stated one by one in those modules.
`TypeOK` of the components with proofs is a theorem and no property of a run; TLC checked each before.

| Run | Instance | Shows |
|---|---|---|
| `pipelined` | 3 workers, records of 2, content hash, 6 items, counts of at most 5, 7 slices, 1 encode failure, file failures | order of the file with overtaking blocks, sealing, the width check, hashing, slices, closing and errors; refinement of `ItemFile` |
| `serial` | 1 worker (no goroutine), records of 3, content hash, 8 items, counts of at most 7, failures | the serial path, the streaming hash |
| `liveness` | 2 workers, records of 1, 7 items, 1 encode failure | calls return, goroutines end |
| `all_fail` | 2 workers, records of 1, 6 items, 2 encode failures | the violation described below |
| `reader_items` | `EventReader`: 1 caller, 2 workers, 4 records of 2 events (the last partial) of 2, 3, 1, 4 bytes, a buffer of 5; every list, range and position; the caller stops, the context ends | partition, claims, delivery, ownership of the bytes |
| `reader_shared` | 2 callers, 1 worker each, 3 records in 2 batches; every fault, `Close` at any time | shared file, decoders, open and close; calls return |
| `lookups` | 5 scenarios: `IndexReader` and `RocksReader`, each with 1 caller and every batch (2 or 3 workers), and with 2 callers while it opens or fails to; a database that lost events | answers, races, release, calls return |
| `rocks_index` | `RocksIndexReader`: 2 callers, 3 workers, 4 keys (one damaged, one unknown), batches of 2, 3, 4 and 5 keys with a repetition; failing opens and gets | sorting, shares and scatter; release, calls return |
| `crashes` | 3 scenarios. `PackFileSystem`: 3 writers of packfiles of 2 records with checksums, of 1 without, and of 1 that overwrites; 1 reader, kills at any step, 1 crash. `IndexWriter`: 4 programs, an index of two events and a key no event has. `RocksStore`: 3 programs, up to one event too many | what failures, kills and crashes leave, what a reader and `Verify` make of it, and what the next program does |
| `formats` | 5 scenarios: groups of every width, indexes of up to 5 records, records of 30 small files, 7 events, 12 index files over 8 ledgers, three of them damaged | formats over every small input, reuse included |
| `empty_frame` | the instance of `formats` | the violation described below |
| `rocks_count` | `RocksReader`, 1 caller, the count may fail | the violation described below |

*Bounds.* `MaxItems` ends the appends and `MaxEncodeFaults` the zstd failures. In a
pipelined run each channel holds as many blocks as there are workers, so the pipeline
of N workers holds at most 3N blocks and one at the sender. With two workers,
records of one item and seven items, `workCh` is filled and the caller blocks with
every worker busy. With three workers and six items in records of two, every worker
holds a block and any order of completion occurs; a failure leaves a partial one. `UintMax` stands for 2^32-1, and the `pipelined` and
`serial` runs are offered one item more. The slices are more than the blocks that can hold one. The proofs need none of these bounds.

`Requests` bounds what a reader is asked for. Seven items in four records give every
outcome of the partition: the same record again, a neighbour that fits, one that does not
fit the buffer (2 and 3 bytes fill it, 1 and 4 too, 3, 1 and 4 overflow it), one that does not fit the
share, a gap, and a partial last record. There the workers of one call meet; in `reader_shared`
it is two calls that do, each with a worker and two batches, in `once`, `closeOnce`, `openCh` and
the pool of decoders. The theorems need none of these bounds.

In `lookups` a batch has up to three keys of four with repetitions, in every order, so that a group
holds one key or several, an unknown key comes first, between or last, or
shares its fingerprint with an indexed one; with three workers and up to five
positions or keys (`rocks_index` too) the shares rounded up leave the last worker one, two or none. A scenario has the
faults its calls can meet: damage where answers are compared, failing opens where two callers wait. In `crashes` a kill of a program that builds an index or a store may come
between any two steps of the last program but one, and the following two find what it
left; more programs find nothing new, since a program starts from the directory alone. They write the
same entries, as a retry does, or others. There too, two
writers of packfiles of different lengths, and of the same length, are what a reader may confuse; the theorems hold
for any number of crashes.
`MaxCount` is 3 for 2^32 and one input has one event more. In `formats` widths go from 1 to 32 with
up to 18 values, which is every shift within a byte and the safe limit from both sides; a group
of the index has two values instead of 128, five records are whole, partial and several
groups; the moduli (4, 3) stand for 2^8, 2^16 and 2^32, with counts on both sides of them.

*Fairness.* `Fairness` gives weak fairness to the call in progress, to each worker, to
each hash goroutine and to `runWriter`: Go runs every runnable goroutine, and a
channel operation that stays possible is taken. No fairness is given to the start of a call:
the program may never make another. `ClosingSpec` adds weak fairness to
`CloseBegin`, for the idiom `defer w.Close()` that the comment of `Close` gives.
The `liveness` run lets file operations succeed, since their failures only end calls
earlier, and lets fewer workers fail than there are.

For the readers, weak fairness goes to the goroutines of `Open`, to the call in progress and to
each worker; callbacks are assumed to return, and no call is obliged to begin. (In `lookups` and
`rocks_index` the steps of a call's workers are steps of the call.)

*Deadlock* is checked in every passing run but `crashes` and `formats`: a closed writer still
answers calls, and an idle goroutine may always call a reader again. The other two really stop: the
last program has ended, or the group has been unpacked.

*Disagreements.* Three runs expect a violation.

* `all_fail` lets every worker fail. A worker returns after an encode
error (`packfile/writer.go:239-242`); `runWriter` reports it in `writerDone`, which
nobody reads before `Finish` or `Close`, and does not set `w.err`. The caller goes on
appending; when the channel is full, the send in `flush` (`:404`) blocks for ever, so
`defer w.Close()` does not run and the file stays. The comment of `Close` and
`packfile-library.md` promise that it is removed.
* `rocks_count`: `EventCount` takes an iterator that is not valid for an empty store and does not ask
  it for its error (`eventstore/rocksdb/reader.go:81`), unlike `ReadEvents` (`:155`), and keeps the
  zero. One failed read of the last key makes `ReadEvent` answer positions that are there with
  `ErrPositionOutOfRange`, for the life of the reader; `eventstore/reader.go:12` says that error is for
  positions out of bounds.

* `empty_frame`: `Decompressor.Decode` returns an empty slice and nil when the header of a frame says that
  its content has no byte (`zstd/zstd.go:185-187`), before zstd has looked at the frame or its
  checksum; `Compressor.Encode` never writes such a frame. One damaged byte is enough where the size takes
  one (less than 256 bytes), and so is a magic number that became that of a skippable frame. With one
  item a record nothing else looks at the payload, and the item is delivered empty, without an error.
  `packfile-library.md` (`:361`, `:413`) says that the content checksum is verified. In a record of several
  items the sizes of the index, which has a checksum of its own, give it away. `ReadLedger` returns an
  empty ledger for such a frame (`reader.go:115`), which `ExtractEvents` then refuses.

Others were met while modelling and have no run of their own; the properties say where they except them:

* An Uncompressed record all of whose items are empty is written and never decodes: the check for
  its checksum wants a byte of payload (`packfile/decoder.go:141`). `FilesRight` excepts it;
  `RecordCodec!EveryRecordDecodes` states what `packfile-library.md` promises.
* A compressed item of 4 GiB or more, alone in its record, comes back as its first bytes and no
  error (`packfile/decoder.go:172`). The files of the run with a size that is cut have two items a record.
* `Overwrite` says "any existing file is removed before creation" (`packfile/writer.go:45`); `Create` truncates it
  in place, and a reader that has it open gets records of the new one where the sizes agree. `ReadsItsFile`
  and `VerifyTrue` except a file that was `Replaced`.
* `FORMAT-COMPARISON.md:107` says "Atomic write with temp file + rename + directory fsync" and `:78`
  that the directory is synced. `Create` opens the final path and `Finish` syncs the file only.
  `PackFileSystem!AtomicWrite` and `FinishedStays` state the two promises.
* `IngestSST` "creates a new RocksDB" (`rocksdbutil/rocksdbutil.go:127`); over a database that is
  there its entries are laid over the old ones. `EmptyOrWhole` is about programs that write the same entries,
  as a retry does (`Retried`); `FinishTrue` is about any.

And some behaviour no document speaks of: a packfile that a killed program left makes every later
`Finish` of the index fail and remove the MPHF it has just built (`bitmapindex/writer.go:180`); `ReadEvents`
on RocksDB counts steps of an iterator and does not look at keys (`eventstore/rocksdb/reader.go:145`), so
in a database that has lost an event the following ones come at the wrong positions; `Close` there does
not wait for reads (`:271`).

## 4. Proofs

The theorems hold for every value of the constants that the named assumptions allow
(`WriterAssumption`, `ReaderAssumption`, `OwnersDiffer`, `IndexAssumption`, `RockIndexAssumption`,
`FileAssumption`, `GroupsAssumption`; `IndexWriterAssumption` and `StoreAssumption` are hypotheses of the theorems about their
modules, and `MCCrashes` assumes them of its instances), and rest on nothing else. Every invariant below was checked by TLC on small instances before
it was proved. The proof that a step keeps an invariant has a lemma or a step for each kind of
action; facts that hold of many actions at once ("no goroutine touches what the caller decides
with") are lemmas of their own.

### The writer

Any finite set of workers and of slices, any record size, any format, any failures and calls
(`PackWriterProofs`).

* `TypeCorrect`: `Spec => []TypeOK`.
* `NeverPanics`: `Spec => []NoPanic`. `ControlInv`: where the call stands determines the state of the
  channel field, as do `closed`, `err` and whether the writer is pipelined.
* `WrittenInOrder`: `Spec => []PrefixInOrder`. `PrefixInOrder` says nothing of blocks that are still to be
  written, so it is strengthened to `OrderInv`: the items in `buf` and in `out` are those that
  follow the blocks sent (`BufferInv`, `OutInv`), the number of items accepted agrees with
  `nextBlockID` (`PositionInv`), and every block in a channel, at a worker or pending holds exactly
  the items of its `blockID` (`FlightInv`). Then the block `runWriter` writes at its turn continues the file.
* `FateDecided`: `Spec => []FinalFate`, from `EndInv`, how `closed`, `fileClosed` and `exists` go together
  at each point of a call.
* `ErrorsFinal`: `Spec => ErrorIsFinal`, an action property. It needs `ErrorInv`: `runWriter` sets `w.err` only
  together with a message in `writerDone`, so a caller that missed the first (the read is not
  synchronised) finds the second in `Finish`.
* `SlicesSeparate`: `Spec => []SlicesOwned`. `SliceInv`: the blocks nobody has hashed yet (at the sender, in
  `workCh`, at a worker whose hash goroutine still reads) have a slice each, out of the pool, and it
  holds their sizes. With it goes `DigestInv`: a digest is that of the block it travels with.
* `SealedFilesComplete` and `SealedFilesHashed`: `Spec => []SealedComplete`, `Spec => []SealedHash`. The
  argument has three parts. Nothing sent is lost: unless somebody has given up (`GivenUp`: an error, a
  message, or the writer closed), every block between `nextWrite` and `nextBlockID` is in flight and
  `runWriter` waits only for the next one (`FlowInv`; `IdleInv` says when a goroutine may stop). What is
  written is laid out right: each offset is `ItemsPerRecord` further than the one before, each digest
  that of its record, only the last record is short (`ShapeInv`, `WrittenInv`; `SerialInv` for a
  serial writer). So everything is there when `Finish` begins to seal (`ReadyInv`), and stays as
  the trailer says (`SealInv`).
* `WriterImplementsItemFile`: `Spec => ImplementsItemFile`. Each step is shown to append accepted items to
  the file, accept one, seal, remove, or leave all three as they are. A complete file is not touched again since the
  call that wrote the trailer is the last to change anything (`SettledStays`).

### The readers

Any callers, workers, decoders, files and faults.

`PackReaderProofs`:

* `NeverLeaked`: `Spec => []NotLeaked`. `NotLeaked` is not inductive: a `Close` that ends
  must know that the open is over, and that a failed open shut its own file. `LeakInv`
  adds both: whoever has a result (in the channel, in `once`, or past `waitOpen`) has it
  from an open that is over (`OpenKnown`), and a failed one left no open file (`FailedIsShut`).
* `NeverShared`: `Spec => []DecodersOwned`. `OwnInv` adds that a worker holds a decoder only between its
  start and its exit, and only while its call is still in `ReadItems` (`HeldInside`).
* `ReaderTypes`, `NothingTwice`, `NothingMissing`, `ErrorsAreReal`: `TypeOK`, `DeliveredOnce`, `NilMeansAll` and
  `ErrorHasCause` always hold. They share one invariant, `ReadInv`. `SplitInv`: the batches cut so far are
  intervals that follow each other and leave no index out, and the records of an interval lie
  between its first and last (`Partition`, `Fits`). `WorkerInv`: no two workers of a call hold one
  batch, the buffer is the bytes of its records, and the decoder holds the record of the
  previous position, which is why a record need not be decoded again. `GotInv`: an index of a batch that is not claimed is
  untouched; of one that is with a worker, it is delivered exactly if the worker is past it; of one that no
  worker has any more, it is delivered or a worker has failed (`IndexDone`). `OpenInv` and `ReturnInv` trace each
  error to its cause; "panic", a slice out of the buffer, has none.

The same module, about `EventReader` with `PackReader` below it:

* `StoreTypesHold`, `CallbacksApart`: `StoreTypeOK` and `NoRace` always hold.
* `StoreImplementsReader`: `StoreSpec => ImplementsReader`. `StoreInv` adds to `ReadInv` where the call stands in
  both components (`StageInv`), that `ReadItem` and `ReadRange` run in the caller's goroutine alone
  (`LoneInv`), and that what the callbacks have left is a copy of exactly the items delivered so far
  (`AnswerInv`). `ReadInv` is kept by a step of the store because such a step is a step of
  the packfile reader or leaves it alone.

`IndexReaderProofs`, for any keys, ranks, fingerprints, batches and answers of the MPHF:

* `IndexTypes`, `CallbacksApart`, `AnswersAreTrue`, `CloseReleasesFiles`: `TypeOK`, `NoRace`, `TrueAnswers`,
  `Released` always hold. They share `IndexInv`. `LoadInv` is about the two loads: whoever is past the wait for the
  MPHF knows that its load is over, so the `Close` that finds it not open leaves nobody who would open it. `ReadInv`
  is about a call inside `ReadItems`. `found` is `Sorted`: every key of the batch that has a rank has exactly one place,
  under its rank, and equal ranks are neighbours. So the positions of two ranks are apart (lemma `Groups`),
  and a callback, which stands inside the group of its rank, writes where no other does. A position is `Pending` while its
  group waits or its callback has not passed it; every other has its answer, which is that of the key alone
  (`AnswerTo`: the fingerprint matches or nil is returned); so when nothing is pending the whole batch is
  answered. A call that fails does so for a cause (`Blamed`): of the file, the context, or an entry that one of its keys hits.
* `IndexImplementsReader`: `Spec => ImplementsReader`. A step is one of the abstract reader's or leaves the
  answers alone; that an unknown key gets nil or a bitmap with its fingerprint follows from `AnswerInv`.

`RocksIndexProofs`:

* `LookupTypes`, `WorkersApart`, `CloseReleases`: `TypeOK`, `NoRace`, `Released` always hold.
* `LookupsImplementReader`: `Spec => ImplementsReader`. Lemmas about the operators say that the shares, rounded up, are
  apart, not empty, and cover the batch (`SharesApart`, `SharesCover`), and that the sorted order is a
  permutation (`SortIsPermutation`). `LookupInv`: unless a worker has failed, each position is read or
  lies ahead of the worker that has its share, and what was read is the bitmap of the key sorted there;
  so scattering puts under each key its own (`ScatterRight`).

### The files and the stores

`PackFileProofs`, for any number of writers, readers and crashes:

* `FileTypes`, `ReportedIsWhole`, `ReadersSeeTheirFile`, `VerifyFindsHoles`: `TypeOK`, `FinishedWhole`,
  `ReadsItsFile`, `VerifyTrue` always hold. `CrashInv` has four parts (and `ShutInv`, about closed readers). `WriterInv`: a program that writes has the file at
  the path, alone, its cells are written in order, and once it closes the file all of them are `Durable`, that is, a
  crash has one outcome for each. `PromiseInv`: a file that `Finish` reported and that may be under its name is
  whole and durable, so a crash leaves it so. `OwnCells`: unless it was `Replaced`, a file holds at each place its
  writer's cell or a hole, now and after any crash; two packfiles never mix. `ReaderInv`: a reader has the trailer of the
  file it has open, whose writer writes no more, and what `Verify` has hashed is still there.

`IndexWriterProofs`, for any stream of events and number of programs:

* `IndexFilesTyped`, `IndexIsWhole`: `Spec => []TypeOK` and `Spec => IndexWhole`, under `IndexWriterAssumption`.
  The run's `IndexWhole` is that of the instance in `MCCrashes`. `BuildInv` says
  of the program's memory (`MemoryInv`) that while it adds, the map is the bitmaps of the events so far
  (`Indexed`; lemma `OneMore`), and later that of all, or dropped; and that the entries it writes are those of all, each at the
  rank of its hash (`AllRanked`). Of the files (`FilesInv`) it says that each that is complete holds what every program
  would write, since the ranks depend on the keys alone (`RanksApart`), and which of them can be the program's
  own at each point of `Finish`: only a path with no file lets `Create` succeed, so a packfile that is removed or
  written is never another's. What the map says of a field and a key is what the events say (`AllRight`, `HashedIfThere`).

`RocksStoreProofs`, for any entries and number of programs:

* `StoreTypes`, `RetriesEmptyOrWhole`, `FinishKeepsItsWord`: `TypeOK`, `EmptyOrWhole`, `FinishTrue` always
  hold under `StoreAssumption`; the run's are those of the instance in `MCCrashes`.
  `StoreInv`: what the event writer has taken is its first events, each at its position (`EventsInv`), what the index
  writer has, a part of its bitmaps (`IndexInv`); an SST file that is ingested is whole, whatever file was there
  before; what an ingest lays over the database is there when `Finish` returns nil, and where every
  program writes the same entries the database is never anything between empty and whole (`IngestInv`).

### The formats

`IntPackProofs`, for any set of groups of 32-bit values:

* `TypeCorrect`: `Spec => []TypeOK` of `IntPack`.
* `NeverOutOfBounds`: `Spec => []InBounds`. An access of 8 bytes at value `j` ends before the length
  because `j * width` lies below the packed bits; of the reads only those past the safe limit are
  guarded, and the limit is what makes the others fit.
* `RoundTrips`: `Spec => []RoundTrip`. The inductive invariant `PackInv` says that while packing, the
  bits that are one are exactly those of the values packed so far, each at `j * width`, and while
  unpacking, those of all of them. The arithmetic of shifts (a bit of one value is a bit of no other) is
  in lemmas of its own.

### What TLC alone checks

* Liveness (`CallReturns`, `GoroutinesEnd`, `CompleteOrRemoved`, `CallsReturn`): fairness is out of the prover's reach.
* `EventAnswers`: `RocksReader` is like `RocksIndexReader`, over positions instead of keys, and not proved yet.
* `FilesRight`, `EventsRight`: what is decoded is a recursive function, or
  a fold, of the bytes, and that it inverts the encoding for inputs of any length is an
  induction over data.

## 5. Not modelled

* Background writeback (`packfile/writeback_linux.go`): a hint to the kernel without an effect the program
  sees.
* The inside of zstd, streamhash, roaring, RocksDB, the Stellar SDK and SHA-256: external, by what the
  code relies on. The options `rocksdbutil` sets tune RocksDB and change no result.
* Getters that only wait for the open and return a field (`TotalItems`, `ContentHash`, ...), and calls with
  nothing to do, which return at once.
* Two programs that write one path at the same time, and two RocksDB writers whose databases are
  siblings and share the name of the SST file: no document allows or forbids it.
* The layout of bytes where no property depends on it: field offsets, endianness, the text of errors.

What each component leaves out is in `PROJECT.json`.

## 6. Plan

1. Proofs about `RocksReader`: `Released`, `OpenWhenRead`, and the refinement of `KeyedReader` where no event is
   lost and the count does not fail. The shares are those of `RocksIndexReader`.
2. A composition of `IndexReader` with `PackReader` below it, as `EventReader` is, in place of the contract.
