# cibo in TLA+

cibo is the beginning of a key-value store in the manner of RocksDB, in Rust. What
exists so far is its write-ahead log with the file layer below it, and a few
utilities nothing uses yet. These modules model the log from `add_record` down to
the system calls and back up to `readRecord`, and the utilities by themselves; TLC
checks them on small instances, and TLAPS proves for all sizes that recovery returns a
prefix, that the log on its file writer is that log as long as it fits into
one page, and most of what the parts promise (section 4). Paths below are relative to the crate's `src/` directory.

## 1. The system

| part | state | operations | what makes it correct |
|---|---|---|---|
| Log format (`db/log_format.rs`) | none | record types, header and block sizes | a header can be told from what is not one |
| Log writer (`db/log_writer.rs`) | `block_offset_`, the destination, the record being cut | `add_record`, `emit_physical_record`, `drop` | fragments stay in their block; the offset follows the log; progress |
| Log reader (`db/log_reader.rs`) | `buffer_`, `end_of_buffer_offset_`, `last_record_offset_`, `eof_`, `read_error_`, `recycled_` | `readRecord`, `SkipToInitialBlock`, `readPhysicalRecord`, `readMore` | only whole records, in order, none twice; offsets are those of the file; a call returns |
| `WritableFileWriter` (`util/file_reader_writer.rs`) | buffer, `filesize_`, `next_write_offset_` | `append`, `flush`, `write_direct`, `close` | what was accepted gets to the file in order; alignment; size |
| `AlignedBuffer` (`util/aligned_buffer.rs`) | memory, capacity, size | allocate, append, pad, `refit_tail` | holds what was appended and not yet written |
| `PosixWritableFile`, `PosixSequentialFile` (`env/io_posix.rs`) | descriptor, preallocation, stream position | system calls | retries, partial writes, end of file against error |
| Options and traits (`env/mod.rs`) | none | declarations | |
| File lock (`util/flock.rs`) | a descriptor; the kernel's table of locks | `Lock::new`, `drop` | exclusion between processes, no leak, nobody left waiting; unused |
| Thread priority (`util/sys/mod.rs`) | `errno` | get, set | tells -1 from an error; unused |
| Checksums (`util/hash`) | a register | `crc16`, `crc32`, `crc64` | the remainder by its polynomial; a damaged byte is noticed |
| Coding, status | none | pure functions | |

Interactions. The log writer owns a `WritableFileWriter` and calls `append`, `flush`
and, from `drop`, `close`. The file writer owns an `AlignedBuffer` and a
`PosixWritableFile`, on which it calls `prepare_write`, `positioned_append`,
`truncate` and `sync`. The reader owns a sequential file. Writer and reader meet
only in the file: they may run at the same time, in different processes, and
neither knows what the other does.

What is hard here: a crash or a failing call between any two of the three calls a
fragment takes; an offset that moves whether or not the bytes were written;
trailers whose length depends on all earlier records; unsigned subtractions at
block boundaries and after a repeated skip; a file that grows while it is read, with
a sticky end-of-file flag; torn writes that are repeated; a buffer that fills
exactly; retries that look at an `errno` which an earlier call left behind; locks that
belong to a process while the code thinks of them as belonging to an object. `PROJECT.json` lists these under `hazards`, each at its line.

## 2. Modules

```
Bytes ── LogFormat ─┬─ LogWriter ─┐
                    └─ LogReader ─┴─ LogProofs
LogWriter + LogReader ── Recovery ── Wal  (destination: PrefixStream) ── WalProofs
Recovery + LogProofs ── RecoveryProofs  (lemmas of WalProofs)
Wal + WritableFileWriter ── WalStore
WalStore + WalProofs + FileProofs ── StoreProofs  (WalStore implements Wal)
AlignedBuffer + PosixWritableFile ── WritableFileWriter ── FileProofs  (implements PrefixStream)
Crc ── CrcProofs        HashTables
LogWriter + LogReader + Crc + HashTables ── LogParts  (each part by itself, for TLC)
Bytes ── PosixCalls ── PosixCallsProofs
Flock ── FlockProofs  (implements RwLock)
```

* **Bytes.** A byte is a tagged record: a zero, a byte of the payload of the r-th record,
  a byte of a header, a damaged byte. Each byte of a header carries the header and
  its place in it, so a header is only read from all of its bytes in place, and
  anything else decodes to any type and length. A checksum is the sequence of bytes
  it was computed from: it matches nothing else (collisions are not modelled).
* **LogFormat.** Types and sizes of `log_format.rs`; lengths and log numbers keep
  their width.
* **LogWriter.** One action per step of `add_record` between two calls on `dest_`:
  `AddRecord`, `FillTrailer`, `StartFragment` (header), `HeaderAppended` (payload),
  `FlushFragment`, `FinishFragment`; `DropWriter` covers both the end of the scope and
  the unwinding of a panic. The writer makes a call by setting `call` and
  `status = "pending"`; the destination answers in `status`. `WriterCrc` and
  `HeaderAppended` use all that is left of the record, as the code does, not the
  fragment.
* **LogReader.** One action per pass of the loop of `readPhysicalRecord`, joined with
  what `readRecord` does with its result: `ReadRecord` and `SkipFails` enter a call,
  `Fetch` and `Exhausted` are `readMore`, the disjuncts of `Serve` are the outcomes of a
  parsed header. `OverflowChecks` chooses between a panic and wrapping, the two
  builds of the same code. Every arm of `readRecord`'s loop returns or breaks, so its
  body runs once and `in_fragmented_record` is false wherever it is tested; that is
  why neither it nor the recovery mode is in the model.
* **PrefixStream.** The abstract destination: the file holds a prefix of what was
  accepted and then zeros; a successful flush completes it; a successful close gives
  the file the log's length.
* **AlignedBuffer, PosixWritableFile, WritableFileWriter.** The file layer: a call is
  served by `AppendBegins`, `CopyIn`, `WriteSome` (one `pwrite` of any length),
  `WriteFails`, `WriteDone`, `FlushBegins`, `Close`; an assertion that fails is
  `FullBufferPanics`. `Reopen` closes the circle: the closed file is opened again with
  `O_APPEND`, where `pwrite` ignores its offset, by a file writer that starts at offset
  0. Reallocation that loses the contents and `refit_tail` that
  keeps the wrong end are modelled as the code has them.
* **Recovery, Wal, WalStore.** Writer, file and reader together, with the history
  needed to state what recovery means: `added`, the records given to `add_record`;
  `starts`, where their headers were appended; `leading`, what `readRecord` returned before
  its first false; `later`, what it returned after it. `Readable` says that the reader's
  checksum is computed as the writer's was (it is not for recyclable records);
  `Followed` and `NoneCut` bound the calls on a log with a cut record that is read
  without checksums, where anything may be returned. `Wal` puts them on `PrefixStream`, where
  `DestFailures` says which of the calls may fail and `EagerWriteBack` that bytes may
  reach the file at any moment. `WalStore` extends it: `log` and `onFile`, the destination's
  variables, are driven by the actions of `WritableFileWriter` (`FileWrites`), `log` being what that
  has accepted and `onFile` how far the file agrees with it. `ImplementsWal` says that a step
  which leaves the log within one page is a step of `Wal` or changes nothing of it.
* **Crc, HashTables, LogParts.** A word is the set of its bits that are 1, so words have
  their real width and exclusive or is symmetric difference. `Crc` runs any of the
  table-driven loops on a message and on a copy that differs in one byte; `HashTables`
  has the tables, by the eight entries that generate each of them, the division of
  polynomials they are meant to compute, and the byte orders. `LogParts` puts these
  beside the writer and the reader in one state machine in which only the chosen part
  moves, so that each is checked against an arbitrary environment.
* **PosixCalls.** One thread that opens and reads a `PosixSequentialFile`, runs
  `positioned_append`, and sets and gets its priority. Each action is one system call or
  stdio call with what the code does on its result. `errno` is one variable for all of
  them and is never cleared; the two flags of a stream stay set until `clearerr`.
* **Flock, RwLock.** Threads of several processes in `Lock::new` and `drop`, one system
  call per action, over a table of the kernel's locks. `platform` chooses the Unix or
  the Windows implementation: who owns a lock, whether a deadlock is detected, and
  whether there is a `drop`. `Exit` is the death of a process anywhere. `RwLock` is the
  abstract lock.

Definitions marked `\* slip` stand before some others. Nothing
uses them: each is a plausible mistake, and replacing the definition after it by it
makes a run fail (`mutants` in `PROJECT.json`).

## 3. What is checked

Sizes in the configurations are small but keep the order relations of the real
ones: short header < recyclable header < block; page = half a block, buffer = block in
`Store`. The settings `recycle_log_files_` and `checksum_` are variables chosen in `Init`,
so that a run covers both values where its cfg allows them. Two or three blocks with records that end before, at and past the end of a
block reach every case of the arithmetic; two or three records suffice for an order
or a gap to show. The runs stop at their bounds (`MaxRecords`, `MaxReads`,
`MaxAppends`, `MaxBytes`, `MaxReopened`, `MaxPad`, `MaxDamage`, `MaxPosition`, `MaxMessage`, `MaxSize`,
`MaxFaults`, `MaxCalls`, `NumDescriptors`) or because everybody is
done, so they do not check for deadlock.

| run | shows |
|---|---|
| LogParts | offsets and lengths of the writer, whatever the destination answers (blocks of 7, records of 0 to 9 bytes, both header sizes); offsets of the reader on arbitrary contents, with short reads and errors anywhere; the checksum functions on every message of up to three bytes out of ten, which have all bits alone, all and none, with a damaged byte |
| WalConcurrent | the reader beside the writer, partial write-back, crashes, records of 1, 2 and 7 bytes in blocks of 5: two that fit, in one block or two, records that need three fragments and an empty first one: a prefix before the first false (`RecoveredIsPrefix`), never anything that was not added (`NoPhantomRecord`), each call returns, and a caller that repeats its call for ever gets to the end of a log whose records fit, also when it met an earlier end before (`EndIsReached`) |
| WalAtRest | a closed log of up to three records, several to a block and over three blocks, plain or recyclable, with a log number wider than its field, read for ever with and without checksums: read back whole (`CompleteLog`), at offsets that locate the records, the writer's offset following the log; with any one byte damaged, still a prefix but for a record that is passed over, and the loss stays in one block (`DamageIsContained`); the caller gets to the end, unless the damaged byte is a type (`EndIsReached`); recyclable records never pass the reader's checksum (`RecyclableRejected`) |
| WalFailures | failing appends, flushes and reads: whole records, in order, once, but for empty ones in place of records that were cut (`RecoveredInOrder`) |
| File | alignment, preallocation and size over several pages and growth of the buffer, with torn and failing writes; within one page the file writer implements `PrefixStream` (`Refines`); a full buffer panics before it takes a byte (`PanicTakesNothing`); a reopened file keeps its bytes until `close` cuts it to the new ones (`OldBytesKept`) |
| Store | the composition with the real file writer: what `test_wal` means to test, with failures and without |
| Flock | two processes of two threads, each with up to two descriptors: a process that uses one `Lock` at a time is protected by it (`HolderIsProtected`) and such locks are a reader-writer lock (`IsRwLock`), even beside a process that breaks its own locks; on Windows all of them protect; every descriptor is accounted for; nobody waits for ever behind one lock (`NotStuck`) |
| PosixCalls | `new` leaks nothing and `read` loses nothing whatever is interrupted; the end of the file is told from an error, unless an interrupted call left its flag behind; writes in part end in place; every call returns, but for two loops that a stale `EINTR` may keep going for ever (`CallsReturn`) |

**A record can be passed over.** `readPhysicalRecord` decides by the type byte how long the header
is and, if the buffer is shorter than that, fetches the next block (`log_reader.rs:283`). When
the damaged byte is the type of a plain record that starts within the last
`kRecyclableHeaderSize - 1` bytes of its block and looks recyclable, that record is
gone without a report and the reader goes on after it: what is returned is then the
records added with that one left out (`PassedOver`). `DamageIsContained` says that this is the
only way in which a damaged byte makes a hole, and the theorem on recovery has its absence
(`NothingPassedOver`) as a hypothesis. It came out of the proof: the runs meet it since
their records may be four bytes long, an empty record in front of the end of a block.

**An empty record can stand for one that was cut.** When an append fails, the header of the
first fragment of the next record may come to lie in the tail of a block which the reader,
misled by the torn header before it, throws away unseen; the last fragment, in the next
block, is then the first that it meets, and `readRecord` returns an empty record for it.
`WalFailures` takes blocks of 9 bytes, headers of 2 and 6 and records of 1 and 2 bytes because
with these sizes that happens; it can with 7 and 11. `RecoveredInOrder` is therefore about the
records that are not empty.

`DamageIsContained` speaks of a caller that has come to the end of the file. A damaged
type byte can keep a caller from getting there (`WalSalvage` below), and by `EndIsReached` no
other byte can. That property is about logs none of whose records was cut: after a cut record payload bytes
stand where a header is expected and may decode to a record of an earlier log, with the same effect as
a damaged type.

**The promise of PrefixStream is kept for one page only**, by a buffer that holds, or may grow
to hold, more than a page (`OnePage`): one that cannot takes the part of a slice that fits,
reports ok, and `close` cuts that part off again as it was not counted. After the first page is
complete `write_direct` sets `next_write_offset_` to `file_advance` instead of adding
it, and `refit_tail` keeps the wrong end of the buffer, so nothing is claimed
about recovery of a log longer than a page written by this file writer. The real
sizes are a page of 4096, a block of 32768 and a buffer of 65536 bytes. The runs
named Wal therefore describe the log over a destination as it should be; they say
what the writer and the reader do by themselves.

Runs that end in a violation each show code and comment disagreeing; `findings` in
`PROJECT.json` quotes the comment.

| run | the code |
|---|---|
| WalSalvage | never consumes a record whose damaged type makes it look old |
| WalOffsetRelease | wraps an offset after a repeated skip and returns a record below the initial offset |
| WalBlockOffset | loses track of the block after a record that had to be cut |
| FileTail | keeps the start of the page in the buffer, not its tail |

Other places where code and comment differ are part of the model without a run of
their own. `FullBufferPanics`: slices that fill the buffer exactly leave it full, and the
next append fails `assert!(self.capacity_ > self.cursize_)` (`aligned_buffer.rs:86`).
`Enlarge` rounds the capacity up after it was limited to `max_buffer_size_`, which
"will never" be exceeded (`file_reader_writer.rs:59`). `CompleteLog` excepts trailers of
a recyclable log that can hold a short header: the reader ends the call there instead
of skipping (`log_reader.rs:319`). `OffsetsLocate` allows the offset of the trailer
before the record, which is what the reader reports for the first record of a block,
as the "offset of the last record" (`log_reader.rs:39`). `get_priority` is meant to "clean previous
error" (`sys/mod.rs:22`) but `last_os_error` only reads `errno`: a thread whose priority is
-1 (`HIGH_PRI`) gets the error of any earlier call that failed, in the model as in the code. `crc64.rs:8`
names an `Xor_In` of all ones, while lines 1 and 11 of the same comment, the test and the code have a register that starts
from 0: `TablesMatchPolynomials` is about that one, so that it is `crc64.rs:8` that is wrong.

**Limits the last two runs show.** A process with two locks on one file loses both when
either is dropped, since a POSIX record lock belongs to the process and closing any
descriptor releases it; `overlapped` marks such processes, and the properties of `Flock`
say what still holds for all others. `CallsReturn` names the two states in which a loop
on `EINTR` need not end: `positioned_append` while `pwrite` keeps returning 0 (`SpinsOnNothing`,
`io_posix.rs:293`), and `read` at the end of a file whose stream had an interrupted read before
(`SpinsAtEnd`, `io_posix.rs:461`). A call either returns or stays in one of them for good; a retry
that gets an answer of any other kind does not count as an exception. `again` changes with every retry, so that
going round is a behaviour of the model and not a stuttering step that fairness forbids: without
either exception TLC finds the loop. `ShortReadIsEnd` holds for one
failure but not two: an interrupted read at the end leaves the end-of-file flag set,
and a later I/O error is then reported as the end of the file. Up to two failures
and two calls of each kind, with files of up to three bytes, are what it takes for these
to occur. On Windows a thread that holds one lock of a process and asks for a second
may wait for ever: nobody detects the deadlock.

**Fairness.** In `Flock` every thread inside `Lock::new` or `drop` runs (weak fairness of
its steps, but not of a grant to a thread that waits: the kernel promises no order) and
a client drops each lock at last (strong fairness, since a thread of its process must
be idle to do it); `Exit` and new locks get none. In `PosixCalls` a call that was made is
served (weak fairness of `Serve`) and only `MaxFaults` system calls fail. `PersistentSpec` assumes weak fairness of `Serving`, the steps of a call of
`readRecord` that was made: the calling thread runs, and the call contains no wait. It
also assumes weak fairness of `KeepReading`, a caller that repeats its call: the behaviour
of a client, not of the library, on which `CallReturns` does not depend and which
`EndIsReached` is about. The writer, the destination and the disk get no fairness: they
may stop at any time.

## 4. What is proved

`LogProofs` proves for every value of the constants that
satisfies the assumptions (header sizes positive, the recyclable one larger and
smaller than a block, a block not longer than the length field can count):

* `WriterTypeCorrect`, `OffsetStaysInBlock`, `LengthsAreExact`, `EmptyFragmentsEndBlocks`. The
  properties are not inductive: the offset stays in the block because a header is only
  emitted where it fits, which is established one or two steps before, across a call
  that may answer anything. `WriterInv` says, for every control point, how
  `block_offset_`, `fragment_length` and what is left of the record are related; one
  lemma per action shows that it is kept.
* `ReaderTypeCorrect`, `BufferStaysWithinFile`, `BufferEndIsFilePosition`. `ReaderInv` adds
  that the buffer is a sequence no longer than a block and that
  `last_record_offset_` is never negative, from which it follows that a reader which
  starts at offset 0 never skips. `ReaderSpec` delivers bytes that decode to any header;
  with checksums off all of them are accepted.

`CrcProofs` proves for every width, either bit order and every table whose entries differ
in the byte that shifting leaves empty:

* `DamageIsDetected`: two messages of any length that differ in exactly one byte have
  different checksums. The invariant has a second half, that equal messages have equal
  registers: the byte that differs selects another entry of the table, and from then on
  one step of the loop is injective in the register. TLC evaluates the assumption
  (`CrcAssumption`) for the three tables of the code in `LogParts`; with it the reader's
  `ChecksumFails` on one damaged byte, which the log modules take for granted, is a
  theorem about `crc32`.

`RecoveryProofs` and `WalProofs` prove of writer, file and reader together, for every block
size, both header sizes, any lengths and number of records, a reader that starts at any
offset, and any interleaving:

* `OnlyAddedRecords` and `RecyclableLogsUnreadable`. The invariant, `BytesSound`, says what bytes
  there can be: every byte of the log, of the file, of the reader's buffer and of the
  append under way is a zero, a damaged byte, a byte of the payload of an added record, or
  a byte of a header whose checksum the writer computed from some rest of a record, which
  is a whole record if the header's type says so. A fragment that passes the reader's
  checksum is therefore such a rest (`ChecksumProtects`); the checksum of a recyclable record
  also covers its length, which the reader's never does. Nothing is assumed of the
  destination: calls may fail anywhere.
* `OffsetTracksLog`, with a destination that takes what is appended (`AppendsSucceed`: otherwise
  `block_offset_` moves past bytes that were never appended; a flush or a close may fail). The invariant, `Layout`, places every
  record up to the first that had to be cut: it starts where the one before ends or at the
  next block (`NextStart`), its header is in the log at that place, zeros fill the
  trailers, and at every control point between two calls on the destination the
  log ends where `block_offset_` and the step of the writer say.
* `PrefixRecovered`, with `AppendsSucceed` too and for a reader that verifies checksums. `PrefixInv` adds
  to `Layout` that every byte of the file is that of the log in its place, a zero, or the
  damaged one (`FileInPlace`), and that until its first false the reader follows
  (`Following`): what it has buffered are bytes of the file in their places, and it
  stands between the records that it has returned and the next one, or past the end of a
  log that will not grow (`InStep`). The long step is `Fetch`: what the reader throws away
  when it asks for a new block must not hold the start of a record unless the call
  ends in false. It is proved of `Spec` and of `PersistentSpec`, where a caller reads for ever.
* `OffsetsAreLocated`, under the same hypotheses and while the log is shorter than 2^64 bytes
  (the offsets are taken modulo that). The reader reports the offset at which its call
  began, so the invariant `Counting` says of a call under way that it began between the end of
  the record before and where the reader is now. A reader with an initial offset beyond 0
  has nothing to locate: its first call returns false, because the skip is taken to have
  failed or because the record at 0 starts below the initial offset, and that no record
  came first is part of the invariant. A record that the reader may pass over is
  excepted, as in `OffsetsLocate` itself.
* `LogIsReadWhole`: `CompleteLog` for a reader that verifies checksums from offset 0. `Layout` says
  where the headers are; `RestInv` adds that the payloads follow them (`PayloadsInPlace`), that a
  closed writer has no record under way (`ClosedWhole`), that the file of a log at rest is
  the log (`FileHoldsLog`), and that what the reader has buffered are not only bytes of the
  file's places but the file's bytes, the end of the file having been met only when
  all of it was seen (`BufferIsFile`). A fragment in front of a reader that stands at
  a record then decodes to the one that was written, so that the first false comes at the
  end of the log (`StopsAtEnd`). A recyclable log read with checksums gives nothing
  (`RecyclableLogsUnreadable`) and is not `Readable`; without checksums `CompleteLog` is only
  model-checked.
* `DamageStaysContained`, under the hypotheses of `LogIsReadWhole` and with a long header of at most
  twice the short one (11 and 7 in the code), so that the tail of a block in which a type may look
  like that of a long header has room for one record. After the first false `Following` says
  nothing any more, and the reader has to be followed on. `ScanInv` says that it stands where a
  record of the damaged block begins, inside that block with nothing buffered, or between two records of the
  others (`Between`), that its buffer is the file from there on (`BufferInPlace`), and that every record
  behind it was returned or is of the damaged block (`Scan`, `OthersReturned`); and, up to the first false,
  that what was returned lacks at most the one record passed over (`Without`).
  Which record is the next one in front of the reader is the least of those in front of it: `LeastIn` of
  `LogProofs` has it from the library's theorem on well-founded sets of naturals.
* `ReturnedInOrder`: `RecoveredInOrder`, with nothing assumed of the destination. `Layout` does not hold then:
  after a failing append no record need be where the writer believes. What does hold is
  about headers only. Whatever is appended, the first bytes of the headers of whole records come into the log
  in the order of `add_record` (`HeadersInOrder`), because there is at most one such header for each
  record and it is appended, if at all, before the next record is added (`HeaderIsOut`, `CallInOrder`).
  The reader sees bytes of the log in their places (`BufferSeen`), its checksum ties each record that it
  returns to such a header, and that lies behind its position from then on (`HeadersMet`).

`FileProofs` proves for every page size, initial capacity, maximum and preallocation block,
and for system calls that fail or write in part anywhere:

* `FileWriterTypeCorrect`, `WritesAreAligned`, `PreallocationSuffices`, `SizeIsOfAccepted`,
  `PanicsBeforeCopying`. `FileInv` is inductive: `Room` (the capacity is a number of pages, so that
  rounding up what the buffer holds never leaves it), `Stages` (how the copy of a slice,
  the buffer and the write in progress are related at every control point) and `Sizes`
  (what `filesize_`, the preallocated blocks and the accepted bytes have to do with
  each other). `RoundUpIs` and its neighbours are the lemmas on division.
* `ReopenedKeepsOldBytes`, whose invariant is the property with `FileInv`.
* `FirstPageIsExact` and `FileIsPrefixStream`, the refinement of `PrefixStream`, with nothing assumed
  beyond what `Refines` says itself. `PageInv` says that within a page the file is a prefix of
  what was accepted and then zeros, and that the buffer holds all of it, or the page was
  complete and has been written, or it was lost when the buffer grew for a slice that
  goes beyond it (`OfOnePage`); the rest of a slice that was taken in part is always
  beyond the page (`Leftovers`). `onFile` is mapped to a chosen value, how far the file agrees with
  what was accepted (`Agreement`); that it exists, is unique and only moves forward, so that a
  `pwrite`, torn or not, is a write-back, is the larger part of the proof.

`StoreProofs` composes the two, for every page, block, header and preallocation size, every buffer
that holds, or may grow to hold, more than a page (`BufferOutgrowsPage`; 65536 bytes against 4096
in the code), and with opens, writes and truncations that fail or are torn and crashes anywhere:

* `StoreIsWal`, the refinement `ImplementsWal`. `Served` is inductive without any bound on the log: until
  the file writer is closed or dies it keeps `FileInv` and `PageInv`, whatever it is
  given consists of bytes that a log is made of (`AppendsSound`), and the log writer has
  no call under way when it is between two fragments. Within one page `OnThePage` says that the
  file is the first `onFile` bytes of the log and then zeros. Each step of the file writer
  then is what `PageMoves` of `FileProofs` allows, and each of those a step of `Dest` or
  nothing (`FileIsDestination`): a failing write ends a flush with an error, a torn one is
  a write-back, and no slice is refused, which is why only flush and close are in `DestFailures`
  there. Writer, reader and crash are the actions of `Wal` themselves. A log does not shrink, so
  that a step which ends within one page began within it (`PageBefore`).
* `OnePageRecovered`: the invariant `StoreInv` has the invariants of `WalProofs` as long as the log is within one
  page; their lemmas need `AppendsSucceed` and not that the other calls do, and no damage leaves
  nothing to pass over (`NoneIsPassedOver`). It is stated for a caller that verifies checksums,
  as `PrefixRecovered` is.
* `OnePageIsReadWhole`, the promise that `test_wal` makes by example, for all records that fit. `FlushedLog`
  says that with every record flushed and no write failing the whole log is on the file between
  two fragments and once the writer is dropped; `RestInv` of `WalProofs` then gives that all of it is read.

`PosixCallsProofs` proves for every size of read and append and any number of calls and faults, of
`Spec`, which `FairSpec` implies:

* `ReadsLoseNothing` and `ShortReadsMetTheEnd`. The property about the end is not inductive: the flag of the
  end outlasts a call only when a read at the end was interrupted, and then the error flag and
  `errno` make the next read at the end try again, until a second failure
  (`EndIsFresh`). `AppendsAreInPlace` carries the place of the rest of the data, `FailedOpensAreClean` counts
  the descriptors.

`FlockProofs` proves for any set of processes and any number of threads and of
descriptors:

* `LocksProtect` and `DescriptorsAreAccounted`. Neither is inductive: what a `Lock` is worth
  depends on the kernel's table, and the table on what every other call of the process
  does to it. `FlockInv` says that each open descriptor has exactly one user, a `Lock` or a
  call; that a process that never overlapped has one of the two, not both; that granted
  locks of different owners are compatible; and that the lock of a process that can be
  relied on is in the table. The last needs the first two: a `close` on Unix releases all
  locks of its process, so there must be no other `Lock` for it to lose (`StaysGranted`).
* `LocksAreRwLocks`: each step is a step of `RwLock` or changes nothing of its view.

Only model-checked:

* liveness (`CallReturns`, `EndIsReached`, `CallsReturn`), which is outside the
  reach of the prover, and `NotStuck`;
* recovery without checksums (of a recyclable log, `CompleteLog` too), in one page as in many;
* `TablesMatchPolynomials` and `ChecksumVerifies`: the tables and the divisions that they are compared
  with are recursive operators, or facts about 256 given numbers.

## 5. What is not modelled

* Buffered mode of the file writer and `range_sync`: `PosixWritableFile` always reports
  direct I/O, and `write_buffered` asserts it, so the branch would panic.
* `close` of a descriptor by `PosixWritableFile`, and `sync`, `fcntl` and `allocate` beyond their
  success or failure; nothing in the program calls `close`. A sequential file opened with
  `use_direct_reads` has a null stream: a read on it ends `PosixCalls` in the state
  `crashed`, and such a reader is outside the models of the log.
* The errors of `fseek`: it fails with -1, `skip` tests for a number above 0 (`io_posix.rs:436`) and so says
  ok in either case, and the reader takes ok for a failure (`log_reader.rs:86`). `SkipFails` is
  that path, with the position moved or not.
* `write_direct` hands `pwrite` memory that need not be aligned; a kernel that insists on it
  for `O_DIRECT` makes every write fail, which is one of the modelled outcomes.
* Durability below the file: a successful `pwrite` is on the file.
* Collisions of checksums after more than one damaged byte: the log modules let a
  checksum match the bytes it was computed from and nothing else.
* Big-endian machines and `decode_fixed32`, `decode_fixed64`.
* The locks of other systems than Linux and Windows: their constants differ, their rules
  do not. A call whose `open` fails changes nothing and is left out of `Flock`.
* Signals other than as the cause of `EINTR`.
* `status.rs` (an answer is ok or an error), the declarations of `env/mod.rs`, and the empty
  map table.

## 6. Plan

1. (done) Format, writer, reader; their composition over `PrefixStream`; the file layer;
   the composition with it; proofs about the writer's and the reader's offsets.
2. (done) `Flock` against the abstract reader-writer lock; the calls that share `errno`
   (`PosixCalls`); reopening with `O_APPEND`; the checksum functions, their tables and the
   theorem on damaged bytes; both settings of the log in one run.
3. (done) Proofs: what recovery returns, the writer's offset in its block, the file
   writer's alignment, sizes and refinement, the calls that share `errno`; that a log at
   rest is read whole and that its offsets locate the records; what damage costs a caller that
   reads on; order and wholeness when calls on the destination fail.
4. (done) Proofs: the log on its file writer implements the log on `PrefixStream`, and recovery and
the round trip follow for it.
5. If `write_direct` is made to keep its offset past the first page, the same for a log of any
length, without `OnePage`.
6. If the code gets a buffered writable file, the other branches of the file writer.
