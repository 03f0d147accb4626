------------------------------ MODULE Recovery ------------------------------
(***************************************************************************)
(* A log writer, the file its destination writes, and a caller that reads  *)
(* the file back with a log reader, asking for one record after another    *)
(* whatever it is told.  The modules that extend this one (Wal, WalStore)  *)
(* say what the destination is.                                            *)
(***************************************************************************)
EXTENDS LogWriter, LogReader

LOCAL INSTANCE SequencesExt
LOCAL INSTANCE Functions

CONSTANTS
  ConcurrentReader,   \* the reader may start before the writer is gone
  ReadErrors,         \* fread may fail
  MaxReads            \* bound: calls of readRecord

ASSUME RecoveryAssumption ==
  /\ {ConcurrentReader, ReadErrors} \subseteq BOOLEAN
  /\ MaxReads \in Nat

VARIABLES
  file,                \* the bytes of the file
  starts,              \* history: where each record's first header was appended
  reads,               \* calls of readRecord so far
  leading, offsets,    \* history: the records returned before a call returned
                       \* false, and last_record_offset_ after each
  later,               \* history: the records returned after that
  stopped,             \* a call has returned false
  atRest               \* before the first call the writer had been closed and
                       \* the whole log was on the file

hvars == <<reads, leading, offsets, later, stopped, atRest>>

RecoveryInit ==
  /\ WriterInit
  /\ ReaderInit
  /\ starts = <<>>
  /\ reads = 0
  /\ leading = <<>>
  /\ offsets = <<>>
  /\ later = {}
  /\ stopped = FALSE
  /\ atRest = FALSE

-----------------------------------------------------------------------------
(* The writer takes a step of its own; what it appends next will be at end.*)
Write(end) ==
  /\ WriterNext
  /\ starts' = IF begin /\ wpc # "header" /\ wpc' = "header"
               THEN Append(starts, end) ELSE starts
  /\ UNCHANGED <<rvars, file, hvars>>

(* The writer's process dies.                                              *)
Crash ==
  /\ wpc # "dropped"
  /\ wpc' = "dropped"
  /\ status' = "idle"
  /\ call' = NoCall
  /\ UNCHANGED <<recycle_log_files_, block_offset_, ptr, begin, fragment_length, added>>
  /\ UNCHANGED <<rvars, file, starts, hvars>>

WriterClosed == wpc = "dropped" /\ call.op = "close"

(* No record had to be cut into fragments.                                 *)
NoneCut ==
  \A i \in DOMAIN starts :
    (starts[i] % kBlockSize) + header_size + Len(added[i]) <= kBlockSize

(* Bound: without checksums the bytes of a record that was cut may be taken *)
(* for any header, and such logs are not followed.                          *)
Followed == checksum_ \/ NoneCut

CallRead(wholeLog) ==
  /\ reads < MaxReads
  /\ Followed
  /\ ConcurrentReader \/ wpc = "dropped"
  /\ SkipFails \/ ReadRecord
  /\ UNCHANGED checksum_
  /\ reads' = reads + 1
  /\ atRest' = IF reads = 0 THEN WriterClosed /\ wholeLog ELSE atRest
  /\ stopped' = (stopped \/ reply' = "nothing")
  /\ UNCHANGED <<wvars, file, starts, leading, offsets, later>>

(* PosixSequentialFile::read.                                              *)
Chunk == ReadAt(file, fpos, kBlockSize)

FetchFromFile ==
  \/ Fetch(Chunk, FALSE)
  \/ /\ ReadErrors
     /\ \E n \in 0..Len(Chunk) : n < kBlockSize /\ Fetch(SubSeq(Chunk, 1, n), TRUE)

Read ==
  /\ ReaderStep \/ FetchFromFile
  /\ UNCHANGED checksum_
  /\ stopped' = (stopped \/ reply' = "nothing")
  /\ IF reply' = "record" /\ ~stopped
     THEN /\ leading' = Append(leading, record')
          /\ offsets' = Append(offsets, last_record_offset_')
     ELSE UNCHANGED <<leading, offsets>>
  /\ later' = IF reply' = "record" /\ stopped THEN later \cup {record'} ELSE later
  /\ UNCHANGED <<wvars, file, starts, reads, atRest>>

-----------------------------------------------------------------------------
Returned == later \cup Range(leading)

(* The reader has come to the end of its file and has nothing buffered.    *)
Finished == rpc = "idle" /\ reply = "nothing" /\ eof_ /\ buffer_ = <<>>

(* A log that was written and is read with these settings can be read: the *)
(* writer's checksum of a recyclable record is not the reader's.           *)
Readable == ~(recycle_log_files_ /\ checksum_)

(* What recovery may rely on: until the first call that returns false the  *)
(* reader hands out exactly the first records added, whole and in order,   *)
(* however much of the log reached the file, while it is being written,    *)
(* after a crash, with the file's tail padded or one of its bytes damaged. *)
RecoveredIsPrefix == IsPrefix(leading, added)

(* Recyclable records are read only without checksums: the writer's        *)
(* checksum covers their length and their type a second time, the reader's *)
(* does not, and a reader that verifies checksums returns none of them.    *)
RecyclableRejected == ~Readable => Returned = {}

(* A caller that goes on after false: with checksums it is never given     *)
(* bytes that were not added as one record, only whole records, or an      *)
(* empty one in place of a record whose last fragment was met.             *)
NoPhantomRecord == Returned \subseteq Range(added) \cup {<<>>}

(* A record that starts before the initial offset given to Reader::new is  *)
(* not handed out.                                                         *)
NothingBelowInitialOffset ==
  \A i \in DOMAIN starts :
    added[i] # <<>> /\ added[i] \in Returned => starts[i] >= initial_offset_

=============================================================================
