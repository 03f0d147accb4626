------------------------------ MODULE WalStore ------------------------------
(***************************************************************************)
(* The write-ahead log as it is put together in test_wal (src/db/mod.rs):  *)
(* a log writer on a WritableFileWriter, and a log reader on the file it   *)
(* writes, after the writer or beside it.  Any write may fail, be torn by  *)
(* a crash, or be read half done.                                          *)
(*                                                                         *)
(* It is Wal with a WritableFileWriter for the destination: log is what    *)
(* that has accepted, and onFile how far the file agreed with it when a    *)
(* flush last moved.                                                       *)
(***************************************************************************)
EXTENDS Wal

CONSTANTS
  Alignment, preallocation_block_size_, InitialCapacity, max_buffer_size_,
  WriteFailures      \* opening the file and writing to it may fail

ASSUME WalStoreAssumption ==
  /\ {Alignment, InitialCapacity} \subseteq Nat \ {0}
  /\ {preallocation_block_size_, max_buffer_size_} \subseteq Nat
  /\ WriteFailures \in BOOLEAN

(* What Wal allows a destination, this one may do: fail to flush and to    *)
(* close, write before it has answered, and fill the last page with zeros. *)
ASSUME DestinationAssumption ==
  /\ DestFailures = {"flush", "close"}
  /\ EagerWriteBack
  /\ Alignment <= MaxPad

VARIABLES
  opened, reopened, last_preallocated_block_, fpc, buf, capacity, filesize_,
  next_write_offset_, src, done

VARIABLE failed     \* history: opening the file or writing to it has failed

(* The caller of the file writer is the log writer.                        *)
File == INSTANCE WritableFileWriter WITH
          accepted <- log, AppendLengths <- {}, MaxAppends <- 0, MaxBytes <- 0,
          MaxReopened <- 0, appends <- 0, old <- <<>>

fvars     == <<opened, reopened, last_preallocated_block_, fpc, buf, capacity, filesize_,
               next_write_offset_, src, done>>
storeVars == <<vars, fvars, failed>>

StoreInit ==
  /\ Init
  /\ File!NewFile
  /\ WriteFailures \/ opened
  /\ failed = ~opened

FileWrites ==
  /\ File!FileStep
  /\ failed' = (failed \/ status' = "err" \/ File!WriteFails)
  /\ WriteFailures \/ ~failed'
  /\ onFile' = IF call.op = "flush" THEN File!OnFile' ELSE onFile
  /\ UNCHANGED <<recycle_log_files_, wpc, block_offset_, ptr, begin, fragment_length, added>>
  /\ UNCHANGED <<rvars, damaged, starts, hvars>>

(* The file writer dies with its process.                                  *)
CrashStore ==
  /\ Crash
  /\ fpc' = "closed"
  /\ UNCHANGED <<dvars, opened, reopened, last_preallocated_block_, buf, capacity, filesize_,
                 next_write_offset_, src, done, failed>>

StoreNext ==
  \/ FileWrites
  \/ CrashStore
  \/ /\ Write(Len(log)) \/ CallRead(onFile = Len(log)) \/ Read
     /\ UNCHANGED <<dvars, fvars, failed>>

StoreSpec == StoreInit /\ [][StoreNext]_storeVars

-----------------------------------------------------------------------------
OnePage == Len(log) + Len(src) <= Alignment

(* As long as the log fits into one page, what the reader returns before   *)
(* the first false is the first records added, with torn and failing       *)
(* writes, crashes, and the reader running beside the writer.              *)
OnePageRecovery == OnePage => RecoveredIsPrefix

(* The round trip of test_wal: a log of one page, each record flushed, no  *)
(* write failing; once the writer is dropped the log is on the file, and   *)
(* the reader then returns all of its records.                             *)
OnePageRoundTrip ==
  OnePage /\ manual_flush_ /\ ~failed =>
    /\ WriterClosed => onFile = Len(log)
    /\ atRest /\ stopped /\ NoneCut => leading = added

(* The steps in which the log stays within one page are steps of Wal.      *)
ImplementsWal == Init /\ [][OnePage' => Next]_vars

=============================================================================
