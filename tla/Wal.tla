--------------------------------- MODULE Wal ---------------------------------
(***************************************************************************)
(* A write-ahead log from end to end: the log writer, the file it appends  *)
(* to through a destination that keeps the promise of PrefixStream, and a  *)
(* log reader on the same file.  The reader may run while the writer does  *)
(* or after it; the writer's process may crash at any point; one byte of   *)
(* the file at rest may be damaged.                                        *)
(***************************************************************************)
EXTENDS Recovery

LOCAL INSTANCE SequencesExt

CONSTANTS
  MaxPad,             \* bound: zeros after the log's bytes
  DestFailures,       \* the calls on the destination that may fail
  EagerWriteBack,     \* bytes may reach the file before they are flushed
  MaxDamage           \* bound: damaged bytes (0 or 1)

ASSUME WalAssumption ==
  /\ DestFailures \subseteq {"append", "flush", "close"}
  /\ EagerWriteBack \in BOOLEAN
  /\ MaxPad \in Nat
  /\ MaxDamage \in 0..1

VARIABLES
  log, onFile,         \* the destination (PrefixStream)
  damaged              \* the position of the damaged byte, 0 if there is none

Dest == INSTANCE PrefixStream

dvars == <<log, onFile, damaged>>
vars  == <<wvars, rvars, dvars, file, starts, hvars>>

Init == RecoveryInit /\ Dest!StreamInit /\ damaged = 0

-----------------------------------------------------------------------------
Destination ==
  /\ \/ Dest!StreamStep /\ (status' = "ok" \/ call.op \in DestFailures)
     \/ EagerWriteBack /\ wpc # "dropped" /\ Dest!WriteBack
  /\ UNCHANGED <<recycle_log_files_, wpc, block_offset_, ptr, begin, fragment_length, added>>
  /\ UNCHANGED <<rvars, damaged, starts, hvars>>

(* Only logs whose reader can tell are damaged.                            *)
Damage ==
  /\ wpc = "dropped"
  /\ reads = 0
  /\ damaged = 0 /\ MaxDamage = 1
  /\ checksum_ /\ Readable
  /\ \E i \in 1..Len(file) :
       /\ damaged' = i
       /\ file' = [file EXCEPT ![i] = JunkByte]
  /\ UNCHANGED <<wvars, rvars, log, onFile, starts, hvars>>

Next ==
  \/ Destination
  \/ Damage
  \/ /\ Write(Len(log)) \/ Crash \/ CallRead(onFile = Len(log)) \/ Read
     /\ UNCHANGED dvars

Spec == Init /\ [][Next]_vars

(* The reader's thread runs: a call that was made is served.               *)
Serving == Read /\ UNCHANGED dvars

(* A caller that never gives up: after its first call the count of calls   *)
(* stands still, so that it may call for ever.                             *)
KeepReading ==
  /\ reads > 0
  /\ SkipFails \/ ReadRecord
  /\ UNCHANGED <<checksum_, wvars, dvars, file, starts, hvars>>

PersistentSpec ==
  /\ Init
  /\ [][Next \/ KeepReading]_vars
  /\ WF_vars(Serving)
  /\ WF_vars(KeepReading)

-----------------------------------------------------------------------------
(* When calls on the destination fail, add_record tells nobody and the     *)
(* next record is appended all the same: the reader may then miss records, *)
(* and be handed an empty record for one that was cut, but the others that *)
(* it returns are still whole, in order and returned once.                 *)
RecoveredInOrder ==
  LET Returns(k, i) == leading[k] = added[i] /\ added[i] # <<>>
  IN  /\ \A k \in DOMAIN leading : leading[k] # <<>> => \E i \in DOMAIN added : Returns(k, i)
      /\ \A k, m \in DOMAIN leading, i, j \in DOMAIN added :
           k < m /\ Returns(k, i) /\ Returns(m, j) => i < j

(* The writer's offset is where the log ends in its block as long as no    *)
(* record was cut: the trailer of each block is exactly filled.            *)
BlockOffsetTracksLog ==
  wpc = "idle" /\ NoneCut => (Len(log) - block_offset_) % kBlockSize = 0

(* block_offset_ is declared as the current offset in the block            *)
(* (log_writer.rs:13).                                                     *)
BlockOffsetIsCurrent == wpc = "idle" => (Len(log) - block_offset_) % kBlockSize = 0

(* The k-th record comes after a trailer that holds a whole short header:  *)
(* only recyclable logs have trailers that long.                           *)
AfterLongTrailer(k) ==
  k \in DOMAIN starts \ {1}
    /\ starts[k - 1] + header_size + Len(added[k - 1]) + kHeaderSize <= starts[k]

(* An undamaged log that reached the file whole before it was read, none   *)
(* of whose records was cut, is read back whole before the first false, or *)
(* up to a trailer in which the reader sees an empty record.               *)
CompleteLog ==
  Readable /\ atRest /\ damaged = 0 /\ stopped /\ NoneCut /\ ~read_error_
    => leading = added \/ AfterLongTrailer(Len(leading) + 1)

BlockOf(offset) == offset \div kBlockSize

(* The damaged byte is the type of a record so near the end of its block   *)
(* that a recyclable header would not fit: if that is what the type looks  *)
(* like, the reader fetches the next block without a word.                 *)
PassedOver(i) ==
  /\ damaged = starts[i] + kHeaderSize
  /\ kBlockSize - (starts[i] % kBlockSize) < kRecyclableHeaderSize

(* The offset the reader reports for a record (last_record_offset_) is in  *)
(* or at the end of the trailer before it: after the record before, and    *)
(* not after the record's own header.                                      *)
OffsetsLocate ==
  NoneCut /\ (\A i \in DOMAIN starts : ~PassedOver(i)) =>
    \A i \in DOMAIN offsets :
      /\ offsets[i] <= starts[i]
      /\ i > 1 => offsets[i] >= starts[i - 1] + header_size + Len(added[i - 1])

(* With a damaged byte, what is returned before the first false is still a *)
(* prefix, but for a record that is passed over; and only records of that  *)
(* byte's block are lost: a caller that reads on to the end of such a log  *)
(* gets every record of the others.                                        *)
DamageIsContained ==
  /\ \/ RecoveredIsPrefix
     \/ \E i \in DOMAIN starts :
          PassedOver(i) /\ (NoneCut => IsPrefix(leading, RemoveAt(added, i)))
  /\ Readable /\ atRest /\ NoneCut /\ ~read_error_ /\ Finished =>
       \A i \in DOMAIN added :
         BlockOf(starts[i]) # BlockOf(damaged - 1) => added[i] \in Returned

(* A call of readRecord returns, also while the log grows under it.        *)
CallReturns == rpc = "physical" ~> rpc = "idle"

(* The damaged byte is the type of a record.                               *)
TypeDamaged == \E i \in DOMAIN starts : damaged = starts[i] + kHeaderSize

(* A caller that asks again and again comes to the end of a log none of    *)
(* whose records was cut, whichever byte of it is damaged, unless that is  *)
(* a type: of all bytes only a type can keep a caller from going on.       *)
EndIsReached == reads > 0 ~> Finished \/ ~NoneCut \/ TypeDamaged

(* "We ignore any corruption in the WAL and try to salvage as much data as *)
(* possible" (env/mod.rs:25-26): a damaged byte does not keep the caller   *)
(* from the rest of the log.                                               *)
SalvageGoesOn == reads > 0 ~> Finished

=============================================================================
