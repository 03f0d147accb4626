------------------------------ MODULE LogWriter ------------------------------
(***************************************************************************)
(* The log writer (src/db/log_writer.rs): add_record cuts a record into    *)
(* fragments and hands each one to its destination file dest_, and Drop    *)
(* closes the destination.                                                 *)
(*                                                                         *)
(* Every use of dest_ is a call: the writer sets call and status =         *)
(* "pending" and goes on when the destination has answered "ok" or "err".  *)
(* A destination whose assertion fails answers "panic"; the writer is then *)
(* dropped by the unwinding.  Nothing else is assumed of the destination   *)
(* here (DestReturns); modules that compose the writer with one replace    *)
(* that step by theirs.                                                    *)
(*                                                                         *)
(* A definition marked "slip" is a plausible mistake in the definition     *)
(* after it; nothing uses it.  Replacing the one by the other breaks a     *)
(* property, which shows that the property says something about the code.  *)
(***************************************************************************)
EXTENDS LogFormat

CONSTANTS
  log_number_,          \* the u64 number given to Writer::new
  RecycleSettings,      \* the values that callers give to recycle_log_files_
  manual_flush_,        \* flush dest_ after every fragment
  RecordLengths,        \* lengths of the records that callers add
  MaxRecords            \* bound: records added

ASSUME LogWriterAssumption ==
  /\ log_number_ \in Nat
  /\ RecycleSettings \subseteq BOOLEAN
  /\ manual_flush_ \in BOOLEAN
  /\ RecordLengths \subseteq Nat
  /\ MaxRecords \in Nat

VARIABLES
  recycle_log_files_,   \* write the recyclable record types
  wpc,            \* where the writer is in add_record or drop
  block_offset_,  \* current offset in block
  ptr,            \* what remains of the record being added
  begin,          \* no fragment of the record has been emitted
  fragment_length,
  added,          \* history: the records given to add_record
  call,           \* the last call made on dest_
  status          \* its progress: "idle", "pending" or the answer

wvars == <<recycle_log_files_, wpc, block_offset_, ptr, begin, fragment_length,
           added, call, status>>

Answers == {"ok", "err", "panic"}
NoCall  == [op |-> "none", data |-> <<>>]

Invoke(op, data) ==
  /\ call' = [op |-> op, data |-> data]
  /\ status' = "pending"

header_size == IF recycle_log_files_ THEN kRecyclableHeaderSize ELSE kHeaderSize
leftover    == kBlockSize - block_offset_

WriterInit ==
  /\ recycle_log_files_ \in RecycleSettings
  /\ wpc = "idle"
  /\ block_offset_ = 0
  /\ ptr = <<>>
  /\ begin = TRUE
  /\ fragment_length = 0
  /\ added = <<>>
  /\ call = NoCall
  /\ status = "idle"

-----------------------------------------------------------------------------
AddRecord(slice) ==
  /\ wpc = "idle"
  /\ ptr' = slice
  /\ begin' = TRUE
  /\ added' = Append(added, slice)
  /\ wpc' = "fragment"
  /\ UNCHANGED <<block_offset_, fragment_length, call, status>>

(* The zeros that fill a block.                                            *)
Trailer == Zeros(leftover)

(* A block's tail too short for a header is filled with zeros.             *)
FillTrailer ==
  /\ wpc = "fragment"
  /\ leftover > 0
  /\ leftover < header_size
  /\ Invoke("append", Trailer)
  /\ wpc' = "trailer"
  /\ UNCHANGED <<block_offset_, ptr, begin, fragment_length, added>>

RecordTypeOf(first, last) ==
  LET type == CASE first /\ last   -> kFullType
                [] first /\ ~last  -> kFirstType
                [] ~first /\ last  -> kLastType
                [] ~first /\ ~last -> kMiddleType
  IN  IF recycle_log_files_ THEN Recyclable(type) ELSE type

(* The bytes the writer's checksum covers: the type (precomputed in        *)
(* type_crc_); for a recyclable record the length, the type again and the  *)
(* log number; and all of the rest of the record, not only the n bytes of  *)
(* this fragment.                                                          *)
WriterCrc(type, n, data) ==
  <<FieldByte(type)>>
    \o (IF recycle_log_files_
        THEN <<FieldByte(EncodeLength(n)), FieldByte(type),
               FieldByte(EncodeLogNumber(log_number_))>>
        ELSE <<>>)
    \o data

(* The room for payload after a header at offset start of the block.       *)
WholeBlock(start)       == kBlockSize - start             \* slip: no header
RoomForOneLess(start)   ==                                \* slip
  IF start + header_size < kBlockSize THEN kBlockSize - start - header_size - 1 ELSE 0
AvailableAt(start)      == kBlockSize - start - header_size

(* emit_physical_record up to its first append, for the fragment that      *)
(* starts at offset start of the block.                                    *)
EmitHeader(start) ==
  LET avail == AvailableAt(start)
      n     == IF Len(ptr) < avail THEN Len(ptr) ELSE avail
      type  == RecordTypeOf(begin, Len(ptr) = n)
      h     == [type   |-> type,
                length |-> EncodeLength(n),
                log    |-> EncodeLogNumber(log_number_),
                crc    |-> WriterCrc(type, n, ptr)]
  IN  /\ block_offset_' = start
      /\ fragment_length' = n
      /\ Invoke("append", HeaderBytes(h, header_size))
      /\ wpc' = "header"
      /\ UNCHANGED <<ptr, begin, added>>

StartAnywhere ==                    \* slip: the room for a header not checked
  wpc = "fragment" /\ leftover > 0 /\ EmitHeader(block_offset_)
StartFragment ==
  /\ wpc = "fragment"
  /\ \/ leftover >= header_size /\ EmitHeader(block_offset_)
     \/ leftover = 0 /\ EmitHeader(0)

TrailerFilled ==
  /\ wpc = "trailer"
  /\ status = "ok"
  /\ EmitHeader(0)

TrailerFailed ==
  /\ wpc = "trailer"
  /\ status = "err"
  /\ wpc' = "idle"
  /\ status' = "idle"
  /\ UNCHANGED <<block_offset_, ptr, begin, fragment_length, added, call>>

HeaderAppended ==
  /\ wpc = "header"
  /\ status = "ok"
  /\ Invoke("append", ptr)
  /\ wpc' = "payload"
  /\ UNCHANGED <<block_offset_, ptr, begin, fragment_length, added>>

FlushFragment ==
  /\ wpc = "payload"
  /\ status = "ok"
  /\ manual_flush_
  /\ Invoke("flush", <<>>)
  /\ wpc' = "flush"
  /\ UNCHANGED <<block_offset_, ptr, begin, fragment_length, added>>

OffsetWithoutHeader == block_offset_ + fragment_length    \* slip
OffsetAfterFragment == block_offset_ + header_size + fragment_length

(* The end of emit_physical_record and of the loop body: the offset moves  *)
(* past the fragment whatever dest_ answered, and the loop goes on only    *)
(* after success with bytes left.                                          *)
FinishFragment ==
  /\ \/ wpc = "header" /\ status = "err"
     \/ wpc = "payload" /\ (status = "err" \/ (status = "ok" /\ ~manual_flush_))
     \/ wpc = "flush" /\ status \in {"ok", "err"}
  /\ block_offset_' = OffsetAfterFragment
  /\ ptr' = SubSeq(ptr, fragment_length + 1, Len(ptr))
  /\ begin' = FALSE
  /\ wpc' = IF status = "ok" /\ Len(ptr) > fragment_length THEN "fragment" ELSE "idle"
  /\ status' = "idle"
  /\ UNCHANGED <<fragment_length, added, call>>

(* The writer goes out of scope, or a panic of dest_ unwinds through       *)
(* add_record: in both cases Drop closes dest_ and ignores the answer.     *)
DropWriter ==
  /\ \/ wpc = "idle"
     \/ wpc \in {"trailer", "header", "payload", "flush"} /\ status = "panic"
  /\ Invoke("close", <<>>)
  /\ wpc' = "drop"
  /\ UNCHANGED <<block_offset_, ptr, begin, fragment_length, added>>

DropReturns ==
  /\ wpc = "drop"
  /\ status \in Answers
  /\ wpc' = "dropped"
  /\ status' = "idle"
  /\ UNCHANGED <<block_offset_, ptr, begin, fragment_length, added, call>>

WriterStep ==
  \/ FillTrailer
  \/ StartFragment
  \/ TrailerFilled
  \/ TrailerFailed
  \/ HeaderAppended
  \/ FlushFragment
  \/ FinishFragment
  \/ DropReturns

AddAnyRecord ==
  /\ Len(added) < MaxRecords
  /\ \E n \in RecordLengths : AddRecord(Payload(Len(added) + 1, n))

WriterNext ==
  /\ AddAnyRecord \/ WriterStep \/ DropWriter
  /\ UNCHANGED recycle_log_files_

(* The destination, about which nothing is assumed.                        *)
DestReturns ==
  /\ status = "pending"
  /\ status' \in Answers
  /\ UNCHANGED <<recycle_log_files_, wpc, block_offset_, ptr, begin, fragment_length,
                 added, call>>

WriterSpec == WriterInit /\ [][WriterNext \/ DestReturns]_wvars

-----------------------------------------------------------------------------
ControlPoints ==
  {"idle", "fragment", "trailer", "header", "payload", "flush", "drop", "dropped"}

(* Type invariant of the log writer.                                       *)
WriterTypeOK ==
  /\ recycle_log_files_ \in RecycleSettings
  /\ wpc \in ControlPoints
  /\ block_offset_ \in Nat
  /\ begin \in BOOLEAN
  /\ fragment_length \in Nat
  /\ call.op \in {"none", "append", "flush", "close"}
  /\ status \in Answers \cup {"idle", "pending"}

Emitting == wpc \in {"header", "payload", "flush"}

(* kBlockSize - block_offset_ and the space left after a header are        *)
(* computed on usize without a check: whatever dest_ answers and wherever  *)
(* add_record breaks out of its loop, the offset stays within the block    *)
(* and the fragment being emitted ends within it, so neither subtraction   *)
(* wraps and the asserts on leftover hold.                                 *)
OffsetWithinBlock ==
  /\ block_offset_ <= kBlockSize
  /\ Emitting => OffsetAfterFragment <= kBlockSize

(* The two length bytes of a header never lose the high part of the length *)
(* of the fragment they describe.                                          *)
LengthFieldExact == EncodeLength(fragment_length) = fragment_length

(* Emission makes progress: a fragment is empty only if it is the last of  *)
(* its record or the block had room for a header and nothing else, and the *)
(* next fragment then starts a new block, so add_record cannot loop.       *)
EmptyFragmentEndsBlock ==
  Emitting /\ fragment_length = 0 /\ ptr # <<>>
    => block_offset_ + header_size = kBlockSize

=============================================================================
