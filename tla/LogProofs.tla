------------------------------- MODULE LogProofs -------------------------------
(***************************************************************************)
(* What is proved of the log writer and of the log reader each by itself,  *)
(* for every block and header size: of the writer for every record and     *)
(* whatever its destination answers, of the reader for every sequence of   *)
(* file contents, short reads and read errors.                             *)
(***************************************************************************)
EXTENDS LogWriter, LogReader, WellFoundedInduction, TLAPS

Data == [b : {"data"}, rec : Nat, at : Nat]

(* OffsetWithinBlock is not inductive: that the offset stays within the    *)
(* block after a fragment needs the fragment to have been cut to the room  *)
(* there was, and that ptr is still a sequence after the fragment needs    *)
(* the fragment to be a part of it.                                        *)
WriterInv ==
  /\ recycle_log_files_ \in RecycleSettings
  /\ wpc \in ControlPoints
  /\ block_offset_ \in 0..kBlockSize
  /\ begin \in BOOLEAN
  /\ fragment_length \in 0 .. kBlockSize - 1
  /\ ptr \in Seq(Data)
  /\ added \in Seq(Seq(Data))
  /\ call.op \in {"none", "append", "flush", "close"}
  /\ status \in Answers \cup {"idle", "pending"}
  /\ Emitting =>
       /\ block_offset_ + header_size + fragment_length <= kBlockSize
       /\ fragment_length <= Len(ptr)
       /\ fragment_length = 0 /\ Len(ptr) > 0 => block_offset_ + header_size = kBlockSize

LEMMA HeaderSizeFits ==
  /\ header_size \in Nat
  /\ 0 < header_size
  /\ header_size < kBlockSize
  /\ kBlockSize \in Nat
BY LogFormatAssumption, LogWriterAssumption DEF header_size

(* Cutting off the first n elements leaves a sequence over the same set.   *)
LEMMA SuffixIsSeq ==
  ASSUME NEW S, NEW s \in Seq(S), NEW n \in 0..Len(s)
  PROVE  SubSeq(s, n + 1, Len(s)) \in Seq(S)
OBVIOUS

LEMMA PayloadIsData ==
  ASSUME NEW r \in Nat, NEW n \in Nat
  PROVE  Payload(r, n) \in Seq(Data)
<1>1. \A i \in 1..n : DataByte(r, i) \in Data
  BY DEF DataByte, Data
<1>2. Payload(r, n) \in [1..n -> Data]
  BY <1>1 DEF Payload
<1> QED
  BY <1>2

LEMMA InitInv == WriterInit => WriterInv
BY HeaderSizeFits DEF WriterInit, WriterInv, ControlPoints, Answers, NoCall, Emitting

(* The fragment that EmitHeader begins fits into its block.                *)
LEMMA EmitHeaderInv ==
  ASSUME WriterInv, NEW start \in 0..kBlockSize, start + header_size <= kBlockSize,
         UNCHANGED recycle_log_files_,
         EmitHeader(start), status' \in Answers \cup {"idle", "pending"}
  PROVE  WriterInv'
<1> DEFINE avail == AvailableAt(start)
           n     == IF Len(ptr) < avail THEN Len(ptr) ELSE avail
<1>1. avail \in 0 .. kBlockSize - 1
  BY HeaderSizeFits DEF AvailableAt
<1>2. Len(ptr) \in Nat
  BY DEF WriterInv
<1>3. /\ n \in 0 .. kBlockSize - 1
      /\ n <= avail
      /\ n <= Len(ptr)
      /\ n = 0 /\ Len(ptr) > 0 => avail = 0
  BY <1>1, <1>2, HeaderSizeFits
<1>4. /\ wpc' = "header" /\ block_offset_' = start /\ fragment_length' = n
      /\ call'.op = "append"
      /\ UNCHANGED <<ptr, begin, added>>
  BY DEF EmitHeader, Invoke
<1>5. start + header_size + avail = kBlockSize
  BY HeaderSizeFits DEF AvailableAt
<1>6. start + header_size + n <= kBlockSize
  BY <1>1, <1>3, <1>5, HeaderSizeFits
<1>7. n = 0 /\ Len(ptr) > 0 => start + header_size = kBlockSize
  BY <1>3, <1>5, HeaderSizeFits
<1>8. header_size' = header_size
  BY DEF header_size
<1> HIDE DEF n, avail
<1> QED
  BY <1>3, <1>4, <1>6, <1>7, <1>8 DEF WriterInv, ControlPoints, Emitting

LEMMA StepInv == WriterInv /\ [WriterNext \/ DestReturns]_wvars => WriterInv'
<1> SUFFICES ASSUME WriterInv, [WriterNext \/ DestReturns]_wvars
             PROVE  WriterInv'
  OBVIOUS
<1> USE HeaderSizeFits
<1>0. UNCHANGED <<recycle_log_files_, header_size>>
  BY DEF WriterNext, DestReturns, wvars, header_size
<1>1. CASE AddAnyRecord
  <2>1. PICK k \in RecordLengths : AddRecord(Payload(Len(added) + 1, k))
    BY <1>1 DEF AddAnyRecord
  <2>2. Payload(Len(added) + 1, k) \in Seq(Data)
    BY PayloadIsData, LogWriterAssumption DEF WriterInv
  <2> QED
    BY <1>0, <2>1, <2>2 DEF AddRecord, WriterInv, ControlPoints, Emitting
<1>2. CASE FillTrailer
  BY <1>0, <1>2 DEF FillTrailer, Invoke, WriterInv, ControlPoints, Emitting
<1>3. CASE StartFragment
  <2>1. CASE leftover >= header_size /\ EmitHeader(block_offset_)
    <3>1. block_offset_ \in 0..kBlockSize /\ block_offset_ + header_size <= kBlockSize
      BY <2>1 DEF leftover, WriterInv
    <3> QED
      BY <1>0, <2>1, <3>1, EmitHeaderInv DEF EmitHeader, Invoke
  <2>2. CASE leftover = 0 /\ EmitHeader(0)
    BY <1>0, <2>2, EmitHeaderInv DEF EmitHeader, Invoke
  <2> QED
    BY <1>3, <2>1, <2>2 DEF StartFragment
<1>4. CASE TrailerFilled
  BY <1>0, <1>4, EmitHeaderInv DEF TrailerFilled, EmitHeader, Invoke
<1>5. CASE TrailerFailed
  BY <1>0, <1>5 DEF TrailerFailed, WriterInv, ControlPoints, Emitting
<1>6. CASE HeaderAppended
  BY <1>0, <1>6 DEF HeaderAppended, Invoke, WriterInv, ControlPoints, Emitting
<1>7. CASE FlushFragment
  BY <1>0, <1>7 DEF FlushFragment, Invoke, WriterInv, ControlPoints, Emitting
<1>8. CASE FinishFragment
  <2>1. Emitting
    BY <1>8 DEF FinishFragment, Emitting
  <2>2. block_offset_' \in 0..kBlockSize
    BY <1>8, <2>1 DEF FinishFragment, OffsetAfterFragment, WriterInv
  <2>3. ptr' \in Seq(Data)
    BY <1>8, <2>1, SuffixIsSeq DEF FinishFragment, WriterInv
  <2>4. wpc' \in {"fragment", "idle"} /\ begin' = FALSE /\ status' = "idle"
        /\ UNCHANGED <<fragment_length, added, call>>
    BY <1>8 DEF FinishFragment
  <2> QED
    BY <1>0, <2>2, <2>3, <2>4 DEF WriterInv, ControlPoints, Emitting
<1>9. CASE DropWriter
  BY <1>0, <1>9 DEF DropWriter, Invoke, WriterInv, ControlPoints, Emitting
<1>10. CASE DropReturns
  BY <1>0, <1>10 DEF DropReturns, WriterInv, ControlPoints, Emitting
<1>11. CASE DestReturns
  BY <1>0, <1>11 DEF DestReturns, WriterInv, Emitting
<1>12. CASE UNCHANGED wvars
  BY <1>0, <1>12 DEF wvars, WriterInv, Emitting
<1> QED
  BY <1>1, <1>2, <1>3, <1>4, <1>5, <1>6, <1>7, <1>8, <1>9, <1>10, <1>11, <1>12
  DEF WriterNext, WriterStep

LEMMA InvAlways == WriterSpec => []WriterInv
BY InitInv, StepInv, PTL DEF WriterSpec

(* The variables of the writer keep their types, whatever its destination  *)
(* answers.                                                                *)
THEOREM WriterTypeCorrect == WriterSpec => []WriterTypeOK
<1>1. WriterInv => WriterTypeOK
  BY HeaderSizeFits DEF WriterInv, WriterTypeOK
<1> QED
  BY <1>1, InvAlways, PTL

(* add_record's offset stays within the block and every fragment ends in   *)
(* the block it starts in, for every block size, header size and record,   *)
(* and also after failed appends: the unchecked subtractions cannot wrap.  *)
THEOREM OffsetStaysInBlock == WriterSpec => []OffsetWithinBlock
<1>1. WriterInv => OffsetWithinBlock
  BY HeaderSizeFits DEF WriterInv, OffsetWithinBlock, OffsetAfterFragment
<1> QED
  BY <1>1, InvAlways, PTL

(* The two length bytes hold the length of every fragment exactly.         *)
THEOREM LengthsAreExact == WriterSpec => []LengthFieldExact
<1>1. WriterInv => LengthFieldExact
  <2> SUFFICES ASSUME WriterInv PROVE LengthFieldExact
    OBVIOUS
  <2>1. fragment_length \in Nat /\ fragment_length < LengthModulus /\ LengthModulus \in Nat
    BY HeaderSizeFits, LogFormatAssumption DEF WriterInv
  <2> QED
    BY <2>1 DEF LengthFieldExact, EncodeLength
<1> QED
  BY <1>1, InvAlways, PTL

(* An empty fragment that does not end its record fills its block, so that *)
(* the loop of add_record goes on in a new block and makes progress there. *)
THEOREM EmptyFragmentsEndBlocks == WriterSpec => []EmptyFragmentEndsBlock
<1>1. WriterInv => EmptyFragmentEndsBlock
  <2> SUFFICES ASSUME WriterInv, Emitting, fragment_length = 0, ptr # <<>>
               PROVE  block_offset_ + header_size = kBlockSize
    BY DEF EmptyFragmentEndsBlock
  <2>1. Len(ptr) > 0
    BY DEF WriterInv
  <2> QED
    BY <2>1 DEF WriterInv
<1> QED
  BY <1>1, InvAlways, PTL

(* A set of numbers that is not empty has a least element.                 *)
LEMMA LeastIn ==
  ASSUME NEW T, T \subseteq Nat, T # {}
  PROVE  \E n \in T : \A m \in T : n <= m
<1> DEFINE R == {p \in Nat \X Nat : p[1] < p[2]}
<1>1. IsWellFoundedOn(R, Nat)
  BY NatLessThanWellFounded DEF OpToRel
<1>2. PICK n \in T : \A m \in T : ~(<<m, n>> \in R)
  <2> HIDE DEF R
  <2> QED
    BY <1>1, WFMin
<1>3. \A m \in T : ~(m < n)
  BY <1>2
<1> QED
  BY <1>3

-----------------------------------------------------------------------------
(* The log reader.                                                         *)
UnwrittenBytes == {ZeroByte, JunkByte}

(* Neither property is inductive by itself: a reader that starts at offset *)
(* 0 never skips because last_record_offset_ is never negative, and that   *)
(* the buffer does not grow when a record is taken out of it needs it to   *)
(* be a sequence.                                                          *)
ReaderInv ==
  /\ checksum_ \in ChecksumSettings
  /\ rpc \in {"idle", "physical", "panicked"}
  /\ eof_ \in BOOLEAN
  /\ read_error_ \in BOOLEAN
  /\ recycled_ \in BOOLEAN
  /\ initial_offset_ \in InitialOffsets
  /\ buffer_ \in Seq(UnwrittenBytes)
  /\ Len(buffer_) <= kBlockSize
  /\ end_of_buffer_offset_ \in Nat
  /\ last_record_offset_ \in 0 .. OffsetModulus - 1
  /\ physical_record_offset \in 0 .. OffsetModulus - 1
  /\ fpos \in Nat
  /\ reply \in {"none", "record", "nothing"}
  /\ initial_offset_ = 0 =>
       /\ end_of_buffer_offset_ = fpos
       /\ Len(buffer_) <= end_of_buffer_offset_

LEMMA ReaderConstants ==
  /\ kBlockSize \in Nat
  /\ kHeaderSize \in Nat
  /\ kRecyclableHeaderSize \in Nat
  /\ LengthModulus \in Nat
  /\ OffsetModulus \in Nat \ {0}
  /\ InitialOffsets \subseteq Nat
BY LogFormatAssumption, LogReaderAssumption

LEMMA BlockStartIsNat == initial_offset_ \in Nat => block_start_location \in Nat
<1> SUFFICES ASSUME initial_offset_ \in Nat PROVE block_start_location \in Nat
  OBVIOUS
<1> DEFINE r == initial_offset_ % kBlockSize
<1>1. kBlockSize \in Nat /\ kBlockSize > 0
  BY LogFormatAssumption
<1>2. r \in Nat /\ r <= initial_offset_
  BY <1>1
<1>3. block_start_location =
        initial_offset_ - r + (IF r > kBlockSize - (kHeaderSize - 1) THEN kBlockSize ELSE 0)
  BY DEF block_start_location
<1> HIDE DEF r
<1> QED
  BY <1>1, <1>2, <1>3

(* An offset computed on u64 is a u64.                                     *)
LEMMA RecordOffsetIsU64 ==
  ASSUME ReaderInv, NEW end \in Nat
  PROVE  RecordOffset(end) \in 0 .. OffsetModulus - 1
<1>1. end - Len(buffer_) \in Int
  BY DEF ReaderInv
<1> QED
  BY <1>1, ReaderConstants DEF RecordOffset

(* Whatever the buffer decodes to has a type and a length.                 *)
LEMMA HeadersAreSized ==
  ASSUME ReaderInv, NEW h \in Headers
  PROVE  SizeOf(h) \in Nat
<1>1. Len(buffer_) >= kHeaderSize
  <2>1. Len(buffer_) < kHeaderSize => Headers = {}
    BY DEF Headers
  <2>2. Len(buffer_) \in Nat
    BY DEF ReaderInv
  <2> QED
    BY <2>1, <2>2, ReaderConstants
<1>2. Len(buffer_) > 0
  BY <1>1, LogFormatAssumption DEF ReaderInv
<1>3. \A i \in 1..Len(buffer_) : buffer_[i] \in UnwrittenBytes
  BY DEF ReaderInv
<1>4. \A byte \in UnwrittenBytes : byte.b # "head"
  BY DEF UnwrittenBytes, ZeroByte, JunkByte
<1>5. ~Written(kHeaderSize)
  BY <1>2, <1>3, <1>4 DEF Written, ReaderInv
<1>6. TypesFrom(buffer_[kHeaderSize]) \subseteq Nat
  <2> DEFINE byte == buffer_[kHeaderSize]
  <2>1. byte.b # "head"
    BY <1>1, <1>3, <1>4, LogFormatAssumption DEF ReaderInv
  <2>2. TypesFrom(byte) = IF byte = ZeroByte THEN {kZeroType} ELSE kZeroType .. kMaxRecordType + 1
    BY <2>1 DEF TypesFrom
  <2>3. kZeroType \in Nat /\ kMaxRecordType + 1 \in Nat
    BY DEF kZeroType, kMaxRecordType, kRecyclableLastType
  <2>4. {kZeroType} \subseteq Nat /\ kZeroType .. kMaxRecordType + 1 \subseteq Nat
    BY <2>3
  <2> QED
    BY <2>2, <2>4
<1>7. h.type \in Nat /\ h.length \in Nat
  <2>1. CASE SubSeq(buffer_, 1, kHeaderSize) = Zeros(kHeaderSize)
    BY <1>1, <1>5, <2>1, ReaderConstants DEF Headers, Garbled, kZeroType, ReaderInv
  <2>2. CASE SubSeq(buffer_, 1, kHeaderSize) # Zeros(kHeaderSize)
    BY <1>1, <1>5, <1>6, <2>2, ReaderConstants DEF Headers, Garbled, ReaderInv
  <2> QED
    BY <2>1, <2>2
<1> QED
  BY <1>7, ReaderConstants DEF SizeOf, HeaderSizeOf

LEMMA InitReaderInv == ReaderInit => ReaderInv
<1> SUFFICES ASSUME ReaderInit PROVE ReaderInv
  OBVIOUS
<1>1. 0 \in 0 .. OffsetModulus - 1 /\ 0 <= kBlockSize
  BY ReaderConstants
<1>2. buffer_ \in Seq(UnwrittenBytes) /\ Len(buffer_) = 0
  BY DEF ReaderInit
<1>3. /\ rpc = "idle" /\ reply = "none"
      /\ eof_ = FALSE /\ read_error_ = FALSE /\ recycled_ = FALSE
      /\ checksum_ \in ChecksumSettings /\ initial_offset_ \in InitialOffsets
  BY DEF ReaderInit
<1>4. /\ end_of_buffer_offset_ = 0 /\ fpos = 0
      /\ last_record_offset_ = 0 /\ physical_record_offset = 0
  BY DEF ReaderInit
<1>5. rpc \in {"idle", "physical", "panicked"} /\ reply \in {"none", "record", "nothing"}
  BY <1>3
<1>6. eof_ \in BOOLEAN /\ read_error_ \in BOOLEAN /\ recycled_ \in BOOLEAN
  BY <1>3
<1>7. /\ Len(buffer_) <= kBlockSize
      /\ end_of_buffer_offset_ \in Nat
      /\ fpos \in Nat
      /\ end_of_buffer_offset_ = fpos
      /\ Len(buffer_) <= end_of_buffer_offset_
  BY <1>1, <1>2, <1>4
<1> QED
  BY Zenon, <1>1, <1>2, <1>3, <1>4, <1>5, <1>6, <1>7 DEF ReaderInv

LEMMA MarkedIsBoolean ==
  ASSUME NEW h, ReaderInv, MarkRecycled(h)
  PROVE  recycled_' \in BOOLEAN
BY Zenon DEF MarkRecycled, ReaderInv

LEMMA ServeInv ==
  ASSUME ReaderInv, NEW h \in Headers, Serve(h), UNCHANGED checksum_
  PROVE  ReaderInv'
<1>1. SizeOf(h) \in Nat
  BY HeadersAreSized
<1>2. recycled_' \in BOOLEAN
  <2>1. Parses(h)
    BY DEF Serve, OldRecord, DropBlock, BelowInitialOffset, FullRecord, FirstOrMiddle,
           LastFragment, UnknownType, Consumes
  <2> QED
    BY <2>1, MarkedIsBoolean DEF Parses
<1>3. Consumes(h) =>
        /\ buffer_' \in Seq(UnwrittenBytes)
        /\ Len(buffer_') <= Len(buffer_)
  <2> SUFFICES ASSUME Consumes(h)
               PROVE  buffer_' \in Seq(UnwrittenBytes) /\ Len(buffer_') <= Len(buffer_)
    OBVIOUS
  <2>1. SizeOf(h) <= Len(buffer_)
    BY <1>1 DEF Consumes, Overruns, ReaderInv
  <2>2. buffer_' = SubSeq(buffer_, SizeOf(h) + 1, Len(buffer_))
    BY DEF Consumes, Rest
  <2>3. /\ SizeOf(h) + 1 \in Nat \ {0}
        /\ Len(buffer_) \in Nat
        /\ buffer_ \in Seq(UnwrittenBytes)
    BY <1>1 DEF ReaderInv
  <2> HIDE DEF ReaderInv
  <2>4. SubSeq(buffer_, SizeOf(h) + 1, Len(buffer_)) \in Seq(UnwrittenBytes)
    BY <2>1, <2>3
  <2>5. Len(SubSeq(buffer_, SizeOf(h) + 1, Len(buffer_))) = Len(buffer_) - SizeOf(h)
    BY <1>1, <2>1, <2>3
  <2> QED
    BY <1>1, <2>2, <2>3, <2>4, <2>5
<1>4. /\ rpc' = "idle"
      /\ reply' \in {"record", "nothing"}
      /\ UNCHANGED <<eof_, read_error_, initial_offset_, end_of_buffer_offset_,
                     physical_record_offset, fpos>>
  BY DEF Serve, OldRecord, DropBlock, BelowInitialOffset, FullRecord, FirstOrMiddle,
         LastFragment, UnknownType, Consumes, Return
<1>5. buffer_' = buffer_ \/ buffer_' = <<>> \/ Consumes(h)
  BY DEF Serve, OldRecord, DropBlock, BelowInitialOffset, FullRecord, FirstOrMiddle,
         LastFragment, UnknownType
<1>6. last_record_offset_' \in {last_record_offset_, physical_record_offset, 0}
  BY DEF Serve, OldRecord, DropBlock, BelowInitialOffset, FullRecord, FirstOrMiddle,
         LastFragment, UnknownType
<1>7. buffer_' \in Seq(UnwrittenBytes) /\ Len(buffer_') <= Len(buffer_)
  <2>1. /\ buffer_ \in Seq(UnwrittenBytes)
        /\ Len(buffer_) \in Nat
        /\ <<>> \in Seq(UnwrittenBytes)
        /\ Len(<<>>) = 0
    BY DEF ReaderInv
  <2>2. CASE buffer_' = buffer_
    BY <2>1, <2>2
  <2>3. CASE buffer_' = <<>>
    BY <2>1, <2>3
  <2> QED
    BY <1>3, <1>5, <2>2, <2>3
<1>8. last_record_offset_' \in 0 .. OffsetModulus - 1
  BY <1>6, ReaderConstants DEF ReaderInv
<1> QED
  BY <1>2, <1>4, <1>7, <1>8, ReaderConstants DEF ReaderInv

LEMMA FetchInv ==
  ASSUME ReaderInv, FetchAnything, UNCHANGED checksum_
  PROVE  ReaderInv'
<1>n. PICK n \in 0..kBlockSize :
        \E data \in [1..n -> UnwrittenBytes] :
          \E error \in {FALSE, n < kBlockSize} : Fetch(data, error)
  BY Zenon DEF FetchAnything, UnwrittenBytes
<1>1. PICK data \in [1..n -> UnwrittenBytes] :
        \E error \in {FALSE, n < kBlockSize} : Fetch(data, error)
  BY <1>n
<1>2. PICK error \in {FALSE, n < kBlockSize} : Fetch(data, error)
  BY <1>1
<1>3. n \in Nat /\ data \in Seq(UnwrittenBytes) /\ Len(data) = n
  BY ReaderConstants
<1>4. recycled_' \in BOOLEAN
  <2>1. UNCHANGED recycled_ \/ \E h \in Headers : MarkRecycled(h)
    BY <1>2 DEF Fetch
  <2> QED
    BY <2>1, MarkedIsBoolean DEF ReaderInv
<1>5. /\ fpos' = fpos + n
      /\ end_of_buffer_offset_' = end_of_buffer_offset_ + n
      /\ UNCHANGED <<initial_offset_, last_record_offset_, physical_record_offset>>
  BY <1>2, <1>3 DEF Fetch, EndAfter
<1>6. /\ buffer_' \in {<<>>, data}
      /\ eof_' \in BOOLEAN
      /\ read_error_' \in BOOLEAN
      /\ rpc' \in {rpc, "idle"}
      /\ reply' \in {reply, "nothing"}
  <2>1. CASE error
    BY <1>2, <2>1 DEF Fetch, Return, ReaderInv
  <2>2. CASE ~error
    <3>1. /\ buffer_' = data
          /\ eof_' = (Len(data) < kBlockSize)
          /\ UNCHANGED <<rpc, reply, read_error_>>
      BY <1>2, <2>2 DEF Fetch, Refilled, AtEnd
    <3>2. eof_' \in BOOLEAN
      BY <3>1
    <3> QED
      BY <3>1, <3>2 DEF ReaderInv
  <2> QED
    BY <2>1, <2>2
<1>7. buffer_' \in Seq(UnwrittenBytes) /\ Len(buffer_') <= n
  <2>1. <<>> \in Seq(UnwrittenBytes) /\ Len(<<>>) = 0
    OBVIOUS
  <2>2. CASE buffer_' = <<>>
    BY <1>3, <2>1, <2>2
  <2>3. CASE buffer_' = data
    BY <1>3, <2>3
  <2> QED
    BY <1>6, <2>2, <2>3
<1> QED
  BY <1>3, <1>4, <1>5, <1>6, <1>7, ReaderConstants DEF ReaderInv

LEMMA ReaderStepInv == ReaderInv /\ [ReaderNext]_rvars => ReaderInv'
<1> SUFFICES ASSUME ReaderInv, [ReaderNext]_rvars
             PROVE  ReaderInv'
  OBVIOUS
<1>0. UNCHANGED checksum_
  BY DEF ReaderNext, rvars
<1>1. CASE SkipFails
  <2>1. initial_offset_ \in Nat /\ initial_offset_ # 0
    BY <1>1, ReaderConstants DEF SkipFails, SkipsNow, ReaderInv
  <2>2. block_start_location \in Nat
    BY <2>1, BlockStartIsNat
  <2> QED
    BY <1>0, <1>1, <2>1, <2>2 DEF SkipFails, Return, ReaderInv
<1>2. CASE ReadRecord
  <2> DEFINE end == IF SkipsNow THEN 0 ELSE end_of_buffer_offset_
  <2>1. end \in Nat /\ (initial_offset_ = 0 => end = end_of_buffer_offset_)
    BY ReaderConstants DEF SkipsNow, ReaderInv
  <2>2. RecordOffset(end) \in 0 .. OffsetModulus - 1
    BY <2>1, RecordOffsetIsU64
  <2>3. /\ end_of_buffer_offset_' = end
        /\ physical_record_offset' = RecordOffset(end)
        /\ rpc' \in {"panicked", "physical"}
        /\ reply' = "none"
        /\ UNCHANGED <<eof_, read_error_, recycled_, initial_offset_, buffer_,
                       last_record_offset_, fpos>>
    BY <1>2 DEF ReadRecord
  <2> HIDE DEF end
  <2> QED
    BY <1>0, <2>1, <2>2, <2>3 DEF ReaderInv
<1>3. CASE Exhausted
  <2>1. recycled_' \in BOOLEAN
    BY <1>3 DEF Exhausted, MarkRecycled, ReaderInv
  <2> QED
    BY <1>0, <1>3, <2>1, ReaderConstants DEF Exhausted, Return, ReaderInv
<1>4. CASE \E h \in Headers : Serve(h)
  BY <1>0, <1>4, ServeInv
<1>5. CASE FetchAnything
  BY <1>0, <1>5, FetchInv
<1>6. CASE UNCHANGED rvars
  BY <1>6 DEF rvars, ReaderInv
<1> QED
  BY <1>1, <1>2, <1>3, <1>4, <1>5, <1>6 DEF ReaderNext, ReaderStep

LEMMA ReaderInvAlways == ReaderSpec => []ReaderInv
BY InitReaderInv, ReaderStepInv, PTL DEF ReaderSpec

(* The variables of the reader keep their types, whatever it reads.        *)
THEOREM ReaderTypeCorrect == ReaderSpec => []ReaderTypeOK
<1>1. ReaderInv => ReaderTypeOK
  BY ReaderConstants DEF ReaderInv, ReaderTypeOK
<1> QED
  BY <1>1, ReaderInvAlways, PTL

(* A reader that starts at offset 0 never subtracts more than there is     *)
(* from end_of_buffer_offset_.                                             *)
THEOREM BufferStaysWithinFile == ReaderSpec => []BufferWithinFile
<1>1. ReaderInv => BufferWithinFile
  BY DEF ReaderInv, BufferWithinFile
<1> QED
  BY <1>1, ReaderInvAlways, PTL

(* A reader that starts at offset 0 always knows where its file stands.    *)
THEOREM BufferEndIsFilePosition == ReaderSpec => []BufferEndsAtFilePosition
<1>1. ReaderInv => BufferEndsAtFilePosition
  BY DEF ReaderInv, BufferEndsAtFilePosition
<1> QED
  BY <1>1, ReaderInvAlways, PTL

=============================================================================
