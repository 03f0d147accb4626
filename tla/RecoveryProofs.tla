----------------------------- MODULE RecoveryProofs -----------------------------
(***************************************************************************)
(* What the checksum gives a caller of readRecord, whatever stands between *)
(* the writer and the reader: as long as the bytes of the file are bytes   *)
(* that the writer appended, zeros and damaged bytes, in any order, only   *)
(* whole records are returned, and none of a recyclable log.  The modules  *)
(* that extend this one show that their destination is like that.          *)
(***************************************************************************)
EXTENDS Recovery, LogProofs

LOCAL INSTANCE Functions

(* What a checksum is computed from.                                       *)
CrcBytes == Data \cup {FieldByte(v) : v \in Nat}

WriterTypes == IF recycle_log_files_ THEN 5..8 ELSE 1..4

(* A header that the writer computed, at some time, for some rest of a     *)
(* record, which is a whole record if its type says so.                    *)
SoundHeaders ==
  {h \in [type : WriterTypes, length : Nat, log : Nat, crc : Seq(CrcBytes)] :
     \E data \in Seq(Data), n \in Nat :
       /\ h.crc = WriterCrc(h.type, n, data)
       /\ h.type \in {kFullType, kRecyclableFullType} => \E i \in 1..Len(added) : data = added[i]}

HeadBytes == {HeadByte(h, i) : h \in SoundHeaders, i \in Nat}

FileBytes == {ZeroByte, JunkByte} \cup Data \cup HeadBytes

(* The writer's half: what it hands to its destination.                    *)
AppendsSound ==
  /\ WriterInv
  /\ wpc \in {"fragment", "trailer"} \/ Emitting =>
       added # <<>> /\ (begin => ptr = added[Len(added)])
  /\ call.data \in Seq(FileBytes)

(* What a call hands out, when checksums are verified.                     *)
ReplyIsAdded ==
  checksum_ /\ reply = "record" =>
    /\ ~recycle_log_files_
    /\ record = <<>> \/ \E i \in 1..Len(added) : record = added[i]

(* The reader's half.  A call starts with an empty record, which is what   *)
(* it returns for a last fragment.                                         *)
ReturnsSound ==
  /\ checksum_ \in BOOLEAN
  /\ buffer_ \in Seq(FileBytes)
  /\ record \in Seq(FileBytes)
  /\ rpc = "physical" => record = <<>> /\ reply = "none"
  /\ fpos \in Nat /\ initial_offset_ \in Nat
  /\ leading \in Seq(Seq(FileBytes))
  /\ later \subseteq Seq(FileBytes)
  /\ checksum_ => NoPhantomRecord /\ RecyclableRejected

-----------------------------------------------------------------------------
LEMMA Sizes ==
  /\ kBlockSize \in Nat /\ kHeaderSize \in Nat /\ kRecyclableHeaderSize \in Nat
  /\ 0 < kHeaderSize /\ kHeaderSize < kRecyclableHeaderSize
  /\ kRecyclableHeaderSize < kBlockSize
  /\ LengthModulus \in Nat /\ 0 < LengthModulus
  /\ LogNumberModulus \in Nat \ {0}
  /\ recycle_log_files_ \in RecycleSettings => recycle_log_files_ \in BOOLEAN
  /\ log_number_ \in Nat
BY LogFormatAssumption, LogWriterAssumption

LEMMA Types ==
  /\ kFullType = 1 /\ kFirstType = 2 /\ kMiddleType = 3 /\ kLastType = 4
  /\ kRecyclableFullType = 5 /\ kRecyclableLastType = 8 /\ kZeroType = 0
  /\ \A t \in Nat : Recyclable(t) = t + 4
  /\ \A t \in Nat : IsRecyclable(t) <=> t \in 5..8
BY DEF kFullType, kFirstType, kMiddleType, kLastType, kRecyclableFullType, kRecyclableLastType,
       kZeroType, Recyclable, IsRecyclable

(* Sequences of bytes stay such when records are added.                    *)
LEMMA BytesGrow ==
  ASSUME UNCHANGED recycle_log_files_, added \in Seq(Seq(Data)), added' \in Seq(Seq(Data)),
         Len(added) <= Len(added'),
         \A i \in 1..Len(added) : added'[i] = added[i]
  PROVE  FileBytes \subseteq FileBytes' /\ SoundHeaders \subseteq SoundHeaders'
<1>1. SoundHeaders \subseteq SoundHeaders'
  <2> SUFFICES ASSUME NEW h \in SoundHeaders PROVE h \in SoundHeaders'
    OBVIOUS
  <2>1. h \in [type : WriterTypes, length : Nat, log : Nat, crc : Seq(CrcBytes)]
    BY DEF SoundHeaders
  <2>2. PICK data \in Seq(Data), n \in Nat :
          /\ h.crc = WriterCrc(h.type, n, data)
          /\ h.type \in {kFullType, kRecyclableFullType} => \E i \in 1..Len(added) : data = added[i]
    BY DEF SoundHeaders
  <2>3. WriterCrc(h.type, n, data)' = WriterCrc(h.type, n, data)
    BY DEF WriterCrc
  <2>4. h.type \in {kFullType, kRecyclableFullType} => \E i \in 1..Len(added') : data = added'[i]
    <3> SUFFICES ASSUME h.type \in {kFullType, kRecyclableFullType}
                 PROVE  \E i \in 1..Len(added') : data = added'[i]
      OBVIOUS
    <3>1. PICK i \in 1..Len(added) : data = added[i]
      BY <2>2
    <3>2. i \in 1..Len(added') /\ added'[i] = added[i]
      BY <3>1
    <3> QED
      BY <3>1, <3>2
  <2>5. WriterTypes' = WriterTypes
    BY DEF WriterTypes
  <2> QED
    BY <2>1, <2>2, <2>3, <2>4, <2>5 DEF SoundHeaders
<1> QED
  BY <1>1 DEF FileBytes, HeadBytes

LEMMA SeqGrows ==
  ASSUME NEW S, NEW T, S \subseteq T
  PROVE  Seq(S) \subseteq Seq(T)
OBVIOUS

(* What is cut out of a sequence behind its first a elements.              *)
LEMMA PieceIs ==
  ASSUME NEW S, NEW s \in Seq(S), NEW a \in Nat, NEW b \in Nat, b <= Len(s)
  PROVE  /\ SubSeq(s, a + 1, b) \in Seq(S)
         /\ Len(SubSeq(s, a + 1, b)) = IF a < b THEN b - a ELSE 0
         /\ \A q \in 1..Len(SubSeq(s, a + 1, b)) : SubSeq(s, a + 1, b)[q] = s[a + q]
<1>1. PICK d \in Nat : d = a + 1
  OBVIOUS
<1>2. \A m \in d..b : m \in 1..Len(s)
  BY <1>1
<1>3. PICK t : t = SubSeq(s, d, b)
  OBVIOUS
<1>4. /\ t \in Seq(S) /\ Len(t) = IF d <= b THEN b - d + 1 ELSE 0
      /\ \A q \in 1..Len(t) : t[q] = s[d + q - 1]
  BY <1>1, <1>2, <1>3
<1>5. (IF d <= b THEN b - d + 1 ELSE 0) = IF a < b THEN b - a ELSE 0
  BY <1>1
<1>6. \A q \in 1..Len(t) : d + q - 1 = a + q
  BY <1>1, <1>4
<1> QED
  BY <1>1, <1>3, <1>4, <1>5, <1>6

-----------------------------------------------------------------------------
(* The writer appends sound bytes.                                         *)
LEMMA ZerosSound ==
  ASSUME NEW n \in Nat
  PROVE  Zeros(n) \in Seq(FileBytes) /\ Len(Zeros(n)) = n
<1>1. ZeroByte \in FileBytes
  BY Zenon DEF FileBytes
<1>2. Zeros(n) \in [1..n -> FileBytes]
  BY <1>1 DEF Zeros
<1> QED
  BY <1>2

LEMMA DataSound == Seq(Data) \subseteq Seq(FileBytes)
<1>1. Data \subseteq FileBytes
  BY DEF FileBytes
<1> QED
  BY <1>1, SeqGrows

LEMMA WriterCrcIsCrc ==
  ASSUME NEW type \in Nat, NEW n \in Nat, NEW data \in Seq(Data)
  PROVE  WriterCrc(type, n, data) \in Seq(CrcBytes)
<1>1. /\ FieldByte(type) \in CrcBytes
      /\ FieldByte(EncodeLength(n)) \in CrcBytes
      /\ FieldByte(EncodeLogNumber(log_number_)) \in CrcBytes
  BY Sizes DEF CrcBytes, EncodeLength, EncodeLogNumber
<1>2. data \in Seq(CrcBytes)
  <2>1. Data \subseteq CrcBytes
    BY DEF CrcBytes
  <2> QED
    BY <2>1, SeqGrows
<1> HIDE DEF CrcBytes
<1>3. <<FieldByte(type)>> \in Seq(CrcBytes)
  BY <1>1
<1>4. <<FieldByte(EncodeLength(n)), FieldByte(type), FieldByte(EncodeLogNumber(log_number_))>>
        \in Seq(CrcBytes)
  BY <1>1
<1>5. <<>> \in Seq(CrcBytes)
  OBVIOUS
<1> QED
  BY <1>2, <1>3, <1>4, <1>5 DEF WriterCrc

(* The type says whether the record is whole and begins here.              *)
LEMMA TypeSound ==
  ASSUME NEW first \in BOOLEAN, NEW final \in BOOLEAN, recycle_log_files_ \in BOOLEAN
  PROVE  /\ RecordTypeOf(first, final) \in WriterTypes
         /\ RecordTypeOf(first, final) \in Nat
         /\ RecordTypeOf(first, final) \in {kFullType, kRecyclableFullType} => first /\ final
BY Types DEF RecordTypeOf, WriterTypes

LEMMA HeaderSound ==
  ASSUME AppendsSound, wpc \in {"fragment", "trailer"}, NEW n \in Nat
  PROVE  LET type == RecordTypeOf(begin, Len(ptr) = n)
             h    == [type   |-> type,
                      length |-> EncodeLength(n),
                      log    |-> EncodeLogNumber(log_number_),
                      crc    |-> WriterCrc(type, n, ptr)]
         IN  HeaderBytes(h, header_size) \in Seq(FileBytes)
<1> DEFINE type == RecordTypeOf(begin, Len(ptr) = n)
           h    == [type   |-> type,
                    length |-> EncodeLength(n),
                    log    |-> EncodeLogNumber(log_number_),
                    crc    |-> WriterCrc(type, n, ptr)]
<1>1. /\ ptr \in Seq(Data) /\ begin \in BOOLEAN /\ recycle_log_files_ \in BOOLEAN
      /\ added \in Seq(Seq(Data)) /\ added # <<>> /\ (begin => ptr = added[Len(added)])
  BY Sizes DEF AppendsSound, WriterInv
<1>2. /\ type \in WriterTypes /\ type \in Nat
      /\ type \in {kFullType, kRecyclableFullType} => begin
  BY <1>1, TypeSound
<1>3. begin => \E i \in 1..Len(added) : ptr = added[i]
  BY <1>1
<1>4. WriterCrc(type, n, ptr) \in Seq(CrcBytes)
  BY <1>1, <1>2, WriterCrcIsCrc
<1>5. EncodeLength(n) \in Nat /\ EncodeLogNumber(log_number_) \in Nat
  BY Sizes DEF EncodeLength, EncodeLogNumber
<1> HIDE DEF type
<1>6. h \in SoundHeaders
  <2>1. h \in [type : WriterTypes, length : Nat, log : Nat, crc : Seq(CrcBytes)]
    BY <1>2, <1>4, <1>5
  <2>2. h.crc = WriterCrc(h.type, n, ptr) /\ h.type = type
    OBVIOUS
  <2> HIDE DEF h
  <2> QED
    BY <1>1, <1>2, <1>3, <2>1, <2>2 DEF SoundHeaders
<1> HIDE DEF h
<1>7. \A i \in 1..header_size : HeadByte(h, i) \in FileBytes
  BY <1>6 DEF FileBytes, HeadBytes
<1>8. header_size \in Nat
  BY Sizes DEF header_size
<1>9. HeaderBytes(h, header_size) \in [1..header_size -> FileBytes]
  BY <1>7 DEF HeaderBytes
<1> QED
  BY <1>8, <1>9 DEF h, type

(* The writer adds records at the end and changes none.                    *)
AddedGrows ==
  /\ UNCHANGED recycle_log_files_
  /\ added \in Seq(Seq(Data)) /\ added' \in Seq(Seq(Data))
  /\ Len(added) <= Len(added')
  /\ \A i \in 1..Len(added) : added'[i] = added[i]

LEMMA WriterGrows ==
  ASSUME WriterInv, [WriterNext \/ DestReturns]_wvars
  PROVE  WriterInv' /\ AddedGrows
<1>1. WriterInv'
  BY StepInv
<1>2. added \in Seq(Seq(Data)) /\ added' \in Seq(Seq(Data))
  BY <1>1 DEF WriterInv
<1>3. UNCHANGED recycle_log_files_
  BY DEF WriterNext, DestReturns, wvars
<1>4. CASE AddAnyRecord
  <2>1. PICK n \in RecordLengths : AddRecord(Payload(Len(added) + 1, n))
    BY <1>4 DEF AddAnyRecord
  <2>2. Payload(Len(added) + 1, n) \in Seq(Data)
    BY <1>2, PayloadIsData, LogWriterAssumption
  <2>3. added' = Append(added, Payload(Len(added) + 1, n))
    BY <2>1 DEF AddRecord
  <2> QED
    BY <1>1, <1>2, <1>3, <2>2, <2>3 DEF AddedGrows
<1>5. CASE ~AddAnyRecord
  <2>1. UNCHANGED added
    BY Zenon, <1>5 DEF WriterNext, WriterStep, FillTrailer, StartFragment,
       EmitHeader, TrailerFilled, TrailerFailed, HeaderAppended, FlushFragment, FinishFragment,
       DropReturns, DropWriter, DestReturns, wvars
  <2> QED
    BY <1>1, <1>2, <1>3, <2>1 DEF AddedGrows
<1> QED
  BY <1>4, <1>5

LEMMA GrowthKeepsBytes ==
  ASSUME AddedGrows
  PROVE  FileBytes \subseteq FileBytes' /\ Seq(FileBytes) \subseteq Seq(FileBytes')
<1>1. FileBytes \subseteq FileBytes'
  BY BytesGrow DEF AddedGrows
<1> QED
  BY <1>1, SeqGrows

LEMMA EmitHeaderSound ==
  ASSUME AppendsSound, wpc \in {"fragment", "trailer"}, NEW start \in 0..kBlockSize,
         start + header_size <= kBlockSize, EmitHeader(start), UNCHANGED recycle_log_files_
  PROVE  call'.data \in Seq(FileBytes)
<1> DEFINE avail == AvailableAt(start)
           n     == IF Len(ptr) < avail THEN Len(ptr) ELSE avail
<1>1. n \in Nat
  BY HeaderSizeFits DEF AvailableAt, AppendsSound, WriterInv
<1> HIDE DEF n
<1> QED
  BY <1>1, HeaderSound DEF EmitHeader, Invoke, n

LEMMA WriterSound ==
  ASSUME AppendsSound, [WriterNext \/ DestReturns]_wvars
  PROVE  AppendsSound' /\ AddedGrows
<1> USE HeaderSizeFits
<1>1. WriterInv' /\ AddedGrows
  BY WriterGrows DEF AppendsSound
<1>2. Seq(FileBytes) \subseteq Seq(FileBytes')
  BY <1>1, GrowthKeepsBytes
<1>3. ptr \in Seq(FileBytes) /\ <<>> \in Seq(FileBytes)
  BY DataSound DEF AppendsSound, WriterInv
<1>4. call'.data \in Seq(FileBytes)
  <2>1. CASE FillTrailer
    <3>1. leftover \in Nat
      BY <2>1 DEF leftover, AppendsSound, WriterInv
    <3>2. call' = [op |-> "append", data |-> Zeros(leftover)]
      BY <2>1 DEF FillTrailer, Invoke, Trailer
    <3>3. call'.data = Zeros(leftover)
      BY <3>2
    <3> QED
      BY <3>1, <3>3, ZerosSound
  <2>2. CASE StartFragment \/ TrailerFilled
    <3>1. PICK start \in {block_offset_, 0} :
            EmitHeader(start) /\ start + header_size <= kBlockSize
      BY <2>2 DEF StartFragment, TrailerFilled, leftover, AppendsSound, WriterInv
    <3>2. start \in 0..kBlockSize
      BY DEF AppendsSound, WriterInv
    <3>3. wpc \in {"fragment", "trailer"}
      BY <2>2 DEF StartFragment, TrailerFilled
    <3> QED
      BY <1>1, <3>1, <3>2, <3>3, EmitHeaderSound DEF AddedGrows
  <2>3. CASE HeaderAppended \/ FlushFragment \/ DropWriter
    <3>1. \E op : Invoke(op, ptr) \/ Invoke(op, <<>>)
      BY Zenon, <2>3 DEF HeaderAppended, FlushFragment, DropWriter
    <3>2. call'.data = ptr \/ call'.data = <<>>
      BY <3>1 DEF Invoke
    <3> QED
      BY <1>3, <3>2
  <2>4. CASE AddAnyRecord \/ TrailerFailed \/ FinishFragment \/ DropReturns \/ DestReturns
               \/ UNCHANGED wvars
    <3>1. UNCHANGED call
      BY Zenon, <2>4 DEF AddAnyRecord, AddRecord, TrailerFailed, FinishFragment, DropReturns,
         DestReturns, wvars
    <3> QED
      BY <3>1 DEF AppendsSound
  <2> QED
    BY <2>1, <2>2, <2>3, <2>4 DEF WriterNext, WriterStep
<1>5. wpc' \in {"fragment", "trailer"} \/ Emitting' =>
        added' # <<>> /\ (begin' => ptr' = added'[Len(added')])
  <2>1. CASE AddAnyRecord
    BY <1>1, <2>1 DEF AddAnyRecord, AddRecord, AddedGrows
  <2>2. CASE FillTrailer \/ StartFragment \/ TrailerFilled \/ HeaderAppended \/ FlushFragment
    BY <2>2 DEF FillTrailer, StartFragment, TrailerFilled, HeaderAppended, FlushFragment,
       EmitHeader, AppendsSound, Emitting
  <2>3. CASE FinishFragment
    BY <2>3 DEF FinishFragment, AppendsSound, Emitting
  <2>4. CASE TrailerFailed \/ DropReturns \/ DropWriter
    BY <2>4 DEF TrailerFailed, DropReturns, DropWriter, Emitting
  <2>5. CASE DestReturns \/ UNCHANGED wvars
    BY <2>5 DEF DestReturns, wvars, AppendsSound, Emitting
  <2> QED
    BY <2>1, <2>2, <2>3, <2>4, <2>5 DEF WriterNext, WriterStep
<1> QED
  BY <1>1, <1>2, <1>4, <1>5 DEF AppendsSound

-----------------------------------------------------------------------------
(* What the reader decodes is a header that the writer computed, or it has *)
(* a checksum that matches nothing.                                        *)
LEMMA TagsTell ==
  ASSUME NEW byte \in FileBytes, byte.b = "head"
  PROVE  byte.hdr \in SoundHeaders
<1>1. ZeroByte.b # "head" /\ JunkByte.b # "head" /\ \A d \in Data : d.b # "head"
  BY DEF ZeroByte, JunkByte, Data
<1>2. byte \in HeadBytes
  BY <1>1 DEF FileBytes
<1>3. PICK h \in SoundHeaders, i \in Nat : byte = HeadByte(h, i)
  BY <1>2 DEF HeadBytes
<1> QED
  BY <1>3 DEF HeadByte

LEMMA SoundHeaderFields ==
  ASSUME NEW h \in SoundHeaders
  PROVE  h.type \in WriterTypes /\ h.type \in Nat /\ h.length \in Nat /\ h.log \in Nat
BY DEF SoundHeaders, WriterTypes

LEMMA HeadersSound ==
  ASSUME buffer_ \in Seq(FileBytes), NEW h \in Headers
  PROVE  /\ kHeaderSize <= Len(buffer_)
         /\ h.type \in Nat /\ h.length \in Nat
         /\ \/ h \in SoundHeaders /\ Written(kHeaderSize) /\ h = buffer_[1].hdr
            \/ h.crc = <<>>
<1>1. kHeaderSize <= Len(buffer_)
  <2>1. Len(buffer_) < kHeaderSize => Headers = {}
    BY DEF Headers
  <2> QED
    BY <2>1, Sizes
<1>2. buffer_[1] \in FileBytes /\ buffer_[kHeaderSize] \in FileBytes
  BY <1>1, Sizes
<1>3. CASE Written(kHeaderSize)
  <2>1. buffer_[1].hdr \in SoundHeaders
    BY <1>2, <1>3, TagsTell DEF Written
  <2>2. CASE h = buffer_[1].hdr
    BY <1>1, <1>3, <2>1, <2>2, SoundHeaderFields
  <2>3. CASE h \in Garbled({buffer_[1].hdr.type}, {buffer_[1].hdr.length})
    BY <1>1, <2>1, <2>3, SoundHeaderFields DEF Garbled
  <2>4. Len(buffer_) \in Nat /\ ~(Len(buffer_) < kHeaderSize)
    BY <1>1, Sizes
  <2>5. SubSeq(buffer_, 1, kHeaderSize) # Zeros(kHeaderSize)
    <3>1. SubSeq(buffer_, 1, kHeaderSize)[1] = buffer_[1] /\ Zeros(kHeaderSize)[1] = ZeroByte
      BY <1>1, Sizes DEF Zeros
    <3>2. buffer_[1].b = "head" /\ ZeroByte.b = "zero"
      BY <1>3 DEF Written, ZeroByte
    <3> QED
      BY <3>1, <3>2
  <2>6. CASE IsRecyclable(buffer_[1].hdr.type) /\ ~Written(kRecyclableHeaderSize)
    <3>1. Headers = Garbled({buffer_[1].hdr.type}, {buffer_[1].hdr.length})
      BY Zenon, <1>3, <2>4, <2>6, <2>5 DEF Headers
    <3> QED
      BY <2>3, <3>1
  <2>7. CASE ~(IsRecyclable(buffer_[1].hdr.type) /\ ~Written(kRecyclableHeaderSize))
    <3>1. Headers = {buffer_[1].hdr}
      BY Zenon, <1>3, <2>4, <2>7, <2>5 DEF Headers
    <3> QED
      BY <2>2, <3>1
  <2> QED
    BY <2>6, <2>7
<1>4. CASE ~Written(kHeaderSize)
  <2>1. \/ h \in Garbled({kZeroType}, {0})
        \/ h \in Garbled(TypesFrom(buffer_[kHeaderSize]), 0 .. LengthModulus - 1)
    BY <1>1, <1>4, Sizes DEF Headers
  <2>2. TypesFrom(buffer_[kHeaderSize]) \subseteq Nat
    <3> DEFINE byte == buffer_[kHeaderSize]
    <3>1. byte.b = "head" => byte.hdr.type \in Nat
      BY <1>2, TagsTell, SoundHeaderFields
    <3>2. \/ TypesFrom(byte) = {kZeroType}
          \/ byte.b = "head" /\ TypesFrom(byte) = {byte.hdr.type}
          \/ TypesFrom(byte) = kZeroType .. kMaxRecordType + 1
      BY DEF TypesFrom
    <3>3. {kZeroType} \subseteq Nat /\ kZeroType .. kMaxRecordType + 1 \subseteq Nat
      BY DEF kZeroType, kMaxRecordType, kRecyclableLastType
    <3> QED
      BY <3>1, <3>2, <3>3
  <2>3. h.crc = <<>> /\ h.length \in Nat /\ h.type \in Nat
    BY <2>1, <2>2, Sizes DEF Garbled, kZeroType
  <2> QED
    BY <1>1, <2>3
<1> QED
  BY <1>3, <1>4

LEMMA FragmentIsBytes ==
  ASSUME buffer_ \in Seq(FileBytes), NEW h \in Headers, ~Overruns(h)
  PROVE  Fragment(h) \in Seq(FileBytes) /\ Rest(h) \in Seq(FileBytes)
<1>1. HeaderSizeOf(h.type) \in Nat /\ h.length \in Nat
  BY Sizes, HeadersSound DEF HeaderSizeOf
<1>2. SizeOf(h) \in Nat /\ SizeOf(h) <= Len(buffer_)
  BY <1>1 DEF SizeOf, Overruns
<1> QED
  BY <1>1, <1>2 DEF Fragment, Rest

(* Two sequences that continue one alike are alike.                        *)
LEMMA SameRest ==
  ASSUME NEW S, NEW a \in Seq(S), NEW s \in Seq(S), NEW t \in Seq(S), a \o s = a \o t
  PROVE  s = t
<1>1. Len(s) = Len(t)
  <2>1. Len(a \o s) = Len(a) + Len(s) /\ Len(a \o t) = Len(a) + Len(t)
    OBVIOUS
  <2> QED
    BY <2>1
<1>2. \A i \in 1..Len(s) : s[i] = t[i]
  <2> TAKE i \in 1..Len(s)
  <2>1. (a \o s)[Len(a) + i] = s[i] /\ (a \o t)[Len(a) + i] = t[i]
    BY <1>1
  <2> QED
    BY <2>1
<1> QED
  BY <1>1, <1>2

LEMMA FieldsAreNotBytes == \A v : FieldByte(v) \notin FileBytes
<1>1. \A byte \in FileBytes : byte.b \in {"zero", "junk", "data", "head"}
  <2>1. ZeroByte.b = "zero" /\ JunkByte.b = "junk" /\ \A d \in Data : d.b = "data"
    BY DEF ZeroByte, JunkByte, Data
  <2>2. \A byte \in HeadBytes : byte.b = "head"
    BY DEF HeadBytes, HeadByte
  <2> QED
    BY <2>1, <2>2 DEF FileBytes
<1>2. \A v : FieldByte(v).b = "field"
  BY DEF FieldByte
<1> QED
  BY <1>1, <1>2

(* What passes the checksum is what the writer computed it from; and what  *)
(* the writer computes for recyclable records never passes.                *)
LEMMA ChecksumProtects ==
  ASSUME buffer_ \in Seq(FileBytes), NEW h \in Headers, recycle_log_files_ \in BOOLEAN,
         ~Overruns(h), ReaderCrc(h) = h.crc
  PROVE  /\ ~recycle_log_files_
         /\ h \in SoundHeaders /\ Written(kHeaderSize) /\ h = buffer_[1].hdr
         /\ h.crc = WriterCrc(h.type, 0, Fragment(h))
         /\ h.type \in {kFullType, kRecyclableFullType} => \E i \in 1..Len(added) : Fragment(h) = added[i]
<1>1. h \in SoundHeaders /\ Written(kHeaderSize) /\ h = buffer_[1].hdr
  <2>1. ReaderCrc(h) # <<>>
    BY DEF ReaderCrc
  <2> QED
    BY <2>1, HeadersSound
<1>2. /\ h.type \in WriterTypes /\ h.type \in Nat /\ h.length \in Nat /\ h.log \in Nat
  BY <1>1, SoundHeaderFields
<1>3. PICK data \in Seq(Data), n \in Nat :
        /\ h.crc = WriterCrc(h.type, n, data)
        /\ h.type \in {kFullType, kRecyclableFullType} => \E i \in 1..Len(added) : data = added[i]
  BY <1>1 DEF SoundHeaders
<1>4. Fragment(h) \in Seq(FileBytes)
  BY FragmentIsBytes
<1>5. CASE recycle_log_files_
  <2>1. IsRecyclable(h.type)
    BY <1>2, <1>5, Types DEF WriterTypes
  <2> DEFINE len == FieldByte(EncodeLength(n))
             typ == FieldByte(h.type)
             num == FieldByte(EncodeLogNumber(log_number_))
  <2>2. WriterCrc(h.type, n, data) = <<typ>> \o <<len, typ, num>> \o data
    BY <1>5 DEF WriterCrc
  <2>3. ReaderCrc(h) = <<typ>> \o <<FieldByte(h.log)>> \o Fragment(h)
    BY <2>1 DEF ReaderCrc
  <2> HIDE DEF len, typ, num
  <2>4. Len(data) \in Nat /\ Len(WriterCrc(h.type, n, data)) = 4 + Len(data)
        /\ WriterCrc(h.type, n, data)[3] = typ
    BY <2>2
  <2>5. Len(ReaderCrc(h)) = 2 + Len(Fragment(h))
        /\ (Len(Fragment(h)) > 0 => ReaderCrc(h)[3] = Fragment(h)[1])
    BY <1>4, <2>3
  <2>6. Fragment(h)[1] \in FileBytes /\ Fragment(h)[1] = typ
    BY <1>3, <1>4, <2>4, <2>5
  <2> QED
    BY <2>6, FieldsAreNotBytes DEF typ
<1>6. CASE ~recycle_log_files_
  <2>1. ~IsRecyclable(h.type)
    BY <1>2, <1>6 DEF WriterTypes, IsRecyclable, kRecyclableFullType, kRecyclableLastType
  <2>2. /\ WriterCrc(h.type, n, data) = <<FieldByte(h.type)>> \o data
        /\ ReaderCrc(h) = <<FieldByte(h.type)>> \o Fragment(h)
    BY <1>6, <1>3, <1>4, <2>1 DEF WriterCrc, ReaderCrc
  <2>3. Fragment(h) = data
    <3> DEFINE S == FileBytes \cup CrcBytes
    <3>1. FieldByte(h.type) \in S
      BY <1>2 DEF CrcBytes
    <3>2. data \in Seq(S) /\ Fragment(h) \in Seq(S)
      <4>1. Data \subseteq S /\ FileBytes \subseteq S
        BY DEF CrcBytes
      <4> HIDE DEF S
      <4> QED
        BY <1>4, <4>1, SeqGrows
    <3> HIDE DEF S
    <3>3. <<FieldByte(h.type)>> \in Seq(S)
      BY <3>1
    <3> QED
      BY <1>3, <2>2, <3>2, <3>3, SameRest
  <2> QED
    BY <1>1, <1>3, <1>6, <2>2, <2>3 DEF WriterCrc
<1> QED
  BY <1>5, <1>6

-----------------------------------------------------------------------------
(* A call that is served returns a record only if the writer was given it, *)
(* and none of a recyclable log.                                           *)
LEMMA ServeSound ==
  ASSUME ReturnsSound, recycle_log_files_ \in BOOLEAN, NEW h \in Headers, Serve(h),
         UNCHANGED <<checksum_, added, recycle_log_files_>>
  PROVE  /\ buffer_' \in Seq(FileBytes) /\ record' \in Seq(FileBytes)
         /\ rpc' = "idle" /\ UNCHANGED <<fpos, initial_offset_>>
         /\ ReplyIsAdded'
<1>1. CASE OldRecord(h) \/ DropBlock(h)
  <2>1. rpc' = "idle" /\ reply' = "nothing" /\ UNCHANGED <<record, fpos, initial_offset_>>
        /\ (buffer_' = buffer_ \/ buffer_' = <<>>)
    BY <1>1 DEF OldRecord, DropBlock, Return
  <2>2. <<>> \in Seq(FileBytes)
    OBVIOUS
  <2> QED
    BY <2>1, <2>2 DEF ReturnsSound, ReplyIsAdded
<1>2. CASE FirstOrMiddle(h) \/ BelowInitialOffset(h) \/ UnknownType(h)
  <2>1. rpc' = "idle" /\ reply' = "nothing" /\ UNCHANGED <<record, fpos, initial_offset_>>
        /\ ~Overruns(h) /\ buffer_' = Rest(h)
    BY <1>2 DEF FirstOrMiddle, BelowInitialOffset, UnknownType, Consumes, Return
  <2> QED
    BY <2>1, FragmentIsBytes DEF ReturnsSound, ReplyIsAdded
<1>3. CASE FullRecord(h) \/ LastFragment(h)
  <2>1. /\ rpc' = "idle" /\ ~Overruns(h) /\ buffer_' = Rest(h)
        /\ UNCHANGED <<fpos, initial_offset_>>
        /\ checksum_ => ReaderCrc(h) = h.crc
    BY <1>3 DEF FullRecord, LastFragment, Consumes, ChecksumFails, Return
  <2>2. \/ record' = Fragment(h) /\ h.type \in {kFullType, kRecyclableFullType}
        \/ record' = <<>>
    BY <1>3 DEF FullRecord, LastFragment, Consumes, Parses, ReturnsSound
  <2>3. Fragment(h) \in Seq(FileBytes) /\ Rest(h) \in Seq(FileBytes)
    BY <2>1, FragmentIsBytes DEF ReturnsSound
  <2>4. checksum_ => ~recycle_log_files_
                     /\ (record' = <<>> \/ \E i \in 1..Len(added) : record' = added[i])
    BY <2>1, <2>2, ChecksumProtects DEF ReturnsSound
  <2>5. record' \in Seq(FileBytes)
    <3>1. <<>> \in Seq(FileBytes)
      OBVIOUS
    <3> QED
      BY <2>2, <2>3, <3>1
  <2>6. ReplyIsAdded'
    BY <2>4 DEF ReplyIsAdded
  <2> QED
    BY <2>1, <2>3, <2>5, <2>6
<1> QED
  BY <1>1, <1>2, <1>3 DEF Serve

(* The bytes that may be in the file depend on the writer alone.           *)
LEMMA SameBytes ==
  ASSUME UNCHANGED <<added, recycle_log_files_>>
  PROVE  FileBytes' = FileBytes
<1>1. WriterTypes' = WriterTypes /\ \A t, n, d : WriterCrc(t, n, d)' = WriterCrc(t, n, d)
  BY DEF WriterTypes, WriterCrc
<1>2. SoundHeaders' = SoundHeaders
  BY <1>1 DEF SoundHeaders
<1> QED
  BY <1>2 DEF FileBytes, HeadBytes

LEMMA ReadSound ==
  ASSUME AppendsSound, ReturnsSound, file \in Seq(FileBytes), Read
  PROVE  ReturnsSound'
<1>1. UNCHANGED <<checksum_, added, recycle_log_files_>>
  BY DEF Read, wvars
<1>2. FileBytes' = FileBytes
  BY <1>1, SameBytes
<1>3. recycle_log_files_ \in BOOLEAN
  BY Sizes DEF AppendsSound, WriterInv
<1>4. /\ buffer_' \in Seq(FileBytes) /\ record' \in Seq(FileBytes)
      /\ rpc' = "physical" => record' = <<>> /\ reply' = "none"
      /\ fpos' \in Nat /\ initial_offset_' \in Nat
      /\ ReplyIsAdded'
  <2>1. CASE Exhausted
    BY <2>1 DEF Exhausted, Return, ReplyIsAdded, ReturnsSound
  <2>2. CASE \E h \in Headers : Serve(h)
    <3>1. PICK h \in Headers : Serve(h)
      BY <2>2
    <3> QED
      BY <1>1, <1>3, <3>1, ServeSound DEF ReturnsSound
  <2>3. CASE FetchFromFile
    <3>1. kBlockSize \in Nat /\ fpos \in Nat /\ Chunk \in Seq(FileBytes)
      BY Sizes DEF Chunk, ReadAt, ReturnsSound
    <3>2. PICK data, error : /\ Fetch(data, error) /\ (~error => data = Chunk)
                             /\ data = Chunk \/ \E n \in 0..Len(Chunk) : data = SubSeq(Chunk, 1, n)
      BY <2>3 DEF FetchFromFile
    <3>3. buffer_' = <<>> \/ buffer_' = Chunk
      BY <3>2 DEF Fetch, Refilled
    <3>4. /\ UNCHANGED <<record, initial_offset_>> /\ rpc = "physical"
          /\ reply' = "nothing" \/ UNCHANGED reply
          /\ rpc' = "idle" \/ UNCHANGED <<rpc, reply>>
          /\ fpos' = fpos + Len(data)
      BY <3>2 DEF Fetch, Return, NeedsMore
    <3>5. Len(data) \in Nat /\ <<>> \in Seq(FileBytes)
      BY <3>1, <3>2
    <3>6. buffer_' \in Seq(FileBytes)
      BY <3>1, <3>3, <3>5
    <3> QED
      BY <3>1, <3>4, <3>5, <3>6 DEF ReplyIsAdded, ReturnsSound
  <2> QED
    BY <2>1, <2>2, <2>3 DEF Read, ReaderStep
<1>5. /\ \/ leading' = Append(leading, record') /\ reply' = "record"
         \/ UNCHANGED leading
      /\ \/ later' = later \cup {record'} /\ reply' = "record"
         \/ UNCHANGED later
  BY Zenon DEF Read
<1>6. leading' \in Seq(Seq(FileBytes)) /\ later' \subseteq Seq(FileBytes)
  <2>1. Append(leading, record') \in Seq(Seq(FileBytes))
    BY <1>4 DEF ReturnsSound
  <2> QED
    BY <1>4, <1>5, <2>1 DEF ReturnsSound
<1>7. Returned' \subseteq Returned \cup (IF reply' = "record" THEN {record'} ELSE {})
  <2>1. Range(Append(leading, record')) \subseteq Range(leading) \cup {record'}
    BY DEF ReturnsSound, Range
  <2> QED
    BY <1>5, <2>1 DEF Returned
<1>8. checksum_' => NoPhantomRecord' /\ RecyclableRejected'
  <2> SUFFICES ASSUME checksum_ PROVE NoPhantomRecord' /\ RecyclableRejected'
    BY <1>1
  <2>1. reply' = "record" => ~recycle_log_files_ /\ record' \in Range(added) \cup {<<>>}
    BY <1>1, <1>4 DEF ReplyIsAdded, Range, AppendsSound, WriterInv
  <2> QED
    BY <1>1, <1>7, <2>1 DEF ReturnsSound, NoPhantomRecord, RecyclableRejected, Readable
<1> QED
  BY <1>1, <1>2, <1>4, <1>6, <1>8 DEF ReturnsSound

LEMMA CallReadSound ==
  ASSUME AppendsSound, ReturnsSound, SkipFails \/ ReadRecord,
         UNCHANGED <<checksum_, wvars, leading, later>>
  PROVE  ReturnsSound'
<1>1. UNCHANGED <<added, recycle_log_files_>>
  BY DEF wvars
<1>2. FileBytes' = FileBytes
  BY <1>1, SameBytes
<1>3. UNCHANGED buffer_ /\ (record' = <<>> \/ UNCHANGED record)
      /\ (rpc' = "physical" => record' = <<>> /\ reply' = "none")
  BY DEF SkipFails, ReadRecord, Return
<1>4. fpos' \in Nat /\ initial_offset_' \in Nat
  <2>1. CASE ReadRecord
    BY <2>1 DEF ReadRecord, ReturnsSound
  <2>2. CASE SkipFails
    <3>1. block_start_location \in Int
      BY Sizes DEF block_start_location, ReturnsSound
    <3> QED
      BY <2>2, <3>1 DEF SkipFails, ReturnsSound
  <2> QED
    BY <2>1, <2>2
<1>5. UNCHANGED <<NoPhantomRecord, RecyclableRejected>>
  BY <1>1 DEF NoPhantomRecord, RecyclableRejected, Returned, Readable
<1>6. buffer_' \in Seq(FileBytes) /\ record' \in Seq(FileBytes)
  <2>1. <<>> \in Seq(FileBytes)
    OBVIOUS
  <2> QED
    BY <1>3, <2>1 DEF ReturnsSound
<1> QED
  BY <1>1, <1>2, <1>3, <1>4, <1>5, <1>6 DEF ReturnsSound

(* Records that are added afterwards change nothing of what was returned.  *)
LEMMA GrowthKeepsReturns ==
  ASSUME AppendsSound, ReturnsSound, AddedGrows, UNCHANGED <<rvars, hvars>>
  PROVE  ReturnsSound'
<1>1. Seq(FileBytes) \subseteq Seq(FileBytes') /\ FileBytes \subseteq FileBytes'
  BY GrowthKeepsBytes
<1>2. Seq(Seq(FileBytes)) \subseteq Seq(Seq(FileBytes'))
  BY <1>1, SeqGrows
<1>3. Range(added) \subseteq Range(added')
  <2> SUFFICES ASSUME NEW r \in Range(added) PROVE r \in Range(added')
    OBVIOUS
  <2>1. PICK i \in 1..Len(added) : r = added[i]
    BY DEF Range, AddedGrows
  <2>2. i \in DOMAIN added' /\ added'[i] = added[i]
    BY DEF AddedGrows
  <2> QED
    BY <2>1, <2>2 DEF Range
<1>4. NoPhantomRecord /\ RecyclableRejected => NoPhantomRecord' /\ RecyclableRejected'
  BY <1>3 DEF NoPhantomRecord, RecyclableRejected, Returned, Readable, AddedGrows, rvars, hvars
<1> QED
  BY <1>1, <1>2, <1>4 DEF ReturnsSound, rvars, hvars

LEMMA InitReturns ==
  ASSUME RecoveryInit PROVE AppendsSound /\ ReturnsSound
<1>1. AppendsSound
  <2>1. WriterInv
    BY InitInv DEF RecoveryInit
  <2>2. call.data = <<>> /\ wpc = "idle"
    BY DEF RecoveryInit, WriterInit, NoCall
  <2> QED
    BY <2>1, <2>2 DEF AppendsSound, Emitting
<1>2. Returned = {}
  BY DEF RecoveryInit, Returned, Range
<1>3. initial_offset_ \in Nat /\ checksum_ \in BOOLEAN
  BY LogReaderAssumption DEF RecoveryInit, ReaderInit
<1> QED
  BY <1>1, <1>2, <1>3 DEF ReturnsSound, RecoveryInit, ReaderInit, NoPhantomRecord, RecyclableRejected

=============================================================================
