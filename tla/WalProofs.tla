------------------------------- MODULE WalProofs -------------------------------
(***************************************************************************)
(* What is proved of the write-ahead log from end to end, for every size   *)
(* of block and header, every number and length of records, however the    *)
(* destination behaves within PrefixStream, wherever the writer's process  *)
(* dies and however the reader's steps fall between the writer's.          *)
(***************************************************************************)
EXTENDS Wal, RecoveryProofs

LOCAL INSTANCE SequencesExt
LOCAL INSTANCE Functions

(* Whatever reaches the file are bytes that the writer appended, zeros and *)
(* a damaged byte.                                                         *)
BytesSound ==
  /\ AppendsSound
  /\ ReturnsSound
  /\ log \in Seq(FileBytes)
  /\ onFile \in 0..Len(log)
  /\ file \in Seq(FileBytes)

LEMMA RewriteSound ==
  ASSUME BytesSound, NEW n, Dest!Rewrite(n)
  PROVE  file' \in Seq(FileBytes) /\ onFile' = n /\ n \in 0..Len(log)
<1>1. PICK pad \in 0..MaxPad : file' = SubSeq(log, 1, n) \o Zeros(pad)
  BY DEF Dest!Rewrite, Dest!Zeros, Zeros, Dest!ZeroByte, ZeroByte
<1>2. onFile' = n /\ n \in 0..Len(log)
  BY DEF Dest!Rewrite, BytesSound
<1>3. SubSeq(log, 1, n) \in Seq(FileBytes) /\ Zeros(pad) \in Seq(FileBytes)
  BY <1>2, ZerosSound, WalAssumption DEF BytesSound
<1> QED
  BY <1>1, <1>2, <1>3

LEMMA DestinationSound ==
  ASSUME BytesSound, Destination
  PROVE  BytesSound'
<1>1. UNCHANGED <<added, recycle_log_files_, rvars, hvars>>
  BY DEF Destination, rvars, hvars
<1>2. [WriterNext \/ DestReturns]_wvars
  <2>1. CASE Dest!StreamStep
    <3>1. status = "pending" /\ status' \in Answers /\ UNCHANGED call
      BY <2>1 DEF Dest!StreamStep, Dest!AppendReturns, Dest!FlushReturns, Dest!CloseReturns, Answers
    <3> QED
      BY <3>1 DEF DestReturns, Destination
  <2>2. CASE Dest!WriteBack
    BY <2>2 DEF Dest!WriteBack, Destination, wvars
  <2> QED
    BY <2>1, <2>2 DEF Destination
<1>3. AppendsSound' /\ AddedGrows
  BY <1>2, WriterSound DEF BytesSound
<1>4. ReturnsSound'
  BY <1>1, <1>3, GrowthKeepsReturns DEF BytesSound
<1>5. FileBytes' = FileBytes
  BY <1>1, SameBytes
<1>6. log' \in Seq(FileBytes) /\ Len(log) <= Len(log')
  <2>1. CASE Dest!AppendReturns
    <3>1. log \in Seq(FileBytes) /\ call.data \in Seq(FileBytes)
      BY DEF BytesSound, AppendsSound
    <3>2. log' = log \o call.data \/ \E k \in 0..Len(call.data) : log' = log \o SubSeq(call.data, 1, k)
      BY <2>1 DEF Dest!AppendReturns
    <3>3. \A k \in 0..Len(call.data) : SubSeq(call.data, 1, k) \in Seq(FileBytes)
      BY <3>1
    <3>4. PICK more \in Seq(FileBytes) : log' = log \o more
      BY <3>1, <3>2, <3>3
    <3> QED
      BY <3>1, <3>4
  <2>2. CASE UNCHANGED log
    BY <2>2 DEF BytesSound
  <2> QED
    BY <2>1, <2>2 DEF Destination, Dest!StreamStep, Dest!FlushReturns, Dest!CloseReturns, Dest!WriteBack
<1>7. \/ UNCHANGED <<onFile, file>>
      \/ UNCHANGED onFile /\ Dest!CloseReturns
      \/ UNCHANGED log /\ \E n : Dest!Rewrite(n)
  BY DEF Destination, Dest!StreamStep, Dest!AppendReturns, Dest!FlushReturns, Dest!CloseReturns,
     Dest!WriteBack
<1>8. file' \in Seq(FileBytes) /\ onFile' \in 0..Len(log')
  <2>1. CASE UNCHANGED <<onFile, file>>
    BY <1>6, <2>1 DEF BytesSound
  <2>2. CASE UNCHANGED onFile /\ Dest!CloseReturns
    <3>1. Dest!TruncatedTo(file, Len(log)) \in [1..Len(log) -> FileBytes]
      BY DEF Dest!TruncatedTo, Dest!ZeroByte, FileBytes, ZeroByte, BytesSound
    <3>2. Dest!TruncatedTo(file, Len(log)) \in Seq(FileBytes)
      BY <3>1 DEF BytesSound
    <3> QED
      BY <1>6, <2>2, <3>2 DEF Dest!CloseReturns, BytesSound
  <2>3. CASE UNCHANGED log /\ \E n : Dest!Rewrite(n)
    BY <2>3, RewriteSound
  <2> QED
    BY <1>7, <2>1, <2>2, <2>3
<1> QED
  BY <1>3, <1>4, <1>5, <1>6, <1>8 DEF BytesSound

LEMMA CrashKeepsAppends ==
  ASSUME AppendsSound, Crash
  PROVE  AppendsSound' /\ AddedGrows
<1>1. UNCHANGED <<recycle_log_files_, block_offset_, ptr, begin, fragment_length, added>>
  BY DEF Crash
<1>2. wpc' = "dropped" /\ status' = "idle" /\ call'.op = "none" /\ call'.data = <<>>
  BY DEF Crash, NoCall
<1>3. WriterInv' /\ AddedGrows
  BY <1>1, <1>2 DEF AppendsSound, WriterInv, AddedGrows, ControlPoints, Emitting
<1>4. AppendsSound'
  BY <1>2, <1>3 DEF AppendsSound, Emitting
<1> QED
  BY <1>3, <1>4

LEMMA CrashSound ==
  ASSUME BytesSound, Crash, UNCHANGED dvars
  PROVE  BytesSound'
<1>1. UNCHANGED <<recycle_log_files_, added, rvars, hvars, file, log, onFile>>
  BY DEF Crash, rvars, hvars, dvars
<1>2. FileBytes' = FileBytes
  BY <1>1, SameBytes
<1>3. AppendsSound' /\ AddedGrows
  BY CrashKeepsAppends DEF BytesSound
<1>4. ReturnsSound'
  BY <1>1, <1>3, GrowthKeepsReturns DEF BytesSound
<1> QED
  BY <1>1, <1>2, <1>3, <1>4 DEF BytesSound

LEMMA DamageSound ==
  ASSUME BytesSound, Damage
  PROVE  BytesSound'
<1>1. UNCHANGED <<wvars, added, recycle_log_files_, rvars, hvars, log, onFile>>
  BY DEF Damage, wvars
<1>2. FileBytes' = FileBytes
  BY <1>1, SameBytes
<1>3. AppendsSound' /\ AddedGrows
  BY <1>1, WriterSound DEF BytesSound
<1>4. ReturnsSound'
  BY <1>1, <1>3, GrowthKeepsReturns DEF BytesSound
<1>5. JunkByte \in FileBytes
  BY Zenon DEF FileBytes
<1>6. file' \in Seq(FileBytes)
  BY <1>5 DEF Damage, BytesSound
<1> QED
  BY <1>1, <1>2, <1>3, <1>4, <1>6 DEF BytesSound

(* Every step keeps the bytes and the returns sound, also the steps of a   *)
(* caller that never gives up.                                             *)
LEMMA BytesStaySound == BytesSound /\ [Next \/ KeepReading]_vars => BytesSound'
<1> SUFFICES ASSUME BytesSound, [Next \/ KeepReading]_vars PROVE BytesSound'
  OBVIOUS
<1>1. CASE Destination
  BY <1>1, DestinationSound
<1>2. CASE Damage
  BY <1>2, DamageSound
<1>3. CASE Write(Len(log)) /\ UNCHANGED dvars
  <2>1. AppendsSound' /\ AddedGrows
    BY <1>3, WriterSound DEF Write, BytesSound
  <2>2. UNCHANGED <<rvars, hvars, file, log, onFile>>
    BY <1>3 DEF Write, dvars
  <2>3. ReturnsSound'
    BY <2>1, <2>2, GrowthKeepsReturns DEF BytesSound
  <2>4. Seq(FileBytes) \subseteq Seq(FileBytes')
    BY <2>1, GrowthKeepsBytes
  <2> QED
    BY <2>1, <2>2, <2>3, <2>4 DEF BytesSound
<1>4. CASE Crash /\ UNCHANGED dvars
  BY <1>4, CrashSound
<1>5. CASE /\ Read \/ CallRead(onFile = Len(log)) \/ KeepReading \/ UNCHANGED vars
           /\ UNCHANGED <<dvars, file, wvars>>
  <2>1. ReturnsSound'
    <3>1. CASE Read
      BY <3>1, ReadSound DEF BytesSound
    <3>2. CASE CallRead(onFile = Len(log)) \/ KeepReading
      BY <3>2, CallReadSound DEF BytesSound, CallRead, KeepReading, hvars
    <3>3. CASE UNCHANGED vars
      BY <3>3, SameBytes, GrowthKeepsReturns, WriterSound DEF BytesSound, vars, wvars
    <3> QED
      BY <1>5, <3>1, <3>2, <3>3
  <2>2. AppendsSound'
    BY <1>5, WriterSound DEF BytesSound
  <2>3. FileBytes' = FileBytes
    BY <1>5, SameBytes DEF wvars
  <2> QED
    BY <1>5, <2>1, <2>2, <2>3 DEF BytesSound, dvars
<1> QED
  BY <1>1, <1>2, <1>3, <1>4, <1>5 DEF Next, Read, CallRead, KeepReading, vars

LEMMA BytesSoundAtFirst == Init => BytesSound
<1> SUFFICES ASSUME Init PROVE BytesSound
  OBVIOUS
<1>1. AppendsSound /\ ReturnsSound
  BY InitReturns DEF Init
<1>2. log = <<>> /\ onFile = 0 /\ file = <<>>
  BY DEF Init, Dest!StreamInit
<1> QED
  BY <1>1, <1>2 DEF BytesSound

LEMMA BytesAlwaysSound ==
  /\ Spec => []BytesSound
  /\ PersistentSpec => []BytesSound
<1>1. Spec => []BytesSound
  BY BytesStaySound, BytesSoundAtFirst, PTL DEF Spec
<1>2. PersistentSpec => []BytesSound
  BY BytesStaySound, BytesSoundAtFirst, PTL DEF PersistentSpec
<1> QED
  BY <1>1, <1>2

(* A caller that verifies checksums and goes on after a call that returned *)
(* false is handed only records that were added, whole, or empty ones:     *)
(* never the payload of a fragment or of two records, nor damaged bytes or *)
(* padding, whatever of the log the file holds at any moment.              *)
THEOREM OnlyAddedRecords ==
  /\ Spec => [](checksum_ => NoPhantomRecord)
  /\ PersistentSpec => [](checksum_ => NoPhantomRecord)
<1>1. BytesSound => (checksum_ => NoPhantomRecord)
  BY DEF BytesSound, ReturnsSound
<1> QED
  BY <1>1, BytesAlwaysSound, PTL

(* The checksum that the writer stores in a recyclable record covers its   *)
(* length, which the reader's does not: a reader that verifies checksums   *)
(* hands out no record of a recyclable log, however the log was written.   *)
THEOREM RecyclableLogsUnreadable == Spec => []RecyclableRejected
<1>1. BytesSound => RecyclableRejected
  BY DEF BytesSound, ReturnsSound, RecyclableRejected, Readable
<1> QED
  BY <1>1, BytesAlwaysSound, PTL

-----------------------------------------------------------------------------
(* Where the records are in the log, as long as none had to be cut and the *)
(* destination takes what is appended; flushing and closing may fail.      *)
AppendsSucceed == "append" \notin DestFailures

InBlock(e)   == e % kBlockSize
Whole(i)     == InBlock(starts[i]) + header_size + Len(added[i]) <= kBlockSize
AllWhole(n)  == \A i \in 1..n : Whole(i)
EndOf(i)     == IF i = 0 THEN 0 ELSE starts[i] + header_size + Len(added[i])
NextStart(e) == IF InBlock(e) + header_size <= kBlockSize THEN e ELSE e + kBlockSize - InBlock(e)

Latest == Len(starts)

(* The header of the first fragment of a record.                           *)
FirstLength(i) == IF Whole(i) THEN Len(added[i]) ELSE AvailableAt(InBlock(starts[i]))
HeaderOf(i) ==
  LET type == RecordTypeOf(TRUE, Whole(i))
  IN  [type   |-> type,
       length |-> EncodeLength(FirstLength(i)),
       log    |-> EncodeLogNumber(log_number_),
       crc    |-> WriterCrc(type, FirstLength(i), added[i])]

(* block_offset_ is the offset e in its block, or the end of that before.  *)
Tracks(e) == block_offset_ = InBlock(e) \/ (block_offset_ = kBlockSize /\ InBlock(e) = 0)

(* The first records, up to one that was cut, are where they belong: each  *)
(* after the one before or at the start of the next block, the tail of the *)
(* block filled with zeros, and nothing after the last of them.            *)
PlacedIn(bytes) ==
  /\ \A i \in 1..Latest : AllWhole(i - 1) =>
       /\ starts[i] = NextStart(EndOf(i - 1))
       /\ starts[i] <= Len(bytes)
       /\ \A p \in 1..header_size :
            starts[i] + p <= Len(bytes) => bytes[starts[i] + p] = HeadByte(HeaderOf(i), p)
  /\ \A i \in 0..Latest : AllWhole(i) =>
       \A q \in EndOf(i) + 1 .. NextStart(EndOf(i)) : q <= Len(bytes) => bytes[q] = ZeroByte
  /\ AllWhole(Latest) => Len(bytes) <= NextStart(EndOf(Latest))

(* Where the writer is in its log, between two records and while it writes *)
(* one of which it is in the first fragment.                               *)
Gone == wpc \in {"drop", "dropped"}

BetweenRecords ==
  /\ wpc = "idle" => Len(log) = EndOf(Latest)
  /\ wpc = "fragment" => begin /\ Len(log) = EndOf(Latest)
  /\ wpc = "trailer" =>
       /\ begin
       /\ block_offset_ = InBlock(EndOf(Latest))
       /\ block_offset_ + header_size > kBlockSize
       /\ call = [op |-> "append", data |-> Zeros(leftover)]
       /\ Len(log) = IF status = "pending" THEN EndOf(Latest) ELSE NextStart(EndOf(Latest))
  /\ wpc \in {"idle", "fragment", "trailer"} => Tracks(EndOf(Latest))
  /\ Emitting => begin

InFirstFragment ==
  LET payload == starts[Latest] + header_size
  IN  /\ Latest > 0
      /\ block_offset_ = InBlock(starts[Latest])
      /\ fragment_length = FirstLength(Latest)
      /\ ptr = added[Latest]
      /\ wpc = "header" =>
           /\ call = [op |-> "append", data |-> HeaderBytes(HeaderOf(Latest), header_size)]
           /\ Len(log) = IF status = "pending" THEN starts[Latest] ELSE payload
      /\ wpc = "payload" =>
           /\ call = [op |-> "append", data |-> ptr]
           /\ Len(log) = IF status = "pending" THEN payload ELSE payload + Len(ptr)
      /\ wpc = "flush" => Len(log) = payload + Len(ptr)

Stage ==
  /\ status \in {"idle", "pending", "ok"} \/ (status = "err" /\ wpc \in {"flush", "drop"})
  /\ wpc \in {"idle", "fragment", "dropped"} => status = "idle"
  /\ wpc \in {"trailer", "header", "payload", "flush", "drop"} => status # "idle"
  /\ wpc \in {"trailer", "header", "payload"} => call.op = "append"
  /\ wpc = "flush" => call.op = "flush"
  /\ wpc = "drop" => call.op = "close"
  /\ Latest <= Len(added)
  /\ ~Gone => Latest = Len(added) - (IF wpc \in {"fragment", "trailer"} /\ begin THEN 1 ELSE 0)
  /\ ~Gone /\ AllWhole(Latest) => BetweenRecords
  /\ Emitting /\ begin /\ AllWhole(Latest - 1) => InFirstFragment
  /\ ~Gone => \A i \in 1..Latest :
       AllWhole(i - 1) /\ ~(i = Latest /\ wpc = "header" /\ begin) =>
         starts[i] + header_size <= Len(log)

Layout == starts \in Seq(Nat) /\ PlacedIn(log) /\ Stage

(* The file holds bytes of the log in their places, zeros and a damaged    *)
(* byte; so does what the reader has of it, up to the first false.         *)
ByteAt(q) ==
  (IF q <= Len(log) THEN {log[q]} ELSE {}) \cup {ZeroByte}
    \cup (IF q = damaged THEN {JunkByte} ELSE {})

FileInPlace ==
  /\ \A q \in 1..Len(file) : file[q] \in ByteAt(q)
  /\ damaged \in Nat
  /\ damaged # 0 => wpc = "dropped"

position == fpos - Len(buffer_)

(* The reader stands between two records, or past the end of a log that    *)
(* will not grow.                                                          *)
InStep ==
  LET k == Len(leading)
  IN  /\ k <= Latest /\ AllWhole(k)
      /\ EndOf(k) <= position
      /\ \/ position <= NextStart(EndOf(k))
         \/ k = Latest /\ Gone /\ Len(log) <= position

(* The reader skips to a later block in its first call, which then fails,  *)
(* or never.                                                               *)
SkipsAtFirst ==
  /\ reads \in Nat
  /\ reads = 0 => rpc = "idle" /\ last_record_offset_ = 0
  /\ reads > 0 => ~(block_start_location > 0)

ReaderInPlace ==
  /\ SkipsAtFirst
  /\ InBlock(position) + Len(buffer_) <= kBlockSize
  /\ ~eof_ => InBlock(fpos) = 0
  /\ ~read_error_
  /\ \A q \in 1..Len(buffer_) : buffer_[q] \in ByteAt(position + q)
  /\ InStep

NothingPassedOver == \A i \in DOMAIN starts : ~PassedOver(i)

Following ==
  /\ Len(leading) <= Len(added)
  /\ \A i \in 1..Len(leading) : leading[i] = added[i]
  /\ ~stopped => ReaderInPlace

PrefixInv == Layout /\ FileInPlace /\ (~recycle_log_files_ /\ checksum_ /\ NothingPassedOver => Following)

(* Blocks are counted from offset 0.                                       *)
LEMMA InBlockIs ==
  ASSUME NEW e \in Nat
  PROVE  InBlock(e) \in 0 .. kBlockSize - 1
BY Sizes DEF InBlock

LEMMA Quotients ==
  ASSUME NEW b \in Nat, b > 0
  PROVE  /\ \A q \in Int, r \in 0 .. b - 1 : (b * q + r) % b = r
         /\ \A q \in Int : (b * q) % b = 0
         /\ \A a \in Int : a = b * (a \div b) + (a % b) /\ a \div b \in Int
OBVIOUS

LEMMA InBlockMoves ==
  ASSUME NEW e \in Nat, NEW d \in Nat
  PROVE  /\ InBlock(e) + d < kBlockSize => InBlock(e + d) = InBlock(e) + d
         /\ InBlock(e) + d = kBlockSize => InBlock(e + d) = 0
<1> DEFINE b == kBlockSize
           q == e \div b
<1>1. b \in Nat /\ b > 0
  BY Sizes
<1>2. e = b * q + InBlock(e) /\ q \in Int /\ InBlock(e) \in 0 .. b - 1
  BY <1>1, Quotients, InBlockIs DEF InBlock
<1> HIDE DEF q, b
<1>3. CASE InBlock(e) + d < b
  <2>1. e + d = b * q + (InBlock(e) + d) /\ InBlock(e) + d \in 0 .. b - 1
    BY <1>1, <1>2, <1>3
  <2>2. (b * q + (InBlock(e) + d)) % b = InBlock(e) + d
    BY <1>1, <1>2, <2>1, Quotients
  <2> QED
    BY <1>1, <1>2, <1>3, <2>1, <2>2 DEF InBlock, b
<1>4. CASE InBlock(e) + d = b
  <2>1. e + d = b * (q + 1) /\ q + 1 \in Int
    BY <1>1, <1>2, <1>4
  <2>2. (b * (q + 1)) % b = 0
    BY <1>1, <2>1, Quotients
  <2> QED
    BY <1>1, <1>4, <2>1, <2>2 DEF InBlock, b
<1> QED
  BY <1>1, <1>2, <1>3, <1>4 DEF b

LEMMA BlocksAreMultiples ==
  ASSUME NEW e \in Nat
  PROVE  /\ (e - InBlock(e)) % kBlockSize = 0
         /\ InBlock(e) = 0 => (e - kBlockSize) % kBlockSize = 0
<1> DEFINE b == kBlockSize
           q == e \div b
<1>1. b \in Nat /\ b > 0
  BY Sizes
<1>2. e = b * q + InBlock(e) /\ q \in Int /\ InBlock(e) \in 0 .. b - 1
  BY <1>1, Quotients, InBlockIs DEF InBlock
<1> HIDE DEF q, b
<1>3. (e - InBlock(e)) % b = 0
  <2>1. e - InBlock(e) = b * q
    BY <1>1, <1>2
  <2>2. (b * q) % b = 0
    BY <1>1, <1>2, Quotients
  <2> QED
    BY <2>1, <2>2
<1>4. ASSUME InBlock(e) = 0 PROVE (e - b) % b = 0
  <2>1. e - b = b * (q - 1) /\ q - 1 \in Int
    BY <1>1, <1>2, <1>4
  <2>2. (b * (q - 1)) % b = 0
    BY <1>1, <2>1, Quotients
  <2> QED
    BY <2>1, <2>2
<1> QED
  BY <1>3, <1>4 DEF b

LEMMA NextStartIs ==
  ASSUME NEW e \in Nat
  PROVE  /\ NextStart(e) \in Nat /\ e <= NextStart(e)
         /\ InBlock(NextStart(e)) + header_size <= kBlockSize
         /\ \/ NextStart(e) = e
            \/ /\ InBlock(e) + header_size > kBlockSize
               /\ NextStart(e) = e + kBlockSize - InBlock(e)
               /\ InBlock(NextStart(e)) = 0
<1>1. InBlock(e) \in 0 .. kBlockSize - 1
  BY InBlockIs
<1>2. CASE InBlock(e) + header_size <= kBlockSize
  BY <1>2 DEF NextStart
<1>3. CASE ~(InBlock(e) + header_size <= kBlockSize)
  <2> DEFINE d == kBlockSize - InBlock(e)
  <2>1. d \in Nat /\ InBlock(e) + d = kBlockSize /\ NextStart(e) = e + d
    BY <1>1, <1>3, HeaderSizeFits DEF NextStart
  <2>2. InBlock(NextStart(e)) = 0
    BY <2>1, InBlockMoves
  <2> QED
    BY <1>1, <1>3, <2>1, <2>2, HeaderSizeFits
<1> QED
  BY <1>2, <1>3

LEMMA PlacesAre ==
  ASSUME WriterInv, starts \in Seq(Nat), Latest <= Len(added)
  PROVE  /\ Latest \in Nat /\ EndOf(0) = 0
         /\ \A i \in 1..Latest :
              /\ starts[i] \in Nat /\ Len(added[i]) \in Nat
              /\ EndOf(i) = starts[i] + header_size + Len(added[i])
         /\ \A i \in 0..Latest : EndOf(i) \in Nat
<1>1. \A i \in 1..Latest : added[i] \in Seq(Data)
  BY DEF WriterInv, Latest
<1>2. \A i \in 1..Latest : starts[i] \in Nat /\ Len(added[i]) \in Nat
  BY <1>1 DEF Latest
<1> QED
  BY <1>2, HeaderSizeFits DEF EndOf, Latest

(* Records that are in place stay where they are.                          *)
PlacesKept ==
  /\ header_size' = header_size
  /\ \A e : NextStart(e)' = NextStart(e)
  /\ \A i \in 1..Latest : HeaderOf(i)' = HeaderOf(i) /\ starts'[i] = starts[i]
  /\ \A i \in 0..Latest : EndOf(i)' = EndOf(i) /\ (AllWhole(i)' <=> AllWhole(i))

LEMMA PlacesStay ==
  ASSUME AddedGrows, starts \in Seq(Nat), Latest <= Len(added),
         \A i \in 1..Latest : starts'[i] = starts[i]
  PROVE  PlacesKept
<1>1. header_size' = header_size
  BY DEF AddedGrows, header_size
<1>2. \A i \in 1..Latest : added'[i] = added[i]
  BY DEF AddedGrows, Latest
<1>3. \A i \in 1..Latest : Whole(i)' <=> Whole(i)
  BY <1>1, <1>2 DEF Whole
<1>4. \A i \in 0..Latest : AllWhole(i)' <=> AllWhole(i)
  BY <1>3 DEF AllWhole, Latest
<1>5. \A first, final : RecordTypeOf(first, final)' = RecordTypeOf(first, final)
  BY DEF RecordTypeOf, AddedGrows
<1>6. \A type, n, data : WriterCrc(type, n, data)' = WriterCrc(type, n, data)
  BY DEF WriterCrc, AddedGrows
<1>7. \A i \in 1..Latest : FirstLength(i)' = FirstLength(i)
  BY <1>1, <1>2, <1>3 DEF FirstLength, AvailableAt
<1>8. \A i \in 1..Latest : HeaderOf(i)' = HeaderOf(i)
  <2> TAKE i \in 1..Latest
  <2>1. RecordTypeOf(TRUE, Whole(i))' = RecordTypeOf(TRUE, Whole(i))
    BY <1>3 DEF RecordTypeOf, AddedGrows
  <2> QED
    BY <1>2, <1>6, <1>7, <2>1 DEF HeaderOf
<1>9. \A i \in 0..Latest : EndOf(i)' = EndOf(i)
  BY <1>1, <1>2 DEF EndOf, Latest
<1> QED
  BY <1>1, <1>4, <1>8, <1>9 DEF PlacesKept, NextStart

(* A record that was put behind a whole one starts where the log ended.    *)
LEMMA PlacesInOrder ==
  ASSUME WriterInv, Layout, NEW i \in 1..Latest, AllWhole(i)
  PROVE  i < Latest => EndOf(i) <= NextStart(EndOf(i)) /\ NextStart(EndOf(i)) <= Len(log)
<1> SUFFICES ASSUME i < Latest PROVE EndOf(i) <= NextStart(EndOf(i)) /\ NextStart(EndOf(i)) <= Len(log)
  OBVIOUS
<1>1. EndOf(i) \in Nat /\ i + 1 \in 1..Latest /\ (i + 1) - 1 = i
  BY PlacesAre DEF Layout, Stage
<1>2. starts[i + 1] = NextStart(EndOf(i)) /\ starts[i + 1] <= Len(log)
  BY <1>1 DEF Layout, PlacedIn, Latest
<1> QED
  BY <1>1, <1>2, NextStartIs

LEMMA PlacedCarries ==
  ASSUME PlacesKept, UNCHANGED starts, starts \in Seq(Nat), PlacedIn(log')
  PROVE  PlacedIn(log)'
<1>1. \A i \in 1..Latest : i - 1 \in 0..Latest
  BY DEF Latest
<1>2. ASSUME NEW i \in 1..Latest, AllWhole(i - 1)'
      PROVE  /\ starts'[i] = NextStart(EndOf(i - 1))'
             /\ starts'[i] <= Len(log')
             /\ \A p \in 1..header_size' :
                  starts'[i] + p <= Len(log') => log'[starts'[i] + p] = HeadByte(HeaderOf(i)', p)
  <2>1. AllWhole(i - 1) /\ EndOf(i - 1)' = EndOf(i - 1) /\ HeaderOf(i)' = HeaderOf(i)
        /\ starts'[i] = starts[i] /\ header_size' = header_size
    BY <1>1, <1>2 DEF PlacesKept
  <2>2. NextStart(EndOf(i - 1))' = NextStart(EndOf(i - 1))
    BY <2>1 DEF PlacesKept, NextStart
  <2> QED
    BY <2>1, <2>2 DEF PlacedIn
<1>3. ASSUME NEW i \in 0..Latest
      PROVE  /\ EndOf(i)' = EndOf(i) /\ NextStart(EndOf(i))' = NextStart(EndOf(i))
             /\ AllWhole(i)' <=> AllWhole(i)
  BY DEF PlacesKept, NextStart
<1>4. Latest \in 0..Latest /\ Latest' = Latest
  BY DEF Latest
<1> QED
  BY <1>2, <1>3, <1>4 DEF PlacedIn

(* The destination takes what it is given behind what it has: the bytes of *)
(* a header, a payload or a trailer come where they belong.                *)
LEMMA AppendKeepsLayout ==
  ASSUME BytesSound, Layout, AddedGrows,
         UNCHANGED <<starts, wpc, begin, ptr, block_offset_, fragment_length, added, call>>,
         status = "pending", call.op = "append", status' = "ok", log' = log \o call.data
  PROVE  Layout'
<1> DEFINE data == call.data
<1> USE HeaderSizeFits
<1>0. /\ WriterInv /\ starts \in Seq(Nat) /\ Latest <= Len(added) /\ PlacedIn(log) /\ Stage
      /\ log \in Seq(FileBytes) /\ data \in Seq(FileBytes)
  BY DEF BytesSound, AppendsSound, Layout, Stage
<1>1. /\ Len(log) \in Nat /\ Len(data) \in Nat /\ Len(log') = Len(log) + Len(data)
      /\ \A q \in 1..Len(log) : log'[q] = log[q]
      /\ \A q \in 1..Len(data) : log'[Len(log) + q] = data[q]
  BY <1>0
<1>2. PlacesKept /\ Latest' = Latest
  BY <1>0, PlacesStay DEF Latest
<1>3. wpc \in {"trailer", "header", "payload"}
  BY <1>0 DEF Stage, WriterInv, ControlPoints
<1>4. ASSUME NEW i \in 1..Latest, AllWhole(i - 1)
      PROVE  \/ starts[i] + header_size <= Len(log)
             \/ /\ i = Latest /\ wpc = "header" /\ begin
                /\ Len(log) = starts[i] /\ data = HeaderBytes(HeaderOf(i), header_size)
  <2>1. CASE ~(i = Latest /\ wpc = "header" /\ begin)
    BY <1>0, <1>3, <1>4, <2>1 DEF Stage, Gone
  <2>2. CASE i = Latest /\ wpc = "header" /\ begin
    <3>1. InFirstFragment
      BY <1>0, <1>4, <2>2 DEF Stage, Emitting
    <3>2. /\ Len(log) = starts[i]
          /\ call = [op |-> "append", data |-> HeaderBytes(HeaderOf(i), header_size)]
      BY <2>2, <3>1 DEF InFirstFragment
    <3> QED
      BY <2>2, <3>2
  <2> QED
    BY <2>1, <2>2
<1>5. ASSUME AllWhole(Latest)
      PROVE  \/ /\ wpc = "trailer" /\ Len(log) = EndOf(Latest)
                /\ Len(log) + Len(data) = NextStart(EndOf(Latest))
                /\ \A q \in 1..Len(data) : data[q] = ZeroByte
             \/ wpc \in {"header", "payload"} /\ begin /\ Latest > 0
                /\ Len(log) + Len(data) <= EndOf(Latest)
  <2>1. BetweenRecords /\ (wpc \in {"header", "payload"} => begin)
    BY <1>0, <1>3, <1>5 DEF Stage, Gone, BetweenRecords, Emitting
  <2>2. CASE wpc = "trailer"
    <3>1. /\ Len(log) = EndOf(Latest) /\ data = Zeros(leftover)
          /\ block_offset_ = InBlock(EndOf(Latest)) /\ block_offset_ + header_size > kBlockSize
      BY <2>1, <2>2 DEF BetweenRecords
    <3>2. leftover \in Nat /\ NextStart(EndOf(Latest)) = EndOf(Latest) + leftover
      <4>1. PICK b \in Nat, e \in Nat, i \in Nat :
              b = kBlockSize /\ e = EndOf(Latest) /\ i = block_offset_ /\ i <= b
        <5>1. block_offset_ \in Nat /\ block_offset_ <= kBlockSize /\ kBlockSize \in Nat
          BY <1>0, Sizes DEF WriterInv, OffsetWithinBlock
        <5>2. EndOf(Latest) \in Nat
          BY <1>1, <3>1
        <5> QED
          BY <5>1, <5>2
      <4>2. leftover = b - i
        BY <4>1 DEF leftover
      <4>3. NextStart(EndOf(Latest)) = e + b - i
        <5>1. ~(InBlock(EndOf(Latest)) + header_size <= kBlockSize)
          BY <3>1, <4>1
        <5> QED
          BY <3>1, <4>1, <5>1 DEF NextStart
      <4> QED
        BY <4>1, <4>2, <4>3
    <3> QED
      BY <1>1, <2>2, <3>1, <3>2 DEF Zeros
  <2>3. CASE wpc \in {"header", "payload"}
    <3>1. Emitting /\ begin
      BY <2>1, <2>3 DEF Emitting
    <3>2. InFirstFragment
      <4>1. AllWhole(Latest - 1)
        BY <1>5 DEF AllWhole, Latest
      <4> QED
        BY <1>0, <3>1, <4>1 DEF Stage
    <3>3. Latest > 0 /\ Latest \in 1..Latest
      BY <1>0, <3>2 DEF InFirstFragment, Latest
    <3>4. EndOf(Latest) = starts[Latest] + header_size + Len(added[Latest])
          /\ starts[Latest] \in Nat /\ Len(added[Latest]) \in Nat
      BY <1>0, <3>3, PlacesAre
    <3>5. CASE wpc = "header"
      <4>1. Len(log) = starts[Latest] /\ data = HeaderBytes(HeaderOf(Latest), header_size)
        BY <3>2, <3>5 DEF InFirstFragment
      <4>2. Len(data) = header_size
        BY <4>1 DEF HeaderBytes
      <4> QED
        BY <3>1, <3>3, <3>4, <3>5, <4>1, <4>2
    <3>6. CASE wpc = "payload"
      <4>1. Len(log) = starts[Latest] + header_size /\ data = ptr /\ ptr = added[Latest]
        BY <3>2, <3>6 DEF InFirstFragment
      <4> QED
        BY <3>1, <3>3, <3>4, <3>6, <4>1
    <3> QED
      BY <2>3, <3>5, <3>6
  <2> QED
    BY <1>3, <2>2, <2>3
<1>6. ASSUME NEW i \in 1..Latest, AllWhole(i - 1)
      PROVE  /\ starts[i] = NextStart(EndOf(i - 1))
             /\ starts[i] <= Len(log')
             /\ \A p \in 1..header_size :
                  starts[i] + p <= Len(log') => log'[starts[i] + p] = HeadByte(HeaderOf(i), p)
  <2>1. /\ starts[i] = NextStart(EndOf(i - 1))
        /\ starts[i] \in Nat /\ starts[i] <= Len(log)
        /\ \A p \in 1..header_size :
             starts[i] + p <= Len(log) => log[starts[i] + p] = HeadByte(HeaderOf(i), p)
    BY <1>0, <1>6, PlacesAre DEF PlacedIn, Latest
  <2>2. CASE starts[i] + header_size <= Len(log)
    <3>1. PICK at \in Nat, z \in Nat : at = starts[i] /\ z = header_size
      BY <2>1
    <3>2. ASSUME NEW p \in 1..z PROVE log'[at + p] = HeadByte(HeaderOf(i), p)
      <4>1. at + p \in 1..Len(log) /\ at + p <= Len(log)
        BY <1>1, <2>2, <3>1
      <4>2. log[at + p] = HeadByte(HeaderOf(i), p)
        BY <2>1, <3>1, <4>1
      <4> QED
        BY <1>1, <4>1, <4>2
    <3>3. starts[i] <= Len(log')
      BY <1>1, <2>1
    <3> QED
      BY <2>1, <3>1, <3>2, <3>3
  <2>3. CASE Len(log) = starts[i] /\ data = HeaderBytes(HeaderOf(i), header_size)
    <3>1. \A p \in 1..header_size : data[p] = HeadByte(HeaderOf(i), p)
      BY <2>3 DEF HeaderBytes
    <3>2. Len(data) = header_size
      BY <2>3 DEF HeaderBytes
    <3>3. \A p \in 1..header_size : log'[starts[i] + p] = data[p]
      BY <1>1, <2>3, <3>2
    <3>4. starts[i] <= Len(log')
      BY <1>1, <2>1
    <3> QED
      BY <2>1, <3>1, <3>3, <3>4
  <2> QED
    BY <1>4, <1>6, <2>2, <2>3
<1>7. ASSUME NEW i \in 0..Latest, AllWhole(i),
             NEW q \in EndOf(i) + 1 .. NextStart(EndOf(i)), q <= Len(log')
      PROVE  log'[q] = ZeroByte
  <2>1. EndOf(i) \in Nat /\ NextStart(EndOf(i)) \in Nat /\ q \in Nat /\ q > 0
        /\ q <= NextStart(EndOf(i))
    <3>1. EndOf(i) \in Nat
      BY <1>0, PlacesAre
    <3>2. NextStart(EndOf(i)) \in Nat
      BY <3>1, NextStartIs
    <3> QED
      BY <3>1, <3>2
  <2>2. CASE q <= Len(log)
    BY <1>0, <1>1, <1>7, <2>1, <2>2 DEF PlacedIn, Latest
  <2>3. CASE ~(q <= Len(log))
    <3>1. i = Latest
      <4>1. CASE i = 0 /\ Latest > 0
        <5>1. 1 \in 1..Latest /\ AllWhole(0) /\ 1 - 1 = 0
          BY <4>1 DEF AllWhole, Latest
        <5>2. NextStart(EndOf(0)) <= Len(log)
          BY <1>0, <5>1 DEF PlacedIn, Latest
        <5> QED
          BY <1>1, <2>1, <2>3, <4>1, <5>2
      <4>2. CASE i \in 1..Latest /\ i < Latest
        <5>1. NextStart(EndOf(i)) <= Len(log)
          BY <1>0, <1>7, <4>2, PlacesInOrder
        <5> QED
          BY <1>1, <2>1, <2>3, <5>1
      <4>3. Latest \in Nat
        BY <1>0, PlacesAre
      <4> QED
        BY <4>1, <4>2, <4>3
    <3>2. q - Len(log) \in 1..Len(data) /\ log'[q] = data[q - Len(log)]
      BY <1>1, <1>7, <2>1, <2>3
    <3>3. data[q - Len(log)] = ZeroByte
      <4>1. AllWhole(Latest) /\ q > EndOf(Latest) /\ EndOf(Latest) \in Nat
        BY <1>7, <2>1, <3>1
      <4>2. ~(Len(log) + Len(data) <= EndOf(Latest))
        BY <1>1, <1>7, <2>1, <4>1
      <4> QED
        BY <1>5, <3>2, <4>1, <4>2
    <3> QED
      BY <3>2, <3>3
  <2> QED
    BY <2>2, <2>3
<1>8. ASSUME AllWhole(Latest) PROVE Len(log') <= NextStart(EndOf(Latest))
  <2>1. EndOf(Latest) \in Nat
    BY <1>0, PlacesAre DEF Latest
  <2>2. NextStart(EndOf(Latest)) \in Nat /\ EndOf(Latest) <= NextStart(EndOf(Latest))
    BY <2>1, NextStartIs
  <2> QED
    BY <1>1, <1>5, <1>8, <2>1, <2>2
<1>9. PlacedIn(log)'
  <2>1. PlacedIn(log')
    BY <1>6, <1>7, <1>8 DEF PlacedIn
  <2> QED
    BY <1>0, <1>2, <2>1, PlacedCarries
<1>10. Stage'
  <2>1. /\ status' = "ok" /\ UNCHANGED <<starts, wpc, begin, Gone, Emitting>>
        /\ \A i \in 0..Latest : AllWhole(i)' <=> AllWhole(i)
    BY <1>2 DEF PlacesKept, Gone, Emitting
  <2>2. ~Gone /\ wpc \notin {"idle", "fragment", "dropped", "flush"} /\ status # "idle"
    BY <1>3 DEF Gone
  <2>3. ASSUME AllWhole(Latest)' PROVE BetweenRecords'
    <3>1. AllWhole(Latest)
      BY <1>2, <2>1, <2>3 DEF Latest
    <3>2. BetweenRecords
      BY <1>0, <2>2, <3>1 DEF Stage
    <3>3. wpc = "trailer" => Len(log') = NextStart(EndOf(Latest))
      BY <1>1, <1>5, <3>1
    <3>4. EndOf(Latest)' = EndOf(Latest) /\ NextStart(EndOf(Latest))' = NextStart(EndOf(Latest))
      BY <1>2 DEF PlacesKept, NextStart, Latest
    <3> QED
      BY <1>2, <2>1, <2>2, <3>2, <3>3, <3>4 DEF BetweenRecords, PlacesKept, Tracks, leftover
  <2>4. ASSUME Emitting', begin', AllWhole(Latest - 1)' PROVE InFirstFragment'
    <3>1. Emitting /\ begin /\ Latest \in Nat /\ Latest > 0
      <4>1. Emitting /\ begin /\ added # <<>>
        BY <2>1, <2>4 DEF BytesSound, AppendsSound
      <4> QED
        BY <1>0, <2>2, <4>1 DEF Stage, Emitting, Latest, WriterInv
    <3>2. InFirstFragment
      <4>1. AllWhole(Latest - 1)
        BY <1>2, <2>1, <2>4, <3>1
      <4> QED
        BY <1>0, <3>1, <4>1 DEF Stage
    <3>3. /\ Latest \in 1..Latest
          /\ HeaderOf(Latest)' = HeaderOf(Latest) /\ header_size' = header_size
      BY <1>2, <3>1 DEF PlacesKept
    <3>4. FirstLength(Latest)' = FirstLength(Latest)
      BY <1>0, <1>2, <2>1, <3>1, <3>3 DEF FirstLength, Whole, AvailableAt
    <3>5. wpc = "header" => Len(log') = starts[Latest] + header_size
      <4>1. wpc = "header" => /\ Len(log) = starts[Latest]
                              /\ data = HeaderBytes(HeaderOf(Latest), header_size)
        BY <3>2 DEF InFirstFragment
      <4>2. Len(HeaderBytes(HeaderOf(Latest), header_size)) = header_size
        BY DEF HeaderBytes
      <4> QED
        BY <1>1, <4>1, <4>2
    <3>6. wpc = "payload" => Len(log') = starts[Latest] + header_size + Len(ptr)
      <4>1. wpc = "payload" => Len(log) = starts[Latest] + header_size /\ data = ptr
        BY <3>2 DEF InFirstFragment
      <4> QED
        BY <1>1, <4>1
    <3> QED
      BY <1>2, <2>1, <2>2, <3>2, <3>3, <3>4, <3>5, <3>6 DEF InFirstFragment
  <2>5. ASSUME NEW i \in 1..Latest, AllWhole(i - 1)', ~(i = Latest /\ wpc = "header" /\ begin)
        PROVE  starts[i] + header_size <= Len(log')
    <3>1. AllWhole(i - 1)
      BY <1>2, <2>5 DEF PlacesKept, Latest
    <3>2. starts[i] + header_size <= Len(log)
      BY <1>4, <2>5, <3>1
    <3>3. starts[i] \in Nat
      BY <1>0, PlacesAre
    <3> QED
      BY <1>1, <3>2, <3>3
  <2> QED
    BY <1>0, <1>2, <2>1, <2>2, <2>3, <2>4, <2>5 DEF Stage, PlacesKept, Latest
<1> QED
  BY <1>0, <1>9, <1>10 DEF Layout

(* What the invariant says of the numbers in it.                           *)
LEMMA LayoutIs ==
  ASSUME BytesSound, Layout
  PROVE  /\ WriterInv /\ starts \in Seq(Nat) /\ PlacedIn(log) /\ Stage
         /\ Latest \in Nat /\ Latest <= Len(added) /\ Len(added) \in Nat /\ Len(log) \in Nat
         /\ \A i \in 0..Latest : EndOf(i) \in Nat
         /\ \A i \in 1..Latest :
              /\ starts[i] \in Nat /\ Len(added[i]) \in Nat
              /\ EndOf(i) = starts[i] + header_size + Len(added[i])
<1>1. WriterInv /\ starts \in Seq(Nat) /\ Latest <= Len(added) /\ PlacedIn(log) /\ Stage
  BY DEF BytesSound, AppendsSound, Layout, Stage
<1>2. Len(added) \in Nat /\ Len(log) \in Nat
  BY <1>1 DEF WriterInv, BytesSound
<1> QED
  BY <1>1, <1>2, PlacesAre

(* A step that appends nothing and starts no record.                       *)
LEMMA QuietStep ==
  ASSUME BytesSound, Layout, AddedGrows, UNCHANGED <<starts, log>>
  PROVE  /\ PlacedIn(log)' /\ PlacesKept /\ Latest' = Latest
         /\ \A i \in 0..Latest : AllWhole(i)' <=> AllWhole(i)
         /\ Latest > 0 => AllWhole(Latest - 1)' <=> AllWhole(Latest - 1)
<1>1. PlacesKept
  BY LayoutIs, PlacesStay
<1>2. PlacedIn(log') /\ starts \in Seq(Nat)
  BY DEF Layout, PlacedIn
<1>3. PlacedIn(log)'
  BY <1>1, <1>2, PlacedCarries
<1>4. Latest > 0 => Latest - 1 \in 0..Latest
  BY LayoutIs
<1> QED
  BY <1>1, <1>3, <1>4 DEF PlacesKept, Latest

LEMMA AddKeepsLayout ==
  ASSUME BytesSound, Layout, AddedGrows, UNCHANGED <<starts, log>>, NEW slice, AddRecord(slice)
  PROVE  Layout'
<1>1. PlacedIn(log)' /\ PlacesKept /\ Latest' = Latest
      /\ \A i \in 0..Latest : AllWhole(i)' <=> AllWhole(i)
  BY QuietStep
<1>2. /\ wpc = "idle" /\ wpc' = "fragment" /\ begin' = TRUE /\ status = "idle"
      /\ UNCHANGED <<status, call, block_offset_>>
  BY LayoutIs DEF AddRecord, Stage
<1>3. Len(added') = Len(added) + 1
  BY LayoutIs DEF AddRecord, WriterInv
<1>4. AllWhole(Latest)' => BetweenRecords'
  <2>1. AllWhole(Latest)' => BetweenRecords
    BY <1>1, <1>2, LayoutIs DEF Stage, Gone
  <2>2. EndOf(Latest)' = EndOf(Latest)
    BY <1>1, LayoutIs DEF PlacesKept
  <2> QED
    BY <1>1, <1>2, <2>1, <2>2 DEF BetweenRecords, Tracks, Emitting
<1>5. \A i \in 1..Latest : AllWhole(i - 1)' => starts[i] + header_size <= Len(log)
  <2> SUFFICES ASSUME NEW i \in 1..Latest, AllWhole(i - 1)'
               PROVE  starts[i] + header_size <= Len(log)
    OBVIOUS
  <2>1. AllWhole(i - 1)
    BY <1>1, LayoutIs
  <2> QED
    BY <1>2, <2>1, LayoutIs DEF Stage, Gone
<1>6. ~Emitting' /\ ~Gone' /\ header_size' = header_size
  BY <1>1, <1>2 DEF Emitting, Gone, PlacesKept
<1>7. Latest = Len(added)
  BY <1>2, LayoutIs DEF Stage, Gone
<1>8. Stage'
  BY <1>1, <1>2, <1>3, <1>4, <1>5, <1>6, <1>7, LayoutIs DEF Stage
<1> QED
  BY <1>1, <1>8, LayoutIs DEF Layout

LEMMA TrailerKeepsLayout ==
  ASSUME BytesSound, Layout, AddedGrows, UNCHANGED <<starts, log>>, FillTrailer
  PROVE  Layout'
<1>1. PlacedIn(log)' /\ PlacesKept /\ Latest' = Latest
      /\ \A i \in 0..Latest : AllWhole(i)' <=> AllWhole(i)
  BY QuietStep
<1>2. /\ wpc = "fragment" /\ wpc' = "trailer" /\ status' = "pending"
      /\ leftover > 0 /\ leftover < header_size
      /\ call' = [op |-> "append", data |-> Zeros(leftover)]
      /\ UNCHANGED <<block_offset_, begin, added>>
  BY DEF FillTrailer, Invoke, Trailer
<1>3. call'.op = "append"
  BY <1>2
<1>4. AllWhole(Latest)' => BetweenRecords'
  <2> SUFFICES ASSUME AllWhole(Latest)' PROVE BetweenRecords'
    OBVIOUS
  <2>1. BetweenRecords
    BY <1>1, <1>2, LayoutIs DEF Stage, Gone
  <2>2. EndOf(Latest)' = EndOf(Latest) /\ header_size' = header_size
    BY <1>1, LayoutIs DEF PlacesKept
  <2>3. block_offset_ = InBlock(EndOf(Latest)) /\ block_offset_ + header_size > kBlockSize
    BY <1>2, <2>1, LayoutIs, HeaderSizeFits DEF BetweenRecords, Tracks, leftover, WriterInv
  <2> QED
    BY <1>1, <1>2, <2>1, <2>2, <2>3 DEF BetweenRecords, Tracks, leftover, Emitting
<1>5. \A i \in 1..Latest : AllWhole(i - 1)' => starts[i] + header_size <= Len(log)
  <2> SUFFICES ASSUME NEW i \in 1..Latest, AllWhole(i - 1)'
               PROVE  starts[i] + header_size <= Len(log)
    OBVIOUS
  <2>1. AllWhole(i - 1)
    BY <1>1, LayoutIs
  <2> QED
    BY <1>2, <2>1, LayoutIs DEF Stage, Gone
<1>6. ~Emitting' /\ ~Gone' /\ header_size' = header_size
  BY <1>1, <1>2 DEF Emitting, Gone, PlacesKept
<1>7. Latest = Len(added) - (IF begin THEN 1 ELSE 0)
  BY <1>2, LayoutIs DEF Stage, Gone
<1>8. Stage'
  BY <1>1, <1>2, <1>3, <1>4, <1>5, <1>6, <1>7, LayoutIs DEF Stage
<1> QED
  BY <1>1, <1>8, LayoutIs DEF Layout

(* The end of a first fragment that was written.                           *)
LEMMA FirstFragmentIs ==
  ASSUME BytesSound, Layout, Emitting, begin, AllWhole(Latest - 1)
  PROVE  /\ Latest \in 1..Latest /\ Latest - 1 \in 0..Latest
         /\ InFirstFragment /\ Latest = Len(added) /\ ptr = added[Latest]
         /\ fragment_length = FirstLength(Latest)
         /\ Whole(Latest) => AllWhole(Latest) /\ EndOf(Latest) = starts[Latest] + header_size + Len(ptr)
<1>1. InFirstFragment /\ Latest = Len(added) /\ Latest > 0
  BY LayoutIs DEF Stage, InFirstFragment, Gone, Emitting
<1>2. Whole(Latest) => AllWhole(Latest)
  BY <1>1, LayoutIs DEF AllWhole
<1> QED
  BY <1>1, <1>2, LayoutIs DEF InFirstFragment

(* In a quiet step the headers that were complete stay complete, and that  *)
(* of a first fragment is complete once it was appended.                   *)
LEMMA HeadersStay ==
  ASSUME BytesSound, Layout, AddedGrows, UNCHANGED <<starts, log>>, ~Gone,
         wpc = "header" => status = "ok"
  PROVE  \A i \in 1..Latest : AllWhole(i - 1)' => starts[i] + header_size <= Len(log)
<1> SUFFICES ASSUME NEW i \in 1..Latest, AllWhole(i - 1)'
             PROVE  starts[i] + header_size <= Len(log)
  OBVIOUS
<1>1. AllWhole(i - 1)
  BY QuietStep, LayoutIs
<1>2. CASE ~(i = Latest /\ wpc = "header" /\ begin)
  BY <1>1, <1>2, LayoutIs DEF Stage
<1>3. CASE i = Latest /\ wpc = "header" /\ begin
  <2>1. Emitting /\ InFirstFragment
    BY <1>1, <1>3, LayoutIs DEF Stage, Emitting
  <2> QED
    BY <1>3, <2>1, LayoutIs, HeaderSizeFits DEF InFirstFragment
<1> QED
  BY <1>2, <1>3

LEMMA EmittingKeepsLayout ==
  ASSUME BytesSound, Layout, AddedGrows, UNCHANGED <<starts, log>>, HeaderAppended \/ FlushFragment
  PROVE  Layout'
<1>1. PlacedIn(log)' /\ PlacesKept /\ Latest' = Latest
      /\ \A i \in 0..Latest : AllWhole(i)' <=> AllWhole(i)
  BY QuietStep
<1>2. /\ Emitting /\ Emitting' /\ ~Gone /\ ~Gone' /\ status = "ok" /\ status' = "pending"
      /\ UNCHANGED <<block_offset_, ptr, begin, fragment_length, added>>
      /\ \/ wpc = "header" /\ wpc' = "payload" /\ call' = [op |-> "append", data |-> ptr]
         \/ wpc = "payload" /\ wpc' = "flush" /\ call' = [op |-> "flush", data |-> <<>>]
  BY DEF HeaderAppended, FlushFragment, Invoke, Emitting, Gone
<1>3. (wpc' = "payload" => call'.op = "append") /\ (wpc' = "flush" => call'.op = "flush")
      /\ wpc' \in {"payload", "flush"}
  BY <1>2
<1>4. AllWhole(Latest)' => BetweenRecords'
  <2> SUFFICES ASSUME AllWhole(Latest)' PROVE BetweenRecords'
    OBVIOUS
  <2>1. BetweenRecords
    BY <1>1, <1>2, LayoutIs DEF Stage
  <2> QED
    BY <1>2, <1>3, <2>1 DEF BetweenRecords
<1>5. \A i \in 1..Latest : AllWhole(i - 1)' => starts[i] + header_size <= Len(log)
  BY <1>2, HeadersStay
<1>6. Emitting' /\ begin' /\ AllWhole(Latest - 1)' => InFirstFragment'
  <2> SUFFICES ASSUME begin', AllWhole(Latest - 1)' PROVE InFirstFragment'
    OBVIOUS
  <2>1. begin /\ Emitting /\ Latest > 0
    BY <1>2, LayoutIs DEF Stage, Gone, Emitting, BytesSound, AppendsSound, WriterInv
  <2>2. AllWhole(Latest - 1)
    BY <1>1, <2>1, QuietStep
  <2>3. InFirstFragment /\ ptr = added[Latest] /\ Latest \in 1..Latest
    BY <2>1, <2>2, FirstFragmentIs
  <2>4. header_size' = header_size /\ FirstLength(Latest)' = FirstLength(Latest)
    BY <1>1, <1>2, <2>3 DEF PlacesKept, FirstLength, Whole, AvailableAt
  <2> QED
    BY <1>1, <1>2, <2>3, <2>4, HeaderSizeFits, LayoutIs DEF InFirstFragment
<1>7. Latest = Len(added)
  BY <1>2, LayoutIs DEF Stage, Emitting
<1>8. header_size' = header_size
  BY <1>1 DEF PlacesKept
<1>9. Stage'
  BY <1>1, <1>2, <1>3, <1>4, <1>5, <1>6, <1>7, <1>8, LayoutIs DEF Stage
<1> QED
  BY <1>1, <1>9, LayoutIs DEF Layout

LEMMA FinishKeepsLayout ==
  ASSUME BytesSound, Layout, AddedGrows, UNCHANGED <<starts, log>>, FinishFragment
  PROVE  Layout'
<1> USE HeaderSizeFits
<1>1. PlacedIn(log)' /\ PlacesKept /\ Latest' = Latest
      /\ \A i \in 0..Latest : AllWhole(i)' <=> AllWhole(i)
  BY QuietStep
<1>2. /\ Emitting /\ ~Gone /\ status # "pending" /\ status' = "idle" /\ begin' = FALSE
      /\ wpc \in {"payload", "flush"}
      /\ wpc' \in {"fragment", "idle"}
      /\ Len(ptr) > fragment_length \/ wpc' = "idle"
      /\ block_offset_' = block_offset_ + header_size + fragment_length
      /\ UNCHANGED <<added, call>>
  BY LayoutIs DEF FinishFragment, Stage, Emitting, Gone, OffsetAfterFragment
<1>3. ~Emitting' /\ ~Gone' /\ wpc' \in {"fragment", "idle"} /\ header_size' = header_size
  BY <1>1, <1>2 DEF Emitting, Gone, PlacesKept
<1>4. AllWhole(Latest)' => BetweenRecords'
  <2> SUFFICES ASSUME AllWhole(Latest)' PROVE BetweenRecords'
    OBVIOUS
  <2>1. AllWhole(Latest) /\ BetweenRecords
    BY <1>1, <1>2, LayoutIs DEF Stage
  <2>2. begin /\ AllWhole(Latest - 1)
    BY <1>2, <2>1, LayoutIs DEF BetweenRecords, AllWhole
  <2>3. /\ Latest \in 1..Latest /\ InFirstFragment /\ ptr = added[Latest]
        /\ fragment_length = FirstLength(Latest)
    BY <1>2, <2>2, FirstFragmentIs
  <2>4. Whole(Latest)
    BY <2>1, <2>3 DEF AllWhole
  <2>5. fragment_length = Len(ptr) /\ EndOf(Latest) = starts[Latest] + header_size + Len(ptr)
    BY <1>2, <2>2, <2>3, <2>4, FirstFragmentIs DEF FirstLength
  <2>6. wpc' = "idle" /\ Len(log) = EndOf(Latest)
    <3>1. Len(ptr) \in Nat
      BY LayoutIs DEF WriterInv
    <3>2. ~(Len(ptr) > fragment_length)
      BY <2>5, <3>1
    <3>3. Len(log) = starts[Latest] + header_size + Len(ptr)
      BY <1>2, <2>3 DEF InFirstFragment
    <3> QED
      BY <1>2, <2>5, <3>2, <3>3
  <2>7. \/ block_offset_' = InBlock(EndOf(Latest))
        \/ block_offset_' = kBlockSize /\ InBlock(EndOf(Latest)) = 0
    <3>1. block_offset_ \in Nat /\ Len(ptr) \in Nat /\ starts[Latest] \in Nat
      <4>1. block_offset_ \in Nat /\ Len(ptr) \in Nat
        BY LayoutIs DEF WriterInv
      <4> QED
        BY <2>3, <4>1, LayoutIs
    <3>2. /\ block_offset_ = InBlock(starts[Latest]) /\ starts[Latest] \in Nat
          /\ block_offset_ + (header_size + Len(ptr)) <= kBlockSize /\ Len(ptr) \in Nat
      BY <2>3, <2>4, <3>1 DEF InFirstFragment, Whole
    <3>3. /\ block_offset_ + (header_size + Len(ptr)) < kBlockSize =>
               InBlock(starts[Latest] + (header_size + Len(ptr))) = block_offset_ + (header_size + Len(ptr))
          /\ block_offset_ + (header_size + Len(ptr)) = kBlockSize =>
               InBlock(starts[Latest] + (header_size + Len(ptr))) = 0
      BY <3>2, InBlockMoves
    <3>4. /\ starts[Latest] + (header_size + Len(ptr)) = EndOf(Latest)
          /\ block_offset_' = block_offset_ + (header_size + Len(ptr))
          /\ block_offset_ \in Nat
      BY <1>2, <2>5, <3>1
    <3> QED
      BY <3>2, <3>3, <3>4
  <2>8. EndOf(Latest)' = EndOf(Latest)
    BY <1>1, LayoutIs DEF PlacesKept
  <2> QED
    BY <1>1, <1>3, <2>6, <2>7, <2>8 DEF BetweenRecords, Tracks
<1>5. \A i \in 1..Latest : AllWhole(i - 1)' => starts[i] + header_size <= Len(log)
  BY <1>2, HeadersStay
<1>6. Latest = Len(added)
  BY <1>2, LayoutIs DEF Stage, Emitting
<1>7. Stage'
  BY <1>1, <1>2, <1>3, <1>4, <1>5, <1>6, LayoutIs DEF Stage
<1> QED
  BY <1>1, <1>7, LayoutIs DEF Layout

(* The writer is closed, dies, or its call returns without an append.      *)
LEMMA OtherStepsKeepLayout ==
  ASSUME BytesSound, Layout, AddedGrows, UNCHANGED <<starts, log, added>>,
         \/ DropWriter \/ DropReturns \/ Crash
         \/ /\ UNCHANGED <<wpc, begin, ptr, block_offset_, fragment_length, call>>
            /\ \/ UNCHANGED status
               \/ status = "pending" /\ status' \in {"ok", "err"} /\ call.op # "append"
  PROVE  Layout'
<1>1. PlacedIn(log)' /\ PlacesKept /\ Latest' = Latest
      /\ \A i \in 0..Latest : AllWhole(i)' <=> AllWhole(i)
  BY QuietStep
<1>2. CASE DropWriter
  <2>1. wpc' = "drop" /\ status' = "pending" /\ call' = [op |-> "close", data |-> <<>>]
    BY <1>2 DEF DropWriter, Invoke
  <2>2. ~Emitting' /\ Gone' /\ call'.op = "close"
    BY <2>1 DEF Emitting, Gone
  <2>3. Stage'
    BY <1>1, <2>1, <2>2, LayoutIs DEF Stage
  <2> QED
    BY <1>1, <2>3, LayoutIs DEF Layout
<1>3. CASE DropReturns \/ Crash
  <2>1. wpc' = "dropped" /\ status' = "idle"
    BY <1>3 DEF DropReturns, Crash
  <2>2. ~Emitting' /\ Gone'
    BY <2>1 DEF Emitting, Gone
  <2>3. Stage'
    BY <1>1, <2>1, <2>2, LayoutIs DEF Stage
  <2> QED
    BY <1>1, <2>3, LayoutIs DEF Layout
<1>4. CASE /\ UNCHANGED <<wpc, begin, ptr, block_offset_, fragment_length, call>>
           /\ \/ UNCHANGED status
              \/ status = "pending" /\ status' \in {"ok", "err"} /\ call.op # "append"
  <2>1. /\ UNCHANGED <<Emitting, Gone, header_size>>
        /\ wpc \in {"trailer", "header", "payload"} => UNCHANGED status
        /\ status' \in {"idle", "pending", "ok"} \/ (status' = "err" /\ wpc \in {"flush", "drop"})
        /\ (status = "idle" <=> status' = "idle")
    <3>1. UNCHANGED <<Emitting, Gone, header_size>>
      BY <1>1, <1>4 DEF Emitting, Gone, PlacesKept
    <3>2. CASE UNCHANGED status
      BY <3>1, <3>2, LayoutIs DEF Stage
    <3>3. CASE status = "pending" /\ status' \in {"ok", "err"} /\ call.op # "append"
      <4>1. wpc \in {"flush", "drop"}
        BY <3>3, LayoutIs DEF Stage, WriterInv, ControlPoints
      <4> QED
        BY <3>1, <3>3, <4>1
    <3> QED
      BY <1>4, <3>2, <3>3
  <2>2. AllWhole(Latest)' /\ ~Gone => BetweenRecords'
    <3> SUFFICES ASSUME AllWhole(Latest)', ~Gone PROVE BetweenRecords'
      OBVIOUS
    <3>1. BetweenRecords
      BY <1>1, LayoutIs DEF Stage
    <3>2. EndOf(Latest)' = EndOf(Latest) /\ NextStart(EndOf(Latest))' = NextStart(EndOf(Latest))
      BY <1>1, LayoutIs DEF PlacesKept, NextStart
    <3> QED
      BY <1>1, <1>4, <2>1, <3>1, <3>2 DEF BetweenRecords, Tracks, leftover
  <2>3. Emitting' /\ begin' /\ AllWhole(Latest - 1)' => InFirstFragment'
    <3> SUFFICES ASSUME Emitting', begin', AllWhole(Latest - 1)' PROVE InFirstFragment'
      OBVIOUS
    <3>1. begin /\ Emitting /\ Latest > 0
      BY <1>4, <2>1, LayoutIs DEF Stage, Gone, Emitting, BytesSound, AppendsSound, WriterInv
    <3>2. AllWhole(Latest - 1)
      BY <1>1, <3>1, QuietStep
    <3>3. InFirstFragment /\ Latest \in 1..Latest
      BY <3>1, <3>2, FirstFragmentIs
    <3>4. HeaderOf(Latest)' = HeaderOf(Latest) /\ FirstLength(Latest)' = FirstLength(Latest)
      BY <1>1, <2>1, <3>3 DEF PlacesKept, FirstLength, Whole, AvailableAt
    <3> QED
      BY <1>1, <1>4, <2>1, <3>3, <3>4 DEF InFirstFragment
  <2>4. ~Gone => \A i \in 1..Latest :
          AllWhole(i - 1)' /\ ~(i = Latest /\ wpc = "header" /\ begin) =>
            starts[i] + header_size <= Len(log)
    <3> SUFFICES ASSUME ~Gone, NEW i \in 1..Latest, AllWhole(i - 1)',
                        ~(i = Latest /\ wpc = "header" /\ begin)
                 PROVE  starts[i] + header_size <= Len(log)
      OBVIOUS
    <3>1. AllWhole(i - 1)
      BY <1>1, LayoutIs
    <3> QED
      BY <3>1, LayoutIs DEF Stage
  <2>5. Stage'
    BY <1>1, <1>4, <2>1, <2>2, <2>3, <2>4, LayoutIs DEF Stage
  <2> QED
    BY <1>1, <2>5, LayoutIs DEF Layout
<1> QED
  BY <1>2, <1>3, <1>4

(* A fragment begins: a first one where the next record belongs, which is  *)
(* at the end of the log since its block's tail has been filled.           *)
LEMMA StartIsNext ==
  ASSUME BytesSound, Layout, AllWhole(Latest), StartFragment \/ TrailerFilled
  PROVE  /\ Len(log) = NextStart(EndOf(Latest))
         /\ EmitHeader(InBlock(Len(log)))
<1> USE HeaderSizeFits
<1>1. /\ BetweenRecords /\ EndOf(Latest) \in Nat
      /\ block_offset_ \in 0..kBlockSize
  BY LayoutIs DEF Stage, Gone, StartFragment, TrailerFilled, WriterInv
<1>2. CASE StartFragment
  <2>1. Len(log) = EndOf(Latest) /\ Tracks(EndOf(Latest))
    BY <1>1, <1>2 DEF StartFragment, BetweenRecords
  <2>2. \/ block_offset_ + header_size <= kBlockSize /\ EmitHeader(block_offset_)
        \/ block_offset_ = kBlockSize /\ EmitHeader(0)
    BY <1>1, <1>2 DEF StartFragment, leftover
  <2>3. EmitHeader(InBlock(EndOf(Latest))) /\ InBlock(EndOf(Latest)) + header_size <= kBlockSize
    <3>1. CASE block_offset_ + header_size <= kBlockSize /\ EmitHeader(block_offset_)
      <4>1. block_offset_ # kBlockSize
        BY <1>1, <3>1
      <4>2. block_offset_ = InBlock(EndOf(Latest))
        BY <2>1, <4>1 DEF Tracks
      <4> QED
        BY <3>1, <4>2
    <3>2. CASE block_offset_ = kBlockSize /\ EmitHeader(0)
      <4>1. InBlock(EndOf(Latest)) = 0
        <5>1. InBlock(EndOf(Latest)) < kBlockSize
          BY <1>1, InBlockIs
        <5> QED
          BY <2>1, <3>2, <5>1 DEF Tracks
      <4> QED
        BY <3>2, <4>1
    <3> QED
      BY <2>2, <3>1, <3>2
  <2> QED
    BY <2>1, <2>3 DEF NextStart
<1>3. CASE TrailerFilled
  <2>1. /\ block_offset_ = InBlock(EndOf(Latest)) /\ block_offset_ + header_size > kBlockSize
        /\ Len(log) = NextStart(EndOf(Latest)) /\ EmitHeader(0)
    BY <1>1, <1>3 DEF TrailerFilled, BetweenRecords
  <2>2. InBlock(NextStart(EndOf(Latest))) = 0
    <3>1. NextStart(EndOf(Latest)) # EndOf(Latest)
      <4>1. InBlock(EndOf(Latest)) \in 0 .. kBlockSize - 1
        BY <1>1, InBlockIs
      <4>2. NextStart(EndOf(Latest)) = EndOf(Latest) + kBlockSize - InBlock(EndOf(Latest))
        BY <2>1, <4>1 DEF NextStart
      <4> QED
        BY <1>1, <4>1, <4>2
    <3> QED
      BY <1>1, <3>1, NextStartIs
  <2> QED
    BY <2>1, <2>2
<1> QED
  BY <1>2, <1>3

LEMMA StartKeepsPlaces ==
  ASSUME BytesSound, Layout, AddedGrows, UNCHANGED log, StartFragment \/ TrailerFilled, begin,
         starts' = Append(starts, Len(log)), NEW k \in Nat, k = Latest + 1
  PROVE  /\ PlacesKept /\ Latest' = k /\ starts' \in Seq(Nat) /\ starts'[k] = Len(log)
         /\ PlacedIn(log)'
         /\ AllWhole(k - 1)' <=> AllWhole(k - 1)
<1> USE HeaderSizeFits
<1>0. Latest \in Nat /\ Len(log) \in Nat /\ k - 1 = Latest /\ k - 1 \in Nat
  BY LayoutIs
<1>1. /\ starts' \in Seq(Nat) /\ Latest' = k /\ starts'[k] = Len(log)
      /\ \A i \in 1..Latest : starts'[i] = starts[i]
  BY LayoutIs DEF Latest
<1>2. PlacesKept
  BY <1>1, LayoutIs, PlacesStay
<1>3. ASSUME NEW i \in 0..Latest
      PROVE  /\ EndOf(i)' = EndOf(i) /\ NextStart(EndOf(i))' = NextStart(EndOf(i))
             /\ AllWhole(i)' <=> AllWhole(i)
  BY <1>2 DEF PlacesKept, NextStart
<1>4. header_size' = header_size /\ header_size \in Nat /\ header_size > 0
  BY <1>2 DEF PlacesKept
<1>5. ASSUME NEW i \in 1 .. k, AllWhole(i - 1)'
      PROVE  /\ starts'[i] = NextStart(EndOf(i - 1))'
             /\ starts'[i] <= Len(log)
             /\ \A p \in 1..header_size :
                  starts'[i] + p <= Len(log) => log[starts'[i] + p] = HeadByte(HeaderOf(i)', p)
  <2>1. i - 1 \in 0..Latest
    BY <1>0
  <2>2. AllWhole(i - 1) /\ NextStart(EndOf(i - 1))' = NextStart(EndOf(i - 1))
    BY <1>3, <1>5, <2>1
  <2>3. CASE i \in 1..Latest
    <3>1. HeaderOf(i)' = HeaderOf(i) /\ starts'[i] = starts[i]
      BY <1>2, <2>3 DEF PlacesKept
    <3>2. /\ starts[i] = NextStart(EndOf(i - 1)) /\ starts[i] <= Len(log)
          /\ \A p \in 1..header_size :
               starts[i] + p <= Len(log) => log[starts[i] + p] = HeadByte(HeaderOf(i), p)
      BY <2>2, <2>3, LayoutIs DEF PlacedIn
    <3> HIDE DEF HeaderOf, HeadByte
    <3>3. starts'[i] = NextStart(EndOf(i - 1))'
      BY <2>2, <3>1, <3>2
    <3> QED
      BY <3>1, <3>2, <3>3
  <2>4. CASE i = k
    <3>1. i - 1 = Latest
      BY <1>0, <2>4
    <3>2. Len(log) = NextStart(EndOf(i - 1))
      BY <2>2, <3>1, StartIsNext
    <3>3. \A p \in 1..header_size : ~(Len(log) + p <= Len(log))
      BY <1>0
    <3>4. starts'[i] = Len(log)
      BY <1>1, <2>4
    <3>5. starts'[i] = NextStart(EndOf(i - 1))'
      BY <2>2, <3>2, <3>4
    <3> QED
      BY <1>0, <3>3, <3>4, <3>5
  <2>5. i \in 1..Latest \/ i = k
    BY <1>0
  <2> QED
    BY <2>3, <2>4, <2>5
<1>6. k # 0
  BY <1>0
<1>7. AllWhole(k)' => EndOf(k)' \in Nat /\ Len(log) <= EndOf(k)'
  <2> SUFFICES ASSUME AllWhole(k)' PROVE EndOf(k)' \in Nat /\ Len(log) <= EndOf(k)'
    OBVIOUS
  <2>1. Len(added'[k]) \in Nat
    <3>1. k = Len(added) /\ k \in 1..Len(added)
      BY <1>0, LayoutIs DEF Stage, StartFragment, TrailerFilled, Gone
    <3>2. added'[k] = added[k]
      BY <3>1 DEF AddedGrows
    <3>3. added[k] \in Seq(Data)
      BY <3>1, LayoutIs DEF WriterInv
    <3> QED
      BY <3>2, <3>3
  <2>2. EndOf(k)' = Len(log) + header_size + Len(added'[k])
    BY <1>1, <1>4, <1>6 DEF EndOf
  <2>3. PICK len \in Nat : len = Len(added'[k])
    BY <2>1
  <2>4. PICK e : e = EndOf(k)' /\ e = Len(log) + header_size + len
    BY <2>2, <2>3
  <2>5. e \in Nat /\ Len(log) <= e
    BY <1>0, <1>4, <2>4
  <2> QED
    BY <2>4, <2>5
<1>8. ASSUME NEW i \in 0 .. k, AllWhole(i)',
             NEW q \in EndOf(i)' + 1 .. NextStart(EndOf(i))', q <= Len(log)
      PROVE  log[q] = ZeroByte
  <2>1. CASE i \in 0..Latest
    BY <1>3, <1>8, <2>1, LayoutIs DEF PlacedIn
  <2>2. CASE i = k
    BY <1>0, <1>7, <1>8, <2>2
  <2> QED
    BY <1>0, <2>1, <2>2
<1>9. AllWhole(k)' => Len(log) <= NextStart(EndOf(k))'
  <2> SUFFICES ASSUME AllWhole(k)' PROVE Len(log) <= NextStart(EndOf(k))'
    OBVIOUS
  <2>1. PICK e \in Nat : e = EndOf(k)' /\ Len(log) <= e
    BY <1>7
  <2>2. NextStart(EndOf(k))' = NextStart(e)
    BY <1>4, <2>1 DEF NextStart
  <2>3. NextStart(e) \in Nat /\ e <= NextStart(e)
    BY NextStartIs
  <2> QED
    BY <1>0, <2>1, <2>2, <2>3
<1>10. PlacedIn(log)'
  BY <1>1, <1>4, <1>5, <1>8, <1>9 DEF PlacedIn
<1>11. AllWhole(k - 1)' <=> AllWhole(k - 1)
  BY <1>0, <1>3
<1> QED
  BY <1>1, <1>2, <1>10, <1>11

LEMMA StartKeepsFragment ==
  ASSUME BytesSound, Layout, AddedGrows, UNCHANGED log, StartFragment \/ TrailerFilled, begin,
         starts' = Append(starts, Len(log)), AllWhole(Latest)
  PROVE  InFirstFragment'
<1> USE HeaderSizeFits
<1>0. PICK k \in Nat : k = Latest + 1
  BY LayoutIs
<1>1. /\ PlacesKept /\ Latest' = k /\ starts'[k] = Len(log) /\ header_size' = header_size
      /\ k > 0 /\ Len(log) \in Nat
  <2>1. PlacesKept /\ Latest' = k /\ starts'[k] = Len(log)
    BY <1>0, StartKeepsPlaces
  <2>2. header_size' = header_size
    BY <2>1 DEF PlacesKept
  <2>3. k > 0 /\ Len(log) \in Nat
    BY <1>0, LayoutIs
  <2> QED
    BY <2>1, <2>2, <2>3
<1> DEFINE s == InBlock(Len(log))
           n == IF Len(ptr) < AvailableAt(s) THEN Len(ptr) ELSE AvailableAt(s)
<1>2. Len(log) = NextStart(EndOf(Latest)) /\ EmitHeader(s)
  BY StartIsNext
<1>3. s \in Nat /\ s + header_size <= kBlockSize
  <2>1. EndOf(Latest) \in Nat
    BY LayoutIs
  <2> QED
    BY <1>1, <1>2, <2>1, NextStartIs, InBlockIs
<1>4. ptr \in Seq(Data) /\ added'[k] = ptr /\ UNCHANGED <<ptr, begin>>
  <2>1. k = Len(added) /\ k \in 1..Len(added) /\ wpc \in {"fragment", "trailer"}
    BY <1>0, LayoutIs DEF Stage, StartFragment, TrailerFilled, Gone
  <2>2. ptr \in Seq(Data) /\ ptr = added[k]
    BY <2>1, LayoutIs DEF BytesSound, AppendsSound, WriterInv
  <2> QED
    BY <1>2, <2>1, <2>2 DEF AddedGrows, EmitHeader
<1>5. AvailableAt(s) = kBlockSize - s - header_size /\ AvailableAt(s)' = AvailableAt(s')
  BY <1>1 DEF AvailableAt
<1>6. Whole(k)' <=> s + header_size + Len(ptr) <= kBlockSize
  BY <1>1, <1>4 DEF Whole, InBlock
<1>7. Len(ptr) \in Nat /\ (Whole(k)' <=> Len(ptr) = n)
  BY <1>3, <1>4, <1>5, <1>6
<1>8. FirstLength(k)' = n
  <2>1. FirstLength(k)' = IF Whole(k)' THEN Len(ptr) ELSE kBlockSize - s - header_size
    BY <1>1, <1>4 DEF FirstLength, AvailableAt, InBlock
  <2> QED
    BY <1>3, <1>5, <1>7, <2>1, <1>6
<1> HIDE DEF n, s
<1>9. HeaderOf(k)' = LET type == RecordTypeOf(begin, Len(ptr) = n)
                     IN  [type   |-> type,
                          length |-> EncodeLength(n),
                          log    |-> EncodeLogNumber(log_number_),
                          crc    |-> WriterCrc(type, n, ptr)]
  <2>1. begin = TRUE
    OBVIOUS
  <2>2. RecordTypeOf(TRUE, Whole(k))' = RecordTypeOf(begin, Len(ptr) = n)
    BY <1>7, <2>1 DEF RecordTypeOf, AddedGrows
  <2>3. \A type : WriterCrc(type, FirstLength(k), added[k])' = WriterCrc(type, n, ptr)
    BY <1>4, <1>8 DEF WriterCrc, AddedGrows
  <2> QED
    BY <1>8, <2>2, <2>3 DEF HeaderOf
<1>10. /\ block_offset_' = s /\ fragment_length' = n /\ wpc' = "header" /\ status' = "pending"
       /\ call' = [op |-> "append", data |-> HeaderBytes(HeaderOf(k)', header_size)]
  BY <1>2, <1>9 DEF EmitHeader, Invoke, n
<1>11. block_offset_' = InBlock(starts'[k])
  BY <1>1, <1>10 DEF s
<1> QED
  BY <1>1, <1>4, <1>8, <1>10, <1>11 DEF InFirstFragment, InBlock

LEMMA StartKeepsLayout ==
  ASSUME BytesSound, Layout, AddedGrows, UNCHANGED log, StartFragment \/ TrailerFilled,
         starts' = IF begin THEN Append(starts, Len(log)) ELSE starts
  PROVE  Layout'
<1>1. /\ wpc \in {"fragment", "trailer"} /\ wpc' = "header" /\ status' = "pending"
      /\ call'.op = "append" /\ UNCHANGED <<begin, added>>
      /\ wpc = "trailer" => status = "ok"
  BY DEF StartFragment, TrailerFilled, EmitHeader, Invoke
<1>2. ~Gone /\ ~Gone' /\ Emitting'
  BY <1>1 DEF Gone, Emitting
<1>3. CASE begin
  <2>0. PICK k \in Nat : k = Latest + 1
    BY LayoutIs
  <2>1. /\ PlacesKept /\ Latest' = k /\ starts' \in Seq(Nat) /\ starts'[k] = Len(log)
        /\ PlacedIn(log)' /\ k > 0 /\ k = Len(added)
    <3>1. /\ PlacesKept /\ Latest' = k /\ starts' \in Seq(Nat) /\ starts'[k] = Len(log)
          /\ PlacedIn(log)'
      BY <1>3, <2>0, StartKeepsPlaces
    <3>2. k > 0 /\ k = Len(added)
      BY <1>1, <1>2, <1>3, <2>0, LayoutIs DEF Stage
    <3> QED
      BY <3>1, <3>2
  <2>2. ASSUME AllWhole(Latest - 1)' PROVE InFirstFragment'
    <3>1. AllWhole(k - 1)'
      BY <2>1, <2>2
    <3>2. AllWhole(k - 1) /\ k - 1 = Latest
      BY <1>3, <2>0, <3>1, LayoutIs, StartKeepsPlaces
    <3> QED
      BY <1>3, <3>2, StartKeepsFragment
  <2>3. ASSUME NEW i \in 1..k, AllWhole(i - 1)', i # k
        PROVE  starts'[i] + header_size' <= Len(log)
    <3>1. i \in 1..Latest /\ i - 1 \in 0..Latest
      BY <2>0, <2>3, LayoutIs
    <3>2. AllWhole(i - 1) /\ starts'[i] = starts[i] /\ header_size' = header_size
      BY <2>1, <2>3, <3>1 DEF PlacesKept
    <3> QED
      BY <1>1, <1>2, <3>1, <3>2, LayoutIs DEF Stage
  <2>4. BetweenRecords'
    BY <1>1, <1>3 DEF BetweenRecords
  <2>5. Latest' <= Len(added') /\ Latest' = Len(added')
    BY <1>1, <2>1
  <2>6. \A i \in 1..Latest' : AllWhole(i - 1)' /\ ~(i = Latest' /\ wpc' = "header" /\ begin') =>
          starts'[i] + header_size' <= Len(log')
    BY <1>1, <1>3, <2>1, <2>3
  <2>7. Stage'
    <3>1. Latest' = Len(added') - (IF wpc' \in {"fragment", "trailer"} /\ begin' THEN 1 ELSE 0)
      BY <1>1, <2>1, <2>5
    <3>2. /\ status' \in {"idle", "pending", "ok"} /\ status' # "idle"
          /\ wpc' \notin {"idle", "fragment", "dropped", "flush", "drop"}
      BY <1>1
    <3> QED
      BY <1>1, <2>2, <2>4, <2>5, <2>6, <3>1, <3>2 DEF Stage
  <2> QED
    BY <2>1, <2>7 DEF Layout
<1>4. CASE ~begin
  <2>1. UNCHANGED starts /\ ~begin'
    BY <1>1, <1>4
  <2>2. PlacedIn(log)' /\ PlacesKept /\ Latest' = Latest
        /\ \A i \in 0..Latest : AllWhole(i)' <=> AllWhole(i)
    BY <2>1, QuietStep
  <2>3. ~AllWhole(Latest)'
    <3>1. ~AllWhole(Latest)
      BY <1>1, <1>2, <1>4, LayoutIs DEF Stage, BetweenRecords
    <3> QED
      BY <2>2, <3>1, LayoutIs
  <2>4. \A i \in 1..Latest : AllWhole(i - 1)' => starts[i] + header_size <= Len(log)
    BY <1>1, <1>2, <2>1, HeadersStay
  <2>5. Latest = Len(added) /\ header_size' = header_size
    BY <1>1, <1>2, <1>4, <2>2, LayoutIs DEF Stage, PlacesKept
  <2>6. Stage'
    BY <1>1, <1>2, <2>1, <2>2, <2>3, <2>4, <2>5 DEF Stage
  <2> QED
    BY <2>1, <2>2, <2>6, LayoutIs DEF Layout
<1> QED
  BY <1>3, <1>4

LEMMA AddedOnlyGrows ==
  ASSUME BytesSound, [Next \/ KeepReading]_vars
  PROVE  AddedGrows
<1>1. CASE [WriterNext \/ DestReturns]_wvars
  BY <1>1, WriterSound DEF BytesSound
<1>2. CASE Crash
  BY <1>2 DEF Crash, AddedGrows, BytesSound, AppendsSound, WriterInv
<1>3. CASE Destination
  <2>1. UNCHANGED <<added, recycle_log_files_>>
    BY <1>3 DEF Destination
  <2> QED
    BY <2>1 DEF AddedGrows, BytesSound, AppendsSound, WriterInv
<1> QED
  BY <1>1, <1>2, <1>3 DEF Next, Write, Damage, Read, CallRead, KeepReading, vars

(* What a step may do to the log when the destination's calls succeed.     *)
LEMMA WriteKeepsLayout ==
  ASSUME BytesSound, Layout, AddedGrows, Write(Len(log)), UNCHANGED log
  PROVE  Layout'
<1>1. CASE StartFragment \/ TrailerFilled
  <2>1. wpc # "header" /\ wpc' = "header"
    BY <1>1 DEF StartFragment, TrailerFilled, EmitHeader
  <2>2. starts' = IF begin THEN Append(starts, Len(log)) ELSE starts
    BY <2>1 DEF Write
  <2> QED
    BY <1>1, <2>2, StartKeepsLayout
<1>2. CASE ~(StartFragment \/ TrailerFilled)
  <2>1. AddAnyRecord \/ FillTrailer \/ TrailerFailed \/ HeaderAppended \/ FlushFragment
        \/ FinishFragment \/ DropReturns \/ DropWriter
    BY Zenon, <1>2 DEF Write, WriterNext, WriterStep
  <2>2. wpc' # "header"
    BY <2>1 DEF AddAnyRecord, AddRecord, FillTrailer, TrailerFailed, HeaderAppended,
       FlushFragment, FinishFragment, DropReturns, DropWriter
  <2>3. UNCHANGED starts
    BY <2>2 DEF Write
  <2>4. ~TrailerFailed
    BY LayoutIs DEF Stage, TrailerFailed
  <2>5. CASE AddAnyRecord
    BY <2>3, <2>5, AddKeepsLayout DEF AddAnyRecord
  <2>6. CASE DropReturns \/ DropWriter
    <3>1. UNCHANGED added
      BY <2>6 DEF DropReturns, DropWriter
    <3> QED
      BY <2>3, <2>6, <3>1, OtherStepsKeepLayout
  <2>7. CASE FillTrailer
    BY <2>3, <2>7, TrailerKeepsLayout
  <2>8. CASE HeaderAppended \/ FlushFragment
    BY <2>3, <2>8, EmittingKeepsLayout
  <2>9. CASE FinishFragment
    BY <2>3, <2>9, FinishKeepsLayout
  <2> QED
    BY <2>1, <2>4, <2>5, <2>6, <2>7, <2>8, <2>9
<1> QED
  BY <1>1, <1>2

LEMMA LayoutStays ==
  ASSUME AppendsSucceed, BytesSound, Layout, [Next \/ KeepReading]_vars
  PROVE  Layout'
<1>0. AddedGrows
  BY AddedOnlyGrows
<1>1. CASE Destination /\ Dest!StreamStep
  <2>1. /\ status = "pending" /\ status' \in {"ok", "err"}
        /\ call.op = "append" => status' = "ok"
        /\ UNCHANGED <<recycle_log_files_, wpc, block_offset_, ptr, begin, fragment_length,
                       added, starts, call>>
    BY <1>1 DEF AppendsSucceed, Destination, Dest!StreamStep, Dest!AppendReturns,
       Dest!FlushReturns, Dest!CloseReturns, Dest!WriteBack
  <2>2. CASE Dest!AppendReturns
    BY <1>0, <2>1, <2>2, AppendKeepsLayout DEF Dest!AppendReturns
  <2>3. CASE Dest!FlushReturns \/ Dest!CloseReturns
    <3>1. UNCHANGED log /\ call.op # "append"
      BY <2>3 DEF Dest!FlushReturns, Dest!CloseReturns
    <3> QED
      BY <1>0, <2>1, <3>1, OtherStepsKeepLayout
  <2> QED
    BY <1>1, <2>2, <2>3 DEF Dest!StreamStep
<1>2. CASE \/ Destination /\ Dest!WriteBack
           \/ Damage \/ KeepReading \/ UNCHANGED vars
           \/ (Read \/ CallRead(onFile = Len(log))) /\ UNCHANGED dvars
  <2>1. UNCHANGED <<recycle_log_files_, wpc, block_offset_, ptr, begin, fragment_length,
                    added, starts, call, status, log>>
    <3>1. CASE Destination /\ Dest!WriteBack
      BY <3>1 DEF Destination, Dest!WriteBack
    <3>2. CASE Damage
      BY <3>2 DEF Damage, wvars
    <3>3. CASE KeepReading \/ UNCHANGED vars
      BY <3>3 DEF KeepReading, vars, wvars, dvars
    <3>4. CASE (Read \/ CallRead(onFile = Len(log))) /\ UNCHANGED dvars
      BY <3>4 DEF Read, CallRead, wvars, dvars
    <3> QED
      BY <1>2, <3>1, <3>2, <3>3, <3>4
  <2> QED
    BY <1>0, <2>1, OtherStepsKeepLayout
<1>3. CASE Write(Len(log)) /\ UNCHANGED dvars
  BY <1>0, <1>3, WriteKeepsLayout DEF dvars
<1>4. CASE Crash /\ UNCHANGED dvars
  <2>1. UNCHANGED <<starts, log, added>>
    BY <1>4 DEF Crash, dvars
  <2> QED
    BY <1>0, <1>4, <2>1, OtherStepsKeepLayout
<1> QED
  BY <1>1, <1>2, <1>3, <1>4 DEF Next, Destination

LEMMA LayoutAtFirst == Init => Layout
<1> SUFFICES ASSUME Init PROVE Layout
  OBVIOUS
<1>1. /\ starts = <<>> /\ log = <<>> /\ added = <<>> /\ wpc = "idle" /\ status = "idle"
      /\ block_offset_ = 0
  BY DEF Init, RecoveryInit, WriterInit, Dest!StreamInit
<1>2. Latest = 0 /\ Len(log) = 0 /\ Len(added) = 0 /\ EndOf(0) = 0 /\ starts \in Seq(Nat)
  BY <1>1 DEF Latest, EndOf
<1>3. NextStart(0) = 0 /\ InBlock(0) = 0
  BY Sizes, HeaderSizeFits DEF NextStart, InBlock
<1>4. PlacedIn(log)
  BY <1>2, <1>3 DEF PlacedIn
<1>5. BetweenRecords
  BY <1>1, <1>2, <1>3 DEF BetweenRecords, Tracks, Emitting
<1>6. Stage
  BY <1>1, <1>2, <1>5 DEF Stage, Emitting, Gone
<1> QED
  BY <1>2, <1>4, <1>6 DEF Layout

LEMMA LayoutAlways ==
  ASSUME AppendsSucceed
  PROVE  /\ Spec => [](BytesSound /\ Layout)
         /\ PersistentSpec => [](BytesSound /\ Layout)
<1>1. Init => BytesSound /\ Layout
  BY BytesSoundAtFirst, LayoutAtFirst
<1>2. BytesSound /\ Layout /\ [Next \/ KeepReading]_vars => (BytesSound /\ Layout)'
  BY BytesStaySound, LayoutStays
<1>3. Spec => [](BytesSound /\ Layout)
  BY <1>1, <1>2, PTL DEF Spec
<1>4. PersistentSpec => [](BytesSound /\ Layout)
  BY <1>1, <1>2, PTL DEF PersistentSpec
<1> QED
  BY <1>3, <1>4

(* As long as no record had to be cut and the destination takes what is    *)
(* appended, block_offset_ is where the log ends in its block whenever     *)
(* add_record has returned: the next header goes where the reader looks.   *)
THEOREM OffsetTracksLog ==
  AppendsSucceed => (Spec => []BlockOffsetTracksLog)
<1> SUFFICES ASSUME AppendsSucceed PROVE Spec => []BlockOffsetTracksLog
  OBVIOUS
<1>1. BytesSound /\ Layout => BlockOffsetTracksLog
  <2> SUFFICES ASSUME BytesSound, Layout, wpc = "idle", NoneCut
               PROVE  (Len(log) - block_offset_) % kBlockSize = 0
    BY DEF BlockOffsetTracksLog
  <2>1. AllWhole(Latest)
    BY LayoutIs DEF NoneCut, AllWhole, Whole, InBlock, Latest
  <2>2. Len(log) = EndOf(Latest) /\ Tracks(EndOf(Latest)) /\ Len(log) \in Nat
    BY <2>1, LayoutIs DEF Stage, BetweenRecords, Gone
  <2> QED
    BY <2>2, BlocksAreMultiples DEF Tracks
<1> QED
  BY <1>1, LayoutAlways, PTL

-----------------------------------------------------------------------------
(* The log only grows, and the file has its bytes where the log has them.  *)
LEMMA LogGrows ==
  ASSUME BytesSound, [Next \/ KeepReading]_vars
  PROVE  /\ Len(log) \in Nat /\ Len(log') \in Nat /\ Len(log) <= Len(log')
         /\ \A q \in 1..Len(log) : log'[q] = log[q]
<1>1. log \in Seq(FileBytes) /\ call.data \in Seq(FileBytes)
  BY DEF BytesSound, AppendsSound
<1>2. CASE UNCHANGED log
  BY <1>1, <1>2
<1>3. CASE Dest!AppendReturns
  <2>1. log' = log \o call.data \/ \E k \in 0..Len(call.data) : log' = log \o SubSeq(call.data, 1, k)
    BY <1>3 DEF Dest!AppendReturns
  <2>2. \A k \in 0..Len(call.data) : SubSeq(call.data, 1, k) \in Seq(FileBytes)
    BY <1>1
  <2>3. PICK more \in Seq(FileBytes) : log' = log \o more
    BY <1>1, <2>1, <2>2
  <2> QED
    BY <1>1, <2>3
<1>4. CASE ~Dest!AppendReturns
  <2>1. UNCHANGED log
    BY <1>4 DEF Next, KeepReading, vars, Destination, Damage, dvars, Dest!StreamStep,
       Dest!FlushReturns, Dest!CloseReturns, Dest!WriteBack
  <2> QED
    BY <1>2, <2>1
<1> QED
  BY <1>3, <1>4

LEMMA BytesGrowInPlace ==
  ASSUME BytesSound, [Next \/ KeepReading]_vars,
         UNCHANGED damaged \/ damaged = 0
  PROVE  \A q \in Nat \ {0} : ByteAt(q) \subseteq ByteAt(q)'
<1> SUFFICES ASSUME NEW q \in Nat, q > 0 PROVE ByteAt(q) \subseteq ByteAt(q)'
  OBVIOUS
<1>1. q <= Len(log) => q <= Len(log') /\ log'[q] = log[q]
  BY LogGrows
<1>2. q = damaged => q = damaged'
  OBVIOUS
<1> QED
  BY <1>1, <1>2 DEF ByteAt

LEMMA RewriteInPlace ==
  ASSUME BytesSound, NEW n, Dest!Rewrite(n), UNCHANGED log
  PROVE  \A q \in 1..Len(file') : file'[q] \in ByteAt(q)'
<1>1. PICK pad \in 0..MaxPad : file' = SubSeq(log, 1, n) \o Zeros(pad)
  BY DEF Dest!Rewrite, Dest!Zeros, Zeros, Dest!ZeroByte, ZeroByte
<1>2. n \in 0..Len(log) /\ log \in Seq(FileBytes)
  BY RewriteSound DEF BytesSound
<1>3. Zeros(pad) \in Seq({ZeroByte}) /\ Len(Zeros(pad)) = pad /\ pad \in Nat
  BY WalAssumption DEF Zeros
<1>4. /\ Len(SubSeq(log, 1, n)) = n /\ SubSeq(log, 1, n) \in Seq(FileBytes)
      /\ \A q \in 1..n : SubSeq(log, 1, n)[q] = log[q]
  BY <1>2
<1>5. Len(file') = n + pad
  <2>1. PICK s \in Seq(FileBytes), z \in Seq(FileBytes) : s = SubSeq(log, 1, n) /\ z = Zeros(pad)
    BY <1>3, <1>4, ZerosSound
  <2>2. Len(s \o z) = Len(s) + Len(z)
    BY <2>1
  <2> QED
    BY <1>1, <1>3, <1>4, <2>1, <2>2
<1> SUFFICES ASSUME NEW q \in 1 .. n + pad PROVE file'[q] \in ByteAt(q)'
  BY <1>5
<1>6. CASE q <= n
  BY <1>1, <1>2, <1>3, <1>4, <1>6 DEF ByteAt
<1>7. CASE ~(q <= n)
  <2>1. q - n \in 1..pad /\ file'[q] = Zeros(pad)[q - n]
    BY <1>1, <1>2, <1>3, <1>4, <1>7
  <2>2. file'[q] = ZeroByte
    BY <2>1 DEF Zeros
  <2> QED
    BY <2>2 DEF ByteAt
<1> QED
  BY <1>6, <1>7

LEMMA FileStays ==
  ASSUME BytesSound, FileInPlace, [Next \/ KeepReading]_vars
  PROVE  /\ FileInPlace'
         /\ UNCHANGED damaged \/ (damaged = 0 /\ UNCHANGED <<starts, log, wvars, rvars, hvars>>)
<1>1. /\ file \in Seq(FileBytes) /\ damaged \in Nat
      /\ damaged # 0 => wpc = "dropped"
      /\ \A q \in 1..Len(file) : file[q] \in ByteAt(q)
  BY DEF BytesSound, FileInPlace
<1>2. CASE Damage
  <2>1. /\ UNCHANGED <<starts, log, wvars, rvars, hvars>> /\ damaged = 0 /\ wpc = "dropped"
        /\ \E i \in 1..Len(file) : damaged' = i /\ file' = [file EXCEPT ![i] = JunkByte]
    BY <1>2 DEF Damage
  <2>2. PICK i \in 1..Len(file) : damaged' = i /\ file' = [file EXCEPT ![i] = JunkByte]
    BY <2>1
  <2>3. Len(file') = Len(file) /\ \A q \in 1..Len(file) :
          file'[q] = IF q = i THEN JunkByte ELSE file[q]
    BY <1>1, <2>2
  <2>4. \A q \in 1..Len(file) : file'[q] \in ByteAt(q)'
    <3> TAKE q \in 1..Len(file)
    <3>1. ByteAt(q) \subseteq ByteAt(q)'
      BY <1>1, <1>2, <2>1, BytesGrowInPlace DEF Next
    <3>2. JunkByte \in ByteAt(i)'
      BY <2>2 DEF ByteAt
    <3> QED
      BY <1>1, <2>3, <3>1, <3>2
  <2>5. damaged' \in Nat /\ wpc' = "dropped"
    BY <2>1, <2>2 DEF wvars
  <2> QED
    BY <2>1, <2>3, <2>4, <2>5 DEF FileInPlace
<1>3. CASE ~Damage
  <2>1. UNCHANGED damaged
    BY <1>3 DEF Next, KeepReading, vars, Destination, dvars
  <2>2. \A q \in Nat \ {0} : ByteAt(q) \subseteq ByteAt(q)'
    BY <2>1, BytesGrowInPlace
  <2>3. damaged' \in Nat /\ (damaged' # 0 => wpc' = "dropped")
    <3>1. wpc = "dropped" => wpc' = "dropped"
      BY Zenon DEF Next, KeepReading, vars, wvars, Destination, Damage, Write, Crash, CallRead, Read,
         WriterNext, WriterStep, AddAnyRecord, AddRecord, FillTrailer, StartFragment, TrailerFilled,
         TrailerFailed, HeaderAppended, FlushFragment, FinishFragment, DropWriter, DropReturns
    <3> QED
      BY <1>1, <2>1, <3>1
  <2>4. \A q \in 1..Len(file') : file'[q] \in ByteAt(q)'
    <3>1. \/ UNCHANGED file
          \/ UNCHANGED log /\ \E n : Dest!Rewrite(n)
          \/ UNCHANGED log /\ file' = Dest!TruncatedTo(file, Len(log))
      BY <1>3 DEF Next, KeepReading, vars, Destination, Write, Crash, CallRead, Read, Dest!StreamStep,
         Dest!AppendReturns, Dest!FlushReturns, Dest!CloseReturns, Dest!WriteBack
    <3>2. CASE UNCHANGED file
      BY <1>1, <2>2, <3>2
    <3>3. CASE UNCHANGED log /\ \E n : Dest!Rewrite(n)
      BY <3>3, RewriteInPlace
    <3>4. CASE UNCHANGED log /\ file' = Dest!TruncatedTo(file, Len(log))
      <4>1. /\ Len(log) \in Nat /\ Len(file') = Len(log)
            /\ \A q \in 1..Len(log) : file'[q] = IF q <= Len(file) THEN file[q] ELSE ZeroByte
        BY <3>4, LogGrows DEF Dest!TruncatedTo, Dest!ZeroByte, ZeroByte
      <4>2. \A q \in Nat : ZeroByte \in ByteAt(q)'
        BY DEF ByteAt
      <4> QED
        BY <1>1, <2>2, <4>1, <4>2
    <3> QED
      BY <3>1, <3>2, <3>3, <3>4
  <2> QED
    BY <2>1, <2>3, <2>4 DEF FileInPlace
<1> QED
  BY <1>2, <1>3

(* Records stay where they started, and once the writer is gone the log    *)
(* stays as it is.                                                         *)
LEMMA StartsStay ==
  ASSUME BytesSound, Layout, [Next \/ KeepReading]_vars
  PROVE  /\ starts' \in Seq(Nat) => Latest' \in Nat /\ Latest <= Latest'
         /\ \A i \in 1..Latest : starts'[i] = starts[i]
         /\ Gone => Gone' /\ UNCHANGED <<starts, log>>
<1>1. starts \in Seq(Nat) /\ Len(log) \in Nat
  BY LayoutIs
<1>2. starts' = starts \/ starts' = Append(starts, Len(log))
  BY DEF Next, KeepReading, vars, Destination, Damage, Write, Crash, CallRead, Read
<1>3. ASSUME Gone PROVE Gone' /\ UNCHANGED starts
  <2>1. ~Write(Len(log)) \/ (Gone' /\ UNCHANGED starts)
    <3>1. Write(Len(log)) => DropReturns
      BY <1>3, LayoutIs DEF Gone, Write, WriterNext, WriterStep, AddAnyRecord, AddRecord, FillTrailer,
         StartFragment, TrailerFilled, TrailerFailed, HeaderAppended, FlushFragment, FinishFragment,
         DropWriter
    <3> QED
      BY <3>1 DEF DropReturns, Gone, Write
  <2> QED
    BY <1>3, <2>1 DEF Next, KeepReading, vars, wvars, Destination, Damage, Crash, CallRead, Read, Gone
<1>4. ASSUME Gone PROVE UNCHANGED log
  <2>1. ~Dest!AppendReturns
    BY <1>4, LayoutIs DEF Gone, Stage, Dest!AppendReturns
  <2> QED
    BY <2>1 DEF Next, KeepReading, vars, Destination, Damage, dvars, Dest!StreamStep,
       Dest!FlushReturns, Dest!CloseReturns, Dest!WriteBack
<1> QED
  BY <1>1, <1>2, <1>3, <1>4 DEF Latest

LEMMA PassedOverStays ==
  ASSUME BytesSound, Layout, FileInPlace, [Next \/ KeepReading]_vars, NothingPassedOver'
  PROVE  NothingPassedOver
<1>1. CASE damaged = 0
  <2>1. \A i \in 1..Latest : starts[i] + kHeaderSize # damaged
    BY <1>1, LayoutIs, Sizes
  <2> QED
    BY <2>1, LayoutIs DEF NothingPassedOver, PassedOver, Latest
<1>2. CASE damaged # 0
  <2>1. UNCHANGED damaged /\ Gone
    BY <1>2, FileStays DEF FileInPlace, Gone
  <2>2. UNCHANGED starts
    BY <2>1, StartsStay
  <2> QED
    BY <2>1, <2>2 DEF NothingPassedOver, PassedOver
<1> QED
  BY <1>1, <1>2

(* What the writer and its destination do leaves the reader in its place.  *)
LEMMA WriterLeavesReader ==
  ASSUME BytesSound, Layout, FileInPlace, [Next \/ KeepReading]_vars, Layout', AddedGrows,
         UNCHANGED <<rvars, hvars>>, Following
  PROVE  Following'
<1>1. /\ UNCHANGED <<leading, stopped, fpos, buffer_, eof_, read_error_, initial_offset_, reads, rpc,
                     last_record_offset_>>
  BY DEF rvars, hvars
<1>2. position' = position /\ block_start_location' = block_start_location
  BY <1>1 DEF position, block_start_location
<1>3. /\ Len(leading) <= Len(added') /\ \A i \in 1..Len(leading) : leading[i] = added'[i]
  <2>1. leading \in Seq(Seq(FileBytes))
    BY DEF BytesSound, ReturnsSound
  <2> QED
    BY <2>1 DEF Following, AddedGrows
<1>4. ASSUME ~stopped PROVE ReaderInPlace'
  <2>1. ReaderInPlace
    BY <1>4 DEF Following
  <2>2. \A q \in 1..Len(buffer_) : buffer_[q] \in ByteAt(position + q)'
    <3>1. \A q \in Nat \ {0} : ByteAt(q) \subseteq ByteAt(q)'
      BY FileStays, BytesGrowInPlace
    <3>2. position \in Nat
      <4>1. Len(leading) \in 0..Latest /\ EndOf(Len(leading)) <= position
        BY <2>1 DEF ReaderInPlace, InStep, BytesSound, ReturnsSound
      <4>2. position \in Int
        BY DEF position, BytesSound, ReturnsSound
      <4> QED
        BY <4>1, <4>2, LayoutIs
    <3>3. PICK at \in Nat : at = position
      BY <3>2
    <3>4. \A q \in 1..Len(buffer_) : buffer_[q] \in ByteAt(at + q)'
      BY <2>1, <3>1, <3>3 DEF ReaderInPlace
    <3>5. \A q : ByteAt(position + q)' = ByteAt(at + q)'
      BY <1>2, <3>3 DEF ByteAt
    <3> QED
      BY <3>4, <3>5
  <2>3. InStep'
    <3>1. PICK k \in 0..Latest : k = Len(leading)
      BY <2>1 DEF ReaderInPlace, InStep, BytesSound, ReturnsSound
    <3>2. /\ AllWhole(k) /\ EndOf(k) <= position
          /\ \/ position <= NextStart(EndOf(k))
             \/ k = Latest /\ Gone /\ Len(log) <= position
      BY <2>1, <3>1 DEF ReaderInPlace, InStep
    <3>3. PlacesKept /\ Latest <= Latest' /\ Latest' \in Nat /\ Latest \in Nat
      BY LayoutIs, StartsStay, PlacesStay DEF Layout
    <3>4. AllWhole(k)' /\ EndOf(k)' = EndOf(k) /\ NextStart(EndOf(k))' = NextStart(EndOf(k))
      BY <3>2, <3>3 DEF PlacesKept, NextStart
    <3>5. Gone => Gone' /\ Latest' = Latest /\ UNCHANGED log
      BY StartsStay DEF Latest
    <3>6. k = Len(leading') /\ k <= Latest'
      BY <1>1, <3>1, <3>3
    <3>7. /\ AllWhole(k)' /\ EndOf(k)' <= position'
          /\ \/ position' <= NextStart(EndOf(k))'
             \/ k = Latest' /\ Gone' /\ Len(log') <= position'
      BY <1>2, <3>2, <3>4, <3>5
    <3> QED
      BY <3>6, <3>7 DEF InStep
  <2>4. InBlock(position)' = InBlock(position) /\ InBlock(fpos)' = InBlock(fpos)
    BY <1>1, <1>2 DEF InBlock
  <2> QED
    BY <1>1, <1>2, <2>1, <2>2, <2>3, <2>4 DEF ReaderInPlace, SkipsAtFirst
<1> QED
  BY <1>1, <1>3, <1>4 DEF Following

(* A call that begins leaves the reader where it is, or fails.             *)
LEMMA CallKeepsPlace ==
  ASSUME BytesSound, Following, CallRead(onFile = Len(log)) \/ KeepReading,
         UNCHANGED dvars
  PROVE  Following'
<1>1. /\ UNCHANGED <<leading, added, starts, log, damaged, buffer_, eof_, read_error_,
                     initial_offset_, last_record_offset_, recycle_log_files_, wpc, wvars>>
      /\ SkipFails \/ ReadRecord
      /\ stopped => stopped'
  <2>1. UNCHANGED <<leading, wvars, starts>> /\ (SkipFails \/ ReadRecord)
    BY Zenon DEF CallRead, KeepReading, hvars
  <2>2. UNCHANGED <<buffer_, eof_, read_error_, initial_offset_, last_record_offset_>>
    BY <2>1 DEF SkipFails, ReadRecord
  <2>3. stopped => stopped'
    BY Zenon DEF CallRead, KeepReading, hvars
  <2> QED
    BY <2>1, <2>2, <2>3 DEF dvars, wvars
<1>2. ASSUME ~stopped' PROVE ReaderInPlace'
  <2>1. ~stopped /\ ReaderInPlace
    BY <1>1, <1>2 DEF Following
  <2>2. ReadRecord
    <3>1. SkipFails => KeepReading
      BY <1>2 DEF SkipFails, Return, CallRead
    <3>2. KeepReading => ~SkipFails
      BY <2>1 DEF KeepReading, SkipFails, ReaderInPlace, SkipsAtFirst
    <3> QED
      BY <1>1, <3>1, <3>2
  <2>3. UNCHANGED <<fpos, block_start_location, position>>
    BY <1>1, <2>2 DEF ReadRecord, block_start_location, position
  <2>4. reads = 0 => ~(block_start_location > 0)
    <3> SUFFICES ASSUME reads = 0 PROVE ~(block_start_location > 0)
      OBVIOUS
    <3>1. CASE SkipsNow
      BY <2>2, <3>1 DEF ReadRecord
    <3>2. CASE ~SkipsNow
      <4>1. initial_offset_ = 0
        BY <2>1, <3>2 DEF SkipsNow, ReaderInPlace, SkipsAtFirst, BytesSound, ReturnsSound
      <4>2. 0 % kBlockSize = 0
        BY Sizes
      <4> QED
        BY <4>1, <4>2, Sizes DEF block_start_location
    <3> QED
      BY <3>1, <3>2
  <2>5. reads' = reads + 1 \/ (UNCHANGED reads /\ reads > 0)
    BY DEF CallRead, KeepReading, hvars
  <2>6. SkipsAtFirst'
    BY <2>1, <2>3, <2>4, <2>5 DEF ReaderInPlace, SkipsAtFirst
  <2>7. InStep'
    BY <1>1, <2>1, <2>3 DEF ReaderInPlace, InStep, Latest, AllWhole, Whole, InBlock, header_size, EndOf,
       NextStart, Gone
  <2>8. UNCHANGED <<InBlock(position), InBlock(fpos)>> /\ \A q : ByteAt(position + q)' = ByteAt(position + q)
    BY <1>1, <2>3 DEF InBlock, ByteAt
  <2> QED
    BY <1>1, <2>1, <2>3, <2>6, <2>7, <2>8 DEF ReaderInPlace
<1> QED
  BY <1>1, <1>2 DEF Following

(* Where the reader is, in numbers.                                        *)
LEMMA ReaderIs ==
  ASSUME BytesSound, Layout, ReaderInPlace
  PROVE  /\ buffer_ \in Seq(FileBytes) /\ Len(buffer_) \in Nat
         /\ fpos \in Nat /\ position \in Nat /\ fpos = position + Len(buffer_)
         /\ Len(leading) \in 0..Latest /\ Latest \in Nat
         /\ EndOf(Len(leading)) \in Nat /\ NextStart(EndOf(Len(leading))) \in Nat
         /\ InBlock(position) \in 0 .. kBlockSize - 1
         /\ InBlock(position) + Len(buffer_) <= kBlockSize
<1>1. buffer_ \in Seq(FileBytes) /\ fpos \in Nat /\ leading \in Seq(Seq(FileBytes))
  BY DEF BytesSound, ReturnsSound
<1>2. Latest \in Nat /\ Len(leading) \in 0..Latest /\ EndOf(Len(leading)) <= position
  BY <1>1, LayoutIs DEF ReaderInPlace, InStep
<1>3. EndOf(Len(leading)) \in Nat
  BY <1>2, LayoutIs
<1>4. position \in Nat
  BY <1>1, <1>2, <1>3 DEF position
<1>5. InBlock(position) \in 0 .. kBlockSize - 1 /\ NextStart(EndOf(Len(leading))) \in Nat
  BY <1>3, <1>4, InBlockIs, NextStartIs
<1>6. InBlock(position) + Len(buffer_) <= kBlockSize
  BY DEF ReaderInPlace
<1>7. fpos = position + Len(buffer_)
  BY <1>1 DEF position
<1> QED
  BY <1>1, <1>2, <1>3, <1>4, <1>5, <1>6, <1>7

(* A header that the writer computed can only be that of the next record,  *)
(* at the place where it starts.                                           *)
LEMMA NextHeader ==
  ASSUME BytesSound, Layout, ReaderInPlace, Written(kHeaderSize)
  PROVE  LET k == Len(leading)
         IN  /\ k + 1 \in 1..Latest /\ AllWhole(k)
             /\ starts[k + 1] = NextStart(EndOf(k)) /\ position = starts[k + 1]
             /\ buffer_[1].hdr = HeaderOf(k + 1)
<1> DEFINE k  == Len(leading)
           e  == EndOf(k)
           ns == NextStart(e)
<1>1. /\ k \in 0..Latest /\ Latest \in Nat /\ e \in Nat /\ ns \in Nat /\ position \in Nat
      /\ e <= ns /\ AllWhole(k) /\ e <= position
      /\ position <= ns \/ (k = Latest /\ Len(log) <= position)
  BY ReaderIs, NextStartIs DEF ReaderInPlace, InStep
<1>2. position + 1 <= Len(log) /\ log[position + 1] = buffer_[1] /\ buffer_[1].b = "head"
  <2>1. buffer_[1].b = "head" /\ 1 \in 1..Len(buffer_)
    BY Sizes, ReaderIs DEF Written
  <2>2. buffer_[1] \in ByteAt(position + 1)
    BY <2>1 DEF ReaderInPlace
  <2> QED
    BY <2>1, <2>2 DEF ByteAt, ZeroByte, JunkByte
<1>3. position = ns
  <2>1. position <= ns
    BY <1>1, <1>2, LayoutIs
  <2>2. ~(position < ns)
    <3> SUFFICES ASSUME position < ns PROVE FALSE
      OBVIOUS
    <3>1. position + 1 \in e + 1 .. ns
      BY <1>1
    <3>2. log[position + 1] = ZeroByte
      BY <1>1, <1>2, <3>1, LayoutIs DEF PlacedIn
    <3> QED
      BY <1>2, <3>2 DEF ZeroByte
  <2> QED
    BY <1>1, <2>1, <2>2
<1>4. k + 1 \in 1..Latest
  <2>1. k # Latest
    BY <1>1, <1>2, <1>3, LayoutIs DEF PlacedIn
  <2> QED
    BY <1>1, <2>1
<1>5. /\ starts[k + 1] = ns
      /\ log[position + 1] = HeadByte(HeaderOf(k + 1), 1)
  <2> HIDE DEF k
  <2>1. (k + 1) - 1 = k /\ 1 \in 1..header_size
    BY <1>1, HeaderSizeFits
  <2>2. /\ starts[k + 1] = ns
        /\ \A p \in 1..header_size :
             starts[k + 1] + p <= Len(log) => log[starts[k + 1] + p] = HeadByte(HeaderOf(k + 1), p)
    BY <1>1, <1>4, <2>1, LayoutIs DEF PlacedIn
  <2> QED
    BY <1>2, <1>3, <2>1, <2>2
<1> QED
  BY <1>1, <1>2, <1>3, <1>4, <1>5 DEF HeadByte

(* Where the type of a decoded header comes from.                          *)
LEMMA HeaderTypes ==
  ASSUME buffer_ \in Seq(FileBytes), NEW h \in Headers
  PROVE  /\ Written(kHeaderSize) => h.type = buffer_[1].hdr.type
         /\ ~Written(kHeaderSize) => h.type \in TypesFrom(buffer_[kHeaderSize])
<1>1. kHeaderSize <= Len(buffer_) /\ ~(Len(buffer_) < kHeaderSize)
  BY HeadersSound, Sizes
<1>2. CASE Written(kHeaderSize)
  <2>1. SubSeq(buffer_, 1, kHeaderSize) # Zeros(kHeaderSize)
    <3>1. SubSeq(buffer_, 1, kHeaderSize)[1] = buffer_[1] /\ Zeros(kHeaderSize)[1] = ZeroByte
      BY <1>1, Sizes DEF Zeros
    <3>2. buffer_[1].b = "head" /\ ZeroByte.b = "zero"
      BY <1>2 DEF Written, ZeroByte
    <3> QED
      BY <3>1, <3>2
  <2>2. \/ h \in Garbled({buffer_[1].hdr.type}, {buffer_[1].hdr.length})
        \/ h = buffer_[1].hdr
    BY <1>1, <1>2, <2>1 DEF Headers
  <2> QED
    BY <1>2, <2>2 DEF Garbled
<1>3. CASE ~Written(kHeaderSize)
  <2>1. CASE SubSeq(buffer_, 1, kHeaderSize) = Zeros(kHeaderSize)
    <3>1. h \in Garbled({kZeroType}, {0})
      BY <1>1, <1>3, <2>1 DEF Headers
    <3>2. buffer_[kHeaderSize] = ZeroByte
      <4>1. SubSeq(buffer_, 1, kHeaderSize)[kHeaderSize] = buffer_[kHeaderSize]
            /\ Zeros(kHeaderSize)[kHeaderSize] = ZeroByte
        BY <1>1, Sizes DEF Zeros
      <4> QED
        BY <2>1, <4>1
    <3>3. ~(ZeroByte.b = "head")
      BY DEF ZeroByte
    <3> QED
      BY <1>3, <3>1, <3>2, <3>3 DEF Garbled, TypesFrom
  <2>2. CASE SubSeq(buffer_, 1, kHeaderSize) # Zeros(kHeaderSize)
    <3>1. h \in Garbled(TypesFrom(buffer_[kHeaderSize]), 0 .. LengthModulus - 1)
      BY <1>1, <1>3, <2>2 DEF Headers
    <3> QED
      BY <1>3, <3>1 DEF Garbled
  <2> QED
    BY <2>1, <2>2
<1> QED
  BY <1>2, <1>3

(* In a log that is not recyclable a header that seems to need more bytes  *)
(* than a plain one is a damaged one, whose record is passed over.         *)
LEMMA NoLongHeader ==
  ASSUME BytesSound, Layout, FileInPlace, ReaderInPlace, NothingPassedOver, ~recycle_log_files_,
         position = NextStart(EndOf(Len(leading))), InBlock(position) + Len(buffer_) = kBlockSize,
         NEW h \in Headers, TooShort(h)
  PROVE  Len(leading) = Latest /\ Gone /\ Len(log) <= position
<1> DEFINE k    == Len(leading)
           byte == buffer_[kHeaderSize]
<1>1. /\ k \in 0..Latest /\ Latest \in Nat /\ position \in Nat /\ AllWhole(k)
      /\ kHeaderSize <= Len(buffer_) /\ Len(buffer_) \in Nat /\ buffer_ \in Seq(FileBytes)
      /\ h.type \in Nat /\ Len(log) \in Nat /\ header_size = kHeaderSize
  BY ReaderIs, HeadersSound, LayoutIs DEF ReaderInPlace, InStep, header_size
<1>2. Len(buffer_) < kRecyclableHeaderSize /\ h.type \in 5..8
  <2>1. IsRecyclable(h.type) /\ Len(buffer_) < kRecyclableHeaderSize
    BY <1>1, Sizes DEF TooShort, HeaderSizeOf
  <2> QED
    BY <1>1, <2>1, Types
<1>3. k < Latest => k + 1 \in 1..Latest /\ (k + 1) - 1 = k /\ position = starts[k + 1]
                    /\ \A p \in 1..kHeaderSize :
                         position + p <= Len(log) => log[position + p] = HeadByte(HeaderOf(k + 1), p)
  <2> SUFFICES ASSUME k < Latest
               PROVE  /\ k + 1 \in 1..Latest /\ (k + 1) - 1 = k /\ position = starts[k + 1]
                      /\ \A p \in 1..kHeaderSize :
                           position + p <= Len(log) => log[position + p] = HeadByte(HeaderOf(k + 1), p)
    OBVIOUS
  <2>1. k + 1 \in 1..Latest /\ (k + 1) - 1 = k
    BY <1>1
  <2>2. /\ starts[k + 1] = NextStart(EndOf(k))
        /\ \A p \in 1..header_size :
             starts[k + 1] + p <= Len(log) => log[starts[k + 1] + p] = HeadByte(HeaderOf(k + 1), p)
    <3> HIDE DEF k
    <3> QED
      BY <1>1, <2>1, LayoutIs DEF PlacedIn
  <2> QED
    BY <1>1, <2>1, <2>2
<1>4. k = Latest => Len(log) <= position
  BY <1>1, LayoutIs DEF PlacedIn
<1>5. \A i \in 1..Latest : HeaderOf(i).type \in 1..4
  <2> TAKE i \in 1..Latest
  <2>1. HeaderOf(i).type = RecordTypeOf(TRUE, Whole(i))
    BY DEF HeaderOf
  <2>2. Whole(i) \in BOOLEAN /\ recycle_log_files_ \in BOOLEAN
    BY LayoutIs, Sizes DEF Whole, WriterInv
  <2> QED
    BY <2>1, <2>2, TypeSound DEF WriterTypes
<1>6. ~Written(kHeaderSize)
  <2> SUFFICES ASSUME Written(kHeaderSize) PROVE FALSE
    OBVIOUS
  <2>1. h.type = buffer_[1].hdr.type /\ buffer_[1].hdr = HeaderOf(k + 1) /\ k + 1 \in 1..Latest
    BY <1>1, HeaderTypes, NextHeader
  <2> QED
    BY <1>2, <1>5, <2>1
<1>7. h.type \in TypesFrom(byte) /\ byte \in ByteAt(position + kHeaderSize)
  BY <1>1, <1>6, HeaderTypes, Sizes DEF ReaderInPlace
<1>8. byte # ZeroByte
  <2>1. TypesFrom(ZeroByte) = {0}
    BY DEF TypesFrom, kZeroType, ZeroByte
  <2> QED
    BY <1>2, <1>7, <2>1
<1>9. CASE position + kHeaderSize <= Len(log) /\ byte = log[position + kHeaderSize]
  <2>1. k < Latest
    BY <1>1, <1>4, <1>9, Sizes
  <2>2. byte = HeadByte(HeaderOf(k + 1), kHeaderSize) /\ k + 1 \in 1..Latest
    BY <1>3, <1>9, <2>1, Sizes
  <2>3. byte.b = "head" /\ byte.at = kHeaderSize /\ byte.hdr = HeaderOf(k + 1)
    BY <2>2 DEF HeadByte
  <2>4. h.type = HeaderOf(k + 1).type
    BY <1>7, <1>8, <2>3 DEF TypesFrom
  <2> QED
    BY <1>2, <1>5, <2>2, <2>4
<1>10. CASE damaged = position + kHeaderSize
  <2>1. Gone
    BY <1>1, <1>10, Sizes DEF FileInPlace, Gone
  <2>2. ~(k < Latest)
    <3> SUFFICES ASSUME k < Latest PROVE FALSE
      OBVIOUS
    <3>1. k + 1 \in DOMAIN starts /\ damaged = starts[k + 1] + kHeaderSize
      BY <1>3, <1>10, LayoutIs DEF Latest
    <3>2. kBlockSize - (starts[k + 1] % kBlockSize) < kRecyclableHeaderSize
      <4>1. position = starts[k + 1] /\ InBlock(position) \in Nat /\ kBlockSize \in Nat
        BY <1>3, ReaderIs, Sizes
      <4> QED
        BY <1>1, <1>2, <4>1 DEF InBlock
    <3> QED
      BY <3>1, <3>2 DEF PassedOver, NothingPassedOver
  <2> QED
    BY <1>1, <1>4, <2>1, <2>2
<1> QED
  BY <1>7, <1>8, <1>9, <1>10 DEF ByteAt

(* Reading the next block: what is left of the block before holds no       *)
(* record, so the reader is still between the same two.                    *)
LEMMA FetchKeepsStep ==
  ASSUME BytesSound, Layout, FileInPlace, ReaderInPlace, NothingPassedOver, ~recycle_log_files_,
         NeedsMore, ~eof_
  PROVE  LET k == Len(leading)
         IN  /\ EndOf(k) <= fpos
             /\ \/ fpos <= NextStart(EndOf(k))
                \/ k = Latest /\ Gone /\ Len(log) <= fpos
<1> DEFINE k  == Len(leading)
           e  == EndOf(k)
           ns == NextStart(e)
           n  == Len(buffer_)
<1>1. /\ e \in Nat /\ ns \in Nat /\ position \in Nat /\ n \in Nat /\ fpos = position + n
      /\ InBlock(position) \in 0 .. kBlockSize - 1 /\ InBlock(position) + n <= kBlockSize
      /\ InBlock(fpos) = 0 /\ kBlockSize \in Nat /\ Len(log) \in Nat
      /\ kHeaderSize \in Nat /\ kHeaderSize < kRecyclableHeaderSize /\ kRecyclableHeaderSize < kBlockSize
      /\ header_size = kHeaderSize
  BY ReaderIs, LayoutIs, Sizes DEF ReaderInPlace, header_size
<1>2. /\ e <= position
      /\ \/ position <= ns
         \/ k = Latest /\ Gone /\ Len(log) <= position
  BY DEF ReaderInPlace, InStep
<1>3. n < kHeaderSize \/ \E h \in Headers : TooShort(h)
  BY DEF NeedsMore
<1>4. n < kBlockSize
  <2>1. ASSUME NEW h \in Headers, TooShort(h) PROVE n < kBlockSize
    <3>1. HeaderSizeOf(h.type) \in {kHeaderSize, kRecyclableHeaderSize}
      BY DEF HeaderSizeOf
    <3>2. n < HeaderSizeOf(h.type) /\ n \in Nat
      BY <1>1, <2>1 DEF TooShort
    <3> HIDE DEF n
    <3> QED
      BY Sizes, <3>1, <3>2
  <2>2. n < kHeaderSize => n < kBlockSize
    <3>1. n \in Nat
      BY <1>1
    <3> HIDE DEF n
    <3> QED
      BY Sizes, <3>1
  <2> QED
    BY <1>3, <2>1, <2>2
<1> HIDE DEF n
<1>5. n = 0 \/ InBlock(position) + n = kBlockSize
  <2>1. InBlock(position) + n < kBlockSize => InBlock(position + n) = InBlock(position) + n
    BY <1>1, InBlockMoves
  <2> QED
    BY <1>1, <2>1
<1>6. CASE k = Latest /\ Gone /\ Len(log) <= position
  BY <1>1, <1>2, <1>6
<1>7. CASE position <= ns /\ n = 0
  BY <1>1, <1>2, <1>7
<1>8. CASE position <= ns /\ n # 0
  <2>0. InBlock(position) + n = kBlockSize
    BY <1>5, <1>8
  <2>1. CASE ns = e
    <3>1. position = ns
      BY <1>1, <1>2, <1>8, <2>1
    <3>2. InBlock(ns) + header_size <= kBlockSize
      BY <1>1, NextStartIs
    <3>3. \E h \in Headers : TooShort(h)
      BY <1>1, <1>3, <2>0, <3>1, <3>2
    <3>4. k = Latest /\ Gone /\ Len(log) <= position
      BY <2>0, <3>1, <3>3, NoLongHeader DEF n
    <3> QED
      BY <1>1, <1>2, <3>4
  <2>2. CASE ns # e
    <3>1. ns = e + kBlockSize - InBlock(e) /\ InBlock(ns) = 0 /\ InBlock(e) \in 0 .. kBlockSize - 1
      BY <1>1, <2>2, NextStartIs, InBlockIs
    <3>2. position # ns
      BY <1>1, <1>4, <2>0, <3>1
    <3>3. InBlock(position) = InBlock(e) + (position - e)
      <4>1. PICK d \in Nat : position = e + d
        <5>1. e \in Nat /\ position \in Nat /\ e <= position
          BY <1>1, <1>2
        <5>2. position - e \in Nat /\ position = e + (position - e)
          BY <5>1
        <5> QED
          BY <5>2
      <4>2. InBlock(e) + d < kBlockSize
        <5>1. /\ e \in Nat /\ kBlockSize \in Nat /\ ns = e + kBlockSize - InBlock(e)
              /\ InBlock(e) \in 0 .. kBlockSize - 1 /\ position <= ns /\ position # ns
          BY <1>1, <1>8, <3>1, <3>2
        <5> HIDE DEF ns, e
        <5> QED
          BY <4>1, <5>1
      <4>3. InBlock(e + d) = InBlock(e) + d
        BY <1>1, <4>2, InBlockMoves
      <4> QED
        BY <1>1, <4>1, <4>3
    <3>4. fpos = ns
      <4>1. PICK at \in Nat, p \in Nat, b \in Nat, i \in Nat, m \in Nat :
              at = e /\ p = position /\ b = kBlockSize /\ i = InBlock(e) /\ m = n
        <5>1. InBlock(e) \in Nat
          BY <1>1, <3>1
        <5>2. e \in Nat /\ position \in Nat /\ kBlockSize \in Nat /\ n \in Nat
          BY <1>1
        <5> HIDE DEF e, ns
        <5> QED
          BY <5>1, <5>2
      <4>2. i + (p - at) + m = b /\ ns = at + b - i /\ fpos = p + m
        BY <1>1, <2>0, <3>1, <3>3, <4>1
      <4> HIDE DEF e, ns
      <4> QED
        BY <4>1, <4>2
    <3>5. e <= ns
      BY <1>1, NextStartIs
    <3> QED
      BY <1>1, <3>4, <3>5
  <2> QED
    BY <2>1, <2>2
<1> QED
  BY <1>2, <1>6, <1>7, <1>8

LEMMA FetchKeepsPlace ==
  ASSUME BytesSound, Layout, FileInPlace, ReaderInPlace, NothingPassedOver, ~recycle_log_files_,
         Fetch(Chunk, FALSE), UNCHANGED <<wvars, dvars, starts, leading, reads>>
  PROVE  ReaderInPlace'
<1>1. /\ NeedsMore /\ ~eof_ /\ fpos' = fpos + Len(Chunk) /\ buffer_' = Chunk
      /\ eof_' = (Len(Chunk) < kBlockSize) /\ UNCHANGED <<read_error_, rpc, initial_offset_, last_record_offset_>>
  BY DEF Fetch, Refilled, AtEnd
<1>2. /\ fpos \in Nat /\ kBlockSize \in Nat /\ kBlockSize > 0 /\ InBlock(fpos) = 0 /\ file \in Seq(FileBytes)
  BY <1>1, ReaderIs, Sizes DEF ReaderInPlace, BytesSound
<1>3. /\ Len(Chunk) \in 0..kBlockSize
      /\ \A q \in 1..Len(Chunk) : fpos + q \in 1..Len(file) /\ Chunk[q] = file[fpos + q]
  <2>1. PICK m : m = IF fpos + kBlockSize < Len(file) THEN fpos + kBlockSize ELSE Len(file)
    OBVIOUS
  <2>2. m \in Nat /\ m <= fpos + kBlockSize /\ m <= Len(file) /\ Len(file) \in Nat
    BY <1>2, <2>1
  <2>3. Chunk = SubSeq(file, fpos + 1, m)
    BY <2>1 DEF Chunk, ReadAt
  <2>4. /\ Len(Chunk) = IF fpos < m THEN m - fpos ELSE 0
        /\ \A q \in 1..Len(Chunk) : Chunk[q] = file[fpos + q]
    BY <1>2, <2>2, <2>3, PieceIs
  <2> QED
    BY <1>2, <2>2, <2>4
<1>4. position' = fpos
  BY <1>1, <1>2, <1>3 DEF position
<1>5. UNCHANGED <<log, damaged, recycle_log_files_, added, wpc, starts>>
  BY DEF wvars, dvars
<1>6. \A q \in 1..Len(buffer_') : buffer_'[q] \in ByteAt(position + q)'
  <2>1. \A q \in 1..Len(Chunk) : Chunk[q] \in ByteAt(fpos + q)
    BY <1>3 DEF FileInPlace
  <2> QED
    BY <1>1, <1>4, <1>5, <2>1 DEF ByteAt
<1>7. InStep'
  <2>1. LET k == Len(leading)
        IN  /\ EndOf(k) <= fpos
            /\ \/ fpos <= NextStart(EndOf(k))
               \/ k = Latest /\ Gone /\ Len(log) <= fpos
    BY <1>1, FetchKeepsStep
  <2>2. Len(leading) <= Latest /\ AllWhole(Len(leading))
    BY DEF ReaderInPlace, InStep
  <2> QED
    BY <1>4, <1>5, <2>1, <2>2 DEF InStep, Latest, AllWhole, Whole, InBlock, header_size, EndOf,
       NextStart, Gone
<1>8. InBlock(position)' = 0 /\ (~eof_' => InBlock(fpos)' = 0)
  <2>1. InBlock(position)' = InBlock(fpos)
    BY <1>4 DEF InBlock
  <2>2. ~eof_' => Len(Chunk) = kBlockSize
    <3>1. ~eof_' => ~(Len(Chunk) < kBlockSize)
      BY Zenon, <1>1
    <3> QED
      BY <1>2, <1>3, <3>1
  <2>3. Len(Chunk) = kBlockSize => InBlock(fpos + Len(Chunk)) = 0
    BY <1>2, InBlockMoves
  <2> QED
    BY <1>1, <1>2, <2>1, <2>2, <2>3 DEF InBlock
<1>9. SkipsAtFirst'
  <2>1. block_start_location' = block_start_location
    BY <1>1 DEF block_start_location
  <2> QED
    BY <1>1, <2>1 DEF ReaderInPlace, SkipsAtFirst
<1> QED
  BY <1>1, <1>2, <1>3, <1>6, <1>7, <1>8, <1>9 DEF ReaderInPlace

(* What passes the checksum where the reader stands is the next record,    *)
(* whole: the last fragment of a record that was cut is never met.         *)
LEMMA NextRecord ==
  ASSUME BytesSound, Layout, ReaderInPlace, checksum_, NEW h \in Headers,
         FullRecord(h) \/ LastFragment(h)
  PROVE  LET k == Len(leading)
         IN  /\ k + 1 \in 1..Latest /\ AllWhole(k + 1) /\ FullRecord(h)
             /\ Fragment(h) = added[k + 1] /\ ~Overruns(h)
             /\ HeaderSizeOf(h.type) = header_size
             /\ EndOf(k + 1) = position + header_size + Len(added[k + 1])
<1> DEFINE k == Len(leading)
<1>0. /\ recycle_log_files_ \in BOOLEAN /\ buffer_ \in Seq(FileBytes)
      /\ ~Overruns(h) /\ ReaderCrc(h) = h.crc
  BY Sizes, LayoutIs, ReaderIs DEF FullRecord, LastFragment, Consumes, ChecksumFails, WriterInv
<1>1. /\ ~recycle_log_files_ /\ Written(kHeaderSize) /\ h = buffer_[1].hdr /\ h \in SoundHeaders
      /\ h.crc = WriterCrc(h.type, 0, Fragment(h))
  BY <1>0, ChecksumProtects
<1>2. /\ k + 1 \in 1..Latest /\ AllWhole(k) /\ position = starts[k + 1] /\ h = HeaderOf(k + 1)
      /\ k \in Nat
  BY <1>1, NextHeader, ReaderIs
<1>3. PICK i \in 1..Latest : i = k + 1
  BY <1>2
<1>4. /\ h = HeaderOf(i) /\ starts[i] = position /\ added[i] \in Seq(Data)
      /\ EndOf(i) = position + header_size + Len(added[i])
  BY <1>2, <1>3, LayoutIs DEF WriterInv
<1>5. h.type = RecordTypeOf(TRUE, Whole(i)) /\ h.crc = WriterCrc(h.type, FirstLength(i), added[i])
  BY <1>4 DEF HeaderOf
<1>6. Whole(i) /\ h.type = 1
  <2>1. h.type \in {1, 4, 5, 8}
    BY DEF FullRecord, LastFragment, kFullType, kRecyclableFullType, kLastType, kRecyclableLastType
  <2>2. Whole(i) \in BOOLEAN
    BY DEF Whole
  <2>3. h.type = IF Whole(i) THEN 1 ELSE 2
    BY <1>1, <1>5, <2>2 DEF RecordTypeOf, kFullType, kFirstType, kMiddleType, kLastType
  <2> QED
    BY <2>1, <2>3
<1>7. FullRecord(h)
  BY <1>6 DEF LastFragment, kLastType, kRecyclableLastType
<1>8. HeaderSizeOf(h.type) = header_size
  BY <1>1, <1>6, Types DEF HeaderSizeOf, header_size
<1>9. AllWhole(i)
  BY <1>2, <1>3, <1>6 DEF AllWhole
<1>10. Fragment(h) = added[i]
  <2>1. <<FieldByte(h.type)>> \o Fragment(h) = <<FieldByte(h.type)>> \o added[i]
    <3>1. /\ Fragment(h) \in Seq(FileBytes) /\ added[i] \in Seq(Data)
          /\ WriterCrc(h.type, 0, Fragment(h)) = <<FieldByte(h.type)>> \o Fragment(h)
          /\ WriterCrc(h.type, FirstLength(i), added[i]) = <<FieldByte(h.type)>> \o added[i]
      BY <1>0, <1>1, <1>4, FragmentIsBytes DEF WriterCrc
    <3> QED
      BY <1>1, <1>5, <3>1
  <2>2. PICK S : S = FileBytes \cup {FieldByte(h.type)}
    OBVIOUS
  <2>3. <<FieldByte(h.type)>> \in Seq(S) /\ Fragment(h) \in Seq(S) /\ added[i] \in Seq(S)
    <3>1. FileBytes \subseteq S /\ Data \subseteq S /\ FieldByte(h.type) \in S
      BY <2>2 DEF FileBytes
    <3>2. Fragment(h) \in Seq(FileBytes)
      BY <1>0, FragmentIsBytes
    <3>3. Seq(FileBytes) \subseteq Seq(S) /\ Seq(Data) \subseteq Seq(S)
      BY <3>1, SeqGrows
    <3> QED
      BY <1>4, <3>1, <3>2, <3>3
  <2> QED
    BY <2>1, <2>3, SameRest
<1> QED
  BY <1>0, <1>2, <1>3, <1>4, <1>7, <1>8, <1>9, <1>10

LEMMA RecordKeepsPlace ==
  ASSUME BytesSound, Layout, ReaderInPlace, checksum_, NEW h \in Headers, FullRecord(h),
         UNCHANGED <<wvars, dvars, starts, reads>>, leading' = Append(leading, record')
  PROVE  /\ ReaderInPlace'
         /\ Len(leading) + 1 <= Latest /\ record' = added[Len(leading) + 1]
<1>0. PICK k \in Nat : k = Len(leading) + 1 /\ Len(leading') = k
  BY ReaderIs DEF BytesSound, ReturnsSound
<1>1. /\ k \in 1..Latest /\ AllWhole(k) /\ ~Overruns(h)
      /\ Fragment(h) = added[k] /\ HeaderSizeOf(h.type) = header_size
      /\ EndOf(k) = position + header_size + Len(added[k])
  BY <1>0, NextRecord
<1>2. /\ record' = Fragment(h) /\ buffer_' = Rest(h) /\ rpc' = "idle"
      /\ UNCHANGED <<eof_, read_error_, initial_offset_, fpos, block_start_location>>
  BY DEF FullRecord, Consumes, Return, block_start_location
<1>s. PICK s : s = SizeOf(h)
  OBVIOUS
<1>3. /\ s = header_size + Len(added[k]) /\ s \in Nat /\ s <= Len(buffer_)
      /\ Len(buffer_) \in Nat /\ buffer_ \in Seq(FileBytes) /\ position \in Nat /\ Latest \in Nat
  <2>1. /\ h.length \in Nat /\ header_size \in Nat /\ buffer_ \in Seq(FileBytes)
        /\ Len(buffer_) \in Nat /\ position \in Nat /\ Latest \in Nat
    BY HeadersSound, HeaderSizeFits, ReaderIs
  <2>2. s = header_size + h.length /\ s <= Len(buffer_)
    BY <1>1, <1>s, <2>1 DEF SizeOf, Overruns
  <2>3. Len(Fragment(h)) = h.length
    <3>1. PICK z \in Nat, l \in Nat : z = header_size /\ l = h.length
      BY <2>1
    <3>2. Fragment(h) = SubSeq(buffer_, z + 1, s)
      BY <1>1, <1>s, <3>1 DEF Fragment
    <3>3. s = z + l /\ s \in Nat /\ s <= Len(buffer_)
      BY <2>2, <3>1
    <3>4. PICK x : x = buffer_ /\ x \in Seq(FileBytes) /\ s <= Len(x)
      BY <2>1, <3>3
    <3>5. Len(SubSeq(x, z + 1, s)) = IF z < s THEN s - z ELSE 0
      BY <3>3, <3>4, PieceIs
    <3>6. Len(Fragment(h)) = IF z < s THEN s - z ELSE 0
      BY <3>2, <3>4, <3>5
    <3> QED
      BY <3>1, <3>3, <3>6
  <2> QED
    BY <1>1, <2>1, <2>2, <2>3
<1>4. /\ Len(buffer_') = Len(buffer_) - s
      /\ \A q \in 1..Len(buffer_') : buffer_'[q] = buffer_[s + q]
  <2>1. buffer_' = SubSeq(buffer_, s + 1, Len(buffer_))
    BY <1>s, <1>2 DEF Rest
  <2>2. buffer_ \in Seq(FileBytes) /\ s \in Nat /\ s <= Len(buffer_)
    BY <1>3
  <2> QED
    BY <2>1, <2>2
<1>5. position' = position + s /\ position' = EndOf(k)
  <2>1. fpos \in Nat /\ fpos = position + Len(buffer_) /\ position' = fpos - Len(buffer_')
    BY <1>2, ReaderIs DEF position
  <2>2. position' = position + s
    BY <1>3, <1>4, <2>1
  <2>3. EndOf(k) = position + header_size + Len(added[k]) /\ s = header_size + Len(added[k])
        /\ Len(added[k]) \in Nat /\ header_size \in Nat /\ position \in Nat
    BY <1>1, <1>3, HeaderSizeFits, LayoutIs
  <2>4. EndOf(k) = position + s
    <3>1. PICK at \in Nat, size \in Nat, len \in Nat :
            at = position /\ size = header_size /\ len = Len(added[k])
      BY <2>3
    <3>2. EndOf(k) = at + size + len /\ s = size + len
      BY <2>3, <3>1
    <3>3. at + size + len = at + (size + len)
      OBVIOUS
    <3> QED
      BY <3>1, <3>2, <3>3
  <2> QED
    BY <2>2, <2>4
<1>6. UNCHANGED <<log, damaged, recycle_log_files_, added, wpc, starts>>
  BY DEF wvars, dvars
<1>7. InStep'
  <2>1. EndOf(k) \in Nat /\ EndOf(k) <= NextStart(EndOf(k))
    BY <1>1, LayoutIs, NextStartIs
  <2>2. EndOf(k)' = EndOf(k) /\ NextStart(EndOf(k))' = NextStart(EndOf(k)) /\ Latest' = Latest
        /\ (AllWhole(k)' <=> AllWhole(k))
    BY <1>6 DEF EndOf, NextStart, InBlock, header_size, Latest, AllWhole, Whole
  <2> QED
    BY <1>0, <1>1, <1>3, <1>5, <2>1, <2>2 DEF InStep
<1>8. \A q \in 1..Len(buffer_') : buffer_'[q] \in ByteAt(position + q)'
  <2>1. PICK at \in Nat : at = position /\ position' = at + s
    BY <1>3, <1>5
  <2>2. \A q \in 1..Len(buffer_') : buffer_'[q] \in ByteAt(at + s + q)
    <3> TAKE q \in 1..Len(buffer_')
    <3>1. s + q \in 1..Len(buffer_) /\ at + (s + q) = at + s + q
      <4>1. Len(buffer_') = Len(buffer_) - s /\ s \in Nat /\ Len(buffer_) \in Nat
        BY <1>3, <1>4
      <4> QED
        BY <2>1, <4>1
    <3>2. buffer_[s + q] \in ByteAt(at + (s + q))
      BY <2>1, <3>1 DEF ReaderInPlace
    <3> QED
      BY <1>4, <3>1, <3>2
  <2>3. \A q : ByteAt(position + q)' = ByteAt(at + s + q)
    BY <1>6, <2>1 DEF ByteAt
  <2> QED
    BY <2>2, <2>3
<1>9. InBlock(position)' + Len(buffer_') <= kBlockSize
  <2>1. PICK at \in Nat : at = position /\ position' = at + s
    BY <1>3, <1>5
  <2>2. InBlock(position)' = InBlock(at + s)
    BY <2>1 DEF InBlock
  <2>3. /\ InBlock(at) \in Nat /\ InBlock(at) + Len(buffer_) <= kBlockSize /\ kBlockSize \in Nat
        /\ InBlock(at) + s < kBlockSize => InBlock(at + s) = InBlock(at) + s
        /\ InBlock(at) + s = kBlockSize => InBlock(at + s) = 0
    <3>1. s \in Nat /\ at \in Nat
      BY <1>3, <2>1
    <3>2. InBlock(at) \in Nat /\ InBlock(at) + Len(buffer_) <= kBlockSize /\ kBlockSize \in Nat
      BY <2>1, ReaderIs, Sizes
    <3> QED
      BY <3>1, <3>2, InBlockMoves
  <2>4. PICK there : there = InBlock(at + s)
    OBVIOUS
  <2>5. Len(buffer_') = Len(buffer_) - s /\ s \in Nat /\ Len(buffer_) \in Nat /\ s <= Len(buffer_)
    BY <1>3, <1>4
  <2>6. there + Len(buffer_') <= kBlockSize
    BY <2>3, <2>4, <2>5
  <2> QED
    BY <2>2, <2>4, <2>6
<1>10. InBlock(fpos)' = InBlock(fpos)
  BY <1>2 DEF InBlock
<1>11. SkipsAtFirst'
  BY <1>2 DEF ReaderInPlace, SkipsAtFirst, FullRecord, Consumes, Parses
<1>12. ~eof_' => InBlock(fpos)' = 0
  BY <1>2, <1>10 DEF ReaderInPlace
<1> QED
  BY <1>0, <1>1, <1>2, <1>3, <1>7, <1>8, <1>9, <1>11, <1>12 DEF ReaderInPlace

LEMMA ReadKeepsPlace ==
  ASSUME BytesSound, Layout, FileInPlace, NothingPassedOver, ~recycle_log_files_, checksum_,
         Following, Read, UNCHANGED dvars
  PROVE  Following'
<1>1. /\ UNCHANGED <<wvars, dvars, starts, reads, added>> /\ stopped' = (stopped \/ reply' = "nothing")
      /\ (reply' = "record" /\ ~stopped) \/ UNCHANGED leading
      /\ reply' = "record" /\ ~stopped => leading' = Append(leading, record')
  BY Zenon DEF Read, wvars
<1>2. /\ leading \in Seq(Seq(FileBytes)) /\ record' \in Seq(FileBytes) /\ added \in Seq(Seq(Data))
      /\ Latest \in Nat /\ Latest <= Len(added)
  <2>1. BytesSound'
    BY BytesStaySound DEF Next
  <2>2. FileBytes' = FileBytes
    BY <1>1, SameBytes DEF wvars
  <2> QED
    BY <2>1, <2>2, LayoutIs DEF BytesSound, ReturnsSound, WriterInv
<1>3. CASE stopped \/ reply' = "nothing"
  <2>1. stopped' /\ (UNCHANGED leading \/ (reply' = "record" /\ ~stopped))
    BY Zenon, <1>1, <1>3
  <2>2. UNCHANGED leading
    BY <1>3, <2>1
  <2> QED
    BY <1>1, <2>1, <2>2 DEF Following
<1>4. CASE ~stopped /\ reply' # "nothing"
  <2>1. ReaderInPlace
    BY <1>4 DEF Following
  <2>2. (\E h \in Headers : FullRecord(h) \/ LastFragment(h)) \/ Fetch(Chunk, FALSE)
    BY <1>4 DEF Read, ReaderStep, Serve, FetchFromFile, Exhausted, OldRecord, DropBlock,
       BelowInitialOffset, FirstOrMiddle, UnknownType, Return, Fetch
  <2>3. CASE Fetch(Chunk, FALSE)
    <3>1. reply' = "none"
      BY <1>4, <2>3 DEF Fetch, NeedsMore, BytesSound, ReturnsSound
    <3>2. UNCHANGED leading
      BY <1>1, <3>1
    <3>3. ReaderInPlace'
      BY <1>1, <2>1, <2>3, <3>2, FetchKeepsPlace
    <3> QED
      BY <1>1, <3>2, <3>3 DEF Following
  <2>4. CASE \E h \in Headers : FullRecord(h) \/ LastFragment(h)
    <3>1. PICK h \in Headers : FullRecord(h)
      BY <2>1, <2>4, NextRecord
    <3>2. leading' = Append(leading, record')
      BY <1>1, <1>4, <3>1 DEF FullRecord, Return
    <3>3. ReaderInPlace' /\ Len(leading) + 1 <= Latest /\ record' = added[Len(leading) + 1]
      BY <1>1, <2>1, <3>1, <3>2, RecordKeepsPlace
    <3>4. /\ Len(leading') = Len(leading) + 1 /\ Len(leading') <= Len(added)
          /\ \A i \in 1..Len(leading') : leading'[i] = added[i]
      BY <1>2, <3>2, <3>3 DEF Following
    <3> QED
      BY <1>1, <3>3, <3>4 DEF Following
  <2> QED
    BY <2>2, <2>3, <2>4
<1> QED
  BY <1>3, <1>4

LEMMA FollowingStays ==
  ASSUME BytesSound, Layout, Layout', FileInPlace, NothingPassedOver, ~recycle_log_files_, checksum_,
         Following, [Next \/ KeepReading]_vars
  PROVE  Following'
<1>0. AddedGrows
  BY AddedOnlyGrows
<1>1. CASE \/ Destination \/ Damage \/ UNCHANGED vars
           \/ (Write(Len(log)) \/ Crash) /\ UNCHANGED dvars
  <2>1. UNCHANGED <<rvars, hvars>>
    BY <1>1 DEF Destination, Damage, vars, Write, Crash, rvars, hvars
  <2> QED
    BY <1>0, <2>1, WriterLeavesReader
<1>2. CASE KeepReading \/ (CallRead(onFile = Len(log)) /\ UNCHANGED dvars)
  <2>1. UNCHANGED dvars
    BY <1>2 DEF KeepReading
  <2> QED
    BY <1>2, <2>1, CallKeepsPlace
<1>3. CASE Read /\ UNCHANGED dvars
  BY <1>3, ReadKeepsPlace
<1> QED
  BY <1>1, <1>2, <1>3 DEF Next

LEMMA PrefixInvStays ==
  ASSUME AppendsSucceed, BytesSound, PrefixInv, [Next \/ KeepReading]_vars
  PROVE  PrefixInv'
<1>1. Layout' /\ FileInPlace'
  BY LayoutStays, FileStays DEF PrefixInv
<1>2. UNCHANGED <<checksum_, recycle_log_files_>>
  BY AddedOnlyGrows DEF AddedGrows, Next, KeepReading, Destination, Damage, Write, Crash, CallRead, Read,
     rvars, vars
<1>3. NothingPassedOver' => NothingPassedOver
  BY PassedOverStays DEF PrefixInv
<1>4. ~recycle_log_files_' /\ checksum_' /\ NothingPassedOver' => Following'
  BY <1>1, <1>2, <1>3, FollowingStays DEF PrefixInv
<1> QED
  BY <1>1, <1>4 DEF PrefixInv

LEMMA PrefixInvAtFirst == Init => PrefixInv
<1> SUFFICES ASSUME Init PROVE PrefixInv
  OBVIOUS
<1>1. Layout /\ BytesSound
  BY LayoutAtFirst, BytesSoundAtFirst
<1>2. FileInPlace
  BY DEF FileInPlace, Init, Dest!StreamInit
<1>3. /\ leading = <<>> /\ reads = 0 /\ rpc = "idle" /\ last_record_offset_ = 0 /\ buffer_ = <<>>
      /\ fpos = 0 /\ starts = <<>> /\ read_error_ = FALSE /\ Len(added) \in Nat
  BY DEF Init, RecoveryInit, ReaderInit, WriterInit
<1>4. position = 0 /\ Latest = 0 /\ EndOf(0) = 0 /\ InBlock(0) = 0 /\ kBlockSize \in Nat
  <2>1. kBlockSize \in Nat /\ InBlock(0) = 0
    BY Sizes DEF InBlock
  <2>2. position = 0 /\ Latest = 0
    <3>1. buffer_ = <<>> /\ fpos = 0 /\ starts = <<>>
      BY <1>3
    <3>2. Len(buffer_) = 0 /\ Len(starts) = 0
      BY <3>1
    <3>3. PICK n : n = Len(buffer_) /\ n = 0
      BY <3>2
    <3>4. position = fpos - n
      BY <3>3 DEF position
    <3> QED
      BY <3>1, <3>2, <3>3, <3>4 DEF Latest
  <2>3. EndOf(0) = 0
    BY DEF EndOf
  <2> QED
    BY <2>1, <2>2, <2>3
<1>5. InStep
  <2>1. 0 <= NextStart(0)
    BY <1>4, NextStartIs
  <2> QED
    BY <1>3, <1>4, <2>1 DEF InStep, AllWhole
<1>6. Following
  BY <1>3, <1>4, <1>5 DEF Following, ReaderInPlace, SkipsAtFirst
<1> QED
  BY <1>1, <1>2, <1>6 DEF PrefixInv

LEMMA PrefixInvAlways ==
  ASSUME AppendsSucceed
  PROVE  /\ Spec => [](BytesSound /\ PrefixInv)
         /\ PersistentSpec => [](BytesSound /\ PrefixInv)
<1>1. Init => BytesSound /\ PrefixInv
  BY BytesSoundAtFirst, PrefixInvAtFirst
<1>2. BytesSound /\ PrefixInv /\ [Next \/ KeepReading]_vars => (BytesSound /\ PrefixInv)'
  BY BytesStaySound, PrefixInvStays
<1>3. Spec => [](BytesSound /\ PrefixInv)
  BY <1>1, <1>2, PTL DEF Spec
<1>4. PersistentSpec => [](BytesSound /\ PrefixInv)
  BY <1>1, <1>2, PTL DEF PersistentSpec
<1> QED
  BY <1>3, <1>4

LEMMA PrefixUnlessPassedOver ==
  ASSUME BytesSound, PrefixInv, checksum_, recycle_log_files_ \/ NothingPassedOver
  PROVE  RecoveredIsPrefix
<1>1. leading \in Seq(Seq(FileBytes)) /\ added \in Seq(Seq(Data)) /\ recycle_log_files_ \in BOOLEAN
  BY Sizes DEF BytesSound, ReturnsSound, AppendsSound, WriterInv
<1>2. CASE recycle_log_files_
  <2>1. Range(leading) = {}
    BY <1>2 DEF BytesSound, ReturnsSound, RecyclableRejected, Readable, Returned
  <2>2. leading = <<>>
    <3>1. leading # <<>> => 1 \in DOMAIN leading
      BY <1>1
    <3> QED
      BY <2>1, <3>1 DEF Range
  <2> QED
    BY <1>1, <2>2 DEF RecoveredIsPrefix, IsPrefix
<1>3. CASE ~recycle_log_files_
  BY <1>1, <1>3 DEF PrefixInv, Following, RecoveredIsPrefix, IsPrefix
<1> QED
  BY <1>2, <1>3

(* Recovery: as long as the destination takes what is appended, a caller   *)
(* that verifies checksums is given, up to the first call that returns     *)
(* false, exactly the first records that were added, whole and in order,   *)
(* however the reader's steps fall between the writer's, wherever the      *)
(* writer dies, whatever part of the log is on the file, whether or not it *)
(* could be flushed and closed, and also with a damaged byte, unless it    *)
(* makes the reader pass over a record.                                    *)
THEOREM PrefixRecovered ==
  AppendsSucceed =>
    /\ Spec => [](checksum_ /\ NothingPassedOver => RecoveredIsPrefix)
    /\ PersistentSpec => [](checksum_ /\ NothingPassedOver => RecoveredIsPrefix)
<1> SUFFICES ASSUME AppendsSucceed
             PROVE  /\ Spec => [](checksum_ /\ NothingPassedOver => RecoveredIsPrefix)
                    /\ PersistentSpec => [](checksum_ /\ NothingPassedOver => RecoveredIsPrefix)
  OBVIOUS
<1>1. BytesSound /\ PrefixInv => (checksum_ /\ NothingPassedOver => RecoveredIsPrefix)
  BY PrefixUnlessPassedOver
<1> QED
  BY <1>1, PrefixInvAlways, PTL

-----------------------------------------------------------------------------
(* The offset reported for the i-th record returned is in the trailer      *)
(* before it or where it starts.                                           *)
Located(i) == EndOf(i - 1) <= offsets[i] /\ offsets[i] <= starts[i]

(* What the reader reports as the offset of a record was taken when its    *)
(* call began, somewhere between the record before and where the reader is *)
(* now.  A reader that starts beyond offset 0 never returns a first record. *)
Counting ==
  /\ leading # <<>> => initial_offset_ = 0
  /\ end_of_buffer_offset_ = fpos
  /\ last_record_offset_ \in Nat
  /\ rpc = "idle" /\ leading = <<>> => reads = 0
  /\ reads = 0 => fpos = 0 /\ buffer_ = <<>>
  /\ rpc = "physical" =>
       \E e \in Nat : /\ EndOf(Len(leading)) <= e /\ e <= position
                      /\ physical_record_offset = e % OffsetModulus

OffsetsFollow ==
  /\ offsets \in Seq(Nat) /\ Len(offsets) = Len(leading) /\ Len(leading) <= Latest
  /\ Len(log) < OffsetModulus => \A i \in 1..Len(offsets) : Located(i)
  /\ ~stopped => Counting

OffsetsInv ==
  checksum_ =>
    /\ recycle_log_files_ => offsets = <<>>
    /\ ~recycle_log_files_ /\ NothingPassedOver => OffsetsFollow

(* The places of the records returned so far do not change.                *)
LEMMA LocatedStays ==
  ASSUME BytesSound, Layout, Layout', [Next \/ KeepReading]_vars,
         offsets \in Seq(Nat), Len(offsets) <= Latest
  PROVE  /\ Latest \in Nat /\ Latest' \in Nat /\ Latest <= Latest'
         /\ \A i \in 0..Latest : EndOf(i)' = EndOf(i)
         /\ \A i \in 1..Len(offsets) : EndOf(i - 1)' = EndOf(i - 1) /\ starts'[i] = starts[i]
<1>1. /\ Latest \in Nat /\ Latest' \in Nat /\ Latest <= Latest'
      /\ \A i \in 1..Latest : starts'[i] = starts[i]
  BY LayoutIs, StartsStay DEF Layout
<1>2. PlacesKept
  BY <1>1, LayoutIs, PlacesStay, AddedOnlyGrows
<1>3. \A i \in 0..Latest : EndOf(i)' = EndOf(i)
  BY <1>2 DEF PlacesKept
<1>4. \A i \in 1..Len(offsets) : i - 1 \in 0..Latest /\ i \in 1..Latest
  BY <1>1
<1> QED
  BY <1>1, <1>3, <1>4

(* What the writer and its destination do leaves the offsets as they are.  *)
LEMMA WriterLeavesOffsets ==
  ASSUME BytesSound, Layout, Layout', [Next \/ KeepReading]_vars, Following,
         UNCHANGED <<rvars, hvars>>, OffsetsFollow
  PROVE  OffsetsFollow'
<1>1. UNCHANGED <<offsets, leading, stopped, initial_offset_, end_of_buffer_offset_, fpos, reads,
                  last_record_offset_, rpc, buffer_, physical_record_offset>>
  BY DEF rvars, hvars
<1>2. offsets \in Seq(Nat) /\ Len(offsets) = Len(leading) /\ Len(leading) <= Latest
  BY DEF OffsetsFollow
<1>3. /\ Latest \in Nat /\ Latest' \in Nat /\ Latest <= Latest'
      /\ \A i \in 0..Latest : EndOf(i)' = EndOf(i)
      /\ \A i \in 1..Len(offsets) : EndOf(i - 1)' = EndOf(i - 1) /\ starts'[i] = starts[i]
  BY <1>2, LocatedStays
<1>4. Len(leading') <= Latest'
  BY <1>1, <1>2, <1>3
<1>5. ASSUME Len(log') < OffsetModulus PROVE \A i \in 1..Len(offsets') : Located(i)'
  <2>1. Len(log) < OffsetModulus
    BY <1>5, LogGrows, LogReaderAssumption
  <2>2. \A i \in 1..Len(offsets) : Located(i)
    BY <2>1 DEF OffsetsFollow
  <2> QED
    BY <1>1, <1>3, <2>2 DEF Located
<1>6. ASSUME ~stopped' PROVE Counting'
  <2>1. Counting
    BY <1>1, <1>6 DEF OffsetsFollow
  <2>2. Len(leading) \in 0..Latest
    BY <1>2, <1>3
  <2>3. EndOf(Len(leading))' = EndOf(Len(leading)) /\ position' = position
    BY <1>1, <1>3, <2>2 DEF position
  <2> QED
    BY <1>1, <2>1, <2>3 DEF Counting
<1> QED
  BY <1>1, <1>2, <1>4, <1>5, <1>6 DEF OffsetsFollow

(* A call takes the offset of its record from where the reader is.         *)
LEMMA CallTakesOffset ==
  ASSUME BytesSound, Layout, Following, Following', OffsetsFollow,
         CallRead(onFile = Len(log)) \/ KeepReading, UNCHANGED dvars
  PROVE  OffsetsFollow'
<1>1. /\ UNCHANGED <<leading, offsets, added, starts, log, recycle_log_files_>>
      /\ SkipFails \/ ReadRecord
      /\ stopped => stopped'
      /\ SkipFails /\ CallRead(onFile = Len(log)) => stopped'
  <2>1. UNCHANGED <<leading, offsets, wvars, starts>> /\ (SkipFails \/ ReadRecord)
    BY Zenon DEF CallRead, KeepReading, hvars
  <2>2. stopped => stopped'
    BY Zenon DEF CallRead, KeepReading, hvars
  <2>3. SkipFails /\ CallRead(onFile = Len(log)) => stopped'
    BY DEF CallRead, SkipFails, Return
  <2> QED
    BY <2>1, <2>2, <2>3 DEF dvars, wvars
<1>2. ASSUME ~stopped' PROVE Counting'
  <2>1. ~stopped /\ ReaderInPlace /\ Counting
    BY <1>1, <1>2 DEF Following, OffsetsFollow
  <2>2. ReadRecord
    <3>1. SkipFails => KeepReading
      BY <1>1, <1>2
    <3>2. KeepReading => ~SkipFails
      BY <2>1 DEF KeepReading, SkipFails, ReaderInPlace, SkipsAtFirst
    <3> QED
      BY <1>1, <3>1, <3>2
  <2>3. PICK n \in Nat, p \in Nat, f \in Nat : n = Len(buffer_) /\ p = position /\ f = fpos /\ f = p + n
    BY <2>1, ReaderIs
  <2>4. initial_offset_ \in Nat /\ rpc = "idle"
    BY <2>2 DEF ReadRecord, BytesSound, ReturnsSound
  <2>5. PICK end : /\ end = (IF SkipsNow THEN 0 ELSE end_of_buffer_offset_)
                   /\ end_of_buffer_offset_' = end
                   /\ physical_record_offset' = RecordOffset(end)
    BY <2>2 DEF ReadRecord
  <2>6. end = f
    <3>1. CASE initial_offset_ = 0
      <4>1. ~SkipsNow
        BY <2>1, <3>1 DEF SkipsNow, Counting
      <4> QED
        BY <2>1, <2>3, <2>5, <4>1 DEF Counting
    <3>2. CASE initial_offset_ # 0
      <4>1. f = 0
        BY <2>1, <2>3, <2>4, <3>2 DEF Counting
      <4> QED
        BY <2>1, <2>3, <2>5, <4>1 DEF Counting
    <3> QED
      BY <3>1, <3>2
  <2>7. physical_record_offset' = p % OffsetModulus
    <3>1. physical_record_offset' = (f - n) % OffsetModulus
      BY <2>3, <2>5, <2>6 DEF RecordOffset
    <3>2. f - n = p
      BY <2>3
    <3> QED
      BY <3>1, <3>2
  <2>8. UNCHANGED <<fpos, buffer_, initial_offset_, last_record_offset_>> /\ rpc' \in {"physical", "panicked"}
    BY <2>2 DEF ReadRecord
  <2>9. UNCHANGED position
    BY <2>8 DEF position
  <2>10. EndOf(Len(leading)) <= p
    BY <2>1, <2>3 DEF ReaderInPlace, InStep
  <2>11. EndOf(Len(leading))' = EndOf(Len(leading))
    BY <1>1 DEF EndOf, header_size
  <2>12. \E e \in Nat : /\ EndOf(Len(leading))' <= e /\ e <= position'
                        /\ physical_record_offset' = e % OffsetModulus
    BY <2>3, <2>7, <2>9, <2>10, <2>11
  <2>13. reads' # 0
    <3>1. reads \in Nat
      BY <2>1 DEF ReaderInPlace, SkipsAtFirst
    <3>2. reads' = reads + 1 \/ (UNCHANGED reads /\ reads > 0)
      BY DEF CallRead, KeepReading, hvars
    <3> QED
      BY <3>1, <3>2
  <2> QED
    BY <1>1, <2>1, <2>3, <2>5, <2>6, <2>8, <2>12, <2>13 DEF Counting
<1>3. Latest' = Latest /\ \A i : Located(i)' = Located(i)
  BY <1>1 DEF Latest, Located, EndOf, header_size
<1> QED
  BY <1>1, <1>2, <1>3 DEF OffsetsFollow

(* A block fetched while a call is served moves the reader forward only.   *)
LEMMA FetchKeepsCounting ==
  ASSUME BytesSound, Layout, ReaderInPlace, Counting, Fetch(Chunk, FALSE),
         UNCHANGED <<wvars, dvars, starts, leading, reads>>
  PROVE  Counting'
<1>1. /\ fpos' = fpos + Len(Chunk) /\ end_of_buffer_offset_' = end_of_buffer_offset_ + Len(Chunk)
      /\ buffer_' = Chunk /\ rpc = "physical"
      /\ UNCHANGED <<rpc, initial_offset_, last_record_offset_, physical_record_offset>>
  BY DEF Fetch, Refilled, EndAfter, NeedsMore
<1>2. /\ fpos \in Nat /\ position \in Nat /\ Len(buffer_) \in Nat /\ fpos = position + Len(buffer_)
  BY ReaderIs
<1>3. Len(Chunk) \in Nat
  <2>1. PICK m \in Int : Chunk = SubSeq(file, fpos + 1, m)
    <3>1. file \in Seq(FileBytes) /\ kBlockSize \in Nat
      BY Sizes DEF BytesSound
    <3>2. PICK m : m = IF fpos + kBlockSize < Len(file) THEN fpos + kBlockSize ELSE Len(file)
      OBVIOUS
    <3>3. m \in Int
      BY <1>2, <3>1, <3>2
    <3> QED
      BY <3>2, <3>3 DEF Chunk, ReadAt
  <2>2. file \in Seq(FileBytes)
    BY DEF BytesSound
  <2> QED
    BY <1>2, <2>1, <2>2
<1>4. position' = fpos /\ position <= fpos
  <2>1. position' = fpos' - Len(buffer_')
    BY DEF position
  <2> QED
    BY <1>1, <1>2, <1>3, <2>1
<1>5. EndOf(Len(leading))' = EndOf(Len(leading)) /\ reads # 0 /\ reads' = reads /\ leading' = leading
  <2>1. reads # 0
    BY <1>1 DEF ReaderInPlace, SkipsAtFirst
  <2> QED
    BY <2>1 DEF EndOf, header_size, wvars
<1>6. PICK e \in Nat : /\ EndOf(Len(leading)) <= e /\ e <= position
                       /\ physical_record_offset = e % OffsetModulus
  BY <1>1 DEF Counting
<1>7. e <= position'
  BY <1>2, <1>4, <1>6
<1>8. end_of_buffer_offset_' = fpos'
  BY <1>1 DEF Counting
<1>9. \E d \in Nat : /\ EndOf(Len(leading))' <= d /\ d <= position'
                     /\ physical_record_offset' = d % OffsetModulus
  BY <1>1, <1>5, <1>6, <1>7
<1> QED
  BY <1>1, <1>5, <1>8, <1>9 DEF Counting

(* The offset of the record just returned, and what it says of the reader. *)
LEMMA RecordIsLocated ==
  ASSUME BytesSound, Layout, ReaderInPlace, Counting, checksum_, NEW h \in Headers, FullRecord(h),
         UNCHANGED <<wvars, dvars, starts, reads>>, leading' = Append(leading, record')
  PROVE  /\ last_record_offset_' \in Nat
         /\ Len(log) < OffsetModulus =>
              /\ EndOf(Len(leading)) <= last_record_offset_'
              /\ last_record_offset_' <= starts[Len(leading) + 1]
         /\ Counting'
<1>0. PICK k \in Nat : k = Len(leading) /\ leading' # <<>> /\ Len(leading') = k + 1
  <2>1. PICK k \in Nat : k = Len(leading) /\ Len(leading') = k + 1
    BY ReaderIs DEF BytesSound, ReturnsSound
  <2>2. Len(<<>>) = 0 /\ k + 1 # 0
    OBVIOUS
  <2> QED
    BY <2>1, <2>2
<1>1. k + 1 \in 1..Latest /\ EndOf(k + 1) = position + header_size + Len(added[k + 1])
  BY <1>0, NextRecord
<1>2. rpc = "physical" /\ rpc' = "idle" /\ last_record_offset_' = physical_record_offset
      /\ UNCHANGED <<initial_offset_, fpos, end_of_buffer_offset_>> /\ ~StartsBelow(h)
  BY DEF FullRecord, Consumes, Parses, Return
<1>3. PICK e \in Nat : /\ EndOf(k) <= e /\ e <= position
                       /\ physical_record_offset = e % OffsetModulus
  BY <1>0, <1>2 DEF Counting
<1>4. /\ position \in Nat /\ position = starts[k + 1]
      /\ starts[k + 1] = NextStart(EndOf(k)) /\ starts[k + 1] <= Len(log) /\ Len(log) \in Nat
  <2>1. starts[k + 1] \in Nat /\ Len(added[k + 1]) \in Nat /\ header_size \in Nat /\ position \in Nat
        /\ Len(log) \in Nat
    BY <1>1, LayoutIs, HeaderSizeFits, ReaderIs
  <2>2. k + 1 # 0 /\ (k + 1) - 1 = k
    BY <1>0
  <2>3. EndOf(k + 1) = starts[k + 1] + header_size + Len(added[k + 1])
    BY <2>2 DEF EndOf
  <2>4. position = starts[k + 1]
    <3>1. PICK p \in Nat, s \in Nat, z \in Nat, n \in Nat :
            p = position /\ s = starts[k + 1] /\ z = header_size /\ n = Len(added[k + 1])
      BY <2>1
    <3>2. p + z + n = s + z + n
      BY <1>1, <2>3, <3>1
    <3>3. p = s
      BY <3>2
    <3> QED
      BY <3>1, <3>3
  <2>5. AllWhole(k)
    BY <1>0 DEF ReaderInPlace, InStep
  <2>6. starts[k + 1] = NextStart(EndOf(k)) /\ starts[k + 1] <= Len(log)
    BY <1>1, <2>2, <2>5, LayoutIs DEF PlacedIn
  <2> QED
    BY <2>1, <2>4, <2>6
<1>5. OffsetModulus \in Nat /\ OffsetModulus > 0
  BY LogReaderAssumption
<1>6. Len(log) < OffsetModulus => last_record_offset_' = e
  <2>1. Len(log) < OffsetModulus => e < OffsetModulus
    BY <1>3, <1>4, <1>5
  <2>2. e < OffsetModulus => e % OffsetModulus = e
    BY <1>3, <1>5
  <2> QED
    BY <1>2, <1>3, <2>1, <2>2
<1>7. last_record_offset_' \in Nat
  BY <1>2, <1>3, <1>5
<1>8. initial_offset_ = 0
  <2>1. CASE leading # <<>>
    BY <2>1 DEF Counting
  <2>2. CASE leading = <<>>
    <3>1. k = 0 /\ EndOf(0) = 0
      BY <1>0, <2>2 DEF EndOf
    <3>2. NextStart(0) = 0
      BY Sizes, HeaderSizeFits DEF NextStart, InBlock
    <3>3. position = 0
      BY <1>4, <3>1, <3>2
    <3>4. BufferStart = 0
      <4>1. end_of_buffer_offset_ - Len(buffer_) = position
        BY DEF Counting, position
      <4>2. BufferStart = 0 % OffsetModulus
        BY <3>3, <4>1 DEF BufferStart, RecordOffset
      <4> QED
        BY <1>5, <4>2
    <3>5. initial_offset_ \in Nat
      BY DEF BytesSound, ReturnsSound
    <3> QED
      BY <1>2, <3>4, <3>5 DEF StartsBelow
  <2> QED
    BY <2>1, <2>2
<1>9. reads' # 0
  BY <1>2 DEF ReaderInPlace, SkipsAtFirst
<1>10. Counting'
  BY <1>0, <1>2, <1>7, <1>8, <1>9 DEF Counting
<1> QED
  BY <1>0, <1>3, <1>4, <1>6, <1>7, <1>10

LEMMA ReadKeepsOffsets ==
  ASSUME BytesSound, Layout, FileInPlace, NothingPassedOver, ~recycle_log_files_, checksum_,
         Following, OffsetsFollow, Read, UNCHANGED dvars
  PROVE  OffsetsFollow'
<1>1. /\ UNCHANGED <<wvars, dvars, starts, reads, added, log>>
      /\ stopped' = (stopped \/ reply' = "nothing")
      /\ IF reply' = "record" /\ ~stopped
         THEN /\ leading' = Append(leading, record')
              /\ offsets' = Append(offsets, last_record_offset_')
         ELSE UNCHANGED <<leading, offsets>>
  BY Zenon DEF Read, wvars, dvars
<1>2. /\ offsets \in Seq(Nat) /\ Len(offsets) = Len(leading) /\ Len(leading) <= Latest
      /\ Len(leading) \in Nat /\ Latest \in Nat
  BY LayoutIs DEF OffsetsFollow, BytesSound, ReturnsSound
<1>3. Latest' = Latest /\ (\A i : EndOf(i)' = EndOf(i)) /\ starts' = starts /\ log' = log
  BY <1>1 DEF Latest, EndOf, header_size, wvars
<1>4. CASE stopped \/ reply' = "nothing"
  <2>1. stopped'
    BY Zenon, <1>1, <1>4
  <2>2. UNCHANGED <<leading, offsets>>
    <3>1. reply' = "nothing" => reply' # "record"
      OBVIOUS
    <3> QED
      BY <1>1, <1>4, <3>1
  <2> QED
    BY <1>3, <2>1, <2>2 DEF OffsetsFollow, Located
<1>5. CASE ~stopped /\ reply' # "nothing"
  <2>1. ReaderInPlace /\ Counting
    BY <1>5 DEF Following, OffsetsFollow
  <2>2. (\E h \in Headers : FullRecord(h) \/ LastFragment(h)) \/ Fetch(Chunk, FALSE)
    BY <1>5 DEF Read, ReaderStep, Serve, FetchFromFile, Exhausted, OldRecord, DropBlock,
       BelowInitialOffset, FirstOrMiddle, UnknownType, Return, Fetch
  <2>3. CASE Fetch(Chunk, FALSE)
    <3>1. reply' = "none"
      BY <1>5, <2>3 DEF Fetch, NeedsMore, BytesSound, ReturnsSound
    <3>2. UNCHANGED <<leading, offsets>>
      BY <1>1, <3>1
    <3>3. Counting'
      BY <1>1, <2>1, <2>3, <3>2, FetchKeepsCounting
    <3> QED
      BY <1>3, <3>2, <3>3 DEF OffsetsFollow, Located
  <2>4. CASE \E h \in Headers : FullRecord(h) \/ LastFragment(h)
    <3>1. PICK h \in Headers : FullRecord(h)
      BY <2>1, <2>4, NextRecord
    <3>2. leading' = Append(leading, record') /\ offsets' = Append(offsets, last_record_offset_')
      BY <1>1, <1>5, <3>1 DEF FullRecord, Return
    <3>k. PICK k \in Nat : k = Len(leading)
      BY <1>2
    <3>o. PICK o : o = last_record_offset_'
      OBVIOUS
    <3>4. /\ o \in Nat /\ Counting'
          /\ Len(log) < OffsetModulus => EndOf(k) <= o /\ o <= starts[k + 1]
      BY <1>1, <2>1, <3>1, <3>2, <3>k, <3>o, RecordIsLocated
    <3>5. Len(leading) + 1 <= Latest
      BY <1>1, <2>1, <3>1, <3>2, RecordKeepsPlace
    <3>6. Len(leading') = k + 1
      BY <3>2, <3>k DEF BytesSound, ReturnsSound
    <3>7. /\ offsets' \in Seq(Nat) /\ Len(offsets') = k + 1 /\ offsets'[k + 1] = o
          /\ \A i \in 1..k : offsets'[i] = offsets[i]
      BY <1>2, <3>2, <3>k, <3>o, <3>4
    <3>8. ASSUME Len(log) < OffsetModulus, NEW i \in 1..k + 1 PROVE Located(i)'
      <4>1. CASE i = k + 1
        <5>1. i - 1 = k
          BY <3>k, <4>1
        <5> QED
          BY <1>3, <3>4, <3>7, <3>8, <4>1, <5>1 DEF Located
      <4>2. CASE i # k + 1
        <5>1. i \in 1..k /\ i \in 1..Len(offsets)
          BY <1>2, <3>k, <4>2
        <5>2. Located(i)
          BY <3>8, <5>1 DEF OffsetsFollow
        <5> QED
          BY <1>3, <3>7, <5>1, <5>2 DEF Located
      <4> QED
        BY <4>1, <4>2
    <3> QED
      BY <1>3, <3>k, <3>4, <3>5, <3>6, <3>7, <3>8 DEF OffsetsFollow
  <2> QED
    BY <2>2, <2>3, <2>4
<1> QED
  BY <1>4, <1>5

LEMMA OffsetsFollowStays ==
  ASSUME BytesSound, Layout, Layout', FileInPlace, NothingPassedOver, ~recycle_log_files_, checksum_,
         Following, Following', OffsetsFollow, [Next \/ KeepReading]_vars
  PROVE  OffsetsFollow'
<1>1. CASE \/ Destination \/ Damage \/ UNCHANGED vars
           \/ (Write(Len(log)) \/ Crash) /\ UNCHANGED dvars
  <2>1. UNCHANGED <<rvars, hvars>>
    BY <1>1 DEF Destination, Damage, vars, Write, Crash, rvars, hvars
  <2> QED
    BY <2>1, WriterLeavesOffsets
<1>2. CASE KeepReading \/ (CallRead(onFile = Len(log)) /\ UNCHANGED dvars)
  <2>1. UNCHANGED dvars
    BY <1>2 DEF KeepReading
  <2> QED
    BY <1>2, <2>1, CallTakesOffset
<1>3. CASE Read /\ UNCHANGED dvars
  BY <1>3, ReadKeepsOffsets
<1> QED
  BY <1>1, <1>2, <1>3 DEF Next

(* A reader that verifies checksums returns no record of a recyclable log. *)
LEMMA NoOffsetsOfRecyclable ==
  ASSUME BytesSound, BytesSound', recycle_log_files_', checksum_', [Next \/ KeepReading]_vars,
         offsets = <<>>
  PROVE  offsets' = <<>>
<1>1. CASE Read
  <2>1. leading' = <<>>
    <3>1. Range(leading)' = {} /\ leading' \in Seq(Seq(FileBytes'))
      BY DEF BytesSound, ReturnsSound, RecyclableRejected, Readable, Returned
    <3>2. leading' # <<>> => 1 \in DOMAIN leading'
      BY <3>1
    <3> QED
      BY <3>1, <3>2 DEF Range
  <2>2. leading' # Append(leading, record')
    <3>1. leading \in Seq(Seq(FileBytes))
      BY DEF BytesSound, ReturnsSound
    <3>2. Len(Append(leading, record')) = Len(leading) + 1 /\ Len(leading) \in Nat
      BY <3>1
    <3> QED
      BY <2>1, <3>2
  <2> QED
    BY <1>1, <2>2 DEF Read
<1>2. CASE ~Read
  BY <1>2 DEF Next, KeepReading, Destination, Damage, Write, Crash, CallRead, hvars, vars
<1> QED
  BY <1>1, <1>2

LEMMA OffsetsInvStays ==
  ASSUME AppendsSucceed, BytesSound, PrefixInv, OffsetsInv, [Next \/ KeepReading]_vars
  PROVE  OffsetsInv'
<1>1. BytesSound' /\ PrefixInv'
  BY BytesStaySound, PrefixInvStays
<1>2. UNCHANGED <<checksum_, recycle_log_files_>>
  BY AddedOnlyGrows DEF AddedGrows, Next, KeepReading, Destination, Damage, Write, Crash, CallRead, Read,
     rvars, vars
<1>3. NothingPassedOver' => NothingPassedOver
  BY PassedOverStays DEF PrefixInv
<1>4. checksum_' /\ recycle_log_files_' => offsets' = <<>>
  BY <1>1, <1>2, NoOffsetsOfRecyclable DEF OffsetsInv
<1>5. checksum_' /\ ~recycle_log_files_' /\ NothingPassedOver' => OffsetsFollow'
  BY <1>1, <1>2, <1>3, OffsetsFollowStays DEF PrefixInv, OffsetsInv
<1> QED
  BY <1>4, <1>5 DEF OffsetsInv

LEMMA OffsetsInvAtFirst == Init => OffsetsInv
<1> SUFFICES ASSUME Init PROVE OffsetsInv
  OBVIOUS
<1>1. /\ leading = <<>> /\ offsets = <<>> /\ reads = 0 /\ rpc = "idle" /\ last_record_offset_ = 0
      /\ buffer_ = <<>> /\ fpos = 0 /\ end_of_buffer_offset_ = 0 /\ starts = <<>>
  BY DEF Init, RecoveryInit, ReaderInit
<1>2. Counting
  BY <1>1 DEF Counting
<1>3. Len(leading) = 0 /\ Len(offsets) = 0 /\ Latest = 0 /\ offsets \in Seq(Nat)
  BY <1>1 DEF Latest
<1> QED
  BY <1>1, <1>2, <1>3 DEF OffsetsInv, OffsetsFollow

(* The offset that the reader reports for each record it returns before    *)
(* the first false lies in the trailer before the record or where it       *)
(* starts, however the writer and the reader interleave, after a crash,    *)
(* with a damaged byte unless it makes the reader pass over a record, as   *)
(* long as the log is shorter than 2^64.  With an initial offset beyond 0  *)
(* no record comes before the first false.                                 *)
THEOREM OffsetsAreLocated ==
  AppendsSucceed =>
    /\ Spec => [](checksum_ /\ Len(log) < OffsetModulus => OffsetsLocate)
    /\ PersistentSpec => [](checksum_ /\ Len(log) < OffsetModulus => OffsetsLocate)
<1> SUFFICES ASSUME AppendsSucceed
             PROVE  /\ Spec => [](checksum_ /\ Len(log) < OffsetModulus => OffsetsLocate)
                    /\ PersistentSpec => [](checksum_ /\ Len(log) < OffsetModulus => OffsetsLocate)
  OBVIOUS
<1>1. Init => BytesSound /\ PrefixInv /\ OffsetsInv
  BY BytesSoundAtFirst, PrefixInvAtFirst, OffsetsInvAtFirst
<1>2. BytesSound /\ PrefixInv /\ OffsetsInv /\ [Next \/ KeepReading]_vars
        => (BytesSound /\ PrefixInv /\ OffsetsInv)'
  BY BytesStaySound, PrefixInvStays, OffsetsInvStays
<1>3. BytesSound /\ PrefixInv /\ OffsetsInv => (checksum_ /\ Len(log) < OffsetModulus => OffsetsLocate)
  <2> SUFFICES ASSUME BytesSound, PrefixInv, OffsetsInv, checksum_, Len(log) < OffsetModulus,
                      NothingPassedOver, NEW i \in DOMAIN offsets
               PROVE  /\ offsets[i] <= starts[i]
                      /\ i > 1 => offsets[i] >= starts[i - 1] + header_size + Len(added[i - 1])
    BY DEF OffsetsLocate, NothingPassedOver
  <2>1. offsets # <<>> /\ recycle_log_files_ \in BOOLEAN
    BY Sizes DEF BytesSound, AppendsSound, WriterInv
  <2>2. OffsetsFollow
    BY <2>1 DEF OffsetsInv
  <2>3. /\ offsets \in Seq(Nat) /\ Len(offsets) <= Latest /\ i \in 1..Len(offsets)
        /\ i \in Nat /\ Latest \in Nat
    BY <2>2, LayoutIs DEF OffsetsFollow, PrefixInv
  <2>4. Located(i)
    BY <2>2, <2>3 DEF OffsetsFollow
  <2>5. i > 1 => offsets[i] >= EndOf(i - 1)
    <3>1. i > 1 => i - 1 \in 0..Latest
      BY <2>3
    <3>2. \A j \in 0..Latest : EndOf(j) \in Nat
      BY LayoutIs DEF PrefixInv
    <3>3. offsets[i] \in Nat
      BY <2>3
    <3> QED
      BY <2>4, <3>1, <3>2, <3>3 DEF Located
  <2>6. i > 1 => EndOf(i - 1) = starts[i - 1] + header_size + Len(added[i - 1])
    BY <2>3 DEF EndOf
  <2> QED
    BY <2>4, <2>5, <2>6 DEF Located
<1>4. Spec => [](BytesSound /\ PrefixInv /\ OffsetsInv)
  BY <1>1, <1>2, PTL DEF Spec
<1>5. PersistentSpec => [](BytesSound /\ PrefixInv /\ OffsetsInv)
  BY <1>1, <1>2, PTL DEF PersistentSpec
<1> QED
  BY <1>3, <1>4, <1>5, PTL

-----------------------------------------------------------------------------
(* Nothing is lost of a log that was closed before it was read: what the   *)
(* payloads of the records are in the log, what closing it leaves behind,  *)
(* and what the file has of it.                                            *)
PayloadsInPlace ==
  \A i \in 1..Latest : AllWhole(i) =>
    \A p \in 1..Len(added[i]) :
      starts[i] + header_size + p <= Len(log) => log[starts[i] + header_size + p] = added[i][p]

ClosedWhole ==
  (wpc = "drop" \/ WriterClosed) /\ AllWhole(Latest) =>
    Latest = Len(added) /\ Len(log) = EndOf(Latest)

FileHoldsLog ==
  /\ onFile <= Len(file)
  /\ \A q \in 1..onFile : q # damaged => file[q] = log[q]

(* What the first call finds, and what it notes for later ones.            *)
FirstCall ==
  /\ reads \in Nat
  /\ reads = 0 => /\ rpc = "idle" /\ buffer_ = <<>> /\ ~eof_
                  /\ ~stopped /\ ~atRest
  /\ atRest => WriterClosed /\ onFile = Len(log)

(* The reader has what the file has, and all of it once it has seen its    *)
(* end; so it stops, if nothing is wrong with the file, only at the end.   *)
BufferIsFile ==
  atRest /\ damaged = 0 /\ ~stopped =>
    /\ \A q \in 1..Len(buffer_) : position + q <= Len(file) /\ buffer_[q] = file[position + q]
    /\ eof_ => Len(file) <= fpos

StopsAtEnd ==
  stopped /\ atRest /\ damaged = 0 /\ AllWhole(Latest) /\ ~read_error_ /\ initial_offset_ = 0 =>
    leading = added

RestInv ==
  /\ PayloadsInPlace /\ ClosedWhole /\ FileHoldsLog /\ FirstCall
  /\ checksum_ /\ ~recycle_log_files_ => BufferIsFile /\ StopsAtEnd

(* Payloads that are in place stay there when the log is as it was.        *)
LEMMA PayloadsAreKept ==
  ASSUME BytesSound, Layout, Layout', [Next \/ KeepReading]_vars, PayloadsInPlace,
         UNCHANGED log
  PROVE  PayloadsInPlace'
<1>0. AddedGrows /\ Latest \in Nat /\ Latest' \in Nat /\ Latest <= Latest'
      /\ \A i \in 1..Latest : starts'[i] = starts[i]
  BY LayoutIs, AddedOnlyGrows, StartsStay DEF Layout
<1>1. PlacesKept
  BY <1>0, LayoutIs, PlacesStay
<1>2. ASSUME NEW i \in 1..Latest', AllWhole(i)', NEW p \in 1..Len(added'[i]),
             starts'[i] + header_size' + p <= Len(log)
      PROVE  log[starts'[i] + header_size' + p] = added'[i][p]
  <2>1. CASE i \in 1..Latest
    <3>1. /\ AllWhole(i) /\ starts'[i] = starts[i] /\ header_size' = header_size
          /\ added'[i] = added[i]
      BY <1>0, <1>1, <1>2, <2>1, LayoutIs DEF PlacesKept, AddedGrows
    <3> QED
      BY <1>2, <2>1, <3>1 DEF PayloadsInPlace
  <2>2. CASE i \notin 1..Latest
    <3>1. starts' = Append(starts, Len(log)) /\ i = Latest + 1
      <4>1. starts' = starts \/ starts' = Append(starts, Len(log))
        BY DEF Next, KeepReading, vars, Destination, Damage, Write, Crash, CallRead, Read
      <4>2. starts \in Seq(Nat)
        BY LayoutIs
      <4>3. starts' = Append(starts, Len(log)) => Latest' = Latest + 1
        BY <4>2 DEF Latest
      <4> QED
        BY <1>0, <2>2, <4>1, <4>3 DEF Latest
    <3>2. starts'[i] = Len(log)
      BY <3>1, LayoutIs DEF Latest
    <3>3. header_size' \in Nat /\ p \in Nat /\ p > 0 /\ Len(log) \in Nat
      <4>1. header_size' = header_size
        BY <1>1 DEF PlacesKept
      <4> QED
        BY <4>1, HeaderSizeFits, LayoutIs
    <3> QED
      BY <1>2, <3>2, <3>3
  <2> QED
    BY <2>1, <2>2
<1> QED
  BY <1>2 DEF PayloadsInPlace

(* The payload of a whole record is appended right behind its header.      *)
LEMMA AppendedPayload ==
  ASSUME BytesSound, Layout, wpc \in {"trailer", "header", "payload"}, status = "pending",
         NEW i \in 1..Latest, AllWhole(i)
  PROVE  \/ EndOf(i) <= Len(log)
         \/ wpc = "header" /\ i = Latest /\ Len(log) = starts[i] /\ Len(call.data) = header_size
         \/ /\ wpc = "payload" /\ i = Latest /\ Len(log) = starts[i] + header_size
            /\ call.data = added[i]
<1>1. CASE i < Latest
  <2>1. EndOf(i) <= NextStart(EndOf(i)) /\ NextStart(EndOf(i)) <= Len(log)
    BY <1>1, LayoutIs, PlacesInOrder
  <2>2. EndOf(i) \in Nat /\ NextStart(EndOf(i)) \in Nat /\ Len(log) \in Nat
    BY LayoutIs, NextStartIs
  <2> QED
    BY <2>1, <2>2
<1>2. CASE i = Latest
  <2>1. BetweenRecords
    BY <1>2, LayoutIs DEF Stage, Gone
  <2>2. CASE wpc = "trailer"
    <3>1. Len(log) = EndOf(i) /\ EndOf(i) \in Nat
      BY <1>2, <2>1, <2>2, LayoutIs DEF BetweenRecords
    <3> QED
      BY <3>1
  <2>3. CASE wpc \in {"header", "payload"}
    <3>1. Emitting /\ begin
      BY <2>1, <2>3 DEF Emitting, BetweenRecords
    <3>2. AllWhole(Latest - 1)
      BY <1>2, LayoutIs DEF AllWhole
    <3>3. InFirstFragment /\ ptr = added[i]
      BY <1>2, <3>1, <3>2, FirstFragmentIs
    <3>4. wpc = "header" => Len(log) = starts[i] /\ Len(call.data) = header_size
      <4>1. wpc = "header" => Len(log) = starts[Latest] /\ call.data = HeaderBytes(HeaderOf(Latest), header_size)
        BY <3>3 DEF InFirstFragment
      <4>2. Len(HeaderBytes(HeaderOf(Latest), header_size)) = header_size
        BY HeaderSizeFits DEF HeaderBytes
      <4> QED
        BY <1>2, <4>1, <4>2
    <3>5. wpc = "payload" => Len(log) = starts[i] + header_size /\ call.data = added[i]
      BY <1>2, <3>3 DEF InFirstFragment
    <3> QED
      BY <1>2, <2>3, <3>4, <3>5
  <2> QED
    BY <2>2, <2>3
<1> QED
  BY <1>1, <1>2, LayoutIs

LEMMA PayloadsStay ==
  ASSUME AppendsSucceed, BytesSound, Layout, Layout', [Next \/ KeepReading]_vars, PayloadsInPlace
  PROVE  PayloadsInPlace'
<1>1. CASE UNCHANGED log
  BY <1>1, PayloadsAreKept
<1>2. CASE Destination /\ Dest!AppendReturns
  <2>1. /\ status = "pending" /\ call.op = "append" /\ log' = log \o call.data
        /\ UNCHANGED <<recycle_log_files_, added, starts, wpc>>
    <3>1. /\ status = "pending" /\ call.op = "append"
          /\ UNCHANGED <<recycle_log_files_, added, starts, wpc>>
          /\ \/ status' = "ok" /\ log' = log \o call.data
             \/ status' = "err"
      BY <1>2 DEF Destination, Dest!AppendReturns
    <3>2. status' # "pending" /\ ~Dest!WriteBack
      BY <3>1 DEF Dest!WriteBack
    <3>3. status' = "ok"
      BY <1>2, <3>1, <3>2 DEF Destination, AppendsSucceed
    <3> QED
      BY <3>1, <3>3
  <2>2. log \in Seq(FileBytes) /\ call.data \in Seq(FileBytes)
    BY DEF BytesSound, AppendsSound
  <2>3. /\ Len(log) \in Nat /\ Len(call.data) \in Nat /\ Len(log') = Len(log) + Len(call.data)
        /\ \A q \in 1..Len(log) : log'[q] = log[q]
        /\ \A q \in 1..Len(call.data) : log'[Len(log) + q] = call.data[q]
    BY <2>1, <2>2
  <2>4. wpc \in {"trailer", "header", "payload"}
    BY <2>1, LayoutIs DEF Stage, WriterInv, ControlPoints
  <2>5. Latest' = Latest /\ header_size' = header_size /\ \A i : AllWhole(i)' <=> AllWhole(i)
    BY <2>1 DEF Latest, header_size, AllWhole, Whole, InBlock
  <2>6. ASSUME NEW i \in 1..Latest, AllWhole(i), NEW p \in 1..Len(added[i]),
               starts[i] + header_size + p <= Len(log')
        PROVE  log'[starts[i] + header_size + p] = added[i][p]
    <3>1. PICK s \in Nat, z \in Nat, l \in Nat : s = starts[i] /\ z = header_size /\ l = Len(added[i])
      BY LayoutIs, HeaderSizeFits
    <3>2. EndOf(i) = s + z + l /\ p \in 1..l
      BY <3>1, LayoutIs
    <3>3. CASE s + z + p <= Len(log)
      <4>1. log[s + z + p] = added[i][p]
        BY <2>6, <3>1, <3>3 DEF PayloadsInPlace
      <4>2. s + z + p \in 1..Len(log)
        BY <3>2, <3>3, <2>3
      <4> QED
        BY <2>3, <3>1, <4>1, <4>2
    <3>4. CASE ~(s + z + p <= Len(log))
      <4>1. ~(EndOf(i) <= Len(log))
        BY <2>3, <3>2, <3>4
      <4>2. ~(Len(log) = s /\ Len(call.data) = z)
        <5> SUFFICES ASSUME Len(log) = s, Len(call.data) = z PROVE FALSE
          OBVIOUS
        <5>1. s + z + p <= s + z
          BY <2>3, <2>6, <3>1
        <5> QED
          BY <3>2, <5>1
      <4>3. Len(log) = s + z /\ call.data = added[i]
        BY <2>1, <2>4, <2>6, <3>1, <4>1, <4>2, AppendedPayload
      <4>4. log'[Len(log) + p] = call.data[p]
        BY <2>3, <3>1, <3>2, <4>3
      <4> QED
        BY <3>1, <4>3, <4>4
    <3> QED
      BY <3>3, <3>4
  <2> QED
    BY <2>1, <2>5, <2>6 DEF PayloadsInPlace
<1>3. CASE ~(Destination /\ Dest!AppendReturns)
  <2>1. UNCHANGED log
    BY <1>3 DEF Next, KeepReading, vars, Destination, Damage, dvars, Dest!StreamStep,
       Dest!FlushReturns, Dest!CloseReturns, Dest!WriteBack
  <2> QED
    BY <1>1, <2>1
<1> QED
  BY <1>2, <1>3

(* A writer that is closed between two records has written all of them.    *)
LEMMA ClosedStays ==
  ASSUME BytesSound, Layout, Layout', [Next \/ KeepReading]_vars, ClosedWhole
  PROVE  ClosedWhole'
<1> SUFFICES ASSUME wpc' = "drop" \/ WriterClosed', AllWhole(Latest)'
             PROVE  Latest' = Len(added') /\ Len(log') = EndOf(Latest)'
  BY DEF ClosedWhole
<1>1. CASE Write(Len(log)) /\ DropWriter /\ UNCHANGED dvars
  <2>1. UNCHANGED <<starts, log, added, recycle_log_files_>> /\ wpc = "idle"
    BY <1>1, LayoutIs DEF DropWriter, Write, dvars, WriterNext, Stage
  <2>2. AllWhole(Latest) /\ UNCHANGED <<Latest, EndOf(Latest)>>
    BY <2>1 DEF Latest, AllWhole, Whole, InBlock, header_size, EndOf
  <2>3. Latest = Len(added) /\ Len(log) = EndOf(Latest)
    BY <2>1, <2>2, LayoutIs DEF Stage, BetweenRecords, Gone
  <2> QED
    BY <2>1, <2>2, <2>3
<1>2. CASE ~(Write(Len(log)) /\ DropWriter /\ UNCHANGED dvars)
  <2>1. wpc = "drop" \/ WriterClosed
    <3>1. CASE Write(Len(log)) /\ UNCHANGED dvars
      <4>1. WriterNext /\ ~DropWriter
        BY <1>2, <3>1 DEF Write
      <4>2. DropReturns
        BY <4>1, LayoutIs DEF WriterNext, WriterStep, AddAnyRecord, AddRecord, FillTrailer,
           StartFragment, TrailerFilled, EmitHeader, TrailerFailed, HeaderAppended, FlushFragment,
           FinishFragment, WriterClosed
      <4> QED
        BY <4>2 DEF DropReturns
    <3>2. CASE Crash
      BY <3>2 DEF Crash, WriterClosed, NoCall
    <3>3. CASE UNCHANGED <<wpc, call>>
      BY <3>3 DEF WriterClosed
    <3> QED
      BY <3>1, <3>2, <3>3 DEF Next, Destination, Damage, CallRead, Read, KeepReading, vars, wvars,
         Dest!StreamStep, Dest!AppendReturns, Dest!FlushReturns, Dest!CloseReturns, Dest!WriteBack
  <2>2. Gone
    BY <2>1 DEF Gone, WriterClosed
  <2>3. UNCHANGED <<starts, log>>
    BY <2>2, StartsStay
  <2>4. UNCHANGED <<added, recycle_log_files_>>
    BY <2>2, LayoutIs DEF Gone, Next, Destination, Damage, CallRead, Read, KeepReading, vars, wvars,
       Crash, Write, WriterNext, WriterStep, AddAnyRecord, AddRecord, FillTrailer, StartFragment,
       TrailerFilled, EmitHeader, TrailerFailed, HeaderAppended, FlushFragment, FinishFragment,
       DropWriter, DropReturns
  <2>5. AllWhole(Latest) /\ UNCHANGED <<Latest, EndOf(Latest)>>
    BY <2>3, <2>4 DEF Latest, AllWhole, Whole, InBlock, header_size, EndOf
  <2> QED
    BY <2>1, <2>3, <2>4, <2>5 DEF ClosedWhole
<1> QED
  BY <1>1, <1>2

(* What is on the file stays there.                                        *)
LEMMA RewriteHoldsLog ==
  ASSUME BytesSound, NEW n, Dest!Rewrite(n), UNCHANGED log
  PROVE  onFile' <= Len(file') /\ \A q \in 1..onFile' : file'[q] = log'[q]
<1>1. PICK pad \in 0..MaxPad : file' = SubSeq(log, 1, n) \o Zeros(pad)
  BY DEF Dest!Rewrite, Dest!Zeros, Zeros, Dest!ZeroByte, ZeroByte
<1>2. n \in 0..Len(log) /\ log \in Seq(FileBytes) /\ onFile' = n
  BY RewriteSound DEF BytesSound
<1>3. PICK s \in Seq(FileBytes), z \in Seq(FileBytes) : s = SubSeq(log, 1, n) /\ z = Zeros(pad)
  <2>1. SubSeq(log, 1, n) \in Seq(FileBytes) /\ Zeros(pad) \in Seq(FileBytes)
    BY <1>2, ZerosSound, WalAssumption
  <2> QED
    BY <2>1
<1>4. Len(s) = n /\ \A q \in 1..n : s[q] = log[q]
  BY <1>2, <1>3
<1>5. /\ Len(file') = n + Len(z) /\ Len(z) \in Nat
      /\ \A q \in 1..n : file'[q] = s[q]
  BY <1>1, <1>3, <1>4
<1> QED
  BY <1>2, <1>4, <1>5

LEMMA FileKeepsLog ==
  ASSUME BytesSound, Layout, FileInPlace, [Next \/ KeepReading]_vars, FileHoldsLog
  PROVE  FileHoldsLog'
<1>1. /\ file \in Seq(FileBytes) /\ onFile \in 0..Len(log) /\ Len(log) \in Nat /\ Len(file) \in Nat
      /\ Len(log') \in Nat /\ Len(log) <= Len(log') /\ \A q \in 1..Len(log) : log'[q] = log[q]
  BY LogGrows DEF BytesSound
<1>2. CASE Damage
  <2>1. PICK i \in 1..Len(file) : damaged' = i /\ file' = [file EXCEPT ![i] = JunkByte]
    BY <1>2 DEF Damage
  <2>2. UNCHANGED <<log, onFile>> /\ damaged = 0 /\ Len(file') = Len(file)
    BY <1>1, <1>2, <2>1 DEF Damage
  <2>3. \A q \in 1..onFile : q # damaged' => file'[q] = log'[q]
    BY <1>1, <2>1, <2>2 DEF FileHoldsLog
  <2> QED
    BY <2>2, <2>3 DEF FileHoldsLog
<1>3. CASE ~Damage
  <2>1. /\ UNCHANGED damaged
        /\ \/ UNCHANGED <<file, onFile>>
           \/ UNCHANGED log /\ \E n : Dest!Rewrite(n)
           \/ UNCHANGED <<log, onFile>> /\ file' = Dest!TruncatedTo(file, Len(log))
    BY <1>3 DEF Next, KeepReading, vars, dvars, Destination, Write, Crash, CallRead, Read,
       Dest!StreamStep, Dest!AppendReturns, Dest!FlushReturns, Dest!CloseReturns, Dest!WriteBack
  <2>2. CASE UNCHANGED <<file, onFile>>
    <3>1. \A q \in 1..onFile : log'[q] = log[q]
      BY <1>1
    <3> QED
      BY <2>1, <2>2, <3>1 DEF FileHoldsLog
  <2>3. CASE UNCHANGED log /\ \E n : Dest!Rewrite(n)
    BY <2>3, RewriteHoldsLog DEF FileHoldsLog
  <2>4. CASE UNCHANGED <<log, onFile>> /\ file' = Dest!TruncatedTo(file, Len(log))
    <3>1. /\ Len(file') = Len(log)
          /\ \A q \in 1..Len(log) : q <= Len(file) => file'[q] = file[q]
      BY <1>1, <2>4 DEF Dest!TruncatedTo
    <3>2. \A q \in 1..onFile : q \in 1..Len(log) /\ q <= Len(file)
      BY <1>1 DEF FileHoldsLog
    <3> QED
      BY <1>1, <2>1, <2>4, <3>1, <3>2 DEF FileHoldsLog
  <2> QED
    BY <2>1, <2>2, <2>3, <2>4
<1> QED
  BY <1>2, <1>3

(* A writer that is gone, and its destination, do nothing more.            *)
LEMMA GoneForGood ==
  ASSUME BytesSound, Layout, [Next \/ KeepReading]_vars, wpc = "dropped"
  PROVE  /\ UNCHANGED <<wvars, starts, log, onFile, added, recycle_log_files_>>
         /\ UNCHANGED <<file, damaged>> \/ Damage
<1>1. wpc = "dropped" /\ status = "idle"
  BY LayoutIs DEF Stage
<1>2. ~(Destination /\ Dest!StreamStep) /\ ~Write(Len(log)) /\ ~Crash
  BY <1>1 DEF Destination, Dest!StreamStep, Dest!AppendReturns, Dest!FlushReturns, Dest!CloseReturns,
     Crash, Write, WriterNext, WriterStep, AddAnyRecord, AddRecord, FillTrailer, StartFragment,
     TrailerFilled, TrailerFailed, HeaderAppended, FlushFragment, FinishFragment, DropWriter, DropReturns
<1>3. ~Destination
  BY <1>1, <1>2 DEF Destination
<1>4. UNCHANGED <<wvars, starts, log, onFile>> /\ (UNCHANGED <<file, damaged>> \/ Damage)
  BY <1>2, <1>3 DEF Next, Damage, CallRead, Read, KeepReading, vars, dvars
<1> QED
  BY <1>4 DEF wvars

LEMMA ClosedForGood ==
  ASSUME BytesSound, Layout, [Next \/ KeepReading]_vars, WriterClosed
  PROVE  /\ WriterClosed'
         /\ UNCHANGED <<wvars, starts, log, onFile, added, recycle_log_files_>>
         /\ UNCHANGED file \/ Damage
BY GoneForGood DEF WriterClosed, wvars

LEMMA ReadIsServed == Read => rpc = "physical"
<1>1. ReaderStep => rpc = "physical"
  BY Zenon DEF ReaderStep, Exhausted, NeedsMore, Serve, OldRecord, DropBlock, BelowInitialOffset,
     FullRecord, FirstOrMiddle, LastFragment, UnknownType, Consumes, Parses
<1>2. FetchFromFile => rpc = "physical"
  BY DEF FetchFromFile, Fetch, NeedsMore
<1> QED
  BY <1>1, <1>2 DEF Read

LEMMA FirstCallStays ==
  ASSUME BytesSound, Layout, [Next \/ KeepReading]_vars, FirstCall
  PROVE  FirstCall'
<1>1. CASE CallRead(onFile = Len(log)) /\ UNCHANGED dvars
  <2>1. /\ reads' = reads + 1 /\ UNCHANGED <<wvars, log, onFile>>
        /\ atRest' = IF reads = 0 THEN WriterClosed /\ onFile = Len(log) ELSE atRest
    BY <1>1 DEF CallRead, dvars
  <2>2. WriterClosed' <=> WriterClosed
    BY <2>1 DEF WriterClosed, wvars
  <2>3. reads' \in Nat /\ reads' # 0
    BY <2>1 DEF FirstCall
  <2>4. atRest' => WriterClosed /\ onFile = Len(log)
    <3>1. CASE reads = 0
      BY Zenon, <2>1, <3>1
    <3>2. CASE reads # 0
      BY Zenon, <2>1, <3>2 DEF FirstCall
    <3> QED
      BY <3>1, <3>2
  <2> QED
    BY <2>1, <2>2, <2>3, <2>4 DEF FirstCall
<1>2. CASE KeepReading \/ (Read /\ UNCHANGED dvars)
  <2>1. UNCHANGED <<reads, atRest, wvars, log, onFile>>
    BY <1>2 DEF KeepReading, Read, dvars, hvars
  <2>2. reads # 0
    <3>1. CASE KeepReading
      BY <3>1 DEF KeepReading
    <3>2. CASE Read
      <4>1. rpc = "physical"
        BY <3>2, ReadIsServed
      <4> QED
        BY <4>1 DEF FirstCall
    <3> QED
      BY <1>2, <3>1, <3>2
  <2>3. WriterClosed' = WriterClosed
    BY <2>1 DEF WriterClosed, wvars
  <2> QED
    BY <2>1, <2>2, <2>3 DEF FirstCall
<1>3. CASE UNCHANGED <<rvars, hvars>>
  <2>1. atRest => WriterClosed' /\ UNCHANGED <<onFile, log>>
    BY ClosedForGood DEF FirstCall
  <2> QED
    BY <1>3, <2>1 DEF FirstCall, rvars, hvars
<1>4. Destination \/ Damage \/ Write(Len(log)) \/ Crash \/ UNCHANGED vars => UNCHANGED <<rvars, hvars>>
  BY DEF Destination, Damage, Write, Crash, vars
<1> QED
  BY <1>1, <1>2, <1>3, <1>4 DEF Next

(* A log that was closed between two records is on the file whole.         *)
Untouched == atRest /\ damaged = 0 /\ AllWhole(Latest)

LEMMA NextIsOnFile ==
  ASSUME BytesSound, Layout, ReaderInPlace, RestInv, Untouched, checksum_, ~recycle_log_files_,
         ~stopped, NEW k \in Nat, k = Len(leading), k < Latest
  PROVE  LET s   == starts[k + 1]
             len == Len(added[k + 1])
         IN  /\ k + 1 \in 1..Latest /\ s = NextStart(EndOf(k)) /\ s \in Nat /\ len \in Nat
             /\ EndOf(k) \in Nat /\ EndOf(k) <= position /\ position <= s
             /\ InBlock(s) + kHeaderSize + len <= kBlockSize
             /\ s + kHeaderSize + len <= Len(log) /\ Len(log) <= Len(file)
             /\ Latest = Len(added)
             /\ \A q \in 1..Len(log) : file[q] = log[q]
<1> DEFINE s   == starts[k + 1]
           len == Len(added[k + 1])
<1>1. Latest = Len(added) /\ Len(log) = EndOf(Latest) /\ onFile = Len(log)
      /\ onFile <= Len(file) /\ \A q \in 1..onFile : file[q] = log[q]
  BY DEF RestInv, FirstCall, ClosedWhole, FileHoldsLog, Untouched
<1>2. /\ k + 1 \in 1..Latest /\ (k + 1) - 1 = k /\ k \in 0..Latest
      /\ s \in Nat /\ len \in Nat /\ EndOf(k) \in Nat /\ EndOf(k + 1) \in Nat /\ Len(log) \in Nat
      /\ EndOf(k + 1) = s + header_size + len /\ header_size = kHeaderSize
      /\ AllWhole(k) /\ AllWhole(k + 1) /\ Whole(k + 1)
  <2>1. Latest \in Nat
    BY LayoutIs
  <2>2. k + 1 \in 1..Latest /\ (k + 1) - 1 = k /\ k \in 0..Latest
    BY <2>1
  <2>3. AllWhole(k) /\ AllWhole(k + 1) /\ Whole(k + 1)
    BY <2>1, <2>2 DEF AllWhole, Untouched
  <2> QED
    BY <2>2, <2>3, LayoutIs DEF header_size
<1>3. EndOf(k + 1) <= Len(log)
  <2>1. CASE k + 1 = Latest
    BY <1>1, <1>2, <2>1
  <2>2. CASE k + 1 < Latest
    <3>1. EndOf(k + 1) <= NextStart(EndOf(k + 1)) /\ NextStart(EndOf(k + 1)) <= Len(log)
      BY <1>2, <2>2, LayoutIs, PlacesInOrder
    <3>2. NextStart(EndOf(k + 1)) \in Nat
      BY <1>2, NextStartIs
    <3> QED
      BY <1>2, <3>1, <3>2
  <2>3. k + 1 = Latest \/ k + 1 < Latest
    <3>1. Latest \in Nat
      BY LayoutIs
    <3> QED
      BY <3>1
  <2> QED
    BY <2>1, <2>2, <2>3
<1>4. s = NextStart(EndOf(k))
  BY <1>2, LayoutIs DEF PlacedIn
<1>5. EndOf(k) <= position /\ position <= s
  BY <1>2, <1>4 DEF ReaderInPlace, InStep
<1>6. InBlock(s) + kHeaderSize + len <= kBlockSize
  BY <1>2 DEF Whole
<1> QED
  BY <1>1, <1>2, <1>3, <1>4, <1>5, <1>6

(* As long as a record is left, what the reader has buffered is too short  *)
(* for a header in front of the end of a block, or begins with the record; *)
(* and it has not met the end of the file before.                          *)
LEMMA NextIsBuffered ==
  ASSUME BytesSound, Layout, ReaderInPlace, RestInv, Untouched, checksum_, ~recycle_log_files_,
         ~stopped, NEW k \in Nat, k = Len(leading), k < Latest
  PROVE  /\ eof_ => kHeaderSize <= Len(buffer_)
         /\ kHeaderSize <= Len(buffer_) =>
              /\ position = starts[k + 1]
              /\ kHeaderSize + Len(added[k + 1]) <= Len(buffer_)
<1> DEFINE e   == EndOf(k)
           ns  == NextStart(e)
<1>1. PICK s \in Nat, len \in Nat, p \in Nat, n \in Nat, f \in Nat :
        /\ s = starts[k + 1] /\ len = Len(added[k + 1]) /\ p = position /\ n = Len(buffer_) /\ f = fpos
  BY NextIsOnFile, ReaderIs
<1>2. /\ f = p + n /\ InBlock(p) \in 0 .. kBlockSize - 1 /\ InBlock(p) + n <= kBlockSize
      /\ e \in Nat /\ e <= p /\ p <= s /\ s = ns
      /\ InBlock(s) + kHeaderSize + len <= kBlockSize
      /\ s + kHeaderSize + len <= Len(file)
      /\ kBlockSize \in Nat /\ kHeaderSize \in Nat /\ 0 < kHeaderSize /\ Len(file) \in Nat
      /\ header_size = kHeaderSize
  <2>1. /\ s = ns /\ e \in Nat /\ e <= p /\ p <= s
        /\ InBlock(s) + kHeaderSize + len <= kBlockSize
        /\ s + kHeaderSize + len <= Len(log) /\ Len(log) <= Len(file)
    BY <1>1, NextIsOnFile
  <2>2. f = p + n /\ InBlock(p) \in 0 .. kBlockSize - 1 /\ InBlock(p) + n <= kBlockSize
    BY <1>1, ReaderIs
  <2>3. Len(file) \in Nat /\ Len(log) \in Nat
    BY LayoutIs DEF BytesSound
  <2>4. s + kHeaderSize + len <= Len(file)
    <3>1. PICK z \in Nat : z = kHeaderSize
      BY Sizes
    <3>2. s + z + len <= Len(log) /\ Len(log) <= Len(file)
      BY <2>1, <3>1
    <3>3. s + z + len <= Len(file)
      BY <2>3, <3>2
    <3> QED
      BY <3>1, <3>3
  <2> QED
    BY <2>1, <2>2, <2>3, <2>4, Sizes DEF header_size
<1>3. ASSUME eof_ PROVE kHeaderSize + len <= n
  <2>1. PICK l \in Nat, z \in Nat : l = Len(file) /\ z = kHeaderSize
    BY <1>2
  <2>2. l <= f
    BY <1>1, <1>3, <2>1 DEF RestInv, BufferIsFile, Untouched
  <2>3. f = p + n /\ p <= s /\ s + z + len <= l
    BY <1>2, <2>1
  <2>4. z + len <= n
    BY <2>2, <2>3
  <2> QED
    BY <2>1, <2>4
<1>4. ASSUME kHeaderSize <= n PROVE p = s
  <2>1. CASE ns = e
    <3> HIDE DEF e, ns
    <3> QED
      BY <1>1, <1>2, <2>1
  <2>2. CASE ns # e
    <3>0. PICK at \in Nat : at = e
      BY <1>2
    <3>f. InBlock(at) \in 0 .. kBlockSize - 1
      BY InBlockIs
    <3>g. InBlock(at) \in Nat /\ InBlock(at) < kBlockSize
      BY <1>2, <3>f
    <3>1. PICK b \in Nat, i \in Nat, z \in Nat :
            b = kBlockSize /\ i = InBlock(at) /\ z = kHeaderSize
      BY <1>2, <3>g
    <3>2. s = at + b - i /\ i < b /\ ~(i + z <= b) /\ at <= p /\ p <= s /\ InBlock(p) + n <= b
      <4>1. s = e + kBlockSize - InBlock(e) /\ ~(InBlock(e) + header_size <= kBlockSize)
        BY <1>2, <2>2 DEF NextStart
      <4> HIDE DEF e, ns
      <4> QED
        BY <1>2, <3>0, <3>g, <3>1, <4>1
    <3>3. PICK d \in Nat : p = at + d
      <4>1. p - at \in Nat /\ p = at + (p - at)
        BY <3>2
      <4> QED
        BY <4>1
    <3> SUFFICES ASSUME p # s PROVE FALSE
      OBVIOUS
    <3>4. i + d < b
      BY <3>2, <3>3
    <3>5. InBlock(at + d) = i + d
      <4>1. InBlock(at) = i /\ InBlock(at) + d < kBlockSize
        BY <3>1, <3>4
      <4> QED
        BY <4>1, InBlockMoves
    <3>6. i + d + n <= b /\ z <= n
      BY <1>4, <3>0, <3>1, <3>2, <3>3, <3>5
    <3> QED
      BY <3>2, <3>6
  <2> QED
    BY <2>1, <2>2
<1>5. ASSUME kHeaderSize <= n, ~eof_ PROVE kHeaderSize + len <= n
  <2>1. InBlock(p + n) = 0
    BY <1>1, <1>2, <1>5 DEF ReaderInPlace
  <2>2. InBlock(p) + n = kBlockSize
    <3>1. InBlock(p) + n < kBlockSize => InBlock(p + n) = InBlock(p) + n
      BY <1>1, InBlockMoves
    <3> HIDE DEF e, ns
    <3> QED
      BY <1>1, <1>2, <1>5, <2>1, <3>1
  <2>3. p = s
    BY <1>4, <1>5
  <2> HIDE DEF e, ns
  <2> QED
    BY <1>1, <1>2, <2>2, <2>3
<1>6. eof_ => kHeaderSize <= n
  <2> HIDE DEF e, ns
  <2> QED
    BY <1>1, <1>2, <1>3
<1> QED
  BY <1>1, <1>3, <1>4, <1>5, <1>6

LEMMA SameSequence ==
  ASSUME NEW S, NEW x \in Seq(S), NEW y \in Seq(S), Len(x) = Len(y),
         \A j \in 1..Len(x) : x[j] = y[j]
  PROVE  x = y
OBVIOUS

(* A whole record of which every byte is buffered as it was logged passes  *)
(* every test.                                                             *)
Buffered(i) ==
  LET size == kHeaderSize + Len(added[i])
  IN  /\ starts[i] + size <= Len(log) /\ size <= Len(buffer_)
      /\ \A q \in 1..size : buffer_[q] = log[starts[i] + q]

LEMMA RecordIsGood ==
  ASSUME BytesSound, Layout, PayloadsInPlace, ~recycle_log_files_,
         NEW k \in Nat, k < Latest, AllWhole(k + 1), Buffered(k + 1), NEW h \in Headers
  PROVE  /\ ~TooShort(h) /\ ~IsOld(h) /\ ~Overruns(h) /\ ~IsZero(h) /\ ~ChecksumFails(h)
         /\ h.type = 1
<1>0. k + 1 \in 1..Latest
  BY LayoutIs
<1>1. PICK s \in Nat, len \in Nat, n \in Nat, z \in Nat, l \in Nat :
        /\ s = starts[k + 1] /\ len = Len(added[k + 1]) /\ n = Len(buffer_) /\ z = kHeaderSize
        /\ l = Len(log)
  <2>1. starts[k + 1] \in Nat /\ Len(added[k + 1]) \in Nat /\ Len(log) \in Nat
    BY <1>0, LayoutIs
  <2>2. Len(buffer_) \in Nat /\ kHeaderSize \in Nat
    BY Sizes DEF BytesSound, ReturnsSound
  <2> QED
    BY <2>1, <2>2
<1>a. /\ k + 1 \in 1..Latest /\ InBlock(s) + z + len <= kBlockSize /\ s + z + len <= l
  <2>1. Whole(k + 1) /\ header_size = z
    BY <1>0, <1>1 DEF AllWhole, header_size
  <2>2. s + (z + len) <= l
    BY <1>1 DEF Buffered
  <2> QED
    BY <1>0, <1>1, <2>1, <2>2 DEF Whole
<1>b. z + len <= n
  BY <1>1 DEF Buffered
<1>c. 0 < z /\ kBlockSize \in Nat /\ InBlock(s) \in Nat /\ buffer_ \in Seq(FileBytes)
  <2>1. InBlock(s) \in 0 .. kBlockSize - 1
    BY InBlockIs
  <2>2. 0 < kHeaderSize /\ kBlockSize \in Nat
    BY Sizes
  <2> QED
    BY <1>1, <2>1, <2>2 DEF BytesSound, ReturnsSound
<1>3. \A q \in 1..z + len : buffer_[q] = log[s + q]
  BY <1>1 DEF Buffered
<1>4. header_size = z /\ (k + 1) - 1 = k /\ AllWhole(k) /\ AllWhole(k + 1) /\ Whole(k + 1)
  <2>1. Latest \in Nat
    BY LayoutIs
  <2>2. AllWhole(k) /\ AllWhole(k + 1) /\ Whole(k + 1)
    BY <1>a, <2>1 DEF AllWhole
  <2> QED
    BY <1>1, <2>2 DEF header_size
<1>5. PICK g : g = HeaderOf(k + 1)
  OBVIOUS
<1>6. \A q \in 1..z : buffer_[q] = HeadByte(g, q)
  <2> TAKE q \in 1..z
  <2>1. log[s + q] = HeadByte(g, q)
    <3>1. \A p \in 1..header_size :
            starts[k + 1] + p <= Len(log) => log[starts[k + 1] + p] = HeadByte(HeaderOf(k + 1), p)
      BY <1>a, <1>4, LayoutIs DEF PlacedIn
    <3>2. s + q <= l
      BY <1>a
    <3> QED
      BY <1>1, <1>4, <1>5, <3>1, <3>2
  <2>2. q \in 1..z + len
    BY <1>1
  <2> QED
    BY <1>3, <2>1, <2>2
<1>7. g.type = 1 /\ g.length = len /\ g.crc = WriterCrc(1, len, added[k + 1])
  <2>1. g.type = RecordTypeOf(TRUE, TRUE) /\ FirstLength(k + 1) = len
    BY <1>1, <1>4, <1>5 DEF HeaderOf, FirstLength, Whole
  <2>2. g.type = 1
    BY <2>1 DEF RecordTypeOf, kFullType, kFirstType, kMiddleType, kLastType
  <2>3. g.length = EncodeLength(len) /\ g.crc = WriterCrc(g.type, len, added[k + 1])
    BY <1>5, <2>1 DEF HeaderOf
  <2>4. EncodeLength(len) = len
    <3>1. PICK b \in Nat, i \in Nat, m \in Nat : b = kBlockSize /\ i = InBlock(s) /\ m = LengthModulus
      BY <1>c, LogFormatAssumption
    <3>2. i + z + len <= b /\ b <= m
      BY <1>a, <3>1, LogFormatAssumption
    <3>3. len < m
      BY <1>c, <3>2
    <3>4. len % m = len
      BY <3>3
    <3> QED
      BY <3>1, <3>4 DEF EncodeLength
  <2> QED
    BY <2>2, <2>3, <2>4
<1>8. Written(kHeaderSize) /\ buffer_[1].hdr = g
  <2>1. buffer_[1] = HeadByte(g, 1) /\ 1 \in 1..z
    BY <1>c, <1>6
  <2>2. buffer_[1].b = "head" /\ buffer_[1].hdr = g
    BY <2>1 DEF HeadByte
  <2> QED
    <3>1. Len(buffer_) >= kHeaderSize
      BY <1>1, <1>b
    <3> QED
      BY <1>1, <1>6, <2>2, <3>1 DEF Written
<1>9. h = g
  <2>1. SubSeq(buffer_, 1, kHeaderSize) # Zeros(kHeaderSize)
    <3>1. SubSeq(buffer_, 1, kHeaderSize)[1] = buffer_[1] /\ Zeros(kHeaderSize)[1] = ZeroByte
      BY <1>1, <1>b, <1>c, Sizes DEF Zeros
    <3>2. buffer_[1].b = "head" /\ ZeroByte.b = "zero"
      BY <1>8 DEF Written, ZeroByte
    <3> QED
      BY <3>1, <3>2
  <2>2. ~IsRecyclable(g.type)
    BY <1>7, Types
  <2>3. ~(Len(buffer_) < kHeaderSize)
    BY <1>1, <1>b
  <2> QED
    BY <1>8, <2>1, <2>2, <2>3 DEF Headers
<1>10. HeaderSizeOf(h.type) = z /\ SizeOf(h) = z + len /\ ~IsRecyclable(h.type)
  <2>1. ~IsRecyclable(h.type)
    BY <1>7, <1>9 DEF IsRecyclable, kRecyclableFullType, kRecyclableLastType
  <2>2. HeaderSizeOf(h.type) = z
    BY <1>1, <2>1 DEF HeaderSizeOf
  <2> QED
    BY <1>7, <1>9, <2>1, <2>2 DEF SizeOf
<1>11. Fragment(h) = added[k + 1]
  <2>1. Fragment(h) = SubSeq(buffer_, z + 1, z + len)
    BY <1>10 DEF Fragment
  <2>2. buffer_ \in Seq(FileBytes) /\ added[k + 1] \in Seq(Data)
    <3>1. k + 1 \in 1..Len(added)
      BY <1>a, LayoutIs
    <3>2. added \in Seq(Seq(Data))
      BY LayoutIs DEF WriterInv
    <3> QED
      BY <1>c, <3>1, <3>2
  <2>3. /\ Fragment(h) \in Seq(FileBytes) /\ Len(Fragment(h)) = len
        /\ \A j \in 1..len : Fragment(h)[j] = buffer_[z + j]
    <3>1. PICK b \in Nat : b = z + len /\ b <= Len(buffer_)
      <4>1. z + len \in Nat
        OBVIOUS
      <4> QED
        BY <1>1, <1>b, <4>1
    <3>2. Fragment(h) = SubSeq(buffer_, z + 1, b) /\ buffer_ \in Seq(FileBytes)
      BY <2>1, <2>2, <3>1
    <3>3. /\ Fragment(h) \in Seq(FileBytes)
          /\ Len(Fragment(h)) = IF z < b THEN b - z ELSE 0
          /\ \A j \in 1..Len(Fragment(h)) : Fragment(h)[j] = buffer_[z + j]
      <4>1. /\ SubSeq(buffer_, z + 1, b) \in Seq(FileBytes)
            /\ Len(SubSeq(buffer_, z + 1, b)) = IF z < b THEN b - z ELSE 0
            /\ \A j \in 1..Len(SubSeq(buffer_, z + 1, b)) : SubSeq(buffer_, z + 1, b)[j] = buffer_[z + j]
        BY <3>1, <3>2, PieceIs
      <4> QED
        BY Zenon, <3>2, <4>1
    <3>4. (IF z < b THEN b - z ELSE 0) = len
      BY <3>1
    <3> QED
      BY <3>3, <3>4
  <2>4. \A j \in 1..len : buffer_[z + j] = added[k + 1][j]
    <3> TAKE j \in 1..len
    <3>1. z + j \in 1..z + len /\ s + (z + j) = s + z + j /\ s + z + j <= l
      BY <1>a
    <3>2. log[s + z + j] = added[k + 1][j]
      BY <1>1, <1>a, <1>4, <3>1 DEF PayloadsInPlace
    <3> QED
      BY <1>3, <3>1, <3>2
  <2>5. added[k + 1] \in Seq(FileBytes)
    <3>1. Data \subseteq FileBytes
      BY DEF FileBytes
    <3> QED
      BY <2>2, <3>1, SeqGrows
  <2>7. Len(added[k + 1]) = len /\ \A j \in 1..len : Fragment(h)[j] = added[k + 1][j]
    BY <1>1, <2>3, <2>4
  <2> QED
    BY <2>3, <2>5, <2>7, SameSequence
<1>12. ReaderCrc(h) = h.crc
  BY <1>7, <1>9, <1>10, <1>11 DEF ReaderCrc, WriterCrc
<1>13. ~TooShort(h) /\ ~Overruns(h)
  <2>1. ~(n < z) /\ ~(z + len > n)
    BY <1>b
  <2> QED
    BY <1>1, <1>10, <2>1 DEF TooShort, Overruns
<1> QED
  BY <1>7, <1>9, <1>10, <1>12, <1>13 DEF IsOld, IsZero, ChecksumFails, kZeroType

(* What the reader has buffered, as long as it is not too short, is a      *)
(* header that passes every test and has the record behind it.             *)
LEMMA NextIsGood ==
  ASSUME BytesSound, Layout, ReaderInPlace, RestInv, Untouched, checksum_, ~recycle_log_files_,
         ~stopped, NEW k \in Nat, k = Len(leading), k < Latest, kHeaderSize <= Len(buffer_),
         NEW h \in Headers
  PROVE  /\ ~TooShort(h) /\ ~IsOld(h) /\ ~Overruns(h) /\ ~IsZero(h) /\ ~ChecksumFails(h)
         /\ h.type = 1
<1>1. PICK s \in Nat, len \in Nat, z \in Nat, l \in Nat :
        /\ s = starts[k + 1] /\ len = Len(added[k + 1]) /\ z = kHeaderSize /\ l = Len(log)
  BY NextIsOnFile, LayoutIs, Sizes
<1>2. k + 1 \in 1..Latest /\ s + z + len <= l /\ \A q \in 1..l : file[q] = log[q]
  BY <1>1, NextIsOnFile
<1>3. position = s /\ z + len <= Len(buffer_) /\ Len(buffer_) \in Nat
  BY <1>1, NextIsBuffered, ReaderIs
<1>4. \A q \in 1..z + len : buffer_[q] = log[s + q]
  <2> TAKE q \in 1..z + len
  <2>1. q \in 1..Len(buffer_) /\ s + q \in 1..l
    BY <1>2, <1>3
  <2>2. buffer_[q] = file[position + q]
    BY <2>1 DEF RestInv, BufferIsFile, Untouched
  <2> QED
    BY <1>2, <1>3, <2>1, <2>2
<1>5. AllWhole(k + 1) /\ PayloadsInPlace
  <2>1. Latest \in Nat
    BY LayoutIs
  <2> QED
    BY <1>2, <2>1 DEF AllWhole, Untouched, RestInv
<1> QED
  <2>1. s + (z + len) <= l
    BY <1>2
  <2>2. Buffered(k + 1)
    BY <1>1, <1>3, <1>4, <2>1 DEF Buffered
  <2> QED
    BY <1>5, <2>2, RecordIsGood

(* No call returns false before the last record was returned.              *)
LEMMA NoRecordIsMissed ==
  ASSUME BytesSound, Layout, ReaderInPlace, RestInv, Untouched, checksum_, ~recycle_log_files_,
         Counting, ~stopped, initial_offset_ = 0, Read, ~read_error_', Len(leading) < Latest
  PROVE  reply' # "nothing"
<1>0. PICK k \in Nat : k = Len(leading) /\ k < Latest
  BY ReaderIs
<1>1. ~read_error_ /\ Len(buffer_) \in Nat /\ kHeaderSize \in Nat
  BY ReaderIs, Sizes DEF ReaderInPlace
<1>2. /\ eof_ => kHeaderSize <= Len(buffer_)
      /\ kHeaderSize <= Len(buffer_) =>
           \A h \in Headers : /\ ~TooShort(h) /\ ~IsOld(h) /\ ~Overruns(h) /\ ~IsZero(h)
                              /\ ~ChecksumFails(h) /\ h.type = 1
  BY <1>0, NextIsBuffered, NextIsGood
<1>3. Len(buffer_) < kHeaderSize => Headers = {}
  BY DEF Headers
<1>4. ~Exhausted
  <2> SUFFICES ASSUME Exhausted PROVE FALSE
    OBVIOUS
  <2>1. eof_ /\ NeedsMore
    BY <1>1 DEF Exhausted
  <2>2. kHeaderSize <= Len(buffer_) /\ ~(Len(buffer_) < kHeaderSize)
    BY <1>1, <1>2, <2>1
  <2> QED
    BY <1>2, <2>1, <2>2 DEF NeedsMore
<1>5. CASE FetchFromFile
  <2>1. Fetch(Chunk, FALSE)
    BY <1>5 DEF FetchFromFile, Fetch
  <2>2. rpc = "physical" /\ reply' = reply
    BY <2>1 DEF Fetch, NeedsMore
  <2> QED
    BY <2>2 DEF BytesSound, ReturnsSound
<1>6. ASSUME NEW h \in Headers, Serve(h) PROVE reply' # "nothing"
  <2>1. /\ ~IsOld(h) /\ ~Overruns(h) /\ ~IsZero(h) /\ ~ChecksumFails(h) /\ h.type = 1
    BY <1>1, <1>2, <1>3
  <2>2. ~StartsBelow(h)
    <3>1. BufferStart \in Int /\ BufferStart >= 0
      <4>1. end_of_buffer_offset_ - Len(buffer_) \in Int
        <5>1. end_of_buffer_offset_ \in Nat
          BY ReaderIs DEF Counting
        <5> QED
          BY <1>1, <5>1
      <4> QED
        BY <4>1, LogReaderAssumption DEF BufferStart, RecordOffset
    <3> QED
      BY <3>1 DEF StartsBelow
  <2>3. ~OldRecord(h) /\ ~DropBlock(h) /\ ~BelowInitialOffset(h)
    BY <2>1, <2>2 DEF OldRecord, DropBlock, BelowInitialOffset
  <2>4. ~FirstOrMiddle(h) /\ ~LastFragment(h)
    BY <2>1 DEF FirstOrMiddle, LastFragment, Recyclable, kFirstType, kMiddleType, kLastType, kFullType,
       kRecyclableFullType, kRecyclableLastType
  <2>5. ~UnknownType(h)
    BY <2>1 DEF UnknownType, RecordTypes, kZeroType, kMaxRecordType, kRecyclableLastType
  <2>6. FullRecord(h)
    BY Zenon, <1>6, <2>3, <2>4, <2>5 DEF Serve
  <2> QED
    BY <2>6 DEF FullRecord, Return
<1> QED
  BY <1>4, <1>5, <1>6 DEF Read, ReaderStep

(* A record that is returned is taken out of the front of the buffer.      *)
LEMMA FrontIsTaken ==
  ASSUME BytesSound, Layout, ReaderInPlace, NEW h \in Headers, Consumes(h)
  PROVE  \E s \in Nat :
           /\ s <= Len(buffer_) /\ Len(buffer_') = Len(buffer_) - s
           /\ \A q \in 1..Len(buffer_') : buffer_'[q] = buffer_[s + q]
<1>1. h.length \in Nat /\ HeaderSizeOf(h.type) \in Nat /\ buffer_ \in Seq(FileBytes)
  BY HeadersSound, HeaderSizeFits, ReaderIs, Sizes DEF HeaderSizeOf
<1>2. PICK s \in Nat : s = SizeOf(h)
  BY <1>1 DEF SizeOf
<1>3. s <= Len(buffer_) /\ buffer_' = SubSeq(buffer_, s + 1, Len(buffer_))
  <2>1. ~(s > Len(buffer_))
    BY <1>2 DEF Consumes, Overruns
  <2>2. Len(buffer_) \in Nat
    BY <1>1
  <2> QED
    BY <1>2, <2>1, <2>2 DEF Consumes, Rest
<1>4. Len(buffer_') = Len(buffer_) - s /\ \A q \in 1..Len(buffer_') : buffer_'[q] = buffer_[s + q]
  BY <1>1, <1>3
<1> QED
  BY <1>3, <1>4

(* What a call has fetched is what the file has, until the call fails.     *)
LEMMA ReadKeepsBuffer ==
  ASSUME BytesSound, Layout, ReaderInPlace, checksum_, Read, UNCHANGED dvars, ~stopped',
         atRest, damaged = 0, BufferIsFile
  PROVE  BufferIsFile'
<1>1. /\ UNCHANGED <<file, atRest, damaged>> /\ ~stopped /\ reply' # "nothing"
  BY DEF Read, dvars
<1>2. /\ \A q \in 1..Len(buffer_) : position + q <= Len(file) /\ buffer_[q] = file[position + q]
      /\ eof_ => Len(file) <= fpos
  BY <1>1 DEF BufferIsFile
<1>3. /\ fpos \in Nat /\ position \in Nat /\ fpos = position + Len(buffer_) /\ Len(buffer_) \in Nat
      /\ file \in Seq(FileBytes) /\ Len(file) \in Nat /\ kBlockSize \in Nat
  BY ReaderIs, Sizes DEF BytesSound
<1>4. (\E h \in Headers : FullRecord(h) \/ LastFragment(h)) \/ Fetch(Chunk, FALSE)
  BY <1>1 DEF Read, ReaderStep, Serve, FetchFromFile, Exhausted, OldRecord, DropBlock,
     BelowInitialOffset, FirstOrMiddle, UnknownType, Return, Fetch
<1>5. CASE Fetch(Chunk, FALSE)
  <2>1. PICK m : m = IF fpos + kBlockSize < Len(file) THEN fpos + kBlockSize ELSE Len(file)
    OBVIOUS
  <2>2. m \in Nat /\ m <= Len(file)
    BY <1>3, <2>1
  <2>3. buffer_' = SubSeq(file, fpos + 1, m) /\ fpos' = fpos + Len(Chunk) /\ buffer_' = Chunk
        /\ eof_' = (Len(Chunk) < kBlockSize)
    BY <1>5, <2>1 DEF Fetch, Refilled, AtEnd, Chunk, ReadAt
  <2>4. /\ Len(Chunk) = IF fpos < m THEN m - fpos ELSE 0
        /\ \A q \in 1..Len(Chunk) : buffer_'[q] = file[fpos + q]
    <3>1. buffer_' = SubSeq(file, fpos + 1, m) /\ buffer_' = Chunk
      BY <2>3
    <3>2. /\ Len(SubSeq(file, fpos + 1, m)) = IF fpos < m THEN m - fpos ELSE 0
          /\ \A q \in 1..Len(SubSeq(file, fpos + 1, m)) : SubSeq(file, fpos + 1, m)[q] = file[fpos + q]
      <4>1. file \in Seq(FileBytes) /\ fpos \in Nat /\ m \in Nat /\ m <= Len(file)
        BY <1>3, <2>2
      <4> QED
        BY <4>1, PieceIs
    <3> QED
      BY Zenon, <3>1, <3>2
  <2>5. Len(Chunk) \in Nat /\ (Len(Chunk) > 0 => fpos + Len(Chunk) = m)
    BY <1>3, <2>2, <2>4
  <2>6. position' = fpos
    <3>1. PICK n \in Nat : n = Len(Chunk)
      BY <2>5
    <3>2. position' = fpos' - Len(buffer_') /\ fpos' = fpos + n /\ Len(buffer_') = n
      BY Zenon, <2>3, <3>1 DEF position
    <3> QED
      BY <1>3, <3>2
  <2>7. \A q \in 1..Len(Chunk) : fpos + q <= Len(file)
    BY <1>3, <2>2, <2>5
  <2>8. Len(Chunk) < kBlockSize => Len(file) <= fpos + Len(Chunk)
    <3>1. PICK n \in Nat : n = Len(Chunk)
      BY <2>5
    <3>2. n = IF fpos < m THEN m - fpos ELSE 0
      BY <2>4, <3>1
    <3>3. PICK f \in Nat, l \in Nat, b \in Nat : f = fpos /\ l = Len(file) /\ b = kBlockSize
      BY <1>3
    <3>4. m = (IF f + b < l THEN f + b ELSE l) /\ n = (IF f < m THEN m - f ELSE 0)
      BY <2>1, <3>2, <3>3
    <3>5. CASE f + b < l
      BY <3>1, <3>3, <3>4, <3>5
    <3>6. CASE ~(f + b < l)
      BY <3>1, <3>3, <3>4, <3>6
    <3> QED
      BY <3>5, <3>6
  <2>9. eof_' => Len(file) <= fpos'
    BY <2>3, <2>8
  <2> QED
    BY <1>1, <2>3, <2>4, <2>6, <2>7, <2>9 DEF BufferIsFile
<1>6. CASE \E h \in Headers : FullRecord(h) \/ LastFragment(h)
  <2>1. PICK h \in Headers : FullRecord(h) \/ LastFragment(h)
    BY <1>6
  <2>2. Consumes(h)
    BY <2>1 DEF FullRecord, LastFragment
  <2>3. PICK s \in Nat :
          /\ s <= Len(buffer_) /\ Len(buffer_') = Len(buffer_) - s
          /\ \A q \in 1..Len(buffer_') : buffer_'[q] = buffer_[s + q]
    BY <2>2, FrontIsTaken
  <2>4. UNCHANGED <<fpos, eof_>>
    BY <2>2 DEF Consumes
  <2>5. PICK at \in Nat : at = position /\ position' = at + s
    BY <1>3, <2>3, <2>4 DEF position
  <2>6. ASSUME NEW q \in 1..Len(buffer_')
        PROVE  at + s + q <= Len(file) /\ buffer_'[q] = file[at + s + q]
    <3>1. s + q \in 1..Len(buffer_) /\ at + (s + q) = at + s + q
      BY <1>3, <2>3, <2>6
    <3> QED
      BY <1>2, <2>3, <2>5, <3>1
  <2> QED
    BY <1>1, <1>2, <2>4, <2>5, <2>6 DEF BufferIsFile
<1> QED
  BY <1>4, <1>5, <1>6

LEMMA BufferIsFileStays ==
  ASSUME BytesSound, Layout, FileInPlace, Following, checksum_, FirstCall, BufferIsFile,
         [Next \/ KeepReading]_vars
  PROVE  BufferIsFile'
<1> SUFFICES ASSUME atRest', damaged' = 0, ~stopped' PROVE BufferIsFile'
  BY DEF BufferIsFile
<1>0. damaged = 0
  BY FileStays
<1>1. CASE Read /\ UNCHANGED dvars
  <2>1. ~stopped /\ atRest
    BY <1>1 DEF Read
  <2> QED
    BY <1>0, <1>1, <2>1, ReadKeepsBuffer DEF Following
<1>2. CASE KeepReading \/ (CallRead(onFile = Len(log)) /\ UNCHANGED dvars)
  <2>1. UNCHANGED <<file, damaged>> /\ ~stopped /\ (SkipFails \/ ReadRecord)
    <3>1. KeepReading => UNCHANGED <<file, damaged, stopped>> /\ (SkipFails \/ ReadRecord)
      BY DEF KeepReading, dvars, hvars
    <3>2. CallRead(onFile = Len(log)) /\ UNCHANGED dvars =>
            UNCHANGED <<file, damaged>> /\ ~stopped /\ (SkipFails \/ ReadRecord)
      BY Zenon DEF CallRead, dvars
    <3> QED
      BY <1>2, <3>1, <3>2
  <2>2. ReadRecord
    <3>1. SkipFails => KeepReading
      BY <1>2 DEF SkipFails, Return, CallRead
    <3>2. KeepReading => ~SkipFails
      BY <2>1 DEF KeepReading, SkipFails, Following, ReaderInPlace, SkipsAtFirst
    <3> QED
      BY <2>1, <3>1, <3>2
  <2>3. UNCHANGED <<fpos, buffer_, eof_, position>>
    BY <2>2 DEF ReadRecord, position
  <2>4. CASE reads = 0
    <3>1. buffer_ = <<>> /\ ~eof_
      BY <2>4 DEF FirstCall
    <3> QED
      BY <2>1, <2>3, <3>1 DEF BufferIsFile
  <2>5. CASE reads # 0
    <3>1. atRest
      BY <1>2, <2>5 DEF KeepReading, CallRead, hvars
    <3> QED
      BY <1>0, <2>1, <2>3, <3>1 DEF BufferIsFile
  <2> QED
    BY <2>4, <2>5
<1>3. CASE \/ Destination \/ Damage \/ UNCHANGED vars
           \/ (Write(Len(log)) \/ Crash) /\ UNCHANGED dvars
  <2>1. UNCHANGED <<rvars, hvars>>
    BY <1>3 DEF Destination, Damage, vars, Write, Crash, rvars, hvars
  <2>2. atRest /\ ~stopped /\ UNCHANGED <<buffer_, fpos, eof_, position>>
    BY <2>1 DEF rvars, hvars, position
  <2>3. WriterClosed /\ reads # 0
    BY <2>2 DEF FirstCall
  <2>4. UNCHANGED file
    BY <2>3, ClosedForGood DEF Damage
  <2> QED
    BY <1>0, <2>2, <2>4 DEF BufferIsFile
<1> QED
  BY <1>1, <1>2, <1>3 DEF Next

(* The call that stops the reader of a whole log finds nothing left.       *)
LEMMA NothingIsLeft ==
  ASSUME BytesSound, Layout, Following, RestInv, checksum_, ~recycle_log_files_, OffsetsFollow,
         Untouched, initial_offset_ = 0, ~stopped, Read, ~read_error_', reply' = "nothing"
  PROVE  leading = added
<1>1. ReaderInPlace /\ Counting
  BY DEF Following, OffsetsFollow
<1>2. ~(Len(leading) < Latest)
  BY <1>1, NoRecordIsMissed
<1>3. Len(leading) = Latest /\ Latest = Len(added)
  <2>1. Len(leading) \in 0..Latest /\ Latest \in Nat
    BY <1>1, ReaderIs
  <2>2. Latest = Len(added)
    BY DEF RestInv, FirstCall, ClosedWhole, Untouched
  <2> QED
    BY <1>2, <2>1, <2>2
<1>4. leading \in Seq(Seq(FileBytes)) /\ added \in Seq(Seq(FileBytes))
  <2>1. Seq(Seq(Data)) \subseteq Seq(Seq(FileBytes))
    <3>1. Data \subseteq FileBytes
      BY DEF FileBytes
    <3>2. Seq(Data) \subseteq Seq(FileBytes)
      BY <3>1, SeqGrows
    <3> QED
      BY <3>2, SeqGrows
  <2>2. added \in Seq(Seq(Data)) /\ leading \in Seq(Seq(FileBytes))
    BY LayoutIs DEF WriterInv, BytesSound, ReturnsSound
  <2> QED
    BY <2>1, <2>2
<1>5. \A j \in 1..Len(leading) : leading[j] = added[j]
  BY DEF Following
<1> QED
  BY <1>3, <1>4, <1>5, SameSequence

LEMMA StopsAtEndStays ==
  ASSUME BytesSound, Layout, FileInPlace, Following, RestInv, checksum_, ~recycle_log_files_,
         OffsetsFollow, [Next \/ KeepReading]_vars
  PROVE  StopsAtEnd'
<1> SUFFICES ASSUME stopped', atRest', damaged' = 0, AllWhole(Latest)', ~read_error_',
                    initial_offset_' = 0
             PROVE  leading' = added'
  BY DEF StopsAtEnd
<1>0. damaged = 0
  BY FileStays
<1>1. initial_offset_ = 0 /\ (read_error_ => read_error_')
  <2>1. CASE UNCHANGED rvars
    BY <2>1 DEF rvars
  <2>2. CASE SkipFails \/ ReadRecord
    <3>1. UNCHANGED <<initial_offset_, read_error_>>
      BY Zenon, <2>2 DEF SkipFails, ReadRecord
    <3> QED
      BY <3>1
  <2>3. CASE Read
    <3>1. CASE FetchFromFile
      <4>1. UNCHANGED initial_offset_ /\ (read_error_' = TRUE \/ UNCHANGED read_error_)
        BY Zenon, <3>1 DEF FetchFromFile, Fetch
      <4> QED
        BY <4>1
    <3>2. CASE ReaderStep
      <4>1. UNCHANGED <<initial_offset_, read_error_>>
        <5>1. ASSUME NEW h, Serve(h) PROVE UNCHANGED <<initial_offset_, read_error_>>
          BY Zenon, <5>1 DEF Serve, OldRecord, DropBlock, BelowInitialOffset, FullRecord,
             FirstOrMiddle, LastFragment, UnknownType, Consumes
        <5>2. Exhausted => UNCHANGED <<initial_offset_, read_error_>>
          BY DEF Exhausted
        <5> QED
          BY <3>2, <5>1, <5>2 DEF ReaderStep
      <4> QED
        BY <4>1
    <3> QED
      BY <2>3, <3>1, <3>2 DEF Read
  <2> QED
    BY <2>1, <2>2, <2>3 DEF Next, KeepReading, CallRead, Destination, Damage, Write, Crash, vars
<1>2. atRest => UNCHANGED <<starts, added, recycle_log_files_>> /\ AllWhole(Latest)
  <2>1. atRest => UNCHANGED <<starts, added, recycle_log_files_>>
    BY ClosedForGood DEF RestInv, FirstCall
  <2> QED
    BY <2>1 DEF AllWhole, Whole, Latest, InBlock, header_size
<1>3. CASE stopped
  <2>1. reads # 0
    BY <1>3 DEF RestInv, FirstCall
  <2>2. UNCHANGED leading /\ atRest
    <3>1. CASE Read
      BY Zenon, <1>3, <3>1 DEF Read
    <3>2. CASE CallRead(onFile = Len(log))
      BY <2>1, <3>2 DEF CallRead
    <3>3. CASE UNCHANGED hvars
      BY <3>3 DEF hvars
    <3> QED
      BY <3>1, <3>2, <3>3 DEF Next, KeepReading, Destination, Damage, Write, Crash, vars
  <2>3. leading = added
    BY <1>0, <1>1, <1>2, <1>3, <2>2 DEF RestInv, StopsAtEnd
  <2> QED
    BY <1>2, <2>2, <2>3
<1>4. CASE ~stopped
  <2>1. Read /\ reply' = "nothing"
    <3>1. CASE Read
      BY Zenon, <1>4, <3>1 DEF Read
    <3>2. CASE CallRead(onFile = Len(log))
      <4>1. reply' = "nothing"
        BY Zenon, <1>4, <3>2 DEF CallRead
      <4>2. ~ReadRecord
        BY <4>1 DEF ReadRecord
      <4>3. block_start_location > 0
        BY <3>2, <4>2 DEF CallRead, SkipFails
      <4>4. block_start_location = 0
        <5>1. 0 % kBlockSize = 0
          BY Sizes
        <5> QED
          BY <1>1, <5>1, Sizes DEF block_start_location
      <4> QED
        BY <4>3, <4>4
    <3>3. CASE UNCHANGED hvars
      BY <1>4, <3>3 DEF hvars
    <3> QED
      BY <3>1, <3>2, <3>3 DEF Next, KeepReading, Destination, Damage, Write, Crash, vars
  <2>2. UNCHANGED <<atRest, leading>>
    <3>1. reply' # "record"
      BY <2>1
    <3> QED
      BY <2>1, <3>1 DEF Read
  <2>3. Untouched
    BY <1>0, <1>2, <2>2 DEF Untouched
  <2>4. leading = added
    BY <1>1, <1>4, <2>1, <2>3, NothingIsLeft
  <2> QED
    BY <1>2, <2>2, <2>4
<1> QED
  BY <1>3, <1>4

LEMMA NoneIsPassedOver ==
  ASSUME BytesSound, Layout, damaged = 0
  PROVE  NothingPassedOver
<1>1. ASSUME NEW i \in DOMAIN starts PROVE ~PassedOver(i)
  <2>1. starts[i] \in Nat /\ kHeaderSize \in Nat /\ kHeaderSize > 0
    BY <1>1, LayoutIs, Sizes
  <2> QED
    BY <2>1 DEF PassedOver
<1> QED
  BY <1>1 DEF NothingPassedOver

LEMMA RestInvStays ==
  ASSUME AppendsSucceed, BytesSound, PrefixInv, OffsetsInv, RestInv, [Next \/ KeepReading]_vars
  PROVE  RestInv'
<1>1. BytesSound' /\ PrefixInv'
  BY BytesStaySound, PrefixInvStays
<1>2. UNCHANGED <<checksum_, recycle_log_files_>>
  BY AddedOnlyGrows DEF AddedGrows, Next, KeepReading, Destination, Damage, Write, Crash, CallRead, Read,
     rvars, vars
<1>3. PayloadsInPlace' /\ ClosedWhole' /\ FileHoldsLog' /\ FirstCall'
  BY <1>1, PayloadsStay, ClosedStays, FileKeepsLog, FirstCallStays DEF RestInv, PrefixInv
<1>4. ASSUME checksum_, ~recycle_log_files_ PROVE BufferIsFile' /\ StopsAtEnd'
  <2>1. CASE damaged' = 0
    <3>1. damaged = 0
      BY <2>1, FileStays DEF PrefixInv
    <3>2. NothingPassedOver
      BY <3>1, NoneIsPassedOver DEF PrefixInv
    <3>3. Following /\ OffsetsFollow
      BY <1>4, <3>2 DEF PrefixInv, OffsetsInv
    <3> QED
      BY <1>4, <3>3, BufferIsFileStays, StopsAtEndStays DEF RestInv, PrefixInv
  <2>2. CASE damaged' # 0
    BY <2>2 DEF BufferIsFile, StopsAtEnd
  <2> QED
    BY <2>1, <2>2
<1> QED
  BY <1>2, <1>3, <1>4 DEF RestInv

LEMMA RestInvAtFirst == Init => RestInv
<1> SUFFICES ASSUME Init PROVE RestInv
  OBVIOUS
<1>1. /\ starts = <<>> /\ reads = 0 /\ rpc = "idle" /\ buffer_ = <<>> /\ ~eof_ /\ ~stopped /\ ~atRest
      /\ wpc = "idle" /\ log = <<>> /\ onFile = 0 /\ file \in Seq(FileBytes)
  BY BytesSoundAtFirst DEF Init, RecoveryInit, ReaderInit, WriterInit, Dest!StreamInit, BytesSound
<1>2. PayloadsInPlace /\ FirstCall
  BY <1>1 DEF PayloadsInPlace, FirstCall, Latest
<1>3. ClosedWhole /\ BufferIsFile /\ StopsAtEnd
  BY <1>1 DEF ClosedWhole, WriterClosed, BufferIsFile, StopsAtEnd
<1>4. FileHoldsLog
  BY <1>1 DEF FileHoldsLog
<1> QED
  BY <1>2, <1>3, <1>4 DEF RestInv

(* Completeness: of a log that was closed and on the file whole before the *)
(* first call, that nothing has damaged and none of whose records was cut, *)
(* a caller that verifies checksums and reads from offset 0 is given every *)
(* record before the first call that returns false, as long as fread does  *)
(* not fail.                                                               *)
THEOREM LogIsReadWhole ==
  AppendsSucceed =>
    /\ Spec => [](checksum_ /\ initial_offset_ = 0 => CompleteLog)
    /\ PersistentSpec => [](checksum_ /\ initial_offset_ = 0 => CompleteLog)
<1> SUFFICES ASSUME AppendsSucceed
             PROVE  /\ Spec => [](checksum_ /\ initial_offset_ = 0 => CompleteLog)
                    /\ PersistentSpec => [](checksum_ /\ initial_offset_ = 0 => CompleteLog)
  OBVIOUS
<1> DEFINE Inv == BytesSound /\ PrefixInv /\ OffsetsInv /\ RestInv
<1>1. Init => Inv
  BY BytesSoundAtFirst, PrefixInvAtFirst, OffsetsInvAtFirst, RestInvAtFirst
<1>2. Inv /\ [Next \/ KeepReading]_vars => Inv'
  BY BytesStaySound, PrefixInvStays, OffsetsInvStays, RestInvStays
<1>3. Inv => (checksum_ /\ initial_offset_ = 0 => CompleteLog)
  <2> SUFFICES ASSUME Inv, checksum_, initial_offset_ = 0, ~recycle_log_files_,
                      atRest, damaged = 0, stopped, NoneCut, ~read_error_
               PROVE  leading = added
    BY DEF CompleteLog, Readable
  <2>1. AllWhole(Latest)
    <3>1. starts \in Seq(Nat)
      BY LayoutIs DEF PrefixInv
    <3> QED
      BY <3>1 DEF NoneCut, AllWhole, Whole, InBlock, Latest
  <2> QED
    BY <2>1 DEF RestInv, StopsAtEnd
<1>4. Spec => []Inv
  BY <1>1, <1>2, PTL DEF Spec
<1>5. PersistentSpec => []Inv
  BY <1>1, <1>2, PTL DEF PersistentSpec
<1> QED
  BY <1>3, <1>4, <1>5, PTL

-----------------------------------------------------------------------------
(* The reader of a log one of whose bytes is damaged: it stays outside of  *)
(* the records, and what it leaves behind it has returned or lost with the *)
(* block of that byte.                                                     *)

(* A place that is inside of no record, and one that is after the first c  *)
(* records and before the others.                                          *)
Clear(at) == \A j \in 1..Latest : at <= starts[j] \/ EndOf(j) <= at

Between(at, c) ==
  /\ c \in 0..Latest
  /\ EndOf(c) <= at
  /\ \A j \in 1..Latest : c < j => at <= starts[j]

(* What is buffered is what the file has at that place, in one block; more *)
(* than that is fetched from the start of a block, and nothing after the   *)
(* end of the file has been seen.                                          *)
BufferInPlace ==
  /\ position \in Nat
  /\ InBlock(position) + Len(buffer_) <= kBlockSize
  /\ ~eof_ => InBlock(fpos) = 0
  /\ eof_ => Len(file) <= fpos
  /\ \A q \in 1..Len(buffer_) : position + q <= Len(file) /\ buffer_[q] = file[position + q]

ScanStart ==
  /\ last_record_offset_ \in Nat
  /\ end_of_buffer_offset_ \in Nat
  /\ rpc = "physical" => physical_record_offset \in Nat
  /\ reads = 0 => position = 0

(* Of the records that the reader has left behind, only those in the block *)
(* of the damaged byte may not have been returned.                         *)
InDamagedBlock(j) == BlockOf(starts[j]) = BlockOf(damaged - 1)

OthersReturned ==
  \A j \in 1..Latest : EndOf(j) <= position => added[j] \in Returned \/ InDamagedBlock(j)

(* The first records but the i-th, in order.                               *)
Without(i) ==
  /\ Len(leading) < Latest
  /\ \A m \in 1..Len(leading) : leading[m] = IF m < i THEN added[m] ELSE added[m + 1]

SkipsTo(i) ==
  \E c \in 0..Latest :
    /\ Between(position, c)
    /\ \/ c = Len(leading) /\ c < i
       \/ c = Len(leading) + 1 /\ i <= c

Scan ==
  /\ BufferInPlace /\ ScanStart /\ Clear(position)
  /\ atRest => OthersReturned
  /\ ~stopped => \A i \in 1..Latest : PassedOver(i) => SkipsTo(i)

Damaged ==
  /\ damaged # 0 /\ checksum_ /\ ~recycle_log_files_ /\ initial_offset_ = 0
  /\ AllWhole(Latest)

DamageIsThere == damaged \in 1..Len(file) /\ file[damaged] = JunkByte

Scanning == ~read_error_ /\ (atRest \/ ~stopped)

ScanKept ==
  /\ \A i \in 1..Latest : PassedOver(i) => Without(i)
  /\ read_error_ => stopped
  /\ Scanning => Scan

ScanInv ==
  /\ reply = "nothing" /\ initial_offset_ = 0 => stopped
  /\ damaged # 0 => DamageIsThere
  /\ Damaged => ScanKept

(* The records of a log none of whose records was cut.                     *)
LEMMA WholeRecords ==
  ASSUME BytesSound, Layout, AllWhole(Latest)
  PROVE  /\ Latest \in Nat /\ Latest <= Len(added)
         /\ \A j \in 1..Latest :
              /\ starts[j] \in Nat /\ Len(added[j]) \in Nat /\ EndOf(j) \in Nat /\ EndOf(j - 1) \in Nat
              /\ EndOf(j) = starts[j] + header_size + Len(added[j])
              /\ starts[j] + header_size <= EndOf(j)
              /\ starts[j] = NextStart(EndOf(j - 1)) /\ EndOf(j - 1) <= starts[j]
              /\ InBlock(starts[j]) + header_size + Len(added[j]) <= kBlockSize
<1>1. Latest \in Nat /\ Latest <= Len(added)
  BY LayoutIs
<1>2. ASSUME NEW j \in 1..Latest
      PROVE  /\ starts[j] \in Nat /\ Len(added[j]) \in Nat /\ EndOf(j) \in Nat /\ EndOf(j - 1) \in Nat
             /\ EndOf(j) = starts[j] + header_size + Len(added[j])
             /\ starts[j] = NextStart(EndOf(j - 1))
             /\ InBlock(starts[j]) + header_size + Len(added[j]) <= kBlockSize
  <2>1. j - 1 \in 0..Latest /\ j \in 0..Latest /\ AllWhole(j - 1) /\ Whole(j)
    BY <1>1, <1>2 DEF AllWhole
  <2> QED
    BY <1>2, <2>1, LayoutIs DEF PlacedIn, Whole
<1>3. ASSUME NEW j \in 1..Latest
      PROVE  starts[j] + header_size <= EndOf(j) /\ EndOf(j - 1) <= starts[j]
  <2>1. EndOf(j - 1) <= starts[j]
    BY <1>2, NextStartIs
  <2>2. starts[j] + header_size <= EndOf(j)
    BY <1>2, HeaderSizeFits
  <2> QED
    BY <2>1, <2>2
<1> QED
  BY <1>1, <1>2, <1>3

LEMMA RecordsInOrder ==
  ASSUME BytesSound, Layout, AllWhole(Latest)
  PROVE  \A j \in 1..Latest : \A i \in 1..Latest : i < j => EndOf(i) <= starts[j]
<1> DEFINE T == {j \in 1..Latest : \E i \in 1..Latest : i < j /\ ~(EndOf(i) <= starts[j])}
<1>1. T \subseteq Nat
  BY WholeRecords
<1>2. T = {}
  <2> SUFFICES ASSUME T # {} PROVE FALSE
    OBVIOUS
  <2>1. PICK j \in T : \A m \in T : j <= m
    <3> HIDE DEF T
    <3> QED
      BY <1>1, LeastIn
  <2>2. PICK i \in 1..Latest : i < j /\ ~(EndOf(i) <= starts[j])
    BY <2>1
  <2>3. /\ j \in 1..Latest /\ j - 1 \in 1..Latest /\ j - 1 < j
        /\ EndOf(i) \in Nat /\ starts[j] \in Nat /\ EndOf(j - 1) \in Nat /\ EndOf(j - 1) <= starts[j]
    BY <2>2, WholeRecords
  <2>4. i < j - 1
    <3>1. i # j - 1
      BY <2>2, <2>3
    <3> QED
      BY <2>2, <2>3, <3>1
  <2>5. EndOf(i) <= starts[j - 1]
    <3>1. j - 1 \notin T
      <4> HIDE DEF T
      <4> QED
        BY <2>1, <2>3
    <3> QED
      BY <2>3, <2>4, <3>1
  <2>6. starts[j - 1] \in Nat /\ header_size \in Nat /\ starts[j - 1] + header_size <= EndOf(j - 1)
    BY <2>3, WholeRecords, HeaderSizeFits
  <2> QED
    BY <2>2, <2>3, <2>5, <2>6
<1> QED
  BY <1>2

LEMMA RecordsApart ==
  ASSUME BytesSound, Layout, AllWhole(Latest), NEW i \in 1..Latest, NEW j \in 1..Latest, i < j
  PROVE  /\ EndOf(i) <= starts[j] /\ starts[i] + header_size <= starts[j]
         /\ EndOf(i) + header_size <= EndOf(j)
<1>1. EndOf(i) <= starts[j]
  BY RecordsInOrder
<1>2. /\ EndOf(i) \in Nat /\ EndOf(j) \in Nat /\ starts[j] \in Nat /\ starts[i] \in Nat /\ header_size \in Nat
      /\ starts[i] + header_size <= EndOf(i) /\ starts[j] + header_size <= EndOf(j)
  BY WholeRecords, HeaderSizeFits
<1> QED
  BY <1>1, <1>2

(* A place outside of every record is between two of them.                 *)
LEMMA ClearIsBetween ==
  ASSUME BytesSound, Layout, AllWhole(Latest), NEW at \in Nat, Clear(at)
  PROVE  \E c \in 0..Latest : Between(at, c)
<1> DEFINE T == {j \in 1..Latest : at <= starts[j]}
<1>1. T \subseteq Nat /\ Latest \in Nat /\ EndOf(0) = 0
  BY WholeRecords, LayoutIs DEF EndOf
<1>2. CASE T = {}
  <2>1. EndOf(Latest) <= at
    <3>1. CASE Latest = 0
      BY <1>1, <3>1
    <3>2. CASE Latest # 0
      BY <1>1, <1>2, <3>2 DEF Clear
    <3> QED
      BY <3>1, <3>2
  <2>2. Between(at, Latest)
    BY <1>1, <2>1 DEF Between
  <2> QED
    BY <1>1, <2>2
<1>3. CASE T # {}
  <2>1. PICK j \in T : \A m \in T : j <= m
    <3> HIDE DEF T
    <3> QED
      BY <1>1, <1>3, LeastIn
  <2>2. PICK c \in 0..Latest : c = j - 1 /\ j \in 1..Latest
    <3>1. j \in 1..Latest /\ j - 1 \in 0..Latest
      BY <1>1
    <3> QED
      BY <3>1
  <2>3. EndOf(c) <= at
    <3>1. CASE c = 0
      BY <1>1, <3>1
    <3>2. CASE c # 0
      <4>1. c \in 1..Latest /\ c < j
        BY <2>2, <3>2
      <4>2. c \notin T
        <5> HIDE DEF T
        <5> QED
          BY <1>1, <2>1, <4>1
      <4> QED
        BY <4>1, <4>2 DEF Clear
    <3> QED
      BY <3>1, <3>2
  <2>4. ASSUME NEW m \in 1..Latest, c < m PROVE at <= starts[m]
    <3>1. at <= starts[j]
      BY <2>1
    <3>2. m = j \/ j < m
      BY <2>2, <2>4
    <3>3. starts[j] \in Nat /\ starts[m] \in Nat /\ header_size \in Nat
      BY <2>2, WholeRecords, HeaderSizeFits
    <3>4. j < m => starts[j] + header_size <= starts[m]
      BY <2>2, RecordsApart
    <3> QED
      BY <3>1, <3>2, <3>3, <3>4
  <2> QED
    BY <2>3, <2>4 DEF Between
<1> QED
  BY <1>2, <1>3

LEMMA BetweenIsClear ==
  ASSUME BytesSound, Layout, AllWhole(Latest), NEW at \in Nat, NEW c \in 0..Latest, Between(at, c)
  PROVE  Clear(at)
<1> SUFFICES ASSUME NEW j \in 1..Latest PROVE at <= starts[j] \/ EndOf(j) <= at
  BY DEF Clear
<1>1. CASE c < j
  BY <1>1 DEF Between
<1>2. CASE j = c
  BY <1>2 DEF Between
<1>3. CASE j < c
  <2>1. c \in 1..Latest /\ Latest \in Nat
    BY <1>3, WholeRecords
  <2>2. EndOf(j) + header_size <= EndOf(c) /\ EndOf(c) <= at
    BY <1>3, <2>1, RecordsApart DEF Between
  <2>3. EndOf(j) \in Nat /\ EndOf(c) \in Nat /\ header_size \in Nat
    BY <2>1, WholeRecords, HeaderSizeFits
  <2> QED
    BY <2>2, <2>3
<1> QED
  <2>1. Latest \in Nat
    BY WholeRecords
  <2> QED
    BY <1>1, <1>2, <1>3, <2>1

(* The end of the next record is behind that record.                       *)
LEMMA BehindNext ==
  ASSUME BytesSound, Layout, AllWhole(Latest), NEW c \in 0..Latest, c < Latest
  PROVE  c + 1 \in 1..Latest /\ Between(EndOf(c + 1), c + 1)
<1>1. Latest \in Nat /\ c + 1 \in 1..Latest /\ c + 1 \in 0..Latest /\ EndOf(c + 1) \in Nat
  BY WholeRecords
<1>2. \A j \in 1..Latest : c + 1 < j => EndOf(c + 1) <= starts[j]
  BY <1>1, RecordsInOrder
<1> QED
  BY <1>1, <1>2 DEF Between

(* What fits in a block ends before the next one.                          *)
LEMMA BoundaryIsAhead ==
  ASSUME NEW s \in Nat, NEW n \in Nat, NEW at \in Nat, s < at, InBlock(at) = 0,
         InBlock(s) + n <= kBlockSize
  PROVE  s + n <= at
<1>1. PICK i \in Nat, b \in Nat : i = InBlock(s) /\ b = kBlockSize
  <2>1. InBlock(s) \in 0 .. kBlockSize - 1 /\ kBlockSize \in Nat
    BY InBlockIs, Sizes
  <2> QED
    BY <2>1
<1>2. PICK d \in Nat : at = s + d /\ d > 0
  <2>1. at - s \in Nat /\ at = s + (at - s) /\ at - s > 0
    OBVIOUS
  <2> QED
    BY <2>1
<1>3. ~(i + d < b)
  <2>1. i + d < b => InBlock(s + d) = i + d
    BY <1>1, InBlockMoves
  <2>2. InBlock(s + d) = 0
    BY <1>2
  <2> QED
    BY <1>2, <2>1, <2>2
<1>4. i + n <= b
  BY <1>1
<1> QED
  BY <1>2, <1>3, <1>4

LEMMA BoundaryIsClear ==
  ASSUME BytesSound, Layout, AllWhole(Latest), NEW at \in Nat, InBlock(at) = 0
  PROVE  Clear(at)
<1> SUFFICES ASSUME NEW j \in 1..Latest, ~(at <= starts[j]) PROVE EndOf(j) <= at
  BY DEF Clear
<1>1. PICK s \in Nat, z \in Nat, len \in Nat :
        s = starts[j] /\ z = header_size /\ len = Len(added[j])
  BY WholeRecords, HeaderSizeFits
<1>2. EndOf(j) = s + z + len /\ InBlock(s) + z + len <= kBlockSize
  BY <1>1, WholeRecords
<1>3. PICK n \in Nat, i \in Int : n = z + len /\ i = InBlock(s)
  <2>1. InBlock(s) \in 0 .. kBlockSize - 1 /\ kBlockSize \in Nat
    BY InBlockIs, Sizes
  <2>2. InBlock(s) \in Int /\ z + len \in Nat
    BY <2>1
  <2> QED
    BY <2>2
<1>4. EndOf(j) = s + n /\ i + n <= kBlockSize
  <2>1. s + z + len = s + (z + len) /\ i + z + len = i + (z + len)
    OBVIOUS
  <2> QED
    BY <1>2, <1>3, <2>1
<1>5. s < at
  BY <1>1
<1> QED
  BY <1>3, <1>4, <1>5, BoundaryIsAhead

LEMMA ScanIs ==
  ASSUME BytesSound, BufferInPlace
  PROVE  /\ buffer_ \in Seq(FileBytes) /\ Len(buffer_) \in Nat
         /\ fpos \in Nat /\ position \in Nat /\ fpos = position + Len(buffer_)
         /\ InBlock(position) \in 0 .. kBlockSize - 1
         /\ InBlock(position) + Len(buffer_) <= kBlockSize
         /\ file \in Seq(FileBytes) /\ Len(file) \in Nat
<1>1. buffer_ \in Seq(FileBytes) /\ fpos \in Nat /\ file \in Seq(FileBytes)
  BY DEF BytesSound, ReturnsSound
<1>2. position \in Nat /\ InBlock(position) + Len(buffer_) <= kBlockSize
  BY DEF BufferInPlace
<1>3. fpos = position + Len(buffer_)
  BY <1>1 DEF position
<1>4. InBlock(position) \in 0 .. kBlockSize - 1
  BY <1>2, InBlockIs
<1> QED
  BY <1>1, <1>2, <1>3, <1>4

(* A header that the writer computed is met where its record starts.       *)
LEMMA ScanHeader ==
  ASSUME BytesSound, Layout, FileInPlace, AllWhole(Latest), BufferInPlace,
         NEW c \in 0..Latest, Between(position, c), Written(kHeaderSize)
  PROVE  /\ c + 1 \in 1..Latest /\ position = starts[c + 1]
         /\ buffer_[1].hdr = HeaderOf(c + 1)
<1>1. PICK e \in Nat, ns \in Nat, p \in Nat, l \in Nat :
        /\ e = EndOf(c) /\ ns = NextStart(e) /\ p = position /\ l = Len(log)
  <2>1. EndOf(c) \in Nat /\ Len(log) \in Nat /\ position \in Nat
    BY LayoutIs, ScanIs
  <2>2. NextStart(EndOf(c)) \in Nat
    BY <2>1, NextStartIs
  <2> QED
    BY <2>1, <2>2
<1>2. c \in Nat /\ Latest \in Nat /\ AllWhole(c) /\ e <= p
  BY <1>1, WholeRecords DEF AllWhole, Between
<1>3. p + 1 <= l /\ log[p + 1] = buffer_[1] /\ buffer_[1].b = "head"
  <2>1. buffer_[1].b = "head" /\ 1 \in 1..Len(buffer_)
    BY Sizes, ScanIs DEF Written
  <2>2. p + 1 <= Len(file) /\ buffer_[1] = file[p + 1] /\ p + 1 \in 1..Len(file)
    BY <1>1, <2>1, ScanIs DEF BufferInPlace
  <2>3. buffer_[1] \in ByteAt(p + 1)
    BY <2>2 DEF FileInPlace
  <2> QED
    BY <1>1, <2>1, <2>3 DEF ByteAt, ZeroByte, JunkByte
<1>4. ns <= p
  <2> SUFFICES ASSUME p < ns PROVE FALSE
    BY <1>1
  <2>1. p + 1 \in e + 1 .. ns
    BY <1>2
  <2>2. log[p + 1] = ZeroByte
    BY <1>1, <1>2, <1>3, <2>1, LayoutIs DEF PlacedIn
  <2> QED
    BY <1>3, <2>2 DEF ZeroByte
<1>5. c # Latest
  <2>1. c = Latest => l <= ns
    BY <1>1, <1>2, LayoutIs DEF PlacedIn
  <2> QED
    BY <1>3, <1>4, <2>1
<1>6. PICK n \in 1..Latest : n = c + 1 /\ n - 1 = c
  BY <1>2, <1>5
<1>7. starts[n] = ns /\ p <= starts[n]
  <2>1. starts[n] = ns
    BY <1>1, <1>6, WholeRecords
  <2>2. c < n
    BY <1>2, <1>6
  <2> QED
    BY <1>1, <2>1, <2>2 DEF Between
<1>8. p = starts[n]
  BY <1>4, <1>7
<1>9. buffer_[1] = HeadByte(HeaderOf(n), 1)
  <2>1. 1 \in 1..header_size
    BY HeaderSizeFits
  <2>2. AllWhole(n - 1)
    BY <1>2, <1>6
  <2>3. starts[n] + 1 <= Len(log) => log[starts[n] + 1] = HeadByte(HeaderOf(n), 1)
    BY <2>1, <2>2, LayoutIs DEF PlacedIn
  <2> QED
    BY <1>1, <1>3, <1>8, <2>3
<1> QED
  BY <1>1, <1>6, <1>8, <1>9 DEF HeadByte

(* What passes the checksum where the reader stands is the record that     *)
(* starts there.                                                           *)
LEMMA ScanRecord ==
  ASSUME BytesSound, Layout, FileInPlace, AllWhole(Latest), BufferInPlace, checksum_,
         NEW c \in 0..Latest, Between(position, c), NEW h \in Headers, Consumes(h)
  PROVE  /\ c + 1 \in 1..Latest /\ position = starts[c + 1] /\ Written(kHeaderSize)
         /\ h.type = 1 /\ Fragment(h) = added[c + 1]
         /\ SizeOf(h) \in Nat /\ EndOf(c + 1) = position + SizeOf(h)
<1>0. /\ recycle_log_files_ \in BOOLEAN /\ buffer_ \in Seq(FileBytes)
      /\ ~Overruns(h) /\ ReaderCrc(h) = h.crc
  BY Sizes, LayoutIs, ScanIs DEF Consumes, ChecksumFails, WriterInv
<1>1. /\ ~recycle_log_files_ /\ Written(kHeaderSize) /\ h = buffer_[1].hdr /\ h \in SoundHeaders
      /\ h.crc = WriterCrc(h.type, 0, Fragment(h))
  BY <1>0, ChecksumProtects
<1>2. c + 1 \in 1..Latest /\ position = starts[c + 1] /\ h = HeaderOf(c + 1)
  BY <1>1, ScanHeader
<1>3. PICK i \in 1..Latest : i = c + 1
  BY <1>2
<1>4. /\ h = HeaderOf(i) /\ starts[i] = position /\ added[i] \in Seq(Data) /\ Whole(i)
      /\ EndOf(i) = position + header_size + Len(added[i])
  <2>1. Whole(i) /\ starts[i] = position /\ EndOf(i) = starts[i] + header_size + Len(added[i])
    BY <1>2, <1>3, WholeRecords DEF AllWhole
  <2> QED
    BY <1>2, <1>3, <2>1, LayoutIs DEF WriterInv
<1>5. /\ h.type = RecordTypeOf(TRUE, Whole(i)) /\ h.crc = WriterCrc(h.type, FirstLength(i), added[i])
      /\ h.type = 1
  <2>1. h.type = RecordTypeOf(TRUE, Whole(i)) /\ h.crc = WriterCrc(h.type, FirstLength(i), added[i])
    BY <1>4 DEF HeaderOf
  <2>2. RecordTypeOf(TRUE, Whole(i)) = 1
    BY <1>1, <1>4 DEF RecordTypeOf, kFullType, kFirstType, kMiddleType, kLastType
  <2> QED
    BY <2>1, <2>2
<1>6. Fragment(h) = added[i]
  <2>1. <<FieldByte(h.type)>> \o Fragment(h) = <<FieldByte(h.type)>> \o added[i]
    <3>1. /\ Fragment(h) \in Seq(FileBytes) /\ added[i] \in Seq(Data)
          /\ WriterCrc(h.type, 0, Fragment(h)) = <<FieldByte(h.type)>> \o Fragment(h)
          /\ WriterCrc(h.type, FirstLength(i), added[i]) = <<FieldByte(h.type)>> \o added[i]
      BY <1>0, <1>1, <1>4, FragmentIsBytes DEF WriterCrc
    <3> QED
      BY <1>1, <1>5, <3>1
  <2>2. PICK S : S = FileBytes \cup {FieldByte(h.type)}
    OBVIOUS
  <2>3. <<FieldByte(h.type)>> \in Seq(S) /\ Fragment(h) \in Seq(S) /\ added[i] \in Seq(S)
    <3>1. FileBytes \subseteq S /\ Data \subseteq S /\ FieldByte(h.type) \in S
      BY <2>2 DEF FileBytes
    <3>2. Fragment(h) \in Seq(FileBytes)
      BY <1>0, FragmentIsBytes
    <3>3. Seq(FileBytes) \subseteq Seq(S) /\ Seq(Data) \subseteq Seq(S)
      BY <3>1, SeqGrows
    <3> QED
      BY <1>4, <3>1, <3>2, <3>3
  <2> QED
    BY <2>1, <2>3, SameRest
<1>7. PICK l \in Nat, z \in Nat, s \in Nat :
        l = h.length /\ z = header_size /\ HeaderSizeOf(h.type) = z /\ s = SizeOf(h) /\ s = z + l
  <2>1. h.length \in Nat /\ header_size \in Nat
    BY <1>0, HeadersSound, HeaderSizeFits
  <2>2. HeaderSizeOf(h.type) = header_size
    <3>1. ~IsRecyclable(h.type)
      <4>1. ~IsRecyclable(1)
        BY DEF IsRecyclable, kRecyclableFullType, kRecyclableLastType
      <4>2. h.type = 1
        BY <1>5
      <4> QED
        BY Zenon, <4>1, <4>2
    <3> QED
      BY <1>1, <3>1 DEF HeaderSizeOf, header_size
  <2> QED
    BY <2>1, <2>2 DEF SizeOf
<1>8. l = Len(added[i])
  <2>1. s <= Len(buffer_) /\ Len(buffer_) \in Nat
    BY <1>0, <1>7, ScanIs DEF Overruns
  <2>2. Fragment(h) = SubSeq(buffer_, z + 1, s)
    BY <1>7 DEF Fragment
  <2>3. Len(Fragment(h)) = IF z < s THEN s - z ELSE 0
    BY <1>0, <2>1, <2>2, PieceIs
  <2>4. Len(Fragment(h)) = l
    BY <1>7, <2>3
  <2> QED
    BY <1>6, <2>4
<1>9. EndOf(i) = position + s
  <2>1. PICK p \in Nat : p = position
    BY ScanIs
  <2>2. EndOf(i) = p + z + l /\ s = z + l
    BY <1>4, <1>7, <1>8, <2>1
  <2>3. p + z + l = p + (z + l)
    OBVIOUS
  <2> QED
    BY <2>1, <2>2, <2>3
<1> QED
  BY <1>1, <1>2, <1>3, <1>5, <1>6, <1>7, <1>9

(* A whole record in the buffer: the first of them is at the front.        *)
WithinBuffer(j) == position <= starts[j] /\ EndOf(j) <= fpos

LEMMA StandsAtNext ==
  ASSUME BytesSound, Layout, AllWhole(Latest), BufferInPlace,
         NEW c \in 0..Latest, Between(position, c),
         NEW j \in 1..Latest, WithinBuffer(j)
  PROVE  /\ c + 1 \in 1..Latest /\ c + 1 <= j /\ position = starts[c + 1]
         /\ EndOf(c + 1) <= fpos
         /\ kHeaderSize <= Len(buffer_) /\ header_size + Len(added[c + 1]) <= Len(buffer_)
<1>1. PICK p \in Nat, n \in Nat, f \in Nat, i \in Nat, b \in Nat :
        /\ p = position /\ n = Len(buffer_) /\ f = fpos /\ i = InBlock(p) /\ b = kBlockSize
        /\ f = p + n /\ i + n <= b
  <2>1. InBlock(position) \in 0 .. kBlockSize - 1 /\ kBlockSize \in Nat
    BY ScanIs, Sizes
  <2>2. InBlock(position) \in Nat
    BY <2>1
  <2> QED
    BY <2>1, <2>2, ScanIs
<1>2. c \in Nat /\ Latest \in Nat /\ j \in Nat
  BY WholeRecords
<1>3. c < j
  <2> SUFFICES ASSUME j <= c PROVE FALSE
    BY <1>2
  <2>1. c \in 1..Latest
    BY <1>2
  <2>2. EndOf(j) <= EndOf(c)
    <3>1. j = c \/ j < c
      BY <1>2
    <3>2. j < c => EndOf(j) + header_size <= EndOf(c)
      BY <2>1, RecordsApart
    <3>3. EndOf(j) \in Nat /\ EndOf(c) \in Nat /\ header_size \in Nat
      BY <2>1, WholeRecords, HeaderSizeFits
    <3> QED
      BY <3>1, <3>2, <3>3
  <2>3. /\ EndOf(j) \in Nat /\ EndOf(c) \in Nat /\ starts[j] \in Nat /\ header_size \in Nat /\ 0 < header_size
        /\ starts[j] + header_size <= EndOf(j)
    BY <2>1, WholeRecords, HeaderSizeFits
  <2>4. EndOf(c) <= p /\ p <= starts[j]
    BY <1>1 DEF Between, WithinBuffer
  <2> QED
    BY <2>2, <2>3, <2>4
<1>4. PICK m \in 1..Latest : m = c + 1 /\ m - 1 = c /\ m <= j /\ c < m
  <2>1. c + 1 \in 1..Latest /\ (c + 1) - 1 = c /\ c + 1 <= j /\ c < c + 1
    BY <1>2, <1>3
  <2> QED
    BY <2>1
<1>5. PICK s \in Nat, z \in Nat, len \in Nat, e \in Nat :
        /\ s = starts[m] /\ z = header_size /\ len = Len(added[m]) /\ e = EndOf(m)
        /\ e = s + z + len /\ 0 < z
  BY WholeRecords, HeaderSizeFits
<1>6. p <= s
  BY <1>1, <1>4, <1>5 DEF Between
<1>7. e <= f
  <2>1. m = j \/ m < j
    BY <1>2, <1>4
  <2>2. m < j => EndOf(m) + header_size <= EndOf(j)
    BY RecordsApart
  <2>3. EndOf(j) \in Nat /\ EndOf(j) <= f
    BY <1>1, WholeRecords DEF WithinBuffer
  <2>4. CASE m = j
    BY <1>5, <2>3, <2>4
  <2>5. CASE m < j
    <3>1. PICK y \in Nat : y = EndOf(j)
      BY <2>3
    <3>2. e + z <= y /\ y <= f
      BY <1>5, <2>2, <2>3, <2>5, <3>1
    <3> QED
      BY <3>2
  <2> QED
    BY <2>1, <2>4, <2>5
<1>a. f = p + n /\ e = s + z + len /\ 0 < z /\ e <= f /\ p <= s
  BY <1>1, <1>5, <1>6, <1>7
<1>8. p = s
  <2>1. PICK g \in Nat : g = EndOf(c) /\ g <= p /\ s = NextStart(g)
    <3>1. EndOf(c) \in Nat /\ starts[m] = NextStart(EndOf(c))
      BY <1>4, WholeRecords
    <3> QED
      BY <1>1, <1>5, <3>1 DEF Between
  <2>2. s = g \/ InBlock(s) = 0
    BY <2>1, NextStartIs
  <2>3. CASE s = g
    BY <1>6, <2>1, <2>3
  <2>4. CASE InBlock(s) = 0
    <3>1. p < s => p + n <= s
      <4>1. InBlock(p) + n <= kBlockSize
        BY <1>1
      <4> QED
        BY <2>4, <4>1, BoundaryIsAhead
    <3> QED
      BY <1>a, <3>1
  <2> QED
    BY <2>2, <2>3, <2>4
<1>9. z + len <= n /\ z <= n
  BY <1>a, <1>8
<1>10. kHeaderSize <= n
  <2>1. z = kHeaderSize \/ z = kRecyclableHeaderSize
    BY <1>5 DEF header_size
  <2>2. kHeaderSize \in Nat /\ kRecyclableHeaderSize \in Nat /\ kHeaderSize < kRecyclableHeaderSize
    BY Sizes
  <2> QED
    BY <1>9, <2>1, <2>2
<1> QED
  BY <1>1, <1>4, <1>5, <1>7, <1>8, <1>9, <1>10

LEMMA QuotientIs ==
  ASSUME NEW b \in Nat, b > 0, NEW q \in Int, NEW r \in 0 .. b - 1
  PROVE  (b * q + r) \div b = q
OBVIOUS

LEMMA SameBlock ==
  ASSUME NEW s \in Nat, NEW n \in Nat, InBlock(s) + n <= kBlockSize,
         NEW at \in Nat, s <= at, at < s + n
  PROVE  BlockOf(at) = BlockOf(s)
<1>1. PICK b \in Nat : b = kBlockSize /\ b > 0
  BY Sizes
<1>2. PICK q \in Int, i \in 0 .. b - 1 : i = InBlock(s) /\ q = s \div b /\ s = b * q + i
  <2>1. InBlock(s) \in 0 .. b - 1 /\ s \div b \in Int /\ s = b * (s \div b) + InBlock(s)
    BY <1>1, InBlockIs, Quotients DEF InBlock
  <2> QED
    BY <2>1
<1>3. PICK d \in Nat : at = s + d /\ d < n
  <2>1. at - s \in Nat /\ at = s + (at - s) /\ at - s < n
    OBVIOUS
  <2> QED
    BY <2>1
<1>4. PICK r \in 0 .. b - 1 : r = i + d
  <2>1. i + n <= b
    BY <1>1, <1>2
  <2>2. i + d \in 0 .. b - 1
    BY <1>2, <1>3, <2>1
  <2> QED
    BY <2>2
<1>5. at = b * q + r
  <2>1. PICK m \in Int : m = b * q
    BY <1>1, <1>2
  <2>2. s = m + i /\ at = s + d /\ r = i + d
    BY <1>2, <1>3, <1>4, <2>1
  <2>3. at = m + r
    BY <2>2
  <2> QED
    BY <2>1, <2>3
<1>6. at \div b = q
  BY <1>1, <1>5, QuotientIs
<1> QED
  BY <1>1, <1>2, <1>6 DEF BlockOf

(* A log that was closed and is all on the file.                           *)
LEMMA WholeOnFile ==
  ASSUME BytesSound, Layout, RestInv, atRest, AllWhole(Latest)
  PROVE  /\ Latest = Len(added) /\ Len(log) \in Nat /\ Len(log) <= Len(file)
         /\ \A q \in 1..Len(log) : q # damaged => file[q] = log[q]
         /\ \A j \in 1..Latest : EndOf(j) <= Len(log)
<1>1. Latest = Len(added) /\ Len(log) = EndOf(Latest) /\ onFile = Len(log)
      /\ onFile <= Len(file) /\ \A q \in 1..onFile : q # damaged => file[q] = log[q]
  BY DEF RestInv, FirstCall, ClosedWhole, FileHoldsLog
<1>2. ASSUME NEW j \in 1..Latest PROVE EndOf(j) <= EndOf(Latest)
  <2>1. Latest \in 1..Latest /\ Latest \in Nat
    BY WholeRecords
  <2>2. j = Latest \/ j < Latest
    BY <2>1
  <2>3. j < Latest => EndOf(j) + header_size <= EndOf(Latest)
    BY <2>1, RecordsApart
  <2>4. EndOf(j) \in Nat /\ EndOf(Latest) \in Nat /\ header_size \in Nat
    BY <2>1, WholeRecords, HeaderSizeFits
  <2> QED
    BY <2>2, <2>3, <2>4
<1> QED
  BY <1>1, <1>2, LayoutIs

(* A whole record is given up with what is buffered only if the damaged    *)
(* byte is in the buffer too.                                              *)
LEMMA DropsDamaged ==
  ASSUME BytesSound, Layout, FileInPlace, RestInv, Damaged, BufferInPlace, atRest,
         NEW c \in 0..Latest, Between(position, c),
         NeedsMore \/ \E h \in Headers : DropBlock(h),
         NEW j \in 1..Latest, WithinBuffer(j)
  PROVE  InDamagedBlock(j)
<1>1. PICK p \in Nat, n \in Nat, f \in Nat : p = position /\ n = Len(buffer_) /\ f = fpos /\ f = p + n
  BY ScanIs
<1>2. AllWhole(Latest) /\ damaged \in Nat /\ damaged # 0 /\ ~recycle_log_files_ /\ header_size = kHeaderSize
  BY DEF Damaged, FileInPlace, header_size
<1>3. CASE p < damaged /\ damaged <= f
  <2>1. InBlock(p) + n <= kBlockSize
    BY <1>1, ScanIs
  <2>2. damaged - 1 \in Nat /\ p <= damaged - 1 /\ damaged - 1 < p + n
    BY <1>1, <1>2, <1>3
  <2>3. BlockOf(damaged - 1) = BlockOf(p)
    BY <2>1, <2>2, SameBlock
  <2>4. starts[j] \in Nat /\ p <= starts[j] /\ starts[j] < p + n
    <3>1. PICK s \in Nat, e \in Nat, z \in Nat : s = starts[j] /\ e = EndOf(j) /\ z = header_size
                                                 /\ s + z <= e /\ 0 < z
      BY <1>2, WholeRecords, HeaderSizeFits
    <3>2. p <= s /\ e <= f
      BY <1>1, <3>1 DEF WithinBuffer
    <3> QED
      BY <1>1, <3>1, <3>2
  <2>5. BlockOf(starts[j]) = BlockOf(p)
    BY <2>1, <2>4, SameBlock
  <2> QED
    BY <2>3, <2>5 DEF InDamagedBlock
<1>4. CASE ~(p < damaged /\ damaged <= f)
  <2>1. /\ c + 1 \in 1..Latest /\ c + 1 <= j /\ p = starts[c + 1] /\ c \in Nat /\ c < Latest
        /\ EndOf(c + 1) <= f
        /\ kHeaderSize <= n /\ kHeaderSize + Len(added[c + 1]) <= n
    <3>1. c \in Nat /\ Latest \in Nat
      BY <1>2, WholeRecords
    <3>2. /\ c + 1 \in 1..Latest /\ c + 1 <= j /\ p = starts[c + 1]
          /\ EndOf(c + 1) <= f
          /\ kHeaderSize <= n /\ kHeaderSize + Len(added[c + 1]) <= n
      BY <1>1, <1>2, StandsAtNext
    <3> QED
      BY <3>1, <3>2
  <2>2. Buffered(c + 1)
    <3>1. PICK size \in Nat, l \in Nat : size = kHeaderSize + Len(added[c + 1]) /\ l = Len(log)
      <4>1. Len(added[c + 1]) \in Nat
        BY <1>2, <2>1, WholeRecords
      <4>2. kHeaderSize \in Nat /\ Len(log) \in Nat
        BY <1>2, WholeOnFile, Sizes
      <4> QED
        BY <4>1, <4>2
    <3>2. p + size <= l
      <4>1. EndOf(c + 1) = p + kHeaderSize + Len(added[c + 1]) /\ EndOf(c + 1) <= l
        <5>1. EndOf(c + 1) = starts[c + 1] + header_size + Len(added[c + 1])
          BY <1>2, <2>1, WholeRecords
        <5>2. EndOf(c + 1) <= Len(log)
          BY <1>2, <2>1, WholeOnFile
        <5> QED
          BY <1>2, <2>1, <3>1, <5>1, <5>2
      <4>2. PICK z \in Nat, len \in Nat : z = kHeaderSize /\ len = Len(added[c + 1])
        BY <1>2, <2>1, WholeRecords, Sizes
      <4>3. p + z + len <= l /\ size = z + len
        BY <3>1, <4>1, <4>2
      <4> QED
        BY <4>3
    <3>3. size <= n
      BY <2>1, <3>1
    <3>4. ASSUME NEW q \in 1..size PROVE buffer_[q] = log[p + q]
      <4>1. q \in 1..n /\ p + q \in 1..l /\ p + q # damaged
        BY <1>1, <1>2, <1>4, <3>2, <3>3
      <4>2. buffer_[q] = file[p + q]
        BY <1>1, <4>1 DEF BufferInPlace
      <4>3. file[p + q] = log[p + q]
        BY <1>2, <3>1, <4>1, WholeOnFile
      <4> QED
        BY <4>2, <4>3
    <3> QED
      BY <1>1, <2>1, <3>1, <3>2, <3>3, <3>4 DEF Buffered
  <2>3. \A h \in Headers : ~TooShort(h) /\ ~Overruns(h) /\ ~IsZero(h) /\ ~ChecksumFails(h)
    <3>1. AllWhole(c + 1) /\ PayloadsInPlace
      <4>1. \A i \in 1..c + 1 : i \in 1..Latest
        BY <1>2, <2>1, WholeRecords
      <4> QED
        BY <1>2, <4>1 DEF AllWhole, RestInv
    <3> QED
      BY <1>2, <2>1, <2>2, <3>1, RecordIsGood
  <2>4. ~(Len(buffer_) < kHeaderSize)
    BY <1>1, <2>1, Sizes
  <2> QED
    BY <2>3, <2>4 DEF NeedsMore, DropBlock
<1> QED
  BY <1>3, <1>4

(* A header that seems to need more bytes than a plain one is one whose    *)
(* type is damaged.                                                        *)
StandsAt(j) == position = starts[j]

LEMMA LongHeaderIsDamaged ==
  ASSUME BytesSound, Layout, FileInPlace, Damaged, BufferInPlace,
         NEW c \in 0..Latest, Between(position, c), c + 1 \in 1..Latest, StandsAt(c + 1),
         NEW h \in Headers, TooShort(h)
  PROVE  damaged = position + kHeaderSize /\ Len(buffer_) < kRecyclableHeaderSize
<1> DEFINE byte == buffer_[kHeaderSize]
<1>1. /\ AllWhole(Latest) /\ ~recycle_log_files_ /\ header_size = kHeaderSize
      /\ kHeaderSize <= Len(buffer_) /\ Len(buffer_) \in Nat /\ buffer_ \in Seq(FileBytes)
      /\ h.type \in Nat /\ kHeaderSize \in 1..Len(buffer_)
  <2>1. /\ AllWhole(Latest) /\ ~recycle_log_files_ /\ header_size = kHeaderSize
        /\ kHeaderSize <= Len(buffer_) /\ Len(buffer_) \in Nat /\ buffer_ \in Seq(FileBytes)
        /\ h.type \in Nat
    BY ScanIs, HeadersSound DEF Damaged, header_size
  <2> QED
    BY <2>1, Sizes
<1>2. PICK m \in 1..Latest : m = c + 1 /\ m - 1 = c /\ m - 1 \in 0..Latest
  <2>1. c \in Nat /\ (c + 1) - 1 = c
    BY <1>1, WholeRecords
  <2> QED
    BY <2>1
<1>3. Len(buffer_) < kRecyclableHeaderSize /\ h.type \in 5..8
  <2>1. IsRecyclable(h.type) /\ Len(buffer_) < kRecyclableHeaderSize
    BY <1>1, Sizes DEF TooShort, HeaderSizeOf
  <2> QED
    BY <1>1, <2>1, Types
<1>4. HeaderOf(m).type = 1
  <2>1. Whole(m)
    BY <1>1 DEF AllWhole
  <2> QED
    BY <1>1, <2>1 DEF HeaderOf, RecordTypeOf, kFullType, kFirstType, kMiddleType, kLastType
<1>5. ~Written(kHeaderSize)
  <2> SUFFICES ASSUME Written(kHeaderSize) PROVE FALSE
    OBVIOUS
  <2>1. buffer_[1].hdr = HeaderOf(m)
    BY <1>1, <1>2, ScanHeader
  <2>2. h.type = 1
    BY <1>1, <1>4, <2>1, HeaderTypes
  <2> QED
    BY <1>3, <2>2
<1>6. PICK p \in Nat, z \in Nat : p = position /\ z = kHeaderSize /\ p + z \in 1..Len(file)
                                  /\ byte = file[p + z]
  <2>1. position \in Nat /\ kHeaderSize \in Nat /\ 0 < kHeaderSize /\ Len(file) \in Nat
    BY ScanIs, Sizes
  <2>2. position + kHeaderSize <= Len(file) /\ byte = file[position + kHeaderSize]
    BY <1>1 DEF BufferInPlace
  <2> QED
    BY <2>1, <2>2
<1>7. h.type \in TypesFrom(byte) /\ byte \in ByteAt(p + z)
  BY <1>1, <1>5, <1>6, HeaderTypes DEF FileInPlace
<1>8. byte # ZeroByte
  <2>1. TypesFrom(ZeroByte) = {0}
    BY DEF TypesFrom, kZeroType, ZeroByte
  <2> QED
    BY <1>3, <1>7, <2>1
<1>9. ~(p + z <= Len(log) /\ byte = log[p + z])
  <2> SUFFICES ASSUME p + z <= Len(log), byte = log[p + z] PROVE FALSE
    OBVIOUS
  <2>1. AllWhole(m - 1) /\ starts[m] = p /\ z \in 1..header_size
    <3>1. \A i \in 1..m - 1 : i \in 1..Latest
      <4>1. m \in Nat /\ Latest \in Nat /\ m <= Latest
        BY <1>1, WholeRecords
      <4> QED
        BY <4>1
    <3> QED
      BY <1>1, <1>2, <1>6, <3>1, Sizes DEF AllWhole, StandsAt
  <2>2. byte = HeadByte(HeaderOf(m), z)
    <3>1. \A q \in 1..header_size :
            starts[m] + q <= Len(log) => log[starts[m] + q] = HeadByte(HeaderOf(m), q)
      BY <2>1, LayoutIs DEF PlacedIn
    <3> QED
      BY <2>1, <3>1
  <2>3. byte.b = "head" /\ byte.at = kHeaderSize /\ byte.hdr = HeaderOf(m)
    BY <1>6, <2>2 DEF HeadByte
  <2>4. h.type = HeaderOf(m).type
    BY <1>7, <1>8, <2>3 DEF TypesFrom
  <2> QED
    BY <1>3, <1>4, <2>4
<1>10. damaged = p + z
  BY <1>7, <1>8, <1>9 DEF ByteAt
<1> QED
  BY <1>3, <1>6, <1>10

(* Reading the next block: what is left of the block before holds no       *)
(* record, or one whose type is damaged.                                   *)
LEMMA FetchMoves ==
  ASSUME BytesSound, Layout, FileInPlace, Damaged, BufferInPlace,
         kRecyclableHeaderSize <= 2 * kHeaderSize,
         NeedsMore, ~eof_, NEW c \in 0..Latest, Between(position, c)
  PROVE  \/ Between(fpos, c)
         \/ /\ c + 1 \in 1..Latest /\ damaged = starts[c + 1] + kHeaderSize
            /\ Between(fpos, c + 1)
<1>1. PICK p \in Nat, n \in Nat, f \in Nat : p = position /\ n = Len(buffer_) /\ f = fpos /\ f = p + n
  BY ScanIs
<1>2. AllWhole(Latest) /\ InBlock(f) = 0 /\ c \in Nat /\ Latest \in Nat /\ EndOf(c) \in Nat
  BY <1>1, WholeRecords, LayoutIs DEF Damaged, BufferInPlace
<1>3. Clear(f)
  BY <1>2, BoundaryIsClear
<1>4. CASE \A j \in 1..Latest : ~WithinBuffer(j)
  <2>1. EndOf(c) <= f
    <3>1. EndOf(c) <= p
      BY <1>1 DEF Between
    <3> QED
      BY <1>1, <1>2, <3>1
  <2>2. ASSUME NEW j \in 1..Latest, c < j PROVE f <= starts[j]
    <3>1. position <= starts[j]
      BY <2>2 DEF Between
    <3> QED
      BY <1>1, <1>3, <1>4, <3>1 DEF Clear, WithinBuffer
  <2> QED
    BY <1>1, <2>1, <2>2 DEF Between
<1>5. CASE \E j \in 1..Latest : WithinBuffer(j)
  <2>1. PICK j \in 1..Latest : WithinBuffer(j)
    BY <1>5
  <2>2. c + 1 \in 1..Latest /\ StandsAt(c + 1) /\ EndOf(c + 1) <= f /\ kHeaderSize <= n
    BY <1>1, <1>2, <2>1, StandsAtNext DEF StandsAt
  <2>3. PICK h \in Headers : TooShort(h)
    <3>1. ~(Len(buffer_) < kHeaderSize)
      BY <1>1, <2>2, Sizes
    <3> QED
      BY <3>1 DEF NeedsMore
  <2>4. damaged = position + kHeaderSize /\ Len(buffer_) < kRecyclableHeaderSize
    BY <2>2, <2>3, LongHeaderIsDamaged
  <2>5. PICK m \in 1..Latest : m = c + 1
    BY <2>2
  <2>6. PICK z \in Nat, e \in Nat : z = kHeaderSize /\ z = header_size /\ e = EndOf(m) /\ p + z <= e /\ n < z + z
    <3>1. header_size = kHeaderSize
      BY DEF Damaged, header_size
    <3>2. PICK z \in Nat, r \in Nat : z = kHeaderSize /\ r = kRecyclableHeaderSize /\ r <= 2 * z /\ n < r
      BY <1>1, <2>4, Sizes
    <3>3. n < z + z
      BY <3>2
    <3>4. EndOf(m) \in Nat /\ p + z <= EndOf(m)
      BY <1>1, <1>2, <2>2, <2>5, <3>1, <3>2, WholeRecords DEF StandsAt
    <3> QED
      BY <3>1, <3>2, <3>3, <3>4
  <2>7. ASSUME NEW i \in 1..Latest, m < i PROVE f <= starts[i]
    <3>1. f <= starts[i] \/ EndOf(i) <= f
      BY <1>3 DEF Clear
    <3>2. PICK y \in Nat : y = EndOf(i) /\ e + z <= y
      BY <1>2, <2>6, <2>7, WholeRecords, RecordsApart
    <3>3. ~(y <= f)
      BY <1>1, <2>6, <3>2
    <3> QED
      BY <3>1, <3>2, <3>3
  <2>8. Between(f, m)
    BY <1>2, <2>2, <2>5, <2>7 DEF Between
  <2> QED
    BY <1>1, <2>2, <2>4, <2>5, <2>8 DEF StandsAt
<1> QED
  BY <1>4, <1>5

(* How the three ways to go on move what is buffered.                      *)
LEMMA DropInPlace ==
  ASSUME BytesSound, BufferInPlace, buffer_' = <<>>, UNCHANGED <<fpos, eof_, file>>
  PROVE  BufferInPlace' /\ position' = fpos
<1>1. Len(buffer_') = 0 /\ fpos \in Nat /\ kBlockSize \in Nat /\ InBlock(fpos) \in 0 .. kBlockSize - 1
  BY ScanIs, InBlockIs, Sizes
<1>2. position' = fpos
  <2>1. position' = fpos' - Len(buffer_')
    BY DEF position
  <2>2. PICK n : n = Len(buffer_') /\ n = 0
    BY <1>1
  <2> QED
    BY <1>1, <2>1, <2>2
<1>3. InBlock(position)' = InBlock(fpos) /\ InBlock(fpos)' = InBlock(fpos)
  BY <1>2 DEF InBlock
<1>4. (InBlock(position) + Len(buffer_) <= kBlockSize)'
  <2>1. PICK n \in Nat, i \in Nat, b \in Nat : n = Len(buffer_') /\ n = 0 /\ i = InBlock(fpos) /\ b = kBlockSize /\ i < b
    BY <1>1
  <2>2. i + n <= b
    BY <2>1
  <2> QED
    BY <1>3, <2>1, <2>2
<1>5. \A q \in 1..Len(buffer_') : FALSE
  BY <1>1
<1> QED
  BY <1>1, <1>2, <1>3, <1>4, <1>5 DEF BufferInPlace

LEMMA FetchInPlace ==
  ASSUME BytesSound, BufferInPlace, Fetch(Chunk, FALSE), UNCHANGED file
  PROVE  BufferInPlace' /\ position' = fpos
<1>1. /\ ~eof_ /\ fpos' = fpos + Len(Chunk) /\ buffer_' = Chunk /\ eof_' = (Len(Chunk) < kBlockSize)
  BY DEF Fetch, Refilled, AtEnd
<1>2. PICK f \in Nat, b \in Nat, l \in Nat : f = fpos /\ b = kBlockSize /\ l = Len(file) /\ b > 0
  BY ScanIs, Sizes
<1>3. PICK m \in Nat : m = (IF f + b < l THEN f + b ELSE l) /\ m <= l
  <2>1. (IF f + b < l THEN f + b ELSE l) \in Nat /\ (IF f + b < l THEN f + b ELSE l) <= l
    OBVIOUS
  <2> QED
    BY <2>1
<1>4. Chunk = SubSeq(file, f + 1, m) /\ file \in Seq(FileBytes)
  BY <1>2, <1>3, ScanIs DEF Chunk, ReadAt
<1>5. /\ Len(Chunk) = IF f < m THEN m - f ELSE 0
      /\ \A q \in 1..Len(Chunk) : Chunk[q] = file[f + q]
  BY <1>2, <1>3, <1>4, PieceIs
<1>6. PICK n \in Nat : n = Len(Chunk) /\ n = IF f < m THEN m - f ELSE 0
  <2>1. (IF f < m THEN m - f ELSE 0) \in Nat
    OBVIOUS
  <2> QED
    BY <1>5, <2>1
<1>7. n <= b /\ (n > 0 => f + n <= l) /\ (n < b => l <= f + n)
  <2>1. CASE f + b < l
    BY <1>2, <1>3, <1>6, <2>1
  <2>2. CASE ~(f + b < l)
    BY <1>2, <1>3, <1>6, <2>2
  <2> QED
    BY <2>1, <2>2
<1>8. position' = f /\ fpos' = f + n /\ Len(buffer_') = n
  <2>1. position' = fpos' - Len(buffer_') /\ fpos' = f + n /\ Len(buffer_') = n
    BY Zenon, <1>1, <1>2, <1>6 DEF position
  <2> QED
    BY <2>1
<1>9. InBlock(position)' = 0 /\ InBlock(f) = 0
  BY <1>1, <1>2, <1>8 DEF BufferInPlace, InBlock
<1>10. ~eof_' => InBlock(fpos)' = 0
  <2>1. ~eof_' => n = b
    <3>1. ~eof_' => ~(n < b)
      BY Zenon, <1>1, <1>2, <1>6
    <3> QED
      BY <1>7, <3>1
  <2>2. n = b => InBlock(f + n) = 0
    BY <1>2, <1>9, InBlockMoves
  <2> QED
    BY <1>8, <2>1, <2>2 DEF InBlock
<1>11. eof_' => Len(file)' <= fpos'
  BY <1>1, <1>2, <1>6, <1>7, <1>8
<1>12. \A q \in 1..Len(buffer_') : (position' + q <= Len(file)') /\ buffer_'[q] = file'[position' + q]
  <2> TAKE q \in 1..Len(buffer_')
  <2>1. q \in 1..n /\ f + q <= l
    BY <1>7, <1>8
  <2> QED
    BY <1>1, <1>2, <1>5, <1>6, <1>8, <2>1
<1>13. InBlock(position)' + Len(buffer_') <= kBlockSize
  BY <1>2, <1>7, <1>8, <1>9
<1> QED
  BY <1>2, <1>8, <1>10, <1>11, <1>12, <1>13 DEF BufferInPlace

LEMMA RecordInPlace ==
  ASSUME BytesSound, BufferInPlace, NEW h \in Headers, Consumes(h), UNCHANGED file
  PROVE  BufferInPlace' /\ SizeOf(h) \in Nat /\ position' = position + SizeOf(h)
<1>1. UNCHANGED <<fpos, eof_>> /\ buffer_' = Rest(h) /\ ~Overruns(h)
  BY DEF Consumes
<1>2. PICK p \in Nat, n \in Nat, f \in Nat, b \in Nat, s \in Nat, l \in Nat :
        /\ p = position /\ n = Len(buffer_) /\ f = fpos /\ f = p + n /\ b = kBlockSize /\ s = SizeOf(h)
        /\ l = Len(file)
  <2>1. h.length \in Nat /\ HeaderSizeOf(h.type) \in Nat /\ kBlockSize \in Nat
    BY ScanIs, HeadersSound, Sizes DEF HeaderSizeOf
  <2>2. SizeOf(h) \in Nat
    BY <2>1 DEF SizeOf
  <2> QED
    BY <2>1, <2>2, ScanIs
<1>3. s <= n
  BY <1>1, <1>2 DEF Overruns
<1>4. Len(buffer_') = n - s /\ \A q \in 1..Len(buffer_') : buffer_'[q] = buffer_[s + q]
  <2>1. buffer_' = SubSeq(buffer_, s + 1, n) /\ buffer_ \in Seq(FileBytes) /\ n <= Len(buffer_)
    BY <1>1, <1>2, ScanIs DEF Rest
  <2>2. /\ Len(buffer_') = IF s < n THEN n - s ELSE 0
        /\ \A q \in 1..Len(buffer_') : buffer_'[q] = buffer_[s + q]
    BY <2>1, PieceIs
  <2>3. (IF s < n THEN n - s ELSE 0) = n - s
    BY <1>3
  <2> QED
    BY <2>2, <2>3
<1>5. PICK k \in Nat : k = n - s /\ k = Len(buffer_') /\ k + s = n
  BY <1>3, <1>4
<1>6. position' = p + s
  <2>1. position' = f - k
    BY <1>1, <1>2, <1>5 DEF position
  <2>2. f = p + n /\ k + s = n
    BY <1>2, <1>5
  <2> QED
    BY <2>1, <2>2
<1>7. PICK i \in Nat : i = InBlock(p) /\ i + n <= b /\ i < b
  <2>1. InBlock(p) \in 0 .. b - 1 /\ InBlock(p) + n <= b
    BY <1>2, ScanIs
  <2> QED
    BY <1>2, <2>1
<1>8. InBlock(p + s) + k <= b
  <2>1. i + s < b => InBlock(p + s) = i + s
    BY <1>2, <1>7, InBlockMoves
  <2>2. i + s = b => InBlock(p + s) = 0
    BY <1>2, <1>7, InBlockMoves
  <2>3. i + s <= b /\ (i + s) + k <= b /\ k <= b
    BY <1>5, <1>7
  <2>4. CASE i + s < b
    BY <2>1, <2>3, <2>4
  <2>5. CASE i + s = b
    BY <2>2, <2>3, <2>5
  <2> QED
    BY <2>3, <2>4, <2>5
<1>9. InBlock(position)' = InBlock(p + s) /\ InBlock(fpos)' = InBlock(fpos)
  BY <1>1, <1>6 DEF InBlock
<1>10. \A q \in 1..Len(buffer_') : (position' + q <= Len(file)') /\ buffer_'[q] = file'[position' + q]
  <2> TAKE q \in 1..Len(buffer_')
  <2>1. s + q \in 1..n /\ p + (s + q) = (p + s) + q
    BY <1>5
  <2>2. p + (s + q) <= l /\ buffer_[s + q] = file[p + (s + q)]
    BY <1>2, <2>1 DEF BufferInPlace
  <2> QED
    BY <1>2, <1>4, <1>6, <2>1, <2>2
<1>11. (~eof_ => InBlock(fpos) = 0)' /\ (eof_ => Len(file) <= fpos)'
  BY <1>1, <1>9 DEF BufferInPlace
<1> QED
  BY <1>2, <1>5, <1>6, <1>8, <1>9, <1>10, <1>11 DEF BufferInPlace

(* The records stay where they are when only the reader moves.             *)
RecordsAreKept == UNCHANGED <<starts, added, recycle_log_files_, damaged>>

LEMMA SameRecords ==
  ASSUME RecordsAreKept
  PROVE  /\ Latest' = Latest /\ (AllWhole(Latest)' <=> AllWhole(Latest))
         /\ \A j : EndOf(j)' = EndOf(j) /\ starts'[j] = starts[j] /\ added'[j] = added[j]
         /\ \A j : (InDamagedBlock(j)' <=> InDamagedBlock(j)) /\ (PassedOver(j)' <=> PassedOver(j))
BY DEF RecordsAreKept, Latest, AllWhole, Whole, EndOf, InBlock, header_size, InDamagedBlock, PassedOver,
       BlockOf

LEMMA MovesBetween ==
  ASSUME RecordsAreKept, NEW at, position' = at
  PROVE  /\ Clear(position)' <=> Clear(at)
         /\ \A c : Between(position, c)' <=> Between(at, c)
BY SameRecords DEF Clear, Between

(* What is left behind was returned or is in the block of the damage.      *)
Accounted(j) == added[j] \in Returned' \/ InDamagedBlock(j)

LEMMA OthersFollow ==
  ASSUME RecordsAreKept, Clear(position), OthersReturned, Returned \subseteq Returned',
         NEW at, position' = at,
         \A j \in 1..Latest : position <= starts[j] /\ EndOf(j) <= at => Accounted(j)
  PROVE  OthersReturned'
<1>1. ASSUME NEW j \in 1..Latest, EndOf(j) <= at PROVE Accounted(j)
  <2>1. CASE position <= starts[j]
    BY <1>1, <2>1
  <2>2. CASE EndOf(j) <= position
    BY <2>2 DEF OthersReturned, Accounted
  <2> QED
    BY <2>1, <2>2 DEF Clear
<1> QED
  BY <1>1, SameRecords DEF OthersReturned, Accounted

(* The reader gives up what it has buffered.                               *)
LEMMA DropKeepsScan ==
  ASSUME BytesSound, Layout, FileInPlace, RestInv, Damaged, Scan, atRest,
         NeedsMore \/ \E h \in Headers : DropBlock(h),
         buffer_' = <<>>, UNCHANGED <<fpos, eof_, file>>, RecordsAreKept, UNCHANGED <<leading, later>>
  PROVE  BufferInPlace' /\ Clear(position)' /\ OthersReturned'
<1>1. BufferInPlace /\ Clear(position) /\ OthersReturned /\ AllWhole(Latest)
  BY DEF Scan, Damaged
<1>2. PICK f \in Nat : f = fpos
  BY <1>1, ScanIs
<1>3. BufferInPlace' /\ position' = f
  BY <1>1, <1>2, DropInPlace
<1>4. PICK c \in 0..Latest : Between(position, c)
  BY <1>1, ClearIsBetween, ScanIs
<1>5. Clear(f)
  <2>1. CASE eof_
    <3>1. Len(file) <= f
      BY <1>1, <1>2, <2>1 DEF BufferInPlace
    <3>2. ASSUME NEW j \in 1..Latest PROVE EndOf(j) <= f
      <4>1. EndOf(j) <= Len(log) /\ Len(log) <= Len(file) /\ Len(log) \in Nat
        BY <1>1, WholeOnFile
      <4>2. EndOf(j) \in Nat /\ Len(file) \in Nat
        BY <1>1, WholeRecords, ScanIs
      <4> QED
        BY <3>1, <4>1, <4>2
    <3> QED
      BY <3>2 DEF Clear
  <2>2. CASE ~eof_
    <3>1. InBlock(f) = 0
      BY <1>1, <1>2, <2>2 DEF BufferInPlace
    <3> QED
      BY <1>1, <3>1, BoundaryIsClear
  <2> QED
    BY <2>1, <2>2
<1>6. Clear(position)'
  BY <1>3, <1>5, MovesBetween
<1>7. \A j \in 1..Latest : position <= starts[j] /\ EndOf(j) <= f => Accounted(j)
  BY <1>1, <1>2, <1>4, DropsDamaged DEF WithinBuffer, Accounted
<1>8. Returned \subseteq Returned'
  BY DEF Returned
<1> QED
  BY <1>1, <1>3, <1>6, <1>7, <1>8, OthersFollow

LEMMA FetchKeepsScan ==
  ASSUME BytesSound, Layout, FileInPlace, RestInv, Damaged, Scan,
         kRecyclableHeaderSize <= 2 * kHeaderSize,
         Fetch(Chunk, FALSE), UNCHANGED file, RecordsAreKept, UNCHANGED <<leading, later>>
  PROVE  /\ BufferInPlace' /\ Clear(position)'
         /\ atRest => OthersReturned'
         /\ ~stopped => (\A i \in 1..Latest : PassedOver(i) => SkipsTo(i))'
<1>1. BufferInPlace /\ Clear(position) /\ AllWhole(Latest) /\ NeedsMore /\ ~eof_
  BY DEF Scan, Damaged, Fetch
<1>2. PICK f \in Nat : f = fpos
  BY <1>1, ScanIs
<1>3. BufferInPlace' /\ position' = f
  BY <1>1, <1>2, FetchInPlace
<1>4. Clear(f)
  <2>1. InBlock(f) = 0
    BY <1>1, <1>2 DEF BufferInPlace
  <2> QED
    BY <1>1, <2>1, BoundaryIsClear
<1>5. Clear(position)'
  BY <1>3, <1>4, MovesBetween
<1>6. atRest => OthersReturned'
  <2> SUFFICES ASSUME atRest PROVE OthersReturned'
    OBVIOUS
  <2>1. PICK c \in 0..Latest : Between(position, c)
    BY <1>1, ClearIsBetween, ScanIs
  <2>2. \A j \in 1..Latest : position <= starts[j] /\ EndOf(j) <= f => Accounted(j)
    BY <1>1, <1>2, <2>1, DropsDamaged DEF WithinBuffer, Accounted
  <2>3. Returned \subseteq Returned'
    BY DEF Returned
  <2>4. OthersReturned
    BY DEF Scan
  <2> QED
    BY <1>1, <1>3, <2>2, <2>3, <2>4, OthersFollow
<1>7. ASSUME ~stopped, NEW i \in 1..Latest, PassedOver(i) PROVE SkipsTo(i)'
  <2>1. PICK c \in 0..Latest : /\ Between(position, c)
                               /\ \/ c = Len(leading) /\ c < i
                                  \/ c = Len(leading) + 1 /\ i <= c
    BY <1>7 DEF Scan, SkipsTo
  <2>2. CASE Between(f, c)
    <3>1. Between(position, c)'
      BY <1>3, <2>2, MovesBetween
    <3> QED
      BY <2>1, <3>1, SameRecords DEF SkipsTo
  <2>3. CASE c + 1 \in 1..Latest /\ damaged = starts[c + 1] + kHeaderSize /\ Between(f, c + 1)
    <3>1. PICK k \in 1..Latest : k = c + 1 /\ damaged = starts[k] + kHeaderSize /\ Between(f, k)
      BY <2>3
    <3>2. k = i
      <4>1. PICK s \in Nat, t \in Nat, z \in Nat, w \in Nat :
              s = starts[k] /\ t = starts[i] /\ z = kHeaderSize /\ w = header_size /\ 0 < w /\ s + z = t + z
        <5>1. starts[k] \in Nat /\ starts[i] \in Nat /\ kHeaderSize \in Nat
          BY <1>1, WholeRecords, Sizes
        <5>2. damaged = starts[i] + kHeaderSize
          BY <1>7 DEF PassedOver
        <5> QED
          BY <3>1, <5>1, <5>2, HeaderSizeFits
      <4>2. s = t
        BY <4>1
      <4>3. k < i => s + w <= t
        BY <1>1, <4>1, RecordsApart
      <4>4. i < k => t + w <= s
        BY <1>1, <4>1, RecordsApart
      <4>5. k \in Nat /\ i \in Nat
        BY <1>1, WholeRecords
      <4> QED
        BY <4>1, <4>2, <4>3, <4>4, <4>5
    <3>3. Between(position, k)'
      BY <1>3, <3>1, MovesBetween
    <3>4. k = Len(leading) + 1 /\ i <= k /\ k \in 0..Latest
      <4>1. c \in Nat /\ i \in Nat /\ Latest \in Nat /\ k \in Nat
        BY <1>1, WholeRecords
      <4>2. c = Len(leading)
        BY <2>1, <3>1, <3>2, <4>1
      <4> QED
        BY <3>1, <3>2, <4>1, <4>2
    <3> QED
      BY <3>3, <3>4, SameRecords DEF SkipsTo
  <2> QED
    BY <1>1, <1>2, <2>1, <2>2, <2>3, FetchMoves
<1>8. ~stopped => (\A i \in 1..Latest : PassedOver(i) => SkipsTo(i))'
  BY <1>7, SameRecords
<1> QED
  BY <1>3, <1>5, <1>6, <1>8

(* The reader is handed a record: to leading, or to later once it stopped. *)
Takes ==
  IF stopped THEN UNCHANGED leading /\ later' = later \cup {record'}
             ELSE leading' = Append(leading, record') /\ UNCHANGED later

LEMMA TakenIsReturned ==
  ASSUME BytesSound, Takes
  PROVE  Returned \subseteq Returned' /\ record' \in Returned'
<1>1. CASE stopped
  BY <1>1 DEF Takes, Returned
<1>2. CASE ~stopped
  <2>1. leading' = Append(leading, record') /\ UNCHANGED later /\ leading \in Seq(Seq(FileBytes))
    BY <1>2 DEF Takes, BytesSound, ReturnsSound
  <2>2. PICK n \in Nat : n = Len(leading) /\ Len(leading') = n + 1
    BY <2>1
  <2>3. leading'[n + 1] = record' /\ n + 1 \in DOMAIN leading'
        /\ \A q \in DOMAIN leading : q \in DOMAIN leading' /\ leading'[q] = leading[q]
    BY <2>1, <2>2
  <2>4. Range(leading) \subseteq Range(leading') /\ record' \in Range(leading')
    BY <2>3 DEF Range
  <2> QED
    BY <2>1, <2>4 DEF Returned
<1> QED
  BY <1>1, <1>2

(* The record whose type is damaged is not returned.                       *)
LEMMA DamagedTypeIsMet ==
  ASSUME BytesSound, Layout, AllWhole(Latest), BufferInPlace, DamageIsThere, Written(kHeaderSize),
         NEW m \in 1..Latest, StandsAt(m)
  PROVE  ~PassedOver(m)
<1> SUFFICES ASSUME PassedOver(m) PROVE FALSE
  OBVIOUS
<1>1. kHeaderSize \in 1..kHeaderSize /\ kHeaderSize \in 1..Len(buffer_)
  <2>1. kHeaderSize <= Len(buffer_)
    BY ScanIs, Sizes DEF Written
  <2> QED
    BY <2>1, ScanIs, Sizes
<1>2. damaged = position + kHeaderSize
  BY DEF PassedOver, StandsAt
<1>3. buffer_[kHeaderSize] = JunkByte
  BY <1>1, <1>2 DEF BufferInPlace, DamageIsThere
<1>4. buffer_[kHeaderSize] = HeadByte(buffer_[1].hdr, kHeaderSize)
  BY <1>1 DEF Written
<1>5. HeadByte(buffer_[1].hdr, kHeaderSize).b = "head" /\ JunkByte.b = "junk"
  BY DEF HeadByte, JunkByte
<1> QED
  BY <1>3, <1>4, <1>5

LEMMA RecordKeepsScan ==
  ASSUME BytesSound, Layout, FileInPlace, Damaged, DamageIsThere, Scan,
         \A i \in 1..Latest : PassedOver(i) => Without(i),
         NEW h \in Headers, FullRecord(h), Takes, UNCHANGED file, RecordsAreKept
  PROVE  /\ BufferInPlace' /\ Clear(position)'
         /\ OthersReturned => OthersReturned'
         /\ ~stopped => (\A i \in 1..Latest : PassedOver(i) => SkipsTo(i) /\ Without(i))'
<1>1. BufferInPlace /\ Clear(position) /\ AllWhole(Latest) /\ Consumes(h) /\ record' = Fragment(h)
      /\ checksum_
  BY DEF Scan, Damaged, FullRecord
<1>2. PICK at \in Nat : BufferInPlace' /\ position' = at /\ at = position + SizeOf(h)
  <2>1. BufferInPlace' /\ SizeOf(h) \in Nat /\ position' = position + SizeOf(h) /\ position \in Nat
    BY <1>1, RecordInPlace, ScanIs
  <2> QED
    BY <2>1
<1>3. ASSUME NEW c \in 0..Latest, Between(position, c)
      PROVE  /\ c + 1 \in 1..Latest /\ StandsAt(c + 1) /\ Written(kHeaderSize)
             /\ record' = added[c + 1] /\ at = EndOf(c + 1) /\ Between(at, c + 1)
  <2>1. /\ c + 1 \in 1..Latest /\ StandsAt(c + 1) /\ Written(kHeaderSize)
        /\ record' = added[c + 1] /\ at = EndOf(c + 1)
    BY <1>1, <1>2, <1>3, ScanRecord DEF StandsAt
  <2>2. c < Latest
    BY <1>1, <1>3, <2>1, WholeRecords
  <2>3. Between(EndOf(c + 1), c + 1)
    BY <1>1, <2>2, BehindNext
  <2> QED
    BY <2>1, <2>3
<1>4. PICK k \in 1..Latest : StandsAt(k) /\ Written(kHeaderSize) /\ record' = added[k]
                             /\ at = EndOf(k) /\ Between(at, k)
  <2>1. PICK c \in 0..Latest : Between(position, c)
    BY <1>1, ClearIsBetween, ScanIs
  <2> QED
    BY <1>3, <2>1
<1>5. Clear(position)'
  <2>1. k \in 0..Latest
    BY <1>1, WholeRecords
  <2>2. Clear(at)
    BY <1>1, <1>4, <2>1, BetweenIsClear
  <2> QED
    BY <1>2, <2>2, MovesBetween
<1>6. OthersReturned => OthersReturned'
  <2>1. ASSUME NEW j \in 1..Latest, position <= starts[j], EndOf(j) <= at PROVE Accounted(j)
    <3>1. j = k
      <4>1. PICK s \in Nat, t \in Nat, d \in Nat, e \in Nat, z \in Nat :
              /\ s = starts[k] /\ t = starts[j] /\ d = EndOf(k) /\ e = EndOf(j)
              /\ z = header_size /\ 0 < z /\ s <= t /\ e <= d
        <5>1. starts[k] \in Nat /\ starts[j] \in Nat /\ EndOf(k) \in Nat /\ EndOf(j) \in Nat
              /\ header_size \in Nat /\ 0 < header_size
          BY <1>1, WholeRecords, HeaderSizeFits
        <5>2. starts[k] <= starts[j] /\ EndOf(j) <= EndOf(k)
          BY <1>4, <2>1 DEF StandsAt
        <5> QED
          BY <5>1, <5>2
      <4>2. k < j => d + z <= e
        BY <1>1, <4>1, RecordsApart
      <4>3. j < k => t + z <= s
        BY <1>1, <4>1, RecordsApart
      <4>4. j \in Nat /\ k \in Nat
        BY <1>1, WholeRecords
      <4>5. ~(k < j)
        BY <4>1, <4>2
      <4>6. ~(j < k)
        BY <4>1, <4>3
      <4> QED
        BY <4>4, <4>5, <4>6
    <3> QED
      BY <1>4, <3>1, TakenIsReturned DEF Accounted
  <2> QED
    BY <1>1, <1>2, <2>1, TakenIsReturned, OthersFollow
<1>7. ASSUME ~stopped, NEW i \in 1..Latest, PassedOver(i) PROVE SkipsTo(i)' /\ Without(i)'
  <2>1. PICK c \in 0..Latest : /\ Between(position, c)
                               /\ \/ c = Len(leading) /\ c < i
                                  \/ c = Len(leading) + 1 /\ i <= c
    BY <1>7 DEF Scan, SkipsTo
  <2>2. PICK m \in 1..Latest : /\ m = c + 1 /\ m # i /\ m \in 0..Latest
                               /\ record' = added[m] /\ Between(at, m)
    <3>1. PICK m \in 1..Latest : m = c + 1 /\ StandsAt(m) /\ Written(kHeaderSize)
                                 /\ record' = added[m] /\ Between(at, m)
      BY <1>3, <2>1
    <3>2. m # i
      BY <1>1, <1>7, <3>1, DamagedTypeIsMet
    <3>3. m \in 0..Latest
      BY <1>1, WholeRecords
    <3> QED
      BY <3>1, <3>2, <3>3
  <2>t. leading' = Append(leading, record') /\ leading \in Seq(Seq(FileBytes))
    BY <1>7 DEF Takes, BytesSound, ReturnsSound
  <2>3. PICK n \in Nat : n = Len(leading) /\ Len(leading') = n + 1
    BY <2>t
  <2>4. leading'[n + 1] = added[m] /\ \A q \in 1..n : leading'[q] = leading[q]
    <3>1. leading'[n + 1] = record' /\ \A q \in 1..n : leading'[q] = leading[q]
      BY <2>t, <2>3
    <3> QED
      BY <2>2, <3>1
  <2>5. c \in Nat /\ m \in Nat /\ i \in Nat /\ Latest \in Nat /\ i <= Latest /\ m <= Latest
    BY <1>1, WholeRecords
  <2>6. \/ c = n /\ m = n + 1 /\ m < i
        \/ c = n + 1 /\ m = n + 2 /\ i <= n + 1
    BY <2>1, <2>2, <2>3, <2>5
  <2>7. SkipsTo(i)'
    <3>1. \/ m = Len(leading') /\ m < i
          \/ m = Len(leading') + 1 /\ i <= m
      BY <2>3, <2>5, <2>6
    <3>2. Between(position, m)'
      BY <1>2, <2>2, MovesBetween
    <3> QED
      BY <2>2, <3>1, <3>2, SameRecords DEF SkipsTo
  <2>8. Len(leading') < Latest
    BY <2>3, <2>5, <2>6
  <2>9. \A q \in 1..Len(leading') : leading'[q] = IF q < i THEN added[q] ELSE added[q + 1]
    <3> TAKE q \in 1..Len(leading')
    <3>1. CASE q = n + 1
      <4>1. (IF q < i THEN added[q] ELSE added[q + 1]) = added[m]
        BY <2>5, <2>6, <3>1
      <4> QED
        BY <2>4, <3>1, <4>1
    <3>2. CASE q # n + 1
      <4>1. q \in 1..n
        BY <2>3, <3>2
      <4>2. leading[q] = IF q < i THEN added[q] ELSE added[q + 1]
        BY <1>7, <2>3, <4>1 DEF Without
      <4> QED
        BY <2>4, <4>1, <4>2
    <3> QED
      BY <3>1, <3>2
  <2> QED
    BY <2>7, <2>8, <2>9, SameRecords DEF Without
<1> QED
  BY <1>2, <1>5, <1>6, <1>7, SameRecords

(* The reader stands still.                                                *)
LEMMA StillInPlace ==
  ASSUME UNCHANGED <<buffer_, fpos, eof_, file>>, RecordsAreKept, UNCHANGED <<leading, later>>
  PROVE  /\ BufferInPlace => BufferInPlace'
         /\ Clear(position) => Clear(position)'
         /\ OthersReturned => OthersReturned'
         /\ (\A i \in 1..Latest : PassedOver(i) => SkipsTo(i))
              => (\A i \in 1..Latest : PassedOver(i) => SkipsTo(i))'
<1>1. position' = position
  BY DEF position
<1>2. BufferInPlace => BufferInPlace'
  BY <1>1 DEF BufferInPlace, InBlock
<1>3. PICK at : at = position /\ position' = at
  BY <1>1
<1>4. Clear(position) => Clear(position)'
  BY <1>3, MovesBetween
<1>5. OthersReturned => OthersReturned'
  <2>1. Returned' = Returned
    BY DEF Returned
  <2> QED
    BY <1>1, <2>1, SameRecords DEF OthersReturned
<1>6. ASSUME NEW i, SkipsTo(i) PROVE SkipsTo(i)'
  BY <1>3, <1>6, MovesBetween, SameRecords DEF SkipsTo
<1> QED
  BY <1>2, <1>4, <1>5, <1>6, SameRecords

LEMMA WithoutStays ==
  ASSUME RecordsAreKept, UNCHANGED leading
  PROVE  (\A i \in 1..Latest : PassedOver(i) => Without(i))
           => (\A i \in 1..Latest : PassedOver(i) => Without(i))'
BY SameRecords DEF Without

(* What a call that is served does to the reader, if it reads from offset  *)
(* 0 a log none of whose records was cut.                                  *)
LEMMA ScanSteps ==
  ASSUME BytesSound, Layout, FileInPlace, Damaged, Scan, ~read_error_, Read
  PROVE  \/ /\ reply' = "nothing" /\ UNCHANGED <<fpos, eof_, read_error_, last_record_offset_>>
            /\ UNCHANGED end_of_buffer_offset_ /\ rpc' = "idle"
            /\ \/ UNCHANGED buffer_
               \/ buffer_' = <<>> /\ (NeedsMore \/ \E h \in Headers : DropBlock(h))
         \/ \E h \in Headers : FullRecord(h)
         \/ Fetch(Chunk, FALSE)
         \/ reply' = "nothing" /\ read_error_' = TRUE
<1>1. CASE Exhausted
  BY <1>1 DEF Exhausted, Return
<1>2. CASE FetchFromFile
  BY <1>2 DEF FetchFromFile, Fetch, Return
<1>3. CASE \E h \in Headers : Serve(h)
  <2>1. PICK h \in Headers : Serve(h)
    BY <1>3
  <2>2. CASE OldRecord(h)
    BY <2>2 DEF OldRecord, Return
  <2>3. CASE DropBlock(h)
    BY <2>3 DEF DropBlock, Return
  <2>4. ASSUME Consumes(h) PROVE h.type = 1
    <3>1. BufferInPlace /\ Clear(position) /\ AllWhole(Latest) /\ checksum_
      BY DEF Scan, Damaged
    <3>2. PICK c \in 0..Latest : Between(position, c)
      BY <3>1, ClearIsBetween, ScanIs
    <3> QED
      BY <2>4, <3>1, <3>2, ScanRecord
  <2>5. ~BelowInitialOffset(h)
    <3>1. PICK n \in Nat : n = RecordOffset(end_of_buffer_offset_)
      <4>1. end_of_buffer_offset_ \in Nat /\ Len(buffer_) \in Nat
        BY ScanIs DEF Scan, ScanStart
      <4>2. RecordOffset(end_of_buffer_offset_) \in Nat
        BY <4>1, LogReaderAssumption DEF RecordOffset
      <4> QED
        BY <4>2
    <3>2. initial_offset_ = 0 /\ ~(n < 0)
      BY DEF Damaged
    <3>3. ~StartsBelow(h)
      BY <3>1, <3>2 DEF StartsBelow, BufferStart
    <3> QED
      BY <3>3, Zenon DEF BelowInitialOffset
  <2>6. ~FirstOrMiddle(h)
    <3>1. FirstOrMiddle(h) => Consumes(h) /\ h.type \in {2, 3, 6, 7}
      BY Types DEF FirstOrMiddle
    <3>2. 1 \notin {2, 3, 6, 7}
      OBVIOUS
    <3> QED
      BY <2>4, <3>1, <3>2, Zenon
  <2>7. ~LastFragment(h)
    <3>1. LastFragment(h) => Consumes(h) /\ h.type \in {4, 8}
      BY Types DEF LastFragment
    <3>2. 1 \notin {4, 8}
      OBVIOUS
    <3> QED
      BY <2>4, <3>1, <3>2, Zenon
  <2>8. ~UnknownType(h)
    <3>1. UnknownType(h) => Consumes(h) /\ h.type \notin RecordTypes \ {kZeroType}
      BY DEF UnknownType
    <3>2. 1 \in RecordTypes \ {kZeroType}
      BY DEF RecordTypes, kZeroType, kMaxRecordType, kRecyclableLastType
    <3> QED
      BY <2>4, <3>1, <3>2, Zenon
  <2> QED
    BY <2>1, <2>2, <2>3, <2>5, <2>6, <2>7, <2>8 DEF Serve
<1> QED
  BY <1>1, <1>2, <1>3 DEF Read, ReaderStep

LEMMA ErrorStays ==
  ASSUME Read, read_error_
  PROVE  read_error_'
<1>1. CASE FetchFromFile
  BY Zenon, <1>1 DEF FetchFromFile, Fetch
<1>2. CASE ReaderStep
  <2>1. ASSUME NEW h, Serve(h) PROVE UNCHANGED read_error_
    BY Zenon, <2>1 DEF Serve, OldRecord, DropBlock, BelowInitialOffset, FullRecord,
       FirstOrMiddle, LastFragment, UnknownType, Consumes
  <2>2. Exhausted => UNCHANGED read_error_
    BY Zenon DEF Exhausted
  <2> QED
    BY <1>2, <2>1, <2>2 DEF ReaderStep
<1> QED
  BY <1>1, <1>2 DEF Read

LEMMA ReadKeepsScan ==
  ASSUME BytesSound, Layout, FileInPlace, RestInv, Damaged, DamageIsThere, ScanKept,
         kRecyclableHeaderSize <= 2 * kHeaderSize,
         Read, UNCHANGED dvars
  PROVE  ScanKept'
<1>1. /\ UNCHANGED <<file, reads, atRest>> /\ RecordsAreKept
      /\ stopped' = (stopped \/ reply' = "nothing")
      /\ IF reply' = "record" /\ ~stopped THEN leading' = Append(leading, record') ELSE UNCHANGED leading
      /\ later' = IF reply' = "record" /\ stopped THEN later \cup {record'} ELSE later
  BY DEF Read, wvars, dvars, RecordsAreKept
<1>2. rpc = "physical" /\ reads # 0 /\ reply = "none"
  BY ReadIsServed DEF RestInv, FirstCall, BytesSound, ReturnsSound
<1>3. UNCHANGED leading => \A i \in 1..Latest' : PassedOver(i)' => Without(i)'
  BY <1>1, WithoutStays, SameRecords DEF ScanKept
<1>4. CASE ~Scanning
  <2>1. stopped
    BY <1>4 DEF Scanning, ScanKept
  <2>2. stopped' /\ UNCHANGED leading
    BY Zenon, <1>1, <2>1
  <2>3. ~Scanning'
    <3>1. read_error_ \/ ~atRest
      BY <1>4, <2>1 DEF Scanning
    <3>2. read_error_ => read_error_'
      BY ErrorStays
    <3> QED
      BY <1>1, <2>2, <3>1, <3>2 DEF Scanning
  <2> QED
    BY <1>3, <2>2, <2>3 DEF ScanKept
<1>5. CASE Scanning
  <2>1. Scan /\ ~read_error_ /\ ScanStart
    BY <1>5 DEF Scanning, ScanKept, Scan
  <2>2. CASE /\ reply' = "nothing" /\ UNCHANGED <<fpos, eof_, read_error_, last_record_offset_>>
             /\ UNCHANGED end_of_buffer_offset_ /\ rpc' = "idle"
             /\ \/ UNCHANGED buffer_
                \/ buffer_' = <<>> /\ (NeedsMore \/ \E h \in Headers : DropBlock(h))
    <3>1. stopped' /\ UNCHANGED <<leading, later>>
      BY <1>1, <2>2
    <3>2. ASSUME atRest PROVE BufferInPlace' /\ Clear(position)' /\ OthersReturned'
      <4>1. CASE UNCHANGED buffer_
        BY <1>1, <2>1, <2>2, <3>1, <3>2, <4>1, StillInPlace DEF Scan
      <4>2. CASE buffer_' = <<>> /\ (NeedsMore \/ \E h \in Headers : DropBlock(h))
        BY <1>1, <2>1, <2>2, <3>1, <3>2, <4>2, DropKeepsScan
      <4> QED
        BY <2>2, <4>1, <4>2
    <3>3. ScanStart'
      BY <1>1, <1>2, <2>1, <2>2 DEF ScanStart
    <3>4. Scanning' => Scan'
      BY <1>1, <3>1, <3>2, <3>3 DEF Scanning, Scan
    <3> QED
      BY <1>3, <3>1, <3>4 DEF ScanKept
  <2>3. CASE \E h \in Headers : FullRecord(h)
    <3>1. PICK h \in Headers : FullRecord(h)
      BY <2>3
    <3>2. /\ reply' = "record" /\ rpc' = "idle" /\ UNCHANGED <<end_of_buffer_offset_, read_error_>>
          /\ last_record_offset_' = physical_record_offset
      BY <3>1 DEF FullRecord, Consumes, Return
    <3>3. Takes /\ stopped' = (stopped \/ FALSE)
      <4>1. reply' # "nothing"
        BY <3>2
      <4> QED
        BY Zenon, <1>1, <3>2, <4>1 DEF Takes
    <3>4. /\ BufferInPlace' /\ Clear(position)'
          /\ OthersReturned => OthersReturned'
          /\ ~stopped => (\A i \in 1..Latest : PassedOver(i) => SkipsTo(i) /\ Without(i))'
      BY <1>1, <2>1, <3>1, <3>3, RecordKeepsScan DEF ScanKept
    <3>5. ScanStart'
      BY <1>1, <1>2, <2>1, <3>2 DEF ScanStart
    <3>6. Scan'
      BY <1>1, <2>1, <3>3, <3>4, <3>5 DEF Scan
    <3>7. \A i \in 1..Latest' : PassedOver(i)' => Without(i)'
      <4>1. CASE stopped
        <5>1. UNCHANGED leading
          BY <3>3, <4>1 DEF Takes
        <5> QED
          BY <1>3, <5>1
      <4>2. CASE ~stopped
        BY <3>4, <4>2
      <4> QED
        BY <4>1, <4>2
    <3> QED
      BY <2>1, <3>2, <3>6, <3>7 DEF ScanKept
  <2>4. CASE Fetch(Chunk, FALSE)
    <3>1. /\ UNCHANGED <<rpc, reply, read_error_, last_record_offset_, physical_record_offset>>
          /\ end_of_buffer_offset_' = EndAfter(Chunk)
      BY <2>4 DEF Fetch
    <3>2. stopped' = (stopped \/ FALSE) /\ UNCHANGED <<leading, later>>
      <4>1. reply' # "nothing" /\ reply' # "record"
        BY <1>2, <3>1
      <4> QED
        BY Zenon, <1>1, <4>1
    <3>3. /\ BufferInPlace' /\ Clear(position)'
          /\ atRest => OthersReturned'
          /\ ~stopped => (\A i \in 1..Latest : PassedOver(i) => SkipsTo(i))'
      BY <1>1, <2>1, <2>4, <3>2, FetchKeepsScan
    <3>4. ScanStart'
      <4>1. Len(Chunk) \in Nat
        <5>1. buffer_' = Chunk
          BY <2>4 DEF Fetch, Refilled
        <5>2. buffer_' \in Seq(FileBytes)'
          BY BytesStaySound DEF BytesSound, ReturnsSound, Next
        <5> QED
          BY <5>1, <5>2
      <4>2. end_of_buffer_offset_' \in Nat
        BY <2>1, <3>1, <4>1 DEF ScanStart, EndAfter
      <4> QED
        BY <1>1, <1>2, <2>1, <3>1, <4>2 DEF ScanStart
    <3>5. Scan'
      BY <1>1, <2>1, <3>2, <3>3, <3>4 DEF Scan
    <3> QED
      BY <1>3, <2>1, <3>1, <3>2, <3>5 DEF ScanKept
  <2>5. CASE reply' = "nothing" /\ read_error_' = TRUE
    <3>1. stopped' /\ UNCHANGED leading
      BY <1>1, <2>5
    <3>2. ~Scanning'
      BY <2>5 DEF Scanning
    <3> QED
      BY <1>3, <3>1, <3>2 DEF ScanKept
  <2> QED
    BY <2>1, <2>2, <2>3, <2>4, <2>5, ScanSteps
<1> QED
  BY <1>4, <1>5

LEMMA NoSkip ==
  ASSUME initial_offset_ = 0
  PROVE  ~SkipFails
<1>1. 0 % kBlockSize = 0
  BY Sizes
<1>2. block_start_location = 0
  BY <1>1, Sizes DEF block_start_location
<1> QED
  BY <1>2 DEF SkipFails

LEMMA CallKeepsScan ==
  ASSUME BytesSound, Layout, RestInv, Damaged, ScanKept,
         CallRead(onFile = Len(log)) \/ KeepReading, UNCHANGED dvars
  PROVE  ScanKept'
<1>1. ReadRecord
  BY NoSkip DEF Damaged, CallRead, KeepReading
<1>2. /\ UNCHANGED <<buffer_, fpos, eof_, read_error_, last_record_offset_, file, leading, later>>
      /\ RecordsAreKept /\ reply' = "none"
  <2>1. UNCHANGED <<buffer_, fpos, eof_, read_error_, last_record_offset_>> /\ reply' = "none"
    BY <1>1 DEF ReadRecord
  <2>2. UNCHANGED <<file, leading, later>> /\ RecordsAreKept
    BY DEF CallRead, KeepReading, wvars, dvars, hvars, RecordsAreKept
  <2> QED
    BY <2>1, <2>2
<1>3. stopped' <=> stopped
  <2>1. reply' # "nothing"
    BY <1>2
  <2>2. CASE CallRead(onFile = Len(log))
    <3>1. stopped' = (stopped \/ reply' = "nothing")
      BY <2>2 DEF CallRead
    <3> QED
      BY <2>1, <3>1
  <2>3. CASE KeepReading
    BY <2>3 DEF KeepReading, hvars
  <2> QED
    BY <2>2, <2>3
<1>4. /\ reads' # 0 /\ reads \in Nat /\ (reads = 0 => ~stopped /\ ~atRest)
      /\ reads # 0 => UNCHANGED atRest
  <2>1. reads \in Nat /\ (reads = 0 => ~stopped /\ ~atRest)
    BY DEF RestInv, FirstCall
  <2>2. CASE CallRead(onFile = Len(log))
    <3>1. reads' = reads + 1
      BY <2>2 DEF CallRead
    <3>2. reads # 0 => UNCHANGED atRest
      BY Zenon, <2>2 DEF CallRead
    <3> QED
      BY <2>1, <3>1, <3>2
  <2>3. CASE KeepReading
    BY <2>1, <2>3 DEF KeepReading, hvars
  <2> QED
    BY <2>2, <2>3
<1>5. \A i \in 1..Latest' : PassedOver(i)' => Without(i)'
  BY <1>2, WithoutStays, SameRecords DEF ScanKept
<1>6. ASSUME Scanning' PROVE Scan'
  <2>1. Scanning /\ Scan
    <3>1. Scanning
      BY <1>2, <1>3, <1>4, <1>6 DEF Scanning
    <3> QED
      BY <3>1 DEF ScanKept
  <2>2. /\ BufferInPlace' /\ Clear(position)'
        /\ OthersReturned => OthersReturned'
        /\ ~stopped => (\A i \in 1..Latest : PassedOver(i) => SkipsTo(i))'
    BY <1>2, <2>1, StillInPlace DEF Scan
  <2>3. ScanStart'
    <3>1. PICK end \in Nat : /\ end_of_buffer_offset_' = end
                             /\ physical_record_offset' = RecordOffset(end)
      <4>1. (IF SkipsNow THEN 0 ELSE end_of_buffer_offset_) \in Nat
        BY <2>1 DEF Scan, ScanStart
      <4> QED
        BY <1>1, <4>1 DEF ReadRecord
    <3>2. RecordOffset(end) \in Nat
      <4>1. Len(buffer_) \in Nat
        BY <2>1, ScanIs DEF Scan
      <4> QED
        BY <4>1, LogReaderAssumption DEF RecordOffset
    <3> QED
      BY <1>2, <1>4, <2>1, <3>1, <3>2 DEF Scan, ScanStart
  <2>4. atRest' => OthersReturned
    <3>1. CASE reads # 0
      BY <1>4, <2>1, <3>1 DEF Scan
    <3>2. CASE reads = 0
      <4>1. position = 0
        BY <2>1, <3>2 DEF Scan, ScanStart
      <4>2. ASSUME NEW j \in 1..Latest PROVE ~(EndOf(j) <= 0)
        <5>1. AllWhole(Latest) /\ header_size \in Nat /\ 0 < header_size
          BY HeaderSizeFits DEF Damaged
        <5>2. starts[j] \in Nat /\ EndOf(j) \in Nat /\ starts[j] + header_size <= EndOf(j)
          BY <5>1, WholeRecords
        <5> QED
          BY <5>1, <5>2
      <4> QED
        BY <4>1, <4>2 DEF OthersReturned
    <3> QED
      BY <3>1, <3>2
  <2> QED
    BY <1>3, <2>2, <2>3, <2>4 DEF Scan
<1> QED
  BY <1>2, <1>3, <1>5, <1>6 DEF ScanKept

(* A file is damaged before the first call: the reader stands at its start.*)
LEMMA DamageStartsScan ==
  ASSUME BytesSound, PrefixInv, OffsetsInv, RestInv, Damage, Damaged'
  PROVE  ScanKept'
<1>1. /\ damaged = 0 /\ reads = 0 /\ checksum_ /\ ~recycle_log_files_
      /\ Layout /\ FileInPlace
      /\ UNCHANGED <<starts, added, recycle_log_files_, rvars, hvars, wvars, log, onFile>>
  BY DEF Damage, Readable, PrefixInv, wvars
<1>2. Following /\ OffsetsFollow
  BY <1>1, NoneIsPassedOver DEF PrefixInv, OffsetsInv
<1>3. ~stopped /\ ~atRest /\ rpc = "idle" /\ buffer_ = <<>> /\ ~eof_
  BY <1>1 DEF RestInv, FirstCall
<1>4. ReaderInPlace /\ Counting /\ fpos = 0 /\ ~read_error_ /\ last_record_offset_ \in Nat
      /\ end_of_buffer_offset_ = 0
  BY <1>1, <1>2, <1>3 DEF Following, OffsetsFollow, ReaderInPlace, Counting
<1>5. position' = 0 /\ position = 0 /\ Len(buffer_) = 0 /\ buffer_' = <<>> /\ fpos' = 0 /\ ~eof_'
  <2>1. Len(<<>>) = 0 /\ Len(buffer_) = 0
    BY <1>3
  <2>2. buffer_' = <<>> /\ fpos' = 0 /\ ~eof_' /\ Len(buffer_)' = 0
    BY <1>1, <1>3, <1>4, <2>1 DEF rvars
  <2>3. PICK n : n = Len(buffer_) /\ n = 0 /\ fpos - n = 0
    BY <1>4, <2>1
  <2>4. PICK m : m = Len(buffer_)' /\ m = 0 /\ fpos' - m = 0
    BY <2>2
  <2>5. position = 0
    BY <2>3 DEF position
  <2>6. position' = 0
    BY <2>4 DEF position
  <2> QED
    BY <1>3, <2>1, <2>2, <2>5, <2>6
<1>6. Len(leading) = 0
  <2>1. Len(leading) \in 0..Latest /\ AllWhole(Len(leading)) /\ EndOf(Len(leading)) <= 0
    BY <1>1, <1>4, <1>5, ReaderIs DEF ReaderInPlace, InStep
  <2>2. CASE Len(leading) # 0
    <3>1. PICK k \in 1..Latest : k = Len(leading)
      BY <2>1, <2>2
    <3>2. EndOf(k) = starts[k] + header_size + Len(added[k]) /\ starts[k] \in Nat /\ Len(added[k]) \in Nat
      BY <1>1, LayoutIs
    <3>3. header_size \in Nat /\ 0 < header_size
      BY HeaderSizeFits
    <3> QED
      BY <2>1, <3>1, <3>2, <3>3
  <2> QED
    BY <2>2
<1>7. starts \in Seq(Nat) /\ Latest \in Nat /\ Latest' = Latest /\ leading' = leading /\ added' = added
      /\ starts' = starts /\ EndOf(0) = 0 /\ EndOf(0)' = 0
  BY <1>1, LayoutIs DEF Latest, hvars, EndOf
<1>8. Between(position, 0)'
  <2>1. \A j \in 1..Latest : starts[j] \in Nat
    BY <1>1, LayoutIs
  <2>2. \A j \in 1..Latest : 0 <= starts[j]
    BY <2>1
  <2> QED
    BY <1>5, <1>7, <2>2 DEF Between
<1>9. Clear(position)'
  <2>1. \A j \in 1..Latest : starts[j] \in Nat
    BY <1>1, LayoutIs
  <2>2. \A j \in 1..Latest : 0 <= starts[j]
    BY <2>1
  <2> QED
    BY <1>5, <1>7, <2>2 DEF Clear
<1>10. BufferInPlace'
  <2>1. InBlock(0) = 0 /\ kBlockSize \in Nat
    BY Sizes DEF InBlock
  <2>2. InBlock(position)' = 0 /\ InBlock(fpos)' = 0
    BY <1>5, <2>1 DEF InBlock
  <2>3. Len(buffer_') = 0
    BY <1>5
  <2> QED
    BY <1>5, <2>1, <2>2, <2>3 DEF BufferInPlace
<1>11. ScanStart'
  BY <1>1, <1>3, <1>4, <1>5 DEF ScanStart, rvars
<1>12. ~stopped' /\ ~atRest' /\ ~read_error_'
  BY <1>1, <1>3, <1>4 DEF hvars, rvars
<1>13. ASSUME NEW i \in 1..Latest' PROVE Without(i)' /\ SkipsTo(i)'
  <2>1. i \in 1..Latest /\ 0 < i /\ 0 < Latest /\ 0 \in 0..Latest
    BY <1>7
  <2>2. Without(i)'
    <3>1. Len(leading') = 0 /\ 0 < Latest'
      BY <1>6, <1>7, <2>1
    <3> QED
      BY <3>1 DEF Without
  <2>3. SkipsTo(i)'
    <3>1. Len(leading)' = 0 /\ Latest' = Latest
      BY <1>6, <1>7
    <3> QED
      BY <1>8, <2>1, <3>1 DEF SkipsTo
  <2> QED
    BY <2>2, <2>3
<1> QED
  BY <1>9, <1>10, <1>11, <1>12, <1>13 DEF ScanKept, Scan

LEMMA StillKeepsScan ==
  ASSUME UNCHANGED <<rvars, hvars, file>>, RecordsAreKept, ScanKept
  PROVE  ScanKept'
<1>1. /\ UNCHANGED <<buffer_, fpos, eof_, read_error_, last_record_offset_, end_of_buffer_offset_, rpc>>
      /\ UNCHANGED <<physical_record_offset, reads, leading, later, stopped, atRest, position>>
  BY DEF rvars, hvars, position
<1>2. \A i \in 1..Latest' : PassedOver(i)' => Without(i)'
  BY <1>1, WithoutStays, SameRecords DEF ScanKept
<1>3. ASSUME Scan PROVE Scan'
  <2>1. /\ BufferInPlace' /\ Clear(position)'
        /\ OthersReturned => OthersReturned'
        /\ ~stopped => (\A i \in 1..Latest : PassedOver(i) => SkipsTo(i))'
    BY <1>1, <1>3, StillInPlace DEF Scan
  <2>2. ScanStart'
    BY <1>1, <1>3 DEF Scan, ScanStart
  <2> QED
    BY <1>1, <1>3, <2>1, <2>2 DEF Scan
<1> QED
  BY <1>1, <1>2, <1>3 DEF ScanKept, Scanning

LEMMA StepOfReader ==
  ASSUME [Next \/ KeepReading]_vars
  PROVE  \/ Read /\ UNCHANGED dvars
         \/ (CallRead(onFile = Len(log)) \/ KeepReading) /\ UNCHANGED dvars
         \/ UNCHANGED <<rvars, hvars>>
<1>1. KeepReading => UNCHANGED dvars
  BY DEF KeepReading
<1>2. Destination \/ Damage \/ Write(Len(log)) \/ Crash \/ UNCHANGED vars => UNCHANGED <<rvars, hvars>>
  BY DEF Destination, Damage, Write, Crash, vars
<1> QED
  BY <1>1, <1>2 DEF Next

LEMMA OffsetIsKept ==
  ASSUME [Next \/ KeepReading]_vars
  PROVE  UNCHANGED initial_offset_
<1>1. CASE UNCHANGED rvars
  BY <1>1 DEF rvars
<1>2. CASE SkipFails \/ ReadRecord
  BY Zenon, <1>2 DEF SkipFails, ReadRecord
<1>3. CASE Read
  <2>1. FetchFromFile => UNCHANGED initial_offset_
    BY Zenon DEF FetchFromFile, Fetch
  <2>2. ASSUME NEW h, Serve(h) PROVE UNCHANGED initial_offset_
    BY Zenon, <2>2 DEF Serve, OldRecord, DropBlock, BelowInitialOffset, FullRecord,
       FirstOrMiddle, LastFragment, UnknownType, Consumes
  <2>3. Exhausted => UNCHANGED initial_offset_
    BY Zenon DEF Exhausted
  <2> QED
    BY <1>3, <2>1, <2>2, <2>3 DEF Read, ReaderStep
<1> QED
  BY <1>1, <1>2, <1>3, StepOfReader DEF CallRead, KeepReading

LEMMA NothingIsNoted ==
  ASSUME ScanInv, [Next \/ KeepReading]_vars, reply' = "nothing", initial_offset_' = 0
  PROVE  stopped'
<1>1. initial_offset_ = 0
  BY OffsetIsKept
<1>2. CASE Read
  BY <1>2 DEF Read
<1>3. CASE CallRead(onFile = Len(log))
  BY <1>3 DEF CallRead
<1>4. CASE KeepReading
  <2>1. reply' = "none"
    BY <1>1, <1>4, NoSkip DEF KeepReading, ReadRecord
  <2> QED
    BY <2>1
<1>5. CASE UNCHANGED <<rvars, hvars>>
  BY <1>1, <1>5 DEF ScanInv, rvars, hvars
<1> QED
  BY <1>2, <1>3, <1>4, <1>5, StepOfReader

(* Once a byte is damaged nothing but the reader moves.                    *)
LEMMA OnlyReaderMoves ==
  ASSUME BytesSound, PrefixInv, [Next \/ KeepReading]_vars, ~Damage, damaged' # 0
  PROVE  damaged # 0 /\ UNCHANGED file /\ RecordsAreKept
<1>1. UNCHANGED damaged
  BY DEF Next, KeepReading, Destination, vars, dvars
<1>2. wpc = "dropped" /\ damaged # 0
  BY <1>1 DEF PrefixInv, FileInPlace
<1> QED
  BY <1>1, <1>2, GoneForGood DEF PrefixInv, RecordsAreKept

LEMMA ScanInvStays ==
  ASSUME AppendsSucceed, kRecyclableHeaderSize <= 2 * kHeaderSize,
         BytesSound, PrefixInv, OffsetsInv, RestInv, ScanInv, [Next \/ KeepReading]_vars
  PROVE  ScanInv'
<1>1. reply' = "nothing" /\ initial_offset_' = 0 => stopped'
  BY NothingIsNoted
<1>2. UNCHANGED <<checksum_, initial_offset_>>
  BY OffsetIsKept DEF Next, KeepReading, Destination, Damage, Write, Crash, CallRead, Read,
     rvars, vars
<1>3. CASE Damage
  <2>1. DamageIsThere'
    <3>1. PICK i \in 1..Len(file) : damaged' = i /\ file' = [file EXCEPT ![i] = JunkByte]
      BY <1>3 DEF Damage
    <3>2. file \in Seq(FileBytes)
      BY DEF BytesSound
    <3>3. Len(file') = Len(file) /\ file'[i] = JunkByte
      BY <3>1, <3>2
    <3> QED
      BY <3>1, <3>3 DEF DamageIsThere
  <2>2. Damaged' => ScanKept'
    BY <1>3, DamageStartsScan
  <2> QED
    BY <1>1, <2>1, <2>2 DEF ScanInv
<1>4. CASE ~Damage /\ damaged' = 0
  BY <1>1, <1>4 DEF ScanInv, Damaged
<1>5. CASE ~Damage /\ damaged' # 0
  <2>1. damaged # 0 /\ UNCHANGED file /\ RecordsAreKept
    BY <1>5, OnlyReaderMoves
  <2>2. DamageIsThere /\ DamageIsThere'
    BY <2>1 DEF ScanInv, DamageIsThere, RecordsAreKept
  <2>3. Damaged' => Damaged
    BY <1>2, <2>1, SameRecords DEF Damaged, RecordsAreKept
  <2>4. ASSUME Damaged' PROVE ScanKept'
    <3>1. Damaged /\ ScanKept
      BY <2>3, <2>4 DEF ScanInv
    <3>2. CASE Read /\ UNCHANGED dvars
      BY <2>2, <3>1, <3>2, ReadKeepsScan DEF PrefixInv
    <3>3. CASE (CallRead(onFile = Len(log)) \/ KeepReading) /\ UNCHANGED dvars
      BY <3>1, <3>3, CallKeepsScan DEF PrefixInv
    <3>4. CASE UNCHANGED <<rvars, hvars>>
      BY <2>1, <3>1, <3>4, StillKeepsScan
    <3> QED
      BY <3>2, <3>3, <3>4, StepOfReader
  <2> QED
    BY <1>1, <2>2, <2>4 DEF ScanInv
<1> QED
  BY <1>3, <1>4, <1>5

LEMMA ScanInvAtFirst == Init => ScanInv
BY DEF Init, RecoveryInit, ReaderInit, ScanInv, Damaged

LEMMA RemovedIs ==
  ASSUME NEW S, NEW s \in Seq(S), NEW i \in 1..Len(s), NEW t, t = RemoveAt(s, i)
  PROVE  /\ t \in Seq(S) /\ Len(t) = Len(s) - 1
         /\ \A m \in 1..Len(t) : t[m] = IF m < i THEN s[m] ELSE s[m + 1]
<1> DEFINE a == SubSeq(s, 1, i - 1)
           b == SubSeq(s, i + 1, Len(s))
<1>1. a \in Seq(S) /\ Len(a) = i - 1 /\ \A m \in 1 .. i - 1 : a[m] = s[m]
  OBVIOUS
<1>2. b \in Seq(S) /\ Len(b) = Len(s) - i /\ \A m \in 1 .. Len(s) - i : b[m] = s[m + i]
  OBVIOUS
<1>3. t = a \o b
  BY DEF RemoveAt
<1>4. Len(s) \in Nat /\ i \in Nat /\ i <= Len(s)
  OBVIOUS
<1> HIDE DEF a, b
<1>5. t \in Seq(S) /\ Len(t) = Len(s) - 1
  BY <1>1, <1>2, <1>3, <1>4
<1>6. ASSUME NEW m \in 1..Len(t) PROVE t[m] = IF m < i THEN s[m] ELSE s[m + 1]
  <2>1. m \in Nat /\ m <= Len(s) - 1 /\ 1 <= m
    BY <1>4, <1>5
  <2>2. CASE m < i
    BY <1>1, <1>2, <1>3, <1>4, <2>1, <2>2
  <2>3. CASE ~(m < i)
    <3>1. PICK k \in 1 .. Len(s) - i : k = m - (i - 1) /\ k + i = m + 1
      <4>1. m - (i - 1) \in 1 .. Len(s) - i /\ m - (i - 1) + i = m + 1
        BY <1>4, <2>1, <2>3
      <4> QED
        BY <4>1
    <3>2. t[m] = b[k]
      BY <1>1, <1>2, <1>3, <1>4, <2>1, <2>3, <3>1
    <3>3. b[k] = s[m + 1]
      BY <1>2, <3>1
    <3> QED
      BY <2>3, <3>2, <3>3
  <2> QED
    BY <2>2, <2>3
<1> QED
  BY <1>5, <1>6

LEMMA WithoutIsPrefix ==
  ASSUME BytesSound, Layout, NEW i \in 1..Latest, Without(i)
  PROVE  IsPrefix(leading, RemoveAt(added, i))
<1>1. added \in Seq(Seq(FileBytes)) /\ leading \in Seq(Seq(FileBytes))
  <2>1. Data \subseteq FileBytes
    BY DEF FileBytes
  <2>2. Seq(Seq(Data)) \subseteq Seq(Seq(FileBytes))
    BY <2>1, SeqGrows
  <2> QED
    BY <2>2, LayoutIs DEF WriterInv, BytesSound, ReturnsSound
<1>2. Latest \in Nat /\ Latest <= Len(added) /\ i \in 1..Len(added) /\ Len(added) \in Nat
  BY LayoutIs
<1>3. PICK t : t = RemoveAt(added, i)
  OBVIOUS
<1>4. /\ t \in Seq(Seq(FileBytes)) /\ Len(t) = Len(added) - 1
      /\ \A m \in 1..Len(t) : t[m] = IF m < i THEN added[m] ELSE added[m + 1]
  <2>1. PICK S : S = Seq(FileBytes)
    OBVIOUS
  <2>2. added \in Seq(S)
    BY <1>1, <2>1
  <2>3. /\ t \in Seq(S) /\ Len(t) = Len(added) - 1
        /\ \A m \in 1..Len(t) : t[m] = IF m < i THEN added[m] ELSE added[m + 1]
    BY <1>2, <1>3, <2>2, RemovedIs
  <2> QED
    BY <2>1, <2>3
<1>5. PICK n \in Nat : n = Len(leading) /\ n <= Len(t)
  BY <1>1, <1>2, <1>4 DEF Without
<1>6. \A m \in 1..n : leading[m] = t[m]
  <2>1. \A m \in 1..n : m \in 1..Len(t)
    BY <1>4, <1>5
  <2> QED
    BY <1>4, <1>5, <2>1 DEF Without
<1>7. SubSeq(leading, 1, n) = SubSeq(t, 1, n)
  <2>1. /\ SubSeq(leading, 1, n) \in Seq(Seq(FileBytes)) /\ Len(SubSeq(leading, 1, n)) = n
        /\ \A m \in 1..n : SubSeq(leading, 1, n)[m] = leading[m]
    BY <1>1, <1>5
  <2>2. /\ SubSeq(t, 1, n) \in Seq(Seq(FileBytes)) /\ Len(SubSeq(t, 1, n)) = n
        /\ \A m \in 1..n : SubSeq(t, 1, n)[m] = t[m]
    BY <1>4, <1>5
  <2> QED
    BY <1>6, <2>1, <2>2, SameSequence
<1> QED
  BY <1>3, <1>5, <1>7 DEF IsPrefix

(* A caller that reads on to the end is given every record of the blocks   *)
(* that the damage is not in.                                              *)
LEMMA OthersAreReturned ==
  ASSUME BytesSound, Layout, RestInv, ScanInv, checksum_, initial_offset_ = 0, ~recycle_log_files_,
         AllWhole(Latest), atRest, ~read_error_, Finished,
         NEW i \in 1..Len(added), ~InDamagedBlock(i)
  PROVE  added[i] \in Returned
<1>1. /\ Latest = Len(added) /\ Len(log) \in Nat /\ Len(log) <= Len(file)
      /\ EndOf(i) <= Len(log) /\ EndOf(i) \in Nat
  BY WholeOnFile, WholeRecords
<1>2. stopped
  BY DEF Finished, ScanInv
<1>3. CASE damaged = 0
  <2>1. leading = added
    BY <1>2, <1>3 DEF RestInv, StopsAtEnd
  <2>2. i \in DOMAIN leading
    BY <2>1, LayoutIs DEF WriterInv
  <2> QED
    BY <2>1, <2>2 DEF Returned, Range
<1>4. CASE damaged # 0
  <2>1. Scan
    BY <1>4 DEF ScanInv, ScanKept, Scanning, Damaged
  <2>2. /\ fpos \in Nat /\ Len(buffer_) = 0 /\ fpos = position + Len(buffer_) /\ position \in Nat
        /\ Len(file) \in Nat /\ Len(file) <= fpos
    BY <2>1, ScanIs DEF Scan, BufferInPlace, Finished
  <2>3. EndOf(i) <= position
    BY <1>1, <2>2
  <2> QED
    BY <1>1, <2>1, <2>3 DEF Scan, OthersReturned
<1> QED
  BY <1>3, <1>4

(* Damage is contained: as long as the destination takes all appended, a   *)
(* caller that verifies checksums and reads from offset 0 is given, up to  *)
(* the first call that returns false, the first records in order, but for  *)
(* one whose damaged type makes the reader pass over it; and a caller that *)
(* reads on to the end of a log that was closed and on the file whole is   *)
(* given every record of the blocks that the damaged byte is not in, as    *)
(* long as fread does not fail.  A long header takes no more bytes than    *)
(* two plain ones (11 and 7 in the code): the tail of a block in which a   *)
(* type may look like that of a long header has room for one record.       *)
THEOREM DamageStaysContained ==
  AppendsSucceed /\ kRecyclableHeaderSize <= 2 * kHeaderSize =>
    /\ Spec => [](checksum_ /\ initial_offset_ = 0 => DamageIsContained)
    /\ PersistentSpec => [](checksum_ /\ initial_offset_ = 0 => DamageIsContained)
<1> SUFFICES ASSUME AppendsSucceed, kRecyclableHeaderSize <= 2 * kHeaderSize
             PROVE  /\ Spec => [](checksum_ /\ initial_offset_ = 0 => DamageIsContained)
                    /\ PersistentSpec => [](checksum_ /\ initial_offset_ = 0 => DamageIsContained)
  OBVIOUS
<1> DEFINE Inv == BytesSound /\ PrefixInv /\ OffsetsInv /\ RestInv /\ ScanInv
<1>1. Init => Inv
  BY BytesSoundAtFirst, PrefixInvAtFirst, OffsetsInvAtFirst, RestInvAtFirst, ScanInvAtFirst
<1>2. Inv /\ [Next \/ KeepReading]_vars => Inv'
  BY BytesStaySound, PrefixInvStays, OffsetsInvStays, RestInvStays, ScanInvStays
<1>3. Inv => (checksum_ /\ initial_offset_ = 0 => DamageIsContained)
  <2> SUFFICES ASSUME Inv, checksum_, initial_offset_ = 0 PROVE DamageIsContained
    OBVIOUS
  <2>1. Layout /\ starts \in Seq(Nat) /\ added \in Seq(Seq(Data)) /\ recycle_log_files_ \in BOOLEAN
    BY LayoutIs, Sizes DEF PrefixInv, WriterInv
  <2>2. NoneCut => AllWhole(Latest)
    BY <2>1 DEF NoneCut, AllWhole, Whole, InBlock, Latest
  <2>3. \/ RecoveredIsPrefix
        \/ \E i \in DOMAIN starts :
             PassedOver(i) /\ (NoneCut => IsPrefix(leading, RemoveAt(added, i)))
    <3>1. CASE recycle_log_files_ \/ NothingPassedOver
      BY <3>1, PrefixUnlessPassedOver
    <3>2. CASE ~recycle_log_files_ /\ ~NothingPassedOver
      <4>1. PICK i \in 1..Latest : i \in DOMAIN starts /\ PassedOver(i)
        BY <2>1, <3>2 DEF NothingPassedOver, Latest
      <4>2. damaged # 0
        BY <2>1, <3>2, NoneIsPassedOver
      <4>3. ASSUME NoneCut PROVE Without(i)
        BY <2>2, <3>2, <4>1, <4>2, <4>3 DEF ScanInv, Damaged, ScanKept
      <4>4. NoneCut => IsPrefix(leading, RemoveAt(added, i))
        BY <2>1, <4>3, WithoutIsPrefix
      <4> QED
        BY <4>1, <4>4
    <3> QED
      BY <2>1, <3>1, <3>2
  <2>4. ASSUME Readable, atRest, NoneCut, ~read_error_, Finished,
               NEW i \in DOMAIN added, BlockOf(starts[i]) # BlockOf(damaged - 1)
        PROVE  added[i] \in Returned
    <3>1. ~recycle_log_files_ /\ i \in 1..Len(added) /\ ~InDamagedBlock(i)
      BY <2>1, <2>4 DEF Readable, InDamagedBlock
    <3> QED
      BY <2>1, <2>2, <2>4, <3>1, OthersAreReturned
  <2> QED
    BY <2>3, <2>4 DEF DamageIsContained
<1>4. Spec => []Inv
  BY <1>1, <1>2, PTL DEF Spec
<1>5. PersistentSpec => []Inv
  BY <1>1, <1>2, PTL DEF PersistentSpec
<1> QED
  BY <1>3, <1>4, <1>5, PTL

-----------------------------------------------------------------------------
(* The first byte of the header of a whole record that is not empty, and   *)
(* the number of that record.                                              *)
FullHeader(byte) == byte.b = "head" /\ byte.at = 1 /\ byte.hdr.type = kFullType /\ Len(byte.hdr.crc) > 1
RecordOf(byte)   == byte.hdr.crc[2].rec

NumberedRecords == \A i \in 1..Len(added) : added[i] # <<>> => added[i][1].rec = i

(* The header of the record being added is in the log, or never will be.   *)
HeaderIsOut ==
  ~(begin /\ (wpc \in {"fragment", "trailer"} \/ (wpc = "header" /\ status = "pending")))

CallInOrder ==
  status = "pending" =>
    \A q \in 1..Len(call.data) : FullHeader(call.data[q]) =>
      wpc = "header" /\ begin /\ q = 1 /\ RecordOf(call.data[q]) = Len(added)

(* Whatever becomes of the calls on the destination, the headers of whole  *)
(* records are in the log in the order in which the records were added.    *)
HeadersInOrder ==
  /\ \A q \in 1..Len(log) : FullHeader(log[q]) =>
       /\ RecordOf(log[q]) \in 1..Len(added)
       /\ RecordOf(log[q]) = Len(added) => HeaderIsOut
  /\ \A p, q \in 1..Len(log) :
       p < q /\ FullHeader(log[p]) /\ FullHeader(log[q]) => RecordOf(log[p]) < RecordOf(log[q])

LEMMA NumberedStays ==
  ASSUME BytesSound, NumberedRecords, [Next \/ KeepReading]_vars
  PROVE  NumberedRecords'
<1>1. added \in Seq(Seq(Data))
  BY DEF BytesSound, AppendsSound, WriterInv
<1>2. CASE UNCHANGED added
  BY <1>2 DEF NumberedRecords
<1>3. CASE AddAnyRecord
  <2>1. PICK n \in RecordLengths : added' = Append(added, Payload(Len(added) + 1, n))
    BY <1>3 DEF AddAnyRecord, AddRecord
  <2>2. PICK k \in Nat : k = Len(added)
    BY <1>1
  <2>3. n \in Nat
    BY LogWriterAssumption
  <2>4. Len(added') = k + 1 /\ added'[k + 1] = Payload(k + 1, n) /\ \A i \in 1..k : added'[i] = added[i]
    BY <1>1, <2>1, <2>2
  <2>5. ASSUME Payload(k + 1, n) # <<>> PROVE Payload(k + 1, n)[1].rec = k + 1
    <3>1. n >= 1
      <4>1. n = 0 => Payload(k + 1, n) = <<>>
        BY DEF Payload
      <4> QED
        BY <2>3, <2>5, <4>1
    <3> QED
      BY <2>3, <3>1 DEF Payload, DataByte
  <2>6. \A i \in 1 .. k + 1 : i \in 1..k \/ i = k + 1
    BY <2>2
  <2> QED
    BY <2>2, <2>4, <2>5, <2>6 DEF NumberedRecords
<1>4. CASE ~AddAnyRecord
  <2>1. UNCHANGED added
    BY Zenon, <1>4 DEF Next, KeepReading, vars, wvars, Destination, Damage, Write, Crash, CallRead, Read,
       WriterNext, WriterStep, FillTrailer, StartFragment, EmitHeader, TrailerFilled,
       TrailerFailed, HeaderAppended, FlushFragment, FinishFragment, DropWriter, DropReturns
  <2> QED
    BY <1>2, <2>1
<1> QED
  BY <1>3, <1>4

(* The header that a fragment starts with.                                 *)
LEMMA HeaderIsOfLatest ==
  ASSUME BytesSound, NumberedRecords, NEW start, EmitHeader(start), wpc \in {"fragment", "trailer"}
  PROVE  /\ \A q \in 1..Len(call'.data) : FullHeader(call'.data[q]) =>
              begin /\ q = 1 /\ RecordOf(call'.data[q]) = Len(added)
         /\ wpc' = "header" /\ status' = "pending" /\ UNCHANGED <<begin, added>>
<1> DEFINE avail == AvailableAt(start)
           n     == IF Len(ptr) < avail THEN Len(ptr) ELSE avail
           type  == RecordTypeOf(begin, Len(ptr) = n)
           h     == [type   |-> type,
                     length |-> EncodeLength(n),
                     log    |-> EncodeLogNumber(log_number_),
                     crc    |-> WriterCrc(type, n, ptr)]
<1>1. call' = [op |-> "append", data |-> HeaderBytes(h, header_size)]
      /\ wpc' = "header" /\ status' = "pending" /\ UNCHANGED <<begin, added>>
  BY DEF EmitHeader, Invoke
<1>2. header_size \in Nat
  BY HeaderSizeFits
<1>3. PICK g : g = h
  OBVIOUS
<1>4. ASSUME NEW q \in 1..header_size, FullHeader(HeadByte(g, q))
      PROVE  begin /\ q = 1 /\ RecordOf(HeadByte(g, q)) = Len(added)
  <2>1. q = 1 /\ type = 1 /\ Len(g.crc) > 1 /\ RecordOf(HeadByte(g, q)) = g.crc[2].rec
    BY <1>3, <1>4, Types DEF FullHeader, RecordOf, HeadByte
  <2>2. begin /\ ~recycle_log_files_
    BY <2>1, Types DEF RecordTypeOf
  <2>3. ptr \in Seq(Data) /\ ptr = added[Len(added)] /\ added # <<>> /\ added \in Seq(Seq(Data))
    BY <2>2 DEF BytesSound, AppendsSound, WriterInv
  <2>4. g.crc = <<FieldByte(type)>> \o ptr
    BY <1>3, <2>2 DEF WriterCrc
  <2>5. Len(ptr) > 0 /\ g.crc[2] = ptr[1]
    <3>1. PICK f, S : f = FieldByte(type) /\ S = Data \cup {f}
      OBVIOUS
    <3>2. ptr \in Seq(S) /\ <<f>> \in Seq(S)
      BY <2>3, <3>1, SeqGrows
    <3>3. g.crc = <<f>> \o ptr
      BY <2>4, <3>1
    <3> QED
      BY <2>1, <3>2, <3>3
  <2>6. Len(added) \in 1..Len(added) /\ added[Len(added)] # <<>>
    BY <2>3, <2>5
  <2> QED
    BY <2>1, <2>2, <2>3, <2>5, <2>6 DEF NumberedRecords
<1> HIDE DEF h
<1>5. PICK d : d = call'.data /\ d = HeaderBytes(g, header_size)
  BY <1>1, <1>3
<1>6. Len(d) = header_size /\ \A q \in 1..header_size : d[q] = HeadByte(g, q)
  BY <1>2, <1>5 DEF HeaderBytes
<1> QED
  BY <1>1, <1>4, <1>5, <1>6

(* The writer hands on no other header of a whole record, and what is in   *)
(* the log stays as it is.                                                 *)
LEMMA WriterKeepsOrder ==
  ASSUME BytesSound, NumberedRecords, CallInOrder, HeadersInOrder, WriterNext, UNCHANGED log
  PROVE  CallInOrder' /\ HeadersInOrder'
<1>1. added \in Seq(Seq(Data)) /\ ptr \in Seq(Data) /\ Len(log) \in Nat
  BY DEF BytesSound, AppendsSound, WriterInv
<1>2. CASE AddAnyRecord
  <2>1. /\ wpc = "idle" /\ UNCHANGED <<call, status>> /\ wpc' = "fragment"
        /\ \E slice : added' = Append(added, slice)
    BY <1>2 DEF AddAnyRecord, AddRecord
  <2>2. PICK k \in Nat : k = Len(added)
    BY <1>1
  <2>3. Len(added') = k + 1
    BY <1>1, <2>1, <2>2
  <2>4. CallInOrder'
    BY <2>1 DEF CallInOrder
  <2>5. \A q \in 1..Len(log) : FullHeader(log[q]) => RecordOf(log[q]) \in 1..k
    BY <2>2 DEF HeadersInOrder
  <2>6. \A n \in 1..k : n \in 1 .. k + 1 /\ n # k + 1
    BY <2>2
  <2> QED
    BY <2>3, <2>4, <2>5, <2>6 DEF HeadersInOrder
<1>3. CASE ~AddAnyRecord
  <2>1. WriterStep \/ DropWriter
    BY <1>3 DEF WriterNext
  <2>2. UNCHANGED added
    BY Zenon, <2>1 DEF WriterStep, FillTrailer, StartFragment, EmitHeader, TrailerFilled,
       TrailerFailed, HeaderAppended, FlushFragment, FinishFragment, DropWriter, DropReturns
  <2>3. CASE StartFragment \/ TrailerFilled
    <3>1. wpc \in {"fragment", "trailer"} /\ \E start : EmitHeader(start)
      BY <2>3 DEF StartFragment, TrailerFilled
    <3>2. PICK start : EmitHeader(start)
      BY <3>1
    <3>3. /\ \A q \in 1..Len(call'.data) : FullHeader(call'.data[q]) =>
               begin /\ q = 1 /\ RecordOf(call'.data[q]) = Len(added)
          /\ wpc' = "header" /\ status' = "pending" /\ UNCHANGED <<begin, added>>
      BY <3>1, <3>2, HeaderIsOfLatest
    <3>4. CallInOrder'
      BY <3>3 DEF CallInOrder
    <3>5. HeaderIsOut => HeaderIsOut'
      BY <3>1, <3>3 DEF HeaderIsOut
    <3> QED
      BY <2>2, <3>4, <3>5 DEF HeadersInOrder
  <2>4. CASE ~(StartFragment \/ TrailerFilled)
    <3>1. HeaderIsOut => HeaderIsOut'
      BY <2>1, <2>4 DEF WriterStep, FillTrailer, TrailerFailed, HeaderAppended, FlushFragment,
         FinishFragment, DropWriter, DropReturns, HeaderIsOut, Invoke
    <3>2. \/ status' = "idle"
          \/ status' = "pending" /\ call'.data = <<>>
          \/ status' = "pending" /\ call'.data = Trailer
          \/ status' = "pending" /\ call'.data = ptr
      BY <2>1, <2>4 DEF WriterStep, FillTrailer, TrailerFailed, HeaderAppended, FlushFragment,
         FinishFragment, DropWriter, DropReturns, Invoke
    <3>3. status' = "pending" => \A q \in 1..Len(call'.data) : ~FullHeader(call'.data[q])
      <4>1. CASE call'.data = <<>>
        BY <4>1
      <4>2. CASE call'.data = Trailer /\ FillTrailer
        <5>1. leftover \in Nat
          BY <4>2, Sizes DEF FillTrailer, leftover, BytesSound, AppendsSound, WriterInv
        <5>2. PICK n \in Nat : n = leftover
          BY <5>1
        <5>3. PICK d : d = Zeros(n) /\ d = call'.data
          BY <4>2, <5>2 DEF Trailer
        <5>4. Len(d) = n /\ \A q \in 1..n : d[q] = ZeroByte
          BY <5>3 DEF Zeros
        <5>5. ~FullHeader(ZeroByte)
          BY DEF FullHeader, ZeroByte
        <5> QED
          BY <5>3, <5>4, <5>5
      <4>3. CASE call'.data = ptr
        <5>1. \A byte \in Data : ~FullHeader(byte)
          BY DEF Data, DataByte, FullHeader
        <5>2. PICK d \in Seq(Data) : d = call'.data
          BY <1>1, <4>3
        <5>3. \A q \in 1..Len(d) : d[q] \in Data
          BY <5>2
        <5> QED
          BY <5>1, <5>2, <5>3
      <4>4. status' = "pending" =>
              call'.data = <<>> \/ (call'.data = Trailer /\ FillTrailer) \/ call'.data = ptr
        BY <2>1, <2>4 DEF WriterStep, FillTrailer, TrailerFailed, HeaderAppended, FlushFragment,
           FinishFragment, DropWriter, DropReturns, Invoke
      <4> QED
        BY <4>1, <4>2, <4>3, <4>4
    <3> QED
      BY <2>2, <3>1, <3>3 DEF HeadersInOrder, CallInOrder
  <2> QED
    BY <2>3, <2>4
<1> QED
  BY <1>2, <1>3

(* The destination appends all or a first part of what it was given.       *)
LEMMA DestinationKeepsOrder ==
  ASSUME BytesSound, NumberedRecords, CallInOrder, HeadersInOrder, Destination
  PROVE  CallInOrder' /\ HeadersInOrder'
<1>1. UNCHANGED <<wpc, begin, added, call>>
  BY DEF Destination, Dest!StreamStep, Dest!AppendReturns, Dest!FlushReturns, Dest!CloseReturns,
     Dest!WriteBack
<1>2. status' # "pending" \/ UNCHANGED status
  BY DEF Destination, Dest!StreamStep, Dest!AppendReturns, Dest!FlushReturns, Dest!CloseReturns,
     Dest!WriteBack
<1>3. CallInOrder'
  BY <1>1, <1>2 DEF CallInOrder
<1>4. HeaderIsOut => HeaderIsOut'
  BY <1>1, <1>2 DEF HeaderIsOut
<1>5. CASE UNCHANGED log
  BY <1>1, <1>3, <1>4, <1>5 DEF HeadersInOrder
<1>6. CASE Dest!AppendReturns
  <2>1. log \in Seq(FileBytes) /\ call.data \in Seq(FileBytes)
    BY DEF BytesSound, AppendsSound
  <2>2. status = "pending" /\ status' # "pending"
    BY <1>6 DEF Dest!AppendReturns
  <2>3. PICK more \in Seq(FileBytes) :
          /\ log' = log \o more /\ Len(more) <= Len(call.data)
          /\ \A q \in 1..Len(more) : more[q] = call.data[q]
    <3>1. PICK d \in Seq(FileBytes) : d = call.data
      BY <2>1
    <3>2. log' = log \o d \/ \E k \in 0..Len(d) : log' = log \o SubSeq(d, 1, k)
      BY <1>6, <3>1 DEF Dest!AppendReturns
    <3>3. \A k \in 0..Len(d) : /\ SubSeq(d, 1, k) \in Seq(FileBytes) /\ Len(SubSeq(d, 1, k)) = k
                             /\ \A q \in 1..k : SubSeq(d, 1, k)[q] = d[q]
      OBVIOUS
    <3>5. \E more \in Seq(FileBytes) : log' = log \o more /\ Len(more) <= Len(d)
                                     /\ \A q \in 1..Len(more) : more[q] = d[q]
      <4>1. CASE log' = log \o d
        BY <4>1
      <4>2. CASE \E k \in 0..Len(d) : log' = log \o SubSeq(d, 1, k)
        <5>1. PICK k \in 0..Len(d) : log' = log \o SubSeq(d, 1, k)
          BY <4>2
        <5>2. PICK more \in Seq(FileBytes) : more = SubSeq(d, 1, k)
          BY <3>3
        <5>3. Len(more) = k /\ \A q \in 1..k : more[q] = d[q]
          BY <3>3, <5>2
        <5>4. Len(more) <= Len(d) /\ \A q \in 1..Len(more) : more[q] = d[q]
          BY <5>3
        <5>5. log' = log \o more
          BY <5>1, <5>2
        <5> QED
          BY Zenon, <5>4, <5>5
      <4> QED
        BY <3>2, <4>1, <4>2
    <3> QED
      BY <3>1, <3>5
  <2>4. PICK n \in Nat, m \in Nat : n = Len(log) /\ m = Len(more)
    BY <2>1, <2>3
  <2>5. /\ Len(log') = n + m
        /\ \A q \in 1..n : log'[q] = log[q]
        /\ \A q \in 1..m : log'[n + q] = more[q]
    BY <2>1, <2>3, <2>4
  <2>6. Len(added) \in Nat
    BY DEF BytesSound, AppendsSound, WriterInv
  <2>7. PICK last \in Nat : last = Len(added)
    BY <2>6
  <2>8. ASSUME NEW q \in 1..m, FullHeader(log'[n + q])
        PROVE  wpc = "header" /\ begin /\ q = 1 /\ RecordOf(log'[n + q]) = last
    <3>1. log'[n + q] = call.data[q] /\ q \in 1..Len(call.data)
      BY <2>1, <2>3, <2>4, <2>5
    <3> QED
      BY <2>2, <2>7, <2>8, <3>1 DEF CallInOrder
  <2>9. wpc = "header" => last >= 1 /\ HeaderIsOut'
    <3>1. wpc = "header" => added # <<>> /\ added \in Seq(Seq(Data))
      BY DEF BytesSound, AppendsSound, WriterInv, Emitting
    <3>2. wpc = "header" => HeaderIsOut'
      BY <1>1, <2>2 DEF HeaderIsOut
    <3> QED
      BY <2>7, <3>1, <3>2
  <2>10. wpc = "header" /\ begin => \A q \in 1..n : FullHeader(log[q]) => RecordOf(log[q]) \in 1 .. last - 1
    <3> SUFFICES ASSUME wpc = "header", begin, NEW q \in 1..n, FullHeader(log[q])
                 PROVE  RecordOf(log[q]) \in 1 .. last - 1
      OBVIOUS
    <3>1. ~HeaderIsOut
      BY <2>2 DEF HeaderIsOut
    <3>2. RecordOf(log[q]) \in 1..last /\ RecordOf(log[q]) # last
      BY <2>4, <2>7, <3>1 DEF HeadersInOrder
    <3> QED
      BY <2>7, <3>2
  <2>11. \A q \in 1 .. n + m : q \in 1..n \/ \E r \in 1..m : q = n + r
    <3> TAKE q \in 1 .. n + m
    <3>1. CASE q <= n
      BY <2>4, <3>1
    <3>2. CASE ~(q <= n)
      <4>1. PICK r \in Int : r = q - n
        BY <2>4
      <4>2. r \in 1..m /\ q = n + r
        BY <2>4, <3>2, <4>1
      <4> QED
        BY <4>2
    <3> QED
      BY <3>1, <3>2
  <2>12. \A q \in 1 .. n + m : FullHeader(log'[q]) =>
           /\ RecordOf(log'[q]) \in 1..last
           /\ RecordOf(log'[q]) = last => HeaderIsOut'
    <3> SUFFICES ASSUME NEW q \in 1 .. n + m, FullHeader(log'[q])
                 PROVE  /\ RecordOf(log'[q]) \in 1..last
                        /\ RecordOf(log'[q]) = last => HeaderIsOut'
      OBVIOUS
    <3>1. CASE q \in 1..n
      BY <1>4, <2>4, <2>5, <2>7, <3>1 DEF HeadersInOrder
    <3>2. CASE \E r \in 1..m : q = n + r
      <4>1. PICK r \in 1..m : q = n + r
        BY <3>2
      <4>2. wpc = "header" /\ RecordOf(log'[q]) = last
        BY <2>8, <4>1
      <4> QED
        BY <2>7, <2>9, <4>2
    <3> QED
      BY <2>11, <3>1, <3>2
  <2>13. \A p, q \in 1 .. n + m :
           p < q /\ FullHeader(log'[p]) /\ FullHeader(log'[q]) => RecordOf(log'[p]) < RecordOf(log'[q])
    <3> SUFFICES ASSUME NEW p \in 1 .. n + m, NEW q \in 1 .. n + m, p < q,
                        FullHeader(log'[p]), FullHeader(log'[q])
                 PROVE  RecordOf(log'[p]) < RecordOf(log'[q])
      OBVIOUS
    <3>1. CASE q \in 1..n
      <4>1. p \in 1..n
        BY <2>4, <3>1
      <4> QED
        BY <2>4, <2>5, <3>1, <4>1 DEF HeadersInOrder
    <3>2. CASE \E r \in 1..m : q = n + r
      <4>1. PICK r \in 1..m : q = n + r
        BY <3>2
      <4>2. wpc = "header" /\ begin /\ r = 1 /\ RecordOf(log'[q]) = last
        BY <2>8, <4>1
      <4>3. p \in 1..n
        BY <2>4, <4>1, <4>2
      <4>4. RecordOf(log'[p]) \in 1 .. last - 1
        BY <2>5, <2>10, <4>2, <4>3
      <4> QED
        BY <2>7, <4>2, <4>4
    <3> QED
      BY <2>11, <3>1, <3>2
  <2> QED
    BY <1>1, <1>3, <2>5, <2>7, <2>12, <2>13 DEF HeadersInOrder
<1> QED
  BY <1>5, <1>6 DEF Destination, Dest!StreamStep, Dest!FlushReturns, Dest!CloseReturns, Dest!WriteBack

LEMMA OrderStays ==
  ASSUME BytesSound, NumberedRecords, CallInOrder, HeadersInOrder, [Next \/ KeepReading]_vars
  PROVE  CallInOrder' /\ HeadersInOrder'
<1>1. CASE Destination
  BY <1>1, DestinationKeepsOrder
<1>2. CASE Write(Len(log)) /\ UNCHANGED dvars
  BY <1>2, WriterKeepsOrder DEF Write, dvars
<1>3. CASE Crash /\ UNCHANGED dvars
  <2>1. wpc' = "dropped" /\ status' = "idle" /\ UNCHANGED <<added, log>>
    BY <1>3 DEF Crash, dvars
  <2>2. CallInOrder' /\ HeaderIsOut'
    BY <2>1 DEF CallInOrder, HeaderIsOut
  <2> QED
    BY <2>1, <2>2 DEF HeadersInOrder
<1>4. CASE UNCHANGED <<wvars, log>>
  <2>1. UNCHANGED <<wpc, begin, added, call, status, log>>
    BY <1>4 DEF wvars
  <2> QED
    BY <2>1 DEF CallInOrder, HeadersInOrder, HeaderIsOut
<1> QED
  BY Zenon, <1>1, <1>2, <1>3, <1>4 DEF Next, KeepReading, vars, Damage, CallRead, Read, dvars

-----------------------------------------------------------------------------
(* A record that is not empty was returned, and the header of a whole      *)
(* record has been left behind by the reader.                              *)
Hands(k, i) == leading[k] = added[i] /\ added[i] # <<>>

MetHeader(i) == \E p \in 1..Len(log) : p <= position /\ FullHeader(log[p]) /\ RecordOf(log[p]) = i

HandedInOrder ==
  \A k, m \in 1..Len(leading), i, j \in 1..Len(added) :
    k < m /\ Hands(k, i) /\ Hands(m, j) => i < j

(* What is buffered are bytes of the log in their places, and the header   *)
(* of whatever was returned lies before them.                              *)
BufferSeen ==
  position \in Nat /\ \A q \in 1..Len(buffer_) : buffer_[q] \in ByteAt(position + q)

HeadersMet == \A k \in 1..Len(leading), i \in 1..Len(added) : Hands(k, i) => MetHeader(i)

Seeing == SkipsAtFirst /\ BufferSeen /\ HeadersMet

OrderInv ==
  /\ FileInPlace
  /\ NumberedRecords
  /\ CallInOrder
  /\ HeadersInOrder
  /\ checksum_ /\ ~recycle_log_files_ => HandedInOrder /\ (~stopped => Seeing)

(* A record that is returned is no other than it was.                      *)
LEMMA HandedBefore ==
  ASSUME BytesSound, NumberedRecords', AddedGrows, checksum_, UNCHANGED leading,
         NEW k \in 1..Len(leading), NEW i \in 1..Len(added'), Hands(k, i)'
  PROVE  i \in 1..Len(added) /\ Hands(k, i)
<1>1. leading \in Seq(Seq(FileBytes)) /\ leading[k] \in Returned
  <2>1. leading \in Seq(Seq(FileBytes))
    BY DEF BytesSound, ReturnsSound
  <2> QED
    BY <2>1 DEF Returned, Range
<1>2. leading[k] = added'[i] /\ added'[i] # <<>>
  BY DEF Hands
<1>3. leading[k] \in Range(added) \cup {<<>>}
  BY <1>1 DEF NoPhantomRecord, BytesSound, ReturnsSound
<1>4. added \in Seq(Seq(Data))
  BY DEF BytesSound, AppendsSound, WriterInv
<1>5. PICK j \in 1..Len(added) : leading[k] = added[j]
  BY <1>2, <1>3, <1>4 DEF Range
<1>6. j \in 1..Len(added') /\ added'[j] = added[j]
  BY <1>4, <1>5 DEF AddedGrows
<1>7. i = added'[i][1].rec /\ j = added'[j][1].rec
  BY <1>2, <1>5, <1>6 DEF NumberedRecords
<1>8. i = j
  BY <1>2, <1>5, <1>6, <1>7
<1> QED
  BY <1>2, <1>5, <1>6, <1>8 DEF Hands

(* Steps after which the reader has what it had.                           *)
LEMMA SeeingStays ==
  ASSUME BytesSound, FileInPlace, NumberedRecords', checksum_, [Next \/ KeepReading]_vars,
         HandedInOrder, ~stopped => Seeing, UNCHANGED leading,
         ~stopped' => ~stopped /\ SkipsAtFirst' /\ UNCHANGED <<fpos, buffer_>>
  PROVE  HandedInOrder' /\ (~stopped' => Seeing')
<1>1. AddedGrows
  BY AddedOnlyGrows
<1>2. \A k \in 1..Len(leading'), i \in 1..Len(added') :
        Hands(k, i)' => k \in 1..Len(leading) /\ i \in 1..Len(added) /\ Hands(k, i)
  <2> TAKE k \in 1..Len(leading'), i \in 1..Len(added')
  <2>1. k \in 1..Len(leading)
    OBVIOUS
  <2> QED
    BY <1>1, <2>1, HandedBefore
<1>3. HandedInOrder'
  BY <1>2 DEF HandedInOrder
<1>4. ASSUME ~stopped' PROVE Seeing'
  <2>1. Seeing /\ UNCHANGED <<fpos, buffer_, position>> /\ SkipsAtFirst'
    BY <1>4 DEF position
  <2>2. PICK at \in Nat : at = position /\ position' = at
    BY <2>1 DEF Seeing, BufferSeen
  <2>3. \A q \in 1..Len(buffer_) : at + q \in Nat \ {0}
    BY <2>2
  <2>4. \A q \in 1..Len(buffer_) : buffer_[q] \in ByteAt(at + q)'
    <3>1. \A q \in Nat \ {0} : ByteAt(q) \subseteq ByteAt(q)'
      BY FileStays, BytesGrowInPlace
    <3>2. \A q \in 1..Len(buffer_) : buffer_[q] \in ByteAt(at + q)
      BY <2>1, <2>2 DEF Seeing, BufferSeen
    <3> QED
      BY <2>3, <3>1, <3>2
  <2>5. BufferSeen'
    <3>1. \A q : ByteAt(position + q)' = ByteAt(at + q)'
      BY <2>2 DEF ByteAt
    <3> QED
      BY <2>1, <2>2, <2>4, <3>1 DEF BufferSeen
  <2>6. ASSUME NEW i, MetHeader(i) PROVE MetHeader(i)'
    <3>1. PICK p \in 1..Len(log) : p <= position /\ FullHeader(log[p]) /\ RecordOf(log[p]) = i
      BY <2>6 DEF MetHeader
    <3>2. p \in 1..Len(log') /\ log'[p] = log[p]
      BY LogGrows
    <3> QED
      BY <2>1, <3>1, <3>2 DEF MetHeader
  <2>7. HeadersMet'
    BY <1>2, <2>1, <2>6 DEF Seeing, HeadersMet
  <2> QED
    BY <2>1, <2>5, <2>7 DEF Seeing
<1> QED
  BY <1>3, <1>4

(* A call that begins.                                                     *)
LEMMA CallKeepsSeeing ==
  ASSUME BytesSound, ~stopped => Seeing, CallRead(onFile = Len(log)) \/ KeepReading
  PROVE  /\ UNCHANGED leading
         /\ ~stopped' => ~stopped /\ SkipsAtFirst' /\ UNCHANGED <<fpos, buffer_>>
<1>1. /\ UNCHANGED leading
      /\ SkipFails \/ ReadRecord
      /\ stopped => stopped'
  <2>1. UNCHANGED leading /\ (SkipFails \/ ReadRecord)
    BY Zenon DEF CallRead, KeepReading, hvars
  <2>2. stopped => stopped'
    BY Zenon DEF CallRead, KeepReading, hvars
  <2> QED
    BY <2>1, <2>2
<1>2. ASSUME ~stopped'
      PROVE  ~stopped /\ SkipsAtFirst' /\ UNCHANGED <<fpos, buffer_>>
  <2>1. ~stopped /\ SkipsAtFirst
    BY <1>1, <1>2 DEF Seeing
  <2>2. ReadRecord
    <3>1. SkipFails => KeepReading
      BY <1>2 DEF SkipFails, Return, CallRead
    <3>2. KeepReading => ~SkipFails
      BY <2>1 DEF KeepReading, SkipFails, SkipsAtFirst
    <3> QED
      BY <1>1, <3>1, <3>2
  <2>3. UNCHANGED <<fpos, buffer_, initial_offset_, last_record_offset_, block_start_location>>
    BY <2>2 DEF ReadRecord, block_start_location
  <2>4. reads = 0 => ~(block_start_location > 0)
    <3> SUFFICES ASSUME reads = 0 PROVE ~(block_start_location > 0)
      OBVIOUS
    <3>1. CASE SkipsNow
      BY <2>2, <3>1 DEF ReadRecord
    <3>2. CASE ~SkipsNow
      <4>1. initial_offset_ = 0
        BY <2>1, <3>2 DEF SkipsNow, SkipsAtFirst, BytesSound, ReturnsSound
      <4>2. 0 % kBlockSize = 0
        BY Sizes
      <4> QED
        BY <4>1, <4>2, Sizes DEF block_start_location
    <3> QED
      BY <3>1, <3>2
  <2>5. reads' = reads + 1 \/ (UNCHANGED reads /\ reads > 0)
    BY DEF CallRead, KeepReading, hvars
  <2>6. SkipsAtFirst'
    BY <2>1, <2>3, <2>4, <2>5 DEF SkipsAtFirst
  <2> QED
    BY <2>1, <2>3, <2>6
<1> QED
  BY <1>1, <1>2

(* What fread brings follows what was buffered.                            *)
LEMMA FetchKeepsSeeing ==
  ASSUME BytesSound, FileInPlace, Seeing, Fetch(Chunk, FALSE),
         UNCHANGED <<wvars, dvars, starts, leading, reads>>
  PROVE  Seeing'
<1>1. /\ fpos' = fpos + Len(Chunk) /\ buffer_' = Chunk
      /\ UNCHANGED <<rpc, initial_offset_, last_record_offset_>>
  BY DEF Fetch, Refilled
<1>2. fpos \in Nat /\ kBlockSize \in Nat /\ file \in Seq(FileBytes) /\ buffer_ \in Seq(FileBytes)
  BY Sizes DEF BytesSound, ReturnsSound
<1>3. /\ Len(Chunk) \in Nat
      /\ \A q \in 1..Len(Chunk) : fpos + q \in 1..Len(file) /\ Chunk[q] = file[fpos + q]
  <2>1. PICK m : m = IF fpos + kBlockSize < Len(file) THEN fpos + kBlockSize ELSE Len(file)
    OBVIOUS
  <2>2. m \in Nat /\ m <= Len(file) /\ Len(file) \in Nat
    BY <1>2, <2>1
  <2>3. Chunk = SubSeq(file, fpos + 1, m)
    BY <2>1 DEF Chunk, ReadAt
  <2>4. /\ Len(Chunk) = IF fpos < m THEN m - fpos ELSE 0
        /\ \A q \in 1..Len(Chunk) : Chunk[q] = file[fpos + q]
    BY <1>2, <2>2, <2>3, PieceIs
  <2> QED
    BY <1>2, <2>2, <2>4
<1>4. position' = fpos /\ position <= fpos
  BY <1>1, <1>2, <1>3 DEF position
<1>5. UNCHANGED <<log, damaged, added>>
  BY DEF wvars, dvars
<1>6. BufferSeen'
  <2>1. \A q \in 1..Len(Chunk) : Chunk[q] \in ByteAt(fpos + q)
    BY <1>3 DEF FileInPlace
  <2>2. \A q \in 1..Len(buffer_') : buffer_'[q] \in ByteAt(position + q)'
    BY <1>1, <1>4, <1>5, <2>1 DEF ByteAt
  <2> QED
    BY <1>2, <1>4, <2>2 DEF BufferSeen
<1>7. SkipsAtFirst'
  <2>1. block_start_location' = block_start_location
    BY <1>1 DEF block_start_location
  <2> QED
    BY <1>1, <2>1 DEF Seeing, SkipsAtFirst
<1>8. HeadersMet'
  <2>1. ASSUME NEW i, MetHeader(i) PROVE MetHeader(i)'
    <3>1. PICK p \in 1..Len(log) : p <= position /\ FullHeader(log[p]) /\ RecordOf(log[p]) = i
      BY <2>1 DEF MetHeader
    <3>2. p \in Nat /\ p <= position'
      <4>1. Len(log) \in Nat /\ position \in Nat
        BY DEF BytesSound, Seeing, BufferSeen
      <4> QED
        BY <1>2, <1>4, <3>1, <4>1
    <3> QED
      BY <1>5, <3>1, <3>2 DEF MetHeader
  <2>2. \A k, i : Hands(k, i)' <=> Hands(k, i)
    BY <1>5 DEF Hands
  <2> QED
    BY <1>5, <2>1, <2>2 DEF Seeing, HeadersMet
<1> QED
  BY <1>6, <1>7, <1>8 DEF Seeing

(* What is taken out of the buffer: where the reader stands then.          *)
LEMMA TakingKeepsBuffer ==
  ASSUME BytesSound, BufferSeen, NEW h \in Headers, Consumes(h), UNCHANGED <<wvars, dvars>>
  PROVE  BufferSeen' /\ position + 1 <= position'
<1>1. buffer_' = Rest(h) /\ UNCHANGED fpos /\ ~Overruns(h)
  BY DEF Consumes
<1>2. PICK s : s = SizeOf(h)
  OBVIOUS
<1>3. buffer_ \in Seq(FileBytes) /\ s \in Nat /\ 1 <= s /\ s <= Len(buffer_) /\ fpos \in Nat
  <2>1. h.length \in Nat /\ buffer_ \in Seq(FileBytes) /\ fpos \in Nat
    BY HeadersSound DEF BytesSound, ReturnsSound
  <2>2. HeaderSizeOf(h.type) \in Nat /\ 1 <= HeaderSizeOf(h.type)
    BY Sizes DEF HeaderSizeOf
  <2>3. s \in Nat /\ 1 <= s
    <3>1. PICK z \in Nat, l \in Nat : z = HeaderSizeOf(h.type) /\ l = h.length
      BY <2>1, <2>2
    <3>2. s = z + l /\ 1 <= z
      BY <1>2, <2>2, <3>1 DEF SizeOf
    <3> QED
      BY <3>2
  <2>4. ~(s > Len(buffer_))
    BY <1>1, <1>2 DEF Overruns
  <2> QED
    BY <2>1, <2>3, <2>4
<1>4. /\ Len(buffer_') = Len(buffer_) - s
      /\ \A q \in 1..Len(buffer_') : buffer_'[q] = buffer_[s + q]
  <2>1. buffer_' = SubSeq(buffer_, s + 1, Len(buffer_))
    BY <1>1, <1>2 DEF Rest
  <2> QED
    BY <1>3, <2>1
<1>5. PICK at \in Nat : at = position
  BY DEF BufferSeen
<1>6. position' = at + s
  <2>1. PICK n \in Nat : n = Len(buffer_)
    BY <1>3
  <2>2. at = fpos - n /\ position' = fpos - (n - s)
    BY <1>1, <1>4, <1>5, <2>1 DEF position
  <2> QED
    BY <1>3, <2>2
<1>7. UNCHANGED <<log, damaged>>
  BY DEF dvars
<1>8. \A q \in 1..Len(buffer_') : buffer_'[q] \in ByteAt(at + s + q)
  <2> TAKE q \in 1..Len(buffer_')
  <2>1. s + q \in 1..Len(buffer_) /\ at + (s + q) = at + s + q
    BY <1>3, <1>4, <1>5
  <2>2. buffer_[s + q] \in ByteAt(at + (s + q))
    BY <1>5, <2>1 DEF BufferSeen
  <2> QED
    BY <1>4, <2>1, <2>2
<1>9. \A q : ByteAt(position + q)' = ByteAt(at + s + q)
  BY <1>6, <1>7 DEF ByteAt
<1> QED
  BY <1>3, <1>5, <1>6, <1>8, <1>9 DEF BufferSeen

(* A record that passes its checksum and is not empty starts with the      *)
(* header of a whole record, where the log has it.                         *)
LEMMA HeaderIsMet ==
  ASSUME BytesSound, NumberedRecords, BufferSeen, checksum_, NEW h \in Headers, FullRecord(h),
         NEW j \in 1..Len(added), Fragment(h) = added[j], added[j] # <<>>
  PROVE  /\ position + 1 \in 1..Len(log)
         /\ FullHeader(log[position + 1]) /\ RecordOf(log[position + 1]) = j
<1>1. buffer_ \in Seq(FileBytes) /\ recycle_log_files_ \in BOOLEAN /\ added \in Seq(Seq(Data))
  BY Sizes DEF BytesSound, ReturnsSound, AppendsSound, WriterInv
<1>2. ~Overruns(h) /\ ReaderCrc(h) = h.crc /\ h.type \in {1, 5}
  BY DEF FullRecord, Consumes, ChecksumFails, kFullType, kRecyclableFullType
<1>3. /\ ~recycle_log_files_ /\ h \in SoundHeaders /\ Written(kHeaderSize) /\ h = buffer_[1].hdr
      /\ h.crc = WriterCrc(h.type, 0, Fragment(h))
  BY <1>1, <1>2, ChecksumProtects
<1>4. h.type = kFullType
  <2>1. h.type \in WriterTypes
    BY <1>3 DEF SoundHeaders
  <2> QED
    BY <1>2, <1>3, <2>1 DEF WriterTypes, kFullType
<1>5. Len(h.crc) > 1 /\ h.crc[2] = added[j][1]
  <2>1. PICK d \in Seq(Data) : d = added[j] /\ d # <<>>
    BY <1>1
  <2>2. PICK f, S : f = FieldByte(h.type) /\ S = Data \cup {f}
    OBVIOUS
  <2>3. h.crc = <<f>> \o d
    BY <1>3, <2>1, <2>2 DEF WriterCrc
  <2>4. d \in Seq(S) /\ <<f>> \in Seq(S)
    BY <2>1, <2>2, SeqGrows
  <2>5. Len(d) >= 1
    BY <2>1
  <2> QED
    BY <2>1, <2>3, <2>4, <2>5
<1>6. h.crc[2].rec = j
  BY <1>5 DEF NumberedRecords
<1>7. Len(buffer_) >= 1 /\ buffer_[1] = HeadByte(h, 1)
  <2>1. 1 \in 1..kHeaderSize /\ kHeaderSize \in Nat
    BY Sizes
  <2>2. Len(buffer_) >= kHeaderSize /\ buffer_[1] = HeadByte(buffer_[1].hdr, 1)
    BY <1>3, <2>1 DEF Written
  <2> QED
    BY <1>1, <1>3, <2>1, <2>2
<1>8. FullHeader(buffer_[1]) /\ RecordOf(buffer_[1]) = j
  BY <1>4, <1>5, <1>6, <1>7 DEF FullHeader, RecordOf, HeadByte
<1>9. PICK p \in Nat : p = position + 1 /\ p >= 1
  BY DEF BufferSeen
<1>10. buffer_[1] \in ByteAt(p)
  BY <1>1, <1>7, <1>9 DEF BufferSeen
<1>11. buffer_[1] # ZeroByte /\ buffer_[1] # JunkByte
  BY <1>8 DEF FullHeader, ZeroByte, JunkByte
<1>12. p <= Len(log) /\ buffer_[1] = log[p]
  BY <1>10, <1>11 DEF ByteAt
<1>13. p \in 1..Len(log)
  <2>1. Len(log) \in Nat
    BY DEF BytesSound
  <2> QED
    BY <1>9, <1>12, <2>1
<1> QED
  BY <1>8, <1>9, <1>12, <1>13

(* A record that is returned is a later one than those before it.          *)
LEMMA RecordKeepsSeeing ==
  ASSUME BytesSound, NumberedRecords, HeadersInOrder, HandedInOrder, Seeing, checksum_,
         NEW h \in Headers, FullRecord(h) \/ LastFragment(h),
         UNCHANGED <<wvars, dvars, starts, reads>>, leading' = Append(leading, record')
  PROVE  HandedInOrder' /\ Seeing'
<1>1. PICK n \in Nat : n = Len(leading)
  BY DEF BytesSound, ReturnsSound
<1>2. /\ Len(leading') = n + 1 /\ leading'[n + 1] = record'
      /\ \A k \in 1..n : leading'[k] = leading[k]
  BY <1>1 DEF BytesSound, ReturnsSound
<1>3. UNCHANGED <<added, log>>
  BY DEF wvars, dvars
<1>4. Consumes(h) /\ rpc = "physical" /\ UNCHANGED initial_offset_
  BY DEF FullRecord, LastFragment, Consumes, Parses
<1>5. BufferSeen' /\ position + 1 <= position'
  BY <1>4, TakingKeepsBuffer DEF Seeing
<1>6. PICK at \in Nat, there \in Nat : at = position /\ there = position' /\ at + 1 <= there
  BY <1>5 DEF Seeing, BufferSeen
<1>7. SkipsAtFirst'
  <2>1. block_start_location' = block_start_location
    BY <1>4 DEF block_start_location
  <2> QED
    BY <1>4, <2>1 DEF Seeing, SkipsAtFirst
<1>8. \A k \in 1..n : \A i : Hands(k, i)' <=> Hands(k, i)
  BY <1>2, <1>3 DEF Hands
<1>9. ASSUME NEW j \in 1..Len(added), Hands(n + 1, j)'
      PROVE  /\ at + 1 \in 1..Len(log) /\ FullHeader(log[at + 1]) /\ RecordOf(log[at + 1]) = j
  <2>1. record' = added[j] /\ added[j] # <<>>
    BY <1>2, <1>3, <1>9 DEF Hands
  <2>2. FullRecord(h)
    <3>1. LastFragment(h) => record' = <<>>
      BY <1>4 DEF LastFragment, BytesSound, ReturnsSound
    <3> QED
      BY <2>1, <3>1
  <2>3. Fragment(h) = added[j]
    BY <2>1, <2>2 DEF FullRecord
  <2>4. position + 1 \in 1..Len(log) /\ FullHeader(log[position + 1]) /\ RecordOf(log[position + 1]) = j
    BY <2>1, <2>2, <2>3, HeaderIsMet DEF Seeing
  <2> QED
    BY <1>6, <2>4
<1>10. Len(log) \in Nat
  BY DEF BytesSound
<1>11. \A k \in 1..n, i \in 1..Len(added) : Hands(k, i) =>
         \E p \in 1..Len(log) : p <= at /\ FullHeader(log[p]) /\ RecordOf(log[p]) = i
  BY <1>1, <1>6 DEF Seeing, HeadersMet, MetHeader
<1>12. HandedInOrder'
  <2> SUFFICES ASSUME NEW k \in 1 .. n + 1, NEW m \in 1 .. n + 1,
                      NEW i \in 1..Len(added), NEW j \in 1..Len(added),
                      k < m, Hands(k, i)', Hands(m, j)'
               PROVE  i < j
    BY <1>2, <1>3 DEF HandedInOrder
  <2>1. k \in 1..n
    BY <1>1
  <2>2. Hands(k, i)
    BY <1>8, <2>1
  <2>3. CASE m \in 1..n
    <3>1. Hands(m, j)
      BY <1>8, <2>3
    <3> QED
      BY <1>1, <2>1, <2>2, <2>3, <3>1 DEF HandedInOrder
  <2>4. CASE m = n + 1
    <3>1. PICK p \in 1..Len(log) : p <= at /\ FullHeader(log[p]) /\ RecordOf(log[p]) = i
      BY <1>11, <2>1, <2>2
    <3>2. at + 1 \in 1..Len(log) /\ FullHeader(log[at + 1]) /\ RecordOf(log[at + 1]) = j
      BY <1>9, <2>4
    <3>3. p < at + 1
      BY <1>6, <1>10, <3>1
    <3> QED
      BY <3>1, <3>2, <3>3 DEF HeadersInOrder
  <2> QED
    BY <1>1, <2>3, <2>4
<1>13. HeadersMet'
  <2> SUFFICES ASSUME NEW k \in 1 .. n + 1, NEW i \in 1..Len(added), Hands(k, i)'
               PROVE  MetHeader(i)'
    BY <1>2, <1>3 DEF HeadersMet
  <2>1. \E p \in 1..Len(log) : p <= at + 1 /\ FullHeader(log[p]) /\ RecordOf(log[p]) = i
    <3>1. CASE k \in 1..n
      <4>1. PICK p \in 1..Len(log) : p <= at /\ FullHeader(log[p]) /\ RecordOf(log[p]) = i
        BY <1>8, <1>11, <3>1
      <4>2. p <= at + 1
        BY <1>6, <1>10, <4>1
      <4> QED
        BY <4>1, <4>2
    <3>2. CASE k = n + 1
      BY <1>6, <1>9, <3>2
    <3> QED
      BY <1>1, <3>1, <3>2
  <2>2. PICK p \in 1..Len(log) : p <= at + 1 /\ FullHeader(log[p]) /\ RecordOf(log[p]) = i
    BY <2>1
  <2>3. p <= there
    BY <1>6, <1>10, <2>2
  <2> QED
    BY <1>3, <1>6, <2>2, <2>3 DEF MetHeader
<1> QED
  BY <1>5, <1>7, <1>12, <1>13 DEF Seeing

LEMMA ReadKeepsSeeing ==
  ASSUME BytesSound, FileInPlace, NumberedRecords, NumberedRecords', HeadersInOrder, checksum_,
         HandedInOrder, ~stopped => Seeing, Read, UNCHANGED dvars
  PROVE  HandedInOrder' /\ (~stopped' => Seeing')
<1>1. /\ UNCHANGED <<wvars, dvars, starts, reads>> /\ stopped' = (stopped \/ reply' = "nothing")
      /\ (reply' = "record" /\ ~stopped) \/ UNCHANGED leading
      /\ reply' = "record" /\ ~stopped => leading' = Append(leading, record')
  BY Zenon DEF Read
<1>2. CASE stopped \/ reply' = "nothing"
  <2>1. stopped' /\ (UNCHANGED leading \/ (reply' = "record" /\ ~stopped))
    BY Zenon, <1>1, <1>2
  <2>2. UNCHANGED leading
    BY <1>2, <2>1
  <2> QED
    BY <2>1, <2>2, SeeingStays DEF Next
<1>3. CASE ~stopped /\ reply' # "nothing"
  <2>1. Seeing
    BY <1>3
  <2>2. (\E h \in Headers : FullRecord(h) \/ LastFragment(h)) \/ Fetch(Chunk, FALSE)
    BY <1>3 DEF Read, ReaderStep, Serve, FetchFromFile, Exhausted, OldRecord, DropBlock,
       BelowInitialOffset, FirstOrMiddle, UnknownType, Return, Fetch
  <2>3. CASE Fetch(Chunk, FALSE)
    <3>1. reply' = "none"
      BY <1>3, <2>3 DEF Fetch, NeedsMore, BytesSound, ReturnsSound
    <3>2. UNCHANGED <<leading, added>>
      BY <1>1, <3>1 DEF wvars
    <3>3. HandedInOrder'
      BY <3>2 DEF HandedInOrder, Hands
    <3> QED
      BY <1>1, <2>1, <2>3, <3>2, <3>3, FetchKeepsSeeing
  <2>4. CASE \E h \in Headers : FullRecord(h) \/ LastFragment(h)
    <3>1. PICK h \in Headers : FullRecord(h) \/ LastFragment(h)
      BY <2>4
    <3>2. reply' = "record"
      BY <3>1 DEF FullRecord, LastFragment, Return
    <3>3. leading' = Append(leading, record')
      BY <1>1, <1>3, <3>2
    <3> QED
      BY <1>1, <2>1, <3>1, <3>3, RecordKeepsSeeing
  <2> QED
    BY <2>2, <2>3, <2>4
<1> QED
  BY <1>2, <1>3

LEMMA OrderInvStays ==
  ASSUME BytesSound, OrderInv, [Next \/ KeepReading]_vars
  PROVE  OrderInv'
<1>1. FileInPlace /\ NumberedRecords /\ CallInOrder /\ HeadersInOrder
  BY DEF OrderInv
<1>2. NumberedRecords'
  BY <1>1, NumberedStays
<1>3. FileInPlace' /\ CallInOrder' /\ HeadersInOrder'
  BY <1>1, FileStays, OrderStays
<1>4. UNCHANGED <<checksum_, recycle_log_files_>>
  BY AddedOnlyGrows DEF AddedGrows, Next, KeepReading, Destination, Damage, Write, Crash, CallRead, Read,
     rvars, vars
<1>5. ASSUME checksum_, ~recycle_log_files_ PROVE HandedInOrder' /\ (~stopped' => Seeing')
  <2>1. HandedInOrder /\ (~stopped => Seeing)
    BY <1>5 DEF OrderInv
  <2>2. CASE Read /\ UNCHANGED dvars
    BY <1>1, <1>2, <1>5, <2>1, <2>2, ReadKeepsSeeing
  <2>3. CASE CallRead(onFile = Len(log)) \/ KeepReading
    <3>1. /\ UNCHANGED leading
          /\ ~stopped' => ~stopped /\ SkipsAtFirst' /\ UNCHANGED <<fpos, buffer_>>
      BY <2>1, <2>3, CallKeepsSeeing
    <3> QED
      BY <1>1, <1>2, <1>5, <2>1, <3>1, SeeingStays
  <2>4. CASE UNCHANGED <<rvars, hvars>>
    <3>1. UNCHANGED <<leading, stopped, fpos, buffer_, reads, rpc, last_record_offset_, initial_offset_>>
      BY <2>4 DEF rvars, hvars
    <3>2. SkipsAtFirst => SkipsAtFirst'
      BY <3>1 DEF SkipsAtFirst, block_start_location
    <3>3. ~stopped' => ~stopped /\ SkipsAtFirst' /\ UNCHANGED <<fpos, buffer_>>
      BY <2>1, <3>1, <3>2 DEF Seeing
    <3> QED
      BY <1>1, <1>2, <1>5, <2>1, <3>1, <3>3, SeeingStays
  <2> QED
    BY <2>2, <2>3, <2>4, StepOfReader
<1> QED
  BY <1>2, <1>3, <1>4, <1>5 DEF OrderInv

LEMMA OrderInvAtFirst == Init => OrderInv
<1> SUFFICES ASSUME Init PROVE OrderInv
  OBVIOUS
<1>1. FileInPlace
  BY DEF FileInPlace, Init, Dest!StreamInit
<1>2. /\ leading = <<>> /\ reads = 0 /\ rpc = "idle" /\ last_record_offset_ = 0 /\ buffer_ = <<>>
      /\ fpos = 0 /\ added = <<>> /\ log = <<>> /\ status = "idle"
  BY DEF Init, RecoveryInit, ReaderInit, WriterInit, Dest!StreamInit
<1>3. Len(added) = 0 /\ Len(log) = 0 /\ Len(leading) = 0 /\ Len(buffer_) = 0
  BY <1>2
<1>4. NumberedRecords /\ CallInOrder /\ HeadersInOrder /\ HandedInOrder /\ HeadersMet
  BY <1>2, <1>3 DEF NumberedRecords, CallInOrder, HeadersInOrder, HandedInOrder, HeadersMet
<1>5. SkipsAtFirst
  BY <1>2 DEF SkipsAtFirst
<1>6. BufferSeen
  <2>1. PICK n : n = Len(buffer_) /\ n = 0
    BY <1>3
  <2>2. position = fpos - n
    BY <2>1 DEF position
  <2>3. position = 0
    BY <1>2, <2>1, <2>2
  <2> QED
    BY <1>3, <2>3 DEF BufferSeen
<1> QED
  BY <1>1, <1>4, <1>5, <1>6 DEF OrderInv, Seeing

LEMMA ReturnsInOrder ==
  ASSUME BytesSound, OrderInv, checksum_
  PROVE  RecoveredInOrder
<1>1. leading \in Seq(Seq(FileBytes)) /\ added \in Seq(Seq(Data)) /\ recycle_log_files_ \in BOOLEAN
  BY Sizes DEF BytesSound, ReturnsSound, AppendsSound, WriterInv
<1>2. ASSUME NEW k \in DOMAIN leading, leading[k] # <<>>
      PROVE  \E i \in DOMAIN added : leading[k] = added[i]
  <2>1. leading[k] \in Returned
    BY <1>1, <1>2 DEF Returned, Range
  <2>2. leading[k] \in Range(added)
    BY <1>2, <2>1 DEF NoPhantomRecord, BytesSound, ReturnsSound
  <2> QED
    BY <2>2 DEF Range
<1>3. CASE recycle_log_files_
  <2>1. Range(leading) = {}
    BY <1>3 DEF BytesSound, ReturnsSound, RecyclableRejected, Readable, Returned
  <2>2. DOMAIN leading = {}
    BY <2>1 DEF Range
  <2> QED
    BY <2>2 DEF RecoveredInOrder
<1>4. CASE ~recycle_log_files_
  <2>1. HandedInOrder
    BY <1>4 DEF OrderInv
  <2>2. DOMAIN leading = 1..Len(leading) /\ DOMAIN added = 1..Len(added)
    BY <1>1
  <2>3. \A k, m \in DOMAIN leading, i, j \in DOMAIN added :
          k < m /\ (leading[k] = added[i] /\ added[i] # <<>>) /\ (leading[m] = added[j] /\ added[j] # <<>>)
            => i < j
    BY <2>1, <2>2 DEF HandedInOrder, Hands
  <2>4. \A k \in DOMAIN leading : leading[k] # <<>> =>
          \E i \in DOMAIN added : leading[k] = added[i] /\ added[i] # <<>>
    <3> TAKE k \in DOMAIN leading
    <3> HAVE leading[k] # <<>>
    <3>1. PICK i \in DOMAIN added : leading[k] = added[i]
      BY <1>2
    <3> QED
      BY <3>1
  <2> QED
    BY Zenon, <2>3, <2>4 DEF RecoveredInOrder
<1> QED
  BY <1>1, <1>3, <1>4

(* Whatever becomes of the calls on the destination, and also with a       *)
(* damaged byte: until a call returns false, a caller that verifies        *)
(* checksums is handed records that were added, whole, each once and in    *)
(* the order in which they were added, and else only empty ones.           *)
THEOREM ReturnedInOrder ==
  /\ Spec => [](checksum_ => RecoveredInOrder)
  /\ PersistentSpec => [](checksum_ => RecoveredInOrder)
<1>1. Init => BytesSound /\ OrderInv
  BY BytesSoundAtFirst, OrderInvAtFirst
<1>2. BytesSound /\ OrderInv /\ [Next \/ KeepReading]_vars => (BytesSound /\ OrderInv)'
  BY BytesStaySound, OrderInvStays
<1>3. BytesSound /\ OrderInv => (checksum_ => RecoveredInOrder)
  BY ReturnsInOrder
<1>4. Spec => [](checksum_ => RecoveredInOrder)
  BY <1>1, <1>2, <1>3, PTL DEF Spec
<1>5. PersistentSpec => [](checksum_ => RecoveredInOrder)
  BY <1>1, <1>2, <1>3, PTL DEF PersistentSpec
<1> QED
  BY <1>4, <1>5

=============================================================================
