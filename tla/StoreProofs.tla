------------------------------ MODULE StoreProofs ------------------------------
(***************************************************************************)
(* The write-ahead log on its WritableFileWriter: as long as the log fits  *)
(* into one page, each of its steps is a step of Wal, whose invariants     *)
(* give the recovery of such a log and its round trip.                     *)
(***************************************************************************)
EXTENDS WalStore, WalProofs

(* What is proved of the file writer.                                      *)
FP == INSTANCE FileProofs WITH
        accepted <- log, AppendLengths <- {}, MaxAppends <- 0, MaxBytes <- 0,
        MaxReopened <- 0, appends <- 0, old <- <<>>

LEMMA FileConstants ==
  /\ FP!AlignmentAssumption /\ FP!PosixWritableFileAssumption /\ FP!WritableFileWriterAssumption
  /\ Alignment \in Nat /\ 0 < Alignment
BY WalStoreAssumption
DEF FP!AlignmentAssumption, FP!PosixWritableFileAssumption, FP!WritableFileWriterAssumption

(* The actions of the file writer that are proved about are those of File. *)
LEMMA SameAppend == File!AppendBegins <=> FP!AppendBegins
BY Zenon DEF File!AppendBegins, FP!AppendBegins, File!Asked, FP!Asked, File!prepare_write,
   FP!prepare_write, File!BlocksSpanned, FP!BlocksSpanned, File!Candidates, FP!Candidates,
   File!Desired, FP!Desired, File!Suffices, FP!Suffices, File!Enlarge, FP!Enlarge,
   File!IgnoresRequest, FP!IgnoresRequest, File!Reallocated, FP!Reallocated, File!Zeros,
   FP!Zeros, File!ZeroByte, FP!ZeroByte, File!round_up, FP!round_up

LEMMA SameCopy == File!CopyIn <=> FP!CopyIn
BY Zenon DEF File!CopyIn, FP!CopyIn, File!Appended, FP!Appended, File!Appends, FP!Appends,
   File!SizeAfterAppend, FP!SizeAfterAppend, File!pvars, FP!pvars

LEMMA SameWrite == File!WriteSome <=> FP!WriteSome
BY Zenon DEF File!WriteSome, FP!WriteSome, File!Padded, FP!Padded, File!Pwrite, FP!Pwrite,
   File!Overwrite, FP!Overwrite, File!pad_to_aligment_with, FP!pad_to_aligment_with,
   File!Zeros, FP!Zeros, File!ZeroByte, FP!ZeroByte, File!round_up, FP!round_up

LEMMA SameDone == File!WriteDone <=> FP!WriteDone
BY Zenon DEF File!WriteDone, FP!WriteDone, File!Padded, FP!Padded, File!refit_tail,
   FP!refit_tail, File!file_advance, FP!file_advance, File!leftover_tail,
   FP!leftover_tail, File!truncate_to_page_boundary, FP!truncate_to_page_boundary,
   File!pad_to_aligment_with, FP!pad_to_aligment_with, File!pvars, FP!pvars, File!Zeros,
   FP!Zeros, File!ZeroByte, FP!ZeroByte, File!round_up, FP!round_up

LEMMA SameFails == File!WriteFails <=> FP!WriteFails
BY Zenon DEF File!WriteFails, FP!WriteFails, File!Padded, FP!Padded,
   File!pad_to_aligment_with, FP!pad_to_aligment_with, File!pvars, FP!pvars, File!Zeros,
   FP!Zeros, File!ZeroByte, FP!ZeroByte, File!round_up, FP!round_up

LEMMA SameOthers ==
  /\ File!FullBufferPanics <=> FP!FullBufferPanics
  /\ File!FlushBegins <=> FP!FlushBegins
  /\ File!Close <=> FP!Close
BY Zenon DEF File!FullBufferPanics, FP!FullBufferPanics, File!FlushBegins, FP!FlushBegins,
   File!Close, FP!Close, File!Asked, FP!Asked, File!pvars, FP!pvars, File!truncate,
   FP!truncate, File!TruncatedTo, FP!TruncatedTo, File!ZeroByte, FP!ZeroByte

LEMMA SameFileStep == File!FileStep <=> FP!FileStep
BY Zenon, SameAppend, SameCopy, SameWrite, SameDone, SameFails, SameOthers DEF
   File!FileStep, FP!FileStep

-----------------------------------------------------------------------------
(* The file writer keeps its invariants until it is closed or dies; the    *)
(* log writer waits for it whenever it is at work.                         *)
Served ==
  /\ fpc = "closed" \/ (FP!FileInv /\ FP!PageInv)
  /\ ~reopened
  /\ wpc \in {"idle", "fragment", "dropped"} => status = "idle"
  /\ AppendsSound

LEMMA FileServes ==
  ASSUME Served, FileWrites
  PROVE  /\ FP!FileInv /\ FP!PageInv /\ FP!FileStep
         /\ status = "pending" /\ fpc # "closed"
         /\ FP!FileInv' /\ FP!PageStep
         /\ UNCHANGED <<call, reopened>> /\ status' \in Answers \cup {"pending"}
<1>1. FP!FileStep
  BY SameFileStep DEF FileWrites
<1>2. fpc # "closed" /\ UNCHANGED <<call, reopened>>
  BY <1>1 DEF FP!FileStep, FP!AppendBegins, FP!CopyIn, FP!FullBufferPanics,
     FP!FlushBegins, FP!WriteSome, FP!WriteFails, FP!WriteDone, FP!Close, FP!Asked,
     FP!pvars
<1>3. FP!FileInv /\ FP!PageInv
  BY <1>2 DEF Served
<1>4. status = "pending"
  BY <1>1, <1>3 DEF FP!FileStep, FP!AppendBegins, FP!CopyIn, FP!FullBufferPanics,
     FP!FlushBegins, FP!WriteSome, FP!WriteFails, FP!WriteDone, FP!Close, FP!Asked,
     FP!FileInv, FP!Stages
<1>5. FP!FileInv'
  BY <1>1, <1>3, FP!FileInvStep, FileConstants
<1>6. FP!PageStep
  BY <1>1, <1>3, FP!FileIsPageStep, FileConstants
<1>7. status' \in Answers \cup {"pending"}
  BY <1>1, <1>4 DEF FP!FileStep, FP!AppendBegins, FP!CopyIn, FP!FullBufferPanics,
     FP!FlushBegins, FP!WriteSome, FP!WriteFails, FP!WriteDone, FP!Close, FP!Appends,
     Answers
<1> QED
  BY <1>1, <1>2, <1>3, <1>4, <1>5, <1>6, <1>7

(* What the log writer hands over is made of the bytes of a log.           *)
LEMMA BytesAreAppended == Seq(FileBytes) \subseteq Seq(FP!AppendedBytes)
<1>1. Data \subseteq FP!PayloadBytes
  <2> SUFFICES ASSUME NEW d \in Data PROVE d \in FP!PayloadBytes
    OBVIOUS
  <2>1. d = FP!DataByte(d.rec, d.at) /\ d.rec \in Nat /\ d.at \in Nat
    BY DEF Data, FP!DataByte
  <2> QED
    BY <2>1 DEF FP!PayloadBytes
<1>2. CrcBytes \subseteq FP!PayloadBytes \cup {FP!FieldByte(v) : v \in Nat}
  BY <1>1 DEF CrcBytes, FieldByte, FP!FieldByte
<1>3. SoundHeaders \subseteq FP!Headers
  <2> SUFFICES ASSUME NEW h \in SoundHeaders PROVE h \in FP!Headers
    OBVIOUS
  <2>1. h \in [type : WriterTypes, length : Nat, log : Nat, crc : Seq(CrcBytes)]
    BY DEF SoundHeaders
  <2>2. WriterTypes \subseteq Nat
    BY DEF WriterTypes
  <2>3. Seq(CrcBytes) \subseteq Seq(FP!PayloadBytes \cup {FP!FieldByte(v) : v \in Nat})
    BY <1>2
  <2>4. h \in [type : Nat, length : Nat, log : Nat,
               crc : Seq(FP!PayloadBytes \cup {FP!FieldByte(v) : v \in Nat})]
    BY <2>1, <2>2, <2>3
  <2> QED
    BY <2>4 DEF FP!Headers
<1>4. HeadBytes \subseteq {FP!HeadByte(h, i) : h \in FP!Headers, i \in Nat}
  BY <1>3 DEF HeadBytes, HeadByte, FP!HeadByte
<1>5. FileBytes \subseteq FP!AppendedBytes
  BY <1>1, <1>4 DEF FileBytes, FP!AppendedBytes, ZeroByte, FP!ZeroByte, JunkByte, FP!JunkByte
<1> QED
  BY <1>5

(* The log writer calls only when it has the answer to its last call.      *)
LEMMA WriterCalls ==
  ASSUME WriterNext, wpc \in {"idle", "fragment", "dropped"} => status = "idle"
  PROVE  /\ \/ UNCHANGED <<call, status>>
            \/ /\ status # "pending" /\ status' \in {"pending", "idle"}
               /\ \/ call' = call
                  \/ \E op \in {"append", "flush", "close"} : \E d :
                        call' = [op |-> op, data |-> d]
         /\ wpc' \in {"idle", "fragment", "dropped"} => status' = "idle"
<1>1. CASE AddAnyRecord
  BY <1>1 DEF AddAnyRecord, AddRecord
<1>2. CASE FillTrailer
  BY <1>2 DEF FillTrailer, Invoke
<1>3. CASE StartFragment
  BY <1>3 DEF StartFragment, EmitHeader, Invoke
<1>4. CASE TrailerFilled
  BY <1>4 DEF TrailerFilled, EmitHeader, Invoke
<1>5. CASE TrailerFailed
  BY <1>5 DEF TrailerFailed
<1>6. CASE HeaderAppended \/ FlushFragment
  BY <1>6 DEF HeaderAppended, FlushFragment, Invoke
<1>7. CASE FinishFragment
  BY <1>7 DEF FinishFragment
<1>8. CASE DropWriter
  BY <1>8 DEF DropWriter, Invoke
<1>9. CASE DropReturns
  BY <1>9 DEF DropReturns, Answers
<1> QED
  BY <1>1, <1>2, <1>3, <1>4, <1>5, <1>6, <1>7, <1>8, <1>9 DEF WriterNext, WriterStep

LEMMA ServedStays ==
  ASSUME Served, [StoreNext]_storeVars
  PROVE  Served'
<1>1. CASE FileWrites
  <2>1. FP!FileInv' /\ FP!PageInv' /\ UNCHANGED <<reopened, call, wpc>> /\ status = "pending"
    BY <1>1, FileServes DEF FP!PageStep, FileWrites
  <2>2. [WriterNext \/ DestReturns]_wvars
    BY <1>1, FileServes DEF FileWrites, DestReturns, wvars
  <2>3. AppendsSound'
    BY <2>2, WriterSound DEF Served
  <2> QED
    BY <2>1, <2>3 DEF Served
<1>2. CASE CrashStore
  BY <1>2, CrashKeepsAppends DEF CrashStore, Served, Crash
<1>3. CASE Write(Len(log)) /\ UNCHANGED <<dvars, fvars, failed>>
  <2>1. WriterNext /\ UNCHANGED <<file, log>> /\ UNCHANGED fvars
    BY <1>3 DEF Write, dvars
  <2>2. AppendsSound'
    BY <2>1, WriterSound DEF Served
  <2>3. ASSUME fpc # "closed" PROVE FP!FileInv' /\ FP!PageInv'
    <3>1. FP!FileInv /\ FP!PageInv
      BY <2>3 DEF Served
    <3>2. CASE UNCHANGED <<call, status>>
      <4>1. UNCHANGED FP!vars
        BY <2>1, <3>2 DEF FP!vars, FP!fvars, FP!pvars, fvars
      <4>2. FP!FileInv'
        BY <3>1, <4>1, FP!FileInvStays, FileConstants
      <4>3. FP!PageStep
        BY <3>1, <4>1, FP!PageStays, FileConstants
      <4> QED
        BY <4>2, <4>3 DEF FP!PageStep
    <3>3. CASE ~UNCHANGED <<call, status>>
      <4>1. status # "pending" /\ status' \in {"pending", "idle"}
            /\ \/ call' = call
               \/ \E op \in {"append", "flush", "close"} : \E d :
                     call' = [op |-> op, data |-> d]
        BY <2>1, <3>3, WriterCalls DEF Served
      <4>2. call' \in FP!Calls
        <5>1. CASE call' = call
          BY <3>1, <5>1 DEF FP!FileInv, FP!FileTypes
        <5>2. CASE call' # call
          <6> PICK op \in {"append", "flush", "close"} : \E d : call' = [op |-> op, data |-> d]
            BY <4>1, <5>2
          <6>1. PICK d : call' = [op |-> op, data |-> d]
            OBVIOUS
          <6>2. d \in Seq(FileBytes')
            BY <2>2, <6>1 DEF AppendsSound
          <6>3. (Seq(FileBytes) \subseteq Seq(FP!AppendedBytes))'
            BY BytesAreAppended, PTL
          <6>4. d \in Seq(FP!AppendedBytes)
            BY <6>2, <6>3
          <6> QED
            BY <6>1, <6>4 DEF FP!Calls
        <5> QED
          BY <5>1, <5>2
      <4>3. fpc = "idle"
        BY <2>3, <3>1, <4>1 DEF FP!FileInv, FP!FileTypes, FP!Stages
      <4>4. FP!CallMoves
        BY <2>1, <4>1, <4>2, <4>3 DEF FP!CallMoves, FP!pvars, fvars
      <4> QED
        BY <3>1, <4>4, FP!CallKeeps, FP!CallKeepsPage, FileConstants
    <3> QED
      BY <3>2, <3>3
  <2>4. UNCHANGED <<fpc, reopened>>
    BY <2>1 DEF fvars
  <2>5. wpc' \in {"idle", "fragment", "dropped"} => status' = "idle"
    BY <2>1, WriterCalls DEF Served
  <2> QED
    BY <2>2, <2>3, <2>4, <2>5 DEF Served
<1>4. CASE UNCHANGED <<wvars, file, log, fvars>>
  <2>1. UNCHANGED FP!vars
    BY <1>4 DEF FP!vars, FP!fvars, FP!pvars, fvars, wvars
  <2>2. FP!FileInv /\ FP!PageInv => FP!FileInv' /\ FP!PageInv'
    BY <2>1, FP!FileInvStays, FP!PageStays, FileConstants DEF FP!PageStep
  <2>3. AppendsSound'
    BY <1>4, WriterSound DEF Served
  <2>4. UNCHANGED <<fpc, reopened, wpc, status>>
    BY <1>4 DEF fvars, wvars
  <2> QED
    BY <2>2, <2>3, <2>4 DEF Served
<1>5. CASE (CallRead(onFile = Len(log)) \/ Read) /\ UNCHANGED <<dvars, fvars, failed>>
  <2>1. UNCHANGED <<wvars, file, log, fvars>>
    BY <1>5 DEF CallRead, Read, dvars
  <2> QED
    BY <1>4, <2>1
<1>6. CASE UNCHANGED storeVars
  <2>1. UNCHANGED <<wvars, file, log, fvars>>
    BY <1>6 DEF storeVars, vars, dvars
  <2> QED
    BY <1>4, <2>1
<1> QED
  BY <1>1, <1>2, <1>3, <1>5, <1>6 DEF StoreNext

-----------------------------------------------------------------------------
(* How far a file of one page agrees with the log, filled trailers or not: *)
(* at least as far as it is known to be of that form, and it is of that    *)
(* form there.                                                             *)
LEMMA LongestAgreement ==
  ASSUME NEW f \in Seq(FP!FileBytes), NEW a \in Seq(FP!AppendedBytes), NEW k \in Nat,
         FP!PageForm(f, a, k)
  PROVE  \E m \in k..Len(a) : /\ FP!Agreement(f, a) = m /\ FP!PageForm(f, a, m)
                             /\ \A n \in Nat : FP!PageForm(f, a, n) => n <= m
<1>1. PICK lf \in Nat, la \in Nat : lf = Len(f) /\ la = Len(a)
  OBVIOUS
<1>2. /\ k <= la /\ k <= lf
      /\ \A i \in 1..k : f[i] = a[i]
      /\ \A i \in k + 1..lf : f[i] = FP!ZeroByte
  BY <1>1 DEF FP!PageForm
<1> DEFINE Agrees(m) == /\ m <= Len(f) /\ SubSeq(f, 1, m) = SubSeq(a, 1, m)
                        /\ m < Len(a) /\ m < Len(f) => f[m + 1] # a[m + 1]
<1>3. ASSUME NEW m \in 0..la, m <= lf
      PROVE  SubSeq(f, 1, m) = SubSeq(a, 1, m) <=> \A i \in 1..m : f[i] = a[i]
  <2>1. PICK s, t : s = SubSeq(f, 1, m) /\ t = SubSeq(a, 1, m)
    OBVIOUS
  <2>2. s \in Seq(FP!FileBytes) /\ Len(s) = m /\ \A i \in 1..m : s[i] = f[i]
    BY <1>1, <1>3, <2>1, FP!BeginningIs, FileConstants
  <2>3. t \in Seq(FP!AppendedBytes) /\ Len(t) = m /\ \A i \in 1..m : t[i] = a[i]
    BY <1>1, <1>3, <2>1, FP!BeginningIs, FileConstants
  <2>4. s = t <=> \A i \in 1..m : s[i] = t[i]
    BY <2>2, <2>3
  <2> QED
    BY <2>1, <2>2, <2>3, <2>4
<1>4. \E m \in 0..la : Agrees(m)
  <2> DEFINE T == {n \in 0..la : n = la \/ lf <= n \/ f[n + 1] # a[n + 1]}
  <2>1. T \subseteq Nat /\ la \in T
    BY <1>1
  <2>2. PICK m \in T : \A n \in T : m <= n
    <3> HIDE DEF T
    <3> QED
      BY <2>1, LeastIn
  <2>3. m \in 0..la /\ (m = la \/ lf <= m \/ f[m + 1] # a[m + 1])
    BY <2>2
  <2>4. ASSUME NEW i \in 1..m PROVE i <= lf /\ f[i] = a[i]
    <3>1. i - 1 \in 0..la /\ ~(m <= i - 1) /\ i - 1 + 1 = i
      BY <1>1, <2>3
    <3>2. i - 1 \notin T
      BY <2>2, <3>1
    <3> QED
      BY <1>1, <3>1, <3>2
  <2>5. m <= lf
    <3>1. CASE m = 0
      BY <1>1, <3>1
    <3>2. CASE m # 0
      <4>1. m \in 1..m
        BY <2>3, <3>2
      <4> QED
        BY <2>4, <4>1
    <3> QED
      BY <3>1, <3>2
  <2>6. SubSeq(f, 1, m) = SubSeq(a, 1, m)
    BY <1>3, <2>3, <2>4, <2>5
  <2>7. m < la /\ m < lf => f[m + 1] # a[m + 1]
    BY <1>1, <2>3
  <2> QED
    BY <1>1, <2>3, <2>5, <2>6, <2>7
<1>5. FP!Agreement(f, a) = CHOOSE m \in 0..la : Agrees(m)
  BY <1>1 DEF FP!Agreement
<1>6. PICK m \in 0..la : FP!Agreement(f, a) = m /\ Agrees(m)
  <2> HIDE DEF Agrees
  <2> QED
    BY <1>4, <1>5
<1>7. m <= lf /\ (\A i \in 1..m : f[i] = a[i]) /\ (m < la /\ m < lf => f[m + 1] # a[m + 1])
  BY <1>1, <1>3, <1>6
<1>8. ASSUME NEW n \in Nat, FP!PageForm(f, a, n) PROVE n <= m
  <2>1. n <= la /\ n <= lf /\ \A i \in 1..n : f[i] = a[i]
    BY <1>1, <1>8 DEF FP!PageForm
  <2>2. ASSUME m < n PROVE FALSE
    <3>1. m + 1 \in 1..n /\ m < la /\ m < lf
      BY <1>1, <1>6, <2>1, <2>2
    <3> QED
      BY <1>7, <2>1, <3>1
  <2> QED
    BY <1>6, <2>2
<1>9. k <= m
  BY <1>8
<1>10. FP!PageForm(f, a, m)
  <2>1. \A i \in m + 1..lf : i \in k + 1..lf
    BY <1>1, <1>6, <1>9
  <2>2. \A i \in m + 1..lf : f[i] = FP!ZeroByte
    BY <1>2, <2>1
  <2> QED
    BY <1>1, <1>6, <1>7, <2>2 DEF FP!PageForm
<1>11. m \in k..Len(a)
  BY <1>1, <1>6, <1>9
<1> QED
  BY <1>6, <1>8, <1>10, <1>11

LEMMA SameZeros ==
  /\ \A n : FP!Zeros(n) = Dest!Zeros(n)
  /\ \A f, n : FP!TruncatedTo(f, n) = Dest!TruncatedTo(f, n)
BY DEF FP!Zeros, FP!TruncatedTo, FP!ZeroByte, Dest!Zeros, Dest!TruncatedTo, Dest!ZeroByte

(* onFile says how far the file has the log, and only zeros follow.        *)
OnThePage == onFile \in 0..Len(log) /\ FP!PageForm(file, log, onFile)

LEMMA PageIsRewritten ==
  ASSUME NEW m \in onFile..Len(log), OnThePage, onFile' = m, FP!PageForm(file', log, m),
         log \in Seq(FP!AppendedBytes), file' \in Seq(FP!FileBytes), Len(file') <= Alignment
  PROVE  Dest!Rewrite(m)
<1>1. PICK g \in Seq(FP!FileBytes) : g = file'
  OBVIOUS
<1>2. m \in Nat /\ Len(g) \in Nat
  BY DEF OnThePage
<1>3. g = SubSeq(log, 1, m) \o FP!Zeros(Len(g) - m) /\ Len(g) - m \in Nat
  BY <1>1, <1>2, FP!PageIs, FileConstants
<1>4. Len(g) - m \in 0..MaxPad
  BY <1>1, <1>2, <1>3, FileConstants, WalAssumption, DestinationAssumption
<1>5. \E pad \in 0..MaxPad : g = SubSeq(log, 1, m) \o Dest!Zeros(pad)
  BY <1>3, <1>4, SameZeros
<1> QED
  BY <1>1, <1>5 DEF Dest!Rewrite

(* As long as the log is within one page, what the file writer does is     *)
(* what Wal allows a destination.                                          *)
LEMMA FileIsDestination ==
  ASSUME FP!MayOutgrow, Served, OnThePage, FileWrites, OnePage'
  PROVE  /\ OnePage
         /\ Destination \/ UNCHANGED vars
         /\ OnThePage'
         /\ status' # "panic"
         /\ status' = "ok" /\ call.op = "flush" => onFile' = Len(log')
         /\ call.op # "append" => UNCHANGED log
<1>1. /\ FP!FileInv /\ FP!PageInv /\ FP!FileStep /\ FP!FileInv' /\ FP!PageInv' /\ FP!PageMoves
      /\ status = "pending" /\ UNCHANGED <<call, reopened>>
      /\ ~reopened /\ wpc # "dropped"
  BY FileServes DEF Served, FP!PageStep
<1>2. FP!OnePage'
  BY DEF OnePage, FP!OnePage, FP!MayOutgrow
<1>3. OnePage
  BY <1>1, <1>2, FP!OnePageBefore, FileConstants DEF OnePage, FP!OnePage
<1>4. /\ UNCHANGED <<recycle_log_files_, wpc, block_offset_, ptr, begin, fragment_length,
                     added>>
      /\ UNCHANGED <<rvars, damaged, starts, hvars>>
      /\ onFile' = IF call.op = "flush" THEN FP!Agreement(file', log') ELSE onFile
  <2>1. File!OnFile' = FP!OnFile'
    BY Zenon DEF File!OnFile, FP!OnFile, File!Agreement, FP!Agreement
  <2>2. FP!OnFile' = FP!Agreement(file', log')
    BY DEF FP!OnFile
  <2> QED
    BY <2>1, <2>2 DEF FileWrites
<1>5. /\ log \in Seq(FP!AppendedBytes) /\ log' \in Seq(FP!AppendedBytes)
      /\ file \in Seq(FP!FileBytes) /\ file' \in Seq(FP!FileBytes)
      /\ call.data \in Seq(FP!AppendedBytes) /\ Len(file') <= Alignment
  <2>1. Len(log') <= Alignment
    <3>1. Len(log') \in Nat /\ Len(src') \in Nat
      BY <1>1 DEF FP!FileInv, FP!FileTypes
    <3> QED
      BY <3>1, FileConstants DEF OnePage
  <2>2. Len(file') <= Alignment
    BY <1>1, <2>1 DEF FP!PageInv, FP!OfOnePage
  <2> QED
    BY <1>1, <2>2 DEF FP!FileInv, FP!FileTypes, FP!Calls
<1>6. ASSUME call.op = "flush", UNCHANGED log,
             NEW k \in onFile..Len(log), FP!PageForm(file', log, k)
      PROVE  \E m \in k..Len(log) : /\ onFile' = m /\ Dest!Rewrite(m) /\ OnThePage'
                                   /\ \A n \in Nat : FP!PageForm(file', log, n) => n <= m
  <2>1. k \in Nat
    BY <1>6 DEF OnThePage
  <2>2. PICK m \in k..Len(log) :
          /\ FP!Agreement(file', log) = m /\ FP!PageForm(file', log, m)
          /\ \A n \in Nat : FP!PageForm(file', log, n) => n <= m
    BY <1>5, <1>6, <2>1, LongestAgreement
  <2>3. onFile' = m /\ log' = log
    BY <1>4, <1>6, <2>2
  <2>4. m \in onFile..Len(log) /\ m \in 0..Len(log)
    BY <1>6, <2>1, <2>2 DEF OnThePage
  <2>5. Dest!Rewrite(m)
    BY <1>5, <2>2, <2>3, <2>4, PageIsRewritten
  <2>6. OnThePage'
    BY <2>2, <2>3, <2>4 DEF OnThePage
  <2> QED
    BY <2>2, <2>3, <2>5, <2>6
<1>7. \A m \in onFile..Len(log) : Dest!Rewrite(m) /\ UNCHANGED <<log, call, status>>
        => Destination
  <2> SUFFICES ASSUME NEW m \in onFile..Len(log), Dest!Rewrite(m),
                      UNCHANGED <<log, call, status>>
               PROVE  Destination
    OBVIOUS
  <2>1. m \in 0..Len(log)
    BY DEF OnThePage
  <2>2. Dest!WriteBack
    BY <2>1 DEF Dest!WriteBack
  <2> QED
    BY <1>1, <1>4, <2>2, DestinationAssumption DEF Destination
<1>8. Dest!StreamStep /\ (status' = "ok" \/ call.op \in {"flush", "close"}) => Destination
  BY <1>4, DestinationAssumption DEF Destination
<1>9. CASE FP!Unmoved
  <2>1. UNCHANGED <<log, file, call, status>>
    BY <1>9 DEF FP!Unmoved
  <2>2. CASE call.op = "flush"
    <3>1. onFile \in onFile..Len(log) /\ FP!PageForm(file', log, onFile)
      BY <2>1 DEF OnThePage
    <3>2. PICK m \in onFile..Len(log) : Dest!Rewrite(m) /\ OnThePage'
      BY <1>6, <2>1, <2>2, <3>1
    <3> QED
      BY <1>1, <1>3, <1>7, <2>1, <3>2
  <2>3. CASE call.op # "flush"
    <3>1. UNCHANGED vars /\ UNCHANGED onFile
      BY <1>4, <2>1, <2>3 DEF vars, wvars, dvars
    <3>2. OnThePage'
      BY <2>1, <3>1 DEF OnThePage
    <3> QED
      BY <1>1, <1>3, <2>1, <2>3, <3>1, <3>2
  <2> QED
    BY <2>2, <2>3
<1>10. CASE FP!TakesSlice
  <2>1. /\ call.op = "append" /\ status' = "ok" /\ log' = log \o call.data
        /\ UNCHANGED <<file, call, onFile>>
    BY <1>4, <1>10 DEF FP!TakesSlice
  <2>2. Dest!StreamStep
    BY <1>1, <2>1 DEF Dest!StreamStep, Dest!AppendReturns
  <2>3. FP!PageForm(file, log \o call.data, onFile)
    BY <1>5, FP!FormExtends, FileConstants DEF OnThePage
  <2>4. onFile \in 0..Len(log')
    BY <1>5, <2>1 DEF OnThePage
  <2>5. OnThePage'
    BY <2>1, <2>3, <2>4 DEF OnThePage
  <2> QED
    BY <1>3, <1>8, <2>1, <2>2, <2>5
<1>11. CASE FP!WritesPage
  <2>1. call.op = "flush" /\ UNCHANGED <<log, call, status>>
    BY <1>11 DEF FP!WritesPage
  <2>2. PICK k \in onFile..Len(log) : FP!PageForm(file', log, k)
    BY <1>11 DEF FP!WritesPage, OnThePage
  <2>3. PICK m \in k..Len(log) : Dest!Rewrite(m) /\ OnThePage'
    BY <1>6, <2>1, <2>2
  <2>4. m \in onFile..Len(log)
    BY <2>2, <2>3 DEF OnThePage
  <2> QED
    BY <1>1, <1>3, <1>7, <2>1, <2>3, <2>4
<1>12. CASE FP!EndsFlush
  <2>1. /\ call.op = "flush" /\ UNCHANGED <<log, file, call>>
        /\ status' \in {"ok", "err"}
        /\ status' = "ok" => FP!PageForm(file, log, Len(log))
    BY <1>12 DEF FP!EndsFlush
  <2>2. onFile \in onFile..Len(log) /\ FP!PageForm(file', log, onFile)
    BY <2>1 DEF OnThePage
  <2>3. PICK m \in onFile..Len(log) :
          /\ onFile' = m /\ Dest!Rewrite(m) /\ OnThePage'
          /\ \A n \in Nat : FP!PageForm(file', log, n) => n <= m
    BY <1>6, <2>1, <2>2
  <2>4. status' = "ok" => m = Len(log)
    <3>1. status' = "ok" => Len(log) <= m
      BY <1>5, <2>1, <2>3
    <3> QED
      BY <1>5, <2>3, <3>1 DEF OnThePage
  <2>5. m \in 0..Len(log)
    BY <2>3 DEF OnThePage
  <2>6. Dest!FlushReturns
    BY <1>1, <2>1, <2>3, <2>4, <2>5 DEF Dest!FlushReturns
  <2> QED
    BY <1>3, <1>8, <2>1, <2>3, <2>4, <2>6 DEF Dest!StreamStep
<1>13. CASE FP!ClosesPage
  <2>1. /\ call.op = "close" /\ UNCHANGED <<log, call>> /\ status' \in {"ok", "err"}
        /\ \/ file' = Dest!TruncatedTo(file, Len(log))
           \/ status' = "err" /\ file' = file
        /\ FP!PageForm(file', log, onFile)
    BY <1>13, SameZeros DEF FP!ClosesPage, OnThePage
  <2>2. UNCHANGED onFile
    BY <1>4, <2>1
  <2>3. Dest!CloseReturns
    BY <1>1, <2>1, <2>2 DEF Dest!CloseReturns
  <2>4. OnThePage'
    BY <2>1, <2>2 DEF OnThePage
  <2> QED
    BY <1>3, <1>8, <2>1, <2>3, <2>4 DEF Dest!StreamStep
<1> QED
  BY <1>1, <1>2, <1>9, <1>10, <1>11, <1>12, <1>13 DEF FP!PageMoves, FP!MakesCall

LEMMA PageBefore ==
  ASSUME FP!MayOutgrow, Served, [StoreNext]_storeVars, OnePage'
  PROVE  OnePage
<1>1. CASE FileWrites
  <2>1. FP!FileInv /\ FP!PageInv /\ FP!FileStep /\ FP!OnePage'
    BY <1>1, FileServes DEF OnePage, FP!OnePage, FP!MayOutgrow
  <2> QED
    BY <2>1, FP!OnePageBefore, FileConstants DEF OnePage, FP!OnePage
<1>2. CASE ~FileWrites
  <2>1. UNCHANGED <<log, src>>
    BY <1>2 DEF StoreNext, CrashStore, storeVars, vars, dvars, fvars
  <2> QED
    BY <2>1 DEF OnePage
<1> QED
  BY <1>1, <1>2

LEMMA StepsOfWal ==
  ASSUME FP!MayOutgrow, Served, OnThePage, [StoreNext]_storeVars, OnePage'
  PROVE  [Next]_vars /\ OnThePage'
<1>1. CASE FileWrites
  BY <1>1, FileIsDestination DEF Next
<1>2. CASE ~FileWrites
  <2>1. UNCHANGED <<log, onFile, file>>
    BY <1>2 DEF StoreNext, CrashStore, Write, CallRead, Read, Crash, storeVars, vars, dvars
  <2>2. OnThePage'
    BY <2>1 DEF OnThePage
  <2>3. [Next]_vars
    BY <1>2 DEF StoreNext, CrashStore, storeVars, Next
  <2> QED
    BY <2>2, <2>3
<1> QED
  BY <1>1, <1>2

(* When each record is flushed and no write fails, the whole log is on the *)
(* file whenever the writer is between two fragments or done.              *)
FlushedLog ==
  /\ status # "panic"
  /\ ~failed => status # "err"
  /\ manual_flush_ /\ ~failed =>
       /\ wpc \in {"idle", "fragment", "drop"} => onFile = Len(log)
       /\ wpc = "flush" /\ status = "ok" => onFile = Len(log)
       /\ WriterClosed => onFile = Len(log)

LEMMA FlushedLogStays ==
  ASSUME FP!MayOutgrow, Served, OnThePage, Layout, FlushedLog, [StoreNext]_storeVars, OnePage'
  PROVE  FlushedLog'
<1>1. CASE FileWrites
  <2>1. /\ UNCHANGED wpc /\ wpc \notin {"idle", "fragment", "dropped"}
        /\ failed' = (failed \/ status' = "err" \/ File!WriteFails)
        /\ onFile' = IF call.op = "flush" THEN File!OnFile' ELSE onFile
    BY <1>1, FileServes DEF FileWrites, Served
  <2>2. /\ status' # "panic"
        /\ status' = "ok" /\ call.op = "flush" => onFile' = Len(log')
        /\ call.op # "append" => UNCHANGED log
    BY <1>1, FileIsDestination
  <2>3. /\ wpc = "flush" => call.op = "flush"
        /\ wpc = "drop" => call.op = "close"
    BY DEF Layout, Stage
  <2> QED
    BY <2>1, <2>2, <2>3 DEF FlushedLog, WriterClosed
<1>2. CASE CrashStore
  BY <1>2 DEF CrashStore, Crash, FlushedLog, WriterClosed, NoCall
<1>3. CASE Write(Len(log)) /\ UNCHANGED <<dvars, fvars, failed>>
  <2>1. WriterNext /\ UNCHANGED <<log, onFile, failed>>
    BY <1>3 DEF Write, dvars
  <2>2. CASE AddAnyRecord
    BY <2>1, <2>2 DEF AddAnyRecord, AddRecord, FlushedLog, WriterClosed
  <2>3. CASE FillTrailer \/ StartFragment \/ TrailerFilled \/ HeaderAppended
    BY <2>1, <2>3 DEF FillTrailer, StartFragment, TrailerFilled, HeaderAppended,
       EmitHeader, Invoke, FlushedLog, WriterClosed
  <2>4. CASE TrailerFailed \/ FlushFragment
    BY <2>1, <2>4 DEF TrailerFailed, FlushFragment, Invoke, FlushedLog, WriterClosed
  <2>5. CASE FinishFragment
    <3>1. /\ wpc \in {"header", "payload", "flush"} /\ status \in {"ok", "err"}
          /\ status = "ok" /\ manual_flush_ => wpc = "flush"
          /\ wpc' \in {"fragment", "idle"} /\ status' = "idle"
      BY <2>5 DEF FinishFragment
    <3> QED
      BY <2>1, <3>1 DEF FlushedLog, WriterClosed
  <2>6. CASE DropWriter
    BY <2>1, <2>6 DEF DropWriter, Invoke, FlushedLog, WriterClosed
  <2>7. CASE DropReturns
    BY <2>1, <2>7 DEF DropReturns, FlushedLog, WriterClosed
  <2> QED
    BY <2>1, <2>2, <2>3, <2>4, <2>5, <2>6, <2>7 DEF WriterNext, WriterStep
<1>4. CASE \/ (CallRead(onFile = Len(log)) \/ Read) /\ UNCHANGED <<dvars, fvars, failed>>
           \/ UNCHANGED storeVars
  <2>1. UNCHANGED <<wpc, status, call, log, onFile, failed>>
    BY <1>4 DEF CallRead, Read, storeVars, vars, dvars, wvars
  <2> QED
    BY <2>1 DEF FlushedLog, WriterClosed
<1> QED
  BY <1>1, <1>2, <1>3, <1>4 DEF StoreNext

-----------------------------------------------------------------------------
WalInv == BytesSound /\ PrefixInv /\ OffsetsInv /\ RestInv

StoreInv ==
  /\ Served
  /\ damaged = 0
  /\ OnePage => OnThePage /\ WalInv /\ FlushedLog

LEMMA StoreInvStays ==
  ASSUME FP!MayOutgrow, StoreInv, [StoreNext]_storeVars
  PROVE  StoreInv'
<1>1. Served'
  BY ServedStays DEF StoreInv
<1>2. damaged' = 0
  BY DEF StoreInv, StoreNext, FileWrites, CrashStore, storeVars, vars, dvars
<1>3. ASSUME OnePage' PROVE OnThePage' /\ WalInv' /\ FlushedLog'
  <2>1. Served /\ OnThePage /\ BytesSound /\ PrefixInv /\ OffsetsInv /\ RestInv /\ FlushedLog
    BY <1>3, PageBefore DEF StoreInv, WalInv
  <2>2. [Next \/ KeepReading]_vars /\ OnThePage'
    BY <1>3, <2>1, StepsOfWal
  <2>3. AppendsSucceed
    BY DestinationAssumption DEF AppendsSucceed
  <2>4. WalInv'
    BY <2>1, <2>2, <2>3, BytesStaySound, PrefixInvStays, OffsetsInvStays, RestInvStays DEF
       WalInv
  <2>5. FlushedLog'
    BY <1>3, <2>1, FlushedLogStays DEF PrefixInv
  <2> QED
    BY <2>2, <2>4, <2>5
<1> QED
  BY <1>1, <1>2, <1>3 DEF StoreInv

LEMMA StoreInvAtFirst == StoreInit => StoreInv
<1> SUFFICES ASSUME StoreInit PROVE StoreInv
  OBVIOUS
<1>1. Init /\ File!NewFile
  BY DEF StoreInit
<1>2. WalInv
  BY <1>1, BytesSoundAtFirst, PrefixInvAtFirst, OffsetsInvAtFirst, RestInvAtFirst DEF WalInv
<1>3. /\ damaged = 0 /\ log = <<>> /\ onFile = 0 /\ file = <<>> /\ status = "idle" /\ wpc = "idle"
      /\ call = [op |-> "none", data |-> <<>>]
  BY <1>1 DEF Init, Dest!StreamInit, RecoveryInit, WriterInit
<1>4. FP!Init
  BY <1>1, <1>3 DEF FP!Init, FP!NewFile, File!NewFile, FP!PosixInit, File!PosixInit,
     File!round_up, FP!round_up
<1>5. FP!FileInv /\ FP!PageInv
  BY <1>4, FP!InitFile, FP!InitPage, FileConstants
<1>6. ~reopened
  BY <1>1 DEF File!NewFile, File!PosixInit
<1>7. Served
  BY <1>2, <1>3, <1>5, <1>6 DEF Served, WalInv, BytesSound
<1>8. OnThePage
  BY <1>3 DEF OnThePage, FP!PageForm
<1>9. FlushedLog
  BY <1>3 DEF FlushedLog, WriterClosed
<1> QED
  BY <1>2, <1>3, <1>7, <1>8, <1>9 DEF StoreInv

(* The buffer holds more than a page, or may grow to hold more.            *)
BufferOutgrowsPage == Alignment < InitialCapacity \/ Alignment < max_buffer_size_

LEMMA StoreInvAlways == BufferOutgrowsPage => (StoreSpec => []StoreInv)
<1> SUFFICES ASSUME BufferOutgrowsPage PROVE StoreSpec => []StoreInv
  OBVIOUS
<1>1. FP!MayOutgrow
  BY DEF BufferOutgrowsPage, FP!MayOutgrow
<1>2. StoreInv /\ [StoreNext]_storeVars => StoreInv'
  BY <1>1, StoreInvStays
<1> QED
  BY <1>2, StoreInvAtFirst, PTL DEF StoreSpec

(* The log writer on its file writer, with torn and failing writes and     *)
(* crashes, is the write-ahead log of Wal as long as it fits into one      *)
(* page: what Wal supposes of a destination, the code gives.               *)
THEOREM StoreIsWal == BufferOutgrowsPage => (StoreSpec => ImplementsWal)
<1> SUFFICES ASSUME BufferOutgrowsPage PROVE StoreSpec => ImplementsWal
  OBVIOUS
<1>1. FP!MayOutgrow
  BY DEF BufferOutgrowsPage, FP!MayOutgrow
<1>2. StoreInv /\ [StoreNext]_storeVars => [OnePage' => Next]_vars
  BY <1>1, PageBefore, StepsOfWal DEF StoreInv
<1>3. StoreInit => Init
  BY DEF StoreInit
<1> QED
  BY <1>2, <1>3, StoreInvAlways, PTL DEF StoreSpec, ImplementsWal

(* A caller that verifies checksums is given, up to the first call that    *)
(* returns false, exactly the first records that were added, however the   *)
(* writes to a file of one page are cut, fail or are overtaken by a crash, *)
(* and also when it reads the file while it is written.                    *)
THEOREM OnePageRecovered ==
  BufferOutgrowsPage => (StoreSpec => [](checksum_ => OnePageRecovery))
<1>1. StoreInv => (checksum_ => OnePageRecovery)
  BY PrefixUnlessPassedOver, NoneIsPassedOver DEF StoreInv, WalInv, PrefixInv, OnePageRecovery
<1> QED
  BY <1>1, StoreInvAlways, PTL

(* The round trip of test_wal: with every record flushed and no write      *)
(* failing, a writer that is dropped leaves the whole log on its page, and *)
(* a caller that verifies checksums and reads all of it from offset 0,     *)
(* without a read error, is then given every record that was added.        *)
THEOREM OnePageIsReadWhole ==
  BufferOutgrowsPage =>
    (StoreSpec => [](checksum_ /\ ~recycle_log_files_ /\ initial_offset_ = 0 /\ ~read_error_
                       => OnePageRoundTrip))
<1>1. ASSUME StoreInv, checksum_, ~recycle_log_files_, initial_offset_ = 0, ~read_error_
      PROVE  OnePageRoundTrip
  <2> SUFFICES ASSUME OnePage, manual_flush_, ~failed
               PROVE  /\ WriterClosed => onFile = Len(log)
                      /\ atRest /\ stopped /\ NoneCut => leading = added
    BY DEF OnePageRoundTrip
  <2>1. WriterClosed => onFile = Len(log)
    BY <1>1 DEF StoreInv, FlushedLog
  <2>2. ASSUME atRest, stopped, NoneCut PROVE leading = added
    <3>1. damaged = 0 /\ BytesSound /\ PrefixInv /\ RestInv
      BY <1>1 DEF StoreInv, WalInv
    <3>2. AllWhole(Latest)
      <4>1. starts \in Seq(Nat)
        BY <3>1, LayoutIs DEF PrefixInv
      <4> QED
        BY <2>2, <4>1 DEF NoneCut, AllWhole, Whole, InBlock, Latest
    <3> QED
      BY <1>1, <2>2, <3>1, <3>2 DEF RestInv, StopsAtEnd
  <2> QED
    BY <2>1, <2>2
<1> QED
  BY <1>1, StoreInvAlways, PTL

=============================================================================
