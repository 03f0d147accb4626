------------------------------ MODULE FileProofs ------------------------------
(***************************************************************************)
(* Proofs about WritableFileWriter: its asserts, its accounting of sizes,  *)
(* what happens to a file that is reopened, and that a file of one page is *)
(* a PrefixStream, for every alignment, buffer size and length of slices.  *)
(***************************************************************************)
EXTENDS WritableFileWriter, TLAPS

(* The bytes of payloads, and all those that a log may be made of.         *)
PayloadBytes == {DataByte(r, i) : r \in Nat, i \in Nat}
Headers ==
  [type : Nat, length : Nat, log : Nat, crc : Seq(PayloadBytes \cup {FieldByte(v) : v \in Nat})]
AppendedBytes ==
  PayloadBytes \cup {HeadByte(h, i) : h \in Headers, i \in Nat} \cup {ZeroByte, JunkByte}
FileBytes     == AppendedBytes \cup {ZeroByte}

Calls == [op : {"none", "append", "flush", "close"}, data : Seq(AppendedBytes)]

FileTypes ==
  /\ fpc \in {"idle", "copy", "write", "closed"}
  /\ buf \in Seq(FileBytes) /\ file \in Seq(FileBytes) /\ old \in Seq(FileBytes)
  /\ src \in Seq(AppendedBytes) /\ accepted \in Seq(AppendedBytes)
  /\ capacity \in Nat /\ filesize_ \in Nat /\ next_write_offset_ \in Nat
  /\ done \in Nat /\ last_preallocated_block_ \in Nat /\ appends \in Nat
  /\ opened \in BOOLEAN /\ reopened \in BOOLEAN
  /\ call \in Calls
  /\ status \in {"idle", "pending", "ok", "err", "panic"}

(* The buffer has whole pages, at least one.                               *)
Room ==
  /\ next_write_offset_ % Alignment = 0
  /\ capacity % Alignment = 0
  /\ Alignment <= capacity
  /\ InitialCapacity <= capacity
  /\ Len(buf) <= capacity

(* Where a call stands.  A slice is only written before its end when the   *)
(* buffer is full, and only finds it full when it may not grow.            *)
Stages ==
  /\ fpc \in {"copy", "write"} => status = "pending"
  /\ fpc = "copy" =>
       /\ call.op = "append"
       /\ src = <<>> \/ Len(buf) < capacity
            \/ (src = call.data /\ max_buffer_size_ <= capacity)
  /\ fpc = "write" =>
       /\ call.op \in {"append", "flush"}
       /\ buf # <<>>
       /\ done <= Len(Padded)
       /\ call.op = "append" => src # <<>> /\ Len(buf) = capacity
  /\ fpc = "closed" => status \in {"ok", "err"}
  /\ status = "panic" => fpc = "idle"
  /\ PanicTakesNothing

Appending  == fpc = "copy" \/ (fpc = "write" /\ call.op = "append")
SizeAsked  == filesize_ + Len(call.data)
Preallocated == last_preallocated_block_ * preallocation_block_size_

(* What a slice will add to the size when it succeeds.                     *)
Sizes ==
  /\ filesize_ <= Len(accepted)
  /\ Appending => SizeAsked <= Len(accepted) + Len(src)
  /\ preallocation_block_size_ > 0 =>
       /\ filesize_ <= Preallocated
       /\ Appending => SizeAsked <= Preallocated

FileInv == FileTypes /\ Room /\ Stages /\ Sizes

-----------------------------------------------------------------------------
BeginsSlice == fpc = "copy" /\ src = call.data
MayOutgrow  == Alignment < InitialCapacity \/ Alignment < max_buffer_size_

(* What is left of a slice that was taken in part is not of the first page. *)
Leftovers ==
  /\ Len(buf) <= Len(accepted)
  /\ src # <<>> /\ ~BeginsSlice =>
       Alignment <= Len(accepted) /\ (MayOutgrow => Alignment < Len(accepted))
  /\ BeginsSlice /\ capacity - Len(buf) < Len(src) =>
       Alignment < capacity \/ max_buffer_size_ <= capacity
  /\ Appending /\ ~BeginsSlice => src # <<>> /\ Len(src) < Len(call.data)

(* The first n bytes of f are those of a, the others zeros.                *)
PageForm(f, a, n) ==
  /\ n \in 0..Len(a)
  /\ n <= Len(f)
  /\ \A i \in 1..n : f[i] = a[i]
  /\ \A i \in n + 1..Len(f) : f[i] = ZeroByte

(* The page is in the buffer; or it was full, and has been written; or it  *)
(* was lost when the buffer grew, for a slice that goes beyond it.         *)
InBuffer  == next_write_offset_ = 0 /\ buf = accepted
Written   == /\ next_write_offset_ = Alignment
             /\ buf = <<>>
             /\ Len(accepted) = Alignment
             /\ fpc # "closed" => PageForm(file, accepted, Alignment)
Outgrown  == /\ BeginsSlice
             /\ Alignment < Len(accepted) + Len(src)
             /\ Alignment < capacity

OfOnePage ==
  /\ Len(file) <= Alignment
  /\ \E n \in 0..Len(accepted) : PageForm(file, accepted, n)
  /\ InBuffer \/ Written \/ Outgrown
  /\ fpc = "write" =>
       /\ done <= Len(file)
       /\ \A i \in 1..done : file[i] = Padded[i]
  /\ MayOutgrow /\ Len(accepted) + Len(src) <= Alignment => filesize_ = Len(accepted)

PageInv ==
  /\ Leftovers
  /\ Len(accepted) <= Alignment /\ ~reopened => OfOnePage

-----------------------------------------------------------------------------
(* Pages.                                                                  *)
LEMMA Constants ==
  /\ Alignment \in Nat /\ 0 < Alignment
  /\ InitialCapacity \in Nat /\ 0 < InitialCapacity
  /\ max_buffer_size_ \in Nat /\ preallocation_block_size_ \in Nat
BY AlignmentAssumption, WritableFileWriterAssumption, PosixWritableFileAssumption

LEMMA Quotients ==
  ASSUME NEW b \in Nat, b > 0
  PROVE  /\ \A q \in Int, r \in 0 .. b - 1 : (q * b + r) % b = r /\ (q * b + r) \div b = q
         /\ \A q \in Int : (q * b) % b = 0
         /\ \A a \in Int : /\ a = (a \div b) * b + (a % b)
                           /\ a \div b \in Int /\ a % b \in 0 .. b - 1
OBVIOUS

LEMMA Products ==
  ASSUME NEW b \in Nat, b > 0, NEW p \in Int, NEW q \in Int
  PROVE  /\ p * b \in Int
         /\ p * b < q * b + b => p * b <= q * b
         /\ p * b < q * b => p * b + b <= q * b
         /\ p <= q => p * b <= q * b
OBVIOUS

(* round_up gives the least number of whole pages.                         *)
LEMMA RoundUpIs ==
  ASSUME NEW x \in Nat
  PROVE  /\ round_up(x) \in Nat
         /\ round_up(x) % Alignment = 0
         /\ x <= round_up(x) /\ round_up(x) < x + Alignment
         /\ \A y \in Nat : x <= y /\ y % Alignment = 0 => round_up(x) <= y
<1>1. PICK b \in Nat : b = Alignment /\ b > 0
  BY Constants
<1>2. PICK q \in Int : q = (x + b - 1) \div b
  BY <1>1, Quotients
<1>3. PICK r \in 0 .. b - 1 : x + b - 1 = q * b + r
  BY <1>1, <1>2, Quotients
<1>4. round_up(x) = q * b
  BY <1>1, <1>2 DEF round_up
<1>5. PICK m \in Int : m = q * b /\ m % b = 0
  BY <1>1, Quotients, Products
<1>6. x <= m /\ m < x + b
  BY <1>1, <1>3, <1>5
<1>7. ASSUME NEW y \in Nat, x <= y, y % b = 0
      PROVE  m <= y
  <2>1. PICK p \in Int : p = y \div b
    BY <1>1, <1>7, Quotients
  <2>2. y = p * b + (y % b)
    BY <1>1, <2>1, Quotients
  <2>3. y = p * b
    BY <1>1, <1>7, <2>2, Products
  <2>4. m < y + b
    BY <1>1, <1>6, <1>7
  <2> QED
    BY <1>1, <1>5, <2>3, <2>4, Products
<1> QED
  BY <1>1, <1>4, <1>5, <1>6, <1>7

(* truncate_to_page_boundary gives the whole pages within.                 *)
LEMMA TruncateIs ==
  ASSUME NEW s \in Nat
  PROVE  /\ truncate_to_page_boundary(s) \in 0..s
         /\ truncate_to_page_boundary(s) % Alignment = 0
         /\ s < truncate_to_page_boundary(s) + Alignment
         /\ s % Alignment = 0 => truncate_to_page_boundary(s) = s
         /\ s < Alignment => truncate_to_page_boundary(s) = 0
<1>1. PICK b \in Nat : b = Alignment /\ b > 0
  BY Constants
<1>2. PICK q \in Int : q = s \div b
  BY <1>1, Quotients
<1>3. PICK r \in 0 .. b - 1 : r = s % b /\ s = q * b + r
  BY <1>1, <1>2, Quotients
<1>4. PICK m \in Int : m = q * b /\ m % b = 0
  BY <1>1, Quotients, Products
<1>5. truncate_to_page_boundary(s) = m
  BY <1>1, <1>3, <1>4 DEF truncate_to_page_boundary
<1>6. 0 <= m /\ (s < b => m = 0)
  <2>1. 0 * b < m + b
    BY <1>1, <1>3, <1>4
  <2>2. 0 <= m
    BY <1>1, <1>4, <2>1, Products
  <2>3. ASSUME s < b PROVE m <= 0
    <3>1. m < 0 * b + b
      BY <1>1, <1>3, <1>4, <2>3
    <3>2. m <= 0 * b
      BY <1>1, <1>4, <3>1, Products
    <3> QED
      BY <1>1, <3>2
  <2> QED
    BY <1>4, <2>2, <2>3
<1> QED
  BY <1>1, <1>3, <1>4, <1>5, <1>6

LEMMA PagesOfOne ==
  /\ \A x \in 1..Alignment : round_up(x) = Alignment
  /\ round_up(0) = 0
  /\ 0 % Alignment = 0 /\ Alignment % Alignment = 0
<1>1. 0 % Alignment = 0 /\ Alignment % Alignment = 0
  <2>1. (0 * Alignment) % Alignment = 0 /\ (1 * Alignment) % Alignment = 0
    BY Constants, Quotients
  <2> QED
    BY <2>1, Constants
<1>2. ASSUME NEW x \in 1..Alignment PROVE round_up(x) = Alignment
  <2>1. PICK m \in Nat : m = round_up(x) /\ m % Alignment = 0 /\ x <= m
    BY Constants, RoundUpIs
  <2>2. m <= Alignment
    BY <1>1, <2>1, Constants, RoundUpIs
  <2>3. m < Alignment => m % Alignment = m
    BY <2>1, Constants
  <2> QED
    BY <2>1, <2>2, <2>3, Constants
<1>3. round_up(0) <= 0 /\ round_up(0) \in Nat
  BY <1>1, RoundUpIs
<1> QED
  BY <1>1, <1>2, <1>3

(* Contents of the buffer and of the file.                                 *)
LEMMA ZerosAre ==
  ASSUME NEW n \in Nat
  PROVE  /\ Zeros(n) \in Seq(FileBytes) /\ Len(Zeros(n)) = n
         /\ \A i \in 1..n : Zeros(n)[i] = ZeroByte
<1>1. ZeroByte \in FileBytes
  BY DEF FileBytes
<1> QED
  BY <1>1 DEF Zeros

LEMMA PayloadIs ==
  ASSUME NEW r \in Nat, NEW n \in Nat
  PROVE  /\ Payload(r, n) \in Seq(AppendedBytes) /\ Len(Payload(r, n)) = n
         /\ Payload(r, n) \in Seq(PayloadBytes)
<1>1. \A i \in 1..n : DataByte(r, i) \in PayloadBytes
  BY DEF PayloadBytes
<1> USE DEF AppendedBytes
<1> QED
  BY <1>1 DEF Payload

LEMMA SubSeqIs ==
  ASSUME NEW S, NEW s \in Seq(S), NEW a \in Nat, NEW m \in Nat, 0 < a, m <= Len(s)
  PROVE  /\ SubSeq(s, a, m) \in Seq(S)
         /\ Len(SubSeq(s, a, m)) = IF a <= m THEN m - a + 1 ELSE 0
         /\ \A i \in 1..Len(SubSeq(s, a, m)) : SubSeq(s, a, m)[i] = s[a + i - 1]
OBVIOUS

LEMMA BeginningIs ==
  ASSUME NEW S, NEW s \in Seq(S), NEW n \in Nat, n <= Len(s)
  PROVE  /\ SubSeq(s, 1, n) \in Seq(S) /\ Len(SubSeq(s, 1, n)) = n
         /\ \A i \in 1..n : SubSeq(s, 1, n)[i] = s[i]
<1>1. PICK t : t = SubSeq(s, 1, n)
  OBVIOUS
<1>2. /\ t \in Seq(S) /\ Len(t) = n
      /\ \A i \in 1..n : t[i] = s[1 + i - 1]
  BY <1>1, SubSeqIs
<1>3. \A i \in 1..n : t[i] = s[i]
  BY <1>2
<1> QED
  BY <1>1, <1>2, <1>3

LEMMA ConcatIs ==
  ASSUME NEW S, NEW s \in Seq(S), NEW t \in Seq(S)
  PROVE  /\ s \o t \in Seq(S)
         /\ Len(s \o t) = Len(s) + Len(t)
         /\ \A i \in 1..Len(s) + Len(t) :
              (s \o t)[i] = IF i <= Len(s) THEN s[i] ELSE t[i - Len(s)]
OBVIOUS

LEMMA PaddedIs ==
  ASSUME NEW s \in Seq(FileBytes)
  PROVE  /\ pad_to_aligment_with(s) \in Seq(FileBytes)
         /\ Len(pad_to_aligment_with(s)) = round_up(Len(s))
         /\ \A i \in 1..Len(s) : pad_to_aligment_with(s)[i] = s[i]
         /\ \A i \in Len(s) + 1..round_up(Len(s)) : pad_to_aligment_with(s)[i] = ZeroByte
<1>1. PICK n \in Nat : n = round_up(Len(s)) /\ Len(s) <= n
  BY RoundUpIs
<1>2. PICK z : z = Zeros(n - Len(s))
  OBVIOUS
<1>3. n - Len(s) \in Nat
  BY <1>1
<1>4. z \in Seq(FileBytes) /\ Len(z) = n - Len(s)
  BY <1>2, <1>3, ZerosAre
<1>5. \A i \in 1..n - Len(s) : z[i] = ZeroByte
  BY <1>2, <1>3, ZerosAre
<1>6. pad_to_aligment_with(s) = s \o z
  BY <1>1, <1>2 DEF pad_to_aligment_with
<1>7. \A i \in 1..Len(s) : (s \o z)[i] = s[i]
  BY <1>4
<1>8. ASSUME NEW i \in Len(s) + 1..n PROVE (s \o z)[i] = ZeroByte
  <2>1. (s \o z)[i] = z[i - Len(s)] /\ i - Len(s) \in 1..n - Len(s)
    BY <1>1, <1>4
  <2> QED
    BY <1>5, <2>1
<1>9. s \o z \in Seq(FileBytes) /\ Len(s \o z) = n
  BY <1>1, <1>4
<1> QED
  BY <1>1, <1>6, <1>7, <1>8, <1>9

LEMMA OverwriteIs ==
  ASSUME NEW f \in Seq(FileBytes), NEW d \in Seq(FileBytes), NEW at \in Nat, d # <<>>
  PROVE  /\ Overwrite(f, d, at) \in Seq(FileBytes)
         /\ Len(Overwrite(f, d, at)) = IF at + Len(d) > Len(f) THEN at + Len(d) ELSE Len(f)
         /\ \A i \in 1..Len(Overwrite(f, d, at)) :
              Overwrite(f, d, at)[i] = IF i > at /\ i <= at + Len(d) THEN d[i - at]
                                       ELSE IF i > Len(f) THEN ZeroByte ELSE f[i]
<1>1. PICK n \in Nat : n = IF at + Len(d) > Len(f) THEN at + Len(d) ELSE Len(f)
  OBVIOUS
<1> DEFINE e(i) == CASE i > at /\ i <= at + Len(d) -> d[i - at]
                     [] i <= at /\ i > Len(f)      -> ZeroByte
                     [] OTHER                      -> f[i]
<1>2. Overwrite(f, d, at) = [i \in 1..n |-> e(i)]
  BY <1>1 DEF Overwrite
<1>3. ASSUME NEW i \in 1..n
      PROVE  /\ e(i) = IF i > at /\ i <= at + Len(d) THEN d[i - at]
                       ELSE IF i > Len(f) THEN ZeroByte ELSE f[i]
             /\ e(i) \in FileBytes
  <2>1. ZeroByte \in FileBytes
    BY DEF FileBytes
  <2>2. CASE i > at /\ i <= at + Len(d)
    <3>1. d[i - at] \in FileBytes
      BY <2>2
    <3> QED
      BY <2>2, <3>1
  <2>3. CASE i <= at /\ i > Len(f)
    BY <2>1, <2>3
  <2>4. CASE ~(i > at /\ i <= at + Len(d)) /\ ~(i <= at /\ i > Len(f))
    <3>1. i \in 1..Len(f)
      BY <1>1, <2>4
    <3> QED
      BY <2>4, <3>1
  <2> QED
    BY <2>2, <2>3, <2>4
<1> HIDE DEF e
<1>4. [i \in 1..n |-> e(i)] \in Seq(FileBytes) /\ Len([i \in 1..n |-> e(i)]) = n
  BY <1>3
<1> QED
  BY <1>1, <1>2, <1>3, <1>4

LEMMA TruncatedIs ==
  ASSUME NEW f \in Seq(FileBytes), NEW n \in Nat
  PROVE  /\ TruncatedTo(f, n) \in Seq(FileBytes)
         /\ Len(TruncatedTo(f, n)) = n
         /\ \A i \in 1..n : TruncatedTo(f, n)[i] = IF i <= Len(f) THEN f[i] ELSE ZeroByte
<1>1. ZeroByte \in FileBytes
  BY DEF FileBytes
<1>2. \A i \in 1..n : (IF i <= Len(f) THEN f[i] ELSE ZeroByte) \in FileBytes
  BY <1>1
<1> QED
  BY <1>2 DEF TruncatedTo

-----------------------------------------------------------------------------
(* The invariant at the start, and step by step.                           *)
LEMMA NewRoom ==
  LET c == round_up(InitialCapacity)
  IN  c \in Nat /\ c % Alignment = 0 /\ Alignment <= c /\ InitialCapacity <= c
<1>1. PICK c \in Nat : /\ c = round_up(InitialCapacity)
                       /\ c % Alignment = 0 /\ InitialCapacity <= c
  BY Constants, RoundUpIs
<1>2. c < Alignment => c % Alignment = c
  BY <1>1, Constants
<1>3. Alignment <= c
  BY <1>1, <1>2, Constants
<1> QED
  BY <1>1, <1>3

LEMMA Products0 ==
  /\ \A p, q \in Nat : p * q \in Nat
  /\ 0 * preallocation_block_size_ = 0
BY Constants

LEMMA InitFile == Init => FileInv
<1> SUFFICES ASSUME Init PROVE FileInv
  OBVIOUS
<1> USE DEF Init, NewFile, PosixInit
<1>1. <<>> \in Seq(FileBytes) /\ <<>> \in Seq(AppendedBytes) /\ Len(<<>>) = 0
  OBVIOUS
<1>2. FileTypes
  BY <1>1, NewRoom DEF FileTypes, Calls
<1>3. Room
  BY <1>1, NewRoom, PagesOfOne, Constants DEF Room
<1>4. Stages
  BY DEF Stages, PanicTakesNothing
<1>5. Sizes
  BY <1>1, Products0 DEF Sizes, Appending, SizeAsked, Preallocated
<1> QED
  BY <1>2, <1>3, <1>4, <1>5 DEF FileInv

(* prepare_write covers what the slice will add, and forgets nothing.      *)
LEMMA PreparedCovers ==
  ASSUME FileInv, prepare_write(filesize_, Len(call.data))
  PROVE  /\ last_preallocated_block_' \in Nat
         /\ preallocation_block_size_ > 0 =>
              /\ filesize_ <= last_preallocated_block_' * preallocation_block_size_
              /\ SizeAsked <= last_preallocated_block_' * preallocation_block_size_
<1>1. PICK b \in Nat : b = preallocation_block_size_
  BY Constants
<1>2. PICK l \in Nat : l = last_preallocated_block_
  BY DEF FileInv, FileTypes
<1>3. PICK e \in Nat : e = SizeAsked /\ filesize_ \in Nat /\ filesize_ <= e
  BY DEF FileInv, FileTypes, Calls, SizeAsked
<1>4. CASE b = 0
  BY <1>1, <1>2, <1>4 DEF prepare_write
<1>5. CASE b > 0
  <2>1. PICK q \in Int : q = (e + b - 1) \div b
    BY <1>3, <1>5, Quotients
  <2>2. PICK r \in 0 .. b - 1 : e + b - 1 = q * b + r
    BY <1>3, <1>5, <2>1, Quotients
  <2>3. PICK m \in Int : m = q * b /\ e <= m
    BY <1>3, <1>5, <2>2, Products
  <2>4. BlocksSpanned(filesize_ + Len(call.data)) = q
    BY <1>1, <1>3, <2>1 DEF BlocksSpanned, SizeAsked
  <2>5. last_preallocated_block_' = IF q > l THEN q ELSE l
    BY <1>1, <1>2, <1>5, <2>4 DEF prepare_write
  <2>6. PICK l2 \in Int : l2 = last_preallocated_block_' /\ l2 >= q /\ l2 >= l
    BY <1>2, <2>1, <2>5
  <2>7. PICK k \in Int : k = l2 * b /\ m <= k
    BY <1>5, <2>1, <2>3, <2>6, Products
  <2>8. e <= k
    BY <1>3, <2>3, <2>7
  <2>9. last_preallocated_block_' * preallocation_block_size_ = k
    BY <1>1, <2>6, <2>7
  <2>10. last_preallocated_block_' \in Nat
    BY <1>2, <2>6
  <2> QED
    BY <1>3, <2>7, <2>8, <2>9, <2>10
<1> QED
  BY <1>4, <1>5

LEMMA AppendBeginsKeeps ==
  ASSUME FileInv, AppendBegins
  PROVE  /\ FileInv'
         /\ \/ UNCHANGED <<buf, capacity>>
            \/ /\ capacity - Len(buf) < Len(call.data)
               /\ capacity < capacity' /\ buf' = Zeros(Len(buf))
         /\ capacity' - Len(buf') < Len(src') => Alignment < capacity' \/ max_buffer_size_ <= capacity'
<1>1. /\ fpc = "idle" /\ status = "pending" /\ call.op = "append"
      /\ src' = call.data /\ fpc' = "copy"
      /\ UNCHANGED <<file, opened, reopened, filesize_, next_write_offset_, done, accepted,
                     appends, old, call, status>>
      /\ prepare_write(filesize_, Len(call.data))
  BY DEF AppendBegins, Asked
<1>2. /\ capacity \in Nat /\ Len(buf) \in Nat /\ Len(buf) <= capacity
      /\ capacity % Alignment = 0 /\ Alignment <= capacity /\ InitialCapacity <= capacity
      /\ call.data \in Seq(AppendedBytes) /\ Len(call.data) \in Nat
  BY DEF FileInv, FileTypes, Room, Calls
<1> DEFINE Grown == \E d \in Desired(Len(call.data)) : Enlarge(d)
<1>3. \/ UNCHANGED <<buf, capacity>> /\ (capacity - Len(buf) < Len(call.data) => Candidates = {})
      \/ Grown /\ capacity - Len(buf) < Len(call.data)
  BY DEF AppendBegins
<1>4. ASSUME Grown
      PROVE  /\ capacity < capacity' /\ buf' = Zeros(Len(buf))
             /\ capacity' \in Nat /\ capacity' % Alignment = 0
  <2>1. PICK d \in Candidates : Enlarge(d)
    BY <1>4 DEF Desired
  <2>2. d \in Nat /\ capacity < d
    BY <1>2, <2>1, Constants DEF Candidates
  <2>3. ~IgnoresRequest(buf, d, TRUE)
    BY <1>2, <2>2 DEF IgnoresRequest
  <2>4. capacity' = round_up(d) /\ buf' = Zeros(Len(buf))
    BY <2>1, <2>3 DEF Enlarge, Reallocated
  <2>5. PICK c \in Nat : c = round_up(d) /\ d <= c /\ c % Alignment = 0
    BY <2>2, RoundUpIs
  <2> QED
    BY <1>2, <2>2, <2>4, <2>5
<1>5. /\ buf' \in Seq(FileBytes) /\ Len(buf') = Len(buf)
      /\ capacity' \in Nat /\ capacity' % Alignment = 0 /\ capacity <= capacity'
      /\ Grown => capacity < capacity'
  <2>1. CASE Grown
    BY <1>2, <1>4, <2>1, ZerosAre
  <2>2. CASE UNCHANGED <<buf, capacity>> /\ ~Grown
    BY <1>2, <2>2 DEF FileInv, FileTypes
  <2> QED
    BY <1>3, <2>1, <2>2
<1>6. Candidates = {} => max_buffer_size_ <= capacity
  <2>1. capacity < max_buffer_size_ => max_buffer_size_ \in Candidates
    BY <1>2, Constants DEF Candidates
  <2> QED
    BY <1>2, <2>1, Constants
<1>7. FileTypes'
  BY <1>1, <1>2, <1>5, PreparedCovers DEF FileInv, FileTypes
<1>8. Room'
  <2>1. next_write_offset_' % Alignment = 0
    BY <1>1 DEF FileInv, Room
  <2>2. Alignment <= capacity' /\ InitialCapacity <= capacity' /\ Len(buf') <= capacity'
    BY <1>2, <1>5, Constants
  <2> QED
    BY <1>5, <2>1, <2>2 DEF Room
<1>9. src' = <<>> \/ Len(buf') < capacity' \/ (src' = call'.data /\ max_buffer_size_ <= capacity')
  <2>1. CASE Grown
    BY <1>2, <1>5, <2>1
  <2>2. CASE UNCHANGED <<buf, capacity>> /\ (capacity - Len(buf) < Len(call.data) => Candidates = {})
    BY <1>1, <1>2, <1>6, <2>2
  <2> QED
    BY <1>3, <2>1, <2>2
<1>10. Stages'
  BY <1>1, <1>9 DEF Stages, PanicTakesNothing
<1>11. Sizes'
  <2>1. /\ SizeAsked' = SizeAsked /\ Len(src') = Len(call.data) /\ Len(accepted') = Len(accepted)
        /\ filesize_' = filesize_ /\ filesize_ <= Len(accepted)
    BY <1>1 DEF SizeAsked, FileInv, Sizes
  <2>2. SizeAsked \in Nat /\ SizeAsked <= Len(accepted) + Len(call.data)
    BY <1>2, <2>1 DEF FileInv, FileTypes, SizeAsked
  <2>3. Preallocated' = last_preallocated_block_' * preallocation_block_size_
    BY DEF Preallocated
  <2> QED
    BY <1>1, <2>1, <2>2, <2>3, PreparedCovers DEF Sizes
<1>12. capacity' - Len(buf') < Len(src') => Alignment < capacity' \/ max_buffer_size_ <= capacity'
  <2>1. CASE Grown
    BY <1>2, <1>5, <2>1, Constants
  <2>2. CASE UNCHANGED <<buf, capacity>> /\ (capacity - Len(buf) < Len(call.data) => Candidates = {})
    BY <1>1, <1>2, <1>6, <2>2
  <2> QED
    BY <1>3, <2>1, <2>2
<1>13. \/ UNCHANGED <<buf, capacity>>
       \/ /\ capacity - Len(buf) < Len(call.data)
          /\ capacity < capacity' /\ buf' = Zeros(Len(buf))
  BY <1>3, <1>4
<1> QED
  BY <1>2, <1>7, <1>8, <1>10, <1>11, <1>12, <1>13 DEF FileInv

(* What CopyIn copies: the rest of the slice, or what the buffer holds.    *)
LEMMA Copies ==
  ASSUME FileInv, CopyIn
  PROVE  \E n \in 0..Len(src) :
           /\ buf' = buf \o SubSeq(src, 1, n) /\ src' = SubSeq(src, n + 1, Len(src))
           /\ Len(buf') = Len(buf) + n /\ Len(src') = Len(src) - n
           /\ buf' \in Seq(FileBytes) /\ src' \in Seq(AppendedBytes)
           /\ accepted' = accepted \o SubSeq(src, 1, n)
           /\ accepted' \in Seq(AppendedBytes) /\ Len(accepted') = Len(accepted) + n
           /\ Len(buf) + n <= capacity
           /\ \/ n = Len(src) /\ Appends(src) /\ UNCHANGED done /\ SubSeq(src, 1, n) = src
              \/ /\ n < Len(src) /\ Len(buf) + n = capacity
                 /\ fpc' = "write" /\ done' = 0 /\ UNCHANGED <<filesize_, status>>
<1>1. /\ buf \in Seq(FileBytes) /\ src \in Seq(AppendedBytes) /\ accepted \in Seq(AppendedBytes)
      /\ capacity \in Nat /\ Len(buf) \in Nat /\ Len(buf) <= capacity /\ Len(src) \in Nat
  BY DEF FileInv, FileTypes, Room
<1>2. PICK n : n = Appended(buf, capacity, Len(src))
  OBVIOUS
<1>3. /\ n \in 0..Len(src) /\ Len(buf) + n <= capacity
      /\ n < Len(src) => Len(buf) + n = capacity
  BY <1>1, <1>2 DEF Appended
<1>4. PICK s : s = SubSeq(src, 1, n)
  OBVIOUS
<1>5. /\ s \in Seq(AppendedBytes) /\ Len(s) = n
      /\ \A i \in 1..n : s[i] = src[i]
  BY <1>1, <1>3, <1>4, SubSeqIs
<1>6. s \in Seq(FileBytes)
  BY <1>5 DEF FileBytes
<1>7. /\ SubSeq(src, n + 1, Len(src)) \in Seq(AppendedBytes)
      /\ Len(SubSeq(src, n + 1, Len(src))) = Len(src) - n
  BY <1>1, <1>3, SubSeqIs
<1>8. n = Len(src) => s = src
  BY <1>1, <1>5
<1>9. /\ buf' = buf \o s /\ src' = SubSeq(src, n + 1, Len(src))
      /\ IF n = Len(src)
         THEN Appends(src) /\ UNCHANGED done
         ELSE /\ accepted' = accepted \o s
              /\ fpc' = "write" /\ done' = 0 /\ UNCHANGED <<filesize_, status>>
  BY <1>2, <1>4 DEF CopyIn
<1>10. accepted' = accepted \o s
  BY <1>8, <1>9 DEF Appends
<1>11. buf' \in Seq(FileBytes) /\ Len(buf') = Len(buf) + n
  BY <1>1, <1>5, <1>6, <1>9, ConcatIs
<1>12. accepted' \in Seq(AppendedBytes) /\ Len(accepted') = Len(accepted) + n
  BY <1>1, <1>5, <1>10, ConcatIs
<1>13. \/ n = Len(src) /\ Appends(src) /\ UNCHANGED done
       \/ n < Len(src) /\ fpc' = "write" /\ done' = 0 /\ UNCHANGED <<filesize_, status>>
  BY <1>1, <1>3, <1>9
<1> QED
  BY <1>3, <1>4, <1>7, <1>8, <1>9, <1>10, <1>11, <1>12, <1>13

LEMMA CopyInKeeps ==
  ASSUME FileInv, CopyIn
  PROVE  FileInv'
<1>1. PICK n \in 0..Len(src) :
        /\ Len(buf') = Len(buf) + n /\ Len(src') = Len(src) - n
        /\ buf' \in Seq(FileBytes) /\ src' \in Seq(AppendedBytes)
        /\ accepted' \in Seq(AppendedBytes) /\ Len(accepted') = Len(accepted) + n
        /\ Len(buf) + n <= capacity
        /\ \/ n = Len(src) /\ Appends(src) /\ UNCHANGED done
           \/ /\ n < Len(src) /\ Len(buf) + n = capacity
              /\ fpc' = "write" /\ done' = 0 /\ UNCHANGED <<filesize_, status>>
  BY Copies
<1>2. /\ fpc = "copy" /\ call.op = "append" /\ status = "pending"
      /\ UNCHANGED <<pvars, capacity, next_write_offset_, appends, old, call>>
  BY DEF CopyIn, FileInv, Stages
<1>3. UNCHANGED <<file, opened, reopened, last_preallocated_block_>>
  BY <1>2 DEF pvars
<1>4. /\ filesize_ \in Nat /\ Len(call.data) \in Nat /\ Len(src) \in Nat /\ Len(accepted) \in Nat
      /\ Len(buf) \in Nat /\ capacity \in Nat /\ 0 < capacity /\ SizeAsked \in Nat
  BY Constants DEF FileInv, FileTypes, Room, Calls, SizeAsked
<1>5. filesize_' = filesize_ \/ filesize_' = SizeAsked
  BY <1>1 DEF Appends, SizeAfterAppend, SizeAsked
<1>6. FileTypes'
  <2>1. filesize_' \in Nat
    BY <1>4, <1>5
  <2>2. /\ fpc' \in {"idle", "write"} /\ status' \in {"ok", "pending"} /\ done' \in Nat
    BY <1>1, <1>2 DEF Appends, FileInv, FileTypes
  <2> QED
    BY <1>1, <1>2, <1>3, <2>1, <2>2 DEF FileInv, FileTypes
<1>7. Room'
  BY <1>1, <1>2 DEF FileInv, Room
<1>8. Stages'
  <2>1. CASE Appends(src)
    BY <1>2, <2>1 DEF Stages, Appends, PanicTakesNothing
  <2>2. CASE n < Len(src) /\ Len(buf) + n = capacity /\ fpc' = "write" /\ done' = 0 /\ UNCHANGED <<filesize_, status>>
    <3>1. Len(src') # 0 /\ Len(buf') = capacity' /\ Len(buf') # 0
      BY <1>1, <1>2, <1>4, <2>2
    <3>2. src' # <<>> /\ buf' # <<>>
      BY <3>1
    <3>3. PICK p \in Nat : p = round_up(Len(buf')) /\ Len(Padded') = p
      <4>1. PICK t \in Seq(FileBytes) : t = buf'
        BY <1>1
      <4>2. PICK l \in Nat : l = Len(t)
        OBVIOUS
      <4>3. round_up(l) \in Nat
        BY RoundUpIs
      <4>4. Len(pad_to_aligment_with(t)) = round_up(l)
        BY <4>2, PaddedIs
      <4>5. Len(Padded') = round_up(l)
        BY <4>1, <4>4 DEF Padded
      <4> QED
        BY <4>1, <4>2, <4>3, <4>5
    <3>4. done' <= Len(Padded')
      <4>1. done' = 0 /\ 0 <= p
        BY <2>2, <3>3
      <4> QED
        BY <3>3, <4>1
    <3>5. fpc' = "write" /\ status' = "pending" /\ call'.op = "append"
      BY <1>2, <2>2
    <3>6. PanicTakesNothing'
      BY <3>5 DEF PanicTakesNothing
    <3> QED
      BY <3>1, <3>2, <3>4, <3>5, <3>6 DEF Stages
  <2> QED
    BY <1>1, <2>1, <2>2
<1>9. Sizes'
  <2>1. Preallocated' = Preallocated
    BY <1>3 DEF Preallocated
  <2>2. PICK p : p = Preallocated
    OBVIOUS
  <2>3. /\ filesize_ <= Len(accepted) /\ SizeAsked <= Len(accepted) + Len(src)
        /\ preallocation_block_size_ > 0 => filesize_ <= p /\ SizeAsked <= p
    BY <1>2, <2>2 DEF FileInv, Sizes, Appending
  <2>4. CASE n = Len(src) /\ Appends(src)
    <3>1. filesize_' = SizeAsked /\ fpc' = "idle"
      BY <2>4 DEF Appends, SizeAfterAppend, SizeAsked
    <3> QED
      BY <1>1, <1>4, <2>1, <2>2, <2>3, <2>4, <3>1 DEF Sizes, Appending
  <2>5. CASE UNCHANGED <<filesize_, status>>
    <3>1. SizeAsked' = SizeAsked /\ filesize_' = filesize_
      BY <1>2, <2>5 DEF SizeAsked
    <3>2. filesize_ <= Len(accepted') /\ SizeAsked <= Len(accepted') + Len(src')
      BY <1>1, <1>4, <2>3
    <3> QED
      BY <2>1, <2>2, <2>3, <3>1, <3>2 DEF Sizes
  <2> QED
    BY <1>1, <2>4, <2>5
<1> QED
  BY <1>6, <1>7, <1>8, <1>9 DEF FileInv

LEMMA FullBufferPanicsKeeps ==
  ASSUME FileInv, FullBufferPanics
  PROVE  FileInv'
<1>1. /\ fpc = "copy" /\ src # <<>> /\ Len(buf) >= capacity /\ status' = "panic" /\ fpc' = "idle"
      /\ UNCHANGED <<pvars, buf, capacity, filesize_, next_write_offset_, src, done,
                     accepted, appends, old, call>>
  BY DEF FullBufferPanics
<1>2. UNCHANGED <<file, opened, reopened, last_preallocated_block_>>
  BY <1>1 DEF pvars
<1>3. FileTypes'
  BY <1>1, <1>2 DEF FileInv, FileTypes
<1>4. Room'
  BY <1>1 DEF FileInv, Room
<1>5. Stages'
  <2>1. src = call.data /\ max_buffer_size_ <= capacity /\ Len(buf) = capacity
    BY <1>1 DEF FileInv, Stages, Room, FileTypes
  <2> QED
    BY <1>1, <2>1 DEF Stages, PanicTakesNothing
<1>6. Sizes'
  BY <1>1, <1>2 DEF FileInv, Sizes, Appending, Preallocated
<1> QED
  BY <1>3, <1>4, <1>5, <1>6 DEF FileInv

LEMMA FlushBeginsKeeps ==
  ASSUME FileInv, FlushBegins
  PROVE  FileInv'
<1>1. /\ fpc = "idle" /\ status = "pending" /\ call.op = "flush" /\ done' = 0
      /\ \/ buf = <<>> /\ status' = "ok" /\ UNCHANGED fpc
         \/ buf # <<>> /\ fpc' = "write" /\ UNCHANGED status
      /\ UNCHANGED <<pvars, buf, capacity, filesize_, next_write_offset_, src,
                     accepted, appends, old, call>>
  BY DEF FlushBegins, Asked
<1>2. UNCHANGED <<file, opened, reopened, last_preallocated_block_>>
  BY <1>1 DEF pvars
<1>3. FileTypes'
  BY <1>1, <1>2 DEF FileInv, FileTypes
<1>4. Room'
  BY <1>1 DEF FileInv, Room
<1>5. Stages'
  <2>1. PICK p \in Nat : Len(Padded') = p
    <3>1. buf' \in Seq(FileBytes) /\ Len(buf') \in Nat
      BY <1>1 DEF FileInv, FileTypes
    <3> QED
      BY <3>1, RoundUpIs, PaddedIs DEF Padded
  <2> QED
    BY <1>1, <2>1 DEF Stages, PanicTakesNothing
<1>6. Sizes'
  BY <1>1, <1>2 DEF FileInv, Sizes, Appending, Preallocated
<1> QED
  BY <1>3, <1>4, <1>5, <1>6 DEF FileInv

(* What WriteSome does to the file.                                        *)
LEMMA Writes ==
  ASSUME FileInv, WriteSome
  PROVE  \E n \in 1 .. Len(Padded) - done, at \in Nat, m \in Nat :
           /\ done' = done + n
           /\ at = IF reopened THEN Len(file) ELSE next_write_offset_ + done
           /\ m = IF at + n > Len(file) THEN at + n ELSE Len(file)
           /\ file' \in Seq(FileBytes) /\ Len(file') = m
           /\ \A i \in 1..m :
                file'[i] = IF i > at /\ i <= at + n THEN Padded[done + (i - at)]
                           ELSE IF i > Len(file) THEN ZeroByte ELSE file[i]
<1>1. /\ file \in Seq(FileBytes) /\ Len(file) \in Nat /\ next_write_offset_ \in Nat
      /\ done \in Nat /\ buf \in Seq(FileBytes) /\ Len(buf) \in Nat
  BY DEF FileInv, FileTypes
<1>2. PICK p \in Seq(FileBytes) : p = Padded
  BY <1>1, PaddedIs DEF Padded
<1>3. PICK n \in 1 .. Len(p) - done :
        Pwrite(SubSeq(p, done + 1, done + n), next_write_offset_ + done) /\ done' = done + n
  BY <1>2 DEF WriteSome
<1>4. PICK d : d = SubSeq(p, done + 1, done + n)
  OBVIOUS
<1>5. Len(p) \in Nat /\ n \in Nat /\ 0 < n /\ done + n <= Len(p)
  BY <1>1, <1>2, <1>3
<1>6. /\ d \in Seq(FileBytes) /\ Len(d) = n
      /\ \A i \in 1..n : d[i] = p[done + 1 + i - 1]
  BY <1>1, <1>4, <1>5, SubSeqIs
<1>7. d # <<>>
  BY <1>5, <1>6
<1>8. PICK at \in Nat : at = IF reopened THEN Len(file) ELSE next_write_offset_ + done
  <2>1. (IF reopened THEN Len(file) ELSE next_write_offset_ + done) \in Nat
    BY <1>1
  <2> QED
    BY <2>1
<1>9. PICK o : o = Overwrite(file, d, at) /\ file' = o
  BY <1>3, <1>4, <1>8 DEF Pwrite
<1>10. PICK m \in Nat : m = IF at + n > Len(file) THEN at + n ELSE Len(file)
  BY <1>1, <1>5
<1>11. /\ o \in Seq(FileBytes) /\ Len(o) = m
       /\ \A i \in 1..m : o[i] = IF i > at /\ i <= at + n THEN d[i - at]
                                     ELSE IF i > Len(file) THEN ZeroByte ELSE file[i]
  <2>1. /\ o \in Seq(FileBytes)
        /\ Len(o) = IF at + Len(d) > Len(file) THEN at + Len(d) ELSE Len(file)
        /\ \A i \in 1..Len(o) : o[i] = IF i > at /\ i <= at + Len(d) THEN d[i - at]
                                       ELSE IF i > Len(file) THEN ZeroByte ELSE file[i]
    <3>1. file \in Seq(FileBytes) /\ d \in Seq(FileBytes) /\ at \in Nat /\ d # <<>>
      BY <1>1, <1>6, <1>7
    <3>2. o = Overwrite(file, d, at)
      BY <1>9
    <3> QED
      BY <3>1, <3>2, OverwriteIs, Zenon
  <2>2. Len(d) = n
    BY <1>6
  <2>3. Len(o) = m
    BY <1>10, <2>1, <2>2
  <2> QED
    BY <2>1, <2>2, <2>3
<1>12. ASSUME NEW i \in 1..m
       PROVE  o[i] = IF i > at /\ i <= at + n THEN p[done + (i - at)]
                         ELSE IF i > Len(file) THEN ZeroByte ELSE file[i]
  <2>1. CASE i > at /\ i <= at + n
    <3>1. i - at \in 1..n /\ done + 1 + (i - at) - 1 = done + (i - at)
      BY <1>1, <1>5, <2>1
    <3>2. d[i - at] = p[done + (i - at)]
      BY <1>6, <3>1
    <3> QED
      BY <1>11, <2>1, <3>2
  <2>2. CASE ~(i > at /\ i <= at + n)
    BY <1>11, <2>2
  <2> QED
    BY <2>1, <2>2
<1>13. \A i \in 1..m :
         file'[i] = IF i > at /\ i <= at + n THEN Padded[done + (i - at)]
                    ELSE IF i > Len(file) THEN ZeroByte ELSE file[i]
  BY <1>2, <1>9, <1>12
<1>14. file' \in Seq(FileBytes) /\ Len(file') = m
  BY <1>9, <1>11
<1>15. n \in 1 .. Len(Padded) - done /\ done' = done + n
  BY <1>2, <1>3
<1> HIDE <1>2, <1>9
<1> QED
  BY <1>8, <1>10, <1>13, <1>14, <1>15

LEMMA WriteSomeKeeps ==
  ASSUME FileInv, WriteSome
  PROVE  FileInv'
<1>1. PICK n \in 1 .. Len(Padded) - done : done' = done + n /\ file' \in Seq(FileBytes)
  BY Writes
<1>2. /\ fpc = "write" /\ opened
      /\ UNCHANGED <<opened, reopened, last_preallocated_block_, fpc, buf, capacity, filesize_,
                     next_write_offset_, src, accepted, appends, old, call, status>>
  BY DEF WriteSome, Pwrite
<1>3. PICK p \in Nat : p = Len(Padded)
  <2>1. buf \in Seq(FileBytes) /\ Len(buf) \in Nat
    BY DEF FileInv, FileTypes
  <2> QED
    BY <2>1, RoundUpIs, PaddedIs DEF Padded
<1>4. done \in Nat /\ done' \in Nat /\ done' <= p
  BY <1>1, <1>3 DEF FileInv, FileTypes
<1>5. FileTypes'
  BY <1>1, <1>2, <1>4 DEF FileInv, FileTypes
<1>6. Room'
  BY <1>2 DEF FileInv, Room
<1>7. Stages'
  <2>1. Padded' = Padded
    BY <1>2 DEF Padded
  <2> QED
    BY <1>2, <1>3, <1>4, <2>1 DEF FileInv, Stages, PanicTakesNothing
<1>8. Sizes'
  BY <1>2 DEF FileInv, Sizes, Appending, SizeAsked, Preallocated
<1> QED
  BY <1>5, <1>6, <1>7, <1>8 DEF FileInv

LEMMA WriteFailsKeeps ==
  ASSUME FileInv, WriteFails
  PROVE  FileInv'
<1>1. /\ fpc = "write" /\ fpc' = "idle" /\ status' \in {"ok", "err"}
      /\ UNCHANGED <<pvars, buf, capacity, filesize_, next_write_offset_, src, done, accepted,
                     appends, old, call>>
  BY DEF WriteFails
<1>2. UNCHANGED <<file, opened, reopened, last_preallocated_block_>>
  BY <1>1 DEF pvars
<1>3. FileTypes'
  BY <1>1, <1>2 DEF FileInv, FileTypes
<1>4. Room'
  BY <1>1 DEF FileInv, Room
<1>5. Stages'
  BY <1>1 DEF Stages, PanicTakesNothing
<1>6. Sizes'
  BY <1>1, <1>2 DEF FileInv, Sizes, Appending, Preallocated
<1> QED
  BY <1>3, <1>4, <1>5, <1>6 DEF FileInv

(* What a write that ends leaves in the buffer.                            *)
LEMMA Refits ==
  ASSUME FileInv, WriteDone
  PROVE  /\ file_advance \in 0..Len(buf) /\ file_advance % Alignment = 0
         /\ leftover_tail \in 0..Len(buf) /\ leftover_tail < Alignment
         /\ buf' = SubSeq(Padded, 1, leftover_tail)
         /\ buf' \in Seq(FileBytes) /\ Len(buf') = leftover_tail
         /\ Len(buf) < Alignment => file_advance = 0 /\ buf' = buf
         /\ Len(buf) % Alignment = 0 => file_advance = Len(buf) /\ buf' = <<>>
<1>1. PICK b \in Seq(FileBytes), l \in Nat : b = buf /\ l = Len(buf)
  BY DEF FileInv, FileTypes
<1>2. PICK a \in 0..l : a = file_advance
  BY <1>1, TruncateIs DEF file_advance
<1>3. /\ a % Alignment = 0 /\ l < a + Alignment
      /\ l % Alignment = 0 => a = l
      /\ l < Alignment => a = 0
  BY <1>1, <1>2, TruncateIs DEF file_advance
<1>4. leftover_tail = l - a /\ l - a \in 0..l /\ l - a < Alignment
  BY <1>1, <1>2, <1>3, Constants DEF leftover_tail
<1>5. PICK p \in Seq(FileBytes) : p = Padded
  BY <1>1, PaddedIs DEF Padded
<1>6. l <= Len(p) /\ \A i \in 1..l : p[i] = b[i]
  <2>1. PICK r \in Nat : r = round_up(l) /\ l <= r
    BY RoundUpIs
  <2> QED
    BY <1>1, <1>5, <2>1, PaddedIs DEF Padded
<1>7. buf' = SubSeq(p, 1, l - a)
  BY <1>4, <1>5 DEF WriteDone, refit_tail
<1>8. PICK t : t = SubSeq(p, 1, l - a)
  OBVIOUS
<1>9. /\ t \in Seq(FileBytes) /\ Len(t) = l - a
      /\ \A i \in 1..Len(t) : t[i] = p[1 + i - 1]
  BY <1>4, <1>6, <1>8, SubSeqIs
<1>10. l < Alignment => t = b
  <2>1. SUFFICES ASSUME l < Alignment PROVE t = b
    OBVIOUS
  <2>2. Len(t) = Len(b)
    BY <1>1, <1>3, <1>9, <2>1
  <2>3. \A i \in 1..Len(b) : t[i] = b[i]
    BY <1>1, <1>6, <1>9, <2>2
  <2> QED
    BY <1>1, <1>9, <2>2, <2>3
<1>11. l % Alignment = 0 => t = <<>>
  BY <1>3, <1>9
<1> QED
  BY <1>1, <1>2, <1>3, <1>4, <1>5, <1>7, <1>8, <1>9, <1>10, <1>11

LEMMA WriteDoneKeeps ==
  ASSUME FileInv, WriteDone
  PROVE  FileInv'
<1>1. /\ fpc = "write" /\ status = "pending"
      /\ next_write_offset_' = file_advance
      /\ \/ call.op = "append" /\ fpc' = "copy" /\ UNCHANGED status
         \/ call.op # "append" /\ fpc' = "idle" /\ status' = "ok"
      /\ UNCHANGED <<pvars, capacity, filesize_, src, done, accepted, appends, old, call>>
  BY DEF WriteDone, FileInv, Stages
<1>2. UNCHANGED <<file, opened, reopened, last_preallocated_block_>>
  BY <1>1 DEF pvars
<1>3. /\ buf' \in Seq(FileBytes) /\ Len(buf') \in Nat /\ Len(buf') < Alignment
      /\ file_advance \in Nat /\ file_advance % Alignment = 0
  <2>1. Len(buf) \in Nat
    BY DEF FileInv, FileTypes
  <2> QED
    BY <2>1, Refits
<1>4. capacity \in Nat /\ Alignment <= capacity /\ Len(buf') < capacity
  BY <1>3, Constants DEF FileInv, FileTypes, Room
<1>5. FileTypes'
  BY <1>1, <1>2, <1>3 DEF FileInv, FileTypes
<1>6. Room'
  BY <1>1, <1>3, <1>4 DEF FileInv, Room
<1>7. Stages'
  BY <1>1, <1>4 DEF Stages, PanicTakesNothing
<1>8. Sizes'
  BY <1>1, <1>2 DEF FileInv, Sizes, Appending, SizeAsked, Preallocated
<1> QED
  BY <1>5, <1>6, <1>7, <1>8 DEF FileInv

LEMMA CloseKeeps ==
  ASSUME FileInv, Close
  PROVE  FileInv'
<1>1. /\ fpc = "idle" /\ fpc' = "closed" /\ status' \in {"ok", "err"}
      /\ truncate(filesize_) \/ UNCHANGED file
      /\ UNCHANGED <<opened, reopened, last_preallocated_block_, buf, capacity, filesize_,
                     next_write_offset_, src, done, accepted, appends, old, call>>
  BY DEF Close, Asked
<1>2. file' \in Seq(FileBytes)
  BY <1>1, TruncatedIs DEF FileInv, FileTypes, truncate
<1>3. FileTypes'
  BY <1>1, <1>2 DEF FileInv, FileTypes
<1>4. Room'
  BY <1>1 DEF FileInv, Room
<1>5. Stages'
  BY <1>1 DEF Stages, PanicTakesNothing
<1>6. Sizes'
  BY <1>1 DEF FileInv, Sizes, Appending, Preallocated
<1> QED
  BY <1>3, <1>4, <1>5, <1>6 DEF FileInv

(* The caller's own steps.                                                 *)
LEMMA Asks ==
  ASSUME FileInv, AskAppend \/ AskOther
  PROVE  /\ fpc = "idle" /\ status # "pending" /\ status' = "pending"
         /\ appends' \in Nat /\ call' \in Calls
         /\ UNCHANGED <<pvars, fpc, buf, capacity, filesize_, next_write_offset_, src,
                        done, accepted, old>>
<1>1. ASSUME AskAppend
      PROVE  appends' \in Nat /\ \E d \in Seq(AppendedBytes) : Ask("append", d)
  <2>1. appends' = appends + 1 /\ appends' \in Nat
    BY <1>1 DEF AskAppend, FileInv, FileTypes
  <2>2. PICK k \in Nat : k = appends + 1
    BY DEF FileInv, FileTypes
  <2>3. PICK n \in AppendLengths : Ask("append", Payload(k, n))
    BY <1>1, <2>2 DEF AskAppend
  <2>4. n \in Nat
    BY WritableFileWriterAssumption
  <2> QED
    BY <2>1, <2>2, <2>3, <2>4, PayloadIs
<1>2. ASSUME AskOther
      PROVE  appends' \in Nat /\ \E op \in {"flush", "close"} : Ask(op, <<>>)
  BY <1>2 DEF AskOther, FileInv, FileTypes
<1>3. appends' \in Nat /\ \E op \in {"append", "flush", "close"}, d \in Seq(AppendedBytes) : Ask(op, d)
  <2>1. <<>> \in Seq(AppendedBytes)
    OBVIOUS
  <2> QED
    BY <1>1, <1>2, <2>1
<1> QED
  BY <1>3 DEF Ask, Calls

(* A caller that waits for no answer, whatever it does with its calls.     *)
CallMoves ==
  /\ fpc = "idle" /\ status' \in {"pending", "idle"} /\ appends' \in Nat /\ call' \in Calls
  /\ UNCHANGED <<pvars, fpc, buf, capacity, filesize_, next_write_offset_, src,
                 done, accepted, old>>

LEMMA CallKeeps ==
  ASSUME FileInv, CallMoves
  PROVE  FileInv'
<1>1. /\ fpc = "idle" /\ status' \in {"pending", "idle"} /\ appends' \in Nat /\ call' \in Calls
      /\ UNCHANGED <<pvars, fpc, buf, capacity, filesize_, next_write_offset_, src,
                     done, accepted, old>>
  BY DEF CallMoves
<1>2. UNCHANGED <<file, opened, reopened, last_preallocated_block_>>
  BY <1>1 DEF pvars
<1>3. FileTypes'
  BY <1>1, <1>2 DEF FileInv, FileTypes
<1>4. Room'
  BY <1>1 DEF FileInv, Room
<1>5. Stages'
  BY <1>1 DEF Stages, PanicTakesNothing
<1>6. Sizes'
  BY <1>1, <1>2 DEF FileInv, Sizes, Appending, Preallocated
<1> QED
  BY <1>3, <1>4, <1>5, <1>6 DEF FileInv

LEMMA AskKeeps ==
  ASSUME FileInv, AskAppend \/ AskOther
  PROVE  FileInv'
BY Asks, CallKeeps DEF CallMoves

LEMMA ReopenKeeps ==
  ASSUME FileInv, Reopen
  PROVE  FileInv'
<1>1. /\ fpc = "closed" /\ fpc' = "idle" /\ buf' = <<>> /\ capacity' = round_up(InitialCapacity)
      /\ filesize_' = 0 /\ next_write_offset_' = 0 /\ src' = <<>> /\ done' = 0 /\ accepted' = <<>>
      /\ old' = file /\ UNCHANGED <<file, appends, call, status>>
      /\ opened' \in BOOLEAN /\ reopened' = TRUE /\ last_preallocated_block_' = 0
  BY DEF Reopen, PosixReopen
<1>2. <<>> \in Seq(FileBytes) /\ <<>> \in Seq(AppendedBytes) /\ Len(<<>>) = 0
  OBVIOUS
<1>3. FileTypes'
  BY <1>1, <1>2, NewRoom DEF FileInv, FileTypes
<1>4. Room'
  BY <1>1, <1>2, NewRoom, PagesOfOne, Constants DEF Room
<1>5. Stages'
  BY <1>1 DEF FileInv, Stages, PanicTakesNothing
<1>6. Sizes'
  BY <1>1, <1>2, Products0 DEF Sizes, Appending, Preallocated
<1> QED
  BY <1>3, <1>4, <1>5, <1>6 DEF FileInv

LEMMA FileInvStep ==
  ASSUME FileInv, FileStep
  PROVE  FileInv'
BY AppendBeginsKeeps, CopyInKeeps, FullBufferPanicsKeeps, FlushBeginsKeeps, WriteSomeKeeps,
   WriteFailsKeeps, WriteDoneKeeps, CloseKeeps DEF FileStep

LEMMA FileInvStays == FileInv /\ [Next]_vars => FileInv'
<1> SUFFICES ASSUME FileInv, [Next]_vars PROVE FileInv'
  OBVIOUS
<1>1. CASE UNCHANGED vars
  BY <1>1 DEF vars, fvars, pvars, FileInv, FileTypes, Room, Stages, Sizes, PanicTakesNothing,
              Padded, Appending, SizeAsked, Preallocated
<1>2. CASE AskAppend \/ AskOther
  BY <1>2, AskKeeps
<1>3. CASE FileStep
  BY <1>3, FileInvStep
<1>4. CASE Reopen
  BY <1>4, ReopenKeeps
<1> QED
  BY <1>1, <1>2, <1>3, <1>4 DEF Next

LEMMA FileInvAlways == Spec => []FileInv
BY InitFile, FileInvStays, PTL DEF Spec

(* Every variable of the file writer keeps to its type.                    *)
THEOREM FileWriterTypeCorrect == Spec => []FileTypeOK
<1>1. FileInv => FileTypeOK
  <2>1. \A S : \A s \in Seq(S) : Len(s) \in Nat
    OBVIOUS
  <2> QED
    BY <2>1 DEF FileInv, FileTypes, FileTypeOK
<1> QED
  BY <1>1, FileInvAlways, PTL

(* Whatever is appended and whichever writes fail, write_direct writes     *)
(* whole pages at page boundaries and its buffer has room for the padding. *)
THEOREM WritesAreAligned == Spec => []DirectWritesAligned
<1>1. FileInv => DirectWritesAligned
  BY RoundUpIs DEF FileInv, FileTypes, Room, DirectWritesAligned
<1> QED
  BY <1>1, FileInvAlways, PTL

(* The blocks that prepare_write has preallocated cover the file's size.   *)
THEOREM PreallocationSuffices == Spec => []PreallocationCovers
<1>1. FileInv => PreallocationCovers
  BY DEF FileInv, Sizes, Preallocated, PreallocationCovers
<1> QED
  BY <1>1, FileInvAlways, PTL

(* filesize_, to which close cuts the file, counts no byte that was not    *)
(* taken into the buffer, although append reports ok for slices that it    *)
(* copied in part.                                                         *)
THEOREM SizeIsOfAccepted == Spec => []SizeCountsAccepted
<1>1. FileInv => SizeCountsAccepted
  BY DEF FileInv, Sizes, SizeCountsAccepted
<1> QED
  BY <1>1, FileInvAlways, PTL

(* The assert of AlignedBuffer::append only fails for a slice of which     *)
(* nothing has been taken, on a full buffer that may not grow.             *)
THEOREM PanicsBeforeCopying == Spec => []PanicTakesNothing
<1>1. FileInv => PanicTakesNothing
  BY DEF FileInv, Stages
<1> QED
  BY <1>1, FileInvAlways, PTL

-----------------------------------------------------------------------------
(* A file that is reopened.                                                *)
StartsWith(f, o) == Len(o) <= Len(f) /\ \A i \in 1..Len(o) : f[i] = o[i]

LEMMA PrefixIs ==
  ASSUME NEW S, NEW f \in Seq(S), NEW o \in Seq(S)
  PROVE  StartsWith(f, o) <=> Len(o) <= Len(f) /\ SubSeq(f, 1, Len(o)) = o
<1>1. SUFFICES ASSUME Len(o) <= Len(f)
      PROVE  (\A i \in 1..Len(o) : f[i] = o[i]) <=> SubSeq(f, 1, Len(o)) = o
  BY DEF StartsWith
<1>2. PICK n \in Nat : n = Len(o)
  OBVIOUS
<1>3. PICK t : t = SubSeq(f, 1, n)
  OBVIOUS
<1>4. t \in Seq(S) /\ Len(t) = n /\ \A i \in 1..n : t[i] = f[i]
  BY <1>1, <1>2, <1>3, BeginningIs
<1>5. (\A i \in 1..n : f[i] = o[i]) <=> t = o
  BY <1>2, <1>4
<1> QED
  BY <1>2, <1>3, <1>5

LEMMA OldStays ==
  ASSUME FileInv, OldBytesKept, [Next]_vars
  PROVE  OldBytesKept'
<1>1. /\ file \in Seq(FileBytes) /\ old \in Seq(FileBytes) /\ filesize_ \in Nat
      /\ Len(file) \in Nat /\ Len(old) \in Nat
  BY DEF FileInv, FileTypes
<1>2. CASE UNCHANGED <<file, reopened, old>> /\ fpc # "closed" /\ fpc' # "closed"
  BY <1>2 DEF OldBytesKept
<1>3. CASE AskAppend \/ AskOther
  <2>1. UNCHANGED <<file, reopened, old, fpc>> /\ fpc = "idle"
    BY <1>3, Asks DEF pvars
  <2> QED
    BY <1>2, <2>1
<1>4. CASE AppendBegins \/ CopyIn \/ FullBufferPanics \/ FlushBegins \/ WriteFails \/ WriteDone
  <2>1. UNCHANGED <<file, reopened, old>> /\ fpc # "closed"
    BY <1>4 DEF AppendBegins, CopyIn, FullBufferPanics, FlushBegins, WriteFails, WriteDone, Asked, pvars
  <2>2. fpc' # "closed"
    BY <1>4 DEF AppendBegins, CopyIn, FullBufferPanics, FlushBegins, WriteFails, WriteDone, Asked, Appends
  <2> QED
    BY <1>2, <2>1, <2>2
<1>5. CASE WriteSome
  <2>1. UNCHANGED <<reopened, old, fpc>> /\ fpc = "write"
    BY <1>5 DEF WriteSome
  <2>2. SUFFICES ASSUME reopened PROVE StartsWith(file', old)
    <3>1. file' \in Seq(FileBytes)
      BY <1>5, Writes
    <3> QED
      BY <1>1, <2>1, <2>2, <3>1, PrefixIs DEF OldBytesKept
  <2>3. StartsWith(file, old)
    BY <1>1, <2>1, <2>2, PrefixIs DEF OldBytesKept
  <2>4. PICK at \in Nat, n \in Nat, m \in Nat :
          /\ at = Len(file) /\ m = IF at + n > Len(file) THEN at + n ELSE Len(file)
          /\ Len(file') = m
          /\ \A i \in 1..m : i <= at => file'[i] = file[i]
    <3>1. PICK n \in 1 .. Len(Padded) - done, at \in Nat, m \in Nat :
           /\ at = IF reopened THEN Len(file) ELSE next_write_offset_ + done
           /\ m = IF at + n > Len(file) THEN at + n ELSE Len(file)
           /\ Len(file') = m
           /\ \A i \in 1..m :
                file'[i] = IF i > at /\ i <= at + n THEN Padded[done + (i - at)]
                           ELSE IF i > Len(file) THEN ZeroByte ELSE file[i]
      BY <1>5, Writes
    <3>2. at = Len(file) /\ n \in Nat
      BY <2>2, <3>1
    <3>3. \A i \in 1..m : i <= at => file'[i] = file[i]
      BY <3>1, <3>2
    <3> QED
      BY <3>1, <3>2, <3>3
  <2>5. Len(old) <= m /\ Len(file) <= m
    BY <1>1, <2>3, <2>4 DEF StartsWith
  <2> QED
    BY <1>1, <2>3, <2>4, <2>5 DEF StartsWith
<1>6. CASE Close
  <2>1. /\ UNCHANGED <<reopened, old, filesize_>> /\ fpc = "idle" /\ fpc' = "closed"
        /\ truncate(filesize_) \/ (status' = "err" /\ UNCHANGED file)
    BY <1>6 DEF Close, Asked
  <2>2. SUFFICES ASSUME reopened, status' = "ok", filesize_ <= Len(old)
                 PROVE  file' = SubSeq(old, 1, filesize_)
    BY <2>1 DEF OldBytesKept
  <2>3. file' = TruncatedTo(file, filesize_)
    BY <2>1, <2>2 DEF truncate
  <2>4. StartsWith(file, old)
    BY <1>1, <2>1, <2>2, PrefixIs DEF OldBytesKept
  <2>5. PICK n \in Nat : n = filesize_
    BY <1>1
  <2>6. PICK f : f = TruncatedTo(file, n)
    OBVIOUS
  <2>7. /\ f \in Seq(FileBytes) /\ Len(f) = n
        /\ \A i \in 1..n : f[i] = IF i <= Len(file) THEN file[i] ELSE ZeroByte
    BY <1>1, <2>6, TruncatedIs
  <2>8. \A i \in 1..n : f[i] = old[i]
    BY <1>1, <2>2, <2>4, <2>5, <2>7 DEF StartsWith
  <2>9. PICK t : t = SubSeq(old, 1, n)
    OBVIOUS
  <2>10. t \in Seq(FileBytes) /\ Len(t) = n /\ \A i \in 1..n : t[i] = old[i]
    BY <1>1, <2>2, <2>5, <2>9, BeginningIs
  <2>11. f = t
    BY <2>7, <2>8, <2>10
  <2> QED
    BY <2>3, <2>5, <2>9, <2>6, <2>11
<1>7. CASE Reopen
  <2>1. old' = file /\ file' = file /\ fpc' = "idle"
    BY <1>7 DEF Reopen, PosixReopen
  <2>2. Len(file) <= Len(file) /\ SubSeq(file, 1, Len(file)) = file
    BY <1>1
  <2> QED
    BY <2>1, <2>2 DEF OldBytesKept
<1>8. CASE UNCHANGED vars
  BY <1>8 DEF vars, fvars, pvars, OldBytesKept
<1> QED
  BY <1>3, <1>4, <1>5, <1>6, <1>7, <1>8 DEF Next, FileStep

(* O_APPEND protects what a reopened file held from every write of the new *)
(* file writer, until close cuts it to the bytes that one has counted.     *)
THEOREM ReopenedKeepsOldBytes == Spec => []OldBytesKept
<1>1. Init => OldBytesKept
  BY DEF Init, NewFile, PosixInit, OldBytesKept
<1>2. FileInv /\ OldBytesKept /\ [Next]_vars => OldBytesKept'
  BY OldStays
<1> QED
  BY <1>1, <1>2, FileInvAlways, PTL DEF Spec

-----------------------------------------------------------------------------
(* A new file, as long as it stays within one page.                        *)
LEMMA PayloadIsNotZero == ZeroByte \notin PayloadBytes
<1>1. ZeroByte.b = "zero" /\ \A r, i : DataByte(r, i).b = "data"
  BY DEF DataByte, ZeroByte
<1>2. "zero" # "data"
  OBVIOUS
<1>3. \A d \in PayloadBytes : d.b = "data"
  BY <1>1 DEF PayloadBytes
<1> QED
  BY <1>1, <1>2, <1>3

(* The file agrees with payloads up to where its zeros begin.              *)
LEMMA AgreementIs ==
  ASSUME NEW f \in Seq(FileBytes), NEW a \in Seq(PayloadBytes), NEW n \in Nat, PageForm(f, a, n)
  PROVE  Agreement(f, a) = n
<1>1. PICK lf \in Nat, la \in Nat : lf = Len(f) /\ la = Len(a)
  OBVIOUS
<1>2. /\ n <= la /\ n <= lf
      /\ \A i \in 1..n : f[i] = a[i]
      /\ \A i \in n + 1..lf : f[i] = ZeroByte
  BY <1>1 DEF PageForm
<1>3. \A i \in 1..la : a[i] # ZeroByte
  BY <1>1, PayloadIsNotZero
<1> DEFINE Agrees(m) == /\ m <= Len(f) /\ SubSeq(f, 1, m) = SubSeq(a, 1, m)
                        /\ m < Len(a) /\ m < Len(f) => f[m + 1] # a[m + 1]
<1>4. Agrees(n)
  <2>1. PICK s : s = SubSeq(f, 1, n)
    OBVIOUS
  <2>2. PICK t : t = SubSeq(a, 1, n)
    OBVIOUS
  <2>3. s \in Seq(FileBytes) /\ Len(s) = n /\ \A i \in 1..n : s[i] = f[i]
    BY <1>1, <1>2, <2>1, BeginningIs
  <2>4. t \in Seq(PayloadBytes) /\ Len(t) = n /\ \A i \in 1..n : t[i] = a[i]
    BY <1>1, <1>2, <2>2, BeginningIs
  <2>5. \A i \in 1..n : s[i] = t[i]
    BY <1>2, <2>3, <2>4
  <2>6. s = t
    BY <2>3, <2>4, <2>5
  <2>7. ASSUME n < la, n < lf PROVE f[n + 1] # a[n + 1]
    <3>1. f[n + 1] = ZeroByte /\ a[n + 1] # ZeroByte
      BY <1>2, <1>3, <2>7
    <3> QED
      BY <3>1
  <2> QED
    BY <1>1, <1>2, <2>1, <2>2, <2>6, <2>7
<1>5. ASSUME NEW m \in 0..la, Agrees(m) PROVE m = n
  <2>1. m <= lf /\ (m < la /\ m < lf => f[m + 1] # a[m + 1])
    BY <1>1, <1>5
  <2>2. ~ m < n
    BY <1>2, <2>1
  <2>3. ASSUME n < m PROVE FALSE
    <3>1. PICK s : s = SubSeq(f, 1, m)
      OBVIOUS
    <3>2. \A i \in 1..m : s[i] = f[i]
      BY <1>1, <2>1, <3>1, BeginningIs
    <3>3. s = SubSeq(a, 1, m)
      BY <1>5, <3>1
    <3>4. \A i \in 1..m : s[i] = a[i]
      BY <1>1, <3>3, BeginningIs
    <3>5. n + 1 \in 1..m /\ n + 1 \in n + 1..lf /\ n + 1 \in 1..la
      BY <1>1, <2>1, <2>3
    <3>6. f[n + 1] = a[n + 1] /\ f[n + 1] = ZeroByte
      BY <1>2, <3>2, <3>4, <3>5
    <3> QED
      BY <1>3, <3>5, <3>6
  <2> QED
    BY <1>1, <2>2, <2>3
<1>6. Agreement(f, a) = CHOOSE m \in 0..la : Agrees(m)
  BY <1>1 DEF Agreement
<1>7. n \in 0..la
  BY <1>1, <1>2
<1> HIDE DEF Agrees
<1> QED
  BY <1>4, <1>5, <1>6, <1>7

LEMMA PageIs ==
  ASSUME NEW f \in Seq(FileBytes), NEW a \in Seq(AppendedBytes), NEW n \in Nat, PageForm(f, a, n)
  PROVE  f = SubSeq(a, 1, n) \o Zeros(Len(f) - n) /\ Len(f) - n \in Nat
<1>1. PICK lf \in Nat, la \in Nat : lf = Len(f) /\ la = Len(a)
  OBVIOUS
<1>2. /\ n <= la /\ n <= lf
      /\ \A i \in 1..n : f[i] = a[i]
      /\ \A i \in n + 1..lf : f[i] = ZeroByte
  BY <1>1 DEF PageForm
<1>3. PICK k \in Nat : k = lf - n
  <2>1. lf - n \in Nat
    BY <1>1, <1>2
  <2> QED
    BY <2>1
<1>4. PICK s : s = SubSeq(a, 1, n)
  OBVIOUS
<1>5. s \in Seq(AppendedBytes) /\ Len(s) = n /\ \A i \in 1..n : s[i] = a[i]
  BY <1>1, <1>2, <1>4, BeginningIs
<1>6. s \in Seq(FileBytes)
  BY <1>5 DEF FileBytes
<1>7. PICK z : z = Zeros(k)
  OBVIOUS
<1>8. z \in Seq(FileBytes) /\ Len(z) = k /\ \A i \in 1..k : z[i] = ZeroByte
  BY <1>7, ZerosAre
<1>9. PICK c : c = s \o z
  OBVIOUS
<1>10. /\ c \in Seq(FileBytes) /\ Len(c) = n + k
       /\ \A i \in 1..n + k : c[i] = IF i <= n THEN s[i] ELSE z[i - n]
  <2>1. /\ s \o z \in Seq(FileBytes)
        /\ Len(s \o z) = Len(s) + Len(z)
        /\ \A i \in 1..Len(s) + Len(z) :
             (s \o z)[i] = IF i <= Len(s) THEN s[i] ELSE z[i - Len(s)]
    BY <1>6, <1>8, ConcatIs
  <2>2. Len(s) = n /\ Len(z) = k
    BY <1>5, <1>8
  <2> QED
    BY <1>9, <2>1, <2>2
<1>11. Len(c) = lf
  <2>1. n + k = lf
    BY <1>1, <1>2, <1>3
  <2> QED
    BY <1>10, <2>1
<1>12. ASSUME NEW i \in 1..lf PROVE c[i] = f[i]
  <2>1. CASE i <= n
    BY <1>2, <1>3, <1>5, <1>10, <2>1
  <2>2. CASE i > n
    <3>1. i - n \in 1..k /\ i \in n + 1..lf
      BY <1>1, <1>3, <2>2
    <3> QED
      BY <1>2, <1>3, <1>8, <1>10, <2>2, <3>1
  <2> QED
    BY <2>1, <2>2
<1>13. c = f
  BY <1>1, <1>10, <1>11, <1>12
<1> QED
  BY <1>1, <1>3, <1>4, <1>7, <1>9, <1>13

LEMMA StreamZeros ==
  /\ \A n : Stream!Zeros(n) = Zeros(n)
  /\ \A f, n : Stream!TruncatedTo(f, n) = TruncatedTo(f, n)
BY DEF Stream!Zeros, Zeros, Stream!TruncatedTo, TruncatedTo, Stream!ZeroByte, ZeroByte

(* The same file and the same bytes accepted: the same form.               *)
LEMMA FormStays ==
  ASSUME UNCHANGED <<file, accepted>>
  PROVE  /\ OnFile' = OnFile
         /\ \A n : PageForm(file, accepted, n)' <=> PageForm(file, accepted, n)
<1>1. file' = file /\ accepted' = accepted
  OBVIOUS
<1>2. OnFile' = OnFile
  BY <1>1 DEF OnFile
<1>3. ASSUME NEW n PROVE PageForm(file, accepted, n)' <=> PageForm(file, accepted, n)
  BY <1>1 DEF PageForm
<1> QED
  BY <1>2, <1>3

(* What a step does with the slices and with a new file of one page.       *)
Unmoved == UNCHANGED <<accepted, file, call, status>>

MakesCall == /\ status # "pending" /\ status' \in {"pending", "idle"}
          /\ UNCHANGED <<accepted, file>>

TakesSlice ==
  /\ status = "pending" /\ call.op = "append"
  /\ status' = "ok" /\ accepted' = accepted \o call.data
  /\ UNCHANGED <<file, call>>

WritesPage ==
  /\ status = "pending" /\ call.op = "flush"
  /\ UNCHANGED <<accepted, call, status>>
  /\ \A k \in 0..Len(accepted) : PageForm(file, accepted, k) =>
       \E n \in k..Len(accepted) : PageForm(file', accepted, n)

EndsFlush ==
  /\ status = "pending" /\ call.op = "flush"
  /\ \/ status' = "err"
     \/ status' = "ok" /\ PageForm(file, accepted, Len(accepted))
  /\ UNCHANGED <<accepted, file, call>>

ClosesPage ==
  /\ status = "pending" /\ call.op = "close"
  /\ \/ file' = TruncatedTo(file, Len(accepted)) /\ status' \in {"ok", "err"}
     \/ status' = "err" /\ file' = file
  /\ UNCHANGED <<accepted, call>>
  /\ \A k \in 0..Len(accepted) : PageForm(file, accepted, k) => PageForm(file', accepted, k)

PageMoves ==
  OnePage' /\ ~reopened' =>
    Unmoved \/ MakesCall \/ TakesSlice \/ WritesPage \/ EndsFlush \/ ClosesPage

PageStep == PageInv' /\ PageMoves

LEMMA Numbers ==
  ASSUME FileInv
  PROVE  /\ Len(buf) \in Nat /\ Len(src) \in Nat /\ Len(accepted) \in Nat /\ Len(file) \in Nat
         /\ Len(call.data) \in Nat /\ capacity \in Nat /\ filesize_ \in Nat /\ done \in Nat
         /\ Alignment \in Nat /\ 0 < Alignment /\ Alignment <= capacity
         /\ InitialCapacity \in Nat /\ max_buffer_size_ \in Nat /\ InitialCapacity <= capacity
         /\ Len(buf) <= capacity /\ filesize_ <= Len(accepted)
BY Constants DEF FileInv, FileTypes, Room, Sizes, Calls

LEMMA CallKeepsPage ==
  ASSUME FileInv, PageInv, CallMoves
  PROVE  PageInv'
<1>1. /\ fpc = "idle"
      /\ UNCHANGED <<file, reopened, fpc, buf, capacity, filesize_, next_write_offset_, src,
                     done, accepted>>
  BY DEF CallMoves, pvars
<1>2. Leftovers'
  BY <1>1 DEF PageInv, Leftovers, BeginsSlice, Appending
<1>3. OfOnePage => OfOnePage'
  BY <1>1, FormStays DEF OfOnePage, InBuffer, Written, Outgrown, BeginsSlice
<1> QED
  BY <1>1, <1>2, <1>3 DEF PageInv

LEMMA AskIsPageStep ==
  ASSUME FileInv, PageInv, AskAppend \/ AskOther
  PROVE  PageStep
<1>1. /\ fpc = "idle" /\ status # "pending" /\ status' = "pending"
      /\ UNCHANGED <<file, accepted>>
  BY Asks DEF pvars
<1>2. CallMoves
  BY Asks DEF CallMoves
<1> QED
  BY <1>1, <1>2, CallKeepsPage DEF PageStep, PageMoves, MakesCall

LEMMA AppendBeginsIsPageStep ==
  ASSUME FileInv, PageInv, AppendBegins
  PROVE  PageStep
<1>1. /\ fpc = "idle" /\ src' = call.data /\ fpc' = "copy"
      /\ UNCHANGED <<file, reopened, filesize_, next_write_offset_, accepted, call, status>>
  BY DEF AppendBegins, Asked
<1>2. /\ \/ UNCHANGED <<buf, capacity>>
         \/ /\ capacity - Len(buf) < Len(call.data)
            /\ capacity < capacity' /\ buf' = Zeros(Len(buf))
      /\ capacity' - Len(buf') < Len(src') => Alignment < capacity' \/ max_buffer_size_ <= capacity'
      /\ FileInv'
  BY AppendBeginsKeeps
<1>3. Len(buf') = Len(buf)
  BY <1>2, Numbers, ZerosAre
<1>4. BeginsSlice'
  BY <1>1 DEF BeginsSlice
<1>5. Leftovers'
  BY <1>1, <1>2, <1>3, <1>4 DEF PageInv, Leftovers
<1>6. ASSUME Len(accepted) <= Alignment, ~reopened PROVE OfOnePage'
  <2>1. OfOnePage
    BY <1>6 DEF PageInv
  <2>2. Len(file') <= Alignment /\ (\E n \in 0..Len(accepted) : PageForm(file, accepted, n))'
    BY <1>1, <2>1, FormStays DEF OfOnePage
  <2>3. InBuffer' \/ Written' \/ Outgrown'
    <3>1. CASE UNCHANGED <<buf, capacity>>
      <4>1. InBuffer \/ Written
        BY <1>1, <2>1 DEF OfOnePage, Outgrown, BeginsSlice
      <4> QED
        BY <1>1, <3>1, <4>1, FormStays DEF InBuffer, Written
    <3>2. CASE capacity - Len(buf) < Len(call.data) /\ capacity < capacity'
      <4>1. Alignment < capacity'
        <5>1. capacity' \in Nat
          BY <1>2 DEF FileInv, FileTypes
        <5> QED
          BY <3>2, <5>1, Numbers
      <4>2. Len(buf) <= Len(accepted)
        BY DEF PageInv, Leftovers
      <4>3. Len(src') = Len(call.data) /\ Len(accepted') = Len(accepted)
        BY <1>1
      <4>4. Alignment < Len(accepted') + Len(src')
        BY <3>2, <4>2, <4>3, Numbers
      <4> QED
        BY <1>4, <4>1, <4>4 DEF Outgrown
    <3> QED
      BY <1>2, <3>1, <3>2
  <2>4. ASSUME MayOutgrow PROVE filesize_' = Len(accepted')
    <3>1. src = <<>>
      BY <1>1, <1>6, <2>4, Numbers DEF PageInv, Leftovers, BeginsSlice
    <3>2. Len(src) = 0
      BY <3>1
    <3> QED
      BY <1>1, <1>6, <2>1, <2>4, <3>2, Numbers DEF OfOnePage
  <2> QED
    BY <1>1, <2>2, <2>3, <2>4 DEF OfOnePage
<1>7. Unmoved
  BY <1>1 DEF Unmoved
<1> QED
  BY <1>1, <1>5, <1>6, <1>7 DEF PageInv, PageStep, PageMoves

(* A slice is only taken in part when it goes beyond the page.             *)
LEMMA Grows ==
  ASSUME FileInv, Leftovers, MayOutgrow, Len(buf) <= capacity,
         BeginsSlice, capacity - Len(buf) < Len(src)
  PROVE  Alignment < capacity
BY Numbers DEF Leftovers, MayOutgrow

(* Bytes appended after those of the file leave its form as it is.         *)
LEMMA FormExtends ==
  ASSUME NEW f, NEW a \in Seq(AppendedBytes), NEW s \in Seq(AppendedBytes),
         NEW n \in Nat, PageForm(f, a, n)
  PROVE  PageForm(f, a \o s, n)
<1>1. PICK c : c = a \o s
  OBVIOUS
<1>2. PICK la \in Nat, ls \in Nat : la = Len(a) /\ ls = Len(s)
  OBVIOUS
<1>3. c \in Seq(AppendedBytes) /\ Len(c) = la + ls /\ \A i \in 1..la + ls : c[i] = IF i <= la THEN a[i] ELSE s[i - la]
  BY <1>1, <1>2, ConcatIs
<1>4. n \in 0..la /\ n <= Len(f) /\ (\A i \in 1..n : f[i] = a[i]) /\ \A i \in n + 1..Len(f) : f[i] = ZeroByte
  BY <1>2 DEF PageForm
<1>5. n \in 0..Len(c) /\ \A i \in 1..n : f[i] = c[i]
  BY <1>2, <1>3, <1>4
<1> QED
  BY <1>1, <1>4, <1>5 DEF PageForm

LEMMA CopyInIsPageStep ==
  ASSUME FileInv, PageInv, CopyIn
  PROVE  PageStep
<1>1. PICK n \in 0..Len(src) :
        /\ buf' = buf \o SubSeq(src, 1, n) /\ src' = SubSeq(src, n + 1, Len(src))
        /\ Len(buf') = Len(buf) + n /\ Len(src') = Len(src) - n
        /\ accepted' = accepted \o SubSeq(src, 1, n)
        /\ accepted' \in Seq(AppendedBytes) /\ Len(accepted') = Len(accepted) + n
        /\ Len(buf) + n <= capacity
        /\ \/ n = Len(src) /\ Appends(src) /\ UNCHANGED done /\ SubSeq(src, 1, n) = src
           \/ /\ n < Len(src) /\ Len(buf) + n = capacity
              /\ fpc' = "write" /\ done' = 0 /\ UNCHANGED <<filesize_, status>>
  BY Copies
<1>2. /\ fpc = "copy" /\ call.op = "append" /\ status = "pending"
      /\ src = <<>> \/ Len(buf) < capacity
      /\ UNCHANGED <<file, reopened, capacity, next_write_offset_, call>>
  BY DEF CopyIn, FileInv, Stages, pvars
<1>3. /\ Len(accepted') + Len(src') = Len(accepted) + Len(src)
      /\ Len(accepted') \in Nat /\ Len(src') \in Nat /\ Len(accepted) <= Len(accepted')
  <2>1. PICK a \in Nat, s \in Nat : a = Len(accepted) /\ s = Len(src)
    BY Numbers
  <2>2. Len(accepted') = a + n /\ Len(src') = s - n /\ n \in 0..s
    BY <1>1, <2>1
  <2>3. a + n + (s - n) = a + s /\ a + n \in Nat /\ s - n \in Nat /\ a <= a + n
    BY <2>1, <2>2
  <2> QED
    BY <2>1, <2>2, <2>3
<1>4. CASE n = Len(src)
  <2>1. Appends(src) /\ SubSeq(src, 1, n) = src
    BY <1>1, <1>4, Numbers
  <2>2. /\ fpc' = "idle" /\ status' = "ok" /\ filesize_' = filesize_ + Len(call.data)
        /\ accepted' = accepted \o src
    BY <2>1 DEF Appends, SizeAfterAppend
  <2>3. src' = <<>> /\ Len(src') = 0
    BY <1>1, <1>4, Numbers DEF FileInv, FileTypes
  <2>4. Leftovers'
    <3>1. Len(buf') <= Len(accepted')
      BY <1>1, Numbers DEF PageInv, Leftovers
    <3> QED
      BY <2>2, <2>3, <3>1 DEF Leftovers, BeginsSlice, Appending
  <2>5. MayOutgrow /\ Len(accepted) + Len(src) <= Alignment => src = call.data
    BY <1>2, Numbers DEF PageInv, Leftovers, BeginsSlice, Appending
  <2>6. ASSUME Len(accepted') <= Alignment, ~reopened' PROVE OfOnePage'
    <3>1. OfOnePage
      BY <1>1, <1>2, <2>6, Numbers DEF PageInv
    <3>2. PICK k \in 0..Len(accepted) : PageForm(file, accepted, k)
      BY <3>1 DEF OfOnePage
    <3>3. PageForm(file, accepted', k)
      BY <2>2, <3>2, FormExtends, Numbers DEF FileInv, FileTypes
    <3>4. (\E m \in 0..Len(accepted) : PageForm(file, accepted, m))'
      <4>1. k \in 0..Len(accepted') /\ PageForm(file', accepted', k)
        BY <1>1, <1>2, <3>2, <3>3, Numbers
      <4> QED
        BY <4>1
    <3>5. InBuffer' \/ Written'
      <4>1. CASE InBuffer
        BY <1>1, <1>2, <4>1 DEF InBuffer
      <4>2. CASE Written
        <5>1. n = 0 /\ Len(accepted') = Alignment
          BY <1>1, <2>6, <4>2, Numbers DEF Written
        <5>2. Len(buf') = 0
          BY <1>1, <4>2, <5>1 DEF Written
        <5>3. buf' = <<>>
          BY <5>2, CopyInKeeps DEF FileInv, FileTypes
        <5>4. PageForm(file, accepted, Alignment)
          BY <1>2, <4>2 DEF Written
        <5>5. PageForm(file, accepted', Alignment)
          BY <2>2, <5>4, FormExtends, Constants DEF FileInv, FileTypes
        <5>6. PageForm(file, accepted, Alignment)'
          BY <1>2, <5>5 DEF PageForm
        <5> QED
          BY <1>2, <2>2, <4>2, <5>1, <5>3, <5>6 DEF Written
      <4>3. CASE Outgrown
        BY <1>1, <1>4, <2>6, <4>3, Numbers DEF Outgrown
      <4> QED
        BY <3>1, <4>1, <4>2, <4>3 DEF OfOnePage
    <3>6. ASSUME MayOutgrow, Len(accepted') + Len(src') <= Alignment
          PROVE  filesize_' = Len(accepted')
      <4>1. Len(accepted) + Len(src) <= Alignment
        BY <1>3, <3>6
      <4>2. src = call.data /\ filesize_ = Len(accepted)
        BY <2>5, <3>1, <3>6, <4>1 DEF OfOnePage
      <4> QED
        BY <1>1, <1>4, <2>2, <4>2, Numbers
    <3>7. Len(file') <= Alignment
      BY <1>2, <3>1 DEF OfOnePage
    <3> QED
      BY <2>2, <3>4, <3>5, <3>6, <3>7 DEF OfOnePage
  <2>7. ASSUME OnePage', ~reopened' PROVE TakesSlice
    <3>1. MayOutgrow /\ Len(accepted') + Len(src') <= Alignment
      BY <2>7 DEF OnePage, MayOutgrow
    <3>2. src = call.data
      BY <1>3, <2>5, <3>1
    <3> QED
      BY <1>2, <2>2, <3>2 DEF TakesSlice
  <2> QED
    BY <2>4, <2>6, <2>7 DEF PageInv, PageStep, PageMoves
<1>5. CASE n < Len(src)
  <2>1. fpc' = "write" /\ Len(buf) + n = capacity /\ UNCHANGED <<filesize_, status>> /\ done' = 0
    BY <1>1, <1>5, Numbers
  <2>2. src # <<>> /\ src' # <<>> /\ n > 0
    <3>1. Len(src) # 0 /\ Len(src') # 0
      BY <1>1, <1>5, Numbers
    <3>2. src # <<>> /\ src' # <<>>
      BY <3>1
    <3> QED
      BY <1>2, <2>1, <3>2, Numbers
  <2>3. Len(buf) <= Len(accepted)
    BY DEF PageInv, Leftovers
  <2>4. Len(buf') <= Len(accepted') /\ Alignment <= Len(accepted')
    <3>1. Len(buf') = Len(buf) + n /\ Len(accepted') = Len(accepted) + n
      BY <1>1
    <3> QED
      BY <2>1, <2>3, <3>1, Numbers
  <2>5. ASSUME MayOutgrow PROVE Alignment < Len(accepted')
    <3>1. CASE BeginsSlice
      <4>1. Alignment < capacity
        BY <1>5, <2>1, <2>5, <3>1, Numbers, Grows DEF PageInv
      <4> QED
        BY <1>1, <2>1, <2>3, <4>1, Numbers
    <3>2. CASE ~BeginsSlice
      BY <1>1, <2>2, <2>5, <3>2, Numbers DEF PageInv, Leftovers
    <3> QED
      BY <3>1, <3>2
  <2>6. Len(src') < Len(call.data')
    <3>1. Len(src) <= Len(call.data)
      BY <1>2, Numbers DEF PageInv, Leftovers, BeginsSlice, Appending
    <3>2. Len(src') = Len(src) - n /\ call' = call
      BY <1>1, <1>2
    <3> QED
      BY <2>2, <3>1, <3>2, Numbers
  <2>7. Leftovers'
    BY <2>1, <2>2, <2>4, <2>5, <2>6 DEF Leftovers, BeginsSlice
  <2>8. ~OnePage'
    <3>1. Len(src') > 0
      BY <1>1, <1>5, Numbers
    <3>2. Alignment <= Len(accepted')
      BY <2>4
    <3>3. Alignment < Len(accepted') + Len(src')
      BY <1>3, <3>1, <3>2, Numbers
    <3> QED
      BY <1>3, <3>3, Numbers DEF OnePage
  <2>9. ASSUME Len(accepted') <= Alignment, ~reopened' PROVE OfOnePage'
    <3>1. OfOnePage
      BY <1>1, <1>2, <2>9, Numbers DEF PageInv
    <3>2. PICK k \in 0..Len(accepted) : PageForm(file, accepted, k)
      BY <3>1 DEF OfOnePage
    <3>3. PICK s : s = SubSeq(src, 1, n)
      OBVIOUS
    <3>4. s \in Seq(AppendedBytes)
      BY <1>5, <3>3, Numbers, BeginningIs DEF FileInv, FileTypes
    <3>5. accepted' = accepted \o s
      BY <1>1, <3>3
    <3>6. PageForm(file, accepted', k)
      BY <3>2, <3>4, <3>5, FormExtends, Numbers DEF FileInv, FileTypes
    <3>7. (\E m \in 0..Len(accepted) : PageForm(file, accepted, m))'
      <4>1. k \in 0..Len(accepted') /\ PageForm(file', accepted', k)
        BY <1>1, <1>2, <3>2, <3>6, Numbers
      <4> QED
        BY <4>1
    <3>8. InBuffer'
      <4>1. ~Written
        <5>1. Alignment < Len(accepted') \/ Len(accepted) < Alignment
          BY <1>1, <2>2, Numbers
        <5> QED
          BY <2>9, <5>1, Numbers DEF Written
      <4>2. ~Outgrown
        BY <1>1, <2>1, <2>3, <2>9, Numbers DEF Outgrown
      <4>3. InBuffer
        BY <3>1, <4>1, <4>2 DEF OfOnePage
      <4> QED
        BY <1>1, <1>2, <4>3 DEF InBuffer
    <3>9. Len(file') <= Alignment /\ done' <= Len(file') /\ done' = 0
      BY <1>2, <2>1, <3>1, Numbers DEF OfOnePage
    <3>10. \A i \in 1..done' : file'[i] = Padded'[i]
      BY <3>9
    <3>11. ~(MayOutgrow /\ Len(accepted') + Len(src') <= Alignment)
      BY <2>8 DEF OnePage, MayOutgrow
    <3> QED
      BY <3>7, <3>8, <3>9, <3>10, <3>11 DEF OfOnePage
  <2> QED
    BY <2>7, <2>8, <2>9 DEF PageInv, PageStep, PageMoves
<1> QED
  BY <1>4, <1>5, Numbers

LEMMA FullBufferPanicsIsPageStep ==
  ASSUME FileInv, PageInv, FullBufferPanics
  PROVE  PageStep
<1>1. /\ fpc = "copy" /\ src # <<>> /\ Len(buf) >= capacity /\ fpc' = "idle"
      /\ UNCHANGED <<file, reopened, buf, capacity, filesize_, next_write_offset_, src,
                     accepted, call>>
  BY DEF FullBufferPanics, pvars
<1>2. BeginsSlice /\ Len(buf) = capacity
  BY <1>1, Numbers DEF FileInv, Stages, BeginsSlice
<1>3. Len(src) > 0
  BY <1>1 DEF FileInv, FileTypes
<1>4. Len(buf) <= Len(accepted)
  BY DEF PageInv, Leftovers
<1>5. Alignment <= Len(accepted)
  BY <1>2, <1>4, Numbers
<1>6. MayOutgrow => Alignment < Len(accepted)
  <2>1. ASSUME MayOutgrow PROVE Alignment < capacity
    <3>1. capacity - Len(buf) < Len(src)
      BY <1>2, <1>3, Numbers
    <3> QED
      BY <1>2, <2>1, <3>1, Numbers, Grows DEF PageInv
  <2> QED
    BY <1>2, <1>4, <2>1, Numbers
<1>7. Leftovers'
  BY <1>1, <1>4, <1>5, <1>6 DEF Leftovers, BeginsSlice, Appending
<1>8. ASSUME Len(accepted) <= Alignment, OfOnePage PROVE OfOnePage'
  <2>1. ~Outgrown
    BY <1>2, <1>4, <1>8, Numbers DEF Outgrown
  <2> QED
    BY <1>1, <1>8, <2>1, FormStays DEF OfOnePage, InBuffer, Written
<1>9. ~OnePage'
  <2>1. Alignment < Len(accepted) + Len(src)
    BY <1>3, <1>5, Numbers
  <2> QED
    BY <1>1, <2>1, Numbers DEF OnePage
<1> QED
  BY <1>1, <1>7, <1>8, <1>9 DEF PageInv, PageStep, PageMoves

(* What a flush finds of the page, and what it may write of it.            *)
LEMMA IdlePage ==
  ASSUME FileInv, OfOnePage, ~BeginsSlice
  PROVE  /\ InBuffer \/ Written
         /\ fpc # "closed" /\ buf = <<>> => PageForm(file, accepted, Len(accepted))
<1>1. InBuffer \/ Written
  BY DEF OfOnePage, Outgrown
<1>2. ASSUME InBuffer, buf = <<>> PROVE PageForm(file, accepted, Len(accepted))
  <2>1. PICK k \in 0..Len(accepted) : PageForm(file, accepted, k)
    BY DEF OfOnePage
  <2>2. Len(accepted) = 0
    BY <1>2 DEF InBuffer
  <2>3. k = Len(accepted)
    BY <2>1, <2>2
  <2> QED
    BY <2>1, <2>3
<1>3. ASSUME Written, fpc # "closed" PROVE PageForm(file, accepted, Len(accepted))
  BY <1>3 DEF Written
<1> QED
  BY <1>1, <1>2, <1>3

LEMMA FlushBeginsIsPageStep ==
  ASSUME FileInv, PageInv, FlushBegins
  PROVE  PageStep
<1>1. /\ fpc = "idle" /\ status = "pending" /\ call.op = "flush" /\ done' = 0
      /\ \/ buf = <<>> /\ status' = "ok" /\ UNCHANGED fpc
         \/ buf # <<>> /\ fpc' = "write" /\ UNCHANGED status
      /\ UNCHANGED <<file, reopened, buf, capacity, filesize_, next_write_offset_, src,
                     accepted, call>>
  BY DEF FlushBegins, Asked, pvars
<1>2. Leftovers'
  BY <1>1 DEF PageInv, Leftovers, BeginsSlice, Appending
<1>3. ~BeginsSlice
  BY <1>1 DEF BeginsSlice
<1>4. ASSUME OfOnePage PROVE OfOnePage'
  <2>1. InBuffer' \/ Written'
    BY <1>1, <1>3, <1>4, IdlePage, FormStays DEF InBuffer, Written
  <2>2. done' = 0 /\ done' <= Len(file')
    BY <1>1, Numbers
  <2>3. \A i \in 1..done' : file'[i] = Padded'[i]
    BY <2>2
  <2> QED
    BY <1>1, <1>4, <2>1, <2>2, <2>3, FormStays DEF OfOnePage
<1>5. CASE buf # <<>>
  <2>1. Unmoved
    BY <1>1, <1>5 DEF Unmoved
  <2> QED
    BY <1>1, <1>2, <1>4, <2>1 DEF PageInv, PageStep, PageMoves
<1>6. CASE buf = <<>>
  <2>1. ASSUME OnePage', ~reopened' PROVE EndsFlush
    <3>1. Len(accepted) <= Alignment
      BY <1>1, <2>1, Numbers DEF OnePage
    <3>2. PageForm(file, accepted, Len(accepted))
      BY <1>1, <1>3, <1>6, <2>1, <3>1, IdlePage DEF PageInv
    <3> QED
      BY <1>1, <1>6, <3>2 DEF EndsFlush
  <2> QED
    BY <1>1, <1>2, <1>4, <2>1 DEF PageInv, PageStep, PageMoves
<1> QED
  BY <1>5, <1>6

(* While the page is written, it is in the buffer.                         *)
LEMMA WrittenPage ==
  ASSUME FileInv, PageInv, fpc = "write"
  PROVE  /\ OfOnePage => InBuffer
         /\ OfOnePage /\ Len(accepted) <= Alignment =>
              Len(buf) \in 1..Alignment /\ Len(Padded) = Alignment
         /\ call.op # "append" => call.op = "flush"
         /\ call.op = "append" => src # <<>> /\ ~OnePage
<1>1. buf # <<>> /\ call.op \in {"append", "flush"} /\ (call.op = "append" => src # <<>>)
  BY DEF FileInv, Stages
<1>2. Len(buf) # 0
  BY <1>1 DEF FileInv, FileTypes
<1>3. ~BeginsSlice
  BY DEF BeginsSlice
<1>4. ASSUME OfOnePage PROVE InBuffer
  BY <1>1, <1>3, <1>4, IdlePage DEF Written
<1>5. ASSUME OfOnePage, Len(accepted) <= Alignment
      PROVE  Len(buf) \in 1..Alignment /\ Len(Padded) = Alignment
  <2>1. Len(buf) \in 1..Alignment
    BY <1>2, <1>4, <1>5, Numbers DEF InBuffer
  <2>2. Len(Padded) = round_up(Len(buf))
    BY PaddedIs DEF Padded, FileInv, FileTypes
  <2> QED
    BY <2>1, <2>2, PagesOfOne
<1>6. ASSUME call.op = "append" PROVE ~OnePage
  <2>1. MayOutgrow => Alignment < Len(accepted)
    BY <1>1, <1>3, <1>6 DEF PageInv, Leftovers
  <2> QED
    BY <2>1, Numbers DEF OnePage, MayOutgrow
<1> QED
  BY <1>1, <1>4, <1>5, <1>6

LEMMA WriteFailsIsPageStep ==
  ASSUME FileInv, PageInv, WriteFails
  PROVE  PageStep
<1>1. /\ fpc = "write" /\ status = "pending" /\ fpc' = "idle"
      /\ status' = IF call.op = "append" THEN "ok" ELSE "err"
      /\ UNCHANGED <<file, reopened, buf, capacity, filesize_, next_write_offset_, src, done,
                     accepted, call>>
  BY DEF WriteFails, FileInv, Stages, pvars
<1>2. Leftovers'
  BY <1>1 DEF PageInv, Leftovers, BeginsSlice, Appending
<1>3. OfOnePage => OfOnePage'
  BY <1>1, FormStays DEF OfOnePage, InBuffer, Written, Outgrown, BeginsSlice
<1>4. ASSUME OnePage' PROVE EndsFlush
  <2>1. OnePage
    BY <1>1, <1>4 DEF OnePage
  <2>2. call.op = "flush"
    BY <1>1, <2>1, WrittenPage
  <2> QED
    BY <1>1, <2>2 DEF EndsFlush
<1> QED
  BY <1>1, <1>2, <1>3, <1>4 DEF PageInv, PageStep, PageMoves

(* What has been written of the page is the beginning of the buffer.       *)
LEMMA WriteSomeIsPageStep ==
  ASSUME FileInv, PageInv, WriteSome
  PROVE  PageStep
<1>1. /\ fpc = "write" /\ status = "pending"
      /\ UNCHANGED <<reopened, fpc, buf, capacity, filesize_, next_write_offset_, src,
                     accepted, call, status>>
  BY DEF WriteSome, FileInv, Stages
<1>2. Leftovers'
  BY <1>1 DEF PageInv, Leftovers, BeginsSlice, Appending
<1>3. ASSUME OfOnePage, Len(accepted) <= Alignment, ~reopened,
             NEW k \in 0..Len(accepted), PageForm(file, accepted, k)
      PROVE  OfOnePage' /\ \E n \in k..Len(accepted) : PageForm(file', accepted, n)
  <2>1. InBuffer /\ Len(buf) \in 1..Alignment /\ Len(Padded) = Alignment
    BY <1>1, <1>3, WrittenPage
  <2>2. PICK p \in Seq(FileBytes), l \in 1..Alignment :
          /\ p = Padded /\ l = Len(accepted) /\ Len(p) = Alignment
          /\ \A i \in 1..l : p[i] = accepted[i]
          /\ \A i \in l + 1..Alignment : p[i] = ZeroByte
    <3>1. PICK l \in 1..Alignment : l = Len(buf) /\ l = Len(accepted)
      BY <2>1 DEF InBuffer
    <3>2. round_up(l) = Alignment
      BY <3>1, PagesOfOne
    <3>3. /\ Padded \in Seq(FileBytes)
          /\ \A i \in 1..l : Padded[i] = buf[i]
          /\ \A i \in l + 1..Alignment : Padded[i] = ZeroByte
      BY <3>1, <3>2, PaddedIs DEF Padded, FileInv, FileTypes
    <3> QED
      BY <2>1, <3>1, <3>3 DEF InBuffer
  <2>3. PICK d \in Nat, f \in Nat : d = done /\ f = Len(file)
    BY Numbers
  <2>4. /\ d <= f /\ f <= Alignment
        /\ \A i \in 1..d : file[i] = p[i]
    BY <1>1, <1>3, <2>2, <2>3 DEF OfOnePage
  <2>5. k \in 0..l /\ PageForm(file, accepted, k)
    BY <1>3, <2>2
  <2>6. /\ k <= f
        /\ \A i \in 1..k : file[i] = accepted[i]
        /\ \A i \in k + 1..f : file[i] = ZeroByte
    BY <2>3, <2>5 DEF PageForm
  <2>7. PICK n \in 1 .. Alignment - d, m \in Nat :
          /\ done' = d + n
          /\ m = IF d + n > f THEN d + n ELSE f
          /\ Len(file') = m
          /\ \A i \in 1..m :
               file'[i] = IF i > d /\ i <= d + n THEN p[i]
                          ELSE IF i > f THEN ZeroByte ELSE file[i]
    <3>1. PICK n \in 1 .. Len(Padded) - done, at \in Nat, m \in Nat :
           /\ done' = done + n
           /\ at = IF reopened THEN Len(file) ELSE next_write_offset_ + done
           /\ m = IF at + n > Len(file) THEN at + n ELSE Len(file)
           /\ Len(file') = m
           /\ \A i \in 1..m :
                file'[i] = IF i > at /\ i <= at + n THEN Padded[done + (i - at)]
                           ELSE IF i > Len(file) THEN ZeroByte ELSE file[i]
      BY Writes
    <3>2. at = d
      BY <1>3, <2>1, <2>3, <3>1 DEF InBuffer
    <3>3. \A i \in 1..m : done + (i - at) = i
      BY <2>3, <3>2
    <3>4. \A i \in 1..m :
               file'[i] = IF i > d /\ i <= d + n THEN p[i]
                          ELSE IF i > f THEN ZeroByte ELSE file[i]
      BY <2>2, <2>3, <3>1, <3>2, <3>3
    <3>5. n \in 1 .. Alignment - d
      BY <2>1, <2>3, <3>1
    <3> QED
      BY <2>3, <3>1, <3>2, <3>4, <3>5
  <2>8. PICK e \in Nat : e = d + n /\ 0 < n /\ d < e /\ e <= m /\ f <= m /\ m <= Alignment /\ (m = e \/ m = f)
    <3>1. d + n \in Nat /\ 0 < n /\ d < d + n /\ d + n <= Alignment
      BY <2>3, <2>7, Constants
    <3> QED
      BY <2>3, <2>4, <2>7, <3>1, Constants
  <2>9. PICK q \in 0..l : \/ q = k /\ e <= k
                          \/ k <= q /\ q <= e /\ (q = e \/ q = l)
    <3>1. CASE e <= k
      BY <2>5, <3>1
    <3>2. CASE k < e /\ e <= l
      <4>1. e \in 0..l /\ k <= e /\ e <= e
        BY <2>2, <2>5, <2>8, <3>2
      <4> QED
        BY <4>1
    <3>3. CASE k < e /\ l < e
      <4>1. l \in 0..l /\ k <= l /\ l <= e
        BY <2>2, <2>5, <2>8, <3>3, Constants
      <4> QED
        BY <4>1
    <3> QED
      BY <2>2, <2>5, <2>8, <3>1, <3>2, <3>3
  <2>10. PageForm(file', accepted, q)
    <3>1. q <= m
      BY <2>2, <2>5, <2>6, <2>8, <2>9
    <3>2. ASSUME NEW i \in 1..q PROVE file'[i] = accepted[i]
      <4>1. i \in 1..m /\ i \in 1..l
        BY <2>2, <2>9, <3>1
      <4>2. CASE i > d /\ i <= e
        BY <2>2, <2>7, <2>8, <4>1, <4>2
      <4>3. CASE i <= d
        <5>1. file'[i] = file[i] /\ i \in 1..d
          BY <2>4, <2>7, <2>8, <4>1, <4>3
        <5> QED
          BY <2>2, <2>4, <4>1, <5>1
      <4>4. CASE i > e
        <5>1. i \in 1..k /\ i <= f
          BY <2>5, <2>6, <2>8, <2>9, <4>4
        <5>2. file'[i] = file[i]
          BY <2>3, <2>7, <2>8, <4>1, <4>4, <5>1
        <5> QED
          BY <2>6, <5>1, <5>2
      <4> QED
        BY <2>3, <2>8, <4>2, <4>3, <4>4
    <3>3. ASSUME NEW i \in q + 1..m PROVE file'[i] = ZeroByte
      <4>1. i \in 1..m /\ i > k /\ i \in Nat
        BY <2>5, <2>9, <3>3
      <4>2. CASE i > d /\ i <= e
        <5>1. i \in l + 1..Alignment
          BY <2>2, <2>5, <2>8, <2>9, <3>3, <4>2, Constants
        <5> QED
          BY <2>2, <2>7, <2>8, <4>1, <4>2, <5>1
      <4>3. CASE ~(i > d /\ i <= e) /\ i <= f
        <5>1. i \in k + 1..f
          BY <2>3, <2>5, <4>1, <4>3
        <5> QED
          BY <2>6, <2>7, <2>8, <4>1, <4>3, <5>1
      <4>4. CASE ~(i > d /\ i <= e) /\ i > f
        BY <2>7, <2>8, <4>1, <4>4
      <4> QED
        BY <2>3, <4>1, <4>2, <4>3, <4>4
    <3> QED
      BY <2>2, <2>7, <2>9, <3>1, <3>2, <3>3 DEF PageForm
  <2>11. ASSUME NEW i \in 1..e PROVE file'[i] = p[i]
    <3>1. i \in 1..m
      BY <2>8
    <3>2. CASE i > d
      BY <2>7, <2>8, <3>1, <3>2
    <3>3. CASE i <= d
      <4>1. file'[i] = file[i] /\ i \in 1..d
        BY <2>3, <2>4, <2>7, <2>8, <3>1, <3>3
      <4> QED
        BY <2>4, <4>1
    <3> QED
      BY <2>3, <3>2, <3>3
  <2>12. done' <= Len(file') /\ \A i \in 1..done' : file'[i] = Padded'[i]
    <3>1. done' = e /\ Padded' = p /\ Len(file') = m
      BY <1>1, <2>2, <2>7, <2>8 DEF Padded
    <3> QED
      BY <2>8, <2>11, <3>1
  <2>13. (\E x \in 0..Len(accepted) : PageForm(file, accepted, x))'
    <3>1. q \in 0..Len(accepted') /\ PageForm(file', accepted', q)
      BY <1>1, <2>2, <2>9, <2>10
    <3> QED
      BY <3>1
  <2>14. InBuffer'
    BY <1>1, <2>1 DEF InBuffer
  <2>15. OfOnePage'
    BY <1>1, <1>3, <2>7, <2>8, <2>12, <2>13, <2>14 DEF OfOnePage
  <2>16. q \in k..Len(accepted)
    BY <2>2, <2>5, <2>9
  <2> QED
    BY <2>10, <2>15, <2>16
<1>4. OfOnePage /\ Len(accepted) <= Alignment /\ ~reopened => OfOnePage'
  BY <1>3 DEF OfOnePage
<1>5. ASSUME OnePage', ~reopened' PROVE WritesPage
  <2>1. Len(accepted) <= Alignment /\ OfOnePage /\ ~reopened /\ OnePage
    BY <1>1, <1>5, Numbers DEF OnePage, PageInv
  <2>2. call.op = "flush"
    BY <1>1, <2>1, WrittenPage
  <2> QED
    BY <1>1, <1>3, <2>1, <2>2 DEF WritesPage
<1> QED
  BY <1>1, <1>2, <1>4, <1>5 DEF PageInv, PageStep, PageMoves

LEMMA WriteDoneIsPageStep ==
  ASSUME FileInv, PageInv, WriteDone
  PROVE  PageStep
<1>1. /\ fpc = "write" /\ status = "pending" /\ done = Len(Padded)
      /\ next_write_offset_' = file_advance
      /\ \/ call.op = "append" /\ fpc' = "copy" /\ UNCHANGED status
         \/ call.op # "append" /\ fpc' = "idle" /\ status' = "ok"
      /\ UNCHANGED <<file, reopened, capacity, filesize_, src, done, accepted, call>>
  BY DEF WriteDone, FileInv, Stages, pvars
<1>2. /\ Len(buf') \in Nat /\ Len(buf') <= Len(buf)
      /\ Len(buf) < Alignment => file_advance = 0 /\ buf' = buf
      /\ Len(buf) % Alignment = 0 => file_advance = Len(buf) /\ buf' = <<>>
  BY Refits, Numbers
<1>3. Leftovers'
  <2>1. Len(buf') <= Len(accepted')
    BY <1>1, <1>2, Numbers DEF PageInv, Leftovers
  <2>2. Appending' => Appending /\ Len(src) < Len(call.data)
    BY <1>1 DEF Appending, PageInv, Leftovers, BeginsSlice
  <2>3. ~BeginsSlice /\ ~BeginsSlice'
    BY <1>1, <2>2, Numbers DEF BeginsSlice, Appending
  <2> QED
    BY <1>1, <2>1, <2>2, <2>3 DEF PageInv, Leftovers
<1>4. ASSUME OfOnePage, Len(accepted) <= Alignment
      PROVE  OfOnePage' /\ PageForm(file, accepted, Len(accepted))
  <2>1. InBuffer /\ Len(buf) \in 1..Alignment /\ Len(Padded) = Alignment
    BY <1>1, <1>4, WrittenPage
  <2>2. PICK l \in 1..Alignment, f \in Nat : l = Len(buf) /\ l = Len(accepted) /\ f = Len(file)
    BY <2>1, Numbers DEF InBuffer
  <2>3. Alignment <= f /\ \A i \in 1..Alignment : file[i] = Padded[i]
    BY <1>1, <1>4, <2>1, <2>2 DEF OfOnePage
  <2>4. \A i \in 1..l : Padded[i] = accepted[i]
    BY <2>1, <2>2, PaddedIs DEF Padded, InBuffer, FileInv, FileTypes
  <2>5. PICK k \in 0..l : PageForm(file, accepted, k)
    BY <1>4, <2>2 DEF OfOnePage
  <2>6. PageForm(file, accepted, l)
    <3>1. l <= f /\ \A i \in 1..l : file[i] = accepted[i]
      BY <2>2, <2>3, <2>4, Constants
    <3>2. \A i \in l + 1..f : file[i] = ZeroByte
      BY <2>2, <2>5 DEF PageForm
    <3> QED
      BY <2>2, <3>1, <3>2 DEF PageForm
  <2>7. CASE l < Alignment
    <3>1. InBuffer'
      BY <1>1, <1>2, <2>1, <2>2, <2>7 DEF InBuffer
    <3> QED
      BY <1>1, <1>4, <2>2, <2>6, <3>1, FormStays DEF OfOnePage
  <2>8. CASE l = Alignment
    <3>1. file_advance = Alignment /\ buf' = <<>>
      BY <1>2, <2>2, <2>8, PagesOfOne
    <3>2. Written'
      BY <1>1, <2>2, <2>6, <2>8, <3>1, FormStays DEF Written
    <3> QED
      BY <1>1, <1>4, <2>2, <2>6, <3>2, FormStays DEF OfOnePage
  <2> QED
    BY <2>2, <2>6, <2>7, <2>8, Constants
<1>5. ASSUME OnePage', ~reopened' PROVE EndsFlush
  <2>1. OnePage
    BY <1>1, <1>5 DEF OnePage
  <2>2. call.op = "flush" /\ status' = "ok"
    BY <1>1, <2>1, WrittenPage
  <2>3. OfOnePage /\ Len(accepted) <= Alignment
    BY <1>1, <1>5, <2>1, Numbers DEF OnePage, PageInv
  <2>4. PageForm(file, accepted, Len(accepted))
    BY <1>4, <2>3
  <2> QED
    BY <1>1, <2>2, <2>4 DEF EndsFlush
<1> QED
  BY <1>1, <1>3, <1>4, <1>5 DEF PageInv, PageStep, PageMoves

LEMMA CloseIsPageStep ==
  ASSUME FileInv, PageInv, Close
  PROVE  PageStep
<1>1. /\ fpc = "idle" /\ fpc' = "closed" /\ status = "pending" /\ call.op = "close"
      /\ \/ file' = TruncatedTo(file, filesize_) /\ status' \in {"ok", "err"}
         \/ status' = "err" /\ file' = file
      /\ UNCHANGED <<reopened, buf, capacity, filesize_, next_write_offset_, src, accepted, call>>
  BY DEF Close, Asked, truncate
<1>2. Leftovers'
  BY <1>1 DEF PageInv, Leftovers, BeginsSlice, Appending
<1>3. PICK n \in Nat : n = filesize_
  BY Numbers
<1>4. PICK t : t = TruncatedTo(file, n)
  OBVIOUS
<1>5. /\ t \in Seq(FileBytes) /\ Len(t) = n
      /\ \A i \in 1..n : t[i] = IF i <= Len(file) THEN file[i] ELSE ZeroByte
  BY <1>4, TruncatedIs DEF FileInv, FileTypes
<1>6. n <= Len(accepted) /\ Len(accepted) \in Nat
  BY <1>3, Numbers
<1>7. ASSUME NEW k \in 0..Len(accepted), PageForm(file, accepted, k)
      PROVE  \E j \in 0..Len(accepted) : PageForm(t, accepted, j) /\ (k <= n => j = k)
  <2>1. PICK j \in 0..Len(accepted) : j = IF k <= n THEN k ELSE n
    BY <1>6
  <2>2. /\ k <= Len(file) /\ Len(file) \in Nat
        /\ \A i \in 1..k : file[i] = accepted[i]
        /\ \A i \in k + 1..Len(file) : file[i] = ZeroByte
    BY <1>7, Numbers DEF PageForm
  <2>3. j <= n /\ j <= k /\ (j = k \/ j = n)
    BY <2>1
  <2>4. ASSUME NEW i \in 1..j PROVE t[i] = accepted[i]
    <3>1. i \in 1..n /\ i \in 1..k /\ i <= Len(file)
      BY <1>6, <2>2, <2>3, <2>4
    <3> QED
      BY <1>5, <2>2, <3>1
  <2>5. ASSUME NEW i \in j + 1..n PROVE t[i] = ZeroByte
    <3>1. i \in 1..n /\ i > k
      BY <2>3, <2>5
    <3>2. i <= Len(file) => i \in k + 1..Len(file)
      BY <2>2, <3>1
    <3> QED
      BY <1>5, <2>2, <3>1, <3>2
  <2>6. PageForm(t, accepted, j)
    BY <1>5, <2>3, <2>4, <2>5 DEF PageForm
  <2> QED
    BY <2>1, <2>6
<1>8. ASSUME OfOnePage, Len(accepted) <= Alignment PROVE OfOnePage'
  <2>1. (\E m \in 0..Len(accepted) : PageForm(file, accepted, m))'
    <3>1. PICK k \in 0..Len(accepted) : PageForm(file, accepted, k)
      BY <1>8 DEF OfOnePage
    <3>2. \E m \in 0..Len(accepted) : PageForm(file', accepted, m)
      BY <1>1, <1>3, <1>7, <1>4, <3>1
    <3> QED
      BY <1>1, <3>2
  <2>2. Len(file') <= Alignment
    BY <1>1, <1>3, <1>5, <1>6, <1>8, <1>4, Numbers DEF OfOnePage
  <2>3. ~BeginsSlice
    BY <1>1 DEF BeginsSlice
  <2>4. InBuffer' \/ Written'
    BY <1>1, <1>8, <2>3, IdlePage DEF InBuffer, Written
  <2> QED
    BY <1>1, <1>8, <2>1, <2>2, <2>4 DEF OfOnePage
<1>9. ASSUME OnePage', ~reopened' PROVE ClosesPage
  <2>1. OfOnePage /\ Len(accepted) <= Alignment
    BY <1>1, <1>9, Numbers DEF OnePage, PageInv
  <2>2. n = Len(accepted)
    BY <1>1, <1>3, <1>9, <2>1 DEF OfOnePage, OnePage, MayOutgrow
  <2>3. ASSUME NEW k \in 0..Len(accepted), PageForm(file, accepted, k) PROVE PageForm(file', accepted, k)
    <3>1. PageForm(t, accepted, k)
      BY <1>6, <1>7, <2>2, <2>3
    <3> QED
      BY <1>1, <1>3, <1>4, <2>3, <3>1
  <2> QED
    BY <1>1, <1>3, <2>2, <2>3 DEF ClosesPage
<1> QED
  BY <1>1, <1>2, <1>8, <1>9 DEF PageInv, PageStep, PageMoves

LEMMA FileIsPageStep ==
  ASSUME FileInv, PageInv, FileStep
  PROVE  PageStep
BY AppendBeginsIsPageStep, CopyInIsPageStep, FullBufferPanicsIsPageStep, FlushBeginsIsPageStep,
   WriteSomeIsPageStep, WriteFailsIsPageStep, WriteDoneIsPageStep, CloseIsPageStep
DEF FileStep

LEMMA PageStays ==
  ASSUME FileInv, PageInv, [Next]_vars
  PROVE  PageStep
<1>1. CASE Reopen
  <2>1. /\ fpc' = "idle" /\ buf' = <<>> /\ src' = <<>> /\ accepted' = <<>> /\ reopened'
    BY <1>1 DEF Reopen, PosixReopen
  <2>2. Len(<<>>) = 0
    OBVIOUS
  <2> QED
    BY <2>1, <2>2 DEF PageInv, Leftovers, BeginsSlice, Appending, PageStep, PageMoves
<1>2. CASE UNCHANGED vars
  <2>1. /\ UNCHANGED <<file, reopened, fpc, buf, capacity, filesize_, next_write_offset_, src,
                       done, accepted, call, status>>
    BY <1>2 DEF vars, fvars, pvars
  <2>2. Leftovers'
    BY <2>1 DEF PageInv, Leftovers, BeginsSlice, Appending
  <2>3. OfOnePage => OfOnePage'
    BY <2>1, FormStays DEF OfOnePage, InBuffer, Written, Outgrown, BeginsSlice, Padded
  <2>4. Unmoved
    BY <2>1 DEF Unmoved
  <2> QED
    BY <2>1, <2>2, <2>3, <2>4 DEF PageInv, PageStep, PageMoves
<1> QED
  BY <1>1, <1>2, AskIsPageStep, FileIsPageStep DEF Next

LEMMA InitPage ==
  ASSUME Init
  PROVE  PageInv /\ Stream!StreamInit
<1>1. /\ file = <<>> /\ accepted = <<>> /\ buf = <<>> /\ src = <<>> /\ fpc = "idle"
      /\ next_write_offset_ = 0 /\ filesize_ = 0
      /\ call = [op |-> "none", data |-> <<>>] /\ status = "idle"
  BY DEF Init, NewFile, PosixInit
<1>2. <<>> \in Seq(FileBytes) /\ <<>> \in Seq(AppendedBytes) /\ Len(<<>>) = 0
  OBVIOUS
<1>3. PageForm(<<>>, <<>>, 0)
  BY <1>2 DEF PageForm
<1>4. Agreement(<<>>, <<>>) = 0
  <2>1. <<>> \in Seq(PayloadBytes)
    OBVIOUS
  <2> QED
    BY <1>2, <1>3, <2>1, AgreementIs
<1>5. OfOnePage
  <2>1. 0 \in 0..Len(accepted) /\ PageForm(file, accepted, 0)
    BY <1>1, <1>2, <1>3
  <2>2. Len(file) = 0 /\ Len(accepted) = 0
    BY <1>1, <1>2
  <2> QED
    BY <1>1, <2>1, <2>2, Constants DEF OfOnePage, InBuffer
<1>6. Leftovers
  BY <1>1, <1>2 DEF Leftovers, BeginsSlice, Appending
<1> QED
  BY <1>1, <1>4, <1>5, <1>6 DEF PageInv, Stream!StreamInit, OnFile

(* A caller of which payloads are all that is appended.                    *)
Plain ==
  /\ accepted \in Seq(PayloadBytes)
  /\ src \in Seq(PayloadBytes)
  /\ call.data \in Seq(PayloadBytes)

LEMMA PlainStays ==
  ASSUME FileInv, Plain, [Next]_vars
  PROVE  Plain'
<1>1. CASE CopyIn
  <2>1. PICK n \in 0..Len(src) :
          /\ src' = SubSeq(src, n + 1, Len(src))
          /\ accepted' = accepted \o SubSeq(src, 1, n)
    BY <1>1, Copies
  <2>2. n \in Nat /\ n <= Len(src) /\ n + 1 \in Nat /\ 0 < n + 1 /\ Len(src) \in Nat
    BY <2>1, Numbers
  <2>3. SubSeq(src, 1, n) \in Seq(PayloadBytes)
    BY <2>2, BeginningIs DEF Plain
  <2>4. SubSeq(src, n + 1, Len(src)) \in Seq(PayloadBytes)
    BY <2>2, SubSeqIs DEF Plain
  <2>5. UNCHANGED call
    BY <1>1 DEF CopyIn
  <2> QED
    BY <2>1, <2>3, <2>4, <2>5, ConcatIs DEF Plain
<1>2. CASE AskAppend \/ AskOther
  <2>1. UNCHANGED <<accepted, src>>
    BY <1>2, Asks DEF pvars
  <2>2. call'.data \in Seq(PayloadBytes)
    <3>1. CASE AskAppend
      <4>1. PICK n \in AppendLengths : call' = [op |-> "append", data |-> Payload(appends + 1, n)]
        BY <3>1 DEF AskAppend, Ask
      <4>2. n \in Nat /\ appends + 1 \in Nat
        BY WritableFileWriterAssumption DEF FileInv, FileTypes
      <4> QED
        BY <4>1, <4>2, PayloadIs
    <3>2. CASE AskOther
      <4>1. call'.data = <<>>
        BY <3>2 DEF AskOther, Ask
      <4> QED
        BY <4>1
    <3> QED
      BY <1>2, <3>1, <3>2
  <2> QED
    BY <2>1, <2>2 DEF Plain
<1>3. CASE AppendBegins
  BY <1>3 DEF AppendBegins, Plain
<1>4. CASE Reopen
  BY <1>4 DEF Reopen, Plain
<1>5. CASE \/ FullBufferPanics \/ FlushBegins \/ WriteSome \/ WriteFails \/ WriteDone \/ Close
           \/ UNCHANGED vars
  <2>1. UNCHANGED <<accepted, src, call>>
    BY <1>5 DEF FullBufferPanics, FlushBegins, WriteSome, WriteFails, WriteDone, Close, vars, fvars
  <2> QED
    BY <2>1 DEF Plain
<1> QED
  BY <1>1, <1>2, <1>3, <1>4, <1>5 DEF Next, FileStep

LEMMA PageInvAlways == Spec => [](FileInv /\ PageInv /\ Plain)
<1>1. Init => FileInv /\ PageInv
  BY InitFile, InitPage
<1>2. Init => Plain
  <2>1. <<>> \in Seq(PayloadBytes)
    OBVIOUS
  <2>2. Init => accepted = <<>> /\ src = <<>> /\ call.data = <<>>
    BY DEF Init, NewFile
  <2> QED
    BY <2>1, <2>2 DEF Plain
<1>3. FileInv /\ PageInv /\ Plain /\ [Next]_vars => (FileInv /\ PageInv /\ Plain)'
  BY FileInvStays, PageStays, PlainStays DEF PageStep
<1> QED
  BY <1>1, <1>2, <1>3, PTL DEF Spec

(* Up to the agreement of file and payloads it is their beginning.         *)
LEMMA PlainForm ==
  ASSUME FileInv, Plain, NEW k \in 0..Len(accepted), PageForm(file, accepted, k)
  PROVE  OnFile = k
<1>1. k \in Nat /\ file \in Seq(FileBytes) /\ accepted \in Seq(PayloadBytes)
  BY Numbers DEF FileInv, FileTypes, Plain
<1> QED
  BY <1>1, AgreementIs DEF OnFile

LEMMA MovesAreStream ==
  ASSUME FileInv, FileInv', PageInv, PageInv', Plain, Plain', OnePage', ~reopened',
         OnePage, ~reopened, PageMoves
  PROVE  Stream!StreamNext \/ UNCHANGED Stream!svars
<1>1. PICK k \in 0..Len(accepted) : PageForm(file, accepted, k) /\ OnFile = k /\ k \in Nat
  <2>1. OfOnePage
    BY Numbers DEF OnePage, PageInv
  <2> QED
    BY <2>1, PlainForm, Numbers DEF OfOnePage
<1>2. PICK g \in Seq(FileBytes), a \in Seq(PayloadBytes) : g = file' /\ a = accepted'
  BY DEF FileInv, FileTypes, Plain
<1>3. \A n \in Nat : PageForm(g, a, n) => OnFile' = n
  BY <1>2, AgreementIs DEF OnFile
<1>4. CASE Unmoved
  BY <1>4, FormStays DEF Unmoved, Stream!svars
<1>5. CASE MakesCall
  BY <1>5, FormStays DEF MakesCall, Stream!StreamNext, Stream!Call
<1>6. CASE TakesSlice
  <2>1. PageForm(file, accepted \o call.data, k)
    BY <1>1, FormExtends DEF FileInv, FileTypes, Calls
  <2>2. OnFile' = OnFile
    BY <1>1, <1>2, <1>3, <1>6, <2>1 DEF TakesSlice
  <2> QED
    BY <1>6, <2>2 DEF TakesSlice, Stream!AppendReturns, Stream!StreamStep, Stream!StreamNext
<1>7. CASE WritesPage
  <2>1. PICK n \in k..Len(accepted) : PageForm(g, accepted, n)
    BY <1>1, <1>2, <1>7 DEF WritesPage
  <2>2. n \in Nat /\ n \in 0..Len(accepted) /\ accepted' = accepted
    BY <1>1, <1>7, <2>1, Numbers DEF WritesPage
  <2>3. OnFile' = n
    BY <1>2, <1>3, <2>1, <2>2
  <2>4. g = SubSeq(accepted, 1, n) \o Zeros(Len(g) - n) /\ Len(g) - n \in Nat
    BY <2>1, <2>2, PageIs DEF FileInv, FileTypes
  <2>5. Len(g) <= Alignment
    BY <1>2, Numbers DEF OnePage, PageInv, OfOnePage
  <2>6. Len(g) - n \in 0..Alignment
    BY <2>2, <2>4, <2>5, Constants
  <2>7. \E pad \in 0..Alignment : g = SubSeq(accepted, 1, n) \o Stream!Zeros(pad)
    BY <2>4, <2>6, StreamZeros
  <2>8. Stream!Rewrite(n)
    BY <1>1, <1>2, <2>1, <2>3, <2>7 DEF Stream!Rewrite
  <2> QED
    BY <1>7, <2>2, <2>8 DEF WritesPage, Stream!WriteBack, Stream!StreamNext
<1>8. CASE EndsFlush
  <2>1. status' = "ok" => OnFile = Len(accepted)
    <3> SUFFICES ASSUME status' = "ok" PROVE OnFile = Len(accepted)
      OBVIOUS
    <3>1. PageForm(file, accepted, Len(accepted))
      BY <1>8 DEF EndsFlush
    <3>2. Len(accepted) \in 0..Len(accepted)
      BY Numbers
    <3> QED
      BY <3>1, <3>2, PlainForm
  <2> QED
    BY <1>8, <2>1, FormStays DEF EndsFlush, Stream!FlushReturns, Stream!StreamStep, Stream!StreamNext
<1>9. CASE ClosesPage
  <2>1. PageForm(g, accepted, k) /\ accepted' = accepted
    BY <1>1, <1>2, <1>9 DEF ClosesPage
  <2>2. OnFile' = OnFile
    BY <1>1, <1>2, <1>3, <2>1
  <2> QED
    BY <1>9, <2>2, StreamZeros
    DEF ClosesPage, Stream!CloseReturns, Stream!StreamStep, Stream!StreamNext
<1> QED
  BY <1>4, <1>5, <1>6, <1>7, <1>8, <1>9 DEF PageMoves

(* Until a new file's first page is complete, the buffer still holds all   *)
(* that was accepted, whichever writes failed or were torn, and the file   *)
(* holds a part of it and zeros.                                           *)
THEOREM FirstPageIsExact == Spec => []FirstPageExact
<1>1. ASSUME FileInv, PageInv, Plain PROVE FirstPageExact
  <2>1. SUFFICES ASSUME ~reopened, Len(accepted) + Len(src) < Alignment
                 PROVE  /\ buf = accepted
                        /\ next_write_offset_ = 0
                        /\ SubSeq(file, OnFile + 1, Len(file)) = Zeros(Len(file) - OnFile)
    BY DEF FirstPageExact
  <2>2. Len(accepted) < Alignment
    BY <1>1, <2>1, Numbers
  <2>3. OfOnePage
    BY <1>1, <2>1, <2>2, Numbers DEF PageInv
  <2>4. InBuffer
    BY <1>1, <2>1, <2>2, <2>3, Numbers DEF OfOnePage, Written, Outgrown
  <2>5. PICK k \in 0..Len(accepted) : PageForm(file, accepted, k)
    BY <2>3 DEF OfOnePage
  <2>6. k \in Nat
    BY <1>1, <2>5, Numbers
  <2>7. OnFile = k
    BY <1>1, <2>5, PlainForm
  <2>8. PICK f \in Nat : f = Len(file) /\ k <= f /\ \A i \in k + 1..f : file[i] = ZeroByte
    BY <1>1, <2>5, Numbers DEF PageForm
  <2>9. PICK s : s = SubSeq(file, k + 1, f)
    OBVIOUS
  <2>10. /\ s \in Seq(FileBytes)
         /\ Len(s) = IF k + 1 <= f THEN f - (k + 1) + 1 ELSE 0
         /\ \A i \in 1..Len(s) : s[i] = file[k + 1 + i - 1]
    BY <1>1, <2>6, <2>8, <2>9, SubSeqIs DEF FileInv, FileTypes
  <2>11. f - k \in Nat /\ Len(s) = f - k
    BY <2>6, <2>8, <2>10
  <2>12. PICK z : z = Zeros(f - k)
    OBVIOUS
  <2>13. z \in Seq(FileBytes) /\ Len(z) = f - k /\ \A i \in 1..f - k : z[i] = ZeroByte
    BY <2>11, <2>12, ZerosAre
  <2>14. ASSUME NEW i \in 1..f - k PROVE s[i] = z[i]
    <3>1. k + 1 + i - 1 \in k + 1..f
      BY <2>6, <2>8
    <3> QED
      BY <2>8, <2>10, <2>11, <2>13, <3>1
  <2>15. s = z
    BY <2>10, <2>11, <2>13, <2>14
  <2> QED
    BY <2>4, <2>7, <2>8, <2>9, <2>12, <2>15 DEF InBuffer
<1> QED
  BY <1>1, PageInvAlways, PTL

(* A log that is within one page after a step was so before it.            *)
LEMMA OnePageBefore ==
  ASSUME FileInv, PageInv, FileStep, OnePage'
  PROVE  OnePage
<1>1. MayOutgrow /\ Len(accepted') + Len(src') <= Alignment
  BY DEF OnePage, MayOutgrow
<1>2. CASE AppendBegins
  <2>1. fpc = "idle" /\ accepted' = accepted
    BY <1>2 DEF AppendBegins, Asked
  <2>2. Len(accepted') = Len(accepted) /\ Len(src') \in Nat
    BY <1>2, <2>1, FileInvStep DEF FileInv, FileTypes
  <2>3. Len(accepted) <= Alignment
    BY <1>1, <2>2, Numbers
  <2>4. src = <<>>
    BY <1>1, <2>1, <2>3, Numbers DEF PageInv, Leftovers, BeginsSlice
  <2>5. Len(src) = 0
    BY <2>4
  <2> QED
    BY <1>1, <2>3, <2>5, Numbers DEF OnePage, MayOutgrow
<1>3. CASE CopyIn
  <2>1. PICK n \in 0..Len(src) :
          Len(src') = Len(src) - n /\ Len(accepted') = Len(accepted) + n
    BY <1>3, Copies
  <2>2. Len(accepted') + Len(src') = Len(accepted) + Len(src)
    BY <2>1, Numbers
  <2> QED
    BY <1>1, <2>2 DEF OnePage, MayOutgrow
<1>4. CASE UNCHANGED <<accepted, src>>
  BY <1>4 DEF OnePage
<1> QED
  BY <1>2, <1>3, <1>4
  DEF FileStep, FullBufferPanics, FlushBegins, WriteSome, WriteFails, WriteDone, Close

(* As long as everything accepted fits into one page, and the buffer holds *)
(* or may grow to hold more, a new file is a PrefixStream: the destination *)
(* that the log writer relies on.                                          *)
THEOREM FileIsPrefixStream == Spec => Refines
<1>1. Init => Stream!StreamInit
  BY InitPage
<1>2. FileInv /\ PageInv /\ Plain /\ [Next]_vars
        => [OnePage' /\ ~reopened' => Stream!StreamNext]_(Stream!svars)
  <2> SUFFICES ASSUME FileInv, PageInv, Plain, [Next]_vars, OnePage', ~reopened'
               PROVE  Stream!StreamNext \/ UNCHANGED Stream!svars
    OBVIOUS
  <2>1. FileInv' /\ PageInv' /\ Plain' /\ PageMoves
    BY FileInvStays, PageStays, PlainStays DEF PageStep
  <2>2. CASE FileStep
    <3>1. OnePage
      BY <2>2, OnePageBefore
    <3>2. ~reopened
      BY <2>2 DEF FileStep, AppendBegins, CopyIn, FullBufferPanics, FlushBegins, WriteSome,
                  WriteFails, WriteDone, Close, pvars
    <3> QED
      BY <2>1, <3>1, <3>2, MovesAreStream
  <2>3. CASE AskAppend \/ AskOther \/ UNCHANGED vars
    <3>1. UNCHANGED <<accepted, src, reopened>>
      BY <2>3, Asks DEF vars, fvars, pvars
    <3>2. OnePage /\ ~reopened
      BY <3>1 DEF OnePage
    <3> QED
      BY <2>1, <3>2, MovesAreStream
  <2>4. CASE Reopen
    BY <2>4 DEF Reopen, PosixReopen
  <2> QED
    BY <2>2, <2>3, <2>4 DEF Next
<1> QED
  BY <1>1, <1>2, PageInvAlways, PTL DEF Spec, Refines

=============================================================================
