-------------------------- MODULE WritableFileWriter --------------------------
(***************************************************************************)
(* WritableFileWriter (src/util/file_reader_writer.rs) over an             *)
(* AlignedBuffer and a PosixWritableFile, which always uses direct I/O.    *)
(*                                                                         *)
(* The calls append, flush and close arrive through call and status (see   *)
(* LogWriter); each is served in steps, so that a crash or a failing       *)
(* system call can come between any two writes.                            *)
(***************************************************************************)
EXTENDS AlignedBuffer, PosixWritableFile

CONSTANTS
  InitialCapacity,    \* 65536 in the code
  max_buffer_size_,   \* EnvOptions.writable_file_max_buffer_size
  AppendLengths,      \* lengths of the slices that a caller appends
  MaxAppends,         \* bound: appends
  MaxBytes,           \* bound: bytes appended
  MaxReopened         \* bound: length of a file that is reopened

ASSUME WritableFileWriterAssumption ==
  /\ InitialCapacity \in Nat \ {0}
  /\ max_buffer_size_ \in Nat
  /\ AppendLengths \subseteq Nat
  /\ MaxAppends \in Nat
  /\ MaxBytes \in Nat
  /\ MaxReopened \in Nat

VARIABLES
  fpc,                  \* "idle", "copy", "write" or "closed"
  buf, capacity,        \* buf_: its bytes in use, and its capacity
  filesize_,
  next_write_offset_,
  src,                  \* what append has not yet copied
  done,                 \* bytes that write_direct has written so far
  accepted,             \* history: the bytes copied into the buffer
  appends,              \* history: the slices given to append
  old,                  \* history: the file when it was reopened
  call, status

fvars == <<fpc, buf, capacity, filesize_, next_write_offset_, src, done,
           accepted, appends, old, call, status>>
vars  == <<pvars, fvars>>

NewFile ==
  /\ PosixInit
  /\ old = <<>>
  /\ fpc = "idle"
  /\ buf = <<>>
  /\ capacity = round_up(InitialCapacity)
  /\ filesize_ = 0
  /\ next_write_offset_ = 0
  /\ src = <<>>
  /\ done = 0
  /\ accepted = <<>>
  /\ appends = 0

Init ==
  /\ NewFile
  /\ call = [op |-> "none", data |-> <<>>]
  /\ status = "idle"

Asked(op) == fpc = "idle" /\ status = "pending" /\ call.op = op

-----------------------------------------------------------------------------
(* The capacities that the loop of append tries: the present one doubled   *)
(* again and again, and max_buffer_size_.                                  *)
Candidates ==
  {d \in capacity + 1 .. max_buffer_size_ :
     d = max_buffer_size_ \/ \E k \in 1..max_buffer_size_ : d = capacity * 2^k}

Suffices(d, left) == d - Len(buf) >= left \/ d = max_buffer_size_

(* The first of them that is large enough, or else the last one.           *)
Desired(left) ==
  {d \in Candidates :
     Suffices(d, left) /\ \A e \in Candidates : Suffices(e, left) => d <= e}

EnlargeExactly(desired_capacity) ==                       \* slip: not rounded up
  buf' = Reallocated(buf, TRUE) /\ capacity' = desired_capacity
Enlarge(desired_capacity) ==
  IF IgnoresRequest(buf, desired_capacity, TRUE) THEN UNCHANGED <<buf, capacity>>
  ELSE /\ buf' = Reallocated(buf, TRUE)
       /\ capacity' = round_up(desired_capacity)

AppendBegins ==
  /\ Asked("append")
  /\ prepare_write(filesize_, Len(call.data))
  /\ IF capacity - Len(buf) < Len(call.data) /\ Candidates # {}
     THEN \E d \in Desired(Len(call.data)) : Enlarge(d)
     ELSE UNCHANGED <<buf, capacity>>
  /\ src' = call.data
  /\ fpc' = "copy"
  /\ UNCHANGED <<file, opened, reopened, filesize_, next_write_offset_, done, accepted,
                 appends, old, call, status>>

SizeNotCounted    == filesize_                            \* slip
SizeAfterAppend   == filesize_ + Len(call.data)

(* All of the slice has been copied.                                       *)
Appends(data) ==
  /\ filesize_' = SizeAfterAppend
  /\ status' = "ok"
  /\ fpc' = "idle"
  /\ accepted' = accepted \o data

(* One pass of the copying loop; when the buffer is full before the slice  *)
(* ends, it is written out.                                                *)
CopyIn ==
  /\ fpc = "copy"
  /\ src = <<>> \/ Len(buf) < capacity
  /\ LET n == Appended(buf, capacity, Len(src))
     IN  /\ buf' = buf \o SubSeq(src, 1, n)
         /\ src' = SubSeq(src, n + 1, Len(src))
         /\ IF n = Len(src)
            THEN Appends(src) /\ UNCHANGED done
            ELSE /\ accepted' = accepted \o SubSeq(src, 1, n)
                 /\ fpc' = "write"
                 /\ done' = 0
                 /\ UNCHANGED <<filesize_, status>>
  /\ UNCHANGED <<pvars, capacity, next_write_offset_, appends, old, call>>

(* assert!(self.capacity_ > self.cursize_) of AlignedBuffer::append.       *)
FullBufferPanics ==
  /\ fpc = "copy"
  /\ src # <<>>
  /\ Len(buf) >= capacity
  /\ status' = "panic"
  /\ fpc' = "idle"
  /\ UNCHANGED <<pvars, buf, capacity, filesize_, next_write_offset_, src, done,
                 accepted, appends, old, call>>

FlushBegins ==
  /\ Asked("flush")
  /\ IF buf = <<>>
     THEN status' = "ok" /\ UNCHANGED fpc
     ELSE fpc' = "write" /\ UNCHANGED status
  /\ done' = 0
  /\ UNCHANGED <<pvars, buf, capacity, filesize_, next_write_offset_, src,
                 accepted, appends, old, call>>

(* write_direct: the padded buffer goes to next_write_offset_.             *)
Padded        == pad_to_aligment_with(buf)
file_advance  == truncate_to_page_boundary(Len(buf))
leftover_tail == Len(buf) - file_advance

WriteSome ==
  /\ fpc = "write"
  /\ \E n \in 1 .. Len(Padded) - done :
       /\ Pwrite(SubSeq(Padded, done + 1, done + n), next_write_offset_ + done)
       /\ done' = done + n
  /\ UNCHANGED <<opened, reopened, last_preallocated_block_, fpc, buf, capacity, filesize_,
                 next_write_offset_, src, accepted, appends, old, call, status>>

(* A failing pwrite leaves the buffer as it was.  flush reports it; append *)
(* stops, does not count the slice, and returns ok.                        *)
WriteFailsCounted ==                        \* slip: the slice is counted
  /\ fpc = "write"
  /\ done < Len(Padded)
  /\ filesize_' = IF call.op = "append" THEN SizeAfterAppend ELSE filesize_
  /\ status' = IF call.op = "append" THEN "ok" ELSE "err"
  /\ fpc' = "idle"
  /\ UNCHANGED <<pvars, buf, capacity, next_write_offset_, src, done, accepted,
                 appends, old, call>>
WriteFailsPadded ==                         \* slip: cursize_ is not restored
  /\ fpc = "write"
  /\ done < Len(Padded)
  /\ buf' = Padded
  /\ status' = IF call.op = "append" THEN "ok" ELSE "err"
  /\ fpc' = "idle"
  /\ UNCHANGED <<pvars, capacity, filesize_, next_write_offset_, src, done,
                 accepted, appends, old, call>>
WriteFailsUnseen ==                         \* slip: flush does not report it
  /\ fpc = "write"
  /\ done < Len(Padded)
  /\ status' = "ok"
  /\ fpc' = "idle"
  /\ UNCHANGED <<pvars, buf, capacity, filesize_, next_write_offset_, src, done,
                 accepted, appends, old, call>>
WriteFails ==
  /\ fpc = "write"
  /\ done < Len(Padded)
  /\ status' = IF call.op = "append" THEN "ok" ELSE "err"
  /\ fpc' = "idle"
  /\ UNCHANGED <<pvars, buf, capacity, filesize_, next_write_offset_, src, done,
                 accepted, appends, old, call>>

WriteDone ==
  /\ fpc = "write"
  /\ done = Len(Padded)
  /\ buf' = refit_tail(Padded, file_advance, leftover_tail)
  /\ next_write_offset_' = file_advance
  /\ IF call.op = "append"
     THEN fpc' = "copy" /\ UNCHANGED status
     ELSE fpc' = "idle" /\ status' = "ok"
  /\ UNCHANGED <<pvars, capacity, filesize_, src, done, accepted, appends, old, call>>

(* close does not flush; it cuts the file to the bytes appended and syncs  *)
(* it.                                                                     *)
Close ==
  /\ Asked("close")
  /\ \/ truncate(filesize_) /\ status' \in {"ok", "err"}
     \/ status' = "err" /\ UNCHANGED file
  /\ fpc' = "closed"
  /\ UNCHANGED <<opened, reopened, last_preallocated_block_, buf, capacity, filesize_,
                 next_write_offset_, src, done, accepted, appends, old, call>>

FileStep ==
  \/ AppendBegins
  \/ CopyIn
  \/ FullBufferPanics
  \/ FlushBegins
  \/ WriteSome
  \/ WriteFails
  \/ WriteDone
  \/ Close

(* A caller: it appends, flushes and at last closes.                       *)
Ask(op, data) ==
  /\ fpc = "idle"
  /\ status # "pending"
  /\ call' = [op |-> op, data |-> data]
  /\ status' = "pending"
  /\ UNCHANGED <<pvars, fpc, buf, capacity, filesize_, next_write_offset_, src,
                 done, accepted, old>>

AskAppend ==
  /\ appends < MaxAppends
  /\ appends' = appends + 1
  /\ \E n \in AppendLengths :
       Len(accepted) + n <= MaxBytes /\ Ask("append", Payload(appends + 1, n))

(* Each flush of a reopened file appends another page, hence the bound.    *)
AskOther ==
  /\ UNCHANGED appends
  /\ \/ /\ reopened => Len(file) <= Len(old) + Alignment
        /\ Ask("flush", <<>>)
     \/ Ask("close", <<>>)

(* A closed file is reopened, and a new file writer made for it, which     *)
(* starts at offset 0 with nothing counted.                                *)
Reopen ==
  /\ fpc = "closed"
  /\ ~reopened
  /\ Len(file) <= MaxReopened
  /\ PosixReopen
  /\ old' = file
  /\ fpc' = "idle"
  /\ buf' = <<>> /\ capacity' = round_up(InitialCapacity)
  /\ filesize_' = 0 /\ next_write_offset_' = 0
  /\ src' = <<>> /\ done' = 0 /\ accepted' = <<>>
  /\ UNCHANGED <<appends, call, status>>

Next == AskAppend \/ AskOther \/ FileStep \/ Reopen

Spec == Init /\ [][Next]_vars

-----------------------------------------------------------------------------
(* Type invariant of the file writer.                                      *)
FileTypeOK ==
  /\ fpc \in {"idle", "copy", "write", "closed"}
  /\ Len(buf) \in Nat
  /\ capacity \in Nat
  /\ filesize_ \in Nat
  /\ next_write_offset_ \in Nat
  /\ done \in Nat
  /\ last_preallocated_block_ \in Nat
  /\ {opened, reopened} \subseteq BOOLEAN
  /\ status \in {"idle", "pending", "ok", "err", "panic"}

(* Direct I/O goes in whole pages to page boundaries, and there is room in *)
(* the buffer for the padding: the asserts of write_direct and of          *)
(* pad_to_aligment_with hold, whatever is appended and whichever writes    *)
(* fail.                                                                   *)
DirectWritesAligned ==
  /\ next_write_offset_ % Alignment = 0
  /\ capacity % Alignment = 0
  /\ round_up(Len(buf)) <= capacity

(* The preallocated blocks cover the size that the file has been given.    *)
PreallocationCovers ==
  preallocation_block_size_ > 0 =>
    filesize_ <= last_preallocated_block_ * preallocation_block_size_

(* The size to which close cuts the file never counts a byte that did not  *)
(* get into the buffer, although append reports success for slices that it *)
(* copied only in part.                                                    *)
SizeCountsAccepted == filesize_ <= Len(accepted)

(* append only panics on a buffer that earlier slices filled exactly and   *)
(* that may not grow, and before it has taken a byte of its own slice:     *)
(* never in the middle of one, after a write made room.                    *)
PanicTakesNothing ==
  status = "panic" =>
    src = call.data /\ Len(buf) = capacity /\ capacity >= max_buffer_size_

(* A reopened file keeps what it held, whatever the file writer believes   *)
(* about offsets, until it is closed: close cuts it to the bytes appended  *)
(* since, as if it had been empty, so that all of them are lost unless     *)
(* they are more than what the file held, and with them the end of that.   *)
OldBytesKept ==
  reopened =>
    IF fpc # "closed" THEN Len(old) <= Len(file) /\ SubSeq(file, 1, Len(old)) = old
    ELSE status = "ok" /\ filesize_ <= Len(old) => file = SubSeq(old, 1, filesize_)

(* How far the file agrees with what was accepted.                         *)
Agreement(f, a) ==
  CHOOSE n \in 0..Len(a) :
    /\ n <= Len(f) /\ SubSeq(f, 1, n) = SubSeq(a, 1, n)
    /\ n < Len(a) /\ n < Len(f) => f[n + 1] # a[n + 1]

OnFile == Agreement(file, accepted)

(* One page, and a buffer that holds, or may grow to hold, more: one that  *)
(* cannot takes a part of a slice without counting it.                     *)
OnePage ==
  /\ Alignment < InitialCapacity \/ Alignment < max_buffer_size_
  /\ Len(accepted) + Len(src) <= Alignment

Stream == INSTANCE PrefixStream WITH
            log <- accepted, onFile <- OnFile, MaxPad <- Alignment

(* As long as everything fits into one page, a new file is a destination as  *)
(* the log writer needs it: it starts as a PrefixStream, and each step is  *)
(* one of a PrefixStream or changes nothing of it.                         *)
Refines == Stream!StreamInit /\ [][OnePage' /\ ~reopened' => Stream!StreamNext]_(Stream!svars)

(* Until a page is completed: the buffer still holds all that was accepted *)
(* and the file, torn writes included, holds a part of it and zeros.       *)
FirstPageExact ==
  ~reopened /\ Len(accepted) + Len(src) < Alignment =>
    /\ buf = accepted
    /\ next_write_offset_ = 0
    /\ SubSeq(file, OnFile + 1, Len(file)) = Zeros(Len(file) - OnFile)

(* "After a partial flush move the tail to the beginning of the buffer"    *)
(* (aligned_buffer.rs:155): what the buffer holds is the end of what was   *)
(* accepted.                                                               *)
BufferHoldsTail ==
  \E n \in 0..Len(accepted) : buf = SubSeq(accepted, n + 1, Len(accepted))

=============================================================================
