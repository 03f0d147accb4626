-------------------------- MODULE PosixWritableFile --------------------------
(***************************************************************************)
(* The writable file of src/env/io_posix.rs: a descriptor opened for       *)
(* direct I/O, with O_TRUNC or to be reopened with O_APPEND, and what its  *)
(* calls do to the file.  A failed open is not noticed: fd_ is then -1 and *)
(* every call on it fails.  The system calls are external; any may fail.   *)
(***************************************************************************)
EXTENDS Bytes

CONSTANT preallocation_block_size_   \* 0: no preallocation

ASSUME PosixWritableFileAssumption == preallocation_block_size_ \in Nat

VARIABLES
  file,                      \* the bytes of the file
  opened,                    \* fd_ is not -1
  reopened,                  \* fd_ was opened with O_APPEND
  last_preallocated_block_

pvars == <<file, opened, reopened, last_preallocated_block_>>

PosixInit ==
  /\ file = <<>>
  /\ opened \in BOOLEAN
  /\ reopened = FALSE
  /\ last_preallocated_block_ = 0

(* The open of a reopened file; the rest of the object is new.             *)
PosixReopen ==
  /\ opened' \in BOOLEAN
  /\ reopened' = TRUE
  /\ last_preallocated_block_' = 0
  /\ UNCHANGED file

(* prepare_write; what fallocate answers is ignored.                       *)
WholeBlocks(end) == end \div preallocation_block_size_      \* slip
BlocksSpanned(end) ==
  (end + preallocation_block_size_ - 1) \div preallocation_block_size_

prepare_write(offset, len) ==
  last_preallocated_block_' =
    IF preallocation_block_size_ = 0 THEN last_preallocated_block_
    ELSE IF BlocksSpanned(offset + len) > last_preallocated_block_
         THEN BlocksSpanned(offset + len) ELSE last_preallocated_block_

(* One pwrite of the loop of positioned_append: between one and all of the *)
(* bytes are written.  (EINTR makes it try again: see PosixCalls.)  On     *)
(* Linux the offset is ignored when the file was opened with O_APPEND.     *)
PwriteAtOffset(data, offset) ==               \* slip: as without O_APPEND
  /\ opened
  /\ file' = Overwrite(file, data, offset)
Pwrite(data, offset) ==
  /\ opened
  /\ file' = Overwrite(file, data, IF reopened THEN Len(file) ELSE offset)

truncate(size) ==
  /\ opened
  /\ file' = TruncatedTo(file, size)

=============================================================================
