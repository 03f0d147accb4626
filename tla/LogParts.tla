------------------------------- MODULE LogParts -------------------------------
(***************************************************************************)
(* The parts of the log each by itself, in an environment about which      *)
(* nothing is assumed: the writer with any destination, the reader with    *)
(* any file, the checksums with any message.  Only the chosen part moves.  *)
(***************************************************************************)
EXTENDS LogWriter, LogReader, Crc, HashTables

LOCAL INSTANCE SequencesExt

VARIABLE part

vars == <<part, wvars, rvars, cvars>>

(* The parts that do not move have one initial state.                      *)
Init ==
  /\ part \in {"writer", "reader", "checksum"}
  /\ WriterInit /\ ReaderInit /\ CrcInit
  /\ part # "writer" => recycle_log_files_ = (CHOOSE r \in RecycleSettings : TRUE)
  /\ part # "reader" => /\ checksum_ = (CHOOSE c \in ChecksumSettings : TRUE)
                        /\ initial_offset_ = (CHOOSE o \in InitialOffsets : TRUE)
  /\ part # "checksum" => fn = (CHOOSE f \in DOMAIN Checksums : TRUE)

Next ==
  \/ /\ part = "writer"
     /\ WriterNext \/ DestReturns
     /\ UNCHANGED <<part, rvars, cvars>>
  \/ /\ part = "reader"
     /\ ReaderNext
     /\ UNCHANGED <<part, wvars, cvars>>
  \/ /\ part = "checksum"
     /\ CrcNext
     /\ UNCHANGED <<part, wvars, rvars>>

Spec == Init /\ [][Next]_vars

-----------------------------------------------------------------------------
SomeBytes == {{}, 0..7} \cup {{b} : b \in 0..7}

(* The byte-wise loops and their tables compute the remainder of a         *)
(* division of polynomials, from a register of 0: modulo 1021 with the     *)
(* initialization 0000 (crc16.rs:36-37), modulo the Castagnoli polynomial  *)
(* that gives test_crc32's value, and modulo the Jones polynomial with the *)
(* "init value of 0" (crc64.rs:1 and 6), not with crc64.rs:8's Xor_In.     *)
TablesMatchPolynomials == crc = ChecksumOf(Checksums[fn], message)

(* A message followed by its checksum, in the order of bytes in which      *)
(* crc16_arr and encode_fixed32 write it, has the checksum zero.           *)
ChecksumVerifies ==
  FoldLeft(LAMBDA r, byte : Updated(Checksums[fn], r, byte), crc, ChecksumBytes(Checksums[fn], crc)) = {}

=============================================================================
