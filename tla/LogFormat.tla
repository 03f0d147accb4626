------------------------------ MODULE LogFormat ------------------------------
(***************************************************************************)
(* The on-disk format of the write-ahead log (src/db/log_format.rs) and    *)
(* the bytes it is made of.                                                *)
(*                                                                         *)
(* A log is a sequence of blocks of kBlockSize bytes.  A record is cut     *)
(* into fragments that never cross a block; each fragment is a header      *)
(* followed by its payload.  Offsets and lengths are counted in bytes as   *)
(* in the code; the sizes are constants so that TLC can use small ones.    *)
(***************************************************************************)
EXTENDS Bytes

CONSTANTS
  kBlockSize,              \* 32768 in the code
  kHeaderSize,             \* 4 (crc) + 2 (length) + 1 (type) = 7 in the code
  kRecyclableHeaderSize,   \* 7 + 4 (log number) = 11 in the code
  LengthModulus,           \* 2^16: the length field has two bytes
  LogNumberModulus         \* 2^32: the log number field has four bytes

ASSUME LogFormatAssumption ==
  /\ kBlockSize \in Nat
  /\ kHeaderSize \in Nat \ {0}
  /\ kRecyclableHeaderSize \in Nat
  /\ kHeaderSize < kRecyclableHeaderSize
  /\ kRecyclableHeaderSize < kBlockSize
  /\ LengthModulus \in Nat
  /\ kBlockSize <= LengthModulus
  /\ LogNumberModulus \in Nat \ {0}

(***************************************************************************)
(* Record types, numbered as on disk.                                      *)
(***************************************************************************)
kZeroType   == 0
kFullType   == 1
kFirstType  == 2
kMiddleType == 3
kLastType   == 4
kRecyclableFullType == 5
kRecyclableLastType == 8
kMaxRecordType      == kRecyclableLastType

RecordTypes == kZeroType .. kMaxRecordType

(* The recyclable types are the ordinary ones shifted by four.             *)
IsRecyclable(type) == type \in kRecyclableFullType .. kRecyclableLastType
Recyclable(type)   == type + (kRecyclableFullType - kFullType)

HeaderSizeOf(type) ==
  IF IsRecyclable(type) THEN kRecyclableHeaderSize ELSE kHeaderSize

(* encode_fixed64 and encode_fixed32 keep the low bytes that are written.  *)
EncodeLength(n)    == n % LengthModulus

WholeLogNumber(n)  == n                        \* slip: the high bytes kept
EncodeLogNumber(n) == n % LogNumberModulus

=============================================================================
