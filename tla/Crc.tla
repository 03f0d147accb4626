--------------------------------- MODULE Crc ---------------------------------
(***************************************************************************)
(* The table-driven checksums (src/util/hash/crc16.rs, crc32.rs, crc64.rs) *)
(* beside a second message that differs from the first in at most one      *)
(* byte: what the log's reader sees of a log with a damaged byte.          *)
(*                                                                         *)
(* A word is the set of the numbers of its bits that are 1, so that the    *)
(* exclusive or of two words is their symmetric difference.                *)
(***************************************************************************)
EXTENDS Integers, Sequences

CONSTANTS
  Checksums,    \* the functions: by name, their width, reflected and table
  Alphabet,     \* the bytes of the messages
  MaxMessage    \* bound: length of a message

Byte == SUBSET (0..7)

(* The byte that shifting leaves empty.                                    *)
EmptiedBits(f) == IF f.reflected THEN f.width - 8 .. f.width - 1 ELSE 0..7

Xor(a, b) == (a \ b) \cup (b \ a)

(* Entries of the table differ in the byte that shifting leaves empty.     *)
ASSUME CrcAssumption ==
  /\ MaxMessage \in Nat
  /\ Alphabet \subseteq Byte
  /\ \A name \in DOMAIN Checksums : LET f == Checksums[name] IN
       /\ f.width \in Nat
       /\ f.width >= 8
       /\ f.reflected \in BOOLEAN
       /\ f.table \in [Byte -> SUBSET (0 .. f.width - 1)]
       /\ \A i, j \in Byte :
            f.table[i] \cap EmptiedBits(f) = f.table[j] \cap EmptiedBits(f) => i = j

VARIABLES
  fn,              \* the name of the function that runs
  message, crc,    \* what it was given so far and its register
  copy, copyCrc    \* the same of the second message

cvars == <<fn, message, crc, copy, copyCrc>>

CrcInit ==
  /\ fn \in DOMAIN Checksums
  /\ message = <<>>
  /\ crc = {}
  /\ copy = <<>>
  /\ copyCrc = {}

-----------------------------------------------------------------------------
(* The byte of the register that is combined with the next byte.           *)
Index(f, r) ==
  IF f.reflected THEN r \cap 0..7
  ELSE {i \in 0..7 : i + f.width - 8 \in r}

Shifted(f, r) ==
  IF f.reflected THEN {i \in 0 .. f.width - 9 : i + 8 \in r}
  ELSE {i \in 8 .. f.width - 1 : i - 8 \in r}

(* The body of the loop.                                                   *)
SevenBits(f, r, byte) ==                                  \* slip: & 0x7F
  Xor(f.table[Xor(Index(f, r), byte) \cap 0..6], Shifted(f, r))
ByteAfterwards(f, r, byte) ==                             \* slip
  Xor(f.table[Index(f, r)], Xor(Shifted(f, r), byte))
Updated(f, r, byte) == Xor(f.table[Xor(Index(f, r), byte)], Shifted(f, r))

(* The next byte, the same in both messages or the only one that differs.  *)
Feed(byte, seen) ==
  /\ Len(message) < MaxMessage
  /\ byte = seen \/ copy = message
  /\ message' = Append(message, byte)
  /\ crc' = Updated(Checksums[fn], crc, byte)
  /\ copy' = Append(copy, seen)
  /\ copyCrc' = Updated(Checksums[fn], copyCrc, seen)
  /\ UNCHANGED fn

CrcNext == \E byte, seen \in Alphabet : Feed(byte, seen)

CrcSpec == CrcInit /\ [][CrcNext]_cvars

-----------------------------------------------------------------------------
(* One byte of a message damaged always changes its checksum, whichever    *)
(* byte it is, however it changes and whatever follows: the reader drops   *)
(* the record, as the models of the log take for granted.                  *)
DamageChangesChecksum == copy # message => copyCrc # crc

=============================================================================
