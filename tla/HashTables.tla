------------------------------ MODULE HashTables ------------------------------
(***************************************************************************)
(* The tables of crc16.rs, crc32.rs and crc64.rs, what their checksums are *)
(* meant to be (the remainder of a division of polynomials), and how the   *)
(* checksums are laid out as bytes.                                        *)
(*                                                                         *)
(* The entry of a byte in any of the tables is the exclusive or of the     *)
(* entries of the byte's bits, so the eight entries at the powers of two   *)
(* stand for all 256.  Words are given as their 16-bit parts, the highest  *)
(* first.                                                                  *)
(***************************************************************************)
EXTENDS Integers, Sequences

LOCAL INSTANCE SequencesExt
LOCAL INSTANCE FiniteSetsExt

Difference(a, b) == (a \ b) \cup (b \ a)

BitsOf(parts) ==
  {b \in 0 .. 16 * Len(parts) - 1 :
     (parts[Len(parts) - b \div 16] \div 2^(b % 16)) % 2 = 1}

(* The table whose entries at 1, 2, 4, ... 128 are the given words.        *)
TableOf(rows) ==
  [byte \in SUBSET (0..7) |->
     FoldSet(LAMBDA bit, word : Difference(BitsOf(rows[bit + 1]), word), {}, byte)]

CRC16TAB == TableOf(
  << <<\h1021>>, <<\h2042>>, <<\h4084>>, <<\h8108>>,
     <<\h1231>>, <<\h2462>>, <<\h48c4>>, <<\h9188>> >>)

CRC32TAB == TableOf(
  << <<\hf26b, \h8303>>, <<\he13b, \h70f7>>, <<\hc79a, \h971f>>, <<\h8ad9, \h58cf>>,
     <<\h105e, \hc76f>>, <<\h20bd, \h8ede>>, <<\h417b, \h1dbc>>, <<\h82f6, \h3b78>> >>)

CRC64TAB == TableOf(
  << <<\h7ad8, \h70c8, \h3035, \h8979>>, <<\hf5b0, \he190, \h606b, \h12f2>>,
     <<\hc038, \he573, \h9841, \hb68f>>, <<\hab28, \hecb4, \h6814, \hfe75>>,
     <<\h7d08, \hff3b, \h88be, \h6f81>>, <<\hfa11, \hfe77, \h117c, \hdf02>>,
     <<\hdf7a, \hdabd, \h7a6e, \h2d6f>>, <<\h95ac, \h9329, \hac4b, \hc9b5>> >>)

crc16 == [width |-> 16, reflected |-> FALSE, table |-> CRC16TAB,
          poly |-> BitsOf(<<\h1021>>)]
crc32 == [width |-> 32, reflected |-> TRUE, table |-> CRC32TAB,
          poly |-> BitsOf(<<\h1edc, \h6f41>>)]
crc64 == [width |-> 64, reflected |-> TRUE, table |-> CRC64TAB,
          poly |-> BitsOf(<<\had93, \hd235, \h94c9, \h35a9>>)]

AllChecksums == [crc16 |-> crc16, crc32 |-> crc32, crc64 |-> crc64]

-----------------------------------------------------------------------------
(* A message as a polynomial, the set of its exponents: its first bit has  *)
(* the highest; the bits of a byte count from the lowest if reflected.     *)
Polynomial(f, message) ==
  {e \in 0 .. 8 * Len(message) - 1 :
     LET place == 8 * Len(message) - 1 - e
         bit   == IF f.reflected THEN place % 8 ELSE 7 - (place % 8)
     IN  bit \in message[place \div 8 + 1]}

(* The remainder of S divided by the polynomial of f, of degree f.width,   *)
(* when no exponent of S is above degree.                                  *)
Remainder(f, S, degree) ==
  FoldLeft(LAMBDA rest, k :
             LET e == degree - k + 1
             IN  IF e \in rest
                 THEN Difference(rest, {e - f.width + p : p \in f.poly \cup {f.width}})
                 ELSE rest,
           S, [k \in 1 .. degree - f.width + 1 |-> k])

(* The word whose bits are the coefficients of a remainder.                *)
WordOf(f, remainder) ==
  IF f.reflected THEN {f.width - 1 - e : e \in remainder} ELSE remainder

(* The checksum of a message by its definition, for a register that is 0   *)
(* before the first byte, as in all three functions.  crc64.rs:8 names an  *)
(* Xor_In of all ones, which would add the first bits of a register of     *)
(* ones here; lines 1 and 11 of the same comment agree with the code.      *)
ChecksumOf(f, message) ==
  LET multiplied == {e + f.width : e \in Polynomial(f, message)}
  IN  WordOf(f, Remainder(f, multiplied, f.width + 8 * Len(message)))

-----------------------------------------------------------------------------
ByteAt(word, low) == {b \in 0..7 : b + low \in word}

LowFirst(f, word)  == [i \in 1 .. f.width \div 8 |-> ByteAt(word, 8 * (i - 1))]
HighFirst(f, word) == [i \in 1 .. f.width \div 8 |-> ByteAt(word, f.width - 8 * i)]

(* crc16_arr, and encode_fixed32 for the other functions.                  *)
AlwaysLowFirst(f, word) == LowFirst(f, word)                       \* slip
ChecksumBytes(f, word) ==
  IF f.reflected THEN LowFirst(f, word) ELSE HighFirst(f, word)

=============================================================================
