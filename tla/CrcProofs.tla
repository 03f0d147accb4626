------------------------------- MODULE CrcProofs -------------------------------
(***************************************************************************)
(* A damaged byte always changes the checksum, proved for messages of any  *)
(* length and every table whose entries differ in the byte that shifting   *)
(* leaves empty, as those of the three functions do.                       *)
(***************************************************************************)
EXTENDS Crc, TLAPS

running == Checksums[fn]

(* The property alone is not inductive: that a register with a difference  *)
(* keeps it needs both registers to be words, and that nothing differs     *)
(* before the damaged byte needs equal messages to have equal registers.   *)
CrcInv ==
  /\ fn \in DOMAIN Checksums
  /\ message \in Seq(Byte) /\ copy \in Seq(Byte)
  /\ crc \in SUBSET (0 .. running.width - 1) /\ copyCrc \in SUBSET (0 .. running.width - 1)
  /\ copy = message => copyCrc = crc
  /\ copy # message => copyCrc # crc

LEMMA XorCancels ==
  ASSUME NEW a, NEW b, NEW c, Xor(a, c) = Xor(b, c)
  PROVE  a = b
BY DEF Xor

LEMMA XorCancelsLeft ==
  ASSUME NEW a, NEW b, NEW c, Xor(c, a) = Xor(c, b)
  PROVE  a = b
BY DEF Xor

LEMMA IndexIsByte ==
  ASSUME NEW name \in DOMAIN Checksums, NEW r, NEW byte \in Byte
  PROVE  Xor(Index(Checksums[name], r), byte) \in Byte
BY DEF Index, Xor, Byte

(* A word is determined by its index and by what remains after shifting.   *)
LEMMA IndexAndRest ==
  ASSUME NEW name \in DOMAIN Checksums,
         NEW r \in SUBSET (0 .. Checksums[name].width - 1),
         NEW s \in SUBSET (0 .. Checksums[name].width - 1),
         Index(Checksums[name], r) = Index(Checksums[name], s),
         Shifted(Checksums[name], r) = Shifted(Checksums[name], s)
  PROVE  r = s
<1> DEFINE g == Checksums[name]
<1>1. g.width \in Nat /\ g.width >= 8 /\ g.reflected \in BOOLEAN
  BY CrcAssumption
<1> SUFFICES ASSUME NEW i \in 0 .. g.width - 1 PROVE i \in r <=> i \in s
  OBVIOUS
<1>2. CASE g.reflected
  <2>1. CASE i < 8
    <3>1. \A w : i \in Index(g, w) <=> i \in w
      BY <1>1, <1>2, <2>1 DEF Index
    <3> QED
      BY <3>1
  <2>2. CASE i >= 8
    <3>1. i - 8 \in 0 .. g.width - 9
      BY <1>1, <2>2
    <3>2. \A w : i - 8 \in Shifted(g, w) <=> i \in w
      BY <1>2, <3>1, i - 8 + 8 = i DEF Shifted
    <3> QED
      BY <3>2
  <2> QED
    BY <1>1, <2>1, <2>2
<1>3. CASE ~g.reflected
  <2>1. CASE i >= g.width - 8
    <3>1. i - (g.width - 8) \in 0..7 /\ i - (g.width - 8) + g.width - 8 = i
      BY <1>1, <2>1
    <3>2. \A w : i - (g.width - 8) \in Index(g, w) <=> i \in w
      BY <1>3, <3>1 DEF Index
    <3> QED
      BY <3>2
  <2>2. CASE i < g.width - 8
    <3>1. i + 8 \in 8 .. g.width - 1 /\ i + 8 - 8 = i
      BY <1>1, <2>2
    <3>2. \A w : i + 8 \in Shifted(g, w) <=> i \in w
      BY <1>3, <3>1 DEF Shifted
    <3> QED
      BY <3>2
  <2> QED
    BY <1>1, <2>1, <2>2
<1> QED
  BY <1>2, <1>3

(* Shifting leaves the byte empty in which the table's entries differ.     *)
LEMMA ShiftEmpties ==
  ASSUME NEW name \in DOMAIN Checksums, NEW r, NEW t
  PROVE  Xor(t, Shifted(Checksums[name], r)) \cap EmptiedBits(Checksums[name])
           = t \cap EmptiedBits(Checksums[name])
<1> DEFINE g == Checksums[name]
<1>1. g.width \in Nat /\ g.width >= 8 /\ g.reflected \in BOOLEAN
  BY CrcAssumption
<1>2. \A i \in EmptiedBits(g) : i \notin Shifted(g, r)
  BY <1>1 DEF EmptiedBits, Shifted
<1> QED
  BY <1>2 DEF Xor

(* Equal results need equal entries of the table and equal rests.          *)
LEMMA UpdateIsInjective ==
  ASSUME NEW name \in DOMAIN Checksums,
         NEW r \in SUBSET (0 .. Checksums[name].width - 1),
         NEW s \in SUBSET (0 .. Checksums[name].width - 1),
         NEW x \in Byte, NEW y \in Byte,
         Updated(Checksums[name], r, x) = Updated(Checksums[name], s, y)
  PROVE  /\ x = y => r = s
         /\ r = s => x = y
<1> DEFINE g == Checksums[name]
           i == Xor(Index(g, r), x)
           j == Xor(Index(g, s), y)
<1>1. i \in Byte /\ j \in Byte
  BY IndexIsByte
<1>2. g.table[i] \cap EmptiedBits(g) = g.table[j] \cap EmptiedBits(g)
  <2>1. Xor(g.table[i], Shifted(g, r)) = Xor(g.table[j], Shifted(g, s))
    BY DEF Updated
  <2>2. Xor(g.table[i], Shifted(g, r)) \cap EmptiedBits(g) = g.table[i] \cap EmptiedBits(g)
    BY ShiftEmpties
  <2>3. Xor(g.table[j], Shifted(g, s)) \cap EmptiedBits(g) = g.table[j] \cap EmptiedBits(g)
    BY ShiftEmpties
  <2> HIDE DEF i, j, g
  <2> QED
    BY <2>1, <2>2, <2>3
<1>3. i = j
  BY <1>1, <1>2, CrcAssumption
<1>4. ASSUME x = y PROVE r = s
  <2>1. Index(g, r) = Index(g, s)
    BY <1>3, <1>4, XorCancels
  <2>2. Shifted(g, r) = Shifted(g, s)
    BY <1>3, XorCancelsLeft DEF Updated
  <2> QED
    BY <2>1, <2>2, IndexAndRest
<1>5. ASSUME r = s PROVE x = y
  BY <1>3, <1>5, XorCancelsLeft
<1> QED
  BY <1>4, <1>5

LEMMA UpdatedIsWord ==
  ASSUME NEW name \in DOMAIN Checksums, NEW r, NEW x \in Byte
  PROVE  Updated(Checksums[name], r, x) \in SUBSET (0 .. Checksums[name].width - 1)
<1> DEFINE g == Checksums[name]
<1>1. g.width \in Nat /\ g.width >= 8 /\ g.table \in [Byte -> SUBSET (0 .. g.width - 1)]
  BY CrcAssumption
<1>2. g.table[Xor(Index(g, r), x)] \in SUBSET (0 .. g.width - 1)
  BY <1>1, IndexIsByte
<1>3. Shifted(g, r) \in SUBSET (0 .. g.width - 1)
  BY <1>1 DEF Shifted
<1> QED
  BY <1>2, <1>3 DEF Updated, Xor

LEMMA CrcStepInv == CrcInv /\ [CrcNext]_cvars => CrcInv'
<1> SUFFICES ASSUME CrcInv, [CrcNext]_cvars PROVE CrcInv'
  OBVIOUS
<1>1. CASE UNCHANGED cvars
  BY <1>1 DEF cvars, CrcInv, running
<1>2. CASE CrcNext
  <2>1. PICK byte \in Alphabet, seen \in Alphabet : Feed(byte, seen)
    BY <1>2 DEF CrcNext
  <2>2. byte \in Byte /\ seen \in Byte
    BY CrcAssumption
  <2>3. /\ fn' = fn
        /\ message' = Append(message, byte) /\ copy' = Append(copy, seen)
        /\ crc' = Updated(running, crc, byte) /\ copyCrc' = Updated(running, copyCrc, seen)
        /\ byte = seen \/ copy = message
    BY <2>1 DEF Feed, running
  <2>4. running' = running
    BY <2>3 DEF running
  <2>5. /\ message' \in Seq(Byte) /\ copy' \in Seq(Byte)
        /\ crc' \in SUBSET (0 .. running.width - 1) /\ copyCrc' \in SUBSET (0 .. running.width - 1)
    BY <2>2, <2>3, UpdatedIsWord DEF CrcInv, running
  <2>6. copy' = message' <=> copy = message /\ seen = byte
    BY <2>2, <2>3 DEF CrcInv
  <2>7. copy = message /\ seen = byte => copyCrc' = crc'
    BY <2>3 DEF CrcInv
  <2>8. ASSUME copyCrc' = crc' PROVE copy = message /\ seen = byte
    <3>1. /\ seen = byte => copyCrc = crc
          /\ copyCrc = crc => seen = byte
      <4>1. /\ fn \in DOMAIN Checksums
            /\ copyCrc \in SUBSET (0 .. Checksums[fn].width - 1)
            /\ crc \in SUBSET (0 .. Checksums[fn].width - 1)
        BY DEF CrcInv, running
      <4>2. Updated(Checksums[fn], copyCrc, seen) = Updated(Checksums[fn], crc, byte)
        BY <2>3, <2>8 DEF running
      <4> HIDE DEF CrcInv
      <4> QED
        BY <2>2, <4>1, <4>2, UpdateIsInjective
    <3> QED
      BY <2>3, <3>1 DEF CrcInv
  <2> QED
    BY <2>3, <2>4, <2>5, <2>6, <2>7, <2>8 DEF CrcInv
<1> QED
  BY <1>1, <1>2

(* A single damaged byte never goes unnoticed, in a message of any length. *)
THEOREM DamageIsDetected == CrcSpec => []DamageChangesChecksum
<1>1. CrcInit => CrcInv
  BY CrcAssumption DEF CrcInit, CrcInv, running
<1>2. CrcInv => DamageChangesChecksum
  BY DEF CrcInv, DamageChangesChecksum
<1> QED
  BY <1>1, <1>2, CrcStepInv, PTL DEF CrcSpec

=============================================================================
