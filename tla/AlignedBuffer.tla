---------------------------- MODULE AlignedBuffer ----------------------------
(***************************************************************************)
(* The buffer of a WritableFileWriter (src/util/aligned_buffer.rs), as     *)
(* operators on its contents.  Of the memory only the cursize_ bytes in    *)
(* use are kept, a sequence: every operation that makes more of it usable  *)
(* writes it first.                                                        *)
(***************************************************************************)
EXTENDS Bytes

CONSTANT Alignment   \* 4096; the code asserts a power of two

ASSUME AlignmentAssumption == Alignment \in Nat \ {0}

round_up(x) == ((x + Alignment - 1) \div Alignment) * Alignment

(* s & (page_size - 1) is s % page_size for a power of two.                *)
previous_page(s)             == s - Alignment             \* slip
truncate_to_page_boundary(s) == s - (s % Alignment)

(* allocate_new_buffer copies the new, zeroed memory over the old one and  *)
(* then drops the old one, so that what the buffer held becomes zeros.     *)
IgnoresRequest(buf, requested, copy_data) == copy_data /\ requested < Len(buf)
Reallocated(buf, copy_data) == IF copy_data THEN Zeros(Len(buf)) ELSE <<>>

(* How much of n bytes append takes.                                       *)
Appended(buf, capacity, n) ==
  LET buffer_remaining == capacity - Len(buf)
  IN  IF n < buffer_remaining THEN n ELSE buffer_remaining

pad_to_aligment_with(buf) == buf \o Zeros(round_up(Len(buf)) - Len(buf))

(* refit_tail copies from the start of the buffer to tail_offset, not the  *)
(* other way round: what stays at the start is what was there.             *)
emptied(buf, tail_offset, tail_size)    == <<>>           \* slip
whole(buf, tail_offset, tail_size)      == buf            \* slip
refit_tail(buf, tail_offset, tail_size) == SubSeq(buf, 1, tail_size)

=============================================================================
