-------------------------------- MODULE Bytes --------------------------------
(***************************************************************************)
(* The bytes that the log, its buffer and its file are made of.            *)
(*                                                                         *)
(* A byte is a tagged record.  What a header carries is kept whole in each *)
(* of its bytes together with the index of the byte, so a header can only  *)
(* be read back from all of its bytes in place.                            *)
(***************************************************************************)
EXTENDS Integers, Sequences

ZeroByte       == [b |-> "zero"]
JunkByte       == [b |-> "junk"]             \* a byte damaged on disk
DataByte(r, i) == [b |-> "data", rec |-> r, at |-> i]
HeadByte(h, i) == [b |-> "head", hdr |-> h, at |-> i]
FieldByte(v)   == [b |-> "field", v |-> v]   \* a header field fed to the crc

Zeros(n) == [i \in 1..n |-> ZeroByte]

(* The payload of the r-th record, n bytes long.                           *)
Payload(r, n) == [i \in 1..n |-> DataByte(r, i)]

(* A header laid out as size bytes.                                        *)
HeaderBytes(h, size) == [i \in 1..size |-> HeadByte(h, i)]

(* The bytes of content from offset from (counted from 0), at most n.      *)
ReadAt(content, from, n) ==
  SubSeq(content, from + 1,
         IF from + n < Len(content) THEN from + n ELSE Len(content))

(* Content with data written over it at offset at; a hole reads as zeros.  *)
Overwrite(content, data, at) ==
  IF data = <<>> THEN content
  ELSE LET end == at + Len(data)
       IN  [i \in 1..(IF end > Len(content) THEN end ELSE Len(content)) |->
              CASE i > at /\ i <= end           -> data[i - at]
                [] i <= at /\ i > Len(content)  -> ZeroByte
                [] OTHER                        -> content[i]]

(* ftruncate: cut, or extend with zeros.                                   *)
TruncatedTo(content, n) ==
  [i \in 1..n |-> IF i <= Len(content) THEN content[i] ELSE ZeroByte]

=============================================================================
