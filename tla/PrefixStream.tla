----------------------------- MODULE PrefixStream -----------------------------
(***************************************************************************)
(* What the log writer needs of its destination, and what                  *)
(* WritableFileWriter (src/util/file_reader_writer.rs) delivers as long as *)
(* the file stays within one page.                                         *)
(*                                                                         *)
(* log is what the destination has accepted.  The file always holds a      *)
(* prefix of it, of onFile bytes, and then zeros: the padding of the last  *)
(* page, or the extension made by the truncation of close.  Nothing that   *)
(* reached the file is taken back, a successful flush brings everything    *)
(* accepted to the file, and a successful close gives the file the length  *)
(* of the log.                                                             *)
(***************************************************************************)
EXTENDS Bytes

CONSTANT MaxPad    \* bound: zeros after the log's bytes

VARIABLES log, onFile, file, call, status

svars == <<log, onFile, file, call, status>>

StreamInit ==
  /\ log = <<>>
  /\ onFile = 0
  /\ file = <<>>
  /\ status = "idle"
  /\ call = [op |-> "none", data |-> <<>>]

(* Part of what is not yet on the file gets there.                         *)
Rewrite(n) ==
  /\ n \in onFile..Len(log)
  /\ onFile' = n
  /\ \E pad \in 0..MaxPad : file' = SubSeq(log, 1, n) \o Zeros(pad)

WriteBack ==
  /\ \E n \in 0..Len(log) : Rewrite(n)
  /\ UNCHANGED <<log, call, status>>

(* Ok means that the whole slice was taken.  WritableFileWriter::append     *)
(* always says ok: within one page it takes the whole slice, beyond it may *)
(* take a part.  A destination that takes a part has to say so here.       *)
AppendReturns ==
  /\ status = "pending"
  /\ call.op = "append"
  /\ \/ status' = "ok" /\ log' = log \o call.data
     \/ /\ status' = "err"
        /\ \E k \in 0..Len(call.data) : log' = log \o SubSeq(call.data, 1, k)
  /\ UNCHANGED <<onFile, file, call>>

FlushReturns ==
  /\ status = "pending"
  /\ call.op = "flush"
  /\ \/ status' = "ok" /\ Rewrite(Len(log))
     \/ status' = "ok" /\ onFile = Len(log) /\ UNCHANGED <<onFile, file>>
     \/ status' = "err" /\ \E n \in 0..Len(log) : Rewrite(n)
     \/ status' = "err" /\ UNCHANGED <<onFile, file>>
  /\ UNCHANGED <<log, call>>

CloseReturns ==
  /\ status = "pending"
  /\ call.op = "close"
  /\ \/ status' \in {"ok", "err"} /\ file' = TruncatedTo(file, Len(log))
     \/ status' = "err" /\ file' = file
  /\ UNCHANGED <<log, onFile, call>>

(* The client calls again once it has its answer.                          *)
Call ==
  /\ status # "pending"
  /\ status' \in {"pending", "idle"}
  /\ UNCHANGED <<log, onFile, file>>

StreamStep == AppendReturns \/ FlushReturns \/ CloseReturns

StreamNext == WriteBack \/ StreamStep \/ Call

=============================================================================
