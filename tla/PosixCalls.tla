------------------------------ MODULE PosixCalls ------------------------------
(***************************************************************************)
(* One thread's calls on the operating system: opening and reading a       *)
(* PosixSequentialFile, PosixWritableFile::positioned_append (both in      *)
(* src/env/io_posix.rs) and the thread's priority (src/util/sys/mod.rs).   *)
(*                                                                         *)
(* They share errno, which failing system calls set and nothing clears,    *)
(* and each decides by it whether to try again.  Another process extends   *)
(* the file meanwhile.  The system calls and stdio are external; each      *)
(* action is one of them and what the code does with its result.           *)
(*                                                                         *)
(* A byte of the file is known by the offset it was written for, so that a *)
(* byte out of its place shows.                                            *)
(***************************************************************************)
EXTENDS Bytes, FiniteSets

CONSTANTS
  ReadSize,        \* what read is asked for
  AppendSizes,     \* lengths that positioned_append is given
  Priorities,      \* the priorities that a caller sets, besides HIGH_PRI
  MaxSize,         \* bound: size of the file
  MaxFaults,       \* bound: system calls that fail or are interrupted
  MaxCalls         \* bound: opens, and appends

ASSUME PosixCallsAssumption ==
  /\ {ReadSize, MaxSize, MaxFaults, MaxCalls} \subseteq Nat
  /\ AppendSizes \subseteq Nat
  /\ Priorities \subseteq Int

VARIABLES
  errno,                \* "none", "EINTR" or "other"
  pc,                   \* "idle", or the call being served
  last, answer,         \* the last call and what it answered
  faults, calls,        \* counts
  disk,                 \* the bytes of the file
  descriptors, cloexec, \* open descriptors, and those closed by exec
  opens,                \* history: descriptors that callers were given
  fd, options,          \* of new
  file_,                \* the stream of the PosixSequentialFile; -1: null
  pos, eof, error,      \* its position and its two flags
  r,                    \* what the last fread returned
  sawEnd, delivered,    \* history: this read met the end; bytes handed out
  offset, left, data,   \* of positioned_append; data: where the rest belongs
  done,                 \* what the last pwrite returned
  again,                \* history: changes with each further fread or pwrite
  priority

openVars   == <<descriptors, cloexec, opens, fd, options, file_>>
readVars   == <<pos, eof, error, r, sawEnd, delivered>>
appendVars == <<offset, left, data, done>>
vars == <<errno, pc, last, answer, faults, calls, disk, openVars, readVars, appendVars,
          again, priority>>

null == -1

(* The process may have been started without a standard input.             *)
Init ==
  /\ errno = "none"
  /\ pc = "idle" /\ last = "none" /\ answer = "ok"
  /\ faults = 0 /\ calls = 0
  /\ disk = <<>>
  /\ descriptors \in {{}, {0}}
  /\ cloexec = {} /\ opens = Cardinality(descriptors)
  /\ fd = null /\ file_ = null
  /\ options = [set_fd_cloexec |-> TRUE, use_direct_reads |-> FALSE]
  /\ pos = 0 /\ eof = FALSE /\ error = FALSE /\ r = 0
  /\ sawEnd = FALSE /\ delivered = 0
  /\ offset = 0 /\ left = 0 /\ data = 0 /\ done = 0
  /\ again = FALSE
  /\ priority = 0

Enter(call) ==
  /\ pc = "idle"
  /\ pc' = call
  /\ last' = call

Answer(value) ==
  /\ pc' = "idle"
  /\ answer' = value
  /\ UNCHANGED last

(* A system call fails.                                                    *)
Fault(number) ==
  /\ faults < MaxFaults
  /\ faults' = faults + 1
  /\ errno' = number

NoFault == UNCHANGED <<faults, errno>>

-----------------------------------------------------------------------------
(* PosixSequentialFile::new.                                               *)
NewFile(direct, exec) ==
  /\ Enter("open")
  /\ calls < MaxCalls
  /\ calls' = calls + 1
  /\ options' = [set_fd_cloexec |-> exec, use_direct_reads |-> direct]
  /\ NoFault
  /\ UNCHANGED <<answer, disk, descriptors, cloexec, opens, fd, file_, readVars, appendVars,
                 again, priority>>

(* The new object takes the place of the caller's; what that held stays    *)
(* open, nothing closes it.                                                *)
Opened(file) ==
  /\ file_' = file
  /\ opens' = opens + 1
  /\ pos' = 0 /\ eof' = FALSE /\ error' = FALSE /\ delivered' = 0
  /\ Answer("ok")
  /\ UNCHANGED <<r, sawEnd>>

(* open gives out the lowest descriptor that is free.                      *)
Free == (0 .. Cardinality(descriptors)) \ descriptors

(* Descriptor 0 is left alone.                                             *)
SetFD_CLOEXEC(new) ==
  cloexec' = IF options.set_fd_cloexec /\ new > 0 THEN cloexec \cup {new} ELSE cloexec

(* A file read directly gets no stream.                                    *)
Open ==
  /\ pc = "open"
  /\ \E new \in Free :
       /\ \A d \in Free : new <= d
       /\ descriptors' = descriptors \cup {new}
       /\ fd' = new
       /\ SetFD_CLOEXEC(new)
  /\ IF options.use_direct_reads THEN Opened(null)
     ELSE pc' = "fdopen" /\ UNCHANGED <<file_, opens, last, answer, readVars>>
  /\ NoFault
  /\ UNCHANGED <<calls, disk, options, appendVars, again, priority>>

OpenFails ==
  /\ pc = "open"
  /\ \/ Fault("EINTR") /\ UNCHANGED <<pc, last, answer>>
     \/ Fault("other") /\ Answer("err")
  /\ UNCHANGED <<calls, disk, openVars, readVars, appendVars, again, priority>>

Fdopen ==
  /\ pc = "fdopen"
  /\ Opened(fd)
  /\ NoFault
  /\ UNCHANGED <<calls, disk, descriptors, cloexec, fd, options, appendVars, again, priority>>

(* fdopen gets its mode without a terminating zero and may refuse it.      *)
DescriptorKept ==                          \* slip: no close
  /\ pc = "fdopen"
  /\ \/ Fault("EINTR") /\ UNCHANGED <<pc, last, answer, descriptors, cloexec>>
     \/ Fault("other") /\ Answer("err") /\ UNCHANGED <<descriptors, cloexec>>
  /\ UNCHANGED <<calls, disk, opens, fd, options, file_, readVars, appendVars, again, priority>>
FdopenFails ==
  /\ pc = "fdopen"
  /\ \/ Fault("EINTR") /\ UNCHANGED <<pc, last, answer, descriptors, cloexec>>
     \/ /\ Fault("other") /\ Answer("err")
        /\ descriptors' = descriptors \ {fd}
        /\ cloexec' = cloexec \ {fd}
  /\ UNCHANGED <<calls, disk, opens, fd, options, file_, readVars, appendVars, again, priority>>

-----------------------------------------------------------------------------
(* PosixSequentialFile::read; on a null stream it crashes.                 *)
ReadFile ==
  /\ opens > 0
  /\ IF file_ = null THEN Enter("crashed") ELSE Enter("read")
  /\ r' = 0
  /\ sawEnd' = FALSE
  /\ NoFault
  /\ UNCHANGED <<answer, calls, disk, openVars, pos, eof, error, delivered, appendVars, again,
                 priority>>

(* What fread may do: deliver all, come to the end of the file, say again  *)
(* that it is at the end as long as that flag is set, or fail on the way.  *)
Outcome(n, atEnd, fails, number) ==
  [r |-> n, met |-> atEnd, eof |-> eof \/ atEnd, error |-> error \/ fails,
   fails |-> fails, errno |-> number]

Outcomes ==
  LET rest == Len(disk) - pos
  IN  (IF rest >= ReadSize THEN {Outcome(ReadSize, FALSE, FALSE, errno)}
                           ELSE {Outcome(rest, TRUE, FALSE, errno)})
        \cup (IF eof THEN {Outcome(0, FALSE, FALSE, errno)} ELSE {})
        \cup (IF faults < MaxFaults
              THEN {Outcome(n, FALSE, TRUE, number) :
                      n \in {m \in 0..rest : m < ReadSize}, number \in {"EINTR", "other"}}
              ELSE {})

(* Whether fread is called again.                                          *)
WhateverItGot(o) == o.error /\ o.errno = "EINTR"                        \* slip
WithoutFerror(o) == o.errno = "EINTR" /\ o.r = 0                        \* slip
Retries(o)       == o.error /\ o.errno = "EINTR" /\ o.r = 0

(* A short read is the end of the file if feof says so; the flags are then *)
(* cleared, so that a file that grows can be read on.                      *)
AtEnd(o) == o.r < ReadSize /\ o.eof

FlagsKept(o)  == eof' = o.eof /\ error' = o.error                       \* slip
FlagsAfter(o) == eof' = (o.eof /\ ~AtEnd(o)) /\ error' = (o.error /\ ~AtEnd(o))

Fread ==
  /\ pc = "read"
  /\ \E o \in Outcomes :
       /\ errno' = o.errno
       /\ faults' = faults + (IF o.fails THEN 1 ELSE 0)
       /\ r' = o.r
       /\ pos' = pos + o.r
       /\ sawEnd' = (sawEnd \/ o.met)
       /\ IF Retries(o)
          THEN /\ eof' = o.eof /\ error' = o.error
               /\ again' = ~again
               /\ UNCHANGED <<pc, last, answer, delivered>>
          ELSE /\ delivered' = delivered + o.r
               /\ UNCHANGED again
               /\ FlagsAfter(o)
               /\ Answer(IF o.r < ReadSize /\ ~AtEnd(o) THEN "err" ELSE "ok")
  /\ UNCHANGED <<calls, disk, openVars, appendVars, priority>>

-----------------------------------------------------------------------------
(* PosixWritableFile::positioned_append, on a file opened before.          *)
PositionedAppend(at, n) ==
  /\ Enter("append")
  /\ calls < MaxCalls
  /\ calls' = calls + 1
  /\ offset' = at /\ data' = at
  /\ left' = n
  /\ UNCHANGED done
  /\ NoFault
  /\ UNCHANGED <<answer, disk, openVars, readVars, again, priority>>

Appended ==
  /\ pc = "append"
  /\ left = 0
  /\ Answer("ok")
  /\ NoFault
  /\ UNCHANGED <<calls, disk, openVars, readVars, appendVars, again, priority>>

(* pwrite wrote n bytes: the rest of the data goes behind them.            *)
SourceKept(n) == data' = data /\ offset' = offset + n                   \* slip
Advance(n)    == data' = data + n /\ offset' = offset + n

Pwrite ==
  /\ pc = "append"
  /\ \E n \in 1..left :
       /\ done' = n
       /\ disk' = Overwrite(disk, [i \in 1..n |-> data + i], offset)
       /\ Advance(n)
       /\ left' = left - n
  /\ NoFault
  /\ UNCHANGED <<pc, last, answer, calls, openVars, readVars, again, priority>>

(* pwrite failed, or wrote nothing and left errno alone; only errno tells  *)
(* whether it was interrupted.                                             *)
PwriteNothing ==
  /\ pc = "append"
  /\ left > 0
  /\ \/ done' = 0 /\ NoFault
     \/ done' = -1 /\ (Fault("EINTR") \/ Fault("other"))
  /\ IF errno' = "EINTR" THEN again' = ~again /\ UNCHANGED <<pc, last, answer>>
                         ELSE Answer("err") /\ UNCHANGED again
  /\ UNCHANGED <<calls, disk, openVars, readVars, offset, left, data, priority>>

-----------------------------------------------------------------------------
HIGH_PRI == -1

(* set_priority: only a privileged thread may raise its priority.          *)
set_priority(pri) ==
  /\ pc = "idle" /\ pc' = pc
  /\ last' = "set_priority"
  /\ \/ answer' = "ok" /\ priority' = pri /\ NoFault
     \/ answer' = "err" /\ pri < priority /\ Fault("other") /\ UNCHANGED priority
  /\ UNCHANGED <<calls, disk, openVars, readVars, appendVars, again>>

(* get_priority: -1 is an error if errno says so.  getpriority does not    *)
(* fail for the calling thread, but errno is not cleared before it, where  *)
(* the comment says "clean previous error" (sys/mod.rs:22): last_os_error  *)
(* only reads it.  A priority of -1 is therefore reported as whatever      *)
(* error came before.                                                      *)
IsError(pri, number) == pri = -1 /\ number # "none"

get_priority ==
  /\ pc = "idle" /\ pc' = pc
  /\ last' = "get_priority"
  /\ answer' = IF IsError(priority, errno) THEN "err" ELSE "ok"
  /\ NoFault
  /\ UNCHANGED <<calls, disk, openVars, readVars, appendVars, again, priority>>

-----------------------------------------------------------------------------
(* Another process extends the file.                                       *)
Grow ==
  /\ Len(disk) < MaxSize
  /\ disk' = Append(disk, Len(disk) + 1)
  /\ UNCHANGED <<errno, pc, last, answer, faults, calls, openVars, readVars, appendVars,
                 again, priority>>

Serve ==
  \/ Open \/ OpenFails \/ Fdopen \/ FdopenFails
  \/ Fread
  \/ Appended \/ Pwrite \/ PwriteNothing

Next ==
  \/ \E direct, exec \in BOOLEAN : NewFile(direct, exec)
  \/ ReadFile
  \/ \E at \in 0..Len(disk), n \in AppendSizes : at + n <= MaxSize /\ PositionedAppend(at, n)
  \/ \E pri \in Priorities \cup {HIGH_PRI} : set_priority(pri)
  \/ get_priority
  \/ Serve
  \/ Grow

Spec == Init /\ [][Next]_vars

(* The thread runs while it is in a call.                                  *)
FairSpec == Spec /\ WF_vars(Serve)

-----------------------------------------------------------------------------
(* No failed or interrupted new leaves a descriptor open, there are as     *)
(* many as callers were given and the one that new is working on; and none *)
(* closes the descriptor of the file that is being read.                   *)
OpenFailsClean ==
  /\ Cardinality(descriptors) = opens + (IF pc = "fdopen" THEN 1 ELSE 0)
  /\ cloexec \subseteq descriptors
  /\ file_ \in descriptors \cup {null}

(* What read hands out, from one call to the next and across failed ones,  *)
(* is the file from its start without a gap: a retry loses nothing.        *)
NothingLost == pos = delivered

(* A read that says ok with less than it was asked for met the end of the  *)
(* file itself: the end that an earlier read met is forgotten, although    *)
(* stdio keeps it, so a reader sees what was appended since.  It takes two *)
(* failures for this to break: after an interrupted read at the end the    *)
(* flag of the end can outlast the call that met it, and a later failure   *)
(* is then taken for the end.                                              *)
ShortReadIsEnd ==
  faults < 2 /\ pc = "idle" /\ last = "read" /\ answer = "ok" /\ r < ReadSize => sawEnd

(* Partial and interrupted writes put every byte where it belongs, and ok  *)
(* means that all of them are there.                                       *)
WrittenInPlace ==
  /\ \A i \in DOMAIN disk : disk[i] = i
  /\ pc = "idle" /\ last = "append" /\ answer = "ok" => Len(disk) >= offset /\ left = 0

(* The flags of the stream and errno tell of an interrupted fread long     *)
(* over, and the file has no more bytes.                                   *)
SpinsAtEnd == pc = "read" /\ eof /\ error /\ errno = "EINTR" /\ r = 0

(* pwrite returned 0, and errno tells of an earlier interruption.          *)
SpinsOnNothing == pc = "append" /\ left > 0 /\ done = 0 /\ errno = "EINTR"

(* Every call returns, however often it tries again, unless read goes      *)
(* round for ever at the end of a stream whose error flag is set, or       *)
(* positioned_append on a pwrite that writes nothing, with errno saying    *)
(* EINTR of an earlier failure all the while.                              *)
CallsReturn ==
  pc \in {"open", "fdopen", "read", "append"} ~>
    (pc = "idle" \/ []SpinsAtEnd \/ []SpinsOnNothing)

=============================================================================
