-------------------------------- MODULE Flock --------------------------------
(***************************************************************************)
(* File locks (src/util/flock.rs): Lock::new opens the lock file and locks *)
(* all of it, drop unlocks it and closes the descriptor.  Processes of     *)
(* several threads use locks on one file; every system call is a step of   *)
(* its own.                                                                *)
(*                                                                         *)
(* The two implementations differ in whom a lock belongs to.  A POSIX      *)
(* record lock belongs to the process: a second one replaces the first,    *)
(* and closing any descriptor of the file releases it.  A lock of          *)
(* LockFileEx belongs to the handle.  The build is chosen in Init.         *)
(*                                                                         *)
(* A call whose open fails changes nothing and is left out, and so are the *)
(* assertion on the parent directory and the panic of panicking_new.       *)
(***************************************************************************)
EXTENDS Integers, FiniteSets

CONSTANTS
  Procs,           \* processes
  NumThreads,      \* threads of each process
  NumDescriptors   \* descriptors a process may have open on the file

ASSUME FlockAssumption == NumThreads \in Nat /\ NumDescriptors \in Nat

VARIABLES
  platform,     \* "unix" or "windows"
  pc,           \* where each thread is in Lock::new or drop
  arg,          \* the descriptor it works on, and the mode it asks for
  held,         \* the Lock values of each process
  descriptors,  \* its open descriptors of the file
  table,        \* the locks granted by the kernel
  overlapped    \* history: processes that ever began to create a Lock while
                \* they had another one or were creating or dropping one

vars == <<platform, pc, arg, held, descriptors, table, overlapped>>

Threads     == Procs \X (1..NumThreads)
Descriptors == 1..NumDescriptors
Modes       == {"shared", "exclusive"}
Locks       == [fd : Descriptors, mode : Modes]
ProcOf(t)   == t[1]
NoArg       == [fd |-> 0, mode |-> "none"]

Init ==
  /\ platform \in {"unix", "windows"}
  /\ pc = [t \in Threads |-> "idle"]
  /\ arg = [t \in Threads |-> NoArg]
  /\ held = [p \in Procs |-> {}]
  /\ descriptors = [p \in Procs |-> {}]
  /\ table = {}
  /\ overlapped = {}

-----------------------------------------------------------------------------
(* The kernel.                                                             *)
Owner(p, fd) == IF platform = "unix" THEN <<p, 0>> ELSE <<p, fd>>
Self(t)      == Owner(ProcOf(t), arg[t].fd)

(* l_type, or the flag of LockFileEx, for the mode that is asked for.      *)
SharedAlways(mode) == "shared"                            \* slip
LockType(mode)     == mode

Compatible(a, b) == a = "shared" /\ b = "shared"

Conflicting(t) ==
  {e \in table : e.owner # Self(t) /\ ~Compatible(e.mode, LockType(arg[t].mode))}

ReleasedBy(t) == {e \in table : e.owner # Self(t)}

Blocked(t) == pc[t] = "blocked"

(* Waiting would close a cycle of processes that wait for one another.     *)
Waits(p, q) ==
  \E t \in Threads : ProcOf(t) = p /\ Blocked(t) /\ \E e \in Conflicting(t) : e.owner[1] = q
Deadlocks(t) ==
  platform = "unix" /\ \E e \in Conflicting(t) : Waits(e.owner[1], ProcOf(t))

-----------------------------------------------------------------------------
Busy(p) == held[p] # {} \/ \E t \in Threads : ProcOf(t) = p /\ pc[t] # "idle"

Goto(t, where) == pc' = [pc EXCEPT ![t] = where]
Return(t)      == Goto(t, "idle") /\ arg' = [arg EXCEPT ![t] = NoArg]

(* Lock::new up to open, which returns the lowest free descriptor.         *)
Open(t) ==
  /\ pc[t] = "idle"
  /\ \E fd \in Descriptors \ descriptors[ProcOf(t)], mode \in Modes :
       /\ 1 .. fd - 1 \subseteq descriptors[ProcOf(t)]
       /\ arg' = [arg EXCEPT ![t] = [fd |-> fd, mode |-> mode]]
       /\ descriptors' = [descriptors EXCEPT ![ProcOf(t)] = @ \cup {fd}]
  /\ overlapped' = IF Busy(ProcOf(t)) THEN overlapped \cup {ProcOf(t)} ELSE overlapped
  /\ Goto(t, "lock")
  /\ UNCHANGED <<platform, held, table>>

(* The lock is granted, at once or after waiting, and Lock::new returns.   *)
Granted(t) ==
  /\ pc[t] \in {"lock", "blocked"}
  /\ Conflicting(t) = {}
  /\ table' = ReleasedBy(t) \cup {[owner |-> Self(t), mode |-> LockType(arg[t].mode)]}
  /\ held' = [held EXCEPT ![ProcOf(t)] = @ \cup {[fd |-> arg[t].fd, mode |-> arg[t].mode]}]
  /\ Return(t)
  /\ UNCHANGED <<platform, descriptors, overlapped>>

(* F_SETLKW, or LockFileEx without LOCKFILE_FAIL_IMMEDIATELY: a caller     *)
(* that waits.                                                             *)
Wait(t) ==
  /\ pc[t] = "lock"
  /\ Conflicting(t) # {} /\ ~Deadlocks(t)
  /\ Goto(t, "blocked")
  /\ UNCHANGED <<platform, arg, held, descriptors, table, overlapped>>

(* The call fails: its caller does not wait, or waiting would deadlock, or *)
(* for a reason of its own (EINTR, ENOLCK).                                *)
Refused(t) ==
  /\ pc[t] \in {"lock", "blocked"}
  /\ Goto(t, "close")
  /\ arg' = [arg EXCEPT ![t].mode = "none"]
  /\ UNCHANGED <<platform, held, descriptors, table, overlapped>>

(* close, after a refusal and at the end of drop.                          *)
LeftOpen(t) ==                              \* slip: the descriptor is not closed
  /\ pc[t] = "close"
  /\ Return(t)
  /\ UNCHANGED <<platform, held, descriptors, table, overlapped>>
Close(t) ==
  /\ pc[t] = "close"
  /\ descriptors' = [descriptors EXCEPT ![ProcOf(t)] = @ \ {arg[t].fd}]
  /\ table' = ReleasedBy(t)
  /\ Return(t)
  /\ UNCHANGED <<platform, held, overlapped>>

(* A Lock goes out of scope in some thread.  On Windows there is no drop:  *)
(* its file is closed.                                                     *)
Drop(t) ==
  /\ pc[t] = "idle"
  /\ \E l \in held[ProcOf(t)] :
       /\ held' = [held EXCEPT ![ProcOf(t)] = @ \ {l}]
       /\ arg' = [arg EXCEPT ![t] = [fd |-> l.fd, mode |-> "none"]]
  /\ Goto(t, IF platform = "unix" THEN "unlock" ELSE "close")
  /\ UNCHANGED <<platform, descriptors, table, overlapped>>

Unlock(t) ==
  /\ pc[t] = "unlock"
  /\ table' = ReleasedBy(t)
  /\ Goto(t, "close")
  /\ UNCHANGED <<platform, arg, held, descriptors, overlapped>>

(* A process ends, in whatever state it is, and another takes its place.   *)
Exit(p) ==
  /\ pc' = [t \in Threads |-> IF ProcOf(t) = p THEN "idle" ELSE pc[t]]
  /\ arg' = [t \in Threads |-> IF ProcOf(t) = p THEN NoArg ELSE arg[t]]
  /\ held' = [held EXCEPT ![p] = {}]
  /\ descriptors' = [descriptors EXCEPT ![p] = {}]
  /\ table' = {e \in table : e.owner[1] # p}
  /\ overlapped' = overlapped \ {p}
  /\ UNCHANGED platform

Step(t) == pc[t] # "blocked" /\ (Granted(t) \/ Wait(t) \/ Refused(t) \/ Close(t) \/ Unlock(t))

Next ==
  \/ \E t \in Threads :
       Open(t) \/ Granted(t) \/ Wait(t) \/ Refused(t) \/ Close(t) \/ Drop(t) \/ Unlock(t)
  \/ \E p \in Procs : Exit(p)

(* A thread inside Lock::new or drop runs, and the client drops each Lock  *)
(* when it can.                                                            *)
DropSome(p) == \E t \in Threads : ProcOf(t) = p /\ Drop(t)

Fairness ==
  /\ \A t \in Threads : WF_vars(Step(t))
  /\ \A p \in Procs : SF_vars(DropSome(p))

Spec     == Init /\ [][Next]_vars
FairSpec == Spec /\ Fairness

-----------------------------------------------------------------------------
(* A process that uses one Lock at a time can rely on it: while the Lock   *)
(* lives, the kernel holds a lock of its mode and no conflicting one, of   *)
(* whatever process, even one that breaks its own locks by using several   *)
(* of them.  On Windows every Lock can be relied on.                       *)
LockHolds(p, l) ==
  /\ [owner |-> Owner(p, l.fd), mode |-> l.mode] \in table
  /\ \A e \in table : e.owner # Owner(p, l.fd) => Compatible(e.mode, l.mode)

HolderIsProtected ==
  \A p \in Procs : platform = "windows" \/ p \notin overlapped =>
    \A l \in held[p] : LockHolds(p, l)

(* Each open descriptor of the lock file belongs to one Lock or to one     *)
(* call of new or drop that is under way: no failing path leaks one, and   *)
(* none is closed twice.                                                   *)
DescriptorsAccounted ==
  \A p \in Procs :
    LET calls == {t \in Threads : ProcOf(t) = p /\ pc[t] # "idle"}
    IN  /\ descriptors[p] = {l.fd : l \in held[p]} \cup {arg[t].fd : t \in calls}
        /\ Cardinality(descriptors[p]) = Cardinality(held[p]) + Cardinality(calls)

(* Between processes that use one Lock at a time, the locks are            *)
(* reader-writer locks, across crashes, refusals and deadlocks.            *)
Owns == [p \in Procs |->
           IF p \in overlapped \/ held[p] = {} THEN "nothing"
           ELSE (CHOOSE l \in held[p] : TRUE).mode]

Abstract == INSTANCE RwLock WITH owns <- Owns
IsRwLock == Abstract!RwSpec

(* A thread that waits for ever is passed over again and again, but never  *)
(* left behind a lock that nobody drops: what blocks it goes away.  (On    *)
(* Windows, where nobody detects a deadlock, unless a process asks for a   *)
(* second lock while it holds one.)                                        *)
NotStuck ==
  \A t \in Threads :
    <>[]Blocked(t) =>
      []<>(Conflicting(t) = {} \/ (platform = "windows" /\ overlapped # {}))

=============================================================================
