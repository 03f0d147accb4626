------------------------------ MODULE FlockProofs ------------------------------
(***************************************************************************)
(* The file lock protects whoever uses one Lock at a time, and no          *)
(* descriptor is lost, for any number of processes, threads and            *)
(* descriptors.                                                            *)
(***************************************************************************)
EXTENDS Flock, FiniteSetTheorems, TLAPS

Calls(p) == {t \in Threads : ProcOf(t) = p /\ pc[t] # "idle"}

(* Whose locks the kernel keeps for as long as they live.                  *)
Reliable(p) == platform = "windows" \/ p \notin overlapped

Types ==
  /\ platform \in {"unix", "windows"}
  /\ pc \in [Threads -> {"idle", "lock", "blocked", "close", "unlock"}]
  /\ arg \in [Threads -> [fd : Nat, mode : Modes \cup {"none"}]]
  /\ held \in [Procs -> SUBSET Locks]
  /\ descriptors \in [Procs -> SUBSET Descriptors]
  /\ table \subseteq [owner : Procs \X Nat, mode : Modes]
  /\ overlapped \subseteq Procs

(* A call that asks for a lock asks for a mode.                            *)
ModeKnown == \A t \in Threads : pc[t] \in {"lock", "blocked"} => arg[t].mode \in Modes

(* Every descriptor has one user, a Lock or a call.                        *)
UsersOpen ==
  \A p \in Procs :
    descriptors[p] = {l.fd : l \in held[p]} \cup {arg[t].fd : t \in Calls(p)}

UsersDiffer ==
  \A p \in Procs :
    /\ \A l, m \in held[p] : l.fd = m.fd => l = m
    /\ \A l \in held[p], t \in Calls(p) : l.fd # arg[t].fd
    /\ \A t, u \in Calls(p) : arg[t].fd = arg[u].fd => t = u

UsersCounted ==
  \A p \in Procs :
    Cardinality(descriptors[p]) = Cardinality(held[p]) + Cardinality(Calls(p))

(* A process that never overlapped has a Lock or a call, and only one.     *)
OneAtATime ==
  \A p \in Procs \ overlapped :
    /\ \A l, m \in held[p] : l = m
    /\ \A t, u \in Calls(p) : t = u
    /\ held[p] = {} \/ Calls(p) = {}

(* The kernel's side: granted locks of different owners are compatible.    *)
TableSound ==
  \A e, f \in table : e.owner # f.owner => Compatible(e.mode, f.mode)

HeldInTable ==
  \A p \in Procs : Reliable(p) =>
    \A l \in held[p] : [owner |-> Owner(p, l.fd), mode |-> l.mode] \in table

FlockInv ==
  /\ Types
  /\ ModeKnown
  /\ UsersOpen
  /\ UsersDiffer
  /\ UsersCounted
  /\ OneAtATime
  /\ TableSound
  /\ HeldInTable

-----------------------------------------------------------------------------
(* Every thread belongs to a process.                                      *)
LEMMA ThreadsOfProcs ==
  ASSUME NEW t \in Threads PROVE ProcOf(t) \in Procs
BY DEF Threads, ProcOf

(* The sets that are counted are finite.                                   *)
LEMMA Finite ==
  ASSUME Types, NEW p \in Procs
  PROVE  /\ IsFiniteSet(descriptors[p])
         /\ IsFiniteSet(held[p])
         /\ IsFiniteSet(Calls(p))
<1>1. IsFiniteSet(Descriptors)
  BY FlockAssumption, FS_Interval DEF Descriptors
<1>2. IsFiniteSet(descriptors[p])
  BY <1>1, FS_Subset DEF Types
<1>3. IsFiniteSet(Locks)
  <2>1. IsFiniteSet(Modes)
    <3>1. IsFiniteSet({"shared"} \cup {"exclusive"})
      BY FS_Singleton, FS_AddElement
    <3> QED
      BY <3>1, {"shared"} \cup {"exclusive"} = Modes DEF Modes
  <2>2. IsFiniteSet(Descriptors \X Modes)
    BY <1>1, <2>1, FS_Product
  <2> DEFINE f == [x \in Descriptors \X Modes |-> [fd |-> x[1], mode |-> x[2]]]
  <2>3. f \in Surjection(Descriptors \X Modes, Locks)
    <3>1. f \in [Descriptors \X Modes -> Locks]
      BY DEF Locks
    <3>2. ASSUME NEW l \in Locks PROVE \E x \in Descriptors \X Modes : f[x] = l
      <4>1. <<l.fd, l.mode>> \in Descriptors \X Modes /\ f[<<l.fd, l.mode>>] = l
        BY DEF Locks
      <4> QED
        BY <4>1
    <3> QED
      BY <3>1, <3>2 DEF Surjection
  <2> QED
    BY <2>2, <2>3, FS_Surjection
<1>4. IsFiniteSet(held[p])
  BY <1>3, FS_Subset DEF Types
<1>5. IsFiniteSet(Calls(p))
  <2>1. IsFiniteSet({p} \X (1..NumThreads))
    <3>1. IsFiniteSet(1..NumThreads)
      BY FlockAssumption, FS_Interval
    <3>2. IsFiniteSet({p})
      BY FS_Singleton
    <3> QED
      BY <3>1, <3>2, FS_Product
  <2>2. Calls(p) \subseteq {p} \X (1..NumThreads)
    BY DEF Calls, Threads, ProcOf
  <2> QED
    BY <2>1, <2>2, FS_Subset
<1> QED
  BY <1>2, <1>4, <1>5

(* What one element more or less does to the count of a set.               *)
LEMMA OneMore ==
  ASSUME NEW S, IsFiniteSet(S), NEW x, x \notin S
  PROVE  Cardinality(S \cup {x}) = Cardinality(S) + 1
BY FS_AddElement

(* One element less.                                                       *)
LEMMA OneLess ==
  ASSUME NEW S, IsFiniteSet(S), NEW x \in S
  PROVE  Cardinality(S \ {x}) = Cardinality(S) - 1
BY FS_RemoveElement

(* The counts are natural numbers.                                         *)
LEMMA Counts ==
  ASSUME Types, NEW p \in Procs
  PROVE  /\ Cardinality(descriptors[p]) \in Nat
         /\ Cardinality(held[p]) \in Nat
         /\ Cardinality(Calls(p)) \in Nat
<1>1. /\ IsFiniteSet(descriptors[p])
      /\ IsFiniteSet(held[p])
      /\ IsFiniteSet(Calls(p))
  BY Finite
<1> QED
  BY <1>1, FS_CardinalityType

(* Owners of different processes differ; within a process they are one on  *)
(* Unix and one for each descriptor on Windows.                            *)
LEMMA OwnersDiffer ==
  ASSUME NEW p \in Procs, NEW q \in Procs, NEW d, NEW e,
         Owner(p, d) = Owner(q, e)
  PROVE  p = q /\ (platform # "unix" => d = e)
BY DEF Owner

(* What is known of a thread inside Lock::new or drop.                     *)
LEMMA Calling ==
  ASSUME FlockInv, NEW t \in Threads, pc[t] # "idle"
  PROVE  /\ ProcOf(t) \in Procs
         /\ t \in Calls(ProcOf(t))
         /\ arg[t].fd \in descriptors[ProcOf(t)]
         /\ arg[t].fd \in Descriptors
         /\ arg[t].fd \in Nat
         /\ \A l \in held[ProcOf(t)] : l.fd # arg[t].fd
<1>1. ProcOf(t) \in Procs /\ t \in Calls(ProcOf(t))
  BY ThreadsOfProcs DEF Calls
<1>2. arg[t].fd \in descriptors[ProcOf(t)]
  BY <1>1 DEF FlockInv, UsersOpen
<1>3. arg[t].fd \in Descriptors /\ arg[t].fd \in Nat
  BY <1>1, <1>2 DEF FlockInv, Types
<1>4. \A l \in held[ProcOf(t)] : l.fd # arg[t].fd
  BY <1>1 DEF FlockInv, UsersDiffer
<1> QED
  BY <1>1, <1>2, <1>3, <1>4

(* What a call of a process releases is never the lock of a Lock that can  *)
(* be relied on.                                                           *)
LEMMA StaysGranted ==
  ASSUME FlockInv, NEW t \in Threads, pc[t] # "idle",
         NEW q \in Procs, Reliable(q), NEW l \in held[q]
  PROVE  [owner |-> Owner(q, l.fd), mode |-> l.mode] \in ReleasedBy(t)
<1>1. [owner |-> Owner(q, l.fd), mode |-> l.mode] \in table
  BY DEF FlockInv, HeldInTable
<1>2. Owner(q, l.fd) # Self(t)
  <2> SUFFICES ASSUME Owner(q, l.fd) = Owner(ProcOf(t), arg[t].fd) PROVE FALSE
    BY DEF Self
  <2>1. q = ProcOf(t) /\ (platform # "unix" => l.fd = arg[t].fd)
    BY OwnersDiffer, Calling
  <2>2. platform = "unix"
    BY <2>1, Calling
  <2>3. q \in Procs \ overlapped
    BY <2>2 DEF Reliable
  <2>4. Calls(q) = {}
    BY <2>3 DEF FlockInv, OneAtATime
  <2> QED
    BY <2>1, <2>4, Calling
<1> QED
  BY <1>1, <1>2 DEF ReleasedBy

-----------------------------------------------------------------------------
(* Each action keeps the invariant.                                        *)
LEMMA GrantedKeeps ==
  ASSUME FlockInv, NEW t \in Threads, Granted(t)
  PROVE  FlockInv'
<1> DEFINE p == ProcOf(t)
           l == [fd |-> arg[t].fd, mode |-> arg[t].mode]
           e == [owner |-> Self(t), mode |-> l.mode]
<1>1. pc[t] # "idle" /\ arg[t].mode \in Modes
  BY DEF Granted, FlockInv, ModeKnown
<1>2. /\ p \in Procs /\ t \in Calls(p) /\ l \in Locks /\ l \notin held[p]
      /\ arg[t].fd \in descriptors[p]
  BY <1>1, Calling DEF Locks
<1>3. /\ held' = [held EXCEPT ![p] = @ \cup {l}]
      /\ pc' = [pc EXCEPT ![t] = "idle"]
      /\ arg' = [arg EXCEPT ![t] = NoArg]
      /\ table' = ReleasedBy(t) \cup {e}
      /\ platform' = platform /\ descriptors' = descriptors /\ overlapped' = overlapped
  BY DEF Granted, Return, Goto, LockType
<1>4. /\ held'[p] = held[p] \cup {l}
      /\ \A q \in Procs \ {p} : held'[q] = held[q]
      /\ \A u \in Threads \ {t} : arg'[u] = arg[u]
  BY <1>2, <1>3 DEF FlockInv, Types
<1>5. /\ Calls(p)' = Calls(p) \ {t}
      /\ \A q \in Procs \ {p} : Calls(q)' = Calls(q)
  BY <1>2, <1>3 DEF FlockInv, Types, Calls
<1>6. Types' /\ ModeKnown'
  <2>1. e \in [owner : Procs \X Nat, mode : Modes]
    BY <1>1, <1>2, Calling DEF Self, Owner
  <2> QED
    BY <1>1, <1>2, <1>3, <2>1 DEF FlockInv, Types, ModeKnown, NoArg, ReleasedBy
<1>7. UsersOpen'
  BY <1>2, <1>3, <1>4, <1>5 DEF FlockInv, UsersOpen, Calls
<1>8. UsersDiffer'
  BY <1>2, <1>3, <1>4, <1>5 DEF FlockInv, UsersDiffer, Calls
<1>9. UsersCounted'
  <2>1. /\ Cardinality(held'[p]) = Cardinality(held[p]) + 1
        /\ Cardinality(Calls(p)') = Cardinality(Calls(p)) - 1
    BY <1>2, <1>4, <1>5, Finite, OneMore, OneLess DEF FlockInv
  <2> SUFFICES ASSUME NEW q \in Procs
               PROVE  Cardinality(descriptors'[q]) = Cardinality(held'[q]) + Cardinality(Calls(q)')
    BY DEF UsersCounted
  <2>2. Cardinality(descriptors[q]) = Cardinality(held[q]) + Cardinality(Calls(q))
    BY DEF FlockInv, UsersCounted
  <2>3. CASE q = p
    BY <1>3, <2>1, <2>2, <2>3, Counts DEF FlockInv
  <2>4. CASE q # p
    BY <1>3, <1>4, <1>5, <2>2, <2>4
  <2> QED
    BY <2>3, <2>4
<1>10. OneAtATime'
  BY <1>2, <1>3, <1>4, <1>5 DEF FlockInv, OneAtATime
<1>11. TableSound'
  BY <1>3 DEF FlockInv, TableSound, Granted, Conflicting, ReleasedBy, Compatible, LockType
<1>12. HeldInTable'
  <2> SUFFICES ASSUME NEW q \in Procs, Reliable(q), NEW k \in held'[q]
               PROVE  [owner |-> Owner(q, k.fd), mode |-> k.mode] \in table'
    BY <1>3 DEF HeldInTable, Reliable, Owner
  <2>1. CASE k \in held[q]
    BY <1>1, <1>3, <2>1, StaysGranted
  <2>2. CASE k \notin held[q]
    BY <1>3, <1>4, <2>2 DEF Self
  <2> QED
    BY <2>1, <2>2
<1> QED
  BY <1>6, <1>7, <1>8, <1>9, <1>10, <1>11, <1>12 DEF FlockInv

(* A process opens the lock file: a descriptor and a call more.            *)
LEMMA OpenKeeps ==
  ASSUME FlockInv, NEW t \in Threads, Open(t)
  PROVE  FlockInv'
<1> DEFINE p == ProcOf(t)
<1>1. PICK d \in Descriptors \ descriptors[p], mode \in Modes :
        /\ arg' = [arg EXCEPT ![t] = [fd |-> d, mode |-> mode]]
        /\ descriptors' = [descriptors EXCEPT ![p] = @ \cup {d}]
  BY DEF Open
<1>2. /\ pc[t] = "idle" /\ pc' = [pc EXCEPT ![t] = "lock"]
      /\ overlapped' = IF Busy(p) THEN overlapped \cup {p} ELSE overlapped
      /\ platform' = platform /\ held' = held /\ table' = table
  BY DEF Open, Goto
<1>3. p \in Procs /\ t \notin Calls(p) /\ d \in Nat
  BY <1>2, ThreadsOfProcs DEF Calls, Descriptors
<1>4. /\ descriptors'[p] = descriptors[p] \cup {d}
      /\ \A q \in Procs \ {p} : descriptors'[q] = descriptors[q]
      /\ arg'[t].fd = d
      /\ \A u \in Threads \ {t} : arg'[u] = arg[u]
  BY <1>1, <1>3 DEF FlockInv, Types
<1>5. /\ Calls(p)' = Calls(p) \cup {t}
      /\ \A q \in Procs \ {p} : Calls(q)' = Calls(q)
  BY <1>2, <1>3 DEF FlockInv, Types, Calls
<1>6. Types' /\ ModeKnown'
  BY <1>1, <1>2, <1>3 DEF FlockInv, Types, ModeKnown
<1>7. UsersOpen'
  BY <1>2, <1>3, <1>4, <1>5 DEF FlockInv, UsersOpen, Calls
<1>8. UsersDiffer'
  <2>1. /\ \A l \in held[p] : l.fd # d
        /\ \A u \in Calls(p) : arg[u].fd # d
    BY <1>1, <1>3 DEF FlockInv, UsersOpen
  <2> QED
    BY <1>2, <1>3, <1>4, <1>5, <2>1 DEF FlockInv, UsersDiffer, Calls
<1>9. UsersCounted'
  <2>1. /\ Cardinality(descriptors'[p]) = Cardinality(descriptors[p]) + 1
        /\ Cardinality(Calls(p)') = Cardinality(Calls(p)) + 1
    BY <1>1, <1>3, <1>4, <1>5, Finite, OneMore DEF FlockInv
  <2> SUFFICES ASSUME NEW q \in Procs
               PROVE  Cardinality(descriptors'[q]) = Cardinality(held'[q]) + Cardinality(Calls(q)')
    BY DEF UsersCounted
  <2>2. Cardinality(descriptors[q]) = Cardinality(held[q]) + Cardinality(Calls(q))
    BY DEF FlockInv, UsersCounted
  <2>3. CASE q = p
    BY <1>2, <2>1, <2>2, <2>3, Counts DEF FlockInv
  <2>4. CASE q # p
    BY <1>2, <1>4, <1>5, <2>2, <2>4
  <2> QED
    BY <2>3, <2>4
<1>10. OneAtATime'
  <2>1. ~Busy(p) => held[p] = {} /\ Calls(p) = {}
    BY DEF Busy, Calls
  <2> QED
    BY <1>2, <1>3, <1>5, <2>1 DEF FlockInv, OneAtATime
<1>11. TableSound' /\ HeldInTable'
  BY <1>2 DEF FlockInv, TableSound, HeldInTable, Reliable, Owner, Compatible
<1> QED
  BY <1>6, <1>7, <1>8, <1>9, <1>10, <1>11 DEF FlockInv

(* A refused call closes its descriptor: one of each less.                 *)
LEMMA CloseKeeps ==
  ASSUME FlockInv, NEW t \in Threads, Close(t)
  PROVE  FlockInv'
<1> DEFINE p == ProcOf(t)
           d == arg[t].fd
<1>1. /\ pc[t] # "idle" /\ pc' = [pc EXCEPT ![t] = "idle"]
      /\ arg' = [arg EXCEPT ![t] = NoArg]
      /\ descriptors' = [descriptors EXCEPT ![p] = @ \ {d}]
      /\ table' = ReleasedBy(t)
      /\ platform' = platform /\ held' = held /\ overlapped' = overlapped
  BY DEF Close, Return, Goto
<1>2. p \in Procs /\ t \in Calls(p) /\ d \in descriptors[p]
  BY <1>1, Calling
<1>3. /\ descriptors'[p] = descriptors[p] \ {d}
      /\ \A q \in Procs \ {p} : descriptors'[q] = descriptors[q]
      /\ \A u \in Threads \ {t} : arg'[u] = arg[u]
  BY <1>1, <1>2 DEF FlockInv, Types
<1>4. /\ Calls(p)' = Calls(p) \ {t}
      /\ \A q \in Procs \ {p} : Calls(q)' = Calls(q)
  BY <1>1, <1>2 DEF FlockInv, Types, Calls
<1>5. Types' /\ ModeKnown'
  BY <1>1, <1>2 DEF FlockInv, Types, ModeKnown, NoArg, ReleasedBy
<1>6. UsersOpen'
  <2>1. /\ \A l \in held[p] : l.fd # d
        /\ \A u \in Calls(p) \ {t} : arg[u].fd # d
    BY <1>2 DEF FlockInv, UsersDiffer
  <2> QED
    BY <1>1, <1>2, <1>3, <1>4, <2>1 DEF FlockInv, UsersOpen, Calls
<1>7. UsersDiffer'
  BY <1>1, <1>2, <1>3, <1>4 DEF FlockInv, UsersDiffer, Calls
<1>8. UsersCounted'
  <2>1. /\ Cardinality(descriptors'[p]) = Cardinality(descriptors[p]) - 1
        /\ Cardinality(Calls(p)') = Cardinality(Calls(p)) - 1
    BY <1>2, <1>3, <1>4, Finite, OneLess DEF FlockInv
  <2> SUFFICES ASSUME NEW q \in Procs
               PROVE  Cardinality(descriptors'[q]) = Cardinality(held'[q]) + Cardinality(Calls(q)')
    BY DEF UsersCounted
  <2>2. Cardinality(descriptors[q]) = Cardinality(held[q]) + Cardinality(Calls(q))
    BY DEF FlockInv, UsersCounted
  <2>3. CASE q = p
    BY <1>1, <2>1, <2>2, <2>3, Counts DEF FlockInv
  <2>4. CASE q # p
    BY <1>1, <1>3, <1>4, <2>2, <2>4
  <2> QED
    BY <2>3, <2>4
<1>9. OneAtATime'
  BY <1>1, <1>2, <1>4 DEF FlockInv, OneAtATime
<1>10. TableSound'
  BY <1>1 DEF FlockInv, TableSound, ReleasedBy, Compatible
<1>11. HeldInTable'
  <2> SUFFICES ASSUME NEW q \in Procs, Reliable(q), NEW l \in held[q]
               PROVE  [owner |-> Owner(q, l.fd), mode |-> l.mode] \in table'
    BY <1>1 DEF HeldInTable, Reliable, Owner
  <2> QED
    BY <1>1, StaysGranted
<1> QED
  BY <1>5, <1>6, <1>7, <1>8, <1>9, <1>10, <1>11 DEF FlockInv

(* drop turns the user of a descriptor from a Lock into a call.            *)
LEMMA DropKeeps ==
  ASSUME FlockInv, NEW t \in Threads, Drop(t)
  PROVE  FlockInv'
<1> DEFINE p == ProcOf(t)
<1>1. p \in Procs
  BY ThreadsOfProcs
<1>2. PICK l \in held[p] :
        /\ held' = [held EXCEPT ![p] = @ \ {l}]
        /\ arg' = [arg EXCEPT ![t] = [fd |-> l.fd, mode |-> "none"]]
  BY DEF Drop
<1>3. /\ pc[t] = "idle"
      /\ pc' = [pc EXCEPT ![t] = IF platform = "unix" THEN "unlock" ELSE "close"]
      /\ platform' = platform /\ descriptors' = descriptors /\ table' = table
      /\ overlapped' = overlapped
  BY DEF Drop, Goto
<1>4. t \notin Calls(p) /\ l \in Locks
  BY <1>1, <1>2, <1>3 DEF Calls, FlockInv, Types
<1>5. /\ held'[p] = held[p] \ {l}
      /\ \A q \in Procs \ {p} : held'[q] = held[q]
      /\ arg'[t].fd = l.fd
      /\ \A u \in Threads \ {t} : arg'[u] = arg[u]
  BY <1>1, <1>2 DEF FlockInv, Types
<1>6. /\ Calls(p)' = Calls(p) \cup {t}
      /\ \A q \in Procs \ {p} : Calls(q)' = Calls(q)
  BY <1>1, <1>3 DEF FlockInv, Types, Calls
<1>7. Types' /\ ModeKnown'
  BY <1>1, <1>2, <1>3, <1>4 DEF FlockInv, Types, ModeKnown, Locks, Descriptors
<1>8. UsersOpen'
  BY <1>1, <1>2, <1>3, <1>4, <1>5, <1>6 DEF FlockInv, UsersOpen, Calls
<1>9. UsersDiffer'
  BY <1>1, <1>2, <1>3, <1>4, <1>5, <1>6 DEF FlockInv, UsersDiffer, Calls
<1>10. UsersCounted'
  <2>1. /\ Cardinality(held'[p]) = Cardinality(held[p]) - 1
        /\ Cardinality(Calls(p)') = Cardinality(Calls(p)) + 1
    BY <1>1, <1>2, <1>4, <1>5, <1>6, Finite, OneMore, OneLess DEF FlockInv
  <2> SUFFICES ASSUME NEW q \in Procs
               PROVE  Cardinality(descriptors'[q]) = Cardinality(held'[q]) + Cardinality(Calls(q)')
    BY DEF UsersCounted
  <2>2. Cardinality(descriptors[q]) = Cardinality(held[q]) + Cardinality(Calls(q))
    BY DEF FlockInv, UsersCounted
  <2>3. CASE q = p
    BY <1>3, <2>1, <2>2, <2>3, Counts DEF FlockInv
  <2>4. CASE q # p
    BY <1>3, <1>5, <1>6, <2>2, <2>4
  <2> QED
    BY <2>3, <2>4
<1>11. OneAtATime'
  BY <1>1, <1>2, <1>3, <1>5, <1>6 DEF FlockInv, OneAtATime
<1>12. TableSound' /\ HeldInTable'
  BY <1>1, <1>3, <1>5 DEF FlockInv, TableSound, HeldInTable, Reliable, Owner, Compatible
<1> QED
  BY <1>7, <1>8, <1>9, <1>10, <1>11, <1>12 DEF FlockInv

(* The kernel decides, waits or refuses, or unlocks: no descriptor changes *)
(* hands.                                                                  *)
LEMMA OthersKeep ==
  ASSUME FlockInv, NEW t \in Threads, Wait(t) \/ Refused(t) \/ Unlock(t)
  PROVE  FlockInv'
<1>1. /\ pc[t] # "idle"
      /\ \E where \in {"blocked", "close"} : pc' = [pc EXCEPT ![t] = where]
      /\ arg' \in {arg, [arg EXCEPT ![t].mode = "none"]}
      /\ pc'[t] = "blocked" => arg' = arg
      /\ table' \in {table, ReleasedBy(t)}
      /\ platform' = platform /\ held' = held /\ descriptors' = descriptors
      /\ overlapped' = overlapped
  BY DEF Wait, Refused, Unlock, Goto, FlockInv, Types
<1>2. \A q \in Procs : Calls(q)' = Calls(q)
  BY <1>1 DEF FlockInv, Types, Calls
<1>3. \A u \in Threads : arg'[u].fd = arg[u].fd
  BY <1>1 DEF FlockInv, Types
<1>4. Types'
  BY <1>1 DEF FlockInv, Types, ReleasedBy
<1>5. ModeKnown'
  BY DEF FlockInv, Types, ModeKnown, Wait, Refused, Unlock, Goto
<1>6. UsersOpen'
  <2>1. \A q \in Procs : {arg'[u].fd : u \in Calls(q)'} = {arg[u].fd : u \in Calls(q)}
    BY <1>2, <1>3 DEF Calls
  <2> QED
    BY <1>1, <2>1 DEF FlockInv, UsersOpen
<1>7. UsersDiffer'
  BY <1>1, <1>2, <1>3 DEF FlockInv, UsersDiffer, Calls
<1>8. UsersCounted'
  BY <1>1, <1>2 DEF FlockInv, UsersCounted
<1>9. OneAtATime'
  BY <1>1, <1>2 DEF FlockInv, OneAtATime
<1>10. TableSound'
  BY <1>1 DEF FlockInv, TableSound, ReleasedBy, Compatible
<1>11. HeldInTable'
  <2> SUFFICES ASSUME NEW q \in Procs, Reliable(q), NEW l \in held[q]
               PROVE  [owner |-> Owner(q, l.fd), mode |-> l.mode] \in table'
    BY <1>1 DEF HeldInTable, Reliable, Owner
  <2> QED
    BY <1>1, StaysGranted DEF FlockInv, HeldInTable
<1> QED
  BY <1>4, <1>5, <1>6, <1>7, <1>8, <1>9, <1>10, <1>11 DEF FlockInv

(* The kernel takes what a dead process had.                               *)
LEMMA ExitKeeps ==
  ASSUME FlockInv, NEW p \in Procs, Exit(p)
  PROVE  FlockInv'
<1>1. /\ platform' = platform
      /\ table' = {e \in table : e.owner[1] # p}
      /\ overlapped' = overlapped \ {p}
  BY DEF Exit
<1>2. /\ held'[p] = {} /\ descriptors'[p] = {}
      /\ \A q \in Procs \ {p} : held'[q] = held[q] /\ descriptors'[q] = descriptors[q]
      /\ \A t \in Threads : ProcOf(t) # p => pc'[t] = pc[t] /\ arg'[t] = arg[t]
      /\ \A t \in Threads : ProcOf(t) = p => pc'[t] = "idle" /\ arg'[t] = NoArg
  BY DEF Exit, FlockInv, Types
<1>3. /\ Calls(p)' = {}
      /\ \A q \in Procs \ {p} : Calls(q)' = Calls(q)
  BY <1>2 DEF Calls
<1>4. Types' /\ ModeKnown'
  <2>1. Types'
    BY DEF FlockInv, Types, Exit, NoArg
  <2>2. ModeKnown'
    BY <1>2, ThreadsOfProcs DEF FlockInv, ModeKnown
  <2> QED
    BY <2>1, <2>2
<1>5. UsersOpen'
  BY <1>2, <1>3 DEF FlockInv, UsersOpen, Calls
<1>6. UsersDiffer'
  BY <1>2, <1>3 DEF FlockInv, UsersDiffer, Calls
<1>7. UsersCounted'
  <2> SUFFICES ASSUME NEW q \in Procs
               PROVE  Cardinality(descriptors'[q]) = Cardinality(held'[q]) + Cardinality(Calls(q)')
    BY DEF UsersCounted
  <2>1. CASE q = p
    BY <1>2, <1>3, <2>1, FS_EmptySet
  <2>2. CASE q # p
    BY <1>2, <1>3, <2>2 DEF FlockInv, UsersCounted
  <2> QED
    BY <2>1, <2>2
<1>8. OneAtATime'
  BY <1>1, <1>2, <1>3 DEF FlockInv, OneAtATime
<1>9. TableSound'
  BY <1>1 DEF FlockInv, TableSound, Compatible
<1>10. HeldInTable'
  BY <1>1, <1>2 DEF FlockInv, HeldInTable, Reliable, Owner
<1> QED
  BY <1>4, <1>5, <1>6, <1>7, <1>8, <1>9, <1>10 DEF FlockInv

(* It holds at the start.                                                  *)
LEMMA InitEstablishes ==
  ASSUME Init
  PROVE  FlockInv
<1>1. \A p \in Procs : Calls(p) = {}
  BY DEF Init, Calls
<1>2. Types /\ ModeKnown
  BY DEF Init, Types, ModeKnown, NoArg
<1>3. UsersOpen /\ UsersDiffer /\ OneAtATime /\ TableSound /\ HeldInTable
  BY <1>1 DEF Init, UsersOpen, UsersDiffer, OneAtATime, TableSound, HeldInTable
<1>4. UsersCounted
  BY <1>1, FS_EmptySet DEF Init, UsersCounted
<1> QED
  BY <1>2, <1>3, <1>4 DEF FlockInv

(* Every step keeps it.                                                    *)
LEMMA StepKeeps ==
  ASSUME FlockInv, [Next]_vars
  PROVE  FlockInv'
<1>1. CASE UNCHANGED vars
  BY <1>1 DEF vars, FlockInv, Types, ModeKnown, UsersOpen, UsersDiffer, UsersCounted,
     OneAtATime, TableSound, HeldInTable, Calls, Reliable, Owner, Compatible
<1>2. CASE \E t \in Threads : Open(t)
  BY <1>2, OpenKeeps
<1>3. CASE \E t \in Threads : Granted(t)
  BY <1>3, GrantedKeeps
<1>4. CASE \E t \in Threads : Wait(t) \/ Refused(t) \/ Unlock(t)
  BY <1>4, OthersKeep
<1>5. CASE \E t \in Threads : Close(t)
  BY <1>5, CloseKeeps
<1>6. CASE \E t \in Threads : Drop(t)
  BY <1>6, DropKeeps
<1>7. CASE \E p \in Procs : Exit(p)
  BY <1>7, ExitKeeps
<1> QED
  BY <1>1, <1>2, <1>3, <1>4, <1>5, <1>6, <1>7 DEF Next

(* Descriptors, calls, Locks and the table of flock.rs agree.              *)
THEOREM FlockInvariant == Spec => []FlockInv
<1>1. Init => FlockInv
  BY InitEstablishes
<1>2. FlockInv /\ [Next]_vars => FlockInv'
  BY StepKeeps
<1> QED
  BY <1>1, <1>2, PTL DEF Spec

-----------------------------------------------------------------------------
(* A Lock protects its process as long as the process uses one at a time,  *)
(* on Windows always.                                                      *)
THEOREM LocksProtect == Spec => []HolderIsProtected
<1>1. FlockInv => HolderIsProtected
  BY DEF FlockInv, HolderIsProtected, LockHolds, HeldInTable, TableSound, Reliable, Compatible
<1> QED
  BY <1>1, FlockInvariant, PTL

(* Every descriptor of the lock file has exactly one user.                 *)
THEOREM DescriptorsAreAccounted == Spec => []DescriptorsAccounted
<1>1. FlockInv => DescriptorsAccounted
  BY DEF FlockInv, DescriptorsAccounted, UsersOpen, UsersCounted, Calls
<1> QED
  BY <1>1, FlockInvariant, PTL

-----------------------------------------------------------------------------
(* The refinement: what each process holds, as the abstract lock sees it.  *)
ModeOf(locks) == (CHOOSE l \in locks : TRUE).mode

(* The abstract view of a process, case by case.                           *)
LEMMA OwnsOf ==
  ASSUME NEW p \in Procs
  PROVE  /\ p \in overlapped \/ held[p] = {} => Owns[p] = "nothing"
         /\ p \notin overlapped /\ held[p] # {} => Owns[p] = ModeOf(held[p])
BY DEF Owns, ModeOf

(* A process that overlaps or has no Lock owns nothing.                    *)
LEMMA OwnsNothing ==
  ASSUME NEW p \in Procs, p \in overlapped' \/ held'[p] = {}
  PROVE  Owns'[p] = "nothing"
BY DEF Owns

(* The view changes only with overlapped and held.                         *)
LEMMA OwnsSame ==
  ASSUME NEW p \in Procs, held'[p] = held[p], p \in overlapped' <=> p \in overlapped
  PROVE  Owns'[p] = Owns[p]
<1>1. Owns[p] = IF p \in overlapped \/ held[p] = {} THEN "nothing" ELSE ModeOf(held[p])
  BY DEF Owns, ModeOf
<1>2. Owns'[p] = IF p \in overlapped' \/ held'[p] = {} THEN "nothing" ELSE ModeOf(held'[p])
  BY DEF Owns, ModeOf
<1> QED
  BY <1>1, <1>2

(* A view that differs at one process is an update of the old one.         *)
LEMMA OwnsExcept ==
  ASSUME NEW p \in Procs, NEW mode, Owns'[p] = mode,
         \A q \in Procs \ {p} : Owns'[q] = Owns[q]
  PROVE  Owns' = [Owns EXCEPT ![p] = mode]
<1>1. Owns' = [q \in Procs |-> Owns'[q]] /\ Owns = [q \in Procs |-> Owns[q]]
  BY DEF Owns
<1> QED
  BY <1>1

(* The mode of the view is that of a Lock in use.                          *)
LEMMA ModeIsHeld ==
  ASSUME NEW locks, locks # {}
  PROVE  \E l \in locks : ModeOf(locks) = l.mode
BY DEF ModeOf

(* A process whose Locks stay owns what it owned.                          *)
LEMMA OwnsStays ==
  ASSUME UNCHANGED <<held, overlapped>>
  PROVE  Owns' = Owns
BY DEF Owns

(* A grant is an acquisition, unless its process overlaps.                 *)
LEMMA GrantAcquires ==
  ASSUME FlockInv, FlockInv', NEW t \in Threads, Granted(t)
  PROVE  Abstract!RwNext \/ Owns' = Owns
<1> DEFINE p == ProcOf(t)
           l == [fd |-> arg[t].fd, mode |-> arg[t].mode]
<1>1. p \in Procs /\ t \in Calls(p) /\ l.mode \in Modes
  BY Calling DEF Granted, FlockInv, ModeKnown
<1>2. /\ held'[p] = held[p] \cup {l} /\ overlapped' = overlapped
      /\ \A q \in Procs \ {p} : held'[q] = held[q]
  BY <1>1 DEF Granted, FlockInv, Types
<1>3. \A q \in Procs \ {p} : Owns'[q] = Owns[q]
  BY <1>2, OwnsSame
<1>4. CASE p \in overlapped
  <2>1. Owns'[p] = Owns[p]
    BY <1>1, <1>2, <1>4 DEF Owns
  <2> QED
    BY <1>3, <2>1 DEF Owns
<1>5. CASE p \notin overlapped
  <2>1. held[p] = {} /\ held'[p] = {l}
    BY <1>1, <1>2, <1>5 DEF FlockInv, OneAtATime
  <2>2. Owns[p] = "nothing" /\ Owns'[p] = l.mode
    BY <1>1, <1>2, <1>5, <2>1 DEF Owns
  <2>3. Owns' = [Owns EXCEPT ![p] = l.mode]
    BY <1>1, <1>3, <2>2, OwnsExcept
  <2>4. ASSUME NEW q \in Procs \ {p} PROVE Abstract!Compatible(l.mode, Owns[q])
    <3>1. CASE q \in overlapped \/ held[q] = {}
      BY <3>1, OwnsOf DEF Abstract!Compatible
    <3>2. CASE q \notin overlapped /\ held[q] # {}
      <4>1. PICK k \in held[q] : Owns[q] = k.mode
        BY <3>2, OwnsOf, ModeIsHeld
      <4>2. [owner |-> Owner(q, k.fd), mode |-> k.mode] \in table
        BY <3>2 DEF FlockInv, HeldInTable, Reliable
      <4>3. Owner(q, k.fd) # Self(t)
        BY <1>1, OwnersDiffer DEF Self
      <4>4. k.mode = "shared" /\ l.mode = "shared"
        BY <4>2, <4>3 DEF Granted, Conflicting, Compatible, LockType
      <4> QED
        BY <4>1, <4>4 DEF Abstract!Compatible
    <3> QED
      BY <3>1, <3>2
  <2>5. Abstract!Acquire(p, l.mode)
    BY <2>2, <2>3, <2>4 DEF Abstract!Acquire
  <2> QED
    BY <1>1, <2>5 DEF Abstract!RwNext, Modes
<1> QED
  BY <1>4, <1>5

(* What takes a lock away from the abstract view releases it.              *)
LEMMA EndsRelease ==
  ASSUME NEW p \in Procs,
         Owns'[p] = "nothing",
         \A q \in Procs \ {p} : Owns'[q] = Owns[q]
  PROVE  Abstract!RwNext
<1>1. Owns' = [Owns EXCEPT ![p] = "nothing"]
  BY OwnsExcept
<1> QED
  BY <1>1 DEF Abstract!RwNext, Abstract!Release

(* Creating a Lock while another is in use takes that one from the         *)
(* abstract view.                                                          *)
LEMMA OpenReleases ==
  ASSUME FlockInv, NEW t \in Threads, Open(t)
  PROVE  Abstract!RwNext \/ Owns' = Owns
<1> DEFINE p == ProcOf(t)
<1>1. p \in Procs /\ held' = held
  BY ThreadsOfProcs DEF Open
<1>2. CASE overlapped' = overlapped
  BY <1>1, <1>2, OwnsStays
<1>3. CASE overlapped' = overlapped \cup {p}
  <2>1. Owns'[p] = "nothing" /\ \A q \in Procs \ {p} : Owns'[q] = Owns[q]
    BY <1>1, <1>3, OwnsNothing, OwnsSame
  <2> QED
    BY <1>1, <2>1, EndsRelease
<1> QED
  BY <1>2, <1>3 DEF Open

(* drop releases what its process owned, or the view stays.                *)
LEMMA DropReleases ==
  ASSUME FlockInv, NEW t \in Threads, Drop(t)
  PROVE  Abstract!RwNext \/ Owns' = Owns
<1> DEFINE p == ProcOf(t)
<1>1. p \in Procs /\ overlapped' = overlapped
  BY ThreadsOfProcs DEF Drop
<1>2. PICK l \in held[p] : held' = [held EXCEPT ![p] = @ \ {l}]
  BY DEF Drop
<1>3. /\ held'[p] = held[p] \ {l}
      /\ \A q \in Procs \ {p} : held'[q] = held[q]
  BY <1>1, <1>2 DEF FlockInv, Types
<1>4. p \in overlapped \/ held'[p] = {}
  BY <1>1, <1>3 DEF FlockInv, OneAtATime
<1>5. Owns'[p] = "nothing" /\ \A q \in Procs \ {p} : Owns'[q] = Owns[q]
  BY <1>1, <1>3, <1>4, OwnsNothing, OwnsSame
<1> QED
  BY <1>1, <1>5, EndsRelease

(* A process that dies releases what it owned.                             *)
LEMMA ExitReleases ==
  ASSUME FlockInv, NEW p \in Procs, Exit(p)
  PROVE  Abstract!RwNext
<1>1. /\ held'[p] = {} /\ overlapped' = overlapped \ {p}
      /\ \A q \in Procs \ {p} : held'[q] = held[q]
  BY DEF Exit, FlockInv, Types
<1>2. Owns'[p] = "nothing" /\ \A q \in Procs \ {p} : Owns'[q] = Owns[q]
  BY <1>1, OwnsNothing, OwnsSame
<1> QED
  BY <1>2, EndsRelease

(* Between processes that use one Lock at a time, file locks are           *)
(* reader-writer locks.                                                    *)
THEOREM LocksAreRwLocks == Spec => IsRwLock
<1>1. Init => Abstract!RwInit
  BY DEF Init, Abstract!RwInit, Owns
<1>2. ASSUME FlockInv, FlockInv', [Next]_vars PROVE [Abstract!RwNext]_Owns
  <2>1. CASE \E t \in Threads : Open(t)
    BY <1>2, <2>1, OpenReleases
  <2>2. CASE \E t \in Threads : Granted(t)
    BY <1>2, <2>2, GrantAcquires
  <2>3. CASE \E t \in Threads : Drop(t)
    BY <1>2, <2>3, DropReleases
  <2>4. CASE \E p \in Procs : Exit(p)
    BY <1>2, <2>4, ExitReleases
  <2>5. CASE \/ UNCHANGED vars
             \/ \E t \in Threads : Wait(t) \/ Refused(t) \/ Close(t) \/ Unlock(t)
    <3>1. UNCHANGED <<held, overlapped>>
      BY <2>5 DEF vars, Wait, Refused, Close, Unlock
    <3> QED
      BY <3>1, OwnsStays
  <2> QED
    BY <1>2, <2>1, <2>2, <2>3, <2>4, <2>5 DEF Next
<1> QED
  BY <1>1, <1>2, FlockInvariant, PTL DEF Spec, IsRwLock, Abstract!RwSpec

=============================================================================
