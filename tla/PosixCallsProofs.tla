--------------------------- MODULE PosixCallsProofs ---------------------------
(***************************************************************************)
(* Proofs about PosixCalls: what its calls promise however many system     *)
(* calls fail or are interrupted, for every size of read and of append.    *)
(***************************************************************************)
EXTENDS PosixCalls, FiniteSetTheorems, TLAPS

(* Which call is being served, and what errno tells of it.                 *)
Stages ==
  /\ pc \in {"idle", "open", "fdopen", "read", "append", "crashed"}
  /\ pc \in {"open", "fdopen"} => last = "open"
  /\ pc \in {"read", "append"} => last = pc

ErrorsInv ==
  /\ Stages
  /\ faults \in Nat
  /\ errno # "none" => faults > 0

(* positioned_append never writes beyond the end of what is there.         *)
AppendsInv ==
  /\ Stages
  /\ disk \in Seq(Nat)
  /\ offset \in Nat /\ left \in Nat /\ data \in Nat
  /\ pc = "append" => data = offset /\ offset <= Len(disk)
  /\ WrittenInPlace

(* The flag of the end only outlasts the call that met it when a read at   *)
(* the end was interrupted; the error flag and errno then say so, and that *)
(* read is repeated, until a second failure.                               *)
EndIsFresh == eof => faults >= 2 \/ (error /\ errno = "EINTR")

(* What holds between the stream, its position and what was handed out.    *)
ReadsInv ==
  /\ ErrorsInv
  /\ AppendsInv
  /\ pos \in Nat /\ pos <= Len(disk)
  /\ NothingLost
  /\ r \in Nat
  /\ eof \in BOOLEAN /\ error \in BOOLEAN /\ sawEnd \in BOOLEAN
  /\ EndIsFresh
  /\ ShortReadIsEnd

(* The stream and the descriptor that new works on are open, and different. *)
DescriptorsInv ==
  /\ Stages
  /\ IsFiniteSet(descriptors)
  /\ opens \in Nat
  /\ pc = "fdopen" => fd \in descriptors /\ fd # file_
  /\ OpenFailsClean

-----------------------------------------------------------------------------
LEMMA Constants ==
  /\ ReadSize \in Nat /\ MaxFaults \in Nat /\ MaxCalls \in Nat
  /\ AppendSizes \subseteq Nat /\ Priorities \subseteq Int
BY PosixCallsAssumption

(* What fread may answer.                                                  *)
LEMMA OutcomesAre ==
  ASSUME pos \in Nat, disk \in Seq(Nat), pos <= Len(disk),
         eof \in BOOLEAN, error \in BOOLEAN, NEW o \in Outcomes
  PROVE  /\ o.r \in Nat /\ pos + o.r <= Len(disk) /\ o.r <= ReadSize
         /\ o.met \in BOOLEAN /\ o.fails \in BOOLEAN
         /\ o.eof = (eof \/ o.met) /\ o.error = (error \/ o.fails)
         /\ ~o.fails => o.errno = errno
         /\ o.fails => o.errno \in {"EINTR", "other"} /\ o.r < ReadSize
         /\ o.met => o.r < ReadSize
         /\ ~o.fails /\ ~o.met => o.r = 0 \/ o.r = ReadSize
<1>1. PICK rest \in Nat : rest = Len(disk) - pos
  <2>1. Len(disk) - pos \in Nat
    OBVIOUS
  <2> QED
    BY <2>1
<1>2. \/ rest >= ReadSize /\ o = Outcome(ReadSize, FALSE, FALSE, errno)
      \/ rest < ReadSize /\ o = Outcome(rest, TRUE, FALSE, errno)
      \/ o = Outcome(0, FALSE, FALSE, errno)
      \/ \E n \in 0..rest, number \in {"EINTR", "other"} :
           n < ReadSize /\ o = Outcome(n, FALSE, TRUE, number)
  <2> DEFINE Failure(n, number) == Outcome(n, FALSE, TRUE, number)
             Short == {m \in 0..rest : m < ReadSize}
             All == IF rest >= ReadSize THEN {Outcome(ReadSize, FALSE, FALSE, errno)}
                                        ELSE {Outcome(rest, TRUE, FALSE, errno)}
             Again == IF eof THEN {Outcome(0, FALSE, FALSE, errno)} ELSE {}
             Failures == {Failure(n, number) : n \in Short, number \in {"EINTR", "other"}}
             Fails == IF faults < MaxFaults THEN Failures ELSE {}
  <2>1. Outcomes = All \cup Again \cup Fails
    BY <1>1 DEF Outcomes
  <2>2. o \in All \/ o \in Again \/ o \in Fails
    <3> HIDE DEF All, Again, Fails
    <3> QED
      BY <2>1
  <2>3. o \in Failures => \E n \in Short, number \in {"EINTR", "other"} : o = Failure(n, number)
    <3> HIDE DEF Short, Failure
    <3> QED
      OBVIOUS
  <2>4. o \in Fails => o \in Failures
    <3> HIDE DEF Failures
    <3> QED
      OBVIOUS
  <2>5. \A n \in Short : n \in 0..rest /\ n < ReadSize
    OBVIOUS
  <2>6. o \in Fails => \E n \in 0..rest, number \in {"EINTR", "other"} :
                        n < ReadSize /\ o = Failure(n, number)
    <3> HIDE DEF Short, Failures, Fails, Failure
    <3> QED
      BY <2>3, <2>4, <2>5
  <2>7. rest >= ReadSize \/ rest < ReadSize
    BY <1>1, Constants
  <2>8. ASSUME o \in All \/ o \in Again
        PROVE  \/ rest >= ReadSize /\ o = Outcome(ReadSize, FALSE, FALSE, errno)
               \/ rest < ReadSize /\ o = Outcome(rest, TRUE, FALSE, errno)
               \/ o = Outcome(0, FALSE, FALSE, errno)
    BY <2>7, <2>8
  <2> HIDE DEF All, Again, Fails
  <2> QED
    BY <2>2, <2>6, <2>8
<1>3. CASE rest >= ReadSize /\ o = Outcome(ReadSize, FALSE, FALSE, errno)
  BY <1>1, <1>3, Constants DEF Outcome
<1>4. CASE rest < ReadSize /\ o = Outcome(rest, TRUE, FALSE, errno)
  BY <1>1, <1>4, Constants DEF Outcome
<1>5. CASE o = Outcome(0, FALSE, FALSE, errno)
  BY <1>1, <1>5, Constants DEF Outcome
<1>6. CASE \E n \in 0..rest, number \in {"EINTR", "other"} :
             n < ReadSize /\ o = Outcome(n, FALSE, TRUE, number)
  <2>1. PICK n \in 0..rest, number \in {"EINTR", "other"} :
          n < ReadSize /\ o = Outcome(n, FALSE, TRUE, number)
    BY <1>6
  <2> QED
    BY <1>1, <2>1, Constants DEF Outcome
<1> QED
  BY <1>2, <1>3, <1>4, <1>5, <1>6

LEMMA StagesStay ==
  ASSUME Stages, [Next]_vars
  PROVE  Stages'
<1> USE DEF Stages, Enter, Answer
<1>1. ASSUME NEW direct \in BOOLEAN, NEW exec \in BOOLEAN, NewFile(direct, exec) PROVE Stages'
  BY <1>1 DEF NewFile
<1>2. CASE ReadFile
  BY <1>2 DEF ReadFile
<1>3. ASSUME NEW at, NEW n, PositionedAppend(at, n) PROVE Stages'
  BY <1>3 DEF PositionedAppend
<1>4. ASSUME NEW pri, set_priority(pri) PROVE Stages'
  BY <1>4 DEF set_priority
<1>5. CASE get_priority \/ Grow
  BY <1>5 DEF get_priority, Grow
<1>6. CASE Open \/ OpenFails \/ Fdopen \/ FdopenFails
  BY <1>6 DEF Open, OpenFails, Fdopen, FdopenFails, Opened
<1>7. CASE Fread \/ Appended \/ Pwrite \/ PwriteNothing
  BY <1>7 DEF Fread, Appended, Pwrite, PwriteNothing
<1>8. CASE UNCHANGED vars
  BY <1>8 DEF vars
<1> QED
  BY <1>1, <1>2, <1>3, <1>4, <1>5, <1>6, <1>7, <1>8 DEF Next, Serve

-----------------------------------------------------------------------------
(* Failures are counted and leave their number in errno.                   *)
LEMMA Faults ==
  ASSUME faults \in Nat, [Next]_vars
  PROVE  /\ faults' \in Nat /\ faults <= faults'
         /\ errno' = errno \/ faults' = faults + 1
<1>1. ASSUME NoFault \/ \E number \in {"EINTR", "other"} : Fault(number)
      PROVE  /\ faults' \in Nat /\ faults <= faults'
             /\ errno' = errno \/ faults' = faults + 1
  BY <1>1 DEF NoFault, Fault
<1>2. CASE Fread
  <2>1. PICK o \in Outcomes : errno' = o.errno /\ faults' = faults + (IF o.fails THEN 1 ELSE 0)
    BY <1>2 DEF Fread
  <2>2. ~o.fails => o.errno = errno
    BY <2>1 DEF Outcomes, Outcome
  <2> QED
    BY <2>1, <2>2
<1>3. CASE ~Fread
  <2>1. NoFault \/ (\E number \in {"EINTR", "other"} : Fault(number)) \/ UNCHANGED <<errno, faults>>
    BY <1>3
    DEF Next, Serve, NewFile, ReadFile, PositionedAppend, set_priority, get_priority, Open,
        OpenFails, Fdopen, FdopenFails, Appended, Pwrite, PwriteNothing, Grow, vars
  <2> QED
    BY <1>1, <2>1 DEF NoFault
<1> QED
  BY <1>2, <1>3

LEMMA ErrorsStay ==
  ASSUME ErrorsInv, [Next]_vars
  PROVE  ErrorsInv'
<1>1. /\ faults' \in Nat /\ faults <= faults' /\ faults \in Nat
      /\ errno' = errno \/ faults' = faults + 1
      /\ errno # "none" => faults > 0
  BY Faults DEF ErrorsInv
<1>2. errno' # "none" => faults' > 0
  BY <1>1
<1>3. Stages'
  BY StagesStay DEF ErrorsInv
<1> QED
  BY <1>1, <1>2, <1>3 DEF ErrorsInv

-----------------------------------------------------------------------------
(* open gives out a descriptor that was free.                              *)
LEMMA DescriptorsStay ==
  ASSUME DescriptorsInv, [Next]_vars
  PROVE  DescriptorsInv'
<1>1. Stages /\ Stages'
  BY StagesStay DEF DescriptorsInv
<1>2. PICK n : n = opens
  OBVIOUS
<1>3. /\ IsFiniteSet(descriptors) /\ n \in Nat
      /\ pc = "fdopen" => fd \in descriptors /\ fd # file_
      /\ Cardinality(descriptors) = n + (IF pc = "fdopen" THEN 1 ELSE 0)
      /\ cloexec \subseteq descriptors
      /\ file_ \in descriptors \cup {null}
  BY <1>2 DEF DescriptorsInv, OpenFailsClean
<1>4. CASE UNCHANGED <<descriptors, cloexec, opens, fd, file_>> /\ (pc' = "fdopen" <=> pc = "fdopen")
  BY <1>1, <1>2, <1>3, <1>4 DEF DescriptorsInv, OpenFailsClean
<1>5. CASE Open
  <2>1. PICK new \in Free : /\ descriptors' = descriptors \cup {new} /\ fd' = new
                            /\ SetFD_CLOEXEC(new)
    BY <1>5 DEF Open
  <2>2. new \notin descriptors /\ new # null
    BY <2>1 DEF Free, null
  <2>3. Cardinality(descriptors) = n /\ pc = "open"
    BY <1>3, <1>5 DEF Open
  <2>4. IsFiniteSet(descriptors') /\ Cardinality(descriptors') = n + 1
    BY <1>3, <2>1, <2>2, <2>3, FS_AddElement
  <2>5. cloexec' \subseteq descriptors'
    BY <1>3, <2>1 DEF SetFD_CLOEXEC
  <2>6. CASE options.use_direct_reads
    <3>1. file_' = null /\ opens' = opens + 1 /\ pc' = "idle"
      BY <1>5, <2>6 DEF Open, Opened, Answer
    <3> QED
      BY <1>1, <1>2, <1>3, <2>4, <2>5, <3>1 DEF DescriptorsInv, OpenFailsClean
  <2>7. CASE ~options.use_direct_reads
    <3>1. file_' = file_ /\ opens' = opens /\ pc' = "fdopen"
      BY <1>5, <2>7 DEF Open
    <3>2. fd' \in descriptors' /\ fd' # file_' /\ file_' \in descriptors' \cup {null}
      BY <1>3, <2>1, <2>2, <3>1
    <3> QED
      BY <1>1, <1>2, <1>3, <2>4, <2>5, <3>1, <3>2 DEF DescriptorsInv, OpenFailsClean
  <2> QED
    BY <2>6, <2>7
<1>6. CASE Fdopen
  <2>1. /\ pc = "fdopen" /\ pc' = "idle" /\ file_' = fd /\ opens' = opens + 1
        /\ descriptors' = descriptors /\ cloexec' = cloexec
    BY <1>6 DEF Fdopen, Opened, Answer
  <2> QED
    BY <1>1, <1>2, <1>3, <2>1 DEF DescriptorsInv, OpenFailsClean
<1>7. CASE FdopenFails
  <2>1. CASE UNCHANGED <<pc, descriptors, cloexec>>
    BY <1>1, <1>4, <1>7, <2>1 DEF FdopenFails
  <2>2. CASE /\ pc' = "idle" /\ descriptors' = descriptors \ {fd} /\ cloexec' = cloexec \ {fd}
    <3>1. fd \in descriptors /\ fd # file_ /\ Cardinality(descriptors) = n + 1
          /\ UNCHANGED <<opens, file_>>
      BY <1>3, <1>7 DEF FdopenFails
    <3>2. IsFiniteSet(descriptors') /\ Cardinality(descriptors') = n
      BY <1>3, <2>2, <3>1, FS_RemoveElement
    <3>3. cloexec' \subseteq descriptors' /\ file_' \in descriptors' \cup {null}
      BY <1>3, <2>2, <3>1
    <3> QED
      BY <1>1, <1>2, <1>3, <2>2, <3>1, <3>2, <3>3 DEF DescriptorsInv, OpenFailsClean
  <2> QED
    BY <1>7, <2>1, <2>2 DEF FdopenFails, Answer
<1>8. CASE ~Open /\ ~Fdopen /\ ~FdopenFails
  BY <1>1, <1>4, <1>8
  DEF Next, Serve, NewFile, ReadFile, PositionedAppend, set_priority, get_priority, OpenFails,
      Fread, Appended, Pwrite, PwriteNothing, Grow, Enter, Answer, openVars, vars
<1> QED
  BY <1>5, <1>6, <1>7, <1>8

(* No failed or interrupted new leaves a descriptor open: there are as     *)
(* many as callers were given and the one that new is working on.          *)
THEOREM FailedOpensAreClean == Spec => []OpenFailsClean
<1>1. Init => DescriptorsInv
  <2> SUFFICES ASSUME Init PROVE DescriptorsInv
    OBVIOUS
  <2>1. IsFiniteSet({}) /\ Cardinality({}) = 0
    BY FS_EmptySet
  <2>2. IsFiniteSet({0}) /\ Cardinality({0}) = 1
    BY FS_Singleton
  <2>3. PICK S \in {{}, {0}} : descriptors = S
    BY DEF Init
  <2>4. IsFiniteSet(S) /\ Cardinality(S) \in Nat
    BY <2>1, <2>2
  <2> QED
    BY <2>3, <2>4 DEF Init, DescriptorsInv, Stages, OpenFailsClean
<1>2. DescriptorsInv /\ [Next]_vars => DescriptorsInv'
  BY DescriptorsStay
<1>3. DescriptorsInv => OpenFailsClean
  BY DEF DescriptorsInv
<1> QED
  BY <1>1, <1>2, <1>3, PTL DEF Spec

-----------------------------------------------------------------------------
(* Writing bytes where they belong, at an offset that is not beyond the    *)
(* end, leaves every byte where it belongs.                                *)
LEMMA OverwriteInPlace ==
  ASSUME NEW d \in Seq(Nat), \A i \in DOMAIN d : d[i] = i,
         NEW at \in Nat, at <= Len(d), NEW n \in Nat, n > 0,
         NEW e, e = Overwrite(d, [i \in 1..n |-> at + i], at)
  PROVE  /\ e \in Seq(Nat)
         /\ Len(d) <= Len(e) /\ at + n <= Len(e)
         /\ \A i \in DOMAIN e : e[i] = i
<1>1. PICK s : s = [i \in 1..n |-> at + i]
  OBVIOUS
<1>2. /\ s \in Seq(Nat) /\ Len(s) = n /\ s # <<>>
      /\ \A i \in 1..n : s[i] = at + i
  <2>1. \A i \in 1..n : at + i \in Nat
    OBVIOUS
  <2>2. s \in Seq(Nat) /\ Len(s) = n
    BY <1>1, <2>1
  <2>3. s # <<>>
    BY <2>2
  <2> QED
    BY <1>1, <2>2, <2>3
<1>3. PICK m \in Nat : /\ m = (IF at + n > Len(d) THEN at + n ELSE Len(d))
                       /\ Len(d) <= m /\ at + n <= m
                       /\ m = Len(d) \/ m = at + n
  <2>1. PICK k \in Nat, l \in Nat : k = at + n /\ l = Len(d)
    <3>1. at + n \in Nat /\ Len(d) \in Nat
      OBVIOUS
    <3> QED
      BY <3>1
  <2>2. CASE k > l
    BY <2>1, <2>2
  <2>3. CASE ~(k > l)
    BY <2>1, <2>3
  <2> QED
    BY <2>2, <2>3
<1>4. e = [i \in 1..m |-> CASE i > at /\ i <= at + n        -> s[i - at]
                            [] i <= at /\ i > Len(d)        -> ZeroByte
                            [] OTHER                        -> d[i]]
  BY <1>1, <1>2, <1>3 DEF Overwrite
<1>5. ASSUME NEW i \in 1..m PROVE e[i] = i /\ i \in Nat
  <2>1. CASE i > at /\ i <= at + n
    <3>1. PICK j \in 1..n : j = i - at
      <4>1. i - at \in 1..n
        BY <2>1
      <4> QED
        BY <4>1
    <3>2. e[i] = s[j]
      BY <1>4, <2>1, <3>1
    <3>3. s[j] = at + j
      BY <1>2
    <3> QED
      BY <3>1, <3>2, <3>3
  <2>2. CASE ~(i > at /\ i <= at + n)
    <3>1. i \in 1..Len(d) /\ ~(i <= at /\ i > Len(d))
      BY <1>3, <2>2
    <3>2. e[i] = d[i]
      BY <1>4, <2>2, <3>1
    <3> QED
      BY <3>1, <3>2
  <2> QED
    BY <2>1, <2>2
<1>6. e = [i \in 1..m |-> i]
  <2>1. DOMAIN e = 1..m
    BY <1>4
  <2> QED
    BY <1>4, <1>5, <2>1
<1>7. e \in Seq(Nat) /\ Len(e) = m /\ DOMAIN e = 1..m
  BY <1>6
<1>8. \A i \in DOMAIN e : e[i] = i
  BY <1>5, <1>7
<1>9. Len(d) <= Len(e) /\ at + n <= Len(e)
  BY <1>3, <1>7
<1> QED
  BY <1>7, <1>8, <1>9, Zenon

LEMMA AppendsStay ==
  ASSUME AppendsInv, [Next]_vars
  PROVE  AppendsInv'
<1>1. Stages /\ Stages'
  BY StagesStay DEF AppendsInv
<1>2. PICK d \in Seq(Nat), o \in Nat, n \in Nat : d = disk /\ o = offset /\ n = left
  BY DEF AppendsInv
<1>3. /\ data \in Nat
      /\ pc = "append" => data = o /\ o <= Len(d)
      /\ \A i \in DOMAIN d : d[i] = i
      /\ pc = "idle" /\ last = "append" /\ answer = "ok" => Len(d) >= o /\ n = 0
  BY <1>2 DEF AppendsInv, WrittenInPlace
<1>4. CASE UNCHANGED <<disk, offset, left, data>> /\ pc' # "append" /\ last' # "append"
  BY <1>1, <1>2, <1>3, <1>4 DEF AppendsInv, WrittenInPlace
<1>5. CASE UNCHANGED <<disk, offset, left, data, pc, last, answer>>
  BY <1>1, <1>2, <1>3, <1>5 DEF AppendsInv, WrittenInPlace
<1>6. ASSUME NEW at \in 0..Len(disk), NEW size \in AppendSizes, PositionedAppend(at, size)
      PROVE  AppendsInv'
  <2>1. at \in Nat /\ at <= Len(d) /\ size \in Nat
    BY <1>2, <1>6, Constants
  <2>2. disk' = d /\ offset' = at /\ data' = at /\ left' = size /\ pc' = "append"
    BY <1>2, <1>6 DEF PositionedAppend, Enter
  <2> QED
    BY <1>1, <1>2, <1>3, <2>1, <2>2 DEF AppendsInv, WrittenInPlace
<1>7. CASE Appended
  BY <1>1, <1>2, <1>3, <1>7 DEF Appended, Answer, appendVars, AppendsInv, WrittenInPlace
<1>8. CASE Pwrite
  <2>1. PICK k \in 1..n : /\ disk' = Overwrite(d, [i \in 1..k |-> data + i], o)
                          /\ data' = data + k /\ offset' = o + k
                          /\ left' = n - k
    BY <1>2, <1>8 DEF Pwrite, Advance
  <2>2. pc = "append" /\ pc' = "append" /\ data = o /\ o <= Len(d) /\ k \in Nat /\ k > 0
    BY <1>3, <1>8 DEF Pwrite
  <2>3. PICK e : e = Overwrite(d, [i \in 1..k |-> o + i], o)
    OBVIOUS
  <2>4. /\ e \in Seq(Nat)
        /\ Len(d) <= Len(e) /\ o + k <= Len(e)
        /\ \A i \in DOMAIN e : e[i] = i
    BY <1>3, <2>2, <2>3, OverwriteInPlace
  <2>5. disk' = e /\ data' = o + k /\ offset' = o + k /\ left' \in Nat /\ o + k \in Nat
    BY <2>1, <2>2, <2>3
  <2> QED
    BY <1>1, <2>2, <2>4, <2>5 DEF AppendsInv, WrittenInPlace
<1>9. CASE PwriteNothing
  <2>1. UNCHANGED <<disk, offset, left, data>> /\ pc = "append"
    BY <1>9 DEF PwriteNothing, appendVars
  <2>2. UNCHANGED <<pc, last, answer>> \/ (pc' = "idle" /\ answer' = "err")
    BY <1>9 DEF PwriteNothing, Answer
  <2> QED
    BY <1>1, <1>2, <1>3, <2>1, <2>2 DEF AppendsInv, WrittenInPlace
<1>10. CASE Grow
  <2>1. disk' = Append(d, Len(d) + 1) /\ UNCHANGED <<offset, left, data, pc, last, answer>>
    BY <1>2, <1>10 DEF Grow, appendVars
  <2>2. PICK e : e = Append(d, Len(d) + 1)
    OBVIOUS
  <2>3. e \in Seq(Nat) /\ Len(e) = Len(d) + 1 /\ \A i \in DOMAIN e : e[i] = i
    BY <1>3, <2>2
  <2> QED
    BY <1>1, <1>2, <1>3, <2>1, <2>2, <2>3 DEF AppendsInv, WrittenInPlace
<1>11. CASE Open \/ OpenFails \/ Fdopen \/ FdopenFails \/ Fread
  <2>1. UNCHANGED <<disk, offset, left, data>> /\ pc \in {"open", "fdopen", "read"}
    BY <1>11 DEF Open, OpenFails, Fdopen, FdopenFails, Fread, appendVars
  <2>2. last' = last
    BY <1>11 DEF Open, OpenFails, Fdopen, FdopenFails, Fread, Opened, Answer
  <2>3. pc' # "append"
    BY <1>1, <2>1, <2>2 DEF Stages
  <2> QED
    BY <1>1, <1>4, <2>1, <2>2, <2>3 DEF Stages
<1>12. ASSUME NEW direct, NEW exec, NewFile(direct, exec) PROVE AppendsInv'
  BY <1>4, <1>12 DEF NewFile, Enter, appendVars
<1>13. CASE ReadFile
  BY <1>4, <1>13 DEF ReadFile, Enter, appendVars
<1>14. ASSUME NEW pri, set_priority(pri) PROVE AppendsInv'
  BY <1>4, <1>14 DEF set_priority, appendVars
<1>15. CASE get_priority
  BY <1>4, <1>15 DEF get_priority, appendVars
<1>16. CASE UNCHANGED vars
  BY <1>5, <1>16 DEF vars, appendVars
<1> QED
  BY <1>6, <1>7, <1>8, <1>9, <1>10, <1>11, <1>12, <1>13, <1>14, <1>15, <1>16 DEF Next, Serve

(* Partial and interrupted writes put every byte where it belongs, and an  *)
(* append that says ok has written all of its bytes.                       *)
THEOREM AppendsAreInPlace == Spec => []WrittenInPlace
<1>1. Init => AppendsInv
  BY DEF Init, AppendsInv, Stages, WrittenInPlace
<1>2. AppendsInv /\ [Next]_vars => AppendsInv'
  BY AppendsStay
<1>3. AppendsInv => WrittenInPlace
  BY DEF AppendsInv
<1> QED
  BY <1>1, <1>2, <1>3, PTL DEF Spec

-----------------------------------------------------------------------------
(* The file never shrinks.                                                 *)
LEMMA DiskGrows ==
  ASSUME AppendsInv, [Next]_vars
  PROVE  disk' \in Seq(Nat) /\ Len(disk) <= Len(disk')
<1>1. disk' \in Seq(Nat) /\ disk \in Seq(Nat)
  BY AppendsStay DEF AppendsInv
<1>2. CASE disk' = disk
  BY <1>1, <1>2
<1>3. CASE Pwrite
  <2>1. PICK d \in Seq(Nat), o \in Nat, n \in Nat : d = disk /\ o = offset /\ n = left
    BY DEF AppendsInv
  <2>2. PICK k \in 1..n : disk' = Overwrite(d, [i \in 1..k |-> data + i], o)
    BY <1>3, <2>1 DEF Pwrite
  <2>3. /\ data = o /\ o <= Len(d) /\ k \in Nat /\ k > 0
        /\ \A i \in DOMAIN d : d[i] = i
    BY <1>3, <2>1 DEF Pwrite, AppendsInv, WrittenInPlace
  <2>4. PICK e : e = Overwrite(d, [i \in 1..k |-> o + i], o)
    OBVIOUS
  <2>5. Len(d) <= Len(e)
    BY <2>3, <2>4, OverwriteInPlace
  <2> QED
    BY <1>1, <2>1, <2>2, <2>3, <2>4, <2>5
<1>4. CASE Grow
  <2>1. PICK d \in Seq(Nat) : d = disk
    BY <1>1
  <2>2. disk' = Append(d, Len(d) + 1)
    BY <1>4, <2>1 DEF Grow
  <2>3. PICK e : e = Append(d, Len(d) + 1)
    OBVIOUS
  <2>4. Len(d) <= Len(e)
    BY <2>3
  <2> QED
    BY <1>1, <2>1, <2>2, <2>3, <2>4
<1>5. CASE ~Pwrite /\ ~Grow
  BY <1>2, <1>5
  DEF Next, Serve, NewFile, ReadFile, PositionedAppend, set_priority, get_priority, Open,
      OpenFails, Fdopen, FdopenFails, Fread, Appended, PwriteNothing, vars
<1> QED
  BY <1>3, <1>4, <1>5

(* What another call does to a read: it may set errno, but then it failed. *)
LEMMA ReadsKept ==
  ASSUME ReadsInv, [Next]_vars, UNCHANGED <<pos, eof, error, delivered>>,
         r' \in Nat, sawEnd' \in BOOLEAN,
         \/ UNCHANGED <<pc, last, answer, r, sawEnd>>
         \/ pc' # "idle"
         \/ last' # "read"
  PROVE  ReadsInv'
<1>1. ErrorsInv' /\ AppendsInv'
  BY ErrorsStay, AppendsStay DEF ReadsInv
<1>2. disk \in Seq(Nat) /\ disk' \in Seq(Nat) /\ Len(disk) <= Len(disk')
  BY DiskGrows DEF ReadsInv, AppendsInv
<1>3. /\ faults \in Nat /\ faults' \in Nat /\ faults <= faults'
      /\ errno' = errno \/ faults' = faults + 1
      /\ errno # "none" => faults > 0
  BY Faults DEF ReadsInv, ErrorsInv
<1>4. EndIsFresh'
  <2>1. "EINTR" # "none"
    OBVIOUS
  <2>2. eof' = eof /\ error' = error /\ (eof => faults >= 2 \/ (error /\ errno = "EINTR"))
    BY DEF ReadsInv, EndIsFresh
  <2>3. CASE eof /\ faults >= 2
    BY <1>3, <2>3 DEF EndIsFresh
  <2>4. CASE eof /\ error /\ errno = "EINTR"
    <3>1. faults > 0
      BY <1>3, <2>1, <2>4
    <3>2. faults' >= 2 \/ errno' = "EINTR"
      BY <1>3, <2>4, <3>1
    <3> QED
      BY <2>2, <2>4, <3>2 DEF EndIsFresh
  <2>5. CASE ~eof
    BY <2>2, <2>5 DEF EndIsFresh
  <2> QED
    BY <2>2, <2>3, <2>4, <2>5
<1>5. ShortReadIsEnd'
  <2>1. faults' < 2 => faults < 2
    BY <1>3
  <2>2. ShortReadIsEnd
    BY DEF ReadsInv
  <2> QED
    BY <2>1, <2>2 DEF ShortReadIsEnd
<1>6. pos' \in Nat /\ pos' <= Len(disk') /\ NothingLost'
  <2>1. PICK p \in Nat, l \in Nat, m \in Nat : p = pos /\ l = Len(disk) /\ m = Len(disk')
    <3>1. pos \in Nat /\ Len(disk) \in Nat /\ Len(disk') \in Nat
      BY <1>2 DEF ReadsInv
    <3> QED
      BY <3>1
  <2>2. pos' = p /\ p <= l /\ l <= m
    BY <1>2, <2>1 DEF ReadsInv
  <2>3. NothingLost'
    BY DEF ReadsInv, NothingLost
  <2> QED
    BY <2>1, <2>2, <2>3
<1> QED
  BY <1>1, <1>4, <1>5, <1>6 DEF ReadsInv

(* fread and what read makes of its answer.                                *)
LEMMA FreadKeepsReads ==
  ASSUME ReadsInv, Fread
  PROVE  ReadsInv'
<1>1. ErrorsInv' /\ AppendsInv'
  BY ErrorsStay, AppendsStay DEF ReadsInv, Next, Serve
<1>2. /\ ErrorsInv /\ faults \in Nat /\ (errno # "none" => faults > 0)
      /\ disk \in Seq(Nat) /\ pos \in Nat /\ pos <= Len(disk) /\ pos = delivered
      /\ eof \in BOOLEAN /\ error \in BOOLEAN /\ sawEnd \in BOOLEAN
      /\ eof => faults >= 2 \/ (error /\ errno = "EINTR")
  BY DEF ReadsInv, ErrorsInv, AppendsInv, NothingLost, EndIsFresh
<1>3. PICK o \in Outcomes :
         /\ errno' = o.errno
         /\ faults' = faults + (IF o.fails THEN 1 ELSE 0)
         /\ r' = o.r
         /\ pos' = pos + o.r
         /\ sawEnd' = (sawEnd \/ o.met)
         /\ IF Retries(o)
            THEN /\ eof' = o.eof /\ error' = o.error
                 /\ UNCHANGED <<pc, last, answer, delivered>>
            ELSE /\ delivered' = delivered + o.r
                 /\ FlagsAfter(o)
                 /\ Answer(IF o.r < ReadSize /\ ~AtEnd(o) THEN "err" ELSE "ok")
  BY DEF Fread
<1>4. /\ o.r \in Nat /\ pos + o.r <= Len(disk) /\ o.r <= ReadSize
      /\ o.met \in BOOLEAN /\ o.fails \in BOOLEAN
      /\ o.eof = (eof \/ o.met) /\ o.error = (error \/ o.fails)
      /\ ~o.fails => o.errno = errno
      /\ o.fails => o.errno \in {"EINTR", "other"} /\ o.r < ReadSize
      /\ o.met => o.r < ReadSize
      /\ ~o.fails /\ ~o.met => o.r = 0 \/ o.r = ReadSize
  BY <1>2, OutcomesAre
<1>5. pos' \in Nat /\ pos' <= Len(disk') /\ r' \in Nat
  <2>1. disk' = disk
    BY DEF Fread
  <2> QED
    BY <1>2, <1>3, <1>4, <2>1
<1>6. sawEnd' \in BOOLEAN /\ eof' \in BOOLEAN /\ error' \in BOOLEAN
  <2>1. o.eof \in BOOLEAN /\ o.error \in BOOLEAN
    BY <1>2, <1>4
  <2> QED
    BY <1>3, <2>1, <1>2, <1>4 DEF FlagsAfter
<1>7. PICK f \in Nat, p \in Nat, n \in Nat, size \in Nat :
         f = faults /\ p = pos /\ n = o.r /\ size = ReadSize
  BY <1>2, <1>4, Constants
<1>8. /\ o.fails => faults' = f + 1
      /\ ~o.fails => faults' = f
  BY <1>3, <1>7
<1>9. CASE Retries(o)
  <2>1. n = 0 /\ o.error /\ o.errno = "EINTR" /\ pc' = "read"
    BY <1>3, <1>7, <1>9 DEF Retries, Fread
  <2>2. NothingLost'
    BY <1>2, <1>3, <1>7, <1>9, <2>1 DEF NothingLost
  <2>3. EndIsFresh'
    BY <1>3, <1>9, <2>1 DEF EndIsFresh
  <2>4. ShortReadIsEnd'
    BY <2>1 DEF ShortReadIsEnd
  <2> QED
    BY <1>1, <1>5, <1>6, <2>2, <2>3, <2>4 DEF ReadsInv
<1>10. CASE ~Retries(o)
  <2>1. /\ delivered' = delivered + o.r
        /\ eof' = (o.eof /\ ~AtEnd(o)) /\ error' = (o.error /\ ~AtEnd(o))
        /\ answer' = IF o.r < ReadSize /\ ~AtEnd(o) THEN "err" ELSE "ok"
    BY <1>3, <1>10 DEF FlagsAfter, Answer
  <2>2. NothingLost'
    BY <1>2, <1>3, <1>7, <2>1 DEF NothingLost
  <2>3. EndIsFresh'
    <3>1. SUFFICES ASSUME eof' PROVE faults' >= 2 \/ (error' /\ errno' = "EINTR")
      BY DEF EndIsFresh
    <3>2. o.eof /\ ~AtEnd(o) /\ ~(n < size)
      BY <1>7, <2>1, <3>1 DEF AtEnd
    <3>3. ~o.fails /\ ~o.met
      BY <1>4, <1>7, <3>2
    <3>4. eof /\ o.error = error /\ o.errno = errno
      BY <1>2, <1>4, <3>2, <3>3
    <3>5. faults' = f /\ errno' = errno
      BY <1>3, <1>8, <3>3, <3>4
    <3>6. error => error'
      BY <2>1, <3>2, <3>4
    <3> QED
      BY <1>2, <1>7, <3>4, <3>5, <3>6
  <2>4. ShortReadIsEnd'
    <3>1. SUFFICES ASSUME faults' < 2, answer' = "ok", r' < ReadSize PROVE sawEnd'
      BY DEF ShortReadIsEnd
    <3>2. n < size /\ o.eof
      <4>1. n < size
        BY <1>3, <1>7, <3>1
      <4>2. "ok" # "err"
        OBVIOUS
      <4> QED
        BY <1>7, <2>1, <3>1, <4>1, <4>2 DEF AtEnd
    <3>3. SUFFICES ASSUME ~o.met PROVE FALSE
      BY <1>3, <1>4
    <3>4. eof
      BY <1>4, <3>2, <3>3
    <3>5. f < 2
      BY <1>7, <1>8, <3>1, <1>4
    <3>6. error /\ errno = "EINTR"
      BY <1>2, <1>7, <3>4, <3>5
    <3>7. ~o.fails
      <4>1. "EINTR" # "none"
        OBVIOUS
      <4>2. f > 0
        BY <1>2, <1>7, <3>6, <4>1
      <4> QED
        BY <1>7, <1>8, <3>1, <4>2
    <3>8. n = 0 /\ o.error /\ o.errno = "EINTR"
      BY <1>4, <1>7, <3>2, <3>3, <3>6, <3>7
    <3> QED
      BY <1>7, <1>10, <3>8 DEF Retries
  <2> QED
    BY <1>1, <1>5, <1>6, <2>2, <2>3, <2>4 DEF ReadsInv
<1> QED
  BY <1>9, <1>10

LEMMA ReadsStay ==
  ASSUME ReadsInv, [Next]_vars
  PROVE  ReadsInv'
<1>1. /\ ErrorsInv' /\ AppendsInv'
      /\ Stages
      /\ disk' \in Seq(Nat)
      /\ r \in Nat /\ sawEnd \in BOOLEAN
  BY ErrorsStay, AppendsStay, DiskGrows DEF ReadsInv, ErrorsInv
<1>2. ASSUME UNCHANGED readVars,
             UNCHANGED <<pc, last, answer>> \/ pc' # "idle" \/ last' # "read"
      PROVE  ReadsInv'
  BY <1>1, <1>2, ReadsKept DEF readVars
<1>3. ASSUME NEW file, Opened(file), pc \in {"open", "fdopen"} PROVE ReadsInv'
  <2>1. /\ pos' = 0 /\ delivered' = 0 /\ eof' = FALSE /\ error' = FALSE
        /\ r' = r /\ sawEnd' = sawEnd /\ last' = last
    BY <1>3 DEF Opened, Answer
  <2>2. last' # "read"
    BY <1>1, <1>3, <2>1 DEF Stages
  <2>3. 0 <= Len(disk')
    BY <1>1
  <2>4. NothingLost' /\ EndIsFresh' /\ ShortReadIsEnd'
    BY <2>1, <2>2 DEF NothingLost, EndIsFresh, ShortReadIsEnd
  <2> QED
    BY <1>1, <2>1, <2>3, <2>4 DEF ReadsInv
<1>4. CASE Open
  <2>1. CASE options.use_direct_reads
    BY <1>3, <1>4, <2>1 DEF Open
  <2>2. CASE ~options.use_direct_reads
    BY <1>2, <1>4, <2>2 DEF Open
  <2> QED
    BY <2>1, <2>2
<1>5. CASE OpenFails \/ FdopenFails
  <2>1. UNCHANGED readVars /\ last' = last /\ pc \in {"open", "fdopen"}
    BY <1>5 DEF OpenFails, FdopenFails, Answer
  <2>2. last' # "read"
    BY <1>1, <2>1 DEF Stages
  <2> QED
    BY <1>2, <2>1, <2>2
<1>6. CASE Fdopen
  BY <1>3, <1>6 DEF Fdopen
<1>7. CASE Fread
  BY <1>7, FreadKeepsReads
<1>8. CASE Appended \/ Pwrite \/ PwriteNothing
  <2>1. UNCHANGED readVars /\ last' = last /\ pc = "append"
    BY <1>8 DEF Appended, Pwrite, PwriteNothing, Answer
  <2>2. last' # "read"
    BY <1>1, <2>1 DEF Stages
  <2> QED
    BY <1>2, <2>1, <2>2
<1>9. ASSUME NEW direct, NEW exec, NewFile(direct, exec) PROVE ReadsInv'
  BY <1>2, <1>9 DEF NewFile, Enter
<1>10. CASE ReadFile
  <2>1. UNCHANGED <<pos, eof, error, delivered>> /\ r' = 0 /\ sawEnd' = FALSE /\ pc' # "idle"
    BY <1>10 DEF ReadFile, Enter
  <2> QED
    BY <2>1, ReadsKept
<1>11. ASSUME NEW at, NEW n, PositionedAppend(at, n) PROVE ReadsInv'
  BY <1>2, <1>11 DEF PositionedAppend, Enter
<1>12. ASSUME NEW pri, set_priority(pri) PROVE ReadsInv'
  BY <1>2, <1>12 DEF set_priority
<1>13. CASE get_priority
  BY <1>2, <1>13 DEF get_priority
<1>14. CASE Grow
  BY <1>2, <1>14 DEF Grow
<1>15. CASE UNCHANGED vars
  BY <1>2, <1>15 DEF vars
<1> QED
  BY <1>4, <1>5, <1>6, <1>7, <1>8, <1>9, <1>10, <1>11, <1>12, <1>13, <1>14, <1>15 DEF Next, Serve

(* The inductive invariant of reading.                                     *)
LEMMA ReadsHold == Spec => []ReadsInv
<1>1. ASSUME Init PROVE ReadsInv
  <2>1. ErrorsInv
    BY <1>1 DEF Init, ErrorsInv, Stages
  <2>2. AppendsInv
    BY <1>1 DEF Init, AppendsInv, Stages, WrittenInPlace
  <2>3. NothingLost /\ EndIsFresh /\ ShortReadIsEnd
    BY <1>1 DEF Init, NothingLost, EndIsFresh, ShortReadIsEnd
  <2>4. pos \in Nat /\ pos <= Len(disk) /\ r \in Nat
    BY <1>1 DEF Init
  <2> QED
    BY <1>1, <2>1, <2>2, <2>3, <2>4 DEF Init, ReadsInv
<1>2. ReadsInv /\ [Next]_vars => ReadsInv'
  BY ReadsStay
<1> QED
  BY <1>1, <1>2, PTL DEF Spec

(* What read hands out, from one call to the next and across failed and    *)
(* interrupted ones, is the file from its start without a gap.             *)
THEOREM ReadsLoseNothing == Spec => []NothingLost
<1>1. ReadsInv => NothingLost
  BY DEF ReadsInv
<1> QED
  BY <1>1, ReadsHold, PTL

(* A read that says ok with less than it was asked for met the end of the  *)
(* file itself, as long as fewer than two system calls have failed.        *)
THEOREM ShortReadsMetTheEnd == Spec => []ShortReadIsEnd
<1>1. ReadsInv => ShortReadIsEnd
  BY DEF ReadsInv
<1> QED
  BY <1>1, ReadsHold, PTL

=============================================================================
