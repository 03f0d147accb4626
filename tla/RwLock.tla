-------------------------------- MODULE RwLock --------------------------------
(***************************************************************************)
(* What a file lock promises: any number of processes hold it shared, or   *)
(* one of them holds it exclusively.                                       *)
(***************************************************************************)
CONSTANT Procs

VARIABLE owns    \* what each process holds: "nothing", "shared" or "exclusive"

Compatible(a, b) == "exclusive" \in {a, b} => "nothing" \in {a, b}

RwInit == owns = [p \in Procs |-> "nothing"]

Acquire(p, mode) ==
  /\ owns[p] = "nothing"
  /\ \A q \in Procs \ {p} : Compatible(mode, owns[q])
  /\ owns' = [owns EXCEPT ![p] = mode]

Release(p) == owns' = [owns EXCEPT ![p] = "nothing"]

RwNext ==
  \E p \in Procs : Release(p) \/ \E mode \in {"shared", "exclusive"} : Acquire(p, mode)

RwSpec == RwInit /\ [][RwNext]_owns

=============================================================================
