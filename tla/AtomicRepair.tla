---------------------------- MODULE AtomicRepair ----------------------------
(***************************************************************************)
(* What a repair promises of the protected files, apart from how it works: *)
(* a target changes only by becoming whole, in one step, whatever fails    *)
(* and whenever the process is killed; and success is announced only when  *)
(* no block of the set is missing any more.                                *)
(***************************************************************************)
EXTENDS Integers, Sequences

CONSTANTS File, Data, Absent

VARIABLES
  target,  \* protected file -> its content, or Absent
  report   \* last result announced

promise == <<target, report>>

Holds(f) ==
  /\ target[f] # Absent
  /\ \A i \in DOMAIN Data[f] :
       \E p \in DOMAIN target[f] : target[f][p] = Data[f][i]

Mend(f) ==
  /\ target' = [target EXCEPT ![f] = Data[f]]
  /\ UNCHANGED report

Announce(result) ==
  /\ result \in {"success", "not_needed"} => \A f \in File : Holds(f)
  /\ report' = result
  /\ UNCHANGED target

PromiseInit == report = "none"
PromiseNext ==
  \/ \E f \in File : Mend(f)
  \/ \E result \in {"none", "success", "not_needed", "failed", "error"} :
       Announce(result)

Promise == PromiseInit /\ [][PromiseNext]_promise
=============================================================================
