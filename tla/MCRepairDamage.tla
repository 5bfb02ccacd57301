--------------------------- MODULE MCRepairDamage ---------------------------
(* Two damaged files and no extra files: every way in which slices of a file
   can be lost, displaced, repeated or followed by other data. *)
EXTENDS Par2RepairSeparate, TLC

CONSTANTS a, b, tmp, a1, a2, b1, z

MCFile == {a, b}
MCPath == {a, b, tmp}
MCRank == (a :> 1) @@ (b :> 2)
MCLoaded == MCRank
MCData == (a :> <<a1, a2>>) @@ (b :> <<b1>>)
MCBlock == {a1, a2, b1, z}
MCBackup == [f \in MCFile |-> <<>>]
\* a.x and a.y share one temporary path
MCTemp == [f \in MCFile |-> tmp]
MCExtras == <<>>
MCSingular == {{<<a, 1>>, <<b, 1>>}}

\* Contents up to a cell longer than the protected file
Contents(cells, n) == UNION {[1..k -> cells] : k \in 0..n} \cup {Absent}
MCDisks == {(a :> x) @@ (b :> y) @@ (tmp :> Absent) :
              x \in Contents({a1, a2, Junk}, 3), y \in Contents({b1, Junk}, 2)}

\* The targets are repaired in place, as Par2RepairPromise has it.
ASSUME DamageAssumption == InPlace
=============================================================================
