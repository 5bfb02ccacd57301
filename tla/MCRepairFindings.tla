-------------------------- MODULE MCRepairFindings --------------------------
(* Situations in which the repair command does not do what the comments and
   the documentation of the repository say of it. *)
EXTENDS Par2RepairProperties, TLC

CONSTANTS a, b, x, aBak, bBak, tmp, a1, b1, z

MCFile == {a, b}
MCPath == {a, b, x, aBak, bBak, tmp}
MCRank == (a :> 2) @@ (b :> 1)
MCLoaded == (a :> 1) @@ (b :> 2)
MCBlock == {a1, b1, z}
MCBackup == (a :> <<aBak>>) @@ (b :> <<bBak>>)
MCTemp == [f \in MCFile |-> tmp]

MCData == (a :> <<a1>>) @@ (b :> <<b1>>)
\* b starts with the block of a
MCShares == (a :> <<a1>>) @@ (b :> <<a1, b1>>)

OneExtra == <<x>>
NoExtras == <<>>

Contents == UNION {[1..k -> {a1, b1, Junk}] : k \in 0..2} \cup {Absent}
MCDisks == {[p \in MCPath |-> CASE p = a -> c [] p = b -> d [] p = x -> e
                                [] OTHER -> Absent] :
              c \in Contents, d \in Contents, e \in Contents}
\* a is missing and b is in place
OneMissing == {[p \in MCPath |-> IF p = b THEN MCShares[b] ELSE Absent]}
=============================================================================
