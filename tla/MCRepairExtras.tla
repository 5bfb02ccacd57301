--------------------------- MODULE MCRepairExtras ---------------------------
(* Two files and an extra one, with purge: blocks lie in their own file, in
   the other file, in the extra file or nowhere; the extra file may be a
   wrong-name copy of either target.  b ends in a block of zeros, which
   reconstruction supplies by itself.  Both blocks of a may be found where
   they are not read from while one of b is missing: two wrong inputs, whose
   errors can cancel out. *)
EXTENDS Par2RepairSeparate, TLC

CONSTANTS a, b, x, aBak, bBak, aTmp, bTmp, a1, a2, b1, z

MCFile == {a, b}
MCPath == {a, b, x, aBak, bBak, aTmp, bTmp}
MCRank == (a :> 2) @@ (b :> 1)
MCLoaded == MCRank
MCData == (a :> <<a1, a2>>) @@ (b :> <<b1, z>>)
MCBlock == {a1, a2, b1, z}
MCBackup == (a :> <<aBak>>) @@ (b :> <<bBak>>)
MCTemp == (a :> aTmp) @@ (b :> bTmp)
MCExtras == <<x>>
MCMiscomputed == {a1, Junk}

MCSingular == {{<<a, 1>>, <<a, 2>>}}

OfA == {Absent, <<>>, <<a1, a2>>, <<a1, Junk>>, <<b1, a2>>}
OfB == {Absent, <<b1>>, <<Junk>>, <<b1, z>>, <<Junk, z>>, <<a1, z>>,
        <<a1, a2>>, <<a2, b1>>}
OfX == {Absent, <<b1>>, <<Junk>>, <<a1, a2>>, <<a2, a1>>, <<a2, Junk>>,
        <<b1, z>>, <<b1, a2>>}
MCDisks == {[p \in MCPath |-> CASE p = a -> c [] p = b -> d [] p = x -> e
                                [] OTHER -> Absent] :
              c \in OfA, d \in OfB, e \in OfX}
=============================================================================
