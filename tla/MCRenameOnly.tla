---------------------------- MODULE MCRenameOnly ----------------------------
(* The -O option: two empty files, which are the same, and a third one; two
   extra files; targets may be in the way of the renames. *)
EXTENDS Par2RepairSeparate, TLC

CONSTANTS a, b, c, x, y, bak1, bak2, bak3, tmp, s1, c1

MCFile == {a, b, c}
MCPath == {a, b, c, x, y, bak1, bak2, bak3, tmp}
MCRank == (a :> 2) @@ (b :> 1) @@ (c :> 3)
MCLoaded == (a :> 1) @@ (b :> 3) @@ (c :> 2)
MCData == (a :> <<>>) @@ (b :> <<>>) @@ (c :> <<c1, s1>>)
MCBlock == {s1, c1}
\* a.1, b.1 and c.1, c.2; a file may already lie at the first choice
MCBackup == (a :> <<bak1>>) @@ (b :> <<bak2>>) @@ (c :> <<bak2, bak3>>)
MCTemp == [f \in MCFile |-> tmp]
MCExtras == <<x, y>>

MCDisks == {[p \in MCPath |->
               CASE p = a -> d.a [] p = b -> d.b [] p = c -> d.c
                 [] p = x -> d.x [] p = y -> d.y [] OTHER -> Absent] :
              d \in [a : {Absent, <<>>, <<c1>>, <<c1, s1>>},
                     b : {Absent, <<>>, <<Junk>>},
                     c : {Absent, <<c1, s1>>, <<s1, c1>>, <<c1, s1, Junk>>},
                     x : {Absent, <<>>, <<c1, s1>>, <<c1, Junk>>},
                     y : {Absent, <<>>, <<c1, s1>>, <<s1, c1>>}]}
=============================================================================
