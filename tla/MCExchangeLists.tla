--------------------------- MODULE MCExchangeLists ---------------------------
(* Meshes of one to three tasks, one of them with two blocks, for TLC. *)
EXTENDS ExchangeLists

Mesh(owned, needed) ==
    [owned  |-> [p \in 0 .. Len(owned) - 1 |-> owned[p + 1]],
     needed |-> [p \in 0 .. Len(needed) - 1 |-> needed[p + 1]]]

\* Three tasks of one block and one element, which may need any of the others.
SmallMeshes ==
    {Mesh(<< << <<2>> >>, << <<3>> >>, << <<1>> >> >>, << <<a>>, <<b>>, <<c>> >>) :
       a \in {<<>>, <<3>>, <<1, 3>>}, b \in {<<1>>, <<2, 1>>}, c \in {<<>>, <<3, 2>>}}

BlockMeshes ==
    { Mesh(<< << <<2, 1>>, <<5>> >>, << <<3>> >>, << <<6, 4>> >> >>,
           << << <<3, 5>>, <<4, 6, 2>> >>, << <<4, 2, 5>> >>, << <<5, 3, 1>> >> >>),
      Mesh(<< << <<3, 1>>, <<2>> >>, << <<4>>, <<5>> >> >>,
           << << <<5, 2, 4>>, <<1, 5>> >>, << <<5, 2>>, <<4, 2, 3>> >> >>),
      Mesh(<< << <<1>>, <<2>> >> >>, << << <<2>>, <<1, 2>> >> >>) }

MCMeshes == SmallMeshes \cup BlockMeshes
=============================================================================
