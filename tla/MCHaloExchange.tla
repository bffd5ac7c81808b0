--------------------------- MODULE MCHaloExchange ---------------------------
(* Five elements in a row on three tasks, two halo layers.  The ends of the  *)
(* row are neighbours in the second layer only, and only in one direction.   *)
EXTENDS HaloExchange, TLC

MCOwned == (0 :> {1, 2}) @@ (1 :> {3}) @@ (2 :> {4, 5})
MCHalo == (0 :> << {3}, {4} >>) @@ (1 :> << {2, 4}, {1, 5} >>) @@ (2 :> << {3}, {} >>)
MCLayers == [u |-> {1}, w |-> {1, 2}, v |-> {2}]
MCInner  == [u |-> 2, w |-> 1, v |-> 1]
MCProgram == << <<"u", "w">>, <<"v">>, <<"u", "w">> >>
=============================================================================
