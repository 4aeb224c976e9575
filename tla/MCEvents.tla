------------------------------ MODULE MCEvents ------------------------------
(* Watchpoints that end with their doubleword, cross its end, at the null    *)
(* address, and of an odd address; a control word of the client's own that  *)
(* watches a whole doubleword.                                             *)
EXTENDS Events

MCWatches == {<<4, 4>>, <<6, 4>>, <<0, 4>>, <<9, 1>>}
MCCtls == {[access |-> {"load"}, bytes |-> 0..7]}
=============================================================================
