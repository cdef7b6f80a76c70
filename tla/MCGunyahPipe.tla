---------------------------- MODULE MCGunyahPipe ----------------------------
(* A ring of five words, of which three may be used; packets may be longer. *)
EXTENDS GunyahPipe

MCSizes == {3, 5}
=============================================================================
