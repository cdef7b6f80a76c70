----------------------------- MODULE MCGunyahVm -----------------------------
(* Bounds are given in the configurations.                                  *)
EXTENDS GunyahVm
=============================================================================
