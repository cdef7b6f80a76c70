---------------------------- MODULE MCQrtrCtrl ------------------------------
(* Three writers that share a receive queue of two packets.                 *)
EXTENDS QrtrCtrl

CONSTANTS w1, w2, w3

MCWriters == {w1, w2, w3}
=============================================================================
