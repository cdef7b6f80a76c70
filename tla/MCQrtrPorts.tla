---------------------------- MODULE MCQrtrPorts -----------------------------
(* Three sockets and two ports, the lower one for s1 only.                  *)
EXTENDS QrtrPorts

CONSTANTS s1, s2, s3

MCThree == {s1, s2, s3}
=============================================================================
