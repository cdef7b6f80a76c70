----------------------------- MODULE MCQrtrFlow -----------------------------
(* Small instances of QrtrFlow for TLC. *)
EXTENDS QrtrFlow
=============================================================================
