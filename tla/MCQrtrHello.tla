---------------------------- MODULE MCQrtrHello -----------------------------
(* Two servers, registered before, during or after the handshake.           *)
EXTENDS QrtrHello

MCServers == {"s1", "s2"}
=============================================================================
