----------------------------- MODULE PacketFifo -----------------------------
(***************************************************************************)
(* What a transport owes the router (struct qrtr_endpoint in               *)
(* net/qrtr/qrtr.h): packets given to xmit reach qrtr_endpoint_post on the *)
(* other side whole, once and in order.  xmit may refuse a packet after a  *)
(* while.  Once the transport is spoilt nothing is promised any more.      *)
(***************************************************************************)
EXTENDS Naturals, Sequences

CONSTANT Packets

VARIABLES sent, posted, spoilt

Init == sent = <<>> /\ posted = <<>> /\ spoilt = FALSE

Xmit == /\ Len(sent') = Len(sent) + 1
        /\ SubSeq(sent', 1, Len(sent)) = sent
        /\ sent'[Len(sent) + 1] \in Packets
        /\ UNCHANGED <<posted, spoilt>>

Refuse == /\ Len(posted) < Len(sent)
          /\ sent' = SubSeq(sent, 1, Len(sent) - 1)
          /\ UNCHANGED <<posted, spoilt>>

Deliver == /\ Len(posted) < Len(sent)
           /\ posted' = Append(posted, sent[Len(posted) + 1])
           /\ UNCHANGED <<sent, spoilt>>

Spoilt == spoilt'

Next == Xmit \/ Refuse \/ Deliver \/ Spoilt

Spec == Init /\ [][Next]_<<sent, posted, spoilt>>
=============================================================================
