--------------------------- MODULE QrtrFlowProofs ---------------------------
(***************************************************************************)
(* Invariance proofs for QrtrFlow, for any number of sockets and any       *)
(* watermarks.                                                             *)
(***************************************************************************)
EXTENDS QrtrFlow, FiniteSetTheorems, TLAPS

\* A queue that gains a packet keeps the confirmations it holds.
LEMMA AppendConfirming ==
  ASSUME NEW q \in Seq({0, 1}), NEW b \in {0, 1}
  PROVE  Confirming(Append(q, b)) <=> Confirming(q) \/ b = 1
<1>1. /\ Append(q, b) \in Seq({0, 1})
      /\ DOMAIN Append(q, b) = 1..Len(q) + 1
      /\ \A i \in 1..Len(q) : Append(q, b)[i] = q[i]
      /\ Append(q, b)[Len(q) + 1] = b
      /\ DOMAIN q = 1..Len(q) /\ Len(q) \in Nat
  OBVIOUS
<1>2. \A i : i \in 1..Len(q) + 1 <=> i \in 1..Len(q) \/ i = Len(q) + 1
  BY <1>1
<1> QED  BY <1>1, <1>2, Zenon DEF Confirming

\* Taking the head of a queue loses at most the confirmation of the head.
LEMMA TailConfirming ==
  ASSUME NEW q \in Seq({0, 1}), q # <<>>, Confirming(q)
  PROVE  Head(q) = 1 \/ Confirming(Tail(q))
<1>1. PICK i \in DOMAIN q : q[i] = 1  BY DEF Confirming
<1>2. CASE i = 1  BY <1>1, <1>2
<1>3. CASE i # 1
  <2>1. i - 1 \in DOMAIN Tail(q) /\ Tail(q)[i - 1] = q[i]
    BY <1>3, <1>1
  <2> QED  BY <2>1, <1>1, Zenon DEF Confirming
<1> QED  BY <1>2, <1>3, Zenon

\* The flow is allocated before any thread waits on it and lives as long as the
\* node; a freed node has no threads inside qrtr_node_enqueue.
FlowLife ==
  /\ ~flow => pending = 0 /\ ~tx_failed /\ waiters = {}
  /\ \A s \in Senders : pc[s] \in Evaluating \cup {"sleep"} => flow
  /\ link = "gone" => ~flow /\ \A s \in Senders : pc[s] = "idle"

\* The steps of qrtr_node_enqueue, and of everything else, one by one.
LEMMA NextCases ==
  ASSUME Next
  PROVE  \/ \E s \in Senders, b \in BOOLEAN : Enqueue(s, b)
         \/ \E s \in Senders : LookupFlow(s) \/ LookupFlowFails(s)
         \/ \E s \in Senders : WaitDone(s) \/ WaitSleep(s) \/ WaitGivesUp(s)
         \/ \E s \in Senders : Xmit(s) \/ XmitFails(s) \/ TxFlowFailed(s)
         \/ \E s \in Senders : Interrupt(s)
         \/ TxResume \/ ResumeDropped
         \/ RemotePost \/ RemoteDrop \/ RemoteRecv \/ RemotePeek \/ RemoteClose
         \/ Unregister \/ UnregisterWakes \/ NodeRelease \/ Register
  BY ZenonT(40) DEF Next, Thread, Remote

\* Type correctness: in particular pending stays between 0 and
\* QRTR_TX_FLOW_HIGH whatever the senders, the workers and the link do.
LEMMA TypeStep == TypeOK /\ [Next]_vars => TypeOK'
<1> SUFFICES ASSUME TypeOK, [Next]_vars PROVE TypeOK'
  BY Zenon
<1> USE FlowAssumption DEF TypeOK, PCs, Events
<1>1. ASSUME NEW s \in Senders, NEW b \in BOOLEAN, Enqueue(s, b) PROVE TypeOK'
  BY <1>1, Zenon DEF Enqueue, Goto, flowVars, remoteVars
<1>2. ASSUME NEW s \in Senders, LookupFlow(s) PROVE TypeOK'
  BY <1>2, Zenon DEF LookupFlow, Goto, remoteVars
<1>3. ASSUME NEW s \in Senders, LookupFlowFails(s) PROVE TypeOK'
  BY <1>3, Zenon DEF LookupFlowFails, Goto, flowVars, remoteVars
<1>4. ASSUME NEW s \in Senders, WaitDone(s) PROVE TypeOK'
  <2>1. pending' \in 0..High
    <3>1. CASE pending' = pending  BY <3>1
    <3>2. CASE pending < High /\ pending' = pending + 1  BY <3>2
    <3> QED  BY <1>4, <3>1, <3>2, Zenon DEF WaitDone, WaitCondition
  <2>4. /\ tx_failed' \in BOOLEAN
        /\ UNCHANGED <<link, flow, waiters, wire, rxq, resumes, events>>
    BY <1>4, Zenon DEF WaitDone, remoteVars
  <2>2. pc' \in [Senders -> PCs]
    BY <1>4, Zenon DEF WaitDone, Goto, Return
  <2>3. dontwait' \in [Senders -> BOOLEAN] /\ confirm_rx' \in [Senders -> {0, 1}]
    BY ZenonT(30), <1>4 DEF WaitDone, Return
  <2> QED  BY <2>1, <2>2, <2>3, <2>4, Zenon
<1>5. ASSUME NEW s \in Senders, WaitSleep(s) PROVE TypeOK'
  BY <1>5, Zenon DEF WaitSleep, Goto, flowVars, remoteVars
<1>6. ASSUME NEW s \in Senders, WaitGivesUp(s) PROVE TypeOK'
  BY <1>6, Zenon DEF WaitGivesUp, Goto, Return, remoteVars
<1>7. ASSUME NEW s \in Senders, Interrupt(s) PROVE TypeOK'
  BY <1>7, Zenon DEF Interrupt, Goto, flowVars, remoteVars
<1>8. ASSUME NEW s \in Senders, Xmit(s) PROVE TypeOK'
  BY <1>8 DEF Xmit, Goto, Return, flowVars
<1>9. ASSUME NEW s \in Senders, XmitFails(s) PROVE TypeOK'
  BY ZenonT(30), <1>9 DEF XmitFails, Goto, Return, flowVars, remoteVars
<1>10. ASSUME NEW s \in Senders, TxFlowFailed(s) PROVE TypeOK'
  BY <1>10, Zenon DEF TxFlowFailed, Goto, Return, remoteVars
<1>11. CASE TxResume
  <2>1. pending' \in 0..High /\ resumes' \in Nat
    BY <1>11 DEF TxResume
  <2>2. /\ pc' \in [Senders -> PCs] /\ waiters' \subseteq Senders /\ events' \subseteq Events
        /\ UNCHANGED <<link, flow, tx_failed, dontwait, confirm_rx, wire, rxq>>
    BY <1>11, Zenon DEF TxResume, Wake
  <2> QED  BY <2>1, <2>2, Zenon
<1>12. CASE ResumeDropped
  BY <1>12 DEF ResumeDropped, flowVars, senderVars
<1>13. CASE RemotePost
  BY <1>13 DEF RemotePost, flowVars, senderVars
<1>14. CASE RemoteDrop
  BY <1>14 DEF RemoteDrop, flowVars, senderVars
<1>15. CASE RemoteRecv
  <2>1. resumes' \in Nat /\ events' \subseteq Events
    <3>1. CASE SendResume
      <4>1. CASE resumes' = resumes + 1 /\ events' = events  BY <4>1
      <4>2. CASE resumes' = resumes /\ events' = events \cup {"remote"}
        BY <4>2, Zenon
      <4> QED  BY <3>1, <4>1, <4>2, Zenon DEF SendResume
    <3>2. CASE UNCHANGED <<resumes, events>>  BY <3>2
    <3> QED  BY <1>15, <3>1, <3>2, Zenon DEF RemoteRecv
  <2> QED  BY <1>15, <2>1 DEF RemoteRecv, flowVars, senderVars
<1>16. CASE RemotePeek
  BY <1>16 DEF RemotePeek, flowVars, senderVars
<1>17. CASE RemoteClose
  BY <1>17 DEF RemoteClose, flowVars, senderVars
<1>18. CASE Unregister
  BY <1>18, Zenon DEF Unregister, flowVars, senderVars, remoteVars
<1>19. CASE UnregisterWakes
  <2>1. pc' \in [Senders -> PCs]
    BY <1>19, Zenon DEF UnregisterWakes, Wake
  <2> QED  BY <1>19, <2>1, Zenon DEF UnregisterWakes, flowVars, remoteVars
<1>20. CASE NodeRelease
  <2>1. events' \subseteq Events  BY <1>20 DEF NodeRelease
  <2>2. wire' \in Seq({0, 1})  BY <1>20 DEF NodeRelease
  <2>3. /\ link' = "gone" /\ flow' = FALSE /\ pending' = 0 /\ tx_failed' = FALSE
        /\ waiters' = {} /\ resumes' = 0
        /\ UNCHANGED <<pc, dontwait, confirm_rx, rxq>>
    BY <1>20, Zenon DEF NodeRelease, senderVars
  <2>4. /\ pending' \in 0..High /\ waiters' \subseteq Senders
        /\ resumes' \in Nat
    BY <2>3
  <2>5. /\ flow' \in BOOLEAN /\ tx_failed' \in BOOLEAN
        /\ link' \in {"up", "cleared", "woken", "gone"}
    BY ZenonT(30), <2>3
  <2>6. UNCHANGED <<pc, dontwait, confirm_rx, rxq>>  BY <2>3
  <2> QED  BY <2>1, <2>2, <2>4, <2>5, <2>6
<1>21. CASE Register
  BY <1>21, Zenon DEF Register, flowVars, senderVars, remoteVars
<1>22. CASE UNCHANGED vars
  BY <1>22, Zenon DEF vars, flowVars, senderVars, remoteVars
<1> QED
  BY NextCases, <1>1, <1>2, <1>3, <1>4, <1>5, <1>6, <1>7, <1>8, <1>9, <1>10, <1>11, <1>12, <1>13, <1>14, <1>15, <1>16, <1>17, <1>18, <1>19, <1>20, <1>21, <1>22

\* Senders keep the node referenced, so flow and threads end before it does.
LEMMA FlowLifeStep == TypeOK /\ FlowLife /\ [Next]_vars => FlowLife'
<1> SUFFICES ASSUME TypeOK, FlowLife, [Next]_vars PROVE FlowLife'
  BY Zenon
<1> USE DEF TypeOK, FlowLife, Evaluating
<1>1. ASSUME NEW s \in Senders, NEW b \in BOOLEAN, Enqueue(s, b) PROVE FlowLife'
  BY <1>1, Zenon DEF Enqueue, Goto, flowVars, remoteVars
<1>2. ASSUME NEW s \in Senders, LookupFlow(s) PROVE FlowLife'
  BY <1>2, Zenon DEF LookupFlow, Goto, remoteVars
<1>3. ASSUME NEW s \in Senders, LookupFlowFails(s) PROVE FlowLife'
  BY <1>3, Zenon DEF LookupFlowFails, Goto, flowVars, remoteVars
<1>4. ASSUME NEW s \in Senders, WaitDone(s) PROVE FlowLife'
  BY <1>4, Zenon DEF WaitDone, WaitCondition, Goto, Return, remoteVars
<1>5. ASSUME NEW s \in Senders, WaitSleep(s) PROVE FlowLife'
  BY <1>5, Zenon DEF WaitSleep, WaitCondition, Goto, flowVars, remoteVars
<1>6. ASSUME NEW s \in Senders, WaitGivesUp(s) PROVE FlowLife'
  BY <1>6, Zenon DEF WaitGivesUp, Goto, Return, remoteVars
<1>7. ASSUME NEW s \in Senders, Interrupt(s) PROVE FlowLife'
  BY <1>7, Zenon DEF Interrupt, Goto, flowVars, remoteVars
<1>8. ASSUME NEW s \in Senders, Xmit(s) PROVE FlowLife'
  BY <1>8, Zenon DEF Xmit, Goto, Return, flowVars
<1>9. ASSUME NEW s \in Senders, XmitFails(s) PROVE FlowLife'
  BY <1>9 DEF XmitFails, Goto, Return, flowVars, remoteVars
<1>10. ASSUME NEW s \in Senders, TxFlowFailed(s) PROVE FlowLife'
  BY <1>10, Zenon DEF TxFlowFailed, Goto, Return, remoteVars
<1>11. CASE TxResume
  BY <1>11, Zenon DEF TxResume, Wake
<1>12. CASE ResumeDropped
  BY <1>12, Zenon DEF ResumeDropped, flowVars, senderVars
<1>13. CASE RemotePost
  BY <1>13, Zenon DEF RemotePost, flowVars, senderVars
<1>14. CASE RemoteDrop
  BY <1>14, Zenon DEF RemoteDrop, flowVars, senderVars
<1>15. CASE RemoteRecv
  BY <1>15, Zenon DEF RemoteRecv, SendResume, flowVars, senderVars
<1>16. CASE RemotePeek
  BY <1>16, Zenon DEF RemotePeek, flowVars, senderVars
<1>17. CASE RemoteClose
  BY <1>17, Zenon DEF RemoteClose, flowVars, senderVars
<1>18. CASE Unregister
  BY <1>18, Zenon DEF Unregister, flowVars, senderVars, remoteVars
<1>19. CASE UnregisterWakes
  BY <1>19, Zenon DEF UnregisterWakes, Wake, flowVars, remoteVars
<1>20. CASE NodeRelease
  BY <1>20, Zenon DEF NodeRelease, senderVars
<1>21. CASE Register
  BY <1>21, Zenon DEF Register, flowVars, senderVars, remoteVars
<1>22. CASE UNCHANGED vars
  BY <1>22, Zenon DEF vars, flowVars, senderVars, remoteVars
<1> QED
  BY NextCases, <1>1, <1>2, <1>3, <1>4, <1>5, <1>6, <1>7, <1>8, <1>9, <1>10,
     <1>11, <1>12, <1>13, <1>14, <1>15, <1>16, <1>17, <1>18, <1>19, <1>20,
     <1>21, <1>22

\* The counter falls only together with a wake-up of every sleeper.
LEMMA NoMissedWakeupStep ==
  TypeOK /\ FlowLife /\ NoMissedWakeup /\ [Next]_vars => NoMissedWakeup'
<1> SUFFICES ASSUME TypeOK, FlowLife, NoMissedWakeup, [Next]_vars
             PROVE  NoMissedWakeup'
  BY Zenon
<1> USE FlowAssumption DEF TypeOK, FlowLife, Evaluating, NoMissedWakeup, ep
<1>1. ASSUME NEW s \in Senders, NEW b \in BOOLEAN, Enqueue(s, b) PROVE NoMissedWakeup'
  BY <1>1, Zenon DEF Enqueue, Goto, flowVars, remoteVars
<1>2. ASSUME NEW s \in Senders, LookupFlow(s) PROVE NoMissedWakeup'
  BY <1>2, Zenon DEF LookupFlow, Goto, remoteVars
<1>3. ASSUME NEW s \in Senders, LookupFlowFails(s) PROVE NoMissedWakeup'
  BY <1>3, Zenon DEF LookupFlowFails, Goto, flowVars, remoteVars
<1>4. ASSUME NEW s \in Senders, WaitDone(s) PROVE NoMissedWakeup'
  BY <1>4 DEF WaitDone, WaitCondition, Goto, Return, remoteVars
<1>5. ASSUME NEW s \in Senders, WaitSleep(s) PROVE NoMissedWakeup'
  BY <1>5 DEF WaitSleep, WaitCondition, Goto, flowVars, remoteVars
<1>6. ASSUME NEW s \in Senders, WaitGivesUp(s) PROVE NoMissedWakeup'
  BY <1>6, Zenon DEF WaitGivesUp, Goto, Return, remoteVars
<1>7. ASSUME NEW s \in Senders, Interrupt(s) PROVE NoMissedWakeup'
  BY <1>7, Zenon DEF Interrupt, Goto, flowVars, remoteVars
<1>8. ASSUME NEW s \in Senders, Xmit(s) PROVE NoMissedWakeup'
  BY <1>8, Zenon DEF Xmit, Goto, Return, flowVars
<1>9. ASSUME NEW s \in Senders, XmitFails(s) PROVE NoMissedWakeup'
  BY <1>9, Zenon DEF XmitFails, Goto, Return, flowVars, remoteVars
<1>10. ASSUME NEW s \in Senders, TxFlowFailed(s) PROVE NoMissedWakeup'
  BY <1>10, Zenon DEF TxFlowFailed, Goto, Return, remoteVars
<1>11. CASE TxResume
  BY <1>11, Zenon DEF TxResume, Wake
<1>12. CASE ResumeDropped
  BY <1>12, Zenon DEF ResumeDropped, flowVars, senderVars
<1>13. CASE RemotePost
  BY <1>13, Zenon DEF RemotePost, flowVars, senderVars
<1>14. CASE RemoteDrop
  BY <1>14, Zenon DEF RemoteDrop, flowVars, senderVars
<1>15. CASE RemoteRecv
  BY <1>15, Zenon DEF RemoteRecv, SendResume, flowVars, senderVars
<1>16. CASE RemotePeek
  BY <1>16, Zenon DEF RemotePeek, flowVars, senderVars
<1>17. CASE RemoteClose
  BY <1>17, Zenon DEF RemoteClose, flowVars, senderVars
<1>18. CASE Unregister
  BY <1>18, Zenon DEF Unregister, flowVars, senderVars, remoteVars
<1>19. CASE UnregisterWakes
  BY <1>19, Zenon DEF UnregisterWakes, Wake, flowVars, remoteVars
<1>20. CASE NodeRelease
  BY <1>20, Zenon DEF NodeRelease, senderVars
<1>21. CASE Register
  BY <1>21, Zenon DEF Register, flowVars, senderVars, remoteVars
<1>22. CASE UNCHANGED vars
  BY <1>22, Zenon DEF vars, flowVars, senderVars, remoteVars
<1> QED
  BY NextCases, <1>1, <1>2, <1>3, <1>4, <1>5, <1>6, <1>7, <1>8, <1>9, <1>10,
     <1>11, <1>12, <1>13, <1>14, <1>15, <1>16, <1>17, <1>18, <1>19, <1>20,
     <1>21, <1>22

\* A confirmation moves on, or leaves the tx_failed mark, at every step.
LEMMA ConfirmNotLostStep ==
  TypeOK /\ FlowLife /\ ConfirmNotLost /\ [Next]_vars => ConfirmNotLost'
<1> SUFFICES ASSUME TypeOK, FlowLife, ConfirmNotLost, [Next]_vars
             PROVE  ConfirmNotLost'
  BY Zenon
<1> USE FlowAssumption
    DEF TypeOK, FlowLife, Evaluating, ConfirmNotLost, ConfirmUnderWay, ep
<1>1. ASSUME NEW s \in Senders, NEW b \in BOOLEAN, Enqueue(s, b) PROVE ConfirmNotLost'
  BY <1>1, Zenon DEF Enqueue, Goto, flowVars, remoteVars
<1>2. ASSUME NEW s \in Senders, LookupFlow(s) PROVE ConfirmNotLost'
  BY <1>2, Zenon DEF LookupFlow, Goto, remoteVars
<1>3. ASSUME NEW s \in Senders, LookupFlowFails(s) PROVE ConfirmNotLost'
  BY <1>3, Zenon DEF LookupFlowFails, Goto, flowVars, remoteVars
<1>4. ASSUME NEW s \in Senders, WaitDone(s) PROVE ConfirmNotLost'
  BY <1>4 DEF WaitDone, WaitCondition, Goto, Return, remoteVars
<1>5. ASSUME NEW s \in Senders, WaitSleep(s) PROVE ConfirmNotLost'
  BY <1>5, Zenon DEF WaitSleep, WaitCondition, Goto, flowVars, remoteVars
<1>6. ASSUME NEW s \in Senders, WaitGivesUp(s) PROVE ConfirmNotLost'
  BY <1>6, Zenon DEF WaitGivesUp, Goto, Return, remoteVars
<1>7. ASSUME NEW s \in Senders, Interrupt(s) PROVE ConfirmNotLost'
  BY <1>7, Zenon DEF Interrupt, Goto, flowVars, remoteVars
<1>8. ASSUME NEW s \in Senders, Xmit(s) PROVE ConfirmNotLost'
  <2>1. Confirming(wire') <=> Confirming(wire) \/ confirm_rx[s] = 1
    BY <1>8, AppendConfirming, Zenon DEF Xmit
  <2> QED  BY <1>8, <2>1, Zenon DEF Xmit, Goto, Return, flowVars
<1>9. ASSUME NEW s \in Senders, XmitFails(s) PROVE ConfirmNotLost'
  BY <1>9, Zenon DEF XmitFails, Goto, Return, flowVars, remoteVars
<1>10. ASSUME NEW s \in Senders, TxFlowFailed(s) PROVE ConfirmNotLost'
  BY <1>10 DEF TxFlowFailed, Goto, Return, remoteVars
<1>11. CASE TxResume
  BY <1>11 DEF TxResume, Wake
<1>12. CASE ResumeDropped
  BY <1>12, Zenon DEF ResumeDropped, flowVars, senderVars
<1>13. CASE RemotePost
  <2>1. Confirming(wire) => Head(wire) = 1 \/ Confirming(wire')
    BY <1>13, TailConfirming, Zenon DEF RemotePost
  <2>2. Confirming(rxq') <=> Confirming(rxq) \/ Head(wire) = 1
    BY <1>13, AppendConfirming DEF RemotePost
  <2> QED  BY <1>13, <2>1, <2>2, Zenon DEF RemotePost, flowVars, senderVars
<1>14. CASE RemoteDrop
  <2>1. Confirming(wire) => Head(wire) = 1 \/ Confirming(wire')
    BY <1>14, TailConfirming, Zenon DEF RemoteDrop
  <2> QED  BY <1>14, <2>1, Zenon DEF RemoteDrop, flowVars, senderVars
<1>15. CASE RemoteRecv
  <2>1. Confirming(rxq) => Head(rxq) = 1 \/ Confirming(rxq')
    BY <1>15, TailConfirming, Zenon DEF RemoteRecv
  <2>2. CASE resumes' = resumes + 1 \/ "remote" \in events'
    BY <2>2
  <2>3. CASE Head(rxq) # 1 /\ UNCHANGED <<resumes, events>>
    BY <1>15, <2>1, <2>3, Zenon DEF RemoteRecv, flowVars, senderVars
  <2> QED  BY <1>15, <2>2, <2>3, Zenon DEF RemoteRecv, SendResume
<1>16. CASE RemotePeek
  BY <1>16 DEF RemotePeek, flowVars, senderVars
<1>17. CASE RemoteClose
  BY <1>17, Zenon DEF RemoteClose, flowVars, senderVars
<1>18. CASE Unregister
  BY <1>18, Zenon DEF Unregister, flowVars, senderVars, remoteVars
<1>19. CASE UnregisterWakes
  BY <1>19, Zenon DEF UnregisterWakes, Wake, flowVars, remoteVars
<1>20. CASE NodeRelease
  BY <1>20, Zenon DEF NodeRelease, senderVars
<1>21. CASE Register
  BY <1>21 DEF Register, flowVars, senderVars, remoteVars
<1>22. CASE UNCHANGED vars
  BY <1>22, Zenon DEF vars, flowVars, senderVars, remoteVars
<1> QED
  BY ZenonT(30), NextCases, <1>1, <1>2, <1>3, <1>4, <1>5, <1>6, <1>7, <1>8, <1>9, <1>10,
     <1>11, <1>12, <1>13, <1>14, <1>15, <1>16, <1>17, <1>18, <1>19, <1>20,
     <1>21, <1>22

\* The invariants hold when the endpoint has just been registered.
LEMMA InitInvariants ==
  ASSUME Init
  PROVE  TypeOK /\ FlowLife /\ NoMissedWakeup /\ ConfirmNotLost
<1>1. TypeOK
  <2>1. wire \in Seq({0, 1}) /\ rxq \in Seq({0, 1})  BY DEF Init
  <2>2. pending \in 0..High  BY FlowAssumption DEF Init
  <2> QED  BY ZenonT(30), <2>1, <2>2 DEF Init, TypeOK, PCs, Events
<1>2. FlowLife  BY DEF Init, FlowLife, Evaluating
<1>3. NoMissedWakeup  BY DEF Init, NoMissedWakeup
<1>4. ConfirmNotLost  BY FlowAssumption DEF Init, ConfirmNotLost
<1> QED  BY <1>1, <1>2, <1>3, <1>4, Zenon

\* Type correctness of the flow, the threads and the queues, for any number of
\* sockets; the counter of qrtr_tx_wait never passes the high watermark.
THEOREM FlowTyped == Spec => []TypeOK
<1>1. Init => TypeOK  BY InitInvariants
<1> QED  BY <1>1, TypeStep, PTL DEF Spec

\* qrtr_tx_resume and qrtr_endpoint_unregister never leave a transmitter
\* asleep on a flow that has room or on a node without an endpoint.
THEOREM WakeupsNotMissed == Spec => []NoMissedWakeup
<1> DEFINE IInv == TypeOK /\ FlowLife /\ NoMissedWakeup
<1>1. Init => IInv  BY InitInvariants
<1>2. IInv /\ [Next]_vars => IInv'
  BY TypeStep, FlowLifeStep, NoMissedWakeupStep, Zenon
<1> QED  BY <1>1, <1>2, PTL DEF Spec

\* Past the low watermark a confirmation is under way unless the remote side
\* lost it: no interleaving of senders and no failed transmission loses it.
THEOREM ConfirmationsNotLost == Spec => []ConfirmNotLost
<1> DEFINE IInv == TypeOK /\ FlowLife /\ ConfirmNotLost
<1>1. Init => IInv  BY InitInvariants
<1>2. IInv /\ [Next]_vars => IInv'
  BY TypeStep, FlowLifeStep, ConfirmNotLostStep, Zenon
<1> QED  BY <1>1, <1>2, PTL DEF Spec

-----------------------------------------------------------------------------
(* The backlog of the remote port *)

\* The threads that hold a packet, and those whose packet asks to be confirmed.
Busy == {s \in Senders : pc[s] \in {"xmit", "failed"}}
Asking == {s \in Busy : confirm_rx[s] = 1}

OnceIn(q) == \A i, j \in DOMAIN q : q[i] = 1 /\ q[j] = 1 => i = j

\* At most one request for a confirmation is under way, and only past the low
\* watermark.
Token ==
  /\ \A s \in Senders : pc[s] = "failed" => s \in Asking
  /\ \A s, t \in Asking : s = t
  /\ OnceIn(wire) /\ OnceIn(rxq) /\ resumes <= 1
  /\ tx_failed => Asking = {}
  /\ tx_failed \/ Asking # {} => ~ Confirming(wire)
  /\ tx_failed \/ Asking # {} \/ Confirming(wire) => ~ Confirming(rxq)
  /\ tx_failed \/ Asking # {} \/ Confirming(wire) \/ Confirming(rxq) => resumes = 0
  /\ tx_failed \/ Asking # {} \/ Confirming(wire) \/ Confirming(rxq) \/ resumes > 0
       => flow /\ pending >= Low

\* n packets and those in hand are no more than follow the packet that asks.
Behind(n) == n + Cardinality(Busy) <= Cardinality(Senders) - 1 + pending - Low

\* What is unread or in hand, and what of it is behind the packet that asks to be
\* confirmed, or was when that was read.
Room ==
  /\ Len(wire) + Len(rxq) + Cardinality(Busy) + (IF tx_failed THEN 1 ELSE 0)
       <= Cardinality(Senders) - 1 + pending + High - Low
  /\ \A i \in DOMAIN wire : wire[i] = 1 => Behind(Len(wire) - i)
  /\ \A i \in DOMAIN rxq : rxq[i] = 1 => Behind(Len(wire) + Len(rxq) - i)
  /\ resumes > 0 => Behind(Len(wire) + Len(rxq))

Paced == "unpaced" \notin events => Token /\ Room

\* A queue that gains a packet at its end, or loses the one at its head, holds the
\* others where they were or one place nearer to the head.
LEMMA AppendPlaces ==
  ASSUME NEW q \in Seq({0, 1}), NEW b \in {0, 1}
  PROVE  /\ Append(q, b) \in Seq({0, 1}) /\ Len(Append(q, b)) = Len(q) + 1
         /\ \A i \in DOMAIN Append(q, b) :
              \/ i \in DOMAIN q /\ Append(q, b)[i] = q[i]
              \/ i = Len(q) + 1 /\ Append(q, b)[i] = b
<1>1. /\ Append(q, b) \in Seq({0, 1}) /\ Len(Append(q, b)) = Len(q) + 1
      /\ \A i \in 1..Len(q) : Append(q, b)[i] = q[i]
      /\ Append(q, b)[Len(q) + 1] = b
      /\ DOMAIN Append(q, b) = 1..Len(q) + 1
      /\ DOMAIN q = 1..Len(q) /\ Len(q) \in Nat
  OBVIOUS
<1>2. \A i : i \in 1..Len(q) + 1 => i \in 1..Len(q) \/ i = Len(q) + 1
  BY <1>1
<1> QED  BY <1>1, <1>2, Zenon

\* The places of a queue after its head was taken.
LEMMA TailPlaces ==
  ASSUME NEW q \in Seq({0, 1}), q # <<>>
  PROVE  /\ Tail(q) \in Seq({0, 1}) /\ Len(Tail(q)) = Len(q) - 1
         /\ Len(q) \in Nat /\ Len(q) >= 1
         /\ 1 \in DOMAIN q /\ q[1] = Head(q) /\ Head(q) \in {0, 1}
         /\ \A i \in DOMAIN Tail(q) :
              i \in Nat /\ i >= 1 /\ i + 1 \in DOMAIN q /\ Tail(q)[i] = q[i + 1]
<1>1. /\ Tail(q) \in Seq({0, 1}) /\ Len(Tail(q)) = Len(q) - 1
      /\ Len(q) \in Nat /\ Len(q) >= 1
      /\ DOMAIN q = 1..Len(q) /\ DOMAIN Tail(q) = 1..Len(q) - 1
  OBVIOUS
<1>2. q[1] = Head(q) /\ Head(q) \in {0, 1}
  OBVIOUS
<1>3. \A i \in 1..Len(q) - 1 : i + 1 \in 1..Len(q) /\ Tail(q)[i] = q[i + 1]
  BY <1>1
<1> QED  BY <1>1, <1>2, <1>3

\* What is left of a queue with one confirmation, when its head is taken.
LEMMA OnceTail ==
  ASSUME NEW q \in Seq({0, 1}), q # <<>>, OnceIn(q)
  PROVE  OnceIn(Tail(q)) /\ (Confirming(Tail(q)) => Confirming(q) /\ Head(q) # 1)
<1>1. /\ 1 \in DOMAIN q /\ q[1] = Head(q)
      /\ \A i \in DOMAIN Tail(q) :
           i \in Nat /\ i >= 1 /\ i + 1 \in DOMAIN q /\ Tail(q)[i] = q[i + 1]
  BY TailPlaces, Zenon
<1>2. ASSUME NEW i \in DOMAIN Tail(q), Tail(q)[i] = 1 PROVE Confirming(q) /\ Head(q) # 1
  <2>1. i + 1 \in DOMAIN q /\ q[i + 1] = 1  BY <1>1, <1>2
  <2>2. i + 1 # 1  BY <1>1
  <2> QED  BY <2>1, <2>2, <1>1, Zenon DEF OnceIn, Confirming
<1>3. ASSUME NEW i \in DOMAIN Tail(q), NEW j \in DOMAIN Tail(q), Tail(q)[i] = 1, Tail(q)[j] = 1
      PROVE  i = j
  <2>1. /\ i + 1 \in DOMAIN q /\ q[i + 1] = 1
        /\ j + 1 \in DOMAIN q /\ q[j + 1] = 1
    BY <1>1, <1>3, Zenon
  <2>2. i + 1 = j + 1  BY <2>1, Zenon DEF OnceIn
  <2>3. i \in Nat /\ j \in Nat  BY <1>1
  <2> QED  BY <2>2, <2>3
<1> QED  BY <1>2, <1>3, Zenon DEF OnceIn, Confirming

\* The places of a queue are numbers up to its length.
LEMMA Places ==
  ASSUME NEW q \in Seq({0, 1})
  PROVE  Len(q) \in Nat /\ \A i \in DOMAIN q : i \in Nat /\ 1 <= i /\ i <= Len(q)
  OBVIOUS

\* At most one packet is in each socket's hand.
LEMMA BusyCount ==
  /\ IsFiniteSet(Busy) /\ Cardinality(Busy) \in Nat
  /\ Cardinality(Senders) \in Nat /\ Cardinality(Senders) >= 1
  /\ Cardinality(Busy) <= Cardinality(Senders)
<1>1. Busy \subseteq Senders  BY DEF Busy
<1>2. IsFiniteSet(Busy) /\ Cardinality(Busy) <= Cardinality(Senders)
  BY <1>1, SendersAssumption, FS_Subset, Zenon
<1>3. Cardinality(Senders) \in Nat /\ Cardinality(Busy) \in Nat
  BY <1>2, SendersAssumption, FS_CardinalityType, Zenon
<1>4. Cardinality(Senders) # 0
  BY SendersAssumption, FS_EmptySet, Zenon
<1> QED  BY <1>2, <1>3, <1>4

\* A thread takes a packet in hand.
LEMMA BusyEnters ==
  ASSUME TypeOK, NEW s \in Senders, s \notin Busy, Goto(s, "xmit")
  PROVE  Busy' = Busy \cup {s} /\ Cardinality(Busy') = Cardinality(Busy) + 1
<1>1. Busy' = Busy \cup {s}
  BY Zenon DEF Busy, Goto, TypeOK
<1> QED  BY <1>1, BusyCount, FS_AddElement, Zenon

\* A thread has handed its packet over, or dropped it.
LEMMA BusyLeaves ==
  ASSUME TypeOK, NEW s \in Senders, s \in Busy, Goto(s, "idle")
  PROVE  Busy' = Busy \ {s} /\ Cardinality(Busy') = Cardinality(Busy) - 1
<1>1. Busy' = Busy \ {s}
  BY Zenon DEF Busy, Goto, TypeOK
<1> QED  BY <1>1, BusyCount, FS_RemoveElement, Zenon

\* Steps that move no packet and take none in hand.
LEMMA PacedKept ==
  ASSUME Paced, Busy' = Busy, Asking' = Asking,
         \A s \in Senders : pc'[s] = "failed" => pc[s] = "failed",
         UNCHANGED <<pending, tx_failed, wire, rxq, resumes>>,
         flow => flow', events \subseteq events'
  PROVE  Paced'
<1> SUFFICES ASSUME "unpaced" \notin events' PROVE Token' /\ Room'
  BY Zenon DEF Paced
<1>1. Token /\ Room
  BY Zenon DEF Paced
<1>2. Confirming(wire)' = Confirming(wire) /\ Confirming(rxq)' = Confirming(rxq)
  BY Zenon DEF Confirming
<1>3. Token'
  BY <1>1, <1>2, Zenon DEF Token, OnceIn
<1>4. Room'
  BY <1>1, Zenon DEF Room, Behind
<1> QED  BY <1>3, <1>4, Zenon

\* A thread leaves qrtr_tx_wait with a packet: one more pending, or the resent
\* confirmation, which stands for a packet that was counted.
LEMMA PacedWaitDone ==
  ASSUME TypeOK, FlowLife, Paced, NEW s \in Senders, WaitDone(s)
  PROVE  Paced'
<1> SUFFICES ASSUME "unpaced" \notin events' PROVE Token' /\ Room'
  BY Zenon DEF Paced
<1>1. UNCHANGED <<link, flow, waiters, wire, rxq, resumes, events>>
  BY Zenon DEF WaitDone, remoteVars
<1>2. Token /\ Room
  BY <1>1, Zenon DEF Paced
<1>3. s \notin Busy /\ flow /\ s \notin Asking
  BY Zenon DEF WaitDone, Evaluating, Busy, Asking, FlowLife
<1>4. /\ Confirming(wire)' = Confirming(wire) /\ Confirming(rxq)' = Confirming(rxq)
      /\ OnceIn(wire)' = OnceIn(wire) /\ OnceIn(rxq)' = OnceIn(rxq)
  BY <1>1, Zenon DEF Confirming, OnceIn
<1>5. /\ pending \in Nat /\ Low \in Nat /\ High \in Nat /\ resumes \in Nat
      /\ Len(wire) \in Nat /\ Len(rxq) \in Nat
  BY FlowAssumption DEF TypeOK
<1>6. CASE ~ ep /\ Return(s) /\ UNCHANGED <<pending, tx_failed>>
  <2>1. /\ Busy' = Busy /\ Asking' = Asking
        /\ \A t \in Senders : pc'[t] = "failed" => pc[t] = "failed"
    BY <1>3, <1>6, Zenon DEF Busy, Asking, Return, Goto, TypeOK
  <2>2. Paced'
    BY <2>1, <1>1, <1>6, PacedKept, Zenon
  <2> QED  BY <2>2, Zenon DEF Paced
<1>7. CASE /\ ep /\ tx_failed /\ tx_failed' = FALSE
           /\ confirm_rx' = [confirm_rx EXCEPT ![s] = 1]
           /\ Goto(s, "xmit") /\ UNCHANGED pending
  <2>1. Busy' = Busy \cup {s} /\ Cardinality(Busy') = Cardinality(Busy) + 1
    BY <1>3, <1>7, BusyEnters, Zenon
  <2>2. Asking = {} /\ ~ Confirming(wire) /\ ~ Confirming(rxq) /\ resumes = 0
    BY <1>2, <1>7, Zenon DEF Token
  <2>3. Asking' = {s}
    BY <2>1, <2>2, <1>3, <1>7, Zenon DEF Asking, Busy, TypeOK
  <2>4. Token'
    <3>1. \A t \in Senders : pc'[t] # "failed"
      BY <1>2, <1>7, <2>2, Zenon DEF Token, Goto, TypeOK
    <3>2. pending >= Low  BY <1>2, <1>7 DEF Token
    <3>3. \A t, u \in Asking' : t = u  BY <2>3
    <3> QED  BY <3>1, <3>2, <3>3, <1>1, <1>2, <1>3, <1>4, <1>7, <2>2, Zenon DEF Token
  <2>5. Room'
    <3>1. \A i \in DOMAIN wire : wire[i] # 1  BY <2>2 DEF Confirming
    <3>2. \A i \in DOMAIN rxq : rxq[i] # 1  BY <2>2 DEF Confirming
    <3>3. Len(wire) + Len(rxq) + Cardinality(Busy) + 1
            <= Cardinality(Senders) - 1 + pending + High - Low
      BY <1>2, <1>7, Zenon DEF Room
    <3>4. Len(wire) + Len(rxq) + Cardinality(Busy') + 0
            <= Cardinality(Senders) - 1 + pending + High - Low
      BY <3>3, <2>1, <1>5, BusyCount
    <3> QED  BY <3>1, <3>2, <3>4, <2>2, <1>1, <1>7 DEF Room
  <2> QED  BY <2>4, <2>5, Zenon
<1>8. CASE /\ ep /\ ~ tx_failed /\ pending' = pending + 1
           /\ confirm_rx' = [confirm_rx EXCEPT ![s] = IF pending + 1 = Low THEN 1 ELSE 0]
           /\ Goto(s, "xmit") /\ UNCHANGED tx_failed
  <2>1. Busy' = Busy \cup {s} /\ Cardinality(Busy') = Cardinality(Busy) + 1
    BY <1>3, <1>8, BusyEnters, Zenon
  <2>2. Room'
    <3>1. \A n \in Int : Behind(n) => n + Cardinality(Busy') <= Cardinality(Senders) - 1 + pending' - Low
      BY <2>1, <1>5, <1>8, BusyCount DEF Behind
    <3>2. Len(wire) + Len(rxq) + Cardinality(Busy') + 0
            <= Cardinality(Senders) - 1 + pending' + High - Low
      <4>1. Len(wire) + Len(rxq) + Cardinality(Busy) + 0
              <= Cardinality(Senders) - 1 + pending + High - Low
        BY <1>2, <1>8, Zenon DEF Room
      <4> QED  BY <4>1, <2>1, <1>5, <1>8, BusyCount, SMTT(20)
    <3>3. /\ \A i \in DOMAIN wire : Len(wire) - i \in Int
          /\ \A i \in DOMAIN rxq : Len(wire) + Len(rxq) - i \in Int
          /\ Len(wire) + Len(rxq) \in Int
      BY Places DEF TypeOK
    <3>4. /\ \A i \in DOMAIN wire : wire[i] = 1 => Behind(Len(wire) - i)
          /\ \A i \in DOMAIN rxq : rxq[i] = 1 => Behind(Len(wire) + Len(rxq) - i)
          /\ resumes > 0 => Behind(Len(wire) + Len(rxq))
      BY <1>2, Zenon DEF Room
    <3> HIDE DEF Behind
    <3>5. /\ \A i \in DOMAIN wire : wire[i] = 1 =>
               Len(wire) - i + Cardinality(Busy') <= Cardinality(Senders) - 1 + pending' - Low
          /\ \A i \in DOMAIN rxq : rxq[i] = 1 =>
               Len(wire) + Len(rxq) - i + Cardinality(Busy') <= Cardinality(Senders) - 1 + pending' - Low
          /\ resumes > 0 =>
               Len(wire) + Len(rxq) + Cardinality(Busy') <= Cardinality(Senders) - 1 + pending' - Low
      BY <3>1, <3>3, <3>4, Zenon
    <3> QED  BY <3>2, <3>5, <1>1, <1>8, Zenon DEF Room, Behind
  <2>3. CASE pending + 1 = Low
    <3>1. ~ (pending >= Low)  BY <2>3, <1>5
    <3>2. Asking = {} /\ ~ Confirming(wire) /\ ~ Confirming(rxq) /\ ~ (resumes > 0)
      BY <3>1, <1>2, Zenon DEF Token
    <3>3. Asking' = {s}
      BY <2>1, <2>3, <3>2, <1>3, <1>8, Zenon DEF Asking, Busy, TypeOK
    <3>4. \A t \in Senders : pc'[t] # "failed"
      BY <1>2, <1>8, <3>2, Zenon DEF Token, Goto, TypeOK
    <3>5. \A t, u \in Asking' : t = u  BY <3>3
    <3>6. resumes = 0 /\ pending' >= Low  BY <3>2, <2>3, <1>5, <1>8
    <3>7. Token'
      BY <3>2, <3>4, <3>5, <3>6, <1>1, <1>2, <1>3, <1>4, <1>8, Zenon DEF Token
    <3> QED  BY <3>7, <2>2, Zenon
  <2>4. CASE pending + 1 # Low
    <3>1. Asking' = Asking
      BY <2>1, <2>4, <1>3, <1>8 DEF Asking, Busy, TypeOK
    <3>2. \A t \in Senders : pc'[t] = "failed" => pc[t] = "failed"
      BY <1>8, Zenon DEF Goto, TypeOK
    <3>3. pending >= Low => pending' >= Low  BY <1>5, <1>8
    <3>4. Token'
      BY <3>1, <3>2, <3>3, <1>1, <1>2, <1>4, <1>8, Zenon DEF Token
    <3> QED  BY <3>4, <2>2, Zenon
  <2> QED  BY <2>3, <2>4, Zenon
<1> QED  BY <1>6, <1>7, <1>8, Zenon DEF WaitDone

\* The packet in hand goes to the end of the transport's queue.
LEMMA PacedXmit ==
  ASSUME TypeOK, Paced, NEW s \in Senders, Xmit(s)
  PROVE  Paced'
<1> SUFFICES ASSUME "unpaced" \notin events' PROVE Token' /\ Room'
  BY Zenon DEF Paced
<1>1. /\ UNCHANGED <<link, flow, pending, tx_failed, waiters, rxq, resumes, events>>
      /\ wire' = Append(wire, confirm_rx[s]) /\ Return(s)
  BY Zenon DEF Xmit, flowVars
<1>2. Token /\ Room
  BY <1>1, Zenon DEF Paced
<1>3. s \in Busy /\ (s \in Asking <=> confirm_rx[s] = 1) /\ confirm_rx[s] \in {0, 1}
  BY Zenon DEF Xmit, Busy, Asking, TypeOK
<1>4. Busy' = Busy \ {s} /\ Cardinality(Busy') = Cardinality(Busy) - 1
  BY <1>1, <1>3, BusyLeaves, Zenon DEF Return
<1>5. Asking' = Asking \ {s}
  BY <1>1, <1>4, Zenon DEF Asking, Busy, Return, TypeOK
<1>6. /\ pending \in Nat /\ Low \in Nat /\ High \in Nat /\ resumes \in Nat
      /\ Len(wire) \in Nat /\ Len(rxq) \in Nat /\ wire \in Seq({0, 1}) /\ rxq \in Seq({0, 1})
  BY FlowAssumption DEF TypeOK
<1>7. /\ Len(wire') = Len(wire) + 1
      /\ \A i \in DOMAIN wire' : \/ i \in DOMAIN wire /\ wire'[i] = wire[i]
                                 \/ i = Len(wire) + 1 /\ wire'[i] = confirm_rx[s]
  BY <1>1, <1>3, <1>6, AppendPlaces
<1>8. Confirming(wire') <=> Confirming(wire) \/ confirm_rx[s] = 1
  BY <1>1, <1>3, <1>6, AppendConfirming, Zenon
<1>9. /\ Confirming(rxq)' = Confirming(rxq) /\ OnceIn(rxq)' = OnceIn(rxq)
      /\ Confirming(wire)' = Confirming(wire')
  BY <1>1, Zenon DEF Confirming, OnceIn
<1>10. /\ Len(wire') + Len(rxq') + Cardinality(Busy') = Len(wire) + Len(rxq) + Cardinality(Busy)
       /\ \A i \in Int : Len(wire') - i + Cardinality(Busy') = Len(wire) - i + Cardinality(Busy)
       /\ \A i \in Int : Len(wire') + Len(rxq') - i + Cardinality(Busy')
                           = Len(wire) + Len(rxq) - i + Cardinality(Busy)
  <2>1. /\ Len(rxq') = Len(rxq) /\ Len(wire') = Len(wire) + 1
        /\ Cardinality(Busy') = Cardinality(Busy) - 1
        /\ Len(wire) \in Nat /\ Len(rxq) \in Nat /\ Cardinality(Busy) \in Nat
    BY <1>1, <1>4, <1>6, <1>7, BusyCount, Zenon
  <2> QED  BY <2>1, SMTT(20)
<1>11. \A t \in Senders : pc'[t] = "failed" => pc[t] = "failed" /\ t # s
  BY <1>1, Zenon DEF Return, Goto, TypeOK
<1>12. /\ DOMAIN wire \subseteq Int /\ DOMAIN rxq \subseteq Int
  BY <1>6, Places
<1>13. Room'
  <2>1. Len(wire') + Len(rxq') + Cardinality(Busy') + (IF tx_failed' THEN 1 ELSE 0)
          <= Cardinality(Senders) - 1 + pending' + High - Low
    BY <1>1, <1>2, <1>10, Zenon DEF Room
  <2>2. \A i \in DOMAIN rxq : rxq[i] = 1 => 
          Len(wire') + Len(rxq') - i + Cardinality(Busy') <= Cardinality(Senders) - 1 + pending' - Low
    BY <1>1, <1>2, <1>10, <1>12, Zenon DEF Room, Behind
  <2>3. resumes > 0 =>
          Len(wire') + Len(rxq') + Cardinality(Busy') <= Cardinality(Senders) - 1 + pending' - Low
    BY <1>1, <1>2, <1>10, Zenon DEF Room, Behind
  <2>4. ASSUME NEW i \in DOMAIN wire', wire'[i] = 1
        PROVE  Len(wire') - i + Cardinality(Busy') <= Cardinality(Senders) - 1 + pending' - Low
    <3>1. CASE i \in DOMAIN wire /\ wire'[i] = wire[i]
      BY <3>1, <2>4, <1>1, <1>2, <1>10, <1>12, Zenon DEF Room, Behind
    <3>2. CASE i = Len(wire) + 1 /\ confirm_rx[s] = 1
      <4>1. pending >= Low
        BY <3>2, <1>2, <1>3, Zenon DEF Token
      <4> QED  BY <4>1, <3>2, <1>1, <1>4, <1>6, <1>7, BusyCount, SMTT(20)
    <3> QED  BY <2>4, <3>1, <3>2, <1>7, Zenon
  <2> QED  BY <2>1, <2>2, <2>3, <2>4, <1>1, Zenon DEF Room, Behind
<1>14. CASE confirm_rx[s] = 1
  <2>1. Asking' = {} /\ ~ Confirming(wire) /\ ~ Confirming(rxq) /\ resumes = 0
        /\ ~ tx_failed /\ flow /\ pending >= Low
    <3>1. s \in Asking  BY <1>14, <1>3
    <3>2. Asking' = {}  BY <3>1, <1>2, <1>5 DEF Token
    <3> QED  BY <3>1, <3>2, <1>2, Zenon DEF Token
  <2>2. OnceIn(wire')
    BY <2>1, <1>7, Zenon DEF Confirming, OnceIn
  <2>3. OnceIn(wire)' = OnceIn(wire')  BY Zenon DEF OnceIn
  <2>4. \A t \in Senders : pc'[t] # "failed"
    BY <1>2, <1>3, <1>11, <1>14, Zenon DEF Token
  <2>5. Token'
    BY <2>1, <2>2, <2>3, <2>4, <1>1, <1>2, <1>9, Zenon DEF Token
  <2> QED  BY <2>5, <1>13, Zenon
<1>15. CASE confirm_rx[s] # 1
  <2>1. Asking' = Asking  BY <1>15, <1>3, <1>5
  <2>2. OnceIn(wire')
    <3>1. OnceIn(wire)  BY <1>2 DEF Token
    <3> QED  BY <3>1, <1>7, <1>15, Zenon DEF OnceIn
  <2>3. OnceIn(wire)' = OnceIn(wire')  BY Zenon DEF OnceIn
  <2>4. Confirming(wire)' = Confirming(wire)
    BY <1>8, <1>9, <1>15, Zenon DEF Confirming
  <2>5. Token'
    BY <2>1, <2>2, <2>3, <2>4, <1>1, <1>2, <1>9, <1>11, ZenonT(40) DEF Token
  <2> QED  BY <2>5, <1>13, Zenon
<1> QED  BY <1>14, <1>15, Zenon

\* A failed transmission: the packet is dropped, or the thread goes on to leave
\* the tx_failed mark in its place.
LEMMA PacedXmitFails ==
  ASSUME TypeOK, Paced, NEW s \in Senders, XmitFails(s) \/ TxFlowFailed(s)
  PROVE  Paced'
<1> SUFFICES ASSUME "unpaced" \notin events' PROVE Token' /\ Room'
  BY Zenon DEF Paced
<1>1. /\ UNCHANGED <<flow, pending, wire, rxq, resumes>> /\ events \subseteq events'
      /\ s \in Busy
  BY Zenon DEF XmitFails, TxFlowFailed, flowVars, remoteVars, Busy
<1>2. Token /\ Room
  BY <1>1, Zenon DEF Paced
<1>3. /\ pending \in Nat /\ Low \in Nat /\ High \in Nat /\ resumes \in Nat
      /\ Len(wire) \in Nat /\ Len(rxq) \in Nat /\ wire \in Seq({0, 1}) /\ rxq \in Seq({0, 1})
  BY FlowAssumption DEF TypeOK
<1>4. /\ Confirming(wire)' = Confirming(wire) /\ Confirming(rxq)' = Confirming(rxq)
      /\ OnceIn(wire)' = OnceIn(wire) /\ OnceIn(rxq)' = OnceIn(rxq)
  BY <1>1, Zenon DEF Confirming, OnceIn
<1>5. CASE XmitFails(s) /\ confirm_rx[s] = 1
  <2>1. /\ pc' = [pc EXCEPT ![s] = "failed"] /\ UNCHANGED <<confirm_rx, tx_failed>>
    BY <1>5, Zenon DEF XmitFails, Goto, flowVars
  <2>2. Busy' = Busy
    BY <2>1, <1>1, Zenon DEF Busy, TypeOK
  <2>3. Asking' = Asking /\ s \in Asking
    BY <2>1, <2>2, <1>1, <1>5, Zenon DEF Asking
  <2>4. \A t \in Senders : pc'[t] = "failed" => t \in Asking
    BY <2>1, <2>3, <1>2, Zenon DEF Token, TypeOK
  <2>5. Token'
    BY <2>1, <2>3, <2>4, <1>1, <1>2, <1>4, Zenon DEF Token
  <2>6. Room'
    BY <2>1, <2>2, <1>1, <1>2, Zenon DEF Room, Behind
  <2> QED  BY <2>5, <2>6, Zenon
<1>6. ASSUME Return(s), confirm_rx[s] = 1 \/ UNCHANGED tx_failed, tx_failed' => flow
      PROVE  Token' /\ Room'
  <2>1. Busy' = Busy \ {s} /\ Cardinality(Busy') = Cardinality(Busy) - 1
    BY <1>1, <1>6, BusyLeaves, Zenon DEF Return
  <2>2. Asking' = Asking \ {s}
    BY <2>1, <1>6, Zenon DEF Asking, Busy, Return, TypeOK
  <2>3. \A t \in Senders : pc'[t] = "failed" => pc[t] = "failed" /\ t # s
    BY <1>6, Zenon DEF Return, Goto, TypeOK
  <2>4. Room'
    <3>1. Len(wire) + Len(rxq) + Cardinality(Busy') + (IF tx_failed' THEN 1 ELSE 0)
            <= Cardinality(Senders) - 1 + pending + High - Low
      <4>1. Len(wire) + Len(rxq) + Cardinality(Busy) + (IF tx_failed THEN 1 ELSE 0)
              <= Cardinality(Senders) - 1 + pending + High - Low
        BY <1>2, Zenon DEF Room
      <4> QED  BY <4>1, <2>1, <1>3, BusyCount, SMTT(20)
    <3>2. \A n \in Int : Behind(n) =>
            n + Cardinality(Busy') <= Cardinality(Senders) - 1 + pending - Low
      BY <2>1, <1>3, BusyCount DEF Behind
    <3>3. /\ \A i \in DOMAIN wire : Len(wire) - i \in Int
          /\ \A i \in DOMAIN rxq : Len(wire) + Len(rxq) - i \in Int
          /\ Len(wire) + Len(rxq) \in Int
      BY <1>3, Places
    <3>4. /\ \A i \in DOMAIN wire : wire[i] = 1 => Behind(Len(wire) - i)
          /\ \A i \in DOMAIN rxq : rxq[i] = 1 => Behind(Len(wire) + Len(rxq) - i)
          /\ resumes > 0 => Behind(Len(wire) + Len(rxq))
      BY <1>2, Zenon DEF Room
    <3>5. /\ \A i \in DOMAIN wire : wire[i] = 1 =>
               Len(wire) - i + Cardinality(Busy') <= Cardinality(Senders) - 1 + pending - Low
          /\ \A i \in DOMAIN rxq : rxq[i] = 1 =>
               Len(wire) + Len(rxq) - i + Cardinality(Busy') <= Cardinality(Senders) - 1 + pending - Low
          /\ resumes > 0 =>
               Len(wire) + Len(rxq) + Cardinality(Busy') <= Cardinality(Senders) - 1 + pending - Low
      BY <3>2, <3>3, <3>4, Zenon
    <3> QED  BY <3>1, <3>5, <1>1, Zenon DEF Room, Behind
  <2>5. CASE confirm_rx[s] = 1
    <3>1. s \in Asking  BY <2>5, <1>1 DEF Asking
    <3>2. Asking' = {}  BY <3>1, <2>2, <1>2 DEF Token
    <3>3. \A t \in Senders : pc'[t] # "failed"
      BY <3>1, <2>3, <1>2, Zenon DEF Token
    <3>4. /\ ~ Confirming(wire) /\ ~ Confirming(rxq) /\ resumes = 0 /\ flow /\ pending >= Low
      BY <3>1, <1>2, Zenon DEF Token
    <3>5. resumes <= 1 /\ ~ (resumes > 0)  BY <3>4
    <3>6. Token'
      BY <3>2, <3>3, <3>4, <3>5, <1>1, <1>2, <1>4, Zenon DEF Token
    <3> QED  BY <3>6, <2>4, Zenon
  <2>6. CASE confirm_rx[s] # 1
    <3>1. UNCHANGED tx_failed  BY <2>6, <1>6
    <3>2. Asking' = Asking  BY <2>2, <2>6 DEF Asking
    <3>3. Token'
      BY <3>1, <3>2, <2>3, <1>1, <1>2, <1>4, Zenon DEF Token
    <3> QED  BY <3>3, <2>4, Zenon
  <2> QED  BY <2>5, <2>6, Zenon
<1>7. CASE XmitFails(s) /\ confirm_rx[s] # 1
  <2>1. Return(s) /\ UNCHANGED tx_failed
    BY <1>7, Zenon DEF XmitFails, flowVars
  <2>2. tx_failed' => flow
    BY <2>1, <1>2, Zenon DEF Token
  <2> QED  BY <2>1, <2>2, <1>6, Zenon
<1>8. CASE TxFlowFailed(s)
  <2>1. pc[s] = "failed" /\ Return(s) /\ tx_failed' = (tx_failed \/ flow)
    BY <1>8, Zenon DEF TxFlowFailed
  <2>2. s \in Asking /\ confirm_rx[s] = 1
    BY <2>1, <1>2, Zenon DEF Token, Asking
  <2>3. ~ tx_failed /\ flow
    BY <2>2, <1>2, Zenon DEF Token
  <2> QED  BY <2>1, <2>2, <2>3, <1>6, Zenon
<1> QED  BY <1>5, <1>7, <1>8, Zenon

\* qrtr_tx_resume: the packets that follow the one it answers are all that is left
\* of the old count.
LEMMA PacedResume ==
  ASSUME TypeOK, FlowLife, Paced, TxResume \/ ResumeDropped
  PROVE  Paced'
<1> SUFFICES ASSUME "unpaced" \notin events' PROVE Token' /\ Room'
  BY Zenon DEF Paced
<1>1. /\ UNCHANGED <<flow, tx_failed, confirm_rx, wire, rxq>> /\ events \subseteq events'
      /\ resumes > 0 /\ resumes' = resumes - 1
      /\ pending' \in {0, pending}
      /\ pc' \in {pc, Wake(pc)}
  BY Zenon DEF TxResume, ResumeDropped, flowVars, senderVars
<1>2. Token /\ Room
  BY <1>1, Zenon DEF Paced
<1>3. /\ pending \in 0..High /\ Low \in Nat /\ High \in Nat /\ resumes \in Nat
      /\ Len(wire) \in Nat /\ Len(rxq) \in Nat
  BY FlowAssumption DEF TypeOK
<1>4. /\ Busy' = Busy
      /\ \A t \in Senders : pc'[t] = "failed" => pc[t] = "failed"
  BY <1>1, Zenon DEF Busy, Wake, TypeOK
<1>5. Asking' = Asking
  BY <1>1, <1>4, Zenon DEF Asking
<1>6. /\ ~ tx_failed /\ Asking = {} /\ ~ Confirming(wire) /\ ~ Confirming(rxq)
      /\ resumes' = 0
  BY <1>1, <1>2, <1>3 DEF Token
<1>7. /\ Confirming(wire)' = Confirming(wire) /\ Confirming(rxq)' = Confirming(rxq)
      /\ OnceIn(wire)' = OnceIn(wire) /\ OnceIn(rxq)' = OnceIn(rxq)
  BY <1>1, Zenon DEF Confirming, OnceIn
<1>8. Token'
  <2>1. resumes' <= 1 /\ ~ (resumes' > 0)  BY <1>6
  <2>2. \A t \in Senders : pc'[t] # "failed"
    BY <1>2, <1>4, <1>6, Zenon DEF Token
  <2>3. OnceIn(wire) /\ OnceIn(rxq)  BY <1>2 DEF Token
  <2> QED  BY <2>1, <2>2, <2>3, <1>1, <1>5, <1>6, <1>7, Zenon DEF Token
<1>9. Room'
  <2>1. /\ \A i \in DOMAIN wire : wire[i] # 1
        /\ \A i \in DOMAIN rxq : rxq[i] # 1
    BY <1>6, Zenon DEF Confirming
  <2>2. Len(wire) + Len(rxq) + Cardinality(Busy) <= Cardinality(Senders) - 1 + pending - Low
    BY <1>1, <1>2, Zenon DEF Room, Behind
  <2>3. Len(wire) + Len(rxq) + Cardinality(Busy) + 0
          <= Cardinality(Senders) - 1 + pending' + High - Low
    BY <2>2, <1>1, <1>3, BusyCount
  <2>4. ~ (resumes' > 0)  BY <1>6
  <2> QED  BY <2>1, <2>3, <2>4, <1>1, <1>4, <1>6, Zenon DEF Room
<1> QED  BY <1>8, <1>9, Zenon

\* A freed node starts afresh, unless packets of its old link are still unread.
LEMMA PacedRelease ==
  ASSUME TypeOK, Paced, NodeRelease
  PROVE  Paced'
<1> SUFFICES ASSUME "unpaced" \notin events' PROVE Token' /\ Room'
  BY Zenon DEF Paced
<1>1. /\ \A t \in Senders : pc[t] = "idle"
      /\ pending' = 0 /\ tx_failed' = FALSE /\ wire' = <<>> /\ resumes' = 0
      /\ rxq' = <<>> /\ pc' = pc
  BY Zenon DEF NodeRelease, senderVars
<1>2. Busy' = {} /\ Asking' = {}
  BY <1>1, Zenon DEF Busy, Asking
<1>3. /\ ~ Confirming(<<>>) /\ OnceIn(<<>>) /\ Len(<<>>) = 0 /\ DOMAIN <<>> = {}
  BY DEF Confirming, OnceIn
<1>4. Cardinality(Busy') = 0
  BY <1>2, FS_EmptySet, Zenon
<1>5. Token'
  <2>1. /\ Confirming(wire)' = Confirming(<<>>) /\ Confirming(rxq)' = Confirming(<<>>)
        /\ OnceIn(wire)' = OnceIn(<<>>) /\ OnceIn(rxq)' = OnceIn(<<>>)
    BY <1>1, Zenon DEF Confirming, OnceIn
  <2>2. resumes' <= 1 /\ ~ (resumes' > 0)  BY <1>1
  <2>3. \A t \in Senders : pc'[t] # "failed"  BY <1>1
  <2> QED  BY <2>1, <2>2, <2>3, <1>1, <1>2, <1>3, Zenon DEF Token
<1>6. Room'
  <2>1. 0 + 0 + 0 + 0 <= Cardinality(Senders) - 1 + 0 + High - Low
    BY BusyCount, FlowAssumption
  <2>2. ~ (resumes' > 0)  BY <1>1
  <2> QED  BY <2>1, <2>2, <1>1, <1>3, <1>4, Zenon DEF Room
<1> QED  BY <1>5, <1>6, Zenon

\* A packet reaches the receive queue, and keeps its distance to the end.
LEMMA PacedPost ==
  ASSUME TypeOK, Paced, RemotePost
  PROVE  Paced'
<1> SUFFICES ASSUME "unpaced" \notin events' PROVE Token' /\ Room'
  BY Zenon DEF Paced
<1>1. /\ UNCHANGED <<flow, pending, tx_failed, pc, confirm_rx, resumes, events>>
      /\ wire # <<>> /\ wire' = Tail(wire) /\ rxq' = Append(rxq, Head(wire))
  BY Zenon DEF RemotePost, flowVars, senderVars
<1>2. Token /\ Room
  BY <1>1, Zenon DEF Paced
<1>3. wire \in Seq({0, 1}) /\ rxq \in Seq({0, 1}) /\ Len(rxq) \in Nat
  BY DEF TypeOK
<1>4. /\ Len(wire') = Len(wire) - 1 /\ Len(wire) \in Nat /\ Len(wire) >= 1
      /\ 1 \in DOMAIN wire /\ wire[1] = Head(wire) /\ Head(wire) \in {0, 1}
      /\ \A i \in DOMAIN wire' :
           i \in Nat /\ i >= 1 /\ i + 1 \in DOMAIN wire /\ wire'[i] = wire[i + 1]
  BY <1>1, <1>3, TailPlaces, Zenon
<1>5. /\ Len(rxq') = Len(rxq) + 1
      /\ \A i \in DOMAIN rxq' : \/ i \in DOMAIN rxq /\ rxq'[i] = rxq[i]
                                \/ i = Len(rxq) + 1 /\ rxq'[i] = Head(wire)
  BY <1>1, <1>3, <1>4, AppendPlaces
<1>6. Busy' = Busy /\ Asking' = Asking
  BY <1>1, Zenon DEF Busy, Asking
<1>7. \A i \in DOMAIN rxq : i \in Nat
  BY <1>3, Places, Zenon
<1>8. OnceIn(wire') /\ (Confirming(wire') => Confirming(wire) /\ Head(wire) # 1)
  BY <1>1, <1>2, <1>3, OnceTail, Zenon DEF Token
<1>9. Confirming(rxq') <=> Confirming(rxq) \/ Head(wire) = 1
  BY <1>1, <1>3, <1>4, AppendConfirming, Zenon
<1>10. Head(wire) = 1 => Confirming(wire)
  BY <1>4, Zenon DEF Confirming
<1>11. OnceIn(rxq')
  <2>1. CASE Head(wire) = 1
    <3>1. ~ Confirming(rxq)  BY <2>1, <1>2, <1>10 DEF Token
    <3> QED  BY <3>1, <1>5, Zenon DEF Confirming, OnceIn
  <2>2. CASE Head(wire) # 1
    <3>1. OnceIn(rxq)  BY <1>2 DEF Token
    <3> QED  BY <3>1, <2>2, <1>5, Zenon DEF OnceIn
  <2> QED  BY <2>1, <2>2, Zenon
<1>12. /\ Confirming(wire)' = Confirming(wire') /\ Confirming(rxq)' = Confirming(rxq')
       /\ OnceIn(wire)' = OnceIn(wire') /\ OnceIn(rxq)' = OnceIn(rxq')
  BY Zenon DEF Confirming, OnceIn
<1>13. Token'
  BY <1>1, <1>2, <1>6, <1>8, <1>9, <1>10, <1>11, <1>12, Zenon DEF Token
<1>14. Room'
  <2>1. Len(wire') + Len(rxq') = Len(wire) + Len(rxq)
    BY <1>3, <1>4, <1>5
  <2>2. ASSUME NEW i \in DOMAIN wire', wire'[i] = 1 PROVE Behind(Len(wire') - i)
    <3>1. Behind(Len(wire) - (i + 1))  BY <2>2, <1>2, <1>4 DEF Room
    <3>2. Len(wire) - (i + 1) = Len(wire') - i  BY <1>4
    <3> QED  BY <3>1, <3>2, Zenon
  <2>3. ASSUME NEW i \in DOMAIN rxq', rxq'[i] = 1
        PROVE  Behind(Len(wire') + Len(rxq') - i)
    <3>1. CASE i \in DOMAIN rxq /\ rxq'[i] = rxq[i]
      <4>1. rxq[i] = 1  BY <3>1, <2>3
      <4>2. Behind(Len(wire) + Len(rxq) - i)  BY <3>1, <4>1, <1>2, Zenon DEF Room
      <4>3. Len(wire') + Len(rxq') - i = Len(wire) + Len(rxq) - i
        BY <3>1, <1>3, <1>4, <1>5, <1>7
      <4> QED  BY <4>2, <4>3, Zenon
    <3>2. CASE i = Len(rxq) + 1 /\ Head(wire) = 1
      <4>1. Behind(Len(wire) - 1)  BY <3>2, <1>2, <1>4, Zenon DEF Room
      <4>2. Len(wire') + Len(rxq') - i = Len(wire) - 1  BY <3>2, <1>3, <1>4, <1>5
      <4> QED  BY <4>1, <4>2, Zenon
    <3> QED  BY <2>3, <3>1, <3>2, <1>5, Zenon
  <2>4. resumes' > 0 => Behind(Len(wire') + Len(rxq'))
    BY <2>1, <1>1, <1>2, Zenon DEF Room
  <2>5. Len(wire') + Len(rxq') + Cardinality(Busy') + (IF tx_failed' THEN 1 ELSE 0)
          <= Cardinality(Senders) - 1 + pending' + High - Low
    BY <2>1, <1>1, <1>2, <1>6, Zenon DEF Room
  <2> QED  BY <2>2, <2>3, <2>4, <2>5, <1>1, <1>6, Zenon DEF Room, Behind
<1> QED  BY <1>13, <1>14, Zenon

\* A packet is lost between the transport and the receive queue.
LEMMA PacedDrop ==
  ASSUME TypeOK, Paced, RemoteDrop
  PROVE  Paced'
<1> SUFFICES ASSUME "unpaced" \notin events' PROVE Token' /\ Room'
  BY Zenon DEF Paced
<1>1. /\ UNCHANGED <<flow, pending, tx_failed, pc, confirm_rx, resumes, rxq>>
      /\ wire # <<>> /\ wire' = Tail(wire) /\ events \subseteq events'
  BY Zenon DEF RemoteDrop, flowVars, senderVars
<1>2. Token /\ Room
  BY <1>1, Zenon DEF Paced
<1>3. /\ wire \in Seq({0, 1}) /\ rxq \in Seq({0, 1}) /\ Len(rxq) \in Nat
      /\ pending \in Nat /\ Low \in Nat /\ High \in Nat
  BY FlowAssumption DEF TypeOK
<1>4. /\ Len(wire') = Len(wire) - 1 /\ Len(wire) \in Nat /\ Len(wire) >= 1
      /\ \A i \in DOMAIN wire' :
           i \in Nat /\ i >= 1 /\ i + 1 \in DOMAIN wire /\ wire'[i] = wire[i + 1]
  BY <1>1, <1>3, TailPlaces, Zenon
<1>5. Busy' = Busy /\ Asking' = Asking
  BY <1>1, Zenon DEF Busy, Asking
<1>6. OnceIn(wire') /\ (Confirming(wire') => Confirming(wire))
  BY <1>1, <1>2, <1>3, OnceTail, Zenon DEF Token
<1>7. /\ Confirming(wire)' = Confirming(wire') /\ Confirming(rxq)' = Confirming(rxq)
      /\ OnceIn(wire)' = OnceIn(wire') /\ OnceIn(rxq)' = OnceIn(rxq)
  BY <1>1, Zenon DEF Confirming, OnceIn
<1>8. Token'
  BY <1>1, <1>2, <1>5, <1>6, <1>7, Zenon DEF Token
<1>9. Room'
  <2>1. ASSUME NEW i \in DOMAIN wire', wire'[i] = 1 PROVE Behind(Len(wire') - i)
    <3>1. Behind(Len(wire) - (i + 1))  BY <2>1, <1>2, <1>4 DEF Room
    <3>2. Len(wire) - (i + 1) = Len(wire') - i  BY <1>4
    <3> QED  BY <3>1, <3>2, Zenon
  <2>2. \A m, n \in Int : m <= n /\ Behind(n) => Behind(m)
    BY <1>3, BusyCount DEF Behind
  <2>4. ASSUME NEW i \in DOMAIN rxq, rxq[i] = 1
        PROVE  Behind(Len(wire') + Len(rxq) - i)
    <3>1. Behind(Len(wire) + Len(rxq) - i)  BY <2>4, <1>2 DEF Room
    <3>2. i \in Nat  BY <1>3, Places
    <3>3. /\ Len(wire') + Len(rxq) - i \in Int /\ Len(wire) + Len(rxq) - i \in Int
          /\ Len(wire') + Len(rxq) - i <= Len(wire) + Len(rxq) - i
      BY <3>2, <1>3, <1>4
    <3> QED  BY <3>1, <3>3, <2>2, Zenon
  <2>5. ASSUME resumes > 0 PROVE Behind(Len(wire') + Len(rxq))
    <3>1. Behind(Len(wire) + Len(rxq))  BY <2>5, <1>2 DEF Room
    <3>2. /\ Len(wire') + Len(rxq) \in Int /\ Len(wire) + Len(rxq) \in Int
          /\ Len(wire') + Len(rxq) <= Len(wire) + Len(rxq)
      BY <1>3, <1>4
    <3> QED  BY <3>1, <3>2, <2>2, Zenon
  <2>6. Len(wire') + Len(rxq) + Cardinality(Busy) + (IF tx_failed THEN 1 ELSE 0)
          <= Cardinality(Senders) - 1 + pending + High - Low
    <3>1. Len(wire) + Len(rxq) + Cardinality(Busy) + (IF tx_failed THEN 1 ELSE 0)
            <= Cardinality(Senders) - 1 + pending + High - Low
      BY <1>2, Zenon DEF Room
    <3> QED  BY <3>1, <1>3, <1>4, BusyCount, SMTT(20)
  <2> QED  BY <2>1, <2>4, <2>5, <2>6, <1>1, <1>5, Zenon DEF Room, Behind
<1> QED  BY <1>8, <1>9, Zenon

\* recvmsg: when it answers the packet that asked, only what followed that packet
\* is left.
LEMMA PacedRecv ==
  ASSUME TypeOK, Paced, RemoteRecv
  PROVE  Paced'
<1> SUFFICES ASSUME "unpaced" \notin events' PROVE Token' /\ Room'
  BY Zenon DEF Paced
<1>1. /\ UNCHANGED <<flow, pending, tx_failed, pc, confirm_rx, wire>>
      /\ rxq # <<>> /\ rxq' = Tail(rxq)
  BY Zenon DEF RemoteRecv, flowVars, senderVars
<1>2. /\ \/ resumes' = resumes
         \/ Head(rxq) = 1 /\ resumes' = resumes + 1
      /\ events \subseteq events'
  <2>1. CASE Head(rxq) = 1 /\ SendResume
    <3>1. CASE resumes' = resumes + 1 /\ events' = events
      BY <2>1, <3>1, Zenon
    <3>2. CASE resumes' = resumes /\ events' = events \cup {"remote"}
      BY <3>2, Zenon
    <3> QED  BY <2>1, <3>1, <3>2, Zenon DEF SendResume
  <2>2. CASE UNCHANGED <<resumes, events>>
    BY <2>2, Zenon
  <2> QED  BY <2>1, <2>2, Zenon DEF RemoteRecv
<1>3. Token /\ Room
  BY <1>2, Zenon DEF Paced
<1>4. /\ wire \in Seq({0, 1}) /\ rxq \in Seq({0, 1}) /\ Len(wire) \in Nat
      /\ pending \in Nat /\ Low \in Nat /\ High \in Nat /\ resumes \in Nat
  BY FlowAssumption DEF TypeOK
<1>5. /\ Len(rxq') = Len(rxq) - 1 /\ Len(rxq) \in Nat /\ Len(rxq) >= 1
      /\ 1 \in DOMAIN rxq /\ rxq[1] = Head(rxq)
      /\ \A i \in DOMAIN rxq' :
           i \in Nat /\ i >= 1 /\ i + 1 \in DOMAIN rxq /\ rxq'[i] = rxq[i + 1]
  BY <1>1, <1>4, TailPlaces, Zenon
<1>6. Busy' = Busy /\ Asking' = Asking
  BY <1>1, Zenon DEF Busy, Asking
<1>7. OnceIn(rxq') /\ (Confirming(rxq') => Confirming(rxq) /\ Head(rxq) # 1)
  BY <1>1, <1>3, <1>4, OnceTail, Zenon DEF Token
<1>8. Head(rxq) = 1 => Confirming(rxq)
  BY <1>5, Zenon DEF Confirming
<1>9. /\ Confirming(wire)' = Confirming(wire) /\ Confirming(rxq)' = Confirming(rxq')
      /\ OnceIn(wire)' = OnceIn(wire) /\ OnceIn(rxq)' = OnceIn(rxq')
  BY <1>1, Zenon DEF Confirming, OnceIn
<1>10. \A m, n \in Int : m <= n /\ Behind(n) => Behind(m)
  BY <1>4, BusyCount DEF Behind
<1>11. Len(wire) + Len(rxq') + Cardinality(Busy) + (IF tx_failed THEN 1 ELSE 0)
         <= Cardinality(Senders) - 1 + pending + High - Low
  <2>1. Len(wire) + Len(rxq) + Cardinality(Busy) + (IF tx_failed THEN 1 ELSE 0)
          <= Cardinality(Senders) - 1 + pending + High - Low
    BY <1>3, Zenon DEF Room
  <2> QED  BY <2>1, <1>4, <1>5, BusyCount, SMTT(20)
<1>12. ASSUME NEW i \in DOMAIN rxq', rxq'[i] = 1 PROVE Behind(Len(wire) + Len(rxq') - i)
  <2>1. Behind(Len(wire) + Len(rxq) - (i + 1))  BY <1>12, <1>3, <1>5 DEF Room
  <2>2. Len(wire) + Len(rxq) - (i + 1) = Len(wire) + Len(rxq') - i  BY <1>4, <1>5
  <2> QED  BY <2>1, <2>2, Zenon
<1>13. CASE resumes' = resumes
  <2>1. Token'
    BY <1>1, <1>3, <1>6, <1>7, <1>9, <1>13, Zenon DEF Token
  <2>2. ASSUME resumes > 0 PROVE Behind(Len(wire) + Len(rxq'))
    <3>1. Behind(Len(wire) + Len(rxq))  BY <2>2, <1>3 DEF Room
    <3>2. /\ Len(wire) + Len(rxq') \in Int /\ Len(wire) + Len(rxq) \in Int
          /\ Len(wire) + Len(rxq') <= Len(wire) + Len(rxq)
      BY <1>4, <1>5
    <3> QED  BY <3>1, <3>2, <1>10, Zenon
  <2>3. \A i \in DOMAIN wire : wire[i] = 1 => Behind(Len(wire) - i)
    BY <1>3, Zenon DEF Room
  <2>4. Room'
    BY <2>2, <2>3, <1>1, <1>6, <1>11, <1>12, <1>13, Zenon DEF Room, Behind
  <2> QED  BY <2>1, <2>4, Zenon
<1>14. CASE Head(rxq) = 1 /\ resumes' = resumes + 1
  <2>1. /\ Confirming(rxq) /\ ~ Confirming(rxq') /\ ~ Confirming(wire) /\ ~ tx_failed
        /\ Asking = {} /\ resumes = 0 /\ flow /\ pending >= Low
    BY <1>3, <1>7, <1>8, <1>14, Zenon DEF Token
  <2>2. resumes' <= 1  BY <2>1, <1>14
  <2>3. Token'
    BY <2>1, <2>2, <1>1, <1>3, <1>6, <1>7, <1>9, Zenon DEF Token
  <2>4. Behind(Len(wire) + Len(rxq'))
    <3>1. Behind(Len(wire) + Len(rxq) - 1)  BY <1>3, <1>5, <1>14 DEF Room
    <3>2. Len(wire) + Len(rxq) - 1 = Len(wire) + Len(rxq')  BY <1>4, <1>5
    <3> QED  BY <3>1, <3>2, Zenon
  <2>5. \A i \in DOMAIN wire : wire[i] # 1
    BY <2>1, Zenon DEF Confirming
  <2>6. Room'
    BY <2>4, <2>5, <1>1, <1>6, <1>11, <1>12, Zenon DEF Room, Behind
  <2> QED  BY <2>3, <2>6, Zenon
<1> QED  BY <1>2, <1>13, <1>14, Zenon

\* The remote socket is closed with what it has not read.
LEMMA PacedClose ==
  ASSUME TypeOK, Paced, RemoteClose
  PROVE  Paced'
<1> SUFFICES ASSUME "unpaced" \notin events' PROVE Token' /\ Room'
  BY Zenon DEF Paced
<1>1. /\ UNCHANGED <<flow, pending, tx_failed, pc, confirm_rx, wire, resumes>>
      /\ rxq' = <<>> /\ events \subseteq events'
  BY Zenon DEF RemoteClose, flowVars, senderVars
<1>2. Token /\ Room
  BY <1>1, Zenon DEF Paced
<1>3. /\ Len(wire) \in Nat /\ Len(rxq) \in Nat
      /\ pending \in Nat /\ Low \in Nat /\ High \in Nat
  BY FlowAssumption DEF TypeOK
<1>4. Busy' = Busy /\ Asking' = Asking
  BY <1>1, Zenon DEF Busy, Asking
<1>5. ~ Confirming(<<>>) /\ OnceIn(<<>>) /\ Len(<<>>) = 0 /\ DOMAIN <<>> = {}
  BY DEF Confirming, OnceIn
<1>6. /\ Confirming(wire)' = Confirming(wire) /\ Confirming(rxq)' = Confirming(<<>>)
      /\ OnceIn(wire)' = OnceIn(wire) /\ OnceIn(rxq)' = OnceIn(<<>>)
  BY <1>1, Zenon DEF Confirming, OnceIn
<1>7. Token'
  BY <1>1, <1>2, <1>4, <1>5, <1>6, Zenon DEF Token
<1>8. Len(wire) + Len(rxq') + Cardinality(Busy) + (IF tx_failed THEN 1 ELSE 0)
        <= Cardinality(Senders) - 1 + pending + High - Low
  <2>1. Len(wire) + Len(rxq) + Cardinality(Busy) + (IF tx_failed THEN 1 ELSE 0)
          <= Cardinality(Senders) - 1 + pending + High - Low
    BY <1>2, Zenon DEF Room
  <2> QED  BY <2>1, <1>1, <1>3, <1>5, BusyCount
<1>9. resumes > 0 => Behind(Len(wire) + Len(rxq'))
  <2>1. resumes > 0 => Behind(Len(wire) + Len(rxq))  BY <1>2 DEF Room
  <2> QED  BY <2>1, <1>1, <1>3, <1>5, BusyCount DEF Behind
<1>10. \A i \in DOMAIN wire : wire[i] = 1 => Behind(Len(wire) - i)
  BY <1>2, Zenon DEF Room
<1>11. \A i \in DOMAIN rxq' : FALSE
  BY <1>1, <1>5, Zenon
<1>12. Room'
  BY <1>1, <1>4, <1>8, <1>9, <1>10, <1>11, Zenon DEF Room, Behind
<1> QED  BY <1>7, <1>12, Zenon

\* Every step keeps the backlog paced.
LEMMA PacedStep == TypeOK /\ FlowLife /\ Paced /\ [Next]_vars => Paced'
<1> SUFFICES ASSUME TypeOK, FlowLife, Paced, [Next]_vars PROVE Paced'
  BY Zenon
<1>1. ASSUME NEW s \in Senders, NEW b \in BOOLEAN, Enqueue(s, b) PROVE Paced'
  <2>1. /\ UNCHANGED <<flow, pending, tx_failed, wire, rxq, resumes, events, confirm_rx>>
        /\ pc[s] = "idle" /\ pc' = [pc EXCEPT ![s] = "lookup"]
    BY <1>1, Zenon DEF Enqueue, Goto, flowVars, remoteVars
  <2>2. Busy' = Busy /\ \A t \in Senders : pc'[t] = "failed" => pc[t] = "failed"
    BY <2>1, Zenon DEF Busy, TypeOK
  <2>3. Asking' = Asking  BY <2>1, <2>2 DEF Asking
  <2> QED  BY <2>1, <2>2, <2>3, PacedKept, Zenon
<1>2. ASSUME NEW s \in Senders, LookupFlow(s) \/ WaitSleep(s) \/ Interrupt(s) PROVE Paced'
  <2>1. /\ UNCHANGED <<pending, tx_failed, wire, rxq, resumes, events, confirm_rx>>
        /\ flow => flow'
        /\ pc[s] \notin {"xmit", "failed"}
        /\ \E l \in PCs \ {"xmit", "failed"} : pc' = [pc EXCEPT ![s] = l]
    BY <1>2 DEF LookupFlow, WaitSleep, Interrupt, Goto, flowVars, remoteVars, PCs
  <2>2. Busy' = Busy /\ \A t \in Senders : pc'[t] = "failed" => pc[t] = "failed"
    BY <2>1, Zenon DEF Busy, TypeOK
  <2>3. Asking' = Asking  BY <2>1, <2>2 DEF Asking
  <2> QED  BY <2>1, <2>2, <2>3, PacedKept, Zenon
<1>3. ASSUME NEW s \in Senders, LookupFlowFails(s) PROVE Paced'
  BY <1>3, Zenon DEF LookupFlowFails, Paced
<1>4. ASSUME NEW s \in Senders, WaitGivesUp(s) PROVE Paced'
  <2>1. /\ UNCHANGED <<flow, pending, tx_failed, wire, rxq, resumes, events>>
        /\ pc[s] \notin {"xmit", "failed"} /\ Return(s)
    BY <1>4, Zenon DEF WaitGivesUp, remoteVars
  <2>2. /\ Busy' = Busy /\ s \notin Busy
        /\ \A t \in Senders : pc'[t] = "failed" => pc[t] = "failed"
    BY <2>1, Zenon DEF Busy, Return, Goto, TypeOK
  <2>3. Asking' = Asking  BY <2>1, <2>2 DEF Asking, Busy, Return, TypeOK
  <2> QED  BY <2>1, <2>2, <2>3, PacedKept, Zenon
<1>5. ASSUME Unregister \/ UnregisterWakes \/ Register \/ UNCHANGED vars PROVE Paced'
  <2>1. /\ UNCHANGED <<flow, pending, tx_failed, wire, rxq, resumes, events, confirm_rx>>
        /\ pc' \in {pc, Wake(pc)}
    BY <1>5, Zenon DEF Unregister, UnregisterWakes, Register, vars, flowVars, senderVars, remoteVars
  <2>2. Busy' = Busy /\ \A t \in Senders : pc'[t] = "failed" => pc[t] = "failed"
    BY <2>1, Zenon DEF Busy, Wake, TypeOK
  <2>3. Asking' = Asking  BY <2>1, <2>2 DEF Asking
  <2> QED  BY <2>1, <2>2, <2>3, PacedKept, Zenon
<1>6. CASE RemotePeek
  BY <1>6, Zenon DEF RemotePeek, Paced
<1> QED
  BY ZenonT(30), NextCases, <1>1, <1>2, <1>3, <1>4, <1>5, <1>6, PacedWaitDone, PacedXmit,
     PacedXmitFails, PacedResume, PacedPost, PacedDrop, PacedRecv, PacedClose, PacedRelease

\* What the watermarks of qrtr_tx_wait buy, for any number of sockets: the packets a
\* remote port has not read never exceed 2 * High - Low, and one more for every
\* other socket, as long as every confirmation answers the one packet that asked
\* for it ("unpaced" has not happened).
THEOREM BacklogStaysBounded == Spec => []BacklogBounded
<1> DEFINE IInv == TypeOK /\ FlowLife /\ Paced
<1>1. Init => IInv
  <2> SUFFICES ASSUME Init PROVE Paced
    BY InitInvariants, Zenon
  <2>1. Busy = {} /\ Asking = {}
    BY Zenon DEF Init, Busy, Asking
  <2>2. ~ Confirming(<<>>) /\ OnceIn(<<>>) /\ Len(<<>>) = 0 /\ DOMAIN <<>> = {}
    BY DEF Confirming, OnceIn
  <2>3. Cardinality(Busy) = 0
    BY <2>1, FS_EmptySet, Zenon
  <2>4. resumes <= 1 /\ ~ (resumes > 0)  BY DEF Init
  <2>5. \A s \in Senders : pc[s] # "failed"  BY DEF Init
  <2>6. Token
    BY <2>1, <2>2, <2>4, <2>5, Zenon DEF Token, Init
  <2>7. 0 + 0 + 0 + 0 <= Cardinality(Senders) - 1 + 0 + High - Low
    BY BusyCount, FlowAssumption
  <2>8. Room
    BY <2>2, <2>3, <2>4, <2>7, Zenon DEF Room, Init
  <2> QED  BY <2>6, <2>8, Zenon DEF Paced
<1>2. IInv /\ [Next]_vars => IInv'
  BY TypeStep, FlowLifeStep, PacedStep, Zenon
<1>3. IInv => BacklogBounded
  <2> SUFFICES ASSUME TypeOK, Room PROVE
        Len(wire) + Len(rxq) <= 2 * High - Low + (Cardinality(Senders) - 1)
    BY Zenon DEF Paced, BacklogBounded
  <2>1. Len(wire) + Len(rxq) + Cardinality(Busy) + (IF tx_failed THEN 1 ELSE 0)
          <= Cardinality(Senders) - 1 + pending + High - Low
    BY Zenon DEF Room
  <2>2. /\ pending \in Nat /\ pending <= High /\ High \in Nat /\ Low \in Nat
        /\ Len(wire) \in Nat /\ Len(rxq) \in Nat
    BY FlowAssumption DEF TypeOK
  <2> QED  BY <2>1, <2>2, BusyCount
<1> QED  BY <1>1, <1>2, <1>3, PTL DEF Spec

=============================================================================
