------------------------------ MODULE QrtrFlow ------------------------------
(***************************************************************************)
(* Transmit flow control of net/qrtr/af_qrtr.c.  Several local sockets     *)
(* send DATA packets to one remote port; they share one qrtr_tx_flow of    *)
(* one qrtr_node.  A thread inside qrtr_node_enqueue is a program counter; *)
(* each step of it is one region that the code runs under one lock.        *)
(* Packets are reduced to their confirm_rx flag.                           *)
(***************************************************************************)
EXTENDS Naturals, Sequences, FiniteSets

CONSTANTS Senders,   \* local sockets (lock_sock: one sendmsg per socket)
          High,      \* QRTR_TX_FLOW_HIGH
          Low,       \* QRTR_TX_FLOW_LOW
          RcvBuf,    \* packets that fit the remote socket's receive buffer
          MaxWire    \* bound: packets in the transport, in each direction

ASSUME FlowAssumption == /\ High \in Nat /\ Low \in Nat
                         /\ 0 < Low /\ Low <= High
                         /\ RcvBuf \in Nat /\ MaxWire \in Nat
ASSUME SendersAssumption == IsFiniteSet(Senders) /\ Senders # {}

VARIABLES
  link,        \* life of the node: "up", "cleared" (ep is NULL), "woken"
               \* (transmitters woken), "gone" (node freed)
  flow,        \* the flow is in node->qrtr_tx_flow
  pending, tx_failed, waiters,         \* struct qrtr_tx_flow
  pc, dontwait, confirm_rx,            \* the threads in qrtr_node_enqueue
  wire, rxq,   \* DATA in the transport; receive queue of the remote socket
  resumes,     \* RESUME_TX packets under way to qrtr_tx_resume
  events       \* history: what went wrong since the node was registered

flowVars   == <<flow, pending, tx_failed, waiters>>
senderVars == <<pc, dontwait, confirm_rx>>
remoteVars == <<wire, rxq, resumes>>
vars == <<link, flowVars, senderVars, remoteVars, events>>

PCs == {"idle", "lookup", "wait", "sleep", "woken", "signalled", "timedout",
        "xmit", "failed"}

\* The states in which a thread evaluates the wait condition under flow->lock.
Evaluating == {"wait", "woken", "signalled", "timedout"}

\* "tx": transmission of a confirm_rx packet failed; "remote": the remote side
\* lost one, or its answer; "unpaced": a confirmation was not the answer to the
\* last low watermark (no memory for the flow, MSG_PEEK, an earlier link);
\* "untold": no memory to tell a waiter of the reset.
Events == {"tx", "remote", "unpaced", "untold"}

ep == link = "up"          \* node->ep is not NULL

Confirming(q) == \E i \in DOMAIN q : q[i] = 1   \* some packet asks for RESUME_TX

Init ==
  /\ link = "up"
  /\ flow = FALSE /\ pending = 0 /\ tx_failed = FALSE /\ waiters = {}
  /\ pc = [s \in Senders |-> "idle"]
  /\ dontwait = [s \in Senders |-> FALSE]
  /\ confirm_rx = [s \in Senders |-> 0]
  /\ wire = <<>> /\ rxq = <<>> /\ resumes = 0
  /\ events = {}

-----------------------------------------------------------------------------
(* qrtr_node_enqueue and qrtr_tx_wait, for DATA from a local socket *)

Goto(s, l) == pc' = [pc EXCEPT ![s] = l]

\* qrtr_node_enqueue returns; its locals are gone.
Return(s) ==
  /\ Goto(s, "idle")
  /\ dontwait' = [dontwait EXCEPT ![s] = FALSE]
  /\ confirm_rx' = [confirm_rx EXCEPT ![s] = 0]

\* sendmsg finds the node (its reference keeps the node from being freed) and
\* enters qrtr_node_enqueue.  A packet sent before HELLO is dropped there and
\* the call reports success: that changes nothing and is no step of Next.
Enqueue(s, nonblock) ==
  /\ pc[s] = "idle" /\ link # "gone"
  /\ Goto(s, "lookup")
  /\ dontwait' = [dontwait EXCEPT ![s] = nonblock]
  /\ UNCHANGED <<link, flowVars, confirm_rx, remoteVars, events>>

\* Under qrtr_tx_lock: find the flow, or allocate and insert it.
LookupFlow(s) ==
  /\ pc[s] = "lookup"
  /\ flow' = TRUE
  /\ Goto(s, "wait")
  /\ UNCHANGED <<link, pending, tx_failed, waiters, dontwait,
                 confirm_rx, remoteVars, events>>

\* No memory for the flow: send unpaced, asking for a confirmation each time.
LookupFlowFails(s) ==
  /\ pc[s] = "lookup" /\ ~flow
  /\ Goto(s, "xmit")
  /\ confirm_rx' = [confirm_rx EXCEPT ![s] = 1]
  /\ events' = events \cup {"unpaced"}
  /\ UNCHANGED <<link, flowVars, dontwait, remoteVars>>

WaitCondition == pending < High \/ tx_failed \/ ~ep

\* Mutant: the mark of a failed transmission is not cleared.
WaitDoneKeepsMark(s) ==
  /\ pc[s] \in Evaluating /\ WaitCondition
  /\ \/ /\ ~ep
        /\ Return(s)
        /\ UNCHANGED <<pending, tx_failed>>
     \/ /\ ep /\ tx_failed
        /\ UNCHANGED tx_failed
        /\ confirm_rx' = [confirm_rx EXCEPT ![s] = 1]
        /\ Goto(s, "xmit")
        /\ UNCHANGED <<pending, dontwait>>
     \/ /\ ep /\ ~tx_failed
        /\ pending' = pending + 1
        /\ confirm_rx' = [confirm_rx EXCEPT ![s] = IF pending + 1 = Low THEN 1 ELSE 0]
        /\ Goto(s, "xmit")
        /\ UNCHANGED <<tx_failed, dontwait>>
  /\ UNCHANGED <<link, flow, waiters, remoteVars, events>>

\* The wait ends because its condition holds: -EPIPE, or resend of a lost
\* confirm_rx, or one more pending packet.
WaitDone(s) ==
  /\ pc[s] \in Evaluating /\ WaitCondition
  /\ \/ /\ ~ep
        /\ Return(s)
        /\ UNCHANGED <<pending, tx_failed>>
     \/ /\ ep /\ tx_failed
        /\ tx_failed' = FALSE
        /\ confirm_rx' = [confirm_rx EXCEPT ![s] = 1]
        /\ Goto(s, "xmit")
        /\ UNCHANGED <<pending, dontwait>>
     \/ /\ ep /\ ~tx_failed
        /\ pending' = pending + 1
        /\ confirm_rx' = [confirm_rx EXCEPT ![s] = IF pending + 1 = Low THEN 1 ELSE 0]
        /\ Goto(s, "xmit")
        /\ UNCHANGED <<tx_failed, dontwait>>
  /\ UNCHANGED <<link, flow, waiters, remoteVars, events>>

\* The condition does not hold and there is time left: sleep on resume_tx.
WaitSleep(s) ==
  /\ \/ pc[s] = "wait" /\ ~dontwait[s]
     \/ pc[s] = "woken"
  /\ ~WaitCondition
  /\ Goto(s, "sleep")
  /\ UNCHANGED <<link, flowVars, dontwait, confirm_rx, remoteVars,
                 events>>

\* The condition does not hold and the time is up: -EAGAIN, with the socket
\* on the list of waiters (once), or -ENOMEM.  After a signal: -ERESTARTSYS.
WaitGivesUp(s) ==
  /\ ~WaitCondition
  /\ \/ /\ \/ pc[s] = "wait" /\ dontwait[s]
           \/ pc[s] = "timedout"
        /\ waiters' \in {waiters, waiters \cup {s}}
     \/ /\ pc[s] = "signalled"
        /\ UNCHANGED waiters
  /\ Return(s)
  /\ UNCHANGED <<link, flow, pending, tx_failed, remoteVars,
                 events>>

\* A sleeper leaves schedule_timeout for a signal or when its
\* SO_SNDTIMEO runs out.
Interrupt(s) ==
  /\ pc[s] = "sleep"
  /\ \/ Goto(s, "signalled")
     \/ Goto(s, "timedout")
  /\ UNCHANGED <<link, flowVars, dontwait, confirm_rx, remoteVars,
                 events>>

\* Under ep_lock: hand the packet to the transport.
Xmit(s) ==
  /\ pc[s] = "xmit" /\ ep
  /\ Len(wire) < MaxWire
  /\ wire' = Append(wire, confirm_rx[s])
  /\ Return(s)
  /\ UNCHANGED <<link, flowVars, rxq, resumes, events>>

\* Padding or ep->xmit fails, or the endpoint is gone.
XmitFails(s) ==
  /\ pc[s] = "xmit"
  /\ IF confirm_rx[s] = 1
     THEN /\ Goto(s, "failed") /\ events' = events \cup {"tx"}
          /\ UNCHANGED <<dontwait, confirm_rx>>
     ELSE Return(s) /\ UNCHANGED events
  /\ UNCHANGED <<link, flowVars, remoteVars>>

\* Mutant: the lost confirm_rx is not recorded.
TxFlowFailedForgets(s) ==
  /\ pc[s] = "failed"
  /\ Return(s)
  /\ UNCHANGED <<link, flowVars, remoteVars, events>>

\* qrtr_tx_flow_failed: sets the mark, wakes nobody.
TxFlowFailed(s) ==
  /\ pc[s] = "failed"
  /\ tx_failed' = (tx_failed \/ flow)
  /\ Return(s)
  /\ UNCHANGED <<link, flow, pending, waiters, remoteVars, events>>

-----------------------------------------------------------------------------
(* qrtr_tx_resume, run by the node's worker *)

Wake(q) == [s \in Senders |-> IF q[s] = "sleep" THEN "woken" ELSE q[s]]

\* Mutant: only the sockets on the list are told, not the sleeping threads.
TxResumeWakesNobody ==
  /\ resumes > 0
  /\ resumes' = resumes - 1
  /\ IF flow THEN pending' = 0 /\ waiters' = {} ELSE UNCHANGED <<pending, waiters>>
  /\ UNCHANGED <<link, flow, tx_failed, senderVars, wire, rxq, events>>

\* Reset the counter, wake the sleepers, send every waiter a local RESUME_TX if
\* there is memory for it.
TxResume ==
  /\ resumes > 0
  /\ resumes' = resumes - 1
  /\ IF flow THEN pending' = 0 /\ waiters' = {} /\ pc' = Wake(pc)
             ELSE UNCHANGED <<pending, waiters, pc>>
  /\ \/ UNCHANGED events
     \/ flow /\ waiters # {} /\ events' = events \cup {"untold"}
  /\ UNCHANGED <<link, flow, tx_failed, dontwait, confirm_rx, wire, rxq>>

\* qrtr_endpoint_post has no memory for the RESUME_TX packet.
ResumeDropped ==
  /\ resumes > 0
  /\ resumes' = resumes - 1
  /\ events' = events \cup {"remote"}
  /\ UNCHANGED <<link, flowVars, senderVars, wire, rxq>>

-----------------------------------------------------------------------------
(* The receiving node, running the same code *)

\* qrtr_endpoint_post queues the packet on the socket of its port.
RemotePost ==
  /\ wire # <<>> /\ Len(rxq) < RcvBuf
  /\ wire' = Tail(wire)
  /\ rxq' = Append(rxq, Head(wire))
  /\ UNCHANGED <<link, flowVars, senderVars, resumes, events>>

\* The port has no socket, the socket's buffer is full, or memory is out.
RemoteDrop ==
  /\ wire # <<>>
  /\ wire' = Tail(wire)
  /\ events' = IF Head(wire) = 1 THEN events \cup {"remote"} ELSE events
  /\ UNCHANGED <<link, flowVars, senderVars, rxq, resumes>>

\* qrtr_send_resume_tx: its result is ignored by qrtr_recvmsg.
SendResume ==
  \/ /\ link # "gone" /\ resumes < MaxWire
     /\ resumes' = resumes + 1 /\ UNCHANGED events
  \/ events' = events \cup {"remote"} /\ UNCHANGED resumes

RemoteRecv ==
  /\ rxq # <<>>
  /\ rxq' = Tail(rxq)
  /\ IF Head(rxq) = 1 THEN SendResume ELSE UNCHANGED <<resumes, events>>
  /\ UNCHANGED <<link, flowVars, senderVars, wire>>

\* recvmsg with MSG_PEEK confirms the packet and leaves it in the queue.
RemotePeek ==
  /\ rxq # <<>> /\ Head(rxq) = 1
  /\ link # "gone" /\ resumes < MaxWire /\ resumes' = resumes + 1
  /\ events' = events \cup {"unpaced"}
  /\ UNCHANGED <<link, flowVars, senderVars, wire, rxq>>

\* qrtr_release purges the receive queue without confirming anything.
RemoteClose ==
  /\ rxq # <<>>
  /\ rxq' = <<>>
  /\ events' = IF Confirming(rxq) THEN events \cup {"remote"} ELSE events
  /\ UNCHANGED <<link, flowVars, senderVars, wire, resumes>>

-----------------------------------------------------------------------------
(* The node: unregistration, release, registration of its endpoint *)

\* qrtr_endpoint_unregister, first half: ep becomes NULL under ep_lock.
Unregister ==
  /\ link = "up" /\ link' = "cleared"
  /\ UNCHANGED <<flowVars, senderVars, remoteVars, events>>

\* Mutant: unregistration forgets the blocked transmitters.
UnregisterWakesNobody ==
  /\ link = "cleared" /\ link' = "woken"
  /\ UNCHANGED <<flowVars, senderVars, remoteVars, events>>

\* Second half: wake up the transmitters.
UnregisterWakes ==
  /\ link = "cleared" /\ link' = "woken"
  /\ pc' = IF flow THEN Wake(pc) ELSE pc
  /\ UNCHANGED <<flowVars, dontwait, confirm_rx, remoteVars, events>>

\* The last reference goes: __qrtr_node_release frees flow and waiters.  What
\* the remote socket has not read outlives the link.
NodeRelease ==
  /\ link = "woken" /\ \A s \in Senders : pc[s] = "idle"
  /\ link' = "gone"
  /\ flow' = FALSE /\ pending' = 0 /\ tx_failed' = FALSE /\ waiters' = {}
  /\ wire' = <<>> /\ resumes' = 0
  /\ events' = IF rxq = <<>> THEN {} ELSE {"unpaced"}
  /\ UNCHANGED <<senderVars, rxq>>

\* A new endpoint for the same peer.
Register ==
  /\ link = "gone" /\ link' = "up"
  /\ UNCHANGED <<flowVars, senderVars, remoteVars, events>>

-----------------------------------------------------------------------------
Thread(s) == \/ LookupFlow(s) \/ LookupFlowFails(s)
             \/ WaitDone(s) \/ WaitSleep(s) \/ WaitGivesUp(s)
             \/ Xmit(s) \/ XmitFails(s) \/ TxFlowFailed(s)

Remote == RemotePost \/ RemoteDrop \/ RemoteRecv

Next ==
  \/ \E s \in Senders : \/ \E nonblock \in BOOLEAN : Enqueue(s, nonblock)
                        \/ Thread(s)
                        \/ Interrupt(s)
  \/ TxResume \/ ResumeDropped
  \/ Remote \/ RemotePeek \/ RemoteClose
  \/ Unregister \/ UnregisterWakes \/ NodeRelease \/ Register

Spec == Init /\ [][Next]_vars

\* Threads that entered the kernel run on, the workers run, unregistration
\* completes, and the remote application keeps reading its socket.  Nobody is
\* assumed to send again, to be interrupted, or to unregister.
Fairness ==
  /\ \A s \in Senders : WF_vars(Thread(s))
  /\ WF_vars(TxResume) /\ WF_vars(RemotePost) /\ WF_vars(RemoteRecv)
  /\ WF_vars(UnregisterWakes)

FairSpec == Spec /\ Fairness

-----------------------------------------------------------------------------
(* Properties *)

\* Every variable has its type; the counter of struct qrtr_tx_flow never
\* passes the high watermark.
TypeOK ==
  /\ link \in {"up", "cleared", "woken", "gone"}
  /\ flow \in BOOLEAN /\ tx_failed \in BOOLEAN
  /\ pending \in 0..High /\ waiters \subseteq Senders
  /\ pc \in [Senders -> PCs] /\ dontwait \in [Senders -> BOOLEAN]
  /\ confirm_rx \in [Senders -> {0, 1}]
  /\ wire \in Seq({0, 1}) /\ rxq \in Seq({0, 1}) /\ resumes \in Nat
  /\ events \subseteq Events

\* A confirmation is on its way: marked for resending, held by a thread that
\* has not transmitted it yet, in the transport, unread, or answered.
ConfirmUnderWay ==
  \/ tx_failed
  \/ \E s \in Senders : pc[s] \in {"xmit", "failed"} /\ confirm_rx[s] = 1
  \/ Confirming(wire) \/ Confirming(rxq)
  \/ resumes > 0

\* Once the low watermark is reached the counter will be reset: the sending
\* side of qrtr_tx_wait / qrtr_node_enqueue / qrtr_tx_flow_failed never loses
\* the confirm_rx request, however its threads interleave and whichever
\* transmissions fail.  Only the remote side can lose it.
ConfirmNotLost ==
  ep /\ pending >= Low => ConfirmUnderWay \/ "remote" \in events

\* No wake-up is missed: a thread sleeping in qrtr_tx_wait sleeps because the
\* flow is full, and if the endpoint is gone qrtr_endpoint_unregister has yet
\* to wake it.  In particular no sleeper outlives a reset of the counter.
NoMissedWakeup ==
  \A s \in Senders : pc[s] = "sleep" =>
    flow /\ pending = High /\ link \in {"up", "cleared"}

\* What flow control is for: the packets a remote port has not read are
\* bounded.  Up to High - Low may follow the packet that asked to be confirmed,
\* High more may follow the reset, and every other socket may hold one packet
\* that it counted before the reset.  (A resent confirmation adds none: it
\* stands for a counted packet that was never transmitted.)  It is for as long as
\* every confirmation answers the one packet that asked for it (not "unpaced").
BacklogBounded ==
  "unpaced" \notin events =>
    Len(wire) + Len(rxq) <= 2 * High - Low + (Cardinality(Senders) - 1)

\* A sender blocked on a full flow, and a socket told to wait for RESUME_TX,
\* get going again, unless a confirm_rx packet was lost on the way or there was
\* no memory to tell a waiter.
StallEnds ==
  \A s \in Senders :
    (pc[s] = "sleep" \/ s \in waiters) ~>
      \/ pc[s] # "sleep" /\ s \notin waiters
      \/ events \cap {"tx", "remote", "untold"} # {}

\* The work-around that qrtr_tx_flow_failed documents: transmission does not
\* stall forever after a lost confirm_rx packet, because the mark it leaves on
\* the flow makes a transmission attempt that waits for that flow go ahead.
FailedTxMarkNoticed ==
  \A s \in Senders :
    (pc[s] = "sleep" /\ tx_failed) ~> (pc[s] # "sleep" \/ ~tx_failed)
=============================================================================
