------------------------------ MODULE QrtrCtrl ------------------------------
(***************************************************************************)
(* Back-pressure of the control socket (net/qrtr/af_qrtr.c).  The workers  *)
(* of the nodes and local senders, the writers, put packets for the name   *)
(* service into one receive queue.  A writer that finds it full waits for  *)
(* the completion rx_queue_has_space; the name service (ns.c), which reads *)
(* the queue in a work item, completes it when signal_on_recv is set.      *)
(* A step is what happens between two points where another thread can come *)
(* in.  What is in a packet does not matter here: see QrtrNs.              *)
(***************************************************************************)
EXTENDS Naturals

CONSTANTS Writers,
          RcvBuf,      \* sk_rcvbuf, in packets
          MaxPkts      \* bound: packets per writer

CtrlParams == RcvBuf \in Nat \ {0} /\ MaxPkts \in Nat

ASSUME CtrlAssumption == CtrlParams

VARIABLES
  pc,              \* pc[w]: where writer w is in qrtr_sock_queue_ctrl_skb
  sent,            \* sent[w]: how many packets it has begun to send
  queue,           \* packets in sk_receive_queue
  charged,         \* sk_rmem_alloc: packets whose buffers are not freed
  signal_on_recv,
  done,            \* rx_queue_has_space is complete
  work,            \* qrtr_ns.work is queued
  nspc,            \* where the worker of the name service is
  open,            \* the control port is assigned
  gaveUp           \* history: the work item ended without reading the queue

sockVars == <<signal_on_recv, done>>
nsVars == <<work, nspc, open, gaveUp>>
vars == <<pc, sent, queue, charged, sockVars, nsVars>>

Init ==
  /\ pc = [w \in Writers |-> "idle"]
  /\ sent = [w \in Writers |-> 0]
  /\ queue = 0 /\ charged = 0
  /\ signal_on_recv = FALSE /\ done = FALSE
  /\ work = FALSE /\ nspc = "idle"
  /\ open = TRUE
  /\ gaveUp = FALSE

Goto(w, from, to) == pc[w] = from /\ pc' = [pc EXCEPT ![w] = to]

-----------------------------------------------------------------------------
(* The writers *)

\* qrtr_port_lookup finds the control socket.
Enqueue(w) ==
  /\ open /\ sent[w] < MaxPkts
  /\ Goto(w, "idle", "try")
  /\ sent' = [sent EXCEPT ![w] = @ + 1]
  /\ UNCHANGED <<queue, charged, sockVars, nsVars>>

\* sock_queue_rcv_skb, as the code relies on it: it queues and charges the
\* packet, and calls data_ready afterwards.
TryQueue(w) ==
  /\ charged < RcvBuf
  /\ Goto(w, "try", "ready")
  /\ queue' = queue + 1 /\ charged' = charged + 1
  /\ UNCHANGED <<sent, sockVars, nsVars>>

\* -ENOMEM from a full queue, or -ENOBUFS when memory is short.
TryFails(w) ==
  /\ Goto(w, "try", "arm")
  /\ UNCHANGED <<sent, queue, charged, sockVars, nsVars>>

\* Mutant: the work item is queued for the first packet in the queue only.
DataReadyFirst(w) ==
  /\ Goto(w, "ready", "idle")
  /\ work' = (work \/ (open /\ queue = 1))
  /\ gaveUp' = (gaveUp /\ ~ open)
  /\ UNCHANGED <<sent, queue, charged, sockVars, nspc, open>>

\* qrtr_ns_data_ready; not called for a dead socket.
DataReady(w) ==
  /\ Goto(w, "ready", "idle")
  /\ work' = (work \/ open)
  /\ gaveUp' = (gaveUp /\ ~ open)
  /\ UNCHANGED <<sent, queue, charged, sockVars, nspc, open>>

\* Under signal_lock.
Arm(w) ==
  /\ Goto(w, "arm", "wait")
  /\ done' = FALSE
  /\ signal_on_recv' = TRUE
  /\ UNCHANGED <<sent, queue, charged, nsVars>>

\* Mutant: complete() instead of complete_all() lets one waiter pass.
WaitedOne(w) ==
  /\ done
  /\ Goto(w, "wait", "try")
  /\ done' = FALSE
  /\ UNCHANGED <<sent, queue, charged, signal_on_recv, nsVars>>

\* wait_for_completion returns; complete_all lets all waiters pass until the
\* completion is initialized again.
Waited(w) ==
  /\ done
  /\ Goto(w, "wait", "try")
  /\ UNCHANGED <<sent, queue, charged, sockVars, nsVars>>

-----------------------------------------------------------------------------
(* The name service *)

NsGoto(from, to) == nspc = from /\ nspc' = to

NsStart ==
  /\ open /\ work
  /\ NsGoto("idle", "recv")
  /\ work' = FALSE
  /\ UNCHANGED <<pc, sent, queue, charged, sockVars, open, gaveUp>>

\* There is no memory for recv_buf: the work item ends.
NsNoMemory ==
  /\ open /\ work /\ nspc = "idle"
  /\ work' = FALSE
  /\ gaveUp' = TRUE
  /\ UNCHANGED <<pc, sent, queue, charged, sockVars, nspc, open>>

\* skb_recv_datagram takes a packet.
NsRecv ==
  /\ queue > 0
  /\ NsGoto("recv", "taken")
  /\ queue' = queue - 1
  /\ gaveUp' = FALSE
  /\ UNCHANGED <<pc, sent, charged, sockVars, work, open>>

\* -EAGAIN
NsEmpty ==
  /\ queue = 0
  /\ NsGoto("recv", "idle")
  /\ UNCHANGED <<pc, sent, queue, charged, sockVars, work, open, gaveUp>>

\* skb_free_datagram
NsFree ==
  /\ NsGoto("taken", "freed")
  /\ charged' = charged - 1
  /\ UNCHANGED <<pc, sent, queue, sockVars, work, open, gaveUp>>

\* Mutant: waiters are only woken when there is more to read.
NsSignalIfMore ==
  /\ NsGoto("freed", "recv")
  /\ done' = (done \/ (signal_on_recv /\ queue > 0))
  /\ signal_on_recv' = FALSE
  /\ UNCHANGED <<pc, sent, queue, charged, work, open, gaveUp>>

\* Under signal_lock; then the packet is handled.
NsSignal ==
  /\ NsGoto("freed", "recv")
  /\ done' = (done \/ signal_on_recv)
  /\ signal_on_recv' = FALSE
  /\ UNCHANGED <<pc, sent, queue, charged, work, open, gaveUp>>

\* qrtr_ns_remove: the worker is stopped, and qrtr_release takes the port
\* away and purges the queue.
NsRemove ==
  /\ open /\ nspc = "idle"
  /\ open' = FALSE
  /\ queue' = 0 /\ charged' = 0
  /\ UNCHANGED <<pc, sent, sockVars, work, nspc, gaveUp>>

-----------------------------------------------------------------------------
WriterStep(w) ==
  \/ TryQueue(w) \/ TryFails(w) \/ DataReady(w) \/ Arm(w) \/ Waited(w)

NsStep == NsStart \/ NsRecv \/ NsEmpty \/ NsFree \/ NsSignal

Next ==
  \/ \E w \in Writers : Enqueue(w) \/ WriterStep(w)
  \/ NsStep \/ NsNoMemory \/ NsRemove

Spec == Init /\ [][Next]_vars

\* Writers inside qrtr_sock_queue_ctrl_skb and the work item are scheduled.
FairSpec ==
  /\ Spec
  /\ \A w \in Writers : WF_vars(WriterStep(w))
  /\ WF_vars(NsStep)

-----------------------------------------------------------------------------
(* Properties *)

\* Every variable has its type, and a packet that is queued or being read is
\* charged to the socket.
TypeOK ==
  /\ pc \in [Writers -> {"idle", "try", "ready", "arm", "wait"}]
  /\ sent \in [Writers -> 0..MaxPkts]
  /\ queue \in 0..RcvBuf /\ charged \in 0..RcvBuf
  /\ charged = queue + (IF nspc = "taken" THEN 1 ELSE 0)
  /\ nspc \in {"idle", "recv", "taken", "freed"}
  /\ signal_on_recv \in BOOLEAN /\ done \in BOOLEAN
  /\ work \in BOOLEAN /\ open \in BOOLEAN /\ gaveUp \in BOOLEAN

\* Whoever waits for room is let through by the next packet that is read: the
\* completion is complete, or signal_on_recv asks qrtr_recvmsg to complete it,
\* however arming and completing interleave.
WaiterSignalled ==
  \A w \in Writers : pc[w] = "wait" => done \/ signal_on_recv

\* Packets do not sit in the queue unread: the work item of the name service is
\* queued or running, or the writer of a packet is about to queue it.
ReceiveComing ==
  queue > 0 => \/ work \/ nspc # "idle"
               \/ \E w \in Writers : pc[w] = "ready"
               \/ gaveUp \/ ~ open

\* What the code does not recover from by itself: a writer armed the signal
\* when all packets were read already, the work item had no memory, or the
\* socket was closed.
Stranded ==
  \/ signal_on_recv /\ charged = 0 /\ nspc \in {"idle", "recv"}
  \/ gaveUp \/ ~ open

\* A writer gets its packet into the queue, unless it is stranded for good: no
\* other packet for the name service comes to wake it.
WriterServed ==
  \A w \in Writers : pc[w] # "idle" ~> (pc[w] = "idle" \/ []Stranded)
=============================================================================
