------------------------------- MODULE GhMsgq -------------------------------
(***************************************************************************)
(* One hypervisor message queue between two VMs, with the driver of        *)
(* drivers/virt/gunyah/gh_msgq.c at both ends: the cap table entry of the  *)
(* side that sends ("tx") and of the side that receives ("rx").  One side  *)
(* is in the primary VM and outlives the other.  A direction has the same  *)
(* parts in both entries (a capability, an interrupt, a wait queue and a   *)
(* flag that a hypercall sets and the interrupt clears), so that state is  *)
(* a function of the side; pc[t] is where thread t is in gh_msgq_send or   *)
(* gh_msgq_recv.  Messages are counted only: their order is the            *)
(* hypervisor's.                                                           *)
(***************************************************************************)
EXTENDS Naturals

CONSTANTS Senders, Receivers,  \* threads that call gh_msgq_send, gh_msgq_recv
          Depth                \* messages the hypervisor's queue holds

Threads == Senders \cup Receivers
Sides == {"tx", "rx"}

MsgqParams == Depth \in Nat \ {0} /\ Senders \cap Receivers = {}

ASSUME MsgqAssumption == MsgqParams

Side(t) == IF t \in Senders THEN "tx" ELSE "rx"

VARIABLES
  primary,  \* the side that is in the primary VM
  vm,       \* the secondary VM, and with it the queue: none, up, exited
  len,      \* messages in the hypervisor's queue
  stop,     \* stop["tx"]: tx_full, stop["rx"]: rx_empty
  cap,      \* cap[d]: tx_cap_id/tx_irq or rx_cap_id/rx_irq are set
  handler,  \* handler[d]: the interrupt is requested
  pend,     \* pend[d]: the interrupt was raised and is not yet handled
  waking,   \* waking[d]: the handler cleared stop[d] and wakes the queue next
  client,   \* client[d]: client_desc is set
  pc,
  stale     \* history: created while a sender's entry said full, not full since

hyp == <<vm, len, stale>>
vars == <<primary, hyp, stop, cap, handler, pend, waking, client, pc>>

Of(d) == {t \in Threads : Side(t) = d}
Full == len = Depth

\* gh_msgq_alloc_entry
NewEntry(d) == d = "rx"

Init ==
  /\ primary \in Sides
  /\ vm = "none" /\ len = 0 /\ stale = FALSE
  /\ stop = [d \in Sides |-> NewEntry(d)]
  /\ cap = [d \in Sides |-> FALSE] /\ handler = [d \in Sides |-> FALSE]
  /\ pend = [d \in Sides |-> FALSE] /\ waking = [d \in Sides |-> FALSE]
  /\ client = [d \in Sides |-> FALSE]
  /\ pc = [t \in Threads |-> "idle"]

-----------------------------------------------------------------------------
(* The secondary VM, and the queue the resource manager makes for it *)

VmCreate ==
  /\ vm = "none" /\ vm' = "up" /\ len' = 0
  /\ stale' = (stop["tx"] \/ \E s \in Senders : pc[s] = "asleep")
  /\ pend' = [d \in Sides |-> FALSE]
  /\ UNCHANGED <<primary, stop, cap, handler, waking, client, pc>>

\* The VM stops or crashes: the entry and the threads of its side are gone.
VmExit ==
  LET d == IF primary = "tx" THEN "rx" ELSE "tx" IN
  /\ vm = "up" /\ vm' = "exited"
  /\ stop' = [stop EXCEPT ![d] = NewEntry(d)]
  /\ cap' = [cap EXCEPT ![d] = FALSE] /\ handler' = [handler EXCEPT ![d] = FALSE]
  /\ pend' = [pend EXCEPT ![d] = FALSE] /\ waking' = [waking EXCEPT ![d] = FALSE]
  /\ client' = [client EXCEPT ![d] = FALSE]
  /\ pc' = [t \in Threads |-> IF Side(t) = d THEN "idle" ELSE pc[t]]
  /\ UNCHANGED <<primary, len, stale>>

VmDestroy ==
  /\ vm = "exited" /\ ~ cap[primary] /\ ~ handler[primary]
  /\ vm' = "none"
  /\ UNCHANGED <<primary, len, stale, stop, cap, handler, pend, waking, client, pc>>

-----------------------------------------------------------------------------
(* gh_msgq_populate_cap_info and gh_msgq_reset_cap_info *)

RequestIrq(d) ==
  /\ vm = "up" /\ ~ handler[d]
  /\ handler' = [handler EXCEPT ![d] = TRUE]
  /\ UNCHANGED <<primary, hyp, stop, cap, pend, waking, client, pc>>

\* request_irq fails and the entry is freed, here while nobody uses it.
RequestIrqFails(d) ==
  /\ vm = "up" /\ ~ handler[d] /\ ~ client[d] /\ \A t \in Of(d) : pc[t] = "idle"
  /\ stop' = [stop EXCEPT ![d] = NewEntry(d)]
  /\ UNCHANGED <<primary, hyp, cap, handler, pend, waking, client, pc>>

SetCap(d) ==
  /\ vm = "up" /\ handler[d] /\ ~ cap[d]
  /\ cap' = [cap EXCEPT ![d] = TRUE]
  /\ UNCHANGED <<primary, hyp, stop, handler, pend, waking, client, pc>>

\* When the VM has ended.  Only the capability and the interrupt are reset.
ResetCap ==
  /\ vm = "exited" /\ cap[primary]
  /\ cap' = [cap EXCEPT ![primary] = FALSE]
  /\ UNCHANGED <<primary, hyp, stop, handler, pend, waking, client, pc>>

\* free_irq waits for a handler that runs.
FreeIrq ==
  /\ vm = "exited" /\ ~ cap[primary] /\ handler[primary] /\ ~ waking[primary]
  /\ handler' = [handler EXCEPT ![primary] = FALSE]
  /\ pend' = [pend EXCEPT ![primary] = FALSE]
  /\ UNCHANGED <<primary, hyp, stop, cap, waking, client, pc>>

Alive(d) == d = primary \/ vm = "up"

\* gh_msgq_register: one client for a label.
Register(d) ==
  /\ Alive(d) /\ ~ client[d]
  /\ client' = [client EXCEPT ![d] = TRUE]
  /\ UNCHANGED <<primary, hyp, stop, cap, handler, pend, waking, pc>>

\* gh_msgq_unregister, by a client whose threads have left the driver.
Unregister(d) ==
  /\ client[d] /\ \A t \in Of(d) : pc[t] = "idle"
  /\ client' = [client EXCEPT ![d] = FALSE]
  /\ UNCHANGED <<primary, hyp, stop, cap, handler, pend, waking, pc>>

-----------------------------------------------------------------------------
(* gh_msgq_tx_isr and gh_msgq_rx_isr *)

\* Mutant: the handler wakes the queue and leaves the flag.
IsrFlagKept(d) ==
  /\ pend[d] /\ handler[d] /\ ~ waking[d]
  /\ pend' = [pend EXCEPT ![d] = FALSE]
  /\ waking' = [waking EXCEPT ![d] = TRUE]
  /\ UNCHANGED <<primary, hyp, stop, cap, handler, client, pc>>

\* The flag is cleared under tx_lock or rx_lock ...
Isr(d) ==
  /\ pend[d] /\ handler[d] /\ ~ waking[d]
  /\ pend' = [pend EXCEPT ![d] = FALSE]
  /\ stop' = [stop EXCEPT ![d] = FALSE]
  /\ waking' = [waking EXCEPT ![d] = TRUE]
  /\ UNCHANGED <<primary, hyp, cap, handler, client, pc>>

\* Mutant: one thread is woken, as by an exclusive wait.
WakeOne(d) ==
  /\ waking[d]
  /\ waking' = [waking EXCEPT ![d] = FALSE]
  /\ IF \E t \in Of(d) : pc[t] = "asleep"
       THEN \E t \in Of(d) : pc[t] = "asleep" /\ pc' = [pc EXCEPT ![t] = "test"]
       ELSE UNCHANGED pc
  /\ UNCHANGED <<primary, hyp, stop, cap, handler, pend, client>>

\* ... and then every waiter is woken, without the lock.
IsrWake(d) ==
  /\ waking[d]
  /\ waking' = [waking EXCEPT ![d] = FALSE]
  /\ pc' = [t \in Threads |-> IF Side(t) = d /\ pc[t] = "asleep" THEN "test" ELSE pc[t]]
  /\ UNCHANGED <<primary, hyp, stop, cap, handler, pend, client>>

-----------------------------------------------------------------------------
(* gh_msgq_send and gh_msgq_recv *)

Goto(t, from, to) == pc[t] = from /\ pc' = [pc EXCEPT ![t] = to]
Rest == UNCHANGED <<primary, hyp, stop, cap, handler, pend, waking, client>>

\* The call, up to the wait for a capability.
Begin(t) ==
  /\ Alive(Side(t)) /\ client[Side(t)]
  /\ Goto(t, "idle", "cap") /\ Rest

\* The wait ends: populate sets the capability and then wakes the queue.
CapSeen(t) == cap[Side(t)] /\ Goto(t, "cap", "irq") /\ Rest

\* tx_irq or rx_irq, under cap_entry_lock: -EAGAIN when it was reset since.
IrqCheck(t) == Goto(t, "irq", IF cap[Side(t)] THEN "test" ELSE "idle") /\ Rest

\* wait_event looks at the flag, without the lock, and sleeps or goes on.
Test(t) == Goto(t, "test", IF stop[Side(t)] THEN "asleep" ELSE "call") /\ Rest

\* A wait ends with -ERESTARTSYS, or, under GH_MSGQ_NONBLOCK, with -EAGAIN.
Interrupted(t) ==
  \E from \in {"cap", "asleep"} : Goto(t, from, "idle") /\ Rest

\* The hypercall is refused: no capability.
Refused(t) == ~ cap[Side(t)] /\ Goto(t, "call", "idle") /\ Rest

\* __gh_msgq_send: the hypercall and the flag are one step, under tx_lock with
\* interrupts off.  The receiver's interrupt is raised when the queue was
\* empty, or when the caller pushes (GH_MSGQ_TX_PUSH).
Send(s) ==
  /\ cap["tx"] /\ ~ Full
  /\ Goto(s, "call", "idle")
  /\ len' = len + 1
  /\ stop' = [stop EXCEPT !["tx"] = (len' = Depth)]
  /\ stale' = (stale /\ len' # Depth)
  /\ \E push \in BOOLEAN : pend' = [pend EXCEPT !["rx"] = @ \/ len = 0 \/ push]
  /\ UNCHANGED <<primary, vm, cap, handler, waking, client>>

\* GH_ERROR_MSGQUEUE_FULL: -EAGAIN, and the loop waits again.
SendFull(s) ==
  /\ cap["tx"] /\ Full
  /\ Goto(s, "call", "test")
  /\ stop' = [stop EXCEPT !["tx"] = TRUE]
  /\ UNCHANGED <<primary, hyp, cap, handler, pend, waking, client>>

\* Mutant: the flag is set whatever not_empty says.
RecvAlwaysEmpty(r) ==
  /\ cap["rx"] /\ len > 0
  /\ Goto(r, "call", "idle")
  /\ len' = len - 1
  /\ stop' = [stop EXCEPT !["rx"] = TRUE]
  /\ pend' = [pend EXCEPT !["tx"] = @ \/ Full]
  /\ UNCHANGED <<primary, vm, stale, cap, handler, waking, client>>

\* __gh_msgq_recv, under rx_lock.  The sender's interrupt is raised when the
\* queue was full.
Recv(r) ==
  /\ cap["rx"] /\ len > 0
  /\ Goto(r, "call", "idle")
  /\ len' = len - 1
  /\ stop' = [stop EXCEPT !["rx"] = (len' = 0)]
  /\ pend' = [pend EXCEPT !["tx"] = @ \/ Full]
  /\ UNCHANGED <<primary, vm, stale, cap, handler, waking, client>>

\* GH_ERROR_MSGQUEUE_EMPTY: -EAGAIN, and the loop waits again.
RecvEmpty(r) ==
  /\ cap["rx"] /\ len = 0
  /\ Goto(r, "call", "test")
  /\ stop' = [stop EXCEPT !["rx"] = TRUE]
  /\ UNCHANGED <<primary, hyp, cap, handler, pend, waking, client>>

-----------------------------------------------------------------------------
SomeSend == \E s \in Senders : Send(s)
SomeRecv == \E r \in Receivers : Recv(r)

Next ==
  \/ VmCreate \/ VmExit \/ VmDestroy \/ ResetCap \/ FreeIrq
  \/ \E d \in Sides : \/ RequestIrq(d) \/ RequestIrqFails(d) \/ SetCap(d)
                      \/ Register(d) \/ Unregister(d) \/ Isr(d) \/ IsrWake(d)
  \/ \E t \in Threads : \/ Begin(t) \/ CapSeen(t) \/ IrqCheck(t) \/ Test(t)
                        \/ Interrupted(t) \/ Refused(t)
  \/ \E s \in Senders : Send(s) \/ SendFull(s)
  \/ \E r \in Receivers : Recv(r) \/ RecvEmpty(r)

Spec == Init /\ [][Next]_vars

\* Threads in a call run, interrupts arrive and are handled, the resource
\* manager populates a running VM, and a receiving thread calls again and
\* again.  Nothing makes a VM start or stop, a client register or a sender send.
Fairness ==
  /\ \A d \in Sides : /\ WF_vars(RequestIrq(d)) /\ WF_vars(SetCap(d))
                      /\ WF_vars(Isr(d)) /\ WF_vars(IsrWake(d))
  /\ \A t \in Threads : /\ WF_vars(CapSeen(t)) /\ WF_vars(IrqCheck(t))
                        /\ WF_vars(Test(t)) /\ WF_vars(Refused(t))
  /\ \A s \in Senders : WF_vars(Send(s)) /\ WF_vars(SendFull(s))
  /\ \A r \in Receivers : WF_vars(Begin(r)) /\ WF_vars(Recv(r)) /\ WF_vars(RecvEmpty(r))

LiveSpec == Spec /\ Fairness

-----------------------------------------------------------------------------
(* Properties *)

TypeOK ==
  /\ primary \in Sides /\ vm \in {"none", "up", "exited"}
  /\ len \in 0..Depth /\ stale \in BOOLEAN
  /\ \A f \in {stop, cap, handler, pend, waking, client} : f \in [Sides -> BOOLEAN]
  /\ pc \in [Threads -> {"idle", "cap", "irq", "test", "asleep", "call"}]

\* There is something for the threads of side d to do.  A new queue whose sender's
\* entry still says that the old one is full (stale) counts as full.
Ready(d) == IF d = "tx" THEN len < Depth /\ ~ stale ELSE len > 0

\* No wake-up is lost: as long as the queue lives, a flag that says stop while
\* there is room (or a message) has an interrupt on its way that will clear it,
\* and a thread that sleeps then is about to be woken.  The flag comes from a
\* hypercall that another thread's hypercall or the interrupt may overtake, and
\* it is read without the lock.  Senders of a queue that was created anew while
\* their entry said full are excepted, until it is full for once: the reset
\* leaves the flag as it is (see ResetWhole).
NoLostWakeup ==
  vm = "up" =>
    \A d \in Sides : Ready(d) =>
      /\ stop[d] => pend[d]
      /\ \A t \in Of(d) : pc[t] = "asleep" => pend[d] \/ waking[d]

\* "The function resets all the msgq related info" (comment of
\* gh_msgq_reset_cap_info): once the reset is done, the sender's entry says of
\* the queue what a new entry says.
ResetWhole == ~ cap["tx"] /\ ~ handler["tx"] => stop["tx"] = NewEntry("tx")

\* From some point on no wait is interrupted.
NoSignals == <>[][~ \E t \in Threads : Interrupted(t)]_vars

\* Messages move: while the VM runs and has a client that receives, a queue that
\* holds messages for ever is one from which messages are received for ever.
RecvProgress ==
  NoSignals => (<>[](vm = "up" /\ client["rx"] /\ len > 0) => []<><<SomeRecv>>_vars)

\* A sender that waits for room waits only while others get theirs: the
\* interrupt that follows a receive reaches gh_msgq_send's wait.  (Not so after a
\* queue was created anew while their entry said full.)
SendProgress ==
  NoSignals =>
    (<>[](/\ vm = "up" /\ client["rx"] /\ ~ stale
          /\ \E s \in Senders : pc[s] \in {"test", "asleep", "call"}) => []<><<SomeSend>>_vars)
=============================================================================
