------------------------------ MODULE GunyahVm ------------------------------
(***************************************************************************)
(* The life of a secondary VM as the transport of net/qrtr/gunyah.c sees   *)
(* it: power-up, probe, crash and power-off, with both directions of the   *)
(* shared memory and the doorbells of drivers/virt/gunyah/gh_dbl.c, which  *)
(* need capabilities that the resource manager hands out at times of its   *)
(* own.  The ring itself is the subject of GunyahPipe: here a pipe has     *)
(* room for all, and a packet is two words that are published one by one.  *)
(***************************************************************************)
EXTENDS Naturals, Sequences

CONSTANTS MaxLives,   \* bound: times the VM is started
          MaxWords    \* bound: words each side publishes in a life

ASSUME VmAssumption == MaxLives \in Nat /\ MaxWords \in Nat

VM == {"p", "s"}      \* the primary and the secondary VM
Peer(v) == IF v = "p" THEN "s" ELSE "p"
PktWords == 2

VARIABLES
  status,      \* vm_status of the secondary: none, ready, loaded, running, exited
  registered,  \* qdev->registered of the primary
  probe,       \* how far the secondary's probe is
  cap,         \* cap[v]: gh_dbl_populate_cap_info was called in v
  up,          \* up[v]: the endpoint of v takes packets
  head, tail,  \* indices of the pipe that v writes, head[v] and tail[v]
  mem,         \* mem[v]: what v wrote there
  kick,        \* kick[v]: a word was published, the doorbell comes next
  work,        \* the retry work of the secondary is queued
  dbl,         \* dbl[v]: doorbell raised by v and not yet delivered
  rx_cb,       \* rx_cb[v]: gh_dbl_rx_register was called in v
  reading,     \* reading[v]: v is in qrtr_gunyah_read, under dbl_lock
  ring,        \* ring[v]: the words of a packet that is not complete
  posted,      \* packets the primary handed to the router
  life         \* number of the secondary's life

pVars == <<status, registered>>
pipeVars == <<head, tail, mem>>
vars == <<pVars, probe, cap, up, pipeVars, kick, work, dbl, rx_cb, reading, ring, posted,
          life>>

Init ==
  /\ status = "none" /\ registered = FALSE /\ probe = "none"
  /\ cap = [v \in VM |-> FALSE] /\ up = [v \in VM |-> FALSE]
  /\ head = [v \in VM |-> 0] /\ tail = [v \in VM |-> 0]
  /\ mem = [v \in VM |-> <<>>]
  /\ kick = [v \in VM |-> FALSE] /\ work = FALSE
  /\ dbl = [v \in VM |-> FALSE]
  /\ rx_cb = [v \in VM |-> v = "p"]
  /\ reading = [v \in VM |-> FALSE]
  /\ ring = [v \in VM |-> <<>>] /\ posted = {} /\ life = 0

-----------------------------------------------------------------------------
(* The primary: gh_main.c and qrtr_gunyah_vm_cb *)

\* gh_vm_init: the VM is ready and its resources are populated.
VmInit ==
  /\ status = "none" /\ life < MaxLives
  /\ status' = "ready" /\ life' = life + 1
  /\ cap' = [cap EXCEPT !["p"] = TRUE]
  /\ UNCHANGED <<registered, probe, up, pipeVars, kick, work, dbl, rx_cb, reading, ring,
                 posted>>

\* qrtr_gunyah_fifo_init of the primary: memset.
FifoInitPrimary ==
  /\ head' = [v \in VM |-> 0] /\ tail' = [v \in VM |-> 0]
  /\ mem' = [v \in VM |-> <<>>]

\* GH_VM_BEFORE_POWERUP: the endpoint sends HELLO as soon as it is registered.
BeforePowerup ==
  /\ status = "ready" /\ ~ registered
  /\ status' = "loaded"
  /\ FifoInitPrimary
  /\ up' = [up EXCEPT !["p"] = TRUE]
  /\ registered' = TRUE
  /\ UNCHANGED <<probe, cap, kick, work, dbl, rx_cb, reading, ring, posted, life>>

\* The same when qrtr_endpoint_register or qrtr_gunyah_share_mem fails.
BeforePowerupFails ==
  /\ status = "ready" /\ ~ registered
  /\ status' = "loaded"
  /\ FifoInitPrimary
  /\ UNCHANGED <<registered, probe, cap, up, kick, work, dbl, rx_cb, reading, ring,
                 posted, life>>

\* gh_vm_start
VmStart ==
  /\ status = "loaded" /\ status' = "running"
  /\ UNCHANGED <<registered, probe, cap, up, pipeVars, kick, work, dbl, rx_cb, reading,
                 ring, posted, life>>

\* qrtr_endpoint_unregister waits for a sender, who holds ep_lock.
Unregister ==
  /\ registered => ~ kick["p"]
  /\ registered' = FALSE
  /\ up' = [up EXCEPT !["p"] = FALSE]

\* gh_vm_start fails: GH_VM_POWERUP_FAIL.  The VM stays to be cleaned up.
PowerupFail ==
  /\ status = "loaded" /\ status' = "exited"
  /\ Unregister
  /\ UNCHANGED <<probe, cap, pipeVars, kick, work, dbl, rx_cb, reading, ring, posted,
                 life>>

\* The secondary stops or crashes at any point: all its state is gone.
VmExit ==
  /\ status = "running" /\ status' = "exited"
  /\ probe' = "none" /\ work' = FALSE
  /\ cap' = [cap EXCEPT !["s"] = FALSE]
  /\ up' = [up EXCEPT !["s"] = FALSE]
  /\ kick' = [kick EXCEPT !["s"] = FALSE]
  /\ dbl' = [dbl EXCEPT !["p"] = FALSE]
  /\ rx_cb' = [rx_cb EXCEPT !["s"] = FALSE]
  /\ reading' = [reading EXCEPT !["s"] = FALSE]
  /\ ring' = [ring EXCEPT !["s"] = <<>>]
  /\ UNCHANGED <<registered, pipeVars, posted, life>>

\* gh_vm_cleanup: gh_rm_unpopulate_hyp_res, which frees the interrupt.  The
\* doorbell objects end with the VM ...
Unpopulate ==
  /\ status = "exited" /\ cap["p"] /\ ~ reading["p"]
  /\ cap' = [cap EXCEPT !["p"] = FALSE]
  /\ dbl' = [v \in VM |-> FALSE]
  /\ UNCHANGED <<pVars, probe, up, pipeVars, kick, work, rx_cb, reading, ring, posted,
                 life>>

\* ... and, after the reset, GH_VM_EARLY_POWEROFF.
EarlyPoweroff ==
  /\ status = "exited" /\ ~ cap["p"]
  /\ status' = "none"
  /\ Unregister
  /\ UNCHANGED <<probe, cap, pipeVars, kick, work, dbl, rx_cb, reading, ring, posted,
                 life>>

-----------------------------------------------------------------------------
(* The secondary: resource manager and qrtr_gunyah_probe *)

\* gh_dbl_populate_cap_info in the secondary, at any time after boot.
Populate ==
  /\ status = "running" /\ ~ cap["s"]
  /\ cap' = [cap EXCEPT !["s"] = TRUE]
  /\ UNCHANGED <<pVars, probe, up, pipeVars, kick, work, dbl, rx_cb, reading, ring, posted,
                 life>>

\* qrtr_gunyah_fifo_init resets what the secondary writes.
ProbeFifoInit ==
  /\ status = "running" /\ registered /\ probe = "none"
  /\ probe' = "init"
  /\ head' = [head EXCEPT !["s"] = 0]
  /\ tail' = [tail EXCEPT !["p"] = 0]
  /\ mem' = [mem EXCEPT !["s"] = <<>>]
  /\ UNCHANGED <<pVars, cap, up, kick, work, dbl, rx_cb, reading, ring, posted, life>>

\* qrtr_endpoint_register
ProbeRegister ==
  /\ probe = "init" /\ probe' = "ep"
  /\ up' = [up EXCEPT !["s"] = TRUE]
  /\ UNCHANGED <<pVars, cap, pipeVars, kick, work, dbl, rx_cb, reading, ring, posted, life>>

\* gh_dbl_rx_register
ProbeRxRegister ==
  /\ probe = "ep" /\ probe' = "rx"
  /\ rx_cb' = [rx_cb EXCEPT !["s"] = TRUE]
  /\ UNCHANGED <<pVars, cap, up, pipeVars, kick, work, dbl, reading, ring, posted, life>>

\* Mutant: the probe trusts the doorbell.
ProbeReadNever ==
  /\ probe = "rx" /\ probe' = "done"
  /\ UNCHANGED <<pVars, cap, up, pipeVars, kick, work, dbl, rx_cb, reading, ring, posted,
                 life>>

\* The end of the probe: read what is there already.
ProbeRead ==
  /\ probe = "rx" /\ probe' = "done"
  /\ ~ reading["s"]
  /\ reading' = [reading EXCEPT !["s"] = head["p"] # tail["p"]]
  /\ UNCHANGED <<pVars, cap, up, pipeVars, kick, work, dbl, rx_cb, ring, posted, life>>

-----------------------------------------------------------------------------
(* Both: sending, doorbells, reading *)

\* gunyah_tx_write of one word.
Publish(v) ==
  /\ up[v] /\ ~ kick[v] /\ head[v] < MaxWords
  /\ mem' = [mem EXCEPT ![v] = Append(@, <<life, head[v]>>)]
  /\ head' = [head EXCEPT ![v] = @ + 1]
  /\ kick' = [kick EXCEPT ![v] = TRUE]
  /\ UNCHANGED <<pVars, probe, cap, up, tail, work, dbl, rx_cb, reading, ring, posted,
                 life>>

\* Mutant: no VM tries again.
KickOnce(v) ==
  /\ kick[v] /\ kick' = [kick EXCEPT ![v] = FALSE]
  /\ dbl' = [dbl EXCEPT ![v] = @ \/ cap[v]]
  /\ UNCHANGED <<pVars, probe, cap, up, pipeVars, work, rx_cb, reading, ring, posted, life>>

\* qrtr_gunyah_kick: without a capability gh_dbl_send fails, and only the
\* secondary tries again.
Kick(v) ==
  /\ kick[v] /\ kick' = [kick EXCEPT ![v] = FALSE]
  /\ dbl' = [dbl EXCEPT ![v] = @ \/ cap[v]]
  /\ work' = (work \/ (~ cap[v] /\ v # "p"))
  /\ UNCHANGED <<pVars, probe, cap, up, pipeVars, rx_cb, reading, ring, posted, life>>

\* qrtr_gunyah_retry_work waits for the capability.
RetryWork ==
  /\ work /\ cap["s"]
  /\ work' = FALSE
  /\ dbl' = [dbl EXCEPT !["s"] = TRUE]
  /\ UNCHANGED <<pVars, probe, cap, up, pipeVars, kick, rx_cb, reading, ring, posted, life>>

\* gh_dbl_rx_callback_thread in v: without a client the interrupt is lost.
Callback(v) ==
  /\ dbl[Peer(v)] /\ cap[v] /\ ~ reading[v]
  /\ dbl' = [dbl EXCEPT ![Peer(v)] = FALSE]
  /\ reading' = [reading EXCEPT ![v] = rx_cb[v]]
  /\ UNCHANGED <<pVars, probe, cap, up, pipeVars, kick, work, rx_cb, ring, posted, life>>

\* One turn of the loop in qrtr_gunyah_read: read_new or read_frag.
Read(v) ==
  LET w    == mem[Peer(v)][tail[Peer(v)] + 1]
      pkt  == Append(ring[v], w)
      full == Len(pkt) = PktWords
  IN  /\ reading[v] /\ head[Peer(v)] # tail[Peer(v)]
      /\ tail' = [tail EXCEPT ![Peer(v)] = @ + 1]
      /\ ring' = [ring EXCEPT ![v] = IF full THEN <<>> ELSE pkt]
      /\ posted' = IF full /\ v = "p" THEN posted \cup {pkt} ELSE posted
      /\ UNCHANGED <<pVars, probe, cap, up, head, mem, kick, work, dbl, rx_cb, reading,
                     life>>

\* The loop ends.
ReadEnd(v) ==
  /\ reading[v] /\ head[Peer(v)] = tail[Peer(v)]
  /\ reading' = [reading EXCEPT ![v] = FALSE]
  /\ UNCHANGED <<pVars, probe, cap, up, pipeVars, kick, work, dbl, rx_cb, ring, posted,
                 life>>

Power == \/ VmInit \/ BeforePowerup \/ BeforePowerupFails \/ VmStart \/ PowerupFail
         \/ VmExit \/ Unpopulate \/ EarlyPoweroff
Boot == Populate \/ ProbeFifoInit \/ ProbeRegister \/ ProbeRxRegister \/ ProbeRead
Transfer(v) == Kick(v) \/ Callback(v) \/ Read(v) \/ ReadEnd(v)

Next == \/ Power \/ Boot \/ RetryWork
        \/ \E v \in VM : Publish(v) \/ Transfer(v)

Spec == Init /\ [][Next]_vars

\* A VM that runs boots, and threads, work and interrupts of both VMs run.
FairSpec == /\ Spec
            /\ WF_vars(Populate) /\ WF_vars(ProbeFifoInit \/ ProbeRegister)
            /\ WF_vars(ProbeRxRegister \/ ProbeRead) /\ WF_vars(RetryWork)
            /\ \A v \in VM : /\ WF_vars(Kick(v)) /\ WF_vars(Callback(v))
                             /\ WF_vars(Read(v) \/ ReadEnd(v))

-----------------------------------------------------------------------------
(* Properties *)

\* Every variable has its type.
TypeOK ==
  /\ status \in {"none", "ready", "loaded", "running", "exited"}
  /\ probe \in {"none", "init", "ep", "rx", "done"}
  /\ {registered, work} \subseteq BOOLEAN
  /\ \A v \in VM : /\ {cap[v], up[v], kick[v], dbl[v], rx_cb[v], reading[v]} \subseteq BOOLEAN
                   /\ head[v] \in 0..MaxWords /\ tail[v] \in 0..head[v]
                   /\ Len(mem[v]) = head[v] /\ Len(ring[v]) < PktWords
  /\ life \in 0..MaxLives

\* While the secondary runs, words it has published or that wait for it are
\* being read, or somebody is still to be told of them: by a doorbell, by the
\* retry work, or by the check at the end of the probe.  The doorbells the
\* primary drops (qrtr_gunyah_kick) are never missed.
WordsComing ==
  (status = "running" /\ registered) =>
    /\ head["p"] # tail["p"] =>
         \/ reading["s"] \/ kick["p"] \/ dbl["p"] \/ probe # "done"
    /\ head["s"] # tail["s"] =>
         reading["p"] \/ kick["s"] \/ work \/ dbl["s"] \/ probe = "none"

\* Every word published while the secondary runs is read, unless it stops.
WordsRead ==
  \A v \in VM : \A k \in 1..MaxWords :
    (status = "running" /\ registered /\ head[v] = k)
      ~> (status # "running" \/ tail[v] >= k)

\* "This information is used to perform link layer fragmentation and
\* re-assembly" (qrtr_peek_pkt_size): the two words of a posted packet belong
\* together, also after the secondary was started again.
PostedWhole ==
  \A pkt \in posted : pkt[1][1] = pkt[2][1] /\ pkt[2][2] = pkt[1][2] + 1
=============================================================================
