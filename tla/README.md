# Inter-processor communication of the kernel: TLA+ models and proofs

This directory holds TLA+ models of the inter-processor communication code of
the kernel tree in `src/`, TLC configurations that check them on small
instances, and TLAPS proofs for every instance. Four parts of the tree are
covered: QRTR (`net/qrtr`), the socket family through which the application
processor, the modem, the DSPs and virtual machines find services; the Gunyah
doorbells and message queues (`drivers/virt/gunyah`); the receive intents of
GLINK (`drivers/rpmsg`); and the RPMh controllers (`drivers/soc/qcom`), through
which drivers vote for power resources.

The tree has about 900,000 lines, most of them drivers for hardware that is not
described in it. The models cover a small share of these lines, chosen because
threads, interrupts, processors or VMs meet there.

`PROJECT.json` lists the components, the runs, the mutants (deliberate bugs that
show each property can fail), the source lines of every definition, the
finding, the hazards and the theorems.

## 1. The system

### Parts and how they interact

| Part | Source | State | Operations |
|---|---|---|---|
| Router and sockets | `af_qrtr.c` | port table, socket state (`INIT`, a node, `MULTI`), receive queues | create, bind, sendmsg, recvmsg, release |
| Nodes and endpoints | `af_qrtr.c` | `struct qrtr_node`: `ep`, `nid`, `hello_sent`, `hello_rcvd`, `rx_queue`, worker, reference count | register, unregister, post, rx worker, hello worker |
| Transmit flow control | `af_qrtr.c` | `struct qrtr_tx_flow`: `pending`, `tx_failed`, `waiters`, wait queue | `qrtr_tx_wait`, `qrtr_tx_resume`, `qrtr_tx_flow_failed` |
| Name service | `ns.c` | servers per node, local lookups | HELLO, BYE, NEW/DEL_SERVER, DEL_CLIENT, NEW/DEL_LOOKUP |
| Bridging | `af_qrtr.c` | net ids | forwarding of data and control packets, DEL_PROC |
| Gunyah transport | `gunyah.c` | two rings in memory shared by two VMs, doorbells | send, doorbell callback, VM notifier, probe |
| Doorbells and message queues | `gh_dbl.c`, `gh_msgq.c` | capabilities, interrupts, wait queues | send, receive, register, populate, reset |
| GLINK | `qcom_glink_native.c` | channels, local and remote intents, deferred commands | send, intent request, receive, rx thread, rx done, abort |
| RPMh | `rpmh.c`, `rpmh-rsc.c` | TCSes in use, cached votes, `dirty`, hardware channels | write, write_async, write_batch, interrupt, flush, channel switch |
| Other transports | `genpool.c`, `mhi.c`, `smd.c`, `tun.c` | rings or none | send, receive callbacks |

A packet goes from a socket through `qrtr_sendmsg` to `qrtr_node_enqueue`, which
waits for the flow and calls the transport's `xmit`. On the other side the
transport calls `qrtr_endpoint_post`. DATA goes straight to the receiving
socket. Control packets go to `rx_queue`, and the node's worker hands them to
the control socket, which the name service reads. The name service answers
through ordinary sockets. When a transport goes away the router posts BYE to the
name service and wakes the senders.

The Gunyah transport copies packets into rings that two VMs share and rings a
doorbell. Doorbells and message queues need capabilities that the resource
manager hands out when a VM comes up and takes back when it goes. GLINK carries
channels to the processors without shared memory of their own; data moves only
into buffers (intents) that the receiver has advertised. RPMh is beside all
this: drivers write votes into command sets (TCSes) of a controller, which sends
them to the power manager, at once or when the processor goes to sleep.

The rest of the tree (clocks, PHYs, storage, sound, the wireless stack, the
scheduler extensions and so on) is listed in `PROJECT.json` with the reason why
it is not modelled.

### What is hard here

* Threads in `qrtr_node_enqueue` share one flow and drop the locks between the
  wait, the transmission and the handling of its failure.
* A transport can be unregistered while senders sleep and packets are queued.
* DATA and control packets of one peer take different paths. A broadcast of a
  closing socket takes a shorter path than the announcements of the name service.
* A remote processor or VM may restart at any time, and state kept from its last
  life meets its next one.
* Two VMs read and write indices in shared memory without locks, and sleep until
  the other one raises a doorbell.
* A flag set from the answer of a hypercall may be older than the interrupt that
  should have cleared it.
* Ports, intents and TCSes are used again, and a late interrupt, answer or packet
  may meet the next user.
* Writers sleep on a wait queue whose condition they test under a lock that
  `wait_event_lock_irq` drops.

The hazards in `PROJECT.json` give the lines.

## 2. Modules

| Module | Models |
|---|---|
| `QrtrFlow` | flow control of one destination, with the threads that send to it, the remote socket, RESUME_TX and the life of the node |
| `QrtrNs` | the handlers of the name service |
| `QrtrNet` | name services, sockets and links composed (`EXTENDS QrtrNs`) |
| `QrtrHello` | the HELLO handshake of one endpoint, with failing transmissions |
| `QrtrCtrl` | the bounded queue of the control socket and its waiting writers |
| `QrtrPorts` | the port table, binding and closing, and the reference counts of sockets |
| `PacketFifo` | abstract specification: what a transport owes the router |
| `GunyahPipe` | one direction of the Gunyah transport, down to single accesses to the shared memory |
| `GunyahVm` | both directions over the lives of a secondary VM, with the doorbells of `gh_dbl.c` |
| `GhMsgq` | a message queue with the driver of `gh_msgq.c` at both ends |
| `GlinkIntents` | both sides of an open GLINK channel |
| `RpmhTcs` | active transfers of an RPMh controller |
| `RpmhFlush` | its sleep and wake votes, from the cache to the TCSes |
| `QrtrFlowProofs`, `QrtrPortsProofs`, `GunyahPipeProofs`, `RpmhTcsProofs` | proofs about the module of that name |
| `QrtrControlProofs` | proofs about `QrtrHello` and `QrtrCtrl` |
| `GunyahProofs` | proofs about `GunyahVm` and `GhMsgq` |
| `GlinkIntentsSteps`, `GlinkIntentsProofs` | proofs about `GlinkIntents`: what a step does to the intents, and the theorems |
| `MCQrtrFlow`, `MCQrtrNet`, ... | instances for TLC |

### QrtrFlow

`pending`, `tx_failed` and `waiters` are the fields of `struct qrtr_tx_flow`.
`pc[s]` is where the thread of socket `s` is in `qrtr_node_enqueue`; each step is
what the code does while it holds one lock. A packet is its `confirm_rx` flag.
`wire` is the transport, `rxq` the remote receive queue, `resumes` the answers.
`link` is the life of the node: registered, `ep` cleared, transmitters woken,
freed. `events` is history only: it records losses, and waiters that were not told for
want of memory, which the properties except.

The HELLO handshake is left to `QrtrHello`: here the node has said HELLO. Forwarded
packets, which do not wait, are not modelled.

### QrtrNs and QrtrNet

`servers[n]` and `lookups[n]` are the tables of the name service of node `n`.
`view[c]` and `met[c]` are what sockets know from the packets the name service and
clients sent them. They stand for those packets: `view[c]` holds the servers that
an observer was told of and that were not revoked, and `met[c]` the clients that
a registered server heard from and was not told to forget.

`QrtrNet` adds the links. `up` and `assigned` are the pairs whose `struct
qrtr_node` has an endpoint and a known id. `qrtr_nodes` is the radix tree: under an
id it finds nothing, the struct with the endpoint, or a former struct whose endpoint
is gone and which somebody still holds. `NodeRelease` is the last reference. A new
struct whose id is taken by a former one is not entered, as in `qrtr_node_assign`,
and is then found by broadcasts only. `wire`, `rx_queue` and `inbox` are the three
queues that a control packet passes. `state` is `ipc->state`. `plan[c]` holds the
calls that the user of socket `c` is going to make. Four variables are history, for
the exceptions of the properties: `replaced`, `overtaken`, `late`, `shadowed`.

Abstractions:

* All nodes are direct neighbours in one network, so nothing is forwarded.
* A packet sent to a peer whose endpoint is gone is lost.
* The name service handles a packet and sends its announcements in one step, and
  closing a socket is one step.
* Allocations succeed. This is also why an announcement never fails: what
  `qrtr_bcast_enqueue` sends to the neighbours it answers with 0.
* Both ends of a link register together. The old link is drained by then, but its
  struct may still be in use.
* Ephemeral ports are handed out cyclically, so a port is not used again while
  its DEL_CLIENT is still queued at the local name service.

### GunyahPipe

The unit is the 4-byte word, to which `qrtr_node_enqueue` pads packets. A word is
known by its position in everything ever written; the size word of a header also
carries the size of its packet. A word that is no size word can read as any size,
or as an invalid one. `head`, `tail` and `read_notify` are the shared memory.
`txpc` and `rxpc` split `qrtr_gunyah_send` and `qrtr_gunyah_read` at every access
to what the other side writes. In particular copying words and publishing `head`
are two steps. `spoilt` is history: the reader has read a header before its size
word was there (word `SizeWord`; in the code it is word 6 of 8), or a sender has
given up in the middle of a packet. The code notices neither. `PacketFifo`, which
the ring implements, promises nothing from then on.

Abstractions:

* Memory is sequentially consistent. The write barriers between data and `head`
  justify that for the data; the order of `tail` and `read_notify` is not
  protected by a full barrier, and this is listed as a hazard.
* Doorbells are reliable and coalesce.
* Reading words and advancing `tail` is one step. `UnreadIntact` shows the sender
  cannot touch these words before.
* A packet is sent by one thread at a time, since `qrtr_node_enqueue` holds
  `ep_lock` around `xmit`.

### QrtrHello

`hello_sent` is the counter of `struct qrtr_node`. Two threads go through
`qrtr_node_enqueue`: the worker of the node (`qrtr_hello_work`) and the name
service, which answers the neighbour's HELLO (`ctrl_cmd_hello`) and announces
servers. `pc[t]` separates the three parts between which the code holds no lock:
counting, `ep->xmit`, and counting back after a failure. `wire` is what the
transport took. `lost` is history. A failure of `xmit` makes the name service end the
answer to a HELLO, or go on, as its return values say. That `hello_sent` is reset when
the control socket is released is not modelled.

### QrtrCtrl

The writers are the workers of the nodes and local senders. Packets are counted.
`charged` is `sk_rmem_alloc`: a packet stays charged until `skb_free_datagram`, after
it left the queue. `done` is the completion `rx_queue_has_space`, shared by all
writers. The reader is the work item of the name service, which may find no memory
(`gaveUp`) or be removed (`open`).

### QrtrPorts

`qrtr_ports` is the table, `pc[s]` what the thread that holds `lock_sock` does next.
`qrtr_port_remove` is cut where it gives up control: DEL_CLIENT, the reference it puts
back, the erase. Deliverers look a socket up and use it. `known` is who the name
service takes for the owner of a port. `RefsCount` counts the step in which
`qrtr_port_remove` has put its reference back and not yet erased the entry: a
lookup in that window still finds a live socket, since the owner holds one more.

### GunyahVm

`status` is the VM of `gh_main.c`, `registered` the endpoint of the primary,
`probe` the stages of `qrtr_gunyah_probe` in the secondary. `cap[v]` tells whether
`gh_dbl_populate_cap_info` has run; a doorbell without it fails, and the secondary
retries in a work item. A packet is two words, published one by one; the ring
arithmetic is left to `GunyahPipe`.

### GhMsgq

`stop` is `tx_full` and `rx_empty`, which a hypercall sets and an interrupt clears.
A direction has the same parts in both entries, so that the state is a function of
the side. The hypervisor is external. Two things are assumed of it, which the code
relies on: its interrupts come when a full queue is no longer full and when an empty
one is no longer empty, and an interrupt that nobody has requested yet stays pending.

### GlinkIntents

Side A sends (`__qcom_glink_send`), side B receives (`qcom_glink_rx_data`, the rx
thread and `qcom_glink_rx_done`). An intent has room for a number of 8K chunks. The
first ones are reusable, as `qcom_glink_announce_create` makes them, the others are
made on request. `lock` is `intent_req_lock`; `result` and `received` are what a
requester waits for. `abort_tx` is the end of the remote side. Links deliver in
order. Waiting for room in the FIFO (`qcom_glink_tx`) shows as delay only.

### RpmhTcs and RpmhFlush

In `RpmhTcs` a writer claims a TCS, programs it under `drv->lock` and waits.
`tcs_tx_done` is cut at its locks, one TCS at a time. `req[t]` and `irq.req` are
pointers to requests on the stacks of writers. They dangle once the call has returned;
a dangling pointer signals nobody, or the next call of the same thread if that has its
completion in the same place. `borrowed` is a controller without active TCSes. `solver`
is `in_solver_mode`. `lapses` is history: whether a write did not wait for its
completion, or timed out. Any write may do either. `Plain` says that neither
happened, `Trusted` that no write timed out and that all writes on a borrowed group
waited. The hardware is external: a TCS raises its interrupt only if that is enabled.

`RpmhFlush` has the caches of `rpmh.c` (`order`, `cache`, `batch`, `dirty`), what the
TCSes hold (`hw`), the CPU notifier that flushes for the last CPU, and the hardware
channels of controllers that have them; `channels` says which kind the controller
is. The notifier is cut at its lock: count, `spin_trylock`, flush, unlock, count back.
`rpmh_write_sleep_and_wake` holds no lock between choosing a channel, flushing it and
switching to it, and votes come in between. `find_slots` is modelled with its room, so
that a flush can fail half way. `in_use` are transfers somebody waits for, `firing`
those nobody does, which `rpmh_rsc_ctrlr_is_busy` does not see. The hardware is
external: after a switch it sends the wake votes of the new channel and then says so.
`raced` and `whole` are history.

## 3. Runs

Each component has one run that checks its safety properties together with its
liveness properties, where it has some (`net`, `ports` and `flush` have none).
One more run shows a property that fails.

| Run | Result | Shows |
|---|---|---|
| `flow` | pass | `ConfirmNotLost`, `NoMissedWakeup`, `BacklogBounded`, `StallEnds`: with failing transmissions, a full receive buffer, signals, timeouts, MSG_PEEK, unregistration and a new registration, confirmations and wake-ups are not lost and blocked senders go on, unless a confirm_rx packet was lost or there was no memory to tell a waiter |
| `flow_failed_tx` | violation | `FailedTxMarkNoticed`: a sleeping thread does not notice the mark it waits for |
| `net` | pass | `TablesAgree`, `ObserverAccurate`, `ClientsForgotten` over link failures, crashes and the lives of sockets, with the exceptions the properties name |
| `ctrl` | pass | `WaiterSignalled`, `ReceiveComing`, `WriterServed`: who waits for room gets it, with the exceptions the property names |
| `hello` | pass | `OneHello`, `ServersAnnounced`, `HelloSaid`: two threads and failures, one HELLO, tried until the transport takes it |
| `ports` | pass | `TableAgrees`, `RefsCount`, `OwnersApart`: no socket is freed while it is in use, and a port used again is not taken for its former owner, unless that one's DEL_CLIENT could not be queued |
| `pipe` | pass | `UnreadIntact`, `QueueSpec` (the ring implements `PacketFifo`), `AllPosted` |
| `vm` | pass | `WordsComing`, `WordsRead`: with doorbells that fail and crashes at any point |
| `msgq` | pass | `NoLostWakeup`, `RecvProgress`, `SendProgress` over any number of lives of the VM, except for senders whose entry still said full when the queue was created anew |
| `glink` | pass | `OneUser`, `DataLands`, `IntentsReturn`, `SendsEnd`, `AbortEndsSends`: no buffer has two users, no data is dropped, intents come back, sends end |
| `tcs` | pass | `NoConflict`, `DoneMeansDone`, `NoStray`, `WakeComing`, `WritesEnd`, with active and borrowed TCSes and solver mode: up to the first write that does not wait or times out, `DoneMeansDone` on active TCSes also among writes that do not wait |
| `flush` | pass | `SkipIsRight`, `AllDownFlushed`, `UsedSetWhole`, with one hardware channel or two: no CPU is the last one down with old sets, except in one race, and a channel in use never holds a part of a set |

`net`, `glink` and `flush` also check the type invariant `TypeOK`. It is proved for all
modules except `QrtrNet` and `RpmhFlush`, and for `RpmhTcs` while `Trusted` holds.

### Bounds

* Flow: two sockets, both watermarks 1, a receive buffer of two packets, one packet in
  the transport at a time. Two sockets are enough for one to fail while the other
  sleeps or holds a counted packet. The buffer holds what paced senders may have
  under way (`BacklogBounded`), so it overflows only after a confirmation that let
  them go early; packets and answers are lost at the remote side in other ways too.
  All four properties also held with watermarks 1 and 2, with a buffer of two
  packets (1,129,000 states) and of one, which paced senders overflow (508,256), and
  with 2 and 2 (1,074,182). The three invariants are proved for all watermarks.
* Net: two nodes, one server, one socket that observes and sends, and four scenarios
  (`MCScenarios`) of what the two users do and how many faults come: a server that
  comes back, over a failure; one that is replaced and withdrawn; a client that goes,
  over a failure; and both that come and go. Links come up and go at any time. Three
  more scenarios also held: two servers offered one after the other to an observer,
  with a fault (849,634 states), a server and a client that both go, with a fault
  (1,898,785), and a server that goes, with two faults (9,013,333).
* Hello: two servers and four failures, so that each of the two threads can fail
  more than once.
* Ctrl: three writers, two packets each, room for two: one reads while two wait.
* Ports: three sockets, a deliverer, a low port and one dynamic port, so that a port
  changes hands twice; three bindings. Two sockets on three ports also held
  (1,244,049 states).
* Pipe: a ring of 5 words with 2 in reserve, three packets of 3 or 5 words, the size
  in the second word. A packet of 5 words does not fit in the 3 words of room, and
  the indices wrap at different places in every packet. Packets of 2, 3 and 5 words
  also held (923,409 states).
* VM: two lives, three words per life and direction: a packet and the first half of
  the next. Four words also held for `WordsComing`.
* Message queue: two senders, a receiver, depth 2, no bound on messages or lives.
* GLINK: two senders, messages of one and two chunks, one reusable intent, two sends
  and three requests, so that senders compete both for the intent and the request.
  Three sends with two requests (112,036 states), and four for the invariants
  (726,607), also held.
* RPMh transfers: two writers, two TCSes and two addresses: a transfer runs while a
  writer waits for its address or for a TCS. The configuration stops (`CONSTRAINT`)
  where `Trusted` ends, since no property says anything from there on. All properties
  also held without the constraint on active TCSes, with timeouts (1,790,718 states).
* RPMh votes: two CPUs, one thread, one address with two values, TCS groups of four
  commands, and batches of two and three: a batch of three leaves no room for the
  rest, so that flushes fail half way.

Runs whose system ends when a bound on operations, faults, packets or lives is used
up do not check for deadlock (`net`, `ctrl`, `hello`, `ports`, `pipe`, `vm`, `glink`).
Where such a run has liveness properties, they cover the states that matter.

### Fairness

`flow` and `flow_failed_tx` assume weak fairness of each thread inside
`qrtr_node_enqueue` that can run, of delivery by the transport, of the handling of
RESUME_TX and of the wake-up that ends an unregistration: the kernel schedules
runnable threads and work items. They also assume that the remote application
keeps reading its socket; a remote that stops reading is meant to stop its
senders. They do not assume that anyone sends again, that a signal comes or that
transmissions succeed. `pipe` assumes that both VMs run and that raised
doorbells are delivered.

`hello`, `ctrl`, `vm`, `msgq` and `tcs` assume weak fairness of threads inside the
modelled functions, of work items and of interrupts, and for `tcs` that the hardware
finishes transfers. `vm` assumes that a VM that runs gets through its boot. `msgq`
assumes that receivers call `gh_msgq_recv` again; its properties also assume that
signals stop. `WritesEnd` assumes that new writes stop, since `tcs_wait` is not a
queue. `glink` assumes that the client returns its buffers, and strong fairness of
one step, the allocation of a requested intent by the rx thread: it may fail, and
the code retries it, so that the properties speak of a system that finds memory
sooner or later. `SendsEnd` has the further hypothesis that the wait for an
answer ends after its 10 s, which the `wait_event_timeout` of
`qcom_glink_request_intent` justifies. `AbortEndsSends` does without it.

### The finding, and where the properties stop

`flow_failed_tx`: `qrtr_tx_flow_failed` marks the flow and wakes nobody. A thread
that already sleeps on the full flow is not woken by the mark it waits for. Once
the remote side answers nothing more, it sleeps until a signal or a timeout.

The other properties hold only up to the cases below. Each case is behaviour of the
code that a comment, or the purpose of the function, speaks against. The models
contain it, and the last column says how TLC shows it: the definition or formula to
check instead of the properties of the component's run, and the constants to change
in its configuration. All are invariants (a state predicate listed as a PROPERTY
would be checked in the initial states only) except `SleepersWoken` and the last row,
which are PROPERTYs.

| Where | What happens | Shown by |
|---|---|---|
| `ns.c`, `af_qrtr.c` | the DEL_CLIENT broadcast of a closing server overtakes its own NEW_SERVER announcement; the neighbour lists a closed server | `NeighboursRemoved` |
| `af_qrtr.c` | BYE reaches the name service ahead of packets in the node's `rx_queue`; servers of the lost node come back | `ControllerKnowsGone` |
| `af_qrtr.c` | a link that comes back while its former struct is in use stays out of the table; HELLO is not answered, and the neighbour never hears of the servers | `Quiet => \A e \in up : OfNode(e[2], e[2]) \subseteq OfNode(e[1], e[2])` in `QrtrNet` |
| `ns.c` | `server_add` replaces the server of a port without telling the observers of the old one | `ObserverAccurate` without `replaced` |
| `af_qrtr.c` | when HELLO fails while the neighbour's HELLO is answered, the retry sends HELLO only, and servers registered before stay unknown | `AnnouncedAfterRetry` |
| `gunyah.c` | `qrtr_gunyah_read_new` reads a header of which only a part is published | `MayTimeout = FALSE`, `Reassembled` |
| `gunyah.c` | a send that times out in the middle of a packet leaves its first words in the ring, and the next packet is glued to them | `SizeWord = 1`, `PostedWereSent` |
| `gunyah.c` | the first words of a VM's new life complete the packet its last life began, since `qdev->ring` is not reset | `PostedWhole` |
| `gh_msgq.c` | `gh_msgq_reset_cap_info` leaves `tx_full` set; senders to the next life of the VM wait for an interrupt that an empty queue does not raise (`stale`) | `ResetWhole` |
| `qcom_glink_native.c` | an intent returned between a sender's search and its request makes the sender time out although its request was granted | `TimeoutMeansNoAck` |
| `rpmh-rsc.c` | a writer that slept for a TCS does not look at solver mode again | `solver => in_use = {}` in `RpmhTcs` |
| `rpmh-rsc.c` | a fire-and-forget transfer is invisible to the search for transfers to the same address | `Apart` |
| `rpmh-rsc.c` | a writer that finds its TCS busy with a fire-and-forget transfer sleeps, and the end of that transfer wakes nobody | `SleepersWoken` |
| `rpmh-rsc.c` | on a borrowed wake TCS the late interrupt of a fire-and-forget transfer completes the next request early | `DoneMeansDone` without its hypothesis, `Groups = {TRUE}`, no `CONSTRAINT` |
| `rpmh.c` | a write that timed out in `rpmh_write` leaves a pointer to its stack with the interrupt, which signals the next call of the thread ("Better hope they never finish", says `rpmh_write_batch`) | the same with `Groups = {FALSE}` |
| `rpmh-rsc.c` | `spin_trylock` fails against a CPU that has flushed and goes down too; all CPUs are down with votes that were never written | `AllDownLatest` |
| `rpmh-rsc.c` | all CPUs go down while a fire-and-forget transfer is under way | `AllDown => firing = {}` in `RpmhFlush` |
| `rpmh.c` | an active vote through a borrowed wake TCS wipes wake votes that the next flush does not write again | `Borrowed = TRUE`, `Controllers = {1}`, `SkipIsRight` |
| `rpmh.c` | `dirty` is one flag for two channels; a switch may go to older sets | `\A ch \in {0, 1} : ~ dirty /\ cur = ch => Latest(ch)` in `RpmhFlush` |
| `rpmh-rsc.c` | a switch whose wake votes are not applied in time returns 0 | `[][cur' # cur => applying' = -1]_vars` in `RpmhFlush` |

`WriterServed` excepts what the code does not recover from: a writer that arms
`signal_on_recv` after the last packet was read, a work item without memory, a
closed socket (`Stranded`). `NoConflict`, `NoStray`, `WakeComing` and `WritesEnd`
speak of writes up to the first one that does not wait or times out (`Plain`);
`DoneMeansDone` of those up to `Trusted`. `OwnersApart` excepts ports whose DEL_CLIENT
could not be queued (`silent`), `BacklogBounded` confirmations that answer no
low watermark (`unpaced`), and `StallEnds` losses and waiters that were not told.

## 4. Proofs

`tlapm` checks all of them. They hold for every value of the constants that
satisfies the named assumptions.

The names of the theorems about types end in `Typed` (`FlowTyped`, `PipeTyped` and so
on).

`QrtrFlowProofs` (from `FlowAssumption`: `0 < Low <= High`; any number of sockets, for
the bound at least one and finitely many, `SendersAssumption`):

* `FlowTyped`: `TypeOK`, with `pending <= High`.
* `WakeupsNotMissed`: `NoMissedWakeup`.
* `ConfirmationsNotLost`: `ConfirmNotLost`. The thread that counts up to `Low`
  carries the flag until it transmits it or marks the flow; from there the flag is
  in the transport, in the receive queue or answered.
* `BacklogStaysBounded`: `BacklogBounded`. The invariant `Paced` has two parts. `Token`
  says that at most one request for a confirmation is under way, in one of the places
  from the thread in hand to the answer. `Room` bounds what is unread, and
  what of it lies behind that request: an answer sets `pending` to 0, and what was
  behind the request is then all that is left unread.

The two before the last are inductive together with `TypeOK` and `FlowLife`.
`FlowLife` says that threads that wait have a flow, that no flow means a counter of 0
and no waiters, and that a freed node has no thread inside `qrtr_node_enqueue`. Without
it the step that frees the node could leave a sleeper behind.

`GunyahPipeProofs` (from `PipeAssumption`: `0 < Reserve < Length`, any sizes that
include the size word, with and without timeouts):

* `PipeTyped`: `TypeOK`; both indices stay in the ring.
* `UnreadKept`: `UnreadIntact`. The inductive invariant `PipeInv` adds three
  facts. The chunk the sender computed still fits although `tail` moved (`TxInv`;
  `tail` only moves towards `head`, so the room only grows). Words copied and not
  yet published are also in place (`RingInv`, which counts them as `Pending`). The
  packet being put together is not longer than its size (`RxInv`). The lemmas
  `BehindAdvance` and `BehindHead` are the arithmetic of the ring.
* `PipeIsQueue`: `QueueSpec`, that the ring implements `PacketFifo`. The invariant
  `Unspoilt` says where the packets lie among all words (`Layout`), that the size word
  of each one in the ring is right (`Sized`), and that the reader is in the packet after
  the last one posted (`Progress`). It holds until `spoilt`, as the name says.

`QrtrControlProofs`, about `QrtrHello` (from `HelloAssumption`: a finite set of servers)
and `QrtrCtrl` (`CtrlParams`: a buffer of at least one packet, any number of
writers). `QrtrCtrl` comes in by INSTANCE, as `C`, so that its theorems have
`C!CtrlParams` as a hypothesis:

* `HelloSentOnce`: `OneHello`. The invariant `Once` says who accounts for a
  `hello_sent` of 1: the thread that greets, or the HELLO in `wire`. It is needed
  because counting back is a step of its own: only the thread that counted may do it.
* `ServersTold`: `ServersAnnounced`. The invariant `Announced` speaks of every state
  after the neighbour's HELLO was handled: a server is known, being sent or in the list
  still to be sent, and HELLO precedes it, unless a HELLO is about to fail.
* `WaitersSignalled`: `WaiterSignalled`, inductive with `TypeOK`: who arms the signal
  resets the completion, and only a read that completes it clears the signal.
* `ReceivesComing`: `ReceiveComing`, inductive with `TypeOK`.
* `HelloTyped`, `CtrlTyped`: `TypeOK`, with the charge within `sk_rcvbuf`.

`QrtrPortsProofs` (from `PortsAssumption`: any sockets and ports, finitely many
deliverers):

* `PortsAgree`: `TableAgrees`. The invariant `Table` gives for every stage of binding
  and closing the ports under which the socket is found.
* `PortsTyped`: `TypeOK`; reference counts never go below 0, which rests on `RefsCount`.
* `RefsCounted`: `RefsCount`. It is shown for one socket at a time (`Counted`), from
  `Table` and facts about the cardinality of a set that gains or loses an element.
* `OwnersKeptApart`: `OwnersApart`. The invariant `Trusted` says that whoever the name
  service will take for the owner of a port, once it has read its queue, still has the
  port and has not sent DEL_CLIENT; by `Table` there is one such socket.

`GunyahProofs`, about `GunyahVm` (from `VmAssumption`: any numbers of lives and words)
and `GhMsgq` (`MsgqParams`: any senders, receivers and depth; by INSTANCE, as `M`):

* `WordsAreComing`: `WordsComing`. The invariant adds the stages (`Stages`: which
  endpoints, callbacks and capabilities exist in which state of the VM and the probe)
  and the order of the indices (`Indices`).
* `VmTyped`: `TypeOK`. That `tail` never passes `head` (`Pipes`) rests on `Indices`: the
  secondary's `qrtr_gunyah_fifo_init` resets `head` of one pipe and `tail` of the
  other, after the primary has cleared both.
* `WakeupsCome`: `NoLostWakeup`. The inductive invariant `IInv` adds `Unheard`, that
  an interrupt nobody has requested yet stays pending, and the states of an entry
  over the lives of the VM (`Shape`).
* `MsgqTyped`: `TypeOK`, with at most `Depth` messages.

`RpmhTcsProofs` (from `TcsAssumption`; any writers, TCSes and addresses, active or
borrowed):

* `CompletedIsOver`: `DoneMeansDone`. While `Trusted` holds, `Inv` does: a TCS whose
  interrupt is pending or being handled stays in use (`Reserved`), and each TCS in use,
  and the handler, carries the request of a call that still waits for it, no two the
  same one (`Owners`). With a write that does not wait on a borrowed group, or one that
  times out, `Owners` fails, and so does the property (section 3).
* `NoConflicts`: `NoConflict`. `Completions`: `NoStray`. `WakesCome`: `WakeComing`.
  While `Plain` holds, `Strict` does: a TCS in use works with its interrupt enabled,
  has finished, or is in the hands of the handler (`Places`), and the two properties
  themselves (`Apart`, `SleepersFed`). `Reliable` puts both invariants together.

`GlinkIntentsSteps` and `GlinkIntentsProofs` (from `IntentsAssumption`: any senders,
any lengths of at least one chunk, any numbers of intents, sends and requests, either
kind of data callback, with and without timeouts):

* `OneUserEach`: `OneUser`. `DataAlwaysLands`: `DataLands`. `GlinkTyped`: `TypeOK`. The
  inductive invariant `Sound` has the types (`Typed`), and, while the remote side
  lives, `Whole`: for each intent who uses it (`Single`), what data is on its way to it
  and how much room that needs (`Underway`), and what the sender knows of its size
  (`Known`). `Supply` counts the requests on their way, so that a new intent always
  has an id of its own. That the search for the smallest intent finds one
  (`BestFits`) needs a least element, from the library's theorems on well-founded
  relations.

Only model-checked: everything about `QrtrNet` with `QrtrNs` and about `RpmhFlush`,
and all liveness properties, since the prover does not handle fairness (`StallEnds`,
`HelloSaid`, `WriterServed`, `AllPosted`, `WordsRead`, `RecvProgress`, `SendProgress`,
`IntentsReturn`, `SendsEnd`, `AbortEndsSends`, `WritesEnd`).

## 5. Not modelled

* In `af_qrtr.c`: bridging between networks, `qrtr_reset_ports`, the reset of
  `hello_sent` when the control socket is released, connect and getname,
  backup buffers for atomic allocations, wake-up sources and logging.
* In `ns.c`: start and removal of the name service, failed allocations.
* In `gunyah.c`: sharing of memory, removal of the driver, a failing `skb_to_sgvec`,
  memory that is not sequentially consistent. `tail` and `read_notify` are the one
  place where that matters: the reader has no full barrier between them, so that a
  sender may sleep with room in the ring until its 10 s are over.
* In `gh_msgq.c`: a failing request of the interrupt while a client is registered.
* In `qcom_glink_native.c`: opening and closing of channels, signals, packet
  routing in the FIFOs below and their running full (only the delay shows), wake-up
  sources.
* In `rpmh.c` and `rpmh-rsc.c`: probe, the register layout, debug output on timeouts,
  the PDC and fast-path interfaces.
* Everything `PROJECT.json` lists as `not_modelled`, with the reason. Most of it
  drives hardware whose behaviour is not in the tree, or firmware whose code is not;
  a model would have to invent the other side.
