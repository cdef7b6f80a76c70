------------------------------ MODULE QrtrPorts -----------------------------
(***************************************************************************)
(* The port table of net/qrtr/af_qrtr.c: binding, binding again and        *)
(* closing of sockets, against delivery of packets that look a port up and *)
(* against the name service, which knows sockets by their port only.       *)
(* lock_sock lets one thread at a time work on a socket; qrtr_port_lock    *)
(* covers a single access to the table.                                    *)
(***************************************************************************)
EXTENDS Naturals, Sequences, FiniteSets, FiniteSetsExt, TLC

CONSTANTS Sockets,
          Deliverers,   \* threads in qrtr_endpoint_post or qrtr_local_enqueue
          MinEph,       \* QRTR_MIN_EPH_SOCKET
          MaxEph,       \* QRTR_MAX_EPH_SOCKET
          Admins,       \* sockets of processes that may use low ports
          NoSocket,
          MaxSends,     \* bound: requests to the name service
          MaxBinds      \* bound: successful bindings

ASSUME PortsAssumption ==
  /\ MinEph \in Nat \ {0} /\ MaxEph \in Nat /\ MinEph <= MaxEph
  /\ NoSocket \notin Sockets
  /\ IsFiniteSet(Deliverers)

Ports == 1..MaxEph      \* below MinEph only for Admins

VARIABLES
  qrtr_ports,   \* qrtr_ports[p]: the socket of port p or NoSocket
  ports_next,   \* qrtr_ports_next, where the search for a free port begins
  sq_port,      \* sq_port[s]: us.sq_port, 0 while SOCK_ZAPPED
  port,         \* port[s]: the local variable of __qrtr_bind
  pc,           \* pc[s]: what the thread that has locked s does next
  refs,         \* refs[s]: sk_refcnt
  found,        \* found[d]: what the deliverer has looked up
  ctrl,         \* the queue of the control socket
  known,        \* known[p]: who the name service takes for the owner of port p
  sends, binds,
  silent        \* history: ports whose DEL_CLIENT found no memory

vars == <<qrtr_ports, ports_next, sq_port, port, pc, refs, found, ctrl, known,
          sends, binds, silent>>

Init ==
  /\ qrtr_ports = [p \in Ports |-> NoSocket]
  /\ ports_next = MinEph
  /\ sq_port = [s \in Sockets |-> 0]
  /\ port = [s \in Sockets |-> 0]
  /\ pc = [s \in Sockets |-> "idle"]
  /\ refs = [s \in Sockets |-> 1]
  /\ found = [d \in Deliverers |-> NoSocket]
  /\ ctrl = <<>>
  /\ known = [p \in Ports |-> NoSocket]
  /\ sends = 0 /\ binds = 0 /\ silent = {}

Hold(s) == refs' = [refs EXCEPT ![s] = @ + 1]
Put(s) == refs' = [refs EXCEPT ![s] = @ - 1]
Goto(s, from, to) == pc[s] = from /\ pc' = [pc EXCEPT ![s] = to]

-----------------------------------------------------------------------------
(* Binding *)

Free == {p \in MinEph..MaxEph : qrtr_ports[p] = NoSocket}

\* xa_alloc_cyclic: the first free port from ports_next on, else from MinEph.
Cyclic == LET ahead == {p \in Free : p >= ports_next}
          IN  IF ahead # {} THEN Min(ahead) ELSE Min(Free)

\* qrtr_ports_next after port p was handed out.
Wrap(p) == IF p = MaxEph THEN MinEph ELSE p + 1

\* qrtr_port_assign
Assign(s, p) ==
  /\ qrtr_ports[p] = NoSocket
  /\ qrtr_ports' = [qrtr_ports EXCEPT ![p] = s]
  /\ port' = [port EXCEPT ![s] = p]
  /\ Hold(s)

\* __qrtr_bind up to the unlock.  A socket that has a port gives it up next.
Bind(s, want) ==
  /\ binds < MaxBinds /\ binds' = binds + 1
  /\ \/ /\ want = 0 /\ Free # {}
        /\ Assign(s, Cyclic)
        /\ ports_next' = Wrap(Cyclic)
     \/ /\ want # 0 /\ want # sq_port[s]
        /\ want < MinEph => s \in Admins
        /\ Assign(s, want)
        /\ UNCHANGED ports_next
  /\ Goto(s, "idle", IF sq_port[s] = 0 THEN "bound" ELSE "leave")
  /\ UNCHANGED <<sq_port, found, ctrl, known, sends, silent>>

\* The end of __qrtr_bind.
Bound(s) ==
  /\ Goto(s, "bound", "idle")
  /\ sq_port' = [sq_port EXCEPT ![s] = port[s]]
  /\ UNCHANGED <<qrtr_ports, ports_next, port, refs, found, ctrl, known, sends,
                 binds, silent>>

-----------------------------------------------------------------------------
(* qrtr_port_remove, from __qrtr_bind ("leave") and qrtr_release ("close") *)

After(s) == IF pc[s] = "leave" THEN "left" ELSE "closed"

\* Mutant: the port is erased before DEL_CLIENT is sent.
SendDelClientLate(s) ==
  /\ pc[s] \in {"leave", "close"}
  /\ \/ /\ qrtr_ports[sq_port[s]] = s
        /\ qrtr_ports' = [qrtr_ports EXCEPT ![sq_port[s]] = NoSocket]
        /\ UNCHANGED <<pc, ctrl>>
     \/ /\ qrtr_ports[sq_port[s]] # s
        /\ pc' = [pc EXCEPT ![s] = After(s)]
        /\ ctrl' = Append(ctrl, [cmd |-> "DEL_CLIENT", port |-> sq_port[s], sock |-> s])
        /\ UNCHANGED qrtr_ports
  /\ UNCHANGED <<ports_next, sq_port, port, refs, found, known, sends, binds, silent>>

\* qrtr_send_del_client: the name service is told first.
SendDelClient(s) ==
  /\ pc[s] \in {"leave", "close"}
  /\ pc' = [pc EXCEPT ![s] = After(s)]
  /\ ctrl' = Append(ctrl, [cmd |-> "DEL_CLIENT", port |-> sq_port[s], sock |-> s])
  /\ UNCHANGED <<qrtr_ports, ports_next, sq_port, port, refs, found, known, sends,
                 binds, silent>>

\* There is no memory for the packet, or no room in the queue.
SendDelClientFails(s) ==
  /\ pc[s] \in {"leave", "close"}
  /\ pc' = [pc EXCEPT ![s] = After(s)]
  /\ silent' = silent \cup {sq_port[s]}
  /\ UNCHANGED <<qrtr_ports, ports_next, sq_port, port, refs, found, ctrl, known,
                 sends, binds>>

\* __sock_put
PortPut(s) ==
  /\ pc[s] \in {"left", "closed"}
  /\ pc' = [pc EXCEPT ![s] = IF pc[s] = "left" THEN "erase" ELSE "eraseLast"]
  /\ Put(s)
  /\ UNCHANGED <<qrtr_ports, ports_next, sq_port, port, found, ctrl, known, sends,
                 binds, silent>>

\* Mutant: the new port is erased instead of the old one.
PortEraseNew(s) ==
  /\ pc[s] \in {"erase", "eraseLast"}
  /\ pc' = [pc EXCEPT ![s] = IF pc[s] = "erase" THEN "bound" ELSE "purge"]
  /\ qrtr_ports' = [qrtr_ports EXCEPT ![port[s]] = NoSocket]
  /\ UNCHANGED <<ports_next, sq_port, port, refs, found, ctrl, known, sends, binds,
                 silent>>

\* xa_erase
PortErase(s) ==
  /\ pc[s] \in {"erase", "eraseLast"}
  /\ pc' = [pc EXCEPT ![s] = IF pc[s] = "erase" THEN "bound" ELSE "purge"]
  /\ qrtr_ports' = [qrtr_ports EXCEPT ![sq_port[s]] = NoSocket]
  /\ UNCHANGED <<ports_next, sq_port, port, refs, found, ctrl, known, sends, binds,
                 silent>>

-----------------------------------------------------------------------------
(* qrtr_release *)

Release(s) ==
  /\ Goto(s, "idle", IF sq_port[s] = 0 THEN "purge" ELSE "close")
  /\ UNCHANGED <<qrtr_ports, ports_next, sq_port, port, refs, found, ctrl, known,
                 sends, binds, silent>>

\* skb_queue_purge (contents of receive queues are left out), release_sock and the
\* sock_put of the owner.
Purge(s) ==
  /\ Goto(s, "purge", "gone")
  /\ Put(s)
  /\ UNCHANGED <<qrtr_ports, ports_next, sq_port, port, found, ctrl, known, sends, binds,
                 silent>>

-----------------------------------------------------------------------------
(* Delivery, requests and the name service *)

\* Mutant: the reference is not taken under qrtr_port_lock.
PortLookupNoHold(d, p) ==
  /\ found[d] = NoSocket /\ qrtr_ports[p] # NoSocket
  /\ found' = [found EXCEPT ![d] = qrtr_ports[p]]
  /\ UNCHANGED <<qrtr_ports, ports_next, sq_port, port, pc, refs, ctrl, known,
                 sends, binds, silent>>

\* qrtr_port_lookup
PortLookup(d, p) ==
  /\ found[d] = NoSocket /\ qrtr_ports[p] # NoSocket
  /\ found' = [found EXCEPT ![d] = qrtr_ports[p]]
  /\ Hold(qrtr_ports[p])
  /\ UNCHANGED <<qrtr_ports, ports_next, sq_port, port, pc, ctrl, known, sends,
                 binds, silent>>

\* sock_queue_rcv_skb or qrtr_sock_queue_ctrl_skb, then qrtr_port_put.
PortPutBack(d) ==
  /\ found[d] # NoSocket
  /\ found' = [found EXCEPT ![d] = NoSocket]
  /\ Put(found[d])
  /\ UNCHANGED <<qrtr_ports, ports_next, sq_port, port, pc, ctrl, known, sends, binds,
                 silent>>

\* qrtr_sendmsg of NEW_SERVER or NEW_LOOKUP to the name service.
Request(s) ==
  /\ pc[s] = "idle" /\ sq_port[s] # 0
  /\ sends < MaxSends /\ sends' = sends + 1
  /\ ctrl' = Append(ctrl, [cmd |-> "NEW", port |-> sq_port[s], sock |-> s])
  /\ UNCHANGED <<qrtr_ports, ports_next, sq_port, port, pc, refs, found, known,
                 binds, silent>>

\* qrtr_ns_worker, which goes by the port a packet came from.
NsWorker ==
  /\ ctrl # <<>>
  /\ ctrl' = Tail(ctrl)
  /\ known' = [known EXCEPT ![Head(ctrl).port] =
                 IF Head(ctrl).cmd = "NEW" THEN Head(ctrl).sock ELSE NoSocket]
  /\ UNCHANGED <<qrtr_ports, ports_next, sq_port, port, pc, refs, found, sends,
                 binds, silent>>

Next ==
  \/ \E s \in Sockets :
       \/ \E want \in {0} \cup Ports : Bind(s, want)
       \/ Bound(s) \/ SendDelClient(s) \/ SendDelClientFails(s)
       \/ PortPut(s) \/ PortErase(s)
       \/ Release(s) \/ Purge(s) \/ Request(s)
  \/ \E d \in Deliverers : \/ \E p \in Ports : PortLookup(d, p)
                           \/ PortPutBack(d)
  \/ NsWorker

Spec == Init /\ [][Next]_vars

-----------------------------------------------------------------------------
(* Properties *)

PortsOf(s) == {p \in Ports : qrtr_ports[p] = s}

\* Every variable has its type.
TypeOK ==
  /\ qrtr_ports \in [Ports -> Sockets \cup {NoSocket}]
  /\ ports_next \in MinEph..MaxEph
  /\ sq_port \in [Sockets -> {0} \cup Ports]
  /\ pc \in [Sockets -> {"idle", "bound", "leave", "left", "erase",
                         "close", "closed", "eraseLast", "purge", "gone"}]
  /\ port \in [Sockets -> {0} \cup Ports]
  /\ refs \in [Sockets -> Nat]
  /\ found \in [Deliverers -> Sockets \cup {NoSocket}]
  /\ \A i \in DOMAIN ctrl : ctrl[i].port \in Ports

\* A socket that is not being bound or closed is found under the port it takes
\* for its own, and under no other; a low port belongs to an admin.
TableAgrees ==
  \A s \in Sockets :
    /\ pc[s] = "idle" => PortsOf(s) = {sq_port[s]} \ {0}
    /\ pc[s] = "gone" => PortsOf(s) = {}
    /\ s \notin Admins => PortsOf(s) \subseteq MinEph..MaxEph

\* Whoever can reach a socket counts in sk_refcnt: the table (until
\* qrtr_port_remove puts it back, a step ahead of the erase), the owner, and
\* every thread that looked it up.  So no socket is freed while it is in use.
RefsCount ==
  \A s \in Sockets :
    refs[s] = Cardinality(PortsOf(s)) + Cardinality({d \in Deliverers : found[d] = s})
              + (IF pc[s] = "gone" THEN 0 ELSE 1)
              - (IF pc[s] \in {"erase", "eraseLast"} THEN 1 ELSE 0)

\* The socket that the name service takes for the owner of port p, if any, when it
\* has handled the first n messages of q and took k for it before.
OwnerAfter(q, n, p, k) ==
  {s \in Sockets :
     \/ k = s /\ \A i \in 1..n : q[i].port # p
     \/ \E i \in 1..n : /\ q[i].cmd = "NEW" /\ q[i].port = p /\ q[i].sock = s
                        /\ \A j \in i + 1..n : q[j].port # p}

\* The name service never takes one socket for another: what it knows of a port
\* and what is queued for it come from one owner after the other, with
\* DEL_CLIENT between them, although ports are used again.  Ports are excepted
\* whose owner was closed without a DEL_CLIENT reaching the queue (silent).
OwnersApart ==
  \A n \in DOMAIN ctrl :
    LET p == ctrl[n].port
    IN  p \notin silent => OwnerAfter(ctrl, n - 1, p, known[p]) \subseteq {ctrl[n].sock}
=============================================================================
