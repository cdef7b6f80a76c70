------------------------------ MODULE QrtrNet -------------------------------
(***************************************************************************)
(* Name services, sockets and links composed: the control plane of         *)
(* net/qrtr/af_qrtr.c around QrtrNs.  Each ordered pair e = <<n, m>> has   *)
(* the struct qrtr_node that n keeps for its neighbour m, and the packets  *)
(* from n to m.  All nodes are direct neighbours.                          *)
(***************************************************************************)
EXTENDS QrtrNs

CONSTANTS
  Scenarios    \* bound: each has in plan[c] the operations that the user of socket c
               \* has in mind, and in faults how often links may fail or nodes crash

VARIABLES
  up,          \* pairs with node->ep # NULL
  assigned,    \* pairs with node->nid # QRTR_EP_NID_AUTO
  qrtr_nodes,  \* what e[1] finds under the id e[2]: "none", "node", the struct
               \* with the endpoint, or "former", one without that is still in use
  hello_sent, hello_rcvd,
  wire,        \* wire[e]: packets on their way from e[1] to e[2]
  rx_queue,    \* rx_queue[e]: packets from e[2] for the worker of e[1]
  inbox,       \* inbox[n]: the receive queue of the control socket
  state,       \* state[c]: ipc->state, "INIT", "MULTI" or a node
  plan,        \* plan[c]: the operations to come
  faults,      \* how many may still come
  overtaken,   \* history: sockets that were closed while their name service still
               \* had to announce them
  late,        \* history: pairs whose endpoint went with a NEW_SERVER in rx_queue
  shadowed     \* history: pairs whose struct came while a former one was in use

links == <<up, assigned, qrtr_nodes>>
linkVars == <<links, hello_rcvd, rx_queue>>
history == <<overtaken, late, shadowed>>
vars == <<nsVars, linkVars, hello_sent, wire, inbox, state, plan, faults, history>>

Pairs == {e \in Nodes \X Nodes : e[1] # e[2]}
Rev(e) == <<e[2], e[1]>>

Init ==
  /\ NsInit
  /\ up = {} /\ assigned = {} /\ qrtr_nodes = [e \in Pairs |-> "none"]
  /\ hello_sent = {} /\ hello_rcvd = {}
  /\ wire = [e \in Pairs |-> <<>>]
  /\ rx_queue = [e \in Pairs |-> <<>>]
  /\ inbox = [n \in Nodes |-> <<>>]
  /\ state = [c \in Clients |-> "INIT"]
  /\ \E s \in Scenarios : plan = s.plan /\ faults = s.faults
  /\ overtaken = {} /\ late = {} /\ shadowed = {}

-----------------------------------------------------------------------------
(* Sending *)

\* qrtr_node_enqueue: one HELLO, and nothing else before it.  ep->xmit
\* delivers as long as the peer has its endpoint.
NodeEnqueue(e, pkts) ==
  IF ~ {e, Rev(e)} \subseteq up THEN <<>>
  ELSE IF e \in hello_sent THEN SelectSeq(pkts, LAMBDA p : p.cmd # "HELLO")
  ELSE IF pkts # <<>> /\ Head(pkts).cmd = "HELLO" THEN pkts ELSE <<>>

\* The neighbours that qrtr_bcast_enqueue or qrtr_node_lookup finds; a former
\* struct has no endpoint to send to.
Reached(n, to) ==
  {e \in assigned : e[1] = n /\ (to = Bcast \/ (e[2] = to /\ qrtr_nodes[e] = "node"))}

Transmit(n, to, pkts) ==
  /\ wire' = [e \in Pairs |-> IF e \in Reached(n, to)
                              THEN wire[e] \o NodeEnqueue(e, pkts) ELSE wire[e]]
  /\ hello_sent' = IF \E i \in DOMAIN pkts : pkts[i].cmd = "HELLO"
                   THEN hello_sent \cup Reached(n, to) ELSE hello_sent

\* qrtr_local_enqueue to the control socket.
Post(n, pkt) == inbox' = [inbox EXCEPT ![n] = Append(@, pkt)]

-----------------------------------------------------------------------------
(* The sockets *)

\* The next operation of socket c.
Operation(c, op) ==
  /\ plan[c] # <<>> /\ op = Head(plan[c])
  /\ plan' = [plan EXCEPT ![c] = Tail(@)]
  /\ UNCHANGED <<faults, linkVars, servers, lookups, replaced, late, shadowed>>

DelClientPkt(c) == [cmd |-> "DEL_CLIENT", from |-> c, client |-> c]

\* sendmsg of a control packet to the local name service; it binds the socket
\* if need be (qrtr_autobind).  Ephemeral ports are handed out cyclically
\* (qrtr_port_assign): none is used again while the name service still has to
\* hear that it was closed.
Request(c, pkt) ==
  /\ ~ Contains(inbox[c[1]], DelClientPkt(c))
  /\ open' = open \cup {c}
  /\ Post(c[1], pkt)
  /\ state' = IF pkt.cmd = "NEW_SERVER" THEN [state EXCEPT ![c] = "MULTI"] ELSE state
  /\ UNCHANGED <<hello_sent, wire, view, met, overtaken>>

\* sendmsg of DATA to a remote server the socket was told of.
SendData(c, srv) ==
  /\ c \in open
  /\ qrtr_nodes[<<c[1], srv.node>>] # "none"
  /\ state' = [state EXCEPT ![c] = IF @ \in {"INIT", srv.node} THEN srv.node ELSE "MULTI"]
  /\ Transmit(c[1], srv.node, <<[cmd |-> "DATA", from |-> c, to |-> Addr(srv)]>>)
  /\ UNCHANGED <<inbox, open, view, met, overtaken>>

\* The nodes that may know the socket are told directly, the local name
\* service through its queue.
SendDelClient(c) ==
  /\ CASE state[c] = "INIT"  -> UNCHANGED <<wire, hello_sent>>
       [] state[c] = "MULTI" -> Transmit(c[1], Bcast, <<DelClientPkt(c)>>)
       [] OTHER              -> Transmit(c[1], state[c], <<DelClientPkt(c)>>)
  /\ Post(c[1], DelClientPkt(c))

\* What still makes the name service announce the server of c.
Announces(c, pkt) == pkt.cmd = "HELLO" \/ (pkt.cmd = "NEW_SERVER" /\ pkt.from = c)

\* qrtr_release and qrtr_port_remove.
Close(c) ==
  /\ c \in open
  /\ overtaken' = IF \E i \in DOMAIN inbox[c[1]] : Announces(c, inbox[c[1]][i])
                  THEN overtaken \cup {c} ELSE overtaken
  /\ SendDelClient(c)
  /\ open' = open \ {c}
  /\ state' = [state EXCEPT ![c] = "INIT"]
  /\ view' = [view EXCEPT ![c] = {}]
  /\ met' = [met EXCEPT ![c] = {}]

SocketStep(c) == \E op \in UNION {Range(s.plan[c]) : s \in Scenarios} :
  /\ Operation(c, op)
  /\ \/ op.cmd = "CLOSE" /\ Close(c)
     \/ op.cmd = "DATA" /\ \E srv \in view[c] : SendData(c, srv)
     \/ /\ op.cmd \in {"NEW_SERVER", "DEL_SERVER"}
        /\ Request(c, [cmd |-> op.cmd, from |-> c, server |-> Server(op.of[1], op.of[2], c)])
     \/ /\ op.cmd \in {"NEW_LOOKUP", "DEL_LOOKUP"}
        /\ Request(c, [cmd |-> op.cmd, from |-> c, filter |-> op.of])

-----------------------------------------------------------------------------
(* The name service and the links *)

\* One round of qrtr_ns_worker.
NsWorker(n) ==
  /\ inbox[n] # <<>>
  /\ NsHandles(n, Head(inbox[n]))
  /\ inbox' = [inbox EXCEPT ![n] = Tail(@)]
  /\ LET a == Announcements(n, Head(inbox[n])) IN Transmit(n, a[1], a[2])
  /\ UNCHANGED <<linkVars, state, plan, faults, history>>

\* qrtr_endpoint_register on both sides; the structs are new.
EndpointRegister(n, m) ==
  LET es == {<<n, m>>, <<m, n>>} IN
  /\ up \cap es = {}
  /\ \A e \in es : wire[e] = <<>> /\ rx_queue[e] = <<>>
  /\ up' = up \cup es
  /\ hello_sent' = hello_sent \ es
  /\ hello_rcvd' = hello_rcvd \ es
  /\ UNCHANGED <<nsVars, assigned, qrtr_nodes, wire, rx_queue, inbox, state, plan, faults,
                 history>>

\* qrtr_hello_work, which qrtr_endpoint_register queues.
HelloWork(e) ==
  /\ e \in up \ hello_sent
  /\ hello_sent' = hello_sent \cup {e}
  /\ wire' = [wire EXCEPT ![e] = @ \o NodeEnqueue(e, <<HelloPkt(e[1])>>)]
  /\ UNCHANGED <<nsVars, linkVars, inbox, state, plan, faults, history>>

\* qrtr_node_assign: the neighbour's id becomes known.  While a former struct is in
\* the table the new one does not get there, and never will.
NodeAssign(e) ==
  /\ assigned' = assigned \cup {e}
  /\ IF e \notin assigned /\ qrtr_nodes[e] = "none"
     THEN qrtr_nodes' = [qrtr_nodes EXCEPT ![e] = "node"] /\ UNCHANGED shadowed
     ELSE /\ shadowed' = IF e \in assigned THEN shadowed ELSE shadowed \cup {e}
          /\ UNCHANGED qrtr_nodes

\* qrtr_endpoint_post: DATA goes straight to its socket and may overtake control
\* packets, which go to the worker.
EndpointPost(e) ==
  /\ e \in up /\ wire[Rev(e)] # <<>>
  /\ wire' = [wire EXCEPT ![Rev(e)] = Tail(@)]
  /\ NodeAssign(e)
  /\ LET pkt == Head(wire[Rev(e)]) IN
     IF pkt.cmd = "DATA"
     THEN /\ met' = IF pkt.to \in open /\ ServerAt(e[1], pkt.to) # {}
                    THEN [met EXCEPT ![pkt.to] = @ \cup {pkt.from}] ELSE met
          /\ UNCHANGED rx_queue
     ELSE /\ rx_queue' = [rx_queue EXCEPT ![e] = Append(@, pkt)]
          /\ UNCHANGED met
  /\ UNCHANGED <<servers, lookups, open, view, replaced, up, hello_sent, hello_rcvd,
                 inbox, state, plan, faults, overtaken, late>>

\* qrtr_node_rx_work and qrtr_sock_queue_skb.  It goes on after the endpoint
\* is gone: __qrtr_node_release flushes the worker.
NodeRxWork(e) ==
  /\ rx_queue[e] # <<>>
  /\ rx_queue' = [rx_queue EXCEPT ![e] = Tail(@)]
  /\ LET pkt == Head(rx_queue[e]) IN
     IF pkt.cmd = "HELLO"
     THEN /\ IF e \in hello_rcvd THEN UNCHANGED inbox ELSE Post(e[1], pkt)
          /\ hello_rcvd' = hello_rcvd \cup {e}
     ELSE /\ Post(e[1], pkt)
          /\ UNCHANGED hello_rcvd
  /\ UNCHANGED <<nsVars, links, hello_sent, wire, state, plan, faults, history>>

\* BYE goes to the local name service if the table leads to the struct; its entry
\* becomes entry.  What is left on the wire is lost.
Unregister(e, entry) ==
  /\ e \in up
  /\ Rev(e) \in up => faults > 0
  /\ faults' = IF Rev(e) \in up THEN faults - 1 ELSE faults
  /\ up' = up \ {e} /\ assigned' = assigned \ {e}
  /\ IF qrtr_nodes[e] = "node"
     THEN /\ Post(e[1], [cmd |-> "BYE", from |-> <<e[2], Ctrl>>])
          /\ qrtr_nodes' = [qrtr_nodes EXCEPT ![e] = entry]
     ELSE UNCHANGED <<inbox, qrtr_nodes>>
  /\ wire' = [wire EXCEPT ![Rev(e)] = <<>>]
  /\ late' = IF \E i \in DOMAIN rx_queue[e] : rx_queue[e][i].cmd = "NEW_SERVER"
             THEN late \cup {e} ELSE late
  /\ UNCHANGED <<nsVars, hello_sent, hello_rcvd, rx_queue, state, plan, overtaken, shadowed>>

\* Mutant: the struct still passes for one with an endpoint.
EndpointUnregisterKeeps(e) == Unregister(e, "node")

\* qrtr_endpoint_unregister: others may go on using the struct.
EndpointUnregister(e) == Unregister(e, "former")

\* __qrtr_node_release, when the last user of the struct has put it back.
NodeRelease(e) ==
  /\ qrtr_nodes[e] = "former"
  /\ qrtr_nodes' = [qrtr_nodes EXCEPT ![e] = "none"]
  /\ UNCHANGED <<nsVars, up, assigned, hello_rcvd, rx_queue, hello_sent, wire, inbox, state,
                 plan, faults, history>>

\* Node m restarts: all its state is lost; its neighbours find out later.
Crash(m) ==
  /\ faults > 0 /\ faults' = faults - 1
  /\ LET at   == {c \in Clients : c[1] = m}
         mine == {e \in Pairs : e[1] = m}
     IN  /\ servers' = [servers EXCEPT ![m] = {}]
         /\ lookups' = [lookups EXCEPT ![m] = {}]
         /\ inbox' = [inbox EXCEPT ![m] = <<>>]
         /\ open' = open \ at
         /\ view' = [c \in Clients |-> IF c \in at THEN {} ELSE view[c]]
         /\ met' = [c \in Clients |-> IF c \in at THEN {} ELSE met[c]]
         /\ state' = [c \in Clients |-> IF c \in at THEN "INIT" ELSE state[c]]
         /\ up' = up \ mine
         /\ assigned' = assigned \ mine
         /\ qrtr_nodes' = [e \in Pairs |-> IF e \in mine THEN "none" ELSE qrtr_nodes[e]]
         /\ replaced' = [replaced EXCEPT ![m] = {}]
         /\ rx_queue' = [e \in Pairs |-> IF e \in mine THEN <<>> ELSE rx_queue[e]]
         /\ wire' = [e \in Pairs |-> IF Rev(e) \in mine THEN <<>> ELSE wire[e]]
  /\ UNCHANGED <<hello_sent, hello_rcvd, plan, history>>

Next ==
  \/ \E c \in Clients : SocketStep(c)
  \/ \E n \in Nodes : NsWorker(n) \/ Crash(n)
  \/ \E e \in Pairs : \/ EndpointRegister(e[1], e[2])
                      \/ HelloWork(e)
                      \/ EndpointPost(e)
                      \/ NodeRxWork(e)
                      \/ EndpointUnregister(e)
                      \/ NodeRelease(e)

Spec == Init /\ [][Next]_vars

-----------------------------------------------------------------------------
(* Properties *)

\* Nothing is left to handle, and both ends of every link agree that it is up.
Quiet ==
  /\ \A n \in Nodes : inbox[n] = <<>>
  /\ \A e \in Pairs : wire[e] = <<>> /\ rx_queue[e] = <<>>
  /\ \A e \in up : Rev(e) \in up /\ e \in hello_sent

\* Every variable has its type, and the struct that qrtr_node_lookup finds is one
\* with an endpoint or no longer counts as the neighbour's.
TypeOK ==
  LET Servers == [service : Nat, instance : Nat, node : Nodes, port : Nat]
  IN  /\ \A n \in Nodes : servers[n] \cup replaced[n] \subseteq Servers
      /\ \A n \in Nodes : \A l \in lookups[n] : l.sq \in Clients
      /\ open \subseteq Clients
      /\ \A c \in Clients : view[c] \subseteq Servers /\ met[c] \subseteq Clients
      /\ up \subseteq Pairs /\ assigned \subseteq up
      /\ qrtr_nodes \in [Pairs -> {"none", "node", "former"}]
      /\ \A e \in Pairs : qrtr_nodes[e] = "node" => e \in assigned
      /\ hello_sent \subseteq Pairs /\ hello_rcvd \subseteq Pairs
      /\ \A c \in Clients : state[c] \in Nodes \cup {"INIT", "MULTI"}
      /\ faults \in Nat
      /\ overtaken \subseteq Clients /\ late \subseteq Pairs /\ shadowed \subseteq Pairs

\* The link between e[1] and e[2] never came back before it was quite gone.
Clean(e) == {e, Rev(e)} \cap shadowed = {}

\* When everything was handled, the own servers of a name service are open sockets.
\* It lists for a neighbour every server that the neighbour has registered, and no
\* other, and none for a node without a link: HELLO, the broadcasts, DEL_CLIENT and
\* BYE together keep the tables equal over failures.  Three races are excepted.  A
\* closed server stays listed if its DEL_CLIENT overtook its own announcement; so
\* do servers whose NEW_SERVER was still in rx_queue when the endpoint went; and
\* nothing is said of a link that came back while its former struct was in use.
TablesAgree ==
  Quiet =>
    /\ \A n \in Nodes : \A srv \in OfNode(n, n) : Addr(srv) \in open
    /\ \A e \in Pairs : Clean(e) =>
         /\ e \in up => OfNode(e[2], e[2]) \subseteq OfNode(e[1], e[2])
         /\ \A srv \in OfNode(e[1], e[2]) :
              \/ e \in late
              \/ e \in up /\ (srv \in OfNode(e[2], e[2]) \/ Addr(srv) \in overtaken)

\* At any time an observer was told of all servers that its name service lists and
\* its lookup covers, and of no others but those that another server replaced on
\* their port (lookup_notify in ctrl_cmd_new_server, server_del and
\* ctrl_cmd_new_lookup; server_add tells nobody).
ObserverAccurate ==
  \A n \in Nodes : \A l \in lookups[n] : l.sq \in open =>
    /\ Watched(l, servers[n]) \subseteq view[l.sq]
    /\ Watched(l, view[l.sq]) \subseteq servers[n] \cup replaced[n]

\* When everything was handled, every socket that a registered server has heard
\* from and still serves is open on a node that is linked: DEL_CLIENT reached the
\* server's node or BYE took its place.  (Of a link that came back while its former
\* struct was in use nothing is said.)
ClientsForgotten ==
  Quiet =>
    \A n \in Nodes : \A srv \in OfNode(n, n) : \A c \in met[Addr(srv)] :
      Clean(<<n, c[1]>>) => c \in open /\ <<n, c[1]>> \in up

\* "Neighbours would've already removed the server belonging to this port due
\* to the DEL_CLIENT broadcast" (ctrl_cmd_del_client): when everything was
\* handled, no neighbour lists a server whose socket was closed.
NeighboursRemoved ==
  Quiet => \A e \in Pairs : \A srv \in OfNode(e[1], e[2]) : Addr(srv) \in open

\* "Notify the local controller about the event" (qrtr_endpoint_unregister):
\* when everything was handled, the name service lists nothing of a node whose
\* endpoint is gone.
ControllerKnowsGone ==
  Quiet => \A e \in Pairs \ up : OfNode(e[1], e[2]) = {}
=============================================================================
