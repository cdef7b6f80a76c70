------------------------------- MODULE QrtrNs -------------------------------
(***************************************************************************)
(* The name service of net/qrtr/ns.c, one instance per node.  It handles   *)
(* the control packets of one queue one at a time (qrtr_ns_worker): here   *)
(* one action per packet type, for the name service of node n.  What a     *)
(* handler sends to other nodes is Announcements(n, pkt); what it sends to *)
(* local sockets shows in what these sockets know (view, met).             *)
(* Allocations succeed.  No two neighbours are in networks more than one   *)
(* apart, so qrtr_must_forward is FALSE for packets from a remote node.    *)
(***************************************************************************)
EXTENDS Naturals, Sequences, FiniteSets, SequencesExt

CONSTANTS Nodes,      \* node ids
          Clients,    \* addresses <<node, port>> of sockets other than Ctrl
          Ctrl,       \* QRTR_PORT_CTRL, where the name service listens
          Bcast       \* QRTR_NODE_BCAST

VARIABLES
  servers,    \* servers[n]: the xarray nodes[..].servers, flattened
  lookups,    \* lookups[n]: qrtr_ns.lookups, the local observers
  open,       \* sockets that are bound to their port
  view,       \* view[c]: servers that observer c was told of, not yet revoked
  met,        \* met[c]: remote sockets that c heard from while registered as
              \* a server, and that it was not told to forget
  replaced    \* history: replaced[n], the servers that another one of the same
              \* port took the place of, and that were not registered again

nsVars == <<servers, lookups, open, view, met, replaced>>

Server(svc, inst, a) ==
  [service |-> svc, instance |-> inst, node |-> a[1], port |-> a[2]]

Addr(srv) == <<srv.node, srv.port>>

NsInit ==
  /\ servers = [n \in Nodes |-> {}]
  /\ lookups = [n \in Nodes |-> {}]
  /\ open = {}
  /\ view = [c \in Clients |-> {}]
  /\ met = [c \in Clients |-> {}]
  /\ replaced = [n \in Nodes |-> {}]

-----------------------------------------------------------------------------
(* Matching and the tables *)

\* The filter of a new lookup.  ifilter is 0, or all ones for an instance.
server_match(srv, f) ==
  /\ f.service # 0 => srv.service = f.service
  /\ IF f.instance = 0 THEN TRUE ELSE srv.instance = f.instance

\* The test that server_del and ctrl_cmd_new_server make for every observer.
Observes(l, srv) ==
  /\ l.service = 0 \/ l.service = srv.service
  /\ l.instance = 0 \/ l.instance = srv.instance

ServerAt(n, a) == {srv \in servers[n] : Addr(srv) = a}

OfNode(n, m) == {srv \in servers[n] : srv.node = m}

\* The servers that lookup l of its node's name service is told of.
Watched(l, S) == {srv \in S : Observes(l, srv)}

LookupsOf(n, c) == {l \in lookups[n] : l.sq = c}

\* Mutant: observers are told of new servers only.
NotifyNewOnly(n, gone, new) ==
  view' = [c \in Clients |->
             IF c \notin open THEN view[c]
             ELSE view[c] \cup UNION {Watched(l, new) : l \in LookupsOf(n, c)}]

\* lookup_notify reaches sockets that are still open.
Notify(n, gone, new) ==
  view' = [c \in Clients |->
             IF c \notin open THEN view[c]
             ELSE LET W(S) == UNION {Watched(l, S) : l \in LookupsOf(n, c)}
                  IN  (view[c] \ W(gone)) \cup W(new)]

\* The packet sent to every local server when sockets went away.
Advertise(n, dead) ==
  met' = [c \in Clients |->
            IF c \in open /\ \E srv \in OfNode(n, n) : Addr(srv) = c
            THEN met[c] \ dead ELSE met[c]]

-----------------------------------------------------------------------------
(* The handlers; pkt.from is the address the packet came from *)

\* Local servers are known by the address they send from.
Subject(n, pkt) ==
  IF pkt.from[1] = n THEN Server(pkt.server.service, pkt.server.instance, pkt.from)
                     ELSE pkt.server

\* ctrl_cmd_hello changes no table; see Announcements.
CtrlCmdHello(n, pkt) ==
  /\ pkt.cmd = "HELLO"
  /\ UNCHANGED nsVars

\* Mutant: the servers of the node go, but the local servers are not told.
CtrlCmdByeTellsNobody(n, pkt) ==
  /\ pkt.cmd = "BYE"
  /\ LET m == pkt.from[1] IN
     /\ servers' = [servers EXCEPT ![n] = @ \ OfNode(n, m)]
     /\ Notify(n, OfNode(n, m), {})
  /\ UNCHANGED <<lookups, open, met, replaced>>

\* ctrl_cmd_bye: all servers of the node go, and its sockets are forgotten.
CtrlCmdBye(n, pkt) ==
  /\ pkt.cmd = "BYE"
  /\ LET m == pkt.from[1] IN
     /\ servers' = [servers EXCEPT ![n] = @ \ OfNode(n, m)]
     /\ Notify(n, OfNode(n, m), {})
     /\ Advertise(n, {c \in Clients : c[1] = m})
  /\ UNCHANGED <<lookups, open, replaced>>

\* ctrl_cmd_del_client: lookups and server of the socket go; no broadcast.
\* The local servers are told after the server of the socket was removed.
CtrlCmdDelClient(n, pkt) ==
  /\ pkt.cmd = "DEL_CLIENT"
  /\ LET c == pkt.client
         spoofed == \/ pkt.from[1] # c[1]
                    \/ pkt.from[1] = n /\ pkt.from[2] # c[2]
     IN  IF spoofed THEN UNCHANGED nsVars ELSE
         /\ lookups' = [lookups EXCEPT ![n] = @ \ LookupsOf(n, c)]
         /\ servers' = [servers EXCEPT ![n] = @ \ ServerAt(n, c)]
         /\ view' = [d \in Clients |->
              IF d \in open \ {c}
              THEN view[d] \ UNION {Watched(l, ServerAt(n, c)) : l \in LookupsOf(n, d)}
              ELSE view[d]]
         /\ Advertise(n, {c})
         /\ UNCHANGED <<open, replaced>>

\* What server_add takes.
Valid(srv) == srv.service # 0 /\ srv.port # 0

\* ctrl_cmd_new_server: server_add replaces what was on the port, silently.
CtrlCmdNewServer(n, pkt) ==
  /\ pkt.cmd = "NEW_SERVER"
  /\ LET srv == Subject(n, pkt)
         old == ServerAt(n, Addr(srv))
     IN  IF ~ Valid(srv) THEN UNCHANGED nsVars ELSE
         /\ servers' = [servers EXCEPT ![n] = (@ \ old) \cup {srv}]
         /\ replaced' = [replaced EXCEPT ![n] = (@ \cup old) \ {srv}]
         /\ Notify(n, {}, {srv})
         /\ UNCHANGED <<lookups, open, met>>

\* ctrl_cmd_del_server: whatever server the port has.
CtrlCmdDelServer(n, pkt) ==
  /\ pkt.cmd = "DEL_SERVER"
  /\ LET a == Addr(Subject(n, pkt)) IN
     /\ servers' = [servers EXCEPT ![n] = @ \ ServerAt(n, a)]
     /\ Notify(n, ServerAt(n, a), {})
     /\ met' = IF a[1] = n THEN [met EXCEPT ![a] = {}] ELSE met
  /\ UNCHANGED <<lookups, open, replaced>>

\* ctrl_cmd_new_lookup: local observers only; they get a listing.
CtrlCmdNewLookup(n, pkt) ==
  /\ pkt.cmd = "NEW_LOOKUP"
  /\ IF pkt.from[1] # n THEN UNCHANGED nsVars ELSE
     LET c == pkt.from
         l == [service |-> pkt.filter.service, instance |-> pkt.filter.instance, sq |-> c]
         listed == {srv \in servers[n] : server_match(srv, pkt.filter)}
     IN  /\ lookups' = [lookups EXCEPT ![n] = @ \cup {l}]
         /\ view' = IF c \in open THEN [view EXCEPT ![c] = @ \cup listed] ELSE view
         /\ UNCHANGED <<servers, open, met, replaced>>

\* ctrl_cmd_del_lookup: a wildcard lookup goes whatever the instance named.
\* The observer keeps what its other lookups tell it.
CtrlCmdDelLookup(n, pkt) ==
  /\ pkt.cmd = "DEL_LOOKUP"
  /\ LET c == pkt.from
         gone == {l \in LookupsOf(n, c) :
                    /\ l.service = pkt.filter.service
                    /\ l.instance = 0 \/ l.instance = pkt.filter.instance}
         kept == LookupsOf(n, c) \ gone
     IN  /\ lookups' = [lookups EXCEPT ![n] = @ \ gone]
         /\ view' = IF c[1] = n
                    THEN [view EXCEPT ![c] = UNION {Watched(l, @) : l \in kept}]
                    ELSE view
  /\ UNCHANGED <<servers, open, met, replaced>>

NsHandles(n, pkt) ==
  \/ CtrlCmdHello(n, pkt) \/ CtrlCmdBye(n, pkt) \/ CtrlCmdDelClient(n, pkt)
  \/ CtrlCmdNewServer(n, pkt) \/ CtrlCmdDelServer(n, pkt)
  \/ CtrlCmdNewLookup(n, pkt) \/ CtrlCmdDelLookup(n, pkt)

-----------------------------------------------------------------------------
(* What the handlers send to other nodes, from the tables before the step *)

NewServerPkt(n, srv) == [cmd |-> "NEW_SERVER", from |-> <<n, Ctrl>>, server |-> srv]

DelServerPkt(n, srv) == [cmd |-> "DEL_SERVER", from |-> <<n, Ctrl>>, server |-> srv]

HelloPkt(n) == [cmd |-> "HELLO", from |-> <<n, Ctrl>>]

\* Mutant: a neighbour's HELLO is answered, but no servers are announced.
HelloReplyOnly(n, m) == <<HelloPkt(n)>>

\* say_hello and announce_servers to m.  sendmsg drops the servers of other
\* nodes (qrtr_must_forward).
HelloReply(n, m) ==
  LET local == SetToSeq(OfNode(n, n))
  IN  <<HelloPkt(n)>> \o [i \in DOMAIN local |-> NewServerPkt(n, local[i])]

\* A pair of the node to send to and the packets for it, in order.
Announcements(n, pkt) ==
  CASE pkt.cmd = "HELLO" -> <<pkt.from[1], HelloReply(n, pkt.from[1])>>
    [] pkt.cmd = "NEW_SERVER" /\ Subject(n, pkt).node = n /\ Valid(Subject(n, pkt)) ->
         <<Bcast, <<NewServerPkt(n, Subject(n, pkt))>>>>
    [] pkt.cmd = "DEL_SERVER" /\ Subject(n, pkt).node = n ->
         LET gone == SetToSeq(ServerAt(n, Addr(Subject(n, pkt))))
         IN  <<Bcast, [i \in DOMAIN gone |-> DelServerPkt(n, gone[i])]>>
    [] OTHER -> <<Bcast, <<>>>>
=============================================================================
