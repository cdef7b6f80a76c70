----------------------------- MODULE QrtrHello ------------------------------
(***************************************************************************)
(* The HELLO handshake of one endpoint with transmissions that fail.       *)
(* HELLO is sent by the worker of the node (qrtr_hello_work) and by the    *)
(* name service when it answers the HELLO of the neighbour, both through   *)
(* qrtr_node_enqueue, which counts hello_sent under ep_lock, gives up the  *)
(* lock, and counts back when the transmission failed.  The endpoint was   *)
(* just registered and stays.                                              *)
(***************************************************************************)
EXTENDS Naturals, Sequences, SequencesExt

CONSTANTS Servers,     \* servers that sockets of this node register
          MaxFails     \* bound: transmissions that fail

ASSUME HelloAssumption ==
  IsFiniteSet(Servers) /\ "HELLO" \notin Servers /\ MaxFails \in Nat

VARIABLES
  hello_sent,
  work,        \* node->say_hello is queued
  pc,          \* pc[t]: where thread t is in qrtr_node_enqueue
  pkt,         \* pkt[t]: "HELLO" or the server that t announces
  todo,        \* what the handler of the name service has yet to send
  peer,        \* HELLO of the neighbour: "silent", "said", "handled"
  registered,  \* servers in the table of the name service
  wire,        \* what the transport took, in order
  fails,       \* how many transmissions failed
  lost         \* history: "announce" an announcement itself failed, "hello"
               \* HELLO failed after the neighbour's HELLO was taken up,
               \* "memory" none for the packet of qrtr_hello_work

vars == <<hello_sent, work, pc, pkt, todo, peer, registered, wire, fails, lost>>

Threads == {"worker", "ns"}

Init ==
  /\ hello_sent = 0 /\ work = TRUE
  /\ pc = [t \in Threads |-> "idle"]
  /\ pkt = [t \in Threads |-> "HELLO"]
  /\ todo = <<>> /\ peer = "silent" /\ registered = {}
  /\ wire = <<>> /\ fails = 0 /\ lost = {}

-----------------------------------------------------------------------------
(* qrtr_node_enqueue *)

\* Mutant: HELLO is sent again when it was sent before.
EnqueueHelloAgain(t, p) ==
  LET drop == p # "HELLO" /\ hello_sent = 0
  IN  /\ hello_sent' = IF p = "HELLO" THEN hello_sent + 1 ELSE hello_sent
      /\ pc' = IF drop THEN pc ELSE [pc EXCEPT ![t] = "xmit"]
      /\ pkt' = [pkt EXCEPT ![t] = p]

\* Up to the first mutex_unlock: one HELLO, nothing else before it.
Enqueue(t, p) ==
  LET drop == IF p = "HELLO" THEN hello_sent # 0 ELSE hello_sent = 0
  IN  /\ hello_sent' = IF p = "HELLO" /\ ~ drop THEN hello_sent + 1 ELSE hello_sent
      /\ pc' = IF drop THEN pc ELSE [pc EXCEPT ![t] = "xmit"]
      /\ pkt' = [pkt EXCEPT ![t] = p]

\* ep->xmit under ep_lock.
Xmit(t) ==
  /\ pc[t] = "xmit"
  /\ pc' = [pc EXCEPT ![t] = "idle"]
  /\ wire' = Append(wire, pkt[t])
  /\ UNCHANGED <<hello_sent, work, pkt, todo, peer, registered, fails, lost>>

\* The handler of the name service stops at an error, except that announce_servers
\* goes on after -ENODEV.
XmitFails(t) ==
  /\ pc[t] = "xmit" /\ fails < MaxFails
  /\ fails' = fails + 1
  /\ pc' = [pc EXCEPT ![t] = IF pkt[t] = "HELLO" THEN "failed" ELSE "idle"]
  /\ todo' \in IF t # "ns" THEN {todo}
               ELSE IF pkt[t] = "HELLO" THEN {<<>>} ELSE {<<>>, todo}
  /\ lost' = IF pkt[t] # "HELLO" THEN lost \cup {"announce"} ELSE lost
  /\ UNCHANGED <<hello_sent, work, pkt, peer, registered, wire>>

\* Mutant: the worker is not asked to try again.
HelloFailedForGood(t) ==
  /\ pc[t] = "failed"
  /\ pc' = [pc EXCEPT ![t] = "idle"]
  /\ hello_sent' = hello_sent - 1
  /\ lost' = IF peer = "handled" THEN lost \cup {"hello"} ELSE lost
  /\ UNCHANGED <<work, pkt, todo, peer, registered, wire, fails>>

\* After HELLO failed: atomic_dec and another try of the worker.
HelloFailed(t) ==
  /\ pc[t] = "failed"
  /\ pc' = [pc EXCEPT ![t] = "idle"]
  /\ hello_sent' = hello_sent - 1
  /\ work' = TRUE
  /\ lost' = IF peer = "handled" THEN lost \cup {"hello"} ELSE lost
  /\ UNCHANGED <<pkt, todo, peer, registered, wire, fails>>

-----------------------------------------------------------------------------
(* The worker of the node *)

HelloWork ==
  /\ work /\ pc["worker"] = "idle"
  /\ work' = FALSE
  /\ Enqueue("worker", "HELLO")
  /\ UNCHANGED <<todo, peer, registered, wire, fails, lost>>

HelloWorkNoMemory ==
  /\ work /\ pc["worker"] = "idle"
  /\ work' = FALSE
  /\ lost' = lost \cup {"memory"}
  /\ UNCHANGED <<hello_sent, pc, pkt, todo, peer, registered, wire, fails>>

-----------------------------------------------------------------------------
(* The name service, which handles one packet at a time *)

NsIdle == pc["ns"] = "idle" /\ todo = <<>>

\* HELLO of the neighbour goes through endpoint_post, which learns its id, to
\* the control socket.
PeerHello ==
  /\ peer = "silent"
  /\ peer' = "said"
  /\ UNCHANGED <<hello_sent, work, pc, pkt, todo, registered, wire, fails, lost>>

\* Mutant: the servers are announced before HELLO.
CtrlCmdHelloLast ==
  /\ NsIdle /\ peer = "said"
  /\ peer' = "handled"
  /\ todo' = Append(SetToSeq(registered), "HELLO")
  /\ UNCHANGED <<hello_sent, work, pc, pkt, registered, wire, fails, lost>>

\* say_hello, then announce_servers.
CtrlCmdHello ==
  /\ NsIdle /\ peer = "said"
  /\ peer' = "handled"
  /\ todo' = <<"HELLO">> \o SetToSeq(registered)
  /\ UNCHANGED <<hello_sent, work, pc, pkt, registered, wire, fails, lost>>

\* A local server registers; the broadcast leaves out nodes without id.
CtrlCmdNewServer(s) ==
  /\ NsIdle /\ s \notin registered
  /\ registered' = registered \cup {s}
  /\ todo' = IF peer = "silent" THEN <<>> ELSE <<s>>
  /\ UNCHANGED <<hello_sent, work, pc, pkt, peer, wire, fails, lost>>

NsSend ==
  /\ pc["ns"] = "idle" /\ todo # <<>>
  /\ todo' = Tail(todo)
  /\ Enqueue("ns", Head(todo))
  /\ UNCHANGED <<work, peer, registered, wire, fails, lost>>

-----------------------------------------------------------------------------
Next ==
  \/ \E t \in Threads : Xmit(t) \/ XmitFails(t) \/ HelloFailed(t)
  \/ HelloWork \/ HelloWorkNoMemory
  \/ PeerHello \/ CtrlCmdHello \/ NsSend
  \/ \E s \in Servers : CtrlCmdNewServer(s)

Spec == Init /\ [][Next]_vars

\* Both threads run; a transmission that can succeed is tried.
FairSpec ==
  /\ Spec
  /\ \A t \in Threads : WF_vars(Xmit(t)) /\ WF_vars(HelloFailed(t))
  /\ WF_vars(HelloWork) /\ WF_vars(CtrlCmdHello) /\ WF_vars(NsSend)

-----------------------------------------------------------------------------
(* Properties *)

Said == Contains(wire, "HELLO")

\* Threads that have counted a HELLO that is not sent yet.
Greeting == {t \in Threads : pc[t] \in {"xmit", "failed"} /\ pkt[t] = "HELLO"}

\* Every variable has its type.
TypeOK ==
  /\ hello_sent \in Nat
  /\ work \in BOOLEAN
  /\ pc \in [Threads -> {"idle", "xmit", "failed"}]
  /\ pkt \in [Threads -> Servers \cup {"HELLO"}]
  /\ todo \in Seq(Servers \cup {"HELLO"})
  /\ peer \in {"silent", "said", "handled"}
  /\ registered \subseteq Servers
  /\ wire \in Seq(Servers \cup {"HELLO"})
  /\ fails \in 0..MaxFails
  /\ lost \subseteq {"announce", "hello", "memory"}

\* However the worker and the name service interleave and fail, hello_sent
\* counts one HELLO that is being sent or was sent, and the transport never
\* takes a second one.
OneHello ==
  /\ hello_sent \in {0, 1}
  /\ hello_sent = 0 <=> (~ Said /\ Greeting = {})
  /\ \A i, j \in DOMAIN wire : wire[i] = "HELLO" /\ wire[j] = "HELLO" => i = j
  /\ ~ (Said /\ Greeting # {})

Settled ==
  /\ peer = "handled" /\ NsIdle /\ ~ work
  /\ \A t \in Threads : pc[t] = "idle"

\* Once both HELLOs were exchanged and handled the neighbour was told of every
\* registered server, those that qrtr_node_enqueue dropped before HELLO
\* included, unless a transmission failed at that time.
ServersAnnounced ==
  Settled /\ lost \cap {"announce", "hello"} = {} => registered \subseteq ToSet(wire)

\* "Announce the list of servers registered on the local node" (the comment of
\* ctrl_cmd_hello): the same when HELLO failed and was sent again later.
AnnouncedAfterRetry ==
  Settled /\ Said /\ "announce" \notin lost => registered \subseteq ToSet(wire)

\* HELLO is tried until the transport takes it.
HelloSaid ==
  /\ <>(Said \/ "memory" \in lost)
  /\ peer = "said" ~> (Said \/ "memory" \in lost)
=============================================================================
