-------------------------- MODULE QrtrControlProofs -------------------------
(* Proofs about QrtrHello, for any set of servers and any number of         *)
(* failures, and about QrtrCtrl, for any number of writers and any buffer   *)
(* size: the two ends of the name service's control socket.                 *)
EXTENDS QrtrHello, FiniteSetTheorems, TLAPS

Packets == Servers \cup {"HELLO"}

\* The list that announce_servers goes through is a sequence of servers.
LEMMA ListType ==
  ASSUME NEW S \in SUBSET Servers
  PROVE  SetToSeq(S) \in Seq(Servers)
<1>1. IsFiniteSet(S)
  BY FS_Subset, HelloAssumption
<1>2. Cardinality(S) \in Nat /\ ExistsBijection(1..Cardinality(S), S)
  BY <1>1, FS_CardinalityType, Zenon
<1>3. \E f \in [1..Cardinality(S) -> S] : IsInjective(f)
  BY <1>2, Zenon DEF ExistsBijection, Bijection, Injection
<1>4. SetToSeq(S) \in [1..Cardinality(S) -> S]
  BY <1>3, Zenon DEF SetToSeq
<1>5. SetToSeq(S) \in Seq(S)
  BY <1>2, <1>4
<1>6. QED
  BY <1>5

\* The cases of a step.
LEMMA NextCases ==
  ASSUME [Next]_vars, NEW G,
         \A t \in Threads : Xmit(t) => G,
         \A t \in Threads : XmitFails(t) => G,
         \A t \in Threads : HelloFailed(t) => G,
         HelloWork => G, HelloWorkNoMemory => G, PeerHello => G,
         CtrlCmdHello => G, NsSend => G,
         \A s \in Servers : CtrlCmdNewServer(s) => G,
         vars' = vars => G
  PROVE  G
  BY Zenon DEF Next

\* Every packet in hand is HELLO or a server, and every variable keeps its type.
\* hello_sent is a counter that could go below 0, so that its type needs OneHello.
Typed ==
  /\ work \in BOOLEAN
  /\ pc \in [Threads -> {"idle", "xmit", "failed"}]
  /\ pkt \in [Threads -> Packets]
  /\ \A t \in Threads : pc[t] = "failed" => pkt[t] = "HELLO"
  /\ todo \in Seq(Packets)
  /\ peer \in {"silent", "said", "handled"}
  /\ registered \subseteq Servers
  /\ wire \in Seq(Packets)
  /\ fails \in 0..MaxFails
  /\ lost \subseteq {"announce", "hello", "memory"}

\* Typed is inductive by itself.
LEMMA TypedInvariant == Spec => []Typed
<1>1. Init => Typed
  BY HelloAssumption DEF Init, Typed, Packets
<1>2. Typed /\ [Next]_vars => Typed'
  <2> SUFFICES ASSUME Typed, [Next]_vars PROVE Typed'
    BY Zenon
  <2> USE HelloAssumption DEF Typed
  <2>a. "worker" \in Threads /\ "ns" \in Threads
    BY Zenon DEF Threads
  <2>b. "HELLO" \in Packets /\ \A S : S \in Seq(Servers) => S \in Seq(Packets)
    BY DEF Packets
  <2>1. ASSUME NEW t \in Threads, Xmit(t) PROVE Typed'
    BY <2>1 DEF Xmit
  <2>2. ASSUME NEW t \in Threads, XmitFails(t) PROVE Typed'
    <3>1. todo' \in Seq(Packets)
      BY <2>2, <<>> \in Seq(Packets), Zenon DEF XmitFails
    <3>2. fails' \in 0..MaxFails
      BY <2>2 DEF XmitFails
    <3>3. /\ pc' \in [Threads -> {"idle", "xmit", "failed"}]
          /\ \A u \in Threads : pc'[u] = "failed" => pkt'[u] = "HELLO"
          /\ lost' \subseteq {"announce", "hello", "memory"}
          /\ UNCHANGED <<work, pkt, peer, registered, wire>>
      BY <2>2, Zenon DEF XmitFails
    <3> QED
      BY <3>1, <3>2, <3>3, Zenon
  <2>3. ASSUME NEW t \in Threads, HelloFailed(t) PROVE Typed'
    BY <2>3, Zenon DEF HelloFailed
  <2>4. CASE HelloWork
    BY ZenonT(30), <2>4, <2>a, <2>b DEF HelloWork, Enqueue
  <2>5. CASE HelloWorkNoMemory
    BY ZenonT(30), <2>5 DEF HelloWorkNoMemory
  <2>6. CASE PeerHello
    BY <2>6, Zenon DEF PeerHello
  <2>7. CASE CtrlCmdHello
    <3>1. SetToSeq(registered) \in Seq(Packets)
      BY <2>b, ListType, Zenon
    <3>2. <<"HELLO">> \in Seq(Packets)
      BY <2>b
    <3>3. todo' \in Seq(Packets)
      BY <2>7, <3>1, <3>2 DEF CtrlCmdHello
    <3>4. QED
      BY <2>7, <3>3, Zenon DEF CtrlCmdHello
  <2>8. CASE NsSend
    <3>1. Head(todo) \in Packets /\ Tail(todo) \in Seq(Packets)
      BY <2>8 DEF NsSend
    <3>2. QED
      BY <2>8, <2>a, <3>1 DEF NsSend, Enqueue
  <2>9. ASSUME NEW s \in Servers, CtrlCmdNewServer(s) PROVE Typed'
    <3>1. s \in Packets
      BY Zenon DEF Packets
    <3>2. todo' \in Seq(Packets) /\ registered' \subseteq Servers
      BY <2>9, <3>1 DEF CtrlCmdNewServer
    <3>3. QED
      BY <2>9, <3>2, Zenon DEF CtrlCmdNewServer
  <2>10. CASE vars' = vars
    BY <2>10, Zenon DEF vars
  <2> HIDE DEF Typed
  <2>11. QED
    BY <2>1, <2>2, <2>3, <2>4, <2>5, <2>6, <2>7, <2>8, <2>9, <2>10, NextCases, Zenon
<1>3. QED
  BY <1>1, <1>2, PTL DEF Spec

\* What OneHello says, without the operators of the sequence library.
Once ==
  /\ hello_sent \in {0, 1}
  /\ hello_sent = 0 <=> ((\A i \in DOMAIN wire : wire[i] # "HELLO") /\ Greeting = {})
  /\ \A i, j \in DOMAIN wire : wire[i] = "HELLO" /\ wire[j] = "HELLO" => i = j
  /\ (\E i \in DOMAIN wire : wire[i] = "HELLO") => Greeting = {}
  /\ \A t, u \in Greeting : t = u

\* No step that leaves the counter, the wire and the packets in hand alone matters.
LEMMA OnceKept ==
  ASSUME Once, UNCHANGED <<hello_sent, wire, pc, pkt>>
  PROVE  Once'
<1>1. Greeting' = Greeting
  BY Zenon DEF Greeting
<1>2. QED
  BY <1>1, Zenon DEF Once

\* qrtr_node_enqueue counts a HELLO only if none is counted.
LEMMA EnqueueOnce ==
  ASSUME Typed, Once, NEW t \in Threads, NEW p \in Packets, pc[t] = "idle",
         Enqueue(t, p), wire' = wire
  PROVE  Once'
<1>0. /\ pc \in [Threads -> {"idle", "xmit", "failed"}]
      /\ pkt \in [Threads -> Packets]
  BY Zenon DEF Typed
<1>1. CASE p = "HELLO" /\ hello_sent = 0
  <2>1. Greeting = {}
    BY <1>1, Zenon DEF Once
  <2>2. pc' = [pc EXCEPT ![t] = "xmit"] /\ pkt' = [pkt EXCEPT ![t] = p] /\ hello_sent' = 1
    BY <1>1 DEF Enqueue
  <2>3. Greeting' = {t}
    BY <1>0, <1>1, <2>1, <2>2, Zenon DEF Greeting
  <2>4. QED
    BY <1>1, <2>2, <2>3 DEF Once
<1>2. CASE ~ (p = "HELLO" /\ hello_sent = 0)
  <2>1. hello_sent' = hello_sent
    BY <1>2, Zenon DEF Enqueue
  <2>2. Greeting' = Greeting
    <3>1. \A u \in Threads : u # t => pc'[u] = pc[u] /\ pkt'[u] = pkt[u]
      BY <1>0, Zenon DEF Enqueue
    <3>2. pkt'[t] = p /\ (p = "HELLO" => pc'[t] = "idle")
      BY <1>0, <1>2, Zenon DEF Enqueue
    <3>3. t \notin Greeting /\ t \notin Greeting'
      BY <3>2, Zenon DEF Greeting
    <3>4. QED
      BY <3>1, <3>3, Zenon DEF Greeting
  <2>3. QED
    BY <2>1, <2>2, Zenon DEF Once
<1>3. QED
  BY <1>1, <1>2, Zenon

\* Once is inductive given the types.
LEMMA OnceInvariant == Spec => []Once
<1>1. Init => Once
  BY DEF Init, Once, Greeting
<1>2. Typed /\ Once /\ [Next]_vars => Once'
  <2> SUFFICES ASSUME Typed, Once, [Next]_vars PROVE Once'
    BY Zenon
  <2>0. /\ pc \in [Threads -> {"idle", "xmit", "failed"}]
        /\ pkt \in [Threads -> Packets]
        /\ wire \in Seq(Packets) /\ todo \in Seq(Packets)
    BY Zenon DEF Typed
  <2>1. ASSUME NEW t \in Threads, Xmit(t) PROVE Once'
    <3>1. Greeting' = Greeting \ {t}
      BY <2>0, <2>1, Zenon DEF Xmit, Greeting
    <3>2. wire' = Append(wire, pkt[t]) /\ hello_sent' = hello_sent /\ pkt[t] \in Packets
      BY <2>0, <2>1, Zenon DEF Xmit
    <3>3. /\ Len(wire) \in Nat /\ DOMAIN wire = 1..Len(wire)
          /\ DOMAIN wire' = 1..(Len(wire) + 1)
          /\ wire'[Len(wire) + 1] = pkt[t]
          /\ \A i \in DOMAIN wire : wire'[i] = wire[i]
      BY <2>0, <3>2
    <3>4. CASE pkt[t] = "HELLO"
      <4>1. t \in Greeting
        BY <2>1, <3>4, Zenon DEF Xmit, Greeting
      <4>2. Greeting' = {} /\ hello_sent = 1 /\ \A i \in DOMAIN wire : wire[i] # "HELLO"
        BY <3>1, <4>1, Zenon DEF Once
      <4>3. \A i \in DOMAIN wire' : wire'[i] = "HELLO" <=> i = Len(wire) + 1
        BY SMTT(30), <3>3, <3>4, <4>2
      <4>4. Len(wire) + 1 \in DOMAIN wire'
        BY <3>3
      <4>5. QED
        BY SMTT(30), <3>2, <4>2, <4>3, <4>4 DEF Once
    <3>5. CASE pkt[t] # "HELLO"
      <4>1. Greeting' = Greeting
        BY <3>1, <3>5, Zenon DEF Greeting
      <4>2. \A i \in DOMAIN wire' : wire'[i] = "HELLO" => i \in DOMAIN wire /\ wire[i] = "HELLO"
        BY <3>3, <3>5
      <4>3. \A i \in DOMAIN wire : i \in DOMAIN wire' /\ wire'[i] = wire[i]
        BY <3>3
      <4>4. QED
        BY SMTT(30), <3>2, <4>1, <4>2, <4>3 DEF Once
    <3>6. QED
      BY <3>4, <3>5
  <2>2. ASSUME NEW t \in Threads, XmitFails(t) PROVE Once'
    <3>1. Greeting' = Greeting
      BY <2>0, <2>2, Zenon DEF XmitFails, Greeting
    <3>2. UNCHANGED <<hello_sent, wire>>
      BY <2>2, Zenon DEF XmitFails
    <3>3. QED
      BY <3>1, <3>2, Zenon DEF Once
  <2>3. ASSUME NEW t \in Threads, HelloFailed(t) PROVE Once'
    <3>1. t \in Greeting
      BY <2>3, Zenon DEF HelloFailed, Greeting, Typed
    <3>2. hello_sent = 1 /\ Greeting = {t} /\ \A i \in DOMAIN wire : wire[i] # "HELLO"
      BY <3>1, Zenon DEF Once
    <3>3. Greeting' = {}
      BY <2>0, <2>3, <3>2 DEF HelloFailed, Greeting
    <3>4. hello_sent' = 0 /\ wire' = wire
      BY <2>3, <3>2 DEF HelloFailed
    <3>5. QED
      BY <3>2, <3>3, <3>4 DEF Once
  <2>4. CASE HelloWork
    BY <2>4, EnqueueOnce, Zenon DEF HelloWork, Threads, Packets
  <2>5. CASE HelloWorkNoMemory
    BY <2>5, OnceKept, Zenon DEF HelloWorkNoMemory
  <2>6. CASE PeerHello
    BY <2>6, OnceKept, Zenon DEF PeerHello
  <2>7. CASE CtrlCmdHello
    BY <2>7, OnceKept, Zenon DEF CtrlCmdHello
  <2>8. CASE NsSend
    <3>1. Head(todo) \in Packets
      BY <2>0, <2>8 DEF NsSend
    <3>2. QED
      BY <2>8, <3>1, EnqueueOnce DEF NsSend, Threads
  <2>9. ASSUME NEW s \in Servers, CtrlCmdNewServer(s) PROVE Once'
    BY <2>9, OnceKept, Zenon DEF CtrlCmdNewServer
  <2>10. CASE vars' = vars
    BY <2>10, OnceKept, Zenon DEF vars
  <2>11. QED
    BY <2>1, <2>2, <2>3, <2>4, <2>5, <2>6, <2>7, <2>8, <2>9, <2>10, NextCases, Zenon
<1>3. QED
  BY <1>1, <1>2, TypedInvariant, PTL DEF Spec

\* Once gives OneHello: Contains looks at the positions of the wire.
LEMMA OnceImplies == Typed /\ Once => OneHello
<1> SUFFICES ASSUME Typed, Once PROVE OneHello
  BY Zenon
<1>1. DOMAIN wire = 1..Len(wire)
  BY DEF Typed
<1>2. Said <=> \E i \in DOMAIN wire : wire[i] = "HELLO"
  BY <1>1, Zenon DEF Said, Contains
<1>3. QED
  BY <1>2, Zenon DEF Once, OneHello

\* hello_sent never counts two HELLOs or goes below 0, and the transport is given
\* HELLO once, whatever fails: qrtr_node_enqueue gives up ep_lock between counting
\* and sending, but only the thread that counted can count back.
THEOREM HelloSentOnce == Spec => []OneHello
<1>1. QED
  BY TypedInvariant, OnceInvariant, OnceImplies, PTL

\* Every variable keeps its type, hello_sent included.
THEOREM HelloTyped == Spec => []TypeOK
<1>1. Typed /\ Once => TypeOK
  BY DEF Typed, Once, TypeOK, Packets
<1>2. QED
  BY <1>1, TypedInvariant, OnceInvariant, PTL
-----------------------------------------------------------------------------
(* What the neighbour is told *)

Within(p, q) == \E i \in DOMAIN q : q[i] = p

\* The announcement of s is on the wire, in hand, or still to be sent.
Told(s) == Within(s, wire) \/ Within(s, todo) \/ (pc["ns"] = "xmit" /\ pkt["ns"] = s)

\* qrtr_node_enqueue will not drop what the name service has yet to send.
HelloFirst == hello_sent = 1 \/ (todo # <<>> /\ Head(todo) = "HELLO")

\* From the time the neighbour's HELLO was handled, as long as nothing failed for
\* good, a HELLO is about to fail or every registered server is told of.
Announced ==
  peer = "handled" /\ lost \cap {"announce", "hello"} = {} =>
    \/ \E t \in Threads : pc[t] = "failed"
    \/ HelloFirst /\ \A s \in registered : Told(s)

\* announce_servers goes through all servers of the table.
LEMMA ListComplete ==
  ASSUME NEW S \in SUBSET Servers, NEW s \in S
  PROVE  Within(s, SetToSeq(S))
<1>1. IsFiniteSet(S)
  BY FS_Subset, HelloAssumption, Zenon
<1> DEFINE n == Cardinality(S)
<1>2. n \in Nat /\ ExistsBijection(1..n, S)
  BY <1>1, FS_CardinalityType, Zenon
<1>3. \E f \in [1..n -> S] : IsInjective(f)
  BY <1>2, Zenon DEF ExistsBijection, Bijection, Injection
<1>4. SetToSeq(S) \in [1..n -> S] /\ IsInjective(SetToSeq(S))
  BY <1>3, Zenon DEF SetToSeq
<1>5. SetToSeq(S) \in Injection(1..n, S)
  BY <1>4, Zenon DEF Injection
<1>6. IsFiniteSet(1..n) /\ Cardinality(1..n) = n
  <2>1. /\ IsFiniteSet(1..n)
        /\ Cardinality(1..n) = IF 1 > n THEN 0 ELSE n - 1 + 1
    BY <1>2, FS_Interval
  <2> QED
    BY <1>2, <2>1
<1>7. SetToSeq(S) \in Surjection(1..n, S)
  BY <1>1, <1>5, <1>6, FS_Injection, Zenon
<1>8. \E i \in 1..n : SetToSeq(S)[i] = s
  BY <1>7, Zenon DEF Surjection
<1> QED
  BY <1>4, <1>8, Zenon DEF Within

\* What a queue holds after one more was appended.
LEMMA WithinAppend ==
  ASSUME NEW P, NEW q \in Seq(P), NEW e \in P, NEW x
  PROVE  Within(x, Append(q, e)) <=> Within(x, q) \/ x = e
<1>1. /\ Len(q) \in Nat /\ DOMAIN q = 1..Len(q)
      /\ DOMAIN Append(q, e) = 1..(Len(q) + 1) /\ Append(q, e)[Len(q) + 1] = e
      /\ \A i \in DOMAIN q : Append(q, e)[i] = q[i]
  OBVIOUS
<1>2. \A i : i \in DOMAIN Append(q, e) <=> i \in DOMAIN q \/ i = Len(q) + 1
  BY <1>1
<1> QED
  BY <1>1, <1>2, Zenon DEF Within

\* What a queue holds is its head or left after it.
LEMMA WithinTail ==
  ASSUME NEW P, NEW q \in Seq(P), q # <<>>, NEW x, Within(x, q)
  PROVE  x = Head(q) \/ Within(x, Tail(q))
<1>1. PICK i \in 1..Len(q) : q[i] = x
  BY DEF Within
<1>2. CASE i = 1
  BY <1>1, <1>2
<1>3. CASE i # 1
  <2>1. i - 1 \in DOMAIN Tail(q) /\ Tail(q)[i - 1] = x
    BY <1>1, <1>3
  <2> QED
    BY <2>1, Zenon DEF Within
<1> QED
  BY <1>2, <1>3, Zenon

\* A step that leaves what the neighbour is told alone.
LEMMA AnnouncedKept ==
  ASSUME Announced, UNCHANGED <<hello_sent, pc, pkt, todo, peer, registered, wire>>,
         lost \subseteq lost'
  PROVE  Announced'
<1>1. HelloFirst' = HelloFirst /\ \A s \in registered : Told(s)' = Told(s)
  BY Zenon DEF HelloFirst, Told
<1> QED
  BY <1>1, Zenon DEF Announced

\* Every step keeps the servers told or about to be told.
LEMMA AnnouncedNext == Typed /\ Once /\ Announced /\ [Next]_vars => Announced'
<1> SUFFICES ASSUME Typed, Once, Announced, [Next]_vars PROVE Announced'
  BY Zenon
<1>0. /\ pc \in [Threads -> {"idle", "xmit", "failed"}] /\ pkt \in [Threads -> Packets]
      /\ wire \in Seq(Packets) /\ todo \in Seq(Packets)
      /\ registered \subseteq Servers /\ hello_sent \in {0, 1}
      /\ "HELLO" \notin Servers
  BY HelloAssumption, Zenon DEF Typed, Once
<1>a. "worker" \in Threads /\ "ns" \in Threads /\ "worker" # "ns"
  BY Zenon DEF Threads
<1> DEFINE Clean == peer = "handled" /\ lost \cap {"announce", "hello"} = {}
           Failing == \E t \in Threads : pc[t] = "failed"
           Well == HelloFirst /\ \A s \in registered : Told(s)
<1>b. Announced <=> (Clean => Failing \/ Well)
  BY Zenon DEF Announced
<1>c. Announced' <=> (Clean' => Failing' \/ Well')
  BY Zenon DEF Announced
<1>1. ASSUME NEW t \in Threads, Xmit(t) PROVE Announced'
  <2>1. /\ pc[t] = "xmit" /\ pc' = [pc EXCEPT ![t] = "idle"]
        /\ wire' = Append(wire, pkt[t])
        /\ UNCHANGED <<hello_sent, pkt, todo, peer, registered, lost>>
    BY <1>1, Zenon DEF Xmit
  <2>2. Clean' => Clean
    BY <2>1, Zenon
  <2>3. Failing => Failing'
    BY <1>0, <2>1, Zenon
  <2>4. ASSUME NEW s \in registered, Told(s) PROVE Told(s)'
    <3>1. CASE Within(s, wire)
      BY <1>0, <2>1, <3>1, WithinAppend DEF Told
    <3>2. CASE Within(s, todo)
      BY <2>1, <3>2, Zenon DEF Told
    <3>3. CASE pc["ns"] = "xmit" /\ pkt["ns"] = s
      <4>1. CASE t = "ns"
        BY <1>0, <2>1, <3>3, <4>1, WithinAppend DEF Told
      <4>2. CASE t # "ns"
        BY <1>0, <1>a, <2>1, <3>3, <4>2 DEF Told
      <4> QED
        BY <4>1, <4>2, Zenon
    <3> QED
      BY <2>4, <3>1, <3>2, <3>3 DEF Told
  <2>5. Well => Well'
    BY <2>1, <2>4, Zenon DEF HelloFirst
  <2> QED
    BY <1>b, <1>c, <2>2, <2>3, <2>5
<1>2. ASSUME NEW t \in Threads, XmitFails(t) PROVE Announced'
  <2>1. Clean' => pkt[t] = "HELLO"
    BY <1>2, Zenon DEF XmitFails
  <2>2. pkt[t] = "HELLO" => pc'[t] = "failed"
    BY <1>0, <1>2, Zenon DEF XmitFails
  <2> QED
    BY <1>c, <2>1, <2>2, Zenon
<1>3. ASSUME NEW t \in Threads, HelloFailed(t) PROVE Announced'
  <2>1. ~ Clean'
    BY <1>3, Zenon DEF HelloFailed
  <2> QED
    BY <1>c, <2>1, Zenon
<1>4. CASE HelloWork
  <2>1. /\ pc["worker"] = "idle"
        /\ hello_sent' = (IF hello_sent = 0 THEN hello_sent + 1 ELSE hello_sent)
        /\ pc' = (IF hello_sent # 0 THEN pc ELSE [pc EXCEPT !["worker"] = "xmit"])
        /\ pkt' = [pkt EXCEPT !["worker"] = "HELLO"]
        /\ UNCHANGED <<todo, peer, registered, wire, lost>>
    BY <1>4, Zenon DEF HelloWork, Enqueue
  <2>2. Clean' => Clean
    BY <2>1, Zenon
  <2>3. Failing => Failing'
    BY <1>0, <2>1, Zenon
  <2>4. HelloFirst => HelloFirst'
    BY <1>0, <2>1 DEF HelloFirst
  <2>5. pc'["ns"] = pc["ns"] /\ pkt'["ns"] = pkt["ns"]
    BY <1>0, <1>a, <2>1, Zenon
  <2>6. \A s \in registered : Told(s) => Told(s)'
    BY <2>1, <2>5, Zenon DEF Told
  <2>7. Well => Well'
    BY <2>1, <2>4, <2>6, Zenon
  <2> QED
    BY <1>b, <1>c, <2>2, <2>3, <2>7
<1>5. CASE HelloWorkNoMemory
  BY <1>5, AnnouncedKept DEF HelloWorkNoMemory
<1>6. CASE PeerHello
  <2>1. ~ Clean'
    BY <1>6, Zenon DEF PeerHello
  <2> QED
    BY <1>c, <2>1, Zenon
<1>7. CASE CtrlCmdHello
  <2>1. todo' = <<"HELLO">> \o SetToSeq(registered) /\ registered' = registered
    BY <1>7, Zenon DEF CtrlCmdHello
  <2>2. SetToSeq(registered) \in Seq(Servers)
    BY <1>0, ListType, Zenon
  <2>3. HelloFirst'
    BY <2>1, <2>2 DEF HelloFirst
  <2>4. ASSUME NEW s \in registered PROVE Within(s, todo')
    <3>1. PICK i \in 1..Len(SetToSeq(registered)) : SetToSeq(registered)[i] = s
      BY <1>0, <2>2, ListComplete DEF Within
    <3>2. i + 1 \in DOMAIN todo' /\ todo'[i + 1] = s
      BY <2>1, <2>2, <3>1
    <3> QED
      BY <3>2, Zenon DEF Within
  <2>5. Well'
    BY <2>1, <2>3, <2>4, Zenon DEF Told
  <2> QED
    BY <1>c, <2>5, Zenon
<1>8. CASE NsSend
  <2>1. /\ pc["ns"] = "idle" /\ todo # <<>> /\ todo' = Tail(todo)
        /\ UNCHANGED <<peer, registered, wire, lost>> /\ Enqueue("ns", Head(todo))
    BY <1>8, Zenon DEF NsSend
  <2>2. Clean' => Clean
    BY <2>1, Zenon
  <2>3. Failing => Failing'
    BY <1>0, <2>1, Zenon DEF Enqueue
  <2>4. HelloFirst => HelloFirst'
    BY <1>0, <2>1 DEF Enqueue, HelloFirst
  <2>5. ASSUME HelloFirst, NEW s \in registered, Told(s) PROVE Told(s)'
    <3>1. CASE Within(s, wire)
      BY <2>1, <3>1, Zenon DEF Told
    <3>2. CASE Within(s, Tail(todo))
      BY <2>1, <3>2 DEF Told
    <3>3. CASE s = Head(todo)
      <4>1. Head(todo) # "HELLO" /\ hello_sent = 1
        BY <1>0, <2>5, <3>3 DEF HelloFirst
      <4>2. pc'["ns"] = "xmit" /\ pkt'["ns"] = s
        BY <1>0, <1>a, <2>1, <3>3, <4>1 DEF Enqueue
      <4> QED
        BY <4>2, Zenon DEF Told
    <3> QED
      BY <1>0, <2>1, <2>5, <3>1, <3>2, <3>3, WithinTail, Zenon DEF Told
  <2>6. Well => Well'
    BY <2>1, <2>4, <2>5, Zenon
  <2> QED
    BY <1>b, <1>c, <2>2, <2>3, <2>6
<1>9. ASSUME NEW x \in Servers, CtrlCmdNewServer(x) PROVE Announced'
  <2>1. /\ todo = <<>> /\ registered' = registered \cup {x}
        /\ todo' = (IF peer = "silent" THEN <<>> ELSE <<x>>)
        /\ UNCHANGED <<hello_sent, pc, pkt, peer, wire, lost>>
    BY <1>9 DEF CtrlCmdNewServer, NsIdle
  <2>2. SUFFICES ASSUME Clean', Well PROVE Well'
    BY <1>b, <1>c, <2>1
  <2>3. todo' = <<x>> /\ hello_sent = 1
    BY <2>1, <2>2 DEF HelloFirst
  <2>4. ASSUME NEW s \in registered' PROVE Told(s)'
    <3>1. CASE s = x
      BY <2>3, <3>1 DEF Told, Within
    <3>2. CASE s # x
      <4>1. Told(s) /\ ~ Within(s, todo)
        BY <2>1, <2>2, <3>2 DEF Within
      <4> QED
        BY <2>1, <4>1 DEF Told
    <3> QED
      BY <3>1, <3>2
  <2> QED
    BY <2>1, <2>3, <2>4 DEF HelloFirst
<1>10. CASE vars' = vars
  BY <1>10, AnnouncedKept DEF vars
<1> QED
  BY SMTT(30), <1>1, <1>2, <1>3, <1>4, <1>5, <1>6, <1>7, <1>8, <1>9, <1>10, NextCases

\* Once the HELLOs were exchanged and handled the neighbour knows every registered
\* server, unless a transmission failed at that time: what qrtr_node_enqueue drops
\* before HELLO, announce_servers sends again after it.
THEOREM ServersTold == Spec => []ServersAnnounced
<1>1. Init => Announced
  BY Zenon DEF Init, Announced
<1>2. Typed /\ Announced => ServersAnnounced
  <2> SUFFICES ASSUME Typed, Announced, Settled, lost \cap {"announce", "hello"} = {},
                      NEW s \in registered
               PROVE  s \in ToSet(wire)
    BY Zenon DEF ServersAnnounced
  <2>1. pc["ns"] = "idle" /\ todo = <<>> /\ Told(s)
    BY Zenon DEF Announced, Settled, NsIdle
  <2>2. Within(s, wire)
    BY <2>1 DEF Told, Within
  <2> QED
    BY <2>2, Zenon DEF Within, ToSet
<1> QED
  BY <1>1, <1>2, TypedInvariant, OnceInvariant, AnnouncedNext, PTL DEF Spec
-----------------------------------------------------------------------------
(* QrtrCtrl: at is where its writers are, due says that qrtr_ns_worker is   *)
(* queued.                                                                  *)

CONSTANTS Writers, RcvBuf, MaxPkts
VARIABLES at, sent, queue, charged, signal_on_recv, done, due, nspc, open, gaveUp

C == INSTANCE QrtrCtrl WITH pc <- at, work <- due

\* The cases of a step.
LEMMA CtrlCases ==
  ASSUME [C!Next]_(C!vars), NEW G,
         \A w \in Writers : C!Enqueue(w) => G,
         \A w \in Writers : C!TryQueue(w) => G,
         \A w \in Writers : C!TryFails(w) => G,
         \A w \in Writers : C!DataReady(w) => G,
         \A w \in Writers : C!Arm(w) => G,
         \A w \in Writers : C!Waited(w) => G,
         C!NsStart => G, C!NsNoMemory => G, C!NsRecv => G, C!NsEmpty => G, C!NsFree => G,
         C!NsSignal => G, C!NsRemove => G, C!vars' = C!vars => G
  PROVE  G
  BY Zenon DEF C!Next, C!WriterStep, C!NsStep

\* The Boolean variables are typed.
CtrlFlags ==
  /\ signal_on_recv \in BOOLEAN /\ done \in BOOLEAN
  /\ due \in BOOLEAN /\ open \in BOOLEAN /\ gaveUp \in BOOLEAN

\* The other variables are typed.
CtrlCounts ==
  /\ at \in [Writers -> {"idle", "try", "ready", "arm", "wait"}]
  /\ sent \in [Writers -> 0..MaxPkts]
  /\ queue \in 0..RcvBuf /\ charged \in 0..RcvBuf
  /\ charged = queue + (IF nspc = "taken" THEN 1 ELSE 0)
  /\ nspc \in {"idle", "recv", "taken", "freed"}

\* The provers treat the two parts of TypeOK separately.
LEMMA CtrlTypeParts == C!TypeOK <=> CtrlFlags /\ CtrlCounts
  BY Zenon DEF C!TypeOK, CtrlFlags, CtrlCounts

\* Packets in the queue and the charge to the socket never exceed sk_rcvbuf, and
\* every field keeps its type.
THEOREM CtrlTyped ==
  ASSUME C!CtrlParams
  PROVE  C!Spec => []C!TypeOK
<1>1. C!Init => C!TypeOK
  <2> SUFFICES ASSUME C!Init PROVE CtrlFlags /\ CtrlCounts
    BY CtrlTypeParts, Zenon
  <2>1. CtrlFlags
    BY ZenonT(30) DEF C!Init, CtrlFlags
  <2>2. at = [w \in Writers |-> "idle"] /\ sent = [w \in Writers |-> 0]
        /\ queue = 0 /\ charged = 0 /\ nspc = "idle"
    BY Zenon DEF C!Init
  <2>3. CtrlCounts
    BY <2>2 DEF CtrlCounts, C!CtrlParams
  <2>4. QED
    BY <2>1, <2>3
<1>2. C!TypeOK /\ [C!Next]_(C!vars) => C!TypeOK'
  <2> SUFFICES ASSUME C!TypeOK, [C!Next]_(C!vars) PROVE C!TypeOK'
    BY Zenon
  <2> USE DEF C!TypeOK, C!CtrlParams
  <2>1. ASSUME NEW w \in Writers, C!Enqueue(w) PROVE C!TypeOK'
    BY <2>1 DEF C!Enqueue, C!Goto, C!sockVars, C!nsVars
  <2>2. ASSUME NEW w \in Writers, C!TryQueue(w) PROVE C!TypeOK'
    BY <2>2 DEF C!TryQueue, C!Goto, C!sockVars, C!nsVars
  <2>3. ASSUME NEW w \in Writers, C!TryFails(w) PROVE C!TypeOK'
    BY <2>3, Zenon DEF C!TryFails, C!Goto, C!sockVars, C!nsVars
  <2>4. ASSUME NEW w \in Writers, C!DataReady(w) PROVE C!TypeOK'
    BY <2>4, Zenon DEF C!DataReady, C!Goto, C!sockVars
  <2>5. ASSUME NEW w \in Writers, C!Arm(w) PROVE C!TypeOK'
    BY ZenonT(30), <2>5 DEF C!Arm, C!Goto, C!nsVars
  <2>6. ASSUME NEW w \in Writers, C!Waited(w) PROVE C!TypeOK'
    BY <2>6, Zenon DEF C!Waited, C!Goto, C!sockVars, C!nsVars
  <2>7. CASE C!NsStart
    BY ZenonT(30), <2>7 DEF C!NsStart, C!NsGoto, C!sockVars
  <2>8. CASE C!NsNoMemory
    BY ZenonT(30), <2>8 DEF C!NsNoMemory, C!sockVars
  <2>9. CASE C!NsRecv
    <3> HIDE DEF C!TypeOK
    <3>1. CtrlFlags'
      BY ZenonT(30), <2>9, CtrlTypeParts DEF C!NsRecv, CtrlFlags, C!sockVars
    <3>2. queue > 0 /\ nspc = "recv" /\ nspc' = "taken" /\ queue' = queue - 1
          /\ UNCHANGED <<at, sent, charged>>
      BY <2>9, Zenon DEF C!NsRecv, C!NsGoto
    <3>3. CtrlCounts'
      BY <3>2, CtrlTypeParts DEF CtrlCounts, C!CtrlParams
    <3>4. QED
      BY <3>1, <3>3, CtrlTypeParts, PTL
  <2>10. CASE C!NsEmpty
    BY <2>10, Zenon DEF C!NsEmpty, C!NsGoto, C!sockVars
  <2>11. CASE C!NsFree
    BY <2>11 DEF C!NsFree, C!NsGoto, C!sockVars
  <2>12. CASE C!NsSignal
    BY ZenonT(30), <2>12 DEF C!NsSignal, C!NsGoto
  <2>13. CASE C!NsRemove
    <3> HIDE DEF C!TypeOK
    <3>1. CtrlFlags'
      BY ZenonT(30), <2>13, CtrlTypeParts DEF C!NsRemove, CtrlFlags, C!sockVars
    <3>2. nspc = "idle" /\ queue' = 0 /\ charged' = 0 /\ UNCHANGED <<at, sent, nspc>>
      BY <2>13, Zenon DEF C!NsRemove
    <3>3. CtrlCounts'
      BY <3>2, CtrlTypeParts DEF CtrlCounts, C!CtrlParams
    <3>4. QED
      BY <3>1, <3>3, CtrlTypeParts, PTL
  <2>14. CASE C!vars' = C!vars
    BY <2>14, Zenon DEF C!vars, C!sockVars, C!nsVars
  <2> HIDE DEF C!TypeOK
  <2>15. QED
    BY <2>1, <2>2, <2>3, <2>4, <2>5, <2>6, <2>7, <2>8, <2>9, <2>10, <2>11, <2>12,
       <2>13, <2>14, CtrlCases
<1>3. QED
  BY <1>1, <1>2, PTL DEF C!Spec

\* A writer of qrtr_sock_queue_ctrl_skb that waits is let through by the next
\* packet that qrtr_recvmsg takes, for any number of writers.
THEOREM WaitersSignalled ==
  ASSUME C!CtrlParams
  PROVE  C!Spec => []C!WaiterSignalled
<1>1. C!Init => C!WaiterSignalled
  BY Zenon DEF C!Init, C!WaiterSignalled
<1>2. C!TypeOK /\ C!WaiterSignalled /\ [C!Next]_(C!vars) => C!WaiterSignalled'
  <2> SUFFICES ASSUME C!TypeOK, C!WaiterSignalled, [C!Next]_(C!vars),
                      NEW v \in Writers, at'[v] = "wait"
               PROVE  done' \/ signal_on_recv'
    BY Zenon DEF C!WaiterSignalled
  <2> DEFINE G == done' \/ signal_on_recv'
  <2>0. at \in [Writers -> {"idle", "try", "ready", "arm", "wait"}]
    BY Zenon DEF C!TypeOK
  <2>a. at[v] = "wait" => done \/ signal_on_recv
    BY Zenon DEF C!WaiterSignalled
  <2>1. ASSUME NEW w \in Writers, C!Enqueue(w) PROVE G
    BY <2>0, <2>a, <2>1 DEF C!Enqueue, C!Goto, C!sockVars
  <2>2. ASSUME NEW w \in Writers, C!TryQueue(w) PROVE G
    BY <2>0, <2>a, <2>2 DEF C!TryQueue, C!Goto, C!sockVars
  <2>3. ASSUME NEW w \in Writers, C!TryFails(w) PROVE G
    BY <2>0, <2>a, <2>3 DEF C!TryFails, C!Goto, C!sockVars
  <2>4. ASSUME NEW w \in Writers, C!DataReady(w) PROVE G
    BY <2>0, <2>a, <2>4 DEF C!DataReady, C!Goto, C!sockVars
  <2>5. ASSUME NEW w \in Writers, C!Arm(w) PROVE G
    BY <2>5, Zenon DEF C!Arm
  <2>6. ASSUME NEW w \in Writers, C!Waited(w) PROVE G
    BY <2>6, Zenon DEF C!Waited, C!sockVars
  <2>7. C!NsStart => G
    BY <2>a DEF C!NsStart, C!sockVars
  <2>8. C!NsNoMemory => G
    BY <2>a DEF C!NsNoMemory, C!sockVars
  <2>9. C!NsRecv => G
    BY <2>a DEF C!NsRecv, C!sockVars
  <2>10. C!NsEmpty => G
    BY <2>a DEF C!NsEmpty, C!sockVars
  <2>11. C!NsFree => G
    BY <2>a DEF C!NsFree, C!sockVars
  <2>12. C!NsSignal => G
    BY ZenonT(30), <2>a DEF C!NsSignal
  <2>13. C!NsRemove => G
    BY <2>a DEF C!NsRemove, C!sockVars
  <2>14. C!vars' = C!vars => G
    BY <2>a DEF C!vars, C!sockVars
  <2> HIDE DEF G
  <2>15. G
    BY <2>1, <2>2, <2>3, <2>4, <2>5, <2>6, <2>7, <2>8, <2>9, <2>10, <2>11, <2>12,
       <2>13, <2>14, CtrlCases
  <2>16. QED
    BY <2>15, Zenon DEF G
<1>3. QED
  BY <1>1, <1>2, CtrlTyped, PTL DEF C!Spec

\* Packets never sit in the control socket with nobody about to read them,
\* except where the work item had no memory or the socket was closed.
THEOREM ReceivesComing ==
  ASSUME C!CtrlParams
  PROVE  C!Spec => []C!ReceiveComing
<1>1. C!Init => C!ReceiveComing
  BY DEF C!Init, C!ReceiveComing
<1>2. C!TypeOK /\ C!ReceiveComing /\ [C!Next]_(C!vars) => C!ReceiveComing'
  <2> SUFFICES ASSUME C!TypeOK, C!ReceiveComing, [C!Next]_(C!vars) PROVE C!ReceiveComing'
    BY Zenon
  <2>0. at \in [Writers -> {"idle", "try", "ready", "arm", "wait"}] /\ queue \in Nat
    BY DEF C!TypeOK, C!CtrlParams
  \* A step of one writer that is not "ready" leaves the others as they are.
  <2>a. ASSUME NEW w \in Writers, NEW a, NEW b, C!Goto(w, a, b), a # "ready",
               UNCHANGED C!nsVars, UNCHANGED queue
        PROVE  C!ReceiveComing'
    BY <2>0, <2>a, Zenon DEF C!ReceiveComing, C!Goto, C!nsVars
  <2>1. ASSUME NEW w \in Writers, C!Enqueue(w) PROVE C!ReceiveComing'
    BY <2>1, <2>a, Zenon DEF C!Enqueue
  <2>2. ASSUME NEW w \in Writers, C!TryQueue(w) PROVE C!ReceiveComing'
    BY <2>0, <2>2 DEF C!TryQueue, C!Goto, C!ReceiveComing
  <2>3. ASSUME NEW w \in Writers, C!TryFails(w) PROVE C!ReceiveComing'
    BY <2>3, <2>a DEF C!TryFails
  <2>4. ASSUME NEW w \in Writers, C!DataReady(w) PROVE C!ReceiveComing'
    BY ZenonT(30), <2>4 DEF C!DataReady, C!ReceiveComing
  <2>5. ASSUME NEW w \in Writers, C!Arm(w) PROVE C!ReceiveComing'
    BY <2>5, <2>a, Zenon DEF C!Arm
  <2>6. ASSUME NEW w \in Writers, C!Waited(w) PROVE C!ReceiveComing'
    BY <2>6, <2>a DEF C!Waited
  <2>7. C!NsStart => C!ReceiveComing'
    BY Zenon DEF C!NsStart, C!NsGoto, C!ReceiveComing
  <2>8. C!NsNoMemory => C!ReceiveComing'
    BY Zenon DEF C!NsNoMemory, C!ReceiveComing
  <2>9. C!NsRecv => C!ReceiveComing'
    BY Zenon DEF C!NsRecv, C!NsGoto, C!ReceiveComing
  <2>10. C!NsEmpty => C!ReceiveComing'
    BY DEF C!NsEmpty, C!NsGoto, C!ReceiveComing
  <2>11. C!NsFree => C!ReceiveComing'
    BY Zenon DEF C!NsFree, C!NsGoto, C!ReceiveComing
  <2>12. C!NsSignal => C!ReceiveComing'
    BY Zenon DEF C!NsSignal, C!NsGoto, C!ReceiveComing
  <2>13. C!NsRemove => C!ReceiveComing'
    BY Zenon DEF C!NsRemove, C!ReceiveComing
  <2>14. C!vars' = C!vars => C!ReceiveComing'
    BY Zenon DEF C!vars, C!nsVars, C!ReceiveComing
  <2>15. QED
    BY <2>1, <2>2, <2>3, <2>4, <2>5, <2>6, <2>7, <2>8, <2>9, <2>10, <2>11, <2>12,
       <2>13, <2>14, CtrlCases, Zenon
<1>3. QED
  BY <1>1, <1>2, CtrlTyped, PTL DEF C!Spec
=============================================================================
