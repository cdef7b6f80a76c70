-------------------------- MODULE QrtrPortsProofs ---------------------------
(* Proofs about QrtrPorts, for any number of sockets, ports and threads.    *)
EXTENDS QrtrPorts, FiniteSetTheorems, WellFoundedInduction, TLAPS

\* A set of naturals that is not empty has its Min.
LEMMA MinIn ==
  ASSUME NEW S \in SUBSET Nat, S # {}
  PROVE  Min(S) \in S
<1>1. PICK x \in S : \A y \in S : ~ (<<y, x>> \in OpToRel(<, Nat))
  BY NatLessThanWellFounded, WFMin, Zenon
<1>2. \A y \in S : x =< y
  <2> SUFFICES ASSUME NEW y \in S PROVE x =< y
    BY Zenon
  <2>1. ~ (y < x)
    BY ZenonT(30), <1>1 DEF OpToRel
  <2> QED
    BY <2>1
<1> QED
  BY <1>2, Zenon DEF Min

\* xa_alloc_cyclic hands out a free port of its range.
LEMMA CyclicFree ==
  ASSUME Free # {}
  PROVE  Cyclic \in Free
<1> DEFINE ahead == {p \in Free : p >= ports_next}
<1>1. Free \in SUBSET Nat /\ ahead \in SUBSET Nat
  BY PortsAssumption DEF Free
<1>2. Min(Free) \in Free
  BY <1>1, MinIn, Zenon
<1>3. ahead # {} => Min(ahead) \in Free
  BY <1>1, MinIn, Zenon
<1> QED
  BY <1>2, <1>3, Zenon DEF Cyclic

\* The types the arguments below need.
Typed ==
  /\ qrtr_ports \in [Ports -> Sockets \cup {NoSocket}]
  /\ sq_port \in [Sockets -> {0} \cup Ports]
  /\ port \in [Sockets -> {0} \cup Ports]
  /\ pc \in [Sockets -> {"idle", "bound", "leave", "left", "erase",
                         "close", "closed", "eraseLast", "purge", "gone"}]
  /\ refs \in [Sockets -> Int]
  /\ found \in [Deliverers -> Sockets \cup {NoSocket}]

\* The ports a socket is found under at each step of its owner.
Owns(s) ==
  /\ pc[s] = "idle" => PortsOf(s) = {sq_port[s]} \ {0}
  /\ pc[s] = "bound" => port[s] # 0 /\ PortsOf(s) = {port[s]}
  /\ pc[s] \in {"leave", "left", "erase"} =>
       /\ sq_port[s] # 0 /\ port[s] # 0 /\ port[s] # sq_port[s]
       /\ PortsOf(s) = {sq_port[s], port[s]}
  /\ pc[s] \in {"close", "closed", "eraseLast"} =>
       sq_port[s] # 0 /\ PortsOf(s) = {sq_port[s]}
  /\ pc[s] \in {"purge", "gone"} => PortsOf(s) = {}
  /\ s \notin Admins => PortsOf(s) \subseteq MinEph..MaxEph

Table == Typed /\ \A s \in Sockets : Owns(s)

\* The cases of a step.
LEMMA NextCases ==
  ASSUME [Next]_vars, NEW G,
         \A s \in Sockets, want \in {0} \cup Ports : Bind(s, want) => G,
         \A s \in Sockets : Bound(s) => G,
         \A s \in Sockets : SendDelClient(s) => G,
         \A s \in Sockets : SendDelClientFails(s) => G,
         \A s \in Sockets : PortPut(s) => G,
         \A s \in Sockets : PortErase(s) => G,
         \A s \in Sockets : Release(s) => G,
         \A s \in Sockets : Purge(s) => G,
         \A s \in Sockets : Request(s) => G,
         \A d \in Deliverers, p \in Ports : PortLookup(d, p) => G,
         \A d \in Deliverers : PortPutBack(d) => G,
         NsWorker => G,
         vars' = vars => G
  PROVE  G
  BY Zenon DEF Next

\* What Bind does to the table, whichever port it takes.
LEMMA BindTakes ==
  ASSUME Table, NEW s \in Sockets, NEW want \in {0} \cup Ports, Bind(s, want)
  PROVE  \E p \in Ports :
           /\ Assign(s, p)
           /\ s \notin Admins => p \in MinEph..MaxEph
           /\ p # sq_port[s]
<1> USE PortsAssumption DEF Table, Typed, Ports
<1>1. CASE want = 0 /\ Free # {} /\ Assign(s, Cyclic)
  <2>1. Cyclic \in Free
    BY <1>1, CyclicFree, Zenon
  <2>2. Cyclic \in MinEph..MaxEph /\ qrtr_ports[Cyclic] = NoSocket
    BY <2>1, Zenon DEF Free
  <2>3. Cyclic # sq_port[s]
    <3>1. pc[s] = "idle" /\ Owns(s)
      BY Zenon DEF Bind, Goto
    <3> QED
      BY <3>1, <2>2 DEF Owns, PortsOf
  <2> HIDE DEF Typed, Table
  <2>4. Cyclic \in Ports
    BY <2>2 DEF Ports
  <2> QED
    BY <1>1, <2>2, <2>3, <2>4, Zenon
<1>2. CASE want # 0 /\ want # sq_port[s] /\ (want < MinEph => s \in Admins) /\ Assign(s, want)
  <2>1. want \in Ports /\ (s \notin Admins => want \in MinEph..MaxEph)
    BY <1>2
  <2> QED
    BY <1>2, <2>1, Zenon
<1> QED
  BY <1>1, <1>2, Zenon DEF Bind

\* Table is inductive.
LEMMA TableStep == Table /\ [Next]_vars => Table'
<1> SUFFICES ASSUME Table, [Next]_vars PROVE Table'
  BY Zenon
<1> USE PortsAssumption
<1>1. ASSUME NEW s \in Sockets, NEW want \in {0} \cup Ports, Bind(s, want) PROVE Table'
  <2>1. PICK p \in Ports : /\ Assign(s, p)
                           /\ s \notin Admins => p \in MinEph..MaxEph
                           /\ p # sq_port[s]
    BY <1>1, BindTakes, Zenon
  <2>2. Typed'
    BY <1>1, <2>1 DEF Bind, Assign, Hold, Goto, Table, Typed
  <2>3. PortsOf(s)' = PortsOf(s) \cup {p}
    BY <2>1, <2>2 DEF Assign, PortsOf, Table, Typed
  <2>4. \A t \in Sockets \ {s} : PortsOf(t)' = PortsOf(t)
    BY <2>1, Zenon DEF Assign, PortsOf, Table, Typed
  <2>5. Owns(s)'
    <3>1. Owns(s) /\ pc[s] = "idle" /\ UNCHANGED sq_port /\ port'[s] = p
      BY <1>1, <2>1, Zenon DEF Bind, Goto, Assign, Table, Typed
    <3>2. pc'[s] = IF sq_port[s] = 0 THEN "bound" ELSE "leave"
      BY <1>1, Zenon DEF Bind, Goto, Table, Typed
    <3>3. p # 0
      BY DEF Ports
    <3> QED
      BY <3>1, <3>2, <3>3, <2>1, <2>3, Zenon DEF Owns
  <2>6. ASSUME NEW t \in Sockets, t # s PROVE Owns(t)'
    <3>1. Owns(t) /\ pc'[t] = pc[t] /\ sq_port'[t] = sq_port[t] /\ port'[t] = port[t]
      BY <1>1, <2>1, <2>6, Zenon DEF Bind, Goto, Assign, Table, Typed
    <3> QED
      BY <3>1, <2>4, <2>6, Zenon DEF Owns
  <2> QED
    BY <2>2, <2>5, <2>6, Zenon DEF Table
<1>2. ASSUME NEW s \in Sockets, PortErase(s) PROVE Table'
  <2>1. Typed'
    BY ZenonT(30), <1>2 DEF PortErase, Table, Typed
  <2>2. Owns(s) /\ sq_port[s] \in Ports
    BY <1>2, Zenon DEF PortErase, Owns, Table, Typed
  <2>3. PortsOf(s)' = PortsOf(s) \ {sq_port[s]}
    BY <1>2, <2>2, <2>1, Zenon DEF PortErase, PortsOf, Table, Typed
  <2>4. \A t \in Sockets \ {s} : PortsOf(t)' = PortsOf(t)
    BY <1>2, <2>2 DEF PortErase, PortsOf, Table, Typed, Owns
  <2>5. Owns(s)'
    BY <1>2, <2>2, <2>3 DEF PortErase, Owns, Table, Typed
  <2>6. ASSUME NEW t \in Sockets, t # s PROVE Owns(t)'
    BY <1>2, <2>4, <2>6 DEF PortErase, Owns, Table, Typed
  <2> QED
    BY <2>1, <2>5, <2>6, Zenon DEF Table
<1>3. ASSUME UNCHANGED <<qrtr_ports, sq_port, port, pc>>, Typed' PROVE Table'
  BY <1>3 DEF Table, Owns, PortsOf
<1>4. ASSUME NEW s \in Sockets, UNCHANGED <<qrtr_ports, port>>, Typed',
             \A t \in Sockets \ {s} : pc'[t] = pc[t] /\ sq_port'[t] = sq_port[t],
             Owns(s) => Owns(s)'
      PROVE  Table'
  <2>1. \A t \in Sockets : PortsOf(t)' = PortsOf(t)
    BY <1>4, Zenon DEF PortsOf
  <2>2. ASSUME NEW t \in Sockets, t # s PROVE Owns(t)'
    <3>1. Owns(t) /\ pc'[t] = pc[t] /\ sq_port'[t] = sq_port[t] /\ port'[t] = port[t]
      BY <1>4, <2>2, Zenon DEF Table
    <3> QED
      BY <2>1, <3>1, Zenon DEF Owns
  <2>3. Owns(s)'
    BY <1>4, Zenon DEF Table
  <2> QED
    BY <1>4, <2>2, <2>3, Zenon DEF Table
<1>5. ASSUME NEW s \in Sockets, Bound(s) PROVE Table'
  <2>1. Typed'
    BY <1>5, Zenon DEF Bound, Goto, Table, Typed
  <2>2. /\ UNCHANGED <<qrtr_ports, port>>
        /\ \A t \in Sockets \ {s} : pc'[t] = pc[t] /\ sq_port'[t] = sq_port[t]
    BY <1>5, Zenon DEF Bound, Goto, Table, Typed
  <2>3. pc[s] = "bound" /\ pc'[s] = "idle" /\ sq_port'[s] = port[s]
    BY <1>5, Zenon DEF Bound, Goto, Table, Typed
  <2>4. PortsOf(s)' = PortsOf(s) /\ port'[s] = port[s]
    BY <2>2, Zenon DEF PortsOf
  <2>5. Owns(s) => Owns(s)'
    BY <2>3, <2>4, Zenon DEF Owns
  <2> QED
    BY <1>4, <2>1, <2>2, <2>5, Zenon
<1>6. ASSUME NEW s \in Sockets, SendDelClient(s) PROVE Table'
  <2>1. Typed'
    BY <1>6, Zenon DEF SendDelClient, After, Table, Typed
  <2>2. /\ UNCHANGED <<qrtr_ports, port>>
        /\ \A t \in Sockets \ {s} : pc'[t] = pc[t] /\ sq_port'[t] = sq_port[t]
    BY <1>6, Zenon DEF SendDelClient, After, Table, Typed
  <2>3. /\ \/ pc[s] = "leave" /\ pc'[s] = "left"
           \/ pc[s] = "close" /\ pc'[s] = "closed"
        /\ sq_port'[s] = sq_port[s]
    BY <1>6, Zenon DEF SendDelClient, After, Table, Typed
  <2>4. PortsOf(s)' = PortsOf(s) /\ port'[s] = port[s]
    BY <2>2, Zenon DEF PortsOf
  <2>5. Owns(s) => Owns(s)'
    BY <2>3, <2>4, Zenon DEF Owns
  <2> QED
    BY <1>4, <2>1, <2>2, <2>5, Zenon
<1>7. ASSUME NEW s \in Sockets, SendDelClientFails(s) PROVE Table'
  <2>1. Typed'
    BY <1>7, Zenon DEF SendDelClientFails, After, Table, Typed
  <2>2. /\ UNCHANGED <<qrtr_ports, port>>
        /\ \A t \in Sockets \ {s} : pc'[t] = pc[t] /\ sq_port'[t] = sq_port[t]
    BY <1>7, Zenon DEF SendDelClientFails, After, Table, Typed
  <2>3. /\ \/ pc[s] = "leave" /\ pc'[s] = "left"
           \/ pc[s] = "close" /\ pc'[s] = "closed"
        /\ sq_port'[s] = sq_port[s]
    BY <1>7, Zenon DEF SendDelClientFails, After, Table, Typed
  <2>4. PortsOf(s)' = PortsOf(s) /\ port'[s] = port[s]
    BY <2>2, Zenon DEF PortsOf
  <2>5. Owns(s) => Owns(s)'
    BY <2>3, <2>4, Zenon DEF Owns
  <2> QED
    BY <1>4, <2>1, <2>2, <2>5, Zenon
<1>8. ASSUME NEW s \in Sockets, PortPut(s) PROVE Table'
  <2>1. Typed'
    BY <1>8 DEF PortPut, Put, Table, Typed
  <2>2. /\ UNCHANGED <<qrtr_ports, port>>
        /\ \A t \in Sockets \ {s} : pc'[t] = pc[t] /\ sq_port'[t] = sq_port[t]
    BY <1>8, Zenon DEF PortPut, Put, Table, Typed
  <2>3. /\ \/ pc[s] = "left" /\ pc'[s] = "erase"
           \/ pc[s] = "closed" /\ pc'[s] = "eraseLast"
        /\ sq_port'[s] = sq_port[s]
    BY <1>8, Zenon DEF PortPut, Put, Table, Typed
  <2>4. PortsOf(s)' = PortsOf(s) /\ port'[s] = port[s]
    BY <2>2, Zenon DEF PortsOf
  <2>5. Owns(s) => Owns(s)'
    BY <2>3, <2>4, Zenon DEF Owns
  <2> QED
    BY <1>4, <2>1, <2>2, <2>5, Zenon
<1>9. ASSUME NEW s \in Sockets, Release(s) PROVE Table'
  <2>1. Typed'
    BY <1>9, Zenon DEF Release, Goto, Table, Typed
  <2>2. /\ UNCHANGED <<qrtr_ports, port>>
        /\ \A t \in Sockets \ {s} : pc'[t] = pc[t] /\ sq_port'[t] = sq_port[t]
    BY <1>9, Zenon DEF Release, Goto, Table, Typed
  <2>3. /\ pc[s] = "idle" /\ sq_port'[s] = sq_port[s]
        /\ pc'[s] = IF sq_port[s] = 0 THEN "purge" ELSE "close"
    BY <1>9, Zenon DEF Release, Goto, Table, Typed
  <2>4. PortsOf(s)' = PortsOf(s) /\ port'[s] = port[s]
    BY <2>2, Zenon DEF PortsOf
  <2>5. Owns(s) => Owns(s)'
    BY <2>3, <2>4, Zenon DEF Owns
  <2> QED
    BY <1>4, <2>1, <2>2, <2>5, Zenon
<1>10. ASSUME NEW s \in Sockets, Purge(s) PROVE Table'
  <2>1. Typed'
    BY <1>10 DEF Purge, Put, Goto, Table, Typed
  <2>2. /\ UNCHANGED <<qrtr_ports, port>>
        /\ \A t \in Sockets \ {s} : pc'[t] = pc[t] /\ sq_port'[t] = sq_port[t]
    BY <1>10, Zenon DEF Purge, Put, Goto, Table, Typed
  <2>3. pc[s] = "purge" /\ pc'[s] = "gone" /\ sq_port'[s] = sq_port[s]
    BY <1>10, Zenon DEF Purge, Put, Goto, Table, Typed
  <2>4. PortsOf(s)' = PortsOf(s) /\ port'[s] = port[s]
    BY <2>2, Zenon DEF PortsOf
  <2>5. Owns(s) => Owns(s)'
    BY <2>3, <2>4, Zenon DEF Owns
  <2> QED
    BY <1>4, <2>1, <2>2, <2>5, Zenon
<1>11. ASSUME NEW s \in Sockets, Request(s) PROVE Table'
  BY <1>11, <1>3, Zenon DEF Request, Table, Typed
<1>12. ASSUME NEW d \in Deliverers, NEW p \in Ports, PortLookup(d, p) PROVE Table'
  BY <1>12, <1>3 DEF PortLookup, Hold, Table, Typed
<1>13. ASSUME NEW d \in Deliverers, PortPutBack(d) PROVE Table'
  BY <1>13, <1>3 DEF PortPutBack, Put, Table, Typed
<1>14. NsWorker => Table'
  BY <1>3, Zenon DEF NsWorker, Table, Typed
<1>15. vars' = vars => Table'
  BY <1>3, Zenon DEF vars, Table, Typed
<1> QED
  BY <1>1, <1>2, <1>5, <1>6, <1>7, <1>8, <1>9, <1>10, <1>11, <1>12, <1>13, <1>14, <1>15,
     NextCases, Zenon

\* The initial state.
LEMMA TableInit == Init => Table
  BY PortsAssumption DEF Init, Table, Typed, Owns, PortsOf, Ports

\* The table is right in every behaviour.
LEMMA TableInvariant == Spec => []Table
  BY TableInit, TableStep, PTL DEF Spec

\* A socket at rest is found under its own port and no other, a closed one
\* under none, and low ports belong to admins.
THEOREM PortsAgree == Spec => []TableAgrees
<1>1. Table => TableAgrees
  BY Zenon DEF Table, Owns, TableAgrees
<1> QED
  BY <1>1, TableInvariant, PTL

-----------------------------------------------------------------------------
(* Reference counts *)

Seekers(s) == {d \in Deliverers : found[d] = s}

\* What sk_refcnt is short of the owner's and the lookups' references.
Extra(s) == (IF pc[s] = "gone" THEN 0 ELSE 1)
            - (IF pc[s] \in {"erase", "eraseLast"} THEN 1 ELSE 0)

Counted(s) == refs[s] = Cardinality(PortsOf(s)) + Cardinality(Seekers(s)) + Extra(s)

AllCounted == \A s \in Sockets : Counted(s)

\* The sets that are counted are finite.
LEMMA Finite ==
  ASSUME NEW s
  PROVE  /\ IsFiniteSet(PortsOf(s)) /\ Cardinality(PortsOf(s)) \in Nat
         /\ IsFiniteSet(Seekers(s)) /\ Cardinality(Seekers(s)) \in Nat
<1>1. IsFiniteSet(Ports)
  BY FS_Interval, PortsAssumption DEF Ports
<1>2. IsFiniteSet(PortsOf(s)) /\ IsFiniteSet(Seekers(s))
  BY <1>1, FS_Subset, PortsAssumption, Zenon DEF PortsOf, Seekers
<1> QED
  BY <1>2, FS_CardinalityType, Zenon

\* One element more.
LEMMA Added ==
  ASSUME NEW S, NEW T, NEW x, IsFiniteSet(S), x \notin S, T = S \cup {x}
  PROVE  Cardinality(T) = Cardinality(S) + 1
  BY FS_AddElement, Zenon

\* The same for an element less.
LEMMA Removed ==
  ASSUME NEW S, NEW T, NEW x, IsFiniteSet(S), x \in S, T = S \ {x}
  PROVE  Cardinality(T) = Cardinality(S) - 1
  BY FS_RemoveElement, Zenon

\* The owner's references change by what Extra changes.
LEMMA Balance ==
  ASSUME NEW s, Counted(s), PortsOf(s)' = PortsOf(s), Seekers(s)' = Seekers(s),
         refs'[s] \in Int, refs'[s] - refs[s] = Extra(s)' - Extra(s)
  PROVE  Counted(s)'
<1>1. Cardinality(PortsOf(s)) \in Nat /\ Cardinality(Seekers(s)) \in Nat
  BY Finite, Zenon
<1>2. Extra(s) \in Int /\ Extra(s)' \in Int
  BY DEF Extra
<1>3. refs'[s] = Cardinality(PortsOf(s)) + Cardinality(Seekers(s)) + Extra(s)'
  BY <1>1, <1>2 DEF Counted
<1> QED
  BY <1>3, Zenon DEF Counted

\* A step that takes or gives up references of one socket only.
LEMMA CountedStep ==
  ASSUME Table, \A s \in Sockets : Counted(s), NEW s \in Sockets,
         \A t \in Sockets \ {s} : /\ refs'[t] = refs[t] /\ pc'[t] = pc[t]
                                  /\ PortsOf(t)' = PortsOf(t)
                                  /\ Seekers(t)' = Seekers(t),
         Counted(s)'
  PROVE  \A t \in Sockets : Counted(t)'
  BY Zenon DEF Counted, Extra

\* Every step keeps the count.
LEMMA CountStep ==
  Table /\ (\A s \in Sockets : Counted(s)) /\ [Next]_vars => \A s \in Sockets : Counted(s)'
<1> SUFFICES ASSUME Table, \A s \in Sockets : Counted(s), [Next]_vars
             PROVE  \A s \in Sockets : Counted(s)'
  BY Zenon
<1> USE PortsAssumption
<1> DEFINE G == \A s \in Sockets : Counted(s)'
<1>1. ASSUME NEW s \in Sockets, NEW want \in {0} \cup Ports, Bind(s, want) PROVE G
  <2>1. PICK p \in Ports : Assign(s, p)
    BY <1>1, BindTakes, Zenon
  <2>2. PortsOf(s)' = PortsOf(s) \cup {p} /\ p \notin PortsOf(s)
    BY <2>1 DEF Assign, PortsOf, Table, Typed
  <2>3. Cardinality(PortsOf(s)') = Cardinality(PortsOf(s)) + 1
    BY <2>2, Finite, Added, Zenon
  <2>4. UNCHANGED found
    BY <1>1, Zenon DEF Bind
  <2>5. Seekers(s)' = Seekers(s)
    BY <2>4, Zenon DEF Seekers
  <2>6. Extra(s)' = Extra(s)
    BY <1>1, Zenon DEF Bind, Goto, Extra, Table, Typed
  <2>7. refs'[s] = refs[s] + 1
    BY <2>1, Zenon DEF Assign, Hold, Table, Typed
  <2>8. Counted(s)'
    BY <2>3, <2>5, <2>6, <2>7, Finite DEF Counted, Extra
  <2>9. \A t \in Sockets \ {s} : /\ refs'[t] = refs[t] /\ pc'[t] = pc[t]
                                 /\ PortsOf(t)' = PortsOf(t)
                                 /\ Seekers(t)' = Seekers(t)
    BY <1>1, <2>1, <2>4, Zenon DEF Bind, Assign, Hold, Goto, PortsOf, Seekers, Table, Typed
  <2> QED
    BY <2>8, <2>9, CountedStep, Zenon
<1>2. ASSUME NEW s \in Sockets, PortErase(s) PROVE G
  <2>1. sq_port[s] \in PortsOf(s)
    BY <1>2 DEF PortErase, Table, Typed, Owns
  <2>2. PortsOf(s)' = PortsOf(s) \ {sq_port[s]}
    BY <1>2, <2>1, Zenon DEF PortErase, PortsOf, Table, Typed
  <2>3. Cardinality(PortsOf(s)') = Cardinality(PortsOf(s)) - 1
    BY <2>1, <2>2, Finite, Removed, Zenon
  <2>4. Extra(s)' = Extra(s) + 1 /\ refs' = refs /\ Seekers(s)' = Seekers(s)
    BY <1>2 DEF PortErase, Extra, Table, Typed, Seekers
  <2>5. Counted(s)'
    <3>1. /\ Cardinality(PortsOf(s)) \in Nat /\ Cardinality(Seekers(s)) \in Nat
          /\ Extra(s) \in Int
      BY Finite DEF Extra
    <3>2. refs[s] = Cardinality(PortsOf(s)) + Cardinality(Seekers(s)) + Extra(s)
      BY Zenon DEF Counted
    <3>3. refs'[s] = Cardinality(PortsOf(s)') + Cardinality(Seekers(s)') + Extra(s)'
      BY <2>3, <2>4, <3>1, <3>2
    <3> QED
      BY <3>3, Zenon DEF Counted
  <2>6. \A t \in Sockets \ {s} : /\ refs'[t] = refs[t] /\ pc'[t] = pc[t]
                                 /\ PortsOf(t)' = PortsOf(t)
                                 /\ Seekers(t)' = Seekers(t)
    BY <1>2, <2>1, Zenon DEF PortErase, PortsOf, Seekers, Table, Typed
  <2> QED
    BY <2>5, <2>6, CountedStep, Zenon
<1>3. ASSUME NEW s \in Sockets, UNCHANGED <<qrtr_ports, found>>,
             refs'[s] - refs[s] = Extra(s)' - Extra(s), refs'[s] \in Int,
             \A t \in Sockets \ {s} : refs'[t] = refs[t] /\ pc'[t] = pc[t]
      PROVE  G
  <2>1. \A t : PortsOf(t)' = PortsOf(t) /\ Seekers(t)' = Seekers(t)
    BY <1>3, Zenon DEF PortsOf, Seekers
  <2>2. Counted(s)'
    BY <1>3, <2>1, Balance, Zenon
  <2> QED
    BY <1>3, <2>1, <2>2, CountedStep, Zenon
<1>4. ASSUME NEW s \in Sockets, Bound(s) PROVE G
  <2>1. /\ UNCHANGED <<qrtr_ports, found>>
        /\ \A t \in Sockets \ {s} : refs'[t] = refs[t] /\ pc'[t] = pc[t]
    BY <1>4, Zenon DEF Bound, Goto, Table, Typed
  <2>2. refs'[s] \in Int /\ refs'[s] - refs[s] = Extra(s)' - Extra(s)
    BY <1>4 DEF Bound, Goto, Extra, Table, Typed
  <2> QED
    BY <1>3, <2>1, <2>2, Zenon
<1>5. ASSUME NEW s \in Sockets, SendDelClient(s) PROVE G
  <2>1. /\ UNCHANGED <<qrtr_ports, found>>
        /\ \A t \in Sockets \ {s} : refs'[t] = refs[t] /\ pc'[t] = pc[t]
    BY <1>5, Zenon DEF SendDelClient, After, Table, Typed
  <2>2. refs'[s] \in Int /\ refs'[s] - refs[s] = Extra(s)' - Extra(s)
    BY <1>5 DEF SendDelClient, After, Extra, Table, Typed
  <2> QED
    BY <1>3, <2>1, <2>2, Zenon
<1>6. ASSUME NEW s \in Sockets, SendDelClientFails(s) PROVE G
  <2>1. /\ UNCHANGED <<qrtr_ports, found>>
        /\ \A t \in Sockets \ {s} : refs'[t] = refs[t] /\ pc'[t] = pc[t]
    BY <1>6, Zenon DEF SendDelClientFails, After, Table, Typed
  <2>2. refs'[s] \in Int /\ refs'[s] - refs[s] = Extra(s)' - Extra(s)
    BY <1>6 DEF SendDelClientFails, After, Extra, Table, Typed
  <2> QED
    BY <1>3, <2>1, <2>2, Zenon
<1>7. ASSUME NEW s \in Sockets, PortPut(s) PROVE G
  <2>1. /\ UNCHANGED <<qrtr_ports, found>>
        /\ \A t \in Sockets \ {s} : refs'[t] = refs[t] /\ pc'[t] = pc[t]
    BY <1>7, Zenon DEF PortPut, Put, Table, Typed
  <2>2. refs'[s] \in Int /\ refs'[s] - refs[s] = Extra(s)' - Extra(s)
    BY <1>7 DEF PortPut, Put, Extra, Table, Typed
  <2> QED
    BY <1>3, <2>1, <2>2, Zenon
<1>8. ASSUME NEW s \in Sockets, Release(s) PROVE G
  <2>1. /\ UNCHANGED <<qrtr_ports, found>>
        /\ \A t \in Sockets \ {s} : refs'[t] = refs[t] /\ pc'[t] = pc[t]
    BY <1>8, Zenon DEF Release, Goto, Table, Typed
  <2>2. refs'[s] \in Int /\ refs'[s] - refs[s] = Extra(s)' - Extra(s)
    BY <1>8 DEF Release, Goto, Extra, Table, Typed
  <2> QED
    BY <1>3, <2>1, <2>2, Zenon
<1>9. ASSUME NEW s \in Sockets, Purge(s) PROVE G
  <2>1. /\ UNCHANGED <<qrtr_ports, found>>
        /\ \A t \in Sockets \ {s} : refs'[t] = refs[t] /\ pc'[t] = pc[t]
    BY <1>9, Zenon DEF Purge, Put, Goto, Table, Typed
  <2>2. refs'[s] \in Int /\ refs'[s] - refs[s] = Extra(s)' - Extra(s)
    BY <1>9 DEF Purge, Put, Goto, Extra, Table, Typed
  <2> QED
    BY <1>3, <2>1, <2>2, Zenon
<1>10. ASSUME NEW d \in Deliverers, NEW p \in Ports, PortLookup(d, p) PROVE G
  <2>1. PICK s \in Sockets : s = qrtr_ports[p]
    BY <1>10, Zenon DEF PortLookup, Table, Typed
  <2>2. Seekers(s)' = Seekers(s) \cup {d} /\ d \notin Seekers(s)
    BY <1>10, <2>1 DEF PortLookup, Seekers, Table, Typed
  <2>3. Cardinality(Seekers(s)') = Cardinality(Seekers(s)) + 1
    BY <2>2, Finite, Added, Zenon
  <2>4. refs'[s] = refs[s] + 1 /\ UNCHANGED <<pc, qrtr_ports>>
    BY <1>10, <2>1, Zenon DEF PortLookup, Hold, Table, Typed
  <2>5. PortsOf(s)' = PortsOf(s) /\ Extra(s)' = Extra(s)
    BY <2>4, Zenon DEF PortsOf, Extra
  <2>6. \A t \in Sockets \ {s} : /\ refs'[t] = refs[t] /\ pc'[t] = pc[t]
                                 /\ PortsOf(t)' = PortsOf(t)
                                 /\ Seekers(t)' = Seekers(t)
    BY <1>10, <2>1, <2>4 DEF PortLookup, Hold, PortsOf, Seekers, Table, Typed
  <2>7. Counted(s)'
    BY <2>1, <2>3, <2>4, <2>5, Finite DEF Counted, Extra
  <2> QED
    BY <2>1, <2>6, <2>7, CountedStep, Zenon
<1>11. ASSUME NEW d \in Deliverers, PortPutBack(d) PROVE G
  <2>1. PICK s \in Sockets : s = found[d]
    BY <1>11, Zenon DEF PortPutBack, Table, Typed
  <2>2. Seekers(s)' = Seekers(s) \ {d} /\ d \in Seekers(s)
    BY <1>11, <2>1, Zenon DEF PortPutBack, Seekers, Table, Typed
  <2>3. Cardinality(Seekers(s)') = Cardinality(Seekers(s)) - 1
    BY <2>2, Finite, Removed, Zenon
  <2>4. refs'[s] = refs[s] - 1 /\ UNCHANGED <<pc, qrtr_ports>>
    BY <1>11, <2>1, Zenon DEF PortPutBack, Put, Table, Typed
  <2>5. PortsOf(s)' = PortsOf(s) /\ Extra(s)' = Extra(s)
    BY <2>4, Zenon DEF PortsOf, Extra
  <2>6. \A t \in Sockets \ {s} : /\ refs'[t] = refs[t] /\ pc'[t] = pc[t]
                                 /\ PortsOf(t)' = PortsOf(t)
                                 /\ Seekers(t)' = Seekers(t)
    BY <1>11, <2>1, <2>4 DEF PortPutBack, Put, PortsOf, Seekers, Table, Typed
  <2>7. Counted(s)'
    BY <2>1, <2>3, <2>4, <2>5, Finite DEF Counted, Extra
  <2> QED
    BY <2>1, <2>6, <2>7, CountedStep
<1>12. ASSUME UNCHANGED <<qrtr_ports, found, refs, pc>> PROVE G
  BY <1>12, Zenon DEF Counted, Extra, PortsOf, Seekers
<1>13. ASSUME NEW s \in Sockets, Request(s) PROVE G
  BY <1>12, <1>13, Zenon DEF Request
<1>14. NsWorker => G
  BY <1>12, Zenon DEF NsWorker
<1>15. vars' = vars => G
  BY <1>12, Zenon DEF vars
<1> HIDE DEF G
<1>16. G
  BY ZenonT(30), <1>1, <1>2, <1>4, <1>5, <1>6, <1>7, <1>8, <1>9, <1>10, <1>11, <1>13, <1>14, <1>15,
     NextCases, Zenon
<1> QED
  BY <1>16, Zenon DEF G

\* The counts are right in every behaviour.
LEMMA CountInvariant == Spec => []AllCounted
<1>1. Init => AllCounted
  <2> SUFFICES ASSUME Init, NEW s \in Sockets PROVE Counted(s)
    BY Zenon DEF AllCounted
  <2>1. PortsOf(s) = {} /\ Seekers(s) = {}
    BY PortsAssumption, Zenon DEF Init, PortsOf, Seekers
  <2> QED
    BY <2>1, FS_EmptySet DEF Init, Counted, Extra
<1>2. Table /\ AllCounted /\ [Next]_vars => AllCounted'
  BY CountStep, Zenon DEF AllCounted
<1> QED
  BY <1>1, <1>2, TableInvariant, PTL DEF Spec

\* sk_refcnt is the number of those who can reach the socket.
THEOREM RefsCounted == Spec => []RefsCount
<1>1. Table /\ AllCounted => RefsCount
  BY Finite, Zenon DEF AllCounted, RefsCount, Counted, Extra, Seekers
<1> QED
  BY <1>1, TableInvariant, CountInvariant, PTL

\* The rest of the types.
Queued ==
  /\ ports_next \in MinEph..MaxEph
  /\ ctrl \in Seq([cmd : {"NEW", "DEL_CLIENT"}, port : Ports, sock : Sockets])

\* Every step keeps them.
LEMMA QueuedStep == Table /\ Queued /\ [Next]_vars => Queued'
<1> SUFFICES ASSUME Table, Queued, [Next]_vars PROVE Queued'
  BY Zenon
<1> USE PortsAssumption
<1>0. ASSUME UNCHANGED <<ports_next, ctrl>> PROVE Queued'
  BY <1>0, Zenon DEF Queued
<1>1. ASSUME NEW s \in Sockets, NEW want \in {0} \cup Ports, Bind(s, want) PROVE Queued'
  <2>1. Free # {} => Wrap(Cyclic) \in MinEph..MaxEph
    <3> SUFFICES ASSUME Free # {} PROVE Wrap(Cyclic) \in MinEph..MaxEph
      BY Zenon
    <3>1. Cyclic \in MinEph..MaxEph
      BY CyclicFree, Zenon DEF Free
    <3> QED
      BY <3>1 DEF Wrap
  <2> QED
    BY <1>1, <2>1, Zenon DEF Bind, Queued
<1>2. ASSUME NEW s \in Sockets, NEW c \in {"NEW", "DEL_CLIENT"}, sq_port[s] \in Ports,
             ctrl' = Append(ctrl, [cmd |-> c, port |-> sq_port[s], sock |-> s]),
             UNCHANGED ports_next
      PROVE  Queued'
  BY <1>2 DEF Queued
<1>3. ASSUME NEW s \in Sockets, SendDelClient(s) PROVE Queued'
  <2>1. sq_port[s] \in Ports
    BY <1>3, Zenon DEF SendDelClient, Table, Typed, Owns
  <2> QED
    BY <1>2, <1>3, <2>1, Zenon DEF SendDelClient
<1>4. ASSUME NEW s \in Sockets, Request(s) PROVE Queued'
  <2>1. sq_port[s] \in Ports
    BY <1>4, Zenon DEF Request, Table, Typed
  <2> QED
    BY <1>2, <1>4, <2>1, Zenon DEF Request
<1>5. NsWorker => Queued'
  BY DEF NsWorker, Queued
<1>6. ASSUME NEW s \in Sockets,
             \/ Bound(s) \/ SendDelClientFails(s) \/ PortPut(s) \/ PortErase(s)
             \/ Release(s) \/ Purge(s)
      PROVE  Queued'
  BY <1>0, <1>6, Zenon DEF Bound, SendDelClientFails, PortPut, PortErase, Release, Purge
<1>7. ASSUME NEW d \in Deliverers,
             (\E p \in Ports : PortLookup(d, p)) \/ PortPutBack(d)
      PROVE  Queued'
  BY <1>0, <1>7, Zenon DEF PortLookup, PortPutBack
<1>8. vars' = vars => Queued'
  BY <1>0, Zenon DEF vars
<1> QED
  BY <1>1, <1>3, <1>4, <1>5, <1>6, <1>7, <1>8, Zenon DEF Next

\* A count of references is never negative.
LEMMA RefsNatural == Table /\ AllCounted => refs \in [Sockets -> Nat]
<1> SUFFICES ASSUME Table, AllCounted, NEW s \in Sockets PROVE refs[s] \in Nat
  BY Zenon DEF Table, Typed
<1>1. Owns(s) /\ Counted(s)
  BY Zenon DEF Table, AllCounted
<1>2. Cardinality(PortsOf(s)) \in Nat /\ Cardinality(Seekers(s)) \in Nat
  BY Finite, FS_CardinalityType, Zenon
<1>3. pc[s] \in {"erase", "eraseLast"} => Cardinality(PortsOf(s)) # 0
  BY Finite, FS_EmptySet, <1>1, Zenon DEF Owns
<1> QED
  BY <1>1, <1>2, <1>3 DEF Counted, Extra

\* Every variable has its type.
THEOREM PortsTyped == Spec => []TypeOK
<1>1. Init => Queued
  BY PortsAssumption DEF Init, Queued
<1>2. Table /\ AllCounted /\ Queued => TypeOK
  <2> SUFFICES ASSUME Table, AllCounted, Queued PROVE TypeOK
    BY Zenon
  <2>1. \A i \in DOMAIN ctrl : ctrl[i].port \in Ports
    <3> SUFFICES ASSUME NEW i \in DOMAIN ctrl PROVE ctrl[i].port \in Ports
      BY Zenon
    <3> DEFINE R == [cmd : {"NEW", "DEL_CLIENT"}, port : Ports, sock : Sockets]
    <3>1. ctrl \in Seq(R)
      BY Zenon DEF Queued
    <3> HIDE DEF R
    <3>2. ctrl[i] \in R
      BY <3>1
    <3> QED
      BY <3>2, Zenon DEF R
  <2> QED
    BY <2>1, RefsNatural, Zenon DEF Table, Typed, Queued, TypeOK
<1> QED
  BY <1>1, <1>2, QueuedStep, TableInvariant, CountInvariant, PTL DEF Spec

-----------------------------------------------------------------------------
(* What the name service takes for the owner of a port *)

Messages == [cmd : {"NEW", "DEL_CLIENT"}, port : Ports, sock : Sockets]

\* What Append does to the positions of a queue.
LEMMA Appended ==
  ASSUME NEW S, NEW q \in Seq(S), NEW e \in S
  PROVE  /\ Len(q) \in Nat /\ Append(q, e)[Len(q) + 1] = e
         /\ \A i \in 1..Len(q) : Append(q, e)[i] = q[i]
  OBVIOUS

\* A message further back in the queue does not matter.
LEMMA AfterAppend ==
  ASSUME NEW q \in Seq(Messages), NEW e \in Messages, NEW n \in 0..Len(q), NEW p, NEW k,
         NEW s \in OwnerAfter(Append(q, e), n, p, k)
  PROVE  s \in OwnerAfter(q, n, p, k)
<1> DEFINE r == Append(q, e)
<1>1. \A i \in 1..n : r[i] = q[i]
  OBVIOUS
<1>2. s \in Sockets
  BY Zenon DEF OwnerAfter
<1>3. CASE k = s /\ \A i \in 1..n : r[i].port # p
  <2>1. \A i \in 1..n : q[i].port # p
    BY <1>1, <1>3, Zenon
  <2> QED
    BY <1>2, <1>3, <2>1, Zenon DEF OwnerAfter
<1>4. ASSUME NEW i \in 1..n, r[i].cmd = "NEW", r[i].port = p, r[i].sock = s,
             \A j \in i + 1..n : r[j].port # p
      PROVE  s \in OwnerAfter(q, n, p, k)
  <2>1. \A j \in i + 1..n : q[j] = r[j]
    BY <1>1
  <2>2. \A j \in i + 1..n : q[j].port # p
    BY <1>4, <2>1, Zenon
  <2>3. q[i].cmd = "NEW" /\ q[i].port = p /\ q[i].sock = s
    BY <1>1, <1>4, Zenon
  <2> QED
    BY <1>2, <2>2, <2>3, Zenon DEF OwnerAfter
<1> QED
  BY <1>3, <1>4, Zenon DEF OwnerAfter

\* The last message of its port decides.
LEMMA AfterLast ==
  ASSUME NEW q \in Seq(Messages), NEW e \in Messages, NEW p, NEW k,
         NEW s \in OwnerAfter(Append(q, e), Len(q) + 1, p, k)
  PROVE  IF e.port = p THEN e.cmd = "NEW" /\ s = e.sock
                       ELSE s \in OwnerAfter(q, Len(q), p, k)
<1> DEFINE n == Len(q)
           r == Append(q, e)
<1>1. n \in Nat /\ r[n + 1] = e /\ \A i \in 1..n : r[i] = q[i]
  <2>1. /\ Len(q) \in Nat /\ Append(q, e)[Len(q) + 1] = e
        /\ \A i \in 1..Len(q) : Append(q, e)[i] = q[i]
    BY SMTT(20), Appended
  <2> QED
    BY <2>1, Zenon
<1>2. s \in Sockets
  BY Zenon DEF OwnerAfter
<1>3. CASE k = s /\ \A i \in 1..n + 1 : r[i].port # p
  <2>1. e.port # p /\ \A i \in 1..n : q[i].port # p
    BY <1>1, <1>3
  <2> QED
    BY <1>2, <1>3, <2>1, Zenon DEF OwnerAfter
<1>4. ASSUME NEW i \in 1..n + 1, r[i].cmd = "NEW", r[i].port = p, r[i].sock = s,
             \A j \in i + 1..n + 1 : r[j].port # p
      PROVE  IF e.port = p THEN e.cmd = "NEW" /\ s = e.sock
                           ELSE s \in OwnerAfter(q, n, p, k)
  <2>1. CASE i = n + 1
    BY <1>1, <1>4, <2>1, Zenon
  <2>2. CASE i # n + 1
    <3>1. i \in 1..n /\ n + 1 \in i + 1..n + 1
      BY <1>1, <2>2
    <3>2. e.port # p
      BY <1>1, <1>4, <3>1, Zenon
    <3>3. \A j \in i + 1..n : q[j].port # p
      BY <1>1, <1>4
    <3>4. q[i].cmd = "NEW" /\ q[i].port = p /\ q[i].sock = s
      BY <1>1, <1>4, <3>1, Zenon
    <3> QED
      BY <1>2, <3>1, <3>2, <3>3, <3>4, Zenon DEF OwnerAfter
  <2> QED
    BY <2>1, <2>2, Zenon
<1> QED
  BY <1>3, <1>4, Zenon DEF OwnerAfter

\* Handling the first message does what OwnerAfter foresaw.
LEMMA AfterTail ==
  ASSUME NEW q \in Seq(Messages), q # <<>>, NEW n \in 0..Len(Tail(q)), NEW p, NEW k, NEW l,
         l = IF Head(q).port # p THEN k
             ELSE IF Head(q).cmd = "NEW" THEN Head(q).sock ELSE NoSocket,
         NEW s \in OwnerAfter(Tail(q), n, p, l)
  PROVE  s \in OwnerAfter(q, n + 1, p, k)
<1> DEFINE r == Tail(q)
<1>1. n \in Nat /\ q[1] = Head(q) /\ \A i \in 1..n : r[i] = q[i + 1]
  OBVIOUS
<1>2. s \in Sockets /\ s # NoSocket
  BY PortsAssumption, Zenon DEF OwnerAfter
<1>3. CASE l = s /\ \A i \in 1..n : r[i].port # p
  <2>1. \A j \in 1 + 1..n + 1 : q[j].port # p
    <3> SUFFICES ASSUME NEW j \in 1 + 1..n + 1 PROVE q[j].port # p
      BY Zenon
    <3>1. j - 1 \in 1..n /\ (j - 1) + 1 = j
      BY <1>1
    <3> QED
      BY <1>1, <1>3, <3>1, Zenon
  <2>2. CASE q[1].port = p
    <3>1. q[1].cmd = "NEW" /\ q[1].sock = s /\ 1 \in 1..n + 1
      BY <1>1, <1>2, <1>3, <2>2
    <3> QED
      BY <1>2, <2>1, <2>2, <3>1, Zenon DEF OwnerAfter
  <2>3. CASE q[1].port # p
    <3>1. k = s /\ \A j \in 1..n + 1 : q[j].port # p
      BY <1>1, <1>3, <2>1, <2>3
    <3> QED
      BY <1>2, <3>1, Zenon DEF OwnerAfter
  <2> QED
    BY <2>2, <2>3, Zenon
<1>4. ASSUME NEW i \in 1..n, r[i].cmd = "NEW", r[i].port = p, r[i].sock = s,
             \A j \in i + 1..n : r[j].port # p
      PROVE  s \in OwnerAfter(q, n + 1, p, k)
  <2>1. i + 1 \in 1..n + 1 /\ q[i + 1] = r[i]
    BY <1>1
  <2>2. \A j \in (i + 1) + 1..n + 1 : q[j].port # p
    <3> SUFFICES ASSUME NEW j \in (i + 1) + 1..n + 1 PROVE q[j].port # p
      BY Zenon
    <3>1. j - 1 \in i + 1..n /\ j - 1 \in 1..n /\ (j - 1) + 1 = j
      BY <1>1
    <3> QED
      BY <1>1, <1>4, <3>1, Zenon
  <2> QED
    BY <1>2, <1>4, <2>1, <2>2, Zenon DEF OwnerAfter
<1> QED
  BY <1>3, <1>4, Zenon DEF OwnerAfter

\* A socket that the name service will take for the owner of a port has that port
\* and has not yet sent DEL_CLIENT for it.
Trusts(p, s) == sq_port[s] = p /\ pc[s] \in {"idle", "leave", "close"}

Trusted ==
  /\ known \in [Ports -> Sockets \cup {NoSocket}]
  /\ \A p \in Ports \ silent : \A s \in OwnerAfter(ctrl, Len(ctrl), p, known[p]) : Trusts(p, s)

\* A port has one socket that may speak for it.
LEMMA OneSpeaker ==
  ASSUME Table, NEW p \in Ports, NEW s \in Sockets, NEW t \in Sockets,
         Trusts(p, s), Trusts(p, t)
  PROVE  s = t
<1>1. Owns(s) /\ Owns(t) /\ p # 0
  BY DEF Table, Ports
<1>2. p \in PortsOf(s) /\ p \in PortsOf(t)
  BY <1>1, Zenon DEF Owns, Trusts
<1> QED
  BY <1>2, Zenon DEF PortsOf

\* A message of a socket that may speak for its port is added to the queue.
LEMMA TrustedSend ==
  ASSUME Table, Queued, Trusted, OwnersApart, NEW e \in Messages, Trusts(e.port, e.sock),
         ctrl' = Append(ctrl, e), UNCHANGED <<sq_port, known, silent>>,
         \A t \in Sockets \ {e.sock} : pc'[t] = pc[t],
         e.cmd = "NEW" => pc'[e.sock] = pc[e.sock]
  PROVE  Trusted' /\ OwnersApart'
<1> DEFINE n == Len(ctrl)
<1>0. e.port \in Ports /\ e.sock \in Sockets
  BY Zenon DEF Messages
<1>1. ctrl \in Seq(Messages)
  BY Zenon DEF Queued, Messages
<1>2. ctrl'[n + 1] = e /\ \A i \in 1..n : ctrl'[i] = ctrl[i]
  <2>1. /\ Append(ctrl, e)[Len(ctrl) + 1] = e
        /\ \A i \in 1..Len(ctrl) : Append(ctrl, e)[i] = ctrl[i]
    BY SMTT(20), <1>1, Appended
  <2> QED
    BY <2>1, Zenon
<1>3. n \in Nat /\ n = Len(ctrl) /\ Len(ctrl') = n + 1
  BY <1>1
<1>4. DOMAIN ctrl = 1..n /\ DOMAIN ctrl' = 1..n + 1
  BY <1>1
<1> HIDE DEF n
<1>5. ASSUME NEW p \in Ports \ silent, NEW t \in OwnerAfter(ctrl', n + 1, p, known[p])
      PROVE  Trusts(p, t)'
  <2>1. t \in Sockets
    BY Zenon DEF OwnerAfter
  <2>2. IF e.port = p THEN e.cmd = "NEW" /\ t = e.sock
                      ELSE t \in OwnerAfter(ctrl, Len(ctrl), p, known[p])
    <3>1. t \in OwnerAfter(Append(ctrl, e), Len(ctrl) + 1, p, known[p])
      BY <1>3, <1>5, Zenon
    <3> QED
      BY <1>1, <3>1, AfterLast, Zenon
  <2>3. CASE e.port = p
    BY <2>2, <2>3, Zenon DEF Trusts
  <2>4. CASE e.port # p
    <3>1. Trusts(p, t)
      BY <1>5, <2>2, <2>4, Zenon DEF Trusted
    <3>2. t # e.sock
      BY <2>4, <3>1, Zenon DEF Trusts
    <3> QED
      BY <2>1, <3>1, <3>2, Zenon DEF Trusts
  <2> QED
    BY <2>3, <2>4, Zenon
<1>6. Trusted'
  BY <1>3, <1>5, Zenon DEF Trusted
<1>7. ASSUME NEW m \in DOMAIN ctrl', ctrl'[m].port \notin silent,
             NEW t \in OwnerAfter(ctrl', m - 1, ctrl'[m].port, known[ctrl'[m].port])
      PROVE  t = ctrl'[m].sock
  <2>1. m - 1 \in 0..n /\ (m \in 1..n \/ m = n + 1)
    <3>1. m \in 1..n + 1
      BY <1>4, Zenon
    <3> QED
      BY <1>3, <3>1
  <2>2. t \in OwnerAfter(ctrl, m - 1, ctrl'[m].port, known[ctrl'[m].port])
    BY <1>1, <1>3, <1>7, <2>1, AfterAppend, Zenon
  <2>3. CASE m \in 1..n
    <3>1. ctrl'[m] = ctrl[m] /\ m \in DOMAIN ctrl
      BY <1>2, <1>4, <2>3, Zenon
    <3> QED
      BY <1>7, <2>2, <3>1, Zenon DEF OwnersApart
  <2>4. CASE m = n + 1
    <3>1. m - 1 = n /\ ctrl'[m] = e
      <4>1. m - 1 = n
        BY <1>3, <2>4
      <4> QED
        BY <1>2, <2>4, <4>1, Zenon
    <3>2. t \in OwnerAfter(ctrl, n, e.port, known[e.port]) /\ e.port \notin silent
      BY <1>7, <2>2, <3>1, Zenon
    <3>3. t \in Sockets
      BY <3>2, Zenon DEF OwnerAfter
    <3>4. Trusts(e.port, t)
      BY <1>0, <1>3, <3>2, Zenon DEF Trusted
    <3> QED
      BY <1>0, <3>1, <3>3, <3>4, OneSpeaker, Zenon
  <2> QED
    BY <2>1, <2>3, <2>4, Zenon
<1>8. OwnersApart'
  BY <1>7, Zenon DEF OwnersApart
<1> QED
  BY <1>6, <1>8, Zenon

\* The name service handles the first message.
LEMMA TrustedHandle ==
  ASSUME Queued, Trusted, OwnersApart, NsWorker
  PROVE  Trusted' /\ OwnersApart'
<1> DEFINE h == Head(ctrl)
<1>1. /\ ctrl \in Seq(Messages) /\ ctrl # <<>> /\ ctrl' = Tail(ctrl)
      /\ known' = [known EXCEPT ![h.port] = IF h.cmd = "NEW" THEN h.sock ELSE NoSocket]
      /\ UNCHANGED <<sq_port, pc, silent>>
  BY Zenon DEF NsWorker, Queued, Messages
<1>2. h \in Messages /\ h.port \in Ports /\ h.sock \in Sockets
  <2>1. h \in Messages
    BY <1>1
  <2> QED
    BY <2>1, Zenon DEF Messages
<1>3. /\ Len(ctrl) \in Nat /\ Len(ctrl) # 0 /\ Len(ctrl') + 1 = Len(ctrl) /\ Len(ctrl') \in Nat
      /\ DOMAIN ctrl' = 1..Len(ctrl') /\ DOMAIN ctrl = 1..Len(ctrl)
      /\ \A i \in DOMAIN ctrl' : ctrl'[i] = ctrl[i + 1] /\ ctrl'[i] \in Messages
  BY <1>1
<1>4. known' \in [Ports -> Sockets \cup {NoSocket}]
  BY <1>1, <1>2, Zenon DEF Trusted
<1>5. \A p \in Ports : known'[p] = IF h.port # p THEN known[p]
                                   ELSE IF h.cmd = "NEW" THEN h.sock ELSE NoSocket
  BY <1>1, <1>2, Zenon DEF Trusted
<1>6. ASSUME NEW n \in 0..Len(ctrl'), NEW p \in Ports, NEW s \in OwnerAfter(ctrl', n, p, known'[p])
      PROVE  s \in OwnerAfter(ctrl, n + 1, p, known[p])
  BY <1>1, <1>5, <1>6, AfterTail, Zenon
<1> HIDE DEF h
<1>7. Trusted'
  <2>1. ASSUME NEW p \in Ports \ silent, NEW s \in OwnerAfter(ctrl', Len(ctrl'), p, known'[p])
        PROVE  Trusts(p, s)'
    <3>1. s \in OwnerAfter(ctrl, Len(ctrl), p, known[p])
      BY <1>3, <1>6, <2>1
    <3> QED
      BY <1>1, <3>1, Zenon DEF Trusted, Trusts
  <2> QED
    BY <1>1, <1>4, <2>1, Zenon DEF Trusted
<1>8. OwnersApart'
  <2>1. ASSUME NEW m \in DOMAIN ctrl', ctrl'[m].port \notin silent,
               NEW s \in OwnerAfter(ctrl', m - 1, ctrl'[m].port, known'[ctrl'[m].port])
        PROVE  s = ctrl'[m].sock
    <3>1. /\ m + 1 \in DOMAIN ctrl /\ (m + 1) - 1 = (m - 1) + 1 /\ m - 1 \in 0..Len(ctrl')
          /\ ctrl'[m] = ctrl[m + 1]
      BY <1>3
    <3>2. ctrl'[m].port \in Ports
      <4>1. ctrl'[m] \in Messages
        BY <1>3, Zenon
      <4> QED
        BY <4>1, Zenon DEF Messages
    <3>3. s \in OwnerAfter(ctrl, (m + 1) - 1, ctrl'[m].port, known[ctrl'[m].port])
      BY <1>6, <2>1, <3>1, <3>2, Zenon
    <3> QED
      BY <2>1, <3>1, <3>3, Zenon DEF OwnersApart
  <2> QED
    BY <1>1, <2>1, Zenon DEF OwnersApart
<1> QED
  BY <1>7, <1>8, Zenon

\* A step of a socket that sends nothing.
LEMMA TrustedKept ==
  ASSUME Trusted, OwnersApart, UNCHANGED <<ctrl, known>>, silent \subseteq silent',
         \A p \in Ports \ silent' : \A s \in Sockets : Trusts(p, s) => Trusts(p, s)'
  PROVE  Trusted' /\ OwnersApart'
<1>1. \A p : \A s \in OwnerAfter(ctrl, Len(ctrl), p, known[p]) : s \in Sockets
  BY Zenon DEF OwnerAfter
<1>2. Trusted'
  BY <1>1, Zenon DEF Trusted
<1>3. OwnersApart'
  BY Zenon DEF OwnersApart
<1> QED
  BY <1>2, <1>3, Zenon

\* Every step keeps the owners apart.
LEMMA TrustedStep ==
  Table /\ Queued /\ Trusted /\ OwnersApart /\ [Next]_vars => Trusted' /\ OwnersApart'
<1> DEFINE G == Trusted' /\ OwnersApart'
<1> SUFFICES ASSUME Table, Queued, Trusted, OwnersApart, [Next]_vars PROVE G
  BY Zenon
<1>0. /\ pc \in [Sockets -> {"idle", "bound", "leave", "left", "erase",
                             "close", "closed", "eraseLast", "purge", "gone"}]
      /\ sq_port \in [Sockets -> {0} \cup Ports] /\ 0 \notin Ports
  BY DEF Table, Typed, Ports
<1> HIDE DEF G
<1>1. ASSUME NEW s \in Sockets, NEW want \in {0} \cup Ports, Bind(s, want) PROVE G
  <2>1. /\ UNCHANGED <<sq_port, ctrl, known, silent>> /\ pc[s] = "idle"
        /\ pc' = [pc EXCEPT ![s] = IF sq_port[s] = 0 THEN "bound" ELSE "leave"]
    BY <1>1, Zenon DEF Bind, Goto
  <2>2. \A p \in Ports : \A t \in Sockets : Trusts(p, t) => Trusts(p, t)'
    BY <1>0, <2>1, Zenon DEF Trusts
  <2> QED
    BY <2>1, <2>2, TrustedKept, Zenon DEF G
<1>2. ASSUME NEW s \in Sockets, Bound(s) PROVE G
  <2>1. /\ UNCHANGED <<ctrl, known, silent>> /\ pc[s] = "bound" /\ pc' = [pc EXCEPT ![s] = "idle"]
        /\ sq_port' = [sq_port EXCEPT ![s] = port[s]]
    BY <1>2, Zenon DEF Bound, Goto
  <2>2. \A p \in Ports : \A t \in Sockets : Trusts(p, t) => Trusts(p, t)'
    BY <1>0, <2>1, Zenon DEF Trusts
  <2> QED
    BY <2>1, <2>2, TrustedKept, Zenon DEF G
<1>3. ASSUME NEW s \in Sockets, SendDelClient(s) PROVE G
  <2>1. /\ ctrl' = Append(ctrl, [cmd |-> "DEL_CLIENT", port |-> sq_port[s], sock |-> s])
        /\ pc[s] \in {"leave", "close"} /\ UNCHANGED <<sq_port, known, silent>>
        /\ \A t \in Sockets \ {s} : pc'[t] = pc[t]
    BY <1>0, <1>3, Zenon DEF SendDelClient
  <2>2. sq_port[s] \in Ports /\ Trusts(sq_port[s], s)
    BY <1>0, <2>1, Zenon DEF Table, Owns, Trusts
  <2> DEFINE e == [cmd |-> "DEL_CLIENT", port |-> sq_port[s], sock |-> s]
  <2>3. e \in Messages /\ e.cmd = "DEL_CLIENT" /\ e.port = sq_port[s] /\ e.sock = s
    BY <2>2, Zenon DEF Messages
  <2>4. ctrl' = Append(ctrl, e)
    BY <2>1, Zenon
  <2> HIDE DEF e
  <2> QED
    BY <2>1, <2>2, <2>3, <2>4, TrustedSend, Zenon DEF G
<1>4. ASSUME NEW s \in Sockets, SendDelClientFails(s) PROVE G
  <2>1. /\ UNCHANGED <<sq_port, ctrl, known>> /\ silent' = silent \cup {sq_port[s]}
        /\ pc' = [pc EXCEPT ![s] = After(s)]
    BY <1>4, Zenon DEF SendDelClientFails
  <2>2. \A p \in Ports \ silent' : \A t \in Sockets : Trusts(p, t) => Trusts(p, t)'
    BY <1>0, <2>1, Zenon DEF Trusts
  <2> QED
    BY <2>1, <2>2, TrustedKept, Zenon DEF G
<1>5. ASSUME NEW s \in Sockets, PortPut(s) \/ PortErase(s) \/ Purge(s) PROVE G
  <2>1. /\ UNCHANGED <<sq_port, ctrl, known, silent>> /\ pc[s] \notin {"idle", "leave", "close"}
        /\ \A t \in Sockets \ {s} : pc'[t] = pc[t]
    BY <1>0, <1>5, Zenon DEF PortPut, PortErase, Purge, Goto
  <2>2. \A p \in Ports : \A t \in Sockets : Trusts(p, t) => Trusts(p, t)'
    BY <2>1, Zenon DEF Trusts
  <2> QED
    BY <2>1, <2>2, TrustedKept, Zenon DEF G
<1>6. ASSUME NEW s \in Sockets, Release(s) PROVE G
  <2>1. /\ UNCHANGED <<sq_port, ctrl, known, silent>>
        /\ pc' = [pc EXCEPT ![s] = IF sq_port[s] = 0 THEN "purge" ELSE "close"]
    BY <1>6, Zenon DEF Release, Goto
  <2>2. \A p \in Ports : \A t \in Sockets : Trusts(p, t) => Trusts(p, t)'
    BY <1>0, <2>1, Zenon DEF Trusts
  <2> QED
    BY <2>1, <2>2, TrustedKept, Zenon DEF G
<1>7. ASSUME NEW s \in Sockets, Request(s) PROVE G
  <2>1. /\ ctrl' = Append(ctrl, [cmd |-> "NEW", port |-> sq_port[s], sock |-> s])
        /\ pc[s] = "idle" /\ sq_port[s] # 0 /\ UNCHANGED <<sq_port, pc, known, silent>>
    BY <1>7, Zenon DEF Request
  <2>2. sq_port[s] \in Ports /\ Trusts(sq_port[s], s)
    BY <1>0, <2>1, Zenon DEF Trusts
  <2> DEFINE e == [cmd |-> "NEW", port |-> sq_port[s], sock |-> s]
  <2>3. e \in Messages /\ e.port = sq_port[s] /\ e.sock = s
    BY <2>2, Zenon DEF Messages
  <2>4. ctrl' = Append(ctrl, e)
    BY <2>1, Zenon
  <2> HIDE DEF e
  <2> QED
    BY <2>1, <2>2, <2>3, <2>4, TrustedSend, Zenon DEF G
<1>8. ASSUME UNCHANGED <<sq_port, pc, ctrl, known, silent>> PROVE G
  <2>1. \A p \in Ports : \A t \in Sockets : Trusts(p, t) => Trusts(p, t)'
    BY <1>8, Zenon DEF Trusts
  <2> QED
    BY <1>8, <2>1, TrustedKept, Zenon DEF G
<1>9. ASSUME NEW d \in Deliverers, NEW p \in Ports, PortLookup(d, p) PROVE G
  BY <1>8, <1>9, Zenon DEF PortLookup
<1>10. ASSUME NEW d \in Deliverers, PortPutBack(d) PROVE G
  BY <1>8, <1>10, Zenon DEF PortPutBack
<1>11. NsWorker => G
  BY TrustedHandle, Zenon DEF G
<1>12. vars' = vars => G
  BY <1>8, Zenon DEF vars
<1> QED
  BY <1>1, <1>2, <1>3, <1>4, <1>5, <1>6, <1>7, <1>9, <1>10, <1>11, <1>12, NextCases, Zenon

\* The name service never takes the requests of one socket for those of another,
\* although it goes by ports and ports are used again: qrtr_port_remove queues
\* DEL_CLIENT before it gives the port up.  Ports whose DEL_CLIENT found no memory
\* or no room are excepted.
THEOREM OwnersKeptApart == Spec => []OwnersApart
<1>1. Init => Queued
  BY PortsAssumption DEF Init, Queued
<1>2. Init => Trusted /\ OwnersApart
  <2> SUFFICES ASSUME Init PROVE Trusted /\ OwnersApart
    BY Zenon
  <2>1. ASSUME NEW p \in Ports PROVE OwnerAfter(ctrl, Len(ctrl), p, known[p]) = {}
    <3>1. ctrl = <<>> /\ known[p] \notin Sockets
      BY PortsAssumption, Zenon DEF Init
    <3>2. 1..Len(ctrl) = {}
      BY <3>1
    <3> QED
      BY <3>1, <3>2, Zenon DEF OwnerAfter
  <2>2. Trusted
    BY <2>1, Zenon DEF Init, Trusted
  <2>3. OwnersApart
    BY DEF Init, OwnersApart
  <2> QED
    BY <2>2, <2>3, Zenon
<1> QED
  BY <1>1, <1>2, QueuedStep, TrustedStep, TableInvariant, PTL DEF Spec
=============================================================================
