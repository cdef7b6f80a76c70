------------------------- MODULE GlinkIntentsProofs -------------------------
(* The theorems about GlinkIntents, for any number of senders, intents and   *)
(* requests and any lengths of messages.  GlinkIntentsSteps shows what a     *)
(* step does to the intents when the search of __qcom_glink_send finds what  *)
(* it looks for and there are intents enough for the requests; both are      *)
(* shown here, and that the types are kept.                                  *)
EXTENDS GlinkIntentsSteps, FiniteSetTheorems, WellFoundedInduction

(***************************************************************************)
(* The search finds what it looks for                                      *)
(***************************************************************************)

\* A set of naturals that is not empty has a least element.
LEMMA LeastIn ==
  ASSUME NEW S \in SUBSET Nat, S # {}
  PROVE  \E x \in S : \A y \in S : x <= y
<1>1. PICK x \in S : \A y \in S : ~ (<<y, x>> \in OpToRel(<, Nat))
  BY NatLessThanWellFounded, WFMin, Zenon
<1>2. \A y \in S : x <= y
  <2> SUFFICES ASSUME NEW y \in S PROVE x <= y
    BY Zenon
  <2>1. ~ (y < x)
    BY ZenonT(30), <1>1 DEF OpToRel
  <2> QED  BY <2>1
<1> QED  BY <1>2, Zenon

\* Among the intents that fit there is a smallest one, and a first of these.
LEMMA BestFits == Typed => Choice
<1> SUFFICES ASSUME Typed, NEW s \in Senders, Fits(s) # {}
             PROVE  Best(s) \in Fits(s)
  BY Zenon DEF Choice
<1> DEFINE F == Fits(s)
           V == {rsize[i] : i \in F}
           B == {i \in F : \A j \in F : rsize[i] <= rsize[j]}
<1>1. F \subseteq Ids
  BY Zenon DEF Fits
<1>2. \A i \in F : i \in Nat /\ rsize[i] \in Nat
  BY <1>1, TableNumbers, Zenon
<1> HIDE DEF F
<1>3. V \in SUBSET Nat /\ V # {}
  BY <1>2, Zenon DEF F
<1>4. PICK v \in V : \A y \in V : v <= y
  BY <1>3, LeastIn, Zenon
<1>5. B \in SUBSET Nat /\ B # {}
  BY <1>2, <1>4
<1>6. PICK b \in B : \A y \in B : b <= y
  BY <1>5, LeastIn, Zenon
<1>7. \A j \in F : rsize[b] < rsize[j] \/ (rsize[b] = rsize[j] /\ b <= j)
  <2> SUFFICES ASSUME NEW j \in F PROVE rsize[b] < rsize[j] \/ (rsize[b] = rsize[j] /\ b <= j)
    BY Zenon
  <2>1. rsize[b] <= rsize[j] /\ rsize[b] \in Nat /\ rsize[j] \in Nat
    BY <1>2, <1>6, Zenon
  <2>2. CASE rsize[b] = rsize[j]
    <3>1. j \in B
      BY <1>6, <2>2, Zenon
    <3> QED  BY <1>6, <2>2, <3>1, Zenon
  <2> QED  BY <2>1, <2>2
<1> QED  BY <1>6, <1>7, Zenon DEF F, Best

(***************************************************************************)
(* There are enough intents for the requests                               *)
(***************************************************************************)

\* The places of entries are finitely many.
LEMMA PlacesFinite ==
  ASSUME NEW S, NEW q \in Seq(S), NEW M
  PROVE  /\ IsFiniteSet(Places(q, M)) /\ Cardinality(Places(q, M)) \in Nat
         /\ Cardinality(Places(q, M)) = 0 <=> Places(q, M) = {}
<1>1. DOMAIN q = 1..Len(q) /\ Len(q) \in Nat
  OBVIOUS
<1>2. IsFiniteSet(DOMAIN q)
  BY <1>1, FS_Interval
<1>3. Places(q, M) \subseteq DOMAIN q
  BY Zenon DEF Places
<1> QED  BY <1>2, <1>3, FS_Subset, FS_CardinalityType, FS_EmptySet

\* An entry joins the queue.
LEMMA CountAppend ==
  ASSUME NEW S, NEW q \in Seq(S), NEW x \in S, NEW M
  PROVE  Cardinality(Places(Append(q, x), M))
           = Cardinality(Places(q, M)) + (IF x \in M THEN 1 ELSE 0)
<1>0. /\ DOMAIN Append(q, x) = DOMAIN q \cup {Len(q) + 1}
      /\ Append(q, x)[Len(q) + 1] = x /\ Len(q) + 1 \notin DOMAIN q
      /\ \A k \in DOMAIN q : Append(q, x)[k] = q[k]
  BY AppendAt
<1>1. CASE x \in M
  <2>1. Places(Append(q, x), M) = Places(q, M) \cup {Len(q) + 1}
    BY <1>0, <1>1, Zenon DEF Places
  <2>2. Len(q) + 1 \notin Places(q, M)
    BY AppendAt, Zenon DEF Places
  <2> QED  BY <1>1, <2>1, <2>2, PlacesFinite, FS_AddElement
<1>2. CASE x \notin M
  <2>1. Places(Append(q, x), M) = Places(q, M)
    BY <1>0, <1>2, Zenon DEF Places
  <2>2. Cardinality(Places(q, M)) \in Nat
    BY PlacesFinite, Zenon
  <2> QED  BY <1>2, <2>1, <2>2
<1> QED  BY <1>1, <1>2, Zenon

\* The head leaves the queue.
LEMMA CountTail ==
  ASSUME NEW S, NEW q \in Seq(S), q # <<>>, NEW M
  PROVE  Cardinality(Places(q, M))
           = Cardinality(Places(Tail(q), M)) + (IF Head(q) \in M THEN 1 ELSE 0)
<1> DEFINE P == Places(Tail(q), M)
           Q == Places(q, M) \ {1}
           f == [k \in P |-> k + 1]
<1>1. f \in Bijection(P, Q)
  <2>1. \A k \in P : k \in Nat /\ k >= 1 /\ k + 1 \in Q
    <3> SUFFICES ASSUME NEW k \in P PROVE k \in Nat /\ k >= 1 /\ k + 1 \in Q
      BY Zenon
    <3>1. k \in Nat /\ k >= 1 /\ k + 1 \in DOMAIN q /\ q[k + 1] \in M
      BY TailAt, Zenon DEF Places
    <3>2. k + 1 # 1
      BY <3>1
    <3> QED  BY <3>1, <3>2, Zenon DEF Places
  <2>2. \A n \in Q : n \in Nat /\ n - 1 \in P
    BY TailAt, Zenon DEF Places
  <2>3. \A n \in Q : f[n - 1] = n
    BY <2>2
  <2>4. f \in [P -> Q]
    BY <2>1, Zenon
  <2>5. \A a, b \in P : f[a] = f[b] => a = b
    BY <2>1
  <2> HIDE DEF f
  <2>6. \A n \in Q : \E k \in P : f[k] = n
    BY <2>2, <2>3, Zenon
  <2>7. DOMAIN f = P
    BY <2>4, Zenon
  <2> HIDE DEF P, Q
  <2> QED  BY <2>4, <2>5, <2>6, <2>7, Zenon DEF Bijection, Injection, Surjection, IsInjective
<1>2. IsFiniteSet(P) /\ Cardinality(P) \in Nat
  BY TailAt, PlacesFinite, Zenon
<1>3. IsFiniteSet(Q) /\ Cardinality(Q) = Cardinality(P)
  BY <1>1, <1>2, FS_Bijection, Zenon DEF ExistsBijection
<1>a. 1 \in DOMAIN q /\ q[1] = Head(q)
  BY TailAt, Zenon
<1>4. CASE Head(q) \in M
  <2>1. Places(q, M) = Q \cup {1} /\ 1 \notin Q
    BY <1>4, <1>a, Zenon DEF Places
  <2> HIDE DEF P, Q
  <2>2. Cardinality(Places(q, M)) = Cardinality(P) + 1
    BY <1>3, <2>1, FS_AddElement, Zenon
  <2> QED  BY <1>4, <2>2, Zenon DEF P
<1>5. CASE Head(q) \notin M
  <2>1. Places(q, M) = Q
    BY <1>5, <1>a, Zenon DEF Places
  <2> HIDE DEF P, Q
  <2>2. Cardinality(Places(q, M)) = Cardinality(P) + 0
    BY <1>2, <1>3, <2>1
  <2> QED  BY <1>5, <2>2, Zenon DEF P
<1> QED  BY <1>4, <1>5, Zenon

\* The requests that wait for an answer in a link, in the queue of the thread,
\* with the thread and with the sender that is about to send one.
Asked == Cardinality(Places(ab, Requests))
ToMake == Cardinality(Places(rx_queue, News))
Making == IF thread.at = "new" THEN 1 ELSE 0
Asking == IF \E s \in Senders : pc[s] = "tx" THEN 1 ELSE 0

\* Every request is answered with one intent at most.
Supply ==
  ~ abort_tx => nextId + Asked + Len(work) + ToMake + Making + Asking <= Base + 1 + reqs

\* They are numbers.
SupplyNumbers ==
  /\ Asked \in Nat /\ ToMake \in Nat /\ Making \in Nat /\ Asking \in Nat
  /\ Len(work) \in Nat /\ nextId \in Nat /\ reqs \in Nat

\* What Supply adds up are numbers.
LEMMA SupplyCounts == Typed => SupplyNumbers
<1> SUFFICES ASSUME Typed PROVE SupplyNumbers
  BY Zenon
<1>1. /\ ab \in Seq(Requests \cup Data) /\ rx_queue \in Seq(Uploads \cup News)
      /\ work \in Seq(Lens) /\ nextId \in Nat /\ reqs \in 0..MaxReqs
  BY Zenon DEF Typed, Links, SideB, Callers
<1>2. Asked \in Nat /\ ToMake \in Nat
  BY <1>1, PlacesFinite, Zenon DEF Asked, ToMake
<1>3. Making \in Nat /\ Asking \in Nat
  BY Zenon DEF Making, Asking
<1>4. Len(work) \in Nat /\ reqs \in Nat
  BY <1>1, IntentsAssumption
<1> QED  BY <1>1, <1>2, <1>3, <1>4, Zenon DEF SupplyNumbers

\* A sender that is not and does not come to send a request changes nothing.
LEMMA AskingKept ==
  ASSUME Typed, NEW s \in Senders, NEW a, NEW b, Goto(s, a, b), a # "tx", b # "tx"
  PROVE  Asking' = Asking
<1>1. \A t \in Senders : pc'[t] = "tx" <=> pc[t] = "tx"
  BY Zenon DEF Goto, Typed, Callers
<1> QED  BY <1>1, Zenon DEF Asking

\* A request joins or leaves a queue.
LEMMA SupplyQueues ==
  ASSUME Typed
  PROVE  /\ \A m \in Requests : ab' = Append(ab, m) => Asked' = Asked + 1
         /\ \A m \in Data : ab' = Append(ab, m) => Asked' = Asked
         /\ ab # <<>> /\ ab' = Tail(ab) =>
              Asked = Asked' + (IF Head(ab) \in Requests THEN 1 ELSE 0)
         /\ \A e \in News : rx_queue' = Append(rx_queue, e) => ToMake' = ToMake + 1
         /\ \A e \in Uploads : rx_queue' = Append(rx_queue, e) => ToMake' = ToMake
         /\ rx_queue # <<>> /\ rx_queue' = Tail(rx_queue) =>
              ToMake = ToMake' + (IF Head(rx_queue) \in News THEN 1 ELSE 0)
         /\ \A l \in Lens : work' = Append(work, l) => Len(work') = Len(work) + 1
         /\ work # <<>> /\ work' = Tail(work) => Len(work') = Len(work) - 1
<1> DEFINE A == Requests \cup Data
           E == Uploads \cup News
<1>1. ab \in Seq(A) /\ rx_queue \in Seq(E) /\ work \in Seq(Lens)
  BY Zenon DEF Typed, Links, SideB
<1>2. \A m \in Data : m \notin Requests
  BY Zenon DEF Data, Requests
<1>3. \A e \in Uploads : e \notin News
  BY Zenon DEF Uploads, News
<1>4. Asked' = Cardinality(Places(ab', Requests)) /\ ToMake' = Cardinality(Places(rx_queue', News))
  BY Zenon DEF Asked, ToMake
<1>5. \A m \in A : Cardinality(Places(Append(ab, m), Requests))
                      = Asked + (IF m \in Requests THEN 1 ELSE 0)
  <2> SUFFICES ASSUME NEW m \in A
               PROVE  Cardinality(Places(Append(ab, m), Requests))
                        = Asked + (IF m \in Requests THEN 1 ELSE 0)
    BY Zenon
  <2> HIDE DEF A
  <2> QED  BY <1>1, CountAppend, Zenon DEF Asked
<1>6. \A e \in E : Cardinality(Places(Append(rx_queue, e), News))
                      = ToMake + (IF e \in News THEN 1 ELSE 0)
  <2> SUFFICES ASSUME NEW e \in E
               PROVE  Cardinality(Places(Append(rx_queue, e), News))
                        = ToMake + (IF e \in News THEN 1 ELSE 0)
    BY Zenon
  <2> HIDE DEF E
  <2> QED  BY <1>1, CountAppend, Zenon DEF ToMake
<1>7. ab # <<>> => Asked = Cardinality(Places(Tail(ab), Requests))
                            + (IF Head(ab) \in Requests THEN 1 ELSE 0)
  BY <1>1, CountTail, Zenon DEF Asked
<1>8. rx_queue # <<>> => ToMake = Cardinality(Places(Tail(rx_queue), News))
                            + (IF Head(rx_queue) \in News THEN 1 ELSE 0)
  BY <1>1, CountTail, Zenon DEF ToMake
<1>9. /\ \A l \in Lens : work' = Append(work, l) => Len(work') = Len(work) + 1
      /\ work # <<>> /\ work' = Tail(work) => Len(work') = Len(work) - 1
  BY <1>1
<1>10. Asked \in Nat /\ ToMake \in Nat
  BY SupplyCounts, Zenon DEF SupplyNumbers
<1>11. /\ \A m \in Requests : ab' = Append(ab, m) => Asked' = Asked + 1
       /\ \A m \in Data : ab' = Append(ab, m) => Asked' = Asked
  <2>1. \A m \in Requests : Cardinality(Places(Append(ab, m), Requests)) = Asked + 1
    BY <1>5, Zenon
  <2>2. \A m \in Data : Cardinality(Places(Append(ab, m), Requests)) = Asked
    BY <1>2, <1>5, <1>10
  <2> QED  BY <1>4, <2>1, <2>2, Zenon
<1>12. /\ \A e \in News : rx_queue' = Append(rx_queue, e) => ToMake' = ToMake + 1
       /\ \A e \in Uploads : rx_queue' = Append(rx_queue, e) => ToMake' = ToMake
  <2>1. \A e \in News : Cardinality(Places(Append(rx_queue, e), News)) = ToMake + 1
    BY <1>6, Zenon
  <2>2. \A e \in Uploads : Cardinality(Places(Append(rx_queue, e), News)) = ToMake
    BY <1>3, <1>6, <1>10
  <2> QED  BY <1>4, <2>1, <2>2, Zenon
<1>13. /\ ab # <<>> /\ ab' = Tail(ab) =>
            Asked = Asked' + (IF Head(ab) \in Requests THEN 1 ELSE 0)
       /\ rx_queue # <<>> /\ rx_queue' = Tail(rx_queue) =>
            ToMake = ToMake' + (IF Head(rx_queue) \in News THEN 1 ELSE 0)
  BY <1>4, <1>7, <1>8, Zenon
<1> QED  BY <1>9, <1>11, <1>12, <1>13, Zenon

\* There is an intent left for the request that the thread is at.
LEMMA SupplySpares == Typed /\ Supply => Spare
<1> SUFFICES ASSUME Typed, Supply, thread.at = "new"
             PROVE  nextId \in Ids
  BY Zenon DEF Spare
<1>1. ~ abort_tx
  BY DEF Typed, Dead, Idle
<1>2. /\ Asked \in Nat /\ ToMake \in Nat /\ Asking \in Nat /\ Len(work) \in Nat
  BY SupplyCounts, Zenon DEF SupplyNumbers
<1>3. nextId \in Nat /\ nextId > Base /\ reqs \in 0..MaxReqs
  BY Zenon DEF Typed, SideB, Callers
<1>4. nextId + Asked + Len(work) + ToMake + 1 + Asking <= Base + 1 + reqs
  BY <1>1, Zenon DEF Supply, Making
<1>5. nextId <= Base + MaxReqs
  BY <1>2, <1>3, <1>4, IntentsAssumption
<1> QED  BY <1>3, <1>5, IntentsAssumption DEF Ids

\* An intent that has been asked for is not asked for twice.
LEMMA SupplyStep ==
  ASSUME Typed, Typed', Supply, [Next]_vars
  PROVE  Supply'
<1> DEFINE Kept == UNCHANGED <<ab, work, rx_queue, thread, nextId, reqs, abort_tx>>
           Sum == nextId + Asked + Len(work) + ToMake + Making + Asking
<1>0. /\ Asked \in Nat /\ ToMake \in Nat /\ Making \in Nat /\ Asking \in Nat
      /\ Len(work) \in Nat /\ nextId \in Nat /\ reqs \in Nat /\ Base \in Nat
  BY SupplyCounts, IntentsAssumption, Zenon DEF SupplyNumbers
<1>n. /\ Asked' \in Nat /\ ToMake' \in Nat /\ Making' \in Nat /\ Asking' \in Nat
      /\ Len(work') \in Nat /\ nextId' \in Nat /\ reqs' \in Nat
  <2>1. SupplyNumbers'
    BY SupplyCounts, PTL
  <2> QED  BY <2>1, Zenon DEF SupplyNumbers
<1>a. ~ abort_tx => nextId + Asked + Len(work) + ToMake + Making + Asking <= Base + 1 + reqs
  BY Zenon DEF Supply
<1>b. (~ abort_tx' =>
         nextId' + Asked' + Len(work') + ToMake' + Making' + Asking' <= Base + 1 + reqs')
      => Supply'
  BY Zenon DEF Supply
<1>c. /\ ab' = ab => Asked' = Asked
      /\ rx_queue' = rx_queue => ToMake' = ToMake
      /\ thread' = thread => Making' = Making
      /\ work' = work => Len(work') = Len(work)
      /\ pc' = pc => Asking' = Asking
  BY Zenon DEF Asked, ToMake, Making, Asking
<1>d. Kept /\ Asking' = Asking => Supply'
  BY <1>a, <1>b, <1>c, SMTT(20)
<1>e. /\ \A m \in Requests : ab' = Append(ab, m) => Asked' = Asked + 1
      /\ \A m \in Data : ab' = Append(ab, m) => Asked' = Asked
      /\ ab # <<>> /\ ab' = Tail(ab) =>
              Asked = Asked' + (IF Head(ab) \in Requests THEN 1 ELSE 0)
      /\ \A e \in News : rx_queue' = Append(rx_queue, e) => ToMake' = ToMake + 1
      /\ \A e \in Uploads : rx_queue' = Append(rx_queue, e) => ToMake' = ToMake
      /\ rx_queue # <<>> /\ rx_queue' = Tail(rx_queue) =>
              ToMake = ToMake' + (IF Head(rx_queue) \in News THEN 1 ELSE 0)
      /\ \A l \in Lens : work' = Append(work, l) => Len(work') = Len(work) + 1
      /\ work # <<>> /\ work' = Tail(work) => Len(work') = Len(work) - 1
  BY SupplyQueues, Zenon
<1>f. ab # <<>> /\ ab' = Tail(ab) => Asked' <= Asked
  <2>1. ab # <<>> /\ ab' = Tail(ab) => Asked = Asked' + 1 \/ Asked = Asked' + 0
    BY <1>e, Zenon
  <2>2. \A x, y \in Nat : (x = y + 1 \/ x = y + 0) => y <= x
    OBVIOUS
  <2> QED  BY <1>0, <1>n, <2>1, <2>2, Zenon
<1> USE DEF req, aVars, bVars
<1>1. ASSUME NEW s \in Senders, Begin(s) PROVE Supply'
  BY <1>1, <1>d, AskingKept DEF Begin
<1>2. ASSUME NEW s \in Senders, Find(s) PROVE Supply'
  BY <1>2, <1>d, AskingKept, SMTT(20) DEF Find
<1>3. ASSUME NEW s \in Senders, FindNone(s) PROVE Supply'
  BY <1>3, <1>d, AskingKept DEF FindNone, Return
<1>4. ASSUME NEW s \in Senders, ReqReset(s) PROVE Supply'
  <2>1. Asking = 0
    BY <1>4, IntentsAssumption DEF ReqReset, Typed, Locked, Asking
  <2>2. Asking' <= 1
    BY DEF Asking
  <2>3. abort_tx' = abort_tx /\ (~ abort_tx => reqs' = reqs + 1)
        /\ UNCHANGED <<ab, work, rx_queue, thread, nextId>>
    BY <1>4, Zenon DEF ReqReset
  <2> QED  BY <1>0, <1>n, <1>a, <1>b, <1>c, <2>1, <2>2, <2>3, SMTT(20)
<1>5. ASSUME NEW s \in Senders, ReqSend(s) PROVE Supply'
  <2>1. Asking = 1
    BY <1>5, Zenon DEF ReqSend, Goto, Asking
  <2>2. Asking' = 0
    <3>1. \A t \in Senders : pc[t] = "tx" => t = s
      BY <1>5, Zenon DEF ReqSend, Goto, Typed, Locked
    <3>2. \A t \in Senders : pc'[t] # "tx"
      BY <1>5, <3>1 DEF ReqSend, Goto, Typed, Callers
    <3> QED  BY <3>2, Zenon DEF Asking
  <2>3. [cmd |-> "REQ", size |-> msg[s].left] \in Requests
    BY <1>5, Zenon DEF ReqSend, Goto, Typed, Callers, Requests
  <2>4. Asked' = Asked + 1
    BY <1>5, <1>e, <2>3 DEF ReqSend
  <2>5. UNCHANGED <<work, rx_queue, thread, nextId, reqs, abort_tx>>
    BY <1>5, Zenon DEF ReqSend
  <2> QED  BY <1>0, <1>n, <1>a, <1>b, <1>c, <2>1, <2>2, <2>4, <2>5, SMTT(20)
<1>6. ASSUME NEW s \in Senders, ReqAnswered(s) PROVE Supply'
  BY <1>6, <1>d, AskingKept DEF ReqAnswered, Return
<1>7. ASSUME NEW s \in Senders, ReqTimeout(s) PROVE Supply'
  BY <1>7, <1>d, AskingKept, SMTT(20) DEF ReqTimeout, Return
<1>8. ASSUME NEW s \in Senders, SendChunk(s) PROVE Supply'
  <2>1. Asking' = Asking
    BY <1>8, AskingKept DEF SendChunk, Return
  <2>2. PICK m : ab' = Append(ab, m) /\ m.cmd = "DATA"
    BY <1>8 DEF SendChunk
  <2>3. ab \in Seq(Requests \cup Data) /\ ab' \in Seq(Requests \cup Data)
    BY Zenon DEF Typed, Links
  <2>4. Len(ab) + 1 \in DOMAIN ab' /\ ab'[Len(ab) + 1] = m
    BY <2>2, <2>3
  <2>5. m \in Requests \cup Data
    BY <2>3, <2>4
  <2>6. m \in Data
    BY <2>2, <2>5, DataTyped, SMTT(20)
  <2>7. Asked' = Asked
    BY <1>e, <2>2, <2>6, SMTT(20)
  <2>8. UNCHANGED <<work, rx_queue, thread, nextId, reqs, abort_tx>>
    BY <1>8, Zenon DEF SendChunk
  <2> QED  BY <1>a, <1>b, <1>c, <2>1, <2>7, <2>8, SMTT(20)
<1>9. ASSUME NEW s \in Senders, TryFull(s) PROVE Supply'
  BY <1>9, <1>d, AskingKept, SMTT(20) DEF TryFull, Return
<1>10. ASSUME abort_tx' PROVE Supply'
  BY <1>10, <1>b, Zenon
<1>11. \A s \in Senders : TxAborted(s) => Supply'
  BY <1>10 DEF TxAborted
<1>12. RxIntent \/ RxReqAck \/ RxDone \/ RxDataIrqDefer \/ WorkReuse => Supply'
  <2>1. RxIntent \/ RxReqAck \/ RxDone => Supply'
    BY <1>c, <1>d, Zenon DEF RxIntent, RxReqAck, RxDone
  <2>2. ASSUME RxDataIrqDefer PROVE Supply'
    <3>1. UNCHANGED <<pc, work, rx_queue, thread, nextId, reqs, abort_tx>>
      BY <2>2, Zenon DEF RxDataIrqDefer
    <3>2. Asked' <= Asked
      BY <1>f, <2>2, Zenon DEF RxDataIrqDefer, InIrq, Got
    <3> QED  BY <1>0, <1>n, <1>a, <1>b, <1>c, <3>1, <3>2, SMTT(20)
  <2>3. ASSUME WorkReuse PROVE Supply'
    <3>1. UNCHANGED <<pc, ab, rx_queue, thread, nextId, reqs, abort_tx>>
      BY <2>3, Zenon DEF WorkReuse
    <3>2. Len(work') = Len(work) - 1
      BY <1>e, <2>3, Zenon DEF WorkReuse
    <3> QED  BY <1>0, <1>n, <1>a, <1>b, <1>c, <3>1, <3>2, SMTT(20)
  <2> QED  BY <2>1, <2>2, <2>3, SMTT(20)
<1>13. ASSUME WorkRefused PROVE Supply'
  <2>1. UNCHANGED <<pc, ab, rx_queue, thread, nextId, reqs, abort_tx>>
    BY <1>13, Zenon DEF WorkRefused
  <2>2. Len(work') = Len(work) - 1
    BY <1>e, <1>13, Zenon DEF WorkRefused
  <2> QED  BY <1>0, <1>n, <1>a, <1>b, <1>c, <2>1, <2>2, SMTT(20)
<1>14. ASSUME WorkNew PROVE Supply'
  <2>1. UNCHANGED <<pc, ab, thread, nextId, reqs, abort_tx>>
    BY <1>14, Zenon DEF WorkNew
  <2>2. Len(work') = Len(work) - 1
    BY <1>e, <1>14, Zenon DEF WorkNew
  <2>3. work \in Seq(Lens)
    BY Zenon DEF Typed, SideB
  <2>4. Head(work) \in Lens
    BY <1>14, <2>3, TailAt, SMTT(20) DEF WorkNew
  <2>5. [at |-> "new", size |-> Head(work)] \in News
    BY <2>4, Zenon DEF News
  <2>6. ToMake' = ToMake + 1
    BY <1>e, <1>14, <2>5, SMTT(20) DEF WorkNew
  <2> QED  BY <1>0, <1>n, <1>a, <1>b, <1>c, <2>1, <2>2, <2>6, SMTT(20)
<1>15. ASSUME RxReq PROVE Supply'
  <2>1. UNCHANGED <<pc, rx_queue, thread, nextId, reqs, abort_tx>> /\ ab # <<>>
        /\ ab' = Tail(ab) /\ work' = Append(work, Head(ab).size) /\ Head(ab).cmd = "REQ"
    BY <1>15, Zenon DEF RxReq, Got
  <2>2. ab \in Seq(Requests \cup Data)
    BY Zenon DEF Typed, Links
  <2>3. Head(ab) \in Requests /\ Head(ab).size \in Lens
    BY <2>1, <2>2, TailAt, DataTyped, SMTT(20)
  <2>4. Asked = Asked' + 1 /\ Len(work') = Len(work) + 1
    BY <1>e, <2>1, <2>3, SMTT(20)
  <2> QED  BY <1>0, <1>n, <1>a, <1>b, <1>c, <2>1, <2>4, SMTT(20)
<1>16. ASSUME RxDataPart \/ RxDataIrq PROVE Supply'
  <2>1. UNCHANGED <<pc, work, rx_queue, thread, nextId, reqs, abort_tx>>
    BY <1>16, Zenon DEF RxDataPart, RxDataIrq
  <2>2. Asked' <= Asked
    BY <1>f, <1>16, SMTT(20) DEF RxDataPart, RxDataIrq, InIrq, Got
  <2> QED  BY <1>0, <1>n, <1>a, <1>b, <1>c, <2>1, <2>2, SMTT(20)
<1>17. ASSUME RxData \/ RxDataIrqFull PROVE Supply'
  <2>1. UNCHANGED <<pc, work, thread, nextId, reqs, abort_tx>>
    BY <1>17, Zenon DEF RxData, RxDataIrqFull
  <2>2. Asked' <= Asked
    BY <1>f, <1>17, SMTT(20) DEF RxData, RxDataIrqFull, InIrq, Got
  <2>3. Head(ab).id \in Ids
    BY <1>17, HeadData, Zenon DEF RxData, RxDataIrqFull, InIrq
  <2>4. /\ [at |-> "data", id |-> Head(ab).id] \in Uploads
        /\ [at |-> "irq_done", id |-> Head(ab).id] \in Uploads
    BY <2>3, Zenon DEF Uploads
  <2>5. \A e : rx_queue = <<>> /\ rx_queue' = <<e>> => rx_queue' = Append(rx_queue, e)
    BY SMTT(20)
  <2>6. ToMake' = ToMake
    BY <1>e, <1>17, <2>4, <2>5, SMTT(20) DEF RxData, RxDataIrqFull, InIrq
  <2> QED  BY <1>0, <1>n, <1>a, <1>b, <1>c, <2>1, <2>2, <2>6, SMTT(20)
<1>18. ASSUME ThreadTake PROVE Supply'
  <2>1. UNCHANGED <<pc, ab, work, nextId, reqs, abort_tx>>
    BY <1>18, Zenon DEF ThreadTake
  <2>2. Making' = IF Head(rx_queue) \in News THEN 1 ELSE 0
    BY <1>18, HeadQueue, EntryTyped, SMTT(20) DEF ThreadTake, Making
  <2>3. Making = 0
    BY <1>18, Zenon DEF ThreadTake, Making, Idle
  <2>4. ToMake = ToMake' + (IF Head(rx_queue) \in News THEN 1 ELSE 0)
    BY <1>e, <1>18, Zenon DEF ThreadTake
  <2> QED  BY <1>0, <1>n, <1>a, <1>b, <1>c, <2>1, <2>2, <2>3, <2>4, SMTT(20)
<1>19. ASSUME ThreadDone \/ ThreadDefer \/ ThreadAck \/ ClientDone PROVE Supply'
  <2>1. UNCHANGED <<pc, ab, work, rx_queue, nextId, reqs, abort_tx>>
    BY <1>19, Zenon DEF ThreadDone, ThreadDefer, ThreadAck, ClientDone
  <2>2. thread' = thread \/ Making' = 0
    BY <1>19 DEF ThreadDone, ThreadDefer, ThreadAck, ClientDone, Making, Idle
  <2>3. Making' <= Making
    BY <1>0, <1>c, <2>2, SMTT(20)
  <2> QED  BY <1>0, <1>n, <1>a, <1>b, <1>c, <2>1, <2>3, SMTT(20)
<1>20. ASSUME ThreadNew PROVE Supply'
  <2>1. UNCHANGED <<pc, ab, work, rx_queue, reqs, abort_tx>> /\ nextId' = nextId + 1
    BY <1>20, Zenon DEF ThreadNew
  <2>2. Making = 1 /\ Making' = 0
    BY <1>20, Zenon DEF ThreadNew, Making
  <2> QED  BY <1>0, <1>n, <1>a, <1>b, <1>c, <2>1, <2>2, SMTT(20)
<1>21. ASSUME ThreadNoMem PROVE Supply'
  <2>1. UNCHANGED <<pc, ab, work, nextId, reqs, abort_tx>>
    BY <1>21, Zenon DEF ThreadNoMem
  <2>2. Making = 1 /\ Making' = 0
    BY <1>21, Zenon DEF ThreadNoMem, Making, Idle
  <2>3. rx_queue' \in Seq(Uploads \cup News) /\ rx_queue \in Seq(Uploads \cup News)
    BY Zenon DEF Typed, SideB
  <2>4. rx_queue' # <<>> /\ Tail(rx_queue') = rx_queue /\ Head(rx_queue') = thread
    BY <1>21, <2>3, SMTT(20) DEF ThreadNoMem
  <2>5. thread \in News
    BY <1>21, SupplySpares, NewIdFree, SMTT(20) DEF ThreadNoMem
  <2>6. Cardinality(Places(rx_queue', News)) = Cardinality(Places(rx_queue, News)) + 1
    BY <2>3, <2>4, <2>5, CountTail, Zenon
  <2>7. ToMake' = ToMake + 1
    BY <2>6, Zenon DEF ToMake
  <2> QED  BY <1>0, <1>n, <1>a, <1>b, <1>c, <2>1, <2>2, <2>7, SMTT(20)
<1>22. Crash => Supply'
  BY <1>10, Zenon DEF Crash
<1>23. vars' = vars => Supply'
  BY <1>c, <1>d, Zenon DEF vars
<1> HIDE DEF req, aVars, bVars, Kept
<1> QED  BY <1>1, <1>2, <1>3, <1>4, <1>5, <1>6, <1>7, <1>8, <1>9, <1>11, <1>12, <1>13, <1>14,
            <1>15, <1>16, <1>17, <1>18, <1>19, <1>20, <1>21, <1>22, <1>23, NextCases, ZenonT(30)

(***************************************************************************)
(* The theorems                                                            *)
(***************************************************************************)

\* The inductive invariant.
Sound == Typed /\ Supply /\ (~ abort_tx => Whole)

\* A side that has crashed does not come back.
LEMMA CrashKept ==
  ASSUME [Next]_vars
  PROVE  abort_tx => abort_tx'
<1> SUFFICES ASSUME abort_tx PROVE abort_tx'
  BY Zenon
<1>0. aVars' = aVars => abort_tx' = abort_tx
  BY Zenon DEF aVars
<1>1. ASSUME NEW s \in Senders
      PROVE  /\ Begin(s) \/ Find(s) \/ FindNone(s) \/ ReqReset(s) \/ ReqSend(s) => abort_tx'
             /\ ReqAnswered(s) \/ ReqTimeout(s) => abort_tx'
             /\ SendChunk(s) \/ TryFull(s) \/ TxAborted(s) => abort_tx'
  BY Zenon DEF Begin, Find, FindNone, ReqReset, ReqSend, ReqAnswered, ReqTimeout, SendChunk,
         TryFull, TxAborted
<1>2. RxIntent \/ RxReqAck \/ RxDone \/ Crash => abort_tx'
  BY Zenon DEF RxIntent, RxReqAck, RxDone, Crash
<1>3. RxReq \/ RxDataPart \/ RxData \/ RxDataIrq \/ RxDataIrqFull \/ RxDataIrqDefer => abort_tx'
  BY <1>0, Zenon DEF RxReq, RxDataPart, RxData, RxDataIrq, RxDataIrqFull, RxDataIrqDefer
<1>4. /\ WorkReuse \/ WorkNew \/ WorkRefused => abort_tx'
      /\ ThreadTake \/ ThreadDone \/ ThreadDefer \/ ThreadNew \/ ThreadAck => abort_tx'
      /\ ThreadNoMem \/ ClientDone => abort_tx'
  BY <1>0, Zenon DEF WorkReuse, WorkNew, WorkRefused, ThreadTake, ThreadDone, ThreadDefer,
         ThreadNew, ThreadAck, ThreadNoMem, ClientDone
<1>5. vars' = vars => abort_tx'
  BY <1>0, Zenon DEF vars
<1> QED  BY <1>1, <1>2, <1>3, <1>4, <1>5, NextCases, ZenonT(30)

\* Every step keeps the inductive invariant.
LEMMA SoundStep ==
  ASSUME Sound, [Next]_vars
  PROVE  Sound'
<1>1. Typed /\ Supply /\ (~ abort_tx => Whole)
  BY Zenon DEF Sound
<1>2. Choice /\ Spare
  BY <1>1, BestFits, SupplySpares, Zenon
<1>3. Typed' /\ Supply'
  <2>1. Typed'
    BY <1>1, <1>2, TypedStep, Zenon
  <2> QED  BY <1>1, <2>1, SupplyStep, Zenon
<1>4. ASSUME ~ abort_tx' PROVE Whole'
  <2>1. ~ abort_tx
    <3>1. abort_tx => abort_tx'
      BY CrashKept, Zenon
    <3> QED  BY <1>4, <3>1, Zenon
  <2> QED  BY <1>1, <1>2, <1>3, <1>4, <2>1, WholeStep, ZenonT(30)
<1> QED  BY <1>3, <1>4, Zenon DEF Sound

\* It holds at the start.
LEMMA SoundInit == Init => Sound
<1> SUFFICES ASSUME Init PROVE Sound
  BY Zenon
<1> USE DEF Init
<1>1. /\ Base \in Nat /\ MaxReqs \in Nat /\ 0 \in Sizes /\ 1 \in Sizes
      /\ Ids \subseteq Nat \ {0} /\ Reusable \subseteq Ids
      /\ \A i \in Ids : i >= Base + 1 <=> i \notin Reusable
  BY IntentsAssumption, NumberSets DEF Ids, Reusable
<1>2. ab = <<>> /\ ba = <<>> /\ work = <<>> /\ rx_queue = <<>>
  BY Zenon
<1>3. /\ \A S : <<>> \in Seq(S)
      /\ \A M : Places(<<>>, M) = {} /\ \A i : PartsOf(<<>>, i) = {}
  BY DEF Places, PartsOf
<1>4. Flags /\ Tables /\ Callers
  <2>1. Flags
    BY Zenon DEF Flags
  <2>2. Tables
    <3>1. rsize \in [Ids -> Sizes] /\ \A i \in Ids : rsize[i] >= 0
      BY <1>1
    <3> QED  BY <3>1, Zenon DEF Tables
  <2>3. Callers
    BY <1>1 DEF Callers, NoMsg
  <2> QED  BY <2>1, <2>2, <2>3, Zenon
<1>5. Links /\ SideB /\ Dead
  BY <1>1, <1>2, <1>3 DEF Links, SideB, Dead, Steps
<1>6. Locked
  BY IntentsAssumption, Zenon DEF Locked
<1>7. Typed
  BY <1>4, <1>5, <1>6, Zenon DEF Typed
<1>8. Supply
  <2>1. Asked = 0 /\ ToMake = 0 /\ Len(work) = 0
    BY <1>2, <1>3, FS_EmptySet, Zenon DEF Asked, ToMake
  <2>2. Making = 0 /\ Asking = 0
    BY Zenon DEF Making, Asking, Idle
  <2>3. nextId = Base + 1 /\ reqs = 0
    BY Zenon
  <2> QED  BY <1>1, <2>1, <2>2, <2>3 DEF Supply
<1>9. Whole
  <2>1. ASSUME NEW i \in Ids PROVE Good(i)
    <3>1. Sending(i) = {} /\ Parts(i) = {} /\ Back(i) = {}
      <4>1. Sending(i) = {} /\ Back(i) = {}
        BY <1>2 DEF Sending, Back
      <4>2. Parts(i) = {}
        BY <1>2, <1>3, PartsAre, Zenon
      <4> QED  BY <4>1, <4>2, Zenon
    <3>2. Coming(i) = {} /\ Queued(i) = {} /\ held = {} /\ in_use = {}
      BY <1>2, <3>1 DEF Coming, Queued
    <3>3. Single(i)
      BY <3>1, <3>2, Zenon DEF Single, Lone
    <3>4. Underway(i)
      <4>1. (\A r : Enough(ab, i, r)) /\ Falling(ab, i)
        BY <1>2, <1>3, Zenon DEF Enough, Falling
      <4>2. offset[i] = 0
        BY Zenon
      <4> QED  BY <3>1, <4>1, <4>2, Zenon DEF Underway
    <3>5. Known(i)
      <4>1. rsize[i] = (IF i \in Reusable THEN 1 ELSE 0) /\ lsize[i] = rsize[i]
            /\ in_use = {} /\ nextId = Base + 1
        BY Zenon
      <4> QED  BY <1>1, <4>1 DEF Known
    <3> QED  BY <3>3, <3>4, <3>5, Zenon DEF Good
  <2>2. Advertised /\ ThreadHolds
    BY <1>2 DEF Advertised, ThreadHolds, Idle
  <2> QED  BY <2>1, <2>2, Zenon DEF Whole
<1> HIDE DEF Init
<1> QED  BY <1>7, <1>8, <1>9, Zenon DEF Sound

\* The uses of an intent are places of one kind each, and there is one at most.
LEMMA SoundSingle == Sound => OneUser
<1> SUFFICES ASSUME Sound, ~ abort_tx, NEW i \in Ids
             PROVE  /\ i \in in_use <=> Uses(i) # {}
                    /\ \A u, v \in Uses(i) : u = v
  BY Zenon DEF OneUser
<1>1. Single(i)
  BY Zenon DEF Sound, Whole, Good
<1>2. Lone(held \cap {i}) /\ (i \in held <=> held \cap {i} # {})
  BY Zenon DEF Lone
<1> DEFINE A == Sending(i)  B == Coming(i)  C == Queued(i)  D == held \cap {i}  E == Back(i)
<1>3. /\ Lone(A) /\ Lone(B) /\ Lone(C) /\ Lone(D) /\ Lone(E)
      /\ i \in in_use <=> A # {} \/ B # {} \/ C # {} \/ D # {} \/ E # {}
      /\ A # {} => B = {} /\ C = {} /\ D = {} /\ E = {}
      /\ B # {} => C = {} /\ D = {} /\ E = {}
      /\ C # {} => D = {} /\ E = {}
      /\ D # {} => E = {}
  BY <1>1, <1>2, Zenon DEF Single
<1>4. Uses(i) = ({"sending"} \X A) \cup ({"coming"} \X B) \cup ({"queued"} \X C)
                \cup ({"held"} \X D) \cup ({"back"} \X E)
  BY Zenon DEF Uses
<1> HIDE DEF A, B, C, D, E
<1>5. i \in in_use <=> Uses(i) # {}
  <2>1. \A t, S : \A x \in S : <<t, x>> \in {t} \X S
    BY Zenon
  <2>2. \A t, S : S # {} => {t} \X S # {}
    BY <2>1, Zenon
  <2>3. \A t, S : S = {} => {t} \X S = {}
    BY Zenon
  <2>4. CASE i \in in_use
    <3>1. /\ A # {} => {"sending"} \X A # {}
          /\ B # {} => {"coming"} \X B # {}
          /\ C # {} => {"queued"} \X C # {}
          /\ D # {} => {"held"} \X D # {}
          /\ E # {} => {"back"} \X E # {}
      BY <2>2, Zenon
    <3>2. A # {} \/ B # {} \/ C # {} \/ D # {} \/ E # {}
      BY <1>3, <2>4, Zenon
    <3>3. \A P, Q, R, S, T : P \cup Q \cup R \cup S \cup T = {} =>
            P = {} /\ Q = {} /\ R = {} /\ S = {} /\ T = {}
      BY Zenon
    <3> QED  BY <1>4, <2>4, <3>1, <3>2, <3>3, ZenonT(30)
  <2>5. CASE i \notin in_use
    <3>1. A = {} /\ B = {} /\ C = {} /\ D = {} /\ E = {}
      BY <1>3, <2>5, Zenon
    <3> QED  BY <1>4, <2>5, <3>1, Zenon
  <2> QED  BY <2>4, <2>5, Zenon
<1>6. ASSUME NEW u \in Uses(i), NEW v \in Uses(i) PROVE u = v
  <2>1. \A S, t : Lone(S) => Lone({t} \X S)
    BY DEF Lone
  <2>2. /\ Lone({"sending"} \X A) /\ Lone({"coming"} \X B) /\ Lone({"queued"} \X C)
        /\ Lone({"held"} \X D) /\ Lone({"back"} \X E)
    BY <1>3, <2>1, Zenon
  <2>3. Lone(Uses(i))
    <3>1. CASE A # {}
      <4>1. Uses(i) = {"sending"} \X A
        BY <1>3, <1>4, <3>1, Zenon
      <4> QED  BY <2>2, <4>1, Zenon
    <3>2. CASE A = {} /\ B # {}
      <4>1. Uses(i) = {"coming"} \X B
        BY <1>3, <1>4, <3>2, Zenon
      <4> QED  BY <2>2, <4>1, Zenon
    <3>3. CASE A = {} /\ B = {} /\ C # {}
      <4>1. Uses(i) = {"queued"} \X C
        BY <1>3, <1>4, <3>3, Zenon
      <4> QED  BY <2>2, <4>1, Zenon
    <3>4. CASE A = {} /\ B = {} /\ C = {} /\ D # {}
      <4>1. Uses(i) = {"held"} \X D
        BY <1>3, <1>4, <3>4, Zenon
      <4> QED  BY <2>2, <4>1, Zenon
    <3>5. CASE A = {} /\ B = {} /\ C = {} /\ D = {}
      <4>1. Uses(i) = {"back"} \X E
        BY <1>4, <3>5, Zenon
      <4> QED  BY <2>2, <4>1, Zenon
    <3> QED  BY <3>1, <3>2, <3>3, <3>4, <3>5, Zenon
  <2> QED  BY <1>6, <2>3, Zenon DEF Lone
<1> QED  BY <1>5, <1>6, Zenon

\* Data on its way finds room.
LEMMA SoundLands == Sound => DataLands
<1> SUFFICES ASSUME Sound, NEW i \in Ids, NEW n \in Parts(i)
             PROVE  /\ lsize[i] >= offset[i] + ab[n].n + ab[n].left
                    /\ \A k \in Parts(i) : k < n => ab[k].left >= ab[n].n + ab[n].left
  BY Zenon DEF DataLands
<1>1. Typed
  BY Zenon DEF Sound
<1>2. Parts(i) = PartsOf(ab, i) /\ ab \in Seq(Requests \cup Data)
  BY <1>1, PartsAre, Zenon DEF Typed, Links
<1>3. ~ abort_tx
  BY <1>1, <1>2 DEF Typed, Dead, PartsOf
<1>4. Enough(ab, i, lsize[i] - offset[i]) /\ Falling(ab, i)
  BY <1>3, Zenon DEF Sound, Whole, Good, Underway
<1>5. lsize[i] - offset[i] >= ab[n].n + ab[n].left
  BY <1>2, <1>4, Zenon DEF Enough
<1>6. lsize[i] \in Nat /\ offset[i] \in Nat /\ ab[n].n \in Nat /\ ab[n].left \in Nat
  <2>1. lsize[i] \in Nat /\ offset[i] \in Nat
    BY <1>1, TableNumbers, Zenon
  <2>2. ab[n].n \in Nat /\ ab[n].left \in Nat
    BY <1>2, PartsTyped, Zenon
  <2> QED  BY <2>1, <2>2, Zenon
<1>7. \A x, y, z, w \in Nat : x - y >= z + w => x >= y + z + w
  OBVIOUS
<1>8. lsize[i] >= offset[i] + ab[n].n + ab[n].left
  BY <1>5, <1>6, <1>7, Zenon
<1>9. \A k \in Parts(i) : k < n => ab[k].left >= ab[n].n + ab[n].left
  BY <1>2, <1>4, Zenon DEF Falling
<1> QED  BY <1>8, <1>9, Zenon

\* The types that the runs check.
LEMMA SoundTyped == Sound => TypeOK
<1> SUFFICES ASSUME Typed PROVE TypeOK
  BY Zenon DEF Sound
<1>1. lock \in {None} \cup {s \in Senders : pc[s] \in {"tx", "wait"}}
  BY Zenon DEF Typed, Locked
<1>2. thread.at \in {"idle", "data", "irq_done", "deferred", "new", "ack"}
  BY DEF Typed, SideB, Steps, Uploads, News, Idle
<1> QED  BY <1>1, <1>2, Zenon DEF Typed, Flags, Tables, Callers, TypeOK

\* The inductive invariant holds in every behaviour.
LEMMA SoundAlways == Spec => []Sound
<1>1. Sound /\ [Next]_vars => Sound'
  BY SoundStep, Zenon
<1> QED  BY <1>1, SoundInit, PTL DEF Spec

\* Every behaviour of the channel keeps its types: in particular no intent is
\* written beyond its size (qcom_glink_rx_data) and intent_req_lock belongs to a
\* sender that waits for its request (qcom_glink_request_intent).
THEOREM GlinkTyped == Spec => []TypeOK
  BY SoundTyped, SoundAlways, PTL

\* An intent has one user at a time, whatever the number of senders and
\* intents: riids marks it in use exactly while one message is being sent into
\* it, lies in it or is being returned.
THEOREM OneUserEach == Spec => []OneUser
  BY SoundSingle, SoundAlways, PTL

\* Data always finds its intent, with room: qcom_glink_rx_data never drops any.
THEOREM DataAlwaysLands == Spec => []DataLands
  BY SoundLands, SoundAlways, PTL
=============================================================================
