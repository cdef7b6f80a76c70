------------------------- MODULE GlinkIntentsSteps --------------------------
(* What a step of GlinkIntents does to the intents, for any number of       *)
(* senders, intents and requests and any lengths of messages.               *)
(* GlinkIntentsProofs adds that the types are kept and that there are       *)
(* intents enough, and draws the conclusions.                               *)
EXTENDS GlinkIntents, TLAPS

(***************************************************************************)
(* The inductive invariant                                                 *)
(***************************************************************************)

\* What the links and the queue of the thread carry.
Requests == [cmd : {"REQ"}, size : Lens]
Data == [cmd : {"DATA"}, id : Ids, n : Nat \ {0}, left : Nat]
Intents == [cmd : {"INTENT"}, id : Ids \ Reusable, size : Lens]
Acks == [cmd : {"ACK"}, granted : {0, 1}]
Dones == [cmd : {"DONE"}, id : Ids]
Uploads == [at : {"data", "irq_done"}, id : Ids]
News == [at : {"new"}, size : Lens]

Steps == {Idle, [at |-> "deferred"], [at |-> "ack"]} \cup Uploads \cup News

\* The types, in parts that the provers treat one by one.
Flags == received \in BOOLEAN /\ abort_tx \in BOOLEAN

Tables ==
  /\ rsize \in [Ids -> Sizes] /\ lsize \in [Ids -> Sizes]
  /\ offset \in [Ids -> Nat] /\ \A i \in Ids : offset[i] <= lsize[i]
  /\ in_use \subseteq Ids /\ held \subseteq Ids

Callers ==
  /\ pc \in [Senders -> {"idle", "find", "req", "tx", "wait", "data"}]
  /\ result \in -1..1 /\ reqs \in 0..MaxReqs
  /\ msg \in [Senders -> [left : Nat, use : Ids \cup {0}, wait : BOOLEAN]]
  /\ \A s \in Senders : pc[s] # "idle" => msg[s].left > 0
  /\ \A s \in Senders : pc[s] \in {"find", "req", "tx", "wait"} => msg[s].left \in Lens
  /\ \A s \in Senders : pc[s] = "data" => msg[s].use \in Ids

Links == ab \in Seq(Requests \cup Data) /\ ba \in Seq(Intents \cup Acks \cup Dones)

SideB ==
  /\ work \in Seq(Lens) /\ rx_queue \in Seq(Uploads \cup News) /\ thread \in Steps
  /\ nextId \in Nat /\ nextId > Base

\* Who requests an intent holds intent_req_lock.
Locked ==
  /\ lock \in {None} \cup Senders
  /\ \A s \in Senders : pc[s] \in {"tx", "wait"} <=> lock = s

\* After a crash nothing is on its way.
Dead ==
  abort_tx => /\ ab = <<>> /\ ba = <<>> /\ work = <<>> /\ rx_queue = <<>>
              /\ thread = Idle /\ held = {}

Typed == Flags /\ Tables /\ Callers /\ Links /\ SideB /\ Locked /\ Dead

\* Two facts that GlinkIntentsProofs supplies: the search finds what it looks for,
\* and there is an intent left for the request that the thread is at.
Choice == \A s \in Senders : Fits(s) # {} => Best(s) \in Fits(s)
Spare == thread.at = "new" => nextId \in Ids

\* The places of data for intent i in q.
PartsOf(q, i) == {n \in DOMAIN q : q[n].cmd = "DATA" /\ q[n].id = i}

\* With r chunks free each part for intent i fits, with what follows it; each
\* one fits into what those before it left; and each leaves l at least.
Enough(q, i, r) == \A n \in PartsOf(q, i) : r >= q[n].n + q[n].left
Falling(q, i) == \A k, n \in PartsOf(q, i) : k < n => q[k].left >= q[n].n + q[n].left
Leaving(q, i, l) == \A n \in PartsOf(q, i) : q[n].left >= l

\* A set has one element at most.
Lone(T) == \A x, y \in T : x = y

\* Intent i has one user at most, and one exactly if it is marked.
Single(i) ==
  /\ Lone(Sending(i)) /\ Lone(Coming(i)) /\ Lone(Queued(i)) /\ Lone(Back(i))
  /\ i \in in_use <=>
       \/ Sending(i) # {} \/ Coming(i) # {} \/ Queued(i) # {} \/ i \in held \/ Back(i) # {}
  /\ Sending(i) # {} => Coming(i) = {} /\ Queued(i) = {} /\ i \notin held /\ Back(i) = {}
  /\ Coming(i) # {} => Queued(i) = {} /\ i \notin held /\ Back(i) = {}
  /\ Queued(i) # {} => i \notin held /\ Back(i) = {}
  /\ i \in held => Back(i) = {}

\* Nothing of the message that is for intent i has been sent, or all of it was read.
Unwritten(i) ==
  i \notin in_use \/ (\E s \in Sending(i) : ~ msg[s].wait) \/ Back(i) # {}

\* The data on its way to intent i.
Underway(i) ==
  /\ Unwritten(i) => offset[i] = 0 /\ Parts(i) = {}
  /\ Parts(i) # {} => Sending(i) # {} \/ Coming(i) # {}
  /\ Enough(ab, i, lsize[i] - offset[i])
  /\ Falling(ab, i)
  /\ \A s \in Sending(i) : /\ Parts(i) = {} => lsize[i] >= offset[i] + msg[s].left
                           /\ Leaving(ab, i, msg[s].left)

\* What side A knows of an intent that it does not use is right.
Known(i) ==
  /\ i \in Reusable => rsize[i] = 1 /\ lsize[i] = 1
  /\ i \notin in_use \/ (\E s \in Sending(i) : ~ msg[s].wait) => rsize[i] <= lsize[i]
  /\ i >= nextId => rsize[i] = 0 /\ lsize[i] = 0 /\ i \notin in_use

\* What holds of one intent.
Good(i) == Single(i) /\ Underway(i) /\ Known(i)

\* An intent that is advertised is new to side A.
Advertised ==
  /\ \A n \in DOMAIN ba : ba[n].cmd = "INTENT" =>
       /\ ba[n].id < nextId /\ ba[n].id \notin in_use
       /\ rsize[ba[n].id] = 0 /\ lsize[ba[n].id] = ba[n].size
  /\ \A k, n \in DOMAIN ba :
       ba[k].cmd = "INTENT" /\ ba[n].cmd = "INTENT" /\ ba[k].id = ba[n].id => k = n

\* The thread has what it gives to the client.
ThreadHolds == thread.at \in {"data", "irq_done"} => thread.id \in held

\* What holds of all intents together while the remote side lives.
Whole == (\A i \in Ids : Good(i)) /\ Advertised /\ ThreadHolds

(***************************************************************************)
(* Queues that grow at the end and shrink at the head                      *)
(***************************************************************************)

\* What Append does.
LEMMA AppendAt ==
  ASSUME NEW S, NEW q \in Seq(S), NEW x \in S
  PROVE  /\ Append(q, x) \in Seq(S) /\ Append(q, x) # <<>>
         /\ DOMAIN Append(q, x) = DOMAIN q \cup {Len(q) + 1}
         /\ Append(q, x)[Len(q) + 1] = x
         /\ \A k \in DOMAIN q : k \in Nat /\ k >= 1 /\ k < Len(q) + 1
                               /\ Append(q, x)[k] = q[k] /\ q[k] \in S
         /\ Len(q) \in Nat /\ Len(q) + 1 \notin DOMAIN q
         /\ Len(Append(q, x)) = Len(q) + 1
<1>1. /\ Append(q, x) \in Seq(S) /\ Len(Append(q, x)) = Len(q) + 1
      /\ \A i \in 1..Len(q) : Append(q, x)[i] = q[i]
      /\ Append(q, x)[Len(q) + 1] = x
      /\ DOMAIN Append(q, x) = 1..(Len(q) + 1)
      /\ DOMAIN q = 1..Len(q) /\ Len(q) \in Nat
  OBVIOUS
<1>2. 1..(Len(q) + 1) = 1..Len(q) \cup {Len(q) + 1}
  BY <1>1
<1>3. \A k \in 1..Len(q) : k \in Nat /\ k >= 1 /\ k < Len(q) + 1
  BY <1>1
<1>4. \A k \in DOMAIN q : q[k] \in S
  OBVIOUS
<1>5. Append(q, x) # <<>>
  BY <1>1
<1> QED  BY <1>1, <1>2, <1>3, <1>4, <1>5

\* What Tail does.
LEMMA TailAt ==
  ASSUME NEW S, NEW q \in Seq(S), q # <<>>
  PROVE  /\ Tail(q) \in Seq(S) /\ Len(Tail(q)) = Len(q) - 1 /\ Len(q) \in Nat
         /\ 1 \in DOMAIN q /\ q[1] = Head(q) /\ Head(q) \in S
         /\ \A k \in DOMAIN q : k \in Nat /\ k >= 1 /\ q[k] \in S
         /\ \A k \in DOMAIN Tail(q) : /\ k \in Nat /\ k >= 1 /\ k + 1 \in DOMAIN q
                                     /\ Tail(q)[k] = q[k + 1]
         /\ \A k \in DOMAIN q : k # 1 => k - 1 \in DOMAIN Tail(q) /\ Tail(q)[k - 1] = q[k]
<1>1. /\ Tail(q) \in Seq(S) /\ Len(Tail(q)) = Len(q) - 1
      /\ Len(q) \in Nat /\ Len(q) >= 1
      /\ DOMAIN q = 1..Len(q) /\ DOMAIN Tail(q) = 1..(Len(q) - 1)
  OBVIOUS
<1>2. q[1] = Head(q) /\ Head(q) \in S
  OBVIOUS
<1>3. \A i \in 1..(Len(q) - 1) : i + 1 \in 1..Len(q) /\ Tail(q)[i] = q[i + 1]
  BY <1>1
<1>4. \A k \in 1..Len(q) : k # 1 => k - 1 \in 1..(Len(q) - 1) /\ k = (k - 1) + 1
  BY <1>1
<1>5. \A k \in 1..Len(q) : k \in Nat /\ k >= 1 /\ q[k] \in S
  BY <1>1
<1>6. \A k \in 1..(Len(q) - 1) : k \in Nat /\ k >= 1
  BY <1>1
<1>7. 1 \in DOMAIN q
  BY <1>1
<1> QED  BY <1>1, <1>2, <1>3, <1>4, <1>5, <1>6, <1>7, Zenon


\* The places of q whose entry is in M.
Places(q, M) == {n \in DOMAIN q : q[n] \in M}

\* Two sets have none, one or more elements alike.
Same(T, U) == (U = {} <=> T = {}) /\ (Lone(U) <=> Lone(T))

\* An entry joins the queue.
LEMMA PlacesAppend ==
  ASSUME NEW S, NEW q \in Seq(S), NEW x \in S, NEW M
  PROVE  /\ x \notin M => Places(Append(q, x), M) = Places(q, M)
         /\ x \in M => /\ Places(Append(q, x), M) # {}
                       /\ Places(q, M) = {} => Lone(Places(Append(q, x), M))
<1>1. /\ DOMAIN Append(q, x) = DOMAIN q \cup {Len(q) + 1}
      /\ Append(q, x)[Len(q) + 1] = x
      /\ \A k \in DOMAIN q : Append(q, x)[k] = q[k]
  BY AppendAt
<1>2. Places(Append(q, x), M) = Places(q, M) \cup (IF x \in M THEN {Len(q) + 1} ELSE {})
  BY <1>1, Zenon DEF Places
<1> QED  BY <1>2, Zenon DEF Lone

\* The head leaves the queue.
LEMMA PlacesTail ==
  ASSUME NEW S, NEW q \in Seq(S), q # <<>>, NEW M
  PROVE  /\ Head(q) \notin M => Same(Places(q, M), Places(Tail(q), M))
         /\ Head(q) \in M => /\ Places(q, M) # {}
                             /\ Lone(Places(q, M)) => Places(Tail(q), M) = {}
<1> DEFINE P == Places(q, M)
           T == Places(Tail(q), M)
<1>1. /\ \A k \in T : k + 1 \in P /\ k \in Nat /\ k >= 1
      /\ \A k \in P : k \in Nat /\ (k # 1 => k - 1 \in T)
      /\ 1 \in P <=> Head(q) \in M
  BY TailAt DEF Places
<1> HIDE DEF P, T
<1>2. ASSUME Head(q) \notin M PROVE Same(P, T)
  <2>1. \A k \in P : k - 1 \in T /\ k \in Nat
    BY <1>1, <1>2, Zenon
  <2>2. \A x, y \in Nat : (x + 1 = y + 1 => x = y) /\ (x - 1 = y - 1 => x = y)
    OBVIOUS
  <2>3. Lone(P) => Lone(T)
    BY <1>1, <2>2, Zenon DEF Lone
  <2>4. Lone(T) => Lone(P)
    BY <2>1, <2>2, Zenon DEF Lone
  <2> QED  BY <1>1, <2>1, <2>3, <2>4, Zenon DEF Same
<1>3. ASSUME Head(q) \in M, Lone(P), NEW k \in T PROVE FALSE
  BY <1>1, <1>3 DEF Lone
<1> QED  BY <1>1, <1>2, <1>3, Zenon DEF P, T

(***************************************************************************)
(* The data for one intent in a link                                       *)
(***************************************************************************)

IsPart(m, i) == m.cmd = "DATA" /\ m.id = i

\* A packet of the link that carries data.
LEMMA DataTyped ==
  ASSUME NEW m \in Requests \cup Data
  PROVE  /\ m.cmd \in {"REQ", "DATA"}
         /\ m.cmd = "DATA" <=> m \in Data
         /\ m.cmd = "DATA" => m.id \in Ids /\ m.n \in Nat /\ m.n > 0 /\ m.left \in Nat
         /\ m.cmd = "REQ" => m \in Requests /\ m.size \in Lens
  BY DEF Requests, Data

\* The places of data are numbers, and the packets there are data.
LEMMA PartsTyped ==
  ASSUME NEW q \in Seq(Requests \cup Data), NEW i
  PROVE  \A n \in PartsOf(q, i) : /\ n \in DOMAIN q /\ n \in Nat /\ n >= 1
                                 /\ q[n].n \in Nat /\ q[n].n > 0 /\ q[n].left \in Nat
<1> SUFFICES ASSUME NEW n \in PartsOf(q, i)
             PROVE  /\ n \in DOMAIN q /\ n \in Nat /\ n >= 1
                    /\ q[n].n \in Nat /\ q[n].n > 0 /\ q[n].left \in Nat
  BY Zenon
<1>1. n \in DOMAIN q /\ q[n].cmd = "DATA"
  BY Zenon DEF PartsOf
<1>2. n \in Nat /\ n >= 1 /\ q[n] \in Requests \cup Data
  BY <1>1
<1> QED  BY <1>1, <1>2, DataTyped, Zenon

\* A packet that is not for intent i joins the link.
LEMMA PartsSkip ==
  ASSUME NEW q \in Seq(Requests \cup Data), NEW m \in Requests \cup Data, NEW i,
         ~ IsPart(m, i)
  PROVE  /\ PartsOf(Append(q, m), i) = PartsOf(q, i)
         /\ \A n \in PartsOf(q, i) : Append(q, m)[n] = q[n]
<1>1. /\ DOMAIN Append(q, m) = DOMAIN q \cup {Len(q) + 1}
      /\ Append(q, m)[Len(q) + 1] = m
      /\ \A k \in DOMAIN q : Append(q, m)[k] = q[k]
  BY AppendAt
<1> QED  BY <1>1, Zenon DEF PartsOf, IsPart


\* Data for intent i joins the link.
LEMMA PartsAdd ==
  ASSUME NEW q \in Seq(Requests \cup Data), NEW m \in Data, NEW i, IsPart(m, i),
         Falling(q, i), Leaving(q, i, m.n + m.left),
         NEW r, Enough(q, i, r), r >= m.n + m.left
  PROVE  /\ Enough(Append(q, m), i, r) /\ Leaving(Append(q, m), i, m.left)
         /\ Falling(Append(q, m), i) /\ PartsOf(Append(q, m), i) # {}
<1> DEFINE e == Len(q) + 1
           q2 == Append(q, m)
           P == PartsOf(q, i)
           P2 == PartsOf(q2, i)
<1>1. /\ DOMAIN q2 = DOMAIN q \cup {e}
      /\ q2[e] = m /\ e \in Nat
      /\ \A k \in DOMAIN q : q2[k] = q[k] /\ k < e
  BY AppendAt
<1>2. /\ P2 = P \cup {e}
      /\ \A k \in P : /\ q2[k] = q[k] /\ k < e /\ k \in Nat
                      /\ q[k].left \in Nat /\ q[k].left >= m.n + m.left
  BY <1>1, PartsTyped, Zenon DEF PartsOf, IsPart, Leaving
<1>3. m.n \in Nat /\ m.left \in Nat
  BY Zenon DEF Data
<1> HIDE DEF P, P2, q2, e
<1>4. \A n \in P2 : r >= q2[n].n + q2[n].left
  BY <1>1, <1>2, Zenon DEF Enough, P
<1>5. \A n \in P2 : q2[n].left >= m.left
  BY <1>1, <1>2, <1>3
<1>6. ASSUME NEW k \in P2, NEW n \in P2, k < n PROVE q2[k].left >= q2[n].n + q2[n].left
  <2>1. k \in P
    BY <1>1, <1>2, <1>6
  <2>2. CASE n = e
    BY <1>1, <1>2, <2>1, <2>2, Zenon
  <2>3. CASE n \in P
    BY <1>2, <1>6, <2>1, <2>3, Zenon DEF Falling, P
  <2> QED  BY <1>2, <2>2, <2>3, Zenon
<1> QED  BY <1>2, <1>4, <1>5, <1>6, Zenon DEF Enough, Leaving, Falling, P2, q2

\* The head leaves the link, and the data for intent i that is left moves up.
LEMMA PartsShift ==
  ASSUME NEW q \in Seq(Requests \cup Data), q # <<>>, NEW i
  PROVE  /\ \A n \in PartsOf(Tail(q), i) : n + 1 \in PartsOf(q, i) /\ Tail(q)[n] = q[n + 1]
         /\ \A n \in PartsOf(q, i) : n # 1 => n - 1 \in PartsOf(Tail(q), i)
         /\ 1 \in PartsOf(q, i) <=> IsPart(Head(q), i)
         /\ Tail(q) \in Seq(Requests \cup Data)
<1>1. /\ 1 \in DOMAIN q /\ q[1] = Head(q)
      /\ \A k \in DOMAIN Tail(q) : k + 1 \in DOMAIN q /\ Tail(q)[k] = q[k + 1]
      /\ \A k \in DOMAIN q : k # 1 => k - 1 \in DOMAIN Tail(q) /\ Tail(q)[k - 1] = q[k]
      /\ Tail(q) \in Seq(Requests \cup Data)
  BY TailAt, Zenon
<1>2. \A n \in PartsOf(Tail(q), i) : n + 1 \in PartsOf(q, i) /\ Tail(q)[n] = q[n + 1]
  BY <1>1, Zenon DEF PartsOf
<1>3. \A n \in PartsOf(q, i) : n # 1 => n - 1 \in PartsOf(Tail(q), i)
  BY <1>1, Zenon DEF PartsOf
<1>4. 1 \in PartsOf(q, i) <=> IsPart(Head(q), i)
  BY <1>1, Zenon DEF PartsOf, IsPart
<1> QED  BY <1>1, <1>2, <1>3, <1>4, Zenon


\* What is left of the data for intent i when the head leaves.
LEMMA PartsTail ==
  ASSUME NEW q \in Seq(Requests \cup Data), q # <<>>, NEW i, Falling(q, i)
  PROVE  /\ Falling(Tail(q), i)
         /\ \A l : Leaving(q, i, l) => Leaving(Tail(q), i, l)
         /\ \A r : Enough(q, i, r) => Enough(Tail(q), i, r)
         /\ ~ IsPart(Head(q), i) => (PartsOf(Tail(q), i) = {} <=> PartsOf(q, i) = {})
<1> DEFINE t == Tail(q)
           P == PartsOf(q, i)
           T == PartsOf(t, i)
<1>1. /\ \A n \in T : n + 1 \in P /\ t[n] = q[n + 1]
      /\ \A n \in P : n # 1 => n - 1 \in T
      /\ 1 \in P <=> IsPart(Head(q), i)
      /\ t \in Seq(Requests \cup Data)
  BY PartsShift, Zenon
<1>2. \A n \in T : n \in Nat
  BY <1>1, PartsTyped, Zenon
<1> HIDE DEF T, P, t
<1>3. \A k, n \in T : k < n => k + 1 < n + 1
  BY <1>2
<1>4. \A k, n \in T : k < n => t[k].left >= t[n].n + t[n].left
  BY <1>1, <1>3, Zenon DEF Falling, P
<1>5. \A l : Leaving(q, i, l) => \A n \in T : t[n].left >= l
  BY <1>1, Zenon DEF Leaving, P
<1>6. \A r : Enough(q, i, r) => \A n \in T : r >= t[n].n + t[n].left
  BY <1>1, Zenon DEF Enough, P
<1>7. ~ IsPart(Head(q), i) => (T = {} <=> P = {})
  BY <1>1, Zenon
<1> QED  BY <1>4, <1>5, <1>6, <1>7, Zenon DEF Leaving, Enough, Falling, P, T, t

\* Data for intent i is read: it fits, and what comes next fits after it.  A
\* part with nothing left to follow is the last one.
LEMMA PartsTake ==
  ASSUME NEW q \in Seq(Requests \cup Data), q # <<>>, NEW i, Falling(q, i),
         IsPart(Head(q), i), NEW r \in Int, Enough(q, i, r)
  PROVE  /\ r >= Head(q).n + Head(q).left
         /\ Enough(Tail(q), i, r - Head(q).n)
         /\ Head(q).left = 0 => PartsOf(Tail(q), i) = {}
         /\ \A l : Leaving(q, i, l) => Head(q).left >= l
         /\ Head(q).n \in Nat /\ Head(q).n > 0 /\ Head(q).left \in Nat
<1> DEFINE t == Tail(q)
           P == PartsOf(q, i)
           T == PartsOf(t, i)
<1>1. /\ \A n \in T : n + 1 \in P /\ t[n] = q[n + 1]
      /\ 1 \in P /\ q[1] = Head(q)
  BY PartsShift, TailAt, Zenon
<1>2. \A n \in P : n \in Nat /\ n >= 1 /\ q[n].n \in Nat /\ q[n].n > 0 /\ q[n].left \in Nat
  BY PartsTyped, Zenon
<1>3. \A n \in T : n \in Nat /\ n >= 1
  BY PartsShift, PartsTyped, Zenon
<1> HIDE DEF T, P, t
<1>4. Head(q).n \in Nat /\ Head(q).n > 0 /\ Head(q).left \in Nat
  BY <1>1, <1>2, Zenon
<1>5. r >= Head(q).n + Head(q).left /\ \A l : Leaving(q, i, l) => Head(q).left >= l
  BY <1>1, Zenon DEF Enough, Leaving, P
<1>6. ASSUME NEW n \in T
      PROVE  /\ Head(q).left >= t[n].n + t[n].left
             /\ t[n].n \in Nat /\ t[n].n > 0 /\ t[n].left \in Nat
  <2>1. 1 < n + 1 /\ n + 1 \in P /\ t[n] = q[n + 1]
    BY <1>1, <1>3
  <2> QED  BY <1>1, <1>2, <2>1, Zenon DEF Falling, P
<1>7. \A n \in T : r - Head(q).n >= t[n].n + t[n].left
  BY <1>4, <1>5, <1>6
<1>8. Head(q).left = 0 => T = {}
  BY <1>6
<1> QED  BY <1>4, <1>5, <1>7, <1>8, Zenon DEF Enough, T, t

(***************************************************************************)
(* The steps, and what the links and queues carry                          *)
(***************************************************************************)

\* The cases of a step.
LEMMA NextCases ==
  ASSUME [Next]_vars, NEW G,
         \A s \in Senders : Begin(s) => G,
         \A s \in Senders : Find(s) => G,
         \A s \in Senders : FindNone(s) => G,
         \A s \in Senders : ReqReset(s) => G,
         \A s \in Senders : ReqSend(s) => G,
         \A s \in Senders : ReqAnswered(s) => G,
         \A s \in Senders : ReqTimeout(s) => G,
         \A s \in Senders : SendChunk(s) => G,
         \A s \in Senders : TryFull(s) => G,
         \A s \in Senders : TxAborted(s) => G,
         RxIntent => G, RxReqAck => G, RxDone => G,
         RxReq => G, RxDataPart => G, RxData => G, RxDataIrq => G, RxDataIrqFull => G,
         RxDataIrqDefer => G,
         WorkReuse => G, WorkNew => G, WorkRefused => G,
         ThreadTake => G, ThreadDone => G, ThreadDefer => G, ThreadNew => G,
         ThreadAck => G, ThreadNoMem => G, ClientDone => G, Crash => G, vars' = vars => G
  PROVE  G
  BY Zenon DEF Next, SenderStep, RxA, RxB, Work, Thread

\* Sizes and intents are numbers.
LEMMA NumberSets ==
  /\ Sizes \subseteq Nat /\ Lens \subseteq Sizes /\ 0 \in Sizes /\ 1 \in Sizes
  /\ Ids \subseteq Nat \ {0} /\ Reusable \subseteq Ids
  /\ \A l \in Lens : l \in Nat /\ l > 0
  BY IntentsAssumption DEF Sizes, Ids, Reusable

\* The intent that the search finds.
LEMMA BestFree ==
  ASSUME Choice, NEW s \in Senders, Find(s)
  PROVE  Best(s) \in Ids /\ Best(s) \notin in_use /\ rsize[Best(s)] >= msg[s].left
  BY Zenon DEF Choice, Find, Fits

\* The intent that the thread makes.
LEMMA NewIdFree ==
  ASSUME Typed, Spare, thread.at = "new"
  PROVE  /\ nextId \in Ids /\ nextId \notin Reusable /\ thread \in News /\ thread.size \in Lens
         /\ ~ abort_tx
<1>1. thread \in News /\ thread.size \in Lens /\ thread # Idle
  BY DEF Typed, SideB, Steps, Uploads, News, Idle
<1>2. ~ abort_tx
  BY <1>1, Zenon DEF Typed, Dead
<1>3. nextId \in Nat /\ nextId > Base /\ nextId \in Ids
  BY Zenon DEF Typed, SideB, Spare
<1> QED  BY <1>1, <1>2, <1>3, IntentsAssumption DEF Reusable

\* Data is in the head of a link.
LEMMA HeadData ==
  ASSUME Typed, Got(ab, "DATA")
  PROVE  /\ ab # <<>> /\ ab \in Seq(Requests \cup Data) /\ Head(ab) \in Data
         /\ Head(ab).id \in Ids /\ Head(ab).n \in Nat /\ Head(ab).n > 0
         /\ Head(ab).left \in Nat /\ ~ abort_tx
<1>1. ab # <<>> /\ Head(ab).cmd = "DATA" /\ ab \in Seq(Requests \cup Data)
  BY Zenon DEF Got, Typed, Links
<1>2. Head(ab) \in Requests \cup Data
  BY <1>1, TailAt, Zenon
<1>3. ~ abort_tx
  BY <1>1, Zenon DEF Typed, Dead
<1> QED  BY <1>1, <1>2, <1>3, DataTyped, Zenon

\* The packets of the other link.
LEMMA BackTyped ==
  ASSUME NEW m \in Intents \cup Acks \cup Dones
  PROVE  /\ m.cmd \in {"INTENT", "ACK", "DONE"}
         /\ m.cmd = "INTENT" <=> m \in Intents
         /\ m.cmd = "ACK" <=> m \in Acks
         /\ m.cmd = "DONE" <=> m \in Dones
         /\ m.cmd = "INTENT" => m.id \in Ids /\ m.id \notin Reusable /\ m.size \in Lens
         /\ m.cmd = "ACK" => m.granted \in {0, 1}
         /\ m.cmd = "DONE" => m.id \in Ids
  BY Zenon DEF Intents, Acks, Dones

\* The message that side A reads next.
LEMMA HeadBack ==
  ASSUME Typed, ba # <<>>
  PROVE  Head(ba) \in Intents \cup Acks \cup Dones /\ ~ abort_tx
         /\ ba \in Seq(Intents \cup Acks \cup Dones)
<1>1. ba \in Seq(Intents \cup Acks \cup Dones)
  BY Zenon DEF Typed, Links
<1>2. Head(ba) \in Intents \cup Acks \cup Dones
  BY <1>1, TailAt, Zenon
<1>3. ~ abort_tx
  BY Zenon DEF Typed, Dead
<1> QED  BY <1>1, <1>2, <1>3, Zenon

\* What is queued for the thread.
LEMMA EntryTyped ==
  ASSUME NEW e \in Uploads \cup News
  PROVE  /\ e.at \in {"data", "irq_done", "new"}
         /\ e.at = "new" <=> e \in News
         /\ e.at # "new" <=> e \in Uploads
         /\ e.at = "new" => e.size \in Lens
         /\ e.at # "new" => e.id \in Ids
         /\ e \in Steps
  BY Zenon DEF Uploads, News, Steps

\* The entry that the thread takes next.
LEMMA HeadQueue ==
  ASSUME Typed, rx_queue # <<>>
  PROVE  Head(rx_queue) \in Uploads \cup News /\ ~ abort_tx
         /\ rx_queue \in Seq(Uploads \cup News)
<1>1. rx_queue \in Seq(Uploads \cup News)
  BY Zenon DEF Typed, SideB
<1>2. Head(rx_queue) \in Uploads \cup News
  BY <1>1, TailAt, Zenon
<1>3. ~ abort_tx
  BY Zenon DEF Typed, Dead
<1> QED  BY <1>1, <1>2, <1>3, Zenon

\* What the thread has given to the client.
LEMMA ThreadTyped ==
  ASSUME Typed
  PROVE  /\ thread.at \in {"data", "irq_done"} => thread \in Uploads /\ thread.id \in Ids
         /\ thread # Idle => ~ abort_tx
         /\ thread.at # "idle" => thread # Idle
<1>1. thread \in Steps
  BY Zenon DEF Typed, SideB
<1>2. thread.at \in {"data", "irq_done"} => thread \in Uploads /\ thread.id \in Ids
  BY <1>1 DEF Steps, Idle, Uploads, News
<1>3. thread # Idle => ~ abort_tx
  BY Zenon DEF Typed, Dead
<1>4. thread.at # "idle" => thread # Idle
  BY DEF Idle
<1> QED  BY <1>2, <1>3, <1>4, Zenon

(***************************************************************************)
(* Types                                                                   *)
(***************************************************************************)

\* The flags keep their type.
LEMMA FlagsStep ==
  ASSUME Flags, [Next]_vars
  PROVE  Flags'
<1>1. UNCHANGED <<received, abort_tx>> => Flags'
  BY Zenon DEF Flags
<1> USE DEF req, aVars, bVars
<1>2. \A s \in Senders :
        Begin(s) \/ Find(s) \/ FindNone(s) \/ ReqSend(s) \/ ReqAnswered(s)
        \/ ReqTimeout(s) \/ SendChunk(s) \/ TryFull(s) \/ TxAborted(s)
        => UNCHANGED <<received, abort_tx>>
  BY Zenon DEF Begin, Find, FindNone, ReqSend, ReqAnswered, ReqTimeout, SendChunk, TryFull, TxAborted
<1>3. RxReqAck \/ RxReq \/ RxDataPart \/ RxData \/ RxDataIrq \/ RxDataIrqFull
      \/ RxDataIrqDefer \/ WorkReuse \/ WorkNew \/ WorkRefused => UNCHANGED <<received, abort_tx>>
  BY Zenon DEF RxReqAck, RxReq, RxDataPart, RxData, RxDataIrq, RxDataIrqFull, RxDataIrqDefer,
         WorkReuse, WorkNew, WorkRefused
<1>4. ThreadTake \/ ThreadDone \/ ThreadDefer \/ ThreadNew \/ ThreadAck \/ ThreadNoMem
      \/ ClientDone \/ vars' = vars => UNCHANGED <<received, abort_tx>>
  BY Zenon DEF ThreadTake, ThreadDone, ThreadDefer, ThreadNew, ThreadAck, ThreadNoMem, ClientDone, vars
<1>5. \A s \in Senders : ReqReset(s) => Flags'
  BY Zenon DEF ReqReset, Flags
<1>6. RxIntent => Flags'
  BY Zenon DEF RxIntent, Flags
<1>7. RxDone => Flags'
  BY ZenonT(30) DEF RxDone, Flags
<1>8. Crash => Flags'
  BY Zenon DEF Crash, Flags
<1> HIDE DEF req, aVars, bVars
<1> QED  BY <1>1, <1>2, <1>3, <1>4, <1>5, <1>6, <1>7, <1>8, NextCases, Zenon

\* The tables keep their type, and nothing is written beyond the end of a buffer.
LEMMA TablesStep ==
  ASSUME Typed, Choice, Spare, ~ abort_tx => Whole, [Next]_vars
  PROVE  Tables'
<1> DEFINE Kept == UNCHANGED <<rsize, lsize, offset, in_use, held>>
<1>0. Tables /\ Flags
  BY Zenon DEF Typed
<1>a. Kept => Tables'
  BY <1>0, Zenon DEF Tables
<1> USE DEF req, aVars, bVars
<1>b. ASSUME NEW i \in Ids, NEW z \in Nat, z <= lsize[i], offset' = [offset EXCEPT ![i] = z],
             UNCHANGED <<rsize, lsize, in_use>>, held' \subseteq Ids
      PROVE  Tables'
  <2>1. offset' \in [Ids -> Nat]
    BY <1>0, <1>b, Zenon DEF Tables
  <2>2. ASSUME NEW j \in Ids PROVE offset'[j] <= lsize'[j]
    BY <1>0, <1>b, Zenon DEF Tables
  <2> QED  BY <1>0, <1>b, <2>1, <2>2 DEF Tables
<1>c. ASSUME NEW i \in Ids, offset' = [offset EXCEPT ![i] = 0], Unlist(i),
             UNCHANGED <<rsize, in_use>>, held' \subseteq Ids
      PROVE  Tables'
  <2>1. offset' \in [Ids -> Nat] /\ lsize' \in [Ids -> Sizes]
    BY <1>0, <1>c, NumberSets, Zenon DEF Tables, Unlist
  <2>2. ASSUME NEW j \in Ids PROVE offset'[j] <= lsize'[j]
    <3>1. CASE j = i
      <4>1. offset'[j] = 0 /\ lsize'[j] \in Nat
        BY <1>0, <1>c, <2>1, <3>1, NumberSets, Zenon DEF Tables
      <4> QED  BY <4>1
    <3>2. CASE j # i
      <4>1. offset'[j] = offset[j] /\ lsize'[j] = lsize[j]
        BY <1>0, <1>c, <3>2, Zenon DEF Tables, Unlist
      <4> QED  BY <1>0, <4>1, Zenon DEF Tables
    <3> QED  BY <3>1, <3>2, Zenon
  <2> QED  BY <1>0, <1>c, <2>1, <2>2 DEF Tables
<1>1. \A s \in Senders :
        Begin(s) \/ FindNone(s) \/ ReqReset(s) \/ ReqSend(s) \/ ReqAnswered(s)
        \/ ReqTimeout(s) \/ SendChunk(s) => Kept
  BY Zenon DEF Begin, FindNone, ReqReset, ReqSend, ReqAnswered, ReqTimeout, SendChunk
<1>2. RxReqAck \/ RxReq \/ WorkReuse \/ WorkNew \/ WorkRefused => Kept
  BY Zenon DEF RxReqAck, RxReq, WorkReuse, WorkNew, WorkRefused
<1>3. ThreadDefer \/ ThreadAck \/ ThreadNoMem \/ vars' = vars => Kept
  BY Zenon DEF ThreadDefer, ThreadAck, ThreadNoMem, vars
<1>4. ASSUME NEW s \in Senders, Find(s) PROVE Tables'
  <2>1. Best(s) \in Ids
    BY <1>4, BestFree, Zenon
  <2> QED  BY <1>0, <1>4, <2>1, Zenon DEF Find, Tables
<1>5. ASSUME NEW s \in Senders, TryFull(s) \/ TxAborted(s) PROVE Tables'
  BY <1>0, <1>5, Zenon DEF TryFull, TxAborted, Tables
<1>6. ASSUME RxIntent PROVE Tables'
  <2>1. Head(ba).id \in Ids /\ Head(ba).size \in Sizes
    BY <1>6, HeadBack, BackTyped, NumberSets, Zenon DEF RxIntent, Got
  <2>2. PICK z \in Sizes : rsize' = [rsize EXCEPT ![Head(ba).id] = z]
    BY <1>6, <2>1, NumberSets, Zenon DEF RxIntent
  <2> QED  BY <1>0, <1>6, <2>1, <2>2 DEF RxIntent, Tables
<1>7. ASSUME RxDone PROVE Tables'
  BY <1>0, <1>7, NumberSets, Zenon DEF RxDone, Tables
<1>8. ASSUME RxDataPart \/ RxData PROVE Tables'
  <2> DEFINE m == Head(ab)
  <2>1. m.id \in Ids /\ m.n \in Nat
    BY <1>8, HeadData, Zenon DEF RxDataPart, RxData
  <2>2. lsize[m.id] \in Nat /\ offset[m.id] \in Nat
    BY <1>0, <2>1, NumberSets, Zenon DEF Tables
  <2>3. /\ UNCHANGED <<rsize, lsize, in_use, held>>
        /\ offset' = offset \/ (Lands(m) /\ offset' = [offset EXCEPT ![m.id] = offset[m.id] + m.n])
    BY <1>8, Zenon DEF RxDataPart, RxData
  <2>4. offset' = offset => Tables'
    BY <1>a, <2>3, Zenon
  <2>5. Lands(m) => offset[m.id] + m.n \in Nat /\ offset[m.id] + m.n <= lsize[m.id]
    BY <2>1, <2>2 DEF Lands
  <2>6. held' \subseteq Ids
    BY <1>0, <2>3, Zenon DEF Tables
  <2> HIDE DEF m
  <2> QED  BY <1>b, <2>1, <2>3, <2>4, <2>5, <2>6
<1>10. ASSUME RxDataIrq \/ RxDataIrqFull PROVE Tables'
  <2>1. Head(ab).id \in Ids
    BY <1>10, HeadData, Zenon DEF RxDataIrq, RxDataIrqFull, InIrq
  <2>2. held' \subseteq Ids
    BY <1>0, <1>10, Zenon DEF RxDataIrq, RxDataIrqFull, Tables
  <2> QED  BY <1>c, <1>10, <2>1, <2>2 DEF RxDataIrq, RxDataIrqFull, InIrq
<1>11. ASSUME RxDataIrqDefer PROVE Tables'
  <2>1. Head(ab).id \in Ids
    BY <1>11, HeadData, Zenon DEF RxDataIrqDefer, InIrq
  <2>2. held' \subseteq Ids
    BY <1>0, <1>11, <2>1 DEF RxDataIrqDefer, Tables
  <2>3. lsize[Head(ab).id] \in Nat
    BY <1>0, <2>1, NumberSets, Zenon DEF Tables
  <2>4. 0 \in Nat /\ 0 <= lsize[Head(ab).id]
    BY <2>3
  <2> QED  BY <1>b, <1>11, <2>1, <2>2, <2>4, Zenon DEF RxDataIrqDefer, InIrq
<1>12. ASSUME ThreadTake PROVE Tables'
  <2>1. Head(rx_queue).at # "new" => Head(rx_queue).id \in Ids
    BY <1>12, HeadQueue, EntryTyped, Zenon DEF ThreadTake
  <2> QED  BY <1>0, <1>12, <2>1, Zenon DEF ThreadTake, Tables
<1>13. ASSUME NEW i \in Ids, GiveBack(i), UNCHANGED <<rsize, in_use>> PROVE Tables'
  <2>1. held' \subseteq Ids
    BY <1>0, <1>13, Zenon DEF GiveBack, Tables
  <2> QED  BY <1>c, <1>13, <2>1, Zenon DEF GiveBack
<1>14. ThreadDone => Tables'
  <2> SUFFICES ASSUME ThreadDone PROVE Tables'
    BY Zenon
  <2>1. thread.id \in Ids
    BY ThreadTyped, Zenon DEF ThreadDone
  <2> QED  BY <1>13, <2>1, Zenon DEF ThreadDone
<1>15. ClientDone => Tables'
  <2> SUFFICES ASSUME ClientDone PROVE Tables'
    BY Zenon
  <2>1. PICK i \in held : GiveBack(i)
    BY Zenon DEF ClientDone
  <2>2. i \in Ids
    BY <1>0, Zenon DEF Tables
  <2> QED  BY <1>13, <2>1, <2>2 DEF ClientDone
<1>16. ASSUME ThreadNew PROVE Tables'
  <2>1. nextId \in Ids /\ thread.size \in Lens
    BY <1>16, NewIdFree, Zenon DEF ThreadNew
  <2>2. thread.size \in Sizes /\ thread.size \in Nat
    BY <2>1, NumberSets, Zenon
  <2>3. lsize' = [lsize EXCEPT ![nextId] = thread.size] /\ UNCHANGED <<rsize, offset, in_use, held>>
    BY <1>16, Zenon DEF ThreadNew
  <2>4. lsize[nextId] = 0
    <3>1. Known(nextId)
      BY <1>16, <2>1, NewIdFree, Zenon DEF ThreadNew, Whole, Good
    <3> QED  BY <2>1, <3>1, NumberSets DEF Known
  <2>5. ASSUME NEW j \in Ids PROVE offset'[j] <= lsize'[j]
    BY <1>0, <2>1, <2>2, <2>3, <2>4, NumberSets DEF Tables
  <2> QED  BY <1>0, <2>1, <2>2, <2>3, <2>5, SMTT(20) DEF Tables
<1>17. Crash => Tables'
  BY <1>0, Zenon DEF Crash, Tables
<1> HIDE DEF req, aVars, bVars, Kept
<1> QED  BY <1>a, <1>1, <1>2, <1>3, <1>4, <1>5, <1>6, <1>7, <1>8, <1>10, <1>11, <1>12,
            <1>14, <1>15, <1>16, <1>17, NextCases, Zenon

\* The calls of the senders keep their type.
LEMMA CallersStep ==
  ASSUME Typed, Choice, [Next]_vars
  PROVE  Callers'
<1> DEFINE Kept == UNCHANGED <<pc, result, reqs, msg>>
<1>0. Callers
  BY Zenon DEF Typed
<1>a. Kept => Callers'
  BY <1>0, Zenon DEF Callers
\* A sender that goes on with its message, or returns.
<1>b. ASSUME NEW s \in Senders, NEW a, NEW b \in {"find", "req", "tx", "wait"},
             a \in {"find", "req", "tx", "wait"}, Goto(s, a, b), UNCHANGED msg,
             result' \in -1..1, reqs' \in 0..MaxReqs
      PROVE  Callers'
  BY <1>0, <1>b, Zenon DEF Callers, Goto
<1>c. ASSUME NEW s \in Senders, NEW a, Return(s, a), UNCHANGED <<result, reqs>>
      PROVE  Callers'
  BY <1>0, <1>c, IntentsAssumption, Zenon DEF Callers, Return, Goto, NoMsg
<1>d. result \in -1..1 /\ reqs \in 0..MaxReqs
  BY <1>0, Zenon DEF Callers
<1> USE DEF req, aVars, bVars
<1>1. RxIntent \/ RxDone \/ RxReq \/ RxDataPart \/ RxData \/ RxDataIrq \/ RxDataIrqFull
      \/ RxDataIrqDefer \/ WorkReuse \/ WorkNew \/ WorkRefused => Kept
  BY Zenon DEF RxIntent, RxDone, RxReq, RxDataPart, RxData, RxDataIrq, RxDataIrqFull, RxDataIrqDefer,
         WorkReuse, WorkNew, WorkRefused
<1>2. ThreadTake \/ ThreadDone \/ ThreadDefer \/ ThreadNew \/ ThreadAck \/ ThreadNoMem
      \/ ClientDone \/ Crash \/ vars' = vars => Kept
  BY Zenon DEF ThreadTake, ThreadDone, ThreadDefer, ThreadNew, ThreadAck, ThreadNoMem, ClientDone,
         Crash, vars
<1>3. ASSUME NEW s \in Senders, Begin(s) PROVE Callers'
  <2>1. PICK l \in Lens, w \in BOOLEAN :
          msg' = [msg EXCEPT ![s] = [left |-> l, use |-> 0, wait |-> w]]
    BY <1>3, Zenon DEF Begin
  <2>2. l \in Nat /\ l > 0
    BY NumberSets, Zenon
  <2>3. pc' = [pc EXCEPT ![s] = "find"] /\ UNCHANGED <<result, reqs>>
    BY <1>3, Zenon DEF Begin, Goto
  <2> QED  BY <1>0, <2>1, <2>2, <2>3, Zenon DEF Callers
<1>4. ASSUME NEW s \in Senders, Find(s) PROVE Callers'
  <2>1. Best(s) \in Ids
    BY <1>4, BestFree, Zenon
  <2>2. /\ pc[s] = "find" /\ pc' = [pc EXCEPT ![s] = "data"]
        /\ msg' = [msg EXCEPT ![s].use = Best(s)] /\ UNCHANGED <<result, reqs>>
    BY <1>4, Zenon DEF Find, Goto
  <2> QED  BY <1>0, <2>1, <2>2 DEF Callers
<1>5. ASSUME NEW s \in Senders, FindNone(s) PROVE Callers'
  BY <1>b, <1>c, <1>d, <1>5, Zenon DEF FindNone
<1>6. ASSUME NEW s \in Senders, ReqReset(s) PROVE Callers'
  <2>1. reqs' \in 0..MaxReqs /\ result' \in -1..1
    BY <1>0, <1>6, IntentsAssumption DEF ReqReset, Callers
  <2> QED  BY <1>b, <1>6, <2>1, Zenon DEF ReqReset
<1>7. ASSUME NEW s \in Senders, ReqSend(s) PROVE Callers'
  BY <1>b, <1>d, <1>7, Zenon DEF ReqSend
<1>8. ASSUME NEW s \in Senders, ReqAnswered(s) \/ ReqTimeout(s) PROVE Callers'
  BY <1>b, <1>c, <1>d, <1>8, Zenon DEF ReqAnswered, ReqTimeout
<1>9. ASSUME NEW s \in Senders, SendChunk(s) PROVE Callers'
  <2> DEFINE left == msg[s].left - (IF msg[s].wait THEN 1 ELSE msg[s].left)
  <2>1. pc[s] = "data"
    BY <1>9, Zenon DEF SendChunk, Goto, Return
  <2>2. msg[s].left \in Nat /\ msg[s].left > 0 /\ msg[s].wait \in BOOLEAN
    BY <1>0, <2>1, Zenon DEF Callers
  <2>3. left \in Nat
    BY <2>2
  <2>4. /\ UNCHANGED <<result, reqs>>
        /\ \/ left > 0 /\ pc' = [pc EXCEPT ![s] = "data"] /\ msg' = [msg EXCEPT ![s].left = left]
           \/ Return(s, "data")
    BY <1>9, Zenon DEF SendChunk, Goto
  <2> HIDE DEF left
  <2>5. left > 0 /\ pc' = [pc EXCEPT ![s] = "data"] /\ msg' = [msg EXCEPT ![s].left = left]
        => Callers'
    BY <1>0, <2>1, <2>3, <2>4 DEF Callers
  <2> QED  BY <1>c, <2>4, <2>5, Zenon
<1>10. ASSUME NEW s \in Senders, TryFull(s) \/ TxAborted(s) PROVE Callers'
  BY <1>c, <1>10, Zenon DEF TryFull, TxAborted
<1>11. ASSUME RxReqAck PROVE Callers'
  <2>1. Head(ba).granted \in {0, 1}
    BY <1>11, HeadBack, BackTyped, Zenon DEF RxReqAck, Got
  <2> QED  BY <1>0, <1>11, <2>1 DEF RxReqAck, Callers
<1> HIDE DEF req, aVars, bVars, Kept
<1> QED  BY <1>a, <1>1, <1>2, <1>3, <1>4, <1>5, <1>6, <1>7, <1>8, <1>9, <1>10, <1>11,
            NextCases, Zenon

\* The links carry packets only.
LEMMA LinksStep ==
  ASSUME Typed, Spare, [Next]_vars
  PROVE  Links'
<1> DEFINE Kept == UNCHANGED <<ab, ba>>
           A == Requests \cup Data
           B == Intents \cup Acks \cup Dones
<1>0. Links /\ ab \in Seq(A) /\ ba \in Seq(B)
  BY Zenon DEF Typed, Links
<1>a. Kept => Links'
  BY <1>0, Zenon DEF Links
<1>b. \A m \in A : ab' = Append(ab, m) => ab' \in Seq(A)
  BY <1>0
<1>c. \A m \in B : ba' = Append(ba, m) => ba' \in Seq(B)
  BY <1>0
<1>d. ab # <<>> /\ ab' = Tail(ab) => ab' \in Seq(A)
  BY <1>0
<1>e. ba # <<>> /\ ba' = Tail(ba) => ba' \in Seq(B)
  BY <1>0
<1>f. ab' \in Seq(A) /\ ba' \in Seq(B) => Links'
  BY Zenon DEF Links
<1>g. \A i \in Ids : [cmd |-> "DONE", id |-> i] \in B
  BY Zenon DEF Dones
<1>h. [cmd |-> "ACK", granted |-> 1] \in B /\ [cmd |-> "ACK", granted |-> 0] \in B
  BY Zenon DEF Acks
<1> HIDE DEF A, B
<1> USE DEF req, aVars, bVars
<1>1. \A s \in Senders :
        Begin(s) \/ Find(s) \/ FindNone(s) \/ ReqReset(s) \/ ReqAnswered(s)
        \/ ReqTimeout(s) \/ TryFull(s) \/ TxAborted(s) => Kept
  BY Zenon DEF Begin, Find, FindNone, ReqReset, ReqAnswered, ReqTimeout, TryFull, TxAborted
<1>2. WorkNew \/ ThreadTake \/ ThreadDefer \/ ThreadNoMem \/ vars' = vars => Kept
  BY Zenon DEF WorkNew, ThreadTake, ThreadDefer, ThreadNoMem, vars
<1>3. ASSUME NEW s \in Senders, ReqSend(s) PROVE Links'
  <2>1. [cmd |-> "REQ", size |-> msg[s].left] \in A
    BY <1>3, Zenon DEF ReqSend, Goto, Typed, Callers, A, Requests
  <2> QED  BY <1>0, <1>3, <1>b, <1>f, <2>1, Zenon DEF ReqSend
<1>4. ASSUME NEW s \in Senders, SendChunk(s) PROVE Links'
  <2> DEFINE n == IF msg[s].wait THEN 1 ELSE msg[s].left
             left == msg[s].left - n
  <2>1. pc[s] = "data"
    BY <1>4, Zenon DEF SendChunk, Goto, Return
  <2>2. msg[s].left \in Nat /\ msg[s].left > 0 /\ msg[s].wait \in BOOLEAN /\ msg[s].use \in Ids
    BY <2>1, Zenon DEF Typed, Callers
  <2>3. n \in Nat \ {0} /\ left \in Nat
    BY <2>2
  <2>4. ab' = Append(ab, [cmd |-> "DATA", id |-> msg[s].use, n |-> n, left |-> left]) /\ ba' = ba
    BY <1>4, Zenon DEF SendChunk
  <2> HIDE DEF n, left
  <2>5. [cmd |-> "DATA", id |-> msg[s].use, n |-> n, left |-> left] \in A
    BY <2>2, <2>3, Zenon DEF A, Data
  <2> QED  BY <1>0, <1>b, <1>f, <2>4, <2>5, Zenon
<1>5. RxIntent \/ RxReqAck \/ RxDone => Links'
  BY <1>0, <1>e, <1>f, Zenon DEF RxIntent, RxReqAck, RxDone, Got
<1>6. RxReq \/ RxDataPart \/ RxData \/ RxDataIrqFull \/ RxDataIrqDefer => Links'
  BY <1>0, <1>d, <1>f, Zenon DEF RxReq, RxDataPart, RxData, RxDataIrqFull, RxDataIrqDefer, InIrq, Got
<1>7. ASSUME RxDataIrq PROVE Links'
  <2>1. Head(ab).id \in Ids
    BY <1>7, HeadData, Zenon DEF RxDataIrq, InIrq
  <2> QED  BY <1>7, <2>1, <1>c, <1>d, <1>f, <1>g, Zenon DEF RxDataIrq, InIrq, Got
<1>8. WorkReuse \/ WorkRefused \/ ThreadAck => Links'
  BY <1>0, <1>c, <1>f, <1>h, Zenon DEF WorkReuse, WorkRefused, ThreadAck
<1>9. ASSUME ThreadDone PROVE Links'
  <2>1. thread.id \in Ids
    BY <1>9, ThreadTyped, Zenon DEF ThreadDone
  <2> QED  BY <1>0, <1>9, <2>1, <1>c, <1>f, <1>g DEF ThreadDone, GiveBack
<1>10. ASSUME ClientDone PROVE Links'
  <2>1. PICK i \in held : GiveBack(i)
    BY <1>10, Zenon DEF ClientDone
  <2>2. i \in Ids /\ ab' = ab
    BY <1>10, Zenon DEF Typed, Tables, ClientDone
  <2> QED  BY <1>0, <2>1, <2>2, <1>c, <1>f, <1>g, Zenon DEF GiveBack
<1>11. ASSUME ThreadNew PROVE Links'
  <2>1. [cmd |-> "INTENT", id |-> nextId, size |-> thread.size] \in B
    BY <1>11, NewIdFree, Zenon DEF ThreadNew, B, Intents
  <2> QED  BY <1>0, <1>11, <2>1, <1>c, <1>f, Zenon DEF ThreadNew
<1>12. Crash => Links'
  BY DEF Crash, Links
<1> HIDE DEF req, aVars, bVars, Kept
<1> QED  BY <1>a, <1>1, <1>2, <1>3, <1>4, <1>5, <1>6, <1>7, <1>8, <1>9, <1>10, <1>11, <1>12,
            NextCases, Zenon

\* The queues of side B hold what they are for.
LEMMA SideBStep ==
  ASSUME Typed, [Next]_vars
  PROVE  SideB'
<1> DEFINE Kept == UNCHANGED <<work, rx_queue, thread, nextId>>
           E == Uploads \cup News
<1>0. SideB /\ work \in Seq(Lens) /\ rx_queue \in Seq(E) /\ thread \in Steps
      /\ nextId \in Nat /\ nextId > Base
  BY Zenon DEF Typed, SideB
<1>a. Kept => SideB'
  BY <1>0, Zenon DEF SideB
<1>b. work' \in Seq(Lens) /\ rx_queue' \in Seq(E) /\ thread' \in Steps /\ nextId' = nextId
      => SideB'
  BY <1>0, Zenon DEF SideB
<1>c. \A e \in E : rx_queue' = Append(rx_queue, e) => rx_queue' \in Seq(E)
  BY <1>0
<1>d. rx_queue # <<>> /\ rx_queue' = Tail(rx_queue) => rx_queue' \in Seq(E)
  BY <1>0
<1>e. work # <<>> /\ work' = Tail(work) => work' \in Seq(Lens)
  BY <1>0
<1>f. \A i \in Ids : [at |-> "data", id |-> i] \in E /\ [at |-> "irq_done", id |-> i] \in E
  BY Zenon DEF Uploads
<1>g. Idle \in Steps /\ [at |-> "deferred"] \in Steps /\ [at |-> "ack"] \in Steps
  BY Zenon DEF Steps
<1> HIDE DEF E
<1> USE DEF req, aVars, bVars
<1>1. \A s \in Senders :
        Begin(s) \/ Find(s) \/ FindNone(s) \/ ReqReset(s) \/ ReqSend(s) \/ ReqAnswered(s)
        \/ ReqTimeout(s) \/ SendChunk(s) \/ TryFull(s) \/ TxAborted(s) => Kept
  BY DEF Begin, Find, FindNone, ReqReset, ReqSend, ReqAnswered, ReqTimeout, SendChunk, TryFull,
         TxAborted
<1>2. RxIntent \/ RxReqAck \/ RxDone \/ RxDataPart \/ RxDataIrq \/ RxDataIrqDefer
      \/ vars' = vars => Kept
  BY Zenon DEF RxIntent, RxReqAck, RxDone, RxDataPart, RxDataIrq, RxDataIrqDefer, vars
<1>3. ASSUME RxReq PROVE SideB'
  <2>1. ab # <<>> /\ ab \in Seq(Requests \cup Data) /\ Head(ab).cmd = "REQ"
    BY <1>3, Zenon DEF RxReq, Got, Typed, Links
  <2>2. Head(ab).size \in Lens
    BY <2>1, TailAt, DataTyped, Zenon
  <2>3. work' \in Seq(Lens)
    BY <1>0, <1>3, <2>2 DEF RxReq
  <2> QED  BY <1>0, <1>3, <1>b, <2>3, Zenon DEF RxReq
<1>4. ASSUME RxData PROVE SideB'
  <2>1. Head(ab).id \in Ids
    BY <1>4, HeadData, Zenon DEF RxData
  <2> QED  BY <1>0, <1>4, <1>b, <1>c, <1>f, <2>1, Zenon DEF RxData
<1>5. ASSUME RxDataIrqFull PROVE SideB'
  <2>1. Head(ab).id \in Ids
    BY <1>5, HeadData, Zenon DEF RxDataIrqFull, InIrq
  <2>2. rx_queue' \in Seq(E)
    <3>1. \A e \in E : <<e>> \in Seq(E)
      OBVIOUS
    <3>2. [at |-> "irq_done", id |-> Head(ab).id] \in E
      BY <1>f, <2>1, Zenon
    <3> QED  BY <1>5, <3>1, <3>2, Zenon DEF RxDataIrqFull
  <2> QED  BY <1>0, <1>5, <1>b, <2>2 DEF RxDataIrqFull
<1>6. WorkReuse \/ WorkRefused => SideB'
  BY <1>0, <1>b, <1>e, Zenon DEF WorkReuse, WorkRefused
<1>7. ASSUME WorkNew PROVE SideB'
  <2>1. Head(work) \in Lens
    BY <1>0, <1>7, TailAt, Zenon DEF WorkNew
  <2>2. [at |-> "new", size |-> Head(work)] \in E
    BY <2>1, Zenon DEF E, News
  <2> QED  BY <1>0, <1>7, <1>b, <1>c, <1>e, <2>2 DEF WorkNew
<1>8. ASSUME ThreadTake PROVE SideB'
  <2>1. Head(rx_queue) \in Steps
    BY <1>8, HeadQueue, EntryTyped DEF ThreadTake
  <2> QED  BY <1>0, <1>8, <1>b, <1>d, <2>1 DEF ThreadTake
<1>9. ThreadDone \/ ThreadDefer \/ ThreadAck => SideB'
  BY <1>0, <1>b, <1>g, Zenon DEF ThreadDone, ThreadDefer, ThreadAck
<1>10. ClientDone => SideB'
  BY <1>0, <1>b, <1>g DEF ClientDone
<1>11. ThreadNew => SideB'
  BY <1>0, <1>g, IntentsAssumption DEF ThreadNew, SideB, E
<1>12. ASSUME ThreadNoMem PROVE SideB'
  <2>1. thread \in E
    BY <1>0, <1>12 DEF ThreadNoMem, Steps, E, Uploads, Idle
  <2>2. rx_queue' \in Seq(E)
    BY <1>0, <1>12, <2>1 DEF ThreadNoMem
  <2> QED  BY <1>0, <1>12, <1>b, <1>g, <2>2, Zenon DEF ThreadNoMem
<1>13. Crash => SideB'
  BY <1>0, <1>g, <1>b DEF Crash
<1> HIDE DEF req, aVars, bVars, Kept
<1> QED  BY <1>a, <1>1, <1>2, <1>3, <1>4, <1>5, <1>6, <1>7, <1>8, <1>9, <1>10, <1>11, <1>12,
            <1>13, NextCases, Zenon

\* intent_req_lock is held by the sender that requests an intent.
LEMMA LockedStep ==
  ASSUME Typed, [Next]_vars
  PROVE  Locked'
<1>0. /\ lock \in {None} \cup Senders /\ None \notin Senders
      /\ \A s \in Senders : pc[s] \in {"tx", "wait"} <=> lock = s
      /\ pc \in [Senders -> {"idle", "find", "req", "tx", "wait", "data"}]
  BY IntentsAssumption, Zenon DEF Typed, Locked, Callers
<1>a. UNCHANGED <<lock, pc>> => Locked'
  BY <1>0, Zenon DEF Locked
\* A sender moves without the lock, with it, takes it or gives it up.
<1>b. ASSUME NEW s \in Senders, NEW a, NEW b, Goto(s, a, b), lock' = lock,
             a \in {"tx", "wait"} <=> b \in {"tx", "wait"}
      PROVE  Locked'
  BY <1>0, <1>b, Zenon DEF Locked, Goto
<1>c. ASSUME NEW s \in Senders, NEW a, NEW b, Goto(s, a, b), lock' = None,
             a \in {"tx", "wait"}, b \notin {"tx", "wait"}
      PROVE  Locked'
  BY <1>0, <1>c, Zenon DEF Locked, Goto
<1> USE DEF req, aVars, bVars
<1>1. \A s \in Senders : Begin(s) => Locked'
  BY <1>b, Zenon DEF Begin
<1>2. \A s \in Senders : Find(s) => Locked'
  BY <1>b, Zenon DEF Find
<1>3. \A s \in Senders : FindNone(s) => Locked'
  BY <1>b, Zenon DEF FindNone, Return
<1>4. ASSUME NEW s \in Senders, ReqReset(s) PROVE Locked'
  BY <1>0, <1>4, Zenon DEF ReqReset, Goto, Locked
<1>5. \A s \in Senders : ReqSend(s) => Locked'
  BY <1>b, Zenon DEF ReqSend
<1>6. \A s \in Senders : ReqAnswered(s) => Locked'
  BY <1>c, Zenon DEF ReqAnswered, Return
<1>7. \A s \in Senders : ReqTimeout(s) => Locked'
  BY <1>c, Zenon DEF ReqTimeout, Return
<1>8. \A s \in Senders : SendChunk(s) => Locked'
  BY <1>b, Zenon DEF SendChunk, Return
<1>9. \A s \in Senders : TryFull(s) => Locked'
  BY <1>b, Zenon DEF TryFull, Return
<1>10. ASSUME NEW s \in Senders, TxAborted(s) PROVE Locked'
  <2>1. CASE pc[s] = "tx"
    BY <1>c, <1>10, <2>1 DEF TxAborted, Return, Goto
  <2>2. CASE pc[s] # "tx"
    BY <1>b, <1>10, <2>2, Zenon DEF TxAborted, Return, Goto
  <2> QED  BY <2>1, <2>2, Zenon
<1>11. RxIntent \/ RxReqAck \/ RxDone \/ RxReq \/ RxDataPart \/ RxData \/ RxDataIrq
       \/ RxDataIrqFull \/ RxDataIrqDefer \/ WorkReuse \/ WorkNew \/ WorkRefused => Locked'
  BY <1>a, Zenon DEF RxIntent, RxReqAck, RxDone, RxReq, RxDataPart, RxData, RxDataIrq, RxDataIrqFull,
              RxDataIrqDefer, WorkReuse, WorkNew, WorkRefused
<1>12. ThreadTake \/ ThreadDone \/ ThreadDefer \/ ThreadNew \/ ThreadAck \/ ThreadNoMem
       \/ ClientDone \/ Crash \/ vars' = vars => Locked'
  BY <1>a, Zenon DEF ThreadTake, ThreadDone, ThreadDefer, ThreadNew, ThreadAck, ThreadNoMem, ClientDone,
              Crash, vars
<1> HIDE DEF req, aVars, bVars
<1> QED  BY <1>1, <1>2, <1>3, <1>4, <1>5, <1>6, <1>7, <1>8, <1>9, <1>10, <1>11, <1>12,
            NextCases, Zenon

\* What a step of side B, or a packet that is sent or received, needs.
LEMMA DeadStep ==
  ASSUME Typed, [Next]_vars
  PROVE  Dead'
<1>0. Dead /\ held \subseteq Ids /\ thread \in Steps
  BY Zenon DEF Typed, Tables, SideB
<1>a. ASSUME UNCHANGED <<abort_tx, ab, ba, work, rx_queue, thread, held>> PROVE Dead'
  BY <1>0, <1>a, Zenon DEF Dead
<1>b. ASSUME ~ abort_tx, abort_tx' = abort_tx PROVE Dead'
  BY <1>b, Zenon DEF Dead
<1>c. ab # <<>> \/ ba # <<>> \/ work # <<>> \/ rx_queue # <<>> \/ thread # Idle \/ held # {}
      => ~ abort_tx
  BY <1>0, Zenon DEF Dead
<1>d. thread.at \in {"data", "irq_done", "deferred", "new", "ack"} => thread # Idle
  BY DEF Idle
<1> USE DEF req, aVars, bVars
<1>1. \A s \in Senders :
        Begin(s) \/ Find(s) \/ FindNone(s) \/ ReqReset(s) \/ ReqAnswered(s)
        \/ ReqTimeout(s) \/ TryFull(s) \/ TxAborted(s) => Dead'
  BY <1>a, Zenon DEF Begin, Find, FindNone, ReqReset, ReqAnswered, ReqTimeout, TryFull, TxAborted
<1>2. \A s \in Senders : ReqSend(s) \/ SendChunk(s) => Dead'
  BY <1>b, Zenon DEF ReqSend, SendChunk
<1>3. RxIntent \/ RxReqAck \/ RxDone \/ RxReq \/ RxDataPart \/ RxData \/ RxDataIrq
      \/ RxDataIrqFull \/ RxDataIrqDefer => Dead'
  BY <1>b, <1>c, Zenon DEF RxIntent, RxReqAck, RxDone, RxReq, RxDataPart, RxData, RxDataIrq,
                    RxDataIrqFull, RxDataIrqDefer, InIrq, Got
<1>4. WorkReuse \/ WorkNew \/ WorkRefused \/ ThreadTake \/ ClientDone => Dead'
  BY <1>b, <1>c, Zenon DEF WorkReuse, WorkNew, WorkRefused, ThreadTake, ClientDone
<1>5. ThreadDone \/ ThreadDefer \/ ThreadNew \/ ThreadAck \/ ThreadNoMem => Dead'
  BY <1>b, <1>c, <1>d, Zenon DEF ThreadDone, ThreadDefer, ThreadNew, ThreadAck, ThreadNoMem
<1>6. Crash => Dead'
  BY Zenon DEF Crash, Dead
<1>7. vars' = vars => Dead'
  BY <1>a, Zenon DEF vars
<1> HIDE DEF req, aVars, bVars
<1> QED  BY <1>1, <1>2, <1>3, <1>4, <1>5, <1>6, <1>7, NextCases, Zenon

\* The types are kept, part by part.
LEMMA TypedStep ==
  ASSUME Typed, Choice, Spare, ~ abort_tx => Whole, [Next]_vars
  PROVE  Typed'
<1>1. Flags'
  BY FlagsStep, Zenon DEF Typed
<1> QED  BY <1>1, TablesStep, CallersStep, LinksStep, SideBStep, LockedStep, DeadStep, Zenon
            DEF Typed

(***************************************************************************)
(* The users of one intent                                                 *)
(***************************************************************************)

\* The entries that stand for a use of intent i.
Final(i) == {m \in Data : m.id = i /\ m.left = 0}
Load(i) == {e \in Uploads : e.id = i}
Returned(i) == {m \in Dones : m.id = i}

Placed ==
  \A i \in Ids :
    /\ Coming(i) = Places(ab, Final(i)) /\ Queued(i) = Places(rx_queue, Load(i))
    /\ Back(i) = Places(ba, Returned(i))

\* The uses of an intent are the places of these entries.
LEMMA PlacedIs == Typed => Placed
<1> SUFFICES ASSUME Typed PROVE Placed
  BY Zenon
<1>1. ab \in Seq(Requests \cup Data) /\ ba \in Seq(Intents \cup Acks \cup Dones)
      /\ rx_queue \in Seq(Uploads \cup News)
  BY Zenon DEF Typed, Links, SideB
<1>2. ASSUME NEW i \in Ids PROVE Coming(i) = Places(ab, Final(i))
  <2>1. \A n \in DOMAIN ab : ab[n] \in Requests \cup Data
    BY <1>1
  <2>2. \A n \in DOMAIN ab : ab[n].cmd = "DATA" <=> ab[n] \in Data
    BY <2>1, DataTyped, Zenon
  <2> QED  BY <2>2, Zenon DEF Coming, Parts, Places, Final
<1>3. ASSUME NEW i \in Ids PROVE Queued(i) = Places(rx_queue, Load(i))
  <2>1. \A n \in DOMAIN rx_queue : rx_queue[n] \in Uploads \cup News
    BY <1>1
  <2>2. \A n \in DOMAIN rx_queue : rx_queue[n].at # "new" <=> rx_queue[n] \in Uploads
    BY <2>1, EntryTyped, Zenon
  <2> QED  BY <2>2, Zenon DEF Queued, Places, Load
<1>4. ASSUME NEW i \in Ids PROVE Back(i) = Places(ba, Returned(i))
  <2>1. \A n \in DOMAIN ba : ba[n] \in Intents \cup Acks \cup Dones
    BY <1>1
  <2>2. \A n \in DOMAIN ba : ba[n].cmd = "DONE" <=> ba[n] \in Dones
    BY <2>1, BackTyped, Zenon
  <2> QED  BY <2>2, Zenon DEF Back, Places, Returned
<1> QED  BY <1>2, <1>3, <1>4, Zenon DEF Placed

\* What becomes of the places T of M when x joins or leaves the queue.
Joins(T, U, x, M) ==
  IF x \in M THEN U # {} /\ (T = {} => Lone(U)) ELSE U = T
Leaves(T, U, x, M) ==
  IF x \in M THEN T # {} /\ (Lone(T) => U = {}) ELSE Same(T, U)

\* Both at once: the places of M when the queue grows or is read.
LEMMA PlacesMove ==
  ASSUME NEW S, NEW q \in Seq(S), NEW r, NEW M
  PROVE  /\ \A x \in S : r = Append(q, x) => Joins(Places(q, M), Places(r, M), x, M)
         /\ q # <<>> /\ r = Tail(q) => Leaves(Places(q, M), Places(r, M), Head(q), M)
<1>1. ASSUME NEW x \in S, r = Append(q, x) PROVE Joins(Places(q, M), Places(r, M), x, M)
  BY <1>1, PlacesAppend DEF Joins
<1>2. ASSUME q # <<>>, r = Tail(q) PROVE Leaves(Places(q, M), Places(r, M), Head(q), M)
  BY <1>2, PlacesTail, Zenon DEF Leaves
<1> QED  BY <1>1, <1>2, Zenon

\* Parts looks at the link from A to B only.
LEMMA PartsAre == \A i : Parts(i) = PartsOf(ab, i) /\ Parts(i)' = PartsOf(ab', i)
  BY Zenon DEF Parts, PartsOf

\* A use joins or leaves the link from A to B.
LEMMA ComingMoves ==
  ASSUME Typed, Typed', NEW i \in Ids
  PROVE  /\ \A m \in Requests \cup Data : ab' = Append(ab, m) =>
              Joins(Coming(i), Coming(i)', m, Final(i))
         /\ ab # <<>> /\ ab' = Tail(ab) =>
              Leaves(Coming(i), Coming(i)', Head(ab), Final(i))
<1>1. ab \in Seq(Requests \cup Data)
  BY Zenon DEF Typed, Links
<1>2. Placed /\ Placed'
  BY PlacedIs, PTL
<1>3. Coming(i) = Places(ab, Final(i)) /\ Coming(i)' = Places(ab', Final(i))
  BY <1>2, Zenon DEF Placed
<1> QED  BY <1>1, <1>3, PlacesMove, Zenon

\* A use joins or leaves the queue of the thread.
LEMMA QueuedMoves ==
  ASSUME Typed, Typed', NEW i \in Ids
  PROVE  /\ \A e \in Uploads \cup News : rx_queue' = Append(rx_queue, e) =>
              Joins(Queued(i), Queued(i)', e, Load(i))
         /\ \A e \in News : rx_queue' = <<e>> \o rx_queue => Same(Queued(i), Queued(i)')
         /\ rx_queue # <<>> /\ rx_queue' = Tail(rx_queue) =>
              Leaves(Queued(i), Queued(i)', Head(rx_queue), Load(i))
<1>1. rx_queue \in Seq(Uploads \cup News) /\ rx_queue' \in Seq(Uploads \cup News)
  BY Zenon DEF Typed, SideB
<1>2. Placed /\ Placed'
  BY PlacedIs, PTL
<1>3. Queued(i) = Places(rx_queue, Load(i)) /\ Queued(i)' = Places(rx_queue', Load(i))
  BY <1>2, Zenon DEF Placed
<1>4. ASSUME NEW e \in News, rx_queue' = <<e>> \o rx_queue PROVE Same(Queued(i), Queued(i)')
  <2>1. rx_queue' # <<>> /\ Tail(rx_queue') = rx_queue /\ Head(rx_queue') = e
    BY <1>1, <1>4
  <2>2. e \notin Load(i)
    BY Zenon DEF News, Load, Uploads
  <2>3. Same(Places(rx_queue', Load(i)), Places(rx_queue, Load(i)))
    BY <1>1, <2>1, <2>2, PlacesTail, Zenon
  <2> QED  BY <1>3, <2>3, Zenon DEF Same
<1> QED  BY <1>1, <1>3, <1>4, PlacesMove, Zenon

\* An intent is returned, and arrives.
LEMMA BackMoves ==
  ASSUME Typed, Typed', NEW i \in Ids
  PROVE  /\ \A m \in Intents \cup Acks \cup Dones : ba' = Append(ba, m) =>
              Joins(Back(i), Back(i)', m, Returned(i))
         /\ ba # <<>> /\ ba' = Tail(ba) =>
              Leaves(Back(i), Back(i)', Head(ba), Returned(i))
<1>1. ba \in Seq(Intents \cup Acks \cup Dones)
  BY Zenon DEF Typed, Links
<1>2. Placed /\ Placed'
  BY PlacedIs, PTL
<1>3. Back(i) = Places(ba, Returned(i)) /\ Back(i)' = Places(ba', Returned(i))
  BY <1>2, Zenon DEF Placed
<1> QED  BY <1>1, <1>3, PlacesMove, Zenon

(***************************************************************************)
(* A step that does not concern intent i                                   *)
(***************************************************************************)

SameSend(i) == Sending(i)' = Sending(i) /\ \A s \in Sending(i) : msg'[s] = msg[s]
SameLink(i) ==
  /\ Parts(i)' = {} <=> Parts(i) = {}
  /\ Same(Coming(i), Coming(i)')
  /\ Falling(ab, i) => Falling(ab', i)
  /\ \A r : Enough(ab, i, r) => Enough(ab', i, r)
  /\ \A l : Leaving(ab, i, l) => Leaving(ab', i, l)
SameRest(i) ==
  Same(Queued(i), Queued(i)') /\ Same(Back(i), Back(i)') /\ (i \in held' <=> i \in held)
SameTables(i) ==
  /\ rsize'[i] = rsize[i] /\ lsize'[i] = lsize[i] /\ offset'[i] = offset[i]
  /\ i \in in_use' <=> i \in in_use
  /\ nextId' >= nextId

\* Numbers of an intent.
LEMMA TableNumbers ==
  ASSUME Typed, NEW i \in Ids
  PROVE  /\ rsize[i] \in Nat /\ lsize[i] \in Nat /\ offset[i] \in Nat /\ offset[i] <= lsize[i]
         /\ i \in Nat /\ nextId \in Nat
<1>1. /\ rsize \in [Ids -> Sizes] /\ lsize \in [Ids -> Sizes] /\ offset \in [Ids -> Nat]
      /\ \A j \in Ids : offset[j] <= lsize[j]
      /\ nextId \in Nat
  BY Zenon DEF Typed, Tables, SideB
<1>2. Sizes \subseteq Nat /\ Ids \subseteq Nat
  BY NumberSets, Zenon
<1> QED  BY <1>1, <1>2, Zenon

\* What holds of its users and its data goes on to hold.
LEMMA UseKept ==
  ASSUME NEW i \in Ids, Single(i), Underway(i),
         SameSend(i), SameLink(i), SameRest(i), lsize'[i] = lsize[i], offset'[i] = offset[i],
         i \in in_use' <=> i \in in_use
  PROVE  Single(i)' /\ Underway(i)'
<1>1. /\ Sending(i)' = Sending(i) /\ Same(Coming(i), Coming(i)')
      /\ Same(Queued(i), Queued(i)') /\ Same(Back(i), Back(i)') /\ (i \in held' <=> i \in held)
  BY Zenon DEF SameSend, SameLink, SameRest
<1>2. Single(i)'
  BY <1>1, Zenon DEF Single, Same
<1>3. (Back(i)' = {} <=> Back(i) = {}) /\ (Coming(i)' = {} <=> Coming(i) = {})
  BY <1>1, Zenon DEF Same
<1>4. Unwritten(i)' <=> Unwritten(i)
  BY <1>3, Zenon DEF Unwritten, SameSend
<1>5. Underway(i)'
  BY <1>3, <1>4, Zenon DEF Underway, SameSend, SameLink
<1> QED  BY <1>2, <1>5, Zenon

\* A step that leaves all that is said of intent i alone.
LEMMA GoodKept ==
  ASSUME Typed, Typed', NEW i \in Ids, Good(i),
         SameSend(i), SameLink(i), SameRest(i), SameTables(i)
  PROVE  Good(i)'
<1>1. Single(i)' /\ Underway(i)'
  BY UseKept, Zenon DEF Good, SameTables
<1>2. i >= nextId' => i >= nextId
  BY TableNumbers, Typed' DEF SameTables, Typed, SideB
<1>3. Known(i)'
  BY <1>2, Zenon DEF Known, Good, SameTables, SameSend
<1> QED  BY <1>1, <1>3, Zenon DEF Good

\* The link from A to B does not change, or not for intent i.
LEMMA LinkKept ==
  ASSUME Typed, Typed', NEW i \in Ids, Good(i)
  PROVE  /\ ab' = ab => SameLink(i)
         /\ \A m \in Requests \cup Data :
              ab' = Append(ab, m) /\ ~ IsPart(m, i) => SameLink(i)
         /\ ab # <<>> /\ ab' = Tail(ab) /\ ~ IsPart(Head(ab), i) => SameLink(i)
<1>0. ab \in Seq(Requests \cup Data) /\ Falling(ab, i)
  BY Zenon DEF Typed, Links, Good, Underway
<1>1. Parts(i) = PartsOf(ab, i) /\ Parts(i)' = PartsOf(ab', i)
  BY PartsAre, Zenon
<1>2. \A m : m \in Final(i) => IsPart(m, i)
  BY Zenon DEF Final, IsPart, Data
<1>3. ASSUME ab' = ab PROVE SameLink(i)
  <2>1. Coming(i)' = Coming(i)
    BY <1>3, Zenon DEF Coming, Parts
  <2> QED  BY <1>1, <1>3, <2>1, Zenon DEF SameLink, Same
<1>4. ASSUME NEW m \in Requests \cup Data, ab' = Append(ab, m), ~ IsPart(m, i)
      PROVE  SameLink(i)
  <2>1. PartsOf(ab', i) = PartsOf(ab, i) /\ \A n \in PartsOf(ab, i) : ab'[n] = ab[n]
    BY <1>0, <1>4, PartsSkip, Zenon
  <2>2. Coming(i)' = Coming(i)
    BY <1>2, <1>4, ComingMoves, Zenon DEF Joins
  <2>3. Falling(ab, i) => Falling(ab', i)
    BY <2>1 DEF Falling
  <2>4. \A r : Enough(ab, i, r) => Enough(ab', i, r)
    BY <2>1, Zenon DEF Enough
  <2>5. \A l : Leaving(ab, i, l) => Leaving(ab', i, l)
    BY <2>1, Zenon DEF Leaving
  <2> QED  BY <1>1, <2>1, <2>2, <2>3, <2>4, <2>5, Zenon DEF SameLink, Same
<1>5. ASSUME ab # <<>>, ab' = Tail(ab), ~ IsPart(Head(ab), i) PROVE SameLink(i)
  <2>1. Same(Coming(i), Coming(i)')
    BY <1>2, <1>5, ComingMoves, Zenon DEF Leaves
  <2>2. /\ Falling(ab', i)
        /\ \A l : Leaving(ab, i, l) => Leaving(ab', i, l)
        /\ \A r : Enough(ab, i, r) => Enough(ab', i, r)
        /\ (PartsOf(ab', i) = {} <=> PartsOf(ab, i) = {})
    BY <1>0, <1>5, PartsTail, Zenon
  <2> QED  BY <1>1, <2>1, <2>2, Zenon DEF SameLink
<1> QED  BY <1>3, <1>4, <1>5, Zenon

\* The same for the places behind the link.
LEMMA RestKept ==
  ASSUME NEW i \in Ids
  PROVE  /\ rx_queue' = rx_queue => Same(Queued(i), Queued(i)')
         /\ ba' = ba => Same(Back(i), Back(i)')
  BY Zenon DEF Queued, Back, Same

\* Only sender s moves.
Moves(s) == \A t \in Senders \ {s} : pc'[t] = pc[t] /\ msg'[t] = msg[t]

\* A step of sender s that goes on from a to b is one of this sender only.
LEMMA SenderMoves ==
  ASSUME Typed, NEW s \in Senders, NEW a, NEW b, Goto(s, a, b),
         msg' = msg \/ \E x : msg' = [msg EXCEPT ![s] = x]
  PROVE  Moves(s) /\ pc[s] = a /\ pc'[s] = b
  BY Zenon DEF Typed, Callers, Goto, Moves

\* The senders of an intent that sender s has nothing to do with.
LEMMA SendKept ==
  ASSUME NEW i \in Ids
  PROVE  /\ pc' = pc /\ msg' = msg => SameSend(i)
         /\ \A s \in Senders :
              /\ Moves(s)
              /\ pc[s] = "data" => msg[s].use # i
              /\ pc'[s] = "data" => msg'[s].use # i
              => SameSend(i)
<1>1. pc' = pc /\ msg' = msg => SameSend(i)
  BY Zenon DEF SameSend, Sending
<1>2. ASSUME NEW s \in Senders, Moves(s), pc[s] = "data" => msg[s].use # i,
             pc'[s] = "data" => msg'[s].use # i
      PROVE  SameSend(i)
  BY <1>2, Zenon DEF SameSend, Sending, Moves
<1> QED  BY <1>1, <1>2, Zenon

\* Intents that are advertised stay new to side A.
LEMMA AdvertisedKept ==
  ASSUME Typed, Advertised, nextId' = nextId,
         \/ ba' = ba
         \/ ba # <<>> /\ ba' = Tail(ba)
         \/ \E m \in Acks \cup Dones : ba' = Append(ba, m),
         \A j \in Ids : j < nextId /\ j \notin in_use /\ rsize[j] = 0 =>
                          j \notin in_use' /\ rsize'[j] = 0 /\ lsize'[j] = lsize[j]
  PROVE  Advertised'
<1> DEFINE B == Intents \cup Acks \cup Dones
<1>0. ba \in Seq(B)
  BY Zenon DEF Typed, Links
<1>1. ASSUME NEW n \in DOMAIN ba, ba[n].cmd = "INTENT"
      PROVE  /\ ba[n].id < nextId' /\ ba[n].id \notin in_use'
             /\ rsize'[ba[n].id] = 0 /\ lsize'[ba[n].id] = ba[n].size
  <2>1. ba[n] \in B
    BY <1>0
  <2>2. ba[n].id \in Ids
    BY <1>1, <2>1, BackTyped, Zenon
  <2> QED  BY <1>1, <2>2, Zenon DEF Advertised
<1>2. CASE ba' = ba
  BY <1>1, <1>2, Zenon DEF Advertised
<1>3. CASE ba # <<>> /\ ba' = Tail(ba)
  <2>1. \A k \in DOMAIN ba' : k \in Nat /\ k + 1 \in DOMAIN ba /\ ba'[k] = ba[k + 1]
    BY <1>0, <1>3, TailAt
  <2>2. \A k, n \in DOMAIN ba' : k + 1 = n + 1 => k = n
    BY <2>1
  <2>3. ASSUME NEW k \in DOMAIN ba', NEW n \in DOMAIN ba', ba'[k].cmd = "INTENT",
               ba'[n].cmd = "INTENT", ba'[k].id = ba'[n].id
        PROVE  k = n
    <3>1. /\ k + 1 \in DOMAIN ba /\ n + 1 \in DOMAIN ba
          /\ ba'[k] = ba[k + 1] /\ ba'[n] = ba[n + 1]
      BY <2>1, Zenon
    <3>2. k + 1 = n + 1
      BY <2>3, <3>1, Zenon DEF Advertised
    <3> QED  BY <2>2, <3>2, Zenon
  <2>4. ASSUME NEW n \in DOMAIN ba', ba'[n].cmd = "INTENT"
        PROVE  /\ ba'[n].id < nextId' /\ ba'[n].id \notin in_use'
               /\ rsize'[ba'[n].id] = 0 /\ lsize'[ba'[n].id] = ba'[n].size
    <3>1. n + 1 \in DOMAIN ba /\ ba'[n] = ba[n + 1]
      BY <2>1, Zenon
    <3> QED  BY <1>1, <2>4, <3>1, Zenon
  <2> QED  BY <2>3, <2>4, Zenon DEF Advertised
<1>4. CASE \E m \in Acks \cup Dones : ba' = Append(ba, m)
  <2>1. PICK m \in Acks \cup Dones : ba' = Append(ba, m)
    BY <1>4, Zenon
  <2>2. m \in B /\ m.cmd # "INTENT"
    BY Zenon DEF Acks, Dones
  <2>3. /\ DOMAIN ba' = DOMAIN ba \cup {Len(ba) + 1} /\ ba'[Len(ba) + 1] = m
        /\ \A k \in DOMAIN ba : ba'[k] = ba[k]
    BY <1>0, <2>1, <2>2, AppendAt
  <2>4. \A k \in DOMAIN ba' : ba'[k].cmd = "INTENT" => k \in DOMAIN ba /\ ba'[k] = ba[k]
    BY <2>2, <2>3, Zenon
  <2>5. \A k, n \in DOMAIN ba' :
           ba'[k].cmd = "INTENT" /\ ba'[n].cmd = "INTENT" /\ ba'[k].id = ba'[n].id => k = n
    BY <2>4, ZenonT(30) DEF Advertised
  <2>6. \A n \in DOMAIN ba' : ba'[n].cmd = "INTENT" =>
             /\ ba'[n].id < nextId' /\ ba'[n].id \notin in_use'
             /\ rsize'[ba'[n].id] = 0 /\ lsize'[ba'[n].id] = ba'[n].size
    BY <1>1, <2>4, ZenonT(30)
  <2> QED  BY <2>5, <2>6, Zenon DEF Advertised
<1> QED  BY <1>2, <1>3, <1>4, Zenon

\* A step that concerns no intent, or intent c only.
LEMMA WholeKept ==
  ASSUME Typed, Typed', Whole, NEW c,
         \A i \in Ids : i # c => SameSend(i) /\ SameLink(i) /\ SameRest(i) /\ SameTables(i),
         c \in Ids => Good(c)', Advertised', ThreadHolds'
  PROVE  Whole'
<1>1. ASSUME NEW i \in Ids PROVE Good(i)'
  <2>1. CASE i = c
    BY <2>1, Zenon
  <2>2. CASE i # c
    BY <2>2, GoodKept, Zenon DEF Whole
  <2> QED  BY <2>1, <2>2, Zenon
<1> QED  BY <1>1, Zenon DEF Whole

\* The steps of the protocol that concern no intent.
LEMMA QuietStep ==
  ASSUME Typed, Typed', Whole,
         \A i \in Ids : SameSend(i) /\ SameLink(i) /\ Same(Queued(i), Queued(i)'),
         UNCHANGED <<rsize, lsize, offset, in_use, nextId, held>>,
         ba' = ba \/ (ba # <<>> /\ ba' = Tail(ba) /\ Head(ba).cmd = "ACK")
                  \/ (\E m \in Acks : ba' = Append(ba, m)),
         thread' = thread \/ thread'.at \in {"idle", "new"}
  PROVE  Whole'
<1>1. ASSUME NEW i \in Ids PROVE SameRest(i) /\ SameTables(i)
  <2>1. Same(Back(i), Back(i)')
    <3>0. \A m : m \in Returned(i) => m.cmd = "DONE"
      BY Zenon DEF Returned, Dones
    <3>1. CASE ba' = ba
      BY <3>1, RestKept, Zenon
    <3>2. CASE \E m \in Acks : ba' = Append(ba, m)
      <4>1. PICK m \in Acks : ba' = Append(ba, m)
        BY <3>2, Zenon
      <4>2. m \notin Returned(i)
        BY <3>0, Zenon DEF Acks
      <4> QED  BY <4>1, <4>2, BackMoves, Zenon DEF Joins, Same
    <3>3. CASE ba # <<>> /\ ba' = Tail(ba) /\ Head(ba).cmd = "ACK"
      BY <3>0, <3>3, BackMoves, Zenon DEF Leaves
    <3> QED  BY <3>1, <3>2, <3>3, Zenon
  <2>2. nextId' >= nextId
    BY DEF Typed, SideB
  <2> QED  BY <2>1, <2>2, Zenon DEF SameRest, SameTables
<1>2. Advertised'
  BY AdvertisedKept, Zenon DEF Whole
<1>3. ThreadHolds'
  BY Zenon DEF Whole, ThreadHolds
<1>4. ASSUME NEW i \in Ids PROVE Good(i)'
  BY <1>1, GoodKept, Zenon DEF Whole
<1> QED  BY <1>2, <1>3, <1>4, Zenon DEF Whole

\* The steps that use no intent: searching, asking, answering.
LEMMA QuietSteps ==
  ASSUME Typed, Typed', Spare, Whole
  PROVE  /\ \A s \in Senders : Begin(s) \/ FindNone(s) \/ ReqReset(s) \/ ReqSend(s)
                               \/ ReqAnswered(s) \/ ReqTimeout(s) => Whole'
         /\ RxReqAck \/ RxReq \/ WorkReuse \/ WorkNew \/ WorkRefused => Whole'
         /\ ThreadDefer \/ ThreadAck \/ ThreadNoMem \/ vars' = vars => Whole'
<1> USE DEF req, aVars, bVars
<1>0. \A i \in Ids : Good(i)
  BY Zenon DEF Whole
<1>a. ASSUME ab' = ab PROVE \A i \in Ids : SameLink(i)
  BY <1>0, <1>a, LinkKept, Zenon
<1>b. ASSUME rx_queue' = rx_queue PROVE \A i \in Ids : Same(Queued(i), Queued(i)')
  BY <1>b, RestKept, Zenon
<1>c. ASSUME pc' = pc, msg' = msg PROVE \A i \in Ids : SameSend(i)
  BY <1>c, SendKept, Zenon
<1>d. ASSUME NEW s \in Senders, NEW a, NEW b, Goto(s, a, b), a # "data", b # "data",
             msg' = msg \/ \E x : msg' = [msg EXCEPT ![s] = x]
      PROVE  \A i \in Ids : SameSend(i)
  <2>1. Moves(s) /\ pc[s] = a /\ pc'[s] = b
    BY <1>d, SenderMoves, Zenon
  <2> QED  BY <1>d, <2>1, SendKept, Zenon
<1>1. ASSUME NEW s \in Senders, Begin(s) \/ FindNone(s) \/ ReqReset(s) \/ ReqAnswered(s)
                                \/ ReqTimeout(s)
      PROVE  Whole'
  <2>1. \A i \in Ids : SameSend(i)
    <3>1. CASE Begin(s)
      BY <1>d, <3>1, Zenon DEF Begin
    <3>2. CASE FindNone(s)
      BY <1>d, <3>2, Zenon DEF FindNone, Return
    <3>3. CASE ReqReset(s)
      BY <1>d, <3>3, Zenon DEF ReqReset
    <3>4. CASE ReqAnswered(s)
      BY <1>d, <3>4, Zenon DEF ReqAnswered, Return
    <3>5. CASE ReqTimeout(s)
      BY <1>d, <3>5, Zenon DEF ReqTimeout, Return
    <3> QED  BY <1>1, <3>1, <3>2, <3>3, <3>4, <3>5, Zenon
  <2>2. UNCHANGED <<rsize, lsize, offset, in_use, nextId, held, ab, ba, rx_queue, thread>>
    BY <1>1, Zenon DEF Begin, FindNone, ReqReset, ReqAnswered, ReqTimeout
  <2> QED  BY <1>a, <1>b, <2>1, <2>2, QuietStep, Zenon
<1>2. ASSUME NEW s \in Senders, ReqSend(s) PROVE Whole'
  <2>1. \A i \in Ids : SameSend(i)
    BY <1>d, <1>2, Zenon DEF ReqSend
  <2>2. UNCHANGED <<rsize, lsize, offset, in_use, nextId, held, ba, rx_queue, thread>>
    BY <1>2, Zenon DEF ReqSend
  <2>3. PICK m : ab' = Append(ab, m) /\ m = [cmd |-> "REQ", size |-> msg[s].left]
    BY <1>2, Zenon DEF ReqSend
  <2>4. m \in Requests
    BY <1>2, <2>3, Zenon DEF ReqSend, Goto, Typed, Callers, Requests
  <2>5. \A i \in Ids : ~ IsPart(m, i)
    BY <2>3, Zenon DEF IsPart
  <2>6. \A i \in Ids : SameLink(i)
    BY <1>0, <2>3, <2>4, <2>5, LinkKept, Zenon
  <2> QED  BY <1>b, <2>1, <2>2, <2>6, QuietStep, Zenon
<1>3. ASSUME RxReqAck PROVE Whole'
  <2>1. UNCHANGED <<rsize, lsize, offset, in_use, nextId, held, ab, rx_queue, thread, pc, msg>>
        /\ ba # <<>> /\ ba' = Tail(ba) /\ Head(ba).cmd = "ACK"
    BY <1>3, Zenon DEF RxReqAck, Got
  <2> QED  BY <1>a, <1>b, <1>c, <2>1, QuietStep, Zenon
<1>4. ASSUME RxReq PROVE Whole'
  <2>1. UNCHANGED <<rsize, lsize, offset, in_use, nextId, held, ba, rx_queue, thread, pc, msg>>
        /\ ab # <<>> /\ ab' = Tail(ab) /\ Head(ab).cmd = "REQ"
    BY <1>4, Zenon DEF RxReq, Got
  <2>2. \A i \in Ids : SameLink(i)
    BY <1>0, <2>1, LinkKept, Zenon DEF IsPart
  <2> QED  BY <1>b, <1>c, <2>1, <2>2, QuietStep, Zenon
<1>5. ASSUME WorkReuse \/ WorkRefused \/ ThreadAck PROVE Whole'
  <2>1. UNCHANGED <<rsize, lsize, offset, in_use, nextId, held, ab, rx_queue, pc, msg>>
        /\ (thread' = thread \/ thread'.at \in {"idle", "new"})
    BY <1>5 DEF WorkReuse, WorkRefused, ThreadAck, Idle
  <2>2. \A g \in {0, 1} : [cmd |-> "ACK", granted |-> g] \in Acks
    BY Zenon DEF Acks
  <2>3. \E m \in Acks : ba' = Append(ba, m)
    BY <1>5, <2>2, Zenon DEF WorkReuse, WorkRefused, ThreadAck
  <2> QED  BY <1>a, <1>b, <1>c, <2>1, <2>3, QuietStep, Zenon
<1>6. ASSUME WorkNew PROVE Whole'
  <2>1. UNCHANGED <<rsize, lsize, offset, in_use, nextId, held, ab, ba, thread, pc, msg>>
    BY <1>6, Zenon DEF WorkNew
  <2>2. Head(work) \in Lens
    BY <1>6, TailAt, Zenon DEF WorkNew, Typed, SideB
  <2>3. [at |-> "new", size |-> Head(work)] \in News
    BY <2>2, Zenon DEF News
  <2>4. \A i \in Ids : Same(Queued(i), Queued(i)')
    BY <1>6, <2>3, QueuedMoves, Zenon DEF WorkNew, Joins, Load, Uploads, News, Same
  <2> QED  BY <1>a, <1>c, <2>1, <2>4, QuietStep, Zenon
<1>7. ASSUME ThreadNoMem PROVE Whole'
  <2>1. UNCHANGED <<rsize, lsize, offset, in_use, nextId, held, ab, ba, pc, msg>>
        /\ thread'.at \in {"idle", "new"}
    BY <1>7, Zenon DEF ThreadNoMem, Idle
  <2>2. thread \in News
    BY <1>7, NewIdFree, Zenon DEF ThreadNoMem
  <2>3. \A i \in Ids : Same(Queued(i), Queued(i)')
    BY <1>7, <2>2, QueuedMoves, Zenon DEF ThreadNoMem
  <2> QED  BY <1>a, <1>c, <2>1, <2>3, QuietStep, Zenon
<1>8. ASSUME ThreadDefer \/ vars' = vars PROVE Whole'
  <2>1. UNCHANGED <<rsize, lsize, offset, in_use, nextId, held, ab, ba, rx_queue, pc, msg>>
        /\ (thread' = thread \/ thread'.at \in {"idle", "new"})
    BY <1>8 DEF ThreadDefer, Idle, vars
  <2> QED  BY <1>a, <1>b, <1>c, <2>1, QuietStep, Zenon
<1> QED  BY <1>1, <1>2, <1>3, <1>4, <1>5, <1>6, <1>7, <1>8, Zenon

(***************************************************************************)
(* The steps that concern an intent                                        *)
(***************************************************************************)

\* A sender finds an intent that is free.
LEMMA FindStep ==
  ASSUME Typed, Typed', Choice, Whole, NEW s \in Senders, Find(s)
  PROVE  Whole'
<1>0. PICK c : c = Best(s)
  BY Zenon
<1>1. /\ c \in Ids /\ rsize[c] >= msg[s].left /\ c \notin in_use
  BY <1>0, BestFree, Zenon
<1>2. /\ in_use' = in_use \cup {c}
      /\ UNCHANGED <<rsize, lsize, offset, nextId, held, ab, ba, rx_queue, thread>>
  BY <1>0, Zenon DEF Find, req, aVars, bVars
<1>3. /\ msg \in [Senders -> [left : Nat, use : Ids \cup {0}, wait : BOOLEAN]]
      /\ pc[s] = "find" /\ pc'[s] = "data" /\ msg' = [msg EXCEPT ![s].use = c]
      /\ Moves(s)
  <2>1. msg \in [Senders -> [left : Nat, use : Ids \cup {0}, wait : BOOLEAN]]
        /\ Goto(s, "find", "data") /\ msg' = [msg EXCEPT ![s].use = c]
    BY <1>0, Zenon DEF Find, Typed, Callers
  <2>2. \E x : msg' = [msg EXCEPT ![s] = x]
    BY <2>1, Zenon
  <2> QED  BY <2>1, <2>2, SenderMoves, Zenon
<1>4. /\ msg'[s].use = c /\ msg'[s].left = msg[s].left /\ msg'[s].wait = msg[s].wait
      /\ msg[s].left \in Nat /\ msg[s].left > 0
  BY <1>3, Zenon DEF Typed, Callers
<1>5. Single(c) /\ Underway(c) /\ Known(c) /\ Unwritten(c)
  BY <1>1, Zenon DEF Whole, Good, Unwritten
<1>6. \A i \in Ids : SameLink(i) /\ SameRest(i)
  BY <1>2, LinkKept, RestKept, Zenon DEF SameRest, Whole
<1>7. \A i \in Ids : i # c => SameSend(i) /\ SameTables(i)
  <2>1. \A i \in Ids : i # c => SameSend(i)
    BY <1>3, <1>4, SendKept, Zenon
  <2>2. nextId' >= nextId
    BY <1>2 DEF Typed, SideB
  <2> QED  BY <1>2, <2>1, <2>2, Zenon DEF SameTables
<1>8. Sending(c) = {} /\ Sending(c)' = {s}
  <2>1. Sending(c) = {}
    BY <1>1, <1>5, Zenon DEF Single
  <2> QED  BY <1>3, <1>4, <2>1 DEF Sending, Moves
<1>9. Single(c)'
  <2>1. Coming(c) = {} /\ Queued(c) = {} /\ c \notin held /\ Back(c) = {}
    BY <1>1, <1>5, Zenon DEF Single
  <2>2. Coming(c)' = {} /\ Queued(c)' = {} /\ c \notin held' /\ Back(c)' = {}
    BY <1>1, <1>6, <2>1, Zenon DEF SameLink, SameRest, Same
  <2> QED  BY <1>2, <1>8, <2>2, Zenon DEF Single, Lone
<1>10. offset[c] = 0 /\ Parts(c)' = {} /\ Falling(ab', c)
       /\ Enough(ab', c, lsize[c] - offset[c])
  BY <1>1, <1>5, <1>6, Zenon DEF Underway, SameLink
<1>11. rsize[c] <= lsize[c] /\ (c \in Reusable => rsize[c] = 1 /\ lsize[c] = 1) /\ ~ (c >= nextId)
       /\ rsize[c] # 0
  <2>1. rsize[c] \in Nat /\ rsize[c] # 0
    BY <1>1, <1>4, TableNumbers
  <2> QED  BY <1>1, <1>5, <2>1, Zenon DEF Known
<1>12. Underway(c)'
  <2>1. lsize[c] >= 0 + msg[s].left
    BY <1>1, <1>4, <1>11, TableNumbers
  <2>2. \A l : Leaving(ab', c, l)
    BY <1>10, PartsAre, Zenon DEF Leaving
  <2> QED  BY <1>2, <1>4, <1>8, <1>10, <2>1, <2>2, Zenon DEF Underway
<1>13. Good(c)'
  <2>1. Known(c)'
    BY <1>2, <1>11, Zenon DEF Known
  <2> QED  BY <1>9, <1>12, <2>1, Zenon DEF Good
<1>14. Advertised'
  BY <1>2, <1>11, AdvertisedKept, Zenon DEF Whole
<1>15. ThreadHolds'
  BY <1>2, Zenon DEF Whole, ThreadHolds
<1> QED  BY <1>6, <1>7, <1>13, <1>14, <1>15, WholeKept, Zenon

\* qcom_glink_trysend gives its intent up.
LEMMA TryFullStep ==
  ASSUME Typed, Typed', Whole, NEW s \in Senders, TryFull(s)
  PROVE  Whole'
<1>0. PICK c : c = msg[s].use
  BY Zenon
<1>1. pc[s] = "data" /\ c \in Ids /\ ~ msg[s].wait /\ in_use' = in_use \ {c}
      /\ UNCHANGED <<rsize, lsize, offset, nextId, held, ab, ba, rx_queue, thread>>
  BY <1>0, Zenon DEF TryFull, Return, Goto, Typed, Callers, req, aVars, bVars
<1>2. Moves(s) /\ pc'[s] = "idle"
  BY SenderMoves, Zenon DEF TryFull, Return
<1>3. s \in Sending(c)
  BY <1>0, <1>1, Zenon DEF Sending
<1>4. Single(c) /\ Underway(c) /\ Known(c) /\ Unwritten(c)
  BY <1>1, <1>3, Zenon DEF Whole, Good, Unwritten
<1>5. \A i \in Ids : SameLink(i) /\ SameRest(i)
  BY <1>1, LinkKept, RestKept, Zenon DEF SameRest, Whole
<1>6. \A i \in Ids : i # c => SameSend(i) /\ SameTables(i)
  <2>1. \A i \in Ids : i # c => SameSend(i)
    BY <1>0, <1>1, <1>2, SendKept, Zenon
  <2>2. nextId' >= nextId
    BY <1>1 DEF Typed, SideB
  <2> QED  BY <1>1, <2>1, <2>2, Zenon DEF SameTables
<1>7. Sending(c)' = {}
  <2>1. Sending(c) = {s}
    BY <1>3, <1>4, Zenon DEF Single, Lone
  <2> QED  BY <1>2, <2>1, Zenon DEF Sending, Moves
<1>8. Single(c)'
  <2>1. Coming(c) = {} /\ Queued(c) = {} /\ c \notin held /\ Back(c) = {}
    BY <1>3, <1>4, Zenon DEF Single
  <2>2. Coming(c)' = {} /\ Queued(c)' = {} /\ c \notin held' /\ Back(c)' = {}
    BY <1>1, <1>5, <2>1, Zenon DEF SameLink, SameRest, Same
  <2> QED  BY <1>1, <1>7, <2>2, Zenon DEF Single, Lone
<1>9. Underway(c)'
  <2>1. offset[c] = 0 /\ Parts(c)' = {} /\ Falling(ab', c)
        /\ Enough(ab', c, lsize[c] - offset[c])
    BY <1>1, <1>4, <1>5, Zenon DEF Underway, SameLink
  <2> QED  BY <1>1, <1>7, <2>1, Zenon DEF Underway
<1>10. Good(c)'
  <2>1. Known(c)'
    BY <1>1, <1>3, <1>4, Zenon DEF Known
  <2> QED  BY <1>8, <1>9, <2>1, Zenon DEF Good
<1>11. Advertised' /\ ThreadHolds'
  <2>1. ThreadHolds'
    BY <1>1, Zenon DEF Whole, ThreadHolds
  <2> QED  BY <1>1, <2>1, AdvertisedKept, Zenon DEF Whole
<1> QED  BY <1>5, <1>6, <1>10, <1>11, WholeKept, Zenon

\* A part of a message is sent.
LEMMA SendChunkStep ==
  ASSUME Typed, Typed', Whole, NEW s \in Senders, SendChunk(s)
  PROVE  Whole'
<1>0. PICK c, n, left, m :
        /\ c = msg[s].use /\ n = (IF msg[s].wait THEN 1 ELSE msg[s].left)
        /\ left = msg[s].left - n
        /\ m = [cmd |-> "DATA", id |-> c, n |-> n, left |-> left]
  BY Zenon
<1>1. /\ pc[s] = "data" /\ c \in Ids /\ msg[s].left \in Nat /\ msg[s].left > 0
      /\ msg[s].wait \in BOOLEAN
      /\ msg \in [Senders -> [left : Nat, use : Ids \cup {0}, wait : BOOLEAN]]
  BY <1>0, Zenon DEF SendChunk, Return, Goto, Typed, Callers
<1>2. ab' = Append(ab, m)
      /\ UNCHANGED <<rsize, lsize, offset, nextId, in_use, held, ba, rx_queue, thread>>
  BY <1>0, Zenon DEF SendChunk, req, aVars, bVars
<1>3. n \in Nat /\ n > 0 /\ left \in Nat /\ n + left = msg[s].left
      /\ (left > 0 => msg[s].wait)
  BY <1>0, <1>1
<1>4. m \in Data /\ IsPart(m, c) /\ m.id = c /\ m.n = n /\ m.left = left
  BY <1>0, <1>1, <1>3 DEF Data, IsPart
<1>5. /\ left > 0 => pc'[s] = "data" /\ msg'[s].left = left /\ msg'[s].use = c
                      /\ msg'[s].wait = msg[s].wait
      /\ ~ (left > 0) => pc'[s] = "idle"
      /\ Moves(s)
  <2>1. CASE left > 0
    <3>1. Goto(s, "data", "data") /\ msg' = [msg EXCEPT ![s].left = left]
      BY <1>0, <2>1, Zenon DEF SendChunk
    <3>2. \E x : msg' = [msg EXCEPT ![s] = x]
      BY <3>1, Zenon
    <3>3. Moves(s) /\ pc'[s] = "data"
      BY <3>1, <3>2, SenderMoves, Zenon
    <3> QED  BY <1>0, <1>1, <2>1, <3>1, <3>3, Zenon
  <2>2. CASE ~ (left > 0)
    <3>1. Return(s, "data")
      BY <1>0, <2>2, Zenon DEF SendChunk
    <3> QED  BY <2>2, <3>1, SenderMoves, Zenon DEF Return
  <2> QED  BY <2>1, <2>2, Zenon
<1>6. Single(c) /\ Underway(c) /\ Known(c) /\ s \in Sending(c)
  BY <1>0, <1>1, Zenon DEF Whole, Good, Sending
<1>7. /\ Sending(c) = {s} /\ Coming(c) = {} /\ Queued(c) = {} /\ c \notin held /\ Back(c) = {}
      /\ c \in in_use
  BY <1>6, Zenon DEF Single, Lone
<1>8. \A i \in Ids : SameRest(i) /\ SameTables(i) /\ (i # c => SameLink(i) /\ SameSend(i))
  <2>1. \A i \in Ids : SameRest(i)
    BY <1>2, RestKept, Zenon DEF SameRest
  <2>2. \A i \in Ids : i # c => SameSend(i)
    BY <1>0, <1>1, <1>3, <1>5, SendKept, Zenon
  <2>3. nextId' >= nextId
    BY <1>2 DEF Typed, SideB
  <2>4. \A i \in Ids : i # c => SameLink(i)
    BY <1>2, <1>4, LinkKept, Zenon DEF IsPart, Whole
  <2> QED  BY <1>2, <2>1, <2>2, <2>3, <2>4, Zenon DEF SameTables
<1>9. Sending(c)' = IF left > 0 THEN {s} ELSE {}
  BY <1>5, <1>7, Zenon DEF Sending, Moves
<1>10. IF left > 0 THEN Coming(c)' = {} ELSE Coming(c)' # {} /\ Lone(Coming(c)')
  <2>1. m \in Final(c) <=> left = 0
    BY <1>4, Zenon DEF Final
  <2>2. Joins(Coming(c), Coming(c)', m, Final(c))
    BY <1>1, <1>2, <1>4, ComingMoves, Zenon
  <2> QED  BY <1>3, <1>7, <2>1, <2>2 DEF Joins
<1>11. Queued(c)' = {} /\ c \notin held' /\ Back(c)' = {}
  BY <1>1, <1>7, <1>8, Zenon DEF SameRest, Same
<1>12. Single(c)'
  BY <1>2, <1>7, <1>9, <1>10, <1>11, Zenon DEF Single, Lone
<1>13. /\ Enough(ab', c, lsize[c] - offset[c]) /\ Leaving(ab', c, left)
       /\ Falling(ab', c) /\ Parts(c)' # {}
  <2>1. ab \in Seq(Requests \cup Data)
    BY Zenon DEF Typed, Links
  <2>2. Leaving(ab, c, m.n + m.left) /\ Enough(ab, c, lsize[c] - offset[c]) /\ Falling(ab, c)
        /\ (Parts(c) = {} => lsize[c] >= offset[c] + msg[s].left)
    BY <1>3, <1>4, <1>6, Zenon DEF Underway
  <2>3. lsize[c] \in Nat /\ offset[c] \in Nat /\ PartsOf(ab, c) = Parts(c)
    BY <1>1, TableNumbers, PartsAre, Zenon
  <2>4. lsize[c] - offset[c] >= m.n + m.left
    <3>1. CASE Parts(c) = {}
      BY <1>3, <1>4, <2>2, <2>3, <3>1
    <3>2. CASE Parts(c) # {}
      <4>1. PICK k \in PartsOf(ab, c) : TRUE
        BY <2>3, <3>2, Zenon
      <4>2. ab[k].n \in Nat /\ ab[k].left \in Nat
        BY <2>1, PartsTyped, Zenon
      <4>3. lsize[c] - offset[c] >= ab[k].n + ab[k].left /\ ab[k].left >= m.n + m.left
        BY <2>2, Zenon DEF Enough, Leaving
      <4>4. \A a, b, x, y, z \in Nat : a - b >= x + y /\ y >= z => a - b >= z
        OBVIOUS
      <4>5. m.n + m.left \in Nat
        BY <1>3, <1>4
      <4> QED  BY <2>3, <4>2, <4>3, <4>4, <4>5, Zenon
    <3> QED  BY <3>1, <3>2, Zenon
  <2>5. PICK r : r = lsize[c] - offset[c]
    BY Zenon
  <2>6. Enough(Append(ab, m), c, r) /\ Leaving(Append(ab, m), c, m.left)
        /\ Falling(Append(ab, m), c) /\ PartsOf(Append(ab, m), c) # {}
    BY <1>4, <2>1, <2>2, <2>4, <2>5, PartsAdd, Zenon
  <2>7. Parts(c)' = PartsOf(ab', c)
    BY PartsAre, Zenon
  <2> QED  BY <1>2, <1>4, <2>5, <2>6, <2>7, Zenon
<1>14. \A t \in Sending(c)' : msg'[t].wait /\ msg'[t].left = left
  BY <1>3, <1>5, <1>9, Zenon
<1>15. Underway(c)'
  <2>1. ~ Unwritten(c)'
    BY <1>2, <1>7, <1>11, <1>14, Zenon DEF Unwritten
  <2>2. Sending(c)' # {} \/ Coming(c)' # {}
    BY <1>9, <1>10, Zenon
  <2> QED  BY <1>2, <1>13, <1>14, <2>1, <2>2, Zenon DEF Underway
<1>16. Good(c)'
  <2>1. Known(c)'
    BY <1>2, <1>6, <1>7, <1>14, Zenon DEF Known
  <2> QED  BY <1>12, <1>15, <2>1, Zenon DEF Good
<1>17. Advertised' /\ ThreadHolds'
  <2>1. ThreadHolds'
    BY <1>2, Zenon DEF Whole, ThreadHolds
  <2> QED  BY <1>2, <2>1, AdvertisedKept, Zenon DEF Whole
<1> QED  BY <1>8, <1>16, <1>17, WholeKept, Zenon

\* Data arrives: it lands, and the intent is in no other hands.
LEMMA DataArrives ==
  ASSUME Typed, Typed', Whole, Got(ab, "DATA"), ab' = Tail(ab), NEW c, c = Head(ab).id,
         NEW k, k = Head(ab).n, NEW left, left = Head(ab).left
  PROVE  /\ c \in Ids /\ k \in Nat /\ k > 0 /\ left \in Nat /\ Lands(Head(ab))
         /\ lsize[c] >= offset[c] + k + left
         /\ c \in in_use /\ Queued(c) = {} /\ c \notin held /\ Back(c) = {}
         /\ ~ Unwritten(c) /\ (Sending(c) # {} \/ Coming(c) # {})
         /\ \A i \in Ids : i # c => SameLink(i)
         /\ Falling(ab', c) /\ Enough(ab', c, (lsize[c] - offset[c]) - k)
         /\ \A s \in Sending(c) : Leaving(ab', c, msg[s].left) /\ left >= msg[s].left
         /\ left > 0 => Same(Coming(c), Coming(c)')
         /\ left = 0 => Parts(c)' = {} /\ Sending(c) = {}
<1>1. /\ ab # <<>> /\ ab \in Seq(Requests \cup Data) /\ Head(ab) \in Data /\ c \in Ids
      /\ k \in Nat /\ k > 0 /\ left \in Nat
  BY HeadData, Zenon
<1>2. IsPart(Head(ab), c) /\ (Head(ab) \in Final(c) <=> left = 0)
  BY <1>1, Zenon DEF Got, IsPart, Final
<1>3. Single(c) /\ Underway(c) /\ \A i \in Ids : Good(i)
  BY <1>1, Zenon DEF Whole, Good
<1>4. /\ Falling(ab, c) /\ Enough(ab, c, lsize[c] - offset[c])
      /\ \A s \in Sending(c) : Leaving(ab, c, msg[s].left)
  BY <1>3, Zenon DEF Underway
<1>5. lsize[c] \in Nat /\ offset[c] \in Nat
  BY <1>1, TableNumbers, Zenon
<1>6. PICK r \in Int : r = lsize[c] - offset[c]
  BY <1>5
<1>7. /\ r >= k + left
      /\ Enough(Tail(ab), c, r - k)
      /\ left = 0 => PartsOf(Tail(ab), c) = {}
      /\ \A l : Leaving(ab, c, l) => left >= l
  <2>1. Enough(ab, c, r)
    BY <1>4, <1>6, Zenon
  <2> QED  BY <1>1, <1>2, <1>4, <2>1, PartsTake, Zenon
<1>8. Falling(Tail(ab), c) /\ \A l : Leaving(ab, c, l) => Leaving(Tail(ab), c, l)
  BY <1>1, <1>4, PartsTail, Zenon
<1>9. Parts(c) = PartsOf(ab, c) /\ Parts(c)' = PartsOf(Tail(ab), c)
  BY PartsAre, Zenon
<1>10. Parts(c) # {}
  BY <1>1, <1>2, <1>9, PartsShift
<1>11. ~ Unwritten(c) /\ (Sending(c) # {} \/ Coming(c) # {})
  BY <1>3, <1>10, Zenon DEF Underway
<1>12. c \in in_use /\ Queued(c) = {} /\ c \notin held /\ Back(c) = {}
  BY <1>3, <1>11, Zenon DEF Single
<1>13. \A i \in Ids : i # c => SameLink(i)
  BY <1>1, <1>3, LinkKept, Zenon DEF IsPart
<1>14. /\ left > 0 => Same(Coming(c), Coming(c)')
       /\ left = 0 => Sending(c) = {}
  <2>1. Leaves(Coming(c), Coming(c)', Head(ab), Final(c))
    BY <1>1, ComingMoves, Zenon
  <2> QED  BY <1>1, <1>2, <1>3, <2>1 DEF Leaves, Single
<1>15. Lands(Head(ab)) /\ lsize[c] >= offset[c] + k + left
  <2>1. \A x, y, z, w \in Nat : x - y >= z + w => x - y >= z /\ x >= y + z + w
    OBVIOUS
  <2>2. lsize[c] - offset[c] >= k /\ lsize[c] >= offset[c] + k + left
    BY <1>1, <1>5, <1>6, <1>7, <2>1, Zenon
  <2> QED  BY <2>2, Zenon DEF Lands
<1>16. \A s \in Sending(c) : Leaving(ab', c, msg[s].left) /\ left >= msg[s].left
  BY <1>4, <1>7, <1>8, Zenon
<1> QED  BY <1>1, <1>6, <1>7, <1>8, <1>9, <1>11, <1>12, <1>13, <1>14, <1>15, <1>16, Zenon

\* A message moves on from where it was to another place.
LEMMA MovedOn ==
  ASSUME Typed, Typed', Whole, NEW c \in Ids, c \in in_use, Sending(c) = {},
         UNCHANGED <<pc, msg, rsize, in_use, nextId>>,
         Parts(c)' = {}, Lone(Queued(c)'), Lone(Back(c)'),
         \/ Queued(c)' # {} /\ c \notin held' /\ Back(c)' = {}
         \/ Queued(c)' = {} /\ c \in held' /\ Back(c)' = {}
         \/ Queued(c)' = {} /\ c \notin held' /\ Back(c)' # {} /\ offset'[c] = 0,
         c \in Reusable => lsize'[c] = lsize[c],
         \A i \in Ids : i # c => /\ SameLink(i) /\ SameRest(i)
                                 /\ lsize'[i] = lsize[i] /\ offset'[i] = offset[i],
         ba' = ba \/ \E m \in Dones : ba' = Append(ba, m), ThreadHolds'
  PROVE  Whole'
<1>1. \A i \in Ids : SameSend(i)
  BY SendKept, Zenon
<1>2. \A i \in Ids : i # c => SameTables(i)
  <2>1. nextId' = nextId /\ nextId \in Nat
    BY Zenon DEF Typed, SideB
  <2> QED  BY <2>1 DEF SameTables
<1>3. Sending(c)' = {} /\ Coming(c)' = {}
  BY <1>1, Zenon DEF SameSend, Coming
<1>4. Single(c)'
  BY <1>3, Zenon DEF Single, Lone
<1>5. Falling(ab', c) /\ \A r : Enough(ab', c, r)
  BY PartsAre, Zenon DEF Enough, Falling
<1>6. Underway(c)'
  BY <1>3, <1>5, Zenon DEF Underway, Unwritten
<1>7. Known(c)'
  BY <1>3, Zenon DEF Whole, Good, Known
<1>8. Good(c)'
  BY <1>4, <1>6, <1>7, Zenon DEF Good
<1>9. Advertised'
  BY AdvertisedKept, Zenon DEF Whole
<1> QED  BY <1>1, <1>2, <1>8, <1>9, WholeKept, Zenon

\* Data that does not complete its message.
LEMMA RxDataPartStep ==
  ASSUME Typed, Typed', Whole, RxDataPart
  PROVE  Whole'
<1>0. PICK c, k, left : c = Head(ab).id /\ k = Head(ab).n /\ left = Head(ab).left
  BY Zenon
<1>1. Got(ab, "DATA") /\ ab' = Tail(ab) /\ (~ Lands(Head(ab)) \/ left > 0)
      /\ (Lands(Head(ab)) => offset' = [offset EXCEPT ![c] = @ + k])
      /\ UNCHANGED <<pc, msg, rsize, lsize, in_use, nextId, held, ba, rx_queue, thread>>
  BY <1>0, Zenon DEF RxDataPart, req, aVars
<1>2. /\ c \in Ids /\ k \in Nat /\ k > 0 /\ left \in Nat /\ Lands(Head(ab))
      /\ lsize[c] >= offset[c] + k + left
      /\ c \in in_use /\ Back(c) = {} /\ ~ Unwritten(c) /\ (Sending(c) # {} \/ Coming(c) # {})
      /\ \A i \in Ids : i # c => SameLink(i)
      /\ Falling(ab', c) /\ Enough(ab', c, (lsize[c] - offset[c]) - k)
      /\ \A s \in Sending(c) : Leaving(ab', c, msg[s].left) /\ left >= msg[s].left
      /\ left > 0 => Same(Coming(c), Coming(c)')
  BY <1>0, <1>1, DataArrives, Zenon
<1>3. \A i \in Ids : SameSend(i) /\ SameRest(i)
  BY <1>1, SendKept, RestKept, Zenon DEF SameRest
<1>4. offset'[c] = offset[c] + k /\ \A i \in Ids : i # c => offset'[i] = offset[i]
  BY <1>1, <1>2, Zenon DEF Typed, Tables
<1>5. \A i \in Ids : i # c => SameTables(i)
  <2>1. nextId' >= nextId
    BY <1>1 DEF Typed, SideB
  <2> QED  BY <1>1, <1>4, <2>1, Zenon DEF SameTables
<1>6. Single(c) /\ Known(c)
  BY <1>2, Zenon DEF Whole, Good
<1>7. /\ Sending(c)' = Sending(c) /\ Same(Coming(c), Coming(c)') /\ Same(Queued(c), Queued(c)')
      /\ Same(Back(c), Back(c)') /\ (c \in held' <=> c \in held)
  BY <1>1, <1>2, <1>3, Zenon DEF SameSend, SameRest
<1>8. Single(c)'
  BY <1>1, <1>6, <1>7, Zenon DEF Single, Same
<1>9. lsize'[c] - offset'[c] = (lsize[c] - offset[c]) - k
      /\ \A l \in Nat : left >= l => lsize'[c] >= offset'[c] + l
  <2>1. \A x, y, z \in Nat : x - (y + z) = (x - y) - z
    OBVIOUS
  <2>2. \A x, y, z, w, l \in Nat : x >= y + z + w /\ w >= l => x >= (y + z) + l
    OBVIOUS
  <2>3. /\ lsize[c] \in Nat /\ offset[c] \in Nat /\ k \in Nat /\ left \in Nat
        /\ lsize[c] >= offset[c] + k + left
    BY <1>2, TableNumbers, Zenon
  <2>4. lsize[c] - (offset[c] + k) = (lsize[c] - offset[c]) - k
    BY <2>1, <2>3, ZenonT(30)
  <2>5. \A l \in Nat : left >= l => lsize[c] >= (offset[c] + k) + l
    BY <2>2, <2>3, Zenon
  <2> QED  BY <1>1, <1>4, <2>4, <2>5, Zenon
<1>10. Underway(c)'
  <2>1. Enough(ab', c, lsize'[c] - offset'[c])
    BY <1>2, <1>9, Zenon
  <2>2. \A s \in Sending(c) : msg[s].left \in Nat
    BY Zenon DEF Sending, Typed, Callers
  <2>3. \A s \in Sending(c)' : /\ Leaving(ab', c, msg'[s].left)
                               /\ lsize'[c] >= offset'[c] + msg'[s].left
    BY <1>1, <1>2, <1>7, <1>9, <2>2, Zenon
  <2>4. ~ Unwritten(c)' /\ (Sending(c)' # {} \/ Coming(c)' # {})
    BY <1>1, <1>2, <1>7, Zenon DEF Unwritten, Same
  <2> QED  BY <1>2, <2>1, <2>3, <2>4, Zenon DEF Underway
<1>11. Good(c)'
  <2>1. Known(c)'
    BY <1>1, <1>2, <1>6, <1>7, Zenon DEF Known
  <2> QED  BY <1>8, <1>10, <2>1, Zenon DEF Good
<1>12. Advertised' /\ ThreadHolds'
  <2>1. ThreadHolds'
    BY <1>1, Zenon DEF Whole, ThreadHolds
  <2> QED  BY <1>1, <2>1, AdvertisedKept, Zenon DEF Whole
<1> QED  BY <1>2, <1>3, <1>5, <1>11, <1>12, WholeKept, Zenon

\* A message joins the queue, and an intent is returned.
LEMMA JoinsRest ==
  ASSUME Typed, Typed', NEW c \in Ids
  PROVE  /\ \A e \in Uploads : e.id = c /\ rx_queue' = Append(rx_queue, e) =>
              /\ \A i \in Ids : i # c => Same(Queued(i), Queued(i)')
              /\ Queued(c) = {} => Queued(c)' # {} /\ Lone(Queued(c)')
         /\ \A m \in Dones : m.id = c /\ ba' = Append(ba, m) =>
              /\ \A i \in Ids : i # c => Same(Back(i), Back(i)')
              /\ Back(c) = {} => Back(c)' # {} /\ Lone(Back(c)')
<1>1. ASSUME NEW e \in Uploads, e.id = c, rx_queue' = Append(rx_queue, e)
      PROVE  /\ \A i \in Ids : i # c => Same(Queued(i), Queued(i)')
             /\ Queued(c) = {} => Queued(c)' # {} /\ Lone(Queued(c)')
  <2>1. \A i \in Ids : e \in Load(i) <=> i = c
    BY <1>1, Zenon DEF Load
  <2>2. \A i \in Ids : Joins(Queued(i), Queued(i)', e, Load(i))
    BY <1>1, QueuedMoves, Zenon
  <2> QED  BY <2>1, <2>2, Zenon DEF Joins, Same
<1>2. ASSUME NEW m \in Dones, m.id = c, ba' = Append(ba, m)
      PROVE  /\ \A i \in Ids : i # c => Same(Back(i), Back(i)')
             /\ Back(c) = {} => Back(c)' # {} /\ Lone(Back(c)')
  <2>1. \A i \in Ids : m \in Returned(i) <=> i = c
    BY <1>2, Zenon DEF Returned
  <2>2. \A i \in Ids : Joins(Back(i), Back(i)', m, Returned(i))
    BY <1>2, BackMoves, Zenon
  <2> QED  BY <2>1, <2>2, Zenon DEF Joins, Same
<1> QED  BY <1>1, <1>2, Zenon

\* Data that completes a message goes to the queue, to the client or back.
LEMMA RxDataSteps ==
  ASSUME Typed, Typed', Whole
  PROVE  RxData \/ RxDataIrq \/ RxDataIrqFull \/ RxDataIrqDefer => Whole'
<1> SUFFICES ASSUME RxData \/ RxDataIrq \/ RxDataIrqFull \/ RxDataIrqDefer PROVE Whole'
  BY Zenon
<1> USE DEF req, aVars, bVars
<1>0. PICK c, k, left : c = Head(ab).id /\ k = Head(ab).n /\ left = Head(ab).left
  BY Zenon
<1>1. Got(ab, "DATA") /\ ab' = Tail(ab) /\ left = 0
      /\ UNCHANGED <<pc, msg, rsize, in_use, nextId, thread>>
  BY <1>0, Zenon DEF RxData, RxDataIrq, RxDataIrqFull, RxDataIrqDefer, InIrq
<1>2. /\ c \in Ids /\ c \in in_use /\ Queued(c) = {} /\ c \notin held /\ Back(c) = {}
      /\ \A i \in Ids : i # c => SameLink(i)
      /\ Parts(c)' = {} /\ Sending(c) = {}
  BY <1>0, <1>1, DataArrives, Zenon
<1>3. /\ \A i \in Ids : rx_queue' = rx_queue => Same(Queued(i), Queued(i)')
      /\ \A i \in Ids : ba' = ba => Same(Back(i), Back(i)')
      /\ rx_queue' = rx_queue => Queued(c)' = {} /\ Lone(Queued(c)')
      /\ ba' = ba => Back(c)' = {} /\ Lone(Back(c)')
  BY <1>2, RestKept, Zenon DEF Same, Lone
<1>4. held \subseteq held' => ThreadHolds'
  BY <1>1, Zenon DEF Whole, ThreadHolds
<1>5. \A x : offset' = [offset EXCEPT ![c] = x] =>
               offset'[c] = x /\ \A i \in Ids : i # c => offset'[i] = offset[i]
  BY <1>2, Zenon DEF Typed, Tables
<1>6. Unlist(c) => /\ \A i \in Ids : i # c => lsize'[i] = lsize[i]
                   /\ c \in Reusable => lsize'[c] = lsize[c]
  BY <1>2, Zenon DEF Unlist, Typed, Tables
<1>7. ASSUME NEW e \in Uploads, e.id = c, rx_queue' = Append(rx_queue, e),
             \E x : offset' = [offset EXCEPT ![c] = x],
             lsize' = lsize \/ Unlist(c), UNCHANGED <<ba, held>>
      PROVE  Whole'
  <2>1. /\ \A i \in Ids : i # c => Same(Queued(i), Queued(i)')
        /\ Queued(c)' # {} /\ Lone(Queued(c)')
    BY <1>2, <1>7, JoinsRest, Zenon
  <2>2. /\ \A i \in Ids : i # c => /\ SameRest(i)
                                   /\ lsize'[i] = lsize[i] /\ offset'[i] = offset[i]
        /\ c \in Reusable => lsize'[c] = lsize[c]
    BY <1>3, <1>5, <1>6, <1>7, <2>1, Zenon DEF SameRest
  <2> QED  BY <1>1, <1>2, <1>3, <1>4, <1>7, <2>1, <2>2, MovedOn, Zenon
<1>8. CASE RxData
  <2>1. /\ rx_queue' = Append(rx_queue, [at |-> "data", id |-> c])
        /\ \E x : offset' = [offset EXCEPT ![c] = x]
        /\ UNCHANGED <<ba, lsize, held>>
    BY <1>0, <1>8, ZenonT(30) DEF RxData
  <2>2. [at |-> "data", id |-> c] \in Uploads /\ [at |-> "data", id |-> c].id = c
    BY <1>2, Zenon DEF Uploads
  <2> QED  BY <1>7, <2>1, <2>2, Zenon
<1>9. CASE RxDataIrq
  <2>1. /\ ba' = Append(ba, [cmd |-> "DONE", id |-> c])
        /\ offset' = [offset EXCEPT ![c] = 0] /\ Unlist(c)
        /\ UNCHANGED <<rx_queue, held>>
    BY <1>0, <1>9, Zenon DEF RxDataIrq, InIrq
  <2>2. [cmd |-> "DONE", id |-> c] \in Dones /\ [cmd |-> "DONE", id |-> c].id = c
    BY <1>2, Zenon DEF Dones
  <2>3. /\ \A i \in Ids : i # c => Same(Back(i), Back(i)')
        /\ Back(c)' # {} /\ Lone(Back(c)')
    BY <1>2, <2>1, <2>2, JoinsRest, Zenon
  <2>4. \A i \in Ids : i # c => SameRest(i)
    BY <1>3, <2>1, <2>3, Zenon DEF SameRest
  <2>5. offset'[c] = 0 /\ \A i \in Ids : i # c => lsize'[i] = lsize[i] /\ offset'[i] = offset[i]
    BY <1>5, <1>6, <2>1, Zenon
  <2> QED  BY <1>1, <1>2, <1>3, <1>4, <1>6, <2>1, <2>2, <2>3, <2>4, <2>5, MovedOn, Zenon
<1>10. CASE RxDataIrqFull
  <2>1. /\ rx_queue = <<>> /\ rx_queue' = <<[at |-> "irq_done", id |-> c]>>
        /\ offset' = [offset EXCEPT ![c] = 0] /\ Unlist(c)
        /\ UNCHANGED <<ba, held>>
    BY <1>0, <1>10, Zenon DEF RxDataIrqFull, InIrq
  <2>2. [at |-> "irq_done", id |-> c] \in Uploads /\ [at |-> "irq_done", id |-> c].id = c
        /\ rx_queue' = Append(rx_queue, [at |-> "irq_done", id |-> c])
    BY <1>2, <2>1, SMTT(20) DEF Uploads
  <2> QED  BY <1>7, <2>1, <2>2, Zenon
<1>11. CASE RxDataIrqDefer
  <2>1. /\ held' = held \cup {c} /\ offset' = [offset EXCEPT ![c] = 0]
        /\ UNCHANGED <<ba, lsize, rx_queue>>
    BY <1>0, <1>11, Zenon DEF RxDataIrqDefer, InIrq
  <2>2. \A i \in Ids : i # c => SameRest(i)
    BY <1>3, <2>1, Zenon DEF SameRest
  <2> QED  BY <1>1, <1>2, <1>3, <1>4, <1>5, <2>1, <2>2, MovedOn, Zenon
<1> QED  BY <1>8, <1>9, <1>10, <1>11, Zenon

\* The thread takes an entry of the queue.
LEMMA ThreadTakeStep ==
  ASSUME Typed, Typed', Whole, ThreadTake
  PROVE  Whole'
<1>0. PICK e : e = Head(rx_queue)
  BY Zenon
<1>1. /\ rx_queue # <<>> /\ rx_queue' = Tail(rx_queue) /\ thread' = e
      /\ held' = (IF e.at = "new" THEN held ELSE held \cup {e.id})
      /\ UNCHANGED <<pc, msg, rsize, in_use, nextId, lsize, offset, ab, ba>>
  BY <1>0, Zenon DEF ThreadTake, req, aVars, bVars
<1>2. e \in Uploads \cup News
  BY <1>0, <1>1, HeadQueue, Zenon
<1>3. \A i \in Ids : SameSend(i) /\ SameLink(i)
  BY <1>1, SendKept, LinkKept, Zenon DEF Whole
<1>4. \A i \in Ids : Leaves(Queued(i), Queued(i)', e, Load(i))
  BY <1>0, <1>1, QueuedMoves, Zenon
<1>5. CASE e.at = "new"
  <2>1. \A i \in Ids : e \notin Load(i)
    BY <1>5, Zenon DEF Load, Uploads
  <2>2. \A i \in Ids : Same(Queued(i), Queued(i)')
    BY <1>4, <2>1, Zenon DEF Leaves
  <2> QED  BY <1>1, <1>3, <1>5, <2>2, QuietStep, Zenon
<1>6. CASE e.at # "new"
  <2>1. PICK c \in Ids : c = e.id
    BY <1>2, <1>6, EntryTyped, Zenon
  <2>2. \A i \in Ids : e \in Load(i) <=> i = c
    BY <1>2, <1>6, <2>1, EntryTyped, Zenon DEF Load
  <2>3. Single(c) /\ Underway(c) /\ Queued(c) # {} /\ (Lone(Queued(c)) => Queued(c)' = {})
    BY <1>4, <2>2, Zenon DEF Leaves, Whole, Good
  <2>4. /\ c \in in_use /\ Sending(c) = {} /\ Coming(c) = {} /\ c \notin held /\ Back(c) = {}
        /\ Queued(c)' = {}
    BY <2>3, Zenon DEF Single
  <2>5. \A i \in Ids : i # c => SameRest(i)
    <3>1. \A i \in Ids : i # c => Same(Queued(i), Queued(i)') /\ Same(Back(i), Back(i)')
      BY <1>1, <1>4, <2>2, RestKept, Zenon DEF Leaves
    <3> QED  BY <1>1, <2>1, <3>1, Zenon DEF SameRest
  <2>6. Parts(c)' = {} /\ Back(c)' = {}
    <3>1. Parts(c) = {}
      BY <2>3, <2>4, Zenon DEF Underway
    <3> QED  BY <1>1, <1>3, <2>4, <3>1, RestKept, Zenon DEF SameLink, Same
  <2>7. ThreadHolds' /\ c \in held'
    BY <1>1, <1>6, <2>1, Zenon DEF ThreadHolds
  <2>8. Lone(Queued(c)') /\ Lone(Back(c)')
    BY <2>4, <2>6, Zenon DEF Lone
  <2> QED  BY <1>1, <1>3, <2>4, <2>5, <2>6, <2>7, <2>8, MovedOn, Zenon
<1> QED  BY <1>5, <1>6, Zenon

\* The thread or the client returns an intent.
LEMMA GiveBackStep ==
  ASSUME Typed, Typed', Whole, NEW c \in held, GiveBack(c), ThreadHolds',
         UNCHANGED <<pc, msg, rsize, in_use, nextId, ab, rx_queue>>
  PROVE  Whole'
<1>0. c \in Ids
  BY Zenon DEF Typed, Tables
<1>1. Single(c) /\ Underway(c) /\ \A i \in Ids : Good(i)
  BY <1>0, Zenon DEF Whole, Good
<1>2. /\ c \in in_use /\ Sending(c) = {} /\ Coming(c) = {} /\ Queued(c) = {} /\ Back(c) = {}
  BY <1>1, Zenon DEF Single
<1>3. /\ held' = held \ {c} /\ ba' = Append(ba, [cmd |-> "DONE", id |-> c])
      /\ offset' = [offset EXCEPT ![c] = 0] /\ Unlist(c)
  BY Zenon DEF GiveBack
<1>4. [cmd |-> "DONE", id |-> c] \in Dones /\ [cmd |-> "DONE", id |-> c].id = c
  BY <1>0, Zenon DEF Dones
<1>5. /\ \A i \in Ids : i # c => Same(Back(i), Back(i)')
      /\ Back(c)' # {} /\ Lone(Back(c)')
  BY <1>0, <1>2, <1>3, <1>4, JoinsRest, Zenon
<1>6. \A i \in Ids : Same(Queued(i), Queued(i)') /\ SameLink(i)
  BY <1>1, RestKept, LinkKept, Zenon
<1>7. \A i \in Ids : i # c => SameRest(i)
  BY <1>3, <1>5, <1>6, Zenon DEF SameRest
<1>8. Queued(c)' = {} /\ Lone(Queued(c)') /\ Parts(c)' = {}
  <2>1. Parts(c) = {}
    BY <1>1, <1>2, Zenon DEF Underway
  <2> QED  BY <1>0, <1>2, <1>6, <2>1, Zenon DEF SameLink, Same, Lone
<1>9. offset'[c] = 0 /\ \A i \in Ids : i # c => offset'[i] = offset[i]
  BY <1>0, <1>3, Zenon DEF Typed, Tables
<1>10. /\ \A i \in Ids : i # c => lsize'[i] = lsize[i]
       /\ c \in Reusable => lsize'[c] = lsize[c]
  BY <1>0, <1>3, Zenon DEF Unlist, Typed, Tables
<1>11. c \notin held'
  BY <1>3, Zenon
<1> QED  BY <1>0, <1>2, <1>3, <1>4, <1>5, <1>6, <1>7, <1>8, <1>9, <1>10, <1>11, MovedOn, Zenon

\* The two steps that give an intent back: the callback and qcom_glink_rx_done.
LEMMA GiveBackSteps ==
  ASSUME Typed, Typed', Whole
  PROVE  ThreadDone \/ ClientDone => Whole'
<1> USE DEF req, aVars
<1>1. ASSUME ThreadDone PROVE Whole'
  <2>1. PICK c : c = thread.id
    BY Zenon
  <2>2. c \in held /\ GiveBack(c)
    BY <1>1, <2>1, Zenon DEF ThreadDone, Whole, ThreadHolds
  <2>3. ThreadHolds' /\ UNCHANGED <<pc, msg, rsize, in_use, nextId, ab, rx_queue>>
    BY <1>1, Zenon DEF ThreadDone, ThreadHolds, Idle
  <2> QED  BY <2>2, <2>3, GiveBackStep, Zenon
<1>2. ASSUME ClientDone PROVE Whole'
  <2>1. PICK c \in held :
          /\ thread # [at |-> "irq_done", id |-> c]
          /\ GiveBack(c)
          /\ thread' = IF thread = [at |-> "data", id |-> c] THEN [at |-> "deferred"] ELSE thread
    BY <1>2, Zenon DEF ClientDone
  <2>2. UNCHANGED <<pc, msg, rsize, in_use, nextId, ab, rx_queue>> /\ held' = held \ {c}
    BY <1>2, <2>1, Zenon DEF ClientDone, GiveBack
  <2>3. ASSUME thread.at \in {"data", "irq_done"}, thread.id = c, thread' = thread PROVE FALSE
    <3>1. thread \in Uploads
      BY <2>3, ThreadTyped, Zenon
    <3>2. thread = [at |-> "data", id |-> c] \/ thread = [at |-> "irq_done", id |-> c]
      BY <2>3, <3>1, Zenon DEF Uploads
    <3>3. thread = [at |-> "data", id |-> c] /\ thread' = [at |-> "deferred"]
      BY <2>1, <3>2, Zenon
    <3>4. thread'.at = "deferred"
      BY <3>3, Zenon
    <3> QED  BY <2>3, <3>4, Zenon
  <2>4. ThreadHolds'
    <3>1. CASE thread' = thread
      BY <2>2, <2>3, <3>1, Zenon DEF Whole, ThreadHolds
    <3>2. CASE thread' = [at |-> "deferred"]
      BY <3>2, Zenon DEF ThreadHolds
    <3> QED  BY <2>1, <3>1, <3>2, Zenon
  <2> QED  BY <2>1, <2>2, <2>4, GiveBackStep, Zenon
<1> QED  BY <1>1, <1>2, Zenon

\* Side A learns of an intent.
LEMMA RxIntentStep ==
  ASSUME Typed, Typed', Whole, RxIntent
  PROVE  Whole'
<1>0. PICK c, size : c = Head(ba).id /\ size = Head(ba).size
  BY Zenon
<1>1. /\ ba # <<>> /\ ba' = Tail(ba) /\ Head(ba).cmd = "INTENT"
      /\ \E z \in {0, size} : rsize' = [rsize EXCEPT ![c] = z]
      /\ UNCHANGED <<pc, msg, lsize, offset, in_use, nextId, held, ab, rx_queue, thread>>
  BY <1>0, Zenon DEF RxIntent, Got, bVars
<1>2. c \in Ids /\ c \notin Reusable /\ size \in Lens
      /\ ba \in Seq(Intents \cup Acks \cup Dones)
  BY <1>0, <1>1, HeadBack, BackTyped, Zenon
<1>3. 1 \in DOMAIN ba /\ ba[1] = Head(ba)
      /\ \A k \in DOMAIN ba' : k \in Nat /\ k >= 1 /\ k + 1 \in DOMAIN ba /\ ba'[k] = ba[k + 1]
  BY <1>1, <1>2, TailAt
<1>4. /\ c < nextId /\ c \notin in_use /\ lsize[c] = size
  BY <1>0, <1>1, <1>3, Zenon DEF Whole, Advertised
<1>5. (rsize'[c] = 0 \/ rsize'[c] = lsize[c]) /\ \A i \in Ids : i # c => rsize'[i] = rsize[i]
  BY <1>1, <1>2, <1>4, Zenon DEF Typed, Tables
<1>6. \A i \in Ids : SameSend(i) /\ SameLink(i) /\ SameRest(i)
  <2>1. \A i \in Ids : Head(ba) \notin Returned(i)
    BY <1>1, Zenon DEF Returned, Dones
  <2>2. \A i \in Ids : Same(Back(i), Back(i)')
    BY <1>1, <2>1, BackMoves, Zenon DEF Leaves
  <2>3. \A i \in Ids : SameSend(i) /\ SameLink(i)
    BY <1>1, SendKept, LinkKept, Zenon DEF Whole
  <2> QED  BY <1>1, <2>2, <2>3, RestKept, Zenon DEF SameRest
<1>7. \A i \in Ids : i # c => SameTables(i)
  <2>1. nextId' >= nextId
    BY <1>1 DEF Typed, SideB
  <2> QED  BY <1>1, <1>5, <2>1, Zenon DEF SameTables
<1>8. Good(c)'
  <2>1. Single(c)' /\ Underway(c)'
    BY <1>1, <1>2, <1>6, UseKept, Zenon DEF Whole, Good
  <2>2. rsize'[c] <= lsize[c] /\ ~ (c >= nextId)
    BY <1>2, <1>4, <1>5, TableNumbers
  <2>3. Known(c)'
    BY <1>1, <1>2, <2>2, Zenon DEF Known
  <2> QED  BY <2>1, <2>3, Zenon DEF Good
<1>9. Advertised'
  <2>1. ASSUME NEW n \in DOMAIN ba', ba'[n].cmd = "INTENT"
        PROVE  /\ n + 1 \in DOMAIN ba /\ ba'[n] = ba[n + 1] /\ ba'[n].id \in Ids
               /\ ba'[n].id # c
    <3>1. n \in Nat /\ n >= 1 /\ n + 1 \in DOMAIN ba /\ ba'[n] = ba[n + 1]
      BY <1>3, Zenon
    <3>2. ba[n + 1] \in Intents \cup Acks \cup Dones
      BY <1>2, <3>1
    <3>3. n + 1 # 1
      BY <3>1
    <3>4. ba[n + 1].id # c
      BY <1>0, <1>1, <1>3, <2>1, <3>1, <3>3 DEF Whole, Advertised
    <3> QED  BY <2>1, <3>1, <3>2, <3>4, BackTyped, Zenon
  <2>2. ASSUME NEW n \in DOMAIN ba', ba'[n].cmd = "INTENT"
        PROVE  /\ ba'[n].id < nextId' /\ ba'[n].id \notin in_use'
               /\ rsize'[ba'[n].id] = 0 /\ lsize'[ba'[n].id] = ba'[n].size
    BY <1>1, <1>5, <2>1, <2>2 DEF Whole, Advertised
  <2>3. ASSUME NEW k \in DOMAIN ba', NEW n \in DOMAIN ba', ba'[k].cmd = "INTENT",
               ba'[n].cmd = "INTENT", ba'[k].id = ba'[n].id
        PROVE  k = n
    <3>1. k + 1 = n + 1
      BY <2>1, <2>3 DEF Whole, Advertised
    <3> QED  BY <1>3, <3>1
  <2> QED  BY <2>2, <2>3, Zenon DEF Advertised
<1>10. ThreadHolds'
  BY <1>1, Zenon DEF Whole, ThreadHolds
<1> QED  BY <1>6, <1>7, <1>8, <1>9, <1>10, WholeKept, Zenon

\* Side A gets an intent back.
LEMMA RxDoneStep ==
  ASSUME Typed, Typed', Whole, RxDone
  PROVE  Whole'
<1>0. PICK c : c = Head(ba).id
  BY Zenon
<1>1. /\ ba # <<>> /\ ba' = Tail(ba) /\ Head(ba).cmd = "DONE"
      /\ in_use' = in_use \ {c}
      /\ rsize' = (IF c \in Reusable THEN rsize ELSE [rsize EXCEPT ![c] = 0])
      /\ UNCHANGED <<pc, msg, lsize, offset, nextId, held, ab, rx_queue, thread>>
  BY <1>0, Zenon DEF RxDone, Got, bVars
<1>2. c \in Ids
  BY <1>0, <1>1, HeadBack, BackTyped, Zenon
<1>3. /\ \A i \in Ids : i # c => rsize'[i] = rsize[i]
      /\ c \in Reusable => rsize'[c] = rsize[c]
      /\ c \notin Reusable => rsize'[c] = 0
  BY <1>1, <1>2, Zenon DEF Typed, Tables
<1>4. \A i \in Ids : Head(ba) \in Returned(i) <=> i = c
  BY <1>0, <1>1, HeadBack, BackTyped, Zenon DEF Returned
<1>5. \A i \in Ids : SameSend(i) /\ SameLink(i) /\ Leaves(Back(i), Back(i)', Head(ba), Returned(i))
  BY <1>1, SendKept, LinkKept, BackMoves, Zenon DEF Whole
<1>6. \A i \in Ids : i # c => SameTables(i) /\ SameRest(i)
  <2>1. nextId' >= nextId
    BY <1>1 DEF Typed, SideB
  <2>2. \A i \in Ids : i # c => Same(Back(i), Back(i)') /\ Same(Queued(i), Queued(i)')
    BY <1>1, <1>4, <1>5, RestKept, Zenon DEF Leaves
  <2> QED  BY <1>1, <1>3, <2>1, <2>2, Zenon DEF SameTables, SameRest
<1>7. /\ Single(c) /\ Underway(c) /\ Known(c)
      /\ Back(c) # {} /\ (Lone(Back(c)) => Back(c)' = {})
  BY <1>2, <1>4, <1>5, Zenon DEF Leaves, Whole, Good
<1>8. Sending(c) = {} /\ Coming(c) = {} /\ Queued(c) = {} /\ c \notin held /\ Back(c)' = {}
  BY <1>7, Zenon DEF Single
<1>9. Sending(c)' = {} /\ Single(c)'
  <2>1. Sending(c)' = {} /\ Coming(c)' = {} /\ Queued(c)' = {} /\ c \notin held'
    BY <1>1, <1>2, <1>5, <1>8, RestKept, Zenon DEF SameSend, SameLink, Same
  <2> QED  BY <1>1, <1>8, <2>1, Zenon DEF Single, Lone
<1>10. Underway(c)'
  <2>1. offset[c] = 0 /\ Parts(c) = {}
    BY <1>7, Zenon DEF Underway, Unwritten
  <2>2. Parts(c)' = {} /\ Falling(ab', c) /\ Enough(ab', c, lsize[c] - offset[c])
    BY <1>2, <1>5, <1>7, <2>1, Zenon DEF Underway, SameLink
  <2> QED  BY <1>1, <1>9, <2>1, <2>2, Zenon DEF Underway
<1>11. Known(c)'
  <2>1. Known(c) /\ lsize[c] \in Nat
    BY <1>2, <1>7, TableNumbers, Zenon
  <2>2. CASE c \in Reusable
    <3>1. rsize'[c] = 1 /\ lsize'[c] = 1
      BY <1>1, <1>3, <2>1, <2>2, Zenon DEF Known
    <3>2. c < nextId /\ nextId' = nextId /\ c \in Nat /\ nextId \in Nat
      BY <1>1, <1>2, <2>2, TableNumbers, IntentsAssumption DEF Typed, SideB, Reusable
    <3>3. ~ (c >= nextId')
      BY <3>2
    <3> QED  BY <3>1, <3>3 DEF Known
  <2>3. CASE c \notin Reusable
    <3>1. rsize'[c] = 0 /\ lsize'[c] = lsize[c] /\ 0 <= lsize[c]
      BY <1>1, <1>3, <2>1, <2>3
    <3>2. c \notin in_use'
      BY <1>1, Zenon
    <3> QED  BY <1>1, <2>1, <2>3, <3>1, <3>2, Zenon DEF Known
  <2> QED  BY <2>2, <2>3, Zenon
<1>12. Good(c)'
  BY <1>9, <1>10, <1>11, Zenon DEF Good
<1>13. Advertised' /\ ThreadHolds'
  <2>1. ThreadHolds'
    BY <1>1, Zenon DEF Whole, ThreadHolds
  <2>2. \A j \in Ids : j < nextId /\ j \notin in_use /\ rsize[j] = 0 =>
                          j \notin in_use' /\ rsize'[j] = 0 /\ lsize'[j] = lsize[j]
    BY <1>1, <1>3, Zenon
  <2> QED  BY <1>1, <2>1, <2>2, AdvertisedKept, Zenon DEF Whole
<1> QED  BY <1>5, <1>6, <1>12, <1>13, WholeKept, Zenon

\* The thread makes an intent and advertises it.
LEMMA ThreadNewStep ==
  ASSUME Typed, Typed', Spare, Whole, ThreadNew
  PROVE  Whole'
<1>0. PICK c, size : c = nextId /\ size = thread.size
  BY Zenon
<1>1. /\ lsize' = [lsize EXCEPT ![c] = size] /\ nextId' = c + 1
      /\ ba' = Append(ba, [cmd |-> "INTENT", id |-> c, size |-> size])
      /\ thread'.at = "ack"
      /\ UNCHANGED <<pc, msg, rsize, in_use, offset, held, ab, rx_queue>>
  BY <1>0, Zenon DEF ThreadNew, req, aVars
<1>2. /\ c \in Ids /\ c \notin Reusable /\ size \in Lens /\ c \in Nat
      /\ ba \in Seq(Intents \cup Acks \cup Dones)
  BY <1>0, NewIdFree, NumberSets, Zenon DEF ThreadNew, Typed, Links
<1>3. PICK m : m = [cmd |-> "INTENT", id |-> c, size |-> size] /\ m \in Intents
  <2>1. [cmd |-> "INTENT", id |-> c, size |-> size] \in Intents
    BY <1>2, Zenon DEF Intents
  <2> QED  BY <2>1, Zenon
<1>4. m.cmd = "INTENT" /\ m.id = c /\ m.size = size
  BY <1>3, Zenon
<1>5. Single(c) /\ Underway(c) /\ rsize[c] = 0 /\ lsize[c] = 0 /\ c \notin in_use
  BY <1>0, <1>2 DEF Whole, Good, Known
<1>6. lsize'[c] = size /\ \A i \in Ids : i # c => lsize'[i] = lsize[i]
  BY <1>1, <1>2, Zenon DEF Typed, Tables
<1>7. \A i \in Ids : SameSend(i) /\ SameLink(i) /\ SameRest(i)
  <2>1. \A i \in Ids : SameSend(i) /\ SameLink(i)
    BY <1>1, SendKept, LinkKept, Zenon DEF Whole
  <2>2. \A i \in Ids : m \notin Returned(i)
    BY <1>4, Zenon DEF Returned, Dones
  <2>3. \A i \in Ids : Same(Back(i), Back(i)')
    BY <1>1, <1>3, <2>2, BackMoves, Zenon DEF Joins, Same
  <2> QED  BY <1>1, <2>1, <2>3, RestKept, Zenon DEF SameRest
<1>8. \A i \in Ids : i # c => SameTables(i)
  <2>1. nextId' >= nextId
    BY <1>0, <1>1, <1>2
  <2> QED  BY <1>1, <1>6, <2>1, Zenon DEF SameTables
<1>9. Sending(c)' = {} /\ Single(c)'
  <2>1. Sending(c) = {} /\ Coming(c) = {} /\ Queued(c) = {} /\ c \notin held /\ Back(c) = {}
    BY <1>5, Zenon DEF Single
  <2>2. Sending(c)' = {} /\ Coming(c)' = {} /\ Queued(c)' = {} /\ c \notin held' /\ Back(c)' = {}
    BY <1>2, <1>7, <2>1, Zenon DEF SameSend, SameLink, SameRest, Same
  <2> QED  BY <1>1, <1>5, <2>2, Zenon DEF Single, Lone
<1>11. Underway(c)'
  <2>1. offset[c] = 0 /\ Parts(c) = {}
    BY <1>5, Zenon DEF Underway, Unwritten
  <2>2. Parts(c)' = {} /\ Falling(ab', c)
    BY <1>2, <1>5, <1>7, <2>1, Zenon DEF Underway, SameLink
  <2>3. \A r : Enough(ab', c, r)
    BY <2>2, PartsAre, Zenon DEF Enough
  <2> QED  BY <1>1, <1>9, <2>1, <2>2, <2>3, Zenon DEF Underway
<1>12. Known(c)'
  <2>1. ~ (c >= c + 1) /\ rsize[c] <= size
    BY <1>2, <1>5, NumberSets
  <2> QED  BY <1>1, <1>2, <1>6, <2>1, Zenon DEF Known
<1>13. Good(c)'
  BY <1>9, <1>11, <1>12, Zenon DEF Good
<1>14. Advertised'
  <2>1. /\ DOMAIN ba' = DOMAIN ba \cup {Len(ba) + 1} /\ ba'[Len(ba) + 1] = m
        /\ \A k \in DOMAIN ba : ba'[k] = ba[k] /\ ba[k] \in Intents \cup Acks \cup Dones
    <3>1. m \in Intents \cup Acks \cup Dones /\ ba' = Append(ba, m)
      BY <1>1, <1>3, Zenon
    <3>2. \A k \in DOMAIN ba : ba[k] \in Intents \cup Acks \cup Dones
      BY <1>2
    <3>3. /\ DOMAIN Append(ba, m) = DOMAIN ba \cup {Len(ba) + 1}
          /\ Append(ba, m)[Len(ba) + 1] = m /\ \A k \in DOMAIN ba : Append(ba, m)[k] = ba[k]
      BY <1>2, <3>1, AppendAt
    <3> QED  BY <3>1, <3>2, <3>3, Zenon
  <2>2. ASSUME NEW n \in DOMAIN ba, ba[n].cmd = "INTENT"
        PROVE  /\ ba[n].id < c /\ ba[n].id \notin in_use /\ ba[n].id # c /\ ba[n].id < c + 1
               /\ rsize[ba[n].id] = 0 /\ lsize'[ba[n].id] = ba[n].size
    <3>1. ba[n].id \in Ids /\ ba[n].id \in Nat
      BY <2>1, <2>2, BackTyped, NumberSets, ZenonT(30)
    <3>2. ba[n].id < c /\ ba[n].id \notin in_use /\ rsize[ba[n].id] = 0
          /\ lsize[ba[n].id] = ba[n].size
      BY <1>0, <2>2, Zenon DEF Whole, Advertised
    <3>3. ba[n].id # c /\ ba[n].id < c + 1
      BY <1>2, <3>1, <3>2
    <3> QED  BY <1>6, <3>1, <3>2, <3>3, Zenon
  <2>3. ASSUME NEW n \in DOMAIN ba', ba'[n].cmd = "INTENT"
        PROVE  /\ ba'[n].id < nextId' /\ ba'[n].id \notin in_use'
               /\ rsize'[ba'[n].id] = 0 /\ lsize'[ba'[n].id] = ba'[n].size
    <3>1. CASE n \in DOMAIN ba
      BY <1>1, <2>1, <2>2, <2>3, <3>1, Zenon
    <3>2. CASE n = Len(ba) + 1
      BY <1>1, <1>2, <1>4, <1>5, <1>6, <2>1, <3>2
    <3> QED  BY <2>1, <3>1, <3>2, Zenon
  <2>4. ASSUME NEW k \in DOMAIN ba', NEW n \in DOMAIN ba', ba'[k].cmd = "INTENT",
               ba'[n].cmd = "INTENT", ba'[k].id = ba'[n].id
        PROVE  k = n
    <3>1. CASE k \in DOMAIN ba /\ n \in DOMAIN ba
      BY <2>1, <2>4, <3>1, Zenon DEF Whole, Advertised
    <3>2. CASE k \in DOMAIN ba /\ n = Len(ba) + 1
      BY <1>4, <2>1, <2>2, <2>4, <3>2, Zenon
    <3>3. CASE n \in DOMAIN ba /\ k = Len(ba) + 1
      BY <1>4, <2>1, <2>2, <2>4, <3>3, Zenon
    <3> QED  BY <2>1, <3>1, <3>2, <3>3, Zenon
  <2> QED  BY <2>3, <2>4, Zenon DEF Advertised
<1>15. ThreadHolds'
  BY <1>1, Zenon DEF ThreadHolds
<1> QED  BY <1>7, <1>8, <1>13, <1>14, <1>15, WholeKept, Zenon

\* All steps together.
LEMMA WholeStep ==
  ASSUME Typed, Typed', Choice, Spare, Whole, ~ abort_tx, ~ abort_tx', [Next]_vars
  PROVE  Whole'
<1>1. /\ \A s \in Senders : Begin(s) \/ FindNone(s) \/ ReqReset(s) \/ ReqSend(s)
                            \/ ReqAnswered(s) \/ ReqTimeout(s) => Whole'
      /\ RxReqAck \/ RxReq \/ WorkReuse \/ WorkNew \/ WorkRefused => Whole'
      /\ ThreadDefer \/ ThreadAck \/ ThreadNoMem \/ vars' = vars => Whole'
  BY QuietSteps, Zenon
<1>2. \A s \in Senders : Find(s) \/ TryFull(s) \/ SendChunk(s) => Whole'
  BY FindStep, TryFullStep, SendChunkStep, Zenon
<1>3. RxDataPart \/ RxIntent \/ RxDone \/ ThreadTake \/ ThreadNew => Whole'
  BY RxDataPartStep, RxIntentStep, RxDoneStep, ThreadTakeStep, ThreadNewStep, Zenon
<1>4. RxData \/ RxDataIrq \/ RxDataIrqFull \/ RxDataIrqDefer => Whole'
  BY RxDataSteps, Zenon
<1>5. ThreadDone \/ ClientDone => Whole'
  BY GiveBackSteps, Zenon
<1>6. (\A s \in Senders : ~ TxAborted(s)) /\ ~ Crash
  BY Zenon DEF TxAborted, Crash
<1> QED  BY <1>1, <1>2, <1>3, <1>4, <1>5, <1>6, NextCases, Zenon

=============================================================================
