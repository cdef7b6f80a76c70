-------------------------- MODULE GunyahPipeProofs --------------------------
(***************************************************************************)
(* No unread word of the ring of GunyahPipe is ever overwritten, for any   *)
(* length of the ring, any reserve and any packets, also when headers are  *)
(* read too early and senders time out; and until one of the two happens   *)
(* the ring implements a queue of packets.                                 *)
(***************************************************************************)
EXTENDS GunyahPipe, TLAPS

\* Words that were copied to the ring but are not published yet.
Pending == IF txpc = "publish" THEN chunk ELSE 0

\* What the sender knows: there is a packet, and its chunk still fits.
TxInv ==
  /\ txpc # "idle" => sent # <<>>
  /\ txpc \in {"copy", "publish"} => /\ chunk <= left
                                     /\ gunyah_rx_avail + chunk + Reserve <= Length

\* The packet in ring is no longer than it should be.
RxInv ==
  /\ Len(ring.buf) <= ring.len
  /\ rxpc = "read" => Len(ring.buf) <= pkt_len

\* The ring holds the words written and not consumed, and keeps the reserve.
RingInv ==
  /\ gunyah_rx_avail + Reserve <= Length
  /\ written = consumed + gunyah_rx_avail + Pending
  /\ \A j \in Slots : Behind(tail, j) < gunyah_rx_avail + Pending =>
                        fifo[j].n = consumed + Behind(tail, j)

PipeInv == TypeOK /\ TxInv /\ RxInv /\ RingInv

-----------------------------------------------------------------------------
(* The arithmetic of the ring *)

\* Behind is a distance below Length.
LEMMA BehindType ==
  ASSUME NEW i \in Slots, NEW j \in Slots
  PROVE  Behind(i, j) \in 0..(Length - 1)
BY PipeAssumption DEF Behind, Slots

\* An index moved on by at most Length words stays in the ring.
LEMMA AdvanceType ==
  ASSUME NEW i \in Slots, NEW k \in 0..Length
  PROVE  Advance(i, k) \in Slots
BY PipeAssumption DEF Advance, Slots

\* gunyah_rx_avail is how far head is behind tail.
LEMMA AvailType ==
  ASSUME TypeOK
  PROVE  /\ gunyah_rx_avail \in 0..(Length - 1)
         /\ gunyah_rx_avail = Behind(tail, head)
         /\ gunyah_tx_avail \in Nat
         /\ gunyah_tx_avail > 0 => gunyah_rx_avail + gunyah_tx_avail + Reserve = Length
BY PipeAssumption DEF TypeOK, Slots, Behind, gunyah_rx_avail, gunyah_tx_avail

\* Consuming k words brings every slot behind them k words closer.
LEMMA BehindAdvance ==
  ASSUME NEW i \in Slots, NEW j \in Slots, NEW k \in 0..(Length - 1)
  PROVE  Behind(Advance(i, k), j) =
           IF Behind(i, j) >= k THEN Behind(i, j) - k ELSE Behind(i, j) + Length - k
BY PipeAssumption DEF Behind, Advance, Slots

\* A slot seen from tail and from head.
LEMMA BehindHead ==
  ASSUME TypeOK, NEW j \in Slots
  PROVE  /\ Behind(tail, j) < gunyah_rx_avail =>
              Behind(head, j) = Behind(tail, j) + Length - gunyah_rx_avail
         /\ Behind(tail, j) >= gunyah_rx_avail =>
              Behind(head, j) = Behind(tail, j) - gunyah_rx_avail
BY PipeAssumption, SMTT(20) DEF TypeOK, Slots, Behind, gunyah_rx_avail
-----------------------------------------------------------------------------
(* The steps *)

\* Next, one disjunct per action.
LEMMA NextCases ==
  ASSUME [Next]_vars
  PROVE  \/ \E size \in Sizes : Send(size)
         \/ TxFull
         \/ TxChunk
         \/ TxWait
         \/ TxCallback
         \/ TxTimeout
         \/ TxCopy
         \/ TxPublish
         \/ TxKick
         \/ RxCallback
         \/ RxEmpty
         \/ ReadHeader
         \/ ReadFrag
         \/ ReadInvalid
         \/ ReadWords
         \/ RxNotify
         \/ UNCHANGED vars
BY Zenon DEF Next, Sender, Reader

\* A packet is a sequence of positions.
LEMMA WordsType ==
  ASSUME NEW p \in Nat, NEW size \in Nat
  PROVE  Words(p, size) \in Seq(Nat) /\ Len(Words(p, size)) = size
BY DEF Words

\* The length of two sequences put together.
LEMMA ConcatLen ==
  ASSUME NEW s \in Seq(Nat), NEW t \in Seq(Nat)
  PROVE  Len(s \o t) = Len(s) + Len(t)
OBVIOUS

\* What ReadWords appends to the packet in ring.
LEMMA TakenType ==
  ASSUME TypeOK, NEW k \in 0..Length
  PROVE  LET taken == [i \in 1..k |-> fifo[Advance(tail, i - 1)].n]
         IN  taken \in Seq(Nat) /\ Len(taken) = k
<1>1. \A i \in 1..k : fifo[Advance(tail, i - 1)].n \in Nat
  <2>1. TAKE i \in 1..k
  <2>2. Advance(tail, i - 1) \in Slots
    <3>1. i - 1 \in 0..Length
      BY PipeAssumption
    <3>2. QED
      BY <3>1, AdvanceType, Zenon DEF TypeOK
  <2>3. QED
    BY <2>2, Zenon DEF TypeOK
<1>2. k \in Nat
  BY PipeAssumption
<1>3. QED
  BY <1>1, <1>2

\* Every step keeps the types.
LEMMA TypeStep ==
  ASSUME PipeInv, [Next]_vars
  PROVE  TypeOK'
<1>1. ASSUME NEW size \in Sizes, Send(size) PROVE TypeOK'
  <2>1. size \in Nat /\ sent' \in Seq(Seq(Nat))
    BY <1>1, PipeAssumption, WordsType DEF PipeInv, TypeOK, Send
  <2>2. QED
    BY <1>1, <2>1, Zenon DEF PipeInv, TypeOK, shared, rxVars, Send, TxGoto
<1>2. CASE TxFull
  BY <1>2, PipeAssumption, Zenon DEF PipeInv, TypeOK, shared, txVars, rxVars, TxFull, TxGoto
<1>3. CASE TxChunk
  <2>1. chunk' \in Nat
    BY <1>3, AvailType, Zenon DEF PipeInv, TypeOK, TxChunk
  <2>2. QED
    BY <1>3, <2>1, Zenon DEF PipeInv, TypeOK, shared, rxVars, TxChunk, TxGoto
<1>4. CASE TxWait
  BY <1>4, PipeAssumption, Zenon DEF PipeInv, TypeOK, shared, txVars, rxVars, TxWait, TxGoto
<1>5. CASE TxCallback
  BY ZenonT(30), <1>5, PipeAssumption DEF PipeInv, TypeOK, shared, txVars, rxVars, TxCallback, TxGoto
<1>6. CASE TxTimeout
  <2>1. sent # <<>>
    BY <1>6, Zenon DEF PipeInv, TxInv, TxTimeout
  <2>2. SubSeq(sent, 1, Len(sent) - 1) \in Seq(Seq(Nat))
    BY <2>1 DEF PipeInv, TypeOK
  <2>3. sent' \in Seq(Seq(Nat))
    BY <1>6, <2>2, Zenon DEF PipeInv, TypeOK, TxTimeout
  <2>4. spoilt' \in BOOLEAN
    BY <1>6, Zenon DEF PipeInv, TypeOK, TxTimeout
  <2> QED
    BY <1>6, <2>3, <2>4, PipeAssumption, Zenon DEF PipeInv, TypeOK, shared, rxVars, TxTimeout
<1>7. CASE TxCopy
  <2>1. Len(sent[Len(sent)]) \in Nat
    <3>1. Len(sent) \in DOMAIN sent
      BY <1>7 DEF PipeInv, TypeOK, TxInv, TxCopy
    <3>2. sent[Len(sent)] \in Seq(Nat)
      BY <3>1 DEF PipeInv, TypeOK
    <3>3. QED
      BY <3>2
  <2>2. ASSUME NEW j \in Slots
        PROVE  fifo'[j] \in [n : Nat, size : Nat]
    <3> DEFINE k == Behind(head, j)
               at == Len(sent[Len(sent)]) - left + k + 1
               size == IF at = SizeWord THEN Len(sent[Len(sent)]) ELSE 0
    <3>1. k \in Nat
      BY BehindType, PipeAssumption DEF PipeInv, TypeOK
    <3>2. size \in Nat
      BY <2>1, Zenon
    <3>3. fifo'[j] = IF k < chunk THEN [n |-> written + k, size |-> size] ELSE fifo[j]
      BY <1>7, Zenon DEF TxCopy
    <3>4. fifo[j] \in [n : Nat, size : Nat] /\ written + k \in Nat
      BY <3>1 DEF PipeInv, TypeOK
    <3> HIDE DEF k, size
    <3>5. QED
      BY <3>2, <3>3, <3>4
  <2>3. fifo' \in [Slots -> [n : Nat, size : Nat]]
    BY <1>7, <2>2, Zenon DEF TxCopy
  <2>4. QED
    BY <1>7, <2>3 DEF PipeInv, TypeOK, rxVars, TxCopy, TxGoto
<1>8. CASE TxPublish
  <2>1. head' \in Slots
    <3>0. gunyah_rx_avail \in 0..(Length - 1)
      BY AvailType, Zenon DEF PipeInv
    <3>1. chunk \in 0..Length
      BY <1>8, <3>0, PipeAssumption DEF PipeInv, TypeOK, TxInv, TxPublish
    <3>2. QED
      BY <1>8, <3>1, AdvanceType, Zenon DEF PipeInv, TypeOK, TxPublish
  <2>2. left' \in Nat
    BY <1>8 DEF PipeInv, TypeOK, TxInv, TxPublish
  <2>3. QED
    BY <1>8, <2>1, <2>2, Zenon DEF PipeInv, TypeOK, rxVars, TxPublish, TxGoto
<1>9. CASE TxKick
  BY <1>9, PipeAssumption, Zenon DEF PipeInv, TypeOK, shared, txVars, rxVars, TxKick, TxGoto
<1>10. CASE RxCallback
  BY ZenonT(30), <1>10, PipeAssumption DEF PipeInv, TypeOK, shared, txVars, rxVars, RxCallback, RxGoto
<1>11. CASE RxEmpty
  BY <1>11, PipeAssumption DEF PipeInv, TypeOK, shared, txVars, rxVars, RxEmpty, RxGoto
<1>12. CASE ReadHeader
  <2>1. pkt_len' \in Nat
    <3>1. Advance(tail, SizeWord - 1) \in Slots
      BY PipeAssumption, AdvanceType DEF PipeInv, TypeOK
    <3>2. fifo[Advance(tail, SizeWord - 1)].size \in Nat
      BY <3>1, Zenon DEF PipeInv, TypeOK
    <3>3. \/ pkt_len' = fifo[Advance(tail, SizeWord - 1)].size
          \/ pkt_len' \in Sizes \cup {0}
      BY <1>12, Zenon DEF ReadHeader
    <3>4. Sizes \cup {0} \subseteq Nat
      BY PipeAssumption
    <3>5. QED
      BY <3>2, <3>3, <3>4, Zenon
  <2>2. QED
    BY <1>12, <2>1, Zenon DEF PipeInv, TypeOK, shared, txVars, ReadHeader, RxGoto
<1>13. CASE ReadFrag
  BY <1>13, PipeAssumption, Zenon DEF PipeInv, TypeOK, shared, txVars, rxVars, ReadFrag, RxGoto
<1>14. CASE ReadInvalid
  <2>1. tail' \in Slots /\ consumed' \in Nat
    <3>1. gunyah_rx_avail \in 0..Length
      BY AvailType, PipeAssumption DEF PipeInv
    <3>2. tail \in Slots /\ consumed \in Nat
      BY Zenon DEF PipeInv, TypeOK
    <3>3. Advance(tail, gunyah_rx_avail) \in Slots
      BY <3>1, <3>2, AdvanceType, Zenon
    <3>4. QED
      BY <1>14, <3>1, <3>2, <3>3, PipeAssumption DEF ReadInvalid, RxAdvance
  <2>2. QED
    BY <1>14, <2>1 DEF PipeInv, TypeOK, txVars, ReadInvalid, RxGoto
<1>15. CASE ReadWords
  <2> DEFINE missing == pkt_len - Len(ring.buf)
             k == IF gunyah_rx_avail > missing THEN missing ELSE gunyah_rx_avail
             taken == [i \in 1..k |-> fifo[Advance(tail, i - 1)].n]
  <2>1. k \in 0..Length
    <3>1. gunyah_rx_avail \in 0..(Length - 1)
      BY AvailType, Zenon DEF PipeInv
    <3>2. missing \in Nat
      BY <1>15 DEF PipeInv, TypeOK, RxInv, ReadWords
    <3>3. QED
      BY <3>1, <3>2, PipeAssumption
  <2>2. tail' \in Slots /\ consumed' \in Nat
    <3>1. tail \in Slots /\ consumed \in Nat
      BY Zenon DEF PipeInv, TypeOK
    <3>2. Advance(tail, k) \in Slots
      BY <2>1, <3>1, AdvanceType, Zenon
    <3>3. tail' = Advance(tail, k) /\ consumed' = consumed + k
      BY <1>15, Zenon DEF ReadWords, RxAdvance
    <3>4. QED
      BY <2>1, <3>1, <3>2, <3>3, PipeAssumption
  <2>3. taken \in Seq(Nat)
    BY <2>1, TakenType, Zenon DEF PipeInv
  <2>4. ring.buf \o taken \in Seq(Nat)
    BY <2>3 DEF PipeInv, TypeOK
  <2> HIDE DEF taken
  <2>5. ring' \in [buf : Seq(Nat), len : Nat] /\ posted' \in Seq(Seq(Nat))
    <3>1. CASE k = missing
      <4>1. posted' = Append(posted, ring.buf \o taken) /\ ring' = [buf |-> <<>>, len |-> 0]
        BY ZenonT(30), <1>15, <3>1 DEF ReadWords, taken
      <4>2. QED
        BY <2>4, <4>1 DEF PipeInv, TypeOK
    <3>2. CASE k # missing
      <4>1. posted' = posted /\ ring' = [buf |-> ring.buf \o taken, len |-> pkt_len]
        BY ZenonT(30), <1>15, <3>2 DEF ReadWords, taken
      <4>2. QED
        BY <2>4, <4>1, Zenon DEF PipeInv, TypeOK
    <3>3. QED
      BY <3>1, <3>2, Zenon
  <2>6. QED
    BY <1>15, <2>2, <2>5 DEF PipeInv, TypeOK, txVars, ReadWords, RxGoto
<1>16. CASE RxNotify
  BY <1>16, PipeAssumption, Zenon DEF PipeInv, TypeOK, shared, txVars, rxVars, RxNotify, RxGoto
<1>17. CASE UNCHANGED vars
  BY <1>17 DEF PipeInv, TypeOK, shared, txVars, rxVars, vars
<1>18. QED
  BY NextCases, <1>1, <1>2, <1>3, <1>4, <1>5, <1>6, <1>7, <1>8, <1>9, <1>10, <1>11, <1>12, <1>13, <1>14, <1>15, <1>16, <1>17, Zenon

\* Taking words leaves fewer of them.
LEMMA AvailAfterRead ==
  ASSUME TypeOK, NEW k \in 0..Length, k <= gunyah_rx_avail,
         tail' = Advance(tail, k), head' = head
  PROVE  gunyah_rx_avail' = gunyah_rx_avail - k
BY PipeAssumption DEF TypeOK, Slots, Advance, gunyah_rx_avail

\* Publishing a chunk that fits leaves more of them.
LEMMA AvailAfterPublish ==
  ASSUME TypeOK, chunk + gunyah_rx_avail < Length,
         head' = Advance(head, chunk), tail' = tail
  PROVE  gunyah_rx_avail' = gunyah_rx_avail + chunk
BY PipeAssumption DEF TypeOK, Slots, Advance, gunyah_rx_avail

\* What is missing of the packet being put together is not negative.
LEMMA MissingType ==
  ASSUME PipeInv, ReadWords
  PROVE  pkt_len - Len(ring.buf) \in Nat
<1>1. rxpc = "read"
  BY Zenon DEF ReadWords
<1>2. pkt_len \in Nat /\ ring.buf \in Seq(Nat)
  BY Zenon DEF PipeInv, TypeOK
<1>3. Len(ring.buf) <= pkt_len
  BY <1>1, Zenon DEF PipeInv, RxInv
<1>4. Len(ring.buf) \in Nat
  BY <1>2
<1> QED
  BY <1>2, <1>3, <1>4

\* What a reading step takes.
LEMMA ReadTakes ==
  ASSUME PipeInv, ReadInvalid \/ ReadWords
  PROVE  \E k \in 0..Length :
           /\ k <= gunyah_rx_avail
           /\ tail' = Advance(tail, k) /\ consumed' = consumed + k
           /\ gunyah_rx_avail' = gunyah_rx_avail - k
           /\ head' = head /\ fifo' = fifo
           /\ UNCHANGED txVars
<1>1. TypeOK /\ gunyah_rx_avail \in 0..(Length - 1)
  BY AvailType, Zenon DEF PipeInv
<1>2. CASE ReadInvalid
  <2>1. gunyah_rx_avail \in 0..Length
    BY <1>1, PipeAssumption
  <2>2. tail' = Advance(tail, gunyah_rx_avail) /\ head' = head
    BY <1>2, Zenon DEF ReadInvalid, RxAdvance
  <2>3. gunyah_rx_avail' = gunyah_rx_avail - gunyah_rx_avail
    BY <1>1, <2>1, <2>2, AvailAfterRead
  <2>4. QED
    BY <1>2, <2>1, <2>2, <2>3 DEF ReadInvalid, RxAdvance, RxGoto
<1>3. CASE ReadWords
  <2> DEFINE missing == pkt_len - Len(ring.buf)
             k == IF gunyah_rx_avail > missing THEN missing ELSE gunyah_rx_avail
  <2>1. missing \in Nat
    BY <1>3, MissingType, Zenon
  <2>2. k \in 0..Length /\ k <= gunyah_rx_avail
    <3>1. gunyah_rx_avail \in 0..Length
      BY <1>1, PipeAssumption
    <3> HIDE DEF missing
    <3> QED
      BY <2>1, <3>1, PipeAssumption
  <2>3. tail' = Advance(tail, k) /\ consumed' = consumed + k
    BY ZenonT(30), <1>3 DEF ReadWords, RxAdvance
  <2>4. head' = head /\ fifo' = fifo /\ UNCHANGED txVars
    BY ZenonT(30), <1>3 DEF ReadWords, RxGoto
  <2> HIDE DEF k
  <2>5. gunyah_rx_avail' = gunyah_rx_avail - k
    BY <1>1, <2>2, <2>3, <2>4, AvailAfterRead, Zenon
  <2>6. QED
    BY <2>2, <2>3, <2>4, <2>5, Zenon
<1>4. QED
  BY <1>2, <1>3, Zenon

\* Every step keeps what the sender relies on: its chunk fits although tail
\* moved since the sender looked.
LEMMA TxStep ==
  ASSUME PipeInv, [Next]_vars
  PROVE  TxInv'
<1>1. ASSUME NEW size \in Sizes, Send(size) PROVE TxInv'
  <2>1. sent' # <<>>
    <3> DEFINE pkt == Words(written, size)
    <3>1. pkt \in Seq(Nat)
      BY PipeAssumption, WordsType, Zenon DEF PipeInv, TypeOK
    <3>2. sent' = Append(sent, pkt) /\ sent \in Seq(Seq(Nat))
      BY <1>1, Zenon DEF PipeInv, TypeOK, Send
    <3> HIDE DEF pkt
    <3>3. QED
      BY <3>1, <3>2
  <2>2. QED
    BY <1>1, <2>1, Zenon DEF TxInv, Send, TxGoto
<1>2. CASE TxFull
  BY <1>2, PipeAssumption, Zenon DEF PipeInv, TypeOK, TxInv, shared, txVars, rxVars, gunyah_rx_avail, TxFull, TxGoto
<1>3. CASE TxChunk
  <2>1. gunyah_rx_avail' = gunyah_rx_avail
    BY <1>3, Zenon DEF TxChunk, shared, gunyah_rx_avail
  <2>2. /\ gunyah_rx_avail \in 0..(Length - 1)
        /\ gunyah_tx_avail \in Nat
        /\ gunyah_rx_avail + gunyah_tx_avail + Reserve = Length
    BY <1>3, AvailType, Zenon DEF PipeInv, TxChunk
  <2>3. chunk' <= left' /\ chunk' <= gunyah_tx_avail /\ chunk' \in Nat
    BY <1>3, <2>2 DEF PipeInv, TypeOK, TxChunk
  <2>4. gunyah_rx_avail + chunk' + Reserve <= Length
    <3>1. chunk' <= gunyah_tx_avail /\ chunk' \in Nat
      BY <2>3, Zenon
    <3>2. ASSUME NEW r \in Nat, NEW t \in Nat, NEW c \in Nat, r + t + Reserve = Length, c <= t
          PROVE  r + c + Reserve <= Length
      BY <3>2, PipeAssumption
    <3>3. gunyah_rx_avail \in Nat
      BY <2>2, PipeAssumption
    <3>4. QED
      BY <2>2, <3>1, <3>2, <3>3, Zenon
  <2>5. sent' # <<>>
    BY <1>3, Zenon DEF PipeInv, TxInv, TxChunk
  <2>6. QED
    BY <2>1, <2>3, <2>4, <2>5, Zenon DEF TxInv
<1>4. CASE TxWait
  BY <1>4, PipeAssumption, Zenon DEF PipeInv, TypeOK, TxInv, shared, txVars, rxVars, gunyah_rx_avail, TxWait, TxGoto
<1>5. CASE TxCallback
  BY <1>5, PipeAssumption, Zenon DEF PipeInv, TypeOK, TxInv, shared, txVars, rxVars, gunyah_rx_avail, TxCallback, TxGoto
<1>6. CASE TxTimeout
  BY <1>6, PipeAssumption, Zenon DEF PipeInv, TypeOK, TxInv, shared, txVars, rxVars, gunyah_rx_avail, TxTimeout, TxGoto
<1>7. CASE TxCopy
  BY <1>7, PipeAssumption, Zenon DEF PipeInv, TypeOK, TxInv, shared, txVars, rxVars, gunyah_rx_avail, TxCopy, TxGoto
<1>8. CASE TxPublish
  BY <1>8, Zenon DEF PipeInv, TxInv, TxPublish, TxGoto
<1>9. CASE TxKick
  BY <1>9, PipeAssumption, Zenon DEF PipeInv, TypeOK, TxInv, shared, txVars, rxVars, gunyah_rx_avail, TxKick, TxGoto
<1>10. CASE RxCallback
  BY <1>10, PipeAssumption, Zenon DEF PipeInv, TypeOK, TxInv, shared, txVars, rxVars, gunyah_rx_avail, RxCallback, RxGoto
<1>11. CASE RxEmpty
  BY <1>11, PipeAssumption, Zenon DEF PipeInv, TypeOK, TxInv, shared, txVars, rxVars, gunyah_rx_avail, RxEmpty, RxGoto
<1>12. CASE ReadHeader
  BY <1>12, PipeAssumption, Zenon DEF PipeInv, TypeOK, TxInv, shared, txVars, rxVars, gunyah_rx_avail, ReadHeader, RxGoto
<1>13. CASE ReadFrag
  BY <1>13, PipeAssumption, Zenon DEF PipeInv, TypeOK, TxInv, shared, txVars, rxVars, gunyah_rx_avail, ReadFrag, RxGoto
<1>14. CASE ReadInvalid
  <2>1. gunyah_rx_avail \in 0..(Length - 1)
    BY AvailType, Zenon DEF PipeInv
  <2>2. PICK k \in 0..Length : /\ k <= gunyah_rx_avail
                               /\ gunyah_rx_avail' = gunyah_rx_avail - k
                               /\ UNCHANGED txVars
    BY <1>14, ReadTakes, Zenon
  <2>3. QED
    BY <2>1, <2>2, PipeAssumption DEF PipeInv, TypeOK, TxInv, txVars
<1>15. CASE ReadWords
  <2>1. gunyah_rx_avail \in 0..(Length - 1)
    BY AvailType, Zenon DEF PipeInv
  <2>2. PICK k \in 0..Length : /\ k <= gunyah_rx_avail
                               /\ gunyah_rx_avail' = gunyah_rx_avail - k
                               /\ UNCHANGED txVars
    BY <1>15, ReadTakes, Zenon
  <2>3. QED
    BY <2>1, <2>2, PipeAssumption DEF PipeInv, TypeOK, TxInv, txVars
<1>16. CASE RxNotify
  BY <1>16, PipeAssumption, Zenon DEF PipeInv, TypeOK, TxInv, shared, txVars, rxVars, gunyah_rx_avail, RxNotify, RxGoto
<1>17. CASE UNCHANGED vars
  BY <1>17, Zenon DEF PipeInv, TypeOK, TxInv, shared, txVars, rxVars, gunyah_rx_avail, vars
<1>18. QED
  BY NextCases, <1>1, <1>2, <1>3, <1>4, <1>5, <1>6, <1>7, <1>8, <1>9, <1>10, <1>11, <1>12, <1>13, <1>14, <1>15, <1>16, <1>17, Zenon

\* Every step keeps the bounds on the packet in ring.
LEMMA RxStep ==
  ASSUME PipeInv, [Next]_vars
  PROVE  RxInv'
<1>1. ASSUME NEW size \in Sizes, Send(size) PROVE RxInv'
  BY <1>1, PipeAssumption, Zenon DEF PipeInv, TypeOK, RxInv, rxVars, Send, TxGoto
<1>2. CASE TxFull
  BY <1>2, PipeAssumption, Zenon DEF PipeInv, TypeOK, RxInv, rxVars, TxFull, TxGoto
<1>3. CASE TxChunk
  BY <1>3, PipeAssumption, Zenon DEF PipeInv, TypeOK, RxInv, rxVars, TxChunk, TxGoto
<1>4. CASE TxWait
  BY <1>4, PipeAssumption, Zenon DEF PipeInv, TypeOK, RxInv, rxVars, TxWait, TxGoto
<1>5. CASE TxCallback
  BY <1>5, PipeAssumption, Zenon DEF PipeInv, TypeOK, RxInv, rxVars, TxCallback, TxGoto
<1>6. CASE TxTimeout
  BY <1>6, PipeAssumption, Zenon DEF PipeInv, TypeOK, RxInv, rxVars, TxTimeout, TxGoto
<1>7. CASE TxCopy
  BY <1>7, PipeAssumption, Zenon DEF PipeInv, TypeOK, RxInv, rxVars, TxCopy, TxGoto
<1>8. CASE TxPublish
  BY <1>8, PipeAssumption, Zenon DEF PipeInv, TypeOK, RxInv, rxVars, TxPublish, TxGoto
<1>9. CASE TxKick
  BY <1>9, PipeAssumption, Zenon DEF PipeInv, TypeOK, RxInv, rxVars, TxKick, TxGoto
<1>10. CASE RxCallback
  BY <1>10, PipeAssumption, Zenon DEF PipeInv, TypeOK, RxInv, rxVars, RxCallback, RxGoto
<1>11. CASE RxEmpty
  BY <1>11, PipeAssumption, Zenon DEF PipeInv, TypeOK, RxInv, rxVars, RxEmpty, RxGoto
<1>12. CASE ReadHeader
  <2>1. pkt_len' \in Nat
    BY <1>12, TypeStep, Zenon DEF TypeOK
  <2>2. QED
    BY <1>12, <2>1 DEF PipeInv, TypeOK, RxInv, ReadHeader, RxGoto
<1>13. CASE ReadFrag
  BY <1>13, PipeAssumption, Zenon DEF PipeInv, TypeOK, RxInv, rxVars, ReadFrag, RxGoto
<1>14. CASE ReadInvalid
  BY <1>14, PipeAssumption, Zenon DEF PipeInv, TypeOK, RxInv, rxVars, ReadInvalid, RxGoto
<1>15. CASE ReadWords
  <2> DEFINE missing == pkt_len - Len(ring.buf)
             k == IF gunyah_rx_avail > missing THEN missing ELSE gunyah_rx_avail
             taken == [i \in 1..k |-> fifo[Advance(tail, i - 1)].n]
  <2>1. missing \in Nat /\ gunyah_rx_avail \in 0..(Length - 1)
    BY <1>15, AvailType, MissingType, Zenon DEF PipeInv
  <2>2. k \in 0..Length /\ k <= missing
    BY <2>1, PipeAssumption
  <2> HIDE DEF k
  <2>3. taken \in Seq(Nat) /\ Len(taken) = k
    BY <2>2, TakenType, Zenon DEF PipeInv
  <2> HIDE DEF taken
  <2>4. rxpc' = "notify"
    BY <1>15, Zenon DEF ReadWords, RxGoto
  <2>5. CASE k = missing
    <3>1. ring' = [buf |-> <<>>, len |-> 0]
      BY <1>15, <2>5, Zenon DEF ReadWords, k
    <3>2. QED
      BY <2>4, <3>1 DEF RxInv
  <2>6. CASE k # missing
    <3>1. ring' = [buf |-> ring.buf \o taken, len |-> pkt_len]
      BY ZenonT(30), <1>15, <2>6 DEF ReadWords, taken, k
    <3>2. Len(ring.buf \o taken) = Len(ring.buf) + k
      <4>1. ring.buf \in Seq(Nat)
        BY Zenon DEF PipeInv, TypeOK
      <4>2. QED
        BY <2>3, <4>1, ConcatLen, Zenon
    <3>3. Len(ring.buf) + k <= pkt_len
      BY <2>1, <2>2 DEF PipeInv, TypeOK
    <3>4. QED
      BY <2>4, <3>1, <3>2, <3>3, Zenon DEF RxInv
  <2>7. QED
    BY <2>5, <2>6, Zenon
<1>16. CASE RxNotify
  BY <1>16, PipeAssumption, Zenon DEF PipeInv, TypeOK, RxInv, rxVars, RxNotify, RxGoto
<1>17. CASE UNCHANGED vars
  BY <1>17, Zenon DEF PipeInv, TypeOK, RxInv, rxVars, vars
<1>18. QED
  BY NextCases, <1>1, <1>2, <1>3, <1>4, <1>5, <1>6, <1>7, <1>8, <1>9, <1>10, <1>11, <1>12, <1>13, <1>14, <1>15, <1>16, <1>17, Zenon

\* Steps that leave the ring and the state of the copying alone.
LEMMA RingUnchanged ==
  ASSUME RingInv, UNCHANGED <<head, tail, fifo, written, consumed>>,
         (txpc # "publish" /\ txpc' # "publish") \/ UNCHANGED <<txpc, chunk>>
  PROVE  RingInv'
BY Zenon DEF RingInv, gunyah_rx_avail, Pending, Behind

\* Reading takes the oldest words away and moves no other.
LEMMA SlotsAfterRead ==
  ASSUME PipeInv, NEW k \in 0..Length, k <= gunyah_rx_avail,
         tail' = Advance(tail, k), consumed' = consumed + k,
         gunyah_rx_avail' = gunyah_rx_avail - k, UNCHANGED txVars,
         NEW j \in Slots, Behind(tail', j) < gunyah_rx_avail' + Pending'
  PROVE  /\ Behind(tail, j) < gunyah_rx_avail + Pending
         /\ consumed' + Behind(tail', j) = consumed + Behind(tail, j)
<1>1. TypeOK /\ RingInv /\ gunyah_rx_avail \in 0..(Length - 1) /\ consumed \in Nat
  BY AvailType, Zenon DEF PipeInv, TypeOK
<1>2. k \in 0..(Length - 1)
  BY <1>1, PipeAssumption
<1>3. Pending' = Pending /\ Pending \in Nat
  BY <1>1, Zenon DEF txVars, Pending, TypeOK
<1>4. gunyah_rx_avail + Pending + Reserve <= Length
  <2>1. CASE txpc = "publish"
    BY <2>1, Zenon DEF PipeInv, TxInv, Pending
  <2>2. CASE txpc # "publish"
    <3>1. Pending = 0 /\ gunyah_rx_avail + Reserve <= Length
      BY <1>1, <2>2, Zenon DEF RingInv, Pending
    <3> QED
      BY <1>1, <3>1, PipeAssumption
  <2> QED
    BY <2>1, <2>2, Zenon
<1> DEFINE b == Behind(tail, j)
           c == Behind(tail', j)
           avail == gunyah_rx_avail
           pending == Pending
<1>5. c = IF b >= k THEN b - k ELSE b + Length - k
  <2>1. tail \in Slots
    BY <1>1, Zenon DEF TypeOK
  <2> QED
    BY <1>2, <2>1, BehindAdvance, Zenon
<1>6. b \in 0..(Length - 1)
  BY <1>1, BehindType, Zenon DEF TypeOK
<1>7. c < avail - k + pending
  BY <1>3, Zenon
<1>8. k <= avail /\ avail \in Nat /\ pending \in Nat /\ avail + pending + Reserve <= Length
  BY <1>1, <1>3, <1>4
<1>9. consumed' = consumed + k
  BY Zenon
<1> HIDE DEF b, c, avail, pending
<1>10. b >= k /\ b < avail + pending
  BY <1>2, <1>5, <1>6, <1>7, <1>8, PipeAssumption
<1>11. consumed' + c = consumed + b
  BY <1>1, <1>2, <1>5, <1>6, <1>9, <1>10
<1> QED
  BY <1>10, <1>11, Zenon DEF b, c, avail, pending

\* So the words left are still the oldest unread ones.
LEMMA RingRead ==
  ASSUME PipeInv, ReadInvalid \/ ReadWords
  PROVE  RingInv'
<1>1. TypeOK /\ RingInv /\ gunyah_rx_avail \in 0..(Length - 1)
  BY AvailType, Zenon DEF PipeInv
<1>2. PICK k \in 0..Length : /\ k <= gunyah_rx_avail
                             /\ tail' = Advance(tail, k) /\ consumed' = consumed + k
                             /\ gunyah_rx_avail' = gunyah_rx_avail - k
                             /\ fifo' = fifo
                             /\ UNCHANGED txVars
  BY ReadTakes, Zenon
<1>3. Pending' = Pending /\ Pending \in Nat
  BY <1>1, <1>2, Zenon DEF txVars, Pending, TypeOK
<1>4. ASSUME NEW j \in Slots, Behind(tail', j) < gunyah_rx_avail' + Pending'
      PROVE  fifo'[j].n = consumed' + Behind(tail', j)
  <2>1. /\ Behind(tail, j) < gunyah_rx_avail + Pending
        /\ consumed' + Behind(tail', j) = consumed + Behind(tail, j)
    BY <1>2, <1>4, SlotsAfterRead, Zenon
  <2> QED
    BY <1>1, <1>2, <2>1, Zenon DEF RingInv
<1>5. gunyah_rx_avail' + Reserve <= Length
  BY <1>1, <1>2, PipeAssumption DEF RingInv
<1>6. written' = consumed' + gunyah_rx_avail' + Pending'
  <2>1. written = consumed + gunyah_rx_avail + Pending /\ consumed \in Nat
    BY <1>1, Zenon DEF RingInv, TypeOK
  <2>2. written' = written
    BY <1>2, Zenon DEF txVars
  <2> QED
    BY <1>1, <1>2, <1>3, <2>1, <2>2
<1> QED
  BY <1>4, <1>5, <1>6, Zenon DEF RingInv

\* Every step keeps the ring intact.
LEMMA RingStep ==
  ASSUME PipeInv, [Next]_vars
  PROVE  RingInv'
<1>1. ASSUME NEW size \in Sizes, Send(size) PROVE RingInv'
  BY <1>1, RingUnchanged, Zenon DEF PipeInv, Send, TxGoto, shared, rxVars
<1>2. CASE TxFull
  BY <1>2, RingUnchanged, Zenon DEF PipeInv, TxFull, TxGoto, shared, txVars, rxVars
<1>3. CASE TxChunk
  BY <1>3, RingUnchanged, Zenon DEF PipeInv, TxChunk, TxGoto, shared, txVars, rxVars
<1>4. CASE TxWait
  BY <1>4, RingUnchanged, Zenon DEF PipeInv, TxWait, TxGoto, shared, txVars, rxVars
<1>5. CASE TxCallback
  BY <1>5, RingUnchanged, Zenon DEF PipeInv, TxCallback, TxGoto, shared, txVars, rxVars
<1>6. CASE TxTimeout
  BY <1>6, RingUnchanged, Zenon DEF PipeInv, TxTimeout, TxGoto, shared, txVars, rxVars
<1>7. CASE TxCopy
  <2>1. TypeOK /\ RingInv /\ gunyah_rx_avail \in 0..(Length - 1)
    BY AvailType, Zenon DEF PipeInv
  <2>2. gunyah_rx_avail' = gunyah_rx_avail /\ tail' = tail /\ consumed' = consumed
    BY <1>7, Zenon DEF TxCopy, TxGoto, rxVars, gunyah_rx_avail
  <2>3. Pending = 0 /\ Pending' = chunk /\ chunk \in Nat
    BY <1>7, Zenon DEF TxCopy, TxGoto, Pending, PipeInv, TypeOK
  <2>4. gunyah_rx_avail + chunk + Reserve <= Length
    BY <1>7, Zenon DEF PipeInv, TxInv, TxCopy
  <2>5. ASSUME NEW j \in Slots, Behind(tail, j) < gunyah_rx_avail + chunk
        PROVE  fifo'[j].n = consumed + Behind(tail, j)
    <3>1. Behind(tail, j) \in 0..(Length - 1) /\ Behind(head, j) \in 0..(Length - 1)
      BY <2>1, BehindType, Zenon DEF TypeOK
    <3>2. fifo'[j].n = IF Behind(head, j) < chunk THEN written + Behind(head, j) ELSE fifo[j].n
      BY <1>7, Zenon DEF TxCopy
    <3>3. written = consumed + gunyah_rx_avail
      BY <2>1, <2>3 DEF RingInv, TypeOK
    <3>4. CASE Behind(tail, j) < gunyah_rx_avail
      <4>1. Behind(head, j) = Behind(tail, j) + Length - gunyah_rx_avail
        BY <2>1, <3>4, BehindHead, Zenon
      <4>2. ~ (Behind(head, j) < chunk)
        BY <2>1, <2>3, <2>4, <3>1, <4>1, PipeAssumption
      <4>3. fifo[j].n = consumed + Behind(tail, j)
        BY <2>1, <2>3, <3>4 DEF RingInv
      <4>4. QED
        BY <3>2, <4>2, <4>3, Zenon
    <3>5. CASE Behind(tail, j) >= gunyah_rx_avail
      <4>1. Behind(head, j) = Behind(tail, j) - gunyah_rx_avail
        BY <2>1, <3>5, BehindHead, Zenon
      <4>2. Behind(head, j) < chunk
        BY <2>1, <2>3, <2>5, <3>1, <4>1, PipeAssumption
      <4>3. written + Behind(head, j) = consumed + Behind(tail, j)
        BY <2>1, <3>1, <3>3, <4>1, PipeAssumption DEF TypeOK
      <4>4. QED
        BY <3>2, <4>2, <4>3, Zenon
    <3>6. QED
      BY <2>1, <3>1, <3>4, <3>5
  <2>6. written' = consumed' + gunyah_rx_avail' + Pending'
    BY <1>7, <2>1, <2>2, <2>3 DEF RingInv, TypeOK, TxCopy
  <2>7. \A j \in Slots : Behind(tail, j)' < gunyah_rx_avail' + Pending' =>
                           fifo'[j].n = consumed' + Behind(tail, j)'
    BY <2>2, <2>3, <2>5, Zenon DEF Behind
  <2>8. QED
    BY <2>1, <2>2, <2>6, <2>7, Zenon DEF RingInv
<1>8. CASE TxPublish
  <2>1. TypeOK /\ RingInv /\ gunyah_rx_avail \in 0..(Length - 1)
    BY AvailType, Zenon DEF PipeInv
  <2>2. Pending = chunk /\ Pending' = 0 /\ chunk \in Nat
    BY <1>8, Zenon DEF TxPublish, TxGoto, Pending, PipeInv, TypeOK
  <2>3. gunyah_rx_avail + chunk + Reserve <= Length
    BY <1>8, Zenon DEF PipeInv, TxInv, TxPublish
  <2>4. gunyah_rx_avail' = gunyah_rx_avail + chunk
    BY <1>8, <2>1, <2>2, <2>3, AvailAfterPublish, PipeAssumption DEF TxPublish
  <2>5. UNCHANGED <<tail, fifo, consumed, written>>
    BY <1>8, Zenon DEF TxPublish, TxGoto, rxVars
  <2>6. gunyah_rx_avail' + Pending' = gunyah_rx_avail + Pending
    BY <2>1, <2>2, <2>4
  <2>7. \A j \in Slots : Behind(tail, j)' < gunyah_rx_avail' + Pending' =>
                           fifo'[j].n = consumed' + Behind(tail, j)'
    BY <2>1, <2>5, <2>6, Zenon DEF RingInv, Behind
  <2>8. written' = consumed' + gunyah_rx_avail' + Pending'
    BY <2>1, <2>2, <2>4, <2>5 DEF RingInv, TypeOK
  <2>9. gunyah_rx_avail' + Reserve <= Length
    BY <2>3, <2>4, Zenon
  <2>10. QED
    BY <2>7, <2>8, <2>9, Zenon DEF RingInv
<1>9. CASE TxKick
  BY <1>9, RingUnchanged, Zenon DEF PipeInv, TxKick, TxGoto, shared, txVars, rxVars
<1>10. CASE RxCallback
  BY <1>10, RingUnchanged, Zenon DEF PipeInv, RxCallback, RxGoto, shared, txVars, rxVars
<1>11. CASE RxEmpty
  BY <1>11, RingUnchanged, Zenon DEF PipeInv, RxEmpty, RxGoto, shared, txVars, rxVars
<1>12. CASE ReadHeader
  BY <1>12, RingUnchanged, Zenon DEF PipeInv, ReadHeader, RxGoto, shared, txVars, rxVars
<1>13. CASE ReadFrag
  BY <1>13, RingUnchanged, Zenon DEF PipeInv, ReadFrag, RxGoto, shared, txVars, rxVars
<1>14. CASE ReadInvalid
  BY <1>14, RingRead, Zenon
<1>15. CASE ReadWords
  BY <1>15, RingRead, Zenon
<1>16. CASE RxNotify
  BY <1>16, RingUnchanged, Zenon DEF PipeInv, RxNotify, RxGoto, shared, txVars, rxVars
<1>17. CASE UNCHANGED vars
  BY <1>17, RingUnchanged, Zenon DEF PipeInv, vars, shared, txVars, rxVars
<1>18. QED
  BY NextCases, <1>1, <1>2, <1>3, <1>4, <1>5, <1>6, <1>7, <1>8, <1>9, <1>10, <1>11, <1>12, <1>13, <1>14, <1>15, <1>16, <1>17, Zenon

\* The pipe starts empty.
LEMMA InitInv ==
  ASSUME Init
  PROVE  PipeInv
<1>1. TypeOK
  <2>1. 0 \in Slots
    BY PipeAssumption DEF Slots
  <2>2. fifo \in [Slots -> [n : Nat, size : Nat]]
    BY Zenon DEF Init
  <2>3. ring \in [buf : Seq(Nat), len : Nat]
    BY DEF Init
  <2>4. sent \in Seq(Seq(Nat)) /\ posted \in Seq(Seq(Nat))
    BY DEF Init
  <2>5. QED
    <3>1. head \in Slots /\ tail \in Slots /\ read_notify \in {0, 1}
      BY <2>1, Zenon DEF Init
    <3>2. rx_dbl \in BOOLEAN /\ tx_dbl \in BOOLEAN /\ spoilt \in BOOLEAN
      BY Zenon DEF Init
    <3>3. /\ txpc \in {"idle", "check", "wait", "sleep", "copy", "publish", "kick"}
          /\ rxpc \in {"idle", "loop", "read", "notify"}
      BY Zenon DEF Init
    <3>4. /\ left \in Nat /\ chunk \in Nat /\ pkt_len \in Nat
          /\ written \in Nat /\ consumed \in Nat
      BY Zenon DEF Init
    <3> QED
      BY <2>2, <2>3, <2>4, <3>1, <3>2, <3>3, <3>4, Zenon DEF TypeOK
<1>2. gunyah_rx_avail = 0 /\ Pending = 0
  BY DEF Init, gunyah_rx_avail, Pending
<1>3. TxInv /\ RxInv
  BY DEF Init, TxInv, RxInv
<1>4. ASSUME NEW j \in Slots, Behind(tail, j) < gunyah_rx_avail + Pending PROVE FALSE
  <2>1. Behind(tail, j) \in 0..(Length - 1)
    BY <1>1, BehindType, Zenon DEF TypeOK
  <2>2. QED
    BY <1>2, <1>4, <2>1, PipeAssumption
<1>5. written = consumed + gunyah_rx_avail + Pending /\ gunyah_rx_avail + Reserve <= Length
  BY <1>2, PipeAssumption DEF Init
<1>6. RingInv
  BY <1>4, <1>5, Zenon DEF RingInv
<1>7. QED
  BY <1>1, <1>3, <1>6, Zenon DEF PipeInv

\* The inductive invariant holds in every reachable state.
THEOREM PipeInvariant == Spec => []PipeInv
<1>1. Init => PipeInv
  BY InitInv, Zenon
<1>2. PipeInv /\ [Next]_vars => PipeInv'
  BY TypeStep, TxStep, RxStep, RingStep, Zenon DEF PipeInv
<1>3. QED
  BY <1>1, <1>2, PTL DEF Spec

\* For every length, reserve and size of packets, with timeouts or without,
\* the indices of the ring stay in it and every field keeps its type.
THEOREM PipeTyped == Spec => []TypeOK
<1>1. PipeInv => TypeOK
  BY Zenon DEF PipeInv
<1>2. QED
  BY <1>1, PipeInvariant, PTL

\* For every length, reserve and size of packets, with timeouts or without,
\* the sender never overwrites a word that the reader has not taken, although
\* it writes with a tail that may be stale (gunyah_tx_avail, gunyah_tx_write).
THEOREM UnreadKept == Spec => []UnreadIntact
<1>1. PipeInv => UnreadIntact
  <2>1. SUFFICES ASSUME PipeInv, NEW j \in Slots, Behind(tail, j) < gunyah_rx_avail
                 PROVE  fifo[j].n = consumed + Behind(tail, j)
    BY Zenon DEF UnreadIntact
  <2>2. gunyah_rx_avail \in Nat /\ Behind(tail, j) \in Nat
    <3>1. TypeOK /\ tail \in Slots
      BY <2>1, Zenon DEF PipeInv, TypeOK
    <3>2. QED
      BY <3>1, AvailType, BehindType, PipeAssumption
  <2>3. Pending \in Nat
    BY <2>1, Zenon DEF PipeInv, TypeOK, Pending
  <2>4. QED
    BY <2>1, <2>2, <2>3 DEF PipeInv, RingInv
<1>2. QED
  BY <1>1, PipeInvariant, PTL

-----------------------------------------------------------------------------
(* The transport is a queue of packets *)

\* The position after the last packet.
End == IF sent = <<>> THEN 0 ELSE sent[Len(sent)][1] + Len(sent[Len(sent)])

\* The packets lie one after the other, and the sender is in the last one.
Layout ==
  /\ \A k \in DOMAIN sent :
       /\ SizeWord <= Len(sent[k])
       /\ \A i \in 1..Len(sent[k]) : sent[k][i] = sent[k][1] + i - 1
       /\ k = 1 => sent[k][1] = 0
       /\ k < Len(sent) => sent[k + 1][1] = sent[k][1] + Len(sent[k])
  /\ \A k, l \in DOMAIN sent : k < l => sent[k][1] + Len(sent[k]) <= sent[l][1]
  /\ written + left = Pending + End
  /\ sent # <<>> => left <= Len(sent[Len(sent)])
  /\ txpc = "idle" => left = 0

\* The size word of every packet in the ring holds the size of that packet.
Sized ==
  \A j \in Slots, k \in DOMAIN sent :
    /\ Behind(tail, j) < gunyah_rx_avail + Pending
    /\ consumed + Behind(tail, j) = sent[k][1] + SizeWord - 1
    => fifo[j].size = Len(sent[k])

\* The reader is in the packet after the last one posted.
Progress ==
  /\ Len(posted) < Len(sent) =>
       /\ consumed = sent[Len(posted) + 1][1] + Len(ring.buf)
       /\ Len(ring.buf) < Len(sent[Len(posted) + 1])
       /\ \A i \in DOMAIN ring.buf : ring.buf[i] = sent[Len(posted) + 1][i]
       /\ ring.buf # <<>> => ring.len = Len(sent[Len(posted) + 1])
  /\ Len(posted) >= Len(sent) =>
       Len(posted) = Len(sent) /\ ring.buf = <<>> /\ consumed = End
  /\ rxpc = "read" => /\ gunyah_rx_avail > 0 /\ Len(posted) < Len(sent)
                      /\ pkt_len = Len(sent[Len(posted) + 1])

Unspoilt == ~ spoilt => Layout /\ Sized /\ Progress

\* What a packet at the end of the queue changes.
LEMMA PacketAppended ==
  ASSUME NEW q \in Seq(Seq(Nat)), NEW p \in Seq(Nat)
  PROVE  /\ Append(q, p) \in Seq(Seq(Nat)) /\ Append(q, p) # <<>>
         /\ Len(Append(q, p)) = Len(q) + 1 /\ Len(q) \in Nat
         /\ DOMAIN q = 1..Len(q) /\ DOMAIN Append(q, p) = 1..(Len(q) + 1)
         /\ \A k \in 1..Len(q) : Append(q, p)[k] = q[k]
         /\ Append(q, p)[Len(q) + 1] = p
<1>1. Len(q) \in Nat /\ DOMAIN q = 1..Len(q)
  OBVIOUS
<1>2. Append(q, p) \in Seq(Seq(Nat)) /\ Len(Append(q, p)) = Len(q) + 1
  OBVIOUS
<1>3. DOMAIN Append(q, p) = 1..(Len(q) + 1)
  BY <1>2
<1>4. Append(q, p) # <<>>
  <2>1. Len(<<>>) = 0 /\ Len(q) + 1 # 0  BY <1>1
  <2> QED  BY <1>2, <2>1, Zenon
<1>5. /\ \A k \in 1..Len(q) : Append(q, p)[k] = q[k]
      /\ Append(q, p)[Len(q) + 1] = p
  OBVIOUS
<1> QED  BY <1>1, <1>2, <1>3, <1>4, <1>5, Zenon

\* The first word of a packet, the others, and its length.
LEMMA WordsAre ==
  ASSUME NEW p \in Nat, NEW size \in Sizes
  PROVE  /\ Words(p, size) \in Seq(Nat) /\ Len(Words(p, size)) = size
         /\ Words(p, size)[1] = p
         /\ \A i \in 1..size : Words(p, size)[i] = p + i - 1
<1>1. size \in Nat /\ 1 <= size
  BY PipeAssumption
<1> QED  BY <1>1 DEF Words

\* The packets sent are sequences of numbers, at least SizeWord of them.
LEMMA PacketType ==
  ASSUME TypeOK
  PROVE  /\ Len(sent) \in Nat /\ DOMAIN sent = 1..Len(sent)
         /\ sent = <<>> <=> Len(sent) = 0
         /\ \A k \in DOMAIN sent : sent[k] \in Seq(Nat) /\ Len(sent[k]) \in Nat
         /\ Layout => \A k \in DOMAIN sent : sent[k][1] \in Nat /\ Len(sent[k]) >= 1
         /\ Layout => End \in Nat
<1>1. /\ Len(sent) \in Nat /\ DOMAIN sent = 1..Len(sent)
      /\ sent = <<>> <=> Len(sent) = 0
      /\ \A k \in DOMAIN sent : sent[k] \in Seq(Nat) /\ Len(sent[k]) \in Nat
  BY DEF TypeOK
<1>2. ASSUME Layout, NEW k \in DOMAIN sent PROVE sent[k][1] \in Nat /\ Len(sent[k]) >= 1
  <2>1. Len(sent[k]) >= 1
    BY <1>1, <1>2, PipeAssumption DEF Layout
  <2> QED  BY <2>1, <1>1
<1>3. ASSUME Layout PROVE End \in Nat
  <2>1. CASE sent = <<>>  BY <2>1 DEF End
  <2>2. CASE sent # <<>>
    <3>1. Len(sent) \in DOMAIN sent  BY <2>2, <1>1
    <3> QED  BY <2>2, <3>1, <1>1, <1>2, <1>3, SMTT(20) DEF End
  <2> QED  BY <2>1, <2>2, Zenon
<1> QED  BY <1>1, <1>2, <1>3, Zenon

\* Steps of the sender between two packets, or of the reader.
LEMMA LayoutKept ==
  ASSUME Layout, UNCHANGED <<sent, written, left>>, Pending' = Pending,
         txpc' = "idle" => left = 0
  PROVE  Layout'
  BY Zenon DEF Layout, End

\* Steps that move no words.
LEMMA SizedKept ==
  ASSUME Sized, UNCHANGED <<sent, fifo, tail, consumed>>,
         gunyah_rx_avail' + Pending' = gunyah_rx_avail + Pending
  PROVE  Sized'
  BY Zenon DEF Sized, Behind

\* Steps that leave the packet being put together alone.
LEMMA ProgressKept ==
  ASSUME Progress, UNCHANGED <<sent, posted, consumed, ring>>,
         rxpc' = "read" => rxpc = "read" /\ pkt_len' = pkt_len /\ gunyah_rx_avail' > 0
  PROVE  Progress'
  BY Zenon DEF Progress, End

\* A packet that is not complete was not posted.
LEMMA Unposted ==
  ASSUME PipeInv, Layout, Progress, left > 0 \/ gunyah_rx_avail > 0
  PROVE  Len(posted) < Len(sent)
<1>1. /\ left \in Nat /\ written \in Nat /\ consumed \in Nat /\ Pending \in Nat
      /\ gunyah_rx_avail \in Nat /\ Len(posted) \in Nat /\ Len(sent) \in Nat
  BY AvailType, PipeAssumption DEF PipeInv, TypeOK, Pending
<1>2. written = consumed + gunyah_rx_avail + Pending
  BY Zenon DEF PipeInv, RingInv
<1>3. written + left = Pending + End
  BY Zenon DEF Layout
<1>4. Len(posted) >= Len(sent) => consumed = End
  BY Zenon DEF Progress
<1>5. End \in Nat
  BY PacketType, Zenon DEF PipeInv
<1>6. consumed # End
  BY <1>1, <1>2, <1>3, <1>5
<1> QED  BY <1>1, <1>4, <1>6

\* A new packet starts where the last one ends.
LEMMA QueueSend ==
  ASSUME PipeInv, Layout, Sized, Progress, NEW size \in Sizes, Send(size)
  PROVE  Layout' /\ Sized' /\ Progress'
<1> DEFINE P == Words(written, size)
           L == Len(sent)
<1>1. /\ txpc = "idle" /\ txpc' = "check" /\ left' = size /\ sent' = Append(sent, P)
      /\ UNCHANGED <<written, head, fifo, tail, consumed, ring, rxpc, pkt_len, posted>>
  BY Zenon DEF Send, TxGoto, shared, rxVars
<1>2. /\ size \in Nat /\ SizeWord <= size /\ SizeWord \in Nat /\ 1 <= SizeWord
  BY PipeAssumption
<1>3. /\ written \in Nat /\ consumed \in Nat /\ gunyah_rx_avail \in Nat
      /\ Len(posted) \in Nat /\ sent \in Seq(Seq(Nat))
  BY AvailType, PipeAssumption DEF PipeInv, TypeOK
<1>4. P \in Seq(Nat) /\ Len(P) = size /\ P[1] = written /\ \A i \in 1..size : P[i] = written + i - 1
  BY <1>3, WordsAre, Zenon
<1>5. /\ Len(sent') = L + 1 /\ L \in Nat /\ DOMAIN sent = 1..L /\ DOMAIN sent' = 1..(L + 1)
      /\ \A k \in 1..L : sent'[k] = sent[k]
      /\ sent'[L + 1] = P /\ sent' # <<>>
  BY <1>1, <1>3, <1>4, PacketAppended, SMTT(20)
<1>6. Pending = 0 /\ Pending' = 0 /\ gunyah_rx_avail' = gunyah_rx_avail
  BY <1>1, Zenon DEF Pending, gunyah_rx_avail
<1>7. /\ sent = <<>> <=> L = 0
      /\ \A k \in 1..L : sent[k] \in Seq(Nat) /\ Len(sent[k]) \in Nat /\ sent[k][1] \in Nat
      /\ End \in Nat
  BY <1>5, PacketType, Zenon DEF PipeInv
<1>8. written = End
  BY <1>1, <1>3, <1>6, <1>7 DEF Layout
<1>9. written = consumed + gunyah_rx_avail
  BY <1>3, <1>6 DEF PipeInv, RingInv
<1>10. End' = written + size
  BY <1>4, <1>5, Zenon DEF End
<1> HIDE DEF P, L
<1>11. L > 0 => End = sent[L][1] + Len(sent[L])
  BY <1>5, <1>7 DEF End, L
<1>12. Layout'
  <2>1. ASSUME NEW k \in 1..(L + 1)
        PROVE  /\ SizeWord <= Len(sent'[k])
               /\ \A i \in 1..Len(sent'[k]) : sent'[k][i] = sent'[k][1] + i - 1
               /\ k = 1 => sent'[k][1] = 0
               /\ k < L + 1 => sent'[k + 1][1] = sent'[k][1] + Len(sent'[k])
    <3>1. CASE k \in 1..L
      <4>1. sent'[k] = sent[k]  BY <3>1, <1>5
      <4>2. /\ SizeWord <= Len(sent[k])
            /\ \A i \in 1..Len(sent[k]) : sent[k][i] = sent[k][1] + i - 1
            /\ k = 1 => sent[k][1] = 0
            /\ k < L => sent[k + 1][1] = sent[k][1] + Len(sent[k])
        BY <3>1, <1>5, Zenon DEF Layout, L
      <4>3. k < L => sent'[k + 1] = sent[k + 1]
        BY <3>1, <1>5
      <4>4. k = L => sent'[k + 1][1] = sent[k][1] + Len(sent[k])
        BY <3>1, <1>4, <1>5, <1>8, <1>11
      <4>5. k < L \/ k = L  BY <3>1, <1>5
      <4> QED  BY <4>1, <4>2, <4>3, <4>4, <4>5, Zenon
    <3>2. CASE k = L + 1
      <4>1. sent'[k] = P  BY <3>2, <1>5
      <4>2. k = 1 => P[1] = 0
        <5>1. k = 1 => L = 0  BY <3>2, <1>5
        <5>2. L = 0 => End = 0  BY <1>7 DEF End
        <5> QED  BY <5>1, <5>2, <1>4, <1>8, Zenon
      <4>3. ~ (k < L + 1)  BY <3>2, <1>5
      <4> QED  BY <4>1, <4>2, <4>3, <1>2, <1>4, Zenon
    <3> QED  BY <3>1, <3>2, <1>5
  <2>2. ASSUME NEW k \in 1..(L + 1), NEW l \in 1..(L + 1), k < l
        PROVE  sent'[k][1] + Len(sent'[k]) <= sent'[l][1]
    <3>1. k \in 1..L /\ sent'[k] = sent[k]  BY <2>2, <1>5
    <3>2. CASE l \in 1..L
      BY <2>2, <3>1, <3>2, <1>5, Zenon DEF Layout, L
    <3>3. CASE l = L + 1
      <4>1. sent'[l][1] = End  BY <3>3, <1>4, <1>5, <1>8
      <4>2. CASE k = L
        BY <4>1, <4>2, <3>1, <1>5, <1>7, <1>11
      <4>3. CASE k < L
        <5>1. L \in 1..L  BY <3>1, <1>5
        <5>2. sent[k][1] + Len(sent[k]) <= sent[L][1]
          BY <4>3, <3>1, <5>1, <1>5, Zenon DEF Layout
        <5>3. End = sent[L][1] + Len(sent[L])  BY <5>1, <1>5, <1>11
        <5>4. /\ sent[k][1] \in Nat /\ Len(sent[k]) \in Nat
              /\ sent[L][1] \in Nat /\ Len(sent[L]) \in Nat
          BY <3>1, <5>1, <1>7, Zenon
        <5>5. \A a, b, c, d \in Nat : a + b <= c => a + b <= c + d
          OBVIOUS
        <5>6. sent[k][1] + Len(sent[k]) <= End  BY <5>2, <5>3, <5>4, <5>5, Zenon
        <5> QED  BY <4>1, <5>6, <3>1, Zenon
      <4> QED  BY <4>2, <4>3, <3>1, <1>5
    <3> QED  BY <3>2, <3>3, <1>5
  <2>3. written' + left' = Pending' + End'
    BY <1>1, <1>2, <1>3, <1>6, <1>10
  <2>4. left' <= Len(sent'[Len(sent')])
    BY <1>1, <1>2, <1>4, <1>5
  <2>5. txpc' # "idle"  BY <1>1
  <2> QED  BY <2>1, <2>2, <2>3, <2>4, <2>5, <1>5, Zenon DEF Layout
<1>13. Sized'
  <2> SUFFICES ASSUME NEW j \in Slots, NEW k \in 1..(L + 1),
                      Behind(tail, j) < gunyah_rx_avail + Pending,
                      consumed + Behind(tail, j) = sent'[k][1] + SizeWord - 1
               PROVE  fifo[j].size = Len(sent'[k])
    BY <1>1, <1>5, <1>6, Zenon DEF Sized, Behind
  <2>1. CASE k \in 1..L
    BY <2>1, <1>5, Zenon DEF Sized
  <2>2. CASE k = L + 1
    <3>1. Behind(tail, j) \in Nat
      BY BehindType, PipeAssumption DEF PipeInv, TypeOK
    <3>2. sent'[k][1] = written  BY <2>2, <1>4, <1>5
    <3> QED  BY <3>1, <3>2, <1>2, <1>3, <1>6, <1>9
  <2> QED  BY <2>1, <2>2, <1>5
<1>14. Progress'
  <2>1. CASE Len(posted) < L
    <3>1. Len(posted) + 1 \in 1..L  BY <2>1, <1>3, <1>5
    <3>2. sent'[Len(posted) + 1] = sent[Len(posted) + 1]  BY <3>1, <1>5
    <3>3. Len(posted) < L + 1 /\ ~ (Len(posted) >= L + 1)  BY <2>1, <1>3, <1>5
    <3> QED  BY <2>1, <3>2, <3>3, <1>1, <1>5, <1>6, Zenon DEF Progress, L
  <2>2. CASE Len(posted) >= L
    <3>1. Len(posted) = L /\ ring.buf = <<>> /\ consumed = End /\ rxpc # "read"
      <4>1. ~ (Len(posted) < L)  BY <2>2, <1>3, <1>5, SMTT(20)
      <4> QED  BY <2>2, <4>1, Zenon DEF Progress, L
    <3>2. Len(posted) < L + 1 /\ ~ (Len(posted) >= L + 1)  BY <3>1, <1>5
    <3>3. sent'[Len(posted) + 1] = P  BY <3>1, <1>5
    <3>4. consumed = P[1] + Len(ring.buf) /\ Len(ring.buf) < Len(P)
      BY <3>1, <1>2, <1>3, <1>4, <1>8
    <3>5. \A i \in DOMAIN ring.buf : FALSE  BY <3>1
    <3> QED  BY <3>1, <3>2, <3>3, <3>4, <3>5, <1>1, <1>5, Zenon DEF Progress
  <2> QED  BY <2>1, <2>2, <1>3, <1>5
<1> QED  BY <1>12, <1>13, <1>14, Zenon

\* A packet of which nothing was written is refused.
LEMMA QueueTimeout ==
  ASSUME PipeInv, Layout, Sized, Progress, TxTimeout, ~ spoilt'
  PROVE  /\ Layout' /\ Sized' /\ Progress'
         /\ Len(posted) < Len(sent) /\ sent' = SubSeq(sent, 1, Len(sent) - 1)
<1> DEFINE L == Len(sent)
<1>1. /\ txpc = "sleep" /\ txpc' = "idle" /\ left' = 0 /\ left = Len(sent[L])
      /\ sent' = SubSeq(sent, 1, L - 1)
      /\ UNCHANGED <<written, head, fifo, tail, consumed, ring, rxpc, pkt_len, posted>>
  BY Zenon DEF TxTimeout, rxVars
<1>2. /\ written \in Nat /\ consumed \in Nat /\ gunyah_rx_avail \in Nat
      /\ Len(posted) \in Nat /\ sent \in Seq(Seq(Nat)) /\ ring.buf \in Seq(Nat)
      /\ Len(ring.buf) \in Nat
  BY AvailType, PipeAssumption DEF PipeInv, TypeOK
<1>3. sent # <<>>
  BY <1>1, Zenon DEF PipeInv, TxInv
<1>4. /\ L \in Nat /\ L >= 1 /\ L \in 1..L /\ DOMAIN sent = 1..L
      /\ \A k \in 1..L : /\ sent[k] \in Seq(Nat) /\ Len(sent[k]) \in Nat
                         /\ sent[k][1] \in Nat /\ Len(sent[k]) >= 1
  BY <1>3, PacketType DEF PipeInv
<1>5. /\ Len(sent') = L - 1 /\ DOMAIN sent' = 1..(L - 1)
      /\ \A k \in 1..(L - 1) : sent'[k] = sent[k]
      /\ sent' = <<>> <=> L - 1 = 0
  <2>1. /\ sent' \in Seq(Seq(Nat)) /\ Len(sent') = L - 1
        /\ \A k \in 1..(L - 1) : sent'[k] = sent[k]
    BY <1>1, <1>2, <1>4
  <2>2. DOMAIN sent' = 1..(L - 1)  BY <2>1
  <2>3. \A q \in Seq(Seq(Nat)) : q = <<>> <=> Len(q) = 0
    OBVIOUS
  <2> QED  BY <2>1, <2>2, <2>3, Zenon
<1>6. Pending = 0 /\ Pending' = 0 /\ gunyah_rx_avail' = gunyah_rx_avail
  BY <1>1, Zenon DEF Pending, gunyah_rx_avail
<1>7. written = sent[L][1]
  <2>1. written + left = 0 + (sent[L][1] + Len(sent[L]))
    BY <1>3, <1>6, Zenon DEF Layout, End
  <2>2. sent[L][1] \in Nat /\ Len(sent[L]) \in Nat  BY <1>4
  <2> QED  BY <2>1, <2>2, <1>1, <1>2, SMTT(20)
<1>8. written = consumed + gunyah_rx_avail
  BY <1>2, <1>6 DEF PipeInv, RingInv
<1>9. Len(posted) < L
  <2>1. left > 0  BY <1>1, <1>4
  <2> QED  BY <2>1, Unposted, Zenon
<1> HIDE DEF L
<1>10. End' = written
  <2>1. CASE L = 1
    <3>1. sent[L][1] = 0  BY <2>1, <1>4, Zenon DEF Layout
    <3> QED  BY <2>1, <3>1, <1>5, <1>7 DEF End
  <2>2. CASE L > 1
    <3>1. L - 1 \in 1..L /\ L - 1 \in 1..(L - 1) /\ L - 1 < L /\ L - 1 + 1 = L /\ L - 1 # 0
      BY <2>2, <1>4
    <3>2. sent[L][1] = sent[L - 1][1] + Len(sent[L - 1])
      <4>1. \A k \in 1..L : k < L => sent[k + 1][1] = sent[k][1] + Len(sent[k])
        BY <1>4, Zenon DEF Layout, L
      <4> QED  BY <4>1, <3>1, Zenon
    <3>3. End' = sent'[L - 1][1] + Len(sent'[L - 1])
      BY <3>1, <1>5, Zenon DEF End
    <3> QED  BY <3>1, <3>2, <3>3, <1>5, <1>7, Zenon
  <2> QED  BY <2>1, <2>2, <1>4
<1>11. Layout'
  <2>1. ASSUME NEW k \in 1..(L - 1)
        PROVE  /\ SizeWord <= Len(sent'[k])
               /\ \A i \in 1..Len(sent'[k]) : sent'[k][i] = sent'[k][1] + i - 1
               /\ k = 1 => sent'[k][1] = 0
               /\ k < L - 1 => sent'[k + 1][1] = sent'[k][1] + Len(sent'[k])
    <3>1. k \in 1..L /\ k < L /\ sent'[k] = sent[k]  BY <1>4, <1>5
    <3>2. k < L - 1 => sent'[k + 1] = sent[k + 1]  BY <1>4, <1>5
    <3>3. /\ SizeWord <= Len(sent[k])
          /\ \A i \in 1..Len(sent[k]) : sent[k][i] = sent[k][1] + i - 1
          /\ k = 1 => sent[k][1] = 0
          /\ sent[k + 1][1] = sent[k][1] + Len(sent[k])
      BY <3>1, <1>4, Zenon DEF Layout, L
    <3> QED  BY <3>1, <3>2, <3>3, Zenon
  <2>2. ASSUME NEW k \in 1..(L - 1), NEW l \in 1..(L - 1), k < l
        PROVE  sent'[k][1] + Len(sent'[k]) <= sent'[l][1]
    <3>1. k \in 1..L /\ l \in 1..L /\ sent'[k] = sent[k] /\ sent'[l] = sent[l]
      BY <1>4, <1>5
    <3> QED  BY <2>2, <3>1, <1>4, Zenon DEF Layout
  <2>3. written' + left' = Pending' + End'
    BY <1>1, <1>2, <1>6, <1>10
  <2>4. sent' # <<>> => left' <= Len(sent'[Len(sent')])
    <3> SUFFICES ASSUME L - 1 # 0 PROVE 0 <= Len(sent'[L - 1])
      BY <1>1, <1>5, Zenon
    <3>1. L - 1 \in 1..L /\ L - 1 \in 1..(L - 1)  BY <1>4
    <3> QED  BY <3>1, <1>4, <1>5
  <2> QED  BY <2>1, <2>2, <2>3, <2>4, <1>1, <1>5, ZenonT(30) DEF Layout
<1>12. Sized'
  <2>1. \A k \in 1..(L - 1) : k \in 1..L  BY <1>4
  <2> QED  BY <2>1, <1>1, <1>4, <1>5, <1>6, ZenonT(30) DEF Sized, Behind
<1>13. Progress'
  <2>1. CASE Len(posted) < L - 1
    <3>1. Len(posted) + 1 \in 1..(L - 1)  BY <2>1, <1>2, <1>4
    <3>2. sent'[Len(posted) + 1] = sent[Len(posted) + 1]  BY <3>1, <1>5
    <3>3. ~ (Len(posted) >= L - 1)  BY <2>1, <1>2, <1>4
    <3> QED  BY <2>1, <3>2, <3>3, <1>1, <1>5, <1>6, <1>9, Zenon DEF Progress, L
  <2>2. CASE Len(posted) = L - 1
    <3>1. Len(posted) + 1 = L  BY <2>2, <1>4
    <3>2. consumed = sent[L][1] + Len(ring.buf)
      BY <3>1, <1>9, Zenon DEF Progress, L
    <3>3. Len(ring.buf) = 0 /\ gunyah_rx_avail = 0
      <4>1. consumed = written + Len(ring.buf)  BY <3>2, <1>7, Zenon
      <4> QED  BY <4>1, <1>2, <1>8
    <3>4. ring.buf = <<>> /\ consumed = written
      BY <3>3, <1>2, <1>8
    <3>5. rxpc # "read"
      <4>1. ~ (gunyah_rx_avail > 0)  BY <3>3
      <4> QED  BY <4>1, Zenon DEF Progress
    <3>6. ~ (Len(posted) < L - 1)  BY <2>2, <1>4
    <3> QED  BY <2>2, <3>4, <3>5, <3>6, <1>1, <1>5, <1>10, Zenon DEF Progress
  <2> QED  BY <2>1, <2>2, <1>2, <1>4, <1>9
<1> QED  BY <1>1, <1>9, <1>11, <1>12, <1>13, Zenon DEF L

\* The words of the next chunk, among them perhaps the size word of the packet.
LEMMA QueueCopy ==
  ASSUME PipeInv, Layout, Sized, Progress, TxCopy
  PROVE  Layout' /\ Sized' /\ Progress'
<1> DEFINE L == Len(sent)
           pkt == sent[L]
<1>1. /\ txpc = "copy" /\ txpc' = "publish" /\ written' = written + chunk
      /\ UNCHANGED <<head, tail, left, chunk, sent, consumed, ring, rxpc, pkt_len, posted>>
  BY Zenon DEF TxCopy, TxGoto, rxVars
<1>2. /\ written \in Nat /\ consumed \in Nat /\ gunyah_rx_avail \in 0..(Length - 1)
      /\ chunk \in Nat /\ left \in Nat /\ TypeOK
      /\ Length \in Nat /\ SizeWord \in Nat /\ 1 <= SizeWord
  BY AvailType, PipeAssumption DEF PipeInv, TypeOK
<1>3. sent # <<>>
  BY <1>1, Zenon DEF PipeInv, TxInv
<1>4. /\ L \in Nat /\ L >= 1 /\ L \in 1..L /\ DOMAIN sent = 1..L
      /\ \A k \in 1..L : /\ sent[k] \in Seq(Nat) /\ Len(sent[k]) \in Nat
                         /\ sent[k][1] \in Nat /\ Len(sent[k]) >= 1
  BY <1>3, PacketType DEF PipeInv
<1>5. Pending = 0 /\ Pending' = chunk /\ gunyah_rx_avail' = gunyah_rx_avail
  BY <1>1, Zenon DEF Pending, gunyah_rx_avail
<1>6. /\ gunyah_rx_avail + chunk + Reserve <= Length
      /\ written = consumed + gunyah_rx_avail
  BY <1>1, <1>2, <1>5 DEF PipeInv, TxInv, RingInv
<1>7. End' = End /\ End \in Nat
  BY <1>1, PacketType, Zenon DEF End, PipeInv
<1>8. written + left = End /\ left <= Len(pkt)
  BY <1>2, <1>3, <1>5, <1>7 DEF Layout
<1>9. Layout'
  <2>1. written' + left' = Pending' + End'
    BY <1>1, <1>2, <1>5, <1>7, <1>8
  <2> QED  BY <2>1, <1>1, Zenon DEF Layout
<1>10. Progress'
  BY <1>1, <1>5, ProgressKept, Zenon DEF Progress
<1>11. End = pkt[1] + Len(pkt) /\ pkt[1] \in Nat /\ Len(pkt) \in Nat
  BY <1>3, <1>4, Zenon DEF End
<1>12. Sized'
  <2> SUFFICES ASSUME NEW j \in Slots, NEW k \in 1..L,
                      Behind(tail, j) < gunyah_rx_avail + chunk,
                      consumed + Behind(tail, j) = sent[k][1] + SizeWord - 1
               PROVE  fifo'[j].size = Len(sent[k])
    BY <1>1, <1>4, <1>5, Zenon DEF Sized, Behind
  <2>1. Behind(tail, j) \in 0..(Length - 1) /\ Behind(head, j) \in 0..(Length - 1)
    BY <1>2, BehindType, Zenon DEF TypeOK
  <2>2. fifo'[j].size = IF Behind(head, j) < chunk
                        THEN IF Len(pkt) - left + Behind(head, j) + 1 = SizeWord
                             THEN Len(pkt) ELSE 0
                        ELSE fifo[j].size
    BY Zenon DEF TxCopy
  <2>3. CASE Behind(tail, j) < gunyah_rx_avail
    <3>1. Behind(head, j) = Behind(tail, j) + Length - gunyah_rx_avail
      BY <2>3, <1>2, BehindHead, Zenon
    <3>2. ~ (Behind(head, j) < chunk)
      <4>1. \A b, t, l, g, c, r \in Nat : b = t + l - g /\ g + c + r <= l => ~ (b < c)
        OBVIOUS
      <4>2. Behind(tail, j) \in Nat /\ Behind(head, j) \in Nat /\ gunyah_rx_avail \in Nat
        BY <1>2, <2>1
      <4>3. Reserve \in Nat
        BY PipeAssumption
      <4> QED  BY <1>2, <1>6, <3>1, <4>1, <4>2, <4>3, Zenon
    <3>3. Behind(tail, j) < gunyah_rx_avail + Pending
      BY <2>1, <2>3, <1>2, <1>5
    <3>4. fifo[j].size = Len(sent[k])
      BY <3>3, <1>4, Zenon DEF Sized
    <3> QED  BY <2>2, <3>2, <3>4, Zenon
  <2>4. CASE Behind(tail, j) >= gunyah_rx_avail
    <3>1. Behind(head, j) = Behind(tail, j) - gunyah_rx_avail
      BY <2>4, <1>2, BehindHead, Zenon
    <3>2. Behind(head, j) < chunk
      BY <1>2, <2>1, <2>4, <3>1
    <3>3. consumed + Behind(tail, j) >= pkt[1]
      <4> HIDE DEF pkt, L
      <4> QED  BY <2>1, <2>4, <1>2, <1>6, <1>8, <1>11, SMTT(20)
    <3>4. k = L
      <4>1. ASSUME k # L PROVE FALSE
        <5>1. k < L
          <6> HIDE DEF L
          <6> QED  BY <4>1, <1>4
        <5>2. sent[k][1] + Len(sent[k]) <= pkt[1]
          BY <5>1, <1>4, Zenon DEF Layout
        <5>3. SizeWord <= Len(sent[k])
          BY <1>4, Zenon DEF Layout
        <5>4. sent[k][1] \in Nat /\ Len(sent[k]) \in Nat  BY <1>4
        <5>5. \A a, b, c, w \in Nat :
                a + b <= c /\ SizeWord <= b /\ w >= c => w # a + SizeWord - 1
          BY <1>2
        <5>6. consumed + Behind(tail, j) \in Nat  BY <1>2, <2>1, SMTT(20)
        <5> QED  BY <5>2, <5>3, <5>4, <5>5, <5>6, <3>3, <1>11, Zenon
      <4> QED  BY <4>1, Zenon
    <3>5. Len(pkt) - left + Behind(head, j) + 1 = SizeWord
      <4>1. consumed + Behind(tail, j) = pkt[1] + SizeWord - 1  BY <3>4
      <4>2. PICK n \in Nat : n = pkt[1]  BY <1>11
      <4>3. PICK l \in Nat : l = Len(pkt)  BY <1>11
      <4>4. written + left = n + l  BY <1>8, <1>11, <4>2, <4>3, Zenon
      <4>5. consumed + Behind(tail, j) = n + SizeWord - 1  BY <4>1, <4>2, Zenon
      <4>6. l - left + Behind(head, j) + 1 = SizeWord
        <5> HIDE DEF pkt, L
        <5> QED  BY <4>4, <4>5, <3>1, <2>1, <1>2, <1>6
      <4> QED  BY <4>6, <4>3, Zenon
    <3> QED  BY <2>2, <3>2, <3>4, <3>5, Zenon
  <2> QED  BY <2>3, <2>4, <2>1, <1>2
<1> QED  BY <1>9, <1>10, <1>12, Zenon

\* The chunk is published.
LEMMA QueuePublish ==
  ASSUME PipeInv, Layout, Sized, Progress, TxPublish
  PROVE  Layout' /\ Sized' /\ Progress'
<1>1. /\ txpc = "publish" /\ txpc' = "kick" /\ left' = left - chunk
      /\ head' = Advance(head, chunk)
      /\ UNCHANGED <<tail, fifo, chunk, written, sent, consumed, ring, rxpc, pkt_len, posted>>
  BY Zenon DEF TxPublish, TxGoto, rxVars
<1>2. /\ TypeOK /\ gunyah_rx_avail \in 0..(Length - 1) /\ chunk \in Nat /\ left \in Nat
      /\ written \in Nat
  BY AvailType, Zenon DEF PipeInv, TypeOK
<1>3. Pending = chunk /\ Pending' = 0
  BY <1>1, Zenon DEF Pending
<1>4. chunk <= left /\ gunyah_rx_avail + chunk + Reserve <= Length
  BY <1>1, Zenon DEF PipeInv, TxInv
<1>5. gunyah_rx_avail' = gunyah_rx_avail + chunk
  BY <1>1, <1>2, <1>4, AvailAfterPublish, PipeAssumption
<1>6. End' = End /\ End \in Nat
  BY <1>1, PacketType, Zenon DEF End, PipeInv
<1>7. Layout'
  <2>1. written' + left' = Pending' + End'
    <3>1. written + left = chunk + End  BY <1>3 DEF Layout
    <3> QED  BY <3>1, <1>1, <1>2, <1>3, <1>6
  <2>2. sent # <<>> => left' <= Len(sent[Len(sent)])
    <3> SUFFICES ASSUME sent # <<>> PROVE left' <= Len(sent[Len(sent)])
      BY Zenon
    <3>1. Len(sent[Len(sent)]) \in Nat
      BY PacketType DEF PipeInv
    <3>2. left <= Len(sent[Len(sent)])
      BY Zenon DEF Layout
    <3> HIDE <1>1
    <3>3. \A a, b, c \in Nat : a <= c /\ b <= a => a - b <= c
      OBVIOUS
    <3> QED  BY <3>1, <3>2, <3>3, <1>1, <1>2, <1>4, Zenon
  <2> QED  BY <2>1, <2>2, <1>1, Zenon DEF Layout
<1>8. Sized'
  <2>1. gunyah_rx_avail' + Pending' = gunyah_rx_avail + Pending
    BY <1>2, <1>3, <1>5
  <2> QED  BY <2>1, <1>1, SizedKept, Zenon
<1>9. Progress'
  <2>1. gunyah_rx_avail > 0 => gunyah_rx_avail' > 0
    BY <1>2, <1>5
  <2> QED  BY <2>1, <1>1, ProgressKept, Zenon DEF Progress
<1> QED  BY <1>7, <1>8, <1>9, Zenon

\* The header at the start of a packet, if it is there, holds the packet's size.
LEMMA QueueHeader ==
  ASSUME PipeInv, Layout, Sized, Progress, ReadHeader, ~ spoilt'
  PROVE  Layout' /\ Sized' /\ Progress'
<1> DEFINE m == Len(posted) + 1
           i == Advance(tail, SizeWord - 1)
<1>1. /\ ring.buf = <<>> /\ gunyah_rx_avail > 0 /\ ~ (gunyah_rx_avail < SizeWord)
      /\ rxpc' = "read"
      /\ fifo[i].size > 0 => pkt_len' = fifo[i].size
      /\ UNCHANGED <<head, tail, fifo, txpc, left, chunk, written, sent, consumed, ring, posted>>
  BY Zenon DEF ReadHeader, shared, txVars
<1>2. /\ TypeOK /\ gunyah_rx_avail \in 0..(Length - 1) /\ consumed \in Nat
      /\ Length \in Nat /\ SizeWord \in Nat /\ 1 <= SizeWord /\ tail \in Slots
      /\ Len(posted) \in Nat /\ Pending \in Nat
  BY AvailType, PipeAssumption DEF PipeInv, TypeOK, Pending
<1>3. Len(posted) < Len(sent)
  BY <1>1, Unposted, Zenon
<1>4. /\ Len(sent) \in Nat /\ DOMAIN sent = 1..Len(sent)
      /\ \A k \in DOMAIN sent : /\ sent[k] \in Seq(Nat) /\ Len(sent[k]) \in Nat
                                /\ sent[k][1] \in Nat /\ Len(sent[k]) >= 1
  BY PacketType, Zenon DEF PipeInv
<1>5. m \in DOMAIN sent
  BY <1>2, <1>3, <1>4
<1>6. consumed = sent[m][1]
  <2>1. consumed = sent[m][1] + Len(ring.buf)  BY <1>3 DEF Progress
  <2>2. Len(ring.buf) = 0  BY <1>1
  <2>3. sent[m][1] \in Nat  BY <1>4, <1>5
  <2> QED  BY <2>1, <2>2, <2>3
<1>7. SizeWord - 1 \in 0..(Length - 1) /\ SizeWord - 1 < gunyah_rx_avail
  BY <1>1, <1>2
<1>8. i \in Slots /\ Behind(tail, i) = SizeWord - 1
  <2>1. i \in Slots  BY <1>2, <1>7, AdvanceType
  <2>2. Behind(tail, i) = SizeWord - 1
    BY <1>2, <1>7, PipeAssumption DEF Behind, Advance, Slots
  <2> QED  BY <2>1, <2>2, Zenon
<1>9. fifo[i].size = Len(sent[m])
  <2>1. Behind(tail, i) < gunyah_rx_avail + Pending
    BY <1>2, <1>7, <1>8
  <2>2. consumed + Behind(tail, i) = sent[m][1] + SizeWord - 1
    BY <1>6, <1>8, Zenon
  <2> QED  BY <2>1, <2>2, <1>5, <1>8, Zenon DEF Sized
<1>10. pkt_len' = Len(sent[m])
  <2>1. Len(sent[m]) > 0  BY <1>4, <1>5
  <2> QED  BY <2>1, <1>1, <1>9, Zenon
<1>11. gunyah_rx_avail' = gunyah_rx_avail /\ Pending' = Pending
  BY <1>1, Zenon DEF gunyah_rx_avail, Pending
<1>12. Layout'
  BY <1>1, <1>11, LayoutKept, Zenon DEF Layout
<1>13. Sized'
  BY <1>1, <1>11, SizedKept, Zenon
<1>14. Progress'
  BY <1>1, <1>3, <1>10, <1>11, Zenon DEF Progress, End
<1> QED  BY <1>12, <1>13, <1>14, Zenon

\* Two sequences put together, place by place.
LEMMA ConcatParts ==
  ASSUME NEW s \in Seq(Nat), NEW t \in Seq(Nat)
  PROVE  /\ s \o t \in Seq(Nat) /\ Len(s \o t) = Len(s) + Len(t)
         /\ \A i \in 1..Len(s) : (s \o t)[i] = s[i]
         /\ \A i \in 1..Len(t) : (s \o t)[Len(s) + i] = t[i]
<1>1. s \o t \in Seq(Nat) /\ Len(s \o t) = Len(s) + Len(t)
  OBVIOUS
<1>2. \A i \in 1..Len(s) : (s \o t)[i] = s[i]
  OBVIOUS
<1>3. ASSUME NEW i \in 1..Len(t) PROVE (s \o t)[Len(s) + i] = t[i]
  <2>1. Len(s) \in Nat /\ Len(t) \in Nat  OBVIOUS
  <2>2. /\ Len(s) + i \in 1..(Len(s) + Len(t)) /\ ~ (Len(s) + i <= Len(s))
        /\ Len(s) + i - Len(s) = i
    BY <2>1
  <2> QED  BY <2>1, <2>2
<1> QED  BY <1>1, <1>2, <1>3, Zenon

\* The words read are those that the packet in ring lacks; a complete packet is the
\* next one of the queue.
LEMMA QueueWords ==
  ASSUME PipeInv, Layout, Sized, Progress, ReadWords
  PROVE  /\ Layout' /\ Sized' /\ Progress'
         /\ \/ UNCHANGED posted
            \/ /\ Len(posted) < Len(sent)
               /\ posted' = Append(posted, sent[Len(posted) + 1])
<1> DEFINE m == Len(posted) + 1
           old == Len(ring.buf)
           missing == pkt_len - old
           k == IF gunyah_rx_avail > missing THEN missing ELSE gunyah_rx_avail
           taken == [i \in 1..k |-> fifo[Advance(tail, i - 1)].n]
           buf == ring.buf \o taken
<1>1. /\ rxpc = "read" /\ rxpc' = "notify" /\ tail' = Advance(tail, k) /\ consumed' = consumed + k
      /\ UNCHANGED <<head, fifo, txVars>>
      /\ \/ k = missing /\ posted' = Append(posted, buf) /\ ring' = [buf |-> <<>>, len |-> 0]
         \/ k # missing /\ ring' = [buf |-> buf, len |-> pkt_len] /\ UNCHANGED posted
  BY ZenonT(30) DEF ReadWords, RxGoto, RxAdvance
<1>2. /\ TypeOK /\ gunyah_rx_avail \in 0..(Length - 1) /\ consumed \in Nat /\ Length \in Nat
      /\ ring.buf \in Seq(Nat) /\ old \in Nat /\ Len(posted) \in Nat /\ tail \in Slots
      /\ posted \in Seq(Seq(Nat))
  BY AvailType, PipeAssumption, SMTT(20) DEF PipeInv, TypeOK
<1>3. gunyah_rx_avail > 0 /\ Len(posted) < Len(sent) /\ pkt_len = Len(sent[m])
  BY <1>1, Zenon DEF Progress
<1>4. /\ Len(sent) \in Nat /\ DOMAIN sent = 1..Len(sent)
      /\ \A l \in DOMAIN sent : /\ sent[l] \in Seq(Nat) /\ Len(sent[l]) \in Nat
                                /\ sent[l][1] \in Nat /\ Len(sent[l]) >= 1
  BY PacketType, Zenon DEF PipeInv
<1>5. m \in DOMAIN sent /\ m \in Nat /\ m <= Len(sent)
  BY <1>2, <1>3, <1>4
<1>6. /\ sent[m] \in Seq(Nat) /\ Len(sent[m]) \in Nat /\ sent[m][1] \in Nat
      /\ \A i \in 1..Len(sent[m]) : sent[m][i] = sent[m][1] + i - 1
      /\ m < Len(sent) => sent[m + 1][1] = sent[m][1] + Len(sent[m])
  BY <1>4, <1>5, Zenon DEF Layout
<1>7. /\ consumed = sent[m][1] + old /\ old < Len(sent[m])
      /\ \A i \in DOMAIN ring.buf : ring.buf[i] = sent[m][i]
  BY <1>3, Zenon DEF Progress
<1>8. /\ missing \in Nat /\ missing > 0 /\ missing = Len(sent[m]) - old
  <2>1. PICK z \in Nat : z = Len(sent[m])  BY <1>6
  <2>2. old < z /\ missing = z - old  BY <2>1, <1>3, <1>7
  <2> HIDE DEF missing, old
  <2>3. missing \in Nat /\ missing > 0  BY <2>2, <1>2
  <2> QED  BY <2>1, <2>2, <2>3, Zenon
<1> HIDE DEF m, old, missing
<1>9. /\ k \in 0..Length /\ k \in Nat /\ k <= gunyah_rx_avail /\ k <= missing
  BY <1>2, <1>8
<1> HIDE DEF k
<1>10. gunyah_rx_avail' = gunyah_rx_avail - k
  BY <1>1, <1>2, <1>9, AvailAfterRead, Zenon
<1>11. taken \in Seq(Nat) /\ Len(taken) = k
  BY <1>2, <1>9, TakenType, Zenon
<1>12. ASSUME NEW i \in 1..k PROVE taken[i] = consumed + i - 1
  <2> DEFINE j == Advance(tail, i - 1)
  <2>1. i - 1 \in 0..(Length - 1) /\ i - 1 < gunyah_rx_avail /\ i - 1 \in 0..Length
    BY <1>2, <1>9
  <2>2. j \in Slots  BY <1>2, <2>1, AdvanceType
  <2>3. Behind(tail, j) = i - 1
    BY <1>2, <2>1, PipeAssumption DEF Behind, Advance, Slots
  <2>4. Pending \in Nat  BY <1>2 DEF TypeOK, Pending
  <2>5. Behind(tail, j) < gunyah_rx_avail + Pending
    BY <1>2, <2>1, <2>3, <2>4
  <2>6. fifo[j].n = consumed + Behind(tail, j)
    BY <2>2, <2>5, Zenon DEF PipeInv, RingInv
  <2>7. taken[i] = fifo[j].n
    BY Zenon
  <2> HIDE DEF taken, j
  <2> QED  BY <2>3, <2>6, <2>7, <1>2, Zenon
<1> HIDE DEF taken
<1>13. /\ buf \in Seq(Nat) /\ Len(buf) = old + k
       /\ \A i \in 1..old : buf[i] = ring.buf[i]
       /\ \A i \in 1..k : buf[old + i] = taken[i]
  BY <1>2, <1>11, ConcatParts, Zenon DEF old
<1> HIDE DEF buf
<1>14. ASSUME NEW i \in 1..(old + k) PROVE buf[i] = sent[m][i]
  <2>1. CASE i \in 1..old
    <3>1. i \in DOMAIN ring.buf  BY <2>1, <1>2 DEF old
    <3> QED  BY <2>1, <3>1, <1>7, <1>13, Zenon
  <2>2. CASE i > old
    <3>1. i - old \in 1..k /\ old + (i - old) = i /\ i \in 1..Len(sent[m])
      BY <2>2, <1>2, <1>8, <1>9
    <3>2. buf[i] = consumed + (i - old) - 1
      BY <3>1, <1>12, <1>13, Zenon
    <3>3. sent[m][i] = sent[m][1] + i - 1  BY <3>1, <1>6
    <3>4. PICK n \in Nat : n = sent[m][1]  BY <1>6
    <3>5. consumed = n + old  BY <3>4, <1>7
    <3>6. consumed + (i - old) - 1 = n + i - 1  BY <3>5, <1>2
    <3> QED  BY <3>2, <3>3, <3>4, <3>6, Zenon
  <2> QED  BY <2>1, <2>2, <1>2
<1>15. Pending' = Pending
  BY <1>1, Zenon DEF Pending, txVars
<1>16. Layout'
  BY <1>1, <1>15, LayoutKept, Zenon DEF Layout, txVars
<1>17. Sized'
  <2> SUFFICES ASSUME NEW j \in Slots, NEW l \in DOMAIN sent,
                      Behind(tail', j) < gunyah_rx_avail' + Pending',
                      consumed' + Behind(tail', j) = sent[l][1] + SizeWord - 1
               PROVE  fifo[j].size = Len(sent[l])
    BY <1>1, Zenon DEF Sized, Behind, txVars
  <2>1. /\ Behind(tail, j) < gunyah_rx_avail + Pending
        /\ consumed' + Behind(tail', j) = consumed + Behind(tail, j)
    BY <1>1, <1>9, <1>10, SlotsAfterRead, Zenon
  <2> QED  BY <2>1, Zenon DEF Sized
<1>18. sent' = sent /\ End' = End
  BY <1>1, Zenon DEF txVars, End
<1>19. CASE k = missing /\ posted' = Append(posted, buf) /\ ring' = [buf |-> <<>>, len |-> 0]
  <2>1. old + k = Len(sent[m])
    <3>1. PICK z \in Nat : z = Len(sent[m])  BY <1>6, Zenon
    <3>2. k = missing /\ missing = z - old /\ old \in Nat  BY <3>1, <1>2, <1>8, <1>19, Zenon
    <3>3. old + k = z  BY <3>2, SMTT(20)
    <3> QED  BY <3>1, <3>3, Zenon
  <2>2. buf = sent[m]
    BY <2>1, <1>6, <1>13, <1>14
  <2>3. posted' = Append(posted, sent[m])  BY <2>2, <1>19
  <2>4. Len(posted') = m  BY <2>3, <1>2, <1>6 DEF m
  <2>5. ring'.buf = <<>>  BY <1>19
  <2>6. consumed' = sent[m][1] + Len(sent[m])
    <3>1. PICK n \in Nat : n = sent[m][1]  BY <1>6
    <3>2. consumed = n + old /\ old + k = Len(sent[m])  BY <3>1, <2>1, <1>7
    <3>3. consumed + k = n + (old + k)  BY <3>2, <1>2, <1>9
    <3> QED  BY <3>1, <3>2, <3>3, <1>1, Zenon
  <2>7. Progress'
    <3>1. CASE m < Len(sent)
      <4>1. m + 1 \in DOMAIN sent  BY <3>1, <1>4, <1>5
      <4>2. Len(<<>>) = 0 /\ Len(sent[m + 1]) \in Nat /\ Len(sent[m + 1]) >= 1 /\ sent[m + 1][1] \in Nat
        BY <4>1, <1>4, Zenon
      <4>3. consumed' = sent[m + 1][1] + Len(<<>>) /\ Len(<<>>) < Len(sent[m + 1])
        <5>1. consumed' = sent[m + 1][1]  BY <2>6, <3>1, <1>6
        <5> QED  BY <5>1, <4>2
      <4>4. ~ (m >= Len(sent))  BY <3>1, <1>4, <1>5
      <4>5. \A i \in DOMAIN ring'.buf : FALSE  BY <2>5
      <4> QED  BY <2>4, <2>5, <3>1, <4>3, <4>4, <4>5, <1>1, <1>18, Zenon DEF Progress
    <3>2. CASE m = Len(sent)
      <4>1. ~ (m < Len(sent)) /\ sent # <<>>  BY <3>2, <1>4, <1>5
      <4>2. consumed' = End  BY <4>1, <2>6, <3>2 DEF End
      <4> QED  BY <2>4, <2>5, <3>2, <4>1, <4>2, <1>1, <1>18, Zenon DEF Progress
    <3> QED  BY <3>1, <3>2, <1>4, <1>5
  <2> QED  BY <2>3, <2>7, <1>3, <1>16, <1>17, Zenon DEF m
<1>20. CASE k # missing /\ ring' = [buf |-> buf, len |-> pkt_len] /\ UNCHANGED posted
  <2>1. ring'.buf = buf /\ ring'.len = Len(sent[m])  BY <1>20, <1>3
  <2>2. Len(buf) < Len(sent[m])  BY <1>20, <1>2, <1>6, <1>8, <1>9, <1>13
  <2>3. consumed' = sent[m][1] + Len(buf)
    <3>1. PICK n \in Nat : n = sent[m][1]  BY <1>6
    <3>2. consumed = n + old  BY <3>1, <1>7
    <3>3. consumed + k = n + (old + k)  BY <3>2, <1>2, <1>9
    <3> QED  BY <3>1, <3>3, <1>1, <1>13, Zenon
  <2>4. \A i \in DOMAIN buf : buf[i] = sent[m][i]
    <3>1. DOMAIN buf = 1..(old + k)  BY <1>13
    <3> QED  BY <3>1, <1>14, Zenon
  <2>5. ~ (Len(posted) >= Len(sent))  BY <1>2, <1>3, <1>4
  <2>6. Progress'
    BY <2>1, <2>2, <2>3, <2>4, <2>5, <1>1, <1>3, <1>18, <1>20, Zenon DEF Progress, m
  <2> QED  BY <2>6, <1>16, <1>17, <1>20, Zenon
<1> QED  BY <1>1, <1>19, <1>20, Zenon

\* Steps that move no word and begin no packet.
LEMMA QueueKept ==
  ASSUME PipeInv, Layout, Sized, Progress,
         \/ TxFull \/ TxChunk \/ TxWait \/ TxCallback \/ TxKick
         \/ RxCallback \/ RxEmpty \/ ReadFrag \/ RxNotify \/ UNCHANGED vars
  PROVE  Layout' /\ Sized' /\ Progress' /\ UNCHANGED <<sent, posted, spoilt>>
<1>1. /\ UNCHANGED <<head, tail, fifo, written, consumed, sent, posted, ring, left, spoilt>>
  BY Zenon DEF TxFull, TxChunk, TxWait, TxCallback, TxKick, RxCallback, RxEmpty, ReadFrag, RxNotify,
         vars, shared, txVars, rxVars, TxGoto, RxGoto
<1>2. Pending' = Pending
  <2>1. (txpc # "publish" /\ txpc' # "publish") \/ UNCHANGED <<txpc, chunk>>
    BY Zenon DEF TxFull, TxChunk, TxWait, TxCallback, TxKick, RxCallback, RxEmpty, ReadFrag, RxNotify,
           vars, txVars, TxGoto, RxGoto
  <2> QED  BY <2>1, Zenon DEF Pending
<1>3. gunyah_rx_avail' = gunyah_rx_avail
  BY <1>1, Zenon DEF gunyah_rx_avail
<1>4. txpc' = "idle" => left = 0
  <2>1. left \in Nat  BY DEF PipeInv, TypeOK
  <2>2. CASE TxKick
    BY <2>1, <2>2 DEF TxKick, TxGoto
  <2>3. CASE ~ TxKick
    <3>1. txpc' = "idle" => txpc = "idle"
      BY <2>3, Zenon DEF TxFull, TxChunk, TxWait, TxCallback, RxCallback, RxEmpty, ReadFrag, RxNotify,
                  vars, txVars, TxGoto, RxGoto
    <3> QED  BY <3>1, Zenon DEF Layout
  <2> QED  BY <2>2, <2>3, Zenon
<1>5. Layout'  BY <1>1, <1>2, <1>4, LayoutKept
<1>6. Sized'  BY <1>1, <1>2, <1>3, SizedKept
<1>7. CASE ReadFrag
  <2>1. /\ gunyah_rx_avail > 0 /\ ring.buf # <<>> /\ pkt_len' = ring.len
    BY <1>7, Zenon DEF ReadFrag
  <2>2. Len(posted) < Len(sent)
    BY <2>1, Unposted, Zenon
  <2>3. pkt_len' = Len(sent[Len(posted) + 1])
    BY <2>1, <2>2, Zenon DEF Progress
  <2>4. Progress'
    BY <2>1, <2>2, <2>3, <1>1, <1>3, ZenonT(30) DEF Progress, End
  <2> QED  BY <2>4, <1>1, <1>5, <1>6, Zenon
<1>8. CASE ~ ReadFrag
  <2>1. rxpc' = "read" => rxpc = "read" /\ pkt_len' = pkt_len
    BY <1>8, Zenon DEF TxFull, TxChunk, TxWait, TxCallback, TxKick, RxCallback, RxEmpty, RxNotify,
                vars, rxVars, TxGoto, RxGoto
  <2>2. rxpc = "read" => gunyah_rx_avail' > 0
    BY <1>3, Zenon DEF Progress
  <2>3. Progress'
    BY <2>1, <2>2, <1>1, ProgressKept, Zenon
  <2> QED  BY <2>3, <1>1, <1>5, <1>6, Zenon
<1> QED  BY <1>7, <1>8, Zenon

\* Once spoilt, the transport stays so.
LEMMA SpoiltStays == [Next]_vars /\ spoilt => spoilt'
<1> SUFFICES ASSUME [Next]_vars, spoilt PROVE spoilt'
  BY Zenon
<1> USE DEF TxGoto, RxGoto
<1>1. ASSUME NEW size \in Sizes, Send(size) PROVE spoilt'
  BY <1>1, Zenon DEF Send
<1>2. CASE TxFull \/ TxChunk \/ TxWait \/ TxCallback \/ TxCopy \/ TxPublish \/ TxKick
  BY <1>2, Zenon DEF TxFull, TxChunk, TxWait, TxCallback, TxCopy, TxPublish, TxKick
<1>3. CASE TxTimeout
  BY <1>3, ZenonT(30) DEF TxTimeout
<1>4. CASE RxCallback \/ RxEmpty \/ ReadFrag \/ ReadInvalid \/ ReadWords \/ RxNotify
  BY <1>4, Zenon DEF RxCallback, RxEmpty, ReadFrag, ReadInvalid, ReadWords, RxNotify
<1>5. CASE ReadHeader
  BY <1>5, Zenon DEF ReadHeader
<1>6. CASE UNCHANGED vars
  BY <1>6, Zenon DEF vars
<1> QED  BY NextCases, <1>1, <1>2, <1>3, <1>4, <1>5, <1>6, Zenon

\* Every step is one of the queue's, and keeps the packets in their places.
LEMMA QueueStep ==
  ASSUME PipeInv, Unspoilt, [Next]_vars
  PROVE  Unspoilt' /\ [Queue!Next]_<<sent, posted, spoilt>>
<1>1. CASE spoilt'
  BY <1>1, Zenon DEF Unspoilt, Queue!Next, Queue!Spoilt
<1>2. CASE ~ spoilt'
  <2>1. Layout /\ Sized /\ Progress /\ ~ spoilt
    BY <1>2, SpoiltStays, Zenon DEF Unspoilt
  <2>2. spoilt' = spoilt
    <3>1. spoilt \in BOOLEAN  BY Zenon DEF PipeInv, TypeOK
    <3>2. spoilt' \in BOOLEAN  BY TypeStep, Zenon DEF TypeOK
    <3> QED  BY <1>2, <2>1, <3>1, <3>2, Zenon
  <2>3. ASSUME NEW size \in Sizes, Send(size)
        PROVE  Unspoilt' /\ [Queue!Next]_<<sent, posted, spoilt>>
    <3>1. Unspoilt'
      BY <2>1, <2>3, QueueSend, Zenon DEF Unspoilt
    <3>2. sent' = Append(sent, Words(written, size)) /\ UNCHANGED posted
      BY <2>3, Zenon DEF Send, TxGoto, rxVars
    <3>3. Words(written, size) \in Seq(Nat) /\ sent \in Seq(Seq(Nat))
      BY WordsAre, Zenon DEF PipeInv, TypeOK
    <3>4. /\ Len(sent') = Len(sent) + 1 /\ sent'[Len(sent) + 1] \in Seq(Nat)
      BY <3>2, <3>3, PacketAppended, Zenon
    <3>5. SubSeq(sent', 1, Len(sent)) = sent
      BY <3>2, <3>3
    <3>6. Queue!Xmit
      BY <3>2, <3>4, <3>5, <2>2, Zenon DEF Queue!Xmit
    <3> QED  BY <3>1, <3>6, Zenon DEF Queue!Next
  <2>4. CASE TxTimeout
    <3>1. /\ Layout' /\ Sized' /\ Progress' /\ Len(posted) < Len(sent)
          /\ sent' = SubSeq(sent, 1, Len(sent) - 1)
      BY <2>1, <2>4, <1>2, QueueTimeout, Zenon
    <3>2. UNCHANGED posted  BY <2>4 DEF TxTimeout, rxVars
    <3>3. Queue!Refuse
      BY <3>1, <3>2, <2>2, Zenon DEF Queue!Refuse
    <3> QED  BY <3>1, <3>3, Zenon DEF Unspoilt, Queue!Next
  <2>5. CASE TxCopy
    <3>1. UNCHANGED <<sent, posted>>  BY <2>5 DEF TxCopy, TxGoto, rxVars
    <3> QED  BY <2>1, <2>2, <2>5, <3>1, QueueCopy, Zenon DEF Unspoilt
  <2>6. CASE TxPublish
    <3>1. UNCHANGED <<sent, posted>>  BY <2>6 DEF TxPublish, TxGoto, rxVars
    <3> QED  BY <2>1, <2>2, <2>6, <3>1, QueuePublish, Zenon DEF Unspoilt
  <2>7. CASE ReadHeader
    <3>1. UNCHANGED <<sent, posted>>  BY <2>7 DEF ReadHeader, txVars
    <3> QED  BY <2>1, <2>2, <2>7, <3>1, <1>2, QueueHeader, Zenon DEF Unspoilt
  <2>8. CASE ReadInvalid
    <3>1. pkt_len = 0 /\ rxpc = "read"  BY <2>8 DEF ReadInvalid
    <3>2. Len(posted) < Len(sent) /\ pkt_len = Len(sent[Len(posted) + 1])
      BY <3>1, <2>1, Zenon DEF Progress
    <3>3. Len(posted) + 1 \in DOMAIN sent
      BY <3>2, PacketType, SMTT(20) DEF PipeInv, TypeOK
    <3>4. Len(sent[Len(posted) + 1]) >= 1
      BY <3>3, <2>1, PacketType, Zenon DEF PipeInv
    <3> QED  BY <3>1, <3>2, <3>4
  <2>9. CASE ReadWords
    <3>1. /\ Layout' /\ Sized' /\ Progress'
          /\ \/ UNCHANGED posted
             \/ /\ Len(posted) < Len(sent)
                /\ posted' = Append(posted, sent[Len(posted) + 1])
      BY <2>1, <2>9, QueueWords, Zenon
    <3>2. UNCHANGED sent  BY <2>9 DEF ReadWords, RxGoto, txVars
    <3>3. UNCHANGED <<sent, posted, spoilt>> \/ Queue!Deliver
      BY <3>1, <3>2, <2>2, Zenon DEF Queue!Deliver
    <3> QED  BY <3>1, <3>3, Zenon DEF Unspoilt, Queue!Next
  <2>10. CASE \/ TxFull \/ TxChunk \/ TxWait \/ TxCallback \/ TxKick
              \/ RxCallback \/ RxEmpty \/ ReadFrag \/ RxNotify \/ UNCHANGED vars
    BY <2>1, <2>10, QueueKept, Zenon DEF Unspoilt
  <2> QED
    BY NextCases, <2>3, <2>4, <2>5, <2>6, <2>7, <2>8, <2>9, <2>10, Zenon
<1> QED  BY <1>1, <1>2, Zenon

\* The ring, its two indices, the doorbells and the packet put together from pieces
\* (qrtr_gunyah_send, qrtr_gunyah_read) implement a queue of packets, for every length,
\* reserve and size of packets: until a header is read before its size word is there or
\* a sender gives up in the middle of a packet, every packet accepted is posted whole,
\* once and in order, and a packet that was refused is not posted.
THEOREM PipeIsQueue == Spec => QueueSpec
<1>1. Init => Unspoilt /\ Queue!Init
  <2> SUFFICES ASSUME Init PROVE Layout /\ Sized /\ Progress /\ Queue!Init
    BY Zenon DEF Unspoilt
  <2>1. sent = <<>> /\ posted = <<>> /\ DOMAIN sent = {} /\ Len(sent) = 0 /\ Len(posted) = 0
    BY DEF Init
  <2>2. End = 0 /\ Pending = 0  BY <2>1 DEF End, Pending, Init
  <2>3. Layout  BY <2>1, <2>2 DEF Layout, Init
  <2>4. Sized  BY <2>1 DEF Sized
  <2>5. Progress  BY <2>1, <2>2 DEF Progress, Init
  <2>6. Queue!Init  BY DEF Init, Queue!Init
  <2> QED  BY <2>3, <2>4, <2>5, <2>6, Zenon
<1>2. PipeInv /\ Unspoilt /\ [Next]_vars => Unspoilt' /\ [Queue!Next]_<<sent, posted, spoilt>>
  BY QueueStep, Zenon
<1> QED  BY <1>1, <1>2, PipeInvariant, PTL DEF Spec, QueueSpec, Queue!Spec
=============================================================================
