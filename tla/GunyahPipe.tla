----------------------------- MODULE GunyahPipe -----------------------------
(***************************************************************************)
(* One direction of the shared-memory transport of net/qrtr/gunyah.c: a    *)
(* VM that sends packets through a ring of words, and the doorbell         *)
(* callback of the VM that reads them.  The unit is the 4-byte word, to    *)
(* which every packet is padded.  A word is known by its position in all   *)
(* that was ever written; the size word of a header also carries the size. *)
(* qrtr_node_enqueue holds ep_lock around xmit: one packet at a time.      *)
(***************************************************************************)
EXTENDS Naturals, Sequences

CONSTANTS
  Length,       \* pipe->length
  Reserve,      \* FIFO_FULL_RESERVE
  Sizes,        \* sizes of packets, header included
  SizeWord,     \* place of the size in the header, counted from 1
  MayTimeout,   \* a sender may wait for 10 s in vain
  MaxPkts       \* bound: packets sent

ASSUME PipeAssumption ==
  /\ Length \in Nat /\ Reserve \in Nat /\ 0 < Reserve /\ Reserve < Length
  /\ SizeWord \in Nat /\ 0 < SizeWord /\ SizeWord <= Length
  /\ Sizes \subseteq Nat /\ \A s \in Sizes : SizeWord <= s
  /\ MayTimeout \in BOOLEAN /\ MaxPkts \in Nat

VARIABLES
  head, tail, fifo, read_notify,   \* the shared memory
  rx_dbl, tx_dbl,      \* doorbell raised for the reader, for the sender
  txpc, left, chunk,   \* the sender: words left to send, words being written
  rxpc, pkt_len,       \* the reader
  ring,                \* struct gunyah_ring: what was read of a packet, its size
  written, consumed,   \* words copied to the ring, words taken from it
  sent, posted,        \* packets accepted from, and handed to, the router
  spoilt               \* history: a header was read before its size word was
                       \* there, or part of a packet was left behind

shared == <<head, tail, fifo, read_notify>>
txVars == <<txpc, left, chunk, written, sent>>
rxVars == <<rxpc, pkt_len, ring, consumed, posted>>
vars == <<shared, rx_dbl, tx_dbl, txVars, rxVars, spoilt>>

Slots == 0..(Length - 1)

\* The words of a packet of the given size that starts at position p.
Words(p, size) == [i \in 1..size |-> p + i - 1]

\* How far slot j is behind index i.
Behind(i, j) == IF i <= j THEN j - i ELSE Length - i + j

\* Index i moved on by k <= Length.
Advance(i, k) == IF i + k >= Length THEN i + k - Length ELSE i + k

Init ==
  /\ head = 0 /\ tail = 0 /\ read_notify = 0
  /\ fifo = [j \in Slots |-> [n |-> 0, size |-> 0]]
  /\ rx_dbl = FALSE /\ tx_dbl = FALSE
  /\ txpc = "idle" /\ left = 0 /\ chunk = 0
  /\ rxpc = "idle" /\ pkt_len = 0 /\ ring = [buf |-> <<>>, len |-> 0]
  /\ written = 0 /\ consumed = 0
  /\ sent = <<>> /\ posted = <<>> /\ spoilt = FALSE

gunyah_rx_avail == IF head < tail THEN Length - tail + head ELSE head - tail

\* Mutant: the ring may be filled to the last word.
TxAvailNoReserve == IF tail <= head THEN Length - head + tail ELSE tail - head

gunyah_tx_avail ==
  LET avail == IF tail <= head THEN Length - head + tail ELSE tail - head
  IN  IF avail < Reserve THEN 0 ELSE avail - Reserve

-----------------------------------------------------------------------------
(* The sender: qrtr_gunyah_send *)

TxGoto(pc) == txpc' = pc /\ UNCHANGED <<rxVars, spoilt>>

Send(size) ==
  /\ txpc = "idle" /\ Len(sent) < MaxPkts
  /\ TxGoto("check")
  /\ left' = size
  /\ sent' = Append(sent, Words(written, size))
  /\ UNCHANGED <<shared, rx_dbl, tx_dbl, chunk, written>>

\* No room: ask for a notification (gunyah_wait_for_tx_avail).
TxFull ==
  /\ txpc = "check" /\ gunyah_tx_avail = 0
  /\ TxGoto("wait")
  /\ read_notify' = 1
  /\ rx_dbl' = TRUE
  /\ UNCHANGED <<head, tail, fifo, tx_dbl, left, chunk, written, sent>>

TxChunk ==
  /\ txpc = "check" /\ gunyah_tx_avail > 0
  /\ TxGoto("copy")
  /\ chunk' = IF gunyah_tx_avail < left THEN gunyah_tx_avail ELSE left
  /\ UNCHANGED <<shared, rx_dbl, tx_dbl, left, written, sent>>

\* wait_event_timeout evaluates its condition, and the sender sleeps or not.
TxWait ==
  /\ txpc = "wait"
  /\ TxGoto(IF gunyah_tx_avail > 0 THEN "check" ELSE "sleep")
  /\ UNCHANGED <<shared, rx_dbl, tx_dbl, left, chunk, written, sent>>

\* The sender's own callback: wake_up_all(&tx_avail_notify).
TxCallback ==
  /\ tx_dbl /\ tx_dbl' = FALSE
  /\ TxGoto(IF txpc = "sleep" THEN "wait" ELSE txpc)
  /\ UNCHANGED <<shared, rx_dbl, left, chunk, written, sent>>

\* -ETIMEDOUT: the packet is refused, but what was written of it stays in the ring.
TxTimeout ==
  /\ MayTimeout /\ txpc = "sleep" /\ gunyah_tx_avail = 0
  /\ txpc' = "idle"
  /\ read_notify' = 0
  /\ left' = 0
  /\ IF left = Len(sent[Len(sent)])
     THEN sent' = SubSeq(sent, 1, Len(sent) - 1) /\ UNCHANGED spoilt
     ELSE spoilt' = TRUE /\ UNCHANGED sent
  /\ UNCHANGED <<head, tail, fifo, rx_dbl, tx_dbl, chunk, written, rxVars>>

\* gunyah_tx_write or gunyah_sg_write: the words, in up to two pieces ...
TxCopy ==
  /\ txpc = "copy"
  /\ TxGoto("publish")
  /\ fifo' = [j \in Slots |->
       LET k == Behind(head, j)
           pkt == sent[Len(sent)]
           at == Len(pkt) - left + k + 1
       IN  IF k < chunk
           THEN [n |-> written + k, size |-> IF at = SizeWord THEN Len(pkt) ELSE 0]
           ELSE fifo[j]]
  /\ written' = written + chunk
  /\ UNCHANGED <<head, tail, read_notify, rx_dbl, tx_dbl, left, chunk, sent>>

\* ... then, after the barrier, the index.
TxPublish ==
  /\ txpc = "publish"
  /\ TxGoto("kick")
  /\ head' = Advance(head, chunk)
  /\ left' = left - chunk
  /\ UNCHANGED <<tail, fifo, read_notify, rx_dbl, tx_dbl, chunk, written, sent>>

TxKick ==
  /\ txpc = "kick"
  /\ TxGoto(IF left > 0 THEN "check" ELSE "idle")
  /\ rx_dbl' = TRUE
  /\ read_notify' = IF left > 0 THEN read_notify ELSE 0
  /\ UNCHANGED <<head, tail, fifo, tx_dbl, left, chunk, written, sent>>

-----------------------------------------------------------------------------
(* The reader: qrtr_gunyah_cb and qrtr_gunyah_read *)

RxGoto(pc) == rxpc' = pc /\ UNCHANGED <<txVars, spoilt>>

RxCallback ==
  /\ rxpc = "idle" /\ rx_dbl
  /\ rx_dbl' = FALSE
  /\ RxGoto("loop")
  /\ UNCHANGED <<shared, tx_dbl, pkt_len, ring, consumed, posted>>

RxEmpty ==
  /\ rxpc = "loop" /\ gunyah_rx_avail = 0
  /\ RxGoto("idle")
  /\ UNCHANGED <<shared, rx_dbl, tx_dbl, pkt_len, ring, consumed, posted>>

\* qrtr_gunyah_read_new peeks at the header, whether it is all there or not.
\* A word that is no size word reads as any size, or as none that is valid.
ReadHeader ==
  /\ rxpc = "loop" /\ gunyah_rx_avail > 0 /\ ring.buf = <<>>
  /\ LET w == fifo[Advance(tail, SizeWord - 1)]
     IN  IF w.size > 0 THEN pkt_len' = w.size ELSE pkt_len' \in Sizes \cup {0}
  /\ spoilt' = (spoilt \/ gunyah_rx_avail < SizeWord)
  /\ rxpc' = "read"
  /\ UNCHANGED <<shared, rx_dbl, tx_dbl, txVars, ring, consumed, posted>>

\* qrtr_gunyah_read_frag goes on with the packet in ring.
ReadFrag ==
  /\ rxpc = "loop" /\ gunyah_rx_avail > 0 /\ ring.buf # <<>>
  /\ pkt_len' = ring.len
  /\ RxGoto("read")
  /\ UNCHANGED <<shared, rx_dbl, tx_dbl, ring, consumed, posted>>

\* gunyah_rx_advance; tail + k is below 2 * Length, so that one subtraction is
\* the remainder.
RxAdvance(k) == tail' = Advance(tail, k) /\ consumed' = consumed + k

\* Invalid size: drop all there is.
ReadInvalid ==
  /\ rxpc = "read" /\ pkt_len = 0
  /\ RxAdvance(gunyah_rx_avail)
  /\ RxGoto("notify")
  /\ UNCHANGED <<head, fifo, read_notify, rx_dbl, tx_dbl, pkt_len, ring, posted>>

\* The common end of read_new and read_frag: take what there is, and post the
\* packet when it is complete.
ReadWords ==
  /\ rxpc = "read" /\ pkt_len > 0
  /\ LET missing == pkt_len - Len(ring.buf)
         k   == IF gunyah_rx_avail > missing THEN missing ELSE gunyah_rx_avail
         buf == ring.buf \o [i \in 1..k |-> fifo[Advance(tail, i - 1)].n]
     IN  /\ RxAdvance(k)
         /\ IF k = missing
            THEN /\ posted' = Append(posted, buf)
                 /\ ring' = [buf |-> <<>>, len |-> 0]
            ELSE /\ ring' = [buf |-> buf, len |-> pkt_len]
                 /\ UNCHANGED posted
  /\ RxGoto("notify")
  /\ UNCHANGED <<head, fifo, read_notify, rx_dbl, tx_dbl, pkt_len>>

\* Mutant: the reader never tells the sender about room.
RxNotifyNobody ==
  /\ rxpc = "notify"
  /\ RxGoto("loop")
  /\ UNCHANGED <<shared, rx_dbl, tx_dbl, pkt_len, ring, consumed, posted>>

RxNotify ==
  /\ rxpc = "notify"
  /\ tx_dbl' = (tx_dbl \/ read_notify = 1)
  /\ RxGoto("loop")
  /\ UNCHANGED <<shared, rx_dbl, pkt_len, ring, consumed, posted>>

Sender == TxFull \/ TxChunk \/ TxWait \/ TxCopy \/ TxPublish \/ TxKick

Reader == \/ RxCallback \/ RxEmpty \/ ReadHeader \/ ReadFrag
          \/ ReadInvalid \/ ReadWords \/ RxNotify

Next ==
  \/ \E size \in Sizes : Send(size)
  \/ Sender \/ TxCallback \/ TxTimeout
  \/ Reader

Spec == Init /\ [][Next]_vars

\* Both VMs run, and interrupts are delivered.
FairSpec == Spec /\ WF_vars(Sender) /\ WF_vars(TxCallback) /\ WF_vars(Reader)

-----------------------------------------------------------------------------
(* Properties *)

\* Every variable has its type, and the indices stay in the ring.
TypeOK ==
  /\ head \in Slots /\ tail \in Slots
  /\ fifo \in [Slots -> [n : Nat, size : Nat]]
  /\ read_notify \in {0, 1}
  /\ rx_dbl \in BOOLEAN /\ tx_dbl \in BOOLEAN
  /\ txpc \in {"idle", "check", "wait", "sleep", "copy", "publish", "kick"}
  /\ rxpc \in {"idle", "loop", "read", "notify"}
  /\ left \in Nat /\ chunk \in Nat /\ pkt_len \in Nat
  /\ ring \in [buf : Seq(Nat), len : Nat]
  /\ written \in Nat /\ consumed \in Nat
  /\ sent \in Seq(Seq(Nat)) /\ posted \in Seq(Seq(Nat)) /\ spoilt \in BOOLEAN

\* No word is overwritten before it was read, although the sender computes the
\* room with a tail that is stale when it writes (gunyah_tx_avail): the words
\* between tail and head are the oldest unread ones, in order.
UnreadIntact ==
  \A j \in Slots : Behind(tail, j) < gunyah_rx_avail =>
                     fifo[j].n = consumed + Behind(tail, j)

\* The transport is a queue of packets (struct qrtr_endpoint) until a header is
\* read too early or a sender gives up in the middle of a packet.
Queue == INSTANCE PacketFifo WITH Packets <- Seq(Nat)
QueueSpec == Queue!Spec

\* Every packet accepted is eventually posted: a sender that sleeps for want of
\* room is always told when there is some (read_notify), so the 10 s of
\* wait_event_timeout need not run out, and the reader hears of every word.
AllPosted ==
  \A k \in 1..MaxPkts :
    Len(sent) = k ~> (Len(posted) >= k \/ Len(sent) < k \/ spoilt)

\* "This information is used to perform link layer fragmentation and
\* re-assembly" (qrtr_peek_pkt_size): packets are posted as they were sent,
\* whatever pieces they arrived in.
Reassembled == \A k \in DOMAIN posted : k <= Len(sent) /\ posted[k] = sent[k]

\* "Corrupted packet, reset the pipe and discard existing data"
\* (qrtr_gunyah_read_new): only packets that some sender sent are posted.
PostedWereSent ==
  \A k \in DOMAIN posted : \E i \in DOMAIN sent : posted[k] = sent[i]
=============================================================================
