---------------------------- MODULE GlinkIntents ----------------------------
(***************************************************************************)
(* Receive intents of an open GLINK channel (drivers/rpmsg/                *)
(* qcom_glink_native.c): side A sends with __qcom_glink_send, side B       *)
(* receives, and data moves only into a buffer (an intent) that B has      *)
(* advertised.  Both halves are in the one file.  A buffer has room for    *)
(* size[i] chunks of 8K; the first Base of them are reusable and of one    *)
(* chunk, as qcom_glink_announce_create makes them, the others are made on *)
(* request and used once.  A link delivers in order, by interrupt.         *)
(***************************************************************************)
EXTENDS Integers, Sequences

CONSTANTS Senders,     \* threads of side A in __qcom_glink_send
          Lens,        \* lengths of messages, in chunks
          Base,        \* number of reusable intents
          CbIrq,       \* qcom,cb-irq: data callbacks run in the interrupt
          MayTimeout,  \* whether an intent request may time out
          MaxSends,    \* bound: messages sent
          MaxReqs,     \* bound: intent requests
          None         \* not a sender

\* A message has one chunk at least, even without data.
ASSUME IntentsAssumption ==
  /\ None \notin Senders /\ Lens \subseteq Nat \ {0}
  /\ Base \in Nat /\ MaxSends \in Nat /\ MaxReqs \in Nat

Ids == 1..(Base + MaxReqs)
Reusable == 1..Base
Sizes == Lens \cup {0, 1}

VARIABLES
  (* side A *)
  rsize,     \* riids: size of each remote intent, 0 when it is not known
  in_use,    \* remote intents in use
  pc,        \* where a sender is
  msg,       \* its message: chunks left to send, intent in use, and whether it
             \* may wait (qcom_glink_send, not qcom_glink_trysend)
  lock,      \* owner of intent_req_lock
  result,    \* intent_req_result
  received,  \* intent_received
  abort_tx,  \* the remote side has crashed: nothing is sent any more
  (* the links *)
  ab, ba,
  (* side B *)
  lsize,     \* liids: size of each local intent, 0 when it is not there
  offset,    \* chunks written into it
  work,      \* deferred intent requests, for rx_work
  rx_queue,  \* channel->rx_queue: [new |-> size] or [id |-> intent]
  thread,    \* what qcom_glink_rx_thread is at
  held,      \* defer_intents: with the client
  (* bounds *)
  sends, reqs, nextId

req == <<lock, result, received>>
aVars == <<rsize, in_use, pc, msg, req, abort_tx>>
bVars == <<lsize, offset, work, rx_queue, thread, held, nextId>>
vars == <<aVars, ab, ba, bVars, sends, reqs>>

Idle == [at |-> "idle"]
NoMsg == [left |-> 0, use |-> 0, wait |-> TRUE]

\* The base set of intents is advertised and has arrived.
Init ==
  /\ rsize = [i \in Ids |-> IF i \in Reusable THEN 1 ELSE 0] /\ in_use = {}
  /\ pc = [s \in Senders |-> "idle"] /\ msg = [s \in Senders |-> NoMsg]
  /\ lock = None /\ result = -1 /\ received = FALSE /\ abort_tx = FALSE
  /\ ab = <<>> /\ ba = <<>>
  /\ lsize = rsize /\ offset = [i \in Ids |-> 0]
  /\ work = <<>> /\ rx_queue = <<>> /\ thread = Idle /\ held = {}
  /\ sends = 0 /\ reqs = 0 /\ nextId = Base + 1

-----------------------------------------------------------------------------
(* Side A: __qcom_glink_send and qcom_glink_request_intent *)

Goto(s, from, to) == pc[s] = from /\ pc' = [pc EXCEPT ![s] = to]
Return(s, from) == Goto(s, from, "idle") /\ msg' = [msg EXCEPT ![s] = NoMsg]

Begin(s) ==
  /\ sends < MaxSends /\ sends' = sends + 1
  /\ Goto(s, "idle", "find")
  /\ \E l \in Lens, w \in BOOLEAN :
       msg' = [msg EXCEPT ![s] = [left |-> l, use |-> 0, wait |-> w]]
  /\ UNCHANGED <<rsize, in_use, req, ab, ba, abort_tx, bVars, reqs>>

Fits(s) == {i \in Ids : rsize[i] >= msg[s].left /\ i \notin in_use}

\* The first of the smallest that fit.
Best(s) ==
  CHOOSE i \in Fits(s) : \A j \in Fits(s) :
    rsize[i] < rsize[j] \/ (rsize[i] = rsize[j] /\ i <= j)

\* Mutant: the intent is not marked.
FindUnmarked(s) ==
  /\ Fits(s) # {}
  /\ Goto(s, "find", "data")
  /\ msg' = [msg EXCEPT ![s].use = Best(s)]
  /\ UNCHANGED <<rsize, in_use, req, ab, ba, abort_tx, bVars, sends, reqs>>

\* Search of riids, under intent_lock.
Find(s) ==
  /\ Fits(s) # {}
  /\ Goto(s, "find", "data")
  /\ msg' = [msg EXCEPT ![s].use = Best(s)]
  /\ in_use' = in_use \cup {Best(s)}
  /\ UNCHANGED <<rsize, req, ab, ba, abort_tx, bVars, sends, reqs>>

\* Without an intent qcom_glink_trysend gives up with -EBUSY.
FindNone(s) ==
  /\ Fits(s) = {}
  /\ IF msg[s].wait THEN Goto(s, "find", "req") /\ UNCHANGED msg
                    ELSE Return(s, "find")
  /\ UNCHANGED <<rsize, in_use, req, ab, ba, abort_tx, bVars, sends, reqs>>

ReqReset(s) ==
  /\ lock = None /\ (reqs < MaxReqs \/ abort_tx)
  /\ Goto(s, "req", "tx")
  /\ lock' = s /\ result' = -1 /\ received' = FALSE
  /\ reqs' = IF abort_tx THEN reqs ELSE reqs + 1
  /\ UNCHANGED <<rsize, in_use, msg, ab, ba, abort_tx, bVars, sends>>

ReqSend(s) ==
  /\ ~ abort_tx
  /\ Goto(s, "tx", "wait")
  /\ ab' = Append(ab, [cmd |-> "REQ", size |-> msg[s].left])
  /\ UNCHANGED <<rsize, in_use, msg, req, ba, abort_tx, bVars, sends, reqs>>

Answered == result >= 0 /\ received

\* The wait ends: search again, or -ECANCELED.
ReqAnswered(s) ==
  /\ Answered \/ abort_tx
  /\ IF result # 0 THEN Goto(s, "wait", "find") /\ UNCHANGED msg
                   ELSE Return(s, "wait")
  /\ lock' = None
  /\ UNCHANGED <<rsize, in_use, result, received, ab, ba, abort_tx, bVars, sends,
                 reqs>>

\* Mutant: a timeout keeps intent_req_lock.
ReqTimeoutLocked(s) ==
  /\ MayTimeout /\ ~ Answered /\ ~ abort_tx
  /\ Return(s, "wait")
  /\ UNCHANGED <<rsize, in_use, req, ab, ba, abort_tx, bVars, sends, reqs>>

\* -ETIMEDOUT after 10 s; the answer may still come.
ReqTimeout(s) ==
  /\ MayTimeout /\ ~ Answered /\ ~ abort_tx
  /\ Return(s, "wait")
  /\ lock' = None
  /\ UNCHANGED <<rsize, in_use, result, received, ab, ba, abort_tx, bVars, sends, reqs>>

\* Chunk by chunk, each under tx_lock of its own; qcom_glink_trysend at once.  That
\* qcom_glink_tx waits for room in the FIFO shows as delay only.
SendChunk(s) ==
  LET n    == IF msg[s].wait THEN 1 ELSE msg[s].left
      left == msg[s].left - n
  IN
  /\ ~ abort_tx
  /\ IF left > 0 THEN Goto(s, "data", "data") /\ msg' = [msg EXCEPT ![s].left = left]
                 ELSE Return(s, "data")
  /\ ab' = Append(ab, [cmd |-> "DATA", id |-> msg[s].use, n |-> n, left |-> left])
  /\ UNCHANGED <<rsize, in_use, req, ba, abort_tx, bVars, sends, reqs>>

\* The fifo is full and qcom_glink_trysend does not wait: -EAGAIN.
TryFull(s) ==
  /\ ~ abort_tx /\ ~ msg[s].wait
  /\ Return(s, "data")
  /\ in_use' = in_use \ {msg[s].use}
  /\ UNCHANGED <<rsize, req, ab, ba, abort_tx, bVars, sends, reqs>>

\* Mutant: a request that cannot be sent keeps intent_req_lock.
TxAbortedLocked(s) ==
  /\ abort_tx /\ (Return(s, "tx") \/ Return(s, "data"))
  /\ in_use' = in_use \ {msg[s].use}
  /\ UNCHANGED <<rsize, req, ab, ba, abort_tx, bVars, sends, reqs>>

\* qcom_glink_tx fails with -EIO: the request, or the data and its intent, are
\* given up.
TxAborted(s) ==
  /\ abort_tx /\ (Return(s, "tx") \/ Return(s, "data"))
  /\ in_use' = in_use \ {msg[s].use}
  /\ lock' = IF pc[s] = "tx" THEN None ELSE lock
  /\ UNCHANGED <<rsize, result, received, ab, ba, abort_tx, bVars, sends, reqs>>

\* The remote side crashes: qcom_glink_early_ssr_notify.
Crash ==
  /\ ~ abort_tx /\ abort_tx' = TRUE
  /\ ab' = <<>> /\ ba' = <<>>
  /\ work' = <<>> /\ rx_queue' = <<>> /\ thread' = Idle /\ held' = {}
  /\ UNCHANGED <<rsize, in_use, pc, msg, req, lsize, offset, nextId, sends, reqs>>

\* qcom_glink_native_rx of side A
Got(link, cmd) == link # <<>> /\ Head(link).cmd = cmd

\* qcom_glink_handle_intent.  Without memory the intent is not stored.
RxIntent ==
  /\ Got(ba, "INTENT") /\ ba' = Tail(ba)
  /\ \E size \in {0, Head(ba).size} : rsize' = [rsize EXCEPT ![Head(ba).id] = size]
  /\ received' = TRUE
  /\ UNCHANGED <<in_use, pc, msg, lock, result, ab, abort_tx, bVars, sends, reqs>>

\* qcom_glink_handle_intent_req_ack
RxReqAck ==
  /\ Got(ba, "ACK") /\ ba' = Tail(ba)
  /\ result' = Head(ba).granted
  /\ UNCHANGED <<rsize, in_use, pc, msg, lock, received, ab, abort_tx, bVars, sends,
                 reqs>>

\* Mutant: the remote intent stays known after its only use.
RxDoneKept ==
  /\ Got(ba, "DONE") /\ ba' = Tail(ba)
  /\ in_use' = in_use \ {Head(ba).id}
  /\ received' = (received \/ Head(ba).id \in Reusable)
  /\ UNCHANGED <<rsize, pc, msg, lock, result, ab, abort_tx, bVars, sends, reqs>>

\* qcom_glink_handle_rx_done
RxDone ==
  LET i == Head(ba).id IN
  /\ Got(ba, "DONE") /\ ba' = Tail(ba)
  /\ in_use' = in_use \ {i}
  /\ rsize' = IF i \in Reusable THEN rsize ELSE [rsize EXCEPT ![i] = 0]
  /\ received' = (received \/ i \in Reusable)
  /\ UNCHANGED <<pc, msg, lock, result, ab, abort_tx, bVars, sends, reqs>>

-----------------------------------------------------------------------------
(* Side B *)

\* qcom_glink_rx_defer
RxReq ==
  /\ Got(ab, "REQ") /\ ab' = Tail(ab)
  /\ work' = Append(work, Head(ab).size)
  /\ UNCHANGED <<aVars, ba, lsize, offset, rx_queue, thread, held, nextId, sends, reqs>>

\* qcom_glink_rx_data: the data finds its intent, with room.
Lands(m) == lsize[m.id] - offset[m.id] >= m.n

\* Data that does not is dropped, and data that is not yet complete is kept.
RxDataPart ==
  LET m == Head(ab) IN
  /\ Got(ab, "DATA") /\ ab' = Tail(ab)
  /\ ~ Lands(m) \/ m.left > 0
  /\ offset' = IF Lands(m) THEN [offset EXCEPT ![m.id] = @ + m.n] ELSE offset
  /\ UNCHANGED <<aVars, ba, lsize, work, rx_queue, thread, held, nextId, sends, reqs>>

\* A message is complete: qcom_glink_rx_data_handler queues it.
RxData ==
  LET m == Head(ab) IN
  /\ Got(ab, "DATA") /\ Lands(m) /\ m.left = 0
  /\ ab' = Tail(ab)
  /\ offset' = [offset EXCEPT ![m.id] = @ + m.n]
  /\ rx_queue' = Append(rx_queue, [at |-> "data", id |-> m.id])
  /\ UNCHANGED <<aVars, ba, lsize, work, thread, held, nextId, sends, reqs>>

\* ... or, when nothing is queued, calls the client at once.
InIrq(m) ==
  /\ CbIrq /\ rx_queue = <<>>
  /\ Got(ab, "DATA") /\ Lands(m) /\ m.left = 0
  /\ ab' = Tail(ab)
  /\ offset' = [offset EXCEPT ![m.id] = 0]

\* The intent is off liids when it was for one use.
Unlist(i) == lsize' = IF i \in Reusable THEN lsize ELSE [lsize EXCEPT ![i] = 0]

\* The callback is over and the intent returned ...
RxDataIrq ==
  /\ InIrq(Head(ab)) /\ Unlist(Head(ab).id)
  /\ ba' = Append(ba, [cmd |-> "DONE", id |-> Head(ab).id])
  /\ UNCHANGED <<aVars, work, rx_queue, thread, held, nextId, sends, reqs>>

\* ... or it is for the thread to return, because the fifo is full: cb_irq_done ...
RxDataIrqFull ==
  /\ InIrq(Head(ab)) /\ Unlist(Head(ab).id)
  /\ rx_queue' = <<[at |-> "irq_done", id |-> Head(ab).id]>>
  /\ UNCHANGED <<aVars, ba, work, thread, held, nextId, sends, reqs>>

\* ... or the callback has returned RPMSG_DEFER.
RxDataIrqDefer ==
  /\ InIrq(Head(ab))
  /\ held' = held \cup {Head(ab).id}
  /\ UNCHANGED <<aVars, ba, lsize, work, rx_queue, thread, nextId, sends, reqs>>

\* qcom_glink_handle_intent_req: a reusable intent that is large enough will
\* do, whether it is in use or not ...
WorkReuse ==
  /\ work # <<>> /\ work' = Tail(work)
  /\ \E i \in Reusable : lsize[i] >= Head(work)
  /\ ba' = Append(ba, [cmd |-> "ACK", granted |-> 1])
  /\ UNCHANGED <<aVars, ab, lsize, offset, rx_queue, thread, held, nextId, sends, reqs>>

\* ... and otherwise the thread is asked for a new one.
WorkNew ==
  /\ work # <<>> /\ work' = Tail(work)
  /\ ~ \E i \in Reusable : lsize[i] >= Head(work)
  /\ rx_queue' = Append(rx_queue, [at |-> "new", size |-> Head(work)])
  /\ UNCHANGED <<aVars, ab, ba, lsize, offset, thread, held, nextId, sends, reqs>>

\* Without memory the request is refused.
WorkRefused ==
  /\ work # <<>> /\ work' = Tail(work)
  /\ ~ \E i \in Reusable : lsize[i] >= Head(work)
  /\ ba' = Append(ba, [cmd |-> "ACK", granted |-> 0])
  /\ UNCHANGED <<aVars, ab, lsize, offset, rx_queue, thread, held, nextId, sends, reqs>>

\* qcom_glink_rx_thread takes the head of the queue.  Data goes to the client.
ThreadTake ==
  /\ thread = Idle /\ rx_queue # <<>>
  /\ rx_queue' = Tail(rx_queue)
  /\ thread' = Head(rx_queue)
  /\ held' = IF Head(rx_queue).at = "new" THEN held ELSE held \cup {Head(rx_queue).id}
  /\ UNCHANGED <<aVars, ab, ba, lsize, offset, work, nextId, sends, reqs>>

\* Mutant: an intent that is used once is freed and not returned.
GiveBackSilent(i) ==
  /\ held' = held \ {i}
  /\ Unlist(i)
  /\ offset' = [offset EXCEPT ![i] = 0]
  /\ ba' = IF i \in Reusable THEN Append(ba, [cmd |-> "DONE", id |-> i]) ELSE ba

\* __qcom_glink_rx_done
GiveBack(i) ==
  /\ held' = held \ {i}
  /\ Unlist(i)
  /\ offset' = [offset EXCEPT ![i] = 0]
  /\ ba' = Append(ba, [cmd |-> "DONE", id |-> i])

\* The callback returns, and the intent with it.
ThreadDone ==
  /\ thread.at \in {"data", "irq_done"}
  /\ thread' = Idle
  /\ GiveBack(thread.id)
  /\ UNCHANGED <<aVars, ab, work, rx_queue, nextId, sends, reqs>>

\* The callback returns RPMSG_DEFER: the client keeps the buffer, or has
\* already returned it ...
ThreadDefer ==
  /\ thread.at \in {"data", "deferred"}
  /\ thread' = Idle
  /\ UNCHANGED <<aVars, ab, ba, lsize, offset, work, rx_queue, held, nextId, sends,
                 reqs>>

\* ... by qcom_glink_rx_done.
ClientDone ==
  /\ \E i \in held :
       /\ thread # [at |-> "irq_done", id |-> i]
       /\ GiveBack(i)
       /\ thread' = IF thread = [at |-> "data", id |-> i] THEN [at |-> "deferred"]
                                                         ELSE thread
  /\ UNCHANGED <<aVars, ab, work, rx_queue, nextId, sends, reqs>>

\* qcom_glink_alloc_intent_data and qcom_glink_advertise_intent ...
ThreadNew ==
  /\ thread.at = "new"
  /\ lsize' = [lsize EXCEPT ![nextId] = thread.size] /\ nextId' = nextId + 1
  /\ ba' = Append(ba, [cmd |-> "INTENT", id |-> nextId, size |-> thread.size])
  /\ thread' = [at |-> "ack"]
  /\ UNCHANGED <<aVars, ab, offset, work, rx_queue, held, sends, reqs>>

\* Without memory it goes back to the head of the queue.
ThreadNoMem ==
  /\ thread.at = "new"
  /\ rx_queue' = <<thread>> \o rx_queue
  /\ thread' = Idle
  /\ UNCHANGED <<aVars, ab, ba, lsize, offset, work, held, nextId, sends, reqs>>

\* ... and then the answer to the request.
ThreadAck ==
  /\ thread.at = "ack"
  /\ thread' = Idle
  /\ ba' = Append(ba, [cmd |-> "ACK", granted |-> 1])
  /\ UNCHANGED <<aVars, ab, lsize, offset, work, rx_queue, held, nextId, sends, reqs>>

-----------------------------------------------------------------------------
SenderStep(s) ==
  \/ Find(s) \/ FindNone(s) \/ ReqReset(s) \/ ReqSend(s) \/ ReqAnswered(s) \/ SendChunk(s)
  \/ TxAborted(s)

RxA == RxIntent \/ RxReqAck \/ RxDone
RxB == RxReq \/ RxDataPart \/ RxData \/ RxDataIrq \/ RxDataIrqFull
       \/ RxDataIrqDefer
Work == WorkReuse \/ WorkNew \/ WorkRefused
Thread == ThreadTake \/ ThreadDone \/ ThreadDefer \/ ThreadNew \/ ThreadAck

Next ==
  \/ \E s \in Senders : Begin(s) \/ SenderStep(s) \/ TryFull(s) \/ ReqTimeout(s)
  \/ RxA \/ RxB \/ Work \/ Thread \/ ThreadNoMem \/ ClientDone \/ Crash

Spec == Init /\ [][Next]_vars

\* Threads, works and interrupts run, and a client that deferred a buffer
\* returns it.  An allocation that is tried again and again succeeds.  Nothing
\* makes a client send.
Fairness ==
  /\ \A s \in Senders : WF_vars(SenderStep(s))
  /\ WF_vars(RxA) /\ WF_vars(RxB)
  /\ WF_vars(Work) /\ WF_vars(Thread) /\ WF_vars(ClientDone)
  /\ SF_vars(ThreadNew)

LiveSpec == Spec /\ Fairness

-----------------------------------------------------------------------------
(* Properties *)

TypeOK ==
  /\ rsize \in [Ids -> Sizes] /\ lsize \in [Ids -> Sizes]
  /\ offset \in [Ids -> Nat] /\ \A i \in Ids : offset[i] <= lsize[i]
  /\ in_use \subseteq Ids /\ held \subseteq Ids
  /\ pc \in [Senders -> {"idle", "find", "req", "tx", "wait", "data"}]
  /\ lock \in {None} \cup {s \in Senders : pc[s] \in {"tx", "wait"}}
  /\ result \in -1..1 /\ received \in BOOLEAN /\ abort_tx \in BOOLEAN
  /\ thread.at \in {"idle", "data", "irq_done", "deferred", "new", "ack"}

\* The places where a use of intent i can be: with a sender, on the way, in the
\* queue, with the client or the thread, on the way back.
Sending(i) == {s \in Senders : pc[s] = "data" /\ msg[s].use = i}
Parts(i) == {n \in DOMAIN ab : ab[n].cmd = "DATA" /\ ab[n].id = i}
Coming(i) == {n \in Parts(i) : ab[n].left = 0}
Queued(i) == {n \in DOMAIN rx_queue : rx_queue[n].at # "new" /\ rx_queue[n].id = i}
Back(i) == {n \in DOMAIN ba : ba[n].cmd = "DONE" /\ ba[n].id = i}
Uses(i) ==
  ({"sending"} \X Sending(i)) \cup ({"coming"} \X Coming(i)) \cup ({"queued"} \X Queued(i))
  \cup ({"held"} \X (held \cap {i})) \cup ({"back"} \X Back(i))

\* A buffer has one user: a remote intent is marked in use exactly while one
\* message is being sent into it, lies in it or is being returned.  No two
\* messages ever share a buffer, and none is written while the client has it.
OneUser ==
  ~ abort_tx => \A i \in Ids : /\ i \in in_use <=> Uses(i) # {}
                               /\ \A u, v \in Uses(i) : u = v

\* Data always finds its intent, with room for all of it: there is room for a
\* part and what is still to follow, and each part with what follows it fits
\* into what the parts before it left.  So qcom_glink_rx_data never has to drop
\* a message.
DataLands ==
  \A i \in Ids : \A n \in Parts(i) :
    /\ lsize[i] >= offset[i] + ab[n].n + ab[n].left
    /\ \A k \in Parts(i) : k < n => ab[k].left >= ab[n].n + ab[n].left

\* Every intent that is in use is returned in the end.
IntentsReturn == \A i \in Ids : i \in in_use ~> (i \notin in_use \/ abort_tx)

\* Every send ends when waits of 10 s end, whatever others do, unless the bound
\* on requests is met.
SendsEnd ==
  (\A s \in Senders : WF_vars(ReqTimeout(s))) =>
    \A s \in Senders : pc[s] # "idle" ~> (pc[s] = "idle" \/ reqs = MaxReqs)

\* After a crash every send ends without waiting for a timeout, also the ones
\* that wait for an answer or for a sender who does.
AbortEndsSends ==
  \A s \in Senders : (abort_tx /\ pc[s] # "idle") ~> pc[s] = "idle"

\* "intent request ack timed out" (qcom_glink_request_intent): a sender that
\* waits with nothing on its way to it, so that only the timeout can end the
\* wait, has had no answer to its request.
TimeoutMeansNoAck ==
  \A s \in Senders :
    /\ pc[s] = "wait" /\ ~ Answered /\ ~ abort_tx
    /\ ab = <<>> /\ ba = <<>> /\ work = <<>> /\ rx_queue = <<>> /\ thread = Idle
    /\ in_use = {}
    => result = -1
=============================================================================
