----------------------------- MODULE RpmhFlush -----------------------------
(***************************************************************************)
(* Sleep and wake votes of an RPMh controller (drivers/soc/qcom/rpmh.c and *)
(* rpmh-rsc.c).  Votes are cached, and flushed to the sleep and wake TCSes *)
(* when the last CPU goes down (rpmh_rsc_cpu_pm_callback) or, on a         *)
(* controller with two hardware channels, when the client asks for it.     *)
(* The firmware and hardware that send the sets are external.  Active      *)
(* transfers (RpmhTcs) appear by the TCS they hold.  Clients that switch   *)
(* channels are serialised, as rpmh_rsc_switch_channel asks of them.       *)
(***************************************************************************)
EXTENDS Integers, Sequences, FiniteSets, SequencesExt

CONSTANTS Cpus, Threads, Addrs, Vals,
          Batches,         \* what rpmh_write_batch may write: sequences of commands
          Ncpt, NumTcs,    \* commands per TCS, TCSes per group
          MaxRes,          \* CMD_DB_MAX_RESOURCES
          Borrowed,        \* no active TCS: active votes go through the wake TCSes
          Controllers,     \* the values of channels
          Unset, None      \* UINT_MAX; no command

ASSUME FlushAssumption ==
  /\ Ncpt \in Nat \ {0} /\ NumTcs \in Nat \ {0} /\ MaxRes \in Nat
  /\ Controllers \subseteq {1, 2} /\ Borrowed \in BOOLEAN /\ Unset \notin Vals
  /\ <<>> \in Batches

Types == {"sleep", "wake"}
Chs == {0, 1}
Size == Ncpt * NumTcs
Pos == 0..(Size - 1)
TcsIds == 0..(NumTcs - 1)

VARIABLES
  channels,  \* drv->num_channels: 2 is a HW_CHANNEL_PRESENT controller
  order,     \* the addresses of non_batch_cache, in its order
  cache,     \* their sleep_val and wake_val
  batch,     \* batch_cache
  dirty,
  slots,     \* tcs->slots of the groups
  hw,        \* the enabled commands of the groups
  cur,       \* the channel in use, or -1 while CHN_EN is 0
  applying,  \* the channel whose wake votes the hardware is sending, or -1
  client,    \* rpmh_write_sleep_and_wake: what is next, and the channel it got
  in_use,    \* tcs_in_use: the TCSes of active transfers that are waited for
  firing,    \* the TCSes at work for writes that do not wait
  voting,    \* threads that have cached an active vote and not sent it
  cpu,       \* where each CPU is in its way down
  in_pm,     \* cpus_in_pm
  raced,     \* history: the last CPU went down without the lock, which another
             \* CPU held that had flushed already
  whole      \* history: the channels whose sets were those of the cache at
             \* some time since they were written

store == <<order, cache, batch, dirty>>
tcs == <<slots, hw, whole>>
chn == <<channels, cur, applying, client>>
active == <<in_use, firing, voting>>
pm == <<cpu, in_pm, raced>>
vars == <<store, tcs, chn, active, pm>>

NoClient == [next |-> "get", ch |-> 0]

\* A CPU holds drv->lock to send, or as the last one to go down.
Locked == {"sending", "holding", "flushed", "refused"}
LockFree == \A c \in Cpus : cpu[c] \notin Locked

Init ==
  /\ order = <<>> /\ cache = [a \in Addrs |-> [y \in Types |-> Unset]]
  /\ batch = [y \in Types |-> <<>>] /\ dirty = FALSE
  /\ slots = [c \in Chs |-> [y \in Types |-> {}]]
  /\ hw = [c \in Chs |-> [y \in Types |-> [p \in Pos |-> None]]]
  /\ channels \in Controllers /\ cur = IF channels = 1 THEN 0 ELSE -1
  /\ applying = -1 /\ client = NoClient
  /\ in_use = {} /\ firing = {} /\ voting = {}
  /\ cpu = [c \in Cpus |-> "up"] /\ in_pm = 0
  /\ raced = FALSE /\ whole = Chs

-----------------------------------------------------------------------------
(* The cache *)

\* Code runs on a CPU that is up.
Running == \E c \in Cpus : cpu[c] = "up"

\* Mutant: what changes a vote that is not complete yet marks the cache, what
\* changes a complete one does not.
CacheLazy(a, y, v) ==
  LET old == cache[a]
      new == [old EXCEPT ![y] = v]
  IN  /\ Len(order) < MaxRes
      /\ order' = IF a \in ToSet(order) THEN order ELSE Append(order, a)
      /\ cache' = [cache EXCEPT ![a] = new]
      /\ dirty' = (dirty \/ (new # old /\ Unset \in {old["sleep"], old["wake"]}))
      /\ batch' = batch

\* cache_rpm_request; nothing is found any more once the table is full
Cache(a, y, v) ==
  LET old == cache[a]
      new == [old EXCEPT ![y] = v]
  IN  /\ Len(order) < MaxRes
      /\ order' = IF a \in ToSet(order) THEN order ELSE Append(order, a)
      /\ cache' = [cache EXCEPT ![a] = new]
      /\ dirty' = (dirty \/ (new # old /\ \A x \in Types : new[x] # Unset))
      /\ batch' = batch

\* rpmh_write of a sleep or wake vote
Write(a, y, v) ==
  /\ Running /\ Cache(a, y, v)
  /\ UNCHANGED <<tcs, chn, active, pm>>

\* rpmh_write and rpmh_write_async of an active vote: the cache takes it as the
\* wake vote.  A controller with channels is in solver mode and refuses it.
Vote(t, a, v) ==
  /\ channels = 1 /\ Running /\ t \notin voting
  /\ Cache(a, "wake", v)
  /\ voting' = voting \cup {t}
  /\ UNCHANGED <<tcs, chn, in_use, firing, pm>>

\* rpmh_write_batch of an active vote is not cached.
VoteBatch(t) ==
  /\ channels = 1 /\ Running /\ t \notin voting
  /\ voting' = voting \cup {t}
  /\ UNCHANGED <<store, tcs, chn, in_use, firing, pm>>

\* rpmh_write_batch of a sleep or wake set
WriteBatch(y, b) ==
  /\ Running
  /\ batch' = [batch EXCEPT ![y] = b] /\ dirty' = TRUE
  /\ UNCHANGED <<order, cache, tcs, chn, active, pm>>

\* rpmh_invalidate
Invalidate ==
  /\ Running
  /\ batch' = [y \in Types |-> <<>>] /\ dirty' = TRUE
  /\ UNCHANGED <<order, cache, tcs, chn, active, pm>>

-----------------------------------------------------------------------------
(* Active transfers *)

\* find_free_tcs: the first TCS that is not in use, if it is idle
Free(m) ==
  /\ m \in TcsIds \ (in_use \cup firing)
  /\ \A n \in TcsIds \ in_use : m <= n

Lock(c) ==
  /\ channels = 1 /\ cpu[c] = "up" /\ voting # {} /\ LockFree
  /\ \E m \in TcsIds : Free(m)
  /\ cpu' = [cpu EXCEPT ![c] = "sending"]
  /\ UNCHANGED <<store, tcs, chn, active, in_pm, raced>>

\* The commands of a borrowed wake TCS are cleared.
Clear(m) ==
  hw' = IF ~ Borrowed THEN hw ELSE
          [hw EXCEPT ![0]["wake"] =
             [p \in Pos |-> IF p \div Ncpt = m THEN None ELSE @[p]]]

\* rpmh_rsc_send_data empties the TCS for the vote, whose commands the interrupt
\* takes out again.  Without wait_for_compl the TCS counts as free at once.
Send(c, t) ==
  /\ cpu[c] = "sending" /\ t \in voting
  /\ \E m \in TcsIds :
       /\ Free(m) /\ Clear(m)
       /\ \/ in_use' = in_use \cup {m} /\ firing' = firing
          \/ firing' = firing \cup {m} /\ in_use' = in_use
  /\ voting' = voting \ {t}
  /\ cpu' = [cpu EXCEPT ![c] = "up"]
  /\ UNCHANGED <<store, slots, whole, chn, in_pm, raced>>

\* tcs_tx_done
TxDone(m) ==
  /\ m \in in_use /\ in_use' = in_use \ {m} /\ Clear(m)
  /\ LockFree
  /\ UNCHANGED <<store, slots, whole, chn, firing, voting, pm>>

\* The hardware ends a transfer nobody waits for; on a borrowed TCS with an
\* interrupt, which clears what a flush may have written meanwhile.
FireDone(m) ==
  /\ m \in firing /\ firing' = firing \ {m} /\ Clear(m)
  /\ Borrowed => LockFree
  /\ UNCHANGED <<store, slots, whole, chn, in_use, voting, pm>>

-----------------------------------------------------------------------------
(* Flushing *)

\* find_slots: the place of n commands in one TCS, or Size
FindSlots(S, n) ==
  LET Area(i) == {p \in i..(Size - n) : \A q \in p..(p + n - 1) : q \notin S}
      Try[i \in 0..(Size + Ncpt)] ==
        IF Area(i) = {} THEN Size
        ELSE LET slot == Min(Area(i)) IN
             IF slot + n - 1 < i + Ncpt THEN slot ELSE Try[i + Ncpt]
  IN  Try[0]

\* rpmh_rsc_write_ctrl_data of a message [type, cmds], after those before it
WriteCtrl(f, m) ==
  LET n == Len(m.cmds)
      at == FindSlots(f.slots[m.type], n)
  IN  IF ~ f.ok \/ n = 0 THEN f
      ELSE IF at = Size THEN [f EXCEPT !.ok = FALSE]
      ELSE [f EXCEPT !.slots[m.type] = @ \cup at..(at + n - 1),
                     !.hw[m.type] = [p \in Pos |-> IF p \in at..(at + n - 1)
                                                   THEN m.cmds[p - at + 1] ELSE @[p]]]

Msg(y, cmds) == [type |-> y, cmds |-> cmds]

\* is_req_valid
IsReqValid(a) == Unset \notin {cache[a]["sleep"], cache[a]["wake"]}
                 /\ cache[a]["sleep"] # cache[a]["wake"]

\* What _rpmh_flush writes, in its order
FlushMsgs ==
  <<Msg("sleep", batch["sleep"]), Msg("wake", batch["wake"])>> \o
  FlattenSeq([i \in DOMAIN order |->
    IF IsReqValid(order[i])
      THEN <<Msg("sleep", <<<<order[i], cache[order[i]]["sleep"]>>>>),
             Msg("wake", <<<<order[i], cache[order[i]]["wake"]>>>>)>>
      ELSE <<>>])

\* tcs_invalidate: a group without slots is left alone.
Invalidated(ch) ==
  [slots |-> [y \in Types |-> {}], ok |-> TRUE,
   hw |-> [y \in Types |-> IF slots[ch][y] = {} THEN hw[ch][y]
                                                ELSE [p \in Pos |-> None]]]

\* _rpmh_flush: the groups of channel ch after it, and whether it succeeds
Flushed(ch) ==
  IF ~ dirty THEN [slots |-> slots[ch], hw |-> hw[ch], ok |-> TRUE]
  ELSE FoldLeft(WriteCtrl, Invalidated(ch), FlushMsgs)

\* The sets of the cache
Cached(y) ==
  ToSet(batch[y]) \cup {<<a, cache[a][y]>> : a \in {b \in ToSet(order) : IsReqValid(b)}}

\* TCSes with the commands h hold them.
Holds(h) == \A y \in Types : {h[y][p] : p \in Pos} \ {None} = Cached(y)

Latest(ch) == Holds(hw[ch])

\* History: channel ch has the commands h from now on.
Judge(ch, h) ==
  whole' = IF Holds(h) THEN whole \cup {ch}
           ELSE IF h = hw[ch] THEN whole ELSE whole \ {ch}

\* Mutant: dirty is cleared before the sets are written.
FlushForgets(ch, ok) ==
  LET f == Flushed(ch)
  IN  /\ ok = f.ok
      /\ slots' = [slots EXCEPT ![ch] = f.slots]
      /\ hw' = [hw EXCEPT ![ch] = f.hw]
      /\ dirty' = FALSE
      /\ UNCHANGED <<order, cache, batch>>
      /\ Judge(ch, f.hw)

\* dirty stays when the sets do not fit.
Flush(ch, ok) ==
  LET f == Flushed(ch)
  IN  /\ ok = f.ok
      /\ slots' = [slots EXCEPT ![ch] = f.slots]
      /\ hw' = [hw EXCEPT ![ch] = f.hw]
      /\ dirty' = (dirty /\ ~ f.ok)
      /\ UNCHANGED <<order, cache, batch>>
      /\ Judge(ch, f.hw)

-----------------------------------------------------------------------------
(* CPUs go down and come up *)

\* CPU_PM_ENTER
Enter(c) ==
  /\ channels = 1 /\ cpu[c] = "up"
  /\ in_pm' = in_pm + 1
  /\ cpu' = [cpu EXCEPT ![c] = IF in_pm' < Cardinality(Cpus) THEN "down" ELSE "last"]
  /\ UNCHANGED <<store, tcs, chn, active, raced>>

LastStep(c, from, to) ==
  /\ cpu[c] = from /\ cpu' = [cpu EXCEPT ![c] = to]
  /\ UNCHANGED <<chn, active>>

\* spin_trylock
LastLocks(c) ==
  /\ LockFree /\ LastStep(c, "last", "holding")
  /\ UNCHANGED <<store, tcs, in_pm, raced>>

\* spin_trylock fails: "Another CPU must be up", or is on its way down itself.
LastSkips(c) ==
  /\ ~ LockFree /\ LastStep(c, "last", "down")
  /\ raced' = \E d \in Cpus : cpu[d] = "flushed"
  /\ UNCHANGED <<store, tcs, in_pm>>

\* Mutant: an active transfer does not keep the CPU up.
LastFlushesAnyway(c) ==
  /\ LastStep(c, "holding", "flushed") /\ Flush(0, TRUE)
  /\ UNCHANGED <<in_pm, raced>>

\* rpmh_rsc_ctrlr_is_busy does not see transfers that nobody waits for.
LastFlushes(c) ==
  /\ LastStep(c, "holding", "flushed") /\ in_use = {} /\ Flush(0, TRUE)
  /\ UNCHANGED <<in_pm, raced>>

\* NOTIFY_BAD: a transfer is under way, or the sets do not fit.
LastRefused(c) ==
  /\ LastStep(c, "holding", "refused")
  /\ IF in_use # {} THEN UNCHANGED <<store, tcs>> ELSE Flush(0, FALSE)
  /\ UNCHANGED <<in_pm, raced>>

\* spin_unlock
LastUnlocks(c) ==
  /\ LastStep(c, "flushed", "down") \/ LastStep(c, "refused", "bad")
  /\ UNCHANGED <<store, tcs, in_pm, raced>>

\* Mutant: the CPU is still counted.
StaysUpCounted(c) ==
  /\ LastStep(c, "bad", "up")
  /\ UNCHANGED <<store, tcs, in_pm, raced>>

\* The check whether another CPU is up by now compares the count read at first.
StaysUp(c) ==
  /\ LastStep(c, "bad", "up") /\ in_pm' = in_pm - 1
  /\ UNCHANGED <<store, tcs, raced>>

\* CPU_PM_EXIT, and CPU_PM_ENTER_FAILED
Exit(c) ==
  /\ cpu[c] = "down"
  /\ cpu' = [cpu EXCEPT ![c] = "up"] /\ in_pm' = in_pm - 1 /\ raced' = FALSE
  /\ UNCHANGED <<store, tcs, chn, active>>

-----------------------------------------------------------------------------
(* A controller with two hardware channels *)

\* rpmh_rsc_get_channel, once it no longer spins
GetChannel == 1 - cur

\* rpmh_rsc_switch_channel: the wake votes of ch are sent, before
\* rpmh_rsc_is_tcs_completed stops polling for them or later (it also stops at the
\* completion of an earlier switch to ch).  It returns 0 either way.
Switch(ch) == applying' \in {-1, ch}

Applied ==
  /\ applying # -1 /\ applying' = -1
  /\ UNCHANGED <<store, tcs, channels, cur, client, active, pm>>

\* rpmh_write_sleep_and_wake holds no lock from one of its steps to the next.
ClientGets ==
  /\ channels = 2 /\ client.next = "get" /\ cur # -1 /\ applying = -1
  /\ client' = [next |-> "flush", ch |-> GetChannel]
  /\ UNCHANGED <<store, tcs, channels, cur, applying, active, pm>>

ClientFlushes ==
  /\ client.next = "flush"
  /\ \E ok \in BOOLEAN :
       /\ Flush(client.ch, ok)
       /\ client' = IF ok THEN [client EXCEPT !.next = "switch"] ELSE NoClient
  /\ UNCHANGED <<channels, cur, applying, active, pm>>

ClientSwitches ==
  /\ client.next = "switch"
  /\ Switch(client.ch) /\ cur' = client.ch /\ client' = NoClient
  /\ UNCHANGED <<store, tcs, channels, active, pm>>

\* rpmh_rsc_drv_enable: start with channel 0.
DrvStart ==
  /\ channels = 2 /\ client.next = "get" /\ cur = -1
  /\ \/ Flush(0, TRUE) /\ Switch(0) /\ cur' = 0
     \/ Flush(0, FALSE) /\ UNCHANGED <<applying, cur>>
  /\ UNCHANGED <<channels, client, active, pm>>

\* Stop, after a last flush and switch.
DrvStop ==
  /\ channels = 2 /\ client.next = "get" /\ cur # -1 /\ applying = -1
  /\ \/ Flush(GetChannel, TRUE) /\ Switch(GetChannel) /\ cur' = -1
     \/ Flush(GetChannel, FALSE) /\ UNCHANGED <<applying, cur>>
  /\ UNCHANGED <<channels, client, active, pm>>

-----------------------------------------------------------------------------
Next ==
  \/ \E a \in Addrs, v \in Vals : \/ \E y \in Types : Write(a, y, v)
                                  \/ \E t \in Threads : Vote(t, a, v)
  \/ \E t \in Threads : VoteBatch(t)
  \/ \E y \in Types, b \in Batches : WriteBatch(y, b)
  \/ Invalidate
  \/ \E c \in Cpus : \/ Lock(c) \/ Enter(c) \/ LastLocks(c) \/ LastSkips(c)
                     \/ LastFlushes(c) \/ LastRefused(c) \/ LastUnlocks(c)
                     \/ StaysUp(c) \/ Exit(c)
                     \/ \E t \in Threads : Send(c, t)
  \/ \E m \in TcsIds : TxDone(m) \/ FireDone(m)
  \/ ClientGets \/ ClientFlushes \/ ClientSwitches
  \/ DrvStart \/ DrvStop \/ Applied

Spec == Init /\ [][Next]_vars

-----------------------------------------------------------------------------
(* Properties *)

TypeOK ==
  /\ ToSet(order) \subseteq Addrs /\ Len(order) <= MaxRes
  /\ cache \in [Addrs -> [Types -> Vals \cup {Unset}]]
  /\ batch \in [Types -> Batches] /\ dirty \in BOOLEAN
  /\ slots \in [Chs -> [Types -> SUBSET Pos]]
  /\ channels \in Controllers /\ cur \in -1..1 /\ applying \in -1..1
  /\ client \in [next : {"get", "flush", "switch"}, ch : Chs]
  /\ in_use \subseteq TcsIds /\ firing \subseteq TcsIds /\ voting \subseteq Threads
  /\ cpu \in [Cpus -> Locked \cup {"up", "last", "bad", "down"}]
  /\ in_pm = Cardinality({c \in Cpus : cpu[c] \notin {"up", "sending"}})
  /\ raced \in BOOLEAN /\ whole \subseteq Chs

\* "Skipping flush, TCS has latest data." (_rpmh_flush): whenever the flush would
\* be skipped the TCSes hold the cached sets, on a controller with one channel and
\* active TCSes of its own (with Borrowed it fails).
SkipIsRight == channels = 1 /\ ~ dirty /\ in_use = {} => Latest(0)

AllDown == \A c \in Cpus : cpu[c] = "down"

\* "When all CPUs go down we know no more active transfers will be started so
\* we write sleep/wake sets." (rpmh_rsc_cpu_pm_callback): with all CPUs down
\* no active transfer that someone waits for is under way, and the TCSes hold the
\* cached sets.  Excepted is the one case in which the last CPU goes down without
\* a flush of its own while no other CPU is up: its spin_trylock fails against a
\* CPU that took itself for the last, has flushed and has not unlocked.
AllDownFlushed == AllDown => in_use = {} /\ (raced \/ Latest(0))

\* The comment without the exception: what fails when raced.
AllDownLatest == AllDown => Latest(0)

\* The sets of the channel in use, which the hardware may send at any time, were
\* at one time those of the cache: never a part of them, as a flush that finds no
\* room leaves behind, and never a mix of old and new.  The flush that fails
\* keeps dirty, so that no later call switches to what it left.
UsedSetWhole == channels = 2 /\ cur # -1 => cur \in whole
============================================================================
