--------------------------- MODULE RpmhTcsProofs ---------------------------
(***************************************************************************)
(* The TCS protocol for any number of writers, TCSes and addresses, with   *)
(* active TCSes or borrowed ones, and with solver mode.  While Trusted     *)
(* holds, Inv does: who a request in hand leads to.  While all writes wait *)
(* for their completion (Plain), Strict does too.                          *)
(***************************************************************************)
EXTENDS RpmhTcs, TLAPS

\* A TCS whose interrupt is pending or being handled stays in use and idle until
\* it is released; one that works without being in use, for a write that does not
\* wait, has its interrupt disabled.
Reserved ==
  /\ irq_status \subseteq in_use \ busy /\ irq.todo \subseteq irq_status
  /\ irq.at = "release" => irq.i \in in_use \ (busy \cup irq_status)
  /\ irq.at = "idle" => irq.todo = {}
  /\ busy \cap irq_enable \subseteq in_use

\* p leads to the call of w, which still waits.
LeadsTo(p, w) == p = Live(w) /\ pc[w] = "wait" /\ w \notin done

\* Each TCS in use carries the request of a call that still waits for it, no two of
\* them the same one, and so does the handler.
Owners ==
  /\ \A t \in in_use : \E w \in Writers : LeadsTo(req[t], w)
  /\ \A t, u \in in_use : t # u => req[t] # req[u]
  /\ irq.at = "release" => irq.req = req[irq.i]
  /\ irq.at = "complete" => /\ \E w \in Writers : LeadsTo(irq.req, w)
                            /\ \A t \in in_use : req[t] # irq.req
  /\ \A w \in done : pc[w] = "wait"
  /\ \A t \in busy \ in_use : \A w \in Writers : req[t] # Live(w)

Inv == TypeOK /\ Reserved /\ Owners

\* The TCS the interrupt holds between reclaiming and releasing it
Held == IF irq.at = "release" THEN {irq.i} ELSE {}

\* A TCS in use is at work with its interrupt enabled, or finished with its interrupt
\* pending, or in the hands of the interrupt handler.
Places == in_use = busy \cup irq_status \cup Held /\ busy \subseteq irq_enable

Strict == Places /\ Apart /\ SleepersFed

-----------------------------------------------------------------------------
(* Pointers *)

\* Pointers to calls that wait, and to calls that have returned, are told apart.
LEMMA PointerFacts ==
  /\ \A w \in Writers : /\ Live(w) \in Pointers /\ Dangling(w) \in Pointers
                        /\ Live(w) # None /\ Dangling(w) # None
  /\ \A v, w \in Writers : /\ Live(v) # Dangling(w)
                           /\ Live(v) = Live(w) => v = w
  BY TcsAssumption DEF Live, Dangling, Pointers

\* A live pointer signals its writer.
LEMMA SignalsLive ==
  ASSUME NEW w \in Writers
  PROVE  Signals(Live(w)) = {{w}}
<1>1. Live(w) # None /\ Live(w)[1] = w
  BY PointerFacts DEF Live
<1> QED
  BY <1>1, Zenon DEF Signals

\* What Stale does to a pointer
LEMMA StaleFacts ==
  ASSUME NEW p \in Pointers \cup {None}, NEW w \in Writers
  PROVE  /\ Stale(p, w) \in Pointers \cup {None}
         /\ p # Live(w) => Stale(p, w) = p
         /\ \A v \in Writers : Stale(p, w) = Live(v) => p = Live(v)
  BY PointerFacts, Zenon DEF Stale

-----------------------------------------------------------------------------
(* The steps, as far as the invariants are concerned *)

\* A transfer of a write that waits
SyncTransfer(w, t) ==
  /\ t \in Tcs \ in_use /\ t \notin busy /\ pc[w] \in {"send", "retry"}
  /\ \A u \in in_use : cmds[u] \cap msg[w].addrs = {}
  /\ cmds' = [cmds EXCEPT ![t] = msg[w].addrs]
  /\ busy' = busy \cup {t}
  /\ irq_enable' = irq_enable \cup {t}
  /\ pc' = [pc EXCEPT ![w] = "wait"]
  /\ req' = [req EXCEPT ![t] = Live(w)]
  /\ in_use' = in_use \cup {t}
  /\ UNCHANGED <<irq_status, irq, msg, done>>

\* A transfer of one that does not, on a group of active TCSes
AsyncTransfer(w, t) ==
  /\ t \in Tcs \ in_use /\ t \notin busy /\ pc[w] \in {"send", "retry"}
  /\ cmds' = [cmds EXCEPT ![t] = msg[w].addrs]
  /\ busy' = busy \cup {t}
  /\ irq_enable' = irq_enable \ {t}
  /\ pc' = WakeUp([pc EXCEPT ![w] = "idle"])
  /\ req' = [req EXCEPT ![t] = Dangling(w)]
  /\ msg' = [msg EXCEPT ![w] = None]
  /\ UNCHANGED <<in_use, irq_status, irq, done>>

\* No TCS can be claimed.
Sleep(w) ==
  /\ Unclaimable(w)
  /\ pc[w] \in {"send", "retry"} /\ pc' = [pc EXCEPT ![w] = "sleep"]
  /\ UNCHANGED <<in_use, req, cmds, busy, irq_enable, irq_status, irq, msg, done>>

\* Starting a call, or one refused in solver mode: only the writer changes.
Quick(w) ==
  /\ \/ pc[w] = "idle" /\ pc' = [pc EXCEPT ![w] = "send"]
        /\ \E m \in Msgs : msg' = [msg EXCEPT ![w] = m]
     \/ pc[w] = "send" /\ pc' = [pc EXCEPT ![w] = "idle"]
        /\ msg' = [msg EXCEPT ![w] = None]
  /\ UNCHANGED <<in_use, req, cmds, busy, irq_enable, irq_status, irq, done>>

\* The steps that leave what the invariants are about alone.
Idle == UNCHANGED <<in_use, req, cmds, busy, irq_enable, irq_status, irq, pc, msg, done>>

\* Nobody has to trust what follows a timeout, nor on a borrowed group what follows
\* a write that does not wait.
LEMMA TrustedWas ==
  ASSUME [Next]_vars, Trusted'
  PROVE  Trusted /\ (Plain' => Plain)
<1>1. borrowed' = borrowed /\ lapses \subseteq lapses'
  BY DEF Next, WriterStep, Irq, Write, Send, SendRefused, SendSleeps, Retry, RetrySleeps,
         Transfer, WriteDone, WriteTimeout, Return, Finish, IrqRead, IrqReclaim,
         IrqRelease, IrqComplete, SolverSet, vars, drv
<1> QED
  BY <1>1, Zenon DEF Trusted, Plain

\* A transfer is one of the two above.
LEMMA TransferCases ==
  ASSUME TypeOK, Trusted', NEW w \in Writers, NEW t \in Tcs,
         NEW from \in {"send", "retry"}, Transfer(w, from, t)
  PROVE  SyncTransfer(w, t) \/ (AsyncTransfer(w, t) /\ ~ Plain')
<1>1. t \in Tcs \ in_use /\ t \notin busy /\ \A u \in in_use : cmds[u] \cap msg[w].addrs = {}
  BY Zenon DEF Transfer, Claimable, First, InFlight
<1>2. CASE msg[w].sync
  BY <1>1, <1>2, Zenon DEF Transfer, SyncTransfer
<1>3. CASE ~ msg[w].sync
  <2>1. "async" \in lapses' /\ borrowed' = borrowed
    BY <1>3, Zenon DEF Transfer
  <2>2. ~ borrowed /\ ~ Plain'
    BY <2>1, Zenon DEF Trusted, Plain
  <2> QED
    BY <1>1, <1>3, <2>2, Zenon DEF Transfer, AsyncTransfer
<1> QED
  BY <1>2, <1>3, Zenon

\* The cases of a step
LEMMA NextCases ==
  ASSUME TypeOK, Trusted', [Next]_vars
  PROVE  \/ \E w \in Writers, t \in Tcs :
              SyncTransfer(w, t) \/ (AsyncTransfer(w, t) /\ ~ Plain')
         \/ \E w \in Writers : Quick(w) \/ Sleep(w) \/ (w \in done /\ Return(w))
         \/ \E t \in Tcs : Finish(t) \/ IrqReclaim(t)
         \/ IrqRead \/ IrqRelease \/ IrqComplete \/ Idle
<1>1. CASE UNCHANGED vars
  BY <1>1, Zenon DEF vars, drv, hw, Idle
<1>2. CASE SolverSet
  BY <1>2, Zenon DEF SolverSet, hw, Idle
<1>3. CASE Irq
  BY <1>3, Zenon DEF Irq
<1>4. CASE \E t \in Tcs : Finish(t)
  BY <1>4, Zenon
<1>5. ASSUME NEW w \in Writers, Write(w) \/ WriterStep(w) \/ WriteTimeout(w)
      PROVE  \/ \E t \in Tcs : SyncTransfer(w, t) \/ (AsyncTransfer(w, t) /\ ~ Plain')
             \/ Quick(w) \/ Sleep(w) \/ (w \in done /\ Return(w))
  <2>1. CASE Write(w)
    BY <2>1, Zenon DEF Write, Goto, Quick, drv, hw
  <2>2. CASE Send(w)
    BY <2>2, TransferCases, Zenon DEF Send
  <2>3. CASE Retry(w)
    BY <2>3, TransferCases, Zenon DEF Retry
  <2>4. CASE SendRefused(w)
    BY <2>4, Zenon DEF SendRefused, Goto, Quick, drv, hw
  <2>5. CASE SendSleeps(w) \/ RetrySleeps(w)
    BY <2>5, Zenon DEF SendSleeps, RetrySleeps, Goto, Sleep, drv, hw
  <2>6. CASE WriteDone(w)
    BY <2>6, Zenon DEF WriteDone
  <2>7. ~ WriteTimeout(w)
    BY DEF WriteTimeout, Trusted
  <2> QED
    BY <1>5, <2>1, <2>2, <2>3, <2>4, <2>5, <2>6, <2>7, Zenon DEF WriterStep
<1> QED
  BY <1>1, <1>2, <1>3, <1>4, <1>5, Zenon DEF Next

-----------------------------------------------------------------------------
(* What a request in hand leads to *)

\* The initial state.
LEMMA InvInit == Init => Inv
<1> SUFFICES ASSUME Init PROVE Inv
  BY Zenon
<1>1. TypeOK
  BY Zenon DEF Init, TypeOK, NoIrq, Tcs
<1>2. Reserved /\ Owners
  BY Zenon DEF Init, NoIrq, Reserved, Owners
<1> QED
  BY <1>1, <1>2, Zenon DEF Inv

\* A transfer gives a free TCS the request of a call that begins to wait.
LEMMA InvSync ==
  ASSUME Inv, NEW w \in Writers, NEW t \in Tcs, SyncTransfer(w, t)
  PROVE  Inv'
<1> USE DEF SyncTransfer, Inv
<1>0. msg[w] \in Msgs /\ msg[w].addrs \in SUBSET Addrs /\ Live(w) \in Pointers
  BY PointerFacts, Zenon DEF TypeOK, Msgs
<1>1. TypeOK'
  BY <1>0, Zenon DEF TypeOK
<1>2. Reserved'
  BY Zenon DEF Reserved, TypeOK
<1>3. /\ req'[t] = Live(w) /\ \A u \in Tcs \ {t} : req'[u] = req[u]
      /\ pc'[w] = "wait" /\ \A v \in Writers \ {w} : pc'[v] = pc[v]
  BY Zenon DEF TypeOK
<1>4. \A p, v : LeadsTo(p, v) /\ v \in Writers => LeadsTo(p, v)' /\ p # Live(w)
  BY <1>3, PointerFacts, Zenon DEF LeadsTo
<1>5. w \notin done
  BY DEF Owners
<1>6. Owners'
  <2>1. \A u \in in_use' : \E v \in Writers : LeadsTo(req[u], v)'
    BY <1>3, <1>4, <1>5 DEF Owners, LeadsTo, TypeOK
  <2>2. \A u, v \in in_use' : u # v => req'[u] # req'[v]
    BY <1>3, <1>4 DEF Owners, TypeOK
  <2>3. (irq.at = "release" => irq.req = req[irq.i])'
    BY <1>3, Zenon DEF Owners, Reserved, TypeOK
  <2>4. (irq.at = "complete" => /\ \E v \in Writers : LeadsTo(irq.req, v)
                                /\ \A u \in in_use : req[u] # irq.req)'
    BY <1>3, <1>4, Zenon DEF Owners, TypeOK
  <2>5. \A v \in done' : pc'[v] = "wait"
    BY <1>3, <1>5, Zenon DEF Owners, TypeOK
  <2>6. \A u \in busy' \ in_use' : \A v \in Writers : req'[u] # Live(v)
    BY <1>3 DEF Owners, TypeOK
  <2> QED
    BY <2>1, <2>2, <2>3, <2>4, <2>5, <2>6, Zenon DEF Owners
<1> QED
  BY <1>1, <1>2, <1>6, Zenon

\* One that does not wait leaves the requests in hand alone.
LEMMA InvAsync ==
  ASSUME Inv, NEW w \in Writers, NEW t \in Tcs, AsyncTransfer(w, t)
  PROVE  Inv'
<1> USE DEF AsyncTransfer, Inv
<1>0. msg[w] \in Msgs /\ msg[w].addrs \in SUBSET Addrs /\ Dangling(w) \in Pointers
  BY PointerFacts, Zenon DEF TypeOK, Msgs
<1>3. /\ req'[t] = Dangling(w) /\ \A u \in Tcs \ {t} : req'[u] = req[u]
      /\ \A v \in Writers : /\ pc[v] = "wait" => pc'[v] = "wait"
                            /\ pc'[v] # "idle" => pc[v] # "idle" /\ v # w
      /\ pc' \in [Writers -> {"idle", "send", "sleep", "retry", "wait"}]
  BY DEF TypeOK, WakeUp
<1>1. TypeOK'
  <2>1. /\ req' \in [Tcs -> Pointers \cup {None}] /\ cmds' \in [Tcs -> SUBSET Addrs]
        /\ msg' \in [Writers -> Msgs \cup {None}]
        /\ \A v \in Writers : pc'[v] # "idle" => msg'[v] \in Msgs
    BY <1>0, <1>3, Zenon DEF TypeOK
  <2> QED
    BY <1>3, <2>1, Zenon DEF TypeOK
<1>2. Reserved'
  BY Zenon DEF Reserved, TypeOK
<1>4. \A p, v : LeadsTo(p, v) /\ v \in Writers => LeadsTo(p, v)'
  BY <1>3, Zenon DEF LeadsTo
<1>6. Owners'
  <2>1. /\ \A u \in in_use' : \E v \in Writers : LeadsTo(req[u], v)'
        /\ \A u, v \in in_use' : u # v => req'[u] # req'[v]
    BY <1>3, <1>4 DEF Owners, TypeOK
  <2>3. (irq.at = "release" => irq.req = req[irq.i])'
    BY <1>3, Zenon DEF Owners, Reserved, TypeOK
  <2>4. (irq.at = "complete" => /\ \E v \in Writers : LeadsTo(irq.req, v)
                                /\ \A u \in in_use : req[u] # irq.req)'
    BY <1>3, <1>4, Zenon DEF Owners, TypeOK
  <2>5. \A v \in done' : pc'[v] = "wait"
    BY <1>3, Zenon DEF Owners, TypeOK
  <2>6. \A u \in busy' \ in_use' : \A v \in Writers : req'[u] # Live(v)
    BY <1>3, PointerFacts DEF Owners, TypeOK
  <2> QED
    BY <2>1, <2>3, <2>4, <2>5, <2>6, Zenon DEF Owners
<1> QED
  BY <1>1, <1>2, <1>6, Zenon

\* A step of a writer that does not wait for its completion
LEMMA InvWriter ==
  ASSUME Inv, NEW w \in Writers, Quick(w) \/ Sleep(w)
  PROVE  Inv'
<1>1. /\ pc[w] # "wait" /\ pc' \in [Writers -> {"idle", "send", "sleep", "retry", "wait"}]
      /\ \A v \in Writers \ {w} : pc'[v] = pc[v] /\ msg'[v] = msg[v]
      /\ pc'[w] # "idle" => msg'[w] \in Msgs
      /\ msg' \in [Writers -> Msgs \cup {None}]
      /\ UNCHANGED <<in_use, req, cmds, busy, irq_enable, irq_status, irq, done>>
  BY DEF Inv, TypeOK, Quick, Sleep
<1>2. TypeOK' /\ Reserved'
  BY <1>1, Zenon DEF Inv, TypeOK, Reserved
<1>3. \A p, v : LeadsTo(p, v) /\ v \in Writers => LeadsTo(p, v)'
  BY <1>1, Zenon DEF LeadsTo
<1>4. Owners'
  BY <1>1, <1>3 DEF Inv, Owners, TypeOK
<1> QED
  BY <1>2, <1>4, Zenon DEF Inv

\* A call returns: nothing in hand leads to it.
LEMMA InvReturn ==
  ASSUME Inv, NEW w \in Writers, w \in done, Return(w)
  PROVE  Inv' /\ \A t \in in_use : req'[t] = req[t]
<1> USE DEF Return, Goto, Inv, hw
<1>1. /\ \A t \in Tcs : req'[t] = Stale(req[t], w)
      /\ irq'.at = irq.at /\ irq'.todo = irq.todo /\ irq'.i = irq.i
      /\ irq'.req = Stale(irq.req, w)
  BY Zenon DEF TypeOK
<1>2. /\ \A t \in Tcs : /\ Stale(req[t], w) \in Pointers \cup {None}
                        /\ req[t] # Live(w) => Stale(req[t], w) = req[t]
                        /\ \A v \in Writers : Stale(req[t], w) = Live(v) => req[t] = Live(v)
      /\ Stale(irq.req, w) \in Pointers \cup {None}
      /\ irq.req # Live(w) => Stale(irq.req, w) = irq.req
  BY StaleFacts, Zenon DEF TypeOK
<1>3. TypeOK'
  BY <1>1, <1>2, Zenon DEF TypeOK
<1>4. Reserved'
  BY <1>1, Zenon DEF Reserved
<1>5. \A p, v : LeadsTo(p, v) /\ v \in Writers => v # w /\ p # Live(w)
  BY PointerFacts, Zenon DEF LeadsTo
<1>6. \A p, v : LeadsTo(p, v) /\ v \in Writers => LeadsTo(p, v)'
  BY <1>5, Zenon DEF LeadsTo, TypeOK
<1>7. \A t \in in_use : req'[t] = req[t]
  BY <1>1, <1>2, <1>5, Zenon DEF Owners, TypeOK
<1>8. irq.at \in {"release", "complete"} => irq'.req = irq.req
  BY <1>1, <1>2, <1>5, Zenon DEF Owners, Reserved, TypeOK
<1>9. Owners'
  <2>1. /\ \A u \in in_use' : \E v \in Writers : LeadsTo(req[u], v)'
        /\ \A u, v \in in_use' : u # v => req'[u] # req'[v]
    BY <1>6, <1>7 DEF Owners
  <2>2. (irq.at = "release" => irq.req = req[irq.i])'
    BY <1>1, <1>7, <1>8, Zenon DEF Owners, Reserved
  <2>3. (irq.at = "complete" => /\ \E v \in Writers : LeadsTo(irq.req, v)
                                /\ \A u \in in_use : req[u] # irq.req)'
    BY <1>1, <1>6, <1>7, <1>8, Zenon DEF Owners
  <2>4. \A v \in done' : pc'[v] = "wait"
    BY Zenon DEF Owners, TypeOK
  <2>5. \A u \in busy' \ in_use' : \A v \in Writers : req'[u] # Live(v)
    BY <1>1, <1>2 DEF Owners, TypeOK
  <2> QED
    BY <2>1, <2>2, <2>3, <2>4, <2>5, Zenon DEF Owners
<1> QED
  BY <1>3, <1>4, <1>7, <1>9, Zenon

\* The hardware finishes a transfer.
LEMMA InvFinish ==
  ASSUME Inv, NEW t \in Tcs, Finish(t)
  PROVE  Inv'
<1> USE DEF Finish, Inv, drv
<1>1. TypeOK'
  BY Zenon DEF TypeOK
<1>2. Reserved'
  BY Zenon DEF Reserved
<1>3. Owners'
  BY Zenon DEF Owners, LeadsTo
<1> QED
  BY <1>1, <1>2, <1>3, Zenon

\* The interrupt reads which TCSes are finished.
LEMMA InvIrqRead ==
  ASSUME Inv, IrqRead
  PROVE  Inv' /\ irq'.at = "next" /\ irq'.todo = irq_status
<1> USE DEF IrqRead, Inv, drv, hw
<1>0. irq'.at = "next" /\ irq'.todo = irq_status /\ irq'.i = irq.i /\ irq'.req = irq.req
  BY Zenon DEF TypeOK
<1>1. TypeOK'
  BY Zenon DEF TypeOK
<1>2. Reserved'
  BY <1>0, Zenon DEF Reserved
<1>3. Owners'
  BY <1>0, Zenon DEF Owners, LeadsTo
<1> QED
  BY <1>0, <1>1, <1>2, <1>3, Zenon

\* The interrupt empties a finished TCS and takes its request.
LEMMA InvIrqReclaim ==
  ASSUME Inv, NEW i \in Tcs, IrqReclaim(i)
  PROVE  Inv'
<1> USE DEF IrqReclaim, First, Inv, drv
<1>1. TypeOK'
  BY Zenon DEF TypeOK
<1>2. Reserved'
  BY Zenon DEF Reserved
<1>3. Owners'
  BY Zenon DEF Owners, LeadsTo
<1> QED
  BY <1>1, <1>2, <1>3, Zenon

\* The interrupt gives the TCS back and wakes every sleeper.
LEMMA InvIrqRelease ==
  ASSUME Inv, IrqRelease
  PROVE  /\ Inv' /\ irq'.at = "complete" /\ irq'.todo = irq.todo
         /\ \A w \in Writers : pc'[w] # "sleep"
<1> USE DEF IrqRelease, Inv
<1>0. /\ irq'.at = "complete" /\ irq'.todo = irq.todo /\ irq'.i = irq.i /\ irq'.req = irq.req
      /\ irq.i \in in_use /\ irq.i \notin busy
      /\ \A w \in Writers : pc'[w] # "sleep" /\ (pc[w] = "wait" => pc'[w] = "wait")
                            /\ (pc'[w] # "idle" => pc[w] # "idle")
  BY Zenon DEF TypeOK, Reserved, WakeUp
<1>1. TypeOK'
  BY <1>0, Zenon DEF TypeOK, WakeUp
<1>2. Reserved'
  BY <1>0, Zenon DEF Reserved
<1>3. \A p, v : LeadsTo(p, v) /\ v \in Writers => LeadsTo(p, v)'
  BY <1>0, Zenon DEF LeadsTo
<1>4. Owners'
  BY <1>0, <1>3 DEF Owners, Reserved, TypeOK
<1> QED
  BY <1>0, <1>1, <1>2, <1>4, Zenon

\* The interrupt signals the completion.
LEMMA InvIrqComplete ==
  ASSUME Inv, IrqComplete
  PROVE  Inv' /\ irq'.todo = irq.todo /\ irq'.at = IF irq.todo = {} THEN "idle" ELSE "next"
<1> USE DEF IrqComplete, NoIrq, Inv, drv, hw
<1>0. /\ irq'.at = IF irq.todo = {} THEN "idle" ELSE "next"
      /\ irq'.at \in {"idle", "next"} /\ irq'.todo = irq.todo /\ irq'.i = 0 /\ irq'.req = None
  BY Zenon
<1>1. PICK w \in Writers : LeadsTo(irq.req, w)
  BY Zenon DEF Owners
<1>2. done' = done \cup {w}
  BY <1>1, SignalsLive, Zenon DEF LeadsTo
<1>3. TypeOK'
  BY <1>0, <1>2, Zenon DEF TypeOK
<1>4. Reserved'
  BY <1>0, Zenon DEF Reserved
<1>5. \A t \in in_use : \A v \in Writers : LeadsTo(req[t], v) => LeadsTo(req[t], v)'
  BY <1>1, <1>2, Zenon DEF LeadsTo, Owners
<1>6. Owners'
  BY <1>0, <1>1, <1>2, <1>5 DEF Owners, LeadsTo, TypeOK
<1> QED
  BY <1>0, <1>3, <1>4, <1>6, Zenon

\* Steps that leave all of it alone.
LEMMA InvIdle == Inv /\ Idle => Inv'
<1> SUFFICES ASSUME Inv, Idle PROVE Inv'
  BY Zenon
<1>1. TypeOK'
  BY Zenon DEF Idle, Inv, TypeOK
<1>2. Reserved' /\ Owners'
  BY Zenon DEF Idle, Inv, Reserved, Owners, LeadsTo
<1> QED
  BY <1>1, <1>2, Zenon DEF Inv

\* Every step that leaves completions to be trusted keeps the invariant.
LEMMA InvNext ==
  ASSUME Inv, [Next]_vars, Trusted'
  PROVE  Inv'
<1>1. TypeOK
  BY Zenon DEF Inv
<1> QED
  BY <1>1, NextCases, InvSync, InvAsync, InvWriter, InvReturn, InvFinish, InvIrqRead,
     InvIrqReclaim, InvIrqRelease, InvIrqComplete, InvIdle, Zenon

-----------------------------------------------------------------------------
(* While all writes wait *)

\* The initial state.
LEMMA StrictInit == Init => Strict
  BY DEF Init, NoIrq, Strict, Places, Held, Apart, SleepersFed

\* What keeps a writer from claiming a TCS is a TCS in use.
LEMMA UnclaimableInUse ==
  ASSUME Places, NEW w \in Writers, Unclaimable(w)
  PROVE  in_use # {}
<1>1. Tcs # {}
  BY TcsAssumption, 1 \in Tcs, Zenon DEF Tcs
<1> QED
  BY <1>1, Zenon DEF Unclaimable, InFlight, Places

\* A transfer takes a TCS whose addresses nothing in flight has.
LEMMA StrictSync ==
  ASSUME Inv, Strict, NEW w \in Writers, NEW t \in Tcs, SyncTransfer(w, t)
  PROVE  Strict'
<1> USE DEF SyncTransfer, Strict
<1>1. Places'
  BY Zenon DEF Places, Held
<1>2. Apart'
  BY DEF Apart, Places, Inv, TypeOK
<1>3. SleepersFed'
  BY Zenon DEF SleepersFed, Inv, TypeOK
<1> QED
  BY <1>1, <1>2, <1>3, Zenon

\* A writer that finds no TCS goes to sleep with an interrupt to come.
LEMMA StrictWriter ==
  ASSUME Inv, Strict, NEW w \in Writers, Quick(w) \/ Sleep(w)
  PROVE  Strict'
<1>1. CASE Quick(w)
  BY <1>1 DEF Quick, Inv, TypeOK, Strict, Places, Held, Apart, SleepersFed
<1>2. CASE Sleep(w)
  <2>1. in_use # {} /\ UNCHANGED <<in_use, cmds, busy, irq_enable, irq_status, irq>>
    BY <1>2, UnclaimableInUse, Zenon DEF Sleep, Strict
  <2> QED
    BY <2>1, Zenon DEF Strict, Places, Held, Apart, SleepersFed
<1> QED
  BY <1>1, <1>2, Zenon

\* A writer that returns sleeps no longer.
LEMMA StrictReturn ==
  ASSUME Inv, Strict, NEW w \in Writers, Return(w)
  PROVE  Strict'
<1>1. irq'.at = irq.at /\ irq'.todo = irq.todo /\ irq'.i = irq.i
  BY Zenon DEF Return, Inv, TypeOK
<1>2. \A v \in Writers : pc'[v] = "sleep" => pc[v] = "sleep"
  BY Zenon DEF Return, Goto, Inv, TypeOK
<1> QED
  BY <1>1, <1>2, Zenon DEF Return, hw, Strict, Places, Held, Apart, SleepersFed

\* A TCS that finishes raises its interrupt.
LEMMA StrictFinish ==
  ASSUME Strict, NEW t \in Tcs, Finish(t)
  PROVE  Strict'
<1>1. irq_status' = irq_status \cup {t}
  BY Zenon DEF Finish, Strict, Places
<1> QED
  BY <1>1, Zenon DEF Finish, drv, Strict, Places, Held, Apart, SleepersFed

\* The handler goes on from each TCS to the next.
LEMMA StrictIrq ==
  ASSUME Inv, Strict, Irq
  PROVE  Strict'
<1>1. CASE IrqRead
  BY <1>1, InvIrqRead, Zenon DEF IrqRead, drv, hw, Strict, Places, Held, Apart, SleepersFed
<1>2. ASSUME NEW i \in Tcs, IrqReclaim(i) PROVE Strict'
  <2>1. i \in irq_status /\ i \notin busy
    BY <1>2, Zenon DEF IrqReclaim, First, Inv, Reserved
  <2>2. Places' /\ SleepersFed'
    BY <1>2, <2>1 DEF IrqReclaim, drv, Strict, Places, Held, SleepersFed
  <2>3. Apart'
    BY <1>2, <2>1, Zenon DEF IrqReclaim, Strict, Apart, Inv, TypeOK
  <2> QED
    BY <2>2, <2>3, Zenon DEF Strict
<1>3. CASE IrqRelease
  <2>1. irq.i \notin busy /\ irq.i \notin irq_status
    BY <1>3, Zenon DEF IrqRelease, Inv, Reserved
  <2>2. Places' /\ Apart'
    BY <1>3, <2>1, InvIrqRelease, Zenon DEF IrqRelease, Strict, Places, Held, Apart
  <2>3. SleepersFed'
    BY <1>3, InvIrqRelease, Zenon DEF SleepersFed
  <2> QED
    BY <2>2, <2>3, Zenon DEF Strict
<1>4. CASE IrqComplete
  <2>1. irq'.at # "release" /\ irq.at = "complete" /\ (irq'.todo # {} <=> irq.todo # {})
    BY <1>4, InvIrqComplete DEF IrqComplete
  <2> QED
    BY <1>4, <2>1, Zenon DEF IrqComplete, drv, hw, Strict, Places, Held, Apart, SleepersFed
<1> QED
  BY <1>1, <1>2, <1>3, <1>4, Zenon DEF Irq

\* Every step keeps it while all writes wait.
LEMMA StrictNext ==
  ASSUME Inv, Strict, [Next]_vars, Trusted', Plain'
  PROVE  Strict'
<1>1. TypeOK
  BY Zenon DEF Inv
<1>2. CASE Idle
  BY <1>2, Zenon DEF Idle, Strict, Places, Held, Apart, SleepersFed
<1>3. Irq <=> IrqRead \/ IrqRelease \/ IrqComplete \/ \E t \in Tcs : IrqReclaim(t)
  BY Zenon DEF Irq
<1> QED
  BY <1>1, <1>2, <1>3, NextCases, StrictSync, StrictWriter, StrictReturn, StrictFinish,
     StrictIrq, Zenon

-----------------------------------------------------------------------------
(* The theorems *)

Reliable == (Trusted => Inv) /\ (Plain => Strict)

\* Both invariants, as long as each is trusted.
LEMMA AlwaysReliable == Spec => []Reliable
<1>1. Init => Reliable
  BY InvInit, StrictInit, Zenon DEF Reliable
<1>2. Reliable /\ [Next]_vars => Reliable'
  <2> SUFFICES ASSUME Reliable, [Next]_vars PROVE Reliable'
    BY Zenon
  <2>1. ASSUME Trusted' PROVE Inv'
    BY <2>1, TrustedWas, InvNext, Zenon DEF Reliable
  <2>2. Plain' => Trusted'
    BY Zenon DEF Plain, Trusted
  <2>3. ASSUME Plain' PROVE Strict'
    BY <2>2, <2>3, TrustedWas, StrictNext, Zenon DEF Reliable
  <2> QED
    BY <2>1, <2>3, Zenon DEF Reliable
<1> QED
  BY <1>1, <1>2, PTL DEF Spec

\* As long as all writes wait and none times out, two TCSes at work never hold
\* commands for one address (what claim_tcs_for_req is for).
THEOREM NoConflicts == Spec => []NoConflict
<1>1. Reliable => NoConflict
  BY Zenon DEF Reliable, Strict, NoConflict
<1> QED
  BY <1>1, AlwaysReliable, PTL

\* As long as all writes wait and none times out, rpmh_tx_done signals only calls
\* that still wait.
THEOREM Completions == Spec => []NoStray
<1>1. Plain => Trusted
  BY Zenon DEF Plain, Trusted
<1>2. Reliable => NoStray
  BY <1>1, Zenon DEF Reliable, Inv, NoStray, Owners, LeadsTo
<1> QED
  BY <1>2, AlwaysReliable, PTL

\* As long as all writes wait and none times out, no writer sleeps on tcs_wait
\* without a wake_up coming.
THEOREM WakesCome == Spec => []WakeComing
<1>1. Reliable => WakeComing
  BY Zenon DEF Reliable, Strict, WakeComing
<1> QED
  BY <1>1, AlwaysReliable, PTL

\* A completion says that the transfer is over: rpmh_tx_done is not called for a
\* request whose TCS still works, nor for a call without a transfer, until the first
\* write that times out or, on a borrowed group, does not wait.
THEOREM CompletedIsOver == Spec => []DoneMeansDone
<1>1. Reliable => DoneMeansDone
  <2> SUFFICES ASSUME Inv, NEW w \in done PROVE pc[w] = "wait" /\ \A t \in busy : req[t] # Live(w)
    BY Zenon DEF Reliable, DoneMeansDone
  <2>1. pc[w] = "wait" /\ w \in Writers
    BY Zenon DEF Inv, Owners, TypeOK
  <2>2. ASSUME NEW t \in busy, req[t] = Live(w) PROVE FALSE
    <3>1. t \in in_use
      BY <2>1, <2>2, Zenon DEF Inv, Owners
    <3>2. PICK v \in Writers : LeadsTo(req[t], v)
      BY <3>1, Zenon DEF Inv, Owners
    <3> QED
      BY <2>1, <2>2, <3>2, PointerFacts, Zenon DEF LeadsTo
  <2> QED
    BY <2>1, <2>2, Zenon
<1> QED
  BY <1>1, AlwaysReliable, PTL
============================================================================
