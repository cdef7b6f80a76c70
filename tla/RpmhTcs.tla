------------------------------ MODULE RpmhTcs ------------------------------
(***************************************************************************)
(* Active transfers of an RPMh controller (drivers/soc/qcom/rpmh-rsc.c and *)
(* rpmh.c): writers claim one of the command sets (TCSes) of the group for *)
(* active requests, program and trigger it, and the interrupt gives it     *)
(* back.  A controller without active TCSes borrows the wake group.  The   *)
(* hardware is external: a triggered TCS is busy until it is finished and  *)
(* then raises its interrupt if that is enabled.                           *)
(***************************************************************************)
EXTENDS Integers

CONSTANTS Writers, Addrs,
          NumTcs,      \* tcs->num_tcs of the group
          Groups,      \* the values of borrowed
          Solver,      \* SOLVER_PRESENT
          None         \* no request

\* A pointer to the request on the stack of a writer: of the call it is in, or of
\* an earlier one, whose stack the present call may use again.
Live(w) == <<w, "live">>
Dangling(w) == <<w, "dangling">>
Pointers == Writers \X {"live", "dangling"}

ASSUME TcsAssumption ==
  /\ NumTcs \in Nat \ {0} /\ Groups \subseteq BOOLEAN
  /\ None \notin Pointers

Tcs == 1..NumTcs

VARIABLES
  borrowed,      \* no active TCS: tcs is the wake group
  in_use,        \* drv->tcs_in_use
  req,           \* tcs->req
  solver,        \* in_solver_mode
  cmds,          \* the addresses of the enabled commands of each TCS
  busy,          \* the TCSes at work
  irq_enable, irq_status,
  irq,           \* tcs_tx_done: [at, todo, i, req]
  pc, msg,       \* the writers and what they write, None outside a call
  done,          \* the writers whose completion is signalled
  lapses         \* history: "async" after a write that did not wait for its
                 \* completion, "timeout" after one that waited in vain

hw == <<cmds, busy, irq_enable, irq_status>>
drv == <<borrowed, in_use, req, solver>>
vars == <<drv, hw, irq, pc, msg, done, lapses>>

NoIrq == [at |-> "idle", todo |-> {}, i |-> 0, req |-> None]

\* sync is wait_for_compl: FALSE is rpmh_write_async.
Msgs == [addrs : SUBSET Addrs \ {{}}, sync : BOOLEAN]

Init ==
  /\ borrowed \in Groups
  /\ in_use = {} /\ req = [t \in Tcs |-> None] /\ solver = FALSE
  /\ cmds = [t \in Tcs |-> {}] /\ busy = {}
  /\ irq_enable = IF borrowed THEN {} ELSE Tcs
  /\ irq_status = {} /\ irq = NoIrq
  /\ pc = [w \in Writers |-> "idle"] /\ done = {}
  /\ msg = [w \in Writers |-> None] /\ lapses = {}

-----------------------------------------------------------------------------
(* Writers *)

Goto(w, from, to) == pc[w] = from /\ pc' = [pc EXCEPT ![w] = to]

\* wake_up of tcs_wait
WakeUp(f) == [w \in Writers |-> IF f[w] = "sleep" THEN "retry" ELSE f[w]]

\* p when the call of w has returned
Stale(p, w) == IF p = Live(w) THEN Dangling(w) ELSE p

\* rpmh_write, rpmh_write_async, rpmh_write_batch: check_ctrlr_state
Write(w) ==
  /\ ~ (Solver /\ solver)
  /\ Goto(w, "idle", "send")
  /\ \E m \in Msgs : msg' = [msg EXCEPT ![w] = m]
  /\ UNCHANGED <<drv, hw, irq, done, lapses>>

\* Mutant: conflicting commands in flight are not looked for.
InFlightNone(w) == FALSE

\* check_for_req_inflight
InFlight(w) == \E t \in in_use : cmds[t] \cap msg[w].addrs # {}

\* The first TCS that find_free_tcs finds, and gives 100 us to become idle
First(t, S) == t \in S /\ \A u \in S : t <= u
Claimable(w, t) == ~ InFlight(w) /\ First(t, Tcs \ in_use) /\ t \notin busy
Unclaimable(w) ==
  InFlight(w) \/ in_use = Tcs \/ \E t \in busy : First(t, Tcs \ in_use)

\* The part of rpmh_rsc_send_data under drv->lock, and the wake_up after it.
\* A call that does not wait returns, and its request goes with its stack.
Transfer(w, from, t) ==
  /\ pc[w] = from /\ Claimable(w, t)
  /\ cmds' = [cmds EXCEPT ![t] = msg[w].addrs]
  /\ busy' = busy \cup {t}
  /\ irq_enable' = IF msg[w].sync \/ borrowed THEN irq_enable \cup {t}
                                             ELSE irq_enable \ {t}
  /\ IF msg[w].sync
       THEN /\ pc' = [pc EXCEPT ![w] = "wait"]
            /\ req' = [req EXCEPT ![t] = Live(w)]
            /\ in_use' = in_use \cup {t}
            /\ msg' = msg
       ELSE /\ pc' = WakeUp([pc EXCEPT ![w] = "idle"])
            /\ req' = [req EXCEPT ![t] = Dangling(w)]
            /\ in_use' = in_use
            /\ msg' = [msg EXCEPT ![w] = None]
  /\ lapses' = IF msg[w].sync THEN lapses ELSE lapses \cup {"async"}
  /\ UNCHANGED <<borrowed, solver, irq_status, irq, done>>

Send(w) == ~ solver /\ \E t \in Tcs : Transfer(w, "send", t)

\* Solver mode came in between: -EBUSY.
SendRefused(w) ==
  /\ solver /\ Goto(w, "send", "idle")
  /\ msg' = [msg EXCEPT ![w] = None]
  /\ UNCHANGED <<drv, hw, irq, done, lapses>>

SendSleeps(w) ==
  /\ Goto(w, "send", "sleep") /\ ~ solver /\ Unclaimable(w)
  /\ UNCHANGED <<drv, hw, irq, msg, done, lapses>>

\* wait_event_lock_irq
Retry(w) == \E t \in Tcs : Transfer(w, "retry", t)

RetrySleeps(w) ==
  /\ Goto(w, "retry", "sleep") /\ Unclaimable(w)
  /\ UNCHANGED <<drv, hw, irq, msg, done, lapses>>

Return(w) ==
  /\ Goto(w, "wait", "idle")
  /\ done' = done \ {w}
  /\ msg' = [msg EXCEPT ![w] = None]
  /\ req' = [t \in Tcs |-> Stale(req[t], w)]
  /\ irq' = [irq EXCEPT !.req = Stale(@, w)]
  /\ UNCHANGED <<borrowed, in_use, solver, hw>>

\* Mutant: the wait may end early.
WriteDoneEarly(w) == Return(w) /\ UNCHANGED lapses

\* wait_for_completion_timeout
WriteDone(w) == w \in done /\ Return(w) /\ UNCHANGED lapses

\* -ETIMEDOUT; while a TCS is in use rpmh_rsc_debug stops the machine instead.
WriteTimeout(w) ==
  /\ w \notin done /\ in_use = {}
  /\ Return(w) /\ lapses' = lapses \cup {"timeout"}

-----------------------------------------------------------------------------
(* Hardware and interrupt *)

Finish(t) ==
  /\ t \in busy /\ busy' = busy \ {t}
  /\ irq_status' = IF t \in irq_enable THEN irq_status \cup {t} ELSE irq_status
  /\ UNCHANGED <<drv, cmds, irq_enable, irq, pc, msg, done, lapses>>

IrqRead ==
  /\ irq.at = "idle" /\ irq_status # {}
  /\ irq' = [irq EXCEPT !.at = "next", !.todo = irq_status]
  /\ UNCHANGED <<drv, hw, pc, msg, done, lapses>>

\* The request is looked up and the TCS emptied, without the lock.
IrqReclaim(i) ==
  /\ irq.at = "next" /\ First(i, irq.todo)
  /\ irq' = [at |-> "release", todo |-> irq.todo \ {i}, i |-> i, req |-> req[i]]
  /\ cmds' = [cmds EXCEPT ![i] = {}]
  /\ irq_status' = irq_status \ {i}
  /\ UNCHANGED <<drv, busy, irq_enable, pc, msg, done, lapses>>

\* Mutant: the waiters for a TCS are not woken.
IrqReleaseQuiet ==
  /\ irq.at = "release"
  /\ in_use' = in_use \ {irq.i}
  /\ irq_enable' = IF borrowed THEN irq_enable \ {irq.i} ELSE irq_enable
  /\ irq' = [irq EXCEPT !.at = "complete"]
  /\ UNCHANGED <<borrowed, req, solver, cmds, busy, irq_status, pc, msg, done, lapses>>

\* Under drv->lock the TCS is free again.
IrqRelease ==
  /\ irq.at = "release"
  /\ in_use' = in_use \ {irq.i}
  /\ irq_enable' = IF borrowed THEN irq_enable \ {irq.i} ELSE irq_enable
  /\ pc' = WakeUp(pc)
  /\ irq' = [irq EXCEPT !.at = "complete"]
  /\ UNCHANGED <<borrowed, req, solver, cmds, busy, irq_status, msg, done, lapses>>

\* rpmh_tx_done: whom it may signal.  A dangling pointer leads to nobody, or to the
\* completion of the writer's present call if that is at the same place.
Signals(p) ==
  IF p = None THEN {{}}
  ELSE IF p = Live(p[1]) THEN {{p[1]}}
  ELSE {{}, {w \in {p[1]} : pc[w] # "idle" /\ msg[w].sync}}

\* Mutant: the request is looked up again after the TCS was given back.
IrqCompleteLate ==
  /\ irq.at = "complete"
  /\ \E S \in Signals(req[irq.i]) : done' = done \cup S
  /\ irq' = [NoIrq EXCEPT !.todo = irq.todo, !.at = IF irq.todo = {} THEN "idle" ELSE "next"]
  /\ UNCHANGED <<drv, hw, pc, msg, lapses>>

\* Mutant: an interrupt completes only the last of its requests.
IrqCompleteLast ==
  /\ irq.at = "complete"
  /\ \E S \in Signals(irq.req) : done' = IF irq.todo = {} THEN done \cup S ELSE done
  /\ irq' = [NoIrq EXCEPT !.todo = irq.todo, !.at = IF irq.todo = {} THEN "idle" ELSE "next"]
  /\ UNCHANGED <<drv, hw, pc, msg, lapses>>

IrqComplete ==
  /\ irq.at = "complete"
  /\ \E S \in Signals(irq.req) : done' = done \cup S
  /\ irq' = [NoIrq EXCEPT !.todo = irq.todo, !.at = IF irq.todo = {} THEN "idle" ELSE "next"]
  /\ UNCHANGED <<drv, hw, pc, msg, lapses>>

\* rpmh_mode_solver_set, with rpmh_rsc_ctrlr_is_busy
SolverSet ==
  /\ Solver /\ (solver \/ in_use = {})
  /\ solver' = ~ solver
  /\ UNCHANGED <<borrowed, in_use, req, hw, irq, pc, msg, done, lapses>>

-----------------------------------------------------------------------------
WriterStep(w) ==
  \/ Send(w) \/ SendRefused(w) \/ SendSleeps(w) \/ Retry(w) \/ RetrySleeps(w)
  \/ WriteDone(w)
Irq == IrqRead \/ (\E i \in Tcs : IrqReclaim(i)) \/ IrqRelease \/ IrqComplete

Next ==
  \/ \E w \in Writers : Write(w) \/ WriterStep(w) \/ WriteTimeout(w)
  \/ \E t \in Tcs : Finish(t)
  \/ Irq \/ SolverSet

Spec == Init /\ [][Next]_vars

\* Writers in a call, the hardware and the interrupt go on.
LiveSpec ==
  /\ Spec
  /\ \A w \in Writers : WF_vars(WriterStep(w))
  /\ \A t \in Tcs : WF_vars(Finish(t))
  /\ WF_vars(Irq)

-----------------------------------------------------------------------------
(* Properties *)

TypeOK ==
  /\ in_use \subseteq Tcs /\ busy \subseteq Tcs
  /\ irq_enable \subseteq Tcs /\ irq_status \subseteq Tcs
  /\ req \in [Tcs -> Pointers \cup {None}] /\ cmds \in [Tcs -> SUBSET Addrs]
  /\ pc \in [Writers -> {"idle", "send", "sleep", "retry", "wait"}]
  /\ msg \in [Writers -> Msgs \cup {None}]
  /\ \A w \in Writers : pc[w] # "idle" => msg[w] \in Msgs
  /\ irq \in [at : {"idle", "next", "release", "complete"}, todo : SUBSET Tcs,
              i : Tcs \cup {0}, req : Pointers \cup {None}]
  /\ done \subseteq Writers

\* Every write so far waited for its completion, and none in vain.
Plain == lapses = {}

\* Completions can be relied on.
Trusted == lapses \subseteq IF borrowed THEN {} ELSE {"async"}

Apart == \A t, u \in busy : t # u => cmds[t] \cap cmds[u] = {}

\* "The h/w does not like if we send a request to the same address, when one
\* is already in-flight or being processed" (claim_tcs_for_req): as long as all
\* writes wait for completion, and none in vain, two busy TCSes never hold
\* commands for one address.
NoConflict == Plain => Apart

\* A writer's completion is signalled only when its own transfer is finished, and
\* not before it has one.  Writes that do not wait do no harm on a group of active
\* TCSes (on a borrowed one they do).  A write that timed out may: what is left of
\* it can signal the next call of its thread.
DoneMeansDone ==
  Trusted => \A w \in done : pc[w] = "wait" /\ \A t \in busy : req[t] # Live(w)

\* The interrupt completes only requests whose calls still wait (rpmh_tx_done
\* follows a pointer to the stack of the caller), as long as all writes wait for
\* their completion and none in vain.
NoStray == Plain /\ irq.at = "complete" => \E w \in Writers : irq.req = Live(w)

SleepersFed ==
  \A w \in Writers : pc[w] = "sleep" =>
    \/ (busy \cap irq_enable) \cup irq_status # {}
    \/ irq.todo # {} \/ irq.at \in {"next", "release"}

\* A writer that sleeps on tcs_wait has a wake_up coming: a transfer is under
\* way whose interrupt is enabled, or one is pending or before its wake_up.  This
\* holds until the first write that does not wait, or waits in vain.
WakeComing == Plain => SleepersFed

Quiet == <>[][\A w \in Writers : ~ Write(w)]_vars

\* Once no new writes come, each write ends, as long as all of them wait for
\* completion and none in vain.  (tcs_wait is not a queue: a writer may lose its TCS to new ones
\* again and again.)
WritesEnd ==
  Quiet => \A w \in Writers : pc[w] # "idle" ~> (pc[w] = "idle" \/ ~ Plain)

\* "Wait forever for a free tcs. It better be there eventually!"
\* (rpmh_rsc_send_data): a writer that sleeps for a TCS is woken to try again.
SleepersWoken == \A w \in Writers : pc[w] = "sleep" ~> pc[w] # "sleep"
============================================================================
