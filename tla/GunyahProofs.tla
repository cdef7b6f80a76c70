--------------------------- MODULE GunyahProofs -----------------------------
(* Proofs about GunyahVm, for any number of lives and words, and about      *)
(* GhMsgq, for any number of senders and receivers, any depth and any       *)
(* number of lives of the secondary VM.                                     *)
EXTENDS GunyahVm, SequenceTheorems, TLAPS

\* What holds of the flags and of the stages of power-up and probe.
Stages ==
  /\ cap \in [VM -> BOOLEAN] /\ up \in [VM -> BOOLEAN]
  /\ kick \in [VM -> BOOLEAN] /\ dbl \in [VM -> BOOLEAN]
  /\ rx_cb \in [VM -> BOOLEAN] /\ reading \in [VM -> BOOLEAN]
  /\ rx_cb["p"]
  /\ status \in {"ready", "loaded", "running"} => cap["p"]
  /\ status # "running" => probe = "none"
  /\ probe \in {"none", "init"} => ~ up["s"]
  /\ probe \in {"rx", "done"} => rx_cb["s"]

\* What holds of the indices: before the secondary has set its up, the primary
\* has cleared both.
Indices ==
  /\ head \in [VM -> Nat] /\ tail \in [VM -> Nat]
  /\ (status \in {"loaded", "running"} /\ probe = "none") => head["s"] = 0 /\ tail["s"] = 0

\* The cases of a step.
LEMMA NextCases ==
  ASSUME [Next]_vars, NEW G,
         VmInit => G, BeforePowerup => G, BeforePowerupFails => G, VmStart => G,
         PowerupFail => G, VmExit => G, Unpopulate => G, EarlyPoweroff => G,
         Populate => G, ProbeFifoInit => G, ProbeRegister => G, ProbeRxRegister => G,
         ProbeRead => G, RetryWork => G,
         \A v \in VM : Publish(v) => G,
         \A v \in VM : Kick(v) => G,
         \A v \in VM : Callback(v) => G,
         \A v \in VM : Read(v) => G,
         \A v \in VM : ReadEnd(v) => G,
         vars' = vars => G
  PROVE  G
  BY Zenon DEF Next, Power, Boot, Transfer

\* The stages are inductive by themselves.
LEMMA StagesStep == Stages /\ [Next]_vars => Stages'
<1> SUFFICES ASSUME Stages, [Next]_vars PROVE Stages'
  BY Zenon
<1> USE DEF Stages, VM
<1>1. VmInit => Stages'
  BY Zenon DEF VmInit
<1>2. BeforePowerup => Stages'
  BY Zenon DEF BeforePowerup
<1>3. BeforePowerupFails => Stages'
  BY Zenon DEF BeforePowerupFails
<1>4. VmStart => Stages'
  BY Zenon DEF VmStart
<1>5. PowerupFail => Stages'
  BY Zenon DEF PowerupFail, Unregister
<1>6. VmExit => Stages'
  BY DEF VmExit
<1>7. Unpopulate => Stages'
  BY Zenon DEF Unpopulate, pVars
<1>8. EarlyPoweroff => Stages'
  BY Zenon DEF EarlyPoweroff, Unregister
<1>9. Populate => Stages'
  BY Zenon DEF Populate, pVars
<1>10. ProbeFifoInit => Stages'
  BY Zenon DEF ProbeFifoInit, pVars
<1>11. ProbeRegister => Stages'
  BY Zenon DEF ProbeRegister, pVars
<1>12. ProbeRxRegister => Stages'
  BY Zenon DEF ProbeRxRegister, pVars
<1>13. ProbeRead => Stages'
  BY Zenon DEF ProbeRead, pVars
<1>14. RetryWork => Stages'
  BY Zenon DEF RetryWork, pVars
<1>15. ASSUME NEW v \in VM, Publish(v) PROVE Stages'
  BY <1>15, Zenon DEF Publish, pVars
<1>16. ASSUME NEW v \in VM, Kick(v) PROVE Stages'
  BY <1>16, Zenon DEF Kick, pVars
<1>17. ASSUME NEW v \in VM, Callback(v) PROVE Stages'
  BY <1>17, Zenon DEF Callback, pVars, Peer
<1>18. ASSUME NEW v \in VM, Read(v) PROVE Stages'
  BY <1>18, Zenon DEF Read, pVars
<1>19. ASSUME NEW v \in VM, ReadEnd(v) PROVE Stages'
  BY <1>19, Zenon DEF ReadEnd, pVars
<1>20. vars' = vars => Stages'
  BY Zenon DEF vars, pVars
<1> HIDE DEF Stages, VM
<1> QED
  BY <1>1, <1>2, <1>3, <1>4, <1>5, <1>6, <1>7, <1>8, <1>9, <1>10, <1>11, <1>12, <1>13,
     <1>14, <1>15, <1>16, <1>17, <1>18, <1>19, <1>20, NextCases, Zenon

\* The indices are inductive relative to the stages.
LEMMA IndicesStep == Stages /\ Indices /\ [Next]_vars => Indices'
<1> SUFFICES ASSUME Stages, Indices, [Next]_vars PROVE Indices'
  BY Zenon
<1> USE DEF Indices, VM
<1>0. ASSUME UNCHANGED <<head, tail, status, probe>> PROVE Indices'
  BY <1>0, Zenon
<1>1. VmInit => Indices'
  BY Zenon DEF VmInit, pipeVars
<1>2. BeforePowerup => Indices'
  BY DEF BeforePowerup, FifoInitPrimary
<1>3. BeforePowerupFails => Indices'
  BY DEF BeforePowerupFails, FifoInitPrimary
<1>4. VmStart => Indices'
  BY Zenon DEF VmStart, pipeVars
<1>5. PowerupFail => Indices'
  BY Zenon DEF PowerupFail, pipeVars
<1>6. VmExit => Indices'
  BY Zenon DEF VmExit, pipeVars
<1>7. Unpopulate => Indices'
  BY <1>0, Zenon DEF Unpopulate, pVars, pipeVars
<1>8. EarlyPoweroff => Indices'
  BY Zenon DEF EarlyPoweroff, pipeVars
<1>9. Populate => Indices'
  BY <1>0, Zenon DEF Populate, pVars, pipeVars
<1>10. ProbeFifoInit => Indices'
  BY Zenon DEF ProbeFifoInit, pVars
<1>11. ProbeRegister => Indices'
  BY Zenon DEF ProbeRegister, pVars, pipeVars
<1>12. ProbeRxRegister => Indices'
  BY Zenon DEF ProbeRxRegister, pVars, pipeVars
<1>13. ProbeRead => Indices'
  BY Zenon DEF ProbeRead, pVars, pipeVars
<1>14. RetryWork => Indices'
  BY <1>0, Zenon DEF RetryWork, pVars, pipeVars
<1>15. ASSUME NEW v \in VM, Publish(v) PROVE Indices'
  BY <1>15 DEF Publish, pVars, Stages
<1>16. ASSUME NEW v \in VM, Kick(v) PROVE Indices'
  BY <1>16, <1>0, Zenon DEF Kick, pVars, pipeVars
<1>17. ASSUME NEW v \in VM, Callback(v) PROVE Indices'
  BY <1>17, <1>0, Zenon DEF Callback, pVars, pipeVars
<1>18. ASSUME NEW v \in VM, Read(v) PROVE Indices'
  BY <1>18 DEF Read, pVars, Peer
<1>19. ASSUME NEW v \in VM, ReadEnd(v) PROVE Indices'
  BY <1>19, <1>0, Zenon DEF ReadEnd, pVars, pipeVars
<1>20. vars' = vars => Indices'
  BY <1>0, Zenon DEF vars, pVars, pipeVars
<1> HIDE DEF Indices, VM
<1> QED
  BY <1>1, <1>2, <1>3, <1>4, <1>5, <1>6, <1>7, <1>8, <1>9, <1>10, <1>11, <1>12, <1>13,
     <1>14, <1>15, <1>16, <1>17, <1>18, <1>19, <1>20, NextCases, Zenon

\* Somebody is still to be told.
LEMMA WordsStep == Stages /\ Indices /\ WordsComing /\ [Next]_vars => WordsComing'
<1> SUFFICES ASSUME Stages, Indices, WordsComing, [Next]_vars PROVE WordsComing'
  BY Zenon
<1> USE DEF WordsComing, Stages, VM
<1>1. VmInit => WordsComing'
  BY Zenon DEF VmInit
<1>2. BeforePowerup => WordsComing'
  BY Zenon DEF BeforePowerup
<1>3. BeforePowerupFails => WordsComing'
  BY Zenon DEF BeforePowerupFails
<1>4. VmStart => WordsComing'
  BY Zenon DEF VmStart, pipeVars
<1>5. PowerupFail => WordsComing'
  BY Zenon DEF PowerupFail
<1>6. VmExit => WordsComing'
  BY Zenon DEF VmExit
<1>7. Unpopulate => WordsComing'
  BY Zenon DEF Unpopulate, pVars
<1>8. EarlyPoweroff => WordsComing'
  BY Zenon DEF EarlyPoweroff
<1>9. Populate => WordsComing'
  BY DEF Populate, pVars, pipeVars
<1>10. ProbeFifoInit => WordsComing'
  BY Zenon DEF ProbeFifoInit, pVars, Indices
<1>11. ProbeRegister => WordsComing'
  BY DEF ProbeRegister, pVars, pipeVars
<1>12. ProbeRxRegister => WordsComing'
  BY DEF ProbeRxRegister, pVars, pipeVars
<1>13. ProbeRead => WordsComing'
  BY DEF ProbeRead, pVars, pipeVars
<1>14. RetryWork => WordsComing'
  BY Zenon DEF RetryWork, pVars, pipeVars
<1>15. ASSUME NEW v \in VM, Publish(v) PROVE WordsComing'
  BY <1>15, Zenon DEF Publish, pVars, Indices
<1>16. ASSUME NEW v \in VM, Kick(v) PROVE WordsComing'
  BY <1>16, Zenon DEF Kick, pVars, pipeVars
<1>17. ASSUME NEW v \in VM, Callback(v) PROVE WordsComing'
  BY <1>17, Zenon DEF Callback, pVars, pipeVars, Peer
<1>18. ASSUME NEW v \in VM, Read(v) PROVE WordsComing'
  BY <1>18, Zenon DEF Read, pVars, Peer, Indices
<1>19. ASSUME NEW v \in VM, ReadEnd(v) PROVE WordsComing'
  BY <1>19, Zenon DEF ReadEnd, pVars, pipeVars, Peer
<1>20. vars' = vars => WordsComing'
  BY ZenonT(30) DEF vars, pVars, pipeVars
<1> HIDE DEF WordsComing, Stages, VM
<1> QED
  BY <1>1, <1>2, <1>3, <1>4, <1>5, <1>6, <1>7, <1>8, <1>9, <1>10, <1>11, <1>12, <1>13,
     <1>14, <1>15, <1>16, <1>17, <1>18, <1>19, <1>20, NextCases, Zenon

\* The stages at the start: only the primary's callback is there.
LEMMA InitStages == Init => Stages
<1> SUFFICES ASSUME Init PROVE Stages
  BY Zenon
<1>1. /\ cap \in [VM -> BOOLEAN] /\ up \in [VM -> BOOLEAN]
      /\ kick \in [VM -> BOOLEAN] /\ dbl \in [VM -> BOOLEAN]
  BY Zenon DEF Init
<1>2. rx_cb \in [VM -> BOOLEAN] /\ reading \in [VM -> BOOLEAN]
  BY Zenon DEF Init
<1>3. rx_cb["p"]
  BY Zenon DEF Init, VM
<1>4. status = "none" /\ probe = "none" /\ ~ up["s"]
  BY Zenon DEF Init, VM
<1> QED
  BY <1>1, <1>2, <1>3, <1>4, Zenon DEF Stages

\* While the secondary runs, words that wait for either side are being read, or
\* a doorbell, the retry work or the check of the probe is still to come.
THEOREM WordsAreComing == Spec => []WordsComing
<1>1. Init => Stages
  BY InitStages, Zenon
<1>2. Init => Indices
  BY DEF Init, Indices, VM
<1>3. Init => WordsComing
  BY Zenon DEF Init, WordsComing
<1> QED
  BY <1>1, <1>2, <1>3, StagesStep, IndicesStep, WordsStep, PTL DEF Spec

\* What an index may be, and how it goes with the words behind it.
Pipes ==
  /\ life \in Nat /\ life <= MaxLives
  /\ mem \in [VM -> Seq(Nat \X Nat)] /\ ring \in [VM -> Seq(Nat \X Nat)]
  /\ head \in [VM -> Nat] /\ tail \in [VM -> Nat]
  /\ \A v \in VM : /\ head[v] <= MaxWords /\ tail[v] <= head[v]
                   /\ Len(mem[v]) = head[v] /\ Len(ring[v]) < PktWords

\* The stages and flags that have no part in this.
Names ==
  /\ status \in {"none", "ready", "loaded", "running", "exited"}
  /\ probe \in {"none", "init", "ep", "rx", "done"}
  /\ registered \in BOOLEAN /\ work \in BOOLEAN

\* Every step keeps them.
LEMMA NamesStep == Stages /\ Names /\ [Next]_vars => Names'
<1> SUFFICES ASSUME Stages, Names, [Next]_vars PROVE Names'
  BY Zenon
<1> USE DEF Names
<1>1. VmInit => Names'
  BY Zenon DEF VmInit, pipeVars
<1>2. BeforePowerup => Names'
  BY Zenon DEF BeforePowerup, FifoInitPrimary
<1>3. BeforePowerupFails => Names'
  BY Zenon DEF BeforePowerupFails, FifoInitPrimary
<1>4. VmStart => Names'
  BY Zenon DEF VmStart, pipeVars
<1>5. PowerupFail => Names'
  BY Zenon DEF PowerupFail, Unregister, pipeVars
<1>6. VmExit => Names'
  BY Zenon DEF VmExit, pipeVars
<1>7. Unpopulate => Names'
  BY Zenon DEF Unpopulate, pVars, pipeVars
<1>8. EarlyPoweroff => Names'
  BY Zenon DEF EarlyPoweroff, Unregister, pipeVars
<1>9. Populate => Names'
  BY Zenon DEF Populate, pVars, pipeVars
<1>10. ProbeFifoInit => Names'
  BY Zenon DEF ProbeFifoInit, pVars, Indices
<1>11. ProbeRegister => Names'
  BY Zenon DEF ProbeRegister, pVars, pipeVars
<1>12. ProbeRxRegister => Names'
  BY Zenon DEF ProbeRxRegister, pVars, pipeVars
<1>13. ProbeRead => Names'
  BY Zenon DEF ProbeRead, pVars, pipeVars
<1>14. RetryWork => Names'
  BY Zenon DEF RetryWork, pVars, pipeVars
<1>15. ASSUME NEW v \in VM, Publish(v) PROVE Names'
  BY <1>15, Zenon DEF Publish, pVars
<1>16. ASSUME NEW v \in VM, Kick(v) PROVE Names'
  BY <1>16, Zenon DEF Kick, pVars, pipeVars
<1>17. ASSUME NEW v \in VM, Callback(v) PROVE Names'
  BY <1>17, Zenon DEF Callback, pVars, pipeVars
<1>18. ASSUME NEW v \in VM, Read(v) PROVE Names'
  BY <1>18, Zenon DEF Read, pVars, Peer
<1>19. ASSUME NEW v \in VM, ReadEnd(v) PROVE Names'
  BY <1>19, Zenon DEF ReadEnd, pVars, pipeVars
<1>20. vars' = vars => Names'
  BY Zenon DEF vars, pVars, pipeVars
<1> HIDE DEF Names
<1> QED
  BY <1>1, <1>2, <1>3, <1>4, <1>5, <1>6, <1>7, <1>8, <1>9, <1>10, <1>11, <1>12, <1>13,
     <1>14, <1>15, <1>16, <1>17, <1>18, <1>19, <1>20, NextCases, Zenon

\* The reader never overtakes the writer, also when the pipe is reset under it.
LEMMA PipesStep == Stages /\ Indices /\ Pipes /\ [Next]_vars => Pipes'
<1> SUFFICES ASSUME Stages, Indices, Pipes, [Next]_vars PROVE Pipes'
  BY Zenon
<1> USE VmAssumption DEF Pipes, VM, PktWords
<1>1. VmInit => Pipes'
  BY DEF VmInit, pipeVars
<1>2. BeforePowerup => Pipes'
  BY DEF BeforePowerup, FifoInitPrimary
<1>3. BeforePowerupFails => Pipes'
  BY DEF BeforePowerupFails, FifoInitPrimary
<1>4. VmStart => Pipes'
  BY Zenon DEF VmStart, pipeVars
<1>5. PowerupFail => Pipes'
  BY Zenon DEF PowerupFail, Unregister, pipeVars
<1>6. VmExit => Pipes'
  BY DEF VmExit, pipeVars
<1>7. Unpopulate => Pipes'
  BY Zenon DEF Unpopulate, pVars, pipeVars
<1>8. EarlyPoweroff => Pipes'
  BY Zenon DEF EarlyPoweroff, Unregister, pipeVars
<1>9. Populate => Pipes'
  BY Zenon DEF Populate, pVars, pipeVars
<1>10. ProbeFifoInit => Pipes'
  BY DEF ProbeFifoInit, pVars, Indices
<1>11. ProbeRegister => Pipes'
  BY Zenon DEF ProbeRegister, pVars, pipeVars
<1>12. ProbeRxRegister => Pipes'
  BY Zenon DEF ProbeRxRegister, pVars, pipeVars
<1>13. ProbeRead => Pipes'
  BY Zenon DEF ProbeRead, pVars, pipeVars
<1>14. RetryWork => Pipes'
  BY Zenon DEF RetryWork, pVars, pipeVars
<1>15. ASSUME NEW v \in VM, Publish(v) PROVE Pipes'
  <2> DEFINE grown == Append(mem[v], <<life, head[v]>>)
  <2>1. /\ mem \in [VM -> Seq(Nat \X Nat)] /\ head \in [VM -> Nat] /\ tail \in [VM -> Nat]
        /\ life \in Nat
        /\ \A u \in VM : head[u] <= MaxWords /\ tail[u] <= head[u] /\ Len(mem[u]) = head[u]
    BY Zenon
  <2>2. mem' = [mem EXCEPT ![v] = grown] /\ head' = [head EXCEPT ![v] = head[v] + 1]
    BY <1>15, Zenon DEF Publish
  <2>3. UNCHANGED <<tail, ring, life>> /\ head[v] < MaxWords
    BY <1>15, Zenon DEF Publish
  <2> HIDE DEF Pipes, VM
  <2>4. grown \in Seq(Nat \X Nat) /\ Len(grown) = Len(mem[v]) + 1
    <3>1. mem[v] \in Seq(Nat \X Nat) /\ <<life, head[v]>> \in Nat \X Nat
      BY <2>1, Zenon
    <3> QED
      BY <3>1, AppendProperties
  <2> HIDE DEF grown
  <2>5. mem' \in [VM -> Seq(Nat \X Nat)] /\ head' \in [VM -> Nat]
    BY <2>1, <2>2, <2>4
  <2>6. ASSUME NEW u \in VM
        PROVE  head'[u] <= MaxWords /\ tail[u] <= head'[u] /\ Len(mem'[u]) = head'[u]
    <3>1. CASE u = v
      <4>1. head'[u] = head[v] + 1 /\ mem'[u] = grown
        BY <2>1, <2>2, <3>1, Zenon
      <4>2. head[v] \in Nat /\ tail[v] \in Nat /\ tail[v] <= head[v] /\ Len(mem[v]) = head[v]
        BY <2>1, Zenon
      <4> QED
        BY <2>3, <2>4, <3>1, <4>1, <4>2
    <3>2. CASE u # v
      <4>1. head'[u] = head[u] /\ mem'[u] = mem[u]
        BY <2>1, <2>2, <3>2, Zenon
      <4> QED
        BY <2>1, <4>1, Zenon
    <3> QED
      BY <3>1, <3>2, Zenon
  <2> QED
    BY <2>3, <2>5, <2>6, Zenon DEF Pipes
<1>16. ASSUME NEW v \in VM, Kick(v) PROVE Pipes'
  BY <1>16, Zenon DEF Kick, pVars, pipeVars
<1>17. ASSUME NEW v \in VM, Callback(v) PROVE Pipes'
  BY <1>17, Zenon DEF Callback, pVars, pipeVars
<1>18. ASSUME NEW v \in VM, Read(v) PROVE Pipes'
  <2>1. PICK u \in VM : u = Peer(v)
    BY <1>18, Zenon DEF Peer
  <2> DEFINE pkt == Append(ring[v], mem[u][tail[u] + 1])
  <2>2. ring' = [ring EXCEPT ![v] = IF Len(pkt) = 2 THEN <<>> ELSE pkt]
    BY <1>18, <2>1, Zenon DEF Read
  <2>3. tail' = [tail EXCEPT ![u] = tail[u] + 1] /\ head[u] # tail[u]
    BY <1>18, <2>1, Zenon DEF Read
  <2>4. UNCHANGED <<head, mem, life>>
    BY <1>18, Zenon DEF Read
  <2>5. /\ mem \in [VM -> Seq(Nat \X Nat)] /\ ring \in [VM -> Seq(Nat \X Nat)]
        /\ head \in [VM -> Nat] /\ tail \in [VM -> Nat]
        /\ \A x \in VM : tail[x] <= head[x] /\ Len(mem[x]) = head[x] /\ Len(ring[x]) < 2
    BY Zenon
  <2> HIDE DEF Pipes, VM
  <2>6. /\ head[u] \in Nat /\ tail[u] \in Nat /\ tail[u] <= head[u]
        /\ Len(mem[u]) = head[u] /\ mem[u] \in Seq(Nat \X Nat)
    BY <2>5, Zenon
  <2>7. tail[u] + 1 \in 1..head[u]
    BY <2>3, <2>6
  <2>8. pkt \in Seq(Nat \X Nat) /\ Len(pkt) = Len(ring[v]) + 1
    <3>1. mem[u][tail[u] + 1] \in Nat \X Nat
      BY <2>6, <2>7, ElementOfSeq, Zenon
    <3>2. ring[v] \in Seq(Nat \X Nat)
      BY <2>5, Zenon
    <3> QED
      BY <3>1, <3>2, AppendProperties
  <2> HIDE DEF pkt
  <2>9. ring' \in [VM -> Seq(Nat \X Nat)] /\ \A x \in VM : Len(ring'[x]) < 2
    <3> DEFINE rest == IF Len(pkt) = 2 THEN <<>> ELSE pkt
    <3>1. Len(ring[v]) \in Nat /\ Len(ring[v]) < 2
      BY <2>5
    <3>2. rest \in Seq(Nat \X Nat)
      BY <2>8
    <3>3. Len(rest) < 2
      BY <2>8, <3>1
    <3>4. ring' = [ring EXCEPT ![v] = rest]
      BY <2>2, Zenon
    <3> HIDE DEF rest
    <3> QED
      BY <2>5, <3>2, <3>3, <3>4, Zenon
  <2>10. tail' \in [VM -> Nat] /\ \A x \in VM : tail'[x] <= head[x]
    BY <2>3, <2>5, <2>7
  <2> QED
    BY <2>4, <2>9, <2>10, Zenon DEF Pipes
<1>19. ASSUME NEW v \in VM, ReadEnd(v) PROVE Pipes'
  BY <1>19, Zenon DEF ReadEnd, pVars, pipeVars
<1>20. vars' = vars => Pipes'
  BY Zenon DEF vars, pVars, pipeVars
<1> HIDE DEF Pipes, VM
<1> QED
  BY <1>1, <1>2, <1>3, <1>4, <1>5, <1>6, <1>7, <1>8, <1>9, <1>10, <1>11, <1>12, <1>13,
     <1>14, <1>15, <1>16, <1>17, <1>18, <1>19, <1>20, NextCases, Zenon

\* Every variable has its type.
THEOREM VmTyped == Spec => []TypeOK
<1>1. Init => Stages
  BY InitStages, Zenon
<1>2. Init => Indices
  BY DEF Init, Indices, VM
<1>3. Init => Names
  BY Zenon DEF Init, Names
<1>4. Init => Pipes
  <2> SUFFICES ASSUME Init PROVE Pipes
    BY Zenon
  <2>1. <<>> \in Seq(Nat \X Nat) /\ Len(<<>>) = 0
    OBVIOUS
  <2> QED
    BY <2>1, VmAssumption DEF Init, Pipes, PktWords
<1>5. Stages /\ Names /\ Pipes => TypeOK
  <2> SUFFICES ASSUME Stages, Names, Pipes PROVE TypeOK
    BY Zenon
  <2>1. /\ life \in 0..MaxLives
        /\ \A v \in VM : head[v] \in 0..MaxWords /\ tail[v] \in 0..head[v]
    BY VmAssumption DEF Pipes
  <2>2. \A v \in VM : {cap[v], up[v], kick[v], dbl[v], rx_cb[v], reading[v]} \subseteq BOOLEAN
    BY ZenonT(30) DEF Stages
  <2> QED
    BY <2>1, <2>2, Zenon DEF Names, Pipes, TypeOK
<1> QED
  BY <1>1, <1>2, <1>3, <1>4, <1>5, StagesStep, IndicesStep, NamesStep, PipesStep, PTL
     DEF Spec
-----------------------------------------------------------------------------
(* GhMsgq: no wake-up of a message queue is lost.  caps is its table of     *)
(* capabilities.                                                            *)

CONSTANTS Senders, Receivers, Depth
VARIABLES primary, vm, len, stop, caps, handler, pend, waking, client, pc, stale

M == INSTANCE GhMsgq WITH cap <- caps

\* What the proof needs of the types: the flags and program counters are
\* functions on their domains ...
Shape ==
  /\ stop \in [M!Sides -> BOOLEAN] /\ pend \in [M!Sides -> BOOLEAN]
  /\ waking \in [M!Sides -> BOOLEAN]
  /\ pc \in [M!Threads -> {"idle", "cap", "irq", "test", "asleep", "call"}]

\* ... and the queue holds at most Depth messages.
Counted == len \in Nat /\ len <= Depth

\* A flag that says stop has an interrupt on its way when there is work.
FlagFed(d) == vm = "up" /\ M!Ready(d) /\ stop[d] => pend[d]

\* A thread that sleeps is about to be woken when there is work.
SleeperFed(t) ==
  vm = "up" /\ M!Ready(M!Side(t)) /\ pc[t] = "asleep"
    => pend[M!Side(t)] \/ waking[M!Side(t)]

\* An interrupt that nobody has requested yet stays pending.
Unheard == vm = "up" /\ ~ handler["rx"] /\ len > 0 => pend["rx"]

IInv ==
  /\ Shape /\ Counted /\ Unheard
  /\ \A d \in M!Sides : FlagFed(d)
  /\ \A t \in M!Threads : SleeperFed(t)

\* The rest of the types, which the argument does not need.
Others ==
  /\ primary \in M!Sides /\ vm \in {"none", "up", "exited"} /\ stale \in BOOLEAN
  /\ caps \in [M!Sides -> BOOLEAN] /\ handler \in [M!Sides -> BOOLEAN]
  /\ client \in [M!Sides -> BOOLEAN]

\* One action at a time.
LEMMA MsgqCases ==
  ASSUME [M!Next]_(M!vars), NEW G,
         M!VmCreate => G, M!VmExit => G, M!VmDestroy => G, M!ResetCap => G,
         M!FreeIrq => G,
         \A d \in M!Sides : M!RequestIrq(d) => G,
         \A d \in M!Sides : M!RequestIrqFails(d) => G,
         \A d \in M!Sides : M!SetCap(d) => G,
         \A d \in M!Sides : M!Register(d) \/ M!Unregister(d) => G,
         \A d \in M!Sides : M!Isr(d) => G,
         \A d \in M!Sides : M!IsrWake(d) => G,
         \A t \in M!Threads : M!Begin(t) \/ M!CapSeen(t) => G,
         \A t \in M!Threads : M!IrqCheck(t) => G,
         \A t \in M!Threads : M!Test(t) => G,
         \A t \in M!Threads : M!Interrupted(t) \/ M!Refused(t) => G,
         \A s \in Senders : M!Send(s) => G,
         \A s \in Senders : M!SendFull(s) => G,
         \A r \in Receivers : M!Recv(r) => G,
         \A r \in Receivers : M!RecvEmpty(r) => G,
         UNCHANGED M!vars => G
  PROVE  G
BY DEF M!Next

\* The flags and the program counters keep their types.
LEMMA ShapeStep ==
  ASSUME Shape, [M!Next]_(M!vars)
  PROVE  Shape'
<1> USE DEF Shape, M!Sides, M!Rest, M!Goto, M!hyp, M!Threads
<1>1. M!VmCreate => Shape'  BY DEF M!VmCreate
<1>2. M!VmExit => Shape'  BY DEF M!VmExit, M!NewEntry
<1>3. M!VmDestroy => Shape'  BY DEF M!VmDestroy
<1>4. M!ResetCap => Shape'  BY DEF M!ResetCap
<1>5. M!FreeIrq => Shape'  BY ZenonT(30) DEF M!FreeIrq
<1>6. \A d \in M!Sides : M!RequestIrq(d) => Shape'
  BY DEF M!RequestIrq
<1>7. \A d \in M!Sides : M!RequestIrqFails(d) => Shape'
  BY DEF M!RequestIrqFails, M!NewEntry
<1>8. \A d \in M!Sides : M!SetCap(d) => Shape'
  BY DEF M!SetCap
<1>9. \A d \in M!Sides : M!Register(d) \/ M!Unregister(d) => Shape'
  BY DEF M!Register, M!Unregister
<1>10. \A d \in M!Sides : M!Isr(d) => Shape'
  BY DEF M!Isr
<1>11. \A d \in M!Sides : M!IsrWake(d) => Shape'
  BY DEF M!IsrWake
<1>12. \A t \in M!Threads : M!Begin(t) \/ M!CapSeen(t) => Shape'
  BY DEF M!Begin, M!CapSeen
<1>13. \A t \in M!Threads : M!IrqCheck(t) => Shape'
  BY DEF M!IrqCheck
<1>14. \A t \in M!Threads : M!Test(t) => Shape'
  BY DEF M!Test
<1>15. \A t \in M!Threads : M!Interrupted(t) \/ M!Refused(t) => Shape'
  BY DEF M!Interrupted, M!Refused
<1>16. \A s \in Senders : M!Send(s) => Shape'
  BY DEF M!Send
<1>17. \A s \in Senders : M!SendFull(s) => Shape'
  BY DEF M!SendFull
<1>18. \A r \in Receivers : M!Recv(r) => Shape'
  BY DEF M!Recv
<1>19. \A r \in Receivers : M!RecvEmpty(r) => Shape'
  BY DEF M!RecvEmpty
<1>20. UNCHANGED M!vars => Shape'  BY DEF M!vars
<1> HIDE DEF Shape
<1> QED
  BY <1>1, <1>2, <1>3, <1>4, <1>5, <1>6, <1>7, <1>8, <1>9, <1>10, <1>11, <1>12, <1>13,
     <1>14, <1>15, <1>16, <1>17, <1>18, <1>19, <1>20, MsgqCases, Zenon

\* Nor does a step take the other variables out of their types.
LEMMA OthersStep ==
  ASSUME Others, [M!Next]_(M!vars)
  PROVE  Others'
<1> USE DEF Others, M!Sides, M!Rest, M!Goto, M!hyp, M!Threads
<1>1. M!VmCreate => Others'  BY DEF M!VmCreate
<1>2. M!VmExit => Others'  BY DEF M!VmExit, M!NewEntry
<1>3. M!VmDestroy => Others'  BY DEF M!VmDestroy
<1>4. M!ResetCap => Others'  BY DEF M!ResetCap
<1>5. M!FreeIrq => Others'
  <2>1. M!FreeIrq => handler' \in [M!Sides -> BOOLEAN]
    BY Zenon DEF M!FreeIrq
  <2>2. M!FreeIrq => UNCHANGED <<primary, vm, stale, caps, client>>
    BY Zenon DEF M!FreeIrq
  <2> QED
    BY <2>1, <2>2, Zenon
<1>6. \A d \in M!Sides : M!RequestIrq(d) => Others'
  BY Zenon DEF M!RequestIrq
<1>7. \A d \in M!Sides : M!RequestIrqFails(d) => Others'
  BY Zenon DEF M!RequestIrqFails, M!NewEntry
<1>8. \A d \in M!Sides : M!SetCap(d) => Others'
  BY DEF M!SetCap
<1>9. \A d \in M!Sides : M!Register(d) \/ M!Unregister(d) => Others'
  <2> SUFFICES ASSUME NEW d \in M!Sides, M!Register(d) \/ M!Unregister(d) PROVE Others'
    BY Zenon
  <2>1. client' \in [M!Sides -> BOOLEAN]
    BY Zenon DEF M!Register, M!Unregister
  <2>2. UNCHANGED <<primary, vm, stale, caps, handler>>
    BY Zenon DEF M!Register, M!Unregister
  <2> QED
    BY <2>1, <2>2, Zenon
<1>10. \A d \in M!Sides : M!Isr(d) => Others'
  BY Zenon DEF M!Isr
<1>11. \A d \in M!Sides : M!IsrWake(d) => Others'
  BY Zenon DEF M!IsrWake
<1>12. \A t \in M!Threads : M!Begin(t) \/ M!CapSeen(t) => Others'
  BY Zenon DEF M!Begin, M!CapSeen
<1>13. \A t \in M!Threads : M!IrqCheck(t) => Others'
  BY Zenon DEF M!IrqCheck
<1>14. \A t \in M!Threads : M!Test(t) => Others'
  BY Zenon DEF M!Test
<1>15. \A t \in M!Threads : M!Interrupted(t) \/ M!Refused(t) => Others'
  BY Zenon DEF M!Interrupted, M!Refused
<1>16. \A s \in Senders : M!Send(s) => Others'
  BY Zenon DEF M!Send
<1>17. \A s \in Senders : M!SendFull(s) => Others'
  BY Zenon DEF M!SendFull
<1>18. \A r \in Receivers : M!Recv(r) => Others'
  BY Zenon DEF M!Recv
<1>19. \A r \in Receivers : M!RecvEmpty(r) => Others'
  BY Zenon DEF M!RecvEmpty
<1>20. UNCHANGED M!vars => Others'  BY DEF M!vars
<1> HIDE DEF Others
<1> QED
  BY <1>1, <1>2, <1>3, <1>4, <1>5, <1>6, <1>7, <1>8, <1>9, <1>10, <1>11, <1>12, <1>13,
     <1>14, <1>15, <1>16, <1>17, <1>18, <1>19, <1>20, MsgqCases, Zenon

\* No step takes the queue out of its bounds.
LEMMA CountedStep ==
  ASSUME M!MsgqParams, Counted, [M!Next]_(M!vars)
  PROVE  Counted'
<1> USE DEF M!MsgqParams, Counted, M!Rest, M!hyp, M!Full
<1>1. M!VmCreate => Counted'  BY DEF M!VmCreate
<1>2. M!VmExit => Counted'  BY DEF M!VmExit
<1>3. M!VmDestroy => Counted'  BY DEF M!VmDestroy
<1>4. M!ResetCap => Counted'  BY DEF M!ResetCap
<1>5. M!FreeIrq => Counted'  BY DEF M!FreeIrq
<1>6. \A d \in M!Sides : M!RequestIrq(d) => Counted'
  BY Zenon DEF M!RequestIrq
<1>7. \A d \in M!Sides : M!RequestIrqFails(d) => Counted'
  BY Zenon DEF M!RequestIrqFails
<1>8. \A d \in M!Sides : M!SetCap(d) => Counted'
  BY Zenon DEF M!SetCap
<1>9. \A d \in M!Sides : M!Register(d) \/ M!Unregister(d) => Counted'
  BY Zenon DEF M!Register, M!Unregister
<1>10. \A d \in M!Sides : M!Isr(d) => Counted'
  BY Zenon DEF M!Isr
<1>11. \A d \in M!Sides : M!IsrWake(d) => Counted'
  BY Zenon DEF M!IsrWake
<1>12. \A t \in M!Threads : M!Begin(t) \/ M!CapSeen(t) => Counted'
  BY Zenon DEF M!Begin, M!CapSeen
<1>13. \A t \in M!Threads : M!IrqCheck(t) => Counted'
  BY Zenon DEF M!IrqCheck
<1>14. \A t \in M!Threads : M!Test(t) => Counted'
  BY Zenon DEF M!Test
<1>15. \A t \in M!Threads : M!Interrupted(t) \/ M!Refused(t) => Counted'
  BY Zenon DEF M!Interrupted, M!Refused
<1>16. \A s \in Senders : M!Send(s) => Counted'
  BY DEF M!Send
<1>17. \A s \in Senders : M!SendFull(s) => Counted'
  BY Zenon DEF M!SendFull
<1>18. \A r \in Receivers : M!Recv(r) => Counted'
  BY DEF M!Recv
<1>19. \A r \in Receivers : M!RecvEmpty(r) => Counted'
  BY Zenon DEF M!RecvEmpty
<1>20. UNCHANGED M!vars => Counted'  BY DEF M!vars
<1> HIDE DEF Counted
<1> QED
  BY <1>1, <1>2, <1>3, <1>4, <1>5, <1>6, <1>7, <1>8, <1>9, <1>10, <1>11, <1>12, <1>13,
     <1>14, <1>15, <1>16, <1>17, <1>18, <1>19, <1>20, MsgqCases, Zenon

\* No step but the handler itself takes such an interrupt away.
LEMMA UnheardStep ==
  ASSUME M!MsgqParams, IInv, Shape', [M!Next]_(M!vars)
  PROVE  Unheard'
<1> USE DEF M!MsgqParams, IInv, Shape, Counted, Unheard, M!Sides, M!Threads,
        M!Rest, M!Goto, M!hyp, M!Full, M!NewEntry
<1>1. M!VmCreate => Unheard'  BY DEF M!VmCreate
<1>2. M!VmExit => Unheard'  BY DEF M!VmExit
<1>3. M!VmDestroy => Unheard'  BY DEF M!VmDestroy
<1>4. M!ResetCap => Unheard'  BY DEF M!ResetCap
<1>5. M!FreeIrq => Unheard'  BY DEF M!FreeIrq
<1>6. \A e \in M!Sides : M!RequestIrq(e) => Unheard'
  BY DEF M!RequestIrq
<1>7. \A e \in M!Sides : M!RequestIrqFails(e) => Unheard'
  BY DEF M!RequestIrqFails
<1>8. \A e \in M!Sides : M!SetCap(e) => Unheard'
  BY Zenon DEF M!SetCap
<1>9. \A e \in M!Sides : M!Register(e) \/ M!Unregister(e) => Unheard'
  BY Zenon DEF M!Register, M!Unregister
<1>10. \A e \in M!Sides : M!Isr(e) => Unheard'
  BY DEF M!Isr
<1>11. \A e \in M!Sides : M!IsrWake(e) => Unheard'
  BY Zenon DEF M!IsrWake
<1>12. \A t \in M!Threads : M!Begin(t) \/ M!CapSeen(t) => Unheard'
  BY Zenon DEF M!Begin, M!CapSeen
<1>13. \A t \in M!Threads : M!IrqCheck(t) => Unheard'
  BY Zenon DEF M!IrqCheck
<1>14. \A t \in M!Threads : M!Test(t) => Unheard'
  BY Zenon DEF M!Test
<1>15. \A t \in M!Threads : M!Interrupted(t) \/ M!Refused(t) => Unheard'
  BY Zenon DEF M!Interrupted, M!Refused
<1>16. \A s \in Senders : M!Send(s) => Unheard'
  <2> SUFFICES ASSUME NEW s \in Senders, M!Send(s), vm' = "up", ~ handler'["rx"]
               PROVE  pend'["rx"]
    BY Zenon
  <2>0. vm = "up" /\ ~ handler["rx"]
    BY Zenon DEF M!Send
  <2>1. CASE len = 0
    BY ZenonT(30), <2>1 DEF M!Send
  <2>2. CASE len # 0
    BY <2>0, <2>2 DEF M!Send
  <2> QED
    BY <2>1, <2>2, Zenon
<1>17. \A s \in Senders : M!SendFull(s) => Unheard'
  BY Zenon DEF M!SendFull
<1>18. \A r \in Receivers : M!Recv(r) => Unheard'
  BY Zenon DEF M!Recv
<1>19. \A r \in Receivers : M!RecvEmpty(r) => Unheard'
  BY Zenon DEF M!RecvEmpty
<1>20. UNCHANGED M!vars => Unheard'  BY DEF M!vars
<1> HIDE DEF Unheard
<1> QED
  BY <1>1, <1>2, <1>3, <1>4, <1>5, <1>6, <1>7, <1>8, <1>9, <1>10, <1>11, <1>12, <1>13,
     <1>14, <1>15, <1>16, <1>17, <1>18, <1>19, <1>20, MsgqCases, Zenon

\* The flag of a side stays fed.
LEMMA FlagStep ==
  ASSUME M!MsgqParams, IInv, Shape', NEW d \in M!Sides, [M!Next]_(M!vars)
  PROVE  FlagFed(d)'
<1> USE DEF M!MsgqParams, IInv, Shape, Counted, Unheard, FlagFed,
        SleeperFed, M!Ready, M!Side, M!Sides, M!Threads, M!Rest, M!Goto, M!hyp, M!Full, M!NewEntry
<1>1. M!VmCreate => FlagFed(d)'  BY DEF M!VmCreate
<1>2. M!VmExit => FlagFed(d)'  BY DEF M!VmExit
<1>3. M!VmDestroy => FlagFed(d)'  BY DEF M!VmDestroy
<1>4. M!ResetCap => FlagFed(d)'  BY DEF M!ResetCap
<1>5. M!FreeIrq => FlagFed(d)'  BY DEF M!FreeIrq
<1>6. \A e \in M!Sides : M!RequestIrq(e) => FlagFed(d)'
  BY DEF M!RequestIrq
<1>7. \A e \in M!Sides : M!RequestIrqFails(e) => FlagFed(d)'
  BY DEF M!RequestIrqFails
<1>8. \A e \in M!Sides : M!SetCap(e) => FlagFed(d)'
  BY DEF M!SetCap
<1>9. \A e \in M!Sides : M!Register(e) \/ M!Unregister(e) => FlagFed(d)'
  BY DEF M!Register, M!Unregister
<1>10. \A e \in M!Sides : M!Isr(e) => FlagFed(d)'
  BY DEF M!Isr
<1>11. \A e \in M!Sides : M!IsrWake(e) => FlagFed(d)'
  BY DEF M!IsrWake
<1>12. \A t \in M!Threads : M!Begin(t) \/ M!CapSeen(t) => FlagFed(d)'
  BY DEF M!Begin, M!CapSeen
<1>13. \A t \in M!Threads : M!IrqCheck(t) => FlagFed(d)'
  BY DEF M!IrqCheck
<1>14. \A t \in M!Threads : M!Test(t) => FlagFed(d)'
  BY DEF M!Test
<1>15. \A t \in M!Threads : M!Interrupted(t) \/ M!Refused(t) => FlagFed(d)'
  BY DEF M!Interrupted, M!Refused
<1>16. \A s \in Senders : M!Send(s) => FlagFed(d)'
  BY DEF M!Send
<1>17. \A s \in Senders : M!SendFull(s) => FlagFed(d)'
  BY DEF M!SendFull
<1>18. \A r \in Receivers : M!Recv(r) => FlagFed(d)'
  BY DEF M!Recv
<1>19. \A r \in Receivers : M!RecvEmpty(r) => FlagFed(d)'
  BY DEF M!RecvEmpty
<1>20. UNCHANGED M!vars => FlagFed(d)'  BY DEF M!vars
<1> HIDE DEF FlagFed
<1> QED
  BY <1>1, <1>2, <1>3, <1>4, <1>5, <1>6, <1>7, <1>8, <1>9, <1>10, <1>11, <1>12, <1>13,
     <1>14, <1>15, <1>16, <1>17, <1>18, <1>19, <1>20, MsgqCases, Zenon

\* A thread falls asleep only under a flag that is fed, and stays fed.
LEMMA SleeperStep ==
  ASSUME M!MsgqParams, IInv, Shape', NEW t \in M!Threads, [M!Next]_(M!vars)
  PROVE  SleeperFed(t)'
<1> USE DEF M!MsgqParams, IInv, Shape, Counted, Unheard, FlagFed,
        SleeperFed, M!Ready, M!Side, M!Sides, M!Threads, M!Rest, M!Goto, M!hyp, M!Full, M!NewEntry
<1>1. M!VmCreate => SleeperFed(t)'
  <2> SUFFICES ASSUME M!VmCreate, pc[t] = "asleep" PROVE ~ M!Ready(M!Side(t))'
    BY Zenon DEF M!VmCreate
  <2>1. CASE t \in Senders
    <3>1. stale'
      BY <2>1, Zenon DEF M!VmCreate
    <3> QED
      BY <2>1, <3>1, Zenon
  <2>2. CASE t \notin Senders
    BY <2>2 DEF M!VmCreate
  <2> QED
    BY <2>1, <2>2, Zenon
<1>2. M!VmExit => SleeperFed(t)'  BY DEF M!VmExit
<1>3. M!VmDestroy => SleeperFed(t)'  BY DEF M!VmDestroy
<1>4. M!ResetCap => SleeperFed(t)'  BY DEF M!ResetCap
<1>5. M!FreeIrq => SleeperFed(t)'  BY DEF M!FreeIrq
<1>6. \A d \in M!Sides : M!RequestIrq(d) => SleeperFed(t)'
  BY DEF M!RequestIrq
<1>7. \A d \in M!Sides : M!RequestIrqFails(d) => SleeperFed(t)'
  BY DEF M!RequestIrqFails
<1>8. \A d \in M!Sides : M!SetCap(d) => SleeperFed(t)'
  BY DEF M!SetCap
<1>9. \A d \in M!Sides : M!Register(d) \/ M!Unregister(d) => SleeperFed(t)'
  BY DEF M!Register, M!Unregister
<1>10. \A d \in M!Sides : M!Isr(d) => SleeperFed(t)'
  BY DEF M!Isr
<1>11. \A d \in M!Sides : M!IsrWake(d) => SleeperFed(t)'
  BY DEF M!IsrWake
<1>12. \A u \in M!Threads : M!Begin(u) \/ M!CapSeen(u) => SleeperFed(t)'
  BY DEF M!Begin, M!CapSeen
<1>13. \A u \in M!Threads : M!IrqCheck(u) => SleeperFed(t)'
  BY DEF M!IrqCheck
<1>14. \A u \in M!Threads : M!Test(u) => SleeperFed(t)'
  BY DEF M!Test
<1>15. \A u \in M!Threads : M!Interrupted(u) \/ M!Refused(u) => SleeperFed(t)'
  BY DEF M!Interrupted, M!Refused
<1>16. \A s \in Senders : M!Send(s) => SleeperFed(t)'
  <2> SUFFICES ASSUME NEW s \in Senders, M!Send(s), vm = "up", pc'[t] = "asleep",
                      M!Ready(M!Side(t))'
               PROVE  pend'[M!Side(t)] \/ waking'[M!Side(t)]
    BY Zenon DEF M!Send
  <2>1. pc[t] = "asleep" /\ waking' = waking
    BY Zenon DEF M!Send
  <2>2. CASE t \in Senders
    <3>1. len < Depth /\ len' # Depth
      BY <2>2 DEF M!Send
    <3>2. ~ stale'
      BY <2>2, Zenon
    <3>3. ~ stale
      BY <3>1, <3>2, Zenon DEF M!Send
    <3>4. pend'["tx"] = pend["tx"]
      BY Zenon DEF M!Send
    <3> QED
      BY <2>1, <2>2, <3>1, <3>3, <3>4, Zenon
  <2>3. CASE t \notin Senders
    <3>1. CASE len = 0
      BY ZenonT(30), <2>3, <3>1 DEF M!Send
    <3>2. CASE len # 0
      <4>1. pend["rx"] \/ waking["rx"]
        <5>1. len > 0
          BY <3>2
        <5> QED
          BY <2>1, <2>3, <5>1, Zenon
      <4>2. pend["rx"] => pend'["rx"]
        BY Zenon DEF M!Send
      <4> QED
        BY <2>1, <2>3, <4>1, <4>2, Zenon
    <3> QED
      BY <3>1, <3>2, Zenon
  <2> QED
    BY <2>2, <2>3, Zenon
<1>17. \A s \in Senders : M!SendFull(s) => SleeperFed(t)'
  BY DEF M!SendFull
<1>18. \A r \in Receivers : M!Recv(r) => SleeperFed(t)'
  <2> SUFFICES ASSUME NEW r \in Receivers, M!Recv(r), vm = "up", pc'[t] = "asleep",
                      M!Ready(M!Side(t))'
               PROVE  pend'[M!Side(t)] \/ waking'[M!Side(t)]
    BY Zenon DEF M!Recv
  <2>1. pc[t] = "asleep" /\ waking' = waking /\ stale' = stale
    BY Zenon DEF M!Recv
  <2>2. CASE t \in Senders
    <3>1. CASE M!Full
      BY ZenonT(30), <2>2, <3>1 DEF M!Recv
    <3>2. CASE ~ M!Full
      <4>1. len < Depth
        BY <3>2
      <4>2. pend["tx"] => pend'["tx"]
        BY Zenon DEF M!Recv
      <4>3. ~ stale
        BY <2>1, <2>2, Zenon
      <4> QED
        BY <2>1, <2>2, <4>1, <4>2, <4>3, Zenon
    <3> QED
      BY <3>1, <3>2, Zenon
  <2>3. CASE t \notin Senders
    <3>1. len > 0
      BY Zenon DEF M!Recv
    <3>2. pend'["rx"] = pend["rx"]
      BY Zenon DEF M!Recv
    <3> QED
      BY <2>1, <2>3, <3>1, <3>2, Zenon
  <2> QED
    BY <2>2, <2>3, Zenon
<1>19. \A r \in Receivers : M!RecvEmpty(r) => SleeperFed(t)'
  BY DEF M!RecvEmpty
<1>20. UNCHANGED M!vars => SleeperFed(t)'  BY DEF M!vars
<1> HIDE DEF SleeperFed
<1> QED
  BY <1>1, <1>2, <1>3, <1>4, <1>5, <1>6, <1>7, <1>8, <1>9, <1>10, <1>11, <1>12, <1>13,
     <1>14, <1>15, <1>16, <1>17, <1>18, <1>19, <1>20, MsgqCases, Zenon

\* No wake-up is lost: while the queue lives, a set tx_full or rx_empty that the
\* queue contradicts has an interrupt on its way, and a sleeping gh_msgq_send or
\* gh_msgq_recv is about to be woken.  The senders of a queue that was created anew
\* while their entry said full are excepted until it is full for once.
THEOREM WakeupsCome ==
  ASSUME M!MsgqParams
  PROVE  M!Spec => []M!NoLostWakeup
<1>1. M!Init => IInv
  <2> SUFFICES ASSUME M!Init PROVE IInv
    BY Zenon
  <2>1. Shape
    BY Zenon DEF M!Init, Shape, M!NewEntry
  <2>2. Counted
    BY DEF M!MsgqParams, M!Init, Counted
  <2>3. vm # "up"
    BY Zenon DEF M!Init
  <2> QED
    BY <2>1, <2>2, <2>3, Zenon DEF IInv, Unheard, FlagFed, SleeperFed
<1>2. IInv /\ [M!Next]_(M!vars) => IInv'
  <2> SUFFICES ASSUME IInv, [M!Next]_(M!vars) PROVE IInv'
    BY Zenon
  <2>1. Shape'
    BY ShapeStep, Zenon DEF IInv
  <2>2. Counted'
    BY CountedStep, Zenon DEF IInv
  <2>3. Unheard'
    BY <2>1, UnheardStep, Zenon
  <2>4. \A d \in M!Sides : FlagFed(d)'
    BY <2>1, FlagStep, Zenon
  <2>5. \A t \in M!Threads : SleeperFed(t)'
    BY <2>1, SleeperStep, Zenon
  <2> QED
    BY <2>1, <2>2, <2>3, <2>4, <2>5, Zenon DEF IInv, M!Sides, M!Threads
<1>3. IInv => M!NoLostWakeup
  BY Zenon DEF IInv, FlagFed, SleeperFed, M!NoLostWakeup, M!Of
<1> QED
  BY <1>1, <1>2, <1>3, PTL DEF M!Spec

\* Every variable keeps its type.
THEOREM MsgqTyped ==
  ASSUME M!MsgqParams
  PROVE  M!Spec => []M!TypeOK
<1>1. M!Init => Shape /\ Others /\ Counted
  <2> SUFFICES ASSUME M!Init PROVE Shape /\ Others /\ Counted
    BY Zenon
  <2>1. Shape
    BY Zenon DEF M!Init, Shape, M!NewEntry
  <2>2. Others
    BY Zenon DEF M!Init, Others
  <2>3. Counted
    BY DEF M!MsgqParams, M!Init, Counted
  <2> QED
    BY <2>1, <2>2, <2>3, Zenon
<1>2. Shape /\ Others /\ Counted => M!TypeOK
  <2> SUFFICES ASSUME Shape, Others, Counted PROVE M!TypeOK
    BY Zenon
  <2>1. len \in 0..Depth
    BY DEF M!MsgqParams, Counted
  <2>2. \A f \in {stop, caps, handler, pend, waking, client} : f \in [M!Sides -> BOOLEAN]
    BY Zenon DEF Shape, Others
  <2> QED
    BY <2>1, <2>2, Zenon DEF Shape, Others, M!TypeOK
<1>3. Counted /\ [M!Next]_(M!vars) => Counted'
  BY CountedStep, Zenon
<1> QED
  BY <1>1, <1>2, <1>3, ShapeStep, OthersStep, PTL DEF M!Spec
=============================================================================
