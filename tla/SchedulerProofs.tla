--------------------------- MODULE SchedulerProofs ---------------------------
(***************************************************************************)
(* Theorems about the scheduler, for any number of processes and levels,   *)
(* as long as no id is reused that the kernel still remembers, or nobody   *)
(* is ever killed: the run queues agree with the process table, only READY *)
(* processes execute, and the one of the highest priority is selected.     *)
(*                                                                         *)
(* RunQueuesConsistent is not inductive.  A process that stops being READY *)
(* must have no node, and it is the one that executes (RunningReady); one  *)
(* that is inserted must have none either.  Its id was clean when SPAWN    *)
(* began, maybe the id of a process that has died since with the load      *)
(* suspended (LoadIsFresh); such a process was running, and is not queued  *)
(* while its messages are flushed (VictimIdle).                            *)
(***************************************************************************)
EXTENDS KernelProofs

USE DEF MayEnqueue, PoppedExists, ClearQueued, AwaitsMessage,
        ReleasesOnReceive, ReleasesOnFlush, SetPreemptiveTimer, SetQueued,
        PriorityEnqueue

\* No process of the instance is ever killed.
Immortal ==
  /\ SystemCall \cap {"EXIT", "KILL"} = {}
  /\ Interrupt \cap {"abort", "undefined"} = {}

\* What the theorems assume of the programs.
IdsAreClean == ReuseLeftover = FALSE \/ Immortal

\* An id without a PCB that a load is about to insert has no node.
LoadIsFresh ==
  load.stage = "reading" /\ load.id \notin procs => ~QueuedAnywhere(load.id)

\* A process killed while a load is suspended has no node and gets none.
VictimIdle ==
  cpu = "flush" /\ load # NoLoad => state[victim] = "READY" /\ ~isQueued[victim]

\* During boot nobody is blocked, and only what was started has a node, unless
\* its start has not got that far.
BootReady ==
  cpu = "boot" =>
    /\ \A id \in procs : state[id] = "READY"
    /\ starting \in started \cup {NullId}
    /\ \A p \in Level : \A i \in DOMAIN runq[p] :
         runq[p][i] \in started \ {starting}

\* Without kills no queue is flushed, and every node names a process.
NodesLive ==
  Immortal =>
    /\ cpu # "flush"
    /\ \A p \in Level : \A i \in DOMAIN runq[p] : runq[p][i] \in procs

\* The inductive invariant.
SchedInv ==
  /\ RunQueuesConsistent
  /\ RunningReady
  /\ LoadIsFresh
  /\ VictimIdle
  /\ BootReady
  /\ NodesLive

-----------------------------------------------------------------------------
(* scheduler_enqueue                                                        *)

\* The one node it may add names a READY process that was not flagged.
LEMMA EnqueueAdds ==
  ASSUME TypeOK, NEW id, NEW st, SchedulerEnqueue(id, st),
         NEW p \in Level, NEW i \in DOMAIN runq'[p]
  PROVE  \/ i \in DOMAIN runq[p] /\ runq'[p][i] = runq[p][i]
         \/ /\ runq'[p][i] = id /\ id \in procs /\ st[id] = "READY"
            /\ ~isQueued[id] /\ isQueued'[id]
            /\ p = priority[id] /\ i = Len(runq[p]) + 1
<1>1. CASE MayEnqueue(id, st) /\ p = priority[id]
  <2>1. runq'[p] = Append(runq[p], id) /\ isQueued'[id]
    BY <1>1 DEF SchedulerEnqueue, AppendNode, TypeOK, SchedulerTypeOK
  <2>2. runq[p] \in Seq(Id) /\ id \in Id
    BY <1>1 DEF TypeOK, SchedulerTypeOK
  <2>3. CASE i = Len(runq[p]) + 1
    BY <1>1, <2>1, <2>2, <2>3
  <2>4. CASE i # Len(runq[p]) + 1
    BY <2>1, <2>2, <2>4
  <2> QED BY <2>3, <2>4
<1>2. CASE ~(MayEnqueue(id, st) /\ p = priority[id])
  <2>1. runq'[p] = runq[p]
    BY <1>2 DEF SchedulerEnqueue, AppendNode, TypeOK, SchedulerTypeOK
  <2> QED BY <2>1
<1> QED BY <1>1, <1>2

\* How a handler changes queues and states: scheduler_enqueue of one process
\* at most, after its new state was set, and nobody with a flag stops being
\* READY.
Schedules ==
  /\ UNCHANGED <<procs, priority>>
  /\ (\E id : SchedulerEnqueue(id, state')) \/ UNCHANGED <<isQueued, runq>>
  /\ \A x \in procs : isQueued[x] /\ state[x] = "READY" => state'[x] = "READY"

\* A node that such a step adds or keeps.
LEMMA ScheduledNode ==
  ASSUME TypeOK, Schedules, NEW p \in Level, NEW i \in DOMAIN runq'[p]
  PROVE  \/ i \in DOMAIN runq[p] /\ runq'[p][i] = runq[p][i]
         \/ /\ runq'[p][i] \in procs /\ state'[runq'[p][i]] = "READY"
            /\ ~isQueued[runq'[p][i]] /\ isQueued'[runq'[p][i]]
            /\ p = priority[runq'[p][i]] /\ i = Len(runq[p]) + 1
<1>1. CASE UNCHANGED <<isQueued, runq>>
  BY <1>1
<1>2. ASSUME NEW id, SchedulerEnqueue(id, state')
      PROVE  \/ i \in DOMAIN runq[p] /\ runq'[p][i] = runq[p][i]
             \/ /\ runq'[p][i] \in procs /\ state'[runq'[p][i]] = "READY"
                /\ ~isQueued[runq'[p][i]] /\ isQueued'[runq'[p][i]]
                /\ p = priority[runq'[p][i]] /\ i = Len(runq[p]) + 1
  <2> DEFINE st == state'
  <2>1. SchedulerEnqueue(id, st)
    BY <1>2
  <2> HIDE DEF st
  <2>2. \/ i \in DOMAIN runq[p] /\ runq'[p][i] = runq[p][i]
        \/ /\ runq'[p][i] = id /\ id \in procs /\ st[id] = "READY"
           /\ ~isQueued[id] /\ isQueued'[id]
           /\ p = priority[id] /\ i = Len(runq[p]) + 1
    BY <2>1, EnqueueAdds
  <2> QED BY <2>2 DEF st
<1> QED BY <1>1, <1>2 DEF Schedules

\* Flags that are set stay set.
LEMMA ScheduledFlag ==
  ASSUME TypeOK, Schedules, NEW x \in Id, isQueued[x]
  PROVE  isQueued'[x]
<1>1. ASSUME NEW id, SchedulerEnqueue(id, state') PROVE isQueued'[x]
  <2> DEFINE st == state'
  <2>1. SchedulerEnqueue(id, st)
    BY <1>1
  <2> HIDE DEF st
  <2> QED BY <2>1, EnqueueGrows DEF QueuesGrow
<1> QED BY <1>1 DEF Schedules

\* Such a step keeps the run queues consistent: a process that gets a node had
\* no flag, so it had no node.
LEMMA ScheduleConsistent ==
  ASSUME TypeOK, RunQueuesConsistent, Schedules
  PROVE  RunQueuesConsistent'
<1>1. procs \subseteq Id /\ procs' = procs /\ priority' = priority
  BY DEF Schedules, TypeOK, SchedulerTypeOK
<1> SUFFICES ASSUME NEW p \in Level, NEW q \in Level,
                    NEW i \in DOMAIN runq'[p], NEW j \in DOMAIN runq'[q]
             PROVE  /\ runq'[p][i] = runq'[q][j] => p = q /\ i = j
                    /\ runq'[p][i] \in procs =>
                         /\ isQueued'[runq'[p][i]]
                         /\ state'[runq'[p][i]] = "READY"
                         /\ priority[runq'[p][i]] = p
  BY <1>1 DEF RunQueuesConsistent
<1> DEFINE Old(l, k) == k \in DOMAIN runq[l] /\ runq'[l][k] = runq[l][k]
           New(l, k) ==
             /\ runq'[l][k] \in procs /\ state'[runq'[l][k]] = "READY"
             /\ ~isQueued[runq'[l][k]] /\ isQueued'[runq'[l][k]]
             /\ l = priority[runq'[l][k]] /\ k = Len(runq[l]) + 1
<1>2. (Old(p, i) \/ New(p, i)) /\ (Old(q, j) \/ New(q, j))
  BY ScheduledNode
<1>3. \A l \in Level : \A k \in DOMAIN runq[l] :
        Old(l, k) /\ runq'[l][k] \in procs => isQueued[runq'[l][k]]
  BY DEF RunQueuesConsistent
<1>4. runq'[p][i] = runq'[q][j] => p = q /\ i = j
  <2>1. CASE Old(p, i) /\ Old(q, j)
    <3>1. runq[p][i] = runq[q][j] => p = q /\ i = j
      BY <2>1 DEF RunQueuesConsistent
    <3> QED BY <2>1, <3>1
  <2>2. CASE New(p, i) /\ New(q, j)
    BY <2>2
  <2>3. CASE (Old(p, i) /\ New(q, j)) \/ (New(p, i) /\ Old(q, j))
    BY <1>3, <2>3
  <2> QED BY <1>2, <2>1, <2>2, <2>3
<1>5. runq'[p][i] \in procs =>
        /\ isQueued'[runq'[p][i]]
        /\ state'[runq'[p][i]] = "READY"
        /\ priority[runq'[p][i]] = p
  <2>1. CASE Old(p, i)
    <3>1. runq'[p][i] \in procs =>
            /\ isQueued[runq'[p][i]]
            /\ state[runq'[p][i]] = "READY"
            /\ priority[runq'[p][i]] = p
      BY <2>1 DEF RunQueuesConsistent
    <3> QED BY <1>1, <3>1, ScheduledFlag DEF Schedules
  <2>2. CASE New(p, i)
    BY <2>2
  <2> QED BY <1>2, <2>1, <2>2
<1> QED BY <1>4, <1>5

-----------------------------------------------------------------------------
(* Handlers                                                                 *)

\* Waking a receiver
LEMMA WakeSchedules ==
  ASSUME NEW coid, NEW st, WakeReceiver(coid, st),
         UNCHANGED <<procs, priority>>, DOMAIN st = Id, procs \subseteq Id,
         \A x \in procs : isQueued[x] /\ state[x] = "READY" => st[x] = "READY"
  PROVE  Schedules
<1>1. CASE st[coid] = "BLOCKED_RECEIVING"
  <2>1. /\ state' = [st EXCEPT ![coid] = "READY"]
        /\ SchedulerEnqueue(coid, state')
    BY <1>1 DEF WakeReceiver
  <2> QED BY <2>1 DEF Schedules
<1>2. CASE st[coid] # "BLOCKED_RECEIVING"
  BY <1>2 DEF WakeReceiver, Schedules
<1> QED BY <1>1, <1>2

\* system_send: the sender executes, so it is not queued.
LEMMA SendSchedules ==
  ASSUME TypeOK, RunningReady, NEW coid, NEW waiting \in BOOLEAN,
         SystemSend(coid, waiting)
  PROVE  Schedules
<1> DEFINE st == IF waiting THEN [state EXCEPT ![current] = "BLOCKED_SENDING"]
                            ELSE state
<1>1. DOMAIN st = Id /\ procs \subseteq Id
  BY DEF TypeOK, SchedulerTypeOK
<1>2. \A x \in procs : isQueued[x] /\ state[x] = "READY" => st[x] = "READY"
  BY DEF SystemSend, RunningReady, TypeOK, SchedulerTypeOK
<1>3. WakeReceiver(coid, st) /\ UNCHANGED <<procs, priority>>
  BY DEF SystemSend
<1> HIDE DEF st
<1> QED BY <1>1, <1>2, <1>3, WakeSchedules

\* ipc_kernel_send
LEMMA KernelSendSchedules ==
  ASSUME TypeOK, NEW coid, KernelSend(coid), UNCHANGED <<procs, priority>>
  PROVE  Schedules
<1>1. CASE Accepts(coid, NullId)
  <2>1. DOMAIN state = Id /\ procs \subseteq Id /\ WakeReceiver(coid, state)
    BY <1>1 DEF KernelSend, TypeOK, SchedulerTypeOK
  <2> QED BY <2>1, WakeSchedules
<1>2. CASE ~Accepts(coid, NullId)
  BY <1>2 DEF KernelSend, Schedules
<1> QED BY <1>1, <1>2

\* system_receive with a message: its sender becomes READY, and is queued.
LEMMA ReceiveSchedules ==
  ASSUME TypeOK, NEW p \in Level, ReceiveMessage(p)
  PROVE  Schedules
<1> DEFINE m == Head(msgq[current][p])
           st == IF ReleasesOnReceive(m) /\ m.sender \in procs
                 THEN [state EXCEPT ![m.sender] = "READY"] ELSE state
<1>1. /\ state' = st
      /\ ReleasesOnReceive(m) => SchedulerEnqueue(m.sender, st)
      /\ ~ReleasesOnReceive(m) => UNCHANGED <<isQueued, runq>>
      /\ UNCHANGED <<procs, priority>>
  BY DEF ReceiveMessage
<1>2. \A x \in procs : state[x] = "READY" => st[x] = "READY"
  BY DEF TypeOK, SchedulerTypeOK
<1> HIDE DEF m, st
<1> QED BY <1>1, <1>2 DEF Schedules

\* One round of ipc_flush_msg_queue
LEMMA FlushSchedules ==
  ASSUME TypeOK, NEW id, NEW p \in Level, FlushMessage(id, p)
  PROVE  Schedules
<1> DEFINE s == Head(msgq[id][p]).sender
           st == [state EXCEPT ![s] = "READY"]
<1>1. UNCHANGED <<procs, priority>>
  BY DEF FlushMessage
<1>2. CASE ReleasesOnFlush(s)
  <2>1. state' = st /\ SchedulerEnqueue(s, st)
    BY <1>2 DEF FlushMessage
  <2>2. \A x \in procs : state[x] = "READY" => st[x] = "READY"
    BY DEF TypeOK, SchedulerTypeOK
  <2> HIDE DEF s, st
  <2> QED BY <1>1, <2>1, <2>2 DEF Schedules
<1>3. CASE ~(ReleasesOnFlush(s))
  BY <1>1, <1>3 DEF FlushMessage, Schedules
<1> QED BY <1>2, <1>3

\* Every handler schedules like that.
LEMMA HandlerSchedules ==
  ASSUME TypeOK, RunningReady, HandlerStep
  PROVE  Schedules
<1>u. UNCHANGED <<procs, priority>>
  BY HandlerGrows
<1>2. CASE Send \/ SendDriver
  BY <1>2, SendSchedules DEF Send, SendDriver
<1>3. CASE Receive
  <2>1. CASE ReceiveBlocks
    <3>1. ~isQueued[current] /\ UNCHANGED <<isQueued, runq>>
      BY <2>1 DEF ReceiveBlocks, RunningReady
    <3>2. \A x \in procs : isQueued[x] => state'[x] = state[x]
      BY <2>1, <3>1 DEF ReceiveBlocks, TypeOK, SchedulerTypeOK
    <3> QED BY <1>u, <3>1, <3>2 DEF Schedules
  <2> QED BY <1>3, <2>1, ReceiveSchedules DEF Receive
<1>4. CASE SpawnStep /\ ~SpawnLoaded
  <2>1. CASE SpawnFail
    BY <1>u, <2>1 DEF SpawnFail, Schedules
  <2>2. CASE SpawnFinish
    <3>1. state' = state /\ SchedulerEnqueue(load.id, state)
      BY <2>2 DEF SpawnFinish, ProcessStart
    <3> QED BY <1>u, <3>1 DEF Schedules
  <2> QED BY <1>4, <2>1, <2>2 DEF SpawnStep
<1>5. CASE KillStep /\ ~KillFinish
  BY <1>5, FlushSchedules DEF KillStep, KillFlush
<1>6. CASE TimerIrq \/ UartIrq
  BY <1>6, <1>u, KernelSendSchedules DEF TimerIrq, UartIrq
<1>7. CASE ContextSwitch
  <2>1. /\ state' = state
        /\ SchedulerEnqueue(current, state) \/ UNCHANGED <<isQueued, runq>>
    BY <1>7 DEF ContextSwitch, RequeueCurrent
  <2> QED BY <1>u, <2>1 DEF Schedules
<1>8. CASE \/ BootYield \/ Yield \/ NoReschedule \/ Register \/ Spawn \/ Exit
           \/ Kill \/ GpioIrq \/ Abort \/ UndefinedInstruction \/ TestDone
           \/ Stopped
  <2>1. UNCHANGED <<state, isQueued, runq>>
    BY <1>8 DEF BootYield, Yield, NoReschedule, Register, DriverRegister,
                Spawn, SpawnBegin, Exit, Kill, KillBegin, GpioIrq, Abort,
                UndefinedInstruction, TestDone, Stopped, vars, schedVars
  <2> QED BY <1>u, <2>1 DEF Schedules
<1> QED BY <1>2, <1>3, <1>4, <1>5, <1>6, <1>7, <1>8 DEF HandlerStep

\* A handler that goes back to a process goes back to the one that executed,
\* and changed nothing but what a message to a driver changes.
LEMMA HandlerReturns ==
  ASSUME HandlerStep, cpu' \in {"user", "loading"}
  PROVE  /\ cpu \in {"user", "loading"} /\ current' = current
         /\ UNCHANGED <<state, isQueued>> \/ \E coid : KernelSend(coid)
<1>1. CASE TimerIrq \/ UartIrq
  BY <1>1 DEF TimerIrq, UartIrq, IrqsEnabled
<1>2. CASE NoReschedule \/ Register \/ Spawn
  BY <1>2 DEF NoReschedule, Register, DriverRegister, Spawn, SpawnBegin,
              schedVars, Calls
<1>3. CASE Send \/ SendDriver \/ Receive \/ Yield \/ BootYield \/ GpioIrq
             \/ TestDone \/ ContextSwitch
  BY <1>3 DEF Send, SendDriver, SystemSend, Receive, ReceiveBlocks,
              ReceiveMessage, Yield, BootYield, GpioIrq, TestDone,
              ContextSwitch, RequeueCurrent
<1>4. CASE Stopped
  BY <1>4 DEF Stopped, vars, schedVars
<1>5. CASE SpawnStep /\ ~SpawnLoaded
  BY <1>5 DEF SpawnStep, SpawnFail, SpawnFinish
<1>6. CASE Exit \/ Kill \/ Abort \/ UndefinedInstruction
  BY <1>6 DEF Exit, Kill, Abort, UndefinedInstruction, KillBegin
<1>7. CASE KillStep /\ ~KillFinish
  BY <1>7 DEF KillStep, KillFlush, FlushMessage
<1> QED BY <1>1, <1>2, <1>3, <1>4, <1>5, <1>6, <1>7 DEF HandlerStep

\* A message to a driver does not disturb a process that is READY.
LEMMA KernelSendSpares ==
  ASSUME TypeOK, NEW coid, KernelSend(coid), NEW x \in Id, state[x] = "READY"
  PROVE  state'[x] = "READY" /\ isQueued'[x] = isQueued[x]
<1>1. CASE Accepts(coid, NullId) /\ state[coid] = "BLOCKED_RECEIVING"
  <2>1. /\ state' = [state EXCEPT ![coid] = "READY"]
        /\ SchedulerEnqueue(coid, [state EXCEPT ![coid] = "READY"])
        /\ coid # x
    BY <1>1 DEF KernelSend, WakeReceiver
  <2>2. state'[x] = "READY"
    BY <2>1 DEF TypeOK, SchedulerTypeOK
  <2>3. \/ isQueued' = [isQueued EXCEPT ![coid] = TRUE]
        \/ isQueued' = isQueued
    BY <2>1 DEF SchedulerEnqueue
  <2>4. isQueued'[x] = isQueued[x]
    BY <2>1, <2>3 DEF TypeOK, SchedulerTypeOK
  <2> QED BY <2>2, <2>4
<1>2. CASE ~(Accepts(coid, NullId) /\ state[coid] = "BLOCKED_RECEIVING")
  <2>1. state' = state /\ isQueued' = isQueued
    BY <1>2 DEF KernelSend, WakeReceiver
  <2> QED BY <2>1
<1> QED BY <1>1, <1>2

\* After a handler only a READY process executes.
LEMMA HandlerRunningReady ==
  ASSUME TypeOK, RunningReady, HandlerStep
  PROVE  RunningReady'
<1> SUFFICES ASSUME cpu' \in {"user", "loading"}
             PROVE  /\ current' \in procs' /\ state'[current'] = "READY"
                    /\ ~isQueued'[current']
  BY DEF RunningReady
<1>1. /\ current' = current
      /\ UNCHANGED <<state, isQueued>> \/ \E coid : KernelSend(coid)
      /\ current \in procs /\ state[current] = "READY" /\ ~isQueued[current]
  BY HandlerReturns DEF RunningReady
<1>2. procs' = procs /\ current \in Id
  BY <1>1, HandlerGrows DEF TypeOK, SchedulerTypeOK
<1>3. state'[current] = "READY" /\ ~isQueued'[current]
  BY <1>1, <1>2, KernelSendSpares
<1> QED BY <1>1, <1>2, <1>3

\* Handlers give no node to an id without a PCB.
LEMMA ScheduleSparesDead ==
  ASSUME TypeOK, Schedules, NEW id \in Id \ procs, QueuedAnywhere(id)'
  PROVE  QueuedAnywhere(id)
<1>1. PICK p \in Level : \E i \in DOMAIN runq'[p] : runq'[p][i] = id
  BY DEF QueuedAnywhere
<1>2. PICK i \in DOMAIN runq'[p] : runq'[p][i] = id
  BY <1>1
<1>3. i \in DOMAIN runq[p] /\ runq'[p][i] = runq[p][i]
  BY <1>2, ScheduledNode
<1> QED BY <1>2, <1>3 DEF QueuedAnywhere

\* What a handler does to the record of the load: it stays, goes, or a SPAWN
\* begins.
LEMMA HandlerLoad ==
  ASSUME HandlerStep
  PROVE  \/ load' = load
         \/ load' = NoLoad
         \/ \E id \in Id, pr \in SpawnPriority : SpawnBegin(id, pr)
<1>1. CASE TimerIrq \/ UartIrq \/ GpioIrq \/ ContextSwitch \/ TestDone \/ Stopped
             \/ BootYield
  BY <1>1 DEF TimerIrq, UartIrq, GpioIrq, ContextSwitch, TestDone, Stopped,
              BootYield, vars, processVars
<1>2. CASE Send \/ SendDriver \/ Receive \/ Yield \/ NoReschedule \/ Register
             \/ Exit \/ Kill
  BY <1>2 DEF Send, SendDriver, Receive, Yield, NoReschedule, Register, Exit,
              Kill, EnterSwi
<1>3. CASE Spawn
  BY <1>3 DEF Spawn
<1>4. CASE SpawnStep /\ ~SpawnLoaded
  BY <1>4 DEF SpawnStep, SpawnFail, SpawnFinish
<1>5. CASE (KillStep /\ ~KillFinish) \/ Abort \/ UndefinedInstruction
  BY <1>5 DEF KillStep, KillFlush, processVars, Abort, UndefinedInstruction
<1> QED BY <1>1, <1>2, <1>3, <1>4, <1>5 DEF HandlerStep

\* A load stays fresh through every handler.
LEMMA HandlerLoadIsFresh ==
  ASSUME TypeOK, IdsAreClean, SchedInv, HandlerStep
  PROVE  LoadIsFresh'
<1>s. Schedules /\ procs' = procs
  BY HandlerSchedules DEF SchedInv, Schedules
<1>1. CASE load' = load
  <2> SUFFICES ASSUME load.stage = "reading", load.id \notin procs,
                      QueuedAnywhere(load.id)'
               PROVE  FALSE
    BY <1>1, <1>s DEF LoadIsFresh, QueuedAnywhere
  <2>1. load.id \in Id
    BY LoadType DEF Load
  <2> DEFINE id == load.id
  <2>2. QueuedAnywhere(id)'
    BY <1>1
  <2>3. ~QueuedAnywhere(id)
    BY DEF SchedInv, LoadIsFresh
  <2> QED BY <2>1, <2>2, <2>3, <1>s, ScheduleSparesDead, <1>1
<1>2. CASE load' = NoLoad
  BY <1>2 DEF LoadIsFresh, NoLoad
<1>3. ASSUME NEW id \in Id, NEW pr \in SpawnPriority, SpawnBegin(id, pr)
      PROVE  LoadIsFresh'
  <2>1. load'.id = id /\ runq' = runq /\ MayUse(id)
    BY <1>3 DEF SpawnBegin
  <2>2. id \notin procs => ~QueuedAnywhere(id)
    <3>1. CASE ReuseLeftover = FALSE
      BY <2>1, <3>1 DEF MayUse, Leftover
    <3>2. CASE Immortal
      BY <3>2 DEF SchedInv, NodesLive, QueuedAnywhere
    <3> QED BY <3>1, <3>2 DEF IdsAreClean
  <2> QED BY <1>s, <2>1, <2>2 DEF LoadIsFresh, QueuedAnywhere
<1> QED BY <1>1, <1>2, <1>3, HandlerLoad

\* A handler that kills starts with the process that executes, unless the call
\* it makes gives up the load; one that flushes spares the victim.
LEMMA HandlerVictimIdle ==
  ASSUME TypeOK, ExecutingLive, SchedInv, HandlerStep
  PROVE  VictimIdle'
<1> SUFFICES ASSUME cpu' = "flush", load' # NoLoad
             PROVE  state'[victim'] = "READY" /\ ~isQueued'[victim']
  BY DEF VictimIdle
<1>1. CASE Abort \/ UndefinedInstruction
  <2>1. /\ victim' = current /\ UNCHANGED <<state, isQueued>>
        /\ cpu = "user"
    BY <1>1 DEF Abort, UndefinedInstruction, KillBegin
  <2> QED BY <2>1 DEF SchedInv, RunningReady
<1>2. CASE KillStep /\ ~KillFinish
  <2>1. PICK p \in Level : KillFlush(p)
    BY <1>2 DEF KillStep
  <2>2. cpu = "flush" /\ load # NoLoad /\ victim' = victim
    BY <2>1 DEF KillFlush, processVars
  <2>3. /\ state[victim] = "READY" /\ ~isQueued[victim]
        /\ victim \in Id
    BY <2>2 DEF SchedInv, VictimIdle, ExecutingLive, TypeOK, SchedulerTypeOK
  <2> DEFINE s == Head(msgq[victim][p]).sender
  <2>4. CASE ReleasesOnFlush(s)
    <3>1. /\ state' = [state EXCEPT ![s] = "READY"]
          /\ \/ isQueued' = [isQueued EXCEPT ![s] = TRUE]
             \/ isQueued' = isQueued
      BY <2>1, <2>4 DEF KillFlush, FlushMessage, SchedulerEnqueue
    <3>2. s # victim
      BY <2>3, <2>4
    <3> HIDE DEF s
    <3> QED BY <2>2, <2>3, <3>1, <3>2 DEF TypeOK, SchedulerTypeOK
  <2>5. CASE ~(ReleasesOnFlush(s))
    BY <2>1, <2>2, <2>3, <2>5 DEF KillFlush, FlushMessage
  <2> QED BY <2>4, <2>5
<1>3. CASE Send \/ SendDriver \/ Receive \/ Yield \/ NoReschedule \/ Register
             \/ Exit \/ Kill
  BY <1>3 DEF Send, SendDriver, Receive, Yield, NoReschedule, Register, Exit,
              Kill, EnterSwi
<1>4. CASE TimerIrq \/ UartIrq \/ GpioIrq \/ ContextSwitch \/ TestDone \/ Stopped
             \/ BootYield
  BY <1>4 DEF TimerIrq, UartIrq, IrqsEnabled, GpioIrq, ContextSwitch,
              RequeueCurrent, TestDone, Stopped, BootYield, vars, schedVars
<1>5. CASE Spawn \/ (SpawnStep /\ ~SpawnLoaded)
  BY <1>5 DEF Spawn, SpawnBegin, SpawnStep, SpawnFail, SpawnFinish
<1> QED BY <1>1, <1>2, <1>3, <1>4, <1>5 DEF HandlerStep

\* During boot a message to a driver wakes nobody: nobody is blocked yet.
LEMMA HandlerBootReady ==
  ASSUME TypeOK, SchedInv, HandlerStep
  PROVE  BootReady'
<1> SUFFICES ASSUME cpu' = "boot" PROVE BootReady'
  BY DEF BootReady
<1>1. CASE TimerIrq \/ UartIrq
  <2>1. cpu = "boot" /\ UNCHANGED <<procs, started, starting>>
    BY <1>1 DEF TimerIrq, UartIrq
  <2>2. PICK coid : KernelSend(coid)
    BY <1>1 DEF TimerIrq, UartIrq
  <2>3. UNCHANGED <<state, runq>>
    BY <2>1, <2>2 DEF SchedInv, BootReady, KernelSend, Accepts, WakeReceiver
  <2> QED BY <2>1, <2>3 DEF SchedInv, BootReady
<1>3. CASE \/ Send \/ SendDriver \/ Receive \/ Yield \/ NoReschedule \/ Register
           \/ Spawn \/ (SpawnStep /\ ~SpawnLoaded) \/ Exit \/ Kill \/ BootYield
  BY <1>3 DEF Send, SendDriver, SystemSend, Receive, ReceiveBlocks,
              ReceiveMessage, Yield, NoReschedule, Register, DriverRegister,
              schedVars, Spawn, SpawnBegin, SpawnStep, SpawnFail, SpawnFinish,
              Exit, Kill, KillBegin, BootYield, Calls
<1>4. CASE (KillStep /\ ~KillFinish) \/ GpioIrq \/ Abort \/ UndefinedInstruction
             \/ ContextSwitch \/ TestDone \/ Stopped
  BY <1>4 DEF KillStep, KillFlush, FlushMessage, GpioIrq, Abort, KillBegin,
              UndefinedInstruction, ContextSwitch, RequeueCurrent, TestDone,
              Stopped, vars, schedVars
<1> QED BY <1>1, <1>3, <1>4 DEF HandlerStep

\* Without kills nothing is ever flushed, and nodes are given to processes.
LEMMA HandlerNodesLive ==
  ASSUME TypeOK, SchedInv, HandlerStep
  PROVE  NodesLive'
<1> SUFFICES ASSUME Immortal PROVE NodesLive'
  BY DEF NodesLive
<1>1. Schedules /\ procs' = procs
  BY HandlerSchedules DEF SchedInv, Schedules
<1>2. \A p \in Level : \A i \in DOMAIN runq'[p] : runq'[p][i] \in procs'
  BY <1>1, ScheduledNode DEF SchedInv, NodesLive
<1>3. cpu # "flush" /\ ~Exit /\ ~Kill /\ ~Abort /\ ~UndefinedInstruction
  BY DEF SchedInv, NodesLive, Immortal, Exit, Kill, Abort,
         UndefinedInstruction, Calls
<1>4. cpu' # "flush"
  <2>1. CASE \/ Send \/ SendDriver \/ Receive \/ Yield \/ NoReschedule \/ Register
             \/ Spawn \/ (SpawnStep /\ ~SpawnLoaded) \/ BootYield
    BY <1>3, <2>1 DEF Send, SendDriver, SystemSend, Receive, ReceiveBlocks,
              ReceiveMessage, Yield, NoReschedule, Register, DriverRegister,
              schedVars, Spawn, SpawnBegin, SpawnStep, SpawnFail, SpawnFinish,
              BootYield
  <2>2. CASE \/ (KillStep /\ ~KillFinish) \/ GpioIrq \/ TimerIrq \/ UartIrq
             \/ ContextSwitch \/ TestDone \/ Stopped
    BY <1>3, <2>2 DEF KillStep, KillFlush, GpioIrq, TimerIrq, UartIrq,
              ContextSwitch, RequeueCurrent, TestDone, Stopped, vars,
              schedVars
  <2> QED BY <1>3, <2>1, <2>2 DEF HandlerStep
<1> QED BY <1>2, <1>4 DEF NodesLive

\* Together: handlers keep the inductive invariant.
LEMMA HandlerKeepsSchedInv ==
  ASSUME TypeOK, ExecutingLive, IdsAreClean, SchedInv, HandlerStep
  PROVE  SchedInv'
<1>1. RunQueuesConsistent'
  BY HandlerSchedules, ScheduleConsistent DEF SchedInv
<1>2. RunningReady'
  BY HandlerRunningReady DEF SchedInv
<1> QED BY <1>1, <1>2, HandlerLoadIsFresh, HandlerVictimIdle, HandlerBootReady,
           HandlerNodesLive DEF SchedInv

-----------------------------------------------------------------------------
(* The process table and the pop loop                                       *)

\* A process is inserted under an id that no node names.
LEMMA InsertConsistent ==
  ASSUME TypeOK, RunQueuesConsistent, NEW id \in Id \ procs, NEW pr,
         ~QueuedAnywhere(id), PcbInsert(id, pr), UNCHANGED runq
  PROVE  RunQueuesConsistent'
<1>1. \A p \in Level : \A i \in DOMAIN runq[p] : runq[p][i] # id
  BY DEF QueuedAnywhere
<1>2. \A x \in procs' : x # id =>
        /\ x \in procs /\ isQueued'[x] = isQueued[x]
        /\ state'[x] = state[x] /\ priority'[x] = priority[x]
  BY DEF PcbInsert, TypeOK, SchedulerTypeOK
<1> QED BY <1>1, <1>2 DEF RunQueuesConsistent

\* The steps of process_start in boot: the node that the last one adds names
\* the process that is being started, and no other node does.
LEMMA BootStartsKeepSchedInv ==
  ASSUME TypeOK, SchedInv, BootStarts
  PROVE  SchedInv'
<1>1. /\ cpu = "boot" /\ cpu' = "boot"
      /\ UNCHANGED <<procs, state, priority, load>>
  BY DEF BootStarts, BootStart, BootFlag, BootLink, processVars
<1>2. RunningReady' /\ VictimIdle'
  BY <1>1 DEF RunningReady, VictimIdle
<1>3. CASE (\E id \in Id : BootStart(id)) \/ BootFlag
  <2>1. /\ runq' = runq
        /\ \A x \in procs : isQueued[x] => isQueued'[x]
    BY <1>3 DEF BootStart, BootFlag, TypeOK, SchedulerTypeOK
  <2>2. RunQueuesConsistent'
    BY <1>1, <2>1 DEF SchedInv, RunQueuesConsistent
  <2>3. LoadIsFresh' /\ NodesLive'
    BY <1>1, <2>1 DEF SchedInv, LoadIsFresh, QueuedAnywhere, NodesLive
  <2>4. BootReady'
    <3>1. ASSUME NEW id \in Id, BootStart(id) PROVE BootReady'
      <4>1. /\ starting = NullId /\ starting' = id /\ id \notin started
            /\ started' = started \cup {id}
        BY <3>1 DEF BootStart
      <4> QED BY <1>1, <2>1, <4>1 DEF SchedInv, BootReady
    <3>2. ASSUME BootFlag PROVE BootReady'
      <4>1. UNCHANGED <<starting, started>>
        BY <3>2 DEF BootFlag
      <4> QED BY <1>1, <2>1, <4>1 DEF SchedInv, BootReady
    <3> QED BY <1>3, <3>1, <3>2
  <2> QED BY <1>2, <2>2, <2>3, <2>4 DEF SchedInv
<1>4. CASE BootLink
  <2>1. PICK id \in Id : id = starting
    BY <1>4 DEF BootLink, TypeOK, SchedulerTypeOK
  <2>2. /\ id \in procs /\ id \in started /\ state[id] = "READY"
        /\ \A p \in Level : \A i \in DOMAIN runq[p] :
             runq[p][i] \in started /\ runq[p][i] # id
    BY <1>1, <2>1, IdAssumption
    DEF SchedInv, BootReady, TypeOK, SchedulerTypeOK
  <2>3. /\ isQueued[id] /\ isQueued' = isQueued /\ PriorityEnqueue(id)
        /\ starting' = NullId /\ started' = started
    BY <1>4, <2>1 DEF BootLink
  <2>4. ASSUME NEW p \in Level, NEW i \in DOMAIN runq'[p]
        PROVE  \/ i \in DOMAIN runq[p] /\ runq'[p][i] = runq[p][i]
               \/ runq'[p][i] = id /\ p = priority[id] /\ i = Len(runq[p]) + 1
    <3>1. runq[p] \in Seq(Id)
      BY DEF TypeOK, SchedulerTypeOK
    <3>2. CASE p = priority[id]
      <4>1. runq'[p] = Append(runq[p], id)
        BY <2>3, <3>2 DEF PriorityEnqueue, AppendNode, TypeOK, SchedulerTypeOK
      <4> QED BY <3>1, <3>2, <4>1
    <3>3. CASE p # priority[id]
      BY <2>3, <3>3 DEF PriorityEnqueue, AppendNode, TypeOK, SchedulerTypeOK
    <3> QED BY <3>2, <3>3
  <2>5. RunQueuesConsistent'
    <3> SUFFICES ASSUME NEW p \in Level, NEW q \in Level,
                        NEW i \in DOMAIN runq'[p], NEW j \in DOMAIN runq'[q]
                 PROVE  /\ runq'[p][i] = runq'[q][j] => p = q /\ i = j
                        /\ runq'[p][i] \in procs =>
                             /\ isQueued[runq'[p][i]]
                             /\ state[runq'[p][i]] = "READY"
                             /\ priority[runq'[p][i]] = p
      BY <1>1, <2>3 DEF RunQueuesConsistent
    <3>1. CASE i \in DOMAIN runq[p] /\ runq'[p][i] = runq[p][i]
      <4>1. \/ j \in DOMAIN runq[q] /\ runq'[q][j] = runq[q][j]
            \/ runq'[q][j] = id
        BY <2>4
      <4>2. runq[p][i] # id
        BY <2>2, <3>1
      <4> QED BY <3>1, <4>1, <4>2 DEF SchedInv, RunQueuesConsistent
    <3>2. CASE /\ runq'[p][i] = id /\ p = priority[id]
               /\ i = Len(runq[p]) + 1
      <4>1. \/ j \in DOMAIN runq[q] /\ runq'[q][j] = runq[q][j]
            \/ q = priority[id] /\ j = Len(runq[q]) + 1
        BY <2>4
      <4>2. \A k \in DOMAIN runq[q] : runq[q][k] # id
        BY <2>2
      <4> QED BY <2>2, <2>3, <3>2, <4>1, <4>2
    <3> QED BY <2>4, <3>1, <3>2
  <2>6. \A x \in Id : QueuedAnywhere(x)' => QueuedAnywhere(x) \/ x = id
    BY <2>4 DEF QueuedAnywhere
  <2>7. LoadIsFresh'
    <3>1. load.stage = "reading" => load.id \in Id
      BY LoadType DEF Load, NoLoad
    <3>2. ASSUME load.stage = "reading", load.id \notin procs
          PROVE  ~QueuedAnywhere(load.id)'
      <4>1. PICK x \in Id : x = load.id
        BY <3>1, <3>2
      <4>2. ~QueuedAnywhere(x)
        BY <3>2, <4>1 DEF SchedInv, LoadIsFresh
      <4>3. ~QueuedAnywhere(x)'
        BY <2>2, <2>6, <3>2, <4>1, <4>2
      <4> QED BY <1>1, <4>1, <4>3 DEF QueuedAnywhere
    <3> QED BY <1>1, <3>2 DEF LoadIsFresh, QueuedAnywhere
  <2>8. NodesLive' /\ BootReady'
    <3>1. \A p \in Level : \A i \in DOMAIN runq'[p] : runq'[p][i] \in started
      BY <2>2, <2>4
    <3>2. started \subseteq procs /\ NullId \notin started
      BY IdAssumption DEF TypeOK, SchedulerTypeOK
    <3>3. NodesLive'
      BY <1>1, <3>1, <3>2 DEF NodesLive
    <3>4. BootReady'
      BY <1>1, <2>3, <3>1, <3>2 DEF SchedInv, BootReady
    <3> QED BY <3>3, <3>4
  <2> QED BY <1>2, <2>5, <2>7, <2>8 DEF SchedInv
<1> QED BY <1>3, <1>4 DEF BootStarts

\* kernel_main loads before it starts anything.
LEMMA BootLoadKeepsSchedInv ==
  ASSUME TypeOK, SchedInv, NEW id \in Id, NEW pr \in SpawnPriority,
         BootLoad(id, pr)
  PROVE  SchedInv'
<1>1. /\ cpu = "boot" /\ cpu' = "boot"
      /\ UNCHANGED <<runq, started, starting>>
  BY DEF BootLoad
<1>2. /\ \A x \in procs : state[x] = "READY"
      /\ \A p \in Level : \A i \in DOMAIN runq[p] : FALSE
  BY DEF BootLoad, SchedInv, BootReady
<1>3. ~QueuedAnywhere(id) /\ RunQueuesConsistent'
  <2>1. ~QueuedAnywhere(id)
    BY <1>2 DEF QueuedAnywhere
  <2> QED BY <2>1, InsertConsistent DEF SchedInv, BootLoad
<1>4. BootReady'
  BY <1>1, <1>2
  DEF SchedInv, BootReady, BootLoad, PcbInsert, TypeOK, SchedulerTypeOK
<1>5. LoadIsFresh' /\ NodesLive'
  BY <1>1, <1>2 DEF LoadIsFresh, NodesLive, QueuedAnywhere
<1> QED BY <1>1, <1>3, <1>4, <1>5 DEF SchedInv, RunningReady, VictimIdle

\* SPAWN's process is inserted while its id is still fresh.
LEMMA LoadedKeepsSchedInv ==
  ASSUME TypeOK, SchedInv, SpawnLoaded
  PROVE  SchedInv'
<1>1. /\ cpu = "loading" /\ load.stage = "reading" /\ load.id \notin procs
      /\ UNCHANGED <<runq, current, cpu, victim>>
      /\ PcbInsert(load.id, load.priority)
      /\ load' = [load EXCEPT !.stage = "loaded"]
  BY DEF SpawnLoaded
<1>2. load \in Load /\ load.id \in Id
  BY <1>1, LoadType DEF Load
<1>3. RunQueuesConsistent'
  BY <1>1, <1>2, InsertConsistent DEF SchedInv, LoadIsFresh
<1>4. RunningReady'
  BY <1>1, <1>2 DEF SchedInv, RunningReady, PcbInsert, TypeOK, SchedulerTypeOK
<1>5. LoadIsFresh'
  <2>1. load'.stage = "loaded"
    BY <1>1, <1>2 DEF Load
  <2> QED BY <2>1 DEF LoadIsFresh
<1>6. NodesLive'
  BY <1>1 DEF SchedInv, NodesLive, PcbInsert
<1> QED BY <1>1, <1>3, <1>4, <1>5, <1>6 DEF SchedInv, VictimIdle, BootReady

\* The victim of a kill has no node if a load is suspended: its id is fresh.
LEMMA KillKeepsSchedInv ==
  ASSUME TypeOK, ExecutingLive, SchedInv, KillFinish
  PROVE  SchedInv'
<1>1. /\ cpu = "flush" /\ cpu' = "switch" /\ UNCHANGED <<runq, load>>
      /\ PcbRemove(victim) /\ victim \in procs
  BY DEF KillFinish, ExecutingLive
<1>2. \A x \in procs' :
        /\ x \in procs /\ isQueued'[x] = isQueued[x]
        /\ state'[x] = state[x] /\ priority'[x] = priority[x]
  BY <1>1 DEF PcbRemove, TypeOK, SchedulerTypeOK
<1>3. RunQueuesConsistent'
  BY <1>1, <1>2 DEF SchedInv, RunQueuesConsistent
<1>4. LoadIsFresh'
  <2> SUFFICES ASSUME load.stage = "reading", load.id \notin procs'
               PROVE  ~QueuedAnywhere(load.id)
    BY <1>1 DEF LoadIsFresh, QueuedAnywhere
  <2>1. CASE load.id \notin procs
    BY <2>1 DEF SchedInv, LoadIsFresh
  <2>2. CASE load.id \in procs
    <3>1. load.id = victim /\ load # NoLoad
      BY <1>1, <2>2 DEF PcbRemove, NoLoad
    <3>2. ~isQueued[victim]
      BY <1>1, <3>1 DEF SchedInv, VictimIdle
    <3> QED BY <1>1, <3>1, <3>2 DEF SchedInv, RunQueuesConsistent, QueuedAnywhere
  <2> QED BY <2>1, <2>2
<1>5. NodesLive'
  BY <1>1 DEF SchedInv, NodesLive
<1> QED BY <1>1, <1>3, <1>4, <1>5
        DEF SchedInv, RunningReady, VictimIdle, BootReady

\* The nodes that are left after a pop, and where they were.
LEMMA PoppedNode ==
  ASSUME TypeOK, NEW p \in Level, IsTopLevel(p), PriorityPop(p),
         NEW q \in Level, NEW i \in DOMAIN runq'[q]
  PROVE  LET k == IF q = p THEN i + 1 ELSE i IN
         k \in DOMAIN runq[q] /\ runq'[q][i] = runq[q][k]
<1>1. runq[q] \in Seq(Id) /\ runq[p] # <<>>
  BY DEF IsTopLevel, TypeOK, SchedulerTypeOK
<1>2. runq'[q] = IF q = p THEN Tail(runq[q]) ELSE runq[q]
  BY DEF PriorityPop, TypeOK, SchedulerTypeOK
<1> QED BY <1>1, <1>2

\* The head is a node, and no later node names the same process.
LEMMA PoppedHead ==
  ASSUME TypeOK, RunQueuesConsistent, NEW p \in Level, IsTopLevel(p),
         PriorityPop(p)
  PROVE  /\ 1 \in DOMAIN runq[p] /\ Head(runq[p]) = runq[p][1]
         /\ \A q \in Level : \A i \in DOMAIN runq'[q] :
              runq'[q][i] # Head(runq[p])
<1>1. runq[p] \in Seq(Id) /\ runq[p] # <<>>
  BY DEF IsTopLevel, TypeOK, SchedulerTypeOK
<1>2. 1 \in DOMAIN runq[p] /\ Head(runq[p]) = runq[p][1]
  BY <1>1
<1>3. ASSUME NEW q \in Level, NEW i \in DOMAIN runq'[q],
             runq'[q][i] = runq[p][1]
      PROVE  FALSE
  <2> DEFINE k == IF q = p THEN i + 1 ELSE i
  <2>1. k \in DOMAIN runq[q] /\ runq'[q][i] = runq[q][k]
    BY PoppedNode
  <2>2. q = p /\ k = 1
    <3> HIDE DEF k
    <3> QED BY <1>2, <1>3, <2>1 DEF RunQueuesConsistent
  <2>3. runq'[p] \in Seq(Id)
    BY <1>1 DEF PriorityPop, TypeOK, SchedulerTypeOK
  <2>4. i \in 1 .. Len(runq'[p])
    BY <2>2, <2>3
  <2> QED BY <2>2, <2>4, <2>3
<1> QED BY <1>2, <1>3

\* A pop keeps the nodes of the others, and clears the flag of the process it
\* selects, which is READY because its node says so.
LEMMA PopKeepsSchedInv ==
  ASSUME TypeOK, SchedInv, Pop
  PROVE  SchedInv'
<1>1. CASE PopNothing
  BY <1>1 DEF Pop, PopNothing, schedVars, processVars, SchedInv,
              RunQueuesConsistent, RunningReady, LoadIsFresh, QueuedAnywhere,
              VictimIdle, BootReady, NodesLive
<1>2. ASSUME NEW p \in Level,
             SkipDead(p) \/ Dispatch(p, Resume(Head(runq[p])))
      PROVE  SchedInv'
  <2>1. /\ cpu = "pick" /\ cpu' \in {"pick", "undefined", "loading", "user"}
        /\ IsTopLevel(p) /\ PriorityPop(p)
        /\ UNCHANGED <<procs, state, priority, load>>
    BY <1>2 DEF Pop, SkipDead, Dispatch, Resume, processVars
  <2>2. \A x \in procs : x # Head(runq[p]) => isQueued'[x] = isQueued[x]
    BY <1>2 DEF SkipDead, Dispatch, TypeOK, SchedulerTypeOK
  <2>3. ASSUME NEW q \in Level, NEW i \in DOMAIN runq'[q]
        PROVE  LET k == IF q = p THEN i + 1 ELSE i IN
               k \in DOMAIN runq[q] /\ runq'[q][i] = runq[q][k]
    BY <2>1, PoppedNode
  <2>4. \A q \in Level : \A i \in DOMAIN runq'[q] :
          runq'[q][i] # Head(runq[p])
    BY <2>1, PoppedHead DEF SchedInv
  <2>5. RunQueuesConsistent'
    <3> SUFFICES ASSUME NEW q \in Level, NEW r \in Level,
                        NEW i \in DOMAIN runq'[q], NEW j \in DOMAIN runq'[r]
                 PROVE  /\ runq'[q][i] = runq'[r][j] => q = r /\ i = j
                        /\ runq'[q][i] \in procs =>
                             /\ isQueued'[runq'[q][i]]
                             /\ state[runq'[q][i]] = "READY"
                             /\ priority[runq'[q][i]] = q
      BY <2>1 DEF RunQueuesConsistent
    <3> DEFINE k == IF q = p THEN i + 1 ELSE i
               l == IF r = p THEN j + 1 ELSE j
    <3>1. k \in DOMAIN runq[q] /\ runq'[q][i] = runq[q][k]
      BY <2>3
    <3>2. l \in DOMAIN runq[r] /\ runq'[r][j] = runq[r][l]
      BY <2>3
    <3>3. /\ runq[q][k] = runq[r][l] => q = r /\ k = l
          /\ runq[q][k] \in procs => /\ isQueued[runq[q][k]]
                                     /\ state[runq[q][k]] = "READY"
                                     /\ priority[runq[q][k]] = q
      <4> HIDE DEF k, l
      <4> QED BY <3>1, <3>2 DEF SchedInv, RunQueuesConsistent
    <3>4. q = r /\ k = l => i = j
      <4>1. i \in Int /\ j \in Int
        <5>1. runq'[q] \in Seq(Id) /\ runq'[r] \in Seq(Id)
          BY <2>1, SeqOps DEF PriorityPop, IsTopLevel, TypeOK, SchedulerTypeOK
        <5> QED BY <5>1
      <4> QED BY <4>1
    <3>5. runq'[q][i] \in procs => isQueued'[runq'[q][i]] = isQueued[runq'[q][i]]
      BY <2>2, <2>4
    <3> HIDE DEF k, l
    <3> QED BY <3>1, <3>2, <3>3, <3>4, <3>5
  <2>6. RunningReady'
    <3>1. CASE SkipDead(p)
      BY <3>1 DEF SkipDead, RunningReady
    <3>2. CASE Dispatch(p, Resume(Head(runq[p])))
      <4>1. Head(runq[p]) \in procs /\ state[Head(runq[p])] = "READY"
        BY <2>1, <3>2, PoppedHead DEF Dispatch, SchedInv, RunQueuesConsistent
      <4>2. current' = Head(runq[p]) /\ ~isQueued'[Head(runq[p])]
        BY <3>2, <4>1 DEF Dispatch, TypeOK, SchedulerTypeOK
      <4> QED BY <2>1, <4>1, <4>2 DEF RunningReady
    <3> QED BY <1>2, <3>1, <3>2
  <2>7. \A x : QueuedAnywhere(x)' => QueuedAnywhere(x)
    BY <2>3 DEF QueuedAnywhere
  <2>8. LoadIsFresh'
    BY <2>1, <2>7 DEF SchedInv, LoadIsFresh
  <2>9. NodesLive'
    <3>1. \A q \in Level : \A i \in DOMAIN runq'[q] :
            \E k \in DOMAIN runq[q] : runq'[q][i] = runq[q][k]
      BY <2>3
    <3> QED BY <2>1, <3>1 DEF SchedInv, NodesLive
  <2> QED BY <2>1, <2>5, <2>6, <2>8, <2>9 DEF SchedInv, VictimIdle, BootReady
<1> QED BY <1>1, <1>2 DEF Pop

-----------------------------------------------------------------------------
(* The theorems                                                             *)

\* A step that changes nothing keeps the invariant.
LEMMA SchedInvStutter ==
  ASSUME SchedInv, UNCHANGED vars
  PROVE  SchedInv'
  BY DEF vars, schedVars, processVars, SchedInv, RunQueuesConsistent,
         RunningReady, LoadIsFresh, QueuedAnywhere, VictimIdle, BootReady,
         NodesLive

\* SchedInv is an invariant.
LEMMA SchedInvHolds ==
  ASSUME IdsAreClean
  PROVE  Spec => [](TypeOK /\ ExecutingLive /\ SchedInv)
<1>1. Init => SchedInv
  BY DEF Init, SchedulerInit, ProcessInit, NoLoad, SchedInv,
         RunQueuesConsistent, RunningReady, LoadIsFresh, VictimIdle,
         BootReady, NodesLive
<1>2. TypeOK /\ ExecutingLive /\ SchedInv /\ [Next]_vars => SchedInv'
  BY NextCases, HandlerKeepsSchedInv, BootStartsKeepSchedInv,
     BootLoadKeepsSchedInv,
     LoadedKeepsSchedInv, KillKeepsSchedInv, PopKeepsSchedInv, SchedInvStutter
<1> QED BY <1>1, <1>2, TypeCorrect, PTL DEF Spec

(***************************************************************************)
(* The run queues and the process table agree, whatever is killed, spawned *)
(* and woken up in which order: a process has at most one node, and the    *)
(* node of an existing process is at its level while it is READY.          *)
(***************************************************************************)
THEOREM QueuesAreConsistent ==
  ASSUME IdsAreClean
  PROVE  Spec => []RunQueuesConsistent
<1>1. SchedInv => RunQueuesConsistent
  BY DEF SchedInv
<1> QED BY <1>1, SchedInvHolds, PTL

(***************************************************************************)
(* Only a process that exists and is READY ever executes: no blocked or    *)
(* killed process is resumed.                                              *)
(***************************************************************************)
THEOREM OnlyReadyRuns ==
  ASSUME IdsAreClean
  PROVE  Spec => []RunningReady
<1>1. SchedInv => RunningReady
  BY DEF SchedInv
<1> QED BY <1>1, SchedInvHolds, PTL

\* The node popped is at the highest level that has one, every READY process
\* but none other has one, and at its own level.
LEMMA DispatchesHighest ==
  ASSUME TypeOK, RunQueuesConsistent, NoLostProcess, Next,
         cpu = "pick", cpu' # "pick"
  PROVE  \A id \in started' \ {starting} :
           state'[id] = "READY" /\ priority'[id] \in Level =>
             priority'[id] <= priority'[current']
<1>1. ~HandlerStep /\ ~BootStarts /\ ~SpawnLoaded /\ ~KillFinish
      /\ ~\E id \in Id, pr \in SpawnPriority : BootLoad(id, pr)
  <2>1. ~BootStarts /\ ~BootYield /\ ~TimerIrq /\ ~UartIrq
        /\ ~GpioIrq /\ ~Abort /\ ~UndefinedInstruction /\ ~TestDone /\ ~Stopped
        /\ ~ContextSwitch /\ ~KillStep /\ ~SpawnStep
    BY DEF BootStarts, BootStart, BootFlag, BootLink, BootYield, TimerIrq,
           UartIrq, IrqsEnabled, GpioIrq, Abort, UndefinedInstruction,
           TestDone, Stopped, ContextSwitch, RequeueCurrent, KillStep,
           KillFlush, KillFinish, SpawnStep, SpawnFail, SpawnLoaded,
           SpawnFinish
  <2>2. ~Send /\ ~SendDriver /\ ~Receive /\ ~Yield /\ ~NoReschedule /\ ~Register
        /\ ~Spawn /\ ~Exit /\ ~Kill
    BY DEF Send, SendDriver, Receive, Yield, NoReschedule, Register, Spawn,
           Exit, Kill, Calls
  <2> QED BY <2>1, <2>2
          DEF HandlerStep, SpawnLoaded, KillFinish, BootLoad
<1>2. PICK p \in Level : Dispatch(p, Resume(Head(runq[p])))
  BY <1>1, NextCases DEF Pop, SkipDead, PopNothing, schedVars
<1>3. /\ IsTopLevel(p) /\ current' = Head(runq[p]) /\ Head(runq[p]) \in procs
      /\ UNCHANGED <<state, priority, started, starting>>
  BY <1>2 DEF Dispatch
<1>4. runq[p] \in Seq(Id) /\ runq[p] # <<>>
  BY <1>3 DEF IsTopLevel, TypeOK, SchedulerTypeOK
<1>5. 1 \in DOMAIN runq[p] /\ Head(runq[p]) = runq[p][1]
  BY <1>4
<1>6. priority[Head(runq[p])] = p
  BY <1>3, <1>5 DEF RunQueuesConsistent
<1> SUFFICES ASSUME NEW id \in started \ {starting}, state[id] = "READY",
                    priority[id] \in Level
             PROVE  priority[id] <= p
  BY <1>3, <1>6
<1>7. PICK q \in Level : \E i \in DOMAIN runq[q] : runq[q][i] = id
  BY DEF NoLostProcess, QueuedAnywhere
<1>8. priority[id] = q
  BY <1>7 DEF RunQueuesConsistent, TypeOK, SchedulerTypeOK
<1>9. runq[q] # <<>>
  BY <1>7
<1> QED BY <1>3, <1>8, <1>9 DEF IsTopLevel, Level

(***************************************************************************)
(* reschedule selects a process of the highest priority there is, whatever *)
(* became of the processes and their nodes before.                         *)
(***************************************************************************)
THEOREM HighestIsSelected ==
  ASSUME IdsAreClean
  PROVE  Spec => HighestPriority
<1> DEFINE I == TypeOK /\ RunQueuesConsistent /\ NoLostProcess
           Selects == cpu = "pick" /\ cpu' # "pick" =>
                        \A id \in started' \ {starting} :
                          state'[id] = "READY" /\ priority'[id] \in Level =>
                            priority'[id] <= priority'[current']
<1>1. I /\ [Next]_vars => [Selects]_vars
  BY DispatchesHighest
<1>2. Spec => []I
  BY TypeCorrect, NoProcessIsLost, QueuesAreConsistent, PTL
<1> HIDE DEF I
<1>3. Spec => [][Selects]_vars
  BY <1>1, <1>2, PTL DEF Spec
<1> QED BY <1>3 DEF HighestPriority

=============================================================================
