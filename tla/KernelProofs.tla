---------------------------- MODULE KernelProofs ----------------------------
(***************************************************************************)
(* Theorems about Kernel, for every value of its constants.                *)
(***************************************************************************)
EXTENDS Kernel, TLAPS

\* The one-line conditions and effects of the code are expanded everywhere.
USE DEF MayEnqueue, PoppedExists, ClearQueued, AwaitsMessage,
        ReleasesOnReceive, ReleasesOnFlush, SetPreemptiveTimer, SetQueued,
        PriorityEnqueue, AppendNode

-----------------------------------------------------------------------------
(* Facts about sequences of run-queue nodes, messages and driver entries.   *)

\* The three ways the code changes a list keep its elements' type.
LEMMA SeqOps ==
  ASSUME NEW S, NEW s \in Seq(S)
  PROVE  /\ \A x \in S : Append(s, x) \in Seq(S)
         /\ s # <<>> => Head(s) \in S /\ Tail(s) \in Seq(S)
         /\ \A t \in Seq(S) : s \o t \in Seq(S)
         /\ \A m, n \in Int : 1 <= m /\ n <= Len(s) => SubSeq(s, m, n) \in Seq(S)
  OBVIOUS

-----------------------------------------------------------------------------
(* Type correctness.                                                        *)

\* Initially every variable is in its type.
LEMMA TypeInit == Init => TypeOK
<1> SUFFICES ASSUME Init PROVE TypeOK
  OBVIOUS
<1>1. SchedulerTypeOK
  BY DEF Init, SchedulerInit, SchedulerTypeOK, ProcessState, Phase
<1>2. IpcTypeOK
  BY DEF Init, IpcInit, IpcTypeOK, EmptyQueue
<1>3. DriversTypeOK
  BY DEF Init, DriversInit, DriversTypeOK
<1>4. ProcessTypeOK
  BY DEF Init, ProcessInit, ProcessTypeOK
<1>5. test \in {"off", "armed", "timing"}
  BY DEF Init
<1> QED BY <1>1, <1>2, <1>3, <1>4, <1>5 DEF TypeOK

\* scheduler_enqueue keeps the types of the flags and the run queues.
LEMMA SchedulerEnqueueType ==
  ASSUME SchedulerTypeOK, NEW id, NEW st, SchedulerEnqueue(id, st)
  PROVE  isQueued' \in [Id -> BOOLEAN] /\ runq' \in [Level -> Seq(Id)]
<1>1. CASE MayEnqueue(id, st)
  <2>1. id \in Id
    BY <1>1 DEF SchedulerTypeOK
  <2>2. isQueued' \in [Id -> BOOLEAN]
    BY <1>1 DEF SchedulerTypeOK, SchedulerEnqueue
  <2>3. \A p \in Level : Append(runq[p], id) \in Seq(Id)
    BY <2>1, SeqOps DEF SchedulerTypeOK
  <2>4. runq' \in [Level -> Seq(Id)]
    BY <1>1, <2>3 DEF SchedulerTypeOK, SchedulerEnqueue
  <2> QED BY <2>2, <2>4
<1>2. CASE ~(MayEnqueue(id, st))
  BY <1>2 DEF SchedulerTypeOK, SchedulerEnqueue
<1> QED BY <1>1, <1>2

\* So does waking a receiver, for the process states as well.
LEMMA WakeReceiverType ==
  ASSUME SchedulerTypeOK, NEW coid \in Id, NEW st \in [Id -> ProcessState],
         WakeReceiver(coid, st)
  PROVE  /\ state' \in [Id -> ProcessState]
         /\ isQueued' \in [Id -> BOOLEAN]
         /\ runq' \in [Level -> Seq(Id)]
<1>1. CASE st[coid] = "BLOCKED_RECEIVING"
  <2>1. state' \in [Id -> ProcessState]
    BY <1>1 DEF WakeReceiver, ProcessState
  <2>2. SchedulerEnqueue(coid, [st EXCEPT ![coid] = "READY"])
    BY <1>1 DEF WakeReceiver
  <2> QED BY <2>1, <2>2, SchedulerEnqueueType
<1>2. CASE st[coid] # "BLOCKED_RECEIVING"
  BY <1>2 DEF WakeReceiver, SchedulerTypeOK
<1> QED BY <1>1, <1>2

\* An accepted message lands in a queue that exists.
LEMMA MsgEnqueueType ==
  ASSUME SchedulerTypeOK, IpcTypeOK, NEW coid, NEW sender \in Id \cup {NullId},
         NEW waiting \in BOOLEAN, Accepts(coid, sender),
         MsgEnqueue(coid, sender, waiting)
  PROVE  msgq' \in [Id -> [Level -> Seq(Message)]]
<1> DEFINE l == MessageLevel(sender)
           m == [sender |-> sender, waiting |-> waiting]
<1>1. coid \in Id /\ l \in Level /\ m \in Message
  BY DEF Accepts, SchedulerTypeOK, Message
<1>2. Append(msgq[coid][l], m) \in Seq(Message)
  BY <1>1, SeqOps DEF IpcTypeOK
<1>3. msgq' = [msgq EXCEPT ![coid][l] = Append(msgq[coid][l], m)]
  BY <1>1 DEF MsgEnqueue, IpcTypeOK
<1> HIDE DEF l, m
<1> QED BY <1>1, <1>2, <1>3 DEF IpcTypeOK

\* Taking a message off a queue
LEMMA MsgPopType ==
  ASSUME IpcTypeOK, NEW id \in Id, NEW p \in Level, IsTopMessage(id, p),
         msgq' = [msgq EXCEPT ![id][p] = Tail(@)]
  PROVE  /\ msgq' \in [Id -> [Level -> Seq(Message)]]
         /\ Head(msgq[id][p]) \in Message
<1>1. Tail(msgq[id][p]) \in Seq(Message) /\ Head(msgq[id][p]) \in Message
  BY SeqOps DEF IpcTypeOK, IsTopMessage
<1> QED BY <1>1 DEF IpcTypeOK

\* system_send keeps the types of the scheduler's and ipc.c's state.
LEMMA SystemSendType ==
  ASSUME TypeOK, NEW coid \in Id, NEW waiting \in BOOLEAN,
         SystemSend(coid, waiting)
  PROVE  SchedulerTypeOK' /\ IpcTypeOK'
<1> DEFINE st == IF waiting THEN [state EXCEPT ![current] = "BLOCKED_SENDING"]
                            ELSE state
<1>1. st \in [Id -> ProcessState]
  BY DEF TypeOK, SchedulerTypeOK, ProcessState
<1>2. WakeReceiver(coid, st)
  BY DEF SystemSend
<1> HIDE DEF st
<1>3. /\ state' \in [Id -> ProcessState]
      /\ isQueued' \in [Id -> BOOLEAN]
      /\ runq' \in [Level -> Seq(Id)]
  BY <1>1, <1>2, WakeReceiverType DEF TypeOK
<1>4. msgq' \in [Id -> [Level -> Seq(Message)]]
  BY MsgEnqueueType DEF TypeOK, SystemSend, SchedulerTypeOK
<1> QED BY <1>3, <1>4
        DEF SystemSend, TypeOK, SchedulerTypeOK, IpcTypeOK, Phase

\* ipc_kernel_send does, whether or not there is a driver to send to.
LEMMA KernelSendType ==
  ASSUME TypeOK, NEW coid, KernelSend(coid)
  PROVE  /\ state' \in [Id -> ProcessState]
         /\ isQueued' \in [Id -> BOOLEAN]
         /\ runq' \in [Level -> Seq(Id)]
         /\ msgq' \in [Id -> [Level -> Seq(Message)]]
<1>1. CASE Accepts(coid, NullId)
  <2>1. coid \in Id
    BY <1>1 DEF Accepts, TypeOK, SchedulerTypeOK
  <2>2. /\ state' \in [Id -> ProcessState]
        /\ isQueued' \in [Id -> BOOLEAN]
        /\ runq' \in [Level -> Seq(Id)]
    BY <1>1, <2>1, WakeReceiverType DEF KernelSend, TypeOK, SchedulerTypeOK
  <2>3. msgq' \in [Id -> [Level -> Seq(Message)]]
    BY <1>1, <2>1, MsgEnqueueType DEF KernelSend, TypeOK
  <2> QED BY <2>2, <2>3
<1>2. CASE ~Accepts(coid, NullId)
  BY <1>2 DEF KernelSend, TypeOK, SchedulerTypeOK, IpcTypeOK
<1> QED BY <1>1, <1>2

\* system_receive with a message waiting does.
LEMMA ReceiveMessageType ==
  ASSUME TypeOK, ExecutingLive, NEW p \in Level, ReceiveMessage(p)
  PROVE  SchedulerTypeOK' /\ IpcTypeOK'
<1> DEFINE m == Head(msgq[current][p])
           st == IF ReleasesOnReceive(m) /\ m.sender \in procs
                 THEN [state EXCEPT ![m.sender] = "READY"] ELSE state
<1>1. current \in Id
  BY DEF ReceiveMessage, ExecutingLive, TypeOK, SchedulerTypeOK
<1>2. msgq' \in [Id -> [Level -> Seq(Message)]] /\ m \in Message
  BY <1>1, MsgPopType DEF ReceiveMessage, TypeOK
<1>3. /\ state' = st
      /\ IF ReleasesOnReceive(m) THEN SchedulerEnqueue(m.sender, st)
                      ELSE UNCHANGED <<isQueued, runq>>
      /\ vectorsIntact' = (vectorsIntact /\ (ReleasesOnReceive(m) => m.sender \in procs))
  BY DEF ReceiveMessage
<1>4. state' \in [Id -> ProcessState]
  BY <1>3 DEF TypeOK, SchedulerTypeOK, ProcessState
<1>5. isQueued' \in [Id -> BOOLEAN] /\ runq' \in [Level -> Seq(Id)]
  <2> HIDE DEF m, st
  <2>1. CASE ReleasesOnReceive(m)
    BY <1>3, <2>1, SchedulerEnqueueType DEF TypeOK
  <2>2. CASE ~ReleasesOnReceive(m)
    BY <1>3, <2>2 DEF TypeOK, SchedulerTypeOK
  <2> QED BY <2>1, <2>2
<1>6. vectorsIntact' \in BOOLEAN
  BY <1>3
<1> QED BY <1>2, <1>4, <1>5, <1>6
        DEF ReceiveMessage, TypeOK, SchedulerTypeOK, IpcTypeOK, Phase

\* One round of ipc_flush_msg_queue does.
LEMMA FlushMessageType ==
  ASSUME TypeOK, NEW id \in Id, NEW p \in Level, FlushMessage(id, p)
  PROVE  SchedulerTypeOK' /\ IpcTypeOK'
<1> DEFINE s == Head(msgq[id][p]).sender
<1>1. msgq' \in [Id -> [Level -> Seq(Message)]]
  BY MsgPopType DEF FlushMessage, TypeOK
<1>2. /\ state' \in [Id -> ProcessState]
      /\ isQueued' \in [Id -> BOOLEAN]
      /\ runq' \in [Level -> Seq(Id)]
  <2>1. CASE ReleasesOnFlush(s)
    <3>1. /\ state' = [state EXCEPT ![s] = "READY"]
          /\ SchedulerEnqueue(s, [state EXCEPT ![s] = "READY"])
      BY <2>1 DEF FlushMessage
    <3> HIDE DEF s
    <3> QED BY <3>1, SchedulerEnqueueType
            DEF TypeOK, SchedulerTypeOK, ProcessState
  <2>2. CASE ~(ReleasesOnFlush(s))
    BY <2>2 DEF FlushMessage, TypeOK, SchedulerTypeOK
  <2> QED BY <2>1, <2>2
<1> QED BY <1>1, <1>2
        DEF FlushMessage, TypeOK, SchedulerTypeOK, IpcTypeOK

\* driver_remove leaves a registry.
LEMMA DriverRemoveType ==
  ASSUME DriversTypeOK, NEW id, DriverRemove(id)
  PROVE  DriversTypeOK'
<1>1. CASE \E i \in DOMAIN osDrivers :
              /\ osDrivers' = SubSeq(osDrivers, 1, i - 1)
                                \o SubSeq(osDrivers, i + 1, Len(osDrivers))
              /\ UNCHANGED irqDriver
  <2>1. PICK i \in DOMAIN osDrivers :
              /\ osDrivers' = SubSeq(osDrivers, 1, i - 1)
                                \o SubSeq(osDrivers, i + 1, Len(osDrivers))
              /\ UNCHANGED irqDriver
    BY <1>1
  <2>2. osDrivers \in Seq(Driver) /\ i \in 1 .. Len(osDrivers)
    BY DEF DriversTypeOK
  <2>3. /\ SubSeq(osDrivers, 1, i - 1) \in Seq(Driver)
        /\ SubSeq(osDrivers, i + 1, Len(osDrivers)) \in Seq(Driver)
    BY <2>2, SeqOps
  <2>4. osDrivers' \in Seq(Driver)
    BY <2>1, <2>3, SeqOps
  <2> QED BY <2>1, <2>4 DEF DriversTypeOK
<1>2. CASE UNCHANGED driverVars
  BY <1>2 DEF driverVars, DriversTypeOK
<1> QED BY <1>1, <1>2 DEF DriverRemove

\* process_kill of a process that exists or not keeps the types.
LEMMA KillBeginType ==
  ASSUME TypeOK, NEW id \in Id, KillBegin(id)
  PROVE  /\ SchedulerTypeOK' /\ IpcTypeOK' /\ DriversTypeOK'
         /\ preempt' \in BOOLEAN
         /\ victim' \in Id \cup {NullId}
<1>1. cpu' \in Phase /\ victim' \in Id \cup {NullId}
  BY DEF KillBegin, TypeOK, ProcessTypeOK, Phase
<1> QED BY <1>1 DEF KillBegin, TypeOK, SchedulerTypeOK, IpcTypeOK, ipcVars,
                    DriversTypeOK, driverVars, ProcessTypeOK

\* The record of the SPAWN in progress, and what entering a call makes of it.
LEMMA LoadType ==
  ASSUME TypeOK
  PROVE  /\ load # NoLoad => load \in Load
         /\ load.stage \in {"reading", "loaded"} => load \in Load
         /\ OverwriteFrames => lost' \subseteq Id \cup {NullId}
         /\ NoLoad \in Load \cup {NoLoad}
  BY DEF TypeOK, ProcessTypeOK, Load, NoLoad, OverwriteFrames

\* No system call but SPAWN leaves anything but these to its own action.
LEMMA CallType ==
  ASSUME TypeOK, SchedulerTypeOK', IpcTypeOK', DriversTypeOK', EnterSwi,
         UNCHANGED test, preempt' \in BOOLEAN, victim' \in Id \cup {NullId}
  PROVE  TypeOK'
<1>1. lost' \subseteq Id \cup {NullId} /\ load' \in Load \cup {NoLoad}
  BY LoadType DEF EnterSwi
<1> QED BY <1>1 DEF TypeOK, ProcessTypeOK

\* process_start as boot calls it, line by line
BootStarts == (\E id \in Id : BootStart(id)) \/ BootFlag \/ BootLink

\* The steps of process_start in boot keep the scheduler's types.
LEMMA BootStartType ==
  ASSUME SchedulerTypeOK, NEW id \in Id, BootStart(id)
  PROVE  SchedulerTypeOK'
<1>1. /\ procs' = procs
      /\ state' = state
      /\ priority' = priority
      /\ isQueued' = isQueued
      /\ runq' = runq
      /\ current' = current
      /\ cpu' = cpu
      /\ starting' = id
      /\ started' = started \cup {id}
      /\ id \in procs
  BY DEF BootStart
<1>2. started' \subseteq procs'
  BY <1>1 DEF SchedulerTypeOK
<1>3. starting' \in Id \cup {NullId}
  BY <1>1
<1> QED BY <1>1, <1>2, <1>3 DEF SchedulerTypeOK

LEMMA BootLinkType ==
  ASSUME SchedulerTypeOK, BootLink
  PROVE  SchedulerTypeOK'
<1>1. PICK id \in Id : id = starting
  BY DEF BootLink, SchedulerTypeOK
<1>2. /\ procs' = procs
      /\ state' = state
      /\ priority' = priority
      /\ isQueued' = isQueued
      /\ current' = current
      /\ cpu' = cpu
      /\ started' = started
      /\ starting' = NullId
      /\ PriorityEnqueue(id)
  BY <1>1 DEF BootLink
<1>3. ASSUME NEW p \in Level PROVE Append(runq[p], id) \in Seq(Id)
  <2>1. runq[p] \in Seq(Id)
    BY DEF SchedulerTypeOK
  <2> QED BY <2>1
<1>4. runq \in [Level -> Seq(Id)]
  BY DEF SchedulerTypeOK
<1>5. runq' \in [Level -> Seq(Id)]
  BY <1>2, <1>3, <1>4 DEF PriorityEnqueue, AppendNode
<1> QED BY <1>2, <1>5 DEF SchedulerTypeOK

\* No action of the kernel takes a variable out of its type.
LEMMA TypeStep ==
  ASSUME TypeOK, ExecutingLive, Next
  PROVE  TypeOK'
<1>c. cpu \in {"user", "loading", "flush"} => current \in Id
  BY DEF ExecutingLive, TypeOK, SchedulerTypeOK
<1>1. ASSUME NEW id \in Id, NEW pr \in SpawnPriority, BootLoad(id, pr)
      PROVE  TypeOK'
  BY <1>1, SpawnPriorityAssumption
  DEF BootLoad, PcbInsert, TypeOK, SchedulerTypeOK, IpcTypeOK, ipcVars,
      DriversTypeOK, driverVars, ProcessTypeOK, processVars, ProcessState
<1>2. CASE BootStarts
  <2>s. SchedulerTypeOK
    BY DEF TypeOK
  <2>1. ASSUME NEW id \in Id, BootStart(id) PROVE SchedulerTypeOK'
    BY <2>1, <2>s, BootStartType
  <2>2. ASSUME BootFlag PROVE SchedulerTypeOK'
    BY <2>2, <2>s DEF BootFlag, SchedulerTypeOK
  <2>3. ASSUME BootLink PROVE SchedulerTypeOK'
    BY <2>3, <2>s, BootLinkType
  <2>4. SchedulerTypeOK'
    BY <1>2, <2>1, <2>2, <2>3 DEF BootStarts
  <2> QED BY <1>2, <2>4
          DEF BootStarts, BootStart, BootFlag, BootLink, TypeOK, IpcTypeOK,
              ipcVars, DriversTypeOK, driverVars, ProcessTypeOK, processVars
<1>3. CASE BootYield
  BY <1>3 DEF BootYield, TypeOK, SchedulerTypeOK, Phase, IpcTypeOK, ipcVars,
              DriversTypeOK, driverVars, ProcessTypeOK
<1>4. CASE Send
  <2>1. PICK coid \in Id, waiting \in BOOLEAN : SystemSend(coid, waiting)
    BY <1>4 DEF Send
  <2>2. SchedulerTypeOK' /\ IpcTypeOK'
    BY <2>1, SystemSendType
  <2> QED BY <1>4, <2>2, CallType
          DEF Send, TypeOK, DriversTypeOK, driverVars, ProcessTypeOK
<1>5. CASE SendDriver
  <2>1. PICK coid \in Id, waiting \in BOOLEAN : SystemSend(coid, waiting)
    BY <1>5 DEF SendDriver
  <2>2. SchedulerTypeOK' /\ IpcTypeOK'
    BY <2>1, SystemSendType
  <2> QED BY <1>5, <2>2, CallType
          DEF SendDriver, TypeOK, DriversTypeOK, driverVars, ProcessTypeOK
<1>6. CASE Receive
  <2>1. CASE ReceiveBlocks
    <3>1. SchedulerTypeOK' /\ IpcTypeOK'
      BY <2>1 DEF ReceiveBlocks, TypeOK, SchedulerTypeOK, ProcessState, Phase,
                  IpcTypeOK
    <3> QED BY <1>6, <3>1, CallType
            DEF Receive, TypeOK, DriversTypeOK, driverVars, ProcessTypeOK
  <2>2. CASE \E p \in Level : ReceiveMessage(p)
    <3>1. SchedulerTypeOK' /\ IpcTypeOK'
      BY <2>2, ReceiveMessageType
    <3> QED BY <1>6, <3>1, CallType
            DEF Receive, TypeOK, DriversTypeOK, driverVars, ProcessTypeOK
  <2> QED BY <1>6, <2>1, <2>2 DEF Receive
<1>7. CASE Yield
  <2>1. SchedulerTypeOK' /\ IpcTypeOK'
    BY <1>7 DEF Yield, TypeOK, SchedulerTypeOK, Phase, IpcTypeOK, ipcVars
  <2> QED BY <1>7, <2>1, CallType
          DEF Yield, TypeOK, DriversTypeOK, driverVars, ProcessTypeOK
<1>8. CASE NoReschedule
  <2>1. SchedulerTypeOK' /\ IpcTypeOK'
    BY <1>8 DEF NoReschedule, TypeOK, SchedulerTypeOK, schedVars, IpcTypeOK,
                ipcVars
  <2> QED BY <1>8, <2>1, CallType
          DEF NoReschedule, TypeOK, DriversTypeOK, driverVars, ProcessTypeOK
<1>9. CASE Register
  <2>1. PICK name \in Name : DriverRegister(name)
    BY <1>9 DEF Register
  <2>2. <<[name |-> name, id |-> current]>> \in Seq(Driver)
    BY <2>1, <1>c DEF DriverRegister, Driver
  <2>3. osDrivers' \in Seq(Driver)
    BY <2>1, <2>2, SeqOps DEF DriverRegister, TypeOK, DriversTypeOK
  <2>4. DriversTypeOK'
    BY <2>1, <2>3, <1>c DEF DriverRegister, TypeOK, DriversTypeOK
  <2>5. SchedulerTypeOK' /\ IpcTypeOK'
    BY <2>1 DEF DriverRegister, TypeOK, SchedulerTypeOK, schedVars, IpcTypeOK,
                ipcVars
  <2> QED BY <1>9, <2>4, <2>5, CallType DEF Register, TypeOK, ProcessTypeOK
<1>10. CASE Spawn
  <2>1. PICK id \in Id, pr \in SpawnPriority : SpawnBegin(id, pr)
    BY <1>10 DEF Spawn
  <2>2. load' \in Load /\ lost' \subseteq Id \cup {NullId}
    BY <2>1, LoadType DEF SpawnBegin, Load, TypeOK, SchedulerTypeOK
  <2> QED BY <1>10, <2>1, <2>2
          DEF Spawn, SpawnBegin, TypeOK, SchedulerTypeOK, Phase, IpcTypeOK,
              ipcVars, DriversTypeOK, driverVars, ProcessTypeOK
<1>11. CASE SpawnStep
  <2>1. CASE SpawnFail
    BY <1>11, <2>1
    DEF SpawnStep, SpawnFail, TypeOK, SchedulerTypeOK, Phase, IpcTypeOK,
        ipcVars, DriversTypeOK, driverVars, ProcessTypeOK
  <2>2. CASE SpawnLoaded
    <3>1. load \in Load
      BY <2>2, LoadType DEF SpawnLoaded
    <3>2. load' \in Load
      BY <2>2, <3>1 DEF SpawnLoaded, Load
    <3>3. SchedulerTypeOK'
      BY <2>2, <3>1, SpawnPriorityAssumption
      DEF SpawnLoaded, PcbInsert, Load, TypeOK, SchedulerTypeOK, ProcessState
    <3> QED BY <1>11, <2>2, <3>2, <3>3
            DEF SpawnStep, SpawnLoaded, TypeOK, IpcTypeOK, ipcVars,
                DriversTypeOK, driverVars, ProcessTypeOK
  <2>3. CASE SpawnFinish
    <3>1. isQueued' \in [Id -> BOOLEAN] /\ runq' \in [Level -> Seq(Id)]
      BY <2>3, SchedulerEnqueueType DEF SpawnFinish, ProcessStart, TypeOK
    <3>2. SchedulerTypeOK'
      BY <2>3, <3>1
      DEF SpawnFinish, ProcessStart, TypeOK, SchedulerTypeOK, Phase
    <3> QED BY <1>11, <2>3, <3>2
            DEF SpawnStep, SpawnFinish, TypeOK, IpcTypeOK, ipcVars,
                DriversTypeOK, driverVars, ProcessTypeOK
  <2> QED BY <1>11, <2>1, <2>2, <2>3 DEF SpawnStep
<1>12. CASE Exit
  BY <1>12, <1>c, KillBeginType, CallType DEF Exit, Calls
<1>13. CASE Kill
  BY <1>13, KillBeginType, CallType DEF Kill
<1>14. CASE KillStep
  <2>1. CASE KillFinish
    <3>1. DriversTypeOK'
      BY <2>1, DriverRemoveType DEF KillFinish, TypeOK
    <3>2. SchedulerTypeOK'
      BY <2>1 DEF KillFinish, PcbRemove, TypeOK, SchedulerTypeOK, ProcessState,
                  Phase
    <3> QED BY <1>14, <2>1, <3>1, <3>2
            DEF KillStep, KillFinish, TypeOK, IpcTypeOK, ipcVars, ProcessTypeOK
  <2>2. ASSUME NEW p \in Level, KillFlush(p) PROVE TypeOK'
    <3>1. victim \in Id
      BY <2>2 DEF KillFlush, ExecutingLive, TypeOK, SchedulerTypeOK
    <3> QED BY <1>14, <2>2, <3>1, FlushMessageType
            DEF KillStep, KillFlush, TypeOK, DriversTypeOK, driverVars,
                ProcessTypeOK, processVars
  <2> QED BY <1>14, <2>1, <2>2 DEF KillStep
<1>15. CASE TimerIrq
  BY <1>15, KernelSendType
  DEF TimerIrq, TypeOK, SchedulerTypeOK, Phase, IpcTypeOK, DriversTypeOK,
      driverVars, ProcessTypeOK, processVars
<1>16. CASE UartIrq
  BY <1>16, KernelSendType
  DEF UartIrq, TypeOK, SchedulerTypeOK, IpcTypeOK, DriversTypeOK,
      driverVars, ProcessTypeOK, processVars
<1>17. CASE GpioIrq
  BY <1>17
  DEF GpioIrq, TypeOK, SchedulerTypeOK, Phase, IpcTypeOK, ipcVars,
      DriversTypeOK, driverVars, ProcessTypeOK, processVars
<1>18. CASE Abort
  BY <1>18, <1>c, KillBeginType, LoadType DEF Abort, TypeOK, ProcessTypeOK
<1>19. CASE UndefinedInstruction
  <2>1. CASE vectorsIntact
    BY <1>19, <2>1, <1>c, KillBeginType
    DEF UndefinedInstruction, TypeOK, ProcessTypeOK
  <2>2. CASE ~vectorsIntact
    BY <1>19, <2>2
    DEF UndefinedInstruction, TypeOK, SchedulerTypeOK, Phase, IpcTypeOK,
        ipcVars, DriversTypeOK, driverVars, ProcessTypeOK
  <2> QED BY <2>1, <2>2
<1>20. CASE ContextSwitch
  <2>1. isQueued' \in [Id -> BOOLEAN] /\ runq' \in [Level -> Seq(Id)]
    BY <1>20, SchedulerEnqueueType
    DEF ContextSwitch, RequeueCurrent, TypeOK, SchedulerTypeOK
  <2> QED BY <1>20, <2>1
          DEF ContextSwitch, RequeueCurrent, TypeOK, SchedulerTypeOK, Phase,
              IpcTypeOK, ipcVars, DriversTypeOK, driverVars, ProcessTypeOK,
              processVars
<1>21. CASE TestDone
  BY <1>21
  DEF TestDone, TypeOK, SchedulerTypeOK, Phase, IpcTypeOK, ipcVars,
      DriversTypeOK, driverVars, ProcessTypeOK, processVars
<1>22. CASE Pop
  <2>1. \A p \in Level : IsTopLevel(p) => Tail(runq[p]) \in Seq(Id)
    BY SeqOps DEF IsTopLevel, TypeOK, SchedulerTypeOK
  <2>2. SchedulerTypeOK'
    <3>1. CASE \E p \in Level : SkipDead(p)
      BY <3>1, <2>1 DEF SkipDead, PriorityPop, TypeOK, SchedulerTypeOK
    <3>2. ASSUME NEW p \in Level, Dispatch(p, Resume(Head(runq[p])))
          PROVE  SchedulerTypeOK'
      <4>1. Resume(Head(runq[p])) \in Phase
        BY DEF Resume, Phase
      <4> QED BY <3>2, <4>1, <2>1
              DEF Dispatch, PriorityPop, TypeOK, SchedulerTypeOK
    <3>3. CASE PopNothing
      BY <3>3 DEF PopNothing, schedVars, TypeOK, SchedulerTypeOK
    <3> QED BY <1>22, <3>1, <3>2, <3>3 DEF Pop
  <2> QED BY <1>22, <2>2
          DEF Pop, TypeOK, IpcTypeOK, ipcVars, DriversTypeOK, driverVars,
              ProcessTypeOK, processVars
<1>23. CASE Stopped
  BY <1>23
  DEF Stopped, vars, TypeOK, SchedulerTypeOK, schedVars, IpcTypeOK, ipcVars,
      DriversTypeOK, driverVars, ProcessTypeOK, processVars
<1> QED BY <1>1, <1>2, <1>3, <1>4, <1>5, <1>6, <1>7, <1>8, <1>9, <1>10,
           <1>11, <1>12, <1>13, <1>14, <1>15, <1>16, <1>17, <1>18, <1>19,
           <1>20, <1>21, <1>22, <1>23 DEF Next, BootStarts

\* Whose turn it is: every step that keeps or starts execution for a process
\* keeps or checks that process's PCB.
LEMMA ExecutingLiveStep ==
  ASSUME TypeOK, ExecutingLive, Next
  PROVE  ExecutingLive'
<1> USE DEF ExecutingLive
<1>1. ASSUME NEW id \in Id, NEW pr \in SpawnPriority, BootLoad(id, pr)
      PROVE  ExecutingLive'
  BY <1>1 DEF BootLoad
<1>2. CASE BootStarts
  BY <1>2 DEF BootStarts, BootStart, BootFlag, BootLink, processVars
<1>3. CASE BootYield \/ Yield \/ GpioIrq \/ TestDone
  BY <1>3 DEF BootYield, Yield, GpioIrq, TestDone
<1>4. CASE Send \/ SendDriver \/ Receive
  BY <1>4 DEF Send, SendDriver, Receive, SystemSend, ReceiveBlocks,
              ReceiveMessage
<1>5. CASE NoReschedule \/ Register
  BY <1>5 DEF NoReschedule, Register, DriverRegister, schedVars, Calls
<1>6. CASE Spawn
  BY <1>6 DEF Spawn, SpawnBegin
<1>7. CASE SpawnStep
  BY <1>7 DEF SpawnStep, SpawnFail, SpawnLoaded, SpawnFinish, PcbInsert
<1>8. CASE Exit \/ Kill
  BY <1>8 DEF Exit, Kill, KillBegin, Calls
<1>9. CASE KillStep
  BY <1>9 DEF KillStep, KillFinish, KillFlush, FlushMessage, processVars
<1>10. CASE TimerIrq
  BY <1>10 DEF TimerIrq, IrqsEnabled, processVars
<1>11. CASE UartIrq
  BY <1>11 DEF UartIrq, processVars
<1>12. CASE Abort
  BY <1>12 DEF Abort, KillBegin
<1>13. CASE UndefinedInstruction
  BY <1>13 DEF UndefinedInstruction, KillBegin
<1>14. CASE ContextSwitch
  BY <1>14 DEF ContextSwitch, RequeueCurrent
<1>15. CASE Pop
  <2>1. ASSUME NEW p \in Level, Dispatch(p, Resume(Head(runq[p])))
        PROVE  ExecutingLive'
    BY <2>1 DEF Dispatch, Resume
  <2>2. CASE PopNothing \/ \E p \in Level : SkipDead(p)
    BY <1>15, <2>2 DEF PopNothing, SkipDead, schedVars
  <2> QED BY <1>15, <2>1, <2>2 DEF Pop
<1>16. CASE Stopped
  BY <1>16 DEF Stopped, vars, schedVars, processVars
<1> QED BY <1>1, <1>2, <1>3, <1>4, <1>5, <1>6, <1>7, <1>8, <1>9, <1>10,
           <1>11, <1>12, <1>13, <1>14, <1>15, <1>16 DEF Next, BootStarts

\* Nor does a stuttering step, which keeps ExecutingLive too.
LEMMA TypeStutter ==
  ASSUME TypeOK, ExecutingLive, UNCHANGED vars
  PROVE  TypeOK' /\ ExecutingLive'
  BY DEF vars, TypeOK, SchedulerTypeOK, schedVars, IpcTypeOK, ipcVars,
         DriversTypeOK, driverVars, ProcessTypeOK, processVars, ExecutingLive

(***************************************************************************)
(* The kernel's variables keep their types, and the core only ever         *)
(* executes for, or kills, a process whose PCB exists.                     *)
(***************************************************************************)
THEOREM TypeCorrect == Spec => [](TypeOK /\ ExecutingLive)
<1>1. Init => TypeOK /\ ExecutingLive
  BY TypeInit DEF Init, SchedulerInit, ExecutingLive
<1>2. TypeOK /\ ExecutingLive /\ [Next]_vars => (TypeOK /\ ExecutingLive)'
  BY TypeStep, ExecutingLiveStep, TypeStutter
<1> QED BY <1>1, <1>2, PTL DEF Spec

-----------------------------------------------------------------------------
(* No process is forgotten.                                                 *)

\* What every handler does to the run queues, short of popping a node: flags
\* are only set, each with a node at the process's level, and nodes stay.
QueuesGrow ==
  /\ \A x \in Id : isQueued[x] => isQueued'[x]
  /\ \A x \in Id : isQueued'[x] /\ ~isQueued[x] /\ priority[x] \in Level =>
       \E i \in DOMAIN runq'[priority[x]] : runq'[priority[x]][i] = x
  /\ \A p \in Level : \A i \in DOMAIN runq[p] :
       i \in DOMAIN runq'[p] /\ runq'[p][i] = runq[p][i]

\* Appending keeps the nodes of a queue at their places and adds one.
LEMMA AppendNodes ==
  ASSUME NEW S, NEW s \in Seq(S), NEW x \in S
  PROVE  /\ Len(s) + 1 \in DOMAIN Append(s, x)
         /\ Append(s, x)[Len(s) + 1] = x
         /\ \A i \in DOMAIN s : i \in DOMAIN Append(s, x)
                                /\ Append(s, x)[i] = s[i]
  OBVIOUS

\* Taking the head off a queue keeps every other node.
LEMMA TailNodes ==
  ASSUME NEW S, NEW s \in Seq(S), s # <<>>, NEW i \in DOMAIN s,
         s[i] # Head(s)
  PROVE  i - 1 \in DOMAIN Tail(s) /\ Tail(s)[i - 1] = s[i]
  OBVIOUS

\* scheduler_enqueue only adds nodes, and flags a process only with a node.
LEMMA EnqueueGrows ==
  ASSUME TypeOK, NEW id, NEW st, SchedulerEnqueue(id, st)
  PROVE  QueuesGrow /\ (id \in procs /\ st[id] = "READY" => isQueued'[id])
<1>1. CASE MayEnqueue(id, st)
  <2>1. id \in Id /\ isQueued' = [isQueued EXCEPT ![id] = TRUE]
    BY <1>1 DEF SchedulerEnqueue, TypeOK, SchedulerTypeOK
  <2>2. CASE priority[id] \in Level
    <3>1. runq' = [runq EXCEPT ![priority[id]] = Append(@, id)]
      BY <1>1, <2>2 DEF SchedulerEnqueue
    <3>2. \A p \in Level : runq[p] \in Seq(Id)
      BY DEF TypeOK, SchedulerTypeOK
    <3>3. \A p \in Level : p # priority[id] => runq'[p] = runq[p]
      BY <3>1 DEF TypeOK, SchedulerTypeOK
    <3>4. runq'[priority[id]] = Append(runq[priority[id]], id)
      BY <2>2, <3>1 DEF TypeOK, SchedulerTypeOK
    <3>5. \A x \in Id : x # id => isQueued'[x] = isQueued[x]
      BY <2>1 DEF TypeOK, SchedulerTypeOK
    <3>6. isQueued'[id]
      BY <2>1 DEF TypeOK, SchedulerTypeOK
    <3>7. /\ \E i \in DOMAIN runq'[priority[id]] : runq'[priority[id]][i] = id
          /\ \A i \in DOMAIN runq[priority[id]] :
               /\ i \in DOMAIN runq'[priority[id]]
               /\ runq'[priority[id]][i] = runq[priority[id]][i]
      BY <2>1, <2>2, <3>2, <3>4, AppendNodes
    <3> QED BY <3>3, <3>5, <3>6, <3>7 DEF QueuesGrow
  <2>3. CASE priority[id] \notin Level
    BY <1>1, <2>1, <2>3
    DEF SchedulerEnqueue, QueuesGrow, TypeOK, SchedulerTypeOK
  <2> QED BY <2>2, <2>3
<1>2. CASE ~(MayEnqueue(id, st))
  BY <1>2 DEF SchedulerEnqueue, QueuesGrow
<1> QED BY <1>1, <1>2

\* So does waking a receiver.
LEMMA WakeGrows ==
  ASSUME TypeOK, NEW coid, NEW st, WakeReceiver(coid, st)
  PROVE  QueuesGrow
  BY EnqueueGrows DEF WakeReceiver, QueuesGrow

\* So does a message from an interrupt handler.
LEMMA KernelSendGrows ==
  ASSUME TypeOK, NEW coid, KernelSend(coid)
  PROVE  QueuesGrow
  BY WakeGrows DEF KernelSend, QueuesGrow

\* So does flushing a message.
LEMMA FlushGrows ==
  ASSUME TypeOK, NEW id, NEW p, FlushMessage(id, p)
  PROVE  QueuesGrow
<1> DEFINE s == Head(msgq[id][p]).sender
<1>1. CASE ReleasesOnFlush(s)
  <2>1. SchedulerEnqueue(s, [state EXCEPT ![s] = "READY"])
    BY <1>1 DEF FlushMessage
  <2> HIDE DEF s
  <2> QED BY <2>1, EnqueueGrows
<1>2. CASE ~(ReleasesOnFlush(s))
  BY <1>2 DEF FlushMessage, QueuesGrow
<1> QED BY <1>1, <1>2

\* Steps that neither make or remove a PCB nor pop a run-queue node.
HandlerStep ==
  \/ BootYield \/ Send \/ SendDriver \/ Receive \/ Yield \/ NoReschedule
  \/ Register \/ Spawn \/ (SpawnStep /\ ~SpawnLoaded) \/ Exit \/ Kill
  \/ (KillStep /\ ~KillFinish) \/ TimerIrq \/ UartIrq \/ GpioIrq \/ Abort
  \/ UndefinedInstruction \/ ContextSwitch \/ TestDone \/ Stopped

\* So does every handler: nodes are only removed by the pop loop.
LEMMA HandlerGrows ==
  ASSUME TypeOK, HandlerStep
  PROVE  QueuesGrow /\ UNCHANGED <<procs, priority, starting>>
<1>2. CASE Send \/ SendDriver
  BY <1>2, WakeGrows DEF Send, SendDriver, SystemSend
<1>3. CASE Receive
  <2>1. CASE ReceiveBlocks
    BY <2>1 DEF ReceiveBlocks, QueuesGrow
  <2>2. ASSUME NEW p \in Level, ReceiveMessage(p)
        PROVE  QueuesGrow /\ UNCHANGED <<procs, priority, starting>>
    <3>1. \/ \E s, st : SchedulerEnqueue(s, st)
          \/ UNCHANGED <<isQueued, runq>>
      BY <2>2 DEF ReceiveMessage
    <3>2. QueuesGrow
      BY <3>1, EnqueueGrows DEF QueuesGrow
    <3> QED BY <2>2, <3>2 DEF ReceiveMessage
  <2> QED BY <1>3, <2>1, <2>2 DEF Receive
<1>4. CASE BootYield \/ Yield \/ GpioIrq \/ TestDone
  BY <1>4 DEF BootYield, Yield, GpioIrq, TestDone, QueuesGrow
<1>5. CASE NoReschedule \/ Register \/ Spawn
  BY <1>5 DEF NoReschedule, Register, DriverRegister, schedVars, Spawn,
              SpawnBegin, QueuesGrow
<1>6. CASE SpawnStep /\ ~SpawnLoaded
  <2>1. CASE SpawnFail
    BY <2>1 DEF SpawnFail, QueuesGrow
  <2>2. CASE SpawnFinish
    BY <2>2, EnqueueGrows DEF SpawnFinish, ProcessStart
  <2> QED BY <1>6, <2>1, <2>2 DEF SpawnStep
<1>7. CASE Exit \/ Kill \/ Abort
  BY <1>7 DEF Exit, Kill, Abort, KillBegin, QueuesGrow
<1>8. CASE KillStep /\ ~KillFinish
  <2>1. PICK p \in Level : KillFlush(p)
    BY <1>8 DEF KillStep
  <2> QED BY <2>1, FlushGrows DEF KillFlush, FlushMessage
<1>9. CASE TimerIrq \/ UartIrq
  BY <1>9, KernelSendGrows DEF TimerIrq, UartIrq
<1>10. CASE UndefinedInstruction
  BY <1>10 DEF UndefinedInstruction, KillBegin, QueuesGrow
<1>11. CASE ContextSwitch
  <2>1. SchedulerEnqueue(current, state) \/ UNCHANGED <<isQueued, runq>>
    BY <1>11 DEF ContextSwitch, RequeueCurrent
  <2>2. QueuesGrow
    BY <2>1, EnqueueGrows DEF QueuesGrow
  <2> QED BY <1>11, <2>2 DEF ContextSwitch, RequeueCurrent
<1>12. CASE Stopped
  BY <1>12 DEF Stopped, vars, schedVars, QueuesGrow
<1> QED BY <1>2, <1>3, <1>4, <1>5, <1>6, <1>7, <1>8, <1>9, <1>10,
           <1>11, <1>12 DEF HandlerStep

\* The other steps of Next.
LEMMA NextCases ==
  Next => \/ HandlerStep
          \/ BootStarts
          \/ \E id \in Id, pr \in SpawnPriority : BootLoad(id, pr)
          \/ SpawnStep /\ SpawnLoaded
          \/ KillStep /\ KillFinish
          \/ Pop
  BY DEF Next, HandlerStep, BootStarts

\* A PCB made for an id that has none
LEMMA InsertKeepsFlagHasNode ==
  ASSUME TypeOK, FlagHasNode, NEW id \in Id, NEW pr, PcbInsert(id, pr),
         UNCHANGED <<runq, starting>>
  PROVE  FlagHasNode'
  BY DEF FlagHasNode, PcbInsert, TypeOK, SchedulerTypeOK

\* A pop unflags the process whose node it takes, so the others keep theirs.
LEMMA PopKeepsFlagHasNode ==
  ASSUME TypeOK, FlagHasNode, Pop
  PROVE  FlagHasNode'
<1>1. ASSUME NEW p \in Level, IsTopLevel(p), PriorityPop(p),
             NEW id \in procs \ {starting}, isQueued[id], id # Head(runq[p]),
             priority[id] \in Level
      PROVE  \E i \in DOMAIN runq'[priority[id]] : runq'[priority[id]][i] = id
  <2>1. PICK i \in DOMAIN runq[priority[id]] : runq[priority[id]][i] = id
    BY <1>1 DEF FlagHasNode
  <2>2. CASE priority[id] = p
    <3>1. runq[p] \in Seq(Id) /\ runq[p] # <<>> /\ runq'[p] = Tail(runq[p])
      BY <1>1 DEF PriorityPop, IsTopLevel, TypeOK, SchedulerTypeOK
    <3>2. i \in DOMAIN runq[p] /\ runq[p][i] # Head(runq[p])
      BY <1>1, <2>1, <2>2
    <3>3. i - 1 \in DOMAIN Tail(runq[p]) /\ Tail(runq[p])[i - 1] = runq[p][i]
      BY <3>1, <3>2, TailNodes
    <3> QED BY <2>1, <2>2, <3>1, <3>3
  <2>3. CASE priority[id] # p
    BY <1>1, <2>1, <2>3 DEF PriorityPop, TypeOK, SchedulerTypeOK
  <2> QED BY <2>2, <2>3
<1>2. ASSUME NEW p \in Level, SkipDead(p) PROVE FlagHasNode'
  BY <1>1, <1>2 DEF SkipDead, FlagHasNode
<1>3. ASSUME NEW p \in Level, Dispatch(p, Resume(Head(runq[p])))
      PROVE  FlagHasNode'
  <2>1. \A id \in procs : isQueued'[id] => isQueued[id] /\ id # Head(runq[p])
    BY <1>3 DEF Dispatch, TypeOK, SchedulerTypeOK
  <2> QED BY <1>1, <1>3, <2>1 DEF Dispatch, FlagHasNode
<1>4. CASE PopNothing
  BY <1>4 DEF PopNothing, schedVars, FlagHasNode
<1> QED BY <1>2, <1>3, <1>4 DEF Pop

\* Boot's process_start: a process is exempt from its start until it is linked.
LEMMA BootKeepsFlags ==
  ASSUME TypeOK, BootStarts
  PROVE  /\ FlagHasNode => FlagHasNode'
         /\ ReadyFlagged => ReadyFlagged'
<1>1. ASSUME NEW id \in Id, BootStart(id)
      PROVE  (FlagHasNode => FlagHasNode') /\ (ReadyFlagged => ReadyFlagged')
  BY <1>1, IdAssumption
  DEF BootStart, FlagHasNode, ReadyFlagged, TypeOK, SchedulerTypeOK
<1>2. CASE BootFlag
  BY <1>2 DEF BootFlag, FlagHasNode, ReadyFlagged, TypeOK, SchedulerTypeOK
<1>3. CASE BootLink
  <2>1. starting \in Id /\ isQueued[starting]
        /\ UNCHANGED <<procs, state, priority, isQueued, current, started, cpu>>
    BY <1>3 DEF BootLink, TypeOK, SchedulerTypeOK
  <2>2. ReadyFlagged => ReadyFlagged'
    BY <2>1 DEF ReadyFlagged
  <2>3. ASSUME NEW p \in Level, priority[starting] = p
        PROVE  \E i \in DOMAIN runq'[p] : runq'[p][i] = starting
    <3>1. runq'[p] = Append(runq[p], starting) /\ runq[p] \in Seq(Id)
      BY <1>3, <2>3 DEF BootLink, TypeOK, SchedulerTypeOK
    <3> QED BY <2>1, <3>1, AppendNodes
  <2>4. ASSUME NEW p \in Level, NEW i \in DOMAIN runq[p]
        PROVE  i \in DOMAIN runq'[p] /\ runq'[p][i] = runq[p][i]
    <3>1. runq'[p] \in {runq[p], Append(runq[p], starting)} /\ runq[p] \in Seq(Id)
      BY <1>3 DEF BootLink, TypeOK, SchedulerTypeOK
    <3> QED BY <2>1, <3>1, AppendNodes
  <2>5. FlagHasNode => FlagHasNode'
    <3> SUFFICES ASSUME FlagHasNode, NEW id \in procs, isQueued[id],
                        priority[id] \in Level
                 PROVE  \E i \in DOMAIN runq'[priority[id]] :
                          runq'[priority[id]][i] = id
      BY <2>1 DEF FlagHasNode
    <3>1. CASE id = starting
      BY <2>3, <3>1
    <3>2. CASE id # starting
      <4>1. PICK i \in DOMAIN runq[priority[id]] : runq[priority[id]][i] = id
        BY <3>2 DEF FlagHasNode
      <4> QED BY <2>4, <4>1
    <3> QED BY <3>1, <3>2
  <2> QED BY <2>2, <2>5
<1> QED BY <1>1, <1>2, <1>3 DEF BootStarts

\* No step leaves a flagged process without a node.
LEMMA FlagHasNodeStep ==
  ASSUME TypeOK, FlagHasNode, Next
  PROVE  FlagHasNode'
<1>1. CASE HandlerStep
  <2>1. QueuesGrow /\ UNCHANGED <<procs, priority, starting>>
    BY <1>1, HandlerGrows
  <2> SUFFICES ASSUME NEW id \in procs \ {starting}, isQueued'[id], priority[id] \in Level
               PROVE  \E i \in DOMAIN runq'[priority[id]] :
                        runq'[priority[id]][i] = id
    BY <2>1 DEF FlagHasNode
  <2>2. CASE isQueued[id]
    <3>1. PICK i \in DOMAIN runq[priority[id]] : runq[priority[id]][i] = id
      BY <2>2 DEF FlagHasNode
    <3> QED BY <2>1, <3>1 DEF QueuesGrow
  <2>3. CASE ~isQueued[id]
    BY <2>1, <2>3 DEF QueuesGrow, TypeOK, SchedulerTypeOK
  <2> QED BY <2>2, <2>3
<1>2. ASSUME NEW id \in Id, NEW pr \in SpawnPriority, BootLoad(id, pr)
      PROVE  FlagHasNode'
  BY <1>2, InsertKeepsFlagHasNode DEF BootLoad
<1>3. CASE SpawnLoaded
  <2>1. load.id \in Id
    BY <1>3, LoadType DEF SpawnLoaded, Load
  <2> QED BY <1>3, <2>1, InsertKeepsFlagHasNode DEF SpawnLoaded
<1>4. CASE KillFinish
  BY <1>4 DEF KillFinish, PcbRemove, FlagHasNode, TypeOK, SchedulerTypeOK
<1>5. CASE Pop
  BY <1>5, PopKeepsFlagHasNode
<1>6. CASE BootStarts
  BY <1>6, BootKeepsFlags
<1> QED BY <1>1, <1>2, <1>3, <1>4, <1>5, <1>6, NextCases

\* Whoever a handler makes READY, it enqueues.
ReadyOnlyQueued ==
  \A id \in started' : state'[id] = "READY" =>
    isQueued'[id] \/ (id \in started /\ state[id] = "READY")

\* A handler that makes READY only what it queues keeps ReadyFlagged.
LEMMA HandlerKeepsReadyFlagged ==
  ASSUME ReadyFlagged, TypeOK, QueuesGrow, ReadyOnlyQueued,
         UNCHANGED <<current, starting>>, cpu' # "pick"
  PROVE  ReadyFlagged'
  BY DEF ReadyFlagged, QueuesGrow, ReadyOnlyQueued, TypeOK, SchedulerTypeOK

\* A woken receiver is queued in the same step.
LEMMA WakeReadyOnlyQueued ==
  ASSUME TypeOK, NEW coid \in procs, NEW st \in [Id -> ProcessState],
         WakeReceiver(coid, st), UNCHANGED started,
         \A id \in started : st[id] = "READY" => state[id] = "READY"
  PROVE  ReadyOnlyQueued
<1>1. CASE st[coid] = "BLOCKED_RECEIVING"
  <2>1. /\ SchedulerEnqueue(coid, [st EXCEPT ![coid] = "READY"])
        /\ state' = [st EXCEPT ![coid] = "READY"]
    BY <1>1 DEF WakeReceiver
  <2>2. coid \in Id /\ [st EXCEPT ![coid] = "READY"][coid] = "READY"
    BY DEF TypeOK, SchedulerTypeOK
  <2>3. isQueued'[coid]
    BY <2>1, <2>2, EnqueueGrows
  <2> QED BY <2>1, <2>3 DEF ReadyOnlyQueued, TypeOK, SchedulerTypeOK
<1>2. CASE st[coid] # "BLOCKED_RECEIVING"
  BY <1>2 DEF WakeReceiver, ReadyOnlyQueued
<1> QED BY <1>1, <1>2

\* So is the receiver of system_send.
LEMMA SendReadyOnlyQueued ==
  ASSUME TypeOK, NEW coid, NEW waiting \in BOOLEAN, SystemSend(coid, waiting)
  PROVE  ReadyOnlyQueued
<1> DEFINE st == IF waiting THEN [state EXCEPT ![current] = "BLOCKED_SENDING"]
                            ELSE state
<1>1. /\ st \in [Id -> ProcessState]
      /\ \A id \in started : st[id] = "READY" => state[id] = "READY"
  BY DEF TypeOK, SchedulerTypeOK, ProcessState
<1>2. WakeReceiver(coid, st) /\ coid \in procs /\ UNCHANGED started
  BY DEF SystemSend, Accepts
<1> HIDE DEF st
<1> QED BY <1>1, <1>2, WakeReadyOnlyQueued

\* So is the driver an interrupt is reported to.
LEMMA KernelSendReadyOnlyQueued ==
  ASSUME TypeOK, NEW coid, KernelSend(coid), UNCHANGED started
  PROVE  ReadyOnlyQueued
<1>1. CASE Accepts(coid, NullId)
  <2>1. WakeReceiver(coid, state) /\ coid \in procs
    BY <1>1 DEF KernelSend, Accepts
  <2> QED BY <2>1, WakeReadyOnlyQueued DEF TypeOK, SchedulerTypeOK
<1>2. CASE ~Accepts(coid, NullId)
  BY <1>2 DEF KernelSend, ReadyOnlyQueued
<1> QED BY <1>1, <1>2

\* So is the sender a receive releases.
LEMMA ReceiveReadyOnlyQueued ==
  ASSUME TypeOK, NEW p \in Level, ReceiveMessage(p)
  PROVE  ReadyOnlyQueued
<1> DEFINE m == Head(msgq[current][p])
           st == IF ReleasesOnReceive(m) /\ m.sender \in procs
                 THEN [state EXCEPT ![m.sender] = "READY"] ELSE state
<1>1. /\ state' = st
      /\ ReleasesOnReceive(m) => SchedulerEnqueue(m.sender, st)
      /\ UNCHANGED started
  BY DEF ReceiveMessage
<1>2. CASE ReleasesOnReceive(m) /\ m.sender \in procs
  <2>1. st = [state EXCEPT ![m.sender] = "READY"] /\ m.sender \in Id
    BY <1>2 DEF TypeOK, SchedulerTypeOK
  <2>2. st[m.sender] = "READY"
    BY <2>1 DEF TypeOK, SchedulerTypeOK
  <2>3. isQueued'[m.sender]
    <3> HIDE DEF m, st
    <3> QED BY <1>1, <1>2, <2>2, EnqueueGrows
  <2> QED BY <1>1, <2>1, <2>3 DEF ReadyOnlyQueued, TypeOK, SchedulerTypeOK
<1>3. CASE ~(ReleasesOnReceive(m) /\ m.sender \in procs)
  BY <1>1, <1>3 DEF ReadyOnlyQueued
<1> QED BY <1>2, <1>3

\* So is the sender a flush releases.
LEMMA FlushReadyOnlyQueued ==
  ASSUME TypeOK, NEW id, NEW p, FlushMessage(id, p)
  PROVE  ReadyOnlyQueued
<1> DEFINE s == Head(msgq[id][p]).sender
<1>1. CASE ReleasesOnFlush(s)
  <2>1. /\ state' = [state EXCEPT ![s] = "READY"]
        /\ SchedulerEnqueue(s, [state EXCEPT ![s] = "READY"])
        /\ UNCHANGED started
    BY <1>1 DEF FlushMessage
  <2>2. s \in procs
    BY <1>1
  <2> HIDE DEF s
  <2>3. [state EXCEPT ![s] = "READY"][s] = "READY"
    BY <2>2 DEF TypeOK, SchedulerTypeOK
  <2>4. isQueued'[s]
    BY <2>1, <2>2, <2>3, EnqueueGrows
  <2> QED BY <2>1, <2>2, <2>4 DEF ReadyOnlyQueued, TypeOK, SchedulerTypeOK
<1>2. CASE ~(ReleasesOnFlush(s))
  BY <1>2 DEF FlushMessage, ReadyOnlyQueued
<1> QED BY <1>1, <1>2

\* process_start: the new process is flagged unless it is not READY.
LEMMA StartReadyOnlyQueued ==
  ASSUME TypeOK, NEW id, ProcessStart(id), UNCHANGED state
  PROVE  ReadyOnlyQueued
  BY EnqueueGrows DEF ProcessStart, ReadyOnlyQueued

\* No step leaves a started READY process neither flagged nor running.
LEMMA ReadyFlaggedStep ==
  ASSUME TypeOK, ReadyFlagged, Next
  PROVE  ReadyFlagged'
<1>g. HandlerStep => QueuesGrow /\ UNCHANGED starting
  BY HandlerGrows
<1> USE HandlerKeepsReadyFlagged
<1>1. CASE BootStarts
  BY <1>1, BootKeepsFlags
<1>2. CASE Send
  <2>1. PICK coid \in Id, waiting \in BOOLEAN : SystemSend(coid, waiting)
    BY <1>2 DEF Send
  <2> QED BY <1>2, <1>g, <2>1, SendReadyOnlyQueued DEF HandlerStep, SystemSend
<1>3. CASE SendDriver
  <2>1. PICK coid \in Id, waiting \in BOOLEAN : SystemSend(coid, waiting)
    BY <1>3 DEF SendDriver
  <2> QED BY <1>3, <1>g, <2>1, SendReadyOnlyQueued DEF HandlerStep, SystemSend
<1>4. CASE Receive
  <2>1. CASE ReceiveBlocks
    BY <1>4, <1>g, <2>1
    DEF HandlerStep, ReceiveBlocks, ReadyOnlyQueued, TypeOK, SchedulerTypeOK
  <2>2. ASSUME NEW p \in Level, ReceiveMessage(p) PROVE ReadyFlagged'
    BY <1>4, <1>g, <2>2, ReceiveReadyOnlyQueued DEF HandlerStep, ReceiveMessage
  <2> QED BY <1>4, <2>1, <2>2 DEF Receive
<1>5. CASE BootYield \/ Yield \/ GpioIrq \/ TestDone
  BY <1>5, <1>g DEF HandlerStep, BootYield, Yield, GpioIrq, TestDone,
                    ReadyOnlyQueued
<1>6. CASE NoReschedule \/ Register \/ Spawn
  BY <1>6, <1>g DEF HandlerStep, NoReschedule, Register, DriverRegister,
                    schedVars, Spawn, SpawnBegin, Calls, ReadyOnlyQueued
<1>7. CASE SpawnStep /\ ~SpawnLoaded
  <2>1. CASE SpawnFail
    BY <1>7, <1>g, <2>1 DEF HandlerStep, SpawnFail, ReadyOnlyQueued
  <2>2. CASE SpawnFinish
    BY <1>7, <1>g, <2>2, StartReadyOnlyQueued DEF HandlerStep, SpawnFinish
  <2> QED BY <1>7, <2>1, <2>2 DEF SpawnStep
<1>8. CASE Exit \/ Kill \/ Abort
  BY <1>8, <1>g DEF HandlerStep, Exit, Kill, Abort, KillBegin, ReadyOnlyQueued
<1>9. CASE KillStep /\ ~KillFinish
  <2>1. PICK p \in Level : KillFlush(p)
    BY <1>9 DEF KillStep
  <2>2. current' = current /\ cpu' # "pick"
    BY <2>1 DEF KillFlush, FlushMessage
  <2> QED BY <1>9, <1>g, <2>1, <2>2, FlushReadyOnlyQueued
          DEF HandlerStep, KillFlush
<1>10. CASE TimerIrq \/ UartIrq
  <2>1. current' = current /\ cpu' # "pick" /\ UNCHANGED started
    BY <1>10 DEF TimerIrq, UartIrq, IrqsEnabled
  <2>2. \E coid : KernelSend(coid)
    BY <1>10 DEF TimerIrq, UartIrq
  <2> QED BY <1>10, <1>g, <2>1, <2>2, KernelSendReadyOnlyQueued
          DEF HandlerStep
<1>11. CASE UndefinedInstruction
  BY <1>11, <1>g DEF HandlerStep, UndefinedInstruction, KillBegin,
                     ReadyOnlyQueued
<1>12. CASE ContextSwitch
  <2>1. QueuesGrow /\ UNCHANGED starting
    BY <1>12, <1>g DEF HandlerStep
  <2>2. current \in started /\ state[current] = "READY" => isQueued'[current]
    BY <1>12, EnqueueGrows, IdAssumption
    DEF ContextSwitch, RequeueCurrent, TypeOK, SchedulerTypeOK
  <2> QED BY <1>12, <2>1, <2>2
          DEF ContextSwitch, RequeueCurrent, ReadyFlagged, QueuesGrow, TypeOK,
              SchedulerTypeOK
<1>13. CASE Stopped
  BY <1>13 DEF Stopped, vars, schedVars, ReadyFlagged
<1>14. ASSUME NEW id \in Id, NEW pr \in SpawnPriority, BootLoad(id, pr)
       PROVE  ReadyFlagged'
  BY <1>14 DEF BootLoad, PcbInsert, ReadyFlagged, TypeOK, SchedulerTypeOK
<1>15. CASE SpawnLoaded
  BY <1>15 DEF SpawnLoaded, PcbInsert, ReadyFlagged, TypeOK, SchedulerTypeOK
<1>16. CASE KillFinish
  BY <1>16 DEF KillFinish, PcbRemove, ReadyFlagged, TypeOK, SchedulerTypeOK
<1>17. CASE Pop
  <2>1. ASSUME NEW p \in Level, Dispatch(p, Resume(Head(runq[p])))
        PROVE  ReadyFlagged'
    BY <2>1 DEF Dispatch, Resume, ReadyFlagged, TypeOK, SchedulerTypeOK
  <2>2. CASE PopNothing \/ \E p \in Level : SkipDead(p)
    BY <2>2 DEF PopNothing, SkipDead, schedVars, ReadyFlagged
  <2> QED BY <1>17, <2>1, <2>2 DEF Pop
<1> QED BY <1>1, <1>2, <1>3, <1>4, <1>5, <1>6, <1>7, <1>8, <1>9, <1>10,
           <1>11, <1>12, <1>13, <1>14, <1>15, <1>16, <1>17, NextCases
        DEF HandlerStep

(***************************************************************************)
(* Flags, nodes and READY processes go together, whatever is killed,       *)
(* spawned or reused: a flag is backed by a node at the process's level,   *)
(* and a started READY process has a flag unless it is the one running.    *)
(* Without the first, scheduler_enqueue would refuse a process for good.   *)
(* Excepted is the one process whose process_start in boot is not over: an *)
(* interrupt that reschedules there leaves it as it is.                    *)
(***************************************************************************)
THEOREM FlagsAreBacked == Spec => [](FlagHasNode /\ ReadyFlagged)
<1>1. Init => FlagHasNode /\ ReadyFlagged
  BY DEF Init, SchedulerInit, FlagHasNode, ReadyFlagged
<1>2. TypeOK /\ FlagHasNode /\ ReadyFlagged /\ [Next]_vars
        => (FlagHasNode /\ ReadyFlagged)'
  <2>1. CASE UNCHANGED vars
    BY <2>1 DEF vars, schedVars, FlagHasNode, ReadyFlagged
  <2> QED BY <2>1, FlagHasNodeStep, ReadyFlaggedStep
<1> QED BY <1>1, <1>2, TypeCorrect, PTL DEF Spec

(***************************************************************************)
(* A started READY process with a priority in range is never forgotten: it *)
(* has a run-queue node unless it is the one running.  This holds whatever *)
(* is killed, spawned or reused, and whatever interrupts a load.  Excepted *)
(* is the process that kernel_main was starting when an interrupt took the *)
(* processor away from it.                                                 *)
(***************************************************************************)
THEOREM NoProcessIsLost == Spec => []NoLostProcess
<1>1. TypeOK /\ FlagHasNode /\ ReadyFlagged => NoLostProcess
  BY DEF FlagHasNode, ReadyFlagged, NoLostProcess, QueuedAnywhere, TypeOK,
         SchedulerTypeOK
<1> QED BY <1>1, TypeCorrect, FlagsAreBacked, PTL

=============================================================================
