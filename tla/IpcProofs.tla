----------------------------- MODULE IpcProofs -----------------------------
(***************************************************************************)
(* Theorems about message passing and preemption, for any number of        *)
(* processes, levels, messages and drivers.  They rest on the type         *)
(* invariant of KernelProofs; none needs an assumption on the reuse of     *)
(* process ids.                                                            *)
(***************************************************************************)
EXTENDS KernelProofs

USE DEF AwaitsMessage, ReleasesOnReceive, ReleasesOnFlush, SetPreemptiveTimer

-----------------------------------------------------------------------------
(* What a step can do to process states and message queues.                 *)

\* Steps that leave the process table's states and all messages alone.
Quiet == UNCHANGED <<procs, state, msgq>>

\* A new PCB, as pcb_insert makes it.
Inserts ==
  \E id \in Id \ procs, pr \in Nat : PcbInsert(id, pr) /\ UNCHANGED msgq

\* Every step is quiet or one of the operations of ipc.c, pcb_insert or
\* pcb_remove.
LEMMA StepKinds ==
  ASSUME TypeOK, Next
  PROVE  \/ Quiet
         \/ \E coid \in Id, waiting \in BOOLEAN : SystemSend(coid, waiting)
         \/ ReceiveBlocks
         \/ \E p \in Level : ReceiveMessage(p)
         \/ \E coid : KernelSend(coid) /\ UNCHANGED procs
         \/ Inserts
         \/ KillFinish
         \/ \E p \in Level : KillFlush(p)
<1>1. CASE \E id \in Id, pr \in SpawnPriority : BootLoad(id, pr)
  BY <1>1, SpawnPriorityAssumption DEF BootLoad, Inserts, ipcVars
<1>2. CASE BootStarts
  BY <1>2 DEF BootStarts, BootStart, BootFlag, BootLink, Quiet, ipcVars
<1>3. CASE BootYield \/ Yield \/ NoReschedule \/ Spawn
  BY <1>3 DEF BootYield, Yield, NoReschedule, schedVars, Spawn, SpawnBegin,
              Quiet, ipcVars
<1>4. CASE Send \/ SendDriver
  BY <1>4 DEF Send, SendDriver
<1>5. CASE Receive
  BY <1>5 DEF Receive
<1>6. CASE Register
  BY <1>6 DEF Register, DriverRegister, schedVars, ipcVars, Quiet
<1>7. CASE SpawnStep
  <2>1. CASE SpawnFail \/ SpawnFinish
    BY <2>1 DEF SpawnFail, SpawnFinish, Quiet, ipcVars
  <2>2. CASE SpawnLoaded
    <3>1. load \in Load
      BY <2>2, LoadType DEF SpawnLoaded
    <3> QED BY <2>2, <3>1, SpawnPriorityAssumption
            DEF SpawnLoaded, Load, Inserts, ipcVars
  <2> QED BY <1>7, <2>1, <2>2 DEF SpawnStep
<1>8. CASE Exit \/ Kill \/ Abort \/ UndefinedInstruction
  BY <1>8 DEF Exit, Kill, Abort, UndefinedInstruction, KillBegin, Quiet, ipcVars
<1>9. CASE KillStep
  BY <1>9 DEF KillStep
<1>10. CASE TimerIrq \/ UartIrq
  BY <1>10 DEF TimerIrq, UartIrq
<1>11. CASE GpioIrq \/ ContextSwitch \/ TestDone \/ Stopped
  BY <1>11 DEF GpioIrq, ContextSwitch, RequeueCurrent, TestDone, Stopped,
               Quiet, ipcVars, vars, schedVars
<1>12. CASE Pop
  BY <1>12 DEF Pop, SkipDead, Dispatch, PopNothing, Quiet, ipcVars, schedVars
<1> QED BY <1>1, <1>2, <1>3, <1>4, <1>5, <1>6, <1>7, <1>8, <1>9, <1>10, <1>11,
           <1>12 DEF Next, BootStarts

-----------------------------------------------------------------------------
(* No wake-up is lost.                                                      *)

\* A message that is accepted touches no queue but its receiver's.
LEMMA EnqueueElsewhere ==
  ASSUME TypeOK, NEW coid \in Id, NEW sender, NEW waiting,
         MsgEnqueue(coid, sender, waiting)
  PROVE  \A x \in Id : x # coid => msgq'[x] = msgq[x]
  BY DEF MsgEnqueue, TypeOK, IpcTypeOK

\* After a wake-up the receiver is not blocked, and nobody else changed.
LEMMA WakeUnblocks ==
  ASSUME NEW coid \in Id, NEW st \in [Id -> ProcessState],
         WakeReceiver(coid, st)
  PROVE  /\ state'[coid] # "BLOCKED_RECEIVING"
         /\ \A x \in Id : x # coid => state'[x] = st[x]
  BY DEF WakeReceiver, ProcessState

\* A message off one queue leaves the other queues alone.
LEMMA PopElsewhere ==
  ASSUME TypeOK, NEW id \in Id, NEW p \in Level,
         msgq' = [msgq EXCEPT ![id][p] = Tail(@)]
  PROVE  \A x \in Id : x # id => msgq'[x] = msgq[x]
  BY DEF TypeOK, IpcTypeOK

\* No step leaves a blocked receiver with a message.
LEMMA BlockedReceiverStep ==
  ASSUME TypeOK, ExecutingLive, BlockedReceiverEmpty, Next
  PROVE  BlockedReceiverEmpty'
<1>1. CASE Quiet
  BY <1>1 DEF Quiet, BlockedReceiverEmpty, QueueIsEmpty
<1>2. ASSUME NEW coid \in Id, NEW waiting \in BOOLEAN, SystemSend(coid, waiting)
      PROVE  BlockedReceiverEmpty'
  <2> DEFINE st == IF waiting THEN [state EXCEPT ![current] = "BLOCKED_SENDING"]
                              ELSE state
  <2>1. st \in [Id -> ProcessState] /\ WakeReceiver(coid, st)
    BY <1>2 DEF SystemSend, TypeOK, SchedulerTypeOK, ProcessState
  <2>2. \A x \in Id : st[x] = "BLOCKED_RECEIVING" => state[x] = "BLOCKED_RECEIVING"
    BY DEF TypeOK, SchedulerTypeOK
  <2>3. \A x \in Id : x # coid => msgq'[x] = msgq[x]
    BY <1>2, EnqueueElsewhere DEF SystemSend
  <2> HIDE DEF st
  <2>4. /\ state'[coid] # "BLOCKED_RECEIVING"
        /\ \A x \in Id : x # coid => state'[x] = st[x]
    BY <2>1, WakeUnblocks
  <2>5. procs' = procs /\ procs \subseteq Id
    BY <1>2 DEF SystemSend, TypeOK, SchedulerTypeOK
  <2> QED BY <2>2, <2>3, <2>4, <2>5 DEF BlockedReceiverEmpty, QueueIsEmpty
<1>3. CASE ReceiveBlocks
  BY <1>3 DEF ReceiveBlocks, BlockedReceiverEmpty, QueueIsEmpty, TypeOK,
              SchedulerTypeOK
<1>4. ASSUME NEW p \in Level, ReceiveMessage(p)
      PROVE  BlockedReceiverEmpty'
  <2>1. current \in Id
    BY <1>4 DEF ReceiveMessage, ExecutingLive, TypeOK, SchedulerTypeOK
  <2>2. \A x \in Id : state'[x] = "BLOCKED_RECEIVING" =>
                        state[x] = "BLOCKED_RECEIVING"
    BY <1>4 DEF ReceiveMessage, TypeOK, SchedulerTypeOK
  <2>3. \A x \in Id : x # current => msgq'[x] = msgq[x]
    BY <1>4, <2>1, PopElsewhere DEF ReceiveMessage
  <2>4. ~QueueIsEmpty(current) /\ current \in procs
    BY <1>4 DEF ReceiveMessage, IsTopMessage, QueueIsEmpty, ExecutingLive
  <2>5. procs' = procs /\ procs \subseteq Id
    BY <1>4 DEF ReceiveMessage, TypeOK, SchedulerTypeOK
  <2> QED BY <2>2, <2>3, <2>4, <2>5 DEF BlockedReceiverEmpty, QueueIsEmpty
<1>5. ASSUME NEW coid, KernelSend(coid), UNCHANGED procs
      PROVE  BlockedReceiverEmpty'
  <2>1. CASE Accepts(coid, NullId)
    <3>1. coid \in Id /\ procs \subseteq Id
      BY <2>1 DEF Accepts, TypeOK, SchedulerTypeOK
    <3>2. \A x \in Id : x # coid => msgq'[x] = msgq[x]
      BY <1>5, <2>1, <3>1, EnqueueElsewhere DEF KernelSend
    <3>3. /\ state'[coid] # "BLOCKED_RECEIVING"
          /\ \A x \in Id : x # coid => state'[x] = state[x]
      BY <1>5, <2>1, <3>1, WakeUnblocks DEF KernelSend, TypeOK, SchedulerTypeOK
    <3> QED BY <1>5, <3>1, <3>2, <3>3 DEF BlockedReceiverEmpty, QueueIsEmpty
  <2>2. CASE ~Accepts(coid, NullId)
    BY <1>5, <2>2 DEF KernelSend, BlockedReceiverEmpty, QueueIsEmpty
  <2> QED BY <2>1, <2>2
<1>6. CASE Inserts
  BY <1>6 DEF Inserts, PcbInsert, BlockedReceiverEmpty, QueueIsEmpty, TypeOK,
              SchedulerTypeOK
<1>7. CASE KillFinish
  BY <1>7 DEF KillFinish, PcbRemove, ipcVars, BlockedReceiverEmpty,
              QueueIsEmpty, TypeOK, SchedulerTypeOK
<1>8. ASSUME NEW p \in Level, KillFlush(p)
      PROVE  BlockedReceiverEmpty'
  <2>1. victim \in procs /\ procs \subseteq Id /\ procs' = procs
    BY <1>8 DEF KillFlush, FlushMessage, ExecutingLive, TypeOK, SchedulerTypeOK
  <2>2. \A x \in Id : state'[x] = "BLOCKED_RECEIVING" =>
                        state[x] = "BLOCKED_RECEIVING"
    BY <1>8 DEF KillFlush, FlushMessage, TypeOK, SchedulerTypeOK
  <2>3. \A x \in Id : x # victim => msgq'[x] = msgq[x]
    BY <1>8, <2>1, PopElsewhere DEF KillFlush, FlushMessage
  <2>4. ~QueueIsEmpty(victim)
    BY <1>8 DEF KillFlush, FlushMessage, IsTopMessage, QueueIsEmpty
  <2> QED BY <2>1, <2>2, <2>3, <2>4 DEF BlockedReceiverEmpty, QueueIsEmpty
<1> QED BY <1>1, <1>2, <1>3, <1>4, <1>5, <1>6, <1>7, <1>8, StepKinds

(***************************************************************************)
(* A process blocked in IPC_RECV has no message waiting: system_send and   *)
(* ipc_kernel_send wake it in the same step, and system_receive blocks     *)
(* only when there is nothing.                                             *)
(***************************************************************************)
THEOREM NoWakeUpLost == Spec => []BlockedReceiverEmpty
<1>1. Init => BlockedReceiverEmpty
  BY DEF Init, SchedulerInit, BlockedReceiverEmpty
<1>2. TypeOK /\ ExecutingLive /\ BlockedReceiverEmpty /\ [Next]_vars
        => BlockedReceiverEmpty'
  <2>1. CASE UNCHANGED vars
    BY <2>1 DEF vars, schedVars, ipcVars, BlockedReceiverEmpty, QueueIsEmpty
  <2> QED BY <2>1, BlockedReceiverStep
<1> QED BY <1>1, <1>2, TypeCorrect, PTL DEF Spec

-----------------------------------------------------------------------------
(* No sender waits for a message that is gone.                              *)

\* A message s waits for is queued at an existing process.
Awaited(s) ==
  \E r \in procs, p \in Level : \E i \in DOMAIN msgq[r][p] :
    msgq[r][p][i] = [sender |-> s, waiting |-> TRUE]

\* Every message stays where it is.
MessagesStay ==
  \A r \in procs, p \in Level : \A i \in DOMAIN msgq[r][p] :
    i \in DOMAIN msgq'[r][p] /\ msgq'[r][p][i] = msgq[r][p][i]

\* A message that is accepted is in a queue, and the others stay.
LEMMA EnqueueStays ==
  ASSUME TypeOK, NEW coid \in procs, NEW sender \in Id \cup {NullId},
         NEW waiting \in BOOLEAN, Accepts(coid, sender),
         MsgEnqueue(coid, sender, waiting)
  PROVE  /\ MessagesStay
         /\ \E p \in Level : \E i \in DOMAIN msgq'[coid][p] :
              msgq'[coid][p][i] = [sender |-> sender, waiting |-> waiting]
<1> DEFINE lv == MessageLevel(sender)
           m == [sender |-> sender, waiting |-> waiting]
<1>1. lv \in Level /\ coid \in Id /\ procs \subseteq Id /\ m \in Message
  BY DEF Accepts, TypeOK, SchedulerTypeOK, Message
<1>2. msgq' = [msgq EXCEPT ![coid][lv] = Append(@, m)]
  BY DEF MsgEnqueue
<1>3. msgq \in [Id -> [Level -> Seq(Message)]]
  BY DEF TypeOK, IpcTypeOK
<1> HIDE DEF lv, m
<1>4. msgq'[coid][lv] = Append(msgq[coid][lv], m)
  BY <1>1, <1>2, <1>3
<1>5. \A r \in Id, p \in Level :
        ~(r = coid /\ p = lv) => msgq'[r][p] = msgq[r][p]
  BY <1>1, <1>2, <1>3
<1>6. MessagesStay
  <2> SUFFICES ASSUME NEW r \in procs, NEW p \in Level,
                      NEW i \in DOMAIN msgq[r][p]
               PROVE  i \in DOMAIN msgq'[r][p] /\ msgq'[r][p][i] = msgq[r][p][i]
    BY DEF MessagesStay
  <2>1. CASE r = coid /\ p = lv
    BY <2>1, <1>1, <1>3, <1>4, AppendNodes
  <2>2. CASE ~(r = coid /\ p = lv)
    BY <2>2, <1>1, <1>5
  <2> QED BY <2>1, <2>2
<1>7. /\ Len(msgq[coid][lv]) + 1 \in DOMAIN msgq'[coid][lv]
      /\ msgq'[coid][lv][Len(msgq[coid][lv]) + 1] = m
  BY <1>1, <1>3, <1>4, AppendNodes
<1> QED BY <1>1, <1>6, <1>7 DEF m

\* Taking the head off a queue keeps every message that is not like it.
LEMMA PopStays ==
  ASSUME TypeOK, NEW id \in Id, NEW p \in Level, msgq[id][p] # <<>>,
         msgq' = [msgq EXCEPT ![id][p] = Tail(@)], UNCHANGED procs,
         NEW s \in Id, Awaited(s)
  PROVE  Awaited(s)' \/ Head(msgq[id][p]) = [sender |-> s, waiting |-> TRUE]
<1> DEFINE m == [sender |-> s, waiting |-> TRUE]
<1>1. PICK r \in procs, q \in Level : \E i \in DOMAIN msgq[r][q] :
        msgq[r][q][i] = m
  BY DEF Awaited
<1>2. PICK i \in DOMAIN msgq[r][q] : msgq[r][q][i] = m
  BY <1>1
<1>3. r \in Id /\ msgq \in [Id -> [Level -> Seq(Message)]]
  BY DEF TypeOK, SchedulerTypeOK, IpcTypeOK
<1> HIDE DEF m
<1>4. CASE r = id /\ q = p
  <2>1. msgq'[r][q] = Tail(msgq[r][q])
    BY <1>3, <1>4
  <2>2. CASE Head(msgq[id][p]) # m
    <3>1. i - 1 \in DOMAIN msgq'[r][q] /\ msgq'[r][q][i - 1] = m
      BY <1>2, <1>3, <1>4, <2>1, <2>2, TailNodes
    <3> QED BY <3>1 DEF Awaited, m
  <2> QED BY <2>2 DEF m
<1>5. CASE ~(r = id /\ q = p)
  <2>1. msgq'[r][q] = msgq[r][q]
    BY <1>3, <1>5
  <2> QED BY <1>2, <2>1 DEF Awaited, m
<1> QED BY <1>4, <1>5

\* Messages that stay keep waiting senders awaited.
LEMMA StayAwaited ==
  ASSUME MessagesStay, UNCHANGED procs, NEW s, Awaited(s)
  PROVE  Awaited(s)'
  BY DEF MessagesStay, Awaited

\* No step leaves a blocked sender without its message.
LEMMA BlockedSenderStep ==
  ASSUME TypeOK, ExecutingLive, BlockedSenderPending, Next
  PROVE  BlockedSenderPending'
<1> SUFFICES ASSUME NEW s \in procs', state'[s] = "BLOCKED_SENDING"
             PROVE  Awaited(s)'
  BY DEF BlockedSenderPending, Awaited
<1>a. \A x \in procs : state[x] = "BLOCKED_SENDING" => Awaited(x)
  BY DEF BlockedSenderPending, Awaited
<1>b. procs \subseteq Id /\ state \in [Id -> ProcessState]
  BY DEF TypeOK, SchedulerTypeOK
<1>1. CASE Quiet
  BY <1>1, <1>a DEF Quiet, Awaited
<1>2. ASSUME NEW coid \in Id, NEW waiting \in BOOLEAN, SystemSend(coid, waiting)
      PROVE  Awaited(s)'
  <2>1. current \in procs /\ coid \in procs /\ UNCHANGED procs
    BY <1>2 DEF SystemSend, Accepts, ExecutingLive
  <2>2. /\ MessagesStay
        /\ \E p \in Level : \E i \in DOMAIN msgq'[coid][p] :
             msgq'[coid][p][i] = [sender |-> current, waiting |-> waiting]
    BY <1>2, <1>b, <2>1, EnqueueStays DEF SystemSend
  <2>3. state[s] = "BLOCKED_SENDING" \/ (s = current /\ waiting = TRUE)
    BY <1>2, <1>b, <2>1 DEF SystemSend, WakeReceiver, ProcessState
  <2>4. CASE state[s] = "BLOCKED_SENDING"
    BY <2>4, <2>1, <2>2, <1>a, StayAwaited
  <2>5. CASE s = current /\ waiting = TRUE
    BY <2>5, <2>1, <2>2 DEF Awaited
  <2> QED BY <2>3, <2>4, <2>5
<1>3. CASE ReceiveBlocks
  BY <1>3, <1>a, <1>b DEF ReceiveBlocks, Awaited
<1>4. ASSUME NEW p \in Level, ReceiveMessage(p)
      PROVE  Awaited(s)'
  <2>1. current \in Id /\ UNCHANGED procs /\ msgq[current][p] # <<>>
    BY <1>4, <1>b DEF ReceiveMessage, ExecutingLive, IsTopMessage
  <2>2. state[s] = "BLOCKED_SENDING"
    BY <1>4, <1>b, <2>1 DEF ReceiveMessage
  <2>3. Awaited(s)
    BY <2>1, <2>2, <1>a
  <2>4. Awaited(s)' \/ Head(msgq[current][p]) = [sender |-> s, waiting |-> TRUE]
    BY <1>4, <1>b, <2>1, <2>3, PopStays DEF ReceiveMessage
  <2>5. Head(msgq[current][p]) # [sender |-> s, waiting |-> TRUE]
    BY <1>4, <1>b, <2>1 DEF ReceiveMessage
  <2> QED BY <2>4, <2>5
<1>5. ASSUME NEW coid, KernelSend(coid), UNCHANGED procs
      PROVE  Awaited(s)'
  <2>1. state[s] = "BLOCKED_SENDING"
    BY <1>5, <1>b DEF KernelSend, WakeReceiver
  <2>2. Awaited(s)
    BY <1>5, <2>1, <1>a
  <2>3. CASE Accepts(coid, NullId)
    <3>1. coid \in procs /\ MsgEnqueue(coid, NullId, FALSE)
      BY <1>5, <2>3 DEF KernelSend, Accepts
    <3>2. MessagesStay
      BY <2>3, <3>1, EnqueueStays
    <3> QED BY <1>5, <2>2, <3>2, StayAwaited
  <2>4. CASE ~Accepts(coid, NullId)
    BY <1>5, <2>2, <2>4 DEF KernelSend, Awaited
  <2> QED BY <2>3, <2>4
<1>6. CASE Inserts
  <2>1. s \in procs /\ state[s] = "BLOCKED_SENDING"
    BY <1>6, <1>b DEF Inserts, PcbInsert
  <2>2. procs \subseteq procs' /\ UNCHANGED msgq
    BY <1>6 DEF Inserts, PcbInsert
  <2> QED BY <2>1, <2>2, <1>a DEF Awaited
<1>7. CASE KillFinish
  <2>1. s \in procs /\ state[s] = "BLOCKED_SENDING"
    BY <1>7, <1>b DEF KillFinish, PcbRemove
  <2>2. PICK r \in procs, p \in Level : \E i \in DOMAIN msgq[r][p] :
          msgq[r][p][i] = [sender |-> s, waiting |-> TRUE]
    BY <2>1, <1>a DEF Awaited
  <2>3. r # victim
    BY <1>7, <2>2 DEF KillFinish, QueueIsEmpty
  <2>4. r \in procs' /\ UNCHANGED msgq
    BY <1>7, <2>3 DEF KillFinish, PcbRemove, ipcVars
  <2> QED BY <2>2, <2>4 DEF Awaited
<1>8. ASSUME NEW p \in Level, KillFlush(p)
      PROVE  Awaited(s)'
  <2>1. victim \in Id /\ UNCHANGED procs /\ msgq[victim][p] # <<>>
    BY <1>8, <1>b DEF KillFlush, FlushMessage, ExecutingLive, IsTopMessage
  <2>2. state[s] = "BLOCKED_SENDING" /\ s # Head(msgq[victim][p]).sender
    BY <1>8, <1>b, <2>1 DEF KillFlush, FlushMessage
  <2>3. Awaited(s)
    BY <2>1, <2>2, <1>a
  <2>4. msgq' = [msgq EXCEPT ![victim][p] = Tail(@)] /\ s \in Id
    BY <1>8, <1>b, <2>1 DEF KillFlush, FlushMessage
  <2>5. Awaited(s)' \/ Head(msgq[victim][p]) = [sender |-> s, waiting |-> TRUE]
    BY <2>1, <2>3, <2>4, PopStays
  <2> QED BY <2>2, <2>5
<1> QED BY <1>1, <1>2, <1>3, <1>4, <1>5, <1>6, <1>7, <1>8, StepKinds

(***************************************************************************)
(* A process blocked in a waiting send has its message in the queue of an  *)
(* existing process: receiving or flushing the message releases it, also   *)
(* when its receiver is killed or ids are reused.                          *)
(***************************************************************************)
THEOREM NoSenderForgotten == Spec => []BlockedSenderPending
<1>1. Init => BlockedSenderPending
  BY DEF Init, SchedulerInit, BlockedSenderPending
<1>2. TypeOK /\ ExecutingLive /\ BlockedSenderPending /\ [Next]_vars
        => BlockedSenderPending'
  <2>1. CASE UNCHANGED vars
    BY <2>1 DEF vars, schedVars, ipcVars, BlockedSenderPending
  <2> QED BY <2>1, BlockedSenderStep
<1> QED BY <1>1, <1>2, TypeCorrect, PTL DEF Spec

-----------------------------------------------------------------------------
(* Preemption during a load.                                                *)

\* Only the end of a SPAWN turns preemption on, and it drops the load.
LEMMA LoadUnpreemptedStep ==
  ASSUME LoadUnpreempted, Next
  PROVE  LoadUnpreempted'
<1>1. CASE \/ \E id \in Id, pr \in SpawnPriority : BootLoad(id, pr)
           \/ BootStarts \/ BootYield
  BY <1>1 DEF BootLoad, BootStarts, BootStart, BootFlag, BootLink, BootYield,
              processVars, LoadUnpreempted
<1>2. CASE Send \/ SendDriver \/ Receive \/ Yield \/ NoReschedule \/ Register
  BY <1>2 DEF Send, SendDriver, Receive, Yield, NoReschedule, Register,
              EnterSwi, LoadUnpreempted
<1>3. CASE Spawn
  BY <1>3 DEF Spawn, SpawnBegin, LoadUnpreempted
<1>4. CASE SpawnStep
  BY <1>4 DEF SpawnStep, SpawnFail, SpawnLoaded, SpawnFinish, LoadUnpreempted,
              NoLoad
<1>5. CASE Exit \/ Kill \/ Abort \/ UndefinedInstruction
  BY <1>5 DEF Exit, Kill, Abort, UndefinedInstruction, KillBegin, EnterSwi,
              LoadUnpreempted
<1>6. CASE KillStep
  BY <1>6 DEF KillStep, KillFinish, KillFlush, processVars, LoadUnpreempted
<1>7. CASE TimerIrq \/ UartIrq \/ GpioIrq \/ ContextSwitch \/ TestDone \/ Pop
             \/ Stopped
  BY <1>7 DEF TimerIrq, UartIrq, GpioIrq, ContextSwitch, TestDone, Pop, Stopped,
              vars, processVars, LoadUnpreempted
<1> QED BY <1>1, <1>2, <1>3, <1>4, <1>5, <1>6, <1>7 DEF Next, BootStarts

(***************************************************************************)
(* While a SPAWN has frames on the supervisor stack the timer does not     *)
(* preempt, however many spawns were begun, abandoned or lost before.      *)
(***************************************************************************)
THEOREM LoadsAreNotPreempted == Spec => []LoadUnpreempted
<1>1. Init => LoadUnpreempted
  BY DEF Init, ProcessInit, LoadUnpreempted
<1>2. LoadUnpreempted /\ [Next]_vars => LoadUnpreempted'
  <2>1. CASE UNCHANGED vars
    BY <2>1 DEF vars, processVars, LoadUnpreempted
  <2> QED BY <2>1, LoadUnpreemptedStep
<1> QED BY <1>1, <1>2, PTL DEF Spec

=============================================================================
