--------------------------------- MODULE Ipc ---------------------------------
(***************************************************************************)
(* Message passing (ipc.c): every PCB holds one FIFO of messages per       *)
(* priority level; a sender may wait until its message is received.        *)
(* Payloads and their truncation are left out.                             *)
(***************************************************************************)
EXTENDS Scheduler

CONSTANT MaxMsgs    \* bound: messages of one level waiting at one process

ASSUME MaxMsgsAssumption == MaxMsgs \in Nat \ {0}

VARIABLES
  msgq,          \* PCB_t.msg_queue: by receiver and level, head first
  vectorsIntact  \* the exception vectors at address 0 are unmodified

ipcVars == <<msgq, vectorsIntact>>

\* Senders of a message; a message of the kernel is never waited for.
Message == [sender : Id \cup {NullId}, waiting : BOOLEAN]

EmptyQueue == [p \in Level |-> <<>>]

IpcTypeOK ==
  /\ msgq \in [Id -> [Level -> Seq(Message)]]
  /\ vectorsIntact \in BOOLEAN

IpcInit ==
  /\ msgq = [id \in Id |-> EmptyQueue]
  /\ vectorsIntact = TRUE

QueueIsEmpty(id) == \A p \in Level : msgq[id][p] = <<>>

\* The level ipc_dequeue takes the next message of a process from.
IsTopMessage(id, p) ==
  /\ msgq[id][p] # <<>>
  /\ \A q \in Level : q > p => msgq[id][q] = <<>>

\* A message is queued at its sender's level; the kernel's at the highest.
MessageLevel(sender) ==
  IF sender = NullId THEN NumPriorities - 1 ELSE priority[sender]

\* ipc_msg_enqueue does not return -1
Accepts(coid, sender) == coid \in procs /\ MessageLevel(sender) \in Level

HasRoom(coid, sender) == Len(msgq[coid][MessageLevel(sender)]) < MaxMsgs

MsgEnqueue(coid, sender, waiting) ==
  msgq' = [msgq EXCEPT ![coid][MessageLevel(sender)] =
             Append(@, [sender |-> sender, waiting |-> waiting])]

BadAwaitsMessage(coid, st) == FALSE

\* The receiver is blocked in IPC_RECV.
AwaitsMessage(coid, st) == st[coid] = "BLOCKED_RECEIVING"

BadWakeReceiver(coid, st) ==
  /\ state' = IF AwaitsMessage(coid, st) THEN [st EXCEPT ![coid] = "READY"] ELSE st
  /\ UNCHANGED <<isQueued, runq>>

\* The receiver becomes READY if it was waiting for a message, where st
\* are the process states after the sender's own state was set.
WakeReceiver(coid, st) ==
  IF AwaitsMessage(coid, st)
  THEN /\ state' = [st EXCEPT ![coid] = "READY"]
       /\ SchedulerEnqueue(coid, [st EXCEPT ![coid] = "READY"])
  ELSE /\ state' = st
       /\ UNCHANGED <<isQueued, runq>>

(***************************************************************************)
(* system_send to a process that exists; system_send_driver is the same    *)
(* once the name is looked up.                                             *)
(***************************************************************************)
SystemSend(coid, waiting) ==
  /\ cpu = "user"
  /\ Accepts(coid, current)
  /\ HasRoom(coid, current)
  /\ MsgEnqueue(coid, current, waiting)
  /\ WakeReceiver(coid, IF waiting
                        THEN [state EXCEPT ![current] = "BLOCKED_SENDING"]
                        ELSE state)
  /\ cpu' = "switch"
  /\ UNCHANGED <<procs, priority, current, started, starting, vectorsIntact>>

(***************************************************************************)
(* ipc_kernel_send, called by an interrupt handler.                        *)
(***************************************************************************)
KernelSend(coid) ==
  IF Accepts(coid, NullId)
  THEN /\ HasRoom(coid, NullId)
       /\ MsgEnqueue(coid, NullId, FALSE)
       /\ WakeReceiver(coid, state)
  ELSE UNCHANGED <<msgq, state, isQueued, runq>>

BadReleasesOnReceive(m) == TRUE

\* WAITING_SEND of a message: receiving it releases its sender.
ReleasesOnReceive(m) == m.waiting

(***************************************************************************)
(* system_receive with a message in the queue.  A waiting sender is made   *)
(* READY without looking at what it is doing; when it no longer exists the *)
(* store through the NULL PCB writes READY over the undefined-instruction  *)
(* vector.                                                                 *)
(***************************************************************************)
ReceiveMessage(p) ==
  /\ cpu = "user"
  /\ IsTopMessage(current, p)
  /\ LET m == Head(msgq[current][p])
         st == IF ReleasesOnReceive(m) /\ m.sender \in procs
               THEN [state EXCEPT ![m.sender] = "READY"]
               ELSE state IN
       /\ state' = st
       /\ IF ReleasesOnReceive(m)
          THEN SchedulerEnqueue(m.sender, st)
          ELSE UNCHANGED <<isQueued, runq>>
       /\ vectorsIntact' = (vectorsIntact
                              /\ (ReleasesOnReceive(m) => m.sender \in procs))
  /\ msgq' = [msgq EXCEPT ![current][p] = Tail(@)]
  /\ cpu' = "switch"
  /\ UNCHANGED <<procs, priority, current, started, starting>>

\* system_receive with an empty queue
ReceiveBlocks ==
  /\ cpu = "user"
  /\ QueueIsEmpty(current)
  /\ state' = [state EXCEPT ![current] = "BLOCKED_RECEIVING"]
  /\ cpu' = "switch"
  /\ UNCHANGED <<procs, priority, isQueued, runq, current, started, starting,
                 msgq, vectorsIntact>>

BadReleasesOnFlush(s) == FALSE

\* Flushing a message releases its sender if that is blocked on any send.
ReleasesOnFlush(s) == s \in procs /\ state[s] = "BLOCKED_SENDING"

(***************************************************************************)
(* One round of ipc_flush_msg_queue(id): pop a message and release its     *)
(* sender if that is blocked sending, whatever message it is blocked on.   *)
(* The state read through the NULL PCB of a dead sender or of the kernel   *)
(* is a word of the vector table, never BLOCKED_SENDING (0).               *)
(***************************************************************************)
FlushMessage(id, p) ==
  /\ IsTopMessage(id, p)
  /\ LET s == Head(msgq[id][p]).sender IN
       IF ReleasesOnFlush(s)
       THEN /\ state' = [state EXCEPT ![s] = "READY"]
            /\ SchedulerEnqueue(s, [state EXCEPT ![s] = "READY"])
       ELSE UNCHANGED <<state, isQueued, runq>>
  /\ msgq' = [msgq EXCEPT ![id][p] = Tail(@)]
  /\ UNCHANGED <<procs, priority, current, started, starting, cpu,
                 vectorsIntact>>

=============================================================================
