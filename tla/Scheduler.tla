------------------------------ MODULE Scheduler ------------------------------
(***************************************************************************)
(* The process table (pcb.c) and the priority run queues (scheduler.c) of  *)
(* kybOS, and the state every other part of the kernel shares.             *)
(*                                                                         *)
(* The kernel runs on one core with IRQs masked, except where `cpu' says   *)
(* otherwise, so a handler is one step.  A handler that asks for a         *)
(* reschedule leaves the processor in phase "switch"; context_switch_c     *)
(* then enqueues the interrupted process and pops run-queue nodes, one     *)
(* step per pop, until it meets a process that still exists.               *)
(*                                                                         *)
(* Process ids are assumed non-negative: NullId is id 0.                   *)
(***************************************************************************)
EXTENDS Integers, Sequences, FiniteSets

CONSTANTS
  Id,             \* process ids a program or the kernel may use
  NullId,         \* NULL_ID: the kernel itself, or nobody
  NumPriorities,  \* NUM_PRIORITIES, 64 in the code
  SpawnPriority   \* priorities processes are loaded with, in range or not

ASSUME IdAssumption == NullId \notin Id
ASSUME NumPrioritiesAssumption == NumPriorities \in Nat \ {0}
ASSUME SpawnPriorityAssumption == SpawnPriority \subseteq Nat

Level == 0 .. NumPriorities - 1

ProcessState == {"BLOCKED_SENDING", "BLOCKED_RECEIVING", "READY"}

\* What the core is executing.
Phase == {"boot",       \* kernel_main, IRQs enabled
          "user",       \* the current process, IRQs enabled
          "loading",    \* process_load on behalf of SPAWN, IRQs enabled
          "flush",      \* process_kill emptying a message queue
          "switch",     \* entering context_switch_c
          "pick",       \* the pop loop of reschedule
          "halted",     \* the test mode's endless loop
          "undefined"}  \* undefined behaviour was reached

VARIABLES
  procs,      \* ids that have a PCB
  state,      \* PCB_t.state
  priority,   \* PCB_t.priority
  isQueued,   \* PCB_t.is_queued
  runq,       \* priority_array: run-queue nodes, by level, head first
  current,    \* current_running_process
  started,    \* history: processes process_start was called for
  starting,   \* the one kernel_main is inside process_start for, if any
  cpu         \* what the core is executing

schedVars == <<procs, state, priority, isQueued, runq, current, started,
               starting, cpu>>

SchedulerTypeOK ==
  /\ procs \subseteq Id
  /\ state \in [Id -> ProcessState]
  /\ priority \in [Id -> Nat]
  /\ isQueued \in [Id -> BOOLEAN]
  /\ runq \in [Level -> Seq(Id)]
  /\ current \in Id \cup {NullId}
  /\ started \subseteq procs
  /\ starting \in Id \cup {NullId}
  /\ cpu \in Phase

SchedulerInit ==
  /\ procs = {}
  /\ state = [id \in Id |-> "READY"]
  /\ priority = [id \in Id |-> 0]
  /\ isQueued = [id \in Id |-> FALSE]
  /\ runq = [p \in Level |-> <<>>]
  /\ current = NullId
  /\ started = {}
  /\ starting = NullId
  /\ cpu = "boot"

(***************************************************************************)
(* pcb_insert of the PCB process_load builds: READY and not queued.        *)
(***************************************************************************)
PcbInsert(id, pr) ==
  /\ procs' = procs \cup {id}
  /\ state' = [state EXCEPT ![id] = "READY"]
  /\ priority' = [priority EXCEPT ![id] = pr]
  /\ isQueued' = [isQueued EXCEPT ![id] = FALSE]

(***************************************************************************)
(* pcb_remove.  The fields of a freed PCB are never read again (pcb_get    *)
(* returns NULL), so they go back to their initial values.  Nodes of the   *)
(* run queues that name the process stay where they are.                   *)
(***************************************************************************)
PcbRemove(id) ==
  /\ procs' = procs \ {id}
  /\ state' = [state EXCEPT ![id] = "READY"]
  /\ priority' = [priority EXCEPT ![id] = 0]
  /\ isQueued' = [isQueued EXCEPT ![id] = FALSE]
  /\ started' = started \ {id}
  /\ starting' = IF starting = id THEN NullId ELSE starting

\* The faulty variants below, all named Bad..., are not part of the
\* specification: replacing the definition that follows one by it must break
\* the property it is kept for.
BadMayEnqueueTwice(id, st) == id \in procs /\ st[id] = "READY"
BadMayEnqueueBlocked(id, st) == id \in procs /\ ~isQueued[id]

\* scheduler_enqueue enqueues existing, READY processes not yet queued.
MayEnqueue(id, st) == id \in procs /\ st[id] = "READY" /\ ~isQueued[id]

BadAppendNode(queue, id) == <<id>> \o queue

\* priority_enqueue: at the tail
AppendNode(queue, id) == Append(queue, id)

\* The two assignments of scheduler_enqueue.  A priority outside the array is
\* only noticed by priority_enqueue, after is_queued was set.
SetQueued(id) == isQueued' = [isQueued EXCEPT ![id] = TRUE]
PriorityEnqueue(id) ==
  runq' = IF priority[id] \in Level
          THEN [runq EXCEPT ![priority[id]] = AppendNode(@, id)]
          ELSE runq

\* scheduler_enqueue with IRQs masked, when the process states are st
SchedulerEnqueue(id, st) ==
  IF MayEnqueue(id, st) THEN SetQueued(id) /\ PriorityEnqueue(id)
                        ELSE UNCHANGED <<isQueued, runq>>

BadProcessStart(id) == SchedulerEnqueue(id, state) /\ started' = started \cup {id}

\* process_start of a process, if it exists, with IRQs masked
ProcessStart(id) ==
  /\ SchedulerEnqueue(id, state)
  /\ started' = started \cup ({id} \cap procs)

(***************************************************************************)
(* context_switch_c up to the pop loop: reschedule first puts the process  *)
(* that was running back at the tail of its level, if it is still READY.   *)
(***************************************************************************)
RequeueCurrent ==
  /\ cpu = "switch"
  /\ IF current # NullId THEN SchedulerEnqueue(current, state)
                         ELSE UNCHANGED <<isQueued, runq>>
  /\ cpu' = "pick"
  /\ UNCHANGED <<procs, state, priority, current, started, starting>>

BadIsTopLevel(p) ==
  runq[p] # <<>> /\ \A q \in Level : q < p => runq[q] = <<>>

\* p is the level pop_highest_priority pops from
IsTopLevel(p) ==
  /\ runq[p] # <<>>
  /\ \A q \in Level : q > p => runq[q] = <<>>

\* priority_pop
PriorityPop(p) == runq' = [runq EXCEPT ![p] = Tail(@)]

BadPoppedExists(p) == TRUE

\* The node at the head of the level names a process that exists.
PoppedExists(p) == Head(runq[p]) \in procs

BadClearQueued(id) == UNCHANGED isQueued

ClearQueued(id) == isQueued' = [isQueued EXCEPT ![id] = FALSE]

\* The popped node names a process that no longer exists: pop again.
SkipDead(p) ==
  /\ cpu = "pick"
  /\ IsTopLevel(p)
  /\ ~PoppedExists(p)
  /\ PriorityPop(p)
  /\ UNCHANGED <<procs, state, priority, isQueued, current, started, starting,
                 cpu>>

(***************************************************************************)
(* The popped node names an existing process: it becomes the current one,  *)
(* whatever its state, and the switch resumes it in the given phase.       *)
(***************************************************************************)
Dispatch(p, phase) ==
  /\ cpu = "pick"
  /\ IsTopLevel(p)
  /\ PoppedExists(p)
  /\ ClearQueued(Head(runq[p]))
  /\ current' = Head(runq[p])
  /\ cpu' = phase
  /\ PriorityPop(p)
  /\ UNCHANGED <<procs, state, priority, started, starting>>

(***************************************************************************)
(* No node is left: reschedule pops for ever, with IRQs masked.            *)
(***************************************************************************)
PopNothing ==
  /\ cpu = "pick"
  /\ \A p \in Level : runq[p] = <<>>
  /\ UNCHANGED schedVars

=============================================================================
