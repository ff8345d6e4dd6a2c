------------------------------- MODULE Process -------------------------------
(***************************************************************************)
(* Process creation and destruction (process.c), and the supervisor stack  *)
(* they run on.                                                            *)
(*                                                                         *)
(* Every software interrupt starts its handler at the top of one           *)
(* supervisor stack.  SPAWN enables IRQs while process_load reads the      *)
(* file, so an interrupt that reschedules can suspend it with its frames   *)
(* on that stack; the next software interrupt of another process           *)
(* overwrites them.                                                        *)
(***************************************************************************)
EXTENDS Drivers

CONSTANTS
  ReuseLeftover,  \* may a program reuse an id the kernel still remembers?
  MaxNodes        \* bound: run-queue nodes of a level when SPAWN is called

ASSUME ReuseLeftoverAssumption == ReuseLeftover \in BOOLEAN
ASSUME MaxNodesAssumption == MaxNodes \in Nat \ {0}

\* The SPAWN in progress: who asked, what for, and whether the PCB is in the
\* process table yet.
Load == [by : Id \cup {NullId}, id : Id, priority : SpawnPriority,
         stage : {"reading", "loaded"}]
NoLoad == [stage |-> "none"]

VARIABLES
  preempt,  \* scheduling_on: the timer interrupt reschedules
  load,     \* the SPAWN whose frames are on the supervisor stack
  lost,     \* processes suspended in a SPAWN whose frames were overwritten
  victim    \* argument of the process_kill in progress

processVars == <<preempt, load, lost, victim>>

ProcessTypeOK ==
  /\ preempt \in BOOLEAN
  /\ load \in Load \cup {NoLoad}
  /\ lost \subseteq Id \cup {NullId}
  /\ victim \in Id \cup {NullId}

ProcessInit ==
  /\ preempt = FALSE
  /\ load = NoLoad
  /\ lost = {}
  /\ victim = NullId

(***************************************************************************)
(* The kernel still holds something that names id: a run-queue node, a     *)
(* message it sent, a driver entry or an interrupt.                        *)
(***************************************************************************)
QueuedAnywhere(id) == \E p \in Level : \E i \in DOMAIN runq[p] : runq[p][i] = id

SentAnything(id) ==
  \E r \in procs, p \in Level : \E i \in DOMAIN msgq[r][p] :
    msgq[r][p][i].sender = id

Leftover(id) ==
  \/ QueuedAnywhere(id)
  \/ SentAnything(id)
  \/ \E i \in DOMAIN osDrivers : osDrivers[i].id = id
  \/ \E irq \in Irq : irqDriver[irq] = id

MayUse(id) == ReuseLeftover \/ ~Leftover(id)

\* software_interrupt_vector resets the stack pointer: frames of a suspended
\* SPAWN are overwritten.
OverwriteFrames ==
  lost' = IF load = NoLoad THEN lost ELSE lost \cup {load.by}

\* Entry of a system call other than SPAWN.
EnterSwi == OverwriteFrames /\ load' = NoLoad

\* What a process was doing when it was switched away from.
Resume(id) ==
  CASE id \in lost                      -> "undefined"
    [] load # NoLoad /\ load.by = id    -> "loading"
    [] OTHER                            -> "user"

BadSetPreemptiveTimer(on) == preempt' = (preempt \/ on)

\* set_preemptive_timer
SetPreemptiveTimer(on) == preempt' = on

(***************************************************************************)
(* process_spawn up to the call of process_load, which runs with IRQs      *)
(* enabled and timer preemption off.                                       *)
(***************************************************************************)
SpawnBegin(id, pr) ==
  /\ cpu = "user"
  /\ MayUse(id)
  /\ pr \in Level => Len(runq[pr]) < MaxNodes
  /\ OverwriteFrames
  /\ SetPreemptiveTimer(FALSE)
  /\ load' = [by |-> current, id |-> id, priority |-> pr, stage |-> "reading"]
  /\ cpu' = "loading"
  /\ UNCHANGED <<procs, state, priority, isQueued, runq, current, started,
                 starting, ipcVars, driverVars, victim>>

(***************************************************************************)
(* process_load fails: the id is NULL_ID or taken, or the file cannot be   *)
(* read or is no ARM executable.                                           *)
(***************************************************************************)
SpawnFail ==
  /\ cpu = "loading"
  /\ load.stage = "reading"
  /\ SetPreemptiveTimer(TRUE)
  /\ load' = NoLoad
  /\ cpu' = "switch"
  /\ UNCHANGED <<procs, state, priority, isQueued, runq, current, started,
                 starting, ipcVars, driverVars, lost, victim>>

\* process_load succeeds: the id was free and the PCB is inserted.
SpawnLoaded ==
  /\ cpu = "loading"
  /\ load.stage = "reading"
  /\ load.id \notin procs
  /\ PcbInsert(load.id, load.priority)
  /\ load' = [load EXCEPT !.stage = "loaded"]
  /\ UNCHANGED <<runq, current, started, starting, cpu, ipcVars, driverVars,
                 preempt, lost, victim>>

\* Back in process_spawn with IRQs masked: start the new process.
SpawnFinish ==
  /\ cpu = "loading"
  /\ load.stage = "loaded"
  /\ SetPreemptiveTimer(TRUE)
  /\ ProcessStart(load.id)
  /\ load' = NoLoad
  /\ cpu' = "switch"
  /\ UNCHANGED <<procs, state, priority, current, starting, ipcVars, driverVars,
                 lost, victim>>

(***************************************************************************)
(* process_kill.  It flushes the message queue of the process first; with  *)
(* no such process it works on a PCB at address 0.                         *)
(***************************************************************************)
KillBegin(id) ==
  /\ IF id \in procs THEN cpu' = "flush" /\ victim' = id
                     ELSE cpu' = "undefined" /\ UNCHANGED victim
  /\ UNCHANGED <<procs, state, priority, isQueued, runq, current, started,
                 starting, ipcVars, driverVars, preempt>>

KillFlush(p) ==
  /\ cpu = "flush"
  /\ FlushMessage(victim, p)
  /\ UNCHANGED <<driverVars, processVars>>

\* The queue is empty: free the driver entry, the frames' record and the PCB.
KillFinish ==
  /\ cpu = "flush"
  /\ QueueIsEmpty(victim)
  /\ DriverRemove(victim)
  /\ PcbRemove(victim)
  /\ lost' = lost \ {victim}
  /\ victim' = NullId
  /\ cpu' = "switch"
  /\ UNCHANGED <<runq, current, ipcVars, preempt, load>>

=============================================================================
