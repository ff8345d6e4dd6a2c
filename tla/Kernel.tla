------------------------------- MODULE Kernel -------------------------------
(***************************************************************************)
(* The whole kernel: boot (main.c), system calls and interrupts            *)
(* (interrupts.c, start.S), and the properties of the composition.         *)
(***************************************************************************)
EXTENDS Process

CONSTANTS
  SystemCall,   \* system calls the programs of this instance make
  Interrupt     \* interrupts of this instance

ASSUME SystemCallAssumption ==
  SystemCall \subseteq {"IPC_SEND", "IPC_SEND_DRIVER", "IPC_RECV", "YIELD",
                        "PRINT", "EXIT", "KILL", "DRIVER_REGISTER", "SPAWN"}
ASSUME InterruptAssumption ==
  Interrupt \subseteq {"timer", "uart", "gpio", "abort", "undefined"}

VARIABLE test    \* test mode of context_switch_c: "off", "armed", "timing"

vars == <<schedVars, ipcVars, driverVars, processVars, test>>

TypeOK ==
  /\ SchedulerTypeOK
  /\ IpcTypeOK
  /\ DriversTypeOK
  /\ ProcessTypeOK
  /\ test \in {"off", "armed", "timing"}

Init ==
  /\ SchedulerInit
  /\ IpcInit
  /\ DriversInit
  /\ ProcessInit
  /\ test = "off"

-----------------------------------------------------------------------------
(* kernel_main: process_load, process_start, then YIELD.  IRQs are enabled  *)
(* all along, so these steps interleave with interrupts.                    *)

BootLoad(id, pr) ==
  /\ cpu = "boot"
  /\ id \notin procs
  /\ started = {}
  /\ PcbInsert(id, pr)
  /\ UNCHANGED <<runq, current, started, starting, cpu, ipcVars, driverVars,
                 processVars, test>>

(***************************************************************************)
(* process_start, which an interrupt can split: it is entered, it sets     *)
(* is_queued, it links the node.  An interrupt that takes the processor    *)
(* away in between leaves it there for ever.                               *)
(***************************************************************************)
BootStart(id) ==
  /\ cpu = "boot"
  /\ starting = NullId
  /\ id \in procs \ started
  /\ starting' = id
  /\ started' = started \cup {id}
  /\ UNCHANGED <<procs, state, priority, isQueued, runq, current, cpu, ipcVars,
                 driverVars, processVars, test>>

BootFlag ==
  /\ cpu = "boot"
  /\ starting # NullId
  /\ MayEnqueue(starting, state)
  /\ SetQueued(starting)
  /\ UNCHANGED <<procs, state, priority, runq, current, started, starting, cpu,
                 ipcVars, driverVars, processVars, test>>

BootLink ==
  /\ cpu = "boot"
  /\ starting # NullId
  /\ isQueued[starting]
  /\ PriorityEnqueue(starting)
  /\ starting' = NullId
  /\ UNCHANGED <<procs, state, priority, isQueued, current, started, cpu,
                 ipcVars, driverVars, processVars, test>>

BootYield ==
  /\ cpu = "boot"
  /\ started = procs
  /\ starting = NullId
  /\ SetPreemptiveTimer(FALSE)
  /\ cpu' = "switch"
  /\ UNCHANGED <<procs, state, priority, isQueued, runq, current, started,
                 starting, ipcVars, driverVars, load, lost, victim, test>>

-----------------------------------------------------------------------------
(* System calls of the current process (software_interrupt_vector_c).       *)

Calls(name) == name \in SystemCall /\ cpu = "user"

Send ==
  /\ Calls("IPC_SEND")
  /\ \E coid \in Id, waiting \in BOOLEAN : SystemSend(coid, waiting)
  /\ EnterSwi
  /\ UNCHANGED <<driverVars, preempt, victim, test>>

SendDriver ==
  /\ Calls("IPC_SEND_DRIVER")
  /\ \E name \in Name, coid \in Id, waiting \in BOOLEAN :
       DriverIs(name, coid) /\ SystemSend(coid, waiting)
  /\ EnterSwi
  /\ UNCHANGED <<driverVars, preempt, victim, test>>

Receive ==
  /\ Calls("IPC_RECV")
  /\ ReceiveBlocks \/ \E p \in Level : ReceiveMessage(p)
  /\ EnterSwi
  /\ UNCHANGED <<driverVars, preempt, victim, test>>

Yield ==
  /\ Calls("YIELD")
  /\ cpu' = "switch"
  /\ EnterSwi
  /\ UNCHANGED <<procs, state, priority, isQueued, runq, current, started,
                 starting, ipcVars, driverVars, preempt, victim, test>>

(***************************************************************************)
(* A call that returns to its caller without touching the kernel's state:  *)
(* DUMMY, PRINT_*, a send to nobody, a SPAWN with a bad mode.              *)
(***************************************************************************)
NoReschedule ==
  /\ Calls("PRINT")
  /\ EnterSwi
  /\ UNCHANGED <<schedVars, ipcVars, driverVars, preempt, victim, test>>

Register ==
  /\ Calls("DRIVER_REGISTER")
  /\ \E name \in Name : DriverRegister(name)
  /\ EnterSwi
  /\ UNCHANGED <<preempt, victim, test>>

Spawn ==
  /\ Calls("SPAWN")
  /\ \E id \in Id, pr \in SpawnPriority : SpawnBegin(id, pr)
  /\ UNCHANGED test

SpawnStep ==
  /\ SpawnFail \/ SpawnLoaded \/ SpawnFinish
  /\ UNCHANGED test

Exit ==
  /\ Calls("EXIT")
  /\ KillBegin(current)
  /\ EnterSwi
  /\ UNCHANGED test

Kill ==
  /\ Calls("KILL")
  /\ \E id \in Id : KillBegin(id)
  /\ EnterSwi
  /\ UNCHANGED test

KillStep ==
  /\ KillFinish \/ \E p \in Level : KillFlush(p)
  /\ UNCHANGED test

-----------------------------------------------------------------------------
(* Interrupts and exceptions.                                               *)

IrqsEnabled == cpu \in {"boot", "user", "loading"}

TimerIrq ==
  /\ "timer" \in Interrupt
  /\ IrqsEnabled
  /\ KernelSend(irqDriver["timer"])
  /\ cpu' = IF preempt THEN "switch" ELSE cpu
  /\ UNCHANGED <<procs, priority, current, started, starting, vectorsIntact,
                 driverVars, processVars, test>>

UartIrq ==
  /\ "uart" \in Interrupt
  /\ IrqsEnabled
  /\ KernelSend(irqDriver["uart"])
  /\ UNCHANGED <<procs, priority, current, started, starting, cpu,
                 vectorsIntact, driverVars, processVars, test>>

\* Boot may be about to set the tail of a list whose head it has set.
TailMissing ==
  /\ cpu = "boot" /\ starting # NullId
  /\ isQueued[starting]
  /\ priority[starting] \in Level
  /\ runq[priority[starting]] = <<>>

(***************************************************************************)
(* The GPIO interrupt reschedules, whatever it interrupted, and the first  *)
(* one starts the test mode.  A list that has a head and no tail behaves   *)
(* as an empty one until its node is popped; priority_pop then stores      *)
(* through its next pointer, NULL, into the vectors.                       *)
(***************************************************************************)
GpioIrq ==
  /\ "gpio" \in Interrupt
  /\ IrqsEnabled
  /\ test' = IF test = "off" THEN "armed" ELSE test
  /\ cpu' = "switch" \/ (TailMissing /\ cpu' = "undefined")
  /\ UNCHANGED <<procs, state, priority, isQueued, runq, current, started,
                 starting, ipcVars, driverVars, processVars>>

(***************************************************************************)
(* An aborting instruction, of the program or of the load it asked for,    *)
(* kills the process.                                                      *)
(***************************************************************************)
Abort ==
  /\ "abort" \in Interrupt
  /\ cpu \in {"user", "loading"}
  /\ KillBegin(current)
  /\ load' = IF cpu = "loading" THEN NoLoad ELSE load
  /\ UNCHANGED <<lost, test>>

\* So does an undefined instruction, as long as its vector is there.
UndefinedInstruction ==
  /\ "undefined" \in Interrupt
  /\ cpu = "user"
  /\ IF vectorsIntact
     THEN KillBegin(current)
     ELSE /\ cpu' = "undefined"
          /\ UNCHANGED <<procs, state, priority, isQueued, runq, current,
                         started, starting, ipcVars, driverVars, preempt,
                         victim>>
  /\ UNCHANGED <<load, lost, test>>

-----------------------------------------------------------------------------
(* context_switch_c                                                         *)

ContextSwitch ==
  /\ RequeueCurrent
  /\ test' = IF test = "armed" THEN "timing" ELSE test
  /\ UNCHANGED <<ipcVars, driverVars, processVars>>

\* A second after the test began, the next switch prints and stops.
TestDone ==
  /\ cpu = "switch"
  /\ test = "timing"
  /\ cpu' = "halted"
  /\ UNCHANGED <<procs, state, priority, isQueued, runq, current, started,
                 starting, ipcVars, driverVars, processVars, test>>

Pop ==
  /\ \/ \E p \in Level : SkipDead(p)
     \/ \E p \in Level : Dispatch(p, Resume(Head(runq[p])))
     \/ PopNothing
  /\ UNCHANGED <<ipcVars, driverVars, processVars, test>>

\* Nothing the model describes happens any more.
Stopped ==
  /\ cpu \in {"halted", "undefined"}
  /\ UNCHANGED vars

Next ==
  \/ \E id \in Id, pr \in SpawnPriority : BootLoad(id, pr)
  \/ \E id \in Id : BootStart(id)
  \/ BootFlag \/ BootLink \/ BootYield
  \/ Send \/ SendDriver \/ Receive \/ Yield \/ NoReschedule \/ Register
  \/ Spawn \/ SpawnStep \/ Exit \/ Kill \/ KillStep
  \/ TimerIrq \/ UartIrq \/ GpioIrq \/ Abort \/ UndefinedInstruction
  \/ ContextSwitch \/ TestDone \/ Pop \/ Stopped

Spec == Init /\ [][Next]_vars

(***************************************************************************)
(* kernel_main and the kernel run on.  The program that executes returns   *)
(* to the kernel: it sends, receives or yields, or the timer preempts it.  *)
(***************************************************************************)
KernelRuns ==
  \/ \E id \in Id : BootStart(id)
  \/ BootFlag \/ BootLink \/ BootYield \/ SpawnStep \/ KillStep \/ ContextSwitch \/ Pop
ProgramReturns == Send \/ Receive \/ Yield \/ (TimerIrq /\ preempt)

FairSpec == Spec /\ WF_vars(KernelRuns) /\ WF_vars(ProgramReturns)

-----------------------------------------------------------------------------
(* Strengthenings the proofs need; runs check them as well.                 *)

\* The core executes on behalf of a process that exists, and kills one.
ExecutingLive ==
  /\ cpu \in {"user", "loading", "flush"} => current \in procs
  /\ cpu = "flush" => victim \in procs

(***************************************************************************)
(* The is_queued flag of an existing process is backed by a node; the one  *)
(* exception is a process that boot is starting, or was starting when an   *)
(* interrupt took the processor away for good.                             *)
(***************************************************************************)
FlagHasNode ==
  \A id \in procs \ {starting} : isQueued[id] /\ priority[id] \in Level =>
    \E i \in DOMAIN runq[priority[id]] : runq[priority[id]][i] = id

\* With the same exception, a started READY process is flagged, or running and
\* not yet switched from.
ReadyFlagged ==
  \A id \in started \ {starting} : state[id] = "READY" =>
    isQueued[id] \/ (id = current /\ cpu # "pick")

-----------------------------------------------------------------------------
(* What holds whatever ids the programs use.                                *)

(***************************************************************************)
(* No process is forgotten: one that was started, is READY and has a       *)
(* priority the run queues have, is running or on a run queue; once        *)
(* reschedule pops, it is on a run queue.  The exception is the process    *)
(* whose start was cut short in boot: nothing ever starts it again.        *)
(***************************************************************************)
NoLostProcess ==
  \A id \in started \ {starting} :
    state[id] = "READY" /\ priority[id] \in Level =>
      \/ QueuedAnywhere(id)
      \/ id = current /\ cpu # "pick"

(***************************************************************************)
(* No wake-up is lost: nothing waits in the queue of a process that is     *)
(* blocked in IPC_RECV.                                                    *)
(***************************************************************************)
BlockedReceiverEmpty ==
  \A id \in procs : state[id] = "BLOCKED_RECEIVING" => QueueIsEmpty(id)

(***************************************************************************)
(* No sender waits for ever on a message that is gone, neither received    *)
(* nor flushed with its receiver: a process blocked in a waiting send has  *)
(* such a message in the queue of an existing process.                     *)
(***************************************************************************)
BlockedSenderPending ==
  \A s \in procs : state[s] = "BLOCKED_SENDING" =>
    \E r \in procs, p \in Level : \E i \in DOMAIN msgq[r][p] :
      msgq[r][p][i] = [sender |-> s, waiting |-> TRUE]

(***************************************************************************)
(* Timer preemption is off as long as a SPAWN has frames on the supervisor *)
(* stack, whatever spawns were begun and abandoned meanwhile (process.c    *)
(* 195: "disable rescheduling for time interrupts").                       *)
(***************************************************************************)
LoadUnpreempted == load # NoLoad => ~preempt

-----------------------------------------------------------------------------
(* What holds as long as no id is reused that the kernel still remembers.   *)

(***************************************************************************)
(* The run queues and the process table agree: a process has at most one   *)
(* node over all levels, and the node of an existing process is at its     *)
(* level while the process is READY and flagged as queued.                 *)
(***************************************************************************)
RunQueuesConsistent ==
  \A p, q \in Level : \A i \in DOMAIN runq[p], j \in DOMAIN runq[q] :
    LET id == runq[p][i] IN
    /\ id = runq[q][j] => p = q /\ i = j
    /\ id \in procs => /\ isQueued[id]
                       /\ state[id] = "READY"
                       /\ priority[id] = p

(***************************************************************************)
(* Only a READY process executes: a blocked or killed one is never         *)
(* resumed.                                                                *)
(***************************************************************************)
RunningReady ==
  cpu \in {"user", "loading"} =>
    /\ current \in procs
    /\ state[current] = "READY"
    /\ ~isQueued[current]

(***************************************************************************)
(* reschedule selects the highest priority (scheduler.c 143): the process  *)
(* it resumes has the highest priority of all that are started and READY,  *)
(* but for one whose start was cut short in boot.                          *)
(***************************************************************************)
HighestPriority ==
  [][cpu = "pick" /\ cpu' # "pick" =>
       \A id \in started' \ {starting} :
         state'[id] = "READY" /\ priority'[id] \in Level =>
           priority'[id] <= priority'[current']]_vars

\* Places of the messages process s waits for.
Pending(s) ==
  {at \in procs \X Level \X (1 .. MaxMsgs) :
     LET queue == msgq[at[1]][at[2]] IN
       /\ at[3] \in DOMAIN queue
       /\ queue[at[3]] = [sender |-> s, waiting |-> TRUE]}

(***************************************************************************)
(* The rendezvous of a waiting send, as long as no process is killed: a    *)
(* process is blocked sending exactly while one message it waits for is    *)
(* queued, and never has two.                                              *)
(***************************************************************************)
Rendezvous ==
  \A s \in procs :
    Cardinality(Pending(s)) = IF state[s] = "BLOCKED_SENDING" THEN 1 ELSE 0

\* The process is started, READY and at the highest level there is.
Eligible(id) ==
  id \in started /\ state[id] = "READY" /\ priority[id] = NumPriorities - 1

(***************************************************************************)
(* Round robin: a READY process of the highest priority gets the           *)
(* processor, however often the others of its level are woken up and       *)
(* queued again.                                                           *)
(***************************************************************************)
RoundRobin ==
  \A id \in Id : Eligible(id) ~> (cpu = "user" /\ current = id) \/ ~Eligible(id)

-----------------------------------------------------------------------------
(* What the comments of the code say and the code does not do; see README.  *)

(***************************************************************************)
(* interrupts.c 120, "Undefined interrupt handler": an undefined           *)
(* instruction reaches the handler, which kills the process.               *)
(***************************************************************************)
UndefinedHandled == [][UndefinedInstruction => cpu' = "flush"]_vars

=============================================================================
