------------------------------- MODULE Memory -------------------------------
(***************************************************************************)
(* Memory of processes (memory.c, mmu.c): the slots of physical memory,    *)
(* the mappings of each process, and the one page table that process_load, *)
(* MMAP and context_switch_c rewrite.  A section is 1 MB.                  *)
(*                                                                         *)
(* Of the rest of the kernel this module keeps which processes exist and   *)
(* were started, which one runs, and the SPAWN whose frames are on the     *)
(* supervisor stack (see Process).  Any started process may be next, and   *)
(* any that has the id of one killed in the run queue.                     *)
(*                                                                         *)
(* A timer interrupt does what YIELD does: preemption is off while a load  *)
(* is suspended.  KILL of an id without a PCB is Process's.                *)
(***************************************************************************)
EXTENDS Integers, Sequences, FiniteSets, FiniteSetsExt

CONSTANTS
  Id,         \* process ids but NULL_ID
  NullId,     \* NULL_ID
  Phys,       \* sections of physical memory, 1024 in the code
  IoBase,     \* the first one of the peripherals, 1008
  FirstSlot,  \* where memory_slot_get starts to look, 10
  TableSize,  \* entries of page_table, 1024
  LinkedAt,   \* sections the programs are linked at
  MapTargets, \* sections MMAP is asked for
  MaxMaps,    \* bound: mappings of a process
  KeepFree,   \* bound: a load starts with that many vacant slots
  Interrupt   \* subset of {"gpio", "abort"}

ASSUME SectionsAssumption ==
  /\ {Phys, IoBase, FirstSlot, TableSize, MaxMaps, KeepFree} \subseteq Nat
  /\ 0 < FirstSlot /\ FirstSlot < IoBase /\ IoBase < Phys /\ Phys <= TableSize
  /\ LinkedAt \subseteq 1 .. TableSize - 1 /\ MapTargets \subseteq 0 .. Phys - 1
ASSUME NullIdAssumption == NullId \notin Id

Section == 0 .. Phys - 1
Virtual == 0 .. TableSize - 1

VARIABLES
  slots,     \* memory_slots_physical, and the byte that follows it
  table,     \* page_table
  procs,     \* processes with a PCB
  started,   \* those that process_start was called for
  stale,     \* ids that process_kill may have left in the run queue
  physical,  \* physical_address of their PCBs
  maps,      \* their mappings, latest first
  current,   \* current_running_process
  load,      \* the process_load whose frames are on the supervisor stack
  lost,      \* processes suspended in one whose frames were overwritten
  content,   \* whose code and whose stack a section holds
  cpu        \* what the processor executes

vars == <<slots, table, procs, started, stale, physical, maps, current, load,
          lost, content, cpu>>

NoLoad == [by |-> "nobody"]
Nothing == [code |-> NullId, stack |-> NullId]

-----------------------------------------------------------------------------
(* Slots of physical memory.                                                *)

\* memory_init, with an arbitrary byte after the table
SlotsInit(past) ==
  [s \in 0 .. Phys |->
     CASE s = 0 -> "occupied" [] s = Phys -> past
       [] s \in IoBase .. Phys - 1 -> "io" [] OTHER -> "vacant"]

(***************************************************************************)
(* memory_slot_get: the first vacant slot; the search ends one slot past   *)
(* the table, and with section 0, NULL.                                    *)
(***************************************************************************)
Vacant == {s \in FirstSlot .. Phys : slots[s] = "vacant"}

SlotGot == IF Vacant = {} THEN 0 ELSE Min(Vacant)

BadOccupied(s) == slots

\* The table after memory_slot_get returned s.
Occupied(s) == IF Vacant = {} THEN slots ELSE [slots EXCEPT ![s] = "occupied"]

\* memory_slot_free
SlotFree(s) == [slots EXCEPT ![s] = "vacant"]

-----------------------------------------------------------------------------
(* The page table.  What an entry says of access is left out: mmu_init      *)
(* makes domain 0 a manager domain, and the processor does not look at it.  *)

Entry == [to : 0 .. Phys, device : BOOLEAN] \cup {[to |-> -1]}
Unmapped == [to |-> -1]
MapsTo(s, device) == [to |-> s, device |-> device]

BadInitialTable ==
  [v \in 0 .. TableSize |->
     CASE v = 0 -> MapsTo(0, FALSE)
       [] v \in IoBase .. Phys -> MapsTo(v, TRUE)
       [] OTHER -> Unmapped]

\* mmu_init_table; the entries it writes beyond page_table are in README.
InitialTable ==
  [v \in Virtual |->
     CASE v = 0 -> MapsTo(0, FALSE)
       [] v \in IoBase .. Phys - 1 -> MapsTo(v, TRUE)
       [] OTHER -> Unmapped]

\* mmu_remap_section
Remap(t, v, entry) == [t EXCEPT ![v] = entry]

\* The process names virtual section v, and what it last said about it:
\* the oldest mapping is performed last.
Names(id, v) == \E i \in DOMAIN maps[id] : maps[id][i].virtual = v
Target(id, v) ==
  LET named == {i \in DOMAIN maps[id] : maps[id][i].virtual = v}
  IN maps[id][Max(named)].physical

BadPerformUnmapping(t, id) == t

\* memory_perform_process_unmapping
PerformUnmapping(t, id) ==
  [v \in Virtual |-> IF Names(id, v) THEN Unmapped ELSE t[v]]

\* memory_perform_process_mapping: no cache for peripherals.
PerformMapping(t, id) ==
  [v \in Virtual |->
     IF Names(id, v)
     THEN MapsTo(Target(id, v), slots[Target(id, v)] = "io")
     ELSE t[v]]

\* virtual_memory_slot_get: the first section the process does not use, or
\* section 0, NULL.
VirtualSlot(id) ==
  LET free == {v \in Virtual \ {0} : ~Names(id, v)}
  IN IF free = {} THEN 0 ELSE Min(free)

AddMapping(id, v, s) == maps' = [maps EXCEPT ![id] = <<[virtual |-> v, physical |-> s]>> \o @]

-----------------------------------------------------------------------------
(* process_load.  The new image is written through the page table.          *)

\* A software interrupt overwrites the frames of a suspended load.
OverwriteFrames == lost' = IF load = NoLoad THEN lost ELSE lost \cup {load.by}
EnterSwi == load' = NoLoad /\ OverwriteFrames

\* A process without mappings is aborted at its first instruction.
Executes == cpu = "user" /\ maps[current] # <<>>

MayStart(id) == (cpu = "boot" \/ Executes) /\ id \notin procs

\* Slot, old mapping of the section it is linked at, and window onto the slot.
LoadOpen(id, v) ==
  /\ MayStart(id)
  /\ Cardinality(Vacant) >= KeepFree
  /\ load' = [by |-> IF cpu = "boot" THEN NullId ELSE current, id |-> id,
              at |-> v, dest |-> SlotGot, old |-> table[v], stage |-> "copy"]
  /\ slots' = Occupied(SlotGot)
  /\ table' = Remap(table, v, MapsTo(SlotGot, FALSE))
  /\ cpu' = "loading"
  /\ OverwriteFrames
  /\ UNCHANGED <<procs, started, stale, physical, maps, current, content>>

\* A store through the window.
Store(part) ==
  /\ table[load.at] # Unmapped
  /\ content' = [content EXCEPT ![table[load.at].to][part] = load.id]

LoadStep(from, to) ==
  /\ cpu = "loading" /\ load.stage = from
  /\ load' = [load EXCEPT !.stage = to]
  /\ UNCHANGED <<slots, procs, started, stale, physical, maps, current, lost, cpu>>

LoadCopy == LoadStep("copy", "stack") /\ Store("code") /\ UNCHANGED table

\* _process_stack_init
LoadStack == LoadStep("stack", "insert") /\ Store("stack") /\ UNCHANGED table

\* pcb_insert.  With a node left in the run queue the process may be
\* dispatched from now on.
LoadInsert ==
  /\ cpu = "loading" /\ load.stage = "insert"
  /\ procs' = procs \cup {load.id}
  /\ physical' = [physical EXCEPT ![load.id] = load.dest]
  /\ maps' = [maps EXCEPT ![load.id] = <<>>]
  /\ load' = [load EXCEPT !.stage = "map"]
  /\ UNCHANGED <<slots, table, started, stale, current, lost, content, cpu>>

\* memory_add_mapping.  If the process was aborted meanwhile, it works on a
\* PCB at address 0.
LoadMap ==
  /\ cpu = "loading" /\ load.stage = "map"
  /\ IF load.id \in procs
     THEN AddMapping(load.id, load.at, load.dest) /\ UNCHANGED cpu
     ELSE cpu' = "undefined" /\ UNCHANGED maps
  /\ load' = [load EXCEPT !.stage = "close"]
  /\ UNCHANGED <<slots, table, procs, started, stale, physical, current, lost, content>>

\* The window is closed; process_start, and a switch unless it is the boot.
LoadClose ==
  /\ cpu = "loading" /\ load.stage = "close"
  /\ table' = Remap(table, load.at, load.old)
  /\ started' = started \cup ({load.id} \cap procs)
  /\ cpu' = IF load.by = NullId THEN "boot" ELSE "switch"
  /\ load' = NoLoad
  /\ UNCHANGED <<slots, procs, stale, physical, maps, current, lost, content>>

-----------------------------------------------------------------------------
(* System calls, interrupts and context_switch_c.                           *)

Yield ==
  /\ cpu = "boot" \/ Executes
  /\ cpu' = "switch"
  /\ EnterSwi
  /\ UNCHANGED <<slots, table, procs, started, stale, physical, maps, current, content>>

\* memory_map: a section that is mapped already keeps its place.
Mmap(s) ==
  /\ Executes
  /\ IF \E i \in DOMAIN maps[current] : maps[current][i].physical = s
     THEN UNCHANGED maps
     ELSE /\ Len(maps[current]) < MaxMaps
          /\ AddMapping(current, VirtualSlot(current), s)
  /\ cpu' = "switch"
  /\ EnterSwi
  /\ UNCHANGED <<slots, table, procs, started, stale, physical, current, content>>

\* process_kill: the PCB is gone, and with it the list of mappings, but not
\* the node of a process that waits to run.  What a vacant section holds
\* does not matter.
ProcessKill(id) ==
  /\ slots' = SlotFree(physical[id])
  /\ procs' = procs \ {id}
  /\ started' = started \ {id}
  /\ stale' = stale \cup ({id} \ {current})
  /\ physical' = [physical EXCEPT ![id] = 0]
  /\ maps' = [maps EXCEPT ![id] = <<>>]
  /\ cpu' = "switch"
  /\ content' = [content EXCEPT ![physical[id]] = Nothing]
  /\ UNCHANGED <<table, current>>

\* EXIT and KILL
Kill(id) ==
  /\ Executes /\ id \in procs
  /\ ProcessKill(id)
  /\ load' = NoLoad
  /\ lost' = (IF load = NoLoad THEN lost ELSE lost \cup {load.by}) \ {id}

\* An abort of the program, or of the load it asked for, as a store through
\* an unmapped window is.
Abort ==
  /\ "abort" \in Interrupt
  /\ cpu = "user" \/ (cpu = "loading" /\ load.by # NullId)
  /\ ProcessKill(current)
  /\ load' = IF cpu = "loading" THEN NoLoad ELSE load
  /\ UNCHANGED lost

GpioIrq ==
  /\ "gpio" \in Interrupt
  /\ cpu \in {"boot", "user", "loading"}
  /\ cpu' = "switch"
  /\ UNCHANGED <<slots, table, procs, started, stale, physical, maps, current, load,
                 lost, content>>

\* The table while no process is mapped.
Cleaned == IF current \in procs THEN PerformUnmapping(table, current) ELSE InitialTable

\* The processes that may have a node in the run queue.
Runnable == started \cup (procs \cap stale)

ContextSwitch ==
  /\ cpu = "switch"
  /\ \E next \in Runnable :
       /\ current' = next
       /\ table' = PerformMapping(Cleaned, next)
       /\ cpu' = CASE next \in lost -> "undefined"
                    [] next \notin lost /\ load # NoLoad /\ load.by = next -> "loading"
                    [] OTHER -> "user"
  /\ UNCHANGED <<slots, procs, started, stale, physical, maps, load, lost, content>>

\* reschedule pops for ever
PopNothing == cpu = "switch" /\ Runnable = {} /\ UNCHANGED vars

\* Nothing the model describes happens any more.
Undefined == cpu = "undefined" /\ UNCHANGED vars

-----------------------------------------------------------------------------
Init ==
  /\ \E past \in {"vacant", "occupied"} : slots = SlotsInit(past)
  /\ table = InitialTable
  /\ procs = {} /\ started = {} /\ stale = {}
  /\ physical = [id \in Id |-> 0]
  /\ maps = [id \in Id |-> <<>>]
  /\ current = NullId
  /\ load = NoLoad
  /\ lost = {}
  /\ content = [s \in 0 .. Phys |-> Nothing]
  /\ cpu = "boot"

Next ==
  \/ \E id \in Id, v \in LinkedAt : LoadOpen(id, v)
  \/ LoadCopy \/ LoadStack \/ LoadInsert \/ LoadMap \/ LoadClose
  \/ Yield
  \/ \E s \in MapTargets : Mmap(s)
  \/ \E id \in Id : Kill(id)
  \/ Abort \/ GpioIrq
  \/ ContextSwitch \/ PopNothing \/ Undefined

Spec == Init /\ [][Next]_vars

-----------------------------------------------------------------------------
(* Properties.                                                              *)

TypeOK ==
  /\ slots \in [0 .. Phys -> {"vacant", "occupied", "io"}]
  /\ table \in [Virtual -> Entry]
  /\ started \subseteq procs /\ procs \subseteq Id /\ stale \subseteq Id
  /\ physical \in [Id -> 0 .. Phys]
  /\ \A id \in Id : maps[id] \in Seq([virtual : Virtual, physical : 0 .. Phys])
  /\ current \in Id \cup {NullId}
  /\ load = NoLoad \/ load.id \in Id
  /\ lost \subseteq Id \cup {NullId}
  /\ content \in [0 .. Phys -> [code : Id \cup {NullId}, stack : Id \cup {NullId}]]
  /\ cpu \in {"boot", "loading", "user", "switch", "undefined"}

\* A load whose section is not yet that of a process.
Pending == load # NoLoad /\ load.stage \in {"copy", "stack", "insert"}

(***************************************************************************)
(* Sections are owned: every process has an occupied section of RAM of its *)
(* own, which no process_load in progress was given, through any sequence  *)
(* of spawns, kills and loads that abort.                                  *)
(***************************************************************************)
OwnSections ==
  /\ \A id \in procs : slots[physical[id]] = "occupied" /\ physical[id] \in FirstSlot .. IoBase - 1
  /\ \A id, other \in procs : physical[id] = physical[other] => id = other
  /\ Pending =>
       slots[load.dest] = "occupied" /\ \A id \in procs : physical[id] # load.dest

(***************************************************************************)
(* Address spaces: what a process is executed with is its own image, its   *)
(* own MMAPs, the peripherals uncached, and the kernel's sections.         *)
(* Nothing of another process, of a killed one, or of a load is left in    *)
(* the table.                                                              *)
(***************************************************************************)
OwnAddressSpace ==
  cpu = "user" =>
    \A v \in Virtual :
      table[v] = IF Names(current, v)
                 THEN MapsTo(Target(current, v), Target(current, v) >= IoBase)
                 ELSE InitialTable[v]

-----------------------------------------------------------------------------
(* What the comments of the code say and the code does not do; see README.  *)

(***************************************************************************)
(* process.c 119, "the new process should go in here!": the section of a   *)
(* process that was started holds the code and the stack of that process.  *)
(***************************************************************************)
LoadedInPlace ==
  \A id \in started : content[physical[id]] = [code |-> id, stack |-> id]

=============================================================================
