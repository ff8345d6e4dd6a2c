---------------------------- MODULE MemoryProofs ----------------------------
(***************************************************************************)
(* Sections of physical memory are owned, for any number of processes,     *)
(* sections and mappings, as long as a process_load begins with two vacant *)
(* slots.  Two, because memory_slot_get also takes the byte behind its     *)
(* table for a slot: with two vacant ones the first is a section of RAM.   *)
(*                                                                         *)
(* OwnSections is not inductive: what process_kill frees must be the slot  *)
(* of a process that exists (RunsLive), what a load occupies must be RAM   *)
(* (PeripheralsKept), and the section of a load must be one too            *)
(* (LoadInRam).                                                            *)
(***************************************************************************)
EXTENDS Memory, FiniteSetTheorems, WellFoundedInduction, TLAPS

Ram == FirstSlot .. IoBase - 1

LoadDomain == {"by", "id", "at", "dest", "old", "stage"}

\* What is needed of the types.
Typed ==
  /\ slots \in [0 .. Phys -> {"vacant", "occupied", "io"}]
  /\ physical \in [Id -> 0 .. Phys]
  /\ procs \subseteq Id /\ started \subseteq procs
  /\ load # NoLoad => DOMAIN load = LoadDomain /\ load.id \in Id

\* No slot of the peripherals is ever handed out or freed.
PeripheralsKept == \A s \in IoBase .. Phys - 1 : slots[s] = "io"

\* Whoever runs, or waits for its load, has a PCB.
RunsLive ==
  /\ cpu = "user" => current \in procs
  /\ cpu = "loading" => load # NoLoad /\ (load.by # NullId => current \in procs)

LoadInRam == load # NoLoad => load.dest \in Ram

IInv == Typed /\ PeripheralsKept /\ RunsLive /\ LoadInRam /\ OwnSections

-----------------------------------------------------------------------------
(* memory_slot_get                                                          *)

Less == {p \in Nat \X Nat : p[1] < p[2]}

\* The natural numbers have no infinite descent.
LEMMA LessWellFounded == IsWellFoundedOn(Less, Nat)
<1>1. Less = OpToRel(<, Nat)
  BY DEF Less, OpToRel
<1> QED BY <1>1, NatLessThanWellFounded

\* A set of natural numbers that is not empty has a least element.
LEMMA MinIsLeast ==
  ASSUME NEW S \in SUBSET Nat, S # {}
  PROVE  Min(S) \in S /\ \A y \in S : Min(S) <= y
<1>1. PICK x \in S : \A y \in S : <<y, x>> \notin Less
  BY LessWellFounded, WFMin
<1>2. ASSUME NEW y \in S PROVE x <= y
  <2>1. x \in Nat /\ y \in Nat
    OBVIOUS
  <2>2. y < x => <<y, x>> \in Less
    BY <2>1 DEF Less
  <2> QED BY <1>1, <2>1, <2>2
<1> QED BY <1>2 DEF Min

\* With two vacant slots or more, the slot that memory_slot_get returns was
\* vacant and is one of RAM.
LEMMA SlotGotInRam ==
  ASSUME Typed, PeripheralsKept, Cardinality(Vacant) >= 2
  PROVE  SlotGot \in Ram /\ slots[SlotGot] = "vacant" /\ Vacant # {}
<1> USE SectionsAssumption
<1>1. Vacant \in SUBSET Nat /\ Vacant \subseteq Ram \cup {Phys}
  BY DEF Vacant, Ram, Typed, PeripheralsKept
<1>2. \E x, y \in Vacant : x # y
  <2> SUFFICES ASSUME \A x, y \in Vacant : x = y PROVE FALSE
    OBVIOUS
  <2>1. CASE Vacant = {}
    BY <2>1, FS_EmptySet
  <2>2. CASE Vacant # {}
    <3>1. PICK x \in Vacant : Vacant = {x}
      BY <2>2
    <3>2. Cardinality(Vacant) = 1
      BY <3>1, FS_Singleton, Zenon
    <3> QED BY <3>2
  <2> QED BY <2>1, <2>2
<1>3. Min(Vacant) \in Vacant /\ \A y \in Vacant : Min(Vacant) <= y
  BY <1>1, <1>2, MinIsLeast
<1>4. Min(Vacant) # Phys
  <2>1. PICK y \in Vacant : y # Phys
    BY <1>2
  <2>2. y < Phys
    BY <2>1, <1>1 DEF Ram
  <2> QED BY <2>2, <1>1, <1>3
<1> QED BY <1>1, <1>2, <1>3, <1>4 DEF SlotGot, Vacant

-----------------------------------------------------------------------------
(* One lemma for every kind of step.                                        *)

\* Steps that leave slots and PCBs alone and forget a load, if anything.
LEMMA QuietStep ==
  ASSUME IInv, UNCHANGED <<slots, procs, physical>>, started' \subseteq procs,
         load' \in {load, NoLoad}, RunsLive'
  PROVE  IInv'
<1>1. load' = load \/ load' = NoLoad
  OBVIOUS
<1>2. Typed'
  BY <1>1 DEF IInv, Typed
<1>3. PeripheralsKept'
  BY DEF IInv, PeripheralsKept
<1>4. LoadInRam'
  BY <1>1 DEF IInv, LoadInRam
<1>5. OwnSections'
  BY <1>1 DEF IInv, OwnSections, Pending
<1> QED BY <1>2, <1>3, <1>4, <1>5 DEF IInv

\* The beginning of process_load, which takes a slot for the image.
LEMMA LoadOpenStep ==
  ASSUME KeepFree >= 2, IInv, NEW id \in Id, NEW v \in LinkedAt, LoadOpen(id, v)
  PROVE  IInv'
<1> DEFINE d == SlotGot
<1> USE SectionsAssumption
<1>0. Cardinality(Vacant) >= 2
  <2> DEFINE all == 0 .. Phys
  <2>1. IsFiniteSet(all)
    BY FS_Interval
  <2>2. Vacant \in SUBSET all
    BY DEF Vacant
  <2>3. Cardinality(Vacant) \in Nat
    <3> HIDE DEF all
    <3> QED BY <2>1, <2>2, FS_Subset, FS_CardinalityType
  <2> QED BY <2>3 DEF LoadOpen
<1>1. d \in Ram /\ slots[d] = "vacant" /\ Vacant # {}
  BY <1>0, SlotGotInRam DEF IInv
<1>2. slots' = [slots EXCEPT ![d] = "occupied"]
  BY <1>1 DEF LoadOpen, Occupied
<1>3. /\ DOMAIN load' = LoadDomain
      /\ load'.id = id /\ load'.dest = d /\ load'.stage = "copy"
      /\ load'.by = IF cpu = "boot" THEN NullId ELSE current
  BY DEF LoadOpen, LoadDomain
<1>4. UNCHANGED <<procs, started, physical, current>> /\ cpu' = "loading"
  BY DEF LoadOpen
<1>5. Typed'
  BY <1>2, <1>3, <1>4 DEF IInv, Typed
<1>6. PeripheralsKept'
  BY <1>1, <1>2 DEF IInv, PeripheralsKept, Typed, Ram
<1>7. RunsLive'
  <2>1. load' # NoLoad
    BY <1>3 DEF LoadDomain, NoLoad
  <2>2. cpu = "boot" \/ cpu = "user"
    BY DEF LoadOpen, MayStart, Executes
  <2> QED BY <2>1, <2>2, <1>3, <1>4 DEF IInv, RunsLive
<1>8. LoadInRam'
  BY <1>1, <1>3 DEF LoadInRam
<1>9. OwnSections'
  <2>1. \A p \in procs : physical[p] # d /\ slots'[physical[p]] = "occupied"
    BY <1>1, <1>2 DEF IInv, OwnSections, Typed
  <2>2. slots'[d] = "occupied"
    BY <1>1, <1>2 DEF IInv, Typed, Ram
  <2> QED BY <2>1, <2>2, <1>3, <1>4 DEF IInv, OwnSections
<1> QED BY <1>5, <1>6, <1>7, <1>8, <1>9 DEF IInv

\* The copy of the image and of the first stack frame.
LEMMA LoadCopiesStep ==
  ASSUME IInv, LoadCopy \/ LoadStack
  PROVE  IInv'
<1>1. PICK from \in {"copy", "stack"}, to \in {"stack", "insert"} : LoadStep(from, to)
  BY DEF LoadCopy, LoadStack
<1>2. load # NoLoad /\ Pending /\ DOMAIN load = LoadDomain
  BY <1>1 DEF LoadStep, IInv, RunsLive, Typed, Pending
<1>3. /\ DOMAIN load' = LoadDomain
      /\ load'.id = load.id /\ load'.dest = load.dest /\ load'.by = load.by
  BY <1>1, <1>2 DEF LoadStep, LoadDomain
<1>4. load' # NoLoad
  BY <1>3 DEF LoadDomain, NoLoad
<1>5. UNCHANGED <<slots, procs, started, physical, current, cpu>>
  BY <1>1 DEF LoadStep
<1>6. Typed'
  BY <1>2, <1>3, <1>5 DEF IInv, Typed
<1>7. PeripheralsKept' /\ RunsLive'
  BY <1>2, <1>3, <1>4, <1>5 DEF IInv, PeripheralsKept, RunsLive
<1>8. LoadInRam' /\ OwnSections'
  BY <1>2, <1>3, <1>5 DEF IInv, LoadInRam, Pending, OwnSections
<1> QED BY <1>6, <1>7, <1>8 DEF IInv

\* pcb_insert, from which on the section of the load is its process's.
LEMMA LoadInsertStep ==
  ASSUME IInv, LoadInsert
  PROVE  IInv'
<1> DEFINE id == load.id
<1>1. load # NoLoad /\ load.stage = "insert" /\ DOMAIN load = LoadDomain /\ id \in Id
  BY DEF LoadInsert, IInv, RunsLive, Typed
<1>2. /\ DOMAIN load' = LoadDomain /\ load'.stage = "map"
      /\ load'.id = id /\ load'.by = load.by /\ load'.dest = load.dest
  BY <1>1 DEF LoadInsert, LoadDomain
<1>3. load' # NoLoad
  BY <1>2 DEF LoadDomain, NoLoad
<1>4. /\ procs' = procs \cup {id}
      /\ physical' = [physical EXCEPT ![id] = load.dest]
      /\ UNCHANGED <<slots, started, current, cpu>>
  BY DEF LoadInsert
<1>5. load.dest \in Ram
  BY <1>1 DEF IInv, LoadInRam
<1>6. Typed'
  <2>1. load.dest \in 0 .. Phys
    BY <1>5, SectionsAssumption DEF Ram
  <2>2. physical' \in [Id -> 0 .. Phys]
    BY <2>1, <1>1, <1>4 DEF IInv, Typed
  <2> QED BY <2>2, <1>1, <1>2, <1>4 DEF IInv, Typed
<1>7. PeripheralsKept' /\ RunsLive'
  BY <1>1, <1>2, <1>3, <1>4 DEF IInv, PeripheralsKept, RunsLive
<1>8. LoadInRam'
  BY <1>2, <1>5 DEF LoadInRam
<1>9. OwnSections'
  <2>1. slots[load.dest] = "occupied" /\ \A p \in procs : physical[p] # load.dest
    BY <1>1 DEF IInv, OwnSections, Pending
  <2>2. physical'[id] = load.dest /\ \A p \in procs \ {id} : physical'[p] = physical[p]
    BY <1>1, <1>4 DEF IInv, Typed
  <2>3. \A p \in procs' : slots'[physical'[p]] = "occupied" /\ physical'[p] \in Ram
    BY <2>1, <2>2, <1>4, <1>5 DEF IInv, OwnSections, Ram
  <2>4. \A p, q \in procs' : physical'[p] = physical'[q] => p = q
    BY <2>1, <2>2, <1>4 DEF IInv, OwnSections
  <2>5. ~Pending'
    BY <1>2 DEF Pending
  <2> QED BY <2>3, <2>4, <2>5 DEF OwnSections, Ram
<1> QED BY <1>6, <1>7, <1>8, <1>9 DEF IInv

\* memory_add_mapping, to the PCB of a process that is still there.
LEMMA LoadMapStep ==
  ASSUME IInv, LoadMap
  PROVE  IInv'
<1>1. load # NoLoad /\ DOMAIN load = LoadDomain /\ load.id \in Id
  BY DEF LoadMap, IInv, RunsLive, Typed
<1>2. /\ DOMAIN load' = LoadDomain /\ load'.stage = "close"
      /\ load'.id = load.id /\ load'.by = load.by /\ load'.dest = load.dest
  BY <1>1 DEF LoadMap, LoadDomain
<1>3. load' # NoLoad /\ ~Pending'
  BY <1>2 DEF LoadDomain, NoLoad, Pending
<1>4. /\ UNCHANGED <<slots, procs, started, physical, current>>
      /\ cpu = "loading" /\ (cpu' = "loading" \/ cpu' = "undefined")
  BY DEF LoadMap
<1>5. Typed' /\ PeripheralsKept'
  BY <1>1, <1>2, <1>4 DEF IInv, Typed, PeripheralsKept
<1>6. RunsLive' /\ LoadInRam'
  BY <1>1, <1>2, <1>3, <1>4 DEF IInv, RunsLive, LoadInRam
<1>7. OwnSections'
  BY <1>3, <1>4 DEF IInv, OwnSections
<1> QED BY <1>5, <1>6, <1>7 DEF IInv

\* The process that is killed has a section of its own, which is freed.
LEMMA ProcessKillStep ==
  ASSUME IInv, NEW id \in procs, ProcessKill(id), load' \in {load, NoLoad}
  PROVE  IInv'
<1> USE SectionsAssumption
<1>1. /\ slots' = [slots EXCEPT ![physical[id]] = "vacant"]
      /\ procs' = procs \ {id} /\ started' = started \ {id}
      /\ physical' = [physical EXCEPT ![id] = 0] /\ cpu' = "switch"
  BY DEF ProcessKill, SlotFree
<1>2. id \in Id /\ physical[id] \in Ram
  BY DEF IInv, Typed, OwnSections, Ram
<1>3. load' = load \/ load' = NoLoad
  OBVIOUS
<1>4. Typed'
  <2>1. slots' \in [0 .. Phys -> {"vacant", "occupied", "io"}] /\ physical' \in [Id -> 0 .. Phys]
    BY <1>1, <1>2 DEF IInv, Typed
  <2> QED BY <2>1, <1>1, <1>3 DEF IInv, Typed
<1>5. PeripheralsKept'
  BY <1>1, <1>2 DEF IInv, PeripheralsKept, Typed, Ram
<1>6. RunsLive' /\ LoadInRam'
  BY <1>1, <1>3 DEF IInv, RunsLive, LoadInRam, Pending
<1>7. OwnSections'
  <2>1. \A p \in procs' : p \in procs /\ p \in Id /\ physical'[p] = physical[p]
                                     /\ physical[p] # physical[id]
    BY <1>1 DEF IInv, Typed, OwnSections
  <2>2. \A p \in procs' : slots'[physical'[p]] = "occupied"
    BY <2>1, <1>1 DEF IInv, Typed, OwnSections
  <2>3. Pending => slots[load.dest] = "occupied" /\ load.dest # physical[id] /\ load.dest \in 0 .. Phys
    BY DEF IInv, OwnSections, Pending, LoadInRam, Ram
  <2>4. Pending => slots'[load.dest] = "occupied"
    BY <2>3, <1>1 DEF IInv, Typed
  <2> QED BY <2>1, <2>2, <2>4, <1>3 DEF IInv, OwnSections, Pending
<1> QED BY <1>4, <1>5, <1>6, <1>7 DEF IInv

-----------------------------------------------------------------------------
\* After boot nothing but the slots is in use.
LEMMA InitInv == Init => IInv
<1> SUFFICES ASSUME Init PROVE IInv
  OBVIOUS
<1> USE SectionsAssumption
<1>1. PICK past \in {"vacant", "occupied"} : slots = SlotsInit(past)
  BY DEF Init
<1>2. Typed
  BY <1>1 DEF Init, Typed, SlotsInit
<1>3. PeripheralsKept
  BY <1>1 DEF PeripheralsKept, SlotsInit
<1>4. RunsLive /\ LoadInRam /\ OwnSections
  BY DEF Init, RunsLive, LoadInRam, Pending, OwnSections
<1> QED BY <1>2, <1>3, <1>4 DEF IInv

\* Every step keeps the invariant.
LEMMA StepInv == ASSUME KeepFree >= 2 PROVE IInv /\ [Next]_vars => IInv'
<1> SUFFICES ASSUME IInv, [Next]_vars PROVE IInv'
  OBVIOUS
<1>1. CASE \E id \in Id, v \in LinkedAt : LoadOpen(id, v)
  BY <1>1, LoadOpenStep
<1>2. CASE LoadCopy \/ LoadStack
  BY <1>2, LoadCopiesStep
<1>3. CASE LoadInsert
  BY <1>3, LoadInsertStep
<1>4. CASE LoadClose
  <2>1. RunsLive' /\ started' \subseteq procs
    BY <1>4 DEF LoadClose, RunsLive, IInv, Typed
  <2> QED BY <2>1, <1>4, QuietStep DEF LoadClose
<1>5. CASE Yield \/ \E s \in MapTargets : Mmap(s)
  <2>1. /\ cpu' = "switch" /\ load' = NoLoad
        /\ UNCHANGED <<slots, procs, started, physical>>
    BY <1>5 DEF Yield, Mmap, EnterSwi
  <2>2. RunsLive' /\ started' \subseteq procs
    BY <2>1 DEF RunsLive, IInv, Typed
  <2> QED BY <2>1, <2>2, QuietStep
<1>6. CASE \E id \in Id : Kill(id)
  BY <1>6, ProcessKillStep DEF Kill, Executes
<1>7. CASE Abort
  <2>1. current \in procs /\ ProcessKill(current) /\ load' \in {load, NoLoad}
    BY <1>7 DEF Abort, IInv, RunsLive
  <2> QED BY <2>1, ProcessKillStep
<1>8. CASE GpioIrq
  <2>1. RunsLive' /\ started' \subseteq procs
    BY <1>8 DEF GpioIrq, RunsLive, IInv, Typed
  <2> QED BY <2>1, <1>8, QuietStep DEF GpioIrq
<1>9. CASE ContextSwitch
  <2>1. RunsLive' /\ started' \subseteq procs
    BY <1>9 DEF ContextSwitch, Runnable, RunsLive, IInv, Typed
  <2> QED BY <2>1, <1>9, QuietStep DEF ContextSwitch
<1>10. CASE PopNothing \/ Undefined \/ UNCHANGED vars
  <2>1. UNCHANGED vars
    BY <1>10 DEF PopNothing, Undefined
  <2>2. RunsLive' /\ started' \subseteq procs
    BY <2>1 DEF vars, RunsLive, IInv, Typed
  <2> QED BY <2>1, <2>2, QuietStep DEF vars
<1>11. CASE LoadMap
  BY <1>11, LoadMapStep
<1> QED BY <1>1, <1>2, <1>3, <1>4, <1>5, <1>6, <1>7, <1>8, <1>9, <1>10, <1>11 DEF Next

(***************************************************************************)
(* Sections are owned: every process has an occupied section of RAM of its *)
(* own, apart from that of any load in progress, whatever is spawned,      *)
(* killed, aborted, mapped and suspended half-way.                         *)
(***************************************************************************)
THEOREM SectionsAreOwned ==
  ASSUME KeepFree >= 2
  PROVE  Spec => []OwnSections
<1>1. IInv => OwnSections
  BY DEF IInv
<1> QED BY <1>1, InitInv, StepInv, PTL DEF Spec

=============================================================================
