------------------------- MODULE AddressSpaceProofs -------------------------
(***************************************************************************)
(* Types of Memory, and address spaces: what a process is executed with is *)
(* its own, for any number of processes, sections and mappings, as long as *)
(* all programs are linked at one section below the peripherals, and no    *)
(* process maps so many sections that it runs into theirs.                 *)
(*                                                                         *)
(* OwnAddressSpace is about the table after a context switch; the argument *)
(* is about the table before one.  Whatever loads, MMAPs and kills did to  *)
(* it, the sections that the current process does not name are as after    *)
(* mmu_init (OthersAsAtBoot): a load only ever touches the section it is   *)
(* linked at, and every process that has mappings names that one           *)
(* (LinkedIsNamed); a process that asked for a load has some               *)
(* (LoaderIsMapped).                                                       *)
(***************************************************************************)
EXTENDS MemoryProofs

Mapping == [virtual : Virtual, physical : 0 .. Phys]

\* The fields of a load and the lists of mappings.
FieldsTyped ==
  /\ maps \in [Id -> Seq(Mapping)]
  /\ load # NoLoad =>
       /\ DOMAIN load = LoadDomain
       /\ load.by \in Id \cup {NullId} /\ load.id \in Id
       /\ load.at \in LinkedAt /\ load.dest \in 0 .. Phys /\ load.old \in Entry

TInv == TypeOK /\ FieldsTyped

-----------------------------------------------------------------------------
(* Largest and smallest elements                                            *)

\* A set of natural numbers that is bounded and not empty has a largest one.
LEMMA MaxIsElement ==
  ASSUME NEW n \in Nat, NEW S \in SUBSET (1 .. n), S # {}
  PROVE  Max(S) \in S
<1> DEFINE T == {n - i : i \in S}
<1>1. T \in SUBSET Nat /\ T # {}
  <2>1. \A i \in S : n - i \in Nat
    OBVIOUS
  <2> QED BY <2>1
<1>2. Min(T) \in T /\ \A y \in T : Min(T) <= y
  BY <1>1, MinIsLeast
<1>3. PICK x \in S : Min(T) = n - x
  BY <1>2
<1>4. \A i \in S : n - x <= n - i
  BY <1>2, <1>3
<1>5. \A i \in S : x >= i
  BY <1>4
<1> QED BY <1>3, <1>5 DEF Max

\* The section a name stands for is one of those the process mapped.
LEMMA TargetIsMapped ==
  ASSUME maps \in [Id -> Seq(Mapping)], NEW id \in Id, NEW v, Names(id, v)
  PROVE  \E i \in DOMAIN maps[id] : Target(id, v) = maps[id][i].physical
<1> DEFINE named == {i \in DOMAIN maps[id] : maps[id][i].virtual = v}
<1>1. maps[id] \in Seq(Mapping)
  OBVIOUS
<1>2. named \in SUBSET (1 .. Len(maps[id])) /\ named # {}
  BY <1>1 DEF Names
<1>3. Len(maps[id]) \in Nat
  BY <1>1
<1> HIDE DEF named
<1>4. Max(named) \in named
  BY <1>2, <1>3, MaxIsElement
<1> QED BY <1>4 DEF Target, named

\* virtual_memory_slot_get returns a section of the table.
LEMMA VirtualSlotInTable ==
  ASSUME NEW id
  PROVE  VirtualSlot(id) \in Virtual
<1> DEFINE free == {v \in Virtual \ {0} : ~Names(id, v)}
<1>1. CASE free = {}
  BY <1>1, SectionsAssumption DEF VirtualSlot, Virtual
<1>2. CASE free # {}
  <2>1. free \in SUBSET Nat
    BY DEF Virtual
  <2>2. Min(free) \in free
    <3> HIDE DEF free
    <3> QED BY <1>2, <2>1, MinIsLeast
  <2> QED BY <1>2, <2>2 DEF VirtualSlot
<1> QED BY <1>1, <1>2

-----------------------------------------------------------------------------
(* Types                                                                    *)

\* mmu_init_table and what is done to a page table make a page table.
LEMMA TablesTyped ==
  ASSUME NEW t \in [Virtual -> Entry]
  PROVE  /\ InitialTable \in [Virtual -> Entry]
         /\ \A v \in Virtual, e \in Entry : Remap(t, v, e) \in [Virtual -> Entry]
         /\ \A s \in 0 .. Phys, d \in BOOLEAN : MapsTo(s, d) \in Entry
         /\ \A id : PerformUnmapping(t, id) \in [Virtual -> Entry]
<1> USE SectionsAssumption
<1>1. /\ Unmapped \in Entry
      /\ \A s \in 0 .. Phys, d \in BOOLEAN : MapsTo(s, d) \in Entry
  BY DEF Entry, Unmapped, MapsTo
<1>2. InitialTable \in [Virtual -> Entry]
  <2> DEFINE e(v) == CASE v = 0 -> MapsTo(0, FALSE)
                       [] v \in IoBase .. Phys - 1 -> MapsTo(v, TRUE)
                       [] OTHER -> Unmapped
  <2>0. \A s \in 0 .. Phys : MapsTo(s, FALSE) \in Entry /\ MapsTo(s, TRUE) \in Entry
    BY DEF Entry, MapsTo
  <2>1. MapsTo(0, FALSE) \in Entry
    <3>1. 0 \in 0 .. Phys
      OBVIOUS
    <3> QED BY <2>0, <3>1
  <2>2. \A v \in IoBase .. Phys - 1 : v \in 0 .. Phys /\ v # 0
    OBVIOUS
  <2>3. \A v \in IoBase .. Phys - 1 : MapsTo(v, TRUE) \in Entry
    BY <2>0, <2>2
  <2>4. \A v \in Virtual : e(v) \in Entry
    BY <1>1, <2>1, <2>2, <2>3
  <2>5. InitialTable = [v \in Virtual |-> e(v)]
    BY DEF InitialTable
  <2> HIDE DEF e
  <2> QED BY <2>4, <2>5
<1>3. \A id : PerformUnmapping(t, id) \in [Virtual -> Entry]
  BY <1>1 DEF PerformUnmapping
<1>4. \A v \in Virtual, e \in Entry : Remap(t, v, e) \in [Virtual -> Entry]
  BY DEF Remap
<1> QED BY <1>1, <1>2, <1>3, <1>4

\* So do the mappings of a process.
LEMMA MappingTyped ==
  ASSUME NEW t \in [Virtual -> Entry], maps \in [Id -> Seq(Mapping)],
         NEW id \in Id
  PROVE  PerformMapping(t, id) \in [Virtual -> Entry]
<1>1. ASSUME NEW v \in Virtual, Names(id, v)
      PROVE  MapsTo(Target(id, v), slots[Target(id, v)] = "io") \in Entry
  <2>1. PICK i \in DOMAIN maps[id] : Target(id, v) = maps[id][i].physical
    BY <1>1, TargetIsMapped
  <2>2. maps[id] \in Seq(Mapping)
    OBVIOUS
  <2>3. maps[id][i] \in Mapping
    BY <2>2
  <2>4. Target(id, v) \in 0 .. Phys
    BY <2>1, <2>3 DEF Mapping
  <2>5. (slots[Target(id, v)] = "io") \in BOOLEAN
    OBVIOUS
  <2> QED BY <2>4, <2>5, TablesTyped
<1> QED BY <1>1 DEF PerformMapping

\* memory_slot_get returns a slot, the byte behind the table, or NULL.
LEMMA SlotGotTyped == SlotGot \in 0 .. Phys
<1>1. Vacant \in SUBSET Nat /\ Vacant \subseteq 0 .. Phys
  BY SectionsAssumption DEF Vacant
<1>2. Vacant # {} => Min(Vacant) \in Vacant
  BY <1>1, MinIsLeast
<1>3. 0 \in 0 .. Phys
  BY SectionsAssumption
<1>4. CASE Vacant = {}
  BY <1>3, <1>4 DEF SlotGot
<1>5. CASE Vacant # {}
  BY <1>1, <1>2, <1>5 DEF SlotGot
<1> QED BY <1>4, <1>5

\* Those of a load are an id, a section of the table, a slot and an entry.
LEMMA LoadFields ==
  ASSUME FieldsTyped, load # NoLoad
  PROVE  /\ load.id \in Id /\ load.at \in LinkedAt /\ load.at \in Virtual
         /\ load.dest \in 0 .. Phys /\ load.old \in Entry
         /\ load.by \in Id \cup {NullId}
<1>1. /\ load.id \in Id /\ load.at \in LinkedAt /\ load.dest \in 0 .. Phys
      /\ load.old \in Entry /\ load.by \in Id \cup {NullId}
  BY DEF FieldsTyped
<1>2. LinkedAt \subseteq Virtual
  BY SectionsAssumption DEF Virtual
<1> QED BY <1>1, <1>2

\* Moving a load on keeps its fields.
LEMMA StageKeepsFields ==
  ASSUME FieldsTyped, load # NoLoad, NEW to,
         load' = [load EXCEPT !.stage = to], maps' \in [Id -> Seq(Mapping)]
  PROVE  FieldsTyped' /\ load' # NoLoad /\ load'.by = load.by
         /\ load'.id = load.id /\ load'.at = load.at /\ load'.stage = to
<1>1. /\ DOMAIN load' = LoadDomain
      /\ load'.by = load.by /\ load'.id = load.id /\ load'.at = load.at
      /\ load'.dest = load.dest /\ load'.old = load.old /\ load'.stage = to
  BY DEF FieldsTyped, LoadDomain
<1>2. load' # NoLoad
  BY <1>1 DEF LoadDomain, NoLoad
<1> QED BY <1>1, <1>2 DEF FieldsTyped

\* Whoever runs, or waits for its load, has a PCB: no assumption on vacant
\* slots is needed for that.
LEMMA RunsLiveStep ==
  ASSUME TInv, RunsLive, [Next]_vars
  PROVE  RunsLive'
<1>1. ASSUME NEW id \in Id, NEW v \in LinkedAt, LoadOpen(id, v)
      PROVE  RunsLive'
  <2>1. /\ DOMAIN load' = LoadDomain
        /\ load'.by = IF cpu = "boot" THEN NullId ELSE current
        /\ UNCHANGED <<procs, current>> /\ cpu \in {"boot", "user"}
        /\ cpu' = "loading"
    BY <1>1 DEF LoadOpen, LoadDomain, MayStart, Executes
  <2>2. load' # NoLoad
    BY <2>1 DEF LoadDomain, NoLoad
  <2> QED BY <2>1, <2>2 DEF RunsLive
<1>2. CASE LoadCopy \/ LoadStack \/ LoadInsert
  <2>1. /\ cpu = "loading" /\ cpu' = cpu /\ current' = current
        /\ procs \subseteq procs' /\ \E to : load' = [load EXCEPT !.stage = to]
    BY <1>2 DEF LoadCopy, LoadStack, LoadStep, LoadInsert
  <2>2. load # NoLoad /\ DOMAIN load = LoadDomain
    BY <2>1 DEF RunsLive, TInv, FieldsTyped
  <2>3. DOMAIN load' = LoadDomain /\ load'.by = load.by
    BY <2>1, <2>2 DEF LoadDomain
  <2>4. load' # NoLoad
    BY <2>3 DEF LoadDomain, NoLoad
  <2> QED BY <2>1, <2>3, <2>4 DEF RunsLive
<1>3. CASE LoadClose \/ Yield \/ (\E s \in MapTargets : Mmap(s))
             \/ (\E id \in Id : Kill(id)) \/ Abort \/ GpioIrq
  BY <1>3 DEF LoadClose, Yield, Mmap, Kill, Abort, ProcessKill, GpioIrq, RunsLive
<1>4. CASE ContextSwitch
  BY <1>4 DEF ContextSwitch, Runnable, RunsLive, TInv, TypeOK
<1>5. CASE PopNothing \/ Undefined \/ UNCHANGED vars
  BY <1>5 DEF PopNothing, Undefined, vars, RunsLive
<1>6. CASE LoadMap
  <2>1. /\ cpu = "loading" /\ (cpu' = "loading" \/ cpu' = "undefined")
        /\ UNCHANGED <<procs, current>> /\ load' = [load EXCEPT !.stage = "close"]
    BY <1>6 DEF LoadMap
  <2>2. load # NoLoad /\ DOMAIN load = LoadDomain
    BY <2>1 DEF RunsLive, TInv, FieldsTyped
  <2>3. DOMAIN load' = LoadDomain /\ load'.by = load.by
    BY <2>1, <2>2 DEF LoadDomain
  <2>4. load' # NoLoad
    BY <2>3 DEF LoadDomain, NoLoad
  <2> QED BY <2>1, <2>3, <2>4 DEF RunsLive
<1> QED BY <1>1, <1>2, <1>3, <1>4, <1>5, <1>6 DEF Next

\* memory_add_mapping: a mapping more for a process.
LEMMA AddedTyped ==
  ASSUME maps \in [Id -> Seq(Mapping)], NEW id \in Id, NEW m \in Mapping,
         maps' = [maps EXCEPT ![id] = <<m>> \o @]
  PROVE  /\ maps' \in [Id -> Seq(Mapping)]
         /\ \A p \in Id : maps'[p] \in Seq([virtual : Virtual, physical : 0 .. Phys])
<1>1. maps[id] \in Seq(Mapping) /\ <<m>> \in Seq(Mapping)
  OBVIOUS
<1>2. <<m>> \o maps[id] \in Seq(Mapping)
  BY <1>1
<1>3. maps' \in [Id -> Seq(Mapping)]
  BY <1>2
<1> QED BY <1>3 DEF Mapping

\* The steps of process_load.
LEMMA LoadTypeStep ==
  ASSUME TInv, RunsLive,
         \/ \E id \in Id, v \in LinkedAt : LoadOpen(id, v)
         \/ LoadCopy \/ LoadStack \/ LoadInsert \/ LoadMap \/ LoadClose
  PROVE  TInv'
<1> USE SectionsAssumption
<1>1. ASSUME NEW id \in Id, NEW v \in LinkedAt, LoadOpen(id, v)
      PROVE  TInv'
  <2>1. SlotGot \in 0 .. Phys /\ v \in Virtual
    BY SlotGotTyped DEF Virtual
  <2>2. slots' \in [0 .. Phys -> {"vacant", "occupied", "io"}]
    BY <1>1, <2>1 DEF LoadOpen, Occupied, TInv, TypeOK
  <2>3. table' \in [Virtual -> Entry] /\ table[v] \in Entry
    <3>1. MapsTo(SlotGot, FALSE) \in Entry /\ table \in [Virtual -> Entry]
      BY <2>1 DEF MapsTo, Entry, TInv, TypeOK
    <3> QED BY <1>1, <2>1, <3>1, TablesTyped DEF LoadOpen
  <2>4. /\ DOMAIN load' = LoadDomain
        /\ load'.by \in Id \cup {NullId} /\ load'.id = id
        /\ load'.at = v /\ load'.dest = SlotGot /\ load'.old = table[v]
    BY <1>1 DEF LoadOpen, LoadDomain, TInv, TypeOK
  <2>5. lost' \subseteq Id \cup {NullId}
    BY <1>1 DEF LoadOpen, OverwriteFrames, TInv, TypeOK, FieldsTyped
  <2>6. FieldsTyped'
    BY <1>1, <2>1, <2>3, <2>4 DEF LoadOpen, FieldsTyped, TInv
  <2>7. TypeOK'
    BY <1>1, <2>2, <2>3, <2>4, <2>5 DEF LoadOpen, TInv, TypeOK
  <2> QED BY <2>6, <2>7 DEF TInv
<1>2. ASSUME NEW part \in {"code", "stack"}, NEW from, NEW to,
             LoadStep(from, to), Store(part), UNCHANGED table
      PROVE  TInv'
  <2>1. load # NoLoad /\ load' = [load EXCEPT !.stage = to] /\ maps' = maps
    BY <1>2 DEF LoadStep, RunsLive
  <2>2. FieldsTyped' /\ load'.id \in Id
    BY <2>1, StageKeepsFields DEF TInv, FieldsTyped
  <2>3. load.id \in Id /\ load.at \in Virtual
    BY <2>1, LoadFields DEF TInv
  <2>4. table[load.at].to \in 0 .. Phys
    BY <1>2, <2>3 DEF Store, Unmapped, Entry, TInv, TypeOK
  <2>5. content' \in [0 .. Phys -> [code : Id \cup {NullId}, stack : Id \cup {NullId}]]
    <3> DEFINE s == table[load.at].to
               Held == [code : Id \cup {NullId}, stack : Id \cup {NullId}]
    <3>1. content \in [0 .. Phys -> Held] /\ s \in 0 .. Phys
      BY <2>4 DEF TInv, TypeOK
    <3>2. [content[s] EXCEPT ![part] = load.id] \in Held
      BY <1>2, <2>3, <3>1
    <3>3. content' = [content EXCEPT ![s] = [content[s] EXCEPT ![part] = load.id]]
      BY <1>2 DEF Store
    <3> HIDE DEF s, Held
    <3>4. content' \in [0 .. Phys -> Held]
      BY <3>1, <3>2, <3>3
    <3> QED BY <3>4 DEF Held
  <2> QED BY <1>2, <2>2, <2>5 DEF LoadStep, TInv, TypeOK
<1>3. CASE LoadInsert
  <2>1. load # NoLoad
    BY <1>3 DEF LoadInsert, RunsLive
  <2>2. /\ load.id \in Id /\ load.at \in Virtual /\ load.dest \in 0 .. Phys
    BY <2>1, LoadFields DEF TInv
  <2>4. maps' \in [Id -> Seq(Mapping)]
    <3>1. <<>> \in Seq(Mapping)
      OBVIOUS
    <3> QED BY <1>3, <3>1 DEF LoadInsert, TInv, FieldsTyped
  <2>5. FieldsTyped' /\ load'.id \in Id
    BY <1>3, <2>1, <2>2, <2>4, StageKeepsFields DEF LoadInsert, TInv
  <2>6. \A id \in Id : maps'[id] \in Seq([virtual : Virtual, physical : 0 .. Phys])
    BY <2>4 DEF Mapping
  <2>7. physical' \in [Id -> 0 .. Phys] /\ procs' \subseteq Id /\ started' \subseteq procs'
    BY <1>3, <2>2 DEF LoadInsert, TInv, TypeOK
  <2> QED BY <1>3, <2>5, <2>6, <2>7 DEF LoadInsert, TInv, TypeOK
<1>4. CASE LoadClose
  <2>1. load # NoLoad
    BY <1>4 DEF LoadClose, RunsLive
  <2>2. load.at \in Virtual /\ load.old \in Entry
    BY <2>1, LoadFields DEF TInv
  <2>3. table' \in [Virtual -> Entry]
    BY <1>4, <2>2, TablesTyped DEF LoadClose, TInv, TypeOK
  <2> QED BY <1>4, <2>3 DEF LoadClose, TInv, TypeOK, FieldsTyped
<1>5. CASE LoadCopy
  BY <1>2, <1>5 DEF LoadCopy
<1>6. CASE LoadStack
  BY <1>2, <1>6 DEF LoadStack
<1>7. CASE LoadMap
  <2> DEFINE m == [virtual |-> load.at, physical |-> load.dest]
  <2>1. load # NoLoad
    BY <1>7 DEF LoadMap, RunsLive
  <2>2. load.id \in Id /\ load.at \in Virtual /\ load.dest \in 0 .. Phys
    BY <2>1, LoadFields DEF TInv
  <2>3. m \in Mapping
    BY <2>2 DEF Mapping
  <2>4. maps' = maps \/ maps' = [maps EXCEPT ![load.id] = <<m>> \o @]
    BY <1>7 DEF LoadMap, AddMapping
  <2>5. /\ maps' \in [Id -> Seq(Mapping)]
        /\ \A id \in Id : maps'[id] \in Seq([virtual : Virtual, physical : 0 .. Phys])
    <3> HIDE DEF m
    <3>1. maps \in [Id -> Seq(Mapping)]
      BY DEF TInv, FieldsTyped
    <3>2. CASE maps' = maps
      BY <3>1, <3>2 DEF Mapping
    <3>3. CASE maps' = [maps EXCEPT ![load.id] = <<m>> \o @]
      BY <2>2, <2>3, <3>1, <3>3, AddedTyped
    <3> QED BY <2>4, <3>2, <3>3
  <2>6. FieldsTyped' /\ load'.id \in Id
    BY <1>7, <2>1, <2>2, <2>5, StageKeepsFields DEF LoadMap, TInv
  <2>7. /\ UNCHANGED <<slots, table, procs, started, stale, physical, current, lost, content>>
        /\ cpu' \in {"loading", "undefined"}
    BY <1>7 DEF LoadMap
  <2> QED BY <2>5, <2>6, <2>7 DEF TInv, TypeOK
<1> QED BY <1>1, <1>3, <1>4, <1>5, <1>6, <1>7

\* System calls, interrupts and the context switch.
LEMMA SwitchTypeStep ==
  ASSUME TInv, RunsLive,
         \/ Yield
         \/ \E s \in MapTargets : Mmap(s)
         \/ \E id \in Id : Kill(id)
         \/ Abort \/ GpioIrq \/ ContextSwitch \/ PopNothing \/ Undefined
         \/ UNCHANGED vars
  PROVE  TInv'
<1> USE SectionsAssumption
<1>1. CASE Yield
  BY <1>1 DEF Yield, EnterSwi, OverwriteFrames, TInv, TypeOK, FieldsTyped
<1>2. ASSUME NEW s \in MapTargets, Mmap(s)
      PROVE  TInv'
  <2>1. /\ UNCHANGED <<slots, table, procs, started, stale, physical, current, content>>
        /\ cpu' = "switch" /\ load' = NoLoad /\ lost' \subseteq Id \cup {NullId}
    BY <1>2 DEF Mmap, EnterSwi, OverwriteFrames, TInv, TypeOK, FieldsTyped
  <2>2. /\ maps' \in [Id -> Seq(Mapping)]
        /\ \A id \in Id : maps'[id] \in Seq([virtual : Virtual, physical : 0 .. Phys])
    <3> DEFINE m == [virtual |-> VirtualSlot(current), physical |-> s]
    <3>1. current \in Id
      BY <1>2 DEF Mmap, Executes, RunsLive, TInv, TypeOK
    <3>2. s \in 0 .. Phys
      OBVIOUS
    <3>3. m \in Mapping
      BY <3>2, VirtualSlotInTable DEF Mapping
    <3>4. maps' = maps \/ maps' = [maps EXCEPT ![current] = <<m>> \o @]
      BY <1>2 DEF Mmap, AddMapping
    <3> HIDE DEF m
    <3>5. maps \in [Id -> Seq(Mapping)]
      BY DEF TInv, FieldsTyped
    <3>6. CASE maps' = maps
      BY <3>5, <3>6 DEF Mapping
    <3>7. CASE maps' = [maps EXCEPT ![current] = <<m>> \o @]
      BY <3>1, <3>3, <3>5, <3>7, AddedTyped
    <3> QED BY <3>4, <3>6, <3>7
  <2> QED BY <2>1, <2>2 DEF TInv, TypeOK, FieldsTyped
<1>3. ASSUME NEW id \in Id, ProcessKill(id), load' \in {load, NoLoad},
             lost' \subseteq Id \cup {NullId}
      PROVE  TInv'
  <2>1. slots' \in [0 .. Phys -> {"vacant", "occupied", "io"}]
    BY <1>3 DEF ProcessKill, SlotFree, TInv, TypeOK
  <2>2. physical' \in [Id -> 0 .. Phys]
    <3>1. 0 \in 0 .. Phys
      OBVIOUS
    <3> QED BY <1>3, <3>1 DEF ProcessKill, TInv, TypeOK
  <2>3. maps' \in [Id -> Seq(Mapping)]
    <3>1. <<>> \in Seq(Mapping)
      OBVIOUS
    <3> QED BY <1>3, <3>1 DEF ProcessKill, TInv, FieldsTyped
  <2>4. \A p \in Id : maps'[p] \in Seq([virtual : Virtual, physical : 0 .. Phys])
    BY <2>3 DEF Mapping
  <2>5. content' \in [0 .. Phys -> [code : Id \cup {NullId}, stack : Id \cup {NullId}]]
    <3> DEFINE Held == [code : Id \cup {NullId}, stack : Id \cup {NullId}]
    <3>1. Nothing \in Held
      BY DEF Nothing
    <3>2. content' = [content EXCEPT ![physical[id]] = Nothing]
      BY <1>3 DEF ProcessKill
    <3>3. content \in [0 .. Phys -> Held]
      BY DEF TInv, TypeOK
    <3> HIDE DEF Held
    <3>4. content' \in [0 .. Phys -> Held]
      BY <3>1, <3>2, <3>3
    <3> QED BY <3>4 DEF Held
  <2>6. /\ UNCHANGED <<table, current>> /\ cpu' = "switch"
        /\ procs' = procs \ {id} /\ started' = started \ {id}
        /\ stale' = stale \cup ({id} \ {current})
    BY <1>3 DEF ProcessKill
  <2>7. load' = load \/ load' = NoLoad
    BY <1>3
  <2>8. FieldsTyped'
    BY <2>3, <2>7 DEF TInv, FieldsTyped
  <2>9. TypeOK'
    BY <1>3, <2>1, <2>2, <2>4, <2>5, <2>6, <2>7 DEF TInv, TypeOK
  <2> QED BY <2>8, <2>9 DEF TInv
<1>4. ASSUME NEW id \in Id, Kill(id)
      PROVE  TInv'
  <2>1. ProcessKill(id) /\ load' \in {load, NoLoad} /\ lost' \subseteq Id \cup {NullId}
    BY <1>4 DEF Kill, TInv, TypeOK, FieldsTyped
  <2> QED BY <1>3, <2>1
<1>5. CASE Abort
  <2>1. current \in Id
    BY <1>5 DEF Abort, RunsLive, TInv, TypeOK
  <2>2. ProcessKill(current) /\ load' \in {load, NoLoad} /\ lost' \subseteq Id \cup {NullId}
    BY <1>5 DEF Abort, TInv, TypeOK
  <2> QED BY <1>3, <2>1, <2>2
<1>6. CASE GpioIrq \/ PopNothing \/ Undefined \/ UNCHANGED vars
  BY <1>6 DEF GpioIrq, PopNothing, Undefined, vars, TInv, TypeOK, FieldsTyped
<1>7. CASE ContextSwitch
  <2>1. PICK next \in Runnable :
          /\ current' = next /\ table' = PerformMapping(Cleaned, next)
          /\ cpu' \in {"undefined", "loading", "user"}
    BY <1>7 DEF ContextSwitch
  <2>2a. next \in Id
    BY DEF Runnable, TInv, TypeOK
  <2>2. next \in Id /\ maps \in [Id -> Seq(Mapping)] /\ table \in [Virtual -> Entry]
    BY <2>2a DEF TInv, TypeOK, FieldsTyped
  <2>3. Cleaned \in [Virtual -> Entry]
    BY <2>2, TablesTyped DEF Cleaned
  <2>4. table' \in [Virtual -> Entry]
    BY <2>1, <2>2, <2>3, MappingTyped
  <2> QED BY <1>7, <2>1, <2>2, <2>4 DEF ContextSwitch, TInv, TypeOK, FieldsTyped
<1> QED BY <1>1, <1>2, <1>4, <1>5, <1>6, <1>7

\* At boot.
LEMMA InitTyped == Init => TInv /\ RunsLive
<1> SUFFICES ASSUME Init PROVE TInv /\ RunsLive
  OBVIOUS
<1> USE SectionsAssumption
<1>1. PICK past \in {"vacant", "occupied"} : slots = SlotsInit(past)
  BY DEF Init
<1>2. slots \in [0 .. Phys -> {"vacant", "occupied", "io"}]
  BY <1>1 DEF SlotsInit
<1>3. table \in [Virtual -> Entry]
  <2>1. [v \in Virtual |-> Unmapped] \in [Virtual -> Entry]
    BY DEF Unmapped, Entry
  <2> QED BY <2>1, TablesTyped DEF Init
<1>4. physical \in [Id -> 0 .. Phys]
  <2>1. 0 \in 0 .. Phys
    OBVIOUS
  <2> QED BY <2>1 DEF Init
<1>5. maps \in [Id -> Seq(Mapping)]
  BY DEF Init
<1>6. \A id \in Id : maps[id] \in Seq([virtual : Virtual, physical : 0 .. Phys])
  BY <1>5 DEF Mapping
<1>7. content \in [0 .. Phys -> [code : Id \cup {NullId}, stack : Id \cup {NullId}]]
  BY DEF Init, Nothing
<1>8. FieldsTyped /\ RunsLive
  BY <1>5 DEF Init, FieldsTyped, RunsLive
<1>9. TypeOK
  BY <1>2, <1>3, <1>4, <1>6, <1>7 DEF Init, TypeOK
<1> QED BY <1>8, <1>9 DEF TInv

\* No step writes outside the tables.
LEMMA TypedStep ==
  ASSUME TInv, RunsLive, [Next]_vars
  PROVE  TInv'
<1>1. CASE \/ \E id \in Id, v \in LinkedAt : LoadOpen(id, v)
           \/ LoadCopy \/ LoadStack \/ LoadInsert \/ LoadMap \/ LoadClose
  BY <1>1, LoadTypeStep
<1>2. CASE \/ Yield
           \/ \E s \in MapTargets : Mmap(s)
           \/ \E id \in Id : Kill(id)
           \/ Abort \/ GpioIrq \/ ContextSwitch \/ PopNothing \/ Undefined
           \/ UNCHANGED vars
  BY <1>2, SwitchTypeStep
<1> QED BY <1>1, <1>2 DEF Next

(***************************************************************************)
(* Type correctness: no slot, section or mapping outside the tables is     *)
(* ever written, started processes have a PCB, and the list of mappings of *)
(* a process names sections of the table and of memory only.               *)
(***************************************************************************)
THEOREM MemoryTyped == Spec => []TypeOK
<1>1. TInv /\ RunsLive /\ [Next]_vars => (TInv /\ RunsLive)'
  BY TypedStep, RunsLiveStep
<1>2. TInv => TypeOK
  BY DEF TInv
<1> QED BY <1>1, <1>2, InitTyped, PTL DEF Spec

-----------------------------------------------------------------------------
(* Address spaces.                                                          *)

\* All programs are linked at one section, below the peripherals, and no
\* process has room for as many mappings as there are sections below them.
OneLinkAddress ==
  /\ \A u, v \in LinkedAt : u = v
  /\ \A v \in LinkedAt : v < IoBase
  /\ MaxMaps < IoBase

\* The only slots of peripherals are theirs.
PeripheralsOnly == \A s \in 0 .. Phys : slots[s] = "io" => s \in IoBase .. Phys - 1

\* What a process names is neither a section of the kernel nor of the
\* peripherals, and what is mapped there is a section of memory.
MapsLow ==
  \A id \in Id : \A i \in DOMAIN maps[id] :
    maps[id][i].virtual \in 1 .. IoBase - 1 /\ maps[id][i].physical \in 0 .. Phys - 1

\* Every process that has mappings has its image where programs are linked.
LinkedIsNamed ==
  \A id \in procs : maps[id] = <<>> \/ \A v \in LinkedAt : Names(id, v)

\* Who asked for a load has executed, and is the one that goes on with it.
LoaderIsMapped ==
  /\ cpu = "loading" => load.by = NullId \/ load.by = current
  /\ load # NoLoad /\ load.by \in procs => maps[load.by] # <<>>

\* The process that is being loaded has no PCB yet.
LoadIsNew == Pending => load.id \notin procs

\* Until the first context switch no process is the current one.
NobodyAtBoot == cpu = "boot" \/ (cpu = "loading" /\ load.by = NullId) => current = NullId

\* What the current process does not name is as it was after mmu_init.
OthersAsAtBoot ==
  current \in procs => \A v \in Virtual : Names(current, v) \/ table[v] = InitialTable[v]

Spaces ==
  /\ PeripheralsOnly /\ MapsLow /\ LinkedIsNamed /\ LoaderIsMapped /\ LoadIsNew
  /\ NobodyAtBoot /\ OthersAsAtBoot /\ OwnAddressSpace

EInv == IInv /\ TInv /\ Spaces

\* 1 .. n has n elements.
LEMMA IntervalSize == \A n \in Nat : IsFiniteSet(1 .. n) /\ Cardinality(1 .. n) = n
<1> TAKE n \in Nat
<1>1. /\ IsFiniteSet(1 .. n)
      /\ Cardinality(1 .. n) = IF 1 > n THEN 0 ELSE n - 1 + 1
  <2>1. 1 \in Int /\ n \in Int
    OBVIOUS
  <2> QED BY <2>1, FS_Interval
<1> QED BY <1>1

\* A process with fewer mappings than there are sections below the
\* peripherals is given one of these.
LEMMA VirtualSlotLow ==
  ASSUME maps \in [Id -> Seq(Mapping)], NEW id \in Id, Len(maps[id]) < IoBase - 1
  PROVE  VirtualSlot(id) \in 1 .. IoBase - 1
<1> USE SectionsAssumption
<1> DEFINE low == 1 .. IoBase - 1
           dom == 1 .. Len(maps[id])
           f == [v \in low |-> CHOOSE i \in dom : maps[id][i].virtual = v]
           free == {v \in Virtual \ {0} : ~Names(id, v)}
<1>1. maps[id] \in Seq(Mapping) /\ Len(maps[id]) \in Nat /\ DOMAIN maps[id] = dom
  OBVIOUS
<1>2. IsFiniteSet(low) /\ Cardinality(low) = IoBase - 1
  BY FS_Interval
<1>3. IsFiniteSet(dom) /\ Cardinality(dom) = Len(maps[id])
  BY <1>1, IntervalSize
<1>4. \E v \in low : ~Names(id, v)
  <2> SUFFICES ASSUME \A v \in low : Names(id, v) PROVE FALSE
    OBVIOUS
  <2>1. \A v \in low : \E i \in dom : maps[id][i].virtual = v
    BY <1>1 DEF Names
  <2>2. \A v \in low : f[v] \in dom /\ maps[id][f[v]].virtual = v
    <3> HIDE DEF low, dom
    <3> QED BY <2>1
  <2>3. f \in [low -> dom]
    <3>1. \A v \in low : f[v] \in dom
      BY <2>2
    <3>2. f = [v \in low |-> f[v]]
      OBVIOUS
    <3> HIDE DEF low, dom, f
    <3> QED BY <3>1, <3>2
  <2>4. Cardinality(dom) < Cardinality(low)
    BY <1>2, <1>3
  <2>5. PICK u, v \in low : u # v /\ f[u] = f[v]
    <3> HIDE DEF low, dom, f
    <3> QED BY <1>2, <1>3, <2>3, <2>4, FS_PigeonHole
  <2> HIDE DEF f
  <2> QED BY <2>2, <2>5
<1>5. PICK v \in low : ~Names(id, v)
  BY <1>4
<1>6. v \in free
  BY <1>5 DEF Virtual
<1>7. free \in SUBSET Nat
  BY DEF Virtual
<1>8. Min(free) \in free /\ Min(free) <= v
  <2> HIDE DEF free
  <2> QED BY <1>6, <1>7, MinIsLeast
<1>9. Min(free) \in low
  <2>1. Min(free) \in Nat /\ Min(free) # 0
    BY <1>8 DEF Virtual
  <2> HIDE DEF free
  <2> QED BY <1>5, <1>8, <2>1
<1> QED BY <1>6, <1>9 DEF VirtualSlot

\* Mappings are only added to: what was named stays named.
LEMMA AddedNames ==
  ASSUME maps \in [Id -> Seq(Mapping)], NEW id \in Id, NEW m \in Mapping,
         maps' = [maps EXCEPT ![id] = <<m>> \o @]
  PROVE  /\ \A p \in Id : \A v : Names(p, v) => Names(p, v)'
         /\ \A p \in Id : \A j \in DOMAIN maps'[p] :
              \/ p = id /\ maps'[p][j] = m
              \/ \E i \in DOMAIN maps[p] : maps'[p][j] = maps[p][i]
<1>1. maps[id] \in Seq(Mapping) /\ maps'[id] = <<m>> \o maps[id]
  OBVIOUS
<1>2. /\ Len(maps'[id]) = Len(maps[id]) + 1 /\ maps'[id] \in Seq(Mapping)
      /\ maps'[id][1] = m
      /\ \A i \in 1 .. Len(maps[id]) : maps'[id][i + 1] = maps[id][i]
  BY <1>1
<1>3. \A p \in Id \ {id} : maps'[p] = maps[p]
  OBVIOUS
<1>4. DOMAIN maps[id] = 1 .. Len(maps[id]) /\ DOMAIN maps'[id] = 1 .. Len(maps[id]) + 1
      /\ Len(maps[id]) \in Nat
  BY <1>1, <1>2
<1>5. ASSUME NEW v, Names(id, v)
      PROVE  Names(id, v)'
  <2>1. PICK i \in 1 .. Len(maps[id]) : maps[id][i].virtual = v
    BY <1>4, <1>5 DEF Names
  <2>2. i + 1 \in DOMAIN maps'[id] /\ maps'[id][i + 1].virtual = v
    BY <1>2, <1>4, <2>1
  <2> QED BY <2>2 DEF Names
<1>6. \A p \in Id : \A v : Names(p, v) => Names(p, v)'
  <2> TAKE p \in Id
  <2> TAKE v
  <2>1. CASE p = id
    BY <1>5, <2>1
  <2>2. CASE p # id
    BY <1>3, <2>2 DEF Names
  <2> QED BY <2>1, <2>2
<1>7. ASSUME NEW j \in DOMAIN maps'[id], j # 1
      PROVE  \E i \in DOMAIN maps[id] : maps'[id][j] = maps[id][i]
  <2>1. j - 1 \in 1 .. Len(maps[id]) /\ j = (j - 1) + 1
    BY <1>4, <1>7
  <2> QED BY <1>2, <1>4, <2>1
<1>8. \A p \in Id : \A j \in DOMAIN maps'[p] :
        \/ p = id /\ maps'[p][j] = m
        \/ \E i \in DOMAIN maps[p] : maps'[p][j] = maps[p][i]
  BY <1>2, <1>3, <1>7
<1> QED BY <1>6, <1>8

\* Between processes the table is as after mmu_init.
LEMMA CleanedIsInitial ==
  ASSUME TInv, MapsLow, OthersAsAtBoot
  PROVE  Cleaned = InitialTable
<1>1. CASE current \notin procs
  BY <1>1 DEF Cleaned
<1>2. CASE current \in procs
  <2>1. \A v \in Virtual : Names(current, v) => InitialTable[v] = Unmapped
    <3> SUFFICES ASSUME NEW v \in Virtual, Names(current, v)
                 PROVE  InitialTable[v] = Unmapped
      OBVIOUS
    <3>1. current \in Id
      BY <1>2 DEF TInv, TypeOK
    <3>2. v \in 1 .. IoBase - 1
      BY <3>1 DEF Names, MapsLow
    <3>3. v # 0 /\ v \notin IoBase .. Phys - 1
      BY <3>2, SectionsAssumption
    <3> QED BY <3>3 DEF InitialTable
  <2>2. PerformUnmapping(table, current) = [v \in Virtual |-> InitialTable[v]]
    BY <1>2, <2>1 DEF PerformUnmapping, OthersAsAtBoot
  <2>3. InitialTable = [v \in Virtual |-> InitialTable[v]]
    BY DEF InitialTable
  <2> QED BY <1>2, <2>2, <2>3 DEF Cleaned
<1> QED BY <1>1, <1>2

\* context_switch_c: the next process is given its own address space.
LEMMA ContextSwitchSpaces ==
  ASSUME EInv, ContextSwitch
  PROVE  Spaces'
<1> USE SectionsAssumption
<1>1. PICK next \in Runnable :
        /\ current' = next /\ table' = PerformMapping(InitialTable, next)
        /\ cpu' \in {"undefined", "loading", "user"}
        /\ cpu' = "loading" => load.by = next
  BY CleanedIsInitial DEF ContextSwitch, EInv, Spaces
<1>2. UNCHANGED <<slots, procs, started, physical, maps, load, lost, content>>
  BY DEF ContextSwitch
<1>3. next \in Id /\ next # NullId
  BY NullIdAssumption DEF Runnable, EInv, TInv, TypeOK
<1>4. \A v : Names(next, v) <=> Names(next, v)'
  BY <1>2 DEF Names
<1>5. \A v \in Virtual :
        table'[v] = IF Names(next, v)
                    THEN MapsTo(Target(next, v), slots[Target(next, v)] = "io")
                    ELSE InitialTable[v]
  BY <1>1 DEF PerformMapping
<1>6. ASSUME NEW v \in Virtual, Names(next, v)
      PROVE  (slots[Target(next, v)] = "io") = (Target(next, v) >= IoBase)
  <2>1. PICK i \in DOMAIN maps[next] : Target(next, v) = maps[next][i].physical
    BY <1>3, <1>6, TargetIsMapped DEF EInv, TInv, FieldsTyped
  <2>2. Target(next, v) \in 0 .. Phys - 1
    BY <1>3, <2>1 DEF EInv, Spaces, MapsLow
  <2>3. ASSUME NEW s \in 0 .. Phys - 1
        PROVE  (slots[s] = "io") = (s >= IoBase)
    <3>1. s \in 0 .. Phys
      OBVIOUS
    <3>2. s >= IoBase => slots[s] = "io"
      BY DEF EInv, IInv, PeripheralsKept
    <3>3. slots[s] = "io" => s >= IoBase
      BY <3>1 DEF EInv, Spaces, PeripheralsOnly
    <3>4. (slots[s] = "io") \in BOOLEAN /\ (s >= IoBase) \in BOOLEAN
      OBVIOUS
    <3> QED BY <3>2, <3>3, <3>4
  <2> QED BY <2>2, <2>3
<1>7. \A v \in Virtual :
        table'[v] = IF Names(next, v)
                    THEN MapsTo(Target(next, v), Target(next, v) >= IoBase)
                    ELSE InitialTable[v]
  BY <1>5, <1>6
<1>8. Target(next, 0) = Target(next, 0)' /\ \A v : Target(next, v) = Target(next, v)'
  BY <1>2 DEF Target
<1>9. OwnAddressSpace'
  BY <1>1, <1>4, <1>7, <1>8 DEF OwnAddressSpace
<1>10. OthersAsAtBoot'
  BY <1>1, <1>4, <1>5 DEF OthersAsAtBoot
<1>11. NobodyAtBoot'
  BY <1>1, <1>2, <1>3 DEF NobodyAtBoot
<1>12. PeripheralsOnly' /\ MapsLow' /\ LinkedIsNamed' /\ LoadIsNew'
  BY <1>2 DEF EInv, Spaces, PeripheralsOnly, MapsLow, LinkedIsNamed, LoadIsNew,
              Pending, Names
<1>13. LoaderIsMapped'
  BY <1>1, <1>2 DEF EInv, Spaces, LoaderIsMapped
<1> QED BY <1>9, <1>10, <1>11, <1>12, <1>13 DEF Spaces

\* process_load opens and closes its window at a section that whoever runs
\* names: the others stay as they are.
LEMMA WindowIsNamed ==
  ASSUME OneLinkAddress, EInv, NEW v \in LinkedAt, NEW e,
         table' = Remap(table, v, e), UNCHANGED <<procs, maps, current>>,
         current \in procs => maps[current] # <<>>
  PROVE  OthersAsAtBoot' /\ LinkedIsNamed'
<1>1. \A p, u : Names(p, u) <=> Names(p, u)'
  BY DEF Names
<1>2. v \in Virtual
  BY SectionsAssumption DEF Virtual
<1>3. \A u \in Virtual : u # v => table'[u] = table[u]
  BY <1>2 DEF Remap, EInv, TInv, TypeOK
<1>4. current \in procs => Names(current, v)
  BY DEF EInv, Spaces, LinkedIsNamed
<1> QED BY <1>1, <1>3, <1>4 DEF EInv, Spaces, OthersAsAtBoot, LinkedIsNamed

\* Opening it.
LEMMA LoadOpenSpaces ==
  ASSUME OneLinkAddress, EInv, NEW id \in Id, NEW v \in LinkedAt, LoadOpen(id, v)
  PROVE  Spaces'
<1>1. /\ DOMAIN load' = LoadDomain /\ load'.id = id
      /\ load'.by = IF cpu = "boot" THEN NullId ELSE current
  BY DEF LoadOpen, LoadDomain
<1>2. /\ table' = Remap(table, v, MapsTo(SlotGot, FALSE))
      /\ UNCHANGED <<procs, started, physical, maps, current, content>>
      /\ cpu' = "loading" /\ cpu \in {"boot", "user"} /\ id \notin procs
      /\ cpu = "user" => maps[current] # <<>>
  BY DEF LoadOpen, MayStart, Executes
<1>0. current \in procs => maps[current] # <<>>
  BY <1>2, NullIdAssumption DEF EInv, Spaces, NobodyAtBoot, TInv, TypeOK
<1>3. OthersAsAtBoot' /\ LinkedIsNamed'
  BY <1>0, <1>2, WindowIsNamed
<1>8. LoaderIsMapped'
  BY <1>0, <1>1, <1>2, NullIdAssumption DEF LoaderIsMapped, EInv, TInv, TypeOK
<1>4. OwnAddressSpace' /\ LoadIsNew'
  BY <1>1, <1>2 DEF OwnAddressSpace, LoadIsNew, Pending
<1>5. NobodyAtBoot'
  <2>1. CASE cpu = "boot"
    BY <1>2, <2>1 DEF EInv, Spaces, NobodyAtBoot
  <2>2. CASE cpu = "user"
    <3>1. current \in Id /\ load'.by # NullId
      BY <1>1, <2>2, NullIdAssumption DEF EInv, IInv, RunsLive, TInv, TypeOK
    <3> QED BY <1>2, <3>1 DEF NobodyAtBoot
  <2> QED BY <1>2, <2>1, <2>2
<1>6. PeripheralsOnly'
  <2>1. slots' = slots \/ slots' = [slots EXCEPT ![SlotGot] = "occupied"]
    BY DEF LoadOpen, Occupied
  <2> QED BY <2>1 DEF EInv, TInv, TypeOK, Spaces, PeripheralsOnly
<1>7. MapsLow'
  BY <1>2 DEF EInv, Spaces, MapsLow
<1> QED BY <1>3, <1>4, <1>5, <1>6, <1>7, <1>8 DEF Spaces

\* Filling it, and closing it.
LEMMA LoadSpaces ==
  ASSUME OneLinkAddress, EInv, LoadCopy \/ LoadStack \/ LoadClose
  PROVE  Spaces'
<1>1. load # NoLoad /\ cpu = "loading"
  BY DEF LoadCopy, LoadStack, LoadStep, LoadClose, EInv, IInv, RunsLive
<1>2. DOMAIN load = LoadDomain
  BY <1>1 DEF EInv, TInv, FieldsTyped
<1>3. UNCHANGED <<slots, procs, physical, maps, current, lost>>
  BY DEF LoadCopy, LoadStack, LoadStep, LoadClose
<1>4. PeripheralsOnly' /\ MapsLow' /\ LinkedIsNamed'
  BY <1>3 DEF EInv, Spaces, PeripheralsOnly, MapsLow, LinkedIsNamed, Names
<1>5. CASE LoadCopy \/ LoadStack
  <2>1. /\ table' = table /\ cpu' = cpu
        /\ \E to \in {"stack", "insert"} : load' = [load EXCEPT !.stage = to]
        /\ Pending
    BY <1>1, <1>5 DEF LoadCopy, LoadStack, LoadStep, Pending
  <2>2. load'.id = load.id /\ load'.by = load.by
    BY <1>2, <2>1 DEF LoadDomain
  <2>3. OthersAsAtBoot'
    BY <1>3, <2>1 DEF EInv, Spaces, OthersAsAtBoot, Names
  <2>4. OwnAddressSpace' /\ LoadIsNew' /\ NobodyAtBoot'
    BY <1>1, <1>3, <2>1, <2>2 DEF EInv, Spaces, OwnAddressSpace, LoadIsNew, Pending,
                             NobodyAtBoot
  <2>5. LoaderIsMapped'
    BY <1>1, <1>3, <2>1, <2>2 DEF EInv, Spaces, LoaderIsMapped
  <2> QED BY <1>4, <2>3, <2>4, <2>5 DEF Spaces
<1>6. CASE LoadClose
  <2>1. /\ table' = Remap(table, load.at, load.old) /\ load' = NoLoad
        /\ cpu' = IF load.by = NullId THEN "boot" ELSE "switch"
    BY <1>6 DEF LoadClose
  <2>2. load.at \in LinkedAt
    BY <1>1 DEF EInv, TInv, FieldsTyped
  <2>5. current \in procs => maps[current] # <<>>
    BY <1>1, NullIdAssumption DEF EInv, Spaces, LoaderIsMapped, NobodyAtBoot, TInv, TypeOK
  <2>3. OthersAsAtBoot'
    BY <1>3, <2>1, <2>2, <2>5, WindowIsNamed
  <2>6. LoaderIsMapped'
    BY <2>1 DEF LoaderIsMapped
  <2>4. OwnAddressSpace' /\ LoadIsNew' /\ NobodyAtBoot'
    BY <1>1, <1>3, <2>1 DEF EInv, Spaces, OwnAddressSpace, LoadIsNew, Pending,
                            NobodyAtBoot
  <2> QED BY <1>4, <2>3, <2>4, <2>6 DEF Spaces
<1> QED BY <1>5, <1>6

\* The new process gets a PCB, with no mappings yet.
LEMMA LoadInsertSpaces ==
  ASSUME EInv, LoadInsert
  PROVE  Spaces'
<1> DEFINE id == load.id
<1>1. load # NoLoad /\ cpu = "loading" /\ Pending
  BY DEF LoadInsert, EInv, IInv, RunsLive, Pending
<1>2. DOMAIN load = LoadDomain /\ id \in Id /\ id \notin procs
  BY <1>1 DEF EInv, TInv, FieldsTyped, Spaces, LoadIsNew
<1>3. /\ procs' = procs \cup {id} /\ maps' = [maps EXCEPT ![id] = <<>>]
      /\ load' = [load EXCEPT !.stage = "map"]
      /\ UNCHANGED <<slots, table, current, cpu>>
  BY DEF LoadInsert
<1>4. load'.stage = "map" /\ load'.by = load.by
  BY <1>2, <1>3 DEF LoadDomain
<1>5. maps \in [Id -> Seq(Mapping)]
  BY DEF EInv, TInv, FieldsTyped
<1>6. maps'[id] = <<>> /\ \A p \in Id \ {id} : maps'[p] = maps[p]
  BY <1>2, <1>3, <1>5
<1>7. \A p \in procs : p \in Id \ {id}
  BY <1>2 DEF EInv, TInv, TypeOK
<1>8. current # id
  <2>1. current \in procs \/ current = NullId
    BY <1>1 DEF EInv, IInv, RunsLive, Spaces, NobodyAtBoot
  <2> QED BY <1>2, <2>1, NullIdAssumption
<1> HIDE DEF id
<1>9. MapsLow'
  BY <1>6 DEF EInv, Spaces, MapsLow
<1>10. LinkedIsNamed'
  <2>1. \A p \in procs : maps'[p] = <<>> \/ \A v \in LinkedAt : Names(p, v)'
    BY <1>6, <1>7 DEF EInv, Spaces, LinkedIsNamed, Names
  <2> QED BY <1>3, <1>6, <2>1 DEF LinkedIsNamed
<1>11. OthersAsAtBoot'
  <2>1. SUFFICES ASSUME current \in procs PROVE OthersAsAtBoot'
    BY <1>3, <1>8 DEF OthersAsAtBoot
  <2>2. maps'[current] = maps[current]
    BY <1>6, <1>7, <2>1
  <2> QED BY <1>3, <2>1, <2>2 DEF EInv, Spaces, OthersAsAtBoot, Names
<1>12. LoaderIsMapped'
  <2>1. load.by = NullId \/ (load.by = current /\ current \in procs)
    BY <1>1 DEF EInv, Spaces, LoaderIsMapped, IInv, RunsLive
  <2>2. load.by # id
    BY <1>2, <1>8, <2>1, NullIdAssumption
  <2>3. load.by \in procs' => load.by \in procs /\ maps'[load.by] = maps[load.by]
    BY <1>3, <1>6, <1>7, <2>2
  <2> QED BY <1>1, <1>3, <1>4, <2>3 DEF EInv, Spaces, LoaderIsMapped
<1>13. PeripheralsOnly' /\ LoadIsNew' /\ NobodyAtBoot' /\ OwnAddressSpace'
  BY <1>1, <1>3, <1>4 DEF EInv, Spaces, PeripheralsOnly, LoadIsNew, Pending,
                          NobodyAtBoot, OwnAddressSpace
<1> QED BY <1>9, <1>10, <1>11, <1>12, <1>13 DEF Spaces

\* A mapping below the peripherals for a process that has none, or has its
\* image mapped, or is given the mapping of its image.
LEMMA AddedSpaces ==
  ASSUME EInv, NEW id \in Id, NEW m \in Mapping,
         maps' = [maps EXCEPT ![id] = <<m>> \o @],
         UNCHANGED <<slots, table, procs, current>>,
         m.virtual \in 1 .. IoBase - 1, m.physical \in 0 .. Phys - 1,
         maps[id] # <<>> \/ \A v \in LinkedAt : v = m.virtual
  PROVE  /\ MapsLow' /\ PeripheralsOnly' /\ LinkedIsNamed' /\ OthersAsAtBoot'
         /\ \A p \in Id : maps[p] # <<>> => maps'[p] # <<>>
<1>1. maps \in [Id -> Seq(Mapping)] /\ procs \subseteq Id
  BY DEF EInv, TInv, TypeOK, FieldsTyped
<1>2. /\ \A p \in Id : \A v : Names(p, v) => Names(p, v)'
      /\ \A p \in Id : \A j \in DOMAIN maps'[p] :
           \/ p = id /\ maps'[p][j] = m
           \/ \E i \in DOMAIN maps[p] : maps'[p][j] = maps[p][i]
  BY <1>1, AddedNames
<1>3. /\ \A p \in Id \ {id} : maps'[p] = maps[p]
      /\ maps'[id] = <<m>> \o maps[id]
  BY <1>1
<1>4. maps'[id] # <<>> /\ 1 \in DOMAIN maps'[id] /\ maps'[id][1] = m
  <2>1. maps[id] \in Seq(Mapping)
    BY <1>1
  <2>2. Len(maps'[id]) = Len(maps[id]) + 1 /\ maps'[id] \in Seq(Mapping)
    BY <1>3, <2>1
  <2>3. maps'[id][1] = m
    BY <1>3, <2>1
  <2>4. Len(maps[id]) \in Nat
    BY <2>1
  <2>5. 1 \in DOMAIN maps'[id]
    BY <2>2, <2>4
  <2> QED BY <2>3, <2>5
<1>5. MapsLow'
  <2> SUFFICES ASSUME NEW p \in Id, NEW j \in DOMAIN maps'[p]
               PROVE  /\ maps'[p][j].virtual \in 1 .. IoBase - 1
                      /\ maps'[p][j].physical \in 0 .. Phys - 1
    BY DEF MapsLow
  <2>1. CASE maps'[p][j] = m
    BY <2>1
  <2>2. CASE \E i \in DOMAIN maps[p] : maps'[p][j] = maps[p][i]
    BY <2>2 DEF EInv, Spaces, MapsLow
  <2> QED BY <1>2, <2>1, <2>2
<1>6. LinkedIsNamed'
  <2> SUFFICES ASSUME NEW p \in procs
               PROVE  maps'[p] = <<>> \/ \A v \in LinkedAt : Names(p, v)'
    BY DEF LinkedIsNamed
  <2>1. p \in Id /\ (maps[p] = <<>> \/ \A v \in LinkedAt : Names(p, v))
    BY <1>1 DEF EInv, Spaces, LinkedIsNamed
  <2>2. CASE \A v \in LinkedAt : Names(p, v)
    BY <1>2, <2>1, <2>2
  <2>3. CASE maps[p] = <<>> /\ p # id
    BY <1>3, <2>1, <2>3
  <2>4. CASE maps[p] = <<>> /\ p = id
    BY <1>4, <2>4 DEF Names
  <2> QED BY <2>1, <2>2, <2>3, <2>4
<1>7. PeripheralsOnly' /\ OthersAsAtBoot'
  BY <1>1, <1>2 DEF EInv, Spaces, PeripheralsOnly, OthersAsAtBoot
<1>8. \A p \in Id : maps[p] # <<>> => maps'[p] # <<>>
  BY <1>3, <1>4
<1> QED BY <1>5, <1>6, <1>7, <1>8

\* The new process gets the mapping of its image.
LEMMA LoadMapSpaces ==
  ASSUME OneLinkAddress, EInv, LoadMap
  PROVE  Spaces'
<1> DEFINE m == [virtual |-> load.at, physical |-> load.dest]
<1>1. load # NoLoad /\ cpu = "loading"
  BY DEF LoadMap, EInv, IInv, RunsLive
<1>2. /\ DOMAIN load = LoadDomain /\ load.id \in Id /\ load.by \in Id \cup {NullId}
      /\ load.at \in LinkedAt /\ load.dest \in 0 .. Phys
  BY <1>1 DEF EInv, TInv, FieldsTyped
<1>3. /\ load' = [load EXCEPT !.stage = "close"]
      /\ cpu' = "loading" \/ cpu' = "undefined"
      /\ UNCHANGED <<slots, table, procs, current>>
  BY <1>1 DEF LoadMap
<1>4. load'.by = load.by /\ ~Pending'
  BY <1>2, <1>3 DEF LoadDomain, Pending
<1>5. /\ MapsLow' /\ PeripheralsOnly' /\ LinkedIsNamed' /\ OthersAsAtBoot'
      /\ \A p \in Id : maps[p] # <<>> => maps'[p] # <<>>
  <2>1. CASE maps' = maps
    BY <1>3, <2>1 DEF EInv, Spaces, MapsLow, PeripheralsOnly, LinkedIsNamed,
                      OthersAsAtBoot, Names
  <2>2. CASE load.id \in procs /\ maps' = [maps EXCEPT ![load.id] = <<m>> \o @]
    <3>0. load.at < IoBase /\ load.at \in 1 .. TableSize - 1
      BY <1>2, SectionsAssumption DEF OneLinkAddress
    <3>1. load.at \in 1 .. IoBase - 1
      BY <3>0, SectionsAssumption
    <3>2. load.dest \in Ram
      BY <1>1 DEF EInv, IInv, LoadInRam
    <3>3. m \in Mapping /\ m.virtual \in 1 .. IoBase - 1 /\ m.physical \in 0 .. Phys - 1
      BY <3>1, <3>2, SectionsAssumption DEF Mapping, Virtual, Ram
    <3>4. \A v \in LinkedAt : v = m.virtual
      BY <1>2 DEF OneLinkAddress
    <3> HIDE DEF m
    <3> QED BY <1>2, <1>3, <2>2, <3>3, <3>4, AddedSpaces
  <2> QED BY <2>1, <2>2 DEF LoadMap, AddMapping
<1>6. LoaderIsMapped'
  BY <1>1, <1>2, <1>3, <1>4, <1>5 DEF EInv, Spaces, LoaderIsMapped, TInv, TypeOK
<1>7. LoadIsNew' /\ NobodyAtBoot' /\ OwnAddressSpace'
  BY <1>1, <1>3, <1>4 DEF EInv, Spaces, LoadIsNew, NobodyAtBoot, OwnAddressSpace
<1> QED BY <1>5, <1>6, <1>7 DEF Spaces

\* memory_map of a section of memory.
LEMMA MmapSpaces ==
  ASSUME OneLinkAddress, EInv, NEW s \in MapTargets, Mmap(s)
  PROVE  Spaces'
<1> USE SectionsAssumption
<1> DEFINE m == [virtual |-> VirtualSlot(current), physical |-> s]
<1>1. /\ UNCHANGED <<slots, table, procs, started, physical, current>>
      /\ cpu' = "switch" /\ load' = NoLoad
  BY DEF Mmap, EnterSwi
<1>2. /\ current \in procs /\ current \in Id /\ maps \in [Id -> Seq(Mapping)]
      /\ maps[current] # <<>>
  BY DEF Mmap, Executes, EInv, IInv, RunsLive, TInv, TypeOK, FieldsTyped
<1>3. CASE maps' = maps
  BY <1>1, <1>3 DEF EInv, Spaces, PeripheralsOnly, MapsLow, LinkedIsNamed, LoadIsNew,
                    LoaderIsMapped, Pending, NobodyAtBoot, OthersAsAtBoot,
                    OwnAddressSpace, Names
<1>4. CASE /\ maps' = [maps EXCEPT ![current] = <<m>> \o @]
           /\ Len(maps[current]) < MaxMaps
  <2>1. Len(maps[current]) < IoBase - 1
    <3>1. Len(maps[current]) \in Nat
      BY <1>2
    <3> QED BY <1>4, <3>1 DEF OneLinkAddress
  <2>2. m.virtual \in 1 .. IoBase - 1 /\ m.physical \in 0 .. Phys - 1
    BY <1>2, <2>1, VirtualSlotLow
  <2>3. m \in Mapping
    BY <2>2 DEF Mapping, Virtual
  <2> HIDE DEF m
  <2>4. /\ MapsLow' /\ PeripheralsOnly' /\ LinkedIsNamed' /\ OthersAsAtBoot'
        /\ \A p \in Id : maps[p] # <<>> => maps'[p] # <<>>
    BY <1>1, <1>2, <1>4, <2>2, <2>3, AddedSpaces
  <2>5. LoadIsNew' /\ NobodyAtBoot' /\ LoaderIsMapped' /\ OwnAddressSpace'
    BY <1>1 DEF EInv, Spaces, LoadIsNew, Pending, NobodyAtBoot, LoaderIsMapped,
                OwnAddressSpace
  <2> QED BY <2>4, <2>5 DEF Spaces
<1> QED BY <1>3, <1>4 DEF Mmap, AddMapping

\* process_kill: the list of mappings is gone, and with it the PCB.
LEMMA KillSpaces ==
  ASSUME EInv, NEW id \in procs, ProcessKill(id), load' \in {load, NoLoad}
  PROVE  Spaces'
<1>1. /\ slots' = [slots EXCEPT ![physical[id]] = "vacant"]
      /\ procs' = procs \ {id} /\ maps' = [maps EXCEPT ![id] = <<>>]
      /\ UNCHANGED <<table, current>> /\ cpu' = "switch"
  BY DEF ProcessKill, SlotFree
<1>2. load' = load \/ load' = NoLoad
  OBVIOUS
<1>3. id \in Id /\ maps \in [Id -> Seq(Mapping)]
  BY DEF EInv, TInv, TypeOK, FieldsTyped
<1>4. maps'[id] = <<>> /\ \A p \in Id \ {id} : maps'[p] = maps[p]
  BY <1>1, <1>3
<1>5. MapsLow'
  BY <1>4 DEF EInv, Spaces, MapsLow
<1>6. \A p \in procs' : /\ p \in procs /\ p \in Id \ {id} /\ maps'[p] = maps[p]
                        /\ \A v : Names(p, v) <=> Names(p, v)'
  BY <1>1, <1>4 DEF EInv, TInv, TypeOK, Names
<1>10. LoaderIsMapped'
  BY <1>1, <1>2, <1>6 DEF EInv, Spaces, LoaderIsMapped
<1>7. LinkedIsNamed' /\ OthersAsAtBoot'
  BY <1>1, <1>6 DEF EInv, Spaces, LinkedIsNamed, OthersAsAtBoot
<1>8. PeripheralsOnly'
  BY <1>1 DEF EInv, TInv, TypeOK, Spaces, PeripheralsOnly
<1>9. LoadIsNew' /\ NobodyAtBoot' /\ OwnAddressSpace'
  BY <1>1, <1>2 DEF EInv, Spaces, LoadIsNew, Pending, NobodyAtBoot, OwnAddressSpace
<1> QED BY <1>5, <1>7, <1>8, <1>9, <1>10 DEF Spaces

\* Entering the kernel for a context switch changes no mapping.
LEMMA EnterSpaces ==
  ASSUME EInv, UNCHANGED <<slots, table, procs, maps, current>>,
         \/ cpu' = "switch" /\ load' \in {load, NoLoad}
         \/ cpu' = cpu /\ load' = load
  PROVE  Spaces'
<1>1. (cpu' = "switch" /\ (load' = load \/ load' = NoLoad)) \/ (cpu' = cpu /\ load' = load)
  OBVIOUS
<1>2. \A p, v : (Names(p, v) <=> Names(p, v)') /\ Target(p, v)' = Target(p, v)
  BY DEF Names, Target
<1>3. MapsLow' /\ PeripheralsOnly' /\ LinkedIsNamed' /\ OthersAsAtBoot'
  BY <1>2 DEF EInv, Spaces, MapsLow, PeripheralsOnly, LinkedIsNamed, OthersAsAtBoot
<1>4. LoadIsNew' /\ NobodyAtBoot' /\ LoaderIsMapped'
  BY <1>1 DEF EInv, Spaces, LoadIsNew, Pending, NobodyAtBoot, LoaderIsMapped
<1>5. OwnAddressSpace'
  BY <1>1, <1>2 DEF EInv, Spaces, OwnAddressSpace
<1> QED BY <1>3, <1>4, <1>5 DEF Spaces

\* No step leaves anything of another process in the table.
LEMMA SpacesStep ==
  ASSUME OneLinkAddress, EInv, [Next]_vars
  PROVE  Spaces'
<1>1. CASE \E id \in Id, v \in LinkedAt : LoadOpen(id, v)
  BY <1>1, LoadOpenSpaces
<1>2. CASE LoadCopy \/ LoadStack \/ LoadClose
  BY <1>2, LoadSpaces
<1>3. CASE LoadInsert
  BY <1>3, LoadInsertSpaces
<1>4. CASE Yield \/ GpioIrq
  BY <1>4, EnterSpaces DEF Yield, GpioIrq, EnterSwi
<1>5. CASE \E s \in MapTargets : Mmap(s)
  BY <1>5, MmapSpaces
<1>6. CASE \E id \in Id : Kill(id)
  BY <1>6, KillSpaces DEF Kill, Executes
<1>7. CASE Abort
  <2>1. current \in procs /\ ProcessKill(current) /\ load' \in {load, NoLoad}
    BY <1>7 DEF Abort, EInv, IInv, RunsLive
  <2> QED BY <2>1, KillSpaces
<1>8. CASE ContextSwitch
  BY <1>8, ContextSwitchSpaces
<1>9. CASE PopNothing \/ Undefined \/ UNCHANGED vars
  BY <1>9, EnterSpaces DEF PopNothing, Undefined, vars
<1>10. CASE LoadMap
  BY <1>10, LoadMapSpaces
<1> QED BY <1>1, <1>2, <1>3, <1>4, <1>5, <1>6, <1>7, <1>8, <1>9, <1>10 DEF Next

(***************************************************************************)
(* Address spaces: what a process is executed with is its own image, its   *)
(* own MMAPs, the peripherals uncached, and the kernel's sections, through *)
(* any sequence of loads, suspended and aborted ones included, MMAPs,      *)
(* kills and context switches.  Nothing is said of who may access a        *)
(* section: the processor does not look (mmu.c 100-103).                   *)
(***************************************************************************)
THEOREM AddressSpacesAreOwn ==
  ASSUME KeepFree >= 2, OneLinkAddress
  PROVE  Spec => []OwnAddressSpace
<1>1. Init => EInv
  <2> SUFFICES ASSUME Init PROVE EInv
    OBVIOUS
  <2>1. IInv /\ TInv
    BY InitInv, InitTyped
  <2>2. PeripheralsOnly
    <3>1. PICK past \in {"vacant", "occupied"} : slots = SlotsInit(past)
      BY DEF Init
    <3> QED BY <3>1, SectionsAssumption DEF PeripheralsOnly, SlotsInit
  <2>3. MapsLow /\ LinkedIsNamed /\ LoadIsNew /\ NobodyAtBoot /\ OthersAsAtBoot
        /\ LoaderIsMapped /\ OwnAddressSpace
    BY DEF Init, MapsLow, LinkedIsNamed, LoaderIsMapped, LoadIsNew, Pending, NobodyAtBoot,
           OthersAsAtBoot, OwnAddressSpace
  <2> QED BY <2>1, <2>2, <2>3 DEF EInv, Spaces
<1>2. EInv /\ [Next]_vars => EInv'
  <2> SUFFICES ASSUME EInv, [Next]_vars PROVE EInv'
    OBVIOUS
  <2>1. IInv'
    BY StepInv DEF EInv
  <2>2. TInv'
    BY TypedStep DEF EInv, IInv
  <2>3. Spaces'
    BY SpacesStep
  <2> QED BY <2>1, <2>2, <2>3 DEF EInv
<1>3. EInv => OwnAddressSpace
  BY DEF EInv, Spaces
<1> QED BY <1>1, <1>2, <1>3, PTL DEF Spec

=============================================================================
