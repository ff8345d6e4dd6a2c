------------------------------- MODULE Drivers -------------------------------
(***************************************************************************)
(* The driver registry (drivers.c): names that processes registered for,   *)
(* newest first, and the process that gets the messages of each interrupt. *)
(***************************************************************************)
EXTENDS Ipc

CONSTANTS
  Name,       \* driver names programs register, "timer" and "uart" are special
  MaxDrivers  \* bound: entries of the registry

ASSUME MaxDriversAssumption == MaxDrivers \in Nat

VARIABLES
  osDrivers,  \* os_drivers: sequence of [name, id], head first
  irqDriver   \* irq_drivers: the process each interrupt is reported to

driverVars == <<osDrivers, irqDriver>>

\* Interrupts a driver can register for; gpio's is never looked up.
Irq == {"timer", "uart", "gpio"}

Driver == [name : Name, id : Id]

DriversTypeOK ==
  /\ osDrivers \in Seq(Driver)
  /\ irqDriver \in [Irq -> Id \cup {NullId}]

DriversInit ==
  /\ osDrivers = <<>>
  /\ irqDriver = [i \in Irq |-> NullId]

\* driver_register: the newest entry goes to the head of the list.
DriverRegister(name) ==
  /\ cpu = "user"
  /\ Len(osDrivers) < MaxDrivers
  /\ osDrivers' = <<[name |-> name, id |-> current]>> \o osDrivers
  /\ irqDriver' = IF name \in Irq THEN [irqDriver EXCEPT ![name] = current]
                                  ELSE irqDriver
  /\ UNCHANGED <<schedVars, ipcVars>>

\* driver_remove: only the first entry of the process goes, and irq_drivers
\* keeps naming it.
DriverRemove(id) ==
  \/ \E i \in DOMAIN osDrivers :
       /\ osDrivers[i].id = id
       /\ \A j \in 1 .. i - 1 : osDrivers[j].id # id
       /\ osDrivers' = SubSeq(osDrivers, 1, i - 1)
                         \o SubSeq(osDrivers, i + 1, Len(osDrivers))
       /\ UNCHANGED irqDriver
  \/ /\ \A i \in DOMAIN osDrivers : osDrivers[i].id # id
     /\ UNCHANGED driverVars

\* driver_get finds process id under this name: the first entry decides.
DriverIs(name, id) ==
  \E i \in DOMAIN osDrivers :
    /\ osDrivers[i] = [name |-> name, id |-> id]
    /\ \A j \in 1 .. i - 1 : osDrivers[j].name # name

=============================================================================
