-------------------------------- MODULE Emmc --------------------------------
(***************************************************************************)
(* The SD card driver (emmc.c) and the block loop over it (sd.c), with the *)
(* card and its host controller as they appear to the driver.              *)
(*                                                                         *)
(* One step is one command to the card, or the register accesses between   *)
(* two commands.  A command fails when the card does not take it, when its *)
(* answer is lost or corrupted, or when no answer comes in time.  A SPAWN  *)
(* that a GPIO interrupt suspends loses its frames (see Process), so with  *)
(* Abandonable a read may end between any two steps, or within one that    *)
(* accesses several registers (Abandon).                                   *)
(*                                                                         *)
(* emmc_write is called by nothing and left out, and with it the commands  *)
(* of several blocks: sd_read asks for one block at a time.                *)
(***************************************************************************)
EXTENDS SdClock, Sequences

CONSTANTS
  Block,        \* blocks of the card
  MaxCount,     \* bound: blocks of one sd_read
  Units,        \* pieces of 8 bytes a block is read in, 64 in the code
  MaxRetries,   \* max_retries of emmc_data_command, 3 in the code
  Cards,        \* kinds of cards that may be in the slot
  InitFaults,   \* may a step of emmc_card_init fail?
  Abandonable,  \* may a read be abandoned half-way?
  FlagRaces,    \* may data arrive just after the driver looked for it?
  UpsetTo,      \* states a pulled or disturbed card may be found in
  MaxUpsets     \* bound: times that happens

ASSUME CountAssumption == MaxCount \in Nat \ {0} /\ Units \in Nat \ {0, 1}
ASSUME RetriesAssumption == MaxRetries \in Nat \ {0} /\ MaxUpsets \in Nat
ASSUME BlocksAssumption == Block \subseteq Nat
\* A card of version 1, and of version 2: with byte addresses, with block
\* addresses, and one that can also be switched to 1.8 V.
ASSUME CardsAssumption == Cards \subseteq {"v1", "v2", "sdhc", "uhs"}
ASSUME UpsetAssumption == UpsetTo \subseteq {"idle", "ident", "stby"}
ASSUME FaultsAssumption == {InitFaults, Abandonable, FlagRaces} \subseteq BOOLEAN

VARIABLES
  card,    \* external: kind, state, power-up still going on, transfer, upsets
  clock,   \* CONTROL1's clock fields
  host,    \* external: a data transfer is on (armed), READ_RDY, the FIFO; and
           \* dirty, history: what left the circuit unclean shows in no flag
  device,  \* does the driver's global `device' name the structure?
  dev,     \* struct emmc_dev, and whether it is allocated
  nested,  \* is emmc_card_init inside its own retry?
  v2,      \* v2 of emmc_card_init
  caller,  \* who called emmc_card_init
  read,    \* sd_read in progress: block, bytes (in units) left and wanted
  buf,     \* what sd_read has copied so far
  result,  \* what the last call returned
  pc       \* the next step of the driver

driverVars == <<device, dev, nested, v2, caller, read, buf, result, pc>>
vars == <<card, clock, host, driverVars>>

None == [block |-> -1]
Dead == [alloc |-> "none", rca |-> FALSE, sdhc |-> FALSE, v18 |-> FALSE,
         failed |-> FALSE, size |-> 0]

CardState == {"off", "idle", "ready", "ident", "stby", "tran", "data"}

TypeOK ==
  /\ card \in [kind : Cards, state : CardState, busy : BOOLEAN,
               sends : Block \cup {-1}, size : 0 .. Units, upsets : 0 .. MaxUpsets]
  /\ clock \in Clock
  /\ {host.armed, host.ready, host.dirty} \subseteq BOOLEAN
  /\ host.fifo \in Seq(Nat \X Nat) /\ Len(host.fifo) <= 2 * Units
  /\ dev \in [alloc : {"none", "live", "freed"}, rca : BOOLEAN, sdhc : BOOLEAN,
              v18 : BOOLEAN, failed : BOOLEAN, size : 0 .. Units]
  /\ device \in BOOLEAN /\ nested \in BOOLEAN /\ v2 \in BOOLEAN
  /\ caller \in {"emmc_init", "no_rca", "wrong_state"}
  /\ read = None \/ read \in [first : Block, count : 1 .. MaxCount, block : Nat,
                              left : Nat, want : 0 .. Units, tries : 0 .. MaxRetries]
  /\ buf \in Seq(Nat \X Nat)
  /\ result \in {"none", "ok", "error", "abandoned"}

-----------------------------------------------------------------------------
(* The card and the host controller.                                        *)

HighCapacity == card.kind \in {"sdhc", "uhs"}

\* Commands of the tables emmc_commands and emmc_acommands that the driver
\* sends, with the states in which a card takes them and where they lead.
Takes(cmd) ==
  CASE cmd = "GO_IDLE_STATE"      -> CardState \ {"off"}
    [] cmd = "SEND_IF_COND"       -> IF card.kind # "v1" THEN {"idle"} ELSE {}
    [] cmd = "ACMD41"             -> {"idle"}
    [] cmd = "VOLTAGE_SWITCH"     -> {"ready"}
    [] cmd = "ALL_SEND_CID"       -> {"ready"}
    [] cmd = "SEND_RELATIVE_ADDR" -> {"ident"}
    [] cmd = "SELECT_CARD"        -> {"ident", "stby"}
    [] cmd = "SEND_STATUS"        -> {"ident", "stby", "tran", "data"}
    [] cmd = "STOP_TRANSMISSION"  -> {"data"}
    [] OTHER                      -> {"tran"}

Leads(cmd) ==
  CASE cmd = "GO_IDLE_STATE"      -> "idle"
    [] cmd = "ALL_SEND_CID"       -> "ident"
    [] cmd = "SEND_RELATIVE_ADDR" -> "stby"
    [] cmd \in {"SELECT_CARD", "STOP_TRANSMISSION"} -> "tran"
    [] cmd = "READ_SINGLE_BLOCK"  -> "data"
    [] OTHER                      -> card.state

\* The card has left the identification of idle cards behind.
InUse == card.state \in {"ident", "stby", "tran", "data"}

\* Without a clock nothing is sent.
Accepts(cmd) == clock.en /\ card.state \in Takes(cmd)

\* The card executes cmd.
Executes(cmd) == card' = [card EXCEPT !.state = Leads(cmd)]

IdleHost == [armed |-> FALSE, ready |-> FALSE, fifo |-> <<>>, dirty |-> FALSE]

BadResetDat == host

\* emmc_reset_dat
ResetDat == IdleHost

BadHandleInterrupts == UNCHANGED host

(***************************************************************************)
(* emmc_handle_interrupts, before every command: data that came too late   *)
(* is dropped with a reset of the data circuit, if its flag is still set.  *)
(***************************************************************************)
HandleInterrupts == host' = IF host.ready THEN ResetDat ELSE host

\* emmc_command, answered
Succeeds(cmd) ==
  /\ Accepts(cmd)
  /\ Executes(cmd)
  /\ HandleInterrupts

\* emmc_command, not answered in time or not correctly: the card may have
\* executed it nevertheless.
Fails(cmd) ==
  /\ UNCHANGED card \/ (Accepts(cmd) /\ Executes(cmd))
  /\ HandleInterrupts

(***************************************************************************)
(* The card has sent the block; only an armed host receives it, behind     *)
(* what the FIFO, which holds two blocks, has in it.  With FlagRaces data  *)
(* may come late enough to find the next command about to be written.      *)
(***************************************************************************)
CardSends ==
  /\ card.state = "data"
  /\ FlagRaces \/ pc # "issue"
  /\ host.armed => Len(host.fifo) + card.size <= 2 * Units
  /\ card' = [card EXCEPT !.state = "tran", !.sends = -1, !.size = 0]
  /\ host' = IF host.armed
             THEN [host EXCEPT
                     !.armed = FALSE, !.ready = TRUE,
                     !.fifo = @ \o [i \in 1 .. card.size |-> <<card.sends, i - 1>>]]
             ELSE host
  /\ UNCHANGED <<clock, driverVars>>

\* The card has powered up and will leave the idle state.
CardPowersUp ==
  /\ card.busy
  /\ card' = [card EXCEPT !.busy = FALSE]
  /\ UNCHANGED <<clock, host, driverVars>>

\* The card is pulled or disturbed.
CardUpset ==
  /\ card.upsets < MaxUpsets
  /\ InUse
  /\ pc \in {"status", "recheck", "command", "issue", "transfer"}
  /\ \E s \in UpsetTo :
       card' = [card EXCEPT !.state = s, !.sends = -1, !.size = 0, !.upsets = @ + 1]
  /\ UNCHANGED <<clock, host, driverVars>>

-----------------------------------------------------------------------------
(* emmc_card_init                                                           *)

\* What a failing call frees before it returns.
Released(l) == IF l \in {"relative", "select", "blocklen", "scr"} THEN "freed"
                                                                  ELSE dev.alloc

\* `return -1'
InitFails ==
  /\ InitFaults
  /\ dev' = [dev EXCEPT !.alloc = Released(pc),
                        !.size = IF pc = "scr" THEN Units ELSE @]
  /\ pc' = "idle"
  /\ result' = "error"
  /\ read' = None
  /\ nested' = FALSE
  /\ UNCHANGED <<device, v2, caller, buf>>

\* One step of the initialisation that leads to label l.
Goto(l) == pc' = l /\ UNCHANGED <<device, dev, nested, v2, caller, read, buf, result>>

EmmcInit ==
  /\ pc = "boot"
  /\ caller' = "emmc_init"
  /\ pc' = "power"
  /\ UNCHANGED <<card, clock, host, device, dev, nested, v2, read, buf, result>>

PoweredOff == [card EXCEPT !.state = "off", !.sends = -1, !.size = 0]

\* bcm_emmc_power_cycle
PowerCycle ==
  /\ pc = "power"
  /\ \/ /\ card' = [card EXCEPT !.state = "idle", !.busy = TRUE, !.sends = -1, !.size = 0]
        /\ Goto("controller")
     \/ card' \in {card, PoweredOff} /\ InitFails
  /\ UNCHANGED host

(***************************************************************************)
(* Controller reset, which stops the clock, and card detection.            *)
(***************************************************************************)
ResetController ==
  /\ pc = "controller"
  /\ UNCHANGED card
  /\ \/ host' = IdleHost /\ clock' = ResetClock(clock) /\ Goto("clock")
     \/ /\ \/ UNCHANGED <<host, clock>>
           \/ host' = IdleHost /\ clock' = ResetClock(clock)
        /\ InitFails

(***************************************************************************)
(* The base clock, as the firmware reports it or as it is assumed when the *)
(* mailbox fails, and the slow clock, whose divider is written before the  *)
(* clock is enabled.                                                       *)
(***************************************************************************)
StartClock ==
  /\ pc = "clock"
  /\ UNCHANGED <<card, host>>
  /\ \E b \in IF InitFaults THEN {clock.base, AssumedClock} ELSE {clock.base} :
       LET slow == Programmed([clock EXCEPT !.taken = b], ClockId) IN
         \/ clock' = slow /\ Goto("structure")
         \/ clock' = [slow EXCEPT !.en = FALSE] /\ InitFails

\* The structure after malloc, if the caller had none, and memset.
Cleared == [Dead EXCEPT !.alloc = "live"]

PrepareDevice ==
  /\ pc = "structure"
  /\ dev' = Cleared
  /\ pc' = "go_idle"
  /\ UNCHANGED <<card, host, device, nested, v2, caller, read, buf, result>>

GoIdle ==
  /\ pc = "go_idle"
  /\ \/ Succeeds("GO_IDLE_STATE") /\ Goto("if_cond")
     \/ Fails("GO_IDLE_STATE") /\ InitFails

\* CMD8: a card that does not answer is taken for one of version 1.
IfCond ==
  /\ pc = "if_cond"
  /\ \/ /\ \/ Succeeds("SEND_IF_COND") /\ v2' = TRUE
           \/ /\ InitFaults \/ ~Accepts("SEND_IF_COND")
              /\ Fails("SEND_IF_COND")
              /\ v2' = FALSE
        /\ pc' = "op_cond"
        /\ UNCHANGED <<device, dev, nested, caller, read, buf, result>>
     \/ Fails("SEND_IF_COND") /\ InitFails

\* CMD5, which only an SDIO card answers, and the inquiry ACMD41.
OpCond ==
  /\ pc = "op_cond"
  /\ UNCHANGED card /\ HandleInterrupts
  /\ Goto("send_op_cond") \/ InitFails

\* Does ACMD41 ask for 1.8 V?
Asks18v == v2 /\ ~dev.failed

(***************************************************************************)
(* ACMD41 until the card is not busy.  A high-capacity card stays busy for *)
(* a host that does not announce it (v2_flags).                            *)
(***************************************************************************)
SendOpCond ==
  /\ pc = "send_op_cond"
  /\ \/ /\ Accepts("ACMD41")
        /\ HandleInterrupts
        /\ IF card.busy \/ (HighCapacity /\ ~v2)
           THEN /\ UNCHANGED card
                /\ Goto("send_op_cond")
           ELSE /\ card' = [card EXCEPT !.state = "ready"]
                /\ dev' = [dev EXCEPT !.sdhc = HighCapacity,
                                      !.v18 = (Asks18v /\ card.kind = "uhs")]
                /\ pc' = "switch_clock"
                /\ UNCHANGED <<device, nested, v2, caller, read, buf, result>>
     \/ Fails("ACMD41") /\ InitFails

\* emmc_switch_clock_rate
SwitchClock ==
  /\ pc = "switch_clock"
  /\ clock' = Programmed(clock, ClockNormal)
  /\ Goto(IF dev.v18 THEN "voltage" ELSE "all_send_cid")
  /\ UNCHANGED <<card, host>>

(***************************************************************************)
(* The switch to 1.8 V, with the clock off for a while.  When it fails the *)
(* function calls itself, on its own local pointer.                        *)
(***************************************************************************)
VoltageSwitch ==
  /\ pc = "voltage"
  /\ \/ Succeeds("VOLTAGE_SWITCH") /\ Goto("all_send_cid") /\ UNCHANGED clock
     \/ /\ InitFaults
        /\ clock' \in {clock, [clock EXCEPT !.en = FALSE]}
        /\ Fails("VOLTAGE_SWITCH")
        /\ dev' = [dev EXCEPT !.failed = TRUE]
        /\ nested' = TRUE
        /\ pc' = "power"
        /\ UNCHANGED <<device, v2, caller, read, buf, result>>

AllSendCid ==
  /\ pc = "all_send_cid"
  /\ \/ Succeeds("ALL_SEND_CID") /\ Goto("relative")
     \/ Fails("ALL_SEND_CID") /\ InitFails

SendRelativeAddr ==
  /\ pc = "relative"
  /\ \/ /\ Succeeds("SEND_RELATIVE_ADDR")
        /\ dev' = [dev EXCEPT !.rca = TRUE]
        /\ pc' = "select"
        /\ UNCHANGED <<device, nested, v2, caller, read, buf, result>>
     \/ Fails("SEND_RELATIVE_ADDR") /\ InitFails

SelectCard ==
  /\ pc = "select"
  /\ \/ Succeeds("SELECT_CARD") /\ Goto(IF dev.sdhc THEN "scr" ELSE "blocklen")
     \/ Fails("SELECT_CARD") /\ InitFails

SetBlocklen ==
  /\ pc = "blocklen"
  /\ \/ Succeeds("SET_BLOCKLEN") /\ Goto("scr")
     \/ Fails("SET_BLOCKLEN") /\ InitFails

\* block_size is 8 for as long as the SCR is read.
StartScr ==
  /\ pc = "scr"
  /\ dev.size # 1
  /\ dev' = [dev EXCEPT !.size = 1]
  /\ UNCHANGED <<card, host, device, nested, v2, caller, read, buf, result, pc>>

SendScr ==
  /\ pc = "scr"
  /\ dev.size = 1
  /\ \/ /\ Succeeds("SEND_SCR")
        /\ dev' = [dev EXCEPT !.size = Units]
        /\ pc' = "bus_width"
        /\ UNCHANGED <<device, nested, v2, caller, read, buf, result>>
     \/ Fails("SEND_SCR") /\ InitFails

(***************************************************************************)
(* ACMD6, whose failure is only reported, and the return.  A nested call   *)
(* sets the local pointer of the call around it, which then returns        *)
(* without setting its caller's.                                           *)
(***************************************************************************)
NamesDevice == device \/ (caller = "emmc_init" /\ ~nested)

InitReturns ==
  /\ pc = "bus_width"
  /\ Succeeds("SET_BUS_WIDTH") \/ Fails("SET_BUS_WIDTH")
  /\ device' = NamesDevice
  /\ nested' = FALSE
  /\ pc' = CASE caller = "emmc_init"   -> "idle"
             [] caller = "no_rca"      -> "status"
             [] caller = "wrong_state" -> "recheck"
  /\ result' = IF caller = "emmc_init" THEN "ok" ELSE result
  /\ UNCHANGED <<dev, v2, caller, read, buf>>

-----------------------------------------------------------------------------
(* sd_read and emmc_read                                                    *)

BadLesser(a, b) == a

Lesser(a, b) == IF a < b THEN a ELSE b

\* The device pointer is NULL or names freed memory.
Wild == ~device \/ dev.alloc # "live"

SdRead ==
  /\ pc = "idle"
  /\ \E first \in Block, count \in 1 .. MaxCount :
       read' = [first |-> first, count |-> count, block |-> first, tries |-> 0,
                left |-> count * Units, want |-> Lesser(count * Units, dev.size)]
  /\ buf' = <<>>
  /\ result' = "none"
  /\ pc' = IF Wild THEN "undefined" ELSE "mode"
  /\ UNCHANGED <<card, clock, host, device, dev, nested, v2, caller>>

\* A return of emmc_read with an error, which sd_read passes on.
Refuse(rca) ==
  /\ dev' = [dev EXCEPT !.rca = rca]
  /\ read' = None
  /\ result' = "error"
  /\ pc' = "idle"
  /\ UNCHANGED <<device, nested, v2, caller, buf>>

\* emmc_data_mode: a card without an address is initialised again.
DataMode ==
  /\ pc = "mode"
  /\ IF dev.rca THEN pc' = "status" /\ UNCHANGED caller
                ELSE pc' = "power" /\ caller' = "no_rca"
  /\ UNCHANGED <<card, host, device, dev, nested, v2, read, buf, result>>

\* What the driver does about the state the card reports.
StatusLeadsTo(s) ==
  CASE s = "ident" -> "reselect"
    [] s = "data"  -> "stop"
    [] s = "tran"  -> "command"
    [] OTHER       -> "power"

SendStatus ==
  /\ pc = "status"
  /\ \/ /\ Succeeds("SEND_STATUS")
        /\ pc' = StatusLeadsTo(card.state)
        /\ caller' = IF pc' = "power" THEN "wrong_state" ELSE caller
        /\ UNCHANGED <<device, dev, nested, v2, read, buf, result>>
     \/ Fails("SEND_STATUS") /\ Refuse(FALSE)

(***************************************************************************)
(* A command with a busy answer first waits, without a timeout, for the    *)
(* data line (DAT_INHIBIT).  In emmc_card_init the controller was reset.   *)
(***************************************************************************)
BusyWait ==
  /\ pc = "reselect"
  /\ host.armed
  /\ UNCHANGED vars

\* The card is thought to be in stand-by.
Reselect ==
  /\ pc = "reselect"
  /\ ~host.armed
  /\ \/ Succeeds("SELECT_CARD") /\ Goto("recheck")
     \/ Fails("SELECT_CARD") /\ Refuse(FALSE)

\* Cancel a transmission, then reset the data circuit.
StopTransmission ==
  /\ pc = "stop"
  /\ \/ /\ Accepts("STOP_TRANSMISSION")
        /\ card' = [card EXCEPT !.state = "tran", !.sends = -1, !.size = 0]
        /\ HandleInterrupts
        /\ Goto("reset_dat")
     \/ Fails("STOP_TRANSMISSION") /\ Refuse(FALSE)

ResetCircuit ==
  /\ pc = "reset_dat"
  /\ host' = ResetDat
  /\ Goto("recheck")
  /\ UNCHANGED card

Recheck ==
  /\ pc = "recheck"
  /\ \/ /\ Succeeds("SEND_STATUS")
        /\ IF card.state = "tran" THEN Goto("command") ELSE Refuse(FALSE)
     \/ Fails("SEND_STATUS") /\ Refuse(FALSE)

\* emmc_data_command up to the retry loop
DataCommand ==
  /\ pc = "command"
  /\ UNCHANGED <<card, host>>
  /\ CASE read.want < dev.size -> Refuse(dev.rca)
       [] dev.size = 0         -> Goto("undefined")   \* a division by zero
       [] OTHER                -> Goto("attempt")

\* The interrupts are handled first; data may arrive before the command is
\* written.
Attempt ==
  /\ pc = "attempt"
  /\ HandleInterrupts
  /\ UNCHANGED card
  /\ Goto("issue")

\* An attempt failed; after the last one the address is forgotten.
Retry ==
  IF read.tries + 1 < MaxRetries
  THEN /\ read' = [read EXCEPT !.tries = @ + 1]
       /\ pc' = "attempt"
       /\ UNCHANGED <<device, dev, nested, v2, caller, buf, result>>
  ELSE Refuse(FALSE)

\* CMD17: the card starts to send, and the host to expect, the block.
Issue ==
  /\ pc = "issue"
  /\ \/ /\ Accepts("READ_SINGLE_BLOCK") /\ read.block \in Block
        /\ card' = [card EXCEPT !.state = "data", !.sends = read.block, !.size = dev.size]
        /\ \/ host' = [host EXCEPT !.armed = TRUE] /\ Goto("transfer")
           \/ UNCHANGED host /\ Retry
     \/ UNCHANGED <<card, host>> /\ Retry

(***************************************************************************)
(* The interrupts are read and READ_RDY is cleared, or an error or the     *)
(* timeout ends the attempt.  When the data comes with an error, or        *)
(* between reading and clearing, it loses its flag and stays in the FIFO;  *)
(* so does a second block that is there already.                           *)
(***************************************************************************)
Transfer ==
  /\ pc = "transfer"
  /\ UNCHANGED card
  /\ \/ /\ host.ready
        /\ host' = [host EXCEPT !.ready = FALSE,
                                !.dirty = @ \/ Len(host.fifo) > dev.size]
        /\ Goto("copy")
     \/ /\ FlagRaces /\ host.ready
        /\ host' = [host EXCEPT !.ready = FALSE, !.dirty = TRUE]
        /\ Retry
     \/ ~host.ready /\ UNCHANGED host /\ Retry

\* The words of a block are read from the FIFO; an error may still follow.
Copy ==
  /\ pc = "copy"
  /\ host' = [host EXCEPT !.fifo = SubSeq(@, dev.size + 1, Len(@))]
  /\ \/ /\ buf' = buf \o SubSeq(host.fifo, 1, dev.size)
        /\ pc' = "next_block"
        /\ UNCHANGED <<device, dev, nested, v2, caller, read, result>>
     \/ Retry
  /\ UNCHANGED card

\* sd_read counts with the block size it finds now.
NextBlock ==
  /\ pc = "next_block"
  /\ LET left == IF read.left < dev.size THEN 0 ELSE read.left - dev.size IN
       IF left > 0
       THEN /\ read' = [read EXCEPT !.left = left, !.block = @ + 1, !.tries = 0,
                                    !.want = Lesser(left, dev.size)]
            /\ pc' = "mode"
            /\ UNCHANGED result
       ELSE /\ read' = None
            /\ pc' = "idle"
            /\ result' = "ok"
  /\ UNCHANGED <<card, host, device, dev, nested, v2, caller, buf>>

\* The data circuit when a read is abandoned: some words may have been copied,
\* or a transfer been stopped and not yet reset.
LeftInCircuit ==
  CASE pc = "copy"      -> {[host EXCEPT !.fifo = SubSeq(@, n + 1, Len(@)),
                                         !.dirty = TRUE] : n \in 0 .. dev.size}
    [] pc = "reset_dat" -> {[host EXCEPT !.dirty = TRUE]}
    [] OTHER            -> {host}

(***************************************************************************)
(* The process that reads is suspended, and its frames are overwritten.    *)
(* The card may be off between the halves of a power cycle, and the clock  *)
(* while its rate or the voltage is switched.                              *)
(***************************************************************************)
Abandon ==
  /\ Abandonable
  /\ read # None /\ pc # "undefined"
  /\ card' \in IF pc = "power" THEN {card, PoweredOff} ELSE {card}
  /\ clock' \in IF pc \in {"switch_clock", "voltage"}
               THEN {clock, [clock EXCEPT !.en = FALSE]} ELSE {clock}
  /\ host' \in LeftInCircuit
  /\ read' = None
  /\ nested' = FALSE
  /\ result' = "abandoned"
  /\ pc' = "idle"
  /\ UNCHANGED <<device, dev, v2, caller, buf>>

-----------------------------------------------------------------------------
Init ==
  /\ \E kind \in Cards :
       card = [kind |-> kind, state |-> "off", busy |-> TRUE, sends |-> -1,
               size |-> 0, upsets |-> 0]
  /\ \E base \in BaseClock :
       clock = ResetClock([base |-> base, taken |-> base])
  /\ host = IdleHost
  /\ device = FALSE
  /\ dev = Dead
  /\ nested = FALSE
  /\ v2 = FALSE
  /\ caller = "emmc_init"
  /\ read = None
  /\ buf = <<>>
  /\ result = "none"
  /\ pc = "boot"

CardInit ==
  \/ ResetController \/ StartClock \/ SwitchClock \/ VoltageSwitch
  \/ /\ \/ PowerCycle \/ PrepareDevice \/ GoIdle \/ IfCond \/ OpCond \/ SendOpCond
        \/ AllSendCid \/ SendRelativeAddr \/ SelectCard \/ SetBlocklen \/ StartScr
        \/ SendScr \/ InitReturns
     /\ UNCHANGED clock

EmmcRead ==
  /\ \/ DataMode \/ SendStatus \/ BusyWait \/ Reselect \/ StopTransmission
     \/ ResetCircuit \/ Recheck \/ DataCommand \/ Attempt \/ Issue \/ Transfer
     \/ Copy \/ NextBlock
  /\ UNCHANGED clock

\* Nothing the model describes happens any more.
Undefined == pc = "undefined" /\ UNCHANGED vars

Next ==
  \/ EmmcInit \/ CardInit \/ SdRead \/ EmmcRead \/ Abandon
  \/ CardSends \/ CardPowersUp \/ CardUpset \/ Undefined

(***************************************************************************)
(* The driver keeps running: it polls with IRQs enabled, so its timeouts   *)
(* expire.  A card that is powered gets ready.                             *)
(***************************************************************************)
Fairness ==
  /\ WF_vars(EmmcInit \/ CardInit \/ EmmcRead)
  /\ WF_vars(CardPowersUp)

Spec == Init /\ [][Next]_vars
FairSpec == Spec /\ Fairness

-----------------------------------------------------------------------------
(* Properties.                                                              *)

(***************************************************************************)
(* No stale data: the block just copied to the caller is the one that was  *)
(* asked for, or the head of it while block_size is that of the SCR,       *)
(* whatever came late from earlier attempts, earlier reads and reads that  *)
(* were abandoned.  Excepted is a circuit that was left unclean with no    *)
(* flag to show it, until its next reset: by a read abandoned between      *)
(* clearing READ_RDY and the last word, or by a flag lost with its data.   *)
(***************************************************************************)
CopiesRequestedBlock ==
  pc = "next_block" /\ ~host.dirty =>
    SubSeq(buf, Len(buf) - dev.size + 1, Len(buf))
      = [i \in 1 .. dev.size |-> <<read.block, i - 1>>]

(***************************************************************************)
(* The first command for a block finds the data circuit idle: no transfer  *)
(* of an earlier command is still on, none left its data in the FIFO, even *)
(* after failed, stopped and abandoned reads, with the exception above.    *)
(***************************************************************************)
CircuitIdle ==
  pc = "issue" /\ read.tries = 0 /\ ~host.dirty => host = IdleHost

(***************************************************************************)
(* sd_read keeps the promise of BlockDevice, and returns: every answer is  *)
(* the contents of the blocks asked for, or an error.                      *)
(***************************************************************************)
asked == IF read = None THEN [count |-> 0]
                       ELSE [first |-> read.first, count |-> read.count]
answer == CASE read # None \/ result = "none" -> [data |-> <<>>]
            [] read = None /\ result = "error" -> [error |-> TRUE]
            [] OTHER -> [data |-> buf]

Promise == INSTANCE BlockDevice WITH asked <- asked, answer <- answer

KeepsPromise == Promise!Spec

(***************************************************************************)
(* The clock fits the card: commands that identify it go out at            *)
(* EMMC_CLOCK_ID, and a card that can be selected, read and asked for its  *)
(* status has EMMC_CLOCK_NORMAL or no clock at all, also after             *)
(* initialisations that failed or were abandoned half-way.                 *)
(***************************************************************************)
ClockFits ==
  /\ pc \in {"go_idle", "if_cond", "op_cond", "send_op_cond"} =>
       clock.en /\ HasRate(clock, ClockId)
  /\ InUse /\ clock.en => HasRate(clock, ClockNormal)

-----------------------------------------------------------------------------
(* What the comments of the code say and the code does not do; see README.  *)

(***************************************************************************)
(* emmc.c 1315, "Try again to initialise the card": a read after a failed  *)
(* one initialises the card again, on a structure that exists.             *)
(***************************************************************************)
TriesAgain == [][SdRead /\ device => pc' # "undefined"]_vars

=============================================================================
