----------------------------- MODULE EmmcProofs -----------------------------
(***************************************************************************)
(* The SD card driver, for cards of any size, reads of any length and any  *)
(* number of retries and disturbances: the block that is copied to the     *)
(* caller is the one that was asked for, the data circuit is idle before   *)
(* the first command for a block, the clock fits what is sent, and sd_read *)
(* never answers with anything but the blocks or an error.                 *)
(*                                                                         *)
(* The argument is about the transfer that outlives its command.  It ends  *)
(* with the reset of the controller or of the data circuit, or the card is *)
(* initialised again before the next command for data: where the driver    *)
(* loses its answer to STOP_TRANSMISSION it forgets the address of the     *)
(* card (CancelLost).  What a read that is abandoned half-way through a    *)
(* block, or data that lose their flag, leave in the circuit is not dealt  *)
(* with by the driver until its next reset: host.dirty stands for it, and  *)
(* the theorems about data except it.                                      *)
(***************************************************************************)
EXTENDS Emmc, SequenceTheorems, TLAPS

\* The labels of the driver.
Preparing == {"clock", "structure", "go_idle", "if_cond", "op_cond", "send_op_cond",
              "switch_clock", "voltage", "all_send_cid", "relative", "select",
              "blocklen", "scr", "bus_width"}
Initialising == {"power", "controller"} \cup Preparing
Trying == {"attempt", "issue", "transfer", "copy"}
Reading == {"mode", "status", "reselect", "stop", "reset_dat", "recheck", "command",
            "next_block"} \cup Trying

-----------------------------------------------------------------------------
(* Types.                                                                   *)

Piece == Nat \X Nat
CardRecord ==
  [kind : Cards, state : CardState, busy : BOOLEAN,
   sends : Block \cup {-1}, size : 0 .. Units, upsets : 0 .. MaxUpsets]
HostRecord == [armed : BOOLEAN, ready : BOOLEAN, fifo : Seq(Piece), dirty : BOOLEAN]
DevRecord ==
  [alloc : {"none", "live", "freed"}, rca : BOOLEAN, sdhc : BOOLEAN,
   v18 : BOOLEAN, failed : BOOLEAN, size : 0 .. Units]
ReadRecord ==
  [first : Block, count : 1 .. MaxCount, block : Nat,
   left : Nat, want : 0 .. Units, tries : 0 .. MaxRetries]

\* The card and the host controller; a card that sends has a block to send.
CardTyped ==
  /\ card \in CardRecord
  /\ host \in HostRecord /\ Len(host.fifo) <= 2 * Units
  /\ card.state = "data" => card.sends \in Block

\* The driver.  There is a read exactly when it is being worked on.
DriverTyped ==
  /\ dev \in DevRecord
  /\ device \in BOOLEAN /\ nested \in BOOLEAN /\ v2 \in BOOLEAN
  /\ caller \in {"emmc_init", "no_rca", "wrong_state"}
  /\ read = None \/ read \in ReadRecord
  /\ buf \in Seq(Piece)
  /\ result \in {"none", "ok", "error", "abandoned"}
  /\ pc \in {"boot", "idle", "undefined"} \cup Initialising \cup Reading
  /\ pc \in Reading => read # None
  /\ pc \in {"boot", "idle"} => read = None
  /\ pc \in Initialising => (read = None <=> caller = "emmc_init")

HostTyped == host \in HostRecord /\ Len(host.fifo) <= 2 * Units

\* An idle circuit.
LEMMA IdleTyped ==
  /\ IdleHost \in HostRecord /\ Len(IdleHost.fifo) = 0 /\ IdleHost.fifo = <<>>
  /\ ~IdleHost.armed /\ ~IdleHost.ready /\ ~IdleHost.dirty
BY DEF IdleHost, HostRecord

\* A card that sends while a block is read sends that block, for it was stopped
\* before; and the FIFO has it when the driver reads from it.
Sending ==
  /\ pc = "command" => card.state # "data"
  /\ pc \in Trying /\ card.state = "data" => card.sends = read.block /\ card.size = dev.size
  /\ (pc \in {"issue", "transfer"} /\ host.ready) \/ pc = "copy" =>
       Len(host.fifo) >= dev.size

\* emmc_handle_interrupts
LEMMA InterruptsHandled ==
  ASSUME HostTyped, HandleInterrupts
  PROVE  /\ HostTyped'
         /\ host' = IdleHost \/ (host' = host /\ ~host.ready)
<1>1. host' = IdleHost \/ (host' = host /\ ~host.ready)
  BY DEF HandleInterrupts, ResetDat
<1>2. Len(IdleHost.fifo) <= 2 * Units
  BY IdleTyped, CountAssumption
<1> QED BY <1>1, <1>2, IdleTyped DEF HostTyped

\* emmc_command, for any command but the one that reads a block.
LEMMA CommandSent ==
  ASSUME CardTyped, NEW cmd, cmd # "READ_SINGLE_BLOCK", Succeeds(cmd) \/ Fails(cmd)
  PROVE  /\ CardTyped'
         /\ card'.state = "data" =>
              card.state = "data" /\ card'.sends = card.sends /\ card'.size = card.size
         /\ card'.state = "tran" =>
              card.state = "tran" \/ cmd \in {"SELECT_CARD", "STOP_TRANSMISSION"}
         /\ HandleInterrupts
<1>1. card' = card \/ (card' = [card EXCEPT !.state = Leads(cmd)])
  BY DEF Succeeds, Fails, Executes
<1>2. /\ Leads(cmd) \in CardState
      /\ Leads(cmd) = "data" => card.state = "data"
      /\ Leads(cmd) = "tran" =>
           card.state = "tran" \/ cmd \in {"SELECT_CARD", "STOP_TRANSMISSION"}
  BY DEF Leads, CardTyped, CardRecord, CardState
<1>3. /\ card' \in CardRecord
      /\ card'.state = "data" =>
           card.state = "data" /\ card'.sends = card.sends /\ card'.size = card.size
      /\ card'.state = "tran" =>
           card.state = "tran" \/ cmd \in {"SELECT_CARD", "STOP_TRANSMISSION"}
  BY <1>1, <1>2 DEF CardTyped, CardRecord
<1>4. HandleInterrupts
  BY DEF Succeeds, Fails
<1>5. HostTyped'
  BY <1>4, InterruptsHandled DEF CardTyped, HostTyped
<1> QED BY <1>3, <1>4, <1>5 DEF CardTyped, HostTyped

\* The driver sends a command other than the one for a block.
Sends == \E cmd : cmd # "READ_SINGLE_BLOCK" /\ (Succeeds(cmd) \/ Fails(cmd))

\* The steps in which the driver sends one, and the rest of these steps.
LEMMA CommandSteps ==
  ASSUME \/ GoIdle \/ IfCond \/ VoltageSwitch \/ AllSendCid \/ SendRelativeAddr
         \/ SelectCard \/ SetBlocklen \/ SendScr \/ InitReturns
         \/ SendStatus \/ Reselect \/ Recheck
  PROVE  Sends
BY DEF Sends, GoIdle, IfCond, VoltageSwitch, AllSendCid, SendRelativeAddr, SelectCard,
       SetBlocklen, SendScr, InitReturns, SendStatus, Reselect, Recheck

\* What is changed of a card leaves it a card.
LEMMA CardChanged ==
  ASSUME card \in CardRecord, NEW s \in CardState, NEW b \in Block \cup {-1},
         NEW n \in 0 .. Units
  PROVE  /\ [card EXCEPT !.state = s, !.sends = b, !.size = n] \in CardRecord
         /\ [card EXCEPT !.state = s, !.busy = TRUE, !.sends = b, !.size = n] \in CardRecord
         /\ \A u \in 0 .. MaxUpsets :
              [card EXCEPT !.state = s, !.sends = b, !.size = n, !.upsets = u] \in CardRecord
<1>1. [card EXCEPT !.state = s, !.sends = b, !.size = n] \in CardRecord
  BY Zenon DEF CardRecord
<1>2. [card EXCEPT !.state = s, !.busy = TRUE, !.sends = b, !.size = n] \in CardRecord
  BY Zenon DEF CardRecord
<1>3. \A u \in 0 .. MaxUpsets :
        [card EXCEPT !.state = s, !.sends = b, !.size = n, !.upsets = u] \in CardRecord
  BY Zenon DEF CardRecord
<1> QED BY <1>1, <1>2, <1>3

\* The card stops to send, in state s.
LEMMA CardStops ==
  ASSUME card \in CardRecord, NEW s \in CardState
  PROVE  /\ [card EXCEPT !.state = s, !.sends = -1, !.size = 0] \in CardRecord
         /\ [card EXCEPT !.state = s, !.busy = TRUE, !.sends = -1, !.size = 0] \in CardRecord
         /\ \A u \in 0 .. MaxUpsets :
              [card EXCEPT !.state = s, !.sends = -1, !.size = 0, !.upsets = u] \in CardRecord
<1>1. 0 \in 0 .. Units
  BY CountAssumption
<1>2. -1 \in Block \cup {-1}
  OBVIOUS
<1> QED BY <1>1, <1>2, CardChanged, Zenon

\* The card loses its power.
LEMMA PowerOffTyped ==
  ASSUME card \in CardRecord
  PROVE  PoweredOff \in CardRecord /\ PoweredOff.state = "off"
<1>1. "off" \in CardState
  BY DEF CardState
<1>2. PoweredOff \in CardRecord
  BY <1>1, CardStops, Zenon DEF PoweredOff
<1> QED BY <1>2 DEF PoweredOff, CardRecord

\* Some words are read from the FIFO.
LEMMA RestTyped ==
  ASSUME HostTyped, NEW n \in 0 .. Units, NEW d \in BOOLEAN,
         host' = [host EXCEPT !.fifo = SubSeq(host.fifo, n + 1, Len(host.fifo)),
                              !.dirty = d]
  PROVE  HostTyped'
<1> DEFINE rest == SubSeq(host.fifo, n + 1, Len(host.fifo))
<1>1. n \in Nat /\ host.fifo \in Seq(Piece) /\ Len(host.fifo) <= 2 * Units
  BY CountAssumption DEF HostTyped, HostRecord
<1>2. rest \in Seq(Piece) /\ Len(rest) <= Len(host.fifo)
  <2> HIDE DEF Piece
  <2>1. PICK s : s = host.fifo
    OBVIOUS
  <2>2. s \in Seq(Piece)
    BY <1>1, <2>1
  <2>3. SubSeq(s, n + 1, Len(s)) \in Seq(Piece) /\ Len(SubSeq(s, n + 1, Len(s))) <= Len(s)
    BY <1>1, <2>2
  <2> QED BY <2>1, <2>3
<1> HIDE DEF rest
<1>3. host' = [host EXCEPT !.fifo = rest, !.dirty = d]
  BY DEF rest
<1>4. host' \in HostRecord
  BY <1>2, <1>3, Zenon DEF HostTyped, HostRecord
<1>5. host'.fifo = rest
  BY <1>3 DEF HostTyped, HostRecord
<1>6. Len(rest) \in Nat /\ Len(host.fifo) \in Nat
  BY <1>1, <1>2
<1>7. Len(host'.fifo) <= 2 * Units
  BY <1>1, <1>2, <1>5, <1>6, CountAssumption
<1> QED BY <1>4, <1>7 DEF HostTyped

\* What is left in the circuit by a copy, or by an abandoned read.
LEMMA LeftTyped ==
  ASSUME host \in HostRecord, DriverTyped, Copy \/ Abandon
  PROVE  \/ host' = host
         \/ \E n \in 0 .. Units, d \in BOOLEAN :
              host' = [host EXCEPT !.fifo = SubSeq(host.fifo, n + 1, Len(host.fifo)),
                                   !.dirty = d]
<1>1. dev.size \in 0 .. Units
  BY DEF DriverTyped, DevRecord
<1>2. CASE Copy
  <2>1. host' = [host EXCEPT !.fifo = SubSeq(host.fifo, dev.size + 1, Len(host.fifo)),
                             !.dirty = host.dirty]
    BY <1>2 DEF Copy, HostRecord
  <2>2. host.dirty \in BOOLEAN
    BY DEF HostRecord
  <2> QED BY <1>1, <2>1, <2>2
<1>3. CASE Abandon
  <2>1. host' \in LeftInCircuit
    BY <1>3 DEF Abandon
  <2>2. CASE pc = "copy"
    <3>1. PICK n \in 0 .. dev.size :
            host' = [host EXCEPT !.fifo = SubSeq(@, n + 1, Len(@)), !.dirty = TRUE]
      BY <2>1, <2>2 DEF LeftInCircuit
    <3>2. n \in 0 .. Units
      BY <1>1, CountAssumption
    <3> QED BY <3>1, <3>2, Zenon
  <2>3. CASE pc = "reset_dat"
    <3>1. host' = [host EXCEPT !.dirty = TRUE]
      BY <2>1, <2>3 DEF LeftInCircuit
    <3>2. SubSeq(host.fifo, 0 + 1, Len(host.fifo)) = host.fifo
      BY DEF HostRecord
    <3>3. host' = [host EXCEPT !.fifo = SubSeq(host.fifo, 0 + 1, Len(host.fifo)),
                               !.dirty = TRUE]
      BY <3>1, <3>2 DEF HostRecord
    <3>4. 0 \in 0 .. Units
      BY CountAssumption
    <3> QED BY <3>3, <3>4
  <2>4. CASE pc \notin {"copy", "reset_dat"}
    BY <2>1, <2>4 DEF LeftInCircuit
  <2> QED BY <2>2, <2>3, <2>4
<1> QED BY <1>2, <1>3

\* The card and the controller keep their types.
LEMMA CardTypedStep ==
  ASSUME CardTyped, DriverTyped, [Next]_vars
  PROVE  CardTyped'
<1> USE CountAssumption, BlocksAssumption, RetriesAssumption
<1>1. CASE UNCHANGED <<card, host>>
  BY <1>1 DEF CardTyped
<1>2. CASE Sends
  BY <1>2, CommandSent DEF Sends
<1>3. CASE \/ EmmcInit \/ StartClock \/ PrepareDevice \/ SwitchClock \/ StartScr
           \/ SdRead \/ DataMode \/ DataCommand \/ NextBlock
           \/ BusyWait \/ Undefined \/ UNCHANGED vars
  BY <1>1, <1>3 DEF EmmcInit, StartClock, PrepareDevice, SwitchClock, StartScr, SdRead,
                    DataMode, DataCommand, NextBlock, BusyWait, Undefined, vars
<1>4. IdleHost \in HostRecord /\ Len(IdleHost.fifo) <= 2 * Units
  BY IdleTyped
<1>5. CASE CardPowersUp \/ CardUpset
  <2>1. /\ host' = host
        /\ \/ card' = [card EXCEPT !.busy = FALSE]
           \/ /\ card.upsets < MaxUpsets
              /\ \E s \in UpsetTo : card' = [card EXCEPT !.state = s, !.sends = -1,
                                                         !.size = 0, !.upsets = @ + 1]
    BY <1>5 DEF CardPowersUp, CardUpset
  <2>2. CASE card' = [card EXCEPT !.busy = FALSE]
    BY <2>1, <2>2 DEF CardTyped, CardRecord
  <2>3. ASSUME NEW s \in UpsetTo, card.upsets < MaxUpsets,
               card' = [card EXCEPT !.state = s, !.sends = -1, !.size = 0, !.upsets = @ + 1]
        PROVE  CardTyped'
    <3>1. s \in CardState /\ s # "data"
      BY UpsetAssumption DEF CardState
    <3>2. card.upsets + 1 \in 0 .. MaxUpsets
      BY <2>3 DEF CardTyped, CardRecord
    <3>3. card' \in CardRecord
      BY <2>3, <3>1, <3>2, CardStops, Zenon DEF CardTyped
    <3>4. card'.state = s
      BY <2>3 DEF CardTyped, CardRecord
    <3> QED BY <2>1, <3>1, <3>3, <3>4 DEF CardTyped
  <2> QED BY <2>1, <2>2, <2>3
<1>6. CASE CardSends
  <2> DEFINE data == [i \in 1 .. card.size |-> <<card.sends, i - 1>>]
  <2>1. card' = [card EXCEPT !.state = "tran", !.sends = -1, !.size = 0]
    BY <1>6 DEF CardSends
  <2>2. card' \in CardRecord /\ card'.state = "tran"
    <3>1. "tran" \in CardState
      BY DEF CardState
    <3>2. card' \in CardRecord
      BY <2>1, <3>1, CardStops, Zenon DEF CardTyped
    <3> QED BY <2>1, <3>2 DEF CardTyped, CardRecord
  <2>3. card.sends \in Nat /\ card.size \in Nat
    BY <1>6 DEF CardSends, CardTyped, CardRecord
  <2>4. data \in Seq(Piece)
    BY <2>3 DEF Piece
  <2>5. Len(data) = card.size
    BY <2>3
  <2>6. /\ host.armed => Len(host.fifo) + card.size <= 2 * Units
        /\ host' = IF host.armed THEN [host EXCEPT !.armed = FALSE, !.ready = TRUE,
                                                   !.fifo = @ \o data]
                                 ELSE host
    BY <1>6 DEF CardSends
  <2> HIDE DEF data
  <2>7. host \in HostRecord /\ host.fifo \in Seq(Piece)
    BY DEF CardTyped, HostRecord
  <2>8. host.fifo \o data \in Seq(Piece) /\ Len(host.fifo \o data) = Len(host.fifo) + card.size
    BY <2>4, <2>5, <2>7
  <2>9. CASE host.armed
    <3>1. host' = [host EXCEPT !.armed = FALSE, !.ready = TRUE, !.fifo = host.fifo \o data]
      BY <2>6, <2>9, Zenon
    <3>2. host'.fifo = host.fifo \o data
      BY <2>7, <3>1 DEF HostRecord
    <3>3. host' \in HostRecord
      BY <2>7, <2>8, <3>1, Zenon DEF HostRecord
    <3>4. Len(host'.fifo) <= 2 * Units
      BY <2>6, <2>8, <2>9, <3>2
    <3> QED BY <2>2, <3>3, <3>4 DEF CardTyped
  <2>10. CASE ~host.armed
    BY <2>2, <2>6, <2>10 DEF CardTyped
  <2> QED BY <2>9, <2>10
<1>7. CASE PowerCycle
  <2>1. host' = host /\ (card' = card \/ card' = PoweredOff
          \/ card' = [card EXCEPT !.state = "idle", !.busy = TRUE, !.sends = -1, !.size = 0])
    BY <1>7 DEF PowerCycle
  <2>2. {"idle", "off"} \subseteq CardState
    BY DEF CardState
  <2>3. card' \in CardRecord
    BY <2>1, <2>2, CardStops DEF CardTyped, PoweredOff
  <2>4. card'.state = "data" => card' = card
    BY <2>1 DEF CardTyped, CardRecord, PoweredOff
  <2> QED BY <2>1, <2>3, <2>4 DEF CardTyped
<1>8. CASE ResetController
  BY <1>4, <1>8 DEF ResetController, CardTyped
<1>9. CASE OpCond \/ Attempt
  BY <1>9, InterruptsHandled DEF OpCond, Attempt, CardTyped, HostTyped
<1>10. CASE SendOpCond
  <2>1. CASE Fails("ACMD41")
    BY <1>2, <2>1 DEF Sends
  <2>2. CASE HandleInterrupts /\ (card' = card \/ card' = [card EXCEPT !.state = "ready"])
    <3>1. HostTyped'
      BY <2>2, InterruptsHandled DEF CardTyped, HostTyped
    <3> QED BY <2>2, <3>1 DEF HostTyped, CardTyped, CardRecord, CardState
  <2> QED BY <1>10, <2>1, <2>2 DEF SendOpCond
<1>11. CASE StopTransmission
  <2>1. CASE Fails("STOP_TRANSMISSION")
    BY <1>2, <2>1 DEF Sends
  <2>2. CASE /\ card' = [card EXCEPT !.state = "tran", !.sends = -1, !.size = 0]
             /\ HandleInterrupts
    <3>1. "tran" \in CardState
      BY DEF CardState
    <3>2. card' \in CardRecord
      BY <2>2, <3>1, CardStops, Zenon DEF CardTyped
    <3>3. card'.state = "tran"
      BY <2>2 DEF CardTyped, CardRecord
    <3>4. HostTyped'
      BY <2>2, InterruptsHandled DEF CardTyped, HostTyped
    <3> QED BY <3>2, <3>3, <3>4 DEF HostTyped, CardTyped
  <2> QED BY <1>11, <2>1, <2>2 DEF StopTransmission
<1>12. CASE Issue
  <2>1. CASE /\ read.block \in Block
             /\ card' = [card EXCEPT !.state = "data", !.sends = read.block, !.size = dev.size]
             /\ host' = [host EXCEPT !.armed = TRUE] \/ host' = host
    <3>1. "data" \in CardState /\ dev.size \in 0 .. Units
      BY DEF CardState, DriverTyped, DevRecord
    <3>2. card' \in CardRecord
      BY <2>1, <3>1, CardChanged, Zenon DEF CardTyped
    <3>3. card'.sends = read.block
      BY <2>1 DEF CardTyped, CardRecord
    <3>4. HostTyped'
      BY <2>1 DEF CardTyped, HostTyped, HostRecord
    <3> QED BY <2>1, <3>2, <3>3, <3>4 DEF CardTyped, HostTyped
  <2> QED BY <1>1, <1>12, <2>1 DEF Issue
<1>13. CASE Transfer
  <2>1. card' = card /\ (\/ host' = host
                         \/ \E d \in BOOLEAN :
                              host' = [host EXCEPT !.ready = FALSE, !.dirty = d])
    <3>1. host.dirty \in BOOLEAN
      BY DEF CardTyped, HostRecord
    <3>2. (host.dirty \/ Len(host.fifo) > dev.size) \in BOOLEAN
      OBVIOUS
    <3> QED BY <1>13, <3>1, <3>2 DEF Transfer
  <2> QED BY <2>1 DEF CardTyped, HostRecord
<1>14. CASE ResetCircuit
  BY <1>4, <1>14 DEF ResetCircuit, ResetDat, CardTyped
<1>15. CASE Copy \/ Abandon
  <2>1. HostTyped'
    BY <1>15, LeftTyped, RestTyped DEF CardTyped, HostTyped
  <2>2. card' = card \/ card' = PoweredOff
    BY <1>15 DEF Copy, Abandon
  <2>3. card' \in CardRecord /\ (card'.state = "data" => card' = card)
    BY <2>2, PowerOffTyped DEF CardTyped
  <2> QED BY <2>1, <2>3 DEF CardTyped, HostTyped
<1>16. CASE CardInit
  BY <1>2, <1>3, <1>7, <1>8, <1>9, <1>10, <1>16, CommandSteps DEF CardInit
<1>17. CASE EmmcRead
  BY <1>2, <1>3, <1>9, <1>11, <1>12, <1>13, <1>14, <1>17, <1>15, CommandSteps DEF EmmcRead
<1> QED BY <1>3, <1>5, <1>6, <1>16, <1>17, <1>15 DEF Next

\* What is changed of the structure leaves it one.
LEMMA DevChanged ==
  ASSUME dev \in DevRecord, NEW a \in {"none", "live", "freed"}, NEW n \in 0 .. Units,
         NEW b \in BOOLEAN, NEW c \in BOOLEAN
  PROVE  /\ [dev EXCEPT !.alloc = a, !.size = n] \in DevRecord
         /\ [dev EXCEPT !.sdhc = b, !.v18 = c] \in DevRecord
         /\ [dev EXCEPT !.failed = b] \in DevRecord
         /\ [dev EXCEPT !.rca = b] \in DevRecord
         /\ [dev EXCEPT !.size = n] \in DevRecord
<1>1. [dev EXCEPT !.alloc = a, !.size = n] \in DevRecord
  BY Zenon DEF DevRecord
<1>2. [dev EXCEPT !.sdhc = b, !.v18 = c] \in DevRecord
  BY Zenon DEF DevRecord
<1>3. [dev EXCEPT !.failed = b] \in DevRecord /\ [dev EXCEPT !.rca = b] \in DevRecord
      /\ [dev EXCEPT !.size = n] \in DevRecord
  BY Zenon DEF DevRecord
<1> QED BY <1>1, <1>2, <1>3

\* The value that is no read is none.
LEMMA NoneIsNoRead == None \notin ReadRecord
<1>1. \A r \in ReadRecord : r.block # -1
  BY DEF ReadRecord
<1> QED BY <1>1 DEF None

\* Going on with the initialisation, or with the read.
LEMMA GoesOn ==
  ASSUME DriverTyped, NEW l, Goto(l),
         \/ pc \in Initialising /\ l \in Initialising
         \/ pc \in Reading /\ l \in Reading \cup {"undefined"}
  PROVE  DriverTyped'
BY DEF DriverTyped, Goto, Initialising, Preparing, Reading, Trying

\* A failing initialisation, and a failing emmc_read, leave no read behind.
LEMMA FailsCleanly ==
  ASSUME DriverTyped,
         \/ pc \in Initialising /\ InitFails
         \/ pc \in Reading /\ \E rca \in BOOLEAN : Refuse(rca)
  PROVE  DriverTyped'
<1>1. CASE pc \in Initialising /\ InitFails
  <2>1. Released(pc) \in {"none", "live", "freed"} /\ dev.size \in 0 .. Units
    BY DEF Released, DriverTyped, DevRecord
  <2>2. Units \in 0 .. Units
    BY CountAssumption
  <2>3. [dev EXCEPT !.alloc = Released(pc), !.size = IF pc = "scr" THEN Units ELSE @]
          = [dev EXCEPT !.alloc = Released(pc),
                        !.size = IF pc = "scr" THEN Units ELSE dev.size]
    BY DEF DriverTyped, DevRecord
  <2>4. dev' \in DevRecord
    BY <1>1, <2>1, <2>2, <2>3, DevChanged DEF InitFails, DriverTyped
  <2> QED BY <1>1, <2>4 DEF InitFails, DriverTyped, Initialising, Preparing, Reading, Trying
<1>2. CASE pc \in Reading /\ \E rca \in BOOLEAN : Refuse(rca)
  <2>1. dev' \in DevRecord
    <3>1. PICK rca \in BOOLEAN : dev' = [dev EXCEPT !.rca = rca]
      BY <1>2 DEF Refuse
    <3> QED BY <3>1, Zenon DEF DriverTyped, DevRecord
  <2> QED BY <1>2, <2>1 DEF Refuse, DriverTyped, Initialising, Preparing, Reading, Trying
<1> QED BY <1>1, <1>2

\* A failed attempt.
LEMMA RetryTyped ==
  ASSUME DriverTyped, pc \in Trying, Retry
  PROVE  DriverTyped'
<1> USE RetriesAssumption
<1>1. read \in ReadRecord
  BY DEF DriverTyped, Reading
<1>2. CASE read.tries + 1 < MaxRetries
  <2>1. read.tries + 1 \in 0 .. MaxRetries
    BY <1>1, <1>2 DEF ReadRecord
  <2>2. read' = [read EXCEPT !.tries = read.tries + 1]
    BY <1>1, <1>2 DEF Retry, ReadRecord
  <2>3. read' \in ReadRecord
    BY <1>1, <2>1, <2>2, Zenon DEF ReadRecord
  <2>4. read' # None
    BY <2>3, NoneIsNoRead
  <2> QED BY <1>2, <2>3, <2>4 DEF Retry, DriverTyped, Initialising, Preparing, Reading, Trying
<1>3. CASE ~(read.tries + 1 < MaxRetries)
  BY <1>3, FailsCleanly DEF Retry, Reading
<1> QED BY <1>2, <1>3

\* The initialisation keeps the types of the driver.
LEMMA InitDriverStep ==
  ASSUME DriverTyped, EmmcInit \/ CardInit
  PROVE  DriverTyped'
<1> USE DEF Initialising, Preparing
<1>1. CASE EmmcInit
  BY <1>1 DEF EmmcInit, DriverTyped, Reading, Trying
<1>2. CASE pc \in Initialising /\ InitFails
  BY <1>2, FailsCleanly
<1>3. CASE pc \in Initialising /\ \E l \in Initialising : Goto(l)
  BY <1>3, GoesOn
<1>4. ASSUME pc \in Initialising, pc' \in Initialising, dev' \in DevRecord,
             v2' \in BOOLEAN, nested' \in BOOLEAN,
             UNCHANGED <<device, caller, read, buf, result>>
      PROVE  DriverTyped'
  BY <1>4 DEF DriverTyped, Reading, Trying
<1>5. CASE GoIdle \/ OpCond \/ AllSendCid \/ SelectCard \/ SetBlocklen \/ PowerCycle
  BY <1>2, <1>3, <1>5 DEF GoIdle, OpCond, AllSendCid, SelectCard, SetBlocklen, PowerCycle
<1>6. CASE ResetController \/ StartClock \/ PrepareDevice \/ SwitchClock
  <2>1. Cleared \in DevRecord
    <3>1. 0 \in 0 .. Units
      BY CountAssumption
    <3>2. Dead \in DevRecord
      BY <3>1 DEF Dead, DevRecord
    <3> QED BY <3>2, Zenon DEF Cleared, DevRecord
  <2>2. CASE PrepareDevice
    BY <1>4, <2>1, <2>2 DEF PrepareDevice, DriverTyped
  <2> QED BY <1>2, <1>3, <1>6, <2>2 DEF ResetController, StartClock, SwitchClock
<1>7. CASE IfCond
  BY <1>2, <1>4, <1>7 DEF IfCond, DriverTyped
<1>8. CASE SendOpCond
  <2>1. CASE Goto("send_op_cond")
    BY <1>3, <1>8, <2>1 DEF SendOpCond
  <2>2. CASE /\ dev' = [dev EXCEPT !.sdhc = HighCapacity,
                                   !.v18 = (Asks18v /\ card.kind = "uhs")]
             /\ pc' = "switch_clock"
             /\ UNCHANGED <<device, nested, v2, caller, read, buf, result>>
    <3>1. HighCapacity \in BOOLEAN /\ (Asks18v /\ card.kind = "uhs") \in BOOLEAN
      BY DEF HighCapacity
    <3>2. dev' \in DevRecord
      BY <2>2, <3>1, Zenon DEF DriverTyped, DevRecord
    <3> QED BY <1>4, <1>8, <2>2, <3>2 DEF SendOpCond, DriverTyped
  <2> QED BY <1>2, <1>8, <2>1, <2>2 DEF SendOpCond
<1>9. CASE VoltageSwitch
  <2>1. CASE /\ dev' = [dev EXCEPT !.failed = TRUE] /\ nested' = TRUE /\ pc' = "power"
             /\ UNCHANGED <<device, v2, caller, read, buf, result>>
    <3>1. dev' \in DevRecord
      BY <2>1, Zenon DEF DriverTyped, DevRecord
    <3> QED BY <1>4, <1>9, <2>1, <3>1 DEF VoltageSwitch, DriverTyped
  <2> QED BY <1>3, <1>9, <2>1 DEF VoltageSwitch
<1>10. CASE SendRelativeAddr
  <2>1. CASE /\ dev' = [dev EXCEPT !.rca = TRUE] /\ pc' = "select"
             /\ UNCHANGED <<device, nested, v2, caller, read, buf, result>>
    <3>1. dev' \in DevRecord
      BY <2>1, Zenon DEF DriverTyped, DevRecord
    <3> QED BY <1>4, <1>10, <2>1, <3>1 DEF SendRelativeAddr, DriverTyped
  <2> QED BY <1>2, <1>10, <2>1 DEF SendRelativeAddr
<1>11. CASE StartScr \/ SendScr
  <2>1. 1 \in 0 .. Units /\ Units \in 0 .. Units
    BY CountAssumption
  <2>2. CASE /\ \E n \in 0 .. Units : dev' = [dev EXCEPT !.size = n]
             /\ pc' \in Initialising
             /\ UNCHANGED <<device, nested, v2, caller, read, buf, result>>
    <3>1. dev' \in DevRecord
      BY <2>2, Zenon DEF DriverTyped, DevRecord
    <3> QED BY <1>4, <1>11, <2>2, <3>1 DEF StartScr, SendScr, DriverTyped
  <2> QED BY <1>2, <1>11, <2>1, <2>2 DEF StartScr, SendScr
<1>12. CASE InitReturns
  <2>1. device' \in BOOLEAN
    BY <1>12 DEF InitReturns, NamesDevice, DriverTyped
  <2> QED BY <1>12, <2>1 DEF InitReturns, DriverTyped, Reading, Trying
<1> QED BY <1>1, <1>5, <1>6, <1>7, <1>8, <1>9, <1>10, <1>11, <1>12 DEF CardInit

\* The words that are read from the FIFO for a block.
Firsts == SubSeq(host.fifo, 1, dev.size)

LEMMA FirstsTyped ==
  ASSUME host \in HostRecord, dev \in DevRecord, Len(host.fifo) >= dev.size
  PROVE  Firsts \in Seq(Piece) /\ Len(Firsts) = dev.size
<1> PICK s, n : s = host.fifo /\ n = dev.size
  OBVIOUS
<1>1. s \in Seq(Piece) /\ n \in Nat /\ Len(s) >= n
  BY CountAssumption DEF HostRecord, DevRecord
<1>2. SubSeq(s, 1, n) \in Seq(Piece) /\ Len(SubSeq(s, 1, n)) = n
  <2> HIDE DEF Piece
  <2>1. \A i \in 1 .. n : s[i] \in Piece
    BY <1>1
  <2> QED BY <1>1, <2>1, SubSeqProperties
<1> QED BY <1>2 DEF Firsts

\* sd_read and emmc_read keep the types of the driver.
LEMMA ReadDriverStep ==
  ASSUME DriverTyped, CardTyped, Sending, SdRead \/ EmmcRead \/ Abandon
  PROVE  DriverTyped'
<1> USE DEF Reading, Trying
<1>1. CASE SdRead
  <2> USE CountAssumption, BlocksAssumption, RetriesAssumption
  <2>1. PICK first \in Block, count \in 1 .. MaxCount :
          read' = [first |-> first, count |-> count, block |-> first, tries |-> 0,
                   left |-> count * Units, want |-> Lesser(count * Units, dev.size)]
    BY <1>1 DEF SdRead
  <2>2. dev.size \in 0 .. Units
    BY DEF DriverTyped, DevRecord
  <2>3. count * Units \in Nat
    OBVIOUS
  <2>4. Lesser(count * Units, dev.size) \in 0 .. Units
    BY <2>2, <2>3 DEF Lesser
  <2>5. read' \in ReadRecord
    <3>1. first \in Nat /\ 0 \in 0 .. MaxRetries
      OBVIOUS
    <3> QED BY <2>1, <2>3, <2>4, <3>1, Zenon DEF ReadRecord
  <2>6. read' # None
    BY <2>5, NoneIsNoRead
  <2> QED BY <1>1, <2>5, <2>6 DEF SdRead, DriverTyped, Initialising, Preparing
<1>2. CASE pc \in Reading /\ \E l \in Reading \cup {"undefined"} : Goto(l)
  BY <1>2, GoesOn
<1>3. CASE pc \in Reading /\ \E rca \in BOOLEAN : Refuse(rca)
  BY <1>3, FailsCleanly
<1>4. CASE DataMode
  BY <1>4 DEF DataMode, DriverTyped, Initialising, Preparing
<1>5. CASE SendStatus
  <2>1. CASE /\ pc = "status" /\ pc' = StatusLeadsTo(card.state)
             /\ caller' = IF pc' = "power" THEN "wrong_state" ELSE caller
             /\ UNCHANGED <<device, dev, nested, v2, read, buf, result>>
    <3>1. pc' \in {"reselect", "stop", "command", "power"}
      BY <2>1 DEF StatusLeadsTo
    <3> QED BY <2>1, <3>1 DEF DriverTyped, Initialising, Preparing
  <2> QED BY <1>3, <1>5, <2>1 DEF SendStatus
<1>6. CASE Reselect \/ StopTransmission \/ ResetCircuit \/ Recheck \/ Attempt
  BY <1>2, <1>3, <1>6 DEF Reselect, StopTransmission, ResetCircuit, Recheck, Attempt
<1>7. CASE DataCommand
  <2>1. dev.rca \in BOOLEAN
    BY DEF DriverTyped, DevRecord
  <2> QED BY <1>2, <1>3, <1>7, <2>1 DEF DataCommand
<1>8. CASE Issue \/ Transfer
  BY <1>2, <1>8, RetryTyped DEF Issue, Transfer
<1>9. CASE Copy
  <2>1. CASE /\ pc = "copy" /\ buf' = buf \o SubSeq(host.fifo, 1, dev.size)
             /\ pc' = "next_block"
             /\ UNCHANGED <<device, dev, nested, v2, caller, read, result>>
    <3>1. buf \in Seq(Piece) /\ Firsts \in Seq(Piece)
      BY <2>1, FirstsTyped DEF DriverTyped, CardTyped, Sending
    <3>2. buf \o Firsts \in Seq(Piece)
      BY <3>1
    <3> QED BY <2>1, <3>2 DEF Firsts, DriverTyped, Initialising, Preparing
  <2> QED BY <1>9, <2>1, RetryTyped DEF Copy
<1>10. CASE NextBlock
  <2> DEFINE left == IF read.left < dev.size THEN 0 ELSE read.left - dev.size
  <2>1. read \in ReadRecord
    BY <1>10 DEF NextBlock, DriverTyped
  <2>2. left \in Nat
    BY <2>1 DEF ReadRecord, DriverTyped, DevRecord
  <2> HIDE DEF left
  <2>3. CASE left > 0
    <3>1. read' = [read EXCEPT !.left = left, !.block = read.block + 1, !.tries = 0,
                               !.want = Lesser(left, dev.size)]
      <4>1. read' = [read EXCEPT !.left = left, !.block = @ + 1, !.tries = 0,
                                 !.want = Lesser(left, dev.size)]
        BY <1>10, <2>3, Zenon DEF NextBlock, left
      <4> QED BY <4>1, Zenon
    <3>2. Lesser(left, dev.size) \in 0 .. Units
      <4>1. dev.size \in 0 .. Units
        BY DEF DriverTyped, DevRecord
      <4> QED BY <2>2, <4>1, CountAssumption DEF Lesser
    <3>3. 0 \in 0 .. MaxRetries /\ read.block + 1 \in Nat
      BY <2>1, RetriesAssumption DEF ReadRecord
    <3>4. read' \in ReadRecord
      BY <2>1, <2>2, <3>1, <3>2, <3>3, Zenon DEF ReadRecord
    <3>5. read' # None
      BY <3>4, NoneIsNoRead
    <3> QED BY <1>10, <2>3, <3>4, <3>5 DEF NextBlock, left, DriverTyped, Initialising, Preparing
  <2>4. CASE ~(left > 0)
    BY <1>10, <2>4 DEF NextBlock, left, DriverTyped, Initialising, Preparing
  <2> QED BY <2>3, <2>4
<1>11. CASE Abandon
  BY <1>11 DEF Abandon, DriverTyped, Initialising, Preparing
<1>12. CASE BusyWait
  BY <1>12 DEF BusyWait, vars, driverVars, DriverTyped
<1> QED BY <1>1, <1>4, <1>5, <1>6, <1>7, <1>8, <1>9, <1>10, <1>11, <1>12 DEF EmmcRead

\* Attempts that go on, or start again.
LEMMA AttemptSends ==
  ASSUME CardTyped, DriverTyped, Sending, DataCommand \/ Attempt \/ Issue \/ Transfer \/ Copy
  PROVE  Sending'
<1> USE DEF Trying
<1>1. host \in HostRecord /\ card \in CardRecord
  BY DEF CardTyped
<1>2. ASSUME pc \in {"issue", "transfer", "copy"}, Retry,
             card' = card \/ (card'.sends = read.block /\ card'.size = dev.size)
      PROVE  Sending'
  <2>1. read \in ReadRecord
    BY <1>2 DEF DriverTyped, Reading
  <2>2. CASE read.tries + 1 < MaxRetries
    <3>1. pc' = "attempt" /\ read' = [read EXCEPT !.tries = @ + 1] /\ dev' = dev
      BY <1>2, <2>2 DEF Retry
    <3>2. read'.block = read.block
      BY <2>1, <3>1 DEF ReadRecord
    <3> QED BY <1>2, <3>1, <3>2 DEF Sending
  <2>3. CASE ~(read.tries + 1 < MaxRetries)
    <3>1. pc' = "idle"
      BY <1>2, <2>3 DEF Retry, Refuse
    <3> QED BY <3>1 DEF Sending
  <2> QED BY <2>2, <2>3
<1>3. CASE DataCommand
  <2>1. CASE Goto("attempt")
    BY <1>3, <2>1 DEF DataCommand, Sending, Goto
  <2>2. pc' \in {"attempt", "undefined", "idle"}
    BY <1>3 DEF DataCommand, Goto, Refuse
  <2>3. CASE pc' # "attempt"
    BY <2>2, <2>3 DEF Sending
  <2> QED BY <1>3, <2>1, <2>3 DEF DataCommand, Goto, Refuse
<1>4. CASE Attempt
  <2>1. ~host'.ready
    BY <1>4, InterruptsHandled, IdleTyped DEF Attempt, CardTyped, HostTyped
  <2> QED BY <1>4, <2>1 DEF Attempt, Sending, Goto
<1>5. CASE Issue
  <2>1. CASE UNCHANGED <<card, host>> /\ Retry
    BY <1>2, <1>5, <2>1 DEF Issue
  <2>2. CASE card' = [card EXCEPT !.state = "data", !.sends = read.block, !.size = dev.size]
    <3>1. card'.sends = read.block /\ card'.size = dev.size
      BY <1>1, <2>2 DEF CardRecord
    <3>2. CASE Retry
      BY <1>2, <1>5, <3>1, <3>2 DEF Issue
    <3>3. CASE host' = [host EXCEPT !.armed = TRUE] /\ Goto("transfer")
      <4>1. host'.ready = host.ready /\ host'.fifo = host.fifo
        BY <1>1, <3>3 DEF HostRecord
      <4> QED BY <1>5, <3>1, <3>3, <4>1 DEF Issue, Sending, Goto
    <3> QED BY <1>5, <2>1, <2>2, <3>2, <3>3 DEF Issue
  <2> QED BY <1>5, <2>1, <2>2 DEF Issue
<1>6. CASE Transfer
  <2>1. CASE Retry
    BY <1>2, <1>6, <2>1 DEF Transfer
  <2>2. CASE /\ host.ready /\ Goto("copy")
             /\ host' = [host EXCEPT !.ready = FALSE,
                                     !.dirty = @ \/ Len(host.fifo) > dev.size]
    <3>1. host'.fifo = host.fifo
      BY <1>1, <2>2 DEF HostRecord
    <3> QED BY <1>6, <2>2, <3>1 DEF Transfer, Sending, Goto
  <2> QED BY <1>6, <2>1, <2>2 DEF Transfer
<1>7. CASE Copy
  <2>1. CASE pc' = "next_block"
    BY <2>1 DEF Sending
  <2> QED BY <1>2, <1>7, <2>1 DEF Copy
<1> QED BY <1>3, <1>4, <1>5, <1>6, <1>7

\* What the card sends.
LEMMA CardSendsBlock ==
  ASSUME CardTyped, DriverTyped, Sending, CardSends
  PROVE  Sending'
<1> USE DEF Trying
<1> DEFINE data == [i \in 1 .. card.size |-> <<card.sends, i - 1>>]
<1>1. card'.state = "tran" /\ UNCHANGED <<pc, dev>>
  BY DEF CardSends, driverVars, CardTyped, CardRecord
<1>2. CASE ~host.armed
  <2>1. host' = host
    BY <1>2 DEF CardSends
  <2> QED BY <1>1, <2>1 DEF Sending
<1>3. CASE host.armed /\ pc \in {"issue", "transfer", "copy"}
  <2>1. card.size = dev.size /\ dev.size \in Nat /\ card.sends \in Nat
    BY <1>3, BlocksAssumption, CountAssumption
    DEF CardSends, Sending, CardTyped, DriverTyped, DevRecord
  <2>2. data \in Seq(Piece) /\ Len(data) = dev.size
    BY <2>1 DEF Piece
  <2>3. host'.fifo = host.fifo \o data
    <3>1. host' = [host EXCEPT !.armed = FALSE, !.ready = TRUE, !.fifo = @ \o data]
      BY <1>3 DEF CardSends
    <3> HIDE DEF data
    <3> QED BY <3>1 DEF CardTyped, HostRecord
  <2> HIDE DEF data
  <2>4. Len(host'.fifo) = Len(host.fifo) + dev.size /\ Len(host.fifo) \in Nat
    BY <2>2, <2>3 DEF CardTyped, HostRecord
  <2> QED BY <1>1, <2>1, <2>4 DEF Sending
<1>4. CASE pc \notin {"issue", "transfer", "copy"}
  BY <1>1, <1>4 DEF Sending
<1> QED BY <1>2, <1>3, <1>4

\* A read sends for nothing else.
LEMMA SendingStep ==
  ASSUME CardTyped, DriverTyped, Sending, [Next]_vars
  PROVE  Sending'
<1> USE DEF Trying
<1>1. CASE pc' \notin {"command"} \cup Trying
  BY <1>1 DEF Sending
<1>2. CASE EmmcInit \/ CardInit
  <2>1. CASE InitFails
    BY <1>1, <2>1 DEF InitFails
  <2>2. CASE InitReturns
    BY <1>1, <2>2 DEF InitReturns, DriverTyped
  <2>3. CASE EmmcInit \/ PowerCycle \/ ResetController \/ StartClock \/ PrepareDevice
    BY <1>1, <2>1, <2>3 DEF EmmcInit, PowerCycle, ResetController, StartClock,
                            PrepareDevice, Goto
  <2>4. CASE GoIdle \/ IfCond \/ OpCond \/ SendOpCond \/ SwitchClock \/ VoltageSwitch
    BY <1>1, <2>1, <2>4 DEF GoIdle, IfCond, OpCond, SendOpCond, SwitchClock,
                            VoltageSwitch, Goto
  <2>5. CASE \/ AllSendCid \/ SendRelativeAddr \/ SelectCard \/ SetBlocklen
             \/ StartScr \/ SendScr
    BY <1>1, <2>1, <2>5 DEF AllSendCid, SendRelativeAddr, SelectCard, SetBlocklen,
                            StartScr, SendScr, Goto
  <2> QED BY <1>2, <2>2, <2>3, <2>4, <2>5 DEF CardInit
<1>3. CASE SdRead \/ DataMode \/ Reselect \/ StopTransmission \/ ResetCircuit
           \/ NextBlock \/ Abandon
  BY <1>1, <1>3 DEF SdRead, DataMode, Reselect, StopTransmission, ResetCircuit,
                    NextBlock, Abandon, Goto, Refuse
<1>4. CASE SendStatus \/ Recheck
  <2>1. CASE Fails("SEND_STATUS") /\ Refuse(FALSE)
    BY <1>1, <2>1 DEF Refuse
  <2>2. CASE Succeeds("SEND_STATUS")
    <3>1. card'.state = card.state
      BY <2>2 DEF Succeeds, Executes, Leads, CardTyped, CardRecord
    <3>2. pc' \notin Trying /\ (pc' = "command" => card.state = "tran")
      BY <1>4 DEF SendStatus, Recheck, StatusLeadsTo, Goto, Refuse
    <3> QED BY <3>1, <3>2 DEF Sending
  <2> QED BY <1>4, <2>1, <2>2 DEF SendStatus, Recheck
<1>5. CASE CardPowersUp \/ CardUpset
  <2>1. UNCHANGED <<host, dev, read, pc>>
    BY <1>5 DEF CardPowersUp, CardUpset, driverVars
  <2>2. CASE CardPowersUp
    <3>1. card'.state = card.state /\ card'.sends = card.sends /\ card'.size = card.size
      BY <2>2 DEF CardPowersUp, CardTyped, CardRecord
    <3> QED BY <2>1, <3>1 DEF Sending
  <2>3. CASE CardUpset
    <3>1. card'.state # "data"
      BY <2>3, UpsetAssumption DEF CardUpset, CardTyped, CardRecord
    <3> QED BY <2>1, <3>1 DEF Sending
  <2> QED BY <1>5, <2>2, <2>3
<1>6. CASE BusyWait \/ Undefined \/ UNCHANGED vars
  BY <1>6 DEF BusyWait, Undefined, vars, driverVars, Sending
<1>7. CASE EmmcRead
  BY <1>3, <1>4, <1>6, <1>7, AttemptSends DEF EmmcRead
<1> QED BY <1>2, <1>3, <1>5, <1>6, <1>7, CardSendsBlock DEF Next

Typed == CardTyped /\ DriverTyped /\ Sending

\* The types of the driver, the card and the controller, without the clock.
LEMMA TypedStep ==
  ASSUME Typed, [Next]_vars
  PROVE  Typed'
<1>1. CardTyped /\ DriverTyped /\ Sending
  BY DEF Typed
<1>2. CardTyped' /\ Sending'
  BY <1>1, CardTypedStep, SendingStep
<1>3. DriverTyped'
  <2>1. CASE EmmcInit \/ CardInit
    BY <1>1, <2>1, InitDriverStep
  <2>2. CASE SdRead \/ EmmcRead \/ Abandon
    BY <1>1, <2>2, ReadDriverStep
  <2>3. CASE CardSends \/ CardPowersUp \/ CardUpset \/ Undefined \/ UNCHANGED vars
    <3>1. UNCHANGED driverVars
      BY <2>3 DEF CardSends, CardPowersUp, CardUpset, Undefined, vars
    <3> QED BY <1>1, <3>1 DEF driverVars, DriverTyped
  <2> QED BY <2>1, <2>2, <2>3 DEF Next
<1> QED BY <1>2, <1>3 DEF Typed

\* At boot.
LEMMA InitTyped == Init => Typed
<1> SUFFICES ASSUME Init PROVE Typed
  OBVIOUS
<1>1. 0 \in 0 .. Units /\ 0 \in 0 .. MaxUpsets
  BY CountAssumption, RetriesAssumption
<1>2. PICK kind \in Cards :
        card = [kind |-> kind, state |-> "off", busy |-> TRUE, sends |-> -1,
                size |-> 0, upsets |-> 0]
  BY DEF Init
<1>3. card \in CardRecord /\ card.state = "off"
  BY <1>1, <1>2 DEF CardRecord, CardState
<1>4. HostTyped
  BY IdleTyped, CountAssumption DEF Init, HostTyped
<1>5. dev \in DevRecord
  BY <1>1 DEF Init, Dead, DevRecord
<1>6. CardTyped
  BY <1>3, <1>4 DEF CardTyped, HostTyped
<1>7. DriverTyped
  <2>1. /\ device = FALSE /\ nested = FALSE /\ v2 = FALSE /\ caller = "emmc_init"
        /\ read = None /\ buf = <<>> /\ result = "none" /\ pc = "boot"
    BY DEF Init
  <2>2. pc \notin Reading /\ pc \notin Initialising
    BY <2>1 DEF Initialising, Preparing, Reading, Trying
  <2>3. buf \in Seq(Piece)
    BY <2>1
  <2> QED BY <1>5, <2>1, <2>2, <2>3 DEF DriverTyped
<1>8. Sending
  BY DEF Init, Sending, Trying
<1> QED BY <1>6, <1>7, <1>8 DEF Typed

-----------------------------------------------------------------------------
(* Data that come late.                                                     *)

\* The controller was reset before the card is prepared.
PreparedIdle == pc \in Preparing => host = IdleHost

\* A card that is ready while the host still waits for data, as after a
\* STOP_TRANSMISSION whose answer was lost, is initialised before it is used,
\* unless the circuit is reset next.
CancelLost ==
  host.armed /\ card.state = "tran" =>
    \/ pc = "reset_dat"
    \/ ~dev.rca /\ pc \in {"idle", "mode", "power", "controller", "undefined"}

\* The first command for a block finds no transfer, and no data, of another.
FirstIdle ==
  /\ pc = "command" => ~host.armed
  /\ pc \in {"attempt", "issue"} /\ read.tries = 0 => ~host.armed
  /\ pc = "issue" /\ read.tries = 0 => ~host.ready

\* What is in the FIFO shows in a flag, until it is copied.
FifoFlagged == ~host.ready /\ pc # "copy" => host.fifo = <<>>

BlockHead(block, size) == [i \in 1 .. size |-> <<block, i - 1>>]

\* What came from an earlier attempt is the block that is wanted.
FifoRequested ==
  /\ pc \in {"issue", "transfer"} /\ host.ready => Firsts = BlockHead(read.block, dev.size)
  /\ pc = "copy" => /\ Firsts = BlockHead(read.block, dev.size)
                    /\ ~host.ready => Len(host.fifo) = dev.size

Data == CancelLost /\ FirstIdle /\ FifoFlagged /\ FifoRequested /\ CopiesRequestedBlock

\* A circuit is as Data says unless it was left unclean.
DInv == Typed /\ PreparedIdle /\ (host.dirty \/ Data)

\* A circuit that was reset.
LEMMA IdleData ==
  ASSUME host' = IdleHost, pc' \notin {"copy", "next_block"}
  PROVE  Data'
<1>1. CancelLost' /\ FirstIdle' /\ FifoFlagged' /\ FifoRequested'
  BY IdleTyped DEF CancelLost, FirstIdle, FifoFlagged, FifoRequested
<1>2. CopiesRequestedBlock'
  BY DEF CopiesRequestedBlock
<1> QED BY <1>1, <1>2 DEF Data

\* Steps that lead neither to an attempt nor to the end of one.
LEMMA QuietData ==
  ASSUME pc' \notin Trying \cup {"next_block"},
         pc' = "command" => ~host'.armed,
         CancelLost',
         ~host'.ready => host'.fifo = <<>>
  PROVE  Data'
<1>1. FirstIdle' /\ FifoFlagged' /\ FifoRequested'
  BY DEF FirstIdle, FifoFlagged, FifoRequested, Trying
<1>2. CopiesRequestedBlock'
  BY DEF CopiesRequestedBlock
<1> QED BY <1>1, <1>2 DEF Data

\* Such a step that leaves the circuit alone.
LEMMA QuietStep ==
  ASSUME DInv, host' = host, pc # "copy",
         pc' \notin Trying \cup {"next_block", "command"},
         Data => CancelLost'
  PROVE  (host.dirty \/ Data)'
<1>1. CASE host.dirty
  BY <1>1
<1>2. CASE Data
  <2>1. ~host'.ready => host'.fifo = <<>>
    BY <1>2 DEF Data, FifoFlagged
  <2> QED BY <1>2, <2>1, QuietData
<1> QED BY <1>1, <1>2 DEF DInv

\* emmc_handle_interrupts in a step that leads to no attempt.
LEMMA QuietCommand ==
  ASSUME DInv, HandleInterrupts, pc # "copy",
         pc' \notin Trying \cup {"next_block"},
         host' = host /\ Data => CancelLost' /\ (pc' = "command" => ~host.armed)
  PROVE  (host.dirty \/ Data)'
<1>1. host' = IdleHost \/ host' = host
  BY InterruptsHandled DEF DInv, Typed, CardTyped, HostTyped
<1>2. CASE host' = IdleHost
  BY <1>2, IdleData DEF Trying
<1>3. CASE host' = host /\ host.dirty
  BY <1>3
<1>4. CASE host' = host /\ Data
  <2>1. ~host'.ready => host'.fifo = <<>>
    BY <1>4 DEF Data, FifoFlagged
  <2> QED BY <1>4, <2>1, QuietData
<1> QED BY <1>1, <1>2, <1>3, <1>4 DEF DInv

\* A step of the preparation finds the circuit idle and leaves it so.
LEMMA PreparingIdle ==
  ASSUME DInv, pc \in Preparing, host' = host \/ HandleInterrupts
  PROVE  host' = IdleHost
BY DEF DInv, PreparedIdle, HandleInterrupts, ResetDat, IdleHost

\* The initialisation.
LEMMA InitData ==
  ASSUME DInv, EmmcInit \/ CardInit
  PROVE  PreparedIdle' /\ (host.dirty \/ Data)'
<1> USE DEF Initialising, Preparing, Trying
<1>1. card \in CardRecord /\ dev \in DevRecord /\ DriverTyped
  BY DEF DInv, Typed, CardTyped, DriverTyped
<1>2. ASSUME host' = IdleHost, pc' \notin {"copy", "next_block"}
      PROVE  PreparedIdle' /\ (host.dirty \/ Data)'
  BY <1>2, IdleData DEF PreparedIdle
<1>3. ASSUME host' = host, pc \notin Preparing \cup {"copy"},
             pc' \in {"power", "idle", "controller"}, Data => CancelLost'
      PROVE  PreparedIdle' /\ (host.dirty \/ Data)'
  BY <1>3, QuietStep DEF PreparedIdle
<1>4. CASE EmmcInit
  <2>1. Data => CancelLost'
    BY <1>4 DEF EmmcInit, Data, CancelLost
  <2> QED BY <1>3, <1>4, <2>1 DEF EmmcInit
<1>5. ASSUME InitFails
      PROVE  dev'.rca = dev.rca /\ pc' = "idle"
  BY <1>1, <1>5 DEF InitFails, DevRecord
<1>6. CASE PowerCycle
  <2>1. CASE /\ card' = [card EXCEPT !.state = "idle", !.busy = TRUE, !.sends = -1, !.size = 0]
             /\ Goto("controller")
    <3>1. card'.state = "idle" /\ pc' = "controller"
      BY <1>1, <2>1 DEF Goto, CardRecord
    <3> QED BY <1>3, <1>6, <3>1 DEF PowerCycle, CancelLost
  <2>2. CASE card' \in {card, PoweredOff} /\ InitFails
    <3>1. dev'.rca = dev.rca /\ pc' = "idle" /\ host' = host
      BY <1>5, <1>6, <2>2 DEF PowerCycle
    <3>2. card'.state \in {card.state, "off"}
      BY <1>1, <2>2 DEF PoweredOff, CardRecord
    <3>3. Data => CancelLost'
      BY <1>6, <3>1, <3>2 DEF PowerCycle, CancelLost, Data
    <3> QED BY <1>3, <1>6, <3>1, <3>3 DEF PowerCycle
  <2> QED BY <1>6, <2>1, <2>2 DEF PowerCycle
<1>7. CASE ResetController
  <2>1. CASE host' = IdleHost /\ pc' \in {"clock", "idle"}
    BY <1>2, <2>1
  <2>2. CASE host' = host /\ InitFails
    <3>1. dev'.rca = dev.rca /\ pc' = "idle" /\ card' = card
      BY <1>5, <1>7, <2>2 DEF ResetController
    <3>2. Data => CancelLost'
      BY <1>7, <2>2, <3>1 DEF ResetController, CancelLost, Data
    <3> QED BY <1>3, <1>7, <2>2, <3>1, <3>2 DEF ResetController
  <2> QED BY <1>5, <1>7, <2>1, <2>2 DEF ResetController, Goto
<1>8. ASSUME NEW cmd, Succeeds(cmd) \/ Fails(cmd)
      PROVE  HandleInterrupts
  BY <1>8 DEF Succeeds, Fails
<1>9. ASSUME pc \in Preparing, host' = host \/ HandleInterrupts,
             pc' \notin {"copy", "next_block"}
      PROVE  PreparedIdle' /\ (host.dirty \/ Data)'
  BY <1>2, <1>9, PreparingIdle
<1>10. CASE StartClock \/ PrepareDevice \/ SwitchClock \/ StartScr
  BY <1>5, <1>9, <1>10 DEF StartClock, PrepareDevice, SwitchClock, StartScr, Goto
<1>11. CASE GoIdle \/ OpCond \/ AllSendCid \/ SelectCard \/ SetBlocklen \/ IfCond
             \/ SendRelativeAddr \/ SendScr
  <2>1. pc \in Preparing /\ HandleInterrupts
    BY <1>8, <1>11 DEF GoIdle, OpCond, AllSendCid, SelectCard, SetBlocklen, IfCond,
                       SendRelativeAddr, SendScr
  <2>2. pc' \notin {"copy", "next_block"}
    BY <1>11 DEF GoIdle, OpCond, AllSendCid, SelectCard, SetBlocklen, IfCond,
                 SendRelativeAddr, SendScr, Goto, InitFails
  <2> QED BY <1>9, <2>1, <2>2
<1>12. CASE SendOpCond
  <2>1. pc \in Preparing /\ HandleInterrupts
    BY <1>8, <1>12 DEF SendOpCond
  <2>2. pc' \in {"send_op_cond", "switch_clock", "idle"}
    BY <1>12 DEF SendOpCond, Goto, InitFails
  <2> QED BY <1>9, <2>1, <2>2
<1>13. CASE VoltageSwitch
  <2>1. pc \in Preparing /\ HandleInterrupts
    BY <1>8, <1>13 DEF VoltageSwitch
  <2>2. pc' \in {"all_send_cid", "power"}
    BY <1>13 DEF VoltageSwitch, Goto
  <2> QED BY <1>9, <2>1, <2>2
<1>14. CASE InitReturns
  <2>1. pc \in Preparing /\ HandleInterrupts
    BY <1>8, <1>14 DEF InitReturns
  <2>2. pc' \in {"idle", "status", "recheck"}
    BY <1>1, <1>14 DEF InitReturns, DriverTyped
  <2> QED BY <1>9, <2>1, <2>2
<1> QED BY <1>4, <1>6, <1>7, <1>10, <1>11, <1>12, <1>13, <1>14 DEF CardInit

\* Commands that ask for the state of the card, or change it before the read.
LEMMA ModeData ==
  ASSUME DInv, \/ DataMode \/ SendStatus \/ Reselect \/ StopTransmission
               \/ ResetCircuit \/ Recheck
  PROVE  (host.dirty \/ Data)'
<1> USE DEF Trying
<1>1. CardTyped /\ DriverTyped
  BY DEF DInv, Typed
<1>2. CASE DataMode
  <2>1. Data => CancelLost'
    BY <1>2 DEF DataMode, CancelLost, Data
  <2> QED BY <1>2, <2>1, QuietStep DEF DataMode
<1>3. ASSUME NEW cmd, cmd # "READ_SINGLE_BLOCK", Succeeds(cmd) \/ Fails(cmd)
      PROVE  /\ HandleInterrupts
             /\ card'.state = "tran" =>
                  card.state = "tran" \/ cmd \in {"SELECT_CARD", "STOP_TRANSMISSION"}
  BY <1>1, <1>3, CommandSent
<1>4. CASE SendStatus \/ Recheck
  <2>1. HandleInterrupts /\ (card'.state = "tran" => card.state = "tran")
    <3>1. Succeeds("SEND_STATUS") \/ Fails("SEND_STATUS")
      BY <1>4 DEF SendStatus, Recheck
    <3> QED BY <1>3, <3>1
  <2>2. pc' \notin Trying \cup {"next_block"} /\ pc # "copy"
    BY <1>4 DEF SendStatus, Recheck, StatusLeadsTo, Refuse, Goto
  <2>3. pc' = "command" => card.state = "tran"
    BY <1>4 DEF SendStatus, Recheck, StatusLeadsTo, Refuse, Goto
  <2>4. Data => ~(host.armed /\ card.state = "tran")
    BY <1>4 DEF SendStatus, Recheck, Data, CancelLost
  <2> QED BY <2>1, <2>2, <2>3, <2>4, QuietCommand DEF CancelLost
<1>5. CASE Reselect
  <2>1. HandleInterrupts /\ ~host.armed /\ pc # "copy"
    BY <1>3, <1>5 DEF Reselect
  <2>2. pc' \in {"recheck", "idle"}
    BY <1>5 DEF Reselect, Refuse, Goto
  <2> QED BY <2>1, <2>2, QuietCommand DEF CancelLost
<1>6. CASE StopTransmission
  <2>1. CASE HandleInterrupts /\ Goto("reset_dat")
    <3>1. pc' = "reset_dat" /\ pc # "copy"
      BY <1>6, <2>1 DEF StopTransmission, Goto
    <3> QED BY <2>1, <3>1, QuietCommand DEF CancelLost
  <2>2. CASE Fails("STOP_TRANSMISSION") /\ Refuse(FALSE)
    <3>1. pc' = "idle" /\ ~dev'.rca
      BY <1>1, <2>2 DEF Refuse, DriverTyped, DevRecord
    <3>2. HandleInterrupts /\ pc # "copy"
      BY <1>3, <1>6, <2>2 DEF StopTransmission
    <3> QED BY <3>1, <3>2, QuietCommand DEF CancelLost
  <2> QED BY <1>6, <2>1, <2>2 DEF StopTransmission
<1>7. CASE ResetCircuit
  BY <1>7, IdleData DEF ResetCircuit, ResetDat, Goto
<1> QED BY <1>2, <1>4, <1>5, <1>6, <1>7

\* A failed attempt leaves behind nothing but the block that is wanted.
LEMMA RetryData ==
  ASSUME DInv, Data, pc \in {"issue", "transfer", "copy"}, Retry,
         host'.armed => host.armed,
         ~host'.ready => host'.fifo = <<>>,
         card'.state # "tran" \/ card' = card
  PROVE  Data'
<1> USE DEF Trying
<1>1. read \in ReadRecord
  BY DEF DInv, Typed, DriverTyped, Reading
<1>2. ~(host'.armed /\ card'.state = "tran")
  BY DEF Data, CancelLost
<1>3. CASE read.tries + 1 < MaxRetries
  <2>1. /\ read' = [read EXCEPT !.tries = @ + 1] /\ pc' = "attempt" /\ dev' = dev
    BY <1>3 DEF Retry
  <2>2. read'.tries # 0
    BY <1>1, <2>1 DEF ReadRecord
  <2>3. CancelLost' /\ FirstIdle' /\ FifoFlagged' /\ FifoRequested' /\ CopiesRequestedBlock'
    BY <1>2, <2>1, <2>2 DEF CancelLost, FirstIdle, FifoFlagged, FifoRequested,
                            CopiesRequestedBlock
  <2> QED BY <2>3 DEF Data
<1>4. CASE ~(read.tries + 1 < MaxRetries)
  <2>1. pc' = "idle"
    BY <1>4 DEF Retry, Refuse
  <2> QED BY <1>2, <2>1, QuietData DEF CancelLost
<1> QED BY <1>3, <1>4

\* The first words of what arrives are the first ones that were there.
LEMMA PrefixStays ==
  ASSUME NEW s \in Seq(Piece), NEW t \in Seq(Piece), NEW n \in Nat, n <= Len(s)
  PROVE  SubSeq(s \o t, 1, n) = SubSeq(s, 1, n)
<1> HIDE DEF Piece
<1>1. /\ s \o t \in Seq(Piece) /\ Len(s \o t) = Len(s) + Len(t)
      /\ \A i \in 1 .. Len(s) : (s \o t)[i] = s[i]
  OBVIOUS
<1> QED BY <1>1

\* A sequence is what it begins with, and nothing is left behind its end.
LEMMA WholeSeq ==
  ASSUME NEW s \in Seq(Piece)
  PROVE  SubSeq(s, 1, Len(s)) = s /\ SubSeq(s, Len(s) + 1, Len(s)) = <<>>
<1> HIDE DEF Piece
<1> QED OBVIOUS

\* The end of a sequence is what was appended.
LEMMA SuffixIs ==
  ASSUME NEW s \in Seq(Piece), NEW t \in Seq(Piece)
  PROVE  SubSeq(s \o t, Len(s \o t) - Len(t) + 1, Len(s \o t)) = t
<1> HIDE DEF Piece
<1> QED OBVIOUS

\* Data that arrive are the block that is wanted.
LEMMA ArrivalData ==
  ASSUME DInv, Data, CardSends
  PROVE  Data'
<1> USE DEF Trying
<1> DEFINE data == [i \in 1 .. card.size |-> <<card.sends, i - 1>>]
<1>1. CardTyped /\ DriverTyped /\ Sending
  BY DEF DInv, Typed
<1>2. UNCHANGED <<dev, read, buf, pc>> /\ card.state = "data" /\ ~host'.armed
  BY <1>1 DEF CardSends, driverVars, CardTyped, HostRecord
<1>3. CASE ~host.armed
  <2>1. host' = host
    BY <1>3 DEF CardSends
  <2> QED BY <1>2, <1>3, <2>1 DEF Data, CancelLost, FirstIdle, FifoFlagged, FifoRequested,
                                  Firsts, CopiesRequestedBlock
<1>4. CASE host.armed
  <2>1. host' = [host EXCEPT !.armed = FALSE, !.ready = TRUE, !.fifo = @ \o data]
    BY <1>4 DEF CardSends
  <2> HIDE DEF data
  <2>2. host'.ready /\ host'.fifo = host.fifo \o data /\ host'.dirty = host.dirty
    BY <1>1, <2>1 DEF CardTyped, HostRecord
  <2>3. CancelLost' /\ FifoFlagged'
    BY <1>2, <2>2 DEF CancelLost, FifoFlagged
  <2>4. FirstIdle'
    BY <1>2, <1>4 DEF Data, FirstIdle
  <2>5. CopiesRequestedBlock'
    BY <1>2, <2>2 DEF Data, CopiesRequestedBlock
  <2>6. ASSUME pc \in {"issue", "transfer", "copy"}
        PROVE  Firsts' = BlockHead(read.block, dev.size)
    <3>1. card.size = dev.size /\ card.sends = read.block /\ dev.size \in Nat
      BY <1>1, <1>2, <2>6, CountAssumption DEF Sending, DriverTyped, DevRecord
    <3>2. data = BlockHead(read.block, dev.size)
      BY <3>1 DEF data, BlockHead
    <3>3. card.sends \in Nat
      BY <1>1, <1>2, BlocksAssumption DEF CardTyped
    <3>4. data \in Seq(Piece) /\ Len(data) = dev.size
      BY <3>1, <3>3 DEF data, Piece
    <3>5. host.fifo \in Seq(Piece)
      BY <1>1 DEF CardTyped, HostRecord
    <3>6. Firsts' = SubSeq(host.fifo \o data, 1, dev.size)
      BY <1>2, <2>2 DEF Firsts
    <3>7. CASE host.ready \/ pc = "copy"
      <4>1. Len(host.fifo) >= dev.size /\ Firsts = BlockHead(read.block, dev.size)
        BY <1>1, <2>6, <3>7 DEF Data, FifoRequested, Sending
      <4>2. SubSeq(host.fifo \o data, 1, dev.size) = Firsts
        BY <3>1, <3>4, <3>5, <4>1, PrefixStays DEF Firsts
      <4> QED BY <3>6, <4>1, <4>2
    <3>8. CASE ~(host.ready \/ pc = "copy")
      <4>1. host.fifo = <<>>
        BY <3>8 DEF Data, FifoFlagged
      <4>2. host.fifo \o data = data
        BY <3>4, <4>1
      <4>3. Firsts' = SubSeq(data, 1, Len(data))
        BY <3>4, <3>6, <4>2
      <4> QED BY <3>2, <3>4, <4>3, WholeSeq
    <3> QED BY <3>7, <3>8
  <2>7. FifoRequested'
    BY <1>2, <2>2, <2>6 DEF FifoRequested
  <2> QED BY <2>3, <2>4, <2>5, <2>7 DEF Data
<1> QED BY <1>3, <1>4

\* The words of a block are copied.
LEMMA CopyData ==
  ASSUME DInv, Data, Copy
  PROVE  Data'
<1> USE DEF Trying
<1>1. CardTyped /\ DriverTyped /\ Sending
  BY DEF DInv, Typed
<1>2. pc = "copy" /\ card' = card /\ host \in HostRecord /\ host.fifo \in Seq(Piece)
      /\ dev \in DevRecord
  BY <1>1 DEF Copy, CardTyped, HostRecord, DriverTyped
<1>3. host' = [host EXCEPT !.fifo = SubSeq(host.fifo, dev.size + 1, Len(host.fifo))]
  BY DEF Copy
<1>4. /\ host'.armed = host.armed /\ host'.ready = host.ready /\ host'.dirty = host.dirty
      /\ host'.fifo = SubSeq(host.fifo, dev.size + 1, Len(host.fifo))
  BY <1>2, <1>3 DEF HostRecord
<1>5. ~host'.ready => host'.fifo = <<>>
  <2> SUFFICES ASSUME ~host.ready PROVE host'.fifo = <<>>
    BY <1>4
  <2>1. Len(host.fifo) = dev.size
    BY <1>2 DEF Data, FifoRequested
  <2> QED BY <1>2, <1>4, <2>1, WholeSeq
<1>6. CASE Retry
  BY <1>2, <1>4, <1>5, <1>6, RetryData
<1>7. CASE /\ buf' = buf \o Firsts /\ pc' = "next_block"
           /\ UNCHANGED <<device, dev, nested, v2, caller, read, result>>
  <2>1. CancelLost' /\ FirstIdle' /\ FifoFlagged' /\ FifoRequested'
    BY <1>2, <1>4, <1>5, <1>7 DEF Data, CancelLost, FirstIdle, FifoFlagged, FifoRequested
  <2>2. CopiesRequestedBlock'
    <3>1. Firsts = BlockHead(read.block, dev.size)
      BY <1>2 DEF Data, FifoRequested
    <3>2. Firsts \in Seq(Piece) /\ Len(Firsts) = dev.size /\ buf \in Seq(Piece)
      BY <1>1, <1>2, FirstsTyped DEF Sending, DriverTyped
    <3>3. SubSeq(buf', Len(buf') - dev.size + 1, Len(buf')) = Firsts
      <4>1. SubSeq(buf \o Firsts, Len(buf \o Firsts) - Len(Firsts) + 1, Len(buf \o Firsts))
              = Firsts
        BY <3>2, SuffixIs
      <4> QED BY <1>7, <3>2, <4>1
    <3>4. BlockHead(read.block, dev.size) = [i \in 1 .. dev.size |-> <<read.block, i - 1>>]
      BY DEF BlockHead
    <3> QED BY <1>7, <3>1, <3>3, <3>4 DEF CopiesRequestedBlock
  <2> QED BY <2>1, <2>2 DEF Data
<1> QED BY <1>6, <1>7 DEF Copy, Firsts

\* The attempts to read a block.
LEMMA AttemptData ==
  ASSUME DInv, DataCommand \/ Attempt \/ Issue \/ Transfer \/ Copy
  PROVE  (host.dirty \/ Data)'
<1> USE DEF Trying
<1>0. CardTyped /\ DriverTyped /\ Sending
  BY DEF DInv, Typed
<1>1. CASE DataCommand
  <2>1. host' = host /\ card' = card /\ pc = "command"
    BY <1>1 DEF DataCommand
  <2>2. CASE Goto("attempt")
    <3>1. CASE host.dirty
      BY <2>1, <3>1
    <3>2. CASE Data
      BY <2>1, <2>2, <3>2 DEF Goto, Data, CancelLost, FirstIdle, FifoFlagged,
                              FifoRequested, CopiesRequestedBlock
    <3> QED BY <3>1, <3>2 DEF DInv
  <2>3. CASE Goto("undefined") \/ Refuse(dev.rca)
    <3>1. pc' \in {"undefined", "idle"}
      BY <2>3 DEF Goto, Refuse
    <3>2. Data => CancelLost'
      BY <2>1 DEF Data, CancelLost, FirstIdle
    <3> QED BY <2>1, <3>1, <3>2, QuietStep
  <2> QED BY <1>1, <2>2, <2>3 DEF DataCommand
<1>2. CASE Attempt
  <2>1. /\ host' = IdleHost \/ (host' = host /\ ~host.ready)
        /\ pc = "attempt" /\ pc' = "issue" /\ UNCHANGED <<card, read, dev>>
    BY <1>0, <1>2, InterruptsHandled DEF Attempt, Goto, CardTyped, HostTyped
  <2>2. CASE host' = IdleHost
    BY <2>1, <2>2, IdleData
  <2>3. CASE host' = host /\ host.dirty
    BY <2>3
  <2>4. CASE host' = host /\ Data
    <3>1. ~host.ready
      BY <2>1, <2>4, IdleTyped
    <3> QED BY <2>1, <2>4, <3>1 DEF Data, CancelLost, FirstIdle, FifoFlagged,
                                    FifoRequested, CopiesRequestedBlock
  <2> QED BY <2>1, <2>2, <2>3, <2>4 DEF DInv
<1>3. CASE Issue
  <2>1. pc = "issue" /\ host'.dirty = host.dirty /\ host'.ready = host.ready
        /\ host'.fifo = host.fifo
    BY <1>0, <1>3 DEF Issue, CardTyped, HostRecord
  <2>2. CASE host.dirty
    BY <2>1, <2>2
  <2>3. ASSUME Data PROVE Data'
    <3>1. ~host'.ready => host'.fifo = <<>>
      BY <2>1, <2>3 DEF Data, FifoFlagged
    <3>2. CASE UNCHANGED <<card, host>> /\ Retry
      BY <2>1, <2>3, <3>1, <3>2, RetryData
    <3>3. CASE card' = [card EXCEPT !.state = "data", !.sends = read.block, !.size = dev.size]
      <4>1. card'.state = "data"
        BY <1>0, <3>3 DEF CardTyped, CardRecord
      <4>2. CASE host' = host /\ Retry
        BY <2>1, <2>3, <3>1, <4>1, <4>2, RetryData
      <4>3. CASE host' = [host EXCEPT !.armed = TRUE] /\ Goto("transfer")
        <5>1. pc' = "transfer" /\ UNCHANGED <<dev, read>>
          BY <4>3 DEF Goto
        <5>2. CancelLost' /\ FirstIdle' /\ FifoFlagged' /\ CopiesRequestedBlock'
          BY <3>1, <4>1, <5>1 DEF CancelLost, FirstIdle, FifoFlagged, CopiesRequestedBlock
        <5>3. FifoRequested'
          BY <2>1, <2>3, <5>1 DEF FifoRequested, Firsts, Data
        <5> QED BY <5>2, <5>3 DEF Data
      <4> QED BY <1>3, <3>2, <3>3, <4>2, <4>3 DEF Issue
    <3> QED BY <1>3, <3>2, <3>3 DEF Issue
  <2> QED BY <2>2, <2>3 DEF DInv
<1>4. CASE Transfer
  <2>1. pc = "transfer" /\ card' = card /\ host \in HostRecord
    BY <1>0, <1>4 DEF Transfer, CardTyped
  <2>2. CASE host' = [host EXCEPT !.ready = FALSE, !.dirty = TRUE]
    <3>1. host'.dirty
      BY <2>1, <2>2 DEF HostRecord
    <3> QED BY <3>1
  <2>3. CASE ~host.ready /\ host' = host /\ Retry
    <3>1. CASE host.dirty
      BY <2>3, <3>1
    <3>2. CASE Data
      <4>1. ~host'.ready => host'.fifo = <<>>
        BY <2>1, <2>3, <3>2 DEF Data, FifoFlagged
      <4> QED BY <2>1, <2>3, <3>2, <4>1, RetryData
    <3> QED BY <3>1, <3>2 DEF DInv
  <2>4. CASE /\ host.ready /\ Goto("copy")
             /\ host' = [host EXCEPT !.ready = FALSE,
                                     !.dirty = @ \/ Len(host.fifo) > dev.size]
    <3>1. /\ host'.armed = host.armed /\ host'.fifo = host.fifo
          /\ host'.dirty = (host.dirty \/ Len(host.fifo) > dev.size)
      BY <2>1, <2>4 DEF HostRecord
    <3>2. CASE host.dirty \/ Len(host.fifo) > dev.size
      BY <3>1, <3>2
    <3>3. CASE ~host.dirty /\ ~(Len(host.fifo) > dev.size)
      <4>1. Data /\ pc' = "copy" /\ UNCHANGED <<dev, read>>
        BY <2>4, <3>3 DEF DInv, Goto
      <4>2. Len(host.fifo) >= dev.size /\ Len(host.fifo) \in Nat /\ dev.size \in Nat
        BY <1>0, <2>1, <2>4, CountAssumption
        DEF Sending, HostRecord, DriverTyped, DevRecord
      <4>3. Len(host'.fifo) = dev.size
        BY <3>1, <3>3, <4>2
      <4>4. Firsts' = BlockHead(read.block, dev.size)
        BY <2>1, <2>4, <3>1, <4>1 DEF Data, FifoRequested, Firsts
      <4>5. CancelLost' /\ FirstIdle' /\ FifoFlagged' /\ CopiesRequestedBlock'
        BY <2>1, <3>1, <4>1 DEF Data, CancelLost, FirstIdle, FifoFlagged,
                                CopiesRequestedBlock
      <4>6. FifoRequested'
        BY <4>1, <4>3, <4>4 DEF FifoRequested
      <4> QED BY <4>5, <4>6 DEF Data
    <3> QED BY <3>2, <3>3
  <2> QED BY <1>4, <2>2, <2>3, <2>4 DEF Transfer
<1>5. CASE Copy
  <2>1. CASE host.dirty
    <3>1. host'.dirty
      BY <1>0, <1>5, <2>1 DEF Copy, CardTyped, HostRecord
    <3> QED BY <3>1
  <2> QED BY <1>5, <2>1, CopyData DEF DInv
<1> QED BY <1>1, <1>2, <1>3, <1>4, <1>5

\* The rest: the card, the loop of sd_read, and reads that are abandoned.
LEMMA OtherData ==
  ASSUME DInv, \/ SdRead \/ NextBlock \/ Abandon \/ BusyWait
               \/ CardSends \/ CardPowersUp \/ CardUpset \/ Undefined \/ UNCHANGED vars
  PROVE  (host.dirty \/ Data)'
<1> USE DEF Trying
<1>0. CardTyped /\ DriverTyped
  BY DEF DInv, Typed
<1>1. CASE SdRead
  <2>1. Data => CancelLost'
    BY <1>1 DEF SdRead, CancelLost, Data
  <2> QED BY <1>1, <2>1, QuietStep DEF SdRead
<1>2. CASE NextBlock
  <2>1. Data => CancelLost'
    BY <1>2 DEF NextBlock, CancelLost, Data
  <2>2. pc = "next_block" /\ host' = host /\ pc' \in {"idle", "mode"}
    BY <1>2 DEF NextBlock
  <2> QED BY <2>1, <2>2, QuietStep
<1>3. CASE Abandon
  <2>1. pc' = "idle" /\ dev' = dev /\ host' \in LeftInCircuit
    BY <1>3 DEF Abandon
  <2>2. CASE pc \in {"copy", "reset_dat"}
    <3>1. host'.dirty
      BY <1>0, <2>1, <2>2 DEF LeftInCircuit, CardTyped, HostRecord
    <3> QED BY <3>1
  <2>3. CASE pc \notin {"copy", "reset_dat"}
    <3>1. host' = host
      BY <2>1, <2>3 DEF LeftInCircuit
    <3>2. card'.state \in {card.state, "off"}
      BY <1>0, <1>3, PowerOffTyped DEF Abandon, CardTyped
    <3>3. Data => CancelLost'
      BY <2>1, <2>3, <3>1, <3>2 DEF Data, CancelLost
    <3> QED BY <2>1, <2>3, <3>1, <3>3, QuietStep
  <2> QED BY <2>2, <2>3
<1>4. CASE CardSends
  <2>1. CASE host.dirty
    <3>1. host'.dirty
      BY <1>0, <1>4, <2>1 DEF CardSends, CardTyped, HostRecord
    <3> QED BY <3>1
  <2> QED BY <1>4, <2>1, ArrivalData DEF DInv
<1>5. CASE CardPowersUp \/ CardUpset
  <2>1. UNCHANGED <<host, dev, read, buf, pc>>
    BY <1>5 DEF CardPowersUp, CardUpset, driverVars
  <2>2. card'.state = card.state \/ card'.state # "tran"
    <3>1. CASE CardPowersUp
      BY <1>0, <3>1 DEF CardPowersUp, CardTyped, CardRecord
    <3>2. CASE CardUpset
      BY <1>0, <3>2, UpsetAssumption DEF CardUpset, CardTyped, CardRecord
    <3> QED BY <1>5, <3>1, <3>2
  <2>3. Data => Data'
    BY <2>1, <2>2 DEF Data, CancelLost, FirstIdle, FifoFlagged, FifoRequested, Firsts,
                      CopiesRequestedBlock
  <2> QED BY <2>1, <2>3 DEF DInv
<1>6. CASE BusyWait \/ Undefined \/ UNCHANGED vars
  <2>1. UNCHANGED <<card, host, dev, read, buf, pc>>
    BY <1>6 DEF BusyWait, Undefined, vars, driverVars
  <2> QED BY <2>1 DEF DInv, Data, CancelLost, FirstIdle, FifoFlagged, FifoRequested, Firsts,
                      CopiesRequestedBlock
<1> QED BY <1>1, <1>2, <1>3, <1>4, <1>5, <1>6

\* Outside the initialisation nothing leads into it but its start.
LEMMA OtherPrepared ==
  ASSUME DInv, \/ SdRead \/ EmmcRead \/ Abandon \/ CardSends \/ CardPowersUp
               \/ CardUpset \/ Undefined \/ UNCHANGED vars
  PROVE  PreparedIdle'
<1>1. CASE pc' \notin Preparing
  BY <1>1 DEF PreparedIdle
<1>2. CASE UNCHANGED <<host, pc>>
  BY <1>2 DEF DInv, PreparedIdle
<1>3. CASE CardSends
  <2>1. CASE host.armed
    <3>1. pc \notin Preparing
      BY <2>1, IdleTyped DEF DInv, PreparedIdle
    <3> QED BY <1>1, <1>3, <3>1 DEF CardSends, driverVars
  <2>2. CASE ~host.armed
    BY <1>2, <1>3, <2>2 DEF CardSends, driverVars
  <2> QED BY <2>1, <2>2
<1>4. CASE CardPowersUp \/ CardUpset \/ Undefined \/ BusyWait \/ UNCHANGED vars
  BY <1>2, <1>4 DEF CardPowersUp, CardUpset, Undefined, BusyWait, vars, driverVars
<1>5. CASE SdRead \/ DataMode \/ NextBlock \/ Abandon \/ Attempt \/ ResetCircuit
  BY <1>1, <1>5 DEF SdRead, DataMode, NextBlock, Abandon, Attempt, ResetCircuit, Goto,
                    Preparing
<1>6. CASE SendStatus \/ Reselect \/ StopTransmission \/ Recheck \/ DataCommand
  <2>1. \A s : StatusLeadsTo(s) \notin Preparing
    BY DEF StatusLeadsTo, Preparing
  <2> QED BY <1>1, <1>6, <2>1 DEF SendStatus, Reselect, StopTransmission, Recheck,
                                  DataCommand, Goto, Refuse, Preparing
<1>7. CASE Issue \/ Transfer \/ Copy
  BY <1>1, <1>7 DEF Issue, Transfer, Copy, Retry, Goto, Refuse, Preparing
<1> QED BY <1>3, <1>4, <1>5, <1>6, <1>7 DEF EmmcRead

\* The invariant about data holds through every step.
LEMMA DataStep == DInv /\ [Next]_vars => DInv'
<1> SUFFICES ASSUME DInv, [Next]_vars PROVE DInv'
  OBVIOUS
<1>1. Typed'
  BY TypedStep DEF DInv
<1>2. CASE EmmcInit \/ CardInit
  BY <1>1, <1>2, InitData DEF DInv
<1>3. CASE EmmcRead
  BY <1>1, <1>3, ModeData, AttemptData, OtherData, OtherPrepared DEF EmmcRead, DInv
<1>4. CASE \/ SdRead \/ Abandon \/ CardSends \/ CardPowersUp \/ CardUpset
           \/ Undefined \/ UNCHANGED vars
  BY <1>1, <1>4, OtherData, OtherPrepared DEF DInv
<1> QED BY <1>2, <1>3, <1>4 DEF Next

\* And from the start.
LEMMA DataInvariant == Spec => []DInv
<1>1. Init => DInv
  <2> SUFFICES ASSUME Init PROVE DInv
    OBVIOUS
  <2>1. Typed
    BY InitTyped
  <2>2. host = IdleHost /\ pc = "boot"
    BY DEF Init
  <2>3. Data
    BY <2>2, IdleTyped DEF Data, CancelLost, FirstIdle, FifoFlagged, FifoRequested,
                           CopiesRequestedBlock
  <2>4. PreparedIdle
    BY <2>2 DEF PreparedIdle
  <2> QED BY <2>1, <2>3, <2>4 DEF DInv
<1> QED BY <1>1, DataStep, PTL DEF Spec

(***************************************************************************)
(* No stale data: whatever came late from earlier attempts, earlier reads  *)
(* and reads that were abandoned, the block that is copied to the caller   *)
(* is the one that was asked for, unless the circuit was left unclean with *)
(* no flag to show it and has not been reset since.                        *)
(***************************************************************************)
THEOREM NoStaleData == Spec => []CopiesRequestedBlock
<1>1. DInv => CopiesRequestedBlock
  BY DEF DInv, Data, CopiesRequestedBlock
<1> QED BY <1>1, DataInvariant, PTL

(***************************************************************************)
(* The first command for a block finds the data circuit idle, with the     *)
(* same exception.                                                         *)
(***************************************************************************)
THEOREM CircuitIsIdle == Spec => []CircuitIdle
<1>1. DInv => CircuitIdle
  <2> SUFFICES ASSUME DInv, pc = "issue", read.tries = 0, ~host.dirty
               PROVE  host = IdleHost
    BY DEF CircuitIdle
  <2>1. host \in HostRecord /\ Data
    BY DEF DInv, Typed, CardTyped
  <2>2. ~host.armed /\ ~host.ready
    BY <2>1 DEF Data, FirstIdle
  <2>3. host.fifo = <<>>
    BY <2>1, <2>2 DEF Data, FifoFlagged
  <2>4. host.armed = FALSE /\ host.ready = FALSE /\ host.dirty = FALSE
    BY <2>1, <2>2 DEF HostRecord
  <2>5. host = [armed |-> host.armed, ready |-> host.ready, fifo |-> host.fifo,
                dirty |-> host.dirty]
    BY <2>1 DEF HostRecord
  <2> QED BY <2>3, <2>4, <2>5 DEF IdleHost
<1> QED BY <1>1, DataInvariant, PTL

-----------------------------------------------------------------------------
(* The clock.                                                               *)

\* The slowest clock is within reach of the 10-bit divider.
DividerReach ==
  ClockId <= ClockNormal /\ \A b \in BaseClock \cup {AssumedClock} : b <= 2046 * ClockId

\* A factor keeps the order.
LEMMA TimesKeepsOrder ==
  \A m \in Nat, n \in Nat, t \in Nat : m <= n => m * t <= n * t
OBVIOUS

\* The 10-bit divider can divide base clock b down to rate t.
InReach(b, t) == b <= 2046 * t

\* The divider n of base clock b for rate t, before it is rounded: exact, or
\* off by less than two.
Divides(n, b, t) ==
  /\ n \in 0 .. 2046
  /\ b % t = 0 => n # 0 /\ b = n * t
  /\ b % t # 0 => b < (n + 2) * t

\* What emmc_get_clock_divider starts from.
LEMMA TargetDivides ==
  ASSUME NEW b \in Nat \ {0}, NEW t \in Nat \ {0}, InReach(b, t)
  PROVE  Divides(TargetDiv(b, t), b, t)
<1> DEFINE q == b \div t
<1>1. /\ q \in Nat /\ b % t \in 0 .. t - 1 /\ b = q * t + (b % t)
  OBVIOUS
<1>2. q <= 2046
  <2> SUFFICES ASSUME q >= 2047 PROVE FALSE
    BY <1>1
  <2>0. b <= 2046 * t
    BY DEF InReach
  <2>1. q * t >= 2047 * t
    <3> HIDE DEF q
    <3> QED BY <1>1, TimesKeepsOrder
  <2> HIDE DEF q
  <2> QED BY <1>1, <2>0, <2>1
<1>3. CASE t > b
  <2>1. q = 0
    <3> SUFFICES ASSUME q >= 1 PROVE FALSE
      BY <1>1
    <3>1. q * t >= 1 * t
      <4> HIDE DEF q
      <4> QED BY <1>1, TimesKeepsOrder
    <3> HIDE DEF q
    <3> QED BY <1>1, <1>3, <3>1
  <2>2. b % t = b
    <3> HIDE DEF q
    <3> QED BY <1>1, <2>1
  <2> QED BY <1>3, <2>2 DEF TargetDiv, Divides
<1>4. CASE ~(t > b) /\ b % t = 0
  <2>1. TargetDiv(b, t) = q
    BY <1>4 DEF TargetDiv
  <2> HIDE DEF q
  <2>2. q # 0
    BY <1>1, <1>4
  <2> QED BY <1>1, <1>2, <1>4, <2>1, <2>2 DEF Divides
<1>5. CASE ~(t > b) /\ b % t # 0
  <2>1. TargetDiv(b, t) = q - 1
    BY <1>5 DEF TargetDiv
  <2> HIDE DEF q
  <2>2. q # 0
    BY <1>1, <1>5
  <2>3. b < (q + 1) * t
    BY <1>1
  <2>4. (q - 1) + 2 = q + 1 /\ q - 1 \in 0 .. 2046
    BY <1>1, <1>2, <2>2
  <2> QED BY <1>5, <2>1, <2>3, <2>4 DEF Divides
<1> QED BY <1>3, <1>4, <1>5

Pow2(k) == 2^k

\* The powers of two in question.
LEMMA Powers ==
  /\ Pow2(0) = 1 /\ Pow2(1) = 2 /\ Pow2(2) = 4 /\ Pow2(3) = 8 /\ Pow2(4) = 16
  /\ Pow2(5) = 32 /\ Pow2(6) = 64 /\ Pow2(7) = 128 /\ Pow2(8) = 256
  /\ Pow2(9) = 512 /\ Pow2(10) = 1024 /\ Pow2(11) = 2048
BY DEF Pow2

\* Each of them is twice the one before.
LEMMA PowersDouble ==
  \A k \in 1 .. 10 : Pow2(k - 1) \in 1 .. 512 /\ Pow2(k) = 2 * Pow2(k - 1)
<1> TAKE k \in 1 .. 10
<1>1. CASE k = 1
  <2>1. 1 - 1 = 0
    OBVIOUS
  <2>2. Pow2(k - 1) = 1 /\ Pow2(k) = 2
    BY <1>1, <2>1, Powers
  <2> QED BY <2>2
<1>2. CASE k = 2
  <2>1. 2 - 1 = 1
    OBVIOUS
  <2>2. Pow2(k - 1) = 2 /\ Pow2(k) = 4
    BY <1>2, <2>1, Powers
  <2> QED BY <2>2
<1>3. CASE k = 3
  <2>1. 3 - 1 = 2
    OBVIOUS
  <2>2. Pow2(k - 1) = 4 /\ Pow2(k) = 8
    BY <1>3, <2>1, Powers
  <2> QED BY <2>2
<1>4. CASE k = 4
  <2>1. 4 - 1 = 3
    OBVIOUS
  <2>2. Pow2(k - 1) = 8 /\ Pow2(k) = 16
    BY <1>4, <2>1, Powers
  <2> QED BY <2>2
<1>5. CASE k = 5
  <2>1. 5 - 1 = 4
    OBVIOUS
  <2>2. Pow2(k - 1) = 16 /\ Pow2(k) = 32
    BY <1>5, <2>1, Powers
  <2> QED BY <2>2
<1>6. CASE k = 6
  <2>1. 6 - 1 = 5
    OBVIOUS
  <2>2. Pow2(k - 1) = 32 /\ Pow2(k) = 64
    BY <1>6, <2>1, Powers
  <2> QED BY <2>2
<1>7. CASE k = 7
  <2>1. 7 - 1 = 6
    OBVIOUS
  <2>2. Pow2(k - 1) = 64 /\ Pow2(k) = 128
    BY <1>7, <2>1, Powers
  <2> QED BY <2>2
<1>8. CASE k = 8
  <2>1. 8 - 1 = 7
    OBVIOUS
  <2>2. Pow2(k - 1) = 128 /\ Pow2(k) = 256
    BY <1>8, <2>1, Powers
  <2> QED BY <2>2
<1>9. CASE k = 9
  <2>1. 9 - 1 = 8
    OBVIOUS
  <2>2. Pow2(k - 1) = 256 /\ Pow2(k) = 512
    BY <1>9, <2>1, Powers
  <2> QED BY <2>2
<1>10. CASE k = 10
  <2>1. 10 - 1 = 9
    OBVIOUS
  <2>2. Pow2(k - 1) = 512 /\ Pow2(k) = 1024
    BY <1>10, <2>1, Powers
  <2> QED BY <2>2
<1> QED BY <1>1, <1>2, <1>3, <1>4, <1>5, <1>6, <1>7, <1>8, <1>9, <1>10

\* The dividers in reach but 0, and the exponents in question.
Divisor == 1 .. 2046
Exponent == 0 .. 31

IsCeilLog2(k, n) == Pow2(k) >= n /\ (k = 0 \/ Pow2(k - 1) < n)

\* The exponent of the smallest power of two that is no smaller.
LEMMA CeilLog2Is ==
  ASSUME NEW n \in Divisor
  PROVE  CeilLog2(n) \in Exponent /\ IsCeilLog2(CeilLog2(n), n)
<1> DEFINE P(k) == Pow2(k) >= n /\ (k = 0 \/ Pow2(k - 1) < n)
<1>0. n \in 1 .. 2046
  BY DEF Divisor
<1>1. \E k \in 0 .. 31 : P(k)
  <2>1. CASE n = 1
    <3>1. P(0)
      BY <2>1, Powers
    <3> QED BY <3>1
  <2>2. ASSUME NEW k \in 1 .. 11, Pow2(k - 1) < n, n <= Pow2(k)
        PROVE  \E j \in 0 .. 31 : P(j)
    <3>1. Pow2(k) \in Int
      BY DEF Pow2
    <3>2. P(k)
      BY <1>0, <2>2, <3>1
    <3> QED BY <3>2
  <2>3. 1 - 1 = 0 /\ 2 - 1 = 1 /\ 3 - 1 = 2 /\ 4 - 1 = 3 /\ 5 - 1 = 4 /\ 6 - 1 = 5
        /\ 7 - 1 = 6 /\ 8 - 1 = 7 /\ 9 - 1 = 8 /\ 10 - 1 = 9 /\ 11 - 1 = 10
    OBVIOUS
  <2>4. n > 1 => \E k \in 1 .. 11 : Pow2(k - 1) < n /\ n <= Pow2(k)
    <3>1. CASE n \in 2 .. 2 \/ n \in 3 .. 4 \/ n \in 5 .. 8 \/ n \in 9 .. 16
      BY <1>0, <3>1, <2>3, Powers
    <3>2. CASE n \in 17 .. 32 \/ n \in 33 .. 64 \/ n \in 65 .. 128 \/ n \in 129 .. 256
      BY <1>0, <3>2, <2>3, Powers
    <3>3. CASE n \in 257 .. 512 \/ n \in 513 .. 1024 \/ n \in 1025 .. 2048
      BY <1>0, <3>3, <2>3, Powers
    <3> QED BY <1>0, <3>1, <3>2, <3>3
  <2> HIDE DEF P
  <2> QED BY <1>0, <2>1, <2>2, <2>4
<1>2. CeilLog2(n) = CHOOSE k \in 0 .. 31 : P(k)
  BY DEF CeilLog2, Pow2
<1>3. CeilLog2(n) \in 0 .. 31 /\ P(CeilLog2(n))
  <2> HIDE DEF P
  <2> QED BY <1>1, <1>2
<1> QED BY <1>3 DEF Exponent, IsCeilLog2

\* What a field of the register divides by, and the field for an exponent.
DividesBy(d) == IF d = 0 THEN 1 ELSE 2 * d
IsField(d, k) ==
  /\ k = 0 => d = 0
  /\ k > 10 => d = 1023
  /\ k \in 1 .. 10 => d = Pow2(k - 1)

\* The field d divides by n or more, and by less than twice as much unless it
\* is at its limit.
Rounds(d, n) ==
  /\ d \in 0 .. 1023 /\ n <= DividesBy(d)
  /\ n = 0 \/ d = 1023 \/ 2 * n > DividesBy(d)

\* What rounding up to a power of two makes of the divider n.
LEMMA RoundedIs ==
  ASSUME NEW n \in Divisor, NEW k \in Exponent, NEW d, IsCeilLog2(k, n), IsField(d, k)
  PROVE  Rounds(d, n)
<1>0. n \in 1 .. 2046 /\ k \in 0 .. 31
  BY DEF Divisor, Exponent
<1>1. CASE k = 0
  <2>1. d = 0 /\ n <= 1
    BY <1>0, <1>1, Powers DEF IsField, IsCeilLog2
  <2> QED BY <1>0, <2>1 DEF Rounds, DividesBy
<1>2. CASE k > 10
  <2>1. d = 1023
    BY <1>2 DEF IsField
  <2> QED BY <1>0, <2>1 DEF Rounds, DividesBy
<1>3. CASE k \in 1 .. 10
  <2>1. d = Pow2(k - 1)
    BY <1>3 DEF IsField
  <2>2. Pow2(k - 1) \in 1 .. 512 /\ Pow2(k) = 2 * Pow2(k - 1)
    BY <1>3, PowersDouble
  <2>3. Pow2(k - 1) < n /\ Pow2(k) >= n
    BY <1>3 DEF IsCeilLog2
  <2>4. d \in 1 .. 512 /\ 2 * d >= n /\ d < n
    BY <2>1, <2>2, <2>3
  <2>5. DividesBy(d) = 2 * d
    BY <2>4 DEF DividesBy
  <2>6. d \in 0 .. 1023 /\ n <= 2 * d /\ 2 * n > 2 * d
    BY <1>0, <2>4
  <2> QED BY <2>5, <2>6 DEF Rounds
<1> QED BY <1>0, <1>1, <1>2, <1>3

\* The divider in the register.
LEMMA DividerIs ==
  ASSUME NEW b, NEW t, TargetDiv(b, t) \in Divisor \cup {0}
  PROVE  Rounds(ClockDivider(b, t), TargetDiv(b, t))
<1>1. CASE TargetDiv(b, t) = 0
  <2>1. ClockDivider(b, t) = 1023
    BY <1>1 DEF ClockDivider
  <2> QED BY <1>1, <2>1 DEF Rounds, DividesBy
<1>2. CASE TargetDiv(b, t) # 0
  <2>1. TargetDiv(b, t) \in Divisor
    BY <1>2
  <2> DEFINE k == CeilLog2(TargetDiv(b, t))
  <2>2. IsField(ClockDivider(b, t), k)
    BY <1>2 DEF ClockDivider, Pow2, IsField
  <2>3. k \in Exponent /\ IsCeilLog2(k, TargetDiv(b, t))
    BY <2>1, CeilLog2Is, Zenon
  <2> HIDE DEF k
  <2> QED BY <2>1, <2>2, <2>3, RoundedIs, Zenon
<1> QED BY <1>1, <1>2

\* The rate of base clock b, divided so.
RateFits(d, b, t) ==
  /\ b % t = 0 => b <= t * DividesBy(d) /\ (d = 1023 \/ 2 * b > t * DividesBy(d))
  /\ b < 3 * t * DividesBy(d)

\* It is as fast as rate t asks for.
LEMMA RoundedFits ==
  ASSUME NEW b \in Nat \ {0}, NEW t \in Nat \ {0}, NEW n, NEW d,
         Divides(n, b, t), Rounds(d, n)
  PROVE  RateFits(d, b, t)
<1>1. /\ n \in Nat
      /\ b % t = 0 => n # 0 /\ b = n * t
      /\ b % t # 0 => b < (n + 2) * t
  BY DEF Divides
<1>2. PICK f \in Nat \ {0} : f = DividesBy(d)
  BY DEF DividesBy, Rounds
<1>3. n <= f /\ (n = 0 \/ d = 1023 \/ 2 * n > f)
  BY <1>2 DEF Rounds
<1>4. n * t <= f * t
  BY <1>1, <1>3, TimesKeepsOrder
<1>5. CASE b % t = 0
  <2>1. b = n * t /\ n # 0
    BY <1>1, <1>5
  <2>2. b <= t * f
    BY <1>1, <1>4, <2>1
  <2>3. ASSUME 2 * n > f PROVE 2 * b > t * f
    <3>1. f + 1 <= 2 * n
      BY <1>1, <2>3
    <3>2. (f + 1) * t <= (2 * n) * t
      BY <1>1, <3>1, TimesKeepsOrder
    <3> QED BY <1>1, <2>1, <3>2
  <2>4. b < 3 * t * f
    BY <2>2
  <2> QED BY <1>2, <1>3, <2>1, <2>2, <2>3, <2>4 DEF RateFits
<1>6. CASE b % t # 0
  <2>1. n + 2 <= 3 * f
    BY <1>1, <1>3
  <2>2. (n + 2) * t <= (3 * f) * t
    BY <1>1, <2>1, TimesKeepsOrder
  <2>3. b < 3 * t * f
    BY <1>1, <1>6, <2>2
  <2> QED BY <1>2, <1>6, <2>3 DEF RateFits
<1> QED BY <1>5, <1>6

\* What the fields of the register hold.
LEMMA FieldHolds ==
  ASSUME NEW d \in 0 .. 1023
  PROVE  /\ d % 256 \in 0 .. 255 /\ (d \div 256) % 4 \in 0 .. 3
         /\ (d % 256) + 256 * ((d \div 256) % 4) = d
OBVIOUS

\* A clock that is programmed for a rate has it.
LEMMA ProgrammedFits ==
  ASSUME NEW c \in Clock, NEW t \in Nat \ {0}, InReach(c.taken, t)
  PROVE  /\ Programmed(c, t) \in Clock /\ Programmed(c, t).en
         /\ HasRate(Programmed(c, t), t)
<1> DEFINE b == c.taken
           d == ClockDivider(b, t)
           p == Programmed(c, t)
<1>1. b \in BaseClock \cup {AssumedClock} /\ c.base \in BaseClock
  BY DEF Clock
<1>2. b \in Nat \ {0}
  <2>1. BaseClock \subseteq Nat \ {0} /\ AssumedClock \in Nat \ {0}
    BY RatesAssumption DEF AssumedClock
  <2> HIDE DEF b
  <2> QED BY <1>1, <2>1
<1>3. InReach(b, t)
  OBVIOUS
<1>4. p = [base |-> c.base, taken |-> b, en |-> TRUE,
           freq8 |-> d % 256, ms2 |-> (d \div 256) % 4]
  BY DEF Programmed, Encode
<1> HIDE DEF b
<1>5. Divides(TargetDiv(b, t), b, t)
  BY <1>2, <1>3, TargetDivides
<1>6. Rounds(d, TargetDiv(b, t))
  <2>1. TargetDiv(b, t) \in Divisor \cup {0}
    BY <1>5 DEF Divides, Divisor
  <2> QED BY <2>1, DividerIs
<1> HIDE DEF d
<1>7. RateFits(d, b, t)
  BY <1>2, <1>5, <1>6, RoundedFits, Zenon
<1>8. d \in 0 .. 1023
  BY <1>6 DEF Rounds
<1> HIDE DEF p
<1>9. p \in Clock /\ p.en /\ p.taken = b
  BY <1>1, <1>4, <1>8, FieldHolds DEF Clock
<1>10. Field(p) = d
  BY <1>4, <1>8, FieldHolds DEF Field
<1>11. Factor(p) = DividesBy(d)
  BY <1>10 DEF Factor, DividesBy
<1>12. HasRate(p, t)
  BY <1>7, <1>9, <1>10, <1>11 DEF HasRate, RateFits
<1> QED BY <1>9, <1>12 DEF b, p

(***************************************************************************)
(* The labels at which the card is identified at the slow clock, and those *)
(* before and after them at which no card has left the identification.     *)
(***************************************************************************)
Identified == {"structure", "go_idle", "if_cond", "op_cond", "send_op_cond"}
Switched == {"voltage", "all_send_cid"}
Unidentified == {"controller", "clock", "switch_clock"} \cup Identified \cup Switched

\* A card in use has the fast clock, if any.
ClockData ==
  /\ clock \in Clock
  /\ InUse /\ clock.en => HasRate(clock, ClockNormal)
  /\ pc \in Identified => clock.en /\ HasRate(clock, ClockId)
  /\ pc \in Switched => (clock.en => HasRate(clock, ClockNormal))
  /\ pc \in Unidentified => ~InUse

\* The clock is programmed for a rate of the driver.
LEMMA RatesFit ==
  ASSUME DividerReach, NEW c \in Clock
  PROVE  \A t \in {ClockId, ClockNormal} :
           /\ Programmed(c, t) \in Clock /\ Programmed(c, t).en
           /\ HasRate(Programmed(c, t), t)
<1> TAKE t \in {ClockId, ClockNormal}
<1>1. ClockId \in Nat \ {0} /\ ClockNormal \in Nat \ {0}
  BY RatesAssumption
<1>2. c.taken \in BaseClock \cup {AssumedClock}
  BY DEF Clock
<1>3. c.taken \in Nat
  <2>1. BaseClock \subseteq Nat \ {0} /\ AssumedClock \in Nat
    BY RatesAssumption DEF AssumedClock
  <2> QED BY <1>2, <2>1
<1>4. InReach(c.taken, ClockId)
  BY <1>2 DEF DividerReach, InReach
<1>5. InReach(c.taken, ClockNormal)
  <2>1. c.taken <= 2046 * ClockId /\ ClockId <= ClockNormal
    BY <1>4 DEF InReach, DividerReach
  <2> QED BY <1>1, <1>3, <2>1 DEF InReach
<1> QED BY <1>1, <1>4, <1>5, ProgrammedFits, Zenon

\* A step that leaves the clock alone, and takes no card into use.
LEMMA ClockStays ==
  ASSUME ClockData, UNCHANGED clock, InUse' => InUse,
         pc' \in Identified => pc \in Identified,
         pc' \in Switched => pc \in Switched,
         pc' \in Unidentified => pc \in Unidentified
  PROVE  ClockData'
BY DEF ClockData

\* A step that stops the clock, and takes no card into use.
LEMMA ClockStopped ==
  ASSUME ClockData, clock' \in Clock, ~clock'.en, InUse' => InUse,
         pc' \notin Identified,
         pc' \in Unidentified => pc \in Unidentified
  PROVE  ClockData'
BY DEF ClockData

\* No command but ALL_SEND_CID takes a card into use.
LEMMA CommandUse ==
  ASSUME card \in CardRecord, NEW cmd, Succeeds(cmd) \/ Fails(cmd)
  PROVE  /\ InUse' => InUse \/ cmd = "ALL_SEND_CID"
         /\ cmd = "GO_IDLE_STATE" /\ ~InUse => ~InUse'
<1>1. card' = card \/ (card' = [card EXCEPT !.state = Leads(cmd)] /\ card.state \in Takes(cmd))
  BY DEF Succeeds, Fails, Accepts, Executes
<1>2. card' = card \/ card'.state = Leads(cmd)
  BY <1>1 DEF CardRecord
<1>3. /\ cmd \in {"SEND_RELATIVE_ADDR", "SELECT_CARD", "STOP_TRANSMISSION"}
           /\ card.state \in Takes(cmd) => InUse
      /\ cmd = "READ_SINGLE_BLOCK" /\ card.state \in Takes(cmd) => InUse
  BY DEF Takes, InUse
<1>4. \/ Leads(cmd) = card.state
      \/ cmd = "GO_IDLE_STATE" /\ Leads(cmd) = "idle"
      \/ cmd \in {"ALL_SEND_CID", "SEND_RELATIVE_ADDR", "SELECT_CARD", "STOP_TRANSMISSION",
                  "READ_SINGLE_BLOCK"}
  BY DEF Leads
<1> QED BY <1>1, <1>2, <1>3, <1>4 DEF InUse

\* emmc_card_init, up to the command that leaves the idle state.
LEMMA StartingClock ==
  ASSUME DividerReach, CardTyped, DriverTyped, ClockData,
         ResetController \/ StartClock \/ SwitchClock \/ VoltageSwitch
  PROVE  ClockData'
<1> USE DEF Identified, Switched, Unidentified
<1>1. clock \in Clock /\ card \in CardRecord
  BY DEF ClockData, CardTyped
<1>2. ASSUME InitFails PROVE pc' = "idle"
  BY <1>2 DEF InitFails
<1>3. CASE ResetController
  <2>1. InUse' => InUse
    BY <1>3 DEF ResetController, InUse
  <2>2. CASE clock' = ResetClock(clock)
    <3>1. clock' \in Clock /\ ~clock'.en
      BY <1>1, <2>2 DEF ResetClock, Clock
    <3>2. pc = "controller" /\ pc' \in {"clock", "idle"}
      BY <1>2, <1>3 DEF ResetController, Goto
    <3> QED BY <2>1, <3>1, <3>2, ClockStopped
  <2>3. CASE UNCHANGED clock /\ InitFails
    BY <1>2, <2>1, <2>3, ClockStays
  <2> QED BY <1>3, <2>2, <2>3 DEF ResetController
<1>4. CASE StartClock
  <2>1. InUse' = InUse /\ pc = "clock" /\ ~InUse
    BY <1>4 DEF StartClock, InUse, ClockData
  <2>2. PICK b \in BaseClock \cup {AssumedClock} :
          \/ clock' = Programmed([clock EXCEPT !.taken = b], ClockId) /\ Goto("structure")
          \/ /\ clock' = [Programmed([clock EXCEPT !.taken = b], ClockId) EXCEPT !.en = FALSE]
             /\ InitFails
    <3>1. clock.base \in BaseClock
      BY <1>1 DEF Clock
    <3>2. (IF InitFaults THEN {clock.base, AssumedClock} ELSE {clock.base})
            \subseteq BaseClock \cup {AssumedClock}
      BY <3>1
    <3> QED BY <1>4, <3>2 DEF StartClock
  <2> DEFINE slow == Programmed([clock EXCEPT !.taken = b], ClockId)
  <2>3. slow \in Clock /\ slow.en /\ HasRate(slow, ClockId)
    <3>1. [clock EXCEPT !.taken = b] \in Clock
      BY <1>1 DEF Clock
    <3> QED BY <3>1, RatesFit
  <2> HIDE DEF slow
  <2>4. CASE clock' = slow /\ Goto("structure")
    BY <2>1, <2>3, <2>4 DEF ClockData, Goto
  <2>5. CASE clock' = [slow EXCEPT !.en = FALSE] /\ InitFails
    <3>1. clock' \in Clock /\ ~clock'.en
      BY <2>3, <2>5 DEF Clock
    <3> QED BY <1>2, <2>1, <2>5, <3>1, ClockStopped
  <2> QED BY <2>2, <2>4, <2>5 DEF slow
<1>5. CASE SwitchClock
  <2>1. InUse' = InUse /\ ~InUse /\ pc' \in Switched
    BY <1>5 DEF SwitchClock, InUse, ClockData, Goto
  <2>2. clock' \in Clock /\ HasRate(clock', ClockNormal)
    BY <1>1, <1>5, RatesFit DEF SwitchClock
  <2> QED BY <2>1, <2>2 DEF ClockData
<1>6. CASE VoltageSwitch
  <2>1. (InUse' => InUse) /\ pc = "voltage"
    <3>1. Succeeds("VOLTAGE_SWITCH") \/ Fails("VOLTAGE_SWITCH")
      BY <1>6 DEF VoltageSwitch
    <3> QED BY <1>1, <1>6, <3>1, CommandUse DEF VoltageSwitch
  <2>2. CASE UNCHANGED clock /\ pc' \in {"all_send_cid", "power"}
    BY <2>1, <2>2, ClockStays
  <2>3. CASE clock' = [clock EXCEPT !.en = FALSE] /\ pc' = "power"
    <3>1. clock' \in Clock /\ ~clock'.en
      BY <1>1, <2>3 DEF Clock
    <3> QED BY <2>1, <2>3, <3>1, ClockStopped
  <2> QED BY <1>6, <2>2, <2>3 DEF VoltageSwitch, Goto
<1> QED BY <1>3, <1>4, <1>5, <1>6

\* The rest of emmc_card_init.
LEMMA InitClock ==
  ASSUME DividerReach, CardTyped, DriverTyped, ClockData, CardInit
  PROVE  ClockData'
<1> USE DEF Identified, Switched, Unidentified
<1>1. card \in CardRecord
  BY DEF CardTyped
<1>2. ASSUME InitFails PROVE pc' = "idle"
  BY <1>2 DEF InitFails
<1>3. ASSUME NEW cmd, cmd # "ALL_SEND_CID", Succeeds(cmd) \/ Fails(cmd)
      PROVE  InUse' => InUse
  BY <1>1, <1>3, CommandUse
<1>4. CASE PowerCycle /\ UNCHANGED clock
  <2>1. CASE /\ card' = [card EXCEPT !.state = "idle", !.busy = TRUE, !.sends = -1, !.size = 0]
             /\ Goto("controller")
    <3>1. ~InUse' /\ pc' = "controller"
      BY <1>1, <2>1 DEF Goto, CardRecord, InUse
    <3> QED BY <1>4, <3>1 DEF ClockData
  <2>2. CASE card' \in {card, PoweredOff} /\ InitFails
    <3>1. InUse' => InUse
      BY <1>1, <2>2, PowerOffTyped DEF InUse
    <3> QED BY <1>2, <1>4, <2>2, <3>1, ClockStays
  <2> QED BY <1>4, <2>1, <2>2 DEF PowerCycle
<1>5. CASE (PrepareDevice \/ GoIdle \/ IfCond \/ OpCond \/ SendOpCond) /\ UNCHANGED clock
  <2>1. pc \in Identified
    BY <1>5 DEF PrepareDevice, GoIdle, IfCond, OpCond, SendOpCond
  <2>2. pc' \in (Identified \ {"structure"}) \cup {"switch_clock", "idle"}
    BY <1>2, <1>5 DEF PrepareDevice, GoIdle, IfCond, OpCond, SendOpCond, Goto
  <2>3. InUse' => InUse
    <3>1. CASE PrepareDevice \/ OpCond
      BY <3>1 DEF PrepareDevice, OpCond, InUse
    <3>2. CASE GoIdle \/ IfCond
      BY <1>3, <3>2 DEF GoIdle, IfCond
    <3>3. CASE SendOpCond
      <4>1. \/ Fails("ACMD41") \/ card' = card \/ card' = [card EXCEPT !.state = "ready"]
        BY <3>3 DEF SendOpCond
      <4>2. CASE card' = [card EXCEPT !.state = "ready"]
        BY <1>1, <4>2 DEF CardRecord, InUse
      <4> QED BY <1>3, <4>1, <4>2 DEF InUse
    <3> QED BY <1>5, <3>1, <3>2, <3>3
  <2> QED BY <1>5, <2>1, <2>2, <2>3, ClockStays
<1>6. CASE AllSendCid /\ UNCHANGED clock
  <2>1. pc = "all_send_cid" /\ pc' \in {"relative", "idle"}
    BY <1>2, <1>6 DEF AllSendCid, Goto
  <2> QED BY <1>6, <2>1 DEF ClockData
<1>7. CASE /\ \/ SendRelativeAddr \/ SelectCard \/ SetBlocklen \/ StartScr \/ SendScr
              \/ InitReturns
           /\ UNCHANGED clock
  <2>1. InUse' => InUse
    <3>1. CASE StartScr
      BY <3>1 DEF StartScr, InUse
    <3> QED BY <1>3, <1>7, <3>1 DEF SendRelativeAddr, SelectCard, SetBlocklen, SendScr,
                                    InitReturns
  <2>2. CASE InitReturns
    <3>1. pc' \in {"idle", "status", "recheck"}
      BY <2>2 DEF InitReturns, DriverTyped
    <3> QED BY <1>7, <2>1, <3>1, ClockStays
  <2>3. CASE SendRelativeAddr \/ SelectCard \/ SetBlocklen \/ StartScr \/ SendScr
    <3>1. pc' \notin Unidentified
      BY <1>2, <2>3 DEF SendRelativeAddr, SelectCard, SetBlocklen, StartScr, SendScr, Goto
    <3> QED BY <1>7, <2>1, <3>1, ClockStays
  <2> QED BY <1>7, <2>2, <2>3
<1> QED BY <1>4, <1>5, <1>6, <1>7, StartingClock DEF CardInit

\* sd_read and emmc_read, the card and the rest.
LEMMA ReadClock ==
  ASSUME CardTyped, DriverTyped, ClockData,
         \/ EmmcInit \/ SdRead \/ EmmcRead \/ Abandon
         \/ CardSends \/ CardPowersUp \/ CardUpset \/ Undefined \/ UNCHANGED vars
  PROVE  ClockData'
<1> USE DEF Identified, Switched, Unidentified
<1>1. card \in CardRecord
  BY DEF CardTyped
<1>2. CASE UNCHANGED clock /\ (InUse' => InUse) /\ (pc' = pc \/ pc' \notin Unidentified)
  BY <1>2, ClockStays
<1>3. CASE EmmcInit \/ SdRead \/ ((DataMode \/ NextBlock) /\ UNCHANGED clock)
  BY <1>2, <1>3 DEF EmmcInit, SdRead, DataMode, NextBlock, InUse
<1>4. CASE Abandon
  <2>1. pc' = "idle" /\ clock' \in {clock, [clock EXCEPT !.en = FALSE]}
    BY <1>4 DEF Abandon
  <2>2. InUse' => InUse
    BY <1>1, <1>4, PowerOffTyped DEF Abandon, InUse
  <2>3. CASE clock' = [clock EXCEPT !.en = FALSE]
    <3>1. clock' \in Clock /\ ~clock'.en
      BY <2>3 DEF ClockData, Clock
    <3> QED BY <2>1, <2>2, <3>1, ClockStopped
  <2> QED BY <1>2, <2>1, <2>2, <2>3
<1>5. CASE (SendStatus \/ Reselect \/ StopTransmission \/ Recheck) /\ UNCHANGED clock
  <2>1. \A s : StatusLeadsTo(s) \notin Unidentified
    BY DEF StatusLeadsTo
  <2>2. pc' \notin Unidentified
    BY <1>5, <2>1 DEF SendStatus, Reselect, StopTransmission, Recheck, Goto, Refuse
  <2>3. InUse' => InUse
    <3>1. CASE \E cmd : cmd # "ALL_SEND_CID" /\ (Succeeds(cmd) \/ Fails(cmd))
      BY <1>1, <3>1, CommandUse
    <3>2. CASE StopTransmission /\ Accepts("STOP_TRANSMISSION")
      BY <3>2 DEF Accepts, Takes, InUse
    <3> QED BY <1>5, <3>1, <3>2 DEF SendStatus, Reselect, StopTransmission, Recheck
  <2> QED BY <1>2, <1>5, <2>2, <2>3
<1>6. CASE (ResetCircuit \/ DataCommand \/ Attempt) /\ UNCHANGED clock
  BY <1>2, <1>6 DEF ResetCircuit, DataCommand, Attempt, Goto, Refuse, InUse
<1>7. CASE (Issue \/ Transfer \/ Copy) /\ UNCHANGED clock
  <2>1. pc' \notin Unidentified
    BY <1>7 DEF Issue, Transfer, Copy, Retry, Refuse, Goto
  <2>2. InUse' => InUse
    <3>1. CASE card' = card
      BY <3>1 DEF InUse
    <3>2. CASE Accepts("READ_SINGLE_BLOCK")
      BY <3>2 DEF Accepts, Takes, InUse
    <3> QED BY <1>7, <3>1, <3>2 DEF Issue, Transfer, Copy
  <2> QED BY <1>2, <1>7, <2>1, <2>2
<1>8. CASE BusyWait \/ CardPowersUp \/ CardUpset \/ CardSends \/ Undefined \/ UNCHANGED vars
  <2>1. UNCHANGED <<clock, pc>>
    BY <1>8 DEF BusyWait, CardSends, CardPowersUp, CardUpset, Undefined, vars, driverVars
  <2>2. InUse' => InUse
    <3>1. CASE CardSends \/ CardUpset
      BY <3>1 DEF CardSends, CardUpset, InUse
    <3>2. CASE CardPowersUp
      BY <1>1, <3>2 DEF CardPowersUp, CardRecord, InUse
    <3> QED BY <1>8, <3>1, <3>2 DEF BusyWait, Undefined, vars, InUse
  <2> QED BY <1>2, <2>1, <2>2
<1> QED BY <1>3, <1>4, <1>5, <1>6, <1>7, <1>8 DEF EmmcRead

\* The clock, and the types, hold from the start and through every step.
LEMMA ClockInvariant ==
  ASSUME DividerReach PROVE Spec => [](Typed /\ ClockData)
<1> DEFINE CInv == Typed /\ ClockData
<1>1. Init => CInv
  <2> SUFFICES ASSUME Init PROVE CInv
    OBVIOUS
  <2>1. PICK base \in BaseClock :
          clock = ResetClock([base |-> base, taken |-> base])
    BY DEF Init
  <2>2. clock \in Clock /\ ~clock.en
    BY <2>1 DEF ResetClock, Clock
  <2>3. pc = "boot"
    BY DEF Init
  <2>4. ClockData
    BY <2>2, <2>3 DEF ClockData, Identified, Switched, Unidentified
  <2> QED BY <2>4, InitTyped
<1>2. CInv /\ [Next]_vars => CInv'
  <2> SUFFICES ASSUME CInv, [Next]_vars PROVE CInv'
    OBVIOUS
  <2>1. Typed'
    BY TypedStep
  <2>2. CardTyped /\ DriverTyped
    BY DEF Typed
  <2>3. ClockData'
    BY <2>2, InitClock, ReadClock DEF Next
  <2> QED BY <2>1, <2>3
<1> QED BY <1>1, <1>2, PTL DEF Spec

(***************************************************************************)
(* The types of the card, the controller, the clock and the driver.        *)
(***************************************************************************)
THEOREM EmmcTyped == ASSUME DividerReach PROVE Spec => []TypeOK
<1>1. Typed /\ ClockData => TypeOK
  <2> SUFFICES ASSUME Typed, ClockData PROVE TypeOK
    OBVIOUS
  <2>1. /\ {host.armed, host.ready, host.dirty} \subseteq BOOLEAN
        /\ host.fifo \in Seq(Nat \X Nat) /\ Len(host.fifo) <= 2 * Units
    BY DEF Typed, CardTyped, HostRecord, Piece
  <2> QED BY <2>1 DEF TypeOK, Typed, CardTyped, DriverTyped, ClockData, CardRecord,
                      DevRecord, ReadRecord, Piece
<1> QED BY <1>1, ClockInvariant, PTL

(***************************************************************************)
(* The clock fits the card, through every initialisation that fails or is  *)
(* abandoned.                                                              *)
(***************************************************************************)
THEOREM ClockIsFit == ASSUME DividerReach PROVE Spec => []ClockFits
<1>1. Typed /\ ClockData => ClockFits
  BY DEF ClockData, ClockFits, Identified
<1> QED BY <1>1, ClockInvariant, PTL

-----------------------------------------------------------------------------
(* The promise of BlockDevice.                                              *)

\* The unit a position of the contents stands for.
LEMMA UnitAt ==
  ASSUME NEW U \in Nat \ {0}, NEW n \in Nat, NEW r \in 0 .. U - 1
  PROVE  (n * U + r) \div U = n /\ (n * U + r) % U = r
OBVIOUS

\* A function on the first m positions is a sequence.
LEMMA FunctionIsSeq ==
  ASSUME NEW m \in Nat, NEW f \in [1 .. m -> Piece]
  PROVE  f \in Seq(Piece) /\ Len(f) = m
<1> HIDE DEF Piece
<1> QED OBVIOUS

UnitsFrom(first, m) ==
  [i \in 1 .. m |-> <<first + (i - 1) \div Units, (i - 1) % Units>>]

\* The contents of m units are a sequence of units.
LEMMA UnitsAreSeq ==
  ASSUME NEW first \in Nat, NEW m \in Nat
  PROVE  /\ UnitsFrom(first, m) \in Seq(Piece) /\ Len(UnitsFrom(first, m)) = m
         /\ \A i \in 1 .. m :
              UnitsFrom(first, m)[i] = <<first + (i - 1) \div Units, (i - 1) % Units>>
<1>1. ASSUME NEW i \in 1 .. m
      PROVE  <<first + (i - 1) \div Units, (i - 1) % Units>> \in Piece
  <2>1. (i - 1) \div Units \in Nat /\ (i - 1) % Units \in Nat
    BY CountAssumption
  <2> QED BY <2>1 DEF Piece
<1>2. UnitsFrom(first, m) \in [1 .. m -> Piece]
  BY <1>1 DEF UnitsFrom
<1>3. \A i \in 1 .. m :
        UnitsFrom(first, m)[i] = <<first + (i - 1) \div Units, (i - 1) % Units>>
  BY DEF UnitsFrom
<1> QED BY <1>2, <1>3, FunctionIsSeq

\* One more block of the contents.
LEMMA ContentsGrow ==
  ASSUME NEW first \in Nat, NEW k \in Nat
  PROVE  /\ Promise!Contents(first, 0) = <<>>
         /\ Promise!Contents(first, k) \o BlockHead(first + k, Units)
              = Promise!Contents(first, k + 1)
<1> DEFINE a == Promise!Contents(first, k)
           b == BlockHead(first + k, Units)
           c == Promise!Contents(first, k + 1)
           n == k * Units
<1>1. n \in Nat /\ (k + 1) * Units = n + Units /\ Units \in Nat \ {0}
  BY CountAssumption
<1>2. a = UnitsFrom(first, n)
  BY DEF Promise!Contents, UnitsFrom
<1>3. c = UnitsFrom(first, n + Units)
  BY <1>1 DEF Promise!Contents, UnitsFrom
<1>4. b = [i \in 1 .. Units |-> <<first + k, i - 1>>]
  BY DEF BlockHead
<1>5. a \in Seq(Piece) /\ Len(a) = n
      /\ \A i \in 1 .. n : a[i] = <<first + (i - 1) \div Units, (i - 1) % Units>>
  <2> HIDE DEF a, n
  <2> QED BY <1>1, <1>2, UnitsAreSeq
<1>6. c \in Seq(Piece) /\ Len(c) = n + Units
      /\ \A i \in 1 .. n + Units : c[i] = <<first + (i - 1) \div Units, (i - 1) % Units>>
  <2> HIDE DEF c, n
  <2>1. PICK m \in Nat : m = n + Units
    BY <1>1
  <2>2. c = UnitsFrom(first, m)
    BY <1>3, <2>1
  <2>3. /\ c \in Seq(Piece) /\ Len(c) = m
        /\ \A i \in 1 .. m : c[i] = <<first + (i - 1) \div Units, (i - 1) % Units>>
    BY <2>2, UnitsAreSeq
  <2> QED BY <2>1, <2>3
<1>7. b \in Seq(Piece) /\ Len(b) = Units /\ \A i \in 1 .. Units : b[i] = <<first + k, i - 1>>
  <2> HIDE DEF b
  <2>1. \A i \in 1 .. Units : <<first + k, i - 1>> \in Piece
    BY <1>1 DEF Piece
  <2>2. b \in [1 .. Units -> Piece]
    BY <1>4, <2>1
  <2>3. b \in Seq(Piece) /\ Len(b) = Units
    BY <1>1, <2>2, FunctionIsSeq
  <2> QED BY <1>4, <2>3
<1>8. \A j \in 1 .. Units : (n + j - 1) \div Units = k /\ (n + j - 1) % Units = j - 1
  <2> TAKE j \in 1 .. Units
  <2>1. j - 1 \in 0 .. Units - 1 /\ n + j - 1 = n + (j - 1)
    BY <1>1
  <2> QED BY <1>1, <2>1, UnitAt
<1> HIDE DEF a, b, c, n
<1>9. /\ a \o b \in Seq(Piece) /\ Len(a \o b) = n + Units
      /\ \A i \in 1 .. n + Units : (a \o b)[i] = IF i <= n THEN a[i] ELSE b[i - n]
  BY <1>1, <1>5, <1>7, ConcatProperties
<1>10. \A i \in 1 .. n + Units : (a \o b)[i] = c[i]
  <2> TAKE i \in 1 .. n + Units
  <2>1. CASE i <= n
    <3>1. i \in 1 .. n
      BY <1>1, <2>1
    <3> QED BY <1>5, <1>6, <1>9, <2>1, <3>1
  <2>2. CASE ~(i <= n)
    <3>1. i - n \in 1 .. Units /\ n + (i - n) - 1 = i - 1
      BY <1>1, <2>2
    <3>2. (i - 1) \div Units = k /\ (i - 1) % Units = (i - n) - 1
      BY <1>8, <3>1
    <3>3. b[i - n] = <<first + k, (i - n) - 1>>
      BY <1>7, <3>1
    <3> QED BY <1>6, <1>9, <2>2, <3>2, <3>3
  <2> QED BY <2>1, <2>2
<1>11. a \o b = c
  BY <1>6, <1>9, <1>10, SeqEqual
<1>12. Promise!Contents(first, 0) = <<>>
  <2>1. 1 .. 0 * Units = {}
    BY <1>1
  <2> QED BY <2>1 DEF Promise!Contents
<1> QED BY <1>11, <1>12 DEF a, b, c

\* block_size at each label: nothing after memset, that of the SCR while it is
\* read, and the size of a block when blocks are read.
SizeAt(l) ==
  IF l \in Trying \cup {"next_block", "bus_width"} THEN {Units}
  ELSE IF l = "scr" THEN {0, 1}
  ELSE IF l \in Preparing \ {"clock", "structure"} THEN {0}
  ELSE {0, Units}

Sizes == dev.size \in SizeAt(pc)

\* The read in progress has copied the first k of its blocks.
Progress ==
  read # None /\ pc # "undefined" =>
    \E k \in 0 .. read.count - 1 :
      /\ read.block = read.first + k
      /\ read.left = (read.count - k) * Units
      /\ buf = Promise!Contents(read.first, IF pc = "next_block" THEN k + 1 ELSE k)

\* Nothing is answered before emmc_init has returned.
Unanswered ==
  pc \in {"boot"} \cup Initialising /\ read = None => result = "none" /\ buf = <<>>

\* A step that keeps the block size.
LEMMA SizeStays ==
  ASSUME Sizes, dev'.size = dev.size, SizeAt(pc) \subseteq SizeAt(pc')
  PROVE  Sizes'
BY DEF Sizes

\* The block size, through the initialisation.
LEMMA InitSizes ==
  ASSUME DriverTyped, Sizes, EmmcInit \/ CardInit
  PROVE  Sizes'
<1> USE DEF SizeAt, Preparing, Trying
<1>1. dev \in DevRecord
  BY DEF DriverTyped
<1>2. ASSUME InitFails, pc \in Initialising \ {"bus_width"} PROVE Sizes'
  <2>1. dev'.size = (IF pc = "scr" THEN Units ELSE dev.size) /\ pc' = "idle"
    BY <1>1, <1>2 DEF InitFails, DevRecord
  <2> QED BY <1>2, <2>1 DEF Sizes, Initialising
<1>3. CASE EmmcInit
  BY <1>3, SizeStays DEF EmmcInit
<1>4. CASE PowerCycle
  <2>1. CASE Goto("controller")
    BY <1>4, <2>1, SizeStays DEF PowerCycle, Goto
  <2> QED BY <1>2, <1>4, <2>1 DEF PowerCycle, Initialising
<1>5. CASE ResetController \/ StartClock
  <2>1. CASE Goto("clock") \/ Goto("structure")
    BY <1>5, <2>1, SizeStays DEF ResetController, StartClock, Goto
  <2> QED BY <1>2, <1>5, <2>1 DEF ResetController, StartClock, Initialising
<1>13. CASE PrepareDevice
  BY <1>13 DEF PrepareDevice, Sizes, Cleared, Dead
<1>14. CASE SwitchClock
  <2>1. pc = "switch_clock" /\ dev' = dev /\ pc' \in {"voltage", "all_send_cid"}
    BY <1>14 DEF SwitchClock, Goto
  <2> QED BY <2>1, SizeStays
<1>6. CASE GoIdle \/ IfCond \/ OpCond \/ AllSendCid \/ SelectCard \/ SetBlocklen
  <2>1. CASE UNCHANGED dev /\ \/ pc = "go_idle" /\ pc' = "if_cond"
                              \/ pc = "if_cond" /\ pc' = "op_cond"
                              \/ pc = "op_cond" /\ pc' = "send_op_cond"
                              \/ pc = "all_send_cid" /\ pc' = "relative"
                              \/ pc = "select" /\ pc' \in {"scr", "blocklen"}
                              \/ pc = "blocklen" /\ pc' = "scr"
    BY <2>1, SizeStays
  <2> QED BY <1>2, <1>6, <2>1 DEF GoIdle, IfCond, OpCond, AllSendCid, SelectCard,
                                  SetBlocklen, Goto, Initialising
<1>7. CASE SendOpCond
  <2>1. CASE Goto("send_op_cond")
    BY <1>7, <2>1, SizeStays DEF SendOpCond, Goto
  <2>2. CASE /\ dev' = [dev EXCEPT !.sdhc = HighCapacity,
                                   !.v18 = (Asks18v /\ card.kind = "uhs")]
             /\ pc' = "switch_clock"
    <3>1. dev'.size = dev.size /\ pc' = "switch_clock"
      BY <1>1, <2>2 DEF DevRecord
    <3> QED BY <1>7, <3>1, SizeStays DEF SendOpCond
  <2> QED BY <1>2, <1>7, <2>1, <2>2 DEF SendOpCond, Initialising
<1>8. CASE VoltageSwitch
  <2>1. dev'.size = dev.size /\ pc' \in {"all_send_cid", "power"}
    BY <1>1, <1>8 DEF VoltageSwitch, Goto, DevRecord
  <2> QED BY <1>8, <2>1, SizeStays DEF VoltageSwitch
<1>9. CASE SendRelativeAddr
  <2>1. CASE dev' = [dev EXCEPT !.rca = TRUE] /\ pc' = "select"
    <3>1. dev'.size = dev.size
      BY <1>1, <2>1 DEF DevRecord
    <3> QED BY <1>9, <2>1, <3>1, SizeStays DEF SendRelativeAddr
  <2> QED BY <1>2, <1>9, <2>1 DEF SendRelativeAddr, Initialising
<1>10. CASE StartScr
  <2>1. dev'.size = 1 /\ pc' = "scr"
    BY <1>1, <1>10 DEF StartScr, DevRecord
  <2> QED BY <2>1 DEF Sizes
<1>11. CASE SendScr
  <2>1. CASE dev' = [dev EXCEPT !.size = Units] /\ pc' = "bus_width"
    <3>1. dev'.size = Units
      BY <1>1, <2>1 DEF DevRecord
    <3> QED BY <2>1, <3>1 DEF Sizes
  <2> QED BY <1>2, <1>11, <2>1 DEF SendScr, Initialising
<1>12. CASE InitReturns
  <2>1. pc = "bus_width" /\ dev' = dev /\ pc' \in {"idle", "status", "recheck"}
    BY <1>12 DEF InitReturns, DriverTyped
  <2> QED BY <2>1, SizeStays
<1> QED BY <1>3, <1>4, <1>5, <1>6, <1>7, <1>8, <1>9, <1>10, <1>11, <1>12, <1>13, <1>14
        DEF CardInit

\* The block size, through reads that are not abandoned.
LEMMA ReadSizes ==
  ASSUME DriverTyped, Sizes,
         \/ SdRead \/ EmmcRead
         \/ CardSends \/ CardPowersUp \/ CardUpset \/ Undefined \/ UNCHANGED vars
  PROVE  Sizes'
<1> USE DEF SizeAt, Preparing, Trying
<1>1. dev \in DevRecord
  BY DEF DriverTyped
<1>2. ASSUME \E rca \in BOOLEAN : Refuse(rca), pc \in Reading PROVE Sizes'
  <2>1. dev'.size = dev.size /\ pc' = "idle"
    BY <1>1, <1>2 DEF Refuse, DevRecord
  <2> QED BY <1>2, <2>1, SizeStays DEF Reading
<1>3. CASE UNCHANGED dev /\ SizeAt(pc) \subseteq SizeAt(pc')
  BY <1>3, SizeStays
<1>4. CASE SdRead
  BY <1>3, <1>4 DEF SdRead
<1>5. CASE DataMode
  BY <1>3, <1>5 DEF DataMode
<1>6. CASE SendStatus
  <2>1. \A s : StatusLeadsTo(s) \in {"reselect", "stop", "command", "power"}
    BY DEF StatusLeadsTo
  <2> QED BY <1>2, <1>3, <1>6, <2>1 DEF SendStatus, Reading
<1>7. CASE Reselect \/ StopTransmission \/ ResetCircuit \/ Recheck
  BY <1>2, <1>3, <1>7 DEF Reselect, StopTransmission, ResetCircuit, Recheck, Goto, Reading
<1>8. CASE DataCommand
  <2>1. dev.rca \in BOOLEAN
    BY <1>1 DEF DevRecord
  <2>2. CASE dev.size # 0 /\ Goto("attempt")
    <3>1. dev.size = Units
      BY <1>8, <2>2 DEF DataCommand, Sizes
    <3> QED BY <2>2, <3>1 DEF Sizes, Goto
  <2>3. CASE Goto("undefined")
    BY <1>3, <1>8, <2>3 DEF DataCommand, Goto
  <2> QED BY <1>2, <1>8, <2>1, <2>2, <2>3 DEF DataCommand, Reading
<1>9. CASE Attempt
  BY <1>3, <1>9 DEF Attempt, Goto
<1>10. CASE Issue \/ Transfer \/ Copy
  <2>1. pc \in Trying
    BY <1>10 DEF Issue, Transfer, Copy
  <2>2. CASE Retry
    BY <1>2, <1>3, <2>1, <2>2 DEF Retry, Reading
  <2>3. CASE UNCHANGED dev /\ pc' \in {"transfer", "copy", "next_block"}
    BY <1>3, <2>1, <2>3
  <2> QED BY <1>10, <2>2, <2>3 DEF Issue, Transfer, Copy, Goto
<1>11. CASE NextBlock
  <2>1. pc = "next_block" /\ dev' = dev /\ pc' \in {"mode", "idle"}
    BY <1>11 DEF NextBlock
  <2> QED BY <1>3, <2>1
<1>12. CASE \/ BusyWait \/ CardSends \/ CardPowersUp \/ CardUpset \/ Undefined
            \/ UNCHANGED vars
  <2>1. UNCHANGED <<dev, pc>>
    BY <1>12 DEF BusyWait, CardSends, CardPowersUp, CardUpset, Undefined, vars, driverVars
  <2> QED BY <1>3, <2>1
<1> QED BY <1>4, <1>5, <1>6, <1>7, <1>8, <1>9, <1>10, <1>11, <1>12 DEF EmmcRead

\* When no read is abandoned and no flag is lost, the circuit is never unclean,
\* and what a transfer has received is one block.
Clean ==
  /\ ~host.dirty
  /\ pc = "issue" => ~host.ready
  /\ pc = "transfer" /\ host.ready => ~host.armed /\ Len(host.fifo) = dev.size

\* A transfer and its end.
LEMMA CleanTransfer ==
  ASSUME ~FlagRaces, DInv, Clean, Attempt \/ Issue \/ Transfer \/ Copy \/ CardSends
  PROVE  Clean'
<1>1. CardTyped /\ DriverTyped /\ Sending /\ host \in HostRecord /\ Data
  BY DEF DInv, Typed, CardTyped, Clean
<1>2. CASE Retry /\ ~host'.dirty
  BY <1>2 DEF Retry, Refuse, Clean
<1>3. CASE Attempt
  <2>1. ~host'.ready /\ ~host'.dirty /\ pc' = "issue"
    BY <1>1, <1>3, InterruptsHandled, IdleTyped DEF Attempt, Goto, Clean, CardTyped, HostTyped
  <2> QED BY <2>1 DEF Clean
<1>4. CASE Issue
  <2>1. pc = "issue" /\ ~host.ready
    BY <1>4 DEF Issue, Clean
  <2>2. CASE host' = [host EXCEPT !.armed = TRUE] /\ Goto("transfer")
    <3>1. pc' = "transfer" /\ ~host'.ready /\ ~host'.dirty
      BY <1>1, <2>1, <2>2 DEF Goto, Clean, HostRecord
    <3> QED BY <3>1 DEF Clean
  <2> QED BY <1>2, <1>4, <2>2 DEF Issue, Clean
<1>5. CASE Transfer
  <2>1. CASE /\ host.ready /\ Goto("copy")
             /\ host' = [host EXCEPT !.ready = FALSE,
                                     !.dirty = @ \/ Len(host.fifo) > dev.size]
    <3>1. Len(host.fifo) = dev.size /\ dev.size \in Nat
      BY <1>1, <1>5, <2>1, CountAssumption DEF Transfer, Clean, DriverTyped, DevRecord
    <3>2. ~(Len(host.fifo) > dev.size)
      BY <3>1
    <3>3. host'.dirty = (host.dirty \/ Len(host.fifo) > dev.size)
      BY <1>1, <2>1 DEF HostRecord
    <3> QED BY <2>1, <3>2, <3>3 DEF Clean, Goto
  <2> QED BY <1>2, <1>5, <2>1 DEF Transfer, Clean
<1>6. CASE Copy
  <2>1. ~host'.dirty
    BY <1>1, <1>6 DEF Copy, Clean, HostRecord
  <2> QED BY <1>2, <1>6, <2>1 DEF Copy, Clean
<1>7. CASE CardSends
  <2> DEFINE data == [i \in 1 .. card.size |-> <<card.sends, i - 1>>]
  <2>1. UNCHANGED <<dev, pc>> /\ pc # "issue"
    BY <1>7 DEF CardSends, driverVars
  <2>2. CASE host' = host
    BY <2>1, <2>2 DEF Clean
  <2>3. CASE /\ host.armed
             /\ host' = [host EXCEPT !.armed = FALSE, !.ready = TRUE, !.fifo = @ \o data]
    <3>1. ~host'.armed /\ ~host'.dirty /\ host'.fifo = host.fifo \o data
      <4> HIDE DEF data
      <4> QED BY <1>1, <2>3 DEF Clean, HostRecord
    <3>2. CASE pc = "transfer"
      <4>1. host.fifo = <<>>
        BY <1>1, <2>3, <3>2 DEF Clean, Data, FifoFlagged
      <4>2. card.size = dev.size /\ dev.size \in Nat /\ card.sends \in Nat
        BY <1>1, <1>7, <3>2, BlocksAssumption, CountAssumption
        DEF CardSends, Sending, Trying, CardTyped, DriverTyped, DevRecord
      <4>3. data \in Seq(Piece) /\ Len(data) = dev.size
        BY <4>2 DEF Piece
      <4> HIDE DEF data
      <4>4. Len(host'.fifo) = dev.size
        BY <3>1, <4>1, <4>3
      <4> QED BY <2>1, <3>1, <4>4 DEF Clean
    <3> QED BY <2>1, <3>1, <3>2 DEF Clean
  <2> QED BY <1>7, <2>2, <2>3 DEF CardSends
<1> QED BY <1>3, <1>4, <1>5, <1>6, <1>7

\* Every step, when no read is abandoned and no flag is lost.
LEMMA CleanStep ==
  ASSUME ~Abandonable, ~FlagRaces, DInv, Clean, [Next]_vars
  PROVE  Clean'
<1>1. CardTyped /\ DriverTyped
  BY DEF DInv, Typed
<1>2. ASSUME host' \in {host, IdleHost}, pc' \notin {"issue", "transfer"}
      PROVE  Clean'
  BY <1>2, IdleTyped DEF Clean
<1>3. ASSUME HandleInterrupts PROVE host' \in {host, IdleHost}
  BY <1>1, <1>3, InterruptsHandled DEF CardTyped, HostTyped
<1>4. ASSUME NEW cmd, Succeeds(cmd) \/ Fails(cmd) PROVE host' \in {host, IdleHost}
  BY <1>3, <1>4 DEF Succeeds, Fails
<1>5. CASE EmmcInit \/ CardInit
  <2>1. CASE EmmcInit \/ PowerCycle \/ ResetController \/ StartClock \/ PrepareDevice
    BY <1>2, <2>1 DEF EmmcInit, PowerCycle, ResetController, StartClock, PrepareDevice,
                      Goto, InitFails
  <2>2. CASE GoIdle \/ IfCond \/ AllSendCid \/ SendRelativeAddr
    BY <1>2, <1>4, <2>2 DEF GoIdle, IfCond, AllSendCid, SendRelativeAddr, Goto, InitFails
  <2>3. CASE SelectCard \/ SetBlocklen \/ SendScr
    BY <1>2, <1>4, <2>3 DEF SelectCard, SetBlocklen, SendScr, Goto, InitFails
  <2>4. CASE OpCond \/ SendOpCond
    BY <1>2, <1>3, <1>4, <2>4 DEF OpCond, SendOpCond, Goto, InitFails
  <2>5. CASE SwitchClock \/ VoltageSwitch \/ StartScr
    BY <1>2, <1>4, <2>5 DEF SwitchClock, VoltageSwitch, StartScr, Goto
  <2>6. CASE InitReturns
    <3>1. pc' \in {"idle", "status", "recheck"}
      BY <1>1, <2>6 DEF InitReturns, DriverTyped
    <3> QED BY <1>2, <1>4, <2>6, <3>1 DEF InitReturns
  <2> QED BY <1>5, <2>1, <2>2, <2>3, <2>4, <2>5, <2>6 DEF CardInit
<1>6. CASE SdRead \/ DataMode \/ ResetCircuit \/ DataCommand \/ NextBlock
  BY <1>2, <1>6 DEF SdRead, DataMode, ResetCircuit, ResetDat, DataCommand, NextBlock,
                    Goto, Refuse
<1>7. CASE SendStatus \/ Reselect \/ StopTransmission \/ Recheck
  <2>1. \A s : StatusLeadsTo(s) \notin {"issue", "transfer"}
    BY DEF StatusLeadsTo
  <2>2. pc' \notin {"issue", "transfer"}
    BY <1>7, <2>1 DEF SendStatus, Reselect, StopTransmission, Recheck, Goto, Refuse
  <2>3. host' \in {host, IdleHost}
    BY <1>3, <1>4, <1>7 DEF SendStatus, Reselect, StopTransmission, Recheck
  <2> QED BY <1>2, <2>2, <2>3
<1>8. CASE \/ BusyWait \/ CardPowersUp \/ CardUpset \/ Undefined \/ UNCHANGED vars
  <2>1. UNCHANGED <<host, dev, pc>>
    BY <1>8 DEF BusyWait, CardPowersUp, CardUpset, Undefined, vars, driverVars
  <2> QED BY <2>1 DEF Clean
<1>9. CASE Attempt \/ Issue \/ Transfer \/ Copy \/ CardSends
  BY <1>9, CleanTransfer
<1> QED BY <1>5, <1>6, <1>7, <1>8, <1>9 DEF Next, EmmcRead, Abandon

PInv == DInv /\ Clean /\ Sizes /\ Progress /\ Unanswered

\* What a step makes of the read in progress and of the answer.
Outcome ==
  \/ UNCHANGED <<read, result, buf>>
  \/ read = None /\ read' \in ReadRecord /\ read' # None
  \/ /\ read # None /\ read' # None
     /\ read'.first = read.first /\ read'.count = read.count
  \/ read # None /\ read' = None /\ result' = "error"
  \/ /\ read # None /\ read' = None /\ result' = "ok"
     /\ buf' = Promise!Contents(read.first, read.count)
  \/ InitFaults /\ read = None /\ read' = None /\ result' = "error"
  \/ /\ read = None /\ read' = None /\ result = "none" /\ result' = "ok"
     /\ buf = <<>> /\ buf' = <<>>

\* A step that copies nothing.
LEMMA NothingCopied ==
  ASSUME PInv, UNCHANGED <<read, buf, result>>,
         pc # "undefined" \/ pc' = "undefined",
         pc \in Reading \/ pc \in {"boot"} \cup Initialising
                        \/ pc' \notin {"boot"} \cup Initialising,
         pc = "next_block" <=> pc' = "next_block"
  PROVE  Progress' /\ Unanswered' /\ Outcome
<1>1. Progress'
  BY DEF PInv, Progress
<1>2. Unanswered'
  BY DEF PInv, Unanswered, DInv, Typed, DriverTyped
<1> QED BY <1>1, <1>2 DEF Outcome

\* The end of a read, or of an initialisation, with an error.
LEMMA FailsUncopied ==
  ASSUME InitFails \/ (read # None /\ \E rca \in BOOLEAN : Refuse(rca))
  PROVE  Progress' /\ Unanswered' /\ Outcome
<1>1. read' = None /\ pc' = "idle" /\ result' = "error" /\ (read # None \/ InitFaults)
  BY DEF InitFails, Refuse
<1> QED BY <1>1 DEF Progress, Unanswered, Outcome, Initialising, Preparing

\* A failed attempt.
LEMMA RetryUncopied ==
  ASSUME PInv, pc \in Trying, Retry
  PROVE  Progress' /\ Unanswered' /\ Outcome
<1>1. read \in ReadRecord /\ read # None
  BY DEF PInv, DInv, Typed, DriverTyped, Reading
<1>2. CASE read.tries + 1 < MaxRetries
  <2>1. /\ read' = [read EXCEPT !.tries = @ + 1] /\ pc' = "attempt" /\ buf' = buf
    BY <1>2 DEF Retry
  <2>2. /\ read'.first = read.first /\ read'.count = read.count
        /\ read'.block = read.block /\ read'.left = read.left
    BY <1>1, <2>1 DEF ReadRecord
  <2>3. read' # None
    <3>1. read'.block # -1
      BY <1>1, <2>2 DEF ReadRecord
    <3> QED BY <3>1 DEF None
  <2>4. Progress'
    BY <1>1, <2>1, <2>2 DEF PInv, Progress, Trying
  <2>5. Unanswered' /\ Outcome
    BY <1>1, <2>2, <2>3 DEF Unanswered, Outcome
  <2> QED BY <2>4, <2>5
<1>3. CASE ~(read.tries + 1 < MaxRetries)
  BY <1>1, <1>3, FailsUncopied DEF Retry
<1> QED BY <1>2, <1>3

\* The initialisation copies nothing.
LEMMA InitOutcome ==
  ASSUME PInv, EmmcInit \/ CardInit
  PROVE  Progress' /\ Unanswered' /\ Outcome
<1> USE DEF Initialising, Preparing, Reading, Trying
<1>1. CASE InitFails
  BY <1>1, FailsUncopied
<1>2. CASE /\ UNCHANGED <<read, buf, result>> /\ pc \in {"boot"} \cup Initialising
           /\ pc' \notin {"next_block", "undefined"}
  BY <1>2, NothingCopied
<1>3. CASE InitReturns
  <2>1. /\ UNCHANGED <<read, buf>> /\ pc = "bus_width"
        /\ pc' \in {"idle", "status", "recheck"}
        /\ result' = IF caller = "emmc_init" THEN "ok" ELSE result
    BY <1>3 DEF InitReturns, PInv, DInv, Typed, DriverTyped
  <2>2. read = None <=> caller = "emmc_init"
    BY <2>1 DEF PInv, DInv, Typed, DriverTyped
  <2>3. CASE read = None
    <3>1. result = "none" /\ buf = <<>>
      BY <2>1, <2>3 DEF PInv, Unanswered
    <3> QED BY <2>1, <2>2, <2>3, <3>1 DEF Progress, Unanswered, Outcome
  <2>4. CASE read # None
    BY <1>2, <2>1, <2>2, <2>4
  <2> QED BY <2>3, <2>4
<1>4. CASE SendOpCond
  BY <1>1, <1>2, <1>4 DEF SendOpCond, Goto
<1>5. CASE EmmcInit \/ PowerCycle \/ ResetController \/ GoIdle \/ IfCond \/ OpCond
  BY <1>1, <1>2, <1>5 DEF EmmcInit, PowerCycle, ResetController, GoIdle, IfCond, OpCond, Goto
<1>8. CASE StartClock \/ PrepareDevice \/ SwitchClock
  BY <1>1, <1>2, <1>8 DEF StartClock, PrepareDevice, SwitchClock, Goto
<1>6. CASE VoltageSwitch \/ AllSendCid \/ SendRelativeAddr \/ SelectCard
  BY <1>1, <1>2, <1>6 DEF VoltageSwitch, AllSendCid, SendRelativeAddr, SelectCard, Goto
<1>7. CASE SetBlocklen \/ StartScr \/ SendScr
  BY <1>1, <1>2, <1>7 DEF SetBlocklen, StartScr, SendScr, Goto
<1> QED BY <1>3, <1>4, <1>5, <1>6, <1>7, <1>8 DEF CardInit

\* A read starts with nothing copied.
LEMMA AskOutcome ==
  ASSUME PInv, DriverTyped', SdRead
  PROVE  Progress' /\ Unanswered' /\ Outcome
<1>1. PICK first \in Block, count \in 1 .. MaxCount :
        read' = [first |-> first, count |-> count, block |-> first, tries |-> 0,
                 left |-> count * Units, want |-> Lesser(count * Units, dev.size)]
  BY DEF SdRead
<1>2. read = None /\ buf' = <<>> /\ pc' \in {"undefined", "mode"}
  BY DEF SdRead, PInv, DInv, Typed, DriverTyped
<1>3. first \in Nat /\ count \in Nat \ {0}
  BY BlocksAssumption, CountAssumption
<1>4. read' # None
  BY <1>1, <1>3 DEF None
<1>5. read' \in ReadRecord
  BY <1>4 DEF DriverTyped
<1>6. Promise!Contents(first, 0) = <<>>
  BY <1>3, ContentsGrow
<1>7. Progress'
  <2>1. /\ read'.block = read'.first + 0 /\ read'.left = (read'.count - 0) * Units
        /\ read'.first = first /\ 0 \in 0 .. read'.count - 1
    BY <1>1, <1>3, CountAssumption
  <2> QED BY <1>2, <1>6, <2>1 DEF Progress
<1> QED BY <1>2, <1>4, <1>5, <1>7 DEF Unanswered, Outcome

\* A block is copied.
LEMMA CopyOutcome ==
  ASSUME PInv, Copy
  PROVE  Progress' /\ Unanswered' /\ Outcome
<1>1. pc = "copy" /\ read # None /\ read \in ReadRecord
  BY DEF Copy, PInv, DInv, Typed, DriverTyped, Reading, Trying
<1>2. CASE Retry
  BY <1>1, <1>2, RetryUncopied DEF Trying
<1>3. CASE /\ buf' = buf \o Firsts /\ pc' = "next_block"
           /\ UNCHANGED <<device, dev, nested, v2, caller, read, result>>
  <2>1. PICK k \in 0 .. read.count - 1 :
          /\ read.block = read.first + k
          /\ read.left = (read.count - k) * Units
          /\ buf = Promise!Contents(read.first, k)
    BY <1>1 DEF PInv, Progress
  <2>2. dev.size = Units
    BY <1>1 DEF PInv, Sizes, SizeAt, Trying
  <2>3. Firsts = BlockHead(read.block, Units)
    BY <1>1, <2>2 DEF PInv, DInv, Clean, Data, FifoRequested
  <2>4. read.first \in Nat /\ k \in Nat
    <3>1. read.first \in Block /\ read.count \in 1 .. MaxCount
      BY <1>1 DEF ReadRecord
    <3>2. read.first \in Nat
      BY <3>1, BlocksAssumption
    <3> QED BY <3>1, <3>2, CountAssumption
  <2>5. buf' = Promise!Contents(read.first, k + 1)
    BY <1>3, <2>1, <2>3, <2>4, ContentsGrow
  <2>6. Progress'
    BY <1>3, <2>1, <2>5 DEF Progress
  <2> QED BY <1>1, <1>3, <2>6 DEF Unanswered, Outcome
<1> QED BY <1>2, <1>3 DEF Copy, Firsts

\* The loop of sd_read: the next block, or the end of the read.
LEMMA NextOutcome ==
  ASSUME PInv, DriverTyped', NextBlock
  PROVE  Progress' /\ Unanswered' /\ Outcome
<1>1. pc = "next_block" /\ read # None /\ read \in ReadRecord /\ buf' = buf
  BY DEF NextBlock, PInv, DInv, Typed, DriverTyped, Reading
<1>2. PICK k \in 0 .. read.count - 1 :
        /\ read.block = read.first + k
        /\ read.left = (read.count - k) * Units
        /\ buf = Promise!Contents(read.first, k + 1)
  BY <1>1 DEF PInv, Progress
<1>3. dev.size = Units
  BY <1>1 DEF PInv, Sizes, SizeAt
<1>4. read.count \in Nat /\ read.first \in Nat /\ k \in Nat /\ k < read.count
  <2>1. read.first \in Block /\ read.count \in 1 .. MaxCount
    BY <1>1 DEF ReadRecord
  <2>2. read.first \in Nat
    BY <2>1, BlocksAssumption
  <2> QED BY <2>1, <2>2, CountAssumption
<1> DEFINE left == IF read.left < dev.size THEN 0 ELSE read.left - dev.size
<1>5. left = (read.count - (k + 1)) * Units
  <2>1. PICK m \in Nat : m = read.count - (k + 1)
    BY <1>4
  <2>2. read.count - k = m + 1
    BY <1>4, <2>1
  <2>3. read.left = m * Units + Units /\ m * Units \in Nat
    BY <1>2, <2>2, CountAssumption
  <2> QED BY <1>3, <2>1, <2>3, CountAssumption
<1> HIDE DEF left
<1>6. CASE left > 0
  <2>1. /\ read' = [read EXCEPT !.left = left, !.block = @ + 1, !.tries = 0,
                                !.want = Lesser(left, dev.size)]
        /\ pc' = "mode"
    BY <1>6, Zenon DEF NextBlock, left
  <2>2. /\ read'.first = read.first /\ read'.count = read.count
        /\ read'.block = read.block + 1 /\ read'.left = left
    BY <1>1, <2>1 DEF ReadRecord
  <2>3. read' # None
    BY <1>2, <1>4, <2>2 DEF None
  <2>4. k + 1 \in 0 .. read.count - 1
    <3>1. k + 1 # read.count
      <4> SUFFICES ASSUME k + 1 = read.count PROVE FALSE
        OBVIOUS
      <4>1. left = 0
        BY <1>4, <1>5, CountAssumption
      <4> QED BY <1>6, <4>1
    <3> QED BY <1>4, <3>1
  <2>5. read'.block = read'.first + (k + 1)
    BY <1>2, <1>4, <2>2
  <2>6. read'.left = (read'.count - (k + 1)) * Units
    BY <1>5, <2>2
  <2>7. Progress'
    BY <1>1, <1>2, <2>1, <2>2, <2>4, <2>5, <2>6 DEF Progress
  <2> QED BY <1>1, <2>1, <2>2, <2>3, <2>7 DEF Unanswered, Outcome, Initialising, Preparing
<1>7. CASE ~(left > 0)
  <2>1. read' = None /\ pc' = "idle" /\ result' = "ok"
    BY <1>7 DEF NextBlock, left
  <2>2. k + 1 = read.count
    <3> SUFFICES ASSUME k + 1 # read.count PROVE FALSE
      OBVIOUS
    <3>1. PICK m \in Nat \ {0} : m = read.count - (k + 1)
      BY <1>4
    <3>2. left = m * Units /\ m * Units > 0
      BY <1>5, <3>1, CountAssumption
    <3> QED BY <1>7, <3>2
  <2>3. Outcome
    BY <1>1, <1>2, <2>1, <2>2 DEF Outcome
  <2> QED BY <2>1, <2>3 DEF Progress, Unanswered, Initialising, Preparing
<1> QED BY <1>6, <1>7

\* Every step, when no read is abandoned.
LEMMA StepOutcome ==
  ASSUME ~Abandonable, PInv, [Next]_vars, DriverTyped'
  PROVE  Progress' /\ Unanswered' /\ Outcome
<1> USE DEF Initialising, Preparing, Reading, Trying
<1>1. ASSUME pc \in Reading PROVE read # None
  BY <1>1 DEF PInv, DInv, Typed, DriverTyped
<1>2. CASE (\E rca \in BOOLEAN : Refuse(rca)) /\ pc \in Reading
  BY <1>1, <1>2, FailsUncopied
<1>3. CASE /\ UNCHANGED <<read, buf, result>> /\ pc \in Reading \ {"next_block"}
           /\ pc' # "next_block"
  BY <1>3, NothingCopied
<1>4. CASE DataMode
  BY <1>3, <1>4 DEF DataMode
<1>5. CASE SendStatus
  <2>1. \A s : StatusLeadsTo(s) # "next_block"
    BY DEF StatusLeadsTo
  <2> QED BY <1>2, <1>3, <1>5, <2>1 DEF SendStatus
<1>6. CASE Reselect \/ StopTransmission \/ ResetCircuit \/ Recheck \/ Attempt
  BY <1>2, <1>3, <1>6 DEF Reselect, StopTransmission, ResetCircuit, Recheck, Attempt, Goto
<1>7. CASE DataCommand
  <2>1. dev.rca \in BOOLEAN
    BY DEF PInv, DInv, Typed, DriverTyped, DevRecord
  <2> QED BY <1>2, <1>3, <1>7, <2>1 DEF DataCommand, Goto
<1>8. CASE Issue \/ Transfer
  BY <1>3, <1>8, RetryUncopied DEF Issue, Transfer, Goto
<1>9. CASE \/ BusyWait \/ CardSends \/ CardPowersUp \/ CardUpset \/ Undefined
           \/ UNCHANGED vars
  <2>1. UNCHANGED driverVars
    BY <1>9 DEF BusyWait, CardSends, CardPowersUp, CardUpset, Undefined, vars
  <2> QED BY <2>1, NothingCopied DEF driverVars
<1>10. CASE EmmcRead
  BY <1>4, <1>5, <1>6, <1>7, <1>8, <1>9, <1>10, CopyOutcome, NextOutcome DEF EmmcRead
<1> QED BY <1>9, <1>10, InitOutcome, AskOutcome DEF Next, Abandon

\* The invariant holds from the start and through every step.
LEMMA PromiseInvariant == ASSUME ~Abandonable, ~FlagRaces PROVE Spec => []PInv
<1>1. Init => Clean /\ Sizes /\ Progress /\ Unanswered
  <2> SUFFICES ASSUME Init PROVE Clean /\ Sizes /\ Progress /\ Unanswered
    OBVIOUS
  <2>3. Clean
    BY IdleTyped DEF Init, Clean
  <2>1. dev.size = 0 /\ pc = "boot" /\ read = None /\ result = "none" /\ buf = <<>>
    BY DEF Init, Dead
  <2>2. Sizes
    BY <2>1 DEF Sizes, SizeAt, Trying, Preparing
  <2> QED BY <2>1, <2>2, <2>3 DEF Progress, Unanswered
<1>2. DInv /\ DInv' /\ Clean /\ Sizes /\ Progress /\ Unanswered /\ [Next]_vars
        => Clean' /\ Sizes' /\ Progress' /\ Unanswered'
  <2> SUFFICES ASSUME DInv, DInv', Clean, Sizes, Progress, Unanswered, [Next]_vars
               PROVE  Clean' /\ Sizes' /\ Progress' /\ Unanswered'
    OBVIOUS
  <2>1. DriverTyped /\ DriverTyped'
    BY DEF DInv, Typed
  <2>4. Clean'
    BY CleanStep
  <2>2. Sizes'
    BY <2>1, InitSizes, ReadSizes DEF Next, Abandon
  <2>3. Progress' /\ Unanswered'
    BY <2>1, StepOutcome DEF PInv
  <2> QED BY <2>2, <2>3, <2>4
<1> QED BY <1>1, <1>2, DataInvariant, PTL DEF Spec, PInv

\* A read that ends has failed, or has copied what it was asked for.
AnswersRight ==
  read # None /\ read' = None =>
    \/ result' = "error"
    \/ result' = "ok" /\ buf' = Promise!Contents(read.first, read.count)

(***************************************************************************)
(* The answers of sd_read: when no read is abandoned, and no data lose     *)
(* their flag, a read ends with an error or with the contents of all the   *)
(* blocks that were asked for, after any retries, disturbances and failing *)
(* initialisations in the middle of it.                                    *)
(***************************************************************************)
THEOREM AnswersAreContents ==
  ASSUME ~Abandonable, ~FlagRaces PROVE Spec => [][AnswersRight]_vars
<1>1. PInv /\ PInv' /\ [Next]_vars => [AnswersRight]_vars
  <2> SUFFICES ASSUME PInv, PInv', [Next]_vars PROVE AnswersRight
    OBVIOUS
  <2>1. Outcome
    BY StepOutcome DEF PInv, DInv, Typed
  <2> QED BY <2>1 DEF Outcome, AnswersRight
<1> QED BY <1>1, PromiseInvariant, PTL DEF Spec

(***************************************************************************)
(* The driver implements BlockDevice, but for its liveness: every step is  *)
(* one of asking, one of answering, or none that BlockDevice sees.  An     *)
(* initialisation at boot that fails would answer what nobody asked.       *)
(***************************************************************************)
THEOREM ReadsKeepPromise ==
  ASSUME ~Abandonable, ~FlagRaces, ~InitFaults PROVE Spec => Promise!Safety
<1>1. Init => Promise!Init
  BY DEF Init, asked, answer, Promise!Init, Promise!NoRead, Promise!NoAnswer
<1>2. PInv /\ PInv' /\ [Next]_vars => [Promise!Next]_<<asked, answer>>
  <2> SUFFICES ASSUME PInv, PInv', [Next]_vars
               PROVE  Promise!Next \/ UNCHANGED <<asked, answer>>
    OBVIOUS
  <2>1. Outcome
    BY StepOutcome DEF PInv, DInv, Typed
  <2>2. read \in ReadRecord \cup {None}
    BY DEF PInv, DInv, Typed, DriverTyped
  <2>3. CASE UNCHANGED <<read, result, buf>>
    BY <2>3 DEF asked, answer
  <2>4. CASE read = None /\ read' \in ReadRecord /\ read' # None
    <3>1. asked = Promise!NoRead
      BY <2>4 DEF asked, Promise!NoRead
    <3>2. asked' = [first |-> read'.first, count |-> read'.count]
      BY <2>4 DEF asked
    <3>3. asked' \in Promise!Read
      BY <2>4, <3>2 DEF ReadRecord, Promise!Read
    <3>4. answer' = Promise!NoAnswer
      BY <2>4 DEF answer, Promise!NoAnswer
    <3> QED BY <3>1, <3>3, <3>4 DEF Promise!Next, Promise!Ask
  <2>5. CASE /\ read # None /\ read' # None
             /\ read'.first = read.first /\ read'.count = read.count
    BY <2>5 DEF asked, answer
  <2>6. ASSUME read # None, read' = None
        PROVE  /\ asked = [first |-> read.first, count |-> read.count]
               /\ asked # Promise!NoRead /\ asked' = Promise!NoRead
    <3>1. asked = [first |-> read.first, count |-> read.count]
      BY <2>6 DEF asked
    <3>2. asked.count # 0
      BY <2>2, <2>6, <3>1 DEF ReadRecord
    <3>3. asked' = Promise!NoRead
      BY <2>6 DEF asked, Promise!NoRead
    <3> QED BY <3>1, <3>2, <3>3 DEF Promise!NoRead
  <2>7. CASE read # None /\ read' = None /\ result' = "error"
    <3>1. answer' = Promise!Refused
      BY <2>7 DEF answer, Promise!Refused
    <3> QED BY <2>6, <2>7, <3>1 DEF Promise!Next, Promise!Answer
  <2>8. CASE /\ read # None /\ read' = None /\ result' = "ok"
             /\ buf' = Promise!Contents(read.first, read.count)
    <3>1. answer' = [data |-> Promise!Contents(asked.first, asked.count)]
      BY <2>6, <2>8 DEF answer
    <3> QED BY <2>6, <2>8, <3>1 DEF Promise!Next, Promise!Answer
  <2>9. CASE /\ read = None /\ read' = None /\ result = "none" /\ result' = "ok"
             /\ buf = <<>> /\ buf' = <<>>
    BY <2>9 DEF asked, answer
  <2> QED BY <2>1, <2>3, <2>4, <2>5, <2>7, <2>8, <2>9 DEF Outcome
<1> QED BY <1>1, <1>2, PromiseInvariant, PTL DEF Spec, Promise!Safety

=============================================================================
