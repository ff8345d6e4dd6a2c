----------------------------- MODULE BlockDevice -----------------------------
(***************************************************************************)
(* What the file system is promised by the SD card (sd.h): a read returns  *)
(* the bytes of the blocks that were asked for, or an error, and it does   *)
(* return.                                                                 *)
(***************************************************************************)
EXTENDS Integers, Sequences

CONSTANTS
  Block,     \* blocks of the card
  MaxCount,  \* bound: blocks of one read
  Units      \* pieces a block is transferred in

VARIABLES
  asked,   \* the read in progress, if any
  answer   \* what the last read returned

Read == [first : Block, count : 1 .. MaxCount]
NoRead == [count |-> 0]

\* Contents of `count' blocks from `first' on, unit by unit.
Contents(first, count) ==
  [i \in 1 .. count * Units |-> <<first + (i - 1) \div Units, (i - 1) % Units>>]

Answered == [data : Seq(Nat \X Nat)]
Refused == [error |-> TRUE]
NoAnswer == [data |-> <<>>]

Init ==
  /\ asked = NoRead
  /\ answer = NoAnswer

Ask ==
  /\ asked = NoRead
  /\ asked' \in Read
  /\ answer' = NoAnswer

Answer ==
  /\ asked # NoRead
  /\ answer' \in {[data |-> Contents(asked.first, asked.count)], Refused}
  /\ asked' = NoRead

Next == Ask \/ Answer

Safety == Init /\ [][Next]_<<asked, answer>>
Spec == Safety /\ WF_<<asked, answer>>(Answer)

=============================================================================
