------------------------------- MODULE SdClock -------------------------------
(***************************************************************************)
(* The clock of the SD card (emmc.c): the divider the driver computes for  *)
(* a rate and the fields of CONTROL1 it is written to.  Rates are in units *)
(* of 100 kHz.                                                             *)
(***************************************************************************)
EXTENDS Integers

CONSTANTS
  BaseClock,   \* rates of the base clock the firmware may report
  ClockId,     \* EMMC_CLOCK_ID, 4 in the code
  ClockNormal  \* EMMC_CLOCK_NORMAL, 250 in the code

ASSUME RatesAssumption ==
  BaseClock \subseteq Nat \ {0} /\ {ClockId, ClockNormal} \subseteq Nat \ {0}

\* base_clock when the firmware does not report one: 100 MHz
AssumedClock == 1000

\* The base clock, the one the driver takes it for, and CONTROL1's clock fields.
Clock == [base : BaseClock, taken : BaseClock \cup {AssumedClock}, en : BOOLEAN,
          freq8 : 0 .. 255, ms2 : 0 .. 3]

\* The integer divider, before it is rounded to a power of two.
TargetDiv(b, t) ==
  IF t > b THEN 1
  ELSE IF b % t = 0 THEN b \div t ELSE b \div t - 1

\* The smallest power of two that is no smaller than n # 0, as an exponent.
CeilLog2(n) == CHOOSE k \in 0 .. 31 : 2^k >= n /\ (k = 0 \/ 2^(k - 1) < n)

(***************************************************************************)
(* emmc_get_clock_divider for version 2 and later: the 10-bit field N of   *)
(* the register, which divides the base clock by 2N, or not at all if 0.   *)
(* No bit set in the divider counts as bit 31.                             *)
(***************************************************************************)
ClockDivider(b, t) ==
  LET n == TargetDiv(b, t)
      exponent == IF n = 0 THEN 31 ELSE CeilLog2(n) IN
    CASE exponent = 0  -> 0
      [] exponent > 10 -> 1023
      [] OTHER         -> 2^(exponent - 1)

BadEncode(n) == [freq8 |-> n % 256, ms2 |-> 0]
Encode(n) == [freq8 |-> n % 256, ms2 |-> (n \div 256) % 4]

\* A running clock c for rate t.
Programmed(c, t) ==
  LET fields == Encode(ClockDivider(c.taken, t)) IN
    [base |-> c.base, taken |-> c.taken, en |-> TRUE,
     freq8 |-> fields.freq8, ms2 |-> fields.ms2]

\* After a reset of the controller.
ResetClock(c) ==
  [base |-> c.base, taken |-> c.taken, en |-> FALSE, freq8 |-> 0, ms2 |-> 0]

\* The divider in the register, and what it divides the base clock by.
Field(c) == c.freq8 + 256 * c.ms2
Factor(c) == IF Field(c) = 0 THEN 1 ELSE 2 * Field(c)

(***************************************************************************)
(* The clock has rate t, if the base clock is what the driver takes it     *)
(* for: not faster and more than half as fast, unless the divider is at    *)
(* its limit, if t divides the base clock, as it does for the 250 MHz of   *)
(* the board; less than three times as fast otherwise.                     *)
(***************************************************************************)
HasRate(c, t) ==
  /\ c.taken % t = 0 => /\ c.taken <= t * Factor(c)
                        /\ Field(c) = 1023 \/ 2 * c.taken > t * Factor(c)
  /\ c.taken < 3 * t * Factor(c)

=============================================================================
