------------------------------ MODULE Padding -------------------------------
(***************************************************************************)
(* The padding budgets of include/pacetun/traffic.hpp as the two encode    *)
(* functions of src/runtime.cpp use them (carrier_tunnel_loop and          *)
(* pool_tunnel_loop): PaddingBudget limits data padding relative to the    *)
(* payload and control padding by a rate, ShapeBudget is a token bucket    *)
(* over all padding, shared by every lane.                                 *)
(*                                                                         *)
(* The code keeps budgets in doubles.  Here they are exact: rates in units *)
(* of 1/Unit byte (a microsecond's worth, Unit = 1000000), the data budget *)
(* in hundredths of a byte.  Time starts at 0 when the budgets are made.   *)
(*                                                                         *)
(* spentData, spentControl and payload total what was sent; mark remembers *)
(* the totals at the start of an arbitrary window of time.                 *)
(***************************************************************************)
EXTENDS Integers

CONSTANTS Unit,          \* clock ticks per second
          Shaping,       \* cfg.traffic_shaping
          Pool,          \* the encode of pool_tunnel_loop, or of carrier_tunnel_loop
          Rate, Burst,   \* shaping_rate_bytes, shaping_burst_bytes
          Pct,           \* padding_budget_pct
          DataCap,       \* 4096 bytes
          ControlRate,   \* 64 bytes per second
          ControlBurst,  \* 128 bytes
          DataMaxima,    \* data padding limits BurstShaper.maximum can give
          ControlMax,    \* websocket_control_padding_bytes
          Payloads,      \* payload sizes
          MaxTime,       \* bound on the clock
          MaxPayload     \* bound on the payload sent

ASSUME PaddingAssumption ==
  /\ Unit \in Nat \ {0} /\ Shaping \in BOOLEAN /\ Pool \in BOOLEAN
  /\ Rate \in Nat /\ Burst \in Nat /\ Pct \in Nat /\ DataCap \in Nat
  /\ ControlRate \in Nat /\ ControlBurst \in Nat
  /\ DataMaxima \subseteq Nat /\ ControlMax \in Nat /\ Payloads \subseteq Nat

VARIABLES now,
          data, control, controlLast,           \* PaddingBudget
          tokens, shapeLast,                    \* ShapeBudget
          spentData, spentControl, payload,     \* totals
          mark                                  \* start of a window

padVars == <<now, data, control, controlLast, tokens, shapeLast,
          spentData, spentControl, payload, mark>>

PadInit ==
  /\ now = 0
  /\ data = 0 /\ control = ControlBurst * Unit /\ controlLast = 0
  /\ tokens = Burst * Unit /\ shapeLast = 0
  /\ spentData = 0 /\ spentControl = 0 /\ payload = 0
  /\ mark = [time |-> 0, data |-> 0, control |-> 0]

Least(a, b) == IF a < b THEN a ELSE b
Greatest(a, b) == IF a > b THEN a ELSE b

------------------------------------------------------------------------------
\* The token bucket over all padding

Refilled == IF now > shapeLast THEN Least(Burst * Unit, tokens + (now - shapeLast) * Rate)
            ELSE tokens

\* ShapeBudget::allowance, its result.
Shaped(requested) == IF Shaping THEN Least(requested, Refilled \div Unit) ELSE requested

\* A bug: spending is not taken off the bucket.
NotSpent(extra) == tokens' = Refilled /\ shapeLast' = now

\* ShapeBudget::allowance followed by spend.
Spend(extra) ==
  IF Shaping THEN tokens' = Greatest(0, Refilled - extra * Unit) /\ shapeLast' = now
             ELSE UNCHANGED <<tokens, shapeLast>>

------------------------------------------------------------------------------
\* The bytes an encoder may add within an allowance of at least 3: the padded
\* form two bytes of length and up to allowance - 3 of padding, none at all for
\* a limit of 0; the envelope three bytes and up to allowance - 3 of padding.
PaddedExtra(allowance) == IF allowance = 3 THEN {0} ELSE 2..(allowance - 1)
EnvelopeExtra(allowance) == 3..allowance

\* A bug: the encoder is given the allowance without its own header taken off.
ExtraUnchecked(maximum, allowance) == IF maximum > 0 THEN EnvelopeExtra(allowance + 3) ELSE {0}

Extra(maximum, allowance) ==
  IF maximum > 0 /\ allowance >= 3
  THEN IF Pool \/ ControlMax > 0 THEN EnvelopeExtra(allowance) ELSE PaddedExtra(allowance)
  ELSE {0}

\* A bug: the cap on saved-up data budget is missing.
CreditedUncapped(bytes) == data + bytes * Pct

Credited(bytes) == Least(DataCap * 100, data + bytes * Pct)

\* A data record of the given size.  The pool leaves the budgets alone where no
\* padding is allowed.
EncodeData(bytes, maximum) ==
  /\ payload + bytes <= MaxPayload
  /\ payload' = payload + bytes
  /\ IF Pool /\ maximum = 0
     THEN UNCHANGED <<data, tokens, shapeLast, spentData>>
     ELSE \E extra \in Extra(maximum, Shaped(Least(maximum + 3, Credited(bytes) \div 100))) :
            /\ data' = Greatest(0, Credited(bytes) - extra * 100)
            /\ Spend(extra)
            /\ spentData' = spentData + extra
  /\ UNCHANGED <<now, control, controlLast, spentControl, mark>>

\* A bug: the elapsed time is credited again at every record.
RecoveredAgain == Least(ControlBurst * Unit, control + now * ControlRate)

Recovered == Least(ControlBurst * Unit, control + (now - controlLast) * ControlRate)

\* A control record: keep-alive, ping or pong.
EncodeControl ==
  /\ ~(Pool /\ ControlMax = 0)
  /\ controlLast' = now
  /\ \E extra \in Extra(ControlMax, Shaped(Least(ControlMax + 3, Recovered \div Unit))) :
       /\ control' = Greatest(0, Recovered - extra * Unit)
       /\ Spend(extra)
       /\ spentControl' = spentControl + extra
  /\ UNCHANGED <<now, data, spentData, payload, mark>>

Elapse ==
  /\ now < MaxTime /\ now' = now + 1
  /\ UNCHANGED <<data, control, controlLast, tokens, shapeLast,
                 spentData, spentControl, payload, mark>>

\* A window to be measured begins.
Mark ==
  /\ mark' = [time |-> now, data |-> spentData, control |-> spentControl]
  /\ UNCHANGED <<now, data, control, controlLast, tokens, shapeLast,
                 spentData, spentControl, payload>>

PadNext ==
  \/ \E bytes \in Payloads, maximum \in DataMaxima : EncodeData(bytes, maximum)
  \/ EncodeControl
  \/ Elapse
  \/ Mark

PadSpec == PadInit /\ [][PadNext]_padVars

------------------------------------------------------------------------------
\* The budgets stay within their caps, the clocks in the past.
BudgetTypes ==
  /\ now \in Nat /\ controlLast \in 0..now /\ shapeLast \in 0..now
  /\ data \in 0..(DataCap * 100)
  /\ control \in 0..(ControlBurst * Unit) /\ tokens \in 0..(Burst * Unit)
  /\ spentData \in Nat /\ spentControl \in Nat /\ payload \in Nat
  /\ mark \in [time : 0..now, data : 0..spentData, control : 0..spentControl]

Elapsed == now - mark.time
ControlInWindow == spentControl - mark.control
PaddingInWindow == (spentData - mark.data) + ControlInWindow

\* With shaping on, the padding of all lanes together, control included, stays
\* within burst + rate * elapsed in every window of time, not only from the
\* start (ShapeBudget, "extra = burst + rate * elapsed").
ShapeCap == Shaping => PaddingInWindow * Unit <= Burst * Unit + Rate * Elapsed

\* Data padding never exceeds its share of the payload sent.
DataShare == spentData * 100 <= payload * Pct

\* Control padding stays within 128 bytes + 64 per second in every window.
ControlCap == ControlInWindow * Unit <= ControlBurst * Unit + ControlRate * Elapsed

------------------------------------------------------------------------------
\* What makes the caps inductive: budget not yet spent counts as spent.

ShapeLedger ==
  Shaping =>
    IF shapeLast < mark.time THEN PaddingInWindow = 0
    ELSE PaddingInWindow * Unit + tokens <= Burst * Unit + Rate * (shapeLast - mark.time)

ControlLedger ==
  IF controlLast < mark.time THEN ControlInWindow = 0
  ELSE ControlInWindow * Unit + control
         <= ControlBurst * Unit + ControlRate * (controlLast - mark.time)

DataLedger == spentData * 100 + data <= payload * Pct

PadInv == BudgetTypes /\ ShapeLedger /\ ControlLedger /\ DataLedger
=============================================================================
