------------------------------ MODULE TwrExchange ------------------------------
(***************************************************************************)
(* The numbers of one two-way ranging exchange at a time: what the clocks  *)
(* of a tag and an anchor show, what goes through the five bytes of a      *)
(* frame, and what computeRangeAsymmetric makes of it.                     *)
(*                                                                         *)
(* Both chips count modulo TIME_OVERFLOW (2^40) from unrelated values;     *)
(* a DW1000Time holds 64 bits, so that sums and differences of stamps      *)
(* leave 0 .. TIME_OVERFLOW - 1 and are brought back by wrap(), or by the  *)
(* five bytes they are sent in.  The tag does not read the stamp of its    *)
(* RANGE: it predicts it when it sets the delay of the transmission.       *)
(*                                                                         *)
(* The clocks do not drift.  What correctTimestamp leaves wrong in a stamp *)
(* of reception is an error of at most MaxError; the corrected stamp may   *)
(* lie outside the range of the clock.                                     *)
(*                                                                         *)
(* WrapNothing, WrapBySign, StartWithoutCarry and RangeCrossed are slips   *)
(* the code could have made.                                               *)
(***************************************************************************)
EXTENDS Integers

CONSTANTS
  TIME_OVERFLOW,  \* 2^40
  INT_LIMIT,      \* 2^63, where a product of two times overflows
  GRAIN,          \* the chip starts at multiples of this (2^9)
  antennaDelay,   \* _antennaDelay
  replyDelay,     \* DEFAULT_REPLY_DELAY_TIME, in ticks of the clock
  Replies,        \* how long an anchor may take from POLL to POLL_ACK
  Lags,           \* how long a tag may take from POLL_ACK to setDelay
  Pauses,         \* time between two exchanges
  Flight,         \* times of flight
  MaxError,       \* error of a corrected stamp of reception
  MaxWait         \* bound on the time from one frame to the next

Clock == 0 .. (TIME_OVERFLOW - 1)
Error == (-MaxError) .. MaxError

ASSUME ClockAssumption ==
  /\ TIME_OVERFLOW \in Nat \ {0} /\ GRAIN \in Nat \ {0} /\ INT_LIMIT \in Nat
  /\ TIME_OVERFLOW % GRAIN = 0
  /\ {antennaDelay, replyDelay, MaxError, MaxWait} \subseteq Nat
  /\ Replies \subseteq Nat /\ Lags \subseteq Nat /\ Pauses \subseteq Clock
  /\ Flight \subseteq Nat
(* Replies are long against errors, and short against the 17 seconds of    *)
(* the clock and the 47 milliseconds whose square fits 64 bits.            *)
ASSUME WaitAssumption ==
  /\ replyDelay >= GRAIN + MaxError
  /\ \A r \in Replies : MaxError <= r /\ r <= MaxWait
  /\ \A lag \in Lags : lag + replyDelay + antennaDelay <= MaxWait
  /\ \A f \in Flight : MaxWait + 2 * f + MaxError < TIME_OVERFLOW
  /\ \A f \in Flight :
       (MaxWait + 2 * f + MaxError) * (MaxWait + 2 * f + MaxError) < INT_LIMIT

VARIABLES
  pc,
  tag, anchor,               \* the two clocks
  flight,                    \* the true time of flight
  pollSent, ackReceived, rangeSent,      \* the stamps of the tag
  pollReceived, ackSent, rangeReceived,  \* the stamps of the anchor
  sentRound1, sentReply2,    \* what the RANGE carries
  elapsed1, elapsed2,        \* how long anchor and tag really waited
  error1, error2, error3     \* the errors of the three receptions

clocks == <<tag, anchor, flight>>
tagStamps == <<pollSent, ackReceived, rangeSent>>
anchorStamps == <<pollReceived, ackSent, rangeReceived>>
sent == <<sentRound1, sentReply2>>
truth == <<elapsed1, elapsed2, error1, error2, error3>>
vars == <<pc, clocks, tagStamps, anchorStamps, sent, truth>>

---------------------------------------------------------------------------
(* DW1000Time *)

(* getTimestamp and setTimestamp by five bytes.                            *)
FiveBytes(t) == t % TIME_OVERFLOW

WrapNothing(t) == t
WrapBySign(t) == IF t < 0 THEN -t ELSE t

Wrap(t) == IF t < 0 THEN t + TIME_OVERFLOW ELSE t

(* The quotient of two int64_t, which is rounded towards zero.             *)
Quotient(a, b) == IF a >= 0 THEN a \div b ELSE -((-a) \div b)

Later(clock, d) == (clock + d) % TIME_OVERFLOW

StartWithoutCarry(now) == (now + replyDelay) - ((now + replyDelay) % GRAIN)

(* setDelay(): where the chip starts to send; the low bits are dropped     *)
(* from the bytes of the time that is asked for.                           *)
Start(now) == FiveBytes(now + replyDelay) - (FiveBytes(now + replyDelay) % GRAIN)

---------------------------------------------------------------------------
(* computeRangeAsymmetric *)

round1 == Wrap(sentRound1)
reply1 == Wrap(ackSent - pollReceived)
round2 == Wrap(rangeReceived - ackSent)
reply2 == Wrap(sentReply2)

RangeCrossed(r1, w1, r2, w2) == Quotient(r1 * w2 - r2 * w1, r1 + r2 + w1 + w2)

TimeOfFlight(r1, w1, r2, w2) == Quotient(r1 * r2 - w1 * w2, r1 + r2 + w1 + w2)

computeRange == TimeOfFlight(round1, reply1, round2, reply2)

---------------------------------------------------------------------------
Init ==
  /\ pc = "idle"
  /\ tag \in Clock /\ anchor \in Clock /\ flight \in Flight
  /\ pollSent = 0 /\ ackReceived = 0 /\ rangeSent = 0
  /\ pollReceived = 0 /\ ackSent = 0 /\ rangeReceived = 0
  /\ sentRound1 = 0 /\ sentReply2 = 0
  /\ elapsed1 = 0 /\ elapsed2 = 0 /\ error1 = 0 /\ error2 = 0 /\ error3 = 0

(* Both clocks go on by d.                                                 *)
Pass(d) == tag' = Later(tag, d) /\ anchor' = Later(anchor, d) /\ UNCHANGED flight

(* The POLL leaves the tag and reaches the anchor.                         *)
SendPoll ==
  /\ pc = "idle" /\ pc' = "polled"
  /\ Pass(flight)
  /\ pollSent' = tag
  /\ error1' \in Error /\ pollReceived' = anchor' + error1'
  /\ UNCHANGED <<ackReceived, rangeSent, ackSent, rangeReceived, sent,
                 elapsed1, elapsed2, error2, error3>>

(* The anchor answers after its reply time, and reads when that was.       *)
SendPollAck ==
  /\ pc = "polled" /\ pc' = "acked"
  /\ elapsed1' \in Replies
  /\ Pass(elapsed1' + flight)
  /\ ackSent' = Later(anchor, elapsed1')
  /\ error2' \in Error /\ ackReceived' = tag' + error2'
  /\ UNCHANGED <<pollSent, rangeSent, pollReceived, rangeReceived, sent,
                 elapsed2, error1, error3>>

(* The tag gets to transmitRange after some lag.  The chip starts at the   *)
(* programmed time and the frame leaves the antenna later by its delay.    *)
TransmitRange ==
  /\ pc = "acked" /\ pc' = "ranged"
  /\ \E lag \in Lags :
       LET now == Later(tag, lag)
       IN /\ rangeSent' = Start(now) + antennaDelay
          /\ elapsed2' = lag + replyDelay - (FiveBytes(now + replyDelay) % GRAIN) + antennaDelay
  /\ sentRound1' = FiveBytes(ackReceived - pollSent)
  /\ sentReply2' = FiveBytes(rangeSent' - ackReceived)
  /\ Pass(elapsed2' + flight)
  /\ error3' \in Error /\ rangeReceived' = anchor' + error3'
  /\ UNCHANGED <<pollSent, ackReceived, pollReceived, ackSent, elapsed1, error1, error2>>

(* The anchor has computed the range; some time later comes the next POLL. *)
NextExchange ==
  /\ pc = "ranged" /\ pc' = "idle"
  /\ \E d \in Pauses : Pass(d)
  /\ UNCHANGED <<tagStamps, anchorStamps, sent, truth>>

Next == SendPoll \/ SendPollAck \/ TransmitRange \/ NextExchange

Spec == Init /\ [][Next]_vars

---------------------------------------------------------------------------
(* Properties *)

TypeOK ==
  /\ pc \in {"idle", "polled", "acked", "ranged"}
  /\ tag \in Clock /\ anchor \in Clock /\ flight \in Flight
  /\ {pollSent, ackSent} \subseteq Clock
  /\ {ackReceived, pollReceived, rangeReceived} \subseteq
       -MaxError .. (TIME_OVERFLOW - 1 + MaxError)
  /\ rangeSent \in 0 .. (TIME_OVERFLOW - 1 + antennaDelay)
  /\ {sentRound1, sentReply2} \subseteq Clock
  /\ {elapsed1, elapsed2} \subseteq 0 .. MaxWait
  /\ {error1, error2, error3} \subseteq Error

(* Wherever the clocks stood and whichever of the six stamps were taken    *)
(* before and after they overflowed, the four durations of which the range *)
(* is computed are the true ones, but for the errors of the receptions:    *)
(* wrap(), the five bytes and the prediction of timeRangeSent agree.       *)
DurationsTrue ==
  pc = "ranged" =>
    /\ round1 = elapsed1 + 2 * flight + error2
    /\ reply1 = elapsed1 - error1
    /\ round2 = elapsed2 + 2 * flight + error3
    /\ reply2 = elapsed2 - error2

(* The products of computeRangeAsymmetric stay within 64 bits, and it does *)
(* not divide by zero.                                                     *)
NoOverflow ==
  pc = "ranged" =>
    /\ round1 * round2 < INT_LIMIT /\ reply1 * reply2 < INT_LIMIT
    /\ round1 + round2 + reply1 + reply2 > 0

(* Although anchor and tag wait for different times, the time of flight    *)
(* that computeRangeAsymmetric finds is the true one when the stamps are.  *)
FlightExact ==
  pc = "ranged" /\ error1 = 0 /\ error2 = 0 /\ error3 = 0 => computeRange = flight

(* Whatever is wrong with the stamps of reception, the time of flight is   *)
(* wrong by no more than the worst of them.                                *)
FlightWithinError ==
  pc = "ranged" => computeRange - flight \in -MaxError .. MaxError
================================================================================
