-------------------------- MODULE TwrExchange_proofs --------------------------
(***************************************************************************)
(* Theorems about TwrExchange, for every length of the clock, every grain, *)
(* every delay and every error that satisfy the assumptions.               *)
(*                                                                         *)
(* The invariant relates, in each phase, the stamps taken so far to the    *)
(* two clocks and to the time really elapsed.  It never mentions %: what   *)
(* arithmetic modulo TIME_OVERFLOW does is said once, by Advanced.         *)
(***************************************************************************)
EXTENDS TwrExchange, TLAPS

(* Clock value d is what clock value c has become after a time t.          *)
Advanced(d, c, t) == d = c + t \/ d = c + t - TIME_OVERFLOW

PhaseOK ==
  /\ pc = "polled" =>
       /\ pollReceived = anchor + error1
       /\ Advanced(tag, pollSent, flight)
  /\ pc = "acked" =>
       /\ elapsed1 \in Replies
       /\ ackReceived = tag + error2
       /\ Advanced(tag, pollSent, elapsed1 + 2 * flight)
       /\ Advanced(ackSent, pollReceived - error1, elapsed1)
       /\ Advanced(anchor, ackSent, flight)
  /\ pc = "ranged" =>
       /\ elapsed1 \in Replies
       /\ elapsed2 > MaxError

Inv == TypeOK /\ PhaseOK /\ DurationsTrue

---------------------------------------------------------------------------
(* Arithmetic of the clock *)

(* A time shorter than the clock, up to two overflows of it, survives five *)
(* bytes.                                                                  *)
LEMMA FiveBytesLemma ==
  ASSUME NEW v \in Clock
  PROVE  /\ FiveBytes(v) = v
         /\ FiveBytes(v - TIME_OVERFLOW) = v
         /\ FiveBytes(v - 2 * TIME_OVERFLOW) = v
         /\ FiveBytes(v + TIME_OVERFLOW) = v
  BY ClockAssumption, SMT DEF FiveBytes, Clock

LEMMA LaterLemma ==
  ASSUME NEW c \in Clock, NEW t \in Clock
  PROVE  Later(c, t) \in Clock /\ Advanced(Later(c, t), c, t)
  BY ClockAssumption, SMT DEF Later, Clock, Advanced

LEMMA FiveBytesIsClock ==
  ASSUME NEW t \in Int
  PROVE  FiveBytes(t) \in Clock
  BY ClockAssumption, SMT DEF FiveBytes, Clock

LEMMA Constants ==
  /\ TIME_OVERFLOW \in Nat \ {0} /\ GRAIN \in Nat \ {0}
  /\ antennaDelay \in Nat /\ replyDelay \in Nat /\ MaxError \in Nat /\ MaxWait \in Nat
  /\ INT_LIMIT \in Nat
  /\ Replies \subseteq Nat /\ Lags \subseteq Nat /\ Flight \subseteq Nat
  BY ClockAssumption

(* What the assumptions say of the waits that can occur.                   *)
LEMMA Waits ==
  ASSUME NEW f \in Flight, NEW r \in Replies, NEW lag \in Lags
  PROVE  /\ f \in Nat /\ r \in Nat /\ lag \in Nat
         /\ MaxError <= r /\ r <= MaxWait
         /\ lag + replyDelay + antennaDelay <= MaxWait
         /\ MaxWait + 2 * f + MaxError < TIME_OVERFLOW
         /\ replyDelay >= GRAIN + MaxError
  BY Constants, WaitAssumption

---------------------------------------------------------------------------
LEMMA InitInv == Init => Inv
  BY Constants, SMT DEF Init, Inv, TypeOK, PhaseOK, DurationsTrue, Clock, Error

LEMMA SendPollInv == Inv /\ SendPoll => Inv'
<1> SUFFICES ASSUME Inv, SendPoll PROVE Inv'
  OBVIOUS
<1>1. flight \in Clock /\ flight \in Nat
  BY Constants, WaitAssumption, SMT DEF Inv, TypeOK, Clock
<1>2. tag' \in Clock /\ Advanced(tag', tag, flight)
  BY <1>1, LaterLemma DEF Inv, TypeOK, SendPoll, Pass
<1>3. anchor' \in Clock
  BY <1>1, LaterLemma DEF Inv, TypeOK, SendPoll, Pass
<1>4. TypeOK'
  BY <1>2, <1>3, Constants, SMT
  DEF Inv, TypeOK, SendPoll, Pass, Clock, Error, sent
<1>5. PhaseOK'
  BY <1>2 DEF PhaseOK, SendPoll, Pass
<1>6. DurationsTrue'
  BY DEF DurationsTrue, SendPoll
<1> QED
  BY <1>4, <1>5, <1>6 DEF Inv

LEMMA SendPollAckInv == Inv /\ SendPollAck => Inv'
<1> SUFFICES ASSUME Inv, SendPollAck PROVE Inv'
  OBVIOUS
<1>1. PICK r \in Replies :
        /\ elapsed1' = r
        /\ tag' = Later(tag, r + flight) /\ anchor' = Later(anchor, r + flight)
        /\ ackSent' = Later(anchor, r)
  BY DEF SendPollAck, Pass
<1> DEFINE newTag == Later(tag, r + flight)
           newAnchor == Later(anchor, r + flight)
           sentAt == Later(anchor, r)
<1>2. flight \in Nat /\ r \in Nat /\ r <= MaxWait /\ r + 2 * flight < TIME_OVERFLOW
  <2>1. flight \in Flight
    BY DEF Inv, TypeOK
  <2>2. /\ flight \in Nat /\ r \in Nat /\ r <= MaxWait
        /\ MaxWait + 2 * flight + MaxError < TIME_OVERFLOW
    BY <2>1, Constants, WaitAssumption
  <2> QED
    BY <2>2, Constants, SMT
<1>3. r \in Clock /\ r + flight \in Clock
  BY <1>2, Constants, SMT DEF Clock
<1>4. /\ newTag \in Clock /\ Advanced(newTag, tag, r + flight)
      /\ newAnchor \in Clock /\ Advanced(newAnchor, anchor, r + flight)
      /\ sentAt \in Clock /\ Advanced(sentAt, anchor, r)
  BY <1>3, LaterLemma DEF Inv, TypeOK
<1> HIDE DEF newTag, newAnchor, sentAt
<1>5. tag' = newTag /\ anchor' = newAnchor /\ ackSent' = sentAt
  BY <1>1 DEF newTag, newAnchor, sentAt
<1>6. TypeOK'
  BY <1>1, <1>2, <1>4, <1>5, Constants, SMT
  DEF Inv, TypeOK, SendPollAck, Pass, Clock, Error, sent
<1>7. PhaseOK'
  <2>1. /\ pollReceived = anchor + error1 /\ Advanced(tag, pollSent, flight)
        /\ tag \in Clock /\ anchor \in Clock /\ pollSent \in Clock /\ error1 \in Error
    BY DEF Inv, TypeOK, PhaseOK, SendPollAck
  <2>2. Advanced(newTag, pollSent, r + 2 * flight)
    BY <1>2, <1>4, <2>1, Constants, SMT DEF Advanced, Clock
  <2>3. Advanced(newAnchor, sentAt, flight)
    BY <1>2, <1>4, <2>1, Constants, SMT DEF Advanced, Clock
  <2>4. Advanced(sentAt, pollReceived - error1, r)
    BY <1>2, <1>4, <2>1, Constants, SMT DEF Advanced, Clock, Error
  <2> QED
    BY <1>1, <1>5, <2>2, <2>3, <2>4 DEF PhaseOK, SendPollAck, Pass
<1>8. DurationsTrue'
  BY DEF DurationsTrue, SendPollAck
<1> QED
  BY <1>6, <1>7, <1>8 DEF Inv

LEMMA TransmitRangeInv == Inv /\ TransmitRange => Inv'
<1> SUFFICES ASSUME Inv, TransmitRange PROVE Inv'
  OBVIOUS
<1>1. PICK lag \in Lags, e3 \in Error :
        /\ rangeSent' = Start(Later(tag, lag)) + antennaDelay
        /\ elapsed2' = lag + replyDelay
                       - (FiveBytes(Later(tag, lag) + replyDelay) % GRAIN) + antennaDelay
        /\ error3' = e3 /\ rangeReceived' = anchor' + e3
  BY DEF TransmitRange
<1> DEFINE now == Later(tag, lag)
           asked == FiveBytes(now + replyDelay)
           low == asked % GRAIN
           wait == lag + replyDelay - low + antennaDelay
           newAnchor == Later(anchor, wait + flight)
           stamp == asked - low + antennaDelay
<1>2. /\ flight \in Nat /\ lag \in Nat /\ elapsed1 \in Nat
      /\ MaxError <= elapsed1 /\ elapsed1 <= MaxWait
      /\ lag + replyDelay + antennaDelay <= MaxWait
      /\ MaxWait + 2 * flight + MaxError < TIME_OVERFLOW
      /\ replyDelay >= GRAIN + MaxError
      /\ elapsed1 \in Replies
  <2>1. elapsed1 \in Replies /\ flight \in Flight
    BY DEF Inv, TypeOK, PhaseOK, TransmitRange
  <2> QED
    BY <2>1, Waits
<1>3. lag \in Clock /\ replyDelay \in Clock
  BY <1>2, Constants, SMT DEF Clock
<1>4. now \in Clock /\ Advanced(now, tag, lag)
  BY <1>3, LaterLemma DEF Inv, TypeOK
<1>5. asked \in Clock /\ Advanced(asked, now, replyDelay)
  BY <1>3, <1>4, LaterLemma DEF Later, FiveBytes
<1>6. low \in 0 .. GRAIN - 1 /\ low <= asked
  BY <1>5, Constants, SMT DEF Clock
<1>7. tag' = Later(tag, wait + flight) /\ anchor' = newAnchor /\ flight' = flight
  BY <1>1 DEF TransmitRange, Pass
<1>8. elapsed2' = wait /\ rangeSent' = stamp /\ rangeReceived' = newAnchor + e3
  BY <1>1, <1>7 DEF Start
<1>9. /\ sentRound1' = FiveBytes(ackReceived - pollSent)
      /\ sentReply2' = FiveBytes(stamp - ackReceived)
  BY <1>8 DEF TransmitRange
<1> HIDE DEF now, asked, low
<1>10. wait \in Nat /\ wait > MaxError /\ wait <= MaxWait
  BY <1>2, <1>6, Constants, SMT
<1>11. stamp \in 0 .. (TIME_OVERFLOW - 1 + antennaDelay)
  BY <1>5, <1>6, Constants, SMT DEF Clock
<1> HIDE DEF wait
<1>12. wait + flight \in Clock
  BY <1>2, <1>10, Constants, SMT DEF Clock
<1>13. tag' \in Clock
  BY <1>7, <1>12, LaterLemma DEF Inv, TypeOK
<1>14. newAnchor \in Clock /\ Advanced(newAnchor, anchor, wait + flight)
  BY <1>12, LaterLemma DEF Inv, TypeOK
<1> HIDE DEF newAnchor
<1>15. /\ ackReceived = tag + error2
       /\ Advanced(tag, pollSent, elapsed1 + 2 * flight)
       /\ Advanced(ackSent, pollReceived - error1, elapsed1)
       /\ Advanced(anchor, ackSent, flight)
  BY DEF Inv, PhaseOK, TransmitRange
<1>16. /\ tag \in Clock /\ anchor \in Clock /\ pollSent \in Clock /\ ackSent \in Clock
       /\ error1 \in Error /\ error2 \in Error
       /\ pollReceived \in Int /\ ackReceived \in Int
  BY Constants, SMT DEF Inv, TypeOK
<1>17. FiveBytes(ackReceived - pollSent) = elapsed1 + 2 * flight + error2
  <2> DEFINE v == elapsed1 + 2 * flight + error2
  <2>1. v \in Clock
    BY <1>2, <1>16, Constants, SMT DEF Clock, Error
  <2>2. \/ ackReceived - pollSent = v
        \/ ackReceived - pollSent = v - TIME_OVERFLOW
    BY <1>2, <1>15, <1>16, Constants, SMT DEF Advanced, Clock, Error
  <2> QED
    BY <2>1, <2>2, FiveBytesLemma
<1>18. FiveBytes(stamp - ackReceived) = wait - error2
  <2> DEFINE v == wait - error2
  <2>1. v \in Clock
    BY <1>2, <1>10, <1>16, Constants, SMT DEF Clock, Error
  <2>2. \/ stamp - ackReceived = v
        \/ stamp - ackReceived = v - TIME_OVERFLOW
        \/ stamp - ackReceived = v - 2 * TIME_OVERFLOW
    BY <1>2, <1>4, <1>5, <1>6, <1>15, <1>16, Constants, SMT DEF Advanced, Clock, Error, wait
  <2> QED
    BY <2>1, <2>2, FiveBytesLemma
<1>19. Wrap(ackSent - pollReceived) = elapsed1 - error1
  BY <1>2, <1>15, <1>16, Constants, SMT DEF Advanced, Clock, Error, Wrap
<1>20. Wrap((newAnchor + e3) - ackSent) = wait + 2 * flight + e3
  <2>1. \/ newAnchor - ackSent = wait + 2 * flight
        \/ newAnchor - ackSent = wait + 2 * flight - TIME_OVERFLOW
    BY <1>2, <1>10, <1>14, <1>15, <1>16, Constants, SMT DEF Advanced, Clock
  <2> QED
    BY <2>1, <1>2, <1>10, <1>14, <1>16, Constants, SMT DEF Wrap, Clock, Error
<1>21. /\ FiveBytes(ackReceived - pollSent) \in Clock
       /\ FiveBytes(stamp - ackReceived) \in Clock
  <2>1. ackReceived - pollSent \in Int /\ stamp - ackReceived \in Int
    BY <1>11, <1>16, Constants, SMT DEF Clock
  <2> QED
    BY <2>1, FiveBytesIsClock
<1> HIDE DEF stamp
<1>22. TypeOK'
  <2>1. newAnchor + e3 \in -MaxError .. (TIME_OVERFLOW - 1 + MaxError)
    BY <1>14, Constants, SMT DEF Clock, Error
  <2> QED
    BY <1>1, <1>7, <1>8, <1>9, <1>10, <1>11, <1>13, <1>14, <1>21, <2>1
    DEF Inv, TypeOK, TransmitRange
<1>23. PhaseOK'
  BY <1>2, <1>8, <1>10 DEF PhaseOK, TransmitRange
<1>24. DurationsTrue'
  <2>1. round1' = elapsed1 + 2 * flight + error2
    BY <1>9, <1>17, <1>21, SMT DEF round1, Wrap, Clock
  <2>2. reply2' = wait - error2
    BY <1>9, <1>18, <1>21, SMT DEF reply2, Wrap, Clock
  <2>3. reply1' = elapsed1 - error1 /\ round2' = wait + 2 * flight + e3
    <3>1. ackSent' = ackSent /\ pollReceived' = pollReceived
      BY DEF TransmitRange
    <3>2. /\ reply1' = Wrap(ackSent - pollReceived)
          /\ round2' = Wrap((newAnchor + e3) - ackSent)
      BY <1>8, <3>1 DEF reply1, round2, Wrap
    <3> QED
      BY <1>19, <1>20, <3>2
  <2> QED
    BY <1>1, <1>7, <1>8, <2>1, <2>2, <2>3 DEF DurationsTrue, TransmitRange
<1> QED
  BY <1>22, <1>23, <1>24 DEF Inv

LEMMA NextExchangeInv == Inv /\ NextExchange => Inv'
<1> SUFFICES ASSUME Inv, NextExchange PROVE Inv'
  OBVIOUS
<1>1. tag' \in Clock /\ anchor' \in Clock
  BY ClockAssumption, LaterLemma DEF Inv, TypeOK, NextExchange, Pass
<1>2. TypeOK'
  BY <1>1 DEF Inv, TypeOK, NextExchange, Pass, tagStamps, anchorStamps, sent, truth
<1>3. PhaseOK' /\ DurationsTrue'
  BY DEF PhaseOK, DurationsTrue, NextExchange
<1> QED
  BY <1>2, <1>3 DEF Inv

LEMMA StutterInv == Inv /\ UNCHANGED vars => Inv'
  BY DEF Inv, TypeOK, PhaseOK, DurationsTrue, vars, clocks, tagStamps, anchorStamps, sent,
         truth, round1, reply1, round2, reply2

(* The invariant of the exchange.                                          *)
THEOREM Invariance == Spec => []Inv
<1>1. Inv /\ [Next]_vars => Inv'
  BY SendPollInv, SendPollAckInv, TransmitRangeInv, NextExchangeInv, StutterInv DEF Next
<1> QED
  BY InitInv, <1>1, PTL DEF Spec

(* Whatever the length of the clock and wherever it overflows, every range *)
(* is computed from the durations that really elapsed: wrap(), the five    *)
(* bytes of the frame and the predicted stamp of the RANGE fit together.   *)
THEOREM DurationsAreTrue == Spec => []DurationsTrue
  BY Invariance, PTL DEF Inv

(* Every stamp and duration keeps within its range; in particular what     *)
(* goes into the frames fits its five bytes.                               *)
THEOREM TypeCorrect == Spec => []TypeOK
  BY Invariance, PTL DEF Inv

---------------------------------------------------------------------------
(* The arithmetic of computeRangeAsymmetric *)

LEMMA ProductLemma ==
  ASSUME NEW m \in Nat, NEW x \in Nat, NEW y \in Nat, x <= m, y <= m
  PROVE  x * y <= m * m
<1>1. x * y <= x * m
  BY SMT
<1>2. x * m <= m * m
  BY SMT
<1> QED
  BY <1>1, <1>2, SMT

LEMMA QuotientLemma ==
  ASSUME NEW f \in Nat, NEW d \in Nat \ {0}
  PROVE  Quotient(f * d, d) = f
<1>1. f * d >= 0 /\ (f * d) \div d = f
  BY SMT
<1> QED
  BY <1>1 DEF Quotient

LEMMA InvNoOverflow == Inv => NoOverflow
<1> SUFFICES ASSUME Inv, pc = "ranged"
             PROVE  /\ round1 * round2 < INT_LIMIT /\ reply1 * reply2 < INT_LIMIT
                    /\ round1 + round2 + reply1 + reply2 > 0
  BY DEF NoOverflow
<1> DEFINE m == MaxWait + 2 * flight + MaxError
<1>1. /\ flight \in Flight /\ elapsed1 \in Nat /\ elapsed2 \in Nat
      /\ elapsed1 <= MaxWait /\ elapsed2 <= MaxWait
      /\ MaxError <= elapsed1 /\ MaxError < elapsed2
      /\ error1 \in Error /\ error2 \in Error /\ error3 \in Error
  BY Constants, WaitAssumption, SMT DEF Inv, TypeOK, PhaseOK
<1>2. flight \in Nat /\ m \in Nat /\ m * m < INT_LIMIT
  BY <1>1, Constants, WaitAssumption, SMT
<1>3. /\ round1 \in Nat /\ round2 \in Nat /\ reply1 \in Nat /\ reply2 \in Nat
      /\ round1 <= m /\ round2 <= m /\ reply1 <= m /\ reply2 <= m
      /\ reply2 > 0 \/ round2 > 0
  <2>1. /\ round1 = elapsed1 + 2 * flight + error2 /\ reply1 = elapsed1 - error1
        /\ round2 = elapsed2 + 2 * flight + error3 /\ reply2 = elapsed2 - error2
    BY DEF Inv, DurationsTrue
  <2> HIDE DEF m
  <2> QED
    BY <1>1, <1>2, <2>1, Constants, SMT DEF Error, m
<1> HIDE DEF m
<1>4. round1 * round2 <= m * m /\ reply1 * reply2 <= m * m
  BY <1>2, <1>3, ProductLemma
<1>5. /\ round1 * round2 \in Int /\ reply1 * reply2 \in Int /\ m * m \in Int
      /\ round1 + round2 + reply1 + reply2 > 0
  BY <1>2, <1>3, SMT
<1> QED
  BY <1>2, <1>4, <1>5, Constants, SMT

LEMMA InvFlightExact == Inv => FlightExact
<1> SUFFICES ASSUME Inv, pc = "ranged", error1 = 0, error2 = 0, error3 = 0
             PROVE  computeRange = flight
  BY DEF FlightExact
<1> DEFINE a == elapsed1
           b == elapsed2
           d == 2 * a + 2 * b + 4 * flight
<1>1. flight \in Nat /\ a \in Nat /\ b \in Nat /\ b > 0
  BY Constants, SMT DEF Inv, TypeOK, PhaseOK
<1>2. d \in Nat \ {0}
  BY <1>1, SMT
<1>3. round1 = a + 2 * flight /\ reply1 = a /\ round2 = b + 2 * flight /\ reply2 = b
  BY <1>1, SMT DEF Inv, DurationsTrue
<1>4. (a + 2 * flight) * (b + 2 * flight) - a * b = flight * d
  BY <1>1, SMT
<1>5. (a + 2 * flight) + (b + 2 * flight) + a + b = d
  BY <1>1, SMT
<1> QED
  BY <1>1, <1>2, <1>3, <1>4, <1>5, QuotientLemma DEF computeRange, TimeOfFlight

(* No product of computeRangeAsymmetric overflows and it never divides by  *)
(* zero, for replies whose square fits the 64 bits of a DW1000Time.        *)
THEOREM RangeFits == Spec => []NoOverflow
  BY Invariance, InvNoOverflow, PTL

(* Exact stamps give the exact time of flight, for every clock and delay.  *)
THEOREM FlightIsExact == Spec => []FlightExact
  BY Invariance, InvFlightExact, PTL

---------------------------------------------------------------------------
(* What errors of the stamps make of the time of flight.  With waits of at *)
(* least m, the division neither enlarges them nor adds one of its own:    *)
(* numerator and denominator are off by terms that a multiple of the       *)
(* denominator bounds, and a quotient between two whole numbers stays      *)
(* there when it is rounded.                                               *)

LEMMA NatProduct ==
  ASSUME NEW x \in Nat, NEW y \in Nat
  PROVE  x * y \in Nat
  BY SMT

LEMMA Monotone ==
  ASSUME NEW x \in Int, NEW y \in Int, NEW d \in Nat \ {0}, x * d < y * d
  PROVE  x < y
<1>1. SUFFICES ASSUME x >= y PROVE FALSE
  BY SMT
<1>2. (x - y) * d \in Nat
  BY <1>1, NatProduct, SMT
<1>3. (x - y) * d = x * d - y * d
  BY SMT
<1>4. x * d \in Int /\ y * d \in Int
  BY SMT
<1> QED
  BY <1>2, <1>3, <1>4, SMT

LEMMA Division ==
  ASSUME NEW n \in Nat, NEW d \in Nat \ {0}
  PROVE  n \div d \in Nat /\ (n \div d) * d <= n /\ n < (n \div d + 1) * d
  BY SMT

LEMMA QuotientBetween ==
  ASSUME NEW n \in Int, NEW d \in Nat \ {0}, NEW f \in Nat, NEW m \in Nat,
         (f - m) * d <= n, n <= (f + m) * d
  PROVE  Quotient(n, d) - f \in -m .. m
<1>1. (f - m) * d \in Int /\ (f + m) * d \in Int /\ (m - f) * d = -((f - m) * d)
  BY SMT
<1>2. CASE n >= 0
  <2> DEFINE q == n \div d
  <2>1. q \in Nat /\ q * d <= n /\ n < (q + 1) * d /\ Quotient(n, d) = q
    BY <1>2, Division DEF Quotient
  <2> HIDE DEF q
  <2>2. q * d \in Int /\ (q + 1) * d \in Int /\ (f + m + 1) * d = (f + m) * d + d
    BY <2>1, SMT
  <2>3. q * d < (f + m + 1) * d /\ (f - m) * d < (q + 1) * d
    BY <1>1, <2>1, <2>2, SMT
  <2>4. q < f + m + 1 /\ f - m < q + 1
    BY <2>1, <2>3, Monotone, SMT
  <2> QED
    BY <2>1, <2>4, SMT
<1>3. CASE n < 0
  <2> DEFINE q == (-n) \div d
  <2>1. q \in Nat /\ q * d <= -n /\ Quotient(n, d) = -q
    BY <1>3, Division, SMT DEF Quotient
  <2> HIDE DEF q
  <2>2. q * d \in Int /\ (m - f + 1) * d = (m - f) * d + d
    BY <2>1, SMT
  <2>3. q * d < (m - f + 1) * d
    BY <1>1, <2>1, <2>2, SMT
  <2>4. q < m - f + 1
    BY <2>1, <2>3, Monotone, SMT
  <2> QED
    BY <2>1, <2>4, SMT
<1> QED
  BY <1>2, <1>3, SMT

(* One side of the bound; the other is the same of -e1, -e2 and -e3.       *)
LEMMA ErrorBound ==
  ASSUME NEW a \in Nat, NEW b \in Nat, NEW f \in Nat, NEW m \in Nat,
         NEW x \in Nat, NEW y \in Nat, NEW z \in Nat,
         m <= a, m <= b, y <= 2 * m
  PROVE  0 <= a * (x + y) + b * (z + x) + f * (2 * x + y + z) + x * (z - y)
<1>1. a + b + 2 * f + z - y \in Nat
  BY SMT
<1>2. /\ x * (a + b + 2 * f + z - y) \in Nat
      /\ a * y \in Nat /\ b * z \in Nat /\ f * (y + z) \in Nat
  BY <1>1, NatProduct, SMT
<1>3. a * (x + y) + b * (z + x) + f * (2 * x + y + z) + x * (z - y)
        = x * (a + b + 2 * f + z - y) + a * y + b * z + f * (y + z)
  BY SMT
<1> QED
  BY <1>2, <1>3, SMT

LEMMA FlightBetween ==
  ASSUME NEW a \in Nat, NEW b \in Nat, NEW f \in Nat, NEW m \in Nat,
         NEW e1 \in -m .. m, NEW e2 \in -m .. m, NEW e3 \in -m .. m,
         m <= a, m < b
  PROVE  TimeOfFlight(a + 2 * f + e2, a - e1, b + 2 * f + e3, b - e2) - f \in -m .. m
<1> DEFINE n == (a + 2 * f + e2) * (b + 2 * f + e3) - (a - e1) * (b - e2)
           d == (a + 2 * f + e2) + (b + 2 * f + e3) + (a - e1) + (b - e2)
<1>1. n \in Int /\ d \in Nat \ {0}
  BY SMT
<1>2. (f + m) * d - n
        = a * ((m - e2) + (m - e3)) + b * ((m - e1) + (m - e2))
          + f * (2 * (m - e2) + (m - e3) + (m - e1)) + (m - e2) * ((m - e1) - (m - e3))
  BY SMT
<1>3. n - (f - m) * d
        = b * ((m + e2) + (m + e1)) + a * ((m + e3) + (m + e2))
          + f * (2 * (m + e2) + (m + e1) + (m + e3)) + (m + e2) * ((m + e3) - (m + e1))
  BY SMT
<1>4. /\ m - e1 \in Nat /\ m - e2 \in Nat /\ m - e3 \in Nat
      /\ m + e1 \in Nat /\ m + e2 \in Nat /\ m + e3 \in Nat
      /\ m - e3 <= 2 * m /\ m + e1 <= 2 * m /\ m <= b
  BY SMT
<1>5. 0 <= (f + m) * d - n
  BY <1>2, <1>4, ErrorBound
<1>6. 0 <= n - (f - m) * d
  BY <1>3, <1>4, ErrorBound
<1>7. TimeOfFlight(a + 2 * f + e2, a - e1, b + 2 * f + e3, b - e2) = Quotient(n, d)
  <2>1. (a + 2 * f + e2) + (b + 2 * f + e3) + (a - e1) + (b - e2) = d
    OBVIOUS
  <2> QED
    BY DEF TimeOfFlight
<1> HIDE DEF n, d
<1>8. (f + m) * d \in Int /\ (f - m) * d \in Int
  BY <1>1, SMT
<1>9. (f - m) * d <= n /\ n <= (f + m) * d
  BY <1>1, <1>5, <1>6, <1>8, SMT
<1> QED
  BY <1>1, <1>7, <1>9, QuotientBetween

LEMMA InvFlightWithinError == Inv => FlightWithinError
<1> SUFFICES ASSUME Inv, pc = "ranged"
             PROVE  computeRange - flight \in -MaxError .. MaxError
  BY DEF FlightWithinError
<1>1. /\ flight \in Nat /\ elapsed1 \in Nat /\ elapsed2 \in Nat /\ MaxError \in Nat
      /\ MaxError <= elapsed1 /\ MaxError < elapsed2
      /\ error1 \in -MaxError .. MaxError /\ error2 \in -MaxError .. MaxError
      /\ error3 \in -MaxError .. MaxError
  BY Constants, WaitAssumption, SMT DEF Inv, TypeOK, PhaseOK, Error
<1>2. /\ round1 = elapsed1 + 2 * flight + error2 /\ reply1 = elapsed1 - error1
      /\ round2 = elapsed2 + 2 * flight + error3 /\ reply2 = elapsed2 - error2
  BY DEF Inv, DurationsTrue
<1> QED
  BY <1>1, <1>2, FlightBetween DEF computeRange

(* The time of flight is wrong by no more than the worst stamp, whatever   *)
(* the waits of anchor and tag and wherever the clocks overflow.           *)
THEOREM FlightErrors == Spec => []FlightWithinError
  BY Invariance, InvFlightWithinError, PTL
================================================================================
