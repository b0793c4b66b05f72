----------------------------- MODULE Driver_proofs -----------------------------
(***************************************************************************)
(* The driver's invariants, for every build: its types, that it listens    *)
(* when both tasks have ended, that the configuration is kept, that no     *)
(* wake-up is lost, and that loop() is told of what has happened only.     *)
(*                                                                         *)
(* The properties are about tasks with any number of steps before them, so *)
(* the proofs are about sequences: Has(c, K), a step of K is still to      *)
(* come; Pays(c, O, K), each step of O has one of K after it.  Whatever is *)
(* called puts in front of the rest a body that pays its own debts         *)
(* (Proper), so that what a task owed before the call it owes after it.    *)
(*                                                                         *)
(*   ListensWhenAtRest  whatever leaves the receive mode, holds the chip   *)
(*      or drops the receiver's bit has its opposite still to come, in     *)
(*      one task or the other (Listens): with nothing to come, all is done *)
(*   KeepsConfiguration  no step before the setDefaults of a newReceive    *)
(*      or newTransmit leaves the mode idle, on one core (ModeKept)        *)
(*   WakeUps  handleInterrupt always still has the clearing of all bits    *)
(*      before it, and the transfer of that clearing is not cut before     *)
(*      the write (Ends, Tidy); only a read of the status undoes the       *)
(*      marking, and loop() makes none                                     *)
(*   TellsEvents  the tests come after the read and before any call that   *)
(*      marks all bits (InOrder): the cache they read is the status's      *)
(***************************************************************************)
EXTENDS Driver, SequenceTheorems, TLAPS

(* Sequence c has a step of K; and every step of O in it is followed, not  *)
(* necessarily at once, by one of K: whoever owes pays before it ends.     *)
Has(c, K) == \E i \in DOMAIN c : c[i] \in K
Pays(c, O, K) == \A i \in DOMAIN c : c[i] \in O => \E j \in DOMAIN c : j > i /\ c[j] \in K

LEMMA Concat == \A S : \A a, b \in Seq(S) : a \o b \in Seq(S)
  OBVIOUS

LEMMA Regroup == \A S : \A a, b, c \in Seq(S) : a \o (b \o c) = (a \o b) \o c
  BY ConcatAssociative

LEMMA Indices ==
  ASSUME NEW S, NEW a \in Seq(S), NEW b \in Seq(S)
  PROVE  /\ \A i \in DOMAIN a : i \in DOMAIN (a \o b) /\ (a \o b)[i] = a[i]
         /\ \A i \in DOMAIN b : Len(a) + i \in DOMAIN (a \o b) /\ (a \o b)[Len(a) + i] = b[i]
         /\ \A k \in DOMAIN (a \o b) :
              k \in DOMAIN a \/ \E i \in DOMAIN b : k = Len(a) + i
         /\ Len(a) \in Nat /\ DOMAIN a = 1 .. Len(a) /\ DOMAIN b = 1 .. Len(b) /\ Len(b) \in Nat
<1>1. /\ Len(a \o b) = Len(a) + Len(b) /\ a \o b \in Seq(S)
      /\ \A i \in 1 .. Len(a) + Len(b) :
           (a \o b)[i] = IF i <= Len(a) THEN a[i] ELSE b[i - Len(a)]
  BY ConcatProperties
<1>2. /\ Len(a) \in Nat /\ Len(b) \in Nat /\ DOMAIN a = 1 .. Len(a) /\ DOMAIN b = 1 .. Len(b)
      /\ DOMAIN (a \o b) = 1 .. Len(a) + Len(b)
  BY <1>1, LenProperties
<1>3. \A i \in DOMAIN a : i \in DOMAIN (a \o b) /\ (a \o b)[i] = a[i]
  BY <1>1, <1>2
<1>4. \A i \in DOMAIN b : Len(a) + i \in DOMAIN (a \o b) /\ (a \o b)[Len(a) + i] = b[i]
  <2> SUFFICES ASSUME NEW i \in DOMAIN b
               PROVE  Len(a) + i \in DOMAIN (a \o b) /\ (a \o b)[Len(a) + i] = b[i]
    OBVIOUS
  <2>1. Len(a) + i \in 1 .. Len(a) + Len(b) /\ ~(Len(a) + i <= Len(a)) /\ (Len(a) + i) - Len(a) = i
    BY <1>2
  <2> QED
    BY <1>1, <1>2, <2>1
<1>5. ASSUME NEW k \in DOMAIN (a \o b), k \notin DOMAIN a
      PROVE  \E i \in DOMAIN b : k = Len(a) + i
  <2>1. k - Len(a) \in DOMAIN b /\ k = Len(a) + (k - Len(a))
    BY <1>2, <1>5
  <2> QED
    BY <2>1
<1> QED
  BY <1>2, <1>3, <1>4, <1>5

LEMMA HasConcat ==
  ASSUME NEW S, NEW a \in Seq(S), NEW b \in Seq(S), NEW K
  PROVE  Has(a \o b, K) <=> Has(a, K) \/ Has(b, K)
<1>1. ASSUME Has(a \o b, K) PROVE Has(a, K) \/ Has(b, K)
  <2>1. PICK k \in DOMAIN (a \o b) : (a \o b)[k] \in K
    BY <1>1 DEF Has
  <2>2. CASE k \in DOMAIN a
    BY <2>1, <2>2, Indices DEF Has
  <2>3. CASE \E i \in DOMAIN b : k = Len(a) + i
    <3>1. PICK i \in DOMAIN b : k = Len(a) + i
      BY <2>3
    <3>2. b[i] \in K
      BY <2>1, <3>1, Indices
    <3> QED
      BY <3>2 DEF Has
  <2> QED
    BY <2>2, <2>3, Indices
<1>2. ASSUME Has(a, K) PROVE Has(a \o b, K)
  BY <1>2, Indices DEF Has
<1>3. ASSUME Has(b, K) PROVE Has(a \o b, K)
  <2>1. PICK i \in DOMAIN b : b[i] \in K
    BY <1>3 DEF Has
  <2>2. Len(a) + i \in DOMAIN (a \o b) /\ (a \o b)[Len(a) + i] \in K
    BY <2>1, Indices
  <2> QED
    BY <2>2 DEF Has
<1> QED
  BY <1>1, <1>2, <1>3

LEMMA PaysLast ==
  ASSUME NEW S, NEW a \in Seq(S), NEW b \in Seq(S), NEW O, NEW K,
         Pays(b, O, K), Pays(a, O, K) \/ Has(b, K)
  PROVE  Pays(a \o b, O, K)
<1> SUFFICES ASSUME NEW k \in DOMAIN (a \o b), (a \o b)[k] \in O
             PROVE  \E m \in DOMAIN (a \o b) : m > k /\ (a \o b)[m] \in K
  BY DEF Pays
<1>1. CASE k \in DOMAIN a
  <2>1. a[k] \in O
    BY <1>1, Indices
  <2>2. CASE Pays(a, O, K)
    <3>1. PICK m \in DOMAIN a : m > k /\ a[m] \in K
      BY <1>1, <2>1, <2>2 DEF Pays
    <3>2. m \in DOMAIN (a \o b) /\ (a \o b)[m] \in K
      BY <3>1, Indices
    <3> QED
      BY <3>1, <3>2
  <2>3. CASE Has(b, K)
    <3>1. PICK i \in DOMAIN b : b[i] \in K
      BY <2>3 DEF Has
    <3>2. Len(a) + i \in DOMAIN (a \o b) /\ (a \o b)[Len(a) + i] \in K
      BY <3>1, Indices
    <3>3. Len(a) + i > k
      <4>1. k \in 1 .. Len(a) /\ i \in 1 .. Len(b) /\ Len(a) \in Nat /\ Len(b) \in Nat
        BY <1>1, Indices
      <4> QED
        BY <4>1
    <3> QED
      BY <3>2, <3>3
  <2> QED
    BY <2>2, <2>3
<1>2. CASE \E i \in DOMAIN b : k = Len(a) + i
  <2>1. PICK i \in DOMAIN b : k = Len(a) + i
    BY <1>2
  <2>2. b[i] \in O
    BY <2>1, Indices
  <2>3. PICK j \in DOMAIN b : j > i /\ b[j] \in K
    BY <2>2 DEF Pays
  <2>4. Len(a) + j \in DOMAIN (a \o b) /\ (a \o b)[Len(a) + j] \in K
    BY <2>3, Indices
  <2>5. Len(a) + j > k
    <3>1. i \in 1 .. Len(b) /\ j \in 1 .. Len(b) /\ Len(a) \in Nat /\ Len(b) \in Nat
      BY Indices
    <3> QED
      BY <2>1, <2>3, <3>1
  <2> QED
    BY <2>4, <2>5
<1> QED
  BY <1>1, <1>2, Indices

LEMMA First ==
  ASSUME NEW S, NEW c \in Seq(S), c # <<>>
  PROVE  Head(c) \in S /\ Tail(c) \in Seq(S) /\ c = <<Head(c)>> \o Tail(c)
  OBVIOUS

LEMMA Single ==
  ASSUME NEW x, NEW K
  PROVE  Has(<<x>>, K) <=> x \in K
<1>1. DOMAIN <<x>> = {1} /\ <<x>>[1] = x
  OBVIOUS
<1> QED
  BY <1>1 DEF Has

LEMMA PaysTail ==
  ASSUME NEW S, NEW c \in Seq(S), c # <<>>, NEW O, NEW K, Pays(c, O, K)
  PROVE  /\ Pays(Tail(c), O, K)
         /\ Head(c) \in O => Has(Tail(c), K)
<1> DEFINE r == Tail(c)
<1>1. /\ r \in Seq(S) /\ Len(r) \in Nat /\ Len(c) = Len(r) + 1
      /\ DOMAIN c = 1 .. Len(r) + 1 /\ DOMAIN r = 1 .. Len(r)
      /\ \A i \in 1 .. Len(r) : r[i] = c[i + 1]
      /\ c[1] = Head(c)
  BY HeadTailProperties, LenProperties
<1> HIDE DEF r
<1>2. ASSUME NEW i \in DOMAIN c, NEW j \in DOMAIN c, j > i
      PROVE  j - 1 \in DOMAIN r /\ r[j - 1] = c[j]
  <2>1. j - 1 \in 1 .. Len(r) /\ (j - 1) + 1 = j
    BY <1>1, <1>2
  <2> QED
    BY <1>1, <2>1
<1>3. Pays(r, O, K)
  <2> SUFFICES ASSUME NEW i \in DOMAIN r, r[i] \in O
               PROVE  \E j \in DOMAIN r : j > i /\ r[j] \in K
    BY DEF Pays
  <2>1. i + 1 \in DOMAIN c /\ c[i + 1] \in O
    BY <1>1
  <2>2. PICK j \in DOMAIN c : j > i + 1 /\ c[j] \in K
    BY <2>1 DEF Pays
  <2>3. j - 1 \in DOMAIN r /\ r[j - 1] = c[j]
    BY <1>2, <2>1, <2>2
  <2>4. j - 1 > i
    BY <1>1, <2>2
  <2> QED
    BY <2>2, <2>3, <2>4
<1>4. ASSUME Head(c) \in O PROVE Has(r, K)
  <2>1. 1 \in DOMAIN c /\ c[1] \in O
    BY <1>1, <1>4
  <2>2. PICK j \in DOMAIN c : j > 1 /\ c[j] \in K
    BY <2>1 DEF Pays
  <2> QED
    BY <1>2, <2>1, <2>2 DEF Has
<1> QED
  BY <1>3, <1>4 DEF r

LEMMA Clean ==
  ASSUME NEW S, NEW c \in Seq(S), NEW O, S \cap O = {}
  PROVE  ~Has(c, O) /\ \A K : Pays(c, O, K)
<1>1. \A i \in DOMAIN c : c[i] \in S
  OBVIOUS
<1> QED
  BY <1>1 DEF Has, Pays

LEMMA Owing ==
  ASSUME NEW c, NEW O, NEW K, Pays(c, O, K), Has(c, O)
  PROVE  Has(c, K)
  BY DEF Pays, Has

LEMMA One == \A S : \A x \in S : <<x>> \in Seq(S)
  OBVIOUS

LEMMA Two == \A S : \A x, y \in S : <<x, y>> \in Seq(S)
  OBVIOUS

LEMMA Empty == \A S : <<>> \in Seq(S)
  OBVIOUS

LEMMA Wider ==
  ASSUME NEW S, NEW T, S \subseteq T
  PROVE  Seq(S) \subseteq Seq(T)
  BY SeqMonotonic

---------------------------------------------------------------------------
(* The steps of the tasks *)

(* The steps of what both tasks call; those that only loop() makes come to *)
(* them, and those that only handleInterrupt makes.                        *)
LoopOnly == {Do("SetDefaults"), Do("ReceivePermanently"), Do("SetDelay"),
             Do("IfPermanentThenReceive")}
IrqOnly == {Do("ReadStatus"), Do("IfTransmitDone"), Do("IfReceiveDone")}
Plain == Step \ (LoopOnly \cup IrqOnly)
Quiet == Step \ IrqOnly
IrqStep == Step \ LoopOnly

LEMMA PlainSteps ==
  /\ \A what \in {"Select", "Deselect", "Other", "WriteStatus", "PrepareIdle", "ClearCtrl",
                  "MarkReceive", "MarkTransmit", "MarkAll"} : Do(what) \in Plain
  /\ \A how \in {"", "now", "delayed"} : <<"WriteCtrl", how>> \in Plain
  /\ \A bit \in ControlBit : SetCtrl(bit) \in Plain
  /\ \A mode \in {"IDLE", "RX", "TX"} : SetMode(mode) \in Plain
  BY DEF Plain, Step, Do, SetCtrl, SetMode, LoopOnly, IrqOnly

LEMMA OnlySteps ==
  /\ Plain \subseteq Quiet /\ Plain \subseteq IrqStep
  /\ Quiet \subseteq Step /\ IrqStep \subseteq Step
  /\ LoopOnly \subseteq Quiet /\ IrqOnly \subseteq IrqStep
<1>1. \A x, y : Do(x) = Do(y) => x = y
  BY DEF Do
<1>2. \A what \in {"SetDefaults", "ReceivePermanently", "SetDelay", "IfPermanentThenReceive",
                 "ReadStatus", "IfTransmitDone", "IfReceiveDone"} : Do(what) \in Step
  BY DEF Do, Step
<1>3. LoopOnly \subseteq Step /\ IrqOnly \subseteq Step
  BY <1>2 DEF LoopOnly, IrqOnly
<1>4. LoopOnly \cap IrqOnly = {}
  BY <1>1 DEF LoopOnly, IrqOnly
<1> QED
  BY <1>3, <1>4 DEF Plain, Quiet, IrqStep

(* Steps that have nothing to do with what the promises below are about.   *)
Writes == {<<"WriteCtrl", how>> : how \in {"", "now", "delayed"}}
Calm == {Do("Select"), Do("Deselect"), Do("Other"), Do("WriteStatus"), Do("MarkReceive"),
         Do("MarkTransmit"), Do("MarkAll")} \cup Writes

LEMMA CalmIsPlain == Calm \subseteq Plain
  BY PlainSteps DEF Calm, Writes

LEMMA SpiSteps ==
  ASSUME NEW S, NEW access \in S, Do("Select") \in S, Do("Deselect") \in S
  PROVE  Spi(access) \in Seq(S) /\ \A K : access \in K => Has(Spi(access), K)
<1>1. CASE build.whole
  <2>1. Spi(access) = <<access>>
    BY <1>1 DEF Spi
  <2> QED
    BY <2>1, One, Single
<1>2. CASE ~build.whole
  <2>1. Spi(access) = <<Do("Select"), access, Do("Deselect")>>
    BY <1>2 DEF Spi
  <2>2. ASSUME NEW x, NEW y, NEW z, NEW K, y \in K PROVE Has(<<x, y, z>>, K)
    <3>1. 2 \in DOMAIN <<x, y, z>> /\ <<x, y, z>>[2] = y
      OBVIOUS
    <3> QED
      BY <2>2, <3>1 DEF Has
  <2>3. \A x, y, z \in S : <<x, y, z>> \in Seq(S)
    OBVIOUS
  <2> QED
    BY <2>1, <2>2, <2>3
<1> QED
  BY <1>1, <1>2

LEMMA CalmBodies ==
  /\ OtherTransfer \in Seq(Calm) /\ ClearReceiveStatus \in Seq(Calm)
  /\ ClearTransmitStatus \in Seq(Calm) /\ ClearAllStatus \in Seq(Calm)
  /\ <<>> \in Seq(Calm) /\ OtherTransfer \o OtherTransfer \in Seq(Calm)
  /\ \A how \in {"", "now", "delayed"} :
       Spi(<<"WriteCtrl", how>>) \in Seq(Calm) /\ Has(Spi(<<"WriteCtrl", how>>), Writes)
<1>1. Do("Select") \in Calm /\ Do("Deselect") \in Calm
  BY DEF Calm
<1>2. /\ \A what \in {"Other", "WriteStatus", "MarkReceive", "MarkTransmit", "MarkAll"} :
           Do(what) \in Calm
      /\ \A how \in {"", "now", "delayed"} : <<"WriteCtrl", how>> \in Calm \cap Writes
  BY DEF Calm, Writes
<1>3. Spi(Do("Other")) \in Seq(Calm) /\ Spi(Do("WriteStatus")) \in Seq(Calm)
  BY <1>1, <1>2, SpiSteps
<1>4. \A how \in {"", "now", "delayed"} :
       Spi(<<"WriteCtrl", how>>) \in Seq(Calm) /\ Has(Spi(<<"WriteCtrl", how>>), Writes)
  BY <1>1, <1>2, SpiSteps
<1>5. \A what \in {"MarkReceive", "MarkTransmit", "MarkAll"} : <<Do(what)>> \in Seq(Calm)
  BY <1>2, One
<1>6. /\ <<Do("MarkReceive")>> \o Spi(Do("WriteStatus")) \in Seq(Calm)
      /\ <<Do("MarkTransmit")>> \o Spi(Do("WriteStatus")) \in Seq(Calm)
      /\ <<Do("MarkAll")>> \o Spi(Do("WriteStatus")) \in Seq(Calm)
  BY <1>3, <1>5, Concat
<1> QED
  BY <1>3, <1>4, <1>6, Concat, Empty
     DEF OtherTransfer, ClearReceiveStatus, ClearTransmitStatus, ClearAllStatus

(* Which bodies are whose.                                                 *)
LEMMA Bodies ==
  /\ \A body \in {<<>>, ClearReceiveStatus, ClearTransmitStatus, ClearAllStatus,
                  ClearReceiveStatus \o Restart, OtherTransfer, OtherTransfer \o OtherTransfer,
                  NewReceive, NewTransmit, StartReceive,
                  <<Do("ClearCtrl"), SetMode("RX")>> \o StartReceive} :
       body \in Seq(Plain)
  /\ \A body \in {Receiver, OtherTransfer \o Receiver, Transmit,
                  OtherTransfer \o TransmitDelayed} : body \in Seq(Quiet)
  /\ \A how \in {"now", "delayed"} : StartTransmit(how) \in Seq(Quiet)
  /\ HandleInterrupt \in Seq(IrqStep)
<1>1. Seq(Calm) \subseteq Seq(Plain) /\ Seq(Plain) \subseteq Seq(Quiet)
      /\ Seq(Plain) \subseteq Seq(IrqStep)
  BY CalmIsPlain, OnlySteps, Wider
<1>2. /\ \A bit \in ControlBit : <<SetCtrl(bit)>> \in Seq(Plain)
      /\ \A mode \in {"IDLE", "RX", "TX"} : <<SetMode(mode)>> \in Seq(Plain)
      /\ <<Do("PrepareIdle")>> \in Seq(Plain) /\ <<Do("ClearCtrl")>> \in Seq(Plain)
      /\ <<Do("ClearCtrl"), SetMode("RX")>> \in Seq(Plain)
  BY PlainSteps, One, Two
<1>3. /\ <<Do("SetDefaults")>> \in Seq(Quiet) /\ <<Do("SetDelay")>> \in Seq(Quiet)
      /\ <<Do("IfPermanentThenReceive")>> \in Seq(Quiet)
      /\ <<Do("SetDefaults"), Do("ReceivePermanently")>> \in Seq(Quiet)
  BY OnlySteps, One, Two DEF LoopOnly
<1>4. Spi(Do("WriteCtrl")) \in Seq(Plain)
  BY <1>1, CalmBodies DEF Do
<1>5. \A how \in {"", "now", "delayed"} : Spi(<<"WriteCtrl", how>>) \in Seq(Plain)
  BY <1>1, CalmBodies
<1>6. Idle \in Seq(Plain)
  BY <1>2, <1>4, Concat DEF Idle
<1>7. NewReceive \in Seq(Plain) /\ NewTransmit \in Seq(Plain)
  BY <1>1, <1>2, <1>6, CalmBodies, Concat DEF NewReceive, NewTransmit
<1>8. StartReceive \in Seq(Plain)
  BY <1>2, <1>4, Concat DEF StartReceive, ControlBit
<1>9. ASSUME NEW how \in {"now", "delayed"} PROVE StartTransmit(how) \in Seq(Quiet)
  <2>1. OtherTransfer \in Seq(Quiet) /\ <<SetCtrl("TXSTRT")>> \in Seq(Quiet)
        /\ Spi(<<"WriteCtrl", how>>) \in Seq(Quiet)
    BY <1>1, <1>2, <1>5, CalmBodies DEF ControlBit
  <2> QED
    BY <1>3, <2>1, Concat DEF StartTransmit
<1>10. Receiver \in Seq(Quiet)
  <2>1. NewReceive \in Seq(Quiet) /\ StartReceive \in Seq(Quiet)
    BY <1>1, <1>7, <1>8
  <2> QED
    BY <1>3, <2>1, Concat DEF Receiver
<1>11. OtherTransfer \in Seq(Quiet)
  BY <1>1, CalmBodies
<1>12. TransmitInit \in Seq(Quiet)
  BY <1>1, <1>3, <1>7, Concat DEF TransmitInit
<1>13. Transmit \in Seq(Quiet) /\ TransmitDelayed \in Seq(Quiet)
  <2>1. StartTransmit("now") \in Seq(Quiet) /\ StartTransmit("delayed") \in Seq(Quiet)
    BY <1>9
  <2> QED
    BY <1>3, <1>11, <1>12, <2>1, Concat DEF Transmit, TransmitDelayed
<1>14. HandleInterrupt \in Seq(IrqStep)
  <2>1. Spi(Do("ReadStatus")) \in Seq(IrqStep)
    <3>1. Do("ReadStatus") \in IrqStep /\ Do("Select") \in IrqStep /\ Do("Deselect") \in IrqStep
      BY PlainSteps, OnlySteps DEF IrqOnly
    <3> QED
      BY <3>1, SpiSteps
  <2>2. <<Do("IfTransmitDone"), Do("IfReceiveDone")>> \in Seq(IrqStep)
    BY OnlySteps, Two DEF IrqOnly
  <2>3. ClearAllStatus \in Seq(IrqStep)
    BY <1>1, CalmBodies
  <2> QED
    BY <2>1, <2>2, <2>3, Concat DEF HandleInterrupt
<1>15. Restart \in Seq(Plain)
  BY <1>7, <1>8, Empty, Concat DEF Restart
<1>16. /\ ClearReceiveStatus \o Restart \in Seq(Plain)
       /\ <<Do("ClearCtrl"), SetMode("RX")>> \o StartReceive \in Seq(Plain)
  BY <1>1, <1>2, <1>8, <1>15, CalmBodies, Concat
<1>17. OtherTransfer \o Receiver \in Seq(Quiet) /\ OtherTransfer \o TransmitDelayed \in Seq(Quiet)
  BY <1>10, <1>11, <1>13, Concat
<1>18. /\ <<>> \in Seq(Plain) /\ OtherTransfer \in Seq(Plain)
       /\ OtherTransfer \o OtherTransfer \in Seq(Plain) /\ ClearReceiveStatus \in Seq(Plain)
       /\ ClearTransmitStatus \in Seq(Plain) /\ ClearAllStatus \in Seq(Plain)
  BY <1>1, CalmBodies
<1> QED
  BY <1>7, <1>8, <1>9, <1>10, <1>13, <1>14, <1>16, <1>17, <1>18

---------------------------------------------------------------------------
(* What the rest of a task's steps promises *)

(* After leaving receive mode it is entered again, after TRXOFF or TXSTRT  *)
(* the cached control register is cleared, after that the receiver is      *)
(* started, and what is started is written.  IfPermanentThenReceive does   *)
(* the first three, once the receiver is permanent.                        *)
Branch == Do("IfPermanentThenReceive")
Leaves == {Do("PrepareIdle"), SetMode("TX"), SetMode("IDLE")}
Enters == {SetMode("RX"), Branch}
Holds == {Do("PrepareIdle"), SetCtrl("TRXOFF"), SetCtrl("TXSTRT")}
Frees == {Do("ClearCtrl"), Branch}
Drops == {Do("ClearCtrl"), Do("ReceivePermanently")}
Raises == {SetCtrl("RXENAB"), Branch}
Enables == {SetCtrl("RXENAB")}

Honors(c) ==
  /\ Pays(c, Leaves, Enters)
  /\ Pays(c, Holds, Frees)
  /\ Pays(c, Drops, Raises)
  /\ Pays(c, Enables, Writes)

Neutral == Calm \cup IrqOnly \cup {Do("SetDefaults"), Do("SetDelay")}

LEMMA Kinds ==
  /\ Neutral \cap (Leaves \cup Holds \cup Drops \cup Enables) = {}
  /\ Do("PrepareIdle") \notin Drops \cup Enables
  /\ Do("ClearCtrl") \notin Leaves \cup Holds \cup Enables /\ Do("ClearCtrl") \in Frees
  /\ SetMode("RX") \notin Leaves \cup Holds \cup Drops \cup Enables /\ SetMode("RX") \in Enters
  /\ SetMode("TX") \notin Holds \cup Drops \cup Enables
  /\ Do("ReceivePermanently") \notin Leaves \cup Holds \cup Enables
  /\ SetCtrl("RXENAB") \notin Leaves \cup Holds \cup Drops /\ SetCtrl("RXENAB") \in Raises
  /\ SetCtrl("TXSTRT") \notin Leaves \cup Drops \cup Enables
  /\ Branch \notin Leaves \cup Holds \cup Drops \cup Enables
  /\ Branch \in Enters /\ Branch \in Frees /\ Branch \in Raises
<1>1. \A x, y : Do(x) = Do(y) => x = y
  BY DEF Do
<1>2. \A x, y : SetMode(x) = SetMode(y) => x = y
  BY DEF SetMode
<1>3. \A x, y : SetCtrl(x) = SetCtrl(y) => x = y
  BY DEF SetCtrl
<1>4. /\ \A x, y : Do(x) = SetMode(y) => x = "SetMode"
      /\ \A x, y : Do(x) = SetCtrl(y) => x = "SetCtrl"
      /\ \A x, y : SetMode(x) # SetCtrl(y)
      /\ \A x, y : Do(x) = <<"WriteCtrl", y>> => x = "WriteCtrl"
      /\ \A x, y : SetMode(x) # <<"WriteCtrl", y>>
      /\ \A x, y : SetCtrl(x) # <<"WriteCtrl", y>>
  BY DEF Do, SetMode, SetCtrl
<1>5. Neutral \cap (Leaves \cup Holds \cup Drops \cup Enables) = {}
  <2> SUFFICES ASSUME NEW x \in Neutral
               PROVE  x \notin Leaves \cup Holds \cup Drops \cup Enables
    OBVIOUS
  <2>1. CASE x \in Writes
    BY <2>1, <1>4 DEF Writes, Leaves, Holds, Drops, Enables
  <2>2. CASE x \notin Writes
    <3>1. \E w \in {"Select", "Deselect", "Other", "WriteStatus", "MarkReceive", "MarkTransmit",
                    "MarkAll", "ReadStatus", "IfTransmitDone", "IfReceiveDone", "SetDefaults",
                    "SetDelay"} : x = Do(w)
      BY <2>2 DEF Neutral, Calm, IrqOnly
    <3> QED
      BY <3>1, <1>1, <1>4 DEF Leaves, Holds, Drops, Enables
  <2> QED
    BY <2>1, <2>2
<1> QED
  BY <1>1, <1>2, <1>3, <1>4, <1>5 DEF Leaves, Enters, Holds, Frees, Drops, Raises, Enables, Branch

LEMMA NeutralHonors ==
  ASSUME NEW c \in Seq(Neutral)
  PROVE  Honors(c)
<1>1. /\ Neutral \cap Leaves = {} /\ Neutral \cap Holds = {} /\ Neutral \cap Drops = {}
      /\ Neutral \cap Enables = {}
  BY Kinds
<1> QED
  BY <1>1, Clean DEF Honors

LEMMA CalmHonors ==
  ASSUME NEW c \in Seq(Calm)
  PROVE  Honors(c) /\ c \in Seq(Step)
<1>1. Calm \subseteq Neutral /\ Calm \subseteq Step
  BY CalmIsPlain, OnlySteps DEF Neutral
<1>2. c \in Seq(Neutral) /\ c \in Seq(Step)
  BY <1>1, Wider
<1> QED
  BY <1>2, NeutralHonors

(* A single step promises nothing that it is not itself about.             *)
LEMMA SinglePays ==
  ASSUME NEW x, NEW O, NEW K, x \notin O
  PROVE  Pays(<<x>>, O, K)
<1>1. DOMAIN <<x>> = {1} /\ <<x>>[1] = x
  OBVIOUS
<1> QED
  BY <1>1 DEF Pays

LEMMA PairPays ==
  ASSUME NEW x, NEW y, NEW O, NEW K, x \notin O, y \notin O
  PROVE  Pays(<<x, y>>, O, K)
<1>1. DOMAIN <<x, y>> = {1, 2} /\ <<x, y>>[1] = x /\ <<x, y>>[2] = y
  OBVIOUS
<1> QED
  BY <1>1 DEF Pays

LEMMA PairHas ==
  ASSUME NEW x, NEW y, NEW K
  PROVE  Has(<<x, y>>, K) <=> x \in K \/ y \in K
<1>1. DOMAIN <<x, y>> = {1, 2} /\ <<x, y>>[1] = x /\ <<x, y>>[2] = y
  OBVIOUS
<1> QED
  BY <1>1 DEF Has

LEMMA HonorsConcat ==
  ASSUME NEW a \in Seq(Step), NEW b \in Seq(Step), Honors(a), Honors(b)
  PROVE  Honors(a \o b) /\ a \o b \in Seq(Step)
  BY PaysLast, Concat DEF Honors

LEMMA StartReceiveHonors ==
  /\ StartReceive \in Seq(Step) /\ Honors(StartReceive)
  /\ Has(StartReceive, Raises) /\ Has(StartReceive, Writes)
<1> DEFINE on == <<SetCtrl("RXENAB")>>
           write == Spi(Do("WriteCtrl"))
<1>1. write \in Seq(Calm) /\ Has(write, Writes)
  BY CalmBodies DEF Do
<1>2. Honors(write) /\ write \in Seq(Step)
  BY <1>1, CalmHonors
<1>3. on \in Seq(Step)
  BY PlainSteps, OnlySteps, One DEF ControlBit
<1>4. Pays(on, Leaves, Enters) /\ Pays(on, Holds, Frees) /\ Pays(on, Drops, Raises)
  BY Kinds, SinglePays
<1>5. Has(on, Raises)
  BY Kinds, Single
<1>6. StartReceive = on \o write
  BY DEF StartReceive
<1> HIDE DEF on, write
<1>7. /\ Pays(on \o write, Leaves, Enters) /\ Pays(on \o write, Holds, Frees)
      /\ Pays(on \o write, Drops, Raises) /\ Pays(on \o write, Enables, Writes)
  BY <1>1, <1>2, <1>3, <1>4, PaysLast DEF Honors
<1>8. Has(on \o write, Raises) /\ Has(on \o write, Writes)
  BY <1>1, <1>2, <1>3, <1>5, HasConcat
<1> QED
  BY <1>2, <1>3, <1>6, <1>7, <1>8, Concat DEF Honors

LEMMA IdlePays ==
  /\ Idle \in Seq(Step) /\ Pays(Idle, Enables, Writes) /\ Pays(Idle, Drops, Raises)
<1>1. <<Do("PrepareIdle")>> \in Seq(Step) /\ Spi(Do("WriteCtrl")) \in Seq(Calm)
  BY PlainSteps, OnlySteps, One, CalmBodies DEF Do
<1>2. /\ Pays(<<Do("PrepareIdle")>>, Enables, Writes)
      /\ Pays(<<Do("PrepareIdle")>>, Drops, Raises)
  BY Kinds, SinglePays
<1>3. Spi(Do("WriteCtrl")) \in Seq(Step) /\ Honors(Spi(Do("WriteCtrl")))
  BY <1>1, CalmHonors
<1> QED
  BY <1>1, <1>2, <1>3, PaysLast, Concat DEF Idle, Honors

LEMMA NewPays ==
  ASSUME NEW mode \in {"RX", "TX"}, NEW clear \in {ClearReceiveStatus, ClearTransmitStatus}
  PROVE  LET c == Idle \o <<Do("ClearCtrl")>> \o clear \o <<SetMode(mode)>>
         IN  /\ c \in Seq(Step)
             /\ Pays(c, Holds, Frees) /\ Pays(c, Enables, Writes)
             /\ mode = "RX" => Pays(c, Leaves, Enters) /\ Has(c, Enters)
<1> DEFINE clr == <<Do("ClearCtrl")>>
           set == <<SetMode(mode)>>
<1>1. clr \in Seq(Step) /\ set \in Seq(Step) /\ Idle \in Seq(Step)
  BY PlainSteps, OnlySteps, One, IdlePays
<1>2. clear \in Seq(Step) /\ Honors(clear)
  BY CalmBodies, CalmHonors
<1>3. /\ Pays(clr, Leaves, Enters) /\ Pays(clr, Holds, Frees) /\ Pays(clr, Enables, Writes)
      /\ Has(clr, Frees)
  BY Kinds, SinglePays, Single
<1>4. /\ Pays(set, Holds, Frees) /\ Pays(set, Drops, Raises) /\ Pays(set, Enables, Writes)
      /\ mode = "RX" => Pays(set, Leaves, Enters) /\ Has(set, Enters)
  BY Kinds, SinglePays, Single
<1> HIDE DEF clr, set
<1>5. /\ Idle \o clr \in Seq(Step) /\ Pays(Idle \o clr, Holds, Frees)
      /\ Pays(Idle \o clr, Enables, Writes)
  BY <1>1, <1>3, IdlePays, PaysLast, Concat
<1>6. /\ Idle \o clr \o clear \in Seq(Step) /\ Pays(Idle \o clr \o clear, Holds, Frees)
      /\ Pays(Idle \o clr \o clear, Enables, Writes)
  BY <1>1, <1>2, <1>5, PaysLast, Concat DEF Honors
<1>7. /\ Idle \o clr \o clear \o set \in Seq(Step)
      /\ Pays(Idle \o clr \o clear \o set, Holds, Frees)
      /\ Pays(Idle \o clr \o clear \o set, Enables, Writes)
  BY <1>1, <1>4, <1>6, PaysLast, Concat
<1>8. mode = "RX" => /\ Pays(Idle \o clr \o clear \o set, Leaves, Enters)
                     /\ Has(Idle \o clr \o clear \o set, Enters)
  BY <1>1, <1>4, <1>6, PaysLast, HasConcat
<1> QED
  BY <1>7, <1>8 DEF clr, set

LEMMA NewBodiesPay ==
  /\ NewReceive \in Seq(Step) /\ NewTransmit \in Seq(Step)
  /\ Pays(NewReceive, Leaves, Enters) /\ Has(NewReceive, Enters)
  /\ Pays(NewReceive, Holds, Frees) /\ Pays(NewReceive, Enables, Writes)
  /\ Pays(NewTransmit, Enables, Writes)
<1>1. "RX" \in {"RX", "TX"} /\ "TX" \in {"RX", "TX"}
  OBVIOUS
<1>2. /\ ClearReceiveStatus \in {ClearReceiveStatus, ClearTransmitStatus}
      /\ ClearTransmitStatus \in {ClearReceiveStatus, ClearTransmitStatus}
  OBVIOUS
<1>3. /\ NewReceive \in Seq(Step) /\ Pays(NewReceive, Leaves, Enters)
      /\ Has(NewReceive, Enters) /\ Pays(NewReceive, Holds, Frees)
      /\ Pays(NewReceive, Enables, Writes)
  BY <1>1, <1>2, NewPays DEF NewReceive
<1>4. NewTransmit \in Seq(Step) /\ Pays(NewTransmit, Enables, Writes)
  BY <1>1, <1>2, NewPays DEF NewTransmit
<1> QED
  BY <1>3, <1>4

(* Steps that change no promise, before a body that keeps them all.        *)
LEMMA EndHonors ==
  ASSUME NEW a \in Seq(Step), Pays(a, Enables, Writes), NEW b \in Seq(Step), Honors(b),
         Has(b, Enters) \/ Pays(a, Leaves, Enters),
         Has(b, Frees) \/ Pays(a, Holds, Frees),
         Has(b, Raises) \/ Pays(a, Drops, Raises)
  PROVE  Honors(a \o b) /\ a \o b \in Seq(Step)
  BY PaysLast, Concat DEF Honors

LEMMA ReceiverHonors ==
  /\ Receiver \in Seq(Step) /\ Honors(Receiver)
  /\ Has(Receiver, {Do("ReceivePermanently")})
<1> DEFINE two == <<Do("SetDefaults"), Do("ReceivePermanently")>>
<1>1. two \in Seq(Step)
  BY OnlySteps, Two DEF LoopOnly
<1>2. /\ Pays(two, Leaves, Enters) /\ Pays(two, Holds, Frees) /\ Pays(two, Enables, Writes)
      /\ Has(two, {Do("ReceivePermanently")})
  <2>1. Do("SetDefaults") \notin Leaves \cup Holds \cup Enables
    BY Kinds DEF Neutral
  <2> QED
    BY <2>1, Kinds, PairPays, PairHas
<1> HIDE DEF two
<1>3. /\ NewReceive \o two \in Seq(Step)
      /\ Pays(NewReceive \o two, Leaves, Enters) /\ Pays(NewReceive \o two, Holds, Frees)
      /\ Pays(NewReceive \o two, Enables, Writes)
      /\ Has(NewReceive \o two, {Do("ReceivePermanently")})
  BY <1>1, <1>2, NewBodiesPay, PaysLast, HasConcat, Concat
<1>4. Receiver = NewReceive \o two \o StartReceive
  BY DEF Receiver, two
<1>5. Honors(NewReceive \o two \o StartReceive) /\ NewReceive \o two \o StartReceive \in Seq(Step)
  BY <1>3, StartReceiveHonors, EndHonors
<1>6. Has(NewReceive \o two \o StartReceive, {Do("ReceivePermanently")})
  BY <1>3, StartReceiveHonors, HasConcat
<1> QED
  BY <1>4, <1>5, <1>6

LEMMA RestartHonors ==
  /\ Restart \in Seq(Step) /\ Honors(Restart)
  /\ permanentReceive => Has(Restart, Raises)
<1>1. /\ Honors(NewReceive \o StartReceive) /\ NewReceive \o StartReceive \in Seq(Step)
      /\ Has(NewReceive \o StartReceive, Raises)
  BY NewBodiesPay, StartReceiveHonors, EndHonors, HasConcat
<1>2. Honors(<<>>) /\ <<>> \in Seq(Step)
  BY CalmBodies, CalmHonors
<1> QED
  BY <1>1, <1>2 DEF Restart

LEMMA BranchHonors ==
  LET c == <<Do("ClearCtrl"), SetMode("RX")>> \o StartReceive
  IN  /\ c \in Seq(Step) /\ Honors(c)
      /\ Has(c, Enters) /\ Has(c, Frees) /\ Has(c, Raises)
<1> DEFINE two == <<Do("ClearCtrl"), SetMode("RX")>>
<1>1. two \in Seq(Step)
  BY PlainSteps, OnlySteps, Two
<1>2. /\ Pays(two, Leaves, Enters) /\ Pays(two, Holds, Frees) /\ Pays(two, Enables, Writes)
      /\ Has(two, Enters) /\ Has(two, Frees)
  BY Kinds, PairPays, PairHas
<1> HIDE DEF two
<1>3. Honors(two \o StartReceive) /\ two \o StartReceive \in Seq(Step)
  BY <1>1, <1>2, StartReceiveHonors, EndHonors
<1>4. /\ Has(two \o StartReceive, Enters) /\ Has(two \o StartReceive, Frees)
      /\ Has(two \o StartReceive, Raises)
  BY <1>1, <1>2, StartReceiveHonors, HasConcat
<1> QED
  BY <1>3, <1>4 DEF two

LEMMA StartTransmitHonors ==
  ASSUME NEW how \in {"now", "delayed"}
  PROVE  LET c == StartTransmit(how)
         IN  /\ c \in Seq(Step) /\ Honors(c)
             /\ Has(c, Enters) /\ Has(c, Frees) /\ Has(c, Raises)
<1> DEFINE on == <<SetCtrl("TXSTRT")>>
           write == Spi(<<"WriteCtrl", how>>)
           branch == <<Branch>>
           a == OtherTransfer \o on \o write
<1>1. on \in Seq(Step) /\ branch \in Seq(Step)
  BY PlainSteps, OnlySteps, One DEF ControlBit, LoopOnly, Branch
<1>2. write \in Seq(Step) /\ Honors(write) /\ OtherTransfer \in Seq(Step) /\ Honors(OtherTransfer)
  BY CalmBodies, CalmHonors
<1>3. /\ Honors(branch) /\ Has(branch, Enters) /\ Has(branch, Frees) /\ Has(branch, Raises)
  BY Kinds, SinglePays, Single DEF Honors
<1>4. Pays(on, Enables, Writes)
  BY Kinds, SinglePays
<1>5. StartTransmit(how) = a \o branch
  BY DEF StartTransmit, Branch
<1> HIDE DEF on, write, branch
<1>6. OtherTransfer \o on \in Seq(Step) /\ Pays(OtherTransfer \o on, Enables, Writes)
  BY <1>1, <1>2, <1>4, PaysLast, Concat DEF Honors
<1>7. a \in Seq(Step) /\ Pays(a, Enables, Writes)
  BY <1>2, <1>6, PaysLast, Concat DEF Honors
<1> HIDE DEF a
<1>8. Honors(a \o branch) /\ a \o branch \in Seq(Step)
  BY <1>1, <1>3, <1>7, EndHonors
<1>9. Has(a \o branch, Enters) /\ Has(a \o branch, Frees) /\ Has(a \o branch, Raises)
  BY <1>1, <1>3, <1>7, HasConcat
<1> QED
  BY <1>5, <1>8, <1>9

LEMMA TransmitHonors ==
  /\ Transmit \in Seq(Step) /\ Honors(Transmit)
  /\ TransmitDelayed \in Seq(Step) /\ Honors(TransmitDelayed)
<1> DEFINE defaults == <<Do("SetDefaults")>>
           delay == <<Do("SetDelay")>>
<1>1. defaults \in Seq(Neutral) /\ delay \in Seq(Neutral)
  BY One DEF Neutral
<1>2. /\ defaults \in Seq(Step) /\ Honors(defaults) /\ delay \in Seq(Step) /\ Honors(delay)
  BY <1>1, NeutralHonors, OnlySteps, One DEF LoopOnly
<1>3. OtherTransfer \in Seq(Step) /\ Honors(OtherTransfer)
  BY CalmBodies, CalmHonors
<1>4. TransmitInit = NewTransmit \o defaults
  BY DEF TransmitInit
<1> HIDE DEF defaults, delay
<1>5. TransmitInit \in Seq(Step) /\ Pays(TransmitInit, Enables, Writes)
  BY <1>2, <1>4, NewBodiesPay, PaysLast, Concat DEF Honors
<1>6. /\ TransmitInit \o OtherTransfer \in Seq(Step)
      /\ Pays(TransmitInit \o OtherTransfer, Enables, Writes)
  BY <1>3, <1>5, PaysLast, Concat DEF Honors
<1>7. /\ TransmitInit \o delay \o OtherTransfer \in Seq(Step)
      /\ Pays(TransmitInit \o delay \o OtherTransfer, Enables, Writes)
  <2>1. TransmitInit \o delay \in Seq(Step) /\ Pays(TransmitInit \o delay, Enables, Writes)
    BY <1>2, <1>5, PaysLast, Concat DEF Honors
  <2> QED
    BY <1>3, <2>1, PaysLast, Concat DEF Honors
<1>8. \A how \in {"now", "delayed"} :
        LET c == StartTransmit(how)
        IN  c \in Seq(Step) /\ Honors(c) /\ Has(c, Enters) /\ Has(c, Frees) /\ Has(c, Raises)
  BY StartTransmitHonors
<1>9. Transmit \in Seq(Step) /\ Honors(Transmit)
  BY <1>6, <1>8, EndHonors DEF Transmit
<1>10. TransmitDelayed = TransmitInit \o delay \o OtherTransfer \o StartTransmit("delayed")
  BY DEF TransmitDelayed, delay
<1>11. TransmitDelayed \in Seq(Step) /\ Honors(TransmitDelayed)
  BY <1>7, <1>8, <1>10, EndHonors
<1> QED
  BY <1>9, <1>11

LEMMA HandleInterruptHonors ==
  /\ HandleInterrupt \in Seq(Step) /\ Honors(HandleInterrupt)
<1>1. Spi(Do("ReadStatus")) \in Seq(Neutral)
  <2>1. /\ Do("ReadStatus") \in Neutral /\ Do("Select") \in Neutral
        /\ Do("Deselect") \in Neutral
    BY DEF Neutral, IrqOnly, Calm
  <2> QED
    BY <2>1, SpiSteps
<1>2. <<Do("IfTransmitDone"), Do("IfReceiveDone")>> \in Seq(Neutral)
  BY Two DEF Neutral, IrqOnly
<1>3. ClearAllStatus \in Seq(Neutral)
  <2>1. Calm \subseteq Neutral
    BY DEF Neutral
  <2> QED
    BY <2>1, CalmBodies, Wider
<1>4. HandleInterrupt \in Seq(Neutral)
  BY <1>1, <1>2, <1>3, Concat DEF HandleInterrupt
<1>5. HandleInterrupt \in Seq(Step)
  BY Bodies, OnlySteps, Wider
<1> QED
  BY <1>4, <1>5, NeutralHonors

(* All that a task may have to do promises what it should.                 *)
LEMMA BodiesHonor ==
  \A body \in {<<>>, OtherTransfer, OtherTransfer \o OtherTransfer, ClearTransmitStatus,
               ClearReceiveStatus \o Restart, Receiver, OtherTransfer \o Receiver, Transmit,
               OtherTransfer \o TransmitDelayed, HandleInterrupt,
               <<Do("ClearCtrl"), SetMode("RX")>> \o StartReceive} :
    body \in Seq(Step) /\ Honors(body)
<1>1. \A body \in {<<>>, OtherTransfer, OtherTransfer \o OtherTransfer, ClearTransmitStatus,
                   ClearReceiveStatus} : body \in Seq(Step) /\ Honors(body)
  BY CalmBodies, CalmHonors
<1>2. /\ Honors(ClearReceiveStatus \o Restart) /\ ClearReceiveStatus \o Restart \in Seq(Step)
      /\ Honors(OtherTransfer \o Receiver) /\ OtherTransfer \o Receiver \in Seq(Step)
      /\ Honors(OtherTransfer \o TransmitDelayed) /\ OtherTransfer \o TransmitDelayed \in Seq(Step)
  BY <1>1, RestartHonors, ReceiverHonors, TransmitHonors, HonorsConcat
<1> QED
  BY <1>1, <1>2, ReceiverHonors, TransmitHonors, HandleInterruptHonors, BranchHonors

---------------------------------------------------------------------------
(* The steps still to do, whatever the fields and the chip hold *)

Reads == {Do("ReadStatus")}
Tests == {Do("IfReceiveDone")}

(* handleInterrupt reads the status once, at its start, and tests it later. *)
ReadsFirst(c) ==
  \/ ~Has(c, Reads)
  \/ \E r \in Seq(IrqStep) :
       /\ ~Has(r, Reads) /\ Has(r, Tests)
       /\ c = <<Do("ReadStatus")>> \o r \/ c = <<Do("Select")>> \o (<<Do("ReadStatus")>> \o r)

(* Once receivePermanently is called the receiver is always turned on     *)
(* again: newReceive's branch is still to find permanentReceive set.      *)
Permanent ==
  \/ permanentReceive
  \/ Has(code["loop"], {Do("ReceivePermanently")}) /\ ~Has(code["loop"], {Branch})

CodeInv ==
  /\ code \in [Task -> Seq(Step)]
  /\ code["loop"] \in Seq(Quiet) /\ code["irq"] \in Seq(IrqStep)
  /\ \A t \in Task : Honors(code[t])
  /\ ReadsFirst(code["irq"])
  /\ Permanent

(* Task t does step, and body comes in its place.                          *)
Moves(t, step, body) == AtStep(t, step) /\ Then(t, body)

LEMMA MovesCode ==
  ASSUME code \in [Task -> Seq(Step)], NEW t \in Task, NEW step, NEW body \in Seq(Step),
         Moves(t, step, body)
  PROVE  /\ step \in Step /\ Tail(code[t]) \in Seq(Step) /\ code[t] # <<>>
         /\ Head(code[t]) = step
         /\ code[t] = <<step>> \o Tail(code[t])
         /\ code'[t] = body \o Tail(code[t])
         /\ \A u \in Task \ {t} : code'[u] = code[u]
         /\ code' \in [Task -> Seq(Step)]
<1>1. code[t] \in Seq(Step) /\ code[t] # <<>> /\ Head(code[t]) = step
  BY DEF Moves, AtStep
<1>2. step \in Step /\ Tail(code[t]) \in Seq(Step) /\ code[t] = <<step>> \o Tail(code[t])
  BY <1>1, First
<1> DEFINE new == body \o Tail(code[t])
<1>3. code' = [code EXCEPT ![t] = new]
  BY DEF Moves, Then
<1>4. new \in Seq(Step)
  BY <1>2, Concat
<1> HIDE DEF new
<1>5. code'[t] = new /\ code' \in [Task -> Seq(Step)] /\ \A u \in Task \ {t} : code'[u] = code[u]
  BY <1>3, <1>4
<1> QED
  BY <1>1, <1>2, <1>5 DEF new

LEMMA HasHead ==
  ASSUME NEW S, NEW c \in Seq(S), c # <<>>, NEW K
  PROVE  Has(c, K) <=> Head(c) \in K \/ Has(Tail(c), K)
<1>1. Head(c) \in S /\ Tail(c) \in Seq(S) /\ c = <<Head(c)>> \o Tail(c) /\ <<Head(c)>> \in Seq(S)
  BY First, One
<1>2. Has(<<Head(c)>> \o Tail(c), K) <=> Has(<<Head(c)>>, K) \/ Has(Tail(c), K)
  BY <1>1, HasConcat
<1> QED
  BY <1>1, <1>2, Single

LEMMA TailHonors ==
  ASSUME NEW c \in Seq(Step), c # <<>>, Honors(c)
  PROVE  /\ Honors(Tail(c))
         /\ Head(c) \in Leaves => Has(Tail(c), Enters)
         /\ Head(c) \in Holds => Has(Tail(c), Frees)
         /\ Head(c) \in Drops => Has(Tail(c), Raises)
         /\ Head(c) \in Enables => Has(Tail(c), Writes)
  BY PaysTail DEF Honors

LEMMA TailReads ==
  ASSUME NEW c \in Seq(IrqStep), c # <<>>, ReadsFirst(c)
  PROVE  /\ ReadsFirst(Tail(c))
         /\ Head(c) \notin {Do("Select"), Do("ReadStatus")} => ~Has(Tail(c), Reads)
         /\ Head(c) = Do("ReadStatus") => ~Has(Tail(c), Reads) /\ Has(Tail(c), Tests)
<1>1. Has(c, Reads) <=> Head(c) \in Reads \/ Has(Tail(c), Reads)
  BY HasHead
<1>2. CASE ~Has(c, Reads)
  BY <1>1, <1>2 DEF ReadsFirst, Reads
<1>3. CASE Has(c, Reads)
  <2>1. PICK r \in Seq(IrqStep) :
          /\ ~Has(r, Reads) /\ Has(r, Tests)
          /\ c = <<Do("ReadStatus")>> \o r \/ c = <<Do("Select")>> \o (<<Do("ReadStatus")>> \o r)
    BY <1>3 DEF ReadsFirst
  <2>2. \A S : \A x \in S, s \in Seq(S) : Head(<<x>> \o s) = x /\ Tail(<<x>> \o s) = s
    OBVIOUS
  <2>3. Do("ReadStatus") \in IrqStep /\ Do("Select") \in IrqStep
    BY OnlySteps, PlainSteps DEF IrqOnly
  <2>4. <<Do("ReadStatus")>> \o r \in Seq(IrqStep)
    BY <2>3, One, Concat
  <2>5. CASE c = <<Do("ReadStatus")>> \o r
    BY <2>1, <2>2, <2>3, <2>5 DEF ReadsFirst
  <2>6. CASE c = <<Do("Select")>> \o (<<Do("ReadStatus")>> \o r)
    <3>1. Head(c) = Do("Select") /\ Tail(c) = <<Do("ReadStatus")>> \o r
      BY <2>2, <2>3, <2>4, <2>6
    <3>2. Do("Select") # Do("ReadStatus")
      BY DEF Do
    <3> QED
      BY <2>1, <3>1, <3>2 DEF ReadsFirst
  <2> QED
    BY <2>1, <2>5, <2>6
<1> QED
  BY <1>2, <1>3

LEMMA HandlerReads == ReadsFirst(HandleInterrupt)
<1> DEFINE tests == <<Do("IfTransmitDone"), Do("IfReceiveDone")>>
           read == <<Do("ReadStatus")>>
           select == <<Do("Select")>>
           deselect == <<Do("Deselect")>>
<1>1. \A x, y : Do(x) = Do(y) => x = y
  BY DEF Do
<1>2. /\ tests \in Seq(IrqStep) /\ read \in Seq(IrqStep) /\ select \in Seq(IrqStep)
      /\ deselect \in Seq(IrqStep) /\ ClearAllStatus \in Seq(IrqStep)
  <2>1. ClearAllStatus \in Seq(IrqStep)
    BY Bodies, OnlySteps, Wider
  <2> QED
    BY <2>1, OnlySteps, PlainSteps, One, Two DEF IrqOnly
<1>3. ~Has(tests, Reads) /\ Has(tests, Tests) /\ ~Has(deselect, Reads)
  BY <1>1, PairHas, Single DEF Reads, Tests
<1>4. ~Has(ClearAllStatus, Reads)
  <2>1. Calm \cap Reads = {}
    BY <1>1 DEF Calm, Reads, Writes, Do
  <2> QED
    BY <2>1, CalmBodies, Clean
<1> HIDE DEF tests, read, select, deselect
<1> DEFINE r1 == tests \o ClearAllStatus
           r2 == deselect \o r1
<1>5. r1 \in Seq(IrqStep) /\ ~Has(r1, Reads) /\ Has(r1, Tests)
  BY <1>2, <1>3, <1>4, HasConcat, Concat
<1>6. r2 \in Seq(IrqStep) /\ ~Has(r2, Reads) /\ Has(r2, Tests)
  <2> HIDE DEF r1
  <2> QED
    BY <1>2, <1>3, <1>5, HasConcat, Concat
<1>7. CASE build.whole
  <2>1. HandleInterrupt = read \o tests \o ClearAllStatus
    BY <1>7 DEF HandleInterrupt, Spi, read, tests
  <2>2. read \o tests \o ClearAllStatus = read \o r1
    BY <1>2, Regroup
  <2> QED
    BY <1>5, <2>1, <2>2 DEF ReadsFirst, read
<1>8. CASE ~build.whole
  <2>1. HandleInterrupt = <<Do("Select"), Do("ReadStatus"), Do("Deselect")>> \o tests
                            \o ClearAllStatus
    BY <1>8 DEF HandleInterrupt, Spi, tests
  <2>2. <<Do("Select"), Do("ReadStatus"), Do("Deselect")>> = select \o (read \o deselect)
    BY DEF select, read, deselect
  <2>3. read \o deselect \in Seq(IrqStep)
    BY <1>2, Concat
  <2>4. select \o (read \o deselect) \o tests \o ClearAllStatus
          = select \o (read \o deselect) \o (tests \o ClearAllStatus)
    BY <1>2, <2>3, Concat, Regroup
  <2>5. select \o (read \o deselect) \o r1 = select \o (read \o deselect \o r1)
    <3> HIDE DEF r1, r2
    <3>1. \A a, b, c \in Seq(IrqStep) : a \o (b \o c) = (a \o b) \o c
      BY Regroup
    <3> QED
      BY <1>2, <1>5, <2>3, <3>1
  <2>6. read \o deselect \o r1 = read \o r2
    <3>1. r2 = deselect \o r1
      OBVIOUS
    <3> HIDE DEF r1, r2
    <3>2. \A a, b, c \in Seq(IrqStep) : a \o (b \o c) = (a \o b) \o c
      BY Regroup
    <3> QED
      BY <1>2, <1>5, <3>1, <3>2
  <2>7. HandleInterrupt = select \o (read \o r2)
    BY <2>1, <2>2, <2>4, <2>5, <2>6
  <2> QED
    BY <1>6, <2>7 DEF ReadsFirst, select, read
<1> QED
  BY <1>7, <1>8

(* The chip select is raised again after every transfer.                   *)
Closes == {Do("Deselect")}
Opens == {Do("Select"), Do("Other"), Do("WriteStatus"), Do("ReadStatus")} \cup Writes
Closed(c) == build.whole \/ Pays(c, Opens, Closes)

LEMMA Closing ==
  /\ Do("Deselect") \notin Opens
  /\ \A what \in {"PrepareIdle", "ClearCtrl", "MarkReceive", "MarkTransmit", "MarkAll",
                  "SetDefaults", "ReceivePermanently", "SetDelay", "IfPermanentThenReceive",
                  "IfTransmitDone", "IfReceiveDone"} : Do(what) \notin Opens \cup Closes
  /\ \A bit : SetCtrl(bit) \notin Opens \cup Closes
  /\ \A mode : SetMode(mode) \notin Opens \cup Closes
<1>1. \A x, y : Do(x) = Do(y) => x = y
  BY DEF Do
<1>2. /\ \A x, y : Do(x) # SetMode(y) \/ x = "SetMode"
      /\ \A x, y : Do(x) # SetCtrl(y) \/ x = "SetCtrl"
      /\ \A x, y : SetMode(x) # <<"WriteCtrl", y>>
      /\ \A x, y : SetCtrl(x) # <<"WriteCtrl", y>>
      /\ \A x, y : Do(x) = <<"WriteCtrl", y>> => x = "WriteCtrl"
  BY DEF Do, SetMode, SetCtrl
<1>3. /\ \A x : Do(x) \in Writes => x = "WriteCtrl"
      /\ \A x : SetMode(x) \notin Writes /\ SetCtrl(x) \notin Writes
  BY <1>2 DEF Writes
<1> QED
  BY <1>1, <1>2, <1>3 DEF Opens, Closes

LEMMA SpiCloses ==
  ASSUME NEW access, ~build.whole
  PROVE  Pays(Spi(access), Opens, Closes) /\ Has(Spi(access), Closes)
<1>1. Spi(access) = <<Do("Select"), access, Do("Deselect")>>
  BY DEF Spi
<1>2. \A x, y, z : /\ DOMAIN <<x, y, z>> = 1 .. 3 /\ <<x, y, z>>[3] = z
  OBVIOUS
<1> DEFINE c == <<Do("Select"), access, Do("Deselect")>>
<1>3. DOMAIN c = 1 .. 3 /\ c[3] = Do("Deselect")
  BY <1>2
<1> HIDE DEF c
<1>4. 3 \in DOMAIN c /\ c[3] \in Closes /\ c[3] \notin Opens
  BY <1>3, Closing DEF Closes
<1>5. \A i \in DOMAIN c : i # 3 => 3 > i
  BY <1>3
<1> QED
  BY <1>1, <1>4, <1>5 DEF Pays, Has, c

LEMMA ClosedSpi == \A access : Closed(Spi(access))
  BY SpiCloses DEF Closed

LEMMA ClosedOne == \A x : x \notin Opens => Closed(<<x>>)
  BY SinglePays DEF Closed

LEMMA ClosedTwo == \A x, y : x \notin Opens /\ y \notin Opens => Closed(<<x, y>>)
  BY PairPays DEF Closed

LEMMA ClosedConcat ==
  ASSUME NEW a \in Seq(Step), NEW b \in Seq(Step), Closed(a), Closed(b)
  PROVE  Closed(a \o b) /\ a \o b \in Seq(Step)
  BY PaysLast, Concat DEF Closed

LEMMA ClosedBodies ==
  /\ \A body \in {<<>>, OtherTransfer, OtherTransfer \o OtherTransfer, ClearTransmitStatus,
                  ClearReceiveStatus \o Restart,
                  <<Do("ClearCtrl"), SetMode("RX")>> \o StartReceive} : Closed(body)
  /\ Closed(Spi(Do("ReadStatus")) \o <<Do("IfTransmitDone"), Do("IfReceiveDone")>>)
<1>1. /\ \A what \in {"Other", "WriteStatus", "ReadStatus"} : Spi(Do(what)) \in Seq(Step)
      /\ Spi(Do("WriteCtrl")) \in Seq(Step)
  <2>1. /\ \A what \in {"Other", "WriteStatus", "ReadStatus", "Select", "Deselect"} :
             Do(what) \in Step
        /\ Do("WriteCtrl") \in Step
    BY DEF Step, Do
  <2> QED
    BY <2>1, SpiSteps
<1>2. /\ \A what \in {"PrepareIdle", "ClearCtrl", "MarkReceive", "MarkTransmit"} :
           <<Do(what)>> \in Seq(Step) /\ Closed(<<Do(what)>>)
      /\ \A mode \in {"RX", "TX"} : <<SetMode(mode)>> \in Seq(Step) /\ Closed(<<SetMode(mode)>>)
      /\ <<SetCtrl("RXENAB")>> \in Seq(Step) /\ Closed(<<SetCtrl("RXENAB")>>)
  BY PlainSteps, OnlySteps, One, Closing, ClosedOne DEF ControlBit
<1>3. /\ <<Do("ClearCtrl"), SetMode("RX")>> \in Seq(Step)
      /\ Closed(<<Do("ClearCtrl"), SetMode("RX")>>)
      /\ <<Do("IfTransmitDone"), Do("IfReceiveDone")>> \in Seq(Step)
      /\ Closed(<<Do("IfTransmitDone"), Do("IfReceiveDone")>>)
  BY PlainSteps, OnlySteps, Two, Closing, ClosedTwo DEF IrqOnly
<1>4. /\ Closed(Idle) /\ Idle \in Seq(Step)
      /\ Closed(ClearReceiveStatus) /\ ClearReceiveStatus \in Seq(Step)
      /\ Closed(ClearTransmitStatus)
      /\ Closed(StartReceive) /\ StartReceive \in Seq(Step)
      /\ Closed(OtherTransfer) /\ OtherTransfer \in Seq(Step)
  BY <1>1, <1>2, ClosedSpi, ClosedConcat
     DEF Idle, ClearReceiveStatus, ClearTransmitStatus, StartReceive, OtherTransfer
<1>5. Closed(NewReceive) /\ NewReceive \in Seq(Step)
  <2> DEFINE clr == <<Do("ClearCtrl")>>
             set == <<SetMode("RX")>>
  <2>1. Closed(clr) /\ clr \in Seq(Step) /\ Closed(set) /\ set \in Seq(Step)
    BY <1>2
  <2>2. NewReceive = Idle \o clr \o ClearReceiveStatus \o set
    BY DEF NewReceive
  <2> HIDE DEF clr, set
  <2>3. Closed(Idle \o clr) /\ Idle \o clr \in Seq(Step)
    BY <1>4, <2>1, ClosedConcat
  <2>4. Closed(Idle \o clr \o ClearReceiveStatus) /\ Idle \o clr \o ClearReceiveStatus \in Seq(Step)
    BY <1>4, <2>3, ClosedConcat
  <2> QED
    BY <2>1, <2>2, <2>4, ClosedConcat
<1>6. Closed(<<>>) /\ <<>> \in Seq(Step)
  <2>1. DOMAIN <<>> = {}
    OBVIOUS
  <2> QED
    BY <2>1, Empty DEF Closed, Pays
<1>7. Closed(Restart) /\ Restart \in Seq(Step)
  BY <1>4, <1>5, <1>6, ClosedConcat DEF Restart
<1>8. Closed(OtherTransfer \o OtherTransfer) /\ Closed(ClearReceiveStatus \o Restart)
  BY <1>4, <1>7, ClosedConcat
<1>9. Closed(<<Do("ClearCtrl"), SetMode("RX")>> \o StartReceive)
  BY <1>3, <1>4, ClosedConcat
<1>10. Closed(Spi(Do("ReadStatus")) \o <<Do("IfTransmitDone"), Do("IfReceiveDone")>>)
  BY <1>1, <1>3, ClosedSpi, ClosedConcat
<1> QED
  BY <1>4, <1>6, <1>8, <1>9, <1>10

(* A body that may come in place of a step.                                *)
Modes == {SetMode("RX"), SetMode("TX")}

Proper(step, body) ==
  /\ body \in Seq(Plain) /\ Honors(body) /\ Closed(body)
  /\ step \in {Do("Select"), Do("ReadStatus")} \cup Modes => body = <<>>

LEMMA PlainHas ==
  ASSUME NEW c \in Seq(Plain)
  PROVE  ~Has(c, Reads) /\ ~Has(c, Tests) /\ ~Has(c, {Branch}) /\ c \in Seq(Step)
         /\ c \in Seq(Quiet) /\ c \in Seq(IrqStep)
<1>1. Plain \cap Reads = {} /\ Plain \cap Tests = {} /\ Plain \cap {Branch} = {}
  BY DEF Plain, Reads, Tests, Branch, LoopOnly, IrqOnly
<1>2. Plain \subseteq Step /\ Plain \subseteq Quiet /\ Plain \subseteq IrqStep
  BY OnlySteps
<1> QED
  BY <1>1, <1>2, Clean, Wider

LEMMA MoveKeepsCode ==
  ASSUME CodeInv, NEW t \in Task, NEW step, NEW body, Proper(step, body), Moves(t, step, body),
         permanentReceive \/ step = Do("ReceivePermanently") => permanentReceive'
  PROVE  CodeInv'
<1> DEFINE c == code[t]
           r == Tail(code[t])
<1>1. /\ body \in Seq(Plain) /\ Honors(body)
      /\ step \in {Do("Select"), Do("ReadStatus")} => body = <<>>
      /\ ~Has(body, Reads) /\ ~Has(body, {Branch}) /\ body \in Seq(Step)
      /\ body \in Seq(Quiet) /\ body \in Seq(IrqStep)
  BY PlainHas DEF Proper
<1>2. /\ step \in Step /\ r \in Seq(Step) /\ c # <<>> /\ Head(c) = step /\ c \in Seq(Step)
      /\ code'[t] = body \o r
      /\ \A u \in Task \ {t} : code'[u] = code[u]
      /\ code' \in [Task -> Seq(Step)]
  BY <1>1, MovesCode DEF CodeInv
<1>3. Honors(c) /\ ReadsFirst(code["irq"]) /\ \A u \in Task : Honors(code[u])
  BY DEF CodeInv
<1>4. Honors(body \o r)
  BY <1>1, <1>2, <1>3, TailHonors, HonorsConcat
<1>5. \A u \in Task : Honors(code'[u])
  <2> HIDE DEF c, r
  <2> QED
    BY <1>2, <1>3, <1>4
<1>6. code'["loop"] \in Seq(Quiet) /\ code'["irq"] \in Seq(IrqStep)
  <2>1. code["loop"] \in Seq(Quiet) /\ code["irq"] \in Seq(IrqStep)
    BY DEF CodeInv
  <2>2. CASE t = "loop"
    <3>1. r \in Seq(Quiet)
      <4>1. c \in Seq(Quiet)
        BY <2>1, <2>2
      <4> QED
        BY <1>2, <4>1, First
    <3>2. "irq" \in Task \ {t}
      BY <2>2 DEF Task
    <3>3. body \o r \in Seq(Quiet)
      BY <1>1, <3>1, Concat
    <3> HIDE DEF c, r
    <3> QED
      BY <1>2, <2>1, <2>2, <3>2, <3>3
  <2>3. CASE t = "irq"
    <3>1. r \in Seq(IrqStep)
      <4>1. c \in Seq(IrqStep)
        BY <2>1, <2>3
      <4> QED
        BY <1>2, <4>1, First
    <3>2. "loop" \in Task \ {t}
      BY <2>3 DEF Task
    <3>3. body \o r \in Seq(IrqStep)
      BY <1>1, <3>1, Concat
    <3> HIDE DEF c, r
    <3> QED
      BY <1>2, <2>1, <2>3, <3>2, <3>3
  <2> QED
    BY <2>2, <2>3 DEF Task
<1>7. ReadsFirst(code'["irq"])
  <2>1. CASE t = "loop"
    BY <1>2, <1>3, <2>1 DEF Task
  <2>2. CASE t = "irq"
    <3>1. c \in Seq(IrqStep) /\ ReadsFirst(c)
      BY <1>3, <2>2 DEF CodeInv
    <3>2. r \in Seq(IrqStep)
      BY <1>2, <3>1, First
    <3>3. CASE step \in {Do("Select"), Do("ReadStatus")}
      <4>1. body \o r = r
        BY <1>1, <3>2, <3>3
      <4> QED
        BY <1>2, <2>2, <3>1, <4>1, TailReads
    <3>4. CASE step \notin {Do("Select"), Do("ReadStatus")}
      <4>1. ~Has(r, Reads)
        BY <1>2, <3>1, <3>4, TailReads
      <4>2. ~Has(body \o r, Reads)
        BY <1>1, <3>2, <4>1, HasConcat
      <4> QED
        BY <1>2, <2>2, <4>2 DEF ReadsFirst
    <3> QED
      BY <3>3, <3>4
  <2> QED
    BY <2>1, <2>2 DEF Task
<1>8. permanentReceive' \/ (Has(code'["loop"], {Do("ReceivePermanently")})
                              /\ ~Has(code'["loop"], {Branch}))
  <2> SUFFICES ASSUME ~permanentReceive'
               PROVE  Has(code'["loop"], {Do("ReceivePermanently")})
                        /\ ~Has(code'["loop"], {Branch})
    OBVIOUS
  <2>1. /\ Has(code["loop"], {Do("ReceivePermanently")}) /\ ~Has(code["loop"], {Branch})
        /\ step # Do("ReceivePermanently")
    BY DEF CodeInv, Permanent
  <2>2. CASE t = "loop"
    <3>1. Has(r, {Do("ReceivePermanently")}) /\ ~Has(r, {Branch})
      <4>1. \A K : Has(c, K) <=> Head(c) \in K \/ Has(r, K)
        BY <1>2, HasHead
      <4> QED
        BY <1>2, <2>1, <2>2, <4>1
    <3>2. /\ Has(body \o r, {Do("ReceivePermanently")}) /\ ~Has(body \o r, {Branch})
      BY <1>1, <1>2, <3>1, HasConcat
    <3> QED
      BY <1>2, <2>2, <3>2
  <2>3. CASE t = "irq"
    BY <1>2, <2>1, <2>3 DEF Task
  <2> QED
    BY <2>2, <2>3 DEF Task
<1> HIDE DEF c, r
<1> QED
  BY <1>2, <1>5, <1>6, <1>7, <1>8 DEF CodeInv, Permanent

(* What is left to do after a move.                                        *)
LEMMA MoveHas ==
  ASSUME CodeInv, NEW t \in Task, NEW step, NEW body, Proper(step, body), Moves(t, step, body)
  PROVE  /\ \A u \in Task \ {t} : code'[u] = code[u]
         /\ \A K : Has(body, K) => Has(code'[t], K)
         /\ \A K : step \notin K /\ Has(code[t], K) => Has(code'[t], K)
         /\ ~Has(code[t], Reads) => ~Has(code'[t], Reads)
         /\ step \in Leaves => Has(code'[t], Enters)
         /\ step \in Holds => Has(code'[t], Frees)
         /\ step \in Drops => Has(code'[t], Raises)
         /\ step \in Enables => Has(code'[t], Writes)
         /\ t = "irq" /\ step = Do("ReadStatus") =>
              ~Has(code'[t], Reads) /\ Has(code'[t], Tests)
<1> DEFINE c == code[t]
           r == Tail(code[t])
<1>1. /\ body \in Seq(Plain) /\ body \in Seq(Step) /\ ~Has(body, Reads)
      /\ step \in {Do("Select"), Do("ReadStatus")} => body = <<>>
  BY PlainHas DEF Proper
<1>2. /\ r \in Seq(Step) /\ c # <<>> /\ Head(c) = step /\ c \in Seq(Step)
      /\ code'[t] = body \o r
      /\ \A u \in Task \ {t} : code'[u] = code[u]
  BY <1>1, MovesCode DEF CodeInv
<1>3. Honors(c)
  BY DEF CodeInv
<1>4. \A K : Has(body \o r, K) <=> Has(body, K) \/ Has(r, K)
  BY <1>1, <1>2, HasConcat
<1>5. \A K : Has(c, K) <=> step \in K \/ Has(r, K)
  BY <1>2, HasHead
<1>6. /\ step \in Leaves => Has(r, Enters)
      /\ step \in Holds => Has(r, Frees)
      /\ step \in Drops => Has(r, Raises)
      /\ step \in Enables => Has(r, Writes)
  BY <1>2, <1>3, TailHonors
<1>7. t = "irq" /\ step = Do("ReadStatus") => ~Has(r, Reads) /\ Has(r, Tests)
  <2>1. t = "irq" => c \in Seq(IrqStep) /\ ReadsFirst(c)
    BY DEF CodeInv
  <2> QED
    BY <1>2, <2>1, TailReads
<1> HIDE DEF c, r
<1> QED
  BY <1>1, <1>2, <1>4, <1>5, <1>6, <1>7 DEF c

(* How a task goes on: with which step, and what comes in its place.       *)
Goes(t, step, body) ==
  /\ Proper(step, body) /\ Moves(t, step, body)
  /\ permanentReceive \/ step = Do("ReceivePermanently") => permanentReceive'

LEMMA ProperBodies ==
  /\ \A step : Proper(step, <<>>)
  /\ \A step : step \notin {Do("Select"), Do("ReadStatus")} \cup Modes =>
       \A body \in {OtherTransfer, OtherTransfer \o OtherTransfer, ClearTransmitStatus,
                    ClearReceiveStatus \o Restart,
                    <<Do("ClearCtrl"), SetMode("RX")>> \o StartReceive} : Proper(step, body)
  BY Bodies, BodiesHonor, ClosedBodies DEF Proper

LEMMA Different ==
  /\ \A x, y : Do(x) = Do(y) => x = y
  /\ \A x : Do(x) \in Modes => x = "SetMode"
  BY DEF Do, SetMode, Modes

LEMMA BusGoes ==
  ASSUME NEW t \in Task, Bus(t)
  PROVE  /\ UNCHANGED <<build, sysctrl, deviceMode, permanentReceive, txfctrl, sentAck,
                        receivedAck>>
         /\ \/ /\ \E step \in {Do("Select"), Do("Deselect"), Do("Other")} : Goes(t, step, <<>>)
               /\ UNCHANGED <<status, trx, thenReceive, sysstatus, sem, history>>
            \/ WriteCtrl(t) /\ \E step \in Writes : Goes(t, step, <<>>)
            \/ WriteStatus(t) /\ Goes(t, Do("WriteStatus"), <<>>)
            \/ ReadStatus(t) /\ Goes(t, Do("ReadStatus"), <<>>)
<1>1. \A step : Proper(step, <<>>)
  BY ProperBodies
<1>2. CASE Select(t)
  BY <1>1, <1>2, Different DEF Select, Done, Goes, Moves, fields, flags
<1>3. CASE Deselect(t)
  BY <1>1, <1>3, Different DEF Deselect, Done, Goes, Moves, fields, flags
<1>4. CASE Other(t)
  BY <1>1, <1>4, Different DEF Other, Done, Goes, Moves, fields, flags
<1>5. CASE WriteCtrl(t)
  <2>1. /\ UNCHANGED <<build, sysctrl, deviceMode, permanentReceive, txfctrl, sentAck,
                       receivedAck>>
        /\ \E step \in Writes : Moves(t, step, <<>>)
    BY <1>5 DEF WriteCtrl, Done, Moves, Writes, fields, flags
  <2>2. \A step \in Writes : step # Do("ReceivePermanently")
    <3>1. \A x, y : Do(x) = <<"WriteCtrl", y>> => x = "WriteCtrl"
      BY DEF Do
    <3> QED
      BY <3>1 DEF Writes
  <2> QED
    BY <1>1, <1>5, <2>1, <2>2 DEF Goes
<1>6. CASE WriteStatus(t)
  BY <1>1, <1>6, Different DEF WriteStatus, Done, Goes, Moves, fields
<1>7. CASE ReadStatus(t)
  BY <1>1, <1>7, Different DEF ReadStatus, Done, Goes, Moves, flags
<1> QED
  BY <1>2, <1>3, <1>4, <1>5, <1>6, <1>7 DEF Bus

LEMMA FieldsGo ==
  ASSUME CodeInv, sysstatus \subseteq Event, NEW t \in Task, Fields(t)
  PROVE  /\ UNCHANGED <<build, chip, flags, history>>
         /\ \/ PrepareIdle(t) /\ Goes(t, Do("PrepareIdle"), <<>>)
            \/ SetSysctrl(t) /\ Goes(t, Do("ClearCtrl"), <<>>) /\ sysctrl' = {}
            \/ \E bit \in ControlBit :
                 SetSysctrl(t) /\ Goes(t, SetCtrl(bit), <<>>) /\ sysctrl' = sysctrl \cup {bit}
            \/ /\ SetSysstatus(t) /\ sysstatus \subseteq sysstatus'
               /\ \E step \in {Do("MarkReceive"), Do("MarkTransmit"), Do("MarkAll")} :
                    Goes(t, step, <<>>)
            \/ \E mode \in {"IDLE", "RX", "TX"} :
                 SetDeviceMode(t) /\ Goes(t, SetMode(mode), <<>>) /\ deviceMode' = mode
            \/ SetDefaults(t) /\ Goes(t, Do("SetDefaults"), <<>>)
            \/ ReceivePermanently(t) /\ Goes(t, Do("ReceivePermanently"), OtherTransfer)
            \/ /\ SetDelay(t)
               /\ \E body \in Seq(Plain) : Goes(t, Do("SetDelay"), body)
            \/ /\ IfPermanentThenReceive(t)
               /\ Goes(t, Branch, <<Do("ClearCtrl"), SetMode("RX")>> \o StartReceive)
<1>1. \A step : Proper(step, <<>>)
  BY ProperBodies
<1>2. /\ \A x, y : Do(x) = SetMode(y) => x = "SetMode"
      /\ \A x, y : Do(x) = SetCtrl(y) => x = "SetCtrl"
  BY DEF Do, SetMode, SetCtrl
<1>3. CASE PrepareIdle(t)
  BY <1>1, <1>3, Different DEF PrepareIdle, Done, Goes, Moves
<1>4. CASE SetSysctrl(t)
  <2>1. UNCHANGED <<build, chip, flags, history>> /\ permanentReceive' = permanentReceive
    BY <1>4 DEF SetSysctrl
  <2>2. CASE AtStep(t, Do("ClearCtrl")) /\ sysctrl' = {}
    BY <1>1, <1>4, <2>1, <2>2, Different DEF SetSysctrl, Done, Goes, Moves
  <2>3. CASE \E bit \in ControlBit :
               AtStep(t, SetCtrl(bit)) /\ sysctrl' = sysctrl \cup {bit}
    BY <1>1, <1>2, <1>4, <2>1, <2>3 DEF SetSysctrl, Done, Goes, Moves
  <2> QED
    BY <1>4, <2>2, <2>3 DEF SetSysctrl
<1>5. CASE SetSysstatus(t)
  <2>1. /\ UNCHANGED <<build, chip, flags, history>> /\ permanentReceive' = permanentReceive
        /\ Then(t, <<>>)
        /\ \E step \in {Do("MarkReceive"), Do("MarkTransmit"), Do("MarkAll")} : AtStep(t, step)
    BY <1>5 DEF SetSysstatus, Done
  <2>2. sysstatus \subseteq sysstatus'
    BY <1>5 DEF SetSysstatus
  <2>3. \A step \in {Do("MarkReceive"), Do("MarkTransmit"), Do("MarkAll")} :
          step # Do("ReceivePermanently")
    BY Different
  <2> QED
    BY <1>1, <1>5, <2>1, <2>2, <2>3 DEF Goes, Moves
<1>6. CASE SetDeviceMode(t)
  BY <1>1, <1>2, <1>6 DEF SetDeviceMode, Done, Goes, Moves
<1>7. CASE SetDefaults(t)
  BY <1>1, <1>7, Different DEF SetDefaults, Done, Goes, Moves
<1>8. CASE ReceivePermanently(t)
  BY <1>8, ProperBodies, Different DEF ReceivePermanently, Goes, Moves
<1>9. CASE SetDelay(t)
  <2>1. /\ UNCHANGED <<build, chip, flags, history>> /\ permanentReceive' = permanentReceive
        /\ \E body \in {<<>>, OtherTransfer \o OtherTransfer} : Moves(t, Do("SetDelay"), body)
    BY <1>9 DEF SetDelay, Moves
  <2>2. \A body \in {<<>>, OtherTransfer \o OtherTransfer} :
          Proper(Do("SetDelay"), body) /\ body \in Seq(Plain)
    <3>1. Do("SetDelay") \notin {Do("Select"), Do("ReadStatus")} \cup Modes
      BY Different
    <3>2. \A body \in {<<>>, OtherTransfer \o OtherTransfer} : Proper(Do("SetDelay"), body)
      BY <3>1, ProperBodies
    <3> QED
      BY <3>2 DEF Proper
  <2> QED
    BY <1>9, <2>1, <2>2, Different DEF Goes
<1>10. CASE IfPermanentThenReceive(t)
  <2>1. UNCHANGED <<build, chip, flags, history>> /\ permanentReceive' = permanentReceive
        /\ AtStep(t, Branch)
    BY <1>10 DEF IfPermanentThenReceive, fields, Branch
  <2>2. permanentReceive
    <3>1. code[t] \in Seq(Step) /\ code[t] # <<>> /\ Head(code[t]) = Branch
      BY <2>1 DEF AtStep, CodeInv
    <3>2. Has(code[t], {Branch})
      BY <3>1, HasHead
    <3>3. t # "irq"
      <4>1. code["irq"] # <<>> => Head(code["irq"]) \in IrqStep
        BY DEF CodeInv
      <4> QED
        BY <3>1, <4>1 DEF IrqStep, LoopOnly, Branch
    <3> QED
      BY <3>2, <3>3 DEF CodeInv, Permanent, Task
  <2>3. Proper(Branch, <<Do("ClearCtrl"), SetMode("RX")>> \o StartReceive)
    BY ProperBodies, Different DEF Branch
  <2>4. Moves(t, Branch, <<Do("ClearCtrl"), SetMode("RX")>> \o StartReceive)
    BY <1>10, <2>1, <2>2 DEF IfPermanentThenReceive, Moves
  <2> QED
    BY <1>10, <2>1, <2>2, <2>3, <2>4 DEF Goes
<1> QED
  BY <1>3, <1>4, <1>5, <1>6, <1>7, <1>8, <1>9, <1>10 DEF Fields

LEMMA TestsGo ==
  /\ IfTransmitDone =>
       /\ UNCHANGED <<build, chip, fields, sem, receivedAck, history>>
       /\ \E body \in {<<>>, ClearTransmitStatus} : Goes("irq", Do("IfTransmitDone"), body)
  /\ IfReceiveDone =>
       /\ UNCHANGED <<build, chip, fields, sem, sentAck, lost>>
       /\ \/ /\ "RXFCG" \in sysstatus
             /\ Goes("irq", Do("IfReceiveDone"), ClearReceiveStatus \o Restart)
          \/ /\ "RXFCG" \notin sysstatus /\ reception' = reception
             /\ Goes("irq", Do("IfReceiveDone"), <<>>)
<1>1. /\ \A body \in {<<>>, ClearTransmitStatus} : Proper(Do("IfTransmitDone"), body)
      /\ Proper(Do("IfReceiveDone"), <<>>)
      /\ Proper(Do("IfReceiveDone"), ClearReceiveStatus \o Restart)
  BY ProperBodies, Different
<1>2. ASSUME IfTransmitDone
      PROVE  /\ UNCHANGED <<build, chip, fields, sem, receivedAck, history>>
             /\ \E body \in {<<>>, ClearTransmitStatus} : Goes("irq", Do("IfTransmitDone"), body)
  <2>1. /\ UNCHANGED <<build, chip, fields, sem, receivedAck, history>>
        /\ \E body \in {<<>>, ClearTransmitStatus} : Moves("irq", Do("IfTransmitDone"), body)
    BY <1>2 DEF IfTransmitDone, Done, Moves
  <2>2. permanentReceive' = permanentReceive
    BY <2>1 DEF fields
  <2> QED
    BY <1>1, <2>1, <2>2, Different DEF Goes
<1>3. ASSUME IfReceiveDone
      PROVE  /\ UNCHANGED <<build, chip, fields, sem, sentAck, lost>>
             /\ \/ /\ "RXFCG" \in sysstatus
                   /\ Goes("irq", Do("IfReceiveDone"), ClearReceiveStatus \o Restart)
                \/ /\ "RXFCG" \notin sysstatus /\ reception' = reception
                   /\ Goes("irq", Do("IfReceiveDone"), <<>>)
  <2>1. /\ UNCHANGED <<build, chip, fields, sem, sentAck, lost>>
        /\ \/ /\ "RXFCG" \in sysstatus
              /\ Moves("irq", Do("IfReceiveDone"), ClearReceiveStatus \o Restart)
           \/ /\ "RXFCG" \notin sysstatus /\ reception' = reception
              /\ Moves("irq", Do("IfReceiveDone"), <<>>)
    BY <1>3 DEF IfReceiveDone, Done, Moves
  <2>2. permanentReceive' = permanentReceive
    BY <2>1 DEF fields
  <2> QED
    BY <1>1, <2>1, <2>2, Different DEF Goes
<1> QED
  BY <1>2, <1>3

(* What loop() starts when it has nothing left to do.                      *)
LoopBodies ==
  {<<>>, OtherTransfer, Receiver, OtherTransfer \o Receiver, Transmit,
   OtherTransfer \o TransmitDelayed}

LEMMA LoopStarts ==
  ASSUME TimerTick \/ CheckForReset \/ HandleSent \/ HandleReceived
  PROVE  /\ code["loop"] = <<>>
         /\ \E body \in LoopBodies : Calls(body)
         /\ UNCHANGED <<build, chip, fields, sem, history>>
<1>1. CASE TimerTick
  BY <1>1 DEF TimerTick, flags, Idles, LoopBodies
<1>2. CASE CheckForReset
  BY <1>2 DEF CheckForReset, flags, Idles, LoopBodies
<1>3. CASE HandleSent
  BY <1>3 DEF HandleSent, Idles, LoopBodies
<1>4. CASE HandleReceived
  BY <1>4 DEF HandleReceived, Idles, LoopBodies
<1> QED
  BY <1>1, <1>2, <1>3, <1>4

LEMMA NoSteps ==
  ASSUME NEW K
  PROVE  ~Has(<<>>, K)
<1>1. DOMAIN <<>> = {}
  OBVIOUS
<1> QED
  BY <1>1 DEF Has

LEMMA NextCode == CodeInv /\ sysstatus \subseteq Event /\ [Next]_vars => CodeInv'
<1> SUFFICES ASSUME CodeInv, sysstatus \subseteq Event, [Next]_vars PROVE CodeInv'
  OBVIOUS
<1>0. "loop" \in Task /\ "irq" \in Task
  BY DEF Task
<1>1. ASSUME NEW t \in Task, NEW step, NEW body, Goes(t, step, body) PROVE CodeInv'
  BY <1>1, MoveKeepsCode DEF Goes
<1>2. CASE \E t \in Task : Bus(t)
  BY <1>1, <1>2, BusGoes
<1>3. CASE \E t \in Task : Fields(t)
  BY <1>1, <1>3, FieldsGo
<1>4. CASE IfTransmitDone \/ IfReceiveDone
  BY <1>0, <1>1, <1>4, TestsGo
<1>5. CASE TimerTick \/ CheckForReset \/ HandleSent \/ HandleReceived
  <2>1. PICK body \in LoopBodies : Calls(body)
    BY <1>5, LoopStarts
  <2>2. code["loop"] = <<>> /\ permanentReceive' = permanentReceive
    BY <1>5, LoopStarts DEF fields
  <2>3. body \in Seq(Quiet) /\ body \in Seq(Step) /\ Honors(body)
    <3>1. Seq(Plain) \subseteq Seq(Quiet)
      BY OnlySteps, Wider
    <3> QED
      BY <3>1, Bodies, BodiesHonor DEF LoopBodies
  <2>4. permanentReceive
    BY <2>2, NoSteps DEF CodeInv, Permanent
  <2>5. /\ code'["loop"] = body /\ code'["irq"] = code["irq"]
        /\ code' \in [Task -> Seq(Step)]
    BY <2>1, <2>3 DEF CodeInv, Calls, Task
  <2>6. \A t \in Task : Honors(code'[t])
    BY <2>3, <2>5 DEF CodeInv, Task
  <2> QED
    BY <2>2, <2>3, <2>4, <2>5, <2>6 DEF CodeInv, Permanent
<1>6. CASE TakeSemaphore
  <2>1. /\ code' = [code EXCEPT !["irq"] = HandleInterrupt]
        /\ permanentReceive' = permanentReceive
    BY <1>6 DEF TakeSemaphore, fields
  <2>2. HandleInterrupt \in Seq(IrqStep) /\ HandleInterrupt \in Seq(Step)
        /\ Honors(HandleInterrupt) /\ ReadsFirst(HandleInterrupt)
    BY Bodies, HandleInterruptHonors, HandlerReads
  <2> DEFINE new == HandleInterrupt
  <2> HIDE DEF new
  <2>3. /\ code'["irq"] = new /\ code'["loop"] = code["loop"]
        /\ code' \in [Task -> Seq(Step)]
    BY <2>1, <2>2 DEF CodeInv, Task, new
  <2>4. \A t \in Task : Honors(code'[t])
    BY <2>2, <2>3 DEF CodeInv, Task, new
  <2> QED
    BY <2>1, <2>2, <2>3, <2>4 DEF CodeInv, Permanent, new
<1>7. CASE Chip \/ UNCHANGED vars
  <2>1. UNCHANGED <<code, permanentReceive>>
    BY <1>7 DEF Chip, FrameSent, FrameReceived, vars, fields
  <2> QED
    BY <2>1 DEF CodeInv, Permanent
<1> QED
  BY <1>0, <1>2, <1>3, <1>4, <1>5, <1>6, <1>7 DEF Next, InterruptTask, Loop

LEMMA InitCode == Init => CodeInv
<1> SUFFICES ASSUME Init PROVE CodeInv
  OBVIOUS
<1>1. code = [loop |-> Receiver, irq |-> <<>>]
  BY DEF Init
<1>2. code["loop"] = Receiver /\ code["irq"] = <<>> /\ DOMAIN code = Task
  BY <1>1 DEF Task
<1>3. Receiver \in Seq(Quiet) /\ Receiver \in Seq(Step) /\ Honors(Receiver)
      /\ <<>> \in Seq(Step) /\ Honors(<<>>) /\ <<>> \in Seq(IrqStep)
  BY Bodies, BodiesHonor, Empty
<1>4. code \in [Task -> Seq(Step)]
  <2>1. \A t \in Task : code[t] \in Seq(Step)
    BY <1>2, <1>3 DEF Task
  <2>2. code = [t \in Task |-> code[t]]
    BY <1>1, <1>2
  <2> QED
    BY <2>1, <2>2
<1>5. \A t \in Task : Honors(code[t])
  BY <1>2, <1>3 DEF Task
<1>6. ReadsFirst(<<>>)
  BY NoSteps DEF ReadsFirst
<1>7. Has(Receiver, {Do("ReceivePermanently")}) /\ ~Has(Receiver, {Branch})
  <2>1. Has(Receiver, {Do("ReceivePermanently")})
    BY ReceiverHonors
  <2>2. Receiver \in Seq(Step \ {Branch})
    <3>1. Plain \subseteq Step \ {Branch}
      BY OnlySteps DEF Plain, LoopOnly, Branch
    <3>2. NewReceive \in Seq(Step \ {Branch}) /\ StartReceive \in Seq(Step \ {Branch})
      BY <3>1, Bodies, Wider
    <3>3. <<Do("SetDefaults"), Do("ReceivePermanently")>> \in Seq(Step \ {Branch})
      <4>1. /\ Do("SetDefaults") \in Step /\ Do("ReceivePermanently") \in Step
            /\ Do("SetDefaults") # Branch /\ Do("ReceivePermanently") # Branch
        BY OnlySteps, Different DEF LoopOnly, Branch
      <4> QED
        BY <4>1, Two
    <3> QED
      BY <3>2, <3>3, Concat DEF Receiver
  <2> QED
    BY <2>1, <2>2, Clean
<1> QED
  BY <1>2, <1>3, <1>4, <1>5, <1>6, <1>7 DEF CodeInv, Permanent

---------------------------------------------------------------------------
(* Types *)

Types ==
  /\ build \in Build
  /\ status \subseteq Event /\ sysstatus \subseteq Event
  /\ reception \in {"unread", "read", "told"}
  /\ trx \in {"IDLE", "RECEIVING", "SENDING", "DELAYED"}
  /\ window \in {"high", "low", "used"}
  /\ sysctrl \subseteq ControlBit
  /\ deviceMode \in {"IDLE", "RX", "TX"} /\ txfctrl \in {"configured", "default"}
  /\ thenReceive \in BOOLEAN /\ permanentReceive \in BOOLEAN /\ sem \in BOOLEAN
  /\ sentAck \in BOOLEAN /\ receivedAck \in BOOLEAN /\ lost \in BOOLEAN

LEMMA CommandTypes ==
  ASSUME Types, WriteControl(sysctrl)
  PROVE  trx' \in {"IDLE", "RECEIVING", "SENDING", "DELAYED"} /\ thenReceive' \in BOOLEAN
<1>1. CASE trx' = "IDLE" /\ thenReceive' = FALSE
  BY <1>1
<1>2. CASE Command(sysctrl \ {"TRXOFF"})
  <2>1. trx' \in {"IDLE", "RECEIVING", "SENDING", "DELAYED"}
    BY <1>2 DEF Command, Types
  <2>2. \/ thenReceive' = ("RXENAB" \in sysctrl \ {"TRXOFF"})
        \/ thenReceive' = TRUE
        \/ thenReceive' = thenReceive
    BY <1>2, Zenon DEF Command
  <2>3. ("RXENAB" \in sysctrl \ {"TRXOFF"}) \in BOOLEAN
    OBVIOUS
  <2> QED
    BY <2>1, <2>2, <2>3, Zenon DEF Types
<1> QED
  BY <1>1, <1>2 DEF WriteControl

LEMMA BusTypes ==
  ASSUME Types, NEW t \in Task, Bus(t)
  PROVE  Types'
<1>1. CASE Select(t)
  BY <1>1 DEF Select, Types, fields, flags, history
<1>2. CASE Deselect(t)
  BY <1>2 DEF Deselect, Types, fields, flags, history
<1>3. CASE Other(t)
  BY <1>3 DEF Other, Used, Types, fields, flags, history
<1>4. CASE WriteCtrl(t)
  <2>1. /\ UNCHANGED <<build, status, fields, flags, reception>>
        /\ window' \in {"high", "low", "used"}
    BY <1>4 DEF WriteCtrl, Used, Types
  <2>2. trx' \in {"IDLE", "RECEIVING", "SENDING", "DELAYED"} /\ thenReceive' \in BOOLEAN
    <3>1. CASE Seen
      BY <1>4, <3>1, CommandTypes DEF WriteCtrl
    <3>2. CASE ~Seen
      BY <1>4, <3>2 DEF WriteCtrl, Types
    <3> QED
      BY <3>1, <3>2
  <2>3. lost' \in BOOLEAN
    BY <1>4 DEF WriteCtrl
  <2> QED
    BY <2>1, <2>2, <2>3 DEF Types, fields, flags
<1>5. CASE WriteStatus(t)
  <2>1. /\ UNCHANGED <<build, trx, thenReceive, fields, sentAck, receivedAck>>
        /\ window' \in {"high", "low", "used"}
    BY <1>5 DEF WriteStatus, Used, Types
  <2>2. /\ status' \subseteq Event /\ sem' \in BOOLEAN /\ lost' \in BOOLEAN
        /\ reception' = reception
    BY <1>5 DEF WriteStatus, Clear, LatchStatus, Types, history
  <2> QED
    BY <2>1, <2>2 DEF Types, fields
<1>6. CASE ReadStatus(t)
  <2>1. /\ UNCHANGED <<build, status, trx, thenReceive, sysctrl, deviceMode, permanentReceive,
                       txfctrl, flags, lost>>
        /\ window' \in {"high", "low", "used"} /\ sysstatus' \subseteq Event
        /\ reception' \in {"unread", "read", "told"}
    BY <1>6 DEF ReadStatus, Used, Types
  <2> QED
    BY <2>1 DEF Types, flags
<1> QED
  BY <1>1, <1>2, <1>3, <1>4, <1>5, <1>6 DEF Bus

LEMMA FieldsTypes ==
  ASSUME Types, NEW t \in Task, Fields(t)
  PROVE  Types'
<1> USE DEF Types, chip, flags, history
<1>1. CASE PrepareIdle(t)
  BY <1>1 DEF PrepareIdle, ControlBit
<1>2. CASE SetSysctrl(t)
  <2>1. sysctrl' = {} \/ \E bit \in ControlBit : sysctrl' = sysctrl \cup {bit}
    BY <1>2 DEF SetSysctrl
  <2>2. UNCHANGED <<build, status, trx, thenReceive, window, sysstatus, deviceMode,
                    permanentReceive, txfctrl, sem, sentAck, receivedAck, reception, lost>>
    BY <1>2 DEF SetSysctrl
  <2>3. sysctrl' \subseteq ControlBit
    BY <2>1
  <2> QED
    BY <2>2, <2>3
<1>3. CASE SetSysstatus(t)
  <2>1. sysstatus' \subseteq Event
    BY <1>3 DEF SetSysstatus, Event
  <2>2. UNCHANGED <<build, status, trx, thenReceive, window, sysctrl, deviceMode,
                    permanentReceive, txfctrl, sem, sentAck, receivedAck, reception, lost>>
    BY <1>3 DEF SetSysstatus
  <2> QED
    BY <2>1, <2>2
<1>4. CASE SetDeviceMode(t)
  BY <1>4 DEF SetDeviceMode
<1>5. CASE SetDefaults(t)
  BY <1>5 DEF SetDefaults
<1>6. CASE ReceivePermanently(t)
  BY <1>6 DEF ReceivePermanently
<1>7. CASE SetDelay(t)
  <2>1. DelayBit \subseteq ControlBit
    BY DEF DelayBit, ControlBit
  <2> QED
    BY <1>7, <2>1 DEF SetDelay
<1>8. CASE IfPermanentThenReceive(t)
  BY <1>8 DEF IfPermanentThenReceive, fields
<1> QED
  BY <1>1, <1>2, <1>3, <1>4, <1>5, <1>6, <1>7, <1>8 DEF Fields

LEMMA NextTypes == Types /\ [Next]_vars => Types'
<1> SUFFICES ASSUME Types, [Next]_vars PROVE Types'
  OBVIOUS
<1>0. "loop" \in Task /\ "irq" \in Task
  BY DEF Task
<1>1. CASE Chip
  BY <1>1 DEF Chip, FrameSent, FrameReceived, LatchStatus, Types, fields, history, Event
<1>2. CASE TakeSemaphore
  <2>1. UNCHANGED <<build, chip, fields, sentAck, receivedAck, history>>
    BY <1>2 DEF TakeSemaphore
  <2>2. sem' \in BOOLEAN
    BY <1>2 DEF TakeSemaphore
  <2> QED
    BY <2>1, <2>2 DEF Types, chip, fields, history
<1>3. CASE IfTransmitDone
  <2>1. UNCHANGED <<build, chip, fields, sem, receivedAck, history>>
    BY <1>3 DEF IfTransmitDone
  <2>2. sentAck' = TRUE \/ sentAck' = sentAck
    BY <1>3, Zenon DEF IfTransmitDone
  <2>3. sentAck' \in BOOLEAN
    BY <2>2, Zenon DEF Types
  <2> QED
    BY <2>1, <2>3 DEF Types, chip, fields, history
<1>4. CASE IfReceiveDone
  BY <1>4 DEF IfReceiveDone, Types, chip, fields
<1>5. CASE \E t \in Task : Bus(t)
  BY <1>5, BusTypes
<1>6. CASE \E t \in Task : Fields(t)
  BY <1>6, FieldsTypes
<1>7. CASE TimerTick
  BY <1>7 DEF TimerTick, Types, chip, fields, flags, history
<1>8. CASE CheckForReset
  BY <1>8 DEF CheckForReset, Types, chip, fields, flags, history
<1>9. CASE HandleSent
  BY <1>9 DEF HandleSent, Types, chip, fields, history
<1>10. CASE HandleReceived
  BY <1>10 DEF HandleReceived, Types, chip, fields, history
<1>11. CASE UNCHANGED vars
  BY <1>11 DEF vars, Types, chip, fields, flags, history
<1> QED
  BY <1>0, <1>1, <1>2, <1>3, <1>4, <1>5, <1>6, <1>7, <1>8, <1>9, <1>10, <1>11
     DEF Next, InterruptTask, Loop

LEMMA InitTypes == Init => Types
  BY BuildsAssumption DEF Init, Types, ControlBit, Event

LEMMA CodeAlways == Spec => [](Types /\ CodeInv)
<1>1. Types /\ CodeInv /\ [Next]_vars => Types' /\ CodeInv'
  BY NextTypes, NextCode DEF Types
<1> QED
  BY <1>1, InitTypes, InitCode, PTL DEF Spec

(* Whatever the build, the fields, the chip and the steps still to do stay *)
(* what they are: no task is ever left with anything but steps.            *)
THEOREM TypeCorrect == Spec => []TypeOK
<1>1. Types /\ CodeInv => TypeOK
  BY DEF Types, CodeInv, TypeOK
<1> QED
  BY <1>1, CodeAlways, PTL

---------------------------------------------------------------------------
(* The receiver is on, or a task will still see to it *)

Coming(c, K) == \E t \in Task : Has(c[t], K)

(* The interrupt task has read of a reception and is still to act on it.   *)
Noticed(c, cached) == "RXFCG" \in cached /\ Has(c["irq"], Tests) /\ ~Has(c["irq"], Reads)

(* Whoever has left the receive mode still enters it; a control bit that   *)
(* turns the transceiver off or starts a transmission is still cleared;    *)
(* and the chip receives, or a task will yet notice the end of its         *)
(* reception, or sets the receiver's bit, or has it set and still writes.  *)
ModeComes == deviceMode # "RX" => Coming(code, Enters)
ControlClears == sysctrl \cap {"TRXOFF", "TXSTRT"} # {} => Coming(code, Frees)
ReceiverComes ==
  \/ trx = "RECEIVING" \/ thenReceive \/ lost
  \/ "RXFCG" \in status /\ reception = "unread"
  \/ Noticed(code, sysstatus)
  \/ Coming(code, Raises)
  \/ "RXENAB" \in sysctrl /\ Coming(code, Writes)

Listens == ModeComes /\ ControlClears /\ ReceiverComes

LEMMA GoesComing ==
  ASSUME CodeInv, NEW t \in Task, NEW step, NEW body, Goes(t, step, body)
  PROVE  /\ \A K : step \notin K /\ Coming(code, K) => Coming(code', K)
         /\ \A K : Has(body, K) => Coming(code', K)
         /\ step \in Leaves => Coming(code', Enters)
         /\ step \in Holds => Coming(code', Frees)
         /\ step \in Drops => Coming(code', Raises)
         /\ step \in Enables => Coming(code', Writes)
         /\ \A cached : step \notin Tests /\ Noticed(code, cached) => Noticed(code', cached)
<1>1. Proper(step, body) /\ Moves(t, step, body) /\ "irq" \in Task
  BY DEF Goes, Task
<1>2. /\ \A u \in Task \ {t} : code'[u] = code[u]
      /\ \A K : Has(body, K) => Has(code'[t], K)
      /\ \A K : step \notin K /\ Has(code[t], K) => Has(code'[t], K)
      /\ ~Has(code[t], Reads) => ~Has(code'[t], Reads)
      /\ step \in Leaves => Has(code'[t], Enters)
      /\ step \in Holds => Has(code'[t], Frees)
      /\ step \in Drops => Has(code'[t], Raises)
      /\ step \in Enables => Has(code'[t], Writes)
  BY <1>1, MoveHas
<1>3. ASSUME NEW K, step \notin K, Coming(code, K) PROVE Coming(code', K)
  <2>1. PICK u \in Task : Has(code[u], K)
    BY <1>3 DEF Coming
  <2>2. Has(code'[u], K)
    BY <1>2, <1>3, <2>1
  <2> QED
    BY <2>2 DEF Coming
<1>4. ASSUME NEW cached, step \notin Tests, Noticed(code, cached) PROVE Noticed(code', cached)
  BY <1>1, <1>2, <1>4 DEF Noticed
<1>5. \A K : Has(code'[t], K) => Coming(code', K)
  BY DEF Coming
<1> QED
  BY <1>2, <1>3, <1>4, <1>5

(* Whoever is to clear the control register is to start the receiver.      *)
LEMMA FreesRaise ==
  ASSUME NEW c, \A t \in Task : Honors(c[t]), Coming(c, Frees)
  PROVE  Coming(c, Raises)
<1>1. PICK t \in Task : Has(c[t], Frees)
  BY DEF Coming
<1>2. Pays(c[t], Drops, Raises)
  BY DEF Honors
<1>3. Has(c[t], Drops) \/ Has(c[t], Raises)
  BY <1>1 DEF Has, Frees, Drops, Raises
<1>4. Has(c[t], Raises)
  BY <1>2, <1>3, Owing
<1> QED
  BY <1>4 DEF Coming

(* A step that promises nothing and keeps nothing.                         *)
LEMMA AsideListens ==
  ASSUME CodeInv, Listens, NEW t \in Task, NEW step, NEW body, Goes(t, step, body),
         step \notin Enters \cup Frees \cup Raises \cup Writes \cup Tests,
         UNCHANGED <<deviceMode, status, trx, thenReceive, reception, lost>>,
         sysstatus \subseteq sysstatus', sysctrl \subseteq sysctrl',
         sysctrl' \cap {"TRXOFF", "TXSTRT"} \subseteq sysctrl
  PROVE  Listens'
<1>1. /\ \A K \in {Enters, Frees, Raises, Writes} : Coming(code, K) => Coming(code', K)
      /\ \A cached : Noticed(code, cached) => Noticed(code', cached)
  BY GoesComing
<1>2. Noticed(code, sysstatus) => Noticed(code', sysstatus')
  <2>1. Noticed(code, sysstatus) => Noticed(code', sysstatus)
    BY <1>1
  <2> QED
    BY <2>1 DEF Noticed
<1>3. ModeComes' /\ ControlClears'
  BY <1>1 DEF Listens, ModeComes, ControlClears
<1>4. ReceiverComes'
  BY <1>1, <1>2 DEF Listens, ReceiverComes
<1> QED
  BY <1>3, <1>4 DEF Listens

LEMMA Kept ==
  /\ \A what \in {"Select", "Deselect", "Other", "WriteStatus", "ReadStatus", "MarkReceive",
                  "MarkTransmit", "MarkAll", "SetDefaults", "SetDelay", "ReceivePermanently",
                  "IfTransmitDone", "PrepareIdle"} :
       Do(what) \notin Enters \cup Frees \cup Raises \cup Writes \cup Tests
  /\ \A mode \in {"IDLE", "TX"} :
       SetMode(mode) \notin Enters \cup Frees \cup Raises \cup Writes \cup Tests
  /\ SetMode("RX") \notin Frees \cup Raises \cup Writes \cup Tests
  /\ \A bit \in ControlBit \ {"RXENAB"} :
       SetCtrl(bit) \notin Enters \cup Frees \cup Raises \cup Writes \cup Tests
  /\ SetCtrl("RXENAB") \notin Enters \cup Frees \cup Writes \cup Tests
  /\ Do("ClearCtrl") \notin Enters \cup Raises \cup Writes \cup Tests
  /\ \A step \in Writes : step \notin Enters \cup Frees \cup Raises \cup Tests
  /\ Do("IfReceiveDone") \notin Enters \cup Frees \cup Raises \cup Writes
<1>1. \A x, y : SetMode(x) = SetMode(y) => x = y
  BY DEF SetMode
<1>2. \A x, y : SetCtrl(x) = SetCtrl(y) => x = y
  BY DEF SetCtrl
<1>3. /\ \A x, y : Do(x) = SetMode(y) => x = "SetMode"
      /\ \A x, y : Do(x) = SetCtrl(y) => x = "SetCtrl"
      /\ \A x, y : SetMode(x) # SetCtrl(y)
      /\ \A x, y : Do(x) = <<"WriteCtrl", y>> => x = "WriteCtrl"
      /\ \A x, y : SetMode(x) # <<"WriteCtrl", y>>
      /\ \A x, y : SetCtrl(x) # <<"WriteCtrl", y>>
  BY DEF Do, SetMode, SetCtrl
<1> USE DEF Enters, Frees, Raises, Tests, Branch
<1>4. \A step \in Writes : step \notin Enters \cup Frees \cup Raises \cup Tests
  BY <1>3 DEF Writes
<1>5. /\ \A what \in {"Select", "Deselect", "Other", "WriteStatus", "ReadStatus", "MarkReceive",
                      "MarkTransmit", "MarkAll", "SetDefaults", "SetDelay",
                      "ReceivePermanently", "IfTransmitDone", "PrepareIdle", "ClearCtrl",
                      "IfReceiveDone"} : Do(what) \notin Writes
      /\ \A mode : SetMode(mode) \notin Writes
      /\ \A bit : SetCtrl(bit) \notin Writes
  BY <1>3 DEF Writes
<1> QED
  BY <1>1, <1>2, <1>3, <1>4, <1>5, Different

LEMMA FieldsListen ==
  ASSUME Types, CodeInv, CodeInv', Listens, NEW t \in Task, Fields(t)
  PROVE  Listens'
<1>1. /\ UNCHANGED <<chip, history>> /\ UNCHANGED <<status, trx, thenReceive, reception, lost>>
      /\ sysstatus \subseteq Event
  BY FieldsGo DEF Types, chip, history
<1>2. \A u \in Task : Honors(code'[u])
  BY DEF CodeInv
<1>3. Coming(code', Frees) => Coming(code', Raises)
  BY <1>2, FreesRaise
<1>4. CASE PrepareIdle(t) /\ Goes(t, Do("PrepareIdle"), <<>>)
  <2>1. Coming(code', Enters) /\ Coming(code', Frees)
    BY <1>4, GoesComing DEF Leaves, Holds
  <2> QED
    BY <1>3, <2>1 DEF Listens, ModeComes, ControlClears, ReceiverComes
<1>5. CASE SetSysctrl(t) /\ Goes(t, Do("ClearCtrl"), <<>>) /\ sysctrl' = {}
  <2>1. Coming(code', Raises) /\ (Coming(code, Enters) => Coming(code', Enters))
    BY <1>5, GoesComing, Kept DEF Drops
  <2>2. deviceMode' = deviceMode
    BY <1>5 DEF SetSysctrl
  <2> QED
    BY <1>5, <2>1, <2>2 DEF Listens, ModeComes, ControlClears, ReceiverComes
<1>6. ASSUME NEW bit \in ControlBit, SetSysctrl(t), Goes(t, SetCtrl(bit), <<>>),
             sysctrl' = sysctrl \cup {bit}
      PROVE  Listens'
  <2>1. deviceMode' = deviceMode /\ sysstatus' = sysstatus
    BY <1>6 DEF SetSysctrl
  <2>2. Coming(code, Enters) => Coming(code', Enters)
    BY <1>6, GoesComing, Kept
  <2>3. CASE bit = "RXENAB"
    <3>1. Coming(code', Writes) /\ (Coming(code, Frees) => Coming(code', Frees))
      BY <1>6, <2>3, GoesComing, Kept DEF Enables
    <3> QED
      BY <1>6, <2>1, <2>2, <2>3, <3>1 DEF Listens, ModeComes, ControlClears, ReceiverComes
  <2>4. CASE bit \in {"TRXOFF", "TXSTRT"}
    <3>1. SetCtrl(bit) \in Holds
      BY <2>4 DEF Holds
    <3>2. Coming(code', Frees)
      BY <1>6, <3>1, GoesComing
    <3> QED
      BY <1>3, <2>1, <2>2, <3>2 DEF Listens, ModeComes, ControlClears, ReceiverComes
  <2>5. CASE bit \notin {"RXENAB", "TRXOFF", "TXSTRT"}
    <3>1. SetCtrl(bit) \notin Enters \cup Frees \cup Raises \cup Writes \cup Tests
      BY <2>5, Kept
    <3> QED
      BY <1>1, <1>6, <2>1, <2>5, <3>1, AsideListens
  <2> QED
    BY <2>3, <2>4, <2>5
<1>7. CASE /\ SetSysstatus(t) /\ sysstatus \subseteq sysstatus'
           /\ \E step \in {Do("MarkReceive"), Do("MarkTransmit"), Do("MarkAll")} :
                Goes(t, step, <<>>)
  <2>1. PICK step \in {Do("MarkReceive"), Do("MarkTransmit"), Do("MarkAll")} :
          Goes(t, step, <<>>)
    BY <1>7
  <2>2. step \notin Enters \cup Frees \cup Raises \cup Writes \cup Tests
    BY Kept
  <2>3. UNCHANGED <<deviceMode, sysctrl>>
    BY <1>7 DEF SetSysstatus
  <2> QED
    BY <1>1, <1>7, <2>1, <2>2, <2>3, AsideListens
<1>8. ASSUME NEW mode \in {"IDLE", "RX", "TX"}, SetDeviceMode(t), Goes(t, SetMode(mode), <<>>),
             deviceMode' = mode
      PROVE  Listens'
  <2>1. /\ \A K \in {Frees, Raises, Writes} : Coming(code, K) => Coming(code', K)
        /\ \A cached : Noticed(code, cached) => Noticed(code', cached)
    BY <1>8, GoesComing, Kept
  <2>2. UNCHANGED <<sysctrl, sysstatus>>
    BY <1>8 DEF SetDeviceMode
  <2>3. mode # "RX" => Coming(code', Enters)
    BY <1>8, GoesComing DEF Leaves
  <2> QED
    BY <1>1, <1>8, <2>1, <2>2, <2>3 DEF Listens, ModeComes, ControlClears, ReceiverComes
<1>9. CASE SetDefaults(t) /\ Goes(t, Do("SetDefaults"), <<>>)
  <2>1. UNCHANGED <<deviceMode, sysctrl, sysstatus>>
    BY <1>9 DEF SetDefaults
  <2> QED
    BY <1>1, <1>9, <2>1, Kept, AsideListens
<1>10. CASE ReceivePermanently(t) /\ Goes(t, Do("ReceivePermanently"), OtherTransfer)
  <2>1. UNCHANGED <<deviceMode, sysctrl, sysstatus>>
    BY <1>10 DEF ReceivePermanently
  <2> QED
    BY <1>1, <1>10, <2>1, Kept, AsideListens
<1>11. CASE SetDelay(t) /\ \E body \in Seq(Plain) : Goes(t, Do("SetDelay"), body)
  <2>1. /\ UNCHANGED <<deviceMode, sysstatus>> /\ sysctrl' = sysctrl \cup DelayBit
    BY <1>11 DEF SetDelay
  <2>2. DelayBit \cap {"TRXOFF", "TXSTRT"} = {}
    BY DEF DelayBit
  <2>3. PICK body \in Seq(Plain) : Goes(t, Do("SetDelay"), body)
    BY <1>11
  <2>4. sysctrl \subseteq sysctrl' /\ sysctrl' \cap {"TRXOFF", "TXSTRT"} \subseteq sysctrl
    BY <2>1, <2>2
  <2> QED
    BY <1>1, <2>1, <2>3, <2>4, Kept, AsideListens
<1>12. CASE /\ IfPermanentThenReceive(t)
            /\ Goes(t, Branch, <<Do("ClearCtrl"), SetMode("RX")>> \o StartReceive)
  <2>1. Coming(code', Enters) /\ Coming(code', Frees) /\ Coming(code', Raises)
    BY <1>12, GoesComing, BranchHonors
  <2> QED
    BY <2>1 DEF Listens, ModeComes, ControlClears, ReceiverComes
<1>13. /\ sysstatus \subseteq Event /\ t \in Task
  BY <1>1
<1> QED
  BY <1>4, <1>5, <1>6, <1>7, <1>8, <1>9, <1>10, <1>11, <1>12, <1>13, FieldsGo

LEMMA WriteCtrlListens ==
  ASSUME CodeInv, CodeInv', Listens, NEW t \in Task, WriteCtrl(t),
         NEW step \in Writes, Goes(t, step, <<>>)
  PROVE  Listens'
<1>1. /\ UNCHANGED <<status, sysctrl, sysstatus, deviceMode, reception>>
      /\ \/ WriteControl(sysctrl) /\ lost' = (lost /\ ~(trx' = "RECEIVING" \/ thenReceive'))
         \/ lost' = TRUE
  BY DEF WriteCtrl, fields
<1>2. /\ \A K \in {Enters, Frees, Raises} : Coming(code, K) => Coming(code', K)
      /\ \A cached : Noticed(code, cached) => Noticed(code', cached)
  BY GoesComing, Kept
<1>3. ModeComes' /\ ControlClears'
  BY <1>1, <1>2 DEF Listens, ModeComes, ControlClears
<1>4. CASE lost' = TRUE
  BY <1>3, <1>4 DEF Listens, ReceiverComes
<1>5. CASE WriteControl(sysctrl) /\ lost' = (lost /\ ~(trx' = "RECEIVING" \/ thenReceive'))
  <2>1. CASE sysctrl \cap {"TRXOFF", "TXSTRT"} # {}
    <3>1. Coming(code', Frees)
      BY <1>2, <2>1 DEF Listens, ControlClears
    <3>2. \A u \in Task : Honors(code'[u])
      BY DEF CodeInv
    <3> QED
      BY <1>3, <3>1, <3>2, FreesRaise DEF Listens, ReceiverComes
  <2>2. CASE sysctrl \cap {"TRXOFF", "TXSTRT"} = {}
    <3>1. Command(sysctrl)
      <4>1. sysctrl \ {"TRXOFF"} = sysctrl /\ "TRXOFF" \notin sysctrl
        BY <2>2
      <4> QED
        BY <1>5, <4>1 DEF WriteControl
    <3>2. CASE "RXENAB" \in sysctrl
      <4>1. trx' = "RECEIVING" \/ thenReceive'
        BY <2>2, <3>1, <3>2 DEF Command
      <4> QED
        BY <1>3, <4>1 DEF Listens, ReceiverComes
    <3>3. CASE "RXENAB" \notin sysctrl
      <4>1. UNCHANGED <<trx, thenReceive>>
        BY <2>2, <3>1, <3>3 DEF Command
      <4>2. lost => lost' \/ trx' = "RECEIVING" \/ thenReceive'
        BY <1>5
      <4> QED
        BY <1>1, <1>2, <1>3, <3>3, <4>1, <4>2 DEF Listens, ReceiverComes
    <3> QED
      BY <3>2, <3>3
  <2> QED
    BY <2>1, <2>2
<1> QED
  BY <1>1, <1>3, <1>4, <1>5 DEF Listens

LEMMA BusListens ==
  ASSUME Types, CodeInv, CodeInv', Listens, NEW t \in Task, Bus(t)
  PROVE  Listens'
<1>1. UNCHANGED <<sysctrl, deviceMode>>
  BY BusGoes
<1>2. CASE /\ \E step \in {Do("Select"), Do("Deselect"), Do("Other")} : Goes(t, step, <<>>)
           /\ UNCHANGED <<status, trx, thenReceive, sysstatus, sem, history>>
  <2>1. PICK step \in {Do("Select"), Do("Deselect"), Do("Other")} : Goes(t, step, <<>>)
    BY <1>2
  <2>2. step \notin Enters \cup Frees \cup Raises \cup Writes \cup Tests
    BY Kept
  <2>3. UNCHANGED <<deviceMode, status, trx, thenReceive, reception, lost, sysstatus, sysctrl>>
    BY <1>1, <1>2 DEF history
  <2> QED
    BY <2>1, <2>2, <2>3, AsideListens
<1>3. CASE WriteCtrl(t) /\ \E step \in Writes : Goes(t, step, <<>>)
  BY <1>3, WriteCtrlListens
<1>4. CASE WriteStatus(t) /\ Goes(t, Do("WriteStatus"), <<>>)
  <2>1. /\ \A K \in {Enters, Frees, Raises, Writes} : Coming(code, K) => Coming(code', K)
        /\ \A cached : Noticed(code, cached) => Noticed(code', cached)
    BY <1>4, GoesComing, Kept
  <2>2. UNCHANGED <<trx, thenReceive, sysstatus, reception>>
    BY <1>4 DEF WriteStatus, Clear, fields, history
  <2>3. /\ lost => lost'
        /\ "RXFCG" \in status /\ reception = "unread" => lost' \/ "RXFCG" \in status'
    BY <1>4 DEF WriteStatus, Clear, LatchStatus, history
  <2> QED
    BY <1>1, <2>1, <2>2, <2>3 DEF Listens, ModeComes, ControlClears, ReceiverComes
<1>5. CASE ReadStatus(t) /\ Goes(t, Do("ReadStatus"), <<>>)
  <2>1. \A K \in {Enters, Frees, Raises, Writes} : Coming(code, K) => Coming(code', K)
    BY <1>5, GoesComing, Kept
  <2>2. UNCHANGED <<status, trx, thenReceive, lost>>
    BY <1>5 DEF ReadStatus
  <2>3. t = "irq" /\ code["irq"] # <<>> /\ Head(code["irq"]) = Do("ReadStatus")
    <3>1. code[t] # <<>> /\ Head(code[t]) = Do("ReadStatus")
      BY <1>5 DEF ReadStatus, AtStep
    <3>2. t # "loop"
      <4>1. code["loop"] # <<>> => Head(code["loop"]) \in Quiet
        BY DEF CodeInv
      <4> QED
        BY <3>1, <4>1 DEF Quiet, IrqOnly
    <3> QED
      BY <3>1, <3>2 DEF Task
  <2>4. ~Has(code'["irq"], Reads) /\ Has(code'["irq"], Tests)
    BY <1>5, <2>3, MoveHas DEF Goes
  <2>5. ~Noticed(code, sysstatus)
    <3>1. Has(code["irq"], Reads)
      BY <2>3, HasHead DEF CodeInv, Reads
    <3> QED
      BY <3>1 DEF Noticed
  <2>6. CASE Seen
    <3>1. sysstatus' = status /\ (reception # "unread" => reception' = reception)
      BY <1>5, <2>6 DEF ReadStatus
    <3>2. "RXFCG" \in status => Noticed(code', sysstatus')
      BY <2>4, <3>1 DEF Noticed
    <3> QED
      BY <1>1, <2>1, <2>2, <2>5, <3>1, <3>2 DEF Listens, ModeComes, ControlClears, ReceiverComes
  <2>7. CASE ~Seen
    <3>1. reception' = reception
      BY <1>5, <2>7 DEF ReadStatus
    <3> QED
      BY <1>1, <2>1, <2>2, <2>5, <3>1 DEF Listens, ModeComes, ControlClears, ReceiverComes
  <2> QED
    BY <2>6, <2>7
<1> QED
  BY <1>2, <1>3, <1>4, <1>5, BusGoes

LEMMA TestsListen ==
  ASSUME CodeInv, Listens, IfTransmitDone \/ IfReceiveDone
  PROVE  Listens'
<1>0. "irq" \in Task /\ "loop" \in Task
  BY DEF Task
<1>1. CASE IfTransmitDone
  <2>1. PICK body : Goes("irq", Do("IfTransmitDone"), body)
    BY <1>1, TestsGo
  <2>2. UNCHANGED <<deviceMode, status, trx, thenReceive, reception, lost, sysstatus, sysctrl>>
    BY <1>1, TestsGo DEF chip, fields, history
  <2>3. Do("IfTransmitDone") \notin Enters \cup Frees \cup Raises \cup Writes \cup Tests
    BY Kept
  <2> QED
    BY <1>0, <2>1, <2>2, <2>3, AsideListens
<1>2. CASE IfReceiveDone
  <2>1. UNCHANGED <<deviceMode, status, trx, thenReceive, lost, sysstatus, sysctrl>>
    BY <1>2, TestsGo DEF chip, fields
  <2>2. PICK body :
          /\ Goes("irq", Do("IfReceiveDone"), body)
          /\ \/ "RXFCG" \in sysstatus /\ body = ClearReceiveStatus \o Restart
             \/ "RXFCG" \notin sysstatus /\ reception' = reception
    BY <1>2, TestsGo
  <2>3. \A K \in {Enters, Frees, Raises, Writes} : Coming(code, K) => Coming(code', K)
    BY <1>0, <2>2, GoesComing, Kept
  <2>4. ModeComes' /\ ControlClears'
    BY <2>1, <2>3 DEF Listens, ModeComes, ControlClears
  <2>5. CASE "RXFCG" \in sysstatus /\ body = ClearReceiveStatus \o Restart
    <3>1. CASE permanentReceive
      <4>1. Has(ClearReceiveStatus \o Restart, Raises)
        <5>1. ClearReceiveStatus \in Seq(Step)
          BY CalmBodies, CalmHonors
        <5> QED
          BY <3>1, <5>1, RestartHonors, HasConcat
      <4>2. Coming(code', Raises)
        BY <1>0, <2>2, <2>5, <4>1, GoesComing
      <4> QED
        BY <2>4, <4>2 DEF Listens, ReceiverComes
    <3>2. CASE ~permanentReceive
      <4>1. Has(code["loop"], Drops) /\ Pays(code["loop"], Drops, Raises)
        BY <1>0, <3>2 DEF CodeInv, Permanent, Honors, Has, Drops
      <4>2. Coming(code, Raises)
        BY <1>0, <4>1, Owing DEF Coming
      <4> QED
        BY <2>3, <2>4, <4>2 DEF Listens, ReceiverComes
    <3> QED
      BY <3>1, <3>2
  <2>6. CASE "RXFCG" \notin sysstatus /\ reception' = reception
    BY <2>1, <2>3, <2>4, <2>6 DEF Listens, ReceiverComes, Noticed
  <2> QED
    BY <2>2, <2>5, <2>6
<1> QED
  BY <1>1, <1>2

LEMMA StartsListen ==
  ASSUME CodeInv, Listens, NEW t \in Task, code[t] = <<>>, NEW body \in Seq(Step),
         code' = [code EXCEPT ![t] = body],
         UNCHANGED <<deviceMode, status, trx, thenReceive, reception, lost, sysstatus, sysctrl>>
  PROVE  Listens'
<1>1. \A u \in Task \ {t} : code'[u] = code[u]
  BY DEF CodeInv
<1>2. ASSUME NEW K, Coming(code, K) PROVE Coming(code', K)
  <2>1. PICK u \in Task : Has(code[u], K)
    BY <1>2 DEF Coming
  <2>2. u # t
    BY <2>1, NoSteps
  <2> QED
    BY <1>1, <2>1, <2>2 DEF Coming
<1>3. Noticed(code, sysstatus) => Noticed(code', sysstatus')
  <2>1. Noticed(code, sysstatus) => t # "irq"
    BY NoSteps DEF Noticed
  <2> QED
    BY <1>1, <2>1 DEF Noticed, Task
<1> QED
  BY <1>2, <1>3 DEF Listens, ModeComes, ControlClears, ReceiverComes

LEMMA ChipListens ==
  ASSUME Listens, Chip
  PROVE  Listens'
<1>1. UNCHANGED <<code, deviceMode, sysctrl, sysstatus, lost>>
  BY DEF Chip, FrameSent, FrameReceived, fields, history
<1>2. ModeComes' /\ ControlClears'
  BY <1>1 DEF Listens, ModeComes, ControlClears
<1>3. CASE FrameSent
  <2>1. /\ trx # "RECEIVING" /\ (thenReceive => trx' = "RECEIVING")
        /\ status \subseteq status' /\ reception' = reception
    BY <1>3 DEF FrameSent, LatchStatus, history
  <2> QED
    BY <1>1, <1>2, <2>1 DEF Listens, ReceiverComes
<1>4. CASE FrameReceived
  <2>1. "RXFCG" \in status' /\ reception' = "unread"
    BY <1>4 DEF FrameReceived, LatchStatus
  <2> QED
    BY <1>2, <2>1 DEF Listens, ReceiverComes
<1> QED
  BY <1>3, <1>4 DEF Chip

LEMMA NextListens == Types /\ CodeInv /\ CodeInv' /\ Listens /\ [Next]_vars => Listens'
<1> SUFFICES ASSUME Types, CodeInv, CodeInv', Listens, [Next]_vars PROVE Listens'
  OBVIOUS
<1>0. "loop" \in Task /\ "irq" \in Task
  BY DEF Task
<1>1. CASE \E t \in Task : Bus(t)
  BY <1>1, BusListens
<1>2. CASE \E t \in Task : Fields(t)
  BY <1>2, FieldsListen
<1>3. CASE IfTransmitDone \/ IfReceiveDone
  BY <1>3, TestsListen
<1>4. CASE TimerTick \/ CheckForReset \/ HandleSent \/ HandleReceived
  <2>1. PICK body \in LoopBodies : Calls(body)
    BY <1>4, LoopStarts
  <2>2. body \in Seq(Step)
    BY BodiesHonor DEF LoopBodies
  <2>3. UNCHANGED <<deviceMode, status, trx, thenReceive, reception, lost, sysstatus, sysctrl>>
    BY <1>4, LoopStarts DEF chip, fields, history
  <2>4. code["loop"] = <<>> /\ code' = [code EXCEPT !["loop"] = body]
    BY <1>4, <2>1, LoopStarts DEF Calls
  <2> QED
    BY <1>0, <2>2, <2>3, <2>4, StartsListen
<1>5. CASE TakeSemaphore
  <2>1. code["irq"] = <<>> /\ code' = [code EXCEPT !["irq"] = HandleInterrupt]
    BY <1>5 DEF TakeSemaphore
  <2>2. UNCHANGED <<deviceMode, status, trx, thenReceive, reception, lost, sysstatus, sysctrl>>
    BY <1>5 DEF TakeSemaphore, chip, fields, history
  <2> QED
    BY <1>0, <2>1, <2>2, HandleInterruptHonors, StartsListen
<1>6. CASE Chip
  BY <1>6, ChipListens
<1>7. CASE UNCHANGED vars
  <2>1. UNCHANGED <<code, deviceMode, status, trx, thenReceive, reception, lost, sysstatus,
                    sysctrl>>
    BY <1>7 DEF vars, chip, fields, history
  <2> QED
    BY <2>1 DEF Listens, ModeComes, ControlClears, ReceiverComes
<1> QED
  BY <1>0, <1>1, <1>2, <1>3, <1>4, <1>5, <1>6, <1>7 DEF Next, InterruptTask, Loop

LEMMA InitListens == Init => Listens
<1> SUFFICES ASSUME Init PROVE Listens
  OBVIOUS
<1>1. code["loop"] = Receiver /\ "loop" \in Task
  BY DEF Init, Task
<1>2. /\ Has(Receiver, Enters) /\ Has(Receiver, Frees) /\ Has(Receiver, Raises)
  <2>1. NewReceive = Idle \o <<Do("ClearCtrl")>> \o ClearReceiveStatus \o <<SetMode("RX")>>
    BY DEF NewReceive
  <2>2. /\ Pays(Receiver, Drops, Raises) /\ Has(Receiver, Drops)
    BY ReceiverHonors DEF Honors, Has, Drops
  <2>3. Has(Receiver, Raises)
    BY <2>2, Owing
  <2>4. Has(NewReceive, Enters) /\ Has(NewReceive, Frees) /\ NewReceive \in Seq(Step)
    <3>1. /\ Idle \in Seq(Step) /\ <<Do("ClearCtrl")>> \in Seq(Step)
          /\ ClearReceiveStatus \in Seq(Step) /\ <<SetMode("RX")>> \in Seq(Step)
      BY IdlePays, PlainSteps, OnlySteps, One, CalmBodies, CalmHonors
    <3>2. Has(<<Do("ClearCtrl")>>, Frees)
      BY Single, Kinds
    <3>3. Idle \o <<Do("ClearCtrl")>> \in Seq(Step) /\ Has(Idle \o <<Do("ClearCtrl")>>, Frees)
      BY <3>1, <3>2, HasConcat, Concat
    <3>4. /\ Idle \o <<Do("ClearCtrl")>> \o ClearReceiveStatus \in Seq(Step)
          /\ Has(Idle \o <<Do("ClearCtrl")>> \o ClearReceiveStatus, Frees)
      BY <3>1, <3>3, HasConcat, Concat
    <3> QED
      BY <2>1, <3>1, <3>4, HasConcat, NewBodiesPay
  <2> DEFINE two == <<Do("SetDefaults"), Do("ReceivePermanently")>>
  <2>5. two \in Seq(Step)
    BY OnlySteps, Two DEF LoopOnly
  <2>6. Receiver = NewReceive \o two \o StartReceive
    BY DEF Receiver
  <2> HIDE DEF two
  <2>7. Has(Receiver, Enters) /\ Has(Receiver, Frees)
    <3>1. /\ NewReceive \o two \in Seq(Step) /\ Has(NewReceive \o two, Enters)
          /\ Has(NewReceive \o two, Frees)
      BY <2>4, <2>5, HasConcat, Concat
    <3> QED
      BY <2>6, <3>1, StartReceiveHonors, HasConcat
  <2> QED
    BY <2>3, <2>7
<1> QED
  BY <1>1, <1>2 DEF Listens, ModeComes, ControlClears, ReceiverComes, Coming

(* However the steps of the two tasks fall into each other, on any build:  *)
(* once both have ended the driver is in receive mode and the chip         *)
(* receives, or will after a transmission, unless a reception was cleared  *)
(* unread or a command was cut.                                            *)
THEOREM ListensWhenAtRest == Spec => []ListensAtRest
<1>1. Init => Types /\ CodeInv /\ Listens
  BY InitTypes, InitCode, InitListens
<1>2. Types /\ CodeInv /\ Listens /\ [Next]_vars => Types' /\ CodeInv' /\ Listens'
  BY NextTypes, NextCode, NextListens DEF Types
<1>3. Listens => ListensAtRest
  <2> SUFFICES ASSUME Listens, AtRest, status = {}
               PROVE  deviceMode = "RX" /\ (trx = "RECEIVING" \/ thenReceive \/ lost)
    BY DEF ListensAtRest
  <2>1. \A K : ~Coming(code, K) /\ ~Has(code["irq"], K)
    BY NoSteps DEF Coming, AtRest, Task
  <2> QED
    BY <2>1 DEF Listens, ModeComes, ReceiverComes, Noticed
<1> QED
  BY <1>1, <1>2, <1>3, PTL DEF Spec

---------------------------------------------------------------------------
(* On one core the configuration is kept *)

(* Every setDefaults comes right after receive or transmit mode is set.    *)
Guarded(c) ==
  \A i \in DOMAIN c : c[i] = Do("SetDefaults") => i > 1 /\ c[i - 1] \in Modes

LEMMA GuardedConcat ==
  ASSUME NEW S, NEW a \in Seq(S), NEW b \in Seq(S), Guarded(a), Guarded(b)
  PROVE  Guarded(a \o b)
<1> SUFFICES ASSUME NEW k \in DOMAIN (a \o b), (a \o b)[k] = Do("SetDefaults")
             PROVE  k > 1 /\ (a \o b)[k - 1] \in Modes
  BY DEF Guarded
<1>1. CASE k \in DOMAIN a
  <2>1. a[k] = Do("SetDefaults") /\ k \in 1 .. Len(a) /\ Len(a) \in Nat
    BY <1>1, Indices
  <2>2. k > 1 /\ a[k - 1] \in Modes
    BY <1>1, <2>1 DEF Guarded
  <2>3. k - 1 \in DOMAIN a
    BY <2>1, <2>2, Indices
  <2> QED
    BY <2>2, <2>3, Indices
<1>2. CASE \E i \in DOMAIN b : k = Len(a) + i
  <2>1. PICK i \in DOMAIN b : k = Len(a) + i
    BY <1>2
  <2>2. b[i] = Do("SetDefaults") /\ i \in 1 .. Len(b) /\ Len(a) \in Nat /\ Len(b) \in Nat
    BY <2>1, Indices
  <2>3. i > 1 /\ b[i - 1] \in Modes
    BY <2>2 DEF Guarded
  <2>4. i - 1 \in DOMAIN b /\ k - 1 = Len(a) + (i - 1) /\ k > 1
    BY <2>1, <2>2, <2>3, Indices
  <2> QED
    BY <2>3, <2>4, Indices
<1> QED
  BY <1>1, <1>2, Indices

LEMMA GuardedClean ==
  ASSUME NEW S, NEW c \in Seq(S), Do("SetDefaults") \notin S
  PROVE  Guarded(c)
<1>1. \A i \in DOMAIN c : c[i] \in S
  OBVIOUS
<1> QED
  BY <1>1 DEF Guarded

(* setDefaults is next, and the rest is guarded.                           *)
DefaultsNext(c) == c # <<>> /\ Head(c) = Do("SetDefaults") /\ Guarded(Tail(c))

LEMMA GuardedTail ==
  ASSUME NEW S, NEW c \in Seq(S), c # <<>>, Guarded(c)
  PROVE  \/ Guarded(Tail(c))
         \/ Head(c) \in Modes /\ DefaultsNext(Tail(c))
<1> DEFINE r == Tail(c)
<1>1. /\ r \in Seq(S) /\ Len(r) \in Nat /\ DOMAIN c = 1 .. Len(r) + 1 /\ DOMAIN r = 1 .. Len(r)
      /\ \A i \in 1 .. Len(r) : r[i] = c[i + 1]
      /\ c[1] = Head(c)
  BY HeadTailProperties, LenProperties
<1> HIDE DEF r
<1>2. ASSUME NEW i \in DOMAIN r, r[i] = Do("SetDefaults")
      PROVE  IF i = 1 THEN Head(c) \in Modes ELSE i > 1 /\ r[i - 1] \in Modes
  <2>1. i + 1 \in DOMAIN c /\ c[i + 1] = Do("SetDefaults") /\ (i + 1) - 1 = i
    BY <1>1, <1>2
  <2>2. c[i] \in Modes
    BY <2>1 DEF Guarded
  <2>3. CASE i = 1
    BY <1>1, <2>2, <2>3
  <2>4. CASE i # 1
    <3>1. i > 1 /\ i - 1 \in 1 .. Len(r) /\ (i - 1) + 1 = i
      BY <1>1, <2>4
    <3>2. r[i - 1] = c[i]
      BY <1>1, <3>1
    <3> QED
      BY <2>2, <2>4, <3>1, <3>2
  <2> QED
    BY <2>3, <2>4
<1>3. CASE r = <<>> \/ r[1] # Do("SetDefaults")
  <2>1. \A i \in DOMAIN r : r[i] = Do("SetDefaults") => i # 1
    BY <1>1, <1>3
  <2> QED
    BY <1>2, <2>1 DEF Guarded, r
<1>4. CASE r # <<>> /\ r[1] = Do("SetDefaults")
  <2>1. 1 \in DOMAIN r
    BY <1>1, <1>4
  <2>2. Head(c) \in Modes
    BY <1>2, <1>4, <2>1
  <2>3. Head(r) = Do("SetDefaults")
    BY <1>1, <1>4
  <2> DEFINE q == Tail(r)
  <2>4. /\ q \in Seq(S) /\ Len(q) \in Nat /\ DOMAIN r = 1 .. Len(q) + 1 /\ DOMAIN q = 1 .. Len(q)
        /\ \A i \in 1 .. Len(q) : q[i] = r[i + 1]
    BY <1>1, <1>4, HeadTailProperties, LenProperties
  <2> HIDE DEF q
  <2>5. ASSUME NEW i \in DOMAIN q, q[i] = Do("SetDefaults")
        PROVE  i > 1 /\ q[i - 1] \in Modes
    <3>1. i + 1 \in DOMAIN r /\ r[i + 1] = Do("SetDefaults") /\ (i + 1) - 1 = i /\ i + 1 # 1
      BY <2>4, <2>5
    <3>2. r[i] \in Modes
      BY <1>2, <3>1
    <3>3. i # 1
      <4>1. Do("SetDefaults") \notin Modes
        BY Different
      <4> QED
        BY <1>4, <3>2, <4>1
    <3>4. i > 1 /\ i - 1 \in 1 .. Len(q) /\ (i - 1) + 1 = i
      BY <2>4, <3>3
    <3> QED
      BY <2>4, <3>2, <3>4
  <2>6. Guarded(q)
    BY <2>5 DEF Guarded
  <2> QED
    BY <1>4, <2>2, <2>3, <2>6 DEF DefaultsNext, r, q
<1> QED
  BY <1>3, <1>4

LEMMA GuardedMode ==
  ASSUME NEW S, NEW x \in S, x \in Modes, NEW b \in Seq(S),
         \A i \in DOMAIN b : i > 1 => b[i] # Do("SetDefaults")
  PROVE  Guarded(<<x>> \o b)
<1> DEFINE a == <<x>>
<1>0. a \in Seq(S)
  BY One
<1>1. Len(a) = 1 /\ DOMAIN a = {1} /\ a[1] = x
  OBVIOUS
<1>2. x # Do("SetDefaults")
  BY Different
<1> HIDE DEF a
<1>3. /\ \A i \in DOMAIN a : (a \o b)[i] = a[i]
      /\ \A i \in DOMAIN b : (a \o b)[Len(a) + i] = b[i]
      /\ \A k \in DOMAIN (a \o b) : k \in DOMAIN a \/ \E i \in DOMAIN b : k = Len(a) + i
      /\ Len(b) \in Nat /\ DOMAIN b = 1 .. Len(b)
  BY <1>0, Indices
<1>4. ASSUME NEW k \in DOMAIN (a \o b), (a \o b)[k] = Do("SetDefaults")
      PROVE  k > 1 /\ (a \o b)[k - 1] \in Modes
  <2>1. k \notin DOMAIN a
    BY <1>1, <1>2, <1>3, <1>4
  <2>2. PICK i \in DOMAIN b : k = Len(a) + i
    BY <1>3, <2>1
  <2>3. b[i] = Do("SetDefaults") /\ i \in 1 .. Len(b) /\ Len(b) \in Nat
    BY <1>3, <1>4, <2>2
  <2>4. i = 1
    BY <2>3
  <2>5. k > 1 /\ k - 1 = 1
    BY <1>1, <2>2, <2>4
  <2> QED
    BY <1>1, <1>3, <2>5
<1> QED
  BY <1>4 DEF Guarded, a

LEMMA GuardedBodies ==
  /\ \A body \in LoopBodies : Guarded(body) /\ body \in Seq(Step)
  /\ \A body \in Seq(Plain) : Guarded(body)
<1>1. Do("SetDefaults") \notin Plain /\ Do("SetDefaults") \notin Modes
  BY Different DEF Plain, LoopOnly
<1>2. \A body \in Seq(Plain) : Guarded(body) /\ body \in Seq(Step)
  BY <1>1, GuardedClean, PlainHas
<1>3. \A mode \in {"RX", "TX"} : SetMode(mode) \in Step /\ SetMode(mode) \in Modes
  BY PlainSteps, OnlySteps DEF Modes
<1>4. /\ Do("SetDefaults") \in Step /\ Do("ReceivePermanently") \in Step
      /\ Do("SetDelay") \in Step /\ Branch \in Step
      /\ Do("ReceivePermanently") # Do("SetDefaults") /\ Do("SetDelay") # Do("SetDefaults")
      /\ Branch # Do("SetDefaults")
  BY OnlySteps, Different DEF LoopOnly, Branch
<1>5. /\ Idle \o <<Do("ClearCtrl")>> \o ClearReceiveStatus \in Seq(Plain)
      /\ Idle \o <<Do("ClearCtrl")>> \o ClearTransmitStatus \in Seq(Plain)
  <2>1. <<Do("PrepareIdle")>> \in Seq(Plain) /\ <<Do("ClearCtrl")>> \in Seq(Plain)
    BY PlainSteps, One
  <2>2. Spi(Do("WriteCtrl")) \in Seq(Plain)
    BY CalmBodies, CalmIsPlain, Wider DEF Do
  <2> QED
    BY <2>1, <2>2, Bodies, Concat DEF Idle
<1>6. Guarded(Receiver)
  <2> DEFINE x == Idle \o <<Do("ClearCtrl")>> \o ClearReceiveStatus
             m == <<SetMode("RX")>>
             two == <<Do("SetDefaults"), Do("ReceivePermanently")>>
  <2>1. m \in Seq(Step) /\ two \in Seq(Step) /\ x \in Seq(Step) /\ Guarded(x)
    BY <1>2, <1>3, <1>4, <1>5, One, Two
  <2>2. Guarded(m \o two)
    <3>1. /\ DOMAIN two = 1 .. 2 /\ two[2] = Do("ReceivePermanently")
          /\ SetMode("RX") \in Step /\ SetMode("RX") \in Modes
      BY <1>3
    <3> HIDE DEF two
    <3>2. \A i \in DOMAIN two : i > 1 => two[i] # Do("SetDefaults")
      BY <1>4, <3>1
    <3> QED
      BY <2>1, <3>1, <3>2, GuardedMode
  <2>3. NewReceive = x \o m /\ Receiver = NewReceive \o two \o StartReceive
    BY DEF NewReceive, Receiver
  <2> HIDE DEF x, m, two
  <2>4. x \o m \o two = x \o (m \o two)
    BY <2>1, Regroup
  <2>5. m \o two \in Seq(Step)
    BY <2>1, Concat
  <2>6. Guarded(x \o (m \o two)) /\ x \o (m \o two) \in Seq(Step)
    BY <2>1, <2>2, <2>5, GuardedConcat, Concat
  <2>7. Guarded(StartReceive) /\ StartReceive \in Seq(Step)
    BY <1>2, Bodies
  <2> QED
    BY <2>3, <2>4, <2>6, <2>7, GuardedConcat
<1>7. Guarded(TransmitInit) /\ TransmitInit \in Seq(Step)
  <2> DEFINE x == Idle \o <<Do("ClearCtrl")>> \o ClearTransmitStatus
             m == <<SetMode("TX")>>
             one == <<Do("SetDefaults")>>
  <2>1. m \in Seq(Step) /\ one \in Seq(Step) /\ x \in Seq(Step) /\ Guarded(x)
    BY <1>2, <1>3, <1>4, <1>5, One
  <2>2. Guarded(m \o one)
    <3>1. DOMAIN one = {1} /\ SetMode("TX") \in Step /\ SetMode("TX") \in Modes
      BY <1>3
    <3> HIDE DEF one
    <3>2. \A i \in DOMAIN one : i > 1 => one[i] # Do("SetDefaults")
      BY <3>1
    <3> QED
      BY <2>1, <3>1, <3>2, GuardedMode
  <2>3. TransmitInit = x \o m \o one
    BY DEF NewTransmit, TransmitInit
  <2> HIDE DEF x, m, one
  <2>4. x \o m \o one = x \o (m \o one)
    BY <2>1, Regroup
  <2>5. m \o one \in Seq(Step)
    BY <2>1, Concat
  <2> QED
    BY <2>1, <2>2, <2>3, <2>4, <2>5, GuardedConcat, Concat
<1>8. OtherTransfer \in Seq(Step) /\ Guarded(OtherTransfer)
  BY <1>2, Bodies
<1>9. ASSUME NEW how \in {"now", "delayed"}
      PROVE  Guarded(StartTransmit(how)) /\ StartTransmit(how) \in Seq(Step)
  <2> DEFINE S == Plain \cup {Branch}
  <2>1. Do("SetDefaults") \notin S /\ Plain \subseteq S
    BY <1>1, <1>4
  <2>2. OtherTransfer \in Seq(S)
    BY <2>1, Bodies, Wider
  <2>3. <<SetCtrl("TXSTRT")>> \in Seq(S) /\ <<Branch>> \in Seq(S)
    BY PlainSteps, One DEF ControlBit
  <2>4. Spi(<<"WriteCtrl", how>>) \in Seq(S)
    <3>1. Calm \subseteq S
      BY <2>1, CalmIsPlain
    <3> QED
      BY <3>1, CalmBodies, Wider
  <2> HIDE DEF S
  <2>5. StartTransmit(how) \in Seq(S)
    BY <2>2, <2>3, <2>4, Concat DEF StartTransmit, Branch
  <2>6. StartTransmit(how) \in Seq(Step)
    BY StartTransmitHonors
  <2> QED
    BY <2>1, <2>5, <2>6, GuardedClean
<1>10. Guarded(Transmit)
  <2>1. Guarded(TransmitInit \o OtherTransfer) /\ TransmitInit \o OtherTransfer \in Seq(Step)
    BY <1>7, <1>8, GuardedConcat, Concat
  <2> QED
    BY <1>9, <2>1, GuardedConcat DEF Transmit
<1>11. Guarded(TransmitDelayed)
  <2> DEFINE d == <<Do("SetDelay")>>
  <2>1. d \in Seq(Step) /\ Guarded(d)
    <3>1. \A x : x # Do("SetDefaults") => Guarded(<<x>>)
      <4>1. \A x : DOMAIN <<x>> = {1} /\ <<x>>[1] = x
        OBVIOUS
      <4> QED
        BY <4>1 DEF Guarded
    <3> QED
      BY <1>4, <3>1, One
  <2>2. TransmitDelayed = TransmitInit \o d \o OtherTransfer \o StartTransmit("delayed")
    BY DEF TransmitDelayed
  <2> HIDE DEF d
  <2>3. Guarded(TransmitInit \o d) /\ TransmitInit \o d \in Seq(Step)
    BY <1>7, <2>1, GuardedConcat, Concat
  <2>4. /\ Guarded(TransmitInit \o d \o OtherTransfer)
        /\ TransmitInit \o d \o OtherTransfer \in Seq(Step)
    BY <1>8, <2>3, GuardedConcat, Concat
  <2> QED
    BY <1>9, <2>2, <2>4, GuardedConcat
<1>12. \A body \in LoopBodies : body \in Seq(Step)
  BY BodiesHonor DEF LoopBodies
<1>13. Guarded(OtherTransfer \o Receiver) /\ Guarded(OtherTransfer \o TransmitDelayed)
  BY <1>6, <1>8, <1>11, BodiesHonor, TransmitHonors, GuardedConcat
<1>14. Guarded(<<>>)
  BY <1>2, Bodies
<1> QED
  BY <1>2, <1>6, <1>8, <1>10, <1>11, <1>12, <1>13, <1>14 DEF LoopBodies

(* The mode is not idle when setDefaults comes: it is not the next step or *)
(* the mode has just been set, and the interrupt task, if it takes it      *)
(* away, sets receive mode before loop() goes on.                          *)
ModeKept ==
  \/ Guarded(code["loop"])
  \/ /\ DefaultsNext(code["loop"])
     /\ deviceMode # "IDLE" \/ Has(code["irq"], {SetMode("RX")})

KeptOnOneCore == build.cores = 1 => txfctrl = "configured" /\ ModeKept

(* What a step of a task does to the mode and to the configuration.        *)
LEMMA Effects ==
  ASSUME CodeInv, sysstatus \subseteq Event, NEW t \in Task, Bus(t) \/ Fields(t)
  PROVE  /\ build' = build
         /\ \E step, body :
              /\ Goes(t, step, body)
              /\ \/ deviceMode' = deviceMode /\ step \notin Modes
                 \/ deviceMode' = "IDLE" /\ step \in Leaves /\ step \notin Modes
                 \/ deviceMode' # "IDLE" /\ step \in Modes
              /\ txfctrl' = txfctrl \/ (step = Do("SetDefaults") /\ deviceMode = "IDLE")
<1>1. /\ \A x, y : SetMode(x) = SetMode(y) => x = y
      /\ \A x, y : SetCtrl(x) # SetMode(y)
      /\ \A x, y : Do(x) = SetMode(y) => x = "SetMode"
  BY DEF SetMode, SetCtrl, Do
<1>4. \A y : \A step \in Writes : step # SetMode(y)
  <2>1. \A x, y : SetMode(x) # <<"WriteCtrl", y>>
    BY DEF SetMode
  <2> QED
    BY <2>1 DEF Writes
<1>2. CASE Bus(t)
  <2>1. UNCHANGED <<build, deviceMode, txfctrl>>
    BY <1>2, BusGoes
  <2>2. \E step, body : Goes(t, step, body) /\ step \notin Modes
    <3>1. \A step \in {Do("Select"), Do("Deselect"), Do("Other"), Do("WriteStatus"),
                       Do("ReadStatus")} \cup Writes : step \notin Modes
      BY <1>1, <1>4 DEF Modes
    <3> QED
      BY <1>2, <3>1, BusGoes
  <2> QED
    BY <2>1, <2>2
<1>3. CASE Fields(t)
  <2>0. build' = build
    BY <1>3, FieldsGo
  <2>1. CASE PrepareIdle(t) /\ Goes(t, Do("PrepareIdle"), <<>>)
    <3>1. deviceMode' = "IDLE" /\ txfctrl' = txfctrl
      BY <2>1 DEF PrepareIdle
    <3>2. Do("PrepareIdle") \in Leaves /\ Do("PrepareIdle") \notin Modes
      BY <1>1 DEF Leaves, Modes
    <3> QED
      BY <2>0, <2>1, <3>1, <3>2
  <2>2. CASE SetSysctrl(t) /\ Goes(t, Do("ClearCtrl"), <<>>)
    <3>1. deviceMode' = deviceMode /\ txfctrl' = txfctrl /\ Do("ClearCtrl") \notin Modes
      BY <1>1, <2>2 DEF SetSysctrl, Modes
    <3> QED
      BY <2>0, <2>2, <3>1
  <2>3. CASE \E bit \in ControlBit : SetSysctrl(t) /\ Goes(t, SetCtrl(bit), <<>>)
    <3>1. deviceMode' = deviceMode /\ txfctrl' = txfctrl /\ \A bit : SetCtrl(bit) \notin Modes
      BY <1>1, <2>3 DEF SetSysctrl, Modes
    <3> QED
      BY <2>0, <2>3, <3>1
  <2>4. CASE /\ SetSysstatus(t)
             /\ \E step \in {Do("MarkReceive"), Do("MarkTransmit"), Do("MarkAll")} :
                  Goes(t, step, <<>>)
    <3>1. /\ deviceMode' = deviceMode /\ txfctrl' = txfctrl
          /\ \A step \in {Do("MarkReceive"), Do("MarkTransmit"), Do("MarkAll")} : step \notin Modes
      BY <1>1, <2>4 DEF SetSysstatus, Modes
    <3> QED
      BY <2>0, <2>4, <3>1
  <2>5. ASSUME NEW mode \in {"IDLE", "RX", "TX"}, SetDeviceMode(t), Goes(t, SetMode(mode), <<>>),
               deviceMode' = mode
        PROVE  \E step, body :
                 /\ Goes(t, step, body)
                 /\ \/ deviceMode' = "IDLE" /\ step \in Leaves /\ step \notin Modes
                    \/ deviceMode' # "IDLE" /\ step \in Modes
                 /\ txfctrl' = txfctrl
    <3>1. txfctrl' = txfctrl
      BY <2>5 DEF SetDeviceMode
    <3>2. mode # "IDLE" => SetMode(mode) \in Modes
      BY DEF Modes
    <3>3. SetMode("IDLE") \in Leaves /\ SetMode("IDLE") \notin Modes
      BY <1>1 DEF Leaves, Modes
    <3> QED
      BY <2>5, <3>1, <3>2, <3>3
  <2>6. CASE SetDefaults(t) /\ Goes(t, Do("SetDefaults"), <<>>)
    <3>1. /\ deviceMode' = deviceMode /\ Do("SetDefaults") \notin Modes
          /\ txfctrl' = txfctrl \/ deviceMode = "IDLE"
      BY <1>1, <2>6 DEF SetDefaults, Modes
    <3> QED
      BY <2>0, <2>6, <3>1
  <2>7. CASE ReceivePermanently(t) /\ Goes(t, Do("ReceivePermanently"), OtherTransfer)
    <3>1. deviceMode' = deviceMode /\ txfctrl' = txfctrl /\ Do("ReceivePermanently") \notin Modes
      BY <1>1, <2>7 DEF ReceivePermanently, Modes
    <3> QED
      BY <2>0, <2>7, <3>1
  <2>8. CASE SetDelay(t) /\ \E body \in Seq(Plain) : Goes(t, Do("SetDelay"), body)
    <3>1. deviceMode' = deviceMode /\ txfctrl' = txfctrl /\ Do("SetDelay") \notin Modes
      BY <1>1, <2>8 DEF SetDelay, Modes
    <3> QED
      BY <2>0, <2>8, <3>1
  <2>9. CASE /\ IfPermanentThenReceive(t)
             /\ Goes(t, Branch, <<Do("ClearCtrl"), SetMode("RX")>> \o StartReceive)
    <3>1. deviceMode' = deviceMode /\ txfctrl' = txfctrl /\ Branch \notin Modes
      BY <1>1, <2>9 DEF IfPermanentThenReceive, fields, Branch, Modes
    <3> QED
      BY <2>0, <2>9, <3>1
  <2> QED
    BY <1>3, <2>0, <2>1, <2>2, <2>3, <2>4, <2>5, <2>6, <2>7, <2>8, <2>9, FieldsGo
<1> QED
  BY <1>2, <1>3

LEMMA LoopModeKept ==
  ASSUME CodeInv, NEW step, NEW body, Goes("loop", step, body)
  PROVE  /\ Guarded(code["loop"]) =>
              /\ step # Do("SetDefaults")
              /\ Guarded(code'["loop"]) \/ (step \in Modes /\ DefaultsNext(code'["loop"]))
         /\ DefaultsNext(code["loop"]) => Guarded(code'["loop"])
<1> DEFINE c == code["loop"]
           r == Tail(code["loop"])
<1>1. /\ body \in Seq(Plain) /\ (step \in Modes => body = <<>>)
      /\ Guarded(body) /\ body \in Seq(Step)
  BY GuardedBodies, PlainHas DEF Goes, Proper
<1>2. /\ r \in Seq(Step) /\ c # <<>> /\ Head(c) = step /\ c \in Seq(Step)
      /\ code'["loop"] = body \o r
  <2>1. "loop" \in Task /\ Moves("loop", step, body) /\ code \in [Task -> Seq(Step)]
    BY DEF Goes, Task, CodeInv
  <2> QED
    BY <1>1, <2>1, MovesCode
<1>3. Guarded(c) => step # Do("SetDefaults")
  <2>1. 1 \in DOMAIN c /\ c[1] = step
    BY <1>2
  <2> HIDE DEF c
  <2> QED
    BY <2>1 DEF Guarded
<1>4. Guarded(c) => Guarded(r) \/ (step \in Modes /\ DefaultsNext(r))
  BY <1>2, GuardedTail
<1>5. DefaultsNext(c) => Guarded(r)
  BY DEF DefaultsNext
<1> HIDE DEF c, r
<1>6. Guarded(r) => Guarded(body \o r)
  BY <1>1, <1>2, GuardedConcat
<1>7. body = <<>> => body \o r = r
  BY <1>2
<1> QED
  BY <1>1, <1>2, <1>3, <1>4, <1>5, <1>6, <1>7 DEF c

LEMMA StepKeepsConfiguration ==
  ASSUME CodeInv, CodeInv', KeptOnOneCore, NEW t \in Task, NEW step, NEW body, Goes(t, step, body),
         build' = build,
         \/ deviceMode' = deviceMode /\ step \notin Modes
         \/ deviceMode' = "IDLE" /\ step \in Leaves /\ step \notin Modes
         \/ deviceMode' # "IDLE" /\ step \in Modes,
         txfctrl' = txfctrl \/ (step = Do("SetDefaults") /\ deviceMode = "IDLE")
  PROVE  KeptOnOneCore'
<1> SUFFICES ASSUME build.cores = 1 PROVE txfctrl' = "configured" /\ ModeKept'
  BY DEF KeptOnOneCore
<1>1. txfctrl = "configured" /\ ModeKept
  BY DEF KeptOnOneCore
<1>2. CASE t = "loop"
  <2>1. code["irq"] = <<>>
    BY <1>2 DEF Goes, Moves, AtStep, Runs
  <2>2. ~Has(code["irq"], {SetMode("RX")})
    BY <2>1, NoSteps
  <2>3. /\ Guarded(code["loop"]) =>
             /\ step # Do("SetDefaults")
             /\ Guarded(code'["loop"]) \/ (step \in Modes /\ DefaultsNext(code'["loop"]))
        /\ DefaultsNext(code["loop"]) => Guarded(code'["loop"])
    BY <1>2, LoopModeKept
  <2> QED
    BY <1>1, <2>2, <2>3 DEF ModeKept
<1>3. CASE t = "irq"
  <2>1. /\ code["irq"] # <<>> /\ Head(code["irq"]) = step /\ code["irq"] \in Seq(IrqStep)
        /\ code'["irq"] \in Seq(IrqStep)
    BY <1>3 DEF Goes, Moves, AtStep, CodeInv
  <2>2. step # Do("SetDefaults")
    <3>1. step \in IrqStep
      BY <2>1
    <3>2. Do("SetDefaults") \notin IrqStep
      BY Different DEF IrqStep, LoopOnly
    <3> QED
      BY <3>1, <3>2
  <2>3. /\ "irq" \in Task /\ "loop" \in Task \ {"irq"}
        /\ Proper(step, body) /\ Moves("irq", step, body)
    BY <1>3 DEF Goes, Task
  <2>4. /\ code'["loop"] = code["loop"]
        /\ step # SetMode("RX") /\ Has(code["irq"], {SetMode("RX")}) =>
             Has(code'["irq"], {SetMode("RX")})
        /\ step \in Leaves => Has(code'["irq"], Enters)
    BY <2>3, MoveHas
  <2>5. Has(code'["irq"], Enters) => Has(code'["irq"], {SetMode("RX")})
    <3>1. Branch \notin IrqStep
      BY DEF IrqStep, LoopOnly, Branch
    <3> DEFINE c == code'["irq"]
    <3>2. \A i \in DOMAIN c : c[i] # Branch
      BY <2>1, <3>1
    <3> HIDE DEF c
    <3>3. Has(c, Enters) => Has(c, {SetMode("RX")})
      BY <3>2 DEF Has, Enters
    <3> QED
      BY <3>3 DEF c
  <2>6. SetMode("RX") \in Modes
    BY DEF Modes
  <2> QED
    BY <1>1, <2>2, <2>4, <2>5, <2>6 DEF ModeKept
<1> QED
  BY <1>2, <1>3 DEF Task

LEMMA NextConfiguration ==
  Types /\ CodeInv /\ CodeInv' /\ KeptOnOneCore /\ [Next]_vars => KeptOnOneCore'
<1> SUFFICES ASSUME Types, CodeInv, CodeInv', KeptOnOneCore, [Next]_vars PROVE KeptOnOneCore'
  OBVIOUS
<1>0. "loop" \in Task /\ "irq" \in Task /\ sysstatus \subseteq Event
  BY DEF Task, Types
<1>1. CASE \E t \in Task : Bus(t) \/ Fields(t)
  BY <1>0, <1>1, Effects, StepKeepsConfiguration
<1>2. CASE IfTransmitDone \/ IfReceiveDone
  <2>1. /\ UNCHANGED <<build, deviceMode, txfctrl>>
        /\ \E body : \E step \in {Do("IfTransmitDone"), Do("IfReceiveDone")} :
             Goes("irq", step, body)
    BY <1>2, TestsGo DEF fields
  <2>2. \A step \in {Do("IfTransmitDone"), Do("IfReceiveDone")} : step \notin Modes
    BY Different
  <2> QED
    BY <1>0, <2>1, <2>2, StepKeepsConfiguration
<1>3. CASE TimerTick \/ CheckForReset \/ HandleSent \/ HandleReceived
  <2>1. PICK body \in LoopBodies : Calls(body)
    BY <1>3, LoopStarts
  <2>2. UNCHANGED <<build, txfctrl>>
    BY <1>3, LoopStarts DEF fields
  <2>3. Guarded(body)
    BY GuardedBodies
  <2>4. code'["loop"] = body
    BY <2>1 DEF Calls, CodeInv, Task
  <2> QED
    BY <2>2, <2>3, <2>4 DEF KeptOnOneCore, ModeKept
<1>4. CASE TakeSemaphore
  <2>1. code["irq"] = <<>> /\ code' = [code EXCEPT !["irq"] = HandleInterrupt]
    BY <1>4 DEF TakeSemaphore
  <2>2. UNCHANGED <<build, txfctrl, deviceMode>> /\ code'["loop"] = code["loop"]
    BY <1>4, <2>1 DEF TakeSemaphore, fields, CodeInv, Task
  <2>3. ~Has(code["irq"], {SetMode("RX")})
    BY <2>1, NoSteps
  <2> QED
    BY <2>2, <2>3 DEF KeptOnOneCore, ModeKept
<1>5. CASE Chip \/ UNCHANGED vars
  <2>1. UNCHANGED <<build, code, deviceMode, txfctrl>>
    BY <1>5 DEF Chip, FrameSent, FrameReceived, vars, fields
  <2> QED
    BY <2>1 DEF KeptOnOneCore, ModeKept
<1> QED
  BY <1>0, <1>1, <1>2, <1>3, <1>4, <1>5 DEF Next, InterruptTask, Loop

(* On one core setDefaults always finds the mode that was set before it,   *)
(* so that the rate and the preamble of configureNetwork stay: an          *)
(* interrupt in between leaves receive mode only to enter it again.        *)
THEOREM KeepsConfiguration == Spec => []ConfigurationKept
<1>1. Init => Types /\ CodeInv /\ KeptOnOneCore
  <2>1. Init => code["loop"] = Receiver /\ txfctrl = "configured"
    BY DEF Init
  <2>2. Guarded(Receiver)
    BY GuardedBodies DEF LoopBodies
  <2> QED
    BY <2>1, <2>2, InitTypes, InitCode DEF KeptOnOneCore, ModeKept
<1>2. Types /\ CodeInv /\ KeptOnOneCore /\ [Next]_vars => Types' /\ CodeInv' /\ KeptOnOneCore'
  BY NextTypes, NextCode, NextConfiguration DEF Types
<1>3. KeptOnOneCore => ConfigurationKept
  BY DEF KeptOnOneCore, ConfigurationKept
<1> QED
  BY <1>1, <1>2, <1>3, PTL DEF Spec

---------------------------------------------------------------------------
(* No wake-up is lost *)

Aside(step) ==
  step \notin Opens \cup Closes \cup {Do("MarkAll"), Do("MarkTransmit"), Do("IfTransmitDone")}

(* Task t does step, and what the step does to the chip select and to the  *)
(* two copies of the status.                                               *)
Acts(t, step, body) ==
  /\ Goes(t, step, body) /\ build' = build
  /\ step \notin Opens \cup Closes => window' = window
  /\ step \in Closes => window' = "high"
  /\ step = Do("Select") => window' = IF window = "high" THEN "low" ELSE window
  /\ step \in {Do("Select"), Do("Deselect"), Do("WriteStatus")} =>
       sysstatus' = sysstatus /\ body = <<>>
  /\ step = Do("MarkAll") => sysstatus' = Event /\ body = <<>>
  /\ step # Do("ReadStatus") => sysstatus \subseteq sysstatus'
  /\ IF step = Do("WriteStatus") THEN Clear(sysstatus) ELSE status' = status /\ sem' = sem
  /\ step = Do("MarkTransmit") => sysstatus' = sysstatus \cup {"TXFRS"} /\ body = <<>>
  /\ step = Do("IfTransmitDone") =>
       sysstatus' = sysstatus /\ body \in {<<>>, ClearTransmitStatus}
  /\ build.whole /\ step = Do("ReadStatus") =>
       sysstatus' = status /\ (reception # "told" => reception' # "told")
  /\ step \notin {Do("ReadStatus"), Do("IfReceiveDone")} => reception' = reception

LEMMA ActsAside ==
  ASSUME NEW t, NEW step, NEW body, Goes(t, step, body), build' = build,
         Aside(step),
         UNCHANGED <<window, status, sem, reception>>, sysstatus \subseteq sysstatus'
  PROVE  Acts(t, step, body)
<1>1. /\ Do("Select") \in Opens /\ Do("WriteStatus") \in Opens /\ Do("ReadStatus") \in Opens
      /\ Do("Deselect") \in Closes
  BY DEF Opens, Closes
<1>2. step \notin {Do("Select"), Do("WriteStatus"), Do("ReadStatus"), Do("Deselect"),
                   Do("MarkAll"), Do("MarkTransmit"), Do("IfTransmitDone")} \cup Closes
  BY <1>1 DEF Aside
<1> QED
  BY <1>2 DEF Acts

LEMMA BusActs ==
  ASSUME NEW t \in Task, Bus(t)
  PROVE  \E step, body : Acts(t, step, body)
<1>0. build' = build
  BY BusGoes
<1>1. \A x, y : Do(x) = Do(y) => x = y
  BY DEF Do
<1>2. /\ \A what \in {"Select", "Other", "WriteStatus", "ReadStatus"} :
           Do(what) \in Opens /\ Do(what) \notin Closes
      /\ Do("Deselect") \in Closes /\ Do("Deselect") \notin Opens
  BY <1>1, Closing DEF Opens, Closes
<1>3. \A step : Proper(step, <<>>)
  BY ProperBodies
<1>4. CASE Select(t)
  <2>1. /\ Goes(t, Do("Select"), <<>>) /\ UNCHANGED <<status, sem, sysstatus, reception>>
        /\ window' = IF window = "high" THEN "low" ELSE window
    BY <1>3, <1>4, Different DEF Select, Done, Goes, Moves, fields, flags, history
  <2>2. Acts(t, Do("Select"), <<>>)
    BY <1>0, <1>1, <1>2, <2>1 DEF Acts
  <2> QED
    BY <2>2
<1>5. CASE Deselect(t)
  <2>1. /\ Goes(t, Do("Deselect"), <<>>) /\ UNCHANGED <<status, sem, sysstatus, reception>>
        /\ window' = "high"
    BY <1>3, <1>5, Different DEF Deselect, Done, Goes, Moves, fields, flags, history
  <2>2. Acts(t, Do("Deselect"), <<>>)
    BY <1>0, <1>1, <1>2, <2>1 DEF Acts
  <2> QED
    BY <2>2
<1>6. CASE Other(t)
  <2>1. Goes(t, Do("Other"), <<>>) /\ UNCHANGED <<status, sem, sysstatus, reception>>
    BY <1>3, <1>6, Different DEF Other, Done, Goes, Moves, fields, flags, history
  <2>2. Acts(t, Do("Other"), <<>>)
    BY <1>0, <1>1, <1>2, <2>1 DEF Acts
  <2> QED
    BY <2>2
<1>7. CASE WriteCtrl(t)
  <2>1. PICK step \in Writes : Goes(t, step, <<>>)
    <3>1. /\ \E step \in Writes : Moves(t, step, <<>>)
          /\ permanentReceive' = permanentReceive
      BY <1>7 DEF WriteCtrl, Done, Moves, Writes, fields
    <3>2. \A step \in Writes : step # Do("ReceivePermanently")
      <4>1. \A x, y : Do(x) = <<"WriteCtrl", y>> => x = "WriteCtrl"
        BY DEF Do
      <4> QED
        BY <4>1 DEF Writes
    <3> QED
      BY <1>3, <3>1, <3>2 DEF Goes
  <2>2. UNCHANGED <<status, sem, sysstatus, reception>>
    BY <1>7 DEF WriteCtrl, fields, flags
  <2>3. /\ step \in Opens /\ step \notin Closes
        /\ step \notin {Do("Select"), Do("Deselect"), Do("WriteStatus"), Do("MarkAll"),
                        Do("ReadStatus"), Do("MarkTransmit"), Do("IfTransmitDone")}
    <3>1. \A x : Do(x) \in Writes => x = "WriteCtrl"
      <4>1. \A x, y : Do(x) = <<"WriteCtrl", y>> => x = "WriteCtrl"
        BY DEF Do
      <4> QED
        BY <4>1 DEF Writes
    <3> QED
      BY <2>1, <3>1 DEF Opens, Closes
  <2>4. Acts(t, step, <<>>)
    BY <1>0, <2>1, <2>2, <2>3 DEF Acts
  <2> QED
    BY <2>4
<1>8. CASE WriteStatus(t)
  <2>1. /\ Goes(t, Do("WriteStatus"), <<>>) /\ Clear(sysstatus) /\ sysstatus' = sysstatus
        /\ reception' = reception
    BY <1>3, <1>8, Different DEF WriteStatus, Clear, Done, Goes, Moves, fields, history
  <2>2. Acts(t, Do("WriteStatus"), <<>>)
    BY <1>0, <1>1, <1>2, <2>1 DEF Acts
  <2> QED
    BY <2>2
<1>9. CASE ReadStatus(t)
  <2>1. /\ Goes(t, Do("ReadStatus"), <<>>) /\ UNCHANGED <<status, sem>>
        /\ build.whole => sysstatus' = status /\ (reception # "told" => reception' # "told")
    BY <1>3, <1>9, Different DEF ReadStatus, Seen, Done, Goes, Moves, flags
  <2>2. Acts(t, Do("ReadStatus"), <<>>)
    BY <1>0, <1>1, <1>2, <2>1 DEF Acts
  <2> QED
    BY <2>2
<1> QED
  BY <1>4, <1>5, <1>6, <1>7, <1>8, <1>9 DEF Bus

LEMMA FieldsAct ==
  ASSUME CodeInv, sysstatus \subseteq Event, NEW t \in Task, Fields(t)
  PROVE  \E step, body : Acts(t, step, body)
<1>0. build' = build /\ UNCHANGED <<window, status, sem, reception>>
  BY FieldsGo DEF chip, flags, history
<1>1. \A x, y : Do(x) = Do(y) => x = y
  BY DEF Do
<1>2. /\ \A what \in {"PrepareIdle", "ClearCtrl", "MarkReceive", "SetDefaults",
                      "ReceivePermanently", "SetDelay", "IfPermanentThenReceive"} : Aside(Do(what))
      /\ \A bit : Aside(SetCtrl(bit))
      /\ \A mode : Aside(SetMode(mode))
  <2>1. \A x, y : SetCtrl(x) # Do(y) \/ y = "SetCtrl"
    BY DEF SetCtrl, Do
  <2>2. \A x, y : SetMode(x) # Do(y) \/ y = "SetMode"
    BY DEF SetMode, Do
  <2> QED
    BY <1>1, <2>1, <2>2, Closing DEF Aside
<1>3. CASE PrepareIdle(t) /\ Goes(t, Do("PrepareIdle"), <<>>)
  BY <1>0, <1>2, <1>3, ActsAside DEF PrepareIdle
<1>4. CASE SetSysctrl(t) /\ Goes(t, Do("ClearCtrl"), <<>>)
  BY <1>0, <1>2, <1>4, ActsAside DEF SetSysctrl
<1>5. CASE \E bit \in ControlBit : SetSysctrl(t) /\ Goes(t, SetCtrl(bit), <<>>)
  BY <1>0, <1>2, <1>5, ActsAside DEF SetSysctrl
<1>6. CASE SetSysstatus(t)
  <2>1. /\ Then(t, <<>>) /\ permanentReceive' = permanentReceive
        /\ \/ AtStep(t, Do("MarkReceive"))
           \/ AtStep(t, Do("MarkTransmit")) /\ sysstatus' = sysstatus \cup {"TXFRS"}
           \/ AtStep(t, Do("MarkAll")) /\ sysstatus' = Event
        /\ sysstatus \subseteq sysstatus'
    BY <1>6 DEF SetSysstatus, Done
  <2>2. \A step \in {Do("MarkReceive"), Do("MarkTransmit"), Do("MarkAll")} :
          AtStep(t, step) => Goes(t, step, <<>>)
    BY <1>1, <2>1, ProperBodies DEF Goes, Moves
  <2>3. CASE AtStep(t, Do("MarkReceive"))
    BY <1>0, <1>2, <2>1, <2>2, <2>3, ActsAside
  <2>4. \A what \in {"MarkTransmit", "MarkAll"} :
          /\ Do(what) \notin Opens \cup Closes
          /\ Do(what) \notin {Do("Select"), Do("Deselect"), Do("WriteStatus"), Do("ReadStatus"),
                              Do("IfTransmitDone"), Do("IfReceiveDone")}
    BY <1>1, Closing
  <2>5. CASE AtStep(t, Do("MarkTransmit")) /\ sysstatus' = sysstatus \cup {"TXFRS"}
    <3>1. Goes(t, Do("MarkTransmit"), <<>>) /\ Do("MarkTransmit") # Do("MarkAll")
      BY <1>1, <2>2, <2>5
    <3>2. Acts(t, Do("MarkTransmit"), <<>>)
      BY <1>0, <2>4, <2>5, <3>1 DEF Acts
    <3> QED
      BY <3>2
  <2>6. CASE AtStep(t, Do("MarkAll")) /\ sysstatus' = Event
    <3>1. Goes(t, Do("MarkAll"), <<>>) /\ Do("MarkTransmit") # Do("MarkAll")
      BY <1>1, <2>2, <2>6
    <3>2. Acts(t, Do("MarkAll"), <<>>)
      BY <1>0, <2>1, <2>4, <2>6, <3>1 DEF Acts
    <3> QED
      BY <3>2
  <2> QED
    BY <2>1, <2>3, <2>5, <2>6
<1>7. CASE \E mode \in {"IDLE", "RX", "TX"} : SetDeviceMode(t) /\ Goes(t, SetMode(mode), <<>>)
  BY <1>0, <1>2, <1>7, ActsAside DEF SetDeviceMode
<1>8. CASE SetDefaults(t) /\ Goes(t, Do("SetDefaults"), <<>>)
  BY <1>0, <1>2, <1>8, ActsAside DEF SetDefaults
<1>9. CASE ReceivePermanently(t) /\ Goes(t, Do("ReceivePermanently"), OtherTransfer)
  BY <1>0, <1>2, <1>9, ActsAside DEF ReceivePermanently
<1>10. CASE SetDelay(t) /\ \E body \in Seq(Plain) : Goes(t, Do("SetDelay"), body)
  BY <1>0, <1>2, <1>10, ActsAside DEF SetDelay
<1>11. CASE /\ IfPermanentThenReceive(t)
            /\ Goes(t, Branch, <<Do("ClearCtrl"), SetMode("RX")>> \o StartReceive)
  BY <1>0, <1>2, <1>11, ActsAside DEF IfPermanentThenReceive, fields, Branch
<1> QED
  BY <1>3, <1>4, <1>5, <1>6, <1>7, <1>8, <1>9, <1>10, <1>11, FieldsGo

LEMMA TestsAct ==
  ASSUME IfTransmitDone \/ IfReceiveDone
  PROVE  \E step, body : Acts("irq", step, body)
<1>1. \A x, y : Do(x) = Do(y) => x = y
  BY DEF Do
<1>2. CASE IfTransmitDone
  <2>1. UNCHANGED <<build, window, status, sem, sysstatus, reception>>
    BY <1>2, TestsGo DEF chip, fields, history
  <2>2. PICK body \in {<<>>, ClearTransmitStatus} : Goes("irq", Do("IfTransmitDone"), body)
    BY <1>2, TestsGo
  <2>3. /\ Do("IfTransmitDone") \notin Opens \cup Closes
        /\ Do("IfTransmitDone") \notin {Do("Select"), Do("Deselect"), Do("WriteStatus"),
                                        Do("ReadStatus"), Do("MarkAll"), Do("MarkTransmit")}
    BY <1>1, Closing
  <2>4. Acts("irq", Do("IfTransmitDone"), body)
    BY <2>1, <2>2, <2>3 DEF Acts
  <2> QED
    BY <2>4
<1>3. CASE IfReceiveDone
  <2>1. UNCHANGED <<build, window, status, sem, sysstatus>>
    BY <1>3, TestsGo DEF chip, fields
  <2>2. PICK body : Goes("irq", Do("IfReceiveDone"), body)
    BY <1>3, TestsGo
  <2>3. /\ Do("IfReceiveDone") \notin Opens \cup Closes
        /\ Do("IfReceiveDone") \notin {Do("Select"), Do("Deselect"), Do("WriteStatus"),
                                       Do("ReadStatus"), Do("MarkAll"), Do("MarkTransmit"),
                                       Do("IfTransmitDone")}
    BY <1>1, Closing
  <2>4. Acts("irq", Do("IfReceiveDone"), body)
    BY <2>1, <2>2, <2>3 DEF Acts
  <2> QED
    BY <2>4
<1> QED
  BY <1>2, <1>3

(* A transfer of the steps s leaves the chip select as the next one needs  *)
(* it, and after s handleInterrupt clears every bit.                       *)
Tidy(s, select) ==
  build.whole \/ (Pays(s, Opens, Closes) /\ (Has(s, Closes) \/ select = "high"))
Ends(c, select) == \E s \in Seq(Step) : c = s \o ClearAllStatus /\ Tidy(s, select)

WriteOut == <<Do("WriteStatus"), Do("Deselect")>>

(* All bits will be marked and cleared, or are marked and only the         *)
(* transfer that clears them is left, which the chip will understand.      *)
ClearsAll(c, cached, select) ==
  \/ Ends(c, select)
  \/ cached = Event /\ c = Spi(Do("WriteStatus")) /\ (build.whole \/ select # "used")
  \/ cached = Event /\ ~build.whole /\ c = WriteOut /\ select = "low"

Cleared(c) == c = <<>> \/ (~build.whole /\ c = <<Do("Deselect")>>)

Wakes ==
  build.whole \/ build.cores = 1 =>
    /\ Cleared(code["irq"]) \/ ClearsAll(code["irq"], sysstatus, window)
    /\ status # {} => sem \/ ClearsAll(code["irq"], sysstatus, window)

LEMMA WakesNext ==
  ASSUME build' = build,
         build.whole \/ build.cores = 1 =>
           /\ Cleared(code'["irq"]) \/ ClearsAll(code'["irq"], sysstatus', window')
           /\ status' # {} => sem' \/ ClearsAll(code'["irq"], sysstatus', window')
  PROVE  Wakes'
<1>1. ClearAllStatus' = ClearAllStatus /\ Spi(Do("WriteStatus"))' = Spi(Do("WriteStatus"))
  BY DEF ClearAllStatus, Spi
<1>2. Cleared(code["irq"])' <=> Cleared(code'["irq"])
  BY DEF Cleared
<1>3. Ends(code["irq"], window)' <=> Ends(code'["irq"], window')
  BY <1>1 DEF Ends, Tidy
<1>4. ClearsAll(code["irq"], sysstatus, window)' <=> ClearsAll(code'["irq"], sysstatus', window')
  BY <1>1, <1>3 DEF ClearsAll
<1> QED
  BY <1>2, <1>4 DEF Wakes

LEMMA ClearingSteps ==
  /\ ClearAllStatus \in Seq(Step) /\ Spi(Do("WriteStatus")) \in Seq(Step)
  /\ ClearAllStatus = <<Do("MarkAll")>> \o Spi(Do("WriteStatus"))
  /\ Do("MarkAll") \in Step
  /\ Has(ClearAllStatus, {Do("MarkAll")}) /\ Has(Spi(Do("WriteStatus")), {Do("WriteStatus")})
<1>1. /\ Do("MarkAll") \in Step /\ Do("WriteStatus") \in Step /\ Do("Select") \in Step
      /\ Do("Deselect") \in Step
  BY PlainSteps, OnlySteps
<1>2. /\ Spi(Do("WriteStatus")) \in Seq(Step)
      /\ Has(Spi(Do("WriteStatus")), {Do("WriteStatus")})
  BY <1>1, SpiSteps
<1> DEFINE mark == <<Do("MarkAll")>>
<1>3. mark \in Seq(Step) /\ Has(mark, {Do("MarkAll")})
  BY <1>1, One, Single
<1>4. ClearAllStatus = mark \o Spi(Do("WriteStatus"))
  BY DEF ClearAllStatus
<1> HIDE DEF mark
<1>5. /\ mark \o Spi(Do("WriteStatus")) \in Seq(Step)
      /\ Has(mark \o Spi(Do("WriteStatus")), {Do("MarkAll")})
  BY <1>2, <1>3, Concat, HasConcat
<1> QED
  BY <1>1, <1>2, <1>4, <1>5 DEF mark

LEMMA ClearsAllSteps ==
  ASSUME NEW c, NEW cached, NEW select, ClearsAll(c, cached, select)
  PROVE  /\ c # <<>>
         /\ \/ Has(c, {Do("MarkAll")})
            \/ cached = Event /\ Has(c, {Do("WriteStatus")})
<1>1. CASE Ends(c, select)
  <2>1. PICK s \in Seq(Step) : c = s \o ClearAllStatus
    BY <1>1 DEF Ends
  <2>2. PICK last \in Seq(Step) : last = ClearAllStatus /\ Has(last, {Do("MarkAll")})
    BY ClearingSteps
  <2>3. Has(s \o last, {Do("MarkAll")})
    BY <2>2, HasConcat
  <2> QED
    BY <2>1, <2>2, <2>3, NoSteps
<1>2. CASE cached = Event /\ c = Spi(Do("WriteStatus"))
  BY <1>2, ClearingSteps, NoSteps
<1>3. CASE cached = Event /\ c = WriteOut
  BY <1>3, PairHas, NoSteps DEF WriteOut
<1> QED
  BY <1>1, <1>2, <1>3 DEF ClearsAll

(* What is left after a step, with a body in its place.                    *)
LEMMA RestEnds ==
  ASSUME NEW c \in Seq(Step), c # <<>>, NEW select, Ends(c, select),
         NEW body \in Seq(Step), Closed(body), NEW next,
         Head(c) \notin Opens \cup Closes => next = select,
         Head(c) \in Closes => next = "high"
  PROVE  \/ Ends(body \o Tail(c), next)
         \/ /\ Head(c) = Do("MarkAll") /\ Tail(c) = Spi(Do("WriteStatus"))
            /\ build.whole \/ select = "high"
<1>1. PICK s \in Seq(Step) : c = s \o ClearAllStatus /\ Tidy(s, select)
  BY DEF Ends
<1>2. PICK last \in Seq(Step) : last = ClearAllStatus
  BY ClearingSteps
<1>3. CASE s = <<>>
  <2>1. c = ClearAllStatus
    BY <1>1, <1>2, <1>3
  <2>2. Head(c) = Do("MarkAll") /\ Tail(c) = Spi(Do("WriteStatus"))
    <3>1. \A S : \A x \in S, t \in Seq(S) : Head(<<x>> \o t) = x /\ Tail(<<x>> \o t) = t
      OBVIOUS
    <3> QED
      BY <2>1, <3>1, ClearingSteps
  <2>3. build.whole \/ select = "high"
    BY <1>1, <1>3, NoSteps DEF Tidy
  <2> QED
    BY <2>2, <2>3
<1>4. CASE s # <<>>
  <2> DEFINE r == Tail(s)
  <2>1. r \in Seq(Step) /\ Head(c) = Head(s) /\ Tail(c) = r \o last
    BY <1>1, <1>2, <1>4
  <2>2. ~build.whole => /\ Pays(r, Opens, Closes)
                        /\ Head(s) \in Opens => Has(r, Closes)
                        /\ Has(s, Closes) => Head(s) \in Closes \/ Has(r, Closes)
    BY <1>1, <1>4, PaysTail, HasHead DEF Tidy
  <2> HIDE DEF r
  <2>3. body \o Tail(c) = (body \o r) \o last
    <3>1. body \o (r \o last) = (body \o r) \o last
      <4>1. r \in Seq(Step)
        BY <2>1
      <4> QED
        BY <4>1, Regroup
    <3> QED
      BY <2>1, <3>1
  <2>4. ~build.whole => Pays(body \o r, Opens, Closes)
    BY <2>1, <2>2, PaysLast DEF Closed
  <2>5. ~build.whole => Has(r, Closes) \/ next = "high"
    BY <1>1, <2>1, <2>2 DEF Tidy
  <2>6. Has(r, Closes) => Has(body \o r, Closes)
    BY <2>1, HasConcat
  <2>7. body \o r \in Seq(Step) /\ Tidy(body \o r, next)
    BY <2>1, <2>4, <2>5, <2>6, Concat DEF Tidy
  <2> QED
    BY <1>2, <2>3, <2>7 DEF Ends
<1> QED
  BY <1>3, <1>4

LEMMA ClearEffect ==
  ASSUME Clear(sysstatus), status \subseteq Event
  PROVE  /\ status' \subseteq status /\ (sem => sem')
         /\ Seen /\ sysstatus = Event => status' = {}
  BY DEF Clear, LatchStatus

LEMMA IrqWakes ==
  ASSUME Types, CodeInv, Wakes, NEW step, NEW body, Acts("irq", step, body)
  PROVE  Wakes'
<1>1. build' = build /\ "irq" \in Task
  BY DEF Acts, Task
<1> SUFFICES ASSUME build.whole \/ build.cores = 1
             PROVE  /\ Cleared(code'["irq"]) \/ ClearsAll(code'["irq"], sysstatus', window')
                    /\ status' # {} =>
                         sem' \/ ClearsAll(code'["irq"], sysstatus', window')
  BY <1>1, WakesNext
<1> DEFINE c == code["irq"]
           r == Tail(code["irq"])
<1>2. /\ body \in Seq(Plain) /\ body \in Seq(Step) /\ Closed(body)
  BY PlainHas DEF Acts, Goes, Proper
<1>3. /\ c \in Seq(Step) /\ c # <<>> /\ Head(c) = step /\ r \in Seq(Step)
      /\ code'["irq"] = body \o r
  BY <1>1, <1>2, MovesCode DEF CodeInv, Acts, Goes
<1>4. body = <<>> => code'["irq"] = r
  BY <1>3
<1>5. status \subseteq Event /\ window \in {"high", "low", "used"}
  BY DEF Types
<1>6. step = Do("WriteStatus") => /\ Clear(sysstatus) /\ sysstatus' = sysstatus /\ body = <<>>
  BY DEF Acts
<1>7. CASE Ends(c, window)
  <2>1. \/ Ends(body \o r, window')
        \/ /\ step = Do("MarkAll") /\ r = Spi(Do("WriteStatus"))
           /\ build.whole \/ window = "high"
    BY <1>2, <1>3, <1>7, RestEnds DEF Acts
  <2>2. CASE Ends(body \o r, window')
    BY <1>3, <2>2 DEF ClearsAll
  <2>3. CASE /\ step = Do("MarkAll") /\ r = Spi(Do("WriteStatus"))
             /\ build.whole \/ window = "high"
    <3>1. sysstatus' = Event /\ body = <<>> /\ window' = window
      BY <2>3, Closing DEF Acts
    <3>2. code'["irq"] = Spi(Do("WriteStatus"))
      BY <1>4, <2>3, <3>1
    <3> QED
      BY <2>3, <3>1, <3>2 DEF ClearsAll
  <2> QED
    BY <2>1, <2>2, <2>3
<1>8. CASE sysstatus = Event /\ c = Spi(Do("WriteStatus")) /\ (build.whole \/ window # "used")
  <2>1. CASE build.whole
    <3>1. step = Do("WriteStatus") /\ r = <<>>
      <4>1. c = <<Do("WriteStatus")>>
        BY <1>8, <2>1 DEF Spi
      <4>2. \A x : Head(<<x>>) = x /\ Tail(<<x>>) = <<>>
        OBVIOUS
      <4> QED
        BY <1>3, <4>1, <4>2
    <3>2. status' = {} /\ code'["irq"] = <<>>
      BY <1>4, <1>5, <1>6, <1>8, <2>1, <3>1, ClearEffect DEF Seen
    <3> QED
      BY <3>2 DEF Cleared
  <2>2. CASE ~build.whole
    <3>1. step = Do("Select") /\ r = WriteOut
      <4>1. c = <<Do("Select"), Do("WriteStatus"), Do("Deselect")>>
        BY <1>8, <2>2 DEF Spi
      <4>2. \A x, y, z : Head(<<x, y, z>>) = x /\ Tail(<<x, y, z>>) = <<y, z>>
        OBVIOUS
      <4> QED
        BY <1>3, <4>1, <4>2 DEF WriteOut
    <3>2. window' = "low" /\ sysstatus' = sysstatus /\ body = <<>>
      BY <1>5, <1>8, <2>2, <3>1 DEF Acts
    <3>3. code'["irq"] = WriteOut
      BY <1>4, <3>1, <3>2
    <3> QED
      BY <1>8, <2>2, <3>2, <3>3 DEF ClearsAll
  <2> QED
    BY <2>1, <2>2
<1>9. CASE sysstatus = Event /\ ~build.whole /\ c = WriteOut /\ window = "low"
  <2>1. step = Do("WriteStatus") /\ r = <<Do("Deselect")>>
    <3>1. \A x, y : Head(<<x, y>>) = x /\ Tail(<<x, y>>) = <<y>>
      OBVIOUS
    <3> QED
      BY <1>3, <1>9, <3>1 DEF WriteOut
  <2>2. status' = {} /\ code'["irq"] = <<Do("Deselect")>>
    BY <1>4, <1>5, <1>6, <1>9, <2>1, ClearEffect DEF Seen
  <2> QED
    BY <1>9, <2>2 DEF Cleared
<1>10. CASE ~ClearsAll(c, sysstatus, window)
  <2>1. ~build.whole /\ c = <<Do("Deselect")>> /\ (status # {} => sem)
    BY <1>3, <1>10 DEF Wakes, Cleared
  <2>2. step = Do("Deselect") /\ r = <<>>
    <3>1. \A x : Head(<<x>>) = x /\ Tail(<<x>>) = <<>>
      OBVIOUS
    <3> QED
      BY <1>3, <2>1, <3>1
  <2>3. status' = status /\ sem' = sem /\ body = <<>>
    <3>1. Do("Deselect") # Do("WriteStatus")
      BY Different
    <3> QED
      BY <2>2, <3>1 DEF Acts
  <2>4. code'["irq"] = <<>>
    BY <1>4, <2>2, <2>3
  <2> QED
    BY <2>1, <2>3, <2>4 DEF Cleared
<1> QED
  BY <1>7, <1>8, <1>9, <1>10 DEF ClearsAll

LEMMA LoopWakes ==
  ASSUME Types, Types', CodeInv, Wakes, NEW step, NEW body, Acts("loop", step, body)
  PROVE  Wakes'
<1>1. build' = build /\ "loop" \in Task
  BY DEF Acts, Task
<1> SUFFICES ASSUME build.whole \/ build.cores = 1
             PROVE  /\ Cleared(code'["irq"]) \/ ClearsAll(code'["irq"], sysstatus', window')
                    /\ status' # {} =>
                         sem' \/ ClearsAll(code'["irq"], sysstatus', window')
  BY <1>1, WakesNext
<1>2. Proper(step, body) /\ Moves("loop", step, body)
  BY DEF Acts, Goes
<1>3. code'["irq"] = code["irq"]
  BY <1>1, <1>2, MoveHas DEF Task
<1>4. step # Do("ReadStatus")
  <2>1. code["loop"] # <<>> /\ Head(code["loop"]) = step /\ code["loop"] \in Seq(Quiet)
    BY <1>2 DEF Moves, AtStep, CodeInv
  <2>2. step \in Quiet
    BY <2>1
  <2> QED
    BY <2>2 DEF Quiet, IrqOnly
<1>5. status' \subseteq status /\ (sem => sem')
  BY ClearEffect DEF Acts, Types
<1>6. sysstatus = Event => sysstatus' = Event
  BY <1>4 DEF Acts, Types
<1>7. CASE build.whole
  <2>1. \A select, next : Ends(code["irq"], select) => Ends(code["irq"], next)
    BY <1>7 DEF Ends, Tidy
  <2>2. ClearsAll(code["irq"], sysstatus, window) => ClearsAll(code["irq"], sysstatus', window')
    BY <1>6, <1>7, <2>1 DEF ClearsAll
  <2> QED
    BY <1>3, <1>5, <2>2 DEF Wakes
<1>8. CASE ~build.whole
  <2>1. code["irq"] = <<>>
    BY <1>2, <1>8 DEF Moves, AtStep, Runs
  <2>2. ~ClearsAll(code["irq"], sysstatus, window)
    BY <2>1, ClearsAllSteps
  <2> QED
    BY <1>3, <1>5, <2>1, <2>2 DEF Wakes, Cleared
<1> QED
  BY <1>7, <1>8

LEMMA NextWakes == Types /\ Types' /\ CodeInv /\ Wakes /\ [Next]_vars => Wakes'
<1> SUFFICES ASSUME Types, Types', CodeInv, Wakes, [Next]_vars PROVE Wakes'
  OBVIOUS
<1>0. "loop" \in Task /\ "irq" \in Task /\ sysstatus \subseteq Event
  BY DEF Task, Types
<1>1. ASSUME NEW t \in Task, NEW step, NEW body, Acts(t, step, body) PROVE Wakes'
  BY <1>1, IrqWakes, LoopWakes DEF Task
<1>2. CASE \E t \in Task : Bus(t)
  BY <1>1, <1>2, BusActs
<1>3. CASE \E t \in Task : Fields(t)
  BY <1>0, <1>1, <1>3, FieldsAct
<1>4. CASE IfTransmitDone \/ IfReceiveDone
  BY <1>0, <1>1, <1>4, TestsAct
<1>5. CASE TimerTick \/ CheckForReset \/ HandleSent \/ HandleReceived
  <2>1. UNCHANGED <<build, status, window, sysstatus, sem>>
    BY <1>5, LoopStarts DEF chip, fields
  <2>2. code'["irq"] = code["irq"]
    BY <1>5, LoopStarts DEF Calls, CodeInv, Task
  <2> QED
    BY <2>1, <2>2, WakesNext DEF Wakes
<1>6. CASE TakeSemaphore
  <2>1. /\ code' = [code EXCEPT !["irq"] = HandleInterrupt]
        /\ UNCHANGED <<build, status, window, sysstatus>>
    BY <1>6 DEF TakeSemaphore, chip, fields
  <2>2. code'["irq"] = HandleInterrupt
    BY <2>1 DEF CodeInv, Task
  <2> DEFINE s == Spi(Do("ReadStatus")) \o <<Do("IfTransmitDone"), Do("IfReceiveDone")>>
             tests == <<Do("IfTransmitDone"), Do("IfReceiveDone")>>
  <2>3. tests \in Seq(Step) /\ Spi(Do("ReadStatus")) \in Seq(Step)
    <3>1. Do("ReadStatus") \in Step /\ Do("Select") \in Step /\ Do("Deselect") \in Step
      BY PlainSteps, OnlySteps DEF IrqOnly
    <3> QED
      BY <3>1, OnlySteps, Two, SpiSteps DEF IrqOnly
  <2>4. s = Spi(Do("ReadStatus")) \o tests /\ Closed(s)
    BY ClosedBodies
  <2>5. HandleInterrupt = s \o ClearAllStatus
    BY DEF HandleInterrupt
  <2> HIDE DEF s, tests
  <2>6. s \in Seq(Step) /\ (~build.whole => Has(s, Closes))
    BY <2>3, <2>4, Concat, HasConcat, SpiCloses
  <2>7. Tidy(s, window')
    BY <2>4, <2>6 DEF Tidy, Closed
  <2>8. Ends(code'["irq"], window')
    BY <2>2, <2>5, <2>6, <2>7 DEF Ends
  <2> QED
    BY <2>1, <2>8, WakesNext DEF ClearsAll
<1>7. CASE Chip
  <2>1. /\ UNCHANGED <<build, window, sysstatus, code>>
        /\ sem' = (sem \/ (status = {} /\ status' # {}))
    BY <1>7 DEF Chip, FrameSent, FrameReceived, LatchStatus, fields
  <2> QED
    BY <2>1, WakesNext DEF Wakes
<1>8. CASE UNCHANGED vars
  <2>1. UNCHANGED <<build, window, status, sysstatus, sem, code>>
    BY <1>8 DEF vars, chip, fields, flags
  <2> QED
    BY <2>1, WakesNext DEF Wakes
<1> QED
  BY <1>0, <1>2, <1>3, <1>4, <1>5, <1>6, <1>7, <1>8 DEF Next, InterruptTask, Loop

(* Unless the tasks are on two cores and cut each other's transfers, an    *)
(* interrupt line that is high has given the semaphore, or handleInterrupt *)
(* is still to clear every bit and with it the line: no event waits for    *)
(* ever.                                                                   *)
THEOREM WakeUps == Spec => []NoLostWakeUp
<1>1. Init => Types /\ CodeInv /\ Wakes
  <2>1. Init => code["irq"] = <<>> /\ status = {}
    BY DEF Init
  <2> QED
    BY <2>1, InitTypes, InitCode DEF Wakes, Cleared
<1>2. Types /\ CodeInv /\ Wakes /\ [Next]_vars => Types' /\ CodeInv' /\ Wakes'
  BY NextTypes, NextCode, NextWakes DEF Types
<1>3. Wakes => NoLostWakeUp
  <2> SUFFICES ASSUME Wakes, build.whole \/ build.cores = 1, status # {}, ~sem
               PROVE  WillClearAll
    BY DEF NoLostWakeUp
  <2>1. ClearsAll(code["irq"], sysstatus, window)
    BY DEF Wakes
  <2> QED
    BY <2>1, ClearsAllSteps DEF WillClearAll, Has
<1> QED
  BY <1>1, <1>2, <1>3, PTL DEF Spec

---------------------------------------------------------------------------
(* On one core, without cut transfers, the flags tell events *)

(* Only steps of A come before a step of K.                                *)
Only(c, K, A) ==
  \A i \in DOMAIN c : c[i] \in K => \A j \in DOMAIN c : j < i => c[j] \in A

LEMMA OnlyTail ==
  ASSUME NEW S, NEW c \in Seq(S), c # <<>>, NEW K, NEW A, Only(c, K, A)
  PROVE  Only(Tail(c), K, A) /\ (Has(Tail(c), K) => Head(c) \in A)
<1> DEFINE r == Tail(c)
<1>1. /\ r \in Seq(S) /\ Len(r) \in Nat /\ DOMAIN c = 1 .. Len(r) + 1 /\ DOMAIN r = 1 .. Len(r)
      /\ \A i \in 1 .. Len(r) : r[i] = c[i + 1]
      /\ c[1] = Head(c)
  BY HeadTailProperties, LenProperties
<1> HIDE DEF r
<1>2. ASSUME NEW i \in DOMAIN r, r[i] \in K
      PROVE  Head(c) \in A /\ \A j \in DOMAIN r : j < i => r[j] \in A
  <2>1. i + 1 \in DOMAIN c /\ c[i + 1] \in K /\ 1 \in DOMAIN c /\ 1 < i + 1
    BY <1>1, <1>2
  <2>2. \A j \in DOMAIN c : j < i + 1 => c[j] \in A
    BY <2>1 DEF Only
  <2>3. \A j \in DOMAIN r : j < i => j + 1 \in DOMAIN c /\ j + 1 < i + 1 /\ r[j] = c[j + 1]
    BY <1>1
  <2> QED
    BY <1>1, <2>1, <2>2, <2>3
<1> QED
  BY <1>2 DEF Only, Has, r

LEMMA OnlyConcat ==
  ASSUME NEW S, NEW a \in Seq(S), NEW b \in Seq(S), NEW K, NEW A,
         Only(a, K, A), Only(b, K, A), a \in Seq(A) \/ ~Has(b, K)
  PROVE  Only(a \o b, K, A)
<1>1. /\ \A i \in DOMAIN a : i \in DOMAIN (a \o b) /\ (a \o b)[i] = a[i]
      /\ \A i \in DOMAIN b : Len(a) + i \in DOMAIN (a \o b) /\ (a \o b)[Len(a) + i] = b[i]
      /\ \A k \in DOMAIN (a \o b) : k \in DOMAIN a \/ \E i \in DOMAIN b : k = Len(a) + i
      /\ Len(a) \in Nat /\ DOMAIN a = 1 .. Len(a) /\ DOMAIN b = 1 .. Len(b) /\ Len(b) \in Nat
  BY Indices
<1> SUFFICES ASSUME NEW k \in DOMAIN (a \o b), (a \o b)[k] \in K,
                    NEW m \in DOMAIN (a \o b), m < k
             PROVE  (a \o b)[m] \in A
  BY DEF Only
<1>2. CASE k \in DOMAIN a
  <2>1. a[k] \in K
    BY <1>1, <1>2
  <2>2. m \in DOMAIN a
    BY <1>1, <1>2
  <2> QED
    BY <1>1, <1>2, <2>1, <2>2 DEF Only
<1>3. CASE \E i \in DOMAIN b : k = Len(a) + i
  <2>1. PICK i \in DOMAIN b : k = Len(a) + i
    BY <1>3
  <2>2. b[i] \in K
    BY <1>1, <2>1
  <2>3. CASE m \in DOMAIN a
    <3>1. a \in Seq(A)
      BY <2>2 DEF Has
    <3>2. a[m] \in A
      BY <2>3, <3>1
    <3> QED
      BY <1>1, <2>3, <3>2
  <2>4. CASE \E j \in DOMAIN b : m = Len(a) + j
    <3>1. PICK j \in DOMAIN b : m = Len(a) + j
      BY <2>4
    <3>2. j < i
      BY <1>1, <2>1, <3>1
    <3>3. b[j] \in A
      BY <2>2, <3>2 DEF Only
    <3> QED
      BY <1>1, <3>1, <3>3
  <2> QED
    BY <1>1, <2>3, <2>4
<1> QED
  BY <1>1, <1>2, <1>3

LEMMA OnlyWithout ==
  ASSUME NEW c, NEW K, NEW A, ~Has(c, K)
  PROVE  Only(c, K, A)
  BY DEF Only, Has

(* handleInterrupt reads the status just before it tests for a sent frame, *)
(* and until it tests for a received one it marks at most the sent one.    *)
SentTest == {Do("IfTransmitDone")}
AtFirst == {Do("Select"), Do("ReadStatus"), Do("Deselect")}
BeforeTests == AtFirst \cup SentTest \cup {Do("MarkTransmit"), Do("WriteStatus")}

InOrder(c) == Only(c, SentTest, AtFirst) /\ Only(c, Tests, BeforeTests)

LEMMA TestSteps ==
  /\ Do("IfReceiveDone") \notin BeforeTests /\ Do("IfTransmitDone") \notin AtFirst
  /\ SentTest \cap Plain = {} /\ Tests \cap Plain = {}
  /\ \A step \in BeforeTests \ IrqOnly : step \in Plain
  /\ Do("MarkTransmit") \notin AtFirst /\ Do("WriteStatus") \notin AtFirst
<1>1. \A x, y : Do(x) = Do(y) => x = y
  BY DEF Do
<1>2. \A step \in BeforeTests \ IrqOnly : step \in Plain
  BY PlainSteps DEF BeforeTests, AtFirst, SentTest, IrqOnly
<1> QED
  BY <1>1, <1>2 DEF BeforeTests, AtFirst, SentTest, Tests, Plain, IrqOnly

LEMMA HandlerInOrder == InOrder(HandleInterrupt) /\ Has(HandleInterrupt, Reads)
<1> DEFINE tests == <<Do("IfTransmitDone"), Do("IfReceiveDone")>>
<1>0. \A x, y : Do(x) = Do(y) => x = y
  BY DEF Do
<1>1. PICK last \in Seq(Step) : /\ last = ClearAllStatus
                                /\ ~Has(last, SentTest) /\ ~Has(last, Tests)
  <2>1. ClearAllStatus \in Seq(Plain) /\ ClearAllStatus \in Seq(Step)
    BY Bodies, PlainHas
  <2> QED
    BY <2>1, TestSteps, Clean
<1>2. PICK read \in Seq(Step) :
        /\ read = Spi(Do("ReadStatus")) /\ read \in Seq(AtFirst)
        /\ read \in Seq(BeforeTests) /\ Has(read, Reads)
        /\ ~Has(read, SentTest) /\ ~Has(read, Tests)
  <2>1. Spi(Do("ReadStatus")) \in Seq(AtFirst) /\ Has(Spi(Do("ReadStatus")), Reads)
    BY SpiSteps DEF AtFirst, Reads
  <2>2. AtFirst \subseteq BeforeTests /\ AtFirst \subseteq Step
    BY PlainSteps, OnlySteps DEF AtFirst, BeforeTests, IrqOnly
  <2>3. AtFirst \cap SentTest = {} /\ AtFirst \cap Tests = {}
    BY <1>0 DEF AtFirst, SentTest, Tests
  <2> QED
    BY <2>1, <2>2, <2>3, Wider, Clean
<1>3. tests \in Seq(Step) /\ Only(tests, SentTest, AtFirst) /\ Only(tests, Tests, BeforeTests)
  <2>1. /\ DOMAIN tests = 1 .. 2 /\ tests[1] = Do("IfTransmitDone")
        /\ tests[2] = Do("IfReceiveDone")
    OBVIOUS
  <2>2. tests \in Seq(Step)
    BY OnlySteps, Two DEF IrqOnly
  <2> HIDE DEF tests
  <2>3. /\ tests[2] \notin SentTest /\ tests[1] \notin Tests /\ tests[1] \in BeforeTests
    BY <1>0, <2>1 DEF SentTest, Tests, BeforeTests
  <2>4. /\ \A j \in DOMAIN tests : ~(j < 1)
        /\ \A j \in DOMAIN tests : j < 2 => j = 1
        /\ \A i \in DOMAIN tests : i = 1 \/ i = 2
    BY <2>1
  <2> QED
    BY <2>2, <2>3, <2>4 DEF Only
<1>4. HandleInterrupt = read \o tests \o last
  BY <1>1, <1>2 DEF HandleInterrupt
<1> HIDE DEF tests
<1>5. /\ Only(read, SentTest, AtFirst) /\ Only(read, Tests, BeforeTests)
      /\ Only(last, SentTest, AtFirst) /\ Only(last, Tests, BeforeTests)
  BY <1>1, <1>2, OnlyWithout
<1>6. /\ read \o tests \in Seq(Step) /\ Has(read \o tests, Reads)
      /\ Only(read \o tests, SentTest, AtFirst) /\ Only(read \o tests, Tests, BeforeTests)
  BY <1>2, <1>3, <1>5, OnlyConcat, Concat, HasConcat
<1>7. /\ Has(read \o tests \o last, Reads)
      /\ Only(read \o tests \o last, SentTest, AtFirst)
      /\ Only(read \o tests \o last, Tests, BeforeTests)
  BY <1>1, <1>5, <1>6, OnlyConcat, HasConcat
<1> QED
  BY <1>4, <1>7 DEF InOrder

(* What has been read has happened, and a reception of which a test is     *)
(* still to tell is one of which loop() has not been told.                 *)
Tells ==
  build.cores = 1 /\ build.whole =>
    /\ Has(code["irq"], SentTest) /\ ~Has(code["irq"], Reads) => sysstatus \subseteq status
    /\ Has(code["irq"], Tests) /\ ~Has(code["irq"], Reads) /\ "RXFCG" \in sysstatus =>
         reception # "told"
    /\ code["irq"] = <<>> \/ Has(code["irq"], Tests) =>
         ("RXFCG" \in status => reception # "told")

(* A step of handleInterrupt keeps the order, and what is left after it.   *)
LEMMA IrqOrder ==
  ASSUME CodeInv, InOrder(code["irq"]), NEW step, NEW body, Acts("irq", step, body)
  PROVE  /\ InOrder(code'["irq"])
         /\ Has(code'["irq"], SentTest) => step \in AtFirst
         /\ Has(code'["irq"], Tests) => step \in BeforeTests /\ Has(code["irq"], Tests)
<1> DEFINE c == code["irq"]
           r == Tail(code["irq"])
<1>1. /\ body \in Seq(Plain) /\ body \in Seq(Step)
      /\ ~Has(body, SentTest) /\ ~Has(body, Tests)
  BY PlainHas, Clean, TestSteps DEF Acts, Goes, Proper
<1>2. /\ c \in Seq(Step) /\ c # <<>> /\ Head(c) = step /\ r \in Seq(Step)
      /\ code'["irq"] = body \o r
  BY <1>1, MovesCode DEF CodeInv, Acts, Goes, Task
<1>3. /\ Only(r, SentTest, AtFirst) /\ (Has(r, SentTest) => step \in AtFirst)
      /\ Only(r, Tests, BeforeTests) /\ (Has(r, Tests) => step \in BeforeTests)
  BY <1>2, OnlyTail DEF InOrder
<1>4. step \in AtFirst => body = <<>>
  BY DEF Acts, Goes, Proper, AtFirst
<1>5. step \in BeforeTests => body \in Seq(BeforeTests)
  <2>1. ClearTransmitStatus \in Seq(BeforeTests)
    <3>1. /\ Do("Select") \in BeforeTests /\ Do("Deselect") \in BeforeTests
          /\ Do("WriteStatus") \in BeforeTests /\ Do("MarkTransmit") \in BeforeTests
      BY DEF BeforeTests, AtFirst
    <3> QED
      BY <3>1, SpiSteps, One, Concat DEF ClearTransmitStatus
  <2>2. step \in BeforeTests => body \in {<<>>, ClearTransmitStatus}
    BY <1>4 DEF Acts, BeforeTests, SentTest
  <2> QED
    BY <2>1, <2>2, Empty
<1>10. Has(r, Tests) => Has(c, Tests)
  BY <1>2, HasHead
<1> HIDE DEF c, r
<1>6. /\ Has(r, SentTest) => body \in Seq(AtFirst)
      /\ Has(r, Tests) => body \in Seq(BeforeTests)
  BY <1>3, <1>4, <1>5, Empty
<1>7. Only(body, SentTest, AtFirst) /\ Only(body, Tests, BeforeTests)
  BY <1>1, OnlyWithout
<1>8. Only(body \o r, SentTest, AtFirst) /\ Only(body \o r, Tests, BeforeTests)
  BY <1>1, <1>2, <1>3, <1>6, <1>7, OnlyConcat
<1>9. /\ Has(body \o r, SentTest) => Has(r, SentTest)
      /\ Has(body \o r, Tests) => Has(r, Tests)
  BY <1>1, <1>2, HasConcat
<1> QED
  BY <1>2, <1>3, <1>8, <1>9, <1>10 DEF InOrder, c

(* handleInterrupt ends with the clearing of every bit.                    *)
LEMMA LastStep ==
  ASSUME Types, CodeInv, Wakes, build.whole, NEW step, NEW body, Acts("irq", step, body),
         code'["irq"] = <<>>
  PROVE  status' = {}
<1> DEFINE c == code["irq"]
           r == Tail(code["irq"])
<1>1. body \in Seq(Plain) /\ body \in Seq(Step) /\ Closed(body)
  BY PlainHas DEF Acts, Goes, Proper
<1>2. /\ c \in Seq(Step) /\ c # <<>> /\ Head(c) = step /\ r \in Seq(Step)
      /\ code'["irq"] = body \o r
  BY <1>1, MovesCode DEF CodeInv, Acts, Goes, Task
<1>3. ClearsAll(c, sysstatus, window)
  BY <1>2 DEF Wakes, Cleared
<1>4. CASE Ends(c, window)
  <2>1. \/ Ends(body \o r, window')
        \/ step = Do("MarkAll") /\ r = Spi(Do("WriteStatus"))
    BY <1>1, <1>2, <1>4, RestEnds DEF Acts
  <2>2. CASE Ends(body \o r, window')
    <3>1. ClearsAll(body \o r, sysstatus, window')
      BY <2>2 DEF ClearsAll
    <3> QED
      BY <1>2, <3>1, ClearsAllSteps
  <2>3. CASE step = Do("MarkAll") /\ r = Spi(Do("WriteStatus"))
    <3>1. body \o r = r
      BY <1>2, <2>3 DEF Acts
    <3> QED
      BY <1>2, <2>3, <3>1, ClearingSteps, NoSteps
  <2> QED
    BY <2>1, <2>2, <2>3
<1>5. CASE sysstatus = Event /\ c = Spi(Do("WriteStatus"))
  <2>1. c = <<Do("WriteStatus")>>
    BY <1>5 DEF Spi
  <2>2. step = Do("WriteStatus")
    BY <1>2, <2>1
  <2> QED
    BY <1>5, <2>2, ClearEffect DEF Acts, Types, Seen
<1> QED
  BY <1>3, <1>4, <1>5 DEF ClearsAll

LEMMA IrqTells ==
  ASSUME Types, CodeInv, CodeInv', Wakes, Tells, InOrder(code["irq"]),
         NEW step, NEW body, Acts("irq", step, body)
  PROVE  Tells' /\ InOrder(code'["irq"])
<1>1. /\ InOrder(code'["irq"])
      /\ Has(code'["irq"], SentTest) => step \in AtFirst
      /\ Has(code'["irq"], Tests) => step \in BeforeTests /\ Has(code["irq"], Tests)
  BY IrqOrder
<1> SUFFICES ASSUME build.cores = 1, build.whole
             PROVE  /\ Has(code'["irq"], SentTest) /\ ~Has(code'["irq"], Reads) =>
                         sysstatus' \subseteq status'
                    /\ /\ Has(code'["irq"], Tests) /\ ~Has(code'["irq"], Reads)
                       /\ "RXFCG" \in sysstatus'
                       => reception' # "told"
                    /\ code'["irq"] = <<>> \/ Has(code'["irq"], Tests) =>
                         ("RXFCG" \in status' => reception' # "told")
  BY <1>1 DEF Tells, Acts
<1>2. \A x, y : Do(x) = Do(y) => x = y
  BY DEF Do
<1>3. step # Do("ReadStatus") /\ ~Has(code'["irq"], Reads) => ~Has(code["irq"], Reads)
  <2>1. "irq" \in Task /\ Proper(step, body) /\ Moves("irq", step, body)
    BY DEF Task, Acts, Goes
  <2>2. step \notin Reads /\ Has(code["irq"], Reads) => Has(code'["irq"], Reads)
    BY <2>1, MoveHas
  <2> QED
    BY <2>2 DEF Reads
<1>4. Has(code'["irq"], SentTest) => Has(code["irq"], SentTest)
  <2>1. body \in Seq(Plain) /\ body \in Seq(Step)
    BY PlainHas DEF Acts, Goes, Proper
  <2>2. ~Has(body, SentTest)
    BY <2>1, Clean, TestSteps
  <2> DEFINE r == Tail(code["irq"])
  <2>3. /\ code["irq"] \in Seq(Step) /\ code["irq"] # <<>> /\ r \in Seq(Step)
        /\ code'["irq"] = body \o r
    BY <2>1, MovesCode DEF CodeInv, Acts, Goes, Task
  <2>4. Has(r, SentTest) => Has(code["irq"], SentTest)
    BY <2>3, HasHead
  <2> HIDE DEF r
  <2>5. Has(body \o r, SentTest) <=> Has(body, SentTest) \/ Has(r, SentTest)
    BY <2>1, <2>3, HasConcat
  <2> QED
    BY <2>2, <2>3, <2>4, <2>5
<1>5. step = Do("ReadStatus") =>
        /\ sysstatus' = status /\ status' = status
        /\ reception # "told" => reception' # "told"
  <2>1. Do("ReadStatus") # Do("WriteStatus")
    BY <1>2
  <2> QED
    BY <2>1 DEF Acts
<1>6. step \in AtFirst \ {Do("ReadStatus")} => sysstatus' = sysstatus /\ status' = status
  <2>1. Do("Select") # Do("WriteStatus") /\ Do("Deselect") # Do("WriteStatus")
    BY <1>2
  <2> QED
    BY <2>1 DEF Acts, AtFirst
<1>7. step \in BeforeTests \ {Do("ReadStatus")} =>
        ("RXFCG" \in sysstatus' => "RXFCG" \in sysstatus) /\ reception' = reception
  <2>1. Do("IfReceiveDone") \notin BeforeTests
    BY TestSteps
  <2>2. step \in BeforeTests \ {Do("ReadStatus")} =>
          step \in {Do("Select"), Do("Deselect"), Do("WriteStatus"), Do("IfTransmitDone"),
                    Do("MarkTransmit")}
    BY DEF BeforeTests, AtFirst, SentTest
  <2>3. step \in {Do("Select"), Do("Deselect"), Do("WriteStatus"), Do("IfTransmitDone")} =>
          sysstatus' = sysstatus
    BY DEF Acts
  <2>4. step = Do("MarkTransmit") => sysstatus' = sysstatus \cup {"TXFRS"}
    BY DEF Acts
  <2>5. step \in BeforeTests \ {Do("ReadStatus")} => reception' = reception
    BY <2>1 DEF Acts
  <2> QED
    BY <2>2, <2>3, <2>4, <2>5
<1>8. status' \subseteq status
  BY ClearEffect DEF Acts, Types
<1>9. ASSUME Has(code'["irq"], SentTest), ~Has(code'["irq"], Reads)
      PROVE  sysstatus' \subseteq status'
  BY <1>1, <1>3, <1>4, <1>5, <1>6, <1>9 DEF Tells
<1>10. ASSUME Has(code'["irq"], Tests), ~Has(code'["irq"], Reads), "RXFCG" \in sysstatus'
       PROVE  reception' # "told"
  BY <1>1, <1>3, <1>5, <1>7, <1>10 DEF Tells
<1>11. ASSUME Has(code'["irq"], Tests), "RXFCG" \in status'
       PROVE  reception' # "told"
  BY <1>1, <1>5, <1>7, <1>8, <1>11 DEF Tells
<1>12. code'["irq"] = <<>> => "RXFCG" \notin status'
  BY LastStep
<1> QED
  BY <1>9, <1>10, <1>11, <1>12

LEMMA NextTells ==
  ASSUME Types, CodeInv, CodeInv', Wakes, Tells, InOrder(code["irq"]), [Next]_vars
  PROVE  Tells' /\ InOrder(code'["irq"])
<1>0. "loop" \in Task /\ "irq" \in Task /\ sysstatus \subseteq Event
  BY DEF Task, Types
<1>1. ASSUME NEW step, NEW body, Acts("loop", step, body)
      PROVE  Tells' /\ InOrder(code'["irq"])
  <2>1. build' = build /\ Proper(step, body) /\ Moves("loop", step, body)
    BY <1>1 DEF Acts, Goes
  <2>2. code'["irq"] = code["irq"]
    BY <1>0, <2>1, MoveHas DEF Task
  <2>3. step \in Quiet
    BY <2>1 DEF Moves, AtStep, CodeInv
  <2>4. reception' = reception
    BY <1>1, <2>3 DEF Acts, Quiet, IrqOnly
  <2>5. status' \subseteq status
    BY <1>1, ClearEffect DEF Acts, Types
  <2>6. build.cores = 1 => code["irq"] = <<>>
    BY <2>1 DEF Moves, AtStep, Runs
  <2>7. ~Has(<<>>, SentTest) /\ ~Has(<<>>, Tests)
    BY NoSteps
  <2> QED
    BY <2>1, <2>2, <2>4, <2>5, <2>6, <2>7 DEF Tells
<1>2. ASSUME NEW t \in Task, NEW step, NEW body, Acts(t, step, body)
      PROVE  Tells' /\ InOrder(code'["irq"])
  BY <1>1, <1>2, IrqTells DEF Task
<1>3. CASE \E t \in Task : Bus(t)
  BY <1>2, <1>3, BusActs
<1>4. CASE \E t \in Task : Fields(t)
  BY <1>0, <1>2, <1>4, FieldsAct
<1>5. CASE IfTransmitDone \/ IfReceiveDone
  BY <1>0, <1>2, <1>5, TestsAct
<1>6. CASE TimerTick \/ CheckForReset \/ HandleSent \/ HandleReceived
  <2>1. UNCHANGED <<build, status, sysstatus, reception>>
    BY <1>6, LoopStarts DEF chip, fields, history
  <2>2. code'["irq"] = code["irq"]
    BY <1>6, LoopStarts DEF Calls, CodeInv, Task
  <2> QED
    BY <2>1, <2>2 DEF Tells
<1>7. CASE TakeSemaphore
  <2>1. /\ code["irq"] = <<>> /\ code' = [code EXCEPT !["irq"] = HandleInterrupt]
        /\ UNCHANGED <<build, status, sysstatus, reception>>
    BY <1>7 DEF TakeSemaphore, chip, fields, history
  <2>2. code'["irq"] = HandleInterrupt
    BY <2>1 DEF CodeInv, Task
  <2>3. InOrder(code'["irq"]) /\ Has(code'["irq"], Reads)
    BY <2>2, HandlerInOrder
  <2> QED
    BY <2>1, <2>3 DEF Tells
<1>8. CASE FrameSent
  <2>1. /\ UNCHANGED <<build, sysstatus, reception, code>> /\ status' = status \cup {"TXFRS"}
    BY <1>8 DEF FrameSent, LatchStatus, fields, history
  <2> QED
    BY <2>1 DEF Tells
<1>9. CASE FrameReceived
  <2>1. /\ UNCHANGED <<build, sysstatus, code>> /\ status' = status \cup {"RXFCG"}
        /\ reception' = "unread"
    BY <1>9 DEF FrameReceived, LatchStatus, fields
  <2> QED
    BY <2>1 DEF Tells
<1>10. CASE UNCHANGED vars
  <2>1. UNCHANGED <<build, status, sysstatus, reception, code>>
    BY <1>10 DEF vars, chip, fields, history
  <2> QED
    BY <2>1 DEF Tells
<1> QED
  BY <1>0, <1>3, <1>4, <1>5, <1>6, <1>7, <1>8, <1>9, <1>10 DEF Next, InterruptTask, Loop, Chip

LEMMA FlagsStep ==
  ASSUME Types, CodeInv, Tells, [Next]_vars, build.cores = 1, build.whole
  PROVE  /\ sentAck' /\ ~sentAck => "TXFRS" \in status
         /\ receivedAck' /\ ~receivedAck => reception # "told"
<1>0. "loop" \in Task /\ "irq" \in Task /\ sysstatus \subseteq Event
  BY DEF Task, Types
<1>1. ASSUME NEW step \in {Do("IfTransmitDone"), Do("IfReceiveDone")}, AtStep("irq", step)
      PROVE  /\ ~Has(code["irq"], Reads)
             /\ \A K : step \in K => Has(code["irq"], K)
  <2>1. /\ code["irq"] # <<>> /\ Head(code["irq"]) = step /\ code["irq"] \in Seq(IrqStep)
        /\ ReadsFirst(code["irq"])
    BY <1>1 DEF AtStep, CodeInv
  <2>2. step \notin {Do("Select"), Do("ReadStatus")}
    BY Different
  <2>3. ~Has(Tail(code["irq"]), Reads)
    BY <2>1, <2>2, TailReads
  <2>4. \A K : Has(code["irq"], K) <=> step \in K \/ Has(Tail(code["irq"]), K)
    BY <2>1, HasHead
  <2> QED
    BY <2>2, <2>3, <2>4 DEF Reads
<1>2. CASE IfTransmitDone
  <2>1. AtStep("irq", Do("IfTransmitDone")) /\ receivedAck' = receivedAck
    BY <1>2 DEF IfTransmitDone
  <2>2. "TXFRS" \in sysstatus => "TXFRS" \in status
    BY <1>1, <2>1 DEF Tells, SentTest
  <2>3. "TXFRS" \notin sysstatus => sentAck' = sentAck
    BY <1>2 DEF IfTransmitDone
  <2>4. sentAck' /\ ~sentAck => "TXFRS" \in status
    BY <2>2, <2>3, Zenon
  <2>5. ~(receivedAck' /\ ~receivedAck)
    BY <2>1, Zenon
  <2> QED
    BY <2>4, <2>5, Zenon
<1>3. CASE IfReceiveDone
  <2>1. AtStep("irq", Do("IfReceiveDone")) /\ sentAck' = sentAck
    BY <1>3 DEF IfReceiveDone
  <2>2. "RXFCG" \in sysstatus => reception # "told"
    BY <1>1, <2>1 DEF Tells, Tests
  <2>3. "RXFCG" \notin sysstatus => receivedAck' = receivedAck
    BY <1>3 DEF IfReceiveDone
  <2>4. receivedAck' /\ ~receivedAck => reception # "told"
    BY <2>2, <2>3, Zenon
  <2>5. ~(sentAck' /\ ~sentAck)
    BY <2>1, Zenon
  <2> QED
    BY <2>4, <2>5, Zenon
<1>4. CASE HandleSent
  <2>1. sentAck' = FALSE /\ receivedAck' = receivedAck
    BY <1>4 DEF HandleSent
  <2> QED
    BY <2>1, Zenon
<1>5. CASE HandleReceived
  <2>1. receivedAck' = FALSE /\ sentAck' = sentAck
    BY <1>5 DEF HandleReceived
  <2> QED
    BY <2>1, Zenon
<1>6. CASE \/ (\E t \in Task : Bus(t) \/ Fields(t)) \/ TimerTick \/ CheckForReset
           \/ TakeSemaphore \/ Chip \/ UNCHANGED vars
  <2>1. sentAck' = sentAck /\ receivedAck' = receivedAck
    <3>1. CASE \E t \in Task : Bus(t)
      BY <3>1, BusGoes
    <3>2. CASE \E t \in Task : Fields(t)
      BY <1>0, <3>2, FieldsGo DEF flags
    <3>3. CASE TimerTick \/ CheckForReset \/ TakeSemaphore
      BY <3>3 DEF TimerTick, CheckForReset, TakeSemaphore, flags
    <3>4. CASE Chip \/ UNCHANGED vars
      BY <3>4 DEF Chip, FrameSent, FrameReceived, vars, flags
    <3> QED
      BY <1>6, <3>1, <3>2, <3>3, <3>4
  <2> QED
    BY <2>1, Zenon
<1> QED
  BY <1>0, <1>2, <1>3, <1>4, <1>5, <1>6 DEF Next, InterruptTask, Loop

(* On one core, when no transfer is cut: loop() is told of a transmission  *)
(* only when the chip has finished one, and of a reception only when there *)
(* is one that it has not been told of, although every bit of the cached   *)
(* status is set between two interrupts.                                   *)
THEOREM TellsEvents == Spec => FlagsTellEvents
<1> DEFINE Known == Types /\ CodeInv /\ Wakes /\ Tells /\ InOrder(code["irq"])
           Told == build.cores = 1 /\ build.whole =>
                     /\ sentAck' /\ ~sentAck => "TXFRS" \in status
                     /\ receivedAck' /\ ~receivedAck => reception # "told"
<1>1. Init => Known
  <2> SUFFICES ASSUME Init PROVE Known
    OBVIOUS
  <2>1. code["irq"] = <<>> /\ status = {}
    BY DEF Init
  <2>2. \A K : ~Has(code["irq"], K)
    BY <2>1, NoSteps
  <2>3. Wakes /\ Tells
    BY <2>1, <2>2 DEF Wakes, Cleared, Tells
  <2>4. InOrder(code["irq"])
    BY <2>2, OnlyWithout DEF InOrder
  <2> QED
    BY <2>3, <2>4, InitTypes, InitCode
<1>2. Known /\ [Next]_vars => Known'
  BY NextTypes, NextCode, NextWakes, NextTells DEF Types
<1>3. Known /\ [Next]_vars => [Told]_vars
  BY FlagsStep
<1> QED
  BY <1>1, <1>2, <1>3, PTL DEF Spec, FlagsTellEvents
================================================================================
