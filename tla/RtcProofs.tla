----------------------------- MODULE RtcProofs ------------------------------
(***************************************************************************)
(* Proofs about module Rtc, for every period, lead and stolen time that    *)
(* meet TimingAssumption and every start of the clock.                     *)
(*                                                                         *)
(* The registers are consistent because the clock cannot move before the   *)
(* sixth of them is read: when the poll ends, LEAD is left, and each       *)
(* register read and each stolen unit uses up one of it.                   *)
(***************************************************************************)
EXTENDS Rtc, TLAPS

\* The types the argument needs; what is returned is not among them.
Types ==
  /\ clock \in Clock /\ polled \in Clock
  /\ due \in Nat
  /\ format \in Formats
  /\ rpc \in 0 .. 8
  /\ raw \in [Fields -> Nat]
  /\ stolen \in 0 .. STEAL

\* The time left after the poll, and the clock that has not moved.
TimeLeft ==
  rpc \in 1 .. 6 => /\ due + (rpc - 1) + stolen >= LEAD
                    /\ polled = clock

IInv == Types /\ TimeLeft /\ NoTornRead

-----------------------------------------------------------------------------
\* The chip keeps proper dates and times: Later maps Clock to Clock.
LEMMA LaterInClock ==
  ASSUME NEW t \in Clock
  PROVE  Later(t) \in Clock
<1>0. /\ t.second \in 0 .. 59 /\ t.minute \in 0 .. 59 /\ t.hour \in 0 .. 23
      /\ t.day \in 1 .. 31 /\ t.month \in 1 .. 12 /\ t.year \in 0 .. 99
  BY DEF Clock
<1>1. /\ Wrap(t.second, 59, 0) \in 0 .. 59
      /\ Wrap(t.minute, 59, 0) \in 0 .. 59
      /\ Wrap(t.hour, 23, 0) \in 0 .. 23
      /\ Wrap(t.month, 12, 1) \in 1 .. 12
      /\ Wrap(t.year, 99, 0) \in 0 .. 99
  BY <1>0 DEF Wrap
<1>2. DaysIn(t.month) \in 28 .. 31
  BY DEF DaysIn
<1>3. ~(t.day >= DaysIn(t.month)) => t.day + 1 \in 1 .. 31
  BY <1>0, <1>2
<1> QED
  BY <1>0, <1>1, <1>3 DEF Later, Clock

\* A register holds a natural number.
LEMMA EncodeNat ==
  ASSUME NEW f \in Fields, NEW v \in Nat
  PROVE  Encode(f, v) \in Nat
<1>1. \A x \in Nat : Bcd(x) \in Nat
  BY DEF Bcd
<1>2. v % 12 \in Nat
  OBVIOUS
<1> QED
  BY <1>1, <1>2 DEF Encode

\* The names of the registers are distinct fields.
LEMMA RegFields ==
  /\ \A k \in 1 .. 6 : Reg[k] \in Fields
  /\ \A j, k \in 1 .. 6 : j # k => Reg[j] # Reg[k]
<1>1. \A k \in 1 .. 6 : k \in {1, 2, 3, 4, 5, 6}
  OBVIOUS
<1>2. /\ Reg[1] = "second" /\ Reg[2] = "minute" /\ Reg[3] = "hour"
      /\ Reg[4] = "day" /\ Reg[5] = "month" /\ Reg[6] = "year"
  BY DEF Reg
<1> QED
  BY <1>1, <1>2 DEF Fields

\* Fields of a clock are natural numbers.
LEMMA ClockNat ==
  ASSUME NEW t \in Clock, NEW f \in Fields
  PROVE  t[f] \in Nat
BY DEF Clock, Fields

-----------------------------------------------------------------------------
\* The invariant holds in every reachable state.
THEOREM Invariant == Spec => []IInv
<1>1. Init => IInv
  <2> SUFFICES ASSUME Init PROVE IInv
    OBVIOUS
  <2>1. Types
    BY StartsAssumption, TimingAssumption DEF Init, Types, NoRaw
  <2> QED
    BY <2>1 DEF Init, IInv, TimeLeft, NoTornRead
<1>2. IInv /\ [Next]_vars => IInv'
  <2> SUFFICES ASSUME IInv, [Next]_vars PROVE IInv'
    OBVIOUS
  <2> USE TimingAssumption
  <2>0. Types /\ TimeLeft /\ NoTornRead
    BY DEF IInv
  <2>1. CASE Update
    <3>1. Types'
      BY <2>0, <2>1, LaterInClock DEF Update, Types
    <3>2. rpc \notin 1 .. 6
      BY <2>0, <2>1 DEF Update, Types, TimeLeft
    <3>3. TimeLeft'
      BY <3>2, <2>1 DEF Update, TimeLeft
    <3>4. NoTornRead'
      BY <2>0, <2>1 DEF Update, NoTornRead, Encode
    <3> QED
      BY <3>1, <3>3, <3>4 DEF IInv
  <2>2. CASE Call
    <3>1. Types'
      BY <2>0, <2>2 DEF Call, Access, Types, NoRaw
    <3>2. TimeLeft' /\ NoTornRead'
      BY <2>2 DEF Call, TimeLeft, NoTornRead
    <3> QED
      BY <3>1, <3>2 DEF IInv
  <2>3. CASE Poll
    <3>1. Types'
      BY <2>0, <2>3 DEF Poll, Access, Types
    <3>2. TimeLeft'
      BY <2>0, <2>3 DEF Poll, Access, Types, TimeLeft, UpdateInProgress
    <3>3. NoTornRead'
      BY <2>3 DEF Poll, NoTornRead
    <3> QED
      BY <3>1, <3>2, <3>3 DEF IInv
  <2>4. CASE ReadRegister
    <3> DEFINE e == Encode(Reg[rpc], clock[Reg[rpc]])
    <3>0. rpc \in 1 .. 6 /\ Reg[rpc] \in Fields
      BY <2>4, RegFields DEF ReadRegister
    <3>1. e \in Nat
      BY <2>0, <3>0, ClockNat, EncodeNat DEF Types
    <3>2. Types'
      BY <2>0, <2>4, <3>0, <3>1 DEF ReadRegister, Access, Types
    <3>3. TimeLeft'
      BY <2>0, <2>4, <3>0 DEF ReadRegister, Access, Types, TimeLeft
    <3>4. polled = clock
      BY <2>0, <3>0 DEF TimeLeft
    <3>5. \A k \in 1 .. rpc :
            raw'[Reg[k]] = Encode(Reg[k], polled[Reg[k]])
      <4> TAKE k \in 1 .. rpc
      <4>1. k \in 1 .. 6 /\ Reg[k] \in Fields
        BY <3>0, RegFields
      <4>2. raw' = [raw EXCEPT ![Reg[rpc]] = e]
        BY <2>4 DEF ReadRegister
      <4> HIDE DEF e
      <4>3. CASE k = rpc
        <5>1. raw'[Reg[k]] = e
          BY <4>2, <4>3, <2>0, <3>0 DEF Types
        <5> QED
          BY <5>1, <4>3, <3>4 DEF e
      <4>4. CASE k # rpc
        <5>1. Reg[k] # Reg[rpc]
          BY <4>1, <4>4, <3>0, RegFields
        <5>2. raw'[Reg[k]] = raw[Reg[k]]
          BY <4>2, <5>1, <4>1, <2>0 DEF Types
        <5>3. k \in 1 .. (rpc - 1) /\ rpc \in 1 .. 7
          BY <4>4, <3>0
        <5> QED
          BY <5>2, <5>3, <2>0 DEF NoTornRead
      <4> QED
        BY <4>3, <4>4
    <3>6. polled' = polled /\ format' = format /\ rpc' - 1 = rpc
      BY <2>4, <3>0 DEF ReadRegister, Access
    <3>7. NoTornRead'
      BY <3>5, <3>6 DEF NoTornRead, Encode
    <3> QED
      BY <3>2, <3>3, <3>7 DEF IInv
  <2>5. CASE Convert
    <3>1. Types'
      BY <2>0, <2>5 DEF Convert, Access, Types
    <3>2. TimeLeft' /\ NoTornRead'
      BY <2>5 DEF Convert, TimeLeft, NoTornRead
    <3> QED
      BY <3>1, <3>2 DEF IInv
  <2>6. CASE Steal
    <3>1. Types'
      BY <2>0, <2>6 DEF Steal, Access, Types
    <3>2. TimeLeft'
      BY <2>0, <2>6 DEF Steal, Access, Types, TimeLeft
    <3>3. NoTornRead'
      BY <2>0, <2>6 DEF Steal, Access, NoTornRead, Encode
    <3> QED
      BY <3>1, <3>2, <3>3 DEF IInv
  <2>7. CASE UNCHANGED vars
    BY <2>0, <2>7 DEF vars, IInv, Types, TimeLeft, NoTornRead, Encode
  <2> QED
    BY <2>1, <2>2, <2>3, <2>4, <2>5, <2>6, <2>7 DEF Next
<1> QED
  BY <1>1, <1>2, PTL DEF Spec

\* The values rtc_read_datetime reads from the registers belong together: no
\* update of the clock falls between two of them, in any format.
THEOREM RegistersBelongTogether == Spec => []NoTornRead
<1>1. IInv => NoTornRead
  BY DEF IInv
<1> QED
  BY <1>1, Invariant, PTL

-----------------------------------------------------------------------------
\* bcd_to_binary inverts the chip's encoding of every value a register has.
LEMMA BcdInverse ==
  ASSUME NEW v \in 0 .. 99
  PROVE  bcd_to_binary(Bcd(v)) = v
<1> DEFINE t == v \div 10
           u == v % 10
           b == (t * 16) + u
<1>1. t \in 0 .. 9 /\ u \in 0 .. 9 /\ v = (t * 10) + u
  OBVIOUS
<1> HIDE DEF t, u
<1>2. b \div 16 = t /\ b % 16 = u
  BY <1>1
<1>3. Bcd(v) = b
  BY DEF Bcd, t, u
<1> QED
  BY <1>1, <1>2, <1>3 DEF bcd_to_binary

\* Every field of a clock fits two decimal digits.
LEMMA ClockDigits ==
  ASSUME NEW t \in Clock, NEW f \in Fields
  PROVE  t[f] \in 0 .. 99
BY DEF Clock, Fields

\* If the chip counts hours to 24, the date and time returned are the ones
\* the clock showed when the poll ended, in BCD mode and in binary mode.
THEOREM TimeIsReal ==
  ASSUME \A fmt \in Formats : fmt.h24 = TRUE
  PROVE  Spec => []DateTimeIsReal
<1>1. Init => DateTimeIsReal
  BY DEF Init, DateTimeIsReal
<1>2. IInv /\ DateTimeIsReal /\ [Next]_vars => DateTimeIsReal'
  <2> SUFFICES ASSUME IInv, DateTimeIsReal, [Next]_vars
               PROVE  DateTimeIsReal'
    OBVIOUS
  <2>0. Types /\ NoTornRead /\ format.h24 = TRUE
    BY DEF IInv, Types
  <2>1. CASE Convert
    <3> DEFINE plain(f) == IF format.binary THEN raw[f]
                           ELSE bcd_to_binary(raw[f])
    <3>1. \A f \in Fields : raw[f] = Encode(f, polled[f])
      <4>1. \A k \in 1 .. 6 : raw[Reg[k]] = Encode(Reg[k], polled[Reg[k]])
        BY <2>0, <2>1 DEF NoTornRead, Convert
      <4>2. /\ Reg[1] = "second" /\ Reg[2] = "minute" /\ Reg[3] = "hour"
            /\ Reg[4] = "day" /\ Reg[5] = "month" /\ Reg[6] = "year"
        BY DEF Reg
      <4> QED
        BY <4>1, <4>2 DEF Fields
    <3>2. \A f \in Fields : plain(f) = polled[f]
      <4> TAKE f \in Fields
      <4>1. polled[f] \in 0 .. 99
        BY <2>0, ClockDigits DEF Types
      <4>2. raw[f] = IF format.binary THEN polled[f] ELSE Bcd(polled[f])
        BY <2>0, <3>1 DEF Encode
      <4> QED
        BY <4>1, <4>2, BcdInverse
    <3>3. dt' = [f \in Fields |-> IF f = "hour" THEN To24Hour(plain(f))
                                  ELSE IF f = "year" THEN 2000 + plain(f)
                                  ELSE plain(f)]
      BY <2>1 DEF Convert
    <3> HIDE DEF plain
    <3>4. \A f \in Fields : To24Hour(plain(f)) = plain(f)
      BY <2>0 DEF To24Hour
    <3>5. dt' = [f \in Fields |-> IF f = "year" THEN 2000 + polled[f]
                                  ELSE polled[f]]
      BY <3>2, <3>3, <3>4
    <3>6. polled' = polled
      BY <2>1 DEF Convert
    <3> QED
      BY <3>5, <3>6 DEF DateTimeIsReal
  <2>2. CASE Call \/ Poll \/ ReadRegister \/ Steal
    <3>1. rpc' # 8
      BY <2>0, <2>2 DEF Call, Poll, ReadRegister, Steal, Types
    <3> QED
      BY <3>1 DEF DateTimeIsReal
  <2>3. CASE Update \/ UNCHANGED vars
    BY <2>3 DEF Update, vars, DateTimeIsReal
  <2> QED
    BY <2>1, <2>2, <2>3 DEF Next
<1> QED
  BY <1>1, <1>2, Invariant, PTL DEF Spec

=============================================================================
