-------------------------------- MODULE Rtc ---------------------------------
(***************************************************************************)
(* Reading the CMOS clock, kernel/rtc.cpp.  rtc_read_datetime waits until  *)
(* no update is in progress and then reads six registers one by one, while *)
(* the clock goes on; nothing locks it.  What saves the reader is time:    *)
(* the chip raises "update in progress" LEAD before it changes the         *)
(* registers (244 microseconds).                                           *)
(*                                                                         *)
(* Time is counted in register accesses.  The reader may lose up to STEAL  *)
(* of them to interrupt handlers during one call.                          *)
(***************************************************************************)
EXTENDS Integers

CONSTANTS
  PERIOD,  \* time between two updates (one second)
  LEAD,    \* time from "update in progress" to the update
  STEAL,   \* time the reader may lose in one call
  Starts,  \* the dates and times the clock may show at boot
  Formats, \* register B: [binary, h24]
  MAX_UPDATES  \* bound on the seconds that pass

Fields == {"second", "minute", "hour", "day", "month", "year"}

\* The registers in the order they are read.
Reg == <<"second", "minute", "hour", "day", "month", "year">>

Clock == [second : 0 .. 59, minute : 0 .. 59, hour : 0 .. 23, day : 1 .. 31,
          month : 1 .. 12, year : 0 .. 99]

ASSUME StartsAssumption == Starts \subseteq Clock
ASSUME FormatsAssumption == Formats \subseteq [binary : BOOLEAN, h24 : BOOLEAN]
ASSUME TimingAssumption ==
  /\ PERIOD \in Nat /\ LEAD \in Nat /\ STEAL \in Nat /\ MAX_UPDATES \in Nat
  /\ LEAD >= 6 + STEAL
  /\ PERIOD > LEAD

VARIABLES
  clock,   \* the time the chip keeps
  due,     \* time to its next update
  updates, \* how many there were
  format,  \* register B
  rpc,     \* 0 polling, 1..6 about to read Reg[rpc], 7 register B, 8 returned
  raw,     \* the register values read so far
  stolen,  \* time lost in this call
  dt,      \* the DateTime returned
  polled   \* the clock when the poll ended (history variable)

vars == <<clock, due, updates, format, rpc, raw, stolen, dt, polled>>

-----------------------------------------------------------------------------
\* The chip.

Wrap(v, last, first) == IF v = last THEN first ELSE v + 1

DaysIn(month) ==
  IF month = 2 THEN 28 ELSE IF month \in {4, 6, 9, 11} THEN 30 ELSE 31

\* One second later, with the carries.
Later(t) ==
  LET minute == t.second = 59
      hour == minute /\ t.minute = 59
      day == hour /\ t.hour = 23
      month == day /\ t.day >= DaysIn(t.month)
      year == month /\ t.month = 12
  IN  [second |-> Wrap(t.second, 59, 0),
       minute |-> IF minute THEN Wrap(t.minute, 59, 0) ELSE t.minute,
       hour |-> IF hour THEN Wrap(t.hour, 23, 0) ELSE t.hour,
       day |-> IF month THEN 1 ELSE IF day THEN t.day + 1 ELSE t.day,
       month |-> IF month THEN Wrap(t.month, 12, 1) ELSE t.month,
       year |-> IF year THEN Wrap(t.year, 99, 0) ELSE t.year]

Bcd(v) == ((v \div 10) * 16) + (v % 10)

\* How a register holds a value: BCD or binary; in 12-hour mode, hours 1 to
\* 12 with bit 7 set in the afternoon.
Encode(field, v) ==
  LET plain(x) == IF format.binary THEN x ELSE Bcd(x)
      h12 == IF v % 12 = 0 THEN 12 ELSE v % 12
  IN  IF field = "hour" /\ ~format.h24
      THEN plain(h12) + (IF v >= 12 THEN 128 ELSE 0)
      ELSE plain(v)

UpdateInProgress == due <= LEAD

\* The registers change; nothing else happens before that when it is due.
Update ==
  /\ due = 0
  /\ updates < MAX_UPDATES
  /\ updates' = updates + 1
  /\ clock' = Later(clock)
  /\ due' = PERIOD
  /\ UNCHANGED <<format, rpc, raw, stolen, dt, polled>>

-----------------------------------------------------------------------------
\* The reader; every access takes one unit of time.

Access ==
  /\ due > 0
  /\ due' = due - 1
  /\ UNCHANGED <<clock, updates, format>>

NoRaw == [f \in Fields |-> 0]

Init ==
  /\ clock \in Starts
  /\ due \in 1 .. PERIOD
  /\ updates = 0
  /\ format \in Formats
  /\ rpc = 8
  /\ raw = NoRaw
  /\ stolen = 0
  /\ dt = NoRaw
  /\ polled = clock

\* DATE or TIME calls rtc_read_datetime.
Call ==
  /\ rpc = 8
  /\ Access
  /\ rpc' = 0
  /\ raw' = NoRaw
  /\ stolen' = 0
  /\ UNCHANGED <<dt, polled>>

\* Mutant: one look at the flag instead of a loop.
PollOnce ==
  /\ rpc = 0
  /\ Access
  /\ rpc' = 1
  /\ polled' = clock
  /\ UNCHANGED <<raw, stolen, dt>>

\* while (cmos_read(0x0A) & 0x80);
Poll ==
  /\ rpc = 0
  /\ Access
  /\ rpc' = IF UpdateInProgress THEN 0 ELSE 1
  /\ polled' = clock
  /\ UNCHANGED <<raw, stolen, dt>>

\* One of the six registers.
ReadRegister ==
  /\ rpc \in 1 .. 6
  /\ Access
  /\ raw' = [raw EXCEPT ![Reg[rpc]] = Encode(Reg[rpc], clock[Reg[rpc]])]
  /\ rpc' = rpc + 1
  /\ UNCHANGED <<stolen, dt, polled>>

\* Mutant: the tens are lost.
bcd_units(bcd) == bcd % 16

bcd_to_binary(bcd) == (((bcd \div 16) * 10) + (bcd % 16)) % 256

\* The hour after the BCD conversion, which comes first.
To24Hour(hour) ==
  IF ~format.h24 /\ (hour \div 128) % 2 = 1
  THEN ((hour % 128) + 12) % 24
  ELSE hour

\* Register B decides how the values are converted.
Convert ==
  /\ rpc = 7
  /\ Access
  /\ LET plain(f) == IF format.binary THEN raw[f] ELSE bcd_to_binary(raw[f])
     IN  dt' = [f \in Fields |->
                  IF f = "hour" THEN To24Hour(plain(f))
                  ELSE IF f = "year" THEN 2000 + plain(f)
                  ELSE plain(f)]
  /\ rpc' = 8
  /\ UNCHANGED <<raw, stolen, polled>>

\* An interrupt handler runs.
Steal ==
  /\ rpc \in 0 .. 7
  /\ stolen < STEAL
  /\ Access
  /\ stolen' = stolen + 1
  /\ UNCHANGED <<rpc, raw, dt, polled>>

Next == Update \/ Call \/ Poll \/ ReadRegister \/ Convert \/ Steal

Spec == Init /\ [][Next]_vars

-----------------------------------------------------------------------------
(***************************************************************************)
(* Properties.                                                             *)
(***************************************************************************)

\* The values the variables range over; what is returned is a date and a
\* time of day.
TypeOK ==
  /\ clock \in Clock /\ polled \in Clock
  /\ due \in 0 .. PERIOD
  /\ updates \in 0 .. MAX_UPDATES
  /\ format \in Formats
  /\ rpc \in 0 .. 8
  /\ raw \in [Fields -> Nat]
  /\ dt = NoRaw \/ [dt EXCEPT !.year = @ - 2000] \in Clock
  /\ stolen \in 0 .. STEAL

\* The values read belong together: each is what the clock showed when the
\* poll ended, although it is not stopped while the registers are read.
NoTornRead ==
  rpc \in 1 .. 7 =>
    \A k \in 1 .. (rpc - 1) : raw[Reg[k]] = Encode(Reg[k], polled[Reg[k]])

\* The date and time returned are the ones the clock showed during the call,
\* in 24-hour form and with the century.
DateTimeIsReal ==
  (rpc = 8 /\ dt # NoRaw) =>
    dt = [f \in Fields |-> IF f = "year" THEN 2000 + polled[f] ELSE polled[f]]

=============================================================================
