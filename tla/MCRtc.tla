------------------------------- MODULE MCRtc --------------------------------
(***************************************************************************)
(* The clock at the turn of the year, of a month, of a day and of noon,    *)
(* when one update changes several registers.                              *)
(***************************************************************************)
EXTENDS Rtc

At(h, m, s, d, mo, y) ==
  [second |-> s, minute |-> m, hour |-> h, day |-> d, month |-> mo, year |-> y]

MCStarts == {At(23, 59, 58, 31, 12, 99), At(23, 59, 59, 28, 2, 25),
             At(11, 59, 58, 9, 9, 9), At(8, 9, 59, 30, 6, 10)}
MCFormats == [binary : BOOLEAN, h24 : {TRUE}]
MCTwelveHour == [binary : BOOLEAN, h24 : {FALSE}]

=============================================================================
