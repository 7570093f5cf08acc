-------------------------------- MODULE MCRtc --------------------------------
(* Rtc around the rollovers of the minute, of a leap day and of the year.  *)
EXTENDS Rtc

At(y, mo, d, h, mi, s) == [f \in Fields |-> CASE f = Year   -> y
                                              [] f = Month  -> mo
                                              [] f = Day    -> d
                                              [] f = Hour   -> h
                                              [] f = Minute -> mi
                                              [] OTHER      -> s]

MCClocks   == {At(12, 12, 31, 23, 59, 58), At(12, 2, 28, 23, 59, 59),
               At(11, 10, 9, 8, 37, 45)}
MCRequests == {At(13, 6, 30, 23, 59, 59), At(12, 9, 19, 20, 59, 7)}
==============================================================================
