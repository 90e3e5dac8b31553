------------------------------ MODULE MCClock -------------------------------
(***************************************************************************)
(* Instances of Clock for TLC.                                              *)
(***************************************************************************)
EXTENDS Clock

Mode(binary, hours24) == [binary |-> binary, hours24 |-> hours24]
Setting(mode, time)   == [mode |-> mode, time |-> time]

\* The last second of a year, of a quarter of an hour, of an hour and of a day in February.
MCSettings ==
    {Setting(Mode(FALSE, TRUE),  <<59, 59, 23, 31, 12, 23>>),
     Setting(Mode(TRUE, TRUE),   <<59, 14, 11, 28, 2, 24>>),
     Setting(Mode(FALSE, FALSE), <<59, 59, 20, 30, 9, 24>>),
     Setting(Mode(TRUE, FALSE),  <<58, 59, 9, 28, 2, 24>>)}
NewYear == {Setting(Mode(FALSE, TRUE), <<59, 59, 23, 31, 12, 23>>)}
=============================================================================
