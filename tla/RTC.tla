-------------------------------- MODULE RTC ---------------------------------
(***************************************************************************)
(* The CMOS real-time clock and read_rtc (cmos.c).                           *)
(*                                                                         *)
(* The device, modelled from how cmos.c reads it, moves on by a second at a time  *)
(* it chooses: it raises the update-in-progress flag, changes its registers one     *)
(* after another and lowers the flag.  read_rtc reads one register per step, as      *)
(* slowly as may be.  A time is <<second, minute, hour, day, month, year>>, the        *)
(* order in which the registers are read.                                     *)
(***************************************************************************)
EXTENDS Integers, Sequences

CONSTANTS
    Settings,   \* the [mode, time] the device may start with; a mode is register B
    MaxTicks    \* bound: seconds that pass

VARIABLES
    rtc,        \* the device: mode, time, uip, and the last register the update has changed
    ticks,      \* seconds passed
    rd          \* read_rtc: where it is, *second .. *year, last_second .. last_year

rtcvars == <<rtc, ticks, rd>>

Fields == 1 .. 6

-----------------------------------------------------------------------------
(***************************************************************************)
(* The device.                                                              *)
(***************************************************************************)
DaysIn(month, year) ==
    CASE month = 2 -> IF year % 4 = 0 THEN 29 ELSE 28
      [] month \in {4, 6, 9, 11} -> 30
      [] OTHER -> 31

Modes == [binary : BOOLEAN, hours24 : BOOLEAN]
Times == {t \in (0 .. 59) \X (0 .. 59) \X (0 .. 23) \X (1 .. 31) \X (1 .. 12) \X (0 .. 99) :
             t[4] <= DaysIn(t[5], t[6])}

ASSUME RTCAssumption ==
    /\ \A s \in Settings : s.mode \in Modes /\ s.time \in Times
    /\ MaxTicks \in Nat

\* A time one second later.
NextSecond(t) ==
    LET minute == t[1] = 59
        hour   == minute /\ t[2] = 59
        day    == hour /\ t[3] = 23
        month  == day /\ t[4] = DaysIn(t[5], t[6])
        year   == month /\ t[5] = 12
    IN  <<(t[1] + 1) % 60,
          IF minute THEN (t[2] + 1) % 60 ELSE t[2],
          IF hour   THEN (t[3] + 1) % 24 ELSE t[3],
          IF month  THEN 1 ELSE IF day THEN t[4] + 1 ELSE t[4],
          IF year   THEN 1 ELSE IF month THEN t[5] + 1 ELSE t[5],
          IF year   THEN (t[6] + 1) % 100 ELSE t[6]>>

\* What a register holds: the hour may count to twelve, with bit 7 for p.m.
Bcd(v) == 16 * (v \div 10) + (v % 10)
Encode(mode, f, v) ==
    LET hour12 == IF v % 12 = 0 THEN 12 ELSE v % 12
        n      == IF f = 3 /\ ~ mode.hours24 THEN hour12 ELSE v
        pm     == IF f = 3 /\ ~ mode.hours24 /\ v >= 12 THEN 128 ELSE 0
    IN  pm + (IF mode.binary THEN n ELSE Bcd(n))

get_RTC_register(f) ==
    Encode(rtc.mode, f, IF f <= rtc.changed THEN NextSecond(rtc.time)[f] ELSE rtc.time[f])

UpdateBegins ==
    /\ ~ rtc.uip /\ ticks < MaxTicks
    /\ rtc' = [rtc EXCEPT !.uip = TRUE]
    /\ UNCHANGED <<ticks, rd>>

\* Registers that keep their value are passed over.
Changes(f) == f > rtc.changed /\ NextSecond(rtc.time)[f] # rtc.time[f]

UpdateRegister ==
    /\ rtc.uip
    /\ \E f \in Fields :
         /\ Changes(f) /\ \A g \in 1 .. f - 1 : ~ Changes(g)
         /\ rtc' = [rtc EXCEPT !.changed = f]
    /\ UNCHANGED <<ticks, rd>>

UpdateEnds ==
    /\ rtc.uip /\ \A f \in Fields : ~ Changes(f)
    /\ rtc' = [rtc EXCEPT !.uip = FALSE, !.changed = 0, !.time = NextSecond(@)]
    /\ ticks' = ticks + 1
    /\ rd' = IF rd.pc = "idle" THEN rd ELSE [rd EXCEPT !.seen = @ \cup {NextSecond(rtc.time)}]

Update == UpdateRegister \/ UpdateEnds

-----------------------------------------------------------------------------
(***************************************************************************)
(* read_rtc.  "seen" and "begun" are no state of the code: the times of the       *)
(* device during the call, and "ticks" when it began.                         *)
(***************************************************************************)
NoRead == [pc |-> "idle"]

ReadStart ==
    /\ rd = NoRead
    /\ rd' = [pc |-> "wait", next |-> 1, cur |-> [f \in Fields |-> 0], last |-> <<>>,
              seen |-> {rtc.time}, begun |-> ticks]
    /\ UNCHANGED <<rtc, ticks>>

\* Mutant: the flag is not looked at.
WaitSkipped ==
    /\ rd.pc = "wait"
    /\ rd' = [rd EXCEPT !.pc = "registers", !.next = 1]
    /\ UNCHANGED <<rtc, ticks>>

\* while (get_update_in_progress_flag());
WaitForUpdate ==
    /\ rd.pc = "wait"
    /\ ~ rtc.uip
    /\ rd' = [rd EXCEPT !.pc = "registers", !.next = 1]
    /\ UNCHANGED <<rtc, ticks>>

\* The first pass reads six registers; the loop reads five and leaves the year.
FirstPass == rd.last = <<>>
LastField == IF FirstPass THEN 6 ELSE 5

ReadRegister ==
    /\ rd.pc = "registers"
    /\ rd.next <= LastField
    /\ rd' = [rd EXCEPT !.cur[rd.next] = get_RTC_register(rd.next), !.next = @ + 1]
    /\ UNCHANGED <<rtc, ticks>>

\* Read again until two passes agree.
ReadAgain ==
    /\ rd.pc = "registers" /\ rd.next > LastField
    /\ FirstPass \/ rd.cur # rd.last
    /\ rd' = [rd EXCEPT !.pc = "wait", !.last = rd.cur]
    /\ UNCHANGED <<rtc, ticks>>

\* Bit 7 of the hour is not a digit.
FromBcd(v, f) ==
    IF f = 3 THEN ((v % 16) + ((v % 128) \div 16) * 10) + (v - (v % 128))
    ELSE (v % 16) + (v \div 16) * 10

Convert(mode, cur) ==
    LET binary == [f \in Fields |-> IF mode.binary THEN cur[f] ELSE FromBcd(cur[f], f)]
    IN  IF ~ mode.hours24 /\ binary[3] >= 128
        THEN [binary EXCEPT ![3] = ((@ % 128) + 12) % 24]
        ELSE binary

ReadEnds ==
    /\ rd.pc = "registers" /\ rd.next > LastField
    /\ ~ FirstPass /\ rd.cur = rd.last
    /\ rd' = [rd EXCEPT !.pc = "returned", !.cur = Convert(rtc.mode, rd.cur)]
    /\ UNCHANGED <<rtc, ticks>>

ReadStep == WaitForUpdate \/ ReadRegister \/ ReadAgain \/ ReadEnds

RTCInit ==
    /\ \E s \in Settings : rtc = [mode |-> s.mode, time |-> s.time, uip |-> FALSE, changed |-> 0]
    /\ ticks = 0
    /\ rd = NoRead

-----------------------------------------------------------------------------
(***************************************************************************)
(* "to avoid getting dodgy/inconsistent values due to RTC updates": the second,    *)
(* minute, hour, day and month that read_rtc returns are those of one moment of the   *)
(* call, whenever the device moved on while the registers were read.              *)
(***************************************************************************)
ReadConsistent ==
    rd.pc = "returned" => \E t \in rd.seen : \A f \in 1 .. 5 : rd.cur[f] = t[f]

(***************************************************************************)
(* The same of all six values, the year with them, as the comment has it.        *)
(***************************************************************************)
DateConsistent == rd.pc = "returned" => \E t \in rd.seen : \A f \in Fields : rd.cur[f] = t[f]
=============================================================================
