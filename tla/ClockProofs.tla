----------------------------- MODULE ClockProofs -----------------------------
(***************************************************************************)
(* Proofs about the clock program and read_rtc, for every setting of the        *)
(* device, every number of seconds that pass and every number of cells.        *)
(***************************************************************************)
EXTENDS Clock, FiniteSetTheorems, TLAPS

-----------------------------------------------------------------------------
(***************************************************************************)
(* The device and the types of the state.                                   *)
(***************************************************************************)

\* A second later is a valid time; without a carry only the second differs.
LEMMA NextSecondOK ==
    ASSUME NEW t \in Times
    PROVE  /\ NextSecond(t) \in Times
           /\ NextSecond(t)[1] = (t[1] + 1) % 60
           /\ t[1] # 59 => \A f \in 2 .. 6 : NextSecond(t)[f] = t[f]
<1>1. /\ t = <<t[1], t[2], t[3], t[4], t[5], t[6]>>
      /\ t[1] \in 0 .. 59 /\ t[2] \in 0 .. 59 /\ t[3] \in 0 .. 23
      /\ t[4] \in 1 .. 31 /\ t[5] \in 1 .. 12 /\ t[6] \in 0 .. 99
      /\ t[4] <= DaysIn(t[5], t[6])
  BY DEF Times
<1>2. \A m \in 1 .. 12, y \in 0 .. 99 : DaysIn(m, y) \in 28 .. 31
  BY DEF DaysIn
<1>3. DaysIn(1, (t[6] + 1) % 100) = 31 /\ \A y : DaysIn(1, y) = 31
  BY DEF DaysIn
<1> DEFINE n == NextSecond(t)
<1>4. /\ n = <<n[1], n[2], n[3], n[4], n[5], n[6]>>
      /\ n[1] = (t[1] + 1) % 60
      /\ n[2] = IF t[1] = 59 THEN (t[2] + 1) % 60 ELSE t[2]
  BY DEF NextSecond
<1>5. n[1] \in 0 .. 59 /\ n[2] \in 0 .. 59 /\ n[3] \in 0 .. 23
  BY <1>1 DEF NextSecond
<1>6. n[4] \in 1 .. 31 /\ n[5] \in 1 .. 12 /\ n[6] \in 0 .. 99 /\ n[4] <= DaysIn(n[5], n[6])
  <2> DEFINE day   == t[1] = 59 /\ t[2] = 59 /\ t[3] = 23
             last  == t[4] = DaysIn(t[5], t[6])
  <2>1. CASE ~ day
    BY <1>1, <2>1 DEF NextSecond
  <2>2. CASE day /\ ~ last
    <3>1. n[4] = t[4] + 1 /\ n[5] = t[5] /\ n[6] = t[6]
      BY <2>2 DEF NextSecond
    <3> QED
      BY <1>1, <1>2, <2>2, <3>1
  <2>3. CASE day /\ last /\ t[5] # 12
    <3>1. n[4] = 1 /\ n[5] = t[5] + 1 /\ n[6] = t[6]
      BY <2>3 DEF NextSecond
    <3>2. n[5] \in 1 .. 12
      BY <1>1, <2>3, <3>1
    <3> QED
      BY <1>1, <1>2, <3>1, <3>2
  <2>4. CASE day /\ last /\ t[5] = 12
    <3>1. n[4] = 1 /\ n[5] = 1 /\ n[6] = (t[6] + 1) % 100
      BY <2>4 DEF NextSecond
    <3> QED
      BY <1>1, <1>3, <3>1
  <2> QED
    BY <2>1, <2>2, <2>3, <2>4
<1>7. t[1] # 59 => \A f \in 2 .. 6 : NextSecond(t)[f] = t[f]
  BY <1>1 DEF NextSecond
<1> HIDE DEF n
<1>8. n \in Times
  BY <1>4, <1>5, <1>6 DEF Times
<1> QED
  BY <1>4, <1>7, <1>8 DEF n

(***************************************************************************)
(* The types, with what ties the parts together: the device counts a second     *)
(* when its update ends, a cell of the face is drawn only by the loop over the    *)
(* face, and the kernel's flag says whether the window is open.                *)
(***************************************************************************)
DeviceOK ==
    /\ rtc \in [mode : Modes, time : Times, uip : BOOLEAN, changed : 0 .. 6]
    /\ ticks \in 0 .. MaxTicks
    /\ rtc.changed # 0 => rtc.uip
    /\ rtc.uip => ticks < MaxTicks

ProgramsOK ==
    /\ cells \in [Cells -> {"black", "art", "clock"}]
    /\ shell_open \in BOOLEAN
    /\ clk \in [pc : {"read", "test", "check", "draw", "border"},
                cell : 1 .. FaceCells + BorderCells + 1, shell_open : BOOLEAN]
    /\ win \in [pc : {"closed", "clear", "open", "paint"}, cell : Cells]
    /\ clk.pc \in {"check", "draw"} => clk.cell \in Face
    /\ clk.pc = "border" => clk.cell > FaceCells
    /\ shell_open <=> win.pc \in {"clear", "open"}

\* The cells of the face that show the clock.
Painted == {c \in Face : cells[c] = "clock"}

(***************************************************************************)
(* Over an open window one cell of the face is drawn at most, and none while the  *)
(* clock still holds a flag it read before the window opened.                  *)
(***************************************************************************)
WindowInv ==
    win.pc = "open" =>
        /\ Cardinality(Painted) <= 1
        /\ (clk.pc = "draw" /\ ~ clk.shell_open) => Painted = {}

\* The device's own steps keep its types.
LEMMA DeviceStep ==
    ASSUME DeviceOK, UpdateBegins \/ Update \/ UNCHANGED <<rtc, ticks>>
    PROVE  DeviceOK'
<1>1. CASE UpdateBegins
  BY <1>1 DEF UpdateBegins, DeviceOK
<1>2. CASE UpdateRegister
  <2>1. PICK f \in Fields : rtc' = [rtc EXCEPT !.changed = f]
    BY <1>2 DEF UpdateRegister
  <2>2. f \in 0 .. 6 /\ rtc.uip /\ ticks' = ticks
    BY <1>2 DEF Fields, UpdateRegister
  <2> QED
    BY <2>1, <2>2 DEF DeviceOK
<1>3. CASE UpdateEnds
  <2>1. NextSecond(rtc.time) \in Times
    BY NextSecondOK DEF DeviceOK
  <2>2. rtc = [mode |-> rtc.mode, time |-> rtc.time, uip |-> rtc.uip, changed |-> rtc.changed]
    BY DEF DeviceOK
  <2>3. rtc' = [mode |-> rtc.mode, time |-> NextSecond(rtc.time), uip |-> FALSE, changed |-> 0]
    BY <1>3, <2>2 DEF UpdateEnds
  <2>4. ticks' \in 0 .. MaxTicks
    BY <1>3, RTCAssumption DEF UpdateEnds, DeviceOK
  <2> QED
    BY <2>1, <2>3, <2>4 DEF DeviceOK
<1>4. CASE UNCHANGED <<rtc, ticks>>
  BY <1>4 DEF DeviceOK
<1> QED
  BY <1>1, <1>2, <1>3, <1>4 DEF Update

\* The number of cells, once and for all.
LEMMA CellFacts ==
    /\ FaceCells \in Nat /\ BorderCells \in Nat /\ FaceCells > 0
    /\ 1 \in Face /\ 1 \in Cells /\ Face \subseteq Cells /\ Cells \subseteq Nat
    /\ IsFiniteSet(Face)
<1>1. FaceCells \in Nat /\ BorderCells \in Nat /\ FaceCells > 0 /\ 1 \in Int /\ FaceCells \in Int
  BY ClockAssumption
<1>2. IsFiniteSet(Face)
  BY <1>1, FS_Interval DEF Face
<1> QED
  BY <1>1, <1>2 DEF Face, Cells

\* Every step keeps the programs' types.
LEMMA ProgramStep == ProgramsOK /\ [ClockNext]_vars => ProgramsOK'
<1> SUFFICES ASSUME ProgramsOK, [ClockNext]_vars PROVE ProgramsOK'
  OBVIOUS
<1> USE DEF ScreenQuiet, DeviceQuiet
<1>1. CASE GetClockTime \/ Device \/ UNCHANGED vars
  BY <1>1 DEF GetClockTime, Device, vars, ProgramsOK
<1>2. CASE PrintTime
  BY <1>2 DEF PrintTime, ProgramsOK
<1>3. CASE TestOpen
  <2>1. clk = [pc |-> clk.pc, cell |-> clk.cell, shell_open |-> clk.shell_open]
    BY DEF ProgramsOK
  <2>2. clk' = IF shell_open THEN [pc |-> "read", cell |-> clk.cell, shell_open |-> clk.shell_open]
               ELSE [pc |-> "check", cell |-> 1, shell_open |-> FALSE]
    <3>1. CASE shell_open
      BY <1>3, <2>1, <3>1 DEF TestOpen
    <3>2. CASE ~ shell_open
      <4> DEFINE no == FALSE
      <4>1. clk' = [clk EXCEPT !.pc = "check", !.cell = 1, !.shell_open = no]
        BY <1>3, <3>2 DEF TestOpen
      <4> HIDE DEF no
      <4>2. clk' = [pc |-> "check", cell |-> 1, shell_open |-> no]
        BY <2>1, <4>1
      <4> QED
        BY <3>2, <4>2 DEF no
    <3> QED
      BY <3>1, <3>2
  <2>3. 1 \in 1 .. FaceCells + BorderCells + 1 /\ 1 \in Face
    BY CellFacts
  <2>4. clk' \in [pc : {"read", "test", "check", "draw", "border"},
                  cell : 1 .. FaceCells + BorderCells + 1, shell_open : BOOLEAN]
    BY <2>2, <2>3 DEF ProgramsOK
  <2>5. (clk'.pc \in {"check", "draw"} => clk'.cell \in Face) /\ clk'.pc # "border"
    BY <2>2, <2>3
  <2> QED
    BY <1>3, <2>4, <2>5 DEF TestOpen, ProgramsOK
<1>4. CASE CheckCell
  BY <1>4 DEF CheckCell, ProgramsOK
<1>5. CASE DrawCell
  <2>1. clk.cell \in Face /\ clk.cell \in Cells
    BY <1>5, CellFacts DEF DrawCell, ProgramsOK
  <2>2. clk.cell + 1 \in 1 .. FaceCells + BorderCells + 1
        /\ (clk.cell # FaceCells => clk.cell + 1 \in Face)
    BY <2>1, CellFacts DEF Face, Cells
  <2>3. clk = [pc |-> clk.pc, cell |-> clk.cell, shell_open |-> clk.shell_open]
    BY DEF ProgramsOK
  <2>4. clk' = [pc |-> IF clk.cell = FaceCells THEN "border" ELSE "check",
                cell |-> clk.cell + 1, shell_open |-> clk.shell_open]
    BY <1>5, <2>3 DEF DrawCell
  <2>5. clk' \in [pc : {"read", "test", "check", "draw", "border"},
                  cell : 1 .. FaceCells + BorderCells + 1, shell_open : BOOLEAN]
    BY <2>2, <2>4 DEF ProgramsOK
  <2>6. /\ clk'.pc \in {"check", "draw"} => clk'.cell \in Face
        /\ clk'.pc = "border" => clk'.cell > FaceCells
    BY <2>2, <2>4, CellFacts
  <2>7. cells' \in [Cells -> {"black", "art", "clock"}]
    BY <1>5, <2>1 DEF DrawCell, ProgramsOK
  <2> QED
    BY <1>5, <2>5, <2>6, <2>7 DEF DrawCell, ProgramsOK
<1>6. CASE DrawBorder
  <2>1. clk.cell \in Cells /\ clk.cell > FaceCells
    BY <1>6 DEF DrawBorder, ProgramsOK
  <2>2. clk.cell + 1 \in 1 .. FaceCells + BorderCells + 1 /\ clk.cell + 1 > FaceCells
    BY <2>1, CellFacts DEF Cells
  <2> QED
    BY <1>6, <2>1, <2>2 DEF DrawBorder, ProgramsOK
<1>7. CASE create_clock_returns
  <2>1. clk = [pc |-> clk.pc, cell |-> clk.cell, shell_open |-> clk.shell_open]
    BY DEF ProgramsOK
  <2>2. clk' = [pc |-> "read", cell |-> 1, shell_open |-> clk.shell_open]
    BY <1>7, <2>1 DEF create_clock_returns
  <2>3. 1 \in 1 .. FaceCells + BorderCells + 1
    BY CellFacts
  <2> QED
    BY <1>7, <2>2, <2>3 DEF create_clock_returns, ProgramsOK
<1>8. CASE OpenWindow \/ ClearWindow \/ CloseWindow
  <2>1. win = [pc |-> win.pc, cell |-> win.cell] /\ win.cell \in Cells
    BY DEF ProgramsOK
  <2>2. CASE OpenWindow
    BY <2>1, <2>2 DEF OpenWindow, ProgramsOK
  <2>3. CASE ClearWindow
    BY <2>1, <2>3 DEF ClearWindow, ProgramsOK
  <2>4. CASE CloseWindow
    BY <2>4, CellFacts DEF CloseWindow, ProgramsOK
  <2> QED
    BY <1>8, <2>2, <2>3, <2>4
<1>9. CASE PaintBackground
  BY <1>9, CellFacts DEF PaintBackground, ProgramsOK
<1> QED
  BY <1>1, <1>2, <1>3, <1>4, <1>5, <1>6, <1>7, <1>8, <1>9
  DEF ClockNext, ClockStep, ShellStep

\* Every step keeps the device's types.
LEMMA DeviceAlways == DeviceOK /\ [ClockNext]_vars => DeviceOK'
<1> SUFFICES ASSUME DeviceOK, [ClockNext]_vars PROVE DeviceOK'
  OBVIOUS
<1>1. UpdateBegins \/ Update \/ UNCHANGED <<rtc, ticks>>
  BY DEF ClockNext, ClockStep, ShellStep, GetClockTime, PrintTime, TestOpen, CheckCell, DrawCell,
     DrawBorder, create_clock_returns, OpenWindow, ClearWindow, CloseWindow, PaintBackground,
     Device, DeviceQuiet, vars, ReadStart, ReadStep, WaitForUpdate, ReadRegister, ReadAgain, ReadEnds
<1> QED
  BY <1>1, DeviceStep

(***************************************************************************)
(* Every step keeps the window clear of the face but for one cell.           *)
(***************************************************************************)
LEMMA WindowStep == ProgramsOK /\ WindowInv /\ [ClockNext]_vars => WindowInv'
<1> SUFFICES ASSUME ProgramsOK, WindowInv, [ClockNext]_vars, win'.pc = "open"
             PROVE  /\ Cardinality(Painted') <= 1
                    /\ (clk'.pc = "draw" /\ ~ clk'.shell_open) => Painted' = {}
  BY DEF WindowInv
<1> USE DEF ScreenQuiet, DeviceQuiet
<1>1. CASE ClearWindow
  <2>1. Painted' = {}
    BY <1>1, CellFacts DEF ClearWindow, Painted
  <2> QED
    BY <2>1, FS_EmptySet
<1>2. CASE OpenWindow \/ CloseWindow \/ PaintBackground
  BY <1>2 DEF OpenWindow, CloseWindow, PaintBackground, ProgramsOK
<1>3. ASSUME win.pc = "open", cells' = cells,
             (clk'.pc = "draw" /\ ~ clk'.shell_open) => (clk.pc = "draw" /\ ~ clk.shell_open)
      PROVE  /\ Cardinality(Painted') <= 1
             /\ (clk'.pc = "draw" /\ ~ clk'.shell_open) => Painted' = {}
  <2>1. Painted' = Painted
    BY <1>3 DEF Painted
  <2> QED
    BY <1>3, <2>1 DEF WindowInv
<1>4. CASE GetClockTime \/ PrintTime \/ TestOpen \/ CheckCell \/ create_clock_returns
           \/ Device \/ UNCHANGED vars
  <2>1. win.pc = "open" /\ cells' = cells /\ shell_open
    BY <1>4 DEF GetClockTime, PrintTime, TestOpen, CheckCell, create_clock_returns, Device, vars,
       ProgramsOK
  <2>2. (clk'.pc = "draw" /\ ~ clk'.shell_open) => (clk.pc = "draw" /\ ~ clk.shell_open)
    BY <1>4, <2>1 DEF GetClockTime, PrintTime, TestOpen, CheckCell, create_clock_returns, Device,
       vars, ProgramsOK
  <2> QED
    BY <1>3, <2>1, <2>2
<1>5. CASE DrawBorder
  <2>1. clk.cell \notin Face /\ win.pc = "open" /\ clk'.pc = "border"
    BY <1>5, CellFacts DEF DrawBorder, ProgramsOK, Face
  <2>2. Painted' = Painted
    BY <1>5, <2>1, CellFacts DEF DrawBorder, Painted, ProgramsOK
  <2> QED
    BY <2>1, <2>2 DEF WindowInv
<1>6. CASE DrawCell
  <2>1. clk.pc = "draw" /\ win.pc = "open" /\ clk'.pc # "draw" /\ clk.cell \in Face
    BY <1>6 DEF DrawCell, ProgramsOK
  <2>2. cells' = [cells EXCEPT ![clk.cell] = IF clk.shell_open THEN "black" ELSE "clock"]
    BY <1>6 DEF DrawCell
  <2>3. CASE ~ clk.shell_open
    <3>1. Painted' = {clk.cell}
      BY <2>1, <2>2, <2>3, CellFacts DEF WindowInv, Painted, ProgramsOK
    <3>2. Cardinality({clk.cell}) = 1
      BY FS_Singleton
    <3> QED
      BY <2>1, <3>1, <3>2
  <2>4. CASE clk.shell_open
    <3>1. Painted' \in SUBSET Painted
      BY <2>1, <2>2, <2>4, CellFacts DEF Painted, ProgramsOK
    <3>2. IsFiniteSet(Painted) /\ Cardinality(Painted) <= 1
      <4>1. Painted \in SUBSET Face
        BY DEF Painted
      <4> QED
        BY <2>1, <4>1, CellFacts, FS_Subset DEF WindowInv
    <3>3. IsFiniteSet(Painted') /\ Cardinality(Painted') <= Cardinality(Painted)
      BY <3>1, <3>2, FS_Subset
    <3>4. Cardinality(Painted') \in Nat /\ Cardinality(Painted) \in Nat
      BY <3>2, <3>3, FS_CardinalityType
    <3> QED
      BY <2>1, <3>2, <3>3, <3>4
  <2> QED
    BY <2>3, <2>4
<1> QED
  BY <1>1, <1>2, <1>4, <1>5, <1>6 DEF ClockNext, ClockStep, ShellStep

\* The first state: the device as it was set, the window open and black.
LEMMA ClockInitOK == ClockInit => DeviceOK /\ ProgramsOK /\ WindowInv
<1> SUFFICES ASSUME ClockInit PROVE DeviceOK /\ ProgramsOK /\ WindowInv
  OBVIOUS
<1>1. DeviceOK
  BY RTCAssumption DEF ClockInit, RTCInit, DeviceOK
<1>2. ProgramsOK
  BY CellFacts, ClockAssumption DEF ClockInit, ProgramsOK
<1>3. Painted = {}
  BY CellFacts DEF ClockInit, Painted
<1> QED
  BY <1>1, <1>2, <1>3, FS_EmptySet DEF ClockInit, WindowInv

\* The invariant that the theorems about the window rest on.
LEMMA WindowAlways == ClockSpec => [](DeviceOK /\ ProgramsOK /\ WindowInv)
<1>1. (DeviceOK /\ ProgramsOK /\ WindowInv) /\ [ClockNext]_vars
        => (DeviceOK /\ ProgramsOK /\ WindowInv)'
  BY DeviceAlways, ProgramStep, WindowStep
<1> QED
  BY <1>1, ClockInitOK, PTL DEF ClockSpec

(***************************************************************************)
(* The screen, the two programs and the device keep their types.             *)
(***************************************************************************)
THEOREM ClockTypes == ClockSpec => []ClockTypeOK
<1>1. DeviceOK /\ ProgramsOK /\ WindowInv => ClockTypeOK
  BY DEF DeviceOK, ProgramsOK, ClockTypeOK, Times
<1> QED
  BY <1>1, WindowAlways, PTL

(***************************************************************************)
(* However the clock's calls fall among the shell's, at most one cell of a face of  *)
(* any size is drawn over an open window.                                    *)
(***************************************************************************)
THEOREM Spared == ClockSpec => []FaceSpared
<1>1. DeviceOK /\ ProgramsOK /\ WindowInv => FaceSpared
  BY DEF WindowInv, FaceSpared, Painted
<1> QED
  BY <1>1, WindowAlways, PTL
-----------------------------------------------------------------------------
(***************************************************************************)
(* read_rtc.  Shown is the time whose second the device shows, half way through an *)
(* update the coming one, and Passed counts the seconds up to it.              *)
(***************************************************************************)
Shown  == IF rtc.changed > 0 THEN NextSecond(rtc.time) ELSE rtc.time
Passed == IF rtc.changed > 0 THEN ticks + 1 ELSE ticks

\* A call of less than a minute.  A longer one may meet the same second in another minute.
BriefCall == rd.pc # "idle" => ticks - rd.begun < 59

\* On a twelve-hour device, neither noon nor midnight: read_rtc gives 0 for the one, 12 for the other.
HourKept == rtc.mode.hours24 \/ \A t \in rd.seen : t[3] % 12 # 0

Registers(v, t, from, to) == \A f \in from .. to : v[f] = Encode(rtc.mode, f, t[f])

(***************************************************************************)
(* What is known of a pass, this one or the last, whose registers 1 .. n are in v: *)
(* its second was read d seconds ago, and if it still is the second shown and not 0,  *)
(* then all that was read is of one time, for no other register changed meanwhile.    *)
(* The second 0 comes with the changes of the others, which may come later.        *)
(***************************************************************************)
Pass(v, n) ==
    \E s \in 0 .. 59, d \in 0 .. Passed - rd.begun :
        /\ v[1] = Encode(rtc.mode, 1, s)
        /\ Shown[1] = (s + d) % 60
        /\ (d = 0 /\ s # 0) => Registers(v, Shown, 2, n)
        \* the pass to come waited for the end of an update
        /\ (rd.pc = "registers" /\ rd.next = 1 /\ d = 0) => rtc.changed = 0

\* The device still shows the minute that began at t.
SameMinute(t) ==
    /\ \A f \in 2 .. 5 : Shown[f] = t[f] /\ rtc.time[f] = t[f]
    /\ Shown[1] <= Passed - rd.begun

\* Two passes that agree on the second: the first of them is right, or at second 0 the second.
Agreed(n) ==
    \E t \in rd.seen :
        /\ rd.last[1] = Encode(rtc.mode, 1, t[1])
        /\ t[1] # 0 => Registers(rd.last, t, 2, 5)
        /\ t[1] = 0 => SameMinute(t) /\ Registers(rd.cur, t, 2, n)

ReadTypeOK ==
    /\ rd = [pc |-> rd.pc, next |-> rd.next, cur |-> rd.cur, last |-> rd.last,
             seen |-> rd.seen, begun |-> rd.begun]
    /\ rd.pc \in {"wait", "registers", "returned"}
    /\ rd.next \in 1 .. 7
    /\ rd.cur = [f \in Fields |-> rd.cur[f]]
    /\ rd.begun \in 0 .. ticks
    /\ rd.seen \in SUBSET Times /\ rtc.time \in rd.seen
    /\ (rd.pc = "registers" /\ ~ FirstPass) => rd.next <= 6

PassesOK ==
    /\ (rd.pc = "registers" /\ rd.next > 1) => Pass(rd.cur, rd.next - 1)
    /\ (~ FirstPass /\ (rd.pc = "wait" \/ (rd.pc = "registers" /\ rd.next = 1))) => Pass(rd.last, 5)
    /\ (~ FirstPass /\ rd.pc = "registers" /\ rd.next > 1 /\ rd.cur[1] = rd.last[1])
            => Agreed(rd.next - 1)
    /\ rd.pc = "returned" => (HourKept => ReadConsistent)

ReadInv == rd = NoRead \/ (ReadTypeOK /\ (BriefCall => PassesOK))
\* What the registers of two digits hold.
LEMMA EncodeDigits ==
    ASSUME NEW mode, NEW f \in Fields, f # 3, NEW v \in 0 .. 99
    PROVE  Encode(mode, f, v) = IF mode.binary THEN v ELSE Bcd(v)
BY DEF Encode, Bcd

\* From the digits back to the number.
LEMMA BcdBack ==
    ASSUME NEW v \in 0 .. 99
    PROVE  /\ Bcd(v) \in 0 .. 153
           /\ Bcd(v) % 16 = v % 10 /\ Bcd(v) \div 16 = v \div 10
           /\ (Bcd(v) % 16) + (Bcd(v) \div 16) * 10 = v
<1> DEFINE tens == v \div 10
           unit == v % 10
<1>1. tens \in 0 .. 9 /\ unit \in 0 .. 9 /\ v = 10 * tens + unit
  OBVIOUS
<1>2. Bcd(v) = 16 * tens + unit
  BY DEF Bcd
<1> HIDE DEF tens, unit
<1>3. Bcd(v) % 16 = unit /\ Bcd(v) \div 16 = tens
  BY <1>1, <1>2
<1> QED
  BY <1>1, <1>2, <1>3 DEF tens, unit

\* Two seconds that read the same are the same.
LEMMA SecondInjective ==
    ASSUME NEW mode, NEW a \in 0 .. 59, NEW b \in 0 .. 59, Encode(mode, 1, a) = Encode(mode, 1, b)
    PROVE  a = b
<1>1. \A v \in 0 .. 59 : Encode(mode, 1, v) = IF mode.binary THEN v ELSE Bcd(v)
  BY EncodeDigits DEF Fields
<1>2. (Bcd(a) % 16) + (Bcd(a) \div 16) * 10 = a /\ (Bcd(b) % 16) + (Bcd(b) \div 16) * 10 = b
  <2>1. a \in 0 .. 99 /\ b \in 0 .. 99
    OBVIOUS
  <2> QED
    BY <2>1, BcdBack
<1> QED
  BY <1>1, <1>2

\* The conversion at the end of read_rtc gives back the time, but for noon and midnight.
LEMMA ConvertBack ==
    ASSUME NEW mode \in Modes, NEW t \in Times, NEW cur, mode.hours24 \/ t[3] % 12 # 0,
           \A f \in 1 .. 5 : cur[f] = Encode(mode, f, t[f])
    PROVE  \A f \in 1 .. 5 : Convert(mode, cur)[f] = t[f]
<1>1. /\ t[1] \in 0 .. 59 /\ t[2] \in 0 .. 59 /\ t[3] \in 0 .. 23 /\ t[4] \in 0 .. 99 /\ t[5] \in 0 .. 99
      /\ t[1] \in 0 .. 99 /\ t[2] \in 0 .. 99
  BY DEF Times
<1> DEFINE bin == [f \in Fields |-> IF mode.binary THEN cur[f] ELSE FromBcd(cur[f], f)]
<1>2. \A f \in {1, 2, 4, 5} : bin[f] = t[f]
  <2> SUFFICES ASSUME NEW f \in {1, 2, 4, 5} PROVE bin[f] = t[f]
    OBVIOUS
  <2>1. t[f] \in 0 .. 99 /\ f \in Fields /\ f # 3 /\ f \in 1 .. 5
    BY <1>1 DEF Fields
  <2>2. cur[f] = IF mode.binary THEN t[f] ELSE Bcd(t[f])
    BY <2>1, EncodeDigits
  <2>3. (Bcd(t[f]) % 16) + (Bcd(t[f]) \div 16) * 10 = t[f]
    BY <2>1, BcdBack
  <2> QED
    BY <2>1, <2>2, <2>3 DEF FromBcd
<1> DEFINE h == t[3]
           n == IF mode.hours24 THEN h ELSE IF h % 12 = 0 THEN 12 ELSE h % 12
           pm == IF ~ mode.hours24 /\ h >= 12 THEN 128 ELSE 0
<1>3. n \in 0 .. 23 /\ n \in 0 .. 99 /\ pm \in {0, 128} /\ 3 \in Fields /\ (~ mode.hours24 => n \in 1 .. 12)
  BY <1>1 DEF Fields
<1>4. bin[3] = pm + n
  <2>1. cur[3] = pm + (IF mode.binary THEN n ELSE Bcd(n))
    BY DEF Encode
  <2>2. Bcd(n) \in 0 .. 35 /\ (Bcd(n) % 16) + (Bcd(n) \div 16) * 10 = n
    BY <1>3, BcdBack DEF Bcd
  <2> HIDE DEF n, pm
  <2>3. CASE mode.binary
    BY <1>3, <2>1, <2>3
  <2>4. CASE ~ mode.binary
    <3> DEFINE b == Bcd(n)
    <3>1. cur[3] = pm + b
      BY <2>1, <2>4
    <3>2. bin[3] = ((cur[3] % 16) + ((cur[3] % 128) \div 16) * 10) + (cur[3] - (cur[3] % 128))
      BY <1>3, <2>4 DEF FromBcd
    <3> HIDE DEF b, bin
    <3>3. b \in 0 .. 35 /\ (b % 16) + (b \div 16) * 10 = n
      BY <2>2 DEF b
    <3>4. CASE pm = 0
      <4>1. cur[3] = b /\ b % 128 = b /\ b - b = 0
        BY <3>1, <3>3, <3>4
      <4> QED
        BY <1>3, <3>2, <3>3, <3>4, <4>1
    <3>5. CASE pm = 128
      <4>1. cur[3] % 128 = b /\ cur[3] % 16 = b % 16 /\ cur[3] - b = 128
        BY <3>1, <3>3, <3>5
      <4>2. bin[3] = ((b % 16) + (b \div 16) * 10) + 128
        BY <3>2, <4>1
      <4>3. bin[3] = n + 128
        BY <3>3, <4>2
      <4> QED
        BY <1>3, <3>5, <4>3
    <3> QED
      BY <1>3, <3>4, <3>5
  <2> QED
    BY <2>3, <2>4
<1>5. Convert(mode, cur) = IF ~ mode.hours24 /\ bin[3] >= 128
                           THEN [bin EXCEPT ![3] = ((@ % 128) + 12) % 24] ELSE bin
  BY DEF Convert
<1>6. bin = [f \in Fields |-> bin[f]]
  OBVIOUS
<1>7. Convert(mode, cur)[3] = h
  <2>1. CASE mode.hours24
    BY <1>1, <1>4, <1>5, <2>1
  <2>2. CASE ~ mode.hours24 /\ h >= 12
    <3>1. n = h - 12 /\ pm = 128 /\ n \in 1 .. 11
      BY <1>1, <2>2
    <3> HIDE DEF bin, n, pm, h
    <3>2. bin[3] >= 128 /\ ((bin[3] % 128) + 12) % 24 = n + 12
      BY <1>4, <3>1
    <3>3. Convert(mode, cur)[3] = ((bin[3] % 128) + 12) % 24
      BY <1>3, <1>5, <1>6, <2>2, <3>2
    <3> QED
      BY <1>1, <3>1, <3>2, <3>3 DEF h
  <2>3. CASE ~ mode.hours24 /\ h < 12
    <3>1. n = h /\ pm = 0 /\ n \in 1 .. 11
      BY <1>1, <2>3
    <3> HIDE DEF bin, n, pm, h
    <3> QED
      BY <1>4, <1>5, <3>1
  <2> QED
    BY <1>1, <2>1, <2>2, <2>3
<1>8. \A f \in {1, 2, 4, 5} : Convert(mode, cur)[f] = bin[f]
  <2> HIDE DEF bin
  <2> QED
    BY <1>5, <1>6 DEF Fields
<1> HIDE DEF bin
<1> QED
  BY <1>2, <1>7, <1>8

\* The steps of the device, as read_rtc sees them.
LEMMA DeviceShows ==
    ASSUME DeviceOK, UpdateBegins \/ Update
    PROVE  /\ rtc'.mode = rtc.mode
           /\ \/ /\ Shown' = Shown /\ Passed' = Passed
                 /\ rtc'.changed = rtc.changed \/ rtc'.changed = 0 \/ rtc.changed > 0
                 /\ rtc'.time = rtc.time \/ rtc'.time = Shown
                 /\ UpdateEnds \/ (rd' = rd /\ rtc'.time = rtc.time /\ ticks' = ticks)
              \/ /\ rtc.changed = 0 /\ rtc'.changed > 0
                 /\ Shown = rtc.time /\ rtc'.time = rtc.time /\ Shown' = NextSecond(rtc.time)
                 /\ Passed = ticks /\ Passed' = ticks + 1 /\ ticks' = ticks /\ rd' = rd
<1>0. /\ rtc = [mode |-> rtc.mode, time |-> rtc.time, uip |-> rtc.uip, changed |-> rtc.changed]
      /\ rtc.changed \in 0 .. 6 /\ rtc.time \in Times
  BY DEF DeviceOK
<1>1. CASE UpdateBegins
  <2>1. rtc' = [mode |-> rtc.mode, time |-> rtc.time, uip |-> TRUE, changed |-> rtc.changed]
    BY <1>0, <1>1 DEF UpdateBegins
  <2>2. ticks' = ticks /\ rd' = rd
    BY <1>1 DEF UpdateBegins
  <2> QED
    BY <2>1, <2>2 DEF Shown, Passed
<1>2. CASE UpdateRegister
  <2>1. PICK f \in Fields : rtc' = [rtc EXCEPT !.changed = f]
    BY <1>2 DEF UpdateRegister
  <2>2. rtc' = [mode |-> rtc.mode, time |-> rtc.time, uip |-> rtc.uip, changed |-> f] /\ f > 0
    BY <1>0, <2>1 DEF Fields
  <2>3. ticks' = ticks /\ rd' = rd
    BY <1>2 DEF UpdateRegister
  <2>4. CASE rtc.changed = 0
    BY <2>2, <2>3, <2>4 DEF Shown, Passed
  <2>5. CASE rtc.changed > 0
    BY <2>2, <2>3, <2>5 DEF Shown, Passed
  <2> QED
    BY <1>0, <2>4, <2>5
<1>3. CASE UpdateEnds
  <2>1. rtc' = [mode |-> rtc.mode, time |-> NextSecond(rtc.time), uip |-> FALSE, changed |-> 0]
    BY <1>0, <1>3 DEF UpdateEnds
  <2>2. rtc.changed > 0
    <3>1. 1 \in Fields /\ NextSecond(rtc.time)[1] = (rtc.time[1] + 1) % 60
      BY <1>0, NextSecondOK DEF Fields
    <3>2. NextSecond(rtc.time)[1] # rtc.time[1]
      BY <1>0, <3>1 DEF Times
    <3> QED
      BY <1>0, <1>3, <3>1, <3>2 DEF UpdateEnds, Changes
  <2>3. ticks' = ticks + 1
    BY <1>3 DEF UpdateEnds
  <2> QED
    BY <1>3, <2>1, <2>2, <2>3 DEF Shown, Passed
<1> QED
  BY <1>1, <1>2, <1>3 DEF Update

\* The time that the device shows is a time.
LEMMA ShownOK ==
    ASSUME DeviceOK
    PROVE  /\ Shown \in Times /\ Shown[1] \in 0 .. 59 /\ rtc.time[1] \in 0 .. 59
           /\ Passed \in Nat /\ ticks \in Nat /\ Passed >= ticks /\ Passed <= ticks + 1
<1>1. rtc.time \in Times /\ ticks \in Nat
  BY RTCAssumption DEF DeviceOK
<1>2. NextSecond(rtc.time) \in Times
  BY <1>1, NextSecondOK
<1>3. Shown \in Times
  BY <1>1, <1>2 DEF Shown
<1> QED
  BY <1>1, <1>3 DEF Times, Passed

\* A step that does not move the second keeps what is known of the passes.
LEMMA QuietKeeps ==
    ASSUME DeviceOK, PassesOK,
           rtc'.mode = rtc.mode, Shown' = Shown, Passed' = Passed,
           rtc'.changed = rtc.changed \/ rtc'.changed = 0 \/ rtc.changed > 0,
           rtc'.time = rtc.time \/ rtc'.time = Shown,
           rd'.pc = rd.pc, rd'.next = rd.next, rd'.cur = rd.cur, rd'.last = rd.last,
           rd'.begun = rd.begun, rd.seen \in SUBSET rd'.seen
    PROVE  PassesOK'
<1>0. rtc.changed \in 0 .. 6
  BY DEF DeviceOK
<1>1. ASSUME rd.pc = "registers", rd.next > 1 PROVE Pass(rd.cur, rd.next - 1)'
  <2>1. Pass(rd.cur, rd.next - 1)
    BY <1>1 DEF PassesOK
  <2> QED
    BY <1>0, <1>1, <2>1 DEF Pass, Registers
<1>2. ASSUME ~ FirstPass, rd.pc = "wait" \/ (rd.pc = "registers" /\ rd.next = 1)
      PROVE  Pass(rd.last, 5)'
  <2>1. Pass(rd.last, 5)
    BY <1>2 DEF PassesOK
  <2> QED
    BY <1>0, <1>2, <2>1 DEF Pass, Registers
<1>3. ASSUME ~ FirstPass, rd.pc = "registers", rd.next > 1, rd.cur[1] = rd.last[1]
      PROVE  Agreed(rd.next - 1)'
  <2>1. Agreed(rd.next - 1)
    BY <1>3 DEF PassesOK
  <2>2. PICK t \in rd.seen :
          /\ rd.last[1] = Encode(rtc.mode, 1, t[1])
          /\ t[1] # 0 => Registers(rd.last, t, 2, 5)
          /\ t[1] = 0 => SameMinute(t) /\ Registers(rd.cur, t, 2, rd.next - 1)
    BY <2>1 DEF Agreed
  <2>3. t \in rd'.seen
    BY <2>2
  <2>4. t[1] # 0 => Registers(rd.last, t, 2, 5)'
    BY <2>2 DEF Registers
  <2>5. t[1] = 0 => SameMinute(t)' /\ Registers(rd.cur, t, 2, rd.next - 1)'
    BY <2>2 DEF Registers, SameMinute
  <2> QED
    BY <2>2, <2>3, <2>4, <2>5 DEF Agreed
<1>4. ASSUME rd.pc = "returned", HourKept' PROVE ReadConsistent'
  <2>1. HourKept
    BY <1>4 DEF HourKept
  <2> QED
    BY <1>4, <2>1 DEF PassesOK, ReadConsistent
<1> QED
  BY <1>1, <1>2, <1>3, <1>4 DEF PassesOK, FirstPass

\* The second moves on: within a minute it does not come back, and no minute ends unseen.
LEMMA AdvanceKeeps ==
    ASSUME DeviceOK, ReadTypeOK, BriefCall, PassesOK,
           rtc'.mode = rtc.mode, rtc.changed = 0, rtc'.changed > 0,
           Shown = rtc.time, rtc'.time = rtc.time, Shown' = NextSecond(rtc.time),
           Passed = ticks, Passed' = ticks + 1, ticks' = ticks, rd' = rd
    PROVE  PassesOK'
<1>0. /\ ticks - rd.begun <= 58 /\ ticks \in Nat /\ rd.begun \in 0 .. ticks
      /\ rtc.time \in Times /\ rtc.time[1] \in 0 .. 59
  BY ShownOK DEF BriefCall, ReadTypeOK, DeviceOK
<1>1. /\ Shown'[1] = (rtc.time[1] + 1) % 60
      /\ rtc.time[1] # 59 => \A f \in 2 .. 5 : Shown'[f] = rtc.time[f]
  BY <1>0, NextSecondOK
<1>2. ASSUME NEW v, NEW n, Pass(v, n)
      PROVE  \E s \in 0 .. 59, d \in 1 .. Passed' - rd.begun :
                v[1] = Encode(rtc.mode, 1, s) /\ Shown'[1] = (s + d) % 60
  <2>1. PICK s \in 0 .. 59, d \in 0 .. Passed - rd.begun :
          v[1] = Encode(rtc.mode, 1, s) /\ rtc.time[1] = (s + d) % 60
    BY <1>2 DEF Pass
  <2>2. d + 1 \in 1 .. Passed' - rd.begun
    BY <1>0, <2>1
  <2>3. \A a \in 0 .. 118 : ((a % 60) + 1) % 60 = (a + 1) % 60
    OBVIOUS
  <2>4. s + d \in 0 .. 118 /\ s + (d + 1) = (s + d) + 1
    BY <1>0, <2>1
  <2>5. Shown'[1] = (s + (d + 1)) % 60
    BY <1>1, <2>1, <2>3, <2>4
  <2> QED
    BY <2>1, <2>2, <2>5
<1>3. ASSUME rd.pc = "registers", rd.next > 1 PROVE Pass(rd.cur, rd.next - 1)'
  <2>1. Pass(rd.cur, rd.next - 1)
    BY <1>3 DEF PassesOK
  <2>2. PICK s \in 0 .. 59, d \in 1 .. Passed' - rd.begun :
          rd.cur[1] = Encode(rtc.mode, 1, s) /\ Shown'[1] = (s + d) % 60
    BY <1>2, <2>1
  <2>3. d \in 0 .. Passed' - rd.begun /\ d # 0
    BY <2>2
  <2> QED
    BY <2>2, <2>3 DEF Pass
<1>4. ASSUME ~ FirstPass, rd.pc = "wait" \/ (rd.pc = "registers" /\ rd.next = 1)
      PROVE  Pass(rd.last, 5)'
  <2>1. Pass(rd.last, 5)
    BY <1>4 DEF PassesOK
  <2>2. PICK s \in 0 .. 59, d \in 1 .. Passed' - rd.begun :
          rd.last[1] = Encode(rtc.mode, 1, s) /\ Shown'[1] = (s + d) % 60
    BY <1>2, <2>1
  <2>3. d \in 0 .. Passed' - rd.begun /\ d # 0
    BY <2>2
  <2> QED
    BY <2>2, <2>3 DEF Pass
<1>5. ASSUME ~ FirstPass, rd.pc = "registers", rd.next > 1, rd.cur[1] = rd.last[1]
      PROVE  Agreed(rd.next - 1)'
  <2>1. PICK t \in rd.seen :
          /\ rd.last[1] = Encode(rtc.mode, 1, t[1])
          /\ t[1] # 0 => Registers(rd.last, t, 2, 5)
          /\ t[1] = 0 => SameMinute(t) /\ Registers(rd.cur, t, 2, rd.next - 1)
    BY <1>5 DEF PassesOK, Agreed
  <2>2. t[1] # 0 => Registers(rd.last, t, 2, 5)'
    BY <2>1 DEF Registers
  <2>3. ASSUME t[1] = 0 PROVE SameMinute(t)'
    <3>1. /\ \A f \in 2 .. 5 : rtc.time[f] = t[f]
          /\ rtc.time[1] <= ticks - rd.begun
      BY <2>1, <2>3 DEF SameMinute
    <3>2. rtc.time[1] # 59 /\ Shown'[1] = rtc.time[1] + 1
      BY <1>0, <1>1, <3>1
    <3> QED
      BY <1>0, <1>1, <3>1, <3>2 DEF SameMinute
  <2>4. t[1] = 0 => Registers(rd.cur, t, 2, rd.next - 1)'
    BY <2>1 DEF Registers
  <2> QED
    BY <2>1, <2>2, <2>3, <2>4 DEF Agreed
<1>6. rd.pc = "returned" => (HourKept => ReadConsistent)'
  BY DEF PassesOK, HourKept, ReadConsistent
<1> QED
  BY <1>3, <1>4, <1>5, <1>6 DEF PassesOK, FirstPass

\* A register as it is read: of the time shown, or of the time before the update.
LEMMA RegisterRead ==
    ASSUME DeviceOK, NEW f \in Fields
    PROVE  /\ f = 1 => get_RTC_register(f) = Encode(rtc.mode, f, Shown[f])
           /\ get_RTC_register(f) \in {Encode(rtc.mode, f, Shown[f]), Encode(rtc.mode, f, rtc.time[f])}
           /\ Shown[1] # 0 => get_RTC_register(f) = Encode(rtc.mode, f, Shown[f])
<1>0. rtc.changed \in 0 .. 6 /\ rtc.time \in Times /\ f \in 1 .. 6
  BY DEF DeviceOK, Fields
<1>1. CASE rtc.changed = 0
  BY <1>0, <1>1 DEF get_RTC_register, Shown
<1>2. CASE rtc.changed > 0 /\ f <= rtc.changed
  BY <1>0, <1>2 DEF get_RTC_register, Shown
<1>3. CASE rtc.changed > 0 /\ f > rtc.changed
  <2>1. f \in 2 .. 6 /\ Shown = NextSecond(rtc.time)
    BY <1>0, <1>3 DEF Shown
  <2>2. Shown[1] # 0 => rtc.time[1] # 59
    BY <1>0, <2>1, NextSecondOK
  <2>3. Shown[1] # 0 => Shown[f] = rtc.time[f]
    BY <1>0, <2>1, <2>2, NextSecondOK
  <2>4. get_RTC_register(f) = Encode(rtc.mode, f, rtc.time[f])
    BY <1>0, <1>3 DEF get_RTC_register
  <2> QED
    BY <2>1, <2>3, <2>4
<1> QED
  BY <1>0, <1>1, <1>2, <1>3

\* read_rtc reads a register.
LEMMA RegisterKeeps ==
    ASSUME DeviceOK, ReadTypeOK, BriefCall, PassesOK, ReadRegister
    PROVE  PassesOK'
<1>0. /\ rd.pc = "registers" /\ rd.next <= LastField /\ rtc' = rtc /\ ticks' = ticks
      /\ rd' = [rd EXCEPT !.cur[rd.next] = get_RTC_register(rd.next), !.next = rd.next + 1]
  BY DEF ReadRegister
<1> DEFINE k   == rd.next
           reg == get_RTC_register(k)
<1>1. k \in Fields /\ k \in 1 .. 6 /\ (~ FirstPass => k \in 1 .. 5)
  BY <1>0 DEF LastField, ReadTypeOK, Fields
<1>2. /\ k = 1 => reg = Encode(rtc.mode, k, Shown[k])
      /\ reg \in {Encode(rtc.mode, k, Shown[k]), Encode(rtc.mode, k, rtc.time[k])}
      /\ Shown[1] # 0 => reg = Encode(rtc.mode, k, Shown[k])
  BY <1>1, RegisterRead
<1> HIDE DEF reg
<1>3. rd' = [pc |-> "registers", next |-> k + 1, cur |-> [rd.cur EXCEPT ![k] = reg],
             last |-> rd.last, seen |-> rd.seen, begun |-> rd.begun]
  <2>1. rd = [pc |-> rd.pc, next |-> rd.next, cur |-> rd.cur, last |-> rd.last,
              seen |-> rd.seen, begun |-> rd.begun]
    BY DEF ReadTypeOK
  <2>2. rd' = [rd EXCEPT !.cur = [rd.cur EXCEPT ![k] = reg], !.next = k + 1]
    BY <1>0 DEF reg
  <2> DEFINE c == [rd.cur EXCEPT ![k] = reg]
  <2> HIDE DEF c
  <2>3. rd' = [rd EXCEPT !.cur = c, !.next = k + 1]
    BY <2>2 DEF c
  <2>4. rd' = [pc |-> rd.pc, next |-> k + 1, cur |-> c, last |-> rd.last,
              seen |-> rd.seen, begun |-> rd.begun]
    BY <2>1, <2>3
  <2> QED
    BY <1>0, <2>4 DEF c
<1>4. /\ rd'.cur[k] = reg
      /\ \A f \in Fields : f # k => rd'.cur[f] = rd.cur[f]
  <2>1. rd.cur = [f \in Fields |-> rd.cur[f]]
    BY DEF ReadTypeOK
  <2>2. rd'.cur = [rd.cur EXCEPT ![k] = reg]
    BY <1>3
  <2> QED
    BY <1>1, <2>1, <2>2
<1>5. /\ Shown' = Shown /\ Passed' = Passed /\ (FirstPass' <=> FirstPass)
      /\ rd'.pc = "registers" /\ rd'.next = k + 1 /\ rd'.last = rd.last
      /\ rd'.seen = rd.seen /\ rd'.begun = rd.begun
  BY <1>0, <1>3 DEF Shown, Passed, FirstPass
<1>6. Shown[1] \in 0 .. 59 /\ Passed - rd.begun \in Nat
  BY ShownOK DEF ReadTypeOK
<1>7. Pass(rd.cur, rd.next - 1)'
  <2>1. CASE k = 1
    <3>1. rd'.cur[1] = Encode(rtc.mode, 1, Shown[1])
      BY <1>2, <1>4, <2>1
    <3>2. 0 \in 0 .. Passed - rd.begun /\ Shown[1] = (Shown[1] + 0) % 60
      BY <1>6
    <3>3. Registers(rd.cur, Shown, 2, rd.next - 1)'
      BY <1>1, <1>5, <2>1 DEF Registers
    <3> DEFINE s == Shown[1]
    <3>4. /\ rd'.cur[1] = Encode(rtc'.mode, 1, s)
          /\ Shown'[1] = (s + 0) % 60
          /\ (0 = 0 /\ s # 0) => Registers(rd.cur, Shown, 2, rd.next - 1)'
          /\ rd'.next # 1 /\ s \in 0 .. 59 /\ 0 \in 0 .. Passed' - rd'.begun
      BY <1>0, <1>1, <1>5, <1>6, <2>1, <3>1, <3>2, <3>3
    <3> HIDE DEF s
    <3> QED
      BY <3>4 DEF Pass
  <2>2. CASE k > 1
    <3>1. PICK s \in 0 .. 59, d \in 0 .. Passed - rd.begun :
            /\ rd.cur[1] = Encode(rtc.mode, 1, s)
            /\ Shown[1] = (s + d) % 60
            /\ (d = 0 /\ s # 0) => Registers(rd.cur, Shown, 2, k - 1)
      BY <1>0, <1>1, <2>2 DEF PassesOK, Pass
    <3>2. rd'.cur[1] = Encode(rtc.mode, 1, s)
      BY <1>1, <1>4, <2>2, <3>1 DEF Fields
    <3>3. ASSUME d = 0, s # 0 PROVE Registers(rd.cur, Shown, 2, rd.next - 1)'
      <4>1. Shown[1] # 0
        BY <3>1, <3>3
      <4>2. reg = Encode(rtc.mode, k, Shown[k])
        BY <1>2, <4>1
      <4>3. \A f \in 2 .. k : rd'.cur[f] = Encode(rtc.mode, f, Shown[f])
        BY <1>1, <1>4, <3>1, <3>3, <4>2 DEF Registers, Fields
      <4>4. rd'.next - 1 = k
        BY <1>1, <1>5
      <4> QED
        BY <1>0, <1>5, <4>3, <4>4 DEF Registers
    <3>4. rd'.next # 1
      BY <1>1, <1>5
    <3> QED
      BY <1>0, <1>5, <3>1, <3>2, <3>3, <3>4 DEF Pass
  <2> QED
    BY <1>1, <2>1, <2>2
<1>8. ASSUME ~ FirstPass, rd'.cur[1] = rd.last[1] PROVE Agreed(rd.next - 1)'
  <2>1. CASE k = 1
    <3>1. PICK s \in 0 .. 59, d \in 0 .. Passed - rd.begun :
            /\ rd.last[1] = Encode(rtc.mode, 1, s)
            /\ Shown[1] = (s + d) % 60
            /\ (d = 0 /\ s # 0) => Registers(rd.last, Shown, 2, 5)
            /\ d = 0 => rtc.changed = 0
      BY <1>0, <1>8, <2>1 DEF PassesOK, Pass
    <3>2. s = Shown[1]
      BY <1>2, <1>4, <1>6, <1>8, <2>1, <3>1, SecondInjective
    <3>3. d = 0
      <4>1. ticks - rd.begun <= 58 /\ ticks \in Nat /\ rd.begun \in 0 .. ticks
        BY <1>0, ShownOK DEF BriefCall, ReadTypeOK
      <4>2. Passed \in Nat /\ Passed <= ticks + 1
        BY ShownOK
      <4>3. d \in 0 .. 59
        BY <3>1, <4>1, <4>2
      <4>4. \A a, b \in 0 .. 59 : a = (a + b) % 60 => b = 0
        OBVIOUS
      <4> QED
        BY <3>1, <3>2, <4>3, <4>4
    <3>4. Shown = rtc.time /\ rtc.time \in rd'.seen
      BY <1>5, <3>1, <3>3 DEF Shown, ReadTypeOK
    <3> DEFINE t == rtc.time
    <3>5. rd'.last[1] = Encode(rtc'.mode, 1, t[1])
      BY <1>0, <1>5, <3>1, <3>2, <3>4
    <3>6. t[1] # 0 => Registers(rd.last, t, 2, 5)'
      BY <1>0, <1>5, <3>1, <3>2, <3>3, <3>4 DEF Registers
    <3>7. t[1] = 0 => SameMinute(t)'
      BY <1>0, <1>5, <1>6, <3>4 DEF SameMinute
    <3>8. Registers(rd.cur, t, 2, rd.next - 1)'
      BY <1>1, <1>5, <2>1 DEF Registers
    <3> QED
      BY <1>0, <3>4, <3>5, <3>6, <3>7, <3>8 DEF Agreed
  <2>2. CASE k > 1
    <3>1. rd.cur[1] = rd.last[1]
      BY <1>1, <1>4, <1>8, <2>2 DEF Fields
    <3>2. PICK t \in rd.seen :
            /\ rd.last[1] = Encode(rtc.mode, 1, t[1])
            /\ t[1] # 0 => Registers(rd.last, t, 2, 5)
            /\ t[1] = 0 => SameMinute(t) /\ Registers(rd.cur, t, 2, k - 1)
      BY <1>0, <1>1, <1>8, <2>2, <3>1 DEF PassesOK, Agreed
    <3>3. t[1] # 0 => Registers(rd.last, t, 2, 5)'
      BY <1>0, <1>5, <3>2 DEF Registers
    <3>4. t[1] = 0 => SameMinute(t)'
      BY <1>0, <1>5, <3>2 DEF SameMinute
    <3>5. ASSUME t[1] = 0 PROVE Registers(rd.cur, t, 2, rd.next - 1)'
      <4>1. Shown[k] = t[k] /\ rtc.time[k] = t[k]
        BY <1>1, <1>8, <2>2, <3>2, <3>5 DEF SameMinute
      <4>2. reg = Encode(rtc.mode, k, t[k])
        BY <1>2, <4>1
      <4>3. \A f \in 2 .. k : rd'.cur[f] = Encode(rtc.mode, f, t[f])
        BY <1>1, <1>4, <3>2, <3>5, <4>2 DEF Registers, Fields
      <4>4. rd'.next - 1 = k
        BY <1>1, <1>5
      <4> QED
        BY <1>0, <1>5, <4>3, <4>4 DEF Registers
    <3> QED
      BY <1>0, <1>5, <3>2, <3>3, <3>4, <3>5 DEF Agreed
  <2> QED
    BY <1>1, <2>1, <2>2
<1>9. rd'.next > 1
  BY <1>1, <1>5
<1> QED
  BY <1>5, <1>7, <1>8, <1>9 DEF PassesOK

\* The steps of read_rtc that read no register.
LEMMA PassEnds ==
    ASSUME DeviceOK, ReadTypeOK, BriefCall, PassesOK, WaitForUpdate \/ ReadAgain \/ ReadEnds
    PROVE  PassesOK'
<1>0. /\ rd = [pc |-> rd.pc, next |-> rd.next, cur |-> rd.cur, last |-> rd.last,
               seen |-> rd.seen, begun |-> rd.begun]
      /\ rd.next \in 1 .. 7
  BY DEF ReadTypeOK
<1>1. rtc' = rtc /\ ticks' = ticks
  BY DEF WaitForUpdate, ReadAgain, ReadEnds
<1>2. Shown' = Shown /\ Passed' = Passed
  BY <1>1 DEF Shown, Passed
<1>3. CASE WaitForUpdate
  <2>1. rd.pc = "wait" /\ rtc.changed = 0
    BY <1>3 DEF WaitForUpdate, DeviceOK
  <2>2. rd' = [pc |-> "registers", next |-> 1, cur |-> rd.cur, last |-> rd.last,
               seen |-> rd.seen, begun |-> rd.begun]
    BY <1>0, <1>3 DEF WaitForUpdate
  <2>3. ~ FirstPass => Pass(rd.last, 5)'
    BY <1>1, <1>2, <2>1, <2>2 DEF PassesOK, Pass, Registers
  <2> QED
    BY <2>2, <2>3 DEF PassesOK, FirstPass
<1>4. CASE ReadAgain
  <2>1. rd.pc = "registers" /\ rd.next > LastField
    BY <1>4 DEF ReadAgain
  <2>2. rd' = [pc |-> "wait", next |-> rd.next, cur |-> rd.cur, last |-> rd.cur,
               seen |-> rd.seen, begun |-> rd.begun]
    BY <1>0, <1>4 DEF ReadAgain
  <2>3. rd.next - 1 \in 5 .. 6 /\ rd.next > 1
    BY <1>0, <2>1 DEF LastField
  <2>4. Pass(rd.cur, rd.next - 1)
    BY <2>1, <2>3 DEF PassesOK
  <2>5. Pass(rd.last, 5)'
    <3>1. PICK s \in 0 .. 59, d \in 0 .. Passed - rd.begun :
            /\ rd.cur[1] = Encode(rtc.mode, 1, s)
            /\ Shown[1] = (s + d) % 60
            /\ (d = 0 /\ s # 0) => Registers(rd.cur, Shown, 2, rd.next - 1)
      BY <2>4 DEF Pass
    <3>2. (d = 0 /\ s # 0) => Registers(rd.last, Shown, 2, 5)'
      BY <1>1, <1>2, <2>2, <2>3, <3>1 DEF Registers
    <3> QED
      BY <1>1, <1>2, <2>2, <3>1, <3>2 DEF Pass
  <2> QED
    BY <2>2, <2>5 DEF PassesOK
<1>5. CASE ReadEnds
  <2>1. /\ rd.pc = "registers" /\ ~ FirstPass /\ rd.cur = rd.last /\ rd.next > 5
    BY <1>5 DEF ReadEnds, LastField
  <2>2. rd' = [pc |-> "returned", next |-> rd.next, cur |-> Convert(rtc.mode, rd.cur), last |-> rd.last,
               seen |-> rd.seen, begun |-> rd.begun]
    BY <1>0, <1>5 DEF ReadEnds
  <2>3. rd.next - 1 = 5 /\ rd.next > 1
    BY <1>0, <2>1 DEF ReadTypeOK
  <2>4. Agreed(5)
    BY <2>1, <2>3 DEF PassesOK
  <2>5. PICK t \in rd.seen :
          /\ rd.last[1] = Encode(rtc.mode, 1, t[1])
          /\ t[1] # 0 => Registers(rd.last, t, 2, 5)
          /\ t[1] = 0 => Registers(rd.cur, t, 2, 5)
    BY <2>4 DEF Agreed
  <2>6. \A f \in 1 .. 5 : rd.cur[f] = Encode(rtc.mode, f, t[f])
    <3>1. Registers(rd.cur, t, 2, 5)
      BY <2>1, <2>5
    <3> QED
      BY <2>1, <2>5, <3>1 DEF Registers
  <2>7. ASSUME HourKept' PROVE ReadConsistent'
    <3>1. rtc.mode \in Modes /\ t \in Times /\ (rtc.mode.hours24 \/ t[3] % 12 # 0)
      BY <1>1, <2>2, <2>5, <2>7 DEF DeviceOK, ReadTypeOK, HourKept
    <3>2. \A f \in 1 .. 5 : Convert(rtc.mode, rd.cur)[f] = t[f]
      BY <2>6, <3>1, ConvertBack
    <3> QED
      BY <2>2, <2>5, <3>2 DEF ReadConsistent
  <2> QED
    BY <2>2, <2>7 DEF PassesOK
<1> QED
  BY <1>3, <1>4, <1>5

\* A record of read_rtc has no other fields than these.
LEMMA ReadForm ==
    ASSUME NEW r, NEW p, NEW n, NEW c, NEW l, NEW s, NEW b,
           r = [pc |-> p, next |-> n, cur |-> c, last |-> l, seen |-> s, begun |-> b]
    PROVE  /\ r.pc = p /\ r.next = n /\ r.cur = c /\ r.last = l /\ r.seen = s /\ r.begun = b
           /\ r = [pc |-> r.pc, next |-> r.next, cur |-> r.cur, last |-> r.last,
                   seen |-> r.seen, begun |-> r.begun]
OBVIOUS

\* The fields of read_rtc's state keep their types, and its times are the device's.
LEMMA ReadTypes ==
    ASSUME DeviceOK, ReadTypeOK, ReadStep \/ UpdateBegins \/ Update
    PROVE  ReadTypeOK' /\ rd'.begun = rd.begun
<1>0. /\ rd = [pc |-> rd.pc, next |-> rd.next, cur |-> rd.cur, last |-> rd.last,
               seen |-> rd.seen, begun |-> rd.begun]
      /\ rd.next \in 1 .. 7 /\ rd.pc # "idle" /\ ticks \in Nat
      /\ rd.cur = [f \in Fields |-> rd.cur[f]]
      /\ rtc.time \in Times /\ rtc.time \in rd.seen /\ rd.seen \in SUBSET Times /\ rd.begun \in 0 .. ticks
  BY ShownOK DEF ReadTypeOK, DeviceOK
<1>1. CASE WaitForUpdate
  <2>1. rd' = [pc |-> "registers", next |-> 1, cur |-> rd.cur, last |-> rd.last,
               seen |-> rd.seen, begun |-> rd.begun]
    BY <1>0, <1>1 DEF WaitForUpdate
  <2>2. /\ rd'.pc = "registers" /\ rd'.next = 1 /\ rd'.cur = rd.cur /\ rd'.last = rd.last
        /\ rd'.seen = rd.seen /\ rd'.begun = rd.begun
        /\ rd' = [pc |-> rd'.pc, next |-> rd'.next, cur |-> rd'.cur, last |-> rd'.last,
                   seen |-> rd'.seen, begun |-> rd'.begun]
    BY <2>1, ReadForm
  <2> QED
    BY <1>0, <1>1, <2>2 DEF WaitForUpdate, ReadTypeOK
<1>2. CASE ReadRegister
  <2> DEFINE c == [rd.cur EXCEPT ![rd.next] = get_RTC_register(rd.next)]
  <2>1. rd' = [rd EXCEPT !.cur = c, !.next = rd.next + 1] /\ rd.pc = "registers"
    BY <1>2 DEF ReadRegister
  <2>2. c = [f \in Fields |-> c[f]]
    BY <1>0
  <2> HIDE DEF c
  <2>3. rd' = [pc |-> "registers", next |-> rd.next + 1, cur |-> c, last |-> rd.last,
               seen |-> rd.seen, begun |-> rd.begun]
    BY <1>0, <2>1
  <2>4. rd.next + 1 \in 1 .. 7 /\ (~ FirstPass => rd.next + 1 <= 6)
    BY <1>0, <1>2 DEF ReadRegister, LastField
  <2>5. /\ rd'.pc = "registers" /\ rd'.next = rd.next + 1 /\ rd'.cur = c /\ rd'.last = rd.last
        /\ rd'.seen = rd.seen /\ rd'.begun = rd.begun
        /\ rd' = [pc |-> rd'.pc, next |-> rd'.next, cur |-> rd'.cur, last |-> rd'.last,
                   seen |-> rd'.seen, begun |-> rd'.begun]
    BY <2>3, ReadForm
  <2> QED
    BY <1>0, <1>2, <2>2, <2>4, <2>5 DEF ReadRegister, ReadTypeOK, FirstPass
<1>3. CASE ReadAgain
  <2>1. rd' = [pc |-> "wait", next |-> rd.next, cur |-> rd.cur, last |-> rd.cur,
               seen |-> rd.seen, begun |-> rd.begun]
    BY <1>0, <1>3 DEF ReadAgain
  <2>2. /\ rd'.pc = "wait" /\ rd'.next = rd.next /\ rd'.cur = rd.cur /\ rd'.last = rd.cur
        /\ rd'.seen = rd.seen /\ rd'.begun = rd.begun
        /\ rd' = [pc |-> rd'.pc, next |-> rd'.next, cur |-> rd'.cur, last |-> rd'.last,
                   seen |-> rd'.seen, begun |-> rd'.begun]
    BY <2>1, ReadForm
  <2> QED
    BY <1>0, <1>3, <2>2 DEF ReadAgain, ReadTypeOK
<1>4. CASE ReadEnds
  <2> DEFINE c == Convert(rtc.mode, rd.cur)
  <2>1. c = [f \in Fields |-> c[f]]
    <3> DEFINE bin == [f \in Fields |-> IF rtc.mode.binary THEN rd.cur[f] ELSE FromBcd(rd.cur[f], f)]
    <3>1. c = IF ~ rtc.mode.hours24 /\ bin[3] >= 128
              THEN [bin EXCEPT ![3] = ((@ % 128) + 12) % 24] ELSE bin
      BY DEF Convert
    <3>2. bin = [f \in Fields |-> bin[f]]
      OBVIOUS
    <3> HIDE DEF bin, c
    <3> QED
      BY <3>1, <3>2
  <2> HIDE DEF c
  <2>2. rd' = [rd EXCEPT !.pc = "returned", !.cur = c]
    BY <1>4 DEF ReadEnds, c
  <2>3. rd' = [pc |-> "returned", next |-> rd.next, cur |-> c, last |-> rd.last,
               seen |-> rd.seen, begun |-> rd.begun]
    BY <1>0, <2>2
  <2>4. /\ rd'.pc = "returned" /\ rd'.next = rd.next /\ rd'.cur = c /\ rd'.last = rd.last
        /\ rd'.seen = rd.seen /\ rd'.begun = rd.begun
        /\ rd' = [pc |-> rd'.pc, next |-> rd'.next, cur |-> rd'.cur, last |-> rd'.last,
                   seen |-> rd'.seen, begun |-> rd'.begun]
    BY <2>3, ReadForm
  <2> QED
    BY <1>0, <1>4, <2>1, <2>4 DEF ReadEnds, ReadTypeOK
<1>5. CASE UpdateBegins \/ UpdateRegister
  <2>1. rd' = rd /\ ticks' = ticks /\ rtc'.time = rtc.time
    BY <1>5 DEF UpdateBegins, UpdateRegister, DeviceOK
  <2> QED
    BY <2>1 DEF ReadTypeOK, FirstPass
<1>6. CASE UpdateEnds
  <2> DEFINE n == NextSecond(rtc.time)
  <2>1. rd' = [rd EXCEPT !.seen = rd.seen \cup {n}] /\ ticks' = ticks + 1 /\ rtc'.time = n
    BY <1>0, <1>6 DEF UpdateEnds, DeviceOK
  <2>2. n \in Times
    BY <1>0, NextSecondOK
  <2> HIDE DEF n
  <2>3. rd' = [pc |-> rd.pc, next |-> rd.next, cur |-> rd.cur, last |-> rd.last,
               seen |-> rd.seen \cup {n}, begun |-> rd.begun]
    BY <1>0, <2>1
  <2>4. rd.begun \in 0 .. ticks'
    BY <1>0, <2>1
  <2>5. rd.pc \in {"wait", "registers", "returned"} /\ ((rd.pc = "registers" /\ rd.last # <<>>) => rd.next <= 6)
    BY DEF ReadTypeOK, FirstPass
  <2>6. /\ rd'.pc = rd.pc /\ rd'.next = rd.next /\ rd'.cur = rd.cur /\ rd'.last = rd.last
        /\ rd'.seen = rd.seen \cup {n} /\ rd'.begun = rd.begun
        /\ rd' = [pc |-> rd'.pc, next |-> rd'.next, cur |-> rd'.cur, last |-> rd'.last,
                   seen |-> rd'.seen, begun |-> rd'.begun]
    BY <2>3, ReadForm
  <2> QED
    BY <1>0, <2>1, <2>2, <2>4, <2>5, <2>6 DEF ReadTypeOK, FirstPass
<1> QED
  BY <1>1, <1>2, <1>3, <1>4, <1>5, <1>6 DEF ReadStep, Update

\* Every step keeps what is known of the call.
LEMMA ReadAlways ==
    ASSUME DeviceOK, ReadInv, [ClockNext]_vars
    PROVE  ReadInv'
<1>1. CASE rd = NoRead
  <2>1. rd' = NoRead \/ ReadStart
    <3>1. rd.pc = "idle"
      BY <1>1 DEF NoRead
    <3> QED
      BY <1>1, <3>1 DEF ClockNext, ClockStep, ShellStep, GetClockTime, PrintTime, TestOpen, CheckCell, DrawCell,
         DrawBorder, create_clock_returns, OpenWindow, ClearWindow, CloseWindow, PaintBackground,
         Device, DeviceQuiet, vars, ReadStep, WaitForUpdate, ReadRegister, ReadAgain, ReadEnds,
         UpdateBegins, Update, UpdateRegister, UpdateEnds
  <2>2. ASSUME ReadStart PROVE ReadInv'
    <3> DEFINE c == [f \in Fields |-> 0]
               l == <<>>
    <3>1. /\ rd' = [pc |-> "wait", next |-> 1, cur |-> c, last |-> l,
                    seen |-> {rtc.time}, begun |-> ticks]
          /\ c = [f \in Fields |-> c[f]] /\ rtc' = rtc /\ ticks' = ticks
      BY <2>2 DEF ReadStart
    <3>2. rtc.time \in Times /\ ticks \in 0 .. ticks
      BY ShownOK DEF DeviceOK
    <3>3. ReadTypeOK'
      <4> HIDE DEF c, l
      <4>1. /\ rd'.pc = "wait" /\ rd'.next = 1 /\ rd'.cur = c /\ rd'.last = l
            /\ rd'.seen = {rtc.time} /\ rd'.begun = ticks
            /\ rd' = [pc |-> rd'.pc, next |-> rd'.next, cur |-> rd'.cur, last |-> rd'.last,
                       seen |-> rd'.seen, begun |-> rd'.begun]
        BY <3>1, ReadForm
      <4> QED
        BY <3>1, <3>2, <4>1 DEF ReadTypeOK
    <3>4. FirstPass' /\ rd'.pc = "wait"
      BY <3>1 DEF FirstPass
    <3> QED
      BY <3>3, <3>4 DEF ReadInv, PassesOK
  <2> QED
    BY <2>1, <2>2 DEF ReadInv
<1>2. CASE ReadTypeOK /\ (BriefCall => PassesOK)
  <2>0. rd.pc # "idle" /\ rd.pc # NoRead.pc /\ ticks \in Nat /\ rd.begun \in Nat
    BY <1>2, ShownOK DEF ReadTypeOK, NoRead
  <2>1. \/ ReadStep \/ UpdateBegins \/ Update \/ rd' = NoRead
        \/ UNCHANGED <<rtc, ticks, rd>>
    BY <2>0 DEF ClockNext, ClockStep, ShellStep, GetClockTime, PrintTime, TestOpen, CheckCell, DrawCell,
       DrawBorder, create_clock_returns, OpenWindow, ClearWindow, CloseWindow, PaintBackground,
       Device, DeviceQuiet, vars, ReadStart
  <2>2. CASE UNCHANGED <<rtc, ticks, rd>>
    <3>1. ReadTypeOK' /\ (BriefCall' => BriefCall)
      BY <1>2, <2>2 DEF ReadTypeOK, FirstPass, BriefCall
    <3>2. Shown' = Shown /\ Passed' = Passed
      BY <2>2 DEF Shown, Passed
    <3>3. PassesOK => PassesOK'
      BY <2>2, <3>2, QuietKeeps
    <3> QED
      BY <1>2, <3>1, <3>3 DEF ReadInv
  <2>3. CASE ReadStep
    <3>1. ReadTypeOK' /\ rd'.begun = rd.begun
      BY <1>2, <2>3, ReadTypes
    <3>2. BriefCall' => BriefCall
      BY <2>0, <2>3, <3>1 DEF BriefCall, ReadTypeOK, ReadStep, WaitForUpdate, ReadRegister, ReadAgain, ReadEnds
    <3>3. BriefCall /\ PassesOK => PassesOK'
      BY <1>2, <2>3, RegisterKeeps, PassEnds DEF ReadStep
    <3> QED
      BY <1>2, <3>1, <3>2, <3>3 DEF ReadInv
  <2>4. CASE UpdateBegins \/ Update
    <3>1. ReadTypeOK' /\ rd'.begun = rd.begun
      BY <1>2, <2>4, ReadTypes
    <3>2. ticks' = ticks \/ ticks' = ticks + 1
      BY <2>4 DEF UpdateBegins, Update, UpdateRegister, UpdateEnds
    <3>3. BriefCall' => BriefCall
      BY <2>0, <3>1, <3>2 DEF BriefCall, ReadTypeOK
    <3>4. ASSUME BriefCall, PassesOK PROVE PassesOK'
      <4>1. rtc'.mode = rtc.mode
        BY <2>4, DeviceShows
      <4>2. CASE /\ rtc.changed = 0 /\ rtc'.changed > 0
                 /\ Shown = rtc.time /\ rtc'.time = rtc.time /\ Shown' = NextSecond(rtc.time)
                 /\ Passed = ticks /\ Passed' = ticks + 1 /\ ticks' = ticks /\ rd' = rd
        BY <1>2, <3>4, <4>1, <4>2, AdvanceKeeps
      <4>3. CASE /\ Shown' = Shown /\ Passed' = Passed
                 /\ rtc'.changed = rtc.changed \/ rtc'.changed = 0 \/ rtc.changed > 0
                 /\ rtc'.time = rtc.time \/ rtc'.time = Shown
                 /\ UpdateEnds \/ (rd' = rd /\ rtc'.time = rtc.time /\ ticks' = ticks)
        <5>1. /\ rd'.pc = rd.pc /\ rd'.next = rd.next /\ rd'.cur = rd.cur /\ rd'.last = rd.last
              /\ rd'.begun = rd.begun /\ rd.seen \in SUBSET rd'.seen
          <6>1. CASE rd' = rd
            BY <6>1
          <6>2. CASE UpdateEnds
            <7> DEFINE more == rd.seen \cup {NextSecond(rtc.time)}
            <7>1. rd.seen \in SUBSET more /\ rd' = [rd EXCEPT !.seen = more]
              BY <2>0, <6>2 DEF UpdateEnds
            <7> HIDE DEF more
            <7>2. rd = [pc |-> rd.pc, next |-> rd.next, cur |-> rd.cur, last |-> rd.last,
                        seen |-> rd.seen, begun |-> rd.begun]
              BY <1>2 DEF ReadTypeOK
            <7>3. rd' = [pc |-> rd.pc, next |-> rd.next, cur |-> rd.cur, last |-> rd.last,
                        seen |-> more, begun |-> rd.begun]
              BY <7>1, <7>2
            <7> QED
              BY <7>1, <7>3
          <6> QED
            BY <4>3, <6>1, <6>2
        <5> QED
          BY <3>4, <4>1, <4>3, <5>1, QuietKeeps
      <4> QED
        BY <2>4, <4>2, <4>3, DeviceShows
    <3> QED
      BY <1>2, <3>1, <3>3, <3>4 DEF ReadInv
  <2> QED
    BY <2>1, <2>2, <2>3, <2>4 DEF ReadInv
<1> QED
  BY <1>1, <1>2 DEF ReadInv

(***************************************************************************)
(* What read_rtc returns is the second, minute, hour, day and month of one moment   *)
(* of the call, from whatever time and in whatever mode the device starts and however  *)
(* its updates fall among the reads of the registers.  Two hypotheses are needed.       *)
(* The call takes less than 59 seconds: two passes a year apart may agree on a date    *)
(* that never was.  And on a twelve-hour device the hour is not 0 or 12: cmos.c adds    *)
(* twelve to every p.m. hour, twelve included, and leaves twelve a.m. as it is.          *)
(***************************************************************************)
THEOREM OneMoment == ClockSpec => [](BriefCall /\ HourKept => ReadConsistent)
<1>1. ClockInit => DeviceOK /\ ReadInv
  BY ClockInitOK DEF ClockInit, RTCInit, ReadInv
<1>2. (DeviceOK /\ ReadInv) /\ [ClockNext]_vars => (DeviceOK /\ ReadInv)'
  BY DeviceAlways, ReadAlways
<1>3. DeviceOK /\ ReadInv => (BriefCall /\ HourKept => ReadConsistent)
  BY DEF ReadInv, PassesOK, ReadConsistent, NoRead
<1> QED
  BY <1>1, <1>2, <1>3, PTL DEF ClockSpec
=============================================================================
