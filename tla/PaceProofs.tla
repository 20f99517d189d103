----------------------------- MODULE PaceProofs -----------------------------
(***************************************************************************)
(* What the controller answers over any history of reports and silences,   *)
(* for all gains.                                                          *)
(***************************************************************************)
EXTENDS Pace, TLAPS

VARIABLE pid

\* A report comes, with any error; or the pipe is silent.
Report == \E error \in Int : pid' = Calculate(pid, error)
Silence == pid' = New

PaceSpec == pid = New /\ [][Report \/ Silence]_pid

PaceTypeOK == pid \in [pre_error : Int, integral : Int, prev : Int]

\* The answer is the 0 it begins with, which is below the least, or in range.
AnswerInRange == pid.prev = 0 \/ pid.prev \in Least .. Most

PaceInv == PaceTypeOK /\ AnswerInRange

-----------------------------------------------------------------------------

\* One call, taken apart.
LEMMA CalculateSteps ==
    ASSUME NEW c \in [pre_error : Int, integral : Int, prev : Int],
           NEW error \in Int
    PROVE  LET d == Calculate(c, error) IN
           /\ d \in [pre_error : Int, integral : Int, prev : Int]
           /\ d.prev = c.prev \/ d.prev \in Least .. Most
           /\ Distance(d.prev, c.prev) <= Jump
           /\ Restrict(Output(c, error)) > c.prev + Jump => d.prev = c.prev
  <1> DEFINE x == Output(c, error)
             r == Restrict(x)
             o == [pre_error |-> error, integral |-> c.integral + error, prev |-> r]
  <1>1. x \in Int
    <2>1. \A m, n \in Int : m * n \in Int
      OBVIOUS
    <2>2. /\ Kp * error \in Int /\ Ki * (c.integral + error) \in Int
          /\ Kd * (error - c.pre_error) \in Int
      BY <2>1, GainsAssumption
    <2> QED
      BY <2>2 DEF Output
  <1>2. r \in Int /\ Least <= r /\ r <= Most
    <2> HIDE DEF x
    <2> QED
      BY <1>1, RangeAssumption DEF Restrict
  <1> HIDE DEF r
  <1>3. o \in [pre_error : Int, integral : Int, prev : Int] /\ o.prev = r
    BY <1>2
  <1>4. OldCalculate(c, error) = o
    BY DEF OldCalculate, r
  <1>5. Calculate(c, error) =
            IF Distance(r, c.prev) > Jump THEN [o EXCEPT !.prev = c.prev] ELSE o
    BY <1>3, <1>4 DEF Calculate
  <1> HIDE DEF o
  <1>6. CASE Distance(r, c.prev) > Jump
    <2>1. Calculate(c, error) = [o EXCEPT !.prev = c.prev]
      BY <1>5, <1>6
    <2>2. /\ Calculate(c, error) \in [pre_error : Int, integral : Int, prev : Int]
          /\ Calculate(c, error).prev = c.prev
      BY <1>3, <2>1
    <2>3. Distance(c.prev, c.prev) <= Jump
      BY JumpAssumption DEF Distance
    <2> QED
      BY <2>2, <2>3
  <1>7. CASE ~ (Distance(r, c.prev) > Jump)
    <2>1. Calculate(c, error) = o
      BY <1>5, <1>7
    <2>2. Distance(r, c.prev) <= Jump /\ ~ (r > c.prev + Jump)
      BY <1>2, <1>7, JumpAssumption DEF Distance
    <2> QED
      BY <1>2, <1>3, <2>1, <2>2, RangeAssumption DEF r
  <1> QED
    BY <1>6, <1>7

\* PaceInv holds of a new controller and through every call.
LEMMA PaceInvariant == PaceSpec => []PaceInv
  <1>1. New \in [pre_error : Int, integral : Int, prev : Int] /\ New.prev = 0
    BY DEF New
  <1>2. pid = New => PaceInv
    BY <1>1 DEF PaceInv, PaceTypeOK, AnswerInRange
  <1>3. PaceInv /\ [Report \/ Silence]_pid => PaceInv'
    <2> SUFFICES ASSUME PaceInv, [Report \/ Silence]_pid
                 PROVE  PaceInv'
      OBVIOUS
    <2>1. CASE Report
      <3>1. PICK error \in Int : pid' = Calculate(pid, error)
        BY <2>1 DEF Report
      <3>2. /\ pid' \in [pre_error : Int, integral : Int, prev : Int]
            /\ pid'.prev = pid.prev \/ pid'.prev \in Least .. Most
        BY <3>1, CalculateSteps DEF PaceInv, PaceTypeOK
      <3> QED
        BY <3>2 DEF PaceInv, PaceTypeOK, AnswerInRange
    <2>2. CASE Silence
      BY <1>1, <2>2 DEF Silence, PaceInv, PaceTypeOK, AnswerInRange
    <2>3. CASE UNCHANGED pid
      BY <2>3 DEF PaceInv, PaceTypeOK, AnswerInRange
    <2> QED
      BY <2>1, <2>2, <2>3
  <1> QED
    BY <1>2, <1>3, PTL DEF PaceSpec

\* Whatever is reported, the controller answers 0 or a number in its range.
THEOREM AnswersStayInRange == PaceSpec => []AnswerInRange
  <1>1. PaceInv => AnswerInRange
    BY DEF PaceInv
  <1> QED
    BY <1>1, PaceInvariant, PTL

\* A report moves the answer by no more than Jump; once it has left 0 only a
\* silence brings it back there; and while what is wanted is above Jump it
\* stays at 0, that is the frames go at their nominal pace.
MovesSlowly == Report => Distance(pid.prev', pid.prev) <= Jump
ZeroIsLeft == Report /\ pid.prev # 0 => pid.prev' # 0
FarIsIgnored ==
    \A error \in Int :
        /\ pid' = Calculate(pid, error)
        /\ pid.prev = 0 /\ Restrict(Output(pid, error)) > Jump
        => pid.prev' = 0

\* The three, over any history.
THEOREM AnswersMoveSlowly == PaceSpec => [][MovesSlowly /\ ZeroIsLeft /\ FarIsIgnored]_pid
  <1>1. PaceInv => [MovesSlowly /\ ZeroIsLeft /\ FarIsIgnored]_pid
    <2> SUFFICES ASSUME PaceInv
                 PROVE  MovesSlowly /\ ZeroIsLeft /\ FarIsIgnored
      OBVIOUS
    <2>1. ASSUME NEW error \in Int, pid' = Calculate(pid, error)
          PROVE  /\ Distance(pid.prev', pid.prev) <= Jump
                 /\ pid.prev # 0 => pid.prev' # 0
                 /\ pid.prev = 0 /\ Restrict(Output(pid, error)) > Jump => pid.prev' = 0
      <3>1. /\ Distance(pid'.prev, pid.prev) <= Jump
            /\ pid'.prev = pid.prev \/ pid'.prev \in Least .. Most
            /\ Restrict(Output(pid, error)) > pid.prev + Jump => pid'.prev = pid.prev
        BY <2>1, CalculateSteps DEF PaceInv, PaceTypeOK
      <3> QED
        BY <3>1, RangeAssumption, JumpAssumption
    <2>2. MovesSlowly /\ ZeroIsLeft
      BY <2>1 DEF Report, MovesSlowly, ZeroIsLeft
    <2>3. FarIsIgnored
      BY <2>1 DEF FarIsIgnored
    <2> QED
      BY <2>2, <2>3
  <1> QED
    BY <1>1, PaceInvariant, PTL

\* The sleep between two frames is never longer than it would be without the
\* controller, nor nothing at all.
SleepIsShortened ==
    \A slploop \in Nat \ {0} :
        0 < Sleep(slploop, pid) /\ Sleep(slploop, pid) <= slploop * Full

\* So the server can only ever send faster than the nominal pace, never slower.
THEOREM NeverSlowerThanNominal == PaceSpec => []SleepIsShortened
  <1>1. PaceInv => SleepIsShortened
    <2> SUFFICES ASSUME PaceInv, NEW slploop \in Nat \ {0}
                 PROVE  0 < Sleep(slploop, pid) /\ Sleep(slploop, pid) <= slploop * Full
      BY DEF SleepIsShortened
    <2>1. pid.prev \in Int /\ 0 <= pid.prev /\ pid.prev < Full
      BY RangeAssumption DEF PaceInv, PaceTypeOK, AnswerInRange
    <2>2. \A m, n \in Nat : m > 0 /\ n > 0 => m * n > 0
      OBVIOUS
    <2>3. \A k, m, n \in Nat : m <= n => k * m <= k * n
      OBVIOUS
    <2>4. Full - pid.prev \in Nat /\ Full - pid.prev > 0 /\ Full - pid.prev <= Full
      BY <2>1, RangeAssumption
    <2>5. slploop * (Full - pid.prev) > 0
      BY <2>2, <2>4
    <2>6. slploop * (Full - pid.prev) <= slploop * Full
      BY <2>3, <2>4, RangeAssumption
    <2> QED
      BY <2>5, <2>6 DEF Sleep
  <1> QED
    BY <1>1, PaceInvariant, PTL
=============================================================================
