-------------------------------- MODULE Pace --------------------------------
(***************************************************************************)
(* The controller that stretches or shortens the server's sleep between    *)
(* two frames (srv/pidaim.cpp, used by srv/main.cpp), and its former form  *)
(* without a filter (OLD_UDP/.../common/pidaim.cpp, cli/pider.cpp).        *)
(*                                                                         *)
(* All doubles are multiples of one small unit.  dt is constant, so it is  *)
(* part of the gains: Ki stands for the code's Ki * dt, Kd for Kd / dt,    *)
(* and the integral for the sum of the errors.                             *)
(***************************************************************************)
EXTENDS Integers

CONSTANTS
    Kp, Ki, Kd,     \* gains, in units per unit of error
    Least, Most,    \* min and max of PID: 1.0 and 99.0
    Full,           \* 100 %
    Jump            \* the largest step of the output: 20

ASSUME GainsAssumption == Kp \in Int /\ Ki \in Int /\ Kd \in Int
ASSUME RangeAssumption ==
    /\ Least \in Nat \ {0} /\ Most \in Nat /\ Full \in Nat
    /\ Least <= Most /\ Most < Full
ASSUME JumpAssumption == Jump \in Nat /\ Least <= Jump

\* PIDImpl as its constructor leaves it; reset() makes another.
New == [pre_error |-> 0, integral |-> 0, prev |-> 0]

Distance(x, y) == IF x > y THEN x - y ELSE y - x

Output(c, error) ==
    Kp * error + Ki * (c.integral + error) + Kd * (error - c.pre_error)

Restrict(x) == IF x > Most THEN Most ELSE IF x < Least THEN Least ELSE x

\* calculate(): what the old controllers answer, and the state they keep.
OldCalculate(c, error) ==
    [pre_error |-> error, integral |-> c.integral + error,
     prev |-> Restrict(Output(c, error))]

\* The same with the jump taken out: the answer is the previous one again.
Calculate(c, error) ==
    LET out == OldCalculate(c, error) IN
    IF Distance(out.prev, c.prev) > Jump THEN [out EXCEPT !.prev = c.prev] ELSE out

\* main: slploop * ((100 - calculate()) / 100), in units of 1 / Full.
Sleep(slploop, c) == slploop * (Full - c.prev)
=============================================================================
