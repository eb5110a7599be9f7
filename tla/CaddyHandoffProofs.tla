------------------------- MODULE CaddyHandoffProofs -------------------------
(***************************************************************************)
(* Theorems about CaddyHandoff, for every wait, period and grace and any   *)
(* number of renewals.                                                     *)
(***************************************************************************)
EXTENDS CaddyHandoff, TLAPS

(***************************************************************************)
(* The inductive invariant.  A stop is paid for by the renewal between the *)
(* stamp and the look that finds it changed: while caddy runs, fewer stops *)
(* have happened than the stamp has versions, and the decision to stop is  *)
(* taken only when the file has moved past the stamp.                      *)
(***************************************************************************)
Stamped ==
  /\ stamp <= crt
  /\ pc = "stamp" => crt # 0
  /\ pc \in {"start", "watch", "kill"} => kills < stamp
  /\ pc = "kill" => stamp < crt

IInv == TypeOK /\ OneCaddy /\ StopsJustified /\ Stamped

LEMMA Invariance ==
  ASSUME IInv, [Next]_vars
  PROVE  IInv'
<1> USE WaitAssumption, PeriodAssumption, GraceAssumption, BoundAssumption
    DEF IInv, TypeOK, OneCaddy, StopsJustified, Stamped, Labels, Alive, Goto, Again,
        Arrived, Matching, Certstamp, files, script
<1>1. CASE WriteCrt \/ WriteKey
  BY <1>1 DEF WriteCrt, WriteKey
<1>2. CASE Wait
  BY <1>2 DEF Wait
<1>3. CASE LastLook \/ Validate \/ Pause
  BY <1>3 DEF LastLook, Validate, Pause
<1>4. CASE Stamp \/ Start
  BY <1>4 DEF Stamp, Start
<1>5. CASE Watch
  BY <1>5 DEF Watch
<1>6. CASE Kill
  BY <1>6 DEF Kill
<1>7. CASE AwaitStop \/ Kill9 \/ Reap
  BY <1>7 DEF AwaitStop, Kill9, Reap
<1>8. CASE Load \/ Die
  BY <1>8 DEF Load, Die
<1>9. CASE Restart \/ Terminate
  BY <1>9 DEF Restart, Terminate
<1>10. CASE UNCHANGED vars
  BY <1>10 DEF vars
<1> QED BY <1>1, <1>2, <1>3, <1>4, <1>5, <1>6, <1>7, <1>8, <1>9, <1>10 DEF Next, Script

\* Every reachable state satisfies the inductive invariant.
THEOREM Inductive == Spec => []IInv
<1>1. Init => IInv
  BY WaitAssumption, PeriodAssumption, BoundAssumption
     DEF Init, IInv, TypeOK, OneCaddy, StopsJustified, Stamped, Labels, Alive
<1> QED BY <1>1, Invariance, PTL DEF Spec

\* Every variable keeps its type, every counter its limit.
THEOREM TypeCorrect == Spec => []TypeOK
BY Inductive, PTL DEF IInv

\* No caddy is started beside another.
THEOREM OneCaddyCorrect == Spec => []OneCaddy
BY Inductive, PTL DEF IInv

\* Caddy is stopped at most once for each renewal.
THEOREM StopsCorrect == Spec => []StopsJustified
BY Inductive, PTL DEF IInv
=============================================================================
