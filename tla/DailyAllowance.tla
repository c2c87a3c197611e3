---------------------------- MODULE DailyAllowance ----------------------------
(***************************************************************************)
(* What a daily quota promises: a call is put to the provider only while   *)
(* the calls counted for the day leave room, each put call is counted at   *)
(* once, and a count is taken back only when it is lost with the process   *)
(* that made the call.  How the counting is done - a row, a lock, a commit *)
(* after the answer - is the business of IngestionRun.                     *)
(***************************************************************************)
EXTENDS Integers

CONSTANTS
  Day,      \* the days
  PerDay    \* the calls a day allows

VARIABLES
  put,      \* calls put to the provider on each day
  counted,  \* calls that count against the allowance of the day
  lost      \* calls that stopped counting

vars == <<put, counted, lost>>

Init ==
  /\ put = [d \in Day |-> 0] /\ counted = [d \in Day |-> 0] /\ lost = [d \in Day |-> 0]

Call(d) ==
  /\ counted[d] < PerDay
  /\ put' = [put EXCEPT ![d] = @ + 1]
  /\ counted' = [counted EXCEPT ![d] = @ + 1]
  /\ UNCHANGED lost

Lose(d) ==
  /\ counted[d] > 0
  /\ counted' = [counted EXCEPT ![d] = @ - 1]
  /\ lost' = [lost EXCEPT ![d] = @ + 1]
  /\ UNCHANGED put

Next == \E d \in Day : Call(d) \/ Lose(d)

Spec == Init /\ [][Next]_vars
===============================================================================
