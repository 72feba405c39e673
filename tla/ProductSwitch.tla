----------------------------- MODULE ProductSwitch -----------------------------
(* What a whole-product update promises: the machine has one selected Product,  *)
(* one update at a time aims at a newer one, selecting it is a single step that *)
(* is never taken back, and the update ends only after that step.               *)
EXTENDS Naturals

CONSTANT MaxVersion

VARIABLES selected, \* the version the machine runs
          goal      \* the version an update aims at, 0 for no update

vars == <<selected, goal>>

Init == /\ selected = 1
        /\ goal = 0

Begin == /\ goal = 0
         /\ goal' \in (selected + 1)..MaxVersion
         /\ UNCHANGED selected

Switch == /\ goal > selected
          /\ selected' = goal
          /\ UNCHANGED goal

Finish == /\ goal = selected
          /\ goal' = 0
          /\ UNCHANGED selected

Next == Begin \/ Switch \/ Finish

Spec == Init /\ [][Next]_vars
=============================================================================
