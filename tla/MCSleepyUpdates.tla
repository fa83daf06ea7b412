-------------------------- MODULE MCSleepyUpdates --------------------------
(* Instance of SleepyUpdates for TLC: a vehicle with an AI module and a    *)
(* helper that weapons may wake at once, and an armed factory whose        *)
(* production module does not call setWakeFrame in its constructor.        *)
EXTENDS SleepyUpdates

CONSTANTS ai, helper, production, tracker, vehicle, factory

MCOwner == [u \in Module |-> IF u \in {ai, helper} THEN vehicle ELSE factory]

MCPhase ==
  [u \in Module |-> CASE u = ai -> PHASE_INITIAL
                      [] u = tracker -> PHASE_FINAL
                      [] OTHER -> PHASE_NORMAL]

MCCtorDelay ==
  [u \in Module |-> CASE u = ai -> 1
                      [] u = production -> 0
                      [] OTHER -> Forever]

MCWakeDelays ==
  [u \in Module |-> CASE u = ai -> {1}
                      [] u = helper -> {0}
                      [] u = tracker -> {2}
                      [] OTHER -> {}]
=============================================================================
