------------------------------ MODULE Failures ------------------------------
(***************************************************************************)
(* Failures of what the processes depend on: the store adapter, the Cloud  *)
(* Controller, the host.  Any call may fail; a run bounds how many do.     *)
(***************************************************************************)
EXTENDS Naturals

CONSTANTS
  MaxFaults       \* bound: store calls, HTTP calls and processes that fail

ASSUME MaxFaultsAssumption == MaxFaults \in Nat

VARIABLE
  faults          \* how many failures there have been

Fault == faults < MaxFaults /\ faults' = faults + 1
NoFault == faults' = faults

(* SetMulti and Delete handle each key by itself, in parallel: a call that *)
(* returns an error may have handled some of its keys.  Handled(all, some) *)
(* says which of the keys `all' a call handled.                            *)
Handled(all, some) ==
  \/ some = all /\ NoFault
  \/ some \subseteq all /\ all # {} /\ Fault
=============================================================================
