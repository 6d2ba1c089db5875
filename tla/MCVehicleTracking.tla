-------------------------- MODULE MCVehicleTracking --------------------------
(***************************************************************************)
(* VehicleTracking on instances small enough for TLC.                      *)
(***************************************************************************)
EXTENDS VehicleTracking, TLC

CONSTANTS v1, v2

\* Every combination has a hash code of its own.
DistinctHashes == [v \in Vehicles |-> v]

\* Two combinations share one, as "AO" and "B0" do.
CollidingHashes == [v \in Vehicles |-> 0]

\* Objects are interchangeable, and so are vehicles that nothing tells apart.
ObjectSymmetry == Permutations(Objects)
FullSymmetry == Permutations(Objects) \cup Permutations(Vehicles)
=============================================================================
