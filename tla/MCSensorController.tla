------------------------- MODULE MCSensorController -------------------------
(* One sensor that users create, move between two namespaces, delete and     *)
(* create again.                                                             *)
EXTENDS SensorController, TLC

MCSymmetry == Permutations(TargetNamespaces)
=============================================================================
