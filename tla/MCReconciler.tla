---------------------------- MODULE MCReconciler ----------------------------
(***************************************************************************)
(* Small instances of Reconciler.                                          *)
(***************************************************************************)
EXTENDS Reconciler

AllKinds == KindsOfObjects

OnlyClusters == {"cluster"}
=============================================================================
