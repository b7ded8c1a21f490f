------------------------ MODULE MCGenericReconciler ------------------------
(* Small instances of GenericReconciler.                                   *)
EXTENDS GenericReconciler
=============================================================================
