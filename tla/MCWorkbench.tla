---------------------------- MODULE MCWorkbench ----------------------------
(***************************************************************************)
(* Instances of WorkbenchExecution for TLC.                                 *)
(***************************************************************************)
EXTENDS WorkbenchExecution

CONSTANTS t1, t2

\* A Professional task, whose events go through a review, and one of a class no
\* executor accepts.
MCDenied == [t \in Tasks |-> IF t = t1 THEN "P1" ELSE "K1"]

MCGeneral == [t \in Tasks |-> "G0"]

=============================================================================
