------------------------------- MODULE Records -------------------------------
(***************************************************************************)
(* What the services with a version column have in common.  A command runs *)
(* in one transaction of one worker, in two steps: it reads and decides on *)
(* what it read, then it writes if the version is still the expected one.  *)
(* A transaction that has lost its version rolls back and leaves nothing.  *)
(***************************************************************************)
EXTENDS Naturals, FiniteSets, Sequences

CONSTANTS
  None,      \* an absent value
  Workers    \* transactions that may overlap

Idle == [command |-> "none"]
=============================================================================
