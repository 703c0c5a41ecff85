------------------------- MODULE MCRequestApproval -------------------------
(* Small instances of RequestApproval for TLC.                             *)
EXTENDS RequestApproval, TLC

CONSTANTS r1, l1, l2, u1, u2, sA, sB, w1, w2, w3, c1, c2, c3, v1, v2

\* Line 1 belongs to u1; line 2 to u1, to u2 or to both.
MCRoutings ==
  { [line \in Lines |-> IF line = l1 THEN {u1} ELSE {u2}],
    [line \in Lines |-> IF line = l1 THEN {u1} ELSE {u1, u2}] }

\* sB is inside the envelope that sA approves, not the converse.
MCOneRouting == { [line \in Lines |-> IF line = l1 THEN {u1} ELSE {u1, u2}] }

MCDelegated == {<<sA, sB>>}

MCSymmetry == Permutations(CycleIds) \cup Permutations(RevisionIds)
                \cup Permutations(Workers)
=============================================================================
