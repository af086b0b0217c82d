--------------------------- MODULE MCSpoolPublish ---------------------------
(***************************************************************************)
(* Small instances of SpoolPublish for TLC.                                *)
(***************************************************************************)
EXTENDS SpoolPublish, TLC

\* The first spool in the listing has two events, the others one.
TwoThenOnes == [s \in Segment |-> IF s = 1 THEN 2 ELSE 1]

=============================================================================
