----------------------------- MODULE MCLeaderLoop -----------------------------
(* Instances of LeaderLoop with three unrolled copies.                         *)
EXTENDS LeaderLoop

\* Around the minimum entry (20 units): dust, the minimum itself, one more, and a
\* value no other is a multiple of.  A full pot has at most 99 < 128 tickets.
MCValues == {19, 20, 21, 33}
=============================================================================
