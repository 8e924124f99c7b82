---- MODULE MCLegacyRaffle ----
(* Instances of LegacyRaffle for TLC. *)
EXTENDS LegacyRaffle
CONSTANTS timer, others
MCKinds == [c \in Callers |-> IF c = timer THEN {"timer"} ELSE {"midnight", "request"}]
====
