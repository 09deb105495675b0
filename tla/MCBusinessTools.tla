--------------------------- MODULE MCBusinessTools ---------------------------
(***************************************************************************)
(* The observations that TLC tries, which a configuration file cannot       *)
(* write.  In ten thousandths they are -1 and 2, 8 and 10 around the limit   *)
(* of one digit, two numbers that fit but whose difference does not, and one *)
(* that does not fit.                                                        *)
(***************************************************************************)
EXTENDS BusinessTools

SmallObservations == {-6, 25}
AllObservations == SmallObservations \cup {85, 95, 600000, -600000, 2000000}
=============================================================================
