--------------------------- MODULE MCAuditStorage ---------------------------
(***************************************************************************)
(* AuditStorage for TLC.  Nothing tells one logger from another, so states  *)
(* that differ only in who is who are checked once; all properties of the   *)
(* run are safety properties, for which that is sound.                      *)
(***************************************************************************)
EXTENDS AuditStorage, TLC

LoggerSymmetry == Permutations(Loggers)
=============================================================================
