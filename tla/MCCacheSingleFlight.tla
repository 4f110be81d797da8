-------------------------- MODULE MCCacheSingleFlight --------------------------
(***************************************************************************)
(* Three concurrent resolves of one identity.  Callers and payloads are    *)
(* interchangeable in every safety property; the liveness run, which does  *)
(* not use the symmetry, has its own configuration.                        *)
(***************************************************************************)
EXTENDS CacheSingleFlight, TLC

Symmetry == Permutations(Callers) \cup Permutations(Values)
================================================================================
