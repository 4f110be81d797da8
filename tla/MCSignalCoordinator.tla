------------------------ MODULE MCSignalCoordinator ------------------------
(***************************************************************************)
(* Both signals, three arrivals: a first one, a repetition and one that    *)
(* interrupts the handler of either.                                       *)
(***************************************************************************)
EXTENDS SignalCoordinator
=============================================================================
