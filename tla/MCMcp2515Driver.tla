-------------------------- MODULE MCMcp2515Driver --------------------------
(* The module, driver and chip instantiated for TLC; constants come from   *)
(* the .cfg.                                                               *)
EXTENDS Mcp2515Module

\* The default of the module parameter gpios[] = {20, 19, 18, 7, 6}.
DefaultGpios == [i \in 0 .. 4 |-> <<20, 19, 18, 7, 6>>[i + 1]]
=============================================================================
