------------------------------- MODULE MCProber -------------------------------
(***************************************************************************)
(* Model-checking instances of Prober.  Round-trip times are in 0.1 ms.     *)
(***************************************************************************)
EXTENDS Prober

\* A steady clock: one time that is stored as a time.
SteadyClock == {42}

===============================================================================
