------------------------- MODULE MCCallbackDispatch -------------------------
(* Values of the constants of CallbackDispatch for TLC.                    *)
EXTENDS CallbackDispatch

\* Every plugin hooks every function, before and after.
AllHooks == Plugin \X Fn \X {"pre", "post"}

\* The results that make a difference to the call, and one of them.
Deciding == {MRES_OVERRIDE, MRES_SUPERCEDE}
Extreme  == {MRES_SUPERCEDE}
=============================================================================
