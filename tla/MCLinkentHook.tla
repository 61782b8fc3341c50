---------------------------- MODULE MCLinkentHook ----------------------------
(* LinkentHook for TLC.                                                    *)
EXTENDS LinkentHook
=============================================================================
