-------------------------- MODULE MCCallbackMemory --------------------------
(* Values of the constants of CallbackMemory for TLC.                      *)
EXTENDS CallbackMemory, TLC

\* One plugin looks before and after, one after the original only, and one
\* before: a callback that calls all three and Metamod is larger than a page.
ThreeTables == {<<1, "pre">>, <<1, "post">>, <<2, "post">>, <<3, "pre">>}

\* The system's pages are alike.
AnyPage == Permutations(Page)
=============================================================================
