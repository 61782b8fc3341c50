--------------------------- MODULE DispatchContract ---------------------------
(***************************************************************************)
(* What a hooked function promises its plugins and its caller              *)
(* (CallbackDispatch implements it): every call has meta globals of its    *)
(* own, as if g_metaGlobals were a parameter.  Plugins answer one after    *)
(* the other, in list order; the original runs unless one of those before  *)
(* it superseded it; the value that comes back is the last one a plugin of *)
(* this very call put in place of the original's.                          *)
(***************************************************************************)
EXTENDS Integers, Sequences

CONSTANTS
  Plugin,       \* the plugins, by their place in the list
  Fn,           \* the hooked functions
  Originals     \* those of them the game DLL or the engine implements

\* META_RES, in its order.
UNSET     == 0
IGNORED   == 1
HANDLED   == 2
OVERRIDE  == 3
SUPERCEDE == 4

\* Where a value comes from, when it is not the plugin of that number.
FromOriginal == 0
FromDefault  == -1
Nowhere      == -2

VARIABLES
  calls,    \* the calls under way, the innermost last
  returned  \* the value of the call that has just ended, else Nowhere

vars == <<calls, returned>>

Init == calls = <<>> /\ returned = Nowhere

New(fn) == [fn |-> fn, at |-> <<"start", 0>>, mres |-> UNSET, prev |-> UNSET,
            status |-> UNSET, orig |-> Nowhere, over |-> Nowhere]

\* What c is when the plugin or the original it waits for has returned.
Settled(c) ==
  IF c.at[1] = "original" THEN [c EXCEPT !.orig = FromOriginal]
  ELSE [c EXCEPT !.status = IF c.mres > @ THEN c.mres ELSE @,
                 !.over = IF c.mres >= OVERRIDE THEN c.at[2] ELSE @]

\* c once it is settled that the original runs no more.
PastOriginal(c) ==
  IF c.at[1] \in {"original", "post"} THEN {c}
  ELSE IF c.status = SUPERCEDE THEN {[c EXCEPT !.orig = c.over]}
  ELSE IF c.fn \notin Originals THEN {[c EXCEPT !.orig = FromDefault]}
  ELSE {}

Asked(c, phase, i) == [c EXCEPT !.at = <<phase, i>>, !.prev = c.mres, !.mres = IGNORED]

\* The next plugin, or the original, that a settled c may wait for.
Following(c) ==
  {Asked(c, "pre", i) : i \in {j \in Plugin : c.at[1] \in {"start", "pre"} /\ j > c.at[2]}}
  \cup {[d EXCEPT !.at = <<"original", 0>>, !.prev = UNSET] :
          d \in {x \in {c} : x.at[1] \in {"start", "pre"} /\ x.status # SUPERCEDE
                               /\ x.fn \in Originals}}
  \cup UNION {{Asked(d, "post", i) :
                 i \in {j \in Plugin : d.at[1] = "post" => j > d.at[2]}} : d \in PastOriginal(c)}

Value(c) == IF c.status >= OVERRIDE THEN c.over ELSE c.orig

Top == Len(calls)

\* A call begins; without an original and without a plugin it ends at once.
Begin(fn) ==
  \/ \E c \in Following(New(fn)) : calls' = Append(calls, c) /\ returned' = Nowhere
  \/ \E c \in PastOriginal(New(fn)) : returned' = Value(c) /\ UNCHANGED calls

\* The plugin that is asked sets its answer; only its own call sees it.
Answer(mres) ==
  /\ Top > 0 /\ calls[Top].at[1] # "original"
  /\ calls' = [calls EXCEPT ![Top].mres = mres]
  /\ returned' = Nowhere

Resume ==
  /\ Top > 0
  /\ \/ \E c \in Following(Settled(calls[Top])) :
          calls' = [calls EXCEPT ![Top] = c] /\ returned' = Nowhere
     \/ \E c \in PastOriginal(Settled(calls[Top])) :
          returned' = Value(c) /\ calls' = SubSeq(calls, 1, Top - 1)

Next ==
  \/ \E fn \in Fn : Begin(fn)
  \/ \E mres \in IGNORED..SUPERCEDE : Answer(mres)
  \/ Resume

Spec == Init /\ [][Next]_vars
=============================================================================
