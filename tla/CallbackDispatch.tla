--------------------------- MODULE CallbackDispatch ---------------------------
(***************************************************************************)
(* The callbacks the JIT compiler writes for the engine's and the game     *)
(* DLL's functions (callback_jit_orchestration.cpp, callback_jit.cpp), and *)
(* meta_rebuild_callbacks (metamod.cpp), which replaces their code while   *)
(* some of them wait on the stack for a plugin to return.                  *)
(*                                                                         *)
(* A callback runs from one call it makes to the next without interruption *)
(* (there is one server thread), so a step takes a frame of the stack from *)
(* one call site to the next.  The code being called, a plugin's handler   *)
(* or the original function, may call hooked functions again, and may load *)
(* and unload plugins, itself or through the server console.               *)
(*                                                                         *)
(* A rebuild unmaps the pages of the callbacks and maps new ones.  Here    *)
(* they are taken to come where the old ones were, which is kindest to a   *)
(* return address that was not moved: it is right when the same plugins    *)
(* are compiled in, and so the same layout is in memory.  CallbackMemory   *)
(* lets the pages come anywhere.                                           *)
(***************************************************************************)
EXTENDS Integers, Sequences, FiniteSets

CONSTANTS
  NumPlugins,  \* plugins 1..NumPlugins, in list order
  Fn,          \* the hooked functions
  Originals,   \* those of them the game DLL or the engine implements
  Hooks,       \* <<plugin, function, "pre" or "post">>: the handlers in the tables
  Answers,     \* the META_RES values that plugins set
  MaxDepth     \* bound on the callbacks that wait for one another

Plugin == 1..NumPlugins

ASSUME NumPluginsAssumption == NumPlugins \in Nat
ASSUME OriginalsAssumption  == Originals \subseteq Fn
ASSUME HooksAssumption      == Hooks \subseteq Plugin \X Fn \X {"pre", "post"}
ASSUME MaxDepthAssumption   == MaxDepth \in Nat

\* META_RES: "order is crucial, as greater/less comparisons are made".
MRES_UNSET     == 0
MRES_IGNORED   == 1
MRES_HANDLED   == 2
MRES_OVERRIDE  == 3
MRES_SUPERCEDE == 4
Result         == MRES_UNSET..MRES_SUPERCEDE

ASSUME AnswersAssumption == Answers \subseteq MRES_IGNORED..MRES_SUPERCEDE

\* Where a return value comes from: a plugin (its number), the original, the
\* TRUE or 0 that stands for a missing original, or an unwritten stack slot.
FromOriginal == 0
FromDefault  == -1
Unwritten    == -2
Value        == Plugin \cup {FromOriginal, FromDefault, Unwritten}

\* The call a frame waits for.
Site == ({"pre", "post"} \X Plugin) \cup {<<"original", 0>>}

\* g_metaGlobals.  esp_save, the address of a frame's backup, is the number
\* of that frame; orig_ret and override_ret point into the same frame.
Globals == [mres : Result, prev_mres : Result, status : Result, esp_save : 0..MaxDepth]

\* What is compiled: the plugins whose handlers are called, and whether the
\* functions that have an original are wrapped at all.
Layout == [plugins : SUBSET Plugin, wraps : BOOLEAN]

\* A callback on the stack.  into: the layout its return address points into.
\* owed records history: the handlers that have to be called before it ends.
Frame == [fn : Fn, at : Site, into : Layout, backup : Globals,
          orig_ret : Value, over_ret : Value, owed : SUBSET ({"pre", "post"} \X Plugin)]

VARIABLES
  g,        \* g_metaGlobals
  stack,    \* the callbacks under way, the innermost last
  code,     \* the layout of the callbacks in memory
  status,   \* of each plugin: "gone", "running" or "paused"
  returned, \* the value of the callback that has just ended, else Unwritten
  noted,    \* the message id that mm_RegUserMsg took down for it
  mode      \* "alive"; "exited" by Sys_Error; "lost" when the code goes astray

vars == <<g, stack, code, status, returned, noted, mode>>

Init ==
  /\ g = [mres |-> MRES_UNSET, prev_mres |-> MRES_UNSET, status |-> MRES_UNSET, esp_save |-> 0]
  /\ stack = <<>>
  /\ code = [plugins |-> {}, wraps |-> FALSE]
  /\ status = [i \in Plugin |-> "gone"]
  /\ returned = Unwritten
  /\ noted = Unwritten
  /\ mode = "alive"

----------------------------------------------------------------------------
(* One callback, from one call site to the next: operators on a stack s    *)
(* and the contents m of g_metaGlobals, that give what both become and the *)
(* value returned, if the callback ends.                                   *)

Least(S) == CHOOSE i \in S : \A j \in S : i <= j

\* The handlers of one of the loops that the code after plugin i still calls.
Handlers(fn, phase, i) ==
  {j \in code.plugins : j > i /\ status[j] = "running" /\ <<j, fn, phase>> \in Hooks}

\* prev_mres = mres, mres = MRES_IGNORED, and the call.
Invoke(s, m, phase, i) ==
  [stack |-> [s EXCEPT ![Len(s)].at = <<phase, i>>, ![Len(s)].owed = @ \ {<<phase, i>>}],
   g |-> [m EXCEPT !.prev_mres = m.mres, !.mres = MRES_IGNORED],
   returned |-> Unwritten, noted |-> Unwritten]

\* Mutant: the id is always the original's.
NotedOriginal(f, m) == f.orig_ret

\* mm_RegUserMsg, which runs after the plugins: where it reads the id from.
Noted(f, m) == IF m.status = MRES_OVERRIDE THEN f.over_ret ELSE f.orig_ret

\* Mutant: g_metaGlobals is not restored.
LeaveUnrestored(s, m) ==
  LET f == s[Len(s)]
  IN [stack |-> SubSeq(s, 1, Len(s) - 1), g |-> m, noted |-> Noted(f, m),
      returned |-> IF m.status >= MRES_OVERRIDE THEN f.over_ret ELSE f.orig_ret]

\* The end of the callback: the value is chosen, g_metaGlobals restored.
Leave(s, m) ==
  LET f == s[Len(s)]
  IN [stack |-> SubSeq(s, 1, Len(s) - 1), g |-> f.backup, noted |-> Noted(f, m),
      returned |-> IF m.status >= MRES_OVERRIDE THEN f.over_ret ELSE f.orig_ret]

PostFrom(s, m, i) ==
  LET left == Handlers(s[Len(s)].fn, "post", i)
  IN IF left = {} THEN Leave(s, m) ELSE Invoke(s, m, "post", Least(left))

\* The original call, with its short cuts.
OriginalOf(s, m) ==
  LET top == Len(s)
  IN IF m.status = MRES_SUPERCEDE
     THEN PostFrom([s EXCEPT ![top].orig_ret = s[top].over_ret], m, 0)
     ELSE IF s[top].fn \notin Originals
     THEN PostFrom([s EXCEPT ![top].orig_ret = FromDefault], m, 0)
     ELSE [stack |-> [s EXCEPT ![top].at = <<"original", 0>>], g |-> m,
           returned |-> Unwritten, noted |-> Unwritten]

\* Mutant: a plugin that supersedes ends the loop.
PreFromUnlessSuperceded(s, m, i) ==
  LET left == Handlers(s[Len(s)].fn, "pre", i)
  IN IF left = {} \/ m.status = MRES_SUPERCEDE THEN OriginalOf(s, m)
     ELSE Invoke(s, m, "pre", Least(left))

PreFrom(s, m, i) ==
  LET left == Handlers(s[Len(s)].fn, "pre", i)
  IN IF left = {} THEN OriginalOf(s, m) ELSE Invoke(s, m, "pre", Least(left))

Continue(step) ==
  /\ stack' = step.stack
  /\ g' = step.g
  /\ returned' = step.returned
  /\ noted' = step.noted
  /\ UNCHANGED <<code, status, mode>>

Top == Len(stack)

\* is_hook_needed, when the callbacks were compiled; else the original is
\* called directly and there is no frame.  The functions that Metamod hooks
\* itself are always wrapped; they are not told apart here, because no property
\* is about a call in which no plugin has a part.
Wrapped(fn) == fn \notin Originals \/ code.wraps

\* The code that runs, whatever it is, calls a hooked function.
Call(fn) ==
  /\ mode = "alive"
  /\ Wrapped(fn)
  /\ Top < MaxDepth
  /\ LET due   == {x \in {"pre", "post"} \X Plugin : x[2] \in Handlers(fn, x[1], 0)}
         frame == [fn |-> fn, at |-> <<"original", 0>>, into |-> code, backup |-> g,
                   orig_ret |-> Unwritten, over_ret |-> Unwritten, owed |-> due]
         own   == [g EXCEPT !.mres = MRES_UNSET, !.status = MRES_UNSET, !.esp_save = Top + 1]
     IN Continue(PreFrom(Append(stack, frame), own, 0))

InHandler  == mode = "alive" /\ Top > 0 /\ stack[Top].at[1] # "original"
InOriginal == mode = "alive" /\ Top > 0 /\ stack[Top].at[1] = "original"

\* SET_META_RESULT, by the handler that runs.
SetResult(mres) ==
  /\ InHandler
  /\ g' = [g EXCEPT !.mres = mres]
  /\ returned' = Unwritten
  /\ noted' = Unwritten
  /\ UNCHANGED <<stack, code, status, mode>>

Highest(a, b) == IF a > b THEN a ELSE b

\* Mutant: the update of the status clobbers the register of the value.
OverrideClobbered(i, old) == IF g.mres >= MRES_OVERRIDE THEN g.mres ELSE old

\* emit_save_override: the value of plugin i, if its result says so.
Override(i, old) == IF g.mres >= MRES_OVERRIDE THEN i ELSE old

\* A handler returns: status = max(status, mres), and its value is kept if
\* mres says so.  A handler's value is its plugin's number.
HandlerReturn ==
  /\ InHandler
  /\ stack[Top].into = code
  /\ LET phase == stack[Top].at[1]
         i     == stack[Top].at[2]
         m     == [g EXCEPT !.status = Highest(g.mres, @)]
         s     == [stack EXCEPT ![Top].over_ret = Override(i, @)]
     IN Continue(IF phase = "pre" THEN PreFrom(s, m, i) ELSE PostFrom(s, m, i))

OriginalReturn ==
  /\ InOriginal
  /\ stack[Top].into = code
  /\ Continue(PostFrom([stack EXCEPT ![Top].orig_ret = FromOriginal], g, 0))

\* The return address points into code that is there no more.
ReturnAstray ==
  /\ mode = "alive"
  /\ Top > 0
  /\ stack[Top].into # code
  /\ mode' = "lost"
  /\ UNCHANGED <<g, stack, code, status, returned, noted>>

----------------------------------------------------------------------------
(* meta_rebuild_callbacks.                                                 *)

\* is_callback_retaddr: only the calls of handlers are registered, not those
\* of originals.
Registered(k) == stack[k].at[1] # "original" /\ stack[k].into = code

\* Mutant: the chain is not followed to the frames further out.
ChainOfOne == {g.esp_save} \ {0}

\* The frames meta_collect_fix_data visits along esp_save.
Chain ==
  {k \in 1..Top : \E n \in 1..Top : \E walk \in [1..n -> 1..Top] :
                   /\ walk[1] = g.esp_save /\ walk[n] = k
                   /\ \A m \in 1..(n - 1) : walk[m + 1] = stack[walk[m]].backup.esp_save}

\* From the backup of frame k the stack is scanned downwards, through the
\* frames further in, for the first registered return address.
Hits(k) == {j \in k..Top : Registered(j)}

Collected == {Least(Hits(k)) : k \in {j \in Chain : Hits(j) # {}}}

\* Mutant: a site that is not found is left as it is.
UnfoundIgnored(plugins) == Collected \cap {k \in 1..Top : stack[k].at[2] \notin Plugin}

\* The call sites that the new code does not have.
Unfound(plugins) == {k \in Collected : stack[k].at[2] \notin plugins}

\* A scan that finds nothing goes on below the stack: it may meet an old
\* return address there, or memory that cannot be read.
Overruns == \E k \in Chain : Hits(k) = {}

\* The frames s are moved to the code for plugins; those in tabled have
\* function tables.
Rebuild(s, plugins, tabled) ==
  /\ code' = [plugins |-> plugins, wraps |-> tabled # {}]
  /\ IF Unfound(plugins) # {}
     THEN mode' = "exited" /\ stack' = s
     ELSE /\ mode' \in IF Overruns THEN {"alive", "lost"} ELSE {"alive"}
          /\ stack' = [k \in 1..Top |-> IF k \in Collected THEN [s[k] EXCEPT !.into = code']
                                                           ELSE s[k]]

Loaded(statuses) == {i \in Plugin : statuses[i] # "gone"}

\* Nobody owes plugin i a call any more.
Released(i) == [k \in 1..Top |-> [stack[k] EXCEPT !.owed = {x \in @ : x[2] # i}]]

\* meta load, mutil_LoadMetaPlugin, or a refresh that loads one plugin.
LoadPlugin(i) ==
  /\ mode = "alive"
  /\ status[i] = "gone"
  /\ status' = [status EXCEPT ![i] = "running"]
  /\ Rebuild(stack, Loaded(status'), Loaded(status'))
  /\ UNCHANGED <<g, returned, noted>>

UnloadPlugin(i) ==
  /\ mode = "alive"
  /\ status[i] # "gone"
  /\ status' = [status EXCEPT ![i] = "gone"]
  /\ Rebuild(Released(i), Loaded(status'), Loaded(status'))
  /\ UNCHANGED <<g, returned, noted>>

\* meta reload: rebuilt while the plugin is out, its tables still there, and
\* not when it is back.
ReloadPlugin(i) ==
  /\ mode = "alive"
  /\ status[i] # "gone"
  /\ status' = [status EXCEPT ![i] = "running"]
  /\ Rebuild(Released(i), Loaded(status) \ {i}, Loaded(status))
  /\ UNCHANGED <<g, returned, noted>>

\* The end of a refresh, or mutil_LoadMetaPlugin of a plugin that is there.
Refresh ==
  /\ mode = "alive"
  /\ Rebuild(stack, Loaded(status), Loaded(status))
  /\ UNCHANGED <<g, status, returned, noted>>

PausePlugin(i) ==
  /\ mode = "alive"
  /\ status[i] = "running"
  /\ status' = [status EXCEPT ![i] = "paused"]
  /\ stack' = Released(i)
  /\ UNCHANGED <<g, code, returned, noted, mode>>

UnpausePlugin(i) ==
  /\ mode = "alive"
  /\ status[i] = "paused"
  /\ status' = [status EXCEPT ![i] = "running"]
  /\ UNCHANGED <<g, stack, code, returned, noted, mode>>

Next ==
  \/ \E fn \in Fn : Call(fn)
  \/ \E mres \in Answers : SetResult(mres)
  \/ HandlerReturn
  \/ OriginalReturn
  \/ ReturnAstray
  \/ \E i \in Plugin : \/ LoadPlugin(i)
                       \/ UnloadPlugin(i)
                       \/ ReloadPlugin(i)
                       \/ PausePlugin(i)
                       \/ UnpausePlugin(i)
  \/ Refresh

Spec == Init /\ [][Next]_vars

----------------------------------------------------------------------------
(* Properties.                                                             *)

\* Every variable has its type.
TypeOK ==
  /\ g \in Globals
  /\ stack \in Seq(Frame) /\ Top <= MaxDepth
  /\ code \in Layout
  /\ status \in [Plugin -> {"gone", "running", "paused"}]
  /\ returned \in Value /\ noted \in Value
  /\ mode \in {"alive", "exited", "lost"}

\* A plugin may be loaded, unloaded and reloaded by any code that is called
\* from any number of callbacks: a callback that waits for a handler always
\* finds its way back into the code that is now in memory.
HandlersReturn ==
  mode = "alive" => \A k \in 1..Top : stack[k].at[1] # "original" => stack[k].into = code

\* No handler is on the stack of a plugin whose module has been closed: the
\* server exits rather than return into it.
HandlersStayLoaded ==
  mode = "alive" => \A k \in 1..Top : stack[k].at[1] # "original" => status[stack[k].at[2]] # "gone"

\* A plugin that is compiled in and running from the moment a function is
\* called until the call ends gets each of its handlers called, whatever the
\* other plugins answer, and whoever is loaded or unloaded meanwhile.
NobodySkipped ==
  [][/\ Top > 0 /\ Len(stack') < Top => stack[Top].owed = {}
     /\ \A k \in 1..Top :
          k <= Len(stack') /\ stack'[k].at[1] # "pre" => \A x \in stack'[k].owed : x[1] = "post"]_vars

\* A call that ends hands out what a plugin or the original has left, never a
\* slot of the frame that nobody wrote, and neither does mm_RegUserMsg, which
\* is to "add the msgid" to a list of ids (engine_api.cpp:17) and finds it by a
\* test of its own: unless a plugin superseded (where the test takes
\* MRES_SUPERCEDE for no override), the id saved is the id returned.
SavedIdReturned ==
  [][Len(stack') < Top =>
       /\ returned' # Unwritten /\ noted' # Unwritten
       /\ MRES_SUPERCEDE \notin {g.mres, g.status} => noted' = returned']_vars

\* What g_metaGlobals holds while call k runs.
Own(k) == IF k = Top THEN g ELSE stack[k + 1].backup

\* The call of frame f, when m is what g_metaGlobals holds while it runs.
View(f, m) == [fn |-> f.fn, at |-> f.at, mres |-> m.mres,
               prev |-> IF f.at[1] = "original" THEN MRES_UNSET ELSE m.prev_mres,
               status |-> m.status, orig |-> f.orig_ret, over |-> f.over_ret]

Calls == [k \in 1..Top |-> View(stack[k], Own(k))]

Contract == INSTANCE DispatchContract WITH calls <- Calls

\* g_metaGlobals is one variable for all calls, saved and restored around
\* each: every call behaves as if it had its own.
ContractKept == Contract!Spec

----------------------------------------------------------------------------
(* What the documentation says and the code does not do.                   *)

\* esp_save serves "to walk paused callbacks across rebuild"
\* (callback_jit_orchestration.cpp:260): every paused callback finds its way
\* back, those that wait for the original too.
PausedCallbacksReturn == mode = "alive" => \A k \in 1..Top : stack[k].into = code
=============================================================================
