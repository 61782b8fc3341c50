--------------------------- MODULE PluginRequests ---------------------------
(***************************************************************************)
(* Requests of plugins to load and unload one another (mutil.cpp,          *)
(* MPluginList::plugin_addload, MPlugin::plugin_unload), as calls that     *)
(* nest: load() and unload() call into the plugin they work on, and any    *)
(* plugin's code that runs meanwhile may make the next request, or have    *)
(* the engine execute a "meta" command.  PluginLifecycle takes each of     *)
(* these operations as one step; here they are taken apart at the calls    *)
(* of GiveFnptrsToDll / Meta_Query, Meta_Attach and Meta_Detach.           *)
(*                                                                         *)
(* Requests that change nothing (of an unknown plugin or path, of the      *)
(* caller itself, of a plugin that m_is_unloader protects) are left out.   *)
(* Of the commands, load, unload, force_unload and clear are here, and so  *)
(* is what a pause, an unload, a reload or a retry leaves behind when it   *)
(* is refused or put off, and a refresh for a plugin that it keeps         *)
(* (CmdRefused).  A reload or a retry that goes through, and what else a   *)
(* refresh does, are steps of PluginLifecycle only.  PL_RUNNING stands for *)
(* PL_PAUSED as well.                                                      *)
(***************************************************************************)
EXTENDS Integers, Sequences

CONSTANTS
  AtStartup,   \* plugins 1..AtStartup were loaded from plugins.ini
  MaxPlugins,  \* bound on the entries ever added to the list
  MaxDepth     \* bound on the calls into plugins that wait for one another

ASSUME StartupAssumption == AtStartup \in Nat /\ MaxPlugins \in Nat /\ AtStartup <= MaxPlugins
ASSUME DepthAssumption   == MaxDepth \in Nat

Slot == 1..MaxPlugins

\* PLUG_STATUS: "order is important, as greater/less comparisons are made".
PL_EMPTY   == 0
PL_VALID   == 1
PL_BADFILE == 2
PL_OPENED  == 3
PL_FAILED  == 4
PL_RUNNING == 5
Status     == PL_EMPTY..PL_RUNNING

Action == {"PA_NULL", "PA_NONE", "PA_LOAD", "PA_UNLOAD", "PA_RELOAD"}

\* The requester that stands for plugins.ini and the console, and what is
\* left of the index of a loader that has been unloaded.
Nobody   == 0
Unloaded == -1

\* One MPlugin.  source: m_source_plugin_index; unloader: m_is_unloader; open:
\* the module handle is set.
Plugin == [status   : Status,
           action   : Action,
           source   : Slot \cup {Nobody, Unloaded},
           unloader : BOOLEAN,
           open     : BOOLEAN]

\* A plugin may pass any reason in its request.  PNL_CMD_FORCED stands for
\* PNL_RELOAD as well, which differs in the load times only; all the others
\* are like PNL_PLUGIN.
Reason == {"PNL_NULL", "PNL_COMMAND", "PNL_CMD_FORCED", "PNL_PLUGIN"}

(***************************************************************************)
(* A call into a plugin that has not returned.  requester: the plugin that *)
(* asked for the load or unload.  old: the local old_action.  Two fields   *)
(* record history: again, the requester has made and ended another request *)
(* since; gone, the module has been closed under the call.                 *)
(***************************************************************************)
Kind  == {"handler", "command", "query", "attach", "detach"}
Frame == [kind : Kind, plugin : Slot, requester : Slot \cup {Nobody},
          reason : Reason, old : Action, again : BOOLEAN, gone : BOOLEAN]

VARIABLES
  plug,    \* m_plugins, by m_index; slots above last are unused
  last,    \* m_last_index
  stack,   \* the calls under way, the innermost last
  hooked,  \* the plugins the callbacks were last compiled for
  dropped, \* history: plugins whose pending action was dropped during their Meta_Detach
  mode     \* "alive", or "exited" by Sys_Error

vars == <<plug, last, stack, hooked, dropped, mode>>

Top    == Len(stack)
Live   == {i \in 1..last : plug[i].status >= PL_VALID}
Detaching(i) == \E k \in 1..Top : stack[k].kind = "detach" /\ stack[k].plugin = i

\* What meta_rebuild_callbacks compiles: forward_callbacks looks at the status.
Rebuilt(list) == {i \in Slot : list[i].status >= PL_RUNNING}

EmptySlot == [status |-> PL_EMPTY, action |-> "PA_NULL", source |-> Nobody,
              unloader |-> FALSE, open |-> FALSE]

\* After startup every plugin of plugins.ini runs.
Init ==
  /\ plug = [i \in Slot |->
               IF i > AtStartup THEN EmptySlot
               ELSE [EmptySlot EXCEPT !.status = PL_RUNNING, !.action = "PA_NONE", !.open = TRUE]]
  /\ last = AtStartup
  /\ stack = <<>>
  /\ hooked = 1..AtStartup
  /\ dropped = {}
  /\ mode = "alive"

\* Code that can go on runs: the engine's, or that of the innermost call.
\* Nothing is said of what follows when a call returns into a closed module.
Going == mode = "alive" /\ (Top > 0 => ~stack[Top].gone)

\* The plugin whose code runs.
Caller == stack[Top].plugin
InPlugin == Going /\ Top > 0

\* Mutant: a request that fails always leaves PA_NONE behind.
CallActionLost(kind, i, requester, reason) ==
  [kind |-> kind, plugin |-> i, requester |-> requester, reason |-> reason,
   old |-> IF kind = "detach" /\ requester # Nobody THEN "PA_NONE" ELSE "PA_NULL",
   again |-> FALSE, gone |-> FALSE]

\* A call into plugin i begins.
Call(kind, i, requester, reason) ==
  [kind |-> kind, plugin |-> i, requester |-> requester, reason |-> reason,
   old |-> IF kind = "detach" /\ requester # Nobody THEN plug[i].action ELSE "PA_NULL",
   again |-> FALSE, gone |-> FALSE]

Popped(s) == SubSeq(s, 1, Len(s) - 1)

\* History: the other requests of plugin p know that this one has ended.
Marked(s, p) ==
  [k \in 1..Len(s) |-> IF s[k].requester = p /\ p # Nobody THEN [s[k] EXCEPT !.again = TRUE] ELSE s[k]]

----------------------------------------------------------------------------
(* Calls of a plugin's own code.                                           *)

\* A hooked function, or a registered command, of plugin i is called.
EnterPlugin(i, kind) ==
  /\ Going
  /\ Top < MaxDepth
  /\ kind \in {"handler", "command"}
  /\ plug[i].open
  /\ kind = "handler" => i \in hooked /\ plug[i].status = PL_RUNNING
  /\ stack' = Append(stack, Call(kind, i, Nobody, "PNL_NULL"))
  /\ UNCHANGED <<plug, last, hooked, dropped, mode>>

LeavePlugin ==
  /\ InPlugin
  /\ stack[Top].kind \in {"handler", "command"}
  /\ stack' = Popped(stack)
  /\ UNCHANGED <<plug, last, hooked, dropped, mode>>

----------------------------------------------------------------------------
(* Loading.                                                                *)

\* plugin_addload or cmd_addload, and load() up to the calls in query().
BeginLoad(requester) ==
  /\ last < MaxPlugins
  /\ Top < MaxDepth
  /\ LET i == last + 1
     IN /\ last' = i
        /\ plug' = [plug EXCEPT ![i] = [status |-> PL_VALID, action |-> "PA_LOAD",
                                        source |-> requester, unloader |-> FALSE, open |-> TRUE]]
        /\ stack' = Append(stack, Call("query", i, requester, "PNL_NULL"))
  /\ UNCHANGED <<hooked, dropped, mode>>

LoadRequest == InPlugin /\ BeginLoad(Caller)
CmdLoad     == Going /\ BeginLoad(Nobody)

\* The query fails: load() closes the file.
QueryFails ==
  /\ InPlugin
  /\ stack[Top].kind = "query"
  /\ plug' = [plug EXCEPT ![Caller].status = PL_BADFILE, ![Caller].open = FALSE]
  /\ stack' = Popped(stack)
  /\ UNCHANGED <<last, hooked, dropped, mode>>

\* The query succeeds, but the plugin cannot be attached at this time.  m_action
\* stays as it is when the load is delayed and is PA_NONE when it never can be;
\* nothing here reads it of a plugin that does not run.
LoadPutOff ==
  /\ InPlugin
  /\ stack[Top].kind = "query"
  /\ plug' = [plug EXCEPT ![Caller].status = PL_OPENED]
  /\ stack' = Popped(stack)
  /\ UNCHANGED <<last, hooked, dropped, mode>>

QuerySucceeds ==
  /\ InPlugin
  /\ stack[Top].kind = "query"
  /\ plug' = [plug EXCEPT ![Caller].status = PL_OPENED]
  /\ stack' = [stack EXCEPT ![Top].kind = "attach"]
  /\ UNCHANGED <<last, hooked, dropped, mode>>

\* Mutant: an attached plugin gets the status after PL_RUNNING.
AttachReturnsPaused(agrees) ==
  /\ InPlugin
  /\ stack[Top].kind = "attach"
  /\ plug' = [plug EXCEPT ![Caller].status = IF agrees THEN PL_RUNNING + 1 ELSE PL_FAILED]
  /\ hooked' = IF agrees THEN Rebuilt(plug') ELSE hooked
  /\ stack' = Popped(stack)
  /\ UNCHANGED <<last, dropped, mode>>

\* mutil_LoadMetaPlugin and cmd_addload rebuild after a load that succeeds.
AttachReturns(agrees) ==
  /\ InPlugin
  /\ stack[Top].kind = "attach"
  /\ plug' = [plug EXCEPT ![Caller] =
                IF agrees THEN [@ EXCEPT !.status = PL_RUNNING, !.action = "PA_NONE"]
                          ELSE [@ EXCEPT !.status = PL_FAILED]]
  /\ hooked' = IF agrees THEN Rebuilt(plug') ELSE hooked
  /\ stack' = Popped(stack)
  /\ UNCHANGED <<last, dropped, mode>>

----------------------------------------------------------------------------
(* Unloading.                                                              *)

\* Mutant: m_is_unloader of the plugin to unload is not looked at.
UnloadRequestUnguarded(i, reason) ==
  /\ InPlugin
  /\ Top < MaxDepth
  /\ reason \in {"PNL_PLUGIN", "PNL_CMD_FORCED"}
  /\ i \in Live \ {Caller}
  /\ plug[i].open
  /\ plug[i].status >= PL_RUNNING \/ reason = "PNL_CMD_FORCED"
  /\ plug' = [plug EXCEPT ![i].action = "PA_UNLOAD", ![Caller].unloader = TRUE]
  /\ stack' = Append(stack, Call("detach", i, Caller, reason))
  /\ UNCHANGED <<last, hooked, dropped, mode>>

\* plugin_unload up to the call of Meta_Detach.
UnloadRequest(i, reason) ==
  /\ InPlugin
  /\ Top < MaxDepth
  /\ reason \in {"PNL_PLUGIN", "PNL_CMD_FORCED"}
  /\ i \in Live \ {Caller}
  /\ ~plug[i].unloader
  /\ plug[i].open
  /\ plug[i].status >= PL_RUNNING \/ reason = "PNL_CMD_FORCED"
  /\ plug' = [plug EXCEPT ![i].action = "PA_UNLOAD", ![Caller].unloader = TRUE]
  /\ stack' = Append(stack, Call("detach", i, Caller, reason))
  /\ UNCHANGED <<last, hooked, dropped, mode>>

\* Mutant: the flag is not taken back when unload() refuses.
RequestRefusedKeepsFlag(i) ==
  /\ InPlugin
  /\ i \in Live \ {Caller}
  /\ ~plug[i].unloader
  /\ plug' = [plug EXCEPT ![Caller].unloader = TRUE]
  /\ stack' = Marked(stack, Caller)
  /\ UNCHANGED <<last, hooked, dropped, mode>>

\* plugin_unload when unload() returns before Meta_Detach: plugin i does not
\* run, or cannot leave at this time.  m_action is as before, the flag of the
\* caller is off, whatever it was.
RequestRefused(i) ==
  /\ InPlugin
  /\ i \in Live \ {Caller}
  /\ ~plug[i].unloader
  /\ plug' = [plug EXCEPT ![Caller].unloader = FALSE]
  /\ stack' = Marked(stack, Caller)
  /\ UNCHANGED <<last, hooked, dropped, mode>>

\* The states that clear() accepts.
Clearable == {PL_EMPTY, PL_BADFILE, PL_OPENED, PL_FAILED}

\* Mutant: the plugins that i has loaded keep its index.
ClosedSourcesKept(list, i) ==
  [list EXCEPT ![i] =
     CASE @.action = "PA_RELOAD" ->
            [@ EXCEPT !.status = PL_VALID, !.action = "PA_LOAD", !.open = FALSE]
       [] @.action = "PA_UNLOAD" \/ (@.action # "PA_RELOAD" /\ @.status \in Clearable) ->
            EmptySlot
       [] OTHER -> [@ EXCEPT !.open = FALSE]]

\* unload() from the close of the file on, except for the callbacks.
Closed(list, i) ==
  LET sourced == [j \in Slot |-> IF list[j].source = i THEN [list[j] EXCEPT !.source = Unloaded]
                                                       ELSE list[j]]
  IN [sourced EXCEPT ![i] =
        CASE @.action = "PA_RELOAD" ->
               [@ EXCEPT !.status = PL_VALID, !.action = "PA_LOAD", !.open = FALSE]
          [] @.action = "PA_UNLOAD" \/ (@.action # "PA_RELOAD" /\ @.status \in Clearable) ->
               EmptySlot
          [] OTHER -> [@ EXCEPT !.open = FALSE]]

\* The calls of s, when the module of plugin i is closed.
Orphaned(s, i) ==
  [k \in 1..Len(s) |-> IF s[k].plugin = i THEN [s[k] EXCEPT !.gone = TRUE] ELSE s[k]]

\* Mutant: unload() leaves the callbacks to its callers.
RebuildForgotten(s, list, i) == UNCHANGED <<hooked, mode>>

\* The rebuild, which does not survive a plugin that has a callback waiting
\* for one of its handlers and is not compiled any more.
RebuildAfter(s, list, i) ==
  /\ hooked' = Rebuilt(list)
  /\ mode' = IF \E k \in 1..Len(s) : s[k].kind = "handler" /\ s[k].plugin = i /\ i \notin hooked'
             THEN "exited" ELSE mode

\* The end of plugin_unload: the flag of the requester p is taken back.
Ended(list, p) == IF p = Nobody THEN list ELSE [list EXCEPT ![p].unloader = FALSE]

\* unload() from the return of Meta_Detach on, and the rest of its caller.
DetachReturns(agrees) ==
  LET f == stack[Top]
      i == f.plugin
      p == f.requester
  IN /\ InPlugin
     /\ f.kind = "detach"
     /\ IF agrees \/ f.reason = "PNL_CMD_FORCED"
        THEN /\ plug' = Ended(Closed(plug, i), p)
             /\ stack' = Marked(Orphaned(Popped(stack), i), p)
             /\ RebuildAfter(Popped(stack), plug', i)
        ELSE /\ plug' = Ended([plug EXCEPT ![i].action =
                                 IF p = Nobody THEN @ ELSE f.old], p)
             /\ stack' = Marked(Popped(stack), p)
             /\ UNCHANGED <<hooked, mode>>
     /\ UNCHANGED <<last, dropped>>

\* meta unload and meta force_unload of a plugin whose module is open.
CmdUnload(i, reason) ==
  /\ Going
  /\ Top < MaxDepth
  /\ reason \in {"PNL_COMMAND", "PNL_CMD_FORCED"}
  /\ i \in Live
  /\ plug[i].open
  /\ plug[i].status >= PL_RUNNING \/ reason = "PNL_CMD_FORCED"
  /\ plug' = [plug EXCEPT ![i].action = "PA_UNLOAD"]
  /\ stack' = Append(stack, Call("detach", i, Nobody, reason))
  /\ UNCHANGED <<last, hooked, dropped, mode>>

\* unload() of a plugin whose module is closed, by force or because it is said
\* to run: detach() has nobody to call.
UnloadClosed(i, requester) ==
  /\ i \in Live
  /\ ~plug[i].open
  /\ plug' = Ended(Closed([plug EXCEPT ![i].action = "PA_UNLOAD"], i), requester)
  /\ stack' = Marked(stack, requester)
  /\ hooked' = Rebuilt(plug')
  /\ UNCHANGED <<last, dropped, mode>>

RequestUnloadClosed(i) ==
  /\ InPlugin
  /\ i # Caller
  /\ ~plug[i].unloader
  /\ UnloadClosed(i, Caller)

CmdUnloadClosed(i) == Going /\ UnloadClosed(i, Nobody)

\* meta clear: the module is closed without unload(), so the plugins that i
\* has loaded keep its index.
CmdClear(i) ==
  /\ Going
  /\ i \in Live
  /\ plug[i].status \in Clearable
  /\ plug' = [plug EXCEPT ![i] = EmptySlot]
  /\ stack' = Orphaned(stack, i)
  /\ UNCHANGED <<last, hooked, dropped, mode>>

\* A command that stops at one of its checks.  meta unload leaves PA_UNLOAD
\* when the plugin does not run or cannot leave yet, meta reload PA_RELOAD when
\* it has to wait for another time; these two, and meta pause of a plugin that
\* does not allow it, leave PA_NONE when the plugin never allows it.  meta retry
\* ends like the one or the other.  A refresh makes PA_KEEP and then PA_NONE of
\* the action of a plugin that plugins.ini names.  The load times are in m_info,
\* which goes with the module.
CmdRefused(i, left) ==
  /\ Going
  /\ i \in Live
  /\ left \in {"PA_UNLOAD", "PA_RELOAD", "PA_NONE"}
  /\ plug[i].open \/ (left = "PA_UNLOAD" /\ plug[i].status < PL_RUNNING)
  /\ plug' = [plug EXCEPT ![i].action = left]
  /\ dropped' = IF left = "PA_NONE" /\ Detaching(i) THEN dropped \cup {i} ELSE dropped
  /\ UNCHANGED <<last, stack, hooked, mode>>

Next ==
  \/ \E i \in Slot : \/ \E kind \in Kind : EnterPlugin(i, kind)
                     \/ \E reason \in Reason : UnloadRequest(i, reason)
                     \/ RequestRefused(i)
                     \/ \E reason \in Reason : CmdUnload(i, reason)
                     \/ RequestUnloadClosed(i)
                     \/ CmdUnloadClosed(i)
                     \/ CmdClear(i)
                     \/ \E left \in Action : CmdRefused(i, left)
  \/ LeavePlugin
  \/ LoadRequest
  \/ CmdLoad
  \/ QueryFails
  \/ LoadPutOff
  \/ QuerySucceeds
  \/ \E agrees \in BOOLEAN : AttachReturns(agrees) \/ DetachReturns(agrees)

Spec == Init /\ [][Next]_vars

----------------------------------------------------------------------------
(* Properties.                                                             *)

\* Every variable has its type.
TypeOK ==
  /\ plug \in [Slot -> Plugin]
  /\ last \in 0..MaxPlugins
  /\ stack \in Seq(Frame) /\ Top <= MaxDepth
  /\ hooked \subseteq Slot
  /\ dropped \subseteq Slot
  /\ mode \in {"alive", "exited"}

\* m_is_unloader is on only while Meta_Detach runs on behalf of that plugin:
\* however requests nest and fail, no plugin is left that others can never
\* unload.
FlagMeansRequest ==
  \A i \in Slot : plug[i].unloader =>
    \E k \in 1..Top : stack[k].kind = "detach" /\ stack[k].requester = i

\* A plugin that waits for an unload it asked for is not unloaded on request
\* of another, unless it has made a further request meanwhile: the end of that
\* one, even its refusal, takes back the protection of both.
RequesterProtected ==
  [][\A k \in 1..Top :
       stack[k].kind = "detach" /\ stack[k].requester # Nobody /\ ~stack[k].again =>
         ~\E reason \in Reason : UnloadRequest(stack[k].requester, reason)]_vars

\* The callbacks are compiled only for plugins whose module is open, unless a
\* plugin's pending action was dropped under its Meta_Detach by a refused
\* command or a refresh: then unload() closes a plugin that clear() leaves running.
HookedOpen == mode = "alive" => \A i \in hooked : plug[i].open \/ i \in dropped

\* The index of the plugin that loaded another, which str_source looks up
\* without a test for null, names an entry of the list: only "meta clear"
\* takes the loader away from under its plugins.
Dangles(i) == plug[i].source > 0 /\ plug[plug[i].source].status < PL_VALID

LoaderFound == [][\A i \in Slot : Dangles(i)' => Dangles(i) \/ CmdClear(plug[i].source)]_vars

\* What is in a slot, as far as the code in the module can tell: it is attached
\* from the return of Meta_Attach to that of Meta_Detach.
ModuleState(p) ==
  IF ~p.open THEN "closed" ELSE IF p.status = PL_RUNNING THEN "attached" ELSE "open"

Contract == INSTANCE PluginContract
              WITH module   <- [i \in Slot |-> ModuleState(plug[i])],
                   callable <- hooked,
                   serving  <- TRUE

\* The contract with the plugins is kept also when loads and unloads nest and
\* other calls run between their halves, and it is the return of a call that
\* takes the step, as long as no refused command and no refresh has dropped the
\* action of a plugin under its Meta_Detach.
NestedContractKept ==
  [][dropped' = {} => UNCHANGED Contract!vars \/ Contract!Next]_vars
=============================================================================
