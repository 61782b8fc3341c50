--------------------------- MODULE PluginLifecycle ---------------------------
(***************************************************************************)
(* The life of the plugins of a Metamod-R server: class MPlugin            *)
(* (mplugin.cpp), the list that owns them (MPluginList, mlist.cpp), the    *)
(* "meta ..." console commands (commands_meta.cpp), the requests of other  *)
(* plugins (mutil.cpp) and the changelevel hook (dllapi.cpp).              *)
(*                                                                         *)
(* Each entry of MPluginList::m_plugins is a slot: its position is         *)
(* m_index, which is never reused.  A plugin's own behaviour (does         *)
(* Meta_Query answer, does Meta_Attach or Meta_Detach agree, which load    *)
(* times does the file on disk declare) is an argument e chosen freely by  *)
(* every action that calls into a plugin.                                  *)
(***************************************************************************)
EXTENDS Integers, FiniteSets

CONSTANTS
  Path,         \* the plugin files plugins.ini and the operator can name
  MaxPlugins,   \* bound on the entries ever added to the list
  Info,         \* what a Meta_Query may answer: [loadable, unloadable]
  NoInfo,       \* the null plugin_info_t pointer
  NoPath,       \* the path of a slot that holds no plugin
  RequestTimes  \* the PLUG_LOADTIMEs plugins pass in their own requests

\* PLUG_STATUS: "order is important, as greater/less comparisons are made".
PL_EMPTY   == 0
PL_VALID   == 1
PL_BADFILE == 2
PL_OPENED  == 3
PL_FAILED  == 4
PL_RUNNING == 5
PL_PAUSED  == 6
Status     == PL_EMPTY..PL_PAUSED

\* PLUG_LOADTIME, ordered as well.
PT_NEVER       == 0
PT_STARTUP     == 1
PT_CHANGELEVEL == 2
PT_ANYTIME     == 3
PT_ANYPAUSE    == 4
LoadTime       == PT_NEVER..PT_ANYPAUSE

Action == {"PA_NULL", "PA_NONE", "PA_KEEP", "PA_LOAD", "PA_UNLOAD", "PA_RELOAD"}
Source == {"PS_INI", "PS_CMD", "PS_PLUGIN"}
Stage  == {"ini_startup", "load", "up", "ini_refresh", "refresh", "down"}

\* A plugin may pass any PL_UNLOAD_REASON in its request.  unload() tells two
\* of them from the others, PNL_PLG_FORCED included, which are like PNL_PLUGIN.
RequestReason == {"PNL_PLUGIN", "PNL_CMD_FORCED", "PNL_RELOAD"}

ASSUME BoundAssumption == MaxPlugins \in Nat
ASSUME InfoAssumption  == /\ Info \subseteq [loadable : LoadTime, unloadable : LoadTime]
                          /\ NoInfo \notin Info
ASSUME PathAssumption  == NoPath \notin Path
ASSUME TimesAssumption == RequestTimes \subseteq LoadTime

Slot == 1..MaxPlugins

(***************************************************************************)
(* One MPlugin.  open: the module handle is set.  newer: the file on disk  *)
(* is newer than m_time_loaded, which is 0 until the first attach.  Two    *)
(* fields record history: attached, the last of Meta_Attach / Meta_Detach  *)
(* the plugin has agreed to; promise, the action the code has said it will *)
(* try again at the next opportunity.                                      *)
(***************************************************************************)
Plugin == [status   : Status,
           action   : Action,
           source   : Source,
           path     : Path \cup {NoPath},
           open     : BOOLEAN,
           info     : Info \cup {NoInfo},
           newer    : BOOLEAN,
           attached : BOOLEAN,
           promise  : Action]

\* What the plugin's code and file answer while one operation runs.
Env == [query : BOOLEAN, info : Info, attach : BOOLEAN, detach : BOOLEAN]

VARIABLES
  plug,    \* m_plugins, by m_index; slots above last are unused
  last,    \* m_last_index
  hooked,  \* slots the JIT callbacks were last compiled for
  ini,     \* the paths plugins.ini lists, while it is being acted on
  stage,   \* where the process is: starting, serving, inside a refresh, down
  now,     \* the load time of the startup or refresh under way
  cursor,  \* next slot of the loop under way in load() or refresh()
  todo     \* lines of plugins.ini not read yet by the parse under way

vars == <<plug, last, hooked, ini, stage, now, cursor, todo>>

Live == {i \in 1..last : plug[i].status >= PL_VALID}

\* Mutant: a plugin that is not running is not looked at.
FoundRunningOnly(path) == {i \in 1..last : plug[i].status >= PL_RUNNING /\ plug[i].path = path}

\* MPluginList::find(path): the entries it can return.
Found(path) == {i \in Live : plug[i].path = path}

\* What meta_rebuild_callbacks compiles from a list: forward_callbacks skips
\* the plugins below PL_RUNNING.
Rebuilt(list) == {i \in Slot : list[i].status >= PL_RUNNING}

----------------------------------------------------------------------------
(* The operations of MPlugin, as functions from the plugin before to the   *)
(* plugin after.                                                           *)

\* MPlugin(), then ini_parseline / cmd_parseline / plugin_parseline, add()
\* and the caller's m_action = PA_LOAD.
Added(path, source) ==
  [status |-> PL_VALID, action |-> "PA_LOAD", source |-> source, path |-> path,
   open |-> FALSE, info |-> NoInfo, newer |-> TRUE, attached |-> FALSE,
   promise |-> "PA_NONE"]

EmptySlot == [Added(NoPath, "PS_INI") EXCEPT !.status = PL_EMPTY, !.action = "PA_NULL"]

\* Mutant: m_info is left behind when the query fails.
QueriedKeepsInfo(p, e) ==
  IF p.status >= PL_OPENED THEN p
  ELSE IF e.query THEN [p EXCEPT !.status = PL_OPENED, !.open = TRUE, !.info = e.info]
  ELSE [p EXCEPT !.status = PL_BADFILE, !.open = FALSE]

\* load(), up to the query.
Queried(p, e) ==
  IF p.status >= PL_OPENED THEN p
  ELSE IF e.query THEN [p EXCEPT !.status = PL_OPENED, !.open = TRUE, !.info = e.info]
  ELSE [p EXCEPT !.status = PL_BADFILE, !.open = FALSE, !.info = NoInfo]

\* load(), from the check of the load time on; q is queried.
Attached(q, t, e) ==
  IF q.info.loadable < t
  THEN IF q.info.loadable > PT_STARTUP
       THEN [q EXCEPT !.promise = q.action]
       ELSE [q EXCEPT !.action = "PA_NONE"]
  ELSE IF e.attach
  THEN [q EXCEPT !.status = PL_RUNNING, !.action = "PA_NONE", !.newer = FALSE,
                 !.attached = TRUE, !.promise = "PA_NONE"]
  ELSE [q EXCEPT !.status = PL_FAILED, !.promise = "PA_NONE"]

Loadable(p) == p.status \in PL_VALID..PL_FAILED /\ p.action = "PA_LOAD"

Load(p, t, e) ==
  IF ~Loadable(p) THEN p
  ELSE LET q == Queried(p, e)
       IN IF q.status = PL_BADFILE THEN q ELSE Attached(q, t, e)

\* clear().  It leaves the names and the source in place, but nothing looks
\* at them in an empty slot.
Clearable(p) == p.status \in {PL_FAILED, PL_BADFILE, PL_EMPTY, PL_OPENED}

Clear(p) == IF Clearable(p) THEN EmptySlot ELSE p

\* unload(): the checks before the load time is looked at.
UnloadMarked(p, reason) ==
  /\ p.status >= PL_VALID
  /\ p.status >= PL_RUNNING \/ reason \in {"PNL_CMD_FORCED", "PNL_RELOAD"}
  /\ p.action \in {"PA_UNLOAD", "PA_RELOAD"} \/ reason = "PNL_CMD_FORCED"

\* Mutant: an unload delayed once is not held back again.
TooEarlyUnlessDelayed(p, t, reason) ==
  p.info # NoInfo /\ p.info.unloadable < t /\ reason \notin {"PNL_CMD_FORCED", "PNL_DELAYED"}

TooEarlyToUnload(p, t, reason) ==
  p.info # NoInfo /\ p.info.unloadable < t /\ reason # "PNL_CMD_FORCED"

\* detach(), or its failure overridden.
Detaches(p, reason, e) == ~p.open \/ e.detach \/ reason \in {"PNL_CMD_FORCED", "PNL_RELOAD"}

Unloads(p, t, reason, e) ==
  UnloadMarked(p, reason) /\ ~TooEarlyToUnload(p, t, reason) /\ Detaches(p, reason, e)

\* unload() that returns true: the module is closed, then clear() is called,
\* which refuses a plugin that waits to be loaded again.
Unloaded(p) ==
  LET closed == [p EXCEPT !.open = FALSE, !.attached = FALSE, !.promise = "PA_NONE"]
  IN CASE p.action = "PA_UNLOAD" -> EmptySlot
       [] p.action = "PA_RELOAD" -> [closed EXCEPT !.status = PL_VALID, !.action = "PA_LOAD"]
       [] OTHER                  -> Clear(closed)

\* The pending action is dropped for good ("don't try to ... again later").
GivenUp(p) ==
  [p EXCEPT !.action = "PA_NONE", !.promise = IF @ = p.action THEN "PA_NONE" ELSE @]

\* Mutant: a delayed unload is not kept pending.
UnloadForgotten(p, t, reason) ==
  IF ~(UnloadMarked(p, reason) /\ TooEarlyToUnload(p, t, reason)) THEN p
  ELSE IF p.info.unloadable > PT_STARTUP THEN [p EXCEPT !.promise = p.action, !.action = "PA_NONE"]
  ELSE GivenUp(p)

\* unload() that returns false.
UnloadRefused(p, t, reason) ==
  IF ~(UnloadMarked(p, reason) /\ TooEarlyToUnload(p, t, reason)) THEN p
  ELSE IF p.info.unloadable > PT_STARTUP THEN [p EXCEPT !.promise = p.action]
  ELSE GivenUp(p)

Unload(p, t, reason, e) ==
  IF Unloads(p, t, reason, e) THEN Unloaded(p) ELSE UnloadRefused(p, t, reason)

TooEarlyToReload(p, t) == p.info # NoInfo /\ p.info.loadable < t

ReloadReason(p, reason) == IF p.status < PL_RUNNING THEN "PNL_RELOAD" ELSE reason

\* reload() gets as far as a successful unload().
ReloadUnloads(p, t, reason, e) ==
  /\ p.status >= PL_VALID
  /\ ~TooEarlyToReload(p, t)
  /\ Unloads(p, t, ReloadReason(p, reason), e)

Reload(p, t, reason, e) ==
  IF p.status < PL_VALID THEN p
  ELSE IF TooEarlyToReload(p, t)
  THEN IF p.info.loadable > PT_STARTUP THEN [p EXCEPT !.promise = p.action] ELSE GivenUp(p)
  ELSE IF ReloadUnloads(p, t, reason, e) THEN Load(Unloaded(p), t, e)
  ELSE UnloadRefused(p, t, ReloadReason(p, reason))

\* set_action(), by the operator: what was promised before no longer counts.
Marked(p, action) == [p EXCEPT !.action = action, !.promise = "PA_NONE"]

----------------------------------------------------------------------------
(* Startup: metamod_startup calls MPluginList::load.                       *)

\* The callbacks are compiled once, for no plugin, by meta_load_gamedll.
Init ==
  /\ plug = [i \in Slot |-> EmptySlot]
  /\ last = 0
  /\ hooked = {}
  /\ ini \in {lines \in SUBSET Path : Cardinality(lines) <= MaxPlugins}
  /\ stage = "ini_startup"
  /\ now = PT_STARTUP
  /\ cursor = 1
  /\ todo = ini

\* Append a new entry to the list (the caller checks that the path is new).
Add(list, path, source) ==
  /\ last < MaxPlugins
  /\ last' = last + 1
  /\ plug' = [list EXCEPT ![last + 1] = Added(path, source)]

\* MPluginList::find_match(MPlugin*), for a path that is not in the list:
\* another entry may have the same file name in another directory, the same
\* name up to a platform's postfix, or the same description, which is free text.
Matches == {{}} \cup {{i} : i \in Live}

\* The line overrides the entry it matches, which becomes an empty slot; if a
\* module is open there, nobody knows it any more.
Overridden(match) == [i \in Slot |-> IF i \in match THEN EmptySlot ELSE plug[i]]

\* One line of plugins.ini in ini_startup.
IniStartupLine(path) ==
  /\ stage = "ini_startup"
  /\ path \in todo
  /\ Found(path) = {}
  /\ \E match \in Matches : Add(Overridden(match), path, "PS_INI")
  /\ todo' = todo \ {path}
  /\ UNCHANGED <<hooked, ini, stage, now, cursor>>

IniStartupDone ==
  /\ stage = "ini_startup"
  /\ todo = {}
  /\ stage' = "load"
  /\ UNCHANGED <<plug, last, hooked, ini, now, cursor, todo>>

\* Mutant: the loop runs past the end of the list.
StartupLoadTooFar ==
  /\ stage = "load"
  /\ cursor <= last + 1
  /\ \E e \in Env : plug' = [plug EXCEPT ![cursor] = Load(@, PT_STARTUP, e)]
  /\ cursor' = cursor + 1
  /\ UNCHANGED <<last, hooked, ini, stage, now, todo>>

\* One plugin of the loop in MPluginList::load.
StartupLoad ==
  /\ stage = "load"
  /\ cursor <= last
  /\ \E e \in Env : plug' = [plug EXCEPT ![cursor] = Load(@, PT_STARTUP, e)]
  /\ cursor' = cursor + 1
  /\ UNCHANGED <<last, hooked, ini, stage, now, todo>>

\* A loop over the list is done; what it worked on is forgotten.
Serve == stage' = "up" /\ cursor' = 1 /\ ini' = {} /\ now' = PT_NEVER

StartupDone ==
  /\ stage = "load"
  /\ cursor > last
  /\ hooked' = Rebuilt(plug)
  /\ Serve
  /\ UNCHANGED <<plug, last, todo>>

----------------------------------------------------------------------------
(* "meta <command>" from the server console, all at PT_ANYTIME.            *)

\* Slot i becomes p; nothing else of the list changes.
SetPlugin(i, p) ==
  /\ stage = "up"
  /\ i \in Live
  /\ plug' = [plug EXCEPT ![i] = p]
  /\ UNCHANGED <<last, ini, stage, now, cursor, todo>>

\* Mutant: unload() takes out the plugin's own callbacks only.
UnhookOnly(unloads, i, p) == hooked' = IF unloads THEN hooked \ {i} ELSE hooked

\* The rebuild at the end of a successful unload(), the plugin of slot i
\* being then as Unloaded leaves it.
RebuildIf(unloads, i, p) ==
  hooked' = IF unloads THEN Rebuilt([plug EXCEPT ![i] = Unloaded(p)]) ELSE hooked

\* meta load: callbacks are rebuilt only when the plugin is attached.
CmdLoad(path) ==
  /\ stage = "up"
  /\ Found(path) = {}
  /\ last < MaxPlugins
  /\ \E e \in Env :
       LET p == Load(Added(path, "PS_CMD"), PT_ANYTIME, e)
       IN /\ plug' = [plug EXCEPT ![last + 1] = p]
          /\ hooked' = IF p.status = PL_RUNNING THEN Rebuilt(plug') ELSE hooked
  /\ last' = last + 1
  /\ UNCHANGED <<ini, stage, now, cursor, todo>>

CmdUnload(i, reason) ==
  \E e \in Env :
    LET p == Marked(plug[i], "PA_UNLOAD")
    IN /\ SetPlugin(i, Unload(p, PT_ANYTIME, reason, e))
       /\ RebuildIf(Unloads(p, PT_ANYTIME, reason, e), i, p)

\* Note that load(), the second half of reload(), rebuilds nothing.
CmdReload(i) ==
  \E e \in Env :
    LET p == Marked(plug[i], "PA_RELOAD")
    IN /\ SetPlugin(i, Reload(p, PT_ANYTIME, "PNL_COMMAND", e))
       /\ RebuildIf(ReloadUnloads(p, PT_ANYTIME, "PNL_COMMAND", e), i, p)

\* retry(), which meta retry and the refresh loop call.
Retried(p, t, reason, e) ==
  CASE p.action = "PA_LOAD"   -> Load(p, t, e)
    [] p.action = "PA_UNLOAD" -> Unload(p, t, reason, e)
    [] p.action = "PA_RELOAD" -> Reload(p, t, reason, e)
    [] OTHER                  -> p

RetryUnloads(p, t, reason, e) ==
  \/ p.action = "PA_UNLOAD" /\ Unloads(p, t, reason, e)
  \/ p.action = "PA_RELOAD" /\ ReloadUnloads(p, t, reason, e)

CmdRetry(i) ==
  \E e \in Env :
    /\ SetPlugin(i, Retried(plug[i], PT_ANYTIME, "PNL_COMMAND", e))
    /\ RebuildIf(RetryUnloads(plug[i], PT_ANYTIME, "PNL_COMMAND", e), i, plug[i])

CmdClear(i) == SetPlugin(i, Clear(plug[i])) /\ UNCHANGED hooked

\* pause() of a plugin that does not allow it drops the pending action.
Paused(p) ==
  IF p.status # PL_RUNNING THEN p
  ELSE IF p.info.unloadable < PT_ANYPAUSE THEN [p EXCEPT !.action = "PA_NONE"]
  ELSE [p EXCEPT !.status = PL_PAUSED]

CmdPause(i) == SetPlugin(i, Paused(plug[i])) /\ UNCHANGED hooked

Unpaused(p) == IF p.status = PL_PAUSED THEN [p EXCEPT !.status = PL_RUNNING] ELSE p

CmdUnpause(i) == SetPlugin(i, Unpaused(plug[i])) /\ UNCHANGED hooked

----------------------------------------------------------------------------
(* Requests of plugins: the caller is a running plugin, and chooses the    *)
(* load time it passes.                                                    *)

\* mutil_LoadMetaPlugin.
PluginLoad(caller, path, t) ==
  /\ stage = "up"
  /\ caller \in Live /\ plug[caller].status = PL_RUNNING
  /\ Found(path) = {}
  /\ last < MaxPlugins
  /\ \E e \in Env :
       LET p == Load(Added(path, "PS_PLUGIN"), t, e)
       IN /\ plug' = [plug EXCEPT ![last + 1] = p]
          /\ hooked' = IF p.status = PL_RUNNING THEN Rebuilt(plug') ELSE hooked
  /\ last' = last + 1
  /\ UNCHANGED <<ini, stage, now, cursor, todo>>

\* mutil_LoadMetaPlugin of a path that is in the list already, in whatever
\* state: nothing is loaded, yet the callbacks are rebuilt.
PluginLoadKnown(caller, path) ==
  /\ stage = "up"
  /\ caller \in Live /\ plug[caller].status = PL_RUNNING
  /\ Found(path) # {}
  /\ hooked' = Rebuilt(plug)
  /\ UNCHANGED <<plug, last, ini, stage, now, cursor, todo>>

\* mutil_UnloadMetaPlugin, plugin_unload: a refusal restores m_action.
PluginUnload(caller, i, t, reason) ==
  /\ caller \in Live \ {i} /\ plug[caller].status = PL_RUNNING
  /\ \E e \in Env :
       LET p == Marked(plug[i], "PA_UNLOAD")
       IN /\ SetPlugin(i, IF Unloads(p, t, reason, e) THEN Unloaded(p) ELSE plug[i])
          /\ RebuildIf(Unloads(p, t, reason, e), i, p)

----------------------------------------------------------------------------
(* MPluginList::refresh, at "meta refresh" (PT_ANYTIME) or when the server *)
(* leaves a map (mm_ServerDeactivate, PT_CHANGELEVEL).                     *)

\* unpause_all, which mm_ServerDeactivate calls after the refresh.
UnpausedAll(list, t) ==
  IF t = PT_CHANGELEVEL THEN [i \in Slot |-> Unpaused(list[i])] ELSE list

\* The file is opened; lines is what it now lists.  The new ones must fit
\* under the bound MaxPlugins.
RefreshBegin(t, lines) ==
  /\ stage = "up"
  /\ Cardinality({path \in lines : Found(path) = {}}) <= MaxPlugins - last
  /\ stage' = "ini_refresh"
  /\ now' = t
  /\ ini' = lines
  /\ todo' = lines
  /\ UNCHANGED <<plug, last, hooked, cursor>>

\* plugins.ini cannot be opened: refresh returns without a rebuild.
RefreshNoIni(t) ==
  /\ stage = "up"
  /\ plug' = UnpausedAll(plug, t)
  /\ UNCHANGED <<last, hooked, ini, stage, now, cursor, todo>>

\* Mutant: any plugin is overridden by the line that matches it.
OverridesAlways(match) == TRUE

\* Only an entry that waits to be loaded can be overridden.
Overrides(match) == \A i \in match : plug[i].action = "PA_LOAD"

\* A line naming a plugin that is not in the list.  One that should override
\* a plugin and cannot is skipped.
IniNewLine(path) ==
  /\ stage = "ini_refresh"
  /\ path \in todo
  /\ Found(path) = {}
  /\ \E match \in Matches :
       IF Overrides(match) THEN Add(Overridden(match), path, "PS_INI")
                           ELSE UNCHANGED <<plug, last>>
  /\ todo' = todo \ {path}
  /\ UNCHANGED <<hooked, ini, stage, now, cursor>>

\* A line naming plugin i.  newer_file() also answers false when the file
\* cannot be stat'ed.
IniKnown(p, stat) ==
  IF ~(p.newer /\ stat) THEN [p EXCEPT !.action = "PA_KEEP"]
  ELSE IF p.status >= PL_OPENED THEN [p EXCEPT !.action = "PA_RELOAD"]
  ELSE p

IniKnownLine(i) ==
  /\ stage = "ini_refresh"
  /\ i \in Live
  /\ plug[i].path \in todo
  /\ \E stat \in BOOLEAN : plug' = [plug EXCEPT ![i] = IniKnown(@, stat)]
  /\ todo' = todo \ {plug[i].path}
  /\ UNCHANGED <<last, hooked, ini, stage, now, cursor>>

IniRefreshDone ==
  /\ stage = "ini_refresh"
  /\ todo = {}
  /\ stage' = "refresh"
  /\ UNCHANGED <<plug, last, hooked, ini, now, cursor, todo>>

\* A plugin loaded from plugins.ini that the file no longer lists.
Deleted(p) == p.action = "PA_NONE" /\ p.source = "PS_INI" /\ p.status >= PL_RUNNING

DeletedMark(p) == [p EXCEPT !.action = "PA_UNLOAD"]

\* Mutant: an opened plugin is taken for one that is loaded already.
RefreshedUnlessOpen(p, t, e) ==
  IF p.status < PL_VALID THEN p
  ELSE CASE p.action = "PA_KEEP"   -> [p EXCEPT !.action = "PA_NONE"]
         [] p.action = "PA_LOAD"   -> IF p.status = PL_OPENED THEN p ELSE Load(p, t, e)
         [] p.action = "PA_RELOAD" -> Reload(p, t, "PNL_FILE_NEWER", e)
         [] Deleted(p)             -> Unload(DeletedMark(p), t, "PNL_INI_DELETED", e)
         [] p.action = "PA_UNLOAD" -> Unload(p, t, "PNL_DELAYED", e)
         [] OTHER                  -> p

\* The body of the loop of refresh, a switch on the pending action.
Refreshed(p, t, e) ==
  IF p.status < PL_VALID THEN p
  ELSE CASE p.action = "PA_KEEP"   -> [p EXCEPT !.action = "PA_NONE"]
         [] p.action = "PA_LOAD"   -> Load(p, t, e)
         [] p.action = "PA_RELOAD" -> Reload(p, t, "PNL_FILE_NEWER", e)
         [] Deleted(p)             -> Unload(DeletedMark(p), t, "PNL_INI_DELETED", e)
         [] p.action = "PA_UNLOAD" -> Unload(p, t, "PNL_DELAYED", e)
         [] OTHER                  -> p

RefreshUnloads(p, t, e) ==
  \/ p.action = "PA_RELOAD" /\ ReloadUnloads(p, t, "PNL_FILE_NEWER", e)
  \/ Deleted(p) /\ Unloads(DeletedMark(p), t, "PNL_INI_DELETED", e)
  \/ p.action = "PA_UNLOAD" /\ Unloads(p, t, "PNL_DELAYED", e)

RefreshSlot ==
  /\ stage = "refresh"
  /\ cursor <= last
  /\ \E e \in Env :
       LET p == plug[cursor]
       IN /\ plug' = [plug EXCEPT ![cursor] = Refreshed(p, now, e)]
          /\ RebuildIf(RefreshUnloads(p, now, e), cursor,
                       IF Deleted(p) THEN DeletedMark(p) ELSE p)
  /\ cursor' = cursor + 1
  /\ UNCHANGED <<last, ini, stage, now, todo>>

\* Mutant: refresh counts on unload() for the rebuild.
RefreshDoneUnhooked ==
  /\ stage = "refresh"
  /\ cursor > last
  /\ plug' = UnpausedAll(plug, now)
  /\ Serve
  /\ UNCHANGED <<last, hooked, todo>>

RefreshDone ==
  /\ stage = "refresh"
  /\ cursor > last
  /\ hooked' = Rebuilt(plug)
  /\ plug' = UnpausedAll(plug, now)
  /\ Serve
  /\ UNCHANGED <<last, todo>>

----------------------------------------------------------------------------
\* The environment: a newer file is copied over a plugin's file.
FileUpdated(path) ==
  /\ stage = "up"
  /\ \E i \in Found(path) : ~plug[i].newer
  /\ plug' = [i \in Slot |-> IF i \in Found(path) THEN [plug[i] EXCEPT !.newer = TRUE]
                                                  ELSE plug[i]]
  /\ UNCHANGED <<last, hooked, ini, stage, now, cursor, todo>>

\* mm_GameShutdown: g_metamod_active is cleared first, so that unload_all
\* (skipped on a dedicated server) rebuilds nothing.  A forced unload goes
\* through whatever the plugin answers, so one e serves all of them.
GameShutdown ==
  /\ stage = "up"
  /\ stage' = "down"
  /\ \/ UNCHANGED plug
     \/ \E e \in Env :
          plug' = [i \in Slot |-> Unload(plug[i], PT_ANYTIME, "PNL_CMD_FORCED", e)]
  /\ UNCHANGED <<last, hooked, ini, now, cursor, todo>>

Startup ==
  \/ \E path \in Path : IniStartupLine(path)
  \/ IniStartupDone
  \/ StartupLoad
  \/ StartupDone

Command ==
  \/ \E path \in Path : CmdLoad(path)
  \/ \E i \in Slot : \/ \E reason \in {"PNL_COMMAND", "PNL_CMD_FORCED"} : CmdUnload(i, reason)
                     \/ CmdReload(i)
                     \/ CmdRetry(i)
                     \/ CmdClear(i)
                     \/ CmdPause(i)
                     \/ CmdUnpause(i)

Request ==
  \E caller \in Slot, t \in RequestTimes :
    \/ \E path \in Path : PluginLoad(caller, path, t) \/ PluginLoadKnown(caller, path)
    \/ \E i \in Slot, reason \in RequestReason : PluginUnload(caller, i, t, reason)

RefreshStart ==
  \E t \in {PT_CHANGELEVEL, PT_ANYTIME} :
    RefreshNoIni(t) \/ \E lines \in SUBSET Path : RefreshBegin(t, lines)

RefreshStep ==
  \/ \E path \in Path : IniNewLine(path)
  \/ \E i \in Slot : IniKnownLine(i)
  \/ IniRefreshDone
  \/ RefreshSlot
  \/ RefreshDone

Next ==
  \/ Startup
  \/ Command
  \/ Request
  \/ RefreshStart
  \/ RefreshStep
  \/ \E path \in Path : FileUpdated(path)
  \/ GameShutdown

Spec == Init /\ [][Next]_vars

(***************************************************************************)
(* The server thread never stops in the middle of a startup or a refresh,  *)
(* and maps end: a server that is up again and again eventually changes    *)
(* level with a readable plugins.ini.                                      *)
(***************************************************************************)
Fairness ==
  /\ WF_vars(Startup)
  /\ WF_vars(RefreshStep)
  /\ SF_vars(\E lines \in SUBSET Path : RefreshBegin(PT_CHANGELEVEL, lines))

FairSpec == Spec /\ Fairness

----------------------------------------------------------------------------
(* Properties.                                                             *)

\* Every variable has its type.
TypeOK ==
  /\ plug \in [Slot -> Plugin]
  /\ last \in 0..MaxPlugins
  /\ hooked \subseteq Slot
  /\ ini \subseteq Path
  /\ stage \in Stage
  /\ now \in LoadTime
  /\ cursor \in 1..(MaxPlugins + 1)
  /\ todo \subseteq Path

\* The callbacks never reach a plugin that is not attached or whose module is
\* closed: whatever order of loads, unloads, reloads and refreshes led here,
\* meta_rebuild_callbacks has run since the last plugin left.
HookedLive ==
  stage # "down" => \A i \in hooked : plug[i].open /\ plug[i].attached

\* m_info points into the plugin's module, and "meta list" follows it for
\* every plugin of the list: it is never left behind by a module that is
\* closed, and a plugin that was opened has kept its module open.
InfoLive ==
  stage # "down" => \A i \in Slot : plug[i].info # NoInfo \/ plug[i].status >= PL_OPENED
                                      => plug[i].open

\* m_pathname is "UNIQUE" (mplugin.h): plugins.ini, the operator and the
\* plugins never get the same file into the list twice.
UniquePath == \A i, j \in Live : plug[i].path = plug[j].path => i = j

\* Plugin q comes where p was, p leaves: reload() does both.
Comes(p, q)  == q.attached /\ (p.attached => q.info # p.info)
Leaves(p, q) == p.attached /\ (q.attached => q.info # p.info)

\* What comes or leaves in slot i during a step, does so in its own time.
InTime(i) ==
  LET t == IF stage = "up" THEN PT_ANYTIME ELSE now
  IN /\ Comes(plug[i], plug'[i]) =>
          \/ plug'[i].info.loadable >= t
          \/ \E caller \in Slot, path \in Path, asked \in RequestTimes :
               PluginLoad(caller, path, asked) /\ plug'[i].info.loadable >= asked
     /\ Leaves(plug[i], plug'[i]) =>
          \/ plug[i].info.unloadable >= t
          \/ \E caller \in Slot, asked \in RequestTimes, reason \in RequestReason :
               /\ PluginUnload(caller, i, asked, reason)
               /\ plug[i].info.unloadable >= asked \/ reason = "PNL_CMD_FORCED"
          \/ CmdUnload(i, "PNL_CMD_FORCED")
          \/ GameShutdown

\* Plugins come and go when they allow it: the load time of a step bounds the
\* plugins it attaches and, unless the unload is forced, those it detaches,
\* also the plugin whose file was replaced and that reload() asks under the
\* times of its old file and of its new one.  A plugin that asks for another
\* one is held to the load time it has passed, or, to unload it, has to pass
\* the reason of the operator's forced unload (unload(), mutil_UnloadMetaPlugin).
AllowedTimes == [][\A i \in Slot : InTime(i)]_vars

\* What load(), unload() or reload() has put off stays pending until it is
\* done or given up, whatever happens to other plugins, unless plugins.ini
\* names the plugin again or the plugin is paused.
PendingKept ==
  [][\A i \in Slot :
       plug[i].promise # "PA_NONE" /\ plug[i].promise = plug[i].action =>
         \/ plug'[i].promise \in {"PA_NONE", plug'[i].action}
         \/ IniKnownLine(i)
         \/ CmdPause(i)]_vars

\* A plugin that runs gets its callbacks, if only at the next change of level
\* ("meta reload" leaves it without any until then).
RunningGetsHooked ==
  \A i \in Slot : plug[i].status = PL_RUNNING ~>
                    i \in hooked \/ plug[i].status # PL_RUNNING \/ stage = "down"

\* A load put off until a change of level does not stay pending for ever: the
\* next one attaches the plugin or sees it fail, unless a line of plugins.ini
\* or a command has put another action in its place before.
DelayedLoadEnds ==
  LET Waits(i) == plug[i].promise = "PA_LOAD" /\ plug[i].action = "PA_LOAD"
  IN \A i \in Slot : Waits(i) ~> ~Waits(i) \/ stage = "down"

\* What is in a slot, as far as the code in the module can tell.
ModuleState(p) == IF ~p.open THEN "closed" ELSE IF p.attached THEN "attached" ELSE "open"

Contract == INSTANCE PluginContract
              WITH module   <- [i \in Slot |-> ModuleState(plug[i])],
                   callable <- hooked,
                   serving  <- stage # "down"

\* MPlugin, MPluginList and the rebuilds keep the contract with the plugins:
\* one step of the lifecycle is one step of PluginContract, or none.
ContractKept == Contract!Spec

----------------------------------------------------------------------------
(* What the documentation says and the code does not do.                   *)

\* PL_RUNNING means "attached and running" (mplugin.h:20): a running plugin's
\* callbacks are called.
RunningIsHooked ==
  stage = "up" => \A i \in Live : plug[i].status = PL_RUNNING => i \in hooked
=============================================================================
