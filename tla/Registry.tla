------------------------------- MODULE Registry -------------------------------
(***************************************************************************)
(* The console commands and cvars that plugins register through Metamod-R: *)
(* meta_AddServerCommand and meta_CVarRegister (reg_support.cpp), the      *)
(* lists behind them (mreg.cpp), the modules the functions live in         *)
(* (sys_module.cpp), and what the plugin lifecycle does to all of them     *)
(* (MPlugin::unload and MPlugin::clear in mplugin.cpp).                    *)
(*                                                                         *)
(* Two things differ between servers.  ReHLDS lets Metamod take a command  *)
(* away from the engine, but Metamod only looks for its API once the       *)
(* plugins of plugins.ini are loaded; before that, and with the original   *)
(* engine for ever, a command stays with the engine, so it goes through    *)
(* meta_command_handler and is disabled.  On Linux, CSysModule::find looks *)
(* a module up with dlopen and never closes the handle; on Windows it      *)
(* leaves the reference count alone.                                       *)
(***************************************************************************)
EXTENDS Integers, FiniteSets

CONSTANTS
  NumPlugins,  \* plugins 1..NumPlugins, by m_index
  Name,        \* names of commands and cvars
  MaxImages,   \* bound on the images of one plugin file ever mapped
  MaxRefs      \* bound on the references to one image

Plugin == 1..NumPlugins

ASSUME NumPluginsAssumption == NumPlugins \in Nat
ASSUME BoundsAssumption     == MaxImages \in Nat /\ MaxRefs \in Nat \ {0}

\* A function of a plugin, by the plugin and the image it is in; Nop is the
\* empty function of MRegCmd::disable.
Nop      == <<0, 0>>
Function == (Plugin \X (1..MaxImages)) \cup {Nop}

\* An MRegCmd or MRegCvar; "none" if the list has none of that name.
RegStatus == {"none", "RG_INVALID", "RG_VALID"}
RegCmd    == [status : RegStatus, plugid : 0..NumPlugins, function : Function]
RegCvar   == [status : RegStatus, plugid : 0..NumPlugins]
NoCmd     == [status |-> "none", plugid |-> 0, function |-> Nop]
NoCvar    == [status |-> "none", plugid |-> 0]

\* What the engine calls when a command is typed: nothing, the generic
\* meta_command_handler, or a function directly.
Handler   == [via : {"none", "meta", "direct"}, function : Function]
NoHandler == [via |-> "none", function |-> Nop]

VARIABLES
  linux,   \* whether CSysModule is the one that uses dlopen
  api,     \* whether g_RehldsFuncs is there
  state,   \* of each plugin: "closed", "open" (queried or failed), "attached"
  image,   \* number of the last image of each plugin's file
  refs,    \* the references to it; it is mapped while there are any
  cmds,    \* g_regCmds
  cvars,   \* g_regCvars
  engine,  \* the engine's commands
  cleared, \* history: images whose plugin was closed without unload()
  stuck    \* history: names whose command was removed without g_RehldsFuncs

vars == <<linux, api, state, image, refs, cmds, cvars, engine, cleared, stuck>>

Init ==
  /\ linux \in BOOLEAN
  /\ api = FALSE
  /\ state = [i \in Plugin |-> "closed"]
  /\ image = [i \in Plugin |-> 0]
  /\ refs = [i \in Plugin |-> 0]
  /\ cmds = [n \in Name |-> NoCmd]
  /\ cvars = [n \in Name |-> NoCvar]
  /\ engine = [n \in Name |-> NoHandler]
  /\ cleared = {}
  /\ stuck = {}

----------------------------------------------------------------------------
\* meta_init_rehlds_api, after g_plugins->load(): with the original engine, or
\* a ReHLDS of another version, this never succeeds.
InitRehldsApi ==
  /\ ~api
  /\ api' = TRUE
  /\ UNCHANGED <<linux, state, image, refs, cmds, cvars, engine, cleared, stuck>>

\* CSysModule::load: a module that is still mapped is not mapped again.
OpenModule(i) ==
  /\ state[i] = "closed"
  /\ IF refs[i] > 0
     THEN /\ refs[i] < MaxRefs
          /\ refs' = [refs EXCEPT ![i] = @ + 1]
          /\ UNCHANGED image
     ELSE /\ image[i] < MaxImages
          /\ refs' = [refs EXCEPT ![i] = 1]
          /\ image' = [image EXCEPT ![i] = @ + 1]
  /\ state' = [state EXCEPT ![i] = "open"]
  /\ UNCHANGED <<linux, api, cmds, cvars, engine, cleared, stuck>>

AttachPlugin(i) ==
  /\ state[i] = "open"
  /\ state' = [state EXCEPT ![i] = "attached"]
  /\ UNCHANGED <<linux, api, image, refs, cmds, cvars, engine, cleared, stuck>>

\* CSysModule::find, on behalf of MPluginList::find_memloc.
FindMemloc(i) ==
  IF linux THEN refs[i] < MaxRefs /\ refs' = [refs EXCEPT ![i] = @ + 1]
           ELSE UNCHANGED refs

\* REG_SVR_COMMAND, with the plugin's function or the generic handler.
EngineHandler(function) ==
  IF api THEN [via |-> "direct", function |-> function]
         ELSE [via |-> "meta", function |-> Nop]

\* Mutant: a plugin's commands are taken only once it is attached.
AddServerCommandAttached(i, n) ==
  /\ state[i] # "closed"
  /\ FindMemloc(i)
  /\ LET function == <<i, image[i]>>
     IN IF cmds[n].status # "none" \/ state[i] # "attached" THEN UNCHANGED <<cmds, engine>>
        ELSE /\ cmds' = [cmds EXCEPT ![n] = [status |-> "RG_VALID", plugid |-> i,
                                             function |-> function]]
             /\ engine' = [engine EXCEPT ![n] = EngineHandler(function)]
  /\ UNCHANGED <<linux, api, state, image, cvars, cleared, stuck>>

\* meta_AddServerCommand.  A name that is in the list, disabled or not, is
\* left as it is.
AddServerCommand(i, n) ==
  /\ state[i] # "closed"
  /\ FindMemloc(i)
  /\ LET function == <<i, image[i]>>
     IN IF cmds[n].status # "none" THEN UNCHANGED <<cmds, engine>>
        ELSE /\ cmds' = [cmds EXCEPT ![n] = [status |-> "RG_VALID", plugid |-> i,
                                             function |-> function]]
             /\ engine' = [engine EXCEPT ![n] = EngineHandler(function)]
  /\ UNCHANGED <<linux, api, state, image, cvars, cleared, stuck>>

\* meta_CVarRegister; the cvar given to the engine is Metamod's own.
CVarRegister(i, n) ==
  /\ state[i] # "closed"
  /\ FindMemloc(i)
  /\ cvars' = IF cvars[n].status # "none" THEN cvars
              ELSE [cvars EXCEPT ![n] = [status |-> "RG_VALID", plugid |-> i]]
  /\ UNCHANGED <<linux, api, state, image, cmds, engine, cleared, stuck>>

Owned(i) == {n \in Name : cmds[n].plugid = i}

Disabled == [status |-> "RG_INVALID", plugid |-> 0, function |-> Nop]

\* Mutant: the engine keeps the commands.
RemoveCommandsFromList(i) ==
  /\ cmds' = [n \in Name |-> IF n \in Owned(i) THEN IF api THEN NoCmd ELSE Disabled
                                 ELSE cmds[n]]
  /\ UNCHANGED engine

\* Mutant: the commands are taken from the engine, and disabled, not erased.
RemoveCommandsFromEngine(i) ==
  /\ cmds' = [n \in Name |-> IF n \in Owned(i) THEN Disabled ELSE cmds[n]]
  /\ engine' = [n \in Name |-> IF n \in Owned(i) /\ api THEN NoHandler ELSE engine[n]]

\* MRegCmdList::remove(plugin): Cmd_RemoveCmd and erase, or disable.
RemoveCommands(i) ==
  /\ cmds' = [n \in Name |-> IF n \in Owned(i) THEN IF api THEN NoCmd ELSE Disabled
                                 ELSE cmds[n]]
  /\ engine' = [n \in Name |-> IF n \in Owned(i) /\ api THEN NoHandler ELSE engine[n]]

\* Mutant: the plugin of a cvar is not forgotten.
DisableCvarsOnly(i) ==
  cvars' = [n \in Name |-> IF cvars[n].plugid = i THEN [cvars[n] EXCEPT !.plugid = 0]
                                                  ELSE cvars[n]]

\* MRegCvarList::disable(plugin).
DisableCvars(i) ==
  cvars' = [n \in Name |-> IF cvars[n].plugid = i THEN [status |-> "RG_INVALID", plugid |-> 0]
                                                  ELSE cvars[n]]

\* Mutant: a module that is closed is closed once more.
CloseModuleTwice(i) ==
  /\ state' = [state EXCEPT ![i] = "closed"]
  /\ refs' = [refs EXCEPT ![i] = @ - 1]
  /\ UNCHANGED image

\* CSysModule::unload, of a handle that may be invalid.
CloseModule(i) ==
  /\ state' = [state EXCEPT ![i] = "closed"]
  /\ refs' = IF state[i] = "closed" THEN refs ELSE [refs EXCEPT ![i] = @ - 1]
  /\ UNCHANGED image

\* MPlugin::unload: the registrations go, then the module.  A forced unload or
\* a reload comes here also for a plugin whose module is closed already, after a
\* query that failed.
UnloadPlugin(i) ==
  /\ RemoveCommands(i)
  /\ DisableCvars(i)
  /\ CloseModule(i)
  /\ stuck' = IF api THEN stuck ELSE stuck \cup Owned(i)
  /\ UNCHANGED <<linux, api, cleared>>

\* A query that fails, or MPlugin::clear of a plugin that is not attached:
\* the module is closed, and the registrations stay.
ClearPlugin(i) ==
  /\ state[i] = "open"
  /\ CloseModule(i)
  /\ cleared' = cleared \cup {<<i, image[i]>>}
  /\ UNCHANGED <<linux, api, cmds, cvars, engine, stuck>>

Next ==
  \/ InitRehldsApi
  \/ \E i \in Plugin :
       \/ OpenModule(i)
       \/ AttachPlugin(i)
       \/ UnloadPlugin(i)
       \/ ClearPlugin(i)
       \/ \E n \in Name : AddServerCommand(i, n) \/ CVarRegister(i, n)

Spec == Init /\ [][Next]_vars

----------------------------------------------------------------------------
(* Properties.                                                             *)

\* Every variable has its type.
TypeOK ==
  /\ linux \in BOOLEAN
  /\ api \in BOOLEAN
  /\ state \in [Plugin -> {"closed", "open", "attached"}]
  /\ image \in [Plugin -> 0..MaxImages]
  /\ refs \in [Plugin -> 0..MaxRefs]
  /\ cmds \in [Name -> RegCmd]
  /\ cvars \in [Name -> RegCvar]
  /\ engine \in [Name -> Handler]
  /\ cleared \subseteq Function
  /\ stuck \subseteq Name

\* What typing a command runs: MRegCmd::call behind meta_command_handler.
Runs(n) ==
  CASE engine[n].via = "none"   -> Nop
    [] engine[n].via = "meta"   -> cmds[n].function
    [] engine[n].via = "direct" -> engine[n].function

Mapped(f) == f = Nop \/ (f[2] = image[f[1]] /\ refs[f[1]] > 0)

\* A command never runs code that is not mapped, whatever was registered,
\* unloaded and loaded again before, except the commands of a plugin that was
\* closed without unload(): they are left behind.
CommandsMapped == \A n \in Name : Mapped(Runs(n)) \/ Runs(n) \in cleared

\* The engine's table and the list agree on the commands there are and, where
\* the engine calls the plugin itself, on the function.
EngineAgrees ==
  \A n \in Name : /\ engine[n].via = "none" <=> cmds[n].status = "none"
                  /\ engine[n].via = "direct" => engine[n].function = cmds[n].function

\* A command or a cvar that is RG_VALID belongs to a plugin that is loaded,
\* as its next image if it was cleared in between.
ValidIsLoaded ==
  LET Closed(i) == state[i] = "closed" /\ <<i, image[i]>> \notin cleared
  IN \A n \in Name :
       /\ cmds[n].status = "RG_VALID" => cmds[n].plugid \in Plugin /\ ~Closed(cmds[n].plugid)
       /\ cvars[n].status = "RG_VALID" => cvars[n].plugid \in Plugin /\ ~Closed(cvars[n].plugid)

\* Once Metamod has ReHLDS's API, a plugin that is loaded again gets its
\* commands back, whichever way they were registered the first time: unless
\* somebody else has the name, the plugin was cleared with it, or its owner was
\* unloaded before the API was there, what it registers is what runs.
CommandsComeBack ==
  [][\A i \in Plugin, n \in Name :
       AddServerCommand(i, n) /\ api /\ cmds[n].status # "RG_VALID" /\ n \notin stuck
         => Runs(n)' = <<i, image[i]>>]_vars

----------------------------------------------------------------------------
(* What the documentation says and the code does not do.                   *)

\* RG_VALID tells whether a command "is part of a loaded plugin" (mreg.h:21):
\* the function of such a command is in the module that is loaded.
ValidIsMapped == \A n \in Name : cmds[n].status = "RG_VALID" => Mapped(cmds[n].function)
=============================================================================
