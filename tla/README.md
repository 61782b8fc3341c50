# A TLA+ model of Metamod-R

Metamod-R sits between a GoldSrc server (HLDS, ReHLDS, Xash3D) and the game
DLL. It loads plugins, lets them see and replace every call between engine and
game, and loads and unloads them while the server runs. This directory models
the parts of it (`src/metamod/src`) whose correctness depends on the order of
things: plugins that come and go, callbacks that are recompiled while they are
on the stack, registrations that outlive their owner, and a hook that several
threads run into. The repository has no tests; the models are read off the code.

## The system

| part | state | operations | talks to |
|---|---|---|---|
| plugin lifecycle (`mplugin`, `mlist`) | per plugin: status, pending action, source, module handle, `m_info`, tables; the list | load, unload, reload, pause, unpause, retry, clear; ini_startup, ini_refresh, refresh, cmd_addload, plugin_addload | plugins (Meta_Query, Meta_Attach, Meta_Detach), module loader, rebuild, registries |
| console commands (`commands_meta`), plugin requests (`mutil`) | none | `meta ...`; LoadMetaPlugin, UnloadMetaPlugin(ByHandle) | lifecycle |
| callback compiler (`callback_jit*`) | code pages, return address tables; `g_metaGlobals` and the frames of callbacks under way | compile, dispatch one call to all plugins and the original | plugins, game DLL, engine |
| rebuild (`metamod.cpp`) | none of its own | scan the stack, drop all code, compile again, fix return addresses | compiler, lifecycle |
| registries (`mreg`, `reg_support`) | lists of commands and cvars with owner and status | add on behalf of a plugin; remove or disable with the plugin | engine, lifecycle, module loader |
| module loader (`sys_module`) | handle, base, size; the C library's reference count | load, find, unload | C library |
| linkent replacement (`osdep_linkent_linux`) | first bytes of dlsym, `is_original_restored`, a mutex | install, replacement of dlsym, shutdown | every thread of the process |
| hooks of its own (`dllapi`, `engine_api`) | none | ServerDeactivate, GameShutdown, ClientConnect, RegUserMsg, ... | all of the above |
| players (`mplayer`, `mutil`) | one noted cvar query per player, a counter of request ids | note, clear, ask, take an id | engine, plugins |
| executable memory (`mem_utils`) | pages, and how far the last is used | allocate, release | compiler |
| the rest | | configuration, logging, game lookup, API tables, per-CPU emitters, Windows linkent | |

The hard behaviours, all of one server thread except the last:

* An operation of the lifecycle calls into plugins that may refuse, and leaves
  the plugin in a state that a later operation, of another origin, must cope
  with. What cannot be done now is left pending until the map changes.
* While it waits for such a call, that plugin or another may request the next
  load or unload: operations nest, on the plugins that are being operated on.
* A plugin's handler may cause a rebuild, directly or through the console, from
  any depth of nested callbacks. The return addresses on the stack then point
  into code that has been thrown away.
* `g_metaGlobals` is one global for all calls under way.
* Commands stay in an engine that cannot forget them, while their code goes.
* Plugins query clients while the hooks that clear these queries are under way.
* dlsym is patched back and forth while all threads use it.

What makes each part correct: callbacks only reach attached modules; no pointer
into a module outlives it; pending actions are not lost; load times are respected;
no file is loaded twice (lifecycle). Who waits for a request is not unloaded under
it, and every way out takes the protection back (requests). Each call behaves as
if it had globals of its own; every paused call returns; no plugin misses a call
(callbacks). Tables lead to code that was written for the function and is not
written over (memory). No command runs unmapped code; what is valid has an owner;
a reloaded plugin gets its names back (registries). A query noted is the client's
own, and of this map (players). The replacement never calls itself; the flag tells
the truth; the hook stays, and goes, when it should (linkent).

## Modules

| module | models | |
|---|---|---|
| `PluginContract` | the promise of the lifecycle to the plugins: open, attach and close in order, callbacks only into attached modules; also of `PluginRequests`, until an action is dropped (HookedOpen below) | abstract |
| `PluginLifecycle` | `mplugin.cpp`, `mlist.cpp`, `commands_meta.cpp`, parts of `mutil.cpp`, `dllapi.cpp`; implements `PluginContract` | detailed |
| `PluginRequests` | `mplugin.cpp`, `mutil.cpp`, the same operations taken apart at the calls into plugins | detailed |
| `DispatchContract` | the promise of a hooked function: each call has meta globals of its own | abstract |
| `CallbackDispatch` | `callback_jit_orchestration.cpp`, the rebuild of `metamod.cpp`; implements `DispatchContract` | detailed |
| `CallbackMemory` | `mem_utils.cpp`, `callback_jit.cpp`, the tables of `engine_api.cpp` and `dllapi.cpp`, the rebuild again | detailed |
| `Registry` | `mreg.cpp`, `reg_support.cpp`, `sys_module.cpp`, the ends of `MPlugin::unload` and `clear` | detailed |
| `ClientQueries` | `mplayer.cpp`, parts of `mutil.cpp`, the hooks of `dllapi.cpp` and `engine_api.cpp` that use it | detailed |
| `LinkentHook` | `osdep_linkent_linux.cpp` | detailed |
| `...Proofs` | for each of the seven detailed modules, the theorems about it | |

`MC*` modules hold the values TLC uses. Mutants, definitions marked as such,
are the plausible mistakes that show that each property can fail.

Three parts of the code are seen by two modules. The rebuild: `CallbackDispatch`
takes for granted that a table leads to a callback and asks what happens to
callbacks under way, `CallbackMemory` takes for granted which frames the scan
of the stack comes to and asks where code lies. Loading
and unloading: `PluginLifecycle` has every operation and origin, each as one step;
`PluginRequests` has load, unload, clear and the commands that are refused or put
off, and what may run between their halves. The lifecycle: the modules below it let plugins come and
go at any time, which is more than it allows.

### PluginLifecycle

A slot of the list is an MPlugin; `Load`, `Unload`, `Reload`, `Paused`, ... are
the methods, as functions from the plugin before to the plugin after, and the
actions are the commands, requests and loop iterations that call them. An
argument `e` says how the plugin answers, and is chosen freely. `hooked` is what
the callbacks were last compiled for. `attached` and `promise` are history: what
Meta_Attach and Meta_Detach have agreed to, and which action the code has said
it will try again. The startup and a refresh go through the list one slot at a
time, as the code does, because a plugin's answer may depend on those before.

A new line of plugins.ini may match an entry by file name, by name up to a
platform's postfix or by description (`MPluginList::find_match`); descriptions
are free text, so any entry may match. At startup, and in a refresh if the entry
still waits to be loaded, it is wiped (`Overridden`). An entry whose load was put
off has its module open; wiping it leaks the module, which the model takes for
closed, because nothing of it is called again.

Abstracted: names are matched by choosing a slot; two lines with the same path
are one; requests that a plugin makes inside Meta_Attach or Meta_Detach are in
PluginRequests, with `m_source_plugin_index` and `m_unloader_index`; dlclose of a
valid handle succeeds; every attached plugin provides a table; GameInit is not
called; PA_ATTACH is never set by the code. The server stops at GameShutdown,
hence no deadlock check. `RequestTimes` bounds at which load times plugins ask
for others to be loaded and unloaded. They pass any reason to unload
(`RequestReason`): PNL_CMD_FORCED overrides the load times as it does for the
operator, PNL_RELOAD a Meta_Detach that fails.

### PluginRequests

`stack` holds the calls into plugins that have not returned: the query, attach or
detach of an operation, or a handler or command of a plugin. Whatever runs on
top may be a plugin that asks for another load or unload, or may have the engine
execute a `meta` command. `BeginLoad`, `UnloadRequest` and `CmdUnload` are the
operations up to the call, `QueryFails`, `LoadPutOff`, `QuerySucceeds`,
`AttachReturns` and `DetachReturns` what follows it, with the locals the code
keeps across it (`old_action`). A call whose module has been closed under it is
`gone`: nothing is said of what follows when it is returned to. History: `again`
(the requester has meanwhile ended another request) and `dropped` (plugins whose
pending action has been dropped during their Meta_Detach). `CmdRefused` is every way
in which a command changes the pending action and no more: an unload, a reload, a
retry or a pause that stops at one of its checks (`mplugin.cpp:468-499`, `561-573`,
`603-608`), or a refresh that keeps the plugin.

Abstracted: load times (a request may be refused at any time); files and paths
(every load is of a new one); the pending actions that a refresh acts on. A
reload or a retry that goes through inside a call into a plugin, and what a refresh
there does to plugins that it does not keep, is not modelled.

### CallbackDispatch

A callback runs from one call site to the next without interruption, so a step
takes a frame from one site to the next: `PreFrom`, `OriginalOf`, `PostFrom` and
`Leave` are the code after a call returns. A return address is a layout (`into`):
the pages a rebuild unmaps and maps afresh are taken to come where they were, so
that an address that was not moved is right as long as the same plugins are
compiled in. That is the kindest case for the code; in CallbackMemory the pages
come anywhere. `Collected` is
what the scan of the stack finds along the chain of `esp_save`; `Unfound` are
the sites that the new code does not have, for which the server exits. A scan
that finds nothing runs on below the stack, and either hits an old address or
cannot read on. Return values are told apart by their origin. `Wrapped` is
`is_hook_needed`. Code that runs may load, unload, reload, pause plugins at any
time, as console commands and plugin requests allow.

Abstracted: Metamod's own hooks are leaf calls that cannot cause a rebuild; the
one for user messages is modelled by what it reads (`Noted`); argument passing
and the layout of a frame; functions that return nothing (they are those whose
value nobody looks at); that a function which Metamod hooks itself is wrapped with
no plugin there as well (`callback_jit.cpp:229`; CallbackMemory has it). After Sys_Error, or a return into missing code, nothing
happens any more, hence no deadlock check.

### CallbackMemory

`callbacks` and `tramps` are the two `static_allocator`s, `memory` the callbacks
in the pages of the first, `given` the trampolines that engine and game DLL got
pointers to at the start. `toHandler` and `toRetaddr` are the two maps of
`register_call_site`: the first is overwritten by a new value, the second
(`emplace`) keeps the old one. A rebuild is `Rebuild` (collect the slots, clear),
one step for each function of the tables (`PassThrough`, `GiveUp`,
`CompileFixed`, `CompileVa`, `Overrun`, by the branch the code takes), and `FixFrames`
(write the new return addresses, or Sys_Error). `va` is `g_va_funcs`, which no
rebuild clears.

Abstracted: code is measured in units, one for each call and one for the rest;
the tables of the engine and of the game DLL are one; a frame that waits for a
plugin is found by the scan (whether it is, and what waits for the original, is
CallbackDispatch's question); which functions Metamod hooks itself, who
implements a function and how many arguments it takes are constants; the
assembler's other errors. The system always has another page. A callback larger
than a page is written over its end (`Overrun`), because the allocator does not ask
(`mem_utils.cpp:9`); nothing is said of what follows. After that, and after
Sys_Error, nothing happens, hence no deadlock check.

### Registry

`OpenModule`, `AttachPlugin`, `UnloadPlugin` and `ClearPlugin` are what the
lifecycle does to a module; the plugin may register from the moment it is open,
since it has the engine functions before its query. A forced unload or a reload of
a plugin whose module is closed already takes its registrations all the same.
A function is known by the
plugin and the image of its file it lives in, so a reloaded plugin has other
functions. `api` is whether `g_RehldsFuncs` is there: the plugins of plugins.ini
are loaded before it is looked for (`InitRehldsApi`), and with the original
engine it never comes. With it, commands are given to the engine directly and
taken away again; without it they go through `meta_command_handler` and are
disabled. `linux`, chosen at the start, says that every lookup of a module adds a
reference. History: `cleared`, images closed without unload(), and `stuck`, names
whose command was disabled before the API was there. The engine's table is
external, modelled from its use. Not modelled: registrants that are no plugin,
and the listings. The bounds on images and references run out, hence no deadlock
check.

### ClientQueries

`queried` is what `is_querying_cvar` answers for each player, `counter` is
`g_requestid_counter`. The hooks of ClientConnect and ClientDisconnect clear the
note before the plugins are called, the one of ServerDeactivate after the
refresh; each of these calls is taken apart there, and plugins may query any
entity, and take ids, at every point. Engine and clients are external: a client
answers or not, is refused or not, and leaves with or without ClientDisconnect.
History of the current map: `asked`, `unanswered`, `taken`. A note is of the last
query made; that it stays after the answer, although `mplayer.h:14` speaks of a
player "currently queried", is how the code works, and no property says
otherwise.

### LinkentHook

Threads call dlsym; `bytes` is what they run into. Every access to the shared
flag, the mutex and the bytes is a step of its own; a memcpy takes two steps,
and a thread that runs bytes in between sends the process astray, after which
nothing is claimed (hence no deadlock check). The mutex is recursive, but no
thread takes it twice: that is what OriginalInPlace says. The shutdown is taken
to come after the installation: under ReHLDS the hook is not installed, and
ReHLDS does not ask for the physics interface.

## Runs

| run | bounds | shows |
|---|---|---|
| lifecycle_requests | 2 files, 2 slots, plugins bound to changes of map, which ask for one another at PT_CHANGELEVEL and PT_ANYTIME | the lifecycle implements PluginContract; callbacks reach attached plugins only; m_info never dangles; no file twice; pending actions are kept |
| lifecycle_liveness | 1 file, 2 slots, all kinds of load times, no requests | load times respected, with plugins that can pause; running plugins get their callbacks; delayed loads end |
| requests_nested | 2 plugins of plugins.ini, one more, 3 calls deep, with the third plugin only those refusals that mark a plugin during its Meta_Detach (`RefusalBound`) | the protection of a requester goes with its request; it is not unloaded under it; callbacks are for open modules; loaders are found; PluginContract is kept by nested operations |
| dispatch_nested | 2 plugins that hook before and after, the user message function, 2 deep, two results | each call has globals of its own; nobody is skipped; all frames that wait for plugins are found, or the server exits; no call hands out a slot nobody wrote; the saved id is the one returned |
| memory_rebuilds | 5 functions (3 variadic for 2 entries, one with too many arguments), 3 plugins, 2 waiting, 6 pages of 5 units | no code over other code, nor over the end of a page unless it is larger than one; tables and entries lead to the right code; what waits returns behind its call |
| registry_servers | 2 plugins, 2 names, 3 images, 3 references, both systems, the API at any moment or never | no command runs unmapped code; engine and list agree; valid means loaded; commands come back |
| linkent_threads | 3 threads | no self-call; the flag tells the truth; functions of the game are found; the mutex comes free; without overlap the hook lasts |
| client_queries | 2 clients, 4 entities, 2 cvars, 3 ids a map | a note is the client's own and of this map; none is lost before its answer; no id twice in a map |

The other four runs, below, each find a violation.

Why the bounds are enough: two slots are needed for the effect of one plugin on
another and for a slot to be reused, and no operation looks at more than one
plugin besides collecting a set. Nested requests need a requester, a target and
a third that turns on either, and three calls that wait for one another: a
request inside a request inside a handler. What refused commands leave behind
is followed up in full with two plugins, once an action has been dropped too; with
the third it is left to the theorems, which have no such bound. Two callbacks, one within the other, show that the chain is
followed beyond the first; that it is for any depth is proved. Two plugins in a
list show order and a gap. The callbacks are of one to six units and a page of five,
so allocations that fill a page, that do not fit any more, that open one and, with
all three plugins, that exceed one occur; six pages are as many as the callbacks and
trampolines can need at once. The third variadic function finds the two entries taken. A second image
tells a reloaded plugin from the first, a third from the second. The entities of
a query are the world, two clients and one beyond. Two threads
overlap in every way the mutex allows; a third waits for it.

Fairness: the server thread never stops inside a startup or a refresh (weak
fairness of their steps), and maps end again and again (strong fairness of the
refresh at a change of level, with a plugins.ini that can be read). A thread
inside the dlsym replacement is scheduled again, and the original dlsym, which it
calls with the mutex, returns; nothing is assumed about who gets the mutex next, and
no property needs it. That dlsym returns is not for this code to promise: it takes
the loader's lock, and a thread that holds this lock (a constructor that calls dlsym
while it is being loaded by dlopen) may be waiting for the mutex. MutexComesFree
does not cover such a circle.

### What the code does differently from what it says

Each is a run that expects a violation; PROJECT.json quotes the lines.

* reload_unhooked: after `meta reload` the plugin runs, and none of its hooks is
  called until something else rebuilds.
* dispatch_paused_original: callbacks that wait for the original function are not
  moved by a rebuild.
* registry_failed_query: a plugin that is closed without unload() leaves commands
  behind.
* linkent_lost: the flag is read before the mutex is taken, and an overlap of two
  calls removes the hook.

The models show more of the kind, which the properties that pass have as named
exceptions, each with its reason beside it:

* PendingKept: a line of plugins.ini overwrites what was put off (`mlist.cpp:384`),
  at the very change of level at which `unload()` is to "try to unload again at
  next opportunity" (`mplugin.cpp:489`); and so does a pause that is refused
  (`mplugin.cpp:608`). Neither is caught by the property, then.
* HookedOpen: if its pending action is dropped during its Meta_Detach, by a pause
  that is refused, by an unload or a reload of a plugin that never allows it
  (`mplugin.cpp:496`, `571`) or by a refresh, `unload()` goes on to close the
  module, `clear()` refuses (`mplugin.cpp:537`), and the plugin stays PL_RUNNING in
  the list with callbacks compiled into a closed module.
* RequesterProtected: a plugin that waits for one request loses its protection when
  it makes another meanwhile, even one that is refused (`mplugin.cpp:733`).
* LoaderFound: `meta clear` closes a plugin without `clear_source_plugin_index`, and
  `str_source` then looks up an entry that is empty (`mplugin.cpp:1175`).
* NestedContractKept ends when an action is dropped during a Meta_Detach: from
  then on a plugin may run whose module is closed (HookedOpen).
* CodeApart: a callback larger than a page is written over the end of it
  (`mem_utils.cpp:9`); the property tells that nothing smaller is.
* AllowedTimes holds a request to the load time the plugin passes: the code takes
  its word that it is now that time (`mutil.cpp:290`), and that the unload is
  forced by the operator (`mutil.cpp:312`). The run that checks it has no
  requests; for them it is proved.
* DelayedLoadEnds: a line of plugins.ini or a command that changes the action ends
  the wait as well.
* SavedIdReturned: the id taken down for a superseded user message is the plugin's
  only if it says so by the right status (`engine_api.cpp:18`); otherwise it is the
  other slot of the frame, which is written all the same.
* CommandsComeBack: without ReHLDS's API a command, and everywhere a cvar, that is
  registered again stays disabled (`reg_support.cpp:38`, `71`); with it, so do the
  commands that were disabled before it was there (`metamod.cpp:231`).
* CommandsMapped, ValidIsLoaded: a plugin that is cleared leaves its commands
  behind (the run registry_failed_query); on Linux a plugin that registered
  anything stays mapped (`sys_module.cpp:150`).
* FreshIds speaks of one map: after the next ServerDeactivate ids are taken again,
  while answers of the map before may be under way (`dllapi.cpp:65`).

## Proofs

All theorems hold for every value of the constants, under the named assumptions
of the modules: that the constants have their types, that the null values are no
values, that the server thread is a thread, and that a trampoline, whose size is
fixed, fits into a page (`SizesAssumption`); callbacks may have any size.

`PluginLifecycleProofs`: TypeCorrect, HookedLiveHolds, InfoLiveHolds,
UniquePathHolds, ContractHolds, PendingKeptHolds, AllowedTimesHolds,
UnhookedByReload, DelayedLoadDecided. None of the invariants is inductive. That
the callbacks reach attached plugins follows from how a plugin's status goes with
its module and its attachment (`Sound`), and unique paths from the slots above
`last` being empty; at startup, that a line may wipe any entry does no harm
because nothing is loaded yet (`NothingLoaded`). One lemma per method of MPlugin
shows what it makes of a sound plugin (`Good`): it stays sound, keeps its path or
its slot is emptied, and does not leave PL_RUNNING unless its module was unloaded
on the way, which is where the rebuild is. The step lemmas then only combine
methods. The same lemmas say which step of PluginContract it is (`SlotContract`,
`AddContract`, `RehookContract`): without an unload what is attached stays so, and
the step is a Load, a Discard or none; with one, the rebuild leaves everything but
this plugin, and the step is an Unload or a Replace. PendingKept is a matter of
one plugin at a time: each method leaves what it has put off and the pending
action in agreement if they agreed before (`Settled`), and each step does so for
every slot (`Keeping`). AllowedTimes goes the same way: a method that attaches or
detaches has asked the plugin's info about the time it was given (`Timely`); the
run has no requests, the theorem any. It rests on the same invariant: a plugin
that is attached has its info at hand. Two theorems are no property of a run.
UnhookedByReload delimits the finding reload_unhooked: only a reload or a retry
leaves a running plugin without its callbacks, every other step that ends with
such a plugin began with it. DelayedLoadDecided is the step that DelayedLoadEnds
rests on: what was put off at startup may be loaded later (`Sound`), so it is
decided when the refresh comes to it.

`PluginRequestsProofs`: TypeCorrect, FlagMeansRequestHolds, HookedOpenHolds,
RequesterProtectedHolds, LoaderFoundHolds, NestedContractHolds. The invariant
speaks of each waiting call (`FrameOK`: it knows whether its module was closed,
what the status and the pending action of its plugin are), of two calls one within
the other (`PairOK`: a plugin that is being loaded has no call further out; the
action a nested request puts back still lets the outer one clear the plugin), of
each plugin (`PlugOK`), and of the flags (`Flags`). NextIInv is the induction
step, for any depth. NestedContractHolds maps the halves of an operation to one
step of PluginContract: the module is opened when a load begins, attached at the
return of Meta_Attach, and closed at the return of a Meta_Query that fails or of
Meta_Detach, whatever began and ended in between. That a plugin which runs is open
(`RunsOpen`) is where a dropped action would break it.

`CallbackDispatchProofs`: TypeCorrect, HandlersReturnHolds,
HandlersStayLoadedHolds, NobodySkippedHolds, SavedIdReturnedHolds, ContractHolds,
AstrayFromOriginalHolds, ExitsForHandlersHolds.
A step of the compiled code has one of three shapes: a handler is called, the
original is called, or the callback ends; the lemmas of the first part say so of
`PreFrom`, `OriginalOf` and `PostFrom`, and that the handler called is the first of
those left (a least element exists because < is well-founded on the naturals).
The invariant says that `esp_save` is the number of the innermost frame and each
frame's backup that of the next one out. From that the chain reaches every frame,
so that a rebuild collects all that wait for a handler, whatever waits for an
original in between. A second invariant says what a call still owes its plugins,
from which nobody is skipped. The refinement maps each step to the step of
DispatchContract of the same shape; only the call on top changes, because what
`g_metaGlobals` holds for the others is in the backups. SavedIdReturned is then
proved of the contract: a status that makes the end of a call read a slot was
raised by whoever wrote it (`Written`), for the calls of DispatchContract
(`CallsWritten`), and the step that ends a call hands out one of theirs. The
last two theorems are no property of a run and say what may go wrong at all:
a return into code that is gone, or a scan that finds nothing, only at a
call whose innermost frame waits for the original, which is the finding
dispatch_paused_original and nothing else; and the Sys_Error of
`meta_apply_fix_data` only when a plugin goes below a handler of its own.

`CallbackMemoryProofs`: TypeCorrect, CodeApartHolds, EntriesServeHolds,
WaitingReturnHolds, ExitsForGoneHolds. The invariant says where code lies
(`Layout`: in pages of its allocator, below `used` in the last one, pairwise
apart), what the maps know (`Maps`: the first the calls of the callbacks there
are, the second a part of its inverse), that the functions compiled so far are
served (`Entries`), and that a waiting callback returns into its code or, during a
rebuild, is remembered by the right slot (`Frames`). They need one another: only
because code lies apart does a return address stand for one slot, and
`meta_collect_fix_data` finds the one that is waited for. `Allocation` and
`WriteCodeStep` are the lemmas about `allocate` and `compile_fixed_callback` that
the steps rest on. ExitsForGoneHolds, no property of a run, is the counterpart of
ExitsForHandlersHolds where code lies: Sys_Error comes exactly when the handler
waited for is of a plugin that has gone, and never because a rebuild finds the
entries of `g_va_funcs` taken or writes code elsewhere. It needs that a function
which was called keeps its entry (`Wrappable`), and that `emplace` leaves no slot
of a compiled callback out of the second map (`Current`).

`RegistryProofs`: TypeCorrect, CommandsMappedHolds, EngineAgreesHolds,
ValidIsLoadedHolds, CommandsComeBackHolds, LeftByClearHolds. CommandsMapped alone
is not inductive: closing a module only keeps it because every function in the
list is of its owner's open image or left behind (`Entry`), because the engine
runs what the list holds (`Link`), and because a new image is only mapped when
nobody holds a reference (`Holds`). LeftByClearHolds, no property of a run, says
where the finding registry_failed_query comes from: of all steps only the one that
clears the owner leaves a valid command with code that is gone. It needs that a
valid command holds a function of its owner (`Owns`), which IInv does not say of
those left behind.

`ClientQueriesProofs`: TypeCorrect, NotedAskedHolds, PendingNotedHolds,
FreshIdsHolds. The invariant: for a client that is there the note is exactly the
last query made, whoever has to answer was asked, and the ids taken are those up
to the counter.

`LinkentHookProofs`: TypeCorrect, OriginalInPlaceHolds, FlagTellsBytesHolds,
GameFunctionsFoundHolds, HookLastsAloneHolds. The inductive invariant adds that
the holder of the mutex is the thread in the critical section (`Held`), what bytes
and flag are at each place of it (`Place`), that before the one write without the
mutex, the installation, nobody is in the replacement (`Before`), and that what
was found is not forgotten on the way out (`Answered`). Whoever finds the original
bytes while the hook is on comes while the flag says so or while the holder of the
mutex is about to set it (`OldIsKnown`), which is all GameFunctionsFound concedes.
HookLastsAlone speaks of the behaviours in which two threads are never inside the
replacement at once; `ByTurns` is inductive along these, because a thread that
enters alone reads a clear flag (`FlagIsClear`) and so writes the jump back. With
linkent_lost, which needs two, it says exactly what the race costs.

Every invariant and every property of a step that a passing run checks is thus
proved. Only model-checked are the three properties that need fairness,
RunningGetsHooked, DelayedLoadEnds and MutexComesFree: liveness is out of the
prover's reach. Each of the four properties found violated has a theorem beside it
that delimits the finding: which steps alone, or which calls, can lead there, and
for linkent_lost when it cannot happen.

## Not modelled

Part by part, with the reason, in PROJECT.json; in short:

* Metamod's own source, `src/metamod/src`, has about 9850 lines, of which a third
  is modelled. The rest of the repository is the SDK, as headers, twice, the
  third-party code and an example plugin; none of it has behaviour of Metamod's.
* Per-CPU emitters, API tables, path and string functions, listings: no state.
* Configuration, game lookup, the Windows linkent merge, the log queue: run once at
  startup, in one order, with nobody else about.
* A refresh or a retry inside a call into a plugin: what they do is in
  PluginLifecycle, and what may happen between the halves of a load or unload in
  PluginRequests, but not the two at once.
* What the engine calls after GameShutdown, a page that the system refuses, and a
  thread that runs bytes of dlsym while they are written.

## Plan

Done are the seven detailed modules, the two abstract ones, and the proofs above.
What would come next, most important first:

1. `ServerSession`: PluginLifecycle composed with Registry, so that which modules
   are closed without unload() is not chosen but follows from the lifecycle.
2. PluginRequests with the pending actions of PluginLifecycle, so that a refresh
   can run inside a call into a plugin (`mlist.cpp:490` from a handler that has the
   engine execute `meta refresh`).
3. The registrations of functions that are no plugin's, and user messages.
