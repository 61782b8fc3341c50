---------------------------- MODULE RegistryProofs ----------------------------
(***************************************************************************)
(* Theorems about Registry for any number of plugins and any names, on     *)
(* both systems and whenever ReHLDS's API comes: type correctness, the     *)
(* invariants CommandsMapped, EngineAgrees and ValidIsLoaded,              *)
(* CommandsComeBack of every step, and the only step that leaves a command *)
(* without its module.                                                     *)
(*                                                                         *)
(* That a command never runs code that is gone does not follow from the    *)
(* step that closes a module alone: IInv says which function each command  *)
(* of the list holds (Entry), that the engine's table goes with it (Link), *)
(* and that a plugin that is not closed holds a reference (Holds).         *)
(***************************************************************************)
EXTENDS Registry, TLAPS

\* A plugin that is not closed has its image mapped, and a mapped image has a
\* number.
Holds(i) ==
  /\ state[i] # "closed" => refs[i] > 0
  /\ refs[i] > 0 => image[i] > 0

\* Plugin i is there, or was cleared with what it had registered.
Answers(i) ==
  i \in Plugin /\ (state[i] = "closed" => <<i, image[i]>> \in cleared)

\* A valid command has an owner and a function that is left behind or of the
\* owner's open image; any other has neither.
Entry(n) ==
  LET i == cmds[n].plugid
  IN /\ cmds[n].status = "RG_VALID" =>
          /\ Answers(i)
          /\ cmds[n].function \in cleared \/ cmds[n].function = <<i, image[i]>>
     /\ cmds[n].status # "RG_VALID" => i = 0 /\ cmds[n].function = Nop

\* A valid cvar has an owner.
CvarEntry(n) == cvars[n].status = "RG_VALID" => Answers(cvars[n].plugid)

\* The engine's table and the list: the engine calls a plugin itself only once
\* the API is there, and a command that is disabled was removed before that.
Link(n) ==
  /\ engine[n].via = "none" <=> cmds[n].status = "none"
  /\ engine[n].via = "direct" => api /\ engine[n].function = cmds[n].function
  /\ cmds[n].status = "RG_INVALID" => n \in stuck

IInv ==
  /\ TypeOK
  /\ \A i \in Plugin : Holds(i)
  /\ \A n \in Name : Entry(n) /\ CvarEntry(n) /\ Link(n)

----------------------------------------------------------------------------
\* The records for what is not there are of their types.
LEMMA NullRecords ==
  /\ NoCmd \in RegCmd /\ Disabled \in RegCmd
  /\ NoCvar \in RegCvar /\ [status |-> "RG_INVALID", plugid |-> 0] \in RegCvar
  /\ NoHandler \in Handler
BY NumPluginsAssumption
   DEF NoCmd, Disabled, RegCmd, NoCvar, RegCvar, RegStatus, NoHandler, Handler, Function, Nop

\* IInv holds before anything is loaded.
LEMMA InitIInv == Init => IInv
<1> SUFFICES ASSUME Init PROVE IInv
  OBVIOUS
<1>1. TypeOK
  <2>1. linux \in BOOLEAN /\ api \in BOOLEAN
    BY Zenon DEF Init
  <2>2. 0 \in 0..MaxImages /\ 0 \in 0..MaxRefs
    BY BoundsAssumption
  <2> QED BY <2>1, <2>2, NullRecords, Zenon DEF Init, TypeOK
<1>2. \A i \in Plugin : Holds(i)
  BY DEF Init, Holds
<1>3. \A n \in Name : Entry(n) /\ CvarEntry(n) /\ Link(n)
  BY DEF Init, Entry, CvarEntry, Link, NoCmd, NoCvar, NoHandler
<1> QED BY <1>1, <1>2, <1>3 DEF IInv

\* ReHLDS's API is found.
LEMMA InitRehldsApiStep ==
  ASSUME IInv, InitRehldsApi
  PROVE  IInv'
<1>1. TypeOK'
  BY DEF InitRehldsApi, IInv, TypeOK
<1>2. \A i \in Plugin : Holds(i)'
  BY DEF InitRehldsApi, IInv, Holds
<1>3. \A n \in Name : Entry(n)' /\ CvarEntry(n)' /\ Link(n)'
  BY DEF InitRehldsApi, IInv, Entry, Answers, CvarEntry, Link
<1> QED BY <1>1, <1>2, <1>3 DEF IInv

\* A plugin that is not closed has functions.
LEMMA OpenFunction ==
  ASSUME IInv, NEW i \in Plugin, state[i] # "closed"
  PROVE  refs[i] \in 1..MaxRefs /\ image[i] \in 1..MaxImages /\ <<i, image[i]>> \in Function
BY BoundsAssumption DEF IInv, TypeOK, Holds, Function

\* A module is opened.
LEMMA OpenModuleStep ==
  ASSUME IInv, NEW i \in Plugin, OpenModule(i)
  PROVE  IInv'
<1>0. TypeOK /\ Holds(i) /\ state[i] = "closed"
  BY DEF IInv, OpenModule
<1>1. /\ refs' \in [Plugin -> 0..MaxRefs] /\ image' \in [Plugin -> 0..MaxImages]
      /\ \A j \in Plugin : Holds(j)'
      /\ \A j \in Plugin \ {i} : image'[j] = image[j] /\ state'[j] = state[j]
  <2>1. CASE refs[i] > 0
    BY <1>0, <2>1, BoundsAssumption DEF OpenModule, IInv, TypeOK, Holds
  <2>2. CASE ~(refs[i] > 0)
    BY <1>0, <2>2, BoundsAssumption DEF OpenModule, IInv, TypeOK, Holds
  <2> QED BY <2>1, <2>2
<1>2. TypeOK'
  BY <1>0, <1>1 DEF OpenModule, TypeOK
<1>3. \A n \in Name : Entry(n)'
  <2> TAKE n \in Name
  <2>1. CASE cmds[n].plugid = i
    BY <1>0, <2>1 DEF OpenModule, IInv, TypeOK, Entry, Answers
  <2>2. CASE cmds[n].plugid # i
    BY <1>1, <2>2 DEF OpenModule, IInv, Entry, Answers
  <2> QED BY <2>1, <2>2
<1>4. \A n \in Name : CvarEntry(n)'
  BY <1>0, <1>1 DEF OpenModule, IInv, TypeOK, Answers, CvarEntry
<1>5. \A n \in Name : Link(n)'
  BY DEF OpenModule, IInv, Link
<1> QED BY <1>1, <1>2, <1>3, <1>4, <1>5 DEF IInv

\* A plugin is attached.
LEMMA AttachPluginStep ==
  ASSUME IInv, NEW i \in Plugin, AttachPlugin(i)
  PROVE  IInv'
<1>1. TypeOK'
  BY DEF AttachPlugin, IInv, TypeOK
<1>2. \A j \in Plugin : Holds(j)'
  BY DEF AttachPlugin, IInv, TypeOK, Holds
<1>3. \A n \in Name : Entry(n)' /\ CvarEntry(n)' /\ Link(n)'
  BY DEF AttachPlugin, IInv, TypeOK, Entry, Answers, CvarEntry, Link
<1> QED BY <1>1, <1>2, <1>3 DEF IInv

\* The lookup of the registrant's module.
LEMMA FindMemlocStep ==
  ASSUME IInv, NEW i \in Plugin, state[i] # "closed", FindMemloc(i), UNCHANGED <<state, image>>
  PROVE  refs' \in [Plugin -> 0..MaxRefs] /\ \A j \in Plugin : Holds(j)'
BY OpenFunction, BoundsAssumption DEF FindMemloc, IInv, TypeOK, Holds

\* A command is registered.
LEMMA AddServerCommandStep ==
  ASSUME IInv, NEW i \in Plugin, NEW n \in Name, AddServerCommand(i, n)
  PROVE  IInv'
<1> DEFINE function == <<i, image[i]>>
           command  == [status |-> "RG_VALID", plugid |-> i, function |-> function]
<1>1. state[i] # "closed" /\ function \in Function
  BY OpenFunction DEF AddServerCommand
<1>2. refs' \in [Plugin -> 0..MaxRefs] /\ \A j \in Plugin : Holds(j)'
  BY FindMemlocStep DEF AddServerCommand
<1>3. CASE UNCHANGED <<cmds, engine>>
  BY <1>2, <1>3 DEF AddServerCommand, IInv, TypeOK, Entry, Answers, CvarEntry, Link
<1>4. CASE /\ cmds' = [cmds EXCEPT ![n] = command]
           /\ engine' = [engine EXCEPT ![n] = EngineHandler(function)]
  <2>1. command \in RegCmd
    BY <1>1, NumPluginsAssumption DEF RegCmd, RegStatus, Plugin
  <2>2. EngineHandler(function) \in Handler
    BY <1>1 DEF EngineHandler, Handler, Function, Nop
  <2>3. TypeOK'
    BY <1>2, <1>4, <2>1, <2>2 DEF AddServerCommand, IInv, TypeOK
  <2>4. \A m \in Name : Entry(m)'
    BY <1>1, <1>4 DEF AddServerCommand, IInv, TypeOK, Entry, Answers
  <2>5. \A m \in Name : CvarEntry(m)'
    BY DEF AddServerCommand, IInv, CvarEntry, Answers
  <2>6. \A m \in Name : Link(m)'
    BY <1>4 DEF AddServerCommand, IInv, TypeOK, Link, EngineHandler
  <2> QED BY <1>2, <2>3, <2>4, <2>5, <2>6 DEF IInv
<1> QED BY <1>3, <1>4 DEF AddServerCommand

\* A cvar is registered.
LEMMA CVarRegisterStep ==
  ASSUME IInv, NEW i \in Plugin, NEW n \in Name, CVarRegister(i, n)
  PROVE  IInv'
<1>1. refs' \in [Plugin -> 0..MaxRefs] /\ \A j \in Plugin : Holds(j)'
  BY FindMemlocStep DEF CVarRegister
<1>2. [status |-> "RG_VALID", plugid |-> i] \in RegCvar
  BY NumPluginsAssumption DEF RegCvar, RegStatus, Plugin
<1>3. TypeOK'
  BY <1>1, <1>2 DEF CVarRegister, IInv, TypeOK
<1>4. \A m \in Name : Entry(m)' /\ Link(m)'
  BY DEF CVarRegister, IInv, TypeOK, Entry, Answers, Link
<1>5. \A m \in Name : CvarEntry(m)'
  BY DEF CVarRegister, IInv, TypeOK, CvarEntry, Answers
<1> QED BY <1>1, <1>3, <1>4, <1>5 DEF IInv

\* The module of a plugin is closed; its images are what they were.
LEMMA CloseModuleStep ==
  ASSUME IInv, NEW i \in Plugin, CloseModule(i)
  PROVE  /\ refs' \in [Plugin -> 0..MaxRefs]
         /\ state' = [state EXCEPT ![i] = "closed"]
         /\ state' \in [Plugin -> {"closed", "open", "attached"}]
         /\ image' = image
         /\ \A j \in Plugin : Holds(j)'
<1>1. CASE state[i] # "closed"
  <2>1. refs[i] \in 1..MaxRefs /\ image[i] \in 1..MaxImages
    BY <1>1, OpenFunction
  <2> QED BY <1>1, <2>1, BoundsAssumption DEF CloseModule, IInv, TypeOK, Holds
<1>2. CASE state[i] = "closed"
  BY <1>2 DEF CloseModule, IInv, TypeOK, Holds
<1> QED BY <1>1, <1>2

\* A plugin is unloaded: its commands and cvars go first.
LEMMA UnloadPluginStep ==
  ASSUME IInv, NEW i \in Plugin, UnloadPlugin(i)
  PROVE  IInv'
<1>1. /\ refs' \in [Plugin -> 0..MaxRefs]
      /\ state' = [state EXCEPT ![i] = "closed"]
      /\ state' \in [Plugin -> {"closed", "open", "attached"}]
      /\ image' = image
      /\ \A j \in Plugin : Holds(j)'
  BY CloseModuleStep DEF UnloadPlugin
<1>2. \A n \in Name : /\ cmds[n].plugid = i => cmds'[n] = IF api THEN NoCmd ELSE Disabled
                      /\ cmds[n].plugid # i => cmds'[n] = cmds[n] /\ engine'[n] = engine[n]
                      /\ cmds[n].plugid = i =>
                           engine'[n] = IF api THEN NoHandler ELSE engine[n]
                      /\ cvars[n].plugid # i => cvars'[n] = cvars[n]
                      /\ cvars[n].plugid = i => cvars'[n] = [status |-> "RG_INVALID", plugid |-> 0]
  BY DEF UnloadPlugin, RemoveCommands, DisableCvars, Owned
<1>3. TypeOK'
  <2>1. cmds' \in [Name -> RegCmd] /\ engine' \in [Name -> Handler] /\ cvars' \in [Name -> RegCvar]
    BY NullRecords DEF UnloadPlugin, RemoveCommands, DisableCvars, Owned, IInv, TypeOK
  <2>2. stuck' \subseteq Name
    BY DEF UnloadPlugin, Owned, IInv, TypeOK
  <2> QED BY <1>1, <2>1, <2>2 DEF UnloadPlugin, IInv, TypeOK
<1>4. \A n \in Name : Entry(n)' /\ CvarEntry(n)'
  <2> TAKE n \in Name
  <2>0. /\ \A j \in Plugin \ {i} : Answers(j) => Answers(j)'
        /\ cleared' = cleared
    BY <1>1 DEF UnloadPlugin, IInv, TypeOK, Answers
  <2>1. Entry(n)'
    <3>1. CASE cmds[n].plugid = i
      BY <1>2, <3>1 DEF Entry, Disabled, NoCmd
    <3>2. CASE cmds[n].plugid # i
      BY <1>1, <1>2, <2>0, <3>2 DEF IInv, Entry, Answers
    <3> QED BY <3>1, <3>2
  <2>2. CvarEntry(n)'
    <3>1. CASE cvars[n].plugid = i
      BY <1>2, <3>1 DEF CvarEntry
    <3>2. CASE cvars[n].plugid # i
      BY <1>2, <2>0, <3>2 DEF IInv, CvarEntry, Answers
    <3> QED BY <3>1, <3>2
  <2> QED BY <2>1, <2>2
<1>5. \A n \in Name : Link(n)'
  <2> TAKE n \in Name
  <2>1. CASE cmds[n].plugid = i
    <3>1. cmds[n].status = "RG_VALID"
      BY <2>1, NumPluginsAssumption DEF IInv, Entry, Plugin
    <3>2. ~api => n \in stuck'
      BY <2>1 DEF UnloadPlugin, Owned
    <3> QED BY <1>2, <2>1, <3>1, <3>2 DEF UnloadPlugin, IInv, Link, Disabled, NoCmd, NoHandler
  <2>2. CASE cmds[n].plugid # i
    BY <1>2, <2>2 DEF UnloadPlugin, IInv, Link
  <2> QED BY <2>1, <2>2
<1> QED BY <1>1, <1>3, <1>4, <1>5 DEF IInv

\* A plugin is cleared: what it has registered is left behind.
LEMMA ClearPluginStep ==
  ASSUME IInv, NEW i \in Plugin, ClearPlugin(i)
  PROVE  IInv'
<1>1. /\ refs' \in [Plugin -> 0..MaxRefs]
      /\ state' = [state EXCEPT ![i] = "closed"]
      /\ state' \in [Plugin -> {"closed", "open", "attached"}]
      /\ image' = image
      /\ \A j \in Plugin : Holds(j)'
  BY CloseModuleStep DEF ClearPlugin
<1>2. <<i, image[i]>> \in Function
  BY OpenFunction DEF ClearPlugin
<1>3. TypeOK'
  BY <1>1, <1>2 DEF ClearPlugin, IInv, TypeOK
<1>4. \A n \in Name : Entry(n)' /\ CvarEntry(n)' /\ Link(n)'
  BY <1>1 DEF ClearPlugin, IInv, TypeOK, Entry, Answers, CvarEntry, Link
<1> QED BY <1>1, <1>3, <1>4 DEF IInv

\* IInv is inductive.
THEOREM NextIInv == IInv /\ [Next]_vars => IInv'
<1>1. ASSUME IInv, UNCHANGED vars PROVE IInv'
  BY <1>1 DEF vars, IInv, TypeOK, Holds, Entry, Answers, CvarEntry, Link
<1> QED BY <1>1, InitRehldsApiStep, OpenModuleStep, AttachPluginStep, UnloadPluginStep, ClearPluginStep,
           AddServerCommandStep, CVarRegisterStep DEF Next

\* IInv holds for ever.
THEOREM Invariance == Spec => []IInv
BY InitIInv, NextIInv, PTL DEF Spec

----------------------------------------------------------------------------
(* What follows from it.                                                   *)

\* Type correctness.
THEOREM TypeCorrect == Spec => []TypeOK
<1>1. IInv => TypeOK
  BY DEF IInv
<1> QED BY <1>1, Invariance, PTL

\* A command never runs code that is not mapped, unless it was left behind by
\* a plugin that was closed without unload().
THEOREM CommandsMappedHolds == Spec => []CommandsMapped
<1>1. IInv => CommandsMapped
  <2> SUFFICES ASSUME IInv, NEW n \in Name PROVE Mapped(Runs(n)) \/ Runs(n) \in cleared
    BY DEF CommandsMapped
  <2>1. Runs(n) = Nop \/ Runs(n) = cmds[n].function
    BY DEF IInv, Link, Runs, TypeOK, Handler
  <2>2. cmds[n].status = "RG_VALID" =>
          \/ cmds[n].function \in cleared
          \/ /\ cmds[n].plugid \in Plugin
             /\ cmds[n].function = <<cmds[n].plugid, image[cmds[n].plugid]>>
             /\ state[cmds[n].plugid] # "closed"
    BY DEF IInv, Entry, Answers
  <2>3. CASE Runs(n) = Nop
    BY <2>3 DEF Mapped
  <2>4. CASE Runs(n) = cmds[n].function /\ Runs(n) # Nop
    BY <2>2, <2>4 DEF IInv, Entry, Holds, Mapped
  <2> QED BY <2>1, <2>3, <2>4
<1> QED BY <1>1, Invariance, PTL

\* The engine's table and Metamod's list agree on the commands.
THEOREM EngineAgreesHolds == Spec => []EngineAgrees
<1>1. IInv => EngineAgrees
  BY DEF IInv, Link, EngineAgrees
<1> QED BY <1>1, Invariance, PTL

\* What is valid belongs to a plugin that is loaded, or was cleared with it.
THEOREM ValidIsLoadedHolds == Spec => []ValidIsLoaded
<1>1. IInv => ValidIsLoaded
  BY DEF IInv, Entry, CvarEntry, Answers, ValidIsLoaded
<1> QED BY <1>1, Invariance, PTL

\* Once the API is there a plugin gets a free name, also one it had before,
\* unless its command was removed too early.
THEOREM CommandsComeBackHolds == Spec => CommandsComeBack
<1> DEFINE Back == \A i \in Plugin, n \in Name :
                     AddServerCommand(i, n) /\ api /\ cmds[n].status # "RG_VALID" /\ n \notin stuck
                       => Runs(n)' = <<i, image[i]>>
<1>1. IInv /\ [Next]_vars => [Back]_vars
  <2> SUFFICES ASSUME IInv, NEW i \in Plugin, NEW n \in Name, AddServerCommand(i, n),
                      api, cmds[n].status # "RG_VALID", n \notin stuck
               PROVE  Runs(n)' = <<i, image[i]>>
    OBVIOUS
  <2>1. cmds[n].status = "none"
    BY DEF IInv, TypeOK, Link, RegCmd, RegStatus
  <2>2. engine' = [engine EXCEPT ![n] = [via |-> "direct", function |-> <<i, image[i]>>]]
    BY <2>1, Zenon DEF AddServerCommand, EngineHandler
  <2>3. engine'[n] = [via |-> "direct", function |-> <<i, image[i]>>]
    BY <2>2 DEF IInv, TypeOK
  <2> QED BY <2>3 DEF Runs
<1> QED BY <1>1, Invariance, PTL DEF Spec, CommandsComeBack

----------------------------------------------------------------------------
(* Why a valid command may be in a module that is gone.                    *)

Dangling(n) == cmds[n].status = "RG_VALID" /\ ~Mapped(cmds[n].function)

\* A command of Metamod's list is left with a function that is not mapped by
\* the clearing of its plugin alone: not when it is registered, nor when any
\* plugin is opened, attached or unloaded, nor when ReHLDS's API is found.
LeftByClear ==
  [][\A n \in Name : ~Dangling(n) /\ Dangling(n)' => ClearPlugin(cmds[n].plugid)]_vars

\* The function of a valid command is its owner's.
Owns(n) == cmds[n].status = "RG_VALID" => cmds[n].function[1] = cmds[n].plugid

OwnsInv == IInv /\ \A n \in Name : Owns(n)

LEMMA OwnsStep == OwnsInv /\ [Next]_vars => OwnsInv'
<1> SUFFICES ASSUME OwnsInv, [Next]_vars, NEW n \in Name PROVE Owns(n)'
  BY NextIInv DEF OwnsInv
<1>1. CASE cmds' = cmds
  BY <1>1 DEF OwnsInv, Owns
<1>2. ASSUME NEW i \in Plugin, NEW m \in Name, AddServerCommand(i, m) PROVE Owns(n)'
  <2>1. CASE cmds' = [cmds EXCEPT ![m] = [status |-> "RG_VALID", plugid |-> i,
                                          function |-> <<i, image[i]>>]]
    BY <2>1 DEF OwnsInv, Owns, IInv, TypeOK
  <2> QED BY <1>1, <1>2, <2>1, Zenon DEF AddServerCommand
<1>3. ASSUME NEW i \in Plugin, UnloadPlugin(i) PROVE Owns(n)'
  BY <1>3 DEF UnloadPlugin, RemoveCommands, NoCmd, Disabled, OwnsInv, Owns
<1>4. ASSUME NEW i \in Plugin, NEW m \in Name, CVarRegister(i, m) PROVE cmds' = cmds
  BY <1>4 DEF CVarRegister
<1>5. ASSUME NEW i \in Plugin, OpenModule(i) \/ AttachPlugin(i) \/ ClearPlugin(i) PROVE cmds' = cmds
  BY <1>5 DEF OpenModule, AttachPlugin, ClearPlugin
<1>6. InitRehldsApi \/ UNCHANGED vars => cmds' = cmds
  BY DEF InitRehldsApi, vars
<1> QED BY <1>1, <1>2, <1>3, <1>4, <1>5, <1>6 DEF Next

\* A function that is mapped belongs to a plugin with a reference.
LEMMA OwnerHolds ==
  ASSUME OwnsInv, NEW n \in Name, cmds[n].status = "RG_VALID", Mapped(cmds[n].function)
  PROVE  LET i == cmds[n].plugid IN i \in Plugin /\ refs[i] > 0 /\ cmds[n].function[2] = image[i]
<1>1. cmds[n].plugid \in Plugin /\ cmds[n].function[1] = cmds[n].plugid
  BY DEF OwnsInv, Owns, IInv, Entry, Answers
<1>2. cmds[n].function # Nop
  BY <1>1, NumPluginsAssumption DEF Nop, Plugin
<1> QED BY <1>1, <1>2 DEF Mapped

\* As long as the owner's image keeps a reference, its function is mapped.
LEMMA StaysMapped ==
  ASSUME OwnsInv, NEW n \in Name, ~Dangling(n), Dangling(n)',
         cmds'[n] = cmds[n], image' = image, \A j \in Plugin : refs[j] > 0 => refs'[j] > 0
  PROVE  FALSE
<1>1. cmds[n].status = "RG_VALID" /\ Mapped(cmds[n].function)
  BY DEF Dangling
<1>2. PICK i \in Plugin : i = cmds[n].plugid
  BY <1>1, OwnerHolds
<1>3. cmds[n].function[1] = i /\ cmds[n].function[2] = image[i] /\ refs[i] > 0
  BY <1>1, <1>2, OwnerHolds DEF OwnsInv, Owns
<1> QED BY <1>3 DEF Dangling, Mapped

LEMMA LeftStep ==
  ASSUME OwnsInv, [Next]_vars, NEW n \in Name, ~Dangling(n), Dangling(n)'
  PROVE  ClearPlugin(cmds[n].plugid)
<1> USE DEF IInv, TypeOK
<1>1. ASSUME UNCHANGED <<cmds, image, refs>> PROVE FALSE
  BY <1>1 DEF Dangling, Mapped
<1>2. ASSUME NEW i \in Plugin, FindMemloc(i), cmds'[n] = cmds[n], image' = image PROVE FALSE
  <2>1. \A j \in Plugin : refs[j] > 0 => refs'[j] > 0
    BY <1>2, BoundsAssumption DEF FindMemloc, OwnsInv
  <2> QED BY <1>2, <2>1, StaysMapped
<1>3. ASSUME NEW i \in Plugin, NEW m \in Name, AddServerCommand(i, m) PROVE FALSE
  <2>1. CASE cmds'[n] = cmds[n]
    BY <1>2, <1>3, <2>1 DEF AddServerCommand
  <2>2. CASE cmds'[n] # cmds[n]
    <3>1. cmds' = [cmds EXCEPT ![m] = [status |-> "RG_VALID", plugid |-> i,
                                       function |-> <<i, image[i]>>]]
      BY <1>3, <2>2, Zenon DEF AddServerCommand
    <3>2. cmds'[n].function = <<i, image[i]>>
      BY <2>2, <3>1 DEF OwnsInv
    <3>3. image' = image /\ state' = state /\ state[i] # "closed"
      BY <1>3 DEF AddServerCommand
    <3>4. refs'[i] > 0
      BY <1>3, <3>3, FindMemlocStep DEF AddServerCommand, OwnsInv, Holds
    <3> QED BY <3>2, <3>3, <3>4 DEF Dangling, Mapped
  <2> QED BY <2>1, <2>2
<1>4. ASSUME NEW i \in Plugin, NEW m \in Name, CVarRegister(i, m) PROVE FALSE
  BY <1>2, <1>4 DEF CVarRegister
<1>5. ASSUME NEW i \in Plugin, AttachPlugin(i) PROVE FALSE
  BY <1>1, <1>5 DEF AttachPlugin
<1>6. ASSUME NEW i \in Plugin, OpenModule(i) PROVE FALSE
  <2>1. cmds' = cmds /\ cmds[n].status = "RG_VALID" /\ Mapped(cmds[n].function)
    BY <1>6 DEF OpenModule, Dangling
  <2>2. PICK j \in Plugin : j = cmds[n].plugid
    BY <2>1, OwnerHolds
  <2>3. cmds[n].function[1] = j /\ cmds[n].function[2] = image[j] /\ refs[j] > 0
    BY <2>1, <2>2, OwnerHolds DEF OwnsInv, Owns
  <2>4. image'[j] = image[j] /\ refs'[j] > 0
    BY <1>6, <2>3, BoundsAssumption DEF OpenModule, OwnsInv
  <2> QED BY <2>1, <2>3, <2>4 DEF Dangling, Mapped
<1>7. ASSUME NEW i \in Plugin, CloseModule(i), cmds'[n] = cmds[n] PROVE cmds[n].plugid = i
  <2>1. cmds[n].status = "RG_VALID" /\ Mapped(cmds[n].function)
    BY <1>7 DEF Dangling
  <2>2. PICK j \in Plugin : j = cmds[n].plugid
    BY <2>1, OwnerHolds
  <2>3. cmds[n].function[1] = j /\ cmds[n].function[2] = image[j] /\ refs[j] > 0
    BY <2>1, <2>2, OwnerHolds DEF OwnsInv, Owns
  <2>4. j # i => image'[j] = image[j] /\ refs'[j] = refs[j]
    BY <1>7 DEF CloseModule, OwnsInv
  <2> QED BY <1>7, <2>2, <2>3, <2>4 DEF Dangling, Mapped
<1>8. ASSUME NEW i \in Plugin, UnloadPlugin(i) PROVE FALSE
  <2>1. CASE cmds[n].plugid = i
    BY <1>8, <2>1 DEF UnloadPlugin, RemoveCommands, Owned, NoCmd, Disabled, Dangling
  <2>2. CASE cmds[n].plugid # i
    <3>1. cmds'[n] = cmds[n] /\ CloseModule(i)
      BY <1>8, <2>2 DEF UnloadPlugin, RemoveCommands, Owned
    <3> QED BY <1>7, <2>2, <3>1
  <2> QED BY <2>1, <2>2
<1>9. ASSUME NEW i \in Plugin, ClearPlugin(i) PROVE cmds[n].plugid = i
  BY <1>7, <1>9 DEF ClearPlugin
<1>10. ~ InitRehldsApi /\ ~ UNCHANGED vars
  BY <1>1 DEF InitRehldsApi, vars
<1> QED BY <1>3, <1>4, <1>5, <1>6, <1>8, <1>9, <1>10 DEF Next

\* The one way to a valid command without a module is the one that the run
\* registry_failed_query shows: a plugin is closed without unload().
THEOREM LeftByClearHolds == Spec => LeftByClear
<1> DEFINE Left == \A n \in Name : ~Dangling(n) /\ Dangling(n)' => ClearPlugin(cmds[n].plugid)
<1>1. Init => OwnsInv
  BY InitIInv DEF Init, OwnsInv, Owns, NoCmd
<1>2. OwnsInv /\ [Next]_vars => OwnsInv'
  BY OwnsStep
<1>3. OwnsInv /\ [Next]_vars => Left
  BY LeftStep
<1> HIDE DEF Left
<1>4. Spec => [][Left]_vars
  BY <1>1, <1>2, <1>3, PTL DEF Spec
<1> QED BY <1>4 DEF LeftByClear, Left
=============================================================================
