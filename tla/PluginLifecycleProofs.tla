------------------------ MODULE PluginLifecycleProofs ------------------------
(***************************************************************************)
(* Theorems about PluginLifecycle for any set of files, any bound on the   *)
(* list, any plugin infos and request times: type correctness, the         *)
(* invariants HookedLive, InfoLive and UniquePath, that the lifecycle      *)
(* implements PluginContract, and that pending actions are kept.           *)
(*                                                                         *)
(* None of the three is inductive: that the callbacks reach live plugins   *)
(* only follows from how the status of a plugin goes with its module and   *)
(* its attachment (Sound), and that paths are unique from the slots above  *)
(* last being empty and, while plugins.ini is read, from what it adds      *)
(* being no more than names (NothingLoaded).  IInv is the conjunction; the *)
(* lemmas show what each operation of MPlugin makes of a sound plugin      *)
(* (Good), and from that both that a step keeps IInv and which step of the *)
(* contract it is.  Further lemmas for each operation show what becomes of *)
(* what it had put off (Settled, Keeping), and with it PendingKept, and at *)
(* which load times it attaches and detaches (Timely), and with it         *)
(* AllowedTimes.  The last two theorems tell which steps leave a running   *)
(* plugin without its callbacks, and that a load that was put off is       *)
(* decided when a refresh at a change of level comes to it.                *)
(***************************************************************************)
EXTENDS PluginLifecycle, TLAPS

\* The status says whether the module is open and whether the plugin is
\* attached; m_info is set exactly as long as the module is open; what is
\* attached does not wait to be loaded; and what was put off can be tried again,
\* a load because the plugin allows it after startup.
Sound(p) ==
  /\ p.open <=> p.status >= PL_OPENED
  /\ p.open <=> p.info # NoInfo
  /\ p.attached <=> p.status >= PL_RUNNING
  /\ p.attached => p.action # "PA_LOAD"
  /\ p.promise \in {"PA_NONE", "PA_LOAD", "PA_UNLOAD", "PA_RELOAD"}
  /\ p.promise = "PA_LOAD" => p.open /\ p.info.loadable > PT_STARTUP

\* In the middle of reload(): unloaded, and marked to be loaded again.
Reopening(p) ==
  /\ p.status = PL_VALID /\ ~p.open /\ ~p.attached
  /\ p.action = "PA_LOAD" /\ p.promise = "PA_NONE"

\* An operation empties a slot or keeps its path.
Keeps(p, q) == q.status >= PL_VALID => p.status >= PL_VALID /\ q.path = p.path

\* What an operation makes of plugin p: unloads says whether its module was
\* closed on the way, which is the only way a plugin stops being hooked.
Good(p, q, unloads) ==
  /\ q \in Plugin
  /\ Sound(q)
  /\ Keeps(p, q)
  /\ ~unloads /\ p.status >= PL_RUNNING => q.status >= PL_RUNNING

USE DEF PL_EMPTY, PL_VALID, PL_BADFILE, PL_OPENED, PL_FAILED, PL_RUNNING, PL_PAUSED,
        PT_NEVER, PT_STARTUP, PT_CHANGELEVEL, PT_ANYTIME, PT_ANYPAUSE

----------------------------------------------------------------------------
(* The operations of MPlugin.                                              *)

\* The values the operations give to fields are of the fields' types.
LEMMA FieldValues ==
  /\ {PL_EMPTY, PL_VALID, PL_BADFILE, PL_OPENED, PL_FAILED, PL_RUNNING, PL_PAUSED} \subseteq Status
  /\ {"PA_NULL", "PA_NONE", "PA_KEEP", "PA_LOAD", "PA_UNLOAD", "PA_RELOAD"} \subseteq Action
  /\ {TRUE, FALSE} \subseteq BOOLEAN
  /\ NoInfo \in Info \cup {NoInfo}
BY DEF Status, Action

\* A new entry is a well-formed plugin that nothing was done with yet.
LEMMA AddedGood ==
  ASSUME NEW path \in Path \cup {NoPath}, NEW source \in Source
  PROVE  Added(path, source) \in Plugin /\ Sound(Added(path, source))
BY InfoAssumption DEF Added, Plugin, Status, Action, Source, Sound

\* So is a slot that was cleared.
LEMMA EmptyGood == EmptySlot \in Plugin /\ Sound(EmptySlot) /\ EmptySlot.status = PL_EMPTY
<1>1. Added(NoPath, "PS_INI") \in Plugin
  BY AddedGood DEF Source
<1>2. EmptySlot \in Plugin
  BY <1>1, FieldValues, Zenon DEF EmptySlot, Plugin
<1>3. Sound(EmptySlot) /\ EmptySlot.status = PL_EMPTY
  BY <1>1 DEF EmptySlot, Added, Sound
<1> QED BY <1>2, <1>3

\* The query opens the plugin, finds it open already, or fails.
LEMMA QueriedGood ==
  ASSUME NEW p \in Plugin, NEW e \in Env, Sound(p) \/ Reopening(p), Loadable(p)
  PROVE  LET q == Queried(p, e)
         IN /\ q \in Plugin /\ Sound(q)
            /\ q.path = p.path /\ q.action = p.action
            /\ q.status \in {PL_BADFILE, PL_OPENED, PL_FAILED}
<1>1. e.info \in Info
  BY DEF Env
<1>2. CASE p.status >= PL_OPENED
  BY <1>2 DEF Queried, Loadable, Reopening
<1>3. CASE ~(p.status >= PL_OPENED) /\ e.query
  <2>1. Queried(p, e) = [p EXCEPT !.status = PL_OPENED, !.open = TRUE, !.info = e.info]
    BY <1>3, Zenon DEF Queried
  <2>2. Queried(p, e) \in Plugin
    BY <1>1, <2>1, FieldValues, Zenon DEF Plugin
  <2>3. Sound(Queried(p, e))
    BY <1>1, <2>1, InfoAssumption, <1>3 DEF Sound, Plugin, Status, Loadable, Reopening
  <2> QED BY <2>1, <2>2, <2>3 DEF Plugin
<1>4. CASE ~(p.status >= PL_OPENED) /\ ~e.query
  <2>1. Queried(p, e) = [p EXCEPT !.status = PL_BADFILE, !.open = FALSE, !.info = NoInfo]
    BY <1>4, Zenon DEF Queried
  <2>2. Queried(p, e) \in Plugin
    BY <2>1, FieldValues, Zenon DEF Plugin
  <2>3. Sound(Queried(p, e))
    BY <2>1, <1>4 DEF Sound, Plugin, Status, Loadable, Reopening
  <2> QED BY <2>1, <2>2, <2>3 DEF Plugin
<1> QED BY <1>2, <1>3, <1>4

\* The rest of load() attaches an opened plugin, gives up, or waits.
LEMMA AttachedGood ==
  ASSUME NEW q \in Plugin, NEW t \in LoadTime, NEW e \in Env,
         Sound(q), q.status \in {PL_OPENED, PL_FAILED}, q.action = "PA_LOAD"
  PROVE  LET r == Attached(q, t, e)
         IN r \in Plugin /\ Sound(r) /\ r.path = q.path
<1> DEFINE r == Attached(q, t, e)
<1>1. \/ r = [q EXCEPT !.promise = q.action] /\ q.info.loadable > PT_STARTUP
      \/ r = [q EXCEPT !.action = "PA_NONE"]
      \/ r = [q EXCEPT !.status = PL_RUNNING, !.action = "PA_NONE", !.newer = FALSE,
                       !.attached = TRUE, !.promise = "PA_NONE"]
      \/ r = [q EXCEPT !.status = PL_FAILED, !.promise = "PA_NONE"]
  BY Zenon DEF Attached
<1> HIDE DEF r
<1>2. q.action \in Action
  BY DEF Plugin
<1>3. r \in Plugin
  BY <1>1, <1>2, FieldValues, Zenon DEF Plugin
<1>4. Sound(r) /\ r.path = q.path
  <2>1. CASE r = [q EXCEPT !.promise = q.action] /\ q.info.loadable > PT_STARTUP
    BY <2>1 DEF Sound, Plugin
  <2>4. CASE r = [q EXCEPT !.action = "PA_NONE"]
    BY <2>4 DEF Sound, Plugin
  <2>2. CASE r = [q EXCEPT !.status = PL_RUNNING, !.action = "PA_NONE", !.newer = FALSE,
                           !.attached = TRUE, !.promise = "PA_NONE"]
    BY <2>2 DEF Sound, Plugin
  <2>3. CASE r = [q EXCEPT !.status = PL_FAILED, !.promise = "PA_NONE"]
    BY <2>3 DEF Sound, Plugin
  <2> QED BY <1>1, <2>1, <2>2, <2>3, <2>4
<1> QED BY <1>3, <1>4 DEF r

\* load() leaves a sound plugin, from a sound one or from the middle of a
\* reload, and never stops one that runs.
LEMMA LoadGood ==
  ASSUME NEW p \in Plugin, NEW t \in LoadTime, NEW e \in Env, Sound(p) \/ Reopening(p)
  PROVE  Good(p, Load(p, t, e), FALSE)
<1>1. CASE ~Loadable(p)
  BY <1>1 DEF Load, Good, Keeps, Reopening, Loadable
<1>2. CASE Loadable(p)
  <2> DEFINE q == Queried(p, e)
  <2>1. /\ q \in Plugin /\ Sound(q)
        /\ q.path = p.path /\ q.action = "PA_LOAD"
        /\ q.status \in {PL_BADFILE, PL_OPENED, PL_FAILED}
    BY <1>2, QueriedGood DEF Loadable
  <2>2. CASE q.status = PL_BADFILE
    <3>1. Load(p, t, e) = q
      BY <1>2, <2>2 DEF Load
    <3> QED BY <1>2, <2>1, <3>1 DEF Good, Keeps, Loadable
  <2>3. CASE q.status # PL_BADFILE
    <3>1. Load(p, t, e) = Attached(q, t, e)
      BY <1>2, <2>3 DEF Load
    <3>2. /\ Attached(q, t, e) \in Plugin /\ Sound(Attached(q, t, e))
          /\ Attached(q, t, e).path = q.path
      BY <2>1, <2>3, AttachedGood
    <3> QED BY <1>2, <2>1, <3>1, <3>2 DEF Good, Keeps, Loadable
  <2> QED BY <2>2, <2>3
<1> QED BY <1>1, <1>2

\* clear() only empties a slot whose plugin is not attached.
LEMMA ClearGood ==
  ASSUME NEW p \in Plugin, Sound(p)
  PROVE  Good(p, Clear(p), FALSE)
BY EmptyGood DEF Good, Keeps, Clear, Clearable

\* unload() that goes through: the slot is empty, or ready to be loaded again.
LEMMA UnloadedGood ==
  ASSUME NEW p \in Plugin, p.status >= PL_VALID
  PROVE  LET q == Unloaded(p)
         IN /\ q \in Plugin /\ Keeps(p, q)
            /\ p.action = "PA_UNLOAD" => q = EmptySlot
            /\ p.action = "PA_RELOAD" => Reopening(q) /\ q.path = p.path
<1> DEFINE c == [p EXCEPT !.open = FALSE, !.attached = FALSE, !.promise = "PA_NONE"]
           d == [c EXCEPT !.status = PL_VALID, !.action = "PA_LOAD"]
<1>1. c \in Plugin
  BY FieldValues, Zenon DEF Plugin
<1>2. /\ c.path = p.path /\ c.status = p.status
      /\ ~c.open /\ ~c.attached /\ c.promise = "PA_NONE"
  BY DEF Plugin
<1>3. \/ Unloaded(p) = EmptySlot /\ p.action # "PA_RELOAD"
      \/ Unloaded(p) = d /\ p.action = "PA_RELOAD"
      \/ Unloaded(p) = c /\ p.action \notin {"PA_UNLOAD", "PA_RELOAD"}
  BY DEF Unloaded, Clear
<1> HIDE DEF c
<1>4. d \in Plugin
  BY <1>1, FieldValues, Zenon DEF Plugin
<1>5. d.path = p.path /\ Reopening(d)
  BY <1>1, <1>2 DEF Plugin, Reopening
<1> HIDE DEF d
<1> QED
  <2>1. CASE Unloaded(p) = EmptySlot /\ p.action # "PA_RELOAD"
    BY <2>1, EmptyGood DEF Keeps
  <2>2. CASE Unloaded(p) = d /\ p.action = "PA_RELOAD"
    BY <2>2, <1>4, <1>5 DEF Keeps
  <2>3. CASE Unloaded(p) = c /\ p.action \notin {"PA_UNLOAD", "PA_RELOAD"}
    BY <2>3, <1>1, <1>2 DEF Keeps
  <2> QED BY <1>3, <2>1, <2>2, <2>3

\* Giving the pending action up touches nothing else.
LEMMA GivenUpGood ==
  ASSUME NEW p \in Plugin
  PROVE  LET q == GivenUp(p)
         IN /\ q \in Plugin /\ q.status = p.status /\ q.path = p.path
            /\ Sound(p) => Sound(q)
<1> DEFINE promise == IF p.promise = p.action THEN "PA_NONE" ELSE p.promise
<1>1. promise \in Action /\ promise \in {"PA_NONE", p.promise}
  BY DEF Plugin, Action
<1>2. GivenUp(p) = [p EXCEPT !.action = "PA_NONE", !.promise = promise]
  BY Zenon DEF GivenUp
<1> HIDE DEF promise
<1>3. GivenUp(p) \in Plugin
  BY <1>1, <1>2, FieldValues, Zenon DEF Plugin
<1> QED BY <1>1, <1>2, <1>3 DEF Plugin, Sound

\* Nor does putting it off.
LEMMA PutOffGood ==
  ASSUME NEW p \in Plugin, p.action \in {"PA_UNLOAD", "PA_RELOAD"}
  PROVE  LET q == [p EXCEPT !.promise = p.action]
         IN /\ q \in Plugin /\ q.status = p.status /\ q.path = p.path
            /\ Sound(p) => Sound(q)
BY DEF Plugin, Sound

\* unload() that is refused leaves the plugin where it was.
LEMMA UnloadRefusedGood ==
  ASSUME NEW p \in Plugin, NEW t, NEW reason
  PROVE  LET q == UnloadRefused(p, t, reason)
         IN /\ q \in Plugin /\ q.status = p.status /\ q.path = p.path
            /\ Sound(p) => Sound(q)
<1>1. \/ UnloadRefused(p, t, reason) = p
      \/ /\ UnloadRefused(p, t, reason) = [p EXCEPT !.promise = p.action]
         /\ p.action \in {"PA_UNLOAD", "PA_RELOAD"}
      \/ UnloadRefused(p, t, reason) = GivenUp(p)
  BY Zenon DEF UnloadRefused, UnloadMarked, TooEarlyToUnload
<1> QED BY <1>1, GivenUpGood, PutOffGood

\* unload() of any plugin, as unload_all calls it.
LEMMA UnloadTyped ==
  ASSUME NEW p \in Plugin, NEW t, NEW reason, NEW e
  PROVE  Unload(p, t, reason, e) \in Plugin /\ Keeps(p, Unload(p, t, reason, e))
<1>1. CASE Unloads(p, t, reason, e)
  BY <1>1, UnloadedGood DEF Unload, Unloads, UnloadMarked
<1>2. CASE ~Unloads(p, t, reason, e)
  BY <1>2, UnloadRefusedGood DEF Unload, Keeps
<1> QED BY <1>1, <1>2

\* unload() of a plugin marked for it.
LEMMA UnloadGood ==
  ASSUME NEW p \in Plugin, NEW t, NEW reason, NEW e, Sound(p), p.action = "PA_UNLOAD"
  PROVE  Good(p, Unload(p, t, reason, e), Unloads(p, t, reason, e))
<1>1. CASE Unloads(p, t, reason, e)
  <2>1. Unload(p, t, reason, e) = EmptySlot
    BY <1>1, UnloadedGood DEF Unload, Unloads, UnloadMarked
  <2> QED BY <1>1, <2>1, EmptyGood DEF Good, Keeps
<1>2. CASE ~Unloads(p, t, reason, e)
  <2>1. Unload(p, t, reason, e) = UnloadRefused(p, t, reason)
    BY <1>2, Zenon DEF Unload
  <2> QED BY <2>1, UnloadRefusedGood DEF Good, Keeps
<1> QED BY <1>1, <1>2

\* reload() of a plugin marked for it.
LEMMA ReloadGood ==
  ASSUME NEW p \in Plugin, NEW t \in LoadTime, NEW reason, NEW e \in Env,
         Sound(p), p.action = "PA_RELOAD"
  PROVE  Good(p, Reload(p, t, reason, e), ReloadUnloads(p, t, reason, e))
<1> DEFINE q == Reload(p, t, reason, e)
<1>1. CASE ReloadUnloads(p, t, reason, e)
  <2>1. p.status >= PL_VALID /\ q = Load(Unloaded(p), t, e)
    BY <1>1 DEF Reload, ReloadUnloads, Plugin, Status
  <2>2. /\ Unloaded(p) \in Plugin /\ Reopening(Unloaded(p))
        /\ Unloaded(p).path = p.path
    BY <2>1, UnloadedGood
  <2>3. Good(Unloaded(p), q, FALSE)
    BY <2>1, <2>2, LoadGood
  <2> QED BY <1>1, <2>1, <2>2, <2>3 DEF Good, Keeps
<1>2. CASE ~ReloadUnloads(p, t, reason, e)
  <2>1. \/ q = p
        \/ q = [p EXCEPT !.promise = p.action]
        \/ q = GivenUp(p)
        \/ q = UnloadRefused(p, t, ReloadReason(p, reason))
    BY <1>2, Zenon DEF Reload
  <2> HIDE DEF q
  <2>2. q \in Plugin /\ Sound(q) /\ q.status = p.status /\ q.path = p.path
    <3>1. CASE q = p
      BY <3>1
    <3>2. CASE q = [p EXCEPT !.promise = p.action]
      BY <3>2, PutOffGood
    <3>3. CASE q = GivenUp(p)
      BY <3>3, GivenUpGood
    <3>4. CASE q = UnloadRefused(p, t, ReloadReason(p, reason))
      BY <3>4, UnloadRefusedGood
    <3> QED BY <2>1, <3>1, <3>2, <3>3, <3>4
  <2> QED BY <1>2, <2>2 DEF Good, Keeps, q
<1> QED BY <1>1, <1>2

\* set_action() changes nothing an invariant looks at.
LEMMA MarkedGood ==
  ASSUME NEW p \in Plugin, NEW action \in Action \ {"PA_LOAD"}
  PROVE  LET q == Marked(p, action)
         IN /\ q \in Plugin /\ q.status = p.status /\ q.path = p.path /\ q.action = action
            /\ Sound(p) => Sound(q)
<1>1. Marked(p, action) \in Plugin
  BY FieldValues, Zenon DEF Marked, Plugin
<1> QED BY <1>1 DEF Marked, Plugin, Sound

\* Nor does the mark refresh() sets on a plugin the file no longer lists.
LEMMA DeletedMarkGood ==
  ASSUME NEW p \in Plugin
  PROVE  LET q == DeletedMark(p)
         IN /\ q \in Plugin /\ q.status = p.status /\ q.path = p.path
            /\ q.action = "PA_UNLOAD"
            /\ Sound(p) => Sound(q)
<1>1. DeletedMark(p) \in Plugin
  BY FieldValues, Zenon DEF DeletedMark, Plugin
<1> QED BY <1>1 DEF DeletedMark, Plugin, Sound

\* retry(), whatever is pending.
LEMMA RetriedGood ==
  ASSUME NEW p \in Plugin, NEW t \in LoadTime, NEW reason, NEW e \in Env, Sound(p)
  PROVE  Good(p, Retried(p, t, reason, e), RetryUnloads(p, t, reason, e))
<1>1. CASE p.action = "PA_LOAD"
  BY <1>1, LoadGood DEF Retried, Good
<1>2. CASE p.action = "PA_UNLOAD"
  <2>1. Retried(p, t, reason, e) = Unload(p, t, reason, e)
    BY <1>2 DEF Retried
  <2>2. Unloads(p, t, reason, e) => RetryUnloads(p, t, reason, e)
    BY <1>2 DEF RetryUnloads
  <2> QED BY <1>2, <2>1, <2>2, UnloadGood DEF Good
<1>3. CASE p.action = "PA_RELOAD"
  <2>1. Retried(p, t, reason, e) = Reload(p, t, reason, e)
    BY <1>3 DEF Retried
  <2>2. ReloadUnloads(p, t, reason, e) => RetryUnloads(p, t, reason, e)
    BY <1>3 DEF RetryUnloads
  <2> QED BY <1>3, <2>1, <2>2, ReloadGood DEF Good
<1>4. CASE p.action \notin {"PA_LOAD", "PA_UNLOAD", "PA_RELOAD"}
  BY <1>4 DEF Retried, Good, Keeps
<1> QED BY <1>1, <1>2, <1>3, <1>4

\* pause() and unpause() keep the plugin attached.
LEMMA PausedGood ==
  ASSUME NEW p \in Plugin, Sound(p)
  PROVE  Good(p, Paused(p), FALSE)
<1> DEFINE q == Paused(p)
<1>1. \/ q = p
      \/ q = [p EXCEPT !.action = "PA_NONE"]
      \/ q = [p EXCEPT !.status = PL_PAUSED] /\ p.status = PL_RUNNING
  BY Zenon DEF Paused
<1> HIDE DEF q
<1>2. q \in Plugin
  BY <1>1, FieldValues, Zenon DEF Plugin
<1>3. CASE q = p \/ q = [p EXCEPT !.action = "PA_NONE"]
  BY <1>2, <1>3 DEF q, Good, Keeps, Sound, Plugin
<1>4. CASE q = [p EXCEPT !.status = PL_PAUSED] /\ p.status = PL_RUNNING
  BY <1>2, <1>4 DEF q, Good, Keeps, Sound, Plugin
<1> QED BY <1>1, <1>3, <1>4

\* unpause() changes nothing that an invariant looks at.
LEMMA UnpausedGood ==
  ASSUME NEW p \in Plugin
  PROVE  LET q == Unpaused(p)
         IN /\ q \in Plugin /\ q.path = p.path
            /\ q.status >= PL_RUNNING <=> p.status >= PL_RUNNING
            /\ q.status >= PL_VALID <=> p.status >= PL_VALID
            /\ Sound(p) => Sound(q)
<1>1. CASE p.status = PL_PAUSED
  <2>1. Unpaused(p) = [p EXCEPT !.status = PL_RUNNING]
    BY <1>1 DEF Unpaused
  <2>2. Unpaused(p) \in Plugin
    BY <2>1, FieldValues, Zenon DEF Plugin
  <2> QED BY <1>1, <2>1, <2>2 DEF Plugin, Sound
<1>2. CASE p.status # PL_PAUSED
  BY <1>2 DEF Unpaused
<1> QED BY <1>1, <1>2

\* A line of plugins.ini only changes the pending action.
LEMMA IniKnownGood ==
  ASSUME NEW p \in Plugin, NEW stat, Sound(p)
  PROVE  Good(p, IniKnown(p, stat), FALSE)
<1> DEFINE q == IniKnown(p, stat)
<1>1. q = p \/ q = [p EXCEPT !.action = "PA_KEEP"] \/ q = [p EXCEPT !.action = "PA_RELOAD"]
  BY Zenon DEF IniKnown
<1> HIDE DEF q
<1>2. q \in Plugin
  BY <1>1, FieldValues, Zenon DEF Plugin
<1>3. q.path = p.path /\ q.status = p.status /\ Sound(q)
  BY <1>1 DEF Plugin, Sound
<1> QED BY <1>2, <1>3 DEF q, Good, Keeps

\* One turn of the loop of refresh().
LEMMA RefreshedGood ==
  ASSUME NEW p \in Plugin, NEW t \in LoadTime, NEW e \in Env, Sound(p)
  PROVE  Good(p, Refreshed(p, t, e), RefreshUnloads(p, t, e))
<1>1. CASE p.status < PL_VALID
  BY <1>1 DEF Refreshed, Good, Keeps
<1>2. CASE p.status >= PL_VALID
  <2>0. ~(p.status < PL_VALID)
    BY <1>2 DEF Plugin, Status
  <2>1. CASE p.action = "PA_KEEP"
    <3>1. Refreshed(p, t, e) = [p EXCEPT !.action = "PA_NONE"]
      BY <2>0, <2>1 DEF Refreshed, Deleted
    <3>2. Refreshed(p, t, e) \in Plugin
      BY <3>1, FieldValues, Zenon DEF Plugin
    <3> QED BY <3>1, <3>2 DEF Good, Keeps, Plugin, Sound
  <2>2. CASE p.action = "PA_LOAD"
    BY <2>0, <2>2, LoadGood DEF Refreshed, Good, Deleted
  <2>3. CASE p.action = "PA_RELOAD"
    <3>1. Refreshed(p, t, e) = Reload(p, t, "PNL_FILE_NEWER", e)
      BY <2>0, <2>3 DEF Refreshed, Deleted
    <3>2. ReloadUnloads(p, t, "PNL_FILE_NEWER", e) => RefreshUnloads(p, t, e)
      BY <2>3 DEF RefreshUnloads
    <3> QED BY <2>3, <3>1, <3>2, ReloadGood DEF Good
  <2>4. CASE p.action = "PA_UNLOAD"
    <3>1. Refreshed(p, t, e) = Unload(p, t, "PNL_DELAYED", e)
      BY <2>0, <2>4 DEF Refreshed, Deleted
    <3>2. Unloads(p, t, "PNL_DELAYED", e) => RefreshUnloads(p, t, e)
      BY <2>4 DEF RefreshUnloads
    <3> QED BY <2>4, <3>1, <3>2, UnloadGood DEF Good
  <2>5. CASE Deleted(p)
    <3>1. Refreshed(p, t, e) = Unload(DeletedMark(p), t, "PNL_INI_DELETED", e)
      BY <2>0, <2>5 DEF Refreshed, Deleted
    <3>2. Unloads(DeletedMark(p), t, "PNL_INI_DELETED", e) => RefreshUnloads(p, t, e)
      BY <2>5 DEF RefreshUnloads
    <3> QED BY <3>1, <3>2, DeletedMarkGood, UnloadGood DEF Good, Keeps
  <2>6. CASE p.action \notin {"PA_KEEP", "PA_LOAD", "PA_RELOAD", "PA_UNLOAD"} /\ ~Deleted(p)
    BY <2>0, <2>6 DEF Refreshed, Good, Keeps
  <2> QED BY <2>1, <2>2, <2>3, <2>4, <2>5, <2>6
<1> QED BY <1>1, <1>2 DEF Plugin, Status

----------------------------------------------------------------------------
(* The inductive invariant.                                                *)

\* What the list and the callbacks satisfy while the server is up.
ListInv ==
  /\ plug \in [Slot -> Plugin]
  /\ last \in 0..MaxPlugins
  /\ hooked \subseteq Slot
  /\ \A i \in Slot : i > last => plug[i].status = PL_EMPTY
  /\ \A i \in Slot : Sound(plug[i])
  /\ hooked \subseteq Rebuilt(plug)
  /\ UniquePath

\* At shutdown the modules are closed under the running plugins.
DownInv ==
  /\ plug \in [Slot -> Plugin]
  /\ last \in 0..MaxPlugins
  /\ hooked \subseteq Slot
  /\ UniquePath

\* While plugins.ini is read for the first time.
NothingLoaded == \A i \in Slot : plug[i].status < PL_RUNNING

IInv ==
  /\ TypeOK
  /\ IF stage = "down" THEN DownInv ELSE ListInv
  /\ stage = "ini_startup" => NothingLoaded

\* One operation on one slot, with the rebuild that goes with an unload.
LEMMA SlotStep ==
  ASSUME ListInv, NEW i \in Slot, NEW q, NEW unloads, NEW u \in Plugin,
         Good(plug[i], q, unloads),
         unloads => u.status >= PL_VALID /\ u.action \in {"PA_UNLOAD", "PA_RELOAD"},
         plug' = [plug EXCEPT ![i] = q],
         last' = last,
         RebuildIf(unloads, i, u)
  PROVE  ListInv'
<1>1. plug' \in [Slot -> Plugin]
  BY DEF ListInv, Good
<1>2. \A j \in Slot : Keeps(plug[j], plug'[j])
  BY DEF ListInv, Good, Keeps
<1>3. \A j \in Slot : j > last' => plug'[j].status = PL_EMPTY
  BY <1>1, <1>2 DEF ListInv, Keeps, Plugin, Status
<1>4. \A j \in Slot : Sound(plug'[j])
  BY DEF ListInv, Good
<1>5. hooked' \subseteq Rebuilt(plug')
  <2>1. CASE ~unloads
    BY <2>1 DEF ListInv, Good, RebuildIf, Rebuilt
  <2>2. CASE unloads
    <3>1. ~(Unloaded(u).status >= PL_RUNNING)
      BY <2>2, UnloadedGood, EmptyGood DEF Reopening
    <3>2. hooked' = Rebuilt([plug EXCEPT ![i] = Unloaded(u)])
      BY <2>2 DEF RebuildIf
    <3> QED BY <3>1, <3>2 DEF Rebuilt, ListInv
  <2> QED BY <2>1, <2>2
<1>6. UniquePath'
  BY <1>2 DEF ListInv, UniquePath, Live, Keeps, Slot
<1> QED BY <1>1, <1>3, <1>4, <1>5, <1>6 DEF ListInv, Rebuilt

\* A list in which some entries that are not attached were overridden.
Thinned(list) ==
  /\ list \in [Slot -> Plugin]
  /\ \A i \in Slot : list[i] = plug[i] \/ (list[i] = EmptySlot /\ plug[i].status < PL_RUNNING)

\* A new entry, loaded or not, for a path that is not in the list.
LEMMA AddStep ==
  ASSUME ListInv, NEW path \in Path, NEW q \in Plugin, NEW list, Thinned(list),
         Found(path) = {},
         last < MaxPlugins,
         Sound(q),
         q.status >= PL_VALID => q.path = path,
         plug' = [list EXCEPT ![last + 1] = q],
         last' = last + 1,
         hooked' = hooked \/ hooked' = Rebuilt(plug')
  PROVE  ListInv'
<1>0. last + 1 \in Slot /\ last' \in 0..MaxPlugins
  BY BoundAssumption DEF ListInv, Slot
<1>1. plug' \in [Slot -> Plugin]
  BY <1>0 DEF Thinned
<1>2. \A j \in Slot : j # last + 1 =>
        plug'[j] = plug[j] \/ (plug'[j] = EmptySlot /\ plug[j].status < PL_RUNNING)
  BY <1>0 DEF Thinned
<1>3. plug'[last + 1] = q
  BY <1>0 DEF Thinned
<1>4. \A j \in Slot : j > last' => plug'[j].status = PL_EMPTY
  BY <1>2, EmptyGood DEF ListInv, Slot
<1>5. \A j \in Slot : Sound(plug'[j])
  BY <1>2, <1>3, EmptyGood DEF ListInv
<1>6. hooked' \subseteq Rebuilt(plug') /\ hooked' \subseteq Slot
  <2>1. CASE hooked' = hooked
    <3>1. last + 1 \notin hooked
      BY <1>0 DEF ListInv, Rebuilt
    <3>2. \A j \in hooked : j \in Slot /\ plug[j].status >= PL_RUNNING
      BY DEF ListInv, Rebuilt
    <3>3. \A j \in Slot : plug[j].status < PL_RUNNING => ~(plug[j].status >= PL_RUNNING)
      BY DEF ListInv, Plugin, Status
    <3> QED BY <2>1, <3>1, <3>2, <3>3, <1>2 DEF Rebuilt
  <2>2. CASE hooked' = Rebuilt(plug')
    BY <2>2 DEF Rebuilt
  <2> QED BY <2>1, <2>2
<1>7. UniquePath'
  <2>0. /\ \A j \in Live' : j \in Slot /\ j <= last' /\ plug'[j] # EmptySlot
        /\ \A j \in Live : j \in Slot /\ j <= last
    BY <1>0, EmptyGood, BoundAssumption DEF Live, ListInv, Slot
  <2>1. \A j \in Live' : j = last + 1 \/ (plug'[j] = plug[j] /\ j \in Live)
    BY <1>0, <1>2, <2>0 DEF Live, ListInv, Slot
  <2>2. \A j \in Live : plug[j].path # path /\ j # last + 1
    BY DEF Found, ListInv, Live
  <2>4. last + 1 \in Live' => plug'[last + 1].path = path
    BY <1>3 DEF Live
  <2> QED BY <2>1, <2>2, <2>4 DEF ListInv, UniquePath
<1> QED BY <1>0, <1>1, <1>4, <1>5, <1>6, <1>7 DEF ListInv, Rebuilt

\* unpause_all() keeps what is attached attached.
LEMMA UnpausedAllStep ==
  ASSUME ListInv, NEW t, plug' = UnpausedAll(plug, t), last' = last,
         hooked' = hooked \/ hooked' = Rebuilt(plug)
  PROVE  ListInv'
<1>1. CASE t # PT_CHANGELEVEL
  BY <1>1 DEF UnpausedAll, ListInv, Rebuilt, UniquePath, Live
<1>2. CASE t = PT_CHANGELEVEL
  <2>1. plug' = [i \in Slot |-> Unpaused(plug[i])]
    BY <1>2 DEF UnpausedAll
  <2>2. \A i \in Slot : /\ plug'[i] \in Plugin /\ plug'[i].path = plug[i].path
                        /\ plug'[i].status >= PL_RUNNING <=> plug[i].status >= PL_RUNNING
                        /\ plug'[i].status >= PL_VALID <=> plug[i].status >= PL_VALID
                        /\ Sound(plug'[i])
    BY <2>1, UnpausedGood DEF ListInv
  <2>3. plug' \in [Slot -> Plugin]
    BY <2>1, <2>2
  <2>4. \A i \in Slot : i > last' => plug'[i].status = PL_EMPTY
    BY <2>2 DEF ListInv, Plugin, Status
  <2>5. hooked' \subseteq Rebuilt(plug') /\ hooked' \subseteq Slot
    BY <2>2 DEF ListInv, Rebuilt
  <2>6. UniquePath'
    <3>1. Live \subseteq Slot /\ Live' \subseteq Slot
      BY BoundAssumption DEF Live, Slot, ListInv
    <3>2. Live' = Live
      BY <2>2, <3>1 DEF Live
    <3> QED BY <2>2, <3>1, <3>2 DEF ListInv, UniquePath
  <2> QED BY <2>2, <2>3, <2>4, <2>5, <2>6 DEF ListInv, Rebuilt
<1> QED BY <1>1, <1>2

----------------------------------------------------------------------------
(* The contract: the steps of PluginContract that an operation can be.     *)

\* What is in each slot, as the contract sees it.
Module == [i \in Slot |-> ModuleState(plug[i])]

\* One step of the contract, or none.
ContractStep == [Contract!Next]_(Contract!vars)

\* A sound plugin's module is attached when it runs or is paused.
LEMMA ModuleOf ==
  ASSUME NEW p \in Plugin, Sound(p)
  PROVE  ModuleState(p) = "attached" <=> p.status >= PL_RUNNING
BY DEF ModuleState, Sound, Plugin, Status

\* Between sound plugins the status decides on the state of the module.
LEMMA SameStatus ==
  ASSUME NEW p \in Plugin, NEW q \in Plugin, Sound(p), Sound(q), q.status = p.status
  PROVE  ModuleState(q) = ModuleState(p)
BY DEF ModuleState, Sound

\* What is attached is what a rebuild compiles.
LEMMA AttachedIsRebuilt ==
  ASSUME NEW list \in [Slot -> Plugin], \A i \in Slot : Sound(list[i])
  PROVE  {i \in Slot : ModuleState(list[i]) = "attached"} = Rebuilt(list)
BY ModuleOf DEF Rebuilt

\* One module comes to state m: the callbacks stay, or leave it out, or take
\* it in.
LEMMA OneModule ==
  ASSUME stage # "down", stage' # "down",
         NEW i \in Slot, NEW m \in {"closed", "open", "attached"},
         Module' = [Module EXCEPT ![i] = m],
         \/ hooked' = hooked /\ (Module[i] = "attached" => m = "attached")
         \/ hooked' = Contract!Attached \ {i}
         \/ hooked' = Contract!Attached' /\ Module[i] # "attached" /\ m = "attached"
  PROVE  ContractStep
<1> USE DEF Module
<1>0. Module[i] \in {"closed", "open", "attached"}
  BY DEF ModuleState
<1>1. \A s \in {"open", "attached"} : m = s => \E state \in {"open", "attached"} : Contract!Becomes(i, state)
  BY DEF Contract!Becomes
<1>2. m = "closed" => Contract!Becomes(i, "closed")
  BY DEF Contract!Becomes
<1>3. m = Module[i] => Module' = Module
  OBVIOUS
<1>4. CASE hooked' = hooked /\ (Module[i] = "attached" => m = "attached")
  <2>1. CASE m = Module[i]
    BY <1>3, <1>4, <2>1 DEF ContractStep, Contract!vars
  <2>2. CASE m = "closed" /\ Module[i] = "open"
    BY <1>2, <1>4, <2>2 DEF ContractStep, Contract!Next, Contract!Discard
  <2>3. CASE m # "closed" /\ Module[i] # "attached"
    BY <1>1, <1>4, <2>3 DEF ContractStep, Contract!Next, Contract!Load
  <2> QED BY <1>0, <1>4, <2>1, <2>2, <2>3
<1>5. CASE hooked' = Contract!Attached \ {i}
  <2>1. CASE Module[i] = "closed"
    <3>1. hooked' = Contract!Attached
      BY <1>5, <2>1 DEF Contract!Attached
    <3>2. CASE m = "closed"
      BY <1>3, <2>1, <3>1, <3>2 DEF ContractStep, Contract!Next, Contract!Rehook
    <3>3. CASE m # "closed"
      BY <1>1, <2>1, <3>1, <3>3 DEF ContractStep, Contract!Next, Contract!Load
    <3> QED BY <3>2, <3>3
  <2>2. CASE Module[i] # "closed" /\ m = "closed"
    BY <1>2, <1>5, <2>2 DEF ContractStep, Contract!Next, Contract!Unload
  <2>3. CASE Module[i] # "closed" /\ m # "closed"
    BY <1>1, <1>5, <2>3 DEF ContractStep, Contract!Next, Contract!Replace
  <2> QED BY <2>1, <2>2, <2>3
<1>6. CASE hooked' = Contract!Attached' /\ Module[i] # "attached" /\ m = "attached"
  BY <1>1, <1>6 DEF ContractStep, Contract!Next, Contract!Load
<1> QED BY <1>4, <1>5, <1>6

\* One operation on one slot is one step of the contract, or none.
LEMMA SlotContract ==
  ASSUME ListInv, stage # "down", stage' # "down",
         NEW i \in Slot, NEW q, NEW unloads, NEW u \in Plugin,
         Good(plug[i], q, unloads),
         unloads => u.status >= PL_VALID /\ u.action \in {"PA_UNLOAD", "PA_RELOAD"},
         plug' = [plug EXCEPT ![i] = q],
         RebuildIf(unloads, i, u)
  PROVE  ContractStep
<1> DEFINE m == ModuleState(q)
<1>1. m \in {"closed", "open", "attached"} /\ Module' = [Module EXCEPT ![i] = m]
  BY DEF Module, ModuleState, ListInv
<1>2. CASE ~unloads
  <2>1. Module[i] = "attached" => m = "attached"
    BY <1>2, ModuleOf DEF Good, Module, ListInv
  <2>2. hooked' = hooked
    BY <1>2 DEF RebuildIf
  <2> QED BY <1>1, <2>1, <2>2, OneModule
<1>3. CASE unloads
  <2>1. ~(Unloaded(u).status >= PL_RUNNING)
    BY <1>3, UnloadedGood, EmptyGood DEF Reopening
  <2>2. hooked' = Rebuilt(plug) \ {i}
    BY <1>3, <2>1 DEF RebuildIf, Rebuilt, ListInv
  <2>3. Contract!Attached = Rebuilt(plug)
    BY AttachedIsRebuilt DEF ListInv, Contract!Attached
  <2> QED BY <1>1, <2>2, <2>3, OneModule
<1> QED BY <1>2, <1>3

\* So is the addition of a plugin, loaded or not: the callbacks are rebuilt
\* only if it is attached.
LEMMA AddContract ==
  ASSUME ListInv, stage # "down", stage' # "down",
         last < MaxPlugins, NEW q \in Plugin, Sound(q),
         plug' = [plug EXCEPT ![last + 1] = q],
         hooked' = IF q.status = PL_RUNNING THEN Rebuilt(plug') ELSE hooked
  PROVE  ContractStep
<1> DEFINE m == ModuleState(q)
<1>0. last + 1 \in Slot
  BY BoundAssumption DEF ListInv, Slot
<1>1. m \in {"closed", "open", "attached"} /\ Module' = [Module EXCEPT ![last + 1] = m]
  BY <1>0 DEF Module, ModuleState, ListInv
<1>2. Module[last + 1] # "attached"
  BY <1>0, ModuleOf DEF Module, ListInv
<1>3. CASE q.status = PL_RUNNING
  <2>1. m = "attached"
    BY <1>3, ModuleOf
  <2>2. plug' \in [Slot -> Plugin] /\ \A j \in Slot : Sound(plug'[j])
    BY <1>0 DEF ListInv
  <2>3. hooked' = Contract!Attached'
    BY <1>3, <2>2, AttachedIsRebuilt DEF Contract!Attached
  <2> QED BY <1>0, <1>1, <1>2, <2>1, <2>3, OneModule
<1>4. CASE q.status # PL_RUNNING
  BY <1>0, <1>1, <1>2, <1>4, OneModule
<1> QED BY <1>3, <1>4

\* A step that leaves the modules alone may rebuild.
LEMMA RehookContract ==
  ASSUME ListInv, stage # "down", stage' # "down",
         \A i \in Slot : ModuleState(plug[i])' = ModuleState(plug[i]),
         hooked' = hooked \/ hooked' = Rebuilt(plug)
  PROVE  ContractStep
<1>1. Module' = Module
  BY DEF Module
<1>2. CASE hooked' = hooked
  BY <1>1, <1>2 DEF ContractStep, Contract!vars, Module
<1>3. CASE hooked' = Rebuilt(plug)
  <2>1. Contract!Attached = Rebuilt(plug)
    BY AttachedIsRebuilt DEF ListInv, Contract!Attached
  <2> QED BY <1>1, <1>3, <2>1 DEF ContractStep, Contract!Next, Contract!Rehook, Module
<1> QED BY <1>2, <1>3

\* What is overridden was not attached.
LEMMA OverriddenThinned ==
  ASSUME ListInv, NEW match, \A i \in match : i \in Slot => plug[i].status < PL_RUNNING
  PROVE  Thinned(Overridden(match))
BY EmptyGood DEF Thinned, Overridden, ListInv

\* A match is at most one entry of the list.
LEMMA MatchInSlot ==
  ASSUME ListInv, NEW match \in Matches
  PROVE  match = {} \/ \E i \in Slot : match = {i}
BY BoundAssumption DEF Matches, Live, ListInv, Slot

\* A new line of plugins.ini: an entry with nothing loaded yet, which may
\* override one that is not attached.
LEMMA AddLineStep ==
  ASSUME ListInv, stage # "down", stage' # "down", NEW path \in Path,
         Found(path) = {}, NEW match \in Matches,
         \A i \in match : i \in Slot => plug[i].status < PL_RUNNING,
         Add(Overridden(match), path, "PS_INI"), UNCHANGED hooked
  PROVE  ListInv' /\ ContractStep
<1> DEFINE q == Added(path, "PS_INI")
           list == Overridden(match)
<1>0. last + 1 \in Slot /\ Thinned(list)
  BY BoundAssumption, OverriddenThinned DEF Add, ListInv, Slot
<1>1. q \in Plugin /\ Sound(q)
  BY AddedGood DEF Source
<1>2. q.path = path /\ q.status = PL_VALID /\ ModuleState(q) = "closed"
  BY DEF Added, ModuleState
<1> HIDE DEF q
<1>3. last < MaxPlugins /\ last' = last + 1 /\ plug' = [list EXCEPT ![last + 1] = q]
  BY DEF Add, q
<1>4. ListInv'
  BY <1>0, <1>1, <1>2, <1>3, AddStep
<1>5. ModuleState(plug[last + 1]) = "closed" /\ ModuleState(EmptySlot) = "closed"
  BY <1>0, EmptyGood DEF ListInv, Sound, ModuleState
<1>6. \A j \in Slot : ModuleState(plug'[j]) =
                     IF j \in match THEN "closed" ELSE ModuleState(plug[j])
  BY <1>0, <1>2, <1>3, <1>5 DEF Overridden
<1>7. ContractStep
  <2>1. PICK i \in Slot : (match = {} /\ i = last + 1) \/ match = {i}
    BY <1>0, MatchInSlot
  <2>2. Module' = [Module EXCEPT ![i] = "closed"]
    BY <1>5, <1>6, <2>1 DEF Module
  <2>3. Module[i] # "attached"
    <3>1. CASE i = last + 1
      BY <1>5, <3>1 DEF Module
    <3>2. CASE match = {i}
      <4>1. ~(plug[i].status >= PL_RUNNING)
        BY <3>2 DEF ListInv, Plugin, Status
      <4> QED BY <4>1, ModuleOf DEF Module, ListInv
    <3> QED BY <2>1, <3>1, <3>2
  <2> QED BY <2>2, <2>3, OneModule
<1> QED BY <1>4, <1>7

\* The list stays, and the callbacks may be rebuilt.
LEMMA SameListStep ==
  ASSUME ListInv, stage # "down", stage' # "down", UNCHANGED <<plug, last>>,
         hooked' = hooked \/ hooked' = Rebuilt(plug)
  PROVE  ListInv' /\ ContractStep
<1>1. ListInv'
  BY DEF ListInv, Rebuilt, UniquePath, Live
<1> QED BY <1>1, RehookContract

\* Nor does unpause_all() touch a module.
LEMMA UnpausedAllContract ==
  ASSUME ListInv, stage # "down", stage' # "down", NEW t, plug' = UnpausedAll(plug, t),
         hooked' = hooked \/ hooked' = Rebuilt(plug)
  PROVE  ContractStep
<1>1. \A i \in Slot : ModuleState(Unpaused(plug[i])) = ModuleState(plug[i])
  BY DEF ListInv, Unpaused, ModuleState, Plugin
<1>2. \A i \in Slot : ModuleState(plug[i])' = ModuleState(plug[i])
  BY <1>1 DEF UnpausedAll
<1> QED BY <1>2, RehookContract

\* A forced unload leaves the module as it is, or closes it.
LEMMA UnloadCloses ==
  ASSUME NEW p \in Plugin, Sound(p), NEW t, NEW reason, NEW e
  PROVE  ModuleState(Unload(p, t, reason, e)) \in {ModuleState(p), "closed"}
<1>1. CASE Unloads(p, t, reason, e)
  BY <1>1, EmptyGood DEF Unload, Unloaded, Clear, ModuleState, Sound, Plugin
<1>2. CASE ~Unloads(p, t, reason, e)
  BY <1>2, UnloadRefusedGood, SameStatus DEF Unload
<1> QED BY <1>1, <1>2

\* What a step is to do: keep the invariant, and the contract.
Step == IInv' /\ ContractStep

----------------------------------------------------------------------------
(* The steps.                                                              *)

\* IInv holds when the server starts.
THEOREM InitIInv == Init => IInv
<1> SUFFICES ASSUME Init PROVE IInv
  OBVIOUS
<1>1. ini \subseteq Path
  BY DEF Init
<1>2. plug \in [Slot -> Plugin] /\ \A i \in Slot : plug[i] = EmptySlot
  BY EmptyGood DEF Init
<1>3. TypeOK
  BY <1>1, <1>2, BoundAssumption DEF Init, TypeOK, Stage, LoadTime
<1>4. Live = {}
  BY DEF Init, Live
<1>5. ListInv
  BY <1>2, <1>4, EmptyGood, BoundAssumption DEF Init, ListInv, UniquePath, Rebuilt
<1>6. NothingLoaded
  BY <1>2, EmptyGood DEF NothingLoaded
<1> QED BY <1>3, <1>5, <1>6 DEF Init, IInv

\* The rest of the state: what a step must keep of it besides the list.
LEMMA Assemble ==
  ASSUME ListInv', ini' \subseteq Path, stage' \in Stage \ {"down", "ini_startup"}, now' \in LoadTime,
         cursor' \in 1..(MaxPlugins + 1), todo' \subseteq Path
  PROVE  IInv'
BY DEF IInv, ListInv, TypeOK

\* Startup.
LEMMA StartupStep == IInv /\ Startup => Step
<1> SUFFICES ASSUME IInv, Startup PROVE Step
  OBVIOUS
<1>0. TypeOK /\ ListInv
  BY DEF IInv, Startup, IniStartupLine, IniStartupDone, StartupLoad, StartupDone
<1>1. ASSUME NEW path \in Path, IniStartupLine(path) PROVE Step
  <2>1. NothingLoaded
    BY <1>1 DEF IInv, IniStartupLine
  <2>2. PICK match \in Matches : Add(Overridden(match), path, "PS_INI")
    BY <1>1 DEF IniStartupLine
  <2>3. \A i \in match : i \in Slot => plug[i].status < PL_RUNNING
    BY <2>1 DEF NothingLoaded
  <2>4. ListInv' /\ ContractStep
    BY <1>0, <1>1, <2>2, <2>3, AddLineStep DEF IniStartupLine
  <2>5. NothingLoaded'
    <3>1. Thinned(Overridden(match)) /\ last + 1 \in Slot
      BY <1>0, <2>2, <2>3, OverriddenThinned, BoundAssumption DEF Add, ListInv, Slot
    <3>2. Added(path, "PS_INI").status < PL_RUNNING
      BY DEF Added
    <3> QED BY <2>1, <2>2, <3>1, <3>2, EmptyGood DEF Add, NothingLoaded, Thinned
  <2>6. TypeOK'
    BY <1>0, <1>1, <2>4 DEF IniStartupLine, TypeOK, ListInv
  <2> QED BY <1>1, <2>4, <2>5, <2>6 DEF Step, IInv, IniStartupLine
<1>2. CASE IniStartupDone
  <2>1. ListInv' /\ ContractStep
    BY <1>0, <1>2, SameListStep DEF IniStartupDone
  <2> QED BY <1>0, <1>2, <2>1, Assemble DEF Step, IniStartupDone, TypeOK, Stage
<1>3. CASE StartupLoad
  <2>1. cursor \in Slot /\ PT_STARTUP \in LoadTime
    BY <1>0, <1>3, BoundAssumption DEF StartupLoad, TypeOK, Slot, LoadTime
  <2>2. PICK e \in Env : plug' = [plug EXCEPT ![cursor] = Load(@, PT_STARTUP, e)]
    BY <1>3 DEF StartupLoad
  <2>3. Good(plug[cursor], Load(plug[cursor], PT_STARTUP, e), FALSE)
    BY <1>0, <2>1, LoadGood DEF ListInv
  <2>4. RebuildIf(FALSE, cursor, EmptySlot)
    BY <1>3 DEF RebuildIf, StartupLoad
  <2>5. ListInv' /\ ContractStep
    BY <1>0, <1>3, <2>1, <2>2, <2>3, <2>4, EmptyGood, SlotStep, SlotContract DEF StartupLoad
  <2>6. cursor' \in 1..(MaxPlugins + 1)
    BY <1>3, <2>1, BoundAssumption DEF StartupLoad, Slot
  <2> QED BY <1>0, <1>3, <2>5, <2>6, Assemble DEF Step, StartupLoad, TypeOK, Stage
<1>4. CASE StartupDone
  <2>1. ListInv' /\ ContractStep
    BY <1>0, <1>4, SameListStep DEF StartupDone, Serve
  <2> QED BY <1>0, <1>4, <2>1, Assemble, BoundAssumption
          DEF Step, StartupDone, Serve, TypeOK, Stage, LoadTime
<1> QED BY <1>1, <1>2, <1>3, <1>4 DEF Startup

\* An operation of the operator or of a plugin on slot i, by SetPlugin.
LEMMA SetPluginStep ==
  ASSUME IInv, NEW i \in Slot, NEW q, NEW unloads, NEW u \in Plugin,
         Good(plug[i], q, unloads),
         unloads => u.status >= PL_VALID /\ u.action \in {"PA_UNLOAD", "PA_RELOAD"},
         SetPlugin(i, q), RebuildIf(unloads, i, u)
  PROVE  Step
<1>1. stage = "up" /\ ListInv /\ TypeOK
  BY DEF IInv, SetPlugin
<1>2. ListInv' /\ ContractStep
  BY <1>1, SlotStep, SlotContract DEF SetPlugin
<1> QED BY <1>1, <1>2, Assemble DEF Step, SetPlugin, TypeOK, Stage

\* Good() for one of two marks of the same plugin.
LEMMA GoodOfMark ==
  ASSUME NEW p, NEW m, NEW q, NEW unloads,
         m.status = p.status, m.path = p.path, Good(m, q, unloads)
  PROVE  Good(p, q, unloads)
BY DEF Good, Keeps

\* A plugin added by the operator or by a plugin and loaded at once.
LEMMA LoadNewStep ==
  ASSUME IInv, NEW path \in Path, NEW source \in Source, NEW t \in LoadTime, NEW e \in Env,
         stage = "up", Found(path) = {}, last < MaxPlugins,
         plug' = [plug EXCEPT ![last + 1] = Load(Added(path, source), t, e)],
         hooked' = IF Load(Added(path, source), t, e).status = PL_RUNNING
                   THEN Rebuilt(plug') ELSE hooked,
         last' = last + 1,
         UNCHANGED <<ini, stage, now, cursor, todo>>
  PROVE  Step
<1> DEFINE a == Added(path, source)
           q == Load(a, t, e)
<1>1. a \in Plugin /\ Sound(a)
  BY AddedGood
<1>2. a.path = path
  BY DEF Added
<1>3. Good(a, q, FALSE)
  BY <1>1, LoadGood
<1>4. q \in Plugin /\ Sound(q) /\ (q.status >= PL_VALID => q.path = path)
  BY <1>2, <1>3 DEF Good, Keeps
<1>5. ListInv /\ TypeOK
  BY DEF IInv
<1> HIDE DEF q
<1>6. /\ plug' = [plug EXCEPT ![last + 1] = q]
      /\ hooked' = IF q.status = PL_RUNNING THEN Rebuilt(plug') ELSE hooked
  BY DEF q
<1>7. ListInv'
  <2>1. Thinned(plug)
    BY <1>5 DEF Thinned, ListInv
  <2> QED BY <1>4, <1>5, <1>6, <2>1, AddStep
<1>8. ContractStep
  BY <1>4, <1>5, <1>6, AddContract
<1> QED BY <1>5, <1>7, <1>8, Assemble DEF Step, TypeOK, Stage

\* The console commands.
LEMMA CommandStep == IInv /\ Command => Step
<1> SUFFICES ASSUME IInv, Command PROVE Step
  OBVIOUS
<1>0. PT_ANYTIME \in LoadTime /\ plug \in [Slot -> Plugin]
  BY DEF IInv, TypeOK, LoadTime
<1>1. ASSUME NEW path \in Path, CmdLoad(path) PROVE Step
  <2>1. PICK e \in Env :
          /\ plug' = [plug EXCEPT ![last + 1] = Load(Added(path, "PS_CMD"), PT_ANYTIME, e)]
          /\ hooked' = IF Load(Added(path, "PS_CMD"), PT_ANYTIME, e).status = PL_RUNNING
                       THEN Rebuilt(plug') ELSE hooked
    BY <1>1, Zenon DEF CmdLoad
  <2> QED BY <1>0, <1>1, <2>1, LoadNewStep DEF CmdLoad, Source
<1>2. ASSUME NEW i \in Slot, NEW reason, CmdUnload(i, reason) PROVE Step
  <2> DEFINE p == Marked(plug[i], "PA_UNLOAD")
  <2>1. PICK e \in Env :
          /\ SetPlugin(i, Unload(p, PT_ANYTIME, reason, e))
          /\ RebuildIf(Unloads(p, PT_ANYTIME, reason, e), i, p)
    BY <1>2, Zenon DEF CmdUnload
  <2>2. Sound(plug[i])
    BY <2>1 DEF IInv, ListInv, SetPlugin
  <2>3. /\ p \in Plugin /\ p.status = plug[i].status /\ p.path = plug[i].path
        /\ p.action = "PA_UNLOAD" /\ Sound(p)
    BY <1>0, <2>2, MarkedGood DEF Action
  <2> HIDE DEF p
  <2>4. Good(p, Unload(p, PT_ANYTIME, reason, e), Unloads(p, PT_ANYTIME, reason, e))
    BY <2>3, UnloadGood
  <2>5. Good(plug[i], Unload(p, PT_ANYTIME, reason, e), Unloads(p, PT_ANYTIME, reason, e))
    BY <2>3, <2>4, GoodOfMark
  <2> QED BY <2>1, <2>3, <2>5, SetPluginStep DEF Unloads, UnloadMarked
<1>3. ASSUME NEW i \in Slot, CmdReload(i) PROVE Step
  <2> DEFINE p == Marked(plug[i], "PA_RELOAD")
  <2>1. PICK e \in Env :
          /\ SetPlugin(i, Reload(p, PT_ANYTIME, "PNL_COMMAND", e))
          /\ RebuildIf(ReloadUnloads(p, PT_ANYTIME, "PNL_COMMAND", e), i, p)
    BY <1>3, Zenon DEF CmdReload
  <2>2. Sound(plug[i])
    BY <2>1 DEF IInv, ListInv, SetPlugin
  <2>3. /\ p \in Plugin /\ p.status = plug[i].status /\ p.path = plug[i].path
        /\ p.action = "PA_RELOAD" /\ Sound(p)
    BY <1>0, <2>2, MarkedGood DEF Action
  <2> HIDE DEF p
  <2>4. Good(p, Reload(p, PT_ANYTIME, "PNL_COMMAND", e),
                ReloadUnloads(p, PT_ANYTIME, "PNL_COMMAND", e))
    BY <1>0, <2>3, ReloadGood
  <2>5. Good(plug[i], Reload(p, PT_ANYTIME, "PNL_COMMAND", e),
                      ReloadUnloads(p, PT_ANYTIME, "PNL_COMMAND", e))
    BY <2>3, <2>4, GoodOfMark
  <2> QED BY <2>1, <2>3, <2>5, SetPluginStep DEF ReloadUnloads
<1>4. ASSUME NEW i \in Slot, CmdRetry(i) PROVE Step
  <2>1. PICK e \in Env :
          /\ SetPlugin(i, Retried(plug[i], PT_ANYTIME, "PNL_COMMAND", e))
          /\ RebuildIf(RetryUnloads(plug[i], PT_ANYTIME, "PNL_COMMAND", e), i, plug[i])
    BY <1>4, Zenon DEF CmdRetry
  <2>2. Sound(plug[i]) /\ plug[i] \in Plugin
    BY <1>0, <2>1 DEF IInv, ListInv, SetPlugin
  <2>3. Good(plug[i], Retried(plug[i], PT_ANYTIME, "PNL_COMMAND", e),
                      RetryUnloads(plug[i], PT_ANYTIME, "PNL_COMMAND", e))
    BY <1>0, <2>2, RetriedGood
  <2> QED BY <2>1, <2>2, <2>3, SetPluginStep
          DEF RetryUnloads, ReloadUnloads, Unloads, UnloadMarked
<1>5. ASSUME NEW i \in Slot, NEW q, Sound(plug[i]) => Good(plug[i], q, FALSE),
             SetPlugin(i, q), UNCHANGED hooked
      PROVE  Step
  <2>1. Sound(plug[i]) /\ plug[i] \in Plugin
    BY <1>0, <1>5 DEF IInv, ListInv, SetPlugin
  <2>2. RebuildIf(FALSE, i, plug[i])
    BY <1>5 DEF RebuildIf
  <2> QED BY <1>5, <2>1, <2>2, SetPluginStep
<1>6. ASSUME NEW i \in Slot, CmdClear(i) \/ CmdPause(i) \/ CmdUnpause(i) PROVE Step
  <2>1. Sound(plug[i]) => /\ Good(plug[i], Clear(plug[i]), FALSE)
                          /\ Good(plug[i], Paused(plug[i]), FALSE)
                          /\ Good(plug[i], Unpaused(plug[i]), FALSE)
    BY <1>0, ClearGood, PausedGood, UnpausedGood DEF Good, Keeps
  <2> QED BY <1>5, <1>6, <2>1 DEF CmdClear, CmdPause, CmdUnpause
<1> QED BY <1>1, <1>2, <1>3, <1>4, <1>6 DEF Command

\* The requests of plugins.
LEMMA RequestStep == IInv /\ Request => Step
<1> SUFFICES ASSUME IInv, NEW caller \in Slot, NEW t \in RequestTimes,
                    \/ \E path \in Path : PluginLoad(caller, path, t) \/ PluginLoadKnown(caller, path)
                    \/ \E i \in Slot, reason \in RequestReason : PluginUnload(caller, i, t, reason)
             PROVE  Step
  BY DEF Request
<1>0. t \in LoadTime /\ plug \in [Slot -> Plugin]
  BY TimesAssumption DEF IInv, TypeOK
<1>1. ASSUME NEW path \in Path, PluginLoad(caller, path, t) PROVE Step
  <2>1. PICK e \in Env :
          /\ plug' = [plug EXCEPT ![last + 1] = Load(Added(path, "PS_PLUGIN"), t, e)]
          /\ hooked' = IF Load(Added(path, "PS_PLUGIN"), t, e).status = PL_RUNNING
                       THEN Rebuilt(plug') ELSE hooked
    BY <1>1, Zenon DEF PluginLoad
  <2> QED BY <1>0, <1>1, <2>1, LoadNewStep DEF PluginLoad, Source
<1>2. ASSUME NEW path \in Path, PluginLoadKnown(caller, path) PROVE Step
  <2>1. ListInv /\ TypeOK
    BY <1>2 DEF PluginLoadKnown, IInv
  <2>2. ListInv' /\ ContractStep
    BY <1>2, <2>1, SameListStep DEF PluginLoadKnown
  <2> QED BY <1>2, <2>1, <2>2, Assemble DEF Step, PluginLoadKnown, TypeOK, Stage
<1>3. ASSUME NEW i \in Slot, NEW reason, PluginUnload(caller, i, t, reason) PROVE Step
  <2> DEFINE p == Marked(plug[i], "PA_UNLOAD")
             q(e) == IF Unloads(p, t, reason, e) THEN Unloaded(p) ELSE plug[i]
  <2>1. PICK e \in Env : SetPlugin(i, q(e)) /\ RebuildIf(Unloads(p, t, reason, e), i, p)
    BY <1>3, Zenon DEF PluginUnload
  <2>2. Sound(plug[i]) /\ plug[i] \in Plugin
    BY <1>0, <2>1 DEF IInv, ListInv, SetPlugin
  <2>3. /\ p \in Plugin /\ p.status = plug[i].status /\ p.path = plug[i].path
        /\ p.action = "PA_UNLOAD" /\ Sound(p)
    BY <2>2, MarkedGood DEF Action
  <2> HIDE DEF p
  <2>4. Good(plug[i], q(e), Unloads(p, t, reason, e))
    <3>1. CASE Unloads(p, t, reason, e)
      <4>1. q(e) = EmptySlot
        BY <2>3, <3>1, UnloadedGood DEF Unloads, UnloadMarked
      <4> QED BY <3>1, <4>1, EmptyGood DEF Good, Keeps
    <3>2. CASE ~Unloads(p, t, reason, e)
      BY <2>2, <3>2 DEF Good, Keeps
    <3> QED BY <3>1, <3>2
  <2> QED BY <2>1, <2>3, <2>4, SetPluginStep DEF Unloads, UnloadMarked
<1> QED BY <1>1, <1>2, <1>3

\* refresh().
LEMMA RefreshStartStep == IInv /\ RefreshStart => Step
<1> SUFFICES ASSUME IInv, NEW t \in {PT_CHANGELEVEL, PT_ANYTIME},
                    RefreshNoIni(t) \/ \E lines \in SUBSET Path : RefreshBegin(t, lines)
             PROVE  Step
  BY DEF RefreshStart
<1>0. ListInv /\ TypeOK /\ t \in LoadTime
  <2>1. stage = "up"
    BY Zenon DEF RefreshNoIni, RefreshBegin
  <2> QED BY <2>1 DEF IInv, LoadTime
<1>1. CASE RefreshNoIni(t)
  <2>1. ListInv' /\ ContractStep
    BY <1>0, <1>1, UnpausedAllStep, UnpausedAllContract DEF RefreshNoIni
  <2> QED BY <1>0, <1>1, <2>1, Assemble DEF Step, RefreshNoIni, TypeOK, Stage
<1>2. ASSUME NEW lines \in SUBSET Path, RefreshBegin(t, lines) PROVE Step
  <2>1. ListInv' /\ ContractStep
    BY <1>0, <1>2, SameListStep DEF RefreshBegin
  <2> QED BY <1>0, <1>2, <2>1, Assemble DEF Step, RefreshBegin, TypeOK, Stage
<1> QED BY <1>1, <1>2

\* The lines of plugins.ini, and the loop of refresh().
LEMMA RefreshStepStep == IInv /\ RefreshStep => Step
<1> SUFFICES ASSUME IInv, RefreshStep PROVE Step
  OBVIOUS
<1>0. ListInv /\ TypeOK
  BY DEF IInv, RefreshStep, IniNewLine, IniKnownLine, IniRefreshDone, RefreshSlot, RefreshDone
<1>1. ASSUME NEW path \in Path, IniNewLine(path) PROVE Step
  <2>1. ListInv' /\ ContractStep
    <3>1. PICK match \in Matches :
            IF Overrides(match) THEN Add(Overridden(match), path, "PS_INI")
                                ELSE UNCHANGED <<plug, last>>
      BY <1>1 DEF IniNewLine
    <3>2. CASE Overrides(match)
      <4>1. \A i \in match : i \in Slot => plug[i].status < PL_RUNNING
        BY <1>0, <3>2 DEF Overrides, ListInv, Sound, Plugin, Status
      <4> QED BY <1>0, <1>1, <3>1, <3>2, <4>1, AddLineStep DEF IniNewLine
    <3>3. CASE ~Overrides(match)
      BY <1>0, <1>1, <3>1, <3>3, SameListStep DEF IniNewLine
    <3> QED BY <3>2, <3>3
  <2> QED BY <1>0, <1>1, <2>1, Assemble DEF Step, IniNewLine, TypeOK, Stage
<1>2. ASSUME NEW i \in Slot, IniKnownLine(i) PROVE Step
  <2>1. PICK stat \in BOOLEAN : plug' = [plug EXCEPT ![i] = IniKnown(@, stat)]
    BY <1>2 DEF IniKnownLine
  <2>2. Good(plug[i], IniKnown(plug[i], stat), FALSE)
    BY <1>0, IniKnownGood DEF ListInv
  <2>3. RebuildIf(FALSE, i, EmptySlot)
    BY <1>2 DEF RebuildIf, IniKnownLine
  <2>4. ListInv' /\ ContractStep
    BY <1>0, <1>2, <2>1, <2>2, <2>3, EmptyGood, SlotStep, SlotContract DEF IniKnownLine
  <2> QED BY <1>0, <1>2, <2>4, Assemble DEF Step, IniKnownLine, TypeOK, Stage
<1>3. CASE IniRefreshDone
  <2>1. ListInv' /\ ContractStep
    BY <1>0, <1>3, SameListStep DEF IniRefreshDone
  <2> QED BY <1>0, <1>3, <2>1, Assemble DEF Step, IniRefreshDone, TypeOK, Stage
<1>4. CASE RefreshSlot
  <2> DEFINE p == plug[cursor]
             u == IF Deleted(p) THEN DeletedMark(p) ELSE p
  <2>1. cursor \in Slot
    BY <1>0, <1>4, BoundAssumption DEF RefreshSlot, TypeOK, Slot
  <2>2. PICK e \in Env : /\ plug' = [plug EXCEPT ![cursor] = Refreshed(p, now, e)]
                         /\ RebuildIf(RefreshUnloads(p, now, e), cursor, u)
    BY <1>4, Zenon DEF RefreshSlot
  <2>3. p \in Plugin /\ Sound(p) /\ now \in LoadTime
    BY <1>0, <2>1 DEF ListInv, TypeOK
  <2>4. Good(p, Refreshed(p, now, e), RefreshUnloads(p, now, e))
    BY <2>3, RefreshedGood
  <2>5. /\ u \in Plugin
        /\ Deleted(p) => u.action = "PA_UNLOAD" /\ u.status = p.status
        /\ ~Deleted(p) => u = p
    BY <2>3, DeletedMarkGood
  <2>6. RefreshUnloads(p, now, e) =>
          u.status >= PL_VALID /\ u.action \in {"PA_UNLOAD", "PA_RELOAD"}
    BY <2>3, <2>5 DEF RefreshUnloads, ReloadUnloads, Unloads, UnloadMarked, Deleted
  <2> HIDE DEF u
  <2>7. ListInv' /\ ContractStep
    BY <1>0, <1>4, <2>1, <2>2, <2>4, <2>5, <2>6, SlotStep, SlotContract DEF RefreshSlot
  <2>8. cursor' \in 1..(MaxPlugins + 1)
    BY <1>4, <2>1, BoundAssumption DEF RefreshSlot, Slot
  <2> QED BY <1>0, <1>4, <2>7, <2>8, Assemble DEF Step, RefreshSlot, TypeOK, Stage
<1>5. CASE RefreshDone
  <2>1. ListInv' /\ ContractStep
    BY <1>0, <1>5, UnpausedAllStep, UnpausedAllContract DEF RefreshDone, Serve
  <2> QED BY <1>0, <1>5, <2>1, Assemble, BoundAssumption
          DEF Step, RefreshDone, Serve, TypeOK, Stage, LoadTime
<1> QED BY <1>1, <1>2, <1>3, <1>4, <1>5 DEF RefreshStep

\* A file changes on disk.
LEMMA FileUpdatedStep ==
  ASSUME IInv, NEW path \in Path, FileUpdated(path)
  PROVE  Step
<1>0. ListInv /\ TypeOK
  BY DEF IInv, FileUpdated
<1>1. \A i \in Slot : /\ plug'[i] \in Plugin /\ plug'[i].path = plug[i].path
                      /\ plug'[i].status = plug[i].status
                      /\ Sound(plug'[i])
  <2> TAKE i \in Slot
  <2>1. plug'[i] = plug[i] \/ plug'[i] = [plug[i] EXCEPT !.newer = TRUE]
    BY DEF FileUpdated
  <2>2. plug[i] \in Plugin /\ Sound(plug[i])
    BY <1>0 DEF ListInv
  <2>3. CASE plug'[i] = plug[i]
    BY <2>2, <2>3
  <2>4. CASE plug'[i] = [plug[i] EXCEPT !.newer = TRUE]
    BY <2>2, <2>4 DEF Plugin, Sound
  <2> QED BY <2>1, <2>3, <2>4
<1>2. plug' \in [Slot -> Plugin]
  BY <1>1 DEF FileUpdated
<1>3. UniquePath'
  <2>1. Live \subseteq Slot /\ Live' = Live
    BY <1>0, <1>1, BoundAssumption DEF Live, Slot, ListInv, FileUpdated
  <2> QED BY <1>0, <1>1, <2>1 DEF ListInv, UniquePath
<1>4. ListInv'
  BY <1>0, <1>1, <1>2, <1>3 DEF ListInv, Rebuilt, FileUpdated
<1>5. \A i \in Slot : ModuleState(plug[i])' = ModuleState(plug[i])
  BY <1>0, <1>1, SameStatus DEF ListInv
<1>6. ContractStep
  BY <1>0, <1>5, RehookContract DEF FileUpdated
<1> QED BY <1>0, <1>4, <1>6, Assemble DEF Step, FileUpdated, TypeOK, Stage

\* The end of the server.
LEMMA GameShutdownStep ==
  ASSUME IInv, GameShutdown
  PROVE  Step
<1>0. ListInv /\ TypeOK
  BY DEF IInv, GameShutdown
<1>1. plug' \in [Slot -> Plugin] /\ \A i \in Slot : Keeps(plug[i], plug'[i])
  <2>1. CASE UNCHANGED plug
    BY <1>0, <2>1 DEF ListInv, Keeps
  <2>2. ASSUME NEW e \in Env,
               plug' = [i \in Slot |-> Unload(plug[i], PT_ANYTIME, "PNL_CMD_FORCED", e)]
        PROVE  plug' \in [Slot -> Plugin] /\ \A i \in Slot : Keeps(plug[i], plug'[i])
    BY <1>0, <2>2, UnloadTyped DEF ListInv
  <2> QED BY <2>1, <2>2 DEF GameShutdown
<1>2. UniquePath'
  <2>1. Live' \subseteq Live /\ Live \subseteq Slot
    BY <1>0, <1>1, BoundAssumption DEF Live, Slot, ListInv, GameShutdown, Keeps
  <2>2. \A i \in Live' : plug'[i].path = plug[i].path
    BY <1>1, <2>1 DEF Live, Keeps
  <2> QED BY <1>0, <2>1, <2>2 DEF ListInv, UniquePath
<1>3. DownInv'
  BY <1>0, <1>1, <1>2 DEF DownInv, ListInv, GameShutdown
<1>4. IInv'
  BY <1>0, <1>3 DEF IInv, DownInv, TypeOK, GameShutdown, Stage
<1>5. \A i \in Slot : ModuleState(plug'[i]) \in {ModuleState(plug[i]), "closed"}
  <2>1. CASE UNCHANGED plug
    BY <2>1
  <2>2. ASSUME NEW e \in Env,
               plug' = [i \in Slot |-> Unload(plug[i], PT_ANYTIME, "PNL_CMD_FORCED", e)]
        PROVE  \A i \in Slot : ModuleState(plug'[i]) \in {ModuleState(plug[i]), "closed"}
    BY <1>0, <2>2, UnloadCloses DEF ListInv
  <2> QED BY <2>1, <2>2 DEF GameShutdown
<1>6. Contract!Stop
  BY <1>5 DEF GameShutdown, Contract!Stop, ModuleState
<1> QED BY <1>4, <1>6 DEF Step, ContractStep, Contract!Next

\* A step that changes nothing.
LEMMA StutterStep ==
  ASSUME IInv, UNCHANGED vars
  PROVE  Step
<1>1. IInv'
  BY DEF IInv, TypeOK, ListInv, DownInv, NothingLoaded, UniquePath, Live, Rebuilt, vars
<1>2. ContractStep
  BY DEF ContractStep, Contract!vars, vars
<1> QED BY <1>1, <1>2 DEF Step

\* IInv is inductive, and every step from it keeps the contract.
THEOREM NextStep == IInv /\ [Next]_vars => Step
BY StartupStep, CommandStep, RequestStep, RefreshStartStep, RefreshStepStep,
   FileUpdatedStep, GameShutdownStep, StutterStep DEF Next

\* IInv holds for ever.
THEOREM Invariance == Spec => []IInv
<1>1. IInv /\ [Next]_vars => IInv'
  BY NextStep DEF Step
<1> QED BY <1>1, InitIInv, PTL DEF Spec

----------------------------------------------------------------------------
(* What follows from it.                                                   *)

\* Type correctness.
THEOREM TypeCorrect == Spec => []TypeOK
<1>1. IInv => TypeOK
  BY DEF IInv
<1> QED BY <1>1, Invariance, PTL

\* The callbacks only reach plugins that are attached and whose module is
\* open.
THEOREM HookedLiveHolds == Spec => []HookedLive
<1>1. IInv => HookedLive
  BY DEF IInv, ListInv, HookedLive, Rebuilt, Sound, Plugin, Status
<1> QED BY <1>1, Invariance, PTL

\* m_info never points into a module that is closed.
THEOREM InfoLiveHolds == Spec => []InfoLive
<1>1. IInv => InfoLive
  BY DEF IInv, ListInv, InfoLive, Sound
<1> QED BY <1>1, Invariance, PTL

\* No file is in the list twice.
THEOREM UniquePathHolds == Spec => []UniquePath
<1>1. IInv => UniquePath
  BY DEF IInv, ListInv, DownInv
<1> QED BY <1>1, Invariance, PTL

\* The lifecycle implements PluginContract: whatever the plugins answer, and
\* whoever loads, unloads, reloads or pauses them, each step opens, attaches,
\* closes or replaces one module, together with its callbacks.
THEOREM ContractHolds == Spec => ContractKept
<1>1. Init => Contract!Init
  <2>1. ModuleState(EmptySlot) = "closed"
    BY EmptyGood DEF Sound, ModuleState
  <2> QED BY <2>1 DEF Init, Contract!Init
<1>2. IInv /\ [Next]_vars => [Contract!Next]_(Contract!vars)
  BY NextStep DEF Step, ContractStep
<1> QED BY <1>1, <1>2, Invariance, PTL DEF Spec, ContractKept, Contract!Spec
----------------------------------------------------------------------------
(* Pending actions.                                                        *)

\* Nothing was put off, or what was put off is still pending.
Settled(p) == p.promise \in {"PA_NONE", p.action}

\* load() puts the load off that was pending, or is done with it: it does not
\* give up a load that it has put off before.
LEMMA LoadSettled ==
  ASSUME NEW p \in Plugin, NEW t, NEW e \in Env, Sound(p) \/ Reopening(p), Settled(p)
  PROVE  Settled(Load(p, t, e))
<1>1. CASE ~Loadable(p)
  BY <1>1 DEF Load
<1>2. CASE Loadable(p)
  <2> DEFINE q == Queried(p, e)
             r == Attached(q, t, e)
  <2>1. /\ q \in Plugin /\ Sound(q)
        /\ q.action = p.action
        /\ q.status \in {PL_BADFILE, PL_OPENED, PL_FAILED}
    BY <1>2, QueriedGood
  <2>2. q.promise = p.promise
    BY DEF Queried, Plugin
  <2>3. Settled(q)
    BY <2>1, <2>2 DEF Settled
  <2>4. Load(p, t, e) \in {q, r}
    BY <1>2 DEF Load
  <2>5. Settled(r)
    <3> HIDE DEF q
    <3>1. q.action = "PA_LOAD"
      BY <1>2, <2>1 DEF Loadable
    <3>2. CASE q.info.loadable < t /\ q.info.loadable > PT_STARTUP
      BY <2>1, <3>2 DEF Attached, Settled, Plugin
    <3>3. CASE q.info.loadable < t /\ ~(q.info.loadable > PT_STARTUP)
      <4>1. q.promise = "PA_NONE"
        BY <2>1, <2>3, <3>1, <3>3 DEF Sound, Settled
      <4> QED BY <2>1, <3>3, <4>1 DEF Attached, Settled, Plugin
    <3>4. CASE ~(q.info.loadable < t)
      BY <2>1, <3>4 DEF Attached, Settled, Plugin
    <3> QED BY <3>2, <3>3, <3>4
  <2> QED BY <2>3, <2>4, <2>5
<1> QED BY <1>1, <1>2

\* unload() that goes through has nothing left to do later.
LEMMA UnloadedSettled ==
  ASSUME NEW p \in Plugin
  PROVE  Unloaded(p).promise = "PA_NONE"
BY DEF Unloaded, Clear, EmptySlot, Added, Plugin

\* unload() that is refused puts off what was pending, or gives it up.
LEMMA UnloadRefusedSettled ==
  ASSUME NEW p \in Plugin, NEW t, NEW reason, Settled(p)
  PROVE  Settled(UnloadRefused(p, t, reason)) /\ Settled(GivenUp(p))
<1>1. Settled(GivenUp(p))
  BY DEF GivenUp, Settled, Plugin
<1>2. Settled([p EXCEPT !.promise = p.action])
  BY DEF Settled, Plugin
<1>3. UnloadRefused(p, t, reason) \in {p, [p EXCEPT !.promise = p.action], GivenUp(p)}
  BY Zenon DEF UnloadRefused
<1> QED BY <1>1, <1>2, <1>3

\* unload().
LEMMA UnloadSettled ==
  ASSUME NEW p \in Plugin, NEW t, NEW reason, NEW e, Settled(p)
  PROVE  Settled(Unload(p, t, reason, e))
BY UnloadedSettled, UnloadRefusedSettled DEF Unload, Settled

\* reload().
LEMMA ReloadSettled ==
  ASSUME NEW p \in Plugin, NEW t, NEW reason, NEW e \in Env, Settled(p),
         p.action = "PA_RELOAD"
  PROVE  Settled(Reload(p, t, reason, e))
<1> DEFINE q == Reload(p, t, reason, e)
           u == Unloaded(p)
<1>1. \/ q = p
      \/ q = [p EXCEPT !.promise = p.action]
      \/ q = GivenUp(p)
      \/ q = UnloadRefused(p, t, ReloadReason(p, reason))
      \/ q = Load(u, t, e) /\ ~(p.status < PL_VALID)
  BY Zenon DEF Reload
<1>2. Settled(GivenUp(p)) /\ Settled(UnloadRefused(p, t, ReloadReason(p, reason)))
  BY UnloadRefusedSettled
<1>3. Settled([p EXCEPT !.promise = p.action])
  BY DEF Settled, Plugin
<1>4. ASSUME ~(p.status < PL_VALID) PROVE Settled(Load(u, t, e))
  <2>1. u \in Plugin /\ Reopening(u)
    BY <1>4, UnloadedGood DEF Plugin, Status
  <2>2. Settled(u)
    BY UnloadedSettled DEF Settled
  <2> QED BY <2>1, <2>2, LoadSettled
<1> QED BY <1>1, <1>2, <1>3, <1>4

\* A plugin that is marked anew has nothing put off.
LEMMA MarkedSettled ==
  ASSUME NEW p \in Plugin, NEW action \in Action
  PROVE  Marked(p, action) \in Plugin /\ Settled(Marked(p, action))
<1>1. Marked(p, action) \in Plugin
  BY FieldValues, Zenon DEF Marked, Plugin
<1> QED BY <1>1 DEF Marked, Settled, Plugin

\* retry().
LEMMA RetriedSettled ==
  ASSUME NEW p \in Plugin, NEW t, NEW reason, NEW e \in Env, Sound(p), Settled(p)
  PROVE  Settled(Retried(p, t, reason, e))
BY LoadSettled, UnloadSettled, ReloadSettled DEF Retried

\* One turn of the loop of refresh().
LEMMA RefreshedSettled ==
  ASSUME NEW p \in Plugin, NEW t, NEW e \in Env, Sound(p), Settled(p)
  PROVE  Settled(Refreshed(p, t, e))
<1> DEFINE q == Refreshed(p, t, e)
<1>1. \/ q = p
      \/ q = [p EXCEPT !.action = "PA_NONE"] /\ p.action = "PA_KEEP"
      \/ q = Load(p, t, e)
      \/ q = Reload(p, t, "PNL_FILE_NEWER", e) /\ p.action = "PA_RELOAD"
      \/ q = Unload(DeletedMark(p), t, "PNL_INI_DELETED", e) /\ Deleted(p)
      \/ q = Unload(p, t, "PNL_DELAYED", e)
  <2>1. CASE p.status < PL_VALID
    BY <2>1 DEF Refreshed
  <2>2. CASE ~(p.status < PL_VALID)
    BY <2>2 DEF Refreshed, Deleted
  <2> QED BY <2>1, <2>2
<1>2. p.action = "PA_KEEP" => Settled([p EXCEPT !.action = "PA_NONE"])
  BY DEF Sound, Settled, Plugin
<1>3. Deleted(p) => DeletedMark(p) \in Plugin /\ Settled(DeletedMark(p))
  BY DeletedMarkGood DEF Deleted, DeletedMark, Settled, Plugin
<1> QED BY <1>1, <1>2, <1>3, LoadSettled, UnloadSettled, ReloadSettled

\* unpause(), and the lines of plugins.ini that name other plugins.
LEMMA UnpausedSettled ==
  ASSUME NEW p \in Plugin, Settled(p)
  PROVE  Settled(Unpaused(p)) /\ Settled([p EXCEPT !.newer = TRUE]) /\ Settled(EmptySlot)
BY DEF Unpaused, Settled, EmptySlot, Added, Plugin

\* clear().
LEMMA ClearSettled ==
  ASSUME NEW p \in Plugin, Settled(p)
  PROVE  Settled(Clear(p))
BY DEF Clear, Settled, EmptySlot, Added

\* What a step does to every plugin.
Keeping == \A i \in Slot : Settled(plug[i]) => Settled(plug'[i])

\* One plugin changes.
LEMMA SlotKeeping ==
  ASSUME plug \in [Slot -> Plugin], NEW i \in Slot, NEW q,
         plug' = [plug EXCEPT ![i] = q], Settled(plug[i]) => Settled(q)
  PROVE  Keeping
BY DEF Keeping

\* A plugin is added, and perhaps loaded, after entries were overridden.
LEMMA AddKeeping ==
  ASSUME plug \in [Slot -> Plugin], NEW q, Settled(q), NEW list \in [Slot -> Plugin],
         \A i \in Slot : list[i] \in {plug[i], EmptySlot},
         plug' = [list EXCEPT ![last + 1] = q]
  PROVE  Keeping
<1>1. Settled(EmptySlot)
  BY DEF Settled, EmptySlot, Added
<1> QED BY <1>1 DEF Keeping

\* A new plugin, loaded at once.
LEMMA LoadNewKeeping ==
  ASSUME plug \in [Slot -> Plugin], NEW path \in Path, NEW source \in Source, NEW t,
         NEW e \in Env, plug' = [plug EXCEPT ![last + 1] = Load(Added(path, source), t, e)]
  PROVE  Keeping
<1>1. Added(path, source) \in Plugin /\ Sound(Added(path, source))
  BY AddedGood
<1>2. Settled(Added(path, source))
  BY DEF Added, Settled
<1>3. Settled(Load(Added(path, source), t, e))
  BY <1>1, <1>2, LoadSettled
<1> QED BY <1>3, AddKeeping

\* A new line of plugins.ini.
LEMMA AddLineKeeping ==
  ASSUME plug \in [Slot -> Plugin], NEW path, NEW match, Add(Overridden(match), path, "PS_INI")
  PROVE  Keeping
<1>1. Settled(Added(path, "PS_INI"))
  BY DEF Added, Settled
<1>2. /\ Overridden(match) \in [Slot -> Plugin]
      /\ \A i \in Slot : Overridden(match)[i] \in {plug[i], EmptySlot}
  BY EmptyGood DEF Overridden
<1> QED BY <1>1, <1>2, AddKeeping DEF Add

\* unpause_all().
LEMMA UnpausedAllKeeping ==
  ASSUME plug \in [Slot -> Plugin], NEW t, plug' = UnpausedAll(plug, t)
  PROVE  Keeping
BY UnpausedSettled DEF UnpausedAll, Keeping

\* Startup.
LEMMA StartupKeeping ==
  ASSUME plug \in [Slot -> Plugin], \A i \in Slot : Sound(plug[i]), last \in 0..MaxPlugins,
         cursor \in 1..(MaxPlugins + 1), Startup
  PROVE  Keeping
<1>1. ASSUME NEW path \in Path, IniStartupLine(path) PROVE Keeping
  BY <1>1, AddLineKeeping DEF IniStartupLine
<1>2. CASE StartupLoad
  <2>1. PICK e \in Env : plug' = [plug EXCEPT ![cursor] = Load(@, PT_STARTUP, e)]
    BY <1>2 DEF StartupLoad
  <2>2. cursor \in Slot
    BY <1>2, BoundAssumption DEF StartupLoad, Slot
  <2> QED BY <2>1, <2>2, LoadSettled, SlotKeeping
<1>3. CASE IniStartupDone \/ StartupDone
  BY <1>3 DEF IniStartupDone, StartupDone, Keeping
<1> QED BY <1>1, <1>2, <1>3 DEF Startup

\* The console commands, except a pause.
LEMMA CommandKeeping ==
  ASSUME plug \in [Slot -> Plugin], \A i \in Slot : Sound(plug[i]), Command
  PROVE  Keeping \/ \E i \in Slot : CmdPause(i)
<1>1. ASSUME NEW path \in Path, CmdLoad(path) PROVE Keeping
  BY <1>1, LoadNewKeeping DEF CmdLoad, Source
<1>2. ASSUME NEW i \in Slot, NEW reason, CmdUnload(i, reason) PROVE Keeping
  <2> DEFINE p == Marked(plug[i], "PA_UNLOAD")
  <2>1. PICK e \in Env : plug' = [plug EXCEPT ![i] = Unload(p, PT_ANYTIME, reason, e)]
    BY <1>2 DEF CmdUnload, SetPlugin
  <2>2. p \in Plugin /\ Settled(p)
    BY MarkedSettled DEF Action
  <2> HIDE DEF p
  <2> QED BY <2>1, <2>2, UnloadSettled, SlotKeeping
<1>3. ASSUME NEW i \in Slot, CmdReload(i) PROVE Keeping
  <2> DEFINE p == Marked(plug[i], "PA_RELOAD")
  <2>1. PICK e \in Env : plug' = [plug EXCEPT ![i] = Reload(p, PT_ANYTIME, "PNL_COMMAND", e)]
    BY <1>3 DEF CmdReload, SetPlugin
  <2>2. p \in Plugin /\ Settled(p) /\ p.action = "PA_RELOAD"
    BY MarkedSettled, MarkedGood DEF Action
  <2> HIDE DEF p
  <2> QED BY <2>1, <2>2, ReloadSettled, SlotKeeping
<1>4. ASSUME NEW i \in Slot, CmdRetry(i) PROVE Keeping
  <2>1. PICK e \in Env :
          plug' = [plug EXCEPT ![i] = Retried(plug[i], PT_ANYTIME, "PNL_COMMAND", e)]
    BY <1>4 DEF CmdRetry, SetPlugin
  <2> QED BY <2>1, RetriedSettled, SlotKeeping
<1>5. ASSUME NEW i \in Slot, CmdClear(i) \/ CmdUnpause(i) PROVE Keeping
  BY <1>5, ClearSettled, UnpausedSettled, SlotKeeping DEF CmdClear, CmdUnpause, SetPlugin
<1> QED BY <1>1, <1>2, <1>3, <1>4, <1>5, Zenon DEF Command

\* The requests of plugins: a refusal leaves the plugin as it was.
LEMMA RequestKeeping ==
  ASSUME plug \in [Slot -> Plugin], Request
  PROVE  Keeping
<1>1. ASSUME NEW caller, NEW path \in Path, NEW t, PluginLoad(caller, path, t) PROVE Keeping
  BY <1>1, LoadNewKeeping DEF PluginLoad, Source
<1>2. ASSUME NEW caller, NEW path, PluginLoadKnown(caller, path) PROVE Keeping
  BY <1>2 DEF PluginLoadKnown, Keeping
<1>3. ASSUME NEW caller, NEW i \in Slot, NEW t, NEW reason, PluginUnload(caller, i, t, reason)
      PROVE  Keeping
  <2> DEFINE p == Marked(plug[i], "PA_UNLOAD")
             q(e) == IF Unloads(p, t, reason, e) THEN Unloaded(p) ELSE plug[i]
  <2>1. PICK e \in Env : plug' = [plug EXCEPT ![i] = q(e)]
    BY <1>3 DEF PluginUnload, SetPlugin
  <2>2. Settled(Unloaded(p))
    BY MarkedSettled, UnloadedSettled DEF Settled, Action
  <2>3. Settled(plug[i]) => Settled(q(e))
    BY <2>2
  <2> QED BY <2>1, <2>3, SlotKeeping
<1> QED BY <1>1, <1>2, <1>3 DEF Request

\* A refresh, except the lines that name a plugin of the list.
LEMMA RefreshKeeping ==
  ASSUME plug \in [Slot -> Plugin], \A i \in Slot : Sound(plug[i]), last \in 0..MaxPlugins,
         cursor \in 1..(MaxPlugins + 1), RefreshStart \/ RefreshStep
  PROVE  Keeping \/ \E i \in Slot : IniKnownLine(i)
<1>1. ASSUME RefreshStart PROVE Keeping
  <2>1. ASSUME NEW t, RefreshNoIni(t) PROVE Keeping
    BY <2>1, UnpausedAllKeeping DEF RefreshNoIni
  <2>2. ASSUME NEW t, NEW lines, RefreshBegin(t, lines) PROVE Keeping
    BY <2>2 DEF RefreshBegin, Keeping
  <2> QED BY <1>1, <2>1, <2>2 DEF RefreshStart
<1>2. ASSUME NEW path \in Path, IniNewLine(path) PROVE Keeping
  <2>1. PICK match \in Matches :
          IF Overrides(match) THEN Add(Overridden(match), path, "PS_INI")
                              ELSE UNCHANGED <<plug, last>>
    BY <1>2 DEF IniNewLine
  <2>2. CASE Overrides(match)
    BY <2>1, <2>2, AddLineKeeping
  <2>3. CASE ~Overrides(match)
    BY <2>1, <2>3 DEF Keeping
  <2> QED BY <2>2, <2>3
<1>3. ASSUME RefreshSlot PROVE Keeping
  <2>1. PICK e \in Env : plug' = [plug EXCEPT ![cursor] = Refreshed(plug[cursor], now, e)]
    BY <1>3 DEF RefreshSlot
  <2>2. cursor \in Slot
    BY <1>3, BoundAssumption DEF RefreshSlot, Slot
  <2> QED BY <2>1, <2>2, RefreshedSettled, SlotKeeping
<1>4. ASSUME RefreshDone PROVE Keeping
  BY <1>4, UnpausedAllKeeping DEF RefreshDone
<1>5. ASSUME IniRefreshDone PROVE Keeping
  BY <1>5 DEF IniRefreshDone, Keeping
<1> QED BY <1>1, <1>2, <1>3, <1>4, <1>5, Zenon DEF RefreshStep

\* A newer file, and shutdown.
LEMMA OtherKeeping ==
  ASSUME plug \in [Slot -> Plugin], GameShutdown \/ \E path \in Path : FileUpdated(path)
  PROVE  Keeping
<1>1. ASSUME NEW path \in Path, FileUpdated(path) PROVE Keeping
  BY <1>1, UnpausedSettled DEF FileUpdated, Keeping
<1>2. CASE GameShutdown
  <2>1. CASE UNCHANGED plug
    BY <2>1 DEF Keeping
  <2>2. ASSUME NEW e \in Env,
               plug' = [i \in Slot |-> Unload(plug[i], PT_ANYTIME, "PNL_CMD_FORCED", e)]
        PROVE  Keeping
    BY <2>2, UnloadSettled DEF Keeping
  <2> QED BY <1>2, <2>1, <2>2 DEF GameShutdown
<1> QED BY <1>1, <1>2

\* What was put off stays pending until it is done or given up, whoever does
\* what to the other plugins.
THEOREM PendingKeptHolds == Spec => PendingKept
<1> DEFINE Kept == \A i \in Slot :
              plug[i].promise # "PA_NONE" /\ plug[i].promise = plug[i].action =>
                \/ plug'[i].promise \in {"PA_NONE", plug'[i].action}
                \/ IniKnownLine(i)
                \/ CmdPause(i)
<1>1. Keeping => Kept
  BY DEF Keeping, Settled
<1>2. ASSUME IInv, NEW i \in Slot, IniKnownLine(i) \/ CmdPause(i) PROVE Kept
  <2>1. \A j \in Slot \ {i} : plug'[j] = plug[j]
    BY <1>2 DEF IInv, TypeOK, IniKnownLine, CmdPause, SetPlugin
  <2> QED BY <1>2, <2>1
<1>3. IInv /\ [Next]_vars => [Kept]_vars
  <2> SUFFICES ASSUME IInv, Next PROVE Kept
    OBVIOUS
  <2>1. /\ plug \in [Slot -> Plugin] /\ last \in 0..MaxPlugins
        /\ cursor \in 1..(MaxPlugins + 1)
    BY DEF IInv, TypeOK
  <2>2. CASE stage = "down"
    BY <2>2 DEF Next, Startup, IniStartupLine, IniStartupDone, StartupLoad, StartupDone,
           Command, CmdLoad, CmdUnload, CmdReload, CmdRetry, CmdClear, CmdPause, CmdUnpause,
           SetPlugin, Request, PluginLoad, PluginLoadKnown, PluginUnload, RefreshStart,
           RefreshNoIni, RefreshBegin, RefreshStep, IniNewLine, IniKnownLine, IniRefreshDone,
           RefreshSlot, RefreshDone, FileUpdated, GameShutdown
  <2>3. CASE stage # "down"
    <3>1. \A i \in Slot : Sound(plug[i])
      BY <2>3 DEF IInv, ListInv
    <3> QED BY <1>1, <1>2, <2>1, <3>1, StartupKeeping, CommandKeeping, RequestKeeping,
               RefreshKeeping, OtherKeeping DEF Next
  <2> QED BY <2>2, <2>3
<1> QED BY <1>3, Invariance, PTL DEF Spec, PendingKept

----------------------------------------------------------------------------
(* Load times.                                                             *)

\* A plugin that changes from p to q does so at a time it allows.
Timely(p, q, t) ==
  /\ Comes(p, q) => q.info.loadable >= t
  /\ Leaves(p, q) => p.info.unloadable >= t

\* Nobody comes or leaves.
Stays(p, q) == q.attached = p.attached /\ q.info = p.info

LEMMA StaysTimely ==
  ASSUME NEW p, NEW q, NEW t, Stays(p, q) \/ (~p.attached /\ ~q.attached)
  PROVE  Timely(p, q, t)
BY DEF Stays, Timely, Comes, Leaves

\* A sound plugin that is attached has its times at hand.
LEMMA AttachedInfo ==
  ASSUME NEW p \in Plugin, Sound(p), p.status >= PL_OPENED
  PROVE  p.info \in Info /\ p.info.loadable \in LoadTime /\ p.info.unloadable \in LoadTime
<1>1. p.info \in Info
  BY DEF Sound, Plugin
<1> QED BY <1>1, InfoAssumption

\* load() attaches a plugin that was not attached, at a time it allows.
LEMMA LoadTimely ==
  ASSUME NEW p \in Plugin, NEW t \in LoadTime, NEW e \in Env, Sound(p) \/ Reopening(p)
  PROVE  LET r == Load(p, t, e)
         IN \/ r = p
            \/ ~p.attached /\ (r.attached => r.info.loadable >= t)
<1> DEFINE q == Queried(p, e)
           r == Attached(q, t, e)
<1>1. CASE ~Loadable(p)
  BY <1>1 DEF Load
<1>2. CASE Loadable(p)
  <2>1. q \in Plugin /\ Sound(q) /\ q.status \in {PL_BADFILE, PL_OPENED, PL_FAILED}
    BY <1>2, QueriedGood
  <2>2. ~p.attached
    BY <1>2 DEF Sound, Reopening, Loadable
  <2>3. ~q.attached
    BY <2>1 DEF Sound
  <2>4. \/ Load(p, t, e) = q
        \/ Load(p, t, e) = r /\ q.status # PL_BADFILE
    BY <1>2 DEF Load
  <2>5. ASSUME q.status # PL_BADFILE PROVE r.attached => r.info.loadable >= t
    <3>1. q.info.loadable \in LoadTime
      BY <2>1, <2>5, AttachedInfo
    <3> HIDE DEF q
    <3>2. CASE q.info.loadable < t
      BY <2>1, <2>3, <3>2 DEF Attached, Plugin
    <3>3. CASE ~(q.info.loadable < t)
      <4>1. r.info = q.info
        BY <2>1, <3>3 DEF Attached, Plugin
      <4> QED BY <3>1, <3>3, <4>1 DEF LoadTime
    <3> QED BY <3>2, <3>3
  <2> QED BY <2>2, <2>3, <2>4, <2>5
<1> QED BY <1>1, <1>2

\* unload() goes through at a time the plugin allows, unless it is forced.
LEMMA UnloadsTimely ==
  ASSUME NEW p \in Plugin, NEW t \in LoadTime, NEW reason, NEW e, Sound(p),
         Unloads(p, t, reason, e), reason # "PNL_CMD_FORCED", p.attached
  PROVE  p.info.unloadable >= t
<1>1. p.status >= PL_OPENED
  BY DEF Sound, Plugin, Status
<1>2. p.info \in Info /\ p.info.unloadable \in LoadTime
  BY <1>1, AttachedInfo
<1>3. ~(p.info.unloadable < t)
  BY <1>2, InfoAssumption DEF Unloads, TooEarlyToUnload
<1> QED BY <1>2, <1>3 DEF LoadTime

\* unload() that is refused, and the marks, leave the plugin in place.
LEMMA MarksStay ==
  ASSUME NEW p \in Plugin, NEW t, NEW reason, NEW action
  PROVE  /\ Stays(p, UnloadRefused(p, t, reason))
         /\ Stays(p, GivenUp(p))
         /\ Stays(p, [p EXCEPT !.promise = p.action])
         /\ Stays(p, [p EXCEPT !.action = action])
         /\ Stays(p, Marked(p, action))
         /\ Stays(p, DeletedMark(p))
         /\ Stays(p, [p EXCEPT !.newer = TRUE])
         /\ Stays(p, Unpaused(p))
         /\ Stays(p, Paused(p))
<1>1. /\ Stays(p, GivenUp(p))
      /\ Stays(p, [p EXCEPT !.promise = p.action])
      /\ Stays(p, [p EXCEPT !.action = action])
      /\ Stays(p, Marked(p, action))
      /\ Stays(p, DeletedMark(p))
      /\ Stays(p, [p EXCEPT !.newer = TRUE])
  BY DEF Stays, GivenUp, Marked, DeletedMark, Plugin
<1>2. UnloadRefused(p, t, reason) \in {p, [p EXCEPT !.promise = p.action], GivenUp(p)}
  BY Zenon DEF UnloadRefused
<1>3. Stays(p, Unpaused(p)) /\ Stays(p, Paused(p))
  BY DEF Stays, Unpaused, Paused, Plugin
<1> QED BY <1>1, <1>2, <1>3 DEF Stays

\* unload() of a plugin marked for it.
LEMMA UnloadTimely ==
  ASSUME NEW p \in Plugin, NEW t \in LoadTime, NEW reason, NEW e, Sound(p),
         p.action = "PA_UNLOAD", reason # "PNL_CMD_FORCED"
  PROVE  Timely(p, Unload(p, t, reason, e), t)
<1>1. CASE Unloads(p, t, reason, e)
  <2>1. Unload(p, t, reason, e) = EmptySlot
    BY <1>1, UnloadedGood DEF Unload, Unloads, UnloadMarked
  <2>2. ~EmptySlot.attached
    BY DEF EmptySlot, Added
  <2> QED BY <1>1, <2>1, <2>2, UnloadsTimely DEF Timely, Comes, Leaves
<1>2. CASE ~Unloads(p, t, reason, e)
  BY <1>2, MarksStay, StaysTimely DEF Unload
<1> QED BY <1>1, <1>2

\* reload() of a plugin marked for it: the old file and the new one both
\* allow the time.
LEMMA ReloadTimely ==
  ASSUME NEW p \in Plugin, NEW t \in LoadTime, NEW reason, NEW e \in Env, Sound(p),
         p.action = "PA_RELOAD", reason # "PNL_CMD_FORCED"
  PROVE  Timely(p, Reload(p, t, reason, e), t)
<1> DEFINE q == Reload(p, t, reason, e)
           u == Unloaded(p)
<1>1. CASE ReloadUnloads(p, t, reason, e)
  <2>1. p.status >= PL_VALID /\ q = Load(u, t, e)
    BY <1>1 DEF Reload, ReloadUnloads, Plugin, Status
  <2>2. u \in Plugin /\ Reopening(u)
    BY <2>1, UnloadedGood
  <2>3. q.attached => q.info.loadable >= t
    BY <2>1, <2>2, LoadTimely DEF Reopening
  <2>4. ReloadReason(p, reason) # "PNL_CMD_FORCED"
    BY DEF ReloadReason
  <2>5. p.attached => p.info.unloadable >= t
    BY <1>1, <2>4, UnloadsTimely DEF ReloadUnloads
  <2> QED BY <2>3, <2>5 DEF Timely, Comes, Leaves
<1>2. CASE ~ReloadUnloads(p, t, reason, e)
  <2>1. q \in {p, [p EXCEPT !.promise = p.action], GivenUp(p),
               UnloadRefused(p, t, ReloadReason(p, reason))}
    BY <1>2, Zenon DEF Reload
  <2> HIDE DEF q
  <2>2. Stays(p, q)
    <3>1. /\ Stays(p, [p EXCEPT !.promise = p.action]) /\ Stays(p, GivenUp(p))
          /\ Stays(p, UnloadRefused(p, t, ReloadReason(p, reason)))
      BY MarksStay
    <3>2. Stays(p, p)
      BY DEF Stays
    <3> QED BY <2>1, <3>1, <3>2
  <2> QED BY <2>2, StaysTimely DEF q
<1> QED BY <1>1, <1>2

\* retry().
LEMMA RetriedTimely ==
  ASSUME NEW p \in Plugin, NEW t \in LoadTime, NEW reason, NEW e \in Env, Sound(p),
         reason # "PNL_CMD_FORCED"
  PROVE  Timely(p, Retried(p, t, reason, e), t)
<1>1. CASE p.action = "PA_LOAD"
  <2>1. Retried(p, t, reason, e) = Load(p, t, e)
    BY <1>1 DEF Retried
  <2> QED BY <2>1, LoadTimely, StaysTimely DEF Timely, Comes, Leaves, Stays
<1>2. CASE p.action = "PA_UNLOAD"
  BY <1>2, UnloadTimely DEF Retried
<1>3. CASE p.action = "PA_RELOAD"
  BY <1>3, ReloadTimely DEF Retried
<1>4. CASE p.action \notin {"PA_LOAD", "PA_UNLOAD", "PA_RELOAD"}
  BY <1>4, StaysTimely DEF Retried, Stays
<1> QED BY <1>1, <1>2, <1>3, <1>4

\* One turn of the loop of refresh().
LEMMA RefreshedTimely ==
  ASSUME NEW p \in Plugin, NEW t \in LoadTime, NEW e \in Env, Sound(p)
  PROVE  Timely(p, Refreshed(p, t, e), t)
<1> DEFINE q == Refreshed(p, t, e)
<1>1. \/ q = p
      \/ q = [p EXCEPT !.action = "PA_NONE"]
      \/ q = Load(p, t, e)
      \/ q = Reload(p, t, "PNL_FILE_NEWER", e) /\ p.action = "PA_RELOAD"
      \/ q = Unload(DeletedMark(p), t, "PNL_INI_DELETED", e)
      \/ q = Unload(p, t, "PNL_DELAYED", e) /\ p.action = "PA_UNLOAD"
  <2>1. CASE p.status < PL_VALID
    BY <2>1 DEF Refreshed
  <2>2. CASE ~(p.status < PL_VALID)
    BY <2>2 DEF Refreshed, Deleted
  <2> QED BY <2>1, <2>2
<1> SUFFICES Timely(p, q, t)
  OBVIOUS
<1> HIDE DEF q
<1>2. CASE q = p \/ q = [p EXCEPT !.action = "PA_NONE"]
  <2>1. Stays(p, p) /\ Stays(p, [p EXCEPT !.action = "PA_NONE"])
    BY MarksStay DEF Stays
  <2> QED BY <1>2, <2>1, StaysTimely
<1>3. CASE q = Load(p, t, e)
  <2>1. \/ q = p
        \/ ~p.attached /\ (q.attached => q.info.loadable >= t)
    BY <1>3, LoadTimely
  <2> QED BY <2>1 DEF Timely, Comes, Leaves
<1>4. CASE q = Reload(p, t, "PNL_FILE_NEWER", e) /\ p.action = "PA_RELOAD"
  BY <1>4, ReloadTimely
<1>5. CASE q = Unload(DeletedMark(p), t, "PNL_INI_DELETED", e)
  <2>1. Timely(DeletedMark(p), q, t)
    BY <1>5, DeletedMarkGood, UnloadTimely
  <2>2. Stays(p, DeletedMark(p))
    BY MarksStay
  <2> QED BY <2>1, <2>2 DEF Timely, Comes, Leaves, Stays
<1>6. CASE q = Unload(p, t, "PNL_DELAYED", e) /\ p.action = "PA_UNLOAD"
  BY <1>6, UnloadTimely
<1> QED BY <1>1, <1>2, <1>3, <1>4, <1>5, <1>6

\* The load time that counts in a step that nobody has asked for.
StepTime == IF stage = "up" THEN PT_ANYTIME ELSE now

\* At startup it is PT_STARTUP.
StartupNow == stage \in {"ini_startup", "load"} => now = PT_STARTUP

\* What a step does to every plugin.
Timed == \A i \in Slot : Timely(plug[i], plug'[i], StepTime)

\* That is what the property asks.
LEMMA TimelyInTime ==
  ASSUME NEW i \in Slot, Timely(plug[i], plug'[i], StepTime)
  PROVE  InTime(i)
BY Zenon DEF Timely, StepTime, InTime

\* One plugin changes.
LEMMA SlotTimed ==
  ASSUME plug \in [Slot -> Plugin], NEW i \in Slot, NEW q,
         plug' = [plug EXCEPT ![i] = q], Timely(plug[i], q, StepTime)
  PROVE  Timed
<1>1. \A j \in Slot \ {i} : Timely(plug[j], plug'[j], StepTime)
  BY StaysTimely DEF Stays
<1>2. Timely(plug[i], plug'[i], StepTime)
  OBVIOUS
<1> QED BY <1>1, <1>2 DEF Timed

\* Each plugin changes, but none comes or leaves.
LEMMA StayTimed ==
  ASSUME \A i \in Slot : Stays(plug[i], plug'[i])
  PROVE  Timed
BY StaysTimely DEF Timed

\* A line of plugins.ini adds a name, and overrides only what is not attached.
LEMMA AddLineTimed ==
  ASSUME plug \in [Slot -> Plugin], NEW path, NEW match \in Matches,
         Add(Overridden(match), path, "PS_INI"),
         \A i \in match : ~plug[i].attached,
         \A i \in Slot : i > last => ~plug[i].attached, last \in 0..MaxPlugins
  PROVE  Timed
<1>1. ~EmptySlot.attached /\ ~Added(path, "PS_INI").attached
  BY DEF EmptySlot, Added
<1>2. ASSUME NEW i \in Slot
      PROVE  Stays(plug[i], plug'[i]) \/ (~plug[i].attached /\ ~plug'[i].attached)
  <2>1. plug' = [Overridden(match) EXCEPT ![last + 1] = Added(path, "PS_INI")]
    BY DEF Add
  <2>2. Overridden(match) = [j \in Slot |-> IF j \in match THEN EmptySlot ELSE plug[j]]
    BY DEF Overridden
  <2>3. CASE i = last + 1
    BY <1>1, <2>1, <2>2, <2>3 DEF Slot
  <2>4. CASE i # last + 1
    BY <1>1, <2>1, <2>2, <2>4 DEF Stays
  <2> QED BY <2>3, <2>4
<1> QED BY <1>2, StaysTimely DEF Timed

\* A new plugin is loaded at time t.
LEMMA LoadNewTimed ==
  ASSUME plug \in [Slot -> Plugin], last \in 0..MaxPlugins, last < MaxPlugins,
         NEW path \in Path, NEW source \in Source, NEW t \in LoadTime, NEW e \in Env,
         plug' = [plug EXCEPT ![last + 1] = Load(Added(path, source), t, e)],
         ~plug[last + 1].attached
  PROVE  /\ plug'[last + 1].attached => plug'[last + 1].info.loadable >= t
         /\ \A i \in Slot \ {last + 1} : plug'[i] = plug[i]
         /\ last + 1 \in Slot
<1> DEFINE a == Added(path, source)
<1>1. a \in Plugin /\ Sound(a)
  BY AddedGood
<1>2. ~a.attached
  BY DEF Added
<1>3. last + 1 \in Slot
  BY BoundAssumption DEF Slot
<1> HIDE DEF a
<1>4. Load(a, t, e).attached => Load(a, t, e).info.loadable >= t
  BY <1>1, <1>2, LoadTimely
<1>5. plug'[last + 1] = Load(a, t, e)
  BY <1>3 DEF a
<1> QED BY <1>3, <1>4, <1>5

\* Startup.
LEMMA StartupTimed ==
  ASSUME IInv, StartupNow, stage # "down", Startup
  PROVE  Timed
<1>0. /\ plug \in [Slot -> Plugin] /\ last \in 0..MaxPlugins
      /\ cursor \in 1..(MaxPlugins + 1)
      /\ \A i \in Slot : Sound(plug[i])
      /\ \A i \in Slot : i > last => plug[i].status = PL_EMPTY
  BY DEF IInv, TypeOK, ListInv
<1>1. ASSUME NEW path \in Path, IniStartupLine(path) PROVE Timed
  <2>1. PICK match \in Matches : Add(Overridden(match), path, "PS_INI")
    BY <1>1 DEF IniStartupLine
  <2>2. \A i \in Slot : ~plug[i].attached
    BY <1>0, <1>1 DEF IniStartupLine, IInv, NothingLoaded, Sound, Plugin, Status
  <2>3. match \subseteq Slot
    <3>1. ListInv
      BY DEF IInv
    <3> QED BY <3>1, MatchInSlot
  <2> QED BY <1>0, <2>1, <2>2, <2>3, AddLineTimed
<1>2. CASE StartupLoad
  <2>1. PICK e \in Env : plug' = [plug EXCEPT ![cursor] = Load(plug[cursor], PT_STARTUP, e)]
    BY <1>2 DEF StartupLoad
  <2>2. cursor \in Slot /\ StepTime = PT_STARTUP
    BY <1>0, <1>2, BoundAssumption DEF StartupLoad, Slot, StartupNow, StepTime
  <2>3. PT_STARTUP \in LoadTime
    BY DEF LoadTime
  <2>4. Timely(plug[cursor], Load(plug[cursor], PT_STARTUP, e), PT_STARTUP)
    BY <1>0, <2>2, <2>3, LoadTimely, StaysTimely DEF Timely, Comes, Leaves, Stays
  <2> QED BY <1>0, <2>1, <2>2, <2>4, SlotTimed
<1>3. CASE IniStartupDone \/ StartupDone
  BY <1>3, StayTimed DEF IniStartupDone, StartupDone, Stays
<1> QED BY <1>1, <1>2, <1>3 DEF Startup

\* The console commands, except a forced unload.
LEMMA CommandTimed ==
  ASSUME IInv, stage # "down", Command
  PROVE  Timed \/ \E i \in Slot : CmdUnload(i, "PNL_CMD_FORCED")
<1>0. /\ plug \in [Slot -> Plugin] /\ last \in 0..MaxPlugins
      /\ \A i \in Slot : Sound(plug[i])
      /\ \A i \in Slot : i > last => plug[i].status = PL_EMPTY
      /\ PT_ANYTIME \in LoadTime
  BY DEF IInv, TypeOK, ListInv, LoadTime
<1>t. stage = "up" => StepTime = PT_ANYTIME
  BY DEF StepTime
<1>1. ASSUME NEW path \in Path, CmdLoad(path) PROVE Timed
  <2>1. PICK e \in Env : plug' = [plug EXCEPT ![last + 1] =
                                    Load(Added(path, "PS_CMD"), PT_ANYTIME, e)]
    BY <1>1 DEF CmdLoad
  <2>2. last < MaxPlugins /\ StepTime = PT_ANYTIME
    BY <1>1, <1>t DEF CmdLoad
  <2>3. ~plug[last + 1].attached
    BY <1>0, <2>2, BoundAssumption DEF Sound, Slot
  <2>4. /\ plug'[last + 1].attached => plug'[last + 1].info.loadable >= PT_ANYTIME
        /\ \A i \in Slot \ {last + 1} : plug'[i] = plug[i]
    BY <1>0, <2>1, <2>2, <2>3, LoadNewTimed DEF Source
  <2>5. \A i \in Slot \ {last + 1} : Timely(plug[i], plug'[i], PT_ANYTIME)
    BY <2>4, StaysTimely DEF Stays
  <2>6. Timely(plug[last + 1], plug'[last + 1], PT_ANYTIME)
    BY <2>3, <2>4 DEF Timely, Comes, Leaves
  <2> QED BY <2>2, <2>5, <2>6 DEF Timed
<1>2. ASSUME NEW i \in Slot, CmdUnload(i, "PNL_COMMAND") PROVE Timed
  <2> DEFINE p == Marked(plug[i], "PA_UNLOAD")
  <2>1. PICK e \in Env : plug' = [plug EXCEPT ![i] = Unload(p, PT_ANYTIME, "PNL_COMMAND", e)]
    BY <1>2 DEF CmdUnload, SetPlugin
  <2>2. p \in Plugin /\ Sound(p) /\ p.action = "PA_UNLOAD"
    BY <1>0, MarkedGood DEF Action
  <2>3. Stays(plug[i], p)
    BY <1>0, MarksStay
  <2> HIDE DEF p
  <2>4. Timely(p, Unload(p, PT_ANYTIME, "PNL_COMMAND", e), PT_ANYTIME)
    BY <1>0, <2>2, UnloadTimely
  <2>5. Timely(plug[i], Unload(p, PT_ANYTIME, "PNL_COMMAND", e), PT_ANYTIME)
    BY <2>3, <2>4 DEF Timely, Comes, Leaves, Stays
  <2>6. StepTime = PT_ANYTIME
    BY <1>2, <1>t DEF CmdUnload, SetPlugin
  <2> QED BY <1>0, <2>1, <2>5, <2>6, SlotTimed
<1>3. ASSUME NEW i \in Slot, CmdReload(i) PROVE Timed
  <2> DEFINE p == Marked(plug[i], "PA_RELOAD")
  <2>1. PICK e \in Env : plug' = [plug EXCEPT ![i] = Reload(p, PT_ANYTIME, "PNL_COMMAND", e)]
    BY <1>3 DEF CmdReload, SetPlugin
  <2>2. p \in Plugin /\ Sound(p) /\ p.action = "PA_RELOAD"
    BY <1>0, MarkedGood DEF Action
  <2>3. Stays(plug[i], p)
    BY <1>0, MarksStay
  <2> HIDE DEF p
  <2>4. Timely(p, Reload(p, PT_ANYTIME, "PNL_COMMAND", e), PT_ANYTIME)
    BY <1>0, <2>2, ReloadTimely
  <2>5. Timely(plug[i], Reload(p, PT_ANYTIME, "PNL_COMMAND", e), PT_ANYTIME)
    BY <2>3, <2>4 DEF Timely, Comes, Leaves, Stays
  <2>6. StepTime = PT_ANYTIME
    BY <1>3, <1>t DEF CmdReload, SetPlugin
  <2> QED BY <1>0, <2>1, <2>5, <2>6, SlotTimed
<1>4. ASSUME NEW i \in Slot, CmdRetry(i) PROVE Timed
  <2>1. PICK e \in Env :
          plug' = [plug EXCEPT ![i] = Retried(plug[i], PT_ANYTIME, "PNL_COMMAND", e)]
    BY <1>4 DEF CmdRetry, SetPlugin
  <2>2. Timely(plug[i], Retried(plug[i], PT_ANYTIME, "PNL_COMMAND", e), PT_ANYTIME)
    BY <1>0, RetriedTimely
  <2>3. StepTime = PT_ANYTIME
    BY <1>4, <1>t DEF CmdRetry, SetPlugin
  <2> QED BY <1>0, <2>1, <2>2, <2>3, SlotTimed
<1>5. ASSUME NEW i \in Slot, CmdClear(i) PROVE Timed
  <2>1. CASE Clearable(plug[i])
    <3>1. ~plug[i].attached /\ ~EmptySlot.attached
      BY <1>0, <2>1 DEF Clearable, Sound, EmptySlot, Added
    <3> QED BY <1>0, <1>5, <2>1, <3>1, StaysTimely, SlotTimed DEF CmdClear, SetPlugin, Clear
  <2>2. CASE ~Clearable(plug[i])
    BY <1>0, <1>5, <2>2, StaysTimely, SlotTimed DEF CmdClear, SetPlugin, Clear, Stays
  <2> QED BY <2>1, <2>2
<1>6. ASSUME NEW i \in Slot, CmdPause(i) \/ CmdUnpause(i) PROVE Timed
  <2>1. Stays(plug[i], Paused(plug[i])) /\ Stays(plug[i], Unpaused(plug[i]))
    BY <1>0, MarksStay
  <2> QED BY <1>0, <1>6, <2>1, StaysTimely, SlotTimed DEF CmdPause, CmdUnpause, SetPlugin
<1> QED BY <1>1, <1>2, <1>3, <1>4, <1>5, <1>6, Zenon DEF Command

\* The requests of plugins, at the load time they pass.
LEMMA RequestTimed ==
  ASSUME IInv, stage # "down", Request
  PROVE  \A i \in Slot : InTime(i)
<1>0. /\ plug \in [Slot -> Plugin] /\ last \in 0..MaxPlugins
      /\ \A i \in Slot : Sound(plug[i])
      /\ \A i \in Slot : i > last => plug[i].status = PL_EMPTY
  BY DEF IInv, TypeOK, ListInv
<1>1. ASSUME NEW caller \in Slot, NEW t \in RequestTimes, NEW path \in Path,
             PluginLoad(caller, path, t)
      PROVE  \A i \in Slot : InTime(i)
  <2>1. PICK e \in Env : plug' = [plug EXCEPT ![last + 1] =
                                    Load(Added(path, "PS_PLUGIN"), t, e)]
    BY <1>1 DEF PluginLoad
  <2>2. last < MaxPlugins /\ t \in LoadTime
    BY <1>1, TimesAssumption DEF PluginLoad
  <2>3. ~plug[last + 1].attached
    BY <1>0, <2>2, BoundAssumption DEF Sound, Slot
  <2>4. /\ plug'[last + 1].attached => plug'[last + 1].info.loadable >= t
        /\ \A i \in Slot \ {last + 1} : plug'[i] = plug[i]
    BY <1>0, <2>1, <2>2, <2>3, LoadNewTimed DEF Source
  <2>5. \A i \in Slot \ {last + 1} : Timely(plug[i], plug'[i], StepTime)
    BY <2>4, StaysTimely DEF Stays
  <2>6. ASSUME last + 1 \in Slot PROVE InTime(last + 1)
    BY <1>1, <2>3, <2>4, Zenon DEF InTime, Comes, Leaves
  <2> QED BY <2>5, <2>6, TimelyInTime
<1>2. ASSUME NEW caller \in Slot, NEW path \in Path, PluginLoadKnown(caller, path)
      PROVE  \A i \in Slot : InTime(i)
  BY <1>2, StayTimed, TimelyInTime DEF PluginLoadKnown, Stays, Timed
<1>3. ASSUME NEW caller \in Slot, NEW t \in RequestTimes, NEW i \in Slot,
             NEW reason \in RequestReason, PluginUnload(caller, i, t, reason)
      PROVE  \A j \in Slot : InTime(j)
  <2> DEFINE p == Marked(plug[i], "PA_UNLOAD")
             q(e) == IF Unloads(p, t, reason, e) THEN Unloaded(p) ELSE plug[i]
  <2>1. PICK e \in Env : plug' = [plug EXCEPT ![i] = q(e)]
    BY <1>3 DEF PluginUnload, SetPlugin
  <2>2. \A j \in Slot \ {i} : Timely(plug[j], plug'[j], StepTime)
    BY <1>0, <2>1, StaysTimely DEF Stays
  <2>3. InTime(i)
    <3>1. CASE ~Unloads(p, t, reason, e)
      BY <1>0, <2>1, <3>1, StaysTimely, TimelyInTime DEF Stays
    <3>2. CASE Unloads(p, t, reason, e)
      <4>1. p \in Plugin /\ Sound(p) /\ p.action = "PA_UNLOAD" /\ Stays(plug[i], p)
        BY <1>0, MarkedGood, MarksStay DEF Action
      <4>2. Unloaded(p) = EmptySlot /\ ~EmptySlot.attached
        BY <3>2, <4>1, UnloadedGood DEF Unloads, UnloadMarked, EmptySlot, Added
      <4>3. ~plug'[i].attached
        BY <1>0, <2>1, <3>2, <4>2
      <4>4. plug[i].attached => plug[i].info.unloadable >= t \/ reason = "PNL_CMD_FORCED"
        BY <3>2, <4>1, UnloadsTimely, TimesAssumption DEF Stays
      <4> QED BY <1>3, <4>3, <4>4, Zenon DEF InTime, Comes, Leaves
    <3> QED BY <3>1, <3>2
  <2> QED BY <2>2, <2>3, TimelyInTime
<1> QED BY <1>1, <1>2, <1>3 DEF Request

\* A refresh.
LEMMA RefreshTimed ==
  ASSUME IInv, stage # "down", RefreshStart \/ RefreshStep
  PROVE  Timed
<1>0. /\ plug \in [Slot -> Plugin] /\ last \in 0..MaxPlugins
      /\ cursor \in 1..(MaxPlugins + 1) /\ now \in LoadTime
      /\ \A i \in Slot : Sound(plug[i])
      /\ \A i \in Slot : i > last => plug[i].status = PL_EMPTY
      /\ ListInv
  BY DEF IInv, TypeOK, ListInv
<1>1. ASSUME NEW t, plug' = UnpausedAll(plug, t) PROVE Timed
  <2>1. \A i \in Slot : Stays(plug[i], Unpaused(plug[i])) /\ Stays(plug[i], plug[i])
    BY <1>0, MarksStay DEF Stays
  <2> QED BY <1>1, <2>1, StayTimed DEF UnpausedAll
<1>2. ASSUME RefreshStart PROVE Timed
  <2>1. ASSUME NEW t, RefreshNoIni(t) PROVE Timed
    BY <1>1, <2>1 DEF RefreshNoIni
  <2>2. ASSUME NEW t, NEW lines, RefreshBegin(t, lines) PROVE Timed
    BY <2>2, StayTimed DEF RefreshBegin, Stays
  <2> QED BY <1>2, <2>1, <2>2 DEF RefreshStart
<1>3. ASSUME NEW path \in Path, IniNewLine(path) PROVE Timed
  <2>1. PICK match \in Matches :
          IF Overrides(match) THEN Add(Overridden(match), path, "PS_INI")
                              ELSE UNCHANGED <<plug, last>>
    BY <1>3 DEF IniNewLine
  <2>2. CASE Overrides(match)
    <3>1. match \subseteq Slot
      BY <1>0, MatchInSlot
    <3>2. \A i \in match : ~plug[i].attached
      BY <1>0, <2>2, <3>1 DEF Overrides, Sound
    <3>3. \A i \in Slot : i > last => ~plug[i].attached
      BY <1>0 DEF Sound
    <3> QED BY <1>0, <2>1, <2>2, <3>2, <3>3, AddLineTimed
  <2>3. CASE ~Overrides(match)
    BY <2>1, <2>3, StayTimed DEF Stays
  <2> QED BY <2>2, <2>3
<1>4. ASSUME NEW i \in Slot, IniKnownLine(i) PROVE Timed
  <2>1. PICK stat \in BOOLEAN : plug' = [plug EXCEPT ![i] = IniKnown(plug[i], stat)]
    BY <1>4 DEF IniKnownLine
  <2>2. IniKnown(plug[i], stat) \in {plug[i], [plug[i] EXCEPT !.action = "PA_KEEP"],
                                     [plug[i] EXCEPT !.action = "PA_RELOAD"]}
    BY Zenon DEF IniKnown
  <2>3. Stays(plug[i], IniKnown(plug[i], stat))
    <3>1. \A action : Stays(plug[i], [plug[i] EXCEPT !.action = action])
      BY <1>0, MarksStay
    <3>2. Stays(plug[i], plug[i])
      BY DEF Stays
    <3> QED BY <2>2, <3>1, <3>2
  <2> QED BY <1>0, <2>1, <2>3, StaysTimely, SlotTimed
<1>5. ASSUME RefreshSlot PROVE Timed
  <2>1. PICK e \in Env : plug' = [plug EXCEPT ![cursor] = Refreshed(plug[cursor], now, e)]
    BY <1>5 DEF RefreshSlot
  <2>2. cursor \in Slot /\ StepTime = now
    BY <1>0, <1>5, BoundAssumption DEF RefreshSlot, Slot, StepTime
  <2>3. Timely(plug[cursor], Refreshed(plug[cursor], now, e), now)
    BY <1>0, <2>2, RefreshedTimely
  <2> QED BY <1>0, <2>1, <2>2, <2>3, SlotTimed
<1>6. ASSUME RefreshDone PROVE Timed
  BY <1>1, <1>6 DEF RefreshDone
<1>7. ASSUME IniRefreshDone PROVE Timed
  BY <1>7, StayTimed DEF IniRefreshDone, Stays
<1> QED BY <1>2, <1>3, <1>4, <1>5, <1>6, <1>7, Zenon DEF RefreshStep

\* The load time of the startup is PT_STARTUP until it is over.
LEMMA StartupNowHolds == Spec => []StartupNow
<1>1. Init => StartupNow
  BY DEF Init, StartupNow
<1>2. StartupNow /\ [Next]_vars => StartupNow'
  <2> SUFFICES ASSUME StartupNow, [Next]_vars PROVE StartupNow'
    OBVIOUS
  <2>1. CASE Startup
    BY <2>1 DEF StartupNow, Startup, IniStartupLine, IniStartupDone, StartupLoad, StartupDone, Serve
  <2>2. CASE Command
    BY <2>2 DEF StartupNow, Command, CmdLoad, CmdUnload, CmdReload, CmdRetry, CmdClear,
           CmdPause, CmdUnpause, SetPlugin
  <2>3. CASE Request
    BY <2>3 DEF StartupNow, Request, PluginLoad, PluginLoadKnown, PluginUnload, SetPlugin
  <2>4. CASE RefreshStart
    BY <2>4 DEF StartupNow, RefreshStart, RefreshNoIni, RefreshBegin
  <2>5. CASE RefreshStep
    BY <2>5 DEF StartupNow, RefreshStep, IniNewLine, IniKnownLine, IniRefreshDone,
           RefreshSlot, RefreshDone, Serve
  <2>6. CASE GameShutdown \/ \E path \in Path : FileUpdated(path)
    BY <2>6 DEF StartupNow, GameShutdown, FileUpdated
  <2>7. CASE UNCHANGED vars
    BY <2>7 DEF StartupNow, vars
  <2> QED BY <2>1, <2>2, <2>3, <2>4, <2>5, <2>6, <2>7 DEF Next
<1> QED BY <1>1, <1>2, PTL DEF Spec

\* Plugins come and go at a time they allow, in every step of the list and of
\* every other plugin's request; what is forced is the exception.
THEOREM AllowedTimesHolds == Spec => AllowedTimes
<1> DEFINE InTimes == \A i \in Slot : InTime(i)
<1>1. ASSUME Timed PROVE InTimes
  BY <1>1, TimelyInTime DEF Timed
<1>2. ASSUME IInv, stage # "down", NEW i \in Slot, CmdUnload(i, "PNL_CMD_FORCED")
      PROVE  InTimes
  <2> DEFINE p == Marked(plug[i], "PA_UNLOAD")
  <2>1. PICK e \in Env : plug' = [plug EXCEPT ![i] = Unload(p, PT_ANYTIME, "PNL_CMD_FORCED", e)]
    BY <1>2 DEF CmdUnload, SetPlugin
  <2>2. plug \in [Slot -> Plugin] /\ Sound(plug[i])
    BY <1>2 DEF IInv, TypeOK, ListInv
  <2>3. \A j \in Slot \ {i} : Timely(plug[j], plug'[j], StepTime)
    BY <2>1, <2>2, StaysTimely DEF Stays
  <2>4. p \in Plugin /\ Sound(p) /\ p.action = "PA_UNLOAD" /\ Stays(plug[i], p)
    BY <2>2, MarkedGood, MarksStay DEF Action
  <2> DEFINE q == Unload(p, PT_ANYTIME, "PNL_CMD_FORCED", e)
  <2>5. ~q.attached \/ Stays(p, q)
    <3>1. CASE Unloads(p, PT_ANYTIME, "PNL_CMD_FORCED", e)
      BY <2>4, <3>1, UnloadedGood DEF Unload, Unloads, UnloadMarked, EmptySlot, Added
    <3>2. CASE ~Unloads(p, PT_ANYTIME, "PNL_CMD_FORCED", e)
      BY <2>4, <3>2, MarksStay DEF Unload
    <3> QED BY <3>1, <3>2
  <2>6. plug'[i] = q
    BY <2>1, <2>2
  <2>7. ~Comes(plug[i], plug'[i])
    BY <2>4, <2>5, <2>6 DEF Stays, Comes
  <2>8. InTime(i)
    BY <1>2, <2>7, Zenon DEF InTime
  <2> QED BY <2>3, <2>8, TimelyInTime
<1>3. ASSUME IInv, GameShutdown PROVE InTimes
  <2>1. plug \in [Slot -> Plugin] /\ \A i \in Slot : Sound(plug[i])
    BY <1>3 DEF IInv, TypeOK, ListInv, GameShutdown
  <2>2. ASSUME NEW i \in Slot PROVE ~Comes(plug[i], plug'[i])
    <3>1. CASE UNCHANGED plug
      BY <3>1 DEF Comes
    <3>2. ASSUME NEW e \in Env,
                 plug' = [j \in Slot |-> Unload(plug[j], PT_ANYTIME, "PNL_CMD_FORCED", e)]
          PROVE  ~Comes(plug[i], plug'[i])
      <4> DEFINE p == plug[i]
                 q == Unload(p, PT_ANYTIME, "PNL_CMD_FORCED", e)
      <4>1. p \in Plugin /\ plug'[i] = q
        BY <2>1, <3>2
      <4>2. ~q.attached \/ Stays(p, q)
        <5>1. CASE Unloads(p, PT_ANYTIME, "PNL_CMD_FORCED", e)
          <6>1. ~Unloaded(p).attached
            BY <4>1 DEF Unloaded, Clear, EmptySlot, Added, Plugin
          <6> QED BY <5>1, <6>1 DEF Unload
        <5>2. CASE ~Unloads(p, PT_ANYTIME, "PNL_CMD_FORCED", e)
          BY <4>1, <5>2, MarksStay DEF Unload
        <5> QED BY <5>1, <5>2
      <4> QED BY <4>1, <4>2 DEF Comes, Stays
    <3> QED BY <1>3, <3>1, <3>2 DEF GameShutdown
  <2> QED BY <1>3, <2>2, Zenon DEF InTime
<1>4. ASSUME IInv, NEW path \in Path, FileUpdated(path) PROVE InTimes
  <2>1. plug \in [Slot -> Plugin]
    BY <1>4 DEF IInv, TypeOK
  <2>2. \A i \in Slot : Stays(plug[i], [plug[i] EXCEPT !.newer = TRUE]) /\ Stays(plug[i], plug[i])
    BY <2>1, MarksStay DEF Stays
  <2>3. \A i \in Slot : Stays(plug[i], plug'[i])
    BY <1>4, <2>2 DEF FileUpdated
  <2> QED BY <1>1, <2>3, StayTimed
<1>5. IInv /\ StartupNow /\ [Next]_vars => [InTimes]_vars
  <2> SUFFICES ASSUME IInv, StartupNow, Next PROVE InTimes
    OBVIOUS
  <2>1. CASE stage = "down"
    BY <2>1 DEF Next, Startup, IniStartupLine, IniStartupDone, StartupLoad, StartupDone,
           Command, CmdLoad, CmdUnload, CmdReload, CmdRetry, CmdClear, CmdPause, CmdUnpause,
           SetPlugin, Request, PluginLoad, PluginLoadKnown, PluginUnload, RefreshStart,
           RefreshNoIni, RefreshBegin, RefreshStep, IniNewLine, IniKnownLine, IniRefreshDone,
           RefreshSlot, RefreshDone, FileUpdated, GameShutdown
  <2>2. CASE stage # "down"
    <3>1. CASE Startup
      BY <1>1, <2>2, <3>1, StartupTimed
    <3>2. CASE Command
      BY <1>1, <1>2, <2>2, <3>2, CommandTimed
    <3>3. CASE Request
      BY <2>2, <3>3, RequestTimed
    <3>4. CASE RefreshStart \/ RefreshStep
      BY <1>1, <2>2, <3>4, RefreshTimed
    <3>5. CASE GameShutdown \/ \E path \in Path : FileUpdated(path)
      BY <1>3, <1>4, <3>5
    <3> QED BY <3>1, <3>2, <3>3, <3>4, <3>5 DEF Next
  <2> QED BY <2>1, <2>2
<1> QED BY <1>5, Invariance, StartupNowHolds, PTL DEF Spec, AllowedTimes

----------------------------------------------------------------------------
(* Callbacks and delayed loads.                                            *)

\* A plugin that runs, or is paused, and has no callbacks.
Unhooked(i) == stage = "up" /\ plug[i].status >= PL_RUNNING /\ i \notin hooked

\* A step on slot i with the rebuild of unload() unhooks nobody else.
LEMMA OthersHooked ==
  ASSUME ListInv, NEW i \in Slot, NEW q, NEW unloads, NEW u,
         plug' = [plug EXCEPT ![i] = q], RebuildIf(unloads, i, u), stage = "up",
         NEW j \in Slot \ {i}, Unhooked(j)'
  PROVE  Unhooked(j)
<1>1. plug'[j] = plug[j]
  BY DEF ListInv
<1>2. CASE unloads
  <2>1. j \in Rebuilt([plug EXCEPT ![i] = Unloaded(u)])
    BY <1>1 DEF Unhooked, Rebuilt, ListInv
  <2> QED BY <1>2, <2>1 DEF RebuildIf, Unhooked
<1>3. CASE ~unloads
  BY <1>1, <1>3 DEF RebuildIf, Unhooked
<1> QED BY <1>2, <1>3

\* A plugin that is not unloaded keeps what it has, if it was running.
LEMMA SlotHooked ==
  ASSUME ListInv, NEW i \in Slot, NEW q, plug' = [plug EXCEPT ![i] = q],
         q.status >= PL_RUNNING => plug[i].status >= PL_RUNNING,
         UNCHANGED hooked, stage = "up", NEW j \in Slot, Unhooked(j)'
  PROVE  Unhooked(j)
BY DEF Unhooked, ListInv

\* load() of a new plugin rebuilds when the plugin runs.
LEMMA LoadNewHooked ==
  ASSUME ListInv, last < MaxPlugins, NEW path \in Path, NEW source \in Source,
         NEW t \in LoadTime, NEW e \in Env,
         LET p == Load(Added(path, source), t, e)
         IN /\ plug' = [plug EXCEPT ![last + 1] = p]
            /\ hooked' = IF p.status = PL_RUNNING THEN Rebuilt(plug') ELSE hooked,
         stage = "up", NEW j \in Slot, Unhooked(j)'
  PROVE  Unhooked(j)
<1> DEFINE a == Added(path, source)
           p == Load(a, t, e)
<1>0. last + 1 \in Slot
  BY BoundAssumption DEF ListInv, Slot
<1>1. a \in Plugin /\ Sound(a) /\ a.status = PL_VALID
  BY AddedGood DEF Added
<1>2. p.status >= PL_RUNNING => p.status = PL_RUNNING
  <2> DEFINE q == Queried(a, e)
  <2> HIDE DEF a
  <2>1. Loadable(a) => /\ q \in Plugin
                       /\ q.status \in {PL_BADFILE, PL_OPENED, PL_FAILED}
    BY <1>1, QueriedGood
  <2>2. p \in {a, q, Attached(q, t, e)} /\ (p # a => Loadable(a))
    BY DEF Load
  <2>3. ASSUME Loadable(a) PROVE Attached(q, t, e).status \in {q.status, PL_RUNNING, PL_FAILED}
    <3>1. q \in Plugin
      BY <2>1, <2>3
    <3> HIDE DEF q
    <3> QED BY <3>1 DEF Attached, Plugin
  <2> QED BY <1>1, <2>1, <2>2, <2>3
<1> HIDE DEF p
<1>3. /\ plug' = [plug EXCEPT ![last + 1] = p]
      /\ hooked' = IF p.status = PL_RUNNING THEN Rebuilt(plug') ELSE hooked
  BY DEF p
<1>4. CASE p.status = PL_RUNNING
  BY <1>3, <1>4 DEF Unhooked, Rebuilt
<1>5. CASE p.status # PL_RUNNING
  BY <1>0, <1>2, <1>3, <1>5, SlotHooked
<1> QED BY <1>4, <1>5

\* Only reload() and the load() of a retry attach a plugin and leave it
\* without its callbacks: every other step of the server that ends with a
\* running plugin unhooked found it so.
THEOREM UnhookedByReload ==
  Spec => [][\A i \in Slot : Unhooked(i)' => Unhooked(i) \/ CmdReload(i) \/ CmdRetry(i)]_vars
<1> DEFINE Kept == \A i \in Slot : Unhooked(i)' => Unhooked(i) \/ CmdReload(i) \/ CmdRetry(i)
<1>1. ASSUME ListInv, stage = "up", Command PROVE Kept
  <2>1. ASSUME NEW path \in Path, CmdLoad(path), NEW j \in Slot, Unhooked(j)' PROVE Unhooked(j)
    <3>1. PICK e \in Env :
            LET p == Load(Added(path, "PS_CMD"), PT_ANYTIME, e)
            IN /\ plug' = [plug EXCEPT ![last + 1] = p]
               /\ hooked' = IF p.status = PL_RUNNING THEN Rebuilt(plug') ELSE hooked
      BY <2>1 DEF CmdLoad
    <3>2. last < MaxPlugins /\ "PS_CMD" \in Source /\ PT_ANYTIME \in LoadTime
      BY <2>1 DEF CmdLoad, Source, LoadTime
    <3> QED BY <1>1, <2>1, <3>1, <3>2, LoadNewHooked
  <2>2. ASSUME NEW i \in Slot, NEW reason, CmdUnload(i, reason), NEW j \in Slot, Unhooked(j)'
        PROVE  Unhooked(j)
    <3> DEFINE p == Marked(plug[i], "PA_UNLOAD")
               unloads(e) == Unloads(p, PT_ANYTIME, reason, e)
    <3>1. PICK e \in Env : /\ plug' = [plug EXCEPT ![i] = Unload(p, PT_ANYTIME, reason, e)]
                           /\ RebuildIf(unloads(e), i, p)
      BY <2>2 DEF CmdUnload, SetPlugin
    <3>2. plug[i] \in Plugin /\ p \in Plugin /\ p.status = plug[i].status
      BY <1>1, MarkedGood DEF ListInv, Action
    <3>3. CASE j # i
      BY <1>1, <2>2, <3>1, <3>3, OthersHooked
    <3>4. CASE j = i /\ unloads(e)
      <4>1. /\ plug' = [plug EXCEPT ![i] = Unloaded(p)]
            /\ hooked' = Rebuilt([plug EXCEPT ![i] = Unloaded(p)])
        BY <3>1, <3>4 DEF Unload, RebuildIf
      <4>2. hooked' = Rebuilt(plug')
        BY <4>1
      <4> QED BY <2>2, <4>2 DEF Unhooked, Rebuilt
    <3>5. CASE j = i /\ ~unloads(e)
      <4>1. Unload(p, PT_ANYTIME, reason, e).status = plug[i].status /\ hooked' = hooked
        BY <3>1, <3>2, <3>5, UnloadRefusedGood DEF Unload, RebuildIf
      <4> QED BY <1>1, <2>2, <3>1, <4>1, SlotHooked
    <3> QED BY <3>3, <3>4, <3>5
  <2>3. ASSUME NEW i \in Slot, CmdReload(i), NEW j \in Slot \ {i}, Unhooked(j)' PROVE Unhooked(j)
    <3> DEFINE p == Marked(plug[i], "PA_RELOAD")
    <3>1. PICK e \in Env :
            /\ plug' = [plug EXCEPT ![i] = Reload(p, PT_ANYTIME, "PNL_COMMAND", e)]
            /\ RebuildIf(ReloadUnloads(p, PT_ANYTIME, "PNL_COMMAND", e), i, p)
      BY <2>3 DEF CmdReload, SetPlugin
    <3> QED BY <1>1, <2>3, <3>1, OthersHooked
  <2>4. ASSUME NEW i \in Slot, CmdRetry(i), NEW j \in Slot \ {i}, Unhooked(j)' PROVE Unhooked(j)
    <3>1. PICK e \in Env :
            /\ plug' = [plug EXCEPT ![i] = Retried(plug[i], PT_ANYTIME, "PNL_COMMAND", e)]
            /\ RebuildIf(RetryUnloads(plug[i], PT_ANYTIME, "PNL_COMMAND", e), i, plug[i])
      BY <2>4 DEF CmdRetry, SetPlugin
    <3> QED BY <1>1, <2>4, <3>1, OthersHooked
  <2>5. ASSUME NEW i \in Slot, CmdClear(i) \/ CmdPause(i) \/ CmdUnpause(i), NEW j \in Slot,
               Unhooked(j)'
        PROVE  Unhooked(j)
    <3> DEFINE Follows(q) == q.status >= PL_RUNNING => plug[i].status >= PL_RUNNING
    <3>1. Follows(Clear(plug[i])) /\ Follows(Paused(plug[i])) /\ Follows(Unpaused(plug[i]))
      BY <1>1, EmptyGood, UnpausedGood DEF ListInv, Clear, Paused, Plugin
    <3>2. PICK q \in {Clear(plug[i]), Paused(plug[i]), Unpaused(plug[i])} :
            plug' = [plug EXCEPT ![i] = q] /\ hooked' = hooked
      BY <2>5 DEF CmdClear, CmdPause, CmdUnpause, SetPlugin
    <3>3. Follows(q)
      BY <3>1, <3>2
    <3> QED BY <1>1, <2>5, <3>2, <3>3, SlotHooked
  <2> QED BY <1>1, <2>1, <2>2, <2>3, <2>4, <2>5, Zenon DEF Command
<1>2. ASSUME ListInv, stage = "up", Request PROVE Kept
  <2>1. ASSUME NEW caller, NEW path \in Path, NEW t \in RequestTimes, PluginLoad(caller, path, t),
               NEW j \in Slot, Unhooked(j)'
        PROVE  Unhooked(j)
    <3>1. PICK e \in Env :
            LET p == Load(Added(path, "PS_PLUGIN"), t, e)
            IN /\ plug' = [plug EXCEPT ![last + 1] = p]
               /\ hooked' = IF p.status = PL_RUNNING THEN Rebuilt(plug') ELSE hooked
      BY <2>1 DEF PluginLoad
    <3>2. last < MaxPlugins /\ "PS_PLUGIN" \in Source /\ t \in LoadTime
      BY <2>1, TimesAssumption DEF PluginLoad, Source
    <3> QED BY <1>2, <2>1, <3>1, <3>2, LoadNewHooked
  <2>2. ASSUME NEW caller, NEW path, PluginLoadKnown(caller, path), NEW j \in Slot, Unhooked(j)'
        PROVE  Unhooked(j)
    BY <2>2 DEF PluginLoadKnown, Unhooked, Rebuilt
  <2>3. ASSUME NEW caller, NEW t, NEW i \in Slot, NEW reason, PluginUnload(caller, i, t, reason),
               NEW j \in Slot, Unhooked(j)'
        PROVE  Unhooked(j)
    <3> DEFINE p == Marked(plug[i], "PA_UNLOAD")
               unloads(e) == Unloads(p, t, reason, e)
    <3>1. PICK e \in Env :
            /\ plug' = [plug EXCEPT ![i] = IF unloads(e) THEN Unloaded(p) ELSE plug[i]]
            /\ RebuildIf(unloads(e), i, p)
      BY <2>3 DEF PluginUnload, SetPlugin
    <3>2. CASE unloads(e)
      <4>1. hooked' = Rebuilt(plug')
        BY <3>1, <3>2 DEF RebuildIf
      <4> QED BY <2>3, <4>1 DEF Unhooked, Rebuilt
    <3>3. CASE ~unloads(e)
      BY <1>2, <2>3, <3>1, <3>3 DEF RebuildIf, Unhooked, ListInv
    <3> QED BY <3>2, <3>3
  <2> QED BY <1>2, <2>1, <2>2, <2>3, Zenon DEF Request
<1>3. ASSUME ListInv, RefreshStart \/ RefreshStep \/ Startup PROVE Kept
  <2>1. ASSUME NEW t, NEW j \in Slot
        PROVE  UnpausedAll(plug, t)[j].status >= PL_RUNNING <=> plug[j].status >= PL_RUNNING
    BY <1>3, UnpausedGood DEF ListInv, UnpausedAll
  <2>2. ASSUME NEW t, RefreshNoIni(t) PROVE Kept
    BY <2>1, <2>2 DEF RefreshNoIni, Unhooked
  <2>3. CASE RefreshDone
    BY <2>1, <2>3 DEF RefreshDone, Unhooked, Rebuilt
  <2>4. CASE StartupDone
    BY <2>4 DEF StartupDone, Unhooked, Rebuilt
  <2>5. ASSUME NEW t, NEW lines, RefreshBegin(t, lines) PROVE Kept
    BY <2>5 DEF RefreshBegin, Unhooked
  <2>6. ASSUME NEW path, IniNewLine(path) \/ IniStartupLine(path) PROVE Kept
    BY <2>6 DEF IniNewLine, IniStartupLine, Unhooked
  <2>7. ASSUME NEW i, IniKnownLine(i) PROVE Kept
    BY <2>7 DEF IniKnownLine, Unhooked
  <2>8. CASE RefreshSlot \/ StartupLoad \/ IniRefreshDone \/ IniStartupDone
    BY <2>8 DEF RefreshSlot, StartupLoad, IniRefreshDone, IniStartupDone, Unhooked
  <2> QED BY <1>3, <2>2, <2>3, <2>4, <2>5, <2>6, <2>7, <2>8
          DEF RefreshStart, RefreshStep, Startup
<1>4. ASSUME ListInv, NEW path, FileUpdated(path) PROVE Kept
  <2>1. \A j \in Slot : plug'[j].status = plug[j].status
    BY <1>4 DEF FileUpdated, ListInv, Plugin
  <2> QED BY <1>4, <2>1 DEF FileUpdated, Unhooked
<1>5. ASSUME GameShutdown PROVE Kept
  BY <1>5 DEF GameShutdown, Unhooked
<1>6. IInv /\ [Next]_vars => [Kept]_vars
  <2> SUFFICES ASSUME IInv, Next, stage' = "up" PROVE Kept
    BY DEF Unhooked
  <2>1. stage # "down"
    BY DEF Next, Startup, IniStartupLine, IniStartupDone, StartupLoad, StartupDone,
           Command, CmdLoad, CmdUnload, CmdReload, CmdRetry, CmdClear, CmdPause, CmdUnpause,
           SetPlugin, Request, PluginLoad, PluginLoadKnown, PluginUnload, RefreshStart,
           RefreshNoIni, RefreshBegin, RefreshStep, IniNewLine, IniKnownLine, IniRefreshDone,
           RefreshSlot, RefreshDone, FileUpdated, GameShutdown
  <2>2. ListInv
    BY <2>1 DEF IInv
  <2>3. Command \/ Request => stage = "up"
    BY DEF Command, CmdLoad, CmdUnload, CmdReload, CmdRetry, CmdClear, CmdPause, CmdUnpause,
           SetPlugin, Request, PluginLoad, PluginLoadKnown, PluginUnload
  <2> QED BY <1>1, <1>2, <1>3, <1>4, <1>5, <2>2, <2>3 DEF Next
<1> QED BY <1>6, Invariance, PTL DEF Spec

\* A load that was put off is decided by the first refresh at a change of
\* level that reaches the plugin: it is attached or has failed, and is not put
\* off again.
THEOREM DelayedLoadDecided ==
  Spec => [][RefreshSlot /\ now = PT_CHANGELEVEL
               /\ plug[cursor].promise = "PA_LOAD" /\ plug[cursor].action = "PA_LOAD"
             => /\ plug'[cursor].promise = "PA_NONE"
                /\ plug'[cursor].status \in {PL_RUNNING, PL_FAILED}]_vars
<1> DEFINE Decided == RefreshSlot /\ now = PT_CHANGELEVEL
                        /\ plug[cursor].promise = "PA_LOAD" /\ plug[cursor].action = "PA_LOAD"
                      => /\ plug'[cursor].promise = "PA_NONE"
                         /\ plug'[cursor].status \in {PL_RUNNING, PL_FAILED}
<1>1. IInv => Decided
  <2> SUFFICES ASSUME IInv, RefreshSlot, now = PT_CHANGELEVEL,
                      plug[cursor].promise = "PA_LOAD", plug[cursor].action = "PA_LOAD"
               PROVE  /\ plug'[cursor].promise = "PA_NONE"
                      /\ plug'[cursor].status \in {PL_RUNNING, PL_FAILED}
    OBVIOUS
  <2>1. cursor \in Slot /\ plug \in [Slot -> Plugin] /\ Sound(plug[cursor])
    BY BoundAssumption DEF IInv, TypeOK, ListInv, RefreshSlot, Slot
  <2>2. PICK e \in Env : plug' = [plug EXCEPT ![cursor] = Refreshed(plug[cursor], PT_CHANGELEVEL, e)]
    BY DEF RefreshSlot
  <2> DEFINE p == plug[cursor]
  <2>3. p \in Plugin /\ Sound(p) /\ p.promise = "PA_LOAD" /\ p.action = "PA_LOAD"
    BY <2>1
  <2> HIDE DEF p
  <2>4. p.open /\ p.info.loadable > PT_STARTUP /\ p.status \in {PL_OPENED, PL_FAILED}
    BY <2>3 DEF Sound, Plugin, Status
  <2>5. p.info.loadable \in LoadTime
    BY <2>3, <2>4, AttachedInfo
  <2>6. Refreshed(p, PT_CHANGELEVEL, e) = Load(p, PT_CHANGELEVEL, e)
    BY <2>3, <2>4 DEF Refreshed, Deleted
  <2>7. Load(p, PT_CHANGELEVEL, e) = Attached(p, PT_CHANGELEVEL, e)
    BY <2>3, <2>4 DEF Load, Loadable, Queried
  <2>8. ~(p.info.loadable < PT_CHANGELEVEL)
    BY <2>4, <2>5 DEF LoadTime
  <2>9. /\ Attached(p, PT_CHANGELEVEL, e).promise = "PA_NONE"
        /\ Attached(p, PT_CHANGELEVEL, e).status \in {PL_RUNNING, PL_FAILED}
    BY <2>3, <2>8 DEF Attached, Plugin
  <2> QED BY <2>1, <2>2, <2>6, <2>7, <2>9 DEF p
<1> QED BY <1>1, Invariance, PTL DEF Spec
=============================================================================
