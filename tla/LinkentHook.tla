------------------------------ MODULE LinkentHook ------------------------------
(***************************************************************************)
(* The hook on dlsym that makes the game DLL's entities look like exports  *)
(* of Metamod-R (osdep_linkent_linux.cpp).  A jump to __replacement_dlsym  *)
(* is written over the first bytes of dlsym.  The replacement takes a      *)
(* mutex, puts the original bytes back while it calls the original, and    *)
(* then writes the jump again.  Any thread of the process may call dlsym.  *)
(*                                                                         *)
(* A memcpy over the bytes takes two steps, because a thread that calls    *)
(* dlsym in between runs whatever is there: the process goes astray, and   *)
(* nothing is said of it any more.  A call of the original function by the *)
(* original itself finds the original bytes (OriginalInPlace) and does not *)
(* touch the state, so it is not a step.                                   *)
(*                                                                         *)
(* The original is taken to return.  The lock of the dynamic loader, which *)
(* it takes inside the C library, is not modelled, nor is a thread that    *)
(* holds it in dlopen while it waits here for the mutex.                   *)
(***************************************************************************)
EXTENDS Integers

CONSTANTS
  Thread,  \* the threads of the server process
  Server,  \* the one that runs Metamod: it installs the hook and removes it
  None     \* no thread

ASSUME ThreadAssumption == Server \in Thread /\ None \notin Thread

\* What is asked for: a function of the metamod module that it has, one that
\* only the game DLL has, a function of another module; "shutdown" stands for
\* meta_shutdown_linkent_replacement, which takes the same first steps.
Lookup == {"own", "game", "other"}
Kind   == Lookup \cup {"shutdown"}

\* What dlsym_original finds, in the module it is given.
Original  == [own |-> "metamod", game |-> "nothing", other |-> "elsewhere"]
Found     == {"pending", "metamod", "game", "elsewhere", "nothing"}

\* Where a thread is: outside (idle, done), in the replacement before the
\* mutex (entered, lock), or holding it.
Critical == {"locked", "restoring", "old", "lookup", "fallback", "looked",
             "resetting", "new", "unlock"}
PC       == {"idle", "installing", "entered", "lock", "done"} \cup Critical

VARIABLES
  bytes,    \* the first bytes of dlsym: "old", "new" (the jump) or "torn"
  restored, \* is_original_restored
  mutex,    \* holder of mutex_replacement_dlsym
  phase,    \* "before" the hook is installed, "on", "over" after the shutdown
  pc,       \* of each thread
  was,      \* was_original_restored of each thread
  kind,     \* what each thread's call is for
  found,    \* what it has found
  astray    \* a thread has run bytes that were being written

vars == <<bytes, restored, mutex, phase, pc, was, kind, found, astray>>

Init ==
  /\ bytes = "old"
  /\ restored = FALSE
  /\ mutex = None
  /\ phase = "before"
  /\ pc = [t \in Thread |-> "idle"]
  /\ was = [t \in Thread |-> FALSE]
  /\ kind = [t \in Thread |-> "own"]
  /\ found = [t \in Thread |-> "pending"]
  /\ astray = FALSE

Goes(t, from, to) == ~astray /\ pc[t] = from /\ pc' = [pc EXCEPT ![t] = to]

----------------------------------------------------------------------------
(* A thread calls dlsym, and gets its result.                              *)

Asks(t, k) == kind' = [kind EXCEPT ![t] = k]

\* The jump is there.
CallHooked(t, k) ==
  /\ bytes = "new"
  /\ Goes(t, "idle", "entered")
  /\ Asks(t, k)
  /\ UNCHANGED <<bytes, restored, mutex, phase, was, found, astray>>

\* The original bytes are there: nothing of Metamod runs.
CallDirect(t, k) ==
  /\ bytes = "old"
  /\ Goes(t, "idle", "done")
  /\ Asks(t, k)
  /\ found' = [found EXCEPT ![t] = Original[k]]
  /\ UNCHANGED <<bytes, restored, mutex, phase, was, astray>>

CallTorn(t) ==
  /\ bytes = "torn"
  /\ pc[t] = "idle"
  /\ astray' = TRUE
  /\ UNCHANGED <<bytes, restored, mutex, phase, pc, was, kind, found>>

Return(t) ==
  /\ Goes(t, "done", "idle")
  /\ found' = [found EXCEPT ![t] = "pending"]
  /\ was' = [was EXCEPT ![t] = FALSE]
  /\ UNCHANGED <<bytes, restored, mutex, phase, kind, astray>>

----------------------------------------------------------------------------
(* __replacement_dlsym.                                                    *)

\* was_original_restored = is_original_restored, before the mutex is taken.
ReadFlag(t) ==
  /\ Goes(t, "entered", "lock")
  /\ was' = [was EXCEPT ![t] = restored]
  /\ UNCHANGED <<bytes, restored, mutex, phase, kind, found, astray>>

\* Mutant: the mutex is not taken.
LockIgnored(t) ==
  /\ Goes(t, "lock", "locked")
  /\ mutex' = t
  /\ UNCHANGED <<bytes, restored, phase, was, kind, found, astray>>

Lock(t) ==
  /\ mutex = None
  /\ Goes(t, "lock", "locked")
  /\ mutex' = t
  /\ UNCHANGED <<bytes, restored, phase, was, kind, found, astray>>

\* Where a thread goes once the original bytes are in place.
Onward(t) == IF kind[t] = "shutdown" THEN "unlock" ELSE "lookup"

\* The bytes need not be restored.
SkipRestore(t) ==
  /\ restored
  /\ Goes(t, "locked", Onward(t))
  /\ UNCHANGED <<bytes, restored, mutex, phase, was, kind, found, astray>>

\* restore_original_dlsym, in two steps, and is_original_restored = 1.
RestoreBegin(t) ==
  /\ ~restored
  /\ Goes(t, "locked", "restoring")
  /\ bytes' = "torn"
  /\ UNCHANGED <<restored, mutex, phase, was, kind, found, astray>>

RestoreEnd(t) ==
  /\ Goes(t, "restoring", "old")
  /\ bytes' = "old"
  /\ UNCHANGED <<restored, mutex, phase, was, kind, found, astray>>

\* Mutant: the flag is not set.
MarkNothing(t) ==
  /\ Goes(t, "old", Onward(t))
  /\ UNCHANGED <<bytes, restored, mutex, phase, was, kind, found, astray>>

\* Mutant: was_original_restored is read after the original is restored.
MarkRestoredThenRead(t) ==
  /\ Goes(t, "old", Onward(t))
  /\ restored' = TRUE
  /\ was' = [was EXCEPT ![t] = TRUE]
  /\ UNCHANGED <<bytes, mutex, phase, kind, found, astray>>

MarkRestored(t) ==
  /\ Goes(t, "old", Onward(t))
  /\ restored' = TRUE
  /\ UNCHANGED <<bytes, mutex, phase, was, kind, found, astray>>

\* Mutant: the game DLL is not asked.
CallOriginalOnly(t) ==
  /\ Goes(t, "lookup", "looked")
  /\ found' = [found EXCEPT ![t] = Original[kind[t]]]
  /\ UNCHANGED <<bytes, restored, mutex, phase, was, kind, astray>>

\* dlsym_original; what is not in the metamod module is looked for again.
CallOriginal(t) ==
  /\ Goes(t, "lookup", IF kind[t] = "game" THEN "fallback" ELSE "looked")
  /\ found' = [found EXCEPT ![t] = Original[kind[t]]]
  /\ UNCHANGED <<bytes, restored, mutex, phase, was, kind, astray>>

CallGame(t) ==
  /\ Goes(t, "fallback", "looked")
  /\ found' = [found EXCEPT ![t] = "game"]
  /\ UNCHANGED <<bytes, restored, mutex, phase, was, kind, astray>>

SkipReset(t) ==
  /\ was[t]
  /\ Goes(t, "looked", "unlock")
  /\ UNCHANGED <<bytes, restored, mutex, phase, was, kind, found, astray>>

\* reset_dlsym_hook, in two steps, and is_original_restored = 0.
ResetBegin(t) ==
  /\ ~was[t]
  /\ Goes(t, "looked", "resetting")
  /\ bytes' = "torn"
  /\ UNCHANGED <<restored, mutex, phase, was, kind, found, astray>>

\* Mutant: the jump is built for another place.
ResetEndMisplaced(t) ==
  /\ Goes(t, "resetting", "new")
  /\ bytes' = "misplaced"
  /\ UNCHANGED <<restored, mutex, phase, was, kind, found, astray>>

ResetEnd(t) ==
  /\ Goes(t, "resetting", "new")
  /\ bytes' = "new"
  /\ UNCHANGED <<restored, mutex, phase, was, kind, found, astray>>

MarkReset(t) ==
  /\ Goes(t, "new", "unlock")
  /\ restored' = FALSE
  /\ UNCHANGED <<bytes, mutex, phase, was, kind, found, astray>>

\* Mutant: a call that finds the original restored returns with the mutex.
UnlockUnlessSkipped(t) ==
  /\ Goes(t, "unlock", "done")
  /\ mutex' = IF was[t] THEN mutex ELSE None
  /\ phase' = IF kind[t] = "shutdown" THEN "over" ELSE phase
  /\ UNCHANGED <<bytes, restored, was, kind, found, astray>>

Unlock(t) ==
  /\ Goes(t, "unlock", "done")
  /\ mutex' = None
  /\ phase' = IF kind[t] = "shutdown" THEN "over" ELSE phase
  /\ UNCHANGED <<bytes, restored, was, kind, found, astray>>

----------------------------------------------------------------------------
(* The server thread.                                                      *)

\* meta_init_linkent_replacement: reset_dlsym_hook, without the mutex.
InstallBegin ==
  /\ phase = "before"
  /\ Goes(Server, "idle", "installing")
  /\ bytes' = "torn"
  /\ UNCHANGED <<restored, mutex, phase, was, kind, found, astray>>

InstallEnd ==
  /\ Goes(Server, "installing", "done")
  /\ bytes' = "new"
  /\ phase' = "on"
  /\ UNCHANGED <<restored, mutex, was, kind, found, astray>>

\* meta_shutdown_linkent_replacement, called by Server_GetPhysicsInterface.
Shutdown ==
  /\ phase = "on"
  /\ Goes(Server, "idle", "lock")
  /\ Asks(Server, "shutdown")
  /\ UNCHANGED <<bytes, restored, mutex, phase, was, found, astray>>

\* The steps of a call that has begun.
Proceed(t) ==
  \/ ReadFlag(t)
  \/ Lock(t)
  \/ SkipRestore(t)
  \/ RestoreBegin(t)
  \/ RestoreEnd(t)
  \/ MarkRestored(t)
  \/ CallOriginal(t)
  \/ CallGame(t)
  \/ SkipReset(t)
  \/ ResetBegin(t)
  \/ ResetEnd(t)
  \/ MarkReset(t)
  \/ Unlock(t)
  \/ Return(t)

Next ==
  \/ InstallBegin
  \/ InstallEnd
  \/ Shutdown
  \/ \E t \in Thread : \/ \E k \in Lookup : CallHooked(t, k) \/ CallDirect(t, k)
                       \/ CallTorn(t)
                       \/ Proceed(t)

Spec == Init /\ [][Next]_vars

\* A thread that is in the replacement is scheduled again.
Fairness == \A t \in Thread : WF_vars(Proceed(t))

FairSpec == Spec /\ Fairness

----------------------------------------------------------------------------
(* Properties.                                                             *)

\* Every variable has its type.
TypeOK ==
  /\ bytes \in {"old", "new", "torn"}
  /\ restored \in BOOLEAN
  /\ mutex \in Thread \cup {None}
  /\ phase \in {"before", "on", "over"}
  /\ pc \in [Thread -> PC]
  /\ was \in [Thread -> BOOLEAN]
  /\ kind \in [Thread -> Kind]
  /\ found \in [Thread -> Found]
  /\ astray \in BOOLEAN

\* The replacement never calls itself for ever: whatever the other threads
\* do, it calls dlsym_original with the original bytes in place.
OriginalInPlace == \A t \in Thread : pc[t] \in {"lookup", "fallback"} => bytes = "old"

\* is_original_restored tells the truth about the bytes whenever nobody holds
\* the mutex, so that the next one to hold it restores what has to be restored.
FlagTellsBytes ==
  phase # "before" /\ mutex = None => bytes = IF restored THEN "old" ELSE "new"

\* The replacement is to make "combined export table of plugin and game dll"
\* (metamod.cpp:241): while it is on, a function of the game DLL is missed
\* only by a call that ran while the original bytes were put back.
GameFunctionsFound ==
  [][\A t \in Thread :
       /\ phase = "on" /\ pc[t] # "done" /\ pc'[t] = "done"
       /\ kind'[t] = "game" /\ found'[t] # "game"
       => restored \/ \E u \in Thread \ {t} : pc[u] = "old"]_vars

\* The mutex is given back by every way out of the replacement.
MutexComesFree == []<>(mutex = None \/ astray)

Inside(t) == pc[t] \in {"entered", "lock"} \cup Critical

\* As long as no two threads are in the replacement at a time, the hook stays
\* until the shutdown, and the shutdown is final.
HookLastsAlone ==
  [](\A t, u \in Thread : Inside(t) /\ Inside(u) => t = u)
    => [](/\ phase = "on" /\ mutex = None => bytes = "new"
          /\ phase = "over" => bytes = "old")

----------------------------------------------------------------------------
(* What the documentation says and the code does not do.                   *)

\* "Reset dlsym hook" (osdep_linkent_linux.cpp:131 and 157), under a "mutex
\* for our protection" (60): between calls the hook is there.
HookSurvives == phase = "on" /\ mutex = None => bytes = "new"
=============================================================================
