--------------------------- MODULE LinkentHookProofs ---------------------------
(***************************************************************************)
(* Theorems about LinkentHook, for any set of threads.                     *)
(*                                                                         *)
(* Neither OriginalInPlace nor FlagTellsBytes is inductive: that the bytes *)
(* are the original ones during a lookup depends on nobody else writing    *)
(* them (Held), and on what the flag and the bytes are at each place       *)
(* before (Place).  The one write that does not hold the mutex is the      *)
(* installation, before which nobody is in the replacement (Before).  The  *)
(* same facts show when a call may miss a function of the game DLL, with   *)
(* what the way out of the replacement keeps of the answer (Answered), and *)
(* that the hook lasts when the threads take turns (ByTurns).              *)
(***************************************************************************)
EXTENDS LinkentHook, TLAPS

\* The mutex is held by the thread that is in the critical section.
Held == \A t \in Thread : pc[t] \in Critical <=> mutex = t

\* Until the hook is installed nobody is in the replacement.
Before ==
  /\ phase = "before" => /\ bytes # "new" /\ ~restored
                         /\ \A t \in Thread : pc[t] \in {"idle", "installing", "done"}
  /\ \A t \in Thread : pc[t] = "installing" => t = Server /\ phase = "before"

Agree == bytes = IF restored THEN "old" ELSE "new"

\* What the holder of the mutex knows at each place.
Place ==
  \A t \in Thread :
    /\ pc[t] \in {"locked", "unlock"} => Agree
    /\ pc[t] \in {"restoring", "resetting"} => bytes = "torn"
    /\ pc[t] = "old" => bytes = "old"
    /\ pc[t] \in {"lookup", "fallback", "looked"} => bytes = "old" /\ restored
    /\ pc[t] = "new" => bytes = "new"

\* A shutdown looks nothing up.
Asked == \A t \in Thread : pc[t] \in {"lookup", "fallback"} => kind[t] \in Lookup

\* The game DLL is asked for what the metamod module does not have, and what it
\* has is not forgotten on the way out.
Answered ==
  \A t \in Thread :
    /\ pc[t] = "fallback" => kind[t] = "game"
    /\ pc[t] \in {"looked", "resetting", "new", "unlock"} /\ kind[t] = "game" => found[t] = "game"

IInv == TypeOK /\ Asked /\ Answered /\ Held /\ Before /\ Place /\ FlagTellsBytes

Calling(t, k) == CallHooked(t, k) \/ CallDirect(t, k)

LEMMA InitInv == Init => IInv
  BY ThreadAssumption DEF Init, IInv, TypeOK, Asked, Answered, Held, Before, Agree, Place, FlagTellsBytes, Critical,
     PC, Kind, Lookup, Found

LEMMA TypeStep == TypeOK /\ Asked /\ [Next]_vars => TypeOK'
<1> SUFFICES ASSUME TypeOK, Asked, [Next]_vars PROVE TypeOK'
  OBVIOUS
<1> USE ThreadAssumption DEF TypeOK, Goes, Asks, PC, Critical, Kind, Lookup, Found, Original
<1>1. CASE InstallBegin
  BY <1>1 DEF InstallBegin
<1>2. CASE InstallEnd
  BY <1>2 DEF InstallEnd
<1>3. CASE Shutdown
  BY <1>3 DEF Shutdown
<1>4. ASSUME NEW t \in Thread, NEW k \in Lookup, Calling(t, k) PROVE TypeOK'
  BY <1>4 DEF Calling, CallHooked, CallDirect
<1>5. ASSUME NEW t \in Thread, CallTorn(t) PROVE TypeOK'
  BY <1>5 DEF CallTorn
<1>6. ASSUME NEW t \in Thread, Proceed(t) PROVE TypeOK'
  <2>1. CASE ReadFlag(t) \/ Lock(t) \/ Return(t) \/ Unlock(t)
    BY <2>1 DEF ReadFlag, Lock, Return, Unlock
  <2>2. CASE SkipRestore(t) \/ RestoreBegin(t) \/ RestoreEnd(t) \/ MarkRestored(t)
    BY <2>2 DEF SkipRestore, RestoreBegin, RestoreEnd, MarkRestored, Onward
  <2>3. CASE CallOriginal(t)
    <3>1. Original[kind[t]] \in Found
      BY <2>3 DEF CallOriginal, Asked
    <3> QED
      BY <2>3, <3>1 DEF CallOriginal
  <2>4. CASE CallGame(t)
    BY <2>4 DEF CallGame
  <2>5. CASE SkipReset(t) \/ ResetBegin(t) \/ ResetEnd(t) \/ MarkReset(t)
    BY <2>5 DEF SkipReset, ResetBegin, ResetEnd, MarkReset
  <2> QED
    BY <1>6, <2>1, <2>2, <2>3, <2>4, <2>5 DEF Proceed
<1>7. CASE UNCHANGED vars
  BY <1>7 DEF vars
<1> QED
  BY <1>1, <1>2, <1>3, <1>4, <1>5, <1>6, <1>7 DEF Next, Calling

\* A thread goes on to a lookup only with something to look up.
LEMMA AskedStep == TypeOK /\ Asked /\ [Next]_vars => Asked'
<1> SUFFICES ASSUME TypeOK, Asked, [Next]_vars PROVE Asked'
  OBVIOUS
<1> USE ThreadAssumption DEF TypeOK, Goes, Asks, Asked, Kind, Lookup
<1>1. CASE InstallBegin
  BY <1>1 DEF InstallBegin
<1>2. CASE InstallEnd
  BY <1>2 DEF InstallEnd
<1>3. CASE Shutdown
  BY <1>3 DEF Shutdown
<1>4. ASSUME NEW t \in Thread, NEW k \in Lookup, Calling(t, k) PROVE Asked'
  BY <1>4 DEF Calling, CallHooked, CallDirect
<1>5. ASSUME NEW t \in Thread, CallTorn(t) PROVE Asked'
  BY <1>5 DEF CallTorn
<1>6. ASSUME NEW t \in Thread, Proceed(t) PROVE Asked'
  <2>1. CASE ReadFlag(t) \/ Return(t)
    BY <2>1 DEF ReadFlag, Return
  <2>2. CASE Lock(t)
    BY <2>2 DEF Lock
  <2>3. CASE Unlock(t)
    BY <2>3 DEF Unlock
  <2>4. CASE SkipRestore(t) \/ RestoreBegin(t)
    BY <2>4 DEF SkipRestore, RestoreBegin, Onward
  <2>5. CASE RestoreEnd(t) \/ MarkRestored(t)
    BY <2>5 DEF RestoreEnd, MarkRestored, Onward
  <2>6. CASE CallOriginal(t) \/ CallGame(t)
    BY <2>6 DEF CallOriginal, CallGame
  <2>7. CASE SkipReset(t) \/ ResetBegin(t)
    BY <2>7 DEF SkipReset, ResetBegin
  <2>8. CASE ResetEnd(t) \/ MarkReset(t)
    BY <2>8 DEF ResetEnd, MarkReset
  <2> QED
    BY <1>6, <2>1, <2>2, <2>3, <2>4, <2>5, <2>6, <2>7, <2>8 DEF Proceed
<1>7. CASE UNCHANGED vars
  BY <1>7 DEF vars
<1> QED
  BY <1>1, <1>2, <1>3, <1>4, <1>5, <1>6, <1>7 DEF Next, Calling

\* What the game DLL has is found before a thread that asks for it leaves.
LEMMA AnsweredStep == TypeOK /\ Answered /\ [Next]_vars => Answered'
<1> SUFFICES ASSUME TypeOK, Answered, [Next]_vars PROVE Answered'
  OBVIOUS
<1> USE ThreadAssumption DEF TypeOK, Goes, Asks, Answered, Kind, Lookup
<1>1. CASE InstallBegin
  BY <1>1 DEF InstallBegin
<1>2. CASE InstallEnd
  BY <1>2 DEF InstallEnd
<1>3. CASE Shutdown
  BY <1>3 DEF Shutdown
<1>4. ASSUME NEW t \in Thread, NEW k \in Lookup, Calling(t, k) PROVE Answered'
  BY <1>4 DEF Calling, CallHooked, CallDirect
<1>5. ASSUME NEW t \in Thread, CallTorn(t) PROVE Answered'
  BY <1>5 DEF CallTorn
<1>6. ASSUME NEW t \in Thread, Proceed(t) PROVE Answered'
  <2>1. CASE ReadFlag(t) \/ Return(t)
    BY <2>1 DEF ReadFlag, Return
  <2>2. CASE Lock(t)
    BY <2>2 DEF Lock
  <2>3. CASE Unlock(t)
    BY <2>3 DEF Unlock
  <2>4. CASE SkipRestore(t) \/ RestoreBegin(t)
    BY <2>4 DEF SkipRestore, RestoreBegin, Onward
  <2>5. CASE RestoreEnd(t) \/ MarkRestored(t)
    BY <2>5 DEF RestoreEnd, MarkRestored, Onward
  <2>6. CASE CallOriginal(t) \/ CallGame(t)
    BY <2>6 DEF CallOriginal, CallGame
  <2>7. CASE SkipReset(t) \/ ResetBegin(t)
    BY <2>7 DEF SkipReset, ResetBegin
  <2>8. CASE ResetEnd(t) \/ MarkReset(t)
    BY <2>8 DEF ResetEnd, MarkReset
  <2> QED
    BY <1>6, <2>1, <2>2, <2>3, <2>4, <2>5, <2>6, <2>7, <2>8 DEF Proceed
<1>7. CASE UNCHANGED vars
  BY <1>7 DEF vars
<1> QED
  BY <1>1, <1>2, <1>3, <1>4, <1>5, <1>6, <1>7 DEF Next, Calling

\* The mutex is taken on the way into the critical section and given back on
\* the way out; nobody else gets in.
LEMMA HeldStep == TypeOK /\ Held /\ Before /\ [Next]_vars => Held'
<1> SUFFICES ASSUME TypeOK, Held, Before, [Next]_vars PROVE Held'
  OBVIOUS
<1> USE ThreadAssumption DEF TypeOK, Goes, Asks, Held, Before, Critical
<1>1. CASE InstallBegin
  BY <1>1 DEF InstallBegin
<1>2. CASE InstallEnd
  BY <1>2 DEF InstallEnd
<1>3. CASE Shutdown
  BY <1>3 DEF Shutdown
<1>4. ASSUME NEW t \in Thread, NEW k \in Lookup, Calling(t, k) PROVE Held'
  BY <1>4 DEF Calling, CallHooked, CallDirect
<1>5. ASSUME NEW t \in Thread, CallTorn(t) PROVE Held'
  BY <1>5 DEF CallTorn
<1>6. ASSUME NEW t \in Thread, Proceed(t) PROVE Held'
  <2>1. CASE ReadFlag(t) \/ Return(t)
    BY <2>1 DEF ReadFlag, Return
  <2>2. CASE Lock(t)
    BY <2>2 DEF Lock
  <2>3. CASE Unlock(t)
    BY <2>3 DEF Unlock
  <2>4. CASE SkipRestore(t) \/ RestoreBegin(t)
    BY <2>4 DEF SkipRestore, RestoreBegin, Onward
  <2>5. CASE RestoreEnd(t) \/ MarkRestored(t)
    BY <2>5 DEF RestoreEnd, MarkRestored, Onward
  <2>6. CASE CallOriginal(t) \/ CallGame(t)
    BY <2>6 DEF CallOriginal, CallGame
  <2>7. CASE SkipReset(t) \/ ResetBegin(t)
    BY <2>7 DEF SkipReset, ResetBegin
  <2>8. CASE ResetEnd(t) \/ MarkReset(t)
    BY <2>8 DEF ResetEnd, MarkReset
  <2> QED
    BY <1>6, <2>1, <2>2, <2>3, <2>4, <2>5, <2>6, <2>7, <2>8 DEF Proceed
<1>7. CASE UNCHANGED vars
  BY <1>7 DEF vars
<1> QED
  BY <1>1, <1>2, <1>3, <1>4, <1>5, <1>6, <1>7 DEF Next, Calling

\* The replacement is entered through the jump, which is not there before.
LEMMA BeforeStep == TypeOK /\ Before /\ Held /\ [Next]_vars => Before'
<1> SUFFICES ASSUME TypeOK, Before, Held, [Next]_vars PROVE Before'
  OBVIOUS
<1> USE ThreadAssumption DEF TypeOK, Goes, Asks, Held, Before, Critical
<1>1. CASE InstallBegin
  BY <1>1 DEF InstallBegin
<1>2. CASE InstallEnd
  BY <1>2 DEF InstallEnd
<1>3. CASE Shutdown
  BY <1>3 DEF Shutdown
<1>4. ASSUME NEW t \in Thread, NEW k \in Lookup, Calling(t, k) PROVE Before'
  BY <1>4 DEF Calling, CallHooked, CallDirect
<1>5. ASSUME NEW t \in Thread, CallTorn(t) PROVE Before'
  BY <1>5 DEF CallTorn
<1>6. ASSUME NEW t \in Thread, Proceed(t) PROVE Before'
  <2>1. CASE ReadFlag(t) \/ Return(t)
    BY <2>1 DEF ReadFlag, Return
  <2>2. CASE Lock(t)
    BY <2>2 DEF Lock
  <2>3. CASE Unlock(t)
    BY <2>3 DEF Unlock
  <2>4. CASE SkipRestore(t) \/ RestoreBegin(t)
    BY <2>4 DEF SkipRestore, RestoreBegin, Onward
  <2>5. CASE RestoreEnd(t) \/ MarkRestored(t)
    BY <2>5 DEF RestoreEnd, MarkRestored, Onward
  <2>6. CASE CallOriginal(t) \/ CallGame(t)
    BY <2>6 DEF CallOriginal, CallGame
  <2>7. CASE SkipReset(t) \/ ResetBegin(t)
    BY <2>7 DEF SkipReset, ResetBegin
  <2>8. CASE ResetEnd(t) \/ MarkReset(t)
    BY <2>8 DEF ResetEnd, MarkReset
  <2> QED
    BY <1>6, <2>1, <2>2, <2>3, <2>4, <2>5, <2>6, <2>7, <2>8 DEF Proceed
<1>7. CASE UNCHANGED vars
  BY <1>7 DEF vars
<1> QED
  BY <1>1, <1>2, <1>3, <1>4, <1>5, <1>6, <1>7 DEF Next, Calling

\* Only the holder of the mutex writes the bytes and the flag.
LEMMA PlaceStep == TypeOK /\ Held /\ Before /\ Place /\ FlagTellsBytes /\ [Next]_vars => Place'
<1> SUFFICES ASSUME TypeOK, Held, Before, Place, FlagTellsBytes, [Next]_vars PROVE Place'
  OBVIOUS
<1> USE ThreadAssumption DEF TypeOK, Goes, Asks, Held, Before, Place, FlagTellsBytes, Agree, Critical
<1>1. CASE InstallBegin
  BY <1>1 DEF InstallBegin
<1>2. CASE InstallEnd
  BY <1>2 DEF InstallEnd
<1>3. CASE Shutdown
  BY <1>3 DEF Shutdown
<1>4. ASSUME NEW t \in Thread, NEW k \in Lookup, Calling(t, k) PROVE Place'
  BY <1>4 DEF Calling, CallHooked, CallDirect
<1>5. ASSUME NEW t \in Thread, CallTorn(t) PROVE Place'
  BY <1>5 DEF CallTorn
<1>6. ASSUME NEW t \in Thread, Proceed(t) PROVE Place'
  <2>1. CASE ReadFlag(t) \/ Return(t)
    BY <2>1 DEF ReadFlag, Return
  <2>2. CASE Lock(t)
    BY <2>2 DEF Lock
  <2>3. CASE Unlock(t)
    BY <2>3 DEF Unlock
  <2>4. CASE SkipRestore(t) \/ RestoreBegin(t)
    BY <2>4 DEF SkipRestore, RestoreBegin, Onward
  <2>5. CASE RestoreEnd(t) \/ MarkRestored(t)
    BY <2>5 DEF RestoreEnd, MarkRestored, Onward
  <2>6. CASE CallOriginal(t) \/ CallGame(t)
    BY <2>6 DEF CallOriginal, CallGame
  <2>7. CASE SkipReset(t) \/ ResetBegin(t)
    BY <2>7 DEF SkipReset, ResetBegin
  <2>8. CASE ResetEnd(t) \/ MarkReset(t)
    BY <2>8 DEF ResetEnd, MarkReset
  <2> QED
    BY <1>6, <2>1, <2>2, <2>3, <2>4, <2>5, <2>6, <2>7, <2>8 DEF Proceed
<1>7. CASE UNCHANGED vars
  BY <1>7 DEF vars
<1> QED
  BY <1>1, <1>2, <1>3, <1>4, <1>5, <1>6, <1>7 DEF Next, Calling

\* The holder gives the mutex back with bytes and flag in agreement.
LEMMA FlagStep == TypeOK /\ Held /\ Before /\ Place /\ FlagTellsBytes /\ [Next]_vars => FlagTellsBytes'
<1> SUFFICES ASSUME TypeOK, Held, Before, Place, FlagTellsBytes, [Next]_vars PROVE FlagTellsBytes'
  OBVIOUS
<1> USE ThreadAssumption DEF TypeOK, Goes, Asks, Held, Before, Place, FlagTellsBytes, Agree, Critical
<1>1. CASE InstallBegin
  BY <1>1 DEF InstallBegin
<1>2. CASE InstallEnd
  BY <1>2 DEF InstallEnd
<1>3. CASE Shutdown
  BY <1>3 DEF Shutdown
<1>4. ASSUME NEW t \in Thread, NEW k \in Lookup, Calling(t, k) PROVE FlagTellsBytes'
  BY <1>4 DEF Calling, CallHooked, CallDirect
<1>5. ASSUME NEW t \in Thread, CallTorn(t) PROVE FlagTellsBytes'
  BY <1>5 DEF CallTorn
<1>6. ASSUME NEW t \in Thread, Proceed(t) PROVE FlagTellsBytes'
  <2>1. CASE ReadFlag(t) \/ Return(t)
    BY <2>1 DEF ReadFlag, Return
  <2>2. CASE Lock(t)
    BY <2>2 DEF Lock
  <2>3. CASE Unlock(t)
    BY <2>3 DEF Unlock
  <2>4. CASE SkipRestore(t) \/ RestoreBegin(t)
    BY <2>4 DEF SkipRestore, RestoreBegin, Onward
  <2>5. CASE RestoreEnd(t) \/ MarkRestored(t)
    BY <2>5 DEF RestoreEnd, MarkRestored, Onward
  <2>6. CASE CallOriginal(t) \/ CallGame(t)
    BY <2>6 DEF CallOriginal, CallGame
  <2>7. CASE SkipReset(t) \/ ResetBegin(t)
    BY <2>7 DEF SkipReset, ResetBegin
  <2>8. CASE ResetEnd(t) \/ MarkReset(t)
    BY <2>8 DEF ResetEnd, MarkReset
  <2> QED
    BY <1>6, <2>1, <2>2, <2>3, <2>4, <2>5, <2>6, <2>7, <2>8 DEF Proceed
<1>7. CASE UNCHANGED vars
  BY <1>7 DEF vars
<1> QED
  BY <1>1, <1>2, <1>3, <1>4, <1>5, <1>6, <1>7 DEF Next, Calling

LEMMA NextInv == IInv /\ [Next]_vars => IInv'
  BY TypeStep, AskedStep, AnsweredStep, HeldStep, BeforeStep, PlaceStep, FlagStep DEF IInv

LEMMA Invariance == Spec => []IInv
<1>1. Init => IInv
  BY InitInv
<1>2. IInv /\ [Next]_vars => IInv'
  BY NextInv
<1> QED
  BY <1>1, <1>2, PTL DEF Spec

\* Every reachable state is well typed, for any threads.
THEOREM TypeCorrect == Spec => []TypeOK
<1>1. IInv => TypeOK
  BY DEF IInv
<1> QED
  BY <1>1, Invariance, PTL

\* However many threads call dlsym and whenever the hook is installed and
\* removed, dlsym_original is called with the original bytes in place.
THEOREM OriginalInPlaceHolds == Spec => []OriginalInPlace
<1>1. IInv => OriginalInPlace
  BY DEF IInv, Place, OriginalInPlace
<1> QED
  BY <1>1, Invariance, PTL

\* Whenever the mutex is free, is_original_restored agrees with the bytes.
THEOREM FlagTellsBytesHolds == Spec => []FlagTellsBytes
<1>1. IInv => FlagTellsBytes
  BY DEF IInv
<1> QED
  BY <1>1, Invariance, PTL

\* While the hook is on and the bytes are the original ones, the flag says so,
\* or the holder of the mutex has just restored them and is about to set it.
LEMMA OldIsKnown ==
  IInv /\ phase = "on" /\ bytes = "old" => restored \/ \E u \in Thread : pc[u] = "old"
<1> SUFFICES ASSUME IInv, phase = "on", bytes = "old"
             PROVE  restored \/ \E u \in Thread : pc[u] = "old"
  OBVIOUS
<1>1. CASE mutex = None
  BY <1>1 DEF IInv, FlagTellsBytes
<1>2. CASE mutex # None
  <2>1. mutex \in Thread /\ pc[mutex] \in Critical
    BY <1>2 DEF IInv, TypeOK, Held
  <2> QED
    BY <2>1 DEF IInv, Place, Agree, Critical
<1> QED
  BY <1>1, <1>2

\* A call that ends either went straight to the original, whose bytes were in
\* place, or asked the game DLL.
LEMMA FoundStep ==
  ASSUME IInv, [Next]_vars, NEW t \in Thread, phase = "on", pc[t] # "done", pc'[t] = "done",
         kind'[t] = "game", found'[t] # "game"
  PROVE  restored \/ \E u \in Thread \ {t} : pc[u] = "old"
<1> USE ThreadAssumption DEF IInv, TypeOK, Goes, Asks
<1>1. CASE InstallBegin
  BY <1>1 DEF InstallBegin
<1>2. CASE InstallEnd
  BY <1>2 DEF InstallEnd, Before
<1>3. CASE Shutdown
  BY <1>3 DEF Shutdown
<1>4. ASSUME NEW u \in Thread, NEW k \in Lookup, CallHooked(u, k) PROVE FALSE
  BY <1>4 DEF CallHooked
<1>5. ASSUME NEW u \in Thread, NEW k \in Lookup, CallDirect(u, k)
      PROVE  restored \/ \E v \in Thread \ {t} : pc[v] = "old"
  <2>1. bytes = "old" /\ pc[t] = "idle"
    BY <1>5 DEF CallDirect
  <2> QED
    BY <2>1, OldIsKnown
<1>6. ASSUME NEW u \in Thread, CallTorn(u) PROVE FALSE
  BY <1>6 DEF CallTorn
<1>7. ASSUME NEW u \in Thread, Proceed(u) PROVE FALSE
  <2>1. CASE ReadFlag(u) \/ Lock(u) \/ Return(u)
    BY <2>1 DEF ReadFlag, Lock, Return
  <2>2. CASE SkipRestore(u) \/ RestoreBegin(u) \/ RestoreEnd(u) \/ MarkRestored(u)
    BY <2>2 DEF SkipRestore, RestoreBegin, RestoreEnd, MarkRestored, Onward
  <2>3. CASE CallOriginal(u) \/ CallGame(u)
    BY <2>3 DEF CallOriginal, CallGame
  <2>4. CASE SkipReset(u) \/ ResetBegin(u) \/ ResetEnd(u) \/ MarkReset(u)
    BY <2>4 DEF SkipReset, ResetBegin, ResetEnd, MarkReset
  <2>5. CASE Unlock(u)
    BY <2>5 DEF Unlock, Answered
  <2> QED
    BY <1>7, <2>1, <2>2, <2>3, <2>4, <2>5 DEF Proceed
<1>8. CASE UNCHANGED vars
  BY <1>8 DEF vars
<1> QED
  BY <1>1, <1>2, <1>3, <1>4, <1>5, <1>6, <1>7, <1>8 DEF Next

\* With any number of threads, a function of the game DLL is only missed by a
\* call that ran while the replacement had put the original bytes back.
THEOREM GameFunctionsFoundHolds == Spec => GameFunctionsFound
<1>1. IInv /\ [Next]_vars
        => [\A t \in Thread :
              /\ phase = "on" /\ pc[t] # "done" /\ pc'[t] = "done"
              /\ kind'[t] = "game" /\ found'[t] # "game"
              => restored \/ \E u \in Thread \ {t} : pc[u] = "old"]_vars
  BY FoundStep
<1> QED
  BY <1>1, Invariance, PTL DEF Spec, GameFunctionsFound

----------------------------------------------------------------------------
(* One thread at a time.                                                   *)

Alone == \A t, u \in Thread : Inside(t) /\ Inside(u) => t = u

\* What threads that take turns see: one that enters finds the jump in place
\* and the flag clear, remembers that, and writes the jump again, unless it is
\* the shutdown, after which nobody enters.
ByTurns ==
  /\ \A t \in Thread :
       /\ pc[t] # "done" => ~was[t]
       /\ Inside(t) => phase = "on"
       /\ Inside(t) /\ kind[t] = "shutdown"
            => pc[t] \in {"lock", "locked", "restoring", "old", "unlock"}
       /\ pc[t] = "locked" => ~restored
       /\ pc[t] = "unlock" => bytes = IF kind[t] = "shutdown" THEN "old" ELSE "new"
  /\ phase = "on" /\ mutex = None => bytes = "new"
  /\ phase = "over" => bytes = "old"

LEMMA InitByTurns == Init => ByTurns
  BY ThreadAssumption DEF Init, ByTurns, Inside, Critical

\* A thread that is about to enter the mutex alone finds the flag clear.
LEMMA FlagIsClear ==
  ASSUME IInv, ByTurns, Alone, NEW t \in Thread, pc[t] \in {"entered", "lock"}
  PROVE  ~restored
<1>1. Inside(t) /\ phase = "on"
  BY DEF Inside, ByTurns
<1>2. mutex = None
  <2> SUFFICES ASSUME mutex # None PROVE FALSE
    OBVIOUS
  <2>1. mutex \in Thread /\ pc[mutex] \in Critical
    BY DEF IInv, TypeOK, Held
  <2>2. mutex = t
    BY <1>1, <2>1 DEF Alone, Inside
  <2> QED
    BY <2>1, <2>2 DEF Critical
<1> QED
  BY <1>1, <1>2 DEF IInv, FlagTellsBytes, ByTurns

LEMMA ByTurnsStep == IInv /\ ByTurns /\ Alone /\ [Next]_vars => ByTurns'
<1> SUFFICES ASSUME IInv, ByTurns, Alone, [Next]_vars PROVE ByTurns'
  OBVIOUS
<1> USE ThreadAssumption DEF IInv, TypeOK, Goes, Asks, ByTurns, Inside, Critical
<1>1. CASE InstallBegin
  BY <1>1 DEF InstallBegin
<1>2. CASE InstallEnd
  BY <1>2 DEF InstallEnd, Before
<1>3. CASE Shutdown
  BY <1>3 DEF Shutdown
<1>4. ASSUME NEW t \in Thread, NEW k \in Lookup, Calling(t, k) PROVE ByTurns'
  <2>1. CASE CallHooked(t, k)
    <3>1. phase = "on"
      BY <2>1 DEF CallHooked, Before
    <3> QED
      BY <2>1, <3>1 DEF CallHooked, Lookup
  <2>2. CASE CallDirect(t, k)
    BY <2>2 DEF CallDirect
  <2> QED
    BY <1>4, <2>1, <2>2 DEF Calling
<1>5. ASSUME NEW t \in Thread, CallTorn(t) PROVE ByTurns'
  BY <1>5 DEF CallTorn
<1>6. ASSUME NEW t \in Thread, Proceed(t) PROVE ByTurns'
  <2>1. CASE ReadFlag(t)
    <3>1. ~restored
      BY <2>1, FlagIsClear DEF ReadFlag
    <3> QED
      BY <2>1, <3>1 DEF ReadFlag
  <2>2. CASE Lock(t)
    <3>1. ~restored
      BY <2>2, FlagIsClear DEF Lock
    <3> QED
      BY <2>2, <3>1 DEF Lock
  <2>3. CASE Unlock(t)
    BY <2>3 DEF Unlock, Alone
  <2>4. CASE SkipRestore(t) \/ RestoreBegin(t)
    BY <2>4 DEF SkipRestore, RestoreBegin, Held
  <2>5. CASE RestoreEnd(t) \/ MarkRestored(t)
    BY <2>5 DEF RestoreEnd, MarkRestored, Onward, Held, Place
  <2>6. CASE CallOriginal(t) \/ CallGame(t)
    BY <2>6 DEF CallOriginal, CallGame
  <2>7. CASE SkipReset(t) \/ ResetBegin(t)
    BY <2>7 DEF SkipReset, ResetBegin, Held
  <2>8. CASE ResetEnd(t) \/ MarkReset(t)
    BY <2>8 DEF ResetEnd, MarkReset, Held, Place
  <2>9. CASE Return(t)
    BY <2>9 DEF Return
  <2> QED
    BY <1>6, <2>1, <2>2, <2>3, <2>4, <2>5, <2>6, <2>7, <2>8, <2>9 DEF Proceed
<1>7. CASE UNCHANGED vars
  BY <1>7 DEF vars
<1> QED
  BY <1>1, <1>2, <1>3, <1>4, <1>5, <1>6, <1>7 DEF Next, Calling

\* As long as no two threads are in the replacement at a time, whatever their
\* number, the hook stays until the shutdown and the shutdown is final: only
\* the unprotected read of is_original_restored can undo the one or the other.
THEOREM HookLastsAloneHolds == Spec => HookLastsAlone
<1>1. Init => ByTurns
  BY InitByTurns
<1>2. IInv /\ ByTurns /\ Alone /\ [Next]_vars => ByTurns'
  BY ByTurnsStep
<1>3. ByTurns => /\ phase = "on" /\ mutex = None => bytes = "new"
                 /\ phase = "over" => bytes = "old"
  BY DEF ByTurns
<1>4. Alone <=> \A t, u \in Thread : Inside(t) /\ Inside(u) => t = u
  BY DEF Alone
<1> QED
  BY <1>1, <1>2, <1>3, <1>4, Invariance, PTL DEF Spec, HookLastsAlone
=============================================================================
