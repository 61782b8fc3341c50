------------------------ MODULE CallbackDispatchProofs ------------------------
(***************************************************************************)
(* Proofs about CallbackDispatch, for any number of plugins, functions and *)
(* nested callbacks.  A step of the compiled code is one of three shapes:  *)
(* the call of a handler (Invoke), the call of the original, or the end of *)
(* the callback (Leave); the lemmas of the first part say so of PreFrom,   *)
(* OriginalOf and PostFrom.  The invariant is in the second part, the      *)
(* properties of steps and the refinement of DispatchContract follow; the  *)
(* contract then tells which values a call may hand out.                   *)
(***************************************************************************)
EXTENDS CallbackDispatch, WellFoundedInduction, TLAPS

----------------------------------------------------------------------------
(* The first of a set of plugins.                                          *)

Less == {ss \in Nat \X Nat : ss[1] < ss[2]}

LEMMA LessWF == IsWellFoundedOn(Less, Nat)
  <1>1. OpToRel(<, Nat) = Less
    BY Zenon DEF OpToRel, Less
  <1>2. IsWellFoundedOn(OpToRel(<, Nat), Nat)
    BY NatLessThanWellFounded
  <1> QED BY <1>1, <1>2

LEMMA LeastIsLeast ==
  ASSUME NEW S \in SUBSET Nat, S # {}
  PROVE  Least(S) \in S /\ \A j \in S : Least(S) <= j
  <1>1. PICK x \in S : \A y \in S : <<y, x>> \notin Less
    BY LessWF, WFMin
  <1>2. ASSUME NEW y \in S PROVE x <= y
    <2>1. <<y, x>> \notin Less /\ <<y, x>> \in Nat \X Nat
      BY <1>1
    <2>2. ~ (y < x)
      BY <2>1, SMT DEF Less
    <2> QED BY <2>2, SMT
  <1> QED BY <1>2 DEF Least

LEMMA PluginsAreNaturals == Plugin \subseteq Nat
  BY NumPluginsAssumption DEF Plugin

\* The handler that is called next is the first of those that are left.
LEMMA NextHandler ==
  ASSUME TypeOK, NEW fn, NEW phase, NEW i, Handlers(fn, phase, i) # {}
  PROVE  /\ Least(Handlers(fn, phase, i)) \in Handlers(fn, phase, i)
         /\ \A j \in Handlers(fn, phase, i) : Least(Handlers(fn, phase, i)) <= j
  <1>1. Handlers(fn, phase, i) \subseteq code.plugins
    BY DEF Handlers
  <1>2. code.plugins \subseteq Plugin
    BY DEF TypeOK, Layout
  <1>3. Handlers(fn, phase, i) \in SUBSET Nat
    BY <1>1, <1>2, PluginsAreNaturals
  <1> QED BY <1>3, LeastIsLeast

----------------------------------------------------------------------------
(* Stacks of frames.                                                       *)

LEMMA PhasesAreSites ==
  ASSUME NEW phase \in {"pre", "post"}, NEW i \in Plugin
  PROVE  <<phase, i>> \in Site /\ <<phase, i>>[1] = phase /\ <<phase, i>>[2] = i
  BY DEF Site

LEMMA InnermostFrame ==
  ASSUME NEW s \in Seq(Frame), Len(s) > 0
  PROVE  /\ Len(s) \in Nat /\ Len(s) \in 1..Len(s) /\ s[Len(s)] \in Frame
         /\ s[Len(s)].fn \in Fn /\ s[Len(s)].at \in Site /\ s[Len(s)].into \in Layout
         /\ s[Len(s)].backup \in Globals
         /\ s[Len(s)].orig_ret \in Value /\ s[Len(s)].over_ret \in Value
         /\ s[Len(s)].owed \subseteq {"pre", "post"} \X Plugin
  <1>1. Len(s) \in Nat /\ Len(s) \in 1..Len(s) /\ s[Len(s)] \in Frame
    OBVIOUS
  <1> QED BY <1>1 DEF Frame

\* The stack without its innermost frame.
LEMMA Shorter ==
  ASSUME NEW S, NEW s \in Seq(S), Len(s) > 0, NEW t, t = SubSeq(s, 1, Len(s) - 1)
  PROVE  /\ t \in Seq(S) /\ Len(t) = Len(s) - 1
         /\ \A k \in 1..(Len(s) - 1) : t[k] = s[k]
  <1> DEFINE n == Len(s) - 1
  <1>1. Len(s) \in Nat \ {0} /\ \A k \in 1..Len(s) : s[k] \in S
    OBVIOUS
  <1>2. n \in Nat /\ n < Len(s) /\ t = SubSeq(s, 1, n)
    BY <1>1
  <1> HIDE DEF n
  <1>3. Len(t) = n /\ \A k \in 1..n : t[k] = s[k]
    BY <1>1, <1>2
  <1>4. t \in Seq(S)
    BY <1>1, <1>2
  <1> QED BY <1>3, <1>4 DEF n

\* The stack that waits for the handler of a plugin.
LEMMA InvokeShape ==
  ASSUME NEW s \in Seq(Frame), Len(s) > 0, NEW m \in Globals,
         NEW phase \in {"pre", "post"}, NEW i \in Plugin,
         NEW r, r = Invoke(s, m, phase, i)
  PROVE  /\ r.stack \in Seq(Frame) /\ Len(r.stack) = Len(s)
         /\ \A k \in 1..(Len(s) - 1) : r.stack[k] = s[k]
         /\ r.stack[Len(s)].fn = s[Len(s)].fn
         /\ r.stack[Len(s)].at = <<phase, i>>
         /\ r.stack[Len(s)].into = s[Len(s)].into
         /\ r.stack[Len(s)].backup = s[Len(s)].backup
         /\ r.stack[Len(s)].orig_ret = s[Len(s)].orig_ret
         /\ r.stack[Len(s)].over_ret = s[Len(s)].over_ret
         /\ r.stack[Len(s)].owed = s[Len(s)].owed \ {<<phase, i>>}
         /\ r.g \in Globals
         /\ r.g.mres = MRES_IGNORED /\ r.g.prev_mres = m.mres
         /\ r.g.status = m.status /\ r.g.esp_save = m.esp_save
         /\ r.returned = Unwritten /\ r.noted = Unwritten
  <1> DEFINE n == Len(s)
  <1> DEFINE f == s[n]
  <1> DEFINE t == [f EXCEPT !.at = <<phase, i>>, !.owed = @ \ {<<phase, i>>}]
  <1>1. n \in 1..n /\ n \in Nat /\ f \in Frame
    OBVIOUS
  <1>2. /\ t \in Frame
        /\ t.fn = f.fn /\ t.at = <<phase, i>> /\ t.into = f.into /\ t.backup = f.backup
        /\ t.orig_ret = f.orig_ret /\ t.over_ret = f.over_ret /\ t.owed = f.owed \ {<<phase, i>>}
    <2> HIDE DEF f
    <2>1. <<phase, i>> \in Site
      BY PhasesAreSites
    <2> QED BY <1>1, <2>1 DEF Frame
  <1> HIDE DEF t
  <1>3. r.stack = [s EXCEPT ![n] = t]
    BY <1>1 DEF Invoke, t
  <1>4. /\ r.stack \in Seq(Frame) /\ Len(r.stack) = n
        /\ r.stack[n] = t /\ \A k \in 1..(n - 1) : r.stack[k] = s[k]
    BY <1>1, <1>2, <1>3
  <1>5. /\ r.g \in Globals
        /\ r.g.mres = MRES_IGNORED /\ r.g.prev_mres = m.mres
        /\ r.g.status = m.status /\ r.g.esp_save = m.esp_save
        /\ r.returned = Unwritten /\ r.noted = Unwritten
    <2>1. /\ r.g = [m EXCEPT !.prev_mres = m.mres, !.mres = MRES_IGNORED]
          /\ r.returned = Unwritten /\ r.noted = Unwritten
      BY Zenon DEF Invoke
    <2>2. MRES_IGNORED \in Result
      BY DEF Result, MRES_IGNORED, MRES_UNSET, MRES_SUPERCEDE
    <2> QED BY <2>1, <2>2 DEF Globals
  <1> QED BY <1>2, <1>4, <1>5

\* A stack whose innermost frame has another orig_ret.
LEMMA OrigChanged ==
  ASSUME NEW s \in Seq(Frame), Len(s) > 0, NEW v \in Value,
         NEW t, t = [s EXCEPT ![Len(s)].orig_ret = v]
  PROVE  /\ t \in Seq(Frame) /\ Len(t) = Len(s)
         /\ \A k \in 1..(Len(s) - 1) : t[k] = s[k]
         /\ t[Len(s)].fn = s[Len(s)].fn
         /\ t[Len(s)].at = s[Len(s)].at
         /\ t[Len(s)].into = s[Len(s)].into
         /\ t[Len(s)].backup = s[Len(s)].backup
         /\ t[Len(s)].orig_ret = v
         /\ t[Len(s)].over_ret = s[Len(s)].over_ret
         /\ t[Len(s)].owed = s[Len(s)].owed
  <1> DEFINE n == Len(s)
  <1> DEFINE f == s[n]
  <1> DEFINE q == [f EXCEPT !.orig_ret = v]
  <1>1. n \in 1..n /\ n \in Nat /\ f \in Frame
    OBVIOUS
  <1>2. /\ q \in Frame
        /\ q.fn = f.fn /\ q.at = f.at /\ q.into = f.into /\ q.backup = f.backup
        /\ q.orig_ret = v /\ q.over_ret = f.over_ret /\ q.owed = f.owed
    <2> HIDE DEF f
    <2> QED BY <1>1 DEF Frame
  <1>3. t = [s EXCEPT ![n] = q]
    BY <1>1
  <1> HIDE DEF q
  <1>4. /\ t \in Seq(Frame) /\ Len(t) = n
        /\ t[n] = q /\ \A k \in 1..(n - 1) : t[k] = s[k]
    BY <1>1, <1>2, <1>3
  <1> QED BY <1>2, <1>4

\* The same of over_ret.
LEMMA OverChanged ==
  ASSUME NEW s \in Seq(Frame), Len(s) > 0, NEW v \in Value,
         NEW t, t = [s EXCEPT ![Len(s)].over_ret = v]
  PROVE  /\ t \in Seq(Frame) /\ Len(t) = Len(s)
         /\ \A k \in 1..(Len(s) - 1) : t[k] = s[k]
         /\ t[Len(s)].fn = s[Len(s)].fn
         /\ t[Len(s)].at = s[Len(s)].at
         /\ t[Len(s)].into = s[Len(s)].into
         /\ t[Len(s)].backup = s[Len(s)].backup
         /\ t[Len(s)].orig_ret = s[Len(s)].orig_ret
         /\ t[Len(s)].over_ret = v
         /\ t[Len(s)].owed = s[Len(s)].owed
  <1> DEFINE n == Len(s)
  <1> DEFINE f == s[n]
  <1> DEFINE q == [f EXCEPT !.over_ret = v]
  <1>1. n \in 1..n /\ n \in Nat /\ f \in Frame
    OBVIOUS
  <1>2. /\ q \in Frame
        /\ q.fn = f.fn /\ q.at = f.at /\ q.into = f.into /\ q.backup = f.backup
        /\ q.orig_ret = f.orig_ret /\ q.over_ret = v /\ q.owed = f.owed
    <2> HIDE DEF f
    <2> QED BY <1>1 DEF Frame
  <1>3. t = [s EXCEPT ![n] = q]
    BY <1>1
  <1> HIDE DEF q
  <1>4. /\ t \in Seq(Frame) /\ Len(t) = n
        /\ t[n] = q /\ \A k \in 1..(n - 1) : t[k] = s[k]
    BY <1>1, <1>2, <1>3
  <1> QED BY <1>2, <1>4

\* The stack that waits for the original.
LEMMA AtOriginal ==
  ASSUME NEW s \in Seq(Frame), Len(s) > 0,
         NEW t, t = [s EXCEPT ![Len(s)].at = <<"original", 0>>]
  PROVE  /\ t \in Seq(Frame) /\ Len(t) = Len(s)
         /\ \A k \in 1..(Len(s) - 1) : t[k] = s[k]
         /\ t[Len(s)].fn = s[Len(s)].fn
         /\ t[Len(s)].at = <<"original", 0>>
         /\ t[Len(s)].into = s[Len(s)].into
         /\ t[Len(s)].backup = s[Len(s)].backup
         /\ t[Len(s)].orig_ret = s[Len(s)].orig_ret
         /\ t[Len(s)].over_ret = s[Len(s)].over_ret
         /\ t[Len(s)].owed = s[Len(s)].owed
  <1> DEFINE n == Len(s)
  <1> DEFINE f == s[n]
  <1> DEFINE q == [f EXCEPT !.at = <<"original", 0>>]
  <1>1. n \in 1..n /\ n \in Nat /\ f \in Frame
    OBVIOUS
  <1>2. /\ q \in Frame
        /\ q.fn = f.fn /\ q.at = <<"original", 0>> /\ q.into = f.into /\ q.backup = f.backup
        /\ q.orig_ret = f.orig_ret /\ q.over_ret = f.over_ret /\ q.owed = f.owed
    <2> HIDE DEF f
    <2>1. <<"original", 0>> \in Site
      BY DEF Site
    <2> QED BY <1>1, <2>1 DEF Frame
  <1>3. t = [s EXCEPT ![n] = q]
    BY <1>1
  <1> HIDE DEF q
  <1>4. /\ t \in Seq(Frame) /\ Len(t) = n
        /\ t[n] = q /\ \A k \in 1..(n - 1) : t[k] = s[k]
    BY <1>1, <1>2, <1>3
  <1> QED BY <1>2, <1>4

----------------------------------------------------------------------------
(* The three shapes of a step.  s and m are the stack and the globals that *)
(* the compiled code of the innermost callback finds, r what it leaves.    *)

\* The callback goes on to wait for a handler of a running plugin or for the
\* original; what is below it does not change.
Waits(s, m, r) ==
  /\ r.stack \in Seq(Frame) /\ Len(r.stack) = Len(s)
  /\ \A k \in 1..(Len(s) - 1) : r.stack[k] = s[k]
  /\ r.stack[Len(s)].fn = s[Len(s)].fn
  /\ r.stack[Len(s)].into = s[Len(s)].into
  /\ r.stack[Len(s)].backup = s[Len(s)].backup
  /\ r.stack[Len(s)].at[1] # "original" => status[r.stack[Len(s)].at[2]] = "running"
  /\ r.g \in Globals /\ r.g.esp_save = m.esp_save
  /\ r.returned = Unwritten /\ r.noted = Unwritten

\* The callback ends; mm_RegUserMsg finds its value unless it is superseded.
Ends(s, m, r) ==
  /\ r.stack \in Seq(Frame) /\ Len(r.stack) = Len(s) - 1
  /\ \A k \in 1..(Len(s) - 1) : r.stack[k] = s[k]
  /\ r.g = s[Len(s)].backup
  /\ r.returned \in Value /\ r.noted \in Value
  /\ m.status # MRES_SUPERCEDE => r.noted = r.returned

LEMMA PostFromCases ==
  ASSUME TypeOK, NEW s, NEW m, NEW i, NEW r, r = PostFrom(s, m, i)
  PROVE  \/ Handlers(s[Len(s)].fn, "post", i) = {} /\ r = Leave(s, m)
         \/ \E j \in Handlers(s[Len(s)].fn, "post", i) :
              /\ \A h \in Handlers(s[Len(s)].fn, "post", i) : j <= h
              /\ r = Invoke(s, m, "post", j)
  <1>1. CASE Handlers(s[Len(s)].fn, "post", i) = {}
    BY <1>1 DEF PostFrom
  <1>2. CASE Handlers(s[Len(s)].fn, "post", i) # {}
    <2>1. r = Invoke(s, m, "post", Least(Handlers(s[Len(s)].fn, "post", i)))
      BY <1>2 DEF PostFrom
    <2>2. /\ Least(Handlers(s[Len(s)].fn, "post", i)) \in Handlers(s[Len(s)].fn, "post", i)
          /\ \A h \in Handlers(s[Len(s)].fn, "post", i) :
               Least(Handlers(s[Len(s)].fn, "post", i)) <= h
      BY <1>2, NextHandler
    <2> QED BY <2>1, <2>2
  <1> QED BY <1>1, <1>2

LEMMA PreFromCases ==
  ASSUME TypeOK, NEW s, NEW m, NEW i, NEW r, r = PreFrom(s, m, i)
  PROVE  \/ Handlers(s[Len(s)].fn, "pre", i) = {} /\ r = OriginalOf(s, m)
         \/ \E j \in Handlers(s[Len(s)].fn, "pre", i) :
              /\ \A h \in Handlers(s[Len(s)].fn, "pre", i) : j <= h
              /\ r = Invoke(s, m, "pre", j)
  <1>1. CASE Handlers(s[Len(s)].fn, "pre", i) = {}
    BY <1>1 DEF PreFrom
  <1>2. CASE Handlers(s[Len(s)].fn, "pre", i) # {}
    <2>1. r = Invoke(s, m, "pre", Least(Handlers(s[Len(s)].fn, "pre", i)))
      BY <1>2 DEF PreFrom
    <2>2. /\ Least(Handlers(s[Len(s)].fn, "pre", i)) \in Handlers(s[Len(s)].fn, "pre", i)
          /\ \A h \in Handlers(s[Len(s)].fn, "pre", i) :
               Least(Handlers(s[Len(s)].fn, "pre", i)) <= h
      BY <1>2, NextHandler
    <2> QED BY <2>1, <2>2
  <1> QED BY <1>1, <1>2

LEMMA OriginalOfCases ==
  ASSUME NEW s, NEW m, NEW r, r = OriginalOf(s, m)
  PROVE  \/ /\ m.status = MRES_SUPERCEDE
            /\ r = PostFrom([s EXCEPT ![Len(s)].orig_ret = s[Len(s)].over_ret], m, 0)
         \/ /\ m.status # MRES_SUPERCEDE /\ s[Len(s)].fn \notin Originals
            /\ r = PostFrom([s EXCEPT ![Len(s)].orig_ret = FromDefault], m, 0)
         \/ /\ m.status # MRES_SUPERCEDE /\ s[Len(s)].fn \in Originals
            /\ r = [stack |-> [s EXCEPT ![Len(s)].at = <<"original", 0>>], g |-> m,
                    returned |-> Unwritten, noted |-> Unwritten]
  BY DEF OriginalOf

\* What a handler that is called next is.
LEMMA HandlerIs ==
  ASSUME TypeOK, NEW fn, NEW phase, NEW i, NEW j \in Handlers(fn, phase, i)
  PROVE  /\ j \in Plugin /\ j \in code.plugins /\ j > i
         /\ status[j] = "running" /\ <<j, fn, phase>> \in Hooks
  BY DEF Handlers, TypeOK, Layout

LEMMA InvokeWaits ==
  ASSUME TypeOK, NEW s \in Seq(Frame), Len(s) > 0, NEW m \in Globals,
         NEW phase \in {"pre", "post"}, NEW i \in Plugin, status[i] = "running",
         NEW r, r = Invoke(s, m, phase, i)
  PROVE  Waits(s, m, r)
  <1>1. /\ r.stack \in Seq(Frame) /\ Len(r.stack) = Len(s)
        /\ \A k \in 1..(Len(s) - 1) : r.stack[k] = s[k]
        /\ r.stack[Len(s)].fn = s[Len(s)].fn
        /\ r.stack[Len(s)].into = s[Len(s)].into
        /\ r.stack[Len(s)].backup = s[Len(s)].backup
    BY InvokeShape
  <1>2. r.stack[Len(s)].at = <<phase, i>>
    BY InvokeShape
  <1>3. status[r.stack[Len(s)].at[2]] = "running"
    BY <1>2
  <1>4. /\ r.g \in Globals /\ r.g.esp_save = m.esp_save
        /\ r.returned = Unwritten /\ r.noted = Unwritten
    BY InvokeShape
  <1> QED BY <1>1, <1>3, <1>4, Zenon DEF Waits

LEMMA LeaveEnds ==
  ASSUME NEW s \in Seq(Frame), Len(s) > 0, NEW m \in Globals, NEW r, r = Leave(s, m)
  PROVE  Ends(s, m, r)
  <1>1. s[Len(s)].orig_ret \in Value /\ s[Len(s)].over_ret \in Value
    BY InnermostFrame
  <1>2. /\ r.stack = SubSeq(s, 1, Len(s) - 1)
        /\ r.g = s[Len(s)].backup
        /\ r.noted = IF m.status = MRES_OVERRIDE THEN s[Len(s)].over_ret ELSE s[Len(s)].orig_ret
        /\ r.returned = IF m.status >= MRES_OVERRIDE THEN s[Len(s)].over_ret
                        ELSE s[Len(s)].orig_ret
    BY DEF Leave, Noted
  <1>3. m.status \in 0..4
    BY DEF Globals, Result, MRES_UNSET, MRES_SUPERCEDE
  <1>4. m.status # MRES_SUPERCEDE => (m.status >= MRES_OVERRIDE <=> m.status = MRES_OVERRIDE)
    BY <1>3 DEF MRES_OVERRIDE, MRES_SUPERCEDE
  <1>5. /\ r.stack \in Seq(Frame) /\ Len(r.stack) = Len(s) - 1
        /\ \A k \in 1..(Len(s) - 1) : r.stack[k] = s[k]
    BY <1>2, Shorter
  <1> QED BY <1>1, <1>2, <1>4, <1>5 DEF Ends

LEMMA PostFromShape ==
  ASSUME TypeOK, NEW s \in Seq(Frame), Len(s) > 0, NEW m \in Globals, NEW i,
         NEW r, r = PostFrom(s, m, i)
  PROVE  Waits(s, m, r) \/ Ends(s, m, r)
  <1>1. CASE r = Leave(s, m)
    BY <1>1, LeaveEnds
  <1>2. ASSUME NEW j \in Handlers(s[Len(s)].fn, "post", i), r = Invoke(s, m, "post", j)
        PROVE  Waits(s, m, r)
    <2>1. j \in Plugin /\ status[j] = "running"
      BY HandlerIs
    <2> QED BY <1>2, <2>1, InvokeWaits
  <1> QED BY <1>1, <1>2, PostFromCases

\* The same with another orig_ret.
LEMMA PostFromOrigShape ==
  ASSUME TypeOK, NEW s \in Seq(Frame), Len(s) > 0, NEW m \in Globals, NEW v \in Value,
         NEW r, r = PostFrom([s EXCEPT ![Len(s)].orig_ret = v], m, 0)
  PROVE  Waits(s, m, r) \/ Ends(s, m, r)
  <1> DEFINE t == [s EXCEPT ![Len(s)].orig_ret = v]
  <1>1. /\ t \in Seq(Frame) /\ Len(t) = Len(s)
        /\ \A k \in 1..(Len(s) - 1) : t[k] = s[k]
        /\ t[Len(s)].fn = s[Len(s)].fn
        /\ t[Len(s)].into = s[Len(s)].into
        /\ t[Len(s)].backup = s[Len(s)].backup
    BY OrigChanged
  <1> HIDE DEF t
  <1>2. r = PostFrom(t, m, 0)
    BY DEF t
  <1>3. Waits(t, m, r) \/ Ends(t, m, r)
    BY <1>1, <1>2, PostFromShape
  <1>4. CASE Waits(t, m, r)
    BY <1>1, <1>4 DEF Waits
  <1>5. CASE Ends(t, m, r)
    BY <1>1, <1>5 DEF Ends
  <1> QED BY <1>3, <1>4, <1>5

LEMMA OriginalOfShape ==
  ASSUME TypeOK, NEW s \in Seq(Frame), Len(s) > 0, NEW m \in Globals,
         NEW r, r = OriginalOf(s, m)
  PROVE  Waits(s, m, r) \/ Ends(s, m, r)
  <1>1. CASE r = PostFrom([s EXCEPT ![Len(s)].orig_ret = s[Len(s)].over_ret], m, 0)
    <2>1. s[Len(s)].over_ret \in Value
      BY InnermostFrame
    <2> QED BY <1>1, <2>1, PostFromOrigShape
  <1>2. CASE r = PostFrom([s EXCEPT ![Len(s)].orig_ret = FromDefault], m, 0)
    <2>1. FromDefault \in Value
      BY DEF Value
    <2> QED BY <1>2, <2>1, PostFromOrigShape
  <1>3. CASE r = [stack |-> [s EXCEPT ![Len(s)].at = <<"original", 0>>], g |-> m,
                  returned |-> Unwritten, noted |-> Unwritten]
    <2> DEFINE t == [s EXCEPT ![Len(s)].at = <<"original", 0>>]
    <2>1. /\ t \in Seq(Frame) /\ Len(t) = Len(s)
          /\ \A k \in 1..(Len(s) - 1) : t[k] = s[k]
          /\ t[Len(s)].fn = s[Len(s)].fn
          /\ t[Len(s)].at = <<"original", 0>>
          /\ t[Len(s)].into = s[Len(s)].into
          /\ t[Len(s)].backup = s[Len(s)].backup
      BY AtOriginal
    <2> HIDE DEF t
    <2>2. r.stack = t /\ r.g = m /\ r.returned = Unwritten /\ r.noted = Unwritten
      BY <1>3 DEF t
    <2>3. t[Len(s)].at[1] = "original"
      BY <2>1
    <2> QED BY <2>1, <2>2, <2>3 DEF Waits
  <1> QED BY <1>1, <1>2, <1>3, OriginalOfCases

LEMMA PreFromShape ==
  ASSUME TypeOK, NEW s \in Seq(Frame), Len(s) > 0, NEW m \in Globals, NEW i,
         NEW r, r = PreFrom(s, m, i)
  PROVE  Waits(s, m, r) \/ Ends(s, m, r)
  <1>1. CASE r = OriginalOf(s, m)
    BY <1>1, OriginalOfShape
  <1>2. ASSUME NEW j \in Handlers(s[Len(s)].fn, "pre", i), r = Invoke(s, m, "pre", j)
        PROVE  Waits(s, m, r)
    <2>1. j \in Plugin /\ status[j] = "running"
      BY HandlerIs
    <2> QED BY <1>2, <2>1, InvokeWaits
  <1> QED BY <1>1, <1>2, PreFromCases

----------------------------------------------------------------------------
(* The invariant.  The frames are linked through the esp_save of their     *)
(* backups, so meta_rebuild_callbacks meets each one; and then a frame     *)
(* that waits for a handler is at a call site of the code in memory, which *)
(* is there only while the plugin is loaded.                               *)

Linked == g.esp_save = Top /\ \A k \in 1..Top : stack[k].backup.esp_save = k - 1

IInv == TypeOK /\ Linked /\ HandlersReturn /\ HandlersStayLoaded

LEMMA InitIInv == Init => IInv
  <1> SUFFICES ASSUME Init PROVE IInv
    OBVIOUS
  <1>1. /\ stack = <<>> /\ Top = 0 /\ stack \in Seq(Frame)
    BY DEF Init, Top
  <1>2. g \in Globals /\ g.esp_save = 0
    BY MaxDepthAssumption DEF Init, Globals, Result, MRES_UNSET, MRES_SUPERCEDE
  <1>3. code \in Layout
    BY DEF Init, Layout
  <1>4. /\ status \in [Plugin -> {"gone", "running", "paused"}]
        /\ returned \in Value /\ noted \in Value /\ mode \in {"alive", "exited", "lost"}
    BY DEF Init, Value
  <1>5. TypeOK
    BY <1>1, <1>2, <1>3, <1>4, MaxDepthAssumption DEF TypeOK
  <1> QED BY <1>1, <1>2, <1>5 DEF IInv, Linked, HandlersReturn, HandlersStayLoaded

\* What the invariant says of frame k while the server is alive, if it is f.
FrameHolds(f, k) ==
  /\ f.backup.esp_save = k - 1
  /\ f.at[1] # "original" => f.into = code /\ status[f.at[2]] # "gone"

\* The same of the next state.
FrameKept(f, k) ==
  /\ f.backup.esp_save = k - 1
  /\ mode' = "alive" /\ f.at[1] # "original" => f.into = code' /\ status'[f.at[2]] # "gone"

LEMMA FramesHold ==
  ASSUME IInv, mode = "alive", NEW k \in 1..Top
  PROVE  FrameHolds(stack[k], k)
  BY DEF IInv, Linked, HandlersReturn, HandlersStayLoaded, FrameHolds

LEMMA KeptAsIs ==
  ASSUME code' = code, status' = status, NEW f, NEW k, FrameHolds(f, k)
  PROVE  FrameKept(f, k)
  BY DEF FrameKept, FrameHolds

LEMMA FramesKept ==
  ASSUME TypeOK', g'.esp_save = Len(stack'), \A k \in 1..Len(stack') : FrameKept(stack'[k], k)
  PROVE  IInv'
  <1>1. Linked'
    BY DEF Linked, FrameKept, Top
  <1>2. HandlersReturn'
    BY DEF HandlersReturn, FrameKept, Top
  <1>3. HandlersStayLoaded'
    BY DEF HandlersStayLoaded, FrameKept, Top
  <1> QED BY <1>1, <1>2, <1>3 DEF IInv

\* A stretch of compiled code keeps the invariant: s is the stack with its
\* innermost frame as the code has it, m the globals.
LEMMA ContinueIInv ==
  ASSUME IInv, mode = "alive",
         NEW s \in Seq(Frame), Len(s) > 0, Len(s) <= MaxDepth, Len(s) - 1 <= Top,
         \A k \in 1..(Len(s) - 1) : s[k] = stack[k],
         s[Len(s)].into = code, s[Len(s)].backup.esp_save = Len(s) - 1,
         NEW m \in Globals, m.esp_save = Len(s),
         NEW r, Waits(s, m, r) \/ Ends(s, m, r), Continue(r)
  PROVE  IInv'
  <1> DEFINE n == Len(s)
  <1>1. n \in Nat /\ n >= 1 /\ Top \in Nat /\ s[n] \in Frame /\ s[n].backup \in Globals
    BY InnermostFrame DEF IInv, TypeOK, Top
  <1>2. /\ stack' = r.stack /\ g' = r.g /\ returned' = r.returned /\ noted' = r.noted
        /\ code' = code /\ status' = status /\ mode' = mode
    BY DEF Continue
  <1>3. /\ stack' \in Seq(Frame) /\ Len(stack') <= MaxDepth
        /\ g' \in Globals /\ returned' \in Value /\ noted' \in Value
    <2>1. CASE Waits(s, m, r)
      BY <1>2, <2>1 DEF Waits, Value
    <2>2. CASE Ends(s, m, r)
      <3>1. Len(s) - 1 <= MaxDepth
        BY <1>1, MaxDepthAssumption
      <3> QED BY <1>1, <1>2, <2>2, <3>1 DEF Ends
    <2> QED BY <2>1, <2>2
  <1>4. TypeOK'
    BY <1>2, <1>3 DEF TypeOK, IInv, Top
  <1>5. \A k \in 1..(n - 1) : k \in 1..Top /\ s[k] = stack[k]
    BY <1>1
  <1>6. \A k \in 1..(n - 1) : FrameHolds(stack[k], k)
    BY <1>5, FramesHold
  <1>7. CASE Waits(s, m, r)
    <2>1. /\ Len(stack') = n
          /\ \A k \in 1..(n - 1) : stack'[k] = stack[k]
          /\ stack'[n].into = code
          /\ stack'[n].backup.esp_save = n - 1
          /\ stack'[n].at[1] # "original" => status[stack'[n].at[2]] = "running"
          /\ g'.esp_save = n
      BY <1>2, <1>5, <1>7 DEF Waits
    <2>2. ASSUME NEW k \in 1..Len(stack') PROVE FrameKept(stack'[k], k)
      <3>1. CASE k = n
        <4>1. status[stack'[n].at[2]] = "running" => status[stack'[n].at[2]] # "gone"
          OBVIOUS
        <4> QED BY <1>2, <2>1, <3>1, <4>1 DEF FrameKept
      <3>2. CASE k # n
        <4>1. k \in 1..(n - 1)
          BY <1>1, <2>1, <3>2
        <4>2. stack'[k] = stack[k]
          BY <2>1, <4>1
        <4>3. FrameKept(stack[k], k)
          BY <1>2, <1>6, <4>1, KeptAsIs
        <4> QED BY <4>2, <4>3
      <3> QED BY <3>1, <3>2
    <2> QED BY <1>4, <2>1, <2>2, FramesKept
  <1>8. CASE Ends(s, m, r)
    <2>1. /\ Len(stack') = n - 1
          /\ \A k \in 1..(n - 1) : stack'[k] = stack[k]
          /\ g'.esp_save = n - 1
      BY <1>2, <1>5, <1>8 DEF Ends
    <2>2. ASSUME NEW k \in 1..Len(stack') PROVE FrameKept(stack'[k], k)
      <3>1. k \in 1..(n - 1)
        BY <2>1
      <3>2. stack'[k] = stack[k]
        BY <2>1, <3>1
      <3>3. FrameKept(stack[k], k)
        BY <1>2, <1>6, <3>1, KeptAsIs
      <3> QED BY <3>2, <3>3
    <2> QED BY <1>4, <2>1, <2>2, FramesKept
  <1> QED BY <1>7, <1>8

\* The walk along esp_save meets every frame.
LEMMA ChainIsAll ==
  ASSUME IInv, NEW k \in 1..Top
  PROVE  k \in Chain
  <1> DEFINE n == Top + 1 - k
  <1> DEFINE walk == [m \in 1..n |-> Top + 1 - m]
  <1>1. Top \in Nat /\ k \in Nat /\ n \in 1..Top
    BY DEF IInv, TypeOK, Top
  <1>2. walk \in [1..n -> 1..Top]
    BY <1>1
  <1>3. walk[1] = g.esp_save
    BY <1>1 DEF IInv, Linked
  <1>4. walk[n] = k
    BY <1>1
  <1>5. ASSUME NEW m \in 1..(n - 1)
        PROVE  walk[m + 1] = stack[walk[m]].backup.esp_save
    <2>1. m \in 1..n /\ m + 1 \in 1..n /\ walk[m] = Top + 1 - m /\ walk[m + 1] = Top - m
      BY <1>1
    <2>2. Top + 1 - m \in 1..Top
      BY <1>1, <2>1
    <2>3. stack[Top + 1 - m].backup.esp_save = (Top + 1 - m) - 1
      BY <2>2 DEF IInv, Linked
    <2>4. (Top + 1 - m) - 1 = Top - m
      BY <1>1
    <2> HIDE DEF walk
    <2> QED BY <2>1, <2>3, <2>4
  <1> HIDE DEF walk, n
  <1> QED BY <1>1, <1>2, <1>3, <1>4, <1>5 DEF Chain

\* A frame that waits for a handler is collected: the scan from its own
\* backup finds its own return address first.
LEMMA WaitingCollected ==
  ASSUME IInv, mode = "alive", NEW k \in 1..Top, stack[k].at[1] # "original"
  PROVE  k \in Collected
  <1>1. Registered(k)
    BY DEF Registered, IInv, HandlersReturn
  <1>2. Top \in Nat /\ k \in Nat /\ k \in k..Top
    BY DEF IInv, TypeOK, Top
  <1>3. k \in Hits(k)
    BY <1>1, <1>2 DEF Hits
  <1>4. Hits(k) \in SUBSET Nat /\ \A j \in Hits(k) : j >= k
    BY <1>2 DEF Hits
  <1>5. Least(Hits(k)) \in Hits(k) /\ Least(Hits(k)) <= k
    BY <1>3, <1>4, LeastIsLeast
  <1>6. Least(Hits(k)) = k
    BY <1>2, <1>4, <1>5
  <1> QED BY <1>3, <1>6, ChainIsAll DEF Collected

\* The layout that a rebuild compiles.
LEMMA NewLayout ==
  ASSUME NEW plugins \in SUBSET Plugin, NEW tabled, NEW s, Rebuild(s, plugins, tabled)
  PROVE  code' \in Layout /\ code'.plugins = plugins
  BY DEF Rebuild, Layout

\* A rebuild keeps the invariant: s is the stack, some calls no longer owed.
LEMMA RebuildIInv ==
  ASSUME IInv, mode = "alive",
         NEW plugins \in SUBSET Plugin, NEW tabled,
         NEW s \in Seq(Frame), Len(s) = Top,
         \A k \in 1..Top : s[k].at = stack[k].at /\ s[k].backup = stack[k].backup,
         Rebuild(s, plugins, tabled),
         status' \in [Plugin -> {"gone", "running", "paused"}],
         \A i \in plugins : status'[i] # "gone",
         g' = g, returned' = returned, noted' = noted
  PROVE  IInv'
  <1>1. Top \in Nat /\ Top <= MaxDepth /\ g.esp_save = Top
    BY DEF IInv, TypeOK, Top, Linked
  <1>2. code' \in Layout
    BY NewLayout
  <1>3. \A k \in 1..Top : stack[k].backup.esp_save = k - 1
    BY DEF IInv, Linked
  <1>4. CASE Unfound(plugins) # {}
    <2>1. stack' = s /\ mode' = "exited"
      BY <1>4 DEF Rebuild
    <2>2. TypeOK'
      BY <1>1, <1>2, <2>1 DEF IInv, TypeOK, Top
    <2>3. \A k \in 1..Len(stack') : FrameKept(stack'[k], k)
      BY <1>3, <2>1 DEF FrameKept
    <2> QED BY <1>1, <2>1, <2>2, <2>3, FramesKept
  <1>5. CASE Unfound(plugins) = {}
    <2> DEFINE f(k) == IF k \in Collected THEN [s[k] EXCEPT !.into = code'] ELSE s[k]
    <2>1. stack' = [k \in 1..Top |-> f(k)] /\ mode' \in {"alive", "lost"}
      BY <1>5 DEF Rebuild
    <2>2. \A k \in 1..Top : /\ f(k) \in Frame
                            /\ f(k).at = stack[k].at /\ f(k).backup = stack[k].backup
                            /\ k \in Collected => f(k).into = code'
      <3> TAKE k \in 1..Top
      <3>1. s[k] \in Frame
        OBVIOUS
      <3> QED BY <1>2, <3>1 DEF Frame
    <2> HIDE DEF f
    <2>3. stack' \in Seq(Frame) /\ Len(stack') = Top /\ \A k \in 1..Top : stack'[k] = f(k)
      BY <1>1, <2>1, <2>2
    <2>4. TypeOK'
      BY <1>1, <1>2, <2>1, <2>3 DEF IInv, TypeOK, Top
    <2>5. ASSUME NEW k \in 1..Top PROVE FrameKept(f(k), k)
      <3>1. f(k).backup.esp_save = k - 1
        BY <1>3, <2>2
      <3>2. ASSUME f(k).at[1] # "original"
            PROVE  f(k).into = code' /\ status'[f(k).at[2]] # "gone"
        <4>1. k \in Collected
          BY <2>2, <3>2, WaitingCollected
        <4>2. stack[k].at[2] \in plugins
          BY <1>5, <4>1 DEF Unfound
        <4> QED BY <2>2, <4>1, <4>2
      <3> QED BY <3>1, <3>2 DEF FrameKept
    <2> QED BY <1>1, <2>3, <2>4, <2>5, FramesKept
  <1> QED BY <1>4, <1>5

\* Released takes nothing but calls that are owed.
LEMMA ReleasedStack ==
  ASSUME TypeOK, NEW i
  PROVE  /\ Released(i) \in Seq(Frame) /\ Len(Released(i)) = Top
         /\ \A k \in 1..Top : /\ Released(i)[k].fn = stack[k].fn
                              /\ Released(i)[k].at = stack[k].at
                              /\ Released(i)[k].into = stack[k].into
                              /\ Released(i)[k].backup = stack[k].backup
                              /\ Released(i)[k].orig_ret = stack[k].orig_ret
                              /\ Released(i)[k].over_ret = stack[k].over_ret
                              /\ Released(i)[k].owed = {x \in stack[k].owed : x[2] # i}
  <1> DEFINE f(k) == [stack[k] EXCEPT !.owed = {x \in @ : x[2] # i}]
  <1>1. Top \in Nat
    BY DEF TypeOK, Top
  <1>2. \A k \in 1..Top : /\ f(k) \in Frame
                          /\ f(k).fn = stack[k].fn /\ f(k).at = stack[k].at
                          /\ f(k).into = stack[k].into /\ f(k).backup = stack[k].backup
                          /\ f(k).orig_ret = stack[k].orig_ret
                          /\ f(k).over_ret = stack[k].over_ret
                          /\ f(k).owed = {x \in stack[k].owed : x[2] # i}
    <2> TAKE k \in 1..Top
    <2>1. stack[k] \in Frame
      BY DEF TypeOK, Top
    <2> QED BY <2>1 DEF Frame
  <1>3. Released(i) = [k \in 1..Top |-> f(k)]
    BY DEF Released
  <1> HIDE DEF f
  <1>4. /\ Released(i) \in Seq(Frame) /\ Len(Released(i)) = Top
        /\ \A k \in 1..Top : Released(i)[k] = f(k)
    BY <1>1, <1>2, <1>3
  <1> QED BY <1>2, <1>4

----------------------------------------------------------------------------
(* The actions.                                                            *)

\* The frame and the globals that a call begins with.
Due(fn) == {x \in {"pre", "post"} \X Plugin : x[2] \in Handlers(fn, x[1], 0)}

NewFrame(fn) == [fn |-> fn, at |-> <<"original", 0>>, into |-> code, backup |-> g,
                 orig_ret |-> Unwritten, over_ret |-> Unwritten, owed |-> Due(fn)]

NewGlobals == [g EXCEPT !.mres = MRES_UNSET, !.status = MRES_UNSET, !.esp_save = Top + 1]

LEMMA CallIs ==
  ASSUME NEW fn \in Fn, Call(fn)
  PROVE  /\ mode = "alive" /\ Top < MaxDepth
         /\ Continue(PreFrom(Append(stack, NewFrame(fn)), NewGlobals, 0))
  BY Zenon DEF Call, NewFrame, NewGlobals, Due

LEMMA NewFrameTypes ==
  ASSUME TypeOK, Top < MaxDepth, NEW fn \in Fn
  PROVE  /\ NewFrame(fn) \in Frame
         /\ NewFrame(fn).fn = fn /\ NewFrame(fn).at = <<"original", 0>>
         /\ NewFrame(fn).into = code /\ NewFrame(fn).backup = g
         /\ NewFrame(fn).orig_ret = Unwritten /\ NewFrame(fn).over_ret = Unwritten
         /\ NewFrame(fn).owed = Due(fn)
         /\ NewGlobals \in Globals /\ NewGlobals.esp_save = Top + 1
         /\ NewGlobals.mres = MRES_UNSET /\ NewGlobals.status = MRES_UNSET
  <1>1. <<"original", 0>> \in Site /\ Unwritten \in Value
    BY DEF Site, Value
  <1>2. Due(fn) \subseteq {"pre", "post"} \X Plugin
    BY DEF Due
  <1>3. g \in Globals /\ code \in Layout
    BY DEF TypeOK
  <1>4. /\ NewFrame(fn) \in Frame
        /\ NewFrame(fn).fn = fn /\ NewFrame(fn).at = <<"original", 0>>
        /\ NewFrame(fn).into = code /\ NewFrame(fn).backup = g
        /\ NewFrame(fn).orig_ret = Unwritten /\ NewFrame(fn).over_ret = Unwritten
        /\ NewFrame(fn).owed = Due(fn)
    BY <1>1, <1>2, <1>3 DEF NewFrame, Frame
  <1>5. Top + 1 \in 0..MaxDepth /\ MRES_UNSET \in Result
    BY MaxDepthAssumption DEF TypeOK, Top, Result, MRES_UNSET, MRES_SUPERCEDE
  <1>6. /\ NewGlobals \in Globals /\ NewGlobals.esp_save = Top + 1
        /\ NewGlobals.mres = MRES_UNSET /\ NewGlobals.status = MRES_UNSET
    BY <1>3, <1>5 DEF NewGlobals, Globals
  <1> QED BY <1>4, <1>6

\* The stack with the frame of the call.
LEMMA NewStack ==
  ASSUME TypeOK, Top < MaxDepth, NEW fn \in Fn, NEW s, s = Append(stack, NewFrame(fn))
  PROVE  /\ s \in Seq(Frame) /\ Len(s) = Top + 1 /\ s[Top + 1] = NewFrame(fn)
         /\ \A k \in 1..Top : s[k] = stack[k]
         /\ Top \in Nat /\ Len(s) > 0 /\ Len(s) <= MaxDepth
  <1>1. stack \in Seq(Frame) /\ Top \in Nat
    BY DEF TypeOK, Top
  <1>2. NewFrame(fn) \in Frame
    BY NewFrameTypes
  <1>3. /\ s \in Seq(Frame) /\ Len(s) = Top + 1 /\ s[Top + 1] = NewFrame(fn)
        /\ \A k \in 1..Top : s[k] = stack[k]
    <2> DEFINE f == NewFrame(fn)
    <2> HIDE DEF f
    <2>1. f \in Frame /\ s = Append(stack, f)
      BY <1>2 DEF f
    <2>2. /\ s \in Seq(Frame) /\ Len(s) = Top + 1 /\ s[Top + 1] = f
          /\ \A k \in 1..Top : s[k] = stack[k]
      BY <1>1, <2>1 DEF Top
    <2> QED BY <2>2 DEF f
  <1> QED BY <1>1, <1>3, MaxDepthAssumption

LEMMA CallIInv ==
  ASSUME IInv, NEW fn \in Fn, Call(fn)
  PROVE  IInv'
  <1>1. /\ mode = "alive" /\ Top < MaxDepth
        /\ Continue(PreFrom(Append(stack, NewFrame(fn)), NewGlobals, 0))
    BY CallIs
  <1> DEFINE s == Append(stack, NewFrame(fn))
  <1> DEFINE r == PreFrom(s, NewGlobals, 0)
  <1>2. TypeOK /\ g.esp_save = Top
    BY DEF IInv, Linked
  <1>3. /\ s \in Seq(Frame) /\ Len(s) = Top + 1 /\ s[Top + 1] = NewFrame(fn)
        /\ \A k \in 1..Top : s[k] = stack[k]
        /\ Top \in Nat /\ Len(s) > 0 /\ Len(s) <= MaxDepth
    BY <1>1, <1>2, NewStack
  <1>4. /\ NewFrame(fn).into = code /\ NewFrame(fn).backup = g
        /\ NewGlobals \in Globals /\ NewGlobals.esp_save = Top + 1
    BY <1>1, <1>2, NewFrameTypes
  <1> HIDE DEF s
  <1>5. Waits(s, NewGlobals, r) \/ Ends(s, NewGlobals, r)
    BY <1>2, <1>3, <1>4, PreFromShape
  <1>6. Continue(r)
    BY <1>1 DEF s
  <1> HIDE DEF r
  <1>7. /\ Len(s) - 1 <= Top /\ \A k \in 1..(Len(s) - 1) : s[k] = stack[k]
        /\ s[Len(s)].into = code /\ s[Len(s)].backup.esp_save = Len(s) - 1
        /\ NewGlobals.esp_save = Len(s)
    BY <1>2, <1>3, <1>4
  <1> QED BY <1>1, <1>3, <1>4, <1>5, <1>6, <1>7, ContinueIInv

LEMMA SetResultIInv ==
  ASSUME IInv, NEW mres \in Answers, SetResult(mres)
  PROVE  IInv'
  <1>1. /\ mode = "alive" /\ g' = [g EXCEPT !.mres = mres] /\ stack' = stack /\ code' = code
        /\ status' = status /\ mode' = mode /\ returned' = Unwritten /\ noted' = Unwritten
    BY DEF SetResult, InHandler
  <1>2. mres \in Result
    BY AnswersAssumption DEF Result, MRES_IGNORED, MRES_UNSET, MRES_SUPERCEDE
  <1>3. g' \in Globals /\ g'.esp_save = g.esp_save
    BY <1>1, <1>2 DEF IInv, TypeOK, Globals
  <1>4. TypeOK'
    BY <1>1, <1>3 DEF IInv, TypeOK, Top, Value
  <1>5. \A k \in 1..Len(stack') : FrameKept(stack'[k], k)
    BY <1>1, FramesHold, KeptAsIs DEF Top
  <1>6. g'.esp_save = Len(stack')
    BY <1>1, <1>3 DEF IInv, Linked, Top
  <1> QED BY <1>4, <1>5, <1>6, FramesKept

\* What a handler leaves when it returns.
OverStack == [stack EXCEPT ![Top].over_ret = Override(stack[Top].at[2], stack[Top].over_ret)]

SettledGlobals == [g EXCEPT !.status = Highest(g.mres, g.status)]

LEMMA InnermostCall ==
  ASSUME TypeOK, Top > 0
  PROVE  /\ stack \in Seq(Frame) /\ Len(stack) = Top /\ Len(stack) > 0
         /\ Top \in Nat /\ Top \in 1..Top /\ Top <= MaxDepth
         /\ stack[Top].at \in Site
         /\ stack[Top].orig_ret \in Value /\ stack[Top].over_ret \in Value
  <1>1. /\ stack \in Seq(Frame) /\ Len(stack) = Top /\ Len(stack) > 0
        /\ Top \in Nat /\ Top \in 1..Top /\ Top <= MaxDepth
    BY DEF TypeOK, Top
  <1> QED BY <1>1, InnermostFrame

LEMMA HandlerReturnIs ==
  ASSUME TypeOK, HandlerReturn
  PROVE  /\ mode = "alive" /\ Top > 0 /\ stack[Top].into = code
         /\ stack[Top].at[1] \in {"pre", "post"} /\ stack[Top].at[2] \in Plugin
         /\ stack[Top].at = <<stack[Top].at[1], stack[Top].at[2]>>
         /\ stack[Top].at[1] = "pre" => Continue(PreFrom(OverStack, SettledGlobals, stack[Top].at[2]))
         /\ stack[Top].at[1] = "post" => Continue(PostFrom(OverStack, SettledGlobals, stack[Top].at[2]))
  <1>1. mode = "alive" /\ Top > 0 /\ stack[Top].at[1] # "original" /\ stack[Top].into = code
    BY DEF HandlerReturn, InHandler
  <1>2. stack[Top].at \in Site
    BY <1>1, InnermostCall
  <1>3. /\ stack[Top].at[1] \in {"pre", "post"} /\ stack[Top].at[2] \in Plugin
        /\ stack[Top].at = <<stack[Top].at[1], stack[Top].at[2]>>
    BY <1>1, <1>2 DEF Site
  <1>4. Continue(IF stack[Top].at[1] = "pre"
                 THEN PreFrom(OverStack, SettledGlobals, stack[Top].at[2])
                 ELSE PostFrom(OverStack, SettledGlobals, stack[Top].at[2]))
    BY Zenon DEF HandlerReturn, OverStack, SettledGlobals
  <1>5. stack[Top].at[1] = "post" => stack[Top].at[1] # "pre"
    OBVIOUS
  <1> QED BY <1>1, <1>3, <1>4, <1>5

LEMMA SettledTypes ==
  ASSUME TypeOK
  PROVE  /\ SettledGlobals \in Globals /\ SettledGlobals.esp_save = g.esp_save
         /\ SettledGlobals.mres = g.mres /\ SettledGlobals.prev_mres = g.prev_mres
         /\ SettledGlobals.status = Highest(g.mres, g.status)
  <1>1. g \in Globals /\ g.mres \in Result /\ g.status \in Result
    BY DEF TypeOK, Globals
  <1>2. Highest(g.mres, g.status) \in Result
    BY <1>1 DEF Highest
  <1> QED BY <1>1, <1>2 DEF SettledGlobals, Globals

LEMMA OverStackShape ==
  ASSUME TypeOK, Top > 0, stack[Top].at[2] \in Plugin
  PROVE  /\ OverStack \in Seq(Frame) /\ Len(OverStack) = Top
         /\ \A k \in 1..(Top - 1) : OverStack[k] = stack[k]
         /\ OverStack[Top].fn = stack[Top].fn
         /\ OverStack[Top].at = stack[Top].at
         /\ OverStack[Top].into = stack[Top].into
         /\ OverStack[Top].backup = stack[Top].backup
         /\ OverStack[Top].orig_ret = stack[Top].orig_ret
         /\ OverStack[Top].over_ret = Override(stack[Top].at[2], stack[Top].over_ret)
         /\ OverStack[Top].owed = stack[Top].owed
  <1>1. Override(stack[Top].at[2], stack[Top].over_ret) \in Value
    BY InnermostCall DEF Override, Value
  <1>2. stack \in Seq(Frame) /\ Len(stack) = Top /\ Len(stack) > 0
    BY InnermostCall
  <1> DEFINE v == Override(stack[Top].at[2], stack[Top].over_ret)
  <1> DEFINE t == [stack EXCEPT ![Len(stack)].over_ret = v]
  <1>3. OverStack = t
    BY <1>2 DEF OverStack
  <1> HIDE DEF v
  <1>4. v \in Value
    BY <1>1 DEF v
  <1>5. /\ t \in Seq(Frame) /\ Len(t) = Len(stack)
        /\ \A k \in 1..(Len(stack) - 1) : t[k] = stack[k]
        /\ t[Len(stack)].fn = stack[Len(stack)].fn
        /\ t[Len(stack)].at = stack[Len(stack)].at
        /\ t[Len(stack)].into = stack[Len(stack)].into
        /\ t[Len(stack)].backup = stack[Len(stack)].backup
        /\ t[Len(stack)].orig_ret = stack[Len(stack)].orig_ret
        /\ t[Len(stack)].over_ret = v
        /\ t[Len(stack)].owed = stack[Len(stack)].owed
    BY <1>2, <1>4, OverChanged
  <1> HIDE DEF t
  <1> QED BY <1>2, <1>3, <1>5 DEF v

LEMMA HandlerReturnIInv ==
  ASSUME IInv, HandlerReturn
  PROVE  IInv'
  <1>1. TypeOK /\ g.esp_save = Top /\ \A k \in 1..Top : stack[k].backup.esp_save = k - 1
    BY DEF IInv, Linked
  <1>2. /\ mode = "alive" /\ Top > 0 /\ stack[Top].into = code
        /\ stack[Top].at[1] \in {"pre", "post"} /\ stack[Top].at[2] \in Plugin
        /\ stack[Top].at[1] = "pre" => Continue(PreFrom(OverStack, SettledGlobals, stack[Top].at[2]))
        /\ stack[Top].at[1] = "post" => Continue(PostFrom(OverStack, SettledGlobals, stack[Top].at[2]))
    BY <1>1, HandlerReturnIs
  <1>3. /\ OverStack \in Seq(Frame) /\ Len(OverStack) = Top
        /\ \A k \in 1..(Top - 1) : OverStack[k] = stack[k]
        /\ OverStack[Top].into = stack[Top].into
        /\ OverStack[Top].backup = stack[Top].backup
    BY <1>1, <1>2, OverStackShape
  <1>4. SettledGlobals \in Globals /\ SettledGlobals.esp_save = Top
    BY <1>1, SettledTypes
  <1>5. Top \in Nat /\ Top \in 1..Top /\ Top <= MaxDepth
    BY <1>1, <1>2, InnermostCall
  <1>6. /\ Len(OverStack) > 0 /\ Len(OverStack) <= MaxDepth /\ Len(OverStack) - 1 <= Top
        /\ \A k \in 1..(Len(OverStack) - 1) : OverStack[k] = stack[k]
        /\ OverStack[Len(OverStack)].into = code
        /\ OverStack[Len(OverStack)].backup.esp_save = Len(OverStack) - 1
        /\ SettledGlobals.esp_save = Len(OverStack)
    BY <1>1, <1>2, <1>3, <1>4, <1>5
  <1>7. CASE stack[Top].at[1] = "pre"
    <2> DEFINE r == PreFrom(OverStack, SettledGlobals, stack[Top].at[2])
    <2>1. Waits(OverStack, SettledGlobals, r) \/ Ends(OverStack, SettledGlobals, r)
      BY <1>1, <1>3, <1>4, <1>6, PreFromShape
    <2>2. Continue(r)
      BY <1>2, <1>7
    <2> HIDE DEF r
    <2> QED BY <1>2, <1>3, <1>4, <1>6, <2>1, <2>2, ContinueIInv
  <1>8. CASE stack[Top].at[1] = "post"
    <2> DEFINE r == PostFrom(OverStack, SettledGlobals, stack[Top].at[2])
    <2>1. Waits(OverStack, SettledGlobals, r) \/ Ends(OverStack, SettledGlobals, r)
      BY <1>1, <1>3, <1>4, <1>6, PostFromShape
    <2>2. Continue(r)
      BY <1>2, <1>8
    <2> HIDE DEF r
    <2> QED BY <1>2, <1>3, <1>4, <1>6, <2>1, <2>2, ContinueIInv
  <1> QED BY <1>2, <1>7, <1>8

LEMMA OriginalReturnIInv ==
  ASSUME IInv, OriginalReturn
  PROVE  IInv'
  <1>1. TypeOK /\ g.esp_save = Top /\ g \in Globals
        /\ \A k \in 1..Top : stack[k].backup.esp_save = k - 1
    BY DEF IInv, Linked, TypeOK
  <1>2. /\ mode = "alive" /\ Top > 0 /\ stack[Top].into = code
        /\ Continue(PostFrom([stack EXCEPT ![Top].orig_ret = FromOriginal], g, 0))
    BY DEF OriginalReturn, InOriginal
  <1>3. /\ stack \in Seq(Frame) /\ Len(stack) = Top /\ Len(stack) > 0
        /\ Top \in Nat /\ Top \in 1..Top /\ Top <= MaxDepth
    BY <1>1, <1>2, InnermostCall
  <1> DEFINE r == PostFrom([stack EXCEPT ![Len(stack)].orig_ret = FromOriginal], g, 0)
  <1>4. Continue(r)
    BY <1>2, <1>3
  <1>5. FromOriginal \in Value
    BY DEF Value
  <1>6. Waits(stack, g, r) \/ Ends(stack, g, r)
    BY <1>1, <1>3, <1>5, PostFromOrigShape
  <1> HIDE DEF r
  <1>7. /\ Len(stack) <= MaxDepth /\ Len(stack) - 1 <= Top
        /\ \A k \in 1..(Len(stack) - 1) : stack[k] = stack[k]
        /\ stack[Len(stack)].into = code /\ stack[Len(stack)].backup.esp_save = Len(stack) - 1
        /\ g.esp_save = Len(stack)
    BY <1>1, <1>2, <1>3
  <1> QED BY <1>1, <1>2, <1>3, <1>4, <1>6, <1>7, ContinueIInv

LEMMA ReturnAstrayIInv ==
  ASSUME IInv, ReturnAstray
  PROVE  IInv'
  <1>1. /\ mode' = "lost" /\ g' = g /\ stack' = stack /\ code' = code /\ status' = status
        /\ returned' = returned /\ noted' = noted
    BY DEF ReturnAstray
  <1>2. TypeOK'
    BY <1>1 DEF IInv, TypeOK, Top
  <1>3. \A k \in 1..Len(stack') : FrameKept(stack'[k], k)
    BY <1>1 DEF IInv, Linked, FrameKept, Top
  <1>4. g'.esp_save = Len(stack')
    BY <1>1 DEF IInv, Linked, Top
  <1> QED BY <1>2, <1>3, <1>4, FramesKept

LEMMA LoadPluginIInv ==
  ASSUME IInv, NEW i \in Plugin, LoadPlugin(i)
  PROVE  IInv'
  <1>1. /\ mode = "alive" /\ status' = [status EXCEPT ![i] = "running"]
        /\ g' = g /\ returned' = returned /\ noted' = noted
        /\ Rebuild(stack, Loaded(status'), Loaded(status'))
    BY DEF LoadPlugin
  <1>2. status' \in [Plugin -> {"gone", "running", "paused"}]
    BY <1>1 DEF IInv, TypeOK
  <1>3. Loaded(status') \subseteq Plugin /\ \A j \in Loaded(status') : status'[j] # "gone"
    BY DEF Loaded
  <1>4. stack \in Seq(Frame) /\ Len(stack) = Top
    BY DEF IInv, TypeOK, Top
  <1> QED BY <1>1, <1>2, <1>3, <1>4, RebuildIInv

LEMMA UnloadPluginIInv ==
  ASSUME IInv, NEW i \in Plugin, UnloadPlugin(i)
  PROVE  IInv'
  <1>1. /\ mode = "alive" /\ status' = [status EXCEPT ![i] = "gone"]
        /\ g' = g /\ returned' = returned /\ noted' = noted
        /\ Rebuild(Released(i), Loaded(status'), Loaded(status'))
    BY DEF UnloadPlugin
  <1>2. status' \in [Plugin -> {"gone", "running", "paused"}]
    BY <1>1 DEF IInv, TypeOK
  <1>3. Loaded(status') \subseteq Plugin /\ \A j \in Loaded(status') : status'[j] # "gone"
    BY DEF Loaded
  <1>4. /\ Released(i) \in Seq(Frame) /\ Len(Released(i)) = Top
        /\ \A k \in 1..Top : /\ Released(i)[k].at = stack[k].at
                             /\ Released(i)[k].backup = stack[k].backup
    BY ReleasedStack DEF IInv
  <1> QED BY <1>1, <1>2, <1>3, <1>4, RebuildIInv

LEMMA ReloadPluginIInv ==
  ASSUME IInv, NEW i \in Plugin, ReloadPlugin(i)
  PROVE  IInv'
  <1>1. /\ mode = "alive" /\ status' = [status EXCEPT ![i] = "running"]
        /\ g' = g /\ returned' = returned /\ noted' = noted
        /\ Rebuild(Released(i), Loaded(status) \ {i}, Loaded(status))
    BY DEF ReloadPlugin
  <1>2. status' \in [Plugin -> {"gone", "running", "paused"}]
    BY <1>1 DEF IInv, TypeOK
  <1>3. /\ Loaded(status) \ {i} \subseteq Plugin
        /\ \A j \in Loaded(status) \ {i} : status'[j] # "gone"
    BY <1>1 DEF Loaded, IInv, TypeOK
  <1>4. /\ Released(i) \in Seq(Frame) /\ Len(Released(i)) = Top
        /\ \A k \in 1..Top : /\ Released(i)[k].at = stack[k].at
                             /\ Released(i)[k].backup = stack[k].backup
    BY ReleasedStack DEF IInv
  <1> QED BY <1>1, <1>2, <1>3, <1>4, RebuildIInv

LEMMA RefreshIInv ==
  ASSUME IInv, Refresh
  PROVE  IInv'
  <1>1. /\ mode = "alive" /\ status' = status
        /\ g' = g /\ returned' = returned /\ noted' = noted
        /\ Rebuild(stack, Loaded(status), Loaded(status))
    BY DEF Refresh
  <1>2. status' \in [Plugin -> {"gone", "running", "paused"}]
    BY <1>1 DEF IInv, TypeOK
  <1>3. Loaded(status) \subseteq Plugin /\ \A j \in Loaded(status) : status'[j] # "gone"
    BY <1>1 DEF Loaded
  <1>4. stack \in Seq(Frame) /\ Len(stack) = Top
    BY DEF IInv, TypeOK, Top
  <1> QED BY <1>1, <1>2, <1>3, <1>4, RebuildIInv

\* A plugin that is paused or unpaused stays loaded.
LEMMA StatusFramesKept ==
  ASSUME IInv, mode = "alive", code' = code, NEW i \in Plugin, NEW to, to # "gone",
         status' = [status EXCEPT ![i] = to],
         NEW f, NEW k \in 1..Top, f.at = stack[k].at, f.into = stack[k].into,
         f.backup = stack[k].backup
  PROVE  FrameKept(f, k)
  <1>1. FrameHolds(stack[k], k)
    BY FramesHold
  <1>2. \A j : status[j] # "gone" => status'[j] # "gone"
    BY DEF IInv, TypeOK
  <1> QED BY <1>1, <1>2 DEF FrameHolds, FrameKept

LEMMA PausePluginIInv ==
  ASSUME IInv, NEW i \in Plugin, PausePlugin(i)
  PROVE  IInv'
  <1>1. /\ mode = "alive" /\ status' = [status EXCEPT ![i] = "paused"] /\ stack' = Released(i)
        /\ g' = g /\ code' = code /\ returned' = returned /\ noted' = noted /\ mode' = mode
    BY DEF PausePlugin
  <1>2. /\ Released(i) \in Seq(Frame) /\ Len(Released(i)) = Top
        /\ \A k \in 1..Top : /\ Released(i)[k].at = stack[k].at
                             /\ Released(i)[k].into = stack[k].into
                             /\ Released(i)[k].backup = stack[k].backup
    BY ReleasedStack DEF IInv
  <1>3. TypeOK'
    BY <1>1, <1>2 DEF IInv, TypeOK, Top
  <1>4. \A k \in 1..Len(stack') : FrameKept(stack'[k], k)
    BY <1>1, <1>2, StatusFramesKept
  <1>5. g'.esp_save = Len(stack')
    BY <1>1, <1>2 DEF IInv, Linked
  <1> QED BY <1>3, <1>4, <1>5, FramesKept

LEMMA UnpausePluginIInv ==
  ASSUME IInv, NEW i \in Plugin, UnpausePlugin(i)
  PROVE  IInv'
  <1>1. /\ mode = "alive" /\ status' = [status EXCEPT ![i] = "running"] /\ stack' = stack
        /\ g' = g /\ code' = code /\ returned' = returned /\ noted' = noted /\ mode' = mode
    BY DEF UnpausePlugin
  <1>2. TypeOK'
    BY <1>1 DEF IInv, TypeOK, Top
  <1>3. \A k \in 1..Len(stack') : FrameKept(stack'[k], k)
    BY <1>1, StatusFramesKept DEF Top
  <1>4. g'.esp_save = Len(stack')
    BY <1>1 DEF IInv, Linked, Top
  <1> QED BY <1>2, <1>3, <1>4, FramesKept

LEMMA StutterIInv ==
  ASSUME IInv, UNCHANGED vars
  PROVE  IInv'
  BY DEF IInv, vars, TypeOK, Linked, HandlersReturn, HandlersStayLoaded, Top

\* The invariant is inductive.
THEOREM NextIInv == IInv /\ [Next]_vars => IInv'
  <1> SUFFICES ASSUME IInv, [Next]_vars PROVE IInv'
    OBVIOUS
  <1>1. ASSUME NEW fn \in Fn, Call(fn) PROVE IInv'
    BY <1>1, CallIInv
  <1>2. ASSUME NEW mres \in Answers, SetResult(mres) PROVE IInv'
    BY <1>2, SetResultIInv
  <1>3. CASE HandlerReturn
    BY <1>3, HandlerReturnIInv
  <1>4. CASE OriginalReturn
    BY <1>4, OriginalReturnIInv
  <1>5. CASE ReturnAstray
    BY <1>5, ReturnAstrayIInv
  <1>6. ASSUME NEW i \in Plugin, LoadPlugin(i) PROVE IInv'
    BY <1>6, LoadPluginIInv
  <1>7. ASSUME NEW i \in Plugin, UnloadPlugin(i) PROVE IInv'
    BY <1>7, UnloadPluginIInv
  <1>8. ASSUME NEW i \in Plugin, ReloadPlugin(i) PROVE IInv'
    BY <1>8, ReloadPluginIInv
  <1>9. ASSUME NEW i \in Plugin, PausePlugin(i) PROVE IInv'
    BY <1>9, PausePluginIInv
  <1>10. ASSUME NEW i \in Plugin, UnpausePlugin(i) PROVE IInv'
    BY <1>10, UnpausePluginIInv
  <1>11. CASE Refresh
    BY <1>11, RefreshIInv
  <1>12. CASE UNCHANGED vars
    BY <1>12, StutterIInv
  <1> QED BY <1>1, <1>2, <1>3, <1>4, <1>5, <1>6, <1>7, <1>8, <1>9, <1>10, <1>11, <1>12 DEF Next

\* At every state each frame waits in the code in memory or for the original,
\* and the chain of saved globals leads through all of them.
THEOREM Invariance == Spec => []IInv
  <1>1. Init => IInv
    BY InitIInv
  <1>2. IInv /\ [Next]_vars => IInv'
    BY NextIInv
  <1> QED BY <1>1, <1>2, PTL DEF Spec

\* Every variable keeps its type.
THEOREM TypeCorrect == Spec => []TypeOK
  <1>1. IInv => TypeOK
    BY DEF IInv
  <1> QED BY <1>1, Invariance, PTL

\* Whatever is loaded, unloaded and reloaded, and from however deep, a frame
\* that waits for a handler is at a call site of the code that is in memory.
THEOREM HandlersReturnHolds == Spec => []HandlersReturn
  <1>1. IInv => HandlersReturn
    BY DEF IInv
  <1> QED BY <1>1, Invariance, PTL

\* While the server runs no handler is on the stack of a module that is closed.
THEOREM HandlersStayLoadedHolds == Spec => []HandlersStayLoaded
  <1>1. IInv => HandlersStayLoaded
    BY DEF IInv
  <1> QED BY <1>1, Invariance, PTL

----------------------------------------------------------------------------
(* Nobody is skipped.  What a frame owes lies ahead of the call it waits   *)
(* for, and while the server is alive it is compiled in and running.       *)

Ahead(f, x) ==
  /\ x[1] = "pre" => f.at[1] = "pre" /\ x[2] > f.at[2]
  /\ x[1] = "post" /\ f.at[1] = "post" => x[2] > f.at[2]

Compiled(f, x) == x[2] \in code.plugins /\ status[x[2]] = "running" /\ <<x[2], f.fn, x[1]>> \in Hooks

OwedAhead == \A k \in 1..Top : \A x \in stack[k].owed : Ahead(stack[k], x)

OwedCompiled == mode = "alive" => \A k \in 1..Top : \A x \in stack[k].owed : Compiled(stack[k], x)

OInv == IInv /\ OwedAhead /\ OwedCompiled

\* A debt of the frame is a pair of a phase and a plugin.
LEMMA DebtIs ==
  ASSUME NEW f \in Frame, NEW x \in f.owed
  PROVE  x[1] \in {"pre", "post"} /\ x[2] \in Plugin /\ x[2] \in Nat /\ x = <<x[1], x[2]>>
  <1>1. x \in {"pre", "post"} \X Plugin
    BY DEF Frame
  <1>2. x[1] \in {"pre", "post"} /\ x[2] \in Plugin /\ x = <<x[1], x[2]>>
    BY <1>1
  <1>3. x[2] \in Nat
    BY <1>2, PluginsAreNaturals
  <1> QED BY <1>2, <1>3

LEMMA DebtAhead ==
  ASSUME NEW f \in Frame, NEW x \in f.owed, NEW i \in Nat, x[2] > i, Compiled(f, x)
  PROVE  x[2] \in Handlers(f.fn, x[1], i)
  BY DEF Compiled, Handlers

\* What the rest of a callback does to the debts of its frame: it pays them
\* all before it ends.
Pays(s, r) ==
  \/ Len(r.stack) = Len(s) - 1 /\ s[Len(s)].owed = {}
  \/ /\ Len(r.stack) = Len(s)
     /\ \A x \in r.stack[Len(s)].owed :
          Ahead(r.stack[Len(s)], x) /\ Compiled(r.stack[Len(s)], x)

\* Once handler j of a phase is called, the debts of the phase are behind it.
LEMMA InvokePays ==
  ASSUME TypeOK, NEW s \in Seq(Frame), Len(s) > 0, NEW m \in Globals,
         NEW phase \in {"pre", "post"}, NEW i, NEW j \in Handlers(s[Len(s)].fn, phase, i),
         \A h \in Handlers(s[Len(s)].fn, phase, i) : j <= h,
         \A x \in s[Len(s)].owed :
           /\ Compiled(s[Len(s)], x)
           /\ x[1] = phase => x[2] \in Handlers(s[Len(s)].fn, phase, i)
           /\ x[1] = "pre" => phase = "pre",
         NEW r, r = Invoke(s, m, phase, j)
  PROVE  Pays(s, r)
  <1>1. j \in Plugin /\ j \in Nat
    BY HandlerIs, PluginsAreNaturals
  <1>2. /\ Len(r.stack) = Len(s)
        /\ r.stack[Len(s)].fn = s[Len(s)].fn
        /\ r.stack[Len(s)].at = <<phase, j>>
        /\ r.stack[Len(s)].owed = s[Len(s)].owed \ {<<phase, j>>}
    BY <1>1, InvokeShape
  <1>3. r.stack[Len(s)].at[1] = phase /\ r.stack[Len(s)].at[2] = j
    BY <1>2
  <1>4. ASSUME NEW x \in r.stack[Len(s)].owed
        PROVE  Ahead(r.stack[Len(s)], x) /\ Compiled(r.stack[Len(s)], x)
    <2>1. x \in s[Len(s)].owed /\ x # <<phase, j>>
      BY <1>2
    <2>2. x[1] \in {"pre", "post"} /\ x[2] \in Nat /\ x = <<x[1], x[2]>>
      BY <2>1, DebtIs, InnermostFrame
    <2>3. x[1] = phase => x[2] > j
      BY <1>1, <2>1, <2>2
    <2>4. x[1] = "pre" => phase = "pre"
      BY <2>1
    <2>5. Compiled(r.stack[Len(s)], x)
      BY <1>2, <2>1 DEF Compiled
    <2> QED BY <1>3, <2>3, <2>4, <2>5 DEF Ahead
  <1> QED BY <1>2, <1>4 DEF Pays

LEMMA PostFromPays ==
  ASSUME TypeOK, NEW s \in Seq(Frame), Len(s) > 0, NEW m \in Globals, NEW i \in Nat,
         \A x \in s[Len(s)].owed : Compiled(s[Len(s)], x) /\ x[1] = "post" /\ x[2] > i,
         NEW r, r = PostFrom(s, m, i)
  PROVE  Pays(s, r)
  <1>1. s[Len(s)] \in Frame
    BY InnermostFrame
  <1>2. \A x \in s[Len(s)].owed : x[2] \in Handlers(s[Len(s)].fn, "post", i)
    BY <1>1, DebtAhead
  <1>3. CASE Handlers(s[Len(s)].fn, "post", i) = {} /\ r = Leave(s, m)
    <2>1. s[Len(s)].owed = {}
      BY <1>2, <1>3
    <2>2. Len(r.stack) = Len(s) - 1
      BY <1>3, LeaveEnds DEF Ends
    <2> QED BY <2>1, <2>2 DEF Pays
  <1>4. ASSUME NEW j \in Handlers(s[Len(s)].fn, "post", i),
               \A h \in Handlers(s[Len(s)].fn, "post", i) : j <= h,
               r = Invoke(s, m, "post", j)
        PROVE  Pays(s, r)
    <2>1. \A x \in s[Len(s)].owed : x[1] # "pre"
      OBVIOUS
    <2>2. "post" \in {"pre", "post"}
      OBVIOUS
    <2> QED BY <1>2, <1>4, <2>1, <2>2, InvokePays
  <1>5. CASE Handlers(s[Len(s)].fn, "post", i) = {}
    BY <1>3, <1>5 DEF PostFrom
  <1>6. CASE Handlers(s[Len(s)].fn, "post", i) # {}
    <2> DEFINE j == Least(Handlers(s[Len(s)].fn, "post", i))
    <2>1. r = Invoke(s, m, "post", j)
      BY <1>6 DEF PostFrom
    <2>2. /\ j \in Handlers(s[Len(s)].fn, "post", i)
          /\ \A h \in Handlers(s[Len(s)].fn, "post", i) : j <= h
      BY <1>6, NextHandler
    <2> HIDE DEF j
    <2> QED BY <1>4, <2>1, <2>2
  <1> QED BY <1>5, <1>6

\* The same with another orig_ret.
LEMMA PostFromOrigPays ==
  ASSUME TypeOK, NEW s \in Seq(Frame), Len(s) > 0, NEW m \in Globals, NEW v \in Value,
         \A x \in s[Len(s)].owed : Compiled(s[Len(s)], x) /\ x[1] = "post",
         NEW r, r = PostFrom([s EXCEPT ![Len(s)].orig_ret = v], m, 0)
  PROVE  Pays(s, r)
  <1> DEFINE t == [s EXCEPT ![Len(s)].orig_ret = v]
  <1>1. /\ t \in Seq(Frame) /\ Len(t) = Len(s)
        /\ t[Len(s)].fn = s[Len(s)].fn
        /\ t[Len(s)].owed = s[Len(s)].owed
    BY OrigChanged
  <1> HIDE DEF t
  <1>2. r = PostFrom(t, m, 0)
    BY DEF t
  <1>3. ASSUME NEW x \in t[Len(t)].owed
        PROVE  Compiled(t[Len(t)], x) /\ x[1] = "post" /\ x[2] > 0
    <2>1. x \in s[Len(s)].owed
      BY <1>1
    <2>2. x[2] \in Plugin
      BY <2>1, DebtIs, InnermostFrame
    <2>3. x[2] > 0
      BY <2>2, NumPluginsAssumption DEF Plugin
    <2> QED BY <1>1, <2>1, <2>3 DEF Compiled
  <1>4. Pays(t, r)
    BY <1>1, <1>2, <1>3, PostFromPays
  <1> QED BY <1>1, <1>4 DEF Pays

LEMMA OriginalOfPays ==
  ASSUME TypeOK, NEW s \in Seq(Frame), Len(s) > 0, NEW m \in Globals,
         \A x \in s[Len(s)].owed : Compiled(s[Len(s)], x) /\ x[1] = "post",
         NEW r, r = OriginalOf(s, m)
  PROVE  Pays(s, r)
  <1>1. CASE r = PostFrom([s EXCEPT ![Len(s)].orig_ret = s[Len(s)].over_ret], m, 0)
    <2>1. s[Len(s)].over_ret \in Value
      BY InnermostFrame
    <2> QED BY <1>1, <2>1, PostFromOrigPays
  <1>2. CASE r = PostFrom([s EXCEPT ![Len(s)].orig_ret = FromDefault], m, 0)
    <2>1. FromDefault \in Value
      BY DEF Value
    <2> QED BY <1>2, <2>1, PostFromOrigPays
  <1>3. CASE r = [stack |-> [s EXCEPT ![Len(s)].at = <<"original", 0>>], g |-> m,
                  returned |-> Unwritten, noted |-> Unwritten]
    <2> DEFINE t == [s EXCEPT ![Len(s)].at = <<"original", 0>>]
    <2>1. /\ Len(t) = Len(s)
          /\ t[Len(s)].fn = s[Len(s)].fn
          /\ t[Len(s)].at = <<"original", 0>>
          /\ t[Len(s)].owed = s[Len(s)].owed
      BY AtOriginal
    <2> HIDE DEF t
    <2>2. r.stack = t
      BY <1>3 DEF t
    <2>3. t[Len(s)].at[1] = "original"
      BY <2>1
    <2>4. ASSUME NEW x \in t[Len(s)].owed PROVE Ahead(t[Len(s)], x) /\ Compiled(t[Len(s)], x)
      <3>1. x[1] = "post"
        BY <2>1
      <3> QED BY <2>1, <2>3, <3>1 DEF Ahead, Compiled
    <2> QED BY <2>1, <2>2, <2>4 DEF Pays
  <1> QED BY <1>1, <1>2, <1>3, OriginalOfCases

LEMMA PreFromPays ==
  ASSUME TypeOK, NEW s \in Seq(Frame), Len(s) > 0, NEW m \in Globals, NEW i \in Nat,
         \A x \in s[Len(s)].owed : Compiled(s[Len(s)], x) /\ (x[1] = "pre" => x[2] > i),
         NEW r, r = PreFrom(s, m, i)
  PROVE  Pays(s, r)
  <1>1. s[Len(s)] \in Frame
    BY InnermostFrame
  <1>2. \A x \in s[Len(s)].owed : x[1] = "pre" => x[2] \in Handlers(s[Len(s)].fn, "pre", i)
    BY <1>1, DebtAhead
  <1>3. CASE Handlers(s[Len(s)].fn, "pre", i) = {} /\ r = OriginalOf(s, m)
    <2>1. \A x \in s[Len(s)].owed : x[1] # "pre"
      BY <1>2, <1>3
    <2>2. \A x \in s[Len(s)].owed : x[1] = "post"
      BY <1>1, <2>1, DebtIs
    <2> QED BY <1>3, <2>2, OriginalOfPays
  <1>4. ASSUME NEW j \in Handlers(s[Len(s)].fn, "pre", i),
               \A h \in Handlers(s[Len(s)].fn, "pre", i) : j <= h,
               r = Invoke(s, m, "pre", j)
        PROVE  Pays(s, r)
    <2>1. "pre" \in {"pre", "post"}
      OBVIOUS
    <2> QED BY <1>2, <1>4, <2>1, InvokePays
  <1>5. CASE Handlers(s[Len(s)].fn, "pre", i) = {}
    BY <1>3, <1>5 DEF PreFrom
  <1>6. CASE Handlers(s[Len(s)].fn, "pre", i) # {}
    <2> DEFINE j == Least(Handlers(s[Len(s)].fn, "pre", i))
    <2>1. r = Invoke(s, m, "pre", j)
      BY <1>6 DEF PreFrom
    <2>2. /\ j \in Handlers(s[Len(s)].fn, "pre", i)
          /\ \A h \in Handlers(s[Len(s)].fn, "pre", i) : j <= h
      BY <1>6, NextHandler
    <2> HIDE DEF j
    <2> QED BY <1>4, <2>1, <2>2
  <1> QED BY <1>5, <1>6

\* What the invariant says of the debts of a frame, now and in the next state.
FrameOwes(f) == \A x \in f.owed : Ahead(f, x) /\ (mode = "alive" => Compiled(f, x))

FrameStillOwes(f) ==
  \A x \in f.owed :
    /\ Ahead(f, x)
    /\ mode' = "alive" =>
         x[2] \in code'.plugins /\ status'[x[2]] = "running" /\ <<x[2], f.fn, x[1]>> \in Hooks

LEMMA DebtsHold ==
  ASSUME OInv, NEW k \in 1..Top
  PROVE  FrameOwes(stack[k])
  BY DEF OInv, OwedAhead, OwedCompiled, FrameOwes

LEMMA DebtsKept ==
  ASSUME \A k \in 1..Len(stack') : FrameStillOwes(stack'[k])
  PROVE  OwedAhead' /\ OwedCompiled'
  <1>1. OwedAhead'
    BY DEF OwedAhead, FrameStillOwes, Ahead, Top
  <1>2. OwedCompiled'
    BY DEF OwedCompiled, FrameStillOwes, Compiled, Top
  <1> QED BY <1>1, <1>2

LEMMA DebtsAsTheyAre ==
  ASSUME code' = code, status' = status, mode' = mode, NEW f, FrameOwes(f)
  PROVE  FrameStillOwes(f)
  BY DEF FrameOwes, FrameStillOwes, Compiled

LEMMA ContinueOwes ==
  ASSUME OInv, mode = "alive",
         NEW s \in Seq(Frame), Len(s) > 0, Len(s) - 1 <= Top,
         \A k \in 1..(Len(s) - 1) : s[k] = stack[k],
         NEW m, NEW r, Waits(s, m, r) \/ Ends(s, m, r), Pays(s, r), Continue(r)
  PROVE  OwedAhead' /\ OwedCompiled'
  <1> DEFINE n == Len(s)
  <1>1. n \in Nat /\ n >= 1 /\ Top \in Nat
    BY DEF OInv, IInv, TypeOK, Top
  <1>2. /\ stack' = r.stack /\ code' = code /\ status' = status /\ mode' = mode
    BY DEF Continue
  <1>3. \A k \in 1..(n - 1) : FrameOwes(s[k])
    <2> TAKE k \in 1..(n - 1)
    <2>1. k \in 1..Top /\ s[k] = stack[k]
      BY <1>1
    <2> QED BY <2>1, DebtsHold
  <1>4. \A k \in 1..(n - 1) : r.stack[k] = s[k]
    BY DEF Waits, Ends
  <1>5. CASE Len(r.stack) = n - 1
    <2>1. \A k \in 1..Len(r.stack) : FrameOwes(r.stack[k])
      BY <1>3, <1>4, <1>5
    <2> QED BY <1>2, <2>1, DebtsAsTheyAre, DebtsKept
  <1>6. CASE /\ Len(r.stack) = n
             /\ \A x \in r.stack[n].owed : Ahead(r.stack[n], x) /\ Compiled(r.stack[n], x)
    <2>1. FrameOwes(r.stack[n])
      BY <1>6 DEF FrameOwes
    <2>2. \A k \in 1..n : k = n \/ k \in 1..(n - 1)
      BY <1>1
    <2>3. \A k \in 1..Len(r.stack) : FrameOwes(r.stack[k])
      BY <1>3, <1>4, <1>6, <2>1, <2>2
    <2> QED BY <1>2, <2>3, DebtsAsTheyAre, DebtsKept
  <1> QED BY <1>5, <1>6 DEF Pays

LEMMA CallOwes ==
  ASSUME OInv, NEW fn \in Fn, Call(fn)
  PROVE  OwedAhead' /\ OwedCompiled' /\ Len(stack') >= Top
  <1>1. /\ mode = "alive" /\ Top < MaxDepth
        /\ Continue(PreFrom(Append(stack, NewFrame(fn)), NewGlobals, 0))
    BY CallIs
  <1> DEFINE s == Append(stack, NewFrame(fn))
  <1> DEFINE r == PreFrom(s, NewGlobals, 0)
  <1>2. TypeOK
    BY DEF OInv, IInv
  <1>3. /\ s \in Seq(Frame) /\ Len(s) = Top + 1 /\ s[Top + 1] = NewFrame(fn)
        /\ \A k \in 1..Top : s[k] = stack[k]
        /\ Top \in Nat /\ Len(s) > 0
    BY <1>1, <1>2, NewStack
  <1>4. /\ NewFrame(fn).fn = fn /\ NewFrame(fn).owed = Due(fn) /\ NewGlobals \in Globals
    BY <1>1, <1>2, NewFrameTypes
  <1> HIDE DEF s
  <1>5. Waits(s, NewGlobals, r) \/ Ends(s, NewGlobals, r)
    BY <1>2, <1>3, <1>4, PreFromShape
  <1>6. Continue(r)
    BY <1>1 DEF s
  <1>7. ASSUME NEW x \in s[Len(s)].owed
        PROVE  Compiled(s[Len(s)], x) /\ (x[1] = "pre" => x[2] > 0)
    <2>1. s[Len(s)].fn = fn /\ x[2] \in Handlers(fn, x[1], 0)
      BY <1>3, <1>4 DEF Due
    <2>2. x[2] > 0 /\ x[2] \in code.plugins /\ status[x[2]] = "running"
          /\ <<x[2], fn, x[1]>> \in Hooks
      BY <1>2, <2>1, HandlerIs
    <2> QED BY <2>1, <2>2 DEF Compiled
  <1>8. Pays(s, r)
    BY <1>2, <1>3, <1>4, <1>7, PreFromPays
  <1> HIDE DEF r
  <1>9. Len(s) - 1 <= Top /\ \A k \in 1..(Len(s) - 1) : s[k] = stack[k]
    BY <1>3
  <1>10. OwedAhead' /\ OwedCompiled'
    BY <1>1, <1>3, <1>5, <1>6, <1>8, <1>9, ContinueOwes
  <1>11. Len(stack') >= Top
    BY <1>3, <1>6, <1>8 DEF Pays, Continue
  <1> QED BY <1>10, <1>11

LEMMA HandlerReturnPays ==
  ASSUME OInv, HandlerReturn
  PROVE  \E r : /\ Continue(r) /\ Pays(OverStack, r)
                /\ Waits(OverStack, SettledGlobals, r) \/ Ends(OverStack, SettledGlobals, r)
  <1>1. TypeOK
    BY DEF OInv, IInv
  <1>2. /\ mode = "alive" /\ Top > 0
        /\ stack[Top].at[1] \in {"pre", "post"} /\ stack[Top].at[2] \in Plugin
        /\ stack[Top].at[1] = "pre" => Continue(PreFrom(OverStack, SettledGlobals, stack[Top].at[2]))
        /\ stack[Top].at[1] = "post" => Continue(PostFrom(OverStack, SettledGlobals, stack[Top].at[2]))
    BY <1>1, HandlerReturnIs
  <1>3. /\ OverStack \in Seq(Frame) /\ Len(OverStack) = Top
        /\ \A k \in 1..(Top - 1) : OverStack[k] = stack[k]
        /\ OverStack[Top].fn = stack[Top].fn
        /\ OverStack[Top].owed = stack[Top].owed
    BY <1>1, <1>2, OverStackShape
  <1>4. SettledGlobals \in Globals
    BY <1>1, SettledTypes
  <1>5. Top \in Nat /\ Top \in 1..Top /\ stack[Top] \in Frame /\ stack[Top].at[2] \in Nat
    BY <1>1, <1>2, InnermostCall, InnermostFrame, PluginsAreNaturals
  <1>6. /\ Len(OverStack) > 0 /\ Len(OverStack) - 1 <= Top
        /\ \A k \in 1..(Len(OverStack) - 1) : OverStack[k] = stack[k]
    BY <1>2, <1>3, <1>5
  <1>7. FrameOwes(stack[Top])
    BY <1>5, DebtsHold
  <1>8. ASSUME NEW x \in OverStack[Len(OverStack)].owed
        PROVE  Compiled(OverStack[Len(OverStack)], x) /\ Ahead(stack[Top], x)
    BY <1>2, <1>3, <1>7 DEF FrameOwes, Compiled
  <1>9. CASE stack[Top].at[1] = "pre"
    <2> DEFINE r == PreFrom(OverStack, SettledGlobals, stack[Top].at[2])
    <2>1. Waits(OverStack, SettledGlobals, r) \/ Ends(OverStack, SettledGlobals, r)
      BY <1>1, <1>3, <1>4, <1>6, PreFromShape
    <2>2. Continue(r)
      BY <1>2, <1>9
    <2>3. ASSUME NEW x \in OverStack[Len(OverStack)].owed
          PROVE  x[1] = "pre" => x[2] > stack[Top].at[2]
      BY <1>8 DEF Ahead
    <2>4. Pays(OverStack, r)
      BY <1>1, <1>3, <1>4, <1>5, <1>6, <1>8, <2>3, PreFromPays
    <2> HIDE DEF r
    <2> QED BY <2>1, <2>2, <2>4
  <1>10. CASE stack[Top].at[1] = "post"
    <2> DEFINE r == PostFrom(OverStack, SettledGlobals, stack[Top].at[2])
    <2>1. Waits(OverStack, SettledGlobals, r) \/ Ends(OverStack, SettledGlobals, r)
      BY <1>1, <1>3, <1>4, <1>6, PostFromShape
    <2>2. Continue(r)
      BY <1>2, <1>10
    <2>3. ASSUME NEW x \in OverStack[Len(OverStack)].owed
          PROVE  x[1] = "post" /\ x[2] > stack[Top].at[2]
      <3>1. x[1] \in {"pre", "post"}
        BY <1>3, <1>5, DebtIs
      <3>2. x[1] # "pre"
        BY <1>8, <1>10 DEF Ahead
      <3> QED BY <1>8, <1>10, <3>1, <3>2 DEF Ahead
    <2>4. Pays(OverStack, r)
      BY <1>1, <1>3, <1>4, <1>5, <1>6, <1>8, <2>3, PostFromPays
    <2> HIDE DEF r
    <2> QED BY <2>1, <2>2, <2>4
  <1> QED BY <1>2, <1>9, <1>10

LEMMA HandlerReturnOwes ==
  ASSUME OInv, HandlerReturn
  PROVE  /\ OwedAhead' /\ OwedCompiled'
         /\ Len(stack') < Top => stack[Top].owed = {}
  <1>1. TypeOK
    BY DEF OInv, IInv
  <1>2. mode = "alive" /\ Top > 0 /\ stack[Top].at[2] \in Plugin
    BY <1>1, HandlerReturnIs
  <1>3. /\ OverStack \in Seq(Frame) /\ Len(OverStack) = Top
        /\ \A k \in 1..(Top - 1) : OverStack[k] = stack[k]
        /\ OverStack[Top].owed = stack[Top].owed
    BY <1>1, <1>2, OverStackShape
  <1>4. Top \in Nat
    BY <1>1, <1>2, InnermostCall
  <1>5. /\ Len(OverStack) > 0 /\ Len(OverStack) - 1 <= Top
        /\ \A k \in 1..(Len(OverStack) - 1) : OverStack[k] = stack[k]
    BY <1>2, <1>3, <1>4
  <1>6. PICK r : /\ Continue(r) /\ Pays(OverStack, r)
                 /\ Waits(OverStack, SettledGlobals, r) \/ Ends(OverStack, SettledGlobals, r)
    BY HandlerReturnPays
  <1>7. OwedAhead' /\ OwedCompiled'
    BY <1>2, <1>3, <1>5, <1>6, ContinueOwes
  <1>8. stack' = r.stack
    BY <1>6 DEF Continue
  <1>9. Len(stack') < Top => stack[Top].owed = {}
    BY <1>3, <1>4, <1>6, <1>8 DEF Pays
  <1> QED BY <1>7, <1>9

LEMMA OriginalReturnPays ==
  ASSUME OInv, OriginalReturn
  PROVE  \E r : /\ Continue(r) /\ Pays(stack, r)
                /\ Waits(stack, g, r) \/ Ends(stack, g, r)
  <1>1. TypeOK /\ g \in Globals
    BY DEF OInv, IInv, TypeOK
  <1>2. /\ mode = "alive" /\ Top > 0 /\ stack[Top].at[1] = "original"
        /\ Continue(PostFrom([stack EXCEPT ![Top].orig_ret = FromOriginal], g, 0))
    BY DEF OriginalReturn, InOriginal
  <1>3. /\ stack \in Seq(Frame) /\ Len(stack) = Top /\ Len(stack) > 0
        /\ Top \in Nat /\ Top \in 1..Top /\ stack[Top] \in Frame
    BY <1>1, <1>2, InnermostCall, InnermostFrame
  <1> DEFINE r == PostFrom([stack EXCEPT ![Len(stack)].orig_ret = FromOriginal], g, 0)
  <1>4. Continue(r)
    BY <1>2, <1>3
  <1>5. FromOriginal \in Value
    BY DEF Value
  <1>6. Waits(stack, g, r) \/ Ends(stack, g, r)
    BY <1>1, <1>3, <1>5, PostFromOrigShape
  <1>7. FrameOwes(stack[Top])
    BY <1>3, DebtsHold
  <1>8. ASSUME NEW x \in stack[Len(stack)].owed
        PROVE  Compiled(stack[Len(stack)], x) /\ x[1] = "post"
    <2>1. x[1] \in {"pre", "post"}
      BY <1>3, DebtIs
    <2>2. Ahead(stack[Top], x) /\ Compiled(stack[Top], x)
      BY <1>2, <1>3, <1>7 DEF FrameOwes
    <2>3. x[1] # "pre"
      BY <1>2, <2>2 DEF Ahead
    <2> QED BY <1>3, <2>1, <2>2, <2>3
  <1>9. Pays(stack, r)
    BY <1>1, <1>3, <1>5, <1>8, PostFromOrigPays
  <1> HIDE DEF r
  <1> QED BY <1>4, <1>6, <1>9

LEMMA OriginalReturnOwes ==
  ASSUME OInv, OriginalReturn
  PROVE  /\ OwedAhead' /\ OwedCompiled'
         /\ Len(stack') < Top => stack[Top].owed = {}
  <1>1. mode = "alive" /\ Top > 0
    BY DEF OriginalReturn, InOriginal
  <1>2. /\ stack \in Seq(Frame) /\ Len(stack) = Top /\ Len(stack) > 0 /\ Top \in Nat
    BY <1>1, InnermostCall DEF OInv, IInv
  <1>3. Len(stack) - 1 <= Top /\ \A k \in 1..(Len(stack) - 1) : stack[k] = stack[k]
    BY <1>2
  <1>4. PICK r : /\ Continue(r) /\ Pays(stack, r)
                 /\ Waits(stack, g, r) \/ Ends(stack, g, r)
    BY OriginalReturnPays
  <1>5. OwedAhead' /\ OwedCompiled'
    BY <1>1, <1>2, <1>3, <1>4, ContinueOwes
  <1>6. stack' = r.stack
    BY <1>4 DEF Continue
  <1>7. Len(stack') < Top => stack[Top].owed = {}
    BY <1>2, <1>4, <1>6 DEF Pays
  <1> QED BY <1>5, <1>7

\* Less is owed by a frame that is otherwise the same.
LEMMA FewerDebts ==
  ASSUME NEW e, FrameOwes(e), mode = "alive",
         NEW f, f.fn = e.fn, f.at = e.at, f.owed \subseteq e.owed,
         \A x \in f.owed : x[2] \in code'.plugins /\ status'[x[2]] = "running"
  PROVE  FrameStillOwes(f)
  <1>1. ASSUME NEW x \in f.owed
        PROVE  Ahead(f, x) /\ <<x[2], f.fn, x[1]>> \in Hooks
    <2>1. Ahead(e, x) /\ Compiled(e, x)
      BY DEF FrameOwes
    <2> QED BY <2>1 DEF Ahead, Compiled
  <1> QED BY <1>1 DEF FrameStillOwes

LEMMA RebuildOwes ==
  ASSUME OInv, mode = "alive",
         NEW plugins \in SUBSET Plugin, NEW tabled,
         NEW s \in Seq(Frame), Len(s) = Top,
         \A k \in 1..Top : /\ s[k].fn = stack[k].fn /\ s[k].at = stack[k].at
                          /\ s[k].owed \subseteq stack[k].owed
                          /\ \A x \in s[k].owed : x[2] \in plugins /\ status'[x[2]] = "running",
         Rebuild(s, plugins, tabled)
  PROVE  Len(stack') = Top /\ OwedAhead' /\ OwedCompiled'
  <1>1. code'.plugins = plugins /\ code' \in Layout
    BY NewLayout
  <1>2. \A k \in 1..Top : FrameOwes(stack[k])
    BY DebtsHold
  <1>3. Top \in Nat
    BY DEF OInv, IInv, TypeOK, Top
  <1> DEFINE f(k) == IF k \in Collected THEN [s[k] EXCEPT !.into = code'] ELSE s[k]
  <1>4. stack' = s \/ stack' = [k \in 1..Top |-> f(k)]
    BY DEF Rebuild
  <1>5. \A k \in 1..Top : /\ f(k) \in Frame
                          /\ f(k).fn = s[k].fn /\ f(k).at = s[k].at /\ f(k).owed = s[k].owed
    <2> TAKE k \in 1..Top
    <2>1. s[k] \in Frame
      OBVIOUS
    <2> QED BY <1>1, <2>1 DEF Frame
  <1> HIDE DEF f
  <1>6. Len(stack') = Top /\ \A k \in 1..Top : stack'[k] = s[k] \/ stack'[k] = f(k)
    <2>1. CASE stack' = s
      BY <2>1
    <2>2. CASE stack' = [k \in 1..Top |-> f(k)]
      BY <1>3, <2>2
    <2> QED BY <1>4, <2>1, <2>2
  <1>7. ASSUME NEW k \in 1..Len(stack') PROVE FrameStillOwes(stack'[k])
    <2>1. k \in 1..Top
      BY <1>6
    <2>2. /\ stack'[k].fn = stack[k].fn /\ stack'[k].at = stack[k].at
          /\ stack'[k].owed = s[k].owed
      BY <1>5, <1>6, <2>1
    <2>3. \A x \in stack'[k].owed : x[2] \in code'.plugins /\ status'[x[2]] = "running"
      BY <1>1, <2>1, <2>2
    <2>4. stack'[k].owed \subseteq stack[k].owed
      BY <2>1, <2>2
    <2> QED BY <1>2, <2>1, <2>2, <2>3, <2>4, FewerDebts
  <1> QED BY <1>6, <1>7, DebtsKept

\* A running plugin is loaded.
LEMMA RunningDebts ==
  ASSUME OInv, mode = "alive", NEW k \in 1..Top, NEW x \in stack[k].owed
  PROVE  x[2] \in Plugin /\ x[2] \in code.plugins /\ status[x[2]] = "running"
  <1>1. stack[k] \in Frame
    BY DEF OInv, IInv, TypeOK, Top
  <1>2. x[2] \in Plugin
    BY <1>1, DebtIs
  <1> QED BY <1>2, DebtsHold DEF FrameOwes, Compiled

\* When a plugin is released nobody owes it anything.
LEMMA ReleasedDebts ==
  ASSUME OInv, mode = "alive", NEW i, NEW k \in 1..Top
  PROVE  /\ Released(i)[k].owed \subseteq stack[k].owed
         /\ \A x \in Released(i)[k].owed :
              x[2] # i /\ x[2] \in Plugin /\ x[2] \in code.plugins /\ status[x[2]] = "running"
  <1>1. Released(i)[k].owed = {x \in stack[k].owed : x[2] # i}
    BY ReleasedStack DEF OInv, IInv
  <1>2. \A x \in stack[k].owed :
          x[2] \in Plugin /\ x[2] \in code.plugins /\ status[x[2]] = "running"
    BY RunningDebts
  <1> QED BY <1>1, <1>2

LEMMA ReleasedFrames ==
  ASSUME OInv, NEW i
  PROVE  /\ Released(i) \in Seq(Frame) /\ Len(Released(i)) = Top
         /\ \A k \in 1..Top : /\ Released(i)[k].fn = stack[k].fn
                              /\ Released(i)[k].at = stack[k].at
  BY ReleasedStack DEF OInv, IInv

LEMMA LoadPluginOwes ==
  ASSUME OInv, NEW i \in Plugin, LoadPlugin(i)
  PROVE  Len(stack') = Top /\ OwedAhead' /\ OwedCompiled'
  <1>1. /\ mode = "alive" /\ status' = [status EXCEPT ![i] = "running"]
        /\ Rebuild(stack, Loaded(status'), Loaded(status'))
    BY DEF LoadPlugin
  <1>2. stack \in Seq(Frame) /\ Len(stack) = Top /\ Loaded(status') \subseteq Plugin
    BY DEF OInv, IInv, TypeOK, Top, Loaded
  <1>3. ASSUME NEW k \in 1..Top, NEW x \in stack[k].owed
        PROVE  x[2] \in Loaded(status') /\ status'[x[2]] = "running"
    <2>1. x[2] \in Plugin /\ status[x[2]] = "running"
      BY <1>1, RunningDebts
    <2>2. status'[x[2]] = "running"
      BY <1>1, <2>1 DEF OInv, IInv, TypeOK
    <2> QED BY <2>1, <2>2 DEF Loaded
  <1> QED BY <1>1, <1>2, <1>3, RebuildOwes

LEMMA UnloadPluginOwes ==
  ASSUME OInv, NEW i \in Plugin, UnloadPlugin(i)
  PROVE  Len(stack') = Top /\ OwedAhead' /\ OwedCompiled'
  <1>1. /\ mode = "alive" /\ status' = [status EXCEPT ![i] = "gone"]
        /\ Rebuild(Released(i), Loaded(status'), Loaded(status'))
    BY DEF UnloadPlugin
  <1>2. Loaded(status') \subseteq Plugin
    BY DEF Loaded
  <1>3. ASSUME NEW k \in 1..Top
        PROVE  /\ Released(i)[k].owed \subseteq stack[k].owed
               /\ \A x \in Released(i)[k].owed :
                    x[2] \in Loaded(status') /\ status'[x[2]] = "running"
    <2>1. /\ Released(i)[k].owed \subseteq stack[k].owed
          /\ \A x \in Released(i)[k].owed :
               x[2] # i /\ x[2] \in Plugin /\ status[x[2]] = "running"
      BY <1>1, ReleasedDebts
    <2>2. \A j \in Plugin : j # i => status'[j] = status[j]
      BY <1>1 DEF OInv, IInv, TypeOK
    <2> QED BY <2>1, <2>2 DEF Loaded
  <1> QED BY <1>1, <1>2, <1>3, ReleasedFrames, RebuildOwes

LEMMA ReloadPluginOwes ==
  ASSUME OInv, NEW i \in Plugin, ReloadPlugin(i)
  PROVE  Len(stack') = Top /\ OwedAhead' /\ OwedCompiled'
  <1>1. /\ mode = "alive" /\ status' = [status EXCEPT ![i] = "running"]
        /\ Rebuild(Released(i), Loaded(status) \ {i}, Loaded(status))
    BY DEF ReloadPlugin
  <1>2. Loaded(status) \ {i} \subseteq Plugin
    BY DEF Loaded
  <1>3. ASSUME NEW k \in 1..Top
        PROVE  /\ Released(i)[k].owed \subseteq stack[k].owed
               /\ \A x \in Released(i)[k].owed :
                    x[2] \in Loaded(status) \ {i} /\ status'[x[2]] = "running"
    <2>1. /\ Released(i)[k].owed \subseteq stack[k].owed
          /\ \A x \in Released(i)[k].owed :
               x[2] # i /\ x[2] \in Plugin /\ status[x[2]] = "running"
      BY <1>1, ReleasedDebts
    <2>2. \A j \in Plugin : j # i => status'[j] = status[j]
      BY <1>1 DEF OInv, IInv, TypeOK
    <2> QED BY <2>1, <2>2 DEF Loaded
  <1> QED BY <1>1, <1>2, <1>3, ReleasedFrames, RebuildOwes

LEMMA RefreshOwes ==
  ASSUME OInv, Refresh
  PROVE  Len(stack') = Top /\ OwedAhead' /\ OwedCompiled'
  <1>1. mode = "alive" /\ status' = status /\ Rebuild(stack, Loaded(status), Loaded(status))
    BY DEF Refresh
  <1>2. stack \in Seq(Frame) /\ Len(stack) = Top /\ Loaded(status) \subseteq Plugin
    BY DEF OInv, IInv, TypeOK, Top, Loaded
  <1>3. ASSUME NEW k \in 1..Top, NEW x \in stack[k].owed
        PROVE  x[2] \in Loaded(status) /\ status'[x[2]] = "running"
    <2>1. x[2] \in Plugin /\ status[x[2]] = "running"
      BY <1>1, RunningDebts
    <2> QED BY <1>1, <2>1 DEF Loaded
  <1> QED BY <1>1, <1>2, <1>3, RebuildOwes

LEMMA PausePluginOwes ==
  ASSUME OInv, NEW i \in Plugin, PausePlugin(i)
  PROVE  Len(stack') = Top /\ OwedAhead' /\ OwedCompiled'
  <1>1. /\ mode = "alive" /\ status' = [status EXCEPT ![i] = "paused"] /\ stack' = Released(i)
        /\ code' = code /\ mode' = mode
    BY DEF PausePlugin
  <1>2. /\ Len(stack') = Top
        /\ \A k \in 1..Top : stack'[k].fn = stack[k].fn /\ stack'[k].at = stack[k].at
    BY <1>1, ReleasedFrames
  <1>3. ASSUME NEW k \in 1..Len(stack') PROVE FrameStillOwes(stack'[k])
    <2>1. k \in 1..Top
      BY <1>2
    <2>2. /\ stack'[k].owed \subseteq stack[k].owed
          /\ \A x \in stack'[k].owed : /\ x[2] # i /\ x[2] \in Plugin /\ x[2] \in code.plugins
                                       /\ status[x[2]] = "running"
      BY <1>1, <2>1, ReleasedDebts
    <2>3. \A j \in Plugin : j # i => status'[j] = status[j]
      BY <1>1 DEF OInv, IInv, TypeOK
    <2>4. \A x \in stack'[k].owed : x[2] \in code'.plugins /\ status'[x[2]] = "running"
      BY <1>1, <2>2, <2>3
    <2>5. FrameOwes(stack[k])
      BY <2>1, DebtsHold
    <2>6. stack'[k].fn = stack[k].fn /\ stack'[k].at = stack[k].at
      BY <1>2, <2>1
    <2> QED BY <1>1, <2>2, <2>4, <2>5, <2>6, FewerDebts
  <1> QED BY <1>2, <1>3, DebtsKept

LEMMA UnpausePluginOwes ==
  ASSUME OInv, NEW i \in Plugin, UnpausePlugin(i)
  PROVE  Len(stack') = Top /\ OwedAhead' /\ OwedCompiled'
  <1>1. /\ mode = "alive" /\ status' = [status EXCEPT ![i] = "running"] /\ stack' = stack
        /\ code' = code /\ mode' = mode
    BY DEF UnpausePlugin
  <1>2. ASSUME NEW k \in 1..Len(stack') PROVE FrameStillOwes(stack'[k])
    <2>1. k \in 1..Top /\ stack'[k] = stack[k]
      BY <1>1 DEF Top
    <2>2. \A x \in stack'[k].owed : x[2] \in Plugin /\ x[2] \in code.plugins /\ status[x[2]] = "running"
      BY <1>1, <2>1, RunningDebts
    <2>3. \A j \in Plugin : status[j] = "running" => status'[j] = "running"
      BY <1>1 DEF OInv, IInv, TypeOK
    <2>4. \A x \in stack'[k].owed : x[2] \in code'.plugins /\ status'[x[2]] = "running"
      BY <1>1, <2>2, <2>3
    <2>5. FrameOwes(stack[k])
      BY <2>1, DebtsHold
    <2> QED BY <1>1, <2>1, <2>4, <2>5, FewerDebts
  <1> QED BY <1>1, <1>2, DebtsKept DEF Top

LEMMA InitOInv == Init => OInv
  <1> SUFFICES ASSUME Init PROVE OInv
    OBVIOUS
  <1>1. IInv
    BY InitIInv
  <1>2. Top = 0
    BY DEF Init, Top
  <1> QED BY <1>1, <1>2 DEF OInv, OwedAhead, OwedCompiled

\* What a step keeps and pays.
Paid == Len(stack') < Top => stack[Top].owed = {}

LEMMA SameStack ==
  ASSUME OInv, stack' = stack, code' = code, status' = status, mode' \in {mode, "lost"}
  PROVE  OwedAhead' /\ OwedCompiled' /\ Paid
  <1>1. ASSUME NEW k \in 1..Len(stack') PROVE FrameStillOwes(stack'[k])
    <2>1. FrameOwes(stack[k])
      BY DebtsHold DEF Top
    <2>2. mode' = "alive" => mode = "alive"
      OBVIOUS
    <2> QED BY <2>1, <2>2 DEF FrameOwes, FrameStillOwes, Compiled
  <1>2. Paid
    BY DEF Paid, Top, OInv, IInv, TypeOK
  <1> QED BY <1>1, <1>2, DebtsKept

LEMMA StepPays ==
  ASSUME OInv, [Next]_vars
  PROVE  OwedAhead' /\ OwedCompiled' /\ Paid
  <1>1. Top \in Nat
    BY DEF OInv, IInv, TypeOK, Top
  <1>2. Len(stack') = Top => Paid
    BY <1>1 DEF Paid
  <1>3. ASSUME NEW fn \in Fn, Call(fn) PROVE OwedAhead' /\ OwedCompiled' /\ Paid
    <2>1. OwedAhead' /\ OwedCompiled' /\ Len(stack') >= Top
      BY <1>3, CallOwes
    <2>2. stack' \in Seq(Frame)
      BY <1>3, NextIInv DEF OInv, IInv, TypeOK, Next
    <2> QED BY <1>1, <2>1, <2>2 DEF Paid
  <1>4. ASSUME NEW mres \in Answers, SetResult(mres) PROVE OwedAhead' /\ OwedCompiled' /\ Paid
    BY <1>4, SameStack DEF SetResult
  <1>5. CASE HandlerReturn
    BY <1>5, HandlerReturnOwes DEF Paid
  <1>6. CASE OriginalReturn
    BY <1>6, OriginalReturnOwes DEF Paid
  <1>7. CASE ReturnAstray
    BY <1>7, SameStack DEF ReturnAstray
  <1>8. ASSUME NEW i \in Plugin, LoadPlugin(i) PROVE OwedAhead' /\ OwedCompiled' /\ Paid
    BY <1>2, <1>8, LoadPluginOwes
  <1>9. ASSUME NEW i \in Plugin, UnloadPlugin(i) PROVE OwedAhead' /\ OwedCompiled' /\ Paid
    BY <1>2, <1>9, UnloadPluginOwes
  <1>10. ASSUME NEW i \in Plugin, ReloadPlugin(i) PROVE OwedAhead' /\ OwedCompiled' /\ Paid
    BY <1>2, <1>10, ReloadPluginOwes
  <1>11. ASSUME NEW i \in Plugin, PausePlugin(i) PROVE OwedAhead' /\ OwedCompiled' /\ Paid
    BY <1>2, <1>11, PausePluginOwes
  <1>12. ASSUME NEW i \in Plugin, UnpausePlugin(i) PROVE OwedAhead' /\ OwedCompiled' /\ Paid
    BY <1>2, <1>12, UnpausePluginOwes
  <1>13. CASE Refresh
    BY <1>2, <1>13, RefreshOwes
  <1>14. CASE UNCHANGED vars
    BY <1>14, SameStack DEF vars
  <1> QED BY <1>3, <1>4, <1>5, <1>6, <1>7, <1>8, <1>9, <1>10, <1>11, <1>12, <1>13, <1>14 DEF Next

\* The debts are part of the inductive invariant.
THEOREM NextOInv == OInv /\ [Next]_vars => OInv'
  BY NextIInv, StepPays DEF OInv

\* The handlers that a call still owes are ahead of where it waits, in the code
\* in memory.
THEOREM DebtInvariance == Spec => []OInv
  <1>1. Init => OInv
    BY InitOInv
  <1>2. OInv /\ [Next]_vars => OInv'
    BY NextOInv
  <1> QED BY <1>1, <1>2, PTL DEF Spec

\* A frame that waits for no pre handler owes none.
LEMMA PreAllPaid ==
  ASSUME OInv', NEW k \in 1..Len(stack'), stack'[k].at[1] # "pre", NEW x \in stack'[k].owed
  PROVE  x[1] = "post"
  <1>1. stack'[k] \in Frame
    BY DEF OInv, IInv, TypeOK
  <1>2. x[1] \in {"pre", "post"}
    BY <1>1, DebtIs
  <1>3. Ahead(stack'[k], x)
    BY DEF OInv, OwedAhead, Top, Ahead
  <1> QED BY <1>2, <1>3 DEF Ahead

\* A handler that was due when the function was called, and whose plugin has
\* been running since, is called before the call ends.
THEOREM NobodySkippedHolds == Spec => NobodySkipped
  <1> DEFINE Served ==
        /\ Top > 0 /\ Len(stack') < Top => stack[Top].owed = {}
        /\ \A k \in 1..Top :
             k <= Len(stack') /\ stack'[k].at[1] # "pre" => \A x \in stack'[k].owed : x[1] = "post"
  <1>1. OInv /\ [Next]_vars => Served
    <2> SUFFICES ASSUME OInv, [Next]_vars PROVE Served
      OBVIOUS
    <2>1. OInv' /\ Paid
      BY NextOInv, StepPays
    <2>2. ASSUME NEW k \in 1..Top, k <= Len(stack'), stack'[k].at[1] # "pre",
                 NEW x \in stack'[k].owed
          PROVE  x[1] = "post"
      <3>1. k \in 1..Len(stack')
        BY <2>1, <2>2 DEF OInv, IInv, TypeOK
      <3> QED BY <2>1, <2>2, <3>1, PreAllPaid
    <2> QED BY <2>1, <2>2 DEF Paid
  <1> HIDE DEF Served
  <1>2. Served => [Served]_vars
    OBVIOUS
  <1>3. Spec => [][Served]_vars
    BY <1>1, DebtInvariance, PTL DEF Spec
  <1> QED BY <1>3 DEF NobodySkipped, Served

\* The id that mm_RegUserMsg notes is the one its caller gets, unless a plugin
\* supersedes the call.
LEMMA SameIdReturned ==
  ASSUME OInv, [Next]_vars, Len(stack') < Top, g.mres # MRES_SUPERCEDE, g.status # MRES_SUPERCEDE
  PROVE  noted' = returned'
  <1>1. TypeOK /\ Top \in Nat /\ Len(stack') # Top /\ ~ (Len(stack') >= Top)
    BY NextIInv DEF OInv, IInv, TypeOK, Top
  <1>2. ASSUME NEW fn \in Fn, Call(fn) PROVE FALSE
    BY <1>1, <1>2, CallOwes
  <1>3. CASE stack' = stack
    BY <1>1, <1>3 DEF Top
  <1>4. CASE HandlerReturn
    <2>1. PICK r : /\ Continue(r)
                   /\ Waits(OverStack, SettledGlobals, r) \/ Ends(OverStack, SettledGlobals, r)
      BY <1>4, HandlerReturnPays
    <2>2. Len(OverStack) = Top
      BY <1>1, <1>4, HandlerReturnIs, OverStackShape
    <2>3. SettledGlobals.status # MRES_SUPERCEDE
      BY <1>1, SettledTypes DEF Highest
    <2> QED BY <1>1, <2>1, <2>2, <2>3 DEF Continue, Waits, Ends
  <1>5. CASE OriginalReturn
    <2>1. PICK r : Continue(r) /\ (Waits(stack, g, r) \/ Ends(stack, g, r))
      BY <1>5, OriginalReturnPays
    <2> QED BY <1>1, <2>1 DEF Continue, Waits, Ends, Top
  <1>6. ASSUME NEW i \in Plugin,
               LoadPlugin(i) \/ UnloadPlugin(i) \/ ReloadPlugin(i) \/ PausePlugin(i)
        PROVE  FALSE
    BY <1>1, <1>6, LoadPluginOwes, UnloadPluginOwes, ReloadPluginOwes, PausePluginOwes
  <1>7. CASE Refresh
    BY <1>1, <1>7, RefreshOwes
  <1>8. ASSUME NEW i \in Plugin, UnpausePlugin(i) PROVE stack' = stack
    BY <1>8 DEF UnpausePlugin
  <1>9. ASSUME NEW mres \in Answers, SetResult(mres) PROVE stack' = stack
    BY <1>9 DEF SetResult
  <1>10. CASE ReturnAstray
    BY <1>3, <1>10 DEF ReturnAstray
  <1>11. CASE UNCHANGED vars
    BY <1>3, <1>11 DEF vars
  <1> QED BY <1>2, <1>3, <1>4, <1>5, <1>6, <1>7, <1>8, <1>9, <1>10, <1>11 DEF Next

----------------------------------------------------------------------------
(* The refinement of DispatchContract.  Seen by the contract, the compiled *)
(* code goes from a call b to one of Contract!Following(b), or ends it     *)
(* with the value of one of Contract!PastOriginal(b).                      *)

\* d is what frame f shows when m is in g_metaGlobals; where d waits, and
\* what its prev is, does not matter to what follows.
Shows(d, f, m) ==
  d = [fn |-> f.fn, at |-> d.at, mres |-> m.mres, prev |-> d.prev,
       status |-> m.status, orig |-> f.orig_ret, over |-> f.over_ret]

\* What mm_RegUserMsg takes down of a call d that ends.
NotedValue(d) == IF d.status = MRES_OVERRIDE THEN d.over ELSE d.orig

\* What r makes of a call b whose frame is the innermost of s.
Follows(s, r, b) ==
  \/ Len(r.stack) = Len(s) /\ View(r.stack[Len(s)], r.g) \in Contract!Following(b)
  \/ /\ Len(r.stack) = Len(s) - 1
     /\ \E d \in Contract!PastOriginal(b) : r.returned = Contract!Value(d) /\ r.noted = NotedValue(d)

LEMMA AskedRecord ==
  ASSUME NEW fn, NEW at, NEW mres, NEW prev, NEW status_, NEW orig, NEW over, NEW phase, NEW j, NEW d,
         d = [fn |-> fn, at |-> at, mres |-> mres, prev |-> prev, status |-> status_,
              orig |-> orig, over |-> over]
  PROVE  Contract!Asked(d, phase, j) =
           [fn |-> fn, at |-> <<phase, j>>, mres |-> MRES_IGNORED, prev |-> mres,
            status |-> status_, orig |-> orig, over |-> over]
  <1>1. Contract!IGNORED = MRES_IGNORED
    BY DEF Contract!IGNORED, MRES_IGNORED
  <1>2. Contract!Asked(d, phase, j) = [d EXCEPT !.at = <<phase, j>>, !.prev = d.mres, !.mres = MRES_IGNORED]
    BY <1>1 DEF Contract!Asked
  <1> QED BY <1>2

LEMMA InvokeAsks ==
  ASSUME NEW s \in Seq(Frame), Len(s) > 0, NEW m \in Globals,
         NEW phase \in {"pre", "post"}, NEW j \in Plugin,
         NEW r, r = Invoke(s, m, phase, j), NEW d, Shows(d, s[Len(s)], m)
  PROVE  /\ Len(r.stack) = Len(s)
         /\ View(r.stack[Len(s)], r.g) = Contract!Asked(d, phase, j)
  <1>1. /\ Len(r.stack) = Len(s)
        /\ r.stack[Len(s)].fn = s[Len(s)].fn
        /\ r.stack[Len(s)].orig_ret = s[Len(s)].orig_ret
        /\ r.stack[Len(s)].over_ret = s[Len(s)].over_ret
    BY InvokeShape
  <1>2. r.stack[Len(s)].at = <<phase, j>>
    BY InvokeShape
  <1>3. r.g.mres = MRES_IGNORED /\ r.g.prev_mres = m.mres /\ r.g.status = m.status
    BY InvokeShape
  <1> DEFINE f == r.stack[Len(s)]
  <1>4. /\ f.fn = s[Len(s)].fn /\ f.at = <<phase, j>>
        /\ f.orig_ret = s[Len(s)].orig_ret /\ f.over_ret = s[Len(s)].over_ret
    BY <1>1, <1>2
  <1>5. f.at[1] # "original"
    BY <1>4
  <1> HIDE DEF f
  <1>6. View(f, r.g) = [fn |-> s[Len(s)].fn, at |-> <<phase, j>>, mres |-> MRES_IGNORED,
                        prev |-> m.mres, status |-> m.status,
                        orig |-> s[Len(s)].orig_ret, over |-> s[Len(s)].over_ret]
    BY <1>3, <1>4, <1>5 DEF View
  <1>7. Contract!Asked(d, phase, j) = [fn |-> s[Len(s)].fn, at |-> <<phase, j>>, mres |-> MRES_IGNORED,
                        prev |-> m.mres, status |-> m.status,
                        orig |-> s[Len(s)].orig_ret, over |-> s[Len(s)].over_ret]
    BY AskedRecord DEF Shows
  <1> QED BY <1>1, <1>6, <1>7 DEF f

LEMMA LeaveValue ==
  ASSUME NEW s \in Seq(Frame), Len(s) > 0, NEW m \in Globals,
         NEW r, r = Leave(s, m), NEW d, Shows(d, s[Len(s)], m)
  PROVE  Len(r.stack) = Len(s) - 1 /\ r.returned = Contract!Value(d) /\ r.noted = NotedValue(d)
  <1>1. Len(r.stack) = Len(s) - 1
    BY LeaveEnds DEF Ends
  <1>2. /\ r.returned = IF m.status >= MRES_OVERRIDE THEN s[Len(s)].over_ret ELSE s[Len(s)].orig_ret
        /\ r.noted = IF m.status = MRES_OVERRIDE THEN s[Len(s)].over_ret ELSE s[Len(s)].orig_ret
    BY DEF Leave, Noted
  <1>3. d.status = m.status /\ d.over = s[Len(s)].over_ret /\ d.orig = s[Len(s)].orig_ret
    BY DEF Shows
  <1> QED BY <1>1, <1>2, <1>3 DEF Contract!Value, Contract!OVERRIDE, MRES_OVERRIDE, NotedValue

\* From the original on: d is a call b past its original.
LEMMA PostFromFollows ==
  ASSUME TypeOK, NEW s \in Seq(Frame), Len(s) > 0, NEW m \in Globals, NEW i \in Nat,
         NEW r, r = PostFrom(s, m, i),
         NEW b, NEW d \in Contract!PastOriginal(b), Shows(d, s[Len(s)], m),
         d.at[1] = "post" => d.at[2] = i
  PROVE  Follows(s, r, b)
  <1>1. CASE Handlers(s[Len(s)].fn, "post", i) = {}
    <2>1. r = Leave(s, m)
      BY <1>1 DEF PostFrom
    <2>2. Len(r.stack) = Len(s) - 1 /\ r.returned = Contract!Value(d) /\ r.noted = NotedValue(d)
      BY <2>1, LeaveValue
    <2> QED BY <2>2 DEF Follows
  <1>2. CASE Handlers(s[Len(s)].fn, "post", i) # {}
    <2> DEFINE j == Least(Handlers(s[Len(s)].fn, "post", i))
    <2>1. r = Invoke(s, m, "post", j)
      BY <1>2 DEF PostFrom
    <2>2. j \in Handlers(s[Len(s)].fn, "post", i)
      BY <1>2, NextHandler
    <2> HIDE DEF j
    <2>3. j \in Plugin /\ j > i
      BY <2>2, HandlerIs
    <2>4. Len(r.stack) = Len(s) /\ View(r.stack[Len(s)], r.g) = Contract!Asked(d, "post", j)
      BY <2>1, <2>3, InvokeAsks
    <2>5. j \in {h \in Plugin : d.at[1] = "post" => h > d.at[2]}
      BY <2>3
    <2>6. Contract!Asked(d, "post", j) \in Contract!Following(b)
      <3>1. Contract!Asked(d, "post", j) \in
              {Contract!Asked(d, "post", h) : h \in {x \in Plugin : d.at[1] = "post" => x > d.at[2]}}
        BY <2>5
      <3> QED BY <3>1 DEF Contract!Following
    <2> QED BY <2>4, <2>6 DEF Follows
  <1> QED BY <1>1, <1>2

LEMMA PostFromOrigFollows ==
  ASSUME TypeOK, NEW s \in Seq(Frame), Len(s) > 0, NEW m \in Globals, NEW v \in Value,
         NEW r, r = PostFrom([s EXCEPT ![Len(s)].orig_ret = v], m, 0),
         NEW b, NEW d \in Contract!PastOriginal(b), d.at[1] # "post",
         d = [fn |-> s[Len(s)].fn, at |-> d.at, mres |-> m.mres, prev |-> d.prev,
              status |-> m.status, orig |-> v, over |-> s[Len(s)].over_ret]
  PROVE  Follows(s, r, b)
  <1> DEFINE t == [s EXCEPT ![Len(s)].orig_ret = v]
  <1>1. /\ t \in Seq(Frame) /\ Len(t) = Len(s)
        /\ t[Len(s)].fn = s[Len(s)].fn /\ t[Len(s)].orig_ret = v
        /\ t[Len(s)].over_ret = s[Len(s)].over_ret
    BY OrigChanged
  <1> HIDE DEF t
  <1>2. r = PostFrom(t, m, 0)
    BY DEF t
  <1>3. Shows(d, t[Len(t)], m)
    BY <1>1 DEF Shows
  <1>4. Follows(t, r, b)
    BY <1>1, <1>2, <1>3, PostFromFollows
  <1> QED BY <1>1, <1>4 DEF Follows

\* A call that has not come to its original yet.
LEMMA OriginalOfFollows ==
  ASSUME TypeOK, NEW s \in Seq(Frame), Len(s) > 0, NEW m \in Globals,
         NEW r, r = OriginalOf(s, m),
         NEW b, Shows(b, s[Len(s)], m), b.at[1] \in {"start", "pre"}
  PROVE  Follows(s, r, b)
  <1> DEFINE f == s[Len(s)]
  <1>1. f.fn \in Fn /\ f.over_ret \in Value
    BY InnermostFrame
  <1> HIDE DEF f
  <1> DEFINE at == b.at
  <1> DEFINE prev == b.prev
  <1>2. b = [fn |-> f.fn, at |-> at, mres |-> m.mres, prev |-> prev,
             status |-> m.status, orig |-> f.orig_ret, over |-> f.over_ret]
    BY DEF Shows, f
  <1>3. at[1] \in {"start", "pre"}
    OBVIOUS
  <1> HIDE DEF at, prev
  <1>4. /\ b.at = at /\ b.at[1] \notin {"original", "post"}
        /\ b.status = m.status /\ b.fn = f.fn /\ b.over = f.over_ret
    BY <1>2, <1>3
  <1>5. CASE m.status = MRES_SUPERCEDE
    <2> DEFINE d == [b EXCEPT !.orig = b.over]
    <2>1. d \in Contract!PastOriginal(b)
      BY <1>4, <1>5 DEF Contract!PastOriginal, Contract!SUPERCEDE, MRES_SUPERCEDE
    <2>2. d = [fn |-> f.fn, at |-> at, mres |-> m.mres, prev |-> prev,
               status |-> m.status, orig |-> f.over_ret, over |-> f.over_ret]
      BY <1>2
    <2> HIDE DEF d
    <2>3. d.at = at /\ d.prev = prev /\ d.at[1] # "post"
      BY <1>3, <2>2
    <2>4. r = PostFrom([s EXCEPT ![Len(s)].orig_ret = f.over_ret], m, 0)
      BY <1>5 DEF OriginalOf, f
    <2>5. d = [fn |-> s[Len(s)].fn, at |-> d.at, mres |-> m.mres, prev |-> d.prev,
               status |-> m.status, orig |-> f.over_ret, over |-> s[Len(s)].over_ret]
      BY <2>2, <2>3 DEF f
    <2> QED BY <1>1, <2>1, <2>3, <2>4, <2>5, PostFromOrigFollows
  <1>6. CASE m.status # MRES_SUPERCEDE /\ f.fn \notin Originals
    <2> DEFINE d == [b EXCEPT !.orig = FromDefault]
    <2>1. d \in Contract!PastOriginal(b)
      BY <1>4, <1>6 DEF Contract!PastOriginal, Contract!SUPERCEDE, MRES_SUPERCEDE,
                        Contract!FromDefault, FromDefault
    <2>2. d = [fn |-> f.fn, at |-> at, mres |-> m.mres, prev |-> prev,
               status |-> m.status, orig |-> FromDefault, over |-> f.over_ret]
      BY <1>2
    <2> HIDE DEF d
    <2>3. d.at = at /\ d.prev = prev /\ d.at[1] # "post"
      BY <1>3, <2>2
    <2>4. r = PostFrom([s EXCEPT ![Len(s)].orig_ret = FromDefault], m, 0)
      BY <1>6 DEF OriginalOf, f
    <2>5. d = [fn |-> s[Len(s)].fn, at |-> d.at, mres |-> m.mres, prev |-> d.prev,
               status |-> m.status, orig |-> FromDefault, over |-> s[Len(s)].over_ret]
      BY <2>2, <2>3 DEF f
    <2>6. FromDefault \in Value
      BY DEF Value
    <2> QED BY <2>1, <2>3, <2>4, <2>5, <2>6, PostFromOrigFollows
  <1>7. CASE m.status # MRES_SUPERCEDE /\ f.fn \in Originals
    <2> DEFINE t == [s EXCEPT ![Len(s)].at = <<"original", 0>>]
    <2>1. /\ Len(t) = Len(s)
          /\ t[Len(s)].fn = f.fn /\ t[Len(s)].at = <<"original", 0>>
          /\ t[Len(s)].orig_ret = f.orig_ret /\ t[Len(s)].over_ret = f.over_ret
      BY AtOriginal DEF f
    <2>2. r = [stack |-> t, g |-> m, returned |-> Unwritten, noted |-> Unwritten]
      BY <1>7 DEF OriginalOf, f
    <2> HIDE DEF t
    <2>3. r.stack = t /\ r.g = m
      BY <2>2
    <2> DEFINE e == t[Len(s)]
    <2>4. View(e, m) = [fn |-> f.fn, at |-> <<"original", 0>>, mres |-> m.mres,
                        prev |-> MRES_UNSET, status |-> m.status,
                        orig |-> f.orig_ret, over |-> f.over_ret]
      <3>1. e.at[1] = "original"
        BY <2>1
      <3> HIDE DEF e
      <3> QED BY <2>1, <3>1 DEF View, e
    <2> HIDE DEF e
    <2>5. View(e, m) = [b EXCEPT !.at = <<"original", 0>>, !.prev = Contract!UNSET]
      <3>1. PICK c : c = [b EXCEPT !.at = <<"original", 0>>, !.prev = Contract!UNSET]
        OBVIOUS
      <3>2. c = [fn |-> f.fn, at |-> <<"original", 0>>, mres |-> m.mres, prev |-> MRES_UNSET,
                 status |-> m.status, orig |-> f.orig_ret, over |-> f.over_ret]
        BY <1>2, <3>1 DEF Contract!UNSET, MRES_UNSET
      <3> QED BY <2>4, <3>1, <3>2
    <2>6. b \in {x \in {b} : x.at[1] \in {"start", "pre"} /\ x.status # Contract!SUPERCEDE
                            /\ x.fn \in Originals}
      BY <1>3, <1>4, <1>7 DEF Contract!SUPERCEDE, MRES_SUPERCEDE
    <2>7. View(e, m) \in Contract!Following(b)
      BY <2>5, <2>6 DEF Contract!Following
    <2> QED BY <2>1, <2>3, <2>7 DEF Follows, e
  <1> QED BY <1>5, <1>6, <1>7

LEMMA PreFromFollows ==
  ASSUME TypeOK, NEW s \in Seq(Frame), Len(s) > 0, NEW m \in Globals, NEW i \in Nat,
         NEW r, r = PreFrom(s, m, i),
         NEW b, Shows(b, s[Len(s)], m), b.at[1] \in {"start", "pre"}, b.at[2] = i
  PROVE  Follows(s, r, b)
  <1>1. CASE Handlers(s[Len(s)].fn, "pre", i) = {}
    <2>1. r = OriginalOf(s, m)
      BY <1>1 DEF PreFrom
    <2> QED BY <2>1, OriginalOfFollows
  <1>2. CASE Handlers(s[Len(s)].fn, "pre", i) # {}
    <2> DEFINE j == Least(Handlers(s[Len(s)].fn, "pre", i))
    <2>1. r = Invoke(s, m, "pre", j)
      BY <1>2 DEF PreFrom
    <2>2. j \in Handlers(s[Len(s)].fn, "pre", i)
      BY <1>2, NextHandler
    <2> HIDE DEF j
    <2>3. j \in Plugin /\ j > i
      BY <2>2, HandlerIs
    <2>4. Len(r.stack) = Len(s) /\ View(r.stack[Len(s)], r.g) = Contract!Asked(b, "pre", j)
      BY <2>1, <2>3, InvokeAsks
    <2>5. j \in {x \in Plugin : b.at[1] \in {"start", "pre"} /\ x > b.at[2]}
      BY <2>3
    <2>6. Contract!Asked(b, "pre", j) \in Contract!Following(b)
      <3>1. Contract!Asked(b, "pre", j) \in
              {Contract!Asked(b, "pre", h) :
                 h \in {x \in Plugin : b.at[1] \in {"start", "pre"} /\ x > b.at[2]}}
        BY <2>5
      <3> QED BY <3>1 DEF Contract!Following
    <2> QED BY <2>4, <2>6 DEF Follows
  <1> QED BY <1>1, <1>2

\* The calls, as sequences.
LEMMA CallsAre ==
  ASSUME TypeOK
  PROVE  /\ Top \in Nat /\ Len(Calls) = Top /\ Contract!Top = Top
         /\ \A k \in 1..Top : Calls[k] = View(stack[k], Own(k))
  <1>1. Top \in Nat
    BY DEF TypeOK, Top
  <1> QED BY <1>1 DEF Calls, Contract!Top

LEMMA NextCallsAre ==
  ASSUME stack' \in Seq(Frame)
  PROVE  /\ Len(stack') \in Nat
         /\ Calls' = [k \in 1..Len(stack') |->
                       View(stack'[k], IF k = Len(stack') THEN g' ELSE stack'[k + 1].backup)]
  BY DEF Calls, View, Own, Top

\* A stretch of compiled code changes the innermost call alone.
LEMMA ContinueCalls ==
  ASSUME TypeOK, NEW s \in Seq(Frame), Len(s) > 0, Len(s) - 1 <= Top,
         \A k \in 1..(Len(s) - 1) : s[k] = stack[k] /\ s[k + 1].backup = Own(k),
         NEW m, NEW r, Waits(s, m, r) \/ Ends(s, m, r), Continue(r)
  PROVE  /\ Len(r.stack) = Len(s) =>
              Calls' = [k \in 1..Len(s) |-> IF k = Len(s) THEN View(r.stack[Len(s)], r.g)
                                            ELSE Calls[k]]
         /\ Len(r.stack) = Len(s) => returned' = Contract!Nowhere
         /\ Len(r.stack) = Len(s) - 1 => Calls' = [k \in 1..(Len(s) - 1) |-> Calls[k]]
         /\ Len(r.stack) \in {Len(s), Len(s) - 1} /\ returned' = r.returned
  <1> DEFINE n == Len(s)
  <1>1. n \in Nat /\ n >= 1 /\ Top \in Nat
    BY DEF TypeOK, Top
  <1>2. stack' = r.stack /\ g' = r.g /\ returned' = r.returned
    BY DEF Continue
  <1>3. /\ stack' \in Seq(Frame) /\ Len(r.stack) \in {n, n - 1}
        /\ \A k \in 1..(n - 1) : stack'[k] = s[k]
    BY <1>2 DEF Waits, Ends
  <1>4. Calls' = [k \in 1..Len(stack') |->
                    View(stack'[k], IF k = Len(stack') THEN g' ELSE stack'[k + 1].backup)]
    BY <1>3, NextCallsAre
  <1>5. \A k \in 1..(n - 1) : Calls[k] = View(s[k], s[k + 1].backup)
    <2> TAKE k \in 1..(n - 1)
    <2>1. k \in 1..Top
      BY <1>1
    <2> QED BY <2>1, CallsAre
  <1> HIDE DEF n
  <1>6. CASE Waits(s, m, r)
    <2>1. /\ Len(stack') = n /\ stack'[n].backup = s[n].backup
          /\ returned' = Unwritten
      BY <1>2, <1>6 DEF Waits, n
    <2>2. ASSUME NEW k \in 1..n
          PROVE  View(stack'[k], IF k = n THEN g' ELSE stack'[k + 1].backup)
                   = IF k = n THEN View(r.stack[n], r.g) ELSE Calls[k]
      <3>1. CASE k = n
        BY <1>2, <3>1
      <3>2. CASE k # n
        <4>1. k \in 1..(n - 1) /\ (k + 1 = n \/ k + 1 \in 1..(n - 1))
          BY <1>1, <3>2
        <4>2. stack'[k] = s[k] /\ stack'[k + 1].backup = s[k + 1].backup
          BY <1>3, <2>1, <4>1
        <4> QED BY <1>5, <3>2, <4>1, <4>2
      <3> QED BY <3>1, <3>2
    <2>3. Calls' = [k \in 1..n |-> IF k = n THEN View(r.stack[n], r.g) ELSE Calls[k]]
      BY <1>4, <2>1, <2>2
    <2>4. Len(r.stack) = n /\ Len(r.stack) # n - 1
      BY <1>1, <1>2, <2>1
    <2> QED BY <1>2, <2>1, <2>3, <2>4 DEF n, Contract!Nowhere, Unwritten
  <1>7. CASE Ends(s, m, r)
    <2>1. Len(stack') = n - 1 /\ g' = s[n].backup
      BY <1>2, <1>7 DEF Ends, n
    <2>2. ASSUME NEW k \in 1..(n - 1)
          PROVE  View(stack'[k], IF k = n - 1 THEN g' ELSE stack'[k + 1].backup) = Calls[k]
      <3>1. CASE k = n - 1
        <4>1. k + 1 = n
          BY <1>1, <3>1
        <4> QED BY <1>3, <1>5, <2>1, <3>1, <4>1
      <3>2. CASE k # n - 1
        <4>1. k + 1 \in 1..(n - 1)
          BY <1>1, <3>2
        <4> QED BY <1>3, <1>5, <3>2, <4>1
      <3> QED BY <3>1, <3>2
    <2>3. Calls' = [k \in 1..(n - 1) |-> Calls[k]]
      BY <1>4, <2>1, <2>2
    <2>4. Len(r.stack) = n - 1 /\ Len(r.stack) # n
      BY <1>1, <1>2, <2>1
    <2> QED BY <1>2, <2>3, <2>4 DEF n
  <1> QED BY <1>6, <1>7

\* The frames in the form that ContinueCalls asks for.
LEMMA BackupsAreOwn ==
  ASSUME TypeOK, NEW n \in Nat, n >= 1, n - 1 <= Top, NEW s,
         \A k \in 1..(n - 1) : s[k] = stack[k],
         n <= Top => s[n].backup = stack[n].backup,
         n = Top + 1 => s[n].backup = g
  PROVE  \A k \in 1..(n - 1) : s[k] = stack[k] /\ s[k + 1].backup = Own(k)
  <1> TAKE k \in 1..(n - 1)
  <1>1. Top \in Nat /\ (n <= Top \/ n = Top + 1)
    BY DEF TypeOK, Top
  <1>2. CASE k = n - 1
    <2>1. k + 1 = n
      BY <1>2
    <2> QED BY <1>1, <1>2, <2>1 DEF Own
  <1>3. CASE k # n - 1
    <2>1. k + 1 \in 1..(n - 1) /\ k # Top
      BY <1>1, <1>3
    <2> QED BY <2>1 DEF Own
  <1> QED BY <1>2, <1>3

\* What r makes of the innermost call, as a step of the contract.
LEMMA ResumeStep ==
  ASSUME TypeOK, Top > 0, NEW s \in Seq(Frame), Len(s) = Top,
         \A k \in 1..(Top - 1) : s[k] = stack[k], s[Top].backup = stack[Top].backup,
         NEW m, NEW r, Waits(s, m, r) \/ Ends(s, m, r), Continue(r),
         Follows(s, r, Contract!Settled(Calls[Top]))
  PROVE  Contract!Next
  <1>1. /\ Top \in Nat /\ Len(Calls) = Top /\ Contract!Top = Top
        /\ Calls \in Seq({Calls[k] : k \in 1..Top})
    BY CallsAre DEF Calls
  <1>2. \A k \in 1..(Len(s) - 1) : s[k] = stack[k] /\ s[k + 1].backup = Own(k)
    <2>1. /\ Len(s) \in Nat /\ Len(s) >= 1 /\ Len(s) - 1 <= Top
          /\ \A k \in 1..(Len(s) - 1) : s[k] = stack[k]
          /\ Len(s) <= Top => s[Len(s)].backup = stack[Len(s)].backup
          /\ Len(s) = Top + 1 => s[Len(s)].backup = g
      BY <1>1
    <2> QED BY <2>1, BackupsAreOwn
  <1>3. /\ Len(r.stack) = Len(s) =>
             Calls' = [k \in 1..Len(s) |-> IF k = Len(s) THEN View(r.stack[Len(s)], r.g)
                                           ELSE Calls[k]]
        /\ Len(r.stack) = Len(s) => returned' = Contract!Nowhere
        /\ Len(r.stack) = Len(s) - 1 => Calls' = [k \in 1..(Len(s) - 1) |-> Calls[k]]
        /\ returned' = r.returned
    <2>1. Len(s) > 0 /\ Len(s) - 1 <= Top
      BY <1>1
    <2> QED BY <1>2, <2>1, ContinueCalls
  <1> DEFINE b == Contract!Settled(Calls[Top])
  <1> HIDE DEF b
  <1>4. CASE Len(r.stack) = Len(s) /\ View(r.stack[Len(s)], r.g) \in Contract!Following(b)
    <2> DEFINE c == View(r.stack[Len(s)], r.g)
    <2> HIDE DEF c
    <2>1. /\ Calls' = [k \in 1..Top |-> IF k = Top THEN c ELSE Calls[k]]
          /\ returned' = Contract!Nowhere
      BY <1>1, <1>4, <1>3 DEF c
    <2>2. Calls' = [Calls EXCEPT ![Top] = c]
      BY <1>1, <2>1 DEF Calls
    <2>3. c \in Contract!Following(Contract!Settled(Calls[Top]))
      BY <1>4 DEF b, c
    <2>4. Contract!Resume
      BY <1>1, <2>1, <2>2, <2>3 DEF Contract!Resume
    <2> QED BY <2>4 DEF Contract!Next
  <1>5. CASE /\ Len(r.stack) = Len(s) - 1
             /\ \E d \in Contract!PastOriginal(b) : r.returned = Contract!Value(d)
    <2>1. Calls' = [k \in 1..(Top - 1) |-> Calls[k]] /\ returned' = r.returned
      BY <1>1, <1>5, <1>3
    <2>2. Calls' = SubSeq(Calls, 1, Top - 1)
      BY <1>1, <2>1
    <2>3. \E d \in Contract!PastOriginal(Contract!Settled(Calls[Top])) : returned' = Contract!Value(d)
      BY <1>5, <2>1 DEF b
    <2>4. Contract!Resume
      BY <1>1, <2>2, <2>3 DEF Contract!Resume
    <2> QED BY <2>4 DEF Contract!Next
  <1> QED BY <1>4, <1>5 DEF Follows, b

LEMMA CallStep ==
  ASSUME IInv, NEW fn \in Fn, Call(fn)
  PROVE  Contract!Next \/ (Calls' = Calls /\ returned' = returned)
  <1>1. /\ mode = "alive" /\ Top < MaxDepth
        /\ Continue(PreFrom(Append(stack, NewFrame(fn)), NewGlobals, 0))
    BY CallIs
  <1> DEFINE s == Append(stack, NewFrame(fn))
  <1> DEFINE r == PreFrom(s, NewGlobals, 0)
  <1>2. TypeOK
    BY DEF IInv
  <1>3. /\ s \in Seq(Frame) /\ Len(s) = Top + 1 /\ s[Top + 1] = NewFrame(fn)
        /\ \A k \in 1..Top : s[k] = stack[k]
        /\ Top \in Nat /\ Len(s) > 0
    BY <1>1, <1>2, NewStack
  <1>4. /\ NewFrame(fn).fn = fn /\ NewFrame(fn).backup = g
        /\ NewFrame(fn).orig_ret = Unwritten /\ NewFrame(fn).over_ret = Unwritten
        /\ NewGlobals \in Globals
        /\ NewGlobals.mres = MRES_UNSET /\ NewGlobals.status = MRES_UNSET
    BY <1>1, <1>2, NewFrameTypes
  <1> HIDE DEF s
  <1>5. Waits(s, NewGlobals, r) \/ Ends(s, NewGlobals, r)
    BY <1>2, <1>3, <1>4, PreFromShape
  <1>6. Continue(r)
    BY <1>1 DEF s
  <1>7. \A k \in 1..(Len(s) - 1) : s[k] = stack[k] /\ s[k + 1].backup = Own(k)
    BY <1>2, <1>3, <1>4, BackupsAreOwn
  <1> DEFINE b == Contract!New(fn)
  <1>8. b = [fn |-> fn, at |-> <<"start", 0>>, mres |-> MRES_UNSET, prev |-> MRES_UNSET,
             status |-> MRES_UNSET, orig |-> Unwritten, over |-> Unwritten]
    BY DEF Contract!New, Contract!UNSET, Contract!Nowhere, MRES_UNSET, Unwritten
  <1>9. Shows(b, s[Len(s)], NewGlobals) /\ b.at[1] = "start" /\ b.at[2] = 0
    <2>1. b.at = <<"start", 0>> /\ b.prev = MRES_UNSET
      BY <1>8
    <2>2. b.at[1] = "start" /\ b.at[2] = 0
      BY <2>1
    <2> HIDE DEF b
    <2>3. s[Len(s)] = NewFrame(fn)
      BY <1>3
    <2>4. Shows(b, NewFrame(fn), NewGlobals)
      BY <1>4, <1>8, <2>1 DEF Shows
    <2> QED BY <2>2, <2>3, <2>4
  <1> HIDE DEF b
  <1>10. Follows(s, r, b)
    BY <1>2, <1>3, <1>4, <1>9, PreFromFollows
  <1> HIDE DEF r
  <1>11. /\ Len(Calls) = Top /\ Len(s) - 1 = Top
         /\ Calls = [k \in 1..Top |-> Calls[k]]
    BY <1>2, <1>3, CallsAre DEF Calls
  <1>12. /\ Len(r.stack) = Len(s) =>
              Calls' = [k \in 1..Len(s) |-> IF k = Len(s) THEN View(r.stack[Len(s)], r.g)
                                           ELSE Calls[k]]
         /\ Len(r.stack) = Len(s) => returned' = Contract!Nowhere
         /\ Len(r.stack) = Len(s) - 1 => Calls' = [k \in 1..(Len(s) - 1) |-> Calls[k]]
         /\ returned' = r.returned
    <2>1. Len(s) > 0 /\ Len(s) - 1 <= Top
      BY <1>3
    <2> QED BY <1>2, <1>3, <1>5, <1>6, <1>7, <2>1, ContinueCalls
  <1>13. CASE Len(r.stack) = Len(s) /\ View(r.stack[Len(s)], r.g) \in Contract!Following(b)
    <2> DEFINE c == View(r.stack[Len(s)], r.g)
    <2> HIDE DEF c
    <2>1. /\ Calls' = [k \in 1..(Top + 1) |-> IF k = Top + 1 THEN c ELSE Calls[k]]
          /\ returned' = Contract!Nowhere
      BY <1>3, <1>11, <1>13, <1>12 DEF c
    <2>2. Calls' = Append(Calls, c)
      BY <1>3, <1>11, <2>1
    <2>3. Contract!Begin(fn)
      BY <1>13, <2>1, <2>2 DEF Contract!Begin, b, c
    <2> QED BY <2>3 DEF Contract!Next
  <1>14. CASE /\ Len(r.stack) = Len(s) - 1
              /\ \E d \in Contract!PastOriginal(b) : r.returned = Contract!Value(d)
    <2>1. Calls' = Calls /\ returned' = r.returned
      <3>1. Calls' = [k \in 1..(Len(s) - 1) |-> Calls[k]] /\ returned' = r.returned
        BY <1>11, <1>14, <1>12
      <3> QED BY <1>11, <3>1
    <2>2. Contract!Begin(fn)
      BY <1>14, <2>1 DEF Contract!Begin, b
    <2> QED BY <2>2 DEF Contract!Next
  <1> QED BY <1>10, <1>13, <1>14 DEF Follows

\* The call that a handler returns to.
LEMMA SettledHandler ==
  ASSUME NEW b, b = Contract!Settled(View(stack[Top], g)), stack[Top].at[1] # "original"
  PROVE  b = [fn |-> stack[Top].fn, at |-> stack[Top].at, mres |-> g.mres, prev |-> g.prev_mres,
              status |-> Highest(g.mres, g.status), orig |-> stack[Top].orig_ret,
              over |-> Override(stack[Top].at[2], stack[Top].over_ret)]
  <1> DEFINE f == stack[Top]
  <1> HIDE DEF f
  <1>1. PICK v : v = View(f, g)
    OBVIOUS
  <1>2. v = [fn |-> f.fn, at |-> f.at, mres |-> g.mres, prev |-> g.prev_mres,
             status |-> g.status, orig |-> f.orig_ret, over |-> f.over_ret]
    BY <1>1 DEF View, f
  <1>3. v.at = f.at /\ v.mres = g.mres
    BY <1>2
  <1>4. b = [v EXCEPT !.status = Highest(g.mres, @), !.over = Override(f.at[2], @)]
    BY <1>1, <1>3 DEF Contract!Settled, Highest, Override, Contract!OVERRIDE, MRES_OVERRIDE, f
  <1>5. b = [fn |-> f.fn, at |-> f.at, mres |-> g.mres, prev |-> g.prev_mres,
             status |-> Highest(g.mres, g.status), orig |-> f.orig_ret,
             over |-> Override(f.at[2], f.over_ret)]
    BY <1>2, <1>4
  <1> QED BY <1>5 DEF f

LEMMA SettledOriginal ==
  ASSUME NEW b, b = Contract!Settled(View(stack[Top], g)), stack[Top].at[1] = "original"
  PROVE  b = [fn |-> stack[Top].fn, at |-> stack[Top].at, mres |-> g.mres, prev |-> MRES_UNSET,
              status |-> g.status, orig |-> FromOriginal, over |-> stack[Top].over_ret]
  <1> DEFINE f == stack[Top]
  <1> HIDE DEF f
  <1>1. PICK v : v = View(f, g)
    OBVIOUS
  <1>2. v = [fn |-> f.fn, at |-> f.at, mres |-> g.mres, prev |-> MRES_UNSET,
             status |-> g.status, orig |-> f.orig_ret, over |-> f.over_ret]
    BY <1>1 DEF View, f
  <1>3. v.at = f.at
    BY <1>2
  <1>4. b = [v EXCEPT !.orig = FromOriginal]
    BY <1>1, <1>3 DEF Contract!Settled, Contract!FromOriginal, FromOriginal, f
  <1>5. b = [fn |-> f.fn, at |-> f.at, mres |-> g.mres, prev |-> MRES_UNSET,
             status |-> g.status, orig |-> FromOriginal, over |-> f.over_ret]
    BY <1>2, <1>4
  <1> QED BY <1>5 DEF f

\* What the return of a handler or of the original makes of the innermost call.
Resumes(s, m, r) ==
  /\ Continue(r)
  /\ Waits(s, m, r) \/ Ends(s, m, r)
  /\ Follows(s, r, Contract!Settled(Calls[Top]))

LEMMA HandlerReturnResumes ==
  ASSUME TypeOK, HandlerReturn
  PROVE  \E r : Resumes(OverStack, SettledGlobals, r)
  <1>1. /\ Top > 0
        /\ stack[Top].at[1] \in {"pre", "post"} /\ stack[Top].at[2] \in Plugin
        /\ stack[Top].at[1] = "pre" => Continue(PreFrom(OverStack, SettledGlobals, stack[Top].at[2]))
        /\ stack[Top].at[1] = "post" => Continue(PostFrom(OverStack, SettledGlobals, stack[Top].at[2]))
    BY HandlerReturnIs
  <1>2. /\ OverStack \in Seq(Frame) /\ Len(OverStack) = Top
        /\ \A k \in 1..(Top - 1) : OverStack[k] = stack[k]
        /\ OverStack[Top].fn = stack[Top].fn
        /\ OverStack[Top].backup = stack[Top].backup
        /\ OverStack[Top].orig_ret = stack[Top].orig_ret
        /\ OverStack[Top].over_ret = Override(stack[Top].at[2], stack[Top].over_ret)
    BY <1>1, OverStackShape
  <1>3. /\ SettledGlobals \in Globals /\ SettledGlobals.mres = g.mres
        /\ SettledGlobals.status = Highest(g.mres, g.status)
    BY SettledTypes
  <1>4. /\ Top \in Nat /\ Top \in 1..Top /\ stack[Top].at[2] \in Nat /\ Len(OverStack) > 0
    BY <1>1, <1>2, InnermostCall, PluginsAreNaturals
  <1>5. Calls[Top] = View(stack[Top], g)
    BY <1>4, CallsAre DEF Own
  <1> DEFINE i == stack[Top].at[2]
  <1>6. PICK b : b = Contract!Settled(Calls[Top])
    OBVIOUS
  <1>7. b = [fn |-> stack[Top].fn, at |-> stack[Top].at, mres |-> g.mres, prev |-> g.prev_mres,
             status |-> Highest(g.mres, g.status), orig |-> stack[Top].orig_ret,
             over |-> Override(stack[Top].at[2], stack[Top].over_ret)]
    <2>1. stack[Top].at[1] # "original"
      BY <1>1
    <2> QED BY <1>5, <1>6, <2>1, SettledHandler
  <1>8. b.at = stack[Top].at /\ b.prev = g.prev_mres
    BY <1>7
  <1>9. Shows(b, OverStack[Len(OverStack)], SettledGlobals)
    BY <1>2, <1>3, <1>7, <1>8 DEF Shows
  <1>10. CASE stack[Top].at[1] = "pre"
    <2>1. PICK r : r = PreFrom(OverStack, SettledGlobals, i)
      OBVIOUS
    <2>2. Waits(OverStack, SettledGlobals, r) \/ Ends(OverStack, SettledGlobals, r)
      BY <1>2, <1>3, <1>4, <2>1, PreFromShape
    <2>3. Continue(r)
      BY <1>1, <1>10, <2>1
    <2>4. b.at[1] \in {"start", "pre"} /\ b.at[2] = i
      BY <1>8, <1>10
    <2>5. Follows(OverStack, r, b)
      BY <1>2, <1>3, <1>4, <1>9, <2>1, <2>4, PreFromFollows
    <2> QED BY <1>6, <2>2, <2>3, <2>5 DEF Resumes
  <1>11. CASE stack[Top].at[1] = "post"
    <2>1. PICK r : r = PostFrom(OverStack, SettledGlobals, i)
      OBVIOUS
    <2>2. Waits(OverStack, SettledGlobals, r) \/ Ends(OverStack, SettledGlobals, r)
      BY <1>2, <1>3, <1>4, <2>1, PostFromShape
    <2>3. Continue(r)
      BY <1>1, <1>11, <2>1
    <2>4. b.at[1] = "post" /\ b.at[2] = i
      BY <1>8, <1>11
    <2>5. b \in Contract!PastOriginal(b)
      BY <2>4 DEF Contract!PastOriginal
    <2>6. Follows(OverStack, r, b)
      BY <1>2, <1>3, <1>4, <1>9, <2>1, <2>4, <2>5, PostFromFollows
    <2> QED BY <1>6, <2>2, <2>3, <2>6 DEF Resumes
  <1> QED BY <1>1, <1>10, <1>11

LEMMA HandlerReturnStep ==
  ASSUME TypeOK, HandlerReturn
  PROVE  Contract!Next
  <1>1. PICK r : Resumes(OverStack, SettledGlobals, r)
    BY HandlerReturnResumes
  <1>2. /\ Top > 0 /\ OverStack \in Seq(Frame) /\ Len(OverStack) = Top
        /\ \A k \in 1..(Top - 1) : OverStack[k] = stack[k]
        /\ OverStack[Top].backup = stack[Top].backup
    BY HandlerReturnIs, OverStackShape
  <1> QED BY <1>1, <1>2, ResumeStep DEF Resumes

LEMMA OriginalReturnResumes ==
  ASSUME TypeOK, OriginalReturn
  PROVE  /\ Top > 0 /\ stack \in Seq(Frame) /\ Len(stack) = Top
         /\ \E r : Resumes(stack, g, r)
  <1>1. /\ Top > 0 /\ stack[Top].at[1] = "original"
        /\ Continue(PostFrom([stack EXCEPT ![Top].orig_ret = FromOriginal], g, 0))
    BY DEF OriginalReturn, InOriginal
  <1>2. /\ stack \in Seq(Frame) /\ Len(stack) = Top /\ Len(stack) > 0
        /\ Top \in Nat /\ Top \in 1..Top /\ g \in Globals /\ FromOriginal \in Value
    BY <1>1, InnermostCall DEF TypeOK, Value
  <1>3. PICK r : r = PostFrom([stack EXCEPT ![Len(stack)].orig_ret = FromOriginal], g, 0)
    OBVIOUS
  <1>4. Continue(r)
    BY <1>1, <1>2, <1>3
  <1>5. Waits(stack, g, r) \/ Ends(stack, g, r)
    BY <1>2, <1>3, PostFromOrigShape
  <1>6. PICK b : b = Contract!Settled(Calls[Top])
    OBVIOUS
  <1>7. b = [fn |-> stack[Top].fn, at |-> stack[Top].at, mres |-> g.mres, prev |-> MRES_UNSET,
             status |-> g.status, orig |-> FromOriginal, over |-> stack[Top].over_ret]
    <2>1. Calls[Top] = View(stack[Top], g)
      BY <1>2, CallsAre DEF Own
    <2> QED BY <1>1, <1>6, <2>1, SettledOriginal
  <1>8. b.at = stack[Top].at /\ b.prev = MRES_UNSET /\ b.at[1] = "original" /\ b.at[1] # "post"
    BY <1>1, <1>7
  <1>9. b \in Contract!PastOriginal(b)
    BY <1>8 DEF Contract!PastOriginal
  <1>10. b = [fn |-> stack[Len(stack)].fn, at |-> b.at, mres |-> g.mres, prev |-> b.prev,
              status |-> g.status, orig |-> FromOriginal, over |-> stack[Len(stack)].over_ret]
    BY <1>2, <1>7, <1>8
  <1>11. Follows(stack, r, b)
    BY <1>2, <1>3, <1>8, <1>9, <1>10, PostFromOrigFollows
  <1> QED BY <1>1, <1>2, <1>4, <1>5, <1>6, <1>11 DEF Resumes

LEMMA OriginalReturnStep ==
  ASSUME TypeOK, OriginalReturn
  PROVE  Contract!Next
  <1>1. PICK r : Resumes(stack, g, r)
    BY OriginalReturnResumes
  <1>2. /\ Top > 0 /\ stack \in Seq(Frame) /\ Len(stack) = Top
        /\ \A k \in 1..(Top - 1) : stack[k] = stack[k]
        /\ stack[Top].backup = stack[Top].backup
    BY OriginalReturnResumes
  <1> QED BY <1>1, <1>2, ResumeStep DEF Resumes

\* A handler's answer is the answer of the innermost call.
LEMMA SetResultStep ==
  ASSUME TypeOK, NEW mres \in Answers, SetResult(mres)
  PROVE  Contract!Next
  <1>1. /\ Top > 0 /\ stack[Top].at[1] # "original"
        /\ g' = [g EXCEPT !.mres = mres] /\ returned' = Unwritten /\ stack' = stack
    BY DEF SetResult, InHandler
  <1>2. /\ stack \in Seq(Frame) /\ Len(stack) = Top /\ Top \in Nat /\ g \in Globals
        /\ Contract!Top = Top /\ Top \in 1..Top /\ Len(Calls) = Top
    BY <1>1, CallsAre DEF TypeOK, Top
  <1>3. mres \in Contract!IGNORED..Contract!SUPERCEDE
    BY AnswersAssumption DEF Contract!IGNORED, Contract!SUPERCEDE, MRES_IGNORED, MRES_SUPERCEDE
  <1>4. PICK b : b = View(stack[Top], g)
    OBVIOUS
  <1>5. Calls[Top] = b
    BY <1>2, <1>4, CallsAre DEF Own
  <1>6. b.at = stack[Top].at
    BY <1>4 DEF View
  <1>7. PICK c : c = View(stack[Top], g')
    OBVIOUS
  <1>8. /\ g'.mres = mres /\ g'.prev_mres = g.prev_mres /\ g'.status = g.status
    BY <1>1, <1>2 DEF Globals
  <1>9. c = [b EXCEPT !.mres = mres]
    <2>1. b = [fn |-> stack[Top].fn, at |-> stack[Top].at, mres |-> g.mres,
               prev |-> IF stack[Top].at[1] = "original" THEN MRES_UNSET ELSE g.prev_mres,
               status |-> g.status, orig |-> stack[Top].orig_ret, over |-> stack[Top].over_ret]
      BY <1>4 DEF View
    <2>2. c = [fn |-> stack[Top].fn, at |-> stack[Top].at, mres |-> mres,
               prev |-> IF stack[Top].at[1] = "original" THEN MRES_UNSET ELSE g.prev_mres,
               status |-> g.status, orig |-> stack[Top].orig_ret, over |-> stack[Top].over_ret]
      BY <1>7, <1>8 DEF View
    <2>3. PICK e : e = [b EXCEPT !.mres = mres]
      OBVIOUS
    <2>4. c = e
      BY <2>1, <2>2, <2>3
    <2> QED BY <2>3, <2>4
  <1>10. Calls' = [k \in 1..Top |-> IF k = Top THEN c ELSE Calls[k]]
    <2>1. Calls' = [k \in 1..Len(stack') |->
                     View(stack'[k], IF k = Len(stack') THEN g' ELSE stack'[k + 1].backup)]
      BY <1>1, <1>2, NextCallsAre
    <2>2. ASSUME NEW k \in 1..Top
          PROVE  View(stack'[k], IF k = Len(stack') THEN g' ELSE stack'[k + 1].backup)
                   = IF k = Top THEN c ELSE Calls[k]
      <3>1. CASE k = Top
        BY <1>1, <1>2, <1>7, <3>1
      <3>2. CASE k # Top
        <4>1. Calls[k] = View(stack[k], stack[k + 1].backup)
          BY <3>2, CallsAre DEF Own
        <4> QED BY <1>1, <1>2, <3>2, <4>1
      <3> QED BY <3>1, <3>2
    <2> QED BY <1>1, <1>2, <2>1, <2>2
  <1>11. Calls' = [Calls EXCEPT ![Top] = c]
    <2>1. Calls = [k \in 1..Top |-> Calls[k]]
      BY DEF Calls
    <2> QED BY <1>2, <1>10, <2>1
  <1>12. Calls' = [Calls EXCEPT ![Contract!Top].mres = mres]
    BY <1>2, <1>5, <1>9, <1>11
  <1>13. Calls[Contract!Top].at[1] # "original"
    BY <1>1, <1>2, <1>5, <1>6
  <1>14. returned' = Contract!Nowhere
    BY <1>1 DEF Contract!Nowhere, Unwritten
  <1>15. Contract!Answer(mres)
    BY <1>1, <1>2, <1>12, <1>13, <1>14 DEF Contract!Answer
  <1> QED BY <1>3, <1>15 DEF Contract!Next

\* What the contract sees of a frame.
Alike(f, h) == /\ f.fn = h.fn /\ f.at = h.at /\ f.backup = h.backup
               /\ f.orig_ret = h.orig_ret /\ f.over_ret = h.over_ret

\* The contract sees nothing of where frames return to and what they owe.
LEMMA SameCalls ==
  ASSUME TypeOK, stack' \in Seq(Frame), Len(stack') = Top, g' = g,
         \A k \in 1..Top : Alike(stack'[k], stack[k])
  PROVE  Calls' = Calls
  <1>1. Calls' = [k \in 1..Len(stack') |->
                   View(stack'[k], IF k = Len(stack') THEN g' ELSE stack'[k + 1].backup)]
    BY NextCallsAre
  <1>2. ASSUME NEW k \in 1..Top
        PROVE  View(stack'[k], IF k = Len(stack') THEN g' ELSE stack'[k + 1].backup)
                 = View(stack[k], Own(k))
    <2>1. (IF k = Len(stack') THEN g' ELSE stack'[k + 1].backup) = Own(k)
      <3>1. CASE k = Top
        BY <3>1 DEF Own
      <3>2. CASE k # Top
        <4>1. k + 1 \in 1..Top
          BY <3>2, CallsAre
        <4>2. stack'[k + 1].backup = stack[k + 1].backup
          BY <4>1 DEF Alike
        <4> QED BY <3>2, <4>2 DEF Own
      <3> QED BY <3>1, <3>2
    <2>2. Alike(stack'[k], stack[k])
      OBVIOUS
    <2> QED BY <2>1, <2>2 DEF View, Alike
  <1>3. Calls' = [k \in 1..Top |-> View(stack[k], Own(k))]
    BY <1>1, <1>2
  <1> QED BY <1>3 DEF Calls

LEMMA RebuildSameCalls ==
  ASSUME TypeOK, stack' \in Seq(Frame), NEW plugins, NEW tabled,
         NEW s \in Seq(Frame), Len(s) = Top, \A k \in 1..Top : Alike(s[k], stack[k]),
         Rebuild(s, plugins, tabled), g' = g
  PROVE  Calls' = Calls
  <1>1. Top \in Nat
    BY CallsAre
  <1>2. CASE Unfound(plugins) # {}
    BY <1>2, SameCalls DEF Rebuild
  <1>3. CASE Unfound(plugins) = {}
    <2> DEFINE f(k) == IF k \in Collected THEN [s[k] EXCEPT !.into = code'] ELSE s[k]
    <2>1. stack' = [k \in 1..Top |-> f(k)]
      BY <1>3 DEF Rebuild
    <2>2. \A k \in 1..Top : Alike(f(k), stack[k])
      <3> TAKE k \in 1..Top
      <3>1. s[k] \in Frame /\ Alike(s[k], stack[k])
        OBVIOUS
      <3> QED BY <3>1 DEF Frame, Alike
    <2> HIDE DEF f
    <2>3. Len(stack') = Top /\ \A k \in 1..Top : stack'[k] = f(k)
      BY <1>1, <2>1
    <2> QED BY <2>2, <2>3, SameCalls
  <1> QED BY <1>2, <1>3

LEMMA ReleasedAlike ==
  ASSUME TypeOK, NEW i
  PROVE  /\ Released(i) \in Seq(Frame) /\ Len(Released(i)) = Top
         /\ \A k \in 1..Top : Alike(Released(i)[k], stack[k])
  BY ReleasedStack DEF Alike

LEMMA UnchangedAlike ==
  ASSUME TypeOK
  PROVE  /\ stack \in Seq(Frame) /\ Len(stack) = Top
         /\ \A k \in 1..Top : Alike(stack[k], stack[k])
  BY DEF Alike, TypeOK, Top

\* Loading, unloading, pausing and rebuilding: the contract sees none of it.
LEMMA Unseen ==
  ASSUME TypeOK, stack' \in Seq(Frame),
         \/ \E i \in Plugin : \/ LoadPlugin(i) \/ UnloadPlugin(i) \/ ReloadPlugin(i)
                              \/ PausePlugin(i) \/ UnpausePlugin(i)
         \/ Refresh
         \/ ReturnAstray
         \/ UNCHANGED vars
  PROVE  Calls' = Calls /\ returned' = returned
  <1>1. ASSUME NEW i \in Plugin, LoadPlugin(i) PROVE Calls' = Calls /\ returned' = returned
    <2>1. Rebuild(stack, Loaded(status'), Loaded(status')) /\ g' = g /\ returned' = returned
      BY <1>1 DEF LoadPlugin
    <2> QED BY <2>1, UnchangedAlike, RebuildSameCalls
  <1>2. ASSUME NEW i \in Plugin, UnloadPlugin(i) PROVE Calls' = Calls /\ returned' = returned
    <2>1. Rebuild(Released(i), Loaded(status'), Loaded(status')) /\ g' = g /\ returned' = returned
      BY <1>2 DEF UnloadPlugin
    <2> QED BY <2>1, ReleasedAlike, RebuildSameCalls
  <1>3. ASSUME NEW i \in Plugin, ReloadPlugin(i) PROVE Calls' = Calls /\ returned' = returned
    <2>1. Rebuild(Released(i), Loaded(status) \ {i}, Loaded(status)) /\ g' = g /\ returned' = returned
      BY <1>3 DEF ReloadPlugin
    <2> QED BY <2>1, ReleasedAlike, RebuildSameCalls
  <1>4. ASSUME NEW i \in Plugin, PausePlugin(i) PROVE Calls' = Calls /\ returned' = returned
    <2>1. stack' = Released(i) /\ g' = g /\ returned' = returned
      BY <1>4 DEF PausePlugin
    <2> QED BY <2>1, ReleasedAlike, SameCalls
  <1>5. CASE Refresh
    <2>1. Rebuild(stack, Loaded(status), Loaded(status)) /\ g' = g /\ returned' = returned
      BY <1>5 DEF Refresh
    <2> QED BY <2>1, UnchangedAlike, RebuildSameCalls
  <1>6. ASSUME stack' = stack, g' = g, returned' = returned
        PROVE  Calls' = Calls /\ returned' = returned
    BY <1>6, UnchangedAlike, SameCalls
  <1>7. ASSUME NEW i \in Plugin, UnpausePlugin(i) PROVE Calls' = Calls /\ returned' = returned
    BY <1>6, <1>7 DEF UnpausePlugin
  <1>8. CASE ReturnAstray
    BY <1>6, <1>8 DEF ReturnAstray
  <1>9. CASE UNCHANGED vars
    BY <1>6, <1>9 DEF vars
  <1> QED BY <1>1, <1>2, <1>3, <1>4, <1>5, <1>7, <1>8, <1>9

LEMMA InitContract == Init => Contract!Init
  <1> SUFFICES ASSUME Init PROVE Contract!Init
    OBVIOUS
  <1>1. Top = 0 /\ returned = Unwritten
    BY DEF Init, Top
  <1>2. Calls = <<>>
    <2>1. 1..Top = {}
      BY <1>1
    <2> QED BY <2>1 DEF Calls
  <1> QED BY <1>1, <1>2 DEF Contract!Init, Contract!Nowhere, Unwritten

LEMMA NextContract == IInv /\ [Next]_vars => [Contract!Next]_(Contract!vars)
  <1> SUFFICES ASSUME IInv, [Next]_vars
               PROVE  Contract!Next \/ (Calls' = Calls /\ returned' = returned)
    BY DEF Contract!vars
  <1>1. TypeOK /\ stack' \in Seq(Frame)
    BY NextIInv DEF IInv, TypeOK
  <1>2. ASSUME NEW fn \in Fn, Call(fn)
        PROVE  Contract!Next \/ (Calls' = Calls /\ returned' = returned)
    BY <1>1, <1>2, CallStep
  <1>3. ASSUME NEW mres \in Answers, SetResult(mres) PROVE Contract!Next
    BY <1>1, <1>3, SetResultStep
  <1>4. CASE HandlerReturn
    BY <1>1, <1>4, HandlerReturnStep
  <1>5. CASE OriginalReturn
    BY <1>1, <1>5, OriginalReturnStep
  <1>6. CASE ReturnAstray \/ Refresh \/ UNCHANGED vars
    BY <1>1, <1>6, Unseen
  <1>7. CASE \E i \in Plugin : \/ LoadPlugin(i) \/ UnloadPlugin(i) \/ ReloadPlugin(i)
                              \/ PausePlugin(i) \/ UnpausePlugin(i)
    BY <1>1, <1>7, Unseen
  <1> QED BY <1>2, <1>3, <1>4, <1>5, <1>6, <1>7 DEF Next

\* Every call behaves as if g_metaGlobals were its own: whatever calls one
\* another, from handlers and originals and to any depth, what becomes of each
\* is what DispatchContract says of a call by itself.
THEOREM ContractHolds == Spec => ContractKept
  <1>1. Init => Contract!Init
    BY InitContract
  <1>2. IInv /\ [Next]_vars => [Contract!Next]_(Contract!vars)
    BY NextContract
  <1> QED BY <1>1, <1>2, Invariance, PTL DEF Spec, ContractKept, Contract!Spec

----------------------------------------------------------------------------
(* The values that are handed out.  A call whose plugins override has the  *)
(* value of one of them, and one past its original has that value.         *)

Call_ == [fn : Fn, at : {"start", "pre", "post", "original"} \X Nat, mres : Int, prev : Int,
          status : Int, orig : Int, over : Int]

Written(c) ==
  /\ c.status >= MRES_OVERRIDE => c.over # Unwritten
  /\ c.at[1] = "post" => c.orig # Unwritten

\* A settled call: the original, when it was what the call waited for, is known.
WrittenSettled(b) ==
  /\ Written(b)
  /\ b.at[1] = "original" => b.orig # Unwritten

AllWritten(q) == \A k \in 1..Len(q) : Written(q[k])

CallsWritten == AllWritten(Calls)

VInv == IInv /\ CallsWritten

LEMMA CallsTyped ==
  ASSUME TypeOK
  PROVE  Calls \in Seq(Call_)
  <1> SUFFICES ASSUME NEW k \in 1..Top PROVE Calls[k] \in Call_
    BY CallsAre DEF Calls
  <1>1. stack[k] \in Frame /\ Own(k) \in Globals
    <2>1. Top \in Nat /\ stack[k] \in Frame /\ g \in Globals
      BY DEF TypeOK, Top
    <2>2. k # Top => stack[k + 1] \in Frame
      BY <2>1 DEF TypeOK, Top
    <2> QED BY <2>1, <2>2 DEF Own, Frame
  <1>2. PICK f : f = stack[k]
    OBVIOUS
  <1>3. PICK m : m = Own(k)
    OBVIOUS
  <1>4. f.fn \in Fn /\ f.at \in Site /\ f.orig_ret \in Value /\ f.over_ret \in Value
    BY <1>1, <1>2 DEF Frame
  <1>5. f.at \in {"start", "pre", "post", "original"} \X Nat
    <2>1. CASE f.at = <<"original", 0>>
      BY <2>1
    <2>2. CASE f.at \in {"pre", "post"} \X Plugin
      <3>1. {"pre", "post"} \X Plugin \subseteq {"start", "pre", "post", "original"} \X Nat
        BY PluginsAreNaturals
      <3> QED BY <2>2, <3>1
    <2> QED BY <1>4, <2>1, <2>2 DEF Site
  <1>6. f.orig_ret \in Int /\ f.over_ret \in Int
    <2>1. Value \subseteq Int
      BY PluginsAreNaturals DEF Value, FromOriginal, FromDefault, Unwritten
    <2> QED BY <1>4, <2>1
  <1>7. m.mres \in Int /\ m.prev_mres \in Int /\ m.status \in Int /\ MRES_UNSET \in Int
    BY <1>1, <1>3 DEF Globals, Result, MRES_UNSET, MRES_SUPERCEDE
  <1>8. View(f, m) \in Call_
    BY <1>4, <1>5, <1>6, <1>7 DEF View, Call_
  <1> QED BY <1>2, <1>3, <1>8, CallsAre

\* A plugin's number is no unwritten slot.
LEMMA SettledWritten ==
  ASSUME NEW c \in Call_, Written(c), NEW b, b = Contract!Settled(c)
  PROVE  b \in Call_ /\ WrittenSettled(b) /\ b.fn = c.fn /\ b.at = c.at
  <1> USE DEF Call_, Written, WrittenSettled, MRES_OVERRIDE, Unwritten
  <1>1. CASE c.at[1] = "original"
    <2>1. b = [c EXCEPT !.orig = 0]
      BY <1>1 DEF Contract!Settled, Contract!FromOriginal
    <2> QED BY <1>1, <2>1
  <1>2. CASE c.at[1] # "original"
    <2>1. b = [c EXCEPT !.status = IF c.mres > @ THEN c.mres ELSE @,
                        !.over = IF c.mres >= 3 THEN c.at[2] ELSE @]
      BY <1>2 DEF Contract!Settled, Contract!OVERRIDE
    <2>2. c.at[2] \in Nat /\ c.mres \in Int /\ c.status \in Int /\ c.over \in Int
      OBVIOUS
    <2>3. PICK st : st = IF c.mres > c.status THEN c.mres ELSE c.status
      OBVIOUS
    <2>4. PICK v : v = IF c.mres >= 3 THEN c.at[2] ELSE c.over
      OBVIOUS
    <2>5. st \in Int /\ v \in Int /\ (st >= 3 => v # -2)
      BY <2>2, <2>3, <2>4
    <2>6. b = [c EXCEPT !.status = st, !.over = v]
      BY <2>1, <2>3, <2>4
    <2>7. b \in Call_ /\ b.fn = c.fn /\ b.at = c.at /\ b.status = st /\ b.over = v /\ b.orig = c.orig
      BY <2>5, <2>6
    <2> QED BY <1>2, <2>5, <2>7
  <1> QED BY <1>1, <1>2

LEMMA PastOriginalWritten ==
  ASSUME NEW b \in Call_, WrittenSettled(b), NEW d \in Contract!PastOriginal(b)
  PROVE  d \in Call_ /\ Written(d) /\ d.orig # Unwritten /\ d.at = b.at
  <1> USE DEF Call_, Written, WrittenSettled, MRES_OVERRIDE, Unwritten
  <1>1. CASE b.at[1] \in {"original", "post"}
    <2>1. d = b
      BY <1>1 DEF Contract!PastOriginal
    <2> QED BY <1>1, <2>1
  <1>2. CASE b.at[1] \notin {"original", "post"} /\ b.status = 4
    <2>1. d = [b EXCEPT !.orig = b.over]
      BY <1>2 DEF Contract!PastOriginal, Contract!SUPERCEDE
    <2> QED BY <1>2, <2>1
  <1>3. CASE b.at[1] \notin {"original", "post"} /\ b.status # 4
    <2>1. d = [b EXCEPT !.orig = -1]
      BY <1>3 DEF Contract!PastOriginal, Contract!SUPERCEDE, Contract!FromDefault
    <2> QED BY <1>3, <2>1
  <1> QED BY <1>1, <1>2, <1>3

LEMMA FollowingWritten ==
  ASSUME NEW b \in Call_, WrittenSettled(b), NEW c \in Contract!Following(b)
  PROVE  Written(c)
  <1> USE DEF Call_, Written, WrittenSettled, MRES_OVERRIDE, Unwritten
  <1>1. ASSUME NEW i \in Plugin, c = Contract!Asked(b, "pre", i) PROVE Written(c)
    BY <1>1 DEF Contract!Asked
  <1>2. CASE \E d \in {b} : c = [d EXCEPT !.at = <<"original", 0>>, !.prev = Contract!UNSET]
    <2>1. c = [b EXCEPT !.at = <<"original", 0>>, !.prev = Contract!UNSET]
      BY <1>2, Zenon
    <2>2. c.at = <<"original", 0>> /\ c.status = b.status /\ c.over = b.over
      BY <2>1
    <2>3. c.at[1] # "post"
      BY <2>2
    <2> QED BY <2>2, <2>3
  <1>3. ASSUME NEW d \in Contract!PastOriginal(b), NEW i \in Plugin, c = Contract!Asked(d, "post", i)
        PROVE  Written(c)
    <2>1. d \in Call_ /\ Written(d) /\ d.orig # Unwritten
      BY PastOriginalWritten
    <2> QED BY <1>3, <2>1 DEF Contract!Asked
  <1>4. \/ \E i \in Plugin : c = Contract!Asked(b, "pre", i)
        \/ \E d \in {b} : c = [d EXCEPT !.at = <<"original", 0>>, !.prev = Contract!UNSET]
        \/ \E d \in Contract!PastOriginal(b) : \E i \in Plugin : c = Contract!Asked(d, "post", i)
    BY Zenon DEF Contract!Following
  <1> QED BY <1>1, <1>2, <1>3, <1>4

LEMMA NewWritten ==
  ASSUME NEW fn \in Fn, NEW b, b = Contract!New(fn)
  PROVE  b \in Call_ /\ WrittenSettled(b)
  BY DEF Contract!New, Call_, Written, WrittenSettled, MRES_OVERRIDE, Unwritten, Contract!UNSET,
         Contract!Nowhere

\* The values of a call that ends have been written.
LEMMA ValuesWritten ==
  ASSUME NEW b \in Call_, WrittenSettled(b), NEW d \in Contract!PastOriginal(b)
  PROVE  Contract!Value(d) # Unwritten /\ NotedValue(d) # Unwritten
  <1>1. d \in Call_ /\ Written(d) /\ d.orig # Unwritten
    BY PastOriginalWritten
  <1> QED BY <1>1 DEF Written, Contract!Value, NotedValue, Contract!OVERRIDE, MRES_OVERRIDE, Call_

LEMMA StepWritten ==
  ASSUME TypeOK, CallsWritten, Contract!Next
  PROVE  CallsWritten'
  <1> SUFFICES AllWritten(Calls')
    BY DEF CallsWritten
  <1>1. Calls \in Seq(Call_) /\ AllWritten(Calls) /\ Contract!Top = Len(Calls)
    BY CallsTyped DEF CallsWritten, Contract!Top
  <1>2. PICK q : q = Calls
    OBVIOUS
  <1>3. PICK next : next = Calls'
    OBVIOUS
  <1>4. q \in Seq(Call_) /\ Len(q) \in Nat /\ \A k \in 1..Len(q) : Written(q[k])
    BY <1>1, <1>2 DEF AllWritten
  <1>5. ASSUME NEW fn \in Fn, Contract!Begin(fn) PROVE AllWritten(next)
    <2>1. CASE \E c \in Contract!Following(Contract!New(fn)) : next = Append(q, c)
      <3>1. PICK c \in Contract!Following(Contract!New(fn)) : next = Append(q, c)
        BY <2>1
      <3>2. Written(c)
        BY NewWritten, FollowingWritten
      <3> QED BY <1>4, <3>1, <3>2 DEF AllWritten
    <2>2. CASE next = q
      BY <1>4, <2>2 DEF AllWritten
    <2> QED BY <1>2, <1>3, <1>5, <2>1, <2>2 DEF Contract!Begin
  <1>6. ASSUME NEW mres, Contract!Answer(mres) PROVE AllWritten(next)
    <2>1. Len(q) \in 1..Len(q) /\ next = [q EXCEPT ![Len(q)].mres = mres]
      BY <1>1, <1>2, <1>3, <1>4, <1>6 DEF Contract!Answer
    <2>2. PICK c : c = [q[Len(q)] EXCEPT !.mres = mres]
      OBVIOUS
    <2>3. next = [q EXCEPT ![Len(q)] = c]
      BY <2>1, <2>2
    <2>4. q[Len(q)] \in Call_ /\ Written(q[Len(q)])
      BY <1>4, <2>1
    <2>5. c.status = q[Len(q)].status /\ c.over = q[Len(q)].over /\ c.at = q[Len(q)].at
          /\ c.orig = q[Len(q)].orig
      BY <2>2, <2>4 DEF Call_
    <2>6. Written(c)
      BY <2>4, <2>5 DEF Written
    <2> QED BY <1>4, <2>1, <2>3, <2>6 DEF AllWritten
  <1>7. ASSUME Contract!Resume PROVE AllWritten(next)
    <2>1. Len(q) \in 1..Len(q)
      BY <1>1, <1>2, <1>4, <1>7 DEF Contract!Resume
    <2>2. PICK b : b = Contract!Settled(q[Len(q)])
      OBVIOUS
    <2>3. b \in Call_ /\ WrittenSettled(b)
      BY <1>4, <2>1, <2>2, SettledWritten
    <2>4. CASE \E c \in Contract!Following(b) : next = [q EXCEPT ![Len(q)] = c]
      <3>1. PICK c \in Contract!Following(b) : next = [q EXCEPT ![Len(q)] = c]
        BY <2>4
      <3>2. Written(c)
        BY <2>3, FollowingWritten
      <3> QED BY <1>4, <2>1, <3>1, <3>2 DEF AllWritten
    <2>5. CASE next = SubSeq(q, 1, Len(q) - 1)
      BY <1>4, <2>1, <2>5 DEF AllWritten
    <2>6. \/ \E c \in Contract!Following(b) : next = [q EXCEPT ![Len(q)] = c]
          \/ next = SubSeq(q, 1, Len(q) - 1)
      BY <1>1, <1>2, <1>3, <1>7, <2>2 DEF Contract!Resume
    <2> QED BY <2>4, <2>5, <2>6
  <1> QED BY <1>3, <1>5, <1>6, <1>7 DEF Contract!Next

LEMMA InitVInv == Init => VInv
  <1> SUFFICES ASSUME Init PROVE VInv
    OBVIOUS
  <1>1. Calls = <<>>
    BY InitContract DEF Contract!Init
  <1> QED BY <1>1, InitIInv DEF VInv, CallsWritten, AllWritten

LEMMA NextVInv == VInv /\ [Next]_vars => VInv'
  <1> SUFFICES ASSUME VInv, [Next]_vars PROVE VInv'
    OBVIOUS
  <1>1. Contract!Next \/ Calls' = Calls
    BY NextContract DEF VInv, Contract!vars
  <1>2. CASE Calls' = Calls
    BY <1>2, NextIInv DEF VInv, CallsWritten
  <1>3. CASE Contract!Next
    BY <1>3, NextIInv, StepWritten DEF VInv, IInv
  <1> QED BY <1>1, <1>2, <1>3

LEMMA ValueInvariance == Spec => []VInv
  BY InitVInv, NextVInv, PTL DEF Spec

\* What the return of the innermost call's handler or original hands out.
LEMMA ResumedWritten ==
  ASSUME VInv, Top > 0, NEW s, Len(s) = Top, NEW m, NEW r, Resumes(s, m, r), Len(stack') < Top
  PROVE  returned' # Unwritten /\ noted' # Unwritten
  <1>1. Top \in Nat /\ Top \in 1..Top /\ Calls[Top] \in Call_ /\ Written(Calls[Top])
    BY CallsAre, CallsTyped DEF VInv, IInv, CallsWritten, AllWritten
  <1>2. PICK b : b = Contract!Settled(Calls[Top])
    OBVIOUS
  <1>3. b \in Call_ /\ WrittenSettled(b)
    BY <1>1, <1>2, SettledWritten
  <1>4. stack' = r.stack /\ returned' = r.returned /\ noted' = r.noted
    BY DEF Resumes, Continue
  <1>5. Len(r.stack) # Len(s)
    BY <1>1, <1>4
  <1>6. PICK d \in Contract!PastOriginal(b) :
          r.returned = Contract!Value(d) /\ r.noted = NotedValue(d)
    BY <1>2, <1>5 DEF Resumes, Follows
  <1> QED BY <1>3, <1>4, <1>6, ValuesWritten

LEMMA EndedWritten ==
  ASSUME OInv, VInv, [Next]_vars, Len(stack') < Top
  PROVE  returned' # Unwritten /\ noted' # Unwritten
  <1>1. TypeOK /\ Top \in Nat /\ Len(stack') # Top /\ ~ (Len(stack') >= Top)
    BY NextIInv DEF OInv, IInv, TypeOK, Top
  <1>2. ASSUME NEW fn \in Fn, Call(fn) PROVE FALSE
    BY <1>1, <1>2, CallOwes
  <1>3. CASE HandlerReturn
    <2>1. PICK r : Resumes(OverStack, SettledGlobals, r)
      BY <1>1, <1>3, HandlerReturnResumes
    <2>2. Top > 0 /\ Len(OverStack) = Top
      BY <1>1, <1>3, HandlerReturnIs, OverStackShape
    <2> QED BY <2>1, <2>2, ResumedWritten
  <1>4. CASE OriginalReturn
    <2>1. Top > 0 /\ Len(stack) = Top /\ \E r : Resumes(stack, g, r)
      BY <1>1, <1>4, OriginalReturnResumes
    <2> QED BY <2>1, ResumedWritten
  <1>5. ASSUME NEW i \in Plugin,
               LoadPlugin(i) \/ UnloadPlugin(i) \/ ReloadPlugin(i) \/ PausePlugin(i)
        PROVE  FALSE
    BY <1>1, <1>5, LoadPluginOwes, UnloadPluginOwes, ReloadPluginOwes, PausePluginOwes
  <1>6. CASE Refresh
    BY <1>1, <1>6, RefreshOwes
  <1>7. stack' # stack
    BY <1>1 DEF Top
  <1>8. ASSUME NEW i \in Plugin, UnpausePlugin(i) PROVE FALSE
    BY <1>7, <1>8 DEF UnpausePlugin
  <1>9. ASSUME NEW mres \in Answers, SetResult(mres) PROVE FALSE
    BY <1>7, <1>9 DEF SetResult
  <1>10. ~ ReturnAstray /\ ~ UNCHANGED vars
    BY <1>7 DEF ReturnAstray, vars
  <1> QED BY <1>2, <1>3, <1>4, <1>5, <1>6, <1>8, <1>9, <1>10 DEF Next

\* Whatever the plugins answer, a call that ends hands out a value that one of
\* them or the original gave, and mm_RegUserMsg takes one down; it is the same
\* unless a plugin superseded.
THEOREM SavedIdReturnedHolds == Spec => SavedIdReturned
  <1> DEFINE Ended ==
        Len(stack') < Top => /\ returned' # Unwritten /\ noted' # Unwritten
                             /\ MRES_SUPERCEDE \notin {g.mres, g.status} => noted' = returned'
  <1>1. OInv /\ VInv /\ [Next]_vars => Ended
    <2> SUFFICES ASSUME OInv, VInv, [Next]_vars, Len(stack') < Top
                 PROVE  /\ returned' # Unwritten /\ noted' # Unwritten
                        /\ MRES_SUPERCEDE \notin {g.mres, g.status} => noted' = returned'
      OBVIOUS
    <2> QED BY EndedWritten, SameIdReturned
  <1> HIDE DEF Ended
  <1>2. Spec => [][Ended]_vars
    BY <1>1, DebtInvariance, ValueInvariance, PTL DEF Spec
  <1> QED BY <1>2 DEF SavedIdReturned, Ended

----------------------------------------------------------------------------
(* The ways the server may end.                                            *)

\* The code goes astray at the return of the innermost call, or in the scan of a
\* rebuild that call has asked for, and either only if it called the original.
\* A handler may load and unload plugins as it likes.
AstrayFromOriginal ==
  [][mode = "alive" /\ mode' = "lost" => Top > 0 /\ stack[Top].at[1] = "original"]_vars

\* Sys_Error ends the server in meta_apply_fix_data only for a plugin that is
\* unloaded or reloaded below a handler of its own.
ExitsForHandlers ==
  [][mode = "alive" /\ mode' = "exited" =>
       \E k \in 1..Top :
         /\ stack[k].at[1] # "original"
         /\ UnloadPlugin(stack[k].at[2]) \/ ReloadPlugin(stack[k].at[2])]_vars

LEMMA RebuildLost ==
  ASSUME IInv, mode = "alive", NEW s, NEW plugins, NEW tabled, Rebuild(s, plugins, tabled),
         mode' = "lost"
  PROVE  Top > 0 /\ stack[Top].at[1] = "original"
  <1>1. PICK k \in Chain : Hits(k) = {}
    BY Zenon DEF Rebuild, Overruns
  <1>2. Top \in Nat /\ k \in 1..Top /\ Top \in k..Top /\ Top \in 1..Top
    BY <1>1 DEF Chain, IInv, TypeOK, Top
  <1>3. ~ Registered(Top)
    BY <1>1, <1>2 DEF Hits
  <1>4. stack[Top].at[1] # "original" => stack[Top].into = code
    BY <1>2 DEF IInv, HandlersReturn
  <1> QED BY <1>2, <1>3, <1>4 DEF Registered

LEMMA RebuildExited ==
  ASSUME IInv, mode = "alive", NEW s, NEW plugins, NEW tabled, Rebuild(s, plugins, tabled),
         mode' = "exited"
  PROVE  \E k \in 1..Top : stack[k].at[1] # "original" /\ stack[k].at[2] \notin plugins
  <1>1. PICK k \in Unfound(plugins) : TRUE
    <2>1. CASE Unfound(plugins) = {}
      BY <2>1, Zenon DEF Rebuild
    <2> QED BY <2>1
  <1>2. k \in Collected /\ stack[k].at[2] \notin plugins
    BY <1>1 DEF Unfound
  <1>3. PICK j \in Chain : Hits(j) # {} /\ k = Least(Hits(j))
    BY <1>2 DEF Collected
  <1>4. Top \in Nat /\ j \in 1..Top
    BY DEF Chain, IInv, TypeOK, Top
  <1>5. Hits(j) \in SUBSET Nat
    BY <1>4 DEF Hits
  <1>6. k \in Hits(j)
    BY <1>3, <1>5, LeastIsLeast
  <1>7. k \in 1..Top /\ stack[k].at[1] # "original"
    BY <1>4, <1>6 DEF Hits, Registered
  <1> QED BY <1>2, <1>7

\* A plugin whose handler is on the stack is still loaded.
LEMMA WaitingIsLoaded ==
  ASSUME IInv, mode = "alive", NEW k \in 1..Top, stack[k].at[1] # "original"
  PROVE  stack[k].at[2] \in Plugin /\ stack[k].at[2] \in Loaded(status)
  <1>1. stack[k].at \in Site
    <2>1. stack[k] \in Frame
      BY DEF IInv, TypeOK, Top
    <2> QED BY <2>1 DEF Frame
  <1>2. stack[k].at[2] \in Plugin
    BY <1>1 DEF Site
  <1> QED BY <1>2 DEF IInv, HandlersStayLoaded, Loaded

LEMMA AstrayStep ==
  ASSUME IInv, [Next]_vars, mode = "alive", mode' = "lost"
  PROVE  Top > 0 /\ stack[Top].at[1] = "original"
  <1>1. ASSUME NEW i \in Plugin, LoadPlugin(i) \/ UnloadPlugin(i) \/ ReloadPlugin(i)
        PROVE  Top > 0 /\ stack[Top].at[1] = "original"
    BY <1>1, RebuildLost DEF LoadPlugin, UnloadPlugin, ReloadPlugin
  <1>2. CASE Refresh
    BY <1>2, RebuildLost DEF Refresh
  <1>3. CASE ReturnAstray
    BY <1>3 DEF ReturnAstray, IInv, HandlersReturn, TypeOK, Top
  <1>4. ASSUME NEW fn \in Fn, Call(fn) PROVE FALSE
    BY <1>4 DEF Call, Continue
  <1>5. ASSUME NEW mres \in Answers, SetResult(mres) PROVE FALSE
    BY <1>5 DEF SetResult
  <1>6. ~ HandlerReturn /\ ~ OriginalReturn
    BY DEF HandlerReturn, OriginalReturn, Continue
  <1>7. ASSUME NEW i \in Plugin, PausePlugin(i) \/ UnpausePlugin(i) PROVE FALSE
    BY <1>7 DEF PausePlugin, UnpausePlugin
  <1>8. ~ UNCHANGED vars
    BY DEF vars
  <1> QED BY <1>1, <1>2, <1>3, <1>4, <1>5, <1>6, <1>7, <1>8 DEF Next

LEMMA ExitStep ==
  ASSUME IInv, [Next]_vars, mode = "alive", mode' = "exited"
  PROVE  \E k \in 1..Top :
           /\ stack[k].at[1] # "original"
           /\ UnloadPlugin(stack[k].at[2]) \/ ReloadPlugin(stack[k].at[2])
  <1>1. ASSUME NEW i \in Plugin, UnloadPlugin(i)
        PROVE  \E k \in 1..Top : stack[k].at[1] # "original" /\ stack[k].at[2] = i
    <2>1. PICK k \in 1..Top : stack[k].at[1] # "original" /\ stack[k].at[2] \notin Loaded(status')
      BY <1>1, RebuildExited DEF UnloadPlugin
    <2>2. stack[k].at[2] \in Plugin /\ stack[k].at[2] \in Loaded(status)
      BY <2>1, WaitingIsLoaded
    <2>3. status' = [status EXCEPT ![i] = "gone"] /\ status \in [Plugin -> {"gone", "running", "paused"}]
      BY <1>1 DEF UnloadPlugin, IInv, TypeOK
    <2> QED BY <2>1, <2>2, <2>3 DEF Loaded
  <1>2. ASSUME NEW i \in Plugin, ReloadPlugin(i)
        PROVE  \E k \in 1..Top : stack[k].at[1] # "original" /\ stack[k].at[2] = i
    <2>1. PICK k \in 1..Top : stack[k].at[1] # "original" /\ stack[k].at[2] \notin Loaded(status) \ {i}
      BY <1>2, RebuildExited DEF ReloadPlugin
    <2>2. stack[k].at[2] \in Loaded(status)
      BY <2>1, WaitingIsLoaded
    <2> QED BY <2>1, <2>2
  <1>3. ASSUME NEW i \in Plugin, LoadPlugin(i) PROVE FALSE
    <2>1. PICK k \in 1..Top : stack[k].at[1] # "original" /\ stack[k].at[2] \notin Loaded(status')
      BY <1>3, RebuildExited DEF LoadPlugin
    <2>2. stack[k].at[2] \in Plugin /\ stack[k].at[2] \in Loaded(status)
      BY <2>1, WaitingIsLoaded
    <2>3. status' = [status EXCEPT ![i] = "running"] /\ status \in [Plugin -> {"gone", "running", "paused"}]
      BY <1>3 DEF LoadPlugin, IInv, TypeOK
    <2> QED BY <2>1, <2>2, <2>3 DEF Loaded
  <1>4. ~ Refresh
    <2> SUFFICES ASSUME Refresh PROVE FALSE
      OBVIOUS
    <2>1. PICK k \in 1..Top : stack[k].at[1] # "original" /\ stack[k].at[2] \notin Loaded(status)
      BY RebuildExited DEF Refresh
    <2> QED BY <2>1, WaitingIsLoaded
  <1>5. ~ ReturnAstray /\ ~ UNCHANGED vars
    BY DEF ReturnAstray, vars
  <1>6. ASSUME NEW fn \in Fn, Call(fn) PROVE FALSE
    BY <1>6 DEF Call, Continue
  <1>7. ASSUME NEW mres \in Answers, SetResult(mres) PROVE FALSE
    BY <1>7 DEF SetResult
  <1>8. ~ HandlerReturn /\ ~ OriginalReturn
    BY DEF HandlerReturn, OriginalReturn, Continue
  <1>9. ASSUME NEW i \in Plugin, PausePlugin(i) \/ UnpausePlugin(i) PROVE FALSE
    BY <1>9 DEF PausePlugin, UnpausePlugin
  <1> QED BY <1>1, <1>2, <1>3, <1>4, <1>5, <1>6, <1>7, <1>8, <1>9 DEF Next

\* Plugins may be loaded and unloaded in any handler, at any depth: it is the
\* call of the original alone that a rebuild may leave without a way back.
THEOREM AstrayFromOriginalHolds == Spec => AstrayFromOriginal
  <1>1. IInv /\ [Next]_vars
          => [mode = "alive" /\ mode' = "lost" => Top > 0 /\ stack[Top].at[1] = "original"]_vars
    BY AstrayStep
  <1> QED BY <1>1, Invariance, PTL DEF Spec, AstrayFromOriginal

\* The server exits rather than return into a closed module, and for no other
\* plugin than one that waits on the stack.
THEOREM ExitsForHandlersHolds == Spec => ExitsForHandlers
  <1>1. IInv /\ [Next]_vars
          => [mode = "alive" /\ mode' = "exited" =>
                \E k \in 1..Top :
                  /\ stack[k].at[1] # "original"
                  /\ UnloadPlugin(stack[k].at[2]) \/ ReloadPlugin(stack[k].at[2])]_vars
    BY ExitStep
  <1> QED BY <1>1, Invariance, PTL DEF Spec, ExitsForHandlers
===============================================================================
