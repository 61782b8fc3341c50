------------------------ MODULE PluginRequestsProofs ------------------------
(***************************************************************************)
(* Theorems about PluginRequests for any number of plugins and any depth   *)
(* of nested calls: type correctness, FlagMeansRequest and HookedOpen of   *)
(* every state, RequesterProtected and LoaderFound of every step, and that *)
(* also operations that nest keep PluginContract.                          *)
(*                                                                         *)
(* The inductive invariant speaks of each call that waits (FrameOK), of    *)
(* two of them, one within the other (PairOK), and of each plugin          *)
(* (PlugOK): a call's module is closed exactly when it has been told so, a *)
(* plugin that is being loaded has no other call below, and a plugin whose *)
(* Meta_Detach runs is marked PA_UNLOAD or PA_RELOAD, also after a nested  *)
(* request for it has put back the action it found, or a command for it    *)
(* has been put off.  The contract is then a matter of the step that       *)
(* returns from a call, since what runs is open as long as no action has   *)
(* been dropped (RunsOpen).                                                *)
(***************************************************************************)
EXTENDS PluginRequests, TLAPS

\* With action a of plugin i unload() does not leave it running, unless the
\* action was dropped.
Marks(i, a, drop) == a \in {"PA_UNLOAD", "PA_RELOAD"} \/ i \in drop

\* Call f, given the plugins, the number of entries and the dropped ones.
FrameOK(f, list, num, drop) ==
  LET p == list[f.plugin]
  IN /\ f.plugin <= num /\ f.requester <= num
     /\ f.gone = ~p.open
     /\ f.kind = "query" /\ ~f.gone => p.status = PL_VALID
     /\ f.kind = "attach" /\ ~f.gone => p.status = PL_OPENED
     /\ f.kind = "detach" /\ ~f.gone /\ p.status = PL_RUNNING => Marks(f.plugin, p.action, drop)
     /\ f.kind = "detach" /\ f.requester # Nobody /\ ~f.again =>
          list[f.requester].unloader \/ ~list[f.requester].open

\* Call f was made during call e.
PairOK(e, f, drop) ==
  /\ f.kind \in {"query", "attach"} => e.plugin # f.plugin
  /\ /\ f.kind = "detach" /\ f.requester # Nobody /\ f.reason # "PNL_CMD_FORCED"
     /\ e.kind = "detach" /\ e.plugin = f.plugin
     => Marks(f.plugin, f.old, drop)

\* Plugin i.
PlugOK(i, list, num, comp, drop) ==
  /\ i > num => list[i].status = PL_EMPTY
  /\ list[i].open => list[i].status >= PL_VALID
  /\ list[i].status = PL_RUNNING => list[i].open \/ i \in drop
  /\ i \in comp => list[i].status = PL_RUNNING

Frames(s, list, num, drop) == \A k \in 1..Len(s) : FrameOK(s[k], list, num, drop)
Pairs(s, drop) == \A k \in 1..Len(s) : \A j \in 1..Len(s) : j < k => PairOK(s[j], s[k], drop)
Plugs(list, num, comp, drop) == \A i \in Slot : PlugOK(i, list, num, comp, drop)
Flags(s, list) == \A i \in Slot : list[i].unloader =>
                    \E k \in 1..Len(s) : s[k].kind = "detach" /\ s[k].requester = i

IInv ==
  /\ TypeOK
  /\ Frames(stack, plug, last, dropped)
  /\ Pairs(stack, dropped)
  /\ Plugs(plug, last, hooked, dropped)
  /\ Flags(stack, plug)

----------------------------------------------------------------------------
(* The stack of calls.                                                     *)

\* The elements of a sequence are of its type.
LEMMA StackElements ==
  ASSUME NEW s \in Seq(Frame)
  PROVE  Len(s) \in Nat /\ DOMAIN s = 1..Len(s) /\ \A k \in 1..Len(s) : s[k] \in Frame
OBVIOUS

\* A function over 1..n is a sequence.
LEMMA StackOf ==
  ASSUME NEW n \in Nat, NEW s, s = [k \in 1..n |-> s[k]], \A k \in 1..n : s[k] \in Frame
  PROVE  s \in Seq(Frame) /\ Len(s) = n
<1>1. s \in [1..n -> Frame]
  OBVIOUS
<1> QED BY <1>1

\* Popped takes the innermost call away.
LEMMA PoppedStack ==
  ASSUME NEW s \in Seq(Frame), Len(s) > 0
  PROVE  /\ Popped(s) \in Seq(Frame) /\ Len(Popped(s)) = Len(s) - 1
         /\ \A k \in 1..(Len(s) - 1) : Popped(s)[k] = s[k]
<1> DEFINE n == Len(s) - 1
           t == SubSeq(s, 1, n)
<1>1. Len(s) \in Nat \ {0} /\ \A k \in 1..Len(s) : s[k] \in Frame
  OBVIOUS
<1>2. n \in Nat /\ n < Len(s)
  BY <1>1
<1> HIDE DEF n
<1>3. Len(t) = n /\ \A k \in 1..n : t[k] = s[k]
  BY <1>1, <1>2
<1>4. t \in Seq(Frame)
  BY <1>1, <1>2
<1> QED BY <1>3, <1>4 DEF n, Popped

\* A call is added.
LEMMA AppendedStack ==
  ASSUME NEW s \in Seq(Frame), NEW f \in Frame
  PROVE  /\ Append(s, f) \in Seq(Frame) /\ Len(Append(s, f)) = Len(s) + 1
         /\ \A k \in 1..Len(s) : Append(s, f)[k] = s[k]
         /\ Append(s, f)[Len(s) + 1] = f
OBVIOUS

\* The two fields of history are changed alone.
LEMMA FrameHistory ==
  ASSUME NEW f \in Frame
  PROVE  /\ LET g == [f EXCEPT !.again = TRUE]
            IN g.kind = f.kind /\ g.plugin = f.plugin /\ g.reason = f.reason /\ g.old = f.old
               /\ g.requester = f.requester /\ g.gone = f.gone /\ g.again
         /\ LET g == [f EXCEPT !.gone = TRUE]
            IN g.kind = f.kind /\ g.plugin = f.plugin /\ g.reason = f.reason /\ g.old = f.old
               /\ g.requester = f.requester /\ g.again = f.again /\ g.gone
BY DEF Frame

\* Marked and Orphaned change the two fields of history only.
LEMMA MarkedStack ==
  ASSUME NEW s \in Seq(Frame), NEW p \in Slot \cup {Nobody}
  PROVE  /\ Marked(s, p) \in Seq(Frame) /\ Len(Marked(s, p)) = Len(s)
         /\ \A k \in 1..Len(s) :
              \/ Marked(s, p)[k] = s[k] /\ ~(s[k].requester = p /\ p # Nobody)
              \/ /\ s[k].requester = p /\ p # Nobody
                 /\ Marked(s, p)[k] = [s[k] EXCEPT !.again = TRUE]
<1> DEFINE t == Marked(s, p)
<1>1. Len(s) \in Nat /\ \A k \in 1..Len(s) : s[k] \in Frame
  BY StackElements
<1>2. t = [k \in 1..Len(s) |-> t[k]]
  BY DEF Marked
<1>3. \A k \in 1..Len(s) : t[k] = IF s[k].requester = p /\ p # Nobody
                                  THEN [s[k] EXCEPT !.again = TRUE] ELSE s[k]
  BY DEF Marked
<1>4. \A k \in 1..Len(s) : t[k] \in Frame
  BY <1>1, <1>3 DEF Frame
<1> HIDE DEF t
<1>5. t \in Seq(Frame) /\ Len(t) = Len(s)
  BY <1>1, <1>2, <1>4, StackOf
<1> QED BY <1>3, <1>5 DEF t

LEMMA OrphanedStack ==
  ASSUME NEW s \in Seq(Frame), NEW i \in Slot
  PROVE  /\ Orphaned(s, i) \in Seq(Frame) /\ Len(Orphaned(s, i)) = Len(s)
         /\ \A k \in 1..Len(s) :
              \/ Orphaned(s, i)[k] = s[k] /\ s[k].plugin # i
              \/ s[k].plugin = i /\ Orphaned(s, i)[k] = [s[k] EXCEPT !.gone = TRUE]
<1> DEFINE t == Orphaned(s, i)
<1>1. Len(s) \in Nat /\ \A k \in 1..Len(s) : s[k] \in Frame
  BY StackElements
<1>2. t = [k \in 1..Len(s) |-> t[k]]
  BY DEF Orphaned
<1>3. \A k \in 1..Len(s) : t[k] = IF s[k].plugin = i THEN [s[k] EXCEPT !.gone = TRUE] ELSE s[k]
  BY DEF Orphaned
<1>4. \A k \in 1..Len(s) : t[k] \in Frame
  BY <1>1, <1>3 DEF Frame
<1> HIDE DEF t
<1>5. t \in Seq(Frame) /\ Len(t) = Len(s)
  BY <1>1, <1>2, <1>4, StackOf
<1> QED BY <1>3, <1>5 DEF t

----------------------------------------------------------------------------
(* What a change of the stack or of the list leaves true.                  *)

\* A call returns.
LEMMA PoppedFrames ==
  ASSUME NEW s \in Seq(Frame), Len(s) > 0, NEW list, NEW num, NEW drop, Frames(s, list, num, drop)
  PROVE  Frames(Popped(s), list, num, drop)
<1>1. /\ Len(s) \in Nat /\ Len(Popped(s)) = Len(s) - 1
      /\ \A k \in 1..(Len(s) - 1) : Popped(s)[k] = s[k]
  BY PoppedStack
<1>2. SUFFICES ASSUME NEW k \in 1..(Len(s) - 1) PROVE FrameOK(Popped(s)[k], list, num, drop)
  BY <1>1 DEF Frames
<1>3. k \in 1..Len(s) /\ Popped(s)[k] = s[k]
  BY <1>1
<1> QED BY <1>3 DEF Frames

LEMMA PoppedPairs ==
  ASSUME NEW s \in Seq(Frame), Len(s) > 0, NEW drop, Pairs(s, drop)
  PROVE  Pairs(Popped(s), drop)
<1>1. /\ Len(s) \in Nat /\ Len(Popped(s)) = Len(s) - 1
      /\ \A k \in 1..(Len(s) - 1) : Popped(s)[k] = s[k]
  BY PoppedStack
<1>2. SUFFICES ASSUME NEW k \in 1..(Len(s) - 1), NEW j \in 1..(Len(s) - 1), j < k
              PROVE PairOK(Popped(s)[j], Popped(s)[k], drop)
  BY <1>1 DEF Pairs
<1>3. k \in 1..Len(s) /\ j \in 1..Len(s) /\ Popped(s)[k] = s[k] /\ Popped(s)[j] = s[j]
  BY <1>1
<1> QED BY <1>2, <1>3 DEF Pairs

LEMMA PoppedFlags ==
  ASSUME NEW s \in Seq(Frame), Len(s) > 0, NEW list, Flags(s, list)
  PROVE  \A i \in Slot :
           list[i].unloader /\ ~(s[Len(s)].kind = "detach" /\ s[Len(s)].requester = i) =>
           \E k \in 1..Len(Popped(s)) : Popped(s)[k].kind = "detach" /\ Popped(s)[k].requester = i
<1>1. /\ Len(s) \in Nat /\ Len(Popped(s)) = Len(s) - 1
      /\ \A k \in 1..(Len(s) - 1) : Popped(s)[k] = s[k]
  BY PoppedStack
<1>2. SUFFICES ASSUME NEW i \in Slot, list[i].unloader, ~(s[Len(s)].kind = "detach" /\ s[Len(s)].requester = i)
              PROVE \E k \in 1..(Len(s) - 1) : Popped(s)[k].kind = "detach" /\ Popped(s)[k].requester = i
  BY <1>1
<1>3. PICK k \in 1..Len(s) : s[k].kind = "detach" /\ s[k].requester = i
  BY <1>2 DEF Flags
<1>4. k # Len(s)
  BY <1>2, <1>3
<1>5. k \in 1..(Len(s) - 1)
  BY <1>1, <1>4
<1> QED BY <1>1, <1>3, <1>5

\* A call is made.
LEMMA AppendedCall ==
  ASSUME NEW s \in Seq(Frame), NEW f \in Frame, NEW list, NEW num, NEW drop,
         Frames(s, list, num, drop), FrameOK(f, list, num, drop),
         Pairs(s, drop), \A j \in 1..Len(s) : PairOK(s[j], f, drop)
  PROVE  Frames(Append(s, f), list, num, drop) /\ Pairs(Append(s, f), drop)
<1> DEFINE t == Append(s, f)
           n == Len(s)
<1>1. /\ n \in Nat /\ Len(t) = n + 1 /\ t[n + 1] = f
      /\ \A k \in 1..n : t[k] = s[k]
  BY AppendedStack
<1> HIDE DEF t
<1>2. \A k \in 1..(n + 1) : k \in 1..n \/ k = n + 1
  BY <1>1
<1>3. Frames(t, list, num, drop)
  BY <1>1, <1>2 DEF Frames
<1>4. \A k \in 1..(n + 1), j \in 1..(n + 1) : j < k => j \in 1..n
  BY <1>1
<1>5. ASSUME NEW k \in 1..(n + 1), NEW j \in 1..(n + 1), j < k PROVE PairOK(t[j], t[k], drop)
  <2>1. j \in 1..n /\ t[j] = s[j]
    BY <1>1, <1>4, <1>5
  <2>2. CASE k \in 1..n
    BY <1>1, <1>5, <2>1, <2>2 DEF Pairs
  <2>3. CASE k = n + 1
    BY <1>1, <2>1, <2>3
  <2> QED BY <1>2, <2>2, <2>3
<1>6. Pairs(t, drop)
  BY <1>1, <1>5 DEF Pairs
<1> QED BY <1>3, <1>6 DEF t

\* The flag of a requester is taken back, and its other requests know.
LEMMA EndedFrames ==
  ASSUME NEW s \in Seq(Frame), NEW p \in Slot \cup {Nobody}, NEW list \in [Slot -> Plugin],
         NEW num, NEW drop, Frames(s, list, num, drop)
  PROVE  Frames(Marked(s, p), Ended(list, p), num, drop)
<1> DEFINE t == Marked(s, p)
           new == Ended(list, p)
<1>1. /\ Len(s) \in Nat /\ Len(t) = Len(s)
      /\ \A k \in 1..Len(s) : s[k] \in Frame
      /\ \A k \in 1..Len(s) :
           \/ t[k] = s[k] /\ ~(s[k].requester = p /\ p # Nobody)
           \/ /\ s[k].requester = p /\ p # Nobody
              /\ t[k] = [s[k] EXCEPT !.again = TRUE]
  BY MarkedStack, StackElements
<1>2. /\ new \in [Slot -> Plugin]
      /\ \A i \in Slot : /\ new[i].status = list[i].status /\ new[i].action = list[i].action
                         /\ new[i].open = list[i].open
                         /\ i # p => new[i] = list[i]
  BY DEF Ended, Plugin
<1> HIDE DEF t, new
<1>3. SUFFICES ASSUME NEW k \in 1..Len(s) PROVE FrameOK(t[k], new, num, drop)
  BY <1>1 DEF Frames, t, new
<1> DEFINE f == s[k]
<1>4. f \in Frame /\ FrameOK(f, list, num, drop)
  BY <1>1 DEF Frames
<1>5. f.plugin \in Slot /\ f.requester \in Slot \cup {Nobody}
  BY <1>4 DEF Frame
<1>6. CASE t[k] = f /\ ~(f.requester = p /\ p # Nobody)
  <2>1. f.requester # Nobody => f.requester \in Slot /\ new[f.requester] = list[f.requester]
    BY <1>2, <1>5, <1>6
  <2> HIDE DEF f
  <2> QED BY <1>2, <1>4, <1>5, <1>6, <2>1 DEF FrameOK
<1>7. CASE f.requester = p /\ p # Nobody /\ t[k] = [f EXCEPT !.again = TRUE]
  <2>1. /\ t[k].plugin = f.plugin /\ t[k].requester = f.requester /\ t[k].kind = f.kind
        /\ t[k].gone = f.gone /\ t[k].again
    BY <1>4, <1>7 DEF Frame
  <2> HIDE DEF f
  <2> QED BY <1>2, <1>4, <1>5, <2>1 DEF FrameOK
<1> QED BY <1>1, <1>6, <1>7

\* History does not matter to PairOK.
LEMMA MarkedPairs ==
  ASSUME NEW s \in Seq(Frame), NEW p \in Slot \cup {Nobody}, NEW drop, Pairs(s, drop)
  PROVE  Pairs(Marked(s, p), drop)
<1> DEFINE t == Marked(s, p)
<1>1. Len(t) = Len(s) /\ \A k \in 1..Len(s) :
         /\ t[k].kind = s[k].kind /\ t[k].plugin = s[k].plugin /\ t[k].requester = s[k].requester
         /\ t[k].reason = s[k].reason /\ t[k].old = s[k].old
  <2>1. /\ Len(t) = Len(s) /\ \A k \in 1..Len(s) : s[k] \in Frame
        /\ \A k \in 1..Len(s) : t[k] = s[k] \/ t[k] = [s[k] EXCEPT !.again = TRUE]
    BY MarkedStack, StackElements
  <2> HIDE DEF t
  <2>2. ASSUME NEW k \in 1..Len(s)
        PROVE  /\ t[k].kind = s[k].kind /\ t[k].plugin = s[k].plugin
               /\ t[k].requester = s[k].requester
               /\ t[k].reason = s[k].reason /\ t[k].old = s[k].old
    <3> DEFINE f == s[k]
    <3>1. f \in Frame /\ (t[k] = f \/ t[k] = [f EXCEPT !.again = TRUE])
      BY <2>1
    <3> HIDE DEF f
    <3>2. /\ t[k].kind = f.kind /\ t[k].plugin = f.plugin /\ t[k].reason = f.reason
          /\ t[k].old = f.old /\ t[k].requester = f.requester
      BY <3>1, FrameHistory
    <3> QED BY <3>2 DEF f
  <2> QED BY <2>1, <2>2
<1> HIDE DEF t
<1>2. Pairs(t, drop)
  BY <1>1 DEF Pairs, PairOK
<1> QED BY <1>2 DEF t

LEMMA OrphanedPairs ==
  ASSUME NEW s \in Seq(Frame), NEW i \in Slot, NEW drop, Pairs(s, drop)
  PROVE  Pairs(Orphaned(s, i), drop)
<1> DEFINE t == Orphaned(s, i)
<1>1. Len(t) = Len(s) /\ \A k \in 1..Len(s) :
         /\ t[k].kind = s[k].kind /\ t[k].plugin = s[k].plugin /\ t[k].requester = s[k].requester
         /\ t[k].reason = s[k].reason /\ t[k].old = s[k].old
  <2>1. /\ Len(t) = Len(s) /\ \A k \in 1..Len(s) : s[k] \in Frame
        /\ \A k \in 1..Len(s) : t[k] = s[k] \/ t[k] = [s[k] EXCEPT !.gone = TRUE]
    BY OrphanedStack, StackElements
  <2> HIDE DEF t
  <2>2. ASSUME NEW k \in 1..Len(s)
        PROVE  /\ t[k].kind = s[k].kind /\ t[k].plugin = s[k].plugin
               /\ t[k].requester = s[k].requester
               /\ t[k].reason = s[k].reason /\ t[k].old = s[k].old
    <3> DEFINE f == s[k]
    <3>1. f \in Frame /\ (t[k] = f \/ t[k] = [f EXCEPT !.gone = TRUE])
      BY <2>1
    <3> HIDE DEF f
    <3>2. /\ t[k].kind = f.kind /\ t[k].plugin = f.plugin /\ t[k].reason = f.reason
          /\ t[k].old = f.old /\ t[k].requester = f.requester
      BY <3>1, FrameHistory
    <3> QED BY <3>2 DEF f
  <2> QED BY <2>1, <2>2
<1> HIDE DEF t
<1>2. Pairs(t, drop)
  BY <1>1 DEF Pairs, PairOK
<1> QED BY <1>2 DEF t

\* What the close of plugin i does to the list.
LEMMA ClosedList ==
  ASSUME NEW list \in [Slot -> Plugin], NEW i \in Slot
  PROVE  LET new == Closed(list, i)
         IN /\ new \in [Slot -> Plugin]
            /\ ~new[i].open
            /\ \/ new[i] = EmptySlot
               \/ /\ list[i].action = "PA_RELOAD"
                  /\ new[i].status = PL_VALID /\ new[i].action = "PA_LOAD"
                  /\ new[i].unloader = list[i].unloader
               \/ /\ list[i].action \notin {"PA_UNLOAD", "PA_RELOAD"}
                  /\ list[i].status \notin Clearable
                  /\ new[i].status = list[i].status /\ new[i].action = list[i].action
                  /\ new[i].unloader = list[i].unloader
            /\ \A j \in Slot \ {i} :
                 /\ new[j].status = list[j].status /\ new[j].action = list[j].action
                 /\ new[j].open = list[j].open /\ new[j].unloader = list[j].unloader
            /\ \A j \in Slot : new[j].source # i
            /\ \A j \in Slot : new[j].source > 0 => new[j].source = list[j].source
<1> DEFINE sourced == [j \in Slot |-> IF list[j].source = i THEN [list[j] EXCEPT !.source = Unloaded]
                                                           ELSE list[j]]
           new == Closed(list, i)
<1>1. EmptySlot \in Plugin
  BY DEF EmptySlot, Plugin, Status, Action, PL_EMPTY, PL_RUNNING
<1>2. i > 0
  BY StartupAssumption DEF Slot
<1>3. /\ sourced \in [Slot -> Plugin]
      /\ \A j \in Slot : /\ sourced[j].status = list[j].status /\ sourced[j].action = list[j].action
                         /\ sourced[j].open = list[j].open /\ sourced[j].unloader = list[j].unloader
                         /\ sourced[j].source # i
                         /\ sourced[j].source > 0 => sourced[j].source = list[j].source
  <2> SUFFICES ASSUME NEW j \in Slot
               PROVE  /\ sourced[j] \in Plugin
                      /\ sourced[j].status = list[j].status /\ sourced[j].action = list[j].action
                      /\ sourced[j].open = list[j].open /\ sourced[j].unloader = list[j].unloader
                      /\ sourced[j].source # i
                      /\ sourced[j].source > 0 => sourced[j].source = list[j].source
    OBVIOUS
  <2>1. list[j] \in Plugin
    OBVIOUS
  <2>2. CASE list[j].source = i
    <3>1. sourced[j] = [list[j] EXCEPT !.source = Unloaded]
      BY <2>2
    <3> HIDE DEF sourced
    <3> QED BY <1>2, <2>1, <3>1 DEF Plugin, Unloaded
  <2>3. CASE list[j].source # i
    BY <2>1, <2>3
  <2> QED BY <2>2, <2>3
<1> HIDE DEF sourced
<1> DEFINE q == sourced[i]
           reloaded == [q EXCEPT !.status = PL_VALID, !.action = "PA_LOAD", !.open = FALSE]
           left == [q EXCEPT !.open = FALSE]
           r == CASE q.action = "PA_RELOAD" -> reloaded
                  [] q.action = "PA_UNLOAD" \/ (q.action # "PA_RELOAD" /\ q.status \in Clearable) -> EmptySlot
                  [] OTHER -> left
<1>4. new = [sourced EXCEPT ![i] = r]
  BY DEF Closed, sourced
<1>5. q \in Plugin
  BY <1>3
<1> HIDE DEF new, q, sourced
<1>6. /\ reloaded \in Plugin /\ reloaded.status = PL_VALID /\ reloaded.action = "PA_LOAD"
      /\ ~reloaded.open /\ reloaded.unloader = q.unloader /\ reloaded.source = q.source
  <2>1. PL_VALID \in Status
    BY DEF Status, PL_VALID, PL_EMPTY, PL_RUNNING
  <2> QED BY <1>5, <2>1 DEF Plugin, Action
<1>7. /\ left \in Plugin /\ left.status = q.status /\ left.action = q.action
      /\ ~left.open /\ left.unloader = q.unloader /\ left.source = q.source
  BY <1>5 DEF Plugin
<1>8. /\ EmptySlot.source # i /\ ~(EmptySlot.source > 0) /\ ~EmptySlot.open
  BY <1>2 DEF EmptySlot, Nobody
<1> HIDE DEF reloaded, left
<1>9. \/ r = EmptySlot
      \/ q.action = "PA_RELOAD" /\ r = reloaded
      \/ q.action \notin {"PA_UNLOAD", "PA_RELOAD"} /\ q.status \notin Clearable /\ r = left
  OBVIOUS
<1>10. r \in Plugin
  BY <1>1, <1>6, <1>7, <1>9
<1> HIDE DEF r
<1>11. /\ new \in [Slot -> Plugin] /\ new[i] = r
       /\ \A j \in Slot \ {i} : new[j] = sourced[j]
  BY <1>3, <1>4, <1>10
<1>12. /\ q.status = list[i].status /\ q.action = list[i].action
       /\ q.unloader = list[i].unloader /\ q.source # i
       /\ q.source > 0 => q.source = list[i].source
  BY <1>3 DEF q
<1>13. r.source # i /\ ~r.open /\ (r.source > 0 => r.source = list[i].source)
  BY <1>6, <1>7, <1>8, <1>9, <1>12
<1>14. \A j \in Slot : new[j].source # i /\ (new[j].source > 0 => new[j].source = list[j].source)
  BY <1>3, <1>11, <1>13
<1>15. \/ new[i] = EmptySlot
       \/ /\ list[i].action = "PA_RELOAD"
          /\ new[i].status = PL_VALID /\ new[i].action = "PA_LOAD"
          /\ new[i].unloader = list[i].unloader
       \/ /\ list[i].action \notin {"PA_UNLOAD", "PA_RELOAD"}
          /\ list[i].status \notin Clearable
          /\ new[i].status = list[i].status /\ new[i].action = list[i].action
          /\ new[i].unloader = list[i].unloader
  BY <1>6, <1>7, <1>9, <1>11, <1>12
<1> QED BY <1>3, <1>11, <1>13, <1>14, <1>15 DEF new

\* A call after the close of plugin i.
LEMMA ClosedCall ==
  ASSUME NEW list \in [Slot -> Plugin], NEW new \in [Slot -> Plugin], NEW i \in Slot,
         ~new[i].open,
         \A j \in Slot \ {i} :
           /\ new[j].status = list[j].status /\ new[j].action = list[j].action
           /\ new[j].open = list[j].open /\ new[j].unloader = list[j].unloader,
         NEW num, NEW drop, NEW f \in Frame, FrameOK(f, list, num, drop),
         NEW g \in Frame, g.gone <=> (f.gone \/ f.plugin = i),
         g.kind = f.kind, g.plugin = f.plugin, g.requester = f.requester, g.again = f.again
  PROVE  FrameOK(g, new, num, drop)
<1>2. f.plugin \in Slot /\ f.requester \in Slot \cup {Nobody} /\ f.gone \in BOOLEAN /\ g.gone \in BOOLEAN
      /\ new[f.plugin].open \in BOOLEAN
  BY DEF Frame, Plugin
<1>3. CASE f.plugin = i
  BY <1>2, <1>3 DEF FrameOK
<1>4. CASE f.plugin # i
  <2>1. /\ new[f.plugin].status = list[f.plugin].status /\ new[f.plugin].action = list[f.plugin].action
        /\ new[f.plugin].open = list[f.plugin].open
    BY <1>2, <1>4
  <2>2. g.gone = f.gone
    BY <1>2, <1>4
  <2>3. f.requester # Nobody =>
          \/ ~new[f.requester].open
          \/ /\ new[f.requester].unloader = list[f.requester].unloader
             /\ new[f.requester].open = list[f.requester].open
    BY <1>2
  <2> QED BY <2>1, <2>2, <2>3 DEF FrameOK
<1> QED BY <1>3, <1>4

LEMMA ClosedFrames ==
  ASSUME NEW list \in [Slot -> Plugin], NEW new \in [Slot -> Plugin], NEW i \in Slot,
         ~new[i].open,
         \A j \in Slot \ {i} :
           /\ new[j].status = list[j].status /\ new[j].action = list[j].action
           /\ new[j].open = list[j].open /\ new[j].unloader = list[j].unloader,
         NEW num, NEW drop, NEW s \in Seq(Frame), Frames(s, list, num, drop)
  PROVE  /\ Frames(Orphaned(s, i), new, num, drop)
         /\ ~list[i].open => Frames(s, new, num, drop)
<1> DEFINE t == Orphaned(s, i)
<1>1. /\ Len(t) = Len(s)
      /\ \A k \in 1..Len(s) : s[k] \in Frame /\ t[k] \in Frame
      /\ \A k \in 1..Len(s) :
              \/ t[k] = s[k] /\ s[k].plugin # i
              \/ s[k].plugin = i /\ t[k] = [s[k] EXCEPT !.gone = TRUE]
  BY OrphanedStack, StackElements
<1> HIDE DEF t
<1>2. ASSUME NEW k \in 1..Len(s) PROVE FrameOK(t[k], new, num, drop)
  <2> DEFINE f == s[k]
             g == t[k]
  <2>1. /\ f \in Frame /\ g \in Frame /\ FrameOK(f, list, num, drop)
        /\ (g = f /\ f.plugin # i) \/ (f.plugin = i /\ g = [f EXCEPT !.gone = TRUE])
    BY <1>1 DEF Frames
  <2> HIDE DEF f, g
  <2>2. /\ g.gone <=> (f.gone \/ f.plugin = i)
        /\ g.kind = f.kind /\ g.plugin = f.plugin /\ g.requester = f.requester /\ g.again = f.again
    <3>1. CASE g = f /\ f.plugin # i
      BY <3>1
    <3>2. CASE f.plugin = i /\ g = [f EXCEPT !.gone = TRUE]
      BY <2>1, <3>2, FrameHistory
    <3> QED BY <2>1, <3>1, <3>2
  <2>3. FrameOK(g, new, num, drop)
    BY <2>1, <2>2, ClosedCall
  <2> QED BY <2>3 DEF g
<1>3. ASSUME ~list[i].open, NEW k \in 1..Len(s) PROVE FrameOK(s[k], new, num, drop)
  <2> DEFINE f == s[k]
  <2>1. f \in Frame /\ FrameOK(f, list, num, drop)
    BY <1>1 DEF Frames
  <2> HIDE DEF f
  <2>2. f.gone <=> (f.gone \/ f.plugin = i)
    BY <1>3, <2>1 DEF FrameOK
  <2>3. FrameOK(f, new, num, drop)
    BY <2>1, <2>2, ClosedCall
  <2> QED BY <2>3 DEF f
<1> QED BY <1>1, <1>2, <1>3 DEF Frames, t

\* The plugins after the close of i and the rebuild.
LEMMA ClosedPlugs ==
  ASSUME NEW list \in [Slot -> Plugin], NEW i \in Slot, NEW num, NEW comp, NEW drop,
         Plugs(list, num, comp, drop),
         i <= num, num \in Nat, list[i].status = PL_RUNNING => Marks(i, list[i].action, drop)
  PROVE  LET new == Closed(list, i) IN Plugs(new, num, Rebuilt(new), drop)
<1> DEFINE new == Closed(list, i)
<1>1. /\ new \in [Slot -> Plugin]
      /\ ~new[i].open
      /\ \/ new[i] = EmptySlot
         \/ new[i].status = PL_VALID
         \/ list[i].action \notin {"PA_UNLOAD", "PA_RELOAD"} /\ new[i].status = list[i].status
      /\ \A j \in Slot \ {i} : new[j].status = list[j].status /\ new[j].open = list[j].open
  BY ClosedList
<1> HIDE DEF new
<1>2. \A j \in Slot : list[j].status \in Status /\ new[j].status \in Status
  BY <1>1 DEF Plugin
<1>3. \A j \in Rebuilt(new) : new[j].status = PL_RUNNING
  BY <1>2 DEF Rebuilt, Status, PL_RUNNING, PL_EMPTY
<1>4. SUFFICES ASSUME NEW j \in Slot PROVE PlugOK(j, new, num, Rebuilt(new), drop)
  BY DEF Plugs, new
<1>5. PlugOK(j, list, num, comp, drop)
  BY DEF Plugs
<1>6. CASE j # i
  BY <1>1, <1>3, <1>5, <1>6 DEF PlugOK
<1>7. CASE j = i
  <2>1. ~(j > num)
    BY <1>7 DEF Slot
  <2>2. new[i].status = PL_RUNNING => i \in drop
    <3>1. EmptySlot.status # PL_RUNNING /\ PL_VALID # PL_RUNNING
      BY DEF EmptySlot, PL_EMPTY, PL_VALID, PL_RUNNING
    <3> QED BY <1>1, <3>1 DEF Marks
  <2> QED BY <1>1, <1>3, <1>7, <2>1, <2>2 DEF PlugOK
<1> QED BY <1>6, <1>7

\* The plugins after a request of p.
LEMMA EndedPlugs ==
  ASSUME NEW list \in [Slot -> Plugin], NEW p \in Slot \cup {Nobody}
  PROVE  /\ Ended(list, p) \in [Slot -> Plugin]
         /\ Rebuilt(Ended(list, p)) = Rebuilt(list)
         /\ \A num, comp, drop : Plugs(list, num, comp, drop) => Plugs(Ended(list, p), num, comp, drop)
         /\ \A j \in Slot : /\ Ended(list, p)[j].source = list[j].source
                            /\ Ended(list, p)[j].status = list[j].status
                            /\ Ended(list, p)[j].unloader => list[j].unloader /\ j # p
<1> DEFINE new == Ended(list, p)
<1>1. new \in [Slot -> Plugin]
  BY DEF Ended, Plugin
<1>2. \A j \in Slot : /\ new[j].source = list[j].source /\ new[j].status = list[j].status
                      /\ new[j].open = list[j].open
                      /\ (new[j].unloader => list[j].unloader /\ j # p)
  <2> SUFFICES ASSUME NEW j \in Slot
               PROVE  /\ new[j].source = list[j].source /\ new[j].status = list[j].status
                      /\ new[j].open = list[j].open
                      /\ new[j].unloader => list[j].unloader /\ j # p
    OBVIOUS
  <2>1. CASE j # p
    BY <2>1 DEF Ended
  <2>2. CASE j = p
    <3>1. p # Nobody
      BY <2>2, StartupAssumption DEF Slot, Nobody
    <3>2. list[j] \in Plugin /\ new[j] = [list[j] EXCEPT !.unloader = FALSE]
      BY <2>2, <3>1 DEF Ended
    <3> DEFINE q == list[j]
               r == new[j]
    <3>3. q \in Plugin /\ r = [q EXCEPT !.unloader = FALSE]
      BY <3>2
    <3> HIDE DEF new, q, r
    <3>4. r.source = q.source /\ r.status = q.status /\ r.open = q.open /\ ~r.unloader
      BY <3>3 DEF Plugin
    <3> QED BY <3>2, <3>4 DEF q, r
  <2> QED BY <2>1, <2>2
<1> HIDE DEF new
<1>3. Rebuilt(new) = Rebuilt(list)
  BY <1>2 DEF Rebuilt
<1>4. \A num, comp, drop : Plugs(list, num, comp, drop) => Plugs(new, num, comp, drop)
  BY <1>2 DEF Plugs, PlugOK
<1> QED BY <1>1, <1>2, <1>3, <1>4 DEF new

\* A change of a plugin that none of the calls is in.
LEMMA OtherFrames ==
  ASSUME NEW list \in [Slot -> Plugin], NEW new \in [Slot -> Plugin], NEW c \in Slot, NEW num, NEW drop,
         \A j \in Slot \ {c} : new[j] = list[j],
         NEW s \in Seq(Frame), Frames(s, list, num, drop), \A k \in 1..Len(s) : s[k].plugin # c,
         \/ new[c].unloader = list[c].unloader /\ (new[c].open => list[c].open)
         \/ \A k \in 1..Len(s) : s[k].requester # c
  PROVE  Frames(s, new, num, drop)
<1> SUFFICES ASSUME NEW k \in 1..Len(s) PROVE FrameOK(s[k], new, num, drop)
  BY DEF Frames
<1> DEFINE f == s[k]
<1>1. f \in Frame /\ FrameOK(f, list, num, drop) /\ f.plugin # c
  BY StackElements DEF Frames
<1> HIDE DEF f
<1>2. f.plugin \in Slot /\ f.requester \in Slot \cup {Nobody}
  BY <1>1 DEF Frame
<1>3. new[f.plugin] = list[f.plugin]
  BY <1>1, <1>2
<1>4. f.requester # Nobody => /\ f.requester \in Slot
                              /\ new[f.requester].unloader = list[f.requester].unloader
                              /\ new[f.requester].open => list[f.requester].open
  <2>1. f.requester # c \/ (new[c].unloader = list[c].unloader /\ (new[c].open => list[c].open))
    BY DEF f
  <2>2. CASE f.requester = c
    BY <2>1, <2>2
  <2>3. CASE f.requester # c
    BY <1>2, <2>3
  <2> QED BY <2>2, <2>3
<1>5. FrameOK(f, new, num, drop)
  BY <1>1, <1>3, <1>4 DEF FrameOK
<1> QED BY <1>5 DEF f

\* A flag is raised, or a plugin is marked for unload.
LEMMA MarkedFrames ==
  ASSUME NEW list \in [Slot -> Plugin], NEW new \in [Slot -> Plugin], NEW num, NEW drop,
         \A j \in Slot : /\ new[j].status = list[j].status /\ new[j].open = list[j].open
                         /\ new[j].action = list[j].action \/ new[j].action = "PA_UNLOAD"
                         /\ list[j].unloader => new[j].unloader,
         NEW s \in Seq(Frame), Frames(s, list, num, drop)
  PROVE  Frames(s, new, num, drop)
<1> SUFFICES ASSUME NEW k \in 1..Len(s) PROVE FrameOK(s[k], new, num, drop)
  BY DEF Frames
<1> DEFINE f == s[k]
<1>1. f \in Frame /\ FrameOK(f, list, num, drop)
  BY StackElements DEF Frames
<1> HIDE DEF f
<1>2. f.plugin \in Slot /\ f.requester \in Slot \cup {Nobody}
  BY <1>1 DEF Frame
<1>3. /\ new[f.plugin].status = list[f.plugin].status /\ new[f.plugin].open = list[f.plugin].open
      /\ new[f.plugin].action = list[f.plugin].action \/ new[f.plugin].action = "PA_UNLOAD"
  BY <1>2
<1>4. f.requester # Nobody => /\ list[f.requester].unloader => new[f.requester].unloader
                              /\ new[f.requester].open = list[f.requester].open
  BY <1>2
<1>5. FrameOK(f, new, num, drop)
  BY <1>1, <1>3, <1>4 DEF FrameOK, Marks
<1> QED BY <1>5 DEF f

\* The flags after a request of p has ended, with the calls of s left.
LEMMA EndedFlags ==
  ASSUME NEW s \in Seq(Frame), NEW p \in Slot \cup {Nobody}, NEW list \in [Slot -> Plugin],
         \A i \in Slot : list[i].unloader /\ i # p =>
           \E k \in 1..Len(s) : s[k].kind = "detach" /\ s[k].requester = i
  PROVE  Flags(Marked(s, p), Ended(list, p))
<1> DEFINE t == Marked(s, p)
           new == Ended(list, p)
<1>1. /\ Len(t) = Len(s)
      /\ \A k \in 1..Len(s) : s[k] \in Frame
      /\ \A k \in 1..Len(s) : t[k] = s[k] \/ t[k] = [s[k] EXCEPT !.again = TRUE]
  BY MarkedStack, StackElements
<1>2. \A i \in Slot : new[i].unloader => list[i].unloader /\ i # p
  BY EndedPlugs
<1> HIDE DEF t, new
<1>3. SUFFICES ASSUME NEW i \in Slot, new[i].unloader
               PROVE  \E k \in 1..Len(s) : t[k].kind = "detach" /\ t[k].requester = i
  BY <1>1 DEF Flags, t, new
<1>4. PICK m \in 1..Len(s) : s[m].kind = "detach" /\ s[m].requester = i
  BY <1>2, <1>3
<1> DEFINE f == s[m]
<1>5. f \in Frame /\ (t[m] = f \/ t[m] = [f EXCEPT !.again = TRUE]) /\ f.kind = "detach" /\ f.requester = i
  BY <1>1, <1>4
<1> HIDE DEF f
<1>6. t[m].kind = "detach" /\ t[m].requester = i
  <2>1. [f EXCEPT !.again = TRUE].kind = f.kind /\ [f EXCEPT !.again = TRUE].requester = f.requester
    BY <1>5, FrameHistory
  <2> QED BY <1>5, <2>1
<1> QED BY <1>6

LEMMA OrphanedFlags ==
  ASSUME NEW s \in Seq(Frame), NEW i \in Slot
  PROVE  \A j \in Slot : (\E k \in 1..Len(s) : s[k].kind = "detach" /\ s[k].requester = j) =>
           \E k \in 1..Len(Orphaned(s, i)) :
             Orphaned(s, i)[k].kind = "detach" /\ Orphaned(s, i)[k].requester = j
<1> DEFINE t == Orphaned(s, i)
<1> SUFFICES ASSUME NEW j \in Slot, \E k \in 1..Len(s) : s[k].kind = "detach" /\ s[k].requester = j
             PROVE  \E k \in 1..Len(t) : t[k].kind = "detach" /\ t[k].requester = j
  OBVIOUS
<1>1. /\ Len(t) = Len(s)
      /\ \A k \in 1..Len(s) : s[k] \in Frame
      /\ \A k \in 1..Len(s) : t[k] = s[k] \/ t[k] = [s[k] EXCEPT !.gone = TRUE]
  BY OrphanedStack, StackElements
<1> HIDE DEF t
<1>2. PICK m \in 1..Len(s) : s[m].kind = "detach" /\ s[m].requester = j
  OBVIOUS
<1> DEFINE f == s[m]
<1>3. f \in Frame /\ (t[m] = f \/ t[m] = [f EXCEPT !.gone = TRUE]) /\ f.kind = "detach" /\ f.requester = j
  BY <1>1, <1>2
<1> HIDE DEF f
<1>4. t[m].kind = "detach" /\ t[m].requester = j
  BY <1>3, FrameHistory
<1> QED BY <1>1, <1>4 DEF t

\* An entry that is taken is among the first.
LEMMA OpenSlot ==
  ASSUME IInv, NEW i \in Slot, plug[i].open
  PROVE  i <= last /\ plug[i].status >= PL_VALID
<1>1. PlugOK(i, plug, last, hooked, dropped) /\ last \in 0..MaxPlugins
  BY DEF IInv, Plugs, TypeOK
<1>2. i > last => plug[i].status = PL_EMPTY
  BY <1>1 DEF PlugOK
<1>3. plug[i].status >= PL_VALID
  BY <1>1 DEF PlugOK
<1>4. ~(i > last)
  BY <1>2, <1>3 DEF PL_EMPTY, PL_VALID
<1> QED BY <1>1, <1>3, <1>4 DEF Slot

\* What is known when a plugin's code runs.
LEMMA Here ==
  ASSUME IInv, InPlugin
  PROVE  /\ stack \in Seq(Frame) /\ Len(stack) \in Nat /\ Len(stack) > 0 /\ Len(stack) \in 1..Len(stack)
         /\ stack[Len(stack)] \in Frame /\ ~stack[Len(stack)].gone
         /\ FrameOK(stack[Len(stack)], plug, last, dropped)
         /\ Caller \in Slot /\ Caller <= last /\ stack[Len(stack)].plugin = Caller
         /\ plug \in [Slot -> Plugin] /\ plug[Caller] \in Plugin
         /\ plug[Caller].open /\ plug[Caller].status >= PL_VALID
         /\ PlugOK(Caller, plug, last, hooked, dropped)
<1>1. /\ stack \in Seq(Frame) /\ Len(stack) > 0 /\ ~stack[Len(stack)].gone
      /\ plug \in [Slot -> Plugin]
  BY DEF IInv, TypeOK, InPlugin, Going, Top
<1>2. Len(stack) \in Nat /\ Len(stack) \in 1..Len(stack) /\ stack[Len(stack)] \in Frame
  BY <1>1, StackElements
<1>3. stack[Len(stack)].plugin \in Slot
  BY <1>2 DEF Frame
<1>4. FrameOK(stack[Len(stack)], plug, last, dropped)
  BY <1>2 DEF IInv, Frames
<1>5. PlugOK(Caller, plug, last, hooked, dropped)
  BY <1>3 DEF IInv, Plugs, Caller, Top
<1>6. Caller = stack[Len(stack)].plugin
  BY DEF Caller, Top
<1> HIDE DEF Caller
<1> QED BY <1>1, <1>2, <1>3, <1>4, <1>5, <1>6 DEF FrameOK, PlugOK

\* The calls below one that loads are in other plugins.
LEMMA LoadBelow ==
  ASSUME IInv, InPlugin, stack[Len(stack)].kind \in {"query", "attach"}
  PROVE  /\ \A k \in 1..(Len(stack) - 1) : stack[k].plugin # Caller
         /\ Popped(stack) \in Seq(Frame) /\ Len(Popped(stack)) = Len(stack) - 1
         /\ \A k \in 1..(Len(stack) - 1) : Popped(stack)[k].plugin # Caller
<1>1. /\ stack \in Seq(Frame) /\ Len(stack) \in Nat /\ Len(stack) > 0 /\ Len(stack) \in 1..Len(stack)
      /\ stack[Len(stack)].plugin = Caller
  BY Here
<1>2. \A k \in 1..(Len(stack) - 1) : k \in 1..Len(stack) /\ k < Len(stack)
  BY <1>1
<1>3. \A k \in 1..(Len(stack) - 1) : PairOK(stack[k], stack[Len(stack)], dropped)
  BY <1>1, <1>2 DEF IInv, Pairs
<1>4. \A k \in 1..(Len(stack) - 1) : stack[k].plugin # Caller
  BY <1>1, <1>3 DEF PairOK
<1> QED BY <1>1, <1>4, PoppedStack

----------------------------------------------------------------------------
(* Every step keeps the invariant.                                         *)

LEMMA InitIInv == Init => IInv
<1> SUFFICES ASSUME Init PROVE IInv
  OBVIOUS
<1>1. \A i \in Slot : /\ plug[i] \in Plugin
                      /\ i > AtStartup => plug[i].status = PL_EMPTY /\ ~plug[i].open
                      /\ ~(i > AtStartup) => plug[i].status = PL_RUNNING /\ plug[i].open
                      /\ ~plug[i].unloader
  <2> SUFFICES ASSUME NEW i \in Slot
               PROVE  /\ plug[i] \in Plugin
                      /\ i > AtStartup => plug[i].status = PL_EMPTY /\ ~plug[i].open
                      /\ ~(i > AtStartup) => plug[i].status = PL_RUNNING /\ plug[i].open
                      /\ ~plug[i].unloader
    OBVIOUS
  <2>1. CASE i > AtStartup
    <3>1. plug[i] = EmptySlot
      BY <2>1 DEF Init
    <3> QED BY <2>1, <3>1 DEF EmptySlot, Plugin, Status, Action, PL_EMPTY, PL_RUNNING
  <2>2. CASE ~(i > AtStartup)
    <3>1. plug[i] = [EmptySlot EXCEPT !.status = PL_RUNNING, !.action = "PA_NONE", !.open = TRUE]
      BY <2>2 DEF Init
    <3> DEFINE q == plug[i]
    <3>2. q = [status |-> PL_RUNNING, action |-> "PA_NONE", source |-> Nobody,
               unloader |-> FALSE, open |-> TRUE]
      BY <3>1 DEF EmptySlot
    <3> HIDE DEF q
    <3>3. q \in Plugin /\ q.status = PL_RUNNING /\ q.open /\ ~q.unloader
      BY <3>2 DEF Plugin, Status, Action, PL_EMPTY, PL_RUNNING
    <3> QED BY <2>2, <3>3 DEF q
  <2> QED BY <2>1, <2>2
<1>2. hooked \subseteq Slot /\ \A i \in hooked : i \in Slot /\ ~(i > AtStartup)
  BY StartupAssumption DEF Init, Slot
<1>3. plug \in [Slot -> Plugin]
  BY <1>1 DEF Init
<1>4. TypeOK
  BY <1>2, <1>3, StartupAssumption, DepthAssumption DEF Init, TypeOK, Top
<1>5. Len(stack) = 0
  BY DEF Init
<1>6. Frames(stack, plug, last, dropped) /\ Pairs(stack, dropped)
  BY <1>5 DEF Frames, Pairs
<1>7. Flags(stack, plug)
  BY <1>1 DEF Flags
<1>8. Plugs(plug, last, hooked, dropped)
  BY <1>1, <1>2 DEF Init, Plugs, PlugOK, PL_EMPTY, PL_RUNNING, PL_VALID
<1> QED BY <1>4, <1>6, <1>7, <1>8 DEF IInv

\* A call that asks for nothing returns.
LEMMA LeavePluginStep == ASSUME IInv, LeavePlugin PROVE IInv'
<1>1. /\ InPlugin /\ stack[Len(stack)].kind # "detach"
      /\ stack' = Popped(stack) /\ UNCHANGED <<plug, last, hooked, dropped, mode>>
  BY DEF LeavePlugin, Top
<1>2. stack \in Seq(Frame) /\ Len(stack) > 0 /\ Len(stack) \in Nat
  BY <1>1, Here
<1>3. stack' \in Seq(Frame) /\ Len(stack') = Len(stack) - 1
  BY <1>1, <1>2, PoppedStack
<1>4. TypeOK'
  BY <1>1, <1>2, <1>3, DepthAssumption DEF IInv, TypeOK, Top
<1>5. Frames(stack', plug', last', dropped') /\ Pairs(stack', dropped')
  BY <1>1, <1>2, PoppedFrames, PoppedPairs DEF IInv
<1>6. \A i \in Slot : plug[i].unloader =>
        \E k \in 1..Len(Popped(stack)) : Popped(stack)[k].kind = "detach" /\ Popped(stack)[k].requester = i
  BY <1>1, <1>2, PoppedFlags DEF IInv
<1>7. Flags(stack', plug')
  BY <1>1, <1>6 DEF Flags
<1> QED BY <1>1, <1>4, <1>5, <1>7 DEF IInv

\* Every status is one.
LEMMA StatusValues ==
  /\ PL_VALID \in Status /\ PL_BADFILE \in Status /\ PL_OPENED \in Status
  /\ PL_FAILED \in Status /\ PL_RUNNING \in Status /\ PL_EMPTY \in Status
  /\ PL_VALID > PL_EMPTY /\ PL_BADFILE >= PL_VALID /\ PL_OPENED >= PL_VALID
  /\ PL_FAILED >= PL_VALID /\ PL_RUNNING >= PL_VALID
  /\ PL_BADFILE # PL_RUNNING /\ PL_OPENED # PL_RUNNING /\ PL_FAILED # PL_RUNNING
  /\ PL_EMPTY # PL_RUNNING /\ PL_VALID # PL_RUNNING
BY DEF Status, PL_EMPTY, PL_VALID, PL_BADFILE, PL_OPENED, PL_FAILED, PL_RUNNING

\* load() returns, one way or another, with the plugin in state new.
LEMMA LoadEnds ==
  ASSUME IInv, InPlugin, stack[Len(stack)].kind \in {"query", "attach"},
         NEW new \in Plugin, new.unloader = plug[Caller].unloader, new.status >= PL_VALID,
         new.status = PL_RUNNING => new.open,
         plug' = [plug EXCEPT ![Caller] = new], stack' = Popped(stack),
         hooked' = hooked \/ hooked' = Rebuilt(plug'), UNCHANGED <<last, dropped, mode>>
  PROVE  IInv'
<1>1. /\ stack \in Seq(Frame) /\ Len(stack) > 0 /\ Len(stack) \in Nat
      /\ FrameOK(stack[Len(stack)], plug, last, dropped) /\ ~stack[Len(stack)].gone
      /\ stack[Len(stack)].plugin = Caller
      /\ Caller \in Slot /\ Caller <= last /\ plug \in [Slot -> Plugin] /\ plug[Caller].open
      /\ PlugOK(Caller, plug, last, hooked, dropped)
  BY Here
<1>2. /\ Popped(stack) \in Seq(Frame) /\ Len(Popped(stack)) = Len(stack) - 1
      /\ \A k \in 1..(Len(stack) - 1) : Popped(stack)[k].plugin # Caller
  BY LoadBelow
<1>3. /\ plug' \in [Slot -> Plugin] /\ plug'[Caller] = new
      /\ \A j \in Slot \ {Caller} : plug'[j] = plug[j]
  BY <1>1
<1>4. \A j \in Slot : plug'[j].status \in Status
  BY <1>3 DEF Plugin
<1>5. Rebuilt(plug') \subseteq Slot /\ \A j \in Rebuilt(plug') : plug'[j].status = PL_RUNNING
  BY <1>4 DEF Rebuilt, Status, PL_RUNNING, PL_EMPTY
<1>6. TypeOK'
  <2>1. Len(stack) <= MaxDepth /\ TypeOK
    BY DEF IInv, TypeOK, Top
  <2>2. Len(stack') <= MaxDepth
    BY <1>1, <1>2, <2>1, DepthAssumption
  <2> QED BY <1>2, <1>3, <1>5, <2>1, <2>2 DEF TypeOK, Top
<1>7. Frames(stack', plug', last', dropped')
  <2>1. Frames(Popped(stack), plug, last, dropped)
    BY <1>1, PoppedFrames DEF IInv
  <2>2. Frames(Popped(stack), plug', last, dropped)
    <3>1. /\ plug'[Caller].unloader = plug[Caller].unloader
          /\ plug'[Caller].open => plug[Caller].open
          /\ \A k \in 1..Len(Popped(stack)) : Popped(stack)[k].plugin # Caller
      BY <1>1, <1>2, <1>3
    <3> QED BY <1>1, <1>2, <1>3, <2>1, <3>1, OtherFrames
  <2> QED BY <2>2
<1>8. Pairs(stack', dropped')
  BY <1>1, PoppedPairs DEF IInv
<1>9. Flags(stack', plug')
  <2>1. \A j \in Slot : plug'[j].unloader => plug[j].unloader
    BY <1>1, <1>3
  <2>2. \A i \in Slot : plug[i].unloader =>
          \E k \in 1..Len(Popped(stack)) : Popped(stack)[k].kind = "detach" /\ Popped(stack)[k].requester = i
    BY <1>1, PoppedFlags DEF IInv
  <2> QED BY <2>1, <2>2 DEF Flags
<1>10. Caller \notin hooked
  BY <1>1 DEF FrameOK, PlugOK, PL_VALID, PL_OPENED, PL_RUNNING
<1>11. Plugs(plug', last', hooked', dropped')
  <2> SUFFICES ASSUME NEW j \in Slot PROVE PlugOK(j, plug', last', hooked', dropped')
    BY DEF Plugs
  <2>1. PlugOK(j, plug, last, hooked, dropped)
    BY DEF IInv, Plugs
  <2>2. CASE j = Caller
    <3>1. ~(j > last)
      BY <1>1, <2>2 DEF IInv, TypeOK, Slot
    <3> QED BY <1>3, <1>5, <1>10, <2>2, <3>1 DEF PlugOK
  <2>3. CASE j # Caller
    BY <1>3, <1>5, <2>1, <2>3 DEF PlugOK
  <2> QED BY <2>2, <2>3
<1> QED BY <1>6, <1>7, <1>8, <1>9, <1>11 DEF IInv

LEMMA QueryFailsStep == ASSUME IInv, QueryFails PROVE IInv'
<1> DEFINE old == plug[Caller]
           new == [old EXCEPT !.status = PL_BADFILE, !.open = FALSE]
<1>1. /\ InPlugin /\ stack[Len(stack)].kind \in {"query", "attach"}
      /\ plug' = [plug EXCEPT ![Caller] = new]
      /\ stack' = Popped(stack) /\ UNCHANGED <<hooked, last, dropped, mode>>
  BY DEF QueryFails, Top
<1>2. old \in Plugin
  BY <1>1, Here
<1> HIDE DEF old
<1>3. /\ new \in Plugin /\ new.unloader = old.unloader /\ new.status >= PL_VALID
      /\ new.status # PL_RUNNING
  BY <1>2, StatusValues DEF Plugin
<1> HIDE DEF new
<1> QED BY <1>1, <1>3, LoadEnds DEF old

LEMMA LoadPutOffStep == ASSUME IInv, LoadPutOff PROVE IInv'
<1> DEFINE old == plug[Caller]
           new == [old EXCEPT !.status = PL_OPENED]
<1>1. /\ InPlugin /\ stack[Len(stack)].kind \in {"query", "attach"}
      /\ plug' = [plug EXCEPT ![Caller] = new]
      /\ stack' = Popped(stack) /\ UNCHANGED <<hooked, last, dropped, mode>>
  BY DEF LoadPutOff, Top
<1>2. old \in Plugin
  BY <1>1, Here
<1> HIDE DEF old
<1>3. /\ new \in Plugin /\ new.unloader = old.unloader /\ new.status >= PL_VALID
      /\ new.status # PL_RUNNING
  BY <1>2, StatusValues DEF Plugin
<1> HIDE DEF new
<1> QED BY <1>1, <1>3, LoadEnds DEF old

LEMMA AttachReturnsStep ==
  ASSUME IInv, NEW agrees \in BOOLEAN, AttachReturns(agrees)
  PROVE  IInv'
<1> DEFINE old == plug[Caller]
           new == IF agrees THEN [old EXCEPT !.status = PL_RUNNING, !.action = "PA_NONE"]
                            ELSE [old EXCEPT !.status = PL_FAILED]
<1>1. /\ InPlugin /\ stack[Len(stack)].kind \in {"query", "attach"}
      /\ plug' = [plug EXCEPT ![Caller] = new]
      /\ stack' = Popped(stack) /\ UNCHANGED <<last, dropped, mode>>
      /\ hooked' = hooked \/ hooked' = Rebuilt(plug')
  BY DEF AttachReturns, Top
<1>2. old \in Plugin /\ old.open
  BY <1>1, Here
<1> HIDE DEF old
<1>3. /\ new \in Plugin /\ new.unloader = old.unloader /\ new.status >= PL_VALID /\ new.open
  <2>1. "PA_NONE" \in Action
    BY DEF Action
  <2>2. CASE agrees
    BY <1>2, <2>1, <2>2, StatusValues DEF Plugin
  <2>3. CASE ~agrees
    BY <1>2, <2>3, StatusValues DEF Plugin
  <2> QED BY <2>2, <2>3
<1> HIDE DEF new
<1> QED BY <1>1, <1>3, LoadEnds DEF old

LEMMA QuerySucceedsStep == ASSUME IInv, QuerySucceeds PROVE IInv'
<1> DEFINE n == Len(stack)
           f == stack[n]
           g == [f EXCEPT !.kind = "attach"]
           new == [plug[Caller] EXCEPT !.status = PL_OPENED]
<1>1. /\ InPlugin /\ f.kind = "query"
      /\ plug' = [plug EXCEPT ![Caller] = new]
      /\ stack' = [stack EXCEPT ![n] = g] /\ UNCHANGED <<last, hooked, dropped, mode>>
  BY DEF QuerySucceeds, Top
<1>2. /\ stack \in Seq(Frame) /\ n > 0 /\ n \in Nat /\ n \in 1..n
      /\ f \in Frame /\ FrameOK(f, plug, last, dropped) /\ ~f.gone /\ f.plugin = Caller
      /\ Caller \in Slot /\ Caller <= last /\ plug \in [Slot -> Plugin] /\ plug[Caller].open
      /\ plug[Caller] \in Plugin /\ PlugOK(Caller, plug, last, hooked, dropped)
  BY <1>1, Here
<1>3. \A k \in 1..(n - 1) : stack[k].plugin # Caller
  BY <1>1, LoadBelow
<1> HIDE DEF f
<1>4. /\ g \in Frame /\ g.kind = "attach" /\ g.plugin = Caller /\ g.requester = f.requester
      /\ ~g.gone
  BY <1>2 DEF Frame, Kind
<1>5. /\ new \in Plugin /\ new.unloader = plug[Caller].unloader /\ new.status = PL_OPENED
      /\ new.open
  BY <1>2, StatusValues DEF Plugin
<1> HIDE DEF g, new
<1>6. /\ stack' \in Seq(Frame) /\ Len(stack') = n /\ stack'[n] = g
      /\ \A k \in 1..n : k # n => stack'[k] = stack[k]
  BY <1>1, <1>2, <1>4
<1>7. /\ plug' \in [Slot -> Plugin] /\ plug'[Caller] = new
      /\ \A j \in Slot \ {Caller} : plug'[j] = plug[j]
  BY <1>1, <1>2, <1>5
<1>8. TypeOK'
  BY <1>1, <1>6, <1>7 DEF IInv, TypeOK, Top
<1>9. \A k \in 1..n : k # n => k \in 1..(n - 1)
  BY <1>2
<1>10. Frames(stack', plug', last', dropped')
  <2> SUFFICES ASSUME NEW k \in 1..n PROVE FrameOK(stack'[k], plug', last', dropped')
    BY <1>6 DEF Frames
  <2>1. CASE k = n
    <3>1. FrameOK(g, plug', last, dropped)
      <4>1. g.gone = FALSE /\ plug'[Caller].open = TRUE
        BY <1>4, <1>5, <1>7 DEF Frame, Plugin
      <4>2. f.requester <= last
        BY <1>2 DEF FrameOK
      <4> QED BY <1>2, <1>4, <1>5, <1>7, <4>1, <4>2 DEF FrameOK
    <3> QED BY <1>1, <1>6, <2>1, <3>1
  <2>2. CASE k # n
    <3> DEFINE e == stack[k]
    <3>1. e \in Frame /\ FrameOK(e, plug, last, dropped) /\ e.plugin # Caller /\ stack'[k] = e
      BY <1>2, <1>3, <1>6, <1>9, <2>2, StackElements DEF IInv, Frames
    <3> HIDE DEF e
    <3>2. e.plugin \in Slot /\ e.requester \in Slot \cup {Nobody} /\ plug'[e.plugin] = plug[e.plugin]
      BY <1>7, <3>1 DEF Frame
    <3>3. e.requester # Nobody =>
            /\ e.requester \in Slot /\ plug'[e.requester].unloader = plug[e.requester].unloader
            /\ plug'[e.requester].open = plug[e.requester].open
      <4>1. CASE e.requester = Caller
        <5>1. plug'[Caller].unloader = plug[Caller].unloader /\ plug'[Caller].open = plug[Caller].open
          BY <1>2, <1>5, <1>7 DEF Plugin
        <5> QED BY <1>2, <4>1, <5>1
      <4>2. CASE e.requester # Caller
        BY <1>7, <3>2, <4>2
      <4> QED BY <4>1, <4>2
    <3> QED BY <1>1, <3>1, <3>2, <3>3 DEF FrameOK
  <2> QED BY <2>1, <2>2
<1>11. Pairs(stack', dropped')
  <2> SUFFICES ASSUME NEW k \in 1..n, NEW j \in 1..n, j < k PROVE PairOK(stack'[j], stack'[k], dropped')
    BY <1>6 DEF Pairs
  <2>1. j # n /\ stack'[j] = stack[j] /\ PairOK(stack[j], stack[k], dropped)
    BY <1>2, <1>6 DEF IInv, Pairs
  <2>2. CASE k = n
    BY <1>1, <1>3, <1>4, <1>6, <1>9, <2>1, <2>2 DEF PairOK
  <2>3. CASE k # n
    BY <1>1, <1>6, <2>1, <2>3
  <2> QED BY <2>2, <2>3
<1>12. Flags(stack', plug')
  <2> SUFFICES ASSUME NEW i \in Slot, plug'[i].unloader
               PROVE  \E k \in 1..n : stack'[k].kind = "detach" /\ stack'[k].requester = i
    BY <1>6 DEF Flags
  <2>1. plug[i].unloader
    BY <1>5, <1>7
  <2>2. PICK k \in 1..n : stack[k].kind = "detach" /\ stack[k].requester = i
    BY <2>1 DEF IInv, Flags
  <2>3. k # n
    BY <1>1, <2>2 DEF f
  <2> QED BY <1>6, <2>2, <2>3
<1>13. Plugs(plug', last', hooked', dropped')
  <2> SUFFICES ASSUME NEW j \in Slot PROVE PlugOK(j, plug', last', hooked', dropped')
    BY DEF Plugs
  <2>1. PlugOK(j, plug, last, hooked, dropped)
    BY DEF IInv, Plugs
  <2>2. CASE j = Caller
    <3>1. ~(j > last)
      BY <1>2, <2>2 DEF IInv, TypeOK, Slot
    <3>2. j \notin hooked
      BY <1>1, <1>2, <2>2 DEF FrameOK, PlugOK, PL_VALID, PL_RUNNING
    <3> QED BY <1>1, <1>5, <1>7, <2>2, <3>1, <3>2 DEF PlugOK, PL_OPENED, PL_VALID, PL_RUNNING
  <2>3. CASE j # Caller
    BY <1>1, <1>7, <2>1, <2>3 DEF PlugOK
  <2> QED BY <2>2, <2>3
<1> QED BY <1>8, <1>10, <1>11, <1>12, <1>13 DEF IInv

\* A call is made of plugin i, without more.
LEMMA EnterPluginStep ==
  ASSUME IInv, NEW i \in Slot, NEW kind \in Kind, EnterPlugin(i, kind)
  PROVE  IInv'
<1> DEFINE f == Call(kind, i, Nobody, "PNL_NULL")
<1>1. /\ kind \in {"handler", "command"} /\ plug[i].open /\ Len(stack) < MaxDepth
      /\ stack' = Append(stack, f) /\ UNCHANGED <<plug, last, hooked, dropped, mode>>
  BY DEF EnterPlugin, Top
<1>2. /\ stack \in Seq(Frame) /\ Len(stack) \in Nat /\ plug \in [Slot -> Plugin]
      /\ last \in 0..MaxPlugins
  BY StackElements DEF IInv, TypeOK
<1>3. /\ f \in Frame /\ f.kind = kind /\ f.plugin = i /\ f.requester = Nobody /\ f.gone = FALSE
  <2>1. f = [kind |-> kind, plugin |-> i, requester |-> Nobody, reason |-> "PNL_NULL",
             old |-> "PA_NULL", again |-> FALSE, gone |-> FALSE]
    BY DEF Call
  <2> HIDE DEF f
  <2> QED BY <2>1 DEF Frame, Action, Reason
<1>4. i <= last
  BY <1>1, OpenSlot
<1> HIDE DEF f
<1>5. FrameOK(f, plug, last, dropped)
  <2>1. plug[i].open = TRUE
    BY <1>1, <1>2 DEF Plugin
  <2>2. f.kind # "query" /\ f.kind # "attach" /\ f.kind # "detach"
    BY <1>1, <1>3
  <2>3. f.plugin <= last /\ f.requester <= last
    BY <1>2, <1>3, <1>4 DEF Nobody
  <2> QED BY <1>3, <2>1, <2>2, <2>3 DEF FrameOK
<1>6. \A j \in 1..Len(stack) : PairOK(stack[j], f, dropped)
  BY <1>1, <1>3 DEF PairOK
<1>7. Frames(stack', plug', last', dropped') /\ Pairs(stack', dropped')
  BY <1>1, <1>2, <1>3, <1>5, <1>6, AppendedCall DEF IInv
<1>8. /\ stack' \in Seq(Frame) /\ Len(stack') = Len(stack) + 1
      /\ \A k \in 1..Len(stack) : stack'[k] = stack[k]
  BY <1>1, <1>2, <1>3, AppendedStack
<1>9. Len(stack') <= MaxDepth
  BY <1>1, <1>2, <1>8, DepthAssumption
<1>10. TypeOK'
  BY <1>1, <1>8, <1>9 DEF IInv, TypeOK, Top
<1>11. \A k \in 1..Len(stack) : k \in 1..Len(stack')
  BY <1>2, <1>8
<1>12. Flags(stack', plug')
  BY <1>1, <1>8, <1>11 DEF IInv, Flags
<1> QED BY <1>1, <1>7, <1>10, <1>12 DEF IInv

\* An entry is added, and its load begins.
LEMMA BeginLoadStep ==
  ASSUME IInv, NEW requester \in Slot \cup {Nobody}, requester <= last, BeginLoad(requester)
  PROVE  IInv'
<1> DEFINE i == last + 1
           new == [status |-> PL_VALID, action |-> "PA_LOAD", source |-> requester,
                   unloader |-> FALSE, open |-> TRUE]
           f == Call("query", i, requester, "PNL_NULL")
<1>1. /\ last < MaxPlugins /\ Len(stack) < MaxDepth /\ last' = i
      /\ plug' = [plug EXCEPT ![i] = new]
      /\ stack' = Append(stack, f) /\ UNCHANGED <<hooked, dropped, mode>>
  BY DEF BeginLoad, Top
<1>2. /\ stack \in Seq(Frame) /\ Len(stack) \in Nat /\ plug \in [Slot -> Plugin]
      /\ last \in 0..MaxPlugins
  BY StackElements DEF IInv, TypeOK
<1>3. i \in Slot /\ i \in 0..MaxPlugins /\ last \in Nat /\ i \in Nat /\ last < i
  BY <1>1, <1>2, StartupAssumption DEF Slot
<1>4. /\ f \in Frame /\ f.kind = "query" /\ f.plugin = i /\ f.requester = requester
      /\ f.gone = FALSE
  <2>1. f = [kind |-> "query", plugin |-> i, requester |-> requester, reason |-> "PNL_NULL",
             old |-> "PA_NULL", again |-> FALSE, gone |-> FALSE]
    BY DEF Call
  <2> HIDE DEF f, i
  <2> QED BY <1>3, <2>1 DEF Frame, Action, Reason, Kind
<1>5. new \in Plugin /\ new.status = PL_VALID /\ new.open = TRUE /\ new.unloader = FALSE
  BY StatusValues DEF Plugin, Action
<1> HIDE DEF f, new
<1>6. /\ plug' \in [Slot -> Plugin] /\ plug'[i] = new
      /\ \A j \in Slot \ {i} : plug'[j] = plug[j]
  BY <1>1, <1>2, <1>3, <1>5
<1>7. \A k \in 1..Len(stack) : /\ stack[k].plugin <= last /\ stack[k].requester <= last
                               /\ stack[k].plugin \in Slot /\ stack[k].requester \in Slot \cup {Nobody}
  <2> SUFFICES ASSUME NEW k \in 1..Len(stack)
               PROVE  /\ stack[k].plugin <= last /\ stack[k].requester <= last
                      /\ stack[k].plugin \in Slot /\ stack[k].requester \in Slot \cup {Nobody}
    OBVIOUS
  <2>1. stack[k] \in Frame /\ FrameOK(stack[k], plug, last, dropped)
    BY <1>2, StackElements DEF IInv, Frames
  <2> QED BY <2>1 DEF FrameOK, Frame
<1>8. \A k \in 1..Len(stack) : stack[k].plugin # i /\ stack[k].requester # i
  BY <1>3, <1>7
<1>9. Frames(stack, plug', last, dropped)
  BY <1>2, <1>3, <1>6, <1>8, OtherFrames DEF IInv
<1>10. Frames(stack, plug', i, dropped)
  <2> SUFFICES ASSUME NEW k \in 1..Len(stack) PROVE FrameOK(stack[k], plug', i, dropped)
    BY DEF Frames
  <2>1. FrameOK(stack[k], plug', last, dropped)
    BY <1>9 DEF Frames
  <2>2. stack[k].plugin <= i /\ stack[k].requester <= i
    BY <1>3, <1>7 DEF Slot, Nobody
  <2> HIDE DEF i
  <2> QED BY <2>1, <2>2 DEF FrameOK
<1>11. FrameOK(f, plug', i, dropped)
  <2>1. f.plugin <= i /\ f.requester <= i
    BY <1>3, <1>4 DEF Slot, Nobody
  <2> HIDE DEF i
  <2> QED BY <1>4, <1>5, <1>6, <2>1 DEF FrameOK
<1>12. \A j \in 1..Len(stack) : PairOK(stack[j], f, dropped)
  BY <1>4, <1>8 DEF PairOK
<1>13. Frames(stack', plug', last', dropped') /\ Pairs(stack', dropped')
  BY <1>1, <1>2, <1>4, <1>10, <1>11, <1>12, AppendedCall DEF IInv
<1>14. /\ stack' \in Seq(Frame) /\ Len(stack') = Len(stack) + 1
       /\ \A k \in 1..Len(stack) : stack'[k] = stack[k]
  BY <1>1, <1>2, <1>4, AppendedStack
<1>15. Len(stack') <= MaxDepth
  BY <1>1, <1>2, <1>14, DepthAssumption
<1>16. TypeOK'
  BY <1>1, <1>3, <1>6, <1>14, <1>15 DEF IInv, TypeOK, Top
<1>17. \A k \in 1..Len(stack) : k \in 1..Len(stack')
  BY <1>2, <1>14
<1>18. \A j \in Slot : plug'[j].unloader => plug[j].unloader
  BY <1>5, <1>6
<1>19. Flags(stack', plug')
  BY <1>14, <1>17, <1>18 DEF IInv, Flags
<1>20. Plugs(plug', last', hooked', dropped')
  <2> SUFFICES ASSUME NEW j \in Slot PROVE PlugOK(j, plug', last', hooked', dropped')
    BY DEF Plugs
  <2>1. PlugOK(j, plug, last, hooked, dropped)
    BY DEF IInv, Plugs
  <2>2. CASE j = i
    <3>1. j \notin hooked
      BY <1>3, <2>1, <2>2 DEF PlugOK, PL_EMPTY, PL_RUNNING
    <3>2. ~(j > last')
      BY <1>1, <1>3, <2>2
    <3>3. plug'[j].status = PL_VALID
      BY <1>5, <1>6, <2>2
    <3> QED BY <1>1, <3>1, <3>2, <3>3 DEF PlugOK, PL_VALID, PL_RUNNING
  <2>3. CASE j # i
    <3>1. j > last' => j > last
      BY <1>1, <1>3 DEF Slot
    <3> QED BY <1>1, <1>6, <2>1, <2>3, <3>1 DEF PlugOK
  <2> QED BY <2>2, <2>3
<1> QED BY <1>13, <1>16, <1>19, <1>20 DEF IInv

LEMMA LoadRequestStep == ASSUME IInv, LoadRequest PROVE IInv'
BY Here, BeginLoadStep DEF LoadRequest

LEMMA CmdLoadStep == ASSUME IInv, CmdLoad PROVE IInv'
<1>1. Nobody <= last
  BY DEF IInv, TypeOK, Nobody
<1> QED BY <1>1, BeginLoadStep DEF CmdLoad

\* Meta_Detach of plugin i is called: the plugin is marked, and new is the list
\* with that mark and the flag of the requester, if there is one.
LEMMA DetachCalled ==
  ASSUME IInv, NEW i \in Slot, plug[i].open, Len(stack) < MaxDepth,
         NEW f \in Frame, f.kind = "detach", f.plugin = i, f.requester <= last, f.gone = FALSE,
         f.requester # Nobody /\ f.reason # "PNL_CMD_FORCED" =>
           f.old = plug[i].action /\ plug[i].status = PL_RUNNING,
         plug' \in [Slot -> Plugin], plug'[i].action = "PA_UNLOAD",
         f.requester # Nobody => plug'[f.requester].unloader,
         \A j \in Slot : /\ plug'[j].status = plug[j].status /\ plug'[j].open = plug[j].open
                         /\ plug'[j].action = plug[j].action \/ plug'[j].action = "PA_UNLOAD"
                         /\ plug[j].unloader => plug'[j].unloader
                         /\ plug'[j].unloader => plug[j].unloader \/ f.requester = j,
         stack' = Append(stack, f), UNCHANGED <<last, hooked, dropped, mode>>
  PROVE  IInv'
<1>1. /\ stack \in Seq(Frame) /\ Len(stack) \in Nat /\ plug \in [Slot -> Plugin]
      /\ last \in 0..MaxPlugins
      /\ \A k \in 1..Len(stack) : stack[k] \in Frame
  BY StackElements DEF IInv, TypeOK
<1>2. i <= last
  BY OpenSlot
<1>3. Frames(stack, plug', last, dropped)
  BY <1>1, MarkedFrames DEF IInv
<1>4. FrameOK(f, plug', last, dropped)
  <2>1. plug'[i].open = TRUE
    BY <1>1 DEF Plugin
  <2> QED BY <1>2, <2>1 DEF FrameOK, Marks
<1>5. ASSUME NEW j \in 1..Len(stack) PROVE PairOK(stack[j], f, dropped)
  <2> DEFINE e == stack[j]
  <2>1. e \in Frame /\ FrameOK(e, plug, last, dropped)
    BY <1>1 DEF IInv, Frames
  <2> HIDE DEF e
  <2>2. ASSUME f.requester # Nobody, f.reason # "PNL_CMD_FORCED", e.kind = "detach", e.plugin = i
        PROVE  Marks(i, f.old, dropped)
    <3>1. ~e.gone
      BY <2>1, <2>2 DEF FrameOK
    <3>2. plug[i].status = PL_RUNNING /\ f.old = plug[i].action
      BY <2>2
    <3> QED BY <2>1, <2>2, <3>1, <3>2 DEF FrameOK
  <2>3. PairOK(e, f, dropped)
    BY <2>2 DEF PairOK
  <2> QED BY <2>3 DEF e
<1>6. Frames(stack', plug', last', dropped') /\ Pairs(stack', dropped')
  BY <1>1, <1>3, <1>4, <1>5, AppendedCall DEF IInv
<1>7. /\ stack' \in Seq(Frame) /\ Len(stack') = Len(stack) + 1
      /\ \A k \in 1..Len(stack) : stack'[k] = stack[k]
      /\ stack'[Len(stack) + 1] = f
  BY <1>1, AppendedStack
<1>8. Len(stack') <= MaxDepth
  BY <1>1, <1>7, DepthAssumption
<1>9. TypeOK'
  BY <1>7, <1>8 DEF IInv, TypeOK, Top
<1>10. /\ \A k \in 1..Len(stack) : k \in 1..Len(stack')
       /\ Len(stack) + 1 \in 1..Len(stack')
  BY <1>1, <1>7
<1>11. Flags(stack', plug')
  <2> SUFFICES ASSUME NEW j \in Slot, plug'[j].unloader
               PROVE  \E k \in 1..Len(stack') : stack'[k].kind = "detach" /\ stack'[k].requester = j
    BY DEF Flags
  <2>1. CASE f.requester = j
    BY <1>7, <1>10, <2>1
  <2>2. CASE f.requester # j
    <3>1. plug[j].unloader
      BY <2>2
    <3>2. PICK k \in 1..Len(stack) : stack[k].kind = "detach" /\ stack[k].requester = j
      BY <3>1 DEF IInv, Flags
    <3> QED BY <1>7, <1>10, <3>2
  <2> QED BY <2>1, <2>2
<1>12. Plugs(plug', last', hooked', dropped')
  BY DEF IInv, Plugs, PlugOK
<1> QED BY <1>6, <1>9, <1>11, <1>12 DEF IInv

\* A plugin asks for the unload of plugin i.
LEMMA UnloadRequestStep ==
  ASSUME IInv, NEW i \in Slot, NEW reason \in Reason, UnloadRequest(i, reason)
  PROVE  IInv'
<1> DEFINE c == Caller
           f == Call("detach", i, c, reason)
<1>1. /\ InPlugin /\ Len(stack) < MaxDepth /\ i # c /\ plug[i].open
      /\ plug[i].status >= PL_RUNNING \/ reason = "PNL_CMD_FORCED"
      /\ plug' = [plug EXCEPT ![i].action = "PA_UNLOAD", ![c].unloader = TRUE]
      /\ stack' = Append(stack, f) /\ UNCHANGED <<last, hooked, dropped, mode>>
  BY DEF UnloadRequest, Top
<1>2. c \in Slot /\ c <= last /\ plug \in [Slot -> Plugin] /\ c # Nobody
  BY <1>1, Here, StartupAssumption DEF Slot, Nobody
<1> HIDE DEF c
<1>3. plug[i] \in Plugin /\ plug[c] \in Plugin
  BY <1>2
<1>4. plug[i].status = PL_RUNNING \/ reason = "PNL_CMD_FORCED"
  BY <1>1, <1>3 DEF Plugin, Status, PL_EMPTY, PL_RUNNING
<1>5. f = [kind |-> "detach", plugin |-> i, requester |-> c, reason |-> reason,
           old |-> plug[i].action, again |-> FALSE, gone |-> FALSE]
  BY <1>2 DEF Call
<1> HIDE DEF f
<1>6. /\ f \in Frame /\ f.kind = "detach" /\ f.plugin = i /\ f.requester = c /\ f.gone = FALSE
      /\ f.old = plug[i].action /\ f.reason = reason
  <2>1. plug[i].action \in Action
    BY <1>3 DEF Plugin
  <2> QED BY <1>2, <1>5, <2>1 DEF Frame, Kind
<1> DEFINE pi == [plug[i] EXCEPT !.action = "PA_UNLOAD"]
           pc == [plug[c] EXCEPT !.unloader = TRUE]
<1>7. /\ pi \in Plugin /\ pi.status = plug[i].status /\ pi.open = plug[i].open
      /\ pi.unloader = plug[i].unloader /\ pi.action = "PA_UNLOAD"
  BY <1>3 DEF Plugin, Action
<1>8. /\ pc \in Plugin /\ pc.status = plug[c].status /\ pc.open = plug[c].open
      /\ pc.unloader /\ pc.action = plug[c].action
  BY <1>3 DEF Plugin
<1>9. plug' = [plug EXCEPT ![i] = pi, ![c] = pc]
  BY <1>1, <1>2
<1> HIDE DEF pi, pc
<1>10. /\ plug' \in [Slot -> Plugin] /\ plug'[i] = pi /\ plug'[c] = pc
       /\ \A j \in Slot : j # i /\ j # c => plug'[j] = plug[j]
  BY <1>1, <1>2, <1>7, <1>8, <1>9
<1>11. \A j \in Slot : /\ plug'[j].status = plug[j].status /\ plug'[j].open = plug[j].open
                       /\ plug'[j].action = plug[j].action \/ plug'[j].action = "PA_UNLOAD"
                       /\ plug[j].unloader => plug'[j].unloader
                       /\ plug'[j].unloader => plug[j].unloader \/ f.requester = j
  <2> TAKE j \in Slot
  <2>1. CASE j = i
    BY <1>7, <1>10, <2>1
  <2>2. CASE j = c
    BY <1>6, <1>8, <1>10, <2>2
  <2>3. CASE j # i /\ j # c
    BY <1>10, <2>3
  <2> QED BY <2>1, <2>2, <2>3
<1>12. plug'[i].action = "PA_UNLOAD" /\ plug'[f.requester].unloader
  BY <1>6, <1>7, <1>8, <1>10
<1>13. /\ f.requester <= last
       /\ f.requester # Nobody /\ f.reason # "PNL_CMD_FORCED" =>
            f.old = plug[i].action /\ plug[i].status = PL_RUNNING
       /\ f.requester # Nobody => plug'[f.requester].unloader
  BY <1>2, <1>4, <1>6, <1>12
<1>14. /\ plug[i].open /\ Len(stack) < MaxDepth
       /\ stack' = Append(stack, f) /\ UNCHANGED <<last, hooked, dropped, mode>>
  BY <1>1
<1> QED BY <1>6, <1>10, <1>11, <1>12, <1>13, <1>14, DetachCalled

\* The operator asks for the unload of plugin i.
LEMMA CmdUnloadStep ==
  ASSUME IInv, NEW i \in Slot, NEW reason \in Reason, CmdUnload(i, reason)
  PROVE  IInv'
<1> DEFINE f == Call("detach", i, Nobody, reason)
           pi == [plug[i] EXCEPT !.action = "PA_UNLOAD"]
<1>1. /\ Len(stack) < MaxDepth /\ plug[i].open /\ reason \in {"PNL_COMMAND", "PNL_CMD_FORCED"}
      /\ plug' = [plug EXCEPT ![i] = pi]
      /\ stack' = Append(stack, f) /\ UNCHANGED <<last, hooked, dropped, mode>>
  BY DEF CmdUnload, Top
<1>2. plug \in [Slot -> Plugin] /\ Nobody <= last
  BY DEF IInv, TypeOK, Nobody
<1>3. /\ pi \in Plugin /\ pi.status = plug[i].status /\ pi.open = plug[i].open
      /\ pi.unloader = plug[i].unloader /\ pi.action = "PA_UNLOAD"
  <2>1. plug[i] \in Plugin
    BY <1>2
  <2> QED BY <2>1 DEF Plugin, Action
<1>5. f = [kind |-> "detach", plugin |-> i, requester |-> Nobody, reason |-> reason,
           old |-> "PA_NULL", again |-> FALSE, gone |-> FALSE]
  BY DEF Call
<1> HIDE DEF f, pi
<1>6. f \in Frame /\ f.kind = "detach" /\ f.plugin = i /\ f.requester = Nobody /\ f.gone = FALSE
  BY <1>5 DEF Frame, Kind, Action
<1>7. /\ plug' \in [Slot -> Plugin] /\ plug'[i] = pi
      /\ \A j \in Slot : j # i => plug'[j] = plug[j]
  BY <1>1, <1>2, <1>3
<1>8. \A j \in Slot : /\ plug'[j].status = plug[j].status /\ plug'[j].open = plug[j].open
                      /\ plug'[j].action = plug[j].action \/ plug'[j].action = "PA_UNLOAD"
                      /\ plug[j].unloader => plug'[j].unloader
                      /\ plug'[j].unloader => plug[j].unloader \/ f.requester = j
  BY <1>3, <1>7
<1>9. plug'[i].action = "PA_UNLOAD"
  BY <1>3, <1>7
<1>10. /\ f.requester <= last
       /\ f.requester # Nobody /\ f.reason # "PNL_CMD_FORCED" =>
            f.old = plug[i].action /\ plug[i].status = PL_RUNNING
       /\ f.requester # Nobody => plug'[f.requester].unloader
  BY <1>2, <1>6
<1>11. /\ plug[i].open /\ Len(stack) < MaxDepth
       /\ stack' = Append(stack, f) /\ UNCHANGED <<last, hooked, dropped, mode>>
  BY <1>1
<1> QED BY <1>6, <1>7, <1>8, <1>9, <1>10, <1>11, DetachCalled

\* The stack after a request of p has ended is one.
LEMMA MarkedType ==
  ASSUME NEW s \in Seq(Frame), Len(s) <= MaxDepth, NEW p \in Slot \cup {Nobody},
         stack' = Marked(s, p)
  PROVE  stack' \in Seq(Frame) /\ Len(stack') <= MaxDepth
BY MarkedStack

\* A request is refused before Meta_Detach.
LEMMA RequestRefusedStep ==
  ASSUME IInv, NEW i \in Slot, RequestRefused(i)
  PROVE  IInv'
<1> DEFINE c == Caller
<1>1. /\ InPlugin /\ plug' = [plug EXCEPT ![c].unloader = FALSE]
      /\ stack' = Marked(stack, c) /\ UNCHANGED <<last, hooked, dropped, mode>>
  BY DEF RequestRefused
<1>2. c \in Slot /\ c # Nobody
  BY <1>1, Here, StartupAssumption DEF Slot, Nobody
<1>3. stack \in Seq(Frame) /\ plug \in [Slot -> Plugin] /\ Len(stack) <= MaxDepth
  BY DEF IInv, TypeOK, Top
<1> HIDE DEF c
<1>4. plug' = Ended(plug, c)
  BY <1>1, <1>2 DEF Ended
<1>5. TypeOK'
  <2>1. plug' \in [Slot -> Plugin]
    BY <1>2, <1>3, <1>4, EndedPlugs
  <2>2. stack' \in Seq(Frame) /\ Len(stack') <= MaxDepth
    BY <1>1, <1>2, <1>3, MarkedType
  <2> QED BY <1>1, <2>1, <2>2 DEF IInv, TypeOK, Top
<1>6. Frames(stack', plug', last', dropped')
  <2>1. Frames(stack, plug, last, dropped)
    BY DEF IInv
  <2>2. Frames(Marked(stack, c), Ended(plug, c), last, dropped)
    BY <1>2, <1>3, <2>1, EndedFrames
  <2> QED BY <1>1, <1>4, <2>2
<1>7. Pairs(stack', dropped')
  BY <1>1, <1>2, <1>3, MarkedPairs DEF IInv
<1>8. Plugs(plug', last', hooked', dropped')
  <2>1. Plugs(plug, last, hooked, dropped)
    BY DEF IInv
  <2>2. Plugs(Ended(plug, c), last, hooked, dropped)
    BY <1>2, <1>3, <2>1, EndedPlugs
  <2> QED BY <1>1, <1>4, <2>2
<1>9. Flags(stack', plug')
  <2>1. \A j \in Slot : plug[j].unloader /\ j # c =>
          \E k \in 1..Len(stack) : stack[k].kind = "detach" /\ stack[k].requester = j
    BY DEF IInv, Flags
  <2>2. Flags(Marked(stack, c), Ended(plug, c))
    BY <1>2, <1>3, <2>1, EndedFlags
  <2> QED BY <1>1, <1>4, <2>2
<1> QED BY <1>5, <1>6, <1>7, <1>8, <1>9 DEF IInv

\* The compiled plugins are plugins.
LEMMA RebuiltSlots == \A list : Rebuilt(list) \subseteq Slot
BY DEF Rebuilt

\* Meta_Detach agrees, or is overridden.
LEMMA DetachAgreedStep ==
  ASSUME IInv, InPlugin, stack[Len(stack)].kind = "detach",
         NEW i, i = stack[Len(stack)].plugin, NEW p, p = stack[Len(stack)].requester,
         plug' = Ended(Closed(plug, i), p),
         stack' = Marked(Orphaned(Popped(stack), i), p),
         hooked' = Rebuilt(plug'), mode' \in {"alive", "exited"}, UNCHANGED <<last, dropped>>
  PROVE  IInv'
<1> DEFINE f == stack[Len(stack)]
           s == Popped(stack)
           t == Orphaned(s, i)
           new == Closed(plug, i)
<1>1. /\ stack \in Seq(Frame) /\ Len(stack) > 0 /\ Len(stack) \in Nat /\ f \in Frame /\ ~f.gone
      /\ FrameOK(f, plug, last, dropped) /\ plug \in [Slot -> Plugin]
  BY Here
<1>2. i \in Slot /\ p \in Slot \cup {Nobody}
  BY <1>1 DEF Frame
<1>3. s \in Seq(Frame) /\ Len(s) = Len(stack) - 1 /\ Len(s) <= MaxDepth
  <2>1. Len(stack) <= MaxDepth
    BY DEF IInv, TypeOK, Top
  <2>2. s \in Seq(Frame) /\ Len(s) = Len(stack) - 1
    BY <1>1, PoppedStack
  <2> QED BY <1>1, <2>1, <2>2, DepthAssumption
<1>4. Frames(s, plug, last, dropped) /\ Pairs(s, dropped)
  BY <1>1, PoppedFrames, PoppedPairs DEF IInv
<1>5. \A j \in Slot : plug[j].unloader /\ j # p =>
        \E k \in 1..Len(s) : s[k].kind = "detach" /\ s[k].requester = j
  BY <1>1, PoppedFlags DEF IInv
<1> HIDE DEF s
<1>6. t \in Seq(Frame) /\ Len(t) <= MaxDepth
  BY <1>2, <1>3, OrphanedStack
<1>7. /\ new \in [Slot -> Plugin] /\ ~new[i].open
      /\ \A j \in Slot \ {i} :
           /\ new[j].status = plug[j].status /\ new[j].action = plug[j].action
           /\ new[j].open = plug[j].open /\ new[j].unloader = plug[j].unloader
      /\ new[i].unloader => plug[i].unloader
  <2>1. ~EmptySlot.unloader
    BY DEF EmptySlot
  <2>2. plug \in [Slot -> Plugin] /\ i \in Slot
    BY <1>1, <1>2
  <2>3. /\ new \in [Slot -> Plugin] /\ ~new[i].open
        /\ new[i] = EmptySlot \/ new[i].unloader = plug[i].unloader
        /\ \A j \in Slot \ {i} :
             /\ new[j].status = plug[j].status /\ new[j].action = plug[j].action
             /\ new[j].open = plug[j].open /\ new[j].unloader = plug[j].unloader
    BY <2>2, ClosedList
  <2> HIDE DEF new
  <2> QED BY <2>1, <2>3
<1>8. /\ plug[i].status = PL_RUNNING => Marks(i, plug[i].action, dropped)
      /\ i <= last /\ last \in Nat
  BY <1>1 DEF FrameOK, IInv, TypeOK
<1>9. Plugs(new, last, Rebuilt(new), dropped)
  BY <1>1, <1>2, <1>8, ClosedPlugs DEF IInv
<1> HIDE DEF new
<1>10. Frames(t, new, last, dropped)
  BY <1>1, <1>2, <1>3, <1>4, <1>7, ClosedFrames
<1>11. Pairs(t, dropped)
  BY <1>2, <1>3, <1>4, OrphanedPairs
<1>12. \A j \in Slot : new[j].unloader /\ j # p =>
         \E k \in 1..Len(t) : t[k].kind = "detach" /\ t[k].requester = j
  <2> SUFFICES ASSUME NEW j \in Slot, new[j].unloader, j # p
               PROVE  \E k \in 1..Len(t) : t[k].kind = "detach" /\ t[k].requester = j
    OBVIOUS
  <2>1. plug[j].unloader
    BY <1>7
  <2>2. \E k \in 1..Len(s) : s[k].kind = "detach" /\ s[k].requester = j
    BY <1>5, <2>1
  <2>3. \A m \in Slot : (\E k \in 1..Len(s) : s[k].kind = "detach" /\ s[k].requester = m) =>
          \E k \in 1..Len(t) : t[k].kind = "detach" /\ t[k].requester = m
    BY <1>2, <1>3, OrphanedFlags
  <2> HIDE DEF t
  <2> QED BY <2>2, <2>3
<1> HIDE DEF t
<1>13. plug' = Ended(new, p) /\ stack' = Marked(t, p)
  BY DEF new, t, s
<1>14. TypeOK'
  <2>1. plug' \in [Slot -> Plugin]
    BY <1>2, <1>7, <1>13, EndedPlugs
  <2>2. stack' \in Seq(Frame) /\ Len(stack') <= MaxDepth
    BY <1>2, <1>6, <1>13, MarkedType
  <2> QED BY <2>1, <2>2, RebuiltSlots DEF IInv, TypeOK, Top
<1>15. Frames(stack', plug', last', dropped')
  BY <1>2, <1>6, <1>7, <1>10, <1>13, EndedFrames
<1>16. Pairs(stack', dropped')
  BY <1>2, <1>6, <1>11, <1>13, MarkedPairs
<1>17. Plugs(plug', last', hooked', dropped')
  BY <1>2, <1>7, <1>9, <1>13, EndedPlugs
<1>18. Flags(stack', plug')
  BY <1>2, <1>6, <1>7, <1>12, <1>13, EndedFlags
<1> QED BY <1>14, <1>15, <1>16, <1>17, <1>18 DEF IInv

\* Meta_Detach refuses.
LEMMA DetachRefusedStep ==
  ASSUME IInv, InPlugin, stack[Len(stack)].kind = "detach",
         stack[Len(stack)].reason # "PNL_CMD_FORCED",
         NEW i, i = stack[Len(stack)].plugin, NEW p, p = stack[Len(stack)].requester,
         NEW a, a = (IF p = Nobody THEN plug[i].action ELSE stack[Len(stack)].old),
         plug' = Ended([plug EXCEPT ![i].action = a], p),
         stack' = Marked(Popped(stack), p), UNCHANGED <<last, hooked, dropped, mode>>
  PROVE  IInv'
<1> DEFINE n == Len(stack)
           f == stack[n]
           s == Popped(stack)
           new == [plug EXCEPT ![i].action = a]
<1>1. /\ stack \in Seq(Frame) /\ n > 0 /\ n \in Nat /\ f \in Frame /\ ~f.gone /\ n \in 1..n
      /\ FrameOK(f, plug, last, dropped) /\ plug \in [Slot -> Plugin]
  BY Here
<1>2. i \in Slot /\ p \in Slot \cup {Nobody} /\ f.old \in Action
  BY <1>1 DEF Frame
<1>3. s \in Seq(Frame) /\ Len(s) = n - 1 /\ Len(s) <= MaxDepth
      /\ \A k \in 1..(n - 1) : s[k] = stack[k]
  <2>1. n <= MaxDepth
    BY DEF IInv, TypeOK, Top
  <2>2. s \in Seq(Frame) /\ Len(s) = n - 1 /\ \A k \in 1..(n - 1) : s[k] = stack[k]
    BY <1>1, PoppedStack
  <2> QED BY <1>1, <2>1, <2>2, DepthAssumption
<1>4. Frames(s, plug, last, dropped) /\ Pairs(s, dropped)
  BY <1>1, PoppedFrames, PoppedPairs DEF IInv
<1>5. \A j \in Slot : plug[j].unloader /\ j # p =>
        \E k \in 1..Len(s) : s[k].kind = "detach" /\ s[k].requester = j
  BY <1>1, PoppedFlags DEF IInv
<1>6. a \in Action
  <2>1. plug[i].action \in Action
    BY <1>1, <1>2 DEF Plugin
  <2> QED BY <1>2, <2>1
<1>7. /\ new \in [Slot -> Plugin]
      /\ \A j \in Slot : /\ new[j].status = plug[j].status /\ new[j].open = plug[j].open
                         /\ new[j].unloader = plug[j].unloader
                         /\ j # i => new[j].action = plug[j].action
      /\ new[i].action = a
  <2> DEFINE q == plug[i]
             r == [q EXCEPT !.action = a]
  <2>1. q \in Plugin
    BY <1>1, <1>2
  <2> HIDE DEF q
  <2>2. /\ r \in Plugin /\ r.status = q.status /\ r.open = q.open /\ r.unloader = q.unloader
        /\ r.action = a
    BY <1>6, <2>1 DEF Plugin
  <2>3. new = [plug EXCEPT ![i] = r]
    BY DEF q
  <2> HIDE DEF r, new
  <2> QED BY <1>1, <1>2, <2>2, <2>3 DEF q
<1> HIDE DEF new, s
<1>8. ASSUME NEW k \in 1..(n - 1) PROVE FrameOK(s[k], new, last, dropped)
  <2> DEFINE e == s[k]
  <2>0. k \in 1..n /\ k < n /\ k \in 1..Len(s) /\ e = stack[k]
    BY <1>1, <1>3
  <2>a. e \in Frame
    BY <1>3, <2>0, StackElements
  <2>1. /\ e \in Frame /\ FrameOK(e, plug, last, dropped) /\ e = stack[k] /\ k \in 1..n /\ k < n
        /\ e.plugin \in Slot /\ e.requester \in Slot \cup {Nobody}
    BY <1>4, <2>0, <2>a DEF Frames, Frame
  <2>2. PairOK(e, f, dropped)
    BY <1>1, <2>1 DEF IInv, Pairs
  <2> HIDE DEF e, f
  <2>3. ASSUME e.kind = "detach", ~e.gone, new[e.plugin].status = PL_RUNNING
        PROVE  Marks(e.plugin, new[e.plugin].action, dropped)
    <3>1. plug[e.plugin].status = PL_RUNNING
      BY <1>7, <2>1, <2>3
    <3>2. Marks(e.plugin, plug[e.plugin].action, dropped)
      BY <2>1, <2>3, <3>1 DEF FrameOK
    <3>3. CASE e.plugin = i /\ p # Nobody
      BY <1>7, <2>2, <2>3, <3>3 DEF PairOK, Marks, f
    <3>4. CASE ~(e.plugin = i /\ p # Nobody)
      BY <1>7, <2>1, <3>2, <3>4 DEF Marks, f
    <3> QED BY <3>3, <3>4
  <2>4. e.requester # Nobody => /\ e.requester \in Slot
                                /\ new[e.requester].unloader = plug[e.requester].unloader
                                /\ new[e.requester].open = plug[e.requester].open
    BY <1>7, <2>1
  <2>5. new[e.plugin].status = plug[e.plugin].status /\ new[e.plugin].open = plug[e.plugin].open
    BY <1>7, <2>1
  <2>6. FrameOK(e, new, last, dropped)
    BY <2>1, <2>3, <2>4, <2>5 DEF FrameOK
  <2> QED BY <2>6 DEF e
<1>9. Frames(s, new, last, dropped)
  BY <1>3, <1>8 DEF Frames
<1>10. plug' = Ended(new, p) /\ stack' = Marked(s, p)
  BY DEF new, s
<1>11. TypeOK'
  <2>1. plug' \in [Slot -> Plugin]
    <3>1. Ended(new, p) \in [Slot -> Plugin]
      BY <1>2, <1>7, EndedPlugs
    <3> QED BY <1>10, <3>1
  <2>2. stack' \in Seq(Frame) /\ Len(stack') <= MaxDepth
    BY <1>2, <1>3, <1>10, MarkedType
  <2> QED BY <2>1, <2>2 DEF IInv, TypeOK, Top
<1>12. Frames(stack', plug', last', dropped')
  BY <1>2, <1>3, <1>7, <1>9, <1>10, EndedFrames
<1>13. Pairs(stack', dropped')
  BY <1>2, <1>3, <1>4, <1>10, MarkedPairs
<1>14. Plugs(new, last, hooked, dropped)
  BY <1>7 DEF IInv, Plugs, PlugOK
<1>15. Plugs(plug', last', hooked', dropped')
  BY <1>2, <1>7, <1>10, <1>14, EndedPlugs
<1>16. Flags(stack', plug')
  <2>1. \A j \in Slot : new[j].unloader /\ j # p =>
          \E k \in 1..Len(s) : s[k].kind = "detach" /\ s[k].requester = j
    BY <1>5, <1>7
  <2> QED BY <1>2, <1>3, <1>7, <1>10, <2>1, EndedFlags
<1> QED BY <1>11, <1>12, <1>13, <1>15, <1>16 DEF IInv

LEMMA DetachReturnsStep ==
  ASSUME IInv, NEW agrees \in BOOLEAN, DetachReturns(agrees)
  PROVE  IInv'
<1> DEFINE f == stack[Len(stack)]
           i == f.plugin
           p == f.requester
           a == IF p = Nobody THEN plug[i].action ELSE f.old
<1>1. InPlugin /\ f.kind = "detach" /\ UNCHANGED <<last, dropped>>
  BY DEF DetachReturns, Top
<1>2. CASE agrees \/ f.reason = "PNL_CMD_FORCED"
  <2>1. /\ plug' = Ended(Closed(plug, i), p)
        /\ stack' = Marked(Orphaned(Popped(stack), i), p)
        /\ RebuildAfter(Popped(stack), plug', i)
    BY <1>2 DEF DetachReturns, Top
  <2>2. mode \in {"alive", "exited"}
    BY DEF IInv, TypeOK
  <2>3. hooked' = Rebuilt(plug') /\ mode' \in {"alive", "exited"}
    BY <2>1, <2>2 DEF RebuildAfter
  <2> HIDE DEF f
  <2> QED BY <1>1, <2>1, <2>3, DetachAgreedStep DEF f
<1>3. CASE ~(agrees \/ f.reason = "PNL_CMD_FORCED")
  <2>1. /\ plug' = Ended([plug EXCEPT ![i].action = IF p = Nobody THEN @ ELSE f.old], p)
        /\ stack' = Marked(Popped(stack), p)
        /\ UNCHANGED <<hooked, mode>>
    BY <1>3 DEF DetachReturns, Top
  <2>2. plug' = Ended([plug EXCEPT ![i].action = a], p)
    BY <2>1
  <2> QED BY <1>1, <1>3, <2>1, <2>2, DetachRefusedStep
<1> QED BY <1>2, <1>3

\* A plugin whose module is closed is unloaded.
LEMMA UnloadClosedStep ==
  ASSUME IInv, NEW i \in Slot, NEW p \in Slot \cup {Nobody}, UnloadClosed(i, p)
  PROVE  IInv'
<1> DEFINE pi == [plug[i] EXCEPT !.action = "PA_UNLOAD"]
           marked == [plug EXCEPT ![i].action = "PA_UNLOAD"]
           new == Closed(marked, i)
<1>1. /\ ~plug[i].open /\ plug' = Ended(new, p) /\ stack' = Marked(stack, p)
      /\ hooked' = Rebuilt(plug') /\ UNCHANGED <<last, dropped, mode>>
      /\ i <= last /\ last \in Nat
  BY DEF UnloadClosed, Live, IInv, TypeOK
<1>2. /\ stack \in Seq(Frame) /\ Len(stack) <= MaxDepth /\ plug \in [Slot -> Plugin]
  BY DEF IInv, TypeOK, Top
<1>3. /\ pi \in Plugin /\ pi.status = plug[i].status /\ pi.open = plug[i].open
      /\ pi.unloader = plug[i].unloader /\ pi.action = "PA_UNLOAD"
  <2>1. plug[i] \in Plugin
    BY <1>2
  <2> QED BY <2>1 DEF Plugin, Action
<1>4. marked = [plug EXCEPT ![i] = pi]
  OBVIOUS
<1> HIDE DEF pi, marked
<1>5. /\ marked \in [Slot -> Plugin] /\ marked[i] = pi
      /\ \A j \in Slot : j # i => marked[j] = plug[j]
  BY <1>2, <1>3, <1>4
<1>6. \A j \in Slot : /\ marked[j].status = plug[j].status /\ marked[j].open = plug[j].open
                      /\ marked[j].action = plug[j].action \/ marked[j].action = "PA_UNLOAD"
                      /\ plug[j].unloader => marked[j].unloader
                      /\ marked[j].unloader = plug[j].unloader
  BY <1>3, <1>5
<1>7. Frames(stack, marked, last, dropped)
  BY <1>2, <1>5, <1>6, MarkedFrames DEF IInv
<1>8. Plugs(marked, last, hooked, dropped)
  BY <1>6 DEF IInv, Plugs, PlugOK
<1>9. /\ new \in [Slot -> Plugin] /\ ~new[i].open
      /\ \A j \in Slot \ {i} :
           /\ new[j].status = marked[j].status /\ new[j].action = marked[j].action
           /\ new[j].open = marked[j].open /\ new[j].unloader = marked[j].unloader
      /\ new[i].unloader => marked[i].unloader
  BY <1>5, ClosedList DEF EmptySlot
<1>10. Plugs(new, last, Rebuilt(new), dropped)
  <2>1. marked[i].status = PL_RUNNING => Marks(i, marked[i].action, dropped)
    BY <1>3, <1>5 DEF Marks
  <2> QED BY <1>1, <1>5, <1>8, <2>1, ClosedPlugs
<1> HIDE DEF new
<1>11. Frames(stack, new, last, dropped)
  <2>1. ~marked[i].open
    BY <1>1, <1>6
  <2> QED BY <1>2, <1>5, <1>7, <1>9, <2>1, ClosedFrames
<1>12. \A j \in Slot : new[j].unloader /\ j # p =>
         \E k \in 1..Len(stack) : stack[k].kind = "detach" /\ stack[k].requester = j
  BY <1>6, <1>9 DEF IInv, Flags
<1>13. TypeOK'
  <2>1. plug' \in [Slot -> Plugin]
    BY <1>1, <1>9, EndedPlugs
  <2>2. stack' \in Seq(Frame) /\ Len(stack') <= MaxDepth
    BY <1>1, <1>2, MarkedType
  <2> QED BY <1>1, <2>1, <2>2, RebuiltSlots DEF IInv, TypeOK, Top
<1>14. Frames(stack', plug', last', dropped')
  BY <1>1, <1>2, <1>9, <1>11, EndedFrames
<1>15. Pairs(stack', dropped')
  BY <1>1, <1>2, MarkedPairs DEF IInv
<1>16. Plugs(plug', last', hooked', dropped')
  BY <1>1, <1>9, <1>10, EndedPlugs
<1>17. Flags(stack', plug')
  BY <1>1, <1>2, <1>9, <1>12, EndedFlags
<1> QED BY <1>13, <1>14, <1>15, <1>16, <1>17 DEF IInv

LEMMA RequestUnloadClosedStep ==
  ASSUME IInv, NEW i \in Slot, RequestUnloadClosed(i)
  PROVE  IInv'
<1>1. InPlugin /\ UnloadClosed(i, Caller)
  BY DEF RequestUnloadClosed
<1>2. Caller \in Slot
  BY <1>1, Here
<1> QED BY <1>1, <1>2, UnloadClosedStep

LEMMA CmdUnloadClosedStep ==
  ASSUME IInv, NEW i \in Slot, CmdUnloadClosed(i)
  PROVE  IInv'
BY UnloadClosedStep DEF CmdUnloadClosed

\* Plugin i is cleared by the operator.
LEMMA CmdClearStep ==
  ASSUME IInv, NEW i \in Slot, CmdClear(i)
  PROVE  IInv'
<1> DEFINE t == Orphaned(stack, i)
<1>1. /\ plug[i].status \in Clearable /\ plug' = [plug EXCEPT ![i] = EmptySlot]
      /\ stack' = t /\ UNCHANGED <<last, hooked, dropped, mode>>
  BY DEF CmdClear
<1>2. /\ stack \in Seq(Frame) /\ Len(stack) <= MaxDepth /\ plug \in [Slot -> Plugin]
  BY DEF IInv, TypeOK, Top
<1>3. EmptySlot \in Plugin /\ ~EmptySlot.open /\ ~EmptySlot.unloader /\ EmptySlot.status = PL_EMPTY
  BY StatusValues DEF EmptySlot, Plugin, Action
<1>4. /\ plug' \in [Slot -> Plugin] /\ plug'[i] = EmptySlot
      /\ \A j \in Slot : j # i => plug'[j] = plug[j]
  BY <1>1, <1>2, <1>3
<1>5. ~plug'[i].open
  BY <1>3, <1>4
<1>6. Frames(t, plug', last, dropped)
  <2>1. Frames(stack, plug, last, dropped)
    BY DEF IInv
  <2>2. \A j \in Slot \ {i} :
           /\ plug'[j].status = plug[j].status /\ plug'[j].action = plug[j].action
           /\ plug'[j].open = plug[j].open /\ plug'[j].unloader = plug[j].unloader
    BY <1>4
  <2> QED BY <1>2, <1>4, <1>5, <2>1, <2>2, ClosedFrames
<1>7. Pairs(t, dropped)
  BY <1>2, OrphanedPairs DEF IInv
<1>8. t \in Seq(Frame) /\ Len(t) <= MaxDepth
  BY <1>2, OrphanedStack
<1>9. \A j \in Slot : plug'[j].unloader => plug[j].unloader
  BY <1>3, <1>4
<1>10. Flags(t, plug')
  <2>1. \A j \in Slot : (\E k \in 1..Len(stack) : stack[k].kind = "detach" /\ stack[k].requester = j) =>
          \E k \in 1..Len(t) : t[k].kind = "detach" /\ t[k].requester = j
    BY <1>2, OrphanedFlags
  <2> HIDE DEF t
  <2> QED BY <1>9, <2>1 DEF IInv, Flags
<1> HIDE DEF t
<1>11. TypeOK'
  BY <1>1, <1>4, <1>8 DEF IInv, TypeOK, Top
<1>12. Plugs(plug', last', hooked', dropped')
  <2> SUFFICES ASSUME NEW j \in Slot PROVE PlugOK(j, plug', last', hooked', dropped')
    BY DEF Plugs
  <2>1. PlugOK(j, plug, last, hooked, dropped)
    BY DEF IInv, Plugs
  <2>2. CASE j = i
    <3>1. j \notin hooked
      BY <1>1, <2>1, <2>2 DEF PlugOK, Clearable, PL_EMPTY, PL_BADFILE, PL_OPENED, PL_FAILED, PL_RUNNING
    <3> QED BY <1>1, <1>3, <1>4, <2>2, <3>1 DEF PlugOK, PL_EMPTY, PL_RUNNING
  <2>3. CASE j # i
    BY <1>1, <1>4, <2>1, <2>3 DEF PlugOK
  <2> QED BY <2>2, <2>3
<1> QED BY <1>1, <1>6, <1>7, <1>10, <1>11, <1>12 DEF IInv

\* A command stops at one of its checks.
LEMMA CmdRefusedStep ==
  ASSUME IInv, NEW i \in Slot, NEW left \in Action, CmdRefused(i, left)
  PROVE  IInv'
<1> DEFINE pi == [plug[i] EXCEPT !.action = left]
<1>1. /\ plug' = [plug EXCEPT ![i] = pi] /\ left \in {"PA_UNLOAD", "PA_RELOAD", "PA_NONE"}
      /\ dropped' = IF left = "PA_NONE" /\ Detaching(i) THEN dropped \cup {i} ELSE dropped
      /\ UNCHANGED <<last, stack, hooked, mode>>
  BY DEF CmdRefused
<1>2. /\ stack \in Seq(Frame) /\ plug \in [Slot -> Plugin] /\ dropped \subseteq Slot
  BY DEF IInv, TypeOK
<1>3. /\ pi \in Plugin /\ pi.status = plug[i].status /\ pi.open = plug[i].open
      /\ pi.unloader = plug[i].unloader /\ pi.action = left
  <2>1. plug[i] \in Plugin
    BY <1>2
  <2> QED BY <2>1 DEF Plugin
<1> HIDE DEF pi
<1>4. /\ plug' \in [Slot -> Plugin] /\ plug'[i] = pi
      /\ \A j \in Slot : j # i => plug'[j] = plug[j]
  BY <1>1, <1>2, <1>3
<1>5. \A j \in Slot : /\ plug'[j].status = plug[j].status /\ plug'[j].open = plug[j].open
                      /\ plug'[j].unloader = plug[j].unloader
                      /\ j # i => plug'[j].action = plug[j].action
                      /\ j = i => plug'[j].action = left
  BY <1>3, <1>4
<1>6. /\ dropped \subseteq dropped' /\ dropped' \subseteq Slot
      /\ left = "PA_NONE" /\ Detaching(i) => i \in dropped'
  BY <1>1, <1>2
<1>7. TypeOK'
  BY <1>1, <1>4, <1>6 DEF IInv, TypeOK, Top
<1>8. Frames(stack', plug', last', dropped')
  <2> SUFFICES ASSUME NEW k \in 1..Len(stack) PROVE FrameOK(stack[k], plug', last, dropped')
    BY <1>1 DEF Frames
  <2> DEFINE f == stack[k]
  <2>1. f \in Frame /\ FrameOK(f, plug, last, dropped)
    BY <1>2, StackElements DEF IInv, Frames
  <2>2. f.plugin \in Slot /\ f.requester \in Slot \cup {Nobody}
    BY <2>1 DEF Frame
  <2>3. f.kind = "detach" /\ f.plugin = i => left \in {"PA_UNLOAD", "PA_RELOAD"} \/ i \in dropped'
    BY <1>1, <1>6 DEF Detaching, Top
  <2> HIDE DEF f
  <2>4. /\ plug'[f.plugin].status = plug[f.plugin].status /\ plug'[f.plugin].open = plug[f.plugin].open
        /\ f.plugin # i => plug'[f.plugin].action = plug[f.plugin].action
        /\ f.plugin = i => plug'[f.plugin].action = left
    BY <1>5, <2>2
  <2>5. f.requester # Nobody => /\ plug'[f.requester].unloader = plug[f.requester].unloader
                                /\ plug'[f.requester].open = plug[f.requester].open
    BY <1>5, <2>2
  <2>6. FrameOK(f, plug', last, dropped')
    BY <1>6, <2>1, <2>3, <2>4, <2>5 DEF FrameOK, Marks
  <2> QED BY <2>6 DEF f
<1>9. Pairs(stack', dropped')
  BY <1>1, <1>6 DEF IInv, Pairs, PairOK, Marks
<1>10. Plugs(plug', last', hooked', dropped')
  BY <1>1, <1>5, <1>6 DEF IInv, Plugs, PlugOK
<1>11. Flags(stack', plug')
  BY <1>1, <1>5 DEF IInv, Flags
<1> QED BY <1>7, <1>8, <1>9, <1>10, <1>11 DEF IInv

LEMMA StutterIInv == ASSUME IInv, UNCHANGED vars PROVE IInv'
BY DEF vars, IInv, TypeOK, Top

\* IInv is inductive.
THEOREM NextIInv == IInv /\ [Next]_vars => IInv'
<1>1. ASSUME IInv, NEW i \in Slot, NEW kind \in Kind, EnterPlugin(i, kind) PROVE IInv'
  BY <1>1, EnterPluginStep
<1>2. ASSUME IInv, NEW i \in Slot, NEW reason \in Reason, CmdUnload(i, reason) PROVE IInv'
  BY <1>2, CmdUnloadStep
<1>3. ASSUME IInv, NEW agrees \in BOOLEAN, AttachReturns(agrees) \/ DetachReturns(agrees)
      PROVE  IInv'
  BY <1>3, AttachReturnsStep, DetachReturnsStep
<1>4. ASSUME IInv, NEW i \in Slot,
             \/ \E reason \in Reason : UnloadRequest(i, reason)
             \/ \E left \in Action : CmdRefused(i, left)
             \/ RequestRefused(i) \/ RequestUnloadClosed(i) \/ CmdUnloadClosed(i) \/ CmdClear(i)
      PROVE  IInv'
  BY <1>4, UnloadRequestStep, RequestRefusedStep, RequestUnloadClosedStep, CmdUnloadClosedStep,
     CmdClearStep, CmdRefusedStep
<1> QED BY <1>1, <1>2, <1>3, <1>4, LeavePluginStep, LoadRequestStep, CmdLoadStep, QueryFailsStep,
           LoadPutOffStep, QuerySucceedsStep, StutterIInv DEF Next

\* IInv holds for ever.
THEOREM Invariance == Spec => []IInv
BY InitIInv, NextIInv, PTL DEF Spec

----------------------------------------------------------------------------
(* What follows from it.                                                   *)

\* Type correctness.
THEOREM TypeCorrect == Spec => []TypeOK
<1>1. IInv => TypeOK
  BY DEF IInv
<1> QED BY <1>1, Invariance, PTL

\* A raised m_is_unloader has a Meta_Detach under way behind it: no plugin is
\* protected from unload requests for good.
THEOREM FlagMeansRequestHolds == Spec => []FlagMeansRequest
<1>1. IInv => FlagMeansRequest
  BY DEF IInv, Flags, FlagMeansRequest, Top
<1> QED BY <1>1, Invariance, PTL

\* The callbacks reach open modules only, except of a plugin whose pending
\* action was dropped during its Meta_Detach, by a refused command or a refresh.
THEOREM HookedOpenHolds == Spec => []HookedOpen
<1>1. IInv => HookedOpen
  BY DEF IInv, TypeOK, Plugs, PlugOK, HookedOpen
<1> QED BY <1>1, Invariance, PTL

\* A plugin that waits for an unload it asked for is not unloaded on request of
\* another, unless a further request of its own has ended meanwhile.
THEOREM RequesterProtectedHolds == Spec => RequesterProtected
<1> DEFINE Guarded == \A k \in 1..Top :
             stack[k].kind = "detach" /\ stack[k].requester # Nobody /\ ~stack[k].again =>
               ~\E reason \in Reason : UnloadRequest(stack[k].requester, reason)
<1>1. IInv => Guarded
  <2> SUFFICES ASSUME IInv, NEW k \in 1..Top, stack[k].kind = "detach",
                      stack[k].requester # Nobody, ~stack[k].again,
                      NEW i, i = stack[k].requester, NEW reason \in Reason, UnloadRequest(i, reason)
               PROVE  FALSE
    OBVIOUS
  <2>1. FrameOK(stack[k], plug, last, dropped)
    BY DEF IInv, Frames, Top
  <2>2. ~plug[i].unloader /\ plug[i].open
    BY DEF UnloadRequest
  <2> QED BY <2>1, <2>2 DEF FrameOK
<1> QED BY <1>1, Invariance, PTL DEF RequesterProtected

\* The loader of plugin i is as it was.
LEMMA LoaderAsBefore ==
  ASSUME NEW i \in Slot, Dangles(i)', plug'[i].source = plug[i].source,
         plug[i].source \in Slot =>
           (plug'[plug[i].source].status < PL_VALID => plug[plug[i].source].status < PL_VALID),
         plug \in [Slot -> Plugin]
  PROVE  Dangles(i)
<1>1. plug[i].source \in Slot \cup {Nobody, Unloaded}
  BY DEF Plugin
<1>2. plug[i].source > 0 => plug[i].source \in Slot
  BY <1>1 DEF Nobody, Unloaded
<1> QED BY <1>2 DEF Dangles

\* A step that leaves the loaders and takes no entry away.
LEMMA LoadersKept ==
  ASSUME TypeOK, NEW i \in Slot, Dangles(i)',
         \A j \in Slot : /\ plug'[j].source = plug[j].source
                         /\ plug'[j].status < PL_VALID => plug[j].status < PL_VALID
  PROVE  Dangles(i)
BY LoaderAsBefore DEF TypeOK

\* A load: the new entry's loader is in the list.
LEMMA LoadersOfLoad ==
  ASSUME IInv, NEW i \in Slot, NEW requester \in Slot \cup {Nobody},
         requester \in Slot => requester <= last /\ plug[requester].status >= PL_VALID,
         BeginLoad(requester), Dangles(i)'
  PROVE  Dangles(i)
<1> DEFINE n == last + 1
           new == [status |-> PL_VALID, action |-> "PA_LOAD", source |-> requester,
                   unloader |-> FALSE, open |-> TRUE]
<1>1. /\ last < MaxPlugins /\ last \in 0..MaxPlugins /\ plug' = [plug EXCEPT ![n] = new]
      /\ plug \in [Slot -> Plugin]
  BY DEF BeginLoad, IInv, TypeOK
<1>2. n \in Slot /\ n > last
  BY <1>1, StartupAssumption DEF Slot
<1>3. new.status = PL_VALID /\ new.source = requester
  OBVIOUS
<1> HIDE DEF n, new
<1>4. plug'[n] = new /\ \A j \in Slot : j # n => plug'[j] = plug[j]
  BY <1>1, <1>2
<1>5. ~(PL_VALID < PL_VALID)
  BY DEF PL_VALID
<1>6. \A j \in Slot : plug'[j].status < PL_VALID => plug[j].status < PL_VALID
  BY <1>3, <1>4, <1>5
<1>7. CASE i = n
  <2>1. plug'[i].source = requester
    BY <1>3, <1>4, <1>7
  <2>2. requester \in Slot /\ plug'[requester].status < PL_VALID
    BY <2>1 DEF Dangles, Nobody
  <2>3. plug[requester].status < PL_VALID /\ plug[requester].status \in Status
    BY <1>1, <1>6, <2>2 DEF Plugin
  <2> QED BY <2>2, <2>3 DEF Status, PL_VALID, PL_EMPTY, PL_RUNNING
<1>8. CASE i # n
  BY <1>1, <1>4, <1>6, <1>8, LoaderAsBefore
<1> QED BY <1>7, <1>8

\* The close of a module: nothing keeps the index of its plugin.
LEMMA LoadersOfClose ==
  ASSUME NEW list \in [Slot -> Plugin], TypeOK, NEW i \in Slot, NEW c \in Slot,
         NEW p \in Slot \cup {Nobody},
         \A j \in Slot : list[j].source = plug[j].source /\ list[j].status = plug[j].status,
         plug' = Ended(Closed(list, c), p), Dangles(i)'
  PROVE  Dangles(i)
<1> DEFINE new == Closed(list, c)
<1>1. /\ new \in [Slot -> Plugin]
      /\ \A j \in Slot \ {c} : new[j].status = list[j].status
      /\ \A j \in Slot : new[j].source # c
      /\ \A j \in Slot : new[j].source > 0 => new[j].source = list[j].source
  BY ClosedList
<1> HIDE DEF new
<1>2. \A j \in Slot : plug'[j].source = new[j].source /\ plug'[j].status = new[j].status
  <2>1. plug' = Ended(new, p)
    BY DEF new
  <2> QED BY <1>1, <2>1, EndedPlugs
<1>3. plug'[i].source > 0 /\ plug'[plug'[i].source].status < PL_VALID
  BY DEF Dangles
<1>4. plug'[i].source # c /\ plug'[i].source = plug[i].source
  BY <1>1, <1>2, <1>3
<1>5. plug[i].source \in Slot => plug'[plug[i].source].status = plug[plug[i].source].status
  BY <1>1, <1>2, <1>4
<1> QED BY <1>4, <1>5, LoaderAsBefore DEF TypeOK

\* Changes of one plugin that leave its loader, and its entry taken.
LEMMA LoadersOfChange ==
  ASSUME TypeOK, NEW i \in Slot, NEW c \in Slot, NEW q,
         plug' = [plug EXCEPT ![c] = q], q.source = plug[c].source,
         q.status < PL_VALID => plug[c].status < PL_VALID, Dangles(i)'
  PROVE  Dangles(i)
<1>1. plug \in [Slot -> Plugin]
  BY DEF TypeOK
<1>2. \A j \in Slot : /\ plug'[j].source = plug[j].source
                      /\ plug'[j].status < PL_VALID => plug[j].status < PL_VALID
  BY <1>1
<1> QED BY <1>2, LoadersKept


LEMMA LoadersOfCalls ==
  ASSUME IInv, NEW i \in Slot, Dangles(i)',
         \/ LeavePlugin \/ QueryFails \/ LoadPutOff \/ QuerySucceeds
         \/ \E agrees \in BOOLEAN : AttachReturns(agrees)
         \/ \E c \in Slot, kind \in Kind : EnterPlugin(c, kind)
  PROVE  Dangles(i)
<1> DEFINE c == Caller
<1>1. TypeOK /\ plug \in [Slot -> Plugin]
  BY DEF IInv, TypeOK
<1>2. CASE LeavePlugin \/ \E d \in Slot, kind \in Kind : EnterPlugin(d, kind)
  <2>1. plug' = plug
    BY <1>2 DEF LeavePlugin, EnterPlugin
  <2> QED BY <1>1, <2>1, LoadersKept
<1>3. CASE QueryFails \/ LoadPutOff \/ QuerySucceeds \/ \E agrees \in BOOLEAN : AttachReturns(agrees)
  <2>1. InPlugin
    BY <1>3 DEF QueryFails, LoadPutOff, QuerySucceeds, AttachReturns
  <2>2. c \in Slot /\ plug[c] \in Plugin
    BY <2>1, Here
  <2>3. PICK q : plug' = [plug EXCEPT ![c] = q] /\ q.source = plug[c].source /\ ~(q.status < PL_VALID)
    <3> DEFINE p == plug[c]
               q1 == [p EXCEPT !.status = PL_BADFILE, !.open = FALSE]
               q2 == [p EXCEPT !.status = PL_OPENED]
               q3 == [p EXCEPT !.status = PL_RUNNING, !.action = "PA_NONE"]
               q4 == [p EXCEPT !.status = PL_FAILED]
    <3>1. \/ plug' = [plug EXCEPT ![c] = q1] \/ plug' = [plug EXCEPT ![c] = q2]
          \/ plug' = [plug EXCEPT ![c] = q3] \/ plug' = [plug EXCEPT ![c] = q4]
      BY <1>3 DEF QueryFails, LoadPutOff, QuerySucceeds, AttachReturns
    <3> HIDE DEF p, c
    <3>2. /\ q1.source = p.source /\ q1.status = PL_BADFILE
          /\ q2.source = p.source /\ q2.status = PL_OPENED
          /\ q3.source = p.source /\ q3.status = PL_RUNNING
          /\ q4.source = p.source /\ q4.status = PL_FAILED
      <4>1. p \in Plugin
        BY <2>2 DEF p
      <4> QED BY <4>1 DEF Plugin
    <3> HIDE DEF q1, q2, q3, q4
    <3>3. /\ ~(q1.status < PL_VALID) /\ ~(q2.status < PL_VALID)
          /\ ~(q3.status < PL_VALID) /\ ~(q4.status < PL_VALID)
      BY <3>2 DEF PL_VALID, PL_BADFILE, PL_OPENED, PL_RUNNING, PL_FAILED
    <3> QED BY <3>1, <3>2, <3>3 DEF p
  <2> HIDE DEF c
  <2> QED BY <1>1, <2>2, <2>3, LoadersOfChange
<1> QED BY <1>2, <1>3

LEMMA LoadersOfRequests ==
  ASSUME IInv, NEW i \in Slot, NEW c \in Slot, Dangles(i)',
         \/ \E reason \in Reason : UnloadRequest(c, reason) \/ CmdUnload(c, reason)
         \/ RequestRefused(c) \/ \E left \in Action : CmdRefused(c, left)
  PROVE  Dangles(i)
<1>1. TypeOK /\ plug \in [Slot -> Plugin]
  BY DEF IInv, TypeOK
<1>2. \A q \in Plugin : [q EXCEPT !.action = "PA_UNLOAD"] \in Plugin
  BY DEF Plugin, Action
<1>3. SUFFICES \A j \in Slot : plug'[j].source = plug[j].source /\ plug'[j].status = plug[j].status
  BY <1>1, LoadersKept
<1>4. CASE \E reason \in Reason : UnloadRequest(c, reason)
  <2> DEFINE d == Caller
             pc == [plug[c] EXCEPT !.action = "PA_UNLOAD"]
             pd == [plug[d] EXCEPT !.unloader = TRUE]
  <2>1. InPlugin /\ c # d /\ plug' = [plug EXCEPT ![c].action = "PA_UNLOAD", ![d].unloader = TRUE]
    BY <1>4 DEF UnloadRequest
  <2>2. d \in Slot
    BY <2>1, Here
  <2> HIDE DEF d
  <2>3. plug' = [plug EXCEPT ![c] = pc, ![d] = pd]
    BY <1>1, <2>1, <2>2
  <2>4. plug[c] \in Plugin /\ plug[d] \in Plugin
    BY <1>1, <2>2
  <2>5. /\ pc.source = plug[c].source /\ pc.status = plug[c].status
        /\ pd.source = plug[d].source /\ pd.status = plug[d].status
    BY <2>4 DEF Plugin
  <2> HIDE DEF pc, pd
  <2> QED BY <1>1, <2>1, <2>2, <2>3, <2>5
<1>5. CASE RequestRefused(c)
  <2> DEFINE d == Caller
             pd == [plug[d] EXCEPT !.unloader = FALSE]
  <2>1. InPlugin /\ plug' = [plug EXCEPT ![d] = pd]
    BY <1>5 DEF RequestRefused
  <2>2. d \in Slot /\ plug[d] \in Plugin
    BY <2>1, Here
  <2> HIDE DEF d
  <2>3. pd.source = plug[d].source /\ pd.status = plug[d].status
    BY <2>2 DEF Plugin
  <2> HIDE DEF pd
  <2> QED BY <1>1, <2>1, <2>2, <2>3
<1>6. ASSUME NEW a, plug' = [plug EXCEPT ![c].action = a]
      PROVE  \A j \in Slot : plug'[j].source = plug[j].source /\ plug'[j].status = plug[j].status
  <2> DEFINE pc == [plug[c] EXCEPT !.action = a]
  <2>1. plug[c] \in Plugin /\ plug' = [plug EXCEPT ![c] = pc]
    BY <1>1, <1>6
  <2>2. pc.source = plug[c].source /\ pc.status = plug[c].status
    BY <2>1 DEF Plugin
  <2> HIDE DEF pc
  <2> QED BY <1>1, <2>1, <2>2
<1>7. CASE \/ \E left \in Action : CmdRefused(c, left)
           \/ \E reason \in Reason : CmdUnload(c, reason)
  <2>1. \/ \E left \in Action : plug' = [plug EXCEPT ![c].action = left]
        \/ plug' = [plug EXCEPT ![c].action = "PA_UNLOAD"]
    BY <1>7 DEF CmdRefused, CmdUnload
  <2> QED BY <1>6, <2>1
<1> QED BY <1>4, <1>5, <1>7

LEMMA LoadersOfDetach ==
  ASSUME IInv, NEW i \in Slot, NEW agrees \in BOOLEAN, DetachReturns(agrees), Dangles(i)'
  PROVE  Dangles(i)
<1> DEFINE f == stack[Len(stack)]
           c == f.plugin
           p == f.requester
           a == IF p = Nobody THEN plug[c].action ELSE f.old
           list == [plug EXCEPT ![c].action = a]
           pc == [plug[c] EXCEPT !.action = a]
<1>1. TypeOK /\ plug \in [Slot -> Plugin]
  BY DEF IInv, TypeOK
<1>2. f \in Frame
  BY Here DEF DetachReturns
<1>3. c \in Slot /\ p \in Slot \cup {Nobody} /\ f.old \in Action
  BY <1>2 DEF Frame
<1>4. CASE plug' = Ended(Closed(plug, c), p)
  <2> HIDE DEF f
  <2> QED BY <1>1, <1>3, <1>4, LoadersOfClose
<1>5. CASE plug' = Ended(list, p)
  <2>1. plug[c] \in Plugin /\ a \in Action /\ list = [plug EXCEPT ![c] = pc]
    BY <1>1, <1>3 DEF Plugin
  <2> HIDE DEF f, c, a
  <2>2. pc \in Plugin /\ pc.source = plug[c].source /\ pc.status = plug[c].status
    BY <2>1 DEF Plugin
  <2> HIDE DEF list, pc
  <2>3. /\ list \in [Slot -> Plugin]
        /\ \A j \in Slot : list[j].source = plug[j].source /\ list[j].status = plug[j].status
    BY <1>1, <1>3, <2>1, <2>2
  <2>4. \A j \in Slot : plug'[j].source = list[j].source /\ plug'[j].status = list[j].status
    BY <1>3, <1>5, <2>3, EndedPlugs
  <2> QED BY <1>1, <2>3, <2>4, LoadersKept
<1>6. plug' = Ended(Closed(plug, c), p) \/ plug' = Ended(list, p)
  BY DEF DetachReturns, Top
<1> QED BY <1>4, <1>5, <1>6

LEMMA LoadersOfUnloadClosed ==
  ASSUME IInv, NEW i \in Slot, NEW c \in Slot, NEW p \in Slot \cup {Nobody}, UnloadClosed(c, p), Dangles(i)'
  PROVE  Dangles(i)
<1> DEFINE pc == [plug[c] EXCEPT !.action = "PA_UNLOAD"]
           list == [plug EXCEPT ![c].action = "PA_UNLOAD"]
<1>1. TypeOK /\ plug \in [Slot -> Plugin]
  BY DEF IInv, TypeOK
<1>2. plug' = Ended(Closed(list, c), p)
  BY DEF UnloadClosed
<1>3. plug[c] \in Plugin /\ list = [plug EXCEPT ![c] = pc]
  BY <1>1
<1>4. pc \in Plugin /\ pc.source = plug[c].source /\ pc.status = plug[c].status
  BY <1>3 DEF Plugin, Action
<1> HIDE DEF list, pc
<1>5. /\ list \in [Slot -> Plugin]
      /\ \A j \in Slot : list[j].source = plug[j].source /\ list[j].status = plug[j].status
  BY <1>1, <1>3, <1>4
<1> QED BY <1>1, <1>2, <1>5, LoadersOfClose

LEMMA LoadersOfClear ==
  ASSUME IInv, NEW i \in Slot, NEW c \in Slot, CmdClear(c), Dangles(i)'
  PROVE  Dangles(i) \/ CmdClear(plug[i].source)
<1>1. TypeOK /\ plug \in [Slot -> Plugin] /\ plug' = [plug EXCEPT ![c] = EmptySlot]
  BY DEF IInv, TypeOK, CmdClear
<1>2. ~(EmptySlot.source > 0)
  BY DEF EmptySlot, Nobody
<1>3. i # c /\ plug'[i] = plug[i]
  BY <1>1, <1>2 DEF Dangles
<1>4. CASE plug[i].source = c
  BY <1>4
<1>5. CASE plug[i].source # c
  <2>1. plug[i].source \in Slot => plug'[plug[i].source] = plug[plug[i].source]
    BY <1>1, <1>5
  <2> QED BY <1>1, <1>3, <2>1, LoaderAsBefore
<1> QED BY <1>4, <1>5

\* Only "meta clear" takes a loader away from under the plugins it has loaded.
THEOREM LoaderFoundHolds == Spec => LoaderFound
<1> DEFINE Found == \A i \in Slot : Dangles(i)' => Dangles(i) \/ CmdClear(plug[i].source)
<1>1. IInv /\ [Next]_vars => Found
  <2> SUFFICES ASSUME IInv, [Next]_vars, NEW i \in Slot, Dangles(i)'
               PROVE  Dangles(i) \/ CmdClear(plug[i].source)
    OBVIOUS
  <2>1. CASE UNCHANGED vars
    BY <2>1, LoadersKept DEF vars, IInv
  <2>2. CASE LeavePlugin \/ QueryFails \/ LoadPutOff \/ QuerySucceeds
    BY <2>2, LoadersOfCalls
  <2>3. CASE \E agrees \in BOOLEAN : AttachReturns(agrees) \/ DetachReturns(agrees)
    BY <2>3, LoadersOfCalls, LoadersOfDetach
  <2>4. CASE LoadRequest
    BY <2>4, Here, LoadersOfLoad DEF LoadRequest
  <2>5. CASE CmdLoad
    <3>1. Nobody \notin Slot
      BY StartupAssumption DEF Slot, Nobody
    <3> QED BY <2>5, <3>1, LoadersOfLoad DEF CmdLoad
  <2>6. ASSUME NEW c \in Slot, RequestUnloadClosed(c) PROVE Dangles(i)
    <3>1. UnloadClosed(c, Caller) /\ Caller \in Slot
      BY <2>6, Here DEF RequestUnloadClosed
    <3> QED BY <3>1, LoadersOfUnloadClosed
  <2>7. ASSUME NEW c \in Slot, CmdUnloadClosed(c) PROVE Dangles(i)
    BY <2>7, LoadersOfUnloadClosed DEF CmdUnloadClosed
  <2>8. ASSUME NEW c \in Slot, NEW kind \in Kind, EnterPlugin(c, kind) PROVE Dangles(i)
    BY <2>8, LoadersOfCalls
  <2>9. ASSUME NEW c \in Slot,
               \/ \E reason \in Reason : UnloadRequest(c, reason) \/ CmdUnload(c, reason)
               \/ RequestRefused(c) \/ \E left \in Action : CmdRefused(c, left)
        PROVE  Dangles(i)
    BY <2>9, LoadersOfRequests
  <2>10. ASSUME NEW c \in Slot, CmdClear(c) PROVE Dangles(i) \/ CmdClear(plug[i].source)
    BY <2>10, LoadersOfClear
  <2> QED BY <2>1, <2>2, <2>3, <2>4, <2>5, <2>6, <2>7, <2>8, <2>9, <2>10 DEF Next
<1> QED BY <1>1, Invariance, PTL DEF LoaderFound, Spec

----------------------------------------------------------------------------
(* The contract with the plugins.                                          *)

\* What PluginContract sees of the modules, and of a step.
Module == [i \in Slot |-> ModuleState(plug[i])]

ContractStep == UNCHANGED Contract!vars \/ Contract!Next

\* While no action has been dropped, a plugin that runs is attached.
RunsOpen(list) == \A i \in Slot : list[i].status = PL_RUNNING => list[i].open

LEMMA RunningIsOpen ==
  ASSUME IInv, dropped = {}
  PROVE  plug \in [Slot -> Plugin] /\ RunsOpen(plug)
BY DEF IInv, TypeOK, Plugs, PlugOK, RunsOpen

\* The rebuild compiles what is attached.
LEMMA RebuiltIsAttached ==
  ASSUME NEW list \in [Slot -> Plugin], RunsOpen(list)
  PROVE  Rebuilt(list) = {i \in Slot : ModuleState(list[i]) = "attached"}
<1>1. \A i \in Slot : list[i].status >= PL_RUNNING <=> list[i].status = PL_RUNNING
  BY DEF Plugin, Status, PL_EMPTY, PL_RUNNING
<1> QED BY <1>1 DEF RunsOpen, Rebuilt, ModuleState

LEMMA AttachedIsRebuilt ==
  ASSUME plug \in [Slot -> Plugin], RunsOpen(plug)
  PROVE  Contract!Attached = Rebuilt(plug)
BY RebuiltIsAttached DEF Contract!Attached

\* A step that leaves the modules and the callbacks alone is none.
LEMMA NoModule ==
  ASSUME \A i \in Slot : ModuleState(plug'[i]) = ModuleState(plug[i]), UNCHANGED hooked
  PROVE  ContractStep
<1>1. Module' = Module
  BY DEF Module
<1> QED BY <1>1 DEF ContractStep, Contract!vars, Module

\* One module changes.
LEMMA OneModule ==
  ASSUME NEW i \in Slot, NEW state, ModuleState(plug'[i]) = state,
         \A j \in Slot \ {i} : ModuleState(plug'[j]) = ModuleState(plug[j])
  PROVE  Module' = [Module EXCEPT ![i] = state]
BY DEF Module

\* A module is opened, or an open one is attached and the callbacks rebuilt.
LEMMA LoadContract ==
  ASSUME IInv, dropped = {}, NEW i \in Slot, NEW pc \in Plugin, plug' = [plug EXCEPT ![i] = pc],
         ModuleState(plug[i]) # "attached", ModuleState(pc) \in {"open", "attached"},
         hooked' \in {hooked, Rebuilt(plug')}
  PROVE  ContractStep
<1>1. plug \in [Slot -> Plugin] /\ RunsOpen(plug)
  BY RunningIsOpen
<1>2. plug'[i] = pc /\ \A j \in Slot \ {i} : plug'[j] = plug[j]
  BY <1>1
<1>3. RunsOpen(plug') /\ plug' \in [Slot -> Plugin]
  BY <1>1, <1>2 DEF RunsOpen, ModuleState
<1>4. Module' = [Module EXCEPT ![i] = ModuleState(pc)]
  BY <1>2, OneModule
<1>5. Rebuilt(plug') = {j \in Slot : ModuleState(plug'[j]) = "attached"}
  BY <1>3, RebuiltIsAttached
<1>6. Contract!Attached' = Rebuilt(plug')
  BY <1>5 DEF Contract!Attached
<1>7. Contract!Load(i)
  BY <1>4, <1>6 DEF Contract!Load, Contract!Becomes, Module
<1> QED BY <1>7 DEF ContractStep, Contract!Next

\* An open module is closed and the callbacks are rebuilt without it.
LEMMA UnloadContract ==
  ASSUME IInv, dropped = {}, NEW i \in Slot, ModuleState(plug'[i]) = "closed",
         plug' \in [Slot -> Plugin], RunsOpen(plug'),
         \A j \in Slot \ {i} : ModuleState(plug'[j]) = ModuleState(plug[j]),
         hooked' = Rebuilt(plug')
  PROVE  ContractStep
<1>1. plug \in [Slot -> Plugin] /\ RunsOpen(plug)
  BY RunningIsOpen
<1>2. Module' = [Module EXCEPT ![i] = "closed"]
  BY OneModule
<1>3. Contract!Attached = {j \in Slot : ModuleState(plug[j]) = "attached"}
  BY DEF Contract!Attached
<1>4. hooked' = {j \in Slot : ModuleState(plug'[j]) = "attached"}
  BY RebuiltIsAttached
<1>5. hooked' = Contract!Attached \ {i}
  BY <1>3, <1>4
<1>6. CASE ModuleState(plug[i]) = "closed"
  <2>1. Module' = Module
    BY <1>2, <1>6 DEF Module
  <2>2. hooked' = Contract!Attached
    BY <1>3, <1>5, <1>6
  <2> QED BY <2>1, <2>2 DEF ContractStep, Contract!Next, Contract!Rehook, Module
<1>7. CASE ModuleState(plug[i]) # "closed"
  <2>1. Contract!Unload(i)
    BY <1>2, <1>5, <1>7 DEF Contract!Unload, Contract!Becomes, Module
  <2> QED BY <2>1 DEF ContractStep, Contract!Next
<1> QED BY <1>6, <1>7

\* A module that is not attached is closed, if it is open.
LEMMA DiscardContract ==
  ASSUME NEW i \in Slot, plug \in [Slot -> Plugin], NEW pc, plug' = [plug EXCEPT ![i] = pc],
         ModuleState(pc) = "closed", ModuleState(plug[i]) # "attached", UNCHANGED hooked
  PROVE  ContractStep
<1>1. Module' = [Module EXCEPT ![i] = "closed"]
  BY OneModule
<1>2. CASE ModuleState(plug[i]) = "closed"
  BY <1>1, <1>2, NoModule
<1>3. CASE ModuleState(plug[i]) = "open"
  <2>1. Contract!Discard(i)
    BY <1>1, <1>3 DEF Contract!Discard, Contract!Becomes, Module
  <2> QED BY <2>1 DEF ContractStep, Contract!Next
<1> QED BY <1>2, <1>3 DEF ModuleState

\* The list after unload() has closed plugin i, which it does not leave running
\* for it is marked PA_UNLOAD or PA_RELOAD or does not run.
LEMMA ClosedContract ==
  ASSUME IInv, dropped = {}, NEW list \in [Slot -> Plugin], NEW i \in Slot,
         NEW p \in Slot \cup {Nobody},
         \A j \in Slot : list[j].status = plug[j].status /\ list[j].open = plug[j].open,
         list[i].status = PL_RUNNING => list[i].action \in {"PA_UNLOAD", "PA_RELOAD"},
         plug' = Ended(Closed(list, i), p), hooked' = Rebuilt(plug')
  PROVE  ContractStep
<1> DEFINE new == Closed(list, i)
<1>1. /\ new \in [Slot -> Plugin] /\ ~new[i].open
      /\ \/ new[i] = EmptySlot
         \/ new[i].status = PL_VALID
         \/ list[i].action \notin {"PA_UNLOAD", "PA_RELOAD"} /\ new[i].status = list[i].status
      /\ \A j \in Slot \ {i} : new[j].status = list[j].status /\ new[j].open = list[j].open
  BY ClosedList
<1> HIDE DEF new
<1>2. /\ plug' \in [Slot -> Plugin]
      /\ \A j \in Slot : plug'[j].status = new[j].status /\ plug'[j].open = new[j].open
  <2>1. plug' = Ended(new, p)
    BY DEF new
  <2>2. plug' \in [Slot -> Plugin] /\ \A j \in Slot : plug'[j].status = new[j].status
    BY <1>1, <2>1, EndedPlugs
  <2>3. \A j \in Slot : plug'[j].open = new[j].open
    BY <1>1, <2>1 DEF Ended, Plugin
  <2> QED BY <2>2, <2>3
<1>3. plug \in [Slot -> Plugin] /\ RunsOpen(plug)
  BY RunningIsOpen
<1>4. new[i].status # PL_RUNNING
  <2>1. EmptySlot.status # PL_RUNNING /\ PL_VALID # PL_RUNNING
    BY DEF EmptySlot, PL_EMPTY, PL_VALID, PL_RUNNING
  <2> QED BY <1>1, <2>1
<1>5. RunsOpen(plug')
  BY <1>1, <1>2, <1>3, <1>4 DEF RunsOpen
<1>6. ModuleState(plug'[i]) = "closed"
  BY <1>1, <1>2 DEF ModuleState
<1>7. \A j \in Slot \ {i} : ModuleState(plug'[j]) = ModuleState(plug[j])
  BY <1>1, <1>2 DEF ModuleState
<1> QED BY <1>2, <1>5, <1>6, <1>7, UnloadContract

\* A load begins: the module of a new entry is opened.
LEMMA BeginLoadContract ==
  ASSUME IInv, dropped = {}, NEW requester \in Slot \cup {Nobody}, BeginLoad(requester)
  PROVE  ContractStep
<1> DEFINE i == last + 1
           new == [status |-> PL_VALID, action |-> "PA_LOAD", source |-> requester,
                   unloader |-> FALSE, open |-> TRUE]
<1>1. plug' = [plug EXCEPT ![i] = new] /\ UNCHANGED hooked /\ last < MaxPlugins
  BY DEF BeginLoad
<1>2. plug \in [Slot -> Plugin] /\ last \in 0..MaxPlugins
  BY DEF IInv, TypeOK
<1>3. i \in Slot /\ i > last
  BY <1>1, <1>2, StartupAssumption DEF Slot
<1>4. new \in Plugin /\ ModuleState(new) = "open"
  BY DEF Plugin, Status, Action, ModuleState, PL_EMPTY, PL_VALID, PL_RUNNING
<1> HIDE DEF new
<1>5. plug[i].status = PL_EMPTY
  BY <1>3 DEF IInv, Plugs, PlugOK
<1> HIDE DEF i
<1>6. ModuleState(plug[i]) # "attached"
  BY <1>5 DEF ModuleState, PL_EMPTY, PL_RUNNING
<1> QED BY <1>1, <1>3, <1>4, <1>6, LoadContract

\* Meta_Attach returns.
LEMMA AttachContract ==
  ASSUME IInv, dropped = {}, NEW agrees \in BOOLEAN, AttachReturns(agrees)
  PROVE  ContractStep
<1> DEFINE c == Caller
           run == [plug[c] EXCEPT !.status = PL_RUNNING, !.action = "PA_NONE"]
           fail == [plug[c] EXCEPT !.status = PL_FAILED]
<1>1. /\ c \in Slot /\ plug[c] \in Plugin /\ plug[c].open /\ plug \in [Slot -> Plugin]
      /\ plug[c].status = PL_OPENED
  <2>1. InPlugin /\ stack[Len(stack)].kind = "attach"
    BY DEF AttachReturns, Top
  <2> QED BY <2>1, Here DEF FrameOK
<1>2. ModuleState(plug[c]) = "open"
  BY <1>1 DEF ModuleState, PL_OPENED, PL_RUNNING
<1>3. CASE agrees
  <2>1. plug' = [plug EXCEPT ![c] = run] /\ hooked' = Rebuilt(plug')
    BY <1>3 DEF AttachReturns
  <2> HIDE DEF c
  <2>2. run \in Plugin
    <3>1. PL_RUNNING \in Status /\ "PA_NONE" \in Action
      BY DEF Status, Action, PL_EMPTY, PL_RUNNING
    <3> QED BY <1>1, <3>1, Zenon DEF Plugin
  <2>3. run.status = PL_RUNNING /\ run.open = plug[c].open
    BY <1>1 DEF Plugin
  <2>4. ModuleState(run) = "attached"
    BY <1>1, <2>3 DEF ModuleState
  <2> HIDE DEF run
  <2> QED BY <1>1, <1>2, <2>1, <2>2, <2>4, LoadContract
<1>4. CASE ~agrees
  <2>1. plug' = [plug EXCEPT ![c] = fail] /\ UNCHANGED hooked
    BY <1>4 DEF AttachReturns
  <2> HIDE DEF c
  <2>2. ModuleState(fail) = "open"
    BY <1>1 DEF Plugin, ModuleState, PL_FAILED, PL_RUNNING
  <2> HIDE DEF fail
  <2> QED BY <1>1, <1>2, <2>1, <2>2, NoModule
<1> QED BY <1>3, <1>4

\* The query returns.
LEMMA QueryContract ==
  ASSUME IInv, QueryFails \/ LoadPutOff \/ QuerySucceeds
  PROVE  ContractStep
<1> DEFINE c == Caller
           bad == [plug[c] EXCEPT !.status = PL_BADFILE, !.open = FALSE]
           opened == [plug[c] EXCEPT !.status = PL_OPENED]
<1>1. /\ c \in Slot /\ plug[c] \in Plugin /\ plug[c].open /\ plug \in [Slot -> Plugin]
      /\ plug[c].status = PL_VALID
  <2>1. InPlugin /\ stack[Len(stack)].kind = "query"
    BY DEF QueryFails, LoadPutOff, QuerySucceeds, Top
  <2> QED BY <2>1, Here DEF FrameOK
<1>2. ModuleState(plug[c]) = "open"
  BY <1>1 DEF ModuleState, PL_VALID, PL_RUNNING
<1>3. UNCHANGED hooked
  BY DEF QueryFails, LoadPutOff, QuerySucceeds
<1>4. CASE QueryFails
  <2>1. plug' = [plug EXCEPT ![c] = bad]
    BY <1>1, <1>4 DEF QueryFails
  <2> HIDE DEF c
  <2>2. ModuleState(bad) = "closed"
    BY <1>1 DEF Plugin, ModuleState
  <2> HIDE DEF bad
  <2> QED BY <1>1, <1>2, <1>3, <2>1, <2>2, DiscardContract
<1>5. CASE LoadPutOff \/ QuerySucceeds
  <2>1. plug' = [plug EXCEPT ![c] = opened]
    BY <1>1, <1>5 DEF LoadPutOff, QuerySucceeds
  <2> HIDE DEF c
  <2>2. ModuleState(opened) = "open"
    BY <1>1 DEF Plugin, ModuleState, PL_OPENED, PL_RUNNING
  <2> HIDE DEF opened
  <2> QED BY <1>1, <1>2, <1>3, <2>1, <2>2, NoModule
<1> QED BY <1>4, <1>5

\* Meta_Detach returns: a plugin that runs is still marked PA_UNLOAD or PA_RELOAD.
LEMMA DetachContract ==
  ASSUME IInv, dropped = {}, NEW agrees \in BOOLEAN, DetachReturns(agrees)
  PROVE  ContractStep
<1> DEFINE f == stack[Len(stack)]
           c == f.plugin
           p == f.requester
           a == IF p = Nobody THEN plug[c].action ELSE f.old
           list == [plug EXCEPT ![c].action = a]
<1>1. InPlugin /\ f.kind = "detach"
  BY DEF DetachReturns, Top
<1>2. f \in Frame /\ FrameOK(f, plug, last, dropped) /\ ~f.gone /\ plug \in [Slot -> Plugin]
  BY <1>1, Here
<1>3. c \in Slot /\ p \in Slot \cup {Nobody}
  BY <1>2 DEF Frame
<1>4. plug[c].status = PL_RUNNING => plug[c].action \in {"PA_UNLOAD", "PA_RELOAD"}
  BY <1>1, <1>2 DEF FrameOK, Marks
<1>5. \/ plug' = Ended(Closed(plug, c), p) /\ hooked' = Rebuilt(plug')
      \/ plug' = Ended(list, p) /\ hooked' = hooked
  BY DEF DetachReturns, Top, RebuildAfter
<1> HIDE DEF f, a
<1>6. CASE plug' = Ended(Closed(plug, c), p) /\ hooked' = Rebuilt(plug')
  BY <1>2, <1>3, <1>4, <1>6, ClosedContract
<1>7. CASE plug' = Ended(list, p) /\ hooked' = hooked
  <2>1. \A j \in Slot : plug'[j].status = plug[j].status /\ plug'[j].open = plug[j].open
    BY <1>2, <1>3, <1>7 DEF Ended, Plugin
  <2> QED BY <1>7, <2>1, NoModule DEF ModuleState
<1> QED BY <1>5, <1>6, <1>7

\* The calls that only mark plugins.
LEMMA MarkContract ==
  ASSUME IInv, NEW i \in Slot,
         \/ \E reason \in Reason : UnloadRequest(i, reason) \/ CmdUnload(i, reason)
         \/ RequestRefused(i) \/ \E left \in Action : CmdRefused(i, left)
  PROVE  ContractStep
<1>1. plug \in [Slot -> Plugin] /\ UNCHANGED hooked
  BY DEF IInv, TypeOK, UnloadRequest, RequestRefused, CmdRefused, CmdUnload
<1>2. \A j \in Slot : plug'[j].status = plug[j].status /\ plug'[j].open = plug[j].open
  BY <1>1 DEF UnloadRequest, RequestRefused, CmdRefused, CmdUnload, Plugin
<1> QED BY <1>1, <1>2, NoModule DEF ModuleState

\* An unload that finds the module closed.
LEMMA UnloadClosedContract ==
  ASSUME IInv, dropped = {}, NEW i \in Slot, NEW p \in Slot \cup {Nobody}, UnloadClosed(i, p)
  PROVE  ContractStep
<1> DEFINE list == [plug EXCEPT ![i].action = "PA_UNLOAD"]
           pc == [plug[i] EXCEPT !.action = "PA_UNLOAD"]
<1>1. plug \in [Slot -> Plugin]
  BY DEF IInv, TypeOK
<1>2. plug' = Ended(Closed(list, i), p) /\ hooked' = Rebuilt(plug')
  BY DEF UnloadClosed
<1>3. /\ pc \in Plugin /\ pc.status = plug[i].status /\ pc.open = plug[i].open
      /\ pc.action = "PA_UNLOAD"
  <2>1. plug[i] \in Plugin
    BY <1>1
  <2> QED BY <2>1 DEF Plugin, Action
<1>4. list = [plug EXCEPT ![i] = pc]
  BY <1>1
<1> HIDE DEF list, pc
<1>5. /\ list \in [Slot -> Plugin] /\ list[i].action = "PA_UNLOAD"
      /\ \A j \in Slot : list[j].status = plug[j].status /\ list[j].open = plug[j].open
  BY <1>1, <1>3, <1>4
<1> QED BY <1>2, <1>5, ClosedContract

\* "meta clear" closes a module that is not attached, and rebuilds nothing.
LEMMA ClearContract ==
  ASSUME IInv, NEW i \in Slot, CmdClear(i)
  PROVE  ContractStep
<1>1. plug \in [Slot -> Plugin] /\ plug' = [plug EXCEPT ![i] = EmptySlot] /\ UNCHANGED hooked
  BY DEF IInv, TypeOK, CmdClear
<1>2. ModuleState(EmptySlot) = "closed"
  BY DEF EmptySlot, ModuleState
<1>3. ModuleState(plug[i]) # "attached"
  BY DEF CmdClear, ModuleState, Clearable, PL_EMPTY, PL_BADFILE, PL_OPENED, PL_FAILED, PL_RUNNING
<1> QED BY <1>1, <1>2, <1>3, DiscardContract

\* Loads and unloads that are taken apart at the calls into the plugins, and
\* within which others begin and end, still keep the contract: the return of
\* Meta_Attach is the load, the return of Meta_Detach the unload.
THEOREM NestedContractHolds == Spec => NestedContractKept
<1>1. IInv /\ [Next]_vars => (dropped' = {} => ContractStep)
  <2> SUFFICES ASSUME IInv, [Next]_vars, dropped' = {} PROVE ContractStep
    OBVIOUS
  <2>0. dropped = {}
    BY DEF vars, Next, EnterPlugin, UnloadRequest, RequestRefused, CmdUnload,
           RequestUnloadClosed, CmdUnloadClosed, UnloadClosed, CmdClear, CmdRefused,
           LeavePlugin, LoadRequest, CmdLoad, BeginLoad, QueryFails, LoadPutOff,
           QuerySucceeds, AttachReturns, DetachReturns
  <2>1. CASE UNCHANGED vars
    BY <2>1, NoModule DEF vars
  <2>2. CASE LeavePlugin
    BY <2>2, NoModule DEF LeavePlugin
  <2>3. CASE QueryFails \/ LoadPutOff \/ QuerySucceeds
    BY <2>3, QueryContract
  <2>4. ASSUME NEW agrees \in BOOLEAN, AttachReturns(agrees) \/ DetachReturns(agrees)
        PROVE  ContractStep
    BY <2>0, <2>4, AttachContract, DetachContract
  <2>5. CASE LoadRequest
    BY <2>0, <2>5, Here, BeginLoadContract DEF LoadRequest
  <2>6. CASE CmdLoad
    BY <2>0, <2>6, BeginLoadContract DEF CmdLoad
  <2>7. ASSUME NEW i \in Slot, RequestUnloadClosed(i) PROVE ContractStep
    <3>1. UnloadClosed(i, Caller) /\ Caller \in Slot
      BY <2>7, Here DEF RequestUnloadClosed
    <3> QED BY <2>0, <3>1, UnloadClosedContract
  <2>8. ASSUME NEW i \in Slot, CmdUnloadClosed(i) PROVE ContractStep
    BY <2>0, <2>8, UnloadClosedContract DEF CmdUnloadClosed
  <2>9. ASSUME NEW i \in Slot, NEW kind \in Kind, EnterPlugin(i, kind) PROVE ContractStep
    BY <2>9, NoModule DEF EnterPlugin
  <2>10. ASSUME NEW i \in Slot,
                \/ \E reason \in Reason : UnloadRequest(i, reason) \/ CmdUnload(i, reason)
                \/ RequestRefused(i) \/ \E left \in Action : CmdRefused(i, left)
         PROVE  ContractStep
    BY <2>10, MarkContract
  <2>11. ASSUME NEW i \in Slot, CmdClear(i) PROVE ContractStep
    BY <2>11, ClearContract
  <2> QED BY <2>1, <2>2, <2>3, <2>4, <2>5, <2>6, <2>7, <2>8, <2>9, <2>10, <2>11 DEF Next
<1> QED BY <1>1, Invariance, PTL DEF NestedContractKept, Spec, ContractStep
=============================================================================
