------------------------- MODULE CallbackMemoryProofs -------------------------
(***************************************************************************)
(* Theorems about CallbackMemory, for any functions, plugins, tables and   *)
(* pages of any size: where code lies, when a callback runs over the end   *)
(* of its page, whom the tables lead to, where waiting callbacks return,   *)
(* and for which of them a rebuild ends the server.                        *)
(***************************************************************************)
EXTENDS CallbackMemory, FiniteSetTheorems, TLAPS

----------------------------------------------------------------------------
(* Sizes.                                                                  *)

\* The units a callback takes.
Width(c) == 1 + Cardinality(c.calls)

\* A callback has finitely many calls.
LEMMA SizeBounds ==
  ASSUME NEW f \in Fn, NEW S \in SUBSET Plugin
  PROVE  Calls(f, S) \in SUBSET Position /\ Size(f, S) \in Nat \ {0}
<1>1. IsFiniteSet(Position)
  BY FS_Interval, PluginsAssumption DEF Position
<1>2. Calls(f, S) \subseteq Position
  BY DEF Calls
<1>3. Cardinality(Calls(f, S)) \in Nat
  BY <1>1, <1>2, FS_Subset, FS_CardinalityType
<1> QED BY <1>2, <1>3 DEF Size

\* The calls of a callback up to one of them are at least one and at most
\* all, and more for a later call.
LEMMA CountBounds ==
  ASSUME NEW C \in SUBSET Position, NEW k \in C
  PROVE  /\ Cardinality({j \in C : j <= k}) \in 1..Cardinality(C)
         /\ Cardinality(C) \in Nat
         /\ \A l \in C : k < l => Cardinality({j \in C : j <= k}) < Cardinality({j \in C : j <= l})
<1> DEFINE Upto(l) == {j \in C : j <= l}
<1>0. IsFiniteSet(C)
  <2>1. IsFiniteSet(Position)
    BY FS_Interval, PluginsAssumption DEF Position
  <2> QED BY <2>1, FS_Subset
<1>i. \A l \in C : l \in Int
  BY PluginsAssumption DEF Position
<1>1. \A l \in C : IsFiniteSet(Upto(l)) /\ Cardinality(Upto(l)) \in Nat
  <2> TAKE l \in C
  <2>1. Upto(l) \in SUBSET C
    OBVIOUS
  <2> QED BY <1>0, <2>1, FS_Subset, FS_CardinalityType
<1>2. k \in Upto(k)
  BY PluginsAssumption DEF Position
<1>3. Cardinality(Upto(k)) # 0
  BY <1>1, <1>2, FS_EmptySet
<1>4. Cardinality(Upto(k)) <= Cardinality(C) /\ Cardinality(C) \in Nat
  BY <1>0, FS_Subset, FS_CardinalityType
<1>5. ASSUME NEW l \in C, k < l PROVE Cardinality(Upto(k)) < Cardinality(Upto(l))
  <2>0. ~(l <= k) /\ l <= l /\ \A j \in C : j <= k => j <= l
    <3> HIDE DEF Upto
    <3> QED BY <1>i, <1>5
  <2>1. Upto(k) \subseteq Upto(l) /\ l \in Upto(l) /\ l \notin Upto(k)
    BY <2>0
  <2>2. IsFiniteSet(Upto(l)) /\ Cardinality(Upto(k)) \in Nat /\ Cardinality(Upto(l)) \in Nat
    BY <1>1
  <2> HIDE DEF Upto
  <2>3. Upto(k) \in SUBSET Upto(l) /\ Upto(k) # Upto(l)
    BY <2>1
  <2>4. Cardinality(Upto(k)) <= Cardinality(Upto(l)) /\ Cardinality(Upto(l)) # Cardinality(Upto(k))
    BY <2>2, <2>3, FS_Subset
  <2> QED BY <2>2, <2>4
<1> QED BY <1>1, <1>3, <1>4, <1>5

----------------------------------------------------------------------------
(* The allocators.                                                         *)

\* n units at an address of a page lie in what allocator al has handed out.
Lies(al, a, n) ==
  /\ a.page \in Held(al) /\ a.at + n <= PageSize
  /\ al.pages # <<>> /\ a.page = al.pages[Len(al.pages)] => a.at + n <= al.used

\* m units at a and n units at b have none in common.
Apart(a, m, b, n) == a.page # b.page \/ a.at + m <= b.at \/ b.at + n <= a.at

LEMMA ApartUnits ==
  ASSUME NEW a, NEW b, NEW m \in Nat, NEW n \in Nat, a.at \in Nat, b.at \in Nat, Apart(a, m, b, n)
  PROVE  Units(a.page, a.at, m) \cap Units(b.page, b.at, n) = {}
BY DEF Apart, Units

\* allocate(): the units are the allocator's, apart from all that it handed
\* out before, and what lay in its pages still does.
LEMMA Allocation ==
  ASSUME NEW al \in Allocator, al \in {callbacks, tramps}, NEW n \in 1..PageSize,
         NEW page \in PageFor(al, n)
  PROVE  LET a  == AddressFor(al, n, page)
             bl == Allocated(al, n, page)
         IN /\ bl \in Allocator /\ a \in Address
            /\ Held(bl) = Held(al) \cup {page}
            /\ page \notin Held(al) => page \notin Held(callbacks) \cup Held(tramps)
            /\ Lies(bl, a, n)
            /\ \A b : \A m \in Nat :
              b.at \in Nat /\ Lies(al, b, m) => Lies(bl, b, m) /\ Apart(b, m, a, n)
<1> DEFINE a  == AddressFor(al, n, page)
           bl == Allocated(al, n, page)
<1>0. al.pages \in Seq(Page) /\ al.used \in 0..PageSize /\ PageSize \in Nat
  BY SizesAssumption DEF Allocator
<1>1. CASE Fits(al, n)
  <2>1. page = al.pages[Len(al.pages)] /\ al.pages # <<>> /\ al.used + n <= PageSize
    BY <1>1 DEF PageFor, Fits
  <2>2. page \in Page /\ page \in Held(al)
    BY <1>0, <2>1 DEF Held
  <2>3. bl = [al EXCEPT !.used = @ + n] /\ a = [page |-> page, at |-> al.used]
    BY <1>1 DEF Allocated, AddressFor
  <2>4. bl \in Allocator /\ a \in Address /\ bl.pages = al.pages /\ bl.used = al.used + n
    BY <1>0, <2>1, <2>2, <2>3 DEF Allocator, Address
  <2>5. Held(bl) = Held(al)
    BY <2>4 DEF Held
  <2>6. Lies(bl, a, n)
    BY <1>0, <2>1, <2>2, <2>3, <2>4, <2>5 DEF Lies
  <2>7. ASSUME NEW b, NEW m \in Nat, b.at \in Nat, Lies(al, b, m)
        PROVE  Lies(bl, b, m) /\ Apart(b, m, a, n)
    BY <1>0, <2>1, <2>3, <2>4, <2>5, <2>7 DEF Lies, Apart
  <2> QED BY <2>2, <2>4, <2>5, <2>6, <2>7
<1>2. CASE ~Fits(al, n)
  <2>1. page \in Page \ (Held(callbacks) \cup Held(tramps)) /\ page \notin Held(al)
    BY <1>2 DEF PageFor
  <2>2. bl = [pages |-> Append(al.pages, page), used |-> n] /\ a = [page |-> page, at |-> 0]
    BY <1>2 DEF Allocated, AddressFor
  <2>3. bl \in Allocator /\ a \in Address
    BY <1>0, <2>1, <2>2 DEF Allocator, Address
  <2>4. /\ bl.pages = Append(al.pages, page) /\ bl.used = n
        /\ a.page = page /\ a.at = 0
    BY <2>2
  <2> HIDE DEF a, bl
  <2>5. Held(bl) = Held(al) \cup {page} /\ bl.pages[Len(bl.pages)] = page
    <3> DEFINE s == al.pages
    <3>1. s \in Seq(Page) /\ page \in Page
      BY <1>0, <2>1
    <3> HIDE DEF s
    <3>2. /\ DOMAIN Append(s, page) = 1..(Len(s) + 1) /\ Len(s) \in Nat /\ DOMAIN s = 1..Len(s)
          /\ Len(Append(s, page)) = Len(s) + 1 /\ Append(s, page)[Len(s) + 1] = page
          /\ \A k \in 1..Len(s) : Append(s, page)[k] = s[k]
      BY <3>1
    <3>3. {Append(s, page)[k] : k \in DOMAIN Append(s, page)} = {s[k] : k \in DOMAIN s} \cup {page}
      BY <3>2
    <3> QED BY <2>4, <3>2, <3>3 DEF Held, s
  <2>6. Lies(bl, a, n)
    BY <1>0, <2>4, <2>5 DEF Lies
  <2>7. ASSUME NEW b, NEW m \in Nat, b.at \in Nat, Lies(al, b, m)
        PROVE  Lies(bl, b, m) /\ Apart(b, m, a, n)
    <3>1. b.page # page
      BY <2>1, <2>7 DEF Lies
    <3> QED BY <2>4, <2>5, <2>7, <3>1 DEF Lies, Apart
  <2> QED BY <2>1, <2>3, <2>5, <2>6, <2>7 DEF a, bl
<1> QED BY <1>1, <1>2

----------------------------------------------------------------------------
(* The invariant.                                                          *)

\* The callbacks lie in the pages of their allocator and the trampolines in
\* those of theirs, all of them apart.
Layout ==
  /\ \A c \in memory : Lies(callbacks, c, Width(c))
  /\ \A c, d \in memory : c # d => Apart(c, Width(c), d, Width(d))
  /\ \A k \in DOMAIN given : Lies(tramps, given[k], TrampSize)
  /\ \A k, l \in DOMAIN given : k # l => Apart(given[k], TrampSize, given[l], TrampSize)
  /\ Held(callbacks) \cap Held(tramps) = {}

\* The first map knows the calls of the callbacks there are, no others, and
\* the second one is part of its inverse.
Maps ==
  /\ \A e \in toHandler : \E c \in memory : e \in Sites(c)
  /\ \A c \in memory : Sites(c) \subseteq toHandler
  /\ \A e \in toRetaddr : <<e[2], e[1]>> \in toHandler

\* Among callbacks C there is one for f at a, compiled for plugins S.
Leads(f, a, C, S) ==
  \E c \in C : c.page = a.page /\ c.at = a.at /\ c.fn = f /\ c.calls = Calls(f, S)

Served(f) ==
  \/ /\ table[f] = ToOriginal
     /\ \/ f \in Uncompilable \cup (Variadic \ Formatted)
        \/ f \in Formatted /\ VaFull(f)
        \/ f \in Originals /\ Calls(f, built) = {}
  \/ \E a \in Address : table[f] = ToCode(a) /\ Leads(f, a, memory, built)
  \/ \E i \in DOMAIN va :
       /\ table[f] = ToVa(i) /\ va[i].fn = f
       /\ va[i].callback \in Address /\ Leads(f, va[i].callback, memory, built)

\* The functions compiled so far serve their callers.
Entries ==
  /\ next # 0 => attached = built
  /\ \A f \in Fn : next = 0 \/ f < next => Served(f)

\* The callback that waits for a handler returns to a.
Returns(slot, a) ==
  \E c \in memory : c.fn = slot[1] /\ slot[2] \in c.calls /\ ReturnAddress(c, slot[2]) = a

\* In between, what meta_collect_fix_data found is what was waited for.
Frames ==
  /\ mode = "alive" /\ next = 0 =>
       \A k \in DOMAIN waiting : Returns(waiting[k].slot, waiting[k].ret)
  /\ next # 0 =>
       /\ Len(fixdata) = Len(waiting)
       /\ \A k \in DOMAIN waiting : fixdata[k] = waiting[k].slot

IInv == TypeOK /\ Layout /\ Maps /\ Entries /\ Frames

----------------------------------------------------------------------------
(* Return addresses.                                                       *)

\* A callback and the addresses behind its calls.
LEMMA Behind ==
  ASSUME NEW c \in Code, NEW k \in c.calls
  PROVE  /\ ReturnAddress(c, k).page = c.page
         /\ ReturnAddress(c, k).at \in (c.at + 1)..(c.at + Width(c) - 1)
         /\ Width(c) \in Nat \ {0} /\ c.at \in Nat
         /\ \A l \in c.calls : ReturnAddress(c, k) = ReturnAddress(c, l) => k = l
<1>1. c.calls \in SUBSET Position /\ c.at \in 0..PageSize
  BY DEF Code
<1> DEFINE n(l) == Cardinality({j \in c.calls : j <= l})
<1>2. /\ n(k) \in 1..Cardinality(c.calls)
      /\ Cardinality(c.calls) \in Nat
  BY <1>1, CountBounds
<1>3. /\ ReturnAddress(c, k).page = c.page
      /\ \A l \in c.calls : ReturnAddress(c, l).at = c.at + n(l)
  BY DEF ReturnAddress
<1>4. \A l \in c.calls : n(l) \in Nat /\ l \in Int
  BY <1>1, CountBounds, PluginsAssumption DEF Position
<1> HIDE DEF n
<1>5. ASSUME NEW l \in c.calls, ReturnAddress(c, k) = ReturnAddress(c, l) PROVE k = l
  <2>1. n(k) = n(l)
    BY <1>1, <1>3, <1>4, <1>5, SizesAssumption
  <2>2. (k < l => n(k) < n(l)) /\ (l < k => n(l) < n(k))
    BY <1>1, CountBounds DEF n
  <2> QED BY <1>4, <2>1, <2>2
<1> QED BY <1>1, <1>2, <1>3, <1>5, SizesAssumption DEF Width

\* The return addresses of callbacks that lie apart are different.
LEMMA SitesApart ==
  ASSUME NEW c \in Code, NEW d \in Code, Apart(c, Width(c), d, Width(d)),
         NEW s \in Sites(c), NEW t \in Sites(d)
  PROVE  s[1] # t[1]
<1>1. PICK k \in c.calls : s = <<ReturnAddress(c, k), <<c.fn, k>>>>
  BY DEF Sites
<1>2. PICK l \in d.calls : t = <<ReturnAddress(d, l), <<d.fn, l>>>>
  BY DEF Sites
<1>3. /\ ReturnAddress(c, k).page = c.page
      /\ ReturnAddress(c, k).at \in (c.at + 1)..(c.at + Width(c) - 1)
      /\ Width(c) \in Nat /\ c.at \in Nat
  BY Behind
<1>4. /\ ReturnAddress(d, l).page = d.page
      /\ ReturnAddress(d, l).at \in (d.at + 1)..(d.at + Width(d) - 1)
      /\ Width(d) \in Nat /\ d.at \in Nat
  BY Behind
<1>5. ReturnAddress(c, k) # ReturnAddress(d, l)
  BY <1>3, <1>4 DEF Apart
<1> QED BY <1>1, <1>2, <1>5

\* The sites of a callback that fits its page are addresses and slots.
LEMMA SiteTypes ==
  ASSUME NEW c \in Code, c.at + Width(c) <= PageSize
  PROVE  Sites(c) \subseteq Address \X Slot
<1> SUFFICES ASSUME NEW k \in c.calls
             PROVE  ReturnAddress(c, k) \in Address /\ <<c.fn, k>> \in Slot
  BY DEF Sites
<1>1. c.fn \in Fn /\ c.page \in Page /\ k \in Position
  BY DEF Code
<1>2. /\ ReturnAddress(c, k).at \in (c.at + 1)..(c.at + Width(c) - 1)
      /\ Width(c) \in Nat /\ c.at \in Nat
  BY Behind
<1>3. ReturnAddress(c, k).at \in 0..PageSize
  BY <1>2, SizesAssumption
<1>4. ReturnAddress(c, k) = [page |-> c.page, at |-> ReturnAddress(c, k).at]
  BY DEF ReturnAddress
<1> QED BY <1>1, <1>3, <1>4 DEF Address, Slot

\* A return address stands for one slot only.
LEMMA OneSlot ==
  ASSUME TypeOK, Layout, Maps, NEW a, NEW s, NEW t,
         <<a, s>> \in toHandler, <<a, t>> \in toHandler
  PROVE  s = t
<1>1. PICK c \in memory : <<a, s>> \in Sites(c)
  BY DEF Maps
<1>2. PICK d \in memory : <<a, t>> \in Sites(d)
  BY DEF Maps
<1>3. c \in Code /\ d \in Code
  BY DEF TypeOK
<1>4. c = d
  <2> SUFFICES ASSUME c # d PROVE FALSE
    OBVIOUS
  <2>1. Apart(c, Width(c), d, Width(d))
    BY DEF Layout
  <2>2. <<a, s>>[1] # <<a, t>>[1]
    BY <1>1, <1>2, <1>3, <2>1, SitesApart
  <2> QED BY <2>2
<1>5. PICK k \in c.calls : a = ReturnAddress(c, k) /\ s = <<c.fn, k>>
  BY <1>1 DEF Sites
<1>6. PICK l \in c.calls : a = ReturnAddress(c, l) /\ t = <<c.fn, l>>
  BY <1>2, <1>4 DEF Sites
<1>7. k = l
  BY <1>3, <1>5, <1>6, Behind
<1> QED BY <1>5, <1>6, <1>7

\* A slot and a return address in the first map belong to a callback.
LEMMA SiteReturns ==
  ASSUME Maps, NEW a, NEW slot, <<a, slot>> \in toHandler
  PROVE  Returns(slot, a)
<1>1. PICK c \in memory : <<a, slot>> \in Sites(c)
  BY DEF Maps
<1>2. PICK k \in c.calls : a = ReturnAddress(c, k) /\ slot = <<c.fn, k>>
  BY <1>1 DEF Sites
<1>3. slot[1] = c.fn /\ slot[2] = k
  BY <1>2
<1> QED BY <1>2, <1>3 DEF Returns

\* ... and the other way round.
LEMMA ReturnsSite ==
  ASSUME Maps, NEW a, NEW slot \in Slot, Returns(slot, a)
  PROVE  <<a, slot>> \in toHandler
<1>1. PICK c \in memory :
        c.fn = slot[1] /\ slot[2] \in c.calls /\ ReturnAddress(c, slot[2]) = a
  BY DEF Returns
<1>2. slot = <<c.fn, slot[2]>>
  BY <1>1 DEF Slot
<1>3. <<a, slot>> \in Sites(c)
  BY <1>1, <1>2 DEF Sites
<1> QED BY <1>3 DEF Maps

----------------------------------------------------------------------------
(* The parts of a compilation.                                             *)

LEMMA WidthType ==
  ASSUME NEW c \in Code
  PROVE  Width(c) \in Nat \ {0} /\ c.at \in Nat
<1>1. c.calls \in SUBSET Position /\ c.at \in 0..PageSize
  BY DEF Code
<1>2. IsFiniteSet(Position)
  BY FS_Interval, PluginsAssumption DEF Position
<1>3. Cardinality(c.calls) \in Nat
  BY <1>1, <1>2, FS_Subset, FS_CardinalityType
<1> QED BY <1>1, <1>3, SizesAssumption DEF Width

\* compile_fixed_callback: the new callback is put beside the others, and the
\* maps learn its calls and lose nothing.
LEMMA WriteCodeStep ==
  ASSUME TypeOK, Layout, Maps, NEW f \in Fn, NEW page \in PageFor(callbacks, Size(f, attached)),
         EndsInPage(f, AddressFor(callbacks, Size(f, attached), page)),
         WriteCode(f, AddressFor(callbacks, Size(f, attached), page)), UNCHANGED <<tramps, given>>
  PROVE  LET a == AddressFor(callbacks, Size(f, attached), page)
             c == [fn |-> f, page |-> a.page, at |-> a.at, calls |-> Calls(f, attached)]
         IN /\ a \in Address /\ memory' = memory \cup {c}
            /\ callbacks' \in Allocator /\ memory' \subseteq Code
            /\ toHandler' \subseteq Address \X Slot /\ toRetaddr' \subseteq Slot \X Address
            /\ Layout' /\ Maps'
<1> DEFINE n == Size(f, attached)
           a == AddressFor(callbacks, n, page)
           c == [fn |-> f, page |-> a.page, at |-> a.at, calls |-> Calls(f, attached)]
<1>1. Calls(f, attached) \in SUBSET Position /\ n \in 1..PageSize
  <2>1. Calls(f, attached) \in SUBSET Position /\ n \in Nat \ {0}
    BY SizeBounds DEF TypeOK
  <2>2. callbacks.used \in 0..PageSize
    BY DEF TypeOK, Allocator
  <2>3. a.at \in Nat /\ a.at + n <= PageSize
    BY <2>2, SizesAssumption DEF AddressFor, EndsInPage
  <2> QED BY <2>1, <2>3, SizesAssumption
<1>2. /\ callbacks \in Allocator /\ memory \subseteq Code
      /\ toHandler \subseteq Address \X Slot /\ toRetaddr \subseteq Slot \X Address
  BY DEF TypeOK
<1>3. /\ callbacks' = Allocated(callbacks, n, a.page) /\ memory' = memory \cup {c}
      /\ toHandler' = HandlersWith(c) /\ toRetaddr' = RetaddrsWith(c)
  BY DEF WriteCode
<1>4. a.page = page
  BY DEF AddressFor
<1> HIDE DEF n, a
<1>5. /\ callbacks' \in Allocator /\ a \in Address
      /\ Held(callbacks') = Held(callbacks) \cup {page}
      /\ page \notin Held(callbacks) => page \notin Held(callbacks) \cup Held(tramps)
      /\ Lies(callbacks', a, n)
      /\ \A b : \A m \in Nat :
            b.at \in Nat /\ Lies(callbacks, b, m) => Lies(callbacks', b, m) /\ Apart(b, m, a, n)
  <2> DEFINE bl == Allocated(callbacks, n, page)
  <2>1. /\ bl \in Allocator /\ a \in Address
        /\ Held(bl) = Held(callbacks) \cup {page}
        /\ page \notin Held(callbacks) => page \notin Held(callbacks) \cup Held(tramps)
        /\ Lies(bl, a, n)
        /\ \A b : \A m \in Nat :
              b.at \in Nat /\ Lies(callbacks, b, m) => Lies(bl, b, m) /\ Apart(b, m, a, n)
    BY <1>1, <1>2, Allocation DEF a, n
  <2> QED BY <1>3, <1>4, <2>1
<1>6. c \in Code /\ c.page = a.page /\ c.at = a.at /\ Width(c) = n
  BY <1>1, <1>5 DEF Code, Address, Width, Size, n
<1>w. \A d \in memory : Width(d) \in Nat \ {0} /\ d.at \in Nat
  BY <1>2, WidthType
<1> HIDE DEF c
<1>7. /\ Lies(callbacks', c, Width(c))
      /\ \A d \in memory : /\ Lies(callbacks', d, Width(d))
                           /\ Apart(d, Width(d), c, Width(c))
                           /\ Apart(c, Width(c), d, Width(d))
  <2>1. \A d \in memory : Lies(callbacks', d, Width(d)) /\ Apart(d, Width(d), a, n)
    BY <1>5, <1>w DEF Layout
  <2> QED BY <1>5, <1>6, <2>1 DEF Lies, Apart
<1>8. Layout'
  <2>1. \A d \in memory' : Lies(callbacks', d, Width(d))
    BY <1>3, <1>7
  <2>2. \A d, e \in memory' : d # e => Apart(d, Width(d), e, Width(e))
    BY <1>3, <1>7 DEF Layout
  <2>3. Held(callbacks') \cap Held(tramps') = {}
    BY <1>5 DEF Layout
  <2> QED BY <2>1, <2>2, <2>3 DEF Layout
<1>9. toHandler' = toHandler \cup Sites(c)
  <2> SUFFICES ASSUME NEW e \in toHandler, NEW s \in Sites(c) PROVE s[1] # e[1]
    BY <1>3 DEF HandlersWith
  <2>1. PICK d \in memory : e \in Sites(d)
    BY DEF Maps
  <2> QED BY <1>2, <1>6, <1>7, <2>1, SitesApart
<1>10. Sites(c) \subseteq Address \X Slot
  <2>1. c.at + Width(c) <= PageSize
    BY <1>7 DEF Lies
  <2> QED BY <1>6, <2>1, SiteTypes
<1>11. /\ toHandler' \subseteq Address \X Slot /\ toRetaddr' \subseteq Slot \X Address
       /\ \A e \in toRetaddr' : <<e[2], e[1]>> \in toHandler'
  <2>1. ASSUME NEW e \in toRetaddr', e \notin toRetaddr
        PROVE  e \in Slot \X Address /\ <<e[2], e[1]>> \in toHandler'
    <3>1. PICK s \in Sites(c) : e = <<s[2], s[1]>>
      BY <1>3, <2>1 DEF RetaddrsWith
    <3>2. s \in Address \X Slot
      BY <1>10
    <3>3. e \in Slot \X Address /\ <<e[2], e[1]>> = s
      BY <3>1, <3>2
    <3> QED BY <1>9, <3>3
  <2> QED BY <1>2, <1>9, <1>10, <2>1 DEF Maps
<1>12. Maps'
  <2>1. \A e \in toHandler' : \E d \in memory' : e \in Sites(d)
    BY <1>3, <1>9 DEF Maps
  <2>2. \A d \in memory' : Sites(d) \subseteq toHandler'
    BY <1>3, <1>9 DEF Maps
  <2> QED BY <1>11, <2>1, <2>2 DEF Maps
<1> QED BY <1>2, <1>3, <1>5, <1>6, <1>8, <1>11, <1>12 DEF a, c, n

VaEntry == [fn : Formatted, callback : Address \cup {Nowhere}]

\* compile_va_callback: the entry of f is found or added, and those of the
\* other functions stay as they are.
LEMMA VaStep ==
  ASSUME va \in Seq(VaEntry), Len(va) <= MaxVaFuncs,
         NEW f \in Formatted, NEW target \in Address \cup {Nowhere},
         ~VaFull(f), va' = VaWith(f, target)
  PROVE  /\ va' \in Seq(VaEntry) /\ Len(va') <= MaxVaFuncs
         /\ \A i \in DOMAIN va : i \in DOMAIN va' /\ (va[i].fn # f => va'[i] = va[i])
         /\ \E i \in DOMAIN va' : va'[i].fn = f
         /\ \A i \in DOMAIN va' : va'[i].fn = f => va'[i].callback = target
         /\ \A g \in Fn \ {f} : VaFull(g) => VaFull(g)'
<1> DEFINE e == [fn |-> f, callback |-> target]
<1>0. /\ e \in VaEntry /\ e.fn = f /\ e.callback = target
      /\ Len(va) \in Nat /\ DOMAIN va = 1..Len(va) /\ MaxVaFuncs \in Nat
  BY FunctionsAssumption DEF VaEntry
<1>n. Len(va) \in Int /\ MaxVaFuncs \in Int /\ Len(va) <= MaxVaFuncs
  BY <1>0
<1> HIDE DEF e
<1>1. CASE VaOf(f) = {}
  <2>1. va' = Append(va, e) /\ Len(va) < MaxVaFuncs
    <3>1. va' = Append(va, e)
      BY <1>1 DEF VaWith, e
    <3>2. Len(va) # MaxVaFuncs
      BY <1>1 DEF VaFull
    <3>3. Len(va) < MaxVaFuncs
      BY <1>n, <3>2
    <3> QED BY <3>1, <3>3
  <2>2. /\ va' \in Seq(VaEntry) /\ Len(va') = Len(va) + 1 /\ DOMAIN va' = 1..(Len(va) + 1)
        /\ va'[Len(va) + 1] = e /\ \A i \in 1..Len(va) : va'[i] = va[i]
    BY <1>0, <2>1
  <2>3. \A i \in DOMAIN va : va[i].fn # f
    BY <1>1 DEF VaOf
  <2>4. \A i \in DOMAIN va : i \in DOMAIN va' /\ va'[i] = va[i]
    BY <1>0, <2>2
  <2>5. \A i \in DOMAIN va' : va'[i].fn = f => va'[i].callback = target
    <3>1. \A i \in DOMAIN va' : i \in DOMAIN va \/ i = Len(va) + 1
      BY <1>0, <2>2
    <3> QED BY <1>0, <2>2, <2>3, <2>4, <3>1
  <2>6. Len(va) + 1 \in DOMAIN va' /\ va'[Len(va) + 1].fn = f /\ Len(va') <= MaxVaFuncs
    BY <1>0, <1>n, <2>1, <2>2
  <2>7. \A g \in Fn : ~VaFull(g)
    BY <2>1, <1>n DEF VaFull
  <2> QED BY <2>2, <2>4, <2>5, <2>6, <2>7
<1>2. CASE VaOf(f) # {}
  <2>1. va' = [i \in DOMAIN va |-> IF va[i].fn = f THEN e ELSE va[i]]
    BY <1>2 DEF VaWith, e
  <2>2. \A i \in DOMAIN va : va[i] \in VaEntry
    BY <1>0
  <2>3. va' \in Seq(VaEntry) /\ Len(va') = Len(va) /\ DOMAIN va' = DOMAIN va
    BY <1>0, <2>1, <2>2
  <2>4. \A i \in DOMAIN va : va'[i] = IF va[i].fn = f THEN e ELSE va[i]
    BY <2>1
  <2>5. \E i \in DOMAIN va : va[i].fn = f
    BY <1>2 DEF VaOf
  <2>6. \A i \in DOMAIN va : va'[i].fn = va[i].fn
    BY <1>0, <2>4
  <2>7. \A g \in Fn : VaFull(g) => VaFull(g)'
    BY <2>3, <2>6 DEF VaFull, VaOf
  <2> QED BY <1>0, <2>3, <2>4, <2>5, <2>6, <2>7
<1> QED BY <1>1, <1>2

----------------------------------------------------------------------------
(* The compilation of one function.                                        *)

\* The types of what CJit and g_va_funcs keep.
CodeTypes ==
  /\ callbacks \in Allocator /\ memory \subseteq Code
  /\ toHandler \subseteq Address \X Slot /\ toRetaddr \subseteq Slot \X Address
  /\ va \in Seq(VaEntry) /\ Len(va) <= MaxVaFuncs

\* No function but f loses its callback or its entry in g_va_funcs.
Kept(f) ==
  /\ memory \subseteq memory'
  /\ \A i \in DOMAIN va : i \in DOMAIN va' /\ (va[i].fn # f => va'[i] = va[i])
  /\ \A g \in Fn \ {f} : VaFull(g) => VaFull(g)'

LEMMA ServedKept ==
  ASSUME NEW f \in Fn, NEW g \in Fn \ {f}, Served(g), Kept(f),
         table'[g] = table[g], built' = built
  PROVE  Served(g)'
<1>0. ASSUME NEW a, Leads(g, a, memory, built) PROVE Leads(g, a, memory', built')
  BY <1>0 DEF Leads, Kept
<1>1. CASE /\ table[g] = ToOriginal
           /\ \/ g \in Uncompilable \cup (Variadic \ Formatted)
              \/ g \in Formatted /\ VaFull(g)
              \/ g \in Originals /\ Calls(g, built) = {}
  BY <1>1 DEF Served, Kept
<1>2. CASE \E a \in Address : table[g] = ToCode(a) /\ Leads(g, a, memory, built)
  BY <1>0, <1>2 DEF Served
<1>3. CASE \E i \in DOMAIN va :
             /\ table[g] = ToVa(i) /\ va[i].fn = g
             /\ va[i].callback \in Address /\ Leads(g, va[i].callback, memory, built)
  <2>1. PICK i \in DOMAIN va :
          /\ table[g] = ToVa(i) /\ va[i].fn = g
          /\ va[i].callback \in Address /\ Leads(g, va[i].callback, memory, built)
    BY <1>3
  <2>2. i \in DOMAIN va' /\ va'[i] = va[i]
    BY <2>1 DEF Kept
  <2>3. Leads(g, va'[i].callback, memory', built')
    BY <1>0, <2>1, <2>2
  <2> QED BY <2>1, <2>2, <2>3 DEF Served
<1> QED BY <1>1, <1>2, <1>3 DEF Served

\* The step to the next function keeps the invariant if the new entry serves.
LEMMA CompiledStep ==
  ASSUME IInv, NEW f \in Fn, NEW entry \in Entry, Compiling(f), Compiled(f, entry),
         CodeTypes', Layout', Maps', Kept(f), Served(f)'
  PROVE  IInv'
<1>1. /\ next = f /\ next' = f + 1 /\ f \in 1..NumFn /\ NumFn \in Nat
      /\ table' = [table EXCEPT ![f] = entry] /\ table \in [Fn -> Entry]
      /\ UNCHANGED <<tramps, given, attached, built, fixdata, waiting, mode>>
  BY FunctionsAssumption DEF Compiling, Compiled, Fn, IInv, TypeOK
<1>2. next # 0 /\ next' # 0 /\ next' \in 0..(NumFn + 1) /\ \A g \in Fn : g < next' => g < next \/ g = f
  BY <1>1 DEF Fn
<1>3. TypeOK'
  BY <1>1, <1>2 DEF IInv, TypeOK, CodeTypes, VaEntry
<1>4. Entries'
  <2>1. attached' = built'
    BY <1>1, <1>2 DEF IInv, Entries
  <2>2. ASSUME NEW g \in Fn, g < next' PROVE Served(g)'
    <3>1. CASE g = f
      BY <3>1
    <3>2. CASE g # f
      <4>1. Served(g) /\ table'[g] = table[g]
        BY <1>1, <1>2, <2>2, <3>2 DEF IInv, Entries
      <4> QED BY <1>1, <3>2, <4>1, ServedKept
    <3> QED BY <3>1, <3>2
  <2> QED BY <1>2, <2>1, <2>2 DEF Entries
<1>5. Frames'
  BY <1>1, <1>2 DEF IInv, Frames
<1> QED BY <1>3, <1>4, <1>5 DEF IInv

LEMMA PassThroughStep ==
  ASSUME IInv, NEW f \in Fn, PassThrough(f)
  PROVE  IInv'
<1>1. Compiling(f) /\ Compiled(f, ToOriginal) /\ ToOriginal \in Entry
  BY DEF PassThrough, Entry
<1>2. UNCHANGED <<callbacks, memory, toHandler, toRetaddr, va, tramps, given, attached, built>>
  BY DEF PassThrough, Compiled
<1>3. CodeTypes' /\ Layout' /\ Maps'
  BY <1>2 DEF IInv, TypeOK, CodeTypes, VaEntry, Layout, Maps
<1>4. Kept(f)
  BY <1>2 DEF Kept, VaFull, VaOf
<1>5. Served(f)'
  <2>1. table'[f] = ToOriginal
    BY <1>1 DEF Compiled, IInv, TypeOK
  <2>2. attached' = built'
    BY <1>1, <1>2, FunctionsAssumption DEF IInv, Entries, Compiling, Fn
  <2>3. \/ ~Wrapped(f)
        \/ f \in Variadic \ Formatted
        \/ f \in Formatted /\ VaFull(f)
    BY DEF PassThrough
  <2>4. VaFull(f) => VaFull(f)'
    BY <1>2 DEF VaFull, VaOf
  <2>5. ~Wrapped(f) => f \in Originals /\ Calls(f, built') = {}
    BY <1>2, <2>2 DEF Wrapped
  <2> QED BY <2>1, <2>3, <2>4, <2>5 DEF Served
<1> QED BY <1>1, <1>3, <1>4, <1>5, CompiledStep

LEMMA GiveUpStep ==
  ASSUME IInv, NEW f \in Fn, GiveUp(f)
  PROVE  IInv'
<1>1. Compiling(f) /\ Compiled(f, ToOriginal) /\ ToOriginal \in Entry /\ f \in Uncompilable
  BY DEF GiveUp, Entry
<1>2. UNCHANGED <<callbacks, memory, toHandler, toRetaddr, tramps, given, attached, built>>
  BY DEF GiveUp, Compiled
<1>3. va \in Seq(VaEntry) /\ Len(va) <= MaxVaFuncs
  BY DEF IInv, TypeOK, VaEntry
<1>4. /\ va' \in Seq(VaEntry) /\ Len(va') <= MaxVaFuncs
      /\ \A i \in DOMAIN va : i \in DOMAIN va' /\ (va[i].fn # f => va'[i] = va[i])
      /\ \A g \in Fn \ {f} : VaFull(g) => VaFull(g)'
  <2>1. CASE f \in Formatted /\ VaOf(f) = {}
    <3>1. va' = VaWith(f, Nowhere) /\ ~VaFull(f)
      BY <2>1 DEF GiveUp
    <3> QED BY <1>3, <2>1, <3>1, VaStep
  <2>2. CASE ~(f \in Formatted /\ VaOf(f) = {})
    <3>1. va' = va
      BY <2>2 DEF GiveUp
    <3> QED BY <1>3, <3>1 DEF VaFull, VaOf
  <2> QED BY <2>1, <2>2
<1>5. CodeTypes' /\ Layout' /\ Maps'
  BY <1>2, <1>4 DEF IInv, TypeOK, CodeTypes, Layout, Maps
<1>6. Kept(f)
  BY <1>2, <1>4 DEF Kept
<1>7. Served(f)'
  BY <1>1 DEF Served, Compiled, IInv, TypeOK
<1> QED BY <1>1, <1>5, <1>6, <1>7, CompiledStep

\* The callback written for f is one for the plugins of the last rebuild.
LEMMA WriteCodeLeads ==
  ASSUME IInv, NEW f \in Fn, Compiling(f), NEW page \in PageFor(callbacks, Size(f, attached)),
         EndsInPage(f, AddressFor(callbacks, Size(f, attached), page)),
         WriteCode(f, AddressFor(callbacks, Size(f, attached), page)),
         UNCHANGED <<tramps, given, attached, built>>
  PROVE  LET a == AddressFor(callbacks, Size(f, attached), page)
         IN /\ a \in Address /\ Leads(f, a, memory', built') /\ memory \subseteq memory' /\ Layout' /\ Maps'
            /\ callbacks' \in Allocator /\ memory' \subseteq Code
            /\ toHandler' \subseteq Address \X Slot /\ toRetaddr' \subseteq Slot \X Address
<1> DEFINE a == AddressFor(callbacks, Size(f, attached), page)
           c == [fn |-> f, page |-> a.page, at |-> a.at, calls |-> Calls(f, attached)]
<1>1. TypeOK /\ Layout /\ Maps
  BY DEF IInv
<1>2. /\ a \in Address /\ memory' = memory \cup {c} /\ Layout' /\ Maps'
      /\ callbacks' \in Allocator /\ memory' \subseteq Code
      /\ toHandler' \subseteq Address \X Slot /\ toRetaddr' \subseteq Slot \X Address
  BY <1>1, WriteCodeStep
<1>3. attached = built'
  BY FunctionsAssumption DEF IInv, Entries, Compiling, Fn
<1> HIDE DEF a
<1>4. c \in memory' /\ c.page = a.page /\ c.at = a.at /\ c.fn = f /\ c.calls = Calls(f, built')
  BY <1>2, <1>3
<1> HIDE DEF c
<1>5. Leads(f, a, memory', built')
  <2>1. \E d \in memory' : d.page = a.page /\ d.at = a.at /\ d.fn = f /\ d.calls = Calls(f, built')
    BY <1>4
  <2> QED BY <2>1 DEF Leads
<1> QED BY <1>2, <1>5 DEF a

LEMMA CompileFixedStep ==
  ASSUME IInv, NEW f \in Fn, CompileFixed(f)
  PROVE  IInv'
<1>1. PICK page \in PageFor(callbacks, Size(f, attached)) :
        LET a == AddressFor(callbacks, Size(f, attached), page)
        IN EndsInPage(f, a) /\ WriteCode(f, a) /\ Compiled(f, ToCode(a))
  BY DEF CompileFixed, Destination
<1> DEFINE a == AddressFor(callbacks, Size(f, attached), page)
<1>2. /\ EndsInPage(f, a) /\ WriteCode(f, a) /\ Compiled(f, ToCode(a))
      /\ Compiling(f) /\ va' = va
  BY <1>1 DEF CompileFixed
<1>3. UNCHANGED <<tramps, given, attached, built>>
  BY <1>2 DEF Compiled
<1>4. /\ a \in Address /\ Leads(f, a, memory', built') /\ memory \subseteq memory' /\ Layout' /\ Maps'
      /\ callbacks' \in Allocator /\ memory' \subseteq Code
      /\ toHandler' \subseteq Address \X Slot /\ toRetaddr' \subseteq Slot \X Address
  BY <1>2, <1>3, WriteCodeLeads
<1> HIDE DEF a
<1>5. ToCode(a) \in Entry
  BY <1>4 DEF Entry
<1>6. CodeTypes' /\ Kept(f)
  <2>1. va \in Seq(VaEntry) /\ Len(va) <= MaxVaFuncs
    BY DEF IInv, TypeOK, VaEntry
  <2> QED BY <1>2, <1>4, <2>1 DEF CodeTypes, Kept, VaFull, VaOf
<1>7. Served(f)'
  <2>1. table'[f] = ToCode(a)
    BY <1>2 DEF Compiled, IInv, TypeOK
  <2> QED BY <1>4, <2>1 DEF Served
<1> QED BY <1>2, <1>4, <1>5, <1>6, <1>7, CompiledStep

LEMMA CompileVaStep ==
  ASSUME IInv, NEW f \in Fn, CompileVa(f)
  PROVE  IInv'
<1>1. PICK page \in PageFor(callbacks, Size(f, attached)) :
        LET a == AddressFor(callbacks, Size(f, attached), page)
        IN /\ EndsInPage(f, a) /\ WriteCode(f, a)
           /\ va' = VaWith(f, a)
           /\ Compiled(f, ToVa(CHOOSE i \in DOMAIN va' : va'[i].fn = f))
  BY DEF CompileVa, Destination
<1> DEFINE a == AddressFor(callbacks, Size(f, attached), page)
           i == CHOOSE j \in DOMAIN va' : va'[j].fn = f
<1>2. /\ EndsInPage(f, a) /\ WriteCode(f, a)
      /\ va' = VaWith(f, a) /\ Compiled(f, ToVa(i)) /\ Compiling(f)
      /\ f \in Formatted /\ ~VaFull(f)
  BY <1>1 DEF CompileVa, Compilable
<1>3. UNCHANGED <<tramps, given, attached, built>>
  BY <1>2 DEF Compiled
<1>4. /\ a \in Address /\ Leads(f, a, memory', built') /\ memory \subseteq memory' /\ Layout' /\ Maps'
      /\ callbacks' \in Allocator /\ memory' \subseteq Code
      /\ toHandler' \subseteq Address \X Slot /\ toRetaddr' \subseteq Slot \X Address
  BY <1>2, <1>3, WriteCodeLeads
<1> HIDE DEF a
<1>5. va \in Seq(VaEntry) /\ Len(va) <= MaxVaFuncs
  BY DEF IInv, TypeOK, VaEntry
<1>6. /\ va' \in Seq(VaEntry) /\ Len(va') <= MaxVaFuncs
      /\ \A j \in DOMAIN va : j \in DOMAIN va' /\ (va[j].fn # f => va'[j] = va[j])
      /\ \E j \in DOMAIN va' : va'[j].fn = f
      /\ \A j \in DOMAIN va' : va'[j].fn = f => va'[j].callback = a
      /\ \A g \in Fn \ {f} : VaFull(g) => VaFull(g)'
  BY <1>2, <1>4, <1>5, VaStep
<1>7. i \in DOMAIN va' /\ va'[i].fn = f /\ va'[i].callback = a
  BY <1>6
<1> HIDE DEF i
<1>8. ToVa(i) \in Entry
  <2>1. i \in 1..MaxVaFuncs
    BY <1>6, <1>7, FunctionsAssumption
  <2> QED BY <2>1 DEF Entry
<1>9. CodeTypes' /\ Kept(f)
  BY <1>4, <1>6 DEF CodeTypes, Kept
<1>10. Served(f)'
  <2>1. table'[f] = ToVa(i)
    BY <1>2 DEF Compiled, IInv, TypeOK
  <2> QED BY <1>4, <1>7, <2>1 DEF Served
<1> QED BY <1>2, <1>4, <1>8, <1>9, <1>10, CompiledStep

----------------------------------------------------------------------------
(* Sequences.                                                              *)

\* What a callback that waits is known by.
Frame == [slot : Slot, ret : Address]

LEMMA SeqElements ==
  ASSUME NEW S, NEW s \in Seq(S)
  PROVE  Len(s) \in Nat /\ DOMAIN s = 1..Len(s) /\ \A k \in 1..Len(s) : s[k] \in S
OBVIOUS

LEMMA SeqOf ==
  ASSUME NEW S, NEW n \in Nat, NEW s, s = [k \in 1..n |-> s[k]], \A k \in 1..n : s[k] \in S
  PROVE  s \in Seq(S) /\ Len(s) = n
<1>1. s \in [1..n -> S]
  OBVIOUS
<1> QED BY <1>1

LEMMA SeqFront ==
  ASSUME NEW S, NEW s \in Seq(S), s # <<>>
  PROVE  LET t == SubSeq(s, 1, Len(s) - 1)
         IN /\ Len(s) \in Nat \ {0} /\ t \in Seq(S) /\ Len(t) = Len(s) - 1
            /\ DOMAIN t = 1..(Len(s) - 1) /\ DOMAIN s = 1..Len(s)
            /\ \A k \in 1..(Len(s) - 1) : t[k] = s[k]
<1> DEFINE n == Len(s) - 1
           t == SubSeq(s, 1, n)
<1>1. Len(s) \in Nat \ {0} /\ DOMAIN s = 1..Len(s) /\ \A k \in 1..Len(s) : s[k] \in S
  OBVIOUS
<1>2. n \in Nat /\ n < Len(s)
  BY <1>1
<1> HIDE DEF n
<1>3. Len(t) = n /\ DOMAIN t = 1..n /\ \A k \in 1..n : t[k] = s[k]
  BY <1>1, <1>2
<1>4. t \in Seq(S)
  BY <1>1, <1>2
<1> QED BY <1>1, <1>3, <1>4 DEF n

LEMMA FrameTypes ==
  ASSUME TypeOK
  PROVE  /\ waiting \in Seq(Frame) /\ Len(waiting) \in Nat /\ DOMAIN waiting = 1..Len(waiting)
         /\ \A k \in DOMAIN waiting : waiting[k].slot \in Slot /\ waiting[k].ret \in Address
<1>1. waiting \in Seq(Frame)
  BY DEF TypeOK, Frame
<1>2. /\ Len(waiting) \in Nat /\ DOMAIN waiting = 1..Len(waiting)
      /\ \A k \in 1..Len(waiting) : waiting[k] \in Frame
  BY <1>1, SeqElements
<1>3. \A w \in Frame : w.slot \in Slot /\ w.ret \in Address
  BY DEF Frame
<1> QED BY <1>1, <1>2, <1>3

----------------------------------------------------------------------------
(* The other steps.                                                        *)

\* compile_tramp: a trampoline lies beside the other ones.
LEMMA CompileTrampStep ==
  ASSUME IInv, CompileTramp
  PROVE  IInv'
<1>1. PICK page \in PageFor(tramps, TrampSize) :
        given' = Append(given, Tramp(page)) /\ tramps' = Allocated(tramps, TrampSize, page)
  BY DEF CompileTramp
<1>2. /\ next = 1
      /\ UNCHANGED <<compiled, attached, built, next, fixdata, waiting, mode>>
  BY DEF CompileTramp
<1> DEFINE a == AddressFor(tramps, TrampSize, page)
<1>3. tramps \in Allocator /\ given \in Seq(Address) /\ TrampSize \in 1..PageSize /\ TrampSize \in Nat
  BY SizesAssumption DEF IInv, TypeOK
<1>4. /\ tramps' \in Allocator /\ a \in Address
      /\ Held(tramps') = Held(tramps) \cup {page}
      /\ page \notin Held(tramps) => page \notin Held(callbacks) \cup Held(tramps)
      /\ Lies(tramps', a, TrampSize)
      /\ \A b : \A m \in Nat : b.at \in Nat /\ Lies(tramps, b, m) =>
                                 Lies(tramps', b, m) /\ Apart(b, m, a, TrampSize)
  <2> DEFINE bl == Allocated(tramps, TrampSize, page)
  <2>1. /\ bl \in Allocator /\ a \in Address
        /\ Held(bl) = Held(tramps) \cup {page}
        /\ page \notin Held(tramps) => page \notin Held(callbacks) \cup Held(tramps)
        /\ Lies(bl, a, TrampSize)
        /\ \A b : \A m \in Nat : b.at \in Nat /\ Lies(tramps, b, m) =>
                                   Lies(bl, b, m) /\ Apart(b, m, a, TrampSize)
    BY <1>3, Allocation
  <2> QED BY <1>1, <2>1
<1>5. given' = Append(given, a)
  BY <1>1 DEF Tramp
<1> HIDE DEF a
<1>6. /\ given' \in Seq(Address) /\ Len(given) \in Nat /\ DOMAIN given = 1..Len(given)
      /\ DOMAIN given' = 1..(Len(given) + 1)
      /\ \A k \in 1..Len(given) : given'[k] = given[k] /\ given[k] \in Address
      /\ given'[Len(given) + 1] = a
  BY <1>3, <1>4, <1>5
<1>7. \A k \in DOMAIN given : given[k].at \in Nat
  <2>1. \A b \in Address : b.at \in Nat
    BY SizesAssumption DEF Address
  <2> QED BY <1>6, <2>1
<1>8. \A k \in DOMAIN given : /\ Lies(tramps', given[k], TrampSize)
                              /\ Apart(given[k], TrampSize, a, TrampSize)
                              /\ Apart(a, TrampSize, given[k], TrampSize)
  <2>1. \A k \in DOMAIN given : /\ Lies(tramps', given[k], TrampSize)
                                /\ Apart(given[k], TrampSize, a, TrampSize)
    BY <1>3, <1>4, <1>7 DEF IInv, Layout
  <2> QED BY <2>1 DEF Apart
<1>9. \A k \in DOMAIN given' :
        (k \in DOMAIN given /\ given'[k] = given[k]) \/ (k = Len(given) + 1 /\ given'[k] = a)
  BY <1>6
<1>10. Layout'
  <2>1. \A k \in DOMAIN given' : Lies(tramps', given'[k], TrampSize)
    BY <1>4, <1>8, <1>9
  <2>2. \A k, l \in DOMAIN given' : k # l => Apart(given'[k], TrampSize, given'[l], TrampSize)
    BY <1>8, <1>9 DEF IInv, Layout
  <2>3. Held(callbacks') \cap Held(tramps') = {}
    BY <1>2, <1>4 DEF IInv, Layout, compiled
  <2>4. UNCHANGED <<callbacks, memory>>
    BY <1>2 DEF compiled
  <2> QED BY <2>1, <2>2, <2>3, <2>4 DEF IInv, Layout
<1>11. TypeOK'
  BY <1>2, <1>4, <1>6 DEF IInv, TypeOK, compiled
<1>12. Maps' /\ Frames'
  BY <1>2 DEF IInv, Maps, Frames, Returns, compiled
<1>13. Entries'
  BY <1>2, FunctionsAssumption DEF IInv, Entries, Fn
<1> QED BY <1>10, <1>11, <1>12, <1>13 DEF IInv

\* What does not touch the callbacks keeps what is known of them.
LEMMA SameCallbacks ==
  ASSUME IInv, UNCHANGED <<compiled, tramps, given, built>>
  PROVE  Layout' /\ Maps' /\ \A f \in Fn : Served(f) => Served(f)'
<1>1. Layout' /\ Maps'
  BY DEF IInv, Layout, Maps, compiled
<1>2. \A f \in Fn : Served(f) => Served(f)'
  BY DEF Served, VaFull, VaOf, compiled
<1> QED BY <1>1, <1>2

\* Plugins come and go between the rebuilds.
LEMMA ListStep ==
  ASSUME IInv, NEW p \in Plugin, Attach(p) \/ Detach(p)
  PROVE  IInv'
<1>1. /\ Running /\ attached' \subseteq Plugin
      /\ UNCHANGED <<compiled, tramps, given, built, next, fixdata, waiting, mode>>
  BY DEF Attach, Detach, IInv, TypeOK
<1>2. TypeOK'
  BY <1>1 DEF IInv, TypeOK, compiled
<1>3. Layout' /\ Maps' /\ Entries'
  BY <1>1, SameCallbacks DEF IInv, Entries, Running
<1>4. Frames'
  BY <1>1 DEF IInv, Frames, Returns, compiled
<1> QED BY <1>2, <1>3, <1>4 DEF IInv

\* The code that is entered is there.
LEMMA EnteredThere ==
  ASSUME TypeOK, NEW f \in Fn
  PROVE  Entered(f) \subseteq memory
<1>1. \A a : CodeAt(a) \subseteq memory
  BY DEF CodeAt
<1>2. table[f] \in Entry
  BY DEF TypeOK
<1>3. table[f][1] \in {"original", "code", "va"}
  BY <1>2 DEF Entry, ToOriginal, ToCode, ToVa
<1> QED BY <1>1, <1>3 DEF Entered

LEMMA EnterStep ==
  ASSUME IInv, NEW f \in Fn, Enter(f)
  PROVE  IInv'
<1>0. PICK c \in Entered(f) : \E k \in c.calls :
        waiting' = Append(waiting, [slot |-> <<c.fn, k>>, ret |-> ReturnAddress(c, k)])
  BY DEF Enter
<1>1. PICK k \in c.calls :
        waiting' = Append(waiting, [slot |-> <<c.fn, k>>, ret |-> ReturnAddress(c, k)])
  BY <1>0
<1>2. /\ Running /\ Len(waiting) < MaxDepth
      /\ UNCHANGED <<compiled, tramps, given, attached, built, next, fixdata, mode>>
  BY DEF Enter
<1>3. c \in memory /\ c \in Code
  BY <1>1, EnteredThere DEF IInv, TypeOK
<1> DEFINE w == [slot |-> <<c.fn, k>>, ret |-> ReturnAddress(c, k)]
<1>4. w.slot \in Slot /\ w.ret \in Address
  <2>1. c.at + Width(c) <= PageSize
    BY <1>3 DEF IInv, Layout, Lies
  <2>2. <<ReturnAddress(c, k), <<c.fn, k>>>> \in Address \X Slot
    BY <1>1, <1>3, <2>1, SiteTypes DEF Sites
  <2> QED BY <2>2
<1>5. Returns(w.slot, w.ret)
  BY <1>1, <1>3 DEF Returns
<1>6. w \in Frame
  BY <1>4 DEF Frame
<1>7. waiting' = Append(waiting, w)
  BY <1>1
<1> HIDE DEF w
<1>8. /\ waiting \in Seq(Frame)
      /\ Len(waiting) \in Nat /\ MaxDepth \in Nat /\ DOMAIN waiting = 1..Len(waiting)
  BY MaxDepthAssumption, FrameTypes DEF IInv
<1>9. /\ waiting' \in Seq(Frame) /\ Len(waiting') = Len(waiting) + 1
      /\ DOMAIN waiting' = 1..(Len(waiting) + 1)
      /\ \A j \in 1..Len(waiting) : waiting'[j] = waiting[j]
      /\ waiting'[Len(waiting) + 1] = w
  BY <1>6, <1>7, <1>8
<1>10. Len(waiting') <= MaxDepth
  BY <1>2, <1>8, <1>9
<1>11. TypeOK'
  BY <1>2, <1>9, <1>10 DEF IInv, TypeOK, compiled, Frame
<1>12. Layout' /\ Maps' /\ Entries'
  BY <1>2, SameCallbacks DEF IInv, Entries, Running
<1>13. Frames'
  <2>1. memory' = memory /\ next' = 0 /\ mode' = "alive" /\ next = 0 /\ mode = "alive"
    BY <1>2 DEF Running, compiled
  <2>2. \A j \in DOMAIN waiting : Returns(waiting[j].slot, waiting[j].ret)
    BY <2>1 DEF IInv, Frames
  <2>3. \A j \in DOMAIN waiting' : Returns(waiting'[j].slot, waiting'[j].ret)
    BY <1>5, <1>8, <1>9, <2>2
  <2> QED BY <2>1, <2>3 DEF Frames, Returns
<1> QED BY <1>11, <1>12, <1>13 DEF IInv

LEMMA ReturnStep ==
  ASSUME IInv, Return
  PROVE  IInv'
<1>1. /\ Running /\ waiting # <<>> /\ waiting' = SubSeq(waiting, 1, Len(waiting) - 1)
      /\ UNCHANGED <<compiled, tramps, given, attached, built, next, fixdata, mode>>
  BY DEF Return
<1>2. waiting \in Seq(Frame) /\ Len(waiting) <= MaxDepth
  BY DEF IInv, TypeOK, Frame
<1>3. /\ Len(waiting) \in Nat \ {0} /\ DOMAIN waiting = 1..Len(waiting)
      /\ waiting' \in Seq(Frame) /\ Len(waiting') = Len(waiting) - 1
      /\ DOMAIN waiting' = 1..(Len(waiting) - 1)
      /\ \A j \in 1..(Len(waiting) - 1) : waiting'[j] = waiting[j]
  BY <1>1, <1>2, SeqFront
<1>5. TypeOK'
  <2>1. Len(waiting') <= MaxDepth
    BY <1>2, <1>3, MaxDepthAssumption
  <2> QED BY <1>1, <1>3, <2>1 DEF IInv, TypeOK, compiled, Frame
<1>6. Layout' /\ Maps' /\ Entries'
  BY <1>1, SameCallbacks DEF IInv, Entries, Running
<1>7. Frames'
  <2>1. memory' = memory /\ next' = 0 /\ mode' = "alive" /\ next = 0 /\ mode = "alive"
    BY <1>1 DEF Running, compiled
  <2>2. \A j \in DOMAIN waiting' : j \in DOMAIN waiting /\ waiting'[j] = waiting[j]
    BY <1>3
  <2> QED BY <2>1, <2>2 DEF IInv, Frames, Returns
<1> QED BY <1>5, <1>6, <1>7 DEF IInv

\* meta_rebuild_callbacks clears the callbacks when it has found, for every
\* callback that waits, what it waits for.
LEMMA RebuildStep ==
  ASSUME IInv, Rebuild
  PROVE  IInv'
<1>1. /\ Running /\ fixdata' = Collected /\ built' = attached /\ next' = 1
      /\ callbacks' = Deallocated(callbacks) /\ memory' = {} /\ toHandler' = {} /\ toRetaddr' = {}
      /\ UNCHANGED <<tramps, given, table, va, attached, waiting, mode>>
  BY DEF Rebuild, ClearCallbacks
<1>2. /\ Len(waiting) \in Nat /\ DOMAIN waiting = 1..Len(waiting)
      /\ \A k \in DOMAIN waiting : waiting[k].slot \in Slot
  BY FrameTypes DEF IInv
<1>3. ASSUME NEW k \in DOMAIN waiting PROVE Collected[k] = waiting[k].slot
  <2>1. waiting[k].slot \in Slot /\ Returns(waiting[k].slot, waiting[k].ret)
    BY <1>1, <1>2 DEF IInv, Frames, Running
  <2>2. <<waiting[k].ret, waiting[k].slot>> \in toHandler
    BY <2>1, ReturnsSite DEF IInv
  <2>3. \A s \in Slot : <<waiting[k].ret, s>> \in toHandler => s = waiting[k].slot
    BY <2>2, OneSlot DEF IInv
  <2>4. (CHOOSE s \in Slot : <<waiting[k].ret, s>> \in toHandler) = waiting[k].slot
    BY <2>1, <2>2, <2>3
  <2> QED BY <2>4 DEF Collected
<1>4. fixdata' \in Seq(Slot) /\ Len(fixdata') = Len(waiting)
  <2>1. \A k \in 1..Len(waiting) : Collected[k] \in Slot
    BY <1>2, <1>3
  <2> DEFINE slot(k) == CHOOSE s \in Slot : <<waiting[k].ret, s>> \in toHandler
  <2>c. Collected = [k \in 1..Len(waiting) |-> slot(k)]
    BY <1>2 DEF Collected
  <2> HIDE DEF slot
  <2>2. Collected = [k \in 1..Len(waiting) |-> Collected[k]]
    BY <2>c
  <2> QED BY <1>1, <1>2, <2>1, <2>2, SeqOf
<1>5. callbacks' \in Allocator /\ Held(callbacks') = {}
  <2>1. callbacks.used \in 0..PageSize /\ callbacks' = [callbacks EXCEPT !.pages = <<>>]
    BY <1>1 DEF IInv, TypeOK, Allocator, Deallocated
  <2>2. callbacks' = [pages |-> <<>>, used |-> callbacks.used]
    BY <2>1 DEF IInv, TypeOK, Allocator
  <2>3. callbacks' \in Allocator
    <3>1. callbacks.used \in 0..PageSize /\ <<>> \in Seq(Page)
      BY <2>1
    <3> QED BY <2>2, <3>1 DEF Allocator
  <2>4. callbacks'.pages = <<>> /\ DOMAIN <<>> = {}
    BY <2>2
  <2> QED BY <2>3, <2>4 DEF Held
<1>6. TypeOK'
  BY <1>1, <1>4, <1>5, FunctionsAssumption DEF IInv, TypeOK
<1>7. Layout'
  BY <1>1, <1>5 DEF IInv, Layout
<1>8. Maps'
  BY <1>1 DEF Maps
<1>9. Entries'
  BY <1>1, FunctionsAssumption DEF Entries, Fn
<1>10. Frames'
  BY <1>1, <1>3, <1>4 DEF Frames
<1> QED BY <1>6, <1>7, <1>8, <1>9, <1>10 DEF IInv

\* meta_apply_fix_data finds where a slot is called from, or exits.
LEMMA FixFramesStep ==
  ASSUME IInv, FixFrames
  PROVE  IInv'
<1>1. /\ mode = "alive" /\ next = NumFn + 1 /\ next' = 0 /\ fixdata' = <<>> /\ next # 0
      /\ UNCHANGED <<compiled, tramps, given, attached, built>>
  BY FunctionsAssumption DEF FixFrames
<1>2. /\ waiting \in Seq(Frame) /\ Len(waiting) <= MaxDepth
      /\ DOMAIN waiting = 1..Len(waiting) /\ Len(waiting) \in Nat
      /\ Len(fixdata) = Len(waiting) /\ DOMAIN fixdata = DOMAIN waiting
      /\ \A k \in DOMAIN waiting : fixdata[k] = waiting[k].slot /\ waiting[k].slot \in Slot
  <2>1. fixdata \in Seq(Slot) /\ Len(waiting) <= MaxDepth
    BY DEF IInv, TypeOK
  <2>2. DOMAIN fixdata = 1..Len(fixdata)
    BY <2>1, SeqElements
  <2> QED BY <1>1, <2>1, <2>2, FrameTypes DEF IInv, Frames
<1>3. Layout' /\ Maps' /\ Entries'
  <2>1. \A f \in Fn : f < next
    BY <1>1, FunctionsAssumption DEF Fn
  <2> QED BY <1>1, <2>1, SameCallbacks DEF IInv, Entries
<1>4. CASE \E k \in DOMAIN fixdata : NewRetaddr(fixdata[k]) = {}
  <2>1. mode' = "exited" /\ waiting' = waiting
    BY <1>4 DEF FixFrames
  <2>2. TypeOK' /\ Frames'
    BY <1>1, <2>1, FunctionsAssumption DEF IInv, TypeOK, Frames, compiled
  <2> QED BY <1>3, <2>2 DEF IInv
<1>5. CASE \A k \in DOMAIN fixdata : NewRetaddr(fixdata[k]) # {}
  <2> DEFINE ret(k) == CHOOSE a \in NewRetaddr(fixdata[k]) : TRUE
  <2>1. /\ mode' = mode
        /\ waiting' = [k \in DOMAIN waiting |-> [waiting[k] EXCEPT !.ret = ret(k)]]
    BY <1>5 DEF FixFrames
  <2>2. \A k \in DOMAIN waiting : ret(k) \in NewRetaddr(fixdata[k])
    BY <1>2, <1>5
  <2> HIDE DEF ret
  <2>3. ASSUME NEW k \in DOMAIN waiting
        PROVE  ret(k) \in Address /\ Returns(waiting[k].slot, ret(k))
    <3>1. PICK e \in toRetaddr : e[1] = fixdata[k] /\ e[2] = ret(k)
      BY <2>2 DEF NewRetaddr
    <3>2. e \in Slot \X Address /\ <<e[2], e[1]>> \in toHandler
      BY DEF IInv, TypeOK, Maps
    <3>3. <<ret(k), waiting[k].slot>> \in toHandler
      BY <1>2, <3>1, <3>2
    <3> QED BY <3>1, <3>2, <3>3, SiteReturns DEF IInv
  <2>4. \A k \in 1..Len(waiting) :
          waiting'[k].slot = waiting[k].slot /\ waiting'[k].ret = ret(k) /\ waiting'[k] \in Frame
    <3> SUFFICES ASSUME NEW k \in 1..Len(waiting)
                 PROVE  /\ waiting'[k].slot = waiting[k].slot /\ waiting'[k].ret = ret(k)
                        /\ waiting'[k] \in Frame
      OBVIOUS
    <3>1. waiting[k] \in Frame
      BY <1>2, SeqElements
    <3>2. waiting'[k] = [waiting[k] EXCEPT !.ret = ret(k)]
      BY <1>2, <2>1
    <3>3. ret(k) \in Address
      BY <1>2, <2>3
    <3> QED BY <3>1, <3>2, <3>3 DEF Frame
  <2>5. waiting' \in Seq(Frame) /\ Len(waiting') = Len(waiting)
    <3>1. waiting' = [k \in 1..Len(waiting) |-> waiting'[k]]
      BY <1>2, <2>1
    <3> QED BY <1>2, <2>4, <3>1, SeqOf
  <2>6. TypeOK'
    <3>1. /\ waiting' \in Seq(Frame) /\ Len(waiting') <= MaxDepth
          /\ fixdata' \in Seq(Slot) /\ next' \in 0..(NumFn + 1) /\ mode' = "alive"
      <4>1. waiting' \in Seq(Frame) /\ Len(waiting') <= MaxDepth
        BY <1>2, <2>5
      <4>2. mode' = "alive" /\ next' \in 0..(NumFn + 1)
        BY <1>1, <2>1, FunctionsAssumption
      <4>3. fixdata' \in Seq(Slot)
        BY <1>1
      <4> QED BY <4>1, <4>2, <4>3
    <3>2. UNCHANGED <<callbacks, memory, toHandler, toRetaddr, table, va>>
      BY <1>1 DEF compiled
    <3> QED BY <1>1, <3>1, <3>2 DEF IInv, TypeOK, Frame
  <2>7. Frames'
    <3>1. \A k \in DOMAIN waiting' : Returns(waiting'[k].slot, waiting'[k].ret)
      <4>1. DOMAIN waiting' = 1..Len(waiting)
        BY <1>2, <2>1
      <4> QED BY <1>2, <2>3, <2>4, <4>1
    <3> QED BY <1>1, <3>1 DEF Frames, Returns, compiled
  <2> QED BY <1>3, <2>6, <2>7 DEF IInv
<1> QED BY <1>4, <1>5

----------------------------------------------------------------------------
(* The theorems.                                                           *)

\* A callback that does not end in its page: nothing of the bookkeeping has
\* changed yet.
LEMMA OverrunStep ==
  ASSUME IInv, NEW f \in Fn, Overrun(f)
  PROVE  IInv'
<1>1. /\ UNCHANGED <<compiled, tramps, given, attached, built, next, fixdata, waiting>>
      /\ mode' = "overrun"
  BY DEF Overrun
<1>2. TypeOK' /\ Frames'
  BY <1>1 DEF IInv, TypeOK, Frames, compiled
<1>3. Layout' /\ Maps' /\ Entries'
  BY <1>1, SameCallbacks DEF IInv, Entries
<1> QED BY <1>2, <1>3 DEF IInv

LEMMA InitIInv ==
  Init => IInv
<1> SUFFICES ASSUME Init PROVE IInv
  OBVIOUS
<1>1. EmptyAllocator \in Allocator /\ Held(EmptyAllocator) = {}
  BY SizesAssumption DEF EmptyAllocator, Allocator, Held
<1>2. TypeOK
  BY <1>1, FunctionsAssumption, MaxDepthAssumption DEF Init, TypeOK, Entry
<1>3. Layout /\ Maps
  BY <1>1 DEF Init, Layout, Maps
<1>4. Entries
  BY FunctionsAssumption DEF Init, Entries, Fn
<1>5. Frames
  BY DEF Init, Frames
<1> QED BY <1>2, <1>3, <1>4, <1>5 DEF IInv

LEMMA NextIInv ==
  IInv /\ [Next]_vars => IInv'
<1> SUFFICES ASSUME IInv, [Next]_vars PROVE IInv'
  OBVIOUS
<1>1. CASE CompileTramp
  BY <1>1, CompileTrampStep
<1>2. ASSUME NEW f \in Fn, PassThrough(f) PROVE IInv'
  BY <1>2, PassThroughStep
<1>3. ASSUME NEW f \in Fn, GiveUp(f) PROVE IInv'
  BY <1>3, GiveUpStep
<1>4. ASSUME NEW f \in Fn, CompileFixed(f) PROVE IInv'
  BY <1>4, CompileFixedStep
<1>5. ASSUME NEW f \in Fn, CompileVa(f) PROVE IInv'
  BY <1>5, CompileVaStep
<1>6. ASSUME NEW p \in Plugin, Attach(p) \/ Detach(p) PROVE IInv'
  BY <1>6, ListStep
<1>7. ASSUME NEW f \in Fn, Enter(f) PROVE IInv'
  BY <1>7, EnterStep
<1>8. CASE Return
  BY <1>8, ReturnStep
<1>9. CASE Rebuild
  BY <1>9, RebuildStep
<1>10. CASE FixFrames
  BY <1>10, FixFramesStep
<1>11. ASSUME NEW f \in Fn, Overrun(f) PROVE IInv'
  BY <1>11, OverrunStep
<1>12. CASE UNCHANGED vars
  <2>1. UNCHANGED <<compiled, tramps, given, attached, built, next, fixdata, waiting, mode>>
    BY <1>12 DEF vars
  <2>2. TypeOK' /\ Frames'
    BY <2>1 DEF IInv, TypeOK, Frames, Returns, compiled
  <2>3. Layout' /\ Maps' /\ Entries'
    BY <2>1, SameCallbacks DEF IInv, Entries
  <2> QED BY <2>2, <2>3 DEF IInv
<1> QED
  BY <1>1, <1>2, <1>3, <1>4, <1>5, <1>6, <1>7, <1>8, <1>9, <1>10, <1>11, <1>12
  DEF Next

LEMMA Inductive ==
  Spec => []IInv
BY InitIInv, NextIInv, PTL DEF Spec

\* The types are right throughout, in particular those of what
\* meta_collect_fix_data and meta_apply_fix_data look up in the two maps.
THEOREM TypeCorrect ==
  Spec => []TypeOK
<1>1. IInv => TypeOK
  BY DEF IInv
<1> QED BY <1>1, Inductive, PTL

\* Units that lie in what the allocator has handed out can be written to.
LEMMA LiesWritable ==
  ASSUME NEW al, NEW page, NEW at \in Nat, NEW n \in Nat,
         page \in Held(al), at + n <= PageSize
  PROVE  Units(page, at, n) \subseteq Writable(al)
BY SizesAssumption DEF Units, Writable

\* Only a callback larger than a page is written over the end of its page.
LargeOnly == mode = "overrun" => Size(next, attached) > PageSize

LEMMA NextLargeOnly ==
  IInv /\ LargeOnly /\ [Next]_vars => LargeOnly'
<1> SUFFICES ASSUME IInv, LargeOnly, [Next]_vars PROVE LargeOnly'
  OBVIOUS
<1>1. ASSUME NEW f \in Fn, Overrun(f) PROVE LargeOnly'
  <2> DEFINE n == Size(f, attached)
  <2>1. PICK page \in PageFor(callbacks, n) : ~EndsInPage(f, AddressFor(callbacks, n, page))
    BY <1>1 DEF Overrun, Destination
  <2>2. n \in Nat /\ next' = f /\ attached' = attached
    BY <1>1, SizeBounds DEF Overrun, Compiling, IInv, TypeOK
  <2>3. ~Fits(callbacks, n) /\ AddressFor(callbacks, n, page).at = 0
    BY <2>1 DEF AddressFor, EndsInPage, Fits
  <2>4. n > PageSize
    BY <2>1, <2>2, <2>3, SizesAssumption DEF EndsInPage
  <2> QED BY <2>2, <2>4 DEF LargeOnly
<1>2. CASE UNCHANGED vars
  BY <1>2 DEF vars, LargeOnly
<1>3. ASSUME NEW f \in Fn, PassThrough(f) \/ GiveUp(f) \/ CompileFixed(f) \/ CompileVa(f)
      PROVE  mode' # "overrun"
  <2>1. Compiling(f) /\ \E entry : Compiled(f, entry)
    BY <1>3 DEF PassThrough, GiveUp, CompileFixed, CompileVa
  <2> QED BY <2>1 DEF Compiling, Compiled
<1>4. ASSUME \/ CompileTramp \/ Return \/ Rebuild \/ FixFrames
             \/ \E p \in Plugin : Attach(p) \/ Detach(p)
             \/ \E f \in Fn : Enter(f)
      PROVE  mode' # "overrun"
  BY <1>4 DEF CompileTramp, Return, Rebuild, FixFrames, Attach, Detach, Enter, Running
<1> QED BY <1>1, <1>2, <1>3, <1>4 DEF Next, LargeOnly

\* static_allocator never hands out the same bytes twice, nor bytes beyond a
\* page unless it is asked for more than one, and clear_callbacks leaves the
\* trampolines alone, whatever pages the system gives.
THEOREM CodeApartHolds ==
  Spec => []CodeApart
<1>0. Spec => []LargeOnly
  <2>1. Init => LargeOnly
    BY DEF Init, LargeOnly
  <2> QED BY <2>1, NextLargeOnly, Inductive, PTL DEF Spec
<1>1. ASSUME IInv, LargeOnly PROVE CodeApart
  <2>w. \A c \in memory : Width(c) \in Nat /\ c.at \in Nat /\ UnitsOf(c) = Units(c.page, c.at, Width(c))
    BY <1>1, WidthType DEF IInv, TypeOK, UnitsOf, Width
  <2>t. TrampSize \in Nat /\ \A k \in DOMAIN given : given[k].at \in Nat
    <3>1. \A k \in DOMAIN given : given[k] \in Address
      BY <1>1, SeqElements DEF IInv, TypeOK
    <3> QED BY <3>1, SizesAssumption DEF Address
  <2>1. \A c \in memory : UnitsOf(c) \subseteq Writable(callbacks)
    BY <1>1, <2>w, LiesWritable DEF IInv, Layout, Lies
  <2>2. \A c, d \in memory : c # d => UnitsOf(c) \cap UnitsOf(d) = {}
    <3> TAKE c, d \in memory
    <3> HAVE c # d
    <3>1. Apart(c, Width(c), d, Width(d))
      BY <1>1 DEF IInv, Layout
    <3>2. Units(c.page, c.at, Width(c)) \cap Units(d.page, d.at, Width(d)) = {}
      BY <2>w, <3>1, ApartUnits
    <3> QED BY <2>w, <3>2
  <2>3. \A k \in DOMAIN given : Units(given[k].page, given[k].at, TrampSize) \subseteq Writable(tramps)
    BY <1>1, <2>t, LiesWritable DEF IInv, Layout, Lies
  <2>4. \A k, l \in DOMAIN given :
          k # l => Units(given[k].page, given[k].at, TrampSize)
                   \cap Units(given[l].page, given[l].at, TrampSize) = {}
    BY <1>1, <2>t, ApartUnits DEF IInv, Layout
  <2>5. Held(callbacks) \cap Held(tramps) = {}
    BY <1>1 DEF IInv, Layout
  <2>6. mode = "overrun" => Size(next, attached) > PageSize
    BY <1>1 DEF LargeOnly
  <2> QED BY <2>1, <2>2, <2>3, <2>4, <2>5, <2>6 DEF CodeApart
<1> QED BY <1>0, <1>1, Inductive, PTL

\* Two callbacks at one address are the same.
LEMMA OneAtAddress ==
  ASSUME TypeOK, Layout, NEW c \in memory, NEW d \in memory, c.page = d.page, c.at = d.at
  PROVE  c = d
<1>1. Width(c) \in Nat \ {0} /\ Width(d) \in Nat \ {0} /\ c.at \in Nat
  BY WidthType DEF TypeOK
<1>2. ~Apart(c, Width(c), d, Width(d))
  BY <1>1 DEF Apart
<1> QED BY <1>2 DEF Layout

\* Whatever came and went, outside of a compilation every entry of a table
\* leads to code of its own function that calls the plugins there were at the
\* last rebuild.
THEOREM EntriesServeHolds ==
  Spec => []EntriesServe
<1>1. ASSUME IInv PROVE EntriesServe
  <2> SUFFICES ASSUME Running, NEW f \in Fn
               PROVE  \/ /\ table[f] = ToOriginal
                         /\ \/ f \in Uncompilable \cup (Variadic \ Formatted)
                            \/ f \in Formatted /\ VaFull(f)
                            \/ f \in Originals /\ Calls(f, built) = {}
                      \/ /\ Entered(f) # {}
                         /\ \A c \in Entered(f) : c.fn = f /\ c.calls = Calls(f, built)
    BY DEF EntriesServe
  <2>1. Served(f)
    BY <1>1 DEF IInv, Entries, Running
  <2>2. ASSUME NEW a, Leads(f, a, memory, built)
        PROVE  /\ CodeAt(a) # {}
               /\ \A c \in CodeAt(a) : c.fn = f /\ c.calls = Calls(f, built)
    <3>1. PICK d \in memory :
            d.page = a.page /\ d.at = a.at /\ d.fn = f /\ d.calls = Calls(f, built)
      BY <2>2 DEF Leads
    <3>2. \A c \in CodeAt(a) : c = d
      BY <1>1, <3>1, OneAtAddress DEF CodeAt, IInv
    <3> QED BY <3>1, <3>2 DEF CodeAt
  <2>3. ASSUME NEW a \in Address, table[f] = ToCode(a) PROVE Entered(f) = CodeAt(a)
    BY <2>3 DEF Entered, ToCode
  <2>4. ASSUME NEW i \in DOMAIN va, table[f] = ToVa(i), va[i].callback \in Address
        PROVE  Entered(f) = CodeAt(va[i].callback)
    <3>1. va[i].callback # Nowhere
      <4>1. \A a \in Address : a # <<>>
        BY DEF Address
      <4> QED BY <2>4, <4>1 DEF Nowhere
    <3> QED BY <2>4, <3>1 DEF Entered, ToVa
  <2> QED BY <2>1, <2>2, <2>3, <2>4 DEF Served
<1> QED BY <1>1, Inductive, PTL

\* What waits for a handler of a plugin that is still called returns into
\* code that is there, behind the call of this handler, after any number of
\* rebuilds: the second map that meta_rebuild_callbacks uses is part of the
\* inverse of the first, and both know the last compilation only.
THEOREM WaitingReturnHolds ==
  Spec => []WaitingReturn
<1>1. ASSUME IInv PROVE WaitingReturn
  BY <1>1 DEF IInv, Frames, Returns, Running, WaitingReturn
<1> QED BY <1>1, Inductive, PTL

----------------------------------------------------------------------------
(* When a rebuild ends the server.                                         *)

\* meta_apply_fix_data comes to Sys_Error exactly when a callback waits for a
\* handler of a plugin that does not run any more, and never because a function
\* has lost its callback in the rebuild, however the functions share the entries
\* of g_va_funcs.
ExitsForGone ==
  [][FixFrames =>
       (mode' = "exited" <=>
          \E k \in DOMAIN waiting : waiting[k].slot[2] \notin Calls(waiting[k].slot[1], attached))]_vars

\* A function that gets a callback in each rebuild in which somebody is called.
Wrappable(f, entries) ==
  /\ f \notin Uncompilable \cup (Variadic \ Formatted)
  /\ f \in Formatted => \E i \in DOMAIN entries : entries[i].fn = f

\* Callback c is one for plugins S, and each of its calls can be found by its
\* slot.
Current(c, S, retaddrs) ==
  /\ c.calls = Calls(c.fn, S)
  /\ \A k \in c.calls : \E e \in retaddrs : e[1] = <<c.fn, k>>

\* What callbacks wait for was called by a function of that kind.
FInv ==
  /\ IInv
  /\ \A c \in memory : Wrappable(c.fn, va) /\ Current(c, built, toRetaddr)
  /\ \A k \in DOMAIN waiting : Wrappable(waiting[k].slot[1], va)

\* A function does not lose its entry in g_va_funcs.
LEMMA WrappableKept ==
  ASSUME va \in Seq(VaEntry), Len(va) <= MaxVaFuncs, NEW g, Wrappable(g, va),
         \/ va' = va
         \/ \E f \in Formatted : \E target \in Address \cup {Nowhere} :
              ~VaFull(f) /\ va' = VaWith(f, target)
  PROVE  Wrappable(g, va')
<1>1. CASE va' = va
  BY <1>1 DEF Wrappable
<1>2. ASSUME NEW f \in Formatted, NEW target \in Address \cup {Nowhere},
             ~VaFull(f), va' = VaWith(f, target), g \in Formatted
      PROVE  \E i \in DOMAIN va' : va'[i].fn = g
  <2>1. /\ \A i \in DOMAIN va : i \in DOMAIN va' /\ (va[i].fn # f => va'[i] = va[i])
        /\ \E i \in DOMAIN va' : va'[i].fn = f
    BY <1>2, VaStep
  <2>2. \E i \in DOMAIN va : va[i].fn = g
    BY <1>2 DEF Wrappable
  <2> QED BY <2>1, <2>2
<1>3. CASE \E f \in Formatted : \E target \in Address \cup {Nowhere} :
             ~VaFull(f) /\ va' = VaWith(f, target)
  BY <1>2, <1>3 DEF Wrappable
<1> QED BY <1>1, <1>3

\* The calls of a callback that is written can be found by their slots, and
\* those of the others still can.
LEMMA WriteCodeListed ==
  ASSUME NEW f \in Fn, NEW a, WriteCode(f, a)
  PROVE  LET c == [fn |-> f, page |-> a.page, at |-> a.at, calls |-> Calls(f, attached)]
         IN /\ memory' = memory \cup {c} /\ toRetaddr \subseteq toRetaddr'
            /\ c.fn = f /\ c.calls = Calls(f, attached)
            /\ \A k \in c.calls : \E e \in toRetaddr' : e[1] = <<c.fn, k>>
<1> DEFINE c == [fn |-> f, page |-> a.page, at |-> a.at, calls |-> Calls(f, attached)]
<1>1. memory' = memory \cup {c} /\ toRetaddr' = RetaddrsWith(c)
  BY DEF WriteCode
<1>2. c.fn = f /\ c.calls = Calls(f, attached)
  OBVIOUS
<1> HIDE DEF c
<1>3. toRetaddr \subseteq toRetaddr'
  BY <1>1 DEF RetaddrsWith
<1>4. ASSUME NEW k \in c.calls PROVE \E e \in toRetaddr' : e[1] = <<c.fn, k>>
  <2> DEFINE s == <<ReturnAddress(c, k), <<c.fn, k>>>>
  <2>1. s \in Sites(c) /\ s[2] = <<c.fn, k>>
    BY DEF Sites
  <2> HIDE DEF s
  <2>2. CASE \E e \in toRetaddr : e[1] = s[2]
    BY <1>3, <2>1, <2>2
  <2>3. CASE \A e \in toRetaddr : e[1] # s[2]
    <3>1. <<s[2], s[1]>> \in toRetaddr'
      BY <1>1, <2>1, <2>3 DEF RetaddrsWith
    <3>2. <<s[2], s[1]>>[1] = <<c.fn, k>>
      BY <2>1
    <3> QED BY <3>1, <3>2
  <2> QED BY <2>2, <2>3
<1> QED BY <1>1, <1>2, <1>3, <1>4 DEF c

\* The compilation of a function.
LEMMA CompileCurrent ==
  ASSUME FInv, NEW f \in Fn, NEW a \in Address, WriteCode(f, a), Compiling(f),
         UNCHANGED <<built, waiting>>, Wrappable(f, va'),
         \A g : Wrappable(g, va) => Wrappable(g, va')
  PROVE  /\ \A c \in memory' : Wrappable(c.fn, va') /\ Current(c, built', toRetaddr')
         /\ \A k \in DOMAIN waiting' : Wrappable(waiting'[k].slot[1], va')
<1> DEFINE c == [fn |-> f, page |-> a.page, at |-> a.at, calls |-> Calls(f, attached)]
<1>1. /\ memory' = memory \cup {c} /\ toRetaddr \subseteq toRetaddr'
      /\ c.fn = f /\ c.calls = Calls(f, attached)
      /\ \A k \in c.calls : \E e \in toRetaddr' : e[1] = <<c.fn, k>>
  BY WriteCodeListed
<1> HIDE DEF c
<1>2. attached = built
  BY FunctionsAssumption DEF FInv, IInv, Entries, Compiling, Fn
<1>3. Wrappable(c.fn, va') /\ Current(c, built', toRetaddr')
  BY <1>1, <1>2 DEF Current
<1>4. \A d \in memory : Wrappable(d.fn, va') /\ Current(d, built', toRetaddr')
  BY <1>1 DEF FInv, Current
<1>5. \A k \in DOMAIN waiting' : Wrappable(waiting'[k].slot[1], va')
  BY DEF FInv
<1> QED BY <1>1, <1>3, <1>4, <1>5

\* Every step keeps the invariant.
LEMMA NextFInv ==
  FInv /\ [Next]_vars => FInv'
<1> SUFFICES ASSUME FInv, [Next]_vars PROVE FInv'
  OBVIOUS
<1>1. IInv /\ IInv' /\ va \in Seq(VaEntry) /\ Len(va) <= MaxVaFuncs
  BY NextIInv DEF FInv, IInv, TypeOK, VaEntry
<1>2. ASSUME UNCHANGED <<memory, toRetaddr, built, waiting>>, \A g : Wrappable(g, va) => Wrappable(g, va')
      PROVE  FInv'
  BY <1>1, <1>2 DEF FInv, Current
<1>3. ASSUME va' = va PROVE \A g : Wrappable(g, va) => Wrappable(g, va')
  BY <1>3 DEF Wrappable
<1>4. ASSUME UNCHANGED <<memory, toRetaddr, built, waiting, va>> PROVE FInv'
  BY <1>2, <1>3, <1>4
<1>5. CASE CompileTramp
  BY <1>4, <1>5 DEF CompileTramp, compiled
<1>6. ASSUME NEW f \in Fn, PassThrough(f) PROVE FInv'
  BY <1>4, <1>6 DEF PassThrough, Compiled
<1>7. ASSUME NEW f \in Fn, GiveUp(f) PROVE FInv'
  <2>1. \A g : Wrappable(g, va) => Wrappable(g, va')
    <3>1. \/ va' = va
          \/ \E h \in Formatted : \E target \in Address \cup {Nowhere} :
               ~VaFull(h) /\ va' = VaWith(h, target)
      BY <1>7 DEF GiveUp
    <3> QED BY <1>1, <3>1, WrappableKept
  <2> QED BY <1>2, <1>7, <2>1 DEF GiveUp, Compiled
<1>8. ASSUME NEW f \in Fn, CompileFixed(f) PROVE FInv'
  <2>1. PICK page \in PageFor(callbacks, Size(f, attached)) :
          LET a == AddressFor(callbacks, Size(f, attached), page)
          IN EndsInPage(f, a) /\ WriteCode(f, a) /\ Compiled(f, ToCode(a))
    BY <1>8 DEF CompileFixed, Destination
  <2> DEFINE a == AddressFor(callbacks, Size(f, attached), page)
  <2>2. /\ EndsInPage(f, a) /\ WriteCode(f, a) /\ Compiling(f)
        /\ UNCHANGED <<tramps, given, attached, built, waiting, va>>
    BY <1>8, <2>1 DEF CompileFixed, Compiled
  <2>3. a \in Address
    BY <1>1, <2>2, WriteCodeLeads
  <2> HIDE DEF a
  <2>4. Wrappable(f, va') /\ \A g : Wrappable(g, va) => Wrappable(g, va')
    BY <1>3, <1>8, <2>2, FunctionsAssumption DEF CompileFixed, Compilable, Wrappable
  <2> QED BY <1>1, <2>2, <2>3, <2>4, CompileCurrent DEF FInv
<1>9. ASSUME NEW f \in Fn, CompileVa(f) PROVE FInv'
  <2>1. PICK page \in PageFor(callbacks, Size(f, attached)) :
          LET a == AddressFor(callbacks, Size(f, attached), page)
          IN /\ EndsInPage(f, a) /\ WriteCode(f, a)
             /\ va' = VaWith(f, a)
             /\ Compiled(f, ToVa(CHOOSE i \in DOMAIN va' : va'[i].fn = f))
    BY <1>9 DEF CompileVa, Destination
  <2> DEFINE a == AddressFor(callbacks, Size(f, attached), page)
  <2>2. /\ EndsInPage(f, a) /\ WriteCode(f, a) /\ Compiling(f)
        /\ UNCHANGED <<tramps, given, attached, built, waiting>>
        /\ va' = VaWith(f, a) /\ f \in Formatted \ Uncompilable /\ ~VaFull(f)
    BY <1>9, <2>1 DEF CompileVa, Compilable, Compiled
  <2>3. a \in Address
    BY <1>1, <2>2, WriteCodeLeads
  <2> HIDE DEF a
  <2>4. \A g : Wrappable(g, va) => Wrappable(g, va')
    BY <1>1, <2>2, <2>3, WrappableKept
  <2>5. Wrappable(f, va')
    <3>1. \E i \in DOMAIN va' : va'[i].fn = f
      BY <1>1, <2>2, <2>3, VaStep
    <3> QED BY <2>2, <3>1 DEF Wrappable
  <2> QED BY <1>1, <2>2, <2>3, <2>4, <2>5, CompileCurrent DEF FInv
<1>10. ASSUME NEW p \in Plugin, Attach(p) \/ Detach(p) PROVE FInv'
  BY <1>4, <1>10 DEF Attach, Detach, compiled
<1>11. ASSUME NEW f \in Fn, Enter(f) PROVE FInv'
  <2>1. PICK c \in Entered(f) : \E k \in c.calls :
          waiting' = Append(waiting, [slot |-> <<c.fn, k>>, ret |-> ReturnAddress(c, k)])
    BY <1>11 DEF Enter
  <2>2. PICK k \in c.calls :
          waiting' = Append(waiting, [slot |-> <<c.fn, k>>, ret |-> ReturnAddress(c, k)])
    BY <2>1
  <2>3. UNCHANGED <<memory, toRetaddr, built, va>>
    BY <1>11 DEF Enter, compiled
  <2>4. c \in memory /\ Wrappable(c.fn, va)
    BY <1>1, EnteredThere DEF FInv, IInv, Current
  <2> DEFINE w == [slot |-> <<c.fn, k>>, ret |-> ReturnAddress(c, k)]
  <2>5. waiting' = Append(waiting, w) /\ w.slot[1] = c.fn
    BY <2>2
  <2> HIDE DEF w
  <2>6. \A j \in DOMAIN waiting' : (j \in DOMAIN waiting /\ waiting'[j] = waiting[j]) \/ waiting'[j] = w
    <3>1. /\ Len(waiting) \in Nat /\ DOMAIN waiting = 1..Len(waiting)
          /\ DOMAIN waiting' = 1..Len(waiting') /\ waiting \in Seq(Frame)
      BY <1>1, FrameTypes DEF IInv
    <3> QED BY <2>5, <3>1
  <2>7. \A j \in DOMAIN waiting' : Wrappable(waiting'[j].slot[1], va)
    BY <2>4, <2>5, <2>6 DEF FInv
  <2>8. \A d \in memory' : Wrappable(d.fn, va') /\ Current(d, built', toRetaddr')
    BY <1>3, <2>3 DEF FInv, Current
  <2>9. \A j \in DOMAIN waiting' : Wrappable(waiting'[j].slot[1], va')
    BY <1>3, <2>3, <2>7
  <2> QED BY <1>1, <2>8, <2>9 DEF FInv
<1>12. CASE Return
  <2>1. UNCHANGED <<memory, toRetaddr, built, va>> /\ waiting # <<>>
        /\ waiting' = SubSeq(waiting, 1, Len(waiting) - 1)
    BY <1>12 DEF Return, compiled
  <2>2. waiting \in Seq(Frame)
    BY <1>1, FrameTypes DEF IInv
  <2>3. \A j \in DOMAIN waiting' : j \in DOMAIN waiting /\ waiting'[j] = waiting[j]
    BY <2>1, <2>2, SeqFront
  <2>4. \A d \in memory' : Wrappable(d.fn, va') /\ Current(d, built', toRetaddr')
    BY <1>3, <2>1 DEF FInv, Current
  <2>5. \A j \in DOMAIN waiting' : Wrappable(waiting'[j].slot[1], va')
    BY <1>3, <2>1, <2>3 DEF FInv
  <2> QED BY <1>1, <2>4, <2>5 DEF FInv
<1>13. CASE Rebuild
  <2>1. memory' = {} /\ UNCHANGED <<va, waiting>>
    BY <1>13 DEF Rebuild, ClearCallbacks
  <2> QED BY <1>1, <1>3, <2>1 DEF FInv
<1>14. CASE FixFrames
  <2>1. UNCHANGED <<memory, toRetaddr, built, va>>
    BY <1>14 DEF FixFrames, compiled
  <2>2. DOMAIN waiting' = DOMAIN waiting /\ \A k \in DOMAIN waiting : waiting'[k].slot = waiting[k].slot
    <3>1. CASE waiting' = waiting
      BY <3>1
    <3>2. CASE waiting' = [k \in DOMAIN waiting |->
                            [waiting[k] EXCEPT !.ret = CHOOSE a \in NewRetaddr(fixdata[k]) : TRUE]]
      <4>1. \A k \in DOMAIN waiting : waiting[k] \in Frame
        BY <1>1, FrameTypes, SeqElements DEF IInv
      <4> QED BY <3>2, <4>1 DEF Frame
    <3> QED BY <1>14, <3>1, <3>2 DEF FixFrames
  <2>3. \A d \in memory' : Wrappable(d.fn, va') /\ Current(d, built', toRetaddr')
    BY <1>3, <2>1 DEF FInv, Current
  <2>4. \A j \in DOMAIN waiting' : Wrappable(waiting'[j].slot[1], va')
    BY <1>3, <2>1, <2>2 DEF FInv
  <2> QED BY <1>1, <2>3, <2>4 DEF FInv
<1>15. ASSUME NEW f \in Fn, Overrun(f) PROVE FInv'
  BY <1>4, <1>15 DEF Overrun, compiled
<1>16. CASE UNCHANGED vars
  BY <1>4, <1>16 DEF vars, compiled
<1> QED
  BY <1>5, <1>6, <1>7, <1>8, <1>9, <1>10, <1>11, <1>12, <1>13, <1>14, <1>15, <1>16
  DEF Next

\* The slot of a handler is in the second map exactly when the callback of its
\* function calls it.
LEMMA SlotListed ==
  ASSUME FInv, NEW f \in Fn, Served(f), Wrappable(f, va), NEW k
  PROVE  NewRetaddr(<<f, k>>) # {} <=> k \in Calls(f, built)
<1>1. ASSUME NewRetaddr(<<f, k>>) # {} PROVE k \in Calls(f, built)
  <2>1. PICK e \in toRetaddr : e[1] = <<f, k>>
    BY <1>1 DEF NewRetaddr
  <2>2. <<e[2], e[1]>> \in toHandler
    BY DEF FInv, IInv, Maps
  <2>3. PICK c \in memory : <<e[2], e[1]>> \in Sites(c)
    BY <2>2 DEF FInv, IInv, Maps
  <2>4. PICK j \in c.calls : <<e[2], e[1]>> = <<ReturnAddress(c, j), <<c.fn, j>>>>
    BY <2>3 DEF Sites
  <2>5. f = c.fn /\ k = j
    BY <2>1, <2>4
  <2> QED BY <2>5 DEF FInv, Current
<1>2. ASSUME k \in Calls(f, built) PROVE NewRetaddr(<<f, k>>) # {}
  <2>1. \E a : Leads(f, a, memory, built)
    BY <1>2 DEF Served, Wrappable, VaFull, VaOf
  <2>2. PICK c \in memory : c.fn = f /\ c.calls = Calls(f, built)
    BY <2>1 DEF Leads
  <2>3. \E e \in toRetaddr : e[1] = <<f, k>>
    BY <1>2, <2>2 DEF FInv, Current
  <2> QED BY <2>3 DEF NewRetaddr
<1> QED BY <1>1, <1>2

\* A rebuild ends the server for handlers of plugins that have gone, and for
\* nothing else.
THEOREM ExitsForGoneHolds ==
  Spec => ExitsForGone
<1>1. Init => FInv
  BY InitIInv DEF FInv, Init
<1>2. ASSUME FInv, FixFrames
      PROVE  mode' = "exited" <=>
               \E k \in DOMAIN waiting : waiting[k].slot[2] \notin Calls(waiting[k].slot[1], attached)
  <2>1. /\ mode = "alive" /\ next # 0 /\ attached = built /\ \A f \in Fn : Served(f)
    <3>1. mode = "alive" /\ next = NumFn + 1 /\ next # 0
      BY <1>2, FunctionsAssumption DEF FixFrames
    <3>2. \A f \in Fn : f < next
      BY <3>1, FunctionsAssumption DEF Fn
    <3> QED BY <1>2, <3>1, <3>2 DEF FInv, IInv, Entries
  <2>2. /\ DOMAIN fixdata = DOMAIN waiting
        /\ \A k \in DOMAIN waiting : fixdata[k] = waiting[k].slot /\ waiting[k].slot \in Slot
    <3>1. /\ fixdata \in Seq(Slot) /\ Len(fixdata) = Len(waiting)
          /\ \A k \in DOMAIN waiting : fixdata[k] = waiting[k].slot
      BY <1>2, <2>1 DEF FInv, IInv, TypeOK, Frames
    <3>2. /\ DOMAIN waiting = 1..Len(waiting)
          /\ \A k \in DOMAIN waiting : waiting[k].slot \in Slot
      BY <1>2, FrameTypes DEF FInv, IInv
    <3>3. DOMAIN fixdata = 1..Len(fixdata)
      BY <3>1, SeqElements
    <3> QED BY <3>1, <3>2, <3>3
  <2>3. ASSUME NEW k \in DOMAIN waiting
        PROVE  NewRetaddr(fixdata[k]) = {} <=> waiting[k].slot[2] \notin Calls(waiting[k].slot[1], attached)
    <3>1. PICK f \in Fn, j \in Position : waiting[k].slot = <<f, j>>
      BY <2>2 DEF Slot
    <3>2. Wrappable(f, va)
      BY <1>2, <3>1 DEF FInv
    <3>3. NewRetaddr(<<f, j>>) # {} <=> j \in Calls(f, built)
      BY <1>2, <2>1, <3>2, SlotListed
    <3> QED BY <2>1, <2>2, <3>1, <3>3
  <2>4. mode' = "exited" <=> \E k \in DOMAIN fixdata : NewRetaddr(fixdata[k]) = {}
    BY <1>2, <2>1 DEF FixFrames
  <2> QED BY <2>2, <2>3, <2>4
<1>3. ASSUME FInv, [Next]_vars
      PROVE  FixFrames =>
               (mode' = "exited" <=>
                  \E k \in DOMAIN waiting :
                    waiting[k].slot[2] \notin Calls(waiting[k].slot[1], attached))
  BY <1>2, <1>3
<1> QED BY <1>1, <1>3, NextFInv, PTL DEF Spec, ExitsForGone
=============================================================================
