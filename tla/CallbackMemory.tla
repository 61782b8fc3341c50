--------------------------- MODULE CallbackMemory ---------------------------
(***************************************************************************)
(* Where the code of the callbacks lives: CJit (callback_jit.cpp) with its *)
(* two allocators (mem_utils.cpp), the tables that engine and game DLL     *)
(* call through (engine_api.cpp, dllapi.cpp), the entries of the variadic  *)
(* functions, and the two maps by which meta_rebuild_callbacks             *)
(* (metamod.cpp) moves the return addresses of the callbacks that wait for *)
(* a plugin.                                                               *)
(*                                                                         *)
(* CallbackDispatch says what a callback does and takes it for granted     *)
(* that a table leads to it; this module is about that part.  Code is      *)
(* measured in units, one for each call a callback makes and one for the   *)
(* rest.  A rebuild is one uninterrupted call; its steps are told apart    *)
(* because the system chooses the pages.  With enough plugins a callback   *)
(* may be larger than a page, which nothing in the code prevents.          *)
(***************************************************************************)
EXTENDS Integers, Sequences, FiniteSets

CONSTANTS
  NumFn,        \* the functions of the tables are 1..NumFn, in their order
  Originals,    \* those that engine or game DLL implement
  PreHooked,    \* those that Metamod hooks itself, before the plugins
  PostHooked,   \* ... and after them
  Variadic,     \* those with a variable number of arguments
  Formatted,    \* those of them of the form void (x, const char *fmt, ...)
  Uncompilable, \* those with more arguments than MAX_CALLBACK_ARGS
  MaxVaFuncs,   \* MAX_VA_FUNCS
  NumPlugins,   \* plugins 1..NumPlugins, in list order
  Tables,       \* <<plugin, "pre" or "post">>: the tables the plugins provide
  Page,         \* the pages the system can give
  PageSize,     \* Pagesize, in units
  TrampSize,    \* the size of a trampoline, in units
  MaxDepth      \* bound on the callbacks that wait for one another

Fn     == 1..NumFn
Plugin == 1..NumPlugins

\* The calls of a callback, in the order of its code: Metamod's hook (0), the
\* plugins' pre handlers, their post handlers, Metamod's hook again.
Position == 0..(2 * NumPlugins + 1)

\* What the address of a handler's slot in a table identifies.
Slot == Fn \X Position

Calls(f, S) ==
  {k \in Position :
     \/ k = 0 /\ f \in PreHooked
     \/ k \in S /\ <<k, "pre">> \in Tables
     \/ k - NumPlugins \in S /\ <<k - NumPlugins, "post">> \in Tables
     \/ k = 2 * NumPlugins + 1 /\ f \in PostHooked}

Size(f, S) == 1 + Cardinality(Calls(f, S))

ASSUME FunctionsAssumption ==
  /\ NumFn \in Nat
  /\ Originals \subseteq Fn /\ PreHooked \subseteq Fn /\ PostHooked \subseteq Fn
  /\ Uncompilable \subseteq Fn /\ Formatted \subseteq Variadic /\ Variadic \subseteq Fn
  /\ MaxVaFuncs \in Nat
ASSUME PluginsAssumption ==
  /\ NumPlugins \in Nat
  /\ Tables \subseteq Plugin \X {"pre", "post"}
\* The size of a trampoline is fixed; that of a callback grows with the plugins.
ASSUME SizesAssumption == PageSize \in Nat /\ TrampSize \in 1..PageSize
ASSUME MaxDepthAssumption == MaxDepth \in Nat

Address   == [page : Page, at : 0..PageSize]
Allocator == [pages : Seq(Page), used : 0..PageSize]
Code      == [fn : Fn, page : Page, at : 0..PageSize, calls : SUBSET Position]

\* What is in an entry of a table.
ToOriginal == <<"original">>
ToCode(a)  == <<"code", a>>
ToVa(i)    == <<"va", i>>
Entry      == {ToOriginal} \cup {ToCode(a) : a \in Address} \cup {ToVa(i) : i \in 1..MaxVaFuncs}

\* g_va_funcs[i].callback before the first one is compiled.
Nowhere == <<>>

VARIABLES
  callbacks,  \* m_callback_allocator
  tramps,     \* m_tramp_allocator
  given,      \* the trampolines in the tables given away, in their order
  memory,     \* the callbacks in the pages of m_callback_allocator
  toHandler,  \* m_retaddr_to_handler, as <<return address, slot>>
  toRetaddr,  \* m_handler_to_retaddr, as <<slot, return address>>
  table,      \* the entries of g_meta_engfuncs_jit, sFunctionTable_jit, ...
  va,         \* g_va_funcs
  attached,   \* the plugins that are running
  built,      \* those the callbacks were compiled for
  next,       \* the function compiled next, or 0 outside of a compilation
  fixdata,    \* the slots collected for the frames of waiting
  waiting,    \* the handlers that callbacks wait for, and where they return to
  mode        \* "alive", "exited" by Sys_Error, or "overrun"

compiled == <<callbacks, memory, toHandler, toRetaddr, table, va>>
vars == <<compiled, tramps, given, attached, built, next, fixdata, waiting, mode>>

----------------------------------------------------------------------------
(* static_allocator.                                                       *)

EmptyAllocator == [pages |-> <<>>, used |-> 0]

Held(al) == {al.pages[k] : k \in DOMAIN al.pages}

\* allocate: the last page is used while there is room.
Fits(al, n) == al.pages # <<>> /\ al.used + n <= PageSize

\* allocate_page: any page that is not in use, otherwise the last one.
PageFor(al, n) ==
  IF Fits(al, n) THEN {al.pages[Len(al.pages)]} ELSE Page \ (Held(callbacks) \cup Held(tramps))

\* Mutant: m_used is not reset with a new page.
AddressAfter(al, n, page) == [page |-> page, at |-> al.used]

AddressFor(al, n, page) == [page |-> page, at |-> IF Fits(al, n) THEN al.used ELSE 0]

Allocated(al, n, page) ==
  IF Fits(al, n) THEN [al EXCEPT !.used = @ + n] ELSE [pages |-> Append(al.pages, page), used |-> n]

\* deallocate_all, which leaves m_used alone.
Deallocated(al) == [al EXCEPT !.pages = <<>>]

----------------------------------------------------------------------------
(* CJit.                                                                   *)

\* The instruction after the call at position k.
ReturnAddress(c, k) ==
  [page |-> c.page, at |-> c.at + Cardinality({j \in c.calls : j <= k})]

Sites(c) == {<<ReturnAddress(c, k), <<c.fn, k>>>> : k \in c.calls}

\* register_call_site, for all calls of a callback: the first map takes the
\* new value, the second (emplace) keeps the old one.
HandlersWith(c)  == {e \in toHandler : \A s \in Sites(c) : s[1] # e[1]} \cup Sites(c)
RetaddrsWith(c)  ==
  toRetaddr \cup {<<s[2], s[1]>> : s \in {t \in Sites(c) : \A e \in toRetaddr : e[1] # t[2]}}

\* is_hook_needed: mm_hook is set for the functions that Metamod hooks itself.
Wrapped(f) ==
  f \notin Originals \/ f \in PreHooked \cup PostHooked \/ Calls(f, attached) # {}

\* The entry of g_va_funcs that a variadic function has, if it has one.
VaOf(f)    == {i \in DOMAIN va : va[i].fn = f}
VaFull(f)  == VaOf(f) = {} /\ Len(va) = MaxVaFuncs

\* Mutant: the search for the entry of a function fails.
VaAppended(f, target) == Append(va, [fn |-> f, callback |-> target])

\* Mutant: the entry of a function that is hooked again keeps its callback.
VaKept(f, target) == IF VaOf(f) = {} THEN Append(va, [fn |-> f, callback |-> target]) ELSE va

VaWith(f, target) ==
  IF VaOf(f) = {}
  THEN Append(va, [fn |-> f, callback |-> target])
  ELSE [i \in DOMAIN va |-> IF va[i].fn = f THEN [fn |-> f, callback |-> target] ELSE va[i]]

Compiling(f) == mode = "alive" /\ next = f /\ f \in Fn /\ Len(given) = NumFn

Compiled(f, entry) ==
  /\ table' = [table EXCEPT ![f] = entry]
  /\ next' = f + 1
  /\ UNCHANGED <<tramps, given, attached, built, fixdata, waiting, mode>>

\* compile_callback, compile_va_callback: the function is not wrapped.
PassThrough(f) ==
  /\ Compiling(f)
  /\ \/ ~Wrapped(f)
     \/ f \in Variadic \ Formatted
     \/ f \in Formatted /\ VaFull(f)
  /\ UNCHANGED <<callbacks, memory, toHandler, toRetaddr, va>>
  /\ Compiled(f, ToOriginal)

\* compile_fixed_callback gives up; a variadic function has got an entry.
GiveUp(f) ==
  /\ Compiling(f)
  /\ Wrapped(f) /\ f \in Uncompilable /\ f \notin Variadic \ Formatted
  /\ f \in Formatted => ~VaFull(f)
  /\ va' = IF f \in Formatted /\ VaOf(f) = {} THEN VaWith(f, Nowhere) ELSE va
  /\ UNCHANGED <<callbacks, memory, toHandler, toRetaddr>>
  /\ Compiled(f, ToOriginal)

\* compile_fixed_callback is asked for the callback of f.
Compilable(f) ==
  /\ Wrapped(f) /\ f \notin Uncompilable \cup (Variadic \ Formatted)
  /\ f \in Formatted => ~VaFull(f)

\* Where it may put the callback.
Destination(f) ==
  {AddressFor(callbacks, Size(f, attached), page) : page \in PageFor(callbacks, Size(f, attached))}

\* The callback at a would end inside its page.
EndsInPage(f, a) == a.at + Size(f, attached) <= PageSize

\* compile_fixed_callback writes the callback of f to an address.
WriteCode(f, a) ==
  LET c == [fn |-> f, page |-> a.page, at |-> a.at, calls |-> Calls(f, attached)]
  IN /\ callbacks' = Allocated(callbacks, Size(f, attached), a.page)
     /\ memory' = memory \cup {c}
     /\ toHandler' = HandlersWith(c)
     /\ toRetaddr' = RetaddrsWith(c)

CompileFixed(f) ==
  /\ Compiling(f)
  /\ Compilable(f) /\ f \notin Variadic
  /\ \E a \in Destination(f) :
       EndsInPage(f, a) /\ WriteCode(f, a) /\ Compiled(f, ToCode(a))
  /\ UNCHANGED va

\* compile_va_callback: the table gets the static entry, which gets the code.
CompileVa(f) ==
  /\ Compiling(f)
  /\ Compilable(f) /\ f \in Variadic
  /\ \E a \in Destination(f) :
       /\ EndsInPage(f, a)
       /\ WriteCode(f, a)
       /\ va' = VaWith(f, a)
       /\ Compiled(f, ToVa(CHOOSE i \in DOMAIN va' : va'[i].fn = f))

\* The allocator never asks whether a page is large enough: what is written
\* behind its end may be anybody's, and nothing is said of what follows.
Overrun(f) ==
  /\ Compiling(f)
  /\ Compilable(f)
  /\ \E a \in Destination(f) : ~EndsInPage(f, a)
  /\ mode' = "overrun"
  /\ UNCHANGED <<compiled, tramps, given, attached, built, next, fixdata, waiting>>

\* compile_tramp: a jump through the entry of the table.
Tramp(page) == AddressFor(tramps, TrampSize, page)

\* compile_engine_tramps, compile_gamedll_tramps: once for every function,
\* before the first compilation.
CompileTramp ==
  /\ mode = "alive" /\ next = 1 /\ Len(given) < NumFn
  /\ \E page \in PageFor(tramps, TrampSize) :
       /\ given' = Append(given, Tramp(page))
       /\ tramps' = Allocated(tramps, TrampSize, page)
  /\ UNCHANGED <<compiled, attached, built, next, fixdata, waiting, mode>>

----------------------------------------------------------------------------
(* The system around CJit.                                                 *)

Init ==
  /\ callbacks = EmptyAllocator /\ tramps = EmptyAllocator
  /\ given = <<>>
  /\ memory = {} /\ toHandler = {} /\ toRetaddr = {}
  /\ table = [f \in Fn |-> ToOriginal]
  /\ va = <<>>
  /\ attached = {} /\ built = {}
  /\ next = 1
  /\ fixdata = <<>> /\ waiting = <<>>
  /\ mode = "alive"

Running == mode = "alive" /\ next = 0

\* A plugin is loaded or unloaded.  What follows before the rebuild runs on
\* the old callbacks.
Attach(p) ==
  /\ Running
  /\ attached' = attached \cup {p}
  /\ attached' # attached
  /\ UNCHANGED <<compiled, tramps, given, built, next, fixdata, waiting, mode>>

Detach(p) ==
  /\ Running
  /\ attached' = attached \ {p}
  /\ attached' # attached
  /\ UNCHANGED <<compiled, tramps, given, built, next, fixdata, waiting, mode>>

\* The code that is entered when f is called through its table.
CodeAt(a)   == {c \in memory : c.page = a.page /\ c.at = a.at}
Entered(f)  ==
  CASE table[f][1] = "original" -> {}
    [] table[f][1] = "code"     -> CodeAt(table[f][2])
    [] table[f][1] = "va"       ->
         IF va[table[f][2]].callback = Nowhere THEN {} ELSE CodeAt(va[table[f][2]].callback)

\* A call of f waits for the handler of a plugin that is still there.
Enter(f) ==
  /\ Running /\ Len(waiting) < MaxDepth
  /\ \E c \in Entered(f) : \E k \in c.calls :
       /\ k \in attached \/ k - NumPlugins \in attached
       /\ waiting' = Append(waiting, [slot |-> <<c.fn, k>>, ret |-> ReturnAddress(c, k)])
  /\ UNCHANGED <<compiled, tramps, given, attached, built, next, fixdata, mode>>

Return ==
  /\ Running /\ waiting # <<>>
  /\ waiting' = SubSeq(waiting, 1, Len(waiting) - 1)
  /\ UNCHANGED <<compiled, tramps, given, attached, built, next, fixdata, mode>>

\* meta_collect_fix_data, for the frames it finds: the handler's slot of each.
Collected ==
  [k \in DOMAIN waiting |-> CHOOSE s \in Slot : <<waiting[k].ret, s>> \in toHandler]

\* Mutant: the slots of earlier callbacks stay in the second map.
ClearHandlers ==
  /\ callbacks' = Deallocated(callbacks)
  /\ memory' = {} /\ toHandler' = {} /\ UNCHANGED toRetaddr

\* clear_callbacks
ClearCallbacks ==
  /\ callbacks' = Deallocated(callbacks)
  /\ memory' = {} /\ toHandler' = {} /\ toRetaddr' = {}

\* meta_rebuild_callbacks, up to the compilation.
Rebuild ==
  /\ Running
  /\ fixdata' = Collected
  /\ ClearCallbacks
  /\ built' = attached
  /\ next' = 1
  /\ UNCHANGED <<tramps, given, table, va, attached, waiting, mode>>

\* meta_apply_fix_data, or Sys_Error if a handler is not called any more.
NewRetaddr(s) == {e[2] : e \in {x \in toRetaddr : x[1] = s}}

FixFrames ==
  /\ mode = "alive" /\ next = NumFn + 1
  /\ next' = 0
  /\ fixdata' = <<>>
  /\ IF \E k \in DOMAIN fixdata : NewRetaddr(fixdata[k]) = {}
     THEN mode' = "exited" /\ UNCHANGED waiting
     ELSE /\ waiting' = [k \in DOMAIN waiting |->
                          [waiting[k] EXCEPT !.ret = CHOOSE a \in NewRetaddr(fixdata[k]) : TRUE]]
          /\ UNCHANGED mode
  /\ UNCHANGED <<compiled, tramps, given, attached, built>>

Next ==
  \/ CompileTramp
  \/ \E f \in Fn : PassThrough(f) \/ GiveUp(f) \/ CompileFixed(f) \/ CompileVa(f) \/ Overrun(f)
  \/ \E p \in Plugin : Attach(p) \/ Detach(p)
  \/ \E f \in Fn : Enter(f)
  \/ Return
  \/ Rebuild
  \/ FixFrames

Spec == Init /\ [][Next]_vars

----------------------------------------------------------------------------
(* Properties.                                                             *)

\* Every variable holds a value of its type.
TypeOK ==
  /\ callbacks \in Allocator /\ tramps \in Allocator
  /\ given \in Seq(Address)
  /\ memory \subseteq Code
  /\ toHandler \subseteq Address \X Slot
  /\ toRetaddr \subseteq Slot \X Address
  /\ table \in [Fn -> Entry]
  /\ va \in Seq([fn : Formatted, callback : Address \cup {Nowhere}]) /\ Len(va) <= MaxVaFuncs
  /\ attached \subseteq Plugin /\ built \subseteq Plugin
  /\ next \in 0..(NumFn + 1)
  /\ fixdata \in Seq(Slot)
  /\ waiting \in Seq([slot : Slot, ret : Address]) /\ Len(waiting) <= MaxDepth
  /\ mode \in {"alive", "exited", "overrun"}

\* The units from an address, n of them.
Units(page, at, n) == {page} \X (at..(at + n - 1))
UnitsOf(c)         == Units(c.page, c.at, 1 + Cardinality(c.calls))
Writable(al)       == Held(al) \X (0..(PageSize - 1))

\* No callback is written over another, nor over the end of its page unless
\* it is larger than a page, and the trampolines, to which engine and game DLL
\* hold pointers for ever, are in nobody's way (static_allocator::allocate,
\* deallocate_all).
CodeApart ==
  /\ \A c \in memory : UnitsOf(c) \subseteq Writable(callbacks)
  /\ \A c, d \in memory : c # d => UnitsOf(c) \cap UnitsOf(d) = {}
  /\ \A k \in DOMAIN given : Units(given[k].page, given[k].at, TrampSize) \subseteq Writable(tramps)
  /\ \A k, l \in DOMAIN given :
       k # l => Units(given[k].page, given[k].at, TrampSize)
                \cap Units(given[l].page, given[l].at, TrampSize) = {}
  /\ Held(callbacks) \cap Held(tramps) = {}
  /\ mode = "overrun" => Size(next, attached) > PageSize

\* Outside of a compilation, a call through the tables runs code that was
\* written for this very function and calls every plugin of the last rebuild,
\* unless the function cannot be wrapped; a variadic function comes to its own
\* code whichever entry of g_va_funcs it has got (compile_callback).
EntriesServe ==
  Running =>
    \A f \in Fn :
      \/ /\ table[f] = ToOriginal
         /\ \/ f \in Uncompilable \cup (Variadic \ Formatted)
            \/ f \in Formatted /\ VaFull(f)
            \/ f \in Originals /\ Calls(f, built) = {}
      \/ /\ Entered(f) # {}
         /\ \A c \in Entered(f) : c.fn = f /\ c.calls = Calls(f, built)

\* A callback that waits for a handler returns behind the call of this
\* handler, in code that is there, however often and with whatever plugins the
\* callbacks have been rebuilt (register_call_site, meta_apply_fix_data).
WaitingReturn ==
  Running =>
    \A k \in DOMAIN waiting :
      \E c \in memory :
        /\ c.fn = waiting[k].slot[1] /\ waiting[k].slot[2] \in c.calls
        /\ ReturnAddress(c, waiting[k].slot[2]) = waiting[k].ret

=============================================================================
