# A formal model of Lua 5.1.5

The repository is a guided tour of Lua 5.1 (`src/book`, `src/site`) around the
sources of Lua 5.1.5 (`src/lua-5.1.5/src`).  This project models that program in
TLA+, checks small instances with TLC and proves theorems about the models with
TLAPS.  Paths below are relative to `src/lua-5.1.5/src` unless they start with
`src/`.

## 1. Inventory

Lua is a sequential C library, but it is full of interleavings all the same: the
collector advances in small steps between the operations of the program, a
program may be called back (metamethods, finalizers, hooks, readers, allocators)
in the middle of the library's operations, errors leave any operation by
`longjmp`, and coroutines switch stacks.

| Component | State | Operations | Interacts with | Hard | What makes it correct |
|---|---|---|---|---|---|
| Collector (`lgc.c`, `lgc.h`) | colours, `gcstate`, lists `gray`, `grayagain`, `weak`, `tmudata`, the sweep positions | `singlestep`, `luaC_step`, `luaC_fullgc`, `luaC_separateudata`, barriers, `luaC_link` | every module that creates or writes an object; finalizers call back | incremental: runs between any two writes of the program; phases treat barriers differently; resurrection; full collections abandon cycles | nothing reachable is freed, garbage is freed, finalizers run once and first |
| Upvalues (`lfunc.c`) | open upvalue lists, `UpVal.v` | `luaF_findupval`, `luaF_close`, `luaF_freeupval` | stacks, collector | an upvalue outlives its stack; is found or closed in any phase of the collector | one upvalue per live slot; values survive closing |
| Strings (`lstring.c`) | `strt` | `luaS_newlstr`, `luaS_resize` | collector (dead strings are revived), lexer | resize against the sweep | one object per content, never a dead one |
| Tables (`ltable.c`) | array part, node vector with chains, `lastfree` | get, set, `newkey`, `rehash`, `next`, `getn` | collector (dead keys), VM | chains are spliced and moved; traversal while fields are cleared | a table is a finite map; traversal visits each field once; `#t` is a border |
| Calls and errors (`ldo.c`) | stack, `CallInfo` list, `nCcalls`, `errorJmp`, `status` | `luaD_precall`, `luaD_poscall`, `luaD_call`, `luaD_pcall`, `luaD_throw` | VM, API, debug hooks | errors at any depth; overflow of the C stack and of the Lua stack, also while handling an error; the stack moves | after a protected call the state is as before it |
| Coroutines (`ldo.c`, `lbaselib.c`) | status of each thread, who resumed whom | `lua_resume`, `lua_yield`, `coroutine.*` | calls, upvalues | yield across C frames; resume of running, dead or failed coroutines | one running thread; status reported is the real one |
| VM (`lvm.c`, `lopcodes.c`) | `pc`, registers | `luaV_execute`, `luaV_gettable`/`settable`, comparison, concat | tables, tag methods, calls | metamethods reallocate the stack under the interpreter; metamethod loops | instructions do what the manual says |
| Tag methods (`ltm.c`) | `flags` cache of absent fields | `fasttm`, `luaT_gettm` | tables | the cache is stale after a raw write that does not reset it | a cached absence is a real absence |
| API (`lapi.c`) | stack top, pseudo-indices | push, get, set, call, load, gc control | all | environments and pseudo-indices; barriers | stack discipline, barriers |
| State (`lstate.c`) | `global_State`, threads | `lua_newstate`, `lua_close`, `luaE_newthread` | collector | failing half-way; finalizers that raise errors while closing | all finalizers run, all memory is returned |
| Memory (`lmem.c`) | `totalbytes` | `luaM_realloc_`, `luaM_growaux_` | all | overflow of sizes, failure of the allocator | the count is exact; arrays grow to their limit |
| Input (`lzio.c`, `llex.c`) | buffer, look-ahead token | `luaZ_fill`, `luaZ_read`, `luaX_next` | reader callback, parser | pieces of any size | a token stream independent of the pieces |
| Parser and code generator (`lparser.c`, `lcode.c`) | blocks, active variables, upvalue names, free register, jump lists | recursive descent; `luaK_*` | lexer, collector | registers and jump lists through every expression kind; limits | no register is lost or shared, every jump is patched |
| Bytecode (`ldump.c`, `lundump.c`, `ldebug.c`) | - | dump, undump, `symbexec` | reader and writer callbacks | truncated or wrong chunks | undump(dump(p)) = p; checked code is well formed |
| Debug (`ldebug.c`, `ldblib.c`) | hooks, `hookcount` | `lua_sethook`, `lua_getinfo`, `lua_getlocal` | VM, calls | hooks during hooks | hook discipline |
| Auxiliary library (`lauxlib.c`) | reference free list, buffers on the stack | `luaL_ref`/`unref`, `luaL_Buffer`, `luaL_loadfile` | API | stack use of a growing buffer; reuse of references | references are distinct; buffers keep content and stack |
| Standard libraries (`lbaselib.c`, `lstrlib.c`, `ltablib.c`, `lmathlib.c`, `liolib.c`, `loslib.c`, `loadlib.c`) | file handles, `package.loaded` | library functions | API, C library | pattern matching with captures; sorting with a bad order; closing handles twice; `require` loops | results of the manual |
| Stand-alone programs (`lua.c`, `luac.c`, `print.c`) | signal hook | command line | all | a signal between any two instructions | interrupt is delivered once |

Not modelled, on purpose: `lmathlib.c` and `loslib.c` (wrappers of C functions
without state), `ldump.c` and `lundump.c` (a straight conversion), characters to
tokens in `llex.c`, `print.c` (output), the book, its site and assets, `etc/` and
the makefiles. What is left out of the modelled components is said in the sections
below.

## 2. Modules

Each module is parameterised by CONSTANTS with a named assumption, has one action per
operation, and keeps RECURSIVE operators out of what is proved about.

| Section | Modules | Models | Runs | Proofs |
|---|---|---|---|---|
| 3 | `LuaHeap`, `LuaCollector`, `LuaProgram`, composed in `LuaGC`; `MCLuaGC` | the collector against the program | `gc_tables`, `gc_userdata`, `gc_functions`, `gc_liveness`, `v_setupvalue` | `LuaGCProofs`, `LuaGCSafetyProofs` |
| 4 | `LuaTable` implementing the abstract `LuaTableMap`; `MCLuaTable` | one table, its node chains, rehash, traversal | `table_map` | `LuaTableProofs` |
| 5 | `LuaCall`, `MCLuaCall` | calls, protected calls, overflow, hooks, coroutines over the C stack | `calls`, `coroutines` | `LuaCallStack`, `LuaCallProofs` |
| 6 | `LuaMeaning`, `LuaCode`, `LuaCheck`, `LuaParser`, `LuaVM`; `MCLuaVM` | the compiler, the checker of its code, and the virtual machine, against the meaning of the program | `code`, `v_setlist_word` | - |
| 7 | `LuaMeta`, `MCLuaMeta` | metatables, their cache, the operations that consult them | `meta` | `LuaMetaProofs` |
| 8 | `LuaRefs`, `LuaBuffer`, `LuaFiles`, `LuaRequire`, `LuaClose`, `LuaInterrupt`, `LuaSort`, `LuaStrings`, `LuaStack`, `LuaPattern`, `LuaText`; `MCLuaParts` | the components with a state of their own | `parts` | `LuaPartsProofs` |

How they compose: `LuaGC` puts the collector and the program over one heap;
`LuaTable` refines `LuaTableMap`; `LuaVM` runs what `LuaParser` compiles through
`LuaCode`, which `LuaCheck` checks, and compares it with `LuaMeaning`; `LuaText` is
`string.find`, `gmatch` and `gsub` over the matcher of `LuaPattern`. The modules of
section 8 share no state, and one run explores them one at a time.

`LuaSequences` holds the lemmas that several of the proofs need: induction up to a
bound, what `FlattenSeq` returns, sequences without repetition, the elements of a sequence
that are in a set. The theorems of the library for induction take an operator as a
parameter, which the provers cannot instantiate; `Induction` takes the property as a
set of numbers instead, and follows from the least-number principle. A recursive function of
the models (`FlattenSeq`, `Listed`, the loops of `LuaTable`) is reasoned about by an existence lemma
(`FlatteningExists`, `PickingExists`, `ChasingExists`, `FoldingExists`, `MovesExist`), a uniqueness lemma where it is needed, and what each step adds.

Model-checked but not proved: the compiler and the virtual machine, patterns, and what is live (`MarkingEnds`,
`GarbageCollected`, `CloseEnds`).


## 3. The collector and the program (`LuaGC`)

### Modules and correspondence

* `LuaHeap` declares the state: colours (`color`), the collector's variables and
  the heap. Colours are kept relative to `g->currentwhite`, so the flip in
  `atomic()` renames the whites instead of flipping a bit. An address is a member
  of one of the sets `Tables`, `LClosures`, ... and `color[o] = "free"` while it is
  not allocated; addresses are reused. It also holds what both sides share: `Mark`
  (`reallymarkobject`), `ForwardBarrier` (`luaC_barrierf`), `BackBarrier`
  (`luaC_barrierback`), `Alloc` and `Link` (`luaC_link`).
* `LuaCollector` has one action per case of `singlestep()`: `StartCycle`,
  `PropagateMark`, the stages of `atomic()`, `SweepString`, `SweepObject`, `GCTM`,
  `EndCycle`; and `FullGC`/`FullGCMark` for `luaC_fullgc`. `atomic()` is unfolded
  into its stages (`atomic` = 1..4) so that each `propagateall()` is a sequence of
  `PropagateMark` steps; no program action is enabled in between (`MutatorRuns`).
* `LuaProgram` has one action per way of the VM and the API to change the heap,
  each with the barrier at that place of the code, or without one where the code has
  none: table assignment (with `newkey`'s barrier for the key), metatables of
  tables, userdata and basic types, environments, upvalues of Lua and of C
  functions, moves between stacks, closures, coroutines, the parser's
  prototypes and constants. `luaC_checkGC` is called by every allocating operation,
  hence collector steps may fall between any two of these actions. A program
  manipulates only what it can get hold of (`InHand`, `Readable`).
* `LuaGC` composes them, states the properties and the fairness.
* `MCLuaGC` gives TLC a set of small programs. A program fixes which objects it
  creates, which tables it writes and with which keys; the interleavings, the
  values and the order of operations stay open. Splitting one large program into
  several small ones keeps the product of unrelated objects out of the state
  space, which is what lets every part of the collector meet every phase.

The lists `gray`, `grayagain`, `weak` and `tmudata` are sets: the order of
traversal is left open, which covers the code's stack order. `Rank` restricts the
order in two runs, where objects that exist from the start are taken first.

### Runs

| Run | Distinct states | Checks |
|---|---|---|
| `gc_tables` | 0.8 M | `TypeOK`, `NoDangling`, `TriColor`, `GrayLists` (`ListDiscipline` and `AtomicStages`): two tables that refer to each other, tables as keys, weak keys, both weak modes, weak tables of strings |
| `gc_userdata` | 1.0 M | `NoDangling`, `FinalizedBeforeFreed`, `WeakAroundFinalizers` (values leave weak tables before finalizers run, keys after): finalizers, resurrection, userdata in weak tables |
| `gc_functions` | 0.6 M | `NoDangling`, `SweptWithThreads` (`SweepBookkeeping` and `OpenUpvalues`): shared upvalues, a coroutine that dies with an open upvalue, C closures, the parser |
| `gc_liveness` | 45 k | `FreesGarbageOnly`, and under fairness `MarkingEnds`, `GarbageCollected`; strings: interning, revival, fixed strings |

and `v_setupvalue`, which ends with a counterexample on purpose (section "Findings").

`NoDangling` is the main property: the roots and the live objects refer to live
objects only. The other invariants say why it holds (tri-colour, one list per
object, what each stage of `atomic()` establishes, what the sweep leaves behind).
`FreesGarbageOnly` states the same end to end, with reachability written
independently of the collector as a least fixpoint.

### Bounds

* Objects per program: the two or three that a part of the collector needs besides
  the globals, the registry and the main thread. Every barrier, weak mode and
  finalization scenario involves at most a container, a key and a value.
* `StackSize` is 1 or 2: a value can be kept while another is written.
* `Held`, `Written`, `Metas`, `Envs`: the objects a program loads, writes,
  uses as metatables and environments.
* `Keys`: the keys used; an integer key stands for a key in the array part (never
  removed), an object key for a node.
* `NBuckets` is 1, and 2 in `gc_liveness`, where strings before and after the sweep
  position matter. The string table is not resized.
* `gc_functions` has one program that starts from a coroutine that has yielded and
  creates nothing more: the thread dies during the mark phase while a function that
  was marked before still uses its open upvalue, which only `remarkupvals` finds.
* Coroutines nest once (`Resume` by the main thread only).
* Addresses are reused, so any number of allocations and of cycles is explored.

### Fairness

Only `WF_vars(CollectorStep)`: a program that keeps allocating meets
`luaC_checkGC` again and again, and each `luaC_step` runs at least one
`singlestep`. Nothing is assumed of the program itself: it may write forever.
`MarkingEnds` holds because a table caught by the back barrier goes to `grayagain`,
not back to `gray`.

### Findings

* `v_setupvalue` (code bug): `lua_setupvalue` (`lapi.c:1082`) calls the barrier for
  the closure and not for the upvalue that it writes. If the upvalue is closed and
  already black, marked through another closure, the new value is never marked.
  `Next` therefore leaves `LuaSetUpvalue` out; the run adds it and `NoDangling`
  fails.
Two divergences that the properties do not need and no run repeats: a pair whose key
is alive is removed from a table with weak keys when the value is a userdata that has
been finalized (`iscleared` with `iskey` 0 in `cleartable`), although the manual says
that such a table prevents the collection of its values; and the assertion in
`luaC_barrierf` about the phase fails for userdata waiting for their finalizer, where
the code without assertions does the right thing.

### Proofs

`LuaGCProofs` proves `THEOREM TypeCorrect == Spec => []TypeOK` for every value of
the constants that satisfies `ConstantsAssumption`. `TypeOK` is not inductive: a
step of `SweepString` would take `sweepstrgc` beyond `NBuckets` if the collector
stayed in `GCSsweepstring` with nothing left to sweep. `TypeInv` adds that while
strings are swept `sweepstrgc < NBuckets`. There is one lemma per action or group
of actions; marking has lemmas of its own, which rest on the disjointness of the
kinds of objects (`DisjointKinds`).

`LuaGCSafetyProofs` proves, from the same assumption, the safety of the collector for
every heap, every program of `MutatorStep` (`lua_setupvalue`, whose barrier is wrong, is not in
it) and every interleaving of its steps with those of the collector:

| Theorem | Property |
|---|---|
| `NothingDangles` | `NoDangling` |
| `BarriersSuffice` | `TriColor` |
| `ListsHoldTheGray` | `GrayLists` |
| `SweepMissesNothing` | `SweptWithThreads` |
| `OnlyGarbageIsFreed` | `FreesGarbageOnly` |
| `FinalizersFirst` | `FinalizedBeforeFreed` |
| `WeakTablesAroundFinalizers` | `WeakAroundFinalizers` |

None of them is inductive alone. `NoDangling` survives the flip of the two whites in
`ClearAndFlip` only because of `TriColor` and of what the stages of `atomic()` leave
behind (`AtomicStages`), and survives the sweep only because of `SweepBookkeeping`;
`TriColor` needs that a gray object is on a list (`ListDiscipline`) and that an open
upvalue is never black (`OpenUpvalues`). `Inv` is their conjunction with facts
that the code relies on silently: which kinds are ever gray (`GrayKinds`), that
`tmudata` holds nothing freed (`Pending`), that an unused object refers to nothing
(`FreshFields`), that no stack or cell holds an upvalue as its value (`CellValues`),
and that every node a black table still has a key in has a marked key (`BlackKeys`:
`removeentry` marks the others dead, so a value may be stored there again without a
barrier for the key). TLC checked `Inv` on the instances of the runs before it was proved.

The step from `Inv` to `Inv'` has one lemma per action. Steps of the program come down
to six: a store that needs no barrier (`SafeStore`, `PlainStore`), one with the forward
barrier (`BarrierStore`), one with the backward barrier (`BackStore`), the creation of
an object (`AllocStore`), a push on a stack (`StackStore`); marking comes down
to `Reaching`, `Marking` and `MarkStep`. `OnlyGarbageIsFreed` adds that no step frees
a live object (`LiveStays`) and that what the program reaches is live
(`AccessibleLive`); `FinalizersFirst` adds the invariant `DeadFinalized`: of the
userdata that are or will be dead, each has been separated.

`WeakTablesAroundFinalizers` adds the invariant `PendingFinalized`. `cleartable` looks only
at the tables in `weak`, and a table can survive outside that list: one that was traversed
as an ordinary table and got its weak metatable afterwards. None of its values can be in
`tmudata` because they were not white when `luaC_separateudata` chose among the white ones;
userdata already pending when the cycle began exist only within `luaC_fullgc`, where no
program runs that could make a table weak.

The prover has no liveness and no `ENABLED`, so `MarkingEnds` and `GarbageCollected`
are model-checked only, under fairness of `CollectorStep`.

### Not modelled

Byte counts and pacing (`GCthreshold`, `gcdept`, `estimate`) and `luaC_freeall`. On
their own are modelled: the hash part of tables (section 4), the resizing of the
string table, and finalizers that fail or run at `lua_close` (section 8).

## 4. Tables (`LuaTable` implements `LuaTableMap`)

`LuaTableMap` says what a table promises: it is a finite map from keys to values; a
traversal with `next` returns every field once and ends when no field is left,
whatever existing fields are assigned or cleared meanwhile. The manual forbids
assigning to a field that does not exist during a traversal, so `Assign` of both
modules has that condition. A constructor's `SetList` may change only its
positional fields, and only a weak table may lose fields by itself; without the
variable `weak`, `Clear` would excuse every lost field.

`LuaTable` is `ltable.c`. A table is a record of the array part, the node vector and
`lastfree`; every function of `ltable.c` is an operator on it: `MainPosition`,
`Find` (`luaH_get*`), `FreePos`, `Place` (`newkey`), `ArraySize` (`computesizes`),
`Resize`, `Rehash`, `FindIndex` (`findindex`), `GetN` with `UnboundSearch`. A key is
its hash value, so collisions are chosen by the instance. The actions are
assignment (`luaV_settable`), `OP_SETLIST`, a visit of the collector (`Collect`: dead
keys in empty nodes, cleared weak fields) and `next`. After its node is dead, the
address of a key may be used for another key: `findindex` compares addresses of
dead keys, which is why `LiveBeforeDead` and `CursorFound` are not obvious.

`table_map` checks the refinement (`MapSpec`, with `Fields`, what `luaH_get` finds for
each key, as the map), and `NodesSound` (`TypeOK`, `Chains`, the comment at the head of
`ltable.c`, and `LiveBeforeDead`), `CursorFound`, `SizesSound` (`Border`, that is `#t`,
and `RehashMakesRoom`: otherwise `newkey` and `rehash` would call each other forever)
over 81 k states.

Bounds: three integer keys and two others, with hash values that collide in vectors
of two and four nodes; initial sizes without parts, with nodes and with an array;
constructors with two positional fields; one or two values, as properties only tell
absent from present fields apart. `MaxInt` 3 lets the search for a border reach the
linear search that the code falls back to, `MaxBits` 3 is above every array the
instance has.

The assumption `TableAssumption` leaves out the error "table overflow": there are at most
2^`MaxBits` keys, and new tables have at most as many nodes; `table_map` has five keys and 2^3.

### Proofs

`LuaTableProofs` proves every property of `table_map` for any keys, hash values, sizes
of new tables, constructors and values:

| Theorem | States |
|---|---|
| `TableStaysSound` | `TableInvariant` always holds; the others follow from it |
| `NodesAreSound` | `NodesSound` |
| `CursorIsFound` | `CursorFound` |
| `SizesAreSound` | `SizesSound` |
| `TableIsAMap` | `MapSpec`: `LuaTable` implements `LuaTableMap` |

`Chains` is not inductive: it speaks of nodes with values, and `newkey` and `findindex` also
use nodes that have lost theirs. `TableInvariant` therefore says of every node with a key, dead
or not, that it is in the chain of its main position (`AtHome`), that nodes that never had a key
are not linked, and that `lastfree` has no such node above it (`KeysAndValues`), that links
have one predecessor (`OneBefore`) and descend along some numbering (`NoCycle`), and that a
live key is in one node, before the dead keys with its address (`OneLive`). For the traversal
(`TraversalKept`) it says that the fields returned are those that `findindex` places up to
the cursor; an assignment to an existing field and a collection move no key (`SameLinks`), so
`findindex` gives what it gave before (`FindIndexSame`).

A chain is the least set that its links do not leave, so a statement about a chain is
proved by giving such a set (`ChainLeast`), and the search of a chain finds its
first match (`SearchFinds`) because the numbering falls. The three ways of `newkey` each
have their own lemmas: a node without value is overwritten in place, in its chain
(`OverwriteSound`), a colliding node moves aside and its chains go through the free node
(`MoveSound`), or the new node follows the colliding one (`FollowSound`). That there is
always a free node while `resize` moves the fields is counted (`RoomLeft`): nodes hold
different keys of those to be moved, and `rehash` asks for as many nodes
as there are keys outside the new array (`RehashKeeps`).
The searches of the length operator are loops on a pair of indices (`Rounds`), and what each
round keeps holds of the last pair (`RoundsKeep`): the gap shrinks by one at least, the doubling
passes `MaxInt` in at most `MaxInt` rounds.

Not modelled: allocation that fails inside `resize` (listed as a hazard),
`luaH_free`, and the search of strings by pointer, which is a key like any other
here.

## 5. Calls, errors and coroutines (`LuaCall`)

Lua functions run in activations of `luaV_execute`, one of which runs `nexeccalls`
functions, C functions in activations of their own. All threads share one C stack,
`cstack`, a sequence of activations; each thread has a record of the fields of its
`lua_State` that matter here: `ci`, the kinds of the functions in its `CallInfo` array,
its size, `nCcalls`, `baseCcalls`, `errfunc`, `errorJmp`, `allowhook`, `status`.

| Actions | Code |
|---|---|
| `OpCall`, `OpTailCall`, `OpReturn` | `OP_CALL`, `OP_TAILCALL`, `OP_RETURN` (`lvm.c`) with `luaD_precall`, `growCI`, `luaD_poscall` |
| `DCall`, `PCall`, `CReturn`, `PCallReturns` | `luaD_call`, `luaD_pcall` and the return of a C function |
| `Error`, `ErrorMsg`, `HandlerReturns`, `Throw`, `Catch`, `Die`, `Panic` | `luaG_errormsg` with its handler, `luaD_throw` and where it ends |
| `Resume`, `Yield`, `ResumeReturns` | `auxresume` with `lua_resume`, `lua_yield` |
| `CallHook`, `HookReturns`, `CallFinalizer`, `FinalizerReturns` | `luaD_callhook`, `GCTM` |
| `CheckStackSizes` | `checkstacksizes`, when the collector traverses a thread |

In every state the running function may do anything that its kind can do; what is
computed is left out. `doing` tells how far an error has got, so that an overflow
inside the handling of an error, or of another overflow, is a path like any other.
A hook may yield only from a count or line event of a Lua function, after which
`luaV_execute` looks for it (`lvm.c:395`). What is left on the stack of a coroutine after "too many results to resume" is
taken to be something that cannot be called.

`calls` (3.7 M states, main thread only) checks `ThreadRestored`, that is `Balanced`: when a protected call, an
error handler or a finalizer comes back, `nCcalls`, the `CallInfo`s and `allowhook` are
as before, however errors were caught inside; and `HookFlag`: hooks are off exactly
while a hook or finalizer of the thread runs; and `WithinLimits` (`TypeOK` and `CallInfosFit`). `coroutines` (7.1 M
states, two coroutines) checks `FramesKept` (`FramesMatch`: the `CallInfo`s of a thread are those its
activations answer for; `YieldedFrames`: what `resume` hands to one `luaV_execute`
are Lua frames), `CStackKept` (`JumpTargets`: a `longjmp` leaves activations of its own thread
only; `BoundedCStack`) and `StatusIsReal`.

Bounds: `MaxCcalls` 3, `Margin` 2 in `calls` and 1 in `coroutines`: enough for a handler that
runs after the limit was hit and fails in turn, and for a coroutine that makes a C
call in which it must not yield while another one waits. `MaxCalls` 5 over `BasicCi`
2 is not a power of two times `BASIC_CI_SIZE`, like 20000: the array is enlarged past the
limit, cut back to it, and enlarged again. `coroutines` has no handlers and
finalizers and a smaller array, since these belong to one thread. The view of that
run leaves out fields that are overwritten before they are read. Deadlock is not
checked: after a panic the program has ended.

### Proofs

`LuaCallProofs` proves, for all limits, any number of coroutines and any set of handlers
under `CallAssumption`:

| Theorem | Property |
|---|---|
| `LimitsHold` | `WithinLimits` |
| `FramesAccounted` | `FramesKept` |
| `ErrorsLeaveNothing` | `ThreadRestored` |
| `OneCStack` | `CStackKept` |
| `StatusTold` | `StatusIsReal` |

All follow from one inductive invariant, `IInv` of `LuaCallStack` (`StackInvariant`).
The properties speak of the top of the C stack; whether they hold after a return or
a `longjmp` depends on what lies beneath. `IInv` describes the stack position by
position, each from what is below it, so that a push touches only the new position and
a cut leaves a prefix as it was:

* `Placed`: what may be entered from what; `Contiguous`: only a resume changes threads;
* `Remembered`: the locals of `luaD_pcall`, `luaD_rawrunprotected` and `GCTM` at a position
  are what is true of the stack beneath: the innermost target of a `longjmp`, the number of
  frames, whether a hook or finalizer runs;
* `Counted`, `Handled`: `nCcalls` and `errfunc` at each position. While another activation
  runs above, the code keeps them nowhere, so they are functions `d` and `e` of the
  position, existential in `IInv`;
* `ThreadOK`: each thread's fields are those of its topmost activation, and for a thread that
  waits for a coroutine, those of the position at which it resumed.

TLC checked `IInv` as an invariant of `calls` and `coroutines`, with `d` and `e` computed,
before it was proved. The proof has one lemma per action; those that push an activation come down
to `GoodPush`, `GoodBody` and `GoodResume`, those that end one to `GoodCut`, `GoodPop`, `GoodCatch` and
`GoodReturn` of `LuaCallStack`. `BoundedCStack`
counts activations: `OneCStack` needs an induction over the positions for the cardinality
of the calls below each.

### Divergences and what is left out

Two divergences met while modelling, which the runs do not repeat: `resume` of a new
coroutine at the limit of C calls reports the error and drops the body function, after
which the coroutine is "dead" without having run; and a protected call with
`LUAI_MAXCALLS - 1` or more frames in use cannot give the extra `CallInfo`s back, so
that the next overflow is taken for an error in an error handler.

Not modelled here: the value stack, whose relocation is `LuaStack` (section 8),
arguments and results (section 6), the nesting that the parser counts in `nCcalls`
(`LuaParser`), and a panic function that does not return.

## 6. Compiler and virtual machine (`LuaVM`)

* `LuaMeaning` says what a program means: an evaluator of its syntax tree that knows
  nothing of registers, jumps or upvalues, with the host's functions as the
  observer. It also writes the tree as the tokens the parser reads.
* `LuaCode` is `lcode.c`: an operator per function on the state `fs` of the function
  being compiled (code, constants, free register, active locals, jump lists chained
  through the offsets of the jumps themselves).
* `LuaCheck` is `symbexec` with `precheck` and `checkopenop`, the checker that
  `close_func` asserts and the loader runs.
* `LuaParser` is `lparser.c`: an operator per grammar rule, in a single pass over the
  tokens, with blocks, scopes, upvalues, and the limits of every vector.
* `LuaVM` is `luaV_execute`, with `luaD_precall`, `luaD_poscall`, `adjust_varargs` and the
  open upvalues of `lfunc.c`: one action per opcode. A behaviour chooses a program,
  compiles it, and executes an instruction a step.

`code` compiles and runs about 5,000 programs (`MCLuaVM`): every kind of expression and
condition in every place that takes one, assignments whose targets depend on one
another, constructors, calls with open argument lists, loops of all four kinds with
closures that capture their variables and are left by `break`, nested and recursive
functions, sequences of statements that share jump targets, and programs at each
limit and one past it (variables, upvalues, registers, levels, and jumps in both
directions). It checks

* `Meant`: the effects and results of the code are those of the syntax tree;
* `AssertsHold`: every `lua_assert` of the parser, the code generator and the interpreter that is
  modelled holds, `luaG_checkcode` on each finished function included;
* `OpenInScope`: an open upvalue points to a slot of a local that is still in scope;
* `LimitsExact`: a program is rejected exactly if it exceeds a limit.

Scaled constants: `MAXARG_sBx` 60, `MAXSTACK` 18, `LUAI_MAXVARS` 12, `LUAI_MAXUPVALUES` 3,
`LUAI_MAXCCALLS` 12, `MAXINDEXRK` 2, `LFIELDS_PER_FLUSH` 2: small enough that programs of a
few lines reach each limit, and that constants past `MAXINDEXRK` and several batches
of a constructor occur everywhere. Quotients and powers are values that their
operands determine, and none of them is a NaN, so constant folding's test for one
(`lcode.c:647`) is left out, as are characters, line numbers and most syntax errors.

`v_setlist_word` (code bug): a batch number that does not fit in `C` is emitted as a
bare word, which `getjumpcontrol` (`lcode.c:112`) may take for the test before a
jump and rewrite. In the build this needs a constructor of 26,901 items directly
before the jump of a loop; with `MaxArgC` scaled from 511 to 26, batch 27 has the
opcode bits of batch 539. The run executes four constructors of 25 to 28 batches.

The operators here are recursive over syntax and code, so what they compute stays
with TLC.

## 7. Metatables (`LuaMeta`)

One step is one iteration of a loop of `lvm.c`: `luaV_gettable`, `luaV_settable` (up to
`MAXTAGLOOP`), `luaV_concat`; or one comparison, arithmetic operation or call. An
operation that finds a handler calls it; while the call runs the program starts other
operations, stores into any table and sets metatables, up to `MaxDepth` calls; then the
call returns a value, or raises. `Table.flags` is the set of events a table is known
not to define; every lookup through `fasttm` may add one, every store clears it where
the code does, and twice in `luaV_settable`, since a table may be its own
metatable.

`meta` runs six programs, one per family of events, over two tables, two userdata and the string
type. `CacheTruthful`: no event in `flags` is defined in the table. `LoopsAnswered`:
indexing, assignment and concatenation end where following the handlers by their
definition, without the cache, ends, or fail exactly after `MAXTAGLOOP` tables, and
concatenation is that of two operands at a time from the right. `Comparing`: the
handler called is one that both operands share, with the operands in the right order
(`a <= b` as `not (b < a)`). `MaxTagLoop` is 3 instead of 100: a chain that ends in
time and one that does not both exist, and cycles.

`LuaMetaProofs` proves `TypeCorrect`, `CacheIsTruthful` (`Spec => []CacheTruthful`),
`ComparesByHandler` (`Spec => Comparing`) and `LoopsEndAsDefined` (`Spec => LoopsAnswered`)
for any number of tables and keys, any `MaxTagLoop`, and any program that
`ProgramsAssumption` allows: it stores values, concatenates two operands or more (as
`OP_CONCAT` and `lua_concat` do when they call `luaV_concat`) and answers with operands. The
cache's truth is inductive together with the types; `Comparing` then follows because a
lookup through a truthful cache is a lookup.

`LoopsAnswered` speaks of the step that ends an operation and of what the operation
began with, so it needs an invariant about those in between. `OnItsWay` says that an
operation in progress still comes to what it began with: for an indexing operation,
that the value it has come to with the iterations it has left leads to what the first
value led to with `MAXTAGLOOP` of them (`GetOnItsWay`, `SetOnItsWay`); for a
concatenation, that the operands left fold from the right to what the first ones folded
to (`ConcatOnItsWay`). `Indexed`, `Stored` and `Folded` are recursive functions, of which
`IndexedIs`, `StoredIs` and `FoldedIs` say that they satisfy their equations. An iteration
keeps `OnItsWay` since nothing but the operation changes the tables while it is in
progress, a metamethod's call being the end of it. For a pass of `luaV_concat` there are
two lemmas about the fold: two operands that are not both strings or numbers stay, with
all to their left (`FoldStuck`), and as many strings as there are at the end fold to the one
that the code makes of them in one copy (`FoldJoined`, by `FlattenSeq` of the strings).

## 8. Components with a state of their own (`MCLuaParts`)

`parts` explores ten modules, one at a time: the first state says which moves.

| Module | Code | State | Property |
|---|---|---|---|
| `LuaRefs` | `luaL_ref`, `luaL_unref` | the table with the free list through its slots; stores that fail half-way | `RefsKept`: a reference gives the value it was made for |
| `LuaBuffer` | `luaL_Buffer` | pieces on the stack, the array, `lvl` | `BufferKept`: characters in order, what was below untouched, never more stack than a C function has |
| `LuaFiles` | handles of `liolib.c` | pointer, environment's `__close`, default files, iterators | `HandlesTrue`: a `FILE` is closed once, by the function of its kind, and not used afterwards |
| `LuaRequire` | `ll_require`, `ll_module` | `package.loaded`, the calls in progress | `LoadedOnce`: a chunk does not run inside itself; the sentinel stays only after an error |
| `LuaClose` | `luaC_separateudata`, `GCTM`, `lua_close` | the userdata list, `tmudata`, finalizers in progress, `allowhook` | `FinalizersSafe`: no finalizer is called twice, all that existed when `lua_close` began have been called when the state is freed, and hooks are allowed again outside finalizers although an error skips the line that restores them; `CloseEnds` |
| `LuaInterrupt` | `laction`, `lstop`, `docall`, `lua_sethook`, `luaD_callhook` | the hook, its mask, the disposition of `SIGINT` | `OneErrorEach`: a signal raises one error at most |
| `LuaSort` | `auxsort` | the array, indices, calls in progress | `SortSound`: sorted under an order; under any answers no element lost or doubled and no access beyond the range's neighbours |
| `LuaStrings` | `luaS_newlstr`, `luaS_resize`, the string sweep, `checkSizes` | the chains, marks, position of the sweep | `StringsSound`: one string per content, in its chain; none in use freed, none dead kept |
| `LuaStack` | `luaD_reallocstack`, `savestack`, `callTMres`, `luaD_precall`, upvalues | which block each pointer points into | `NoStalePointer` |
| `LuaPattern`, `LuaText` | `match` and its functions; `find`, `gmatch`, `gsub` | an example: subject and pattern with captures | `PatternMeans`: the first match in the manual's order of preference; `TextCovered`: each match once, no character lost |

Bounds: references up to 5 slots with two values; arrays of 2 characters and stacks of 4 pieces with 12
characters, so that pieces are joined on several levels; 4 handles, the three standard
kinds and one that is popen's or a file; two modules nested 4 deep; 4 userdata; 3
signals; arrays of 5 elements with 3 keys, where the partition's inner loops run past
both ends; string hashes 0, 1, 2, 4, 6 with tables of 1 to 8 chains, so that chains
split and join; 4 blocks of stack, 7 C functions in progress; subjects up to 5
characters, patterns of up to three items or around captures, compared with a
definition of matching by items. Deadlock is not checked: a closed state, a used-up bound and a finished
example stop.

Fairness (`CloseFairness`): only `CloseEnds` needs it. `GCTM` and the end of its loop are
weakly fair, because `luaC_callGCTM` goes on by itself; that a finalizer in progress
ends is strongly fair, an assumption on the program: `lua_close` cannot
return from one that does not.

### Proofs

| Theorem | Inductive invariant besides the property |
|---|---|
| `ReferencesKept` (`RefsKept`) | the free list is a path without repetition from slot 0 through slots not held, given as a function from positions to slots |
| `FilesClosedOnce` (`HandlesTrue`) | types; a handle's `FILE` is of the kind that its environment's `__close` closes |
| `SentinelWorks` (`LoadedOnce`) | only the innermost calls are among their loaders; a module whose chunk runs is marked loaded, so no second call for it can get that far |
| `OneErrorPerSignal` (`OneErrorEach`) | errors raised, hooks set and hooks under way together do not exceed the signals; the function `lstop` runs only as long as its hook is set |
| `StringsInterned` (`StringsSound`) | the sweep position is inside the table; chains hold allocated strings only; what is held is not dead; a dead string's chain is still ahead of the sweep |
| `PointersFollow` (`NoStalePointer`) | every pointer of the state is into the present block; of the C functions in progress only the innermost keeps a pointer it will use, the others a distance; frames and C functions take turns, so that a return or an error finds the `CallInfo` it goes back to |
| `BuffersKeep` (`BufferKept`) | the stack holds the text so far in `lvl` pieces above the string that was below; pushing a piece makes it longer, joining any number of pieces leaves it as it is, because flattening a concatenation concatenates what is flattened |
| `FinalizersOnce` (`FinalizersSafe`) | a userdata is in the list, in `tmudata` or among those finalized, once; loops and finalizers alternate in the calls in progress, and only the two outermost found hooks allowed |
| `SortsSoundly` (`SortSound`) | under any answers the indices stay within one place of the range being partitioned; under an order, two elements that are not in one range still to be sorted are in order, the ranges of the waiting calls and the present one have no index in common, left of `i` nothing is above the pivot and right of `j` nothing below it |

All are in `LuaPartsProofs`. They hold for every value of the constants under the assumptions that the modules
name. In `SortsSoundly`, that an inner loop stops inside the range is what the two ends of it
are for: `a[l]` and `a[u-1]` stop the search under an order, and without one the test for an
index outside the range does. That no element is lost follows because an exchange of two
places is a bijection between the places of any key before and after it. Model-checked only: the recursive
definitions of patterns and texts, and `CloseEnds`, which is liveness.

### Not modelled

An interrupt may be lost when `SIGINT` falls between the stores of another
`lua_sethook`: the property says at most one error, not at least one. Userdata
created by finalizers during `lua_close` after its last separation are freed without
their finalizer, which the code does on purpose. A program that clears
`package.loaded[m]` while `m`'s chunk runs is left out of `LuaRequire`. Patterns are well formed;
`string.format` and reading and writing of files are left to the C library.
A `resize` of a table whose second allocation fails (`ltable.c:304`) is listed as a hazard without a
property: the table keeps its old nodes beside the enlarged array.

## Running

    tlc -workers 2 -config gc_tables.cfg MCLuaGC.tla
    tlc -workers 2 -config code.cfg MCLuaVM.tla
    tlc -workers 2 -config parts.cfg MCLuaParts.tla
    tlapm LuaGCProofs.tla
    tlapm LuaGCSafetyProofs.tla
    tlapm LuaMetaProofs.tla
    tlapm LuaSequences.tla
    tlapm LuaCallStack.tla
    tlapm LuaCallProofs.tla
    tlapm LuaPartsProofs.tla
    tlapm LuaTableProofs.tla

The leaves of the proofs leave room for a slower machine: `tlapm --stretch 0.1`, which allows
the provers a tenth of their time, still proves nearly every one, and the slowest,
which state a limit of their own (`ZenonT(60)`), take a tenth of it.

`PROJECT.json` lists every run with its properties, the source lines behind every
definition, the hazards, and for every property a mutation of the model ("deviation" in the
modules) that makes TLC report it: a check that the property notices that kind
of mistake in the code.
