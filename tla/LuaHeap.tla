------------------------------ MODULE LuaHeap ------------------------------
(***************************************************************************)
(* The objects of a Lua state and their references, the variables of the   *)
(* collector, and what collector and program share: marking (lgc.c), the   *)
(* write barriers (lgc.h) and allocation (luaC_link).                      *)
(*                                                                         *)
(* A definition marked "deviation" is not part of the model: it is the     *)
(* definition that follows it with a mistake, used to show that the        *)
(* properties notice the mistake.                                          *)
(***************************************************************************)
EXTENDS Naturals

CONSTANTS
  Tables, LClosures, CClosures, UpVals, Threads, Userdata, Strings, Protos,
                  (* object addresses, by type                              *)
  MainThread,     (* g->mainthread                                          *)
  Globals,        (* the main thread's table of globals                     *)
  Registry,       (* the registry table                                     *)
  Fixed,          (* strings fixed with luaS_fix                            *)
  Indices,        (* non-collectable keys, kept in the array part           *)
  Keys,           (* bound: the keys programs use                           *)
  StackSize,      (* bound: live stack slots per thread                     *)
  Held,           (* bound: the objects programs load into registers        *)
  Written,        (* bound: the tables programs write to                    *)
  Metas,          (* bound: the tables programs use as metatables           *)
  Envs,           (* bound: the tables programs use as environments         *)
  WeakKeyMt,      (* metatables whose __mode contains 'k'                   *)
  WeakValueMt,    (* metatables whose __mode contains 'v'                   *)
  FinalizerMt,    (* metatables with a __gc field                           *)
  NBuckets,       (* g->strt.size                                           *)
  Bucket,         (* string -> position of its chain in g->strt.hash        *)
  Rank,           (* bound: objects of a lower rank come first in the lists *)
                  (* gray and rootgc; those of one rank in any order        *)
  Nil,            (* nil, and NULL for links                                *)
  Absent          (* the value of a key that has no node                    *)

Closures == LClosures \cup CClosures
Obj      == Tables \cup Closures \cup UpVals \cup Threads \cup Userdata
              \cup Strings \cup Protos
Val      == Obj \cup Indices
Slots    == 1..StackSize
Grayable == Tables \cup Closures \cup Threads \cup Protos   \* have a gclist
RootList == Obj \ Strings           \* objects chained in g->rootgc

Kinds == <<Tables, LClosures, CClosures, UpVals, Threads, Userdata, Strings,
           Protos, Indices>>

ASSUME ConstantsAssumption ==
  /\ \A i, j \in 1..9 : i # j => Kinds[i] \cap Kinds[j] = {}
  /\ MainThread \in Threads /\ Globals \in Tables /\ Registry \in Tables
  /\ Fixed \subseteq Strings
  /\ Keys \subseteq Val
  /\ StackSize \in Nat
  /\ Held \subseteq Obj /\ Written \subseteq Tables /\ Metas \subseteq Tables /\ Envs \subseteq Tables
  /\ WeakKeyMt \subseteq Tables /\ WeakValueMt \subseteq Tables
  /\ FinalizerMt \subseteq Tables
  /\ NBuckets \in Nat \ {0}
  /\ Bucket \in [Strings -> 0..NBuckets-1]
  /\ Rank \in [Obj -> Nat]
  /\ Nil \notin Val /\ Absent \notin Val /\ Nil # Absent
  /\ Nil \notin Slots /\ Nil \notin Threads \X (Slots \cup {Nil})

VARIABLES
  color,          (* marked, the whites relative to g->currentwhite;        *)
                  (* "free" when the address is not allocated               *)
  gcstate,
  atomic,         (* stage of atomic(); 0 outside it                        *)
  fullgc,         (* luaC_fullgc until GCSfinalize: "off", "sweep", "mark"  *)
  gray, grayagain, weak, tmudata,
  finalized,      (* userdata with FINALIZEDBIT                             *)
  sweepstrgc,     (* next string chain to sweep                             *)
  unswept         (* objects of rootgc from *sweepgc on                     *)

collector == <<gcstate, atomic, fullgc, grayagain, weak,
               tmudata, finalized, sweepstrgc>>

VARIABLES
  content,        (* table -> key -> value, Nil (empty node) or Absent      *)
  metatable,      (* of tables and userdata                                 *)
  env,            (* of closures and userdata; gt(L) of threads             *)
  upvals,         (* Lua closure -> its UpVals                              *)
  holds,          (* closure -> its Proto or C upvalues; proto -> constants *)
  openat,         (* UpVal -> the <<thread, slot>> v points to, Nil: closed *)
  closedval,      (* UpVal -> u.value                                       *)
  stack,          (* thread -> slot -> value                                *)
  running,        (* the thread L of the running program                    *)
  basemt          (* g->mt of the basic types (one stands for all)          *)

heap == <<content, metatable, env, upvals, holds, openat, closedval, stack,
          running, basemt>>
vars == <<color, gray, unswept, collector, heap>>

\* What program steps leave alone (grayagain, too, but for the back barrier).
lists == <<gcstate, atomic, fullgc, weak, tmudata, finalized,
           sweepstrgc>>

---------------------------------------------------------------------------
(* Colours *)

\* Of the two whites, g->currentwhite is the one of new objects; atomic() swaps
\* their roles.
Whites     == {"currentwhite", "otherwhite"}
White      == {o \in Obj : color[o] \in Whites}
Allocated  == {o \in Obj : color[o] # "free"}

\* isdead(g,v); fixed strings survive the sweep whatever their white.
IsDead(o) == color[o] = "otherwhite"
Live      == {o \in Allocated : IsDead(o) => o \in Fixed}

---------------------------------------------------------------------------
(* What an object refers to *)

UpValue(u) == IF openat[u] = Nil THEN closedval[u]
                                 ELSE stack[openat[u][1]][openat[u][2]]

HasValue(t, k) == content[t][k] \notin {Nil, Absent}

When(c, S) == IF c THEN S ELSE {}

Entries(t) == {k \in Keys : HasValue(t, k)}

\* Every object a program holding o can get hold of.
Refs(o) ==
  Obj \cap
    (      When(o \in Tables, Entries(o) \cup {content[o][k] : k \in Entries(o)})
      \cup When(o \in Tables \cup Userdata, {metatable[o]})
      \cup When(o \in Closures \cup Userdata \cup Threads, {env[o]})
      \cup When(o \in LClosures, upvals[o])
      \cup When(o \in Closures \cup Protos, holds[o])
      \cup When(o \in UpVals, {UpValue(o)})
      \cup When(o \in Threads, {stack[o][s] : s \in Slots}))

Roots == ({MainThread, running, Registry, basemt} \cup Fixed) \cap Obj

\* The values of the running function: its stack, the globals, the registry.
InHand == ({stack[running][s] : s \in Slots}
             \cup {env[running], Registry} \cup Fixed) \cap Obj

Values == InHand \ Protos          \* prototypes are never program values

\* What one load instruction or API call can push: fields, environments,
\* metatables and stacks of values in hand, upvalues and constants of closures.
Inside   == UNION {upvals[c] \cup holds[c] : c \in InHand \cap LClosures}
Readable == (InHand \cup UNION {Refs(o) : o \in InHand \cup Inside}) \ (UpVals \cup Protos)

WeakKeys(t)   == metatable[t] \in WeakKeyMt
WeakValues(t) == metatable[t] \in WeakValueMt

\* deviation: the lowest slot is left out
OpenUpvalsAboveBase(th) ==
  {u \in UpVals : openat[u] # Nil /\ openat[u][1] = th /\ openat[u][2] > 1}

OpenUpvals(th) == {u \in UpVals : openat[u] # Nil /\ openat[u][1] = th}

---------------------------------------------------------------------------
(* Marking *)

\* The objects reallymarkobject turns non-white when called on the white
\* objects of S: an upvalue marks its value and a userdata its metatable and
\* environment on the spot; everything else only enters the gray list.
Reached(S) ==
  LET a == S \cap White
      b == a \cup ({UpValue(u) : u \in a \cap UpVals} \cap White)
      us == b \cap Userdata
  IN  b \cup (({metatable[u] : u \in us} \cup {env[u] : u \in us}) \cap White)

\* The colour reallymarkobject leaves: closed upvalues and userdata are black.
MarkColor(o) ==
  IF o \in Userdata \/ (o \in UpVals /\ openat[o] = Nil) THEN "black" ELSE "gray"

Marked(S) == LET reached == Reached(S)
             IN  [o \in Obj |-> IF o \in reached THEN MarkColor(o) ELSE color[o]]

MarkedGray(S) == Reached(S) \cap Grayable

Mark(S) == /\ color' = Marked(S)
           /\ gray' = gray \cup MarkedGray(S)

\* What propagatemark follows out of a gray object.
StrongRefs(o) ==
  IF o \in Tables
  THEN Obj \cap ({metatable[o]} \cup When(~WeakKeys(o), Entries(o))
                   \cup When(~WeakValues(o), {content[o][k] : k \in Entries(o)}))
  ELSE Refs(o)

---------------------------------------------------------------------------
(* Barriers *)

\* deviation: no barrier
ForwardBarrierMissing(p, v) == UNCHANGED <<color, gray>>

\* luaC_barrier and luaC_objbarrier with luaC_barrierf.
ForwardBarrier(p, v) ==
  \/ /\ color[p] = "black" /\ v \in White
     /\ gcstate = "propagate"
     /\ Mark({v})
  \/ /\ color[p] = "black" /\ v \in White
     /\ gcstate # "propagate"
     /\ color' = [color EXCEPT ![p] = "currentwhite"]
     /\ gray' = gray
  \/ /\ ~(color[p] = "black" /\ v \in White)
     /\ UNCHANGED <<color, gray>>

\* deviations: no barrier; black2gray forgotten
BackBarrierMissing(t, vs) == UNCHANGED <<color, grayagain>>
BackBarrierKeepsBlack(t, vs) ==
  /\ color' = color
  /\ grayagain' = grayagain \cup (IF color[t] = "black" /\ vs \cap White # {}
                                  THEN {t} ELSE {})

\* luaC_barriert and luaC_objbarriert with luaC_barrierback, for the values vs.
\* Between the flip and the next markroot, which resets them, nothing reads the
\* lists: they are kept empty then.
BackBarrier(t, vs) ==
  IF color[t] = "black" /\ vs \cap White # {}
  THEN /\ color' = [color EXCEPT ![t] = "gray"]
       /\ grayagain' = grayagain \cup (IF gcstate = "propagate" THEN {t} ELSE {})
  ELSE UNCHANGED <<color, grayagain>>

---------------------------------------------------------------------------
(* Allocation *)

EmptyTable == [k \in Keys |-> IF k \in Indices THEN Nil ELSE Absent]
EmptyStack == [s \in Slots |-> Nil]

\* Linking objects into rootgc: at its head, userdata behind the main thread.
\* While strings are swept *sweepgc is the head, so they will be swept; later
\* it depends on where *sweepgc stands.
Link(new) ==
  \/ gcstate = "sweepstring" /\ unswept' = unswept \cup new
  \/ gcstate = "sweep" /\ unswept' \in {unswept, unswept \cup new}
  \/ gcstate \notin {"sweepstring", "sweep"} /\ unswept' = unswept

Alloc(new) == /\ \A o \in new : color[o] = "free"
              /\ color' = [o \in Obj |-> IF o \in new THEN "currentwhite" ELSE color[o]]
              /\ Link(new)
              /\ gray' = gray

Push(v, s) == stack' = [stack EXCEPT ![running][s] = v]

Reset(f, freed, empty) == [x \in DOMAIN f |-> IF x \in freed THEN empty ELSE f[x]]

\* The program runs between collector steps, and not inside atomic() or the
\* loops of luaC_fullgc (from GCSfinalize on, finalizers run there).
MutatorRuns == atomic = 0 /\ fullgc = "off"

=============================================================================
