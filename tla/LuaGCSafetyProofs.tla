------------------------- MODULE LuaGCSafetyProofs -------------------------
(***************************************************************************)
(* That the collector of LuaGC is safe, for every heap and every program:  *)
(* no live object ever refers to a freed one (NoDangling), and nothing but *)
(* garbage is freed (FreesGarbageOnly).                                    *)
(*                                                                         *)
(* Neither is inductive.  The flip of atomic() keeps NoDangling because    *)
(* then every marked object refers to marked ones only: TriColor for the   *)
(* black ones, GrayLists for the gray ones, which wait in a list or are    *)
(* strings or open upvalues.  The sweep keeps it because an object of the  *)
(* old colour is still ahead of it (SweptWithThreads).  The conjunction    *)
(* needs five more facts, named below, about addresses not in use, cells,  *)
(* colours, the keys of black tables and the pending userdata.             *)
(***************************************************************************)
EXTENDS LuaGCProofs

---------------------------------------------------------------------------
(* The inductive invariant *)

Seen == {o \in Obj : color[o] \in {"gray", "black"}}

\* freeobj leaves nothing behind.
FreshFields == \A o \in Obj : color[o] = "free" => Refs(o) = {}

\* Upvalues are no values: no cell holds one, and the own cell of an open one is
\* empty.  The only part of a Lua closure beside its upvalues is its prototype.
CellValues ==
  /\ \A th \in Threads, s \in Slots : stack[th][s] \notin UpVals
  /\ \A u \in UpVals : /\ closedval[u] \notin UpVals
                       /\ openat[u] # Nil => closedval[u] \notin Obj
  /\ \A c \in LClosures : holds[c] \subseteq Protos

\* Threads are traversed again in atomic() and never black; what is gray in the
\* mark phase has a gclist, is a string or an open upvalue.
GrayKinds ==
  /\ \A th \in Threads : color[th] # "black"
  /\ gcstate = "propagate" => \A o \in Obj : color[o] = "gray" =>
       \/ o \in Grayable \cup Strings
       \/ o \in UpVals /\ openat[o] # Nil

\* A black table has no node left whose key is not marked (removeentry): a value
\* may be stored in any of its nodes without a barrier for the key.
BlackKeys ==
  gcstate = "propagate" =>
    \A t \in Tables, k \in Keys \cap Obj :
      color[t] = "black" /\ content[t][k] # Absent => k \in Seen

\* Userdata that wait for their finalizer are not freed; the collector pauses
\* outside luaC_fullgc only.
Pending == tmudata \subseteq Allocated /\ (gcstate = "pause" => fullgc = "off")

\* What is said of the colours and the lists.
Bookkeeping == /\ ListDiscipline /\ AtomicStages /\ SweepBookkeeping /\ OpenUpvalues
               /\ GrayKinds /\ Pending

Inv == /\ TypeInv /\ NoDangling /\ TriColor /\ Bookkeeping
       /\ FreshFields /\ CellValues /\ BlackKeys

---------------------------------------------------------------------------
(* References *)

\* o refers to x, field by field.
EntryRef(t, x) == \E k \in Keys : HasValue(t, k) /\ (x = k \/ x = content[t][k])

RefTo(o, x) ==
  /\ x \in Obj
  /\ \/ o \in Tables /\ EntryRef(o, x)
     \/ o \in Tables \cup Userdata /\ x = metatable[o]
     \/ o \in Closures \cup Userdata \cup Threads /\ x = env[o]
     \/ o \in LClosures /\ x \in upvals[o]
     \/ o \in Closures \cup Protos /\ x \in holds[o]
     \/ o \in UpVals /\ x = UpValue(o)
     \/ o \in Threads /\ \E s \in Slots : x = stack[o][s]

LEMMA RefsMeaning == \A o, x : x \in Refs(o) <=> RefTo(o, x)
BY DEF Refs, RefTo, When, Entries, EntryRef

LEMMA RefsMeaningNext == \A o, x : x \in Refs(o)' <=> RefTo(o, x)'
BY DEF Refs, RefTo, When, Entries, EntryRef, HasValue, UpValue

\* A step stores into the fields of o nothing but Nil, what was there, and S.
Grows(o, S) ==
  /\ o \in Tables => \A x \in Obj : EntryRef(o, x)' => EntryRef(o, x) \/ x \in S
  /\ o \in Tables \cup Userdata => metatable'[o] \in {metatable[o], Nil} \cup S
  /\ o \in Closures \cup Userdata \cup Threads => env'[o] \in {env[o], Nil} \cup S
  /\ o \in LClosures => upvals'[o] \subseteq upvals[o] \cup S
  /\ o \in Closures \cup Protos => holds'[o] \subseteq holds[o] \cup S
  /\ o \in UpVals => UpValue(o)' \in {UpValue(o), Nil} \cup S \cup Indices
  /\ o \in Threads => \A s \in Slots : stack'[o][s] \in {stack[o][s], Nil} \cup S

LEMMA GrowsRefs == \A o, S : Grows(o, S) => Refs(o)' \subseteq Refs(o) \cup S
<1> SUFFICES ASSUME NEW o, NEW S, Grows(o, S), NEW x, RefTo(o, x)'
             PROVE  RefTo(o, x) \/ x \in S
  BY RefsMeaning, RefsMeaningNext
<1>1. x \in Obj /\ x # Nil /\ x \notin Indices
  BY DisjointKinds DEF RefTo
<1> QED BY <1>1 DEF RefTo, Grows

LEMMA HeapUnchanged ==
  ASSUME UNCHANGED heap
  PROVE  /\ \A o : Refs(o)' = Refs(o) /\ StrongRefs(o)' = StrongRefs(o) /\ IsWeak(o)' = IsWeak(o)
         /\ \A u : UpValue(u)' = UpValue(u)
BY DEF heap, Refs, StrongRefs, IsWeak, WeakKeys, WeakValues, Entries, HasValue, UpValue

LEMMA OpenAtType ==
  ASSUME TypeInv, NEW u \in UpVals, openat[u] # Nil
  PROVE  /\ openat[u][1] \in Threads /\ openat[u][2] \in Slots
         /\ openat[u] = <<openat[u][1], openat[u][2]>>
BY DEF TypeInv, TypeOK

\* What a program has in hand is live.
LEMMA HandsLive ==
  ASSUME Inv
  PROVE  /\ {MainThread, Registry, running} \cup Fixed \subseteq Live
         /\ basemt \in Live \cup {Nil}
         /\ InHand \subseteq Live /\ Values \subseteq Live /\ Readable \subseteq Live
         /\ CurrentEnvs \subseteq Live \cup {Nil}
<1>1. {MainThread, Registry, running} \cup Fixed \subseteq Live /\ basemt \in Live \cup {Nil}
  <2>1. running \in Obj /\ MainThread \in Obj /\ Registry \in Obj /\ Fixed \subseteq Obj
        /\ basemt \in Obj \cup {Nil}
    BY ConstantsAssumption DEF Inv, TypeInv, TypeOK, Obj
  <2> QED BY <2>1 DEF Inv, NoDangling, Roots
<1>2. InHand \subseteq Live
  <2>1. \A x \in Obj : (x = env[running] \/ \E s \in Slots : x = stack[running][s])
                          => x \in Refs(running)
    BY RefsMeaning DEF RefTo, Inv, TypeInv, TypeOK
  <2> QED BY <1>1, <2>1 DEF InHand, Inv, NoDangling
<1>3. Inside \subseteq Live
  <2>1. \A c \in InHand \cap LClosures : upvals[c] \cup holds[c] \subseteq Refs(c)
    <3> SUFFICES ASSUME NEW c \in LClosures, NEW x \in upvals[c] \cup holds[c]
                 PROVE  x \in Refs(c)
      OBVIOUS
    <3>1. x \in Obj
      BY DEF Inv, TypeInv, TypeOK, Obj, Closures
    <3> QED BY <3>1, RefsMeaning DEF RefTo, Closures
  <2> QED BY <1>2, <2>1 DEF Inside, Inv, NoDangling
<1>4. Readable \subseteq Live
  BY <1>2, <1>3 DEF Readable, Inv, NoDangling
<1>5. CurrentEnvs \subseteq Live \cup {Nil}
  <2>1. \A o \in Closures \cup Threads : o \in Live => env[o] \in Live \cup {Nil}
    <3> SUFFICES ASSUME NEW o \in Closures \cup Threads, o \in Live, env[o] # Nil
                 PROVE  env[o] \in Live
      OBVIOUS
    <3>1. env[o] \in Obj
      BY DEF Inv, TypeInv, TypeOK, Obj
    <3> QED BY <3>1, RefsMeaning DEF RefTo, Inv, NoDangling
  <2> QED BY <1>1, <1>2, <2>1 DEF CurrentEnvs, Closures, Inv, TypeInv, TypeOK
<1> QED BY <1>1, <1>2, <1>4, <1>5 DEF Values

---------------------------------------------------------------------------
(* Marking *)

\* What reallymarkobject blackens on the spot is left with marked references.
LEMMA Reaching ==
  ASSUME TypeInv, CellValues, NEW S
  PROVE  /\ Reached(S) \subseteq White /\ S \cap White \subseteq Reached(S)
         /\ \A o \in Reached(S) : MarkColor(o) = "black" => Refs(o) \cap White \subseteq Reached(S)
         /\ \A u \in Reached(S) \cap UpVals :
              u \in S /\ (UpValue(u) \in White => UpValue(u) \in Reached(S))
<1> DEFINE a == S \cap White
           b == a \cup ({UpValue(u) : u \in a \cap UpVals} \cap White)
           us == b \cap Userdata
           R == b \cup (({metatable[u] : u \in us} \cup {env[u] : u \in us}) \cap White)
<1>1. Reached(S) = R
  BY DEF Reached
<1>2. \A u \in UpVals : UpValue(u) \notin UpVals
  <2> SUFFICES ASSUME NEW u \in UpVals PROVE UpValue(u) \notin UpVals
    OBVIOUS
  <2>1. CASE openat[u] = Nil
    BY <2>1 DEF UpValue, CellValues
  <2>2. CASE openat[u] # Nil
    BY <2>2, OpenAtType DEF UpValue, CellValues
  <2> QED BY <2>1, <2>2
<1>3. \A u \in us : {metatable[u], env[u]} \subseteq Tables \cup {Nil}
  BY DEF TypeInv, TypeOK
<1>4. Nil \notin White
  BY DisjointKinds DEF White
<1>5. \A u \in R : (u \in UpVals => u \in a) /\ (u \in Userdata => u \in us)
  BY <1>2, <1>3, <1>4, DisjointKinds
<1>6. \A u \in R \cap UpVals : u \in S /\ (UpValue(u) \in White => UpValue(u) \in R)
  BY <1>5
<1>7. \A u \in R \cap Userdata : {metatable[u], env[u]} \cap White \subseteq R
  BY <1>5
<1>8. ASSUME NEW o \in R, MarkColor(o) = "black", NEW x \in Refs(o) \cap White PROVE x \in R
  <2>1. RefTo(o, x)
    BY RefsMeaning
  <2>2. CASE o \in Userdata
    <3>1. x = metatable[o] \/ x = env[o]
      BY <2>1, <2>2, DisjointKinds DEF RefTo, Closures
    <3> QED BY <2>2, <3>1, <1>7
  <2>3. CASE o \in UpVals
    <3>1. x = UpValue(o)
      BY <2>1, <2>3, DisjointKinds DEF RefTo, Closures
    <3> QED BY <2>3, <3>1, <1>6
  <2> QED BY <1>8, <2>2, <2>3 DEF MarkColor
<1> HIDE DEF R
<1>9. R \subseteq White /\ a \subseteq R
  BY DEF R
<1> QED BY <1>1, <1>6, <1>8, <1>9

\* The colours that marking leaves.
LEMMA Marking ==
  ASSUME TypeInv, NEW S
  PROVE  /\ \A o \in Reached(S) : /\ o \in Obj /\ color[o] \in Whites
                                  /\ Marked(S)[o] = MarkColor(o)
                                  /\ MarkColor(o) \in {"gray", "black"}
                                  /\ MarkColor(o) = "black" <=>
                                       o \in Userdata \/ (o \in UpVals /\ openat[o] = Nil)
         /\ \A o \in Obj \ Reached(S) : Marked(S)[o] = color[o]
         /\ MarkedGray(S) = {o \in Grayable : o \in Reached(S)}
         /\ \A o \in Grayable : MarkColor(o) = "gray"
         /\ \A o \in Strings : MarkColor(o) = "gray"
<1>1. Reached(S) \subseteq White
  BY DEF Reached
<1>2. \A o \in Grayable \cup Strings : MarkColor(o) = "gray"
  BY DisjointKinds DEF MarkColor, Grayable
<1> QED BY <1>1, <1>2 DEF Marked, MarkedGray, MarkColor, White

---------------------------------------------------------------------------
(* Steps of the program *)

\* atomic() runs without the program: of its stages nothing is claimed.
LEMMA MutatorStages ==
  ASSUME AtomicStages, MutatorRuns, UNCHANGED <<lists>>,
         gcstate = "propagate" => {MainThread, Registry} \cap White' = {}
  PROVE  AtomicStages'
BY DEF AtomicStages, MutatorRuns, lists

\* A step of the program that loses no reference and stores only live objects
\* is safe, if no black object is left with a white one.
LEMMA SafeStore ==
  ASSUME Inv, MutatorRuns, UNCHANGED <<lists>>,
         NEW S, S \subseteq Live', Roots' \subseteq Roots \cup S, Live \subseteq Live',
         \A o \in Obj : Grows(o, S),
         \A o \in Live' \ Live : Refs(o) \subseteq Live',
         \A o \in Obj : color'[o] = "free" =>
           (color[o] = "free" /\ Grows(o, {})) \/ Refs(o)' = {},
         gcstate = "propagate" =>
           /\ \A o \in White' : color[o] \in Whites \cup {"free"}
           /\ \A o \in Obj \ tmudata : color'[o] = "black" =>
                \/ color[o] = "black" /\ Refs(o)' \cap White' \subseteq Refs(o)
                \/ Refs(o)' \cap White' = {}
  PROVE  NoDangling' /\ TriColor' /\ FreshFields'
<1>1. NoDangling'
  BY GrowsRefs DEF Inv, NoDangling, Live, Allocated
<1>2. TriColor'
  <2> SUFFICES ASSUME gcstate = "propagate", NEW o \in Obj \ tmudata, color'[o] = "black",
                      NEW x \in Refs(o)' \cap White'
               PROVE  FALSE
    BY DEF TriColor, MutatorRuns, lists
  <2>1. color[o] = "black" /\ x \in Refs(o)
    OBVIOUS
  <2>2. o \in Live
    BY <2>1 DEF Live, Allocated, IsDead
  <2>3. x \in Live /\ x \in White
    BY <2>1, <2>2 DEF Inv, NoDangling, Live, Allocated, White
  <2>4. o \in Obj \ (IF atomic = 4 THEN {} ELSE tmudata)
    OBVIOUS
  <2> QED BY <2>1, <2>3, <2>4 DEF Inv, TriColor
<1>3. FreshFields'
  BY GrowsRefs DEF Inv, FreshFields
<1> QED BY <1>1, <1>2, <1>3

\* As long as content stays, the keys of black tables do.
LEMMA KeepKeys ==
  ASSUME Inv, UNCHANGED <<content, gcstate>>,
         gcstate = "propagate" => /\ Seen \subseteq Seen'
                                  /\ \A t \in Tables : color'[t] = "black" => color[t] = "black"
  PROVE  BlackKeys'
BY DEF Inv, BlackKeys

LEMMA KeepCells ==
  ASSUME CellValues, UNCHANGED <<stack, closedval, openat, holds>>
  PROVE  CellValues'
BY DEF CellValues

\* No barrier.
LEMMA PlainStore ==
  ASSUME Inv, MutatorRuns, UNCHANGED <<color, gray, grayagain, unswept, lists, openat>>,
         NEW S, S \subseteq Live, Roots' \subseteq Roots \cup S,
         \A o \in Obj : Grows(o, S),
         \A o \in Obj : color[o] \in {"black", "free"} => Grows(o, {})
  PROVE  /\ Bookkeeping' /\ NoDangling' /\ TriColor' /\ FreshFields'
         /\ content' = content => BlackKeys'
<1>1. White' = White /\ Live' = Live /\ Allocated' = Allocated /\ Seen' = Seen
  BY DEF White, Live, Allocated, IsDead, Seen
<1>2. AtomicStages'
  BY <1>1, MutatorStages DEF Inv, Bookkeeping, AtomicStages
<1>3. Bookkeeping'
  BY <1>1, <1>2 DEF Inv, Bookkeeping, ListDiscipline, SweepBookkeeping, OpenUpvalues,
    GrayKinds, Pending, lists, IsDead
<1>4. NoDangling' /\ TriColor' /\ FreshFields'
  <2>1. \A o \in Obj : color[o] = "black" => Refs(o)' \subseteq Refs(o)
    BY GrowsRefs
  <2> QED BY <1>1, <2>1, SafeStore DEF White
<1>5. content' = content => BlackKeys'
  BY <1>1, KeepKeys DEF lists
<1> QED BY <1>3, <1>4, <1>5

\* luaC_barrier, for a reference from p to v.
LEMMA BarrierStore ==
  ASSUME Inv, MutatorRuns, NEW p \in Obj, NEW v \in Live \cup {Nil}, ForwardBarrier(p, v),
         UNCHANGED <<grayagain, unswept, lists, openat>>, Roots' = Roots,
         \A o \in Obj : Grows(o, {v} \ {Nil}),
         \A o \in Obj \ {p} : color'[o] = "black" => Grows(o, {}),
         \A o \in Obj : color[o] = "free" => Grows(o, {})
  PROVE  /\ Bookkeeping' /\ NoDangling' /\ TriColor' /\ FreshFields'
         /\ content' = content => BlackKeys'
<1> DEFINE R == Reached({v})
<1>0. /\ color \in [Obj -> Colors] /\ TypeInv /\ CellValues
      /\ R \subseteq White /\ {v} \cap White \subseteq R
      /\ \A o \in R : MarkColor(o) = "black" => Refs(o) \cap White \subseteq R
  BY Reaching DEF Inv, TypeInv, TypeOK
<1>1. CASE color[p] = "black" /\ v \in White /\ gcstate = "propagate"
  <2>1. /\ \A o \in R : /\ o \in Obj /\ color[o] \in Whites
                        /\ color'[o] = MarkColor(o)
                        /\ MarkColor(o) \in {"gray", "black"}
                        /\ MarkColor(o) = "black" <=>
                             o \in Userdata \/ (o \in UpVals /\ openat[o] = Nil)
        /\ \A o \in Obj \ R : color'[o] = color[o]
        /\ gray' = gray \cup {o \in Grayable : o \in R}
        /\ \A o \in Grayable \cup Strings : MarkColor(o) = "gray"
    BY <1>0, <1>1, Marking DEF ForwardBarrier, Mark, Whites, Marked
  <2>2. Grayable \subseteq Obj /\ Threads \subseteq Grayable /\ Tables \subseteq Grayable
    BY DEF Grayable, Obj
  <2>3. White' = White \ R /\ Allocated' = Allocated /\ Live \subseteq Live' /\ Seen \subseteq Seen'
    BY <1>0, <2>1 DEF White, Allocated, Live, IsDead, Seen, Whites
  <2> HIDE DEF R
  <2>4. ListDiscipline'
    BY <1>1, <2>1, <2>2 DEF Inv, Bookkeeping, ListDiscipline, Whites, lists
  <2>5. AtomicStages'
    BY <2>3, MutatorStages DEF Inv, Bookkeeping, AtomicStages
  <2>6. SweepBookkeeping'
    BY <1>1, <2>1, <2>3 DEF Inv, Bookkeeping, SweepBookkeeping, IsDead, lists, Whites
  <2>7. OpenUpvalues'
    BY <2>1, <2>3, DisjointKinds DEF Inv, Bookkeeping, OpenUpvalues, Obj, Whites
  <2>8. GrayKinds'
    <3>1. \A o \in Obj : o \in Userdata \/ (o \in UpVals /\ openat[o] = Nil)
            \/ o \in Grayable \cup Strings \/ (o \in UpVals /\ openat[o] # Nil)
      BY DEF Obj, Grayable
    <3> QED BY <1>1, <2>1, <2>2, <3>1 DEF Inv, Bookkeeping, GrayKinds, Whites, lists
  <2>9. Pending'
    BY <2>3 DEF Inv, Bookkeeping, Pending, lists
  <2>10. \A o \in Obj : color'[o] = "black" =>
            \/ color[o] = "black" /\ Refs(o)' \cap White' \subseteq Refs(o)
            \/ Refs(o)' \cap White' = {}
    <3> SUFFICES ASSUME NEW o \in Obj, color'[o] = "black"
                 PROVE  \/ color[o] = "black" /\ Refs(o)' \cap White' \subseteq Refs(o)
                        \/ Refs(o)' \cap White' = {}
      OBVIOUS
    <3>1. v \in R
      BY <1>0, <1>1
    <3>2. CASE o = p
      BY <1>1, <2>3, <3>1, <3>2, GrowsRefs
    <3>3. CASE o # p /\ o \in R
      <4>1. Refs(o)' \subseteq Refs(o)
        BY <3>3, GrowsRefs
      <4> QED BY <1>0, <2>1, <2>3, <3>3, <4>1
    <3>4. CASE o # p /\ o \notin R
      BY <2>1, <3>4, GrowsRefs
    <3> QED BY <3>2, <3>3, <3>4
  <2>11. NoDangling' /\ TriColor' /\ FreshFields'
    <3>1. Live' \subseteq Live
      BY <1>1, <2>3 DEF Inv, Bookkeeping, SweepBookkeeping, Live, Allocated
    <3> QED BY <1>1, <2>1, <2>3, <2>10, <3>1, SafeStore DEF White, Whites
  <2>12. content' = content => BlackKeys'
    BY <2>1, <2>2, <2>3, KeepKeys DEF lists
  <2> QED BY <2>4, <2>5, <2>6, <2>7, <2>8, <2>9, <2>11, <2>12 DEF Bookkeeping
<1>2. CASE color[p] = "black" /\ v \in White /\ gcstate # "propagate"
  <2>1. color' = [color EXCEPT ![p] = "currentwhite"] /\ gray' = gray
    BY <1>2 DEF ForwardBarrier
  <2>2. Allocated' = Allocated /\ Live' = Live
    BY <1>0, <1>2, <2>1 DEF Allocated, Live, IsDead
  <2>3. AtomicStages'
    BY <1>2, MutatorStages DEF Inv, Bookkeeping
  <2>4. Bookkeeping'
    BY <1>0, <1>2, <2>1, <2>2, <2>3 DEF Inv, Bookkeeping, ListDiscipline, SweepBookkeeping,
      OpenUpvalues, GrayKinds, Pending, lists, IsDead, Obj
  <2>5. NoDangling' /\ TriColor' /\ FreshFields'
    BY <1>0, <1>2, <2>1, <2>2, SafeStore
  <2> QED BY <1>2, <2>4, <2>5, KeepKeys DEF lists
<1>3. CASE ~(color[p] = "black" /\ v \in White)
  <2>1. UNCHANGED <<color, gray>>
    BY <1>3 DEF ForwardBarrier
  <2>2. White' = White /\ Live' = Live /\ Allocated' = Allocated /\ Seen' = Seen
    BY <2>1 DEF White, Live, Allocated, IsDead, Seen
  <2>3. AtomicStages'
    BY <2>2, MutatorStages DEF Inv, Bookkeeping, AtomicStages
  <2>4. Bookkeeping'
    BY <2>1, <2>2, <2>3 DEF Inv, Bookkeeping, ListDiscipline, SweepBookkeeping, OpenUpvalues,
      GrayKinds, Pending, lists, IsDead
  <2>5. \A o \in Obj : color[o] = "black" => Refs(o)' \cap White' \subseteq Refs(o)
    BY <1>3, <2>1, <2>2, GrowsRefs
  <2>6. NoDangling' /\ TriColor' /\ FreshFields'
    BY <2>1, <2>2, <2>5, SafeStore DEF White
  <2> QED BY <2>1, <2>2, <2>4, <2>6, KeepKeys DEF lists
<1> QED BY <1>1, <1>2, <1>3

\* luaC_barrierback, for references from the table t to vs.
LEMMA BackStore ==
  ASSUME Inv, MutatorRuns, NEW t \in Tables, NEW vs, BackBarrier(t, vs),
         UNCHANGED <<gray, unswept, lists, openat>>, Roots' = Roots,
         NEW S, S \subseteq Live, t \in Live,
         Grows(t, S), \A o \in Obj \ {t} : Grows(o, {}),
         gcstate = "propagate" /\ color[t] = "black" =>
           Refs(t)' \cap White \subseteq Refs(t) \cup vs
  PROVE  /\ Bookkeeping' /\ NoDangling' /\ TriColor' /\ FreshFields'
         /\ content' = content => BlackKeys'
<1>0. /\ color \in [Obj -> Colors] /\ t \in Obj /\ t \in Grayable /\ Threads \cap Tables = {}
      /\ UpVals \cap Tables = {}
  BY DisjointKinds DEF Inv, TypeInv, TypeOK, Obj, Grayable
<1>1. /\ color'[t] = "black" => color[t] = "black" /\ vs \cap White = {}
      /\ color'[t] # color[t] => color[t] = "black" /\ color'[t] = "gray"
      /\ \A o \in Obj \ {t} : color'[o] = color[o]
      /\ grayagain' = IF color'[t] # color[t] /\ gcstate = "propagate" THEN grayagain \cup {t}
                                                                       ELSE grayagain
  BY <1>0 DEF BackBarrier
<1>2. White' = White /\ Live' = Live /\ Allocated' = Allocated /\ Seen' = Seen
  BY <1>0, <1>1 DEF White, Live, Allocated, IsDead, Seen, Whites
<1>3. AtomicStages'
  BY <1>2, MutatorStages DEF Inv, Bookkeeping, AtomicStages
<1>4. ListDiscipline'
  <2> SUFFICES ASSUME gcstate = "propagate" PROVE ListDiscipline'
    BY DEF ListDiscipline, lists
  <2>1. CASE color'[t] # color[t]
    <3>1. t \notin gray \cup grayagain \cup weak
      BY <1>1, <2>1 DEF Inv, Bookkeeping, ListDiscipline
    <3>2. {o \in Grayable : color'[o] = "gray"} = {o \in Grayable : color[o] = "gray"} \cup {t}
      BY <1>0, <1>1, <2>1 DEF Grayable, Obj
    <3> QED BY <1>1, <2>1, <3>1, <3>2 DEF Inv, Bookkeeping, ListDiscipline, lists
  <2>2. CASE color'[t] = color[t]
    <3>1. \A o \in Grayable : color'[o] = color[o]
      BY <1>0, <1>1, <2>2 DEF Grayable, Obj
    <3> QED BY <1>1, <2>2, <3>1 DEF Inv, Bookkeeping, ListDiscipline, lists
  <2> QED BY <2>1, <2>2
<1>5. SweepBookkeeping'
  <2>1. \A o \in Obj : color'[o] = "otherwhite" <=> color[o] = "otherwhite"
    BY <1>0, <1>1
  <2>2. t \notin tmudata
    BY DisjointKinds DEF Inv, TypeInv, TypeOK
  <2>3. \A o \in Obj \ {t} : color'[o] = color[o]
    BY <1>1
  <2>4. color'[t] # color[t] => color[t] = "black"
    BY <1>1
  <2> QED BY <1>0, <1>2, <2>1, <2>2, <2>3, <2>4
          DEF Inv, Bookkeeping, SweepBookkeeping, IsDead, lists, Allocated
<1>6. OpenUpvalues' /\ GrayKinds' /\ Pending'
  BY <1>0, <1>1, <1>2 DEF Inv, Bookkeeping, OpenUpvalues, GrayKinds, Pending, lists, Obj
<1>7. NoDangling' /\ TriColor' /\ FreshFields'
  <2>1. gcstate = "propagate" => \A o \in Obj : color'[o] = "black" =>
           color[o] = "black" /\ Refs(o)' \cap White' \subseteq Refs(o)
    <3>1. \A o \in Obj \ {t} : Refs(o)' \subseteq Refs(o)
      BY GrowsRefs
    <3> QED BY <1>1, <1>2, <3>1
  <2>2. \A o \in Obj : Grows(o, S)
    BY DEF Grows
  <2>3. color[t] # "free"
    BY DEF Live, Allocated
  <2>4. \A o \in Obj : color'[o] = "free" => color[o] = "free" /\ Grows(o, {})
    BY <1>0, <1>1, <2>3
  <2> QED BY <1>2, <2>1, <2>2, <2>4, SafeStore DEF White
<1>8. content' = content => BlackKeys'
  <2>1. \A o \in Tables : color'[o] = "black" => color[o] = "black"
    BY <1>1 DEF Obj
  <2> QED BY <1>2, <2>1, KeepKeys DEF lists
<1> QED BY <1>3, <1>4, <1>5, <1>6, <1>7, <1>8 DEF Bookkeeping

\* New objects, as long as they are stored where no barrier is needed.
LEMMA AllocStore ==
  ASSUME Inv, MutatorRuns, NEW new \in SUBSET RootList, Alloc(new),
         UNCHANGED <<grayagain, lists, openat>>, Roots' = Roots,
         NEW S, S \subseteq Live \cup new,
         \A o \in Obj : Grows(o, S),
         \A o \in Obj : color[o] = "black" => Grows(o, {}),
         \A o \in Obj \ new : color[o] = "free" => Grows(o, {})
  PROVE  /\ Bookkeeping' /\ NoDangling' /\ TriColor' /\ FreshFields'
         /\ content' = content => BlackKeys'
<1>0. /\ color \in [Obj -> Colors] /\ new \subseteq Obj /\ Grayable \subseteq Obj
      /\ Threads \subseteq Obj /\ UpVals \subseteq Obj /\ Tables \subseteq Obj
  BY DEF Inv, TypeInv, TypeOK, Obj, Grayable, RootList
<1>1. /\ \A o \in new : color[o] = "free" /\ color'[o] = "currentwhite"
      /\ \A o \in Obj \ new : color'[o] = color[o]
      /\ gray' = gray /\ Link(new)
  BY <1>0 DEF Alloc
<1>2. /\ White' = White \cup new /\ Live' = Live \cup new /\ Allocated' = Allocated \cup new
      /\ Seen' = Seen
  BY <1>0, <1>1 DEF White, Live, Allocated, IsDead, Seen, Whites
<1>3. AtomicStages'
  <2>1. {MainThread, Registry} \cap new = {}
    BY <1>1, HandsLive DEF Live, Allocated
  <2> QED BY <1>2, <2>1, MutatorStages DEF Inv, Bookkeeping, AtomicStages
<1>4. ListDiscipline'
  BY <1>0, <1>1 DEF Inv, Bookkeeping, ListDiscipline, lists
<1>5. SweepBookkeeping'
  <2>1. \A o \in new : o \notin tmudata /\ (o \in UpVals => openat[o] = Nil)
    BY <1>1 DEF Inv, Bookkeeping, Pending, OpenUpvalues, Allocated
  <2>2. /\ unswept \subseteq unswept' /\ unswept' \subseteq unswept \cup new
        /\ gcstate \notin {"sweepstring", "sweep"} => unswept' = unswept
    BY <1>1 DEF Link
  <2>3. \A o \in Obj : color'[o] = "otherwhite" <=> color[o] = "otherwhite"
    BY <1>0, <1>1
  <2>4. SweepBookkeeping
    BY DEF Inv, Bookkeeping
  <2>5. UNCHANGED <<lists, openat>>
    OBVIOUS
  <2>6. gcstate # "propagate" => \A o \in Allocated' :
       \/ color'[o] = "currentwhite"
       \/ o \in tmudata /\ color'[o] = "black"
       \/ o \in unswept'
       \/ o \in UpVals /\ openat[o] # Nil /\ openat[o][1] \in unswept'
       \/ o \in Strings /\ gcstate = "sweepstring" /\ Bucket[o] >= sweepstrgc
    BY <1>0, <1>1, <1>2, <2>2, <2>4 DEF SweepBookkeeping, Allocated
  <2>7. \A o \in unswept' : /\ o \in Allocated' \ tmudata
                            /\ o \in UpVals => openat[o] = Nil
    BY <1>2, <2>1, <2>2, <2>4 DEF SweepBookkeeping
  <2>8. unswept' # {} <=> gcstate \in {"sweepstring", "sweep"}
    BY <2>2, <2>4 DEF SweepBookkeeping
  <2> QED BY <2>3, <2>4, <2>5, <2>6, <2>7, <2>8 DEF SweepBookkeeping, IsDead, lists
<1>6. OpenUpvalues' /\ GrayKinds' /\ Pending'
  BY <1>0, <1>1, <1>2 DEF Inv, Bookkeeping, OpenUpvalues, GrayKinds, Pending, lists
<1>7. NoDangling' /\ TriColor' /\ FreshFields'
  <2>1. \A o \in Obj : color'[o] = "black" =>
           color[o] = "black" /\ Refs(o)' \cap White' \subseteq Refs(o)
    <3>1. \A o \in Obj : color[o] = "black" => Refs(o)' \subseteq Refs(o)
      BY GrowsRefs
    <3> QED BY <1>0, <1>1, <3>1
  <2>2. \A o \in Live' \ Live : Refs(o) \subseteq Live'
    BY <1>0, <1>1, <1>2 DEF Inv, FreshFields
  <2>3. \A o \in Obj : color'[o] = "free" => color[o] = "free" /\ Grows(o, {})
    BY <1>1
  <2>4. \A o \in White' : color[o] \in Whites \cup {"free"}
    BY <1>1, <1>2 DEF White
  <2> QED BY <1>2, <2>1, <2>2, <2>3, <2>4, SafeStore
<1>8. content' = content => BlackKeys'
  BY <1>0, <1>1, <1>2, KeepKeys DEF lists
<1> QED BY <1>3, <1>4, <1>5, <1>6, <1>7, <1>8 DEF Bookkeeping

\* A write into a stack is seen through the open upvalues there; neither is black.
LEMMA StackStore ==
  ASSUME Inv, NEW th \in Threads \cap Allocated, NEW s \in Slots, NEW v,
         stack' = [stack EXCEPT ![th][s] = v], UNCHANGED <<openat, closedval>>
  PROVE  /\ \A x \in Threads, r \in Slots : stack'[x][r] \in {stack[x][r], v}
         /\ \A u \in UpVals : UpValue(u)' \in {UpValue(u), v}
         /\ \A x \in Threads : color[x] \in {"black", "free"} =>
              \A r \in Slots : stack'[x][r] = stack[x][r]
         /\ \A u \in UpVals : color[u] \in {"black", "free"} => UpValue(u)' = UpValue(u)
         /\ v \notin UpVals /\ UNCHANGED holds => CellValues'
<1>1. stack \in [Threads -> [Slots -> Val \cup {Nil}]] /\ th \in Obj
  BY DEF Inv, TypeInv, TypeOK, Obj
<1>2. \A x \in Threads, r \in Slots : stack'[x][r] = IF x = th /\ r = s THEN v ELSE stack[x][r]
  BY <1>1
<1>3. color[th] \notin {"black", "free"}
  BY <1>1 DEF Inv, Bookkeeping, GrayKinds, Allocated
<1>4. \A u \in UpVals : UpValue(u)' = UpValue(u) \/ (openat[u] # Nil /\ UpValue(u)' = v)
  BY <1>2, OpenAtType DEF UpValue, Inv
<1>5. \A u \in UpVals : openat[u] # Nil => color[u] \notin {"black", "free"}
  BY DEF Inv, Bookkeeping, OpenUpvalues
<1>6. v \notin UpVals /\ UNCHANGED holds => CellValues'
  BY <1>2 DEF Inv, CellValues
<1> QED BY <1>2, <1>3, <1>4, <1>5, <1>6

LEMMA PushStore ==
  ASSUME Inv, NEW s \in Slots, NEW v, Push(v, s), UNCHANGED <<openat, closedval>>
  PROVE  /\ \A x \in Threads, r \in Slots : stack'[x][r] \in {stack[x][r], v}
         /\ \A u \in UpVals : UpValue(u)' \in {UpValue(u), v}
         /\ \A x \in Threads : color[x] \in {"black", "free"} =>
              \A r \in Slots : stack'[x][r] = stack[x][r]
         /\ \A u \in UpVals : color[u] \in {"black", "free"} => UpValue(u)' = UpValue(u)
         /\ v \notin UpVals /\ UNCHANGED holds => CellValues'
BY HandsLive, StackStore DEF Push, Inv, TypeInv, TypeOK, Live

\* What the steps with one new object have in common.
LEMMA NewStore ==
  ASSUME Inv, MutatorRuns, NEW c \in RootList, NEW us \in SUBSET UpVals, Alloc({c} \cup us),
         c \notin UpVals, NEW s \in Slots, Push(c, s),
         UNCHANGED <<grayagain, lists, content, metatable, openat, closedval, running, basemt>>,
         NEW T, T \subseteq Live \cup us,
         \A o \in (Closures \cup Userdata \cup Threads) \ {c} : env'[o] = env[o],
         \A o \in LClosures \ {c} : upvals'[o] = upvals[o],
         \A o \in (Closures \cup Protos) \ {c} : holds'[o] = holds[o],
         c \in Closures \cup Userdata \cup Threads => env'[c] \in {env[c], Nil} \cup T,
         c \in LClosures => upvals'[c] \subseteq upvals[c] \cup T /\ holds'[c] \subseteq Protos \cup holds[c],
         c \in Closures \cup Protos => holds'[c] \subseteq holds[c] \cup T
  PROVE  /\ Bookkeeping' /\ NoDangling' /\ TriColor' /\ FreshFields' /\ BlackKeys' /\ CellValues'
<1> DEFINE new == {c} \cup us
           S == T \cup {c}
<1>1. new \in SUBSET RootList /\ S \subseteq Live \cup new /\ Roots' = Roots
  BY DisjointKinds DEF RootList, Obj, Roots
<1>2. color[c] = "free"
  BY DEF Alloc
<1>3. /\ \A x \in Threads, r \in Slots : stack'[x][r] \in {stack[x][r], c}
      /\ \A u \in UpVals : UpValue(u)' \in {UpValue(u), c}
      /\ \A x \in Threads : color[x] \in {"black", "free"} =>
              \A r \in Slots : stack'[x][r] = stack[x][r]
      /\ \A u \in UpVals : color[u] \in {"black", "free"} => UpValue(u)' = UpValue(u)
  BY PushStore
<1>4. \A o \in Obj : Grows(o, S)
  BY <1>3 DEF Grows, EntryRef, HasValue
<1>5. \A o \in Obj \ new : color[o] \in {"black", "free"} => Grows(o, {})
  BY <1>3 DEF Grows, EntryRef, HasValue
<1>6. \A o \in Obj : color[o] = "black" => o \notin new
  BY DEF Alloc
<1>7. CellValues'
  <2>1. \A o \in LClosures : holds'[o] \subseteq Protos
    BY DEF Inv, CellValues, Closures
  <2>2. \A x \in Threads, r \in Slots : stack'[x][r] \notin UpVals
    BY <1>3 DEF Inv, CellValues
  <2> QED BY <2>1, <2>2 DEF Inv, CellValues
<1> HIDE DEF new, S
<1>8. Alloc(new)
  BY DEF new
<1> QED BY <1>1, <1>4, <1>5, <1>6, <1>7, <1>8, AllocStore

LEMMA NewObjectsSafe ==
  ASSUME Inv, TypeInv', NEW s \in Slots
  PROVE  /\ \A t \in Tables : NewTable(t, s) => Inv'
         /\ \A u \in Userdata : NewUserdata(u, s) => Inv'
         /\ \A th \in Threads : NewThread(th, s) => Inv'
         /\ \A c \in CClosures : PushCClosure(c, s) => Inv'
         /\ \A p \in Protos : NewProto(p, s) => Inv'
         /\ \A c \in LClosures, p \in Protos : ParserClosure(c, p, s) => Inv'
<1>0. /\ env[running] \in Live \cup {Nil} /\ CurrentEnvs \subseteq Live \cup {Nil}
      /\ Values \subseteq Live /\ InHand \subseteq Live
      /\ env \in [Closures \cup Userdata \cup Threads -> Tables \cup {Nil}]
      /\ upvals \in [LClosures -> SUBSET UpVals]
      /\ holds \in [Closures \cup Protos -> SUBSET Obj]
  BY HandsLive DEF CurrentEnvs, Inv, TypeInv, TypeOK
<1>1. \A o \in Tables \cup Userdata \cup Threads \cup Protos \cup Closures :
         o \in RootList /\ o \notin UpVals
  BY DisjointKinds DEF RootList, Obj
<1>2. \A o : {o} \cup {} = {o}
  OBVIOUS
<1>3. ASSUME NEW c \in RootList \ UpVals, Alloc({c}), Push(c, s), MutatorRuns,
             UNCHANGED <<grayagain, lists, content, metatable, upvals, openat, closedval,
                         running, basemt>>,
             NEW e \in Live \cup {Nil}, NEW vs \in SUBSET Live,
             \A o \in (Closures \cup Userdata \cup Threads) \ {c} : env'[o] = env[o],
             c \in Closures \cup Userdata \cup Threads => env'[c] \in {env[c], e},
             \A o \in Closures \cup Protos : o \notin CClosures \/ o # c => holds'[o] = holds[o],
             c \in CClosures => holds'[c] \subseteq vs
      PROVE  Inv'
  <2> DEFINE T == vs \cup ({e} \ {Nil})
  <2>1. T \subseteq Live \cup {} /\ vs \subseteq T
    OBVIOUS
  <2>2. c \in Closures \cup Userdata \cup Threads => env'[c] \in {env[c], Nil} \cup T
    BY <1>3
  <2>3. CClosures \subseteq Closures /\ LClosures \subseteq Closures /\ LClosures \cap CClosures = {}
    BY DisjointKinds DEF Closures
  <2>4. /\ \A o \in (Closures \cup Protos) \ {c} : holds'[o] = holds[o]
        /\ c \in Closures \cup Protos => holds'[c] \subseteq holds[c] \cup T
        /\ c \in LClosures => upvals'[c] \subseteq upvals[c] \cup T
        /\ c \in LClosures => holds'[c] \subseteq Protos \cup holds[c]
        /\ \A o \in LClosures \ {c} : upvals'[o] = upvals[o]
    BY <1>3, <2>1, <2>3
  <2>5. Alloc({c} \cup {}) /\ {} \in SUBSET UpVals
    BY <1>3
  <2> HIDE DEF T
  <2>6. /\ Bookkeeping' /\ NoDangling' /\ TriColor' /\ FreshFields' /\ BlackKeys' /\ CellValues'
    BY <1>3, <2>1, <2>2, <2>4, <2>5, NewStore
  <2> QED BY <2>6 DEF Inv
<1>4. ASSUME NEW t \in Tables, NewTable(t, s) PROVE Inv'
  BY <1>0, <1>1, <1>3, <1>4, DisjointKinds DEF NewTable, Closures
<1>5. ASSUME NEW u \in Userdata, NewUserdata(u, s) PROVE Inv'
  <2>1. PICK e \in CurrentEnvs : env' = [env EXCEPT ![u] = e]
    BY <1>5 DEF NewUserdata
  <2> QED BY <1>0, <1>1, <1>3, <1>5, <2>1, DisjointKinds DEF NewUserdata, Closures
<1>6. ASSUME NEW th \in Threads, NewThread(th, s) PROVE Inv'
  BY <1>0, <1>1, <1>3, <1>6, DisjointKinds DEF NewThread, Closures
<1>7. ASSUME NEW c \in CClosures, PushCClosure(c, s) PROVE Inv'
  <2>1. PICK e \in CurrentEnvs, v \in Values :
           env' = [env EXCEPT ![c] = e] /\ holds' = [holds EXCEPT ![c] = {v}]
    BY <1>7 DEF PushCClosure
  <2>2. {v} \in SUBSET Live /\ c \in Closures
    BY <1>0 DEF Closures
  <2> QED BY <1>0, <1>1, <1>3, <1>7, <2>1, <2>2 DEF PushCClosure
<1>8. ASSUME NEW p \in Protos, NewProto(p, s) PROVE Inv'
  BY <1>0, <1>1, <1>3, <1>8, DisjointKinds DEF NewProto, Closures
<1>9. ASSUME NEW c \in LClosures, NEW p \in Protos, ParserClosure(c, p, s) PROVE Inv'
  <2>1. PICK us \in SUBSET UpVals : Alloc({c} \cup us) /\ upvals' = [upvals EXCEPT ![c] = us]
    BY <1>9 DEF ParserClosure
  <2>2. /\ p \in Live /\ MutatorRuns /\ Push(c, s)
        /\ env' = [env EXCEPT ![c] = env[running]] /\ holds' = [holds EXCEPT ![c] = {p}]
        /\ UNCHANGED <<grayagain, lists, content, metatable, openat, closedval, running, basemt>>
    BY <1>0, <1>9 DEF ParserClosure, Compiling
  <2> DEFINE T == {p} \cup ({env[running]} \ {Nil}) \cup us
  <2>3. T \subseteq Live \cup us /\ us \subseteq T /\ p \in T
    BY <1>0, <2>2
  <2>4. /\ c \in Closures /\ c \in RootList /\ c \notin UpVals
    BY <1>1 DEF Closures
  <2>5. /\ \A o \in (Closures \cup Userdata \cup Threads) \ {c} : env'[o] = env[o]
        /\ \A o \in LClosures \ {c} : upvals'[o] = upvals[o]
        /\ \A o \in (Closures \cup Protos) \ {c} : holds'[o] = holds[o]
        /\ env'[c] \in {env[c], Nil} \cup T
        /\ upvals'[c] \subseteq upvals[c] \cup T
        /\ holds'[c] \subseteq Protos /\ holds'[c] \subseteq T
    BY <1>0, <2>1, <2>2, <2>3, <2>4
  <2> HIDE DEF T
  <2>6. /\ Bookkeeping' /\ NoDangling' /\ TriColor' /\ FreshFields' /\ BlackKeys' /\ CellValues'
    BY <2>1, <2>2, <2>3, <2>4, <2>5, NewStore
  <2> QED BY <2>6 DEF Inv
<1> QED BY <1>4, <1>5, <1>6, <1>7, <1>8, <1>9

LEMMA NewStringSafe ==
  ASSUME Inv, TypeInv', NEW x \in Strings, NEW s \in Slots, NewString(x, s)
  PROVE  Inv'
<1>0. /\ color \in [Obj -> Colors] /\ x \in Obj /\ x \notin Grayable /\ x \notin UpVals
      /\ x \notin Threads /\ x \notin Tables /\ x \notin Userdata /\ MutatorRuns
      /\ Grayable \subseteq Obj /\ UpVals \subseteq Obj /\ Threads \subseteq Obj
      /\ Tables \subseteq Obj
      /\ UNCHANGED <<gray, grayagain, unswept, lists, content, metatable, env,
                     upvals, holds, openat, closedval, running, basemt>>
  BY DisjointKinds DEF Inv, TypeInv, TypeOK, Obj, Grayable, NewString
<1>1. /\ \A o \in Obj \ {x} : color'[o] = color[o]
      /\ color'[x] = IF color[x] \in {"free", "otherwhite"} THEN "currentwhite" ELSE color[x]
  BY <1>0 DEF NewString, IsDead
<1>2. /\ Live' = Live \cup {x} /\ Allocated' = Allocated \cup {x} /\ Seen' = Seen
      /\ White' \subseteq White \cup {x} /\ White \subseteq White'
      /\ x \in White' => color[x] \in Whites \cup {"free"}
  BY <1>0, <1>1 DEF Live, Allocated, White, Seen, IsDead, Whites, Colors
<1>3. Bookkeeping'
  <2>1. AtomicStages'
    <3>1. {MainThread, Registry} \cap {x} = {}
      BY <1>0, ConstantsAssumption
    <3> QED BY <1>0, <1>2, <3>1, MutatorStages DEF Inv, Bookkeeping, AtomicStages
  <2>2. ListDiscipline'
    BY <1>0, <1>1 DEF Inv, Bookkeeping, ListDiscipline, lists
  <2>3. SweepBookkeeping'
    BY <1>0, <1>1, <1>2 DEF Inv, Bookkeeping, SweepBookkeeping, Allocated, IsDead, lists
  <2>4. OpenUpvalues' /\ Pending'
    BY <1>0, <1>1, <1>2 DEF Inv, Bookkeeping, OpenUpvalues, Pending, lists
  <2>5. GrayKinds'
    BY <1>0, <1>1 DEF Inv, Bookkeeping, GrayKinds, lists
  <2> QED BY <2>1, <2>2, <2>3, <2>4, <2>5 DEF Bookkeeping
<1>4. /\ \A t \in Threads, r \in Slots : stack'[t][r] \in {stack[t][r], x}
      /\ \A u \in UpVals : UpValue(u)' \in {UpValue(u), x}
      /\ \A t \in Threads : color[t] \in {"black", "free"} =>
              \A r \in Slots : stack'[t][r] = stack[t][r]
      /\ \A u \in UpVals : color[u] \in {"black", "free"} => UpValue(u)' = UpValue(u)
      /\ CellValues'
  <2>1. Push(x, s)
    BY DEF NewString
  <2> QED BY <1>0, <2>1, PushStore
<1>5. /\ \A o \in Obj : Grows(o, {x})
      /\ \A o \in Obj : color[o] \in {"black", "free"} => Grows(o, {})
  BY <1>0, <1>4 DEF Grows, EntryRef, HasValue
<1>6. Refs(x) = {}
  BY <1>0, RefsMeaning, DisjointKinds DEF RefTo, Closures
<1>7. NoDangling' /\ TriColor' /\ FreshFields'
  <2>1. \A o \in Obj : color'[o] = "black" =>
           color[o] = "black" /\ Refs(o)' \cap White' \subseteq Refs(o)
    <3>1. \A o \in Obj : color[o] = "black" => Refs(o)' \subseteq Refs(o)
      BY <1>5, GrowsRefs
    <3> QED BY <1>1, <3>1
  <2>2. \A o \in Obj : color'[o] = "free" => color[o] = "free"
    BY <1>1
  <2>3. Roots' = Roots /\ {x} \subseteq Live' /\ UNCHANGED <<lists>>
    BY <1>0, <1>2 DEF Roots
  <2>4. \A o \in White' : color[o] \in Whites \cup {"free"}
    BY <1>2 DEF White
  <2>5. Live \subseteq Live' /\ \A o \in Live' \ Live : Refs(o) \subseteq Live'
    BY <1>2, <1>6
  <2> QED BY <1>0, <1>5, <2>1, <2>2, <2>3, <2>4, <2>5, SafeStore
<1>8. BlackKeys'
  <2>1. \A o \in Tables : color'[o] = "black" => color[o] = "black"
    BY <1>0, <1>1
  <2> QED BY <1>0, <1>2, <2>1, KeepKeys DEF lists
<1> QED BY <1>3, <1>4, <1>7, <1>8 DEF Inv

LEMMA OpClosureSafe ==
  ASSUME Inv, TypeInv', NEW c \in LClosures, NEW cl \in InHand \cap LClosures, NEW p \in Protos,
         NEW l \in Slots \cup {Nil}, NEW s \in Slots, OpClosure(c, cl, p, l, s)
  PROVE  Inv'
<1>0. /\ color \in [Obj -> Colors] /\ c \in Obj /\ c \in Grayable /\ c \in RootList /\ c \in Closures
      /\ c \notin UpVals /\ c \notin Strings
      /\ Grayable \subseteq Obj /\ UpVals \subseteq Obj /\ Threads \subseteq Obj
      /\ Tables \subseteq Obj /\ Protos \subseteq Obj /\ UpVals \cap Grayable = {}
      /\ env \in [Closures \cup Userdata \cup Threads -> Tables \cup {Nil}]
      /\ upvals \in [LClosures -> SUBSET UpVals]
      /\ holds \in [Closures \cup Protos -> SUBSET Obj]
      /\ openat \in [UpVals -> (Threads \X Slots) \cup {Nil}]
      /\ stack \in [Threads -> [Slots -> Val \cup {Nil}]]
      /\ running \in Threads
  BY DisjointKinds DEF Inv, TypeInv, TypeOK, Obj, Grayable, RootList, Closures
<1>1. /\ MutatorRuns /\ color[c] = "free" /\ Link({c}) /\ Push(c, s)
      /\ env' = [env EXCEPT ![c] = env[cl]]
      /\ holds' = [holds EXCEPT ![c] = {p}]
      /\ UNCHANGED <<gray, grayagain, lists, content, metatable, closedval, running, basemt>>
  BY DEF OpClosure
<1>2. /\ p \in Live /\ upvals[cl] \subseteq Live /\ env[cl] \in Live \cup {Nil}
      /\ cl \in Closures /\ env[cl] \in Obj \cup {Nil}
      /\ l \in Slots /\ stack[running][l] \in Obj => stack[running][l] \in Live
  <2>1. cl \in Live /\ cl \in Closures
    BY HandsLive DEF Closures
  <2>2. \A x \in Obj : x \in holds[cl] \cup upvals[cl] \/ x = env[cl] => x \in Live
    <3>1. \A x \in Obj : x \in holds[cl] \cup upvals[cl] \/ x = env[cl] => RefTo(cl, x)
      BY <2>1 DEF RefTo
    <3> QED BY <2>1, <3>1, RefsMeaning DEF Inv, NoDangling
  <2>3. PICK q \in holds[cl] : p \in holds[q]
    BY DEF OpClosure
  <2>4. q \in Protos /\ q \in Live
    BY <1>0, <2>1, <2>2, <2>3 DEF Inv, CellValues
  <2>5. p \in Live
    <3>1. RefTo(q, p)
      BY <1>0, <2>3, <2>4 DEF RefTo
    <3> QED BY <2>4, <3>1, RefsMeaning DEF Inv, NoDangling
  <2>6. l \in Slots /\ stack[running][l] \in Obj => stack[running][l] \in Live
    BY HandsLive DEF InHand
  <2>7. env[cl] \in Obj \cup {Nil}
    BY <1>0, <2>1
  <2>8. upvals[cl] \subseteq Obj
    BY <1>0
  <2> QED BY <2>1, <2>2, <2>5, <2>6, <2>7, <2>8
<1>3. \A u \in UpVals : openat[u] = <<running, l>> =>
         l \in Slots /\ openat[u] # Nil /\ color[u] \notin {"free", "black"}
  <2> SUFFICES ASSUME NEW u \in UpVals, openat[u] = <<running, l>>
               PROVE  l \in Slots /\ openat[u] # Nil
    BY DEF Inv, Bookkeeping, OpenUpvalues
  <2>1. <<running, l>> # Nil
    BY <1>0, ConstantsAssumption
  <2> QED BY <2>1, OpenAtType DEF Inv
<1>4. ASSUME NEW us \in SUBSET UpVals, us \subseteq Live,
             upvals' = [upvals EXCEPT ![c] = us],
             color' = [color EXCEPT ![c] = "currentwhite"], openat' = openat
      PROVE  Inv'
  <2> DEFINE T == {p} \cup ({env[cl]} \ {Nil}) \cup us
  <2>1. T \subseteq Live \cup {} /\ us \subseteq T /\ p \in T
    BY <1>2, <1>4
  <2>2. Alloc({c} \cup {})
    BY <1>0, <1>1, <1>4 DEF Alloc
  <2>3. /\ \A o \in (Closures \cup Userdata \cup Threads) \ {c} : env'[o] = env[o]
        /\ \A o \in LClosures \ {c} : upvals'[o] = upvals[o]
        /\ \A o \in (Closures \cup Protos) \ {c} : holds'[o] = holds[o]
        /\ env'[c] \in {env[c], Nil} \cup T
        /\ upvals'[c] \subseteq upvals[c] \cup T
        /\ holds'[c] \subseteq Protos /\ holds'[c] \subseteq T
    BY <1>0, <1>1, <1>4, <2>1
  <2> HIDE DEF T
  <2>4. Bookkeeping' /\ NoDangling' /\ TriColor' /\ FreshFields' /\ BlackKeys' /\ CellValues'
    <3>1. Inv /\ MutatorRuns /\ c \in RootList /\ c \notin UpVals /\ Push(c, s) /\ s \in Slots
      BY <1>0, <1>1
    <3>2. UNCHANGED <<grayagain, lists, content, metatable, openat, closedval, running, basemt>>
      BY <1>1, <1>4
    <3>3. {} \in SUBSET UpVals /\ T \subseteq Live \cup {}
      BY <2>1
    <3>4. /\ c \in Closures \cup Userdata \cup Threads => env'[c] \in {env[c], Nil} \cup T
          /\ c \in LClosures => upvals'[c] \subseteq upvals[c] \cup T /\ holds'[c] \subseteq Protos \cup holds[c]
          /\ c \in Closures \cup Protos => holds'[c] \subseteq holds[c] \cup T
      BY <2>3
    <3> QED BY ONLY <2>2, <2>3, <3>1, <3>2, <3>3, <3>4, NewStore
  <2> QED BY <2>4 DEF Inv
\* The upvalue is new, or an open one that was dead.
<1>5. ASSUME NEW u \in UpVals, color[u] \in {"free", "otherwhite"}, l \in Slots,
             NEW us \in SUBSET UpVals, us \subseteq Live \cup {u},
             upvals' = [upvals EXCEPT ![c] = us],
             color' = [color EXCEPT ![c] = "currentwhite", ![u] = "currentwhite"],
             openat' = [openat EXCEPT ![u] = <<running, l>>],
             openat[u] \in {Nil, <<running, l>>},
             \A w \in UpVals \ {u} : openat[w] # <<running, l>>,
             color[u] = "otherwhite" => openat[u] # Nil
      PROVE  Inv'
  <2>1. /\ u # c /\ color'[c] = "currentwhite" /\ color'[u] = "currentwhite"
        /\ \A o \in Obj \ {c, u} : color'[o] = color[o]
        /\ openat'[u] = <<running, l>> /\ \A w \in UpVals \ {u} : openat'[w] = openat[w]
        /\ <<running, l>> # Nil
    BY <1>0, <1>5, ConstantsAssumption
  <2>2. /\ White' \subseteq White \cup {c, u} /\ Live' = Live \cup {c, u}
        /\ Allocated' = Allocated \cup {c, u} /\ Seen' = Seen
    BY <1>0, <1>1, <1>5, <2>1 DEF White, Live, Allocated, IsDead, Seen, Whites
  <2>3. running \in Live /\ running \in Allocated /\ running # c /\ MainThread # c /\ Registry # c
        /\ MainThread # u /\ Registry # u
    <3>1. {MainThread, Registry} \cap UpVals = {}
      BY ConstantsAssumption, DisjointKinds
    <3> QED BY <1>1, <3>1, HandsLive DEF Live, Allocated
  <2>4. AtomicStages'
    BY <1>1, <2>2, <2>3, MutatorStages DEF Inv, Bookkeeping, AtomicStages
  <2>5. ListDiscipline'
    BY <1>0, <1>1, <2>1 DEF Inv, Bookkeeping, ListDiscipline, lists
  <2>6. SweepBookkeeping'
    <3>1. SweepBookkeeping
      BY DEF Inv, Bookkeeping
    <3>2. c \notin tmudata /\ u \notin unswept /\ c \notin unswept
      BY <1>1, <1>5, <3>1 DEF Inv, Bookkeeping, Pending, SweepBookkeeping, Allocated
    <3>3. /\ unswept \subseteq unswept' /\ unswept' \subseteq unswept \cup {c}
          /\ gcstate \notin {"sweepstring", "sweep"} => unswept' = unswept
      BY <1>1 DEF Link
    <3>4. gcstate = "propagate" => \A o \in Obj : color'[o] # "otherwhite"
      BY <2>1, <3>1 DEF SweepBookkeeping, IsDead
    <3>5. gcstate # "propagate" => \A o \in Allocated' :
       \/ color'[o] = "currentwhite"
       \/ o \in tmudata /\ color'[o] = "black"
       \/ o \in unswept'
       \/ o \in UpVals /\ openat'[o] # Nil /\ openat'[o][1] \in unswept'
       \/ o \in Strings /\ gcstate = "sweepstring" /\ Bucket[o] >= sweepstrgc
      BY <1>0, <2>1, <2>2, <3>1, <3>3 DEF SweepBookkeeping, Allocated
    <3>6. \A o \in unswept' : /\ o \in Allocated' \ tmudata
                              /\ o \in UpVals => openat'[o] = Nil
      BY <1>0, <2>1, <2>2, <3>1, <3>2, <3>3 DEF SweepBookkeeping
    <3>7. unswept' # {} <=> gcstate \in {"sweepstring", "sweep"}
      BY <3>1, <3>3 DEF SweepBookkeeping
    <3> QED BY <1>1, <3>4, <3>5, <3>6, <3>7 DEF SweepBookkeeping, IsDead, lists
  <2>7. OpenUpvalues'
    <3>1. \A w \in UpVals : openat'[w] # Nil => openat'[w][1] \in Allocated'
      BY <1>0, <2>1, <2>2, <2>3 DEF Inv, Bookkeeping, OpenUpvalues
    <3>2. \A w \in UpVals : openat'[w] # Nil => color'[w] \notin {"black", "free"}
      BY <1>0, <2>1 DEF Inv, Bookkeeping, OpenUpvalues
    <3>3. \A w, x \in UpVals : openat'[w] # Nil /\ openat'[x] = openat'[w] => x = w
      BY <1>5, <2>1 DEF Inv, Bookkeeping, OpenUpvalues
    <3> QED BY <3>1, <3>2, <3>3 DEF OpenUpvalues
  <2>8. GrayKinds' /\ Pending'
    BY <1>0, <1>1, <2>1, <2>2 DEF Inv, Bookkeeping, GrayKinds, Pending, lists
  <2> DEFINE S == {c, p, u} \cup us \cup ({env[cl], stack[running][l]} \cap Obj)
  <2>9. S \subseteq Live'
    BY <1>2, <1>5, <2>2, DisjointKinds
  <2>10. \A x \in Threads, r \in Slots : stack'[x][r] = IF x = running /\ r = s THEN c ELSE stack[x][r]
    BY <1>0, <1>1 DEF Push
  <2>11. /\ \A w \in UpVals \ {u} : UpValue(w)' = UpValue(w) \/ (openat[w] # Nil /\ UpValue(w)' = c)
         /\ UpValue(u)' \in {c, stack[running][l]}
    <3>1. \A w \in UpVals \ {u} : UpValue(w)' = UpValue(w) \/ (openat[w] # Nil /\ UpValue(w)' = c)
      BY <1>1, <2>1, <2>10, OpenAtType DEF UpValue, Inv
    <3>2. UpValue(u)' = stack'[running][l]
      BY <2>1 DEF UpValue
    <3> QED BY <1>0, <1>5, <2>10, <3>1, <3>2
  <2>12. \A o \in Obj \ {c, u} : color[o] \in {"black", "free"} => Grows(o, {})
    <3>1. \A w \in UpVals \ {u} : color[w] \in {"black", "free"} => UpValue(w)' = UpValue(w)
      BY <2>11 DEF Inv, Bookkeeping, OpenUpvalues
    <3>2. \A x \in Threads, r \in Slots : color[x] \in {"black", "free"} => stack'[x][r] = stack[x][r]
      BY <2>3, <2>10 DEF Inv, Bookkeeping, GrayKinds, Allocated
    <3> QED BY <1>0, <1>1, <1>5, <3>1, <3>2 DEF Grows, EntryRef, HasValue
  <2>13. \A o \in Obj : Grows(o, S)
    <3>1. env[cl] \in {Nil} \cup S
      BY <1>2
    <3>2. UpValue(u)' \in {Nil} \cup S \cup Indices
      BY <1>0, <1>5, <2>11 DEF Val
    <3>3. \A w \in UpVals : UpValue(w)' \in {UpValue(w), Nil} \cup S \cup Indices
      BY <2>11, <3>2
    <3>4. us \subseteq S /\ p \in S /\ c \in S
      OBVIOUS
    <3> HIDE DEF S
    <3> QED BY <1>0, <1>1, <1>5, <2>10, <3>1, <3>3, <3>4 DEF Grows, EntryRef, HasValue
  <2>14. Refs(c) = {} /\ Refs(u) \subseteq Live'
    <3>1. color[u] = "free" => Refs(u) = {}
      BY <1>0 DEF Inv, FreshFields
    <3>2. color[u] = "otherwhite" => Refs(u) \subseteq Live'
      <4> SUFFICES ASSUME openat[u] = <<running, l>>, NEW x \in Refs(u) PROVE x \in Live'
        BY <1>5
      <4>1. x \in Obj /\ x = UpValue(u)
        BY RefsMeaning, DisjointKinds DEF RefTo, Closures
      <4>2. x = stack[running][l]
        BY <2>1, <4>1 DEF UpValue
      <4> QED BY <1>2, <1>5, <2>2, <4>1, <4>2
    <3> QED BY <1>0, <1>1, <1>5, <3>1, <3>2 DEF Inv, FreshFields
  <2> HIDE DEF S
  <2>15. NoDangling' /\ TriColor' /\ FreshFields'
    <3>1. \A o \in Obj : color'[o] = "black" =>
             color[o] = "black" /\ Refs(o)' \cap White' \subseteq Refs(o)
      <4>1. \A o \in Obj \ {c, u} : color[o] = "black" => Refs(o)' \subseteq Refs(o)
        BY <2>12, GrowsRefs
      <4> QED BY <2>1, <4>1
    <3>2. \A o \in Obj : color'[o] = "free" => color[o] = "free" /\ Grows(o, {})
      BY <2>1, <2>12
    <3>3. Roots' = Roots /\ UNCHANGED <<lists>>
      BY <1>1 DEF Roots
    <3>4. gcstate = "propagate" => \A o \in White' : color[o] \in Whites \cup {"free"}
      BY <1>1, <1>5, <2>2 DEF White, Whites
    <3>5. Live \subseteq Live' /\ \A o \in Live' \ Live : Refs(o) \subseteq Live'
      BY <2>2, <2>14
    <3> QED BY <1>1, <2>9, <2>13, <3>1, <3>2, <3>3, <3>4, <3>5, SafeStore
  <2>16. BlackKeys'
    <3>1. \A o \in Tables : color'[o] = "black" => color[o] = "black"
      BY <1>0, <2>1
    <3> QED BY <1>1, <2>2, <3>1, KeepKeys DEF lists
  <2>17. CellValues'
    <3>1. color[u] = "free" => closedval[u] \notin Obj
      <4> SUFFICES ASSUME color[u] = "free", closedval[u] \in Obj PROVE FALSE
        OBVIOUS
      <4>1. openat[u] = Nil
        BY DEF Inv, Bookkeeping, OpenUpvalues
      <4>2. RefTo(u, closedval[u])
        BY <4>1 DEF RefTo, UpValue
      <4> QED BY <1>0, <4>2, RefsMeaning DEF Inv, FreshFields
    <3>2. \A o \in LClosures : holds'[o] \subseteq Protos
      BY <1>0, <1>1 DEF Inv, CellValues, Closures
    <3>3. \A w \in UpVals : closedval'[w] \notin UpVals /\ (openat'[w] # Nil => closedval'[w] \notin Obj)
      BY <1>1, <1>5, <2>1, <3>1 DEF Inv, CellValues
    <3>4. \A x \in Threads, r \in Slots : stack'[x][r] \notin UpVals
      BY <1>0, <2>10 DEF Inv, CellValues
    <3> QED BY <3>2, <3>3, <3>4 DEF CellValues
  <2> QED BY <2>4, <2>5, <2>6, <2>7, <2>8, <2>15, <2>16, <2>17 DEF Inv, Bookkeeping
<1>6. PICK shared \in SUBSET upvals[cl] :
       \/ /\ l = Nil
          /\ upvals' = [upvals EXCEPT ![c] = shared]
          /\ color' = [color EXCEPT ![c] = "currentwhite"]
          /\ openat' = openat
       \/ \E u \in UpVals :
          /\ openat[u] = <<running, l>>
          /\ upvals' = [upvals EXCEPT ![c] = shared \cup {u}]
          /\ color' = [color EXCEPT ![c] = "currentwhite",
                                    ![u] = IF IsDead(u) THEN "currentwhite" ELSE @]
          /\ openat' = openat
       \/ \E u \in UpVals :
          /\ l # Nil /\ color[u] = "free"
          /\ \A w \in UpVals : openat[w] # <<running, l>>
          /\ upvals' = [upvals EXCEPT ![c] = shared \cup {u}]
          /\ color' = [color EXCEPT ![c] = "currentwhite", ![u] = "currentwhite"]
          /\ openat' = [openat EXCEPT ![u] = <<running, l>>]
  BY DEF OpClosure
<1>7. shared \in SUBSET UpVals /\ shared \subseteq Live
  BY <1>0, <1>2
<1>8. CASE /\ upvals' = [upvals EXCEPT ![c] = shared]
           /\ color' = [color EXCEPT ![c] = "currentwhite"]
           /\ openat' = openat
  BY <1>4, <1>7, <1>8
<1>9. ASSUME NEW u \in UpVals, openat[u] = <<running, l>>,
             upvals' = [upvals EXCEPT ![c] = shared \cup {u}],
             color' = [color EXCEPT ![c] = "currentwhite",
                                    ![u] = IF IsDead(u) THEN "currentwhite" ELSE @],
             openat' = openat
      PROVE  Inv'
  <2>1. /\ l \in Slots /\ openat[u] # Nil /\ color[u] \notin {"free", "black"}
        /\ \A w \in UpVals \ {u} : openat[w] # <<running, l>>
    BY <1>3, <1>9 DEF Inv, Bookkeeping, OpenUpvalues
  <2>2. CASE IsDead(u)
    <3>1. color' = [color EXCEPT ![c] = "currentwhite", ![u] = "currentwhite"]
      BY <1>9, <2>2
    <3>2. openat' = [openat EXCEPT ![u] = <<running, l>>]
      BY <1>0, <1>9
    <3>3. shared \cup {u} \in SUBSET UpVals /\ shared \cup {u} \subseteq Live \cup {u}
      BY <1>7
    <3> QED BY <1>5, <1>9, <2>1, <2>2, <3>1, <3>2, <3>3 DEF IsDead
  <2>3. CASE ~IsDead(u)
    <3>1. color' = [color EXCEPT ![c] = "currentwhite"]
      BY <1>0, <1>9, <2>3
    <3>2. shared \cup {u} \in SUBSET UpVals /\ shared \cup {u} \subseteq Live
      BY <1>0, <1>7, <2>1, <2>3 DEF Live, Allocated
    <3> QED BY <1>4, <1>9, <3>1, <3>2
  <2> QED BY <2>2, <2>3
<1>10. ASSUME NEW u \in UpVals, l # Nil, color[u] = "free",
              \A w \in UpVals : openat[w] # <<running, l>>,
              upvals' = [upvals EXCEPT ![c] = shared \cup {u}],
              color' = [color EXCEPT ![c] = "currentwhite", ![u] = "currentwhite"],
              openat' = [openat EXCEPT ![u] = <<running, l>>]
       PROVE  Inv'
  <2>1. openat[u] = Nil
    BY <1>10 DEF Inv, Bookkeeping, OpenUpvalues
  <2>2. shared \cup {u} \in SUBSET UpVals /\ shared \cup {u} \subseteq Live \cup {u} /\ l \in Slots
    BY <1>7, <1>10
  <2> QED BY <1>5, <1>10, <2>1, <2>2
<1> QED BY <1>6, <1>8, <1>9, <1>10

LEMMA CloseUpvalsSafe ==
  ASSUME Inv, TypeInv', NEW level \in Slots, CloseUpvals(level)
  PROVE  Inv'
<1> DEFINE ups   == {u \in OpenUpvals(running) : openat[u][2] >= level}
           dead  == {u \in ups : IsDead(u)}
           live  == ups \ dead
           grays == {u \in live : color[u] = "gray"}
           more  == IF gcstate = "propagate" THEN {UpValue(u) : u \in grays} ELSE {}
           R     == Reached(more)
<1>0. /\ color \in [Obj -> Colors] /\ UpVals \subseteq Obj /\ UpVals \cap Grayable = {}
      /\ UpVals \cap Userdata = {} /\ UpVals \cap Strings = {} /\ UpVals \cap Tables = {}
      /\ UpVals \cap Threads = {} /\ Threads \cap Userdata = {}
      /\ Grayable \subseteq Obj /\ Threads \subseteq Grayable /\ Tables \subseteq Grayable
      /\ TypeInv /\ CellValues /\ {MainThread, Registry} \cap UpVals = {} /\ Nil \notin Obj
  BY ConstantsAssumption, DisjointKinds DEF Inv, TypeInv, TypeOK, Obj, Grayable
<1>1. /\ MutatorRuns /\ ups # {}
      /\ color' = [o \in Obj |-> IF o \in dead THEN "free"
                                 ELSE IF o \in grays THEN ClosedColor ELSE Marked(more)[o]]
      /\ gray' = gray \cup MarkedGray(more)
      /\ closedval' = [u \in UpVals |-> IF u \in live THEN UpValue(u) ELSE closedval[u]]
      /\ openat' = Reset(openat, ups, Nil)
      /\ Link(live)
      /\ UNCHANGED <<grayagain, lists, content, metatable, env, upvals, holds,
                     stack, running, basemt>>
  BY DEF CloseUpvals
<1>2. /\ ups \subseteq UpVals /\ \A u \in ups : openat[u] # Nil
      /\ \A u \in UpVals : openat'[u] = IF u \in ups THEN Nil ELSE openat[u]
      /\ dead \subseteq ups /\ live \subseteq ups /\ grays \subseteq live
      /\ live \cap dead = {} /\ ups = live \cup dead
      /\ \A u \in ups : u \in dead <=> color[u] = "otherwhite"
      /\ \A u \in live : u \in grays <=> color[u] = "gray"
      /\ \A u \in live : u \in Live /\ color[u] \in {"currentwhite", "gray"}
      /\ dead \cap Live = {}
  <2>1. ups \subseteq UpVals /\ \A u \in ups : openat[u] # Nil
    BY DEF OpenUpvals
  <2>2. \A u \in UpVals : openat'[u] = IF u \in ups THEN Nil ELSE openat[u]
    BY <1>1, <2>1 DEF Reset, Inv, TypeInv, TypeOK
  <2>3. \A u \in ups : color[u] \notin {"black", "free"}
    BY <2>1 DEF Inv, Bookkeeping, OpenUpvalues
  <2>4. \A u \in ups : color[u] \in Colors
    BY <1>0, <2>1
  <2>5. dead \cap Fixed = {}
    BY <1>0, <2>1, ConstantsAssumption
  <2> HIDE DEF ups
  <2> QED BY <1>0, <2>1, <2>2, <2>3, <2>4, <2>5 DEF IsDead, Live, Allocated, Colors, Whites
<1> HIDE DEF ups, dead, live, grays, more
<1>3. more \cap UpVals = {}
  <2>1. \A u \in grays : UpValue(u) \notin UpVals
    BY <1>2, OpenAtType DEF Inv, UpValue, CellValues
  <2> QED BY <2>1 DEF more
<1>4. /\ R \subseteq White /\ more \cap White \subseteq R /\ R \cap UpVals = {}
      /\ \A o \in R : MarkColor(o) = "black" => Refs(o) \cap White \subseteq R
      /\ \A o \in R : /\ o \in Obj /\ color[o] \in Whites
                      /\ Marked(more)[o] = MarkColor(o) /\ MarkColor(o) \in {"gray", "black"}
                      /\ MarkColor(o) = "black" <=>
                           o \in Userdata \/ (o \in UpVals /\ openat[o] = Nil)
      /\ \A o \in Obj \ R : Marked(more)[o] = color[o]
      /\ gray' = gray \cup {o \in Grayable : o \in R}
      /\ \A o \in Grayable \cup Strings : MarkColor(o) = "gray"
  <2>1. /\ R \subseteq White /\ more \cap White \subseteq R
        /\ \A o \in R : MarkColor(o) = "black" => Refs(o) \cap White \subseteq R
        /\ \A u \in R \cap UpVals : u \in more
    BY <1>0, Reaching
  <2>2. MarkedGray(more) = {o \in Grayable : o \in R}
    BY <1>0, Marking
  <2> QED BY <1>0, <1>1, <1>3, <2>1, <2>2, Marking
<1>5. gcstate # "propagate" => R = {}
  BY DEF Reached, more
<1> HIDE DEF R
\* The references of the upvalues that stay.
<1>6. \A u \in UpVals \ dead : UpValue(u)' = UpValue(u)
  BY <1>1, <1>2 DEF UpValue
<1>7. \A o \in Obj \ dead : Grows(o, {})
  BY <1>1, <1>6 DEF Grows, EntryRef, HasValue
<1>8. \A u \in dead : Refs(u)' = {}
  <2> SUFFICES ASSUME NEW u \in dead, NEW x, RefTo(u, x)' PROVE FALSE
    BY RefsMeaningNext
  <2>1. x \in Obj /\ x = UpValue(u)'
    BY <1>0, <1>2, DisjointKinds DEF RefTo, Closures
  <2>2. UpValue(u)' = closedval[u] /\ openat[u] # Nil
    BY <1>1, <1>2 DEF UpValue
  <2> QED BY <1>2, <2>1, <2>2 DEF Inv, CellValues
<1>9. CellValues'
  <2>1. \A u \in UpVals : UpValue(u) \notin UpVals
    BY OpenAtType DEF Inv, UpValue, CellValues
  <2> QED BY <1>1, <1>2, <2>1 DEF Inv, CellValues
<1>10. /\ unswept \subseteq unswept' /\ unswept' \subseteq unswept \cup live
       /\ gcstate \notin {"sweepstring", "sweep"} => unswept' = unswept
  BY <1>1 DEF Link
<1>11. CASE gcstate = "propagate"
  <2>1. dead = {}
    BY <1>0, <1>2, <1>11 DEF Inv, Bookkeeping, SweepBookkeeping, IsDead
  <2>2. /\ \A o \in grays : color'[o] = "black" /\ color[o] = "gray" /\ o \in UpVals
        /\ \A o \in R : color'[o] = MarkColor(o)
        /\ \A o \in Obj \ (R \cup grays) : color'[o] = color[o]
        /\ R \cap grays = {}
    BY <1>0, <1>1, <1>2, <1>4, <1>11, <2>1 DEF ClosedColor
  <2>3. White' = White \ R /\ Allocated' = Allocated /\ Seen \subseteq Seen' /\ Live' = Live
    <3>1. \A o \in Obj : color[o] # "otherwhite" /\ color'[o] # "otherwhite"
      BY <1>4, <1>11, <2>2 DEF Inv, Bookkeeping, SweepBookkeeping, IsDead
    <3> QED BY <1>0, <1>2, <1>4, <2>2, <3>1 DEF White, Allocated, Seen, Live, IsDead, Whites
  <2>4. ListDiscipline'
    BY <1>0, <1>1, <1>2, <1>4, <1>11, <2>2 DEF Inv, Bookkeeping, ListDiscipline, Whites, lists
  <2>5. AtomicStages'
    BY <1>1, <2>3, MutatorStages DEF Inv, Bookkeeping, AtomicStages
  <2>6. SweepBookkeeping'
    BY <1>1, <1>4, <1>10, <1>11, <2>2 DEF Inv, Bookkeeping, SweepBookkeeping, IsDead, lists
  <2>7. OpenUpvalues'
    <3>1. \A u \in UpVals : openat'[u] # Nil => openat'[u] = openat[u] /\ color'[u] = color[u]
      BY <1>0, <1>2, <1>4, <2>2
    <3>2. \A u \in UpVals : openat'[u] # Nil => openat'[u][1] \in Allocated'
      BY <2>3, <3>1 DEF Inv, Bookkeeping, OpenUpvalues
    <3> QED BY <3>1, <3>2 DEF Inv, Bookkeeping, OpenUpvalues
  <2>8. GrayKinds'
    <3>1. \A o \in Obj : o \in Userdata \/ o \in Grayable \cup Strings \/ o \in UpVals
      BY DEF Obj, Grayable
    <3>2. ASSUME NEW o \in Obj, color'[o] = "gray"
          PROVE  o \in Grayable \cup Strings \/ (o \in UpVals /\ openat'[o] # Nil)
      <4>1. CASE o \in R
        BY <1>4, <2>2, <3>1, <3>2, <4>1
      <4>2. CASE o \notin R
        <5>1. o \notin grays /\ color[o] = "gray"
          BY <2>2, <3>2, <4>2
        <5>2. o \notin ups
          BY <1>2, <2>1, <5>1
        <5> QED BY <1>2, <1>11, <5>1, <5>2 DEF Inv, Bookkeeping, GrayKinds
      <4> QED BY <4>1, <4>2
    <3>3. \A th \in Threads : color'[th] # "black"
      BY <1>0, <1>2, <1>4, <2>2 DEF Inv, Bookkeeping, GrayKinds
    <3> QED BY <1>1, <1>11, <3>2, <3>3 DEF GrayKinds, lists
  <2>9. Pending'
    BY <1>1, <2>3 DEF Inv, Bookkeeping, Pending, lists
  <2>10. NoDangling' /\ TriColor' /\ FreshFields'
    <3>1. ASSUME NEW o \in Obj, color'[o] = "black"
          PROVE  \/ color[o] = "black" /\ Refs(o)' \cap White' \subseteq Refs(o)
                 \/ Refs(o)' \cap White' = {}
      <4>1. Refs(o)' \subseteq Refs(o)
        BY <1>7, <2>1, GrowsRefs
      <4>2. CASE o \in R
        BY <1>4, <2>2, <2>3, <3>1, <4>1, <4>2
      <4>3. CASE o \in grays
        <5>1. \A x \in Refs(o) : x = UpValue(o)
          BY <1>0, <1>2, <4>3, RefsMeaning, DisjointKinds DEF RefTo, Closures
        <5>2. UpValue(o) \in more
          BY <1>11, <4>3 DEF more
        <5> QED BY <1>4, <2>3, <4>1, <5>1, <5>2
      <4>4. CASE o \notin R \cup grays
        BY <2>2, <3>1, <4>1, <4>4
      <4> QED BY <4>2, <4>3, <4>4
    <3>2. Roots' = Roots /\ UNCHANGED <<lists>>
      BY <1>1 DEF Roots
    <3>3. \A o \in Obj : Grows(o, {})
      BY <1>7, <2>1
    <3>4. \A o \in Obj : color'[o] = "free" => color[o] = "free"
      BY <1>4, <2>2
    <3>5. \A o \in White' : color[o] \in Whites \cup {"free"}
      BY <2>3 DEF White
    <3> QED BY <1>1, <2>3, <3>1, <3>2, <3>3, <3>4, <3>5, SafeStore
  <2>11. BlackKeys'
    <3>1. \A t \in Tables : color'[t] = "black" => color[t] = "black"
      BY <1>0, <1>2, <1>4, <2>2
    <3> QED BY <1>1, <2>3, <3>1, KeepKeys DEF lists
  <2> QED BY <1>9, <2>4, <2>5, <2>6, <2>7, <2>8, <2>9, <2>10, <2>11 DEF Inv, Bookkeeping
<1>12. CASE gcstate # "propagate"
  <2>1. /\ \A o \in dead : color'[o] = "free"
        /\ \A o \in grays : color'[o] = "currentwhite"
        /\ \A o \in Obj \ (dead \cup grays) : color'[o] = color[o]
        /\ gray' = gray
    BY <1>0, <1>1, <1>2, <1>4, <1>5, <1>12 DEF ClosedColor
  <2>2. Live' = Live /\ Allocated' = Allocated \ dead
    BY <1>0, <1>2, <2>1 DEF Live, Allocated, IsDead
  <2>3. AtomicStages'
    BY <1>1, <1>12, MutatorStages DEF Inv, Bookkeeping
  <2>4. SweepBookkeeping'
    <3>1. SweepBookkeeping /\ tmudata \subseteq Userdata
      BY DEF Inv, TypeInv, TypeOK, Bookkeeping
    <3>2. \A u \in ups : u \notin unswept
      BY <1>2, <3>1 DEF SweepBookkeeping
    <3>3. \A u \in live : color'[u] = "currentwhite"
      BY <1>0, <1>2, <2>1
    <3>4. \A o \in Allocated' :
       \/ color'[o] = "currentwhite"
       \/ o \in tmudata /\ color'[o] = "black"
       \/ o \in unswept'
       \/ o \in UpVals /\ openat'[o] # Nil /\ openat'[o][1] \in unswept'
       \/ o \in Strings /\ gcstate = "sweepstring" /\ Bucket[o] >= sweepstrgc
      <4> SUFFICES ASSUME NEW o \in Allocated', color'[o] # "currentwhite"
                   PROVE  \/ o \in tmudata /\ color'[o] = "black"
                          \/ o \in unswept'
                          \/ o \in UpVals /\ openat'[o] # Nil /\ openat'[o][1] \in unswept'
                          \/ o \in Strings /\ gcstate = "sweepstring" /\ Bucket[o] >= sweepstrgc
        OBVIOUS
      <4>1. o \in Allocated /\ o \notin dead /\ o \notin live /\ o \notin grays /\ o \in Obj
        BY <1>2, <2>2, <3>3 DEF Allocated
      <4>2. color'[o] = color[o] /\ o \notin ups
        BY <1>2, <2>1, <4>1
      <4> QED BY <1>2, <1>10, <1>12, <3>1, <4>1, <4>2 DEF SweepBookkeeping
    <3>5. \A o \in unswept' : /\ o \in Allocated' \ tmudata
                              /\ o \in UpVals => openat'[o] = Nil
      BY <1>0, <1>2, <1>10, <2>2, <3>1, <3>2 DEF SweepBookkeeping, Live, Allocated
    <3>6. unswept' # {} <=> gcstate \in {"sweepstring", "sweep"}
      BY <1>10, <3>1 DEF SweepBookkeeping
    <3> QED BY <1>1, <1>12, <3>4, <3>5, <3>6 DEF SweepBookkeeping, lists
  <2>5. OpenUpvalues'
    <3>1. \A u \in UpVals : openat[u] # Nil => openat[u][1] \in Threads
      BY <1>0, OpenAtType
    <3> QED BY <1>0, <1>2, <2>1, <2>2, <3>1 DEF Inv, Bookkeeping, OpenUpvalues
  <2>6. GrayKinds' /\ ListDiscipline'
    BY <1>0, <1>1, <1>2, <1>12, <2>1 DEF Inv, Bookkeeping, GrayKinds, ListDiscipline, lists
  <2>7. Pending'
    BY <1>0, <1>1, <1>2, <2>2 DEF Inv, TypeInv, TypeOK, Bookkeeping, Pending, lists
  <2>8. NoDangling' /\ TriColor' /\ FreshFields'
    <3>1. \A o \in Obj : color'[o] = "free" => (color[o] = "free" /\ Grows(o, {})) \/ Refs(o)' = {}
      BY <1>0, <1>7, <1>8, <2>1
    <3>2. Roots' = Roots /\ UNCHANGED <<lists>>
      BY <1>1 DEF Roots
    <3>3. NoDangling'
      <4>1. \A o \in Live : Refs(o)' \subseteq Refs(o)
        <5>1. \A o \in Live : o \in Obj \ dead
          BY <1>2 DEF Live, Allocated
        <5> QED BY <1>7, <5>1, GrowsRefs
      <4> QED BY <2>2, <3>2, <4>1 DEF Inv, NoDangling
    <3>4. FreshFields'
      BY <3>1, GrowsRefs DEF Inv, FreshFields
    <3> QED BY <1>1, <1>12, <3>3, <3>4 DEF TriColor, lists
  <2>9. BlackKeys'
    BY <1>1, <1>12 DEF BlackKeys, lists
  <2> QED BY <1>9, <2>3, <2>4, <2>5, <2>6, <2>7, <2>8, <2>9 DEF Inv, Bookkeeping
<1> QED BY <1>11, <1>12

\* Rehashing a table and removing entries without a value keep what it refers to.
LEMMA TableSetSafe ==
  ASSUME Inv, TypeInv', NEW t \in InHand \cap Tables, NEW k \in Keys, NEW v \in Values \cup {Nil},
         TableSet(t, k, v)
  PROVE  Inv'
<1>0. /\ content \in [Tables -> [Keys -> Val \cup {Nil, Absent}]] /\ t \in Live /\ t \in Obj
      /\ color \in [Obj -> Colors] /\ Keys \subseteq Obj \cup Indices
      /\ Nil \notin Obj /\ Absent \notin Obj /\ Nil # Absent
  BY HandsLive, ConstantsAssumption DEF Inv, TypeInv, TypeOK, Obj, Val
<1>1. /\ MutatorRuns /\ k \in Values \cup Indices
      /\ UNCHANGED <<gray, unswept, lists, metatable, env, upvals, holds, openat,
                     closedval, stack, running, basemt>>
      /\ UNCHANGED <<lists>>
  BY DEF TableSet
<1>2. /\ k \in Obj => k \in Live
      /\ v \in Obj \cup {Nil} /\ v \in Live \cup {Nil} /\ v # Absent
  BY <1>1, HandsLive, DisjointKinds, ValuesAreObjects, ConstantsAssumption DEF Val
<1> DEFINE S == {k, v} \cap Obj
<1>3. PICK vs : /\ BackBarrier(t, vs)
                /\ v \in vs
                /\ content[t][k] = Absent => k \in vs
                /\ \A x \in Keys : /\ x # k => \/ content'[t][x] = content[t][x]
                                               \/ content[t][x] = Nil /\ ~HasValue(t, x)'
                                   /\ x # k /\ content'[t][x] # Absent => content[t][x] # Absent
                /\ content'[t][k] = v
                /\ \A x \in Tables \ {t} : content'[x] = content[x]
  <2>1. CASE content[t][k] # Absent
    <3>1. content' = [content EXCEPT ![t][k] = v] /\ BackBarrier(t, {v})
      BY <2>1 DEF TableSet
    <3> QED BY <1>0, <2>1, <3>1
  <2>2. CASE content[t][k] = Absent
    <3>1. CASE content' = [content EXCEPT ![t][k] = v] /\ BackBarrier(t, InsertedRefs(k, v))
      BY <1>0, <2>2, <3>1 DEF InsertedRefs
    <3>2. CASE /\ content' = [content EXCEPT ![t] = [x \in Keys |->
                    IF x = k THEN v ELSE IF @[x] = Nil THEN EmptyTable[x] ELSE @[x]]]
               /\ BackBarrier(t, {x \in Keys : HasValue(t, x)} \cup InsertedRefs(k, v))
      <4>1. \A x \in Keys \ {k} : \/ content'[t][x] = content[t][x]
                                  \/ content[t][x] = Nil /\ content'[t][x] \in {Nil, Absent}
        BY <1>0, <3>2 DEF EmptyTable
      <4>2. \A x \in Keys \ {k} : content[t][x] = Absent => content'[t][x] = Absent
        BY <1>0, <3>2
      <4>3. content'[t][k] = v /\ \A x \in Tables \ {t} : content'[x] = content[x]
        BY <1>0, <3>2
      <4> QED BY <2>2, <3>2, <4>1, <4>2, <4>3 DEF InsertedRefs, HasValue
    <3> QED BY <2>2, <3>1, <3>2 DEF TableSet
  <2> QED BY <2>1, <2>2
<1>4. \A x \in Obj : EntryRef(t, x)' => EntryRef(t, x) \/ (x \in {k, v} /\ HasValue(t, k)')
  BY <1>0, <1>3 DEF EntryRef, HasValue
<1>5. Grows(t, S) /\ \A o \in Obj \ {t} : Grows(o, {})
  BY <1>1, <1>3, <1>4 DEF Grows, EntryRef, HasValue, UpValue
<1>6. gcstate = "propagate" /\ color[t] = "black" => (k \in Obj /\ content[t][k] # Absent => k \in Seen)
  BY DEF Inv, BlackKeys
<1> HIDE DEF S
<1>7. gcstate = "propagate" /\ color[t] = "black" =>
         Refs(t)' \cap White \subseteq Refs(t) \cup vs
  <2> SUFFICES ASSUME gcstate = "propagate", color[t] = "black",
                      NEW x \in Refs(t)' \cap White, x \notin Refs(t)
               PROVE  x \in vs
    OBVIOUS
  <2>1. x \in S
    BY <1>5, GrowsRefs
  <2>2. x = v \/ (x = k /\ k \in Obj /\ k \in White)
    BY <2>1 DEF S
  <2> QED BY <1>3, <1>6, <2>2 DEF Seen, White, Whites
<1>8. Bookkeeping' /\ NoDangling' /\ TriColor' /\ FreshFields'
  <2>1. S \subseteq Live /\ Roots' = Roots
    BY <1>0, <1>1, <1>2 DEF S, Roots
  <2> QED BY <1>0, <1>1, <1>3, <1>5, <1>7, <2>1, BackStore
<1>9. BlackKeys'
  <2>1. \A o \in Obj \ {t} : color'[o] = color[o]
    BY <1>0, <1>3 DEF BackBarrier
  <2>2. color'[t] = "black" => color[t] = "black" /\ vs \cap White = {}
    BY <1>0, <1>3 DEF BackBarrier
  <2>3. Seen \subseteq Seen'
    BY <1>0, <1>3 DEF Seen, BackBarrier
  <2> SUFFICES ASSUME gcstate = "propagate", NEW y \in Tables, NEW x \in Keys \cap Obj,
                      color'[y] = "black", content'[y][x] # Absent
               PROVE  x \in Seen
    BY <1>1, <2>3 DEF BlackKeys, lists
  <2>4. color[y] = "black"
    BY <2>1, <2>2 DEF Obj
  <2>5. CASE content[y][x] # Absent
    BY <2>4, <2>5 DEF Inv, BlackKeys
  <2>6. CASE content[y][x] = Absent
    <3>1. y = t /\ x = k /\ k \in vs /\ k \in Live
      BY <1>2, <1>3, <2>6
    <3>2. k \notin White /\ color[k] # "free"
      BY <2>2, <3>1 DEF Live, Allocated
    <3> QED BY <1>0, <3>1, <3>2 DEF Seen, White, Whites, Colors
  <2> QED BY <2>5, <2>6
<1>10. CellValues'
  BY <1>1, KeepCells DEF Inv
<1> QED BY <1>8, <1>9, <1>10 DEF Inv

\* The stores with luaC_barrier and luaC_objbarrier.
LEMMA BarrierStoresSafe ==
  ASSUME Inv, TypeInv'
  PROVE  /\ \A p \in InHand \cap Protos, x \in Strings \cup Protos : AddConstant(p, x) => Inv'
         /\ \A u \in InHand \cap Userdata, mt \in Tables \cup {Nil} : SetUdataMetatable(u, mt) => Inv'
         /\ \A o \in InHand, e \in Tables : SetFenv(o, e) => Inv'
         /\ \A c \in InHand \cap CClosures, v \in Values : SetCUpvalue(c, v) => Inv'
         /\ \A c \in InHand \cap LClosures, u \in UpVals, v \in Values \cup {Nil} :
              OpSetUpval(c, u, v) => Inv'
<1>0. /\ InHand \subseteq Live /\ Values \subseteq Live /\ Live \subseteq Obj
      /\ env \in [Closures \cup Userdata \cup Threads -> Tables \cup {Nil}]
      /\ holds \in [Closures \cup Protos -> SUBSET Obj]
      /\ upvals \in [LClosures -> SUBSET UpVals]
      /\ metatable \in [Tables \cup Userdata -> Tables \cup {Nil}]
      /\ stack \in [Threads -> [Slots -> Val \cup {Nil}]]
      /\ closedval \in [UpVals -> Val \cup {Nil}]
  BY HandsLive DEF Inv, TypeInv, TypeOK, Live, Allocated
<1>1. \A o \in Live : color[o] # "free"
  BY DEF Live, Allocated
<1>2. ASSUME NEW p \in InHand \cap Protos, NEW x \in Strings \cup Protos, AddConstant(p, x)
      PROVE  Inv'
  <2>1. /\ MutatorRuns /\ x \in Live /\ holds' = [holds EXCEPT ![p] = @ \cup {x}]
        /\ ForwardBarrier(p, x) /\ p \in Live /\ p \in Closures \cup Protos /\ p \notin LClosures
        /\ UNCHANGED <<grayagain, unswept, lists, content, metatable, env, upvals,
                       openat, closedval, stack, running, basemt>>
    <3>1. x \in Live
      BY <1>0, <1>2 DEF AddConstant, Compiling
    <3>2. p \notin LClosures
      BY DisjointKinds DEF Closures
    <3> QED BY <1>0, <1>2, <3>1, <3>2 DEF AddConstant
  <2>2. x # Nil /\ x \in {x} \ {Nil}
    BY <1>0, <2>1, DisjointKinds
  <2>3. \A o \in Obj : Grows(o, {x} \ {Nil}) /\ (o # p => Grows(o, {}))
    BY <1>0, <2>1, <2>2 DEF Grows, EntryRef, HasValue, UpValue
  <2>4. CellValues'
    BY <1>0, <2>1 DEF Inv, CellValues, Closures
  <2>5. Bookkeeping' /\ NoDangling' /\ TriColor' /\ FreshFields' /\ BlackKeys'
    BY <1>0, <1>1, <2>1, <2>3, BarrierStore DEF Roots
  <2> QED BY <2>4, <2>5 DEF Inv
<1>3. ASSUME NEW u \in InHand \cap Userdata, NEW mt \in Tables \cup {Nil}, SetUdataMetatable(u, mt)
      PROVE  Inv'
  <2>1. /\ MutatorRuns /\ mt \in Live \cup {Nil} /\ metatable' = [metatable EXCEPT ![u] = mt]
        /\ ForwardBarrier(u, mt) /\ u \in Live
        /\ UNCHANGED <<grayagain, unswept, lists, content, env, upvals, holds, openat,
                       closedval, stack, running, basemt>>
    BY <1>0, <1>3 DEF SetUdataMetatable
  <2>2. \A o \in Obj : Grows(o, {mt} \ {Nil}) /\ (o # u => Grows(o, {}))
    BY <1>0, <2>1 DEF Grows, EntryRef, HasValue, UpValue
  <2>3. Bookkeeping' /\ NoDangling' /\ TriColor' /\ FreshFields' /\ BlackKeys'
    BY <1>0, <1>1, <2>1, <2>2, BarrierStore DEF Roots
  <2> QED BY <2>1, <2>3, KeepCells DEF Inv
<1>4. ASSUME NEW o \in InHand, NEW e \in Tables, SetFenv(o, e) PROVE Inv'
  <2>1. /\ MutatorRuns /\ e \in Live /\ env' = [env EXCEPT ![o] = e]
        /\ ForwardBarrier(o, e) /\ o \in Live /\ o \in Obj
        /\ UNCHANGED <<grayagain, unswept, lists, content, metatable, upvals, holds,
                       openat, closedval, stack, running, basemt>>
    BY <1>0, <1>4 DEF SetFenv
  <2>2. e # Nil
    BY DisjointKinds DEF Obj
  <2>3. \A x \in Obj : Grows(x, {e} \ {Nil}) /\ (x # o => Grows(x, {}))
    BY <1>0, <2>1, <2>2 DEF Grows, EntryRef, HasValue, UpValue
  <2>4. Bookkeeping' /\ NoDangling' /\ TriColor' /\ FreshFields' /\ BlackKeys'
    BY <1>0, <1>1, <2>1, <2>3, BarrierStore DEF Roots
  <2> QED BY <2>1, <2>4, KeepCells DEF Inv
<1>5. ASSUME NEW c \in InHand \cap CClosures, NEW v \in Values, SetCUpvalue(c, v) PROVE Inv'
  <2>1. /\ MutatorRuns /\ v \in Live /\ holds' = [holds EXCEPT ![c] = {v}]
        /\ ForwardBarrier(c, v) /\ c \in Live /\ c \in Closures \cup Protos /\ c \notin LClosures
        /\ UNCHANGED <<grayagain, unswept, lists, content, metatable, env, upvals,
                       openat, closedval, stack, running, basemt>>
    BY <1>0, <1>5, DisjointKinds DEF SetCUpvalue, Closures
  <2>2. v # Nil /\ v \in {v} \ {Nil}
    BY <1>0, <2>1, DisjointKinds
  <2>3. \A o \in Obj : Grows(o, {v} \ {Nil}) /\ (o # c => Grows(o, {}))
    BY <1>0, <2>1, <2>2 DEF Grows, EntryRef, HasValue, UpValue
  <2>4. CellValues'
    BY <1>0, <2>1 DEF Inv, CellValues, Closures
  <2>5. Bookkeeping' /\ NoDangling' /\ TriColor' /\ FreshFields' /\ BlackKeys'
    BY <1>0, <1>1, <2>1, <2>3, BarrierStore DEF Roots
  <2> QED BY <2>4, <2>5 DEF Inv
<1>6. ASSUME NEW c \in InHand \cap LClosures, NEW u \in UpVals, NEW v \in Values \cup {Nil},
             OpSetUpval(c, u, v)
      PROVE  Inv'
  <2>1. /\ MutatorRuns /\ v \in Live \cup {Nil} /\ WriteUpValue(u, v) /\ ForwardBarrier(u, v)
        /\ u \in upvals[c] /\ c \in Live /\ c \in Closures
        /\ UNCHANGED <<grayagain, unswept, lists, content, metatable, env, upvals,
                       holds, openat, running, basemt>>
    BY <1>0, <1>6 DEF OpSetUpval, Closures
  <2>2. u \in Live /\ u \in Obj
    <3>1. RefTo(c, u)
      BY <2>1 DEF RefTo, Obj
    <3> QED BY <1>0, <2>1, <3>1, RefsMeaning DEF Inv, NoDangling
  <2>3. v \notin UpVals
    <3>1. \A x \in Values : x \notin UpVals
      <4>1. \A s \in Slots : stack[running][s] \notin UpVals
        BY DEF Inv, TypeInv, TypeOK, CellValues
      <4>2. env[running] \notin UpVals /\ Registry \notin UpVals /\ Fixed \cap UpVals = {}
        BY <1>0, ConstantsAssumption, DisjointKinds DEF Inv, TypeInv, TypeOK, Obj
      <4> QED BY <4>1, <4>2 DEF Values, InHand
    <3>2. Nil \notin UpVals
      BY DisjointKinds DEF Obj
    <3> QED BY <3>1, <3>2
  <2>4. CASE openat[u] = Nil
    <3>1. closedval' = [closedval EXCEPT ![u] = v] /\ stack' = stack
      BY <2>1, <2>4 DEF WriteUpValue
    <3>2. \A w \in UpVals : UpValue(w)' = IF w = u THEN v ELSE UpValue(w)
      BY <1>0, <2>1, <2>4, <3>1 DEF UpValue
    <3>3. \A o \in Obj : Grows(o, {v} \ {Nil}) /\ (o # u => Grows(o, {}))
      BY <1>0, <2>1, <3>1, <3>2 DEF Grows, EntryRef, HasValue
    <3>4. CellValues'
      BY <1>0, <2>1, <2>3, <2>4, <3>1 DEF Inv, CellValues
    <3>5. Bookkeeping' /\ NoDangling' /\ TriColor' /\ FreshFields' /\ BlackKeys'
      BY <1>0, <1>1, <2>1, <2>2, <3>3, BarrierStore DEF Roots
    <3> QED BY <3>4, <3>5 DEF Inv
  <2>5. CASE openat[u] # Nil
    <3>1. /\ stack' = [stack EXCEPT ![openat[u][1]][openat[u][2]] = v] /\ closedval' = closedval
      BY <2>1, <2>5 DEF WriteUpValue
    <3>2. openat[u][1] \in Threads \cap Allocated /\ openat[u][2] \in Slots
      BY <2>5, OpenAtType DEF Inv, Bookkeeping, OpenUpvalues
    <3>3. /\ \A x \in Threads, r \in Slots : stack'[x][r] \in {stack[x][r], v}
          /\ \A w \in UpVals : UpValue(w)' \in {UpValue(w), v}
          /\ \A x \in Threads : color[x] \in {"black", "free"} =>
               \A r \in Slots : stack'[x][r] = stack[x][r]
          /\ \A w \in UpVals : color[w] \in {"black", "free"} => UpValue(w)' = UpValue(w)
          /\ CellValues'
      BY <2>1, <2>3, <3>1, <3>2, StackStore
    <3>4. UNCHANGED color
      BY <2>1, <2>5 DEF ForwardBarrier, Inv, Bookkeeping, OpenUpvalues
    <3>5. \A o \in Obj : /\ Grows(o, {v} \ {Nil})
                         /\ color[o] \in {"black", "free"} => Grows(o, {})
      BY <1>0, <2>1, <3>3 DEF Grows, EntryRef, HasValue
    <3>6. Bookkeeping' /\ NoDangling' /\ TriColor' /\ FreshFields' /\ BlackKeys'
      BY <1>0, <1>1, <2>1, <2>2, <3>4, <3>5, BarrierStore DEF Roots
    <3> QED BY <3>3, <3>6 DEF Inv
  <2> QED BY <2>4, <2>5
<1> QED BY <1>2, <1>3, <1>4, <1>5, <1>6

LEMMA OtherStoresSafe ==
  ASSUME Inv, TypeInv'
  PROVE  /\ \A t \in InHand \cap Tables, mt \in Tables \cup {Nil} : SetTableMetatable(t, mt) => Inv'
         /\ \A s \in Slots, th \in Threads, v \in Readable \cup {Nil} : Store(th, s, v) => Inv'
         /\ \A mt \in Tables \cup {Nil} : SetBaseMetatable(mt) => Inv'
         /\ \A th \in Threads : Resume(th) => Inv'
         /\ Yield => Inv'
<1>0. /\ InHand \subseteq Live /\ Readable \subseteq Live /\ Live \subseteq Obj /\ Live \subseteq Allocated
      /\ metatable \in [Tables \cup Userdata -> Tables \cup {Nil}]
      /\ running \in Live \cap Threads /\ MainThread \in Live \cap Threads
  BY ConstantsAssumption, HandsLive DEF Inv, TypeInv, TypeOK, Live, Allocated
<1>1. ASSUME NEW t \in InHand \cap Tables, NEW mt \in Tables \cup {Nil}, SetTableMetatable(t, mt)
      PROVE  Inv'
  <2>1. /\ MutatorRuns /\ mt \in Live \cup {Nil} /\ metatable' = [metatable EXCEPT ![t] = mt]
        /\ BackBarrier(t, {mt}) /\ t \in Live
        /\ UNCHANGED <<gray, unswept, lists, content, env, upvals, holds, openat,
                       closedval, stack, running, basemt>>
    BY <1>0, <1>1 DEF SetTableMetatable
  <2> DEFINE S == {mt} \ {Nil}
  <2>2. S \subseteq Live
    BY <2>1
  <2>3. Grows(t, S) /\ \A o \in Obj \ {t} : Grows(o, {})
    BY <1>0, <2>1 DEF Grows, EntryRef, HasValue, UpValue
  <2>4. Refs(t)' \cap White \subseteq Refs(t) \cup {mt}
    BY <2>3, GrowsRefs
  <2> HIDE DEF S
  <2>5. Bookkeeping' /\ NoDangling' /\ TriColor' /\ FreshFields' /\ BlackKeys'
    BY <2>1, <2>2, <2>3, <2>4, BackStore DEF Roots
  <2> QED BY <2>1, <2>5, KeepCells DEF Inv
<1>2. ASSUME NEW s \in Slots, NEW th \in Threads, NEW v \in Readable \cup {Nil}, Store(th, s, v)
      PROVE  Inv'
  <2>1. /\ MutatorRuns /\ th \in Threads \cap Allocated
        /\ stack' = [stack EXCEPT ![th][s] = v] /\ v \in Live \cup {Nil} /\ v \notin UpVals
        /\ UNCHANGED <<color, gray, grayagain, unswept, lists, content, metatable, env,
                 upvals, holds, openat, closedval, running, basemt>>
    <3>1. v \notin UpVals
      BY DisjointKinds DEF Readable, Obj
    <3> QED BY <1>0, <1>2, <3>1 DEF Store
  <2>2. /\ \A x \in Threads, r \in Slots : stack'[x][r] \in {stack[x][r], v}
        /\ \A w \in UpVals : UpValue(w)' \in {UpValue(w), v}
        /\ \A x \in Threads : color[x] \in {"black", "free"} =>
             \A r \in Slots : stack'[x][r] = stack[x][r]
        /\ \A w \in UpVals : color[w] \in {"black", "free"} => UpValue(w)' = UpValue(w)
        /\ CellValues'
    BY <2>1, StackStore
  <2> DEFINE S == {v} \ {Nil}
  <2>3. \A o \in Obj : /\ Grows(o, S)
                       /\ color[o] \in {"black", "free"} => Grows(o, {})
    BY <2>1, <2>2 DEF Grows, EntryRef, HasValue
  <2>4. S \subseteq Live /\ Roots' \subseteq Roots \cup S
    BY <2>1 DEF Roots
  <2> HIDE DEF S
  <2>5. Bookkeeping' /\ NoDangling' /\ TriColor' /\ FreshFields' /\ BlackKeys'
    BY <2>1, <2>3, <2>4, PlainStore
  <2> QED BY <2>2, <2>5 DEF Inv
\* The roots change.
<1>3. ASSUME MutatorRuns, NEW r \in Live \cup {Nil}, Roots' \subseteq Roots \cup ({r} \ {Nil}),
             UNCHANGED <<color, gray, grayagain, unswept, lists, content, metatable, env, upvals,
                         holds, openat, closedval, stack>>
      PROVE  Inv'
  <2>1. \A T : \A o \in Obj : Grows(o, T)
    BY <1>3 DEF Grows, EntryRef, HasValue, UpValue
  <2>2. {r} \ {Nil} \subseteq Live
    OBVIOUS
  <2>3. Bookkeeping' /\ NoDangling' /\ TriColor' /\ FreshFields' /\ BlackKeys'
    BY <1>3, <2>1, <2>2, PlainStore
  <2> QED BY <1>3, <2>3, KeepCells DEF Inv
<1>4. ASSUME NEW mt \in Tables \cup {Nil}, SetBaseMetatable(mt) PROVE Inv'
  <2>1. mt \in Live \cup {Nil} /\ Roots' \subseteq Roots \cup ({mt} \ {Nil})
    BY <1>0, <1>4, DisjointKinds DEF SetBaseMetatable, Roots
  <2> QED BY <1>3, <1>4, <2>1 DEF SetBaseMetatable
<1>5. ASSUME NEW th \in Threads, Resume(th) PROVE Inv'
  <2>1. th \in Live \cup {Nil} /\ Roots' \subseteq Roots \cup ({th} \ {Nil})
    BY <1>0, <1>5, DisjointKinds DEF Resume, Roots
  <2> QED BY <1>3, <1>5, <2>1 DEF Resume
<1>6. ASSUME Yield PROVE Inv'
  <2>1. Roots' \subseteq Roots \cup ({Nil} \ {Nil})
    BY <1>0, <1>6 DEF Yield, Roots
  <2> QED BY <1>3, <1>6, <2>1 DEF Yield
<1> QED BY <1>1, <1>2, <1>4, <1>5, <1>6

LEMMA MutatorSafe == Inv /\ TypeInv' /\ MutatorStep => Inv'
<1> SUFFICES ASSUME Inv, TypeInv', MutatorStep PROVE Inv'
  OBVIOUS
<1>1. InHand \cap Written \subseteq InHand \cap Tables
  BY ConstantsAssumption
<1>2. CASE \E s \in Slots :
       \/ \E t \in Tables : NewTable(t, s)
       \/ \E x \in Strings : NewString(x, s)
       \/ \E u \in Userdata : NewUserdata(u, s)
       \/ \E th \in Threads : NewThread(th, s)
       \/ \E c \in CClosures : PushCClosure(c, s)
       \/ \E p \in Protos : NewProto(p, s)
       \/ \E c \in LClosures, p \in Protos : ParserClosure(c, p, s)
       \/ \E c \in LClosures, cl \in InHand \cap LClosures, p \in Protos,
             l \in Slots \cup {Nil} : OpClosure(c, cl, p, l, s)
       \/ \E th \in Threads, v \in (Readable \cap Held) \cup {Nil} : Store(th, s, v)
  BY <1>2, NewObjectsSafe, NewStringSafe, OpClosureSafe, OtherStoresSafe
<1>3. CASE \/ \E p \in InHand \cap Protos, x \in Strings \cup Protos : AddConstant(p, x)
           \/ \E u \in InHand \cap Userdata, mt \in Tables \cup {Nil} : SetUdataMetatable(u, mt)
           \/ \E o \in InHand, e \in Tables : SetFenv(o, e)
           \/ \E c \in InHand \cap LClosures, u \in UpVals, v \in Values \cup {Nil} : OpSetUpval(c, u, v)
           \/ \E c \in InHand \cap CClosures, v \in Values : SetCUpvalue(c, v)
  BY <1>3, BarrierStoresSafe
<1>4. CASE \/ \E t \in InHand \cap Written, mt \in Tables \cup {Nil} : SetTableMetatable(t, mt)
           \/ \E mt \in Tables \cup {Nil} : SetBaseMetatable(mt)
           \/ \E th \in Threads : Resume(th)
           \/ Yield
  BY <1>1, <1>4, OtherStoresSafe
<1>5. CASE \E t \in InHand \cap Written, k \in Keys, v \in Values \cup {Nil} : TableSet(t, k, v)
  BY <1>1, <1>5, TableSetSafe
<1>6. CASE \E level \in Slots : CloseUpvals(level)
  BY <1>6, CloseUpvalsSafe
<1> QED BY <1>2, <1>3, <1>4, <1>5, <1>6 DEF MutatorStep

---------------------------------------------------------------------------
(* Steps of the mark phase *)

\* Outside mark and sweep everything allocated is white, but pending userdata.
LEMMA Whitened ==
  ASSUME Inv, gcstate \in {"pause", "finalize"}
  PROVE  /\ \A o \in Obj : color[o] \in {"free", "currentwhite"} \/ (o \in tmudata /\ color[o] = "black")
         /\ unswept = {} /\ atomic = 0 /\ tmudata \subseteq Userdata
         /\ Live = Allocated
<1>1. color \in [Obj -> Colors] /\ tmudata \subseteq Userdata /\ SweepBookkeeping /\ atomic = 0
  BY DEF Inv, TypeInv, TypeOK, Bookkeeping, AtomicStages
<1>2. unswept = {}
  BY <1>1 DEF SweepBookkeeping
<1>3. \A o \in Obj : color[o] \in {"free", "currentwhite"} \/ (o \in tmudata /\ color[o] = "black")
  BY <1>1, <1>2 DEF SweepBookkeeping, Allocated
<1>4. Live = Allocated
  BY <1>3 DEF Live, Allocated, IsDead
<1> QED BY <1>1, <1>2, <1>3, <1>4

LEMMA MarkRootsSafe ==
  ASSUME Inv, TypeInv', gcstate \in {"pause", "finalize"}, NEW mode, MarkRoots(mode),
         tmudata # {} => mode = "mark"
  PROVE  Inv'
<1> DEFINE roots == {MainThread, env[MainThread], Registry, basemt}
           R == Reached(roots)
<1>0. /\ color \in [Obj -> Colors] /\ TypeInv /\ CellValues /\ Grayable \subseteq Obj
      /\ Threads \subseteq Grayable /\ Tables \subseteq Grayable /\ Userdata \cap Grayable = {}
      /\ roots \cap UpVals = {} /\ MainThread \in Obj /\ Registry \in Obj
  BY ConstantsAssumption, DisjointKinds DEF Inv, TypeInv, TypeOK, Obj, Grayable, Closures
<1>1. /\ color' = Marked(roots) /\ gray' = MarkedGray(roots) /\ grayagain' = {} /\ weak' = {}
      /\ gcstate' = "propagate" /\ fullgc' = mode /\ UNCHANGED heap
      /\ UNCHANGED <<atomic, tmudata, finalized, sweepstrgc, unswept>>
  BY DEF MarkRoots
<1>2. /\ \A o \in Obj : color[o] \in {"free", "currentwhite"} \/ (o \in tmudata /\ color[o] = "black")
      /\ unswept = {} /\ atomic = 0 /\ tmudata \subseteq Userdata /\ Live = Allocated
  BY Whitened
<1> HIDE DEF roots
<1>3. /\ R \subseteq White /\ roots \cap White \subseteq R /\ R \cap UpVals = {}
      /\ \A o \in R : MarkColor(o) = "black" => Refs(o) \cap White \subseteq R
  BY <1>0, Reaching
<1>4. /\ \A o \in R : /\ o \in Obj /\ color'[o] = MarkColor(o) /\ color[o] \in Whites
                      /\ MarkColor(o) \in {"gray", "black"}
                      /\ MarkColor(o) = "black" <=> o \in Userdata
      /\ \A o \in Obj \ R : color'[o] = color[o]
      /\ gray' = {o \in Grayable : o \in R}
      /\ \A o \in Grayable : MarkColor(o) = "gray"
  BY <1>0, <1>1, <1>3, Marking
<1> HIDE DEF R
<1>5. White' = White \ R /\ Allocated' = Allocated /\ Live' = Allocated
  BY <1>2, <1>3, <1>4 DEF White, Allocated, Live, IsDead, Whites
<1>6. NoDangling'
  <2>1. Roots' = Roots /\ \A o : Refs(o)' = Refs(o)
    BY <1>1, HeapUnchanged DEF Roots, heap
  <2> QED BY <1>2, <1>5, <2>1 DEF Inv, NoDangling
<1>7. TriColor'
  <2>1. \A o : Refs(o)' = Refs(o)
    BY <1>1, HeapUnchanged
  <2> SUFFICES ASSUME NEW o \in Obj \ tmudata, color'[o] = "black" PROVE Refs(o) \cap White' = {}
    BY <1>1, <1>2, <2>1 DEF TriColor
  <2>2. o \in R
    BY <1>2, <1>4
  <2> QED BY <1>3, <1>4, <1>5, <2>2
<1>8. ListDiscipline'
  BY <1>0, <1>1, <1>2, <1>4 DEF ListDiscipline
<1>9. AtomicStages'
  <2>1. MainThread \in roots /\ Registry \in roots
    BY DEF roots
  <2> QED BY <1>0, <1>1, <1>2, <1>3, <1>5, <2>1 DEF AtomicStages
<1>10. SweepBookkeeping'
  BY <1>1, <1>2, <1>4 DEF SweepBookkeeping, IsDead
<1>11. OpenUpvalues'
  <2>1. \A u \in UpVals : color'[u] = color[u] /\ openat'[u] = openat[u]
    BY <1>1, <1>3, <1>4 DEF Obj, heap
  <2> QED BY <1>5, <2>1 DEF Inv, Bookkeeping, OpenUpvalues
<1>12. GrayKinds'
  <2>1. \A o \in Obj : o \in UpVals \cup Userdata \cup Grayable \cup Strings
    BY DEF Obj, Grayable
  <2>2. \A o \in Obj : color'[o] = "gray" => o \in R
    BY <1>2, <1>4
  <2>3. \A o \in Obj : color'[o] = "gray" => o \in Grayable \cup Strings
    BY <1>3, <1>4, <2>1, <2>2
  <2>4. \A th \in Threads : color'[th] # "black"
    BY <1>0, <1>2, <1>4 DEF Inv, Bookkeeping, GrayKinds
  <2> QED BY <2>3, <2>4 DEF GrayKinds
<1>13. Pending'
  BY <1>1, <1>5 DEF Inv, Bookkeeping, Pending
<1>14. FreshFields'
  <2>1. \A o \in Obj : color'[o] = "free" => color[o] = "free"
    BY <1>4
  <2> QED BY <1>1, <2>1, HeapUnchanged DEF Inv, FreshFields
<1>15. CellValues'
  BY <1>1, KeepCells DEF Inv, heap
<1>16. BlackKeys'
  <2>1. \A t \in Tables : color'[t] # "black"
    BY <1>0, <1>2, <1>4
  <2> QED BY <2>1 DEF BlackKeys
<1> QED BY <1>6, <1>7, <1>8, <1>9, <1>10, <1>11, <1>12, <1>13, <1>14, <1>15, <1>16
        DEF Inv, Bookkeeping

\* A step that marks the objects M and blackens the gray objects D, whose white
\* references are among those it marks.
LEMMA MarkStep ==
  ASSUME Inv, gcstate = "propagate", UNCHANGED <<gcstate, tmudata, unswept, openat>>,
         NEW M, NEW D \in SUBSET (Grayable \ Threads),
         \A o \in Obj : color'[o] = IF o \in D THEN "black" ELSE Marked(M)[o],
         \A o \in D : color[o] = "gray" /\ Refs(o) \cap White \subseteq Reached(M),
         Roots' = Roots, \A o : Refs(o)' = Refs(o), atomic' = 4 => atomic = 4
  PROVE  /\ NoDangling' /\ TriColor' /\ SweepBookkeeping' /\ OpenUpvalues' /\ GrayKinds'
         /\ Pending' /\ FreshFields'
         /\ White' = White \ Reached(M) /\ M \cap White' = {} /\ Seen \subseteq Seen'
         /\ Allocated' = Allocated
         /\ {o \in Grayable : color'[o] = "gray"} =
              ({o \in Grayable : color[o] = "gray"} \ D) \cup MarkedGray(M)
         /\ MarkedGray(M) \subseteq White
         /\ \A o \in Obj : color[o] = "black" => color'[o] = "black"
         /\ \A o \in Tables : color'[o] = "black" => color[o] = "black" \/ o \in D
         /\ \A u \in UpVals : color'[u] = "gray" => color[u] = "gray" \/ UpValue(u) \notin White'
<1> DEFINE R == Reached(M)
<1>0. /\ color \in [Obj -> Colors] /\ TypeInv /\ CellValues /\ Grayable \subseteq Obj
      /\ Threads \subseteq Grayable /\ Tables \subseteq Grayable /\ UpVals \subseteq Obj
      /\ UpVals \cap Grayable = {} /\ Userdata \cap Grayable = {} /\ Userdata \subseteq Obj
      /\ tmudata \subseteq Userdata
  BY DisjointKinds DEF Inv, TypeInv, TypeOK, Obj, Grayable, Closures
<1>1. /\ R \subseteq White /\ M \cap White \subseteq R
      /\ \A o \in R : MarkColor(o) = "black" => Refs(o) \cap White \subseteq R
      /\ \A u \in R \cap UpVals : UpValue(u) \in White => UpValue(u) \in R
  BY <1>0, Reaching
<1>2. /\ \A o \in D : o \in Obj /\ o \notin R /\ color'[o] = "black" /\ color[o] = "gray"
      /\ \A o \in R : /\ o \in Obj /\ color'[o] = MarkColor(o) /\ color[o] \in Whites
                      /\ MarkColor(o) \in {"gray", "black"}
                      /\ MarkColor(o) = "black" <=>
                           o \in Userdata \/ (o \in UpVals /\ openat[o] = Nil)
      /\ \A o \in Obj \ (R \cup D) : color'[o] = color[o]
      /\ MarkedGray(M) = {o \in Grayable : o \in R}
      /\ \A o \in Grayable \cup Strings : MarkColor(o) = "gray"
  BY <1>0, <1>1, Marking DEF White, Whites
<1> HIDE DEF R
<1>3. /\ \A o \in Obj : color[o] # "otherwhite" /\ color'[o] # "otherwhite"
      /\ unswept = {}
  BY <1>2 DEF Inv, Bookkeeping, SweepBookkeeping, IsDead
<1>4. White' = White \ R /\ Allocated' = Allocated /\ Live = Allocated /\ Live' = Allocated
      /\ Seen \subseteq Seen'
  BY <1>1, <1>2, <1>3 DEF White, Allocated, Live, IsDead, Whites, Seen
<1>5. NoDangling'
  BY <1>4 DEF Inv, NoDangling
<1>6. TriColor'
  <2> SUFFICES ASSUME NEW o \in Obj \ (IF atomic' = 4 THEN {} ELSE tmudata), color'[o] = "black"
               PROVE  Refs(o) \cap White' = {}
    BY DEF TriColor
  <2>1. CASE o \in D
    BY <1>4, <2>1 DEF R
  <2>2. CASE o \in R
    BY <1>1, <1>2, <1>4, <2>2
  <2>3. CASE o \notin R \cup D
    <3>1. color[o] = "black" /\ o \in Obj \ (IF atomic = 4 THEN {} ELSE tmudata)
      BY <1>2, <2>3
    <3> QED BY <1>4, <3>1 DEF Inv, TriColor
  <2> QED BY <2>1, <2>2, <2>3
<1>7. SweepBookkeeping'
  BY <1>3 DEF Inv, Bookkeeping, SweepBookkeeping, IsDead
<1>8. OpenUpvalues'
  <2>1. \A u \in UpVals : openat[u] # Nil => color'[u] \notin {"black", "free"}
    BY <1>0, <1>2, DisjointKinds DEF Inv, Bookkeeping, OpenUpvalues
  <2> QED BY <1>4, <2>1 DEF Inv, Bookkeeping, OpenUpvalues
<1>9. GrayKinds'
  <2>1. \A o \in Obj : o \in UpVals \cup Userdata \cup Grayable \cup Strings
    BY DEF Obj, Grayable
  <2>2. ASSUME NEW o \in Obj, color'[o] = "gray"
        PROVE  o \in Grayable \cup Strings \/ (o \in UpVals /\ openat[o] # Nil)
    BY <1>2, <2>1, <2>2 DEF Inv, Bookkeeping, GrayKinds
  <2>3. \A th \in Threads : color'[th] # "black"
    BY <1>0, <1>2 DEF Inv, Bookkeeping, GrayKinds
  <2> QED BY <2>2, <2>3 DEF GrayKinds
<1>10. Pending'
  BY <1>4 DEF Inv, Bookkeeping, Pending
<1>11. FreshFields'
  BY <1>2 DEF Inv, FreshFields
<1>12. {o \in Grayable : color'[o] = "gray"} =
         ({o \in Grayable : color[o] = "gray"} \ D) \cup MarkedGray(M)
  BY <1>0, <1>2
<1>13. \A o \in Obj : color[o] = "black" => color'[o] = "black"
  BY <1>2 DEF Whites
<1>14. \A o \in Tables : color'[o] = "black" => color[o] = "black" \/ o \in D
  BY <1>0, <1>2
<1>15. \A u \in UpVals : color'[u] = "gray" => color[u] = "gray" \/ UpValue(u) \notin White'
  BY <1>0, <1>1, <1>2, <1>4
<1>16. M \cap White' = {} /\ MarkedGray(M) \subseteq White
  BY <1>1, <1>2, <1>4
<1> QED BY <1>4, <1>5, <1>6, <1>7, <1>8, <1>9, <1>10, <1>11, <1>12, <1>13, <1>14, <1>15, <1>16 DEF R

LEMMA PropagateMarkSafe ==
  ASSUME Inv, TypeInv', NEW o \in Grayable, PropagateMark(o)
  PROVE  Inv'
<1> DEFINE more == StrongRefs(o)
           D == IF IsWeak(o) \/ o \in Threads THEN {} ELSE {o}
           R == Reached(more)
<1>0. /\ color \in [Obj -> Colors] /\ TypeInv /\ CellValues /\ o \in Obj /\ Keys \subseteq Obj \cup Indices
      /\ content \in [Tables -> [Keys -> Val \cup {Nil, Absent}]] /\ Tables \cap Threads = {}
      /\ Tables \subseteq Obj /\ UpVals \subseteq Obj /\ Grayable \subseteq Obj
      /\ Tables \cap UpVals = {} /\ Nil # Absent /\ Nil \notin Obj
  BY ConstantsAssumption, DisjointKinds DEF Inv, TypeInv, TypeOK, Obj, Val, Grayable, Closures
<1>1. /\ gcstate = "propagate" /\ o \in gray
      /\ color' = [Marked(more) EXCEPT ![o] = IF IsWeak(o) \/ o \in Threads THEN "gray" ELSE "black"]
      /\ gray' = (gray \ {o}) \cup MarkedGray(more)
      /\ grayagain' = grayagain \cup ({o} \cap Threads)
      /\ weak' = IF IsWeak(o) THEN weak \cup {o} ELSE weak
      /\ content' =
           IF o \in Tables /\ ~(WeakKeys(o) /\ WeakValues(o))
           THEN [content EXCEPT ![o] = [k \in Keys |->
                   IF k \in Obj /\ @[k] = Nil THEN Absent ELSE @[k]]]
           ELSE content
      /\ UNCHANGED <<gcstate, atomic, fullgc, tmudata, finalized, sweepstrgc, unswept,
                     metatable, env, upvals, holds, openat, closedval, stack, running, basemt>>
  BY DEF PropagateMark, IsNext
<1>2. color[o] = "gray"
  BY <1>1 DEF Inv, Bookkeeping, ListDiscipline
\* removeentry drops no reference.
<1>3. \A t \in Tables, k \in Keys : /\ HasValue(t, k)' <=> HasValue(t, k)
                                    /\ HasValue(t, k) => content'[t][k] = content[t][k]
  BY <1>0, <1>1 DEF HasValue
<1>4. /\ \A x : Refs(x)' = Refs(x)
      /\ \A t : StrongRefs(t)' = StrongRefs(t) /\ (t \in Tables => IsWeak(t)' = IsWeak(t))
      /\ \A u \in UpVals : UpValue(u)' = UpValue(u)
  <2>1. \A t \in Tables : Entries(t)' = Entries(t)
    BY <1>3 DEF Entries
  <2>2. \A t \in Tables : {content'[t][k] : k \in Entries(t)} = {content[t][k] : k \in Entries(t)}
    BY <1>3 DEF Entries
  <2>3. \A u : UpValue(u)' = UpValue(u)
    BY <1>1 DEF UpValue
  <2>4. \A x : Refs(x)' = Refs(x)
    <3>1. \A x, y : RefTo(x, y)' <=> RefTo(x, y)
      BY <1>1, <1>3, <2>3 DEF RefTo, EntryRef
    <3> QED BY <3>1, RefsMeaning, RefsMeaningNext
  <2>5. \A t : /\ WeakKeys(t)' = WeakKeys(t) /\ WeakValues(t)' = WeakValues(t)
               /\ IsWeak(t)' = IsWeak(t)
    BY <1>1 DEF WeakKeys, WeakValues, IsWeak
  <2>6. \A t : StrongRefs(t)' = StrongRefs(t)
    BY <1>1, <2>1, <2>2, <2>4, <2>5 DEF StrongRefs, When
  <2> QED BY <2>3, <2>4, <2>5, <2>6
<1>5. /\ D \in SUBSET (Grayable \ Threads) /\ (IsWeak(o) => o \in Tables)
      /\ Refs(o) \cap White \subseteq R \/ o \notin D
  <2>1. IsWeak(o) => o \in Tables
    BY DEF IsWeak
  <2>2. ~IsWeak(o) => StrongRefs(o) = Refs(o)
    <3>1. o \in Tables /\ ~IsWeak(o) => StrongRefs(o) = Refs(o)
      BY DisjointKinds DEF StrongRefs, Refs, When, IsWeak, Closures
    <3> QED BY <3>1 DEF StrongRefs
  <2>3. more \cap White \subseteq R
    BY <1>0, Reaching
  <2> QED BY <2>1, <2>2, <2>3
<1>6. \A x \in Obj : color'[x] = IF x \in D THEN "black" ELSE Marked(more)[x]
  <2>1. o \notin Reached(more)
    BY <1>2 DEF Reached, White, Whites
  <2>2. Marked(more)[o] = "gray"
    BY <1>0, <1>2, <2>1 DEF Marked
  <2> QED BY <1>0, <1>1, <2>2 DEF Marked
<1>7. /\ Roots' = Roots /\ (atomic' = 4 => atomic = 4) /\ gcstate = "propagate"
      /\ UNCHANGED <<gcstate, tmudata, unswept, openat>>
  BY <1>1 DEF Roots
<1>8. \A x \in D : color[x] = "gray" /\ Refs(x) \cap White \subseteq R
  BY <1>2, <1>5
<1> HIDE DEF more, D
<1>9. /\ NoDangling' /\ TriColor' /\ SweepBookkeeping' /\ OpenUpvalues' /\ GrayKinds'
      /\ Pending' /\ FreshFields'
      /\ White' = White \ R /\ more \cap White' = {} /\ Seen \subseteq Seen'
      /\ Allocated' = Allocated
      /\ {x \in Grayable : color'[x] = "gray"} =
              ({x \in Grayable : color[x] = "gray"} \ D) \cup MarkedGray(more)
      /\ MarkedGray(more) \subseteq White
      /\ \A x \in Obj : color[x] = "black" => color'[x] = "black"
      /\ \A x \in Tables : color'[x] = "black" => color[x] = "black" \/ x \in D
      /\ \A u \in UpVals : color'[u] = "gray" => color[u] = "gray" \/ UpValue(u) \notin White'
  BY <1>4, <1>5, <1>6, <1>7, <1>8, MarkStep DEF R
<1>10. D = IF IsWeak(o) \/ o \in Threads THEN {} ELSE {o}
  BY DEF D
<1>11. ListDiscipline'
  <2>1. \A x \in gray \cup grayagain \cup weak : x \notin White
    BY <1>1 DEF Inv, Bookkeeping, ListDiscipline, White, Whites
  <2>2. gray' \cap grayagain' = {} /\ gray' \cap weak' = {} /\ grayagain' \cap weak' = {}
    BY <1>0, <1>1, <1>5, <1>9, <2>1 DEF Inv, Bookkeeping, ListDiscipline
  <2>3. gray \cup grayagain \cup weak = {x \in Grayable : color[x] = "gray"}
    BY <1>1 DEF Inv, Bookkeeping, ListDiscipline
  <2>4. gray' \cup grayagain' \cup weak' = {x \in Grayable : color'[x] = "gray"}
    <3>1. o \notin grayagain /\ o \notin weak
      BY <1>1 DEF Inv, Bookkeeping, ListDiscipline
    <3>2. gray' \cup grayagain' \cup weak' = ((gray \cup grayagain \cup weak) \ D) \cup MarkedGray(more)
      BY <1>1, <1>5, <1>10, <3>1
    <3> QED BY <1>9, <2>3, <3>2
  <2> QED BY <2>2, <2>4 DEF ListDiscipline
<1>12. AtomicStages'
  <2>1. atomic >= 1 => \A u \in UpVals : openat[u] # Nil /\ color'[u] = "gray" => UpValue(u) \notin White'
    BY <1>9 DEF Inv, Bookkeeping, AtomicStages
  <2>2. atomic >= 2 => \A t \in weak' : IsWeak(t) /\ StrongRefs(t) \cap White' = {}
    <3>1. atomic >= 2 => \A t \in weak : IsWeak(t) /\ StrongRefs(t) \cap White' = {}
      BY <1>9 DEF Inv, Bookkeeping, AtomicStages
    <3>2. StrongRefs(o) \cap White' = {}
      BY <1>9 DEF more
    <3> QED BY <1>1, <3>1, <3>2
  <2>3. atomic >= 3 => \A x \in grayagain' : x \in Threads /\ Refs(x) \cap White' = {}
    <3>1. o \in Threads => Refs(o) \cap White' = {}
      BY <1>0, <1>9 DEF more, StrongRefs
    <3> QED BY <1>1, <1>9, <3>1 DEF Inv, Bookkeeping, AtomicStages
  <2>4. atomic = 4 => \A u \in tmudata : color'[u] = "black"
    BY <1>9 DEF Inv, TypeInv, TypeOK, Obj, Bookkeeping, AtomicStages
  <2>5. \A t \in weak' : t \in Tables
    BY <1>1, <1>5 DEF Inv, TypeInv, TypeOK
  <2>6. {MainThread, Registry} \cap White' = {}
    BY <1>1, <1>9 DEF Inv, Bookkeeping, AtomicStages
  <2>7. atomic >= 2 => {running, basemt} \cap White' = {}
    BY <1>9 DEF Inv, Bookkeeping, AtomicStages
  <2>8. tmudata # {} => fullgc = "mark" \/ atomic = 4
    BY <1>1 DEF Inv, Bookkeeping, AtomicStages
  <2> QED BY <1>1, <1>4, <2>1, <2>2, <2>3, <2>4, <2>5, <2>6, <2>7, <2>8 DEF AtomicStages
<1>13. BlackKeys'
  <2> SUFFICES ASSUME NEW t \in Tables, NEW k \in Keys \cap Obj, color'[t] = "black",
                      content'[t][k] # Absent
               PROVE  k \in Seen'
    BY DEF BlackKeys
  <2>1. CASE t \in D
    <3>1. t = o /\ ~IsWeak(o) /\ o \in Tables
      BY <1>10, <2>1
    <3>2. content[o][k] \notin {Nil, Absent}
      BY <1>0, <1>1, <3>1 DEF IsWeak
    <3>3. k \in Entries(o) /\ k \in more
      BY <3>1, <3>2 DEF Entries, HasValue, more, StrongRefs, When, IsWeak
    <3>4. k \in Refs(o) /\ o \in Live
      BY <1>0, <1>2, <3>1, <3>3 DEF Refs, When, Live, Allocated, IsDead
    <3>5. k \in Live
      BY <3>4 DEF Inv, NoDangling
    <3>6. k \in White \/ k \in Seen
      BY <1>0, <3>5 DEF Live, Allocated, White, Seen, Whites, Colors
    <3>7. k \notin White'
      BY <1>9, <3>3
    <3>8. k \in Allocated' /\ color'[k] \in Colors
      BY <1>9, <3>5 DEF TypeInv, TypeOK, Live
    <3> QED BY <3>7, <3>8 DEF Seen, White, Allocated, Whites, Colors
  <2>2. CASE t \notin D
    <3>1. color[t] = "black"
      BY <1>9, <2>2
    <3>2. content'[t][k] = content[t][k]
      BY <1>0, <1>1, <1>2, <3>1
    <3> QED BY <1>1, <1>9, <3>1, <3>2 DEF Inv, BlackKeys
  <2> QED BY <2>1, <2>2
<1>14. CellValues'
  BY <1>1, KeepCells DEF Inv
<1> QED BY <1>9, <1>11, <1>12, <1>13, <1>14 DEF Inv, Bookkeeping

---------------------------------------------------------------------------
(* The stages of atomic() *)

LEMMA RemarkUpvalsSafe == Inv /\ TypeInv' /\ RemarkUpvals => Inv'
<1> SUFFICES ASSUME Inv, TypeInv', RemarkUpvals PROVE Inv'
  OBVIOUS
<1>1. /\ gcstate = "propagate" /\ atomic = 0 /\ atomic' = 1 /\ gray = {}
      /\ color' = Marked(OpenValues) /\ gray' = gray \cup MarkedGray(OpenValues)
      /\ UNCHANGED <<gcstate, fullgc, grayagain, weak, tmudata, finalized, sweepstrgc, unswept>>
      /\ UNCHANGED heap /\ UNCHANGED openat
  BY DEF RemarkUpvals, AtomicStage, Mark, heap
<1>2. /\ \A o : Refs(o)' = Refs(o) /\ \A u : UpValue(u)' = UpValue(u)
      /\ Roots' = Roots
  BY <1>1, HeapUnchanged DEF Roots, heap
<1> DEFINE D == {}
<1>3. /\ \A o \in Obj : color'[o] = IF o \in D THEN "black" ELSE Marked(OpenValues)[o]
      /\ \A o \in D : color[o] = "gray" /\ Refs(o) \cap White \subseteq Reached(OpenValues)
      /\ D \in SUBSET (Grayable \ Threads)
  BY <1>1
<1>4. /\ D = {} /\ (atomic' = 4 => atomic = 4) /\ gcstate = "propagate"
      /\ UNCHANGED <<gcstate, tmudata, unswept, openat>>
  BY <1>1
<1> HIDE DEF D
<1>5. /\ NoDangling' /\ TriColor' /\ SweepBookkeeping' /\ OpenUpvalues' /\ GrayKinds'
      /\ Pending' /\ FreshFields'
      /\ White' = White \ Reached(OpenValues) /\ OpenValues \cap White' = {} /\ Seen \subseteq Seen'
      /\ {x \in Grayable : color'[x] = "gray"} =
              ({x \in Grayable : color[x] = "gray"} \ D) \cup MarkedGray(OpenValues)
      /\ MarkedGray(OpenValues) \subseteq White
      /\ \A x \in Tables : color'[x] = "black" => color[x] = "black" \/ x \in D
      /\ \A u \in UpVals : color'[u] = "gray" => color[u] = "gray" \/ UpValue(u) \notin White'
  BY <1>1, <1>2, <1>3, <1>4, MarkStep
<1>6. ListDiscipline'
  <2>1. \A x \in grayagain \cup weak : x \notin White
    BY <1>1 DEF Inv, Bookkeeping, ListDiscipline, White, Whites
  <2> QED BY <1>1, <1>4, <1>5, <2>1 DEF Inv, Bookkeeping, ListDiscipline
<1>7. AtomicStages'
  <2>1. \A u \in UpVals : openat[u] # Nil /\ color'[u] = "gray" => UpValue(u) \notin White'
    BY <1>5 DEF OpenValues
  <2> QED BY <1>1, <1>2, <1>5, <2>1 DEF Inv, Bookkeeping, AtomicStages
<1>8. BlackKeys' /\ CellValues'
  <2>1. UNCHANGED <<content, stack, closedval, openat, holds>>
    BY <1>1 DEF heap
  <2> QED BY <1>1, <1>4, <1>5, <2>1, KeepKeys, KeepCells DEF Inv
<1> QED BY <1>5, <1>6, <1>7, <1>8 DEF Inv, Bookkeeping

LEMMA RemarkWeakSafe == Inv /\ TypeInv' /\ RemarkWeak => Inv'
<1> SUFFICES ASSUME Inv, TypeInv', RemarkWeak PROVE Inv'
  OBVIOUS
<1> DEFINE M == {running, basemt}
<1>1. /\ gcstate = "propagate" /\ atomic = 1 /\ atomic' = 2 /\ gray = {}
      /\ color' = Marked(M) /\ gray' = weak \cup MarkedGray(M) /\ weak' = {}
      /\ UNCHANGED <<gcstate, fullgc, grayagain, tmudata, finalized, sweepstrgc, unswept>>
      /\ UNCHANGED heap /\ UNCHANGED openat
  BY DEF RemarkWeak, AtomicStage, heap
<1>2. /\ \A o : Refs(o)' = Refs(o) /\ \A u : UpValue(u)' = UpValue(u)
      /\ Roots' = Roots /\ running' = running /\ basemt' = basemt
  BY <1>1, HeapUnchanged DEF Roots, heap
<1> HIDE DEF M
<1> DEFINE D == {}
<1>3. /\ \A o \in Obj : color'[o] = IF o \in D THEN "black" ELSE Marked(M)[o]
      /\ \A o \in D : color[o] = "gray" /\ Refs(o) \cap White \subseteq Reached(M)
      /\ D \in SUBSET (Grayable \ Threads)
  BY <1>1
<1>4. /\ D = {} /\ (atomic' = 4 => atomic = 4) /\ gcstate = "propagate"
      /\ UNCHANGED <<gcstate, tmudata, unswept, openat>>
  BY <1>1
<1> HIDE DEF D
<1>5. /\ NoDangling' /\ TriColor' /\ SweepBookkeeping' /\ OpenUpvalues' /\ GrayKinds'
      /\ Pending' /\ FreshFields'
      /\ White' = White \ Reached(M) /\ M \cap White' = {} /\ Seen \subseteq Seen'
      /\ {x \in Grayable : color'[x] = "gray"} =
              ({x \in Grayable : color[x] = "gray"} \ D) \cup MarkedGray(M)
      /\ MarkedGray(M) \subseteq White
      /\ \A x \in Tables : color'[x] = "black" => color[x] = "black" \/ x \in D
      /\ \A u \in UpVals : color'[u] = "gray" => color[u] = "gray" \/ UpValue(u) \notin White'
  BY <1>1, <1>2, <1>3, <1>4, MarkStep
<1>6. ListDiscipline'
  <2>1. \A x \in grayagain \cup weak : x \notin White
    BY <1>1 DEF Inv, Bookkeeping, ListDiscipline, White, Whites
  <2> QED BY <1>1, <1>4, <1>5, <2>1 DEF Inv, Bookkeeping, ListDiscipline
<1>7. AtomicStages'
  <2>1. White' \subseteq White /\ {running, basemt} \cap White' = {}
    BY <1>5 DEF M
  <2>2. \A u \in UpVals : openat[u] # Nil /\ color'[u] = "gray" => UpValue(u) \notin White'
    BY <1>1, <1>5 DEF Inv, Bookkeeping, AtomicStages
  <2>3. {MainThread, Registry} \cap White' = {}
    BY <1>1, <2>1 DEF Inv, Bookkeeping, AtomicStages
  <2>4. tmudata # {} => fullgc = "mark"
    BY <1>1 DEF Inv, Bookkeeping, AtomicStages
  <2> QED BY <1>1, <1>2, <2>1, <2>2, <2>3, <2>4 DEF AtomicStages
<1>8. BlackKeys' /\ CellValues'
  <2>1. UNCHANGED <<content, stack, closedval, openat, holds>>
    BY <1>1 DEF heap
  <2> QED BY <1>1, <1>4, <1>5, <2>1, KeepKeys, KeepCells DEF Inv
<1> QED BY <1>5, <1>6, <1>7, <1>8 DEF Inv, Bookkeeping

LEMMA RemarkGrayAgainSafe == Inv /\ TypeInv' /\ RemarkGrayAgain => Inv'
<1> SUFFICES ASSUME Inv, TypeInv', RemarkGrayAgain PROVE Inv'
  OBVIOUS
<1>1. /\ gcstate = "propagate" /\ atomic = 2 /\ atomic' = 3 /\ gray = {}
      /\ gray' = grayagain /\ grayagain' = {}
      /\ UNCHANGED <<color, gcstate, fullgc, weak, tmudata, finalized, sweepstrgc, unswept>>
      /\ UNCHANGED heap /\ UNCHANGED <<openat, content, running, basemt, stack, closedval, holds>>
  BY DEF RemarkGrayAgain, AtomicStage, heap
<1>2. /\ \A o : Refs(o)' = Refs(o) /\ StrongRefs(o)' = StrongRefs(o) /\ IsWeak(o)' = IsWeak(o)
      /\ \A u : UpValue(u)' = UpValue(u)
      /\ Roots' = Roots
  BY <1>1, HeapUnchanged DEF Roots, heap
<1>3. White' = White /\ Allocated' = Allocated /\ Live' = Live /\ Seen' = Seen
  BY <1>1 DEF White, Allocated, Live, IsDead, Seen
<1>4. NoDangling' /\ TriColor' /\ FreshFields'
  BY <1>1, <1>2, <1>3 DEF Inv, NoDangling, TriColor, FreshFields
<1>5. ListDiscipline' /\ SweepBookkeeping' /\ OpenUpvalues' /\ GrayKinds' /\ Pending'
  BY <1>1, <1>3 DEF Inv, Bookkeeping, ListDiscipline, SweepBookkeeping, OpenUpvalues, GrayKinds,
    Pending, IsDead
<1>6. AtomicStages'
  BY <1>1, <1>2, <1>3 DEF Inv, Bookkeeping, AtomicStages
<1> QED BY <1>1, <1>3, <1>4, <1>5, <1>6, KeepKeys, KeepCells DEF Inv, Bookkeeping

LEMMA SeparateUdataSafe == Inv /\ TypeInv' /\ SeparateUdata => Inv'
<1> SUFFICES ASSUME Inv, TypeInv', SeparateUdata PROVE Inv'
  OBVIOUS
<1> DEFINE tmu  == tmudata \cup {u \in DeadUdata : metatable[u] \in FinalizerMt}
           more == (TmuRefs(tmu) \cap White) \ tmu
<1>0. /\ color \in [Obj -> Colors] /\ Tables \subseteq Grayable /\ Tables \subseteq Obj
      /\ Userdata \cap Tables = {} /\ tmu \subseteq Userdata /\ Userdata \subseteq Obj
      /\ more \subseteq Tables /\ Threads \cap Userdata = {} /\ Threads \cap Tables = {}
      /\ UpVals \cap Userdata = {} /\ UpVals \cap Tables = {} /\ Grayable \subseteq Obj
      /\ Grayable \cap Userdata = {} /\ Threads \subseteq Obj /\ UpVals \subseteq Obj
  <2>1. tmu \subseteq Userdata
    BY DEF Inv, TypeInv, TypeOK, DeadUdata
  <2>2. more \subseteq Tables
    BY <2>1, DisjointKinds DEF Inv, TypeInv, TypeOK, TmuRefs
  <2> HIDE DEF tmu, more
  <2> QED BY <2>1, <2>2, DisjointKinds DEF Inv, TypeInv, TypeOK, Obj, Grayable, Closures
<1>1. /\ gcstate = "propagate" /\ atomic = 3 /\ atomic' = 4 /\ gray = {} /\ gray' = more
      /\ tmudata' = tmu
      /\ color' = [o \in Obj |-> IF o \in tmu THEN "black"
                                 ELSE IF o \in more THEN "gray" ELSE color[o]]
      /\ UNCHANGED <<gcstate, fullgc, grayagain, weak, sweepstrgc, unswept>>
      /\ UNCHANGED heap /\ UNCHANGED <<openat, content, running, basemt, stack, closedval, holds>>
  BY DEF SeparateUdata, AtomicStage, heap
<1>2. /\ \A o : Refs(o)' = Refs(o) /\ StrongRefs(o)' = StrongRefs(o) /\ IsWeak(o)' = IsWeak(o)
      /\ \A u : UpValue(u)' = UpValue(u)
      /\ Roots' = Roots
  BY <1>1, HeapUnchanged DEF Roots, heap
<1>3. \A u \in tmu : Refs(u) \cap White \subseteq more /\ color[u] # "free"
  <2>1. \A u \in tmu : color[u] # "free"
    BY DEF Inv, Bookkeeping, Pending, Allocated, DeadUdata, White, Whites
  <2>2. ASSUME NEW u \in tmu, NEW x \in Refs(u) \cap White PROVE x \in more
    <3>1. x \in Obj /\ (x = metatable[u] \/ x = env[u])
      BY <1>0, RefsMeaning, DisjointKinds DEF RefTo, Closures
    <3>2. x \in Tables
      BY <1>0, <3>1, DisjointKinds DEF Inv, TypeInv, TypeOK
    <3>3. x \notin tmu
      BY <1>0, <3>2
    <3>4. x \in TmuRefs(tmu)
      BY <3>1 DEF TmuRefs
    <3> QED BY <3>3, <3>4
  <2> QED BY <2>1, <2>2
<1>4. more \subseteq White /\ more \cap tmu = {}
  OBVIOUS
<1>5. tmudata \subseteq tmu
  OBVIOUS
<1> HIDE DEF tmu, more
<1>6. \A o \in Obj : color[o] # "otherwhite" /\ color'[o] # "otherwhite"
  BY <1>1 DEF Inv, Bookkeeping, SweepBookkeeping, IsDead
<1>7. /\ White' = White \ (more \cup tmu) /\ Allocated' = Allocated /\ Live = Allocated
      /\ Live' = Allocated /\ Seen \subseteq Seen'
  BY <1>1, <1>3, <1>4, <1>6 DEF White, Allocated, Live, IsDead, Whites, Seen
<1>8. NoDangling'
  BY <1>2, <1>7 DEF Inv, NoDangling
<1>9. TriColor'
  <2> SUFFICES ASSUME NEW o \in Obj, color'[o] = "black" PROVE Refs(o) \cap White' = {}
    BY <1>2 DEF TriColor
  <2>1. CASE o \in tmu
    BY <1>3, <1>7, <2>1
  <2>2. CASE o \notin tmu
    <3>1. color[o] = "black" /\ o \in Obj \ (IF atomic = 4 THEN {} ELSE tmudata)
      BY <1>1, <1>5, <2>2
    <3> QED BY <1>1, <1>7, <3>1 DEF Inv, TriColor
  <2> QED BY <2>1, <2>2
<1>10. FreshFields'
  <2>1. \A o \in Obj : color'[o] = "free" => color[o] = "free"
    BY <1>1
  <2> QED BY <1>2, <2>1 DEF Inv, FreshFields
<1>11. ListDiscipline'
  <2>1. \A x \in grayagain \cup weak : x \notin White
    BY <1>1 DEF Inv, Bookkeeping, ListDiscipline, White, Whites
  <2>2. {o \in Grayable : color'[o] = "gray"} = {o \in Grayable : color[o] = "gray"} \cup more
    BY <1>0, <1>1
  <2> QED BY <1>1, <1>4, <2>1, <2>2 DEF Inv, Bookkeeping, ListDiscipline
<1>12. AtomicStages'
  <2>1. \A u \in UpVals : color'[u] = color[u]
    BY <1>0, <1>1
  <2>2. \A u \in tmu : color'[u] = "black"
    BY <1>0, <1>1
  <2> QED BY <1>1, <1>2, <1>7, <2>1, <2>2 DEF Inv, Bookkeeping, AtomicStages
<1>13. SweepBookkeeping'
  <2>1. unswept = {}
    BY <1>1 DEF Inv, Bookkeeping, SweepBookkeeping
  <2> QED BY <1>1, <1>6, <2>1 DEF SweepBookkeeping, IsDead
<1>14. OpenUpvalues'
  <2>1. \A u \in UpVals : color'[u] = color[u] /\ openat'[u] = openat[u]
    BY <1>0, <1>1
  <2> QED BY <1>7, <2>1 DEF Inv, Bookkeeping, OpenUpvalues
<1>15. GrayKinds'
  <2>1. \A th \in Threads : color'[th] = color[th]
    BY <1>0, <1>1
  <2>2. \A o \in Obj : color'[o] = "gray" => color[o] = "gray" \/ o \in Grayable
    BY <1>0, <1>1
  <2> QED BY <1>1, <2>1, <2>2 DEF Inv, Bookkeeping, GrayKinds
<1>16. Pending'
  BY <1>0, <1>1, <1>3, <1>7 DEF Pending, Allocated
<1>17. BlackKeys' /\ CellValues'
  <2>1. \A t \in Tables : color'[t] = "black" => color[t] = "black"
    BY <1>0, <1>1
  <2> QED BY <1>1, <1>7, <2>1, KeepKeys, KeepCells DEF Inv
<1> QED BY <1>8, <1>9, <1>10, <1>11, <1>12, <1>13, <1>14, <1>15, <1>16, <1>17 DEF Inv, Bookkeeping

\* The flip: what is marked, with the fixed strings and those that cleartable
\* marks, refers to nothing else.
LEMMA ClearAndFlipSafe == Inv /\ TypeInv' /\ ClearAndFlip => Inv'
<1> SUFFICES ASSUME Inv, TypeInv', ClearAndFlip PROVE Inv'
  OBVIOUS
<1>0. /\ color \in [Obj -> Colors] /\ Strings \subseteq Obj /\ Keys \subseteq Obj \cup Indices
      /\ Tables \subseteq Grayable /\ Tables \subseteq Obj /\ Grayable \subseteq Obj
      /\ Strings \cap Grayable = {} /\ tmudata \subseteq Userdata /\ Userdata \cap Strings = {}
      /\ Threads \subseteq Obj /\ UpVals \subseteq Obj /\ UpVals \cap Strings = {}
      /\ Threads \subseteq Grayable /\ UpVals \cap Threads = {} /\ Threads \cap Userdata = {}
      /\ MainThread \in Threads /\ Registry \in Tables /\ running \in Threads
      /\ basemt \in Tables \cup {Nil} /\ Fixed \subseteq Strings /\ Nil \notin Obj /\ Absent \notin Obj
      /\ Obj \cap Indices = {} /\ weak \subseteq Tables /\ UpVals \cap Grayable = {}
  BY ConstantsAssumption, DisjointKinds DEF Inv, TypeInv, TypeOK, Obj, Grayable, Val, Closures
<1>1. /\ gcstate = "propagate" /\ atomic = 4 /\ atomic' = 0 /\ gray = {} /\ gray' = gray
      /\ content' = [t \in Tables |->
           IF t \in weak
           THEN [k \in Keys |-> IF ClearedEntry(t, k) THEN EmptyTable[k] ELSE content[t][k]]
           ELSE content[t]]
      /\ color' = [o \in Obj |->
           IF o \in MarkedByClear \cap White THEN "gray" ELSE Flipped(color[o])]
      /\ grayagain' = {} /\ weak' = {}
      /\ gcstate' = "sweepstring" /\ sweepstrgc' = 0 /\ unswept' = RootObjects
      /\ UNCHANGED <<fullgc, tmudata, finalized, metatable, env, upvals, holds, openat,
                     closedval, stack, running, basemt>>
  BY DEF ClearAndFlip, AtomicStage
<1>2. \A o \in Obj : color[o] # "otherwhite"
  BY <1>1 DEF Inv, Bookkeeping, SweepBookkeeping, IsDead
<1>3. MarkedByClear \subseteq Strings
  BY DEF MarkedByClear
<1>4. /\ \A o \in Obj : \/ color[o] = "free" /\ color'[o] = "free"
                        \/ o \in Seen /\ color'[o] = color[o]
                        \/ o \in White /\ o \in MarkedByClear /\ color'[o] = "gray"
                        \/ o \in White /\ o \notin MarkedByClear /\ color'[o] = "otherwhite"
      /\ \A o \in Obj \ Strings : color'[o] # "gray" \/ color[o] = "gray"
  BY <1>0, <1>1, <1>2, <1>3 DEF Flipped, Seen, White, Whites, Colors
<1>5. /\ Allocated' = Allocated /\ Live = Allocated
      /\ Live' = {o \in Allocated : o \in Seen \cup MarkedByClear \cup Fixed}
  BY <1>2, <1>4 DEF Allocated, Live, IsDead, Seen, White, Whites
<1>6. \A o \in Live : o \notin White => o \in Live'
  BY <1>0, <1>5 DEF Live, Allocated, White, Seen, Whites, Colors
<1>7. \A o \in Live' \ Strings : o \in Seen /\ o \in Live
  BY <1>0, <1>3, <1>5
\* What the entries that stay refer to.
<1>8. ASSUME NEW t \in weak, NEW k \in Keys, HasValue(t, k)'
      PROVE  /\ HasValue(t, k) /\ content'[t][k] = content[t][k]
             /\ k \in Obj => k \in Live'
             /\ content[t][k] \in Obj => content[t][k] \in Live'
  <2>1. HasValue(t, k) /\ content'[t][k] = content[t][k] /\ ~ClearedEntry(t, k)
    <3>1. EmptyTable[k] \in {Nil, Absent}
      BY DEF EmptyTable
    <3> QED BY <1>0, <1>1, <1>8, <3>1 DEF HasValue
  <2>2. \A x \in Obj : x = k \/ x = content[t][k] => x \in Live
    <3>1. t \in Live
      BY <1>0, <1>1 DEF Inv, Bookkeeping, ListDiscipline, Live, Allocated, IsDead
    <3>2. \A x \in Obj : x = k \/ x = content[t][k] => x \in Refs(t)
      BY <1>0, <2>1, RefsMeaning DEF RefTo, EntryRef
    <3> QED BY <3>1, <3>2 DEF Inv, NoDangling
  <2>3. k \in Obj => ~ClearedKey(k) /\ k \in Live'
    <3> SUFFICES ASSUME k \in Obj PROVE ~ClearedKey(k) /\ k \in Live'
      OBVIOUS
    <3>1. k \notin Indices
      BY <1>0
    <3>2. ~ClearedKey(k)
      BY <2>1, <3>1 DEF ClearedEntry
    <3>3. CASE k \in White
      <4>1. k \in Strings
        BY <3>2, <3>3 DEF ClearedKey
      <4>2. k \in MarkedByClear
        BY <2>1, <4>1 DEF MarkedByClear
      <4> QED BY <1>5, <2>2, <3>2, <4>2
    <3> QED BY <1>6, <2>2, <3>2, <3>3
  <2>4. content[t][k] \in Obj => content[t][k] \in Live'
    <3> SUFFICES ASSUME content[t][k] \in Obj, content[t][k] \in White PROVE content[t][k] \in Live'
      BY <1>6, <2>2
    <3>1. k \in Indices => WeakValues(t)
      <4> SUFFICES ASSUME k \in Indices, ~WeakValues(t) PROVE FALSE
        OBVIOUS
      <4>1. content[t][k] \in StrongRefs(t)
        BY <1>0, <2>1 DEF StrongRefs, When, Entries
      <4> QED BY <1>1, <4>1 DEF Inv, Bookkeeping, AtomicStages
    <3>2. ~ClearedValue(content[t][k])
      BY <2>1, <3>1 DEF ClearedEntry
    <3>3. content[t][k] \in Strings
      BY <3>2 DEF ClearedValue
    <3>4. ~ClearedKey(k)
      <4>1. k \in Indices => k \notin White
        BY <1>0 DEF White
      <4> QED BY <1>0, <2>3, <4>1 DEF ClearedKey
    <3>5. content[t][k] \in MarkedByClear
      BY <2>1, <3>1, <3>3, <3>4 DEF MarkedByClear
    <3> QED BY <1>5, <2>2, <3>5
  <2> QED BY <2>1, <2>3, <2>4
<1>9. \A t \in Tables \ weak : content'[t] = content[t]
  BY <1>1
<1>10. \A u \in UpVals : UpValue(u)' = UpValue(u)
  BY <1>1 DEF UpValue
<1>11. \A o \in Obj : Grows(o, {})
  BY <1>1, <1>8, <1>9, <1>10 DEF Grows, EntryRef, HasValue
<1>12. \A o \in Obj : Refs(o)' \subseteq Refs(o)
  BY <1>11, GrowsRefs
<1>13. NoDangling'
  <2>1. Roots' \subseteq Live'
    <3>1. {MainThread, Registry, running, basemt} \cap White = {}
      BY <1>1 DEF Inv, Bookkeeping, AtomicStages
    <3>2. Roots \subseteq Live
      BY DEF Inv, NoDangling
    <3>3. Roots' = Roots
      BY <1>1 DEF Roots
    <3>4. Fixed \cap Obj \subseteq Live'
      BY <1>5, <3>2 DEF Roots
    <3> QED BY <1>6, <3>1, <3>2, <3>3, <3>4 DEF Roots
  <2>2. ASSUME NEW o \in Live', NEW x \in Refs(o)' PROVE x \in Live'
    <3>0. o \in Obj /\ x \in Refs(o) /\ RefTo(o, x)' /\ x \in Obj
      BY <1>5, <1>12, <2>2, RefsMeaningNext DEF Allocated, RefTo
    <3>1. o \notin Strings
      BY <3>0, DisjointKinds DEF RefTo, Closures
    <3>2. o \in Seen /\ o \in Live /\ x \in Live
      BY <1>7, <3>0, <3>1 DEF Inv, NoDangling
    <3>3. CASE color[o] = "black"
      <4>1. x \notin White
        BY <1>1, <3>0, <3>3 DEF Inv, TriColor
      <4> QED BY <1>6, <3>2, <4>1
    <3>4. CASE color[o] = "gray" /\ o \in Grayable
      <4>1. o \in grayagain \cup weak
        BY <1>1, <3>4 DEF Inv, Bookkeeping, ListDiscipline
      <4>2. CASE o \in grayagain
        <5>1. x \notin White
          BY <1>1, <3>0, <4>2 DEF Inv, Bookkeeping, AtomicStages
        <5> QED BY <1>6, <3>2, <5>1
      <4>3. CASE o \in weak
        <5>1. o \in Tables /\ (EntryRef(o, x)' \/ x = metatable[o])
          BY <1>0, <1>1, <3>0, <4>3, DisjointKinds DEF RefTo, Closures
        <5>2. CASE EntryRef(o, x)'
          BY <1>8, <3>0, <4>3, <5>2 DEF EntryRef
        <5>3. CASE x = metatable[o]
          <6>1. x \in StrongRefs(o)
            BY <3>0, <5>1, <5>3 DEF StrongRefs
          <6>2. x \notin White
            BY <1>1, <4>3, <6>1 DEF Inv, Bookkeeping, AtomicStages
          <6> QED BY <1>6, <3>2, <6>2
        <5> QED BY <5>1, <5>2, <5>3
      <4> QED BY <4>1, <4>2, <4>3
    <3>5. CASE color[o] = "gray" /\ o \notin Grayable
      <4>1. o \in UpVals /\ openat[o] # Nil
        BY <1>1, <3>0, <3>1, <3>5 DEF Inv, Bookkeeping, GrayKinds
      <4>2. x = UpValue(o)
        BY <3>0, <4>1, RefsMeaning, DisjointKinds DEF RefTo, Closures
      <4>3. x \notin White
        BY <1>1, <3>5, <4>1, <4>2 DEF Inv, Bookkeeping, AtomicStages
      <4> QED BY <1>6, <3>2, <4>3
    <3> QED BY <3>2, <3>3, <3>4, <3>5 DEF Seen
  <2> QED BY <2>1, <2>2 DEF NoDangling
<1>14. TriColor' /\ ListDiscipline' /\ BlackKeys'
  BY <1>1 DEF TriColor, ListDiscipline, BlackKeys
<1>15. AtomicStages'
  BY <1>1 DEF AtomicStages
<1>16. SweepBookkeeping'
  <2>1. \A th \in Threads : th \in Allocated => th \in RootObjects
    BY <1>0 DEF RootObjects, Grayable
  <2>2. MainThread \in RootObjects
    <3>1. MainThread \in Allocated
      BY HandsLive DEF Live
    <3> QED BY <1>0, <2>1, <3>1
  <2>3. \A u \in tmudata : color'[u] = "black"
    <3>1. \A u \in tmudata : color[u] = "black" /\ u \in Obj
      BY <1>1 DEF Inv, Bookkeeping, AtomicStages, TypeInv, TypeOK, Obj
    <3> QED BY <1>4, <3>1 DEF White, Whites
  <2>4. \A o \in Allocated :
       \/ o \in tmudata /\ color'[o] = "black"
       \/ o \in RootObjects
       \/ o \in UpVals /\ openat[o] # Nil /\ openat[o][1] \in RootObjects
       \/ o \in Strings /\ Bucket[o] >= 0
    <3> SUFFICES ASSUME NEW o \in Allocated, o \notin tmudata, o \notin RootObjects, o \notin Strings
                 PROVE  o \in UpVals /\ openat[o] # Nil /\ openat[o][1] \in RootObjects
      BY <2>3, ConstantsAssumption
    <3>1. o \in UpVals /\ openat[o] # Nil
      BY DEF RootObjects
    <3>2. openat[o][1] \in Allocated /\ openat[o][1] \in Threads
      BY <3>1, OpenAtType DEF Inv, Bookkeeping, OpenUpvalues
    <3> QED BY <2>1, <3>1, <3>2
  <2>5. \A o \in RootObjects : /\ o \in Allocated \ tmudata
                               /\ o \in UpVals => openat[o] = Nil
    BY DEF RootObjects
  <2> QED BY <1>1, <1>5, <2>2, <2>4, <2>5 DEF SweepBookkeeping
<1>17. OpenUpvalues'
  <2>1. \A u \in UpVals : openat[u] # Nil => color'[u] \notin {"black", "free"}
    BY <1>0, <1>3, <1>4 DEF Inv, Bookkeeping, OpenUpvalues, White, Whites
  <2> QED BY <1>1, <1>5, <2>1 DEF Inv, Bookkeeping, OpenUpvalues
<1>18. GrayKinds'
  <2>1. \A th \in Threads : color'[th] # "black"
    BY <1>0, <1>4 DEF Inv, Bookkeeping, GrayKinds
  <2> QED BY <1>1, <2>1 DEF GrayKinds
<1>19. Pending'
  BY <1>1, <1>5 DEF Inv, Bookkeeping, Pending
<1>20. FreshFields'
  <2>1. \A o \in Obj : color'[o] = "free" => color[o] = "free"
    BY <1>4
  <2> QED BY <1>12, <2>1 DEF Inv, FreshFields
<1>21. CellValues'
  BY <1>1, KeepCells DEF Inv
<1> QED BY <1>13, <1>14, <1>15, <1>16, <1>17, <1>18, <1>19, <1>20, <1>21 DEF Inv, Bookkeeping

---------------------------------------------------------------------------
(* The sweep and the finalizers *)

LEMMA SweepStringSafe == Inv /\ TypeInv' /\ SweepString => Inv'
<1> SUFFICES ASSUME Inv, TypeInv', SweepString PROVE Inv'
  OBVIOUS
<1>0. /\ color \in [Obj -> Colors] /\ tmudata \subseteq Userdata /\ Strings \subseteq Obj
      /\ Userdata \cap Strings = {} /\ UpVals \cap Strings = {} /\ Threads \cap Strings = {}
      /\ UpVals \subseteq Obj /\ Threads \subseteq Obj /\ Userdata \subseteq Obj
      /\ unswept \subseteq RootList /\ sweepstrgc \in Nat /\ NBuckets \in Nat
      /\ \A x \in Strings : Bucket[x] \in Nat /\ Bucket[x] < NBuckets
  <2>1. \A x \in Strings : Bucket[x] \in 0..NBuckets-1 /\ NBuckets \in Nat
    BY ConstantsAssumption
  <2>2. sweepstrgc \in Nat
    BY <2>1, ConstantsAssumption DEF Inv, TypeInv, TypeOK
  <2>3. /\ color \in [Obj -> Colors] /\ tmudata \subseteq Userdata /\ unswept \subseteq RootList
    BY DEF Inv, TypeInv, TypeOK
  <2> QED BY <2>1, <2>2, <2>3, ConstantsAssumption, DisjointKinds DEF Obj
<1>1. /\ gcstate = "sweepstring"
      /\ color' = [o \in Obj |->
           IF o \in Strings /\ Bucket[o] = sweepstrgc /\ color[o] # "free"
           THEN IF o \in Live THEN "currentwhite" ELSE "free"
           ELSE color[o]]
      /\ sweepstrgc' = sweepstrgc + 1
      /\ gcstate' = IF LastChain THEN "sweep" ELSE gcstate
      /\ UNCHANGED <<atomic, fullgc, gray, grayagain, weak, tmudata, finalized, unswept>>
      /\ UNCHANGED heap
      /\ UNCHANGED <<openat, running, basemt, content, stack, closedval, holds>>
  BY DEF SweepString, heap
<1>2. /\ Live' = Live /\ \A o \in Obj \ Strings : color'[o] = color[o]
      /\ \A o \in Obj : color'[o] = "free" => color[o] = "free" \/ o \in Strings
      /\ \A o \in Obj \ Strings : o \in Allocated' <=> o \in Allocated
      /\ Allocated' \subseteq Allocated
  BY <1>0, <1>1 DEF Live, Allocated, IsDead
<1>3. Roots' = Roots /\ \A o : Refs(o)' = Refs(o)
  BY <1>1, HeapUnchanged DEF Roots
<1>4. NoDangling'
  BY <1>2, <1>3 DEF Inv, NoDangling
<1>5. FreshFields'
  <2>1. \A o \in Strings : Refs(o) = {}
    BY RefsMeaning, DisjointKinds DEF RefTo, Closures
  <2> QED BY <1>2, <1>3, <2>1 DEF Inv, FreshFields
<1>6. TriColor' /\ ListDiscipline' /\ BlackKeys' /\ gcstate' \in {"sweep", "sweepstring"}
  BY <1>1 DEF TriColor, ListDiscipline, BlackKeys
<1>7. AtomicStages'
  BY <1>1, <1>6 DEF Inv, Bookkeeping, AtomicStages
<1>8. SweepBookkeeping'
  <2>1. SweepBookkeeping
    BY DEF Inv, Bookkeeping
  <2>2. ASSUME NEW o \in Allocated'
        PROVE  \/ color'[o] = "currentwhite"
               \/ o \in tmudata /\ color'[o] = "black"
               \/ o \in unswept
               \/ o \in UpVals /\ openat[o] # Nil /\ openat[o][1] \in unswept
               \/ o \in Strings /\ gcstate' = "sweepstring" /\ Bucket[o] >= sweepstrgc'
    <3>1. o \in Allocated /\ o \in Obj
      BY <1>2 DEF Allocated
    <3>2. CASE o \notin Strings
      BY <1>1, <1>2, <2>1, <3>1, <3>2 DEF SweepBookkeeping
    <3>3. CASE o \in Strings /\ Bucket[o] = sweepstrgc
      BY <1>1, <3>1, <3>3 DEF Allocated
    <3>4. CASE o \in Strings /\ Bucket[o] # sweepstrgc
      <4>1. color'[o] = color[o] /\ o \notin tmudata /\ o \notin UpVals
        BY <1>0, <1>1, <3>1, <3>4
      <4>2. o \notin unswept
        BY <1>0, <3>4 DEF RootList
      <4>3. color[o] = "currentwhite" \/ Bucket[o] >= sweepstrgc
        BY <1>1, <2>1, <3>1, <4>1, <4>2 DEF SweepBookkeeping
      <4>4. Bucket[o] >= sweepstrgc => Bucket[o] >= sweepstrgc + 1 /\ ~LastChain
        BY <1>0, <3>4 DEF LastChain
      <4> QED BY <1>1, <3>4, <4>1, <4>3, <4>4
    <3> QED BY <3>2, <3>3, <3>4
  <2>3. \A o \in unswept : /\ o \in Allocated' \ tmudata
                           /\ o \in UpVals => openat[o] = Nil
    BY <1>0, <1>2, <2>1 DEF SweepBookkeeping, RootList
  <2> QED BY <1>1, <1>6, <2>1, <2>2, <2>3 DEF SweepBookkeeping
<1>9. OpenUpvalues'
  <2>1. \A u \in UpVals : openat[u] # Nil => openat[u][1] \in Allocated' /\ color'[u] = color[u]
    BY <1>0, <1>2, OpenAtType DEF Inv, Bookkeeping, OpenUpvalues
  <2> QED BY <1>1, <2>1 DEF Inv, Bookkeeping, OpenUpvalues
<1>10. GrayKinds' /\ Pending'
  BY <1>0, <1>1, <1>2, <1>6 DEF Inv, Bookkeeping, GrayKinds, Pending
<1>11. CellValues'
  BY <1>1, KeepCells DEF Inv
<1> QED BY <1>4, <1>5, <1>6, <1>7, <1>8, <1>9, <1>10, <1>11 DEF Inv, Bookkeeping

LEMMA SweepObjectSafe ==
  ASSUME Inv, TypeInv', NEW o \in RootList, SweepObject(o)
  PROVE  Inv'
<1> DEFINE ups    == IF o \in Threads THEN OpenUpvals(o) ELSE {}
           freed  == {x \in ups \cup {o} : IsDead(x)}
           closed == IF o \in freed THEN ups \ freed ELSE {}
<1>0. /\ color \in [Obj -> Colors] /\ o \in Obj /\ o \notin Strings /\ tmudata \subseteq Userdata
      /\ UpVals \subseteq Obj /\ Threads \subseteq Obj /\ Userdata \subseteq Obj
      /\ UpVals \cap Userdata = {} /\ UpVals \cap Strings = {} /\ UpVals \cap Threads = {}
      /\ Fixed \subseteq Strings /\ Nil \notin Obj /\ Nil # Absent
      /\ content \in [Tables -> [Keys -> Val \cup {Nil, Absent}]]
      /\ metatable \in [Tables \cup Userdata -> Tables \cup {Nil}]
      /\ env \in [Closures \cup Userdata \cup Threads -> Tables \cup {Nil}]
      /\ upvals \in [LClosures -> SUBSET UpVals]
      /\ holds \in [Closures \cup Protos -> SUBSET Obj]
      /\ openat \in [UpVals -> (Threads \X Slots) \cup {Nil}]
      /\ stack \in [Threads -> [Slots -> Val \cup {Nil}]]
  BY ConstantsAssumption, DisjointKinds DEF Inv, TypeInv, TypeOK, Obj, RootList
<1>1. /\ gcstate = "sweep" /\ o \in unswept
      /\ color' = [x \in Obj |-> IF x \in freed THEN "free"
                                 ELSE IF x \in ups \cup {o} THEN "currentwhite"
                                 ELSE color[x]]
      /\ Free(freed)
      /\ closedval' = [u \in UpVals |-> IF u \in freed THEN Nil
                                        ELSE IF u \in closed THEN UpValue(u)
                                        ELSE closedval[u]]
      /\ openat' = Reset(openat, freed \cup closed, Nil)
      /\ unswept' \in {unswept \ {o}, (unswept \ {o}) \cup closed}
      /\ gcstate' = IF unswept' = {} THEN "finalize" ELSE "sweep"
      /\ UNCHANGED <<atomic, gray, grayagain, weak, tmudata, sweepstrgc, running, basemt>>
  BY DEF SweepObject, IsNext
<1>2. SweepBookkeeping /\ o \in Allocated /\ o \notin tmudata /\ (o \in UpVals => openat[o] = Nil)
  BY <1>1 DEF Inv, Bookkeeping, SweepBookkeeping
<1>3. /\ ups \subseteq UpVals /\ o \notin ups
      /\ \A u \in ups : openat[u] # Nil /\ openat[u][1] = o /\ o \in Threads
      /\ \A u \in ups : color[u] \notin {"black", "free"}
      /\ o \in Threads => \A u \in UpVals : openat[u] # Nil /\ openat[u][1] = o => u \in ups
  BY <1>2 DEF OpenUpvals, Inv, Bookkeeping, OpenUpvalues
<1>4. /\ \A x \in freed : x \in ups \cup {o} /\ color[x] = "otherwhite"
      /\ \A x \in ups \cup {o} : x \notin freed => color[x] # "otherwhite"
      /\ closed \subseteq ups /\ closed \cap freed = {}
      /\ o \in freed => ups \subseteq freed \cup closed
      /\ o \notin freed => closed = {}
  BY DEF IsDead
<1> HIDE DEF ups, freed, closed
<1>5. /\ freed \subseteq Obj /\ freed \cap Live = {} /\ freed \cap tmudata = {}
      /\ Allocated' = Allocated \ freed /\ Live' = Live
      /\ \A x \in Obj : x \notin ups \cup {o} => color'[x] = color[x]
      /\ \A x \in ups \cup {o} : x \notin freed => color'[x] = "currentwhite"
      /\ \A x \in Obj : color'[x] = "free" => x \in freed \/ color[x] = "free"
      /\ \A x \in freed : color'[x] = "free"
  <2>1. freed \subseteq Obj /\ ups \subseteq Obj /\ (ups \cup {o}) \cap Fixed = {}
    BY <1>0, <1>3, <1>4
  <2>2. /\ \A x \in Obj : x \notin ups \cup {o} => color'[x] = color[x]
        /\ \A x \in ups \cup {o} : x \notin freed => color'[x] = "currentwhite"
        /\ \A x \in freed : color'[x] = "free"
    BY <1>0, <1>1, <1>4, <2>1
  <2>3. Allocated' = Allocated \ freed
    BY <1>0, <1>2, <1>3, <1>4, <2>1, <2>2 DEF Allocated
  <2>4. freed \cap Live = {} /\ Live' = Live
    BY <1>4, <2>1, <2>2, <2>3 DEF Live, Allocated, IsDead
  <2>5. freed \cap tmudata = {}
    BY <1>0, <1>2, <1>3, <1>4
  <2>6. \A x \in Obj : color'[x] = "free" => x \in freed \/ color[x] = "free"
    BY <1>1
  <2> QED BY <2>1, <2>2, <2>3, <2>4, <2>5, <2>6
<1>6. /\ \A u \in UpVals : openat'[u] = IF u \in freed \cup closed THEN Nil ELSE openat[u]
      /\ \A th \in Threads : stack'[th] = IF th \in freed THEN EmptyStack ELSE stack[th]
      /\ \A t \in Tables : content'[t] = IF t \in freed THEN EmptyTable ELSE content[t]
      /\ \A x \in Tables \cup Userdata : metatable'[x] = IF x \in freed THEN Nil ELSE metatable[x]
      /\ \A x \in Closures \cup Userdata \cup Threads : env'[x] = IF x \in freed THEN Nil ELSE env[x]
      /\ \A c \in LClosures : upvals'[c] = IF c \in freed THEN {} ELSE upvals[c]
      /\ \A x \in Closures \cup Protos : holds'[x] = IF x \in freed THEN {} ELSE holds[x]
  BY <1>0, <1>1 DEF Free, Reset
<1>7. \A u \in UpVals : UpValue(u)' = IF u \in freed THEN Nil ELSE UpValue(u)
  <2> SUFFICES ASSUME NEW u \in UpVals PROVE UpValue(u)' = IF u \in freed THEN Nil ELSE UpValue(u)
    OBVIOUS
  <2>1. CASE u \in freed
    BY <1>1, <1>6, <2>1 DEF UpValue
  <2>2. CASE u \in closed
    BY <1>1, <1>4, <1>6, <2>2 DEF UpValue
  <2>3. CASE u \notin freed \cup closed /\ openat[u] = Nil
    BY <1>1, <1>6, <2>3 DEF UpValue
  <2>4. CASE u \notin freed \cup closed /\ openat[u] # Nil
    <3>1. openat[u][1] \in Threads /\ openat[u][1] \notin freed
      BY <1>0, <1>3, <1>4, <2>4, OpenAtType DEF Inv
    <3>2. stack'[openat[u][1]] = stack[openat[u][1]]
      BY <1>6, <3>1
    <3> QED BY <1>6, <2>4, <3>2 DEF UpValue
  <2> QED BY <2>1, <2>2, <2>3, <2>4
<1>8. \A x \in Obj \ freed : Grows(x, {})
  BY <1>6, <1>7 DEF Grows, EntryRef, HasValue
<1>9. \A x \in freed : Refs(x)' = {}
  <2> SUFFICES ASSUME NEW x \in freed, NEW y, RefTo(x, y)' PROVE FALSE
    BY RefsMeaningNext
  <2>1. x \in Tables => ~EntryRef(x, y)'
    <3>1. \A k \in Keys : EmptyTable[k] \in {Nil, Absent}
      BY DEF EmptyTable
    <3> QED BY <1>6, <3>1 DEF EntryRef, HasValue
  <2>2. x \in Threads => \A s \in Slots : stack'[x][s] = Nil
    BY <1>6 DEF EmptyStack
  <2>3. y \in Obj /\ y # Nil
    BY <1>0 DEF RefTo
  <2> QED BY <1>6, <1>7, <2>1, <2>2, <2>3 DEF RefTo
<1>10. NoDangling'
  <2>1. Roots' = Roots
    BY <1>1 DEF Roots
  <2>2. \A x \in Live : Refs(x)' \subseteq Refs(x)
    <3>1. \A x \in Live : x \in Obj \ freed
      BY <1>5 DEF Live, Allocated
    <3> QED BY <1>8, <3>1, GrowsRefs
  <2> QED BY <1>5, <2>1, <2>2 DEF Inv, NoDangling
<1>11. FreshFields'
  <2>1. \A x \in Obj \ freed : Refs(x)' \subseteq Refs(x)
    BY <1>8, GrowsRefs
  <2> QED BY <1>5, <1>9, <2>1 DEF Inv, FreshFields
<1>12. TriColor' /\ ListDiscipline' /\ BlackKeys' /\ gcstate' \in {"sweep", "finalize"}
  BY <1>1 DEF TriColor, ListDiscipline, BlackKeys
<1>13. AtomicStages'
  BY <1>1, <1>12 DEF Inv, Bookkeeping, AtomicStages
<1>14. SweepBookkeeping'
  <2>1. unswept \ {o} \subseteq unswept' /\ unswept' \subseteq (unswept \ {o}) \cup closed
    BY <1>1
  <2>2. ASSUME NEW x \in Allocated', color'[x] # "currentwhite"
        PROVE  \/ x \in tmudata /\ color'[x] = "black"
               \/ x \in unswept'
               \/ x \in UpVals /\ openat'[x] # Nil /\ openat'[x][1] \in unswept'
    <3>1. x \in Allocated /\ x \in Obj /\ x \notin freed
      BY <1>5 DEF Allocated
    <3>2. x \notin ups /\ x # o /\ color'[x] = color[x]
      BY <1>5, <2>2, <3>1
    <3>3. \/ x \in tmudata /\ color[x] = "black"
          \/ x \in unswept
          \/ x \in UpVals /\ openat[x] # Nil /\ openat[x][1] \in unswept
      BY <1>1, <1>2, <2>2, <3>1, <3>2 DEF SweepBookkeeping
    <3>4. x \in UpVals /\ openat[x] # Nil => openat'[x] = openat[x] /\ openat[x][1] # o
      <4> SUFFICES ASSUME x \in UpVals, openat[x] # Nil
                   PROVE  openat'[x] = openat[x] /\ openat[x][1] # o
        OBVIOUS
      <4>1. x \notin freed \cup closed
        BY <1>4, <3>1, <3>2
      <4>2. openat[x][1] \in Threads
        BY OpenAtType DEF Inv
      <4> QED BY <1>3, <1>6, <3>2, <4>1, <4>2
    <3> QED BY <2>1, <3>2, <3>3, <3>4
  <2>3. \A x \in unswept' : /\ x \in Allocated' \ tmudata
                            /\ x \in UpVals => openat'[x] = Nil
    <3>1. \A x \in unswept \ {o} : /\ x \in Allocated' \ tmudata
                                   /\ x \in UpVals => openat'[x] = Nil
      <4>1. \A x \in unswept : x \in Allocated /\ x \notin tmudata /\ x \notin ups
        BY <1>2, <1>3 DEF SweepBookkeeping
      <4>2. \A x \in unswept \ {o} : x \notin freed
        BY <1>4, <4>1
      <4> QED BY <1>2, <1>5, <1>6, <4>1, <4>2 DEF SweepBookkeeping
    <3>2. \A x \in closed : x \in Allocated' /\ x \notin tmudata /\ openat'[x] = Nil
      BY <1>0, <1>3, <1>4, <1>5, <1>6 DEF Allocated
    <3> QED BY <2>1, <3>1, <3>2
  <2> QED BY <1>1, <1>12, <2>2, <2>3 DEF SweepBookkeeping
<1>15. OpenUpvalues'
  <2>1. ASSUME NEW u \in UpVals, openat'[u] # Nil
        PROVE  /\ openat'[u] = openat[u] /\ color'[u] \notin {"black", "free"}
               /\ openat[u][1] \in Allocated'
    <3>1. u \notin freed \cup closed /\ openat'[u] = openat[u] /\ openat[u] # Nil
      BY <1>6, <2>1
    <3>2. openat[u][1] \in Threads /\ openat[u][1] \in Allocated /\ color[u] \notin {"black", "free"}
      BY <3>1, OpenAtType DEF Inv, Bookkeeping, OpenUpvalues
    <3>3. openat[u][1] \notin freed
      BY <1>0, <1>3, <1>4, <3>1, <3>2
    <3>4. color'[u] \notin {"black", "free"}
      BY <1>0, <1>5, <3>1, <3>2
    <3> QED BY <1>5, <3>1, <3>2, <3>3, <3>4
  <2> QED BY <2>1 DEF Inv, Bookkeeping, OpenUpvalues
<1>16. GrayKinds'
  <2>1. \A th \in Threads : color'[th] # "black"
    BY <1>0, <1>1 DEF Inv, Bookkeeping, GrayKinds
  <2> QED BY <1>12, <2>1 DEF GrayKinds
<1>17. Pending'
  BY <1>1, <1>5, <1>12 DEF Inv, Bookkeeping, Pending
<1>18. CellValues'
  <2>1. \A u \in UpVals : UpValue(u) \notin UpVals
    BY OpenAtType DEF Inv, UpValue, CellValues
  <2>2. \A u \in UpVals : closedval'[u] \notin UpVals /\ (openat'[u] # Nil => closedval'[u] \notin Obj)
    BY <1>0, <1>1, <1>6, <2>1 DEF Inv, CellValues
  <2>3. \A th \in Threads, s \in Slots : stack'[th][s] \notin UpVals
    BY <1>0, <1>6 DEF Inv, CellValues, EmptyStack
  <2>4. \A c \in LClosures : holds'[c] \subseteq Protos
    BY <1>6 DEF Inv, CellValues, Closures
  <2> QED BY <2>2, <2>3, <2>4 DEF CellValues
<1> QED BY <1>10, <1>11, <1>12, <1>13, <1>14, <1>15, <1>16, <1>17, <1>18 DEF Inv, Bookkeeping

LEMMA GCTMSafe ==
  ASSUME Inv, TypeInv', NEW u \in Userdata, NEW s \in Slots, GCTM(u, s)
  PROVE  Inv'
<1>0. /\ color \in [Obj -> Colors] /\ u \in Obj /\ u \notin UpVals /\ u \notin Threads
      /\ Threads \subseteq Obj /\ UpVals \subseteq Obj
  BY DisjointKinds DEF Inv, TypeInv, TypeOK, Obj
<1>1. /\ gcstate = "finalize" /\ fullgc = "off" /\ u \in tmudata /\ tmudata' = tmudata \ {u}
      /\ color' = [color EXCEPT ![u] = "currentwhite"]
      /\ Push(u, s) \/ stack' = stack
      /\ UNCHANGED <<gcstate, atomic, fullgc, gray, grayagain, weak,
                     finalized, sweepstrgc, unswept, content, metatable, env, upvals,
                     holds, openat, closedval, running, basemt>>
  BY DEF GCTM
<1>2. /\ \A o \in Obj : color[o] \in {"free", "currentwhite"} \/ (o \in tmudata /\ color[o] = "black")
      /\ unswept = {} /\ atomic = 0 /\ tmudata \subseteq Userdata
      /\ Live = Allocated
  BY <1>1, Whitened
<1>3. u \in Allocated
  BY <1>1 DEF Inv, Bookkeeping, Pending
<1>4. /\ Allocated' = Allocated /\ Live' = Allocated
      /\ \A o \in Obj \ {u} : color'[o] = color[o]
      /\ color'[u] = "currentwhite"
  BY <1>0, <1>1, <1>2, <1>3 DEF Allocated, Live, IsDead
<1>5. /\ \A x \in Threads, r \in Slots : stack'[x][r] \in {stack[x][r], u}
      /\ \A w \in UpVals : UpValue(w)' \in {UpValue(w), u}
      /\ \A x \in Threads : color[x] \in {"black", "free"} =>
           \A r \in Slots : stack'[x][r] = stack[x][r]
      /\ \A w \in UpVals : color[w] \in {"black", "free"} => UpValue(w)' = UpValue(w)
      /\ CellValues'
  <2>1. CASE Push(u, s)
    BY <1>0, <1>1, <2>1, PushStore
  <2>2. CASE stack' = stack
    BY <1>1, <2>2, KeepCells DEF UpValue, Inv
  <2> QED BY <1>1, <2>1, <2>2
<1>6. \A o \in Obj : /\ Grows(o, {u})
                     /\ color[o] = "free" => Grows(o, {})
  BY <1>1, <1>5 DEF Grows, EntryRef, HasValue
<1>7. NoDangling'
  <2>1. Roots' = Roots
    BY <1>1 DEF Roots
  <2>2. \A o \in Allocated : Refs(o)' \subseteq Refs(o) \cup {u}
    BY <1>6, GrowsRefs DEF Allocated
  <2> QED BY <1>2, <1>3, <1>4, <2>1, <2>2 DEF Inv, NoDangling
<1>8. FreshFields'
  <2>1. \A o \in Obj : color'[o] = "free" => color[o] = "free"
    BY <1>4
  <2> QED BY <1>6, <2>1, GrowsRefs DEF Inv, FreshFields
<1>9. TriColor' /\ ListDiscipline' /\ BlackKeys' /\ AtomicStages'
  BY <1>1, <1>2 DEF TriColor, ListDiscipline, BlackKeys, AtomicStages
<1>10. SweepBookkeeping'
  BY <1>1, <1>2, <1>4 DEF SweepBookkeeping, Allocated
<1>11. OpenUpvalues' /\ GrayKinds' /\ Pending'
  BY <1>0, <1>1, <1>4 DEF Inv, Bookkeeping, OpenUpvalues, GrayKinds, Pending
<1> QED BY <1>5, <1>7, <1>8, <1>9, <1>10, <1>11 DEF Inv, Bookkeeping

LEMMA EndCycleSafe == Inv /\ TypeInv' /\ EndCycle => Inv'
<1> SUFFICES ASSUME Inv, TypeInv', EndCycle PROVE Inv'
  OBVIOUS
<1>1. /\ gcstate = "finalize" /\ fullgc = "off" /\ tmudata = {} /\ gcstate' = "pause"
      /\ UNCHANGED <<color, atomic, fullgc, gray, grayagain, weak, tmudata, finalized,
                     sweepstrgc, unswept>>
      /\ UNCHANGED heap
      /\ UNCHANGED <<openat, running, basemt, content, stack, closedval, holds>>
  BY DEF EndCycle, heap
<1>2. White' = White /\ Allocated' = Allocated /\ Live' = Live
  BY <1>1 DEF White, Allocated, Live, IsDead
<1>3. Roots' = Roots /\ \A o : Refs(o)' = Refs(o)
  BY <1>1, HeapUnchanged DEF Roots
<1>4. NoDangling' /\ FreshFields' /\ TriColor' /\ ListDiscipline' /\ BlackKeys'
  BY <1>1, <1>2, <1>3 DEF Inv, NoDangling, FreshFields, TriColor, ListDiscipline, BlackKeys
<1>5. AtomicStages' /\ SweepBookkeeping' /\ OpenUpvalues' /\ GrayKinds' /\ Pending'
  BY <1>1, <1>2, Whitened
     DEF Inv, Bookkeeping, AtomicStages, SweepBookkeeping, OpenUpvalues, GrayKinds, Pending
<1> QED BY <1>1, <1>4, <1>5, KeepCells DEF Inv, Bookkeeping

\* luaC_fullgc abandons a mark phase: nothing is dead yet, and all is to be swept.
LEMMA FullGCSafe == Inv /\ TypeInv' /\ FullGC => Inv'
<1> SUFFICES ASSUME Inv, TypeInv', FullGC PROVE Inv'
  OBVIOUS
<1>1. CASE gcstate = "finalize" /\ MarkRoots("mark")
  BY <1>1, MarkRootsSafe
<1>2. CASE /\ MutatorRuns /\ gcstate # "finalize" /\ fullgc' = "sweep"
           /\ IF gcstate \in {"pause", "propagate"}
              THEN /\ gray' = {} /\ grayagain' = {} /\ weak' = {}
                   /\ gcstate' = "sweepstring" /\ sweepstrgc' = 0
                   /\ unswept' = RootObjects
              ELSE UNCHANGED <<gray, grayagain, weak, gcstate, sweepstrgc, unswept>>
           /\ UNCHANGED <<color, atomic, tmudata, finalized, heap>>
  <2>0. /\ UNCHANGED <<color, atomic, tmudata>> /\ UNCHANGED heap
        /\ UNCHANGED <<openat, running, basemt, content, stack, closedval, holds>>
        /\ atomic = 0 /\ fullgc = "off" /\ gcstate' \in {"sweepstring", "sweep"}
        /\ gcstate \in {"pause", "propagate", "sweepstring", "sweep"}
    BY <1>2 DEF MutatorRuns, heap, Inv, TypeInv, TypeOK
  <2>1. White' = White /\ Allocated' = Allocated /\ Live' = Live
    BY <2>0 DEF White, Allocated, Live, IsDead
  <2>2. Roots' = Roots /\ \A o : Refs(o)' = Refs(o)
    BY <2>0, HeapUnchanged DEF Roots
  <2>3. NoDangling' /\ FreshFields' /\ TriColor' /\ ListDiscipline' /\ BlackKeys' /\ CellValues'
    BY <2>0, <2>1, <2>2, KeepCells
       DEF Inv, NoDangling, FreshFields, TriColor, ListDiscipline, BlackKeys
  <2>4. AtomicStages' /\ OpenUpvalues' /\ GrayKinds' /\ Pending'
    BY <2>0, <2>1 DEF Inv, Bookkeeping, AtomicStages, OpenUpvalues, GrayKinds, Pending
  <2>5. SweepBookkeeping'
    <3>1. CASE gcstate \in {"pause", "propagate"}
      <4>1. tmudata = {} /\ sweepstrgc' = 0 /\ unswept' = RootObjects
        BY <1>2, <2>0, <3>1 DEF Inv, Bookkeeping, AtomicStages
      <4>2. /\ Threads \cap Strings = {} /\ Threads \cap UpVals = {}
            /\ MainThread \in Threads /\ Strings \cap UpVals = {}
            /\ \A x \in Strings : Bucket[x] >= 0
        BY ConstantsAssumption, DisjointKinds
      <4>3. \A th \in Threads : th \in Allocated => th \in RootObjects
        BY <4>1, <4>2 DEF RootObjects
      <4>4. RootObjects # {}
        <5>1. MainThread \in Allocated
          BY HandsLive DEF Live
        <5> QED BY <4>2, <4>3, <5>1
      <4>5. \A o \in Allocated :
              \/ o \in RootObjects \cup Strings
              \/ o \in UpVals /\ openat[o] # Nil /\ openat[o][1] \in RootObjects
        <5> SUFFICES ASSUME NEW o \in Allocated, o \notin RootObjects \cup Strings
                     PROVE  o \in UpVals /\ openat[o] # Nil /\ openat[o][1] \in RootObjects
          OBVIOUS
        <5>1. o \in UpVals /\ openat[o] # Nil
          BY <4>1 DEF RootObjects
        <5>2. openat[o][1] \in Allocated /\ openat[o][1] \in Threads
          BY <5>1, OpenAtType DEF Inv, Bookkeeping, OpenUpvalues
        <5> QED BY <4>3, <5>1, <5>2
      <4>6. \A o \in RootObjects : o \in Allocated /\ (o \in UpVals => openat[o] = Nil)
        BY DEF RootObjects
      <4>7. gcstate' = "sweepstring"
        BY <1>2, <3>1
      <4> QED BY <2>0, <2>1, <4>1, <4>2, <4>4, <4>5, <4>6, <4>7 DEF SweepBookkeeping
    <3>2. CASE gcstate \notin {"pause", "propagate"}
      <4>1. UNCHANGED <<gcstate, sweepstrgc, unswept>> /\ gcstate # "propagate"
        BY <1>2, <3>2
      <4> QED BY <2>0, <2>1, <4>1 DEF Inv, Bookkeeping, SweepBookkeeping
    <3> QED BY <3>1, <3>2
  <2> QED BY <2>3, <2>4, <2>5 DEF Inv, Bookkeeping
<1> QED BY <1>1, <1>2 DEF FullGC

LEMMA CollectorSafe == Inv /\ TypeInv' /\ CollectorStep => Inv'
<1> SUFFICES ASSUME Inv, TypeInv', CollectorStep PROVE Inv'
  OBVIOUS
<1>1. CASE StartCycle
  <2>1. gcstate = "pause" /\ tmudata = {} /\ MarkRoots("off")
    BY <1>1 DEF StartCycle, Inv, Bookkeeping, AtomicStages, Pending
  <2> QED BY <2>1, MarkRootsSafe
<1>2. CASE FullGCMark
  BY <1>2, MarkRootsSafe DEF FullGCMark
<1> QED BY <1>1, <1>2, PropagateMarkSafe, RemarkUpvalsSafe, RemarkWeakSafe, RemarkGrayAgainSafe,
           SeparateUdataSafe, ClearAndFlipSafe, SweepStringSafe, SweepObjectSafe, GCTMSafe,
           EndCycleSafe DEF CollectorStep

---------------------------------------------------------------------------
(* The theorems *)

LEMMA InvInit == Init => Inv
<1> SUFFICES ASSUME Init PROVE Inv
  OBVIOUS
<1> DEFINE old == {MainThread, Globals, Registry} \cup Fixed
<1>0. /\ old \subseteq Obj /\ MainThread \in Threads /\ Globals \in Tables /\ Registry \in Tables
      /\ Fixed \subseteq Strings /\ Threads \subseteq Obj /\ UpVals \subseteq Obj
      /\ Nil \notin Obj /\ Grayable \subseteq Obj
  BY ConstantsAssumption, DisjointKinds DEF Obj, Grayable
<1>1. \A o \in Obj : color[o] = IF o \in old THEN "currentwhite" ELSE "free"
  BY DEF Init
<1> HIDE DEF old
<1>2. Live = old /\ Allocated = old
  BY <1>0, <1>1 DEF Live, Allocated, IsDead
<1>3. \A o, x : RefTo(o, x) => o = MainThread /\ x = Globals
  <2> SUFFICES ASSUME NEW o, NEW x, RefTo(o, x) PROVE o = MainThread /\ x = Globals
    OBVIOUS
  <2>1. x \in Obj /\ x # Nil
    BY <1>0 DEF RefTo
  <2>2. o \in Tables => ~EntryRef(o, x)
    BY DEF Init, EntryRef, HasValue, EmptyTable
  <2>3. o \in UpVals => UpValue(o) = Nil
    BY DEF Init, UpValue
  <2>4. o \in Threads => \A s \in Slots : stack[o][s] = Nil
    BY DEF Init, EmptyStack
  <2>5. o \in Closures \cup Userdata \cup Threads => env[o] = IF o = MainThread THEN Globals ELSE Nil
    BY DEF Init
  <2>6. /\ o \in Tables \cup Userdata => metatable[o] = Nil
        /\ o \in LClosures => upvals[o] = {}
        /\ o \in Closures \cup Protos => holds[o] = {}
    BY DEF Init
  <2> QED BY <2>1, <2>2, <2>3, <2>4, <2>5, <2>6 DEF RefTo
<1>4. NoDangling
  <2>1. Roots \subseteq Live
    BY <1>0, <1>2 DEF Init, Roots, old
  <2>2. \A o \in Live : Refs(o) \subseteq Live
    BY <1>2, <1>3, RefsMeaning DEF old
  <2> QED BY <2>1, <2>2 DEF NoDangling
<1>5. FreshFields
  <2> SUFFICES ASSUME NEW o \in Obj, color[o] = "free", NEW x \in Refs(o) PROVE FALSE
    BY DEF FreshFields
  <2>1. o = MainThread
    BY <1>3, RefsMeaning
  <2> QED BY <1>1, <2>1 DEF old
<1>6. TriColor /\ ListDiscipline /\ BlackKeys
  BY DEF Init, TriColor, ListDiscipline, BlackKeys
<1>7. AtomicStages
  BY DEF Init, AtomicStages
<1>8. SweepBookkeeping /\ GrayKinds
  BY <1>0, <1>1, <1>2 DEF Init, SweepBookkeeping, GrayKinds
<1>9. OpenUpvalues /\ Pending
  BY DEF Init, OpenUpvalues, Pending
<1>10. CellValues
  BY <1>0 DEF Init, CellValues, EmptyStack, Closures
<1> QED BY <1>4, <1>5, <1>6, <1>7, <1>8, <1>9, <1>10, TypeInit DEF Inv, Bookkeeping

LEMMA InvStutter == Inv /\ UNCHANGED vars => Inv'
<1> SUFFICES ASSUME Inv, UNCHANGED vars PROVE Inv'
  OBVIOUS
<1>1. /\ UNCHANGED heap
      /\ UNCHANGED <<color, gray, unswept, gcstate, atomic, fullgc, grayagain, weak,
               tmudata, finalized, sweepstrgc>>
      /\ UNCHANGED <<content, metatable, env, upvals, holds, openat, closedval, stack, running,
                     basemt>>
  BY DEF vars, collector, heap
<1>2. /\ White' = White /\ Allocated' = Allocated /\ Live' = Live /\ Seen' = Seen
      /\ Roots' = Roots
  BY <1>1 DEF White, Allocated, Live, IsDead, Seen, Roots
<1>3. /\ \A o : Refs(o)' = Refs(o) /\ StrongRefs(o)' = StrongRefs(o) /\ IsWeak(o)' = IsWeak(o)
      /\ \A u : UpValue(u)' = UpValue(u)
  BY <1>1, HeapUnchanged
<1>4. TypeInv'
  BY <1>1 DEF Inv, TypeInv, TypeOK
<1>5. NoDangling' /\ TriColor' /\ FreshFields' /\ CellValues' /\ BlackKeys'
  BY <1>1, <1>2, <1>3 DEF Inv, NoDangling, TriColor, FreshFields, CellValues, BlackKeys
<1>6. AtomicStages'
  BY <1>1, <1>2, <1>3 DEF Inv, Bookkeeping, AtomicStages
<1>7. ListDiscipline' /\ SweepBookkeeping' /\ OpenUpvalues' /\ GrayKinds' /\ Pending'
  BY <1>1, <1>2 DEF Inv, Bookkeeping, ListDiscipline, SweepBookkeeping, OpenUpvalues, GrayKinds,
    Pending, IsDead
<1> QED BY <1>4, <1>5, <1>6, <1>7 DEF Inv, Bookkeeping

LEMMA InvNext == Inv /\ [Next]_vars => Inv'
<1> SUFFICES ASSUME Inv, [Next]_vars PROVE Inv'
  OBVIOUS
<1>1. CASE UNCHANGED vars
  BY <1>1, InvStutter
<1>2. TypeInv'
  BY TypeNext DEF Inv
<1>3. CASE Next
  BY <1>2, <1>3, CollectorSafe, MutatorSafe, FullGCSafe DEF Next
<1> QED BY <1>1, <1>3

LEMMA InvAlways == Spec => []Inv
BY InvInit, InvNext, PTL DEF Spec

\* What a step takes off the heap is not live: no color becomes "free" but in the
\* sweep and for dead upvalues that luaF_close finds.
LEMMA LiveStays ==
  ASSUME Inv, Next
  PROVE  \A o \in Live : color'[o] # "free"
<1> DEFINE Kept == \A o \in Obj : color'[o] = "free" => color[o] = "free"
<1>0. color \in [Obj -> Colors] /\ Live \subseteq Obj /\ \A o \in Live : color[o] # "free"
  BY DEF Inv, TypeInv, TypeOK, Live, Allocated
<1>1. \A S : \A o \in Obj : Marked(S)[o] = "free" => color[o] = "free"
  BY DEF Marked, MarkColor
<1>2. \A p, v : ForwardBarrier(p, v) => Kept
  BY <1>0, <1>1 DEF ForwardBarrier, Mark
<1>3. \A t, vs : BackBarrier(t, vs) => Kept
  BY <1>0 DEF BackBarrier
<1>4. \A new : Alloc(new) => Kept
  BY DEF Alloc
<1>5. CASE CollectorStep
  <2>1. CASE SweepString
    BY <1>0, <2>1 DEF SweepString
  <2>2. CASE \E o \in RootList : SweepObject(o)
    <3>1. PICK o \in RootList : SweepObject(o)
      BY <2>2
    <3>2. \A x \in Obj : color'[x] = "free" => color[x] = "free" \/
             (IsDead(x) /\ (x = o \/ x \in UpVals))
      BY <3>1 DEF SweepObject, OpenUpvals
    <3>3. \A x \in UpVals \cup {o} : x \notin Fixed
      BY ConstantsAssumption, DisjointKinds DEF RootList
    <3> QED BY <1>0, <3>2, <3>3 DEF Live
  <2>3. CASE StartCycle \/ FullGCMark
    <3>1. \A m : MarkRoots(m) => Kept
      BY <1>1 DEF MarkRoots
    <3> QED BY <1>0, <2>3, <3>1 DEF StartCycle, FullGCMark
  <2>4. CASE \E o \in Grayable : PropagateMark(o)
    BY <1>0, <1>1, <2>4 DEF PropagateMark, Marked
  <2>5. CASE RemarkUpvals \/ RemarkWeak \/ RemarkGrayAgain
    BY <1>0, <1>1, <2>5 DEF RemarkUpvals, RemarkWeak, RemarkGrayAgain, Mark
  <2>6. CASE SeparateUdata
    BY <1>0, <2>6 DEF SeparateUdata
  <2>7. CASE ClearAndFlip
    BY <1>0, <2>7 DEF ClearAndFlip, Flipped
  <2>8. CASE (\E u \in Userdata, s \in Slots : GCTM(u, s)) \/ EndCycle
    BY <1>0, <2>8 DEF GCTM, EndCycle
  <2> QED BY <1>5, <2>1, <2>2, <2>3, <2>4, <2>5, <2>6, <2>7, <2>8 DEF CollectorStep
<1>6. CASE MutatorStep
  <2>1. CASE \E level \in Slots : CloseUpvals(level)
    <3>1. PICK level \in Slots : CloseUpvals(level)
      BY <2>1
    <3>2. \A x \in Obj : color'[x] = "free" => color[x] = "free" \/ (IsDead(x) /\ x \in UpVals)
      BY <1>1, <3>1 DEF CloseUpvals, OpenUpvals, ClosedColor
    <3>3. UpVals \cap Fixed = {}
      BY ConstantsAssumption, DisjointKinds
    <3> QED BY <1>0, <3>2, <3>3 DEF Live
  <2>2. CASE \E s \in Slots :
             \/ \E t \in Tables : NewTable(t, s)
             \/ \E u \in Userdata : NewUserdata(u, s)
             \/ \E th \in Threads : NewThread(th, s)
             \/ \E c \in CClosures : PushCClosure(c, s)
             \/ \E p \in Protos : NewProto(p, s)
             \/ \E c \in LClosures, p \in Protos : ParserClosure(c, p, s)
    <3>1. Kept
      BY <1>4, <2>2 DEF NewTable, NewUserdata, NewThread, PushCClosure, NewProto, ParserClosure
    <3> QED BY <1>0, <3>1
  <2>3. CASE \E s \in Slots, x \in Strings : NewString(x, s)
    BY <1>0, <2>3 DEF NewString
  <2>4. CASE \E s \in Slots, c \in LClosures, cl \in InHand \cap LClosures, p \in Protos,
                l \in Slots \cup {Nil} : OpClosure(c, cl, p, l, s)
    BY <1>0, <2>4 DEF OpClosure
  <2>5. CASE \/ \E s \in Slots, th \in Threads, v \in (Readable \cap Held) \cup {Nil} : Store(th, s, v)
             \/ \E mt \in Tables \cup {Nil} : SetBaseMetatable(mt)
             \/ \E th \in Threads : Resume(th)
             \/ Yield
    BY <1>0, <2>5 DEF Store, SetBaseMetatable, Resume, Yield
  <2>6. CASE \/ \E t \in InHand \cap Written, k \in Keys, v \in Values \cup {Nil} : TableSet(t, k, v)
             \/ \E t \in InHand \cap Written, mt \in Tables \cup {Nil} : SetTableMetatable(t, mt)
    <3>1. Kept
      BY <1>3, <2>6 DEF TableSet, SetTableMetatable
    <3> QED BY <1>0, <3>1
  <2>7. CASE \/ \E p \in InHand \cap Protos, x \in Strings \cup Protos : AddConstant(p, x)
             \/ \E u \in InHand \cap Userdata, mt \in Tables \cup {Nil} : SetUdataMetatable(u, mt)
             \/ \E o \in InHand, e \in Tables : SetFenv(o, e)
             \/ \E c \in InHand \cap LClosures, u \in UpVals, v \in Values \cup {Nil} :
                  OpSetUpval(c, u, v)
             \/ \E c \in InHand \cap CClosures, v \in Values : SetCUpvalue(c, v)
    <3>1. Kept
      BY <1>2, <2>7 DEF AddConstant, SetUdataMetatable, SetFenv, OpSetUpval, SetCUpvalue
    <3> QED BY <1>0, <3>1
  <2> QED BY <1>6, <2>1, <2>2, <2>3, <2>4, <2>5, <2>6, <2>7 DEF MutatorStep
<1>7. CASE FullGC
  <2>1. \A m : MarkRoots(m) => Kept
    BY <1>1 DEF MarkRoots
  <2> QED BY <1>0, <1>7, <2>1 DEF FullGC
<1> QED BY <1>5, <1>6, <1>7 DEF Next

\* What programs can get at is live: the live objects are closed under references.
LEMMA AccessibleLive == Inv => Accessible \subseteq Live
<1> SUFFICES ASSUME Inv, NEW o \in Accessible PROVE o \in Live
  OBVIOUS
<1>1. Live \in SUBSET Allocated
  BY DEF Live
<1>2. Roots \subseteq Live /\ \A x \in Live : Refs(x) \subseteq Live
  BY DEF Inv, NoDangling
<1> QED BY <1>1, <1>2 DEF Accessible

\* No reference leads out of the live heap, whatever program and collector do and
\* however their steps fall: each write of lvm.c and lapi.c has the barrier that
\* its object needs, atomic() marks what the barriers put aside, and the sweep
\* frees nothing that the flip left marked.
THEOREM NothingDangles == Spec => []NoDangling
<1>1. Inv => NoDangling
  BY DEF Inv
<1> QED BY <1>1, InvAlways, PTL

\* While it marks, no black object refers to a white one: luaC_barrierf and
\* luaC_barrierback between them cover every store.
THEOREM BarriersSuffice == Spec => []TriColor
<1>1. Inv => TriColor
  BY DEF Inv
<1> QED BY <1>1, InvAlways, PTL

\* The lists gray, grayagain and weak share the objects' single gclist field and
\* hold just the gray objects; every stage of atomic() finds what the stages
\* before it established.
THEOREM ListsHoldTheGray == Spec => []GrayLists
<1>1. Inv => GrayLists
  BY DEF Inv, Bookkeeping, GrayLists
<1> QED BY <1>1, InvAlways, PTL

\* Whatever is not of the current white is still ahead of the sweep; open upvalues,
\* which are in no root list, are so with the thread that they point into.
THEOREM SweepMissesNothing == Spec => []SweptWithThreads
<1>1. Inv => SweptWithThreads
  BY DEF Inv, Bookkeeping, SweptWithThreads
<1> QED BY <1>1, InvAlways, PTL

\* The collector frees nothing that a program can still get at: what sweeplist,
\* luaE_freethread and luaF_close free is in no chain of references from a root.
THEOREM OnlyGarbageIsFreed == Spec => FreesGarbageOnly
<1>1. Inv /\ [Next]_vars =>
        [\A o \in Obj : color[o] # "free" /\ color'[o] = "free" => o \notin Accessible]_vars
  BY LiveStays, AccessibleLive
<1> QED BY <1>1, InvAlways, PTL DEF Spec, FreesGarbageOnly

---------------------------------------------------------------------------
(* Finalizers *)

\* Steps of the program leave the lists and the stages of the collector alone.
LEMMA ProgramLeavesLists == MutatorStep => MutatorRuns /\ UNCHANGED <<lists>>
<1> SUFFICES ASSUME MutatorStep PROVE MutatorRuns /\ UNCHANGED <<lists>>
  OBVIOUS
<1>1. CASE \E s \in Slots :
             \/ \E t \in Tables : NewTable(t, s)
             \/ \E x \in Strings : NewString(x, s)
             \/ \E u \in Userdata : NewUserdata(u, s)
             \/ \E th \in Threads : NewThread(th, s)
             \/ \E c \in CClosures : PushCClosure(c, s)
             \/ \E p \in Protos : NewProto(p, s)
             \/ \E c \in LClosures, p \in Protos : ParserClosure(c, p, s)
             \/ \E c \in LClosures, cl \in InHand \cap LClosures, p \in Protos,
                   l \in Slots \cup {Nil} : OpClosure(c, cl, p, l, s)
             \/ \E th \in Threads, v \in (Readable \cap Held) \cup {Nil} : Store(th, s, v)
  <2>1. \A s, o : NewTable(o, s) => MutatorRuns /\ UNCHANGED <<lists>>
    BY DEF NewTable
  <2>2. \A s, o : NewString(o, s) => MutatorRuns /\ UNCHANGED <<lists>>
    BY DEF NewString
  <2>3. \A s, o : NewUserdata(o, s) \/ NewThread(o, s) => MutatorRuns /\ UNCHANGED <<lists>>
    BY DEF NewUserdata, NewThread
  <2>4. \A s, o : PushCClosure(o, s) \/ NewProto(o, s) => MutatorRuns /\ UNCHANGED <<lists>>
    BY DEF PushCClosure, NewProto
  <2>5. \A s, o, p : ParserClosure(o, p, s) => MutatorRuns /\ UNCHANGED <<lists>>
    BY DEF ParserClosure
  <2>6. \A s, o, p, q, l : OpClosure(o, q, p, l, s) => MutatorRuns /\ UNCHANGED <<lists>>
    BY DEF OpClosure
  <2>7. \A s, th, v : Store(th, s, v) => MutatorRuns /\ UNCHANGED <<lists>>
    BY DEF Store
  <2> QED BY <1>1, <2>1, <2>2, <2>3, <2>4, <2>5, <2>6, <2>7
<1>2. CASE \/ \E p \in InHand \cap Protos, x \in Strings \cup Protos : AddConstant(p, x)
           \/ \E t \in InHand \cap Written, k \in Keys, v \in Values \cup {Nil} : TableSet(t, k, v)
           \/ \E t \in InHand \cap Written, mt \in Tables \cup {Nil} : SetTableMetatable(t, mt)
           \/ \E u \in InHand \cap Userdata, mt \in Tables \cup {Nil} : SetUdataMetatable(u, mt)
           \/ \E mt \in Tables \cup {Nil} : SetBaseMetatable(mt)
           \/ \E o \in InHand, e \in Tables : SetFenv(o, e)
  BY <1>2 DEF AddConstant, TableSet, SetTableMetatable, SetUdataMetatable, SetBaseMetatable, SetFenv
<1>3. CASE \/ \E c \in InHand \cap LClosures, u \in UpVals, v \in Values \cup {Nil} :
                OpSetUpval(c, u, v)
           \/ \E c \in InHand \cap CClosures, v \in Values : SetCUpvalue(c, v)
           \/ \E level \in Slots : CloseUpvals(level)
           \/ \E th \in Threads : Resume(th)
           \/ Yield
  BY <1>3 DEF OpSetUpval, SetCUpvalue, CloseUpvals, Resume, Yield
<1> QED BY <1>1, <1>2, <1>3 DEF MutatorStep

\* Of what is or will be dead, every userdata was separated by atomic().
DeadFinalized ==
  \A u \in Userdata : IsDead(u) \/ (atomic = 4 /\ u \in White) => u \in finalized

LEMMA DeadFinalizedNext ==
  ASSUME Inv, Inv', DeadFinalized, Next
  PROVE  DeadFinalized'
<1>0. color \in [Obj -> Colors] /\ Userdata \subseteq Obj /\ Userdata \cap Strings = {}
  BY DisjointKinds DEF Inv, TypeInv, TypeOK, Obj
<1>1. \A S : \A o \in Obj : Marked(S)[o] \in Whites => Marked(S)[o] = color[o]
  BY DEF Marked, MarkColor, Whites
\* No white but the current one appears.
<1>2. ASSUME UNCHANGED finalized, atomic' = 4 => atomic = 4,
             \A u \in Userdata : color'[u] \in Whites =>
               color'[u] = color[u] \/ (color'[u] = "currentwhite" /\ atomic' # 4)
      PROVE  DeadFinalized'
  BY <1>0, <1>2 DEF DeadFinalized, IsDead, White, Whites
<1>3. CASE CollectorStep
  <2>1. CASE StartCycle \/ FullGCMark
    <3>1. \A m : MarkRoots(m) => DeadFinalized'
      BY <1>0, <1>1, <1>2 DEF MarkRoots
    <3> QED BY <2>1, <3>1 DEF StartCycle, FullGCMark
  <2>2. CASE \E o \in Grayable : PropagateMark(o)
    <3>1. PICK o \in Grayable : PropagateMark(o)
      BY <2>2
    <3>2. \A u \in Userdata : color'[u] \in Whites => color'[u] = color[u]
      BY <1>0, <1>1, <3>1 DEF PropagateMark, Marked, Whites
    <3> QED BY <1>2, <3>1, <3>2 DEF PropagateMark
  <2>3. CASE RemarkUpvals \/ RemarkWeak \/ RemarkGrayAgain
    <3>1. \A u \in Userdata : color'[u] \in Whites => color'[u] = color[u]
      BY <1>0, <1>1, <2>3 DEF RemarkUpvals, RemarkWeak, RemarkGrayAgain, Mark
    <3>2. UNCHANGED finalized /\ (atomic' = 4 => atomic = 4)
      BY <2>3 DEF RemarkUpvals, RemarkWeak, RemarkGrayAgain
    <3> QED BY <1>2, <3>1, <3>2
  <2>4. CASE SeparateUdata
    <3>1. \A u \in Userdata : color'[u] \in Whites => color'[u] = color[u]
      BY <1>0, <2>4 DEF SeparateUdata, Whites
    <3>2. finalized' = finalized \cup DeadUdata
      BY <2>4 DEF SeparateUdata
    <3> QED BY <1>0, <3>1, <3>2 DEF DeadFinalized, DeadUdata, White, IsDead, Whites
  <2>5. CASE ClearAndFlip
    <3>1. atomic = 4 /\ atomic' = 0 /\ UNCHANGED finalized
      BY <2>5 DEF ClearAndFlip, AtomicStage
    <3>2. \A u \in Userdata : color'[u] \in Whites => color[u] \in Whites
      BY <1>0, <2>5 DEF ClearAndFlip, Flipped, Whites
    <3> QED BY <1>0, <3>1, <3>2 DEF DeadFinalized, White, IsDead, Whites
  <2>6. CASE SweepString
    <3>1. \A u \in Userdata : color'[u] = color[u]
      BY <1>0, <2>6 DEF SweepString
    <3> QED BY <1>2, <2>6, <3>1 DEF SweepString
  <2>7. CASE \E o \in RootList : SweepObject(o)
    <3>1. PICK o \in RootList : SweepObject(o)
      BY <2>7
    <3>2. atomic' = 0
      BY <3>1 DEF SweepObject, Inv, Bookkeeping, AtomicStages
    <3>3. \A u \in Userdata : color'[u] = "otherwhite" => color[u] = "otherwhite"
      BY <1>0, <3>1 DEF SweepObject
    <3>4. \A u \in Userdata : u \in finalized => u \in finalized' \/ color'[u] = "free"
      BY <1>0, <3>1 DEF SweepObject, Free
    <3> QED BY <1>0, <3>2, <3>3, <3>4 DEF DeadFinalized, White, IsDead, Whites
  <2>8. CASE (\E u \in Userdata, s \in Slots : GCTM(u, s)) \/ EndCycle
    <3>1. atomic' = 0 /\ UNCHANGED finalized
      BY <2>8 DEF GCTM, EndCycle, Inv, Bookkeeping, AtomicStages
    <3>2. \A u \in Userdata : color'[u] = "otherwhite" => color[u] = "otherwhite"
      BY <1>0, <2>8 DEF GCTM, EndCycle
    <3> QED BY <1>0, <3>1, <3>2 DEF DeadFinalized, White, IsDead, Whites
  <2> QED BY <1>3, <2>1, <2>2, <2>3, <2>4, <2>5, <2>6, <2>7, <2>8 DEF CollectorStep
\* Steps of the program leave atomic and finalized alone and make nothing dead.
<1>4. ASSUME MutatorRuns, UNCHANGED <<lists>>,
             \A o \in Userdata : color'[o] = "otherwhite" => color[o] = "otherwhite"
      PROVE  DeadFinalized'
  BY <1>0, <1>4 DEF DeadFinalized, White, IsDead, Whites, lists, MutatorRuns
<1> DEFINE NoneDies == \A o \in Obj : color'[o] = "otherwhite" => color[o] = "otherwhite"
<1>5. CASE MutatorStep
  <2>1. \A p, v : ForwardBarrier(p, v) => NoneDies
    BY <1>0, <1>1 DEF ForwardBarrier, Mark, Whites
  <2>2. \A t, vs : BackBarrier(t, vs) => NoneDies
    BY <1>0 DEF BackBarrier
  <2>3. \A new : Alloc(new) => NoneDies
    BY DEF Alloc
  <2>4. MutatorRuns /\ UNCHANGED <<lists>>
    BY <1>5, ProgramLeavesLists
  <2>5. CASE \E level \in Slots : CloseUpvals(level)
    <3>1. NoneDies
      BY <1>0, <1>1, <2>5 DEF CloseUpvals, ClosedColor, Whites
    <3> QED BY <1>0, <1>4, <2>4, <3>1
  <2>6. CASE \E s \in Slots :
             \/ \E t \in Tables : NewTable(t, s)
             \/ \E u \in Userdata : NewUserdata(u, s)
             \/ \E th \in Threads : NewThread(th, s)
             \/ \E c \in CClosures : PushCClosure(c, s)
             \/ \E p \in Protos : NewProto(p, s)
             \/ \E c \in LClosures, p \in Protos : ParserClosure(c, p, s)
    <3>1. NoneDies
      BY <2>3, <2>6 DEF NewTable, NewUserdata, NewThread, PushCClosure, NewProto, ParserClosure
    <3> QED BY <1>0, <1>4, <2>4, <3>1
  <2>7. CASE \E s \in Slots, x \in Strings : NewString(x, s)
    <3>1. NoneDies
      BY <1>0, <2>7 DEF NewString
    <3> QED BY <1>0, <1>4, <2>4, <3>1
  <2>8. CASE \E s \in Slots, c \in LClosures, cl \in InHand \cap LClosures, p \in Protos,
                l \in Slots \cup {Nil} : OpClosure(c, cl, p, l, s)
    <3>1. NoneDies
      BY <1>0, <2>8 DEF OpClosure
    <3> QED BY <1>0, <1>4, <2>4, <3>1
  <2>9. CASE \/ \E s \in Slots, th \in Threads, v \in (Readable \cap Held) \cup {Nil} : Store(th, s, v)
             \/ \E mt \in Tables \cup {Nil} : SetBaseMetatable(mt)
             \/ \E th \in Threads : Resume(th)
             \/ Yield
    <3>1. NoneDies
      BY <2>9 DEF Store, SetBaseMetatable, Resume, Yield
    <3> QED BY <1>0, <1>4, <2>4, <3>1
  <2>10. CASE \/ \E t \in InHand \cap Written, k \in Keys, v \in Values \cup {Nil} : TableSet(t, k, v)
              \/ \E t \in InHand \cap Written, mt \in Tables \cup {Nil} : SetTableMetatable(t, mt)
    <3>1. NoneDies
      BY <2>2, <2>10 DEF TableSet, SetTableMetatable
    <3> QED BY <1>0, <1>4, <2>4, <3>1
  <2>11. CASE \/ \E p \in InHand \cap Protos, x \in Strings \cup Protos : AddConstant(p, x)
              \/ \E u \in InHand \cap Userdata, mt \in Tables \cup {Nil} : SetUdataMetatable(u, mt)
              \/ \E o \in InHand, e \in Tables : SetFenv(o, e)
              \/ \E c \in InHand \cap LClosures, u \in UpVals, v \in Values \cup {Nil} :
                   OpSetUpval(c, u, v)
              \/ \E c \in InHand \cap CClosures, v \in Values : SetCUpvalue(c, v)
    <3>1. NoneDies
      BY <2>1, <2>11 DEF AddConstant, SetUdataMetatable, SetFenv, OpSetUpval, SetCUpvalue
    <3> QED BY <1>0, <1>4, <2>4, <3>1
  <2> QED BY <1>5, <2>5, <2>6, <2>7, <2>8, <2>9, <2>10, <2>11 DEF MutatorStep
<1>6. CASE FullGC
  <2>1. \A m : MarkRoots(m) => DeadFinalized'
    BY <1>0, <1>1, <1>2 DEF MarkRoots
  <2>2. UNCHANGED <<color, atomic, finalized>> => DeadFinalized'
    BY <1>2
  <2> QED BY <1>6, <2>1, <2>2 DEF FullGC
<1> QED BY <1>3, <1>5, <1>6 DEF Next

\* A userdata is freed only after atomic() separated it and its turn in tmudata,
\* where its finalizer is called, has come; that is so however it was resurrected,
\* by programs or by the finalizers of others.
THEOREM FinalizersFirst == Spec => FinalizedBeforeFreed
<1>1. Init => DeadFinalized
  <2>1. Userdata \subseteq Obj
    BY DEF Obj
  <2> QED BY <2>1 DEF Init, DeadFinalized, IsDead
<1>2. Inv /\ Inv' /\ DeadFinalized /\ [Next]_vars => DeadFinalized'
  <2>1. DeadFinalized /\ UNCHANGED vars => DeadFinalized'
    BY DEF DeadFinalized, vars, collector, IsDead, White
  <2> QED BY <2>1, DeadFinalizedNext
<1>3. Inv /\ DeadFinalized /\ [Next]_vars =>
        [\A u \in Userdata : color[u] # "free" /\ color'[u] = "free" =>
           \/ u \in finalized \ tmudata
           \/ metatable[u] \notin FinalizerMt]_vars
  <2> SUFFICES ASSUME Inv, DeadFinalized, Next, NEW u \in Userdata, color[u] # "free",
                      color'[u] = "free"
               PROVE  u \in finalized \ tmudata
    OBVIOUS
  <2>0. u \in Obj /\ Live \subseteq Obj /\ u \notin Fixed
    BY ConstantsAssumption, DisjointKinds DEF Obj, Live, Allocated
  <2>1. u \notin Live
    BY LiveStays
  <2>2. IsDead(u)
    BY <2>0, <2>1 DEF Live, Allocated
  <2>3. u \in finalized
    BY <2>2 DEF DeadFinalized
  <2>4. u \notin tmudata
    <3> SUFFICES ASSUME u \in tmudata PROVE FALSE
      OBVIOUS
    <3>1. SweepBookkeeping
      BY DEF Inv, Bookkeeping
    <3>2. gcstate # "propagate" /\ u \in Allocated
      BY <2>0, <2>2, <3>1 DEF SweepBookkeeping, Allocated
    <3>3. u \notin UpVals /\ u \notin Strings
      BY DisjointKinds
    <3> QED BY <2>2, <3>1, <3>2, <3>3 DEF SweepBookkeeping, IsDead
  <2> QED BY <2>3, <2>4
<1> QED BY <1>1, <1>2, <1>3, InvAlways, PTL DEF Spec, FinalizedBeforeFreed

\* Userdata that wait for their finalizer are marked so (FINALIZEDBIT), and no
\* weak value of a black table is one of them.  A black table is weak only when the
\* program gave it its metatable after its traversal; the marking of luaC_fullgc,
\* which may begin with userdata still pending, runs without the program.
PendingFinalized ==
  /\ tmudata \subseteq finalized
  /\ gcstate = "propagate" /\ fullgc = "mark" =>
       \A t \in Tables : color[t] = "black" => ~IsWeak(t)
  /\ atomic = 4 => \A t \in Tables, k \in Keys :
       color[t] = "black" /\ WeakValues(t) => content[t][k] \notin tmudata

LEMMA PendingFinalizedNext ==
  ASSUME Inv, Inv', PendingFinalized, Next
  PROVE  PendingFinalized'
<1>0. /\ color \in [Obj -> Colors] /\ Tables \subseteq Obj /\ Userdata \subseteq Obj
      /\ Tables \cap Userdata = {} /\ Tables \cap UpVals = {} /\ Tables \cap Strings = {}
      /\ Tables \cap Threads = {} /\ tmudata \subseteq Userdata /\ Absent \notin Obj /\ Nil \notin Obj
  BY ConstantsAssumption, DisjointKinds DEF Inv, TypeInv, TypeOK, Obj, Val
<1>1. atomic # 0 => gcstate = "propagate"
  BY DEF Inv, Bookkeeping, AtomicStages
\* Marking leaves no table black.
<1>2. \A S : \A t \in Tables : Marked(S)[t] = "black" => color[t] = "black"
  BY <1>0 DEF Marked, MarkColor
<1>3. ASSUME UNCHANGED <<tmudata, finalized>>, atomic' # 4,
             gcstate' # "propagate" \/ fullgc' # "mark"
      PROVE  PendingFinalized'
  BY <1>3 DEF PendingFinalized
<1>4. ASSUME gcstate = "finalize", MarkRoots("mark") PROVE PendingFinalized'
  <2>1. /\ UNCHANGED <<tmudata, finalized, atomic>> /\ atomic = 0
        /\ \E S : color' = Marked(S)
    BY <1>1, <1>4 DEF MarkRoots
  <2>2. \A t \in Tables : color[t] # "black"
    <3> SUFFICES ASSUME NEW t \in Tables, color[t] = "black" PROVE FALSE
      OBVIOUS
    <3>1. SweepBookkeeping /\ t \in Allocated
      BY <1>0 DEF Inv, Bookkeeping, Allocated
    <3> QED BY <1>0, <1>4, <3>1 DEF SweepBookkeeping
  <2>3. \A t \in Tables : color'[t] # "black"
    BY <1>2, <2>1, <2>2
  <2> QED BY <2>1, <2>3 DEF PendingFinalized
<1>5. CASE CollectorStep
  <2>1. CASE StartCycle
    BY <1>1, <1>3, <2>1 DEF StartCycle, MarkRoots
  <2>2. CASE FullGCMark
    BY <1>4, <2>2 DEF FullGCMark
  <2>3. CASE \E o \in Grayable : PropagateMark(o)
    <3>1. PICK o \in Grayable : PropagateMark(o)
      BY <2>3
    <3>2. /\ UNCHANGED <<tmudata, finalized, atomic, fullgc, gcstate, metatable>>
          /\ color' = [Marked(StrongRefs(o)) EXCEPT
                         ![o] = IF IsWeak(o) \/ o \in Threads THEN "gray" ELSE "black"]
          /\ content' = IF o \in Tables /\ ~(WeakKeys(o) /\ WeakValues(o))
                        THEN [content EXCEPT ![o] = [k \in Keys |->
                                IF k \in Obj /\ @[k] = Nil THEN Absent ELSE @[k]]]
                        ELSE content
      BY <3>1 DEF PropagateMark
    <3>3. /\ \A t : IsWeak(t)' = IsWeak(t) /\ WeakValues(t)' = WeakValues(t)
          /\ \A t \in Tables : WeakValues(t) => IsWeak(t)
      BY <3>2 DEF IsWeak, WeakKeys, WeakValues
    <3>4. \A t \in Tables : color'[t] = "black" => color[t] = "black" \/ (t = o /\ ~IsWeak(o))
      BY <1>0, <1>2, <3>2 DEF Marked
    <3>5. \A t \in Tables, k \in Keys : content'[t][k] = content[t][k] \/ content'[t][k] = Absent
      <4>1. content \in [Tables -> [Keys -> Val \cup {Nil, Absent}]]
        BY DEF Inv, TypeInv, TypeOK
      <4> QED BY <3>2, <4>1
    <3> QED BY <1>0, <3>2, <3>3, <3>4, <3>5 DEF PendingFinalized
  <2>4. CASE RemarkUpvals \/ RemarkWeak \/ RemarkGrayAgain
    <3>1. \A t \in Tables : color'[t] = "black" => color[t] = "black"
      BY <1>2, <2>4 DEF RemarkUpvals, RemarkWeak, RemarkGrayAgain, Mark
    <3>2. /\ UNCHANGED <<tmudata, finalized, fullgc, gcstate, metatable>> /\ atomic' # 4
      BY <2>4 DEF RemarkUpvals, RemarkWeak, RemarkGrayAgain, heap
    <3>3. \A t : IsWeak(t)' = IsWeak(t)
      BY <3>2 DEF IsWeak, WeakKeys, WeakValues
    <3> QED BY <3>1, <3>2, <3>3 DEF PendingFinalized
  <2>5. CASE SeparateUdata
    <3> DEFINE new == {u \in DeadUdata : metatable[u] \in FinalizerMt}
    <3>1. /\ UNCHANGED <<fullgc, gcstate, metatable, content>>
          /\ tmudata' = tmudata \cup new /\ finalized' = finalized \cup DeadUdata
          /\ gcstate = "propagate" /\ atomic = 3
      BY <2>5 DEF SeparateUdata, AtomicStage, heap
    <3>2. \A t \in Tables : color'[t] = "black" => color[t] = "black"
      <4>1. new \subseteq Userdata
        BY DEF DeadUdata
      <4>2. color' = [x \in Obj |-> IF x \in tmudata \cup new THEN "black"
                      ELSE IF x \in (TmuRefs(tmudata \cup new) \cap White) \ (tmudata \cup new)
                      THEN "gray" ELSE color[x]]
        BY <2>5 DEF SeparateUdata
      <4> HIDE DEF new
      <4> QED BY <1>0, <4>1, <4>2
    <3>3. \A t : IsWeak(t)' = IsWeak(t) /\ WeakValues(t)' = WeakValues(t)
      BY <3>1 DEF IsWeak, WeakKeys, WeakValues
    <3>4. tmudata' \subseteq finalized'
      BY <3>1 DEF PendingFinalized
    <3>5. ASSUME NEW t \in Tables, NEW k \in Keys, color[t] = "black", WeakValues(t)
          PROVE  content[t][k] \notin tmudata \cup new
      <4>1. content[t][k] \notin tmudata
        <5>1. fullgc # "mark"
          BY <3>1, <3>5 DEF PendingFinalized, IsWeak
        <5>2. AtomicStages
          BY DEF Inv, Bookkeeping
        <5>3. tmudata = {}
          BY <3>1, <5>1, <5>2 DEF AtomicStages
        <5> QED BY <5>3
      <4>2. ASSUME content[t][k] \in new PROVE FALSE
        <5>1. content[t][k] \in White /\ content[t][k] \in Obj
          BY <4>2 DEF DeadUdata, White
        <5>2. HasValue(t, k)
          BY <1>0, <5>1 DEF HasValue
        <5>3. content[t][k] \in Refs(t)
          BY <5>1, <5>2, <3>5, RefsMeaning DEF RefTo, EntryRef
        <5>4. TriColor /\ t \notin tmudata
          BY <1>0, <3>5 DEF Inv
        <5> QED BY <1>0, <3>1, <3>5, <5>1, <5>3, <5>4 DEF TriColor
      <4> QED BY <4>1, <4>2
    <3> HIDE DEF new
    <3> QED BY <3>1, <3>2, <3>3, <3>4, <3>5 DEF PendingFinalized
  <2>6. CASE ClearAndFlip
    BY <1>3, <2>6 DEF ClearAndFlip
  <2>7. CASE SweepString
    <3>1. UNCHANGED <<tmudata, finalized>> /\ gcstate' # "propagate" /\ atomic' # 4
      BY <1>1, <2>7 DEF SweepString
    <3> QED BY <1>3, <3>1
  <2>8. CASE \E o \in RootList : SweepObject(o)
    <3>1. PICK o \in RootList : SweepObject(o)
      BY <2>8
    <3>2. /\ UNCHANGED tmudata /\ gcstate = "sweep" /\ gcstate' # "propagate" /\ atomic' # 4
          /\ \E freed : finalized' = finalized \ freed /\ \A x \in freed : IsDead(x)
      BY <1>1, <3>1 DEF SweepObject, Free
    <3>3. \A u \in tmudata : ~IsDead(u)
      <4> SUFFICES ASSUME NEW u \in tmudata, IsDead(u) PROVE FALSE
        OBVIOUS
      <4>1. SweepBookkeeping /\ u \in Allocated /\ u \notin UpVals /\ u \notin Strings
        BY <1>0, DisjointKinds DEF Inv, Bookkeeping, Allocated, IsDead
      <4> QED BY <3>2, <4>1 DEF SweepBookkeeping, IsDead
    <3> QED BY <3>2, <3>3 DEF PendingFinalized
  <2>9. CASE \E u \in Userdata, s \in Slots : GCTM(u, s)
    <3>1. /\ tmudata' \subseteq tmudata /\ UNCHANGED finalized
          /\ gcstate' # "propagate" /\ atomic' # 4
      BY <1>1, <2>9 DEF GCTM
    <3> QED BY <3>1 DEF PendingFinalized
  <2>10. CASE EndCycle
    BY <1>1, <1>3, <2>10 DEF EndCycle
  <2> QED BY <1>5, <2>1, <2>2, <2>3, <2>4, <2>5, <2>6, <2>7, <2>8, <2>9, <2>10 DEF CollectorStep
<1>6. CASE MutatorStep
  <2>1. MutatorRuns /\ UNCHANGED <<lists>>
    BY <1>6, ProgramLeavesLists
  <2> QED BY <1>3, <2>1 DEF MutatorRuns, lists
<1>7. CASE FullGC
  <2>1. CASE gcstate = "finalize" /\ MarkRoots("mark")
    BY <1>4, <2>1
  <2>2. CASE /\ MutatorRuns /\ gcstate # "finalize" /\ fullgc' = "sweep"
             /\ UNCHANGED <<atomic, tmudata, finalized>>
    BY <1>3, <2>2 DEF MutatorRuns
  <2> QED BY <1>7, <2>1, <2>2 DEF FullGC
<1> QED BY <1>5, <1>6, <1>7 DEF Next

\* The step from marking to sweeping is the end of atomic(), unless luaC_fullgc
\* abandons the marking.
LEMMA OnlyAtomicFlips ==
  ASSUME Inv, Next, gcstate = "propagate", gcstate' = "sweepstring", fullgc' # "sweep"
  PROVE  ClearAndFlip
<1>1. CASE CollectorStep
  BY <1>1 DEF CollectorStep, StartCycle, PropagateMark, RemarkUpvals, RemarkWeak, RemarkGrayAgain,
    SeparateUdata, SweepString, SweepObject, GCTM, EndCycle, FullGCMark
<1>2. ~MutatorStep
  <2> SUFFICES ASSUME MutatorStep PROVE FALSE
    OBVIOUS
  <2>1. UNCHANGED <<lists>>
    BY ProgramLeavesLists
  <2> QED BY <2>1 DEF lists
<1>3. ~FullGC
  BY DEF FullGC, MarkRoots
<1> QED BY <1>1, <1>2, <1>3 DEF Next

\* What cleartable leaves in the tables that survive, of the userdata that wait for
\* their finalizer: nothing among weak values, and all the pairs they are keys of
\* (but those whose value goes).
LEMMA ClearedAroundFinalizers ==
  ASSUME Inv, PendingFinalized, ClearAndFlip, NEW t \in Live' \cap Tables, NEW k \in Keys
  PROVE  /\ WeakValues(t) => content'[t][k] \notin tmudata'
         /\ k \in tmudata' /\ HasValue(t, k) /\ content[t][k] \in Live' \ finalized
              => content'[t][k] = content[t][k]
<1>0. /\ color \in [Obj -> Colors] /\ Tables \subseteq Obj /\ Tables \subseteq Grayable
      /\ Tables \cap Strings = {} /\ Tables \cap Threads = {} /\ Tables \cap Userdata = {}
      /\ tmudata \subseteq Userdata /\ Userdata \subseteq Obj /\ Userdata \cap Indices = {}
      /\ Absent \notin Obj /\ Nil \notin Obj /\ Fixed \subseteq Strings /\ Obj \cap Indices = {}
  BY ConstantsAssumption, DisjointKinds DEF Inv, TypeInv, TypeOK, Obj, Val, Grayable
<1>1. /\ gcstate = "propagate" /\ atomic = 4 /\ gray = {} /\ tmudata' = tmudata
      /\ content' = [x \in Tables |->
           IF x \in weak
           THEN [y \in Keys |-> IF ClearedEntry(x, y) THEN EmptyTable[y] ELSE content[x][y]]
           ELSE content[x]]
      /\ color' = [o \in Obj |->
           IF o \in MarkedByClear \cap White THEN "gray" ELSE Flipped(color[o])]
  BY DEF ClearAndFlip, AtomicStage
<1>2. EmptyTable[k] \in {Nil, Absent}
  BY DEF EmptyTable
\* What lives after the flip was marked, or is a string.
<1>3. ASSUME NEW o \in Live' PROVE o \in Obj /\ (o \in White => o \in Strings)
  <2>1. o \in Obj /\ color'[o] # "free" /\ (color'[o] = "otherwhite" => o \in Fixed)
    BY <1>3 DEF Live, Allocated, IsDead
  <2>2. color[o] # "otherwhite"
    BY <1>1, <2>1 DEF Inv, Bookkeeping, SweepBookkeeping, IsDead
  <2>3. MarkedByClear \subseteq Strings
    BY DEF MarkedByClear
  <2> QED BY <1>0, <1>1, <2>1, <2>2, <2>3 DEF White, Whites, Flipped
<1>4. WeakValues(t) => content'[t][k] \notin tmudata'
  <2> SUFFICES ASSUME WeakValues(t), content'[t][k] \in tmudata PROVE FALSE
    BY <1>1
  <2>1. content'[t][k] \in Obj
    BY <1>0
  <2>2. content'[t][k] = content[t][k] /\ (t \in weak => ~ClearedEntry(t, k))
    BY <1>0, <1>1, <1>2, <2>1
  <2>3. CASE t \in weak
    <3>1. HasValue(t, k)
      BY <1>0, <2>1, <2>2 DEF HasValue
    <3>2. ClearedValue(content[t][k])
      BY <2>2 DEF PendingFinalized, ClearedValue
    <3> QED BY <2>2, <2>3, <3>1, <3>2 DEF ClearedEntry
  <2>4. CASE t \notin weak
    <3>1. ListDiscipline /\ AtomicStages
      BY DEF Inv, Bookkeeping
    <3>2. grayagain \subseteq Threads
      BY <1>1, <3>1 DEF AtomicStages
    <3>3. color[t] # "gray"
      BY <1>0, <1>1, <2>4, <3>1, <3>2 DEF ListDiscipline
    <3>4. t \in Obj /\ t \notin White
      BY <1>0, <1>3
    <3>5. color[t] # "free"
      BY <1>0, <1>1, <3>4 DEF Live, Allocated, MarkedByClear, Flipped
    <3>6. color[t] = "black"
      BY <1>0, <3>3, <3>4, <3>5 DEF White, Whites, Colors
    <3> QED BY <1>1, <2>2, <3>6 DEF PendingFinalized
  <2> QED BY <2>3, <2>4
<1>5. ASSUME k \in tmudata, HasValue(t, k), content[t][k] \in Live' \ finalized
      PROVE  content'[t][k] = content[t][k]
  <2>1. color[k] = "black" /\ k \notin Indices
    BY <1>0, <1>1, <1>5 DEF Inv, Bookkeeping, AtomicStages
  <2>2. ~ClearedKey(k)
    BY <2>1 DEF ClearedKey, White, Whites
  <2>3. ~ClearedValue(content[t][k])
    BY <1>3, <1>5 DEF ClearedValue
  <2>4. ~ClearedEntry(t, k)
    BY <2>1, <2>2, <2>3 DEF ClearedEntry
  <2> QED BY <1>1, <2>4
<1> QED BY <1>1, <1>4, <1>5

\* When finalizers are still to run, atomic() removes the userdata they get from
\* the weak values of every surviving table, also from tables that became weak
\* after their traversal, and leaves the pairs that have one as their key.
THEOREM WeakTablesAroundFinalizers == Spec => WeakAroundFinalizers
<1>1. Init => PendingFinalized
  BY DEF Init, PendingFinalized
<1>2. Inv /\ Inv' /\ PendingFinalized /\ [Next]_vars => PendingFinalized'
  <2>1. PendingFinalized /\ UNCHANGED vars => PendingFinalized'
    BY DEF PendingFinalized, vars, collector, heap, IsWeak, WeakKeys, WeakValues
  <2> QED BY <2>1, PendingFinalizedNext
<1>3. Inv /\ PendingFinalized /\ [Next]_vars =>
        [gcstate = "propagate" /\ gcstate' = "sweepstring" /\ fullgc' # "sweep" =>
           \A t \in Live' \cap Tables, k \in Keys :
             WeakValues(t) => content'[t][k] \notin tmudata']_vars
  BY OnlyAtomicFlips, ClearedAroundFinalizers
<1>4. Inv /\ PendingFinalized /\ [Next]_vars =>
        [gcstate = "propagate" /\ gcstate' = "sweepstring" /\ fullgc' # "sweep" =>
           \A t \in Live' \cap Tables, k \in Keys \cap tmudata' :
             HasValue(t, k) /\ content[t][k] \in Live' \ finalized
               => content'[t][k] = content[t][k]]_vars
  BY OnlyAtomicFlips, ClearedAroundFinalizers
<1>5. Spec => WeakValuesBeforeFinalizers
  BY <1>1, <1>2, <1>3, InvAlways, PTL DEF Spec, WeakValuesBeforeFinalizers
<1>6. Spec => WeakKeysUntilFinalizers
  BY <1>1, <1>2, <1>4, InvAlways, PTL DEF Spec, WeakKeysUntilFinalizers
<1> QED BY <1>5, <1>6 DEF WeakAroundFinalizers
=============================================================================
