------------------------------- MODULE LuaGC -------------------------------
(***************************************************************************)
(* The incremental tri-colour mark-and-sweep collector of lgc.c, running   *)
(* against a program (the "mutator") that reads and writes the heap        *)
(* through the VM and the C API.  One action is one singlestep() of the    *)
(* collector, or one heap operation of the program with the write barrier  *)
(* the code gives it; luaC_checkGC lets collector steps fall between any   *)
(* two heap operations, which is the interleaving explored here.           *)
(*                                                                         *)
(* atomic() runs without the program in between.  It is unfolded into the  *)
(* stages of its body (variable atomic), during which no program action is *)
(* enabled; the propagateall() calls are repeated PropagateMark steps.     *)
(*                                                                         *)
(* The lists gray, grayagain, weak and tmudata are sets: the order in      *)
(* which the code links objects is left open.  That an object is never     *)
(* linked twice through its single gclist field is the property            *)
(* ListDiscipline.                                                         *)
(***************************************************************************)
EXTENDS LuaCollector, LuaProgram

(* lua_newstate and f_luaopen *)

Init ==
  /\ color = [o \in Obj |-> IF o \in {MainThread, Globals, Registry} \cup Fixed
                            THEN "currentwhite" ELSE "free"]
  /\ gcstate = "pause" /\ atomic = 0 /\ fullgc = "off"
  /\ gray = {} /\ grayagain = {} /\ weak = {} /\ tmudata = {} /\ finalized = {}
  /\ sweepstrgc = 0 /\ unswept = {}
  /\ content   = [t \in Tables |-> EmptyTable]
  /\ metatable = [o \in Tables \cup Userdata |-> Nil]
  /\ env       = [o \in Closures \cup Userdata \cup Threads |->
                    IF o = MainThread THEN Globals ELSE Nil]
  /\ upvals    = [c \in LClosures |-> {}]
  /\ holds     = [o \in Closures \cup Protos |-> {}]
  /\ openat    = [u \in UpVals |-> Nil]
  /\ closedval = [u \in UpVals |-> Nil]
  /\ stack     = [th \in Threads |-> EmptyStack]
  /\ running = MainThread /\ basemt = Nil

\* collectgarbage() is a step of the program, too.
Next == CollectorStep \/ MutatorStep \/ FullGC

Spec == Init /\ [][Next]_vars

\* Programs that also call lua_setupvalue (debug.setupvalue).  Next leaves it out:
\* with it, NoDangling does not hold.
NextWithSetUpvalue ==
  Next \/ \E c \in InHand \cap LClosures, u \in UpVals, v \in Values \cup {Nil} :
            LuaSetUpvalue(c, u, v)

\* A program that keeps allocating keeps calling luaC_step.
FairSpec == Spec /\ WF_vars(CollectorStep)

---------------------------------------------------------------------------
(* Properties *)

Colors == Whites \cup {"free", "gray", "black"}

\* Every variable has its type.
TypeOK ==
  /\ color \in [Obj -> Colors]
  /\ gcstate \in {"pause", "propagate", "sweepstring", "sweep", "finalize"}
  /\ atomic \in 0..4 /\ fullgc \in {"off", "sweep", "mark"}
  /\ gray \subseteq Grayable /\ grayagain \subseteq Grayable /\ weak \subseteq Tables
  /\ tmudata \subseteq Userdata /\ finalized \subseteq Userdata
  /\ sweepstrgc \in 0..NBuckets /\ unswept \subseteq RootList
  /\ content \in [Tables -> [Keys -> Val \cup {Nil, Absent}]]
  /\ metatable \in [Tables \cup Userdata -> Tables \cup {Nil}]
  /\ env \in [Closures \cup Userdata \cup Threads -> Tables \cup {Nil}]
  /\ upvals \in [LClosures -> SUBSET UpVals]
  /\ holds \in [Closures \cup Protos -> SUBSET Obj]
  /\ openat \in [UpVals -> (Threads \X Slots) \cup {Nil}]
  /\ closedval \in [UpVals -> Val \cup {Nil}]
  /\ stack \in [Threads -> [Slots -> Val \cup {Nil}]]
  /\ running \in Threads /\ basemt \in Tables \cup {Nil}

\* No reference leads out of the live heap: whatever a root or a live object
\* refers to is allocated and is not waiting to be freed by the sweep.
NoDangling == Roots \subseteq Live /\ \A o \in Live : Refs(o) \subseteq Live

\* While marking, a black object never refers to a white one: every store has
\* the barrier that keeps this.  Userdata pending from the previous cycle stay
\* black and are whitened by marktmu, last.
TriColor ==
  gcstate = "propagate" =>
    \A o \in Obj \ (IF atomic = 4 THEN {} ELSE tmudata) :
      color[o] = "black" => Refs(o) \cap White = {}

\* Each object has one gclist field, so it is in at most one of the lists; the
\* lists hold gray objects only, and all of them.
ListDiscipline ==
  gcstate = "propagate" =>
    /\ gray \cap grayagain = {} /\ gray \cap weak = {} /\ grayagain \cap weak = {}
    /\ gray \cup grayagain \cup weak = {o \in Grayable : color[o] = "gray"}

\* Outside the sweep only the current white is in use, and during it an object
\* of an old colour is still ahead of the sweep (or pending in tmudata).  Gray
\* open upvalues outside the mark phase therefore only exist ahead of the sweep,
\* as luaC_linkupval asserts.
SweepBookkeeping ==
  /\ gcstate = "propagate" => \A o \in Obj : ~IsDead(o)
  /\ gcstate # "propagate" => \A o \in Allocated :
       \/ color[o] = "currentwhite"
       \/ o \in tmudata /\ color[o] = "black"
       \/ o \in unswept
       \/ o \in UpVals /\ openat[o] # Nil /\ openat[o][1] \in unswept
       \/ o \in Strings /\ gcstate = "sweepstring" /\ Bucket[o] >= sweepstrgc
  /\ \A o \in unswept : /\ o \in Allocated \ tmudata
                        /\ o \in UpVals => openat[o] = Nil
  /\ unswept # {} <=> gcstate \in {"sweepstring", "sweep"}

\* At most one open upvalue per stack slot, never black, in a thread that still
\* exists; closures of live objects share it.
OpenUpvalues ==
  \A u \in UpVals : openat[u] # Nil =>
    /\ color[u] \notin {"black", "free"}
    /\ openat[u][1] \in Allocated
    /\ \A w \in UpVals : openat[w] = openat[u] => w = u

\* What each stage of atomic() has established when the next one starts.
AtomicStages ==
  /\ atomic # 0 => gcstate = "propagate"
  /\ gcstate = "propagate" => {MainThread, Registry} \cap White = {}
  /\ atomic >= 1 => \A u \in UpVals : openat[u] # Nil /\ color[u] = "gray"
                                        => UpValue(u) \notin White
  /\ atomic >= 2 => {running, basemt} \cap White = {}
  /\ atomic >= 2 => \A t \in weak : IsWeak(t) /\ StrongRefs(t) \cap White = {}
  /\ atomic >= 3 => \A o \in grayagain : o \in Threads /\ Refs(o) \cap White = {}
  /\ atomic = 4 => \A u \in tmudata : color[u] = "black"
  /\ tmudata # {} => \/ gcstate \in {"sweepstring", "sweep", "finalize"}
                     \/ fullgc = "mark" \/ atomic = 4

\* The lists of the mark phase: what is on them, and how far they are emptied
\* when each stage begins.
GrayLists == ListDiscipline /\ AtomicStages

\* The sweep and the open upvalues, which are in no root list and are swept with
\* the thread they point into.
SweptWithThreads == SweepBookkeeping /\ OpenUpvalues

\* The objects a program can still get at: the least set with the roots that is
\* closed under references.
Accessible == {o \in Obj : \A S \in SUBSET Allocated :
                 Roots \subseteq S /\ (\A x \in S : Refs(x) \subseteq S) => o \in S}

\* The collector frees inaccessible objects only.
FreesGarbageOnly ==
  [][\A o \in Obj : color[o] # "free" /\ color'[o] = "free" => o \notin Accessible]_vars

\* A userdata with a finalizer is not freed before the finalizer was called.
FinalizedBeforeFreed ==
  [][\A u \in Userdata : color[u] # "free" /\ color'[u] = "free" =>
       \/ u \in finalized \ tmudata
       \/ metatable[u] \notin FinalizerMt]_vars

\* Before finalizers run, the userdata they get have left all weak values.
WeakValuesBeforeFinalizers ==
  [][gcstate = "propagate" /\ gcstate' = "sweepstring" /\ fullgc' # "sweep" =>
       \A t \in Live' \cap Tables, k \in Keys :
         WeakValues(t) => content'[t][k] \notin tmudata']_vars

\* A key that waits for its finalizer stays in the weak table, with its value.
WeakKeysUntilFinalizers ==
  [][gcstate = "propagate" /\ gcstate' = "sweepstring" /\ fullgc' # "sweep" =>
       \A t \in Live' \cap Tables, k \in Keys \cap tmudata' :
         HasValue(t, k) /\ content[t][k] \in Live' \ finalized
           => content'[t][k] = content[t][k]]_vars

\* What atomic() makes of weak tables when finalizers are still to run: values
\* are gone before, keys after them.
WeakAroundFinalizers == WeakValuesBeforeFinalizers /\ WeakKeysUntilFinalizers

\* The mark phase ends whatever the program does meanwhile, because a table
\* caught by the barrier moves to grayagain and not to gray.
MarkingEnds == gcstate = "propagate" ~> gcstate # "propagate"

\* Inaccessible tables are eventually freed.
GarbageCollected ==
  \A t \in Tables : (color[t] # "free" /\ t \notin Accessible) ~> color[t] = "free"

=============================================================================
