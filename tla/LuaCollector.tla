---------------------------- MODULE LuaCollector ----------------------------
(***************************************************************************)
(* The steps of the incremental collector: singlestep() and luaC_fullgc of *)
(* lgc.c.  atomic() runs without the program in between; it is unfolded    *)
(* into the stages of its body (variable atomic), and its propagateall()   *)
(* calls are repeated PropagateMark steps.                                 *)
(***************************************************************************)
EXTENDS LuaHeap

IsNext(o, list) == o \in list /\ \A x \in list : Rank[o] <= Rank[x]

---------------------------------------------------------------------------
(* markroot, propagatemark, atomic *)

MarkRoots(mode) ==
  LET roots == {MainThread, env[MainThread], Registry, basemt}
  IN  /\ color' = Marked(roots)
      /\ gray' = MarkedGray(roots)
      /\ grayagain' = {} /\ weak' = {}
      /\ gcstate' = "propagate"
      /\ fullgc' = mode
      /\ UNCHANGED <<atomic, tmudata, finalized, sweepstrgc,
                     unswept, heap>>

StartCycle == gcstate = "pause" /\ MarkRoots("off")

\* deviation: a table weak in keys and values is not put in the weak list
IsWeakOneMode(o) == o \in Tables /\ WeakKeys(o) # WeakValues(o)

IsWeak(o) == o \in Tables /\ (WeakKeys(o) \/ WeakValues(o))

PropagateMark(o) ==
  /\ gcstate = "propagate" /\ IsNext(o, gray)
  /\ LET more == StrongRefs(o) IN
       /\ color' = [Marked(more) EXCEPT
                      ![o] = IF IsWeak(o) \/ o \in Threads THEN "gray" ELSE "black"]
       /\ gray' = (gray \ {o}) \cup MarkedGray(more)
  /\ grayagain' = grayagain \cup ({o} \cap Threads)
  /\ weak' = IF IsWeak(o) THEN weak \cup {o} ELSE weak
  /\ content' =
       IF o \in Tables /\ ~(WeakKeys(o) /\ WeakValues(o))
       THEN [content EXCEPT ![o] = [k \in Keys |->      \* removeentry
               IF k \in Obj /\ @[k] = Nil THEN Absent ELSE @[k]]]
       ELSE content
  /\ UNCHANGED <<gcstate, atomic, fullgc, tmudata, finalized,
                 sweepstrgc, unswept, metatable, env, upvals, holds, openat,
                 closedval, stack, running, basemt>>

\* deviation: waits for the tables that the barrier put aside, too
AtomicStageAllLists(n) ==
  gcstate = "propagate" /\ atomic = n /\ gray \cup grayagain = {}

AtomicStage(n) == gcstate = "propagate" /\ atomic = n /\ gray = {}

\* deviation: upvalues of dead threads not remarked
OpenValuesIgnored == {}

\* The values of the marked open upvalues.
OpenValues == {UpValue(u) : u \in {w \in UpVals : openat[w] # Nil /\ color[w] = "gray"}}

RemarkUpvals ==
  /\ AtomicStage(0) /\ atomic' = 1
  /\ Mark(OpenValues)
  /\ UNCHANGED <<gcstate, fullgc, grayagain, weak, tmudata,
                 finalized, sweepstrgc, unswept, heap>>

\* deviation: weak tables not traversed again
RemarkWeakForgotten ==
  /\ AtomicStage(1) /\ atomic' = 2
  /\ Mark({running, basemt})
  /\ UNCHANGED <<gcstate, fullgc, grayagain, weak, tmudata, finalized, sweepstrgc,
                 unswept, heap>>

RemarkWeak ==
  /\ AtomicStage(1) /\ atomic' = 2
  /\ color' = Marked({running, basemt})
  /\ gray' = weak \cup MarkedGray({running, basemt})
  /\ weak' = {}
  /\ UNCHANGED <<gcstate, fullgc, grayagain, tmudata,
                 finalized, sweepstrgc, unswept, heap>>

RemarkGrayAgain ==
  /\ AtomicStage(2) /\ atomic' = 3
  /\ gray' = grayagain /\ grayagain' = {}
  /\ UNCHANGED <<color, gcstate, fullgc, weak, tmudata,
                 finalized, sweepstrgc, unswept, heap>>

\* deviations: isdead for iswhite; metatables not marked
DeadUdataByIsDead == {u \in Userdata : IsDead(u) /\ u \notin finalized}
TmuRefsEnvOnly(tmu) == {env[u] : u \in tmu}

DeadUdata    == {u \in Userdata \cap White : u \notin finalized}
TmuRefs(tmu) == Obj \cap ({metatable[u] : u \in tmu} \cup {env[u] : u \in tmu})

\* luaC_separateudata(L, 0) and marktmu, which whitens a userdata and marks it.
SeparateUdata ==
  /\ AtomicStage(3) /\ atomic' = 4
  /\ LET tmu  == tmudata \cup {u \in DeadUdata : metatable[u] \in FinalizerMt}
         more == (TmuRefs(tmu) \cap White) \ tmu
     IN  /\ finalized' = finalized \cup DeadUdata
         /\ tmudata' = tmu
         /\ color' = [o \in Obj |-> IF o \in tmu THEN "black"
                                    ELSE IF o \in more THEN "gray" ELSE color[o]]
         /\ gray' = more
  /\ UNCHANGED <<gcstate, fullgc, grayagain, weak, sweepstrgc, unswept, heap>>

\* deviations: finalized userdata treated in keys as in values, and the reverse
ClearedKeyIfFinalized(k) == k \in White \ Strings \/ k \in finalized
ClearedValueIfWhite(v)   == v \in White \ Strings

\* iscleared(o, 1) and iscleared(o, 0)
ClearedKey(k)   == k \in White \ Strings
ClearedValue(v) == v \in White \ Strings \/ v \in finalized

\* deviation: pairs are removed for their value only
ClearedEntryByValue(t, k) == HasValue(t, k) /\ ClearedValue(content[t][k])

ClearedEntry(t, k) ==
  /\ HasValue(t, k)
  /\ IF k \in Indices THEN WeakValues(t) /\ ClearedValue(content[t][k])
                      ELSE ClearedKey(k) \/ ClearedValue(content[t][k])

\* deviation: iscleared without stringmark
MarkedByClearNothing == {}

\* Strings that iscleared marks: it sees the keys of all entries, and the values
\* of those whose key stays.
MarkedByClear ==
  {x \in Strings : \E t \in weak, k \in Keys :
     /\ HasValue(t, k)
     /\ \/ x = k
        \/ x = content[t][k] /\ ~ClearedKey(k) /\ (k \in Indices => WeakValues(t))}

RootObjects == {o \in Allocated \ (Strings \cup tmudata) :
                  o \in UpVals => openat[o] = Nil}

\* g->currentwhite = otherwhite(g)
Flipped(c) == IF c = "currentwhite" THEN "otherwhite"
              ELSE IF c = "otherwhite" THEN "currentwhite" ELSE c

\* cleartable and the flip to the sweep phase.
ClearAndFlip ==
  /\ AtomicStage(4) /\ atomic' = 0
  /\ content' = [t \in Tables |->
       IF t \in weak
       THEN [k \in Keys |-> IF ClearedEntry(t, k) THEN EmptyTable[k] ELSE content[t][k]]
       ELSE content[t]]
  /\ color' = [o \in Obj |->
       IF o \in MarkedByClear \cap White THEN "gray" ELSE Flipped(color[o])]
  /\ grayagain' = {} /\ weak' = {}
  /\ gcstate' = "sweepstring" /\ sweepstrgc' = 0
  /\ unswept' = RootObjects
  /\ UNCHANGED <<gray, fullgc, tmudata, finalized, metatable,
                 env, upvals, holds, openat, closedval, stack, running, basemt>>

---------------------------------------------------------------------------
(* Sweeping and finalizers *)

\* freeobj: an address not in use has the fields of a fresh object.
Free(freed) ==
  /\ content'   = Reset(content, freed, EmptyTable)
  /\ metatable' = Reset(metatable, freed, Nil)
  /\ env'       = Reset(env, freed, Nil)
  /\ upvals'    = Reset(upvals, freed, {})
  /\ holds'     = Reset(holds, freed, {})
  /\ stack'     = Reset(stack, freed, EmptyStack)
  /\ finalized' = finalized \ freed

\* deviation: one chain too many
LastChainLate == sweepstrgc + 1 > NBuckets

LastChain == sweepstrgc + 1 >= NBuckets

\* sweeplist over the string chain sweepstrgc.
SweepString ==
  /\ gcstate = "sweepstring"
  /\ color' = [o \in Obj |->
       IF o \in Strings /\ Bucket[o] = sweepstrgc /\ color[o] # "free"
       THEN IF o \in Live THEN "currentwhite" ELSE "free"
       ELSE color[o]]
  /\ sweepstrgc' = sweepstrgc + 1
  /\ gcstate' = IF LastChain THEN "sweep" ELSE gcstate
  /\ UNCHANGED <<atomic, fullgc, gray, grayagain, weak, tmudata,
                 finalized, unswept, heap>>

\* One iteration of sweeplist over rootgc.  A thread has its open upvalues swept
\* first; freeing it (luaE_freethread) closes those that are left.
SweepObject(o) ==
  LET ups    == IF o \in Threads THEN OpenUpvals(o) ELSE {}
      freed  == {x \in ups \cup {o} : IsDead(x)}
      closed == IF o \in freed THEN ups \ freed ELSE {}
  IN  /\ gcstate = "sweep" /\ IsNext(o, unswept)
      /\ color' = [x \in Obj |-> IF x \in freed THEN "free"
                                 ELSE IF x \in ups \cup {o} THEN "currentwhite"
                                 ELSE color[x]]
      /\ Free(freed)
      /\ closedval' = [u \in UpVals |-> IF u \in freed THEN Nil
                                        ELSE IF u \in closed THEN UpValue(u)
                                        ELSE closedval[u]]
      /\ openat' = Reset(openat, freed \cup closed, Nil)
      /\ unswept' \in {unswept \ {o}, (unswept \ {o}) \cup closed}
      /\ gcstate' = IF unswept' = {} THEN "finalize" ELSE "sweep"
      /\ fullgc' = IF unswept' = {} /\ fullgc = "mark" THEN "off" ELSE fullgc
      /\ UNCHANGED <<atomic, gray, grayagain, weak, tmudata,
                     sweepstrgc, running, basemt>>

\* The userdata goes back to rootgc and onto the stack of its finalizer.
GCTM(u, s) ==
  /\ gcstate = "finalize" /\ fullgc = "off" /\ u \in tmudata
  /\ tmudata' = tmudata \ {u}
  /\ color' = [color EXCEPT ![u] = "currentwhite"]
  /\ IF metatable[u] \in FinalizerMt
     THEN stack[running][s] = Nil /\ Push(u, s)
     ELSE stack' = stack
  /\ UNCHANGED <<gcstate, atomic, fullgc, gray, grayagain, weak,
                 finalized, sweepstrgc, unswept, content, metatable, env, upvals,
                 holds, openat, closedval, running, basemt>>

\* deviation: the test of tmudata is inverted
EndCycleInverted ==
  /\ gcstate = "finalize" /\ fullgc = "off" /\ tmudata # {}
  /\ gcstate' = "pause"
  /\ UNCHANGED <<color, atomic, fullgc, gray, grayagain, weak,
                 tmudata, finalized, sweepstrgc, unswept, heap>>

EndCycle ==
  /\ gcstate = "finalize" /\ fullgc = "off" /\ tmudata = {}
  /\ gcstate' = "pause"
  /\ UNCHANGED <<color, atomic, fullgc, gray, grayagain, weak,
                 tmudata, finalized, sweepstrgc, unswept, heap>>

\* luaC_fullgc: a cycle being marked is abandoned, one being swept is finished.
FullGC ==
  \/ /\ MutatorRuns /\ gcstate = "finalize" /\ MarkRoots("mark")
  \/ /\ MutatorRuns /\ gcstate # "finalize" /\ fullgc' = "sweep"
     /\ IF gcstate \in {"pause", "propagate"}
        THEN /\ gray' = {} /\ grayagain' = {} /\ weak' = {}
             /\ gcstate' = "sweepstring" /\ sweepstrgc' = 0
             /\ unswept' = RootObjects
        ELSE UNCHANGED <<gray, grayagain, weak, gcstate, sweepstrgc, unswept>>
     /\ UNCHANGED <<color, atomic, tmudata, finalized, heap>>

FullGCMark == gcstate = "finalize" /\ fullgc = "sweep" /\ MarkRoots("mark")

CollectorStep ==
  \/ StartCycle
  \/ \E o \in Grayable : PropagateMark(o)
  \/ RemarkUpvals \/ RemarkWeak \/ RemarkGrayAgain \/ SeparateUdata \/ ClearAndFlip
  \/ SweepString
  \/ \E o \in RootList : SweepObject(o)
  \/ \E u \in Userdata, s \in Slots : GCTM(u, s)
  \/ EndCycle \/ FullGCMark

=============================================================================
