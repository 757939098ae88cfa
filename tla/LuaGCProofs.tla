---------------------------- MODULE LuaGCProofs ----------------------------
(* Proofs about LuaGC.                                                    *)
EXTENDS LuaGC, TLAPS

---------------------------------------------------------------------------
(* The constants *)

\* No address is of two types.
LEMMA DisjointKinds ==
  /\ Tables \cap (Closures \cup UpVals \cup Threads \cup Userdata \cup Strings \cup Protos) = {}
  /\ Closures \cap (UpVals \cup Threads \cup Userdata \cup Strings \cup Protos) = {}
  /\ UpVals \cap (Threads \cup Userdata \cup Strings \cup Protos) = {}
  /\ Threads \cap (Userdata \cup Strings \cup Protos) = {}
  /\ Userdata \cap (Strings \cup Protos) = {}
  /\ Strings \cap Protos = {}
  /\ LClosures \cap CClosures = {}
  /\ Obj \cap Indices = {}
  /\ Nil \notin Obj
<1>1. \A i, j \in 1..9 : i # j => Kinds[i] \cap Kinds[j] = {}
  BY ConstantsAssumption
<1>2. /\ Kinds[1] = Tables /\ Kinds[2] = LClosures /\ Kinds[3] = CClosures
      /\ Kinds[4] = UpVals /\ Kinds[5] = Threads /\ Kinds[6] = Userdata
      /\ Kinds[7] = Strings /\ Kinds[8] = Protos /\ Kinds[9] = Indices
  BY DEF Kinds
<1> HIDE DEF Kinds
<1>3. /\ Tables \cap LClosures = {} /\ Tables \cap CClosures = {}
      /\ Tables \cap UpVals = {} /\ Tables \cap Threads = {}
      /\ Tables \cap Userdata = {} /\ Tables \cap Strings = {}
      /\ Tables \cap Protos = {} /\ Tables \cap Indices = {}
  BY <1>1, <1>2
<1>4. /\ LClosures \cap CClosures = {} /\ LClosures \cap UpVals = {}
      /\ LClosures \cap Threads = {} /\ LClosures \cap Userdata = {}
      /\ LClosures \cap Strings = {} /\ LClosures \cap Protos = {}
      /\ LClosures \cap Indices = {}
  BY <1>1, <1>2
<1>5. /\ CClosures \cap UpVals = {} /\ CClosures \cap Threads = {}
      /\ CClosures \cap Userdata = {} /\ CClosures \cap Strings = {}
      /\ CClosures \cap Protos = {} /\ CClosures \cap Indices = {}
  BY <1>1, <1>2
<1>6. /\ UpVals \cap Threads = {} /\ UpVals \cap Userdata = {} /\ UpVals \cap Strings = {}
      /\ UpVals \cap Protos = {} /\ UpVals \cap Indices = {}
      /\ Threads \cap Userdata = {} /\ Threads \cap Strings = {}
      /\ Threads \cap Protos = {} /\ Threads \cap Indices = {}
  BY <1>1, <1>2
<1>7. /\ Userdata \cap Strings = {} /\ Userdata \cap Protos = {} /\ Userdata \cap Indices = {}
      /\ Strings \cap Protos = {} /\ Strings \cap Indices = {}
      /\ Protos \cap Indices = {}
  BY <1>1, <1>2
<1>8. Nil \notin Obj
  BY ConstantsAssumption DEF Val
<1> QED BY <1>3, <1>4, <1>5, <1>6, <1>7, <1>8 DEF Obj, Closures

---------------------------------------------------------------------------
(* Types *)

\* TypeOK needs that sweepstring stops at the last chain to be inductive.
TypeInv == TypeOK /\ (gcstate = "sweepstring" => sweepstrgc < NBuckets)

LEMMA TypeInit == Init => TypeInv
BY ConstantsAssumption DEF Init, TypeInv, TypeOK, Colors, Whites, EmptyTable, EmptyStack,
  Val, Obj, Closures, Grayable, RootList

\* Marking keeps colours colours, and marks what can be in a list.
LEMMA MarkedType ==
  ASSUME color \in [Obj -> Colors], NEW S
  PROVE  Marked(S) \in [Obj -> Colors] /\ MarkedGray(S) \subseteq Grayable
BY DEF Marked, MarkedGray, MarkColor, Colors, Whites

LEMMA UpValueType ==
  ASSUME TypeInv, NEW u \in UpVals
  PROVE  UpValue(u) \in Val \cup {Nil}
BY DEF TypeInv, TypeOK, UpValue

LEMMA MarkRootsType ==
  ASSUME TypeInv, NEW mode \in {"off", "mark"}, MarkRoots(mode)
  PROVE  TypeInv'
<1> DEFINE roots == {MainThread, env[MainThread], Registry, basemt}
<1>1. Marked(roots) \in [Obj -> Colors] /\ MarkedGray(roots) \subseteq Grayable
  BY MarkedType DEF TypeInv, TypeOK
<1> QED BY <1>1 DEF TypeInv, TypeOK, MarkRoots, heap

LEMMA PropagateMarkType ==
  ASSUME TypeInv, NEW o \in Grayable, PropagateMark(o)
  PROVE  TypeInv'
<1> DEFINE more == StrongRefs(o)
<1>1. Marked(more) \in [Obj -> Colors] /\ MarkedGray(more) \subseteq Grayable
  BY MarkedType DEF TypeInv, TypeOK
<1>2. color' \in [Obj -> Colors] /\ gray' \subseteq Grayable
  BY <1>1 DEF TypeInv, TypeOK, PropagateMark, Colors
<1>3. weak' \subseteq Tables /\ grayagain' \subseteq Grayable
  BY DEF TypeInv, TypeOK, PropagateMark, IsWeak, Grayable
<1>4. content' \in [Tables -> [Keys -> Val \cup {Nil, Absent}]]
  BY DEF TypeInv, TypeOK, PropagateMark
<1> QED BY <1>2, <1>3, <1>4 DEF TypeInv, TypeOK, PropagateMark

LEMMA AtomicType ==
  ASSUME TypeInv,
         RemarkUpvals \/ RemarkWeak \/ RemarkGrayAgain \/ SeparateUdata \/ ClearAndFlip
  PROVE  TypeInv'
<1>1. CASE RemarkUpvals
  BY <1>1, MarkedType DEF TypeInv, TypeOK, RemarkUpvals, Mark, heap
<1>2. CASE RemarkWeak
  BY <1>2, MarkedType DEF TypeInv, TypeOK, RemarkWeak, Grayable, heap
<1>3. CASE RemarkGrayAgain
  BY <1>3 DEF TypeInv, TypeOK, RemarkGrayAgain, heap
<1>4. CASE SeparateUdata
  <2>1. color' \in [Obj -> Colors]
    BY <1>4 DEF TypeInv, TypeOK, SeparateUdata, Colors
  <2>2. gray' \subseteq Grayable
    <3>1. \A T \in SUBSET Userdata : TmuRefs(T) \subseteq Tables
      BY DisjointKinds DEF TypeInv, TypeOK, TmuRefs
    <3>2. tmudata \cup {u \in DeadUdata : metatable[u] \in FinalizerMt} \in SUBSET Userdata
      BY DEF TypeInv, TypeOK, DeadUdata
    <3> QED BY <1>4, <3>1, <3>2 DEF SeparateUdata, Grayable
  <2> QED BY <1>4, <2>1, <2>2 DEF TypeInv, TypeOK, SeparateUdata, DeadUdata, heap
<1>5. CASE ClearAndFlip
  <2>1. color' \in [Obj -> Colors]
    BY <1>5 DEF TypeInv, TypeOK, ClearAndFlip, Flipped, Colors, Whites
  <2>2. content' \in [Tables -> [Keys -> Val \cup {Nil, Absent}]]
    BY <1>5 DEF TypeInv, TypeOK, ClearAndFlip, EmptyTable
  <2>3. unswept' \subseteq RootList
    BY <1>5 DEF ClearAndFlip, RootObjects, Allocated, RootList
  <2> QED BY <1>5, <2>1, <2>2, <2>3, ConstantsAssumption DEF TypeInv, TypeOK, ClearAndFlip
<1> QED BY <1>1, <1>2, <1>3, <1>4, <1>5

LEMMA SweepType ==
  ASSUME TypeInv, NEW o \in RootList, SweepString \/ SweepObject(o)
  PROVE  TypeInv'
<1>1. CASE SweepString
  BY <1>1, ConstantsAssumption DEF TypeInv, TypeOK, SweepString, LastChain, heap, Colors, Whites
<1>2. CASE SweepObject(o)
  <2> DEFINE ups    == IF o \in Threads THEN OpenUpvals(o) ELSE {}
             freed  == {x \in ups \cup {o} : IsDead(x)}
             closed == IF o \in freed THEN ups \ freed ELSE {}
  <2>1. ups \subseteq UpVals /\ closed \subseteq UpVals /\ UpVals \subseteq RootList
    BY DisjointKinds DEF OpenUpvals, RootList, Obj
  <2>2. color' \in [Obj -> Colors] /\ gcstate' \in {"sweep", "finalize"}
    BY <1>2 DEF TypeInv, TypeOK, SweepObject, Colors, Whites
  <2>3. closedval' \in [UpVals -> Val \cup {Nil}]
    BY <1>2, <2>1, UpValueType DEF TypeInv, TypeOK, SweepObject
  <2>4. openat' \in [UpVals -> (Threads \X Slots) \cup {Nil}]
    BY <1>2 DEF TypeInv, TypeOK, SweepObject, Reset
  <2>5. unswept' \subseteq RootList
    BY <1>2, <2>1 DEF TypeInv, TypeOK, SweepObject
  <2>6. Free(freed)
    BY <1>2 DEF SweepObject
  <2>7. /\ content' \in [Tables -> [Keys -> Val \cup {Nil, Absent}]]
        /\ metatable' \in [Tables \cup Userdata -> Tables \cup {Nil}]
        /\ env' \in [Closures \cup Userdata \cup Threads -> Tables \cup {Nil}]
        /\ upvals' \in [LClosures -> SUBSET UpVals]
        /\ holds' \in [Closures \cup Protos -> SUBSET Obj]
        /\ stack' \in [Threads -> [Slots -> Val \cup {Nil}]]
        /\ finalized' \subseteq Userdata
    <3> HIDE DEF freed
    <3> QED BY <2>6 DEF Free, Reset, TypeInv, TypeOK, EmptyTable, EmptyStack
  <2> QED BY <1>2, <2>2, <2>3, <2>4, <2>5, <2>7 DEF TypeInv, TypeOK, SweepObject
<1> QED BY <1>1, <1>2

LEMMA PushType ==
  ASSUME TypeInv, NEW v \in Val \cup {Nil}, NEW s \in Slots, Push(v, s)
  PROVE  stack' \in [Threads -> [Slots -> Val \cup {Nil}]]
BY DEF TypeInv, TypeOK, Push

LEMMA FinalizeType ==
  ASSUME TypeInv, NEW u \in Userdata, NEW s \in Slots, GCTM(u, s) \/ EndCycle
  PROVE  TypeInv'
<1>1. CASE GCTM(u, s)
  <2>1. u \in Val
    BY DEF Val, Obj
  <2>2. stack' \in [Threads -> [Slots -> Val \cup {Nil}]]
    <3>1. Push(u, s) \/ stack' = stack
      BY <1>1 DEF GCTM
    <3> QED BY <2>1, <3>1, PushType DEF TypeInv, TypeOK
  <2> QED BY <1>1, <2>2 DEF TypeInv, TypeOK, GCTM, Colors, Whites
<1>2. CASE EndCycle
  BY <1>2 DEF TypeInv, TypeOK, EndCycle, heap
<1> QED BY <1>1, <1>2

LEMMA FullGCType ==
  ASSUME TypeInv, FullGC
  PROVE  TypeInv'
<1>1. CASE MarkRoots("mark")
  BY <1>1, MarkRootsType
<1>2. CASE ~MarkRoots("mark")
  BY <1>2, ConstantsAssumption DEF TypeInv, TypeOK, FullGC, RootObjects, Allocated, RootList,
    heap
<1> QED BY <1>1, <1>2

LEMMA CollectorType ==
  ASSUME TypeInv, CollectorStep
  PROVE  TypeInv'
<1>1. CASE StartCycle \/ FullGCMark
  BY <1>1, MarkRootsType DEF StartCycle, FullGCMark
<1>2. CASE \E o \in Grayable : PropagateMark(o)
  BY <1>2, PropagateMarkType
<1>3. CASE RemarkUpvals \/ RemarkWeak \/ RemarkGrayAgain \/ SeparateUdata \/ ClearAndFlip
  BY <1>3, AtomicType
<1>4. CASE SweepString \/ \E o \in RootList : SweepObject(o)
  <2>1. MainThread \in RootList
    BY ConstantsAssumption, DisjointKinds DEF RootList, Obj
  <2> QED BY <1>4, <2>1, SweepType
<1>5. CASE (\E u \in Userdata, s \in Slots : GCTM(u, s)) \/ EndCycle
  BY <1>5, FinalizeType DEF TypeInv, TypeOK, EndCycle, heap
<1> QED BY <1>1, <1>2, <1>3, <1>4, <1>5 DEF CollectorStep

\* What the allocating steps have in common.
LEMMA AllocType ==
  ASSUME TypeInv, NEW new \in SUBSET RootList, Alloc(new)
  PROVE  /\ color' \in [Obj -> Colors]
         /\ gray' \subseteq Grayable
         /\ unswept' \subseteq RootList
BY DEF TypeInv, TypeOK, Alloc, Link, Colors, Whites

LEMMA NewObjectsType ==
  ASSUME TypeInv, NEW s \in Slots
  PROVE  /\ \A t \in Tables : NewTable(t, s) => TypeInv'
         /\ \A x \in Strings : NewString(x, s) => TypeInv'
         /\ \A u \in Userdata : NewUserdata(u, s) => TypeInv'
         /\ \A th \in Threads : NewThread(th, s) => TypeInv'
         /\ \A c \in CClosures : PushCClosure(c, s) => TypeInv'
         /\ \A p \in Protos : NewProto(p, s) => TypeInv'
         /\ \A c \in LClosures, p \in Protos : ParserClosure(c, p, s) => TypeInv'
<1>1. ASSUME NEW t \in Tables, NewTable(t, s) PROVE TypeInv'
  <2>1. {t} \in SUBSET RootList /\ t \in Val
    BY DisjointKinds DEF RootList, Obj, Val
  <2> QED BY <1>1, <2>1, AllocType, PushType DEF NewTable, lists, TypeInv, TypeOK
<1>2. ASSUME NEW x \in Strings, NewString(x, s) PROVE TypeInv'
  <2>1. x \in Val
    BY DEF Val, Obj
  <2> QED BY <1>2, <2>1, PushType DEF NewString, lists, TypeInv, TypeOK, Colors, Whites
<1>3. ASSUME NEW u \in Userdata, NewUserdata(u, s) PROVE TypeInv'
  <2>1. {u} \in SUBSET RootList /\ u \in Val
    BY DisjointKinds DEF RootList, Obj, Val
  <2>2. CurrentEnvs \subseteq Tables \cup {Nil}
    BY DEF CurrentEnvs, TypeInv, TypeOK, Closures
  <2> QED BY <1>3, <2>1, <2>2, AllocType, PushType DEF NewUserdata, lists, TypeInv, TypeOK
<1>4. ASSUME NEW th \in Threads, NewThread(th, s) PROVE TypeInv'
  <2>1. {th} \in SUBSET RootList /\ th \in Val
    BY DisjointKinds DEF RootList, Obj, Val
  <2> QED BY <1>4, <2>1, AllocType, PushType DEF NewThread, lists, TypeInv, TypeOK
<1>5. ASSUME NEW c \in CClosures, PushCClosure(c, s) PROVE TypeInv'
  <2>1. {c} \in SUBSET RootList /\ c \in Val
    BY DisjointKinds DEF RootList, Obj, Val, Closures
  <2>2. CurrentEnvs \subseteq Tables \cup {Nil} /\ Values \subseteq Obj
    BY DEF CurrentEnvs, Values, InHand, TypeInv, TypeOK, Closures
  <2>3. /\ env' \in [Closures \cup Userdata \cup Threads -> Tables \cup {Nil}]
        /\ holds' \in [Closures \cup Protos -> SUBSET Obj]
    BY <1>5, <2>2 DEF PushCClosure, TypeInv, TypeOK, Closures
  <2>4. UNCHANGED <<grayagain, lists, content, metatable, upvals, openat, closedval,
                    running, basemt>> /\ Alloc({c}) /\ Push(c, s)
    BY <1>5 DEF PushCClosure
  <2> QED BY <2>1, <2>3, <2>4, AllocType, PushType DEF lists, TypeInv, TypeOK
<1>6. ASSUME NEW p \in Protos, NewProto(p, s) PROVE TypeInv'
  <2>1. {p} \in SUBSET RootList /\ p \in Val
    BY DisjointKinds DEF RootList, Obj, Val
  <2> QED BY <1>6, <2>1, AllocType, PushType DEF NewProto, lists, TypeInv, TypeOK
<1>7. ASSUME NEW c \in LClosures, NEW p \in Protos, ParserClosure(c, p, s) PROVE TypeInv'
  <2>1. PICK us \in SUBSET UpVals : Alloc({c} \cup us) /\ upvals' = [upvals EXCEPT ![c] = us]
    BY <1>7 DEF ParserClosure
  <2>2. {c} \cup us \in SUBSET RootList /\ c \in Val /\ p \in Obj
    BY DisjointKinds DEF RootList, Obj, Val, Closures
  <2>3. /\ color' \in [Obj -> Colors] /\ gray' \subseteq Grayable /\ unswept' \subseteq RootList
        /\ stack' \in [Threads -> [Slots -> Val \cup {Nil}]]
    BY <1>7, <2>1, <2>2, AllocType, PushType DEF ParserClosure
  <2>4. /\ env' \in [Closures \cup Userdata \cup Threads -> Tables \cup {Nil}]
        /\ upvals' \in [LClosures -> SUBSET UpVals]
        /\ holds' \in [Closures \cup Protos -> SUBSET Obj]
    BY <1>7, <2>1, <2>2 DEF ParserClosure, TypeInv, TypeOK, Closures
  <2>5. UNCHANGED <<grayagain, lists, content, metatable, openat, closedval, running, basemt>>
    BY <1>7 DEF ParserClosure
  <2> QED BY <2>3, <2>4, <2>5 DEF lists, TypeInv, TypeOK
<1> QED BY <1>1, <1>2, <1>3, <1>4, <1>5, <1>6, <1>7

LEMMA OpClosureType ==
  ASSUME TypeInv,
         NEW c \in LClosures, NEW cl \in LClosures, NEW p \in Protos,
         NEW l \in Slots \cup {Nil}, NEW s \in Slots, OpClosure(c, cl, p, l, s)
  PROVE  TypeInv'
<1>1. {c} \in SUBSET RootList /\ c \in Val /\ p \in Obj
  BY DisjointKinds DEF RootList, Obj, Val, Closures
<1>2. /\ Link({c}) /\ Push(c, s)
      /\ env' = [env EXCEPT ![c] = env[cl]]
      /\ holds' = [holds EXCEPT ![c] = {p}]
      /\ UNCHANGED <<gray, grayagain, lists, content, metatable, closedval, running, basemt>>
  BY DEF OpClosure
<1>3. PICK shared \in SUBSET upvals[cl] :
        \/ /\ upvals' = [upvals EXCEPT ![c] = shared]
           /\ color' = [color EXCEPT ![c] = "currentwhite"]
           /\ openat' = openat
        \/ \E u \in UpVals :
           /\ upvals' = [upvals EXCEPT ![c] = shared \cup {u}]
           /\ \E w \in Colors : color' = [color EXCEPT ![c] = "currentwhite", ![u] = w]
           /\ openat' = openat \/ (l # Nil /\ openat' = [openat EXCEPT ![u] = <<running, l>>])
  <2>1. \A u \in UpVals : color[u] \in Colors /\ "currentwhite" \in Colors
    BY DEF TypeInv, TypeOK, Colors, Whites, Obj
  <2>2. \A u \in UpVals : color' = [color EXCEPT ![c] = "currentwhite",
                            ![u] = IF IsDead(u) THEN "currentwhite" ELSE @]
          => \E w \in Colors : color' = [color EXCEPT ![c] = "currentwhite", ![u] = w]
    BY <2>1, DisjointKinds DEF TypeInv, TypeOK, Closures, Obj
  <2> QED BY <2>1, <2>2 DEF OpClosure
<1>4. /\ upvals' \in [LClosures -> SUBSET UpVals]
      /\ color' \in [Obj -> Colors]
      /\ openat' \in [UpVals -> (Threads \X Slots) \cup {Nil}]
  <2>1. upvals' \in [LClosures -> SUBSET UpVals]
    BY <1>3 DEF TypeInv, TypeOK
  <2>2. color' \in [Obj -> Colors]
    BY <1>3 DEF TypeInv, TypeOK, Colors, Whites
  <2>3. l # Nil => <<running, l>> \in Threads \X Slots
    BY DEF TypeInv, TypeOK
  <2> QED BY <1>3, <2>1, <2>2, <2>3 DEF TypeInv, TypeOK
<1>5. /\ env' \in [Closures \cup Userdata \cup Threads -> Tables \cup {Nil}]
      /\ holds' \in [Closures \cup Protos -> SUBSET Obj]
  BY <1>1, <1>2 DEF TypeInv, TypeOK, Closures
<1>6. unswept' \subseteq RootList /\ stack' \in [Threads -> [Slots -> Val \cup {Nil}]]
  BY <1>1, <1>2, PushType DEF TypeInv, TypeOK, Link
<1> QED BY <1>2, <1>4, <1>5, <1>6 DEF lists, TypeInv, TypeOK

LEMMA ForwardBarrierType ==
  ASSUME TypeInv, NEW p, NEW v, ForwardBarrier(p, v)
  PROVE  color' \in [Obj -> Colors] /\ gray' \subseteq Grayable
BY MarkedType DEF TypeInv, TypeOK, ForwardBarrier, Mark, Colors, Whites

LEMMA BackBarrierType ==
  ASSUME TypeInv, NEW t \in Tables, NEW vs, BackBarrier(t, vs)
  PROVE  color' \in [Obj -> Colors] /\ grayagain' \subseteq Grayable
BY DEF TypeInv, TypeOK, BackBarrier, Colors, Whites, Grayable

LEMMA WriteUpValueType ==
  ASSUME TypeInv, NEW u \in UpVals, NEW v \in Val \cup {Nil}, WriteUpValue(u, v)
  PROVE  /\ stack' \in [Threads -> [Slots -> Val \cup {Nil}]]
         /\ closedval' \in [UpVals -> Val \cup {Nil}]
<1>1. CASE openat[u] = Nil
  BY <1>1 DEF TypeInv, TypeOK, WriteUpValue
<1>2. CASE openat[u] # Nil
  <2>1. openat[u] \in Threads \X Slots
    BY <1>2 DEF TypeInv, TypeOK
  <2>2. PICK th \in Threads, sl \in Slots : openat[u][1] = th /\ openat[u][2] = sl
    BY <2>1
  <2>3. stack' = [stack EXCEPT ![th][sl] = v] /\ closedval' = closedval
    BY <1>2, <2>2 DEF WriteUpValue
  <2> QED BY <2>2, <2>3 DEF TypeInv, TypeOK
<1> QED BY <1>1, <1>2

LEMMA TableWritesType ==
  ASSUME TypeInv, NEW t \in Tables
  PROVE  /\ \A k \in Keys, v \in Obj \cup {Nil} : TableSet(t, k, v) => TypeInv'
         /\ \A mt \in Tables \cup {Nil} : SetTableMetatable(t, mt) => TypeInv'
<1>1. ASSUME NEW k \in Keys, NEW v \in Obj \cup {Nil}, TableSet(t, k, v) PROVE TypeInv'
  <2>1. v \in Val \cup {Nil, Absent}
    BY DEF Val
  <2>2. \E vs : BackBarrier(t, vs)
    BY <1>1 DEF TableSet
  <2>3. content' \in [Tables -> [Keys -> Val \cup {Nil, Absent}]]
    <3>1. CASE content' = [content EXCEPT ![t][k] = v]
      BY <2>1, <3>1 DEF TypeInv, TypeOK
    <3>2. CASE content' = [content EXCEPT ![t] = [x \in Keys |->
                 IF x = k THEN v ELSE IF @[x] = Nil THEN EmptyTable[x] ELSE @[x]]]
      BY <2>1, <3>2 DEF TypeInv, TypeOK, EmptyTable
    <3> QED BY <1>1, <3>1, <3>2 DEF TableSet
  <2>4. UNCHANGED <<gray, unswept, lists, metatable, env, upvals, holds, openat,
                    closedval, stack, running, basemt>>
    BY <1>1 DEF TableSet
  <2> QED BY <2>2, <2>3, <2>4, BackBarrierType DEF TypeInv, TypeOK, lists
<1>2. ASSUME NEW mt \in Tables \cup {Nil}, SetTableMetatable(t, mt) PROVE TypeInv'
  BY <1>2, BackBarrierType DEF TypeInv, TypeOK, SetTableMetatable, lists
<1> QED BY <1>1, <1>2

LEMMA OtherWritesType ==
  ASSUME TypeInv
  PROVE  /\ \A th \in Threads, s \in Slots, v \in Obj \cup {Nil} : Store(th, s, v) => TypeInv'
         /\ \A p \in Protos, x \in Strings \cup Protos : AddConstant(p, x) => TypeInv'
         /\ \A u \in Userdata, mt \in Tables \cup {Nil} : SetUdataMetatable(u, mt) => TypeInv'
         /\ \A mt \in Tables \cup {Nil} : SetBaseMetatable(mt) => TypeInv'
         /\ \A o \in Closures \cup Userdata \cup Threads, e \in Tables : SetFenv(o, e) => TypeInv'
         /\ \A c \in LClosures, u \in UpVals, v \in Obj \cup {Nil} : OpSetUpval(c, u, v) => TypeInv'
         /\ \A c \in CClosures, v \in Obj : SetCUpvalue(c, v) => TypeInv'
<1>1. Obj \cup {Nil} \subseteq Val \cup {Nil}
  BY DEF Val
<1>2. ASSUME NEW th \in Threads, NEW s \in Slots, NEW v \in Obj \cup {Nil}, Store(th, s, v)
      PROVE  TypeInv'
  BY <1>1, <1>2 DEF TypeInv, TypeOK, Store, lists
<1>3. ASSUME NEW p \in Protos, NEW x \in Strings \cup Protos, AddConstant(p, x) PROVE TypeInv'
  <2>1. holds' \in [Closures \cup Protos -> SUBSET Obj]
    BY <1>3 DEF AddConstant, TypeInv, TypeOK, Obj
  <2> QED BY <1>3, <2>1, ForwardBarrierType DEF TypeInv, TypeOK, AddConstant, lists
<1>4. ASSUME NEW u \in Userdata, NEW mt \in Tables \cup {Nil}, SetUdataMetatable(u, mt)
      PROVE  TypeInv'
  BY <1>4, ForwardBarrierType DEF TypeInv, TypeOK, SetUdataMetatable, lists
<1>5. ASSUME NEW mt \in Tables \cup {Nil}, SetBaseMetatable(mt) PROVE TypeInv'
  BY <1>5 DEF TypeInv, TypeOK, SetBaseMetatable, lists
<1>6. ASSUME NEW o \in Closures \cup Userdata \cup Threads, NEW e \in Tables, SetFenv(o, e)
      PROVE  TypeInv'
  BY <1>6, ForwardBarrierType DEF TypeInv, TypeOK, SetFenv, lists
<1>7. ASSUME NEW c \in LClosures, NEW u \in UpVals, NEW v \in Obj \cup {Nil},
             OpSetUpval(c, u, v)
      PROVE  TypeInv'
  BY <1>1, <1>7, ForwardBarrierType, WriteUpValueType DEF TypeInv, TypeOK, OpSetUpval, lists
<1>8. ASSUME NEW c \in CClosures, NEW v \in Obj, SetCUpvalue(c, v) PROVE TypeInv'
  <2>1. holds' \in [Closures \cup Protos -> SUBSET Obj]
    BY <1>8 DEF SetCUpvalue, TypeInv, TypeOK, Closures
  <2> QED BY <1>8, <2>1, ForwardBarrierType DEF TypeInv, TypeOK, SetCUpvalue, lists
<1> QED BY <1>2, <1>3, <1>4, <1>5, <1>6, <1>7, <1>8

LEMMA CloseUpvalsType ==
  ASSUME TypeInv, NEW level \in Slots, CloseUpvals(level)
  PROVE  TypeInv'
<1> DEFINE ups   == {u \in OpenUpvals(running) : openat[u][2] >= level}
           dead  == {u \in ups : IsDead(u)}
           live  == ups \ dead
           grays == {u \in live : color[u] = "gray"}
           more  == IF gcstate = "propagate" THEN {UpValue(u) : u \in grays} ELSE {}
<1>1. live \subseteq RootList
  BY DisjointKinds DEF OpenUpvals, RootList, Obj
<1>2. Marked(more) \in [Obj -> Colors] /\ MarkedGray(more) \subseteq Grayable
  BY MarkedType DEF TypeInv, TypeOK
<1>3. /\ color' = [o \in Obj |-> IF o \in dead THEN "free"
                                 ELSE IF o \in grays THEN ClosedColor ELSE Marked(more)[o]]
      /\ gray' = gray \cup MarkedGray(more)
      /\ closedval' = [u \in UpVals |-> IF u \in live THEN UpValue(u) ELSE closedval[u]]
      /\ openat' = Reset(openat, ups, Nil)
      /\ Link(live)
      /\ UNCHANGED <<grayagain, lists, content, metatable, env, upvals, holds,
                     stack, running, basemt>>
  BY DEF CloseUpvals
<1> HIDE DEF ups, dead, live, grays, more
<1>4. color' \in [Obj -> Colors]
  BY <1>2, <1>3 DEF ClosedColor, Colors, Whites
<1>5. closedval' \in [UpVals -> Val \cup {Nil}]
  BY <1>3, UpValueType DEF TypeInv, TypeOK
<1>6. openat' \in [UpVals -> (Threads \X Slots) \cup {Nil}]
  BY <1>3 DEF TypeInv, TypeOK, Reset
<1>7. unswept' \subseteq RootList
  BY <1>1, <1>3 DEF TypeInv, TypeOK, Link
<1> QED BY <1>2, <1>3, <1>4, <1>5, <1>6, <1>7 DEF TypeInv, TypeOK, lists

LEMMA ValuesAreObjects == InHand \subseteq Obj /\ Values \subseteq Obj /\ Readable \subseteq Obj
<1>1. InHand \subseteq Obj /\ Values \subseteq Obj
  BY DEF InHand, Values
<1>2. \A o : Refs(o) \subseteq Obj
  BY DEF Refs
<1>3. \A S : UNION {Refs(o) : o \in S} \subseteq Obj
  BY <1>2
<1> QED BY <1>1, <1>3 DEF Readable

LEMMA MutatorType ==
  ASSUME TypeInv, MutatorStep
  PROVE  TypeInv'
<1> USE ValuesAreObjects
<1>1. CASE Yield \/ \E th \in Threads : Resume(th)
  BY <1>1, ConstantsAssumption DEF TypeInv, TypeOK, Yield, Resume, lists
<1>2. CASE \E level \in Slots : CloseUpvals(level)
  BY <1>2, CloseUpvalsType
<1>3. CASE \E s \in Slots, c \in LClosures, cl \in LClosures, p \in Protos,
              l \in Slots \cup {Nil} : OpClosure(c, cl, p, l, s)
  BY <1>3, OpClosureType
<1>4. CASE \E s \in Slots :
             \/ \E t \in Tables : NewTable(t, s)
             \/ \E x \in Strings : NewString(x, s)
             \/ \E u \in Userdata : NewUserdata(u, s)
             \/ \E th \in Threads : NewThread(th, s)
             \/ \E c \in CClosures : PushCClosure(c, s)
             \/ \E p \in Protos : NewProto(p, s)
             \/ \E c \in LClosures, p \in Protos : ParserClosure(c, p, s)
  BY <1>4, NewObjectsType
<1>5. CASE \/ \E t \in Tables, k \in Keys, v \in Obj \cup {Nil} : TableSet(t, k, v)
           \/ \E t \in Tables, mt \in Tables \cup {Nil} : SetTableMetatable(t, mt)
  BY <1>5, TableWritesType
<1>6. CASE \/ \E th \in Threads, s \in Slots, v \in Obj \cup {Nil} : Store(th, s, v)
           \/ \E p \in Protos, x \in Strings \cup Protos : AddConstant(p, x)
           \/ \E u \in Userdata, mt \in Tables \cup {Nil} : SetUdataMetatable(u, mt)
           \/ \E mt \in Tables \cup {Nil} : SetBaseMetatable(mt)
           \/ \E o \in Closures \cup Userdata \cup Threads, e \in Tables : SetFenv(o, e)
           \/ \E c \in LClosures, u \in UpVals, v \in Obj \cup {Nil} : OpSetUpval(c, u, v)
           \/ \E c \in CClosures, v \in Obj : SetCUpvalue(c, v)
  BY <1>6, OtherWritesType
<1>7. \A o, e : SetFenv(o, e) => o \in Closures \cup Userdata \cup Threads
  BY DEF SetFenv
<1>8. Written \subseteq Tables
  BY ConstantsAssumption
<1> QED BY <1>1, <1>2, <1>3, <1>4, <1>5, <1>6, <1>7, <1>8 DEF MutatorStep

LEMMA TypeNext == TypeInv /\ [Next]_vars => TypeInv'
<1> SUFFICES ASSUME TypeInv, [Next]_vars PROVE TypeInv'
  OBVIOUS
<1>1. CASE UNCHANGED vars
  BY <1>1 DEF TypeInv, TypeOK, vars, collector, heap
<1> QED BY <1>1, CollectorType, MutatorType, FullGCType DEF Next

\* Every reachable state has the types that the code's declarations give it, for
\* any heap: the lists hold objects with a gclist, userdata or tables, the sweep
\* stays inside the string table.
THEOREM TypeCorrect == Spec => []TypeOK
<1>1. TypeInv => TypeOK
  BY DEF TypeInv
<1> QED BY <1>1, TypeInit, TypeNext, PTL DEF Spec

=============================================================================
