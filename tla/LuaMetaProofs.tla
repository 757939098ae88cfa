--------------------------- MODULE LuaMetaProofs ---------------------------
(* Proofs about LuaMeta. *)
EXTENDS LuaMeta, LuaSequences

\* A store in progress has a key and a value.
OpOK ==
  /\ op.kind \in {"none", "get", "set", "concat"}
  /\ op.kind = "set" => op.k \in Slots /\ op.v \in Value

IInv == TypeOK /\ OpOK /\ CacheTruthful

\* What fasttm does to the flags keeps their type and their truth: it sets the
\* bit of an event only where the metatable has no value.
LEMMA CachedOK ==
  ASSUME raw \in [Tables -> [Slots -> Value]],
         NEW fl \in [Tables -> SUBSET FastEvents],
         \A t \in Tables : \A e \in fl[t] \cap Slots : raw[t][e] = Nil,
         NEW m \in Tables \cup {NULL}, NEW ev \in FastEvents
  PROVE  /\ Cached(fl, m, ev) \in [Tables -> SUBSET FastEvents]
         /\ \A t \in Tables : \A e \in Cached(fl, m, ev)[t] \cap Slots : raw[t][e] = Nil
<1>1. CASE m = NULL \/ Held(m, ev) # Nil
  BY <1>1 DEF Cached
<1>2. CASE m \in Tables /\ m # NULL /\ Held(m, ev) = Nil
  <2>1. Cached(fl, m, ev) = [fl EXCEPT ![m] = @ \cup {ev}]
    BY <1>2 DEF Cached
  <2>2. ev \in Slots => raw[m][ev] = Nil
    BY <1>2 DEF Held
  <2> QED BY <1>2, <2>1, <2>2
<1> QED BY <1>1, <1>2

\* The cache is transparent: while it is truthful, fasttm finds what is held.
LEMMA Transparent ==
  ASSUME CacheTruthful, NEW m \in Tables \cup {NULL}, NEW e
  PROVE  fasttm(flags, m, e) = Held(m, e)
BY DEF CacheTruthful, fasttm, Held

\* The initial state satisfies the invariant.
LEMMA InitIInv == Init => IInv
BY DEF Init, IInv, TypeOK, OpOK, CacheTruthful, None, Value

\* A step that leaves the tables and their flags alone.
LEMMA SameTables ==
  ASSUME IInv, UNCHANGED <<program, raw, mt, flags>>, OpOK'
  PROVE  IInv'
BY DEF IInv, TypeOK, CacheTruthful

\* A step that sets at most one bit of one table's flags.
LEMMA CacheStep ==
  ASSUME IInv, NEW m \in Tables \cup {NULL}, NEW e \in FastEvents,
         flags' = Cached(flags, m, e), UNCHANGED <<program, raw, mt>>, OpOK'
  PROVE  IInv'
<1>1. /\ Cached(flags, m, e) \in [Tables -> SUBSET FastEvents]
      /\ \A t \in Tables : \A x \in Cached(flags, m, e)[t] \cap Slots : raw[t][x] = Nil
  BY CachedOK DEF IInv, TypeOK, CacheTruthful
<1> QED BY <1>1 DEF IInv, TypeOK, CacheTruthful

\* An operation that ends, or waits for a call, is no longer in progress.
LEMMA Gives == ASSUME NEW v, Give(v) PROVE OpOK'
BY DEF Give, OpOK, None
\* The same, ending with an error.
LEMMA Fails == ASSUME NEW why, Fail(why) PROVE OpOK'
BY DEF Fail, OpOK, None
\* The same, waiting for the call.
LEMMA CallsTM == ASSUME NEW f, NEW args, NEW rest, CallTM(f, args, rest) PROVE OpOK'
BY Fails DEF CallTM, CallFunction, OpOK, None

---------------------------------------------------------------------------
(* One lemma for each action that can disturb the invariant *)

\* luaV_gettable only fills the cache.
LEMMA GetKeeps == ASSUME IInv, GetLoop PROVE IInv'
<1> DEFINE t == op.t
           m == IF t \in Tables THEN mt[t] ELSE NULL
           tm == IF t \in Tables THEN fasttm(flags, m, "__index") ELSE gettmbyobj(t, "__index")
<1>1. m \in Tables \cup {NULL}
  BY DEF IInv, TypeOK, Objects
<1>2. OpOK'
  <2>1. CASE \/ \E v : Give(v)
             \/ \E why : Fail(why)
             \/ CallTM(tm, <<t, op.k>>, [kind |-> "get"])
    BY <2>1, Gives, Fails, CallsTM
  <2>2. CASE op' = Getting(op.from, tm, op.k, op.loop + 1)
    BY <2>2 DEF OpOK, Getting
  <2> QED BY <2>1, <2>2 DEF GetLoop
<1>3. CASE UNCHANGED flags
  BY <1>2, <1>3, SameTables DEF GetLoop
<1>4. CASE flags' = Cached(flags, m, "__index")
  BY <1>1, <1>2, <1>4, CacheStep DEF GetLoop, FastEvents
<1> QED BY <1>3, <1>4 DEF GetLoop

\* luaV_settable stores into one table, whose flags it clears, or only asks.
LEMMA SetKeeps == ASSUME IInv, SetLoop PROVE IInv'
<1> DEFINE t == op.t
           m == IF t \in Tables THEN mt[t] ELSE NULL
           clear == IF t \in Tables THEN [flags EXCEPT ![t] = {}] ELSE flags
           asked == Cached(clear, m, "__newindex")
           tm == IF t \in Tables THEN fasttm(clear, m, "__newindex")
                 ELSE gettmbyobj(t, "__newindex")
           store == /\ t \in Tables
                    /\ raw' = [raw EXCEPT ![t][op.k] = op.v]
                    /\ flags' \in {[clear EXCEPT ![t] = {}], [asked EXCEPT ![t] = {}]}
                    /\ op' = None
<1>1. m \in Tables \cup {NULL}
  BY DEF IInv, TypeOK, Objects
<1>2. /\ clear \in [Tables -> SUBSET FastEvents]
      /\ \A s \in Tables : \A e \in clear[s] \cap Slots : raw[s][e] = Nil
  BY DEF IInv, TypeOK, CacheTruthful
<1>3. /\ asked \in [Tables -> SUBSET FastEvents]
      /\ \A s \in Tables : \A e \in asked[s] \cap Slots : raw[s][e] = Nil
  <2>1. "__newindex" \in FastEvents
    BY DEF FastEvents
  <2> HIDE DEF clear, m
  <2> QED BY <1>1, <1>2, <2>1, CachedOK DEF IInv, TypeOK
<1>4. program' = program /\ mt' = mt
  BY DEF SetLoop
<1>5. CASE store
  <2>1. OpOK'
    BY <1>5 DEF OpOK, None
  <2>2. op.k \in Slots /\ op.v \in Value
    BY DEF SetLoop, IInv, OpOK
  <2>3. raw' \in [Tables -> [Slots -> Value]]
    BY <1>5, <2>2 DEF IInv, TypeOK
  <2>4. \A s \in Tables : s # t => raw'[s] = raw[s]
    BY <1>5 DEF IInv, TypeOK
  <2>5. /\ flags' \in [Tables -> SUBSET FastEvents]
        /\ \A s \in Tables : \A e \in flags'[s] \cap Slots : s # t /\ raw[s][e] = Nil
    <3> HIDE DEF clear, asked
    <3> QED BY <1>2, <1>3, <1>5
  <2> QED BY <1>4, <2>1, <2>3, <2>4, <2>5 DEF IInv, TypeOK, CacheTruthful
<1>6. CASE raw' = raw /\ flags' \in {flags, clear} /\ OpOK'
  <2> HIDE DEF clear
  <2> QED BY <1>2, <1>4, <1>6 DEF IInv, TypeOK, CacheTruthful
<1>7. store \/ (raw' = raw /\ flags' \in {flags, clear} /\ OpOK')
  <2>1. CASE op' = Setting(op.from, tm, op.k, op.v, op.loop + 1) /\ raw' = raw /\ flags' = clear
    BY <2>1 DEF IInv, OpOK, SetLoop, Setting
  <2>2. CASE (\E why : Fail(why)) /\ raw' = raw /\ flags' \in {flags, clear}
    BY <2>2, Fails
  <2>3. CASE CallTM(tm, <<t, op.k, op.v>>, [kind |-> "set"]) /\ raw' = raw /\ flags' = clear
    BY <2>3, CallsTM
  <2>4. CASE store
    BY <2>4
  <2> QED BY <2>1, <2>2, <2>3, <2>4 DEF SetLoop
<1> QED BY <1>5, <1>6, <1>7

\* luaV_equalval only fills the cache.
LEMMA EqualKeeps == ASSUME IInv, NEW p \in Comparable, Equal(p) PROVE IInv'
<1> DEFINE m1 == mt[p[1]]
           m2 == mt[p[2]]
           tm == compTM(m1, m2, "__eq")
<1>1. m1 \in Tables \cup {NULL} /\ m2 \in Tables \cup {NULL}
  BY DEF IInv, TypeOK, Objects, Comparable
<1>2. OpOK'
  BY Gives, CallsTM DEF Equal
<1>3. CASE UNCHANGED flags
  BY <1>2, <1>3, SameTables DEF Equal
<1>4. CASE flags' = Cached(flags, m1, "__eq") \/ flags' = Cached(flags, m2, "__eq")
  <2> HIDE DEF m1, m2
  <2> QED BY <1>1, <1>2, <1>4, CacheStep DEF Equal, FastEvents
<1> QED BY <1>3, <1>4 DEF Equal, CompCached

\* lua_rawset stores into one table, whose flags it clears.
LEMMA RawSetKeeps ==
  ASSUME IInv, NEW t \in Tables, NEW k \in Slots, NEW v \in Value, RawSet(t, k, v)
  PROVE  IInv'
<1>1. OpOK'
  BY DEF RawSet, IInv, OpOK
<1>2. raw' \in [Tables -> [Slots -> Value]] /\ \A s \in Tables : s # t => raw'[s] = raw[s]
  BY DEF RawSet, IInv, TypeOK
<1> QED BY <1>1, <1>2 DEF RawSet, IInv, TypeOK, CacheTruthful

\* The collector only fills the cache.
LEMMA CollectorKeeps == ASSUME IInv, CollectorAsks PROVE IInv'
<1>1. PICK o \in Tables \cup Userdata, e \in {"__gc", "__mode"} :
        flags' = Cached(flags, mt[o], e)
  BY DEF CollectorAsks
<1>2. mt[o] \in Tables \cup {NULL}
  BY DEF IInv, TypeOK, Objects
<1>3. OpOK'
  BY DEF CollectorAsks, IInv, OpOK
<1> QED BY <1>1, <1>2, <1>3, CacheStep DEF CollectorAsks, FastEvents

\* Every step keeps the invariant.
LEMMA StepKeeps == ASSUME IInv, [Next]_vars PROVE IInv'
<1>1. CASE BeginGet
  BY <1>1, SameTables DEF BeginGet, Begin, Getting, OpOK
<1>2. CASE BeginSet
  <2>1. PICK o \in Objects, w \in program.writes : Begin(Setting(o, o, w[2], w[3], 0))
    BY <1>2 DEF BeginSet
  <2>2. w[2] \in Slots /\ w[3] \in Value
    BY ProgramsAssumption DEF IInv, TypeOK
  <2>3. OpOK'
    BY <2>1, <2>2 DEF Begin, Setting, OpOK
  <2> QED BY <2>1, <2>3, SameTables DEF Begin
<1>3. CASE BeginConcat
  BY <1>3, SameTables DEF BeginConcat, Begin, Concatenation, OpOK
<1>4. CASE GetLoop
  BY <1>4, GetKeeps
<1>5. CASE SetLoop
  BY <1>5, SetKeeps
<1>6. CASE \E p \in Comparable : Equal(p)
  BY <1>6, EqualKeeps
<1>7. CASE \E p \in Comparable : LessThan(p) \/ LessEqual(p)
  <2>1. OpOK'
    BY <1>7, Fails, CallsTM DEF LessThan, LessEqual
  <2> QED BY <1>7, <2>1, SameTables DEF LessThan, LessEqual
<1>8. CASE Arith \/ Length
  <2>1. OpOK'
    BY <1>8, Fails, CallsTM DEF Arith, Length
  <2> QED BY <1>8, <2>1, SameTables DEF Arith, Length
<1>9. CASE ConcatPass
  <2>1. OpOK'
    BY <1>9, Gives, Fails, CallsTM DEF ConcatPass, Concatenation, OpOK
  <2> QED BY <1>9, <2>1, SameTables DEF ConcatPass
<1>10. CASE CallObject
  <2>1. OpOK'
    BY <1>10, Fails DEF CallObject, CallFunction, OpOK, None
  <2> QED BY <1>10, <2>1, SameTables DEF CallObject
<1>11. CASE \E v \in program.answers : Return(v)
  <2>1. OpOK'
    BY <1>11 DEF Return, Concatenation, IInv, OpOK
  <2> QED BY <1>11, <2>1, SameTables DEF Return
<1>12. CASE Raise \/ UNCHANGED vars \/ \E m \in program.metas : SetMetatable(m[1], m[2])
  <2>1. OpOK'
    BY <1>12 DEF Raise, SetMetatable, vars, IInv, OpOK
  <2>2. CASE Raise \/ UNCHANGED vars
    BY <2>1, <2>2, SameTables DEF Raise, vars
  <2>3. CASE \E m \in program.metas : SetMetatable(m[1], m[2])
    <3>1. PICK m \in program.metas : SetMetatable(m[1], m[2])
      BY <2>3
    <3>2. m[1] \in Objects /\ m[2] \in Tables \cup {NULL}
      BY ProgramsAssumption DEF IInv, TypeOK
    <3> QED BY <2>1, <3>1, <3>2 DEF SetMetatable, IInv, TypeOK, CacheTruthful
  <2> QED BY <1>12, <2>2, <2>3
<1>13. CASE \E w \in program.writes : RawSet(w[1], w[2], w[3])
  <2>1. PICK w \in program.writes : RawSet(w[1], w[2], w[3])
    BY <1>13
  <2>2. w[1] \in Tables /\ w[2] \in Slots /\ w[3] \in Value
    BY ProgramsAssumption DEF IInv, TypeOK
  <2> QED BY <2>1, <2>2, RawSetKeeps
<1>14. CASE CollectorAsks
  BY <1>14, CollectorKeeps
<1> QED BY <1>1, <1>2, <1>3, <1>4, <1>5, <1>6, <1>7, <1>8, <1>9, <1>10, <1>11, <1>12, <1>13,
           <1>14 DEF Next

\* The invariant holds in every state.
LEMMA Inductive == Spec => []IInv
<1>1. IInv /\ [Next]_vars => IInv'
  BY StepKeeps
<1> QED BY <1>1, InitIInv, PTL DEF Spec

---------------------------------------------------------------------------
(* The theorems *)

\* No bit of flags hides a metamethod (ltm.c's cache against every store of
\* lvm.c and lapi.c), for any tables, programs and depth of calls.
THEOREM CacheIsTruthful == Spec => []CacheTruthful
<1>1. IInv => CacheTruthful
  BY DEF IInv
<1> QED BY <1>1, Inductive, PTL

\* The tables, metatables and flags keep their types.
THEOREM TypeCorrect == Spec => []TypeOK
<1>1. IInv => TypeOK
  BY DEF IInv
<1> QED BY <1>1, Inductive, PTL

\* ==, < and <= take the handler the manual says although they look for it
\* through the cache (get_compTM, call_orderTM).
THEOREM ComparesByHandler == Spec => Comparing
<1> DEFINE swap(p) == <<p[2], p[1]>>
           Compared(p) ==
             LET sw == <<p[2], p[1]>>
                 eq == Handler(p, "__eq")  lt == Handler(p, "__lt")
                 le == Handler(p, "__le")  gt == Handler(sw, "__lt")
             IN /\ Equal(p) => IF p[1] = p[2] \/ eq = Nil
                               THEN outcome' = <<"value", p[1] = p[2]>> ELSE Calls(eq, p, FALSE)
                /\ LessThan(p) => IF lt = Nil THEN outcome'[1] = "error" ELSE Calls(lt, p, FALSE)
                /\ LessEqual(p) => IF le # Nil THEN Calls(le, p, FALSE)
                                   ELSE IF gt = Nil THEN outcome'[1] = "error"
                                   ELSE Calls(gt, sw, TRUE)
<1>1. ASSUME IInv, NEW p \in Comparable PROVE Compared(p)
  <2>1. /\ p[1] \in Objects /\ p[2] \in Objects /\ p = <<p[1], p[2]>>
        /\ mt[p[1]] \in Tables \cup {NULL} /\ mt[p[2]] \in Tables \cup {NULL}
    BY <1>1 DEF Comparable, Objects, IInv, TypeOK
  <2>2. ASSUME Equal(p)
        PROVE  IF p[1] = p[2] \/ Handler(p, "__eq") = Nil
               THEN outcome' = <<"value", p[1] = p[2]>> ELSE Calls(Handler(p, "__eq"), p, FALSE)
    <3>1. \A e : Held(mt[p[1]], e) = gettmbyobj(p[1], e) /\ Held(mt[p[2]], e) = gettmbyobj(p[2], e)
      BY <2>1 DEF gettmbyobj, Metatable
    <3>2. compTM(mt[p[1]], mt[p[2]], "__eq") = Handler(p, "__eq")
      BY <1>1, <2>1, <3>1, Transparent DEF compTM, Handler, IInv
    <3>3. CASE p[1] = p[2]
      BY <2>2, <3>3 DEF Equal, Give
    <3>4. CASE p[1] # p[2] /\ Handler(p, "__eq") = Nil
      BY <2>2, <3>2, <3>4 DEF Equal, Give
    <3>5. CASE p[1] # p[2] /\ Handler(p, "__eq") # Nil
      <4>1. CallTM(Handler(p, "__eq"), p, [kind |-> "test"])
        BY <2>2, <3>2, <3>5 DEF Equal
      <4> QED BY <3>5, <4>1 DEF CallTM, CallFunction, Calls
    <3> QED BY <3>3, <3>4, <3>5
  <2>3. \A e : orderTM(p[1], p[2], e) = Handler(p, e) /\ orderTM(p[2], p[1], e) = Handler(swap(p), e)
    BY DEF orderTM, Handler
  <2>4. ASSUME LessThan(p)
        PROVE  IF Handler(p, "__lt") = Nil THEN outcome'[1] = "error"
               ELSE Calls(Handler(p, "__lt"), p, FALSE)
    BY <2>3, <2>4 DEF LessThan, Fail, CallTM, CallFunction, Calls
  <2>5. ASSUME LessEqual(p)
        PROVE  IF Handler(p, "__le") # Nil THEN Calls(Handler(p, "__le"), p, FALSE)
               ELSE IF Handler(swap(p), "__lt") = Nil THEN outcome'[1] = "error"
               ELSE Calls(Handler(swap(p), "__lt"), swap(p), TRUE)
    <3>1. CASE Handler(p, "__le") # Nil
      <4>1. CallTM(Handler(p, "__le"), p, [kind |-> "test"])
        BY <2>3, <2>5, <3>1 DEF LessEqual
      <4> QED BY <3>1, <4>1 DEF CallTM, CallFunction, Calls
    <3>2. CASE Handler(p, "__le") = Nil /\ Handler(swap(p), "__lt") = Nil
      BY <2>3, <2>5, <3>2 DEF LessEqual, Fail
    <3>3. CASE Handler(p, "__le") = Nil /\ Handler(swap(p), "__lt") # Nil
      <4>1. CallTM(Handler(swap(p), "__lt"), swap(p), [kind |-> "not"])
        BY <2>3, <2>5, <3>3 DEF LessEqual
      <4> QED BY <3>3, <4>1 DEF CallTM, CallFunction, Calls
    <3> QED BY <3>1, <3>2, <3>3
  <2> QED BY <2>2, <2>4, <2>5
<1>2. IInv => [\A p \in Comparable : Compared(p)]_vars
  BY <1>1
<1> QED BY <1>2, Inductive, PTL DEF Comparing
---------------------------------------------------------------------------
(* The loops of luaV_gettable and luaV_settable *)

Reachable == Value \cup Objects

\* What an indexing operation that has come to v with n tables to go comes to, f
\* being the same for one table less; likewise for an assignment.
GetEnd(k, f, n, v) ==
  LET h == gettmbyobj(v, "__index")
  IN IF n = 0 THEN <<"error", "loop">>
     ELSE IF v \in Tables /\ raw[v][k] # Nil THEN <<"value", raw[v][k]>>
     ELSE IF h = Nil THEN IF v \in Tables THEN <<"value", Nil>> ELSE <<"error", "index">>
     ELSE IF h \in Functions THEN <<"call", h, <<v, k>>>> ELSE f[n - 1][h]
SetEnd(k, x, f, n, v) ==
  LET h == gettmbyobj(v, "__newindex")
  IN IF n = 0 THEN <<"error", "loop">>
     ELSE IF v \in Tables /\ (raw[v][k] # Nil \/ h = Nil) THEN <<"stored", v>>
     ELSE IF h = Nil THEN <<"error", "index">>
     ELSE IF h \in Functions THEN <<"call", h, <<v, k, x>>>> ELSE f[n - 1][h]

GetEnds(k, f) == \A n \in 0..MaxTagLoop, v \in Reachable : f[n][v] = GetEnd(k, f, n, v)
SetEnds(k, x, f) == \A n \in 0..MaxTagLoop, v \in Reachable : f[n][v] = SetEnd(k, x, f, n, v)

LEMMA IndexedIs ==
  ASSUME NEW k, NEW from
  PROVE  \E f : GetEnds(k, f) /\ Indexed(from, k) = f[MaxTagLoop][from]
<1> DEFINE h(v) == gettmbyobj(v, "__index")
           Is(f) == f = [n \in 0..MaxTagLoop |-> [v \in Value \cup Objects |-> GetEnd(k, f, n, v)]]
<1>1. \E f : Is(f)
  <2>1. PICK s : s = [v \in {w : w \in {u \in Reachable : \/ u \in Tables /\ raw[u][k] # Nil
                                                          \/ h(u) = Nil \/ h(u) \in Functions}} |->
                        IF v \in Tables /\ raw[v][k] # Nil THEN <<"value", raw[v][k]>>
                        ELSE IF h(v) = Nil THEN IF v \in Tables THEN <<"value", Nil>>
                                                ELSE <<"error", "index">>
                        ELSE <<"call", h(v), <<v, k>>>>]
    OBVIOUS
  <2>2. PICK next : next = [v \in Reachable |-> h(v)]
    OBVIOUS
  <2>3. PICK f : Chases(<<"error", "loop">>, s, next, Reachable, f, MaxTagLoop)
    BY ValuesAssumption, ChasingExists
  <2>4. ASSUME NEW n \in 0..MaxTagLoop, NEW v \in Reachable
        PROVE  ChainEnd(<<"error", "loop">>, s, next, f, n, v) = GetEnd(k, f, n, v)
    BY <2>1, <2>2 DEF ChainEnd, GetEnd
  <2>5. f = [n \in 0..MaxTagLoop |-> [v \in Reachable |-> GetEnd(k, f, n, v)]]
    BY <2>3, <2>4 DEF Chases
  <2> QED BY <2>5 DEF Reachable
<1>2. Indexed(from, k) = (CHOOSE f : Is(f))[MaxTagLoop][from]
  BY DEF Indexed, GetEnd
<1>3. PICK g : g = CHOOSE f : Is(f)
  OBVIOUS
<1>4. Is(g)
  BY <1>1, <1>3
<1>5. GetEnds(k, g)
  <2>1. g = [n \in 0..MaxTagLoop |-> [v \in Reachable |-> GetEnd(k, g, n, v)]]
    BY <1>4 DEF Reachable
  <2>2. PICK w : w = [n \in 0..MaxTagLoop |-> [v \in Reachable |-> GetEnd(k, g, n, v)]]
    OBVIOUS
  <2>3. \A n \in 0..MaxTagLoop, v \in Reachable : w[n][v] = GetEnd(k, g, n, v)
    BY ONLY <2>2
  <2>4. w = g
    BY ONLY <2>1, <2>2
  <2> QED BY ONLY <2>3, <2>4 DEF GetEnds
<1> QED BY <1>2, <1>3, <1>5

LEMMA StoredIs ==
  ASSUME NEW k, NEW x, NEW from
  PROVE  \E f : SetEnds(k, x, f) /\ Stored(from, k, x) = f[MaxTagLoop][from]
<1> DEFINE h(v) == gettmbyobj(v, "__newindex")
           Is(f) == f = [n \in 0..MaxTagLoop |-> [v \in Value \cup Objects |-> SetEnd(k, x, f, n, v)]]
<1>1. \E f : Is(f)
  <2>1. PICK s : s = [v \in {w : w \in {u \in Reachable : \/ u \in Tables /\ raw[u][k] # Nil
                                                          \/ h(u) = Nil \/ h(u) \in Functions}} |->
                        IF v \in Tables /\ (raw[v][k] # Nil \/ h(v) = Nil) THEN <<"stored", v>>
                        ELSE IF h(v) = Nil THEN <<"error", "index">>
                        ELSE <<"call", h(v), <<v, k, x>>>>]
    OBVIOUS
  <2>2. PICK next : next = [v \in Reachable |-> h(v)]
    OBVIOUS
  <2>3. PICK f : Chases(<<"error", "loop">>, s, next, Reachable, f, MaxTagLoop)
    BY ValuesAssumption, ChasingExists
  <2>4. ASSUME NEW n \in 0..MaxTagLoop, NEW v \in Reachable
        PROVE  ChainEnd(<<"error", "loop">>, s, next, f, n, v) = SetEnd(k, x, f, n, v)
    BY <2>1, <2>2 DEF ChainEnd, SetEnd
  <2>5. f = [n \in 0..MaxTagLoop |-> [v \in Reachable |-> SetEnd(k, x, f, n, v)]]
    BY <2>3, <2>4 DEF Chases
  <2> QED BY <2>5 DEF Reachable
<1>2. Stored(from, k, x) = (CHOOSE f : Is(f))[MaxTagLoop][from]
  BY DEF Stored, SetEnd
<1>3. PICK g : g = CHOOSE f : Is(f)
  OBVIOUS
<1>4. Is(g)
  BY <1>1, <1>3
<1>5. SetEnds(k, x, g)
  <2>1. g = [n \in 0..MaxTagLoop |-> [v \in Reachable |-> SetEnd(k, x, g, n, v)]]
    BY <1>4 DEF Reachable
  <2>2. PICK w : w = [n \in 0..MaxTagLoop |-> [v \in Reachable |-> SetEnd(k, x, g, n, v)]]
    OBVIOUS
  <2>3. \A n \in 0..MaxTagLoop, v \in Reachable : w[n][v] = SetEnd(k, x, g, n, v)
    BY ONLY <2>2
  <2>4. w = g
    BY ONLY <2>1, <2>2
  <2> QED BY ONLY <2>3, <2>4 DEF SetEnds
<1> QED BY <1>2, <1>3, <1>5

\* An operation under way still comes to what it came to when it began.
GetOnItsWay ==
  op.kind = "get" =>
    /\ op.from \in Objects /\ op.t \in Reachable /\ op.loop \in 0..MaxTagLoop
    /\ \A f : GetEnds(op.k, f) => f[MaxTagLoop][op.from] = f[MaxTagLoop - op.loop][op.t]
SetOnItsWay ==
  op.kind = "set" =>
    /\ op.from \in Objects /\ op.t \in Reachable /\ op.loop \in 0..MaxTagLoop
    /\ \A f : SetEnds(op.k, op.v, f) => f[MaxTagLoop][op.from] = f[MaxTagLoop - op.loop][op.t]

LEMMA LookedUp ==
  ASSUME IInv, NEW t \in Tables, NEW e
  PROVE  /\ fasttm(flags, mt[t], e) = gettmbyobj(t, e)
         /\ fasttm([flags EXCEPT ![t] = {}], mt[t], e) = gettmbyobj(t, e)
<1>1. mt[t] \in Tables \cup {NULL} /\ t \in Objects
  BY DEF IInv, TypeOK, Objects
<1>2. gettmbyobj(t, e) = Held(mt[t], e)
  BY <1>1 DEF gettmbyobj, Metatable
<1>3. \A fl : (\A m \in Tables : \A x \in fl[m] \cap Slots : raw[m][x] = Nil)
                => fasttm(fl, mt[t], e) = Held(mt[t], e)
  BY <1>1 DEF fasttm, Held
<1>4. \A m \in Tables : \A x \in flags[m] \cap Slots : raw[m][x] = Nil
  BY DEF IInv, CacheTruthful
<1>5. \A m \in Tables : \A x \in [flags EXCEPT ![t] = {}][m] \cap Slots : raw[m][x] = Nil
  BY <1>4 DEF IInv, TypeOK
<1> QED BY <1>2, <1>3, <1>4, <1>5

LEMMA HandlerIsValue ==
  ASSUME IInv, NEW v, NEW e
  PROVE  gettmbyobj(v, e) \in Value
<1>1. \A m \in Tables \cup {NULL} : Held(m, e) \in Value
  BY DEF Held, IInv, TypeOK, Value
<1>2. Metatable(v) \in Tables \cup {NULL}
  BY DEF Metatable, IInv, TypeOK, Objects
<1> QED BY <1>1, <1>2 DEF gettmbyobj

\* While raw and the metatables stay, so do the ends.
LEMMA SameEnds ==
  ASSUME UNCHANGED <<raw, mt>>
  PROVE  /\ \A k, f : GetEnds(k, f)' <=> GetEnds(k, f)
         /\ \A k, x, f : SetEnds(k, x, f)' <=> SetEnds(k, x, f)
<1>1. \A v, e : gettmbyobj(v, e)' = gettmbyobj(v, e)
  BY DEF gettmbyobj, Metatable, Held
<1> QED BY <1>1 DEF GetEnds, SetEnds, GetEnd, SetEnd

\* One iteration of luaV_gettable ends as it should, or goes on to the handler.
LEMMA GetGoesOn ==
  ASSUME IInv, GetOnItsWay, GetLoop
  PROVE  /\ GetOnItsWay'
         /\ Idle' => outcome' = Indexed(op.from, op.k)
<1> DEFINE t == op.t
           h == gettmbyobj(t, "__index")
           n == MaxTagLoop - op.loop
<1>1. /\ op.kind = "get" /\ op.from \in Objects /\ t \in Reachable /\ n \in 0..MaxTagLoop
      /\ op.loop \in 0..MaxTagLoop /\ (n = 0 <=> op.loop = MaxTagLoop) /\ h \in Value
      /\ UNCHANGED <<raw, mt>>
  BY ValuesAssumption, HandlerIsValue DEF GetLoop, GetOnItsWay
<1>2. (IF t \in Tables THEN fasttm(flags, IF t \in Tables THEN mt[t] ELSE NULL, "__index")
       ELSE gettmbyobj(t, "__index")) = h
  BY LookedUp
<1>3. \/ n = 0 /\ Fail("loop")
      \/ n # 0 /\ t \in Tables /\ raw[t][op.k] # Nil /\ Give(raw[t][op.k])
      \/ /\ n # 0 /\ ~(t \in Tables /\ raw[t][op.k] # Nil) /\ h = Nil
         /\ IF t \in Tables THEN Give(Nil) ELSE Fail("index")
      \/ /\ n # 0 /\ ~(t \in Tables /\ raw[t][op.k] # Nil) /\ h # Nil /\ h \in Functions
         /\ CallTM(h, <<t, op.k>>, [kind |-> "get"])
      \/ /\ n # 0 /\ ~(t \in Tables /\ raw[t][op.k] # Nil) /\ h # Nil /\ h \notin Functions
         /\ op' = Getting(op.from, h, op.k, op.loop + 1)
  BY <1>1, <1>2 DEF GetLoop
<1>4. CASE op' = Getting(op.from, h, op.k, op.loop + 1) /\ n # 0
           /\ ~(t \in Tables /\ raw[t][op.k] # Nil) /\ h # Nil /\ h \notin Functions
  <2>1. /\ op'.kind = "get" /\ op'.from = op.from /\ op'.t = h /\ op'.k = op.k
        /\ op'.loop = op.loop + 1
    BY <1>4 DEF Getting
  <2>2. op.loop + 1 \in 0..MaxTagLoop /\ MaxTagLoop - (op.loop + 1) = n - 1
    BY <1>1, <1>4, ValuesAssumption
  <2>3. ASSUME NEW f, GetEnds(op.k, f) PROVE f[MaxTagLoop][op.from] = f[n - 1][h]
    <3>1. f[n][t] = GetEnd(op.k, f, n, t)
      BY <1>1, <2>3 DEF GetEnds
    <3>2. f[n][t] = f[n - 1][h]
      BY <1>4, <3>1 DEF GetEnd
    <3> QED BY <1>1, <2>3, <3>2 DEF GetOnItsWay
  <2>4. h \in Reachable
    BY <1>1 DEF Reachable
  <2>5. GetOnItsWay'
    BY <1>1, <2>1, <2>2, <2>3, <2>4, SameEnds DEF GetOnItsWay
  <2> QED BY <2>1, <2>5 DEF Idle
<1>5. PICK f : GetEnds(op.k, f) /\ Indexed(op.from, op.k) = f[MaxTagLoop][op.from]
  BY IndexedIs
<1>6. Indexed(op.from, op.k) = GetEnd(op.k, f, n, t)
  BY <1>1, <1>5 DEF GetOnItsWay, GetEnds
<1>7. ASSUME op' = None, outcome' = GetEnd(op.k, f, n, t)
      PROVE  GetOnItsWay' /\ (Idle' => outcome' = Indexed(op.from, op.k))
  BY <1>6, <1>7 DEF GetOnItsWay, None
<1>8. CASE n = 0 /\ Fail("loop")
  BY <1>7, <1>8 DEF Fail, GetEnd
<1>9. CASE n # 0 /\ t \in Tables /\ raw[t][op.k] # Nil /\ Give(raw[t][op.k])
  BY <1>7, <1>9 DEF Give, GetEnd
<1>10. CASE /\ n # 0 /\ ~(t \in Tables /\ raw[t][op.k] # Nil) /\ h = Nil
            /\ IF t \in Tables THEN Give(Nil) ELSE Fail("index")
  BY <1>7, <1>10 DEF Give, Fail, GetEnd
<1>11. CASE /\ n # 0 /\ ~(t \in Tables /\ raw[t][op.k] # Nil) /\ h # Nil /\ h \in Functions
            /\ CallTM(h, <<t, op.k>>, [kind |-> "get"])
  BY <1>7, <1>11 DEF CallTM, CallFunction, GetEnd
<1> HIDE DEF t, h, n
<1> QED BY <1>3, <1>4, <1>8, <1>9, <1>10, <1>11

\* So does one of luaV_settable.
LEMMA SetGoesOn ==
  ASSUME IInv, SetOnItsWay, SetLoop
  PROVE  /\ SetOnItsWay'
         /\ Idle' => outcome' = Stored(op.from, op.k, op.v)
<1> DEFINE t == op.t
           h == gettmbyobj(t, "__newindex")
           n == MaxTagLoop - op.loop
<1>1. /\ op.kind = "set" /\ op.from \in Objects /\ t \in Reachable /\ n \in 0..MaxTagLoop
      /\ op.loop \in 0..MaxTagLoop /\ (n = 0 <=> op.loop = MaxTagLoop) /\ h \in Value
      /\ UNCHANGED mt
  BY ValuesAssumption, HandlerIsValue DEF SetLoop, SetOnItsWay
<1>2. (IF t \in Tables THEN fasttm(IF t \in Tables THEN [flags EXCEPT ![t] = {}] ELSE flags,
                                   IF t \in Tables THEN mt[t] ELSE NULL, "__newindex")
       ELSE gettmbyobj(t, "__newindex")) = h
  BY LookedUp
<1>3. \/ n = 0 /\ Fail("loop")
      \/ /\ n # 0 /\ t \in Tables /\ (raw[t][op.k] # Nil \/ h = Nil)
         /\ op' = None /\ outcome' = <<"stored", t>>
      \/ n # 0 /\ ~(t \in Tables /\ (raw[t][op.k] # Nil \/ h = Nil)) /\ h = Nil /\ Fail("index")
      \/ /\ n # 0 /\ ~(t \in Tables /\ (raw[t][op.k] # Nil \/ h = Nil)) /\ h # Nil
         /\ h \in Functions /\ CallTM(h, <<t, op.k, op.v>>, [kind |-> "set"])
      \/ /\ n # 0 /\ ~(t \in Tables /\ (raw[t][op.k] # Nil \/ h = Nil)) /\ h # Nil
         /\ h \notin Functions /\ op' = Setting(op.from, h, op.k, op.v, op.loop + 1)
         /\ UNCHANGED raw
  BY <1>1, <1>2 DEF SetLoop
<1>4. CASE /\ n # 0 /\ ~(t \in Tables /\ (raw[t][op.k] # Nil \/ h = Nil)) /\ h # Nil
           /\ h \notin Functions /\ op' = Setting(op.from, h, op.k, op.v, op.loop + 1)
           /\ UNCHANGED raw
  <2>1. /\ op'.kind = "set" /\ op'.from = op.from /\ op'.t = h /\ op'.k = op.k
        /\ op'.v = op.v /\ op'.loop = op.loop + 1
    BY <1>4 DEF Setting
  <2>2. op.loop + 1 \in 0..MaxTagLoop /\ MaxTagLoop - (op.loop + 1) = n - 1
    BY <1>1, <1>4, ValuesAssumption
  <2>3. ASSUME NEW f, SetEnds(op.k, op.v, f) PROVE f[MaxTagLoop][op.from] = f[n - 1][h]
    <3>1. f[n][t] = SetEnd(op.k, op.v, f, n, t)
      BY <1>1, <2>3 DEF SetEnds
    <3>2. f[n][t] = f[n - 1][h]
      BY <1>4, <3>1 DEF SetEnd
    <3> QED BY <1>1, <2>3, <3>2 DEF SetOnItsWay
  <2>4. h \in Reachable
    BY <1>1 DEF Reachable
  <2>5. SetOnItsWay'
    BY <1>1, <1>4, <2>1, <2>2, <2>3, <2>4, SameEnds DEF SetOnItsWay
  <2> QED BY <2>1, <2>5 DEF Idle
<1>5. PICK f : SetEnds(op.k, op.v, f) /\ Stored(op.from, op.k, op.v) = f[MaxTagLoop][op.from]
  BY StoredIs
<1>6. Stored(op.from, op.k, op.v) = SetEnd(op.k, op.v, f, n, t)
  BY <1>1, <1>5 DEF SetOnItsWay, SetEnds
<1>7. ASSUME op' = None, outcome' = SetEnd(op.k, op.v, f, n, t)
      PROVE  SetOnItsWay' /\ (Idle' => outcome' = Stored(op.from, op.k, op.v))
  BY <1>6, <1>7 DEF SetOnItsWay, None
<1>8. CASE n = 0 /\ Fail("loop")
  BY <1>7, <1>8 DEF Fail, SetEnd
<1>9. CASE /\ n # 0 /\ t \in Tables /\ (raw[t][op.k] # Nil \/ h = Nil)
           /\ op' = None /\ outcome' = <<"stored", t>>
  BY <1>7, <1>9 DEF SetEnd
<1>10. CASE n # 0 /\ ~(t \in Tables /\ (raw[t][op.k] # Nil \/ h = Nil)) /\ h = Nil /\ Fail("index")
  BY <1>7, <1>10 DEF Fail, SetEnd
<1>11. CASE /\ n # 0 /\ ~(t \in Tables /\ (raw[t][op.k] # Nil \/ h = Nil)) /\ h # Nil
            /\ h \in Functions /\ CallTM(h, <<t, op.k, op.v>>, [kind |-> "set"])
  BY <1>7, <1>11 DEF CallTM, CallFunction, SetEnd
<1> HIDE DEF t, h, n
<1> QED BY <1>3, <1>4, <1>8, <1>9, <1>10, <1>11

---------------------------------------------------------------------------
(* Concatenation: folding from the right *)

Folds(vs, f) ==
  \A i \in 1..Len(vs) : f[i] = IF i = Len(vs) THEN <<vs[i]>> ELSE Attached(vs[i], f[i + 1])

FoldsFrom(vs, f, n, m) ==
  f = [i \in (n - m)..n |-> IF i = n THEN <<vs[i]>> ELSE Attached(vs[i], f[i + 1])]

LEMMA FoldingExists ==
  ASSUME NEW vs, NEW n \in Nat, n >= 1
  PROVE  \E f : FoldsFrom(vs, f, n, n - 1)
<1> DEFINE P == {m \in 0..(n - 1) : \E f : FoldsFrom(vs, f, n, m)}
<1>1. 0 \in P
  <2>1. PICK f : f = [i \in n..n |-> <<vs[i]>>]
    OBVIOUS
  <2>2. FoldsFrom(vs, f, n, 0)
    BY <2>1 DEF FoldsFrom
  <2> QED BY <2>2
<1>2. ASSUME NEW m \in 0..(n - 1 - 1), m \in P PROVE m + 1 \in P
  <2>1. PICK f : FoldsFrom(vs, f, n, m)
    BY <1>2
  <2>2. PICK p : p = n - (m + 1)
    OBVIOUS
  <2>3. p \in Nat /\ p # n /\ p + 1 = n - m /\ p + 1 <= n
    BY <2>2
  <2>4. PICK w : w = Attached(vs[p], f[p + 1])
    OBVIOUS
  <2>5. PICK g : g = [i \in p..n |-> IF i = p THEN w ELSE f[i]]
    OBVIOUS
  <2>6. ASSUME NEW i \in p..n
        PROVE  g[i] = IF i = n THEN <<vs[i]>> ELSE Attached(vs[i], g[i + 1])
    <3>1. i # n => i + 1 \in p..n /\ i + 1 # p
      BY <2>3
    <3>2. i # n => g[i + 1] = f[i + 1]
      BY <2>5, <3>1
    <3>3. CASE i = p
      BY <2>3, <2>4, <2>5, <3>2, <3>3
    <3>4. CASE i # p
      <4>1. i \in (n - m)..n
        BY <2>3, <3>4
      <4>2. f[i] = IF i = n THEN <<vs[i]>> ELSE Attached(vs[i], f[i + 1])
        BY <2>1, <4>1 DEF FoldsFrom
      <4> QED BY <2>5, <3>2, <3>4, <4>2
    <3> QED BY <3>3, <3>4
  <2>7. g = [i \in p..n |-> g[i]]
    BY <2>5
  <2>8. FoldsFrom(vs, g, n, m + 1)
    BY <2>2, <2>6, <2>7 DEF FoldsFrom
  <2> QED BY <2>8
<1> HIDE DEF P
<1>3. n - 1 \in P
  <2>1. \A m \in 0..(n - 1 - 1) : m \in P => m + 1 \in P
    BY <1>2
  <2>2. n - 1 \in Nat /\ n - 1 \in 0..(n - 1)
    OBVIOUS
  <2>3. \A m \in 0..(n - 1) : m \in P
    BY ONLY <1>1, <2>1, <2>2, Induction
  <2> QED BY <2>2, <2>3
<1> QED BY <1>3 DEF P

LEMMA FoldedIs ==
  ASSUME NEW vs \in Seq(Operand), Len(vs) >= 1
  PROVE  \E f : Folds(vs, f) /\ Folded(vs) = f[1]
<1> DEFINE Is(f) == f = [i \in 1..Len(vs) |->
                           IF i = Len(vs) THEN <<vs[i]>> ELSE Attached(vs[i], f[i + 1])]
<1>1. \E f : Is(f)
  <2>1. PICK n : n = Len(vs)
    OBVIOUS
  <2>2. n \in Nat /\ n >= 1 /\ n - (n - 1) = 1
    BY <2>1
  <2>3. PICK f : FoldsFrom(vs, f, n, n - 1)
    BY <2>2, FoldingExists
  <2> QED BY <2>1, <2>2, <2>3 DEF FoldsFrom
<1>2. Folded(vs) = (CHOOSE f : Is(f))[1]
  BY DEF Folded
<1>3. PICK g : g = CHOOSE f : Is(f)
  OBVIOUS
<1>4. Is(g)
  BY <1>1, <1>3
<1>5. Folds(vs, g)
  <2>1. PICK w : w = [i \in 1..Len(vs) |->
                        IF i = Len(vs) THEN <<vs[i]>> ELSE Attached(vs[i], g[i + 1])]
    OBVIOUS
  <2>2. \A i \in 1..Len(vs) : w[i] = IF i = Len(vs) THEN <<vs[i]>> ELSE Attached(vs[i], g[i + 1])
    BY ONLY <2>1
  <2>3. w = g
    BY <1>4, <2>1
  <2> QED BY ONLY <2>2, <2>3 DEF Folds
<1> QED BY <1>2, <1>3, <1>5

\* What a fold leaves depends only on the operands to the left of where it is one.
LEMMA FoldsAlike ==
  ASSUME NEW vs, NEW ws, NEW f, NEW g, Folds(vs, f), Folds(ws, g),
         Len(vs) \in Nat, NEW m \in 1..Len(vs), Len(ws) = m, f[m] = <<ws[m]>>,
         \A i \in 1..(m - 1) : ws[i] = vs[i]
  PROVE  f[1] = g[1]
<1> DEFINE P == {j \in 0..(m - 1) : f[m - j] = g[m - j]}
<1>1. 0 \in P
  <2>1. g[m] = <<ws[m]>>
    <3>1. m \in 1..m
      OBVIOUS
    <3>2. \A i \in 1..m : g[i] = IF i = m THEN <<ws[i]>> ELSE Attached(ws[i], g[i + 1])
      BY DEF Folds
    <3> QED BY ONLY <3>1, <3>2
  <2> QED BY <2>1
<1>2. ASSUME NEW j \in 0..(m - 1 - 1), j \in P PROVE j + 1 \in P
  <2>1. PICK i : i = m - (j + 1)
    OBVIOUS
  <2>2. i \in 1..(m - 1) /\ i + 1 = m - j /\ i # m /\ i # Len(vs) /\ i \in 1..Len(vs) /\ i \in 1..m
    BY <2>1
  <2>3. f[i] = Attached(vs[i], f[i + 1]) /\ g[i] = Attached(ws[i], g[i + 1]) /\ ws[i] = vs[i]
    BY <2>2 DEF Folds
  <2>4. f[i + 1] = g[i + 1]
    BY <1>2, <2>2
  <2> QED BY <2>1, <2>3, <2>4
<1> HIDE DEF P
<1>3. m - 1 \in P
  <2>1. \A j \in 0..(m - 1 - 1) : j \in P => j + 1 \in P
    BY <1>2
  <2>2. m - 1 \in Nat /\ m - 1 \in 0..(m - 1)
    OBVIOUS
  <2>3. \A j \in 0..(m - 1) : j \in P
    BY ONLY <1>1, <2>1, <2>2, Induction
  <2> QED BY <2>2, <2>3
<1> QED BY <1>3 DEF P

\* Replacing the last operands by what they fold to changes nothing.
LEMMA Replaced ==
  ASSUME NEW vs \in Seq(Operand), NEW m \in 1..Len(vs), NEW w \in Operand,
         \A f : Folds(vs, f) => f[m] = <<w>>
  PROVE  LET seq == Append(SubSeq(vs, 1, m - 1), w)
         IN  /\ seq \in Seq(Operand) /\ Len(seq) = m /\ Folded(seq) = Folded(vs)
             /\ m = 1 => seq[1] = w /\ Folded(vs) = <<w>>
<1>1. PICK seq : seq = Append(SubSeq(vs, 1, m - 1), w)
  OBVIOUS
<1>2. Len(vs) \in Nat /\ Len(vs) >= 1
  OBVIOUS
<1>3. /\ seq \in Seq(Operand) /\ Len(seq) = m /\ seq[m] = w
      /\ \A i \in 1..(m - 1) : seq[i] = vs[i]
  BY <1>1
<1>4. PICK f : Folds(vs, f) /\ Folded(vs) = f[1]
  BY <1>2, FoldedIs
<1>5. PICK g : Folds(seq, g) /\ Folded(seq) = g[1]
  BY <1>3, FoldedIs
<1>6. f[m] = <<seq[m]>>
  BY <1>3, <1>4
<1>7. f[1] = g[1]
  BY <1>2, <1>3, <1>4, <1>5, <1>6, FoldsAlike
<1> QED BY <1>1, <1>3, <1>4, <1>5, <1>6, <1>7

\* Numbers and strings, and what they become as strings.
LEMMA Strings ==
  ASSUME NEW v, Convertible(v)
  PROVE  /\ tostring(v).str \in Seq(Nat) /\ tostring(v) = Str(tostring(v).str)
         /\ tostring(v) \in Operand /\ v \in Operand
<1>1. CASE v \in [num : Nat]
  BY <1>1 DEF tostring, IsNumber, Str, Operand
<1>2. CASE v \in [str : Seq(Nat)] /\ v \notin [num : Nat]
  BY <1>2 DEF tostring, IsNumber, Str, Operand
<1> QED BY <1>1, <1>2 DEF Convertible, IsNumber, IsString

LEMMA IsStr ==
  ASSUME NEW s \in Seq(Nat)
  PROVE  Convertible(Str(s)) /\ Str(s) \in Operand /\ tostring(Str(s)).str = s
<1>1. Str(s) \in [str : Seq(Nat)] /\ Str(s).str = s
  BY DEF Str
<1>2. Str(s) \notin [num : Nat]
  BY DEF Str
<1> QED BY <1>1, <1>2 DEF Convertible, IsString, IsNumber, tostring, Operand

LEMMA PairIs ==
  ASSUME NEW S, NEW x \in S, NEW y \in S
  PROVE  <<x>> \o <<y>> = <<x, y>> /\ <<y>> \o <<>> = <<y>>
<1>1. <<x>> \o <<y>> \in Seq(S) /\ <<x, y>> \in Seq(S)
  OBVIOUS
<1>2. Len(<<x>> \o <<y>>) = 2 /\ Len(<<x, y>>) = 2
  OBVIOUS
<1>3. \A i \in 1..2 : (<<x>> \o <<y>>)[i] = <<x, y>>[i]
  <2>1. (<<x>> \o <<y>>)[1] = x
    OBVIOUS
  <2>2. (<<x>> \o <<y>>)[2] = y
    OBVIOUS
  <2>3. \A i \in 1..2 : i = 1 \/ i = 2
    OBVIOUS
  <2>4. <<x, y>>[1] = x /\ <<x, y>>[2] = y
    OBVIOUS
  <2> QED BY <2>1, <2>2, <2>3, <2>4
<1>4. <<x>> \o <<y>> = <<x, y>>
  BY ONLY <1>1, <1>2, <1>3, SeqEqual
<1>5. <<y>> \o <<>> = <<y>>
  OBVIOUS
<1> QED BY <1>4, <1>5

LEMMA LastTwo ==
  ASSUME NEW S, NEW vs \in Seq(S), NEW n, n = Len(vs), n >= 2
  PROVE  /\ \A i \in 1..n : SubSeq(vs, i, n) = <<vs[i]>> \o SubSeq(vs, i + 1, n)
         /\ SubSeq(vs, n - 1, n) = <<vs[n - 1], vs[n]>>
<1>1. n \in Nat
  OBVIOUS
<1>2. \A i \in 1..n : SubSeq(vs, i, n) = <<vs[i]>> \o SubSeq(vs, i + 1, n)
  <2> SUFFICES ASSUME NEW i \in 1..n PROVE SubSeq(vs, i, n) = <<vs[i]>> \o SubSeq(vs, i + 1, n)
    OBVIOUS
  <2>1. i \in 1..Len(vs) /\ n \in i..Len(vs)
    BY <1>1
  <2> QED BY ONLY <2>1, vs \in Seq(S), SubSeqRecursiveFirst
<1>3. /\ n \in 1..n /\ n + 1 \in Int /\ n \in Int /\ n < n + 1
      /\ n - 1 \in 1..n /\ n - 1 + 1 = n
  BY <1>1
<1>4. SubSeq(vs, n + 1, n) = <<>>
  BY ONLY <1>3, SubSeqEmpty
<1>5. SubSeq(vs, n, n) = <<vs[n]>> \o <<>>
  BY <1>2, <1>3, <1>4
<1>6. SubSeq(vs, n - 1, n) = <<vs[n - 1]>> \o SubSeq(vs, n, n)
  <2>1. PICK i : i = n - 1
    OBVIOUS
  <2>2. i \in 1..n /\ i + 1 = n
    BY <1>3, <2>1
  <2>3. SubSeq(vs, i, n) = <<vs[i]>> \o SubSeq(vs, i + 1, n)
    BY <1>2, <2>2
  <2> QED BY <2>1, <2>2, <2>3
<1>7. vs[n - 1] \in S /\ vs[n] \in S
  BY <1>3
<1>8. <<vs[n - 1]>> \o <<vs[n]>> = <<vs[n - 1], vs[n]>> /\ <<vs[n]>> \o <<>> = <<vs[n]>>
  BY <1>7, PairIs
<1> QED BY <1>2, <1>5, <1>6, <1>8

\* Two operands one of which is neither a string nor a number stay as they are,
\* and everything to their left with them.
LEMMA FoldStuck ==
  ASSUME NEW vs \in Seq(Operand), NEW n, n = Len(vs), n >= 2,
         ~(Convertible(vs[n - 1]) /\ Convertible(vs[n]))
  PROVE  Folded(vs) = vs
<1>1. n \in Nat
  OBVIOUS
<1>2. PICK f : Folds(vs, f) /\ Folded(vs) = f[1]
  BY <1>1, FoldedIs
<1>3. /\ \A i \in 1..n : SubSeq(vs, i, n) = <<vs[i]>> \o SubSeq(vs, i + 1, n)
      /\ SubSeq(vs, n - 1, n) = <<vs[n - 1], vs[n]>>
  BY LastTwo
<1> DEFINE P == {j \in 0..(n - 2) : f[n - 1 - j] = SubSeq(vs, n - 1 - j, n)}
<1>4. 0 \in P
  <2>1. f[n] = <<vs[n]>> /\ f[n - 1] = Attached(vs[n - 1], f[n])
    <3>1. n \in 1..n /\ n - 1 \in 1..n /\ n - 1 # n /\ n - 1 + 1 = n
      BY <1>1
    <3> QED BY <1>2, <3>1 DEF Folds
  <2>2. f[n - 1] = <<vs[n - 1]>> \o <<vs[n]>>
    BY <2>1 DEF Attached
  <2>3. <<vs[n - 1]>> \o <<vs[n]>> = <<vs[n - 1], vs[n]>>
    <3>1. vs[n - 1] \in Operand /\ vs[n] \in Operand
      BY <1>1
    <3> QED BY <3>1, PairIs
  <2>4. f[n - 1] = SubSeq(vs, n - 1, n)
    BY <1>3, <2>2, <2>3
  <2> QED BY <1>1, <2>4
<1>5. ASSUME NEW j \in 0..(n - 2 - 1), j \in P PROVE j + 1 \in P
  <2>1. PICK i : i = n - 1 - (j + 1)
    OBVIOUS
  <2>2. i \in 1..n /\ i # n /\ i + 1 = n - 1 - j /\ i + 1 <= n - 1 /\ i + 1 \in 1..n
    BY <1>1, <2>1
  <2>3. f[i] = Attached(vs[i], f[i + 1])
    BY <1>2, <2>2 DEF Folds
  <2>4. PICK s : s = SubSeq(vs, i + 1, n)
    OBVIOUS
  <2>5. f[i + 1] = s /\ Len(s) # 1
    <3>1. Len(s) = n - (i + 1) + 1
      BY <1>1, <2>2, <2>4
    <3>2. n - (i + 1) + 1 # 1
      BY <1>1, <2>2
    <3>3. f[n - 1 - j] = SubSeq(vs, n - 1 - j, n)
      BY <1>5
    <3> QED BY <2>2, <2>4, <3>1, <3>2, <3>3
  <2>6. f[i] = <<vs[i]>> \o s
    BY <2>3, <2>5 DEF Attached
  <2>7. f[i] = SubSeq(vs, i, n)
    BY <1>3, <2>2, <2>4, <2>6
  <2> QED BY <1>1, <2>1, <2>7
<1> HIDE DEF P
<1>6. n - 2 \in P
  <2>1. \A j \in 0..(n - 2 - 1) : j \in P => j + 1 \in P
    BY <1>5
  <2>2. n - 2 \in Nat /\ n - 2 \in 0..(n - 2)
    BY <1>1
  <2>3. \A j \in 0..(n - 2) : j \in P
    BY ONLY <1>4, <2>1, <2>2, Induction
  <2> QED BY <2>2, <2>3
<1>7. f[1] = SubSeq(vs, 1, n)
  <2>1. n - 1 - (n - 2) = 1
    BY <1>1
  <2> QED BY <1>6, <2>1 DEF P
<1>8. SubSeq(vs, 1, n) = vs
  BY SubSeqFull
<1> QED BY <1>2, <1>7, <1>8

\* The strings of operands.
Strs(vs) == [j \in DOMAIN vs |-> tostring(vs[j]).str]

LEMMA StrsCons ==
  ASSUME NEW S, NEW v, NEW t \in Seq(S), Convertible(v), \A j \in 1..Len(t) : Convertible(t[j])
  PROVE  /\ Strs(t) \in Seq(Seq(Nat)) /\ Strs(<<v>> \o t) \in Seq(Seq(Nat))
         /\ FlattenSeq(Strs(<<v>> \o t)) = tostring(v).str \o FlattenSeq(Strs(t))
<1>1. PICK n, x, a, ts, us : /\ n = Len(t) /\ x = tostring(v).str /\ a = <<v>> \o t
                             /\ ts = Strs(t) /\ us = Strs(a)
  OBVIOUS
<1>2. n \in Nat /\ x \in Seq(Nat) /\ DOMAIN t = 1..n
  BY <1>1, Strings
<1>3. /\ DOMAIN a = 1..(n + 1) /\ a[1] = v /\ \A i \in 1..(n + 1) : i # 1 => a[i] = t[i - 1]
  BY <1>1
<1>4. /\ ts \in Seq(Seq(Nat)) /\ Len(ts) = n /\ \A i \in 1..n : ts[i] = tostring(t[i]).str
  <2>1. ts = [j \in 1..n |-> tostring(t[j]).str]
    BY <1>1, <1>2 DEF Strs
  <2>2. \A j \in 1..n : tostring(t[j]).str \in Seq(Nat)
    BY <1>1, Strings
  <2> QED BY <1>2, <2>1, <2>2
<1>5. us = [j \in 1..(n + 1) |-> tostring(a[j]).str]
  BY <1>1, <1>3 DEF Strs
<1>6. us = <<x>> \o ts
  <2>1. \A i \in 1..(n + 1) : us[i] = IF i = 1 THEN x ELSE ts[i - 1]
    <3> SUFFICES ASSUME NEW i \in 1..(n + 1) PROVE us[i] = IF i = 1 THEN x ELSE ts[i - 1]
      OBVIOUS
    <3>1. us[i] = tostring(a[i]).str
      BY <1>5
    <3>2. CASE i = 1
      BY <1>1, <1>3, <3>1, <3>2
    <3>3. CASE i # 1
      <4>1. i - 1 \in 1..n
        BY <1>2, <3>3
      <4> QED BY <1>3, <1>4, <3>1, <3>3, <4>1
    <3> QED BY <3>2, <3>3
  <2>2. us = [i \in 1..(n + 1) |-> IF i = 1 THEN x ELSE ts[i - 1]]
    BY <1>5, <2>1
  <2>3. <<x>> \o ts = [i \in 1..(n + 1) |-> IF i = 1 THEN x ELSE ts[i - 1]]
    BY <1>2, <1>4
  <2> QED BY <2>2, <2>3
<1>7. <<x>> \in Seq(Seq(Nat)) /\ us \in Seq(Seq(Nat))
  BY <1>2, <1>4, <1>6
<1>8. FlattenSeq(us) = FlattenSeq(<<x>>) \o FlattenSeq(ts)
  BY <1>4, <1>6, <1>7, FlattenConcat
<1>9. FlattenSeq(<<x>>) = x
  BY <1>2, FlattenOne
<1> QED BY <1>1, <1>4, <1>7, <1>8, <1>9

\* The strings and numbers at the end fold to what luaV_concat makes of them at
\* once, from two on; a single one is left as it is.
LEMMA FoldJoined ==
  ASSUME NEW vs \in Seq(Operand), NEW n, n = Len(vs), NEW f, Folds(vs, f), NEW k \in 1..n,
         \A i \in 1..n : i > n - k => Convertible(vs[i])
  PROVE  k >= 2 => f[n - k + 1] = <<Joined(SubSeq(vs, n - k + 1, n))>>
<1>1. n \in Nat
  OBVIOUS
<1> DEFINE Is(i, w) == /\ f[i] = <<w>> /\ Convertible(w)
                       /\ Strs(SubSeq(vs, i, n)) \in Seq(Seq(Nat))
                       /\ tostring(w).str = FlattenSeq(Strs(SubSeq(vs, i, n)))
                       /\ i # n => w = Str(FlattenSeq(Strs(SubSeq(vs, i, n))))
           P == {j \in 0..(k - 1) : \E w : Is(n - j, w)}
<1>2. \A i \in 1..n : SubSeq(vs, i, n) = <<vs[i]>> \o SubSeq(vs, i + 1, n)
  <2> SUFFICES ASSUME NEW i \in 1..n PROVE SubSeq(vs, i, n) = <<vs[i]>> \o SubSeq(vs, i + 1, n)
    OBVIOUS
  <2>1. i \in 1..Len(vs) /\ n \in i..Len(vs)
    BY <1>1
  <2> QED BY ONLY <2>1, vs \in Seq(Operand), SubSeqRecursiveFirst
\* One operand more.
<1>3. ASSUME NEW i \in 1..n, i > n - k
      PROVE  LET t == SubSeq(vs, i + 1, n)
             IN  /\ Strs(t) \in Seq(Seq(Nat)) /\ Strs(SubSeq(vs, i, n)) \in Seq(Seq(Nat))
                 /\ FlattenSeq(Strs(SubSeq(vs, i, n))) = tostring(vs[i]).str \o FlattenSeq(Strs(t))
  <2>1. PICK t : t = SubSeq(vs, i + 1, n)
    OBVIOUS
  <2>2. \A j \in (i + 1)..n : vs[j] \in Operand
    BY <1>1
  <2>3. /\ t \in Seq(Operand) /\ Len(t) = IF i + 1 <= n THEN n - (i + 1) + 1 ELSE 0
        /\ \A j \in 1..(n - (i + 1) + 1) : t[j] = vs[i + 1 + j - 1]
    <3>1. i + 1 \in Int /\ n \in Int
      BY <1>1
    <3> QED BY ONLY <2>1, <2>2, <3>1, SubSeqProperties
  <2>4. \A j \in 1..Len(t) : Convertible(t[j])
    <3> SUFFICES ASSUME NEW j \in 1..Len(t) PROVE Convertible(t[j])
      OBVIOUS
    <3>1. j \in 1..(n - (i + 1) + 1) /\ i + 1 + j - 1 \in 1..n /\ i + 1 + j - 1 > n - k
      BY <1>1, <1>3, <2>3
    <3> QED BY <2>3, <3>1
  <2>5. Convertible(vs[i]) /\ SubSeq(vs, i, n) = <<vs[i]>> \o t
    BY <1>2, <1>3, <2>1
  <2>6. /\ Strs(t) \in Seq(Seq(Nat)) /\ Strs(<<vs[i]>> \o t) \in Seq(Seq(Nat))
        /\ FlattenSeq(Strs(<<vs[i]>> \o t)) = tostring(vs[i]).str \o FlattenSeq(Strs(t))
    <3>1. PICK v : v = vs[i]
      OBVIOUS
    <3>2. t \in Seq(Operand) /\ Convertible(v) /\ \A j \in 1..Len(t) : Convertible(t[j])
      BY ONLY <2>3, <2>4, <2>5, <3>1
    <3>3. /\ Strs(t) \in Seq(Seq(Nat)) /\ Strs(<<v>> \o t) \in Seq(Seq(Nat))
          /\ FlattenSeq(Strs(<<v>> \o t)) = tostring(v).str \o FlattenSeq(Strs(t))
      BY ONLY ZenonT(60), <3>2, StrsCons
    <3> QED BY ONLY <3>1, <3>3
  <2> QED BY <2>1, <2>5, <2>6
<1>4. 0 \in P
  <2>1. n \in 1..n /\ n > n - k /\ n - 0 = n /\ n + 1 \in Int /\ n \in Int /\ n < n + 1
    BY <1>1
  <2>2. f[n] = <<vs[n]>> /\ Convertible(vs[n])
    BY <2>1 DEF Folds
  <2>3. SubSeq(vs, n + 1, n) = <<>>
    BY ONLY <2>1, SubSeqEmpty
  <2>4. FlattenSeq(Strs(SubSeq(vs, n + 1, n))) = <<>>
    <3>1. Strs(<<>>) = <<>>
      BY DEF Strs
    <3> QED BY <2>3, <3>1, FlattenEmpty
  <2>5. tostring(vs[n]).str \in Seq(Nat)
    BY <2>2, Strings
  <2>6. tostring(vs[n]).str = FlattenSeq(Strs(SubSeq(vs, n, n)))
    <3>1. tostring(vs[n]).str \o <<>> = tostring(vs[n]).str
      BY <2>5, ConcatEmptySeq
    <3> QED BY <1>3, <2>1, <2>4, <3>1
  <2>7. Is(n, vs[n])
    BY <1>3, <2>1, <2>2, <2>6
  <2> QED BY <2>1, <2>7
<1>5. ASSUME NEW j \in 0..(k - 1 - 1), j \in P PROVE j + 1 \in P
  <2>1. PICK i : i = n - (j + 1)
    OBVIOUS
  <2>2. i \in 1..n /\ i > n - k /\ i # n /\ i + 1 = n - j
    BY <1>1, <2>1
  <2>3. PICK w : Is(i + 1, w)
    BY <1>5, <2>2
  <2>4. Convertible(vs[i]) /\ f[i] = Attached(vs[i], f[i + 1])
    BY <2>2 DEF Folds
  <2>5. PICK x, y : x = tostring(vs[i]).str /\ y = tostring(w).str
    OBVIOUS
  <2>6. x \in Seq(Nat) /\ y \in Seq(Nat)
    BY <2>3, <2>4, <2>5, Strings
  <2>7. f[i] = <<Str(x \o y)>>
    BY <2>3, <2>4, <2>5 DEF Attached
  <2>8. x \o y = FlattenSeq(Strs(SubSeq(vs, i, n))) /\ Strs(SubSeq(vs, i, n)) \in Seq(Seq(Nat))
    BY <1>3, <2>2, <2>3, <2>5
  <2>9. Convertible(Str(x \o y)) /\ tostring(Str(x \o y)).str = x \o y
    <3>1. x \o y \in Seq(Nat)
      BY <2>6
    <3> QED BY <3>1, IsStr
  <2>10. Is(i, Str(x \o y))
    BY <2>7, <2>8, <2>9
  <2> QED BY <2>1, <2>10
<1> HIDE DEF P
<1>6. k - 1 \in P
  <2>1. \A j \in 0..(k - 1 - 1) : j \in P => j + 1 \in P
    BY <1>5
  <2>2. k - 1 \in Nat /\ k - 1 \in 0..(k - 1)
    BY <1>1
  <2>3. \A j \in 0..(k - 1) : j \in P
    BY ONLY <1>4, <2>1, <2>2, Induction
  <2> QED BY <2>2, <2>3
<1>7. PICK w : Is(n - (k - 1), w)
  BY <1>6 DEF P
<1>8. n - (k - 1) = n - k + 1 /\ (k >= 2 => n - k + 1 # n)
  BY <1>1
<1>9. k >= 2 => w = Joined(SubSeq(vs, n - k + 1, n)) /\ f[n - k + 1] = <<w>>
  BY <1>7, <1>8 DEF Joined, Strs
<1> QED BY <1>9

\* What luaV_concat joins: all there is of strings and numbers at the end.
LEMMA JoinableIs ==
  ASSUME NEW vs \in Seq(Operand), NEW n, n = Len(vs), n >= 2,
         Convertible(vs[n - 1]), Convertible(vs[n])
  PROVE  /\ Joinable(vs) \in 2..n
         /\ \A i \in 1..n : i > n - Joinable(vs) => Convertible(vs[i])
<1>1. n \in Nat
  OBVIOUS
<1> DEFINE T == {m \in Nat : m >= 1 /\ (m >= n \/ ~Convertible(vs[n - m]))}
           Is(m) == /\ \A j \in 1..m : Convertible(vs[Len(vs) - j + 1])
                    /\ m = Len(vs) \/ ~Convertible(vs[Len(vs) - m])
<1>2. PICK m \in T : \A y \in T : m <= y
  <2>1. T \subseteq Nat /\ n \in T
    BY <1>1
  <2> HIDE DEF T
  <2> QED BY <2>1, Least
<1>3. m \in 1..n /\ (m = n \/ ~Convertible(vs[n - m]))
  <2>1. n \in T
    BY <1>1
  <2> QED BY <1>1, <1>2, <2>1
<1>4. ASSUME NEW j \in 1..m PROVE Convertible(vs[n - j + 1])
  <2>1. CASE j = 1
    BY <1>1, <2>1
  <2>2. CASE j # 1
    <3>1. j - 1 \in Nat /\ j - 1 >= 1 /\ j - 1 < m /\ ~(j - 1 >= n) /\ n - (j - 1) = n - j + 1
      BY <1>1, <1>3, <2>2
    <3>2. j - 1 \notin T
      BY <1>2, <3>1
    <3> QED BY <3>1, <3>2
  <2> QED BY <2>1, <2>2
<1>5. \E x \in 1..Len(vs) : Is(x)
  BY <1>3, <1>4
<1>6. PICK x : x = Joinable(vs)
  OBVIOUS
<1>7. x \in 1..Len(vs) /\ Is(x)
  BY <1>5, <1>6 DEF Joinable
<1>8. x # 1
  BY <1>1, <1>7
<1>9. ASSUME NEW i \in 1..n, i > n - x PROVE Convertible(vs[i])
  <2>1. n - i + 1 \in 1..x /\ n - (n - i + 1) + 1 = i
    BY <1>1, <1>7, <1>9
  <2> QED BY <1>7, <2>1
<1>10. x \in 2..n
  BY <1>1, <1>7, <1>8
<1> QED BY <1>6, <1>9, <1>10

\* The operands left fold to what those at the beginning fold to.
ConcatOnItsWay ==
  op.kind = "concat" =>
    op.vs \in Seq(Operand) /\ Len(op.vs) >= 2 /\ Folded(op.from) = Folded(op.vs)

Waiting == [kind : {"get", "set", "test", "not"}] \cup [kind : {"concat"}, vs : Seq(Operand)]

\* How a concatenation that ends has been answered.
Answered ==
  LET vs == Folded(op.from)
      pair == SubSeq(vs, Len(vs) - 1, Len(vs))
      h == binTM(pair[1], pair[2], "__concat")
  IN IF Len(vs) = 1 THEN outcome' = <<"value", vs[1]>>
     ELSE IF h = Nil THEN outcome' = <<"error", "concat">>
     ELSE h \in Functions =>
            /\ outcome' = <<"call", h, pair>>
            /\ Last(pending').vs = SubSeq(vs, 1, Len(vs) - 2)

\* A pass that joins leaves a sequence with the same fold.
LEMMA JoinGoesOn ==
  ASSUME ConcatOnItsWay, op.kind = "concat",
         NEW m \in 1..Len(op.vs), NEW w \in Operand, \A f : Folds(op.vs, f) => f[m] = <<w>>,
         NEW seq, seq = Append(SubSeq(op.vs, 1, m - 1), w),
         IF Len(seq) = 1 THEN Give(seq[1])
         ELSE op' = Concatenation(op.from, seq) /\ UNCHANGED <<pending, outcome>>
  PROVE  ConcatOnItsWay' /\ (Idle' => Answered)
<1>1. op.vs \in Seq(Operand) /\ Folded(op.from) = Folded(op.vs)
  BY DEF ConcatOnItsWay
<1>2. /\ seq \in Seq(Operand) /\ Len(seq) = m /\ Folded(seq) = Folded(op.vs)
      /\ m = 1 => seq[1] = w /\ Folded(op.vs) = <<w>>
  <2>1. PICK vs : vs = op.vs
    OBVIOUS
  <2>2. vs \in Seq(Operand) /\ m \in 1..Len(vs) /\ \A f : Folds(vs, f) => f[m] = <<w>>
    BY <1>1, <2>1
  <2>3. /\ Append(SubSeq(vs, 1, m - 1), w) \in Seq(Operand)
        /\ Len(Append(SubSeq(vs, 1, m - 1), w)) = m
        /\ Folded(Append(SubSeq(vs, 1, m - 1), w)) = Folded(vs)
        /\ m = 1 => Append(SubSeq(vs, 1, m - 1), w)[1] = w /\ Folded(vs) = <<w>>
    BY ONLY <2>2, w \in Operand, Replaced
  <2> QED BY <2>1, <2>3
<1>3. CASE m = 1
  <2>1. op' = None /\ outcome' = <<"value", w>> /\ Folded(op.from) = <<w>>
    BY <1>1, <1>2, <1>3 DEF Give
  <2>2. Len(<<w>>) = 1 /\ <<w>>[1] = w
    OBVIOUS
  <2> QED BY <2>1, <2>2 DEF ConcatOnItsWay, Answered, None
<1>4. CASE m # 1
  <2>1. op' = Concatenation(op.from, seq)
    BY <1>2, <1>4
  <2>2. op'.kind = "concat" /\ op'.from = op.from /\ op'.vs = seq
    BY <2>1 DEF Concatenation
  <2>3. Len(seq) >= 2
    BY <1>1, <1>2, <1>4
  <2> QED BY <1>1, <1>2, <2>2, <2>3 DEF ConcatOnItsWay, Idle
<1> QED BY <1>3, <1>4

LEMMA ConcatGoesOn ==
  ASSUME ConcatOnItsWay, pending \in Seq(Waiting), ConcatPass
  PROVE  ConcatOnItsWay' /\ (Idle' => Answered)
<1>1. PICK vs, n, a, b : vs = op.vs /\ n = Len(vs) /\ a = vs[n - 1] /\ b = vs[n]
  OBVIOUS
<1>2. /\ op.kind = "concat" /\ vs \in Seq(Operand) /\ n \in Nat /\ n >= 2
      /\ Folded(op.from) = Folded(vs)
  BY <1>1 DEF ConcatOnItsWay, ConcatPass
<1>3. n \in 1..n /\ n - 1 \in 1..n /\ n - 1 # n /\ n - 1 + 1 = n /\ n - 1 - 1 = n - 2
  BY <1>2
<1>4. CASE ~(Convertible(a) /\ Convertible(b))
  <2>1. Folded(op.from) = vs
    BY <1>1, <1>2, <1>4, FoldStuck
  <2>2. PICK pair, tm, rest : /\ pair = SubSeq(vs, n - 1, n) /\ tm = binTM(a, b, "__concat")
                              /\ rest = SubSeq(vs, 1, n - 2)
    OBVIOUS
  <2>3. pair = <<a, b>>
    BY <1>1, <1>2, <2>2, LastTwo
  <2>4. IF tm = Nil THEN Fail("concat")
        ELSE CallTM(tm, <<a, b>>, [kind |-> "concat", vs |-> rest])
    BY <1>1, <1>4, <2>2 DEF ConcatPass
  <2>5. op' = None
    BY <2>4 DEF Fail, CallTM, CallFunction
  <2>6. tm = Nil => outcome' = <<"error", "concat">>
    BY <2>4 DEF Fail
  <2>7. tm # Nil /\ tm \in Functions => /\ outcome' = <<"call", tm, <<a, b>>>>
                                        /\ Last(pending').vs = rest
    <3> SUFFICES ASSUME tm # Nil, tm \in Functions
                 PROVE  outcome' = <<"call", tm, <<a, b>>>> /\ Last(pending').vs = rest
      OBVIOUS
    <3>1. PICK r : r = [kind |-> "concat", vs |-> rest]
      OBVIOUS
    <3>2. outcome' = <<"call", tm, <<a, b>>>> /\ pending' = Append(pending, r)
      BY <2>4, <3>1 DEF CallTM, CallFunction
    <3>3. Last(pending') = r
      BY <3>2 DEF Last
    <3> QED BY <3>1, <3>2, <3>3
  <2>8. pair[1] = a /\ pair[2] = b
    BY <2>3
  <2>9. Answered
    <3>1. PICK fs : fs = Folded(op.from)
      OBVIOUS
    <3>2. fs = vs /\ Len(fs) = n /\ n # 1
      BY <1>1, <1>2, <2>1, <3>1
    <3>3. /\ SubSeq(fs, Len(fs) - 1, Len(fs)) = pair /\ binTM(pair[1], pair[2], "__concat") = tm
          /\ SubSeq(fs, 1, Len(fs) - 2) = rest
      BY <2>2, <2>8, <3>2
    <3> QED BY ONLY <2>3, <2>6, <2>7, <3>1, <3>2, <3>3 DEF Answered
  <2> QED BY <2>5, <2>9 DEF ConcatOnItsWay, None
<1>5. CASE Convertible(a) /\ Convertible(b) /\ tostring(b).str = <<>>
  <2>1. PICK seq, w : w = tostring(a) /\ seq = Append(SubSeq(vs, 1, n - 2), w)
    OBVIOUS
  <2>2. IF Len(seq) = 1 THEN Give(seq[1])
        ELSE op' = Concatenation(op.from, seq) /\ UNCHANGED <<pending, outcome>>
    BY <1>1, <1>5, <2>1 DEF ConcatPass
  <2>3. w \in Operand /\ w = Str(tostring(a).str) /\ tostring(a).str \in Seq(Nat)
    BY <1>5, <2>1, Strings
  <2>4. ASSUME NEW f, Folds(vs, f) PROVE f[n - 1] = <<w>>
    <3>1. f[n] = <<b>> /\ f[n - 1] = Attached(a, f[n])
      BY <1>1, <1>3, <2>4 DEF Folds
    <3>2. f[n - 1] = <<Str(tostring(a).str \o tostring(b).str)>>
      <4>1. Len(<<b>>) = 1 /\ <<b>>[1] = b
        OBVIOUS
      <4> QED BY <1>5, <3>1, <4>1 DEF Attached
    <3>3. tostring(a).str \o tostring(b).str = tostring(a).str
      BY <1>5, <2>3, ConcatEmptySeq
    <3> QED BY <2>3, <3>2, <3>3
  <2>5. seq = Append(SubSeq(op.vs, 1, n - 1 - 1), w)
    BY <1>1, <1>3, <2>1
  <2> QED BY <1>1, <1>2, <1>3, <2>2, <2>3, <2>4, <2>5, JoinGoesOn
<1>6. CASE Convertible(a) /\ Convertible(b) /\ tostring(b).str # <<>>
  <2>1. PICK k : k = Joinable(vs)
    OBVIOUS
  <2>2. k \in 2..n /\ \A i \in 1..n : i > n - k => Convertible(vs[i])
    BY <1>1, <1>2, <1>6, <2>1, JoinableIs
  <2>3. k \in 1..n /\ k >= 2 /\ n - k + 1 \in 1..n /\ n - k + 1 - 1 = n - k
    BY <1>2, <2>2
  <2>4. PICK seq, w : w = Joined(SubSeq(vs, n - k + 1, n)) /\ seq = Append(SubSeq(vs, 1, n - k), w)
    OBVIOUS
  <2>5. IF Len(seq) = 1 THEN Give(seq[1])
        ELSE op' = Concatenation(op.from, seq) /\ UNCHANGED <<pending, outcome>>
    BY <1>1, <1>6, <2>1, <2>4 DEF ConcatPass
  <2>6. ASSUME NEW f, Folds(vs, f) PROVE f[n - k + 1] = <<w>>
    BY <1>1, <1>2, <2>2, <2>3, <2>4, <2>6, FoldJoined
  <2>7. w \in Operand
    <3>1. PICK t : t = SubSeq(vs, n - k + 1, n)
      OBVIOUS
    <3>2. /\ t \in Seq(Operand) /\ Len(t) = k /\ \A j \in 1..k : t[j] = vs[n - k + j]
      <4>1. PICK p : p = n - k + 1
        OBVIOUS
      <4>2. /\ p \in Int /\ n \in Int /\ p <= n /\ n - p + 1 = k
            /\ \A i \in p..n : i \in 1..n
            /\ \A j \in 1..k : p + j - 1 = n - k + j
        BY <1>2, <2>3, <4>1
      <4>3. \A i \in p..n : vs[i] \in Operand
        BY <1>1, <1>2, <4>2
      <4>4. /\ SubSeq(vs, p, n) \in Seq(Operand)
            /\ Len(SubSeq(vs, p, n)) = (IF p <= n THEN n - p + 1 ELSE 0)
            /\ \A j \in 1..(n - p + 1) : SubSeq(vs, p, n)[j] = vs[p + j - 1]
        BY ONLY <4>2, <4>3, SubSeqProperties
      <4> QED BY <3>1, <4>1, <4>2, <4>4
    <3>3. \A j \in 1..k : Convertible(t[j])
      <4> SUFFICES ASSUME NEW j \in 1..k PROVE Convertible(t[j])
        OBVIOUS
      <4>1. n - k + j \in 1..n /\ n - k + j > n - k
        BY <1>2, <2>2
      <4> QED BY <2>2, <3>2, <4>1
    <3>4. Strs(t) \in Seq(Seq(Nat))
      <4>1. DOMAIN t = 1..k /\ k \in Nat
        BY <2>2, <3>2
      <4>2. \A j \in 1..k : tostring(t[j]).str \in Seq(Nat)
        BY <3>3, Strings
      <4> QED BY <4>1, <4>2 DEF Strs
    <3>5. w = Str(FlattenSeq(Strs(t)))
      BY <2>4, <3>1 DEF Joined, Strs
    <3>6. FlattenSeq(Strs(t)) \in Seq(Nat)
      BY <3>4, FlattenType
    <3> QED BY <3>5, <3>6, IsStr
  <2>8. PICK m : m = n - k + 1
    OBVIOUS
  <2>9. /\ m \in 1..Len(op.vs) /\ \A f : Folds(op.vs, f) => f[m] = <<w>>
        /\ seq = Append(SubSeq(op.vs, 1, m - 1), w)
    <3>1. m \in 1..Len(op.vs)
      BY <1>1, <2>3, <2>8
    <3>2. ASSUME NEW f, Folds(op.vs, f) PROVE f[m] = <<w>>
      <4>1. Folds(vs, f)
        BY <1>1, <3>2
      <4> QED BY <2>6, <2>8, <4>1
    <3>3. seq = Append(SubSeq(op.vs, 1, m - 1), w)
      <4>1. m - 1 = n - k
        BY <1>2, <2>2, <2>8
      <4> QED BY ONLY <1>1, <2>4, <4>1
    <3> QED BY <3>1, <3>2, <3>3
  <2> QED BY <1>2, <2>5, <2>7, <2>9, JoinGoesOn
<1> QED BY <1>4, <1>5, <1>6

---------------------------------------------------------------------------
(* Every operation in progress is on its way to the answer it began with *)

OnItsWay == GetOnItsWay /\ SetOnItsWay /\ ConcatOnItsWay /\ pending \in Seq(Waiting)

LEMMA InitOnItsWay == Init => OnItsWay
BY DEF Init, None, OnItsWay, GetOnItsWay, SetOnItsWay, ConcatOnItsWay

\* With no operation in progress only the waiting ones matter.
LEMMA NothingUnderWay ==
  ASSUME op'.kind = "none", pending' \in Seq(Waiting)
  PROVE  OnItsWay'
BY DEF OnItsWay, GetOnItsWay, SetOnItsWay, ConcatOnItsWay

\* An operation that ends, or waits for a call, leaves none in progress.
LEMMA GivesOne ==
  ASSUME pending \in Seq(Waiting), NEW v, Give(v) PROVE op' = None /\ pending' \in Seq(Waiting)
BY DEF Give
\* The same, ending with an error.
LEMMA FailsOne ==
  ASSUME pending \in Seq(Waiting), NEW why, Fail(why) PROVE op' = None /\ pending' \in Seq(Waiting)
BY DEF Fail
\* The same, waiting for the call.
LEMMA CallsOne ==
  ASSUME pending \in Seq(Waiting), NEW f, NEW args, NEW rest \in Waiting,
         CallTM(f, args, rest)
  PROVE  op' = None /\ pending' \in Seq(Waiting)
<1>1. CASE f \in Functions
  <2>1. CallFunction(f, args, rest)
    BY <1>1 DEF CallTM
  <2> QED BY <2>1 DEF CallFunction
<1>2. CASE f \notin Functions /\ gettmbyobj(f, "__call") \in Functions
  <2>1. PICK h, as : h = gettmbyobj(f, "__call") /\ as = <<f>> \o args
    OBVIOUS
  <2>2. CallFunction(h, as, rest)
    BY <1>2, <2>1 DEF CallTM
  <2> QED BY <2>2 DEF CallFunction
<1>3. CASE f \notin Functions /\ gettmbyobj(f, "__call") \notin Functions
  BY <1>3, FailsOne DEF CallTM
<1> QED BY <1>1, <1>2, <1>3

\* The records an operation other than a concatenation leaves behind.
LEMMA WaitingOnes ==
  /\ \A k \in {"get", "set", "test", "not"} : [kind |-> k] \in Waiting
  /\ \A s \in Seq(Operand) : [kind |-> "concat", vs |-> s] \in Waiting
BY DEF Waiting

\* Beginning an indexing operation: all of it is still to come.
LEMMA GetBegins == ASSUME IInv, OnItsWay, BeginGet PROVE OnItsWay'
<1>1. PICK o \in Objects, k \in program.reads : Begin(Getting(o, o, k, 0))
  BY DEF BeginGet
<1>2. /\ op'.kind = "get" /\ op'.from = o /\ op'.t = o /\ op'.loop = 0
      /\ pending' = pending
  BY <1>1 DEF Begin, Getting
<1>3. 0 \in 0..MaxTagLoop /\ MaxTagLoop - 0 = MaxTagLoop /\ o \in Reachable
  BY ValuesAssumption DEF Reachable
<1> QED BY <1>2, <1>3 DEF OnItsWay, GetOnItsWay, SetOnItsWay, ConcatOnItsWay

\* Beginning an assignment.
LEMMA SetBegins == ASSUME IInv, OnItsWay, BeginSet PROVE OnItsWay'
<1>1. PICK o \in Objects, w \in program.writes : Begin(Setting(o, o, w[2], w[3], 0))
  BY DEF BeginSet
<1>2. /\ op'.kind = "set" /\ op'.from = o /\ op'.t = o /\ op'.loop = 0
      /\ pending' = pending
  BY <1>1 DEF Begin, Setting
<1>3. 0 \in 0..MaxTagLoop /\ MaxTagLoop - 0 = MaxTagLoop /\ o \in Reachable
  BY ValuesAssumption DEF Reachable
<1> QED BY <1>2, <1>3 DEF OnItsWay, GetOnItsWay, SetOnItsWay, ConcatOnItsWay

\* A concatenation, of operands just given or of those left with a handler's answer.
LEMMA ConcatBegins ==
  ASSUME NEW vs \in Seq(Operand), Len(vs) >= 2, op' = Concatenation(vs, vs),
         pending' \in Seq(Waiting)
  PROVE  OnItsWay'
<1>1. op'.kind = "concat" /\ op'.from = vs /\ op'.vs = vs
  BY DEF Concatenation
<1> QED BY <1>1 DEF OnItsWay, GetOnItsWay, SetOnItsWay, ConcatOnItsWay

\* A call that returns lets a concatenation go on with the answer.
LEMMA ReturnGoesOn ==
  ASSUME IInv, OnItsWay, NEW v \in program.answers, Return(v)
  PROVE  OnItsWay'
<1>1. pending \in Seq(Waiting) /\ pending # <<>> /\ pending' = Front(pending) /\ op.kind = "none"
  BY DEF OnItsWay, Return, Idle
<1>2. PICK p : p = Last(pending)
  OBVIOUS
<1>3. p \in Waiting
  BY <1>1, <1>2 DEF Last
<1>4. pending' \in Seq(Waiting)
  BY <1>1 DEF Front
<1>5. v \in Operand
  BY ProgramsAssumption DEF IInv, TypeOK
<1>6. CASE p.kind = "concat" /\ p.vs # <<>>
  <2>1. p.vs \in Seq(Operand)
    BY <1>3, <1>6 DEF Waiting
  <2>2. Append(p.vs, v) \in Seq(Operand) /\ Len(Append(p.vs, v)) >= 2
    BY <1>5, <1>6, <2>1
  <2>3. op' = Concatenation(Append(p.vs, v), Append(p.vs, v))
    BY <1>2, <1>6 DEF Return
  <2> QED BY <1>4, <2>2, <2>3, ConcatBegins
<1>7. CASE ~(p.kind = "concat" /\ p.vs # <<>>)
  <2>1. op' = op
    BY <1>2, <1>7 DEF Return
  <2> QED BY <1>1, <1>4, <2>1, NothingUnderWay
<1> QED BY <1>6, <1>7

\* One iteration of luaV_gettable: the operation ends as it should or goes on.
LEMMA GetStep ==
  ASSUME IInv, OnItsWay, GetLoop
  PROVE  OnItsWay' /\ op.kind = "get" /\ (Idle' => outcome' = Indexed(op.from, op.k))
<1>1. /\ pending \in Seq(Waiting) /\ GetOnItsWay' /\ op.kind = "get"
      /\ Idle' => outcome' = Indexed(op.from, op.k)
  BY GetGoesOn DEF OnItsWay, GetLoop
<1>2. [kind |-> "get"] \in Waiting
  BY WaitingOnes
<1>3. \/ \E v : Give(v)
      \/ \E why : Fail(why)
      \/ \E f, args : CallTM(f, args, [kind |-> "get"])
      \/ op'.kind = "get" /\ UNCHANGED pending
  BY DEF GetLoop, Getting
<1>4. (op'.kind = "none" \/ op'.kind = "get") /\ pending' \in Seq(Waiting)
  BY <1>1, <1>2, <1>3, GivesOne, FailsOne, CallsOne DEF None
<1> QED BY <1>1, <1>4 DEF OnItsWay, SetOnItsWay, ConcatOnItsWay

\* One of luaV_settable.
LEMMA SetStep ==
  ASSUME IInv, OnItsWay, SetLoop
  PROVE  OnItsWay' /\ op.kind = "set" /\ (Idle' => outcome' = Stored(op.from, op.k, op.v))
<1>1. /\ pending \in Seq(Waiting) /\ SetOnItsWay' /\ op.kind = "set"
      /\ Idle' => outcome' = Stored(op.from, op.k, op.v)
  BY SetGoesOn DEF OnItsWay, SetLoop
<1>2. [kind |-> "set"] \in Waiting
  BY WaitingOnes
<1>3. \/ op' = None /\ UNCHANGED pending
      \/ \E why : Fail(why)
      \/ \E f, args : CallTM(f, args, [kind |-> "set"])
      \/ op'.kind = "set" /\ UNCHANGED pending
  BY DEF SetLoop, Setting
<1>4. (op'.kind = "none" \/ op'.kind = "set") /\ pending' \in Seq(Waiting)
  BY <1>1, <1>2, <1>3, FailsOne, CallsOne DEF None
<1> QED BY <1>1, <1>4 DEF OnItsWay, GetOnItsWay, ConcatOnItsWay

\* One pass of luaV_concat.
LEMMA ConcatStep ==
  ASSUME IInv, OnItsWay, ConcatPass
  PROVE  OnItsWay' /\ op.kind = "concat" /\ (Idle' => Answered)
<1>1. /\ pending \in Seq(Waiting) /\ ConcatOnItsWay' /\ op.kind = "concat" /\ (Idle' => Answered)
  BY ConcatGoesOn DEF OnItsWay, ConcatPass
<1>2. PICK rest, a, b : /\ rest = SubSeq(op.vs, 1, Len(op.vs) - 2)
                        /\ a = op.vs[Len(op.vs) - 1] /\ b = op.vs[Len(op.vs)]
  OBVIOUS
<1>3. [kind |-> "concat", vs |-> rest] \in Waiting
  <2>1. op.vs \in Seq(Operand) /\ Len(op.vs) >= 2
    BY <1>1 DEF OnItsWay, ConcatOnItsWay
  <2>2. rest \in Seq(Operand)
    BY <1>2, <2>1
  <2> QED BY <2>2, WaitingOnes
<1>4. \/ \E v : Give(v)
      \/ \E why : Fail(why)
      \/ \E f, args : CallTM(f, args, [kind |-> "concat", vs |-> rest])
      \/ op'.kind = "concat" /\ UNCHANGED pending
  BY <1>2 DEF ConcatPass, Concatenation
<1>5. (op'.kind = "none" \/ op'.kind = "concat") /\ pending' \in Seq(Waiting)
  BY <1>1, <1>3, <1>4, GivesOne, FailsOne, CallsOne DEF None
<1> QED BY <1>1, <1>5 DEF OnItsWay, GetOnItsWay, SetOnItsWay

\* Comparison, arithmetic and calls end at once or wait for a call.
LEMMA OneStep ==
  ASSUME OnItsWay,
         \/ \E p \in Comparable : Equal(p) \/ LessThan(p) \/ LessEqual(p)
         \/ Arith \/ Length \/ CallObject
  PROVE  OnItsWay' /\ op.kind = "none"
<1>1. pending \in Seq(Waiting) /\ \A k \in {"get", "test", "not"} : [kind |-> k] \in Waiting
  BY WaitingOnes DEF OnItsWay
<1>2. op.kind = "none"
  BY DEF Equal, LessThan, LessEqual, Arith, Length, CallObject, Ready, Idle
<1>3. \/ \E v : Give(v)
      \/ \E why : Fail(why)
      \/ \E f, args : \E k \in {"get", "test", "not"} : CallTM(f, args, [kind |-> k])
  <2>1. CASE \E p \in Comparable : Equal(p)
    BY <2>1 DEF Equal
  <2>2. CASE \E p \in Comparable : LessThan(p)
    BY <2>2 DEF LessThan
  <2>3. CASE \E p \in Comparable : LessEqual(p)
    BY <2>3 DEF LessEqual
  <2>4. CASE Arith \/ Length
    BY <2>4 DEF Arith, Length
  <2>5. CASE CallObject
    BY <2>5 DEF CallObject, CallTM
  <2> QED BY <2>1, <2>2, <2>3, <2>4, <2>5
<1>4. op' = None /\ pending' \in Seq(Waiting)
  BY <1>1, <1>3, GivesOne, FailsOne, CallsOne
<1> QED BY <1>2, <1>4, NothingUnderWay DEF None

\* What the program does to the tables while no operation is in progress.
LEMMA ProgramStep ==
  ASSUME OnItsWay,
         \/ Raise \/ CollectorAsks
         \/ \E w \in program.writes : RawSet(w[1], w[2], w[3])
         \/ \E m \in program.metas : SetMetatable(m[1], m[2])
  PROVE  OnItsWay' /\ op.kind = "none"
<1>1. op.kind = "none" /\ op' = op /\ (pending' = pending \/ pending' = <<>>)
  BY DEF Raise, CollectorAsks, RawSet, SetMetatable, Idle
<1>2. pending' \in Seq(Waiting)
  <2>1. <<>> \in Seq(Waiting) /\ pending \in Seq(Waiting)
    BY DEF OnItsWay
  <2> QED BY <1>1, <2>1
<1>3. op'.kind = "none"
  BY <1>1
<1>4. OnItsWay'
  BY ONLY <1>2, <1>3, NothingUnderWay
<1> QED BY <1>1, <1>4

LEMMA Stutters ==
  ASSUME OnItsWay, UNCHANGED vars
  PROVE  OnItsWay'
<1>1. op' = op /\ pending' = pending /\ UNCHANGED <<raw, mt>>
  BY DEF vars
<1> QED BY <1>1, SameEnds DEF OnItsWay, GetOnItsWay, SetOnItsWay, ConcatOnItsWay

\* Every step keeps the operations on their way, and ends them as it should.
LEMMA OnItsWayNext ==
  ASSUME IInv, OnItsWay, [Next]_vars
  PROVE  /\ OnItsWay'
         /\ UNCHANGED vars \/
            (Idle' => /\ op.kind = "get" => outcome' = Indexed(op.from, op.k)
                      /\ op.kind = "set" => outcome' = Stored(op.from, op.k, op.v)
                      /\ op.kind = "concat" => Answered)
<1>1. CASE BeginGet
  BY <1>1, GetBegins DEF BeginGet, Begin, Ready, Idle
<1>2. CASE BeginSet
  BY <1>2, SetBegins DEF BeginSet, Begin, Ready, Idle
<1>3. CASE BeginConcat
  <2>1. PICK vs \in program.concats : Begin(Concatenation(vs, vs))
    BY <1>3 DEF BeginConcat
  <2>2. vs \in Seq(Operand) /\ Len(vs) >= 2
    BY ProgramsAssumption DEF IInv, TypeOK
  <2>3. /\ op' = Concatenation(vs, vs) /\ pending' = pending /\ op.kind = "none"
        /\ pending \in Seq(Waiting)
    BY <2>1 DEF Begin, Ready, Idle, OnItsWay
  <2> QED BY <2>2, <2>3, ConcatBegins
<1>4. CASE GetLoop
  BY <1>4, GetStep
<1>5. CASE SetLoop
  BY <1>5, SetStep
<1>6. CASE ConcatPass
  BY <1>6, ConcatStep
<1>7. CASE \/ \E p \in Comparable : Equal(p) \/ LessThan(p) \/ LessEqual(p)
           \/ Arith \/ Length \/ CallObject
  BY <1>7, OneStep
<1>8. CASE \E v \in program.answers : Return(v)
  BY <1>8, ReturnGoesOn DEF Return, Idle
<1>9. CASE \/ Raise \/ CollectorAsks
           \/ \E w \in program.writes : RawSet(w[1], w[2], w[3])
           \/ \E m \in program.metas : SetMetatable(m[1], m[2])
  BY <1>9, ProgramStep
<1>10. CASE UNCHANGED vars
  BY <1>10, Stutters
<1> QED BY <1>1, <1>2, <1>3, <1>4, <1>5, <1>6, <1>7, <1>8, <1>9, <1>10 DEF Next

\* Operations in progress are on their way in every state.
LEMMA AlwaysOnItsWay == Spec => []OnItsWay
<1>1. IInv /\ OnItsWay /\ [Next]_vars => OnItsWay'
  BY OnItsWayNext
<1> QED BY <1>1, InitOnItsWay, Inductive, PTL DEF Spec

\* The loops of luaV_gettable, luaV_settable and luaV_concat answer as the events
\* define: the first two what following the handlers from the indexed value leads
\* to in MAXTAGLOOP steps, through the cache as without it; luaV_concat, which joins
\* as many strings as it finds and goes on with its handlers' answers, what two
\* operands at a time from the right give. For any tables, programs, operands and
\* depth of calls.
THEOREM LoopsEndAsDefined == Spec => LoopsAnswered
<1>1. IInv /\ OnItsWay /\ [Next]_vars =>
        [Idle' => /\ op.kind = "get" => outcome' = Indexed(op.from, op.k)
                  /\ op.kind = "set" => outcome' = Stored(op.from, op.k, op.v)]_vars
  BY OnItsWayNext
<1>2. Spec => Indexing
  BY <1>1, Inductive, AlwaysOnItsWay, PTL DEF Spec, Indexing
<1>3. IInv /\ OnItsWay /\ [Next]_vars => [op.kind = "concat" /\ Idle' => Answered]_vars
  BY OnItsWayNext
<1>4. Spec => [][op.kind = "concat" /\ Idle' => Answered]_vars
  BY <1>3, Inductive, AlwaysOnItsWay, PTL DEF Spec
<1>5. Spec => Concatenating
  BY <1>4 DEF Concatenating, Answered
<1> QED BY <1>2, <1>5 DEF LoopsAnswered
=============================================================================
