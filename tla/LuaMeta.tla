------------------------------ MODULE LuaMeta ------------------------------
(***************************************************************************)
(* Metatables (ltm.c and the operations of lvm.c that consult them): the   *)
(* indexing loops, comparison, arithmetic, length, concatenation and calls *)
(* of values with metamethods, and the cache of absent metamethods kept in *)
(* Table.flags.                                                            *)
(*                                                                         *)
(* A step is one iteration of an operation's loop.  An operation that      *)
(* finds a metamethod calls it: while the call runs, the program may start *)
(* other operations and change any table, and then the call returns.       *)
(***************************************************************************)
EXTENDS Naturals, Sequences, SequencesExt

CONSTANTS Tables, Userdata, Functions,
          Nil, NULL,
          Basic,        \* the string type, whose values share a metatable
          Plain,        \* values without a metatable that a table may hold
          Slots,        \* the keys in use: events and an ordinary key
          Programs,     \* what a program does: see ProgramsAssumption
          MaxTagLoop,   \* MAXTAGLOOP
          MaxDepth      \* a bound: calls of metamethods in progress

\* The events with a bit in flags (TM_INDEX .. TM_EQ).
FastEvents == {"__index", "__newindex", "__gc", "__mode", "__eq"}
Objects == Tables \cup Userdata \cup {Basic}
Value == Tables \cup Userdata \cup Functions \cup Plain \cup {Nil}

ASSUME ValuesAssumption ==
  /\ NULL \notin Tables
  /\ MaxTagLoop \in Nat

\* Operands of a concatenation: numbers and the strings they become are records.
Operand == Value \cup Objects \cup [num : Nat] \cup [str : Seq(Nat)]

\* A program stores the values `writes', sets the metatables `metas', indexes
\* with `reads', concatenates the operands `concats' (OP_CONCAT and lua_concat call
\* luaV_concat for two or more), gets `answers' from its metamethods and uses the
\* operations `ops'.
ASSUME ProgramsAssumption ==
  \A p \in Programs : /\ p.writes \subseteq Tables \X Slots \X Value
                      /\ p.metas \subseteq Objects \X (Tables \cup {NULL})
                      /\ p.reads \subseteq Slots
                      /\ \A vs \in p.concats : vs \in Seq(Operand) /\ Len(vs) >= 2
                      /\ \A v \in p.answers : v \in Operand

VARIABLES program,  \* the program
          raw,      \* raw[t][k]: what the table holds
          mt,       \* metatables of tables, of userdata and of the string type
          flags,    \* flags[t]: the events t is known not to define
          op,       \* the operation in progress
          pending,  \* operations waiting for their metamethod's call to return
          outcome   \* how the last operation went on: a value, a call, an error

vars == <<program, raw, mt, flags, op, pending, outcome>>
None == [kind |-> "none"]

Init ==
  /\ program \in Programs
  /\ raw = [t \in Tables |-> [k \in Slots |-> Nil]]
  /\ mt = [o \in Objects |-> NULL]
  /\ flags = [t \in Tables |-> FastEvents]     \* luaH_new: all bits set
  /\ op = None /\ pending = <<>> /\ outcome = <<"value", Nil>>

-----------------------------------------------------------------------------
(* Looking up metamethods.                                                   *)

Number(n) == [num |-> n]
Str(w) == [str |-> w]
IsNumber(v) == v \in [num : Nat]
IsString(v) == v \in [str : Seq(Nat)]

Held(m, e) == IF m = NULL \/ e \notin Slots THEN Nil ELSE raw[m][e]

\* fasttm with the flags fl: what it finds, and the flags after it.
fasttm(fl, m, e) == IF m # NULL /\ e \in fl[m] THEN Nil ELSE Held(m, e)
Cached(fl, m, e) == IF m = NULL \/ Held(m, e) # Nil THEN fl ELSE [fl EXCEPT ![m] = @ \cup {e}]

\* luaT_gettmbyobj, which does not use the cache.
Metatable(v) == IF v \in Objects THEN mt[v] ELSE IF IsString(v) THEN mt[Basic] ELSE NULL
gettmbyobj(v, e) == Held(Metatable(v), e)

\* call_binTM: the first operand's metamethod, or else the second's.
binTM(a, b, e) == IF gettmbyobj(a, e) # Nil THEN gettmbyobj(a, e) ELSE gettmbyobj(b, e)

\* call_orderTM: both operands must have the same one.
orderTM(a, b, e) == IF gettmbyobj(a, e) = gettmbyobj(b, e) THEN gettmbyobj(a, e) ELSE Nil

-----------------------------------------------------------------------------
(* How an operation goes on.                                                 *)

Give(v) == op' = None /\ outcome' = <<"value", v>> /\ UNCHANGED pending
Fail(why) == op' = None /\ outcome' = <<"error", why>> /\ UNCHANGED pending
CallFunction(f, args, rest) ==
  op' = None /\ outcome' = <<"call", f, args>> /\ pending' = Append(pending, rest)

\* callTM and callTMres: luaD_call calls f, or else the __call of f (tryfuncTM).
CallTM(f, args, rest) ==
  IF f \in Functions THEN CallFunction(f, args, rest)
  ELSE IF gettmbyobj(f, "__call") \in Functions
  THEN CallFunction(gettmbyobj(f, "__call"), <<f>> \o args, rest)
  ELSE Fail("call")

Idle == op.kind = "none"
Ready(kind) == kind \in program.ops /\ Idle /\ Len(pending) < MaxDepth
Begin(o) == Ready(o.kind) /\ op' = o /\ UNCHANGED <<program, raw, mt, flags, pending, outcome>>

-----------------------------------------------------------------------------
(* luaV_gettable, luaV_settable                                              *)

Getting(o, t, k, n) == [kind |-> "get", from |-> o, t |-> t, k |-> k, loop |-> n]

BeginGet == \E o \in Objects, k \in program.reads : Begin(Getting(o, o, k, 0))

\* Mutant: one table less than MAXTAGLOOP.
GetLoopOneLess ==
  /\ op.kind = "get"
  /\ LET t == op.t
         m == IF t \in Tables THEN mt[t] ELSE NULL
         res == raw[t][op.k]
         tm == IF t \in Tables THEN fasttm(flags, m, "__index") ELSE gettmbyobj(t, "__index")
     IN IF op.loop + 1 = MaxTagLoop THEN Fail("loop") /\ UNCHANGED flags
        ELSE IF t \in Tables /\ res # Nil THEN Give(res) /\ UNCHANGED flags
        ELSE /\ flags' = IF t \in Tables THEN Cached(flags, m, "__index") ELSE flags
             /\ IF tm = Nil THEN IF t \in Tables THEN Give(Nil) ELSE Fail("index")
                ELSE IF tm \in Functions THEN CallTM(tm, <<t, op.k>>, [kind |-> "get"])
                ELSE op' = Getting(op.from, tm, op.k, op.loop + 1) /\ UNCHANGED <<pending, outcome>>
  /\ UNCHANGED <<program, raw, mt>>

GetLoop ==
  /\ op.kind = "get"
  /\ LET t == op.t
         m == IF t \in Tables THEN mt[t] ELSE NULL
         res == raw[t][op.k]
         tm == IF t \in Tables THEN fasttm(flags, m, "__index") ELSE gettmbyobj(t, "__index")
     IN IF op.loop = MaxTagLoop THEN Fail("loop") /\ UNCHANGED flags
        ELSE IF t \in Tables /\ res # Nil THEN Give(res) /\ UNCHANGED flags
        ELSE /\ flags' = IF t \in Tables THEN Cached(flags, m, "__index") ELSE flags
             /\ IF tm = Nil THEN IF t \in Tables THEN Give(Nil) ELSE Fail("index")
                ELSE IF tm \in Functions THEN CallTM(tm, <<t, op.k>>, [kind |-> "get"])
                ELSE op' = Getting(op.from, tm, op.k, op.loop + 1) /\ UNCHANGED <<pending, outcome>>
  /\ UNCHANGED <<program, raw, mt>>

Setting(o, t, k, v, n) ==
  [kind |-> "set", from |-> o, t |-> t, k |-> k, v |-> v, loop |-> n]

BeginSet == \E o \in Objects, w \in program.writes : Begin(Setting(o, o, w[2], w[3], 0))

\* Mutant: luaV_settable without the second reset of the flags.
SetLoopClearsOnce ==
  /\ op.kind = "set"
  /\ LET t == op.t
         m == IF t \in Tables THEN mt[t] ELSE NULL
         clear == IF t \in Tables THEN [flags EXCEPT ![t] = {}] ELSE flags
         present == raw[t][op.k] # Nil
         tm == IF t \in Tables THEN fasttm(clear, m, "__newindex")
               ELSE gettmbyobj(t, "__newindex")
     IN IF op.loop = MaxTagLoop THEN Fail("loop") /\ UNCHANGED <<raw, flags>>
        ELSE IF t \in Tables /\ (present \/ tm = Nil)
        THEN /\ raw' = [raw EXCEPT ![t][op.k] = op.v]
             /\ flags' = LET asked == IF present THEN clear ELSE Cached(clear, m, "__newindex")
                         IN asked
             /\ op' = None /\ outcome' = <<"stored", t>> /\ UNCHANGED pending
        ELSE /\ flags' = clear /\ UNCHANGED raw
             /\ IF tm = Nil THEN Fail("index")
                ELSE IF tm \in Functions THEN CallTM(tm, <<t, op.k, op.v>>, [kind |-> "set"])
                ELSE /\ op' = Setting(op.from, tm, op.k, op.v, op.loop + 1)
                     /\ UNCHANGED <<pending, outcome>>
  /\ UNCHANGED <<program, mt>>

\* luaH_set clears the flags; fasttm may set one again, so the store clears
\* them once more: the table may be its own metatable.
SetLoop ==
  /\ op.kind = "set"
  /\ LET t == op.t
         m == IF t \in Tables THEN mt[t] ELSE NULL
         clear == IF t \in Tables THEN [flags EXCEPT ![t] = {}] ELSE flags
         present == raw[t][op.k] # Nil
         tm == IF t \in Tables THEN fasttm(clear, m, "__newindex")
               ELSE gettmbyobj(t, "__newindex")
     IN IF op.loop = MaxTagLoop THEN Fail("loop") /\ UNCHANGED <<raw, flags>>
        ELSE IF t \in Tables /\ (present \/ tm = Nil)
        THEN /\ raw' = [raw EXCEPT ![t][op.k] = op.v]
             /\ flags' = LET asked == IF present THEN clear ELSE Cached(clear, m, "__newindex")
                         IN [asked EXCEPT ![t] = {}]
             /\ op' = None /\ outcome' = <<"stored", t>> /\ UNCHANGED pending
        ELSE /\ flags' = clear /\ UNCHANGED raw
             /\ IF tm = Nil THEN Fail("index")
                ELSE IF tm \in Functions THEN CallTM(tm, <<t, op.k, op.v>>, [kind |-> "set"])
                ELSE /\ op' = Setting(op.from, tm, op.k, op.v, op.loop + 1)
                     /\ UNCHANGED <<pending, outcome>>
  /\ UNCHANGED <<program, mt>>

-----------------------------------------------------------------------------
(* Equality and order.                                                       *)

\* Mutant: the first operand's metamethod, whatever the second's is.
compTMOfFirst(m1, m2, e) == fasttm(flags, m1, e)

\* get_compTM: the same metamethod in both metatables, found through the cache.
compTM(m1, m2, e) ==
  LET tm1 == fasttm(flags, m1, e)
      tm2 == fasttm(flags, m2, e)
  IN IF tm1 = Nil \/ m1 = m2 \/ tm1 = tm2 THEN tm1 ELSE Nil
CompCached(m1, m2, e) ==
  IF fasttm(flags, m1, e) = Nil \/ m1 = m2 THEN Cached(flags, m1, e) ELSE Cached(flags, m2, e)

Comparable == (Tables \X Tables) \cup (Userdata \X Userdata)

\* luaV_equalval, for two tables or two userdata
Equal(p) ==
  /\ Ready("eq")
  /\ LET tm == compTM(mt[p[1]], mt[p[2]], "__eq")
     IN IF p[1] = p[2] THEN Give(TRUE) /\ UNCHANGED flags
        ELSE /\ flags' = CompCached(mt[p[1]], mt[p[2]], "__eq")
             /\ IF tm = Nil THEN Give(FALSE) ELSE CallTM(tm, p, [kind |-> "test"])
  /\ UNCHANGED <<program, raw, mt>>

\* luaV_lessthan
LessThan(p) ==
  /\ Ready("order")
  /\ LET tm == orderTM(p[1], p[2], "__lt")
     IN IF tm = Nil THEN Fail("compare") ELSE CallTM(tm, p, [kind |-> "test"])
  /\ UNCHANGED <<program, raw, mt, flags>>

\* Mutant: a <= b as not (a < b).
LessEqualUnswapped(p) ==
  /\ Ready("order")
  /\ LET le == orderTM(p[1], p[2], "__le")
         lt == orderTM(p[2], p[1], "__lt")
     IN IF le # Nil THEN CallTM(le, p, [kind |-> "test"])
        ELSE IF lt # Nil THEN CallTM(lt, p, [kind |-> "not"])
        ELSE Fail("compare")
  /\ UNCHANGED <<program, raw, mt, flags>>

\* lessequal: a <= b by __le, or as not (b < a) by __lt
LessEqual(p) ==
  /\ Ready("order")
  /\ LET le == orderTM(p[1], p[2], "__le")
         lt == orderTM(p[2], p[1], "__lt")
     IN IF le # Nil THEN CallTM(le, p, [kind |-> "test"])
        ELSE IF lt # Nil THEN CallTM(lt, <<p[2], p[1]>>, [kind |-> "not"])
        ELSE Fail("compare")
  /\ UNCHANGED <<program, raw, mt, flags>>

-----------------------------------------------------------------------------
(* Arithmetic, length, concatenation and calls.                              *)

\* Arith with an operand that is no number, and OP_LEN of what has no length
Arith ==
  /\ Ready("arith")
  /\ \E a, b \in Objects :
       LET tm == binTM(a, b, "__add")
       IN IF tm = Nil THEN Fail("arith") ELSE CallTM(tm, <<a, b>>, [kind |-> "get"])
  /\ UNCHANGED <<program, raw, mt, flags>>

Length ==
  /\ Ready("arith")
  /\ \E u \in Userdata :
       LET tm == binTM(u, Nil, "__len")
       IN IF tm = Nil THEN Fail("len") ELSE CallTM(tm, <<u, Nil>>, [kind |-> "get"])
  /\ UNCHANGED <<program, raw, mt, flags>>

\* luaV_concat: from the right, as many strings and numbers at once as there are.
tostring(v) == IF IsNumber(v) THEN Str(<<v.num>>) ELSE v
Convertible(v) == IsNumber(v) \/ IsString(v)
Joinable(vs) == CHOOSE n \in 1..Len(vs) :
                  /\ \A j \in 1..n : Convertible(vs[Len(vs) - j + 1])
                  /\ n = Len(vs) \/ ~Convertible(vs[Len(vs) - n])
Joined(vs) == Str(FlattenSeq([j \in DOMAIN vs |-> tostring(vs[j]).str]))

Concatenation(from, vs) == [kind |-> "concat", from |-> from, vs |-> vs]

BeginConcat == \E vs \in program.concats : Begin(Concatenation(vs, vs))

\* Mutant: a number joined with the empty string stays a number.
ConcatPassOfNumber ==
  /\ op.kind = "concat"
  /\ LET vs == op.vs
         total == Len(vs)
         a == vs[total - 1]
         b == vs[total]
         rest == SubSeq(vs, 1, total - 2)
         tm == binTM(a, b, "__concat")
         n == Joinable(vs)
         on(seq) == IF Len(seq) = 1 THEN Give(seq[1])
                    ELSE op' = Concatenation(op.from, seq) /\ UNCHANGED <<pending, outcome>>
     IN IF ~(Convertible(a) /\ Convertible(b))
        THEN IF tm = Nil THEN Fail("concat")
             ELSE CallTM(tm, <<a, b>>, [kind |-> "concat", vs |-> rest])
        ELSE IF tostring(b).str = <<>> THEN on(Append(rest, a))
        ELSE on(Append(SubSeq(vs, 1, total - n), Joined(SubSeq(vs, total - n + 1, total))))
  /\ UNCHANGED <<program, raw, mt, flags>>

ConcatPass ==
  /\ op.kind = "concat"
  /\ LET vs == op.vs
         total == Len(vs)
         a == vs[total - 1]
         b == vs[total]
         rest == SubSeq(vs, 1, total - 2)
         tm == binTM(a, b, "__concat")
         n == Joinable(vs)
         on(seq) == IF Len(seq) = 1 THEN Give(seq[1])
                    ELSE op' = Concatenation(op.from, seq) /\ UNCHANGED <<pending, outcome>>
     IN IF ~(Convertible(a) /\ Convertible(b))
        THEN IF tm = Nil THEN Fail("concat")
             ELSE CallTM(tm, <<a, b>>, [kind |-> "concat", vs |-> rest])
        ELSE IF tostring(b).str = <<>> THEN on(Append(rest, tostring(a)))
        ELSE on(Append(SubSeq(vs, 1, total - n), Joined(SubSeq(vs, total - n + 1, total))))
  /\ UNCHANGED <<program, raw, mt, flags>>

\* luaD_call of a value that is no function
CallObject ==
  /\ Ready("call")
  /\ \E o \in Objects :
       LET tm == gettmbyobj(o, "__call")
       IN IF tm \in Functions THEN CallFunction(tm, <<o>>, [kind |-> "get"]) ELSE Fail("call")
  /\ UNCHANGED <<program, raw, mt, flags>>

-----------------------------------------------------------------------------
(* The end of a metamethod's call, and what the program does besides.        *)

\* The called function returns v to the operation that called it.
Return(v) ==
  /\ Idle /\ pending # <<>>
  /\ LET p == Last(pending)
     IN IF p.kind = "concat" /\ p.vs # <<>>
        THEN /\ op' = Concatenation(Append(p.vs, v), Append(p.vs, v))
             /\ UNCHANGED outcome
        ELSE /\ outcome' = <<"value", CASE p.kind = "test" -> v # Nil
                                        [] p.kind = "not" -> v = Nil
                                        [] OTHER -> v>>
             /\ UNCHANGED op
  /\ pending' = Front(pending)
  /\ UNCHANGED <<program, raw, mt, flags>>

\* It raises an error instead: every operation in progress is abandoned.
Raise ==
  /\ Idle /\ pending # <<>>
  /\ pending' = <<>> /\ outcome' = <<"error", "raised">>
  /\ UNCHANGED <<program, raw, mt, flags, op>>

\* Mutant: a raw store that leaves the flags alone.
RawSetKeepsFlags(t, k, v) ==
  /\ Idle
  /\ raw' = [raw EXCEPT ![t][k] = v]
  /\ UNCHANGED <<program, mt, flags, op, pending, outcome>>

\* lua_rawset: a store through luaH_set, without metamethods
RawSet(t, k, v) ==
  /\ Idle
  /\ raw' = [raw EXCEPT ![t][k] = v]
  /\ flags' = [flags EXCEPT ![t] = {}]
  /\ UNCHANGED <<program, mt, op, pending, outcome>>

\* lua_setmetatable
SetMetatable(o, m) ==
  /\ Idle
  /\ mt' = [mt EXCEPT ![o] = m]
  /\ UNCHANGED <<program, raw, flags, op, pending, outcome>>

\* The collector asks for the weakness of a table and for a finalizer.
CollectorAsks ==
  /\ Idle /\ "gc" \in program.ops
  /\ \E o \in Tables \cup Userdata, e \in {"__gc", "__mode"} :
       flags' = Cached(flags, mt[o], e)
  /\ UNCHANGED <<program, raw, mt, op, pending, outcome>>

Next ==
  \/ BeginGet \/ GetLoop \/ BeginSet \/ SetLoop
  \/ (\E p \in Comparable : Equal(p) \/ LessThan(p) \/ LessEqual(p))
  \/ Arith \/ Length \/ BeginConcat \/ ConcatPass \/ CallObject
  \/ (\E v \in program.answers : Return(v)) \/ Raise
  \/ (\E w \in program.writes : RawSet(w[1], w[2], w[3]))
  \/ (\E m \in program.metas : SetMetatable(m[1], m[2]))
  \/ CollectorAsks

Spec == Init /\ [][Next]_vars

-----------------------------------------------------------------------------
(* Properties.                                                               *)

\* What the tables are; op, pending and outcome are transient.
TypeOK ==
  /\ program \in Programs
  /\ raw \in [Tables -> [Slots -> Value]]
  /\ mt \in [Objects -> Tables \cup {NULL}]
  /\ flags \in [Tables -> SUBSET FastEvents]

\* The cache never hides a metamethod (ltm.h:41): a bit of flags is set only
\* while the table has no value for the event, whatever the program stores, by
\* rawset or through metamethods, and in whatever order lookups and stores come.
CacheTruthful ==
  \A t \in Tables : \A e \in flags[t] \cap Slots : raw[t][e] = Nil

\* The "index" event: the value, the metamethod's call or the error, after
\* at most MAXTAGLOOP tables; the cache plays no part.
Indexed(from, k) ==
  LET get[n \in 0..MaxTagLoop] == [v \in Value \cup Objects |->
        LET h == gettmbyobj(v, "__index")
        IN IF n = 0 THEN <<"error", "loop">>
           ELSE IF v \in Tables /\ raw[v][k] # Nil THEN <<"value", raw[v][k]>>
           ELSE IF h = Nil THEN IF v \in Tables THEN <<"value", Nil>> ELSE <<"error", "index">>
           ELSE IF h \in Functions THEN <<"call", h, <<v, k>>>> ELSE get[n - 1][h]]
  IN get[MaxTagLoop][from]

\* The "newindex" event, likewise; a store goes to the table where it ends.
Stored(from, k, x) ==
  LET set[n \in 0..MaxTagLoop] == [v \in Value \cup Objects |->
        LET h == gettmbyobj(v, "__newindex")
        IN IF n = 0 THEN <<"error", "loop">>
           ELSE IF v \in Tables /\ (raw[v][k] # Nil \/ h = Nil) THEN <<"stored", v>>
           ELSE IF h = Nil THEN <<"error", "index">>
           ELSE IF h \in Functions THEN <<"call", h, <<v, k, x>>>> ELSE set[n - 1][h]]
  IN set[MaxTagLoop][from]

\* Every indexing operation ends as the events say (luaV_gettable and
\* luaV_settable with the cache of ltm.c).
Indexing ==
  [][Idle' => /\ op.kind = "get" => outcome' = Indexed(op.from, op.k)
              /\ op.kind = "set" => outcome' = Stored(op.from, op.k, op.v)]_vars

\* The handler of a comparison: the metamethod both operands share.
Handler(p, e) ==
  IF gettmbyobj(p[1], e) = gettmbyobj(p[2], e) THEN gettmbyobj(p[1], e) ELSE Nil

\* The step calls h with the operands p, and negates the answer or not.
Calls(h, p, negated) ==
  h \in Functions => /\ outcome' = <<"call", h, p>>
                     /\ pending' = Append(pending, [kind |-> IF negated THEN "not" ELSE "test"])

\* ==, < and <= call the handler both operands share or decide without one;
\* a <= b without __le is the negation of b < a (luaV_equalval, lessequal).
Comparing ==
  [][\A p \in Comparable :
       LET swap == <<p[2], p[1]>>
           eq == Handler(p, "__eq")  lt == Handler(p, "__lt")
           le == Handler(p, "__le")  gt == Handler(swap, "__lt")
       IN /\ Equal(p) => IF p[1] = p[2] \/ eq = Nil
                         THEN outcome' = <<"value", p[1] = p[2]>> ELSE Calls(eq, p, FALSE)
          /\ LessThan(p) => IF lt = Nil THEN outcome'[1] = "error" ELSE Calls(lt, p, FALSE)
          /\ LessEqual(p) => IF le # Nil THEN Calls(le, p, FALSE)
                             ELSE IF gt = Nil THEN outcome'[1] = "error"
                             ELSE Calls(gt, swap, TRUE)]_vars

\* One operand more on the left of what is left of those to its right.
Attached(v, acc) ==
  IF Len(acc) = 1 /\ Convertible(v) /\ Convertible(acc[1])
  THEN <<Str(tostring(v).str \o tostring(acc[1]).str)>> ELSE <<v>> \o acc

\* Concatenation is right associative, two operands at a time: joining as many
\* strings as there are gives the same value or the same metamethod's call.
Folded(vs) ==
  LET fold[i \in 1..Len(vs)] ==
        IF i = Len(vs) THEN <<vs[i]>> ELSE Attached(vs[i], fold[i + 1])
  IN fold[1]
Concatenating ==
  [][op.kind = "concat" /\ Idle' =>
       LET vs == Folded(op.from)
           pair == SubSeq(vs, Len(vs) - 1, Len(vs))
           h == binTM(pair[1], pair[2], "__concat")
       IN IF Len(vs) = 1 THEN outcome' = <<"value", vs[1]>>
          ELSE IF h = Nil THEN outcome' = <<"error", "concat">>
          ELSE h \in Functions =>
                 /\ outcome' = <<"call", h, pair>>
                 /\ Last(pending').vs = SubSeq(vs, 1, Len(vs) - 2)]_vars

\* Indexing and concatenation, the events of more than one step in C.
LoopsAnswered == Indexing /\ Concatenating
=============================================================================
