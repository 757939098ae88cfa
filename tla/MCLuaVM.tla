------------------------------ MODULE MCLuaVM ------------------------------
(***************************************************************************)
(* The programs LuaVM compiles and runs: families that put every construct *)
(* in the contexts where the code generator treats it differently.         *)
(***************************************************************************)
EXTENDS LuaVM

N(x) == <<"name", x>>
One == Num(1)
Local(names, es) == <<"local", names, es>>
Assign(ts, es) == <<"assign", ts, es>>
CallOf(f, args) == <<"call", N(f), args>>
Do(f, args) == <<"call", CallOf(f, args)>>
Ret(es) == <<"return", es>>
Field(t, x) == <<"idx", t, Str(x)>>
Index(t, k) == <<"idx", t, k>>
Fn(params, b) == <<"fn", params, FALSE, FALSE, b>>
Vararg(params, uses, b) == <<"fn", params, TRUE, uses, b>>
If(c, b1, b2) == <<"if", c, b1, b2>>
Table(es) == <<"table", [j \in DOMAIN es |-> <<"pos", es[j]>>]>>
Break == <<"break">>

-----------------------------------------------------------------------------
(* Conditions and operators in every place that takes an expression.         *)

Header == <<Local(<<"a">>, <<N("x")>>)>>
Places(e) ==
  { Header \o <<Ret(<<e>>)>>,
    Header \o <<Local(<<"v">>, <<e>>), Do("f", <<N("v")>>)>>,
    Header \o <<Assign(<<N("a")>>, <<e>>), Do("f", <<N("a"), e>>)>>,
    Header \o <<If(e, <<Do("f", <<One>>)>>, <<Do("f", <<Num(2)>>)>>)>>,
    Header \o <<<<"while", e, <<Do("f", <<>>), Break>>>>, Do("f", <<One>>)>> }

Logic == {"and", "or"}
Basic == {N("a"), N("n"), <<"<", N("a"), One>>, <<"not", N("z")>>}
Two == {<<op, u, v>> : op \in Logic, u \in Basic, v \in Basic}
Conditions ==
  Two \cup {<<"not", e>> : e \in Two}
  \cup {<<op, e, v>> : op \in Logic, e \in {<<o, N("n"), u>> : o \in Logic, u \in Basic}, v \in Basic}
  \cup {<<op, u, e>> : op \in Logic, u \in Basic, e \in {<<o, v, N("a")>> : o \in Logic, v \in Basic}}
  \cup {<<"==", <<op, u, One>>, <<"not", v>>>> : op \in Logic, u \in Basic, v \in Basic}
  \cup {<<"and", <<"not", e>>, One>> : e \in {<<"or", N("a"), N("n")>>, <<"==", N("a"), N("x")>>}}
  \cup {<<op, u, v>> : op \in Logic, u \in {One, <<"nil">>, <<"true">>, CallOf("flip", <<>>)},
                       v \in {<<"false">>, CallOf("g", <<>>)}}

Operands == {N("a"), N("x"), One, Num(2), CallOf("g", <<>>), <<"neg", N("a")>>, <<"#", N("a")>>,
             Field(N("a"), "y"), <<"-", N("x"), N("a")>>, <<"nil">>, <<"str", "s">>}
Operators == {"+", "..", "<", ">", "<=", ">=", "==", "~=", "idx"}
Indexable(op, u) == op # "idx" \/ u[1] \in {"name", "idx", "call"}
Expressions ==
  {<<t[1], t[2], t[3]>> : t \in {w \in Operators \X Operands \X Operands : Indexable(w[1], w[2])}}
  \cup {<<"..", N("a"), <<"..", u, v>>>> : u \in Operands, v \in Operands}
  \cup {<<"-", Num(4), <<"*", Num(3), Num(2)>>>>, <<"neg", Num(3)>>, <<"/", One, Num(0)>>}
\* Constants used before fill the range an operand can name.
Constants == <<Do("f", <<<<"str", "k1">>, <<"str", "k2">>>>)>>
Arithmetics == UNION {{Header \o <<Ret(<<e>>)>>, Constants \o Header \o <<If(e, <<Do("h", <<>>)>>, <<>>)>>}
                      : e \in Expressions}

-----------------------------------------------------------------------------
(* Assignments and tables.                                                   *)

Targets1 == {N("a"), N("t"), N("y"), Index(N("t"), N("a")), Field(N("t"), "x"), Index(N("a"), N("t"))}
RightSides == {<<N("t"), N("a")>>, <<CallOf("two", <<>>)>>, <<N("x")>>, <<One, N("a"), CallOf("g", <<>>)>>,
               <<N("a"), CallOf("none", <<>>)>>}
Prelude == Header \o <<Local(<<"t">>, <<Table(<<>>)>>)>>
Show == <<Do("f", <<N("a"), N("t"), N("y")>>)>>
Assignments ==
  {Prelude \o <<Assign(<<u, v>>, es)>> \o Show : u \in Targets1, v \in Targets1, es \in RightSides}
  \cup {Prelude \o <<Assign(<<u, v, w>>, <<One, N("a"), N("t")>>)>> \o Show
        : u \in Targets1, v \in Targets1, w \in Targets1}
  \cup {Prelude \o <<Local(<<"b", "c">>, es), Do("f", <<N("b"), N("c")>>)>> : es \in RightSides}

Lasts == {N("x"), CallOf("two", <<>>), <<"paren", CallOf("two", <<>>)>>, CallOf("none", <<>>), <<"...">>,
          <<"and", N("a"), N("x")>>}
Items1 == {<<"pos", N("a")>>, <<"field", Str("u"), CallOf("g", <<>>)>>, <<"key", N("x"), One>>}
Constructors ==
  {Header \o <<Ret(<<<<"table", [j \in 1..n |-> <<"pos", Num(j)>>] \o mid \o <<<<"pos", v>>>>>>>>)>>
   : n \in 0..4, mid \in {<<>>} \cup {<<i>> : i \in Items1}, v \in Lasts}
  \cup {Header \o <<Ret(<<<<"table", [j \in 1..n |-> <<"pos", Num(j)>>] \o <<i>>>>>>)>>
        : n \in 0..4, i \in Items1}

-----------------------------------------------------------------------------
(* Functions, calls and closures.                                            *)

ArgLists == {<<>>, <<One>>, <<One, Num(2), Num(3)>>, <<One, CallOf("two", <<>>)>>,
             <<CallOf("none", <<>>)>>, <<N("x"), <<"paren", CallOf("two", <<>>)>>>>}
ArgUse == Do("h", <<N("arg")>>)
Functions ==
  {Fn(<<"p", "q">>, <<Ret(es)>>) : es \in {<<>>, <<N("q"), N("p")>>, <<CallOf("id", <<N("p"), N("q")>>)>>}}
  \cup {Vararg(ps, TRUE, <<Ret(es)>>) : ps \in {<<>>, <<"p">>},
          es \in {<<<<"...">>>>, <<<<"paren", <<"...">>>>>>, <<CallOf("id", <<One, <<"...">>>>), One>>}}
  \cup {Vararg(<<"p">>, FALSE, <<Do("h", <<N("arg"), N("p")>>), Ret(<<N("arg")>>)>>)}
  \cup {Vararg(<<"p">>, TRUE, <<Local(<<"u", "v">>, <<<<"...">>>>), Ret(<<N("u"), N("v"), N("p")>>)>>)}
Callers(args) ==
  { <<Do("fn", args)>>, <<Ret(<<CallOf("fn", args)>>)>>,
    <<Local(<<"u", "v">>, <<CallOf("fn", args)>>), Do("f", <<N("u"), N("v")>>)>>,
    <<Do("f", <<CallOf("fn", args), CallOf("fn", args)>>)>>,
    <<Ret(<<Table(<<CallOf("fn", args)>>)>>)>> }
Calling == UNION {{<<Local(<<"fn">>, <<f>>)>> \o c : c \in Callers(args)} : f \in Functions, args \in ArgLists}

Counter(v) == Fn(<<>>, <<Assign(<<N(v)>>, <<<<"+", N(v), One>>>>), Ret(<<N(v)>>)>>)
Save(v) == <<Assign(<<Index(N("t"), N("k"))>>, <<Counter(v)>>),
             Assign(<<N("k")>>, <<<<"+", N("k"), One>>>>)>>
CallSaved == [j \in 1..3 |-> If(Index(N("t"), Num(j - 1)),
                 <<<<"call", <<"call", Index(N("t"), Num(j - 1)), <<>>>>>>, Do("f", <<N("o")>>)>>, <<>>)]
LoopBodies ==
  UNION {{ <<Local(<<"v">>, <<N("k")>>)>> \o Save(v) \o out,
           <<Local(<<"v">>, <<N("k")>>), <<"do", Save(v) \o out>>, Do("f", <<N("v")>>)>> }
         : v \in {"v", "o"},
           out \in {<<>>, <<If(CallOf("flip", <<>>), <<Break>>, <<>>)>>,
                    <<Local(<<"w">>, <<One>>), If(CallOf("flip", <<>>), <<Local(<<"u">>, <<>>), Break>>, <<>>)>>}}
Loops(b) ==
  { <<<<"for", "i", <<One, Num(3)>>, 0, b>>>>,
    <<<<"for", "i", <<Num(3), One, Num(-2)>>, 0, b>>>>,
    <<<<"forin", <<"i", "j">>, <<N("iter"), N("x")>>, b>>>>,
    <<<<"while", <<"<", N("k"), Num(2)>>, b>>>>,
    <<<<"repeat", b, <<"not", CallOf("flip", <<>>)>>>>>>,
    <<<<"repeat", b \o <<Local(<<"z">>, <<N("k")>>), Assign(<<Index(N("t"), N("z"))>>, <<Counter("z")>>)>>,
        <<">", N("z"), One>>>>>> }
Looping == UNION {{<<Local(<<"t", "k", "o">>, <<Table(<<>>), Num(0), Num(10)>>)>> \o l \o CallSaved
                   : l \in Loops(b)} : b \in LoopBodies}

Nesting ==
  { <<Local(<<"c", "d">>, <<One>>),
      <<"localfunction", "g1", Fn(<<"p">>, <<Assign(<<N("d")>>, <<Fn(<<>>, <<Assign(<<N("c")>>,
          <<<<"+", N("c"), N("p")>>>>), Ret(<<N("c"), N("d")>>)>>)>>), Ret(<<N("d")>>)>>)>>,
      Local(<<"h1">>, <<CallOf("g1", <<Num(5)>>)>>),
      Do("f", <<CallOf("h1", <<>>)>>), Do("f", <<N("c")>>), Ret(<<CallOf("h1", <<>>)>>)>>,
    <<<<"localfunction", "fact", Fn(<<"p">>, <<If(<<"<", N("p"), One>>, <<Ret(<<One>>)>>,
         <<Ret(<<<<"*", N("p"), CallOf("fact", <<<<"-", N("p"), One>>>>)>>>>)>>)>>)>>, Ret(<<CallOf("fact", <<Num(3)>>)>>)>>,
    <<<<"localfunction", "down", Fn(<<"p">>, <<If(<<"==", N("p"), Num(0)>>, <<Ret(<<N("p"), N("x")>>)>>, <<>>),
         Ret(<<CallOf("down", <<<<"-", N("p"), One>>>>)>>)>>)>>, Ret(<<CallOf("down", <<Num(2)>>)>>)>>,
    Prelude \o <<<<"function", <<"t", "m", "e">>, TRUE, Fn(<<"p">>, <<Ret(<<N("self"), N("p")>>)>>)>>>>,
    Prelude \o <<<<"function", <<"t", "m">>, TRUE, Fn(<<"p">>, <<Ret(<<N("self"), N("p")>>)>>)>>,
                 Ret(<<<<"method", N("t"), "m", <<One>>>>>>)>>,
    Prelude \o <<<<"function", <<"t", "m">>, FALSE, Fn(<<>>, <<Ret(<<N("a")>>)>>)>>,
                 Do("f", <<<<"call", Field(N("t"), "m"), <<>>>>>>), <<"call", <<"method", N("x"), "m", <<N("a")>>>>>>>>,
    <<<<"function", <<"y">>, FALSE, Fn(<<>>, <<Ret(<<>>)>>)>>, Do("y", <<>>), Do("f", <<CallOf("y", <<>>)>>)>>,
    <<If(N("n"), <<Do("f", <<>>)>>, <<If(N("z"), <<Do("g", <<>>)>>, <<If(N("x"), <<Do("h", <<>>)>>,
         <<Do("f", <<One>>)>>)>>)>>), Ret(<<>>)>>,
    <<<<"while", <<"true">>, <<<<"while", CallOf("flip", <<>>), <<If(N("x"), <<Break>>, <<>>)>>>>, Break>>>>>> }

-----------------------------------------------------------------------------
(* Sequences of statements that share registers and targets of jumps.        *)

Steps1 == { Local(<<"a">>, <<>>), Local(<<"a", "b">>, <<<<"nil">>>>), Local(<<"a">>, <<N("x")>>),
            If(CallOf("flip", <<>>), <<Local(<<"c">>, <<>>)>>, <<>>),
            If(N("x"), <<Local(<<"a">>, <<<<"nil">>>>)>>, <<Local(<<"b">>, <<>>)>>),
            <<"do", <<Local(<<"d", "e">>, <<One, Num(2)>>)>>>>,
            Assign(<<N("a")>>, <<<<"nil">>>>),
            <<"while", CallOf("flip", <<>>), <<Local(<<"a">>, <<>>), Assign(<<N("a")>>, <<One>>)>>>> }
Sequences3 == {<<s1, s2, s3, Do("f", <<N("a"), N("b")>>)>> : s1 \in Steps1, s2 \in Steps1, s3 \in Steps1}

-----------------------------------------------------------------------------
(* Programs at the limits.                                                   *)

Names1 == <<"l1", "l2", "l3", "l4", "l5", "l6", "l7", "l8", "l9", "l10", "l11", "l12", "l13">>
Locals1(n) == SubSeq(Names1, 1, n)
ManyLocals(n) == <<Local(Locals1(n), <<N("x")>>), Do("h", <<>>)>>
ManyUpvalues(n) == <<Local(Locals1(n), <<N("x")>>),
                     Ret(<<Fn(<<>>, <<Ret([j \in 1..n |-> N(Names1[j])])>>)>>)>>
ManyRegisters(n) == <<Do("f", [j \in 1..n |-> Num(j)])>>
RECURSIVE Nested(_)
Nested(n) == IF n = 0 THEN One ELSE <<"paren", Nested(n - 1)>>
Deep(n) == <<Ret(<<Nested(n)>>)>>
\* Jumps over n calls, of two instructions each: over a branch of 2n and over
\* one of 2n + 1, and back to the start of a loop, 2n + 4 and 2n + 5 before.
CallsInRow(n) == [j \in 1..n |-> Do("f", <<>>)]
JumpOver(n) == <<If(N("n"), CallsInRow(n), <<>>)>>
JumpOverElse(n) == <<If(N("n"), CallsInRow(n), CallsInRow(1))>>
JumpBack(n) == <<<<"while", N("n"), CallsInRow(n)>>>>
JumpBackOdd(n) == <<<<"while", N("n"), <<Local(<<"l1">>, <<>>)>> \o CallsInRow(n)>>>>
\* Programs within the limits, and programs just past them.
Fitting == {ManyLocals(MaxVars), ManyUpvalues(MaxUpvalues), ManyRegisters(MaxStack - 2), Deep(MaxLevels - 2),
            JumpOver(MaxArgSBx \div 2), JumpBack((MaxArgSBx - 4) \div 2)}
TooLarge == {ManyLocals(MaxVars + 1), ManyUpvalues(MaxUpvalues + 1), ManyRegisters(MaxStack - 1),
             Deep(MaxLevels - 1), JumpOverElse(MaxArgSBx \div 2), JumpBackOdd((MaxArgSBx - 4) \div 2), <<Break>>}

AllPrograms ==
  UNION {Places(e) : e \in Conditions} \cup Arithmetics \cup Assignments \cup Constructors
  \cup Calling \cup Looping \cup Nesting \cup Sequences3 \cup Fitting \cup TooLarge

\* for a, b = x, y do end: a list of names is followed by "in" only.
TwoNames == <<<<"for a, b =">>>>
ForNames ==
  LET text == Text(<<<<"forin", <<"a", "b">>, <<N("x"), N("y")>>, <<>>>>>>)
  IN [source |-> TwoNames, meaning |-> Meaning(<<>>),
      main |-> luaY_parser([j \in DOMAIN text |-> IF text[j] = <<"in">> THEN <<"=">> ELSE text[j]])]

AllChunks == LET sources == AllPrograms IN {Chunk(p) : p \in sources} \cup {ForNames}

\* A table of n elements made in a loop: past MaxArgC batches, the batch number
\* is a word of its own, and the jump of the loop may follow it.  With MaxArgC
\* scaled down from 511 to 26, batch 27 has the opcode bits of batch 539.
BigTable(n) == <<<<"while", <<"true">>, <<Local(<<"t">>, <<Table([j \in 1..n |-> One])>>), Break>>>>>>
BigTables == LET sources == {BigTable(n) : n \in 25..28} IN {Chunk(p) : p \in sources}

\* The compiler rejects a program exactly when it needs more local variables,
\* upvalues, registers or levels of nesting than there are or a longer jump
\* than an instruction can hold, breaks outside a loop, or gives a numeric for
\* two names: the limits are exact on both sides.
LimitsExact ==
  status # "source" => ((status = "rejected") = (program.source \in TooLarge \cup {TwoNames}))
=============================================================================
