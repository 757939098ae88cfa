---------------------------- MODULE LuaMeaning -----------------------------
(***************************************************************************)
(* What a Lua program means: its values, the functions of the host it      *)
(* calls, and the effects an observer sees.  The first part is shared by   *)
(* the virtual machine (LuaVM); the second evaluates a program directly    *)
(* from its syntax tree, knowing nothing of registers, jumps or upvalues,  *)
(* and is what the compiled code is compared with; the third writes the    *)
(* tree as the tokens the parser reads.                                    *)
(*                                                                         *)
(* A value is a tuple: <<"nil">>, <<"true">>, <<"false">>, <<"num", n>>,   *)
(* <<"str", s>>, <<"tab", id>>, <<"fn", id>> (a Lua function), or a symbol *)
(* the host made up, such as <<"g", x>>, the host's global x.              *)
(***************************************************************************)
EXTENDS Integers, Sequences, FiniteSets, SequencesExt

Nil == <<"nil">>
True == <<"true">>
False == <<"false">>
Num(n) == <<"num", n>>
Str(s) == <<"str", s>>
Boolean(b) == IF b THEN True ELSE False
IsFalse(v) == v \in {Nil, False}

\* Quotients and powers are abstracted to a value the operands determine;
\* the same operator serves constant folding and execution.
IsNum(v) == v[1] = "num"
NumArith(op, v1, v2) ==
  LET x == v1[2]
      y == v2[2]
  IN CASE op = "ADD" -> Num(x + y)
       [] op = "SUB" -> Num(x - y)
       [] op = "MUL" -> Num(x * y)
       [] op = "UNM" -> Num(-x)
       [] op \in {"DIV", "MOD"} /\ y = 0 -> <<"inf", op, x>>
       [] op = "DIV" -> Num(10 * x + y)
       [] op = "MOD" -> Num((x - y) % 7)
       [] op = "POW" -> Num(100 * x + y)

\* Arithmetic on anything else, order and length are the host's (metamethods).
Arith(op, a, b) == IF IsNum(a) /\ IsNum(b) THEN NumArith(op, a, b) ELSE <<"r", op, a, b>>
ArithEvents(op, a, b) == IF IsNum(a) /\ IsNum(b) THEN <<>> ELSE <<<<op, a, b>>>>
\* The host's answer to a comparison depends on what has happened before.
Compare(op, a, b, trace) ==
  IF op = "EQ" THEN a = b
  ELSE IF IsNum(a) /\ IsNum(b) THEN IF op = "LT" THEN a[2] < b[2] ELSE a[2] <= b[2]
  ELSE Len(trace) % 2 = 0
CompareEvents(op, a, b) == IF op = "EQ" THEN <<>> ELSE ArithEvents(op, a, b)

\* Tables are functions from keys to values, in the store tables.
Get(tables, t, k) ==
  IF t[1] # "tab" THEN <<"r", "get", t, k>>
  ELSE IF k \in DOMAIN tables[t[2]] THEN tables[t[2]][k] ELSE Nil
GetEvents(t, k) == IF t[1] = "tab" THEN <<>> ELSE <<<<"get", t, k>>>>
Put(tables, t, k, v) ==
  IF t[1] = "tab" THEN [tables EXCEPT ![t[2]] = (k :> v) @@ @] ELSE tables
PutEvents(t, k, v) == IF t[1] = "tab" THEN <<>> ELSE <<<<"set", t, k, v>>>>
List(vs) == [k \in {Num(j) : j \in DOMAIN vs} |-> vs[k[2]]]
ArgTable(vs) == (Str("n") :> Num(Len(vs))) @@ List(vs)

Adjust(vs, n) == [j \in 1..n |-> IF j <= Len(vs) THEN vs[j] ELSE Nil]

\* The host's globals, and what its functions return.
InitialGlobal(x) == CASE x = "n" -> Nil [] x = "z" -> False [] x = "one" -> Num(1)
                      [] OTHER -> <<"g", x>>
Global(globals, x) == IF x \in DOMAIN globals THEN globals[x] ELSE InitialGlobal(x)
Calls(trace, f) == Cardinality({j \in DOMAIN trace : trace[j][1] = "call" /\ trace[j][2] = f})
Results(f, args, trace) ==
  LET n == Len(trace)
      control == IF Len(args) > 1 THEN args[2] ELSE Nil
  IN CASE f = <<"g", "none">> -> <<>>
       [] f = <<"g", "two">> -> <<<<"res", n, 1>>, <<"res", n, 2>>>>
       [] f = <<"g", "id">> -> args
       [] f = <<"g", "flip">> -> <<Boolean(Calls(trace, f) < 2)>>
       [] f = <<"g", "iter">> -> <<IF control = Nil THEN Num(1)
                                   ELSE IF control = Num(1) THEN Num(2) ELSE Nil>>
       [] OTHER -> <<<<"res", n>>>>
\* A call shows its arguments and the caller's local variables.
CallEvent(f, args, locals) == <<"call", f, args, locals>>

-----------------------------------------------------------------------------
(* Evaluation of the syntax tree.  R holds the effects and the store: the    *)
(* trace of events, tables, globals, one cell per variable, and functions;   *)
(* env gives the visible variables, the last declared last.                  *)

With(R, vs) == [R |-> R, vs |-> vs]
First(x) == IF x.vs = <<>> THEN Nil ELSE x.vs[1]
Log(R, events) == [R EXCEPT !.trace = @ \o events]
\* Declares names with values: fresh cells, and the environment with them.
Declare(env, names, R) ==
  [env EXCEPT !.vars = @ \o [j \in DOMAIN names |-> <<names[j], Len(R.cells) + j>>]]
Fill(R, vs) == [R EXCEPT !.cells = @ \o vs]
Cell(env, x) == LET js == {j \in DOMAIN env.vars : env.vars[j][1] = x}
                IN IF js = {} THEN 0 ELSE env.vars[Max(js)][2]
Visible(env, R) == [j \in DOMAIN env.vars |-> <<env.vars[j][1], R.cells[env.vars[j][2]]>>]
Order(op) == CASE op \in {"<", ">"} -> "LT" [] op \in {"<=", ">="} -> "LE"
               [] op \in {"==", "~="} -> "EQ"
Arithmetic(op) == CASE op = "+" -> "ADD" [] op = "-" -> "SUB" [] op = "*" -> "MUL"
                    [] op = "/" -> "DIV" [] op = "%" -> "MOD" [] op = "^" -> "POW"

RECURSIVE Eval(_, _, _), EvalList(_, _, _, _), Items(_, _, _, _, _, _), Exec(_, _, _),
          Loop(_, _, _), NumLoop(_, _, _, _), GenLoop(_, _, _, _), Targets(_, _, _, _)

\* All but the last expression give one value, the last gives all of its own.
EvalList(es, j, env, R) ==
  LET x == Eval(es[j], env, R)
      rest == EvalList(es, j + 1, env, x.R)
  IN IF j > Len(es) THEN With(R, <<>>)
     ELSE IF j = Len(es) THEN x
     ELSE With(rest.R, <<First(x)>> \o rest.vs)

Call(f, args, env, R) ==
  LET fn == R.fns[f[2]]
      n == Len(fn.params)
      extra == SubSeq(args, n + 1, Len(args))
      arg == IF fn.usesdots THEN Nil ELSE <<"tab", Len(R.tables) + 1>>
      R1 == IF fn.vararg /\ ~fn.usesdots
            THEN [R EXCEPT !.tables = Append(@, ArgTable(extra))] ELSE R
      names == fn.params \o (IF fn.vararg THEN <<"arg">> ELSE <<>>)
      R2 == Fill(R1, Adjust(args, n) \o (IF fn.vararg THEN <<arg>> ELSE <<>>))
      done == Exec(fn.body, [Declare(fn.env, names, R1) EXCEPT !.dots = extra], R2)
      here == [env EXCEPT !.vars = SubSeq(@, env.own + 1, Len(@))]
  IN IF f[1] = "fn"
     THEN With(done.R, IF done.sig = "return" THEN done.vs ELSE <<>>)
     ELSE With(Log(R, <<CallEvent(f, args, Visible(here, R))>>), Results(f, args, R.trace))

\* The items of a table: positional ones are numbered, the last may give many.
Items(items, j, n, id, env, R) ==
  LET it == items[j]
      k == IF it[1] = "pos" THEN With(R, <<Num(n)>>) ELSE Eval(it[2], env, R)
      v == Eval(it[Len(it)], env, k.R)
      all == it[1] = "pos" /\ j = Len(items)
      put(R0, key, val) == [R0 EXCEPT !.tables = Put(@, id, key, val)]
      last == FoldLeft(LAMBDA S, m : put(S, Num(n + m - 1), v.vs[m]), v.R, [m \in DOMAIN v.vs |-> m])
  IN IF j > Len(items) THEN R
     ELSE IF all THEN last
     ELSE Items(items, j + 1, IF it[1] = "pos" THEN n + 1 ELSE n, id, env,
                put(v.R, First(k), First(v)))

Eval(e, env, R) ==
  LET a == Eval(e[2], env, R)
      b == Eval(e[3], env, a.R)
      u == First(a)
      v == First(b)
  IN CASE e[1] \in {"nil", "true", "false", "num", "str"} -> With(R, <<e>>)
       [] e[1] = "..." -> With(R, env.dots)
       [] e[1] = "name" ->
            LET c == Cell(env, e[2])
            IN With(R, <<IF c = 0 THEN Global(R.globals, e[2]) ELSE R.cells[c]>>)
       [] e[1] = "paren" -> With(a.R, <<u>>)
       [] e[1] = "idx" -> With(Log(b.R, GetEvents(u, v)), <<Get(b.R.tables, u, v)>>)
       [] e[1] = "call" -> LET args == EvalList(e[3], 1, env, a.R)
                           IN Call(u, args.vs, env, args.R)
       [] e[1] = "method" ->
            LET m == Get(a.R.tables, u, Str(e[3]))
                args == EvalList(e[4], 1, env, Log(a.R, GetEvents(u, Str(e[3]))))
            IN Call(m, <<u>> \o args.vs, env, args.R)
       [] e[1] = "and" -> IF IsFalse(u) THEN With(a.R, <<u>>) ELSE With(b.R, <<v>>)
       [] e[1] = "or" -> IF IsFalse(u) THEN With(b.R, <<v>>) ELSE With(a.R, <<u>>)
       [] e[1] = "not" -> With(a.R, <<Boolean(IsFalse(u))>>)
       [] e[1] = "neg" -> With(Log(a.R, ArithEvents("UNM", u, u)), <<Arith("UNM", u, u)>>)
       [] e[1] = "#" -> With(Log(a.R, <<<<"LEN", u>>>>), <<<<"r", "LEN", u>>>>)
       [] e[1] = ".." -> With(b.R, <<<<"cat", u, v>>>>)
       [] e[1] \in {"<", "<="} ->
            With(Log(b.R, CompareEvents(Order(e[1]), u, v)),
                 <<Boolean(Compare(Order(e[1]), u, v, b.R.trace))>>)
       [] e[1] \in {">", ">="} ->
            With(Log(b.R, CompareEvents(Order(e[1]), v, u)),
                 <<Boolean(Compare(Order(e[1]), v, u, b.R.trace))>>)
       [] e[1] = "==" -> With(b.R, <<Boolean(u = v)>>)
       [] e[1] = "~=" -> With(b.R, <<Boolean(u # v)>>)
       [] e[1] \in {"+", "-", "*", "/", "%", "^"} ->
            LET op == Arithmetic(e[1])
            IN With(Log(b.R, ArithEvents(op, u, v)), <<Arith(op, u, v)>>)
       [] e[1] = "table" ->
            LET id == <<"tab", Len(R.tables) + 1>>
                R0 == [R EXCEPT !.tables = Append(@, <<>>)]
            IN With(Items(e[2], 1, 1, id, env, R0), <<id>>)
       [] e[1] = "fn" ->
            With([R EXCEPT !.fns = Append(@,
                    [params |-> e[2], vararg |-> e[3], usesdots |-> e[4], body |-> e[5],
                     env |-> [env EXCEPT !.own = Len(env.vars)]])],
                 <<<<"fn", Len(R.fns) + 1>>>>)

\* The variables of an assignment, their tables and keys evaluated in order.
Targets(ts, j, env, R) ==
  LET t == Eval(ts[j][2], env, R)
      k == Eval(ts[j][3], env, t.R)
      rest == Targets(ts, j + 1, env, IF ts[j][1] = "idx" THEN k.R ELSE R)
      this == IF ts[j][1] = "idx" THEN <<"idx", First(t), First(k)>> ELSE ts[j]
  IN IF j > Len(ts) THEN With(R, <<>>) ELSE With(rest.R, <<this>> \o rest.vs)

Store(target, v, env, R) ==
  LET c == Cell(env, target[2])
  IN CASE target[1] = "idx" ->
            Log([R EXCEPT !.tables = Put(@, target[2], target[3], v)],
                PutEvents(target[2], target[3], v))
       [] target[1] = "name" /\ c # 0 -> [R EXCEPT !.cells[c] = v]
       [] OTHER -> [R EXCEPT !.globals = (target[2] :> v) @@ @]

Done(R, env, sig, vs) == [R |-> R, env |-> env, sig |-> sig, vs |-> vs]
Block(b, env, R) == [Exec(b, env, R) EXCEPT !.env = env]
AfterLoop(r) == IF r.sig = "break" THEN [r EXCEPT !.sig = ""] ELSE r

\* while s[2] do s[3] end, and repeat s[2] until s[3].
Loop(s, env, R) ==
  LET c == Eval(s[2], env, R)
      b == Exec(s[3], env, c.R)
      rb == Exec(s[2], env, R)
      u == Eval(s[3], rb.env, rb.R)
  IN IF s[1] = "while"
     THEN IF IsFalse(First(c)) THEN Done(c.R, env, "", <<>>)
          ELSE IF b.sig # "" THEN b ELSE Loop(s, env, b.R)
     ELSE IF rb.sig # "" THEN rb
          ELSE IF IsFalse(First(u)) THEN Loop(s, env, u.R) ELSE Done(u.R, env, "", <<>>)

NumLoop(s, i, env, R) ==
  LET b == Exec(s[5], Declare(env, <<s[2]>>, R), Fill(R, <<Num(i[1])>>))
  IN IF (IF i[3] > 0 THEN i[1] > i[2] ELSE i[1] < i[2]) THEN Done(R, env, "", <<>>)
     ELSE IF b.sig # "" THEN b ELSE NumLoop(s, <<i[1] + i[3], i[2], i[3]>>, env, b.R)

GenLoop(s, g, env, R) ==
  LET x == Call(g[1], <<g[2], g[3]>>, env, R)
      vs == Adjust(x.vs, Len(s[2]))
      b == Exec(s[4], Declare(env, s[2], x.R), Fill(x.R, vs))
  IN IF vs[1] = Nil THEN Done(x.R, env, "", <<>>)
     ELSE IF b.sig # "" THEN b ELSE GenLoop(s, <<g[1], g[2], vs[1]>>, env, b.R)

\* function a.b:c(...) assigns to a field; a method has a parameter more.
Path(names) == FoldLeft(LAMBDA t, x : <<"idx", t, Str(x)>>, <<"name", names[1]>>, Tail(names))
AsAssignment(s) ==
  <<"assign", <<Path(s[2])>>,
    <<IF s[3] THEN [s[4] EXCEPT ![2] = <<"self">> \o @] ELSE s[4]>>>>

RECURSIVE Stat(_, _, _)
Stat(s, env, R) ==
  LET e == EvalList(s[2], 1, env, R)
      c == Eval(s[2], env, R)
      ts == Targets(s[2], 1, env, R)
      vs == EvalList(s[3], 1, env, ts.R)
      vals == Adjust(vs.vs, Len(s[2]))
      fn == Eval(s[3], Declare(env, <<s[2]>>, R), Fill(R, <<Nil>>))
  IN CASE s[1] = "local" ->
            LET init == EvalList(s[3], 1, env, R)
            IN Done(Fill(init.R, Adjust(init.vs, Len(s[2]))), Declare(env, s[2], init.R), "", <<>>)
       [] s[1] = "localfunction" ->
            Done([fn.R EXCEPT !.cells[Len(R.cells) + 1] = First(fn)],
                 Declare(env, <<s[2]>>, R), "", <<>>)
       [] s[1] = "assign" ->
            Done(FoldLeft(LAMBDA S, j : Store(ts.vs[j], vals[j], env, S), vs.R,
                          Reverse([j \in DOMAIN s[2] |-> j])), env, "", <<>>)
       [] s[1] = "function" -> Stat(AsAssignment(s), env, R)
       [] s[1] = "call" -> Done(c.R, env, "", <<>>)
       [] s[1] = "do" -> Block(s[2], env, R)
       [] s[1] = "if" -> Block(IF IsFalse(First(c)) THEN s[4] ELSE s[3], env, c.R)
       [] s[1] \in {"while", "repeat"} -> AfterLoop([Loop(s, env, R) EXCEPT !.env = env])
       [] s[1] = "for" ->
            LET lim == EvalList(s[3], 1, env, R)
            IN AfterLoop([NumLoop(s, [j \in 1..3 |-> IF j <= Len(lim.vs) THEN lim.vs[j][2] ELSE 1],
                                  env, lim.R) EXCEPT !.env = env])
       [] s[1] = "forin" ->
            LET g == EvalList(s[3], 1, env, R)
            IN AfterLoop([GenLoop(s, Adjust(g.vs, 3), env, g.R) EXCEPT !.env = env])
       [] s[1] = "return" -> Done(e.R, env, "return", e.vs)
       [] s[1] = "break" -> Done(R, env, "break", <<>>)

Exec(b, env, R) ==
  LET r == Stat(Head(b), env, R)
  IN IF b = <<>> THEN Done(R, env, "", <<>>)
     ELSE IF r.sig # "" THEN r ELSE Exec(Tail(b), r.env, r.R)

\* What an observer of the whole program sees.
Meaning(prog) ==
  LET r == Exec(prog, [vars |-> <<>>, own |-> 0, dots |-> <<>>],
                [trace |-> <<>>, tables |-> <<>>, globals |-> <<>>, cells |-> <<>>, fns |-> <<>>])
  IN [trace |-> r.R.trace, tables |-> r.R.tables, globals |-> r.R.globals, results |-> r.vs]

-----------------------------------------------------------------------------
(* The tokens of a program, with no more parentheses than the precedence of  *)
(* the manual (2.5.6) asks for.                                              *)

Unary == {"not", "neg", "#"}
Binary == {"and", "or", "..", "==", "~=", "<", "<=", ">", ">=", "+", "-", "*", "/", "%", "^"}
Level(e) == CASE e[1] = "or" -> 1 [] e[1] = "and" -> 2
              [] e[1] \in {"==", "~=", "<", "<=", ">", ">="} -> 3 [] e[1] = ".." -> 4
              [] e[1] \in {"+", "-"} -> 5 [] e[1] \in {"*", "/", "%"} -> 6
              [] e[1] \in Unary -> 7 [] e[1] = "^" -> 8 [] OTHER -> 9
RightAssociative(e) == e[1] \in {"..", "^"}

RECURSIVE Tokens(_), StatTokens(_), Source(_)
Parens(ts) == <<<<"(">>>> \o ts \o <<<<")">>>>
Separated(tss, sep) ==
  FoldLeft(LAMBDA acc, ts : IF acc = <<>> THEN ts ELSE acc \o <<<<sep>>>> \o ts, <<>>, tss)
Exprs(es) == Separated([j \in DOMAIN es |-> Tokens(es[j])], ",")
NameList(ns) == Separated([j \in DOMAIN ns |-> <<<<"NAME", ns[j]>>>>], ",")
Prefix(e) == IF e[1] \in {"name", "idx", "call", "method", "paren"} THEN Tokens(e)
             ELSE Parens(Tokens(e))
Operandof(e, child, tight) ==
  IF Level(child) < Level(e) \/ (tight /\ Level(child) = Level(e)) THEN Parens(Tokens(child))
  ELSE Tokens(child)
Item(it) == CASE it[1] = "pos" -> Tokens(it[2])
              [] it[1] = "field" -> <<<<"NAME", it[2][2]>>, <<"=">>>> \o Tokens(it[3])
              [] it[1] = "key" -> <<<<"[">>>> \o Tokens(it[2]) \o <<<<"]">>, <<"=">>>> \o Tokens(it[3])
Body(e) ==
  <<<<"(">>>> \o NameList(e[2]) \o (IF e[3] /\ e[2] # <<>> THEN <<<<",">>>> ELSE <<>>)
  \o (IF e[3] THEN <<<<"...">>>> ELSE <<>>) \o <<<<")">>>> \o Source(e[5]) \o <<<<"end">>>>

Tokens(e) ==
  CASE e[1] \in {"nil", "true", "false", "..."} -> <<<<e[1]>>>>
    [] e[1] = "num" -> <<<<"NUMBER", e>>>>
    [] e[1] = "str" -> <<<<"STRING", e>>>>
    [] e[1] = "name" -> <<<<"NAME", e[2]>>>>
    [] e[1] = "paren" -> Parens(Tokens(e[2]))
    [] e[1] = "idx" -> Prefix(e[2]) \o
         (IF e[3][1] = "str" THEN <<<<".">>, <<"NAME", e[3][2]>>>>
          ELSE <<<<"[">>>> \o Tokens(e[3]) \o <<<<"]">>>>)
    [] e[1] = "call" -> Prefix(e[2]) \o Parens(Exprs(e[3]))
    [] e[1] = "method" -> Prefix(e[2]) \o <<<<":">>, <<"NAME", e[3]>>>> \o Parens(Exprs(e[4]))
    [] e[1] \in Unary -> <<<<IF e[1] = "neg" THEN "-" ELSE e[1]>>>> \o Operandof(e, e[2], FALSE)
    [] e[1] \in Binary -> Operandof(e, e[2], RightAssociative(e)) \o <<<<e[1]>>>>
                          \o (IF e[3][1] \in Unary THEN Tokens(e[3])
                              ELSE Operandof(e, e[3], ~RightAssociative(e)))
    [] e[1] = "table" -> <<<<"{">>>> \o Separated([j \in DOMAIN e[2] |-> Item(e[2][j])], ",")
                         \o <<<<"}">>>>
    [] e[1] = "fn" -> <<<<"function">>>> \o Body(e)

StatTokens(s) ==
  CASE s[1] = "local" -> <<<<"local">>>> \o NameList(s[2])
                         \o (IF s[3] = <<>> THEN <<>> ELSE <<<<"=">>>> \o Exprs(s[3]))
    [] s[1] = "localfunction" -> <<<<"local">>, <<"function">>, <<"NAME", s[2]>>>> \o Body(s[3])
    [] s[1] = "assign" -> Exprs(s[2]) \o <<<<"=">>>> \o Exprs(s[3])
    [] s[1] = "function" ->
         <<<<"function">>>>
         \o Separated([j \in 1..(Len(s[2]) - (IF s[3] THEN 1 ELSE 0)) |-> <<<<"NAME", s[2][j]>>>>], ".")
         \o (IF s[3] THEN <<<<":">>, <<"NAME", Last(s[2])>>>> ELSE <<>>) \o Body(s[4])
    [] s[1] = "call" -> Tokens(s[2])
    [] s[1] = "do" -> <<<<"do">>>> \o Source(s[2]) \o <<<<"end">>>>
    [] s[1] = "if" -> <<<<"if">>>> \o Tokens(s[2]) \o <<<<"then">>>> \o Source(s[3])
                      \o (CASE s[4] = <<>> -> <<<<"end">>>>
                            [] Len(s[4]) = 1 /\ s[4][1][1] = "if" ->
                                 <<<<"elseif">>>> \o Tail(StatTokens(s[4][1]))
                            [] OTHER -> <<<<"else">>>> \o Source(s[4]) \o <<<<"end">>>>)
    [] s[1] = "while" -> <<<<"while">>>> \o Tokens(s[2]) \o <<<<"do">>>> \o Source(s[3]) \o <<<<"end">>>>
    [] s[1] = "repeat" -> <<<<"repeat">>>> \o Source(s[2]) \o <<<<"until">>>> \o Tokens(s[3])
    [] s[1] = "for" -> <<<<"for">>, <<"NAME", s[2]>>, <<"=">>>> \o Exprs(s[3]) \o <<<<"do">>>>
                       \o Source(s[5]) \o <<<<"end">>>>
    [] s[1] = "forin" -> <<<<"for">>>> \o NameList(s[2]) \o <<<<"in">>>> \o Exprs(s[3])
                         \o <<<<"do">>>> \o Source(s[4]) \o <<<<"end">>>>
    [] s[1] = "return" -> <<<<"return">>>> \o Exprs(s[2])
    [] s[1] = "break" -> <<<<"break">>>>

Source(b) == FoldLeft(LAMBDA acc, s : acc \o StatTokens(s) \o <<<<";">>>>, <<>>, b)
Text(prog) == Source(prog) \o <<<<"<eof>">>>>
=============================================================================
