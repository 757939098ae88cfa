----------------------------- MODULE LuaParser -----------------------------
(***************************************************************************)
(* The parser of Lua 5.1 (lparser.c): one operator per grammar rule, which *)
(* reads tokens and generates code through LuaCode in a single pass.       *)
(*                                                                         *)
(* The state fs is the FuncState being compiled together with the LexState *)
(* (fs.tk, the tokens, and fs.i, the current one); fs.prev holds the       *)
(* enclosing FuncState, or is empty.  A token is a tuple: <<"NAME", x>>,   *)
(* <<"NUMBER", v>>, <<"STRING", v>>, or the word itself, <<"while">>.      *)
(* Line numbers, and the wording of messages, are left out.                *)
(***************************************************************************)
EXTENDS LuaCheck

CONSTANTS MaxVars,      \* LUAI_MAXVARS
          MaxUpvalues,  \* LUAI_MAXUPVALUES
          MaxLevels     \* LUAI_MAXCCALLS, the syntactic nesting

Tok(fs) == fs.tk[fs.i][1]
Sem(fs) == fs.tk[fs.i][2]
luaX_next(fs) == [fs EXCEPT !.i = IF @ < Len(fs.tk) THEN @ + 1 ELSE @]
check(fs, c) == IF Tok(fs) = c THEN fs ELSE Error(fs, "expected")
checknext(fs, c) == luaX_next(check(fs, c))
testnext(fs, c) == IF Tok(fs) = c THEN luaX_next(fs) ELSE fs
\* Mutant: the last one allowed is refused.
checklimitStrict(fs, v, l, what) == IF v >= l THEN Error(fs, what) ELSE fs
checklimit(fs, v, l, what) == IF v > l THEN Error(fs, what) ELSE fs
enterlevel(fs) == checklimit([fs EXCEPT !.level = @ + 1], fs.level + 1, MaxLevels, "levels")
leavelevel(fs) == [fs EXCEPT !.level = @ - 1]

codestring(fs, s) == LET g == addk(fs, s) IN FE(g, init_exp("VK", KIndex(g, s)))
checkname(fs) == codestring(checknext(fs, "NAME"), Str(Sem(check(fs, "NAME"))))

-----------------------------------------------------------------------------
(* Variables.                                                                *)

new_localvar(fs, name, n) ==
  LET g == checklimit(fs, fs.nactvar + n + 1, MaxVars, "local variables")
  IN [g EXCEPT !.locvars = Append(@, [name |-> name, startpc |-> 0, endpc |-> 0]),
               !.actvar = Append(SubSeq(@, 1, fs.nactvar + n), Len(fs.locvars) + 1)]

adjustlocalvars(fs, n) ==
  [fs EXCEPT !.nactvar = @ + n,
             !.locvars = [j \in DOMAIN @ |->
                IF j \in Range(SubSeq(fs.actvar, fs.nactvar + 1, fs.nactvar + n))
                THEN [@[j] EXCEPT !.startpc = Pc(fs)] ELSE @[j]]]

removevars(fs, tolevel) ==
  [fs EXCEPT !.nactvar = tolevel,
             !.actvar = SubSeq(@, 1, tolevel),
             !.locvars = [j \in DOMAIN @ |->
                IF j \in Range(SubSeq(fs.actvar, tolevel + 1, fs.nactvar))
                THEN [@[j] EXCEPT !.endpc = Pc(fs)] ELSE @[j]]]

VarsNamed(fs, n) == {i \in 1..fs.nactvar : fs.locvars[fs.actvar[i]].name = n}
searchvar(fs, n) == IF VarsNamed(fs, n) = {} THEN -1 ELSE Max(VarsNamed(fs, n)) - 1

\* Mutant: the block marked is the one around the block that declares.
markupvalOuter(fs, level) ==
  LET blocks == {b \in DOMAIN fs.bl : fs.bl[b].nactvar < level}
  IN IF blocks = {} THEN fs ELSE [fs EXCEPT !.bl[Max(blocks)].upval = TRUE]
\* The innermost block that declares the variable must close it on leaving.
markupval(fs, level) ==
  LET blocks == {b \in DOMAIN fs.bl : fs.bl[b].nactvar <= level}
  IN IF blocks = {} THEN fs ELSE [fs EXCEPT !.bl[Max(blocks)].upval = TRUE]

Upvalue(k, info) == [k |-> k, info |-> info]
indexupvalue(fs, v) ==
  LET u == Upvalue(v.k, v.info)
  IN IF u \in Range(fs.upvalues) THEN fs
     ELSE [checklimit(fs, Len(fs.upvalues) + 1, MaxUpvalues, "upvalues")
             EXCEPT !.upvalues = Append(@, u)]

RECURSIVE singlevaraux(_, _, _)
singlevaraux(fs, n, base) ==
  LET v == searchvar(fs, n)
      outer == singlevaraux(fs.prev[1], n, FALSE)
      g == indexupvalue([fs EXCEPT !.prev = <<outer.fs>>], outer.e)
      u == Upvalue(outer.e.k, outer.e.info)
  IN IF v >= 0 THEN FE(IF base THEN fs ELSE markupval(fs, v), init_exp("VLOCAL", v))
     ELSE IF fs.prev = <<>> \/ outer.e.k = "VGLOBAL"
          THEN FE(fs, init_exp("VGLOBAL", NO_REG))
          ELSE FE(g, init_exp("VUPVAL", (CHOOSE j \in DOMAIN g.upvalues : g.upvalues[j] = u) - 1))

singlevar(fs) ==
  LET n == Sem(check(fs, "NAME"))
      x == singlevaraux(checknext(fs, "NAME"), n, TRUE)
      g == addk(x.fs, Str(n))
  IN IF x.e.k = "VGLOBAL" THEN FE(g, [x.e EXCEPT !.info = KIndex(g, Str(n))]) ELSE x

\* Makes nexps expressions, of which e is the last, into nvars values.
adjust_assign(fs, nvars, nexps, e) ==
  LET extra == nvars - nexps
      n == Max({extra + 1, 0})
      g == luaK_setreturns(fs, e, n)
      h == IF e.k = "VVOID" THEN fs ELSE luaK_exp2nextreg(fs, e).fs
  IN IF hasmultret(e.k) THEN IF n > 1 THEN luaK_reserveregs(g, n - 1) ELSE g
     ELSE IF extra > 0 THEN luaK_nil(luaK_reserveregs(h, extra), h.freereg, extra)
     ELSE h

-----------------------------------------------------------------------------
(* Blocks and functions.                                                     *)

enterblock(fs, isbreakable) ==
  [Expect(fs, fs.freereg = fs.nactvar, "enterblock") EXCEPT !.bl = Append(@,
     [breaklist |-> NO_JUMP, isbreakable |-> isbreakable,
      nactvar |-> fs.nactvar, upval |-> FALSE])]

leaveblock(fs) ==
  LET bl == Last(fs.bl)
      g == removevars([fs EXCEPT !.bl = Front(@)], bl.nactvar)
      h == IF bl.upval THEN luaK_codeABC(g, "CLOSE", bl.nactvar, 0, 0) ELSE g
  IN luaK_patchtohere([Expect(h, ~bl.isbreakable \/ ~bl.upval, "leaveblock")
                         EXCEPT !.freereg = h.nactvar], bl.breaklist)

\* The instructions after CLOSURE say where each upvalue comes from.
pushclosure(fs, func) ==
  LET g == luaK_codeABx([fs EXCEPT !.p = Append(@, func.f)], "CLOSURE", 0, Len(fs.p))
  IN FE(FoldLeft(LAMBDA h, u : luaK_codeABC(h, IF u.k = "VLOCAL" THEN "MOVE" ELSE "GETUPVAL",
                                            0, u.info, 0), g, func.upvalues),
        init_exp("VRELOCABLE", LastPc(g)))

open_func(tk, i, prev, level) ==
  [tk |-> tk, i |-> i, prev |-> prev, level |-> level, err |-> "", bad |-> {},
   code |-> <<>>, k |-> <<>>, p |-> <<>>, upvalues |-> <<>>, locvars |-> <<>>,
   actvar |-> <<>>, nactvar |-> 0, freereg |-> 0, maxstacksize |-> 2, bl |-> <<>>,
   jpc |-> NO_JUMP, lasttarget |-> -1, is_vararg |-> {}, numparams |-> 0]

\* The finished prototype, with the tokens left and the upvalues to capture.
close_func(fs) ==
  LET g == luaK_ret(removevars(fs, 0), 0, 0)
      f == [code |-> g.code, k |-> g.k, p |-> g.p, nups |-> Len(g.upvalues),
            locvars |-> g.locvars, maxstacksize |-> g.maxstacksize,
            is_vararg |-> g.is_vararg, numparams |-> g.numparams]
      ok == fs.err # "" \/ (luaG_checkcode(f) /\ fs.bl = <<>>)
  IN [fs |-> [fs.prev[1] EXCEPT !.i = g.i, !.level = g.level,
                !.bad = @ \cup Expect(g, ok, "checkcode").bad,
                !.err = IF @ = "" THEN g.err ELSE @],
      upvalues |-> g.upvalues,
      f |-> f]

-----------------------------------------------------------------------------
(* Expressions.                                                              *)

RECURSIVE chunk(_), subexpr(_, _), BinaryTail(_, _, _), primaryexp(_), PrimaryTail(_, _),
          constructor(_), Fields(_, _), explist(_, _, _), Params(_, _)

expr(fs) == subexpr(fs, 0)

field(fs, v) ==
  LET x == luaK_exp2anyreg(fs, v)
      key == checkname(luaX_next(x.fs))
  IN luaK_indexed(key.fs, x.e, key.e)

yindex(fs) ==
  LET v == expr(luaX_next(fs))
      x == luaK_exp2val(v.fs, v.e)
  IN FE(checknext(x.fs, "]"), x.e)

recfield(fs, cc) ==
  LET key == IF Tok(fs) = "NAME" THEN checkname(fs) ELSE yindex(fs)
      k == luaK_exp2RK(checknext(key.fs, "="), key.e)
      val == expr(k.fs)
      v == luaK_exp2RK(val.fs, val.e)
  IN [cc EXCEPT !.fs = [luaK_codeABC(v.fs, "SETTABLE", cc.t, RK(k.e), RK(v.e))
                          EXCEPT !.freereg = fs.freereg]]

closelistfield(cc) ==
  LET g == luaK_exp2nextreg(cc.fs, cc.v).fs
      void == init_exp("VVOID", 0)
  IN IF cc.v.k = "VVOID" THEN cc
     ELSE IF cc.tostore = FieldsPerFlush
          THEN [cc EXCEPT !.fs = luaK_setlist(g, cc.t, cc.na, cc.tostore),
                          !.v = void, !.tostore = 0]
          ELSE [cc EXCEPT !.fs = g, !.v = void]

lastlistfield(cc) ==
  IF cc.tostore = 0 THEN cc.fs
  ELSE IF hasmultret(cc.v.k)
       THEN luaK_setlist(luaK_setreturns(cc.fs, cc.v, LUA_MULTRET), cc.t, cc.na, LUA_MULTRET)
       ELSE luaK_setlist(IF cc.v.k = "VVOID" THEN cc.fs ELSE luaK_exp2nextreg(cc.fs, cc.v).fs,
                         cc.t, cc.na, cc.tostore)

listfield(fs, cc) ==
  LET x == expr(fs)
  IN [cc EXCEPT !.fs = x.fs, !.v = x.e, !.na = @ + 1, !.tostore = @ + 1]

Fields(fs, cc) ==
  LET c == closelistfield([cc EXCEPT !.fs = fs])
      rec == Tok(fs) = "[" \/ (Tok(fs) = "NAME" /\ fs.tk[fs.i + 1][1] = "=")
      d == IF rec THEN recfield(c.fs, c) ELSE listfield(c.fs, c)
  IN IF Tok(fs) = "}" THEN [cc EXCEPT !.fs = fs]
     ELSE IF Tok(d.fs) \in {",", ";"} THEN Fields(luaX_next(d.fs), d) ELSE d

constructor(fs) ==
  LET g == luaK_codeABC(fs, "NEWTABLE", 0, 0, 0)
      t == luaK_exp2nextreg(g, init_exp("VRELOCABLE", LastPc(g)))
      h == checknext(t.fs, "{")
      cc == Fields(h, [fs |-> h, v |-> init_exp("VVOID", 0), t |-> t.e.info,
                       na |-> 0, tostore |-> 0])
  IN FE(lastlistfield([cc EXCEPT !.fs = checknext(@, "}")]), t.e)

Params(fs, n) ==
  LET g == new_localvar(checknext(fs, "NAME"), Sem(check(fs, "NAME")), n)
      v == [new_localvar(luaX_next(fs), "arg", n)
              EXCEPT !.is_vararg = {"HASARG", "NEEDSARG", "ISVARARG"}]
  IN IF Tok(fs) = "..." THEN adjustlocalvars(v, n + 1)
     ELSE IF Tok(g) = "," THEN Params(luaX_next(g), n + 1)
     ELSE adjustlocalvars(g, n + 1)

parlist(fs) ==
  LET g == IF Tok(fs) = ")" THEN fs ELSE Params(fs, 0)
  IN [luaK_reserveregs(g, g.nactvar) EXCEPT
        !.numparams = g.nactvar - (IF "HASARG" \in g.is_vararg THEN 1 ELSE 0)]

body(fs, needself) ==
  LET f0 == checknext(open_func(fs.tk, fs.i, <<fs>>, fs.level), "(")
      f1 == IF needself THEN adjustlocalvars(new_localvar(f0, "self", 0), 1) ELSE f0
      f2 == chunk(checknext(parlist(f1), ")"))
      func == close_func(checknext(f2, "end"))
  IN pushclosure(func.fs, func)

explist(fs, e, n) ==
  LET g == luaK_exp2nextreg(luaX_next(fs), e).fs
      x == expr(g)
  IN IF Tok(fs) = "," THEN explist(x.fs, x.e, n + 1) ELSE [fs |-> fs, e |-> e, n |-> n]
explist1(fs) == LET x == expr(fs) IN explist(x.fs, x.e, 1)

Args(fs) ==
  LET x == explist1(luaX_next(fs))
      none == Tok(luaX_next(fs)) = ")"
  IN CASE Tok(fs) = "(" /\ none -> FE(luaX_next(luaX_next(fs)), init_exp("VVOID", 0))
       [] Tok(fs) = "(" /\ ~none ->
            FE(checknext(luaK_setreturns(x.fs, x.e, LUA_MULTRET), ")"), x.e)
       [] Tok(fs) = "{" -> constructor(fs)
       [] Tok(fs) = "STRING" -> codestring(luaX_next(fs), Sem(fs))
       [] OTHER -> FE(Error(fs, "function arguments expected"), init_exp("VVOID", 0))

funcargs(fs, f) ==
  LET args == Args(fs)
      base == f.info
      g == IF hasmultret(args.e.k) \/ args.e.k = "VVOID" THEN args.fs
           ELSE luaK_exp2nextreg(args.fs, args.e).fs
      nparams == IF hasmultret(args.e.k) THEN LUA_MULTRET ELSE g.freereg - (base + 1)
      h == luaK_codeABC(Expect(g, f.k = "VNONRELOC", "funcargs"), "CALL", base, nparams + 1, 2)
  IN FE([h EXCEPT !.freereg = base + 1], init_exp("VCALL", LastPc(h)))

prefixexp(fs) ==
  LET x == expr(luaX_next(fs))
  IN CASE Tok(fs) = "(" -> luaK_dischargevars(checknext(x.fs, ")"), x.e)
       [] Tok(fs) = "NAME" -> singlevar(fs)
       [] OTHER -> FE(luaX_next(Error(fs, "unexpected symbol")), init_exp("VNIL", 0))

PrimaryTail(fs, v) ==
  LET x == luaK_exp2anyreg(fs, v)
      key == yindex(x.fs)
      name == checkname(luaX_next(fs))
      self == luaK_self(name.fs, v, name.e)
      n == luaK_exp2nextreg(fs, v)
      y == CASE Tok(fs) = "." -> field(fs, v)
             [] Tok(fs) = "[" -> luaK_indexed(key.fs, x.e, key.e)
             [] Tok(fs) = ":" -> funcargs(self.fs, self.e)
             [] OTHER -> funcargs(n.fs, n.e)
  IN IF Tok(fs) \in {".", "[", ":", "(", "STRING", "{"} /\ fs.err = ""
     THEN PrimaryTail(y.fs, y.e) ELSE FE(fs, v)

primaryexp(fs) == LET x == prefixexp(fs) IN PrimaryTail(x.fs, x.e)

simpleexp(fs) ==
  LET next == luaX_next(fs)
      dots == Relocable([IF "ISVARARG" \in fs.is_vararg THEN next ELSE Error(next, "...")
                           EXCEPT !.is_vararg = @ \ {"NEEDSARG"}],
                        init_exp("VVARARG", 0), "VARARG", 1, 0)
  IN CASE Tok(fs) = "NUMBER" -> FE(next, [init_exp("VKNUM", 0) EXCEPT !.nval = Sem(fs)])
       [] Tok(fs) = "STRING" -> codestring(next, Sem(fs))
       [] Tok(fs) = "nil" -> FE(next, init_exp("VNIL", 0))
       [] Tok(fs) = "true" -> FE(next, init_exp("VTRUE", 0))
       [] Tok(fs) = "false" -> FE(next, init_exp("VFALSE", 0))
       [] Tok(fs) = "..." -> FE(dots.fs, [dots.e EXCEPT !.k = "VVARARG"])
       [] Tok(fs) = "{" -> constructor(fs)
       [] Tok(fs) = "function" -> body(next, FALSE)
       [] OTHER -> primaryexp(fs)

UnOprs == {"not", "-", "#"}
UNARY_PRIORITY == 8
BinOprs == ArithOps \cup {"..", "==", "~=", "<", "<=", ">", ">=", "and", "or"}
left(op) == CASE op \in {"+", "-"} -> 6 [] op \in {"*", "/", "%"} -> 7 [] op = "^" -> 10
              [] op = ".." -> 5 [] op = "and" -> 2 [] op = "or" -> 1 [] OTHER -> 3
right(op) == CASE op = "^" -> 9 [] op = ".." -> 4 [] OTHER -> left(op)

\* Expands while the operators bind tighter than limit.
BinaryTail(fs, v, limit) ==
  LET op == Tok(fs)
      a == luaK_infix(luaX_next(fs), op, v)
      b == subexpr(a.fs, right(op))
      c == luaK_posfix(b.fs, op, a.e, b.e)
  IN IF op \in BinOprs /\ left(op) > limit THEN BinaryTail(c.fs, c.e, limit) ELSE FE(fs, v)

subexpr(fs0, limit) ==
  LET fs == enterlevel(fs0)
      u == subexpr(luaX_next(fs), UNARY_PRIORITY)
      v == IF Tok(fs) \in UnOprs THEN luaK_prefix(u.fs, Tok(fs), u.e) ELSE simpleexp(fs)
      x == BinaryTail(v.fs, v.e, limit)
  IN FE(leavelevel(x.fs), x.e)

-----------------------------------------------------------------------------
(* Statements.                                                               *)

block_follow(t) == t \in {"else", "elseif", "end", "until", "<eof>"}

block(fs) ==
  LET g == chunk(enterblock(fs, FALSE))
  IN leaveblock(Expect(g, Last(g.bl).breaklist = NO_JUMP, "block"))

\* Mutant: an assigned local is not copied for its use as a table or key.
check_conflictIgnored(fs, lhs, v) == [fs |-> fs, lhs |-> lhs]
\* A local assigned after its use as a table or key on the same left-hand
\* side: the earlier uses get a copy.
check_conflict(fs, lhs, v) ==
  LET extra == fs.freereg
      uses(e) == e.k = "VINDEXED" /\ v.info \in {e.info, e.aux}
      safe == [j \in DOMAIN lhs |->
                 IF ~uses(lhs[j]) THEN lhs[j]
                 ELSE [lhs[j] EXCEPT !.info = IF @ = v.info THEN extra ELSE @,
                                     !.aux = IF @ = v.info THEN extra ELSE @]]
      g == luaK_reserveregs(luaK_codeABC(fs, "MOVE", fs.freereg, v.info, 0), 1)
  IN [fs |-> IF \E e \in Range(lhs) : uses(e) THEN g ELSE fs, lhs |-> safe]

\* Stores the top registers into the variables, from the last one.
StoreAll(fs, lhs) ==
  FoldLeft(LAMBDA g, v : luaK_storevar(g, v, init_exp("VNONRELOC", g.freereg - 1)),
           fs, Reverse(lhs))

RECURSIVE assignment(_, _)
assignment(fs0, lhs) ==
  LET fs == IF Last(lhs).k \in {"VLOCAL", "VUPVAL", "VGLOBAL", "VINDEXED"} THEN fs0
            ELSE Error(fs0, "syntax error")
      nvars == Len(lhs)
      nv == primaryexp(luaX_next(fs))
      cc == IF nv.e.k = "VLOCAL" THEN check_conflict(nv.fs, lhs, nv.e)
            ELSE [fs |-> nv.fs, lhs |-> lhs]
      more == checklimit(cc.fs, nvars, MaxLevels - cc.fs.level, "variables in assignment")
      x == explist1(checknext(fs, "="))
      adj == adjust_assign(x.fs, nvars, x.n, x.e)
      one == luaK_setoneret(x.fs, x.e)
  IN IF fs.err # "" THEN fs
     ELSE IF Tok(fs) = "," THEN assignment(more, Append(cc.lhs, nv.e))
     ELSE IF x.n = nvars THEN StoreAll(luaK_storevar(one.fs, Last(lhs), one.e), Front(lhs))
     ELSE StoreAll(IF x.n > nvars THEN [adj EXCEPT !.freereg = @ - (x.n - nvars)] ELSE adj, lhs)

cond(fs) ==
  LET x == expr(fs)
  IN luaK_goiftrue(x.fs, IF x.e.k = "VNIL" THEN [x.e EXCEPT !.k = "VFALSE"] ELSE x.e)

\* Mutant: break leaves the variables captured in the loop open.
breakstatWithoutClose(fs) ==
  LET loops == {b \in DOMAIN fs.bl : fs.bl[b].isbreakable}
      loop == Max(loops)
      h == luaK_jump(fs)
  IN IF loops = {} THEN Error(fs, "no loop to break")
     ELSE [luaK_concat(h, fs.bl[loop].breaklist, LastPc(h))
             EXCEPT !.bl[loop].breaklist = Joined(@, LastPc(h))]
breakstat(fs) ==
  LET loops == {b \in DOMAIN fs.bl : fs.bl[b].isbreakable}
      loop == Max(loops)
      upval == \E b \in DOMAIN fs.bl : b > loop /\ fs.bl[b].upval
      g == IF upval THEN luaK_codeABC(fs, "CLOSE", fs.bl[loop].nactvar, 0, 0) ELSE fs
      h == luaK_jump(g)
  IN IF loops = {} THEN Error(fs, "no loop to break")
     ELSE [luaK_concat(h, fs.bl[loop].breaklist, LastPc(h))
             EXCEPT !.bl[loop].breaklist = Joined(@, LastPc(h))]

BackTo(fs, target) == LET g == luaK_jump(fs) IN luaK_patchlist(g, LastPc(g), target)

whilestat(fs) ==
  LET init == luaK_getlabel(luaX_next(fs))
      c == cond(init)
      g == block(checknext(enterblock(c.fs, TRUE), "do"))
      h == checknext(BackTo(g, Pc(init)), "end")
  IN luaK_patchtohere(leaveblock(h), c.e.f)

repeatstat(fs) ==
  LET init == luaK_getlabel(fs)
      g == chunk(luaX_next(enterblock(enterblock(init, TRUE), FALSE)))
      c == cond(checknext(g, "until"))
      out == luaK_patchtohere(breakstat(c.fs), c.e.f)
  IN leaveblock(IF ~Last(c.fs.bl).upval
                THEN luaK_patchlist(leaveblock(c.fs), c.e.f, Pc(init))
                ELSE BackTo(leaveblock(out), Pc(init)))

exp1(fs) == LET x == expr(fs) IN luaK_exp2nextreg(x.fs, x.e).fs

forbody(fs, base, nvars, isnum) ==
  LET g == checknext(adjustlocalvars(fs, 3), "do")
      prep == IF isnum THEN luaK_codeABx(g, "FORPREP", base, NO_JUMP) ELSE luaK_jump(g)
      vars == luaK_reserveregs(adjustlocalvars(enterblock(prep, FALSE), nvars), nvars)
      b == luaK_patchtohere(leaveblock(block(vars)), LastPc(prep))
      loop == IF isnum THEN luaK_codeABx(b, "FORLOOP", base, NO_JUMP)
              ELSE luaK_jump(luaK_codeABC(b, "TFORLOOP", base, 0, nvars))
  IN luaK_patchlist(loop, LastPc(loop), Pc(prep))

Names(fs, names) == FoldLeft(LAMBDA g, j : new_localvar(g, names[j], j - 1),
                             fs, [j \in DOMAIN names |-> j])

fornum(fs, name) ==
  LET g == Names(fs, <<"(for index)", "(for limit)", "(for step)", name>>)
      limits == exp1(checknext(exp1(checknext(g, "=")), ","))
      one == addk(limits, Num(1))
      dflt == luaK_reserveregs(luaK_codeABx(one, "LOADK", one.freereg, KIndex(one, Num(1))), 1)
  IN forbody(IF Tok(limits) = "," THEN exp1(luaX_next(limits)) ELSE dflt, fs.freereg, 1, TRUE)

\* The names of a list NAME {, NAME}, after those in names, and the state after it.
RECURSIVE namelist(_, _)
namelist(fs, names) ==
  LET ns == Append(names, Sem(check(fs, "NAME")))
      g == checknext(fs, "NAME")
  IN IF Tok(g) = "," THEN namelist(luaX_next(g), ns) ELSE [fs |-> g, names |-> ns]

forlist(fs, indexname) ==
  LET nl == IF Tok(fs) = "," THEN namelist(luaX_next(fs), <<indexname>>)
            ELSE [fs |-> fs, names |-> <<indexname>>]
      g == Names(nl.fs, <<"(for generator)", "(for state)", "(for control)">> \o nl.names)
      x == explist1(checknext(g, "in"))
      a == luaK_checkstack(adjust_assign(x.fs, 3, x.n, x.e), 3)
  IN forbody(a, fs.freereg, Len(nl.names), FALSE)

forstat(fs) ==
  LET f == luaX_next(enterblock(fs, TRUE))
      varname == Sem(check(f, "NAME"))
      h == checknext(f, "NAME")
      g == CASE Tok(h) = "=" -> fornum(h, varname)
             [] Tok(h) \in {",", "in"} -> forlist(h, varname)
             [] OTHER -> Error(h, "'=' or 'in' expected")
  IN leaveblock(checknext(g, "end"))

test_then_block(fs) ==
  LET c == cond(luaX_next(fs)) IN [fs |-> block(checknext(c.fs, "then")), flist |-> c.e.f]

RECURSIVE IfTail(_, _, _)
IfTail(fs, flist, escapelist) ==
  LET j == luaK_jump(fs)
      g == luaK_patchtohere(luaK_concat(j, escapelist, LastPc(j)), flist)
      t == test_then_block(g)
      out == Joined(escapelist, LastPc(j))
      merge == luaK_concat(fs, escapelist, flist)
  IN CASE Tok(fs) = "elseif" -> IfTail(t.fs, t.flist, out)
       [] Tok(fs) = "else" -> checknext(luaK_patchtohere(block(luaX_next(g)), out), "end")
       [] OTHER -> checknext(luaK_patchtohere(merge, Joined(escapelist, flist)), "end")
ifstat(fs) == LET t == test_then_block(fs) IN IfTail(t.fs, t.flist, NO_JUMP)

localfunc(fs) ==
  LET g == new_localvar(checknext(fs, "NAME"), Sem(check(fs, "NAME")), 0)
      b == body(adjustlocalvars(luaK_reserveregs(g, 1), 1), FALSE)
      h == luaK_storevar(b.fs, init_exp("VLOCAL", g.freereg), b.e)
  IN [h EXCEPT !.locvars[h.actvar[h.nactvar]].startpc = Pc(h)]

localstat(fs) ==
  LET nl == namelist(fs, <<>>)
      g == Names(nl.fs, nl.names)
      x == IF Tok(g) = "=" THEN explist1(luaX_next(g))
           ELSE [fs |-> g, e |-> init_exp("VVOID", 0), n |-> 0]
  IN adjustlocalvars(adjust_assign(x.fs, Len(nl.names), x.n, x.e), Len(nl.names))

RECURSIVE FieldPath(_, _)
FieldPath(fs, v) == LET x == field(fs, v)
                    IN IF Tok(fs) = "." THEN FieldPath(x.fs, x.e) ELSE FE(fs, v)

funcstat(fs) ==
  LET v0 == singlevar(luaX_next(fs))
      path == FieldPath(v0.fs, v0.e)
      needself == Tok(path.fs) = ":"
      v == IF needself THEN field(path.fs, path.e) ELSE path
      b == body(v.fs, needself)
  IN luaK_storevar(b.fs, v.e, b.e)

exprstat(fs) ==
  LET v == primaryexp(fs)
  IN IF v.e.k = "VCALL" THEN [v.fs EXCEPT !.code[v.e.info + 1].c = 1]
     ELSE assignment(v.fs, <<v.e>>)

retstat(fs0) ==
  LET fs == luaX_next(fs0)
      x == explist1(fs)
      open == luaK_setreturns(x.fs, x.e, LUA_MULTRET)
      tail == IF x.e.k = "VCALL" /\ x.n = 1
              THEN [Expect(open, At(open, x.e.info).a = open.nactvar, "tail call")
                      EXCEPT !.code[x.e.info + 1].op = "TAILCALL"]
              ELSE open
      any == luaK_exp2anyreg(x.fs, x.e)
      nxt == luaK_exp2nextreg(x.fs, x.e).fs
  IN CASE block_follow(Tok(fs)) \/ Tok(fs) = ";" -> luaK_ret(fs, 0, 0)
       [] hasmultret(x.e.k) -> luaK_ret(tail, tail.nactvar, LUA_MULTRET)
       [] x.n = 1 -> luaK_ret(any.fs, any.e.info, 1)
       [] OTHER -> luaK_ret(Expect(nxt, x.n = nxt.freereg - nxt.nactvar, "return"),
                            nxt.nactvar, x.n)

statement(fs) ==
  CASE Tok(fs) = "if" -> ifstat(fs)
    [] Tok(fs) = "while" -> whilestat(fs)
    [] Tok(fs) = "do" -> checknext(block(luaX_next(fs)), "end")
    [] Tok(fs) = "for" -> forstat(fs)
    [] Tok(fs) = "repeat" -> repeatstat(fs)
    [] Tok(fs) = "function" -> funcstat(fs)
    [] Tok(fs) = "local" -> IF Tok(luaX_next(fs)) = "function"
                            THEN localfunc(luaX_next(luaX_next(fs)))
                            ELSE localstat(luaX_next(fs))
    [] Tok(fs) = "return" -> retstat(fs)
    [] Tok(fs) = "break" -> breakstat(luaX_next(fs))
    [] OTHER -> exprstat(fs)

RECURSIVE Statements(_)
Statements(fs) ==
  LET g == testnext(statement(fs), ";")
      h == [Expect(g, g.maxstacksize >= g.freereg /\ g.freereg >= g.nactvar, "chunk")
              EXCEPT !.freereg = g.nactvar]
  IN IF block_follow(Tok(fs)) \/ fs.err # "" THEN fs
     ELSE IF Tok(fs) \in {"return", "break"} THEN h ELSE Statements(h)
chunk(fs) == leavelevel(Statements(enterlevel(fs)))

\* The main function is vararg; its enclosing "function" only collects errors.
luaY_parser(tk) ==
  LET top == open_func(tk, 1, <<>>, 0)
      main == [top EXCEPT !.is_vararg = {"ISVARARG"}]
      r == close_func([check(chunk(main), "<eof>") EXCEPT !.prev = <<top>>])
  IN [f |-> r.f, err |-> r.fs.err, bad |-> r.fs.bad]
=============================================================================
