------------------------------ MODULE LuaCode ------------------------------
(***************************************************************************)
(* The code generator of Lua 5.1 (lcode.c), as operators on the state fs   *)
(* of the function being compiled.  A function luaK_x(fs, e) that changes  *)
(* an expression descriptor is an operator that returns [fs, e]; one that  *)
(* only emits code returns fs.                                             *)
(*                                                                         *)
(* Program counters count from 0 as in the source: instruction pc is       *)
(* fs.code[pc+1], and fs->pc is Len(fs.code).  An instruction keeps its    *)
(* operands in a, b and c; Bx and sBx are in b.                            *)
(*                                                                         *)
(* fs.err names the first limit or syntax error (after it nothing of the   *)
(* function is used); fs.bad collects the lua_asserts that do not hold.    *)
(***************************************************************************)
EXTENDS LuaMeaning

CONSTANTS MaxStack,         \* MAXSTACK, the registers of a function
          MaxIndexRK,       \* MAXINDEXRK, the last constant an operand can name
          MaxArgC,          \* MAXARG_C
          MaxArgSBx,        \* MAXARG_sBx, the longest jump
          FieldsPerFlush    \* LFIELDS_PER_FLUSH

NO_JUMP == -1
NO_REG == 255
BITRK == 256
LUA_MULTRET == -1

ISK(x) == x >= BITRK
RKASK(x) == BITRK + (x % (MaxIndexRK + 1))     \* x | BITRK, in the width of the field
INDEXK(x) == x - BITRK

\* The opcodes in the order of their numbers.
OpCodes == <<"MOVE", "LOADK", "LOADBOOL", "LOADNIL", "GETUPVAL", "GETGLOBAL",
  "GETTABLE", "SETGLOBAL", "SETUPVAL", "SETTABLE", "NEWTABLE", "SELF", "ADD",
  "SUB", "MUL", "DIV", "MOD", "POW", "UNM", "NOT", "LEN", "CONCAT", "JMP",
  "EQ", "LT", "LE", "TEST", "TESTSET", "CALL", "TAILCALL", "RETURN",
  "FORLOOP", "FORPREP", "TFORLOOP", "SETLIST", "CLOSE", "CLOSURE", "VARARG">>

testTMode(op) == op \in {"EQ", "LT", "LE", "TEST", "TESTSET", "TFORLOOP"}

Instr(op, a, b, c) == [op |-> op, a |-> a, b |-> b, c |-> c]

\* A number stored where an instruction is expected (cast(Instruction, n)),
\* as the fields an instruction with those bits has, and back.
AsInstr(n) == Instr(OpCodes[(n % 64) + 1], (n \div 64) % 256,
                    n \div (64 * 256 * 512), (n \div (64 * 256)) % 512)
AsNumber(i) == (CHOOSE n \in 0..37 : OpCodes[n + 1] = i.op)
               + 64 * (i.a + 256 * (i.c + 512 * i.b))

Pc(fs) == Len(fs.code)
At(fs, pc) == fs.code[pc + 1]
Expect(fs, ok, what) == IF ok THEN fs ELSE [fs EXCEPT !.bad = @ \cup {what}]
Error(fs, what) == [fs EXCEPT !.err = IF @ = "" THEN what ELSE @]
FE(fs, e) == [fs |-> fs, e |-> e]

init_exp(k, i) == [k |-> k, info |-> i, aux |-> 0, nval |-> 0,
                   t |-> NO_JUMP, f |-> NO_JUMP]
hasjumps(e) == e.t # e.f
isnumeral(e) == e.k = "VKNUM" /\ e.t = NO_JUMP /\ e.f = NO_JUMP
hasmultret(k) == k \in {"VCALL", "VVARARG"}

-----------------------------------------------------------------------------
(* Jump lists: a jump waiting for its target keeps, in its own offset, the   *)
(* next jump of its list.                                                    *)

Jumps(fs, pc, offset) ==
  [Expect(fs, pc + 1 + offset # NO_JUMP, "jump to a place") EXCEPT !.code[pc + 1].b = offset]

\* Mutant: a jump one longer than an instruction can hold is let through.
fixjumpPastLimit(fs, pc, dest) ==
  LET offset == dest - (pc + 1)
  IN IF offset \in -(MaxArgSBx + 1)..(MaxArgSBx + 1) THEN Jumps(fs, pc, offset)
     ELSE Error(fs, "control structure too long")
fixjump(fs, pc, dest) ==
  LET offset == dest - (pc + 1)
  IN IF offset \in -MaxArgSBx..MaxArgSBx THEN Jumps(fs, pc, offset)
     ELSE Error(fs, "control structure too long")

getjump(fs, pc) ==
  LET offset == At(fs, pc).b
  IN IF offset = NO_JUMP THEN NO_JUMP ELSE pc + 1 + offset

RECURSIVE JumpList(_, _)
JumpList(fs, list) ==
  IF list = NO_JUMP THEN <<>>
  ELSE <<list>> \o JumpList(fs, getjump(fs, list))

\* The instruction that decides jump pc: the test before it, or itself.
getjumpcontrol(fs, pc) ==
  IF pc >= 1 /\ testTMode(At(fs, pc - 1).op) THEN pc - 1 ELSE pc

Control(fs, pc) == At(fs, getjumpcontrol(fs, pc))

need_value(fs, list) ==
  \E j \in Range(JumpList(fs, list)) : Control(fs, j).op # "TESTSET"

patchtestreg(fs, node, reg) ==
  LET i == Control(fs, node)
  IN IF i.op # "TESTSET" THEN fs
     ELSE [fs EXCEPT !.code[getjumpcontrol(fs, node) + 1] =
             IF reg # NO_REG /\ reg # i.b THEN [i EXCEPT !.a = reg]
             ELSE Instr("TEST", i.b, 0, i.c)]

removevalues(fs, list) ==
  FoldLeft(LAMBDA g, j : patchtestreg(g, j, NO_REG), fs, JumpList(fs, list))

patchlistaux(fs, list, vtarget, reg, dtarget) ==
  FoldLeft(LAMBDA g, j :
             fixjump(patchtestreg(g, j, reg), j,
                     IF Control(g, j).op = "TESTSET" THEN vtarget ELSE dtarget),
           fs, JumpList(fs, list))

dischargejpc(fs) ==
  [patchlistaux(fs, fs.jpc, Pc(fs), NO_REG, Pc(fs)) EXCEPT !.jpc = NO_JUMP]

luaK_getlabel(fs) == [fs EXCEPT !.lasttarget = Pc(fs)]

\* luaK_concat(fs, &l1, l2): the function after it, and the value of l1.
luaK_concat(fs, l1, l2) ==
  IF l1 = NO_JUMP \/ l2 = NO_JUMP THEN fs
  ELSE fixjump(fs, Last(JumpList(fs, l1)), l2)
Joined(l1, l2) == IF l1 = NO_JUMP THEN l2 ELSE l1

\* Mutant: the place jumps are patched to is not noted as a target.
luaK_patchtohereUnmarked(fs, list) ==
  LET g == luaK_concat(fs, fs.jpc, list) IN [g EXCEPT !.jpc = Joined(fs.jpc, list)]
luaK_patchtohere(fs, list) ==
  LET g == luaK_concat(luaK_getlabel(fs), fs.jpc, list)
  IN [g EXCEPT !.jpc = Joined(fs.jpc, list)]

luaK_patchlist(fs, list, target) ==
  IF target = Pc(fs) THEN luaK_patchtohere(fs, list)
  ELSE patchlistaux(Expect(fs, target < Pc(fs), "backward target"),
                    list, target, NO_REG, target)

-----------------------------------------------------------------------------
(* Emission, registers and constants.                                        *)

luaK_code(fs, i) == LET g == dischargejpc(fs) IN [g EXCEPT !.code = Append(@, i)]
luaK_codeABC(fs, op, a, b, c) == luaK_code(fs, Instr(op, a, b, c))
luaK_codeABx(fs, op, a, bx) == luaK_code(fs, Instr(op, a, bx, 0))

\* The new jump takes over the list of the jumps that wait for this pc.
luaK_jump(fs) ==
  LET g == luaK_codeABx([fs EXCEPT !.jpc = NO_JUMP], "JMP", 0, NO_JUMP)
  IN luaK_concat(g, Pc(fs), fs.jpc)

condjump(fs, op, a, b, c) == luaK_jump(luaK_codeABC(fs, op, a, b, c))
LastPc(fs) == Pc(fs) - 1

luaK_nil(fs, from, n) ==
  LET new == luaK_codeABC(fs, "LOADNIL", from, from + n - 1, 0)
      prev == At(fs, Pc(fs) - 1)
  IN IF Pc(fs) <= fs.lasttarget THEN new
     ELSE IF Pc(fs) = 0 THEN IF from >= fs.nactvar THEN fs ELSE new
     ELSE IF prev.op = "LOADNIL" /\ prev.a <= from /\ from <= prev.b + 1
          THEN [fs EXCEPT !.code[Pc(fs)].b = IF from + n - 1 > @ THEN from + n - 1 ELSE @]
          ELSE new

luaK_ret(fs, first, nret) == luaK_codeABC(fs, "RETURN", first, nret + 1, 0)

luaK_checkstack(fs, n) ==
  LET new == fs.freereg + n
  IN IF new <= fs.maxstacksize THEN fs
     ELSE IF new >= MaxStack THEN Error(fs, "function or expression too complex")
     ELSE [fs EXCEPT !.maxstacksize = new]

luaK_reserveregs(fs, n) == [luaK_checkstack(fs, n) EXCEPT !.freereg = @ + n]

\* Registers are freed as a stack: the one freed must be the last one.
freereg(fs, reg) ==
  IF ISK(reg) \/ reg < fs.nactvar THEN fs
  ELSE [Expect(fs, reg = fs.freereg - 1, "freereg") EXCEPT !.freereg = @ - 1]

freeexp(fs, e) == IF e.k = "VNONRELOC" THEN freereg(fs, e.info) ELSE fs

KIndex(fs, v) == CHOOSE i \in 0..Len(fs.k) :
                   \/ i = Len(fs.k) /\ v \notin Range(fs.k)
                   \/ i < Len(fs.k) /\ fs.k[i + 1] = v
addk(fs, v) == IF v \in Range(fs.k) THEN fs ELSE [fs EXCEPT !.k = Append(@, v)]

luaK_setreturns(fs, e, nresults) ==
  CASE e.k = "VCALL" -> [fs EXCEPT !.code[e.info + 1].c = nresults + 1]
    [] e.k = "VVARARG" ->
         luaK_reserveregs([fs EXCEPT !.code[e.info + 1].b = nresults + 1,
                                     !.code[e.info + 1].a = fs.freereg], 1)
    [] OTHER -> fs

luaK_setoneret(fs, e) ==
  CASE e.k = "VCALL" -> FE(fs, [e EXCEPT !.k = "VNONRELOC", !.info = At(fs, e.info).a])
    [] e.k = "VVARARG" -> FE([fs EXCEPT !.code[e.info + 1].b = 2],
                             [e EXCEPT !.k = "VRELOCABLE"])
    [] OTHER -> FE(fs, e)

-----------------------------------------------------------------------------
(* From a descriptor to a value in a register.                               *)

Relocable(fs, e, op, b, c) ==
  LET g == luaK_codeABC(fs, op, 0, b, c)
  IN FE(g, [e EXCEPT !.k = "VRELOCABLE", !.info = LastPc(g)])

luaK_dischargevars(fs, e) ==
  CASE e.k = "VLOCAL"   -> FE(fs, [e EXCEPT !.k = "VNONRELOC"])
    [] e.k = "VUPVAL"   -> Relocable(fs, e, "GETUPVAL", e.info, 0)
    [] e.k = "VGLOBAL"  -> Relocable(fs, e, "GETGLOBAL", e.info, 0)
    [] e.k = "VINDEXED" -> Relocable(freereg(freereg(fs, e.aux), e.info), e,
                                     "GETTABLE", e.info, e.aux)
    [] hasmultret(e.k)  -> luaK_setoneret(fs, e)
    [] OTHER -> FE(fs, e)

code_label(fs, a, b, jump) ==
  luaK_codeABC(luaK_getlabel(fs), "LOADBOOL", a, b, jump)

discharge2reg(fs0, e0, reg) ==
  LET x == luaK_dischargevars(fs0, e0)
      fs == x.fs
      e == x.e
      num == addk(fs, e.nval)
      g == CASE e.k = "VNIL" -> luaK_nil(fs, reg, 1)
             [] e.k \in {"VFALSE", "VTRUE"} ->
                  luaK_codeABC(fs, "LOADBOOL", reg, IF e.k = "VTRUE" THEN 1 ELSE 0, 0)
             [] e.k = "VK" -> luaK_codeABx(fs, "LOADK", reg, e.info)
             [] e.k = "VKNUM" -> luaK_codeABx(num, "LOADK", reg, KIndex(num, e.nval))
             [] e.k = "VRELOCABLE" -> [fs EXCEPT !.code[e.info + 1].a = reg]
             [] e.k = "VNONRELOC" -> IF reg = e.info THEN fs
                                     ELSE luaK_codeABC(fs, "MOVE", reg, e.info, 0)
             [] OTHER -> fs
  IN IF e.k \in {"VVOID", "VJMP"} THEN FE(g, e)
     ELSE FE(g, [e EXCEPT !.k = "VNONRELOC", !.info = reg])

discharge2anyreg(fs, e) ==
  IF e.k = "VNONRELOC" THEN FE(fs, e)
  ELSE LET g == luaK_reserveregs(fs, 1) IN discharge2reg(g, e, g.freereg - 1)

\* Ends the jumps of both lists: those that carry the value go to the end,
\* the others to an instruction that loads true or false.
exp2reg(fs0, e0, reg) ==
  LET x == discharge2reg(fs0, e0, reg)
      jmp == x.e.k = "VJMP"
      f1 == IF jmp THEN luaK_concat(x.fs, x.e.t, x.e.info) ELSE x.fs
      t == IF jmp THEN Joined(x.e.t, x.e.info) ELSE x.e.t
      f == x.e.f
      load == need_value(f1, t) \/ need_value(f1, f)
      f2 == IF jmp THEN f1 ELSE luaK_jump(f1)
      f3 == code_label(code_label(f2, reg, 0, 1), reg, 1, 0)
      f4 == IF load THEN luaK_patchtohere(f3, IF jmp THEN NO_JUMP ELSE LastPc(f2)) ELSE f1
      f5 == luaK_getlabel(f4)
      p_f == IF load THEN Pc(f2) ELSE NO_JUMP
      p_t == IF load THEN Pc(f2) + 1 ELSE NO_JUMP
      f6 == patchlistaux(f5, f, Pc(f5), reg, p_f)
      f7 == patchlistaux(f6, t, Pc(f5), reg, p_t)
  IN FE(IF t # f THEN f7 ELSE f1,
        [x.e EXCEPT !.k = "VNONRELOC", !.info = reg, !.t = NO_JUMP, !.f = NO_JUMP])

luaK_exp2nextreg(fs, e) ==
  LET x == luaK_dischargevars(fs, e)
      g == luaK_reserveregs(freeexp(x.fs, x.e), 1)
  IN exp2reg(g, x.e, g.freereg - 1)

luaK_exp2anyreg(fs, e) ==
  LET x == luaK_dischargevars(fs, e)
  IN IF x.e.k = "VNONRELOC" /\ ~hasjumps(x.e) THEN x
     ELSE IF x.e.k = "VNONRELOC" /\ x.e.info >= x.fs.nactvar
          THEN exp2reg(x.fs, x.e, x.e.info)
          ELSE luaK_exp2nextreg(x.fs, x.e)

luaK_exp2val(fs, e) ==
  IF hasjumps(e) THEN luaK_exp2anyreg(fs, e) ELSE luaK_dischargevars(fs, e)

\* Mutant: one constant too many is taken for an operand.
luaK_exp2RKPastLimit(fs, e) ==
  LET x == luaK_exp2val(fs, e)
      g == addk(x.fs, x.e.nval)
  IN CASE x.e.k = "VKNUM" /\ Len(x.fs.k) <= MaxIndexRK + 1 ->
            FE(g, [x.e EXCEPT !.k = "VK", !.info = KIndex(g, x.e.nval)])
       [] x.e.k = "VK" /\ x.e.info <= MaxIndexRK + 1 -> x
       [] OTHER -> luaK_exp2anyreg(x.fs, x.e)
\* A constant that fits becomes an operand; RK reads the operand off e.
luaK_exp2RK(fs, e) ==
  LET x == luaK_exp2val(fs, e)
      v == CASE x.e.k = "VNIL" -> <<"nil">> [] x.e.k = "VTRUE" -> <<"true">>
             [] x.e.k = "VFALSE" -> <<"false">> [] OTHER -> x.e.nval
      g == addk(x.fs, v)
  IN CASE x.e.k \in {"VKNUM", "VTRUE", "VFALSE", "VNIL"} /\ Len(x.fs.k) <= MaxIndexRK ->
            FE(g, [x.e EXCEPT !.k = "VK", !.info = KIndex(g, v)])
       [] x.e.k = "VK" /\ x.e.info <= MaxIndexRK -> x
       [] OTHER -> luaK_exp2anyreg(x.fs, x.e)
RK(e) == IF e.k = "VK" THEN RKASK(e.info) ELSE e.info

luaK_storevar(fs, var, ex) ==
  LET any == luaK_exp2anyreg(fs, ex)
      rk == luaK_exp2RK(fs, ex)
  IN CASE var.k = "VLOCAL" -> exp2reg(freeexp(fs, ex), ex, var.info).fs
       [] var.k = "VUPVAL" ->
            freeexp(luaK_codeABC(any.fs, "SETUPVAL", any.e.info, var.info, 0), any.e)
       [] var.k = "VGLOBAL" ->
            freeexp(luaK_codeABx(any.fs, "SETGLOBAL", any.e.info, var.info), any.e)
       [] var.k = "VINDEXED" ->
            freeexp(luaK_codeABC(rk.fs, "SETTABLE", var.info, var.aux, RK(rk.e)), rk.e)
       [] OTHER -> Expect(fs, FALSE, "invalid var kind to store")

luaK_self(fs, e, key) ==
  LET x == luaK_exp2anyreg(fs, e)
      g == freeexp(x.fs, x.e)
      y == luaK_exp2RK(luaK_reserveregs(g, 2), key)
      h == luaK_codeABC(y.fs, "SELF", g.freereg, x.e.info, RK(y.e))
  IN FE(freeexp(h, y.e), [x.e EXCEPT !.k = "VNONRELOC", !.info = g.freereg])

-----------------------------------------------------------------------------
(* Conditions.                                                               *)

invertjump(fs, e) ==
  LET pc == getjumpcontrol(fs, e.info)
  IN [Expect(fs, At(fs, pc).op \in {"EQ", "LT", "LE", "TFORLOOP"}, "invertjump")
      EXCEPT !.code[pc + 1].a = 1 - @]

\* Jumps if e is cond; the jump is the last instruction.
jumponcond(fs, e, cond) ==
  LET x == discharge2anyreg(fs, e)
      ie == At(fs, e.info)
  IN IF e.k = "VRELOCABLE" /\ ie.op = "NOT"
     THEN condjump([fs EXCEPT !.code = SubSeq(@, 1, Len(@) - 1)], "TEST", ie.b, 0, 1 - cond)
     ELSE condjump(freeexp(x.fs, x.e), "TESTSET", NO_REG, x.e.info, cond)

luaK_goiftrue(fs, e0) ==
  LET x == luaK_dischargevars(fs, e0)
      e == x.e
      always == e.k \in {"VK", "VKNUM", "VTRUE"}
      g == CASE always -> x.fs
             [] e.k = "VJMP" -> invertjump(x.fs, e)
             [] OTHER -> jumponcond(x.fs, e, 0)
      pc == CASE always -> NO_JUMP [] e.k = "VJMP" -> e.info [] OTHER -> LastPc(g)
  IN FE(luaK_patchtohere(luaK_concat(g, e.f, pc), e.t),
        [e EXCEPT !.f = Joined(e.f, pc), !.t = NO_JUMP])

luaK_goiffalse(fs, e0) ==
  LET x == luaK_dischargevars(fs, e0)
      e == x.e
      never == e.k \in {"VNIL", "VFALSE"}
      g == IF never \/ e.k = "VJMP" THEN x.fs ELSE jumponcond(x.fs, e, 1)
      pc == CASE never -> NO_JUMP [] e.k = "VJMP" -> e.info [] OTHER -> LastPc(g)
  IN FE(luaK_patchtohere(luaK_concat(g, e.t, pc), e.f),
        [e EXCEPT !.t = Joined(e.t, pc), !.f = NO_JUMP])

codenot(fs, e0) ==
  LET x == luaK_dischargevars(fs, e0)
      e == x.e
      r == discharge2anyreg(x.fs, e)
      y == CASE e.k \in {"VNIL", "VFALSE"} -> FE(x.fs, [e EXCEPT !.k = "VTRUE"])
             [] e.k \in {"VK", "VKNUM", "VTRUE"} -> FE(x.fs, [e EXCEPT !.k = "VFALSE"])
             [] e.k = "VJMP" -> FE(invertjump(x.fs, e), e)
             [] OTHER -> Relocable(freeexp(r.fs, r.e), r.e, "NOT", r.e.info, 0)
  IN FE(removevalues(removevalues(y.fs, e.t), e.f), [y.e EXCEPT !.t = e.f, !.f = e.t])

luaK_indexed(fs, t, k) ==
  LET x == luaK_exp2RK(fs, k)
  IN FE(x.fs, [t EXCEPT !.k = "VINDEXED", !.aux = RK(x.e)])

-----------------------------------------------------------------------------
(* Operators.                                                                *)

\* The test for a result that is no number (NaN) has nothing to do here: no
\* operation of the model yields one (NumArith).
FoldOps == {"ADD", "SUB", "MUL", "DIV", "MOD", "POW", "UNM"}
CanFold(op, e1, e2) ==
  /\ isnumeral(e1) /\ isnumeral(e2) /\ op \in FoldOps
  /\ op \in {"DIV", "MOD"} => e2.nval # Num(0)

\* Mutant: the operands' registers are freed in a fixed order.
codearithFreesInOrder(fs, op, e1, e2) ==
  LET unary == op \in {"UNM", "LEN"}
      y == IF unary THEN FE(fs, e2) ELSE luaK_exp2RK(fs, e2)
      x == luaK_exp2RK(y.fs, e1)
  IN IF CanFold(op, e1, e2)
     THEN FE(fs, [e1 EXCEPT !.nval = NumArith(op, e1.nval, e2.nval)])
     ELSE Relocable(freeexp(freeexp(x.fs, y.e), x.e), x.e, op, RK(x.e), IF unary THEN 0 ELSE RK(y.e))
codearith(fs, op, e1, e2) ==
  LET unary == op \in {"UNM", "LEN"}
      y == IF unary THEN FE(fs, e2) ELSE luaK_exp2RK(fs, e2)
      x == luaK_exp2RK(y.fs, e1)
      o1 == RK(x.e)
      o2 == IF unary THEN 0 ELSE RK(y.e)
      g == IF o1 > o2 THEN freeexp(freeexp(x.fs, x.e), y.e)
           ELSE freeexp(freeexp(x.fs, y.e), x.e)
  IN IF CanFold(op, e1, e2)
     THEN FE(fs, [e1 EXCEPT !.nval = NumArith(op, e1.nval, e2.nval)])
     ELSE Relocable(g, x.e, op, o1, o2)

codecomp(fs, op, cond, e1, e2) ==
  LET x == luaK_exp2RK(fs, e1)
      y == luaK_exp2RK(x.fs, e2)
      g == freeexp(freeexp(y.fs, y.e), x.e)
      swap == cond = 0 /\ op # "EQ"
      h == IF swap THEN condjump(g, op, 1, RK(y.e), RK(x.e))
           ELSE condjump(g, op, cond, RK(x.e), RK(y.e))
  IN FE(h, [x.e EXCEPT !.k = "VJMP", !.info = LastPc(h)])

luaK_prefix(fs, op, e) ==
  LET zero == [init_exp("VKNUM", 0) EXCEPT !.nval = Num(0)]
      x == IF op = "-" /\ isnumeral(e) THEN FE(fs, e) ELSE luaK_exp2anyreg(fs, e)
  IN CASE op = "-" -> codearith(x.fs, "UNM", x.e, zero)
       [] op = "#" -> codearith(x.fs, "LEN", x.e, zero)
       [] op = "not" -> codenot(fs, e)

ArithOp(op) == CASE op = "+" -> "ADD" [] op = "-" -> "SUB" [] op = "*" -> "MUL"
                 [] op = "/" -> "DIV" [] op = "%" -> "MOD" [] op = "^" -> "POW"
ArithOps == {"+", "-", "*", "/", "%", "^"}

luaK_infix(fs, op, v) ==
  CASE op = "and" -> luaK_goiftrue(fs, v)
    [] op = "or" -> luaK_goiffalse(fs, v)
    [] op = ".." -> luaK_exp2nextreg(fs, v)
    [] op \in ArithOps /\ isnumeral(v) -> FE(fs, v)
    [] OTHER -> luaK_exp2RK(fs, v)

luaK_posfix(fs, op, e1, e2) ==
  LET d == luaK_dischargevars(fs, e2)
      v == luaK_exp2val(fs, e2)
      n == luaK_exp2nextreg(v.fs, v.e)
      g == luaK_concat(Expect(d.fs, (IF op = "and" THEN e1.t ELSE e1.f) = NO_JUMP,
                              "list must be closed"),
                       IF op = "and" THEN d.e.f ELSE d.e.t,
                       IF op = "and" THEN e1.f ELSE e1.t)
  IN CASE op = "and" -> FE(g, [d.e EXCEPT !.f = Joined(@, e1.f)])
       [] op = "or" -> FE(g, [d.e EXCEPT !.t = Joined(@, e1.t)])
       [] op = ".." ->
            IF v.e.k = "VRELOCABLE" /\ At(v.fs, v.e.info).op = "CONCAT"
            THEN FE([freeexp(Expect(v.fs, e1.info = At(v.fs, v.e.info).b - 1, "concat"), e1)
                       EXCEPT !.code[v.e.info + 1].b = e1.info],
                    [e1 EXCEPT !.k = "VRELOCABLE", !.info = v.e.info])
            ELSE codearith(n.fs, "CONCAT", e1, n.e)
       [] op \in ArithOps -> codearith(fs, ArithOp(op), e1, e2)
       [] op = "==" -> codecomp(fs, "EQ", 1, e1, e2)
       [] op = "~=" -> codecomp(fs, "EQ", 0, e1, e2)
       [] op = "<" -> codecomp(fs, "LT", 1, e1, e2)
       [] op = "<=" -> codecomp(fs, "LE", 1, e1, e2)
       [] op = ">" -> codecomp(fs, "LT", 0, e1, e2)
       [] op = ">=" -> codecomp(fs, "LE", 0, e1, e2)

\* The batch number c follows as a word of its own when it does not fit.
luaK_setlist(fs, base, nelems, tostore) ==
  LET c == (nelems - 1) \div FieldsPerFlush + 1
      b == IF tostore = LUA_MULTRET THEN 0 ELSE tostore
      g == IF c <= MaxArgC THEN luaK_codeABC(fs, "SETLIST", base, b, c)
           ELSE luaK_code(luaK_codeABC(fs, "SETLIST", base, b, 0), AsInstr(c))
  IN [Expect(g, tostore # 0, "tostore") EXCEPT !.freereg = base + 1]
=============================================================================
