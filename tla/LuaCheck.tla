----------------------------- MODULE LuaCheck ------------------------------
(***************************************************************************)
(* The code checker of Lua 5.1 (symbexec in ldebug.c, called for the whole *)
(* function by luaG_checkcode), which the code generator asserts on every  *)
(* function it finishes and the loader of precompiled chunks runs on every *)
(* function it reads.  Tracing the last change of a register, the other    *)
(* use of symbexec, is left out: it only names variables in messages.      *)
(***************************************************************************)
EXTENDS LuaCode

Unused == "N"       \* OpArgN
Used == "U"         \* OpArgU
Register == "R"     \* OpArgR
Operand == "K"      \* OpArgK

\* The modes of B and C of luaP_opmodes; for iABx and iAsBx, B is Bx or sBx.
getBMode(op) ==
  CASE op \in {"TFORLOOP", "CLOSE"} -> Unused
    [] op \in {"LOADBOOL", "GETUPVAL", "SETUPVAL", "NEWTABLE", "CALL", "TAILCALL", "RETURN",
               "SETLIST", "CLOSURE", "VARARG"} -> Used
    [] op \in {"LOADK", "GETGLOBAL", "SETGLOBAL", "SETTABLE", "ADD", "SUB", "MUL", "DIV",
               "MOD", "POW", "EQ", "LT", "LE"} -> Operand
    [] OTHER -> Register
getCMode(op) ==
  CASE op \in {"GETTABLE", "SETTABLE", "SELF", "ADD", "SUB", "MUL", "DIV", "MOD", "POW",
               "EQ", "LT", "LE"} -> Operand
    [] op \in {"LOADBOOL", "NEWTABLE", "TEST", "TESTSET", "CALL", "TAILCALL", "TFORLOOP",
               "SETLIST"} -> Used
    [] op = "CONCAT" -> Register
    [] OTHER -> Unused
iABx == {"LOADK", "GETGLOBAL", "SETGLOBAL", "CLOSURE"}
iAsBx == {"JMP", "FORLOOP", "FORPREP"}

\* The instructions that are walked: not the batch number of a SETLIST.
Walked(pt) ==
  FoldLeft(LAMBDA w, i : IF w.skip THEN [w EXCEPT !.skip = FALSE]
                         ELSE [pcs |-> w.pcs \cup {i - 1},
                               skip |-> pt.code[i].op = "SETLIST" /\ pt.code[i].c = 0],
           [pcs |-> {}, skip |-> FALSE], [i \in DOMAIN pt.code |-> i]).pcs

precheck(pt) ==
  /\ pt.maxstacksize <= MaxStack
  /\ pt.numparams + (IF "HASARG" \in pt.is_vararg THEN 1 ELSE 0) <= pt.maxstacksize
  /\ "NEEDSARG" \in pt.is_vararg => "HASARG" \in pt.is_vararg
  /\ pt.code # <<>> /\ Last(pt.code).op = "RETURN"

luaG_checkopenop(i) == i.op \in {"CALL", "TAILCALL", "RETURN", "SETLIST"} /\ i.b = 0

symbexec(pt, pc) ==
  LET i == At(pt, pc)
      reg(r) == r < pt.maxstacksize
      kst(n) == n < Len(pt.k)
      argmode(r, mode) ==
        CASE mode = Unused -> r = 0
          [] mode = Used -> TRUE
          [] mode = Register -> reg(r)
          [] mode = Operand -> IF ISK(r) THEN kst(INDEXK(r)) ELSE reg(r)
      size == Len(pt.code)
      dest == pc + 1 + i.b
      looksOpen(d) == d.op = "SETLIST" /\ d.c = 0
      run == {j \in 0..dest : \A m \in 0..j - 1 : looksOpen(At(pt, dest - 1 - m))}
      open == luaG_checkopenop(At(pt, pc + 1))
  IN /\ reg(i.a)
     /\ CASE i.op \in iABx -> getBMode(i.op) = Operand => kst(i.b)
          [] i.op \in iAsBx -> 0 <= dest /\ dest < size /\ Max(run) % 2 = 0
          [] OTHER -> argmode(i.b, getBMode(i.op)) /\ argmode(i.c, getCMode(i.op))
     /\ testTMode(i.op) => pc + 2 < size /\ At(pt, pc + 1).op = "JMP"
     /\ CASE i.op = "LOADBOOL" -> i.c = 1 => pc + 2 < size /\ ~looksOpen(At(pt, pc + 1))
          [] i.op \in {"GETUPVAL", "SETUPVAL"} -> i.b < pt.nups
          [] i.op \in {"GETGLOBAL", "SETGLOBAL"} -> pt.k[i.b + 1][1] = "str"
          [] i.op = "SELF" -> reg(i.a + 1)
          [] i.op = "CONCAT" -> i.b < i.c
          [] i.op = "TFORLOOP" -> i.c >= 1 /\ reg(i.a + 2 + i.c)
          [] i.op \in {"FORLOOP", "FORPREP"} -> reg(i.a + 3)
          [] i.op \in {"CALL", "TAILCALL"} ->
               /\ i.b # 0 => reg(i.a + i.b - 1)
               /\ IF i.c = 0 THEN open ELSE i.c # 1 => reg(i.a + i.c - 2)
          [] i.op = "RETURN" -> i.b > 1 => reg(i.a + i.b - 2)
          [] i.op = "SETLIST" -> (i.b > 0 => reg(i.a + i.b)) /\ (i.c = 0 => pc + 2 < size)
          [] i.op = "CLOSURE" ->
               /\ i.b < Len(pt.p)
               /\ pc + pt.p[i.b + 1].nups < size
               /\ \A j \in 1..pt.p[i.b + 1].nups : At(pt, pc + j).op \in {"GETUPVAL", "MOVE"}
          [] i.op = "VARARG" ->
               /\ "ISVARARG" \in pt.is_vararg /\ "NEEDSARG" \notin pt.is_vararg
               /\ i.b = 0 => open
               /\ reg(i.a + i.b - 2)
          [] OTHER -> TRUE

luaG_checkcode(pt) == precheck(pt) /\ \A pc \in Walked(pt) : symbexec(pt, pc)
=============================================================================
