------------------------------- MODULE LuaVM -------------------------------
(***************************************************************************)
(* The virtual machine of Lua 5.1 (luaV_execute in lvm.c, with the call    *)
(* and return of ldo.c and the open upvalues of lfunc.c) running what      *)
(* LuaParser compiles.  A behavior chooses a compiled program and executes *)
(* one instruction per step.                                               *)
(*                                                                         *)
(* Every function that is not compiled here belongs to the host: a call of *)
(* it is an event of the trace, and LuaMeaning says what it returns.       *)
(* Errors, coroutines and hooks are LuaCall's subject, collection LuaGC's. *)
(***************************************************************************)
EXTENDS LuaParser

CONSTANTS Chunks,     \* the programs to run, each a Chunk(prog)
          StackSize   \* the slots of the value stack

\* A program with what the compiler makes of it and what it means.
Chunk(prog) == [source |-> prog, main |-> luaY_parser(Text(prog)), meaning |-> Meaning(prog)]

VARIABLES program,     \* the program
          status,    \* "source", "running", "done" or "rejected"
          stack,     \* the value stack
          ci,        \* the CallInfo of every active function, the last running
          top,       \* L->top, one past the last live value
          closures, upvals, openupval,  \* functions, upvalues, the open ones
          tables, globals,
          trace,     \* the effects so far
          results    \* what the main function returned

host == <<tables, globals, trace>>
vars == <<program, status, stack, ci, top, closures, upvals, openupval, host, results>>

\* A slot no live frame has written: what it holds is unknown.
Dead == <<"dead">>

Frame == Last(ci)
base == Frame.base
Cl == closures[Frame.cl]
I == At(Cl.p, Frame.pc)
R(n) == stack[base + n]
K(n) == Cl.p.k[n + 1]
RKv(n) == IF ISK(n) THEN K(INDEXK(n)) ELSE R(n)

Running(ops) == status = "running" /\ I.op \in ops
Jump(n) == ci' = [ci EXCEPT ![Len(ci)].pc = @ + n]
Advance == Jump(1)
SetR(n, v) == stack' = [stack EXCEPT ![base + n] = v]
Emit(events) == trace' = trace \o events
code == <<program, status>>
upvalues == <<closures, upvals, openupval>>

UpRead(u) == IF upvals[u].open THEN stack[upvals[u].at] ELSE upvals[u].v

Init ==
  /\ program \in Chunks
  /\ status = "source"
  /\ stack = [s \in 1..StackSize |-> Dead]
  /\ ci = <<>> /\ top = 1
  /\ closures = <<>> /\ upvals = <<>> /\ openupval = {}
  /\ tables = <<>> /\ globals = <<>> /\ trace = <<>> /\ results = <<>>

-----------------------------------------------------------------------------
(* Calls: luaD_precall, luaD_poscall, adjust_varargs, luaF_close.            *)

Filled(stk, from, to, v) == [s \in DOMAIN stk |-> IF from <= s /\ s < to THEN v ELSE stk[s]]
Placed(stk, at, vs) == [s \in DOMAIN stk |->
                          IF at <= s /\ s < at + Len(vs) THEN vs[s - at + 1] ELSE stk[s]]

\* The stack and frame of a call of Lua function cl at slot func with args.
Entered(stk, func, args, cl, nresults, ntables) ==
  LET p == closures[cl].p
      n == p.numparams
      vararg == p.is_vararg # {}
      arg == IF "NEEDSARG" \in p.is_vararg THEN <<"tab", ntables + 1>> ELSE Nil
      actual == IF vararg THEN Adjust(args, Max({n, Len(args)})) ELSE Adjust(args, n)
      at == IF vararg THEN func + 1 + Len(actual) ELSE func + 1
      fixed == SubSeq(actual, 1, n) \o (IF "HASARG" \in p.is_vararg THEN <<arg>> ELSE <<>>)
      moved == IF vararg THEN Placed(Placed(stk, func + 1, actual), func + 1, Adjust(<<>>, n)) ELSE stk
      ctop == at + p.maxstacksize
  IN [stack |-> Placed(Filled(moved, at, ctop, Nil), at, fixed),
      frame |-> [func |-> func, base |-> at, top |-> ctop, pc |-> 0,
                 nresults |-> nresults, cl |-> cl],
      tables |-> IF "NEEDSARG" \in p.is_vararg
                 THEN <<ArgTable(SubSeq(args, n + 1, Len(args)))>> ELSE <<>>]

\* Moves results vs to slot res, as many as wanted; what lies above is dead.
Returned(stk, res, vs, wanted) ==
  LET all == IF wanted = LUA_MULTRET THEN vs ELSE Adjust(vs, wanted)
  IN [stack |-> Placed(Filled(stk, res, StackSize + 1, Dead), res, all),
      top |-> res + Len(all)]

\* Closes the open upvalues at slot level and above.
Closed(stk, level) ==
  [u \in DOMAIN upvals |->
     IF u \in openupval /\ upvals[u].at >= level
     THEN [upvals[u] EXCEPT !.open = FALSE, !.v = stk[upvals[u].at]] ELSE upvals[u]]
StillOpen(level) == {u \in openupval : upvals[u].at < level}

\* luaF_getlocalname: the variables the debug information shows at pc.
getlocals(p, pc) ==
  LET active == SelectSeq(p.locvars, LAMBDA v : v.startpc <= pc /\ pc < v.endpc)
  IN [j \in DOMAIN active |-> <<active[j].name, R(j - 1)>>]
Hidden == {"(for index)", "(for limit)", "(for step)",
           "(for generator)", "(for state)", "(for control)"}
Locals == SelectSeq(getlocals(Cl.p, Frame.pc), LAMBDA v : v[1] \notin Hidden)

\* lua_load and the call of what it made; a rejected program does not run.
Start ==
  /\ status = "source"
  /\ IF program.main.err # ""
     THEN /\ status' = "rejected"
          /\ UNCHANGED <<stack, ci, top, closures>>
     ELSE /\ status' = "running"
          /\ closures' = <<[p |-> program.main.f, upvals |-> <<>>]>>
          /\ ci' = <<[func |-> 1, base |-> 2, top |-> 2 + program.main.f.maxstacksize, pc |-> 0,
                      nresults |-> LUA_MULTRET, cl |-> 1]>>
          /\ stack' = Filled(stack, 2, 2 + program.main.f.maxstacksize, Nil)
          /\ top' = 2 + program.main.f.maxstacksize
  /\ UNCHANGED <<program, upvals, openupval, host, results>>

-----------------------------------------------------------------------------
(* The instructions.                                                         *)

\* R(A) takes a value that depends on nothing outside the frame.
Pure(i) ==
  CASE i.op = "MOVE" -> R(i.b)
    [] i.op = "LOADK" -> K(i.b)
    [] i.op = "GETUPVAL" -> UpRead(Cl.upvals[i.b + 1])
    [] i.op = "GETGLOBAL" -> Global(globals, K(i.b)[2])
    [] i.op = "NOT" -> Boolean(IsFalse(R(i.b)))
    [] i.op = "CONCAT" -> FoldRight(LAMBDA v, acc : <<"cat", v, acc>>,
                                    [j \in 1..(i.c - i.b) |-> R(i.b + j - 1)], R(i.c))

DoLoad ==
  /\ Running({"MOVE", "LOADK", "GETUPVAL", "GETGLOBAL", "NOT", "CONCAT"})
  /\ SetR(I.a, Pure(I)) /\ Advance
  /\ UNCHANGED <<code, top, upvalues, host, results>>

DoLOADBOOL ==
  /\ Running({"LOADBOOL"})
  /\ SetR(I.a, Boolean(I.b = 1)) /\ Jump(IF I.c = 1 THEN 2 ELSE 1)
  /\ UNCHANGED <<code, top, upvalues, host, results>>

DoLOADNIL ==
  /\ Running({"LOADNIL"})
  /\ stack' = Filled(stack, base + I.a, base + I.b + 1, Nil) /\ Advance
  /\ UNCHANGED <<code, top, upvalues, host, results>>

DoArith ==
  /\ Running(FoldOps \cup {"LEN"})
  /\ LET b == IF I.op \in {"UNM", "LEN"} THEN R(I.b) ELSE RKv(I.b)
         c == IF I.op = "UNM" THEN b ELSE RKv(I.c)
     IN IF I.op = "LEN" THEN SetR(I.a, <<"r", "LEN", b>>) /\ Emit(<<<<"LEN", b>>>>)
        ELSE SetR(I.a, Arith(I.op, b, c)) /\ Emit(ArithEvents(I.op, b, c))
  /\ Advance
  /\ UNCHANGED <<code, top, upvalues, tables, globals, results>>

DoGETTABLE ==
  /\ Running({"GETTABLE"})
  /\ SetR(I.a, Get(tables, R(I.b), RKv(I.c))) /\ Emit(GetEvents(R(I.b), RKv(I.c))) /\ Advance
  /\ UNCHANGED <<code, top, upvalues, tables, globals, results>>

DoSELF ==
  /\ Running({"SELF"})
  /\ stack' = [stack EXCEPT ![base + I.a + 1] = R(I.b),
                            ![base + I.a] = Get(tables, R(I.b), RKv(I.c))]
  /\ Emit(GetEvents(R(I.b), RKv(I.c))) /\ Advance
  /\ UNCHANGED <<code, top, upvalues, tables, globals, results>>

DoSETTABLE ==
  /\ Running({"SETTABLE"})
  /\ tables' = Put(tables, R(I.a), RKv(I.b), RKv(I.c))
  /\ Emit(PutEvents(R(I.a), RKv(I.b), RKv(I.c))) /\ Advance
  /\ UNCHANGED <<code, stack, top, upvalues, globals, results>>

DoSETGLOBAL ==
  /\ Running({"SETGLOBAL"})
  /\ globals' = (K(I.b)[2] :> R(I.a)) @@ globals /\ Advance
  /\ UNCHANGED <<code, stack, top, upvalues, tables, trace, results>>

DoSETUPVAL ==
  /\ Running({"SETUPVAL"})
  /\ LET u == Cl.upvals[I.b + 1]
     IN IF upvals[u].open
        THEN stack' = [stack EXCEPT ![upvals[u].at] = R(I.a)] /\ UNCHANGED upvals
        ELSE upvals' = [upvals EXCEPT ![u].v = R(I.a)] /\ UNCHANGED stack
  /\ Advance
  /\ UNCHANGED <<code, top, closures, openupval, host, results>>

DoNEWTABLE ==
  /\ Running({"NEWTABLE"})
  /\ tables' = Append(tables, <<>>) /\ SetR(I.a, <<"tab", Len(tables) + 1>>) /\ Advance
  /\ UNCHANGED <<code, top, upvalues, globals, trace, results>>

\* The batch number is in C, or in the word that follows.
SetlistBatch == IF I.c = 0 THEN AsNumber(At(Cl.p, Frame.pc + 1)) ELSE I.c
DoSETLIST ==
  /\ Running({"SETLIST"})
  /\ LET n == IF I.b = 0 THEN top - (base + I.a) - 1 ELSE I.b
         first == (SetlistBatch - 1) * FieldsPerFlush
     IN tables' = FoldLeft(LAMBDA ts, j : Put(ts, R(I.a), Num(first + j), R(I.a + j)),
                           tables, [j \in 1..n |-> j])
  /\ top' = IF I.b = 0 THEN Frame.top ELSE top
  /\ Jump(IF I.c = 0 THEN 2 ELSE 1)
  /\ UNCHANGED <<code, stack, upvalues, globals, trace, results>>

DoJMP ==
  /\ Running({"JMP"})
  /\ Jump(1 + I.b)
  /\ UNCHANGED <<code, stack, top, upvalues, host, results>>

\* A test that accepts executes the jump after it, or else skips it.
AfterTest(accept) == IF accept THEN Jump(2 + At(Cl.p, Frame.pc + 1).b) ELSE Jump(2)

DoCompare ==
  /\ Running({"EQ", "LT", "LE"})
  /\ AfterTest(Compare(I.op, RKv(I.b), RKv(I.c), trace) = (I.a = 1))
  /\ Emit(CompareEvents(I.op, RKv(I.b), RKv(I.c)))
  /\ UNCHANGED <<code, stack, top, upvalues, tables, globals, results>>

DoTest ==
  /\ Running({"TEST", "TESTSET"})
  /\ LET v == R(IF I.op = "TEST" THEN I.a ELSE I.b)
         accept == IsFalse(v) # (I.c = 1)
     IN /\ AfterTest(accept)
        /\ IF I.op = "TESTSET" /\ accept THEN SetR(I.a, v) ELSE UNCHANGED stack
  /\ UNCHANGED <<code, top, upvalues, host, results>>

ArgsAt(a, b) == IF b # 0 THEN SubSeq(stack, base + a + 1, base + a + b - 1)
                ELSE SubSeq(stack, base + a + 1, top - 1)

\* A call of the host's function, or of a compiled one (a new frame).
DoCALL ==
  /\ Running({"CALL"})
  /\ LET f == R(I.a)
         args == ArgsAt(I.a, I.b)
         ret == Returned(stack, base + I.a, Results(f, args, trace), I.c - 1)
         new == Entered(stack, base + I.a, args, f[2] + 1, I.c - 1, Len(tables))
     IN IF f[1] = "fn"
        THEN /\ stack' = new.stack /\ top' = new.frame.top
             /\ ci' = Append([ci EXCEPT ![Len(ci)].pc = @ + 1], new.frame)
             /\ tables' = tables \o new.tables
             /\ UNCHANGED trace
        ELSE /\ stack' = ret.stack
             /\ top' = IF I.c = 0 THEN ret.top ELSE Frame.top
             /\ Advance
             /\ Emit(<<CallEvent(f, args, Locals)>>)
             /\ UNCHANGED tables
  /\ UNCHANGED <<code, upvalues, globals, results>>

\* The called function takes the place of the caller's frame.
DoTAILCALL ==
  /\ Running({"TAILCALL"})
  /\ LET f == R(I.a)
         args == ArgsAt(I.a, I.b)
         ret == Returned(stack, base + I.a, Results(f, args, trace), LUA_MULTRET)
         clean == Filled(stack, Frame.func, StackSize + 1, Dead)
         new == Entered([clean EXCEPT ![Frame.func] = f], Frame.func, args, f[2] + 1,
                        Frame.nresults, Len(tables))
     IN IF f[1] = "fn"
        THEN /\ stack' = new.stack /\ top' = new.frame.top
             /\ ci' = Append(Front(ci), new.frame)
             /\ tables' = tables \o new.tables
             /\ upvals' = Closed(stack, base) /\ openupval' = StillOpen(base)
             /\ UNCHANGED trace
        ELSE /\ stack' = ret.stack /\ top' = ret.top /\ Advance
             /\ Emit(<<CallEvent(f, args, Locals)>>)
             /\ UNCHANGED <<tables, upvals, openupval>>
  /\ UNCHANGED <<code, closures, globals, results>>

DoRETURN ==
  /\ Running({"RETURN"})
  /\ LET vs == IF I.b # 0 THEN [j \in 1..(I.b - 1) |-> R(I.a + j - 1)]
               ELSE SubSeq(stack, base + I.a, top - 1)
         ret == Returned(stack, Frame.func, vs, Frame.nresults)
     IN IF Len(ci) = 1
        THEN status' = "done" /\ results' = vs /\ UNCHANGED <<stack, top, ci>>
        ELSE /\ stack' = [s \in DOMAIN stack |->
                            IF s < ret.top THEN ret.stack[s] ELSE Dead]
             /\ ci' = Front(ci)
             /\ top' = IF Frame.nresults = LUA_MULTRET THEN ret.top ELSE ci[Len(ci) - 1].top
             /\ UNCHANGED <<status, results>>
  /\ upvals' = Closed(stack, base) /\ openupval' = StillOpen(base)
  /\ UNCHANGED <<program, closures, host>>

DoFORPREP ==
  /\ Running({"FORPREP"})
  /\ SetR(I.a, NumArith("SUB", R(I.a), R(I.a + 2))) /\ Jump(1 + I.b)
  /\ UNCHANGED <<code, top, upvalues, host, results>>

DoFORLOOP ==
  /\ Running({"FORLOOP"})
  /\ LET idx == NumArith("ADD", R(I.a), R(I.a + 2))
         more == IF R(I.a + 2)[2] > 0 THEN idx[2] <= R(I.a + 1)[2] ELSE R(I.a + 1)[2] <= idx[2]
     IN IF more THEN /\ stack' = [stack EXCEPT ![base + I.a] = idx, ![base + I.a + 3] = idx]
                     /\ Jump(1 + I.b)
        ELSE Advance /\ UNCHANGED stack
  /\ UNCHANGED <<code, top, upvalues, host, results>>

\* The iterator is the host's.
DoTFORLOOP ==
  /\ Running({"TFORLOOP"})
  /\ LET args == <<R(I.a + 1), R(I.a + 2)>>
         cb == base + I.a + 3
         ret == Returned(stack, cb, Results(R(I.a), args, trace), I.c)
         more == ret.stack[cb] # Nil
     IN /\ stack' = IF more THEN [ret.stack EXCEPT ![cb - 1] = ret.stack[cb]] ELSE ret.stack
        /\ AfterTest(more)
        /\ Emit(<<CallEvent(R(I.a), args, Locals)>>)
  /\ top' = Frame.top
  /\ UNCHANGED <<code, upvalues, tables, globals, results>>

DoCLOSE ==
  /\ Running({"CLOSE"})
  /\ upvals' = Closed(stack, base + I.a) /\ openupval' = StillOpen(base + I.a) /\ Advance
  /\ UNCHANGED <<code, stack, top, closures, host, results>>

\* A captured local shares the upvalue that is open on its slot, if any.
DoCLOSURE ==
  /\ Running({"CLOSURE"})
  /\ LET p == Cl.p.p[I.b + 1]
         from == [j \in 1..p.nups |-> At(Cl.p, Frame.pc + j)]
         slots == {base + from[j].b : j \in {m \in 1..p.nups : from[m].op = "MOVE"}}
         new == SetToSeq(slots \ {upvals[u].at : u \in openupval})
         ups == upvals \o [j \in DOMAIN new |-> [open |-> TRUE, at |-> new[j], v |-> Nil]]
         opn == openupval \cup {Len(upvals) + j : j \in DOMAIN new}
         find(s) == CHOOSE u \in opn : ups[u].at = s
         caught == [j \in 1..p.nups |-> IF from[j].op = "MOVE" THEN find(base + from[j].b)
                                        ELSE Cl.upvals[from[j].b + 1]]
     IN /\ upvals' = ups /\ openupval' = opn
        /\ closures' = Append(closures, [p |-> p, upvals |-> caught])
        /\ Jump(1 + p.nups)
  /\ SetR(I.a, <<"fn", Len(closures)>>)   \* the main function is not counted
  /\ UNCHANGED <<code, top, host, results>>

DoVARARG ==
  /\ Running({"VARARG"})
  /\ LET n == base - Frame.func - Cl.p.numparams - 1
         extra == SubSeq(stack, base - n, base - 1)
         vs == IF I.b = 0 THEN extra ELSE Adjust(extra, I.b - 1)
     IN /\ stack' = Placed(stack, base + I.a, vs)
        /\ top' = IF I.b = 0 THEN base + I.a + n ELSE top
  /\ Advance
  /\ UNCHANGED <<code, upvalues, host, results>>

Stopped == status \in {"done", "rejected"} /\ UNCHANGED vars

Next == \/ Start \/ DoLoad \/ DoLOADBOOL \/ DoLOADNIL \/ DoArith \/ DoGETTABLE
        \/ DoSELF \/ DoSETTABLE \/ DoSETGLOBAL \/ DoSETUPVAL \/ DoNEWTABLE \/ DoSETLIST
        \/ DoJMP \/ DoCompare \/ DoTest \/ DoCALL \/ DoTAILCALL \/ DoRETURN \/ DoFORPREP
        \/ DoFORLOOP \/ DoTFORLOOP \/ DoCLOSE \/ DoCLOSURE \/ DoVARARG \/ Stopped

Spec == Init /\ [][Next]_vars

-----------------------------------------------------------------------------
(* Properties.                                                               *)

\* A program that has run has had the effects and results its source means:
\* the code lcode.c emits for it, with every register, jump, constant operand
\* and upvalue it chose, does what the syntax tree says, in the same order,
\* and the debug information names the same variables at every call.
Meant ==
  status = "done" =>
    [trace |-> trace, tables |-> tables, globals |-> globals, results |-> results] = program.meaning

\* None of the compiler's lua_asserts that are modelled (the Expects of LuaCode
\* and LuaParser) fails: registers are freed in the order of a stack
\* (lcode.c:218), jumps are patched to a place (lcode.c:83) and backward ones
\* before the end (lcode.c:173), jump lists are closed where they must be
\* (lcode.c:742), blocks and calls leave the registers they found, and every
\* function finished passes the code checker (lparser.c:371).
AssertsHold == program.main.bad = {}

\* The word after a SETLIST whose C is 0 is the "real C" (lopcodes.h:227), a
\* batch number that did not fit in C, when the instruction is executed.
RealC == Running({"SETLIST"}) /\ I.c = 0 => SetlistBatch > MaxArgC

\* An open upvalue is on the slot of a variable that is in scope in its frame,
\* and no two are on the same slot: leaving a block by its end, by break, by
\* repeat's condition or by a tail call closes the variables captured in it.
Active(frame, pc) == Len(SelectSeq(closures[frame.cl].p.locvars,
                                   LAMBDA v : v.startpc <= pc /\ pc < v.endpc))
OpenInScope ==
  /\ \A u \in openupval : \E j \in DOMAIN ci :
       LET pc == IF j = Len(ci) THEN ci[j].pc ELSE ci[j].pc - 1
       IN /\ ci[j].base <= upvals[u].at
          /\ \/ upvals[u].at < ci[j].base + Active(ci[j], pc)
             \/ At(closures[ci[j].cl].p, pc).op \in {"CLOSE", "RETURN"} /\ upvals[u].at < ci[j].top
  /\ \A u, w \in openupval : upvals[u].at = upvals[w].at => u = w
=============================================================================
