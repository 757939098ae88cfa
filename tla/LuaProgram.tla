----------------------------- MODULE LuaProgram -----------------------------
(***************************************************************************)
(* What a running program does to the heap, through the VM (lvm.c), the    *)
(* API (lapi.c), the parser (lparser.c, lcode.c) and coroutines (ldo.c):   *)
(* each operation with the write barrier that the code gives it.           *)
(***************************************************************************)
EXTENDS LuaHeap

(* New objects, each anchored in the stack slot s *)

NewTable(t, s) ==                                     \* luaH_new
  /\ MutatorRuns /\ Alloc({t}) /\ Push(t, s)
  /\ UNCHANGED <<grayagain, lists, content, metatable, env, upvals, holds,
                 openat, closedval, running, basemt>>

\* deviation: a dead string is returned as it is
NewStringAsFound(x, s) ==
  /\ MutatorRuns /\ Push(x, s)
  /\ color' = IF color[x] = "free" THEN [color EXCEPT ![x] = "currentwhite"] ELSE color
  /\ UNCHANGED <<gray, grayagain, unswept, lists, content, metatable, env,
                 upvals, holds, openat, closedval, running, basemt>>

\* luaS_newlstr: a string of the table that is dead but not swept is revived.
NewString(x, s) ==
  /\ MutatorRuns /\ Push(x, s)
  /\ color' = IF color[x] = "free" \/ IsDead(x)
              THEN [color EXCEPT ![x] = "currentwhite"] ELSE color
  /\ UNCHANGED <<gray, grayagain, unswept, lists, content, metatable, env,
                 upvals, holds, openat, closedval, running, basemt>>

\* getcurrenv: the globals, or the environment of the C function running.
CurrentEnvs == {env[running]} \cup {env[c] : c \in InHand \cap CClosures}

NewUserdata(u, s) ==                                  \* lua_newuserdata
  /\ MutatorRuns /\ Alloc({u}) /\ Push(u, s)
  /\ \E e \in CurrentEnvs : env' = [env EXCEPT ![u] = e]
  /\ UNCHANGED <<grayagain, lists, content, metatable, upvals, holds,
                 openat, closedval, running, basemt>>

NewThread(th, s) ==                                   \* lua_newthread
  /\ MutatorRuns /\ Alloc({th}) /\ Push(th, s)
  /\ env' = [env EXCEPT ![th] = env[running]]
  /\ UNCHANGED <<grayagain, lists, content, metatable, upvals, holds,
                 openat, closedval, running, basemt>>

PushCClosure(c, s) ==                                 \* lua_pushcclosure
  /\ MutatorRuns /\ Alloc({c}) /\ Push(c, s)
  /\ \E e \in CurrentEnvs : env' = [env EXCEPT ![c] = e]
  /\ \E v \in Values : holds' = [holds EXCEPT ![c] = {v}]
  /\ UNCHANGED <<grayagain, lists, content, metatable, upvals,
                 openat, closedval, running, basemt>>

\* open_func: the prototype being compiled is anchored in the stack.
NewProto(p, s) ==
  /\ MutatorRuns /\ Alloc({p}) /\ Push(p, s)
  /\ UNCHANGED <<grayagain, lists, content, metatable, env, upvals, holds,
                 openat, closedval, running, basemt>>

\* A prototype belongs to the parser until a closure or an outer prototype has it.
Compiling(p) == p \in InHand \cap Protos /\ \A o \in Closures \cup Protos : p \notin holds[o]

\* addk and pushclosure: a constant or an inner function of the prototype.
AddConstant(p, x) ==
  /\ MutatorRuns /\ Compiling(p) /\ x # p
  /\ x \in InHand \cap Strings \/ Compiling(x)
  /\ holds' = [holds EXCEPT ![p] = @ \cup {x}]
  /\ ForwardBarrier(p, x)
  /\ UNCHANGED <<grayagain, unswept, lists, content, metatable, env, upvals,
                 openat, closedval, stack, running, basemt>>

\* f_parser: the closure of a main chunk; one undumped may have upvalues.
ParserClosure(c, p, s) ==
  /\ MutatorRuns /\ Compiling(p) /\ Push(c, s)
  /\ \E us \in {{}} \cup {{u} : u \in UpVals} :
       /\ Alloc({c} \cup us)
       /\ upvals' = [upvals EXCEPT ![c] = us]
  /\ env' = [env EXCEPT ![c] = env[running]]
  /\ holds' = [holds EXCEPT ![c] = {p}]
  /\ UNCHANGED <<grayagain, lists, content, metatable, openat, closedval,
                 running, basemt>>

\* OP_CLOSURE in function cl: the new closure shares upvalues of cl, and may
\* capture the local at slot l (Nil: none) with luaF_findupval.
OpClosure(c, cl, p, l, s) ==
  /\ MutatorRuns /\ color[c] = "free"
  /\ p \in UNION {holds[q] : q \in holds[cl]} \cap Protos
  /\ Link({c}) /\ Push(c, s)
  /\ env' = [env EXCEPT ![c] = env[cl]]
  /\ holds' = [holds EXCEPT ![c] = {p}]
  /\ \E shared \in SUBSET upvals[cl] :
       \/ /\ l = Nil
          /\ upvals' = [upvals EXCEPT ![c] = shared]
          /\ color' = [color EXCEPT ![c] = "currentwhite"]
          /\ openat' = openat
       \/ \E u \in UpVals :
          /\ openat[u] = <<running, l>>
          /\ upvals' = [upvals EXCEPT ![c] = shared \cup {u}]
          /\ color' = [color EXCEPT ![c] = "currentwhite",
                                    ![u] = IF IsDead(u) THEN "currentwhite" ELSE @]
          /\ openat' = openat
       \/ \E u \in UpVals :
          /\ l # Nil /\ color[u] = "free"
          /\ \A w \in UpVals : openat[w] # <<running, l>>
          /\ upvals' = [upvals EXCEPT ![c] = shared \cup {u}]
          /\ color' = [color EXCEPT ![c] = "currentwhite", ![u] = "currentwhite"]
          /\ openat' = [openat EXCEPT ![u] = <<running, l>>]
  /\ UNCHANGED <<gray, grayagain, lists, content, metatable, closedval,
                 running, basemt>>

---------------------------------------------------------------------------
(* Reads and writes: of objects in hand, and of values in hand (MutatorStep) *)

\* A register or another stack is written with a value v that is Readable:
\* lua_xmove, or Nil for a pop.
Store(th, s, v) ==
  /\ MutatorRuns
  /\ th = running \/ th \in (InHand \cap Threads) \ {MainThread}
  /\ stack' = [stack EXCEPT ![th][s] = v]
  /\ UNCHANGED <<color, gray, grayagain, unswept, lists, content, metatable, env,
                 upvals, holds, openat, closedval, running, basemt>>

\* deviation: newkey without its barrier
InsertedRefsNoKey(k, v) == {v}

\* The references newkey stores in the node it takes: the key, and the value that
\* the caller assigns.
InsertedRefs(k, v) == {k, v}

\* luaV_settable and lua_rawset.  A key without a node gets one (newkey), which
\* may rehash the table: resize inserts all its keys again with newkey.
TableSet(t, k, v) ==
  /\ MutatorRuns /\ k \in Values \cup Indices
  /\ \/ /\ content[t][k] # Absent
        /\ content' = [content EXCEPT ![t][k] = v]
        /\ BackBarrier(t, {v})
     \/ /\ content[t][k] = Absent
        /\ content' = [content EXCEPT ![t][k] = v]
        /\ BackBarrier(t, InsertedRefs(k, v))
     \/ /\ content[t][k] = Absent
        /\ content' = [content EXCEPT ![t] = [x \in Keys |->
             IF x = k THEN v ELSE IF @[x] = Nil THEN EmptyTable[x] ELSE @[x]]]
        /\ BackBarrier(t, {x \in Keys : HasValue(t, x)} \cup InsertedRefs(k, v))
  /\ UNCHANGED <<gray, unswept, lists, metatable, env, upvals, holds, openat,
                 closedval, stack, running, basemt>>

\* lua_setmetatable
SetTableMetatable(t, mt) ==
  /\ MutatorRuns /\ mt \in (InHand \cap Metas) \cup {Nil}
  /\ metatable' = [metatable EXCEPT ![t] = mt]
  /\ BackBarrier(t, {mt})
  /\ UNCHANGED <<gray, unswept, lists, content, env, upvals, holds, openat,
                 closedval, stack, running, basemt>>

SetUdataMetatable(u, mt) ==
  /\ MutatorRuns /\ mt \in (InHand \cap Metas) \cup {Nil}
  /\ metatable' = [metatable EXCEPT ![u] = mt]
  /\ ForwardBarrier(u, mt)
  /\ UNCHANGED <<grayagain, unswept, lists, content, env, upvals, holds, openat,
                 closedval, stack, running, basemt>>

SetBaseMetatable(mt) ==
  /\ MutatorRuns /\ mt \in (InHand \cap Metas) \cup {Nil}
  /\ basemt' = mt
  /\ UNCHANGED <<color, gray, grayagain, unswept, lists, content, metatable, env,
                 upvals, holds, openat, closedval, stack, running>>

\* lua_setfenv
SetFenv(o, e) ==
  /\ MutatorRuns /\ o \in Closures \cup Userdata \cup Threads
  /\ e \in InHand \cap Envs
  /\ env' = [env EXCEPT ![o] = e]
  /\ ForwardBarrier(o, e)
  /\ UNCHANGED <<grayagain, unswept, lists, content, metatable, upvals, holds,
                 openat, closedval, stack, running, basemt>>

\* Writing through an upvalue, into a stack while it is open.
WriteUpValue(u, v) ==
  IF openat[u] = Nil
  THEN closedval' = [closedval EXCEPT ![u] = v] /\ stack' = stack
  ELSE /\ stack' = [stack EXCEPT ![openat[u][1]][openat[u][2]] = v]
       /\ closedval' = closedval

OpSetUpval(c, u, v) ==                                \* OP_SETUPVAL
  /\ MutatorRuns /\ u \in upvals[c]
  /\ WriteUpValue(u, v)
  /\ ForwardBarrier(u, v)
  /\ UNCHANGED <<grayagain, unswept, lists, content, metatable, env, upvals,
                 holds, openat, running, basemt>>

\* lua_setupvalue on a Lua function: the barrier is given the closure, not u.
LuaSetUpvalue(c, u, v) ==
  /\ MutatorRuns /\ u \in upvals[c]
  /\ WriteUpValue(u, v)
  /\ ForwardBarrier(c, v)
  /\ UNCHANGED <<grayagain, unswept, lists, content, metatable, env, upvals,
                 holds, openat, running, basemt>>

\* lua_replace on an upvalue index of the running C function.
SetCUpvalue(c, v) ==
  /\ MutatorRuns
  /\ holds' = [holds EXCEPT ![c] = {v}]
  /\ ForwardBarrier(c, v)
  /\ UNCHANGED <<grayagain, unswept, lists, content, metatable, env, upvals,
                 openat, closedval, stack, running, basemt>>

\* deviations: closed upvalues always black; always white
ClosedColorBlack == "black"
ClosedColorWhite == "currentwhite"

\* luaC_linkupval: the colour a gray upvalue gets when it is closed.
ClosedColor == IF gcstate = "propagate" THEN "black" ELSE "currentwhite"

\* luaF_close(L, level): dead upvalues are freed, the others take over the value
\* and are linked into rootgc, with a barrier for what a black one refers to.
CloseUpvals(level) ==
  LET ups   == {u \in OpenUpvals(running) : openat[u][2] >= level}
      dead  == {u \in ups : IsDead(u)}
      live  == ups \ dead
      grays == {u \in live : color[u] = "gray"}
      more  == IF gcstate = "propagate" THEN {UpValue(u) : u \in grays} ELSE {}
  IN  /\ MutatorRuns /\ ups # {}
      /\ color' = [o \in Obj |-> IF o \in dead THEN "free"
                                 ELSE IF o \in grays THEN ClosedColor
                                 ELSE Marked(more)[o]]
      /\ gray' = gray \cup MarkedGray(more)
      /\ closedval' = [u \in UpVals |-> IF u \in live THEN UpValue(u) ELSE closedval[u]]
      /\ openat' = Reset(openat, ups, Nil)
      /\ Link(live)
      /\ UNCHANGED <<grayagain, lists, content, metatable, env, upvals, holds,
                     stack, running, basemt>>

\* lua_resume and lua_yield; nesting is kept at one level (ResumeDepth 1).
Resume(th) ==
  /\ MutatorRuns /\ running = MainThread
  /\ th \in InHand \cap (Threads \ {MainThread})
  /\ running' = th
  /\ UNCHANGED <<color, gray, grayagain, unswept, lists, content, metatable, env,
                 upvals, holds, openat, closedval, stack, basemt>>

Yield ==
  /\ MutatorRuns /\ running # MainThread
  /\ running' = MainThread
  /\ UNCHANGED <<color, gray, grayagain, unswept, lists, content, metatable, env,
                 upvals, holds, openat, closedval, stack, basemt>>

MutatorStep ==
  \/ \E s \in Slots :
       \/ \E t \in Tables : NewTable(t, s)
       \/ \E x \in Strings : NewString(x, s)
       \/ \E u \in Userdata : NewUserdata(u, s)
       \/ \E th \in Threads : NewThread(th, s)
       \/ \E c \in CClosures : PushCClosure(c, s)
       \/ \E p \in Protos : NewProto(p, s)
       \/ \E c \in LClosures, p \in Protos : ParserClosure(c, p, s)
       \/ \E c \in LClosures, cl \in InHand \cap LClosures, p \in Protos,
             l \in Slots \cup {Nil} : OpClosure(c, cl, p, l, s)
       \/ \E th \in Threads, v \in (Readable \cap Held) \cup {Nil} : Store(th, s, v)
  \/ \E p \in InHand \cap Protos, x \in Strings \cup Protos : AddConstant(p, x)
  \/ \E t \in InHand \cap Written, k \in Keys, v \in Values \cup {Nil} : TableSet(t, k, v)
  \/ \E t \in InHand \cap Written, mt \in Tables \cup {Nil} : SetTableMetatable(t, mt)
  \/ \E u \in InHand \cap Userdata, mt \in Tables \cup {Nil} : SetUdataMetatable(u, mt)
  \/ \E mt \in Tables \cup {Nil} : SetBaseMetatable(mt)
  \/ \E o \in InHand, e \in Tables : SetFenv(o, e)
  \/ \E c \in InHand \cap LClosures, u \in UpVals, v \in Values \cup {Nil} : OpSetUpval(c, u, v)
  \/ \E c \in InHand \cap CClosures, v \in Values : SetCUpvalue(c, v)
  \/ \E level \in Slots : CloseUpvals(level)
  \/ \E th \in Threads : Resume(th)
  \/ Yield

=============================================================================
