------------------------------- MODULE LuaCall -------------------------------
(***************************************************************************)
(* Calls, errors and coroutines: ldo.c, the coroutine functions of         *)
(* lbaselib.c and luaG_errormsg.                                           *)
(*                                                                         *)
(* Lua functions run in activations of luaV_execute and C functions in     *)
(* activations of their own, both on the C stack, which all threads share; *)
(* each thread has CallInfos of its own.  Errors leave activations by      *)
(* longjmp, and lua_yield leaves those of a coroutine by returning.        *)
(*                                                                         *)
(* What functions compute is left open: in each state the running function *)
(* may call, return, raise an error, resume or yield.  luaG_errormsg and   *)
(* luaD_throw are steps of their own (doing), between which nothing runs.  *)
(***************************************************************************)
EXTENDS Naturals, SequencesExt

CONSTANTS
  Main, Coroutines,   \* lua_States
  MaxCcalls,          \* LUAI_MAXCCALLS
  Margin,             \* LUAI_MAXCCALLS>>3
  MaxCalls,           \* LUAI_MAXCALLS
  BasicCi,            \* BASIC_CI_SIZE
  Handlers,           \* what lua_pcall is given: "lua", "c", "notfunction" or "none"
  Hook, Finalizers    \* is a hook set, are there userdata with finalizers

Threads == {Main} \cup Coroutines

ASSUME CallAssumption ==
  /\ Main \notin Coroutines
  /\ MaxCcalls \in Nat \ {0} /\ Margin \in Nat \ {0}
  /\ MaxCalls \in Nat /\ BasicCi \in Nat /\ 2 <= BasicCi /\ BasicCi <= MaxCalls
  /\ Handlers \subseteq {"lua", "c", "notfunction", "none"}
  /\ Hook \in BOOLEAN /\ Finalizers \in BOOLEAN

VARIABLES
  thread,         (* the fields of each lua_State                           *)
  cstack,         (* activations of C functions, the innermost last         *)
  doing           (* "run", or how an error proceeds                        *)

vars == <<thread, cstack, doing>>

---------------------------------------------------------------------------
(* Activations *)

L   == cstack[Len(cstack)].th          \* the running thread
Top == cstack[Len(cstack)]

\* What luaD_pcall, luaD_rawrunprotected and GCTM keep in local variables.
Saved(t) == [ci |-> Len(t.ci), ccalls |-> t.ccalls, errfunc |-> t.errfunc,
             allowhook |-> t.allowhook, jmp |-> t.jmp]

\* n is nexeccalls of luaV_execute; called: entered by luaD_call.
Activation(kind, th) ==
  [kind |-> kind, th |-> th, n |-> 0, called |-> FALSE,
   old |-> IF kind \in {"pcall", "errormsg", "gctm"} THEN Saved(thread[th])
                                                    ELSE [jmp |-> thread[th].jmp]]

\* The activation of a function: luaV_execute or the C function itself.
Body(f, th, called) ==
  [Activation(IF f = "lua" THEN "execute" ELSE "cfunction", th)
     EXCEPT !.n = IF f = "lua" THEN 1 ELSE 0, !.called = called]

\* The C code that calls the API: the host program, C functions and hooks.
InC   == doing = "run" /\ Top.kind \in {"host", "cfunction", "hook"}
InLua == doing = "run" /\ Top.kind = "execute"

Effect(th, t, stk, d) ==
  thread' = [thread EXCEPT ![th] = t] /\ cstack' = stk /\ doing' = d

---------------------------------------------------------------------------
(* Calls *)

\* luaD_precall with inc_ci and growCI: enter f in the thread th, now t, with
\* the C stack stk; on an overflow the stack is stk0.
PreCall(th, t, stk0, stk, f) ==
  LET entered(u) == [u EXCEPT !.ci = Append(@, f)]
      grown == [t EXCEPT !.size = 2 * @]
  IN  IF Len(t.ci) < t.size - 1 THEN Effect(th, entered(t), stk, "run")
      ELSE IF t.size > MaxCalls THEN Effect(th, t, stk0, "errerr")
      ELSE IF grown.size > MaxCalls THEN Effect(th, grown, stk0, "error")
      ELSE Effect(th, entered(grown), stk, "run")

\* deviation: the depth is counted but not limited
CallWithoutLimit(th, t, stk, f) ==
  PreCall(th, [t EXCEPT !.ccalls = @ + 1], stk, Append(stk, Body(f, th, TRUE)), f)

\* luaD_call
Call(th, t, stk, f) ==
  LET u == [t EXCEPT !.ccalls = @ + 1]
  IN  IF u.ccalls = MaxCcalls THEN Effect(th, u, stk, "error")
      ELSE IF u.ccalls >= MaxCcalls + Margin THEN Effect(th, u, stk, "errerr")
      ELSE PreCall(th, u, stk, Append(stk, Body(f, th, TRUE)), f)

\* OP_CALL
OpCall(f) ==
  /\ InLua
  /\ PreCall(L, thread[L], cstack,
       IF f = "lua" THEN [cstack EXCEPT ![Len(cstack)].n = @ + 1]
                    ELSE Append(cstack, Body(f, L, FALSE)), f)

\* OP_TAILCALL of a Lua function: the new frame replaces the caller's.
OpTailCall ==
  /\ InLua
  /\ LET t == thread[L]
         grown == [t EXCEPT !.size = 2 * @]
     IN  IF Len(t.ci) < t.size - 1 THEN Effect(L, t, cstack, "run")
         ELSE IF t.size > MaxCalls THEN Effect(L, t, cstack, "errerr")
         ELSE Effect(L, grown, cstack, IF grown.size > MaxCalls THEN "error" ELSE "run")

\* A metamethod called by the interpreter, or lua_call.
DCall(f) == /\ InLua \/ InC
            /\ Call(L, thread[L], cstack, f)

\* lua_pcall and lua_cpcall, with a handler, with something that is not a function
\* in its place, or without.
PCall(f, ef) ==
  /\ InC
  /\ Call(L, [thread[L] EXCEPT !.errfunc = ef, !.jmp = Len(cstack) + 1],
          Append(cstack, Activation("pcall", L)), f)

\* luaD_poscall and the return from the activation.
Leave(stk, called) ==
  Effect(L, [thread[L] EXCEPT !.ci = Front(@),
                              !.ccalls = IF called THEN @ - 1 ELSE @], stk, "run")

OpReturn ==
  /\ InLua
  /\ IF Top.n > 1 THEN Leave([cstack EXCEPT ![Len(cstack)].n = @ - 1], FALSE)
                  ELSE Leave(Front(cstack), Top.called)

CReturn == InC /\ Top.kind = "cfunction" /\ Leave(Front(cstack), Top.called)

PCallReturns ==
  /\ doing = "run" /\ Top.kind = "pcall"
  /\ Effect(L, [thread[L] EXCEPT !.errfunc = Top.old.errfunc, !.jmp = Top.old.jmp],
            Front(cstack), "run")

---------------------------------------------------------------------------
(* Errors *)

\* lua_error, luaG_runerror
Error == (InLua \/ InC) /\ doing' = "error" /\ UNCHANGED <<thread, cstack>>

\* luaG_errormsg calls the handler, if there is one.
ErrorMsg ==
  /\ doing = "error"
  /\ LET ef == thread[L].errfunc
     IN  IF ef = "none" THEN doing' = "errrun" /\ UNCHANGED <<thread, cstack>>
         ELSE IF ef = "notfunction" THEN doing' = "errerr" /\ UNCHANGED <<thread, cstack>>
         ELSE Call(L, thread[L], Append(cstack, Activation("errormsg", L)), ef)

HandlerReturns ==
  /\ doing = "run" /\ Top.kind = "errormsg"
  /\ Effect(L, thread[L], Front(cstack), "errrun")

\* luaM_realloc_ and luaX_lexerror throw without a handler.
Throw == (InLua \/ InC) /\ doing' = "errmem" /\ UNCHANGED <<thread, cstack>>

\* deviation: the space is taken back whatever is in use
RestoreStackLimitAlways(size, inuse) == IF size > MaxCalls THEN MaxCalls ELSE size

\* restore_stack_limit
RestoreStackLimit(size, inuse) ==
  IF size > MaxCalls /\ inuse + 1 < MaxCalls THEN MaxCalls ELSE size

\* deviations: luaD_pcall forgets nCcalls, allowhook, or the chain of errorJmp
RestoredButCcalls(t, old) ==
  [t EXCEPT !.ci = SubSeq(@, 1, old.ci), !.allowhook = old.allowhook,
            !.errfunc = old.errfunc, !.jmp = old.jmp, !.size = RestoreStackLimit(@, old.ci)]
RestoredButHook(t, old) ==
  [t EXCEPT !.ci = SubSeq(@, 1, old.ci), !.ccalls = old.ccalls,
            !.errfunc = old.errfunc, !.jmp = old.jmp, !.size = RestoreStackLimit(@, old.ci)]
RestoredButJump(t, old) ==
  [t EXCEPT !.ci = SubSeq(@, 1, old.ci), !.ccalls = old.ccalls, !.allowhook = old.allowhook,
            !.errfunc = old.errfunc, !.size = RestoreStackLimit(@, old.ci)]

\* What luaD_pcall and luaD_rawrunprotected put back after an error.
Restored(t, old) ==
  [t EXCEPT !.ci = SubSeq(@, 1, old.ci), !.ccalls = old.ccalls, !.allowhook = old.allowhook,
            !.errfunc = old.errfunc, !.jmp = old.jmp, !.size = RestoreStackLimit(@, old.ci)]

Thrown == doing \in {"errrun", "errmem", "errerr"}

\* luaD_throw to luaD_pcall
Catch ==
  LET j == thread[L].jmp
  IN  /\ Thrown /\ j # 0 /\ cstack[j].kind = "pcall"
      /\ Effect(L, Restored(thread[L], cstack[j].old), SubSeq(cstack, 1, j - 1), "run")

\* luaD_throw to lua_resume: the coroutine is dead, with its frames.
Die ==
  LET j == thread[L].jmp
  IN  /\ Thrown /\ j # 0 /\ cstack[j].kind = "resume"
      /\ Effect(L, [thread[L] EXCEPT !.status = doing, !.ccalls = @ - 1,
                                     !.jmp = cstack[j].old.jmp],
                SubSeq(cstack, 1, j - 1), "run")

\* luaD_throw without errorJmp: resetstack and panic, and the program exits.
Panic ==
  /\ Thrown /\ thread[L].jmp = 0
  /\ Effect(L, [thread[L] EXCEPT !.status = doing, !.ci = <<>>, !.ccalls = thread[L].base,
                  !.allowhook = TRUE, !.size = RestoreStackLimit(@, 0), !.errfunc = "none"],
            cstack, "exit")

---------------------------------------------------------------------------
(* Coroutines *)

\* deviation: a coroutine that has resumed another one is taken for a new one
CoStatusWithoutFrames(co) ==
  LET t == thread[co]
  IN  IF L = co THEN "running"
      ELSE IF t.status = "yield" THEN "suspended"
      ELSE IF t.status # "ok" \/ t.slots = "none" THEN "dead" ELSE "suspended"

\* costatus
CoStatus(co) ==
  LET t == thread[co]
  IN  IF L = co THEN "running"
      ELSE IF t.status = "yield" THEN "suspended"
      ELSE IF t.status # "ok" THEN "dead"
      ELSE IF t.ci # <<>> THEN "normal"
      ELSE IF t.slots = "none" THEN "dead" ELSE "suspended"

\* deviation: the coroutine counts from its own last level
SetLevelNot(t, from) == t

\* lua_setlevel
SetLevel(t, from) == [t EXCEPT !.ccalls = from.ccalls]

\* deviation: only the innermost frame is executed
ContinuedOne(co, ci) == Body("lua", co, FALSE)

\* The end of resume: luaV_execute for all frames of the coroutine.
Continued(co, ci) == [Body("lua", co, FALSE) EXCEPT !.n = Len(ci)]

\* coroutine.resume: auxresume with lua_setlevel, lua_resume and resume.  What a
\* resume that found too many results left on the stack cannot be called.
Resume(co) ==
  LET t == SetLevel(thread[co], thread[L])
      u == [t EXCEPT !.ccalls = @ + 1, !.base = t.ccalls + 1, !.jmp = Len(cstack) + 1,
                     !.status = "ok"]
      stk == Append(cstack, Activation("resume", co))
      ci == IF Last(t.ci) = "c" THEN Front(t.ci) ELSE t.ci
  IN  /\ InC /\ CoStatus(co) = "suspended"
      /\ IF t.ccalls >= MaxCcalls
         THEN Effect(co, [t EXCEPT !.slots = "none"], cstack, "run")
         ELSE IF t.status = "yield"
         THEN Effect(co, [u EXCEPT !.ci = ci],
                     Append(stk, Continued(co, ci)), "run")
         ELSE IF t.slots = "results" THEN Effect(co, u, stk, "error")
         ELSE PreCall(co, u, stk, Append(stk, Body("lua", co, FALSE)), "lua")

\* deviation: any coroutine may yield
CrossesInMain(t) == t.base = 0

\* Is there a C call between resume and yield?
Crosses(t) == t.ccalls > t.base

\* lua_yield as the result of a C function: precall and luaV_execute return; in a
\* count or line hook: luaD_callhook, traceexec and luaV_execute return.
Yield ==
  /\ InC /\ Top.kind \in {"cfunction", "hook"}
  /\ Top.kind = "hook" => cstack[Len(cstack) - 1].kind = "execute"
  /\ IF Crosses(thread[L])
     THEN doing' = "error" /\ UNCHANGED <<thread, cstack>>
     ELSE Effect(L, [thread[L] EXCEPT !.status = "yield",
                       !.allowhook = IF Top.kind = "hook" THEN TRUE ELSE @],
                 SubSeq(cstack, 1, Len(cstack) - 2), "run")

\* The rest of lua_resume and auxresume: the results are moved, unless there are
\* too many, which is an error of the caller.
ResumeReturns(toomany) ==
  /\ doing = "run" /\ Top.kind = "resume"
  /\ Effect(L, [thread[L] EXCEPT !.ccalls = @ - 1, !.jmp = Top.old.jmp,
                                 !.slots = IF toomany THEN "results" ELSE "none"],
            Front(cstack), IF toomany THEN "error" ELSE "run")

---------------------------------------------------------------------------
(* Hooks, finalizers and the collector *)

\* luaD_callhook
CallHook == /\ doing = "run" /\ Top.kind \in {"execute", "cfunction"}
            /\ Hook /\ thread[L].allowhook
            /\ Effect(L, [thread[L] EXCEPT !.allowhook = FALSE],
                      Append(cstack, Activation("hook", L)), "run")

HookReturns == /\ InC /\ Top.kind = "hook"
               /\ Effect(L, [thread[L] EXCEPT !.allowhook = TRUE], Front(cstack), "run")

\* GCTM calls a finalizer.
CallFinalizer(f) ==
  /\ Finalizers /\ doing = "run" /\ Top.kind \notin {"resume", "gctm"}
  /\ Call(L, [thread[L] EXCEPT !.allowhook = FALSE], Append(cstack, Activation("gctm", L)), f)

FinalizerReturns ==
  /\ doing = "run" /\ Top.kind = "gctm"
  /\ Effect(L, [thread[L] EXCEPT !.allowhook = Top.old.allowhook], Front(cstack), "run")

\* checkstacksizes, when the collector traverses a thread
CheckStackSizes(th) ==
  LET t == thread[th]
  IN  /\ InLua \/ InC
      /\ t.size <= MaxCalls /\ 4 * Len(t.ci) < t.size /\ 2 * BasicCi < t.size
      /\ Effect(th, [t EXCEPT !.size = @ \div 2], cstack, "run")

---------------------------------------------------------------------------

\* preinit_state; a coroutine has its function on the stack.
NewThread == [status |-> "ok", ci |-> <<>>, ccalls |-> 0, base |-> 0, size |-> BasicCi,
              errfunc |-> "none", allowhook |-> TRUE, jmp |-> 0, slots |-> "body"]

Init == /\ thread = [th \in Threads |-> NewThread]
        /\ cstack = <<[kind |-> "host", th |-> Main, n |-> 0, called |-> FALSE,
                       old |-> [jmp |-> 0]]>>
        /\ doing = "run"

Functions == {"lua", "c"}

Next ==
  \/ \E f \in Functions : OpCall(f) \/ DCall(f) \/ CallFinalizer(f)
  \/ \E f \in Functions, ef \in Handlers : PCall(f, ef)
  \/ OpTailCall \/ OpReturn \/ CReturn \/ PCallReturns
  \/ Error \/ Throw \/ ErrorMsg \/ HandlerReturns \/ Catch \/ Die \/ Panic
  \/ \E co \in Coroutines : Resume(co)
  \/ Yield
  \/ \E toomany \in BOOLEAN : ResumeReturns(toomany)
  \/ CallHook \/ HookReturns \/ FinalizerReturns
  \/ \E th \in Threads : CheckStackSizes(th)

Spec == Init /\ [][Next]_vars

---------------------------------------------------------------------------
(* Properties *)

Status == {"ok", "yield", "errrun", "errmem", "errerr"}

TypeOK ==
  /\ thread \in [Threads ->
       [status : Status, ci : Seq(Functions), ccalls : 0..(MaxCcalls + Margin),
        base : 0..MaxCcalls, size : Nat, errfunc : {"none", "notfunction"} \cup Functions,
        allowhook : BOOLEAN, jmp : 0..Len(cstack), slots : {"body", "results", "none"}]]
  /\ cstack # <<>>
  /\ \A i \in DOMAIN cstack : cstack[i].th \in Threads
  /\ doing \in {"run", "error", "errrun", "errmem", "errerr", "exit"}

OnStack(th) == \E i \in DOMAIN cstack : cstack[i].th = th

\* The frames for which an activation is answerable.
Frames(r) == CASE r.kind = "execute" -> [i \in 1..r.n |-> "lua"]
               [] r.kind = "cfunction" -> <<"c">>
               [] OTHER -> <<>>

\* nexeccalls and the C stack account for every CallInfo: the frames of a thread that
\* runs or waits are those of its activations, in their order (lvm.c:639, ldo.c:404).
FramesMatch ==
  doing # "exit" =>
    \A th \in Threads : OnStack(th) /\ thread[th].status = "ok" =>
      thread[th].ci = FlattenSeq([i \in DOMAIN cstack |->
                                    IF cstack[i].th = th THEN Frames(cstack[i]) ELSE <<>>])

\* What resume will run in one luaV_execute are Lua frames, below at most one C frame
\* that is to be completed, and there is at least one (ldo.c:392-404).
YieldedFrames ==
  \A co \in Coroutines : thread[co].status = "yield" =>
    LET ci == thread[co].ci
        lua == IF Last(ci) = "c" THEN Front(ci) ELSE ci
    IN  /\ OnStack(co) => L = co /\ Top.kind = "resume"
        /\ ci # <<>>
        /\ lua # <<>> /\ \A i \in DOMAIN lua : lua[i] = "lua"

\* errorJmp is the innermost pcall or resume of its thread, and a longjmp to it leaves
\* activations of that thread only (ldo.c:110-121).
JumpTargets ==
  \A th \in Threads :
    LET j == thread[th].jmp
        targets == {i \in DOMAIN cstack : cstack[i].th = th /\ cstack[i].kind \in {"pcall", "resume"}}
    IN  /\ (targets = {}) = (j = 0)
        /\ j # 0 => j \in targets /\ \A i \in targets : i <= j
        /\ th = L => \A i \in (j + 1)..Len(cstack) : cstack[i].th = L

\* All threads share the C stack: nCcalls of the running thread counts the calls of
\* every thread on it, and the limit bounds them together (ldo.c:370-376, lapi.c:125).
BoundedCStack ==
  LET calls == {i \in DOMAIN cstack : cstack[i].called \/ cstack[i].kind = "resume"}
  IN  doing # "exit" =>
        Cardinality(calls) <= thread[L].ccalls /\ thread[L].ccalls <= MaxCcalls + Margin

\* When a call made by pcall, by luaG_errormsg or for a finalizer comes back, however
\* errors were caught inside, the thread is as it was before (ldo.c:456-476).
Balanced ==
  doing = "run" /\ Top.kind \in {"pcall", "errormsg", "gctm"} =>
    LET t == thread[L]
    IN  /\ t.ccalls = Top.old.ccalls
        /\ Len(t.ci) = Top.old.ci
        /\ Top.kind # "gctm" => t.allowhook = Top.old.allowhook
        /\ Top.kind # "pcall" => t.errfunc = Top.old.errfunc /\ t.jmp = Top.old.jmp

\* Hooks are off exactly while a hook or a finalizer of the thread runs
\* (lua_assert(!L->allowhook), ldo.c:200).
HookFlag ==
  \A th \in Threads : doing # "exit" /\ thread[th].status \in {"ok", "yield"} =>
    thread[th].allowhook =
      ~\E i \in DOMAIN cstack : cstack[i].th = th /\ cstack[i].kind \in {"hook", "gctm"}

\* The CallInfos in use fit, also when the space that the handling of an overflow
\* was granted is taken back, and there is an end to them (ldo.c:71-79, 168-178).
CallInfosFit ==
  \A th \in Threads : /\ Len(thread[th].ci) < thread[th].size
                      /\ thread[th].size <= 2 * MaxCalls

\* A coroutine can be resumed only if it is not on the C stack, and then it has no
\* error handler (lua_assert(L->errfunc == 0), ldo.c:426).
StatusIsReal ==
  doing = "run" => \A co \in Coroutines :
    /\ CoStatus(co) \in {"running", "normal"} <=> OnStack(co)
    /\ CoStatus(co) = "suspended" => thread[co].errfunc = "none"

\* Of an error nothing is left in the thread that caught it, hooks included.
ThreadRestored == Balanced /\ HookFlag

\* C calls and CallInfos stay within their limits, error handling included.
WithinLimits == TypeOK /\ CallInfosFit

\* The CallInfos of a thread, running or suspended, are those that the C stack or
\* the next resume will go on with.
FramesKept == FramesMatch /\ YieldedFrames

\* The C stack that all threads share: its depth, and the longjmps on it.
CStackKept == JumpTargets /\ BoundedCStack
=============================================================================
