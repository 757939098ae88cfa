------------------------------ MODULE LuaInterrupt -----------------------------
(* Control-C in the stand-alone interpreter (lua.c).  While a chunk runs under  *)
(* docall, SIGINT runs laction between any two C statements: it sets a hook,    *)
(* and the hook, called by the interpreter at its next event, removes itself    *)
(* and raises "interrupted!".  A second SIGINT before that ends the process.    *)
(* lua_sethook's stores and the reads of luaD_callhook are steps of their own;  *)
(* the chunk may set hooks too (debug.sethook).                                *)
EXTENDS Integers, Sequences

CONSTANTS MaxSignals   \* bound: SIGINTs sent

VARIABLES iaction,     \* the action for SIGINT: "SIG_DFL", "laction"
          ihook,       \* L->hook: "none", "lstop", "user"
          imask,       \* L->hookmask: which hook's mask it is; "none" is 0
          ipc,         \* where the C code stands
          isent,       \* history: SIGINTs laction has answered
          ierrors,     \* history: "interrupted!" raised
          ikilled      \* the default action ended the process

interruptVars == <<iaction, ihook, imask, ipc, isent, ierrors, ikilled>>

(* lua.c starts with signals at their default and no hook.                     *)
InterruptInit == /\ iaction = "SIG_DFL" /\ ihook = "none" /\ imask = "none"
                 /\ ipc = "outside" /\ isent = 0 /\ ierrors = 0 /\ ikilled = FALSE

From(from, to) == ~ikilled /\ ipc = from /\ ipc' = to

(* laction with the lua_sethook it calls: nothing runs in between.             *)
laction == /\ ~ikilled /\ isent < MaxSignals
           /\ iaction = "laction"
           /\ iaction' = "SIG_DFL" /\ ihook' = "lstop" /\ imask' = "lstop"
           /\ isent' = isent + 1
           /\ UNCHANGED <<ipc, ierrors, ikilled>>

DefaultAction == /\ ~ikilled /\ isent < MaxSignals
                 /\ iaction = "SIG_DFL" /\ ikilled' = TRUE
                 /\ UNCHANGED <<iaction, ihook, imask, ipc, isent, ierrors>>

(* docall: laction is installed before the chunk and SIG_DFL after it, whatever *)
(* its status.                                                                 *)
docall == /\ From("outside", "chunk") /\ iaction' = "laction"
          /\ UNCHANGED <<ihook, imask, isent, ierrors, ikilled>>
ChunkEnds == /\ From("chunk", "ended")
             /\ UNCHANGED <<iaction, ihook, imask, isent, ierrors, ikilled>>
docallReturns == /\ From("ended", "outside") /\ iaction' = "SIG_DFL"
                 /\ UNCHANGED <<ihook, imask, isent, ierrors, ikilled>>

(* An instruction with an event: luaV_execute and luaD_precall look at hookmask, *)
(* then luaD_callhook reads L->hook.                                           *)
Instruction == /\ From("chunk", "event") /\ imask # "none"
               /\ UNCHANGED <<iaction, ihook, imask, isent, ierrors, ikilled>>
luaD_callhook == /\ \/ From("event", "lstop") /\ ihook = "lstop"
                    \/ From("event", "chunk") /\ ihook # "lstop"
                 /\ UNCHANGED <<iaction, ihook, imask, isent, ierrors, ikilled>>

(* As lstop would be if it only raised the error.                              *)
lstopKeepsHook == /\ From("lstop", "raise")
                  /\ UNCHANGED <<iaction, ihook, imask, isent, ierrors, ikilled>>

(* lstop: lua_sethook(L, NULL, 0, 0), store by store, then the error, which a   *)
(* pcall of the chunk catches or docall's.                                     *)
lstop == /\ From("lstop", "unmask") /\ ihook' = "none"
         /\ UNCHANGED <<iaction, imask, isent, ierrors, ikilled>>
lstopUnmasks == /\ From("unmask", "raise") /\ imask' = "none"
                /\ UNCHANGED <<iaction, ihook, isent, ierrors, ikilled>>
Raises == /\ \/ From("raise", "chunk") \/ From("raise", "ended")
          /\ ierrors' = ierrors + 1
          /\ UNCHANGED <<iaction, ihook, imask, isent, ikilled>>

(* debug.sethook of the chunk: the hook, then the mask.                        *)
SetsHook(hook) == /\ From("chunk", IF hook = "none" THEN "unsetting" ELSE "setting")
                  /\ ihook' = hook
                  /\ UNCHANGED <<iaction, imask, isent, ierrors, ikilled>>
SetsMask == /\ \/ From("setting", "chunk") /\ imask' = "user"
               \/ From("unsetting", "chunk") /\ imask' = "none"
            /\ UNCHANGED <<iaction, ihook, isent, ierrors, ikilled>>

InterruptNext == \/ laction \/ DefaultAction
                 \/ docall \/ ChunkEnds \/ docallReturns
                 \/ Instruction \/ luaD_callhook
                 \/ lstop \/ lstopUnmasks \/ Raises
                 \/ \E hook \in {"none", "user"} : SetsHook(hook)
                 \/ SetsMask

InterruptSpec == InterruptInit /\ [][InterruptNext]_interruptVars

(* One SIGINT raises "interrupted!" at most once, although the chunk may catch  *)
(* it and go on: errors raised, the one under way and the one its hook is still *)
(* to raise are never more than the signals.                                   *)
OneErrorEach ==
  ierrors + (IF ihook = "lstop" THEN 1 ELSE 0)
          + (IF ipc \in {"unmask", "raise"} THEN 1 ELSE 0) <= isent
================================================================================
