-------------------------------- MODULE LuaStack -------------------------------
(* A Lua stack that moves (ldo.c).  Any check for room may reallocate it, and    *)
(* every pointer into the old block is then worthless: luaD_reallocstack        *)
(* corrects those of the lua_State, its CallInfos and its open upvalues, and C   *)
(* functions that keep one across a call keep its distance from the base        *)
(* (savestack) instead.  A pointer is the number of the block it points into.   *)
EXTENDS Integers, Sequences, FiniteSets

CONSTANTS MaxBlocks,   \* bound: blocks the stack has had
          MaxCalls,    \* bound: C functions in progress
          StackUpvals  \* upvalues

Distance == 0          \* savestack: an offset, no pointer

VARIABLES mblock,      \* the block L->stack points to
          mtop,        \* L->top
          mbase,       \* L->base
          mci,         \* the CallInfos, base_ci first: each one's func, base and top
          mopen,       \* open upvalue -> where v points; 0 for a closed one
          mwork,       \* the C functions in progress, with the StkId each keeps
          mstale       \* history: a pointer was used after its block was gone

stackVars == <<mblock, mtop, mbase, mci, mopen, mwork, mstale>>

StackInit == /\ mblock = 1 /\ mtop = 1 /\ mbase = 1 /\ mci = <<1>>
             /\ mopen = [u \in StackUpvals |-> 0]
             /\ mwork = <<[at |-> "execute", kept |-> 1]>> /\ mstale = FALSE

Doing == mwork[Len(mwork)]
At(where) == mwork # <<>> /\ Doing.at = where
Continues(at, kept) == mwork' = [mwork EXCEPT ![Len(mwork)] = [at |-> at, kept |-> kept]]
Calling(callee) == Append(mwork, callee)
Leaving == SubSeq(mwork, 1, Len(mwork) - 1)

(* A read or a write through p, before anything the step reallocates.           *)
Uses(p) == mstale' = (mstale \/ p # mblock)

(* luaD_reallocstack in luaD_checkstack, or enough room.                        *)
Stays == UNCHANGED <<mblock, mtop, mbase, mci, mopen>>

(* As correctstack would be if it left out the open upvalues.                   *)
ReallocUpvalsStale ==
  /\ mblock < MaxBlocks /\ mblock' = mblock + 1
  /\ mtop' = mblock' /\ mbase' = mblock'
  /\ mci' = [k \in 1..Len(mci) |-> mblock']
  /\ UNCHANGED mopen

(* luaD_reallocstack and correctstack: the pointers move with the block.        *)
Realloc ==
  /\ mblock < MaxBlocks /\ mblock' = mblock + 1
  /\ mtop' = mblock' /\ mbase' = mblock'
  /\ mci' = [k \in 1..Len(mci) |-> mblock']
  /\ mopen' = [u \in StackUpvals |-> IF mopen[u] = 0 THEN 0 ELSE mblock']

Check == Stays \/ Realloc

(* luaV_execute: an instruction reads its registers from base, a local copy of  *)
(* L->base.  One that may call a metamethod hands the address of its result to  *)
(* callTMres; Protect reads base again afterwards.                              *)
Execute == /\ At("execute") /\ Uses(Doing.kept)
           /\ UNCHANGED mwork /\ Stays
ExecuteChecks == /\ At("execute") /\ Check /\ UNCHANGED mstale
                 /\ Continues("execute", mbase')
CallsMetamethod ==
  /\ At("execute") /\ Len(mwork) < MaxCalls
  /\ mwork' = Calling([at |-> "callTMres", kept |-> Doing.kept])
  /\ UNCHANGED mstale /\ Stays

(* As callTMres would be if it kept res itself across the call.                 *)
callTMresKeeps ==
  /\ At("callTMres") /\ Len(mwork) < MaxCalls
  /\ Check
  /\ mwork' = Append([mwork EXCEPT ![Len(mwork)] = [at |-> "result", kept |-> Doing.kept]],
                     [at |-> "precall", kept |-> mtop'])
  /\ Uses(mtop)

(* callTMres: res becomes a distance, the arguments are pushed, room is made,   *)
(* and luaD_call gets a pointer computed after that.                            *)
callTMres ==
  /\ At("callTMres") /\ Len(mwork) < MaxCalls
  /\ Check
  /\ mwork' = Append([mwork EXCEPT ![Len(mwork)] = [at |-> "result", kept |-> Distance]],
                     [at |-> "precall", kept |-> mtop'])
  /\ Uses(mtop)

(* luaD_precall: funcr, room for the frame, func restored; the new CallInfo,    *)
(* and the hook, which makes room too.  Then the function runs.                 *)
luaD_precall ==
  /\ At("precall") /\ Uses(Doing.kept)
  /\ Continues("enter", Distance)
  /\ Check
luaD_precallEnters ==
  /\ At("enter")
  /\ mci' = Append(mci, mblock) /\ mbase' = mblock
  /\ Uses(mblock)
  /\ \/ Continues("callhook", Distance) \/ Continues("execute", mblock)
  /\ UNCHANGED <<mblock, mtop, mopen>>

(* luaD_callhook: top and ci->top as distances; the hook is a C function.       *)
luaD_callhook_ == /\ At("callhook") /\ Check
                  /\ Continues("execute", mbase') /\ Uses(mtop)

(* Closures over a local open an upvalue (luaF_findupval); the function's end   *)
(* closes those of its frame (luaF_close reads through v).                      *)
OpensUpval(u) == /\ At("execute") /\ mopen[u] = 0
                 /\ mopen' = [mopen EXCEPT ![u] = mbase] /\ Uses(mbase)
                 /\ UNCHANGED <<mblock, mtop, mbase, mci, mwork>>
ReadsUpval(u) == /\ At("execute") /\ mopen[u] # 0 /\ Uses(mopen[u])
                 /\ UNCHANGED mwork /\ Stays
ClosesUpval(u) == /\ At("execute") /\ mopen[u] # 0 /\ Uses(mopen[u])
                  /\ mopen' = [mopen EXCEPT ![u] = 0]
                  /\ UNCHANGED <<mblock, mtop, mbase, mci, mwork>>

(* luaD_poscall: back to the caller's CallInfo and base.                        *)
luaD_poscall == /\ At("execute") /\ Len(mwork) > 1
                /\ mci' = SubSeq(mci, 1, Len(mci) - 1)
                /\ mbase' = mci[Len(mci) - 1] /\ Uses(mci[Len(mci)])
                /\ mwork' = Leaving
                /\ UNCHANGED <<mblock, mtop, mopen>>

(* callTMres after the call: restorestack, the store of the result, and the     *)
(* Protect of the instruction it served.                                        *)
Restored(kept) == IF kept = Distance THEN mblock ELSE kept
StoresResult ==
  /\ At("result") /\ Uses(Restored(Doing.kept))
  /\ mwork' = [Leaving EXCEPT ![Len(Leaving)] = [at |-> "execute", kept |-> mbase]]
  /\ Stays

(* An error: luaD_pcall's old_top and old_ci were distances; the frames and the *)
(* C functions above go, and a shorter stack may be allocated                   *)
(* (restore_stack_limit shrinks the CallInfos, traversestack the stack).        *)
Unwinds == \E k \in {k \in 1..(Len(mwork) - 1) : mwork[k].at = "result"} :
  /\ At("execute")
  /\ mwork' = [SubSeq(mwork, 1, k - 1) EXCEPT ![k - 1] = [at |-> "execute", kept |-> mci[k \div 2]]]
  /\ mci' = SubSeq(mci, 1, k \div 2)
  /\ mbase' = mci[k \div 2] /\ Uses(mci[k \div 2])
  /\ UNCHANGED <<mblock, mtop, mopen>>

StackNext == \/ Execute \/ ExecuteChecks \/ CallsMetamethod \/ callTMres \/ luaD_precall \/ luaD_precallEnters
             \/ luaD_callhook_ \/ luaD_poscall \/ StoresResult \/ Unwinds
             \/ \E u \in StackUpvals : OpensUpval(u) \/ ReadsUpval(u) \/ ClosesUpval(u)

StackSpec == StackInit /\ [][StackNext]_stackVars

(* No step reads or writes through a pointer into a block the stack has left.   *)
NoStalePointer == ~mstale
================================================================================
