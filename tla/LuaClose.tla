-------------------------------- MODULE LuaClose -------------------------------
(* Finalizers and lua_close (lgc.c, lstate.c).  luaC_separateudata moves the    *)
(* userdata to be finalized to the end of the list tmudata; GCTM takes the      *)
(* first and calls its __gc, which may create userdata, collect garbage         *)
(* (another loop of GCTM inside this one), protect a call, or fail.  lua_close  *)
(* separates all of them and repeats until a pass leaves no error.              *)
EXTENDS Integers, Sequences, FiniteSets, SequencesExt

CONSTANTS MaxUdata     \* bound: userdata created

ASSUME CloseAssumption == MaxUdata \in Nat

Udata == 1..MaxUdata   \* numbered in the order they are created
GCLoop == 0              \* a loop of luaC_callGCTM or of luaC_fullgc, among the calls

VARIABLES cmade,       \* userdata created so far
          clist,       \* those not yet marked finalized, newest first (mainthread->next)
          cdead,       \* those the program no longer refers to
          ctm,         \* tmudata, from its first
          ccalls,      \* finalizers and loops in progress, with the allowhook each saved
          chook,       \* L->allowhook
          cphase,      \* "running", "closing", "freed"
          catclose,    \* history: userdata that had not been separated at lua_close
          cdone        \* history: the finalizers called, in order

closeVars == <<cmade, clist, cdead, ctm, ccalls, chook, cphase, catclose, cdone>>

CloseInit == /\ cmade = 0 /\ clist = <<>> /\ cdead = {} /\ ctm = <<>> /\ ccalls = <<>>
             /\ chook = TRUE /\ cphase = "running" /\ catclose = {} /\ cdone = <<>>

TopCall == ccalls[Len(ccalls)]
InFinalizer == ccalls # <<>> /\ TopCall.of # GCLoop
InLoop == ccalls # <<>> /\ TopCall.of = GCLoop
LuaRuns == InFinalizer \/ (ccalls = <<>> /\ cphase = "running")   \* Lua code runs
Outer == SubSeq(ccalls, 1, Len(ccalls) - 1)

(* luaS_newudata and lua_setmetatable with a __gc.                             *)
NewUdata == /\ LuaRuns /\ cmade < MaxUdata
            /\ cmade' = cmade + 1 /\ clist' = <<cmade + 1>> \o clist
            /\ UNCHANGED <<cdead, ctm, ccalls, chook, cphase, catclose, cdone>>

Forgotten(u) == /\ LuaRuns /\ u \in 1..cmade \ cdead
                /\ cdead' = cdead \cup {u}
                /\ UNCHANGED <<cmade, clist, ctm, ccalls, chook, cphase, catclose, cdone>>

(* luaC_separateudata: in list order, to the end of tmudata, each marked.      *)
Listed(which) ==
  LET upto[i \in 0..Len(clist)] == IF i = 0 THEN <<>>
                                   ELSE IF clist[i] \in which THEN Append(upto[i - 1], clist[i])
                                   ELSE upto[i - 1]
  IN  upto[Len(clist)]
Separate(which) == ctm' = ctm \o Listed(which) /\ clist' = Listed(Udata \ which)

(* luaC_fullgc: the dead are separated, then GCTM until none is left.           *)
Collect == /\ LuaRuns /\ Len(ccalls) < 5
           /\ Separate(cdead)
           /\ ccalls' = Append(ccalls, [of |-> GCLoop, allowhook |-> chook])
           /\ UNCHANGED <<cmade, cdead, chook, cphase, catclose, cdone>>

(* As GCTM would be if it took the userdata off the list after the call.        *)
GCTMKeeps ==
  /\ InLoop /\ ctm # <<>>
  /\ ccalls' = Append(ccalls, [of |-> Head(ctm), allowhook |-> chook])
  /\ chook' = FALSE
  /\ cdone' = Append(cdone, Head(ctm))
  /\ UNCHANGED <<cmade, clist, cdead, ctm, cphase, catclose>>

(* GCTM: the first leaves the list, hooks are off while its __gc runs.         *)
GCTM == /\ InLoop /\ ctm # <<>>
        /\ ctm' = Tail(ctm)
        /\ ccalls' = Append(ccalls, [of |-> Head(ctm), allowhook |-> chook])
        /\ chook' = FALSE
        /\ cdone' = Append(cdone, Head(ctm))
        /\ UNCHANGED <<cmade, clist, cdead, cphase, catclose>>

(* The __gc returns: GCTM restores the hooks.                                  *)
Finished == /\ InFinalizer
            /\ ccalls' = Outer /\ chook' = TopCall.allowhook
            /\ UNCHANGED <<cmade, clist, cdead, ctm, cphase, catclose, cdone>>

(* As lua_close would be without its loop: the first error ends it.             *)
FailedOnce ==
  /\ InFinalizer
  /\ \/ \E k \in 1..(Len(ccalls) - 1) : /\ ccalls[k].of # GCLoop
                                        /\ ccalls' = SubSeq(ccalls, 1, k)
                                        /\ chook' = FALSE
     \/ /\ cphase = "running" /\ ccalls' = <<>> /\ chook' = TRUE
     \/ /\ cphase = "closing" /\ ccalls' = <<>> /\ UNCHANGED chook
  /\ UNCHANGED <<cmade, clist, cdead, ctm, cphase, catclose, cdone>>

(* As luaD_pcall would be if it did not give allowhook back.                    *)
FailedNoHooks ==
  /\ InFinalizer
  /\ \/ \E k \in 1..(Len(ccalls) - 1) : /\ ccalls[k].of # GCLoop
                                        /\ ccalls' = SubSeq(ccalls, 1, k)
     \/ cphase = "running" /\ ccalls' = <<>>
     \/ cphase = "closing" /\ ccalls' = <<[of |-> GCLoop, allowhook |-> chook]>>
  /\ UNCHANGED <<cmade, clist, cdead, ctm, chook, cphase, catclose, cdone>>

(* It fails: the error leaves GCTM and every loop and finalizer up to a         *)
(* protected call, in a finalizer further out or in the program; luaD_pcall     *)
(* gives back the allowhook it found.  lua_close's luaD_rawrunprotected does    *)
(* not, and starts another pass.                                               *)
Failed ==
  /\ InFinalizer
  /\ \/ \E k \in 1..(Len(ccalls) - 1) : /\ ccalls[k].of # GCLoop
                                        /\ ccalls' = SubSeq(ccalls, 1, k)
                                        /\ chook' = FALSE
     \/ /\ cphase = "running" /\ ccalls' = <<>> /\ chook' = TRUE
     \/ /\ cphase = "closing"
        /\ ccalls' = <<[of |-> GCLoop, allowhook |-> chook]>> /\ UNCHANGED chook
  /\ UNCHANGED <<cmade, clist, cdead, ctm, cphase, catclose, cdone>>

(* A loop that finds tmudata empty ends; lua_close's then frees everything.     *)
LoopEnds == /\ InLoop /\ ctm = <<>>
            /\ ccalls' = Outer
            /\ cphase' = IF Outer = <<>> /\ cphase = "closing" THEN "freed" ELSE cphase
            /\ UNCHANGED <<cmade, clist, cdead, ctm, chook, catclose, cdone>>

(* As lua_close would be with luaC_separateudata(L, 0).                         *)
CloseDeadOnly ==
  /\ cphase = "running" /\ ccalls = <<>>
  /\ Separate(cdead)
  /\ catclose' = Range(clist) \cup Range(ctm)
  /\ cphase' = "closing" /\ ccalls' = <<[of |-> GCLoop, allowhook |-> chook]>>
  /\ UNCHANGED <<cmade, cdead, chook, cdone>>

(* lua_close, up to its first pass.  An earlier error may have left userdata    *)
(* in tmudata.                                                                 *)
lua_close ==
  /\ cphase = "running" /\ ccalls = <<>>
  /\ Separate(Udata)
  /\ catclose' = Range(clist) \cup Range(ctm)
  /\ cphase' = "closing" /\ ccalls' = <<[of |-> GCLoop, allowhook |-> chook]>>
  /\ UNCHANGED <<cmade, cdead, chook, cdone>>

CloseNext == \/ NewUdata \/ Collect \/ GCTM \/ Finished \/ Failed \/ LoopEnds \/ lua_close
             \/ \E u \in Udata : Forgotten(u)

(* The loops run; a finalizer, whatever it does, returns or fails in the end.   *)
CloseFairness == /\ WF_closeVars(GCTM \/ LoopEnds)
                 /\ SF_closeVars(Finished \/ Failed)
CloseSpec == CloseInit /\ [][CloseNext]_closeVars /\ CloseFairness

(* No finalizer is called twice, through loops inside finalizers and passes    *)
(* that an error cut short, and when the state is freed every userdata that    *)
(* existed when lua_close began has had its call.                              *)
FinalizedOnce ==
  /\ \A i, j \in 1..Len(cdone) : i # j => cdone[i] # cdone[j]
  /\ cphase = "freed" => catclose \subseteq Range(cdone)

(* Outside finalizers hooks are allowed again, although an error leaves GCTM   *)
(* before it restores them (lgc.c:467): the protected call that stops it does. *)
HooksComeBack == cphase = "running" /\ ccalls = <<>> => chook

(* lua_close ends even if every finalizer fails.                               *)
CloseEnds == cphase = "closing" ~> cphase = "freed"

(* What an error that leaves GCTM half way may not spoil.                      *)
FinalizersSafe == FinalizedOnce /\ HooksComeBack
================================================================================
