----------------------------- MODULE MCLuaCall -----------------------------
(* Instances of LuaCall for TLC. *)
EXTENDS LuaCall, TLC

Symmetry == Permutations(Coroutines)

\* Left out is what no step and no property reads any more: the fields of a dead
\* coroutine, and the counters of a suspended one, which lua_setlevel and
\* lua_resume overwrite.
Relevant(th) ==
  LET t == thread[th]
  IN  IF OnStack(th) \/ th = Main THEN t
      ELSE IF CoStatus(th) = "dead" THEN [status |-> "dead"]
      ELSE [t EXCEPT !.ccalls = 0, !.base = 0]

View == <<[th \in Threads |-> Relevant(th)], cstack, doing>>
=============================================================================
