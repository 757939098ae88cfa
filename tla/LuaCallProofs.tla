---------------------------- MODULE LuaCallProofs ----------------------------
(***************************************************************************)
(* Every step of LuaCall keeps the invariant of LuaCallStack, and the      *)
(* properties that the runs check follow from it.                          *)
(***************************************************************************)
EXTENDS LuaCallStack

---------------------------------------------------------------------------
(* Activations *)

LEMMA RecordIs ==
  ASSUME NEW k \in Kinds, NEW th \in Threads, NEW n \in Nat, NEW c \in BOOLEAN, NEW o \in OldRecords
  PROVE  [kind |-> k, th |-> th, n |-> n, called |-> c, old |-> o] \in Records
BY DEF Records

LEMMA ActivationIs ==
  ASSUME Typed, NEW kind \in Kinds, NEW th \in Threads, NEW r, r = Activation(kind, th)
  PROVE  /\ r \in Records /\ r.kind = kind /\ r.th = th /\ ~ r.called /\ r.old.jmp = thread[th].jmp
         /\ kind \in Saves => r.old = Saved(thread[th])
<1>1. PICK x : x = thread[th]
  OBVIOUS
<1>2. x \in ThreadRecords
  BY <1>1 DEF Typed
<1>3. Saved(x) \in OldRecords /\ Saved(x).jmp = x.jmp
  <2>1. /\ Len(x.ci) \in Nat /\ x.ccalls \in Nat /\ x.errfunc \in ErrFuncs /\ x.allowhook \in BOOLEAN
        /\ x.jmp \in Nat
    <3>1. x.ci \in Seq(Functions) /\ x.ccalls \in 0..(MaxCcalls + Margin)
      BY <1>2 DEF ThreadRecords
    <3> QED BY <1>2, <3>1, CallAssumption DEF ThreadRecords
  <2> QED BY <2>1 DEF Saved, OldRecords
<1>4. [jmp |-> x.jmp] \in OldRecords /\ [jmp |-> x.jmp].jmp = x.jmp
  BY <1>2 DEF ThreadRecords, OldRecords
<1>5. PICK o : o = IF kind \in Saves THEN Saved(x) ELSE [jmp |-> x.jmp]
  OBVIOUS
<1>6. o \in OldRecords /\ o.jmp = x.jmp
  BY <1>3, <1>4, <1>5
<1>7. PICK c \in BOOLEAN : c = FALSE
  OBVIOUS
<1>8. r = [kind |-> kind, th |-> th, n |-> 0, called |-> c, old |-> o]
  BY <1>1, <1>5, <1>7 DEF Activation, Saves
<1>9. r \in Records
  <2>1. 0 \in Nat
    OBVIOUS
  <2> QED BY <1>6, <1>8, <2>1, RecordIs
<1>10. r.kind = kind /\ r.th = th /\ ~ r.called /\ r.old = o
  BY <1>7, <1>8
<1> QED BY <1>1, <1>5, <1>6, <1>9, <1>10

LEMMA BodyIs ==
  ASSUME Typed, NEW f \in Functions, NEW th \in Threads, NEW called \in BOOLEAN, NEW r, r = Body(f, th, called)
  PROVE  /\ r \in Records /\ r.kind = (IF f = "lua" THEN "execute" ELSE "cfunction") /\ r.th = th
         /\ (r.called <=> called) /\ (r.kind = "execute" => r.n = 1) /\ Own(r, th) = <<f>>
<1>1. PICK k : k = IF f = "lua" THEN "execute" ELSE "cfunction"
  OBVIOUS
<1>2. PICK q : q = Activation(k, th)
  OBVIOUS
<1>3. k \in Kinds
  BY <1>1 DEF Kinds
<1>4. q \in Records /\ q.kind = k /\ q.th = th
  BY <1>2, <1>3, ActivationIs
<1>5. PICK m : m = IF f = "lua" THEN 1 ELSE 0
  OBVIOUS
<1>6. m \in Nat
  BY <1>5
<1>7. r = [q EXCEPT !.n = m, !.called = called]
  BY <1>1, <1>2, <1>5 DEF Body
<1>8. q.old \in OldRecords
  BY <1>4 DEF Records
<1>9. r = [kind |-> k, th |-> th, n |-> m, called |-> called, old |-> q.old]
  BY <1>4, <1>7 DEF Records
<1>10. r \in Records
  BY <1>3, <1>6, <1>8, <1>9, RecordIs
<1>11. r.kind = k /\ r.th = th /\ (r.called <=> called) /\ r.n = m
  BY <1>9
<1>12. r.kind = "execute" => r.n = 1
  BY <1>1, <1>5, <1>11
<1>13. Own(r, th) = <<f>>
  <2>1. CASE f = "lua"
    <3>1. Own(r, th) = Lua(1)
      BY <1>1, <1>5, <1>11, <2>1, OwnIs
    <3>2. Lua(1) = <<"lua">>
      BY DEF Lua
    <3> QED BY <2>1, <3>1, <3>2
  <2>2. CASE f # "lua"
    <3>1. f = "c"
      BY <2>2 DEF Functions
    <3>2. Own(r, th) = <<"c">>
      BY <1>1, <1>11, <2>2, OwnIs
    <3> QED BY <3>1, <3>2
  <2> QED BY <2>1, <2>2
<1> QED BY <1>1, <1>10, <1>11, <1>12, <1>13

LEMMA UpdatedIs ==
  ASSUME NEW thr \in [Threads -> ThreadRecords], NEW a \in Threads, NEW y
  PROVE  Updated(thr, a, y, [thr EXCEPT ![a] = y])
BY DEF Updated

\* A step that changes the thread a to y.
LEMMA EffectInv ==
  ASSUME Typed, NEW a \in Threads, NEW y, Fits(y), NEW stk, stk \in Seq(Records), stk # <<>>,
         NEW dg \in Doings, Effect(a, y, stk, dg),
         \A thr2 : Updated(thread, a, y, thr2) => Good(stk, thr2, dg)
  PROVE  IInv'
<1>1. PICK thr2 : thr2 = [thread EXCEPT ![a] = y]
  OBVIOUS
<1>2. thread' = thr2 /\ cstack' = stk /\ doing' = dg
  BY <1>1 DEF Effect
<1>3. thread \in [Threads -> ThreadRecords] /\ (\A th \in Threads : Fits(thread[th])) /\ y \in ThreadRecords
  BY DEF Typed, Fits
<1>4. Updated(thread, a, y, thr2)
  BY <1>1, <1>3, UpdatedIs
<1>5. thr2 \in [Threads -> ThreadRecords]
  BY <1>1, <1>3
<1>6. \A th \in Threads : Fits(thr2[th])
  BY <1>3, <1>4 DEF Updated
<1>7. Good(stk, thr2, dg)
  BY <1>4
<1> QED BY <1>2, <1>5, <1>6, <1>7 DEF IInv, Typed

LEMMA AlikeSame == ASSUME NEW t PROVE Alike(t, t, t.ci)
BY DEF Alike

\* luaD_precall: the function is entered, or there is an error.
LEMMA PreCallInv ==
  ASSUME Typed, NEW a \in Threads, NEW t, Fits(t), NEW stk0, stk0 \in Seq(Records), stk0 # <<>>,
         NEW stk, stk \in Seq(Records), stk # <<>>, NEW f \in Functions,
         \A y, thr2 : Alike(y, t, t.ci) /\ Updated(thread, a, y, thr2)
                        => Good(stk0, thr2, "errerr") /\ Good(stk0, thr2, "error"),
         \A y, thr2 : Alike(y, t, Append(t.ci, f)) /\ Updated(thread, a, y, thr2) => Good(stk, thr2, "run"),
         PreCall(a, t, stk0, stk, f)
  PROVE  IInv'
<1> DEFINE grown == [t EXCEPT !.size = 2 * t.size]
           entered(u) == [u EXCEPT !.ci = Append(u.ci, f)]
<1>1. t \in ThreadRecords /\ Len(t.ci) < t.size /\ t.size <= 2 * MaxCalls /\ t.size \in Nat /\ t.ci \in Seq(Functions)
      /\ Len(t.ci) \in Nat /\ MaxCalls \in Nat
  BY CallAssumption DEF Fits, ThreadRecords
<1>2. grown \in ThreadRecords /\ Alike(grown, t, t.ci) /\ grown.size = 2 * t.size /\ grown.ci = t.ci
  <2>1. \A m \in Nat : /\ [t EXCEPT !.size = m] \in ThreadRecords /\ Alike([t EXCEPT !.size = m], t, t.ci)
                       /\ [t EXCEPT !.size = m].size = m /\ [t EXCEPT !.size = m].ci = t.ci
    BY <1>1 DEF ThreadRecords, Alike
  <2>2. 2 * t.size \in Nat
    BY <1>1
  <2> QED BY <2>1, <2>2
<1>3. ASSUME NEW u \in ThreadRecords, Alike(u, t, t.ci), u.ci = t.ci
      PROVE  /\ entered(u) \in ThreadRecords /\ Alike(entered(u), t, Append(t.ci, f))
             /\ entered(u).size = u.size /\ entered(u).ci = Append(t.ci, f)
  <2>1. \A c \in Seq(Functions) : /\ [u EXCEPT !.ci = c] \in ThreadRecords /\ Alike([u EXCEPT !.ci = c], t, c)
                                  /\ [u EXCEPT !.ci = c].size = u.size /\ [u EXCEPT !.ci = c].ci = c
    BY <1>3 DEF ThreadRecords, Alike
  <2>2. Append(t.ci, f) \in Seq(Functions)
    BY <1>1
  <2> QED BY <1>3, <2>1, <2>2
<1>4. Len(Append(t.ci, f)) = Len(t.ci) + 1
  BY <1>1
<1>5. "run" \in Doings /\ "error" \in Doings /\ "errerr" \in Doings
  BY DEF Doings
<1>6. PreCall(a, t, stk0, stk, f) <=>
        IF Len(t.ci) < t.size - 1 THEN Effect(a, entered(t), stk, "run")
        ELSE IF t.size > MaxCalls THEN Effect(a, t, stk0, "errerr")
        ELSE IF grown.size > MaxCalls THEN Effect(a, grown, stk0, "error")
        ELSE Effect(a, entered(grown), stk, "run")
  BY DEF PreCall
<1> HIDE DEF grown, entered
<1>7. CASE Len(t.ci) < t.size - 1
  <2>1. PICK y : y = entered(t)
    OBVIOUS
  <2>2. Effect(a, y, stk, "run")
    BY <1>6, <1>7, <2>1
  <2>3. Fits(y) /\ Alike(y, t, Append(t.ci, f))
    BY <1>1, <1>3, <1>4, <1>7, <2>1, AlikeSame DEF Fits
  <2>4. \A thr2 : Updated(thread, a, y, thr2) => Good(stk, thr2, "run")
    BY <2>3
  <2> QED BY <1>5, <2>2, <2>3, <2>4, EffectInv
<1>8. CASE ~ (Len(t.ci) < t.size - 1) /\ t.size > MaxCalls
  <2>1. Effect(a, t, stk0, "errerr")
    BY <1>6, <1>8
  <2>2. \A thr2 : Updated(thread, a, t, thr2) => Good(stk0, thr2, "errerr")
    BY AlikeSame
  <2> QED BY <1>5, <2>1, <2>2, EffectInv
<1>9. CASE ~ (Len(t.ci) < t.size - 1) /\ ~ (t.size > MaxCalls) /\ grown.size > MaxCalls
  <2>1. PICK y : y = grown
    OBVIOUS
  <2>2. Effect(a, y, stk0, "error")
    BY <1>6, <1>9, <2>1
  <2>3. Fits(y) /\ Alike(y, t, t.ci)
    BY <1>1, <1>2, <1>9, <2>1 DEF Fits
  <2>4. \A thr2 : Updated(thread, a, y, thr2) => Good(stk0, thr2, "error")
    BY <2>3
  <2> QED BY <1>5, <2>2, <2>3, <2>4, EffectInv
<1>10. CASE ~ (Len(t.ci) < t.size - 1) /\ ~ (t.size > MaxCalls) /\ ~ (grown.size > MaxCalls)
  <2>1. PICK y : y = entered(grown)
    OBVIOUS
  <2>2. Effect(a, y, stk, "run")
    BY <1>6, <1>10, <2>1
  <2>3. Fits(y) /\ Alike(y, t, Append(t.ci, f))
    <3>1. y \in ThreadRecords /\ Alike(y, t, Append(t.ci, f)) /\ y.size = grown.size /\ y.ci = Append(t.ci, f)
      BY <1>2, <1>3, <2>1
    <3>2. Len(y.ci) < y.size /\ y.size <= 2 * MaxCalls
      <4>1. y.size = 2 * t.size /\ t.size <= MaxCalls /\ Len(t.ci) < t.size /\ Len(y.ci) = Len(t.ci) + 1
        BY <1>1, <1>2, <1>4, <1>10, <3>1
      <4>2. t.size \in Nat /\ Len(t.ci) \in Nat /\ MaxCalls \in Nat
        BY <1>1
      <4> QED BY ONLY <4>1, <4>2
    <3> QED BY <3>1, <3>2 DEF Fits
  <2>4. \A thr2 : Updated(thread, a, y, thr2) => Good(stk, thr2, "run")
    BY <2>3
  <2> QED BY <1>5, <2>2, <2>3, <2>4, EffectInv
<1> QED BY <1>7, <1>8, <1>9, <1>10

\* luaD_call, made by a thread that has become t, with the C stack stk.
LEMMA CallInv ==
  ASSUME Typed, NEW a \in Threads, NEW t, Fits(t), t.status = "ok",
         NEW stk, stk \in Seq(Records), stk # <<>>, a = stk[Len(stk)].th, NEW f \in Functions,
         \A thr1 : Updated(thread, a, t, thr1) => Good(stk, thr1, "run"), Call(a, t, stk, f)
  PROVE  IInv'
<1>1. PICK thr1 : Updated(thread, a, t, thr1) /\ thr1[a] = t
  <2>1. PICK thr2 : thr2 = [thread EXCEPT ![a] = t]
    OBVIOUS
  <2>2. Updated(thread, a, t, thr2)
    BY <2>1, UpdatedIs DEF Typed
  <2> QED BY <2>2 DEF Updated
<1>2. Good(stk, thr1, "run")
  BY <1>1
<1>3. t \in ThreadRecords /\ t.ci \in Seq(Functions) /\ t.ccalls \in Nat /\ Len(t.ci) < t.size
      /\ t.size <= 2 * MaxCalls /\ MaxCcalls \in Nat \ {0} /\ Margin \in Nat \ {0}
  BY CallAssumption DEF Fits, ThreadRecords
<1>4. t.ccalls < MaxCcalls + Margin
  <2>1. PICK n : n = Len(stk)
    OBVIOUS
  <2>2. PICK d, e : Core(stk, n, d, e, thr1, "run")
    BY <1>2, <2>1 DEF Good
  <2>3. TopOK(stk, n, d, e, a, t, "run")
    BY <1>1, <2>2 DEF Core, ThreadOK
  <2> QED BY <2>1, <2>3 DEF TopOK
<1>5. PICK c : c = t.ccalls + 1
  OBVIOUS
<1>6. PICK u : u = [t EXCEPT !.ccalls = c]
  OBVIOUS
<1>7. /\ u \in ThreadRecords /\ u.status = t.status /\ u.ci = t.ci /\ u.ccalls = c /\ u.base = t.base
      /\ u.errfunc = t.errfunc /\ u.allowhook = t.allowhook /\ u.jmp = t.jmp /\ u.size = t.size
  <2>1. c \in 0..(MaxCcalls + Margin)
    BY <1>3, <1>4, <1>5
  <2> QED BY <1>3, <1>6, <2>1 DEF ThreadRecords
<1>8. Fits(u)
  BY <1>3, <1>7 DEF Fits
<1>9. ASSUME NEW y, NEW thr2, Updated(thread, a, y, thr2) PROVE Updated(thr1, a, y, thr2)
  BY <1>1, <1>9 DEF Updated
<1>10. ASSUME NEW y, Alike(y, u, u.ci), NEW thr2, Updated(thread, a, y, thr2), NEW dg2,
              dg2 \in {"error", "errerr"}, dg2 = "error" => c < MaxCcalls + Margin
       PROVE  Good(stk, thr2, dg2)
  <2>1. /\ y.status = t.status /\ y.ci = t.ci /\ y.ccalls = t.ccalls + 1 /\ y.base = t.base
        /\ y.errfunc = t.errfunc /\ y.allowhook = t.allowhook /\ y.jmp = t.jmp
    BY <1>5, <1>7, <1>10 DEF Alike
  <2>2. Updated(thr1, a, y, thr2)
    BY <1>9, <1>10
  <2>3. /\ t = thr1[a] /\ "run" \in {"run", "error"} /\ dg2 \in {"error", "errrun", "errmem", "errerr"}
        /\ (dg2 = "error" => y.ccalls < MaxCcalls + Margin)
        /\ (y.ccalls = t.ccalls \/ ("run" = "run" /\ y.ccalls = t.ccalls + 1))
    BY <1>1, <1>5, <1>10, <2>1
  <2>4. stk \in Seq(Records) /\ stk # <<>> /\ a \in Threads /\ a = stk[Len(stk)].th /\ t.status = "ok"
    OBVIOUS
  <2> QED BY ONLY <1>2, <1>3, <2>1, <2>2, <2>3, <2>4, GoodDoing
<1>11. "error" \in Doings /\ "errerr" \in Doings
  BY DEF Doings
<1>12. PICK q \in BOOLEAN : q = TRUE
  OBVIOUS
<1>13. PICK r : r = Body(f, a, q)
  OBVIOUS
<1>14. PICK s1 : s1 = Append(stk, r)
  OBVIOUS
<1>15. IF c = MaxCcalls THEN Effect(a, u, stk, "error")
       ELSE IF c >= MaxCcalls + Margin THEN Effect(a, u, stk, "errerr")
       ELSE PreCall(a, u, stk, s1, f)
  BY <1>5, <1>6, <1>7, <1>12, <1>13, <1>14 DEF Call
<1>16. CASE c = MaxCcalls
  <2>1. Effect(a, u, stk, "error")
    BY <1>15, <1>16
  <2>2. c < MaxCcalls + Margin
    BY <1>3, <1>16
  <2>3. \A thr2 : Updated(thread, a, u, thr2) => Good(stk, thr2, "error")
    BY <1>10, <2>2, AlikeSame
  <2> QED BY <1>8, <1>11, <2>1, <2>3, EffectInv
<1>17. CASE c # MaxCcalls /\ c >= MaxCcalls + Margin
  <2>1. Effect(a, u, stk, "errerr")
    BY <1>15, <1>17
  <2>2. \A thr2 : Updated(thread, a, u, thr2) => Good(stk, thr2, "errerr")
    BY <1>10, AlikeSame
  <2> QED BY <1>8, <1>11, <2>1, <2>2, EffectInv
<1>18. CASE c # MaxCcalls /\ ~ (c >= MaxCcalls + Margin)
  <2>1. PreCall(a, u, stk, s1, f)
    BY <1>15, <1>18
  <2>2. c < MaxCcalls + Margin
    BY <1>3, <1>5, <1>18
  <2>3. \A y, thr2 : Alike(y, u, u.ci) /\ Updated(thread, a, y, thr2)
                       => Good(stk, thr2, "errerr") /\ Good(stk, thr2, "error")
    BY <1>10, <2>2
  <2>4. /\ r \in Records /\ r.kind \in {"execute", "cfunction"} /\ r.th = a /\ r.called
        /\ (r.kind = "execute" => r.n = 1) /\ Own(r, a) = <<f>>
    <3>1. Typed /\ f \in Functions /\ a \in Threads /\ q \in BOOLEAN
      OBVIOUS
    <3>2. /\ r \in Records /\ r.kind = (IF f = "lua" THEN "execute" ELSE "cfunction") /\ r.th = a
          /\ (r.called <=> q) /\ (r.kind = "execute" => r.n = 1) /\ Own(r, a) = <<f>>
      BY ONLY <1>13, <3>1, BodyIs
    <3> QED BY <1>12, <3>2
  <2>5. s1 \in Seq(Records) /\ s1 # <<>>
    BY <1>14, <2>4, Pushed
  <2>6. ASSUME NEW y, Alike(y, u, Append(u.ci, f)), NEW thr2, Updated(thread, a, y, thr2)
        PROVE  Good(s1, thr2, "run")
    <3>1. /\ y.status = t.status /\ y.base = t.base /\ y.errfunc = t.errfunc /\ y.allowhook = t.allowhook
          /\ y.jmp = t.jmp
      BY <1>7, <2>6 DEF Alike
    <3>2. y.ci = t.ci \o Own(r, a)
      <4>1. y.ci = Append(t.ci, f)
        BY <1>7, <2>6 DEF Alike
      <4>2. Append(t.ci, f) = t.ci \o <<f>>
        BY <1>3
      <4> QED BY <2>4, <4>1, <4>2
    <3>3. y.ccalls = t.ccalls + (IF r.called THEN 1 ELSE 0) /\ y.ccalls < MaxCcalls + Margin
      BY <1>5, <1>7, <2>2, <2>4, <2>6 DEF Alike
    <3>4. Updated(thr1, a, y, thr2)
      BY <1>9, <2>6
    <3>5. (r.kind = "execute" => r.n >= 1) /\ t = thr1[a] /\ stk \in Seq(Records) /\ stk # <<>>
          /\ a \in Threads /\ a = stk[Len(stk)].th /\ t.status = "ok"
          /\ (~ r.called => \/ r.kind = "execute" /\ stk[Len(stk)].kind = "resume"
                            \/ r.kind = "cfunction" /\ stk[Len(stk)].kind = "execute")
      BY <1>1, <2>4
    <3>6. Good(Append(stk, r), thr2, "run")
      BY ONLY <1>2, <1>3, <2>4, <3>1, <3>2, <3>3, <3>4, <3>5, GoodBody
    <3> QED BY <1>14, <3>6
  <2> QED BY <1>8, <2>1, <2>3, <2>5, <2>6, PreCallInv
<1> QED BY <1>16, <1>17, <1>18

---------------------------------------------------------------------------
(* The thread that runs *)

LEMMA Running ==
  ASSUME IInv, doing # "exit", NEW a, a = L, NEW x, x = thread[a], NEW r, r = Top
  PROVE  /\ Typed /\ Good(cstack, thread, doing) /\ cstack \in Seq(Records) /\ cstack # <<>>
         /\ a \in Threads /\ a = cstack[Len(cstack)].th /\ Len(cstack) \in Nat \ {0}
         /\ x \in ThreadRecords /\ Fits(x) /\ x.ci \in Seq(Functions) /\ x.ccalls \in Nat
         /\ r = cstack[Len(cstack)] /\ r \in Records /\ r.th = a /\ doing \in Doings
         /\ x.status \in {"ok", "yield"}
         /\ r.kind # "resume" \/ doing # "run" => x.status = "ok"
         /\ doing \in {"run", "error"} => x.ccalls < MaxCcalls + Margin
<1>1. PICK s, n : s = cstack /\ n = Len(s)
  OBVIOUS
<1>2. PICK thr, dg : thr = thread /\ dg = doing
  OBVIOUS
<1>3. s \in Seq(Records) /\ s # <<>> /\ Typed /\ Good(s, thr, dg) /\ dg \in Doings
  BY <1>1, <1>2 DEF IInv, Typed
<1>4. n \in Nat \ {0} /\ s[n] \in Records /\ r = s[n] /\ a = s[n].th
  BY <1>1, <1>3, EmptySeq, ElementOfSeq DEF L, Top
<1>5. a \in Threads
  BY <1>4 DEF Records
<1>6. x \in ThreadRecords /\ Fits(x) /\ x = thr[a]
  BY <1>2, <1>5 DEF IInv, Typed
<1>7. x.ci \in Seq(Functions) /\ x.ccalls \in Nat
  BY <1>6, CallAssumption DEF ThreadRecords
<1>8. PICK d, e : Core(s, n, d, e, thr, dg)
  BY <1>1, <1>3 DEF Good
<1>9. /\ ThreadOK(s, n, d, e, s[n].th, thr[s[n].th], dg)
      /\ thr[s[n].th].status \in {"ok", "yield"}
      /\ s[n].kind # "resume" \/ dg # "run" => thr[s[n].th].status = "ok"
  <2>1. s[n].th \in Threads /\ dg # "exit" /\ n \in Nat \ {0}
    BY <1>2, <1>4, <1>5
  <2> QED BY ONLY <1>8, <2>1, TopThread
<1>10. TopOK(s, n, d, e, a, x, dg)
  BY <1>2, <1>4, <1>6, <1>9 DEF ThreadOK
<1>11. dg \in {"run", "error"} => x.ccalls < MaxCcalls + Margin
  BY <1>4, <1>10 DEF TopOK
<1>12. x.status \in {"ok", "yield"} /\ (r.kind # "resume" \/ dg # "run" => x.status = "ok")
  BY <1>4, <1>6, <1>9
<1> QED BY <1>1, <1>2, <1>3, <1>4, <1>5, <1>6, <1>7, <1>11, <1>12

\* An error leaves the stack and the thread, but perhaps for the space of its CallInfos.
LEMMA Raised ==
  ASSUME IInv, doing \in {"run", "error"}, NEW a, a = L, NEW x, x = thread[a], x.status = "ok",
         NEW y, Alike(y, x, x.ci), NEW thr2, Updated(thread, a, y, thr2),
         NEW dg2, dg2 \in {"error", "errrun", "errmem", "errerr"}
  PROVE  Good(cstack, thr2, dg2)
<1>1. PICK s, thr, dg : s = cstack /\ thr = thread /\ dg = doing
  OBVIOUS
<1>2. PICK r : r = Top
  OBVIOUS
<1>3. /\ Good(s, thr, dg) /\ s \in Seq(Records) /\ s # <<>> /\ a \in Threads /\ a = s[Len(s)].th
      /\ x \in ThreadRecords /\ x.ccalls < MaxCcalls + Margin
  <2>1. doing # "exit"
    OBVIOUS
  <2> QED BY <1>1, <1>2, <2>1, Running
<1>4. /\ x = thr[a] /\ x.status = "ok" /\ dg \in {"run", "error"} /\ Updated(thr, a, y, thr2)
      /\ dg2 \in {"error", "errrun", "errmem", "errerr"}
  BY <1>1
<1>5. /\ y.ci = x.ci /\ (y.ccalls = x.ccalls \/ (dg = "run" /\ y.ccalls = x.ccalls + 1))
      /\ y.status = x.status /\ y.base = x.base /\ y.errfunc = x.errfunc /\ y.allowhook = x.allowhook
      /\ y.jmp = x.jmp /\ (dg2 = "error" => y.ccalls < MaxCcalls + Margin)
  BY <1>3 DEF Alike
<1>6. Good(s, thr2, dg2)
  BY ONLY <1>3, <1>4, <1>5, GoodDoing
<1> QED BY <1>1, <1>6

---------------------------------------------------------------------------
(* OP_CALL and OP_TAILCALL *)

WithTop(s, m) == [s EXCEPT ![Len(s)].n = m]

LEMMA TopIs ==
  ASSUME NEW s \in Seq(Records), s # <<>>, NEW m \in Nat, NEW t, t = WithTop(s, m)
  PROVE  /\ t \in Seq(Records) /\ t # <<>> /\ Len(t) = Len(s) /\ Same(s, t, Len(s) - 1)
         /\ t[Len(s)].kind = s[Len(s)].kind /\ t[Len(s)].th = s[Len(s)].th
         /\ (t[Len(s)].called <=> s[Len(s)].called) /\ t[Len(s)].n = m
<1>1. PICK n : n = Len(s)
  OBVIOUS
<1>2. n \in Nat \ {0} /\ s[n] \in Records /\ DOMAIN s = 1..n /\ n \in 1..n
  BY <1>1, EmptySeq, ElementOfSeq
<1>3. PICK r : r = s[n]
  OBVIOUS
<1>4. PICK q : q = [r EXCEPT !.n = m]
  OBVIOUS
<1>5. /\ q \in Records /\ q.kind = r.kind /\ q.th = r.th /\ (q.called <=> r.called) /\ q.n = m
  BY <1>2, <1>3, <1>4 DEF Records
<1>6. t = [s EXCEPT ![n] = q]
  BY <1>1, <1>3, <1>4 DEF WithTop
<1>7. t \in Seq(Records) /\ Len(t) = n /\ t[n] = q /\ \A i \in 1..(n - 1) : t[i] = s[i]
  BY <1>1, <1>2, <1>5, <1>6
<1>8. t # <<>>
  BY <1>2, <1>7
<1> QED BY <1>1, <1>3, <1>5, <1>7, <1>8 DEF Same

LEMMA OpCallInv == ASSUME IInv, NEW f \in Functions, OpCall(f) PROVE IInv'
<1>1. PICK s, thr : s = cstack /\ thr = thread
  OBVIOUS
<1>2. PICK a, x, r : a = L /\ x = thread[a] /\ r = Top
  OBVIOUS
<1>3. doing = "run" /\ r.kind = "execute"
  BY <1>2 DEF OpCall, InLua
<1>4. /\ Typed /\ Good(s, thr, "run") /\ s \in Seq(Records) /\ s # <<>> /\ a \in Threads /\ a = s[Len(s)].th
      /\ x \in ThreadRecords /\ Fits(x) /\ r = s[Len(s)] /\ r \in Records /\ x.status = "ok" /\ x = thr[a]
      /\ x.ci \in Seq(Functions) /\ x.ccalls < MaxCcalls + Margin /\ x.ccalls \in Nat
  BY <1>1, <1>2, <1>3, Running
<1>5. PICK m : m = r.n + 1
  OBVIOUS
<1>6. PICK q \in BOOLEAN : q = FALSE
  OBVIOUS
<1>7. PICK b : b = Body(f, a, q)
  OBVIOUS
<1>8. PICK s1 : s1 = IF f = "lua" THEN WithTop(s, m) ELSE Append(s, b)
  OBVIOUS
<1>9. PreCall(a, x, s, s1, f)
  <2>1. [cstack EXCEPT ![Len(cstack)].n = @ + 1] = WithTop(s, m)
    <3>1. [cstack EXCEPT ![Len(cstack)].n = @ + 1] = [s EXCEPT ![Len(s)].n = s[Len(s)].n + 1]
      BY <1>1
    <3> QED BY <1>4, <1>5, <3>1 DEF WithTop
  <2> QED BY <1>1, <1>2, <1>6, <1>7, <1>8, <2>1 DEF OpCall
<1>10. \A y, thr2 : Alike(y, x, x.ci) /\ Updated(thread, a, y, thr2)
                      => Good(s, thr2, "errerr") /\ Good(s, thr2, "error")
  BY <1>1, <1>2, <1>3, <1>4, Raised
<1>11. m \in Nat /\ m >= 1
  BY <1>4, <1>5 DEF Records
<1>12. CASE f = "lua"
  <2>1. /\ s1 \in Seq(Records) /\ s1 # <<>> /\ Len(s1) = Len(s) /\ Same(s, s1, Len(s) - 1)
        /\ s1[Len(s)].kind = s[Len(s)].kind /\ s1[Len(s)].th = s[Len(s)].th
        /\ (s1[Len(s)].called <=> s[Len(s)].called) /\ s1[Len(s)].n = m
    <3>1. s1 = WithTop(s, m) /\ s \in Seq(Records) /\ s # <<>> /\ m \in Nat
      BY <1>4, <1>8, <1>11, <1>12
    <3> QED BY ONLY <3>1, TopIs
  <2>2. ASSUME NEW y, Alike(y, x, Append(x.ci, f)), NEW thr2, Updated(thread, a, y, thr2)
        PROVE  Good(s1, thr2, "run")
    <3>1. PICK n, ci : n = Len(s) /\ ci = Append(x.ci, f)
      OBVIOUS
    <3>2. Reframed(s, s1, n, x, ci)
      BY <1>3, <1>4, <1>5, <1>11, <1>12, <2>1, <3>1 DEF Reframed
    <3>3. Alike(y, x, ci) /\ Updated(thr, a, y, thr2)
      BY <1>1, <2>2, <3>1
    <3> QED BY ONLY <1>4, <2>1, <3>2, <3>3, GoodTop
  <2> QED BY <1>4, <1>9, <1>10, <2>1, <2>2, PreCallInv
<1>13. CASE f # "lua"
  <2>1. /\ b \in Records /\ b.kind = "cfunction" /\ b.th = a /\ ~ b.called /\ Own(b, a) = <<f>>
    <3>1. Typed /\ f \in Functions /\ a \in Threads /\ q \in BOOLEAN
      BY <1>4
    <3>2. /\ b \in Records /\ b.kind = (IF f = "lua" THEN "execute" ELSE "cfunction") /\ b.th = a
          /\ (b.called <=> q) /\ Own(b, a) = <<f>>
      BY ONLY <1>7, <3>1, BodyIs
    <3> QED BY <1>6, <1>13, <3>2
  <2>2. s1 \in Seq(Records) /\ s1 # <<>> /\ s1 = Append(s, b)
    BY <1>4, <1>8, <1>13, <2>1, Pushed
  <2>3. ASSUME NEW y, Alike(y, x, Append(x.ci, f)), NEW thr2, Updated(thread, a, y, thr2)
        PROVE  Good(s1, thr2, "run")
    <3>1. /\ y.status = x.status /\ y.base = x.base /\ y.errfunc = x.errfunc /\ y.allowhook = x.allowhook
          /\ y.jmp = x.jmp
      BY <2>3 DEF Alike
    <3>2. y.ci = x.ci \o Own(b, a)
      <4>1. y.ci = Append(x.ci, f)
        BY <2>3 DEF Alike
      <4>2. Append(x.ci, f) = x.ci \o <<f>>
        <5>1. x.ci \in Seq(Functions) /\ f \in Functions
          BY <1>4
        <5> QED BY ONLY <5>1, FrontIs
      <4> QED BY <2>1, <4>1, <4>2
    <3>3. y.ccalls = x.ccalls + (IF b.called THEN 1 ELSE 0) /\ y.ccalls < MaxCcalls + Margin
      <4>1. y.ccalls = x.ccalls
        BY ONLY <2>3 DEF Alike
      <4> QED BY <1>4, <2>1, <4>1
    <3>4. Updated(thr, a, y, thr2)
      BY <1>1, <2>3
    <3>5. /\ (b.kind = "execute" => b.n >= 1) /\ b.kind \in {"execute", "cfunction"}
          /\ (~ b.called => \/ b.kind = "execute" /\ s[Len(s)].kind = "resume"
                            \/ b.kind = "cfunction" /\ s[Len(s)].kind = "execute")
      BY <1>3, <1>4, <2>1
    <3>6. Good(Append(s, b), thr2, "run")
      BY ONLY <1>4, <2>1, <3>1, <3>2, <3>3, <3>4, <3>5, GoodBody
    <3> QED BY <2>2, <3>6
  <2> QED BY <1>4, <1>9, <1>10, <2>2, <2>3, PreCallInv
<1> QED BY <1>12, <1>13

LEMMA OpTailCallInv == ASSUME IInv, OpTailCall PROVE IInv'
<1>1. PICK s, thr : s = cstack /\ thr = thread
  OBVIOUS
<1>2. PICK a, x, r : a = L /\ x = thread[a] /\ r = Top
  OBVIOUS
<1>3. doing = "run" /\ r.kind = "execute"
  BY <1>2 DEF OpTailCall, InLua
<1>4. /\ Typed /\ Good(s, thr, "run") /\ s \in Seq(Records) /\ s # <<>> /\ a \in Threads
      /\ x \in ThreadRecords /\ Fits(x) /\ x.status = "ok" /\ x = thr[a]
  BY <1>1, <1>2, <1>3, Running
<1>5. PICK grown : grown = [x EXCEPT !.size = 2 * @]
  OBVIOUS
<1>6. x.size \in Nat /\ MaxCalls \in Nat /\ Len(x.ci) < x.size /\ x.size <= 2 * MaxCalls /\ Len(x.ci) \in Nat
  BY <1>4, CallAssumption DEF Fits, ThreadRecords
<1>7. grown \in ThreadRecords /\ Alike(grown, x, x.ci) /\ grown.size = 2 * x.size /\ grown.ci = x.ci
  <2>1. \A m \in Nat : /\ [x EXCEPT !.size = m] \in ThreadRecords /\ Alike([x EXCEPT !.size = m], x, x.ci)
                       /\ [x EXCEPT !.size = m].size = m /\ [x EXCEPT !.size = m].ci = x.ci
    BY <1>4 DEF ThreadRecords, Alike
  <2>2. 2 * x.size \in Nat /\ grown = [x EXCEPT !.size = 2 * x.size]
    BY <1>5, <1>6
  <2> QED BY <2>1, <2>2
<1>8. Alike(x, x, x.ci)
  BY AlikeSame
<1>9. IF Len(x.ci) < x.size - 1 THEN Effect(a, x, s, "run")
      ELSE IF x.size > MaxCalls THEN Effect(a, x, s, "errerr")
      ELSE Effect(a, grown, s, IF grown.size > MaxCalls THEN "error" ELSE "run")
  BY <1>1, <1>2, <1>5 DEF OpTailCall
<1>10. \E y, dg : /\ Effect(a, y, s, dg) /\ Fits(y) /\ Alike(y, x, x.ci)
                  /\ dg \in {"run", "error", "errerr"}
  <2>1. x.size <= MaxCalls => Fits(grown)
    BY <1>6, <1>7 DEF Fits
  <2>2. CASE Len(x.ci) < x.size - 1
    BY <1>4, <1>8, <1>9, <2>2
  <2>3. CASE ~ (Len(x.ci) < x.size - 1) /\ x.size > MaxCalls
    BY <1>4, <1>8, <1>9, <2>3
  <2>4. CASE ~ (Len(x.ci) < x.size - 1) /\ ~ (x.size > MaxCalls)
    <3>1. PICK dg : dg = IF grown.size > MaxCalls THEN "error" ELSE "run"
      OBVIOUS
    <3>2. Effect(a, grown, s, dg) /\ dg \in {"run", "error", "errerr"}
      BY <1>9, <2>4, <3>1
    <3>3. x.size <= MaxCalls
      BY <1>6, <2>4
    <3> QED BY <1>7, <2>1, <3>2, <3>3
  <2> QED BY <2>2, <2>3, <2>4
<1>11. PICK y, dg : /\ Effect(a, y, s, dg) /\ Fits(y) /\ Alike(y, x, x.ci)
                    /\ dg \in {"run", "error", "errerr"}
  BY <1>10
<1>12. ASSUME NEW thr2, Updated(thread, a, y, thr2) PROVE Good(s, thr2, dg)
  <2>1. CASE dg = "run"
    <3>1. /\ y.status = x.status /\ y.ci = x.ci /\ y.base = x.base /\ y.errfunc = x.errfunc
          /\ y.allowhook = x.allowhook /\ y.jmp = x.jmp /\ y.ccalls = x.ccalls
      BY <1>11 DEF Alike
    <3>2. Updated(thr, a, y, thr2)
      BY <1>1, <1>12
    <3>3. Good(s, thr2, "run")
      BY ONLY <1>4, <3>1, <3>2, GoodOther
    <3> QED BY <2>1, <3>3
  <2>2. CASE dg # "run"
    <3>1. dg \in {"error", "errrun", "errmem", "errerr"}
      BY <1>11, <2>2
    <3> QED BY <1>1, <1>2, <1>3, <1>4, <1>11, <1>12, <3>1, Raised
  <2> QED BY <2>1, <2>2
<1>13. dg \in Doings
  BY <1>11 DEF Doings
<1> QED BY <1>4, <1>11, <1>12, <1>13, EffectInv

---------------------------------------------------------------------------
(* Calls that are made by luaD_call *)

LEMMA DCallInv == ASSUME IInv, NEW f \in Functions, DCall(f) PROVE IInv'
<1>1. PICK s, thr : s = cstack /\ thr = thread
  OBVIOUS
<1>2. PICK a, x, r : a = L /\ x = thread[a] /\ r = Top
  OBVIOUS
<1>3. doing = "run" /\ r.kind # "resume" /\ Call(a, x, s, f)
  BY <1>1, <1>2 DEF DCall, InLua, InC
<1>4. /\ Typed /\ Good(s, thr, "run") /\ s \in Seq(Records) /\ s # <<>> /\ a \in Threads
      /\ Fits(x) /\ x.status = "ok" /\ x = thr[a] /\ a = s[Len(s)].th
  BY <1>1, <1>2, <1>3, Running
<1>5. ASSUME NEW thr1, Updated(thread, a, x, thr1) PROVE Good(s, thr1, "run")
  <2>1. PICK y : y = x
    OBVIOUS
  <2>2. /\ y.status = x.status /\ y.ci = x.ci /\ y.base = x.base /\ y.errfunc = x.errfunc
        /\ y.allowhook = x.allowhook /\ y.jmp = x.jmp /\ y.ccalls = x.ccalls /\ Updated(thr, a, y, thr1)
    BY <1>1, <1>5, <2>1
  <2> QED BY ONLY <1>4, <2>2, GoodOther
<1> QED BY <1>3, <1>4, <1>5, CallInv

\* The thread x is about to make a call from an activation of the kind k: it becomes t.
Saving(x, k, t, n) ==
  /\ t.ci = x.ci /\ t.ccalls = x.ccalls /\ t.status = x.status /\ t.base = x.base
  /\ k # "pcall" => t.errfunc = x.errfunc
  /\ t.allowhook = IF k \in {"gctm", "hook"} THEN FALSE ELSE x.allowhook
  /\ t.jmp = IF k = "pcall" THEN n + 1 ELSE x.jmp

LEMMA SavedGood ==
  ASSUME IInv, NEW a, a = L, NEW x, x = thread[a], x.status = "ok", NEW k \in Saves \cup {"hook"},
         doing = "run" \/ (doing = "error" /\ k = "errormsg"),
         k = "hook" => Top.kind \in {"execute", "cfunction"} /\ x.allowhook,
         NEW t, t \in ThreadRecords, Saving(x, k, t, Len(cstack)), NEW thr2, Updated(thread, a, t, thr2)
  PROVE  /\ Good(Append(cstack, Activation(k, a)), thr2, "run")
         /\ Append(cstack, Activation(k, a)) \in Seq(Records) /\ Append(cstack, Activation(k, a)) # <<>>
         /\ Append(cstack, Activation(k, a))[Len(Append(cstack, Activation(k, a)))].th = a
<1>1. PICK s, thr, dg : s = cstack /\ thr = thread /\ dg = doing
  OBVIOUS
<1>2. PICK r, q : r = Activation(k, a) /\ q = Top
  OBVIOUS
<1>3. doing # "exit" /\ k \in Kinds
  BY DEF Saves, Kinds
<1>4. /\ Typed /\ Good(s, thr, dg) /\ s \in Seq(Records) /\ s # <<>> /\ a \in Threads
      /\ x \in ThreadRecords /\ x = thr[a] /\ a = s[Len(s)].th /\ q = s[Len(s)] /\ Len(s) \in Nat
  BY <1>1, <1>2, <1>3, Running
<1>5. /\ r \in Records /\ r.kind = k /\ r.th = a /\ ~ r.called
      /\ (k \in Saves => r.old = Saved(x))
  <2>1. Typed /\ k \in Kinds /\ a \in Threads
    BY <1>3, <1>4
  <2>2. /\ r \in Records /\ r.kind = k /\ r.th = a /\ ~ r.called
        /\ (k \in Saves => r.old = Saved(thread[a]))
    BY ONLY <1>2, <2>1, ActivationIs
  <2> QED BY <2>2
<1>6. Append(s, r) \in Seq(Records) /\ Append(s, r) # <<>> /\ Append(s, r)[Len(Append(s, r))] = r
  <2>1. s \in Seq(Records) /\ r \in Records
    BY <1>4, <1>5
  <2>2. /\ Append(s, r) \in Seq(Records) /\ Len(Append(s, r)) = Len(s) + 1 /\ Append(s, r) # <<>>
        /\ Append(s, r)[Len(s) + 1] = r
    BY ONLY <2>1, Pushed
  <2> QED BY <2>2
<1>7. /\ r.kind \in Saves \cup {"hook"} /\ (dg = "run" \/ (dg = "error" /\ r.kind = "errormsg"))
      /\ (r.kind = "hook" => s[Len(s)].kind \in {"execute", "cfunction"} /\ x.allowhook)
      /\ (r.kind \in Saves => r.old = Saved(x)) /\ x.status = "ok" /\ Updated(thr, a, t, thr2)
      /\ t \in ThreadRecords
  BY <1>1, <1>2, <1>4, <1>5
<1>8. /\ t.ci = x.ci /\ t.ccalls = x.ccalls /\ t.status = x.status /\ t.base = x.base
      /\ (r.kind # "pcall" => t.errfunc = x.errfunc)
      /\ t.allowhook = (IF r.kind \in {"gctm", "hook"} THEN FALSE ELSE x.allowhook)
      /\ t.jmp = (IF r.kind = "pcall" THEN Len(s) + 1 ELSE x.jmp)
  BY <1>1, <1>5 DEF Saving
<1>9. Good(Append(s, r), thr2, "run")
  BY ONLY <1>4, <1>5, <1>7, <1>8, GoodSaved
<1> QED BY <1>1, <1>2, <1>5, <1>6, <1>9

LEMMA SavedCallInv ==
  ASSUME IInv, NEW a, a = L, NEW x, x = thread[a], x.status = "ok", NEW k \in Saves,
         doing = "run" \/ (doing = "error" /\ k = "errormsg"),
         NEW t, Fits(t), Saving(x, k, t, Len(cstack)), NEW f \in Functions,
         Call(a, t, Append(cstack, Activation(k, a)), f)
  PROVE  IInv'
<1>1. PICK s : s = Append(cstack, Activation(k, a))
  OBVIOUS
<1>2. t \in ThreadRecords /\ t.status = "ok"
  BY DEF Fits, Saving
<1>3. a \in Threads /\ Typed
  <2>1. doing # "exit"
    OBVIOUS
  <2> QED BY <2>1, Running
<1>4. /\ \A thr2 : Updated(thread, a, t, thr2) => Good(s, thr2, "run")
      /\ s \in Seq(Records) /\ s # <<>> /\ s[Len(s)].th = a
  <2>1. k \in Saves \cup {"hook"} /\ k # "hook"
    BY DEF Saves
  <2>2. PICK thr1 : Updated(thread, a, t, thr1)
    <3>1. PICK thr2 : thr2 = [thread EXCEPT ![a] = t]
      OBVIOUS
    <3>2. Updated(thread, a, t, thr2)
      BY <1>3, <3>1, UpdatedIs DEF Typed
    <3> QED BY <3>2
  <2>3. ASSUME NEW thr2, Updated(thread, a, t, thr2)
        PROVE  Good(s, thr2, "run") /\ s \in Seq(Records) /\ s # <<>> /\ s[Len(s)].th = a
    BY <1>1, <1>2, <2>1, <2>3, SavedGood
  <2> QED BY <2>2, <2>3
<1> QED BY <1>1, <1>2, <1>3, <1>4, CallInv

LEMMA PCallInv == ASSUME IInv, NEW f \in Functions, NEW ef \in Handlers, PCall(f, ef) PROVE IInv'
<1>1. PICK a, x, r : a = L /\ x = thread[a] /\ r = Top
  OBVIOUS
<1>2. PICK m : m = Len(cstack) + 1
  OBVIOUS
<1>3. PICK t : t = [x EXCEPT !.errfunc = ef, !.jmp = m]
  OBVIOUS
<1>4. doing = "run" /\ r.kind # "resume" /\ Call(a, t, Append(cstack, Activation("pcall", a)), f)
  BY <1>1, <1>2, <1>3 DEF PCall, InC
<1>5. Fits(x) /\ x \in ThreadRecords /\ x.status = "ok" /\ m \in Nat
  BY <1>1, <1>2, <1>4, Running
<1>6. ef \in ErrFuncs
  BY CallAssumption DEF ErrFuncs, Functions
<1>7. /\ t \in ThreadRecords /\ t.ci = x.ci /\ t.size = x.size /\ t.ccalls = x.ccalls /\ t.status = x.status
      /\ t.base = x.base /\ t.allowhook = x.allowhook /\ t.jmp = m
  BY <1>3, <1>5, <1>6 DEF ThreadRecords
<1>8. Fits(t) /\ Saving(x, "pcall", t, Len(cstack)) /\ "pcall" \in Saves
  BY <1>2, <1>5, <1>7 DEF Fits, Saving, Saves
<1> QED BY <1>1, <1>4, <1>5, <1>8, SavedCallInv

LEMMA CallFinalizerInv == ASSUME IInv, NEW f \in Functions, CallFinalizer(f) PROVE IInv'
<1>1. PICK a, x, r : a = L /\ x = thread[a] /\ r = Top
  OBVIOUS
<1>2. PICK t : t = [x EXCEPT !.allowhook = FALSE]
  OBVIOUS
<1>3. doing = "run" /\ r.kind # "resume" /\ Call(a, t, Append(cstack, Activation("gctm", a)), f)
  BY <1>1, <1>2 DEF CallFinalizer
<1>4. Fits(x) /\ x \in ThreadRecords /\ x.status = "ok"
  BY <1>1, <1>3, Running
<1>5. /\ t \in ThreadRecords /\ t.ci = x.ci /\ t.size = x.size /\ t.ccalls = x.ccalls /\ t.status = x.status
      /\ t.base = x.base /\ t.errfunc = x.errfunc /\ t.jmp = x.jmp /\ t.allowhook = FALSE
  BY <1>2, <1>4 DEF ThreadRecords
<1>6. Fits(t) /\ Saving(x, "gctm", t, Len(cstack)) /\ "gctm" \in Saves
  BY <1>4, <1>5 DEF Fits, Saving, Saves
<1> QED BY <1>1, <1>3, <1>4, <1>6, SavedCallInv

---------------------------------------------------------------------------
(* Errors *)

LEMMA DoingInv ==
  ASSUME IInv, doing \in {"run", "error"}, NEW a, a = L, NEW x, x = thread[a], x.status = "ok",
         NEW dg2, dg2 \in {"error", "errrun", "errmem", "errerr"}, doing' = dg2, UNCHANGED <<thread, cstack>>
  PROVE  IInv'
<1>1. Typed /\ doing # "exit"
  BY DEF IInv
<1>2. Updated(thread, a, x, thread)
  BY DEF Updated
<1>3. Alike(x, x, x.ci)
  BY AlikeSame
<1>4. Good(cstack, thread, dg2)
  BY <1>2, <1>3, Raised
<1>5. dg2 \in Doings
  BY DEF Doings
<1>6. Typed' /\ Good(cstack', thread', doing')
  BY <1>1, <1>4, <1>5 DEF Typed
<1> QED BY <1>6 DEF IInv

LEMMA ErrorInv == ASSUME IInv, Error \/ Throw PROVE IInv'
<1>1. PICK a, x, r : a = L /\ x = thread[a] /\ r = Top
  OBVIOUS
<1>2. /\ doing = "run" /\ r.kind # "resume" /\ UNCHANGED <<thread, cstack>>
      /\ doing' \in {"error", "errmem"}
  BY <1>1 DEF Error, Throw, InLua, InC
<1>3. x.status = "ok"
  BY <1>1, <1>2, Running
<1>4. PICK dg2 : dg2 = doing'
  OBVIOUS
<1> QED BY <1>1, <1>2, <1>3, <1>4, DoingInv

LEMMA ErrorMsgInv == ASSUME IInv, ErrorMsg PROVE IInv'
<1>1. PICK a, x, r : a = L /\ x = thread[a] /\ r = Top
  OBVIOUS
<1>2. doing = "error"
  BY DEF ErrorMsg
<1>3. x.status = "ok" /\ Fits(x) /\ x \in ThreadRecords
  BY <1>1, <1>2, Running
<1>4. PICK ef : ef = x.errfunc
  OBVIOUS
<1>5. ef \in ErrFuncs
  BY <1>3, <1>4 DEF ThreadRecords
<1>6. CASE ef = "none"
  <2>1. doing' = "errrun" /\ UNCHANGED <<thread, cstack>>
    BY <1>1, <1>4, <1>6 DEF ErrorMsg
  <2> QED BY <1>1, <1>2, <1>3, <2>1, DoingInv
<1>7. CASE ef = "notfunction"
  <2>1. doing' = "errerr" /\ UNCHANGED <<thread, cstack>>
    BY <1>1, <1>4, <1>7 DEF ErrorMsg
  <2> QED BY <1>1, <1>2, <1>3, <2>1, DoingInv
<1>8. CASE ef \notin {"none", "notfunction"}
  <2>1. ef \in Functions
    BY <1>5, <1>8 DEF ErrFuncs
  <2>2. Call(a, x, Append(cstack, Activation("errormsg", a)), ef)
    BY <1>1, <1>4, <1>8 DEF ErrorMsg
  <2>3. Saving(x, "errormsg", x, Len(cstack)) /\ "errormsg" \in Saves
    BY DEF Saving, Saves
  <2> QED BY <1>1, <1>2, <1>3, <2>1, <2>2, <2>3, SavedCallInv
<1> QED BY <1>6, <1>7, <1>8

---------------------------------------------------------------------------
(* Returns *)

\* y is a record with the fields of a lua_State.
Whole(y) == y = [status |-> y.status, ci |-> y.ci, ccalls |-> y.ccalls, base |-> y.base, size |-> y.size,
                 errfunc |-> y.errfunc, allowhook |-> y.allowhook, jmp |-> y.jmp, slots |-> y.slots]

LEMMA WholeIs ==
  ASSUME NEW st \in Status, NEW ci \in Seq(Functions), NEW cc \in 0..(MaxCcalls + Margin),
         NEW ba \in 0..MaxCcalls, NEW sz \in Nat, NEW ef \in ErrFuncs, NEW ah \in BOOLEAN, NEW jm \in Nat,
         NEW sl \in {"body", "results", "none"}
  PROVE  [status |-> st, ci |-> ci, ccalls |-> cc, base |-> ba, size |-> sz, errfunc |-> ef,
          allowhook |-> ah, jmp |-> jm, slots |-> sl] \in ThreadRecords
BY DEF ThreadRecords

LEMMA TameFits ==
  ASSUME NEW x, Fits(x), NEW y, Tame(y, x), Whole(y), y.status \in Status, y.base \in 0..MaxCcalls,
         y.size \in Nat, y.slots \in {"body", "results", "none"}, Len(y.ci) < y.size, y.size <= 2 * MaxCalls
  PROVE  Fits(y)
<1>1. y \in ThreadRecords
  <2>1. PICK st, ci, cc, ba : st = y.status /\ ci = y.ci /\ cc = y.ccalls /\ ba = y.base
    OBVIOUS
  <2>2. PICK sz, ef, ah, jm, sl : sz = y.size /\ ef = y.errfunc /\ ah = y.allowhook /\ jm = y.jmp /\ sl = y.slots
    OBVIOUS
  <2>3. st \in Status /\ ci \in Seq(Functions) /\ cc \in 0..(MaxCcalls + Margin)
        /\ ba \in 0..MaxCcalls /\ sz \in Nat /\ ef \in ErrFuncs /\ ah \in BOOLEAN /\ jm \in Nat
        /\ sl \in {"body", "results", "none"}
    BY <2>1, <2>2 DEF Tame
  <2>4. [status |-> st, ci |-> ci, ccalls |-> cc, base |-> ba, size |-> sz, errfunc |-> ef,
         allowhook |-> ah, jmp |-> jm, slots |-> sl] \in ThreadRecords
    BY ONLY ZenonT(60), <2>3, WholeIs
  <2> QED BY <2>1, <2>2, <2>4 DEF Whole
<1> QED BY <1>1 DEF Fits

\* The innermost activation r returns, and x becomes y.
LEMMA PopInv ==
  ASSUME IInv, doing = "run", NEW a, a = L, NEW x, x = thread[a], NEW r, r = Top,
         r.kind \notin {"host", "resume"}, r.kind = "execute" => r.n = 1,
         NEW y, Popped(x, r, y), Whole(y), y.size = x.size, y.slots = x.slots,
         NEW dg2, dg2 = IF r.kind = "errormsg" THEN "errrun" ELSE "run",
         Effect(a, y, Front(cstack), dg2)
  PROVE  IInv'
<1>1. PICK s, thr : s = cstack /\ thr = thread
  OBVIOUS
<1>2. PICK t : t = SubSeq(s, 1, Len(s) - 1)
  OBVIOUS
<1>3. /\ Typed /\ Good(s, thr, "run") /\ s \in Seq(Records) /\ s # <<>> /\ a \in Threads
      /\ a = s[Len(s)].th /\ x = thr[a] /\ x \in ThreadRecords /\ r = s[Len(s)] /\ Fits(x)
  <2>1. doing # "exit"
    OBVIOUS
  <2> QED BY <1>1, <2>1, Running
<1>4. /\ r.kind \notin {"host", "resume"} /\ (r.kind = "execute" => r.n = 1) /\ Popped(x, r, y)
      /\ dg2 = IF r.kind = "errormsg" THEN "errrun" ELSE "run"
  OBVIOUS
<1>5. ASSUME NEW thr2, Updated(thr, a, y, thr2)
      PROVE  Len(s) - 1 \in 1..Len(s) /\ Good(SubSeq(s, 1, Len(s) - 1), thr2, dg2) /\ Tame(y, x)
  BY ONLY <1>3, <1>4, <1>5, GoodPop
<1>6. PICK thr1 : Updated(thr, a, y, thr1)
  <2>1. PICK thr2 : thr2 = [thr EXCEPT ![a] = y]
    OBVIOUS
  <2>2. Updated(thr, a, y, thr2)
    BY <1>1, <1>3, <2>1, UpdatedIs DEF Typed
  <2> QED BY <2>2
<1>7. Len(s) - 1 \in 1..Len(s) /\ Tame(y, x)
  BY <1>5, <1>6
<1>8. t \in Seq(Records) /\ t # <<>> /\ Front(cstack) = t
  <2>1. t \in Seq(Records) /\ t # <<>>
    BY <1>2, <1>3, <1>7, CutIs
  <2> QED BY <1>1, <1>2, <2>1 DEF Front
<1>9. Fits(y)
  <2>1. y.status \in Status /\ y.base \in 0..MaxCcalls
    BY <1>3 DEF Popped, ThreadRecords
  <2>2. y.size \in Nat /\ y.slots \in {"body", "results", "none"} /\ y.size <= 2 * MaxCalls
    BY <1>3 DEF Fits, ThreadRecords
  <2>3. Len(y.ci) < y.size
    <3>1. PICK k, m, z : k = Len(y.ci) /\ m = Len(x.ci) /\ z = x.size
      OBVIOUS
    <3>2. k \in Nat /\ m \in Nat /\ z \in Nat /\ k <= m /\ m < z
      <4>1. y.ci \in Seq(Functions) /\ Len(y.ci) <= Len(x.ci)
        BY ONLY <1>7 DEF Tame
      <4>2. x.ci \in Seq(Functions) /\ x.size \in Nat /\ Len(x.ci) < x.size
        BY ONLY <1>3 DEF Fits, ThreadRecords
      <4> QED BY ONLY <3>1, <4>1, <4>2
    <3>3. k < z
      BY ONLY <3>2
    <3> QED BY <3>1, <3>3
  <2> QED BY <1>3, <1>7, <2>1, <2>2, <2>3, TameFits
<1>10. dg2 \in Doings
  BY DEF Doings
<1>11. \A thr2 : Updated(thread, a, y, thr2) => Good(t, thr2, dg2)
  BY <1>1, <1>2, <1>5
<1>12. Effect(a, y, t, dg2)
  BY <1>8
<1> QED BY <1>3, <1>8, <1>9, <1>10, <1>11, <1>12, EffectInv

\* The thread x as Leave, or the return of luaD_pcall, of a hook or a finalizer, makes it.
Left(x, ci, cc, y) == y = [x EXCEPT !.ci = ci, !.ccalls = cc]
Reset(x, ef, ah, jm, y) == y = [x EXCEPT !.errfunc = ef, !.allowhook = ah, !.jmp = jm]

LEMMA LeftIs ==
  ASSUME NEW x \in ThreadRecords, NEW ci, NEW cc, NEW y, Left(x, ci, cc, y)
  PROVE  /\ Whole(y) /\ y.ci = ci /\ y.ccalls = cc /\ y.status = x.status /\ y.base = x.base /\ y.size = x.size
         /\ y.errfunc = x.errfunc /\ y.allowhook = x.allowhook /\ y.jmp = x.jmp /\ y.slots = x.slots
BY DEF ThreadRecords, Whole, Left

LEMMA ResetIs ==
  ASSUME NEW x \in ThreadRecords, NEW ef, NEW ah, NEW jm, NEW y, Reset(x, ef, ah, jm, y)
  PROVE  /\ Whole(y) /\ y.ci = x.ci /\ y.ccalls = x.ccalls /\ y.status = x.status /\ y.base = x.base
         /\ y.size = x.size /\ y.errfunc = ef /\ y.allowhook = ah /\ y.jmp = jm /\ y.slots = x.slots
BY DEF ThreadRecords, Whole, Reset

\* Only the activations of functions are entered by luaD_call.
LEMMA CalledKinds ==
  ASSUME IInv, doing # "exit", NEW r, r = Top, r.called
  PROVE  r.kind \in {"execute", "cfunction"}
<1>1. PICK n : n = Len(cstack)
  OBVIOUS
<1>2. PICK d, e : Core(cstack, n, d, e, thread, doing)
  BY <1>1 DEF IInv, Good
<1>3. n \in Nat \ {0}
  <2>1. PICK a, x : a = L /\ x = thread[a]
    OBVIOUS
  <2> QED BY <1>1, <2>1, Running
<1>4. n \in 1..n
  BY <1>3
<1>5. Placed(cstack, n)
  BY <1>2, <1>4 DEF Core, StackOK
<1> QED BY <1>1, <1>5 DEF Placed, Top

LEMMA OpReturnInv == ASSUME IInv, OpReturn PROVE IInv'
<1>1. PICK s, thr : s = cstack /\ thr = thread
  OBVIOUS
<1>2. PICK a, x, r : a = L /\ x = thread[a] /\ r = Top
  OBVIOUS
<1>3. doing = "run" /\ r.kind = "execute"
  BY <1>2 DEF OpReturn, InLua
<1>4. /\ Typed /\ Good(s, thr, "run") /\ s \in Seq(Records) /\ s # <<>> /\ a \in Threads /\ a = s[Len(s)].th
      /\ x \in ThreadRecords /\ Fits(x) /\ r = s[Len(s)] /\ r \in Records /\ x.status = "ok" /\ x = thr[a]
      /\ x.ci \in Seq(Functions) /\ x.ccalls \in Nat /\ Len(s) \in Nat \ {0}
  BY <1>1, <1>2, <1>3, Running
<1>5. r.n \in Nat /\ r.n >= 1
  <2>1. PICK n : n = Len(s)
    OBVIOUS
  <2>2. PICK d, e : Core(s, n, d, e, thr, "run")
    BY <1>4, <2>1 DEF Good
  <2>3. n \in 1..n
    BY <1>4, <2>1
  <2>4. Placed(s, n)
    BY <2>2, <2>3 DEF Core, StackOK
  <2> QED BY <1>3, <1>4, <2>1, <2>4 DEF Placed, Records
<1>6. CASE r.n > 1
  <2>1. PICK m : m = r.n - 1
    OBVIOUS
  <2>2. PICK t : t = WithTop(s, m)
    OBVIOUS
  <2>3. PICK c : c = x.ccalls
    OBVIOUS
  <2>4. PICK ci : ci = Front(x.ci)
    OBVIOUS
  <2>5. PICK y : Left(x, ci, c, y)
    BY DEF Left
  <2>6. Effect(a, y, t, "run")
    <3>1. [cstack EXCEPT ![Len(cstack)].n = @ - 1] = t
      <4>1. [cstack EXCEPT ![Len(cstack)].n = @ - 1] = [s EXCEPT ![Len(s)].n = s[Len(s)].n - 1]
        BY <1>1
      <4> QED BY <1>4, <2>1, <2>2, <4>1 DEF WithTop
    <3> QED BY <1>1, <1>2, <1>6, <2>3, <2>4, <2>5, <3>1 DEF OpReturn, Leave, Left
  <2>7. m \in Nat /\ m >= 1
    BY <1>5, <1>6, <2>1
  <2>8. /\ t \in Seq(Records) /\ t # <<>> /\ Len(t) = Len(s) /\ Same(s, t, Len(s) - 1)
        /\ t[Len(s)].kind = s[Len(s)].kind /\ t[Len(s)].th = s[Len(s)].th
        /\ (t[Len(s)].called <=> s[Len(s)].called) /\ t[Len(s)].n = m
    BY ONLY <1>4, <2>2, <2>7, TopIs
  <2>9. PICK n : n = Len(s)
    OBVIOUS
  <2>10. Reframed(s, t, n, x, ci)
    BY <1>3, <1>4, <2>1, <2>4, <2>7, <2>8, <2>9 DEF Reframed
  <2>11. /\ Whole(y) /\ y.ci = ci /\ y.ccalls = x.ccalls /\ y.status = x.status /\ y.base = x.base /\ y.size = x.size
         /\ y.errfunc = x.errfunc /\ y.allowhook = x.allowhook /\ y.jmp = x.jmp /\ y.slots = x.slots
    <3>1. x \in ThreadRecords
      BY <1>4
    <3>2. /\ Whole(y) /\ y.ci = ci /\ y.ccalls = c /\ y.status = x.status /\ y.base = x.base /\ y.size = x.size
          /\ y.errfunc = x.errfunc /\ y.allowhook = x.allowhook /\ y.jmp = x.jmp /\ y.slots = x.slots
      BY ONLY <2>5, <3>1, LeftIs
    <3> QED BY <2>3, <3>2
  <2>12. Alike(y, x, ci)
    BY <2>11 DEF Alike
  <2>13. ASSUME NEW thr2, Updated(thread, a, y, thr2) PROVE Good(t, thr2, "run")
    <3>1. Updated(thr, a, y, thr2)
      BY <1>1, <2>13
    <3> QED BY ONLY <1>4, <2>8, <2>10, <2>12, <3>1, GoodTop
  <2>14. x.ci # <<>>
    <3>1. PICK d, e : Core(s, n, d, e, thr, "run")
      BY <1>4, <2>9 DEF Good
    <3>2. FramesOK(s, n, a, x)
      BY <1>4, <3>1 DEF Core, ThreadOK
    <3>3. x.ci = FramesUpTo(s, n, a)
      BY <1>4, <3>2 DEF FramesOK
    <3>4. Own(s[n], a) # <<>>
      <4>1. Own(s[n], a) = Lua(r.n)
        BY <1>3, <1>4, <2>9, OwnIs
      <4>2. r.n > 0
        BY <1>5
      <4> QED BY <1>5, <4>1, <4>2, LuaFrames
    <3>5. n \in Nat /\ n \in 1..n /\ \A i \in 1..n : s[i] \in Records
      BY <1>4, <2>9, ElementOfSeq
    <3>6. FramesUpTo(s, n, a) # <<>>
      BY ONLY <3>4, <3>5, FramesSome
    <3> QED BY <3>3, <3>6
  <2>15. ci \in Seq(Functions) /\ Len(ci) = Len(x.ci) - 1 /\ Len(x.ci) \in Nat \ {0}
    <3>1. x.ci \in Seq(Functions)
      BY <1>4
    <3>2. /\ Len(x.ci) \in Nat \ {0} /\ SubSeq(x.ci, 1, Len(x.ci) - 1) \in Seq(Functions)
          /\ Len(SubSeq(x.ci, 1, Len(x.ci) - 1)) = Len(x.ci) - 1
      BY ONLY <2>14, <3>1, FrontAndLast
    <3> QED BY <2>4, <3>2 DEF Front
  <2>16. y \in ThreadRecords
    BY <1>4, <2>3, <2>5, <2>15 DEF ThreadRecords, Left
  <2>17. Fits(y)
    <3>1. PICK k, z : k = Len(x.ci) /\ z = x.size
      OBVIOUS
    <3>2. k \in Nat \ {0} /\ z \in Nat /\ k < z /\ z <= 2 * MaxCalls /\ Len(y.ci) = k - 1 /\ y.size = z
      BY <1>4, <2>11, <2>15, <3>1 DEF Fits, ThreadRecords
    <3>3. k - 1 < z
      BY ONLY <3>2
    <3> QED BY <2>16, <3>2, <3>3 DEF Fits
  <2>18. "run" \in Doings
    BY DEF Doings
  <2> QED BY <1>4, <2>6, <2>8, <2>13, <2>17, <2>18, EffectInv
<1>7. CASE ~ (r.n > 1)
  <2>1. r.n = 1
    BY <1>5, <1>7
  <2>2. PICK ci, c : ci = Front(x.ci) /\ c = IF r.called THEN x.ccalls - 1 ELSE x.ccalls
    OBVIOUS
  <2>3. PICK y : Left(x, ci, c, y)
    BY DEF Left
  <2>4. Effect(a, y, Front(cstack), "run")
    BY <1>1, <1>2, <1>7, <2>2, <2>3 DEF OpReturn, Leave, Left
  <2>5. /\ Whole(y) /\ y.ci = ci /\ y.ccalls = c /\ y.status = x.status /\ y.base = x.base /\ y.size = x.size
        /\ y.errfunc = x.errfunc /\ y.allowhook = x.allowhook /\ y.jmp = x.jmp /\ y.slots = x.slots
    BY <1>4, <2>3, LeftIs
  <2>6. Popped(x, r, y)
    BY <1>3, <2>2, <2>5 DEF Popped
  <2> QED BY <1>2, <1>3, <2>1, <2>4, <2>5, <2>6, PopInv
<1> QED BY <1>6, <1>7

LEMMA CReturnInv == ASSUME IInv, CReturn PROVE IInv'
<1>1. PICK a, x, r : a = L /\ x = thread[a] /\ r = Top
  OBVIOUS
<1>2. doing = "run" /\ r.kind = "cfunction"
  BY <1>1 DEF CReturn, InC
<1>3. x \in ThreadRecords
  <2>1. doing # "exit"
    BY <1>2
  <2> QED BY <1>1, <2>1, Running
<1>4. PICK ci, c : ci = Front(x.ci) /\ c = IF r.called THEN x.ccalls - 1 ELSE x.ccalls
  OBVIOUS
<1>5. PICK y : Left(x, ci, c, y)
  BY DEF Left
<1>6. Effect(a, y, Front(cstack), "run")
  BY <1>1, <1>4, <1>5 DEF CReturn, Leave, Left
<1>7. /\ Whole(y) /\ y.ci = ci /\ y.ccalls = c /\ y.status = x.status /\ y.base = x.base /\ y.size = x.size
      /\ y.errfunc = x.errfunc /\ y.allowhook = x.allowhook /\ y.jmp = x.jmp /\ y.slots = x.slots
  BY <1>3, <1>5, LeftIs
<1>8. Popped(x, r, y)
  BY <1>2, <1>4, <1>7 DEF Popped
<1> QED BY <1>1, <1>2, <1>6, <1>7, <1>8, PopInv

\* luaD_pcall, luaG_errormsg, luaD_callhook or GCTM returns.
LEMMA SavedReturns ==
  ASSUME IInv, doing = "run", NEW a, a = L, NEW x, x = thread[a], NEW r, r = Top, r.kind \in Saves \cup {"hook"},
         NEW ef, ef = (IF r.kind = "pcall" THEN r.old.errfunc ELSE x.errfunc),
         NEW jm, jm = (IF r.kind = "pcall" THEN r.old.jmp ELSE x.jmp),
         NEW ah, ah = (IF r.kind = "hook" THEN TRUE
                       ELSE IF r.kind = "gctm" THEN r.old.allowhook ELSE x.allowhook),
         NEW y, Reset(x, ef, ah, jm, y),
         NEW dg2, dg2 = IF r.kind = "errormsg" THEN "errrun" ELSE "run",
         Effect(a, y, Front(cstack), dg2)
  PROVE  IInv'
<1>1. r.kind \notin {"host", "resume", "execute", "cfunction"}
  BY DEF Saves
<1>2. x \in ThreadRecords /\ doing # "exit"
  <2>1. doing # "exit"
    OBVIOUS
  <2> QED BY <2>1, Running
<1>3. ~ r.called
  BY <1>1, <1>2, CalledKinds
<1>4. /\ Whole(y) /\ y.ci = x.ci /\ y.ccalls = x.ccalls /\ y.status = x.status /\ y.base = x.base
      /\ y.size = x.size /\ y.errfunc = ef /\ y.allowhook = ah /\ y.jmp = jm /\ y.slots = x.slots
  <2>1. Reset(x, ef, ah, jm, y)
    OBVIOUS
  <2> QED BY ONLY <1>2, <2>1, ResetIs
<1>5. Popped(x, r, y)
  BY <1>1, <1>3, <1>4 DEF Popped
<1>6. /\ IInv /\ doing = "run" /\ a = L /\ x = thread[a] /\ r = Top /\ r.kind \notin {"host", "resume"}
      /\ (r.kind = "execute" => r.n = 1) /\ dg2 = (IF r.kind = "errormsg" THEN "errrun" ELSE "run")
      /\ Effect(a, y, Front(cstack), dg2)
  BY <1>1
<1> QED BY ONLY <1>4, <1>5, <1>6, PopInv

LEMMA PCallReturnsInv == ASSUME IInv, PCallReturns PROVE IInv'
<1>1. PICK a, x, r : a = L /\ x = thread[a] /\ r = Top
  OBVIOUS
<1>2. doing = "run" /\ r.kind = "pcall"
  BY <1>1 DEF PCallReturns
<1>3. PICK ef, ah, jm : ef = r.old.errfunc /\ ah = x.allowhook /\ jm = r.old.jmp
  OBVIOUS
<1>4. PICK y : Reset(x, ef, ah, jm, y)
  BY DEF Reset
<1>5. Effect(a, y, Front(cstack), "run")
  <2>1. x \in ThreadRecords
    <3>1. doing # "exit"
      BY <1>2
    <3> QED BY <1>1, <3>1, Running
  <2>2. y = [x EXCEPT !.errfunc = ef, !.jmp = jm]
    BY <1>3, <1>4, <2>1 DEF Reset, ThreadRecords
  <2> QED BY <1>1, <1>3, <2>2 DEF PCallReturns
<1>6. r.kind \in Saves \cup {"hook"}
  BY <1>2 DEF Saves
<1> QED BY <1>1, <1>2, <1>3, <1>4, <1>5, <1>6, SavedReturns

LEMMA HandlerReturnsInv == ASSUME IInv, HandlerReturns PROVE IInv'
<1>1. PICK a, x, r : a = L /\ x = thread[a] /\ r = Top
  OBVIOUS
<1>2. doing = "run" /\ r.kind = "errormsg"
  BY <1>1 DEF HandlerReturns
<1>3. PICK ef, ah, jm : ef = x.errfunc /\ ah = x.allowhook /\ jm = x.jmp
  OBVIOUS
<1>4. PICK y : Reset(x, ef, ah, jm, y)
  BY DEF Reset
<1>5. Effect(a, y, Front(cstack), "errrun")
  <2>1. x \in ThreadRecords
    <3>1. doing # "exit"
      BY <1>2
    <3> QED BY <1>1, <3>1, Running
  <2>2. y = x
    BY <1>3, <1>4, <2>1 DEF Reset, ThreadRecords
  <2> QED BY <1>1, <2>2 DEF HandlerReturns
<1>6. r.kind \in Saves \cup {"hook"}
  BY <1>2 DEF Saves
<1> QED BY <1>1, <1>2, <1>3, <1>4, <1>5, <1>6, SavedReturns

LEMMA HookReturnsInv == ASSUME IInv, HookReturns PROVE IInv'
<1>1. PICK a, x, r : a = L /\ x = thread[a] /\ r = Top
  OBVIOUS
<1>2. doing = "run" /\ r.kind = "hook"
  BY <1>1 DEF HookReturns, InC
<1>3. PICK ef, ah, jm : ef = x.errfunc /\ ah = TRUE /\ jm = x.jmp
  OBVIOUS
<1>4. PICK y : Reset(x, ef, ah, jm, y)
  BY DEF Reset
<1>5. Effect(a, y, Front(cstack), "run")
  <2>1. x \in ThreadRecords
    <3>1. doing # "exit"
      BY <1>2
    <3> QED BY <1>1, <3>1, Running
  <2>2. y = [x EXCEPT !.allowhook = TRUE]
    BY <1>3, <1>4, <2>1 DEF Reset, ThreadRecords
  <2> QED BY <1>1, <2>2 DEF HookReturns
<1>6. r.kind \in Saves \cup {"hook"}
  BY <1>2
<1> QED BY <1>1, <1>2, <1>3, <1>4, <1>5, <1>6, SavedReturns

LEMMA FinalizerReturnsInv == ASSUME IInv, FinalizerReturns PROVE IInv'
<1>1. PICK a, x, r : a = L /\ x = thread[a] /\ r = Top
  OBVIOUS
<1>2. doing = "run" /\ r.kind = "gctm"
  BY <1>1 DEF FinalizerReturns
<1>3. PICK ef, ah, jm : ef = x.errfunc /\ ah = r.old.allowhook /\ jm = x.jmp
  OBVIOUS
<1>4. PICK y : Reset(x, ef, ah, jm, y)
  BY DEF Reset
<1>5. Effect(a, y, Front(cstack), "run")
  <2>1. x \in ThreadRecords
    <3>1. doing # "exit"
      BY <1>2
    <3> QED BY <1>1, <3>1, Running
  <2>2. y = [x EXCEPT !.allowhook = ah]
    BY <1>3, <1>4, <2>1 DEF Reset, ThreadRecords
  <2> QED BY <1>1, <1>3, <2>2 DEF FinalizerReturns
<1>6. r.kind \in Saves \cup {"hook"}
  BY <1>2 DEF Saves
<1> QED BY <1>1, <1>2, <1>3, <1>4, <1>5, <1>6, SavedReturns

---------------------------------------------------------------------------
(* Errors are caught, or kill *)

\* The space for CallInfos that restore_stack_limit leaves is enough for those in use.
LEMMA LimitIs ==
  ASSUME NEW z \in Nat, NEW u \in Nat, u < z, z <= 2 * MaxCalls, NEW w, w = RestoreStackLimit(z, u)
  PROVE  w \in Nat /\ u < w /\ w <= 2 * MaxCalls
<1>1. MaxCalls \in Nat
  BY CallAssumption
<1> QED BY <1>1 DEF RestoreStackLimit

LEMMA RestoredIs ==
  ASSUME NEW x \in ThreadRecords, NEW o, NEW y, y = Restored(x, o)
  PROVE  /\ Whole(y) /\ y.ci = SubSeq(x.ci, 1, o.ci) /\ y.ccalls = o.ccalls /\ y.status = x.status
         /\ y.base = x.base /\ y.size = RestoreStackLimit(x.size, o.ci) /\ y.errfunc = o.errfunc
         /\ y.allowhook = o.allowhook /\ y.jmp = o.jmp /\ y.slots = x.slots
<1>1. PICK c, z : c = SubSeq(x.ci, 1, o.ci) /\ z = RestoreStackLimit(x.size, o.ci)
  OBVIOUS
<1>2. y = [x EXCEPT !.ci = c, !.ccalls = o.ccalls, !.allowhook = o.allowhook, !.errfunc = o.errfunc,
                    !.jmp = o.jmp, !.size = z]
  BY <1>1 DEF Restored
<1> QED BY <1>1, <1>2 DEF ThreadRecords, Whole

LEMMA CatchInv == ASSUME IInv, Catch PROVE IInv'
<1>1. PICK s, thr, dg : s = cstack /\ thr = thread /\ dg = doing
  OBVIOUS
<1>2. PICK a, x : a = L /\ x = thread[a]
  OBVIOUS
<1>3. PICK j, q : j = x.jmp /\ q = Top
  OBVIOUS
<1>4. PICK r : r = s[j]
  OBVIOUS
<1>5. /\ dg \in {"errrun", "errmem", "errerr"} /\ j # 0 /\ r.kind = "pcall"
      /\ Effect(a, Restored(x, r.old), SubSeq(s, 1, j - 1), "run")
  BY <1>1, <1>2, <1>3, <1>4 DEF Catch, Thrown
<1>6. /\ Typed /\ Good(s, thr, dg) /\ s \in Seq(Records) /\ s # <<>> /\ a \in Threads
      /\ a = s[Len(s)].th /\ x = thr[a] /\ x \in ThreadRecords /\ Fits(x)
  <2>1. doing # "exit"
    BY <1>1, <1>5
  <2> QED BY <1>1, <1>2, <1>3, <2>1, Running
<1>7. PICK y, o : y = Restored(x, o) /\ o = r.old
  OBVIOUS
<1>8. PICK t : t = SubSeq(s, 1, j - 1)
  OBVIOUS
<1>9. /\ Whole(y) /\ y.ci = SubSeq(x.ci, 1, o.ci) /\ y.ccalls = o.ccalls /\ y.status = x.status
      /\ y.base = x.base /\ y.size = RestoreStackLimit(x.size, o.ci) /\ y.errfunc = o.errfunc
      /\ y.allowhook = o.allowhook /\ y.jmp = o.jmp /\ y.slots = x.slots
  BY <1>6, <1>7, RestoredIs
<1>10. Caught(x, r, y)
  BY <1>7, <1>9 DEF Caught
<1>11. ASSUME NEW thr2, Updated(thr, a, y, thr2)
       PROVE  /\ j - 1 \in 1..Len(s) /\ Good(SubSeq(s, 1, j - 1), thr2, "run") /\ Tame(y, x)
              /\ r.old.ci \in 0..Len(x.ci)
  <2>1. dg \in {"errrun", "errmem", "errerr"} /\ j # 0 /\ r.kind = "pcall"
    BY <1>5
  <2> QED BY ONLY <1>3, <1>4, <1>6, <1>10, <1>11, <2>1, GoodCatch
<1>12. PICK thr1 : Updated(thr, a, y, thr1)
  <2>1. PICK thr2 : thr2 = [thr EXCEPT ![a] = y]
    OBVIOUS
  <2>2. Updated(thr, a, y, thr2)
    BY <1>1, <1>6, <2>1, UpdatedIs DEF Typed
  <2> QED BY <2>2
<1>13. j - 1 \in 1..Len(s) /\ Tame(y, x) /\ r.old.ci \in 0..Len(x.ci)
  BY <1>11, <1>12
<1>14. t \in Seq(Records) /\ t # <<>>
  <2>1. PICK m : m = j - 1
    OBVIOUS
  <2>2. m \in 1..Len(s)
    BY <1>13, <2>1
  <2>3. SubSeq(s, 1, m) \in Seq(Records) /\ SubSeq(s, 1, m) # <<>>
    BY ONLY <1>6, <2>2, CutIs
  <2> QED BY <1>8, <2>1, <2>3
<1>15. Fits(y)
  <2>1. PICK z, u, w : z = x.size /\ u = o.ci /\ w = y.size
    OBVIOUS
  <2>2. z \in Nat /\ Len(x.ci) < z /\ z <= 2 * MaxCalls /\ Len(x.ci) \in Nat /\ x.ci \in Seq(Functions)
    BY <1>6, <2>1 DEF Fits, ThreadRecords
  <2>3. u \in Nat /\ u <= Len(x.ci)
    BY <1>7, <1>13, <2>1, <2>2
  <2>4. u < z
    BY ONLY <2>2, <2>3
  <2>5. w = RestoreStackLimit(z, u)
    BY <1>9, <2>1
  <2>6. w \in Nat /\ u < w /\ w <= 2 * MaxCalls
    BY ONLY <2>2, <2>3, <2>4, <2>5, LimitIs
  <2>7. Len(y.ci) = u
    <3>1. Len(SubSeq(x.ci, 1, u)) = u
      <4>1. PICK c : c = x.ci
        OBVIOUS
      <4>2. c \in Seq(Functions) /\ u \in 0..Len(c)
        BY <2>2, <2>3, <4>1
      <4>3. Len(SubSeq(c, 1, u)) = u
        BY ONLY <4>2
      <4> QED BY <4>1, <4>3
    <3> QED BY <1>9, <2>1, <3>1
  <2>8. y.status \in Status /\ y.base \in 0..MaxCcalls /\ y.slots \in {"body", "results", "none"}
    BY <1>6, <1>9 DEF ThreadRecords
  <2>9. y.size \in Nat /\ Len(y.ci) < y.size /\ y.size <= 2 * MaxCalls
    BY <2>1, <2>6, <2>7
  <2> QED BY ONLY <1>6, <1>9, <1>13, <2>8, <2>9, TameFits
<1>16. "run" \in Doings
  BY DEF Doings
<1>17. \A thr2 : Updated(thread, a, y, thr2) => Good(t, thr2, "run")
  BY <1>1, <1>8, <1>11
<1>18. Effect(a, y, t, "run")
  BY <1>5, <1>7, <1>8
<1> QED BY <1>6, <1>14, <1>15, <1>16, <1>17, <1>18, EffectInv

\* The activations that an error leaves are those of the running thread.
LEMMA Throwing ==
  ASSUME IInv, doing # "exit", NEW a, a = L, NEW j, j = thread[a].jmp, j # 0
  PROVE  j \in 1..Len(cstack) /\ \A i \in j..Len(cstack) : cstack[i].th = a
<1>1. PICK s, n : s = cstack /\ n = Len(s)
  OBVIOUS
<1>2. PICK thr, dg : thr = thread /\ dg = doing
  OBVIOUS
<1>3. n \in Nat \ {0} /\ a \in Threads /\ a = s[n].th
  <2>1. PICK x, r : x = thread[a] /\ r = Top
    OBVIOUS
  <2> QED BY <1>1, <2>1, Running
<1>4. PICK d, e : Core(s, n, d, e, thr, dg)
  BY <1>1, <1>2 DEF IInv, Good
<1>5. StackOK(s, n, d, e) /\ Innermost(s, n, a, j)
  BY <1>2, <1>3, <1>4 DEF Core, ThreadOK, JumpOK
<1>6. n \in Nat /\ j \in 1..n
  BY <1>3, <1>5 DEF Innermost
<1>7. \A i \in j..n : s[i].th = a
  BY ONLY <1>3, <1>5, <1>6, AboveJump
<1> QED BY <1>1, <1>6, <1>7

\* lua_resume, its activation j, is left by the coroutine a, which becomes y.
LEMMA LeaveInv ==
  ASSUME IInv, NEW a, a = L, NEW x, x = thread[a], NEW j, j \in 1..Len(cstack), cstack[j].kind = "resume",
         \A i \in j..Len(cstack) : cstack[i].th = a,
         NEW y, Whole(y), y.jmp = cstack[j].old.jmp, y.ci = x.ci, y.errfunc = x.errfunc,
         y.allowhook = x.allowhook, y.ccalls = x.ccalls - 1, y.base = x.base, y.size = x.size,
         y.status \in Status, y.slots \in {"body", "results", "none"},
         y.status \in {"ok", "yield"} => y.status = x.status /\ j = Len(cstack),
         doing # "exit", NEW dg2 \in Doings, Effect(a, y, SubSeq(cstack, 1, j - 1), dg2)
  PROVE  IInv'
<1>1. PICK s, thr, dg : s = cstack /\ thr = thread /\ dg = doing
  OBVIOUS
<1>2. PICK n : n = Len(s)
  OBVIOUS
<1>3. /\ Typed /\ Good(s, thr, dg) /\ s \in Seq(Records) /\ s # <<>> /\ a \in Threads
      /\ a = s[Len(s)].th /\ x = thr[a] /\ x \in ThreadRecords /\ Fits(x) /\ n \in Nat \ {0}
  <2>1. PICK q : q = Top
    OBVIOUS
  <2> QED BY <1>1, <1>2, <2>1, Running
<1>4. \A i \in 1..n : s[i] \in Records
  BY <1>2, <1>3, ElementOfSeq
<1>5. Leaves(s, n, a, x, dg, j, y)
  BY <1>1, <1>2, <1>3, <1>4 DEF Leaves
<1>6. ASSUME NEW thr2, Updated(thr, a, y, thr2)
      PROVE  j - 1 \in 1..Len(s) /\ Good(SubSeq(s, 1, j - 1), thr2, dg2) /\ Tame(y, x)
  BY ONLY <1>2, <1>3, <1>5, <1>6, GoodReturn
<1>7. PICK thr1 : Updated(thr, a, y, thr1)
  <2>1. PICK thr2 : thr2 = [thr EXCEPT ![a] = y]
    OBVIOUS
  <2>2. Updated(thr, a, y, thr2)
    BY <1>1, <1>3, <2>1, UpdatedIs DEF Typed
  <2> QED BY <2>2
<1>8. j - 1 \in 1..Len(s) /\ Tame(y, x)
  BY <1>6, <1>7
<1>9. PICK t : t = SubSeq(s, 1, j - 1)
  OBVIOUS
<1>10. t \in Seq(Records) /\ t # <<>>
  <2>1. PICK m : m = j - 1
    OBVIOUS
  <2>2. m \in 1..Len(s)
    BY <1>8, <2>1
  <2>3. SubSeq(s, 1, m) \in Seq(Records) /\ SubSeq(s, 1, m) # <<>>
    BY ONLY <1>3, <2>2, CutIs
  <2> QED BY <1>9, <2>1, <2>3
<1>11. Fits(y)
  <2>1. y.base \in 0..MaxCcalls /\ y.size \in Nat /\ Len(y.ci) < y.size /\ y.size <= 2 * MaxCalls
    BY <1>3 DEF Fits, ThreadRecords
  <2>2. Whole(y) /\ y.status \in Status /\ y.slots \in {"body", "results", "none"}
    OBVIOUS
  <2> QED BY ONLY <1>3, <1>8, <2>1, <2>2, TameFits
<1>12. \A thr2 : Updated(thread, a, y, thr2) => Good(t, thr2, dg2)
  BY <1>1, <1>6, <1>9
<1>13. Effect(a, y, t, dg2)
  BY <1>1, <1>9
<1> QED BY <1>3, <1>10, <1>11, <1>12, <1>13, EffectInv

\* The thread x as Die or ResumeReturns makes it.
Stopped(x, st, cc, jm, sl, y) == y = [x EXCEPT !.status = st, !.ccalls = cc, !.jmp = jm, !.slots = sl]

LEMMA StoppedIs ==
  ASSUME NEW x \in ThreadRecords, NEW st, NEW cc, NEW jm, NEW sl, NEW y, Stopped(x, st, cc, jm, sl, y)
  PROVE  /\ Whole(y) /\ y.ci = x.ci /\ y.ccalls = cc /\ y.status = st /\ y.base = x.base /\ y.size = x.size
         /\ y.errfunc = x.errfunc /\ y.allowhook = x.allowhook /\ y.jmp = jm /\ y.slots = sl
BY DEF ThreadRecords, Whole, Stopped

LEMMA DieInv == ASSUME IInv, Die PROVE IInv'
<1>1. PICK a, x, j : a = L /\ x = thread[a] /\ j = x.jmp
  OBVIOUS
<1>2. PICK st, cc, jm, sl : st = doing /\ cc = x.ccalls - 1 /\ jm = cstack[j].old.jmp /\ sl = x.slots
  OBVIOUS
<1>3. PICK y : Stopped(x, st, cc, jm, sl, y)
  BY DEF Stopped
<1>4. doing \in {"errrun", "errmem", "errerr"} /\ j # 0 /\ cstack[j].kind = "resume" /\ doing # "exit"
  BY <1>1 DEF Die, Thrown
<1>5. x \in ThreadRecords
  <2>1. PICK q : q = Top
    OBVIOUS
  <2> QED BY <1>1, <1>4, <2>1, Running
<1>6. Effect(a, y, SubSeq(cstack, 1, j - 1), "run")
  <2>1. y = [x EXCEPT !.status = st, !.ccalls = cc, !.jmp = jm]
    BY <1>2, <1>3, <1>5 DEF Stopped, ThreadRecords
  <2> QED BY <1>1, <1>2, <2>1 DEF Die
<1>7. j \in 1..Len(cstack) /\ \A i \in j..Len(cstack) : cstack[i].th = a
  BY <1>1, <1>4, Throwing
<1>8. /\ Whole(y) /\ y.ci = x.ci /\ y.ccalls = cc /\ y.status = st /\ y.base = x.base /\ y.size = x.size
      /\ y.errfunc = x.errfunc /\ y.allowhook = x.allowhook /\ y.jmp = jm /\ y.slots = sl
  BY ONLY <1>3, <1>5, StoppedIs
<1>9. /\ y.status \in Status /\ y.status \notin {"ok", "yield"} /\ y.slots \in {"body", "results", "none"}
      /\ "run" \in Doings
  BY <1>2, <1>4, <1>5, <1>8 DEF Status, ThreadRecords, Doings
<1>10. y.ccalls = x.ccalls - 1 /\ y.jmp = cstack[j].old.jmp
  BY <1>2, <1>8
<1> QED BY <1>1, <1>4, <1>6, <1>7, <1>8, <1>9, <1>10, LeaveInv

LEMMA ResumeReturnsInv == ASSUME IInv, NEW toomany \in BOOLEAN, ResumeReturns(toomany) PROVE IInv'
<1>1. PICK a, x, j : a = L /\ x = thread[a] /\ j = Len(cstack)
  OBVIOUS
<1>2. PICK r : r = Top
  OBVIOUS
<1>3. PICK st, cc, jm, sl : st = x.status /\ cc = x.ccalls - 1 /\ jm = r.old.jmp
                            /\ sl = IF toomany THEN "results" ELSE "none"
  OBVIOUS
<1>4. PICK y : Stopped(x, st, cc, jm, sl, y)
  BY DEF Stopped
<1>5. PICK dg2 : dg2 = IF toomany THEN "error" ELSE "run"
  OBVIOUS
<1>6. doing = "run" /\ r.kind = "resume" /\ doing # "exit"
  BY <1>2 DEF ResumeReturns
<1>7. /\ x \in ThreadRecords /\ j \in Nat \ {0} /\ r = cstack[j] /\ r.th = a /\ cstack # <<>>
      /\ cstack \in Seq(Records)
  BY <1>1, <1>2, <1>6, Running
<1>8. Effect(a, y, SubSeq(cstack, 1, j - 1), dg2)
  <2>1. y = [x EXCEPT !.ccalls = cc, !.jmp = jm, !.slots = sl]
    BY <1>3, <1>4, <1>7 DEF Stopped, ThreadRecords
  <2>2. Effect(a, y, Front(cstack), dg2)
    BY <1>1, <1>2, <1>3, <1>5, <2>1 DEF ResumeReturns
  <2> QED BY <1>1, <2>2 DEF Front
<1>9. j \in 1..Len(cstack) /\ \A i \in j..Len(cstack) : cstack[i].th = a
  BY <1>1, <1>7
<1>10. /\ Whole(y) /\ y.ci = x.ci /\ y.ccalls = cc /\ y.status = st /\ y.base = x.base /\ y.size = x.size
       /\ y.errfunc = x.errfunc /\ y.allowhook = x.allowhook /\ y.jmp = jm /\ y.slots = sl
  BY ONLY <1>4, <1>7, StoppedIs
<1>11. y.status \in Status /\ y.slots \in {"body", "results", "none"} /\ dg2 \in Doings
  BY <1>3, <1>5, <1>7, <1>10 DEF ThreadRecords, Doings
<1>12. y.ccalls = x.ccalls - 1 /\ y.jmp = cstack[j].old.jmp /\ y.status = x.status /\ j = Len(cstack)
       /\ cstack[j].kind = "resume"
  BY <1>1, <1>3, <1>6, <1>7, <1>10
<1> QED BY <1>1, <1>6, <1>8, <1>9, <1>10, <1>11, <1>12, LeaveInv

LEMMA PanicInv == ASSUME IInv, Panic PROVE IInv'
<1>1. PICK s, thr, dg : s = cstack /\ thr = thread /\ dg = doing
  OBVIOUS
<1>2. PICK a, x, q : a = L /\ x = thread[a] /\ q = Top
  OBVIOUS
<1>3. PICK z, w : z = x.size /\ w = RestoreStackLimit(z, 0)
  OBVIOUS
<1>4. PICK h \in BOOLEAN : h = TRUE
  OBVIOUS
<1>5. PICK y : y = [x EXCEPT !.status = dg, !.ci = <<>>, !.ccalls = x.base, !.allowhook = h, !.size = w,
                             !.errfunc = "none"]
  OBVIOUS
<1>6. dg \in {"errrun", "errmem", "errerr"} /\ Effect(a, y, s, "exit")
  BY <1>1, <1>2, <1>3, <1>4, <1>5 DEF Panic, Thrown
<1>7. /\ Typed /\ Good(s, thr, dg) /\ s \in Seq(Records) /\ s # <<>> /\ a \in Threads
      /\ x \in ThreadRecords /\ Fits(x)
  <2>1. doing # "exit"
    BY <1>1, <1>6
  <2> QED BY <1>1, <1>2, <2>1, Running
<1>8. w \in Nat /\ 0 < w /\ w <= 2 * MaxCalls
  <2>1. z \in Nat /\ 0 < z /\ z <= 2 * MaxCalls /\ 0 \in Nat
    BY <1>3, <1>7 DEF Fits, ThreadRecords
  <2>2. w = RestoreStackLimit(z, 0)
    BY <1>3
  <2> QED BY ONLY <2>1, <2>2, LimitIs
<1>9. /\ y \in ThreadRecords /\ y.status = dg /\ y.ci = <<>> /\ y.size = w /\ y.jmp = x.jmp
  <2>1. dg \in Status
    BY <1>6 DEF Status
  <2>2. x.base \in 0..(MaxCcalls + Margin) /\ "none" \in ErrFuncs /\ <<>> \in Seq(Functions)
    BY <1>7, CallAssumption DEF ThreadRecords, ErrFuncs
  <2> QED BY <1>5, <1>7, <1>8, <2>1, <2>2 DEF ThreadRecords
<1>10. Fits(y)
  BY <1>8, <1>9 DEF Fits
<1>11. ASSUME NEW thr2, Updated(thread, a, y, thr2) PROVE Good(s, thr2, "exit")
  <2>1. y.jmp = thr[a].jmp /\ y.status # "yield" /\ Updated(thr, a, y, thr2)
        /\ dg \in {"errrun", "errmem", "errerr"}
    BY <1>1, <1>2, <1>6, <1>9, <1>11
  <2> QED BY ONLY <1>7, <2>1, GoodPanic
<1>12. "exit" \in Doings
  BY DEF Doings
<1> QED BY <1>6, <1>7, <1>10, <1>11, <1>12, EffectInv

---------------------------------------------------------------------------
(* Coroutines *)

\* What can be resumed: it has yielded, or it has not begun.
LEMMA Suspended ==
  ASSUME IInv, InC, NEW co \in Coroutines, CoStatus(co) = "suspended", NEW x, x = thread[co]
  PROVE  /\ co \in Threads /\ co # L /\ ~ On(cstack, Len(cstack), co) /\ x \in ThreadRecords /\ Fits(x)
         /\ \/ x.status = "yield" /\ Yielded(x.ci)
            \/ x.status = "ok" /\ x.ci = <<>>
<1>1. PICK s, n, thr : s = cstack /\ n = Len(s) /\ thr = thread
  OBVIOUS
<1>2. PICK a, z, q : a = L /\ z = thread[a] /\ q = Top
  OBVIOUS
<1>3. doing = "run"
  BY DEF InC
<1>4. /\ Good(s, thr, "run") /\ s \in Seq(Records) /\ s # <<>> /\ a = s[Len(s)].th
  <2>1. doing # "exit"
    BY <1>3
  <2> QED BY <1>1, <1>2, <1>3, <2>1, Running
<1>5. co \in Threads
  BY DEF Threads
<1>6. x = thr[co] /\ x \in ThreadRecords /\ Fits(x)
  BY <1>1, <1>5 DEF IInv, Typed
<1>7. co # L /\ (x.status = "yield" \/ (x.status = "ok" /\ x.ci = <<>>))
  BY DEF CoStatus
<1>8. ~ On(s, Len(s), co)
  <2>1. co # s[Len(s)].th /\ (thr[co].status = "yield" \/ (thr[co].status = "ok" /\ thr[co].ci = <<>>))
        /\ co \in Coroutines
    BY <1>2, <1>4, <1>6, <1>7
  <2> QED BY ONLY <1>4, <2>1, SuspendedOff
<1>9. x.status = "yield" => Yielded(x.ci)
  <2>1. PICK d, e : Core(s, n, d, e, thr, "run")
    BY <1>1, <1>4 DEF Good
  <2>2. YieldOK(s, n, co, x, "run")
    BY <1>5, <1>6, <2>1 DEF Core, ThreadOK
  <2> QED BY <2>2 DEF YieldOK
<1> QED BY <1>1, <1>5, <1>6, <1>7, <1>8, <1>9

\* What lua_resume makes of the coroutine x, for the thread z, before it calls resume.
Resuming(x, z, n, u) ==
  /\ u.status = "ok" /\ u.ci = <<>> /\ u.ccalls = z.ccalls + 1 /\ u.base = z.ccalls + 1
  /\ u.jmp = n + 1 /\ u.errfunc = x.errfunc /\ u.allowhook = x.allowhook

LEMMA ResumedGood ==
  ASSUME IInv, InC, NEW co \in Coroutines, CoStatus(co) = "suspended", NEW x, x = thread[co],
         NEW z, z = thread[L], z.ccalls < MaxCcalls, NEW u, Resuming(x, z, Len(cstack), u),
         NEW stk, stk = Append(cstack, Activation("resume", co))
  PROVE  /\ \A thr1 : Updated(thread, co, u, thr1) => Good(stk, thr1, "run")
         /\ stk \in Seq(Records) /\ stk # <<>> /\ stk[Len(stk)].th = co /\ stk[Len(stk)].kind = "resume"
<1>1. PICK s, n, thr : s = cstack /\ n = Len(s) /\ thr = thread
  OBVIOUS
<1>2. PICK a, q : a = L /\ q = Top
  OBVIOUS
<1>3. doing = "run" /\ q.kind \in {"host", "cfunction", "hook"}
  BY <1>2 DEF InC
<1>4. /\ Good(s, thr, "run") /\ s \in Seq(Records) /\ s # <<>> /\ a = s[n].th /\ a \in Threads /\ q = s[n]
      /\ Typed
  <2>1. doing # "exit" /\ z = thread[a]
    BY <1>2, <1>3
  <2> QED BY <1>1, <1>2, <1>3, <2>1, Running
<1>5. /\ co \in Threads /\ ~ On(s, n, co) /\ x \in ThreadRecords /\ x.status \in {"ok", "yield"}
  BY <1>1, Suspended
<1>6. PICK r : r = Activation("resume", co)
  OBVIOUS
<1>7. /\ r \in Records /\ r.kind = "resume" /\ r.th = co /\ ~ r.called /\ r.old.jmp = x.jmp
  <2>1. "resume" \in Kinds /\ Typed /\ co \in Threads
    BY <1>4, <1>5 DEF Kinds
  <2>2. /\ r \in Records /\ r.kind = "resume" /\ r.th = co /\ ~ r.called /\ r.old.jmp = thread[co].jmp
    BY ONLY <1>6, <2>1, ActivationIs
  <2> QED BY <2>2
<1>8. Resumes(s, n, co, x, z, r, u)
  BY <1>1, <1>3, <1>4, <1>5, <1>7 DEF Resumes, Resuming
<1>9. ASSUME NEW thr1, Updated(thread, co, u, thr1) PROVE Good(stk, thr1, "run")
  <2>1. Updated(thr, co, u, thr1) /\ x = thr[co] /\ z = thr[a]
    BY <1>1, <1>2, <1>9
  <2>2. Good(Append(s, r), thr1, "run")
    BY ONLY <1>4, <1>8, <2>1, GoodResume
  <2> QED BY <1>1, <1>6, <2>2
<1>10. stk \in Seq(Records) /\ stk # <<>> /\ stk[Len(stk)] = r
  <2>1. /\ Append(s, r) \in Seq(Records) /\ Len(Append(s, r)) = Len(s) + 1 /\ Append(s, r) # <<>>
        /\ Append(s, r)[Len(s) + 1] = r
    BY ONLY <1>4, <1>7, Pushed
  <2> QED BY <1>1, <1>6, <2>1
<1> QED BY <1>7, <1>9, <1>10

\* Either resume raises an error in the coroutine u, or it enters the activation b.
LEMMA ResumedThen ==
  ASSUME NEW co \in Threads, NEW u \in ThreadRecords, u.status = "ok", u.ci = <<>>,
         u.ccalls <= MaxCcalls, Typed,
         NEW stk \in Seq(Records), stk # <<>>, stk[Len(stk)].th = co, stk[Len(stk)].kind = "resume",
         \A thr1 : Updated(thread, co, u, thr1) => Good(stk, thr1, "run"),
         NEW y, NEW thr2, Updated(thread, co, y, thr2)
  PROVE  /\ Alike(y, u, u.ci) => Good(stk, thr2, "errerr") /\ Good(stk, thr2, "error")
         /\ \A b \in Records : /\ b.th = co /\ b.kind = "execute" /\ b.n >= 1 /\ ~ b.called
                               /\ Alike(y, u, Own(b, co))
                               => Good(Append(stk, b), thr2, "run")
<1>1. PICK thr1 : Updated(thread, co, u, thr1) /\ thr1[co] = u
  <2>1. PICK t : t = [thread EXCEPT ![co] = u]
    OBVIOUS
  <2>2. Updated(thread, co, u, t)
    BY <2>1, UpdatedIs DEF Typed
  <2> QED BY <2>2 DEF Updated
<1>2. Good(stk, thr1, "run")
  BY <1>1
<1>3. Updated(thr1, co, y, thr2)
  BY <1>1 DEF Updated
<1>4. PICK a : a = co
  OBVIOUS
<1>5. /\ stk \in Seq(Records) /\ stk # <<>> /\ a \in Threads /\ a = stk[Len(stk)].th /\ u = thr1[a]
      /\ u \in ThreadRecords /\ u.status = "ok" /\ Updated(thr1, a, y, thr2) /\ Good(stk, thr1, "run")
  BY <1>1, <1>2, <1>3, <1>4
<1>6. u.ccalls < MaxCcalls + Margin
  BY CallAssumption DEF ThreadRecords
<1>7. ASSUME NEW dg2 \in {"error", "errerr"}, Alike(y, u, u.ci) PROVE Good(stk, thr2, dg2)
  <2>1. PICK dg : dg = "run"
    OBVIOUS
  <2>2. /\ y.ci = u.ci /\ (y.ccalls = u.ccalls \/ (dg = "run" /\ y.ccalls = u.ccalls + 1))
        /\ (dg2 = "error" => y.ccalls < MaxCcalls + Margin)
        /\ y.status = u.status /\ y.base = u.base /\ y.errfunc = u.errfunc /\ y.allowhook = u.allowhook
        /\ y.jmp = u.jmp /\ dg \in {"run", "error"} /\ dg2 \in {"error", "errrun", "errmem", "errerr"}
    BY <1>6, <1>7, <2>1 DEF Alike
  <2>3. Good(stk, thr1, dg)
    BY <1>2, <2>1
  <2> QED BY ONLY <1>5, <2>2, <2>3, GoodDoing
<1>8. ASSUME NEW b \in Records, b.th = co, b.kind = "execute", b.n >= 1, ~ b.called, Alike(y, u, Own(b, co))
      PROVE  Good(Append(stk, b), thr2, "run")
  <2>1. y.ci = u.ci \o Own(b, a)
    <3>1. Own(b, a) \in Seq(Functions)
      BY OwnType
    <3>2. <<>> \o Own(b, a) = Own(b, a)
      BY <3>1, ConcatEmptySeq
    <3> QED BY <1>4, <1>8, <3>2 DEF Alike
  <2>2. u.ccalls \in Nat /\ y.ccalls = u.ccalls
    BY <1>8 DEF Alike, ThreadRecords
  <2>3. /\ y.ccalls = u.ccalls + (IF b.called THEN 1 ELSE 0) /\ y.ccalls < MaxCcalls + Margin
        /\ y.status = u.status /\ y.base = u.base
        /\ y.errfunc = u.errfunc /\ y.allowhook = u.allowhook /\ y.jmp = u.jmp
    BY <1>6, <1>8, <2>2 DEF Alike
  <2>4. /\ b \in Records /\ b.th = a /\ b.kind \in {"execute", "cfunction"} /\ (b.kind = "execute" => b.n >= 1)
        /\ (~ b.called => \/ b.kind = "execute" /\ stk[Len(stk)].kind = "resume"
                          \/ b.kind = "cfunction" /\ stk[Len(stk)].kind = "execute")
    BY <1>4, <1>8
  <2> QED BY ONLY <1>5, <2>1, <2>3, <2>4, GoodBody
<1> QED BY <1>7, <1>8

\* The frames with which a coroutine goes on are those of one luaV_execute.
LEMMA YieldedIs ==
  ASSUME NEW f \in Seq(Functions), Yielded(f), NEW ci, ci = IF Last(f) = "c" THEN Front(f) ELSE f
  PROVE  ci = Lua(Len(ci)) /\ Len(ci) \in Nat \ {0} /\ ci \in Seq(Functions) /\ Len(ci) <= Len(f)
<1>1. f # <<>> /\ ci # <<>> /\ \A i \in DOMAIN ci : ci[i] = "lua"
  BY DEF Yielded
<1>2. /\ Len(f) \in Nat \ {0} /\ SubSeq(f, 1, Len(f) - 1) \in Seq(Functions)
      /\ Len(SubSeq(f, 1, Len(f) - 1)) = Len(f) - 1
  <2>1. f \in Seq(Functions) /\ f # <<>>
    BY <1>1
  <2> QED BY ONLY <2>1, FrontAndLast
<1>3. ci \in Seq(Functions) /\ Len(ci) <= Len(f)
  BY <1>2 DEF Front
<1>4. PICK n : n = Len(ci)
  OBVIOUS
<1>5. n \in Nat \ {0} /\ DOMAIN ci = 1..n /\ ci = [i \in 1..n |-> ci[i]]
  BY <1>1, <1>3, <1>4
<1>6. ci = Lua(n)
  BY <1>1, <1>5 DEF Lua
<1> QED BY <1>3, <1>4, <1>5, <1>6

LEMMA ContinuedIs ==
  ASSUME Typed, NEW co \in Threads, NEW ci, ci = Lua(Len(ci)), Len(ci) \in Nat \ {0}, NEW b, b = Continued(co, ci)
  PROVE  b \in Records /\ b.th = co /\ b.kind = "execute" /\ b.n >= 1 /\ ~ b.called /\ Own(b, co) = ci
<1>1. PICK c \in BOOLEAN : c = FALSE
  OBVIOUS
<1>2. PICK r, f, m : r = Body(f, co, c) /\ f = "lua" /\ m = Len(ci)
  OBVIOUS
<1>3. f \in Functions /\ Typed /\ co \in Threads /\ c \in BOOLEAN /\ r = Body(f, co, c)
  BY <1>2 DEF Functions
<1>4. /\ r \in Records /\ r.kind = (IF f = "lua" THEN "execute" ELSE "cfunction") /\ r.th = co
      /\ (r.called <=> c)
  BY ONLY <1>3, BodyIs
<1>5. b = [r EXCEPT !.n = m]
  BY <1>1, <1>2 DEF Continued
<1>6. b \in Records /\ b.kind = r.kind /\ b.th = r.th /\ (b.called <=> r.called) /\ b.n = m
  BY <1>2, <1>4, <1>5 DEF Records
<1>7. b.th = co /\ b.kind = "execute" /\ b.n >= 1 /\ ~ b.called
  BY <1>1, <1>2, <1>4, <1>6
<1>8. Own(b, co) = Lua(m)
  BY <1>6, <1>7, OwnIs
<1> QED BY <1>2, <1>6, <1>7, <1>8

\* The fields of the coroutine x, with the calls of the thread z.
Resumed(x, cc, ba, jm, ci, y) ==
  y = [x EXCEPT !.ccalls = cc, !.base = ba, !.jmp = jm, !.status = "ok", !.ci = ci]

LEMMA ResumedIs ==
  ASSUME NEW x \in ThreadRecords, NEW cc \in 0..(MaxCcalls + Margin), NEW ba \in 0..MaxCcalls, NEW jm \in Nat,
         NEW ci \in Seq(Functions), NEW y, Resumed(x, cc, ba, jm, ci, y)
  PROVE  /\ y \in ThreadRecords /\ y.ci = ci /\ y.ccalls = cc /\ y.status = "ok" /\ y.base = ba
         /\ y.size = x.size /\ y.errfunc = x.errfunc /\ y.allowhook = x.allowhook /\ y.jmp = jm
BY DEF ThreadRecords, Resumed, Status

LEMMA ResumeInv == ASSUME IInv, NEW co \in Coroutines, Resume(co) PROVE IInv'
<1>1. PICK s, thr : s = cstack /\ thr = thread
  OBVIOUS
<1>2. PICK a, z, q : a = L /\ z = thread[a] /\ q = Top
  OBVIOUS
<1>3. PICK x : x = thread[co]
  OBVIOUS
<1>4. InC /\ CoStatus(co) = "suspended" /\ doing = "run"
  BY DEF Resume, InC
<1>5. /\ Typed /\ Good(s, thr, "run") /\ s \in Seq(Records) /\ s # <<>> /\ z \in ThreadRecords
      /\ z.ccalls \in Nat /\ Len(s) \in Nat
  <2>1. doing # "exit"
    BY <1>4
  <2> QED BY <1>1, <1>2, <1>4, <2>1, Running
<1>6. /\ co \in Threads /\ ~ On(s, Len(s), co) /\ x \in ThreadRecords /\ Fits(x)
      /\ \/ x.status = "yield" /\ Yielded(x.ci)
         \/ x.status = "ok" /\ x.ci = <<>>
  BY <1>1, <1>3, <1>4, Suspended
<1>7. PICK c : c = z.ccalls
  OBVIOUS
<1>8. PICK t : t = [x EXCEPT !.ccalls = c]
  OBVIOUS
<1>9. t = SetLevel(thread[co], thread[L]) /\ t.ccalls = c /\ t.status = x.status /\ t.ci = x.ci
  BY <1>2, <1>3, <1>6, <1>7, <1>8 DEF SetLevel, ThreadRecords
<1>10. PICK stk : stk = Append(cstack, Activation("resume", co))
  OBVIOUS
<1>11. PICK f, k : f = x.ci /\ k = Len(s) + 1
  OBVIOUS
<1>12. PICK ci : ci = IF Last(f) = "c" THEN Front(f) ELSE f
  OBVIOUS
<1>13. PICK u : Resumed(x, c + 1, c + 1, k, x.ci, u)
  BY DEF Resumed
<1>14. IF c >= MaxCcalls
       THEN Effect(co, [t EXCEPT !.slots = "none"], cstack, "run")
       ELSE IF t.status = "yield"
       THEN Effect(co, [u EXCEPT !.ci = ci], Append(stk, Continued(co, ci)), "run")
       ELSE IF t.slots = "results" THEN Effect(co, u, stk, "error")
       ELSE PreCall(co, u, stk, Append(stk, Body("lua", co, FALSE)), "lua")
  <2>1. u = [t EXCEPT !.ccalls = @ + 1, !.base = t.ccalls + 1, !.jmp = Len(cstack) + 1, !.status = "ok"]
    BY <1>1, <1>6, <1>7, <1>8, <1>9, <1>11, <1>13 DEF Resumed, ThreadRecords
  <2> QED BY <1>9, <1>10, <1>11, <1>12, <2>1 DEF Resume
<1>15. "run" \in Doings /\ "error" \in Doings
  BY DEF Doings
<1>16. CASE c >= MaxCcalls
  <2>1. PICK y : y = [t EXCEPT !.slots = "none"]
    OBVIOUS
  <2>2. /\ y \in ThreadRecords /\ y.status = x.status /\ y.ci = x.ci /\ y.base = x.base /\ y.errfunc = x.errfunc
        /\ y.allowhook = x.allowhook /\ y.jmp = x.jmp /\ y.size = x.size
    <3>1. c \in 0..(MaxCcalls + Margin)
      BY <1>5, <1>7 DEF ThreadRecords
    <3> QED BY <1>6, <1>8, <2>1, <3>1 DEF ThreadRecords
  <2>3. Effect(co, y, s, "run")
    BY <1>1, <1>14, <1>16, <2>1
  <2>4. Fits(y)
    BY <1>6, <2>2 DEF Fits
  <2>5. ASSUME NEW thr2, Updated(thread, co, y, thr2) PROVE Good(s, thr2, "run")
    <3>1. x = thr[co] /\ Updated(thr, co, y, thr2)
      BY <1>1, <1>3, <2>5
    <3> QED BY ONLY <1>5, <1>6, <2>2, <3>1, GoodOther
  <2> QED BY <1>5, <1>6, <1>15, <2>3, <2>4, <2>5, EffectInv
<1>17. CASE ~ (c >= MaxCcalls)
  <2>1. c < MaxCcalls /\ c + 1 \in 0..MaxCcalls /\ c + 1 \in 0..(MaxCcalls + Margin) /\ k \in Nat
        /\ c + 1 <= MaxCcalls /\ c + 1 \in Nat
    BY <1>5, <1>7, <1>11, <1>17, CallAssumption
  <2>2. PICK b0, c1, e0 : b0 = c + 1 /\ c1 = c + 1 /\ e0 = <<>>
    OBVIOUS
  <2>3. PICK u0 : Resumed(x, c1, b0, k, e0, u0)
    BY DEF Resumed
  <2>4. /\ u0 \in ThreadRecords /\ u0.ci = e0 /\ u0.ccalls = c1 /\ u0.status = "ok" /\ u0.base = b0
        /\ u0.size = x.size /\ u0.errfunc = x.errfunc /\ u0.allowhook = x.allowhook /\ u0.jmp = k
    <3>1. x \in ThreadRecords /\ c1 \in 0..(MaxCcalls + Margin) /\ b0 \in 0..MaxCcalls /\ k \in Nat
          /\ e0 \in Seq(Functions)
      BY <1>6, <2>1, <2>2
    <3> QED BY ONLY <2>3, <3>1, ResumedIs
  <2>5. Resuming(x, z, Len(cstack), u0)
    BY <1>1, <1>7, <1>11, <2>2, <2>4 DEF Resuming
  <2>6. /\ \A thr1 : Updated(thread, co, u0, thr1) => Good(stk, thr1, "run")
        /\ stk \in Seq(Records) /\ stk # <<>> /\ stk[Len(stk)].th = co /\ stk[Len(stk)].kind = "resume"
    <3>1. z = thread[L] /\ z.ccalls < MaxCcalls
      BY <1>2, <1>7, <2>1
    <3> QED BY <1>3, <1>4, <1>10, <2>5, <3>1, ResumedGood
  <2>7. ASSUME NEW y, NEW thr2, Updated(thread, co, y, thr2)
        PROVE  /\ Alike(y, u0, u0.ci) => Good(stk, thr2, "errerr") /\ Good(stk, thr2, "error")
               /\ \A b \in Records : /\ b.th = co /\ b.kind = "execute" /\ b.n >= 1 /\ ~ b.called
                                     /\ Alike(y, u0, Own(b, co))
                                     => Good(Append(stk, b), thr2, "run")
    <3>1. /\ co \in Threads /\ u0 \in ThreadRecords /\ u0.status = "ok" /\ u0.ci = <<>>
          /\ u0.ccalls <= MaxCcalls /\ Typed
      BY <1>5, <1>6, <2>1, <2>2, <2>4
    <3> QED BY ONLY <2>6, <2>7, <3>1, ResumedThen
  <2>8. CASE x.status = "yield"
    <3>1. PICK b : b = Continued(co, ci)
      OBVIOUS
    <3>2. ci = Lua(Len(ci)) /\ Len(ci) \in Nat \ {0} /\ ci \in Seq(Functions) /\ Len(ci) <= Len(f)
      <4>1. f \in Seq(Functions) /\ Yielded(f)
        BY <1>6, <1>11, <2>8 DEF ThreadRecords
      <4> QED BY ONLY <1>12, <4>1, YieldedIs
    <3>3. b \in Records /\ b.th = co /\ b.kind = "execute" /\ b.n >= 1 /\ ~ b.called /\ Own(b, co) = ci
      BY <1>5, <1>6, <3>1, <3>2, ContinuedIs
    <3>4. PICK y : Resumed(x, c1, b0, k, ci, y)
      BY DEF Resumed
    <3>5. /\ y \in ThreadRecords /\ y.ci = ci /\ y.ccalls = c1 /\ y.status = "ok" /\ y.base = b0
          /\ y.size = x.size /\ y.errfunc = x.errfunc /\ y.allowhook = x.allowhook /\ y.jmp = k
      <4>1. x \in ThreadRecords /\ c1 \in 0..(MaxCcalls + Margin) /\ b0 \in 0..MaxCcalls /\ k \in Nat
            /\ ci \in Seq(Functions)
        BY <1>6, <2>1, <2>2, <3>2
      <4> QED BY ONLY <3>4, <4>1, ResumedIs
    <3>6. Effect(co, y, Append(stk, b), "run")
      <4>1. y = [u EXCEPT !.ci = ci]
        BY <1>6, <1>13, <2>2, <3>4 DEF Resumed, ThreadRecords
      <4> QED BY <1>9, <1>14, <1>17, <2>8, <3>1, <4>1
    <3>7. Alike(y, u0, Own(b, co))
      BY <2>4, <3>3, <3>5 DEF Alike
    <3>8. \A thr2 : Updated(thread, co, y, thr2) => Good(Append(stk, b), thr2, "run")
      BY <2>7, <3>3, <3>7
    <3>9. Fits(y)
      <4>1. PICK m, l, w : m = Len(ci) /\ l = Len(f) /\ w = x.size
        OBVIOUS
      <4>2. m \in Nat /\ l \in Nat /\ w \in Nat /\ m <= l /\ l < w /\ w <= 2 * MaxCalls
        BY <1>6, <1>11, <3>2, <4>1 DEF Fits, ThreadRecords
      <4>3. m < w
        BY ONLY <4>2
      <4> QED BY <3>5, <4>1, <4>2, <4>3 DEF Fits
    <3>10. Append(stk, b) \in Seq(Records) /\ Append(stk, b) # <<>>
      BY <2>6, <3>3, Pushed
    <3> QED BY <1>5, <1>6, <1>15, <3>6, <3>8, <3>9, <3>10, EffectInv
  <2>9. CASE x.status # "yield"
    <3>1. x.status = "ok" /\ x.ci = e0
      BY <1>6, <2>2, <2>9
    <3>2. u = u0
      BY <1>13, <2>2, <2>3, <3>1 DEF Resumed
    <3>3. Fits(u)
      BY <1>6, <2>4, <3>1, <3>2 DEF Fits
    <3>4. CASE t.slots = "results"
      <4>1. Effect(co, u, stk, "error")
        BY <1>9, <1>14, <1>17, <2>9, <3>4
      <4>2. \A thr2 : Updated(thread, co, u, thr2) => Good(stk, thr2, "error")
        BY <2>7, <3>2, AlikeSame
      <4> QED BY <1>5, <1>6, <1>15, <2>6, <3>3, <4>1, <4>2, EffectInv
    <3>5. CASE t.slots # "results"
      <4>1. PICK h \in BOOLEAN : h = FALSE
        OBVIOUS
      <4>2. PICK g : g = "lua"
        OBVIOUS
      <4>3. PICK b : b = Body(g, co, h)
        OBVIOUS
      <4>4. PICK stk1 : stk1 = Append(stk, b)
        OBVIOUS
      <4>5. PreCall(co, u, stk, stk1, g)
        BY <1>9, <1>14, <1>17, <2>9, <3>5, <4>1, <4>2, <4>3, <4>4
      <4>6. b \in Records /\ b.th = co /\ b.kind = "execute" /\ b.n >= 1 /\ ~ b.called /\ Own(b, co) = <<g>>
        <5>1. Typed /\ g \in Functions /\ co \in Threads /\ h \in BOOLEAN
          BY <1>5, <1>6, <4>2 DEF Functions
        <5>2. /\ b \in Records /\ b.kind = (IF g = "lua" THEN "execute" ELSE "cfunction") /\ b.th = co
              /\ (b.called <=> h) /\ (b.kind = "execute" => b.n = 1) /\ Own(b, co) = <<g>>
          BY ONLY <4>3, <5>1, BodyIs
        <5> QED BY <4>1, <4>2, <5>2
      <4>7. stk1 \in Seq(Records) /\ stk1 # <<>>
        BY <2>6, <4>4, <4>6, Pushed
      <4>8. Append(u.ci, g) = Own(b, co)
        <5>1. Append(<<>>, g) = <<g>>
          OBVIOUS
        <5>2. u.ci = <<>>
          BY <2>2, <2>4, <3>2
        <5> QED BY <4>6, <5>1, <5>2
      <4>9. ASSUME NEW y, NEW thr2, Updated(thread, co, y, thr2)
            PROVE  /\ Alike(y, u, u.ci) => Good(stk, thr2, "errerr") /\ Good(stk, thr2, "error")
                   /\ Alike(y, u, Append(u.ci, g)) => Good(stk1, thr2, "run")
        BY <2>7, <3>2, <4>4, <4>6, <4>8, <4>9
      <4>10. g \in Functions
        BY <4>2 DEF Functions
      <4> QED BY <1>5, <1>6, <2>6, <3>3, <4>5, <4>7, <4>9, <4>10, PreCallInv
    <3> QED BY <3>4, <3>5
  <2> QED BY <2>8, <2>9
<1> QED BY <1>16, <1>17

LEMMA YieldInv == ASSUME IInv, Yield PROVE IInv'
<1>1. PICK s, thr : s = cstack /\ thr = thread
  OBVIOUS
<1>2. PICK a, x, r : a = L /\ x = thread[a] /\ r = Top
  OBVIOUS
<1>3. /\ doing = "run" /\ r.kind \in {"cfunction", "hook"}
      /\ (r.kind = "hook" => s[Len(s) - 1].kind = "execute")
  BY <1>1, <1>2 DEF Yield, InC
<1>4. /\ Typed /\ Good(s, thr, "run") /\ s \in Seq(Records) /\ s # <<>> /\ a \in Threads /\ a = s[Len(s)].th
      /\ x \in ThreadRecords /\ Fits(x) /\ r = s[Len(s)] /\ x.status = "ok" /\ x = thr[a] /\ x.ccalls \in Nat
  BY <1>1, <1>2, <1>3, Running
<1>5. CASE Crosses(x)
  <2>1. doing' = "error" /\ UNCHANGED <<thread, cstack>>
    BY <1>2, <1>5 DEF Yield
  <2>2. PICK dg2 : dg2 = doing'
    OBVIOUS
  <2> QED BY <1>2, <1>3, <1>4, <2>1, <2>2, DoingInv
<1>6. CASE ~ Crosses(x)
  <2>1. PICK h : h = IF r.kind = "hook" THEN TRUE ELSE x.allowhook
    OBVIOUS
  <2>2. PICK y : y = [x EXCEPT !.status = "yield", !.allowhook = h]
    OBVIOUS
  <2>3. PICK m, t : m = Len(s) - 2 /\ t = SubSeq(s, 1, m)
    OBVIOUS
  <2>4. Effect(a, y, t, "run")
    BY <1>1, <1>2, <1>6, <2>1, <2>2, <2>3 DEF Yield
  <2>5. /\ y \in ThreadRecords /\ y.status = "yield" /\ y.base = x.base /\ y.ci = x.ci /\ y.ccalls = x.ccalls
        /\ y.errfunc = x.errfunc /\ y.jmp = x.jmp /\ y.allowhook = h /\ y.size = x.size
    <3>1. h \in BOOLEAN
      BY <1>4, <2>1 DEF ThreadRecords
    <3>2. "yield" \in Status
      BY DEF Status
    <3> QED BY <1>4, <2>2, <3>1, <3>2 DEF ThreadRecords
  <2>6. Yields(x, r, y)
    BY <2>1, <2>5 DEF Yields
  <2>7. x.ccalls <= x.base
    <3>1. x.base \in Nat
      BY <1>4, CallAssumption DEF ThreadRecords
    <3> QED BY <1>4, <1>6, <3>1 DEF Crosses
  <2>8. ASSUME NEW thr2, Updated(thr, a, y, thr2)
        PROVE  Len(s) - 2 \in 1..Len(s) /\ Good(SubSeq(s, 1, Len(s) - 2), thr2, "run")
    <3>1. /\ r.kind \in {"cfunction", "hook"} /\ (r.kind = "hook" => s[Len(s) - 1].kind = "execute")
      BY <1>3
    <3> QED BY ONLY <1>4, <2>6, <2>7, <2>8, <3>1, GoodYield
  <2>9. PICK thr1 : Updated(thr, a, y, thr1)
    <3>1. PICK thr2 : thr2 = [thr EXCEPT ![a] = y]
      OBVIOUS
    <3>2. Updated(thr, a, y, thr2)
      BY <1>1, <1>4, <3>1, UpdatedIs DEF Typed
    <3> QED BY <3>2
  <2>10. m \in 1..Len(s)
    BY <2>3, <2>8, <2>9
  <2>11. t \in Seq(Records) /\ t # <<>>
    <3>1. SubSeq(s, 1, m) \in Seq(Records) /\ SubSeq(s, 1, m) # <<>>
      BY ONLY <1>4, <2>10, CutIs
    <3> QED BY <2>3, <3>1
  <2>12. Fits(y)
    BY <1>4, <2>5 DEF Fits
  <2>13. \A thr2 : Updated(thread, a, y, thr2) => Good(t, thr2, "run")
    BY <1>1, <2>3, <2>8
  <2>14. "run" \in Doings
    BY DEF Doings
  <2> QED BY <1>4, <2>4, <2>11, <2>12, <2>13, <2>14, EffectInv
<1> QED BY <1>5, <1>6

---------------------------------------------------------------------------
(* Hooks and the collector *)

LEMMA CallHookInv == ASSUME IInv, CallHook PROVE IInv'
<1>1. PICK a, x, r : a = L /\ x = thread[a] /\ r = Top
  OBVIOUS
<1>2. PICK h \in BOOLEAN : h = FALSE
  OBVIOUS
<1>3. PICK k, y : k = "hook" /\ y = [x EXCEPT !.allowhook = h]
  OBVIOUS
<1>4. PICK t : t = Append(cstack, Activation(k, a))
  OBVIOUS
<1>5. doing = "run" /\ r.kind \in {"execute", "cfunction"} /\ x.allowhook /\ Effect(a, y, t, "run")
  BY <1>1, <1>2, <1>3, <1>4 DEF CallHook
<1>6. Typed /\ a \in Threads /\ x \in ThreadRecords /\ Fits(x) /\ x.status = "ok"
  BY <1>1, <1>5, Running
<1>7. /\ y \in ThreadRecords /\ y.status = x.status /\ y.base = x.base /\ y.ci = x.ci /\ y.ccalls = x.ccalls
      /\ y.errfunc = x.errfunc /\ y.jmp = x.jmp /\ y.allowhook = h /\ y.size = x.size
  BY <1>3, <1>6 DEF ThreadRecords
<1>8. Saving(x, k, y, Len(cstack)) /\ k \in Saves \cup {"hook"} /\ k # "pcall"
  BY <1>2, <1>3, <1>7 DEF Saving
<1>9. ASSUME NEW thr2, Updated(thread, a, y, thr2)
      PROVE  Good(t, thr2, "run") /\ t \in Seq(Records) /\ t # <<>>
  <2>1. /\ IInv /\ a = L /\ x = thread[a] /\ x.status = "ok"
        /\ (doing = "run" \/ (doing = "error" /\ k = "errormsg"))
        /\ (k = "hook" => Top.kind \in {"execute", "cfunction"} /\ x.allowhook) /\ y \in ThreadRecords
    BY <1>1, <1>5, <1>6, <1>7
  <2>2. Good(Append(cstack, Activation(k, a)), thr2, "run")
         /\ Append(cstack, Activation(k, a)) \in Seq(Records) /\ Append(cstack, Activation(k, a)) # <<>>
    BY ONLY <1>8, <1>9, <2>1, SavedGood
  <2> QED BY <1>4, <2>2
<1>10. PICK thr1 : Updated(thread, a, y, thr1)
  <2>1. PICK thr2 : thr2 = [thread EXCEPT ![a] = y]
    OBVIOUS
  <2>2. Updated(thread, a, y, thr2)
    BY <1>6, <2>1, UpdatedIs DEF Typed
  <2> QED BY <2>2
<1>11. Fits(y)
  BY <1>6, <1>7 DEF Fits
<1>12. "run" \in Doings
  BY DEF Doings
<1> QED BY <1>5, <1>6, <1>9, <1>10, <1>11, <1>12, EffectInv

LEMMA CheckStackSizesInv == ASSUME IInv, NEW b \in Threads, CheckStackSizes(b) PROVE IInv'
<1>1. PICK s, thr : s = cstack /\ thr = thread
  OBVIOUS
<1>2. PICK x, w, l : x = thread[b] /\ w = x.size \div 2 /\ l = Len(x.ci)
  OBVIOUS
<1>3. PICK y : y = [x EXCEPT !.size = w]
  OBVIOUS
<1>4. doing = "run" /\ 4 * l < x.size /\ 2 * BasicCi < x.size /\ Effect(b, y, s, "run")
  BY <1>1, <1>2, <1>3 DEF CheckStackSizes, InLua, InC
<1>5. Typed /\ Good(s, thr, "run") /\ s \in Seq(Records) /\ s # <<>> /\ x \in ThreadRecords /\ Fits(x)
  BY <1>1, <1>2, <1>4 DEF IInv, Typed
<1>6. PICK z : z = x.size
  OBVIOUS
<1>7. z \in Nat /\ l \in Nat /\ z <= 2 * MaxCalls /\ 2 <= BasicCi /\ BasicCi \in Nat /\ MaxCalls \in Nat
      /\ 4 * l < z /\ 2 * BasicCi < z /\ w = z \div 2
  BY <1>2, <1>4, <1>5, <1>6, CallAssumption DEF Fits, ThreadRecords
<1>8. w \in Nat /\ l < w /\ w <= 2 * MaxCalls
  BY ONLY <1>7
<1>9. /\ y \in ThreadRecords /\ y.status = x.status /\ y.base = x.base /\ y.ci = x.ci /\ y.ccalls = x.ccalls
      /\ y.errfunc = x.errfunc /\ y.jmp = x.jmp /\ y.allowhook = x.allowhook /\ y.size = w
  BY <1>3, <1>5, <1>8 DEF ThreadRecords
<1>10. Fits(y)
  BY <1>2, <1>8, <1>9 DEF Fits
<1>11. ASSUME NEW thr2, Updated(thread, b, y, thr2) PROVE Good(s, thr2, "run")
  <2>1. x = thr[b] /\ Updated(thr, b, y, thr2) /\ b \in Threads
    BY <1>1, <1>2, <1>11
  <2> QED BY ONLY <1>5, <1>9, <2>1, GoodOther
<1>12. "run" \in Doings
  BY DEF Doings
<1> QED BY <1>4, <1>5, <1>10, <1>11, <1>12, EffectInv

---------------------------------------------------------------------------
(* The invariant *)

LEMMA InitInv == ASSUME Init PROVE IInv
<1>1. PICK h \in BOOLEAN, g \in BOOLEAN : h = TRUE /\ g = FALSE
  OBVIOUS
<1>2. PICK x : x = [status |-> "ok", ci |-> <<>>, ccalls |-> 0, base |-> 0, size |-> BasicCi,
                    errfunc |-> "none", allowhook |-> h, jmp |-> 0, slots |-> "body"]
  OBVIOUS
<1>3. /\ x.status = "ok" /\ x.ci = <<>> /\ x.ccalls = 0 /\ x.base = 0 /\ x.size = BasicCi /\ x.errfunc = "none"
      /\ x.allowhook /\ x.jmp = 0 /\ x \in ThreadRecords
  <2>1. /\ "ok" \in Status /\ <<>> \in Seq(Functions) /\ 0 \in 0..(MaxCcalls + Margin) /\ 0 \in 0..MaxCcalls
        /\ BasicCi \in Nat /\ "none" \in ErrFuncs
    BY CallAssumption DEF Status, ErrFuncs
  <2> QED BY <1>1, <1>2, <2>1 DEF ThreadRecords
<1>4. Fits(x)
  <2>1. 0 < BasicCi /\ BasicCi <= 2 * MaxCalls /\ Len(x.ci) = 0
    BY <1>3, CallAssumption
  <2> QED BY <1>3, <2>1 DEF Fits
<1>5. thread = [th \in Threads |-> x] /\ doing = "run"
  BY <1>1, <1>2 DEF Init, NewThread
<1>6. PICK o : o = [jmp |-> 0]
  OBVIOUS
<1>7. PICK r : r = [kind |-> "host", th |-> Main, n |-> 0, called |-> g, old |-> o]
  OBVIOUS
<1>8. PICK s : s = cstack
  OBVIOUS
<1>9. s = <<r>>
  BY <1>1, <1>6, <1>7, <1>8 DEF Init
<1>10. r \in Records /\ r.kind = "host" /\ r.th = Main /\ ~ r.called
  <2>1. "host" \in Kinds /\ Main \in Threads /\ 0 \in Nat /\ o \in OldRecords
    BY <1>6 DEF Kinds, Threads, OldRecords
  <2>2. r \in Records
    BY <1>7, <2>1, RecordIs
  <2> QED BY <1>1, <1>7, <2>2
<1>11. /\ s \in Seq(Records) /\ s # <<>> /\ Len(s) = 1 /\ s[1] = r
       /\ \A i \in 1..1 : i = 1 /\ s[i] = r
  BY <1>9, <1>10
<1>12. PICK d, e : d = <<0>> /\ e = <<"none">>
  OBVIOUS
<1>13. d[1] = 0 /\ e[1] = "none"
  BY <1>12
<1>14. StackOK(s, 1, d, e)
  <2>1. Placed(s, 1)
    BY <1>10, <1>11 DEF Placed
  <2>2. Contiguous(s, 1)
    BY DEF Contiguous
  <2>3. Remembered(s, 1)
    BY <1>10, <1>11 DEF Remembered, Saves
  <2>4. Counted(s, d, 1)
    <3>1. 0 \in 0..(MaxCcalls + Margin - 1)
      BY CallAssumption
    <3> QED BY <1>10, <1>11, <1>13, <3>1 DEF Counted, Saves
  <2>5. Handled(s, e, 1)
    BY <1>10, <1>11, <1>13 DEF Handled, Saves, ErrFuncs
  <2> QED BY <1>11, <2>1, <2>2, <2>3, <2>4, <2>5 DEF StackOK
<1>15. ASSUME NEW th \in Threads PROVE ThreadOK(s, 1, d, e, th, x, "run")
  <2>1. JumpOK(s, 1, th, x)
    BY <1>3, <1>10, <1>11 DEF JumpOK, Innermost, Target
  <2>2. YieldOK(s, 1, th, x, "run")
    BY <1>3 DEF YieldOK
  <2>3. HookOK(s, 1, th, x)
    BY <1>3, <1>10, <1>11 DEF HookOK, Hooked
  <2>4. FramesOK(s, 1, th, x)
    <3>1. \A i \in 1..1 : s[i] \in Records
      BY <1>10, <1>11
    <3>2. \A i \in (0 + 1)..1 : Own(s[i], th) = <<>>
      BY <1>10, <1>11, OwnIs
    <3>3. FramesUpTo(s, 1, th) = FramesUpTo(s, 0, th)
      BY ONLY <3>1, <3>2, FramesSkip
    <3> QED BY <1>3, <3>3, FramesZero DEF FramesOK
  <2>5. StatusOK(s, 1, th, x)
    BY <1>3 DEF StatusOK
  <2>6. WaitOK(s, 1, d, e, th, x)
    BY DEF WaitOK
  <2>7. BaseOK(s, 1, d, th, x)
    BY <1>3, <1>10, <1>11, <1>13 DEF BaseOK
  <2>8. TopOK(s, 1, d, e, th, x, "run")
    BY <1>3, <1>13, CallAssumption DEF TopOK
  <2> QED BY <2>1, <2>2, <2>3, <2>4, <2>5, <2>6, <2>7, <2>8 DEF ThreadOK
<1>16. \A th \in Threads : thread[th] = x
  BY <1>5
<1>17. Core(s, 1, d, e, thread, "run")
  BY <1>14, <1>15, <1>16 DEF Core
<1>18. Good(s, thread, "run")
  BY <1>11, <1>17 DEF Good
<1>19. Typed
  <2>1. doing \in Doings
    BY <1>5 DEF Doings
  <2>2. thread \in [Threads -> ThreadRecords] /\ \A th \in Threads : Fits(thread[th])
    BY <1>3, <1>4, <1>5, <1>16
  <2> QED BY <1>8, <1>11, <2>1, <2>2 DEF Typed
<1> QED BY <1>5, <1>8, <1>18, <1>19 DEF IInv

LEMMA NextInv == ASSUME IInv, [Next]_vars PROVE IInv'
<1>1. ASSUME NEW f \in Functions, OpCall(f) \/ DCall(f) \/ CallFinalizer(f) PROVE IInv'
  BY <1>1, OpCallInv, DCallInv, CallFinalizerInv
<1>2. ASSUME NEW f \in Functions, NEW ef \in Handlers, PCall(f, ef) PROVE IInv'
  BY <1>2, PCallInv
<1>3. CASE OpTailCall \/ OpReturn \/ CReturn \/ PCallReturns
  BY <1>3, OpTailCallInv, OpReturnInv, CReturnInv, PCallReturnsInv
<1>4. CASE Error \/ Throw \/ ErrorMsg \/ HandlerReturns \/ Catch \/ Die \/ Panic
  BY <1>4, ErrorInv, ErrorMsgInv, HandlerReturnsInv, CatchInv, DieInv, PanicInv
<1>5. ASSUME NEW co \in Coroutines, Resume(co) PROVE IInv'
  BY <1>5, ResumeInv
<1>6. ASSUME NEW toomany \in BOOLEAN, ResumeReturns(toomany) PROVE IInv'
  BY <1>6, ResumeReturnsInv
<1>7. CASE Yield \/ CallHook \/ HookReturns \/ FinalizerReturns
  BY <1>7, YieldInv, CallHookInv, HookReturnsInv, FinalizerReturnsInv
<1>8. ASSUME NEW th \in Threads, CheckStackSizes(th) PROVE IInv'
  BY <1>8, CheckStackSizesInv
<1>9. CASE UNCHANGED vars
  <2>1. thread' = thread /\ cstack' = cstack /\ doing' = doing
    BY <1>9 DEF vars
  <2> QED BY <2>1 DEF IInv, Typed
<1> QED BY <1>1, <1>2, <1>3, <1>4, <1>5, <1>6, <1>7, <1>8, <1>9 DEF Next

\* The activations of the C stack and the fields of the threads always agree: this is the
\* inductive invariant from which the properties follow.
THEOREM StackInvariant == Spec => []IInv
<1>1. Init => IInv
  BY InitInv
<1>2. IInv /\ [Next]_vars => IInv'
  BY NextInv
<1> QED BY <1>1, <1>2, PTL DEF Spec

---------------------------------------------------------------------------
(* What follows from it *)

\* C calls and CallInfos stay within their limits, also while an error that was caused by
\* reaching one is handled (LUAI_MAXCCALLS of luaD_call, LUAI_MAXCALLS of growCI).
THEOREM LimitsHold == Spec => []WithinLimits
<1>1. IInv => WithinLimits
  <2> SUFFICES ASSUME IInv PROVE WithinLimits
    OBVIOUS
  <2>1. PICK s, n, thr, dg : s = cstack /\ n = Len(s) /\ thr = thread /\ dg = doing
    OBVIOUS
  <2>2. s \in Seq(Records) /\ s # <<>> /\ thr \in [Threads -> ThreadRecords] /\ dg \in Doings
    BY <2>1 DEF IInv, Typed
  <2>3. n \in Nat /\ DOMAIN s = 1..n /\ \A i \in 1..n : s[i] \in Records
    BY <2>1, <2>2, ElementOfSeq
  <2>4. PICK d, e : Core(s, n, d, e, thr, dg)
    BY <2>1 DEF IInv, Good
  <2>5. ASSUME NEW th \in Threads PROVE thr[th].jmp \in 0..n
    BY <2>4 DEF Core, ThreadOK, JumpOK, Innermost
  <2>6. PICK TR : TR =
       [status : Status, ci : Seq(Functions), ccalls : 0..(MaxCcalls + Margin),
        base : 0..MaxCcalls, size : Nat, errfunc : {"none", "notfunction"} \cup Functions,
        allowhook : BOOLEAN, jmp : 0..n, slots : {"body", "results", "none"}]
    OBVIOUS
  <2>7. ASSUME NEW th \in Threads PROVE thr[th] \in TR
    <3>1. PICK x : x = thr[th]
      OBVIOUS
    <3>2. x \in ThreadRecords /\ x.jmp \in 0..n
      BY <2>2, <2>5, <3>1
    <3>3. x \in TR
      BY <2>6, <3>2 DEF ThreadRecords, ErrFuncs
    <3> QED BY <3>1, <3>3
  <2>8. thread \in [Threads -> TR]
    BY <2>1, <2>2, <2>7
  <2>9. \A i \in DOMAIN cstack : cstack[i].th \in Threads
    BY <2>1, <2>3 DEF Records
  <2>10. TypeOK
    BY <2>1, <2>2, <2>6, <2>8, <2>9 DEF TypeOK, Doings
  <2>11. CallInfosFit
    BY DEF CallInfosFit, IInv, Typed, Fits
  <2> QED BY <2>10, <2>11 DEF WithinLimits
<1> QED BY <1>1, StackInvariant, PTL

\* What the invariant says of the C stack, position by position.
Facts(s, n, d, e, thr, dg) ==
  /\ s \in Seq(Records) /\ s # <<>> /\ n = Len(s) /\ n \in Nat \ {0} /\ DOMAIN s = 1..n
  /\ \A i \in 1..n : s[i] \in Records
  /\ thr \in [Threads -> ThreadRecords] /\ Good(s, thr, dg)
  /\ StackOK(s, n, d, e) /\ \A th \in Threads : ThreadOK(s, n, d, e, th, thr[th], dg)

LEMMA FactsHold == ASSUME IInv PROVE \E d, e : Facts(cstack, Len(cstack), d, e, thread, doing)
<1>1. PICK s, n, thr, dg : s = cstack /\ n = Len(s) /\ thr = thread /\ dg = doing
  OBVIOUS
<1>2. s \in Seq(Records) /\ s # <<>> /\ thr \in [Threads -> ThreadRecords] /\ Good(s, thr, dg)
  BY <1>1 DEF IInv, Typed
<1>3. n \in Nat \ {0} /\ DOMAIN s = 1..n /\ \A i \in 1..n : s[i] \in Records
  BY <1>1, <1>2, EmptySeq, ElementOfSeq
<1>4. PICK d, e : Core(s, n, d, e, thr, dg)
  BY <1>1, <1>2 DEF Good
<1>5. Facts(s, n, d, e, thr, dg)
  BY <1>1, <1>2, <1>3, <1>4 DEF Facts, Core
<1> QED BY <1>1, <1>5

\* nexeccalls and the C stack account for every CallInfo, and a coroutine that has yielded
\* keeps the frames with which luaV_execute can go on (resume, ldo.c).
THEOREM FramesAccounted == Spec => []FramesKept
<1>1. IInv => FramesKept
  <2> SUFFICES ASSUME IInv PROVE FramesKept
    OBVIOUS
  <2>1. PICK s, n, thr, dg : s = cstack /\ n = Len(s) /\ thr = thread /\ dg = doing
    OBVIOUS
  <2>2. PICK d, e : Facts(s, n, d, e, thr, dg)
    BY <2>1, FactsHold
  <2>3. ASSUME dg # "exit", NEW th \in Threads, thr[th].status = "ok"
        PROVE  thr[th].ci = FlattenSeq([i \in DOMAIN s |-> IF s[i].th = th THEN Frames(s[i]) ELSE <<>>])
    <3>1. FramesOK(s, n, th, thr[th])
      BY <2>2, <2>3 DEF Facts, ThreadOK
    <3>2. thr[th].ci = FramesUpTo(s, n, th)
      BY <2>3, <3>1 DEF FramesOK
    <3> QED BY <2>2, <3>2 DEF Facts, FramesUpTo, Own
  <2>4. FramesMatch
    BY <2>1, <2>3 DEF FramesMatch
  <2>5. ASSUME NEW co \in Coroutines, thr[co].status = "yield"
        PROVE  Yielded(thr[co].ci) /\ (OnStack(co) => L = co /\ Top.kind = "resume")
    <3>1. YieldOK(s, n, co, thr[co], dg)
      BY <2>2 DEF Facts, ThreadOK, Threads
    <3>2. OnStack(co) => On(s, n, co)
      BY <2>1, <2>2 DEF Facts, OnStack, On
    <3> QED BY <2>1, <2>5, <3>1, <3>2 DEF YieldOK, L, Top
  <2>6. YieldedFrames
    BY <2>1, <2>5 DEF YieldedFrames, Yielded
  <2> QED BY <2>4, <2>6 DEF FramesKept
<1> QED BY <1>1, StackInvariant, PTL

\* There is only one innermost target.
LEMMA InnermostIs ==
  ASSUME NEW s, NEW n \in Nat \ {0}, NEW th, NEW i, NEW j, Innermost(s, n, th, i), Innermost(s, n - 1, th, j),
         ~ Target(s[n], th)
  PROVE  i = j
<1>1. i \in 0..n /\ j \in 0..(n - 1) /\ i # n
  BY DEF Innermost
<1>2. CASE i < j
  <2>1. j \in (i + 1)..n /\ j # 0
    BY <1>1, <1>2
  <2> QED BY <2>1 DEF Innermost
<1>3. CASE j < i
  <2>1. i \in (j + 1)..(n - 1) /\ i # 0
    BY <1>1, <1>3
  <2> QED BY <2>1 DEF Innermost
<1> QED BY <1>1, <1>2, <1>3

\* When a protected call, a handler or a finalizer comes back, the thread is as it was before,
\* and its hooks are off exactly while a hook or a finalizer runs (luaD_pcall, GCTM, ldo.c:200).
THEOREM ErrorsLeaveNothing == Spec => []ThreadRestored
<1>1. IInv => ThreadRestored
  <2> SUFFICES ASSUME IInv PROVE ThreadRestored
    OBVIOUS
  <2>1. PICK s, n, thr, dg : s = cstack /\ n = Len(s) /\ thr = thread /\ dg = doing
    OBVIOUS
  <2>2. PICK d, e : Facts(s, n, d, e, thr, dg)
    BY <2>1, FactsHold
  <2>3. PICK r, a, t : r = s[n] /\ a = r.th /\ t = thr[a]
    OBVIOUS
  <2>4. L = a /\ Top = r /\ a \in Threads /\ r \in Records /\ n \in 1..n /\ n \in Nat \ {0}
        /\ t \in ThreadRecords /\ \A i \in 1..n : s[i] \in Records
    BY <2>1, <2>2, <2>3 DEF Facts, L, Top, Records
  <2>5. Placed(s, n) /\ Remembered(s, n) /\ Counted(s, d, n) /\ Handled(s, e, n) /\ ThreadOK(s, n, d, e, a, t, dg)
    BY <2>2, <2>3, <2>4 DEF Facts, StackOK
  <2>6. ASSUME dg = "run", r.kind \in Saves
        PROVE  /\ t.ccalls = r.old.ccalls
               /\ Len(t.ci) = r.old.ci
               /\ r.kind # "gctm" => t.allowhook = r.old.allowhook
               /\ r.kind # "pcall" => t.errfunc = r.old.errfunc /\ t.jmp = r.old.jmp
    <3>1. r.kind \notin {"host", "resume", "execute", "cfunction", "hook"} /\ dg # "exit"
      BY <2>6 DEF Saves
    <3>2. n # 1 /\ n - 1 \in 1..n /\ n - 1 \in 0..n /\ n - 1 \in Nat /\ n - 1 + 1 = n
      BY <2>3, <2>4, <2>5, <3>1 DEF Placed
    <3>3. t.status = "ok"
      <4>1. On(s, n, a)
        BY <2>3, <2>4 DEF On
      <4>2. t.status \in {"ok", "yield"}
        BY <2>5, <3>1, <4>1 DEF ThreadOK, StatusOK
      <4>3. t.status # "yield"
        BY <2>3, <2>5, <3>1, <4>1 DEF ThreadOK, YieldOK
      <4> QED BY <4>2, <4>3
    <3>4. t.ccalls = r.old.ccalls
      BY <2>3, <2>5, <2>6, <3>1 DEF ThreadOK, TopOK, Counted
    <3>5. Len(t.ci) = r.old.ci
      <4>1. t.ci = FramesUpTo(s, n, a)
        BY <2>5, <3>1, <3>3 DEF ThreadOK, FramesOK
      <4>2. \A i \in (n - 1 + 1)..n : Own(s[i], a) = <<>>
        <5>1. \A i \in (n - 1 + 1)..n : i = n
          BY <2>4
        <5>2. Own(s[n], a) = <<>>
          BY <2>3, <3>1, OwnIs
        <5> QED BY <5>1, <5>2
      <4>3. PICK k : k = n - 1
        OBVIOUS
      <4>4. n \in Nat /\ k \in 0..n /\ (\A i \in 1..n : s[i] \in Records) /\ \A i \in (k + 1)..n : Own(s[i], a) = <<>>
        BY <2>4, <3>2, <4>2, <4>3
      <4>5. FramesUpTo(s, n, a) = FramesUpTo(s, k, a)
        BY ONLY <4>4, FramesSkip
      <4>6. r.old.ci = Len(FramesUpTo(s, k, a))
        BY <2>3, <2>5, <2>6, <4>3 DEF Remembered
      <4> QED BY <4>1, <4>5, <4>6
    <3>6. r.kind # "gctm" => t.allowhook = r.old.allowhook
      <4>1. t.allowhook <=> ~ Hooked(s, n, a)
        BY <2>5, <3>1, <3>3 DEF ThreadOK, HookOK
      <4>2. (r.old.allowhook <=> ~ Hooked(s, n - 1, a)) /\ r.old.allowhook \in BOOLEAN
        BY <2>3, <2>5, <2>6 DEF Remembered
      <4>3. r.kind # "gctm" => (Hooked(s, n, a) <=> Hooked(s, n - 1, a))
        <5>1. \A i : i \in 1..n <=> (i \in 1..(n - 1) \/ i = n)
          BY <2>4
        <5> QED BY <2>3, <3>1, <5>1 DEF Hooked
      <4>4. t.allowhook \in BOOLEAN
        BY <2>4 DEF ThreadRecords
      <4> QED BY <4>1, <4>2, <4>3, <4>4
    <3>7. r.kind # "pcall" => t.errfunc = r.old.errfunc
      BY <2>3, <2>5, <2>6, <3>1 DEF ThreadOK, TopOK, Handled
    <3>8. r.kind # "pcall" => t.jmp = r.old.jmp
      <4>1. Innermost(s, n, a, t.jmp)
        BY <2>5 DEF ThreadOK, JumpOK
      <4>2. Innermost(s, n - 1, a, r.old.jmp)
        BY <2>3, <2>5, <2>6 DEF Remembered
      <4>3. r.kind # "pcall" => ~ Target(s[n], a)
        BY <2>3, <3>1 DEF Target
      <4> QED BY <2>4, <4>1, <4>2, <4>3, InnermostIs
    <3> QED BY <3>4, <3>5, <3>6, <3>7, <3>8
  <2>7. Balanced
    BY <2>1, <2>3, <2>4, <2>6 DEF Balanced, Saves
  <2>8. ASSUME dg # "exit", NEW th \in Threads, thr[th].status \in {"ok", "yield"}
        PROVE  thr[th].allowhook = ~ \E i \in DOMAIN s : s[i].th = th /\ s[i].kind \in {"hook", "gctm"}
    <3>1. thr[th].allowhook <=> ~ Hooked(s, n, th)
      BY <2>2, <2>8 DEF Facts, ThreadOK, HookOK
    <3>2. Hooked(s, n, th) <=> \E i \in DOMAIN s : s[i].th = th /\ s[i].kind \in {"hook", "gctm"}
      BY <2>2 DEF Facts, Hooked
    <3>3. thr[th].allowhook \in BOOLEAN
      BY <2>2 DEF Facts, ThreadRecords
    <3> QED BY <3>1, <3>2, <3>3
  <2>9. HookFlag
    BY <2>1, <2>8 DEF HookFlag
  <2> QED BY <2>7, <2>9 DEF ThreadRestored
<1> QED BY <1>1, StackInvariant, PTL

---------------------------------------------------------------------------
(* The depth of the C stack *)

LEMMA OneMore ==
  ASSUME NEW A, IsFiniteSet(A), NEW x, NEW B, B \subseteq A \cup {x}, NEW k \in Nat, Cardinality(A) <= k
  PROVE  IsFiniteSet(B) /\ Cardinality(B) <= k + 1
<1>1. IsFiniteSet(A \cup {x}) /\ Cardinality(A \cup {x}) <= k + 1
  <2>1. PICK c : c = Cardinality(A)
    OBVIOUS
  <2>2. c \in Nat /\ c <= k
    BY <2>1, FS_CardinalityType
  <2>3. CASE x \in A
    <3>1. A \cup {x} = A
      BY <2>3
    <3>2. c <= k + 1
      BY ONLY k \in Nat, <2>2
    <3>3. IsFiniteSet(A) /\ Cardinality(A) = c
      BY <2>1
    <3> QED BY ONLY <3>1, <3>2, <3>3
  <2>4. CASE x \notin A
    <3>1. IsFiniteSet(A \cup {x}) /\ Cardinality(A \cup {x}) = c + 1
      BY <2>1, <2>4, FS_AddElement
    <3>2. c + 1 <= k + 1
      BY <2>2
    <3> QED BY ONLY <3>1, <3>2
  <2> QED BY <2>3, <2>4
<1>2. IsFiniteSet(B) /\ Cardinality(B) <= Cardinality(A \cup {x})
  BY <1>1, FS_Subset
<1>3. Cardinality(B) \in Nat /\ Cardinality(A \cup {x}) \in Nat
  BY <1>1, <1>2, FS_CardinalityType
<1> QED BY <1>1, <1>2, <1>3

CCalls(s, m) == {i \in 1..m : s[i].called \/ s[i].kind = "resume"}

\* nCcalls of the thread that runs counts the calls of all threads on the C stack.
LEMMA CallsCounted ==
  ASSUME NEW s, NEW n \in Nat \ {0}, NEW d, NEW e, StackOK(s, n, d, e)
  PROVE  IsFiniteSet(CCalls(s, n)) /\ Cardinality(CCalls(s, n)) <= d[n] /\ d[n] \in Nat
<1> DEFINE P == {m \in 0..n : IF m = 0 THEN CCalls(s, m) = {}
                              ELSE IsFiniteSet(CCalls(s, m)) /\ Cardinality(CCalls(s, m)) <= d[m]}
<1>1. 0 \in P
  BY DEF CCalls
<1>2. ASSUME NEW i \in 1..n PROVE d[i] \in Nat /\ Placed(s, i) /\ Counted(s, d, i)
  BY CallAssumption DEF StackOK, Counted
<1>3. ASSUME NEW m \in 0..(n - 1), m \in P PROVE m + 1 \in P
  <2>1. PICK k : k = m + 1
    OBVIOUS
  <2>2. k \in 1..n /\ k - 1 = m /\ m \in Nat /\ k \in 0..n /\ k # 0 /\ (k = 1 <=> m = 0)
    BY <2>1
  <2>3. CCalls(s, k) \subseteq CCalls(s, m) \cup {k}
    <3>1. \A i \in 1..k : i \in 1..m \/ i = k
      BY <2>2
    <3> QED BY <3>1 DEF CCalls
  <2>4. ~ (s[k].called \/ s[k].kind = "resume") => CCalls(s, k) = CCalls(s, m)
    <3>1. \A i : i \in 1..k <=> i \in 1..m \/ i = k
      BY <2>2
    <3> QED BY <3>1 DEF CCalls
  <2>5. d[k] \in Nat /\ Placed(s, k) /\ Counted(s, d, k)
    BY <1>2, <2>2
  <2>6. CASE m = 0
    <3>1. s[k].kind = "host" /\ ~ s[k].called
      BY <2>2, <2>5, <2>6 DEF Placed
    <3>2. CCalls(s, k) = {}
      BY <1>3, <2>4, <2>6, <3>1
    <3>3. IsFiniteSet(CCalls(s, k)) /\ Cardinality(CCalls(s, k)) = 0
      BY <3>2, FS_EmptySet
    <3> QED BY <2>1, <2>2, <2>5, <3>3
  <2>7. CASE m # 0
    <3>1. IsFiniteSet(CCalls(s, m)) /\ Cardinality(CCalls(s, m)) <= d[m]
      BY <1>3, <2>7
    <3>2. d[m] \in Nat /\ Cardinality(CCalls(s, m)) \in Nat
      <4>1. m \in 1..n
        BY <2>2, <2>7
      <4> QED BY <1>2, <3>1, <4>1, FS_CardinalityType
    <3>3. \/ d[k] = d[m] + (IF s[k].called \/ s[k].kind = "resume" THEN 1 ELSE 0)
          \/ s[k].kind = "errormsg" /\ d[k] = d[m] + 1
      BY <2>2, <2>5, <2>7 DEF Counted
    <3>4. IsFiniteSet(CCalls(s, k)) /\ Cardinality(CCalls(s, k)) <= d[k]
      <4>1. CASE s[k].called \/ s[k].kind = "resume"
        <5>1. d[k] = d[m] + 1
          BY <3>3, <4>1
        <5>2. PICK A, B, c : A = CCalls(s, m) /\ B = CCalls(s, k) /\ c = d[m]
          OBVIOUS
        <5>3. IsFiniteSet(B) /\ Cardinality(B) <= c + 1
          BY <2>3, <3>1, <3>2, <5>2, OneMore
        <5> QED BY <5>1, <5>2, <5>3
      <4>2. CASE ~ (s[k].called \/ s[k].kind = "resume")
        <5>1. CCalls(s, k) = CCalls(s, m)
          BY <2>4, <4>2
        <5>2. d[k] >= d[m]
          BY <3>2, <3>3
        <5> QED BY <2>5, <3>1, <3>2, <5>1, <5>2
      <4> QED BY <4>1, <4>2
    <3> QED BY <2>1, <2>2, <3>4
  <2> QED BY <2>6, <2>7
<1> HIDE DEF P
<1>4. n \in P
  BY <1>1, <1>3, Induction
<1>5. d[n] \in Nat
  BY <1>2
<1> QED BY <1>4, <1>5 DEF P

\* The host is below everything: the stack of the thread that runs begins with its resume.
LEMMA NoTarget ==
  ASSUME NEW s, NEW n \in Nat \ {0}, NEW d, NEW e, StackOK(s, n, d, e), NEW a, a = s[n].th,
         Innermost(s, n, a, 0)
  PROVE  \A i \in 1..n : s[i].th = a
<1>1. 1 \in 1..n /\ n \in 1..n
  OBVIOUS
<1>2. Placed(s, 1) /\ Contiguous(s, n)
  BY <1>1 DEF StackOK
<1>3. CASE n = 1
  <2>1. \A i \in 1..n : i = n
    BY <1>3
  <2> QED BY <2>1
<1>4. CASE n # 1 /\ s[1].th = a
  <2>1. 1 \in 1..(n - 1)
    BY <1>4
  <2> QED BY <1>2, <1>4, <2>1 DEF Contiguous
<1>5. CASE n # 1 /\ s[1].th # a
  <2>1. 1 \in 1..(n - 1)
    BY <1>5
  <2>2. PICK m \in (1 + 1)..n : s[m].th = a /\ s[m].kind = "resume"
    BY <1>2, <1>5, <2>1 DEF Contiguous
  <2>3. m \in (0 + 1)..n /\ Target(s[m], a)
    BY <2>2 DEF Target
  <2> QED BY <2>3 DEF Innermost
<1> QED BY <1>3, <1>4, <1>5

\* A longjmp goes to the innermost luaD_pcall or lua_resume of the thread that runs and leaves no
\* activation of another thread, and the calls of all threads together are limited (luaD_throw,
\* luaD_call, lua_resume).
THEOREM OneCStack == Spec => []CStackKept
<1>1. IInv => CStackKept
  <2> SUFFICES ASSUME IInv PROVE CStackKept
    OBVIOUS
  <2>1. PICK s, n, thr, dg : s = cstack /\ n = Len(s) /\ thr = thread /\ dg = doing
    OBVIOUS
  <2>2. PICK d, e : Facts(s, n, d, e, thr, dg)
    BY <2>1, FactsHold
  <2>3. n \in Nat \ {0} /\ n \in 1..n /\ DOMAIN s = 1..n /\ StackOK(s, n, d, e) /\ L = s[n].th
    BY <2>1, <2>2 DEF Facts, L
  <2>4. ASSUME NEW th \in Threads, NEW j, j = thr[th].jmp,
               NEW targets, targets = {i \in DOMAIN s : s[i].th = th /\ s[i].kind \in {"pcall", "resume"}}
        PROVE  /\ (targets = {}) = (j = 0)
               /\ j # 0 => j \in targets /\ \A i \in targets : i <= j
               /\ th = L => \A i \in (j + 1)..n : s[i].th = L
    <3>1. Innermost(s, n, th, j)
      BY <2>2, <2>4 DEF Facts, ThreadOK, JumpOK
    <3>2. \A i : i \in targets <=> i \in 1..n /\ Target(s[i], th)
      BY <2>3, <2>4 DEF Target
    <3>3. j \in 0..n /\ (j # 0 => j \in targets)
      BY <3>1, <3>2 DEF Innermost
    <3>4. \A i \in targets : i <= j
      <4>1. ASSUME NEW i \in targets, ~ (i <= j) PROVE FALSE
        <5>1. i \in (j + 1)..n /\ Target(s[i], th)
          BY <3>2, <3>3, <4>1
        <5> QED BY <3>1, <5>1 DEF Innermost
      <4> QED BY <4>1
    <3>5. j = 0 => targets = {}
      BY <3>2, <3>4
    <3>6. th = L => \A i \in (j + 1)..n : s[i].th = L
      <4>1. CASE j = 0
        BY <2>3, <3>1, <4>1, NoTarget
      <4>2. CASE j # 0 /\ th = L
        <5>1. j \in 1..n /\ n \in Nat /\ th = s[n].th
          BY <2>3, <3>3, <4>2
        <5>2. \A i \in j..n : s[i].th = th
          BY ONLY <2>3, <3>1, <5>1, AboveJump
        <5> QED BY <4>2, <5>1, <5>2
      <4> QED BY <4>1, <4>2
    <3> QED BY <3>3, <3>4, <3>5, <3>6
  <2>5. JumpTargets
    <3> SUFFICES ASSUME NEW th \in Threads, NEW j, j = thread[th].jmp, NEW targets,
                        targets = {i \in DOMAIN cstack : cstack[i].th = th /\ cstack[i].kind \in {"pcall", "resume"}}
        PROVE  /\ (targets = {}) = (j = 0)
               /\ j # 0 => j \in targets /\ \A i \in targets : i <= j
               /\ th = L => \A i \in (j + 1)..Len(cstack) : cstack[i].th = L
      BY ZenonT(60) DEF JumpTargets
    <3> QED BY <2>1, <2>4
  <2>6. ASSUME dg # "exit"
        PROVE  /\ Cardinality({i \in DOMAIN s : s[i].called \/ s[i].kind = "resume"}) <= thr[L].ccalls
               /\ thr[L].ccalls <= MaxCcalls + Margin
    <3>1. L \in Threads
      BY <2>2, <2>3 DEF Facts, Records
    <3>2. thr[L].ccalls \in 0..(MaxCcalls + Margin)
      BY <2>2, <3>1 DEF Facts, ThreadRecords
    <3>3. TopOK(s, n, d, e, L, thr[L], dg)
      BY <2>2, <2>6, <3>1 DEF Facts, ThreadOK
    <3>4. thr[L].ccalls = d[n] \/ thr[L].ccalls = d[n] + 1
      BY <2>3, <3>3 DEF TopOK
    <3>5. IsFiniteSet(CCalls(s, n)) /\ Cardinality(CCalls(s, n)) <= d[n] /\ d[n] \in Nat
      BY <2>3, CallsCounted
    <3>6. CCalls(s, n) = {i \in DOMAIN s : s[i].called \/ s[i].kind = "resume"}
      BY <2>3 DEF CCalls
    <3>7. PICK k : k = Cardinality(CCalls(s, n))
      OBVIOUS
    <3>8. k \in Nat
      BY <3>5, <3>7, FS_CardinalityType
    <3>9. k <= thr[L].ccalls
      BY <3>4, <3>5, <3>7, <3>8
    <3>10. thr[L].ccalls <= MaxCcalls + Margin
      BY <3>2, CallAssumption
    <3> QED BY <3>6, <3>7, <3>9, <3>10
  <2>7. BoundedCStack
    BY <2>1, <2>6 DEF BoundedCStack
  <2> QED BY <2>5, <2>7 DEF CStackKept
<1> QED BY <1>1, StackInvariant, PTL

\* coroutine.status tells what is on the C stack, and what can be resumed is not there and has
\* no error handler (costatus, auxresume, lua_assert of luaD_throw's caller lua_resume).
THEOREM StatusTold == Spec => []StatusIsReal
<1>1. IInv => StatusIsReal
  <2> SUFFICES ASSUME IInv, doing = "run", NEW co \in Coroutines
      PROVE  /\ CoStatus(co) \in {"running", "normal"} <=> OnStack(co)
             /\ CoStatus(co) = "suspended" => thread[co].errfunc = "none"
    BY DEF StatusIsReal
  <2>1. PICK s, n, thr, dg : s = cstack /\ n = Len(s) /\ thr = thread /\ dg = doing
    OBVIOUS
  <2>2. PICK d, e : Facts(s, n, d, e, thr, dg)
    BY <2>1, FactsHold
  <2>3. PICK x : x = thr[co]
    OBVIOUS
  <2>4. /\ n \in Nat \ {0} /\ n \in 1..n /\ L = s[n].th /\ co \in Threads
        /\ s \in Seq(Records) /\ s # <<>> /\ Good(s, thr, "run") /\ \A i \in 1..n : s[i] \in Records
    BY <2>1, <2>2 DEF Facts, L, Threads
  <2>5. OnStack(co) <=> On(s, n, co)
    BY <2>1, <2>2 DEF Facts, OnStack, On
  <2>6. StatusOK(s, n, co, x)
    BY <2>1, <2>2, <2>3, <2>4 DEF Facts, ThreadOK
  <2>7. FramesOK(s, n, co, x)
    BY <2>1, <2>2, <2>3, <2>4 DEF Facts, ThreadOK
  <2>8. CASE L = co
    <3>1. On(s, n, co)
      BY <2>4, <2>8 DEF On
    <3> QED BY <2>5, <2>8, <3>1 DEF CoStatus
  <2>9. CASE L # co
    <3>1. x.status = "yield" \/ (x.status = "ok" /\ x.ci = <<>>) => ~ On(s, n, co)
      <4>1. co # s[Len(s)].th
        BY <2>1, <2>4, <2>9
      <4> QED BY <2>1, <2>3, <2>4, <4>1, SuspendedOff
    <3>2. x.status = "ok" /\ x.ci # <<>> => On(s, n, co)
      <4>1. ASSUME x.status = "ok", ~ On(s, n, co) PROVE x.ci = <<>>
        <5>1. x.ci = FramesUpTo(s, n, co)
          BY <2>7, <4>1 DEF FramesOK
        <5>2. FramesUpTo(s, n, co) = <<>>
          BY <2>4, <4>1, FramesNone
        <5> QED BY <5>1, <5>2
      <4> QED BY <4>1
    <3>3. x.status \notin {"ok", "yield"} => ~ On(s, n, co)
      BY <2>6 DEF StatusOK
    <3>4. ~ On(s, n, co) /\ x.status \in {"ok", "yield"} => x.errfunc = "none"
      BY <2>6 DEF StatusOK
    <3> QED BY <2>1, <2>3, <2>5, <2>9, <3>1, <3>2, <3>3, <3>4 DEF CoStatus
  <2> QED BY <2>8, <2>9
<1> QED BY <1>1, StackInvariant, PTL
=============================================================================
