---------------------------- MODULE LuaCallStack ----------------------------
(***************************************************************************)
(* The C stack of LuaCall and what each thread has to do with it: the      *)
(* inductive invariant from which the properties of LuaCall follow, and    *)
(* what keeps it (that the stack grows by an activation, or is cut).       *)
(*                                                                         *)
(* The stack is described position by position, so that pushing and        *)
(* popping touch only its end.  Two values that the code keeps nowhere     *)
(* while others run, nCcalls and errfunc at each position, are existential *)
(* in the invariant (d and e).                                             *)
(***************************************************************************)
EXTENDS LuaCall, LuaSequences, FiniteSetTheorems

Kinds == {"host", "execute", "cfunction", "pcall", "errormsg", "gctm", "hook", "resume"}
Saves == {"pcall", "errormsg", "gctm"}
ErrFuncs == {"none", "notfunction"} \cup Functions
Doings == {"run", "error", "errrun", "errmem", "errerr", "exit"}

OldRecords == [jmp : Nat] \cup
  [ci : Nat, ccalls : Nat, errfunc : ErrFuncs, allowhook : BOOLEAN, jmp : Nat]
Records == [kind : Kinds, th : Threads, n : Nat, called : BOOLEAN, old : OldRecords]
ThreadRecords ==
  [status : Status, ci : Seq(Functions), ccalls : 0..(MaxCcalls + Margin),
   base : 0..MaxCcalls, size : Nat, errfunc : ErrFuncs, allowhook : BOOLEAN, jmp : Nat,
   slots : {"body", "results", "none"}]

\* The first n activations of the C stack stk, as a thread th sees them: the target of
\* its longjmps, its hooks and finalizers, its frames, and whether it is there.
Target(r, th) == r.th = th /\ r.kind \in {"pcall", "resume"}
Innermost(stk, n, th, j) ==
  /\ j \in 0..n
  /\ j # 0 => Target(stk[j], th)
  /\ \A i \in (j + 1)..n : ~ Target(stk[i], th)
Hooked(stk, n, th) == \E i \in 1..n : stk[i].th = th /\ stk[i].kind \in {"hook", "gctm"}
Own(r, th) == IF r.th = th THEN Frames(r) ELSE <<>>
FramesUpTo(stk, n, th) == FlattenSeq([i \in 1..n |-> Own(stk[i], th)])
On(stk, n, th) == \E i \in 1..n : stk[i].th = th

\* What may be entered from what.
Placed(stk, i) ==
  LET r == stk[i]
  IN  /\ (r.kind = "host") <=> (i = 1)
      /\ i = 1 => r.th = Main
      /\ r.kind = "resume" => /\ r.th \in Coroutines
                              /\ stk[i - 1].kind \in {"host", "cfunction", "hook"}
                              /\ \A k \in 1..(i - 1) : stk[k].th # r.th
      /\ r.kind \notin {"host", "resume"} => r.th = stk[i - 1].th
      /\ r.kind = "hook" => stk[i - 1].kind \in {"execute", "cfunction"}
      /\ r.kind = "execute" => r.n >= 1
      /\ r.kind = "execute" /\ ~ r.called => stk[i - 1].kind = "resume"
      /\ r.kind = "cfunction" /\ ~ r.called => stk[i - 1].kind = "execute"
      /\ r.called => r.kind \in {"execute", "cfunction"}

\* The activations of a thread are all above one another: only a resume changes threads.
Contiguous(stk, i) ==
  \A k \in 1..(i - 1) :
    IF stk[k].th = stk[i].th THEN \A m \in k..i : stk[m].th = stk[i].th
    ELSE \E m \in (k + 1)..i : stk[m].th = stk[i].th /\ stk[m].kind = "resume"

\* The local variables of luaD_pcall, luaD_rawrunprotected and GCTM are right.
Remembered(stk, i) ==
  LET r == stk[i]
  IN  /\ r.kind \in Saves => /\ Innermost(stk, i - 1, r.th, r.old.jmp)
                             /\ r.old.ci = Len(FramesUpTo(stk, i - 1, r.th))
                             /\ r.old.allowhook <=> ~Hooked(stk, i - 1, r.th)
                             /\ r.old.allowhook \in BOOLEAN
      /\ r.kind = "resume" => r.old.jmp = 0
      /\ r.kind = "hook" => ~ Hooked(stk, i - 1, r.th)

\* d[i] is nCcalls of the thread of the activation i while that one runs, and e[i] is
\* its errfunc: neither is kept anywhere while others run above it.
Counted(stk, d, i) ==
  LET r == stk[i]
  IN  /\ d[i] \in 0..(MaxCcalls + Margin - 1)
      /\ i = 1 => d[i] = 0
      /\ r.kind \in Saves => r.old.ccalls = d[i]
      /\ i > 1 => \/ d[i] = d[i - 1] + (IF r.called \/ r.kind = "resume" THEN 1 ELSE 0)
                  \/ (r.kind = "errormsg" /\ d[i] = d[i - 1] + 1)
Handled(stk, e, i) ==
  LET r == stk[i]
  IN  /\ e[i] \in ErrFuncs
      /\ r.kind \in {"host", "resume"} => e[i] = "none"
      /\ r.kind \in Saves => r.old.errfunc = e[i - 1]
      /\ r.kind \notin {"host", "resume", "pcall"} => e[i] = e[i - 1]

StackOK(stk, n, d, e) ==
  \A i \in 1..n : Placed(stk, i) /\ Contiguous(stk, i) /\ Remembered(stk, i)
                  /\ Counted(stk, d, i) /\ Handled(stk, e, i)

\* What resume can go on with.
Yielded(ci) ==
  LET lua == IF Last(ci) = "c" THEN Front(ci) ELSE ci
  IN  ci # <<>> /\ lua # <<>> /\ \A i \in DOMAIN lua : lua[i] = "lua"

\* A thread th with the fields t, always
JumpOK(stk, n, th, t) == Innermost(stk, n, th, t.jmp)
YieldOK(stk, n, th, t, dg) ==
  t.status = "yield" =>
    /\ Yielded(t.ci)
    /\ On(stk, n, th) => stk[n].th = th /\ stk[n].kind = "resume" /\ dg = "run"
\* and before the program exits
HookOK(stk, n, th, t) == t.status \in {"ok", "yield"} => (t.allowhook <=> ~ Hooked(stk, n, th))
FramesOK(stk, n, th, t) == t.status = "ok" => t.ci = FramesUpTo(stk, n, th)
StatusOK(stk, n, th, t) == IF On(stk, n, th) THEN t.status \in {"ok", "yield"}
                           ELSE t.status \in {"ok", "yield"} => t.errfunc = "none"
WaitOK(stk, n, d, e, th, t) ==
  \A i \in 1..(n - 1) : stk[i].th = th /\ stk[i + 1].kind = "resume" =>
    t.ccalls = d[i] /\ t.errfunc = e[i]
BaseOK(stk, n, d, th, t) ==
  /\ th = Main => t.base = 0
  /\ \A i \in 1..n : stk[i].th = th =>
       /\ d[i] >= t.base
       /\ stk[i].called => d[i] > t.base
       /\ stk[i].kind = "resume" => d[i] = t.base
TopOK(stk, n, d, e, th, t, dg) ==
  stk[n].th = th =>
    /\ t.errfunc = e[n]
    /\ t.ccalls = d[n] \/ (dg # "run" /\ t.ccalls = d[n] + 1)
    /\ dg \in {"run", "error"} => t.ccalls < MaxCcalls + Margin

ThreadOK(stk, n, d, e, th, t, dg) ==
  /\ JumpOK(stk, n, th, t)
  /\ YieldOK(stk, n, th, t, dg)
  /\ dg # "exit" =>
       /\ HookOK(stk, n, th, t)
       /\ FramesOK(stk, n, th, t)
       /\ StatusOK(stk, n, th, t)
       /\ WaitOK(stk, n, d, e, th, t)
       /\ BaseOK(stk, n, d, th, t)
       /\ TopOK(stk, n, d, e, th, t, dg)

Core(stk, n, d, e, thr, dg) ==
  /\ StackOK(stk, n, d, e)
  /\ \A th \in Threads : ThreadOK(stk, n, d, e, th, thr[th], dg)

Good(stk, thr, dg) == \E d, e : Core(stk, Len(stk), d, e, thr, dg)

Fits(t) == t \in ThreadRecords /\ Len(t.ci) < t.size /\ t.size <= 2 * MaxCalls

Typed == /\ thread \in [Threads -> ThreadRecords]
         /\ \A th \in Threads : Fits(thread[th])
         /\ cstack \in Seq(Records) /\ cstack # <<>>
         /\ doing \in Doings

IInv == Typed /\ Good(cstack, thread, doing)

---------------------------------------------------------------------------
(* Frames *)

Same(f, g, n) == \A i \in 1..n : f[i] = g[i]

LEMMA OwnType ==
  ASSUME NEW r \in Records, NEW th
  PROVE  Own(r, th) \in Seq(Functions)
<1>1. r.n \in Nat
  BY DEF Records
<1>2. [i \in 1..r.n |-> "lua"] \in Seq(Functions)
  BY <1>1 DEF Functions
<1>3. <<"c">> \in Seq(Functions) /\ <<>> \in Seq(Functions)
  BY DEF Functions
<1> QED BY <1>2, <1>3 DEF Own, Frames

LEMMA FramesSame ==
  ASSUME NEW s, NEW t, NEW n \in Nat, NEW th, Same(s, t, n)
  PROVE  FramesUpTo(s, n, th) = FramesUpTo(t, n, th)
<1>1. [i \in 1..n |-> Own(s[i], th)] = [i \in 1..n |-> Own(t[i], th)]
  BY DEF Same
<1> QED BY <1>1 DEF FramesUpTo

LEMMA FramesZero == ASSUME NEW s, NEW th PROVE FramesUpTo(s, 0, th) = <<>>
<1>1. [i \in 1..0 |-> Own(s[i], th)] = <<>>
  OBVIOUS
<1> QED BY <1>1, FlattenEmpty DEF FramesUpTo

LEMMA OwnSeq ==
  ASSUME NEW s, NEW n \in Nat, NEW th, \A i \in 1..n : s[i] \in Records
  PROVE  [i \in 1..n |-> Own(s[i], th)] \in Seq(Seq(Functions))
<1>1. \A i \in 1..n : Own(s[i], th) \in Seq(Functions)
  BY OwnType
<1> QED BY <1>1

LEMMA FramesType ==
  ASSUME NEW s, NEW n \in Nat, NEW th, \A i \in 1..n : s[i] \in Records
  PROVE  FramesUpTo(s, n, th) \in Seq(Functions)
BY OwnSeq, FlattenType DEF FramesUpTo

LEMMA FramesStep ==
  ASSUME NEW s, NEW n \in Nat, NEW th, \A i \in 1..(n + 1) : s[i] \in Records
  PROVE  FramesUpTo(s, n + 1, th) = FramesUpTo(s, n, th) \o Own(s[n + 1], th)
<1> DEFINE A == [i \in 1..n |-> Own(s[i], th)]
           B == [i \in 1..(n + 1) |-> Own(s[i], th)]
<1>1. A \in Seq(Seq(Functions)) /\ B \in Seq(Seq(Functions)) /\ Own(s[n + 1], th) \in Seq(Functions)
  BY OwnSeq, OwnType
<1>2. B = Append(A, Own(s[n + 1], th))
  OBVIOUS
<1>3. FlattenSeq(B) = FlattenSeq(A) \o Own(s[n + 1], th)
  BY <1>1, <1>2, FlattenAppend
<1> QED BY <1>3 DEF FramesUpTo

LEMMA Joined ==
  ASSUME NEW S, NEW a \in Seq(S), NEW c \in Seq(S), NEW b, b = a \o c
  PROVE  Len(a) <= Len(b) /\ SubSeq(b, 1, Len(a)) = a
OBVIOUS

\* The frames below an activation are those one begins with.
LEMMA FramesCut ==
  ASSUME NEW s, NEW n \in Nat, NEW k \in 0..n, NEW th, \A i \in 1..n : s[i] \in Records
  PROVE  /\ Len(FramesUpTo(s, k, th)) <= Len(FramesUpTo(s, n, th))
         /\ SubSeq(FramesUpTo(s, n, th), 1, Len(FramesUpTo(s, k, th))) = FramesUpTo(s, k, th)
<1> DEFINE F(i) == FramesUpTo(s, i, th)
           P == {m \in 0..(n - k) : \E c \in Seq(Functions) : F(k + m) = F(k) \o c}
<1>1. F(k) \in Seq(Functions)
  BY FramesType
<1>2. 0 \in P
  <2>1. F(k + 0) = F(k) \o <<>> /\ <<>> \in Seq(Functions)
    BY <1>1, ConcatEmptySeq, EmptySeq
  <2>2. \E c \in Seq(Functions) : F(k + 0) = F(k) \o c
    <3> HIDE DEF F
    <3> QED BY <2>1
  <2>3. 0 \in 0..(n - k)
    OBVIOUS
  <2> QED BY <2>2, <2>3
<1>3. ASSUME NEW m \in 0..(n - k - 1), m \in P PROVE m + 1 \in P
  <2>1. k + m \in Nat /\ k + (m + 1) = k + m + 1 /\ m + 1 \in 0..(n - k)
        /\ s[k + m + 1] \in Records /\ \A i \in 1..(k + m + 1) : s[i] \in Records
    OBVIOUS
  <2>2. F(k + m + 1) = F(k + m) \o Own(s[k + m + 1], th)
    BY <2>1, FramesStep
  <2>3. PICK c \in Seq(Functions) : F(k + m) = F(k) \o c
    BY <1>3
  <2>4. PICK o \in Seq(Functions) : o = Own(s[k + m + 1], th)
    BY <2>1, OwnType
  <2> HIDE DEF F
  <2>5. c \o o \in Seq(Functions) /\ F(k + m + 1) = F(k) \o (c \o o)
    <3>1. c \o o \in Seq(Functions) /\ (F(k) \o c) \o o = F(k) \o (c \o o)
      <4>1. PICK a \in Seq(Functions) : a = F(k)
        BY <1>1
      <4>2. c \o o \in Seq(Functions) /\ (a \o c) \o o = a \o (c \o o)
        BY ConcatAssociative, ConcatProperties
      <4> QED BY <4>1, <4>2
    <3> QED BY <2>2, <2>3, <2>4, <3>1
  <2> QED BY <2>1, <2>5
<1>4. n - k \in P
  <2> HIDE DEF P
  <2>1. n - k \in Nat /\ n - k \in 0..(n - k)
    OBVIOUS
  <2> QED BY <1>2, <1>3, <2>1, Induction
<1>5. PICK c \in Seq(Functions) : F(n) = F(k) \o c
  <2>1. k + (n - k) = n
    OBVIOUS
  <2> QED BY <1>4, <2>1
<1> HIDE DEF F
<1>6. Len(F(k)) <= Len(F(n)) /\ SubSeq(F(n), 1, Len(F(k))) = F(k)
  BY <1>1, <1>5, Joined
<1> QED BY <1>6 DEF F

LEMMA FramesSkip ==
  ASSUME NEW s, NEW n \in Nat, NEW k \in 0..n, NEW th, \A i \in 1..n : s[i] \in Records,
         \A i \in (k + 1)..n : Own(s[i], th) = <<>>
  PROVE  FramesUpTo(s, n, th) = FramesUpTo(s, k, th)
<1> DEFINE P == {m \in 0..(n - k) : FramesUpTo(s, k + m, th) = FramesUpTo(s, k, th)}
<1>1. 0 \in P
  OBVIOUS
<1>2. ASSUME NEW m \in 0..(n - k - 1), m \in P PROVE m + 1 \in P
  <2>1. k + m \in Nat /\ k + (m + 1) = k + m + 1 /\ m + 1 \in 0..(n - k)
        /\ Own(s[k + m + 1], th) = <<>> /\ \A i \in 1..(k + m + 1) : s[i] \in Records
    OBVIOUS
  <2>2. FramesUpTo(s, k + m + 1, th) = FramesUpTo(s, k + m, th) \o <<>>
    <3>1. PICK j : j = k + m
      OBVIOUS
    <3>2. j \in Nat /\ Own(s[j + 1], th) = <<>> /\ \A i \in 1..(j + 1) : s[i] \in Records
      BY ONLY <2>1, <3>1
    <3>3. FramesUpTo(s, j + 1, th) = FramesUpTo(s, j, th) \o Own(s[j + 1], th)
      BY ONLY <3>2, FramesStep
    <3> QED BY ONLY <3>1, <3>2, <3>3
  <2>3. FramesUpTo(s, k + m, th) \in Seq(Functions)
    BY <2>1, FramesType
  <2>4. FramesUpTo(s, k + m + 1, th) = FramesUpTo(s, k, th)
    BY <1>2, <2>2, <2>3
  <2> QED BY <2>1, <2>4
<1> HIDE DEF P
<1>3. n - k \in Nat /\ n - k \in 0..(n - k)
  OBVIOUS
<1>4. n - k \in P
  BY <1>1, <1>2, <1>3, Induction
<1>5. FramesUpTo(s, k + (n - k), th) = FramesUpTo(s, k, th)
  BY <1>4 DEF P
<1>6. k + (n - k) = n
  OBVIOUS
<1> QED BY <1>5, <1>6

LEMMA FramesNone ==
  ASSUME NEW s, NEW n \in Nat, NEW th, \A i \in 1..n : s[i] \in Records, ~ On(s, n, th)
  PROVE  FramesUpTo(s, n, th) = <<>>
<1>1. \A i \in (0 + 1)..n : Own(s[i], th) = <<>>
  BY DEF On, Own
<1>2. FramesUpTo(s, n, th) = FramesUpTo(s, 0, th)
  BY <1>1, FramesSkip
<1> QED BY <1>2, FramesZero

LEMMA FramesSome ==
  ASSUME NEW s, NEW n \in Nat, NEW th, \A i \in 1..n : s[i] \in Records,
         NEW i \in 1..n, Own(s[i], th) # <<>>
  PROVE  FramesUpTo(s, n, th) # <<>>
<1> DEFINE F(k) == FramesUpTo(s, k, th)
<1>0. i - 1 \in Nat /\ i - 1 + 1 = i /\ i \in 0..n /\ s[i] \in Records
      /\ \A k \in 1..(i - 1) : s[k] \in Records
  OBVIOUS
<1>1. F(i - 1) \in Seq(Functions) /\ F(n) \in Seq(Functions) /\ Own(s[i], th) \in Seq(Functions)
  BY <1>0, FramesType, OwnType
<1>2. F(i) = F(i - 1) \o Own(s[i], th)
  BY <1>0, FramesStep
<1>3. Len(F(i)) <= Len(F(n))
  BY <1>0, FramesCut
<1> QED BY <1>1, <1>2, <1>3

---------------------------------------------------------------------------
(* Stacks that agree *)

LEMMA SamePlaced ==
  ASSUME NEW s, NEW t, NEW n \in Nat, Same(s, t, n), NEW i \in 1..n
  PROVE  /\ Placed(s, i) => Placed(t, i)
         /\ Contiguous(s, i) => Contiguous(t, i)
<1>1. s[i] = t[i] /\ \A k \in 1..i : s[k] = t[k]
  BY DEF Same
<1>2. i # 1 => s[i - 1] = t[i - 1]
  BY <1>1
<1>3. Placed(s, i) => Placed(t, i)
  <2>1. SUFFICES ASSUME Placed(s, i) PROVE Placed(t, i)
    OBVIOUS
  <2>2. i = 1 => t[i].kind = "host"
    BY <1>1, <2>1 DEF Placed
  <2>3. CASE i = 1
    BY <1>1, <2>1, <2>3, <2>2 DEF Placed
  <2>4. CASE i # 1
    BY <1>1, <1>2, <2>1, <2>4 DEF Placed
  <2> QED BY <2>3, <2>4
<1>4. Contiguous(s, i) => Contiguous(t, i)
  <2>1. SUFFICES ASSUME Contiguous(s, i), NEW k \in 1..(i - 1)
                 PROVE  IF t[k].th = t[i].th THEN \A m \in k..i : t[m].th = t[i].th
                        ELSE \E m \in (k + 1)..i : t[m].th = t[i].th /\ t[m].kind = "resume"
    BY DEF Contiguous
  <2>2. s[k] = t[k] /\ (\A m \in k..i : s[m] = t[m]) /\ (\A m \in (k + 1)..i : s[m] = t[m])
    BY <1>1
  <2>3. IF s[k].th = s[i].th THEN \A m \in k..i : s[m].th = s[i].th
        ELSE \E m \in (k + 1)..i : s[m].th = s[i].th /\ s[m].kind = "resume"
    BY <2>1 DEF Contiguous
  <2> QED BY <1>1, <2>2, <2>3
<1> QED BY <1>3, <1>4

LEMMA SameBelow ==
  ASSUME NEW s, NEW t, NEW n \in Nat, Same(s, t, n)
  PROVE  \A th : /\ On(s, n, th) <=> On(t, n, th)
                 /\ Hooked(s, n, th) <=> Hooked(t, n, th)
                 /\ \A j : Innermost(s, n, th, j) <=> Innermost(t, n, th, j)
<1>1. \A i \in 1..n : s[i] = t[i]
  BY DEF Same
<1> SUFFICES ASSUME NEW th
             PROVE  /\ On(s, n, th) <=> On(t, n, th)
                    /\ Hooked(s, n, th) <=> Hooked(t, n, th)
                    /\ \A j : Innermost(s, n, th, j) <=> Innermost(t, n, th, j)
  OBVIOUS
<1>2. On(s, n, th) <=> On(t, n, th)
  BY <1>1 DEF On
<1>3. Hooked(s, n, th) <=> Hooked(t, n, th)
  BY <1>1 DEF Hooked
<1>4. ASSUME NEW j PROVE Innermost(s, n, th, j) <=> Innermost(t, n, th, j)
  <2>1. CASE j \in 0..n
    <3>1. (\A i \in (j + 1)..n : s[i] = t[i]) /\ (j # 0 => s[j] = t[j])
      BY <1>1, <2>1
    <3> QED BY <2>1, <3>1 DEF Innermost, Target
  <2>2. CASE j \notin 0..n
    BY <2>2 DEF Innermost
  <2> QED BY <2>1, <2>2
<1> QED BY <1>2, <1>3, <1>4

LEMMA SameRemembered ==
  ASSUME NEW s, NEW t, NEW n \in Nat, Same(s, t, n), NEW i \in 1..n
  PROVE  Remembered(s, i) => Remembered(t, i)
<1>1. s[i] = t[i]
  BY DEF Same
<1>2. PICK m \in Nat : m = i - 1
  OBVIOUS
<1>3. Same(s, t, m)
  BY <1>2 DEF Same
<1>4. \A th : /\ Hooked(s, m, th) <=> Hooked(t, m, th)
              /\ \A j : Innermost(s, m, th, j) <=> Innermost(t, m, th, j)
              /\ FramesUpTo(s, m, th) = FramesUpTo(t, m, th)
  BY <1>3, SameBelow, FramesSame
<1> QED BY <1>1, <1>2, <1>4 DEF Remembered

LEMMA StackSame ==
  ASSUME NEW s, NEW t, NEW d, NEW dd, NEW e, NEW ee, NEW n \in Nat,
         Same(s, t, n), Same(d, dd, n), Same(e, ee, n), StackOK(s, n, d, e)
  PROVE  StackOK(t, n, dd, ee)
<1> SUFFICES ASSUME NEW i \in 1..n
             PROVE  Placed(t, i) /\ Contiguous(t, i) /\ Remembered(t, i)
                    /\ Counted(t, dd, i) /\ Handled(t, ee, i)
  BY DEF StackOK
<1>1. Placed(s, i) /\ Contiguous(s, i) /\ Remembered(s, i) /\ Counted(s, d, i) /\ Handled(s, e, i)
  BY DEF StackOK
<1>2. Placed(t, i) /\ Contiguous(t, i) /\ Remembered(t, i)
  BY <1>1, SamePlaced, SameRemembered
<1>3. s[i] = t[i] /\ d[i] = dd[i] /\ e[i] = ee[i]
      /\ (i > 1 => d[i - 1] = dd[i - 1] /\ e[i - 1] = ee[i - 1])
  BY DEF Same
<1>4. Counted(t, dd, i)
  BY <1>1, <1>3 DEF Counted
<1>5. Handled(t, ee, i)
  <2>1. i = 1 => s[i].kind = "host"
    BY <1>1 DEF Placed
  <2>2. CASE i = 1
    BY <1>1, <1>3, <2>1, <2>2 DEF Handled, Saves
  <2>3. CASE i # 1
    <3>1. e[i - 1] = ee[i - 1]
      BY <1>3, <2>3
    <3> QED BY <1>1, <1>3, <3>1 DEF Handled
  <2> QED BY <2>2, <2>3
<1> QED BY <1>2, <1>4, <1>5

LEMMA StackPush ==
  ASSUME NEW s, NEW d, NEW e, NEW n \in Nat \ {0}, NEW m, m = n + 1, StackOK(s, n, d, e), Placed(s, m),
         Remembered(s, m), Counted(s, d, m), Handled(s, e, m)
  PROVE  StackOK(s, m, d, e)
<1>1. Contiguous(s, m)
  <2> SUFFICES ASSUME NEW k \in 1..(m - 1)
               PROVE  IF s[k].th = s[m].th THEN \A i \in k..m : s[i].th = s[m].th
                      ELSE \E i \in (k + 1)..m : s[i].th = s[m].th /\ s[i].kind = "resume"
    BY DEF Contiguous
  <2>1. k \in 1..n /\ m - 1 = n /\ m # 1 /\ m \in (k + 1)..m
    OBVIOUS
  <2>2. s[m].kind # "host"
    BY <2>1 DEF Placed
  <2>3. CASE s[m].kind = "resume"
    <3>1. s[k].th # s[m].th
      BY <2>3 DEF Placed
    <3> QED BY <2>1, <2>3, <3>1
  <2>4. CASE s[m].kind # "resume"
    <3>1. s[n].th = s[m].th
      BY <2>1, <2>2, <2>4 DEF Placed
    <3>2. CASE k = n
      <4>1. \A i \in k..m : i = n \/ i = m
        BY <3>2
      <4> QED BY <3>1, <3>2, <4>1
    <3>3. CASE k # n
      <4>1. Contiguous(s, n) /\ k \in 1..(n - 1)
        BY <3>3 DEF StackOK
      <4>2. IF s[k].th = s[n].th THEN \A i \in k..n : s[i].th = s[n].th
            ELSE \E i \in (k + 1)..n : s[i].th = s[n].th /\ s[i].kind = "resume"
        BY <4>1 DEF Contiguous
      <4>3. CASE s[k].th = s[n].th
        <5>1. \A i \in k..m : i \in k..n \/ i = m
          OBVIOUS
        <5> QED BY <3>1, <4>2, <4>3, <5>1
      <4>4. CASE s[k].th # s[n].th
        <5>1. PICK i \in (k + 1)..n : s[i].th = s[n].th /\ s[i].kind = "resume"
          BY <4>2, <4>4
        <5>2. i \in (k + 1)..m
          OBVIOUS
        <5> QED BY <3>1, <4>4, <5>1, <5>2
      <4> QED BY <4>3, <4>4
    <3> QED BY <3>2, <3>3
  <2> QED BY <2>3, <2>4
<1>2. \A i \in 1..m : i \in 1..n \/ i = m
  OBVIOUS
<1> QED BY <1>1, <1>2 DEF StackOK

\* Above an activation of the running thread nothing is resumed.
LEMMA NotWaiting ==
  ASSUME NEW s, NEW d, NEW e, NEW n \in Nat \ {0}, StackOK(s, n, d, e), NEW i \in 1..(n - 1),
         s[i].th = s[n].th
  PROVE  s[i + 1].kind # "resume" /\ s[i + 1].th = s[n].th
<1>1. Contiguous(s, n) /\ Placed(s, i + 1)
  BY DEF StackOK
<1>2. \A m \in i..n : s[m].th = s[n].th
  BY <1>1 DEF Contiguous
<1>3. s[i + 1].th = s[n].th
  BY <1>2
<1>4. i \in 1..((i + 1) - 1)
  OBVIOUS
<1> QED BY <1>1, <1>3, <1>4 DEF Placed

LEMMA TopWaitOK ==
  ASSUME NEW s, NEW d, NEW e, NEW n \in Nat \ {0}, StackOK(s, n, d, e), NEW a, a = s[n].th, NEW y
  PROVE  WaitOK(s, n, d, e, a, y)
BY NotWaiting DEF WaitOK

LEMMA InnermostPush ==
  ASSUME NEW s, NEW t, NEW n \in Nat, NEW m, m = n + 1, Same(s, t, n), NEW th, NEW j,
         Innermost(s, n, th, j), ~ Target(t[m], th)
  PROVE  Innermost(t, m, th, j)
<1>1. Innermost(t, n, th, j)
  BY SameBelow
<1>2. j \in 0..n /\ (\A i \in (j + 1)..m : i \in (j + 1)..n \/ i = m)
  BY <1>1 DEF Innermost
<1>3. j \in 0..m
  BY <1>2
<1> QED BY <1>1, <1>2, <1>3 DEF Innermost

---------------------------------------------------------------------------
(* The threads that do not run *)

\* The stacks s and t, of n and m activations, differ only in those of the thread a above k.
Within(s, n, t, m, k, a) ==
  /\ n \in Nat \ {0} /\ m \in Nat \ {0} /\ k \in 0..n /\ k \in 0..m
  /\ \A i \in 1..n : s[i] \in Records
  /\ \A i \in 1..m : t[i] \in Records
  /\ Same(s, t, k)
  /\ \A i \in (k + 1)..n : s[i].th = a
  /\ \A i \in (k + 1)..m : t[i].th = a
  /\ s[n].th = a /\ t[m].th = a
  /\ \/ k = 0
     \/ s[k].th = a
     \/ k < n /\ k < m /\ s[k + 1].kind = t[k + 1].kind

LEMMA OthersWithin ==
  ASSUME NEW s, NEW n, NEW t, NEW m, NEW k, NEW a, Within(s, n, t, m, k, a),
         NEW d, NEW dd, NEW e, NEW ee, Same(d, dd, k), Same(e, ee, k),
         NEW th, th # a, NEW x, NEW dg, NEW dg2, dg # "exit", ThreadOK(s, n, d, e, th, x, dg)
  PROVE  ThreadOK(t, m, dd, ee, th, x, dg2)
<1>1. /\ n \in Nat \ {0} /\ m \in Nat \ {0} /\ k \in 0..n /\ k \in 0..m /\ k \in Nat /\ n \in Nat /\ m \in Nat
      /\ \A i \in 1..n : s[i] \in Records
      /\ \A i \in 1..m : t[i] \in Records
      /\ Same(s, t, k)
      /\ \A i \in (k + 1)..n : s[i].th = a
      /\ \A i \in (k + 1)..m : t[i].th = a
      /\ s[n].th = a /\ t[m].th = a
      /\ (k = 0 \/ s[k].th = a \/ (k < n /\ k < m /\ s[k + 1].kind = t[k + 1].kind))
  BY DEF Within
<1>2. \A i \in 1..k : s[i] = t[i] /\ d[i] = dd[i] /\ e[i] = ee[i]
  BY DEF Same, Within
<1>3. /\ \A i \in 1..n : s[i].th = th => i \in 1..k
      /\ \A i \in 1..m : t[i].th = th => i \in 1..k
      /\ \A i \in 1..k : i \in 1..n /\ i \in 1..m
  BY <1>1
<1>4. /\ JumpOK(s, n, th, x) /\ YieldOK(s, n, th, x, dg) /\ HookOK(s, n, th, x) /\ FramesOK(s, n, th, x)
      /\ StatusOK(s, n, th, x) /\ WaitOK(s, n, d, e, th, x) /\ BaseOK(s, n, d, th, x)
  BY DEF ThreadOK
<1>5. On(s, n, th) <=> On(t, m, th)
  BY <1>2, <1>3 DEF On
<1>6. JumpOK(t, m, th, x)
  <2>1. PICK j : j = x.jmp
    OBVIOUS
  <2>2. Innermost(s, n, th, j)
    BY <1>4, <2>1 DEF JumpOK
  <2>3. j \in 0..k /\ (j # 0 => j \in 1..k)
    BY <1>1, <1>3, <2>2 DEF Innermost, Target
  <2>4. j \in 0..m /\ (j # 0 => Target(t[j], th))
    BY <1>1, <1>2, <2>2, <2>3 DEF Innermost
  <2>5. ASSUME NEW i \in (j + 1)..m PROVE ~ Target(t[i], th)
    <3>1. i \in 1..m
      BY <1>1, <2>3
    <3>2. CASE i \in 1..k
      <4>1. i \in (j + 1)..n
        BY <1>1, <2>3, <3>2
      <4> QED BY <1>2, <2>2, <3>2, <4>1 DEF Innermost
    <3>3. CASE i \notin 1..k
      BY <1>3, <3>1, <3>3 DEF Target
    <3> QED BY <3>2, <3>3
  <2> QED BY <2>1, <2>4, <2>5 DEF JumpOK, Innermost
<1>7. YieldOK(t, m, th, x, dg2)
  BY <1>1, <1>4, <1>5 DEF YieldOK
<1>8. HookOK(t, m, th, x)
  <2>1. Hooked(s, n, th) <=> Hooked(t, m, th)
    BY <1>2, <1>3 DEF Hooked
  <2> QED BY <1>4, <2>1 DEF HookOK
<1>9. FramesOK(t, m, th, x)
  <2>1. \A i \in (k + 1)..n : Own(s[i], th) = <<>>
    BY <1>1 DEF Own
  <2>2. \A i \in (k + 1)..m : Own(t[i], th) = <<>>
    BY <1>1 DEF Own
  <2>3. FramesUpTo(s, n, th) = FramesUpTo(s, k, th)
    BY ONLY <1>1, <2>1, FramesSkip
  <2>4. FramesUpTo(t, m, th) = FramesUpTo(t, k, th)
    BY ONLY <1>1, <2>2, FramesSkip
  <2>5. FramesUpTo(s, k, th) = FramesUpTo(t, k, th)
    BY ONLY <1>1, FramesSame
  <2> QED BY <1>4, <2>3, <2>4, <2>5 DEF FramesOK
<1>10. StatusOK(t, m, th, x)
  BY <1>4, <1>5 DEF StatusOK
<1>11. WaitOK(t, m, dd, ee, th, x)
  <2> SUFFICES ASSUME NEW i \in 1..(m - 1), t[i].th = th, t[i + 1].kind = "resume"
               PROVE  x.ccalls = dd[i] /\ x.errfunc = ee[i]
    BY DEF WaitOK
  <2>1. i \in 1..k /\ s[i] = t[i] /\ d[i] = dd[i] /\ e[i] = ee[i]
    <3>1. i \in 1..m
      BY <1>1
    <3> QED BY <1>2, <1>3, <3>1
  <2>2. i \in 1..(n - 1) /\ s[i + 1].kind = "resume"
    <3>1. CASE i = k
      BY <1>1, <2>1, <3>1
    <3>2. CASE i # k
      <4>1. i + 1 \in 1..k
        BY <1>1, <2>1, <3>2
      <4> QED BY <1>1, <1>2, <4>1
    <3> QED BY <3>1, <3>2
  <2> QED BY <1>4, <2>1, <2>2 DEF WaitOK
<1>12. BaseOK(t, m, dd, th, x)
  BY <1>2, <1>3, <1>4 DEF BaseOK
<1>13. TopOK(t, m, dd, ee, th, x, dg2)
  BY <1>1 DEF TopOK
<1> QED BY <1>6, <1>7, <1>8, <1>9, <1>10, <1>11, <1>12, <1>13 DEF ThreadOK

\* The thread a is resumed from another one.
LEMMA OthersResume ==
  ASSUME NEW s, NEW t, NEW d, NEW dd, NEW e, NEW ee, NEW n \in Nat \ {0}, NEW m, m = n + 1,
         \A i \in 1..n : s[i] \in Records, \A i \in 1..m : t[i] \in Records,
         Same(s, t, n), Same(d, dd, n), Same(e, ee, n), NEW a, t[m].th = a,
         NEW th, th # a, NEW x, NEW dg2, ThreadOK(s, n, d, e, th, x, "run"),
         s[n].kind # "resume"
  PROVE  ThreadOK(t, m, dd, ee, th, x, dg2)
<1>1. /\ m \in Nat /\ n \in 0..m /\ n \in Nat
      /\ \A i \in 1..m : i \in 1..n \/ i = m
      /\ \A i \in 1..n : i \in 1..m /\ s[i] = t[i] /\ d[i] = dd[i] /\ e[i] = ee[i]
      /\ t[m].th # th
  BY DEF Same
<1>2. /\ JumpOK(s, n, th, x) /\ YieldOK(s, n, th, x, "run") /\ HookOK(s, n, th, x) /\ FramesOK(s, n, th, x)
      /\ StatusOK(s, n, th, x) /\ WaitOK(s, n, d, e, th, x) /\ BaseOK(s, n, d, th, x)
      /\ TopOK(s, n, d, e, th, x, "run")
  BY DEF ThreadOK
<1>3. On(s, n, th) <=> On(t, m, th)
  BY <1>1 DEF On
<1>4. JumpOK(t, m, th, x)
  <2>1. ~ Target(t[m], th)
    BY <1>1 DEF Target
  <2>2. PICK j : j = x.jmp /\ Innermost(s, n, th, j)
    BY <1>2 DEF JumpOK
  <2>3. Innermost(t, m, th, j)
    BY <1>1, <2>1, <2>2, InnermostPush
  <2> QED BY <2>2, <2>3 DEF JumpOK
<1>5. YieldOK(t, m, th, x, dg2)
  BY <1>2, <1>3 DEF YieldOK
<1>6. HookOK(t, m, th, x)
  <2>1. Hooked(s, n, th) <=> Hooked(t, m, th)
    BY <1>1 DEF Hooked
  <2> QED BY <1>2, <2>1 DEF HookOK
<1>7. FramesOK(t, m, th, x)
  <2>1. \A i \in (n + 1)..m : Own(t[i], th) = <<>>
    BY <1>1 DEF Own
  <2>2. FramesUpTo(t, m, th) = FramesUpTo(t, n, th)
    BY <1>1, <2>1, FramesSkip
  <2>3. FramesUpTo(s, n, th) = FramesUpTo(t, n, th)
    BY <1>1, FramesSame
  <2> QED BY <1>2, <2>2, <2>3 DEF FramesOK
<1>8. StatusOK(t, m, th, x)
  BY <1>2, <1>3 DEF StatusOK
<1>9. WaitOK(t, m, dd, ee, th, x)
  <2> SUFFICES ASSUME NEW i \in 1..(m - 1), t[i].th = th, t[i + 1].kind = "resume"
               PROVE  x.ccalls = dd[i] /\ x.errfunc = ee[i]
    BY DEF WaitOK
  <2>1. i \in 1..n /\ s[i].th = th /\ d[i] = dd[i] /\ e[i] = ee[i]
    BY <1>1
  <2>2. CASE i = n
    BY <1>2, <2>1, <2>2 DEF TopOK
  <2>3. CASE i # n
    <3>1. i \in 1..(n - 1) /\ i + 1 \in 1..n
      BY <2>1, <2>3
    <3>2. s[i + 1].kind = "resume"
      BY <1>1, <3>1
    <3> QED BY <1>2, <2>1, <3>1, <3>2 DEF WaitOK
  <2> QED BY <2>2, <2>3
<1>10. BaseOK(t, m, dd, th, x)
  BY <1>1, <1>2 DEF BaseOK
<1>11. TopOK(t, m, dd, ee, th, x, dg2)
  BY <1>1 DEF TopOK
<1> QED BY <1>4, <1>5, <1>6, <1>7, <1>8, <1>9, <1>10, <1>11 DEF ThreadOK

\* The coroutine a is left, from its resume upwards.
LEMMA OthersReturn ==
  ASSUME NEW s, NEW d, NEW e, NEW n \in Nat, NEW m \in 1..(n - 1),
         \A i \in 1..n : s[i] \in Records, StackOK(s, n, d, e),
         NEW a, \A i \in (m + 1)..n : s[i].th = a, s[m + 1].kind = "resume",
         NEW th, th # a, NEW x, NEW dg, NEW dg2, dg # "exit", ThreadOK(s, n, d, e, th, x, dg)
  PROVE  ThreadOK(s, m, d, e, th, x, dg2)
<1>1. /\ m \in Nat /\ m \in 0..n /\ m \in 1..n /\ s[n].th = a
      /\ \A i \in 1..n : s[i].th = th => i \in 1..m
      /\ \A i \in 1..m : i \in 1..n
  OBVIOUS
<1>2. /\ JumpOK(s, n, th, x) /\ YieldOK(s, n, th, x, dg) /\ HookOK(s, n, th, x) /\ FramesOK(s, n, th, x)
      /\ StatusOK(s, n, th, x) /\ WaitOK(s, n, d, e, th, x) /\ BaseOK(s, n, d, th, x)
  BY DEF ThreadOK
<1>3. On(s, n, th) <=> On(s, m, th)
  BY <1>1 DEF On
<1>4. JumpOK(s, m, th, x)
  <2>1. PICK j : j = x.jmp /\ Innermost(s, n, th, j)
    BY <1>2 DEF JumpOK
  <2>2. j \in 0..m
    BY <1>1, <2>1 DEF Innermost, Target
  <2>3. \A i \in (j + 1)..m : i \in (j + 1)..n
    BY <2>2
  <2> QED BY <2>1, <2>2, <2>3 DEF JumpOK, Innermost
<1>5. YieldOK(s, m, th, x, dg2)
  BY <1>1, <1>2, <1>3 DEF YieldOK
<1>6. HookOK(s, m, th, x)
  <2>1. Hooked(s, n, th) <=> Hooked(s, m, th)
    BY <1>1 DEF Hooked
  <2> QED BY <1>2, <2>1 DEF HookOK
<1>7. FramesOK(s, m, th, x)
  <2>1. \A i \in (m + 1)..n : Own(s[i], th) = <<>>
    BY DEF Own
  <2>2. FramesUpTo(s, n, th) = FramesUpTo(s, m, th)
    BY <1>1, <2>1, FramesSkip
  <2> QED BY <1>2, <2>2 DEF FramesOK
<1>8. StatusOK(s, m, th, x)
  BY <1>2, <1>3 DEF StatusOK
<1>9. WaitOK(s, m, d, e, th, x)
  <2>1. \A i \in 1..(m - 1) : i \in 1..(n - 1)
    OBVIOUS
  <2> QED BY <1>2, <2>1 DEF WaitOK
<1>10. BaseOK(s, m, d, th, x)
  BY <1>1, <1>2 DEF BaseOK
<1>11. TopOK(s, m, d, e, th, x, dg2)
  <2> SUFFICES ASSUME s[m].th = th
               PROVE  /\ x.errfunc = e[m] /\ x.ccalls = d[m]
                      /\ x.ccalls < MaxCcalls + Margin
    BY DEF TopOK
  <2>1. x.errfunc = e[m] /\ x.ccalls = d[m]
    BY <1>2 DEF WaitOK
  <2>2. d[m] \in 0..(MaxCcalls + Margin - 1)
    BY <1>1 DEF StackOK, Counted
  <2> QED BY <2>1, <2>2, CallAssumption
<1> QED BY <1>4, <1>5, <1>6, <1>7, <1>8, <1>9, <1>10, <1>11 DEF ThreadOK

---------------------------------------------------------------------------
(* Changing the thread that runs *)

LEMMA TopThread ==
  ASSUME NEW s, NEW d, NEW e, NEW n \in Nat \ {0}, NEW thr, NEW dg, dg # "exit",
         Core(s, n, d, e, thr, dg), s[n].th \in Threads
  PROVE  /\ ThreadOK(s, n, d, e, s[n].th, thr[s[n].th], dg)
         /\ On(s, n, s[n].th)
         /\ thr[s[n].th].status \in {"ok", "yield"}
         /\ s[n].kind # "resume" \/ dg # "run" => thr[s[n].th].status = "ok"
<1>1. ThreadOK(s, n, d, e, s[n].th, thr[s[n].th], dg)
  BY DEF Core
<1>2. On(s, n, s[n].th)
  BY DEF On
<1>3. thr[s[n].th].status \in {"ok", "yield"}
  BY <1>1, <1>2 DEF ThreadOK, StatusOK
<1>4. s[n].kind # "resume" \/ dg # "run" => thr[s[n].th].status = "ok"
  BY <1>1, <1>2, <1>3 DEF ThreadOK, YieldOK
<1> QED BY <1>1, <1>2, <1>3, <1>4

Updated(thr, a, y, thr2) == \A th \in Threads : thr2[th] = IF th = a THEN y ELSE thr[th]

LEMMA CoreWithin ==
  ASSUME NEW s, NEW n, NEW t, NEW m, NEW k, NEW a, Within(s, n, t, m, k, a),
         NEW d, NEW dd, NEW e, NEW ee, Same(d, dd, k), Same(e, ee, k), NEW thr, NEW thr2,
         NEW y, Updated(thr, a, y, thr2), NEW dg, NEW dg2, dg # "exit", Core(s, n, d, e, thr, dg),
         StackOK(t, m, dd, ee), ThreadOK(t, m, dd, ee, a, y, dg2)
  PROVE  Core(t, m, dd, ee, thr2, dg2)
<1>1. ASSUME NEW th \in Threads PROVE ThreadOK(t, m, dd, ee, th, thr2[th], dg2)
  <2>1. CASE th = a
    BY <2>1 DEF Updated
  <2>2. CASE th # a
    <3>1. thr2[th] = thr[th] /\ ThreadOK(s, n, d, e, th, thr[th], dg)
      BY <2>2 DEF Updated, Core
    <3>2. PICK x : x = thr[th]
      OBVIOUS
    <3>3. ThreadOK(s, n, d, e, th, x, dg)
      BY <3>1, <3>2
    <3>4. ThreadOK(t, m, dd, ee, th, x, dg2)
      BY <2>2, <3>3, OthersWithin
    <3> QED BY <3>1, <3>2, <3>4
  <2> QED BY <2>1, <2>2
<1> QED BY <1>1 DEF Core

LEMMA Pushed ==
  ASSUME NEW s \in Seq(Records), NEW r \in Records
  PROVE  /\ Append(s, r) \in Seq(Records) /\ Len(Append(s, r)) = Len(s) + 1 /\ Append(s, r) # <<>>
         /\ Append(s, r)[Len(s) + 1] = r /\ Same(s, Append(s, r), Len(s))
         /\ \A i \in 1..(Len(s) + 1) : Append(s, r)[i] \in Records
<1>1. PICK t : t = Append(s, r)
  OBVIOUS
<1>2. t \in Seq(Records) /\ Len(t) = Len(s) + 1 /\ t[Len(s) + 1] = r
  BY <1>1
<1>3. \A i \in 1..Len(s) : t[i] = s[i]
  BY <1>1
<1>4. t # <<>>
  BY <1>2
<1>5. \A i \in 1..(Len(s) + 1) : t[i] \in Records
  BY <1>2, ElementOfSeq
<1> QED BY <1>1, <1>2, <1>3, <1>4, <1>5 DEF Same

Extended(f, n, v) == [i \in 1..(n + 1) |-> IF i = n + 1 THEN v ELSE f[i]]

LEMMA ExtendedIs ==
  ASSUME NEW f, NEW n \in Nat, NEW v
  PROVE  Extended(f, n, v)[n + 1] = v /\ Same(f, Extended(f, n, v), n)
BY DEF Extended, Same

\* An activation r of the running thread a is pushed, and the thread is y then.
Pushes(s, n, d, e, t, m, dd, ee, a, x, r, y) ==
  /\ s \in Seq(Records) /\ s # <<>> /\ n = Len(s) /\ a \in Threads /\ a = s[n].th /\ x.status = "ok"
  /\ r \in Records /\ r.th = a /\ r.kind \notin {"host", "resume"}
  /\ t = Append(s, r) /\ m = n + 1 /\ Same(d, dd, n) /\ Same(e, ee, n)
  /\ Placed(t, m) /\ Remembered(t, m) /\ Counted(t, dd, m) /\ Handled(t, ee, m)
  /\ y.status = "ok" /\ y.ci = x.ci \o Own(r, a) /\ y.base = x.base
  /\ y.jmp = IF r.kind = "pcall" THEN m ELSE x.jmp
  /\ (y.allowhook <=> ~ Hooked(t, m, a))
  /\ y.ccalls = dd[m] /\ y.errfunc = ee[m] /\ y.ccalls < MaxCcalls + Margin
  /\ dd[m] >= x.base /\ (r.called => dd[m] > x.base)

LEMMA GoodPush ==
  ASSUME NEW s, NEW n, NEW thr, NEW dg, dg # "exit", NEW d, NEW e, Core(s, n, d, e, thr, dg),
         NEW a, NEW x, x = thr[a], NEW r, NEW t, NEW m, NEW dd, NEW ee, NEW y,
         Pushes(s, n, d, e, t, m, dd, ee, a, x, r, y), NEW thr2, Updated(thr, a, y, thr2)
  PROVE  Good(t, thr2, "run")
<1> USE DEF Pushes
<1>0. /\ s \in Seq(Records) /\ s # <<>> /\ n = Len(s) /\ m = n + 1 /\ a = s[n].th /\ r.th = a
      /\ y.base = x.base /\ (y.jmp = IF r.kind = "pcall" THEN m ELSE x.jmp) /\ y.ci = x.ci \o Own(r, a)
      /\ Same(d, dd, n) /\ Same(e, ee, n)
  OBVIOUS
<1>1. /\ n \in Nat \ {0} /\ n \in Nat /\ m \in Nat \ {0} /\ m \in Nat /\ n \in 1..n
      /\ \A i \in 1..n : s[i] \in Records
  BY ONLY <1>0, EmptySeq, ElementOfSeq
<1>2. /\ Len(t) = m /\ t[m] = r /\ Same(s, t, n) /\ \A i \in 1..m : t[i] \in Records
  <2>1. /\ Len(t) = Len(s) + 1 /\ t[Len(s) + 1] = r /\ Same(s, t, Len(s))
        /\ \A i \in 1..(Len(s) + 1) : t[i] \in Records
    BY Pushed
  <2> QED BY <2>1
<1>3. \A i \in 1..n : s[i] = t[i] /\ d[i] = dd[i] /\ e[i] = ee[i]
  BY <1>2 DEF Same
<1>4. StackOK(s, n, d, e) /\ ThreadOK(s, n, d, e, a, x, dg)
  BY DEF Core
<1>5. StackOK(t, m, dd, ee)
  <2>1. StackOK(t, n, dd, ee)
    BY <1>1, <1>2, <1>4, StackSame
  <2> QED BY <1>1, <2>1, StackPush
<1>6. /\ JumpOK(s, n, a, x) /\ FramesOK(s, n, a, x) /\ BaseOK(s, n, d, a, x)
  BY <1>4 DEF ThreadOK
<1>7. ThreadOK(t, m, dd, ee, a, y, "run")
  <2>1. JumpOK(t, m, a, y)
    <3>1. CASE r.kind = "pcall"
      <4>1. m \in 0..m /\ Target(t[m], a) /\ \A i \in (m + 1)..m : FALSE
        BY ONLY <1>0, <1>1, <1>2, <3>1 DEF Target
      <4> QED BY <3>1, <4>1 DEF JumpOK, Innermost
    <3>2. CASE r.kind # "pcall"
      <4>1. ~ Target(t[m], a)
        BY <1>2, <3>2 DEF Target
      <4>2. PICK j : j = x.jmp /\ Innermost(s, n, a, j)
        BY <1>6 DEF JumpOK
      <4>3. Innermost(t, m, a, j)
        BY <1>1, <1>2, <4>1, <4>2, InnermostPush
      <4> QED BY <3>2, <4>2, <4>3 DEF JumpOK
    <3> QED BY <3>1, <3>2
  <2>2. YieldOK(t, m, a, y, "run")
    BY DEF YieldOK
  <2>3. HookOK(t, m, a, y)
    BY DEF HookOK
  <2>4. FramesOK(t, m, a, y)
    <3>1. FramesUpTo(t, n + 1, a) = FramesUpTo(t, n, a) \o Own(t[n + 1], a)
      <4>1. n \in Nat /\ \A i \in 1..(n + 1) : t[i] \in Records
        BY <1>1, <1>2
      <4> QED BY ONLY <4>1, FramesStep
    <3>2. FramesUpTo(s, n, a) = FramesUpTo(t, n, a)
      BY ONLY <1>1, <1>2, FramesSame
    <3>3. FramesUpTo(t, m, a) = FramesUpTo(s, n, a) \o Own(r, a)
      BY <1>2, <3>1, <3>2
    <3> QED BY <1>6, <3>3 DEF FramesOK
  <2>5. StatusOK(t, m, a, y)
    <3>1. On(t, m, a)
      BY ONLY <1>0, <1>1, <1>2 DEF On
    <3> QED BY <3>1 DEF StatusOK
  <2>6. WaitOK(t, m, dd, ee, a, y)
    <3>1. a = t[m].th
      BY <1>2
    <3> QED BY <1>1, <1>5, <3>1, TopWaitOK
  <2>7. BaseOK(t, m, dd, a, y)
    <3>1. a = Main => y.base = 0
      BY <1>6 DEF BaseOK
    <3>2. ASSUME NEW i \in 1..m, t[i].th = a
          PROVE  /\ dd[i] >= y.base
                 /\ t[i].called => dd[i] > y.base
                 /\ t[i].kind = "resume" => dd[i] = y.base
      <4>1. CASE i = m
        BY <1>2, <4>1
      <4>2. CASE i # m
        <5>1. i \in 1..n
          BY ONLY <1>0, <1>1, <4>2, i \in 1..m
        <5>2. s[i] = t[i] /\ d[i] = dd[i] /\ s[i].th = a
          BY ONLY <1>3, <3>2, <5>1
        <5>3. /\ d[i] >= x.base
              /\ s[i].called => d[i] > x.base
              /\ s[i].kind = "resume" => d[i] = x.base
          BY ONLY <1>6, <5>1, <5>2 DEF BaseOK
        <5> QED BY ONLY <1>0, <5>2, <5>3
      <4> QED BY <4>1, <4>2
    <3> QED BY <3>1, <3>2 DEF BaseOK
  <2>8. TopOK(t, m, dd, ee, a, y, "run")
    BY DEF TopOK
  <2> QED BY <2>1, <2>2, <2>3, <2>4, <2>5, <2>6, <2>7, <2>8 DEF ThreadOK
<1>8. Within(s, n, t, m, n, a)
  <2>1. /\ n \in 0..n /\ n \in 0..m /\ (\A i \in (n + 1)..n : s[i].th = a)
        /\ (\A i \in (n + 1)..m : t[i].th = a) /\ s[n].th = a /\ t[m].th = a
    BY ONLY <1>0, <1>1, <1>2
  <2> QED BY ONLY <1>1, <1>2, <2>1 DEF Within
<1>9. Core(t, m, dd, ee, thr2, "run")
  <2>1. Updated(thr, a, y, thr2) /\ Core(s, n, d, e, thr, dg) /\ dg # "exit"
    OBVIOUS
  <2> QED BY ONLY <1>0, <1>5, <1>7, <1>8, <2>1, CoreWithin
<1> QED BY <1>2, <1>9 DEF Good

\* The activation of a function is pushed.
LEMMA GoodBody ==
  ASSUME NEW s \in Seq(Records), s # <<>>, NEW thr, Good(s, thr, "run"),
         NEW a \in Threads, a = s[Len(s)].th, NEW x, x = thr[a], x \in ThreadRecords, x.status = "ok",
         NEW r \in Records, r.th = a, r.kind \in {"execute", "cfunction"},
         r.kind = "execute" => r.n >= 1,
         ~ r.called => \/ r.kind = "execute" /\ s[Len(s)].kind = "resume"
                       \/ r.kind = "cfunction" /\ s[Len(s)].kind = "execute",
         NEW y, y.ci = x.ci \o Own(r, a), y.ccalls = x.ccalls + (IF r.called THEN 1 ELSE 0),
         y.ccalls < MaxCcalls + Margin, y.status = x.status, y.base = x.base,
         y.errfunc = x.errfunc, y.allowhook = x.allowhook, y.jmp = x.jmp,
         NEW thr2, Updated(thr, a, y, thr2)
  PROVE  Good(Append(s, r), thr2, "run")
<1>1. PICK n : n = Len(s)
  OBVIOUS
<1>2. PICK d, e : Core(s, n, d, e, thr, "run")
  BY <1>1 DEF Good
<1>3. PICK t : t = Append(s, r)
  OBVIOUS
<1>4. PICK m : m = n + 1
  OBVIOUS
<1>5. PICK v : v = y.ccalls
  OBVIOUS
<1>6. PICK w : w = y.errfunc
  OBVIOUS
<1>7. PICK dd : dd = Extended(d, n, v)
  OBVIOUS
<1>8. PICK ee : ee = Extended(e, n, w)
  OBVIOUS
<1>9. n \in Nat \ {0} /\ n \in Nat /\ n \in 1..n /\ m # 1 /\ m - 1 = n /\ m > 1
  BY ONLY <1>1, <1>4, s \in Seq(Records), s # <<>>, EmptySeq
<1>10. t[m] = r /\ Same(s, t, n) /\ t[n] = s[n]
  <2>1. t[m] = r /\ Same(s, t, n)
    BY <1>1, <1>3, <1>4, Pushed
  <2> QED BY <1>9, <2>1 DEF Same
<1>11. dd[m] = v /\ Same(d, dd, n) /\ dd[n] = d[n]
  <2>1. dd[m] = v /\ Same(d, dd, n)
    BY ONLY <1>4, <1>7, <1>9, ExtendedIs
  <2> QED BY <1>9, <2>1 DEF Same
<1>12. ee[m] = w /\ Same(e, ee, n) /\ ee[n] = e[n]
  <2>1. ee[m] = w /\ Same(e, ee, n)
    BY ONLY <1>4, <1>8, <1>9, ExtendedIs
  <2> QED BY <1>9, <2>1 DEF Same
<1>13. StackOK(s, n, d, e) /\ ThreadOK(s, n, d, e, a, x, "run")
  BY <1>2 DEF Core
<1>14. x.errfunc = e[n] /\ x.ccalls = d[n] /\ (x.allowhook <=> ~ Hooked(s, n, a))
  <2>1. s[n].th = a /\ TopOK(s, n, d, e, a, x, "run") /\ HookOK(s, n, a, x)
    BY <1>1, <1>13 DEF ThreadOK
  <2> QED BY <2>1 DEF TopOK, HookOK
<1>15. d[n] \in 0..(MaxCcalls + Margin - 1) /\ e[n] \in ErrFuncs /\ d[n] \in Nat /\ d[n] >= x.base
  <2>1. d[n] \in 0..(MaxCcalls + Margin - 1) /\ e[n] \in ErrFuncs
    BY <1>9, <1>13 DEF StackOK, Counted, Handled
  <2>2. d[n] >= x.base
    <3>1. BaseOK(s, n, d, a, x) /\ s[n].th = a
      BY <1>1, <1>13 DEF ThreadOK
    <3> QED BY <1>9, <3>1 DEF BaseOK
  <2> QED BY ONLY <2>1, <2>2, CallAssumption
<1>16. v = d[n] + (IF r.called THEN 1 ELSE 0) /\ v \in 0..(MaxCcalls + Margin - 1)
       /\ v >= x.base /\ (r.called => v > x.base)
  <2>1. v = d[n] + (IF r.called THEN 1 ELSE 0) /\ v < MaxCcalls + Margin
    BY <1>5, <1>14
  <2>2. x.base \in Nat
    BY ONLY x \in ThreadRecords, CallAssumption DEF ThreadRecords
  <2> QED BY ONLY <1>15, <2>1, <2>2, CallAssumption
<1>17. Placed(t, m)
  <2>1. s[n] = t[m - 1] /\ s[n].th = a /\ s[n] = s[Len(s)]
    BY <1>1, <1>9, <1>10
  <2> QED BY <1>9, <1>10, <2>1 DEF Placed
<1>18. Remembered(t, m)
  BY <1>10 DEF Remembered, Saves
<1>19. Counted(t, dd, m)
  <2>1. dd[m] = dd[m - 1] + (IF r.called \/ r.kind = "resume" THEN 1 ELSE 0)
    BY <1>9, <1>11, <1>16
  <2>2. dd[m] \in 0..(MaxCcalls + Margin - 1) /\ r.kind \notin Saves
    BY <1>11, <1>16 DEF Saves
  <2> QED BY <1>9, <1>10, <2>1, <2>2 DEF Counted
<1>20. Handled(t, ee, m)
  <2>1. ee[m] = ee[m - 1] /\ ee[m] \in ErrFuncs
    BY <1>6, <1>9, <1>12, <1>14, <1>15
  <2> QED BY <1>10, <2>1 DEF Handled, Saves
<1>21. y.allowhook <=> ~ Hooked(t, m, a)
  <2>1. Hooked(t, m, a) <=> Hooked(s, n, a)
    <3>1. \A i \in 1..m : i \in 1..n \/ i = m
      BY ONLY <1>4, <1>9
    <3>2. \A i \in 1..n : s[i] = t[i] /\ i \in 1..m
      BY ONLY <1>4, <1>9, <1>10 DEF Same
    <3> QED BY <1>10, <3>1, <3>2 DEF Hooked
  <2> QED BY <1>14, <2>1
<1>22. /\ y.status = "ok" /\ y.jmp = (IF r.kind = "pcall" THEN m ELSE x.jmp) /\ y.ccalls = dd[m]
       /\ y.errfunc = ee[m] /\ dd[m] >= x.base /\ (r.called => dd[m] > x.base)
       /\ r.kind \notin {"host", "resume"}
  BY <1>5, <1>6, <1>11, <1>12, <1>16
<1>23. Pushes(s, n, d, e, t, m, dd, ee, a, x, r, y)
  BY <1>1, <1>3, <1>4, <1>11, <1>12, <1>17, <1>18, <1>19, <1>20, <1>21, <1>22 DEF Pushes
<1>24. Good(t, thr2, "run")
  BY <1>2, <1>23, GoodPush
<1>25. QED BY <1>3, <1>24

\* An activation of luaD_pcall, luaG_errormsg, GCTM or a hook is pushed.
LEMMA GoodSaved ==
  ASSUME NEW s \in Seq(Records), s # <<>>, NEW thr, NEW dg, Good(s, thr, dg),
         NEW a \in Threads, a = s[Len(s)].th, NEW x, x = thr[a], x \in ThreadRecords, x.status = "ok",
         NEW r \in Records, r.th = a, r.kind \in Saves \cup {"hook"}, ~ r.called,
         dg = "run" \/ (dg = "error" /\ r.kind = "errormsg"),
         r.kind = "hook" => s[Len(s)].kind \in {"execute", "cfunction"} /\ x.allowhook,
         r.kind \in Saves => r.old = Saved(x),
         NEW y \in ThreadRecords, y.ci = x.ci, y.ccalls = x.ccalls, y.status = x.status, y.base = x.base,
         r.kind # "pcall" => y.errfunc = x.errfunc,
         y.allowhook = IF r.kind \in {"gctm", "hook"} THEN FALSE ELSE x.allowhook,
         y.jmp = IF r.kind = "pcall" THEN Len(s) + 1 ELSE x.jmp,
         NEW thr2, Updated(thr, a, y, thr2)
  PROVE  Good(Append(s, r), thr2, "run")
<1>1. PICK n : n = Len(s)
  OBVIOUS
<1>2. PICK d, e : Core(s, n, d, e, thr, dg)
  BY <1>1 DEF Good
<1>3. PICK t : t = Append(s, r)
  OBVIOUS
<1>4. PICK m : m = n + 1
  OBVIOUS
<1>5. PICK v : v = y.ccalls
  OBVIOUS
<1>6. PICK w : w = y.errfunc
  OBVIOUS
<1>7. PICK dd : dd = Extended(d, n, v)
  OBVIOUS
<1>8. PICK ee : ee = Extended(e, n, w)
  OBVIOUS
<1>9. n \in Nat \ {0} /\ n \in Nat /\ n \in 1..n /\ m # 1 /\ m - 1 = n /\ m > 1
      /\ \A i \in 1..n : s[i] \in Records
  BY <1>1, <1>4, EmptySeq, ElementOfSeq
<1>10. t[m] = r /\ Same(s, t, n) /\ t[n] = s[n]
  <2>1. t[m] = r /\ Same(s, t, n)
    BY <1>1, <1>3, <1>4, Pushed
  <2> QED BY <1>9, <2>1 DEF Same
<1>11. dd[m] = v /\ Same(d, dd, n) /\ dd[n] = d[n]
  <2>1. dd[m] = v /\ Same(d, dd, n)
    BY <1>4, <1>7, <1>9, ExtendedIs
  <2> QED BY <1>9, <2>1 DEF Same
<1>12. ee[m] = w /\ Same(e, ee, n) /\ ee[n] = e[n]
  <2>1. ee[m] = w /\ Same(e, ee, n)
    BY <1>4, <1>8, <1>9, ExtendedIs
  <2> QED BY <1>9, <2>1 DEF Same
<1>13. StackOK(s, n, d, e) /\ ThreadOK(s, n, d, e, a, x, dg) /\ dg # "exit"
  BY <1>2 DEF Core
<1>14. /\ x.errfunc = e[n] /\ (x.ccalls = d[n] \/ (r.kind = "errormsg" /\ x.ccalls = d[n] + 1))
       /\ x.ccalls < MaxCcalls + Margin /\ (x.allowhook <=> ~ Hooked(s, n, a))
       /\ Innermost(s, n, a, x.jmp) /\ x.ci = FramesUpTo(s, n, a) /\ d[n] >= x.base
  <2>1. /\ s[n].th = a /\ TopOK(s, n, d, e, a, x, dg) /\ HookOK(s, n, a, x) /\ JumpOK(s, n, a, x)
        /\ FramesOK(s, n, a, x) /\ BaseOK(s, n, d, a, x)
    BY <1>1, <1>13 DEF ThreadOK
  <2> QED BY <1>9, <2>1 DEF TopOK, HookOK, JumpOK, FramesOK, BaseOK
<1>15. d[n] \in 0..(MaxCcalls + Margin - 1) /\ e[n] \in ErrFuncs /\ w \in ErrFuncs
  BY <1>6, <1>9, <1>13 DEF StackOK, Counted, Handled, ThreadRecords
<1>16. v \in 0..(MaxCcalls + Margin - 1) /\ v >= x.base
  <2>1. v \in 0..(MaxCcalls + Margin) /\ v = x.ccalls /\ x.base \in Nat
    BY <1>5, CallAssumption DEF ThreadRecords
  <2> QED BY <1>14, <1>15, <2>1, CallAssumption
<1>17. r.kind \notin {"host", "resume", "execute", "cfunction"}
  BY DEF Saves
<1>18. Placed(t, m)
  <2>1. s[n] = t[m - 1] /\ s[n].th = a /\ s[n] = s[Len(s)]
    BY <1>1, <1>9, <1>10
  <2> QED BY <1>9, <1>10, <1>17, <2>1 DEF Placed
<1>19. \A th : /\ Hooked(s, n, th) <=> Hooked(t, n, th)
               /\ \A j : Innermost(s, n, th, j) <=> Innermost(t, n, th, j)
               /\ FramesUpTo(s, n, th) = FramesUpTo(t, n, th)
  <2>1. n \in Nat /\ Same(s, t, n)
    BY <1>9, <1>10
  <2>2. \A th : /\ Hooked(s, n, th) <=> Hooked(t, n, th)
                /\ \A j : Innermost(s, n, th, j) <=> Innermost(t, n, th, j)
    BY ONLY <2>1, SameBelow
  <2>3. \A th : FramesUpTo(s, n, th) = FramesUpTo(t, n, th)
    BY ONLY <2>1, FramesSame
  <2> QED BY <2>2, <2>3
<1>20. Remembered(t, m)
  <2>1. r.kind \in Saves => /\ r.old.jmp = x.jmp /\ r.old.ci = Len(x.ci)
                            /\ r.old.allowhook = x.allowhook
    BY DEF Saved
  <2>2. x.allowhook \in BOOLEAN
    BY DEF ThreadRecords
  <2> QED BY <1>9, <1>10, <1>14, <1>17, <1>19, <2>1, <2>2 DEF Remembered
<1>21. Counted(t, dd, m)
  <2>1. r.kind \in Saves => r.old.ccalls = dd[m]
    BY <1>5, <1>11 DEF Saved
  <2>2. dd[m] = d[n] \/ (r.kind = "errormsg" /\ dd[m] = d[n] + 1)
    BY <1>5, <1>11, <1>14
  <2>3. d[n] = d[n] + 0
    BY <1>15
  <2> QED BY <1>9, <1>10, <1>11, <1>16, <1>17, <2>1, <2>2, <2>3 DEF Counted
<1>22. Handled(t, ee, m)
  <2>1. r.kind \in Saves => r.old.errfunc = ee[m - 1]
    BY <1>9, <1>12, <1>14 DEF Saved
  <2>2. r.kind # "pcall" => ee[m] = ee[m - 1]
    BY <1>6, <1>9, <1>12, <1>14
  <2> QED BY <1>10, <1>12, <1>15, <1>17, <2>1, <2>2 DEF Handled
<1>23. y.allowhook <=> ~ Hooked(t, m, a)
  <2>1. \A i \in 1..m : i \in 1..n \/ i = m
    BY <1>4, <1>9
  <2>2. m \in 1..m /\ \A i \in 1..n : i \in 1..m
    BY <1>4, <1>9
  <2>3. Hooked(t, m, a) <=> r.kind \in {"gctm", "hook"} \/ Hooked(t, n, a)
    BY <1>10, <2>1, <2>2 DEF Hooked
  <2>4. Hooked(t, n, a) <=> Hooked(s, n, a)
    BY <1>19
  <2>5. CASE r.kind \in {"gctm", "hook"}
    BY <2>3, <2>5
  <2>6. CASE r.kind \notin {"gctm", "hook"}
    <3>1. y.allowhook = x.allowhook
      BY <2>6
    <3> QED BY <1>14, <2>3, <2>4, <2>6, <3>1
  <2> QED BY <2>5, <2>6
<1>24. y.ci = x.ci \o Own(r, a)
  <2>1. Own(r, a) = <<>>
    BY <1>17 DEF Own, Frames
  <2>2. x.ci \in Seq(Functions)
    BY SMTT(30) DEF ThreadRecords
  <2> QED BY <2>1, <2>2
<1>25. Pushes(s, n, d, e, t, m, dd, ee, a, x, r, y)
  <2>1. y.ccalls = dd[m] /\ y.errfunc = ee[m] /\ y.ccalls < MaxCcalls + Margin /\ y.status = "ok"
        /\ dd[m] >= x.base /\ y.jmp = (IF r.kind = "pcall" THEN m ELSE x.jmp)
    BY <1>1, <1>4, <1>5, <1>6, <1>11, <1>12, <1>14, <1>16
  <2> QED BY <1>1, <1>3, <1>4, <1>11, <1>12, <1>17, <1>18, <1>20, <1>21, <1>22, <1>23, <1>24, <2>1
          DEF Pushes
<1>26. Good(t, thr2, "run")
  BY <1>2, <1>13, <1>25, GoodPush
<1> QED BY <1>3, <1>26

\* An error is raised, or proceeds.
LEMMA GoodDoing ==
  ASSUME NEW s \in Seq(Records), s # <<>>, NEW thr, NEW dg, Good(s, thr, dg),
         NEW a \in Threads, a = s[Len(s)].th, NEW x, x = thr[a], x \in ThreadRecords, x.status = "ok",
         NEW dg2, dg \in {"run", "error"}, dg2 \in {"error", "errrun", "errmem", "errerr"},
         NEW y, y.ci = x.ci, y.ccalls = x.ccalls \/ (dg = "run" /\ y.ccalls = x.ccalls + 1),
         dg2 = "error" => y.ccalls < MaxCcalls + Margin,
         y.status = x.status, y.base = x.base, y.errfunc = x.errfunc, y.allowhook = x.allowhook,
         y.jmp = x.jmp, NEW thr2, Updated(thr, a, y, thr2)
  PROVE  Good(s, thr2, dg2)
<1>1. PICK n : n = Len(s)
  OBVIOUS
<1>2. PICK d, e : Core(s, n, d, e, thr, dg)
  BY <1>1 DEF Good
<1>3. n \in Nat \ {0} /\ n \in Nat /\ \A i \in 1..n : s[i] \in Records
  BY <1>1, EmptySeq, ElementOfSeq
<1>4. StackOK(s, n, d, e) /\ ThreadOK(s, n, d, e, a, x, dg) /\ dg # "exit"
  BY <1>2 DEF Core
<1>5. ThreadOK(s, n, d, e, a, y, dg2)
  <2>1. /\ JumpOK(s, n, a, x) /\ HookOK(s, n, a, x) /\ FramesOK(s, n, a, x) /\ StatusOK(s, n, a, x)
        /\ BaseOK(s, n, d, a, x) /\ TopOK(s, n, d, e, a, x, dg)
    BY <1>4 DEF ThreadOK
  <2>2. JumpOK(s, n, a, y) /\ HookOK(s, n, a, y) /\ FramesOK(s, n, a, y) /\ StatusOK(s, n, a, y)
    BY <2>1 DEF JumpOK, HookOK, FramesOK, StatusOK
  <2>3. YieldOK(s, n, a, y, dg2)
    BY DEF YieldOK
  <2>4. WaitOK(s, n, d, e, a, y)
    BY <1>1, <1>3, <1>4, TopWaitOK
  <2>5. BaseOK(s, n, d, a, y)
    BY <2>1 DEF BaseOK
  <2>6. TopOK(s, n, d, e, a, y, dg2)
    <3>1. x.ccalls = d[n] \/ (dg # "run" /\ x.ccalls = d[n] + 1)
      BY <1>1, <2>1 DEF TopOK
    <3>2. y.errfunc = e[n] /\ (y.ccalls = d[n] \/ y.ccalls = d[n] + 1)
      BY <1>1, <2>1, <3>1 DEF TopOK
    <3> QED BY <3>2 DEF TopOK
  <2> QED BY <2>2, <2>3, <2>4, <2>5, <2>6 DEF ThreadOK
<1>6. Within(s, n, s, n, n, a)
  BY <1>1, <1>3 DEF Within, Same
<1>7. Core(s, n, d, e, thr2, dg2)
  <2>1. Same(d, d, n) /\ Same(e, e, n)
    BY DEF Same
  <2> QED BY <1>2, <1>4, <1>5, <1>6, <2>1, CoreWithin
<1> QED BY <1>1, <1>7 DEF Good

---------------------------------------------------------------------------
(* The frames of one activation *)

LEMMA FrontIs ==
  ASSUME NEW S, NEW s \in Seq(S), NEW v \in S
  PROVE  /\ Append(s, v) \in Seq(S) /\ Front(Append(s, v)) = s /\ Last(Append(s, v)) = v
         /\ Append(s, v) = s \o <<v>> /\ Append(s, v) # <<>>
<1>1. PICK t : t = Append(s, v)
  OBVIOUS
<1>2. t \in Seq(S) /\ Len(t) = Len(s) + 1 /\ t # <<>> /\ t[Len(t)] = v /\ t = s \o <<v>>
  BY <1>1
<1>3. SubSeq(t, 1, Len(t) - 1) = s
  <2>1. Len(t) - 1 = Len(s)
    BY <1>2
  <2>2. SubSeq(t, 1, Len(s)) = s
    BY <1>1
  <2> QED BY <2>1, <2>2
<1> QED BY <1>1, <1>2, <1>3 DEF Front, Last

Lua(n) == [i \in 1..n |-> "lua"]

LEMMA LuaFrames ==
  ASSUME NEW n \in Nat
  PROVE  /\ Lua(n) \in Seq(Functions) /\ Len(Lua(n)) = n /\ Lua(n + 1) = Append(Lua(n), "lua")
         /\ n > 0 => Lua(n) # <<>> /\ Last(Lua(n)) = "lua"
<1>1. Lua(n) \in Seq(Functions) /\ Len(Lua(n)) = n
  BY DEF Lua, Functions
<1>2. Lua(n + 1) = Append(Lua(n), "lua")
  <2>1. Lua(n + 1) \in Seq(Functions) /\ Len(Lua(n + 1)) = n + 1
        /\ \A i \in 1..(n + 1) : Lua(n + 1)[i] = "lua"
    BY DEF Lua, Functions
  <2>2. \A i \in 1..n : Lua(n)[i] = "lua"
    BY DEF Lua
  <2>3. PICK u : u = Append(Lua(n), "lua")
    OBVIOUS
  <2>4. "lua" \in Functions
    BY DEF Functions
  <2>5. u \in Seq(Functions) /\ Len(u) = n + 1 /\ \A i \in 1..(n + 1) : u[i] = "lua"
    BY <1>1, <2>2, <2>3, <2>4
  <2>6. Lua(n + 1) = u
    <3>1. PICK w \in Seq(Functions) : w = Lua(n + 1)
      BY <2>1
    <3>2. Len(w) = n + 1 /\ \A i \in 1..(n + 1) : w[i] = "lua"
      BY <2>1, <3>1
    <3>3. w = u
      BY <2>5, <3>2
    <3> QED BY <3>1, <3>3
  <2> QED BY <2>3, <2>6
<1>3. n > 0 => Lua(n) # <<>> /\ Last(Lua(n)) = "lua"
  BY <1>1 DEF Lua, Last
<1> QED BY <1>1, <1>2, <1>3

LEMMA OwnIs ==
  ASSUME NEW r, NEW th
  PROVE  /\ r.th # th => Own(r, th) = <<>>
         /\ r.kind \notin {"execute", "cfunction"} => Own(r, th) = <<>>
         /\ r.th = th /\ r.kind = "execute" => Own(r, th) = Lua(r.n)
         /\ r.th = th /\ r.kind = "cfunction" => Own(r, th) = <<"c">>
BY DEF Own, Frames, Lua

---------------------------------------------------------------------------
(* The top activation calls or returns in luaV_execute *)

\* A thread y that differs from t in its frames, ci, at most.
Alike(y, t, ci) ==
  /\ y.status = t.status /\ y.ci = ci /\ y.ccalls = t.ccalls /\ y.base = t.base
  /\ y.errfunc = t.errfunc /\ y.allowhook = t.allowhook /\ y.jmp = t.jmp

\* The stack t has a top activation with one frame more, or less, than s.
Reframed(s, t, n, x, ci) ==
  /\ n = Len(s) /\ Len(t) = n /\ Same(s, t, n - 1) /\ s[n].kind = "execute"
  /\ t[n].kind = s[n].kind /\ t[n].th = s[n].th /\ (t[n].called <=> s[n].called) /\ t[n].n >= 1
  /\ \/ t[n].n = s[n].n + 1 /\ ci = Append(x.ci, "lua")
     \/ t[n].n = s[n].n - 1 /\ ci = Front(x.ci)

LEMMA GoodTop ==
  ASSUME NEW s \in Seq(Records), s # <<>>, NEW thr, Good(s, thr, "run"),
         NEW a \in Threads, a = s[Len(s)].th, NEW x, x = thr[a], x.status = "ok",
         NEW t \in Seq(Records), NEW n, NEW ci, Reframed(s, t, n, x, ci), NEW y, Alike(y, x, ci),
         NEW thr2, Updated(thr, a, y, thr2)
  PROVE  Good(t, thr2, "run")
<1>1. PICK d, e : Core(s, n, d, e, thr, "run")
  BY DEF Good, Reframed
<1>2. n \in Nat \ {0} /\ n \in Nat /\ (\A i \in 1..n : s[i] \in Records) /\ (\A i \in 1..n : t[i] \in Records)
      /\ n = Len(s) /\ Len(t) = n
  BY EmptySeq, ElementOfSeq DEF Reframed
<1>3. PICK r, q : r = s[n] /\ q = t[n]
  OBVIOUS
<1>4. /\ r.kind = "execute" /\ q.kind = "execute" /\ r.th = a /\ q.th = a /\ (q.called <=> r.called) /\ q.n >= 1
      /\ q.n \in Nat /\ r.n \in Nat /\ r \in Records /\ q \in Records
  <2>1. r \in Records /\ q \in Records
    BY ONLY <1>2, <1>3
  <2>2. r.kind = "execute" /\ q.kind = r.kind /\ q.th = r.th /\ (q.called <=> r.called) /\ q.n >= 1
    BY <1>3 DEF Reframed
  <2>3. r.th = a
    BY <1>2, <1>3
  <2>4. r.n \in Nat /\ q.n \in Nat
    BY ONLY <2>1 DEF Records
  <2> QED BY ONLY <2>1, <2>2, <2>3, <2>4
<1>5. StackOK(s, n, d, e) /\ ThreadOK(s, n, d, e, a, x, "run")
  BY <1>1 DEF Core
<1>6. Placed(s, n) /\ Counted(s, d, n) /\ Handled(s, e, n)
  BY <1>2, <1>5 DEF StackOK
<1>7. n # 1
  BY <1>3, <1>4, <1>6 DEF Placed
<1>8. PICK k : k = n - 1
  OBVIOUS
<1>9. k \in Nat \ {0} /\ k \in Nat /\ n = k + 1 /\ n - 1 = k /\ k \in 0..n /\ k \in 1..n /\ n \in 1..n
      /\ (\A i \in 1..k : i \in 1..n) /\ (\A i \in 1..n : i \in 1..k \/ i = n)
  BY <1>2, <1>7, <1>8
<1>10. Same(s, t, k) /\ \A i \in 1..k : s[i] = t[i]
  BY <1>8 DEF Reframed, Same
<1>11. s[k].th = a /\ s[k] = t[k]
  BY <1>3, <1>4, <1>6, <1>7, <1>9, <1>10 DEF Placed
<1>12. StackOK(t, n, d, e)
  <2>1. StackOK(s, k, d, e)
    BY <1>5, <1>9 DEF StackOK
  <2>2. Same(d, d, k) /\ Same(e, e, k)
    BY DEF Same
  <2>3. StackOK(t, k, d, e)
    BY ONLY <1>9, <1>10, <2>1, <2>2, StackSame
  <2>4. Placed(t, n)
    <3>1. t[n - 1] = s[n - 1]
      BY <1>9, <1>11
    <3> QED BY <1>3, <1>4, <1>6, <1>7, <3>1 DEF Placed
  <2>5. Remembered(t, n)
    BY <1>3, <1>4 DEF Remembered, Saves
  <2>6. Counted(t, d, n)
    BY <1>3, <1>4, <1>6, <1>7 DEF Counted, Saves
  <2>7. Handled(t, e, n)
    BY <1>3, <1>4, <1>6, <1>7 DEF Handled, Saves
  <2> QED BY ONLY <1>9, <2>3, <2>4, <2>5, <2>6, <2>7, StackPush
<1>13. \A i \in 1..n : t[i].th = s[i].th /\ t[i].kind = s[i].kind /\ (t[i].called <=> s[i].called)
  BY <1>3, <1>4, <1>9, <1>10
<1>14. y.ci = FramesUpTo(t, n, a)
  <2>1. FramesUpTo(s, k + 1, a) = FramesUpTo(s, k, a) \o Own(s[k + 1], a)
    <3>1. k \in Nat /\ \A i \in 1..(k + 1) : s[i] \in Records
      BY <1>2, <1>9
    <3> QED BY ONLY <3>1, FramesStep
  <2>2. FramesUpTo(t, k + 1, a) = FramesUpTo(t, k, a) \o Own(t[k + 1], a)
    <3>1. k \in Nat /\ \A i \in 1..(k + 1) : t[i] \in Records
      BY <1>2, <1>9
    <3> QED BY ONLY <3>1, FramesStep
  <2>3. FramesUpTo(s, k, a) = FramesUpTo(t, k, a)
    BY ONLY <1>9, <1>10, FramesSame
  <2>4. Own(r, a) = Lua(r.n) /\ Own(q, a) = Lua(q.n)
    BY <1>4, OwnIs
  <2>5. PICK A : A = FramesUpTo(s, k, a)
    OBVIOUS
  <2>6. A \in Seq(Functions)
    <3>1. k \in Nat /\ \A i \in 1..k : s[i] \in Records
      BY <1>2, <1>9
    <3> QED BY ONLY <2>5, <3>1, FramesType
  <2>7. x.ci = A \o Lua(r.n)
    <3>1. x.ci = FramesUpTo(s, n, a)
      BY <1>5 DEF ThreadOK, FramesOK
    <3> QED BY <1>3, <1>9, <2>1, <2>4, <2>5, <3>1
  <2>8. FramesUpTo(t, n, a) = A \o Lua(q.n)
    BY <1>3, <1>9, <2>2, <2>3, <2>4, <2>5
  <2>9. ASSUME NEW B \in Seq(Functions) PROVE A \o Append(B, "lua") = Append(A \o B, "lua")
    <3>1. "lua" \in Functions
      BY DEF Functions
    <3> QED BY <2>6, <3>1
  <2>10. CASE q.n = r.n + 1
    <3>1. y.ci = Append(x.ci, "lua")
      <4>1. y.ci = ci /\ (\/ q.n = r.n + 1 /\ ci = Append(x.ci, "lua")
                          \/ q.n = r.n - 1 /\ ci = Front(x.ci))
        BY <1>3 DEF Reframed, Alike
      <4>2. q.n # r.n - 1
        BY ONLY <1>4, <2>10
      <4> QED BY ONLY <4>1, <4>2
    <3>2. Lua(r.n) \in Seq(Functions) /\ Lua(q.n) = Append(Lua(r.n), "lua")
      BY <1>4, <2>10, LuaFrames
    <3> QED BY <2>7, <2>8, <2>9, <3>1, <3>2
  <2>11. CASE q.n # r.n + 1
    <3>1. y.ci = Front(x.ci) /\ r.n = q.n + 1
      <4>1. y.ci = ci /\ (\/ q.n = r.n + 1 /\ ci = Append(x.ci, "lua")
                          \/ q.n = r.n - 1 /\ ci = Front(x.ci))
        BY <1>3 DEF Reframed, Alike
      <4> QED BY ONLY <1>4, <2>11, <4>1
    <3>2. Lua(q.n) \in Seq(Functions) /\ Lua(r.n) = Append(Lua(q.n), "lua")
      BY <1>4, <3>1, LuaFrames
    <3>3. x.ci = Append(A \o Lua(q.n), "lua") /\ A \o Lua(q.n) \in Seq(Functions) /\ "lua" \in Functions
      BY <2>6, <2>7, <2>9, <3>2, ConcatProperties DEF Functions
    <3>4. Front(x.ci) = A \o Lua(q.n)
      BY <3>3, FrontIs
    <3> QED BY <2>8, <3>1, <3>4
  <2> QED BY <2>10, <2>11
<1>15. ThreadOK(t, n, d, e, a, y, "run")
  <2>1. /\ JumpOK(s, n, a, x) /\ HookOK(s, n, a, x) /\ BaseOK(s, n, d, a, x) /\ TopOK(s, n, d, e, a, x, "run")
    BY <1>5 DEF ThreadOK
  <2>2. /\ y.status = "ok" /\ y.ccalls = x.ccalls /\ y.base = x.base /\ y.errfunc = x.errfunc
        /\ y.allowhook = x.allowhook /\ y.jmp = x.jmp
    BY DEF Alike
  <2>3. JumpOK(t, n, a, y)
    <3>1. PICK j : j = x.jmp /\ Innermost(s, n, a, j)
      BY <2>1 DEF JumpOK
    <3>2. j \in 0..n /\ (j # 0 => j \in 1..n) /\ \A i \in (j + 1)..n : i \in 1..n
      BY ONLY <1>2, <3>1 DEF Innermost
    <3>3. Innermost(t, n, a, j)
      BY ONLY SMTT(30), <1>13, <3>1, <3>2 DEF Innermost, Target
    <3> QED BY <2>2, <3>1, <3>3 DEF JumpOK
  <2>4. YieldOK(t, n, a, y, "run")
    BY <2>2 DEF YieldOK
  <2>5. HookOK(t, n, a, y)
    <3>1. Hooked(t, n, a) <=> Hooked(s, n, a)
      BY <1>13 DEF Hooked
    <3> QED BY <2>1, <2>2, <3>1 DEF HookOK
  <2>6. FramesOK(t, n, a, y)
    BY <1>14 DEF FramesOK
  <2>7. StatusOK(t, n, a, y)
    <3>1. On(t, n, a)
      BY <1>3, <1>4, <1>9 DEF On
    <3> QED BY <2>2, <3>1 DEF StatusOK
  <2>8. WaitOK(t, n, d, e, a, y)
    <3>1. a = t[n].th
      BY <1>3, <1>4
    <3> QED BY ONLY <1>2, <1>12, <3>1, TopWaitOK
  <2>9. BaseOK(t, n, d, a, y)
    BY <1>13, <2>1, <2>2 DEF BaseOK
  <2>10. TopOK(t, n, d, e, a, y, "run")
    BY <1>3, <1>4, <2>1, <2>2 DEF TopOK
  <2> QED BY <2>3, <2>4, <2>5, <2>6, <2>7, <2>8, <2>9, <2>10 DEF ThreadOK
<1>16. Within(s, n, t, n, k, a)
  <2>1. (\A i \in (k + 1)..n : i = n) /\ s[n].th = a /\ t[n].th = a
    BY <1>3, <1>4, <1>9
  <2> QED BY <1>2, <1>9, <1>10, <1>11, <2>1 DEF Within
<1>17. Core(t, n, d, e, thr2, "run")
  <2>1. Same(d, d, k) /\ Same(e, e, k)
    BY DEF Same
  <2> QED BY <1>1, <1>12, <1>15, <1>16, <2>1, CoreWithin
<1> QED BY <1>2, <1>17 DEF Good

---------------------------------------------------------------------------
(* The stack is cut *)

LEMMA ThreadSame ==
  ASSUME NEW s, NEW t, NEW n \in Nat \ {0}, Same(s, t, n), NEW d, NEW e, NEW th, NEW x, NEW dg,
         ThreadOK(s, n, d, e, th, x, dg)
  PROVE  ThreadOK(t, n, d, e, th, x, dg)
<1>1. n \in Nat /\ n \in 1..n /\ \A i \in 1..n : s[i] = t[i]
  BY DEF Same
<1>2. \A i \in 1..(n - 1) : i \in 1..n /\ i + 1 \in 1..n
  OBVIOUS
<1>3. /\ On(s, n, th) <=> On(t, n, th)
      /\ Hooked(s, n, th) <=> Hooked(t, n, th)
      /\ \A j : Innermost(s, n, th, j) <=> Innermost(t, n, th, j)
  BY <1>1, SameBelow
<1>4. FramesUpTo(s, n, th) = FramesUpTo(t, n, th)
  BY <1>1, FramesSame
<1>5. JumpOK(s, n, th, x) => JumpOK(t, n, th, x)
  BY <1>3 DEF JumpOK
<1>6. YieldOK(s, n, th, x, dg) => YieldOK(t, n, th, x, dg)
  BY <1>1, <1>3 DEF YieldOK
<1>7. HookOK(s, n, th, x) => HookOK(t, n, th, x)
  BY <1>3 DEF HookOK
<1>8. FramesOK(s, n, th, x) => FramesOK(t, n, th, x)
  BY <1>4 DEF FramesOK
<1>9. StatusOK(s, n, th, x) => StatusOK(t, n, th, x)
  BY <1>3 DEF StatusOK
<1>10. WaitOK(s, n, d, e, th, x) => WaitOK(t, n, d, e, th, x)
  BY <1>1, <1>2 DEF WaitOK
<1>11. BaseOK(s, n, d, th, x) => BaseOK(t, n, d, th, x)
  BY <1>1 DEF BaseOK
<1>12. TopOK(s, n, d, e, th, x, dg) => TopOK(t, n, d, e, th, x, dg)
  BY <1>1 DEF TopOK
<1> QED BY <1>5, <1>6, <1>7, <1>8, <1>9, <1>10, <1>11, <1>12 DEF ThreadOK

LEMMA StackPrefix ==
  ASSUME NEW s, NEW n \in Nat, NEW m \in 1..n, NEW d, NEW e, StackOK(s, n, d, e)
  PROVE  StackOK(s, m, d, e)
<1>1. \A i \in 1..m : i \in 1..n
  OBVIOUS
<1> QED BY <1>1 DEF StackOK

LEMMA CutIs ==
  ASSUME NEW s \in Seq(Records), NEW m \in 1..Len(s)
  PROVE  /\ SubSeq(s, 1, m) \in Seq(Records) /\ Len(SubSeq(s, 1, m)) = m
         /\ Same(s, SubSeq(s, 1, m), m) /\ SubSeq(s, 1, m) # <<>>
<1>1. PICK t : t = SubSeq(s, 1, m)
  OBVIOUS
<1>2. t \in Seq(Records) /\ Len(t) = m /\ \A i \in 1..m : t[i] = s[i]
  BY <1>1
<1>3. t # <<>>
  BY <1>2
<1> QED BY <1>1, <1>2, <1>3 DEF Same

LEMMA GoodCut ==
  ASSUME NEW s \in Seq(Records), NEW m \in 1..Len(s), NEW d, NEW e, NEW thr, NEW dg,
         Core(s, m, d, e, thr, dg)
  PROVE  Good(SubSeq(s, 1, m), thr, dg)
<1>1. PICK t : t = SubSeq(s, 1, m)
  OBVIOUS
<1>2. Len(t) = m /\ Same(s, t, m) /\ m \in Nat \ {0} /\ m \in Nat
  BY <1>1, CutIs
<1>3. Same(d, d, m) /\ Same(e, e, m)
  BY DEF Same
<1>4. StackOK(t, m, d, e)
  <2>1. StackOK(s, m, d, e)
    BY DEF Core
  <2> QED BY ONLY <1>2, <1>3, <2>1, StackSame
<1>5. ASSUME NEW th \in Threads PROVE ThreadOK(t, m, d, e, th, thr[th], dg)
  <2>1. ThreadOK(s, m, d, e, th, thr[th], dg)
    BY DEF Core
  <2> QED BY ONLY <1>2, <2>1, ThreadSame
<1>6. Core(t, m, d, e, thr, dg)
  BY <1>4, <1>5 DEF Core
<1> QED BY <1>1, <1>2, <1>6 DEF Good

\* The thread y as it was when the activation m ran.
Back(s, m, d, e, a, x, y, dg2) ==
  /\ s[m].th = a /\ y.status = "ok" /\ y.base = x.base /\ y.ci = FramesUpTo(s, m, a)
  /\ Innermost(s, m, a, y.jmp) /\ (y.allowhook <=> ~ Hooked(s, m, a)) /\ y.errfunc = e[m]
  /\ y.ccalls = d[m] \/ (dg2 # "run" /\ y.ccalls = d[m] + 1)
  /\ dg2 \in {"run", "error"} => y.ccalls < MaxCcalls + Margin

LEMMA PopOK ==
  ASSUME NEW s, NEW d, NEW e, NEW n \in Nat, NEW m \in 1..n, NEW a, NEW x, NEW dg, dg # "exit",
         StackOK(s, n, d, e), ThreadOK(s, n, d, e, a, x, dg), NEW y, NEW dg2,
         Back(s, m, d, e, a, x, y, dg2)
  PROVE  ThreadOK(s, m, d, e, a, y, dg2)
<1>1. m \in Nat \ {0} /\ m \in Nat /\ m \in 1..m /\ \A i \in 1..m : i \in 1..n
  OBVIOUS
<1>2. JumpOK(s, m, a, y)
  BY DEF Back, JumpOK
<1>3. YieldOK(s, m, a, y, dg2)
  BY DEF Back, YieldOK
<1>4. HookOK(s, m, a, y)
  BY DEF Back, HookOK
<1>5. FramesOK(s, m, a, y)
  BY DEF Back, FramesOK
<1>6. StatusOK(s, m, a, y)
  <2>1. On(s, m, a)
    BY <1>1 DEF Back, On
  <2> QED BY <2>1 DEF Back, StatusOK
<1>7. WaitOK(s, m, d, e, a, y)
  <2>1. StackOK(s, m, d, e) /\ a = s[m].th
    BY StackPrefix DEF Back
  <2> QED BY ONLY <1>1, <2>1, TopWaitOK
<1>8. BaseOK(s, m, d, a, y)
  <2>1. BaseOK(s, n, d, a, x) /\ y.base = x.base
    BY DEF ThreadOK, Back
  <2> QED BY <1>1, <2>1 DEF BaseOK
<1>9. TopOK(s, m, d, e, a, y, dg2)
  BY DEF Back, TopOK
<1> QED BY <1>2, <1>3, <1>4, <1>5, <1>6, <1>7, <1>8, <1>9 DEF ThreadOK

LEMMA GoodPopped ==
  ASSUME NEW s \in Seq(Records), NEW n, n = Len(s), NEW m \in 1..n, NEW d, NEW e, NEW thr, NEW dg,
         dg # "exit", Core(s, n, d, e, thr, dg), NEW a, \A i \in m..n : s[i].th = a,
         NEW y, NEW dg2, ThreadOK(s, m, d, e, a, y, dg2), NEW thr2, Updated(thr, a, y, thr2)
  PROVE  Good(SubSeq(s, 1, m), thr2, dg2)
<1>1. n \in Nat \ {0} /\ n \in Nat /\ m \in Nat \ {0} /\ m \in 0..n /\ m \in 0..m /\ n \in m..n /\ m \in m..n
      /\ (\A i \in 1..n : s[i] \in Records) /\ (\A i \in 1..m : s[i] \in Records)
      /\ (\A i \in (m + 1)..n : i \in m..n) /\ (\A i \in (m + 1)..m : FALSE) /\ m \in 1..Len(s)
  BY ElementOfSeq
<1>2. Within(s, n, s, m, m, a)
  BY <1>1 DEF Within, Same
<1>3. StackOK(s, m, d, e)
  <2>1. StackOK(s, n, d, e) /\ n \in Nat /\ m \in 1..n
    BY <1>1 DEF Core
  <2> QED BY ONLY <2>1, StackPrefix
<1>4. Core(s, m, d, e, thr2, dg2)
  <2>1. Same(d, d, m) /\ Same(e, e, m)
    BY DEF Same
  <2> QED BY <1>2, <1>3, <2>1, CoreWithin
<1> QED BY <1>1, <1>4, GoodCut

\* A longjmp leaves activations of the thread that runs only.
LEMMA AboveJump ==
  ASSUME NEW s, NEW n \in Nat, NEW j \in 1..n, NEW d, NEW e, StackOK(s, n, d, e),
         NEW a, a = s[n].th, Innermost(s, n, a, j)
  PROVE  \A i \in j..n : s[i].th = a
<1> SUFFICES ASSUME NEW i \in j..n, s[i].th # a PROVE FALSE
  OBVIOUS
<1>1. Contiguous(s, n) /\ i \in 1..(n - 1)
  BY DEF StackOK
<1>2. PICK m \in (i + 1)..n : s[m].th = a /\ s[m].kind = "resume"
  BY <1>1 DEF Contiguous
<1> QED BY <1>2 DEF Innermost, Target

---------------------------------------------------------------------------
(* The top activation returns *)

\* The fields of y are fields of a thread, with no more frames than x has.
Tame(y, x) ==
  /\ y.ci \in Seq(Functions) /\ Len(y.ci) <= Len(x.ci) /\ y.ccalls \in 0..(MaxCcalls + Margin)
  /\ y.errfunc \in ErrFuncs /\ y.jmp \in Nat /\ y.allowhook \in BOOLEAN

\* What the return of the activation r does to the thread x.
Popped(x, r, y) ==
  /\ y.status = x.status /\ y.base = x.base
  /\ y.ci = IF r.kind \in {"execute", "cfunction"} THEN Front(x.ci) ELSE x.ci
  /\ y.ccalls = IF r.called THEN x.ccalls - 1 ELSE x.ccalls
  /\ y.errfunc = IF r.kind = "pcall" THEN r.old.errfunc ELSE x.errfunc
  /\ y.jmp = IF r.kind = "pcall" THEN r.old.jmp ELSE x.jmp
  /\ y.allowhook = IF r.kind = "hook" THEN TRUE
                   ELSE IF r.kind = "gctm" THEN r.old.allowhook ELSE x.allowhook

LEMMA PopBack ==
  ASSUME NEW s, NEW n \in Nat \ {0}, \A i \in 1..n : s[i] \in Records, NEW d, NEW e, NEW a, NEW x,
         StackOK(s, n, d, e), ThreadOK(s, n, d, e, a, x, "run"), s[n].th = a, x \in ThreadRecords,
         x.status = "ok", s[n].kind \notin {"host", "resume"}, s[n].kind = "execute" => s[n].n = 1,
         NEW y, Popped(x, s[n], y), NEW dg2, dg2 = IF s[n].kind = "errormsg" THEN "errrun" ELSE "run"
  PROVE  n - 1 \in 1..n /\ Back(s, n - 1, d, e, a, x, y, dg2) /\ Tame(y, x)
<1>1. PICK r : r = s[n]
  OBVIOUS
<1>2. r \in Records /\ n \in 1..n /\ n \in Nat /\ r.th = a /\ r.kind \notin {"host", "resume"}
  BY <1>1
<1>3. Placed(s, n) /\ Remembered(s, n) /\ Counted(s, d, n) /\ Handled(s, e, n)
  BY <1>2 DEF StackOK
<1>4. n # 1
  BY <1>1, <1>2, <1>3 DEF Placed
<1>5. PICK m : m = n - 1
  OBVIOUS
<1>6. m \in Nat \ {0} /\ m \in Nat /\ n = m + 1 /\ n > 1 /\ m \in 1..n /\ (\A i \in 1..m : i \in 1..n)
      /\ (\A i \in 1..n : i \in 1..m \/ i = n) /\ \A i \in 1..m : s[i] \in Records
  BY <1>4, <1>5
<1>7. Counted(s, d, m) /\ Handled(s, e, m)
  BY <1>6 DEF StackOK
<1>8. s[m].th = a
  BY <1>1, <1>2, <1>3, <1>5 DEF Placed
<1>9. /\ JumpOK(s, n, a, x) /\ HookOK(s, n, a, x) /\ FramesOK(s, n, a, x) /\ TopOK(s, n, d, e, a, x, "run")
  BY DEF ThreadOK
<1>10. x.ci \in Seq(Functions) /\ x.ccalls \in 0..(MaxCcalls + Margin) /\ x.errfunc \in ErrFuncs
       /\ x.jmp \in Nat /\ x.allowhook \in BOOLEAN
  BY DEF ThreadRecords
<1>11. y.ci = FramesUpTo(s, m, a) /\ y.ci \in Seq(Functions) /\ Len(y.ci) <= Len(x.ci)
  <2>1. FramesUpTo(s, m + 1, a) = FramesUpTo(s, m, a) \o Own(s[m + 1], a)
    <3>1. m \in Nat /\ \A i \in 1..(m + 1) : s[i] \in Records
      BY <1>6
    <3> QED BY ONLY <3>1, FramesStep
  <2>2. FramesUpTo(s, m, a) \in Seq(Functions)
    BY ONLY <1>6, FramesType
  <2>3. PICK A \in Seq(Functions) : A = FramesUpTo(s, m, a)
    BY <2>2
  <2>4. x.ci = A \o Own(r, a)
    <3>1. x.ci = FramesUpTo(s, n, a)
      BY <1>9 DEF FramesOK
    <3> QED BY <1>1, <1>6, <2>1, <2>3, <3>1
  <2>5. CASE r.kind \in {"execute", "cfunction"}
    <3>1. PICK f \in Functions : Own(r, a) = <<f>>
      <4>1. CASE r.kind = "cfunction"
        BY <1>2, <4>1, OwnIs DEF Functions
      <4>2. CASE r.kind = "execute"
        <5>1. Own(r, a) = Lua(1)
          BY <1>1, <1>2, <4>2, OwnIs
        <5>2. Lua(1) = <<"lua">>
          BY DEF Lua
        <5> QED BY <5>1, <5>2 DEF Functions
      <4> QED BY <2>5, <4>1, <4>2
    <3>2. x.ci = Append(A, f) /\ Front(x.ci) = A
      <4>1. Append(A, f) = A \o <<f>> /\ Front(Append(A, f)) = A
        BY FrontIs
      <4> QED BY <2>4, <3>1, <4>1
    <3>3. Len(A) <= Len(x.ci)
      BY <3>2
    <3>4. y.ci = Front(x.ci)
      BY <1>1, <2>5 DEF Popped
    <3> QED BY <2>3, <3>2, <3>3, <3>4
  <2>6. CASE r.kind \notin {"execute", "cfunction"}
    <3>1. Own(r, a) = <<>>
      BY <2>6, OwnIs
    <3>2. x.ci = A
      BY <2>4, <3>1
    <3>3. y.ci = x.ci
      BY <1>1, <2>6 DEF Popped
    <3>4. Len(x.ci) \in Nat
      BY <1>10
    <3> QED BY <2>3, <3>2, <3>3, <3>4
  <2> QED BY <2>5, <2>6
<1>12. Innermost(s, m, a, y.jmp) /\ y.jmp \in Nat
  <2>1. CASE r.kind = "pcall"
    <3>1. y.jmp = r.old.jmp
      BY <1>1, <2>1 DEF Popped
    <3>2. Innermost(s, m, a, r.old.jmp)
      BY <1>1, <1>2, <1>3, <1>5, <2>1 DEF Remembered, Saves
    <3>3. y.jmp \in 0..m
      BY <3>1, <3>2 DEF Innermost
    <3> QED BY <1>6, <3>1, <3>2, <3>3
  <2>2. CASE r.kind # "pcall"
    <3>1. y.jmp = x.jmp
      BY <1>1, <2>2 DEF Popped
    <3>2. PICK j : j = x.jmp /\ Innermost(s, n, a, j)
      BY <1>9 DEF JumpOK
    <3>3. ~ Target(r, a)
      BY <1>2, <2>2 DEF Target
    <3>4. j \in 0..n /\ j # n
      BY <1>1, <1>4, <1>2, <3>2, <3>3 DEF Innermost
    <3>5. j \in 0..m /\ \A i \in (j + 1)..m : i \in (j + 1)..n
      BY <1>6, <3>4
    <3>6. Innermost(s, m, a, j)
      BY <3>2, <3>5 DEF Innermost
    <3> QED BY <1>10, <3>1, <3>2, <3>6
  <2> QED BY <2>1, <2>2
<1>13. (y.allowhook <=> ~ Hooked(s, m, a)) /\ y.allowhook \in BOOLEAN
  <2>1. CASE r.kind = "hook"
    <3>1. ~ Hooked(s, m, a)
      BY <1>1, <1>2, <1>3, <1>5, <2>1 DEF Remembered
    <3>2. y.allowhook
      BY <1>1, <2>1 DEF Popped
    <3>3. y.allowhook \in BOOLEAN
      BY <1>1, <2>1 DEF Popped
    <3> QED BY <3>1, <3>2, <3>3
  <2>2. CASE r.kind = "gctm"
    <3>1. y.allowhook = r.old.allowhook
      BY <1>1, <2>2 DEF Popped
    <3>2. (r.old.allowhook <=> ~ Hooked(s, m, a)) /\ r.old.allowhook \in BOOLEAN
      BY <1>1, <1>2, <1>3, <1>5, <2>2 DEF Remembered, Saves
    <3> QED BY <3>1, <3>2
  <2>3. CASE r.kind \notin {"hook", "gctm"}
    <3>1. y.allowhook = x.allowhook
      BY <1>1, <2>3 DEF Popped
    <3>2. Hooked(s, n, a) <=> Hooked(s, m, a)
      BY <1>1, <1>6, <2>3 DEF Hooked
    <3>3. x.allowhook <=> ~ Hooked(s, n, a)
      BY <1>9 DEF HookOK
    <3> QED BY <1>10, <3>1, <3>2, <3>3
  <2> QED BY <2>1, <2>2, <2>3
<1>14. y.errfunc = e[m] /\ y.errfunc \in ErrFuncs
  <2>1. e[m] \in ErrFuncs
    BY <1>7 DEF Handled
  <2>2. CASE r.kind = "pcall"
    <3>1. y.errfunc = r.old.errfunc
      BY <1>1, <2>2 DEF Popped
    <3>2. r.old.errfunc = e[m]
      BY <1>1, <1>3, <1>5, <2>2 DEF Handled, Saves
    <3> QED BY <2>1, <3>1, <3>2
  <2>3. CASE r.kind # "pcall"
    <3>1. y.errfunc = x.errfunc
      BY <1>1, <2>3 DEF Popped
    <3>2. x.errfunc = e[n]
      BY <1>9 DEF TopOK
    <3>3. e[n] = e[m]
      BY <1>1, <1>2, <1>3, <1>5, <2>3 DEF Handled
    <3> QED BY <2>1, <3>1, <3>2, <3>3
  <2> QED BY <2>2, <2>3
<1>15. /\ y.ccalls = d[m] \/ (dg2 # "run" /\ y.ccalls = d[m] + 1)
       /\ y.ccalls \in 0..(MaxCcalls + Margin)
       /\ dg2 \in {"run", "error"} => y.ccalls < MaxCcalls + Margin
  <2>1. d[m] \in 0..(MaxCcalls + Margin - 1) /\ d[m] \in Int
    BY <1>7 DEF Counted
  <2>2. x.ccalls = d[n]
    BY <1>9 DEF TopOK
  <2>3. CASE r.called
    <3>1. r.kind # "errormsg"
      BY <1>1, <1>3, <2>3 DEF Placed
    <3>2. d[n] = d[m] + 1
      BY <1>1, <1>3, <1>5, <1>6, <2>3, <3>1 DEF Counted
    <3>3. y.ccalls = x.ccalls - 1
      BY <1>1, <2>3 DEF Popped
    <3>4. y.ccalls = d[m]
      BY ONLY <2>1, <2>2, <3>2, <3>3
    <3> QED BY <2>1, <3>4, CallAssumption
  <2>4. CASE ~ r.called
    <3>1. y.ccalls = x.ccalls
      BY <1>1, <2>4 DEF Popped
    <3>2. d[n] = d[m] + 0 \/ (r.kind = "errormsg" /\ d[n] = d[m] + 1)
      <4>1. r.kind # "resume"
        BY <1>2
      <4> QED BY <1>1, <1>3, <1>5, <1>6, <2>4, <4>1 DEF Counted
    <3>3. CASE r.kind = "errormsg"
      <4>1. dg2 = "errrun"
        BY <1>1, <3>3
      <4> QED BY <1>10, <2>1, <2>2, <3>1, <3>2, <4>1
    <3>4. CASE r.kind # "errormsg"
      <4>1. y.ccalls = d[m]
        BY <2>1, <2>2, <3>1, <3>2, <3>4
      <4> QED BY <2>1, <4>1, CallAssumption
    <3> QED BY <3>3, <3>4
  <2> QED BY <2>3, <2>4
<1>16. Back(s, m, d, e, a, x, y, dg2)
  <2>1. y.status = "ok" /\ y.base = x.base
    BY DEF Popped
  <2> QED BY <1>8, <1>11, <1>12, <1>13, <1>14, <1>15, <2>1 DEF Back
<1>17. Tame(y, x)
  BY <1>11, <1>12, <1>13, <1>14, <1>15 DEF Tame
<1> QED BY <1>5, <1>6, <1>16, <1>17

LEMMA GoodPop ==
  ASSUME NEW s \in Seq(Records), s # <<>>, NEW thr, Good(s, thr, "run"),
         NEW a \in Threads, a = s[Len(s)].th, NEW x, x = thr[a], x \in ThreadRecords,
         NEW r, r = s[Len(s)], r.kind \notin {"host", "resume"}, r.kind = "execute" => r.n = 1,
         NEW y, Popped(x, r, y), NEW dg2, dg2 = IF r.kind = "errormsg" THEN "errrun" ELSE "run",
         NEW thr2, Updated(thr, a, y, thr2)
  PROVE  Len(s) - 1 \in 1..Len(s) /\ Good(SubSeq(s, 1, Len(s) - 1), thr2, dg2) /\ Tame(y, x)
<1>1. PICK n : n = Len(s)
  OBVIOUS
<1>2. PICK d, e : Core(s, n, d, e, thr, "run")
  BY <1>1 DEF Good
<1>3. n \in Nat \ {0} /\ n \in Nat /\ n \in 1..n /\ s[n].th = a /\ r = s[n] /\ \A i \in 1..n : s[i] \in Records
  BY <1>1, EmptySeq, ElementOfSeq
<1>4. StackOK(s, n, d, e) /\ ThreadOK(s, n, d, e, a, x, "run")
  BY <1>2 DEF Core
<1>5. x.status = "ok"
  <2>1. "run" # "exit" /\ s[n].th \in Threads /\ s[n].kind # "resume"
    BY <1>3
  <2>2. thr[s[n].th].status = "ok"
    BY ONLY <1>2, <1>3, <2>1, TopThread
  <2> QED BY <1>3, <2>2
<1>6. n - 1 \in 1..n /\ Back(s, n - 1, d, e, a, x, y, dg2) /\ Tame(y, x)
  <2>1. /\ n \in Nat \ {0} /\ (\A i \in 1..n : s[i] \in Records) /\ s[n].th = a /\ x \in ThreadRecords
        /\ s[n].kind \notin {"host", "resume"} /\ (s[n].kind = "execute" => s[n].n = 1)
        /\ Popped(x, s[n], y) /\ dg2 = IF s[n].kind = "errormsg" THEN "errrun" ELSE "run"
    BY <1>3
  <2> QED BY ONLY <1>4, <1>5, <2>1, PopBack
<1>7. PICK m : m = n - 1
  OBVIOUS
<1>8. m \in 1..n /\ Back(s, m, d, e, a, x, y, dg2) /\ n \in Nat /\ n = m + 1
  BY <1>3, <1>6, <1>7
<1>9. ThreadOK(s, m, d, e, a, y, dg2)
  BY <1>4, <1>8, PopOK
<1>10. \A i \in m..n : s[i].th = a
  <2>1. \A i \in m..n : i = m \/ i = n
    BY <1>8
  <2> QED BY <1>3, <1>8, <2>1 DEF Back
<1>11. Good(SubSeq(s, 1, m), thr2, dg2)
  <2>1. "run" # "exit"
    OBVIOUS
  <2> QED BY <1>1, <1>2, <1>8, <1>9, <1>10, <2>1, GoodPopped
<1> QED BY <1>1, <1>6, <1>7, <1>11

---------------------------------------------------------------------------
(* An error is caught *)

\* What luaD_pcall, whose activation is r, puts back into the thread x.
Caught(x, r, y) ==
  /\ y.status = x.status /\ y.base = x.base /\ y.ci = SubSeq(x.ci, 1, r.old.ci)
  /\ y.ccalls = r.old.ccalls /\ y.errfunc = r.old.errfunc /\ y.jmp = r.old.jmp
  /\ y.allowhook = r.old.allowhook

Catches(s, n, a, x, dg, j, y) ==
  /\ n \in Nat \ {0} /\ \A i \in 1..n : s[i] \in Records
  /\ s[n].th = a /\ x.status = "ok" /\ dg # "exit" /\ j = x.jmp /\ j # 0
  /\ s[j].kind = "pcall" /\ Caught(x, s[j], y)

LEMMA CatchBack ==
  ASSUME NEW s, NEW n, NEW d, NEW e, NEW a, NEW x, NEW dg, NEW j, NEW y, Catches(s, n, a, x, dg, j, y),
         StackOK(s, n, d, e), ThreadOK(s, n, d, e, a, x, dg)
  PROVE  /\ j - 1 \in 1..n /\ Back(s, j - 1, d, e, a, x, y, "run") /\ Tame(y, x)
         /\ s[j].old.ci \in 0..Len(x.ci) /\ \A i \in (j - 1)..n : s[i].th = a
<1> USE DEF Catches
<1>1. PICK r : r = s[j]
  OBVIOUS
<1>2. Innermost(s, n, a, j) /\ x.ci = FramesUpTo(s, n, a) /\ n \in Nat
  BY DEF ThreadOK, JumpOK, FramesOK
<1>3. j \in 1..n /\ r.th = a
  <2>1. j \in 0..n /\ s[j].th = a
    BY <1>2 DEF Innermost, Target
  <2> QED BY <1>1, <1>2, <2>1
<1>4. Placed(s, j) /\ Remembered(s, j) /\ Counted(s, d, j) /\ Handled(s, e, j) /\ r \in Records
  BY <1>1, <1>3 DEF StackOK
<1>5. j # 1 /\ ~ r.called
  BY <1>1, <1>4 DEF Placed
<1>6. PICK m : m = j - 1
  OBVIOUS
<1>7. m \in 1..n /\ m \in Nat /\ j = m + 1 /\ m \in 0..n /\ j > 1 /\ \A i \in 1..m : s[i] \in Records
  <2>1. m = j - 1 /\ j \in 1..n /\ j # 1 /\ n \in Nat
    BY <1>2, <1>3, <1>5, <1>6
  <2>2. m \in 1..n /\ m \in Nat /\ j = m + 1 /\ m \in 0..n /\ j > 1
    BY ONLY <2>1
  <2> QED BY <2>2
<1>8. Counted(s, d, m) /\ Handled(s, e, m)
  BY <1>7 DEF StackOK
<1>9. \A i \in m..n : s[i].th = a
  <2>1. \A i \in j..n : s[i].th = a
    <3>1. a = s[n].th
      BY DEF Catches
    <3>2. StackOK(s, n, d, e)
      OBVIOUS
    <3> QED BY ONLY <1>2, <1>3, <3>1, <3>2, AboveJump
  <2>2. s[m].th = a
    BY <1>1, <1>3, <1>4, <1>5, <1>6 DEF Placed
  <2> QED BY <1>7, <2>1, <2>2
<1>10. /\ Innermost(s, m, a, y.jmp) /\ r.old.ci = Len(FramesUpTo(s, m, a))
       /\ (y.allowhook <=> ~ Hooked(s, m, a)) /\ y.allowhook \in BOOLEAN
  <2>1. y.jmp = r.old.jmp /\ y.allowhook = r.old.allowhook
    BY <1>1 DEF Caught
  <2> QED BY <1>1, <1>3, <1>4, <1>6, <2>1 DEF Remembered, Saves
<1>11. FramesUpTo(s, m, a) \in Seq(Functions) /\ FramesUpTo(s, n, a) \in Seq(Functions)
  <2>1. n \in Nat /\ m \in Nat /\ (\A i \in 1..n : s[i] \in Records) /\ \A i \in 1..m : s[i] \in Records
    BY <1>7
  <2> QED BY ONLY <2>1, FramesType
<1>12. y.ci = FramesUpTo(s, m, a) /\ r.old.ci <= Len(x.ci) /\ r.old.ci \in Nat /\ Len(x.ci) \in Nat
       /\ Len(y.ci) <= Len(x.ci)
  <2>1. m \in 0..n /\ n \in Nat /\ \A i \in 1..n : s[i] \in Records
    BY <1>7
  <2>2. /\ Len(FramesUpTo(s, m, a)) <= Len(FramesUpTo(s, n, a))
        /\ SubSeq(FramesUpTo(s, n, a), 1, Len(FramesUpTo(s, m, a))) = FramesUpTo(s, m, a)
    BY ONLY <2>1, FramesCut
  <2>3. y.ci = SubSeq(x.ci, 1, r.old.ci)
    BY <1>1 DEF Caught
  <2>4. Len(FramesUpTo(s, m, a)) \in Nat /\ Len(FramesUpTo(s, n, a)) \in Nat
    BY <1>11
  <2> QED BY <1>2, <1>10, <2>2, <2>3, <2>4
<1>13. y.errfunc = e[m] /\ y.errfunc \in ErrFuncs
  <2>1. y.errfunc = r.old.errfunc
    BY <1>1 DEF Caught
  <2> QED BY <1>1, <1>4, <1>6, <1>8, <2>1 DEF Handled, Saves
<1>14. y.ccalls = d[m] /\ d[m] \in 0..(MaxCcalls + Margin - 1)
  <2>1. d[m] \in 0..(MaxCcalls + Margin - 1)
    BY <1>8 DEF Counted
  <2>2. y.ccalls = d[j]
    <3>1. y.ccalls = r.old.ccalls
      BY <1>1 DEF Caught
    <3> QED BY <1>1, <1>4, <3>1 DEF Counted, Saves
  <2>3. d[j] = d[m] + 0
    <3>1. d[j - 1] = d[m] /\ j > 1 /\ s[j].kind = "pcall" /\ ~ s[j].called
      BY <1>1, <1>5, <1>6, <1>7
    <3> QED BY <1>4, <3>1 DEF Counted
  <2>4. \A k \in 0..(MaxCcalls + Margin - 1) : k + 0 = k
    OBVIOUS
  <2> QED BY <2>1, <2>2, <2>3, <2>4
<1>15. y.ccalls < MaxCcalls + Margin /\ y.ccalls \in 0..(MaxCcalls + Margin)
  BY <1>14, CallAssumption
<1>16. y.jmp \in Nat
  BY <1>10 DEF Innermost
<1>17. Tame(y, x)
  BY <1>10, <1>11, <1>12, <1>13, <1>15, <1>16 DEF Tame
<1>18. Back(s, m, d, e, a, x, y, "run")
  <2>1. y.status = "ok" /\ y.base = x.base /\ s[m].th = a
    BY SMTT(30), <1>7, <1>9 DEF Caught
  <2> QED BY <1>10, <1>12, <1>13, <1>14, <1>15, <2>1 DEF Back
<1> QED BY <1>1, <1>6, <1>7, <1>9, <1>12, <1>17, <1>18

LEMMA GoodCatch ==
  ASSUME NEW s \in Seq(Records), s # <<>>, NEW thr, NEW dg, dg \in {"errrun", "errmem", "errerr"},
         Good(s, thr, dg), NEW a \in Threads, a = s[Len(s)].th, NEW x, x = thr[a],
         NEW j, j = x.jmp, j # 0, NEW r, r = s[j], r.kind = "pcall", NEW y, Caught(x, r, y),
         NEW thr2, Updated(thr, a, y, thr2)
  PROVE  /\ j - 1 \in 1..Len(s) /\ Good(SubSeq(s, 1, j - 1), thr2, "run") /\ Tame(y, x)
         /\ r.old.ci \in 0..Len(x.ci)
<1>1. PICK n : n = Len(s)
  OBVIOUS
<1>2. PICK d, e : Core(s, n, d, e, thr, dg)
  BY <1>1 DEF Good
<1>3. n \in Nat \ {0} /\ n \in Nat /\ s[n].th = a /\ \A i \in 1..n : s[i] \in Records
  BY <1>1, EmptySeq, ElementOfSeq
<1>4. StackOK(s, n, d, e) /\ ThreadOK(s, n, d, e, a, x, dg) /\ dg # "exit"
  BY <1>2 DEF Core
<1>5. x.status = "ok"
  <2>1. n \in Nat \ {0} /\ dg # "exit" /\ dg # "run" /\ s[n].th \in Threads
    BY <1>3
  <2>2. thr[s[n].th].status = "ok"
    BY ONLY <1>2, <2>1, TopThread
  <2> QED BY <1>3, <2>2
<1>6. /\ j - 1 \in 1..n /\ Back(s, j - 1, d, e, a, x, y, "run") /\ Tame(y, x)
      /\ s[j].old.ci \in 0..Len(x.ci) /\ \A i \in (j - 1)..n : s[i].th = a
  <2>1. Catches(s, n, a, x, dg, j, y)
    BY <1>3, <1>4, <1>5 DEF Catches
  <2> QED BY ONLY <1>4, <2>1, CatchBack
<1>7. PICK m : m = j - 1
  OBVIOUS
<1>8. m \in 1..n /\ Back(s, m, d, e, a, x, y, "run") /\ \A i \in m..n : s[i].th = a
  BY <1>6, <1>7
<1>9. ThreadOK(s, m, d, e, a, y, "run")
  <2>1. n \in Nat /\ dg # "exit"
    BY <1>3, <1>4
  <2> QED BY ONLY <1>4, <1>8, <2>1, PopOK
<1>10. Good(SubSeq(s, 1, m), thr2, "run")
  <2>1. s \in Seq(Records) /\ n = Len(s) /\ dg # "exit" /\ Updated(thr, a, y, thr2)
    BY <1>1, <1>4
  <2> QED BY ONLY <1>2, <1>8, <1>9, <2>1, GoodPopped
<1> QED BY <1>1, <1>6, <1>7, <1>10

---------------------------------------------------------------------------
(* A coroutine is left: it has yielded or finished, or an error has killed it *)

Leaves(s, n, a, x, dg, j, y) ==
  /\ n \in Nat \ {0} /\ \A i \in 1..n : s[i] \in Records
  /\ dg # "exit" /\ x \in ThreadRecords /\ j \in 1..n /\ s[j].kind = "resume" /\ \A i \in j..n : s[i].th = a
  /\ y.jmp = s[j].old.jmp /\ y.ci = x.ci /\ y.errfunc = x.errfunc /\ y.allowhook = x.allowhook
  /\ y.ccalls = x.ccalls - 1
  /\ y.status \in {"ok", "yield"} => y.status = x.status /\ j = n

LEMMA LeaveBack ==
  ASSUME NEW s, NEW n, NEW d, NEW e, NEW a, NEW x, NEW dg, NEW j, NEW y, Leaves(s, n, a, x, dg, j, y),
         StackOK(s, n, d, e), ThreadOK(s, n, d, e, a, x, dg), NEW dg2
  PROVE  j - 1 \in 1..(n - 1) /\ ThreadOK(s, j - 1, d, e, a, y, dg2) /\ Tame(y, x)
<1> USE DEF Leaves
<1>1. PICK r : r = s[j]
  OBVIOUS
<1>2. n \in Nat /\ n \in 1..n /\ s[n].th = a /\ r.th = a /\ r.kind = "resume"
  BY <1>1
<1>3. Placed(s, j) /\ Remembered(s, j) /\ Counted(s, d, j) /\ Handled(s, e, j)
  BY DEF StackOK
<1>4. PICK m : m = j - 1
  OBVIOUS
<1>5. m \in 1..n /\ m \in Nat /\ j = m + 1 /\ m \in 0..n /\ m \in 1..(n - 1) /\ j > 1
  <2>1. j # 1
    BY <1>1, <1>2, <1>3 DEF Placed
  <2>2. m = j - 1 /\ j \in 1..n /\ n \in Nat
    BY <1>2, <1>4
  <2> QED BY ONLY <2>1, <2>2
<1>6. (\A i \in 1..m : s[i].th # a) /\ a \in Coroutines
  BY <1>1, <1>2, <1>3, <1>4 DEF Placed
<1>7. ~ On(s, m, a)
  BY <1>6 DEF On
<1>8. y.jmp = 0
  BY <1>3 DEF Remembered
<1>9. TopOK(s, n, d, e, a, x, dg) /\ BaseOK(s, n, d, a, x)
  BY DEF ThreadOK
<1>10. ThreadOK(s, m, d, e, a, y, dg2)
  <2>1. JumpOK(s, m, a, y)
    BY <1>5, <1>6, <1>8 DEF JumpOK, Innermost, Target
  <2>2. YieldOK(s, m, a, y, dg2)
    <3>1. YieldOK(s, n, a, x, dg)
      BY DEF ThreadOK
    <3> QED BY <1>7, <3>1 DEF YieldOK
  <2>3. HookOK(s, m, a, y)
    <3>1. SUFFICES ASSUME y.status \in {"ok", "yield"} PROVE y.allowhook <=> ~ Hooked(s, m, a)
      BY DEF HookOK
    <3>2. j = n /\ x.status \in {"ok", "yield"}
      BY <3>1
    <3>3. \A i \in 1..n : i \in 1..m \/ i = n
      BY <1>5, <3>2
    <3>4. \A i \in 1..m : i \in 1..n
      BY <1>5
    <3>5. Hooked(s, n, a) <=> Hooked(s, m, a)
      BY <1>1, <1>2, <3>2, <3>3, <3>4 DEF Hooked
    <3>6. HookOK(s, n, a, x)
      BY DEF ThreadOK
    <3> QED BY <3>2, <3>5, <3>6 DEF HookOK
  <2>4. FramesOK(s, m, a, y)
    <3>1. SUFFICES ASSUME y.status = "ok" PROVE y.ci = FramesUpTo(s, m, a)
      BY DEF FramesOK
    <3>2. j = n /\ x.status = "ok"
      BY <3>1
    <3>3. \A i \in (m + 1)..n : Own(s[i], a) = <<>>
      <4>1. Own(r, a) = <<>>
        BY <1>2, OwnIs
      <4>2. \A i \in (m + 1)..n : i = j
        BY <1>5, <3>2
      <4> QED BY <1>1, <4>1, <4>2
    <3>4. FramesUpTo(s, n, a) = FramesUpTo(s, m, a)
      <4>1. \A i \in 1..n : s[i] \in Records
        OBVIOUS
      <4> QED BY ONLY <1>2, <1>5, <3>3, <4>1, FramesSkip
    <3>5. FramesOK(s, n, a, x)
      BY DEF ThreadOK
    <3> QED BY <3>2, <3>4, <3>5 DEF FramesOK
  <2>5. StatusOK(s, m, a, y)
    <3>1. SUFFICES ASSUME y.status \in {"ok", "yield"} PROVE y.errfunc = "none"
      BY <1>7 DEF StatusOK
    <3>2. e[n] = "none"
      BY <1>1, <1>2, <1>3, <3>1 DEF Handled
    <3> QED BY <1>2, <1>9, <3>2 DEF TopOK
  <2>6. WaitOK(s, m, d, e, a, y) /\ BaseOK(s, m, d, a, y) /\ TopOK(s, m, d, e, a, y, dg2)
    <3>1. 1..(m - 1) \subseteq 1..m /\ m \in 1..m /\ a # Main
      BY <1>5, <1>6, CallAssumption
    <3> QED BY <1>6, <3>1 DEF WaitOK, BaseOK, TopOK
  <2> QED BY <2>1, <2>2, <2>3, <2>4, <2>5, <2>6 DEF ThreadOK
<1>11. y.ccalls \in 0..(MaxCcalls + Margin)
  <2>1. d[j] = d[m] + 1
    BY <1>1, <1>2, <1>3, <1>4, <1>5 DEF Counted
  <2>2. d[m] \in Nat /\ d[n] \in Nat
    BY <1>2, <1>5 DEF StackOK, Counted
  <2>3. d[j] = x.base /\ d[n] >= x.base
    BY <1>1, <1>2, <1>9 DEF BaseOK
  <2>4. x.ccalls = d[n] \/ x.ccalls = d[n] + 1
    BY <1>2, <1>9 DEF TopOK
  <2>5. x.ccalls \in 0..(MaxCcalls + Margin) /\ y.ccalls = x.ccalls - 1
    BY DEF ThreadRecords
  <2>6. MaxCcalls + Margin \in Nat
    BY CallAssumption
  <2> QED BY ONLY <2>1, <2>2, <2>3, <2>4, <2>5, <2>6
<1>12. Tame(y, x)
  <2>1. x.ci \in Seq(Functions) /\ x.errfunc \in ErrFuncs /\ x.allowhook \in BOOLEAN
    BY DEF ThreadRecords
  <2>2. y.ci = x.ci /\ Len(x.ci) <= Len(x.ci)
    BY <2>1
  <2>3. y.jmp \in Nat
    BY <1>8
  <2> QED BY <1>11, <2>1, <2>2, <2>3 DEF Tame
<1> QED BY <1>4, <1>5, <1>10, <1>12

LEMMA GoodReturn ==
  ASSUME NEW s \in Seq(Records), s # <<>>, NEW thr, NEW dg, Good(s, thr, dg), NEW a \in Threads,
         NEW x, x = thr[a], NEW j, NEW y, NEW n, n = Len(s), Leaves(s, n, a, x, dg, j, y),
         NEW dg2, NEW thr2, Updated(thr, a, y, thr2)
  PROVE  j - 1 \in 1..Len(s) /\ Good(SubSeq(s, 1, j - 1), thr2, dg2) /\ Tame(y, x)
<1>1. PICK d, e : Core(s, n, d, e, thr, dg)
  BY DEF Good
<1>2. /\ n \in Nat \ {0} /\ n \in Nat /\ dg # "exit" /\ j \in 1..n /\ (\A i \in 1..n : s[i] \in Records)
      /\ s[j].kind = "resume" /\ \A i \in j..n : s[i].th = a
  BY DEF Leaves
<1>3. StackOK(s, n, d, e) /\ ThreadOK(s, n, d, e, a, x, dg)
  BY <1>1 DEF Core
<1>4. PICK m : m = j - 1
  OBVIOUS
<1>5. m \in 1..(n - 1) /\ ThreadOK(s, m, d, e, a, y, dg2) /\ Tame(y, x)
  BY <1>3, <1>4, LeaveBack
<1>6. m \in 1..n /\ j = m + 1 /\ m + 1 = j /\ m \in 1..Len(s)
  BY <1>2, <1>4, <1>5
<1>7. ASSUME NEW th \in Threads PROVE ThreadOK(s, m, d, e, th, thr2[th], dg2)
  <2>1. CASE th = a
    BY <1>5, <2>1 DEF Updated
  <2>2. CASE th # a
    <3>1. PICK z : z = thr[th]
      OBVIOUS
    <3>2. thr2[th] = z /\ ThreadOK(s, n, d, e, th, z, dg)
      BY <1>1, <2>2, <3>1 DEF Updated, Core
    <3>3. (\A i \in (m + 1)..n : s[i].th = a) /\ s[m + 1].kind = "resume"
      BY <1>2, <1>6
    <3>4. ThreadOK(s, m, d, e, th, z, dg2)
      BY ONLY <1>2, <1>3, <1>5, <2>2, <3>2, <3>3, OthersReturn
    <3> QED BY <3>2, <3>4
  <2> QED BY <2>1, <2>2
<1>8. Core(s, m, d, e, thr2, dg2)
  <2>1. StackOK(s, m, d, e)
    BY ONLY <1>2, <1>3, <1>6, StackPrefix
  <2> QED BY <1>7, <2>1 DEF Core
<1>9. Good(SubSeq(s, 1, m), thr2, dg2)
  BY <1>6, <1>8, GoodCut
<1> QED BY <1>4, <1>5, <1>6, <1>9

---------------------------------------------------------------------------
(* A coroutine yields *)

\* What lua_yield from the activation r leaves of the thread x.
Yields(x, r, y) ==
  /\ y.status = "yield" /\ y.base = x.base /\ y.ci = x.ci /\ y.ccalls = x.ccalls
  /\ y.errfunc = x.errfunc /\ y.jmp = x.jmp
  /\ y.allowhook = IF r.kind = "hook" THEN TRUE ELSE x.allowhook

\* No C call is between the resume and the yield: so the function that yields was called by
\* luaV_execute, and luaV_execute by resume.
LEMMA YieldFrom ==
  ASSUME NEW s, NEW n \in Nat \ {0}, \A i \in 1..n : s[i] \in Records, NEW d, NEW e, NEW a, NEW x,
         StackOK(s, n, d, e), ThreadOK(s, n, d, e, a, x, "run"), s[n].th = a, x \in ThreadRecords,
         s[n].kind \in {"cfunction", "hook"}, s[n].kind = "hook" => s[n - 1].kind = "execute",
         x.ccalls <= x.base
  PROVE  /\ n - 2 \in 1..n /\ n - 1 \in 1..n /\ s[n - 1].kind = "execute" /\ s[n - 1].th = a
         /\ s[n - 2].kind = "resume" /\ s[n - 2].th = a /\ a \in Coroutines
         /\ x.ccalls = d[n] /\ d[n] = d[n - 2] /\ e[n] = e[n - 2]
<1>1. n \in 1..n /\ n \in Nat
  OBVIOUS
<1>2. Placed(s, n) /\ Counted(s, d, n) /\ Handled(s, e, n)
  BY <1>1 DEF StackOK
<1>3. n # 1
  BY <1>2 DEF Placed
<1>4. PICK m : m = n - 1
  OBVIOUS
<1>5. m \in 1..n /\ m \in Nat /\ n > 1
  BY <1>3, <1>4
<1>6. Placed(s, m) /\ Counted(s, d, m) /\ Handled(s, e, m)
  BY <1>5 DEF StackOK
<1>7. x.base \in Nat /\ d[n] \in Nat /\ d[m] \in Nat
  <2>1. x.base \in 0..MaxCcalls /\ MaxCcalls \in Nat
    BY CallAssumption DEF ThreadRecords
  <2>2. d[n] \in 0..(MaxCcalls + Margin - 1) /\ d[m] \in 0..(MaxCcalls + Margin - 1)
    BY <1>2, <1>6 DEF Counted
  <2> QED BY <2>1, <2>2
<1>8. BaseOK(s, n, d, a, x) /\ x.ccalls = d[n]
  BY DEF ThreadOK, TopOK
<1>9. d[n] = x.base /\ ~ s[n].called
  <2>1. d[n] >= x.base /\ (s[n].called => d[n] > x.base)
    BY <1>1, <1>8 DEF BaseOK
  <2> QED BY <1>7, <1>8, <2>1
<1>10. s[m].kind = "execute" /\ s[m].th = a
  BY <1>2, <1>3, <1>4, <1>9 DEF Placed
<1>11. d[m] = d[n] /\ ~ s[m].called
  <2>1. d[n] = d[m] + 0
    BY <1>2, <1>4, <1>5, <1>9 DEF Counted
  <2>2. s[m].called => d[m] > x.base
    BY <1>5, <1>8, <1>10 DEF BaseOK
  <2> QED BY <1>7, <1>9, <2>1, <2>2
<1>12. PICK k : k = m - 1
  OBVIOUS
<1>13. m # 1 /\ s[k].kind = "resume" /\ s[k].th = a
  BY <1>6, <1>10, <1>11, <1>12 DEF Placed
<1>14. k \in 1..n /\ k = n - 2 /\ m > 1
  BY <1>4, <1>5, <1>12, <1>13
<1>15. Counted(s, d, k) /\ Placed(s, k)
  BY <1>14 DEF StackOK
<1>16. a \in Coroutines
  BY <1>13, <1>15 DEF Placed
<1>17. d[m] = d[k]
  <2>1. d[m] = d[k] + 0
    BY <1>6, <1>10, <1>11, <1>12, <1>14 DEF Counted
  <2>2. d[k] \in 0..(MaxCcalls + Margin - 1)
    BY <1>15 DEF Counted
  <2> QED BY <2>1, <2>2
<1>18. e[n] = e[k]
  <2>1. e[n] = e[m]
    BY <1>2, <1>4 DEF Handled
  <2>2. e[m] = e[k]
    BY <1>6, <1>10, <1>12 DEF Handled
  <2> QED BY <2>1, <2>2
<1> QED BY <1>4, <1>5, <1>8, <1>10, <1>11, <1>13, <1>14, <1>16, <1>17, <1>18

LEMMA YieldedLua ==
  ASSUME NEW k \in Nat, k > 0
  PROVE  Yielded(Lua(k)) /\ Yielded(Lua(k) \o <<"c">>)
<1>1. Lua(k) \in Seq(Functions) /\ Lua(k) # <<>> /\ Last(Lua(k)) = "lua"
  BY LuaFrames
<1>2. \A i \in DOMAIN Lua(k) : Lua(k)[i] = "lua"
  BY DEF Lua
<1>3. Yielded(Lua(k))
  BY <1>1, <1>2 DEF Yielded
<1>4. "c" \in Functions
  BY DEF Functions
<1>5. PICK ci : ci = Append(Lua(k), "c")
  OBVIOUS
<1>6. ci # <<>> /\ Last(ci) = "c" /\ Front(ci) = Lua(k) /\ ci = Lua(k) \o <<"c">>
  <2>1. /\ Front(Append(Lua(k), "c")) = Lua(k) /\ Last(Append(Lua(k), "c")) = "c"
        /\ Append(Lua(k), "c") = Lua(k) \o <<"c">> /\ Append(Lua(k), "c") # <<>>
    BY ONLY <1>1, <1>4, FrontIs
  <2> QED BY <1>5, <2>1
<1>7. Yielded(ci)
  BY <1>1, <1>2, <1>6 DEF Yielded
<1> QED BY <1>3, <1>6, <1>7

\* No frames of the thread are below its resume.
LEMMA ResumeFrames ==
  ASSUME NEW s, NEW n \in Nat \ {0}, \A i \in 1..n : s[i] \in Records, Placed(s, n), s[n].kind = "resume"
  PROVE  FramesUpTo(s, n, s[n].th) = <<>>
<1>1. PICK m : m = n - 1
  OBVIOUS
<1>2. PICK a : a = s[n].th
  OBVIOUS
<1>3. m \in Nat /\ n = m + 1 /\ (\A i \in 1..m : s[i] \in Records) /\ \A i \in 1..(m + 1) : s[i] \in Records
  BY <1>1
<1>4. ~ On(s, m, a)
  BY <1>1, <1>2 DEF Placed, On
<1>5. FramesUpTo(s, m, a) = <<>>
  BY ONLY <1>3, <1>4, FramesNone
<1>6. FramesUpTo(s, m + 1, a) = FramesUpTo(s, m, a) \o Own(s[m + 1], a)
  BY ONLY <1>3, FramesStep
<1>7. Own(s[n], a) = <<>>
  BY OwnIs
<1>8. <<>> \o <<>> = <<>>
  OBVIOUS
<1> QED BY <1>2, <1>3, <1>5, <1>6, <1>7, <1>8

LEMMA GoodYield ==
  ASSUME NEW s \in Seq(Records), s # <<>>, NEW thr, Good(s, thr, "run"),
         NEW a \in Threads, a = s[Len(s)].th, NEW x, x = thr[a], x \in ThreadRecords,
         NEW r, r = s[Len(s)], r.kind \in {"cfunction", "hook"},
         r.kind = "hook" => s[Len(s) - 1].kind = "execute", x.ccalls <= x.base,
         NEW y, Yields(x, r, y), NEW thr2, Updated(thr, a, y, thr2)
  PROVE  Len(s) - 2 \in 1..Len(s) /\ Good(SubSeq(s, 1, Len(s) - 2), thr2, "run")
<1>1. PICK n : n = Len(s)
  OBVIOUS
<1>2. PICK d, e : Core(s, n, d, e, thr, "run")
  BY <1>1 DEF Good
<1>3. n \in Nat \ {0} /\ n \in Nat /\ n \in 1..n /\ s[n].th = a /\ r = s[n] /\ \A i \in 1..n : s[i] \in Records
  BY <1>1, EmptySeq, ElementOfSeq
<1>4. StackOK(s, n, d, e) /\ ThreadOK(s, n, d, e, a, x, "run")
  BY <1>2 DEF Core
<1>5. x.status = "ok"
  <2>1. "run" # "exit" /\ s[n].th \in Threads /\ s[n].kind # "resume"
    BY <1>3
  <2>2. thr[s[n].th].status = "ok"
    BY ONLY <1>2, <1>3, <2>1, TopThread
  <2> QED BY <1>3, <2>2
<1>6. /\ n - 2 \in 1..n /\ n - 1 \in 1..n /\ s[n - 1].kind = "execute" /\ s[n - 1].th = a
      /\ s[n - 2].kind = "resume" /\ s[n - 2].th = a /\ a \in Coroutines
      /\ x.ccalls = d[n] /\ d[n] = d[n - 2] /\ e[n] = e[n - 2]
  <2>1. /\ s[n].kind \in {"cfunction", "hook"} /\ (s[n].kind = "hook" => s[n - 1].kind = "execute")
        /\ x.ccalls <= x.base /\ x \in ThreadRecords
    BY <1>1
  <2> QED BY ONLY <1>3, <1>4, <2>1, YieldFrom
<1>7. PICK k, m : m = n - 1 /\ k = n - 2
  OBVIOUS
<1>8. /\ k \in 1..n /\ k \in Nat \ {0} /\ m = k + 1 /\ n = m + 1 /\ m \in 1..n /\ m \in Nat /\ k \in Nat
      /\ k \in 1..k /\ m \in Nat \ {0}
      /\ (\A i \in 1..n : i \in 1..k \/ i = m \/ i = n) /\ (\A i \in 1..k : i \in 1..n /\ i \in 1..m)
      /\ (\A i \in k..n : i = k \/ i = m \/ i = n) /\ \A i \in 1..k : s[i] \in Records
  BY <1>3, <1>6, <1>7
<1>9. /\ s[m].kind = "execute" /\ s[m].th = a /\ s[k].kind = "resume" /\ s[k].th = a
      /\ x.ccalls = d[k] /\ e[n] = e[k]
  BY <1>6, <1>7
<1>10. /\ JumpOK(s, n, a, x) /\ HookOK(s, n, a, x) /\ FramesOK(s, n, a, x) /\ BaseOK(s, n, d, a, x)
       /\ TopOK(s, n, d, e, a, x, "run")
  BY <1>4 DEF ThreadOK
<1>11. y.jmp = x.jmp /\ y.status = "yield" /\ y.ci = x.ci /\ y.base = x.base
       /\ y.ccalls = x.ccalls /\ y.errfunc = x.errfunc
  BY DEF Yields
<1>12. StackOK(s, k, d, e)
  BY <1>4, <1>8, StackPrefix
<1>13. ThreadOK(s, k, d, e, a, y, "run")
  <2>1. JumpOK(s, k, a, y)
    <3>1. PICK j : j = x.jmp /\ Innermost(s, n, a, j)
      BY <1>10 DEF JumpOK
    <3>2. j \in 0..n /\ j # n /\ j # m
      <4>1. j # 0 => s[j].kind \in {"pcall", "resume"}
        BY <3>1 DEF Innermost, Target
      <4>2. n # 0 /\ m # 0 /\ s[n].kind \in {"cfunction", "hook"} /\ s[m].kind = "execute"
        BY <1>3, <1>8, <1>9
      <4>3. j \in 0..n
        BY <3>1 DEF Innermost
      <4> QED BY <4>1, <4>2, <4>3
    <3>3. j \in 0..k /\ \A i \in (j + 1)..k : i \in (j + 1)..n
      BY <1>8, <3>2
    <3>4. Innermost(s, k, a, j)
      BY <3>1, <3>3 DEF Innermost
    <3> QED BY <1>11, <3>1, <3>4 DEF JumpOK
  <2>2. YieldOK(s, k, a, y, "run")
    <3>1. FramesUpTo(s, k, a) = <<>>
      <4>1. Placed(s, k) /\ \A i \in 1..k : s[i] \in Records
        BY <1>4, <1>8 DEF StackOK
      <4> QED BY ONLY <1>8, <1>9, <4>1, ResumeFrames
    <3>2. FramesUpTo(s, k + 1, a) = FramesUpTo(s, k, a) \o Own(s[k + 1], a)
      <4>1. k \in Nat /\ \A i \in 1..(k + 1) : s[i] \in Records
        BY <1>3, <1>8
      <4> QED BY ONLY <4>1, FramesStep
    <3>3. FramesUpTo(s, m + 1, a) = FramesUpTo(s, m, a) \o Own(s[m + 1], a)
      <4>1. m \in Nat /\ \A i \in 1..(m + 1) : s[i] \in Records
        BY <1>3, <1>8
      <4> QED BY ONLY <4>1, FramesStep
    <3>4. PICK l : l = s[m].n
      OBVIOUS
    <3>5. l \in Nat /\ l > 0
      <4>1. Placed(s, m) /\ s[m] \in Records
        BY <1>3, <1>4, <1>8 DEF StackOK
      <4>2. s[m].n >= 1 /\ s[m].n \in Nat
        BY <1>9, <4>1 DEF Placed, Records
      <4> QED BY <3>4, <4>2
    <3>6. Own(s[m], a) = Lua(l)
      BY <1>9, <3>4, OwnIs
    <3>7. Lua(l) \in Seq(Functions) /\ Yielded(Lua(l)) /\ Yielded(Lua(l) \o <<"c">>)
      BY <3>5, LuaFrames, YieldedLua
    <3>8. FramesUpTo(s, m, a) = Lua(l)
      <4>1. <<>> \o Lua(l) = Lua(l)
        BY <3>7
      <4> QED BY <1>8, <3>1, <3>2, <3>6, <4>1
    <3>9. Own(s[n], a) = <<"c">> \/ Own(s[n], a) = <<>>
      BY <1>3, OwnIs
    <3>10. y.ci = Lua(l) \o <<"c">> \/ y.ci = Lua(l)
      <4>1. y.ci = Lua(l) \o Own(s[n], a)
        BY <1>5, <1>8, <1>10, <1>11, <3>3, <3>8 DEF FramesOK
      <4>2. Lua(l) \o <<>> = Lua(l)
        BY <3>7
      <4> QED BY <3>9, <4>1, <4>2
    <3> QED BY <1>9, <3>7, <3>10 DEF YieldOK
  <2>3. HookOK(s, k, a, y)
    <3>1. CASE r.kind = "hook"
      <4>1. Remembered(s, n)
        BY <1>3, <1>4 DEF StackOK
      <4>2. ~ Hooked(s, m, a)
        BY <1>3, <1>7, <3>1, <4>1 DEF Remembered
      <4>3. ~ Hooked(s, k, a)
        BY <1>8, <4>2 DEF Hooked
      <4>4. y.allowhook
        BY <3>1 DEF Yields
      <4> QED BY <4>3, <4>4 DEF HookOK
    <3>2. CASE r.kind # "hook"
      <4>1. Hooked(s, n, a) <=> Hooked(s, k, a)
        BY <1>3, <1>8, <1>9, <3>2 DEF Hooked
      <4>2. y.allowhook = x.allowhook
        BY <3>2 DEF Yields
      <4> QED BY <1>5, <1>10, <4>1, <4>2 DEF HookOK
    <3> QED BY <3>1, <3>2
  <2>4. FramesOK(s, k, a, y)
    BY <1>11 DEF FramesOK
  <2>5. StatusOK(s, k, a, y)
    <3>1. On(s, k, a)
      BY <1>8, <1>9 DEF On
    <3> QED BY <1>11, <3>1 DEF StatusOK
  <2>6. WaitOK(s, k, d, e, a, y)
    <3>1. a = s[k].th
      BY <1>9
    <3> QED BY ONLY <1>8, <1>12, <3>1, TopWaitOK
  <2>7. BaseOK(s, k, d, a, y)
    BY <1>8, <1>10, <1>11 DEF BaseOK
  <2>8. TopOK(s, k, d, e, a, y, "run")
    <3>1. y.errfunc = e[k] /\ y.ccalls = d[k]
      BY <1>3, <1>9, <1>10, <1>11 DEF TopOK
    <3>2. d[k] \in 0..(MaxCcalls + Margin - 1)
      BY <1>4, <1>8 DEF StackOK, Counted
    <3> QED BY <3>1, <3>2, CallAssumption DEF TopOK
  <2> QED BY <2>1, <2>2, <2>3, <2>4, <2>5, <2>6, <2>7, <2>8 DEF ThreadOK
<1>14. Good(SubSeq(s, 1, k), thr2, "run")
  <2>1. "run" # "exit" /\ \A i \in k..n : s[i].th = a
    BY <1>3, <1>8, <1>9
  <2> QED BY <1>1, <1>2, <1>8, <1>13, <2>1, GoodPopped
<1> QED BY <1>1, <1>7, <1>8, <1>14

---------------------------------------------------------------------------
(* What can be resumed is not on the stack *)

\* A coroutine that waits for another one has called coroutine.resume.
LEMMA NormalFrames ==
  ASSUME NEW s, NEW n \in Nat \ {0}, \A i \in 1..n : s[i] \in Records, NEW d, NEW e, StackOK(s, n, d, e),
         NEW th \in Coroutines, th # s[n].th, On(s, n, th)
  PROVE  FramesUpTo(s, n, th) # <<>>
<1> DEFINE T == {i \in 1..n : s[i].th = th}
<1>1. T \subseteq Nat /\ T # {}
  BY DEF On
<1>2. PICK f \in T : \A i \in T : f <= i
  <2> HIDE DEF T
  <2> QED BY <1>1, Least
<1>3. f \in 1..n /\ s[f].th = th /\ \A i \in 1..n : s[i].th = th => f <= i
  BY <1>2
\* the least of the indices above f where the thread does not run
<1> DEFINE U == {i \in f..n : s[i].th # th}
<1>4. U \subseteq Nat /\ n \in U
  BY <1>3
<1>5. PICK g \in U : \A i \in U : g <= i
  <2> HIDE DEF U
  <2> QED BY <1>4, Least
<1>6. PICK k : k = g - 1
  OBVIOUS
<1>7. g \in 1..n /\ g > f /\ k \in 1..n /\ g = k + 1 /\ k >= f /\ s[g].th # th
  BY <1>3, <1>5, <1>6
<1>8. s[k].th = th
  <2>1. k \in f..n /\ ~ (g <= k)
    BY <1>7
  <2> QED BY <1>5, <2>1
<1>9. Placed(s, g) /\ Placed(s, f) /\ Placed(s, k) /\ g # 1 /\ g - 1 = k
  BY <1>3, <1>7 DEF StackOK
<1>10. s[g].kind = "resume" /\ s[k].kind \in {"host", "cfunction", "hook"}
  <2>1. s[g].th # s[g - 1].th /\ s[g].kind # "host"
    BY <1>7, <1>8, <1>9 DEF Placed
  <2> QED BY <1>9, <2>1 DEF Placed
<1>11. s[f].kind = "resume"
  <2>1. th # Main
    BY CallAssumption
  <2>2. f # 1
    BY <1>3, <1>9, <2>1 DEF Placed
  <2>3. f - 1 \in 1..n /\ ~ (f <= f - 1)
    BY <1>3, <2>2
  <2>4. s[f - 1].th # th
    BY <1>3, <2>3
  <2>5. s[f].kind # "host" /\ s[f].th # s[f - 1].th
    BY <1>3, <1>9, <2>2, <2>4 DEF Placed
  <2> QED BY <1>9, <2>5 DEF Placed
<1>12. ASSUME NEW i \in 1..n, s[i].th = th, s[i].kind = "execute" \/ s[i].kind = "cfunction"
       PROVE  FramesUpTo(s, n, th) # <<>>
  <2>1. Own(s[i], th) # <<>>
    <3>1. CASE s[i].kind = "cfunction"
      <4>1. Own(s[i], th) = <<"c">>
        BY <1>12, <3>1, OwnIs
      <4> QED BY <4>1
    <3>2. CASE s[i].kind = "execute"
      <4>1. Own(s[i], th) = Lua(s[i].n)
        BY <1>12, <3>2, OwnIs
      <4>2. s[i].n \in Nat /\ s[i].n > 0
        BY <3>2 DEF StackOK, Placed, Records
      <4>3. Lua(s[i].n) # <<>>
        BY <4>2, LuaFrames
      <4> QED BY <4>1, <4>3
    <3> QED BY <1>12, <3>1, <3>2
  <2>2. n \in Nat /\ \A m \in 1..n : s[m] \in Records
    OBVIOUS
  <2> QED BY ONLY <1>12, <2>1, <2>2, FramesSome
<1>13. CASE s[k].kind = "cfunction"
  BY <1>7, <1>8, <1>12, <1>13
<1>14. CASE s[k].kind = "hook"
  <2>1. s[k - 1].kind \in {"execute", "cfunction"}
    BY <1>9, <1>14 DEF Placed
  <2>2. k # 1 /\ s[k - 1].th = th
    BY <1>8, <1>9, <1>14 DEF Placed
  <2>3. k - 1 \in 1..n
    BY <1>7, <2>2
  <2> QED BY <1>12, <2>1, <2>2, <2>3
<1>15. CASE s[k].kind = "host"
  <2>1. s[k].th = Main
    BY <1>9, <1>15 DEF Placed
  <2> QED BY <1>8, <2>1, CallAssumption
<1> QED BY <1>10, <1>13, <1>14, <1>15

LEMMA SuspendedOff ==
  ASSUME NEW s \in Seq(Records), s # <<>>, NEW thr, Good(s, thr, "run"), NEW co \in Coroutines,
         co # s[Len(s)].th, thr[co].status = "yield" \/ (thr[co].status = "ok" /\ thr[co].ci = <<>>)
  PROVE  ~ On(s, Len(s), co)
<1>1. PICK n : n = Len(s)
  OBVIOUS
<1>2. PICK d, e : Core(s, n, d, e, thr, "run")
  BY <1>1 DEF Good
<1>3. n \in Nat \ {0} /\ n \in Nat /\ co # s[n].th /\ \A i \in 1..n : s[i] \in Records
  BY <1>1, EmptySeq, ElementOfSeq
<1>4. PICK x : x = thr[co]
  OBVIOUS
<1>5. StackOK(s, n, d, e) /\ ThreadOK(s, n, d, e, co, x, "run")
  BY <1>2, <1>4 DEF Core, Threads
<1>6. CASE x.status = "yield"
  <2>1. On(s, n, co) => s[n].th = co
    BY <1>5, <1>6 DEF ThreadOK, YieldOK
  <2> QED BY <1>1, <1>3, <2>1
<1>7. CASE x.status = "ok" /\ x.ci = <<>>
  <2>1. FramesUpTo(s, n, co) = <<>>
    BY <1>5, <1>7 DEF ThreadOK, FramesOK
  <2>2. SUFFICES ASSUME On(s, n, co) PROVE FALSE
    BY <1>1
  <2>3. FramesUpTo(s, n, co) # <<>>
    <3>1. co \in Coroutines
      OBVIOUS
    <3> QED BY ONLY <1>3, <1>5, <2>2, <3>1, NormalFrames
  <2> QED BY <2>1, <2>3
<1> QED BY <1>4, <1>6, <1>7

\* Conversely, a coroutine that waits for another one is not suspended.
LEMMA WaitingOn ==
  ASSUME NEW s \in Seq(Records), s # <<>>, NEW thr, Good(s, thr, "run"), NEW co \in Coroutines,
         co # s[Len(s)].th, On(s, Len(s), co)
  PROVE  thr[co].status = "ok" /\ thr[co].ci # <<>>
<1>1. thr[co].status # "yield" /\ ~ (thr[co].status = "ok" /\ thr[co].ci = <<>>)
  BY SuspendedOff
<1>2. PICK n : n = Len(s)
  OBVIOUS
<1>3. PICK d, e : Core(s, n, d, e, thr, "run")
  BY <1>2 DEF Good
<1>4. PICK x : x = thr[co]
  OBVIOUS
<1>5. ThreadOK(s, n, d, e, co, x, "run")
  BY <1>3, <1>4 DEF Core, Threads
<1>6. x.status \in {"ok", "yield"}
  BY <1>2, <1>5 DEF ThreadOK, StatusOK
<1> QED BY <1>1, <1>4, <1>6

---------------------------------------------------------------------------
(* A coroutine is resumed *)

\* The thread z resumes the coroutine co, x before and y after, in the activation r.
Resumes(s, n, co, x, z, r, y) ==
  /\ n = Len(s) /\ s[n].kind \in {"host", "cfunction", "hook"} /\ co \in Coroutines /\ ~ On(s, n, co)
  /\ x.status \in {"ok", "yield"} /\ z.ccalls < MaxCcalls
  /\ r \in Records /\ r.kind = "resume" /\ r.th = co /\ ~ r.called /\ r.old.jmp = x.jmp
  /\ y.status = "ok" /\ y.ci = <<>> /\ y.ccalls = z.ccalls + 1 /\ y.base = z.ccalls + 1
  /\ y.jmp = n + 1 /\ y.errfunc = x.errfunc /\ y.allowhook = x.allowhook

LEMMA GoodResume ==
  ASSUME NEW s \in Seq(Records), s # <<>>, NEW thr, Good(s, thr, "run"), NEW n, NEW a \in Threads, a = s[n].th,
         NEW co, NEW x, x = thr[co], NEW z, z = thr[a], NEW r, NEW y, Resumes(s, n, co, x, z, r, y),
         NEW thr2, Updated(thr, co, y, thr2)
  PROVE  Good(Append(s, r), thr2, "run")
<1>1. PICK d, e : Core(s, n, d, e, thr, "run")
  BY DEF Good, Resumes
<1>2. PICK t : t = Append(s, r)
  OBVIOUS
<1>3. PICK m : m = n + 1
  OBVIOUS
<1>4. PICK v : v = y.ccalls
  OBVIOUS
<1>5. PICK dd : dd = Extended(d, n, v)
  OBVIOUS
<1>6. PICK ee : ee = Extended(e, n, "none")
  OBVIOUS
<1>7. /\ n = Len(s) /\ s[n].kind \in {"host", "cfunction", "hook"} /\ co \in Coroutines /\ ~ On(s, n, co)
      /\ x.status \in {"ok", "yield"} /\ z.ccalls < MaxCcalls
      /\ r \in Records /\ r.kind = "resume" /\ r.th = co /\ ~ r.called /\ r.old.jmp = x.jmp
  BY DEF Resumes
<1>8. /\ y.status = "ok" /\ y.ci = <<>> /\ y.ccalls = z.ccalls + 1 /\ y.base = y.ccalls
      /\ y.jmp = m /\ y.errfunc = x.errfunc /\ y.allowhook = x.allowhook
  BY <1>3 DEF Resumes
<1>9. /\ n \in Nat \ {0} /\ n \in Nat /\ n \in 1..n /\ m # 1 /\ m - 1 = n /\ m > 1 /\ m \in Nat /\ m \in Nat \ {0}
      /\ m \in 1..m /\ (\A i \in 1..n : s[i] \in Records) /\ (\A i \in 1..m : i \in 1..n \/ i = m)
      /\ (\A i \in 1..n : i \in 1..m)
  BY <1>3, <1>7, EmptySeq, ElementOfSeq
<1>10. t[m] = r /\ Same(s, t, n) /\ t[n] = s[n] /\ Len(t) = m /\ \A i \in 1..m : t[i] \in Records
  <2>1. /\ t[m] = r /\ Same(s, t, n) /\ Len(t) = m /\ \A i \in 1..m : t[i] \in Records
    <3>1. /\ Append(s, r) \in Seq(Records) /\ Len(Append(s, r)) = Len(s) + 1
          /\ Append(s, r)[Len(s) + 1] = r /\ Same(s, Append(s, r), Len(s))
          /\ \A i \in 1..(Len(s) + 1) : Append(s, r)[i] \in Records
      BY <1>7, Pushed
    <3> QED BY <1>2, <1>3, <1>7, <3>1
  <2> QED BY <1>9, <2>1 DEF Same
<1>11. dd[m] = v /\ Same(d, dd, n) /\ dd[n] = d[n]
  <2>1. dd[m] = v /\ Same(d, dd, n)
    BY <1>3, <1>5, <1>9, ExtendedIs
  <2> QED BY <1>9, <2>1 DEF Same
<1>12. ee[m] = "none" /\ Same(e, ee, n) /\ ee[n] = e[n]
  <2>1. ee[m] = "none" /\ Same(e, ee, n)
    BY <1>3, <1>6, <1>9, ExtendedIs
  <2> QED BY <1>9, <2>1 DEF Same
<1>13. StackOK(s, n, d, e) /\ ThreadOK(s, n, d, e, a, z, "run") /\ ThreadOK(s, n, d, e, co, x, "run")
  BY <1>1, <1>7 DEF Core, Threads
<1>14. z.ccalls = d[n] /\ d[n] \in Nat
  <2>1. TopOK(s, n, d, e, a, z, "run") /\ Counted(s, d, n)
    BY <1>9, <1>13 DEF ThreadOK, StackOK
  <2> QED BY <2>1, CallAssumption DEF TopOK, Counted
<1>15. v = d[n] + 1 /\ v \in 0..(MaxCcalls + Margin - 1) /\ v < MaxCcalls + Margin
  BY <1>4, <1>7, <1>8, <1>14, CallAssumption
<1>16. x.jmp = 0 /\ x.errfunc = "none" /\ (x.allowhook <=> ~ Hooked(s, n, co))
  <2>1. JumpOK(s, n, co, x) /\ StatusOK(s, n, co, x) /\ HookOK(s, n, co, x)
    BY <1>13 DEF ThreadOK
  <2>2. x.jmp = 0
    <3>1. x.jmp \in 0..n /\ (x.jmp # 0 => s[x.jmp].th = co)
      BY <2>1 DEF JumpOK, Innermost, Target
    <3>2. x.jmp # 0 => x.jmp \in 1..n
      BY <1>9, <3>1
    <3> QED BY <1>7, <3>1, <3>2 DEF On
  <2> QED BY <1>7, <2>1, <2>2 DEF StatusOK, HookOK
<1>17. Placed(t, m)
  <2>1. \A k \in 1..(m - 1) : t[k].th # co
    BY <1>7, <1>9, <1>10 DEF On, Same
  <2> QED BY <1>7, <1>9, <1>10, <2>1 DEF Placed
<1>18. StackOK(t, m, dd, ee)
  <2>1. StackOK(t, n, dd, ee)
    BY ONLY <1>9, <1>10, <1>11, <1>12, <1>13, StackSame
  <2>2. Remembered(t, m)
    BY <1>7, <1>10, <1>16 DEF Remembered, Saves
  <2>3. Counted(t, dd, m)
    <3>1. dd[m] = dd[m - 1] + 1 /\ dd[m] \in 0..(MaxCcalls + Margin - 1)
      BY <1>9, <1>11, <1>15
    <3> QED BY <1>7, <1>9, <1>10, <3>1 DEF Counted, Saves
  <2>4. Handled(t, ee, m)
    BY <1>7, <1>10, <1>12 DEF Handled, Saves, ErrFuncs
  <2> QED BY ONLY <1>3, <1>9, <1>17, <2>1, <2>2, <2>3, <2>4, StackPush
<1>19. ThreadOK(t, m, dd, ee, co, y, "run")
  <2>1. JumpOK(t, m, co, y)
    <3>1. m \in 0..m /\ Target(t[m], co) /\ \A i \in (m + 1)..m : FALSE
      BY <1>7, <1>9, <1>10 DEF Target
    <3> QED BY <1>8, <3>1 DEF JumpOK, Innermost
  <2>2. YieldOK(t, m, co, y, "run")
    BY <1>8 DEF YieldOK
  <2>3. HookOK(t, m, co, y)
    <3>1. \A i \in 1..n : t[i] = s[i]
      BY <1>10 DEF Same
    <3>2. Hooked(t, m, co) <=> Hooked(s, n, co)
      BY <1>7, <1>9, <1>10, <3>1 DEF Hooked
    <3> QED BY <1>8, <1>16, <3>2 DEF HookOK
  <2>4. FramesOK(t, m, co, y)
    <3>1. t[m].kind = "resume" /\ t[m].th = co
      BY <1>7, <1>10
    <3>2. FramesUpTo(t, m, t[m].th) = <<>>
      BY ONLY <1>9, <1>10, <1>17, <3>1, ResumeFrames
    <3> QED BY <1>8, <3>1, <3>2 DEF FramesOK
  <2>5. StatusOK(t, m, co, y)
    BY <1>8, <1>16 DEF StatusOK
  <2>6. WaitOK(t, m, dd, ee, co, y)
    <3>1. co = t[m].th
      BY <1>7, <1>10
    <3> QED BY ONLY <1>9, <1>18, <3>1, TopWaitOK
  <2>7. BaseOK(t, m, dd, co, y)
    <3>1. co # Main
      BY <1>7, CallAssumption
    <3>2. ASSUME NEW i \in 1..m, t[i].th = co PROVE i = m
      <4>1. CASE i \in 1..n
        BY <1>7, <1>10, <3>2, <4>1 DEF On, Same
      <4> QED BY <1>9, <4>1
    <3>3. dd[m] = y.base /\ ~ t[m].called
      BY <1>4, <1>7, <1>8, <1>10, <1>11
    <3>4. y.base \in Nat
      BY <1>4, <1>8, <1>15
    <3> QED BY <3>1, <3>2, <3>3, <3>4 DEF BaseOK
  <2>8. TopOK(t, m, dd, ee, co, y, "run")
    BY <1>4, <1>8, <1>11, <1>12, <1>15, <1>16 DEF TopOK
  <2> QED BY <2>1, <2>2, <2>3, <2>4, <2>5, <2>6, <2>7, <2>8 DEF ThreadOK
<1>20. ASSUME NEW th \in Threads PROVE ThreadOK(t, m, dd, ee, th, thr2[th], "run")
  <2>1. CASE th = co
    BY <1>19, <2>1 DEF Updated
  <2>2. CASE th # co
    <3>1. PICK w : w = thr[th]
      OBVIOUS
    <3>2. thr2[th] = w /\ ThreadOK(s, n, d, e, th, w, "run")
      BY <1>1, <2>2, <3>1 DEF Updated, Core
    <3>3. t[m].th = co /\ s[n].kind # "resume"
      BY <1>7, <1>10
    <3>4. ThreadOK(t, m, dd, ee, th, w, "run")
      BY ONLY <1>3, <1>9, <1>10, <1>11, <1>12, <2>2, <3>2, <3>3, OthersResume
    <3> QED BY <3>2, <3>4
  <2> QED BY <2>1, <2>2
<1>21. Core(t, m, dd, ee, thr2, "run")
  BY <1>18, <1>20 DEF Core
<1> QED BY <1>2, <1>10, <1>21 DEF Good

---------------------------------------------------------------------------
(* Steps that leave the stack alone *)

LEMMA GoodOther ==
  ASSUME NEW s \in Seq(Records), s # <<>>, NEW thr, NEW dg, Good(s, thr, dg), NEW b \in Threads,
         NEW x, x = thr[b], NEW y, y.status = x.status, y.ci = x.ci, y.base = x.base,
         y.errfunc = x.errfunc, y.allowhook = x.allowhook, y.jmp = x.jmp,
         y.ccalls = x.ccalls \/ ~ On(s, Len(s), b), NEW thr2, Updated(thr, b, y, thr2)
  PROVE  Good(s, thr2, dg)
<1>1. PICK n : n = Len(s)
  OBVIOUS
<1>2. PICK d, e : Core(s, n, d, e, thr, dg)
  BY <1>1 DEF Good
<1>3. n \in Nat \ {0} /\ n \in 1..n /\ \A i \in 1..(n - 1) : i \in 1..n
  BY <1>1, EmptySeq
<1>4. ThreadOK(s, n, d, e, b, x, dg)
  BY <1>2 DEF Core
<1>5. ThreadOK(s, n, d, e, b, y, dg)
  <2>1. JumpOK(s, n, b, x) => JumpOK(s, n, b, y)
    BY DEF JumpOK
  <2>2. YieldOK(s, n, b, x, dg) => YieldOK(s, n, b, y, dg)
    BY DEF YieldOK
  <2>3. HookOK(s, n, b, x) => HookOK(s, n, b, y)
    BY DEF HookOK
  <2>4. FramesOK(s, n, b, x) => FramesOK(s, n, b, y)
    BY DEF FramesOK
  <2>5. StatusOK(s, n, b, x) => StatusOK(s, n, b, y)
    BY DEF StatusOK
  <2>6. WaitOK(s, n, d, e, b, x) => WaitOK(s, n, d, e, b, y)
    BY <1>1, <1>3 DEF WaitOK, On
  <2>7. BaseOK(s, n, d, b, x) => BaseOK(s, n, d, b, y)
    BY DEF BaseOK
  <2>8. TopOK(s, n, d, e, b, x, dg) => TopOK(s, n, d, e, b, y, dg)
    BY <1>1, <1>3 DEF TopOK, On
  <2> QED BY <1>4, <2>1, <2>2, <2>3, <2>4, <2>5, <2>6, <2>7, <2>8 DEF ThreadOK
<1>6. ASSUME NEW th \in Threads PROVE ThreadOK(s, n, d, e, th, thr2[th], dg)
  BY <1>2, <1>5 DEF Updated, Core
<1>7. Core(s, n, d, e, thr2, dg)
  BY <1>2, <1>6 DEF Core
<1> QED BY <1>1, <1>7 DEF Good

LEMMA GoodPanic ==
  ASSUME NEW s, NEW thr, NEW dg, dg \in {"errrun", "errmem", "errerr"},
         Good(s, thr, dg), NEW a \in Threads, NEW y, y.jmp = thr[a].jmp, y.status # "yield",
         NEW thr2, Updated(thr, a, y, thr2)
  PROVE  Good(s, thr2, "exit")
<1>1. PICK n : n = Len(s)
  OBVIOUS
<1>2. PICK d, e : Core(s, n, d, e, thr, dg)
  BY <1>1 DEF Good
<1>3. ASSUME NEW th \in Threads PROVE ThreadOK(s, n, d, e, th, thr2[th], "exit")
  <2>1. ThreadOK(s, n, d, e, th, thr[th], dg)
    BY <1>2 DEF Core
  <2>2. JumpOK(s, n, th, thr2[th])
    <3>1. thr2[th].jmp = thr[th].jmp
      BY DEF Updated
    <3> QED BY <2>1, <3>1 DEF ThreadOK, JumpOK
  <2>3. YieldOK(s, n, th, thr2[th], "exit")
    <3>1. CASE th = a
      BY <3>1 DEF Updated, YieldOK
    <3>2. CASE th # a
      <4>1. thr2[th] = thr[th]
        BY <3>2 DEF Updated
      <4>2. YieldOK(s, n, th, thr[th], dg) /\ dg # "run"
        BY <2>1 DEF ThreadOK
      <4> QED BY <4>1, <4>2 DEF YieldOK
    <3> QED BY <3>1, <3>2
  <2> QED BY <2>2, <2>3 DEF ThreadOK
<1>4. Core(s, n, d, e, thr2, "exit")
  BY <1>2, <1>3 DEF Core
<1> QED BY <1>1, <1>4 DEF Good
=============================================================================
