------------------------------ MODULE MCLuaGC ------------------------------
(***************************************************************************)
(* Instances of LuaGC for TLC.  A run explores several small programs, each *)
(* confined to a few objects so that it meets one part of the collector.   *)
(***************************************************************************)
EXTENDS LuaGC, TLC

CONSTANTS g, r, t1, t2, mk, mb, mf, mvf, mkf, u1, c1, c2, c3, c4, d1, p1, f1, f2,
          m, th, s1, s2, fx, i1,
          Programs              \* the programs of the run

VARIABLE program

\* What a program creates, writes to, uses as keys and how many stack slots it
\* has; what it starts from: a new state, a loaded chunk, or a coroutine.
Program(objects, writes, keys, slots) ==
  [objects |-> objects, writes |-> writes, keys |-> keys, slots |-> slots, start |-> "new"]
Loaded(p) == [p EXCEPT !.start = "loaded"]
Resumed(p) == [p EXCEPT !.start = "coroutine"]

TwoTables   == Program({t1, t2}, {t1, t2}, {i1}, 2)
TableKeys   == Program({t1, t2}, {g, t1}, {t2}, 2)
WeakKeyed   == Program({t1, mk}, {g}, {t1}, 2)
WeakBoth    == Program({t1, mb}, {g}, {t1}, 2)
WeakStrings == Program({s1, mb}, {g}, {s1}, 2)
TablePrograms == {TwoTables, TableKeys, WeakKeyed, WeakBoth, WeakStrings}

PlainUdata     == Program({u1, mf}, {g}, {}, 2)
WeakUdata      == Program({u1, mvf}, {g}, {i1}, 2)
KeyUdata       == Program({u1, mkf}, {g}, {u1}, 2)
UdataPrograms  == {PlainUdata, WeakUdata, KeyUdata}

SharedUpvalue  == Loaded(Program({c2, c3, p1}, {}, {}, 2))
Coroutine      == Loaded(Program({c4, th, p1}, {}, {}, 1))
DeadThread     == Resumed(Program({c4, th, p1}, {}, {}, 1))
CFunction      == Program({d1, t1}, {}, {}, 2)
Compiler       == Program({c1, f1, f2, s1}, {}, {}, 2)
FunctionPrograms == {SharedUpvalue, Coroutine, DeadThread, CFunction, Compiler}
UpvaluePrograms  == {SharedUpvalue}

OneTable       == Program({t1}, {t1, g}, {i1}, 1)
ManyStrings    == Program({t1, s1, s2}, {t1}, {s1}, 1)
SmallPrograms  == {OneTable, ManyStrings}

Buckets == [s \in Strings |-> IF s = s1 THEN 0 ELSE NBuckets - 1]

\* The lists in any order, and with the objects that are always there first.
AnyOrder == [o \in Obj |-> 0]
FixedFirst == [o \in Obj |-> CASE o = r -> 0 [] o = f1 -> 1 [] o = f2 -> 2
                               [] o = g -> 3 [] o = c1 -> 4 [] OTHER -> 5]

TwoClosures == Permutations({c2, c3})

\* A program that has created the objects os: fields of the globals, functions
\* enclosed in others, open upvalues and stacks, and a thread's globals, are as given.
StartWith(os, global, parts, captured, open, held) ==
  /\ color = [o \in Obj |-> IF o \in {g, r, m} \cup os THEN "currentwhite" ELSE "free"]
  /\ gcstate = "pause" /\ atomic = 0 /\ fullgc = "off"
  /\ gray = {} /\ grayagain = {} /\ weak = {} /\ tmudata = {} /\ finalized = {}
  /\ sweepstrgc = 0 /\ unswept = {}
  /\ content   = [t \in Tables |-> IF t = g THEN [k \in Keys |-> global] ELSE EmptyTable]
  /\ metatable = [o \in Tables \cup Userdata |-> Nil]
  /\ env       = [o \in Closures \cup Userdata \cup Threads |->
                    IF o \in {m} \cup os THEN g ELSE Nil]
  /\ upvals    = [c \in LClosures |-> When(c \in os, captured)]
  /\ holds     = [o \in Closures \cup Protos |-> parts[o]]
  /\ openat    = [u \in UpVals |-> IF u \in os THEN open ELSE Nil]
  /\ closedval = [u \in UpVals |-> Nil]
  /\ stack     = [t \in Threads |-> [s \in Slots |-> IF s = 1 THEN held[t] ELSE Nil]]
  /\ running = m /\ basemt = Nil

\* A loaded chunk: its function c1 is the global i1 and encloses the function
\* compiled to f2.
InitLoaded ==
  StartWith({c1, f1, f2}, c1,
            [o \in Closures \cup Protos |->
               IF o = c1 THEN {f1} ELSE IF o = f1 THEN {f2} ELSE {}],
            {}, Nil, [t \in Threads |-> Nil])

\* A coroutine that has yielded: the global c4 encloses the local of the stack of
\* th that holds c4 itself.  From here on the program creates nothing.
InitCoroutine ==
  StartWith({c4, f2, p1, th}, c4,
            [o \in Closures \cup Protos |-> IF o = c4 THEN {f2} ELSE {}],
            {p1}, <<th, 1>>, [t \in Threads |-> IF t = m THEN th ELSE c4])

MCInit == /\ program \in Programs
          /\ \/ program.start = "new" /\ Init
             \/ program.start = "loaded" /\ InitLoaded
             \/ program.start = "coroutine" /\ InitCoroutine

\* The program keeps to its objects.
WithinProgram ==
  /\ Allocated \subseteq program.objects \cup {g, r, m} \cup Fixed
                           \cup When(program.start # "new", {c1, f1, f2})
  /\ \A t \in Written : /\ \A k \in Keys : content[t][k] # EmptyTable[k]
                                          => t \in program.writes /\ k \in program.keys
                        /\ metatable[t] # Nil => t \in program.writes
  /\ \A t \in Threads, s \in Slots : stack[t][s] # Nil => s <= program.slots

CreatesNothing == \A o \in Obj : color[o] = "free" => color'[o] = "free"

MCNext == /\ Next /\ UNCHANGED program /\ WithinProgram'
          /\ program.start = "coroutine" => CreatesNothing

MCSpec == MCInit /\ [][MCNext]_<<vars, program>>

MCFairSpec == MCSpec /\ WF_vars(CollectorStep)

MCSpecWithSetUpvalue ==
  MCInit /\ [][NextWithSetUpvalue /\ UNCHANGED program /\ WithinProgram']_<<vars, program>>
=============================================================================
