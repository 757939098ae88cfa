------------------------------ MODULE LuaPartsProofs ----------------------------
(* Proofs about the components that share no state with each other: references, *)
(* file handles, the interrupt of the stand-alone interpreter, the string       *)
(* table, require, the Lua stack that moves, buffers, finalizers and table.sort. *)
(* MCLuaParts checks them in one run.                                           *)
EXTENDS LuaRefs, LuaFiles, LuaInterrupt, LuaStrings, LuaRequire, LuaStack, LuaBuffer, LuaClose, LuaSort,
        LuaSequences, FiniteSetTheorems, FunctionTheorems

---------------------------------------------------------------------------
(* Proofs about LuaRefs, for tables of any size and any values.  The free list  *)
(* is a sequence of different slots that nobody holds, each with the next one   *)
(* for its value; a step shortens it, makes it longer or drops it.              *)

Held == {p[1] : p \in rheld}

(* f goes through the free list from FREELIST_REF, n slots after it.            *)
FreeList(n, f) ==
  /\ f \in [0..n -> 0..MaxRef]
  /\ f[0] = FREELIST_REF
  /\ \A i \in 0..n, j \in 0..n : f[i] = f[j] => i = j
  /\ \A i \in 1..n : rtab[f[i - 1]] = f[i]
  /\ rtab[f[n]] = NoValue
  /\ \A i \in 1..n : f[i] \notin Held

RefTypes == /\ rtab \in [0..MaxRef -> Nat \cup {NoValue}]
            /\ rheld \subseteq Slots \X RefValues

RefIInv == RefTypes /\ RefsKept /\ \E n \in Nat : \E f : FreeList(n, f)

(* A slot that is held has a value that no link and no end of a list is.        *)
LEMMA HeldValues ==
  ASSUME RefTypes, RefsKept, NEW p \in rheld
  PROVE  /\ p[1] \in Slots /\ p[1] # FREELIST_REF /\ p[1] \in Held
         /\ p[2] \in RefValues /\ rtab[p[1]] # NoValue
BY RefAssumption DEF RefTypes, RefsKept, Slots, Held, FREELIST_REF, NoValue

LEMMA RefInitial == RefInit => RefIInv
<1> SUFFICES ASSUME RefInit PROVE RefIInv
  OBVIOUS
<1>1. RefTypes /\ RefsKept
  BY DEF RefInit, RefTypes, RefsKept
<1>2. FreeList(0, [i \in 0..0 |-> FREELIST_REF])
  BY RefAssumption DEF RefInit, FreeList, FREELIST_REF, NoValue
<1> QED BY <1>1, <1>2 DEF RefIInv

(* luaL_ref takes the first free slot; the list goes on with the second.        *)
LEMMA ReusedKeeps ==
  ASSUME RefIInv, NEW v \in RefValues, RefReused(v)
  PROVE  RefIInv'
<1> DEFINE ref == rtab[FREELIST_REF]
<1>1. PICK n \in Nat : \E f : FreeList(n, f)
  BY DEF RefIInv
<1>2. PICK f : FreeList(n, f)
  BY <1>1
<1>3. ref # NoValue /\ n # 0
  BY <1>2 DEF RefReused, FreeList
<1>4. n >= 1 /\ ref = f[1] /\ ref \in Slots /\ ref \notin Held
  BY <1>2, <1>3 DEF FreeList, Slots, FREELIST_REF
<1>5. /\ rtab' = [rtab EXCEPT ![FREELIST_REF] = rtab[ref], ![ref] = v]
      /\ rheld' = rheld \cup {<<ref, v>>}
  BY DEF RefReused
<1>6. RefTypes'
  BY <1>4, <1>5, RefAssumption DEF RefIInv, RefTypes, Slots, FREELIST_REF
<1>a. /\ rtab \in [0..MaxRef -> Nat \cup {NoValue}] /\ FREELIST_REF = 0
      /\ 0 \in 0..MaxRef /\ ref \in 1..MaxRef /\ ref \in 0..MaxRef /\ ref # 0
  BY <1>4, RefAssumption DEF RefIInv, RefTypes, Slots, FREELIST_REF
<1> HIDE DEF ref
<1>7. \A s \in 1..MaxRef : s # ref => rtab'[s] = rtab[s]
  BY <1>5, <1>a
<1>8. rtab'[ref] = v /\ rtab'[FREELIST_REF] = rtab[ref]
  BY <1>5, <1>a
<1>9. RefsKept'
  <2> SUFFICES ASSUME NEW p \in rheld' PROVE rtab'[p[1]] = p[2]
    BY DEF RefsKept
  <2>1. CASE p = <<ref, v>>
    BY <2>1, <1>8
  <2>2. CASE p \in rheld
    <3>1. p[1] \in 1..MaxRef /\ p[1] # ref /\ rtab[p[1]] = p[2]
      BY <2>2, <1>4 DEF RefIInv, RefTypes, RefsKept, Slots, Held
    <3> QED BY <3>1, <1>7
  <2> QED BY <2>1, <2>2, <1>5
<1> DEFINE g == [i \in 0..(n - 1) |-> IF i = 0 THEN FREELIST_REF ELSE f[i + 1]]
<1>10. FreeList(n - 1, g)'
  <2>1. \A i \in 1..(n - 1) : g[i] = f[i + 1] /\ g[i] \in 1..MaxRef /\ g[i] # ref /\ i + 1 \in 1..n
    BY <1>2, <1>4 DEF FreeList, FREELIST_REF
  <2>2. g \in [0..(n - 1) -> 0..MaxRef] /\ g[0] = FREELIST_REF
    <3>1. g[0] = FREELIST_REF /\ FREELIST_REF \in 0..MaxRef
      BY <1>4, RefAssumption DEF FREELIST_REF
    <3>2. ASSUME NEW i \in 0..(n - 1) PROVE g[i] \in 0..MaxRef
      <4>1. CASE i = 0
        BY <3>1, <4>1
      <4>2. CASE i # 0
        <5> HIDE DEF g
        <5>1. i \in 1..(n - 1)
          BY <3>2, <4>2, <1>4
        <5>2. g[i] \in 1..MaxRef
          BY <2>1, <5>1
        <5> QED BY <5>2
      <4> QED BY <4>1, <4>2
    <3> QED BY <3>1, <3>2
  <2> HIDE DEF g
  <2>3. \A i \in 0..(n - 1), j \in 0..(n - 1) : g[i] = g[j] => i = j
    <3> SUFFICES ASSUME NEW i \in 0..(n - 1), NEW j \in 0..(n - 1), g[i] = g[j] PROVE i = j
      OBVIOUS
    <3>1. CASE i = 0 \/ j = 0
      BY <3>1, <2>1, <2>2 DEF FREELIST_REF
    <3>2. CASE i # 0 /\ j # 0
      BY <3>2, <2>1, <1>2 DEF FreeList
    <3> QED BY <3>1, <3>2
  <2>4. \A i \in 1..(n - 1) : rtab'[g[i - 1]] = g[i]
    <3> SUFFICES ASSUME NEW i \in 1..(n - 1) PROVE rtab'[g[i - 1]] = g[i]
      OBVIOUS
    <3>1. rtab[f[i]] = f[i + 1]
      BY <2>1, <1>2 DEF FreeList
    <3>2. CASE i = 1
      BY <3>1, <3>2, <2>1, <2>2, <1>4, <1>8
    <3>3. CASE i # 1
      <4>1. i - 1 \in 1..(n - 1) /\ g[i - 1] = f[i]
        BY <3>3, <2>1
      <4> QED BY <3>1, <4>1, <2>1, <1>7
    <3> QED BY <3>2, <3>3
  <2>5. rtab'[g[n - 1]] = NoValue
    <3>1. rtab[f[n]] = NoValue
      BY <1>2 DEF FreeList
    <3>2. CASE n = 1
      BY <3>1, <3>2, <2>2, <1>4, <1>8
    <3>3. CASE n # 1
      <4>1. n - 1 \in 1..(n - 1) /\ g[n - 1] = f[n]
        BY <3>3, <2>1, <1>4
      <4> QED BY <3>1, <4>1, <2>1, <1>7
    <3> QED BY <3>2, <3>3
  <2>6. \A i \in 1..(n - 1) : g[i] \notin Held'
    <3>1. ASSUME NEW s \in Held' PROVE s \in Held \/ s = ref
      <4>1. PICK p \in rheld' : s = p[1]
        BY <3>1 DEF Held
      <4> QED BY <4>1, <1>5 DEF Held
    <3>2. \A i \in 1..n : f[i] \notin Held
      BY <1>2 DEF FreeList
    <3> QED BY <2>1, <3>1, <3>2
  <2> QED BY <2>2, <2>3, <2>4, <2>5, <2>6 DEF FreeList
<1>11. n - 1 \in Nat
  BY <1>4
<1> HIDE DEF g
<1> QED BY <1>6, <1>9, <1>10, <1>11 DEF RefIInv

(* luaL_ref of a new slot: its value was nil, so nobody held it.                *)
LEMMA FreshKeeps ==
  ASSUME RefIInv, NEW v \in RefValues, RefFresh(v)
  PROVE  RefIInv'
<1>1. PICK n \in 0..(MaxRef - 1) : /\ RefBorder(n)
                                   /\ rtab' = [rtab EXCEPT ![n + 1] = v]
                                   /\ rheld' = rheld \cup {<<n + 1, v>>}
  BY DEF RefFresh
<1>2. /\ n + 1 \in 1..MaxRef /\ n + 1 \in 0..MaxRef /\ rtab[n + 1] = NoValue
      /\ rtab \in [0..MaxRef -> Nat \cup {NoValue}]
      /\ rtab[FREELIST_REF] = NoValue /\ FREELIST_REF # n + 1 /\ FREELIST_REF \in 0..MaxRef
  BY <1>1, RefAssumption DEF RefBorder, RefFresh, RefIInv, RefTypes, FREELIST_REF
<1>3. RefTypes'
  BY <1>1, <1>2, RefAssumption DEF RefIInv, RefTypes, Slots
<1>4. RefsKept'
  <2> SUFFICES ASSUME NEW p \in rheld' PROVE rtab'[p[1]] = p[2]
    BY DEF RefsKept
  <2>1. CASE p = <<n + 1, v>>
    BY <2>1, <1>1, <1>2
  <2>2. CASE p \in rheld
    <3>1. p[1] \in 0..MaxRef /\ rtab[p[1]] # NoValue /\ rtab[p[1]] = p[2]
      BY <2>2, HeldValues DEF RefIInv, RefsKept, Slots
    <3> QED BY <3>1, <1>1, <1>2
  <2> QED BY <2>1, <2>2, <1>1
<1>5. rtab'[FREELIST_REF] = NoValue
  BY <1>1, <1>2
<1>6. (\E m \in Nat : \E f : FreeList(m, f))'
  <2>1. FreeList(0, [i \in 0..0 |-> FREELIST_REF])'
    BY <1>5, RefAssumption DEF FreeList, FREELIST_REF
  <2> QED BY <2>1
<1> QED BY <1>3, <1>4, <1>6 DEF RefIInv

(* A store of luaL_ref that fails drops the whole list.                         *)
LEMMA RefFailsKeeps ==
  ASSUME RefIInv, RefFails
  PROVE  RefIInv'
<1>1. /\ rtab' = [rtab EXCEPT ![FREELIST_REF] = NoValue] /\ rheld' = rheld
      /\ rtab \in [0..MaxRef -> Nat \cup {NoValue}] /\ FREELIST_REF \in 0..MaxRef
  BY RefAssumption DEF RefFails, RefIInv, RefTypes, FREELIST_REF
<1>2. RefTypes'
  BY <1>1 DEF RefIInv, RefTypes
<1>3. RefsKept'
  <2> SUFFICES ASSUME NEW p \in rheld PROVE rtab'[p[1]] = p[2]
    BY <1>1 DEF RefsKept
  <2>1. p[1] \in 0..MaxRef /\ p[1] # FREELIST_REF /\ rtab[p[1]] = p[2]
    BY HeldValues DEF RefIInv, RefsKept, Slots
  <2> QED BY <2>1, <1>1
<1>4. FreeList(0, [i \in 0..0 |-> FREELIST_REF])'
  BY <1>1, RefAssumption DEF FreeList, FREELIST_REF
<1> QED BY <1>2, <1>3, <1>4 DEF RefIInv

(* luaL_unref: the slot is held by nobody any more and heads the list.          *)
LEMMA UnrefKeeps ==
  ASSUME RefIInv, NEW ref \in Slots, Unref(ref)
  PROVE  RefIInv'
<1>1. PICK n \in Nat : \E f : FreeList(n, f)
  BY DEF RefIInv
<1>2. PICK f : FreeList(n, f)
  BY <1>1
<1>3. PICK v \in RefValues : <<ref, v>> \in rheld
  BY DEF Unref
<1>4. ref \in Held
  BY <1>3 DEF Held
<1>5. /\ rtab' = [rtab EXCEPT ![ref] = rtab[FREELIST_REF], ![FREELIST_REF] = ref]
      /\ rheld' = {p \in rheld : p[1] # ref}
      /\ rtab \in [0..MaxRef -> Nat \cup {NoValue}]
      /\ FREELIST_REF = 0 /\ 0 \in 0..MaxRef /\ ref \in 0..MaxRef /\ ref \in 1..MaxRef /\ ref # 0
  BY RefAssumption DEF Unref, RefIInv, RefTypes, Slots, FREELIST_REF
<1>6. RefTypes'
  BY <1>5 DEF RefIInv, RefTypes
<1>7. \A s \in 1..MaxRef : s # ref => rtab'[s] = rtab[s]
  BY <1>5
<1>8. rtab'[ref] = rtab[FREELIST_REF] /\ rtab'[FREELIST_REF] = ref
  BY <1>5
<1>9. RefsKept'
  <2> SUFFICES ASSUME NEW p \in rheld, p[1] # ref PROVE rtab'[p[1]] = p[2]
    BY <1>5 DEF RefsKept
  <2>1. p[1] \in 1..MaxRef /\ rtab[p[1]] = p[2]
    BY HeldValues DEF RefIInv, RefsKept, Slots
  <2> QED BY <2>1, <1>7
<1> DEFINE g == [i \in 0..(n + 1) |-> IF i = 0 THEN FREELIST_REF
                                     ELSE IF i = 1 THEN ref ELSE f[i - 1]]
<1>10. FreeList(n + 1, g)'
  <2>1. /\ \A i \in 1..n : f[i] \in 1..MaxRef /\ f[i] \notin Held /\ f[i] # ref
        /\ f[0] = 0
    BY <1>2, <1>4, <1>5 DEF FreeList
  <2>2. /\ g[0] = 0 /\ g[1] = ref
        /\ \A i \in 2..(n + 1) : g[i] = f[i - 1] /\ i - 1 \in 1..n
    BY <1>5
  <2>3. g \in [0..(n + 1) -> 0..MaxRef]
    <3>1. ASSUME NEW i \in 0..(n + 1) PROVE g[i] \in 0..MaxRef
      <4>1. CASE i = 0 \/ i = 1
        BY <4>1, <2>2, <1>5
      <4>2. CASE i \in 2..(n + 1)
        BY <4>2, <2>1, <2>2
      <4> QED BY <4>1, <4>2
    <3> QED BY <3>1
  <2> HIDE DEF g
  <2>4. \A i \in 0..(n + 1), j \in 0..(n + 1) : g[i] = g[j] => i = j
    <3> SUFFICES ASSUME NEW i \in 0..(n + 1), NEW j \in 0..(n + 1), g[i] = g[j] PROVE i = j
      OBVIOUS
    <3>1. CASE i \in 2..(n + 1) /\ j \in 2..(n + 1)
      BY <3>1, <2>2, <1>2 DEF FreeList
    <3>2. CASE i \in 0..1 \/ j \in 0..1
      BY <3>2, <2>1, <2>2, <1>5
    <3> QED BY <3>1, <3>2
  <2>5. \A i \in 1..(n + 1) : rtab'[g[i - 1]] = g[i]
    <3> SUFFICES ASSUME NEW i \in 1..(n + 1) PROVE rtab'[g[i - 1]] = g[i]
      OBVIOUS
    <3>1. CASE i = 1
      BY <3>1, <2>2, <1>5, <1>8
    <3>2. CASE i = 2
      <4>1. rtab[f[0]] = f[1] /\ g[2] = f[1]
        BY <3>2, <2>2, <1>2 DEF FreeList
      <4> QED BY <4>1, <3>2, <2>1, <2>2, <1>5, <1>8
    <3>3. CASE i \in 3..(n + 1)
      <4>1. i - 1 \in 2..(n + 1) /\ i - 2 \in 1..n /\ i - 1 \in 1..n
        BY <3>3
      <4>2. g[i - 1] = f[i - 2] /\ g[i] = f[i - 1] /\ rtab[f[i - 2]] = f[i - 1]
        BY <4>1, <3>3, <2>2, <1>2 DEF FreeList
      <4> QED BY <4>1, <4>2, <2>1, <1>7
    <3> QED BY <3>1, <3>2, <3>3
  <2>6. rtab'[g[n + 1]] = NoValue
    <3>1. rtab[f[n]] = NoValue
      BY <1>2 DEF FreeList
    <3>2. CASE n = 0
      BY <3>1, <3>2, <2>1, <2>2, <1>5, <1>8
    <3>3. CASE n # 0
      <4>1. n + 1 \in 2..(n + 1) /\ g[n + 1] = f[n] /\ n \in 1..n
        BY <3>3, <2>2
      <4> QED BY <4>1, <3>1, <2>1, <1>7
    <3> QED BY <3>2, <3>3
  <2>7. \A i \in 1..(n + 1) : g[i] \notin Held'
    <3>1. \A s \in Held' : s \in Held /\ s # ref
      BY <1>5 DEF Held
    <3>2. ASSUME NEW i \in 1..(n + 1) PROVE g[i] \notin Held'
      <4>1. CASE i = 1
        BY <4>1, <2>2, <3>1
      <4>2. CASE i \in 2..(n + 1)
        BY <4>2, <2>1, <2>2, <3>1
      <4> QED BY <4>1, <4>2
    <3> QED BY <3>2
  <2> QED BY <2>2, <2>3, <2>4, <2>5, <2>6, <2>7, <1>5 DEF FreeList
<1> HIDE DEF g
<1>11. n + 1 \in Nat
  OBVIOUS
<1> QED BY <1>6, <1>9, <1>10, <1>11 DEF RefIInv

(* luaL_unref whose second store fails: the slot is lost, the list is empty.    *)
LEMMA UnrefFailsKeeps ==
  ASSUME RefIInv, NEW ref \in Slots, UnrefFails(ref)
  PROVE  RefIInv'
<1>1. /\ rtab' = [rtab EXCEPT ![ref] = NoValue] /\ rheld' = {p \in rheld : p[1] # ref}
      /\ rtab \in [0..MaxRef -> Nat \cup {NoValue}] /\ rtab[FREELIST_REF] = NoValue
      /\ FREELIST_REF \in 0..MaxRef /\ ref \in 0..MaxRef /\ ref # FREELIST_REF
  BY RefAssumption DEF UnrefFails, RefIInv, RefTypes, Slots, FREELIST_REF
<1>2. RefTypes'
  BY <1>1 DEF RefIInv, RefTypes
<1>3. RefsKept'
  <2> SUFFICES ASSUME NEW p \in rheld, p[1] # ref PROVE rtab'[p[1]] = p[2]
    BY <1>1 DEF RefsKept
  <2>1. p[1] \in 0..MaxRef /\ rtab[p[1]] = p[2]
    BY HeldValues DEF RefIInv, RefsKept, Slots
  <2> QED BY <2>1, <1>1
<1>4. rtab'[FREELIST_REF] = NoValue
  BY <1>1
<1>5. FreeList(0, [i \in 0..0 |-> FREELIST_REF])'
  BY <1>4, RefAssumption DEF FreeList, FREELIST_REF
<1> QED BY <1>2, <1>3, <1>5 DEF RefIInv

LEMMA RefInductive == RefSpec => []RefIInv
<1>1. RefIInv /\ [RefNext]_refVars => RefIInv'
  <2> SUFFICES ASSUME RefIInv, [RefNext]_refVars PROVE RefIInv'
    OBVIOUS
  <2>1. CASE UNCHANGED refVars
    BY <2>1 DEF refVars, RefIInv, RefTypes, RefsKept, FreeList, Held
  <2>2. ASSUME NEW v \in RefValues, RefReused(v) \/ RefFresh(v) PROVE RefIInv'
    BY <2>2, ReusedKeeps, FreshKeeps
  <2>3. ASSUME NEW ref \in Slots, Unref(ref) \/ UnrefFails(ref) PROVE RefIInv'
    BY <2>3, UnrefKeeps, UnrefFailsKeeps
  <2> QED BY <2>1, <2>2, <2>3, RefFailsKeeps DEF RefNext
<1> QED BY <1>1, RefInitial, PTL DEF RefSpec

(* A reference finds its value for as long as it is held, in a table of any     *)
(* size and after any stores that failed (luaL_ref, luaL_unref).                *)
THEOREM ReferencesKept == RefSpec => []RefsKept
<1>1. RefIInv => RefsKept
  BY DEF RefIInv
<1> QED BY <1>1, RefInductive, PTL

---------------------------------------------------------------------------
(* Proof about LuaFiles, for any number of handles.  An open handle has the      *)
(* __close of the kind of file it was opened for, and closing clears its         *)
(* pointer: that every way of closing asks for the pointer first is enough.      *)

Opened == DOMAIN Closers

FileTypes ==
  /\ fptr \in [Handles -> BOOLEAN]
  /\ fclose \in [Handles -> {"none", "io_noclose", "io_fclose", "io_pclose"}]
  /\ ffile \in [Handles -> Opened \cup {"none", "closed", "misused"}]
  /\ fmade \in Nat
  /\ fdefault \in [Streams -> Handles]

(* What an iterator or a default refers to is a handle.                         *)
IteratorsOfHandles == \A it \in fiter : it[1] \in Handles

OpenedAsItCloses == \A h \in Handles : fptr[h] => fclose[h] = Closers[ffile[h]]

FilesIInv == FileTypes /\ IteratorsOfHandles /\ HandlesTrue /\ OpenedAsItCloses

LEMMA FilesInitial == FilesInit => FilesIInv
<1> SUFFICES ASSUME FilesInit PROVE FilesIInv
  OBVIOUS
<1>1. Stdin \in Handles /\ Stdout \in Handles
  BY HandlesAssumption DEF Stdin, Stdout, Handles
<1>2. /\ fptr \in [Handles -> BOOLEAN]
      /\ fclose \in [Handles -> {"none", "io_noclose", "io_fclose", "io_pclose"}]
      /\ fdefault \in [Streams -> Handles]
  BY <1>1 DEF FilesInit, Handles
<1>3. ffile \in [Handles -> Opened \cup {"none", "closed", "misused"}]
  BY DEF FilesInit, Opened, Closers
<1>4. HandlesTrue /\ OpenedAsItCloses
  BY DEF FilesInit, HandlesTrue, OpenedAsItCloses, Closers, Handles
<1> QED BY <1>2, <1>3, <1>4 DEF FilesInit, FilesIInv, FileTypes, IteratorsOfHandles

(* A new handle: nothing is known of the others.                                *)
LEMMA OpensKeeps ==
  ASSUME FilesIInv, NEW kind \in FileKinds, NEW opened \in BOOLEAN, Opens(kind, opened)
  PROVE  /\ NewHandle \in Handles
         /\ fptr' \in [Handles -> BOOLEAN]
         /\ fclose' \in [Handles -> {"none", "io_noclose", "io_fclose", "io_pclose"}]
         /\ ffile' \in [Handles -> Opened \cup {"none", "closed", "misused"}]
         /\ fmade' \in Nat /\ HandlesTrue' /\ OpenedAsItCloses'
<1>1. /\ NewHandle \in Handles
      /\ kind \in Opened /\ kind # "misused"
      /\ Closers[kind] \in {"io_fclose", "io_pclose"}
  BY HandlesAssumption DEF Opens, NewHandle, Handles, FilesIInv, FileTypes, FileKinds, Closers, Opened
<1>2. fptr' = [fptr EXCEPT ![NewHandle] = opened]
  BY DEF Opens
<1>3. ffile' = [ffile EXCEPT ![NewHandle] = IF opened THEN kind ELSE "none"]
  BY DEF Opens
<1>4. fclose' = [fclose EXCEPT ![NewHandle] = Closers[kind]]
  BY DEF Opens
<1>5. fmade' \in Nat
  BY DEF Opens, NewHandle, FilesIInv, FileTypes
<1>6. "none" \notin Opened
  BY DEF Opened, Closers
<1>7. ASSUME NEW h \in Handles
      PROVE  /\ fptr'[h] <=> ffile'[h] \in Opened
             /\ ffile'[h] # "misused"
             /\ fptr'[h] => fclose'[h] = Closers[ffile'[h]]
  <2>1. CASE h = NewHandle
    BY <2>1, <1>1, <1>2, <1>3, <1>4, <1>6 DEF FilesIInv, FileTypes
  <2>2. CASE h # NewHandle
    <3>1. fptr'[h] = fptr[h] /\ ffile'[h] = ffile[h] /\ fclose'[h] = fclose[h]
      BY <2>2, <1>2, <1>3, <1>4 DEF FilesIInv, FileTypes
    <3> QED BY <3>1 DEF FilesIInv, HandlesTrue, OpenedAsItCloses, Opened
  <2> QED BY <2>1, <2>2
<1>8. HandlesTrue' /\ OpenedAsItCloses'
  BY <1>7 DEF HandlesTrue, OpenedAsItCloses, Opened
<1> QED BY <1>1, <1>2, <1>3, <1>4, <1>5, <1>8 DEF FilesIInv, FileTypes

(* aux_close of an open handle closes its file by the function for its kind.    *)
LEMMA CloseKeeps ==
  ASSUME FilesIInv, NEW h \in Handles, fptr[h], aux_close(h), UNCHANGED fclose
  PROVE  /\ fptr' \in [Handles -> BOOLEAN]
         /\ ffile' \in [Handles -> Opened \cup {"none", "closed", "misused"}]
         /\ HandlesTrue' /\ OpenedAsItCloses'
<1>1. CASE fclose[h] = "io_noclose"
  BY <1>1 DEF aux_close, FilesIInv, FileTypes, HandlesTrue, OpenedAsItCloses
<1>2. CASE fclose[h] # "io_noclose"
  <2>1. ffile[h] \in FileKinds /\ Closers[ffile[h]] = fclose[h]
    BY <1>2 DEF FilesIInv, HandlesTrue, OpenedAsItCloses, FileKinds, Closers
  <2>2. fptr' = [fptr EXCEPT ![h] = FALSE] /\ ffile' = [ffile EXCEPT ![h] = "closed"]
    BY <1>2, <2>1 DEF aux_close
  <2>3. "closed" \notin Opened /\ "closed" # "misused"
    BY DEF Opened, Closers
  <2>4. ASSUME NEW k \in Handles
        PROVE  /\ fptr'[k] <=> ffile'[k] \in Opened
               /\ ffile'[k] # "misused"
               /\ fptr'[k] => fclose'[k] = Closers[ffile'[k]]
    <3>1. CASE k = h
      BY <3>1, <2>2, <2>3 DEF FilesIInv, FileTypes
    <3>2. CASE k # h
      <4>1. fptr'[k] = fptr[k] /\ ffile'[k] = ffile[k] /\ fclose'[k] = fclose[k]
        BY <3>2, <2>2 DEF FilesIInv, FileTypes
      <4> QED BY <4>1 DEF FilesIInv, HandlesTrue, OpenedAsItCloses, Opened
    <3> QED BY <3>1, <3>2
  <2>5. HandlesTrue' /\ OpenedAsItCloses'
    BY <2>4 DEF HandlesTrue, OpenedAsItCloses, Opened
  <2> QED BY <2>2, <2>5 DEF FilesIInv, FileTypes
<1> QED BY <1>1, <1>2

LEMMA FilesStep == FilesIInv /\ [FilesNext]_fileVars => FilesIInv'
<1> SUFFICES ASSUME FilesIInv, [FilesNext]_fileVars PROVE FilesIInv'
  OBVIOUS
<1>1. CASE io_open
  BY <1>1, OpensKeeps DEF io_open, FilesIInv, FileTypes, IteratorsOfHandles
<1>2. CASE io_lines
  <2>1. PICK opened \in BOOLEAN :
          /\ Opens("regular", opened) /\ UNCHANGED <<fheld, fdefault>>
          /\ fiter' = IF opened THEN fiter \cup {<<NewHandle, TRUE>>} ELSE fiter
    BY <1>2 DEF io_lines
  <2>2. "regular" \in FileKinds
    BY DEF FileKinds
  <2>3. NewHandle \in Handles
    BY <2>1, <2>2, OpensKeeps
  <2>4. IteratorsOfHandles'
    <3> SUFFICES ASSUME NEW it \in fiter' PROVE it[1] \in Handles
      BY DEF IteratorsOfHandles, Handles
    <3>1. CASE it \in fiter
      BY <3>1 DEF FilesIInv, IteratorsOfHandles
    <3>2. CASE it = <<NewHandle, TRUE>>
      BY <3>2, <2>3
    <3> QED BY <3>1, <3>2, <2>1
  <2> QED BY <2>1, <2>2, <2>4, OpensKeeps DEF FilesIInv, FileTypes
<1>3. ASSUME NEW s \in Streams, SetDefaultByName(s) PROVE FilesIInv'
  <2>1. PICK opened \in BOOLEAN :
          /\ Opens("regular", opened) /\ UNCHANGED <<fheld, fiter>>
          /\ fdefault' = IF opened THEN [fdefault EXCEPT ![s] = NewHandle] ELSE fdefault
    BY <1>3 DEF SetDefaultByName
  <2>2. "regular" \in FileKinds
    BY DEF FileKinds
  <2>3. NewHandle \in Handles
    BY <2>1, <2>2, OpensKeeps
  <2>4. fdefault' \in [Streams -> Handles]
    BY <2>1, <2>3 DEF FilesIInv, FileTypes
  <2> QED BY <2>1, <2>2, <2>4, OpensKeeps DEF FilesIInv, FileTypes, IteratorsOfHandles
<1>4. ASSUME NEW h \in Handles, io_close(h) \/ io_gc(h) PROVE FilesIInv'
  BY <1>4, CloseKeeps DEF io_close, io_gc, FilesIInv, FileTypes, IteratorsOfHandles
<1>5. ASSUME NEW it \in fiter, NEW eof \in BOOLEAN, io_readline(it, eof) PROVE FilesIInv'
  <2>1. it[1] \in Handles /\ fptr[it[1]]
    BY <1>5 DEF io_readline, FilesIInv, IteratorsOfHandles
  <2>2. CASE eof /\ it[2]
    BY <2>1, <2>2, <1>5, CloseKeeps DEF io_readline, FilesIInv, FileTypes, IteratorsOfHandles
  <2>3. CASE ~(eof /\ it[2])
    <3>1. ffile[it[1]] \notin {"closed", "misused"}
      BY <2>1 DEF FilesIInv, HandlesTrue, Closers
    <3>2. ffile' = ffile /\ fptr' = fptr
      BY <1>5, <2>1, <2>3, <3>1 DEF io_readline, FilesIInv, FileTypes
    <3> QED BY <1>5, <3>2 DEF io_readline, FilesIInv, FileTypes, IteratorsOfHandles,
                              HandlesTrue, OpenedAsItCloses
  <2> QED BY <2>2, <2>3
<1>6. ASSUME NEW h \in Handles, f_lines(h) PROVE FilesIInv'
  <2>1. IteratorsOfHandles'
    <3> SUFFICES ASSUME NEW it \in fiter' PROVE it[1] \in Handles
      BY DEF IteratorsOfHandles, Handles
    <3>1. CASE it \in fiter
      BY <3>1 DEF FilesIInv, IteratorsOfHandles
    <3>2. CASE it = <<h, FALSE>>
      BY <3>2
    <3> QED BY <3>1, <3>2, <1>6 DEF f_lines
  <2> QED BY <2>1, <1>6 DEF f_lines, FilesIInv, FileTypes, HandlesTrue, OpenedAsItCloses
<1>12. ASSUME NEW h \in Handles, ForgetHandle(h) PROVE FilesIInv'
  BY <1>12 DEF ForgetHandle, FilesIInv, FileTypes, IteratorsOfHandles, HandlesTrue, OpenedAsItCloses
<1>7. ASSUME NEW s \in Streams, NEW h \in Handles, SetDefault(s, h) PROVE FilesIInv'
  BY <1>7 DEF SetDefault, FilesIInv, FileTypes, IteratorsOfHandles, HandlesTrue, OpenedAsItCloses
<1>8. ASSUME NEW s \in Streams, GetDefault(s) PROVE FilesIInv'
  BY <1>8 DEF GetDefault, FilesIInv, FileTypes, IteratorsOfHandles, HandlesTrue, OpenedAsItCloses
<1>9. ASSUME NEW it \in fiter, ForgetIterator(it) PROVE FilesIInv'
  BY <1>9 DEF ForgetIterator, FilesIInv, FileTypes, IteratorsOfHandles, HandlesTrue, OpenedAsItCloses
<1>10. CASE FilesAtClose
  BY <1>10 DEF FilesAtClose, FilesIInv, FileTypes, IteratorsOfHandles, HandlesTrue, OpenedAsItCloses
<1>11. CASE UNCHANGED fileVars
  BY <1>11 DEF fileVars, FilesIInv, FileTypes, IteratorsOfHandles, HandlesTrue, OpenedAsItCloses
<1> QED BY <1>1, <1>2, <1>3, <1>4, <1>5, <1>6, <1>7, <1>8, <1>9, <1>10, <1>11, <1>12 DEF FilesNext

(* io.close, the iterator of io.lines, the finalizer and lua_close may come in   *)
(* any order for any number of handles: each file is closed once, by the         *)
(* function that opened its kind asks for, and never used afterwards.            *)
THEOREM FilesClosedOnce == FilesSpec => []HandlesTrue
<1>1. FilesIInv => HandlesTrue
  BY DEF FilesIInv
<1> QED BY <1>1, FilesInitial, FilesStep, PTL DEF FilesSpec

---------------------------------------------------------------------------
(* Proof about LuaInterrupt, for any number of signals: every "interrupted!" is  *)
(* paid for by a SIGINT of its own.  The hook lstop is still set when the call   *)
(* of it is under way, so that taking it away moves the debt to the error.       *)

Pending == IF ihook = "lstop" THEN 1 ELSE 0
UnderWay == IF ipc \in {"unmask", "raise"} THEN 1 ELSE 0

InterruptIInv == /\ isent \in Nat /\ ierrors \in Nat
                 /\ ipc = "lstop" => ihook = "lstop"
                 /\ ierrors + Pending + UnderWay <= isent

LEMMA InterruptInitial == InterruptInit => InterruptIInv
BY DEF InterruptInit, InterruptIInv, Pending, UnderWay

LEMMA InterruptStep == InterruptIInv /\ [InterruptNext]_interruptVars => InterruptIInv'
<1> SUFFICES ASSUME InterruptIInv, [InterruptNext]_interruptVars PROVE InterruptIInv'
  OBVIOUS
<1> USE DEF InterruptIInv, Pending, UnderWay
<1>1. CASE laction
  BY <1>1 DEF laction
<1>2. CASE DefaultAction
  BY <1>2 DEF DefaultAction
<1>3. CASE docall \/ ChunkEnds \/ docallReturns
  BY <1>3 DEF docall, ChunkEnds, docallReturns, From
<1>4. CASE Instruction \/ luaD_callhook
  BY <1>4 DEF Instruction, luaD_callhook, From
<1>5. CASE lstop
  BY <1>5 DEF lstop, From
<1>6. CASE lstopUnmasks \/ Raises
  BY <1>6 DEF lstopUnmasks, Raises, From
<1>7. ASSUME NEW hook \in {"none", "user"}, SetsHook(hook) PROVE InterruptIInv'
  BY <1>7 DEF SetsHook, From
<1>8. CASE SetsMask
  BY <1>8 DEF SetsMask, From
<1>9. CASE UNCHANGED interruptVars
  BY <1>9 DEF interruptVars
<1> QED BY <1>1, <1>2, <1>3, <1>4, <1>5, <1>6, <1>7, <1>8, <1>9 DEF InterruptNext

(* lstop raises one error for a signal, wherever the signal falls between the    *)
(* stores of lua_sethook and the reads of luaD_callhook.                         *)
THEOREM OneErrorPerSignal == InterruptSpec => []OneErrorEach
<1>1. InterruptIInv => OneErrorEach
  BY DEF InterruptIInv, OneErrorEach, Pending, UnderWay
<1> QED BY <1>1, InterruptInitial, InterruptStep, PTL DEF InterruptSpec

---------------------------------------------------------------------------
(* Proof about LuaStrings, for any contents, hashes and sizes of the table.      *)
(* Every string in use is in the chain its hash has for the present size and in  *)
(* no other, so that a look-up finds what is there; the dead are those of the    *)
(* chains the sweep has not come to, and the program holds none of them.         *)

Marks == {"free", "white", "black", "dead"}
HashOf(s) == lmod(Says(s), tsize)

StringsTypes ==
  /\ tsize \in Nat \ {0}
  /\ tchain \in [0..(tsize - 1) -> SUBSET Strings]
  /\ tmark \in [Strings -> Marks]
  /\ theld \subseteq Strings
  /\ tstate \in {"pause", "sweepstring", "sweep"} /\ tsweep \in Nat

(* The sweep begins at the first chain and ends with the last.                  *)
SweepInRange == /\ tstate = "pause" => tsweep = 0
                /\ tstate = "sweepstring" => tsweep < tsize

ChainsHoldUsed ==
  \A k \in 0..(tsize - 1) : \A s \in tchain[k] : tmark[s] # "free" /\ HashOf(s) = k

HeldAlive == \A s \in theld : tmark[s] \notin {"free", "dead"}

DeadAhead == \A s \in Strings : tmark[s] = "dead" => tstate = "sweepstring" /\ tsweep <= HashOf(s)

StringsIInv == /\ StringsTypes /\ SweepInRange
               /\ ChainsHoldUsed /\ InternedOnce /\ HeldAlive /\ DeadAhead

LEMMA HashInRange ==
  ASSUME NEW size \in Nat \ {0}, NEW s \in Strings
  PROVE  lmod(Says(s), size) \in 0..(size - 1)
<1>1. Says(s) \in Nat
  BY StringsAssumption DEF Strings, Says
<1>2. \A h \in Nat : h % size \in 0..(size - 1)
  OBVIOUS
<1> QED BY <1>1, <1>2 DEF lmod

LEMMA StringsInitial == StringsInit => StringsIInv
<1> SUFFICES ASSUME StringsInit PROVE StringsIInv
  OBVIOUS
<1>1. StringsTypes
  BY StringsAssumption DEF StringsInit, StringsTypes, Marks
<1>2. SweepInRange /\ ChainsHoldUsed /\ InternedOnce
  BY DEF StringsInit, SweepInRange, ChainsHoldUsed, InternedOnce
<1>3. HeldAlive /\ DeadAhead
  BY DEF StringsInit, HeldAlive, DeadAhead
<1> QED BY <1>1, <1>2, <1>3 DEF StringsIInv

(* Chains that hold the strings in use, each where its hash says, for a size.   *)
ChainsRight(chain, size, mark) ==
  /\ size \in Nat \ {0}
  /\ chain \in [0..(size - 1) -> SUBSET Strings]
  /\ \A k \in 0..(size - 1) : \A s \in chain[k] : mark[s] # "free" /\ lmod(Says(s), size) = k
  /\ \A s \in Strings : mark[s] # "free" => s \in chain[lmod(Says(s), size)]

LEMMA ChainsAreRight == StringsIInv => ChainsRight(tchain, tsize, tmark)
BY DEF StringsIInv, StringsTypes, ChainsHoldUsed, InternedOnce, ChainsRight, HashOf

(* luaS_resize keeps that: it loses no string and puts each where it belongs.   *)
LEMMA RehashedRight ==
  ASSUME NEW chain, NEW size, NEW mark, ChainsRight(chain, size, mark), NEW size2 \in Nat \ {0}
  PROVE  ChainsRight(Rehashed(chain, size2), size2, mark)
<1> DEFINE all == UNION {chain[j] : j \in DOMAIN chain}
<1> DEFINE new == Rehashed(chain, size2)
<1>1. all \subseteq Strings /\ \A s \in all : mark[s] # "free"
  BY DEF ChainsRight
<1>2. ASSUME NEW s \in Strings, mark[s] # "free" PROVE s \in all
  <2>1. lmod(Says(s), size) \in 0..(size - 1) /\ s \in chain[lmod(Says(s), size)]
    BY <1>2, HashInRange DEF ChainsRight
  <2>2. DOMAIN chain = 0..(size - 1)
    BY DEF ChainsRight
  <2> QED BY <2>1, <2>2
<1>3. new = [k \in 0..(size2 - 1) |-> {s \in all : lmod(Says(s), size2) = k}]
  BY DEF Rehashed
<1> HIDE DEF all, new
<1>4. new \in [0..(size2 - 1) -> SUBSET Strings]
  BY <1>1, <1>3
<1>5. \A k \in 0..(size2 - 1) : \A s \in new[k] : mark[s] # "free" /\ lmod(Says(s), size2) = k
  BY <1>1, <1>3
<1>6. \A s \in Strings : mark[s] # "free" => s \in new[lmod(Says(s), size2)]
  BY <1>2, <1>3, HashInRange
<1>7. ChainsRight(new, size2, mark)
  BY <1>4, <1>5, <1>6 DEF ChainsRight
<1> QED BY <1>7 DEF new

LEMMA ResizedRight ==
  ASSUME NEW chain, NEW mark, ChainsRight(chain, tsize, mark), NEW size2 \in Nat \ {0},
         Resized(chain, size2)
  PROVE  ChainsRight(tchain', tsize', mark)
<1>1. CASE tstate = "sweepstring"
  BY <1>1 DEF Resized
<1>2. CASE tstate # "sweepstring"
  BY <1>2, RehashedRight DEF Resized
<1> QED BY <1>1, <1>2

LEMMA RightChains ==
  ASSUME ChainsRight(tchain', tsize', tmark')
  PROVE  /\ tsize' \in Nat \ {0} /\ tchain' \in [0..(tsize' - 1) -> SUBSET Strings]
         /\ ChainsHoldUsed'
         /\ \A s \in Strings : tmark'[s] # "free" => s \in tchain'[lmod(Says(s), tsize')]
BY DEF ChainsRight, ChainsHoldUsed, HashOf

(* A string of another content: no other says the same, and it is not dead.     *)
LEMMA NewStringKeeps ==
  ASSUME StringsIInv, NEW c \in Contents, InChain(c) = {}, NewStringOf(c)
  PROVE  StringsIInv'
<1> DEFINE chained(s) == [tchain EXCEPT ![lmod(c, tsize)] = @ \cup {s}]
<1>1. PICK s \in Strings :
        /\ Says(s) = c /\ tmark[s] = "free" /\ tmark' = [tmark EXCEPT ![s] = "white"]
        /\ \/ 2 * tsize <= MaxTableSize /\ Resized(chained(s), 2 * tsize)
           \/ tchain' = chained(s) /\ tsize' = tsize
        /\ theld' = theld \cup {s} \/ theld' = theld
        /\ UNCHANGED <<tstate, tsweep>>
  BY DEF NewStringOf
<1>2. /\ tsize \in Nat \ {0} /\ 2 * tsize \in Nat \ {0} /\ lmod(c, tsize) \in 0..(tsize - 1)
      /\ tchain \in [0..(tsize - 1) -> SUBSET Strings] /\ tmark \in [Strings -> Marks]
  BY <1>1, HashInRange DEF StringsIInv, StringsTypes
<1>3. /\ tmark' \in [Strings -> Marks] /\ tmark'[s] = "white"
      /\ \A r \in Strings : r # s => tmark'[r] = tmark[r]
  BY <1>1, <1>2 DEF Marks
<1>4. ASSUME NEW r \in Strings, tmark[r] # "free" PROVE Says(r) # c
  <2>1. r \in tchain[lmod(Says(r), tsize)]
    BY <1>4 DEF StringsIInv, InternedOnce
  <2> QED BY <2>1 DEF InChain
<1>5. ChainsRight(chained(s), tsize, tmark')
  <2>1. chained(s) \in [0..(tsize - 1) -> SUBSET Strings]
    BY <1>2
  <2>2. \A k \in 0..(tsize - 1) : chained(s)[k] = IF k = lmod(c, tsize) THEN tchain[k] \cup {s}
                                                ELSE tchain[k]
    BY <1>2
  <2> HIDE DEF chained
  <2>3. \A k \in 0..(tsize - 1) : \A r \in chained(s)[k] :
          tmark'[r] # "free" /\ lmod(Says(r), tsize) = k
    BY <2>1, <2>2, <1>1, <1>2, <1>3 DEF StringsIInv, ChainsHoldUsed, HashOf
  <2>4. ASSUME NEW r \in Strings, tmark'[r] # "free"
        PROVE  r \in chained(s)[lmod(Says(r), tsize)]
    <3>1. lmod(Says(r), tsize) \in 0..(tsize - 1)
      BY <1>2, HashInRange
    <3>2. CASE r = s
      BY <3>1, <3>2, <2>2, <1>1
    <3>3. CASE r # s
      <4>1. r \in tchain[lmod(Says(r), tsize)]
        BY <3>3, <2>4, <1>3 DEF StringsIInv, InternedOnce
      <4> QED BY <4>1, <3>1, <2>2
    <3> QED BY <3>2, <3>3
  <2> QED BY <1>2, <2>1, <2>3, <2>4 DEF ChainsRight
<1>6. ChainsRight(tchain', tsize', tmark')
  <2> HIDE DEF chained
  <2>1. CASE Resized(chained(s), 2 * tsize)
    BY <2>1, <1>2, <1>5, ResizedRight
  <2>2. CASE tchain' = chained(s) /\ tsize' = tsize
    BY <2>2, <1>5
  <2> QED BY <2>1, <2>2, <1>1
<1>7. tstate = "sweepstring" => tsize' = tsize
  BY <1>1 DEF Resized
<1>8. StringsTypes' /\ ChainsHoldUsed'
  BY <1>1, <1>3, <1>6, RightChains DEF StringsIInv, StringsTypes
<1>9. SweepInRange'
  BY <1>1, <1>7 DEF StringsIInv, SweepInRange
<1>10. InternedOnce'
  <2>1. \A r, q \in Strings : tmark'[r] # "free" /\ tmark'[q] # "free" /\ r # q => Says(r) # Says(q)
    BY <1>1, <1>3, <1>4 DEF StringsIInv, InternedOnce
  <2> QED BY <2>1, <1>6, RightChains DEF InternedOnce
<1>11. HeldAlive'
  BY <1>1, <1>3 DEF StringsIInv, HeldAlive, StringsTypes
<1>12. DeadAhead'
  <2> SUFFICES ASSUME NEW r \in Strings, tmark'[r] = "dead"
               PROVE  tstate' = "sweepstring" /\ tsweep' <= lmod(Says(r), tsize')
    BY DEF DeadAhead, HashOf
  <2>1. r # s /\ tmark[r] = "dead"
    BY <1>3
  <2>2. tstate = "sweepstring" /\ tsweep <= lmod(Says(r), tsize)
    BY <2>1 DEF StringsIInv, DeadAhead, HashOf
  <2> QED BY <2>2, <1>1, <1>7
<1> QED BY <1>8, <1>9, <1>10, <1>11, <1>12 DEF StringsIInv

(* A step that leaves the table alone and only changes the colour of strings in *)
(* use.                                                                         *)
LEMMA RecolouredKeeps ==
  ASSUME StringsIInv, UNCHANGED <<tsize, tchain>>, tmark' \in [Strings -> Marks],
         \A s \in Strings : tmark'[s] = "free" <=> tmark[s] = "free"
  PROVE  /\ ChainsHoldUsed' /\ InternedOnce'
         /\ tsize' \in Nat \ {0} /\ tchain' \in [0..(tsize' - 1) -> SUBSET Strings]
BY DEF StringsIInv, StringsTypes, ChainsHoldUsed, InternedOnce, HashOf

(* changewhite: a dead string that is found is alive again before it is held.   *)
LEMMA StringFoundKeeps ==
  ASSUME StringsIInv, NEW c \in Contents, Found_newlstr(c)
  PROVE  StringsIInv'
<1>1. PICK s \in InChain(c) :
        /\ tmark' = [tmark EXCEPT ![s] = IF @ = "dead" THEN "white" ELSE @]
        /\ theld' = theld \cup {s} /\ UNCHANGED <<tsize, tchain, tstate, tsweep>>
  BY DEF Found_newlstr
<1>2. PICK k \in 0..(tsize - 1) : s \in tchain[k]
  <2>1. PICK q \in Nat : q = c
    BY StringsAssumption
  <2>2. lmod(c, tsize) \in 0..(tsize - 1)
    BY <2>1 DEF lmod, StringsIInv, StringsTypes
  <2> QED BY <1>1, <2>2 DEF InChain
<1>3. s \in Strings /\ tmark[s] # "free"
  BY <1>2 DEF StringsIInv, StringsTypes, ChainsHoldUsed
<1>4. /\ tmark' \in [Strings -> Marks] /\ tmark'[s] \notin {"free", "dead"}
      /\ \A r \in Strings : r # s => tmark'[r] = tmark[r]
  BY <1>1, <1>3 DEF StringsIInv, StringsTypes, Marks
<1>5. \A r \in Strings : tmark'[r] = "free" <=> tmark[r] = "free"
  BY <1>3, <1>4
<1>6. HeldAlive'
  BY <1>1, <1>4 DEF StringsIInv, HeldAlive, StringsTypes
<1>7. DeadAhead'
  BY <1>1, <1>4 DEF StringsIInv, DeadAhead, HashOf
<1>8. StringsTypes' /\ SweepInRange'
  BY <1>1, <1>3, <1>4 DEF StringsIInv, StringsTypes, SweepInRange
<1> QED BY <1>1, <1>4, <1>5, <1>6, <1>7, <1>8, RecolouredKeeps DEF StringsIInv

LEMMA StringMarkKeeps ==
  ASSUME StringsIInv, MarkStrings
  PROVE  StringsIInv'
<1>1. /\ tstate = "pause" /\ tstate' = "sweepstring"
      /\ UNCHANGED <<tsize, tchain, theld, tsweep>>
      /\ tmark' = [s \in Strings |-> CASE tmark[s] = "free" -> "free"
                                       [] s \in theld -> "black"
                                       [] OTHER -> "dead"]
  BY DEF MarkStrings
<1>2. \A s \in Strings : /\ tmark[s] = "free" => tmark'[s] = "free"
                         /\ tmark[s] # "free" /\ s \in theld => tmark'[s] = "black"
                         /\ tmark[s] # "free" /\ s \notin theld => tmark'[s] = "dead"
  <2> SUFFICES ASSUME NEW s \in Strings
               PROVE  /\ tmark[s] = "free" => tmark'[s] = "free"
                      /\ tmark[s] # "free" /\ s \in theld => tmark'[s] = "black"
                      /\ tmark[s] # "free" /\ s \notin theld => tmark'[s] = "dead"
    OBVIOUS
  <2>1. tmark'[s] = CASE tmark[s] = "free" -> "free"
                      [] s \in theld -> "black"
                      [] OTHER -> "dead"
    BY <1>1
  <2>2. s \in theld => tmark[s] # "free"
    BY DEF StringsIInv, HeldAlive
  <2>3. CASE tmark[s] = "free"
    BY <2>1, <2>2, <2>3
  <2>4. CASE tmark[s] # "free" /\ s \in theld
    BY <2>1, <2>4
  <2>5. CASE tmark[s] # "free" /\ s \notin theld
    BY <2>1, <2>5
  <2> QED BY <2>3, <2>4, <2>5
<1>3. tmark' \in [Strings -> Marks] /\ \A s \in Strings : tmark'[s] = "free" <=> tmark[s] = "free"
  BY <1>1, <1>2 DEF Marks
<1>4. HeldAlive'
  BY <1>1, <1>2 DEF StringsIInv, StringsTypes, HeldAlive
<1>5. DeadAhead'
  <2> SUFFICES ASSUME NEW s \in Strings PROVE 0 <= lmod(Says(s), tsize)
    BY <1>1 DEF DeadAhead, HashOf, StringsIInv, SweepInRange
  <2> QED BY HashInRange DEF StringsIInv, StringsTypes
<1>6. StringsTypes' /\ SweepInRange'
  BY <1>1, <1>3 DEF StringsIInv, StringsTypes, SweepInRange
<1> QED BY <1>1, <1>3, <1>4, <1>5, <1>6, RecolouredKeeps DEF StringsIInv

(* GCSsweepstring: the dead of a chain leave it; those still ahead are in the    *)
(* chains after it.                                                             *)
LEMMA StringSweepKeeps ==
  ASSUME StringsIInv, SweepChain
  PROVE  StringsIInv'
<1> DEFINE chain == tchain[tsweep]
<1> DEFINE dead == {s \in chain : tmark[s] = "dead"}
<1>1. /\ tstate = "sweepstring" /\ tsweep' = tsweep + 1
      /\ tmark' = [s \in Strings |-> CASE s \in dead -> "free"
                                       [] s \in chain \ dead -> "white"
                                       [] OTHER -> tmark[s]]
      /\ tchain' = [tchain EXCEPT ![tsweep] = chain \ dead]
      /\ tstate' = IF tsweep + 1 >= tsize THEN "sweep" ELSE tstate
      /\ UNCHANGED <<tsize, theld>>
  BY DEF SweepChain
<1>2. /\ tsize \in Nat \ {0} /\ tsweep \in 0..(tsize - 1) /\ chain \subseteq Strings
      /\ tmark \in [Strings -> Marks] /\ tchain \in [0..(tsize - 1) -> SUBSET Strings]
  BY <1>1 DEF StringsIInv, StringsTypes, SweepInRange
<1>3. \A s \in Strings : /\ s \in dead => tmark'[s] = "free"
                         /\ s \in chain /\ s \notin dead => tmark'[s] = "white"
                         /\ s \notin chain => tmark'[s] = tmark[s]
  BY <1>1
<1>4. /\ tmark' \in [Strings -> Marks]
      /\ tchain' \in [0..(tsize - 1) -> SUBSET Strings]
      /\ \A k \in 0..(tsize - 1) : tchain'[k] = IF k = tsweep THEN chain \ dead ELSE tchain[k]
  BY <1>1, <1>2 DEF Marks
<1>5. ASSUME NEW s \in Strings
      PROVE  /\ s \in chain <=> tmark[s] # "free" /\ lmod(Says(s), tsize) = tsweep
             /\ s \in dead => s \in chain /\ tmark[s] = "dead"
             /\ s \in chain /\ tmark[s] = "dead" => s \in dead
  BY <1>2 DEF StringsIInv, ChainsHoldUsed, InternedOnce, HashOf
<1> HIDE DEF chain, dead
<1>6. ChainsRight(tchain', tsize', tmark')
  <2>1. \A k \in 0..(tsize - 1) : \A s \in tchain'[k] :
          tmark'[s] # "free" /\ lmod(Says(s), tsize) = k
    <3> SUFFICES ASSUME NEW k \in 0..(tsize - 1), NEW s \in tchain'[k]
                 PROVE  tmark'[s] # "free" /\ lmod(Says(s), tsize) = k
      OBVIOUS
    <3>1. CASE k = tsweep
      BY <3>1, <1>2, <1>3, <1>4, <1>5
    <3>2. CASE k # tsweep
      <4>1. s \in tchain[k] /\ s \in Strings
        BY <3>2, <1>4
      <4>2. tmark[s] # "free" /\ lmod(Says(s), tsize) = k
        BY <4>1 DEF StringsIInv, ChainsHoldUsed, HashOf
      <4> QED BY <4>1, <4>2, <3>2, <1>3, <1>5
    <3> QED BY <3>1, <3>2
  <2>2. ASSUME NEW s \in Strings, tmark'[s] # "free"
        PROVE  s \in tchain'[lmod(Says(s), tsize)]
    <3>1. lmod(Says(s), tsize) \in 0..(tsize - 1)
      BY <1>2, HashInRange
    <3>2. CASE s \in chain
      BY <3>1, <3>2, <2>2, <1>3, <1>4, <1>5
    <3>3. CASE s \notin chain
      <4>1. tmark[s] # "free" /\ s \in tchain[lmod(Says(s), tsize)]
        BY <3>3, <2>2, <1>3 DEF StringsIInv, InternedOnce
      <4> QED BY <4>1, <3>1, <3>3, <1>4, <1>5
    <3> QED BY <3>2, <3>3
  <2> QED BY <1>1, <1>2, <1>4, <2>1, <2>2 DEF ChainsRight
<1>7. InternedOnce'
  <2>1. \A s \in Strings : tmark'[s] # "free" => tmark[s] # "free"
    BY <1>3, <1>5
  <2> QED BY <2>1, <1>6, RightChains DEF StringsIInv, InternedOnce
<1>8. HeldAlive'
  BY <1>1, <1>3, <1>5 DEF StringsIInv, HeldAlive, StringsTypes
<1>9. DeadAhead'
  <2> SUFFICES ASSUME NEW s \in Strings, tmark'[s] = "dead"
               PROVE  tstate' = "sweepstring" /\ tsweep' <= lmod(Says(s), tsize)
    BY <1>1 DEF DeadAhead, HashOf
  <2>1. tmark[s] = "dead" /\ s \notin chain
    BY <1>3, <1>5
  <2>2. tsweep <= lmod(Says(s), tsize) /\ lmod(Says(s), tsize) # tsweep
    BY <2>1, <1>5 DEF StringsIInv, DeadAhead, HashOf
  <2>3. lmod(Says(s), tsize) \in 0..(tsize - 1)
    BY <1>2, HashInRange
  <2> QED BY <2>2, <2>3, <1>1, <1>2
<1>10. StringsTypes' /\ SweepInRange'
  BY <1>1, <1>2, <1>4 DEF StringsIInv, StringsTypes, SweepInRange
<1> QED BY <1>6, <1>7, <1>8, <1>9, <1>10, RightChains DEF StringsIInv

LEMMA CheckSizesKeeps ==
  ASSUME StringsIInv, checkSizes
  PROVE  StringsIInv'
<1>1. /\ tstate = "sweep" /\ tstate' = "pause" /\ tsweep' = 0 /\ UNCHANGED <<tmark, theld>>
      /\ \/ tsize > MINSTRTABSIZE * 2 /\ Resized(tchain, tsize \div 2)
         \/ UNCHANGED <<tsize, tchain>>
  BY DEF checkSizes
<1>2. ChainsRight(tchain', tsize', tmark')
  <2>1. CASE UNCHANGED <<tsize, tchain>>
    BY <2>1, <1>1, ChainsAreRight
  <2>2. CASE tsize > MINSTRTABSIZE * 2 /\ Resized(tchain, tsize \div 2)
    <3>1. tsize \div 2 \in Nat \ {0}
      BY <2>2, StringsAssumption DEF StringsIInv, StringsTypes
    <3> QED BY <3>1, <2>2, <1>1, ChainsAreRight, ResizedRight
  <2> QED BY <2>1, <2>2, <1>1
<1>3. \A s \in Strings : tmark[s] # "dead"
  BY <1>1 DEF StringsIInv, DeadAhead
<1>4. InternedOnce'
  BY <1>1, <1>2, RightChains DEF StringsIInv, InternedOnce
<1>5. DeadAhead' /\ HeldAlive'
  BY <1>1, <1>3 DEF DeadAhead, HeldAlive, StringsIInv
<1>6. StringsTypes' /\ SweepInRange'
  BY <1>1, <1>2, RightChains DEF StringsIInv, StringsTypes, SweepInRange
<1> QED BY <1>2, <1>4, <1>5, <1>6, RightChains DEF StringsIInv

LEMMA StringsStep == StringsIInv /\ [StringsNext]_stringVars => StringsIInv'
<1> SUFFICES ASSUME StringsIInv, [StringsNext]_stringVars PROVE StringsIInv'
  OBVIOUS
<1>1. ASSUME NEW c \in Contents, luaS_newlstr(c) PROVE StringsIInv'
  BY <1>1, StringFoundKeeps, NewStringKeeps DEF luaS_newlstr
<1>2. ASSUME NEW s \in Strings, Released(s) PROVE StringsIInv'
  BY <1>2 DEF Released, StringsIInv, StringsTypes, SweepInRange, ChainsHoldUsed, InternedOnce,
              HeldAlive, DeadAhead, HashOf
<1>3. CASE MarkStrings \/ SweepChain \/ checkSizes
  BY <1>3, StringMarkKeeps, StringSweepKeeps, CheckSizesKeeps
<1>4. CASE UNCHANGED stringVars
  BY <1>4 DEF stringVars, StringsIInv, StringsTypes, SweepInRange, ChainsHoldUsed, InternedOnce,
              HeldAlive, DeadAhead, HashOf
<1> QED BY <1>1, <1>2, <1>3, <1>4 DEF StringsNext

(* Equal strings are one object and the sweep loses none and forgets none, for   *)
(* tables of any size, however look-ups, resizes and the sweep of luaC_step fall. *)
THEOREM StringsInterned == StringsSpec => []StringsSound
<1>1. StringsIInv => StringsSound
  BY DEF StringsIInv, StringsSound, SweepsEveryChain, HeldAlive, DeadAhead
<1> QED BY <1>1, StringsInitial, StringsStep, PTL DEF StringsSpec

---------------------------------------------------------------------------
(* Proof about LuaRequire, for any modules and any depth of nested calls.  While *)
(* a chunk runs _LOADED holds something truthy for it, so that a call of require *)
(* for its module further in never comes to the loaders; a call further out may  *)
(* still be among its loaders.                                                   *)

Entries == {"nil", "false", "value", "true", "sentinel", ModuleTable}

RequireTypes == /\ qloaded \in [ModNames -> Entries]
                /\ qcalls \in Seq([name : ModNames, phase : {"loaders", "chunk"}])

(* Of several calls for one module only the innermost can have come to the chunk. *)
OuterAmongLoaders ==
  \A i, j \in 1..Len(qcalls) : i < j /\ qcalls[i].name = qcalls[j].name
                                 => qcalls[i].phase = "loaders"

RunningIsLoaded ==
  \A i \in 1..Len(qcalls) : qcalls[i].phase = "chunk" => Truthy(qloaded[qcalls[i].name])

RequireIInv == /\ RequireTypes
               /\ OuterAmongLoaders /\ RunningIsLoaded /\ SentinelMeansUnfinished

USE DEF Entries, ModuleTable

LEMMA RequireInitial == RequireInit => RequireIInv
BY DEF RequireInit, RequireIInv, RequireTypes, OuterAmongLoaders, RunningIsLoaded,
   SentinelMeansUnfinished

LEMMA CallTypes ==
  ASSUME RequireTypes
  PROVE  /\ Len(qcalls) \in Nat
         /\ qcalls # <<>> => Len(qcalls) \in 1..Len(qcalls)
         /\ \A i \in 1..Len(qcalls) : /\ qcalls[i].name \in ModNames
                                      /\ qcalls[i].phase \in {"loaders", "chunk"}
                                      /\ qcalls[i] = [name |-> qcalls[i].name,
                                                       phase |-> qcalls[i].phase]
<1> DEFINE Calls == [name : ModNames, phase : {"loaders", "chunk"}]
<1>1. qcalls \in Seq(Calls)
  BY DEF RequireTypes
<1>2. \A c \in Calls : /\ c.name \in ModNames /\ c.phase \in {"loaders", "chunk"}
                       /\ c = [name |-> c.name, phase |-> c.phase]
  OBVIOUS
<1> HIDE DEF Calls
<1>3. /\ Len(qcalls) \in Nat /\ qcalls # <<>> => Len(qcalls) \in 1..Len(qcalls)
      /\ \A i \in 1..Len(qcalls) : qcalls[i] \in Calls
  BY <1>1
<1> QED BY <1>2, <1>3

(* A prefix of the calls: what an error or a return leaves.                     *)
LEMMA PrefixTypes ==
  ASSUME RequireTypes, NEW k \in 0..Len(qcalls), qcalls' = SubSeq(qcalls, 1, k)
  PROVE  /\ Len(qcalls') = k
         /\ \A i \in 1..k : qcalls'[i] = qcalls[i] /\ i \in 1..Len(qcalls)
         /\ qcalls' \in Seq([name : ModNames, phase : {"loaders", "chunk"}])
<1> DEFINE Calls == [name : ModNames, phase : {"loaders", "chunk"}]
<1>1. qcalls \in Seq(Calls)
  BY DEF RequireTypes
<1> HIDE DEF Calls
<1>2. /\ Len(qcalls') = k /\ qcalls' \in Seq(Calls)
      /\ \A i \in 1..k : qcalls'[i] = qcalls[i] /\ i \in 1..Len(qcalls)
  BY <1>1
<1> QED BY <1>2 DEF Calls

(* A call of require for what is not loaded: no chunk of that module runs.      *)
LEMMA RequireKeeps ==
  ASSUME RequireIInv, NEW m \in ModNames, Require(m)
  PROVE  RequireIInv'
<1> DEFINE call == [name |-> m, phase |-> "loaders"]
<1>1. /\ qcalls' = Append(qcalls, call) /\ qloaded' = qloaded /\ qfailed' = qfailed
      /\ ~Truthy(qloaded[m])
  BY DEF Require
<1>2. /\ Len(qcalls) \in Nat /\ Len(qcalls') = Len(qcalls) + 1 /\ qcalls'[Len(qcalls) + 1] = call
      /\ \A i \in 1..Len(qcalls) : qcalls'[i] = qcalls[i]
  BY <1>1 DEF RequireIInv, RequireTypes
<1>3. RequireTypes'
  BY <1>1 DEF RequireIInv, RequireTypes
<1>4. OuterAmongLoaders'
  <2> SUFFICES ASSUME NEW i \in 1..Len(qcalls'), NEW j \in 1..Len(qcalls'), i < j,
                      qcalls'[i].name = qcalls'[j].name
               PROVE  qcalls'[i].phase = "loaders"
    BY DEF OuterAmongLoaders
  <2>1. i \in 1..Len(qcalls) /\ qcalls'[i] = qcalls[i]
    BY <1>2
  <2>2. CASE j \in 1..Len(qcalls)
    BY <2>1, <2>2, <1>2 DEF RequireIInv, OuterAmongLoaders
  <2>3. CASE j = Len(qcalls) + 1
    <3>1. qcalls[i].name = m
      BY <2>1, <2>3, <1>2
    <3>2. qcalls[i].phase # "chunk"
      BY <3>1, <2>1, <1>1 DEF RequireIInv, RunningIsLoaded
    <3> QED BY <3>2, <2>1, CallTypes DEF RequireIInv
  <2> QED BY <2>2, <2>3, <1>2
<1>5. RunningIsLoaded'
  BY <1>1, <1>2 DEF RequireIInv, RunningIsLoaded, Truthy
<1>6. SentinelMeansUnfinished'
  <2> SUFFICES ASSUME NEW x \in ModNames, qloaded[x] = "sentinel", x \notin qfailed
               PROVE  \E i \in 1..Len(qcalls') : qcalls'[i] = [name |-> x, phase |-> "chunk"]
    BY <1>1 DEF SentinelMeansUnfinished
  <2>1. PICK i \in 1..Len(qcalls) : qcalls[i] = [name |-> x, phase |-> "chunk"]
    BY DEF RequireIInv, SentinelMeansUnfinished
  <2>2. i \in 1..Len(qcalls') /\ qcalls'[i] = qcalls[i]
    BY <1>2
  <2> QED BY <2>1, <2>2
<1> QED BY <1>3, <1>4, <1>5, <1>6 DEF RequireIInv

(* An error: the chunks it leaves stay marked, and are remembered as failed.    *)
LEMMA RequireErrorKeeps ==
  ASSUME RequireIInv, NEW k \in 0..(Len(qcalls) - 1), LeftByError(k)
  PROVE  RequireIInv'
<1>1. /\ qcalls' = SubSeq(qcalls, 1, k) /\ qloaded' = qloaded
      /\ qfailed' = qfailed \cup {qcalls[i].name : i \in {i \in (k + 1)..Len(qcalls) :
                                                            qcalls[i].phase = "chunk"}}
  BY DEF LeftByError
<1>2. /\ Len(qcalls) \in Nat /\ k \in Nat /\ k < Len(qcalls) /\ k \in 0..Len(qcalls)
  BY CallTypes DEF RequireIInv
<1>a. /\ Len(qcalls') = k /\ \A i \in 1..k : qcalls'[i] = qcalls[i] /\ i \in 1..Len(qcalls)
      /\ qcalls' \in Seq([name : ModNames, phase : {"loaders", "chunk"}])
  BY <1>1, <1>2, PrefixTypes DEF RequireIInv
<1>3. RequireTypes'
  BY <1>1, <1>a DEF RequireIInv, RequireTypes
<1>4. OuterAmongLoaders'
  BY <1>2, <1>a DEF RequireIInv, OuterAmongLoaders
<1>5. RunningIsLoaded'
  BY <1>1, <1>2, <1>a DEF RequireIInv, RunningIsLoaded, Truthy
<1>6. SentinelMeansUnfinished'
  <2> SUFFICES ASSUME NEW m \in ModNames, qloaded'[m] = "sentinel", m \notin qfailed'
               PROVE  \E i \in 1..Len(qcalls') : qcalls'[i] = [name |-> m, phase |-> "chunk"]
    BY DEF SentinelMeansUnfinished
  <2>1. PICK i \in 1..Len(qcalls) : qcalls[i] = [name |-> m, phase |-> "chunk"]
    BY <1>1 DEF RequireIInv, SentinelMeansUnfinished
  <2>2. i \in 1..k
    <3> SUFFICES ASSUME i \in (k + 1)..Len(qcalls) PROVE FALSE
      BY <1>2
    <3> QED BY <2>1, <1>1
  <2> QED BY <2>1, <2>2, <1>a
<1> QED BY <1>3, <1>4, <1>5, <1>6 DEF RequireIInv

(* A loader found the module: its call is the innermost, so the chunk is one.   *)
LEMMA ModuleFoundKeeps ==
  ASSUME RequireIInv, Found
  PROVE  RequireIInv'
<1> DEFINE n == Len(qcalls)
<1> DEFINE m == qcalls[n].name
<1>1. n \in Nat /\ n # 0 /\ qcalls[n].phase = "loaders" /\ m \in ModNames
  <2>1. qcalls # <<>> /\ qcalls[n].phase = "loaders"
    BY DEF Found, Running, Innermost
  <2>2. RequireTypes
    BY DEF RequireIInv
  <2>3. n \in Nat /\ n \in 1..n /\ \A i \in 1..n : qcalls[i].name \in ModNames
    BY <2>1, <2>2, CallTypes
  <2>4. m \in ModNames
    BY <2>3
  <2> HIDE DEF n, m
  <2> QED BY <2>1, <2>3, <2>4
<1>2. /\ qloaded' = [qloaded EXCEPT ![m] = "sentinel"]
      /\ qcalls' = [qcalls EXCEPT ![n].phase = "chunk"]
      /\ qfailed' = qfailed \ {m}
  BY DEF Found, Innermost
<1>3. /\ Len(qcalls') = n /\ qcalls'[n] = [name |-> m, phase |-> "chunk"]
      /\ \A i \in 1..n : i # n => qcalls'[i] = qcalls[i]
      /\ \A i \in 1..n : qcalls'[i].name = qcalls[i].name
      /\ qcalls' \in Seq([name : ModNames, phase : {"loaders", "chunk"}])
  <2> DEFINE Calls == [name : ModNames, phase : {"loaders", "chunk"}]
  <2>1. qcalls \in Seq(Calls) /\ n \in 1..n /\ n \in 1..Len(qcalls)
    BY <1>1 DEF RequireIInv, RequireTypes
  <2>2. /\ [qcalls[n] EXCEPT !.phase = "chunk"] \in Calls
        /\ [qcalls[n] EXCEPT !.phase = "chunk"] = [name |-> m, phase |-> "chunk"]
    <3>1. qcalls[n] = [name |-> m, phase |-> qcalls[n].phase]
      BY <2>1, CallTypes DEF RequireIInv
    <3> HIDE DEF m, n
    <3> QED BY <3>1, <1>1
  <2>3. qcalls' = [qcalls EXCEPT ![n] = [qcalls[n] EXCEPT !.phase = "chunk"]]
    BY <1>2
  <2> DEFINE c == [qcalls[n] EXCEPT !.phase = "chunk"]
  <2> HIDE DEF Calls, c, m
  <2>4. /\ Len(qcalls') = n /\ qcalls'[n] = c /\ qcalls' \in Seq(Calls)
        /\ \A i \in 1..n : i # n => qcalls'[i] = qcalls[i]
    BY <2>1, <2>2, <2>3 DEF c
  <2>5. c = [name |-> m, phase |-> "chunk"]
    BY <2>2 DEF c
  <2>6. \A i \in 1..n : qcalls'[i].name = qcalls[i].name
    BY <2>4, <2>5 DEF m
  <2> QED BY <2>4, <2>5, <2>6 DEF Calls
<1>4. qloaded' \in [ModNames -> Entries] /\ qloaded'[m] = "sentinel"
      /\ \A x \in ModNames : x # m => qloaded'[x] = qloaded[x]
  BY <1>1, <1>2 DEF RequireIInv, RequireTypes
<1> HIDE DEF m, n
<1>5. RequireTypes'
  BY <1>3, <1>4 DEF RequireTypes
<1>6. OuterAmongLoaders'
  <2> SUFFICES ASSUME NEW i \in 1..n, NEW j \in 1..n, i < j, qcalls'[i].name = qcalls'[j].name
               PROVE  qcalls'[i].phase = "loaders"
    BY <1>3 DEF OuterAmongLoaders
  <2>1. i # n /\ qcalls'[i] = qcalls[i] /\ qcalls[i].name = qcalls[j].name
    BY <1>1, <1>3
  <2> QED BY <2>1 DEF RequireIInv, OuterAmongLoaders, n
<1>7. RunningIsLoaded'
  <2> SUFFICES ASSUME NEW i \in 1..n, qcalls'[i].phase = "chunk"
               PROVE  Truthy(qloaded'[qcalls'[i].name])
    BY <1>3 DEF RunningIsLoaded, Truthy
  <2>1. CASE qcalls[i].name = m
    BY <2>1, <1>3, <1>4 DEF Truthy
  <2>2. CASE qcalls[i].name # m
    <3>1. i # n /\ qcalls'[i] = qcalls[i] /\ qcalls[i].name \in ModNames
      BY <2>2, <1>3, CallTypes DEF m, n, RequireIInv
    <3> QED BY <3>1, <2>2, <1>4 DEF RequireIInv, RunningIsLoaded, Truthy, n
  <2> QED BY <2>1, <2>2
<1>8. SentinelMeansUnfinished'
  <2> SUFFICES ASSUME NEW x \in ModNames, qloaded'[x] = "sentinel", x \notin qfailed'
               PROVE  \E i \in 1..n : qcalls'[i] = [name |-> x, phase |-> "chunk"]
    BY <1>3 DEF SentinelMeansUnfinished
  <2>1. CASE x = m
    BY <2>1, <1>1, <1>3
  <2>2. CASE x # m
    <3>1. qloaded[x] = "sentinel" /\ x \notin qfailed
      BY <2>2, <1>2, <1>4
    <3>2. PICK i \in 1..n : qcalls[i] = [name |-> x, phase |-> "chunk"]
      BY <3>1 DEF RequireIInv, SentinelMeansUnfinished, n
    <3>3. i # n
      BY <3>2, <1>1
    <3> QED BY <3>2, <3>3, <1>3
  <2> QED BY <2>1, <2>2
<1> QED BY <1>5, <1>6, <1>7, <1>8 DEF RequireIInv

(* The chunk returns: whatever require leaves in _LOADED, false included, no    *)
(* other chunk of the module runs and the sentinel is gone.                     *)
LEMMA ReturnsKeeps ==
  ASSUME RequireIInv, NEW v \in ChunkResults, Returns(v)
  PROVE  RequireIInv'
<1> DEFINE n == Len(qcalls)
<1> DEFINE m == qcalls[n].name
<1>1. n \in Nat /\ n # 0 /\ qcalls[n].phase = "chunk" /\ m \in ModNames
  <2>1. qcalls # <<>> /\ qcalls[n].phase = "chunk"
    BY DEF Returns, Running, Innermost
  <2>2. RequireTypes
    BY DEF RequireIInv
  <2>3. n \in Nat /\ n \in 1..n /\ \A i \in 1..n : qcalls[i].name \in ModNames
    BY <2>1, <2>2, CallTypes
  <2>4. m \in ModNames
    BY <2>3
  <2> HIDE DEF n, m
  <2> QED BY <2>1, <2>3, <2>4
<1>2. /\ qloaded' = [qloaded EXCEPT ![m] = CASE v # "nil"       -> v
                                             [] @ = "sentinel"  -> "true"
                                             [] OTHER           -> @]
      /\ qcalls' = SubSeq(qcalls, 1, n - 1) /\ qfailed' = qfailed
  BY DEF Returns, Innermost
<1>3. /\ Len(qcalls') = n - 1 /\ n - 1 \in Nat
      /\ \A i \in 1..(n - 1) : qcalls'[i] = qcalls[i] /\ i \in 1..n /\ i < n
      /\ qcalls' \in Seq([name : ModNames, phase : {"loaders", "chunk"}])
  <2>1. n - 1 \in 0..n
    BY <1>1
  <2> HIDE DEF m
  <2>2. qcalls' = SubSeq(qcalls, 1, n - 1)
    BY <1>2
  <2>3. /\ Len(qcalls') = n - 1
        /\ \A i \in 1..(n - 1) : qcalls'[i] = qcalls[i]
        /\ qcalls' \in Seq([name : ModNames, phase : {"loaders", "chunk"}])
    BY <2>1, <2>2, PrefixTypes DEF RequireIInv
  <2>4. n - 1 \in Nat /\ \A i \in 1..(n - 1) : i \in 1..n /\ i < n
    BY <1>1
  <2> QED BY <2>3, <2>4
<1>4. /\ qloaded' \in [ModNames -> Entries] /\ qloaded'[m] # "sentinel"
      /\ \A x \in ModNames : x # m => qloaded'[x] = qloaded[x]
  <2>1. DOMAIN qloaded = ModNames /\ qloaded[m] \in Entries
    BY <1>1 DEF RequireIInv, RequireTypes
  <2>2. qloaded'[m] \in Entries /\ qloaded'[m] # "sentinel"
    BY <2>1, <1>1, <1>2 DEF ChunkResults
  <2> QED BY <2>1, <2>2, <1>1, <1>2 DEF RequireIInv, RequireTypes
<1> HIDE DEF m, n
<1>5. RequireTypes'
  BY <1>3, <1>4 DEF RequireTypes
<1>6. OuterAmongLoaders'
  BY <1>3 DEF RequireIInv, OuterAmongLoaders, n
<1>7. RunningIsLoaded'
  <2> SUFFICES ASSUME NEW i \in 1..(n - 1), qcalls[i].phase = "chunk"
               PROVE  Truthy(qloaded'[qcalls[i].name])
    BY <1>3 DEF RunningIsLoaded, Truthy
  <2>1. i < n /\ i \in 1..n /\ n \in 1..n
    BY <1>1, <1>3
  <2>2. qcalls[i].name # m
    BY <2>1 DEF RequireIInv, OuterAmongLoaders, n, m
  <2>3. qcalls[i].name \in ModNames
    BY <2>1, CallTypes DEF RequireIInv, n
  <2> QED BY <2>1, <2>2, <2>3, <1>4 DEF RequireIInv, RunningIsLoaded, Truthy, n
<1>8. SentinelMeansUnfinished'
  <2> SUFFICES ASSUME NEW x \in ModNames, qloaded'[x] = "sentinel", x \notin qfailed
               PROVE  \E i \in 1..(n - 1) : qcalls'[i] = [name |-> x, phase |-> "chunk"]
    BY <1>2, <1>3 DEF SentinelMeansUnfinished
  <2>1. x # m /\ qloaded[x] = "sentinel"
    BY <1>4
  <2>2. PICK i \in 1..n : qcalls[i] = [name |-> x, phase |-> "chunk"]
    BY <2>1 DEF RequireIInv, SentinelMeansUnfinished, n
  <2>3. i # n
    BY <2>1, <2>2 DEF m
  <2> QED BY <2>2, <2>3, <1>1, <1>3
<1> QED BY <1>5, <1>6, <1>7, <1>8 DEF RequireIInv

(* module() in a chunk: a table is truthy and is no sentinel.                   *)
LEMMA ModuleKeeps ==
  ASSUME RequireIInv, DefineModule
  PROVE  RequireIInv'
<1> DEFINE m == Innermost.name
<1>1. m \in ModNames
  <2>1. qcalls # <<>>
    BY DEF DefineModule, Running
  <2> QED BY <2>1, CallTypes DEF Innermost, RequireIInv
<1>2. qloaded' = [qloaded EXCEPT ![m] = "table"] /\ qcalls' = qcalls /\ qfailed' = qfailed
  BY DEF DefineModule
<1>3. /\ qloaded' \in [ModNames -> Entries] /\ qloaded'[m] = "table"
      /\ \A x \in ModNames : x # m => qloaded'[x] = qloaded[x]
  BY <1>1, <1>2 DEF RequireIInv, RequireTypes
<1> HIDE DEF m
<1>4. RunningIsLoaded'
  <2> SUFFICES ASSUME NEW i \in 1..Len(qcalls), qcalls[i].phase = "chunk"
               PROVE  Truthy(qloaded'[qcalls[i].name])
    BY <1>2 DEF RunningIsLoaded, Truthy
  <2>1. qcalls[i].name \in ModNames
    BY CallTypes DEF RequireIInv
  <2>2. CASE qcalls[i].name = m
    BY <2>2, <1>3 DEF Truthy
  <2>3. CASE qcalls[i].name # m
    BY <2>1, <2>3, <1>3 DEF RequireIInv, RunningIsLoaded, Truthy
  <2> QED BY <2>2, <2>3
<1>5. SentinelMeansUnfinished'
  BY <1>2, <1>3 DEF RequireIInv, SentinelMeansUnfinished
<1> QED BY <1>2, <1>3, <1>4, <1>5 DEF RequireIInv, RequireTypes, OuterAmongLoaders

LEMMA UnloadKeeps ==
  ASSUME RequireIInv, NEW m \in ModNames, Unload(m)
  PROVE  RequireIInv'
BY DEF Unload, RequireIInv, RequireTypes, OuterAmongLoaders, RunningIsLoaded,
   SentinelMeansUnfinished, Truthy

LEMMA RequireStep == RequireIInv /\ [RequireNext]_requireVars => RequireIInv'
<1> SUFFICES ASSUME RequireIInv, [RequireNext]_requireVars PROVE RequireIInv'
  OBVIOUS
<1>1. ASSUME NEW m \in ModNames, Require(m) \/ RequireLoop(m) \/ Unload(m) PROVE RequireIInv'
  BY <1>1, RequireKeeps, RequireErrorKeeps, UnloadKeeps DEF RequireLoop
<1>2. ASSUME NEW v \in ChunkResults, Returns(v) PROVE RequireIInv'
  BY <1>2, ReturnsKeeps
<1>3. CASE Found \/ DefineModule
  BY <1>3, ModuleFoundKeeps, ModuleKeeps
<1>4. CASE Fails
  BY <1>4, RequireErrorKeeps DEF Fails
<1>5. CASE UNCHANGED requireVars
  BY <1>5 DEF requireVars, RequireIInv, RequireTypes, OuterAmongLoaders, RunningIsLoaded,
              SentinelMeansUnfinished, Truthy
<1> QED BY <1>1, <1>2, <1>3, <1>4, <1>5 DEF RequireNext

(* ll_require's sentinel does what it is for, however deeply requires, errors    *)
(* and protected calls are nested: no chunk runs inside itself, and the sentinel *)
(* stays only for a chunk that runs or was left by an error.                     *)
THEOREM SentinelWorks == RequireSpec => []LoadedOnce
<1>1. RequireIInv => LoadedOnce
  <2> SUFFICES ASSUME RequireIInv,
                      NEW i \in 1..Len(qcalls), NEW j \in 1..Len(qcalls), i # j,
                      qcalls[i].name = qcalls[j].name
               PROVE  "loaders" \in {qcalls[i].phase, qcalls[j].phase}
    BY DEF LoadedOnce, ChunkNotNested, RequireIInv
  <2>1. i < j \/ j < i
    BY DEF RequireIInv, RequireTypes
  <2> QED BY <2>1 DEF RequireIInv, OuterAmongLoaders
<1> QED BY <1>1, RequireInitial, RequireStep, PTL DEF RequireSpec

---------------------------------------------------------------------------
(* The Lua stack, for any number of blocks, calls and upvalues.  All pointers   *)
(* of the state are into the present block.  Of the C functions in progress     *)
(* those that wait for a call keep a distance, and only the innermost one keeps *)
(* a pointer that it will use; frames and C functions take turns, so that what  *)
(* a return or an error goes back to is there.                                  *)

Places == {"execute", "callTMres", "result", "precall", "enter", "callhook"}
Works == [at : Places, kept : Nat]

Ordered(w) ==
  /\ w \in Seq(Works) /\ w # <<>>
  /\ \A i \in 1..Len(w) : /\ w[i].at = "result" => i % 2 = 0 /\ w[i].kept = Distance
                          /\ i < Len(w) /\ i % 2 = 0 => w[i].at = "result"

(* c CallInfos, and how many C functions with the innermost at the place at.    *)
Deep(at, n, c) ==
  /\ at \in {"execute", "callhook"} => n = 2 * c - 1
  /\ at \in {"callTMres", "result"} => n = 2 * c
  /\ at \in {"precall", "enter"} => n = 2 * c + 1

Blocks(block, top, base, ci, open) ==
  /\ block \in Nat /\ top = block /\ base = block
  /\ ci \in Seq(Nat) /\ ci # <<>> /\ \A k \in 1..Len(ci) : ci[k] = block
  /\ open \in [StackUpvals -> {0, block}]

WorkOK(w, n, block) ==
  /\ Ordered(w) /\ Deep(w[Len(w)].at, Len(w), n)
  /\ w[Len(w)].at \in {"execute", "precall"} => w[Len(w)].kept = block

StackIInv == /\ Blocks(mblock, mtop, mbase, mci, mopen)
             /\ WorkOK(mwork, Len(mci), mblock)
             /\ ~ mstale

LEMMA StackInitial == StackInit => StackIInv
<1> SUFFICES ASSUME StackInit PROVE StackIInv
  OBVIOUS
<1>1. Blocks(mblock, mtop, mbase, mci, mopen) /\ Len(mci) = 1 /\ ~ mstale
  BY DEF StackInit, Blocks
<1>2. PICK r, w : r = [at |-> "execute", kept |-> 1] /\ w = mwork
  OBVIOUS
<1>3. r \in Works /\ r.at = "execute" /\ r.kept = 1 /\ w = <<r>> /\ mblock = 1
  BY <1>2 DEF StackInit, Works, Places
<1>4. w \in Seq(Works) /\ w # <<>> /\ Len(w) = 1 /\ w[1] = r
  BY <1>3
<1>5. WorkOK(w, 1, 1)
  BY <1>3, <1>4 DEF WorkOK, Ordered, Deep
<1> QED BY <1>1, <1>2, <1>3, <1>5 DEF StackIInv

LEMMA WorkReplaced ==
  ASSUME NEW w, Ordered(w), NEW r \in Works, r.at = "result" => Len(w) % 2 = 0 /\ r.kept = Distance,
         NEW t, t = [w EXCEPT ![Len(w)] = r]
  PROVE  Ordered(t) /\ Len(t) = Len(w) /\ t[Len(w)] = r
<1>1. PICK n : n = Len(w)
  OBVIOUS
<1>2. w \in Seq(Works) /\ n \in Nat \ {0}
  BY <1>1, EmptySeq DEF Ordered
<1>3. t \in Seq(Works) /\ Len(t) = n /\ t[n] = r /\ (\A i \in 1..n : i # n => t[i] = w[i]) /\ t # <<>>
  BY <1>1, <1>2
<1>4. \A i \in 1..n : /\ w[i].at = "result" => i % 2 = 0 /\ w[i].kept = Distance
                      /\ i < n /\ i % 2 = 0 => w[i].at = "result"
  BY <1>1 DEF Ordered
<1>5. \A i \in 1..n : i < n => i # n
  BY <1>2
<1> QED BY <1>1, <1>3, <1>4, <1>5 DEF Ordered

LEMMA WorkPushed ==
  ASSUME NEW w, Ordered(w), NEW r \in Works, Len(w) % 2 = 0 => w[Len(w)].at = "result", r.at # "result",
         NEW t, t = Append(w, r)
  PROVE  Ordered(t) /\ Len(t) = Len(w) + 1 /\ t[Len(w) + 1] = r
<1>1. PICK n : n = Len(w)
  OBVIOUS
<1>2. w \in Seq(Works) /\ n \in Nat \ {0}
  BY <1>1, EmptySeq DEF Ordered
<1>3. t \in Seq(Works) /\ Len(t) = n + 1 /\ t[n + 1] = r /\ (\A i \in 1..n : t[i] = w[i]) /\ t # <<>>
  BY <1>1, <1>2
<1>4. \A i \in 1..n : /\ w[i].at = "result" => i % 2 = 0 /\ w[i].kept = Distance
                      /\ i < n /\ i % 2 = 0 => w[i].at = "result"
  BY <1>1 DEF Ordered
<1>5. \A i \in 1..(n + 1) : i = n + 1 \/ (i \in 1..n /\ (i = n \/ i < n))
  BY <1>2
<1>6. \A i \in 1..(n + 1) : i < n + 1 => i \in 1..n /\ (i = n \/ i < n)
  BY <1>2
<1> QED BY <1>1, <1>3, <1>4, <1>5, <1>6 DEF Ordered

LEMMA WorkCut ==
  ASSUME NEW w, Ordered(w), NEW m \in 1..Len(w), NEW t, t = SubSeq(w, 1, m)
  PROVE  Ordered(t) /\ Len(t) = m /\ \A i \in 1..m : t[i] = w[i]
<1>1. PICK n : n = Len(w)
  OBVIOUS
<1>2. w \in Seq(Works) /\ n \in Nat \ {0} /\ m \in 1..n
  BY <1>1, EmptySeq DEF Ordered
<1>3. t \in Seq(Works) /\ Len(t) = m /\ (\A i \in 1..m : t[i] = w[i]) /\ t # <<>>
  BY <1>1, <1>2
<1>4. \A i \in 1..n : /\ w[i].at = "result" => i % 2 = 0 /\ w[i].kept = Distance
                      /\ i < n /\ i % 2 = 0 => w[i].at = "result"
  BY <1>1 DEF Ordered
<1>5. \A i \in 1..m : i \in 1..n /\ (i < m => i < n)
  BY <1>2
<1> QED BY <1>3, <1>4, <1>5 DEF Ordered

(* luaD_reallocstack and correctstack leave no pointer into the old block.      *)
LEMMA CheckKeeps ==
  ASSUME Blocks(mblock, mtop, mbase, mci, mopen), Check
  PROVE  Blocks(mblock', mtop', mbase', mci', mopen') /\ Len(mci') = Len(mci) /\ Len(mci) \in Nat \ {0}
<1>1. Len(mci) \in Nat \ {0}
  BY EmptySeq DEF Blocks
<1>2. CASE Stays
  BY <1>1, <1>2 DEF Stays, Blocks
<1>3. CASE Realloc
  <2>1. PICK n, b : n = Len(mci) /\ b = mblock'
    OBVIOUS
  <2>2. b \in Nat /\ mtop' = b /\ mbase' = b
    BY <1>3, <2>1 DEF Realloc, Blocks
  <2>3. mci' = [k \in 1..n |-> b]
    BY <1>3, <2>1 DEF Realloc
  <2>4. mci' \in Seq(Nat) /\ mci' # <<>> /\ Len(mci') = n /\ \A k \in 1..n : mci'[k] = b
    BY <1>1, <2>1, <2>2, <2>3
  <2>5. mopen' \in [StackUpvals -> {0, b}]
    BY <1>3, <2>1 DEF Realloc
  <2> QED BY <1>1, <2>1, <2>2, <2>4, <2>5 DEF Blocks
<1> QED BY <1>2, <1>3 DEF Check

LEMMA WorkFacts ==
  ASSUME StackIInv
  PROVE  /\ Ordered(mwork) /\ Len(mwork) \in Nat \ {0} /\ Doing = mwork[Len(mwork)] /\ Doing \in Works
         /\ Deep(Doing.at, Len(mwork), Len(mci)) /\ Len(mci) \in Nat \ {0} /\ Len(mci) \in 1..Len(mci)
         /\ Doing.at \in {"execute", "precall"} => Doing.kept = mblock
         /\ mblock \in Nat /\ mtop = mblock /\ mbase = mblock /\ mci[Len(mci)] = mblock
<1>1. Ordered(mwork) /\ mci \in Seq(Nat) /\ mci # <<>> /\ mwork \in Seq(Works) /\ mwork # <<>>
  BY DEF StackIInv, WorkOK, Blocks, Ordered
<1>2. Len(mwork) \in Nat \ {0} /\ Len(mci) \in Nat \ {0}
  BY <1>1, EmptySeq
<1>3. mwork[Len(mwork)] \in Works
  BY <1>1, <1>2, ElementOfSeq
<1> QED BY <1>1, <1>2, <1>3 DEF StackIInv, WorkOK, Blocks, Doing

(* The step changes at most the innermost C function, and the block perhaps.    *)
LEMMA WorkContinues ==
  ASSUME StackIInv, NEW at \in Places, NEW kept \in Nat, Continues(at, kept), at # "result", ~ mstale',
         Blocks(mblock', mtop', mbase', mci', mopen'), Deep(at, Len(mwork), Len(mci')),
         at \in {"execute", "precall"} => kept = mblock'
  PROVE  StackIInv'
<1>1. Ordered(mwork)
  BY WorkFacts
<1>2. PICK r : r = [at |-> at, kept |-> kept]
  OBVIOUS
<1>3. r \in Works /\ r.at = at /\ r.kept = kept
  BY <1>2 DEF Works
<1>4. mwork' = [mwork EXCEPT ![Len(mwork)] = r]
  BY <1>2 DEF Continues
<1>5. Ordered(mwork') /\ Len(mwork') = Len(mwork) /\ mwork'[Len(mwork)] = r
  BY <1>1, <1>3, <1>4, WorkReplaced
<1>6. WorkOK(mwork', Len(mci'), mblock')
  BY <1>3, <1>5 DEF WorkOK
<1> QED BY <1>6 DEF StackIInv

LEMMA WorkSame ==
  ASSUME StackIInv, UNCHANGED <<mblock, mtop, mbase, mci, mwork>>,
         mopen' \in [StackUpvals -> {0, mblock}], ~ mstale'
  PROVE  StackIInv'
BY DEF StackIInv, Blocks

LEMMA OpensKeepsStack == ASSUME StackIInv, NEW u \in StackUpvals, OpensUpval(u) \/ ReadsUpval(u) \/ ClosesUpval(u) PROVE StackIInv'
<1>1. mopen \in [StackUpvals -> {0, mblock}] /\ mbase = mblock /\ ~ mstale
  BY DEF StackIInv, Blocks
<1>2. CASE OpensUpval(u)
  BY <1>1, <1>2, WorkSame DEF OpensUpval, Uses
<1>3. CASE ReadsUpval(u)
  <2>1. mopen[u] = mblock
    BY <1>1, <1>3 DEF ReadsUpval
  <2> QED BY <1>1, <1>3, <2>1, WorkSame DEF ReadsUpval, Uses, Stays
<1>4. CASE ClosesUpval(u)
  <2>1. mopen[u] = mblock
    BY <1>1, <1>4 DEF ClosesUpval
  <2> QED BY <1>1, <1>4, <2>1, WorkSame DEF ClosesUpval, Uses
<1> QED BY <1>2, <1>3, <1>4

LEMMA ExecuteKeeps == ASSUME StackIInv, Execute \/ ExecuteChecks PROVE StackIInv'
<1>1. Blocks(mblock, mtop, mbase, mci, mopen) /\ ~ mstale
  BY DEF StackIInv
<1>2. Doing.at = "execute" /\ Doing.kept = mblock /\ Deep("execute", Len(mwork), Len(mci))
  BY WorkFacts DEF Execute, ExecuteChecks, At
<1>3. CASE Execute
  <2>1. ~ mstale' /\ UNCHANGED <<mblock, mtop, mbase, mci, mwork, mopen>>
    BY <1>1, <1>2, <1>3 DEF Execute, Uses, Stays
  <2> QED BY <1>1, <2>1, WorkSame DEF Blocks
<1>4. CASE ExecuteChecks
  <2>1. Blocks(mblock', mtop', mbase', mci', mopen') /\ Len(mci') = Len(mci)
    BY <1>1, <1>4, CheckKeeps DEF ExecuteChecks
  <2>2. PICK b : b = mbase'
    OBVIOUS
  <2>3. b \in Nat /\ b = mblock' /\ Continues("execute", b) /\ ~ mstale' /\ "execute" \in Places
    BY <1>1, <1>4, <2>1, <2>2 DEF ExecuteChecks, Blocks, Places
  <2> QED BY <1>2, <2>1, <2>3, WorkContinues
<1> QED BY <1>3, <1>4

LEMMA CallsMetamethodKeeps == ASSUME StackIInv, CallsMetamethod PROVE StackIInv'
<1>1. Blocks(mblock, mtop, mbase, mci, mopen) /\ ~ mstale
  BY DEF StackIInv
<1>2. /\ Ordered(mwork) /\ Len(mwork) \in Nat \ {0} /\ Len(mci) \in Nat \ {0} /\ mwork[Len(mwork)].at = "execute"
      /\ Deep("execute", Len(mwork), Len(mci)) /\ Doing.kept \in Nat
  BY WorkFacts DEF CallsMetamethod, At, Works
<1>3. PICK r, n, c : r = [at |-> "callTMres", kept |-> Doing.kept] /\ n = Len(mwork) /\ c = Len(mci)
  OBVIOUS
<1>4. r \in Works /\ r.at = "callTMres"
  BY <1>2, <1>3 DEF Works, Places
<1>5. mwork' = Append(mwork, r) /\ ~ mstale' /\ UNCHANGED <<mblock, mtop, mbase, mci, mopen>>
  BY <1>1, <1>3 DEF CallsMetamethod, Calling, Stays
<1>6. n = 2 * c - 1 /\ n \in Nat /\ c \in Nat
  BY <1>2, <1>3 DEF Deep
<1>7. n % 2 # 0
  BY <1>6
<1>8. Ordered(mwork') /\ Len(mwork') = n + 1 /\ mwork'[n + 1] = r
  <2>1. PICK v, t : v = mwork /\ t = mwork'
    OBVIOUS
  <2>2. /\ Ordered(v) /\ r \in Works /\ (Len(v) % 2 = 0 => v[Len(v)].at = "result")
        /\ r.at # "result" /\ t = Append(v, r)
    BY <1>2, <1>3, <1>4, <1>5, <1>7, <2>1
  <2>3. Ordered(t) /\ Len(t) = Len(v) + 1 /\ t[Len(v) + 1] = r
    BY ONLY <2>2, WorkPushed
  <2> QED BY ONLY <1>3, <2>1, <2>3
<1>9. Deep("callTMres", n + 1, c)
  BY <1>6 DEF Deep
<1>10. WorkOK(mwork', Len(mci'), mblock')
  BY <1>3, <1>4, <1>5, <1>8, <1>9 DEF WorkOK
<1> QED BY <1>1, <1>5, <1>10 DEF StackIInv

LEMMA callTMresKeepsStack == ASSUME StackIInv, callTMres PROVE StackIInv'
<1>1. Blocks(mblock, mtop, mbase, mci, mopen) /\ ~ mstale /\ Doing.at = "callTMres"
  BY DEF StackIInv, callTMres, At
<1>2. Blocks(mblock', mtop', mbase', mci', mopen') /\ Len(mci') = Len(mci)
  BY <1>1, CheckKeeps DEF callTMres
<1>3. /\ Ordered(mwork) /\ Len(mwork) \in Nat \ {0} /\ Len(mci) \in Nat \ {0}
      /\ Deep("callTMres", Len(mwork), Len(mci)) /\ mtop = mblock
  BY <1>1, WorkFacts
<1>4. PICK n, c, q : n = Len(mwork) /\ c = Len(mci) /\ q = [at |-> "result", kept |-> Distance]
  OBVIOUS
<1>5. PICK r : r = [at |-> "precall", kept |-> mtop']
  OBVIOUS
<1>6. q \in Works /\ q.at = "result" /\ q.kept = Distance
  BY <1>4 DEF Works, Places, Distance
<1>7. r \in Works /\ r.at = "precall" /\ r.kept = mblock'
  BY <1>2, <1>5 DEF Works, Places, Blocks
<1>8. PICK w : w = [mwork EXCEPT ![Len(mwork)] = q]
  OBVIOUS
<1>9. mwork' = Append(w, r) /\ ~ mstale'
  BY <1>1, <1>3, <1>4, <1>5, <1>8 DEF callTMres, Uses
<1>10. n = 2 * c /\ n \in Nat /\ c \in Nat
  BY <1>3, <1>4 DEF Deep
<1>11. n % 2 = 0
  BY <1>10
<1>12. Ordered(w) /\ Len(w) = n /\ w[n] = q
  <2>1. PICK v : v = mwork
    OBVIOUS
  <2>2. Ordered(v) /\ q \in Works /\ (q.at = "result" => Len(v) % 2 = 0 /\ q.kept = Distance) /\ w = [v EXCEPT ![Len(v)] = q]
    BY <1>3, <1>4, <1>6, <1>8, <1>11, <2>1
  <2>3. Ordered(w) /\ Len(w) = Len(v) /\ w[Len(v)] = q
    BY ONLY <2>2, WorkReplaced
  <2> QED BY ONLY <1>4, <2>1, <2>3
<1>13. Ordered(mwork') /\ Len(mwork') = n + 1 /\ mwork'[n + 1] = r
  <2>1. PICK t : t = mwork'
    OBVIOUS
  <2>2. /\ Ordered(w) /\ r \in Works /\ (Len(w) % 2 = 0 => w[Len(w)].at = "result")
        /\ r.at # "result" /\ t = Append(w, r)
    BY <1>6, <1>7, <1>9, <1>12, <2>1
  <2>3. Ordered(t) /\ Len(t) = Len(w) + 1 /\ t[Len(w) + 1] = r
    BY ONLY <2>2, WorkPushed
  <2> QED BY ONLY <1>12, <2>1, <2>3
<1>14. Deep("precall", n + 1, c)
  BY <1>10 DEF Deep
<1>15. WorkOK(mwork', Len(mci'), mblock')
  BY <1>2, <1>4, <1>7, <1>13, <1>14 DEF WorkOK
<1> QED BY <1>2, <1>9, <1>15 DEF StackIInv

LEMMA PrecallKeeps == ASSUME StackIInv, luaD_precall PROVE StackIInv'
<1>1. Blocks(mblock, mtop, mbase, mci, mopen) /\ ~ mstale /\ Doing.at = "precall"
  BY DEF StackIInv, luaD_precall, At
<1>2. Blocks(mblock', mtop', mbase', mci', mopen') /\ Len(mci') = Len(mci)
  BY <1>1, CheckKeeps DEF luaD_precall
<1>3. Doing.kept = mblock /\ Deep("precall", Len(mwork), Len(mci))
  BY <1>1, WorkFacts
<1>4. ~ mstale' /\ Continues("enter", Distance)
  BY <1>1, <1>3 DEF luaD_precall, Uses
<1>5. "enter" \in Places /\ Distance \in Nat /\ Deep("enter", Len(mwork), Len(mci'))
  BY <1>2, <1>3 DEF Places, Distance, Deep
<1> QED BY <1>2, <1>4, <1>5, WorkContinues

LEMMA PrecallEntersKeeps == ASSUME StackIInv, luaD_precallEnters PROVE StackIInv'
<1>1. Blocks(mblock, mtop, mbase, mci, mopen) /\ ~ mstale /\ Doing.at = "enter"
  BY DEF StackIInv, luaD_precallEnters, At
<1>2. PICK n, c, b : n = Len(mwork) /\ c = Len(mci) /\ b = mblock
  OBVIOUS
<1>3. Deep("enter", n, c) /\ n \in Nat /\ c \in Nat /\ b \in Nat
  BY <1>1, <1>2, WorkFacts
<1>4. n = 2 * c + 1
  BY <1>3 DEF Deep
<1>5. mci' = Append(mci, b) /\ mbase' = b /\ mblock' = b /\ mtop' = mtop /\ mopen' = mopen /\ ~ mstale'
  BY <1>1, <1>2 DEF luaD_precallEnters, Uses
<1>6. mci' \in Seq(Nat) /\ mci' # <<>> /\ Len(mci') = c + 1 /\ \A k \in 1..(c + 1) : mci'[k] = b
  <2>1. mci \in Seq(Nat) /\ \A k \in 1..c : mci[k] = b
    BY <1>1, <1>2 DEF Blocks
  <2> QED BY <1>2, <1>3, <1>5, <2>1
<1>7. Blocks(mblock', mtop', mbase', mci', mopen')
  BY <1>1, <1>2, <1>5, <1>6 DEF Blocks
<1>8. Deep("callhook", n, c + 1) /\ Deep("execute", n, c + 1)
  BY <1>3, <1>4 DEF Deep
<1>9. "callhook" \in Places /\ "execute" \in Places /\ Distance \in Nat
  BY DEF Places, Distance
<1>10. Continues("callhook", Distance) \/ Continues("execute", b)
  BY <1>2 DEF luaD_precallEnters
<1> QED BY <1>2, <1>3, <1>5, <1>6, <1>7, <1>8, <1>9, <1>10, WorkContinues

LEMMA CallhookKeeps == ASSUME StackIInv, luaD_callhook_ PROVE StackIInv'
<1>1. Blocks(mblock, mtop, mbase, mci, mopen) /\ ~ mstale /\ Doing.at = "callhook"
  BY DEF StackIInv, luaD_callhook_, At
<1>2. Blocks(mblock', mtop', mbase', mci', mopen') /\ Len(mci') = Len(mci)
  BY <1>1, CheckKeeps DEF luaD_callhook_
<1>3. Deep("callhook", Len(mwork), Len(mci)) /\ mtop = mblock
  BY <1>1, WorkFacts
<1>4. PICK b : b = mbase'
  OBVIOUS
<1>5. ~ mstale' /\ Continues("execute", b) /\ b \in Nat /\ b = mblock'
  BY <1>1, <1>2, <1>3, <1>4 DEF luaD_callhook_, Uses, Blocks
<1>6. "execute" \in Places /\ Deep("execute", Len(mwork), Len(mci'))
  BY <1>2, <1>3 DEF Places, Deep
<1> QED BY <1>2, <1>5, <1>6, WorkContinues

(* The first m CallInfos.                                                       *)
LEMMA BlocksCut ==
  ASSUME Blocks(mblock, mtop, mbase, mci, mopen), NEW m \in 1..Len(mci), NEW ci, ci = SubSeq(mci, 1, m)
  PROVE  Blocks(mblock, mtop, mci[m], ci, mopen) /\ Len(ci) = m /\ mci[m] = mblock
<1>1. PICK n : n = Len(mci)
  OBVIOUS
<1>2. mci \in Seq(Nat) /\ n \in Nat /\ m \in 1..n /\ \A k \in 1..n : mci[k] = mblock
  BY <1>1 DEF Blocks
<1>3. ci \in Seq(Nat) /\ Len(ci) = m /\ ci # <<>> /\ \A k \in 1..m : ci[k] = mci[k]
  BY <1>1, <1>2
<1>4. \A k \in 1..m : k \in 1..n
  BY <1>2
<1> QED BY <1>2, <1>3, <1>4 DEF Blocks

LEMMA PoscallKeeps == ASSUME StackIInv, luaD_poscall PROVE StackIInv'
<1>1. Blocks(mblock, mtop, mbase, mci, mopen) /\ ~ mstale /\ Doing.at = "execute"
  BY DEF StackIInv, luaD_poscall, At
<1>2. PICK n, c, w : n = Len(mwork) /\ c = Len(mci) /\ w = mwork
  OBVIOUS
<1>3. Ordered(w) /\ Deep("execute", n, c) /\ n \in Nat /\ c \in Nat /\ mci[c] = mblock /\ n > 1
  BY <1>1, <1>2, WorkFacts DEF luaD_poscall
<1>4. PICK m : m = c - 1
  OBVIOUS
<1>5. n = 2 * c - 1 /\ c > 1 /\ m \in 1..c /\ n - 1 = 2 * m /\ n - 1 \in 1..n /\ n - 1 < n
  BY <1>3, <1>4 DEF Deep
<1>6. (n - 1) % 2 = 0
  BY <1>3, <1>4, <1>5
<1>7. /\ mci' = SubSeq(mci, 1, m) /\ mbase' = mci[m] /\ ~ mstale' /\ mwork' = SubSeq(w, 1, n - 1)
      /\ UNCHANGED <<mblock, mtop, mopen>>
  BY <1>1, <1>2, <1>3, <1>4 DEF luaD_poscall, Uses, Leaving
<1>8. Blocks(mblock', mtop', mbase', mci', mopen') /\ Len(mci') = m
  BY <1>1, <1>2, <1>5, <1>7, BlocksCut
<1>9. Ordered(mwork') /\ Len(mwork') = n - 1 /\ mwork'[n - 1].at = "result"
  <2>1. w[n - 1].at = "result"
    BY <1>2, <1>3, <1>5, <1>6 DEF Ordered
  <2>2. PICK l : l = n - 1
    OBVIOUS
  <2>3. l \in 1..Len(w) /\ mwork' = SubSeq(w, 1, l)
    BY <1>2, <1>5, <1>7, <2>2
  <2>4. Ordered(mwork') /\ Len(mwork') = l /\ \A i \in 1..l : mwork'[i] = w[i]
    BY <1>3, <2>3, WorkCut
  <2> QED BY <2>1, <2>2, <2>3, <2>4
<1>10. Deep("result", n - 1, m)
  BY <1>5 DEF Deep
<1>11. WorkOK(mwork', Len(mci'), mblock')
  BY <1>8, <1>9, <1>10 DEF WorkOK
<1> QED BY <1>7, <1>8, <1>11 DEF StackIInv

(* The innermost C functions are left, and luaV_execute goes on.                *)
LEMMA ExecuteAgain ==
  ASSUME NEW w, Ordered(w), NEW l \in 1..Len(w), NEW b \in Nat, NEW c \in Nat, l = 2 * c - 1,
         NEW t, t = [SubSeq(w, 1, l) EXCEPT ![l] = [at |-> "execute", kept |-> b]]
  PROVE  WorkOK(t, c, b)
<1>1. PICK r, v : r = [at |-> "execute", kept |-> b] /\ v = SubSeq(w, 1, l)
  OBVIOUS
<1>2. r \in Works /\ r.at = "execute" /\ r.kept = b
  BY <1>1 DEF Works, Places
<1>3. Ordered(v) /\ Len(v) = l
  <2>1. Ordered(w) /\ l \in 1..Len(w) /\ v = SubSeq(w, 1, l)
    BY <1>1
  <2> QED BY ONLY <2>1, WorkCut
<1>4. t = [v EXCEPT ![Len(v)] = r]
  BY <1>1, <1>3
<1>5. Ordered(t) /\ Len(t) = l /\ t[l] = r
  BY <1>2, <1>3, <1>4, WorkReplaced
<1> QED BY <1>2, <1>5 DEF WorkOK, Deep

LEMMA StoresResultKeeps == ASSUME StackIInv, StoresResult PROVE StackIInv'
<1>1. Blocks(mblock, mtop, mbase, mci, mopen) /\ ~ mstale /\ Doing.at = "result"
  BY DEF StackIInv, StoresResult, At
<1>2. PICK n, c, w : n = Len(mwork) /\ c = Len(mci) /\ w = mwork
  OBVIOUS
<1>3. Ordered(w) /\ Deep("result", n, c) /\ n \in Nat \ {0} /\ c \in Nat \ {0} /\ mbase = mblock /\ mblock \in Nat
      /\ Doing = w[n]
  BY <1>1, <1>2, WorkFacts
<1>4. PICK l : l = n - 1
  OBVIOUS
<1>5. n = 2 * c /\ l \in 1..n /\ l = 2 * c - 1 /\ n \in 1..n
  BY <1>3, <1>4 DEF Deep
<1>6. Doing.kept = Distance
  BY <1>1, <1>2, <1>3, <1>5 DEF Ordered
<1>7. ~ mstale' /\ UNCHANGED <<mblock, mtop, mbase, mci, mopen>>
  BY <1>1, <1>6 DEF StoresResult, Uses, Restored, Stays
<1>8. mwork' = [SubSeq(w, 1, l) EXCEPT ![l] = [at |-> "execute", kept |-> mblock]]
  <2>1. Leaving = SubSeq(w, 1, l) /\ Len(Leaving) = l
    BY <1>2, <1>3, <1>4, <1>5, WorkCut DEF Leaving
  <2> QED BY <1>3, <2>1 DEF StoresResult
<1>9. WorkOK(mwork', c, mblock)
  BY <1>2, <1>3, <1>5, <1>8, ExecuteAgain
<1> QED BY <1>1, <1>2, <1>7, <1>9 DEF StackIInv

LEMMA UnwindsKeeps == ASSUME StackIInv, Unwinds PROVE StackIInv'
<1>1. Blocks(mblock, mtop, mbase, mci, mopen) /\ ~ mstale /\ Doing.at = "execute"
  BY DEF StackIInv, Unwinds, At
<1>2. PICK n, c, w : n = Len(mwork) /\ c = Len(mci) /\ w = mwork
  OBVIOUS
<1>3. Ordered(w) /\ Deep("execute", n, c) /\ n \in Nat \ {0} /\ c \in Nat \ {0} /\ mblock \in Nat
  BY <1>1, <1>2, WorkFacts
<1>4. PICK k \in 1..(n - 1) :
        /\ w[k].at = "result"
        /\ mwork' = [SubSeq(w, 1, k - 1) EXCEPT ![k - 1] = [at |-> "execute", kept |-> mci[k \div 2]]]
        /\ mci' = SubSeq(mci, 1, k \div 2)
        /\ mbase' = mci[k \div 2] /\ Uses(mci[k \div 2])
        /\ UNCHANGED <<mblock, mtop, mopen>>
  BY <1>2 DEF Unwinds
<1>5. PICK m, l : m = k \div 2 /\ l = k - 1
  OBVIOUS
<1>6. k \in 1..n /\ k % 2 = 0
  <2>1. k \in 1..n
    BY ONLY <1>3, <1>4
  <2>2. \A i \in 1..Len(w) : w[i].at = "result" => i % 2 = 0 /\ w[i].kept = Distance
    BY ONLY <1>3 DEF Ordered
  <2>3. n = Len(w) /\ w[k].at = "result"
    BY ONLY <1>2, <1>4
  <2> QED BY ONLY <2>1, <2>2, <2>3
<1>7. n = 2 * c - 1
  BY <1>3 DEF Deep
<1>8. m \in 1..c /\ l \in 1..n /\ l = 2 * m - 1 /\ m \in Nat
  <2>1. k \in Nat /\ k >= 1 /\ k <= n - 1 /\ n \in Nat /\ c \in Nat
    BY <1>3, <1>4
  <2>2. m \in Nat /\ k = 2 * m
    BY ONLY <1>5, <1>6, <2>1
  <2> QED BY ONLY <1>5, <1>7, <2>1, <2>2
<1>9. Blocks(mblock', mtop', mbase', mci', mopen') /\ Len(mci') = m /\ mci[m] = mblock
  BY <1>1, <1>2, <1>4, <1>5, <1>8, BlocksCut
<1>10. ~ mstale'
  BY <1>1, <1>4, <1>5, <1>9 DEF Uses
<1>11. mwork' = [SubSeq(w, 1, l) EXCEPT ![l] = [at |-> "execute", kept |-> mblock]]
  BY <1>4, <1>5, <1>9
<1>12. WorkOK(mwork', m, mblock)
  BY <1>2, <1>3, <1>8, <1>11, ExecuteAgain
<1> QED BY <1>4, <1>9, <1>10, <1>12 DEF StackIInv

(* However often the stack moves, no step reads or writes through a pointer     *)
(* into a block that it has left (luaD_reallocstack, savestack, Protect).       *)
THEOREM PointersFollow == StackSpec => []NoStalePointer
<1>1. StackInit => StackIInv
  BY StackInitial
<1>2. StackIInv /\ [StackNext]_stackVars => StackIInv'
  <2> SUFFICES ASSUME StackIInv, [StackNext]_stackVars PROVE StackIInv'
    OBVIOUS
  <2>1. CASE UNCHANGED stackVars
    BY <2>1 DEF stackVars, StackIInv
  <2>2. ASSUME NEW u \in StackUpvals, OpensUpval(u) \/ ReadsUpval(u) \/ ClosesUpval(u) PROVE StackIInv'
    BY <2>2, OpensKeepsStack
  <2>3. CASE Execute \/ ExecuteChecks \/ CallsMetamethod \/ callTMres
    BY <2>3, ExecuteKeeps, CallsMetamethodKeeps, callTMresKeepsStack
  <2>4. CASE luaD_precall \/ luaD_precallEnters \/ luaD_callhook_ \/ luaD_poscall
    BY <2>4, PrecallKeeps, PrecallEntersKeeps, CallhookKeeps, PoscallKeeps
  <2>5. CASE StoresResult \/ Unwinds
    BY <2>5, StoresResultKeeps, UnwindsKeeps
  <2> QED BY <2>1, <2>2, <2>3, <2>4, <2>5 DEF StackNext
<1>3. StackIInv => NoStalePointer
  BY DEF StackIInv, NoStalePointer
<1> QED BY <1>1, <1>2, <1>3, PTL DEF StackSpec

---------------------------------------------------------------------------
(* luaL_Buffer, for any size of the array, any LIMIT and any number of          *)
(* characters.  The stack holds a text in lvl pieces; pushing a piece makes it  *)
(* longer, and joining pieces, however many, leaves it as it is.                *)

Holding(stack, lvl, text) ==
  /\ stack \in Seq(Seq(Nat)) /\ lvl \in Nat /\ Len(stack) = lvl + 1
  /\ stack[1] = Below /\ FlattenSeq(Tail(stack)) = text

Counted(n) == [i \in 1..n |-> i]

BufferIInv == /\ bbuf \in Seq(Nat) /\ badded \in Nat
              /\ \E text \in Seq(Nat) : /\ Holding(bstack, blvl, text)
                                        /\ text \o bbuf = Counted(badded)
              /\ blvl < LIMIT

LEMMA BufferInitial == BufferInit => BufferIInv
<1> SUFFICES ASSUME BufferInit PROVE BufferIInv
  OBVIOUS
<1>1. bstack = <<Below>> /\ bbuf = <<>> /\ blvl = 0 /\ badded = 0
  BY DEF BufferInit
<1>2. Below \in Seq(Nat)
  BY DEF Below
<1>3. bstack \in Seq(Seq(Nat)) /\ Len(bstack) = 1 /\ bstack[1] = Below /\ Tail(bstack) = <<>>
  BY <1>1, <1>2
<1>4. Holding(bstack, blvl, <<>>)
  BY <1>1, <1>3, FlattenEmpty DEF Holding
<1>5. <<>> \in Seq(Nat) /\ <<>> \o bbuf = Counted(badded)
  BY <1>1 DEF Counted
<1>6. bbuf \in Seq(Nat) /\ badded \in Nat /\ blvl < LIMIT
  BY <1>1, BufferAssumption
<1>7. Holding(bstack, blvl, <<>>)
  BY <1>1, <1>4
<1> QED BY <1>5, <1>6, <1>7 DEF BufferIInv

(* The next characters.                                                         *)
LEMMA NextChars ==
  ASSUME badded \in Nat, NEW n \in Nat
  PROVE  Chars(n) \in Seq(Nat) /\ Counted(badded) \o Chars(n) = Counted(badded + n)
<1>1. PICK a, c : a = Counted(badded) /\ c = Chars(n)
  OBVIOUS
<1>2. c \in Seq(Nat) /\ Len(c) = n /\ \A i \in 1..n : c[i] = badded + i
  BY <1>1 DEF Chars
<1>3. a \in Seq(Nat) /\ Len(a) = badded /\ \A i \in 1..badded : a[i] = i
  BY <1>1 DEF Counted
<1>4. PICK b : b = Counted(badded + n)
  OBVIOUS
<1>5. b \in Seq(Nat) /\ Len(b) = badded + n /\ \A i \in 1..(badded + n) : b[i] = i
  BY <1>4 DEF Counted
<1>6. a \o c \in Seq(Nat) /\ Len(a \o c) = badded + n
  BY <1>2, <1>3
<1>7. ASSUME NEW i \in 1..(badded + n) PROVE (a \o c)[i] = b[i]
  BY <1>2, <1>3, <1>5
<1>8. a \o c = b
  BY <1>5, <1>6, <1>7, SeqEqual
<1> QED BY <1>1, <1>2, <1>4, <1>8

LEMMA Pushed ==
  ASSUME NEW stack, NEW lvl, NEW text \in Seq(Nat), Holding(stack, lvl, text), NEW s \in Seq(Nat)
  PROVE  Holding(Append(stack, s), lvl + 1, text \o s)
<1>1. stack \in Seq(Seq(Nat)) /\ Len(stack) = lvl + 1 /\ lvl \in Nat /\ stack[1] = Below
  BY DEF Holding
<1>2. PICK t : t = Tail(stack)
  OBVIOUS
<1>3. t \in Seq(Seq(Nat)) /\ Tail(Append(stack, s)) = Append(t, s)
  <2>1. stack # <<>>
    BY <1>1
  <2> QED BY <1>1, <1>2, <2>1, HeadTailProperties, HeadTailAppend
<1>4. FlattenSeq(Append(t, s)) = FlattenSeq(t) \o s /\ FlattenSeq(t) = text
  BY <1>2, <1>3, FlattenAppend DEF Holding
<1>5. Append(stack, s) \in Seq(Seq(Nat)) /\ Len(Append(stack, s)) = lvl + 2 /\ Append(stack, s)[1] = Below
  BY <1>1
<1>6. lvl + 1 \in Nat /\ lvl + 2 = lvl + 1 + 1
  BY <1>1
<1> QED BY <1>3, <1>4, <1>5, <1>6 DEF Holding

LEMMA EmptiedHolding ==
  ASSUME NEW text \in Seq(Nat), Holding(bstack, blvl, text), bbuf \in Seq(Nat)
  PROVE  Holding(Emptied(bstack), EmptiedLevel, text \o bbuf)
<1>1. CASE bbuf = <<>>
  BY <1>1, ConcatEmptySeq DEF Emptied, EmptiedLevel
<1>2. CASE bbuf # <<>>
  BY <1>2, Pushed DEF Emptied, EmptiedLevel
<1> QED BY <1>1, <1>2

(* The n topmost pieces in one.                                                 *)
LEMMA JoinedHolding ==
  ASSUME NEW stack, NEW lvl, NEW text, Holding(stack, lvl, text), NEW n \in 0..lvl
  PROVE  Holding(Joined(stack, n), lvl - n + 1, text)
<1>1. stack \in Seq(Seq(Nat)) /\ Len(stack) = lvl + 1 /\ lvl \in Nat /\ stack[1] = Below /\ n \in Nat /\ n <= lvl
  BY DEF Holding
<1>2. PICK p, k : p = Tail(stack) /\ k = lvl - n
  OBVIOUS
<1>3. p \in Seq(Seq(Nat)) /\ Len(p) = lvl /\ (\A i \in 1..lvl : p[i] = stack[i + 1]) /\ FlattenSeq(p) = text
  BY <1>1, <1>2, HeadTailProperties DEF Holding
<1>4. k \in Nat /\ k <= lvl /\ Len(stack) - n = k + 1
  BY <1>1, <1>2
<1>5. PICK a, b : a = SubSeq(p, 1, k) /\ b = SubSeq(p, k + 1, lvl)
  OBVIOUS
<1>6. a \in Seq(Seq(Nat)) /\ Len(a) = k /\ \A i \in 1..k : a[i] = p[i]
  <2>1. \A i \in 1..k : p[i] \in Seq(Nat) /\ 1 + i - 1 = i
    BY <1>3, <1>4, ElementOfSeq
  <2>2. 1 \in Int /\ k \in Int /\ k - 1 + 1 = k /\ (~ (1 <= k) => k = 0)
    BY <1>4
  <2> QED BY <1>5, <2>1, <2>2, SubSeqProperties
<1>7. b \in Seq(Seq(Nat)) /\ Len(b) = n /\ \A i \in 1..n : b[i] = p[k + i]
  <2>1. \A i \in (k + 1)..lvl : p[i] \in Seq(Nat)
    BY <1>3, <1>4, ElementOfSeq
  <2>2. k + 1 \in Int /\ lvl \in Int /\ lvl - (k + 1) + 1 = n /\ (~ (k + 1 <= lvl) => n = 0)
    BY <1>1, <1>2, <1>4
  <2>3. \A i \in 1..n : k + 1 + i - 1 = k + i
    BY <1>1, <1>4
  <2>4. b \in Seq(Seq(Nat)) /\ Len(b) = n /\ \A i \in 1..n : b[i] = p[k + 1 + i - 1]
    BY <1>5, <2>1, <2>2, SubSeqProperties
  <2> QED BY <2>3, <2>4
<1>8. a \o b = p
  <2>1. 1 \in 1..Len(p) + 1 /\ k \in 1 - 1 .. Len(p) /\ Len(p) \in k .. Len(p)
    BY <1>1, <1>3, <1>4
  <2>2. SubSeq(p, 1, k) \o SubSeq(p, k + 1, Len(p)) = SubSeq(p, 1, Len(p))
    BY <1>3, <2>1, ConcatAdjacentSubSeq
  <2>3. SubSeq(p, 1, Len(p)) = p
    BY <1>3, SubSeqFull
  <2> QED BY <1>3, <1>5, <2>2, <2>3
<1>9. SubSeq(stack, k + 2, Len(stack)) = b
  <2>1. PICK l, m, c : l = k + 2 /\ m = lvl + 1 /\ c = SubSeq(stack, l, m)
    OBVIOUS
  <2>2. \A i \in l..m : stack[i] \in Seq(Nat)
    BY <1>1, <1>4, <2>1, ElementOfSeq
  <2>3. l \in Int /\ m \in Int /\ m - l + 1 = n /\ (~ (l <= m) => n = 0)
    BY <1>1, <1>2, <1>4, <2>1
  <2>4. c \in Seq(Seq(Nat)) /\ Len(c) = n /\ \A i \in 1..n : c[i] = stack[k + 2 + i - 1]
    <3>1. /\ SubSeq(stack, l, m) \in Seq(Seq(Nat)) /\ Len(SubSeq(stack, l, m)) = (IF l <= m THEN m - l + 1 ELSE 0)
          /\ \A i \in 1..(m - l + 1) : SubSeq(stack, l, m)[i] = stack[l + i - 1]
      BY ONLY <2>2, <2>3, SubSeqProperties
    <3>2. Len(c) = n /\ \A i \in 1..n : c[i] = stack[l + i - 1]
      BY ONLY <2>1, <2>3, <3>1
    <3> QED BY <2>1, <3>1, <3>2
  <2>5. ASSUME NEW i \in 1..n PROVE c[i] = b[i]
    <3>1. k + i \in 1..lvl /\ k + i + 1 = k + 2 + i - 1
      BY <1>1, <1>2, <1>4
    <3> QED BY <1>3, <1>7, <2>4, <3>1
  <2>6. c = b
    BY <1>7, <2>4, <2>5, SeqEqual
  <2> QED BY <1>1, <2>1, <2>6
<1>10. PICK d, f : d = SubSeq(stack, 1, k + 1) /\ f = FlattenSeq(b)
  OBVIOUS
<1>11. d \in Seq(Seq(Nat)) /\ Len(d) = k + 1 /\ \A i \in 1..(k + 1) : d[i] = stack[i]
  <2>1. \A i \in 1..(k + 1) : stack[i] \in Seq(Nat) /\ 1 + i - 1 = i
    BY <1>1, <1>4, ElementOfSeq
  <2>2. 1 \in Int /\ k + 1 \in Int /\ k + 1 - 1 + 1 = k + 1 /\ 1 <= k + 1
    BY <1>4
  <2> QED BY <1>10, <2>1, <2>2, SubSeqProperties
<1>12. d # <<>> /\ Tail(d) = a /\ d[1] = Below
  <2>1. d # <<>> /\ 1 \in 1..(k + 1)
    BY <1>4, <1>11
  <2>2. Tail(d) \in Seq(Seq(Nat)) /\ Len(Tail(d)) = k /\ \A i \in 1..k : Tail(d)[i] = d[i + 1]
    BY <1>4, <1>11, <2>1, HeadTailProperties
  <2>3. ASSUME NEW i \in 1..k PROVE Tail(d)[i] = a[i]
    <3>1. i + 1 \in 1..(k + 1) /\ i \in 1..lvl
      BY <1>1, <1>4
    <3> QED BY <1>3, <1>6, <1>11, <2>2, <3>1
  <2>4. Tail(d) = a
    BY <1>6, <2>2, <2>3, SeqEqual
  <2> QED BY <1>1, <1>11, <2>1, <2>4
<1>13. f \in Seq(Nat)
  BY <1>7, <1>10, FlattenType
<1>14. Joined(stack, n) = Append(d, f)
  <2>1. Joined(stack, n) = Append(SubSeq(stack, 1, Len(stack) - n),
                                  FlattenSeq(SubSeq(stack, Len(stack) - n + 1, Len(stack))))
    BY DEF Joined
  <2>2. Len(stack) - n + 1 = k + 2
    BY <1>1, <1>4
  <2> QED BY <1>4, <1>9, <1>10, <2>1, <2>2
<1>15. PICK j : j = Append(d, f)
  OBVIOUS
<1>16. j \in Seq(Seq(Nat)) /\ Len(j) = k + 2 /\ j[1] = Below /\ Tail(j) = Append(a, f)
  <2>1. Tail(j) = Append(a, f)
    BY <1>11, <1>12, <1>15, HeadTailAppend
  <2>2. 1 \in 1..Len(d)
    BY <1>4, <1>11
  <2> QED BY <1>4, <1>11, <1>12, <1>13, <1>15, <2>1, <2>2, AppendProperties
<1>17. FlattenSeq(Append(a, f)) = text
  <2>1. FlattenSeq(Append(a, f)) = FlattenSeq(a) \o f
    BY <1>6, <1>13, FlattenAppend
  <2>2. FlattenSeq(a \o b) = FlattenSeq(a) \o FlattenSeq(b)
    BY <1>6, <1>7, FlattenConcat
  <2> QED BY <1>3, <1>8, <1>10, <2>1, <2>2
<1>18. lvl - n + 1 \in Nat /\ k + 2 = lvl - n + 1 + 1
  BY <1>1, <1>2
<1> QED BY <1>14, <1>15, <1>16, <1>17, <1>18 DEF Holding

(* adjuststack.                                                                 *)
LEMMA Adjusted ==
  ASSUME NEW stack, NEW lvl, NEW text, Holding(stack, lvl, text), Adjust(stack, lvl)
  PROVE  Holding(bstack', blvl', text) /\ blvl' < LIMIT
<1>1. lvl \in Nat /\ LIMIT \in Nat /\ LIMIT > 1
  BY BufferAssumption DEF Holding
<1>2. CASE ~ (lvl > 1)
  <2>1. bstack' = stack /\ blvl' = lvl
    BY <1>2 DEF Adjust
  <2> QED BY <1>1, <1>2, <2>1
<1>3. CASE lvl > 1
  <2> DEFINE Stops(t) == t = lvl \/ ~ Joins(stack, lvl, t)
             T == {t \in 1..lvl : Stops(t)}
  <2>1. T \subseteq Nat /\ lvl \in T
    BY <1>1, <1>3
  <2>2. PICK x \in T : \A y \in T : x <= y
    <3> HIDE DEF T
    <3> QED BY <2>1, Least
  <2>3. x \in 1..lvl /\ Stops(x)
    OBVIOUS
  <2>4. ASSUME NEW k \in 1..(x - 1) PROVE Joins(stack, lvl, k)
    <3>1. k \in 1..lvl /\ ~ (x <= k)
      BY <1>1, <2>3
    <3> QED BY <2>2, <3>1
  <2>5. PICK t : t = ToGet(stack, lvl)
    OBVIOUS
  <2>6. t \in 1..lvl /\ Stops(t)
    <3> HIDE DEF T
    <3>1. \E y \in 1..lvl : /\ y = lvl \/ ~ Joins(stack, lvl, y)
                            /\ \A k \in 1..(y - 1) : Joins(stack, lvl, k)
      BY <2>3, <2>4
    <3> QED BY <2>5, <3>1 DEF ToGet
  <2>7. bstack' = Joined(stack, t) /\ blvl' = lvl - t + 1
    BY <1>3, <2>5 DEF Adjust
  <2>8. t \in 0..lvl
    BY <1>1, <2>6
  <2>9. Holding(Joined(stack, t), lvl - t + 1, text)
    BY <2>8, JoinedHolding
  <2>10. lvl - t + 1 < LIMIT
    <3>1. CASE t = lvl
      BY <1>1, <3>1
    <3>2. CASE t # lvl
      <4>1. ~ (lvl - t + 1 >= LIMIT)
        BY <2>6, <3>2 DEF Joins
      <4> QED BY <1>1, <2>6, <4>1
    <3> QED BY <3>1, <3>2
  <2> QED BY <2>7, <2>9, <2>10
<1> QED BY <1>2, <1>3

(* The characters that PrepAndAdd, AddChar and AddValue put into the array.     *)
LEMMA IntoArray ==
  ASSUME BufferIInv, NEW n \in Nat, bbuf' = bbuf \o Chars(n), badded' = badded + n, UNCHANGED <<bstack, blvl>>
  PROVE  BufferIInv'
<1>1. PICK text \in Seq(Nat) : Holding(bstack, blvl, text) /\ text \o bbuf = Counted(badded)
  BY DEF BufferIInv
<1>2. bbuf \in Seq(Nat) /\ badded \in Nat /\ blvl < LIMIT
  BY DEF BufferIInv
<1>3. PICK c : c = Chars(n)
  OBVIOUS
<1>4. c \in Seq(Nat) /\ Counted(badded) \o c = Counted(badded + n)
  BY <1>2, <1>3, NextChars
<1>5. bbuf' \in Seq(Nat) /\ text \o bbuf' = (text \o bbuf) \o c
  <2>1. PICK b : b = bbuf
    OBVIOUS
  <2>2. text \in Seq(Nat) /\ b \in Seq(Nat) /\ c \in Seq(Nat)
    BY <1>2, <1>4, <2>1
  <2>3. b \o c \in Seq(Nat) /\ (text \o b) \o c = text \o (b \o c)
    BY ONLY <2>2, ConcatProperties, ConcatAssociative
  <2> QED BY <1>3, <2>1, <2>3
<1>6. text \o bbuf' = Counted(badded') /\ badded' \in Nat
  BY <1>1, <1>2, <1>4, <1>5
<1>7. Holding(bstack', blvl', text) /\ blvl' < LIMIT
  BY <1>1, <1>2
<1> QED BY <1>5, <1>6, <1>7 DEF BufferIInv

(* The array went to the stack, and holds the next n characters.                *)
LEMMA NextArray ==
  ASSUME BufferIInv, NEW n \in Nat, bbuf' = Chars(n), badded' = badded + n,
         NEW text \in Seq(Nat), Holding(bstack', blvl', text), blvl' < LIMIT, text = Counted(badded)
  PROVE  BufferIInv'
<1>1. badded \in Nat
  BY DEF BufferIInv
<1>2. bbuf' \in Seq(Nat) /\ text \o bbuf' = Counted(badded')
  BY <1>1, NextChars
<1>3. badded' \in Nat
  BY <1>1
<1> QED BY <1>2, <1>3 DEF BufferIInv

LEMMA PrepKeeps ==
  ASSUME BufferIInv, NEW n \in 0..BUFFERSIZE, PrepAndAdd(n)
  PROVE  BufferIInv'
<1>1. PICK text \in Seq(Nat) : Holding(bstack, blvl, text) /\ text \o bbuf = Counted(badded)
  BY DEF BufferIInv
<1>2. bbuf \in Seq(Nat) /\ blvl < LIMIT /\ n \in Nat /\ bbuf' = Chars(n) /\ badded' = badded + n
  BY BufferAssumption DEF BufferIInv, PrepAndAdd
<1>3. text \o bbuf \in Seq(Nat)
  BY <1>2, ConcatProperties
<1>4. CASE bbuf = <<>>
  <2>1. text \o bbuf = text /\ UNCHANGED <<bstack, blvl>>
    BY <1>4, ConcatEmptySeq DEF PrepAndAdd
  <2> QED BY <1>1, <1>2, <2>1, NextArray
<1>5. CASE bbuf # <<>>
  <2>1. Holding(Emptied(bstack), EmptiedLevel, text \o bbuf)
    BY <1>1, <1>2, EmptiedHolding
  <2>2. Adjust(Emptied(bstack), EmptiedLevel)
    BY <1>5 DEF PrepAndAdd
  <2>3. Holding(bstack', blvl', text \o bbuf) /\ blvl' < LIMIT
    BY <2>1, <2>2, Adjusted
  <2> QED BY <1>1, <1>2, <1>3, <2>3, NextArray
<1> QED BY <1>4, <1>5

LEMMA AddCharKeeps == ASSUME BufferIInv, AddChar PROVE BufferIInv'
<1>1. PICK text \in Seq(Nat) : Holding(bstack, blvl, text) /\ text \o bbuf = Counted(badded)
  BY DEF BufferIInv
<1>2. bbuf \in Seq(Nat) /\ badded' = badded + 1 /\ 1 \in Nat
  BY DEF BufferIInv, AddChar
<1>3. text \o bbuf \in Seq(Nat)
  BY <1>2, ConcatProperties
<1>4. CASE Len(bbuf) < BUFFERSIZE
  BY <1>2, <1>4, IntoArray DEF AddChar
<1>5. CASE ~ (Len(bbuf) < BUFFERSIZE)
  <2>1. Holding(Emptied(bstack), EmptiedLevel, text \o bbuf)
    BY <1>1, <1>2, EmptiedHolding
  <2>2. Adjust(Emptied(bstack), EmptiedLevel) /\ bbuf' = Chars(1)
    BY <1>5 DEF AddChar
  <2>3. Holding(bstack', blvl', text \o bbuf) /\ blvl' < LIMIT
    BY <2>1, <2>2, Adjusted
  <2> QED BY <1>1, <1>2, <1>3, <2>2, <2>3, NextArray
<1> QED BY <1>4, <1>5

LEMMA AddValueKeeps ==
  ASSUME BufferIInv, NEW n \in 0..(BUFFERSIZE + 1), AddValue(n)
  PROVE  BufferIInv'
<1>1. PICK text \in Seq(Nat) : Holding(bstack, blvl, text) /\ text \o bbuf = Counted(badded)
  BY DEF BufferIInv
<1>2. bbuf \in Seq(Nat) /\ badded \in Nat /\ badded' = badded + n /\ n \in Nat
  BY BufferAssumption DEF BufferIInv, AddValue
<1>3. text \o bbuf \in Seq(Nat)
  BY <1>2, ConcatProperties
<1>4. CASE n <= BUFFERSIZE - Len(bbuf)
  BY <1>2, <1>4, IntoArray DEF AddValue
<1>5. CASE ~ (n <= BUFFERSIZE - Len(bbuf))
  <2>1. Holding(Emptied(bstack), EmptiedLevel, text \o bbuf)
    BY <1>1, <1>2, EmptiedHolding
  <2>2. Adjust(Append(Emptied(bstack), Chars(n)), EmptiedLevel + 1) /\ bbuf' = <<>>
    BY <1>5 DEF AddValue
  <2>3. PICK long, c : long = (text \o bbuf) \o c /\ c = Chars(n)
    OBVIOUS
  <2>4. c \in Seq(Nat) /\ Counted(badded) \o c = Counted(badded + n)
    BY <1>2, <2>3, NextChars
  <2>5. Holding(Append(Emptied(bstack), c), EmptiedLevel + 1, long)
    BY <1>3, <2>1, <2>3, <2>4, Pushed
  <2>6. Holding(bstack', blvl', long) /\ blvl' < LIMIT
    BY <2>2, <2>3, <2>5, Adjusted
  <2>7. long \in Seq(Nat) /\ long \o bbuf' = Counted(badded')
    <3>1. long \in Seq(Nat) /\ long \o <<>> = long
      BY <1>3, <2>3, <2>4, ConcatProperties, ConcatEmptySeq
    <3> QED BY <1>1, <1>2, <2>2, <2>3, <2>4, <3>1
  <2>8. bbuf' \in Seq(Nat) /\ badded' \in Nat
    BY <1>2, <2>2
  <2> QED BY <2>6, <2>7, <2>8 DEF BufferIInv
<1> QED BY <1>4, <1>5

LEMMA PushResultKeeps == ASSUME BufferIInv, PushResult PROVE BufferIInv'
<1>1. PICK text \in Seq(Nat) : Holding(bstack, blvl, text) /\ text \o bbuf = Counted(badded)
  BY DEF BufferIInv
<1>2. bbuf \in Seq(Nat) /\ badded \in Nat
  BY DEF BufferIInv
<1>3. PICK lvl, long : lvl = EmptiedLevel /\ long = text \o bbuf
  OBVIOUS
<1>4. Holding(Emptied(bstack), lvl, long)
  BY <1>1, <1>2, <1>3, EmptiedHolding
<1>5. lvl \in 0..lvl /\ lvl - lvl + 1 = 1
  BY <1>4 DEF Holding
<1>6. Holding(Joined(Emptied(bstack), lvl), 1, long)
  BY <1>4, <1>5, JoinedHolding
<1>7. long \in Seq(Nat) /\ long \o <<>> = long
  BY <1>2, <1>3, ConcatProperties, ConcatEmptySeq
<1>8. /\ bbuf' = <<>> /\ badded' = badded /\ blvl' = 1 /\ bstack' = Joined(Emptied(bstack), lvl)
      /\ <<>> \in Seq(Nat) /\ 1 < LIMIT
  BY <1>3, BufferAssumption DEF PushResult
<1>9. Holding(bstack', blvl', long) /\ blvl' < LIMIT
  BY <1>6, <1>8
<1>10. bbuf' \in Seq(Nat) /\ badded' \in Nat /\ long \o bbuf' = Counted(badded')
  BY <1>1, <1>2, <1>3, <1>7, <1>8
<1> QED BY <1>7, <1>9, <1>10 DEF BufferIInv

(* Whatever is added in pieces of whatever size, no character is lost, doubled  *)
(* or moved, what lay below the buffer stays, and the pieces never need more    *)
(* than LIMIT slots (luaL_prepbuffer, luaL_addvalue, adjuststack).              *)
THEOREM BuffersKeep == BufferSpec => []BufferKept
<1>1. BufferInit => BufferIInv
  BY BufferInitial
<1>2. BufferIInv /\ [BufferNext]_bufferVars => BufferIInv'
  <2> SUFFICES ASSUME BufferIInv, [BufferNext]_bufferVars PROVE BufferIInv'
    OBVIOUS
  <2>1. CASE UNCHANGED bufferVars
    BY <2>1 DEF bufferVars, BufferIInv
  <2>2. ASSUME NEW n \in 0..BUFFERSIZE, PrepAndAdd(n) PROVE BufferIInv'
    BY <2>2, PrepKeeps
  <2>3. ASSUME NEW n \in 0..(BUFFERSIZE + 1), AddValue(n) PROVE BufferIInv'
    BY <2>3, AddValueKeeps
  <2>4. CASE AddChar \/ PushResult
    BY <2>4, AddCharKeeps, PushResultKeeps
  <2> QED BY <2>1, <2>2, <2>3, <2>4 DEF BufferNext
<1>3. BufferIInv => BufferKept
  <2> SUFFICES ASSUME BufferIInv PROVE BufferKept
    OBVIOUS
  <2>1. PICK text \in Seq(Nat) : Holding(bstack, blvl, text) /\ text \o bbuf = Counted(badded)
    BY DEF BufferIInv
  <2>2. BufferInOrder
    BY <2>1 DEF BufferInOrder, Holding, Counted
  <2>3. BufferFits
    BY <2>1 DEF BufferFits, Holding, BufferIInv
  <2> QED BY <2>2, <2>3 DEF BufferKept
<1> QED BY <1>1, <1>2, <1>3, PTL DEF BufferSpec

---------------------------------------------------------------------------
(* Finalizers and lua_close, for any number of userdata.  A userdata is in the  *)
(* list, in tmudata or among those finalized, and there once; loops and         *)
(* finalizers take turns in the calls, and the outermost loop saved that hooks  *)
(* were allowed.                                                                *)

CloseOnce ==
  /\ clist \in Seq(Udata) /\ ctm \in Seq(Udata) /\ cdone \in Seq(Udata)
  /\ Distinct(clist) /\ Distinct(ctm) /\ Distinct(cdone)
  /\ Range(clist) \cap Range(ctm) = {} /\ Range(clist) \cap Range(cdone) = {}
  /\ Range(ctm) \cap Range(cdone) = {}

CloseMade == /\ cmade \in 0..MaxUdata
             /\ Range(clist) \cup Range(ctm) \cup Range(cdone) \subseteq 1..cmade

CloseWaiting == /\ catclose \subseteq Range(ctm) \cup Range(cdone)
                /\ cphase = "freed" => catclose \subseteq Range(cdone)

Turn(call, i) == (call.of = GCLoop) = (i % 2 = 1)

Turns(calls) == /\ calls \in Seq([of : Nat, allowhook : BOOLEAN])
                /\ \A i \in 1..Len(calls) : Turn(calls[i], i)

Hooks(calls, hook) ==
  /\ \A i \in 1..Len(calls) : calls[i].allowhook = (i < 3)
  /\ hook = (Len(calls) < 2)

CloseIInv == /\ CloseOnce /\ CloseMade /\ CloseWaiting
             /\ chook \in BOOLEAN /\ Turns(ccalls)
             /\ cphase = "running" => Hooks(ccalls, chook)

LEMMA CloseInitial == CloseInit => CloseIInv
<1> SUFFICES ASSUME CloseInit PROVE CloseIInv
  OBVIOUS
<1>1. PICK e : e = <<>>
  OBVIOUS
<1>2. cmade = 0 /\ clist = e /\ ctm = e /\ ccalls = e /\ cdone = e /\ chook = TRUE /\ catclose = {}
  BY <1>1 DEF CloseInit
<1>3. e \in Seq(Udata) /\ Len(e) = 0 /\ 0 = Len(e) /\ e \in Seq([of : Nat, allowhook : BOOLEAN])
  BY <1>1
<1>4. Range(e) = {e[i] : i \in 1..0}
  BY ONLY <1>3, RangeIs
<1>5. Distinct(e) /\ Range(e) = {}
  BY <1>3, <1>4 DEF Distinct
<1>6. Turns(e) /\ Hooks(e, TRUE)
  BY <1>3 DEF Turns, Hooks
<1>7. CloseOnce /\ CloseMade /\ CloseWaiting
  BY <1>2, <1>3, <1>5, CloseAssumption DEF CloseOnce, CloseMade, CloseWaiting
<1> QED BY <1>2, <1>6, <1>7 DEF CloseIInv

LEMMA CloseSame ==
  ASSUME CloseIInv, UNCHANGED <<cmade, clist, ctm, catclose, cdone>>,
         cphase' = "freed" => cphase = "freed" \/ ctm = <<>>,
         chook' \in BOOLEAN, Turns(ccalls'), cphase' = "running" => Hooks(ccalls', chook')
  PROVE  CloseIInv'
<1>1. CloseOnce' /\ CloseMade'
  BY DEF CloseIInv, CloseOnce, CloseMade
<1>2. CloseWaiting'
  <2>1. CASE cphase' = "freed" => cphase = "freed"
    BY <2>1 DEF CloseIInv, CloseWaiting
  <2>2. CASE ctm = <<>>
    <3>1. PICK e : e = ctm
      OBVIOUS
    <3>2. e \in Seq(Udata) /\ 0 = Len(e)
      BY <2>2, <3>1
    <3>3. Range(e) = {e[i] : i \in 1..0}
      BY ONLY <3>2, RangeIs
    <3>4. Range(ctm) = {}
      BY <3>1, <3>3
    <3> QED BY <3>4 DEF CloseIInv, CloseWaiting
  <2> QED BY <2>1, <2>2
<1> QED BY <1>1, <1>2 DEF CloseIInv

LEMMA InTurn ==
  ASSUME NEW calls, Turns(calls), NEW c \in [of : Nat, allowhook : BOOLEAN],
         Turn(c, Len(calls) + 1)
  PROVE  Turns(Append(calls, c)) /\ Len(Append(calls, c)) = Len(calls) + 1 /\ Append(calls, c)[Len(calls) + 1] = c
<1>1. PICK n, t : n = Len(calls) /\ t = Append(calls, c)
  OBVIOUS
<1>2. calls \in Seq([of : Nat, allowhook : BOOLEAN]) /\ n \in Nat
  BY <1>1 DEF Turns
<1>3. t \in Seq([of : Nat, allowhook : BOOLEAN]) /\ Len(t) = n + 1 /\ t[n + 1] = c /\ \A i \in 1..n : t[i] = calls[i]
  BY <1>1, <1>2
<1>4. ASSUME NEW i \in 1..(n + 1) PROVE Turn(t[i], i)
  <2>1. CASE i = n + 1
    BY <1>1, <1>3, <2>1
  <2>2. CASE i \in 1..n
    BY <1>1, <1>3, <2>2 DEF Turns
  <2>3. i = n + 1 \/ i \in 1..n
    BY ONLY <1>2
  <2> QED BY ONLY <2>1, <2>2, <2>3
<1> QED BY <1>1, <1>3, <1>4 DEF Turns

LEMMA TurnsCut ==
  ASSUME NEW calls, Turns(calls), NEW k \in 0..Len(calls), NEW t, t = SubSeq(calls, 1, k)
  PROVE  Turns(t) /\ Len(t) = k /\ \A i \in 1..k : t[i] = calls[i]
<1>1. PICK n : n = Len(calls)
  OBVIOUS
<1>2. calls \in Seq([of : Nat, allowhook : BOOLEAN]) /\ n \in Nat /\ k \in 0..n
  BY <1>1 DEF Turns
<1>3. t \in Seq([of : Nat, allowhook : BOOLEAN]) /\ Len(t) = k /\ \A i \in 1..k : t[i] = calls[i]
  <2>1. \A i \in 1..k : calls[i] \in [of : Nat, allowhook : BOOLEAN] /\ 1 + i - 1 = i
    <3>1. \A i \in 1..n : calls[i] \in [of : Nat, allowhook : BOOLEAN]
      BY <1>1, <1>2, ElementOfSeq
    <3>2. \A i \in 1..k : i \in 1..n /\ 1 + i - 1 = i
      BY ONLY <1>2
    <3> QED BY <3>1, <3>2
  <2>2. 1 \in Int /\ k \in Int /\ k - 1 + 1 = k /\ (~ (1 <= k) => k = 0)
    BY <1>2
  <2>3. /\ SubSeq(calls, 1, k) \in Seq([of : Nat, allowhook : BOOLEAN])
        /\ Len(SubSeq(calls, 1, k)) = (IF 1 <= k THEN k - 1 + 1 ELSE 0)
        /\ \A i \in 1..(k - 1 + 1) : SubSeq(calls, 1, k)[i] = calls[1 + i - 1]
    BY <2>1, <2>2, SubSeqProperties
  <2> QED BY <2>1, <2>2, <2>3
<1>4. \A i \in 1..k : i \in 1..n
  BY <1>2
<1> QED BY <1>1, <1>3, <1>4 DEF Turns

(* The elements of the list that are in a set.                                  *)
LEMMA ListedIs ==
  ASSUME clist \in Seq(Udata), Distinct(clist), NEW W
  PROVE  Listed(W) \in Seq(Udata) /\ Distinct(Listed(W)) /\ Range(Listed(W)) = Range(clist) \cap W
<1>1. PICK n, f : n = Len(clist) /\ f = CHOOSE h : Picks(clist, W, h, n)
  OBVIOUS
<1>2. n \in Nat
  BY <1>1
<1>3. Picks(clist, W, f, n)
  BY <1>1, <1>2, PickingExists
<1>4. Listed(W) = f[n]
  BY <1>1 DEF Listed, Picks
<1>5. f[n] \in Seq(Udata) /\ Distinct(f[n]) /\ Range(f[n]) = Range(clist) \cap W
  BY <1>1, <1>3, Picked
<1> QED BY <1>4, <1>5

LEMMA Separates ==
  ASSUME CloseIInv, NEW W, Separate(W), UNCHANGED <<cmade, cdone>>
  PROVE  /\ CloseOnce' /\ CloseMade'
         /\ Range(ctm') = Range(ctm) \cup (Range(clist) \cap W)
<1>1. PICK l, t, d, w, k : l = clist /\ t = ctm /\ d = cdone /\ w = Listed(W) /\ k = Listed(Udata \ W)
  OBVIOUS
<1>2. /\ l \in Seq(Udata) /\ t \in Seq(Udata) /\ d \in Seq(Udata)
      /\ Distinct(l) /\ Distinct(t) /\ Distinct(d)
      /\ Range(l) \cap Range(t) = {} /\ Range(l) \cap Range(d) = {} /\ Range(t) \cap Range(d) = {}
  BY <1>1 DEF CloseIInv, CloseOnce
<1>3. w \in Seq(Udata) /\ Distinct(w) /\ Range(w) = Range(l) \cap W
  BY <1>1, <1>2, ListedIs
<1>4. k \in Seq(Udata) /\ Distinct(k) /\ Range(k) = Range(l) \cap (Udata \ W)
  BY <1>1, <1>2, ListedIs
<1>5. PICK u : u = t \o w
  OBVIOUS
<1>6. Range(t) \cap Range(w) = {}
  BY <1>2, <1>3
<1>7. u \in Seq(Udata) /\ Distinct(u) /\ Range(u) = Range(t) \cup Range(w)
  BY <1>2, <1>3, <1>5, <1>6, ConcatDistinct
<1>8. clist' = k /\ ctm' = u /\ cdone' = d
  BY <1>1, <1>5 DEF Separate
<1>9. CloseOnce'
  BY <1>2, <1>3, <1>4, <1>7, <1>8 DEF CloseOnce
<1>10. CloseMade'
  <2>1. cmade \in 0..MaxUdata /\ Range(l) \cup Range(t) \cup Range(d) \subseteq 1..cmade
    BY <1>1 DEF CloseIInv, CloseMade
  <2> QED BY <1>3, <1>4, <1>7, <1>8, <2>1 DEF CloseMade
<1> QED BY <1>1, <1>3, <1>7, <1>8, <1>9, <1>10

LEMMA LoopCall ==
  ASSUME NEW h, NEW c, h \in BOOLEAN, c = [of |-> GCLoop, allowhook |-> h]
  PROVE  c \in [of : Nat, allowhook : BOOLEAN] /\ c.of = GCLoop /\ c.allowhook = h
BY DEF GCLoop

LEMMA NewUdataKeeps == ASSUME CloseIInv, NewUdata PROVE CloseIInv'
<1>1. cmade \in 0..MaxUdata /\ Range(clist) \cup Range(ctm) \cup Range(cdone) \subseteq 1..cmade /\ CloseOnce
  BY DEF CloseIInv, CloseMade
<1>2. PICK u, l, s : u = cmade + 1 /\ l = clist /\ s = <<u>>
  OBVIOUS
<1>3. u \in Udata /\ u \notin 1..cmade /\ cmade' = u /\ u \in 0..MaxUdata /\ clist' = s \o l /\ u \in 1..u
  BY <1>1, <1>2, CloseAssumption DEF NewUdata, Udata
<1>4. s \in Seq(Udata) /\ Len(s) = 1 /\ 1 = Len(s) /\ s[1] = u
  BY <1>2, <1>3
<1>5. Range(s) = {s[i] : i \in 1..1}
  BY ONLY <1>4, RangeIs
<1>6. Distinct(s) /\ Range(s) = {u}
  BY <1>4, <1>5 DEF Distinct
<1>7. l \in Seq(Udata) /\ Distinct(l) /\ Range(s) \cap Range(l) = {}
  BY <1>1, <1>2, <1>3, <1>6 DEF CloseOnce
<1>8. PICK t : t = s \o l
  OBVIOUS
<1>9. t \in Seq(Udata) /\ Distinct(t) /\ Range(t) = {u} \cup Range(l)
  BY <1>4, <1>6, <1>7, <1>8, ConcatDistinct
<1>10. clist' = t /\ UNCHANGED <<ctm, cdone, catclose, cphase, ccalls, chook>>
  BY <1>3, <1>8 DEF NewUdata
<1>11. Range(clist') = {u} \cup Range(clist) /\ u \notin Range(ctm) /\ u \notin Range(cdone)
  BY <1>1, <1>2, <1>3, <1>9, <1>10
<1>12. CloseOnce'
  BY <1>1, <1>9, <1>10, <1>11 DEF CloseOnce
<1>13. CloseMade'
  <2>1. \A x \in 1..cmade : x \in 1..u
    BY <1>1, <1>2
  <2> QED BY <1>1, <1>3, <1>10, <1>11, <2>1 DEF CloseMade
<1>14. CloseWaiting' /\ (cphase' = "running" => Hooks(ccalls', chook')) /\ Turns(ccalls') /\ chook' \in BOOLEAN
  BY <1>10 DEF CloseIInv, CloseWaiting
<1> QED BY <1>12, <1>13, <1>14 DEF CloseIInv

LEMMA ForgottenKeeps == ASSUME CloseIInv, NEW u, Forgotten(u) PROVE CloseIInv'
BY DEF CloseIInv, CloseOnce, CloseMade, CloseWaiting, Forgotten

(* What runs tells how deep the calls are.                                      *)
LEMMA WhoRuns ==
  ASSUME CloseIInv
  PROVE  /\ Len(ccalls) \in Nat
         /\ InLoop => Len(ccalls) % 2 = 1
         /\ InFinalizer => Len(ccalls) \in Nat \ {0} /\ Len(ccalls) % 2 = 0
         /\ LuaRuns => Len(ccalls) % 2 = 0
<1>1. PICK n : n = Len(ccalls)
  OBVIOUS
<1>2. ccalls \in Seq([of : Nat, allowhook : BOOLEAN]) /\ n \in Nat /\ (ccalls # <<>> => n \in 1..n)
      /\ \A i \in 1..n : (ccalls[i].of = GCLoop) = (i % 2 = 1)
  BY <1>1 DEF CloseIInv, Turns, Turn
<1>3. InLoop => n % 2 = 1
  BY <1>1, <1>2 DEF InLoop, TopCall
<1>4. InFinalizer => n \in Nat \ {0} /\ n % 2 = 0
  <2> SUFFICES ASSUME InFinalizer PROVE n \in Nat \ {0} /\ n % 2 = 0
    OBVIOUS
  <2>1. n \in 1..n /\ n % 2 # 1
    BY <1>1, <1>2 DEF InFinalizer, TopCall
  <2> QED BY <1>2, <2>1
<1>5. ccalls = <<>> => n = 0
  BY <1>1
<1> QED BY <1>1, <1>2, <1>3, <1>4, <1>5 DEF LuaRuns

LEMMA CollectKeeps == ASSUME CloseIInv, Collect PROVE CloseIInv'
<1>1. Len(ccalls) \in Nat /\ Len(ccalls) % 2 = 0 /\ Turns(ccalls) /\ chook \in BOOLEAN
  BY WhoRuns DEF Collect, CloseIInv
<1>2. PICK n, h, c : n = Len(ccalls) /\ h = chook /\ c = [of |-> GCLoop, allowhook |-> h]
  OBVIOUS
<1>3. c \in [of : Nat, allowhook : BOOLEAN] /\ c.of = GCLoop /\ c.allowhook = h
  BY <1>1, <1>2, LoopCall
<1>4. ccalls' = Append(ccalls, c) /\ Separate(cdead) /\ UNCHANGED <<cmade, cdead, chook, cphase, catclose, cdone>>
  BY <1>2 DEF Collect
<1>5. (n + 1) % 2 = 1 /\ n \in Nat
  BY <1>1, <1>2
<1>6. Turns(ccalls') /\ Len(ccalls') = n + 1 /\ ccalls'[n + 1] = c /\ \A i \in 1..n : ccalls'[i] = ccalls[i]
  <2>1. Turn(c, Len(ccalls) + 1)
    BY <1>2, <1>3, <1>5 DEF Turn
  <2>2. PICK v, t : v = ccalls /\ t = Append(v, c)
    OBVIOUS
  <2>3. /\ Turns(v) /\ c \in [of : Nat, allowhook : BOOLEAN] /\ Turn(c, Len(v) + 1)
        /\ t = Append(v, c)
    BY <1>1, <1>3, <1>4, <2>1, <2>2
  <2>4. Turns(Append(v, c)) /\ Len(Append(v, c)) = Len(v) + 1 /\ Append(v, c)[Len(v) + 1] = c
    BY ONLY <2>3, InTurn
  <2>5. \A i \in 1..Len(v) : t[i] = v[i]
    BY <1>1, <2>2 DEF Turns
  <2>6. Turns(t) /\ Len(t) = n + 1 /\ t[n + 1] = c /\ \A i \in 1..n : t[i] = v[i]
    BY <1>2, <2>2, <2>4, <2>5
  <2> QED BY <1>3, <1>4, <2>2, <2>6
<1>7. CloseOnce' /\ CloseMade' /\ Range(ctm') = Range(ctm) \cup (Range(clist) \cap cdead)
  BY <1>4, Separates
<1>8. CloseWaiting'
  BY <1>4, <1>7 DEF CloseIInv, CloseWaiting
<1>9. cphase' = "running" => Hooks(ccalls', chook')
  <2> SUFFICES ASSUME cphase = "running" PROVE Hooks(ccalls', chook')
    BY <1>4
  <2>1. (\A i \in 1..n : ccalls[i].allowhook = (i < 3)) /\ h = (n < 2)
    BY <1>2 DEF CloseIInv, Hooks
  <2>2. n = 0 \/ (n > 1 /\ ~ (n < 2) /\ ~ (n + 1 < 3) /\ ~ (n + 1 < 2))
    BY <1>1, <1>2
  <2>3. ASSUME NEW i \in 1..(n + 1) PROVE ccalls'[i].allowhook = (i < 3)
    <3>1. i \in 1..n \/ i = n + 1
      BY ONLY <1>5
    <3>2. CASE i = n + 1
      BY <1>3, <1>6, <2>1, <2>2, <3>2
    <3> QED BY <1>6, <2>1, <3>1, <3>2
  <2>4. chook' = (n + 1 < 2)
    BY <1>2, <1>4, <2>1, <2>2
  <2> QED BY <1>6, <2>3, <2>4 DEF Hooks
<1> QED BY <1>1, <1>4, <1>6, <1>7, <1>8, <1>9 DEF CloseIInv

LEMMA GCTMKeepsClose == ASSUME CloseIInv, GCTM PROVE CloseIInv'
<1>1. Len(ccalls) \in Nat /\ Len(ccalls) % 2 = 1 /\ Turns(ccalls) /\ chook \in BOOLEAN /\ ctm # <<>>
  BY WhoRuns DEF GCTM, CloseIInv
<1>2. PICK n, h, t, d, u : n = Len(ccalls) /\ h = chook /\ t = ctm /\ d = cdone /\ u = Head(ctm)
  OBVIOUS
<1>3. PICK c, e, s : c = [of |-> u, allowhook |-> h] /\ e = Append(d, u) /\ s = Tail(t)
  OBVIOUS
<1>4. t \in Seq(Udata) /\ Distinct(t) /\ t # <<>> /\ d \in Seq(Udata) /\ Distinct(d) /\ Range(t) \cap Range(d) = {}
  BY <1>1, <1>2 DEF CloseIInv, CloseOnce
<1>5. u \in Udata /\ s \in Seq(Udata) /\ Distinct(s) /\ Range(t) = Range(s) \cup {u} /\ u \notin Range(s)
  BY <1>2, <1>3, <1>4, HeadDistinct
<1>6. u \notin Range(d)
  BY <1>4, <1>5
<1>7. e \in Seq(Udata) /\ Distinct(e) /\ Range(e) = Range(d) \cup {u}
  BY <1>3, <1>4, <1>5, <1>6, AppendDistinct
<1>8. /\ ctm' = s /\ cdone' = e /\ ccalls' = Append(ccalls, c) /\ chook' = FALSE
      /\ UNCHANGED <<cmade, clist, cphase, catclose>>
  BY <1>2, <1>3 DEF GCTM
<1>9. CloseOnce'
  BY <1>2, <1>5, <1>7, <1>8 DEF CloseIInv, CloseOnce
<1>10. CloseMade' /\ CloseWaiting'
  BY <1>2, <1>5, <1>7, <1>8 DEF CloseIInv, CloseMade, CloseWaiting
<1>11. c \in [of : Nat, allowhook : BOOLEAN] /\ c.of # GCLoop /\ c.allowhook = h
  BY <1>1, <1>2, <1>3, <1>5, CloseAssumption DEF GCLoop, Udata
<1>12. (n + 1) % 2 # 1 /\ n \in Nat
  BY <1>1, <1>2
<1>13. Turns(ccalls') /\ Len(ccalls') = n + 1 /\ ccalls'[n + 1] = c /\ \A i \in 1..n : ccalls'[i] = ccalls[i]
  <2>1. Turn(c, Len(ccalls) + 1)
    BY <1>2, <1>11, <1>12 DEF Turn
  <2>2. PICK v, w : v = ccalls /\ w = Append(v, c)
    OBVIOUS
  <2>3. /\ Turns(v) /\ c \in [of : Nat, allowhook : BOOLEAN] /\ Turn(c, Len(v) + 1)
        /\ w = Append(v, c)
    BY <1>1, <1>8, <1>11, <2>1, <2>2
  <2>4. Turns(Append(v, c)) /\ Len(Append(v, c)) = Len(v) + 1 /\ Append(v, c)[Len(v) + 1] = c
    BY ONLY <2>3, InTurn
  <2>5. \A i \in 1..Len(v) : w[i] = v[i]
    BY <1>1, <2>2 DEF Turns
  <2>6. Turns(w) /\ Len(w) = n + 1 /\ w[n + 1] = c /\ \A i \in 1..n : w[i] = v[i]
    BY <1>2, <2>2, <2>4, <2>5
  <2> QED BY <1>8, <1>11, <2>2, <2>6
<1>14. cphase' = "running" => Hooks(ccalls', chook')
  <2> SUFFICES ASSUME cphase = "running" PROVE Hooks(ccalls', chook')
    BY <1>8
  <2>1. (\A i \in 1..n : ccalls[i].allowhook = (i < 3)) /\ h = (n < 2)
    BY <1>2 DEF CloseIInv, Hooks
  <2>2. n > 0 /\ (n < 2) = (n + 1 < 3) /\ ~ (n + 1 < 2)
    BY <1>1, <1>2
  <2>3. ASSUME NEW i \in 1..(n + 1) PROVE ccalls'[i].allowhook = (i < 3)
    <3>1. i \in 1..n \/ i = n + 1
      BY ONLY <1>12
    <3>2. CASE i = n + 1
      BY <1>11, <1>13, <2>1, <2>2, <3>2
    <3> QED BY <1>13, <2>1, <3>1, <3>2
  <2>4. chook' = (n + 1 < 2)
    <3>1. (n + 1 < 2) = FALSE
      BY <2>2
    <3> QED BY <1>8, <3>1, Zenon
  <2> QED BY <1>13, <2>3, <2>4 DEF Hooks
<1> QED BY <1>8, <1>9, <1>10, <1>13, <1>14 DEF CloseIInv

(* One call less.                                                               *)
LEMMA OuterIs ==
  ASSUME CloseIInv, ccalls # <<>>, NEW n, n = Len(ccalls)
  PROVE  /\ n \in Nat \ {0} /\ Turns(Outer) /\ Len(Outer) = n - 1 /\ \A i \in 1..(n - 1) : Outer[i] = ccalls[i]
         /\ TopCall = ccalls[n] /\ ccalls[n] \in [of : Nat, allowhook : BOOLEAN]
<1>1. Turns(ccalls) /\ ccalls \in Seq([of : Nat, allowhook : BOOLEAN])
  BY DEF CloseIInv, Turns
<1>2. n \in Nat \ {0} /\ n \in 1..n /\ n - 1 \in 0..n
  BY <1>1
<1>3. PICK k : k = n - 1
  OBVIOUS
<1>4. k \in 0..Len(ccalls) /\ Outer = SubSeq(ccalls, 1, k)
  BY <1>2, <1>3 DEF Outer
<1>5. Turns(Outer) /\ Len(Outer) = k /\ \A i \in 1..k : Outer[i] = ccalls[i]
  BY <1>1, <1>4, TurnsCut
<1>6. TopCall = ccalls[n] /\ ccalls[n] \in [of : Nat, allowhook : BOOLEAN]
  BY <1>1, <1>2, ElementOfSeq DEF TopCall
<1> QED BY <1>2, <1>3, <1>5, <1>6

LEMMA FinishedKeeps == ASSUME CloseIInv, Finished PROVE CloseIInv'
<1>1. PICK n, o, h : n = Len(ccalls) /\ o = Outer /\ h = TopCall.allowhook
  OBVIOUS
<1>2. ccalls # <<>> /\ n \in Nat \ {0} /\ n % 2 = 0
  BY <1>1, WhoRuns DEF Finished, InFinalizer
<1>3. /\ Turns(o) /\ Len(o) = n - 1 /\ (\A i \in 1..(n - 1) : o[i] = ccalls[i]) /\ h = ccalls[n].allowhook
      /\ h \in BOOLEAN
  BY <1>1, <1>2, OuterIs
<1>4. ccalls' = o /\ chook' = h /\ UNCHANGED <<cmade, clist, ctm, cphase, catclose, cdone>>
  BY <1>1 DEF Finished
<1>5. cphase' = "running" => Hooks(ccalls', chook')
  <2> SUFFICES ASSUME cphase = "running" PROVE Hooks(o, h)
    BY <1>4
  <2>1. \A i \in 1..n : ccalls[i].allowhook = (i < 3)
    BY <1>1 DEF CloseIInv, Hooks
  <2>2. n \in 1..n /\ (n < 3) = (n - 1 < 2) /\ \A i \in 1..(n - 1) : i \in 1..n
    BY <1>2
  <2> QED BY <1>3, <2>1, <2>2 DEF Hooks
<1> QED BY <1>3, <1>4, <1>5, CloseSame

LEMMA LoopEndsKeeps == ASSUME CloseIInv, LoopEnds PROVE CloseIInv'
<1>1. PICK n, o : n = Len(ccalls) /\ o = Outer
  OBVIOUS
<1>2. ccalls # <<>> /\ ctm = <<>> /\ n \in Nat \ {0} /\ n % 2 = 1
  BY <1>1, WhoRuns, OuterIs DEF LoopEnds, InLoop
<1>3. Turns(o) /\ Len(o) = n - 1 /\ (\A i \in 1..(n - 1) : o[i] = ccalls[i])
  BY <1>1, <1>2, OuterIs
<1>4. /\ ccalls' = o /\ UNCHANGED <<cmade, clist, ctm, chook, catclose, cdone>>
      /\ cphase' = cphase \/ cphase' = "freed"
  BY <1>1 DEF LoopEnds
<1>5. cphase' = "running" => Hooks(ccalls', chook')
  <2> SUFFICES ASSUME cphase = "running" PROVE Hooks(o, chook)
    BY <1>4
  <2>1. (\A i \in 1..n : ccalls[i].allowhook = (i < 3)) /\ chook = (n < 2)
    BY <1>1 DEF CloseIInv, Hooks
  <2>2. (n < 2) = (n - 1 < 2) /\ \A i \in 1..(n - 1) : i \in 1..n
    BY <1>2
  <2> QED BY <1>3, <2>1, <2>2 DEF Hooks
<1>6. chook' \in BOOLEAN
  BY <1>4 DEF CloseIInv
<1> QED BY <1>2, <1>3, <1>4, <1>5, <1>6, CloseSame

LEMMA NoCalls == ASSUME NEW e, e = <<>> PROVE Turns(e) /\ Len(e) = 0 /\ Hooks(e, TRUE)
<1>1. e \in Seq([of : Nat, allowhook : BOOLEAN]) /\ Len(e) = 0
  OBVIOUS
<1> QED BY <1>1 DEF Turns, Hooks

LEMMA OneLoop ==
  ASSUME NEW h \in BOOLEAN, NEW t, t = <<[of |-> GCLoop, allowhook |-> h]>>
  PROVE  Turns(t)
<1>1. PICK c : c = [of |-> GCLoop, allowhook |-> h]
  OBVIOUS
<1>2. c \in [of : Nat, allowhook : BOOLEAN] /\ c.of = GCLoop
  BY <1>1, LoopCall
<1>3. t \in Seq([of : Nat, allowhook : BOOLEAN]) /\ Len(t) = 1 /\ t[1] = c
  BY <1>1, <1>2
<1> QED BY <1>2, <1>3 DEF Turns, Turn

LEMMA FailedKeeps == ASSUME CloseIInv, Failed PROVE CloseIInv'
<1>1. UNCHANGED <<cmade, clist, ctm, cphase, catclose, cdone>> /\ Turns(ccalls) /\ chook \in BOOLEAN
  BY DEF Failed, CloseIInv
<1>2. ASSUME NEW k \in 1..(Len(ccalls) - 1), ccalls[k].of # GCLoop, ccalls' = SubSeq(ccalls, 1, k), chook' = FALSE
      PROVE  CloseIInv'
  <2>1. Len(ccalls) \in Nat
    BY WhoRuns
  <2>2. k \in 0..Len(ccalls) /\ k \in 1..Len(ccalls) /\ k \in Nat
    BY <2>1
  <2>3. Turns(ccalls') /\ Len(ccalls') = k /\ \A i \in 1..k : ccalls'[i] = ccalls[i]
    BY <1>1, <1>2, <2>2, TurnsCut
  <2>4. k % 2 # 1
    BY <1>1, <1>2, <2>2 DEF Turns, Turn
  <2>5. cphase' = "running" => Hooks(ccalls', chook')
    <3> SUFFICES ASSUME cphase = "running" PROVE Hooks(ccalls', chook')
      BY <1>1
    <3>1. \A i \in 1..Len(ccalls) : ccalls[i].allowhook = (i < 3)
      BY DEF CloseIInv, Hooks
    <3>2. ~ (k < 2)
      BY <1>2, <2>2, <2>4
    <3>3. \A i \in 1..k : i \in 1..Len(ccalls)
      BY <2>1, <2>2
    <3>4. \A i \in 1..k : ccalls'[i].allowhook = (i < 3)
      BY <2>3, <3>1, <3>3
    <3>5. (Len(ccalls') < 2) = FALSE
      BY <2>3, <3>2
    <3>6. chook' = (Len(ccalls') < 2)
      BY <1>2, <3>5, Zenon
    <3> QED BY <2>3, <3>4, <3>6 DEF Hooks
  <2> QED BY <1>1, <1>2, <2>3, <2>5, CloseSame
<1>3. CASE cphase = "running" /\ ccalls' = <<>> /\ chook' = TRUE
  BY <1>1, <1>3, NoCalls, CloseSame
<1>4. CASE cphase = "closing" /\ ccalls' = <<[of |-> GCLoop, allowhook |-> chook]>> /\ UNCHANGED chook
  BY <1>1, <1>4, OneLoop, CloseSame
<1> QED BY <1>2, <1>3, <1>4 DEF Failed

LEMMA ClosesKeeps == ASSUME CloseIInv, lua_close PROVE CloseIInv'
<1>1. /\ Separate(Udata) /\ catclose' = Range(clist) \cup Range(ctm) /\ cphase' = "closing"
      /\ ccalls' = <<[of |-> GCLoop, allowhook |-> chook]>> /\ UNCHANGED <<cmade, cdead, chook, cdone>>
      /\ chook \in BOOLEAN
  BY DEF lua_close, CloseIInv
<1>2. CloseOnce' /\ CloseMade' /\ Range(ctm') = Range(ctm) \cup (Range(clist) \cap Udata)
  BY <1>1, Separates
<1>3. Range(clist) \subseteq Udata
  BY RangeOfSeq DEF CloseIInv, CloseOnce
<1>4. CloseWaiting'
  BY <1>1, <1>2, <1>3 DEF CloseWaiting
<1>5. Turns(ccalls')
  BY <1>1, OneLoop
<1> QED BY <1>1, <1>2, <1>4, <1>5 DEF CloseIInv

(* However finalizers collect, fail or leave loops half way, none is called     *)
(* twice, every userdata that was there at lua_close is finalized before the    *)
(* state is freed, and hooks are allowed again outside finalizers (GCTM,        *)
(* luaC_separateudata, lua_close).                                              *)
THEOREM FinalizersOnce == CloseSpec => []FinalizersSafe
<1>1. CloseInit => CloseIInv
  BY CloseInitial
<1>2. CloseIInv /\ [CloseNext]_closeVars => CloseIInv'
  <2> SUFFICES ASSUME CloseIInv, [CloseNext]_closeVars PROVE CloseIInv'
    OBVIOUS
  <2>1. CASE UNCHANGED closeVars
    BY <2>1 DEF closeVars, CloseIInv, CloseOnce, CloseMade, CloseWaiting
  <2>2. CASE NewUdata \/ Collect \/ GCTM
    BY <2>2, NewUdataKeeps, CollectKeeps, GCTMKeepsClose
  <2>3. CASE Finished \/ Failed \/ LoopEnds \/ lua_close
    BY <2>3, FinishedKeeps, FailedKeeps, LoopEndsKeeps, ClosesKeeps
  <2>4. ASSUME NEW u \in Udata, Forgotten(u) PROVE CloseIInv'
    BY <2>4, ForgottenKeeps
  <2> QED BY <2>1, <2>2, <2>3, <2>4 DEF CloseNext
<1>3. CloseIInv => FinalizersSafe
  <2> SUFFICES ASSUME CloseIInv PROVE FinalizersSafe
    OBVIOUS
  <2>1. FinalizedOnce
    BY DEF FinalizedOnce, CloseIInv, CloseOnce, CloseWaiting, Distinct
  <2>2. ASSUME cphase = "running", ccalls = <<>> PROVE chook
    <3>1. (Len(ccalls) < 2) = TRUE
      BY <2>2
    <3>2. chook = (Len(ccalls) < 2)
      BY <2>2 DEF CloseIInv, Hooks
    <3> QED BY <3>1, <3>2, Zenon
  <2> QED BY <2>1, <2>2 DEF FinalizersSafe, HooksComeBack
<1> QED BY <1>1, <1>2, <1>3, PTL DEF CloseSpec

---------------------------------------------------------------------------
(* table.sort, for arrays of any length and any keys.  Two elements that are    *)
(* not in the same range still to be sorted are in order; the ranges that wait  *)
(* in the calls and the one being sorted have no index in common; and           *)
(* inside the range being partitioned what is left of i is not above the pivot  *)
(* and what is right of j not below it.                                         *)

Waits(ranges, i, j) == \E k \in 1..Len(ranges) : ranges[k][1] <= i /\ j <= ranges[k][2]

InOrder(a, n, ranges, l, u) ==
  \A i, j \in 1..n : i < j => a[i] <= a[j] \/ Waits(ranges, i, j) \/ (l <= i /\ j <= u)

Apart(l1, u1, l2, u2) == u1 < l2 \/ u2 < l1 \/ u1 < l1 \/ u2 < l2

RangesApart(ranges) ==
  \A k, m \in 1..Len(ranges) : k # m => Apart(ranges[k][1], ranges[k][2], ranges[m][1], ranges[m][2])
OffRanges(ranges, l, u) == \A k \in 1..Len(ranges) : Apart(ranges[k][1], ranges[k][2], l, u)

RangeIn(l, u, n) == l \in 1..(n + 2) /\ u \in 0..n

(* What the indices may be, under any answers.                                  *)
IndexBounds(pc, l, u, i, j) ==
  /\ pc = "middle" => u - l >= 2 /\ i = (l + u) \div 2
  /\ pc \in {"up", "down", "swap", "part"} => u - l >= 3
  /\ pc = "up" => i \in l..u /\ j \in l..(u - 1)
  /\ pc = "down" => i \in (l + 1)..(u + 1) /\ j \in l..(u - 1)
  /\ pc = "swap" => i \in (l + 1)..j /\ j \in l..(u - 2)
  /\ pc = "part" => i \in (l + 1)..(u + 1) /\ j \in (l - 1)..(u - 2)

AtMost(a, l, i, p) == \A k \in l..i : a[k] <= p
AtLeast(a, j, u, p) == \A k \in j..u : p <= a[k]

(* How far the partition has got, under an order.                               *)
Partition(pc, a, l, u, i, j) ==
  /\ pc # "error"
  /\ pc = "middle" => a[l] <= a[u]
  /\ pc = "up" => i <= u - 2 /\ j > l /\ AtMost(a, l, i, a[u - 1]) /\ AtLeast(a, j, u, a[u - 1])
  /\ pc = "down" => /\ i <= u - 1 /\ j > l /\ AtMost(a, l, i - 1, a[u - 1]) /\ AtLeast(a, j, u, a[u - 1])
                    /\ a[u - 1] <= a[i]
  /\ pc = "swap" => /\ AtMost(a, l, i - 1, a[u - 1]) /\ AtLeast(a, j + 1, u, a[u - 1])
                    /\ a[u - 1] <= a[i] /\ a[j] <= a[u - 1]
  /\ pc = "part" => i <= u - 1 /\ j >= l /\ AtMost(a, l, i - 1, a[u - 1]) /\ AtLeast(a, i, u, a[u - 1])

Partitions == {"middle", "up", "down", "swap", "part"}
SortPlaces == Partitions \cup {"idle", "ends", "return", "sorted", "error"}

SortArrays == [Indices -> SortKeys \cup {Absent}]
Pairs == Seq(Int \X Int)

SortTypes == /\ sn \in 0..MaxElements /\ sarray \in SortArrays
             /\ sorder \in {"less", "any"} /\ spc \in SortPlaces
             /\ sstack \in Pairs /\ sl \in Int /\ su \in Int /\ si \in Int /\ sj \in Int

SortRanges ==
  /\ RangeIn(sl, su, sn) \/ spc = "idle"
  /\ \A k \in 1..Len(sstack) : RangeIn(sstack[k][1], sstack[k][2], sn)
  /\ spc = "sorted" => sstack = <<>>
  /\ spc = "idle" => sstack = <<>>

SortOrder ==
  /\ RangesApart(sstack)
  /\ spc \in Partitions \cup {"ends"} => OffRanges(sstack, sl, su) /\ InOrder(sarray, sn, sstack, sl, su)
  /\ spc \in {"return", "sorted"} => InOrder(sarray, sn, sstack, 1, 0)
  /\ Partition(spc, sarray, sl, su, si, sj)

SortSafe == SortTypes /\ SortRanges /\ IndexBounds(spc, sl, su, si, sj)

SortIInv == SortSafe /\ (sorder = "less" => SortOrder)

---------------------------------------------------------------------------
(* Two elements change places.                                                  *)

LEMMA KeysAre == \A a \in SortArrays : \A k \in Indices : a[k] \in Nat
<1>1. SortKeys \cup {Absent} \subseteq Nat
  BY SortAssumption DEF Absent
<1> QED BY <1>1 DEF SortArrays

Exchange(a, b, x, y) == /\ x \in Indices /\ y \in Indices /\ b[x] = a[y] /\ b[y] = a[x]
                        /\ \A k \in Indices \ {x, y} : b[k] = a[k]

LEMMA SwappedExchanges ==
  ASSUME NEW a \in SortArrays, NEW x \in Indices, NEW y \in Indices,
         NEW b, b = [a EXCEPT ![x] = a[y], ![y] = a[x]]
  PROVE  b \in SortArrays /\ Exchange(a, b, x, y)
BY DEF SortArrays, Exchange

Copies(a, z) == Cardinality({k \in Indices : a[k] = z})

(* Places with the same element go to places with it.                           *)
LEMMA ExchangeKeeps ==
  ASSUME NEW a, NEW b, NEW x, NEW y, Exchange(a, b, x, y), NEW z
  PROVE  Copies(b, z) = Copies(a, z)
<1> DEFINE S == {k \in Indices : a[k] = z}
           T == {k \in Indices : b[k] = z}
           other(k) == IF k = x THEN y ELSE IF k = y THEN x ELSE k
           f == [k \in S |-> other(k)]
<1>1. \A k \in Indices : other(k) \in Indices /\ b[other(k)] = a[k] /\ other(other(k)) = k
  BY DEF Exchange
<1>2. f \in [S -> T]
  BY <1>1
<1>3. \A k \in T : other(k) \in S /\ f[other(k)] = k
  BY <1>1 DEF Exchange
<1>4. \A k, m \in S : f[k] = f[m] => k = m
  BY <1>1
<1>5. f \in Bijection(S, T)
  <2> HIDE DEF f, S, T, other
  <2>1. \A t \in T : \E s \in S : f[s] = t
    BY <1>3
  <2> QED BY <1>2, <1>4, <2>1, Fun_IsBij
<1>6. IsFiniteSet(S)
  <2>1. IsFiniteSet(Indices)
    BY SortAssumption, FS_Interval DEF Indices
  <2> QED BY <2>1, FS_Subset
<1>7. ExistsBijection(S, T)
  BY <1>5 DEF ExistsBijection
<1> QED BY <1>6, <1>7, FS_Bijection DEF Copies

---------------------------------------------------------------------------
(* The order outside the ranges still to be sorted.                             *)

LEMMA PairsAre ==
  ASSUME NEW r \in Pairs
  PROVE  Len(r) \in Nat /\ \A k \in 1..Len(r) : r[k][1] \in Int /\ r[k][2] \in Int
<1> SUFFICES ASSUME NEW k \in 1..Len(r) PROVE r[k] \in Int \X Int
  BY DEF Pairs
<1> QED BY ElementOfSeq DEF Pairs

(* b is a with elements of l..u moved inside l..u.                              *)
Within(a, b, l, u, n) == /\ \A k \in 1..n : k \notin l..u => b[k] = a[k]
                         /\ \A k \in l..u : \E m \in l..u : b[k] = a[m]

LEMMA WithinExchange ==
  ASSUME NEW a, NEW b, NEW x, NEW y, Exchange(a, b, x, y),
         NEW n \in 0..MaxElements, NEW l \in 1..n, NEW u \in 1..n, x \in l..u, y \in l..u
  PROVE  Within(a, b, l, u, n)
<1>1. 1..n \subseteq Indices /\ l..u \subseteq 1..n
  BY SortAssumption DEF Indices
<1>2. ASSUME NEW k \in 1..n, k \notin l..u PROVE b[k] = a[k]
  BY <1>1, <1>2 DEF Exchange
<1>3. ASSUME NEW k \in l..u PROVE \E m \in l..u : b[k] = a[m]
  <2>1. CASE k = x
    BY <2>1 DEF Exchange
  <2>2. CASE k = y
    BY <2>2 DEF Exchange
  <2>3. CASE k # x /\ k # y
    BY <1>1, <2>3 DEF Exchange
  <2> QED BY <2>1, <2>2, <2>3
<1> QED BY <1>2, <1>3 DEF Within

LEMMA WithinTwice ==
  ASSUME NEW a, NEW b, NEW c, NEW l, NEW u, NEW n, Within(a, b, l, u, n), Within(b, c, l, u, n)
  PROVE  Within(a, c, l, u, n)
BY DEF Within

LEMMA Shuffle ==
  ASSUME NEW a, NEW b, NEW n \in Nat, NEW r \in Pairs, NEW l \in Int, NEW u \in Int,
         InOrder(a, n, r, l, u), OffRanges(r, l, u), Within(a, b, l, u, n), l >= 1, u <= n
  PROVE  InOrder(b, n, r, l, u)
<1>1. Len(r) \in Nat /\ \A k \in 1..Len(r) : r[k][1] \in Int /\ r[k][2] \in Int
  BY PairsAre
<1>2. SUFFICES ASSUME NEW i \in 1..n, NEW j \in 1..n, i < j, ~ (l <= i /\ j <= u), ~ Waits(r, i, j)
               PROVE  b[i] <= b[j]
  BY DEF InOrder
<1>3. ASSUME NEW x \in 1..n, NEW y \in 1..n, x < y, ~ (l <= x /\ y <= u)
      PROVE  a[x] <= a[y] \/ Waits(r, x, y)
  BY <1>3 DEF InOrder
<1>4. ASSUME NEW x \in 1..n, NEW y \in 1..n, Waits(r, x, y), x <= y, NEW k \in l..u, k \in {x, y}
      PROVE  l <= x /\ y <= u
  <2>1. PICK m \in 1..Len(r) : r[m][1] <= x /\ y <= r[m][2]
    BY <1>4 DEF Waits
  <2>2. r[m][1] \in Int /\ r[m][2] \in Int /\ r[m][1] <= k /\ k <= r[m][2]
    BY <1>1, <1>4, <2>1
  <2>3. Apart(r[m][1], r[m][2], l, u)
    BY DEF OffRanges
  <2> QED BY <2>2, <2>3 DEF Apart
<1>5. CASE i \in l..u
  <2>1. j \notin l..u /\ j > u /\ b[j] = a[j]
    BY <1>2, <1>5 DEF Within
  <2>2. PICK m \in l..u : b[i] = a[m]
    BY <1>5 DEF Within
  <2>3. m \in 1..n /\ m < j /\ ~ (l <= m /\ j <= u)
    BY <2>1
  <2>4. ~ Waits(r, m, j)
    BY <1>4, <2>3
  <2> QED BY <1>3, <2>1, <2>2, <2>3, <2>4
<1>6. CASE j \in l..u
  <2>1. i \notin l..u /\ i < l /\ b[i] = a[i]
    BY <1>2, <1>6 DEF Within
  <2>2. PICK m \in l..u : b[j] = a[m]
    BY <1>6 DEF Within
  <2>3. m \in 1..n /\ i < m /\ ~ (l <= i /\ m <= u)
    BY <2>1
  <2>4. ~ Waits(r, i, m)
    BY <1>4, <2>3
  <2> QED BY <1>3, <2>1, <2>2, <2>3, <2>4
<1>7. CASE i \notin l..u /\ j \notin l..u
  <2>1. b[i] = a[i] /\ b[j] = a[j]
    BY <1>7 DEF Within
  <2> QED BY <1>2, <1>3, <2>1
<1> QED BY <1>5, <1>6, <1>7

(* A range whose elements are in order is no longer one.                        *)
LEMMA InOrderClosed ==
  ASSUME NEW a, NEW n \in Nat, NEW r, NEW l \in Int, NEW u \in Int, InOrder(a, n, r, l, u),
         \A x, y \in l..u : x < y => a[x] <= a[y]
  PROVE  InOrder(a, n, r, 1, 0)
BY DEF InOrder

(* The partition: what is left of i, what is right of i.                        *)
LEMMA InOrderSplit ==
  ASSUME NEW a \in SortArrays, NEW n \in 0..MaxElements, NEW r \in Pairs, NEW l \in 1..n, NEW u \in 1..n,
         NEW i \in l..u, InOrder(a, n, r, l, u), AtMost(a, l, i, a[i]), AtLeast(a, i, u, a[i]),
         NEW l1 \in Int, NEW u1 \in Int, NEW l2 \in Int, NEW u2 \in Int,
         \/ l1 = l /\ u1 = i - 1 /\ l2 = i + 1 /\ u2 = u
         \/ l2 = l /\ u2 = i - 1 /\ l1 = i + 1 /\ u1 = u
  PROVE  InOrder(a, n, Append(r, <<l1, u1>>), l2, u2)
<1>1. PICK t : t = Append(r, <<l1, u1>>)
  OBVIOUS
<1>2. /\ Len(r) \in Nat /\ Len(t) = Len(r) + 1 /\ t[Len(r) + 1] = <<l1, u1>>
      /\ \A k \in 1..Len(r) : t[k] = r[k]
  BY <1>1 DEF Pairs
<1>3. SUFFICES ASSUME NEW x \in 1..n, NEW y \in 1..n, x < y, ~ (l2 <= x /\ y <= u2), ~ Waits(t, x, y)
               PROVE  a[x] <= a[y]
  BY <1>1 DEF InOrder
<1>4. ~ Waits(r, x, y)
  BY <1>2, <1>3 DEF Waits
<1>5. ~ (l1 <= x /\ y <= u1)
  <2>1. Len(r) + 1 \in 1..Len(t) /\ t[Len(r) + 1][1] = l1 /\ t[Len(r) + 1][2] = u1
    BY <1>2
  <2> QED BY <1>3, <2>1 DEF Waits
<1>6. CASE ~ (l <= x /\ y <= u)
  BY <1>3, <1>4, <1>6 DEF InOrder
<1>7. CASE l <= x /\ y <= u
  <2>1. x <= i /\ i <= y
    BY <1>3, <1>5, <1>7
  <2>2. a[x] <= a[i] /\ a[i] <= a[y]
    BY <1>7, <2>1 DEF AtMost, AtLeast
  <2>3. a[x] \in Int /\ a[i] \in Int /\ a[y] \in Int
    <3>1. x \in Indices /\ i \in Indices /\ y \in Indices
      BY SortAssumption DEF Indices
    <3> QED BY <3>1, KeysAre
  <2> QED BY <2>2, <2>3
<1> QED BY <1>6, <1>7

LEMMA RangesSplit ==
  ASSUME NEW r \in Pairs, NEW l \in Int, NEW u \in Int, NEW i \in l..u, RangesApart(r), OffRanges(r, l, u),
         NEW l1 \in Int, NEW u1 \in Int, NEW l2 \in Int, NEW u2 \in Int,
         \/ l1 = l /\ u1 = i - 1 /\ l2 = i + 1 /\ u2 = u
         \/ l2 = l /\ u2 = i - 1 /\ l1 = i + 1 /\ u1 = u
  PROVE  RangesApart(Append(r, <<l1, u1>>)) /\ OffRanges(Append(r, <<l1, u1>>), l2, u2)
<1>1. PICK t, m : t = Append(r, <<l1, u1>>) /\ m = Len(r)
  OBVIOUS
<1>2. /\ m \in Nat /\ Len(t) = m + 1 /\ t[m + 1][1] = l1 /\ t[m + 1][2] = u1
      /\ \A k \in 1..m : t[k] = r[k] /\ r[k][1] \in Int /\ r[k][2] \in Int
  <2>1. Len(t) = m + 1 /\ t[m + 1] = <<l1, u1>> /\ \A k \in 1..m : t[k] = r[k]
    BY <1>1 DEF Pairs
  <2> QED BY <1>1, <2>1, PairsAre
<1>3. ASSUME NEW k \in 1..m
      PROVE  Apart(t[k][1], t[k][2], l1, u1) /\ Apart(l1, u1, t[k][1], t[k][2]) /\ Apart(t[k][1], t[k][2], l2, u2)
  <2>1. t[k][1] \in Int /\ t[k][2] \in Int /\ Apart(t[k][1], t[k][2], l, u)
    BY <1>1, <1>2 DEF OffRanges
  <2> QED BY <2>1 DEF Apart
<1>4. Apart(l1, u1, l2, u2)
  BY DEF Apart
<1>5. RangesApart(t)
  <2>1. SUFFICES ASSUME NEW k \in 1..(m + 1), NEW h \in 1..(m + 1), k # h
                 PROVE  Apart(t[k][1], t[k][2], t[h][1], t[h][2])
    BY <1>2 DEF RangesApart
  <2>2. CASE k \in 1..m /\ h \in 1..m
    BY <1>1, <1>2, <2>1, <2>2 DEF RangesApart
  <2>3. CASE k = m + 1
    BY <1>2, <1>3, <2>1, <2>3
  <2>4. CASE h = m + 1
    BY <1>2, <1>3, <2>1, <2>4
  <2> QED BY <1>2, <2>2, <2>3, <2>4
<1>6. OffRanges(t, l2, u2)
  BY <1>2, <1>3, <1>4 DEF OffRanges
<1> QED BY <1>1, <1>5, <1>6

(* The call that waited last goes on.                                           *)
LEMMA RangesPop ==
  ASSUME NEW r \in Pairs, r # <<>>, RangesApart(r), NEW a, NEW n \in Nat, InOrder(a, n, r, 1, 0)
  PROVE  /\ RangesApart(SubSeq(r, 1, Len(r) - 1))
         /\ OffRanges(SubSeq(r, 1, Len(r) - 1), r[Len(r)][1], r[Len(r)][2])
         /\ InOrder(a, n, SubSeq(r, 1, Len(r) - 1), r[Len(r)][1], r[Len(r)][2])
<1>1. PICK t, m : t = SubSeq(r, 1, Len(r) - 1) /\ m = Len(r)
  OBVIOUS
<1>2. m \in Nat \ {0} /\ Len(t) = m - 1 /\ \A k \in 1..(m - 1) : t[k] = r[k]
  BY <1>1, FrontAndLast DEF Pairs
<1>3. RangesApart(t) /\ OffRanges(t, r[m][1], r[m][2])
  BY <1>1, <1>2 DEF RangesApart, OffRanges
<1>4. InOrder(a, n, t, r[m][1], r[m][2])
  <2>1. SUFFICES ASSUME NEW x \in 1..n, NEW y \in 1..n, x < y, ~ Waits(t, x, y), ~ (a[x] <= a[y])
                 PROVE  r[m][1] <= x /\ y <= r[m][2]
    BY DEF InOrder
  <2>2. Waits(r, x, y)
    BY <2>1 DEF InOrder
  <2>3. PICK k \in 1..m : r[k][1] <= x /\ y <= r[k][2]
    BY <1>1, <2>2 DEF Waits
  <2>4. k \notin 1..(m - 1)
    BY <1>2, <2>1, <2>3 DEF Waits
  <2> QED BY <1>2, <2>3, <2>4
<1> QED BY <1>1, <1>3, <1>4

---------------------------------------------------------------------------
(* What each step does, without the answers of the comparison.                  *)

Less == sorder = "less"

LEMMA Answer ==
  ASSUME NEW x, NEW y, NEW less \in sort_comp(x, y), Less
  PROVE  (less => x < y) /\ (~ less => ~ (x < y))
<1>1. less = (x < y)
  BY DEF sort_comp, Less
<1> QED BY <1>1

LEMMA IndexPlaces ==
  ASSUME SortSafe, spc # "idle"
  PROVE  /\ sn \in Nat /\ sn \in 0..MaxElements /\ sl \in 1..(sn + 2) /\ su \in 0..sn
         /\ sl < su => sl \in 1..sn /\ su \in 1..sn /\ sl \in Indices /\ su \in Indices
         /\ spc = "middle" => /\ su - sl >= 2 /\ si \in (sl + 1)..(su - 1)
                              /\ si \in Indices /\ su - 1 \in Indices
                              /\ su - sl = 2 => si = sl + 1
         /\ spc \in {"up", "down", "swap", "part"} => /\ su - sl >= 3 /\ si \in Indices
                                                      /\ su - 1 \in Indices
         /\ spc = "up" => si \in sl..su /\ si + 1 \in Indices /\ sj \in sl..(su - 1)
         /\ spc = "down" => si \in (sl + 1)..(su + 1) /\ sj - 1 \in Indices /\ sj \in sl..(su - 1)
         /\ spc = "swap" => si \in (sl + 1)..sj /\ sj \in sl..(su - 2) /\ sj \in Indices
         /\ spc = "part" => si \in (sl + 1)..(su + 1) /\ sj \in (sl - 1)..(su - 2)
<1>1. /\ sn \in Nat /\ sn \in 0..MaxElements /\ sl \in 1..(sn + 2) /\ su \in 0..sn
      /\ IndexBounds(spc, sl, su, si, sj) /\ MaxElements \in Nat
  BY SortAssumption DEF SortSafe, SortTypes, SortRanges, RangeIn
<1>2. sl < su => sl \in 1..sn /\ su \in 1..sn /\ sl \in Indices /\ su \in Indices
  BY <1>1 DEF Indices
<1>3. spc = "middle" => /\ su - sl >= 2 /\ si \in (sl + 1)..(su - 1)
                        /\ si \in Indices /\ su - 1 \in Indices
                        /\ su - sl = 2 => si = sl + 1
  BY <1>1 DEF Indices, IndexBounds
<1> QED BY <1>1, <1>2, <1>3 DEF Indices, IndexBounds

LEMMA EndsStep ==
  ASSUME SortSafe, SortEnds
  PROVE  /\ sarray' \in SortArrays
         /\ sarray' = sarray \/ Exchange(sarray, sarray', sl, su)
         /\ Less => sarray'[sl] <= sarray'[su]
<1>1. sarray \in SortArrays /\ sl \in Indices /\ su \in Indices
  BY IndexPlaces DEF SortEnds, SortSafe, SortTypes
<1>2. PICK less \in sort_comp(sarray[su], sarray[sl]) : sarray' = IF less THEN Swapped(sl, su) ELSE sarray
  BY DEF SortEnds
<1>3. sarray[sl] \in Nat /\ sarray[su] \in Nat
  BY <1>1, KeysAre
<1>4. CASE less
  <2>1. sarray' \in SortArrays /\ Exchange(sarray, sarray', sl, su)
    BY <1>1, <1>2, <1>4, SwappedExchanges DEF Swapped
  <2>2. Less => sarray[su] < sarray[sl]
    BY <1>4, Answer
  <2> QED BY <1>3, <2>1, <2>2 DEF Exchange
<1>5. CASE ~ less
  <2>1. sarray' = sarray
    BY <1>2, <1>5
  <2>2. Less => ~ (sarray[su] < sarray[sl])
    BY <1>5, Answer
  <2> QED BY <1>1, <1>3, <2>1, <2>2
<1> QED BY <1>4, <1>5

(* c is the array when the element in the middle has been compared.             *)
LEMMA MiddleStep ==
  ASSUME SortSafe, SortMiddle
  PROVE  \E c \in SortArrays :
           /\ c = sarray \/ Exchange(sarray, c, si, sl) \/ Exchange(sarray, c, si, su)
           /\ sarray' \in SortArrays
           /\ su - sl = 2 => sarray' = c
           /\ su - sl # 2 => Exchange(c, sarray', si, su - 1)
           /\ Less /\ sarray[sl] <= sarray[su] => c[sl] <= c[si] /\ c[si] <= c[su]
<1>1. /\ sarray \in SortArrays /\ sl \in Indices /\ su \in Indices /\ si \in Indices /\ su - 1 \in Indices
      /\ si # sl /\ si # su
  BY IndexPlaces DEF SortMiddle, SortSafe, SortTypes
<1>2. PICK low \in sort_comp(sarray[si], sarray[sl]), high \in sort_comp(sarray[su], sarray[si]) :
        LET pivoted(a) == IF su - sl = 2 THEN a ELSE [a EXCEPT ![si] = a[su - 1], ![su - 1] = a[si]]
        IN sarray' = pivoted(CASE low -> Swapped(si, sl) [] ~low /\ high -> Swapped(si, su) [] OTHER -> sarray)
  BY DEF SortMiddle
<1>3. PICK c : c = CASE low -> Swapped(si, sl) [] ~low /\ high -> Swapped(si, su) [] OTHER -> sarray
  OBVIOUS
<1>4. sarray' = IF su - sl = 2 THEN c ELSE [c EXCEPT ![si] = c[su - 1], ![su - 1] = c[si]]
  BY <1>2, <1>3
<1>5. sarray[sl] \in Nat /\ sarray[su] \in Nat /\ sarray[si] \in Nat
  BY <1>1, KeysAre
<1>6. /\ c \in SortArrays
      /\ c = sarray \/ Exchange(sarray, c, si, sl) \/ Exchange(sarray, c, si, su)
      /\ Less /\ sarray[sl] <= sarray[su] => c[sl] <= c[si] /\ c[si] <= c[su]
  <2>1. CASE low
    <3>1. c = Swapped(si, sl)
      BY <1>3, <2>1
    <3>2. c \in SortArrays /\ Exchange(sarray, c, si, sl)
      BY <1>1, <3>1, SwappedExchanges DEF Swapped
    <3>3. Less => sarray[si] < sarray[sl]
      BY <2>1, Answer
    <3>4. sl # su
      BY IndexPlaces DEF SortMiddle
    <3>5. c[si] = sarray[sl] /\ c[sl] = sarray[si] /\ c[su] = sarray[su]
      BY <1>1, <3>2, <3>4 DEF Exchange
    <3> QED BY <1>5, <3>2, <3>3, <3>5
  <2>2. CASE ~ low /\ high
    <3>1. c = Swapped(si, su)
      BY <1>3, <2>2
    <3>2. c \in SortArrays /\ Exchange(sarray, c, si, su)
      BY <1>1, <3>1, SwappedExchanges DEF Swapped
    <3>3. Less => sarray[su] < sarray[si]
      BY <2>2, Answer
    <3>4. sl # su
      BY IndexPlaces DEF SortMiddle
    <3>5. c[si] = sarray[su] /\ c[su] = sarray[si] /\ c[sl] = sarray[sl]
      BY <1>1, <3>2, <3>4 DEF Exchange
    <3> QED BY <1>5, <3>2, <3>3, <3>5
  <2>3. CASE ~ low /\ ~ high
    <3>1. c = sarray
      BY <1>3, <2>3
    <3>2. Less => ~ (sarray[si] < sarray[sl]) /\ ~ (sarray[su] < sarray[si])
      BY <2>3, Answer
    <3> QED BY <1>1, <1>5, <3>1, <3>2
  <2> QED BY <2>1, <2>2, <2>3
<1>7. su - sl # 2 => sarray' \in SortArrays /\ Exchange(c, sarray', si, su - 1)
  BY <1>1, <1>4, <1>6, SwappedExchanges
<1>8. su - sl = 2 => sarray' = c
  BY <1>4
<1> QED BY <1>6, <1>7, <1>8

LEMMA UpStep ==
  ASSUME SortSafe, SortUp
  PROVE  \/ spc' = "down" /\ (Less => sarray[su - 1] <= sarray[si + 1])
         \/ /\ spc' = IF si + 1 > su THEN "error" ELSE "up"
            /\ Less => sarray[si + 1] < sarray[su - 1]
<1>1. sarray[si + 1] \in Nat /\ sarray[su - 1] \in Nat
  BY IndexPlaces, KeysAre DEF SortUp, SortSafe, SortTypes
<1>2. PICK less \in sort_comp(sarray[si + 1], sarray[su - 1]) :
        spc' = IF ~less THEN "down" ELSE IF si + 1 > su THEN "error" ELSE "up"
  BY DEF SortUp
<1>3. CASE less
  <2>1. Less => sarray[si + 1] < sarray[su - 1]
    BY <1>3, Answer
  <2> QED BY <1>2, <1>3, <2>1
<1>4. CASE ~ less
  <2>1. Less => ~ (sarray[si + 1] < sarray[su - 1])
    BY <1>4, Answer
  <2> QED BY <1>1, <1>2, <1>4, <2>1
<1> QED BY <1>3, <1>4

LEMMA DownStep ==
  ASSUME SortSafe, SortDown
  PROVE  \/ /\ spc' = IF sj - 1 < sl THEN "error" ELSE "down"
            /\ Less => sarray[su - 1] < sarray[sj - 1]
         \/ /\ spc' = IF sj - 1 < si THEN "part" ELSE "swap"
            /\ Less => sarray[sj - 1] <= sarray[su - 1]
<1>1. sarray[sj - 1] \in Nat /\ sarray[su - 1] \in Nat
  BY IndexPlaces, KeysAre DEF SortDown, SortSafe, SortTypes
<1>2. PICK less \in sort_comp(sarray[su - 1], sarray[sj - 1]) :
        spc' = IF less THEN (IF sj - 1 < sl THEN "error" ELSE "down")
               ELSE IF sj - 1 < si THEN "part" ELSE "swap"
  BY DEF SortDown
<1>3. CASE less
  <2>1. Less => sarray[su - 1] < sarray[sj - 1]
    BY <1>3, Answer
  <2> QED BY <1>2, <1>3, <2>1
<1>4. CASE ~ less
  <2>1. Less => ~ (sarray[su - 1] < sarray[sj - 1])
    BY <1>4, Answer
  <2> QED BY <1>1, <1>2, <1>4, <2>1
<1> QED BY <1>3, <1>4

LEMMA SwapStep ==
  ASSUME SortSafe, SortSwap
  PROVE  sarray' \in SortArrays /\ Exchange(sarray, sarray', si, sj)
<1>1. sarray \in SortArrays /\ si \in Indices /\ sj \in Indices
  BY IndexPlaces DEF SortSwap, SortSafe, SortTypes
<1> QED BY <1>1, SwappedExchanges DEF SortSwap, Swapped

(* Of the ranges beside the pivot one waits and the other is sorted.            *)
LEMMA PartStep ==
  ASSUME SortSafe, SortPart
  PROVE  /\ sarray' \in SortArrays /\ Exchange(sarray, sarray', su - 1, si)
         /\ \E l1, u1 \in Int :
              /\ sstack' = Append(sstack, <<l1, u1>>)
              /\ sl' \in Int /\ su' \in Int
              /\ \/ l1 = sl /\ u1 = si - 1 /\ sl' = si + 1 /\ su' = su
                 \/ sl' = sl /\ su' = si - 1 /\ l1 = si + 1 /\ u1 = su
<1>1. /\ sarray \in SortArrays /\ si \in Indices /\ su - 1 \in Indices
      /\ si \in Int /\ sl \in Int /\ su \in Int
  BY IndexPlaces DEF SortPart, SortSafe, SortTypes
<1>2. sarray' \in SortArrays /\ Exchange(sarray, sarray', su - 1, si)
  BY <1>1, SwappedExchanges DEF SortPart, Swapped
<1>3. CASE si - sl < su - si
  <2>1. sstack' = Append(sstack, <<si + 1, su>>) /\ sl' = sl /\ su' = si - 1
    BY <1>3 DEF SortPart
  <2> QED BY <1>1, <1>2, <2>1
<1>4. CASE ~ (si - sl < su - si)
  <2>1. sstack' = Append(sstack, <<sl, si - 1>>) /\ sl' = si + 1 /\ su' = su
    BY <1>4 DEF SortPart
  <2> QED BY <1>1, <1>2, <2>1
<1> QED BY <1>3, <1>4

---------------------------------------------------------------------------
(* The indices stay where they may be, whatever the comparison answers.         *)

LEMMA SafeStill ==
  ASSUME SortSafe, sarray' \in SortArrays, spc' \in SortPlaces, UNCHANGED <<sn, sorder, sstack>>,
         spc \notin {"idle", "sorted"}, spc' \notin {"idle", "sorted"},
         sl' = sl, su' = su, si' \in Int, sj' \in Int, IndexBounds(spc', sl, su, si', sj')
  PROVE  SortSafe'
<1>1. SortTypes'
  BY DEF SortSafe, SortTypes
<1>2. SortRanges'
  BY DEF SortSafe, SortRanges
<1>3. IndexBounds(spc, sl, su, si, sj)'
  BY DEF IndexBounds
<1> QED BY <1>1, <1>2, <1>3 DEF SortSafe

LEMMA SortStarts ==
  ASSUME SortSafe, Sort
  PROVE  SortSafe' /\ spc' = "ends" /\ sstack' = <<>> /\ sl' = 1 /\ su' = sn'
<1>1. PICK n \in 0..MaxElements, order \in {"less", "any"} : \E a \in [1..n -> SortKeys] :
        /\ sarray' = [k \in Indices |-> IF k \in 1..n THEN a[k] ELSE Absent]
        /\ sn' = n /\ sorder' = order /\ su' = n
  BY DEF Sort
<1>2. spc' = "ends" /\ sl' = 1 /\ si' = si /\ sj' = sj /\ sstack' = <<>> /\ sstack \in Pairs
  BY DEF Sort, SortSafe, SortRanges, SortTypes
<1>3. sarray' \in SortArrays
  <2>1. PICK a \in [1..n -> SortKeys] : sarray' = [k \in Indices |-> IF k \in 1..n THEN a[k] ELSE Absent]
    BY <1>1
  <2> QED BY <2>1 DEF SortArrays
<1>4. SortTypes'
  <2>1. sn' \in 0..MaxElements /\ su' \in Int /\ sl' \in Int /\ sorder' \in {"less", "any"}
    BY <1>1, <1>2, SortAssumption
  <2>2. si' \in Int /\ sj' \in Int /\ sstack' \in Pairs /\ spc' \in SortPlaces
    BY <1>2 DEF SortSafe, SortTypes, SortPlaces, Pairs
  <2> QED BY <1>3, <2>1, <2>2 DEF SortTypes
<1>5. SortRanges'
  BY <1>1, <1>2, SortAssumption DEF SortRanges, RangeIn
<1>6. IndexBounds(spc, sl, su, si, sj)'
  BY <1>2 DEF IndexBounds
<1> QED BY <1>1, <1>2, <1>4, <1>5, <1>6 DEF SortSafe

LEMMA EndsSafe == ASSUME SortSafe, SortEnds PROVE SortSafe'
<1>1. /\ sarray' \in SortArrays /\ sl \in Int /\ su \in Int /\ sj \in Int /\ spc = "ends" /\ sl < su
      /\ spc' = IF su - sl = 1 THEN "return" ELSE "middle"
      /\ si' = (sl + su) \div 2 /\ sl' = sl /\ su' = su /\ sj' = sj /\ UNCHANGED <<sn, sorder, sstack>>
  BY EndsStep DEF SortEnds, SortSafe, SortTypes, Kept
<1>2. si' \in Int
  BY <1>1
<1>3. IndexBounds(spc', sl, su, si', sj')
  BY <1>1 DEF IndexBounds
<1> QED BY <1>1, <1>2, <1>3, SafeStill DEF SortPlaces, Partitions

LEMMA EmptySafe == ASSUME SortSafe, SortEmpty PROVE SortSafe'
<1>1. /\ sarray' \in SortArrays /\ spc = "ends" /\ spc' = "return" /\ si' \in Int /\ sj' \in Int
      /\ sl' = sl /\ su' = su /\ UNCHANGED <<sn, sorder, sstack>>
  BY DEF SortEmpty, SortSafe, SortTypes, Kept
<1>2. IndexBounds(spc', sl, su, si', sj')
  BY <1>1 DEF IndexBounds
<1> QED BY <1>1, <1>2, SafeStill DEF SortPlaces

LEMMA MiddleSafe == ASSUME SortSafe, SortMiddle PROVE SortSafe'
<1>1. /\ sarray' \in SortArrays /\ spc = "middle" /\ spc' = IF su - sl = 2 THEN "return" ELSE "up"
      /\ si' = sl /\ sj' = su - 1 /\ sl' = sl /\ su' = su /\ UNCHANGED <<sn, sorder, sstack>>
  BY MiddleStep DEF SortMiddle, Kept
<1>2. sl \in Int /\ su \in Int /\ su - sl >= 2
  BY <1>1, IndexPlaces
<1>3. IndexBounds(spc', sl, su, si', sj')
  BY <1>1, <1>2 DEF IndexBounds
<1> QED BY <1>1, <1>2, <1>3, SafeStill DEF SortPlaces, Partitions

LEMMA UpSafe == ASSUME SortSafe, SortUp PROVE SortSafe'
<1>1. /\ sarray' \in SortArrays /\ spc = "up" /\ si' = si + 1 /\ sj' = sj /\ sl' = sl /\ su' = su
      /\ UNCHANGED <<sn, sorder, sstack>>
  BY DEF SortUp, SortSafe, SortTypes, Kept
<1>2. /\ sl \in Int /\ su \in Int /\ su - sl >= 3 /\ si \in sl..su /\ sj \in sl..(su - 1)
      /\ spc' = "down" \/ spc' = IF si + 1 > su THEN "error" ELSE "up"
  BY <1>1, IndexPlaces, UpStep
<1>3. IndexBounds(spc', sl, su, si', sj')
  BY <1>1, <1>2 DEF IndexBounds
<1> QED BY <1>1, <1>2, <1>3, SafeStill DEF SortPlaces, Partitions

LEMMA DownSafe == ASSUME SortSafe, SortDown PROVE SortSafe'
<1>1. /\ sarray' \in SortArrays /\ spc = "down" /\ si' = si /\ sj' = sj - 1 /\ sl' = sl /\ su' = su
      /\ UNCHANGED <<sn, sorder, sstack>>
  BY DEF SortDown, SortSafe, SortTypes, Kept
<1>2. /\ sl \in Int /\ su \in Int /\ su - sl >= 3 /\ si \in (sl + 1)..(su + 1) /\ sj \in sl..(su - 1)
      /\ \/ spc' = IF sj - 1 < sl THEN "error" ELSE "down"
         \/ spc' = IF sj - 1 < si THEN "part" ELSE "swap"
  BY <1>1, IndexPlaces, DownStep
<1>3. IndexBounds(spc', sl, su, si', sj')
  BY <1>1, <1>2 DEF IndexBounds
<1> QED BY <1>1, <1>2, <1>3, SafeStill DEF SortPlaces, Partitions

LEMMA SwapSafe == ASSUME SortSafe, SortSwap PROVE SortSafe'
<1>1. /\ sarray' \in SortArrays /\ spc = "swap" /\ spc' = "up" /\ si' = si /\ sj' = sj /\ sl' = sl /\ su' = su
      /\ UNCHANGED <<sn, sorder, sstack>>
  BY SwapStep DEF SortSwap, Kept
<1>2. /\ sl \in Int /\ su \in Int /\ su - sl >= 3 /\ si \in (sl + 1)..sj /\ sj \in sl..(su - 2)
  BY <1>1, IndexPlaces
<1>3. IndexBounds(spc', sl, su, si', sj')
  BY <1>1, <1>2 DEF IndexBounds
<1> QED BY <1>1, <1>2, <1>3, SafeStill DEF SortPlaces, Partitions

LEMMA PartSafe == ASSUME SortSafe, SortPart PROVE SortSafe'
<1>1. /\ sarray' \in SortArrays /\ spc = "part" /\ spc' = "ends" /\ si' = si /\ sj' = sj
      /\ UNCHANGED <<sn, sorder>>
  BY PartStep DEF SortPart, Kept
<1>2. /\ sn \in Nat /\ sl \in 1..(sn + 2) /\ su \in 0..sn /\ si \in (sl + 1)..(su + 1)
  BY <1>1, IndexPlaces
<1>3. PICK l1 \in Int, u1 \in Int :
        /\ sstack' = Append(sstack, <<l1, u1>>) /\ sl' \in Int /\ su' \in Int
        /\ \/ l1 = sl /\ u1 = si - 1 /\ sl' = si + 1 /\ su' = su
           \/ sl' = sl /\ su' = si - 1 /\ l1 = si + 1 /\ u1 = su
  BY PartStep
<1>4. RangeIn(l1, u1, sn) /\ RangeIn(sl', su', sn)
  BY <1>2, <1>3 DEF RangeIn
<1>5. SortTypes'
  <2>1. sstack' \in Pairs
    BY <1>3 DEF SortSafe, SortTypes, Pairs
  <2> QED BY <1>1, <1>3, <2>1 DEF SortSafe, SortTypes, SortPlaces
<1>6. SortRanges'
  <2>1. /\ Len(sstack') = Len(sstack) + 1 /\ sstack'[Len(sstack) + 1] = <<l1, u1>>
        /\ \A k \in 1..Len(sstack) : sstack'[k] = sstack[k]
        /\ Len(sstack) \in Nat
    BY <1>3 DEF SortSafe, SortTypes, Pairs
  <2>2. ASSUME NEW k \in 1..Len(sstack') PROVE RangeIn(sstack'[k][1], sstack'[k][2], sn')
    <3>1. CASE k = Len(sstack) + 1
      BY <1>1, <1>4, <2>1, <3>1
    <3>2. CASE k \in 1..Len(sstack)
      BY <1>1, <2>1, <3>2 DEF SortSafe, SortRanges
    <3> QED BY <2>1, <3>1, <3>2
  <2> QED BY <1>1, <1>4, <2>2 DEF SortRanges
<1>7. IndexBounds(spc, sl, su, si, sj)'
  BY <1>1 DEF IndexBounds
<1> QED BY <1>5, <1>6, <1>7 DEF SortSafe

LEMMA ReturnSafe == ASSUME SortSafe, SortReturn PROVE SortSafe'
<1>1. /\ sarray' = sarray /\ spc = "return" /\ si' = si /\ sj' = sj /\ UNCHANGED <<sn, sorder>>
      /\ sstack \in Pairs
  BY DEF SortReturn, Kept, SortSafe, SortTypes
<1>2. CASE sstack = <<>>
  <2>1. spc' = "sorted" /\ UNCHANGED <<sl, su, sstack>>
    BY <1>2 DEF SortReturn
  <2>2. SortTypes'
    BY <1>1, <2>1 DEF SortSafe, SortTypes, SortPlaces
  <2>3. SortRanges'
    BY <1>1, <1>2, <2>1 DEF SortSafe, SortRanges
  <2>4. IndexBounds(spc, sl, su, si, sj)'
    BY <2>1 DEF IndexBounds
  <2> QED BY <2>2, <2>3, <2>4 DEF SortSafe
<1>3. CASE sstack # <<>>
  <2>1. /\ sl' = sstack[Len(sstack)][1] /\ su' = sstack[Len(sstack)][2] /\ spc' = "ends"
        /\ sstack' = SubSeq(sstack, 1, Len(sstack) - 1)
    BY <1>3 DEF SortReturn
  <2>2. /\ Len(sstack) \in Nat \ {0} /\ sstack' \in Pairs /\ Len(sstack') = Len(sstack) - 1
        /\ \A k \in 1..(Len(sstack) - 1) : sstack'[k] = sstack[k]
    BY <1>1, <1>3, <2>1, FrontAndLast DEF Pairs
  <2>3. \A k \in 1..Len(sstack) : RangeIn(sstack[k][1], sstack[k][2], sn)
    BY DEF SortSafe, SortRanges
  <2>4. RangeIn(sl', su', sn') /\ \A k \in 1..Len(sstack') : RangeIn(sstack'[k][1], sstack'[k][2], sn')
    BY <1>1, <2>1, <2>2, <2>3
  <2>5. SortTypes'
    <3>1. sl' \in Int /\ su' \in Int
      BY <2>1, <2>2, <1>1, PairsAre
    <3> QED BY <1>1, <2>1, <2>2, <3>1 DEF SortSafe, SortTypes, SortPlaces
  <2>6. SortRanges'
    BY <2>1, <2>4 DEF SortRanges
  <2>7. IndexBounds(spc, sl, su, si, sj)'
    BY <2>1 DEF IndexBounds
  <2> QED BY <2>5, <2>6, <2>7 DEF SortSafe
<1> QED BY <1>2, <1>3

---------------------------------------------------------------------------
(* Under an order, each step keeps what is known of it.                         *)

Sorting == SortSafe /\ Less /\ SortOrder

LEMMA OrderStill ==
  ASSUME SortOrder, UNCHANGED <<sn, sstack>>,
         spc' \in Partitions \cup {"ends"} => OffRanges(sstack, sl', su') /\ InOrder(sarray', sn, sstack, sl', su'),
         spc' \in {"return", "sorted"} => InOrder(sarray', sn, sstack, 1, 0),
         Partition(spc', sarray', sl', su', si', sj')
  PROVE  SortOrder'
<1>1. RangesApart(sstack)'
  BY DEF SortOrder, RangesApart
<1>2. (spc \in Partitions \cup {"ends"} => OffRanges(sstack, sl, su) /\ InOrder(sarray, sn, sstack, sl, su))'
  BY DEF OffRanges, InOrder, Partitions
<1>3. (spc \in {"return", "sorted"} => InOrder(sarray, sn, sstack, 1, 0))'
  BY DEF InOrder
<1>4. Partition(spc, sarray, sl, su, si, sj)'
  BY DEF Partition, AtMost, AtLeast
<1> QED BY <1>1, <1>2, <1>3, <1>4 DEF SortOrder

LEMMA OrderStarts == ASSUME SortSafe, Sort PROVE SortOrder'
<1>1. spc' = "ends" /\ sstack' = <<>> /\ sl' = 1 /\ su' = sn'
  BY SortStarts
<1>2. (RangesApart(sstack) /\ OffRanges(sstack, sl, su))'
  BY <1>1 DEF RangesApart, OffRanges
<1>3. InOrder(sarray, sn, sstack, sl, su)'
  BY <1>1 DEF InOrder
<1>4. Partition(spc, sarray, sl, su, si, sj)'
  BY <1>1 DEF Partition
<1> QED BY <1>1, <1>2, <1>3, <1>4 DEF SortOrder

LEMMA EndsOrder == ASSUME Sorting, SortEnds PROVE SortOrder'
<1>1. /\ sn \in Nat /\ sn \in 0..MaxElements /\ sstack \in Pairs /\ sarray \in SortArrays
      /\ spc = "ends" /\ sl < su /\ sl \in 1..sn /\ su \in 1..sn
      /\ spc' = IF su - sl = 1 THEN "return" ELSE "middle"
      /\ sl' = sl /\ su' = su /\ UNCHANGED <<sn, sstack>>
  BY IndexPlaces DEF Sorting, SortEnds, SortSafe, SortTypes, Kept
<1>2. sarray' \in SortArrays /\ sarray'[sl] <= sarray'[su] /\ (sarray' = sarray \/ Exchange(sarray, sarray', sl, su))
  BY EndsStep DEF Sorting
<1>3. OffRanges(sstack, sl, su) /\ InOrder(sarray, sn, sstack, sl, su)
  BY <1>1 DEF Sorting, SortOrder
<1>4. InOrder(sarray', sn, sstack, sl, su)
  <2>1. CASE sarray' = sarray
    BY <1>3, <2>1
  <2>2. CASE Exchange(sarray, sarray', sl, su)
    <3>1. sl \in sl..su /\ su \in sl..su
      BY <1>1
    <3>2. Within(sarray, sarray', sl, su, sn)
      BY <1>1, <2>2, <3>1, WithinExchange
    <3> QED BY <1>1, <1>3, <3>2, Shuffle
  <2> QED BY <1>2, <2>1, <2>2
<1>5. su - sl = 1 => InOrder(sarray', sn, sstack, 1, 0)
  <2>1. SUFFICES ASSUME su - sl = 1 PROVE InOrder(sarray', sn, sstack, 1, 0)
    OBVIOUS
  <2>2. \A x, y \in sl..su : x < y => sarray'[x] <= sarray'[y]
    BY <1>1, <1>2, <2>1
  <2> QED BY <1>1, <1>4, <2>2, InOrderClosed
<1>6. Partition(spc', sarray', sl', su', si', sj')
  BY <1>1, <1>2 DEF Partition
<1> QED BY <1>1, <1>3, <1>4, <1>5, <1>6, OrderStill DEF Sorting, Partitions

LEMMA EmptyOrder == ASSUME Sorting, SortEmpty PROVE SortOrder'
<1>1. /\ sn \in Nat /\ sl \in Int /\ su \in Int /\ spc = "ends" /\ sl >= su /\ spc' = "return"
      /\ sarray' = sarray /\ UNCHANGED <<sn, sstack>>
  BY IndexPlaces DEF Sorting, SortEmpty, SortSafe, SortTypes, Kept
<1>2. InOrder(sarray, sn, sstack, sl, su)
  BY <1>1 DEF Sorting, SortOrder
<1>3. InOrder(sarray', sn, sstack, 1, 0)
  <2>1. \A x, y \in sl..su : x < y => sarray[x] <= sarray[y]
    BY <1>1
  <2> QED BY <1>1, <1>2, <2>1, InOrderClosed
<1>4. Partition(spc', sarray', sl', su', si', sj')
  BY <1>1 DEF Partition
<1> QED BY <1>1, <1>3, <1>4, OrderStill DEF Sorting, Partitions

LEMMA MiddleOrder == ASSUME Sorting, SortMiddle PROVE SortOrder'
<1>1. /\ sn \in Nat /\ sn \in 0..MaxElements /\ sstack \in Pairs /\ sarray \in SortArrays
      /\ spc = "middle" /\ sl < su /\ sl \in 1..sn /\ su \in 1..sn
      /\ su - sl >= 2 /\ si \in (sl + 1)..(su - 1) /\ (su - sl = 2 => si = sl + 1)
      /\ sl \in Indices /\ su \in Indices /\ si \in Indices /\ su - 1 \in Indices
  <2>1. spc = "middle"
    BY DEF SortMiddle
  <2>2. sstack \in Pairs /\ sarray \in SortArrays /\ SortSafe /\ spc # "idle"
    BY <2>1 DEF Sorting, SortSafe, SortTypes
  <2> QED BY <2>1, <2>2, IndexPlaces
<1>2. /\ spc' = IF su - sl = 2 THEN "return" ELSE "up"
      /\ si' = sl /\ sj' = su - 1 /\ sl' = sl /\ su' = su /\ UNCHANGED <<sn, sstack>>
  BY DEF SortMiddle, Kept
<1>3. OffRanges(sstack, sl, su) /\ InOrder(sarray, sn, sstack, sl, su) /\ sarray[sl] <= sarray[su]
  BY <1>1 DEF Sorting, SortOrder, Partitions, Partition
<1>4. PICK c \in SortArrays :
        /\ c = sarray \/ Exchange(sarray, c, si, sl) \/ Exchange(sarray, c, si, su)
        /\ sarray' \in SortArrays
        /\ su - sl = 2 => sarray' = c
        /\ su - sl # 2 => Exchange(c, sarray', si, su - 1)
        /\ c[sl] <= c[si] /\ c[si] <= c[su]
  BY <1>3, MiddleStep DEF Sorting
<1>5. InOrder(c, sn, sstack, sl, su)
  <2>1. CASE c = sarray
    BY <1>3, <2>1
  <2>2. CASE Exchange(sarray, c, si, sl) \/ Exchange(sarray, c, si, su)
    <3>1. sl \in sl..su /\ su \in sl..su /\ si \in sl..su
      BY <1>1
    <3>2. Within(sarray, c, sl, su, sn)
      BY <1>1, <2>2, <3>1, WithinExchange
    <3> QED BY <1>1, <1>3, <3>2, Shuffle
  <2> QED BY <1>4, <2>1, <2>2
<1>6. CASE su - sl = 2
  <2>1. \A x, y \in sl..su : x < y => c[x] <= c[y]
    <3>1. c[sl] \in Nat /\ c[si] \in Nat /\ c[su] \in Nat
      BY <1>1, KeysAre
    <3> QED BY <1>1, <1>4, <1>6, <3>1
  <2>2. InOrder(sarray', sn, sstack, 1, 0)
    BY <1>1, <1>4, <1>5, <1>6, <2>1, InOrderClosed
  <2>3. Partition(spc', sarray', sl', su', si', sj')
    BY <1>2, <1>6 DEF Partition
  <2> QED BY <1>2, <1>6, <2>2, <2>3, OrderStill DEF Sorting, Partitions
<1>7. CASE su - sl # 2
  <2>1. Exchange(c, sarray', si, su - 1) /\ spc' = "up" /\ su - sl >= 3
    BY <1>1, <1>2, <1>4, <1>7
  <2>2. InOrder(sarray', sn, sstack, sl, su)
    <3>1. si \in sl..su /\ su - 1 \in sl..su
      BY <1>1
    <3>2. Within(c, sarray', sl, su, sn)
      BY <1>1, <2>1, <3>1, WithinExchange
    <3> QED BY <1>1, <1>3, <1>5, <3>2, Shuffle
  <2>3. /\ sarray'[su - 1] = c[si] /\ sarray'[sl] = c[sl] /\ sarray'[su] = c[su]
        /\ sarray'[su - 1] \in Nat
    <3>1. sl # si /\ sl # su - 1 /\ su # si /\ su # su - 1
      BY <1>1, <2>1
    <3>2. sarray'[su - 1] \in Nat
      BY <1>1, <1>4, KeysAre
    <3> QED BY <1>1, <2>1, <3>1, <3>2 DEF Exchange
  <2>4. AtMost(sarray', sl, sl, sarray'[su - 1]) /\ AtLeast(sarray', su - 1, su, sarray'[su - 1])
    <3>1. \A k \in sl..sl : k = sl
      BY <1>1
    <3>2. \A k \in (su - 1)..su : k = su - 1 \/ k = su
      BY <1>1
    <3> QED BY <1>4, <2>3, <3>1, <3>2 DEF AtMost, AtLeast
  <2>5. Partition(spc', sarray', sl', su', si', sj')
    BY <1>1, <1>2, <2>1, <2>4 DEF Partition
  <2> QED BY <1>2, <1>3, <2>1, <2>2, <2>5, OrderStill DEF Sorting, Partitions
<1> QED BY <1>6, <1>7

LEMMA UpOrder == ASSUME Sorting, SortUp PROVE SortOrder'
<1>1. /\ spc = "up" /\ sl \in Int /\ su \in Int /\ su - sl >= 3 /\ si \in sl..su /\ sj \in sl..(su - 1)
  BY IndexPlaces DEF SortUp, Sorting
<1>2. si' = si + 1 /\ sj' = sj /\ sl' = sl /\ su' = su /\ sarray' = sarray /\ UNCHANGED <<sn, sstack>>
  BY DEF SortUp, Kept
<1>3. /\ OffRanges(sstack, sl, su) /\ InOrder(sarray, sn, sstack, sl, su)
      /\ si <= su - 2 /\ sj > sl
      /\ AtMost(sarray, sl, si, sarray[su - 1]) /\ AtLeast(sarray, sj, su, sarray[su - 1])
  BY <1>1 DEF Sorting, SortOrder, Partitions, Partition
<1>4. /\ sarray[si + 1] \in Nat /\ sarray[su - 1] \in Nat
  BY <1>1, IndexPlaces, KeysAre DEF Sorting, SortSafe, SortTypes
<1>5. CASE spc' = "down" /\ sarray[su - 1] <= sarray[si + 1]
  <2>1. si + 1 - 1 = si /\ si + 1 <= su - 1
    BY <1>1, <1>3
  <2>2. AtMost(sarray', sl', si' - 1, sarray'[su' - 1]) /\ AtLeast(sarray', sj', su', sarray'[su' - 1])
    <3>1. si' - 1 = si /\ sarray'[su' - 1] = sarray[su - 1]
      BY <1>1, <1>2
    <3>2. sl' = sl /\ su' = su /\ sj' = sj /\ sarray' = sarray
      BY <1>2
    <3> QED BY <1>3, <3>1, <3>2 DEF AtMost, AtLeast
  <2>3. Partition(spc', sarray', sl', su', si', sj')
    BY <1>2, <1>3, <1>5, <2>1, <2>2 DEF Partition
  <2> QED BY <1>2, <1>3, <1>5, <2>3, OrderStill DEF Sorting, Partitions
<1>6. CASE spc' = (IF si + 1 > su THEN "error" ELSE "up") /\ sarray[si + 1] < sarray[su - 1]
  <2>1. si + 1 # su - 1
    BY <1>4, <1>6
  <2>2. spc' = "up" /\ si + 1 <= su - 2
    BY <1>1, <1>3, <1>6, <2>1
  <2>3. AtMost(sarray, sl, si + 1, sarray[su - 1])
    <3>1. \A k \in sl..(si + 1) : k \in sl..si \/ k = si + 1
      BY <1>1
    <3>2. sarray[si + 1] <= sarray[su - 1]
      BY <1>4, <1>6
    <3> QED BY <1>3, <3>1, <3>2 DEF AtMost
  <2>4. Partition(spc', sarray', sl', su', si', sj')
    BY <1>2, <1>3, <2>2, <2>3 DEF Partition
  <2> QED BY <1>2, <1>3, <2>2, <2>4, OrderStill DEF Sorting, Partitions
<1> QED BY <1>5, <1>6, UpStep DEF Sorting

LEMMA DownOrder == ASSUME Sorting, SortDown PROVE SortOrder'
<1>1. /\ spc = "down" /\ sl \in Int /\ su \in Int /\ su - sl >= 3 /\ si \in (sl + 1)..(su + 1)
      /\ sj \in sl..(su - 1)
  BY IndexPlaces DEF SortDown, Sorting
<1>2. si' = si /\ sj' = sj - 1 /\ sl' = sl /\ su' = su /\ sarray' = sarray /\ UNCHANGED <<sn, sstack>>
  BY DEF SortDown, Kept
<1>3. /\ OffRanges(sstack, sl, su) /\ InOrder(sarray, sn, sstack, sl, su)
      /\ si <= su - 1 /\ sj > sl
      /\ AtMost(sarray, sl, si - 1, sarray[su - 1]) /\ AtLeast(sarray, sj, su, sarray[su - 1])
      /\ sarray[su - 1] <= sarray[si]
  BY <1>1 DEF Sorting, SortOrder, Partitions, Partition
<1>4. /\ sarray[sj - 1] \in Nat /\ sarray[su - 1] \in Nat
  BY <1>1, IndexPlaces, KeysAre DEF Sorting, SortSafe, SortTypes
<1>5. CASE spc' = (IF sj - 1 < sl THEN "error" ELSE "down") /\ sarray[su - 1] < sarray[sj - 1]
  <2>1. sarray[sl] <= sarray[su - 1]
    <3>1. sl \in sl..(si - 1)
      BY <1>1
    <3> QED BY <1>3, <3>1 DEF AtMost
  <2>2. sj - 1 # sl
    BY <1>4, <1>5, <2>1
  <2>3. spc' = "down" /\ sj - 1 > sl
    BY <1>1, <1>3, <1>5, <2>2
  <2>4. AtLeast(sarray, sj - 1, su, sarray[su - 1])
    <3>1. \A k \in (sj - 1)..su : k \in sj..su \/ k = sj - 1
      BY <1>1
    <3>2. sarray[su - 1] <= sarray[sj - 1]
      BY <1>4, <1>5
    <3> QED BY <1>3, <3>1, <3>2 DEF AtLeast
  <2>5. Partition(spc', sarray', sl', su', si', sj')
    BY <1>2, <1>3, <2>3, <2>4 DEF Partition
  <2> QED BY <1>2, <1>3, <2>3, <2>5, OrderStill DEF Sorting, Partitions
<1>6. CASE spc' = (IF sj - 1 < si THEN "part" ELSE "swap") /\ sarray[sj - 1] <= sarray[su - 1]
  <2>1. CASE sj - 1 < si
    <3>1. AtLeast(sarray, si, su, sarray[su - 1])
      <4>1. \A k \in si..su : k \in sj..su \/ k = si
        BY <1>1, <2>1
      <4> QED BY <1>3, <4>1 DEF AtLeast
    <3>2. spc' = "part" /\ sj - 1 >= sl
      BY <1>1, <1>3, <1>6, <2>1
    <3>3. Partition(spc', sarray', sl', su', si', sj')
      BY <1>2, <1>3, <3>1, <3>2 DEF Partition
    <3> QED BY <1>2, <1>3, <3>2, <3>3, OrderStill DEF Sorting, Partitions
  <2>2. CASE ~ (sj - 1 < si)
    <3>1. spc' = "swap" /\ sj - 1 + 1 = sj
      BY <1>1, <1>6, <2>2
    <3>2. Partition(spc', sarray', sl', su', si', sj')
      BY <1>2, <1>3, <1>6, <3>1 DEF Partition
    <3> QED BY <1>2, <1>3, <3>1, <3>2, OrderStill DEF Sorting, Partitions
  <2> QED BY <2>1, <2>2
<1> QED BY <1>5, <1>6, DownStep DEF Sorting

LEMMA SwapOrder == ASSUME Sorting, SortSwap PROVE SortOrder'
<1>1. /\ sn \in Nat /\ sn \in 0..MaxElements /\ sstack \in Pairs /\ sl \in 1..sn /\ su \in 1..sn
      /\ spc = "swap" /\ su - sl >= 3 /\ si \in (sl + 1)..sj /\ sj \in sl..(su - 2)
  <2>1. SortSafe /\ spc = "swap" /\ sstack \in Pairs
    BY DEF SortSwap, Sorting, SortSafe, SortTypes
  <2> QED BY <2>1, IndexPlaces
<1>2. spc' = "up" /\ si' = si /\ sj' = sj /\ sl' = sl /\ su' = su /\ UNCHANGED <<sn, sstack>>
  BY DEF SortSwap, Kept
<1>3. /\ OffRanges(sstack, sl, su) /\ InOrder(sarray, sn, sstack, sl, su)
      /\ AtMost(sarray, sl, si - 1, sarray[su - 1]) /\ AtLeast(sarray, sj + 1, su, sarray[su - 1])
      /\ sarray[su - 1] <= sarray[si] /\ sarray[sj] <= sarray[su - 1]
  BY <1>1 DEF Sorting, SortOrder, Partitions, Partition
<1>4. sarray' \in SortArrays /\ Exchange(sarray, sarray', si, sj)
  BY SwapStep DEF Sorting
<1>5. InOrder(sarray', sn, sstack, sl, su)
  <2>1. si \in sl..su /\ sj \in sl..su
    BY <1>1
  <2>2. Within(sarray, sarray', sl, su, sn)
    BY <1>1, <1>4, <2>1, WithinExchange
  <2> QED BY <1>1, <1>3, <2>2, Shuffle
<1>6. sl..su \subseteq Indices
  BY <1>1, SortAssumption DEF Indices
<1>7. sarray'[su - 1] = sarray[su - 1]
  <2>1. su - 1 \in sl..su /\ su - 1 # si /\ su - 1 # sj
    BY <1>1
  <2> QED BY <1>4, <1>6, <2>1 DEF Exchange
<1>8. AtMost(sarray', sl, si, sarray[su - 1])
  <2>1. ASSUME NEW k \in sl..si PROVE sarray'[k] <= sarray[su - 1]
    <3>1. CASE k = si
      BY <1>3, <1>4, <3>1 DEF Exchange
    <3>2. CASE k # si
      <4>1. k \in sl..(si - 1) /\ k \in sl..su /\ k # sj
        BY <1>1, <3>2
      <4> QED BY <1>3, <1>4, <1>6, <3>2, <4>1 DEF Exchange, AtMost
    <3> QED BY <3>1, <3>2
  <2> QED BY <2>1 DEF AtMost
<1>9. AtLeast(sarray', sj, su, sarray[su - 1])
  <2>1. ASSUME NEW k \in sj..su PROVE sarray[su - 1] <= sarray'[k]
    <3>1. CASE k = sj
      BY <1>3, <1>4, <3>1 DEF Exchange
    <3>2. CASE k # sj
      <4>1. k \in (sj + 1)..su /\ k \in sl..su /\ k # si
        BY <1>1, <3>2
      <4> QED BY <1>3, <1>4, <1>6, <3>2, <4>1 DEF Exchange, AtLeast
    <3> QED BY <3>1, <3>2
  <2> QED BY <2>1 DEF AtLeast
<1>10. Partition(spc', sarray', sl', su', si', sj')
  <2>1. si <= su - 2 /\ sj > sl
    BY <1>1
  <2> QED BY <1>2, <1>7, <1>8, <1>9, <2>1 DEF Partition
<1> QED BY <1>2, <1>3, <1>5, <1>10, OrderStill DEF Sorting, Partitions

LEMMA PartOrder == ASSUME Sorting, SortPart PROVE SortOrder'
<1>1. /\ sn \in Nat /\ sn \in 0..MaxElements /\ sstack \in Pairs /\ sl \in 1..sn /\ su \in 1..sn
      /\ spc = "part" /\ su - sl >= 3 /\ si \in (sl + 1)..(su + 1)
  <2>1. SortSafe /\ spc = "part" /\ sstack \in Pairs
    BY DEF SortPart, Sorting, SortSafe, SortTypes
  <2> QED BY <2>1, IndexPlaces
<1>2. spc' = "ends" /\ sn' = sn
  BY DEF SortPart, Kept
<1>3. /\ OffRanges(sstack, sl, su) /\ InOrder(sarray, sn, sstack, sl, su) /\ RangesApart(sstack)
      /\ si <= su - 1
      /\ AtMost(sarray, sl, si - 1, sarray[su - 1]) /\ AtLeast(sarray, si, su, sarray[su - 1])
  BY <1>1 DEF Sorting, SortOrder, Partitions, Partition
<1>4. sarray' \in SortArrays /\ Exchange(sarray, sarray', su - 1, si)
  BY PartStep DEF Sorting
<1>5. PICK l1 \in Int, u1 \in Int :
        /\ sstack' = Append(sstack, <<l1, u1>>) /\ sl' \in Int /\ su' \in Int
        /\ \/ l1 = sl /\ u1 = si - 1 /\ sl' = si + 1 /\ su' = su
           \/ sl' = sl /\ su' = si - 1 /\ l1 = si + 1 /\ u1 = su
  BY PartStep DEF Sorting
<1>6. si \in sl..su /\ su - 1 \in sl..su /\ su - 1 \in si..su
  BY <1>1, <1>3
<1>7. InOrder(sarray', sn, sstack, sl, su)
  <2>1. Within(sarray, sarray', sl, su, sn)
    BY <1>1, <1>4, <1>6, WithinExchange
  <2> QED BY <1>1, <1>3, <2>1, Shuffle
<1>8. sl..su \subseteq Indices
  BY <1>1, SortAssumption DEF Indices
<1>9. sarray'[si] = sarray[su - 1] /\ sarray'[su - 1] = sarray[si] /\ sarray[su - 1] <= sarray[si]
      /\ sarray'[si] \in Nat
  <2>1. si \in si..su
    BY <1>1, <1>3
  <2>2. sarray'[si] \in Nat
    BY <1>4, <1>6, <1>8, KeysAre
  <2> QED BY <1>3, <1>4, <2>1, <2>2 DEF Exchange, AtLeast
<1>10. AtMost(sarray', sl, si, sarray'[si])
  <2>1. ASSUME NEW k \in sl..si PROVE sarray'[k] <= sarray'[si]
    <3>1. CASE k = si
      BY <1>9, <3>1
    <3>2. CASE k # si
      <4>1. k \in sl..(si - 1) /\ k \in sl..su /\ k # su - 1
        BY <1>1, <1>3, <3>2
      <4> QED BY <1>3, <1>4, <1>8, <1>9, <3>2, <4>1 DEF Exchange, AtMost
    <3> QED BY <3>1, <3>2
  <2> QED BY <2>1 DEF AtMost
<1>11. AtLeast(sarray', si, su, sarray'[si])
  <2>1. ASSUME NEW k \in si..su PROVE sarray'[si] <= sarray'[k]
    <3>1. CASE k = si
      BY <1>9, <3>1
    <3>2. CASE k = su - 1
      BY <1>9, <3>2
    <3>3. CASE k # si /\ k # su - 1
      <4>1. k \in sl..su
        BY <1>1
      <4> QED BY <1>3, <1>4, <1>8, <1>9, <3>3, <4>1 DEF Exchange, AtLeast
    <3> QED BY <3>1, <3>2, <3>3
  <2> QED BY <2>1 DEF AtLeast
<1>12. InOrder(sarray', sn, sstack', sl', su')
  BY <1>1, <1>4, <1>5, <1>6, <1>7, <1>10, <1>11, InOrderSplit
<1>13. RangesApart(sstack') /\ OffRanges(sstack', sl', su')
  <2>1. sl \in Int /\ su \in Int
    BY <1>1
  <2> QED BY <1>1, <1>3, <1>5, <1>6, <2>1, RangesSplit
<1>14. RangesApart(sstack)' /\ OffRanges(sstack, sl, su)' /\ InOrder(sarray, sn, sstack, sl, su)'
  BY <1>2, <1>12, <1>13 DEF RangesApart, OffRanges, InOrder
<1>15. Partition(spc, sarray, sl, su, si, sj)'
  BY <1>2 DEF Partition
<1> QED BY <1>2, <1>14, <1>15 DEF SortOrder

LEMMA ReturnOrder == ASSUME Sorting, SortReturn PROVE SortOrder'
<1>1. /\ spc = "return" /\ sarray' = sarray /\ sn' = sn /\ sn \in Nat /\ sstack \in Pairs
  BY IndexPlaces DEF SortReturn, Kept, Sorting, SortSafe, SortTypes
<1>2. InOrder(sarray, sn, sstack, 1, 0) /\ RangesApart(sstack)
  BY <1>1 DEF Sorting, SortOrder
<1>3. CASE sstack = <<>>
  <2>1. spc' = "sorted" /\ UNCHANGED <<sl, su, sstack>>
    BY <1>3 DEF SortReturn
  <2>2. Partition(spc', sarray', sl', su', si', sj')
    BY <2>1 DEF Partition
  <2> QED BY <1>1, <1>2, <2>1, <2>2, OrderStill DEF Sorting, Partitions
<1>4. CASE sstack # <<>>
  <2>1. /\ sl' = sstack[Len(sstack)][1] /\ su' = sstack[Len(sstack)][2] /\ spc' = "ends"
        /\ sstack' = SubSeq(sstack, 1, Len(sstack) - 1)
    BY <1>4 DEF SortReturn
  <2>2. RangesApart(sstack') /\ OffRanges(sstack', sl', su') /\ InOrder(sarray, sn, sstack', sl', su')
    BY <1>1, <1>2, <1>4, <2>1, RangesPop
  <2>3. RangesApart(sstack)' /\ OffRanges(sstack, sl, su)' /\ InOrder(sarray, sn, sstack, sl, su)'
    BY <1>1, <2>2 DEF RangesApart, OffRanges, InOrder
  <2>4. Partition(spc, sarray, sl, su, si, sj)'
    BY <2>1 DEF Partition
  <2> QED BY <2>1, <2>3, <2>4 DEF SortOrder
<1> QED BY <1>3, <1>4

LEMMA SortSafeStep == ASSUME SortSafe, [SortNext]_sortVars PROVE SortSafe'
<1>1. CASE SortNext
  BY <1>1, SortStarts, EndsSafe, EmptySafe, MiddleSafe, UpSafe, DownSafe, SwapSafe, PartSafe, ReturnSafe DEF SortNext
<1>2. CASE UNCHANGED sortVars
  BY <1>2 DEF sortVars, SortSafe, SortTypes, SortRanges, IndexBounds
<1> QED BY <1>1, <1>2

LEMMA SortOrderStep ==
  ASSUME SortIInv, [SortNext]_sortVars, sorder' = "less"
  PROVE  SortOrder'
<1>1. SortSafe
  BY DEF SortIInv
<1>2. CASE Sort
  BY <1>1, <1>2, OrderStarts
<1>3. CASE SortNext /\ ~ Sort
  <2>1. sorder' = sorder
    BY <1>3 DEF SortNext, SortEnds, SortEmpty, SortMiddle, SortUp, SortDown, SortSwap, SortPart, SortReturn, Kept
  <2>2. Sorting
    BY <2>1 DEF SortIInv, Sorting, Less
  <2> QED BY <1>3, <2>2, EndsOrder, EmptyOrder, MiddleOrder, UpOrder, DownOrder, SwapOrder, PartOrder,
             ReturnOrder DEF SortNext
<1>4. CASE UNCHANGED sortVars
  <2>1. SortOrder
    BY <1>4 DEF SortIInv, sortVars
  <2> QED BY <1>4, <2>1 DEF sortVars, SortOrder, RangesApart, OffRanges, InOrder, Partition, AtMost, AtLeast
<1> QED BY <1>2, <1>3, <1>4

LEMMA SortStarted == SortInit => SortIInv
<1> SUFFICES ASSUME SortInit PROVE SortIInv
  OBVIOUS
<1>1. SortTypes
  BY SortAssumption DEF SortInit, SortTypes, SortArrays, SortPlaces, Pairs
<1>2. SortRanges /\ IndexBounds(spc, sl, su, si, sj)
  BY DEF SortInit, SortRanges, IndexBounds
<1>3. SortOrder
  BY DEF SortInit, SortOrder, RangesApart, Partition, Partitions
<1> QED BY <1>1, <1>2, <1>3 DEF SortIInv, SortSafe

LEMMA SortInvariant == SortSpec => []SortIInv
<1>1. SortInit => SortIInv
  BY SortStarted
<1>2. SortIInv /\ [SortNext]_sortVars => SortIInv'
  BY SortSafeStep, SortOrderStep DEF SortIInv
<1> QED BY <1>1, <1>2, PTL DEF SortSpec

LEMMA SortIndicesHold == ASSUME SortIInv PROVE SortIndices
<1>1. CASE spc \in {"up", "down", "part"}
  <2>1. SortSafe /\ spc # "idle"
    BY <1>1 DEF SortIInv
  <2>2. /\ sn \in Nat /\ sl \in 1..(sn + 2) /\ su \in 0..sn
        /\ spc = "up" => si \in sl..su /\ sj \in sl..(su - 1)
        /\ spc = "down" => si \in (sl + 1)..(su + 1) /\ sj \in sl..(su - 1)
        /\ spc = "part" => si \in (sl + 1)..(su + 1) /\ sj \in (sl - 1)..(su - 2)
    BY <2>1, IndexPlaces
  <2>3. si \in 0..(sn + 1)
    BY <1>1, <2>2
  <2>4. sj \in 0..sn
    BY <1>1, <2>2
  <2> QED BY <2>3, <2>4 DEF SortIndices
<1>2. CASE spc \notin {"up", "down", "part"}
  BY <1>2 DEF SortIndices
<1> QED BY <1>1, <1>2

LEMMA OrderedSortHolds == ASSUME SortIInv PROVE OrderedSort
<1> SUFFICES ASSUME Less PROVE OrderedSort
  BY DEF OrderedSort, Less
<1>1. SortSafe /\ SortOrder
  BY DEF SortIInv, Less
<1>2. spc # "error"
  BY <1>1 DEF SortOrder, Partition
<1>3. spc \in {"down", "swap", "part"} => sn \in Nat /\ sl \in 1..(sn + 2) /\ su \in 0..sn
  BY <1>1, IndexPlaces
<1>4. spc = "down" => si \in 1..sn
  <2>1. spc = "down" => si \in (sl + 1)..(su + 1) /\ si <= su - 1
    BY <1>1, IndexPlaces DEF SortOrder, Partition
  <2> QED BY <1>3, <2>1
<1>5. spc = "swap" => si \in 1..sn /\ sj \in 1..sn
  <2>1. spc = "swap" => si \in (sl + 1)..sj /\ sj \in sl..(su - 2)
    BY <1>1, IndexPlaces
  <2> QED BY <1>3, <2>1
<1>6. spc = "part" => si \in 1..sn /\ sj \in 1..sn
  <2>1. spc = "part" => /\ si \in (sl + 1)..(su + 1) /\ sj \in (sl - 1)..(su - 2)
                        /\ si <= su - 1 /\ sj >= sl
    BY <1>1, IndexPlaces DEF SortOrder, Partition
  <2> QED BY <1>3, <2>1
<1>7. spc = "sorted" => \A k \in 1..(sn - 1) : sarray[k] <= sarray[k + 1]
  <2>1. SUFFICES ASSUME spc = "sorted", NEW k \in 1..(sn - 1) PROVE sarray[k] <= sarray[k + 1]
    OBVIOUS
  <2>2. InOrder(sarray, sn, sstack, 1, 0) /\ sstack = <<>> /\ sn \in Nat
    BY <1>1, <2>1, IndexPlaces DEF SortOrder, SortSafe, SortRanges
  <2>3. k \in 1..sn /\ k + 1 \in 1..sn /\ k < k + 1 /\ ~ (1 <= k /\ k + 1 <= 0)
    BY <2>2
  <2>4. ~ Waits(sstack, k, k + 1)
    BY <2>2 DEF Waits
  <2> QED BY <2>2, <2>3, <2>4 DEF InOrder
<1> QED BY <1>2, <1>4, <1>5, <1>6, <1>7 DEF OrderedSort

LEMMA ElementsKept == ASSUME SortIInv, [SortNext]_sortVars PROVE SameElements \/ UNCHANGED sortVars
<1>1. SUFFICES ASSUME spc # "idle", NEW x \in SortKeys
               PROVE  Copies(sarray', x) = Copies(sarray, x)
  BY DEF SameElements, Copies
<1>2. SortSafe
  BY DEF SortIInv
<1>3. CASE sarray' = sarray
  BY <1>3
<1>4. ASSUME SortEnds, sarray' # sarray PROVE Exchange(sarray, sarray', sl, su)
  BY <1>2, <1>4, EndsStep
<1>5. CASE SortEnds /\ sarray' # sarray
  BY <1>4, <1>5, ExchangeKeeps
<1>6. CASE SortMiddle
  <2>1. PICK c \in SortArrays :
          /\ c = sarray \/ Exchange(sarray, c, si, sl) \/ Exchange(sarray, c, si, su)
          /\ sarray' = c \/ Exchange(c, sarray', si, su - 1)
    BY <1>2, <1>6, MiddleStep
  <2>2. Copies(c, x) = Copies(sarray, x)
    BY <2>1, ExchangeKeeps
  <2>3. Copies(sarray', x) = Copies(c, x)
    BY <2>1, ExchangeKeeps
  <2> QED BY <2>2, <2>3
<1>7. CASE SortSwap
  BY <1>2, <1>7, SwapStep, ExchangeKeeps
<1>8. CASE SortPart
  BY <1>2, <1>8, PartStep, ExchangeKeeps
<1> QED BY <1>1, <1>3, <1>5, <1>6, <1>7, <1>8 DEF SortNext, Sort, SortEmpty, SortUp, SortDown, SortReturn, sortVars

(* table.sort, for arrays of any length and any keys: with an order it never    *)
(* fails, never leaves 1..n and ends with a[1..n] in order; with any comparison *)
(* it comes to no index but 1..n and the two beside them, and no element is     *)
(* lost or doubled.                                                             *)
THEOREM SortsSoundly == SortSpec => SortSound
<1>1. SortIInv => OrderedSort /\ SortIndices
  BY OrderedSortHolds, SortIndicesHold
<1>2. SortIInv /\ [SortNext]_sortVars => [SameElements]_sortVars
  BY ElementsKept
<1> QED BY <1>1, <1>2, SortInvariant, PTL DEF SortSpec, SortSound
================================================================================
