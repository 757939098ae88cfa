-------------------------------- MODULE LuaRefs --------------------------------
(* References (lauxlib.c): luaL_ref stores a value of a C program in a table   *)
(* and returns the integer that finds it again, luaL_unref gives it back.  A   *)
(* free slot holds the next free one, t[FREELIST_REF] the first: the list runs *)
(* through the slots of the values themselves.  Every store into the table may *)
(* have to make room for a new key, and fail (luaM_realloc_).                  *)
EXTENDS Integers

CONSTANTS RefValues,   \* the values programs keep: numbers too, as links are
          MaxRef       \* bound: slots of the table

ASSUME RefAssumption == RefValues \subseteq Nat \ {0} /\ MaxRef \in Nat \ {0}

FREELIST_REF == 0
NoValue == -1          \* nil: an absent slot, or the end of the free list
Slots == 1..MaxRef

VARIABLES rtab,        \* the table: its slots and t[FREELIST_REF]
          rheld        \* <<reference, value>> for every reference the program holds

refVars == <<rtab, rheld>>

RefInit == /\ rtab = [i \in 0..MaxRef |-> NoValue]
           /\ rheld = {}

(* lua_objlen: any border, when holes leave several.                           *)
RefBorder(n) == /\ n = 0 \/ rtab[n] # NoValue
                /\ rtab[n + 1] = NoValue

(* luaL_ref with a free slot: it leaves the list, then takes the value.        *)
RefReused(v) ==
  LET ref == rtab[FREELIST_REF]
  IN /\ ref # NoValue
     /\ rtab' = [rtab EXCEPT ![FREELIST_REF] = rtab[ref], ![ref] = v]
     /\ rheld' = rheld \cup {<<ref, v>>}

(* luaL_ref with none: the slot after the last.                                *)
RefFresh(v) ==
  /\ rtab[FREELIST_REF] = NoValue
  /\ \E n \in 0..(MaxRef - 1) : /\ RefBorder(n)
                                /\ rtab' = [rtab EXCEPT ![n + 1] = v]
                                /\ rheld' = rheld \cup {<<n + 1, v>>}

(* A free slot that holds nil may need a new key: the store fails, and the     *)
(* slot has left the list.                                                     *)
RefFails ==
  LET ref == rtab[FREELIST_REF]
  IN /\ ref # NoValue /\ rtab[ref] = NoValue
     /\ rtab' = [rtab EXCEPT ![FREELIST_REF] = NoValue]
     /\ UNCHANGED rheld

(* As luaL_unref would be with its two stores in the other order.              *)
UnrefSwapped(ref) ==
  /\ \E v \in RefValues : <<ref, v>> \in rheld
  /\ rtab' = [rtab EXCEPT ![ref] = ref, ![FREELIST_REF] = ref]
  /\ rheld' = {p \in rheld : p[1] # ref}

(* luaL_unref of a reference the program holds.                                *)
Unref(ref) ==
  /\ \E v \in RefValues : <<ref, v>> \in rheld
  /\ rtab' = [rtab EXCEPT ![ref] = rtab[FREELIST_REF], ![FREELIST_REF] = ref]
  /\ rheld' = {p \in rheld : p[1] # ref}

(* The key FREELIST_REF is new and there is no memory for it: the slot has     *)
(* been emptied (t[ref] = t[FREELIST_REF]) and is not in the list.             *)
UnrefFails(ref) ==
  /\ \E v \in RefValues : <<ref, v>> \in rheld
  /\ rtab[FREELIST_REF] = NoValue
  /\ rtab' = [rtab EXCEPT ![ref] = NoValue]
  /\ rheld' = {p \in rheld : p[1] # ref}

RefNext == \/ \E v \in RefValues : RefReused(v) \/ RefFresh(v)
           \/ \E ref \in Slots : Unref(ref) \/ UnrefFails(ref)
           \/ RefFails

RefSpec == RefInit /\ [][RefNext]_refVars

(* A reference finds the value it was made for as long as the program holds    *)
(* it: luaL_ref never gives out a slot in use, and the free list never runs    *)
(* through one, also after a store that failed half way.                       *)
RefsKept == \A p \in rheld : rtab[p[1]] = p[2]
================================================================================
