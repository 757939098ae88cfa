------------------------------- MODULE LuaBuffer -------------------------------
(* luaL_Buffer (lauxlib.c): a string built piece by piece.  Characters gather   *)
(* in a fixed array; a full array becomes a string on the Lua stack, and the    *)
(* strings there are joined so that there are never too many.  The characters   *)
(* of a result are numbered in the order they were added.                      *)
EXTENDS Integers, Sequences, FiniteSets, SequencesExt

CONSTANTS BUFFERSIZE,  \* LUAL_BUFFERSIZE (BUFSIZ in the build)
          LIMIT,       \* LUA_MINSTACK/2 (10 in the build)
          MaxAdded     \* bound: characters added to one buffer

ASSUME BufferAssumption == BUFFERSIZE \in Nat \ {0} /\ LIMIT \in Nat \ {0, 1}

VARIABLES bstack,      \* the stack of the C function: what was there, then the pieces
          bbuf,        \* the characters in the array, up to p
          blvl,        \* luaL_Buffer.lvl
          badded       \* history: how many characters were added

bufferVars == <<bstack, bbuf, blvl, badded>>

Below == <<0>>         \* a string the function had on the stack before

BufferInit == bstack = <<Below>> /\ bbuf = <<>> /\ blvl = 0 /\ badded = 0

Chars(n) == [i \in 1..n |-> badded + i]          \* the next n characters

(* emptybuffer: the array as a string on the stack, and one level more.        *)
Emptied(stack) == IF bbuf = <<>> THEN stack ELSE Append(stack, bbuf)
EmptiedLevel == IF bbuf = <<>> THEN blvl ELSE blvl + 1

(* lua_concat of the n topmost strings.                                        *)
Joined(stack, n) ==
  LET k == Len(stack) - n
  IN Append(SubSeq(stack, 1, k), FlattenSeq(SubSeq(stack, k + 1, Len(stack))))

(* adjuststack: join downwards while there are too many levels or the next     *)
(* string is shorter than what is joined so far.                               *)
TopLength(stack, n) ==
  FoldLeft(LAMBDA s, x : s + Len(x), 0, SubSeq(stack, Len(stack) - n + 1, Len(stack)))
Joins(stack, lvl, t) == \/ lvl - t + 1 >= LIMIT
                       \/ TopLength(stack, t) > Len(stack[Len(stack) - t])
(* As adjuststack would be without the first condition of its loop.            *)
ToGetBySize(stack, lvl) ==
  CHOOSE t \in 1..lvl :
    /\ t = lvl \/ ~(TopLength(stack, t) > Len(stack[Len(stack) - t]))
    /\ \A k \in 1..(t - 1) : TopLength(stack, k) > Len(stack[Len(stack) - k])
ToGet(stack, lvl) ==
  CHOOSE t \in 1..lvl : /\ t = lvl \/ ~Joins(stack, lvl, t)
                        /\ \A k \in 1..(t - 1) : Joins(stack, lvl, k)
Adjust(stack, lvl) ==
  IF lvl > 1
  THEN LET t == ToGet(stack, lvl)
       IN bstack' = Joined(stack, t) /\ blvl' = lvl - t + 1
  ELSE bstack' = stack /\ blvl' = lvl

(* luaL_prepbuffer, then luaL_addsize of what the caller put there (liolib.c's *)
(* fgets and fread do).                                                        *)
PrepAndAdd(n) ==
  /\ n <= BUFFERSIZE /\ badded + n <= MaxAdded
  /\ IF bbuf = <<>> THEN UNCHANGED <<bstack, blvl>>
                    ELSE Adjust(Emptied(bstack), EmptiedLevel)
  /\ bbuf' = Chars(n) /\ badded' = badded + n

(* luaL_addchar: prepares the buffer only when the array is full.              *)
AddChar ==
  /\ badded < MaxAdded
  /\ IF Len(bbuf) < BUFFERSIZE
     THEN bbuf' = bbuf \o Chars(1) /\ UNCHANGED <<bstack, blvl>>
     ELSE Adjust(Emptied(bstack), EmptiedLevel) /\ bbuf' = Chars(1)
  /\ badded' = badded + 1

(* As luaL_addvalue would be without its lua_insert: the array's string stays  *)
(* on top of the value.                                                        *)
AddValueUnder(n) ==
  /\ badded + n <= MaxAdded
  /\ IF n <= BUFFERSIZE - Len(bbuf)
     THEN bbuf' = bbuf \o Chars(n) /\ UNCHANGED <<bstack, blvl>>
     ELSE /\ Adjust(Emptied(Append(bstack, Chars(n))), EmptiedLevel + 1)
          /\ bbuf' = <<>>
  /\ badded' = badded + n

(* luaL_addvalue of a string of n characters on top of the stack: it goes into *)
(* the array when it fits, else becomes a piece after what the array held.     *)
AddValue(n) ==
  /\ badded + n <= MaxAdded
  /\ IF n <= BUFFERSIZE - Len(bbuf)
     THEN bbuf' = bbuf \o Chars(n) /\ UNCHANGED <<bstack, blvl>>
     ELSE /\ Adjust(Append(Emptied(bstack), Chars(n)), EmptiedLevel + 1)
          /\ bbuf' = <<>>
  /\ badded' = badded + n

(* luaL_pushresult: one string of all the levels; lua_concat of none is "".    *)
PushResult ==
  /\ bstack' = Joined(Emptied(bstack), EmptiedLevel)
  /\ blvl' = 1 /\ bbuf' = <<>> /\ UNCHANGED badded

BufferNext == \/ \E n \in 0..BUFFERSIZE : PrepAndAdd(n)
              \/ \E n \in 0..(BUFFERSIZE + 1) : AddValue(n)
              \/ AddChar \/ PushResult

BufferSpec == BufferInit /\ [][BufferNext]_bufferVars

(* Every character is in the result once and in the order it was added, and    *)
(* what lay below the buffer on the stack is untouched, however pieces are     *)
(* joined (adjuststack counts levels, not stack slots).                        *)
BufferInOrder ==
  /\ bstack[1] = Below
  /\ FlattenSeq(Tail(bstack)) \o bbuf = [i \in 1..badded |-> i]

(* Between two calls the pieces on the stack are the levels the buffer counts, *)
(* and fewer than LIMIT: a C function has LUA_MINSTACK slots, and the caller   *)
(* needs the other half.                                                       *)
BufferFits == /\ Len(bstack) = blvl + 1
              /\ blvl < LIMIT

(* Nothing is lost, and nothing of the caller's stack is overrun.              *)
BufferKept == BufferInOrder /\ BufferFits
================================================================================
