------------------------------ MODULE LuaTable ------------------------------
(***************************************************************************)
(* The tables of ltable.c: an array part and a vector of nodes, in which   *)
(* keys that collide are chained with Brent's variation.  A program        *)
(* assigns fields and traverses the table, the collector marks keys dead   *)
(* and clears weak fields in between.                                      *)
(*                                                                         *)
(* A table is a value, and each function of ltable.c an operator on it.    *)
(* Positions of nodes start with 1; 0 is NULL.  The shared dummynode of an *)
(* empty hash part is an empty vector of nodes.                            *)
(*                                                                         *)
(* A definition marked "deviation" is the one that follows it with a       *)
(* mistake, and is used to show that the properties notice the mistake.    *)
(***************************************************************************)
EXTENDS Integers, SequencesExt

CONSTANTS
  Ints,           (* the integer keys                                       *)
  Others,         (* all other keys                                         *)
  Collectable,    (* the keys that are objects; a key is its address, which *)
                  (* another object may have later                          *)
  Pow2Keys,       (* the keys hashed with hashpow2: strings and booleans    *)
  Hash,           (* key -> hash value                                      *)
  Values, Nil,
  MaxBits,        (* MAXBITS                                                *)
  MaxInt,         (* MAX_INT                                                *)
  Sizes,          (* bound: the sizes <<narray, nhash>> of new tables       *)
  Positional      (* bound: the numbers of positional fields of constructors *)

Keys == Ints \cup Others

ASSUME TableAssumption ==
  /\ Ints \subseteq 0..MaxInt /\ Ints \cap Others = {} /\ Nil \notin Keys \cup Values
  /\ Collectable \subseteq Others /\ Pow2Keys \subseteq Others
  /\ Hash \in [Keys -> Nat] /\ (0 \in Ints => Hash[0] = 0)
  /\ MaxBits \in Nat /\ MaxInt \in Nat
  /\ IsFiniteSet(Keys) /\ Cardinality(Keys) <= 2^MaxBits   \* no "table overflow"
  /\ Sizes \subseteq Nat \X (0..2^MaxBits)
  /\ \A n \in Positional : n \in Nat /\ 1..n \subseteq Ints

VARIABLES
  tab,            (* array, node and lastfree                               *)
  weak,           (* the table's metatable makes it weak                    *)
  constructing,   (* the table's constructor is still running               *)
  cursor,         (* the control key of a traversal: Nil at its beginning   *)
  traversing,
  visited         (* the keys the traversal has returned                    *)

vars == <<tab, weak, constructing, cursor, traversing, visited>>

---------------------------------------------------------------------------
(* Searching *)

EmptyNode == [key |-> Nil, dead |-> FALSE, val |-> Nil, next |-> 0]

Size(t) == Len(t.node)

InArray(t, k) == k \in Ints /\ 0 < k /\ k <= Len(t.array)

\* mainposition: modulo a power of two, or modulo (size-1)|1.
MainPosition(t, k) ==
  (Hash[k] % (IF k \in Pow2Keys \/ Size(t) = 1 THEN Size(t) ELSE Size(t) - 1)) + 1

\* The first node of the chain of k that is one of M.
First(t, k, M) ==
  LET from[p \in 0..Size(t)] == IF p = 0 THEN 0
                                ELSE IF p \in M THEN p
                                ELSE from[t.node[p].next]
  IN  IF Size(t) = 0 THEN 0 ELSE from[MainPosition(t, k)]

Find(t, k) == First(t, k, {p \in 1..Size(t) : t.node[p].key = k /\ ~t.node[p].dead})

\* luaH_get and its variants
Get(t, k) ==
  IF InArray(t, k) THEN t.array[k]
  ELSE LET p == Find(t, k) IN IF p = 0 THEN Nil ELSE t.node[p].val

Present(t) == {k \in Keys : Get(t, k) # Nil}

---------------------------------------------------------------------------
(* Inserting *)

\* getfreepos: the last node below lastfree that never had a key.
FreePos(t) ==
  LET free == {p \in 1..t.free-1 : t.node[p].key = Nil}
  IN  IF free = {} THEN 0 ELSE Max(free)

HasRoom(t, k) ==
  Size(t) > 0 /\ (t.node[MainPosition(t, k)].val = Nil \/ FreePos(t) # 0)

\* deviations: a colliding node is never moved; a new node goes to the end of the
\* chain
PlaceWithoutMoving(t, k) ==
  LET mp  == MainPosition(t, k)
      n   == FreePos(t)
      new == [EmptyNode EXCEPT !.key = k]
  IN  IF t.node[mp].val = Nil
      THEN [t EXCEPT !.node[mp].key = k, !.node[mp].dead = FALSE]
      ELSE [t EXCEPT !.node = [@ EXCEPT ![n] = [new EXCEPT !.next = t.node[mp].next],
                                        ![mp].next = n],
                     !.free = n]
PlaceLast(t, k) ==
  LET mp   == MainPosition(t, k)
      n    == FreePos(t)
      last == CHOOSE p \in 1..Size(t) : t.node[p].next = 0 /\ t.node[p].key # Nil
                /\ (p = mp \/ t.node[mp].next # 0)
  IN  IF t.node[mp].val = Nil
      THEN [t EXCEPT !.node[mp].key = k, !.node[mp].dead = FALSE]
      ELSE [t EXCEPT !.node = [@ EXCEPT ![n] = [EmptyNode EXCEPT !.key = k],
                                        ![last].next = n],
                     !.free = n]

\* newkey, when there is room.  A node without a value is overwritten in the
\* chain it is in.
Place(t, k) ==
  LET mp    == MainPosition(t, k)
      n     == FreePos(t)
      other == MainPosition(t, t.node[mp].key)
      prev  == CHOOSE p \in 1..Size(t) : t.node[p].next = mp
      new   == [EmptyNode EXCEPT !.key = k]
  IN  IF t.node[mp].val = Nil
      THEN [t EXCEPT !.node = [@ EXCEPT ![mp].key = k, ![mp].dead = FALSE]]
      ELSE [array |-> t.array,
            node  |-> IF other # mp
                      THEN [t.node EXCEPT ![prev].next = n, ![n] = t.node[mp], ![mp] = new]
                      ELSE [t.node EXCEPT ![n] = [new EXCEPT !.next = t.node[mp].next],
                                          ![mp].next = n],
            free  |-> n]

Holds(t, k) == InArray(t, k) \/ Find(t, k) # 0

\* luaH_set without rehash.
InsertInRoom(t, k) == IF Holds(t, k) \/ ~HasRoom(t, k) THEN t ELSE Place(t, k)

Store(t, k, v) == IF InArray(t, k) THEN [t EXCEPT !.array[k] = v]
                                   ELSE [t EXCEPT !.node[Find(t, k)].val = v]

---------------------------------------------------------------------------
(* Rehashing *)

\* computesizes: the largest power of two of which more than half the slots are
\* in use by the integer keys S, counted slice by slice.
ArraySize(S) ==
  LET slice(i) == {k \in S : k <= 2^i /\ (i > 0 => k > 2^(i-1))}
  IN  Max({0} \cup {2^i : i \in {j \in 0..MaxBits :
             /\ slice(j) # {}
             /\ Cardinality({k \in S : k <= 2^j}) > 2^j \div 2}})

\* setnodevector rounds up to a power of two.
NodeSize(n) == IF n = 0 THEN 0 ELSE Min({s \in {2^i : i \in 0..MaxBits} : n <= s})

\* deviation: the vanishing slice is forgotten
MovedNodes(t, narray) == Reverse([p \in 1..Size(t) |-> <<t.node[p].key, t.node[p].val>>])

\* What resize goes through: the vanishing slice of the array, then the nodes
\* backwards.
Moved(t, narray) ==
  LET slots == [i \in 1..Len(t.array) |-> <<i, t.array[i]>>]
      nodes == [p \in 1..Size(t) |-> <<t.node[p].key, t.node[p].val>>]
  IN  SubSeq(slots, narray + 1, Len(slots)) \o Reverse(nodes)

\* A key and a value that resize comes to: moved unless the value is nil.
Move(u, field) == IF field[2] = Nil THEN u
                  ELSE Store(InsertInRoom(u, field[1]), field[1], field[2])

Emptied(t, narray, n) ==
  [array |-> [i \in 1..narray |-> IF i <= Len(t.array) THEN t.array[i] ELSE Nil],
   node  |-> [p \in 1..n |-> EmptyNode],
   free  |-> n + 1]

Resize(t, narray, nhash) ==
  LET fields == Moved(t, narray)
      with[i \in 0..Len(fields)] ==
        IF i = 0 THEN Emptied(t, narray, NodeSize(nhash)) ELSE Move(with[i - 1], fields[i])
  IN  with[Len(fields)]

\* deviation: the extra key is not counted
RehashWithoutKey(t, k) ==
  LET ints   == {i \in Present(t) \cap Ints : 0 < i /\ i <= 2^MaxBits}
      narray == ArraySize(ints)
  IN  Resize(t, narray, Cardinality(Present(t)) - Cardinality({i \in ints : i <= narray}))

\* rehash counts the fields and the extra key.
Rehash(t, k) ==
  LET used   == Present(t) \cup {k}
      ints   == {i \in used \cap Ints : 0 < i /\ i <= 2^MaxBits}
      narray == ArraySize(ints)
  IN  Resize(t, narray, Cardinality(used) - Cardinality({i \in ints : i <= narray}))

\* luaH_set: finds the key or makes a node for it.
Insert(t, k) ==
  IF Holds(t, k) \/ HasRoom(t, k) THEN InsertInRoom(t, k) ELSE InsertInRoom(Rehash(t, k), k)

---------------------------------------------------------------------------
(* Traversal *)

\* deviation: dead keys are not accepted
FindIndexLive(t, k) ==
  IF k = Nil THEN 0 ELSE IF InArray(t, k) THEN k
  ELSE LET p == Find(t, k) IN IF p = 0 THEN -1 ELSE Len(t.array) + p

\* findindex: array slots first, then nodes; -1 for an invalid key.
FindIndex(t, k) ==
  IF k = Nil THEN 0 ELSE IF InArray(t, k) THEN k
  ELSE LET p == First(t, k, {q \in 1..Size(t) : t.node[q].key = k})
       IN  IF p = 0 THEN -1 ELSE Len(t.array) + p

\* deviation: slots of the array count from zero
KeyAtFromZero(t, i) == IF i <= Len(t.array) THEN i - 1 ELSE t.node[i - Len(t.array)].key

KeyAt(t, i)   == IF i <= Len(t.array) THEN i ELSE t.node[i - Len(t.array)].key
ValueAt(t, i) == IF i <= Len(t.array) THEN t.array[i] ELSE t.node[i - Len(t.array)].val

\* The indices that luaH_next may still return.
Remaining(t, k) ==
  {i \in FindIndex(t, k) + 1 .. Len(t.array) + Size(t) : ValueAt(t, i) # Nil}

---------------------------------------------------------------------------
(* The length operator *)

\* luaH_getnum of a number that may not be in Ints, hence not in the table.
GetNum(t, j) == IF j \in Ints THEN Get(t, j) ELSE Nil

\* A loop of n rounds that changes the pair <<i, j>>.
Rounds(step, b, n) ==
  LET after[k \in 0..n] == IF k = 0 THEN b ELSE step[after[k - 1]]
  IN  after[n]

\* The binary searches: i is zero or present, j is not.
Between(t, i, j) ==
  LET halve == [b \in Nat \X Nat |->
                 LET m == (b[1] + b[2]) \div 2
                 IN  IF b[2] - b[1] <= 1 THEN b
                     ELSE IF GetNum(t, m) = Nil THEN <<b[1], m>> ELSE <<m, b[2]>>]
  IN  Rounds(halve, <<i, j>>, j - i)[1]

\* The linear search: the first absent number, less one.
Linear(t) == Min({i \in 1..MaxInt + 1 : GetNum(t, i) = Nil}) - 1

UnboundSearch(t, j0) ==
  LET double == [b \in Nat \X Nat |->
                  IF GetNum(t, b[2]) = Nil \/ 2*b[2] > MaxInt THEN b ELSE <<b[2], 2*b[2]>>]
      last   == Rounds(double, <<j0, j0 + 1>>, MaxInt)
  IN  IF GetNum(t, last[2]) = Nil THEN Between(t, last[1], last[2]) ELSE Linear(t)

\* deviation: the last slot of the array is not looked at
GetNUnbound(t) == IF Size(t) = 0 THEN Len(t.array) ELSE UnboundSearch(t, Len(t.array))

GetN(t) ==
  LET j == Len(t.array)
  IN  IF j > 0 /\ t.array[j] = Nil THEN Between(t, 0, j)
      ELSE IF Size(t) = 0 THEN j ELSE UnboundSearch(t, j)

---------------------------------------------------------------------------
(* The program and the collector *)

NewTable(narray, nhash) ==
  Resize([array |-> <<>>, node |-> <<>>, free |-> 1], narray, nhash)

Init == /\ tab \in {NewTable(s[1], s[2]) : s \in Sizes}
        /\ weak \in BOOLEAN /\ constructing = TRUE
        /\ cursor = Nil /\ traversing = FALSE /\ visited = {}

\* t[k] = v (luaV_settable, lua_rawset).  A program that traverses the table
\* assigns to existing fields only.
Assign(k, v) == /\ traversing => Get(tab, k) # Nil
                /\ tab' = Store(Insert(tab, k), k, v)
                /\ UNCHANGED <<weak, constructing, cursor, traversing, visited>>

\* OP_SETLIST: the positional fields of the constructor, last one first.
SetList(new) ==
  LET n == Len(new)
      t == IF n > Len(tab.array) THEN Resize(tab, n, Size(tab)) ELSE tab
      set[i \in 0..n] == IF i = 0 THEN t
                         ELSE LET k == n + 1 - i IN Store(Insert(set[i - 1], k), k, new[k])
  IN  /\ constructing /\ constructing' = FALSE
      /\ tab' = set[n]
      /\ UNCHANGED <<weak, cursor, traversing, visited>>

Constructed == /\ constructing /\ constructing' = FALSE
               /\ UNCHANGED <<tab, weak, cursor, traversing, visited>>

\* traversetable, then cleartable of the weak fields S: a node without value loses
\* its key when it is an object, even an object that lives on.
Collect(S) ==
  /\ S # {} => weak /\ ~constructing
  /\ tab' = [array |-> [i \in 1..Len(tab.array) |-> IF i \in S THEN Nil ELSE tab.array[i]],
             node  |-> [p \in 1..Size(tab) |->
               LET n == tab.node[p]
                   v == IF n.key \in S /\ ~n.dead THEN Nil ELSE n.val
               IN  [key |-> n.key, dead |-> n.dead \/ (v = Nil /\ n.key \in Collectable),
                   val |-> v, next |-> n.next]],
             free  |-> tab.free]
  /\ UNCHANGED <<weak, constructing, cursor, traversing, visited>>

Begin == /\ ~constructing /\ ~traversing
         /\ traversing' = TRUE /\ cursor' = Nil
         /\ UNCHANGED <<tab, weak, constructing, visited>>

\* luaH_next; without a valid key it raises an error.
NextField ==
  LET rest == Remaining(tab, cursor)
  IN  /\ traversing /\ FindIndex(tab, cursor) >= 0
      /\ IF rest = {}
         THEN traversing' = FALSE /\ cursor' = Nil /\ visited' = {}
         ELSE /\ cursor' = KeyAt(tab, Min(rest))
              /\ visited' = visited \cup {cursor'}
              /\ traversing' = TRUE
      /\ UNCHANGED <<tab, weak, constructing>>

Next ==
  \/ \E k \in Keys, v \in Values \cup {Nil} : Assign(k, v)
  \/ \E n \in Positional : \E new \in [1..n -> Values \cup {Nil}] : SetList(new)
  \/ Constructed
  \/ \E S \in SUBSET Present(tab) : Collect(S)
  \/ Begin
  \/ NextField

Spec == Init /\ [][Next]_vars

---------------------------------------------------------------------------
(* Properties *)

TypeOK ==
  /\ tab.array \in Seq(Values \cup {Nil})
  /\ tab.node \in Seq([key : Keys \cup {Nil}, dead : BOOLEAN,
                       val : Values \cup {Nil}, next : 0..Size(tab)])
  /\ tab.free \in 0..Size(tab) + 1
  /\ cursor \in Keys \cup {Nil} /\ visited \subseteq Keys
  /\ {weak, constructing, traversing} \subseteq BOOLEAN

Fields == [k \in Keys |-> Get(tab, k)]
Map == INSTANCE LuaTableMap WITH value <- Fields
MapSpec == Map!Spec

\* The nodes that the chain of p leads to in i steps.
Reached(p, i) ==
  LET to[j \in 0..i] == IF j = 0 THEN p
                        ELSE IF to[j-1] = 0 THEN 0 ELSE tab.node[to[j-1]].next
  IN  to[i]

\* The main invariant of ltable.c: a node with a value is in the chain of its
\* main position, and if it is not in its main position, then the node there has
\* a key whose main position it is; no chain has a cycle or joins another one.
Chains ==
  LET n == Size(tab)
  IN  \A p \in 1..n :
        /\ Reached(p, n) = 0
        /\ \A q \in 1..n \ {p} : tab.node[p].next = tab.node[q].next => tab.node[p].next = 0
        /\ tab.node[p].val # Nil =>
             LET mp == MainPosition(tab, tab.node[p].key)
             IN  /\ \E i \in 0..n-1 : Reached(mp, i) = p
                 /\ MainPosition(tab, tab.node[mp].key) = mp

\* A key that is in the table is found before a dead key with the same address;
\* otherwise next would go on from another node than the program's.
LiveBeforeDead ==
  \A k \in Keys : Find(tab, k) # 0 /\ ~InArray(tab, k)
    => FindIndex(tab, k) = Len(tab.array) + Find(tab, k)

\* A traversal never gets stuck: the key it was given is still there, dead or not.
CursorFound == traversing => FindIndex(tab, cursor) >= 0

\* #t is a border.
Border ==
  LET n == GetN(tab)
  IN  /\ n > 0 => GetNum(tab, n) # Nil
      /\ GetNum(tab, n + 1) = Nil

\* rehash makes room for the key it is called for, so that it is not called again.
RehashMakesRoom ==
  \A k \in Keys : ~Holds(tab, k) /\ ~HasRoom(tab, k)
    => LET t == Rehash(tab, k) IN Holds(t, k) \/ HasRoom(t, k)

\* Every node with a value is found, and before a dead one with its key.
NodesSound == TypeOK /\ Chains /\ LiveBeforeDead

\* The sizes the array part and the node vector get, and the length they give.
SizesSound == Border /\ RehashMakesRoom
=============================================================================
