---------------------------- MODULE LuaTableProofs ----------------------------
(* Proofs about LuaTable: the array part and the chained nodes are a map, and a *)
(* traversal of them is the one LuaTableMap promises.                           *)
EXTENDS LuaTable, LuaSequences, FiniteSetTheorems, FunctionTheorems

---------------------------------------------------------------------------
(* Chains: nx gives the next of each of n nodes, 0 at the end of a chain.  The  *)
(* chain of m is the least set with m that nx does not leave.                   *)

Closed(nx, S) == \A q \in S : nx[q] # 0 => nx[q] \in S

Chain(nx, n, m) == {p \in 1..n : \A S \in SUBSET (1..n) : m \in S /\ Closed(nx, S) => p \in S}

Links(nx, n) == n \in Nat /\ nx \in [1..n -> 0..n]

(* No chain has a cycle.                                                        *)
Falls(nx, n, rank) == /\ rank \in [1..n -> Nat]
                      /\ \A p \in 1..n : nx[p] # 0 => rank[nx[p]] < rank[p]

LEMMA ChainLeast ==
  ASSUME NEW nx, NEW n, NEW m, NEW S, S \subseteq 1..n, m \in S, Closed(nx, S)
  PROVE  Chain(nx, n, m) \subseteq S
BY DEF Chain

LEMMA ChainClosed ==
  ASSUME NEW nx, NEW n, Links(nx, n), NEW m \in 1..n
  PROVE  m \in Chain(nx, n, m) /\ Closed(nx, Chain(nx, n, m)) /\ Chain(nx, n, m) \subseteq 1..n
<1>1. \A q \in Chain(nx, n, m) : nx[q] # 0 => nx[q] \in 1..n
  BY DEF Chain, Links
<1> QED BY <1>1 DEF Chain, Closed

LEMMA ChainOf ==
  ASSUME NEW nx, NEW n, Links(nx, n), NEW m \in 1..n, NEW p \in Chain(nx, n, m)
  PROVE  Chain(nx, n, p) \subseteq Chain(nx, n, m)
BY ChainClosed, ChainLeast

LEMMA ChainFirst ==
  ASSUME NEW nx, NEW n, Links(nx, n), NEW m \in 1..n
  PROVE  Chain(nx, n, m) = {m} \cup (IF nx[m] = 0 THEN {} ELSE Chain(nx, n, nx[m]))
<1>1. CASE nx[m] = 0
  <2>1. Closed(nx, {m})
    BY <1>1 DEF Closed
  <2>2. Chain(nx, n, m) \subseteq {m}
    BY <2>1, ChainLeast
  <2> QED BY <1>1, <2>2, ChainClosed
<1>2. CASE nx[m] # 0
  <2>1. nx[m] \in 1..n
    BY <1>2 DEF Links
  <2>2. nx[m] \in Chain(nx, n, m)
    BY <1>2, ChainClosed DEF Closed
  <2>3. Chain(nx, n, nx[m]) \subseteq Chain(nx, n, m)
    BY <2>2, ChainOf
  <2> DEFINE S == {m} \cup Chain(nx, n, nx[m])
  <2>4. S \subseteq 1..n /\ Closed(nx, S)
    BY <2>1, ChainClosed DEF Closed
  <2>5. Chain(nx, n, m) \subseteq S
    BY <2>4, ChainLeast
  <2> QED BY <1>2, <2>3, <2>5, ChainClosed
<1> QED BY <1>1, <1>2

(* What is in a chain and is not its head is the next of another.               *)
LEMMA ChainPrevious ==
  ASSUME NEW nx, NEW n, Links(nx, n), NEW m \in 1..n, NEW p \in Chain(nx, n, m), p # m
  PROVE  \E q \in Chain(nx, n, m) : nx[q] = p
<1> SUFFICES ASSUME \A q \in Chain(nx, n, m) : nx[q] # p PROVE FALSE
  OBVIOUS
<1> DEFINE S == Chain(nx, n, m) \ {p}
<1>1. m \in S /\ S \subseteq 1..n
  BY ChainClosed
<1>2. Closed(nx, S)
  BY ChainClosed DEF Closed
<1> HIDE DEF S
<1>3. Chain(nx, n, m) \subseteq S
  BY <1>1, <1>2, ChainLeast
<1> QED BY <1>3 DEF S

LEMMA ChainFalls ==
  ASSUME NEW nx, NEW n, Links(nx, n), NEW rank, Falls(nx, n, rank), NEW m \in 1..n
  PROVE  \A p \in Chain(nx, n, m) : p = m \/ rank[p] < rank[m]
<1> DEFINE S == {p \in 1..n : p = m \/ rank[p] < rank[m]}
<1>1. Closed(nx, S)
  <2>1. SUFFICES ASSUME NEW q \in S, nx[q] # 0 PROVE nx[q] \in S
    BY DEF Closed
  <2>2. nx[q] \in 1..n /\ rank[nx[q]] < rank[q]
    BY <2>1 DEF Links, Falls
  <2>3. rank[nx[q]] \in Nat /\ rank[q] \in Nat /\ rank[m] \in Nat
    BY <2>2 DEF Falls
  <2> QED BY <2>2, <2>3
<1> HIDE DEF S
<1>2. Chain(nx, n, m) \subseteq S
  <2>1. m \in S /\ S \subseteq 1..n
    BY DEF S
  <2> QED BY <1>1, <2>1, ChainLeast
<1> QED BY <1>2 DEF S

LEMMA ChainOneWay ==
  ASSUME NEW nx, NEW n, Links(nx, n), NEW rank, Falls(nx, n, rank),
         NEW p \in 1..n, NEW q \in 1..n, p \in Chain(nx, n, q), q \in Chain(nx, n, p)
  PROVE  p = q
<1>1. (p = q \/ rank[p] < rank[q]) /\ (q = p \/ rank[q] < rank[p])
  BY ChainFalls
<1>2. rank[p] \in Nat /\ rank[q] \in Nat
  BY DEF Falls
<1> QED BY <1>1, <1>2

---------------------------------------------------------------------------
(* Searching a chain for the first node that is one of M.                       *)

(* q is the first in the chain of p that is one of M.                           *)
IsFirst(nx, n, M, p, q) == q \in M \cap Chain(nx, n, p) /\ M \cap Chain(nx, n, p) \subseteq Chain(nx, n, q)

LEMMA FirstExists ==
  ASSUME NEW nx, NEW n, Links(nx, n), NEW rank, Falls(nx, n, rank), NEW M
  PROVE  \A p \in 1..n : M \cap Chain(nx, n, p) # {} => \E q : IsFirst(nx, n, M, p, q)
<1> DEFINE Bad == {p \in 1..n : M \cap Chain(nx, n, p) # {} /\ ~ \E q : IsFirst(nx, n, M, p, q)}
           Ranks == {rank[p] : p \in Bad}
<1> SUFFICES ASSUME Bad # {} PROVE FALSE
  OBVIOUS
<1>1. Ranks \subseteq Nat /\ Ranks # {}
  BY DEF Falls
<1>2. PICK p \in Bad : \A q \in Bad : rank[p] <= rank[q]
  <2> HIDE DEF Bad
  <2>1. PICK r \in Ranks : \A s \in Ranks : r <= s
    <3> HIDE DEF Ranks
    <3> QED BY <1>1, Least
  <2> QED BY <2>1
<1>3. p \notin M
  <2>1. SUFFICES ASSUME p \in M PROVE FALSE
    OBVIOUS
  <2>2. IsFirst(nx, n, M, p, p)
    BY <2>1, ChainClosed DEF IsFirst
  <2> QED BY <2>2
<1>4. nx[p] # 0 /\ M \cap Chain(nx, n, nx[p]) # {} /\ M \cap Chain(nx, n, p) = M \cap Chain(nx, n, nx[p])
  BY <1>3, ChainFirst
<1>5. nx[p] \in 1..n /\ rank[nx[p]] < rank[p] /\ rank[nx[p]] \in Nat /\ rank[p] \in Nat
  BY <1>4 DEF Links, Falls
<1>6. nx[p] \notin Bad
  <2> HIDE DEF Bad
  <2> QED BY <1>2, <1>5
<1>7. PICK q : IsFirst(nx, n, M, nx[p], q)
  BY <1>4, <1>5, <1>6
<1>8. IsFirst(nx, n, M, p, q)
  BY <1>4, <1>7 DEF IsFirst
<1> QED BY <1>8

(* The recursive search.                                                        *)
Search(nx, n, M, f) == f = [p \in 0..n |-> IF p = 0 THEN 0 ELSE IF p \in M THEN p ELSE f[nx[p]]]

FirstOf(nx, n, S) == CHOOSE q \in S : S \subseteq Chain(nx, n, q)

LEMMA SearchExists ==
  ASSUME NEW nx, NEW n, Links(nx, n), NEW rank, Falls(nx, n, rank), NEW M
  PROVE  \E f : Search(nx, n, M, f)
<1> DEFINE found(p) == IF p = 0 \/ M \cap Chain(nx, n, p) = {} THEN 0
                       ELSE FirstOf(nx, n, M \cap Chain(nx, n, p))
           f == [p \in 0..n |-> found(p)]
<1>1. ASSUME NEW p \in 1..n, p \in M PROVE found(p) = p
  <2>1. IsFirst(nx, n, M, p, p)
    BY <1>1, ChainClosed DEF IsFirst
  <2>2. ASSUME NEW q, IsFirst(nx, n, M, p, q) PROVE q = p
    <3>1. q \in 1..n /\ q \in Chain(nx, n, p) /\ p \in Chain(nx, n, q)
      BY <2>1, <2>2, ChainClosed DEF IsFirst
    <3> QED BY <3>1, ChainOneWay
  <2> QED BY <2>1, <2>2 DEF IsFirst, FirstOf
<1>2. ASSUME NEW p \in 1..n, p \notin M PROVE nx[p] \in 0..n /\ found(p) = found(nx[p])
  <2>1. nx[p] \in 0..n
    BY DEF Links
  <2>2. CASE nx[p] = 0
    <3>1. M \cap Chain(nx, n, p) = {}
      BY <1>2, <2>2, ChainFirst
    <3> QED BY <2>1, <2>2, <3>1
  <2>3. CASE nx[p] # 0
    <3>1. M \cap Chain(nx, n, p) = M \cap Chain(nx, n, nx[p])
      BY <1>2, <2>3, ChainFirst
    <3> QED BY <2>1, <2>3, <3>1
  <2> QED BY <2>2, <2>3
<1>3. Search(nx, n, M, f)
  <2>1. ASSUME NEW p \in 0..n PROVE f[p] = IF p = 0 THEN 0 ELSE IF p \in M THEN p ELSE f[nx[p]]
    <3>1. CASE p = 0
      BY <3>1
    <3>2. CASE p # 0 /\ p \in M
      BY <1>1, <3>2
    <3>3. CASE p # 0 /\ p \notin M
      <4>1. p \in 1..n
        BY <3>3 DEF Links
      <4>2. nx[p] \in 0..n /\ found(p) = found(nx[p])
        BY <1>2, <3>3, <4>1
      <4>3. f[p] = found(p) /\ f[nx[p]] = found(nx[p])
        BY <4>2
      <4> HIDE DEF f, found
      <4> QED BY <3>3, <4>2, <4>3
    <3> QED BY <3>1, <3>2, <3>3
  <2> HIDE DEF found
  <2> QED BY <2>1 DEF Search
<1> QED BY <1>3

LEMMA SearchFinds ==
  ASSUME NEW nx, NEW n, Links(nx, n), NEW rank, Falls(nx, n, rank), NEW M, NEW f, Search(nx, n, M, f)
  PROVE  \A p \in 1..n : \/ f[p] = 0 /\ M \cap Chain(nx, n, p) = {}
                         \/ f[p] \in 1..n /\ IsFirst(nx, n, M, p, f[p])
<1> DEFINE Good(p) == \/ f[p] = 0 /\ M \cap Chain(nx, n, p) = {}
                      \/ f[p] \in 1..n /\ IsFirst(nx, n, M, p, f[p])
           Bad == {p \in 1..n : ~ Good(p)}
           Ranks == {rank[p] : p \in Bad}
<1> SUFFICES ASSUME Bad # {} PROVE FALSE
  OBVIOUS
<1>1. Ranks \subseteq Nat /\ Ranks # {}
  BY DEF Falls
<1>2. PICK p \in Bad : \A q \in Bad : rank[p] <= rank[q]
  <2> HIDE DEF Bad
  <2>1. PICK r \in Ranks : \A s \in Ranks : r <= s
    <3> HIDE DEF Ranks
    <3> QED BY <1>1, Least
  <2> QED BY <2>1
<1>3. p \in 1..n /\ nx[p] \in 0..n /\ f[p] = (IF p \in M THEN p ELSE f[nx[p]]) /\ f[0] = 0
  BY DEF Search, Links
<1>4. p \notin M
  <2>1. SUFFICES ASSUME p \in M PROVE FALSE
    OBVIOUS
  <2>2. IsFirst(nx, n, M, p, p) /\ f[p] = p
    BY <1>3, <2>1, ChainClosed DEF IsFirst
  <2> QED BY <1>3, <2>2
<1>5. CASE nx[p] = 0
  <2>1. f[p] = 0 /\ M \cap Chain(nx, n, p) = {}
    BY <1>3, <1>4, <1>5, ChainFirst
  <2> QED BY <2>1
<1>6. CASE nx[p] # 0
  <2>1. nx[p] \in 1..n /\ rank[nx[p]] < rank[p] /\ rank[nx[p]] \in Nat /\ rank[p] \in Nat
    BY <1>3, <1>6 DEF Falls
  <2>2. nx[p] \notin Bad
    <3> HIDE DEF Bad
    <3> QED BY <1>2, <2>1
  <2>3. Good(nx[p])
    BY <2>1, <2>2
  <2>4. M \cap Chain(nx, n, p) = M \cap Chain(nx, n, nx[p]) /\ f[p] = f[nx[p]]
    BY <1>3, <1>4, <1>6, ChainFirst
  <2>5. Good(p)
    BY <2>3, <2>4 DEF IsFirst
  <2> QED BY <2>5
<1> QED BY <1>3, <1>5, <1>6

---------------------------------------------------------------------------
(* What holds of a table, after every function of ltable.c.                     *)

Nodes(t) == 1..Size(t)
Nexts(t) == [p \in Nodes(t) |-> t.node[p].next]
ChainAt(t, p) == Chain(Nexts(t), Size(t), p)

Keyed(t) == {p \in Nodes(t) : t.node[p].key # Nil}
Home(t, p) == MainPosition(t, t.node[p].key)

NodeRecords(n) == [key : Keys \cup {Nil}, dead : BOOLEAN, val : Values \cup {Nil}, next : 0..n]
TableType(t) ==
  /\ t \in [array : Seq(Values \cup {Nil}), node : Seq(NodeRecords(Size(t))), free : 1..Size(t) + 1]
  /\ Size(t) \in Nat

(* A node that never had a key is as it was made, and is below free; a dead key *)
(* has no value; chains go through nodes with keys.                             *)
KeysAndValues(t) == \A p \in Nodes(t) :
  /\ t.node[p].key = Nil => t.node[p].next = 0 /\ t.node[p].val = Nil /\ ~ t.node[p].dead
  /\ t.node[p].dead => t.node[p].val = Nil
  /\ t.node[p].next # 0 => t.node[p].next \in Keyed(t)
  /\ p >= t.free => p \in Keyed(t)

OneBefore(t) == \A p, q \in Nodes(t) : t.node[p].next = t.node[q].next /\ t.node[p].next # 0 => p = q

NoCycle(t) == \E rank : Falls(Nexts(t), Size(t), rank)

(* A node with a key, whether or not it has a value, is in the chain of its     *)
(* main position, where there is a key with that main position.                 *)
AtHome(t) == \A p \in Keyed(t) : /\ ~ InArray(t, t.node[p].key)
                                 /\ p \in ChainAt(t, Home(t, p))
                                 /\ Home(t, p) \in Keyed(t) /\ Home(t, Home(t, p)) = Home(t, p)

(* A key is live in one node only, and dead in nodes of the chain after it.     *)
OneLive(t) == \A p, q \in Keyed(t) :
  t.node[p].key = t.node[q].key /\ ~ t.node[p].dead
    => IF t.node[q].dead THEN q \in ChainAt(t, p) ELSE p = q

(* Only slots of keys have a value.                                             *)
ArrayOfInts(t) == \A i \in 1..Len(t.array) : t.array[i] # Nil => i \in Ints

Sound(t) == /\ TableType(t) /\ KeysAndValues(t) /\ OneBefore(t) /\ NoCycle(t) /\ AtHome(t) /\ OneLive(t)
            /\ ArrayOfInts(t)

(* What a traversal has returned are the keys with a value up to its own.       *)
TraversalKept ==
  /\ constructing => ~ traversing
  /\ ~ traversing => visited = {}
  /\ traversing => /\ FindIndex(tab, cursor) >= 0
                   /\ \A j \in Keys : Get(tab, j) # Nil =>
                        (j \in visited <=> FindIndex(tab, j) <= FindIndex(tab, cursor))

TableInvariant ==
  /\ Sound(tab) /\ Size(tab) <= 2^MaxBits
  /\ cursor \in Keys \cup {Nil} /\ visited \subseteq Keys
  /\ weak \in BOOLEAN /\ constructing \in BOOLEAN /\ traversing \in BOOLEAN
  /\ TraversalKept

---------------------------------------------------------------------------
(* Finding a key.                                                               *)

LEMMA KeysAre == Nil \notin Keys /\ Nil \notin Values /\ Ints \subseteq Nat /\ Ints \subseteq Keys
BY TableAssumption DEF Keys

LEMMA NodeFacts ==
  ASSUME NEW t, TableType(t)
  PROVE  /\ Size(t) \in Nat /\ Len(t.array) \in Nat /\ t.free \in Nat
         /\ \A p \in Nodes(t) : /\ t.node[p] \in NodeRecords(Size(t))
                                /\ t.node[p].key \in Keys \cup {Nil} /\ t.node[p].dead \in BOOLEAN
                                /\ t.node[p].val \in Values \cup {Nil} /\ t.node[p].next \in 0..Size(t)
         /\ \A i \in 1..Len(t.array) : t.array[i] \in Values \cup {Nil}
<1>1. /\ t.array \in Seq(Values \cup {Nil}) /\ t.node \in Seq(NodeRecords(Size(t)))
      /\ t.free \in 1..Size(t) + 1 /\ Size(t) \in Nat /\ Nodes(t) = 1..Len(t.node)
  BY DEF TableType, Size, Nodes
<1>2. \A i \in 1..Len(t.array) : t.array[i] \in Values \cup {Nil}
  BY <1>1, ElementOfSeq
<1>3. \A p \in Nodes(t) : t.node[p] \in NodeRecords(Size(t))
  <2>1. ASSUME NEW S, NEW s \in Seq(S), NEW i \in 1..Len(s) PROVE s[i] \in S
    BY ElementOfSeq
  <2> QED BY <1>1, <2>1
<1>4. Len(t.array) \in Nat /\ t.free \in Nat
  BY <1>1
<1> QED BY <1>1, <1>2, <1>3, <1>4 DEF NodeRecords

LEMMA NextsLink == ASSUME NEW t, TableType(t) PROVE Links(Nexts(t), Size(t))
BY NodeFacts DEF Links, Nexts, Nodes

LEMMA MainPositionIn ==
  ASSUME NEW t, Size(t) \in Nat \ {0}, NEW k \in Keys
  PROVE  MainPosition(t, k) \in Nodes(t)
<1>1. Hash[k] \in Nat
  BY TableAssumption
<1>2. ASSUME NEW h \in Nat, NEW n \in Nat \ {0} PROVE h % n \in 0..(n - 1)
  OBVIOUS
<1>3. CASE k \in Pow2Keys \/ Size(t) = 1
  <2>1. MainPosition(t, k) = (Hash[k] % Size(t)) + 1
    BY <1>3 DEF MainPosition
  <2>2. Hash[k] % Size(t) \in 0..(Size(t) - 1)
    BY <1>1, <1>2
  <2> QED BY <2>1, <2>2 DEF Nodes
<1>4. CASE ~ (k \in Pow2Keys \/ Size(t) = 1)
  <2>1. MainPosition(t, k) = (Hash[k] % (Size(t) - 1)) + 1
    BY <1>4 DEF MainPosition
  <2>2. Size(t) - 1 \in Nat \ {0}
    BY <1>4
  <2>3. Hash[k] % (Size(t) - 1) \in 0..(Size(t) - 1 - 1)
    BY <1>1, <1>2, <2>2
  <2> QED BY <2>1, <2>3 DEF Nodes
<1> QED BY <1>3, <1>4

(* The search that First makes.                                                 *)
LEMMA FirstFinds ==
  ASSUME NEW t, TableType(t), NoCycle(t), NEW k \in Keys, NEW M, M \subseteq Nodes(t), Size(t) # 0
  PROVE  \/ First(t, k, M) = 0 /\ M \cap ChainAt(t, MainPosition(t, k)) = {}
         \/ /\ First(t, k, M) \in Nodes(t)
            /\ IsFirst(Nexts(t), Size(t), M, MainPosition(t, k), First(t, k, M))
<1>1. Links(Nexts(t), Size(t)) /\ Size(t) \in Nat /\ MainPosition(t, k) \in 1..Size(t)
  BY NextsLink, NodeFacts, MainPositionIn DEF Nodes
<1>2. PICK rank : Falls(Nexts(t), Size(t), rank)
  BY DEF NoCycle
<1> DEFINE from == CHOOSE f : f = [p \in 0..Size(t) |-> IF p = 0 THEN 0 ELSE IF p \in M THEN p
                                                         ELSE f[t.node[p].next]]
<1>3. Search(Nexts(t), Size(t), M, from)
  <2>1. PICK f : Search(Nexts(t), Size(t), M, f)
    BY <1>1, <1>2, SearchExists
  <2>2. \A g : Search(Nexts(t), Size(t), M, g)
               <=> g = [p \in 0..Size(t) |-> IF p = 0 THEN 0 ELSE IF p \in M THEN p ELSE g[t.node[p].next]]
    <3>1. \A p \in 0..Size(t) : p # 0 => Nexts(t)[p] = t.node[p].next
      BY <1>1 DEF Nexts, Nodes
    <3>2. \A g : [p \in 0..Size(t) |-> IF p = 0 THEN 0 ELSE IF p \in M THEN p ELSE g[t.node[p].next]]
               = [p \in 0..Size(t) |-> IF p = 0 THEN 0 ELSE IF p \in M THEN p ELSE g[Nexts(t)[p]]]
      BY <3>1
    <3> QED BY <3>2 DEF Search
  <2> QED BY <2>1, <2>2
<1>4. First(t, k, M) = from[MainPosition(t, k)]
  BY DEF First
<1> HIDE DEF from
<1> QED BY <1>1, <1>2, <1>3, <1>4, SearchFinds DEF Nodes, ChainAt

Live(t, k) == {p \in Nodes(t) : t.node[p].key = k /\ ~ t.node[p].dead}
AnyOf(t, k) == {p \in Nodes(t) : t.node[p].key = k}

LEMMA FindIs == ASSUME NEW t, NEW k PROVE Find(t, k) = First(t, k, Live(t, k))
BY DEF Find, Live, Nodes

(* A node with a key is in the chain where that key is looked for.              *)
LEMMA KeyInChain ==
  ASSUME NEW t, Sound(t), NEW k \in Keys, NEW p \in AnyOf(t, k)
  PROVE  p \in ChainAt(t, MainPosition(t, k)) /\ p \in Keyed(t) /\ ~ InArray(t, k) /\ Size(t) # 0
<1>1. p \in Keyed(t)
  BY KeysAre DEF Keyed, AnyOf
<1>2. Size(t) # 0
  BY NodeFacts DEF Sound, AnyOf, Nodes
<1> QED BY <1>1, <1>2 DEF Sound, AtHome, AnyOf, Home

LEMMA FindFinds ==
  ASSUME NEW t, Sound(t), NEW k \in Keys
  PROVE  \/ Find(t, k) = 0 /\ Live(t, k) = {}
         \/ Find(t, k) \in Nodes(t) /\ Live(t, k) = {Find(t, k)}
<1>1. Live(t, k) \subseteq AnyOf(t, k) /\ Live(t, k) \subseteq Nodes(t)
  BY DEF Live, AnyOf
<1>2. CASE Size(t) = 0
  <2>1. First(t, k, Live(t, k)) = 0
    BY <1>2 DEF First
  <2> QED BY <1>1, <2>1, FindIs, <1>2, KeyInChain
<1>3. CASE Size(t) # 0
  <2>1. \/ Find(t, k) = 0 /\ Live(t, k) \cap ChainAt(t, MainPosition(t, k)) = {}
        \/ Find(t, k) \in Nodes(t) /\ Find(t, k) \in Live(t, k)
    BY <1>1, <1>3, FirstFinds, FindIs DEF Sound, IsFirst
  <2>2. Live(t, k) \subseteq ChainAt(t, MainPosition(t, k))
    BY <1>1, KeyInChain
  <2>3. \A p, q \in Live(t, k) : p = q
    <3>1. SUFFICES ASSUME NEW p \in Live(t, k), NEW q \in Live(t, k) PROVE p = q
      OBVIOUS
    <3>2. p \in Keyed(t) /\ q \in Keyed(t)
      BY <1>1, KeyInChain
    <3> QED BY <3>2 DEF Sound, OneLive, Live
  <2> QED BY <2>1, <2>2, <2>3
<1> QED BY <1>2, <1>3

(* findindex: a live key is found before a dead one.                            *)
LEMMA FindIndexFinds ==
  ASSUME NEW t, Sound(t), NEW k \in Keys, ~ InArray(t, k), Find(t, k) # 0
  PROVE  FindIndex(t, k) = Len(t.array) + Find(t, k)
<1>1. Find(t, k) \in Nodes(t) /\ Live(t, k) = {Find(t, k)} /\ Find(t, k) \in AnyOf(t, k)
  BY FindFinds DEF Live, AnyOf
<1>2. Size(t) # 0 /\ Find(t, k) \in Keyed(t) /\ Find(t, k) \in ChainAt(t, MainPosition(t, k))
  BY <1>1, KeyInChain
<1>3. PICK q : q = First(t, k, AnyOf(t, k))
  OBVIOUS
<1>4. q \in AnyOf(t, k) /\ Find(t, k) \in ChainAt(t, q)
  <2>1. AnyOf(t, k) \subseteq Nodes(t)
    BY DEF AnyOf
  <2>2. \/ q = 0 /\ AnyOf(t, k) \cap ChainAt(t, MainPosition(t, k)) = {}
        \/ IsFirst(Nexts(t), Size(t), AnyOf(t, k), MainPosition(t, k), q)
    BY <1>2, <1>3, <2>1, FirstFinds DEF Sound
  <2> QED BY <1>1, <1>2, <2>2 DEF IsFirst, ChainAt
<1>5. q = Find(t, k)
  <2>1. CASE q \in Live(t, k)
    BY <1>1, <2>1
  <2>2. CASE q \notin Live(t, k)
    <3>1. q \in Keyed(t) /\ t.node[q].dead /\ t.node[q].key = k
      BY <1>4, <2>2, KeyInChain DEF Live, AnyOf
    <3>2. q \in ChainAt(t, Find(t, k))
      BY <1>1, <1>2, <3>1 DEF Sound, OneLive, Live
    <3>3. PICK rank : Falls(Nexts(t), Size(t), rank)
      BY DEF Sound, NoCycle
    <3>4. q \in 1..Size(t) /\ Find(t, k) \in 1..Size(t) /\ Links(Nexts(t), Size(t))
      BY <1>1, <1>4, NextsLink DEF AnyOf, Nodes, Sound
    <3> QED BY <1>4, <3>2, <3>3, <3>4, ChainOneWay DEF ChainAt
  <2> QED BY <2>1, <2>2
<1>6. FindIndex(t, k) = LET p == First(t, k, AnyOf(t, k)) IN IF p = 0 THEN -1 ELSE Len(t.array) + p
  BY KeysAre DEF FindIndex, AnyOf, Nodes
<1> QED BY <1>3, <1>5, <1>6

---------------------------------------------------------------------------
(* What a program gets, and storing a value where its key is.                   *)

LEMMA GetLive ==
  ASSUME NEW t, Sound(t), NEW k \in Keys, NEW p \in Live(t, k)
  PROVE  /\ ~ InArray(t, k) /\ Find(t, k) = p /\ p \in Nodes(t) /\ Holds(t, k)
         /\ Get(t, k) = t.node[p].val /\ Live(t, k) = {p}
<1>1. p \in AnyOf(t, k) /\ p \in Nodes(t)
  BY DEF Live, AnyOf
<1>2. ~ InArray(t, k) /\ Find(t, k) = p /\ Live(t, k) = {p}
  BY <1>1, KeyInChain, FindFinds
<1>3. p # 0
  BY <1>1, NodeFacts DEF Nodes, Sound
<1> QED BY <1>1, <1>2, <1>3 DEF Get, Holds

LEMMA GetNone ==
  ASSUME NEW t, Sound(t), NEW k \in Keys, ~ InArray(t, k), Live(t, k) = {}
  PROVE  Find(t, k) = 0 /\ ~ Holds(t, k) /\ Get(t, k) = Nil
<1>1. Find(t, k) = 0
  BY FindFinds
<1> QED BY <1>1 DEF Get, Holds

LEMMA HoldsLive ==
  ASSUME NEW t, Sound(t), NEW k \in Keys, Holds(t, k), ~ InArray(t, k)
  PROVE  Find(t, k) \in Live(t, k)
BY FindFinds DEF Holds

LEMMA GetType ==
  ASSUME NEW t, Sound(t), NEW k \in Keys
  PROVE  Get(t, k) \in Values \cup {Nil}
<1>1. CASE InArray(t, k)
  <2>1. k \in 1..Len(t.array)
    BY <1>1, NodeFacts, KeysAre DEF InArray, Sound
  <2> QED BY <1>1, <2>1, NodeFacts DEF Get, Sound
<1>2. CASE ~ InArray(t, k) /\ Live(t, k) = {}
  BY <1>2, GetNone
<1>3. CASE ~ InArray(t, k) /\ Live(t, k) # {}
  BY <1>3, GetLive, NodeFacts DEF Sound
<1> QED BY <1>1, <1>2, <1>3

LEMMA MakeSeq ==
  ASSUME NEW S, NEW n \in Nat, NEW f \in [1..n -> S]
  PROVE  f \in Seq(S) /\ Len(f) = n
<1>1. f \in Seq(S)
  BY SeqDef
<1> QED BY <1>1, LenProperties

LEMMA MakeTable ==
  ASSUME NEW a \in Seq(Values \cup {Nil}), NEW n \in Nat, NEW f \in [1..n -> NodeRecords(n)], NEW x \in 1..n + 1
  PROVE  /\ TableType([array |-> a, node |-> f, free |-> x])
         /\ Size([array |-> a, node |-> f, free |-> x]) = n
<1> DEFINE u == [array |-> a, node |-> f, free |-> x]
<1>1. f \in Seq(NodeRecords(n)) /\ Len(f) = n
  BY MakeSeq
<1>2. Size(u) = n
  BY <1>1 DEF Size
<1> QED BY <1>1, <1>2 DEF TableType

LEMMA TableParts ==
  ASSUME NEW t, TableType(t)
  PROVE  /\ t = [array |-> t.array, node |-> t.node, free |-> t.free]
         /\ t.node \in [Nodes(t) -> NodeRecords(Size(t))] /\ t.array \in Seq(Values \cup {Nil})
         /\ t.array \in [1..Len(t.array) -> Values \cup {Nil}]
         /\ t.free \in 1..Size(t) + 1 /\ Size(t) \in Nat
<1>1. t.node \in Seq(NodeRecords(Size(t))) /\ t.array \in Seq(Values \cup {Nil})
  BY DEF TableType
<1>2. t.node \in [Nodes(t) -> NodeRecords(Size(t))] /\ t.array \in [1..Len(t.array) -> Values \cup {Nil}]
  BY <1>1, LenProperties DEF Nodes, Size
<1> QED BY <1>1, <1>2 DEF TableType

(* Keys and chains are as they were.                                            *)
SameLinks(t, u) ==
  /\ Size(u) = Size(t) /\ Len(u.array) = Len(t.array) /\ u.free = t.free
  /\ \A p \in Nodes(t) : u.node[p].key = t.node[p].key /\ u.node[p].next = t.node[p].next

LEMMA LinksAre ==
  ASSUME NEW t, NEW u, SameLinks(t, u)
  PROVE  /\ Nodes(u) = Nodes(t) /\ Nexts(u) = Nexts(t) /\ Keyed(u) = Keyed(t)
         /\ \A k : MainPosition(u, k) = MainPosition(t, k) /\ InArray(u, k) = InArray(t, k)
         /\ \A p : ChainAt(u, p) = ChainAt(t, p)
<1>1. Size(u) = Size(t) /\ Nodes(u) = Nodes(t)
  BY DEF SameLinks, Nodes
<1>2. Nexts(u) = Nexts(t)
  BY <1>1 DEF SameLinks, Nexts
<1>3. Keyed(u) = Keyed(t)
  BY <1>1 DEF SameLinks, Keyed
<1>4. ASSUME NEW k PROVE MainPosition(u, k) = MainPosition(t, k) /\ InArray(u, k) = InArray(t, k)
  BY <1>1 DEF SameLinks, MainPosition, InArray
<1> QED BY <1>1, <1>2, <1>3, <1>4 DEF ChainAt

LEMMA SameSound ==
  ASSUME NEW t, Sound(t), NEW u, TableType(u), SameLinks(t, u), ArrayOfInts(u),
         \A p \in Nodes(t) : /\ u.node[p].dead => u.node[p].val = Nil
                             /\ u.node[p].key = Nil => u.node[p].val = Nil /\ ~ u.node[p].dead
                             /\ t.node[p].dead => u.node[p].dead
  PROVE  Sound(u)
<1>1. /\ Nodes(u) = Nodes(t) /\ Nexts(u) = Nexts(t) /\ Keyed(u) = Keyed(t) /\ u.free = t.free /\ Size(u) = Size(t)
      /\ \A k : MainPosition(u, k) = MainPosition(t, k) /\ InArray(u, k) = InArray(t, k)
      /\ \A p : ChainAt(u, p) = ChainAt(t, p)
      /\ \A p \in Nodes(t) : u.node[p].key = t.node[p].key /\ u.node[p].next = t.node[p].next
  BY LinksAre DEF SameLinks
<1>2. KeysAndValues(u)
  BY <1>1 DEF Sound, KeysAndValues
<1>3. OneBefore(u) /\ NoCycle(u)
  BY <1>1 DEF Sound, OneBefore, NoCycle
<1>4. AtHome(u)
  <2>1. \A p \in Keyed(t) : p \in Nodes(t) /\ Home(u, p) = Home(t, p)
    BY <1>1 DEF Keyed, Home
  <2> QED BY <1>1, <2>1 DEF Sound, AtHome
<1>5. OneLive(u)
  <2>1. SUFFICES ASSUME NEW p \in Keyed(t), NEW q \in Keyed(t), u.node[p].key = u.node[q].key, ~ u.node[p].dead
                 PROVE  IF u.node[q].dead THEN q \in ChainAt(t, p) ELSE p = q
    BY <1>1 DEF OneLive
  <2>2. p \in Nodes(t) /\ q \in Nodes(t)
    BY DEF Keyed
  <2>3. ~ t.node[p].dead /\ t.node[p].key = t.node[q].key
    BY <1>1, <2>1, <2>2
  <2>4. IF t.node[q].dead THEN q \in ChainAt(t, p) ELSE p = q
    BY <2>3 DEF Sound, OneLive
  <2> QED BY <2>1, <2>2, <2>4
<1> QED BY <1>2, <1>3, <1>4, <1>5 DEF Sound

(* One field of u is v, the others are those of t.                              *)
OneField(t, u, k, v) == \A j \in Keys : Get(u, j) = IF j = k THEN v ELSE Get(t, j)

LEMMA StoreIs ==
  ASSUME NEW a, NEW f, NEW x, NEW t, t = [array |-> a, node |-> f, free |-> x], NEW k, NEW v
  PROVE  /\ InArray(t, k) => Store(t, k, v) = [array |-> [a EXCEPT ![k] = v], node |-> f, free |-> x]
         /\ ~ InArray(t, k) =>
              Store(t, k, v) = [array |-> a, node |-> [f EXCEPT ![Find(t, k)] = [f[Find(t, k)] EXCEPT !.val = v]],
                                free |-> x]
<1>1. t.array = a /\ t.node = f
  OBVIOUS
<1>2. CASE InArray(t, k)
  <2>1. Store(t, k, v) = [t EXCEPT !.array[k] = v]
    BY <1>2 DEF Store
  <2>2. [t EXCEPT !.array[k] = v] = [array |-> [a EXCEPT ![k] = v], node |-> f, free |-> x]
    OBVIOUS
  <2> QED BY <1>2, <2>1, <2>2
<1>3. CASE ~ InArray(t, k)
  <2>1. Store(t, k, v) = [t EXCEPT !.node[Find(t, k)].val = v]
    BY <1>3 DEF Store
  <2>2. PICK p : p = Find(t, k)
    OBVIOUS
  <2>3. [t EXCEPT !.node[p].val = v] = [array |-> a, node |-> [f EXCEPT ![p] = [f[p] EXCEPT !.val = v]], free |-> x]
    OBVIOUS
  <2> QED BY <1>3, <2>1, <2>2, <2>3
<1> QED BY <1>2, <1>3

LEMMA StoreFacts ==
  ASSUME NEW t, TableType(t), NEW k \in Keys, NEW v \in Values \cup {Nil},
         InArray(t, k) \/ Find(t, k) \in Nodes(t)
  PROVE  /\ TableType(Store(t, k, v)) /\ SameLinks(t, Store(t, k, v))
         /\ \A p \in Nodes(t) : Store(t, k, v).node[p].dead = t.node[p].dead
         /\ InArray(t, k) => /\ Store(t, k, v).array[k] = v /\ Store(t, k, v).node = t.node
                             /\ \A i \in 1..Len(t.array) : i # k => Store(t, k, v).array[i] = t.array[i]
         /\ ~ InArray(t, k) => /\ Store(t, k, v).node[Find(t, k)].val = v /\ Store(t, k, v).array = t.array
                               /\ \A p \in Nodes(t) : p # Find(t, k) => Store(t, k, v).node[p] = t.node[p]
<1>1. PICK u : u = Store(t, k, v)
  OBVIOUS
<1>2. CASE InArray(t, k)
  <2>1. k \in 1..Len(t.array)
    BY <1>2, NodeFacts, KeysAre DEF InArray
  <2>2. PICK a : a = [t.array EXCEPT ![k] = v]
    OBVIOUS
  <2>3. a \in Seq(Values \cup {Nil}) /\ Len(a) = Len(t.array)
    <3>1. a \in [1..Len(t.array) -> Values \cup {Nil}] /\ Len(t.array) \in Nat
      BY <2>1, <2>2, TableParts, NodeFacts
    <3> QED BY <3>1, MakeSeq
  <2>4. a[k] = v /\ \A i \in 1..Len(t.array) : i # k => a[i] = t.array[i]
    BY <2>1, <2>2, TableParts
  <2>5. u = [array |-> a, node |-> t.node, free |-> t.free]
    BY <1>1, <1>2, <2>2, TableParts, StoreIs
  <2>6. TableType(u) /\ Size(u) = Size(t)
    <3>1. t.node \in [1..Size(t) -> NodeRecords(Size(t))] /\ t.free \in 1..Size(t) + 1 /\ Size(t) \in Nat
      BY TableParts DEF Nodes
    <3> QED BY <2>3, <2>5, <3>1, MakeTable
  <2>7. SameLinks(t, u)
    BY <2>3, <2>5, <2>6 DEF SameLinks
  <2> QED BY <1>1, <1>2, <2>4, <2>5, <2>6, <2>7
<1>3. CASE ~ InArray(t, k)
  <2>1. PICK p : p = Find(t, k)
    OBVIOUS
  <2>2. PICK f : f = [t.node EXCEPT ![p] = [t.node[p] EXCEPT !.val = v]]
    OBVIOUS
  <2>3. p \in Nodes(t) /\ t.node[p] \in NodeRecords(Size(t))
    BY <1>3, <2>1, NodeFacts
  <2>4. [t.node[p] EXCEPT !.val = v] \in NodeRecords(Size(t))
    BY <2>3 DEF NodeRecords
  <2>5. f \in [Nodes(t) -> NodeRecords(Size(t))] /\ f[p] = [t.node[p] EXCEPT !.val = v]
        /\ \A q \in Nodes(t) : q # p => f[q] = t.node[q]
    BY <2>2, <2>3, <2>4, TableParts
  <2>6. f[p].val = v /\ f[p].key = t.node[p].key /\ f[p].dead = t.node[p].dead /\ f[p].next = t.node[p].next
    BY <2>3, <2>5 DEF NodeRecords
  <2>7. u = [array |-> t.array, node |-> f, free |-> t.free]
    BY <1>1, <1>3, <2>1, <2>2, TableParts, StoreIs
  <2>8. TableType(u) /\ Size(u) = Size(t)
    <3>1. /\ t.array \in Seq(Values \cup {Nil}) /\ t.free \in 1..Size(t) + 1 /\ Size(t) \in Nat
          /\ f \in [1..Size(t) -> NodeRecords(Size(t))]
      BY <2>5, TableParts DEF Nodes
    <3> QED BY <2>7, <3>1, MakeTable
  <2>9. \A q \in Nodes(t) : f[q].key = t.node[q].key /\ f[q].dead = t.node[q].dead /\ f[q].next = t.node[q].next
    BY <2>5, <2>6
  <2>10. SameLinks(t, u)
    BY <2>7, <2>8, <2>9 DEF SameLinks
  <2>11. u.node = f /\ u.array = t.array
    BY <2>7
  <2>12. \A q \in Nodes(t) : u.node[q].dead = t.node[q].dead
    BY ONLY <2>9, <2>11
  <2>13. /\ u.node[p].val = v /\ u.array = t.array
         /\ \A q \in Nodes(t) : q # p => u.node[q] = t.node[q]
    BY ONLY <2>5, <2>6, <2>11
  <2> QED BY ONLY <1>1, <1>3, <2>1, <2>8, <2>10, <2>12, <2>13
<1> QED BY <1>2, <1>3

LEMMA StoreKeeps ==
  ASSUME NEW t, Sound(t), NEW k \in Keys, Holds(t, k), NEW v \in Values \cup {Nil}
  PROVE  /\ Sound(Store(t, k, v)) /\ OneField(t, Store(t, k, v), k, v) /\ SameLinks(t, Store(t, k, v))
         /\ \A p \in Nodes(t) : Store(t, k, v).node[p].dead = t.node[p].dead
<1>1. PICK u : u = Store(t, k, v)
  OBVIOUS
<1>2. ~ InArray(t, k) => Find(t, k) \in Live(t, k) /\ Find(t, k) \in Nodes(t) /\ Find(t, k) \in Keyed(t)
  BY HoldsLive, KeyInChain DEF Live, AnyOf
<1>3. /\ TableType(u) /\ SameLinks(t, u)
      /\ \A p \in Nodes(t) : u.node[p].dead = t.node[p].dead
      /\ InArray(t, k) => /\ u.array[k] = v /\ u.node = t.node
                          /\ \A i \in 1..Len(t.array) : i # k => u.array[i] = t.array[i]
      /\ ~ InArray(t, k) => /\ u.node[Find(t, k)].val = v /\ u.array = t.array
                            /\ \A p \in Nodes(t) : p # Find(t, k) => u.node[p] = t.node[p]
  <2>1. TableType(t) /\ (InArray(t, k) \/ Find(t, k) \in Nodes(t))
    BY <1>2 DEF Sound
  <2> QED BY <1>1, <2>1, StoreFacts
<1>4. Sound(u)
  <2>1. ASSUME NEW p \in Nodes(t)
        PROVE  /\ u.node[p].dead => u.node[p].val = Nil
               /\ u.node[p].key = Nil => u.node[p].val = Nil /\ ~ u.node[p].dead
    <3>1. CASE InArray(t, k) \/ p # Find(t, k)
      BY <1>3, <3>1 DEF Sound, KeysAndValues
    <3>2. CASE ~ InArray(t, k) /\ p = Find(t, k)
      BY <1>2, <1>3, <3>2 DEF Live, Keyed, SameLinks
    <3> QED BY <3>1, <3>2
  <2>2. ArrayOfInts(u)
    <3>1. SUFFICES ASSUME NEW i \in 1..Len(t.array), u.array[i] # Nil PROVE i \in Ints
      BY <1>3 DEF ArrayOfInts, SameLinks
    <3>2. CASE InArray(t, k) /\ i = k
      BY <3>2 DEF InArray
    <3>3. CASE ~ (InArray(t, k) /\ i = k)
      <4>1. t.array[i] # Nil
        BY <1>3, <3>1, <3>3
      <4> QED BY <4>1 DEF Sound, ArrayOfInts
    <3> QED BY <3>2, <3>3
  <2> QED BY <1>3, <2>1, <2>2, SameSound
<1>5. OneField(t, u, k, v)
  <2>1. SUFFICES ASSUME NEW j \in Keys PROVE Get(u, j) = IF j = k THEN v ELSE Get(t, j)
    BY DEF OneField
  <2>2. InArray(u, j) = InArray(t, j) /\ Nodes(u) = Nodes(t)
    BY <1>3, LinksAre
  <2>3. Live(u, j) = Live(t, j)
    BY <1>3, <2>2 DEF Live, SameLinks
  <2>4. CASE InArray(t, j)
    <3>1. j \in 1..Len(t.array) /\ Get(u, j) = u.array[j] /\ Get(t, j) = t.array[j]
      BY <2>2, <2>4, NodeFacts, KeysAre DEF InArray, Sound, Get
    <3>2. CASE InArray(t, k)
      BY <1>3, <3>1, <3>2
    <3>3. CASE ~ InArray(t, k)
      BY <1>3, <2>4, <3>1, <3>3
    <3> QED BY <3>2, <3>3
  <2>5. CASE ~ InArray(t, j) /\ Live(t, j) = {}
    <3>1. j # k
      BY <1>2, <2>5
    <3> QED BY <1>4, <2>2, <2>3, <2>5, <3>1, GetNone
  <2>6. CASE ~ InArray(t, j) /\ Live(t, j) # {}
    <3>1. PICK p : p \in Live(t, j)
      BY <2>6
    <3>2. Get(u, j) = u.node[p].val /\ Get(t, j) = t.node[p].val /\ Find(t, j) = p /\ p \in Nodes(t)
      BY <1>4, <2>3, <3>1, GetLive
    <3>3. CASE j = k
      BY <1>3, <2>6, <3>2, <3>3
    <3>4. CASE j # k
      <4>1. ~ InArray(t, k) => p # Find(t, k)
        BY <1>2, <3>1, <3>4 DEF Live
      <4> QED BY <1>3, <3>2, <3>4, <4>1
    <3> QED BY <3>3, <3>4
  <2> QED BY <2>4, <2>5, <2>6
<1> QED BY <1>1, <1>3, <1>4, <1>5

---------------------------------------------------------------------------
(* newkey: what Place does to the nodes.                                        *)

LEMMA Greatest ==
  ASSUME NEW m \in Nat, NEW T, T \subseteq 0..m, T # {}
  PROVE  Max(T) \in T /\ \A y \in T : Max(T) >= y
<1> DEFINE D == {m - x : x \in T}
<1>1. D \subseteq Nat /\ D # {}
  <2>1. ASSUME NEW x \in T PROVE m - x \in Nat
    <3>1. x \in 0..m
      OBVIOUS
    <3> QED BY <3>1
  <2> QED BY <2>1
<1>2. PICK d \in D : \A e \in D : d <= e
  <2> HIDE DEF D
  <2> QED BY <1>1, Least
<1>3. PICK x \in T : d = m - x
  OBVIOUS
<1>4. \A y \in T : x >= y
  <2>1. SUFFICES ASSUME NEW y \in T PROVE x >= y
    OBVIOUS
  <2>2. m - y \in D
    OBVIOUS
  <2>3. d <= m - y
    BY <1>2, <2>2
  <2> QED BY <1>3, <2>3
<1> QED BY <1>4 DEF Max

LEMMA FreeIs ==
  ASSUME NEW t, Sound(t)
  PROVE  \/ FreePos(t) = 0 /\ Keyed(t) = Nodes(t)
         \/ /\ FreePos(t) \in Nodes(t) /\ FreePos(t) \notin Keyed(t)
            /\ \A p \in Nodes(t) : p > FreePos(t) => p \in Keyed(t)
<1> DEFINE T == {p \in 1..t.free-1 : t.node[p].key = Nil}
<1>1. Size(t) \in Nat /\ t.free \in 1..Size(t) + 1
  BY NodeFacts, TableParts DEF Sound
<1>2. T = {p \in Nodes(t) : p < t.free /\ t.node[p].key = Nil}
  BY <1>1 DEF Nodes
<1>3. \A p \in Nodes(t) : p \notin Keyed(t) => p < t.free /\ t.node[p].key = Nil
  <2>1. SUFFICES ASSUME NEW p \in Nodes(t), p \notin Keyed(t) PROVE p < t.free /\ t.node[p].key = Nil
    OBVIOUS
  <2>2. ~ (p >= t.free) /\ t.node[p].key = Nil
    BY <2>1 DEF Sound, KeysAndValues, Keyed
  <2> QED BY <1>1, <2>2 DEF Nodes
<1>4. FreePos(t) = IF T = {} THEN 0 ELSE Max(T)
  BY DEF FreePos
<1> HIDE DEF T
<1>5. CASE T = {}
  BY <1>2, <1>3, <1>4, <1>5 DEF Keyed
<1>6. CASE T # {}
  <2>1. T \subseteq 1..Size(t)
    BY <1>2 DEF Nodes
  <2>2. Max(T) \in T /\ \A y \in T : Max(T) >= y
    <3>1. T \subseteq 0..Size(t)
      BY <1>1, <2>1
    <3> QED BY <1>1, <1>6, <3>1, Greatest
  <2>3. Max(T) \in Nodes(t) /\ Max(T) \notin Keyed(t)
    BY <1>2, <2>2 DEF Keyed
  <2>4. ASSUME NEW p \in Nodes(t), p > Max(T) PROVE p \in Keyed(t)
    <3>1. p \notin T
      BY <1>1, <2>2, <2>3, <2>4 DEF Nodes
    <3> QED BY <1>2, <1>3, <3>1
  <2> QED BY <1>4, <1>6, <2>3, <2>4
<1> QED BY <1>5, <1>6

(* A node without value is overwritten where it is.                             *)
Overwritten(t, u, mp, k) ==
  /\ TableType(u) /\ Size(u) = Size(t) /\ u.array = t.array /\ u.free = t.free
  /\ \A p \in Nodes(t) : p # mp => u.node[p] = t.node[p]
  /\ u.node[mp].key = k /\ ~ u.node[mp].dead /\ u.node[mp].val = Nil /\ u.node[mp].next = t.node[mp].next

(* The node at mp moves to n, so that prev leads there, and k takes mp.         *)
MovedAside(t, u, mp, k, n, prev) ==
  /\ TableType(u) /\ Size(u) = Size(t) /\ u.array = t.array /\ u.free = n
  /\ \A p \in Nodes(t) : p \notin {mp, n, prev} => u.node[p] = t.node[p]
  /\ u.node[mp].key = k /\ ~ u.node[mp].dead /\ u.node[mp].val = Nil /\ u.node[mp].next = 0
  /\ u.node[n] = t.node[mp]
  /\ u.node[prev].key = t.node[prev].key /\ u.node[prev].dead = t.node[prev].dead
  /\ u.node[prev].val = t.node[prev].val /\ u.node[prev].next = n

(* k goes to n, the second node of the chain of mp.                             *)
Followed(t, u, mp, k, n) ==
  /\ TableType(u) /\ Size(u) = Size(t) /\ u.array = t.array /\ u.free = n
  /\ \A p \in Nodes(t) : p \notin {mp, n} => u.node[p] = t.node[p]
  /\ u.node[n].key = k /\ ~ u.node[n].dead /\ u.node[n].val = Nil /\ u.node[n].next = t.node[mp].next
  /\ u.node[mp].key = t.node[mp].key /\ u.node[mp].dead = t.node[mp].dead
  /\ u.node[mp].val = t.node[mp].val /\ u.node[mp].next = n

New(k) == [EmptyNode EXCEPT !.key = k]

LEMMA NewIs ==
  ASSUME NEW k \in Keys, NEW n \in Nat, NEW j \in 0..n
  PROVE  /\ New(k) \in NodeRecords(n) /\ New(k).key = k /\ ~ New(k).dead /\ New(k).val = Nil /\ New(k).next = 0
         /\ [New(k) EXCEPT !.next = j] \in NodeRecords(n)
         /\ [New(k) EXCEPT !.next = j].key = k /\ ~ [New(k) EXCEPT !.next = j].dead
         /\ [New(k) EXCEPT !.next = j].val = Nil /\ [New(k) EXCEPT !.next = j].next = j
<1>1. PICK e : e = EmptyNode
  OBVIOUS
<1>2. e \in NodeRecords(n) /\ e.next = 0 /\ e.val = Nil /\ ~ e.dead
  BY <1>1 DEF EmptyNode, NodeRecords
<1>3. PICK r : r = New(k)
  OBVIOUS
<1>4. r \in NodeRecords(n) /\ r.key = k /\ r.next = 0 /\ r.val = Nil /\ ~ r.dead
  <2>1. r = [e EXCEPT !.key = k]
    BY <1>1, <1>3 DEF New
  <2> QED BY <1>2, <2>1 DEF NodeRecords
<1>5. PICK s : s = [r EXCEPT !.next = j]
  OBVIOUS
<1>6. s \in NodeRecords(n) /\ s.key = k /\ s.next = j /\ s.val = Nil /\ ~ s.dead
  BY <1>4, <1>5 DEF NodeRecords
<1> QED BY <1>3, <1>4, <1>5, <1>6

LEMMA NextChanged ==
  ASSUME NEW n \in Nat, NEW r \in NodeRecords(n), NEW j \in 0..n, NEW s, s = [r EXCEPT !.next = j]
  PROVE  /\ s \in NodeRecords(n) /\ s.key = r.key /\ s.dead = r.dead /\ s.val = r.val /\ s.next = j
BY DEF NodeRecords

(* A table with other nodes.                                                    *)
LEMMA WithNodes ==
  ASSUME NEW t, TableType(t), NEW f \in [Nodes(t) -> NodeRecords(Size(t))], NEW x \in 1..Size(t) + 1,
         NEW u, u = [array |-> t.array, node |-> f, free |-> x]
  PROVE  TableType(u) /\ Size(u) = Size(t) /\ u.array = t.array /\ u.node = f /\ u.free = x
<1>1. t.array \in Seq(Values \cup {Nil}) /\ f \in [1..Size(t) -> NodeRecords(Size(t))] /\ Size(t) \in Nat
  BY TableParts DEF Nodes
<1>2. TableType([array |-> t.array, node |-> f, free |-> x]) /\ Size([array |-> t.array, node |-> f, free |-> x]) = Size(t)
  BY <1>1, MakeTable
<1> QED BY <1>2

LEMMA ThreeChanged ==
  ASSUME NEW S, NEW R, NEW g \in [S -> R], NEW a \in S, NEW b \in S, NEW c \in S, a # b, b # c, a # c,
         NEW x \in R, NEW y \in R, NEW z \in R, NEW f, f = [g EXCEPT ![a] = x, ![b] = y, ![c] = z]
  PROVE  /\ f \in [S -> R] /\ f[a] = x /\ f[b] = y /\ f[c] = z
         /\ \A d \in S : d \notin {a, b, c} => f[d] = g[d]
OBVIOUS

LEMMA TwoChanged ==
  ASSUME NEW S, NEW R, NEW g \in [S -> R], NEW a \in S, NEW b \in S, a # b,
         NEW x \in R, NEW y \in R, NEW f, f = [g EXCEPT ![a] = x, ![b] = y]
  PROVE  /\ f \in [S -> R] /\ f[a] = x /\ f[b] = y /\ \A d \in S : d \notin {a, b} => f[d] = g[d]
OBVIOUS

PrevOf(t, mp) == CHOOSE p \in 1..Size(t) : t.node[p].next = mp

LEMMA PlaceOverwrites ==
  ASSUME NEW t, TableType(t), NEW k \in Keys, NEW mp \in Nodes(t), mp = MainPosition(t, k), t.node[mp].val = Nil
  PROVE  Overwritten(t, Place(t, k), mp, k)
<1>1. PICK f : f = [t.node EXCEPT ![mp].key = k, ![mp].dead = FALSE]
  OBVIOUS
<1>2. Place(t, k) = [array |-> t.array, node |-> f, free |-> t.free]
  <2>1. Place(t, k) = [t EXCEPT !.node = f]
    BY <1>1 DEF Place
  <2>2. [t EXCEPT !.node = f] = [array |-> t.array, node |-> f, free |-> t.free]
    BY TableParts
  <2> QED BY <2>1, <2>2
<1>3. t.node \in [Nodes(t) -> NodeRecords(Size(t))] /\ t.node[mp] \in NodeRecords(Size(t))
  BY TableParts
<1>4. PICK r : r = [t.node[mp] EXCEPT !.key = k]
  OBVIOUS
<1>5. r \in NodeRecords(Size(t)) /\ r.key = k /\ r.val = Nil /\ r.next = t.node[mp].next
  BY <1>3, <1>4 DEF NodeRecords
<1>6. PICK s : s = [r EXCEPT !.dead = FALSE]
  OBVIOUS
<1>7. s \in NodeRecords(Size(t)) /\ s.key = k /\ s.val = Nil /\ s.next = t.node[mp].next /\ ~ s.dead
  BY <1>5, <1>6 DEF NodeRecords
<1>8. f[mp] = s /\ \A p \in Nodes(t) : p # mp => f[p] = t.node[p]
  BY <1>1, <1>3, <1>4, <1>6
<1>9. f \in [Nodes(t) -> NodeRecords(Size(t))]
  <2>1. DOMAIN f = Nodes(t) /\ f = [p \in Nodes(t) |-> f[p]]
    BY <1>1, <1>3
  <2>2. \A p \in Nodes(t) : f[p] \in NodeRecords(Size(t))
    BY <1>3, <1>7, <1>8
  <2> QED BY <2>1, <2>2
<1>10. PICK u : u = Place(t, k)
  OBVIOUS
<1>11. t.free \in 1..Size(t) + 1 /\ u = [array |-> t.array, node |-> f, free |-> t.free]
  BY <1>2, <1>10, TableParts
<1>12. TableType(u) /\ Size(u) = Size(t) /\ u.node = f /\ u.array = t.array /\ u.free = t.free
  BY <1>9, <1>11, WithNodes
<1>13. Overwritten(t, u, mp, k)
  BY <1>7, <1>8, <1>12 DEF Overwritten
<1> QED BY <1>10, <1>13

LEMMA PlaceMoves ==
  ASSUME NEW t, TableType(t), NEW k \in Keys, NEW mp \in Nodes(t), mp = MainPosition(t, k), t.node[mp].val # Nil,
         NEW n \in Nodes(t), n = FreePos(t), Home(t, mp) # mp,
         NEW prev \in Nodes(t), prev = PrevOf(t, mp), mp # n, prev # n, prev # mp
  PROVE  MovedAside(t, Place(t, k), mp, k, n, prev)
<1>1. PICK r : r = [t.node[prev] EXCEPT !.next = n]
  OBVIOUS
<1>2. PICK f : f = [t.node EXCEPT ![prev] = r, ![n] = t.node[mp], ![mp] = New(k)]
  OBVIOUS
<1>3. Place(t, k) = [array |-> t.array, node |-> f, free |-> n]
  BY <1>1, <1>2 DEF Place, Home, New, PrevOf
<1>4. t.node \in [Nodes(t) -> NodeRecords(Size(t))] /\ t.node[mp] \in NodeRecords(Size(t))
      /\ t.node[prev] \in NodeRecords(Size(t)) /\ Size(t) \in Nat /\ n \in 0..Size(t) /\ n \in 1..Size(t) + 1
  BY TableParts DEF Nodes
<1>5. r \in NodeRecords(Size(t)) /\ r.key = t.node[prev].key /\ r.dead = t.node[prev].dead
      /\ r.val = t.node[prev].val /\ r.next = n
  BY ONLY <1>1, <1>4, NextChanged
<1>6. New(k) \in NodeRecords(Size(t)) /\ New(k).key = k /\ ~ New(k).dead /\ New(k).val = Nil /\ New(k).next = 0
  BY ONLY k \in Keys, <1>4, 0 \in 0..Size(t), NewIs
<1>7. /\ f \in [Nodes(t) -> NodeRecords(Size(t))] /\ f[prev] = r /\ f[n] = t.node[mp] /\ f[mp] = New(k)
      /\ \A p \in Nodes(t) : p \notin {prev, n, mp} => f[p] = t.node[p]
  BY ONLY <1>2, <1>4, <1>5, <1>6, ThreeChanged, prev # n, n # mp, prev # mp,
          prev \in Nodes(t), mp \in Nodes(t), n \in Nodes(t)
<1>8. PICK u : u = Place(t, k)
  OBVIOUS
<1>9. TableType(u) /\ Size(u) = Size(t) /\ u.node = f /\ u.array = t.array /\ u.free = n
  <2>1. u = [array |-> t.array, node |-> f, free |-> n]
    BY <1>3, <1>8
  <2> QED BY ONLY TableType(t), <1>4, <1>7, <2>1, WithNodes
<1>10. MovedAside(t, u, mp, k, n, prev)
  BY <1>5, <1>6, <1>7, <1>9 DEF MovedAside
<1> QED BY <1>8, <1>10

LEMMA PlaceFollows ==
  ASSUME NEW t, TableType(t), NEW k \in Keys, NEW mp \in Nodes(t), mp = MainPosition(t, k), t.node[mp].val # Nil,
         NEW n \in Nodes(t), n = FreePos(t), Home(t, mp) = mp, mp # n
  PROVE  Followed(t, Place(t, k), mp, k, n)
<1>1. PICK r : r = [t.node[mp] EXCEPT !.next = n]
  OBVIOUS
<1>2. PICK s : s = [New(k) EXCEPT !.next = t.node[mp].next]
  OBVIOUS
<1>3. PICK f : f = [t.node EXCEPT ![n] = s, ![mp].next = n]
  OBVIOUS
<1>4. Place(t, k) = [array |-> t.array, node |-> f, free |-> n]
  BY <1>2, <1>3 DEF Place, Home, New
<1>5. t.node \in [Nodes(t) -> NodeRecords(Size(t))] /\ t.node[mp] \in NodeRecords(Size(t))
      /\ Size(t) \in Nat /\ n \in 0..Size(t) /\ n \in 1..Size(t) + 1 /\ t.node[mp].next \in 0..Size(t)
  BY TableParts, NodeFacts DEF Nodes
<1>6. r \in NodeRecords(Size(t)) /\ r.key = t.node[mp].key /\ r.dead = t.node[mp].dead
      /\ r.val = t.node[mp].val /\ r.next = n
  BY ONLY <1>1, <1>5, NextChanged
<1>7. s \in NodeRecords(Size(t)) /\ s.key = k /\ ~ s.dead /\ s.val = Nil /\ s.next = t.node[mp].next
  BY ONLY k \in Keys, <1>2, <1>5, NewIs
<1>8. f = [t.node EXCEPT ![n] = s, ![mp] = r]
  BY <1>1, <1>3, <1>5
<1>9. /\ f \in [Nodes(t) -> NodeRecords(Size(t))] /\ f[n] = s /\ f[mp] = r
      /\ \A p \in Nodes(t) : p \notin {n, mp} => f[p] = t.node[p]
  BY ONLY <1>5, <1>6, <1>7, <1>8, TwoChanged, n # mp, mp \in Nodes(t), n \in Nodes(t)
<1>10. PICK u : u = Place(t, k)
  OBVIOUS
<1>11. TableType(u) /\ Size(u) = Size(t) /\ u.node = f /\ u.array = t.array /\ u.free = n
  <2>1. u = [array |-> t.array, node |-> f, free |-> n]
    BY <1>4, <1>10
  <2> QED BY ONLY TableType(t), <1>5, <1>9, <2>1, WithNodes
<1>12. Followed(t, u, mp, k, n)
  BY <1>6, <1>7, <1>9, <1>11 DEF Followed
<1> QED BY <1>10, <1>12

---------------------------------------------------------------------------
(* newkey keeps a table sound, and no field changes.                            *)

KeysIn(t) == {t.node[p].key : p \in Keyed(t)}
NoneDead(t) == \A p \in Nodes(t) : ~ t.node[p].dead

Placed(t, u, k) ==
  /\ Sound(u) /\ Size(u) = Size(t) /\ u.array = t.array
  /\ Live(u, k) # {}
  /\ \A j \in Keys : Get(u, j) = Get(t, j)
  /\ KeysIn(u) \subseteq KeysIn(t) \cup {k}
  /\ NoneDead(t) => NoneDead(u)

CanPlace(t, k, mp) ==
  /\ Sound(t) /\ k \in Keys /\ ~ InArray(t, k) /\ Live(t, k) = {}
  /\ mp \in Nodes(t) /\ mp = MainPosition(t, k)

LEMMA SameSize ==
  ASSUME NEW t, NEW u, Size(u) = Size(t), u.array = t.array
  PROVE  /\ Nodes(u) = Nodes(t)
         /\ \A k : MainPosition(u, k) = MainPosition(t, k) /\ InArray(u, k) = InArray(t, k)
BY DEF Nodes, MainPosition, InArray

LEMMA OverwriteSound ==
  ASSUME NEW t, NEW k, NEW mp, CanPlace(t, k, mp), t.node[mp].val = Nil, NEW u, Overwritten(t, u, mp, k)
  PROVE  Sound(u)
<1>1. /\ Nodes(u) = Nodes(t) /\ Size(u) = Size(t) /\ u.free = t.free
      /\ \A j : MainPosition(u, j) = MainPosition(t, j) /\ InArray(u, j) = InArray(t, j)
  BY SameSize DEF Overwritten
<1>2. /\ \A p \in Nodes(t) : p # mp => u.node[p] = t.node[p]
      /\ u.node[mp].key = k /\ ~ u.node[mp].dead /\ u.node[mp].val = Nil /\ u.node[mp].next = t.node[mp].next
      /\ mp \in Nodes(t) /\ mp = MainPosition(t, k) /\ k # Nil /\ k \in Keys
  BY KeysAre DEF Overwritten, CanPlace
<1>3. Nexts(u) = Nexts(t) /\ \A p : ChainAt(u, p) = ChainAt(t, p)
  BY <1>1, <1>2 DEF Nexts, ChainAt
<1>4. Keyed(u) = Keyed(t) \cup {mp}
  BY <1>1, <1>2 DEF Keyed
<1>5. KeysAndValues(u)
  <2>1. KeysAndValues(t)
    BY DEF CanPlace, Sound
  <2> QED BY <1>1, <1>2, <1>4, <2>1 DEF KeysAndValues
<1>6. OneBefore(u) /\ NoCycle(u)
  <2>1. OneBefore(t) /\ NoCycle(t)
    BY DEF CanPlace, Sound
  <2>2. \A p \in Nodes(t) : u.node[p].next = t.node[p].next
    BY <1>2
  <2> QED BY <1>1, <1>3, <2>1, <2>2 DEF OneBefore, NoCycle
<1>7. Home(u, mp) = mp /\ \A p \in Nodes(t) : p # mp => Home(u, p) = Home(t, p)
  BY <1>1, <1>2 DEF Home
<1>8. AtHome(u)
  <2>1. SUFFICES ASSUME NEW p \in Keyed(u)
                 PROVE  /\ ~ InArray(u, u.node[p].key) /\ p \in ChainAt(u, Home(u, p))
                        /\ Home(u, p) \in Keyed(u) /\ Home(u, Home(u, p)) = Home(u, p)
    BY DEF AtHome
  <2>2. CASE p = mp
    <3>1. mp \in ChainAt(t, mp)
      BY <1>2, NextsLink, ChainClosed DEF ChainAt, CanPlace, Sound, Nodes
    <3>2. ~ InArray(t, k)
      BY DEF CanPlace
    <3> QED BY <1>1, <1>2, <1>3, <1>4, <1>7, <2>2, <3>1, <3>2
  <2>3. CASE p # mp
    <3>1. p \in Keyed(t) /\ p \in Nodes(t)
      BY <1>4, <2>3 DEF Keyed
    <3>2. /\ ~ InArray(t, t.node[p].key) /\ p \in ChainAt(t, Home(t, p))
          /\ Home(t, p) \in Keyed(t) /\ Home(t, Home(t, p)) = Home(t, p)
      BY <3>1 DEF CanPlace, Sound, AtHome
    <3>3. Home(t, p) \in Nodes(t)
      BY <3>2 DEF Keyed
    <3> QED BY <1>1, <1>2, <1>3, <1>4, <1>7, <2>3, <3>1, <3>2, <3>3
  <2> QED BY <2>2, <2>3
<1>9. OneLive(u)
  <2>1. SUFFICES ASSUME NEW p \in Keyed(u), NEW q \in Keyed(u), u.node[p].key = u.node[q].key, ~ u.node[p].dead
                 PROVE  IF u.node[q].dead THEN q \in ChainAt(t, p) ELSE p = q
    BY <1>3 DEF OneLive
  <2>2. CASE p = mp /\ q # mp
    <3>1. q \in Nodes(t) /\ t.node[q].key = k /\ q \in AnyOf(t, k)
      BY <1>1, <1>2, <2>1, <2>2 DEF Keyed, AnyOf
    <3>2. t.node[q].dead
      BY <3>1 DEF CanPlace, Live
    <3>3. q \in ChainAt(t, mp)
      BY <1>2, <3>1, KeyInChain DEF CanPlace
    <3> QED BY <1>2, <2>2, <3>1, <3>2, <3>3
  <2>3. CASE p # mp
    <3>1. p \in Nodes(t) /\ u.node[p] = t.node[p] /\ p \in Keyed(t)
      BY <1>1, <1>2, <1>4, <2>3 DEF Keyed
    <3>2. t.node[p].key # k
      BY <2>1, <3>1 DEF CanPlace, Live
    <3>3. q # mp /\ q \in Keyed(t) /\ u.node[q] = t.node[q]
      BY <1>2, <1>4, <2>1, <3>1, <3>2 DEF Keyed
    <3> QED BY <2>1, <3>1, <3>3 DEF CanPlace, Sound, OneLive
  <2>4. CASE p = mp /\ q = mp
    BY <1>2, <2>4
  <2> QED BY <2>2, <2>3, <2>4
<1>10. ArrayOfInts(u)
  BY DEF CanPlace, Sound, Overwritten, ArrayOfInts
<1> QED BY <1>5, <1>6, <1>8, <1>9, <1>10 DEF Sound, Overwritten

(* u holds the values of t, and k without a value.                              *)
SameValues(t, u, k) ==
  /\ Sound(t) /\ Sound(u) /\ u.array = t.array /\ k \in Keys
  /\ Live(t, k) = {} /\ \A p \in Live(u, k) : u.node[p].val = Nil
  /\ \A j \in Keys \ {k} : \A p \in Live(t, j) :
       \/ t.node[p].val = Nil /\ Live(u, j) = {}
       \/ \E q \in Live(u, j) : u.node[q].val = t.node[p].val
  /\ \A j \in Keys \ {k} : Live(t, j) = {} => Live(u, j) = {}

LEMMA SameFields ==
  ASSUME NEW t, NEW u, NEW k, SameValues(t, u, k)
  PROVE  \A j \in Keys : Get(u, j) = Get(t, j)
<1> USE DEF SameValues
<1>1. SUFFICES ASSUME NEW j \in Keys PROVE Get(u, j) = Get(t, j)
  OBVIOUS
<1>2. InArray(u, j) = InArray(t, j)
  BY DEF InArray
<1>3. CASE InArray(t, j)
  BY <1>2, <1>3 DEF Get
<1>4. CASE ~ InArray(t, j) /\ j = k
  <2>1. Get(t, k) = Nil
    BY <1>4, GetNone
  <2>2. CASE Live(u, k) = {}
    BY <1>2, <1>4, <2>1, <2>2, GetNone
  <2>3. CASE Live(u, k) # {}
    BY <1>4, <2>1, <2>3, GetLive
  <2> QED BY <2>2, <2>3
<1>5. CASE ~ InArray(t, j) /\ j # k /\ Live(t, j) = {}
  <2>1. Live(u, j) = {}
    BY <1>5
  <2> QED BY <1>2, <1>5, <2>1, GetNone
<1>6. CASE ~ InArray(t, j) /\ j # k /\ Live(t, j) # {}
  <2>1. PICK p : p \in Live(t, j)
    BY <1>6
  <2>2. Get(t, j) = t.node[p].val
    BY <2>1, GetLive
  <2>3. CASE t.node[p].val = Nil /\ Live(u, j) = {}
    BY <1>2, <1>6, <2>2, <2>3, GetNone
  <2>4. CASE \E q \in Live(u, j) : u.node[q].val = t.node[p].val
    BY <2>2, <2>4, GetLive
  <2> QED BY <1>6, <2>1, <2>3, <2>4
<1> QED BY <1>3, <1>4, <1>5, <1>6

LEMMA OverwritePlaces ==
  ASSUME NEW t, NEW k, NEW mp, CanPlace(t, k, mp), t.node[mp].val = Nil, NEW u, Overwritten(t, u, mp, k)
  PROVE  Placed(t, u, k)
<1>1. Sound(u) /\ Sound(t) /\ k \in Keys /\ Live(t, k) = {}
  BY OverwriteSound DEF CanPlace
<1>2. /\ Nodes(u) = Nodes(t) /\ Size(u) = Size(t) /\ u.array = t.array
      /\ \A p \in Nodes(t) : p # mp => u.node[p] = t.node[p]
      /\ u.node[mp].key = k /\ ~ u.node[mp].dead /\ u.node[mp].val = Nil
      /\ mp \in Nodes(t) /\ mp = MainPosition(t, k) /\ k # Nil
  BY KeysAre DEF Overwritten, CanPlace, Nodes
<1>3. mp \in Live(u, k)
  BY <1>2 DEF Live
<1>4. \A p \in Live(u, k) : u.node[p].val = Nil
  BY <1>1, <1>2, <1>3 DEF Live
<1>5. \A j \in Keys \ {k} : Live(u, j) = Live(t, j) \ {mp}
  BY <1>2 DEF Live
<1>6. \A j \in Keys \ {k} : \A p \in Live(t, j) :
           \/ t.node[p].val = Nil /\ Live(u, j) = {}
           \/ \E q \in Live(u, j) : u.node[q].val = t.node[p].val
  <2>1. SUFFICES ASSUME NEW j \in Keys \ {k}, NEW p \in Live(t, j)
                 PROVE  \/ t.node[p].val = Nil /\ Live(u, j) = {}
                        \/ \E q \in Live(u, j) : u.node[q].val = t.node[p].val
    OBVIOUS
  <2>2. CASE p = mp
    <3>1. Live(t, j) = {mp}
      BY <1>1, <2>2, GetLive
    <3> QED BY <1>5, <2>2, <3>1
  <2>3. CASE p # mp
    <3>1. p \in Live(u, j) /\ u.node[p] = t.node[p]
      BY <1>2, <1>5, <2>3 DEF Live
    <3> QED BY <3>1
  <2> QED BY <2>2, <2>3
<1>7. \A j \in Keys : Get(u, j) = Get(t, j)
  <2>1. \A j \in Keys \ {k} : Live(t, j) = {} => Live(u, j) = {}
    BY <1>5
  <2>2. SameValues(t, u, k)
    BY <1>1, <1>2, <1>4, <1>6, <2>1 DEF SameValues
  <2> QED BY <2>2, SameFields
<1>8. KeysIn(u) \subseteq KeysIn(t) \cup {k}
  <2>1. SUFFICES ASSUME NEW p \in Keyed(u) PROVE u.node[p].key \in KeysIn(t) \cup {k}
    BY DEF KeysIn
  <2> QED BY <1>2 DEF KeysIn, Keyed
<1>9. NoneDead(t) => NoneDead(u)
  BY <1>2 DEF NoneDead
<1> QED BY <1>1, <1>2, <1>3, <1>7, <1>8, <1>9 DEF Placed

(* A map of nodes that takes each link into the chain of its image.             *)
LEMMA ChainsMapped ==
  ASSUME NEW nx, NEW ny, NEW n, Links(nx, n), Links(ny, n), NEW f \in [1..n -> 1..n],
         \A q \in 1..n : nx[q] # 0 => f[nx[q]] \in Chain(ny, n, f[q])
  PROVE  \A p \in 1..n : \A q \in Chain(nx, n, p) : f[q] \in Chain(ny, n, f[p])
<1>1. SUFFICES ASSUME NEW p \in 1..n PROVE \A q \in Chain(nx, n, p) : f[q] \in Chain(ny, n, f[p])
  OBVIOUS
<1> DEFINE S == {q \in 1..n : f[q] \in Chain(ny, n, f[p])}
<1>2. p \in S
  BY ChainClosed
<1>3. Closed(nx, S)
  <2>1. SUFFICES ASSUME NEW q \in S, nx[q] # 0 PROVE nx[q] \in S
    BY DEF Closed
  <2>2. nx[q] \in 1..n /\ f[q] \in 1..n /\ f[p] \in 1..n
    BY <2>1 DEF Links
  <2>3. Chain(ny, n, f[q]) \subseteq Chain(ny, n, f[p])
    BY <2>2, ChainOf
  <2> QED BY <2>1, <2>2, <2>3
<1>4. S \subseteq 1..n
  OBVIOUS
<1> HIDE DEF S
<1>5. Chain(nx, n, p) \subseteq S
  BY <1>2, <1>3, <1>4, ChainLeast
<1> QED BY <1>5 DEF S

(* The node at mp does not belong there.                                        *)
Displaces(t, k, mp, n, prev) ==
  /\ CanPlace(t, k, mp) /\ t.node[mp].val # Nil /\ Home(t, mp) # mp
  /\ n \in Nodes(t) /\ n \notin Keyed(t) /\ \A p \in Nodes(t) : p > n => p \in Keyed(t)
  /\ prev \in Nodes(t) /\ t.node[prev].next = mp

LEMMA PrevExists ==
  ASSUME NEW t, NEW k, NEW mp, CanPlace(t, k, mp), t.node[mp].val # Nil, Home(t, mp) # mp
  PROVE  PrevOf(t, mp) \in Nodes(t) /\ t.node[PrevOf(t, mp)].next = mp
<1>1. mp \in Nodes(t) /\ mp \in Keyed(t)
  BY DEF CanPlace, Sound, KeysAndValues, Keyed
<1>2. mp \in ChainAt(t, Home(t, mp)) /\ Home(t, mp) \in Nodes(t)
  BY <1>1 DEF CanPlace, Sound, AtHome, Keyed
<1>3. PICK q \in Nodes(t) : Nexts(t)[q] = mp
  <2>1. Links(Nexts(t), Size(t))
    BY NextsLink DEF CanPlace, Sound
  <2>2. PICK q \in ChainAt(t, Home(t, mp)) : Nexts(t)[q] = mp
    BY <1>2, <2>1, ChainPrevious DEF ChainAt, Nodes
  <2>3. q \in Nodes(t)
    BY <2>2 DEF ChainAt, Chain, Nodes
  <2> QED BY <2>2, <2>3
<1>4. t.node[q].next = mp
  BY <1>3 DEF Nexts
<1> QED BY <1>3, <1>4 DEF PrevOf, Nodes

(* What both the moved and the other nodes are in.                              *)
LEMMA DisplacedNodes ==
  ASSUME NEW t, NEW k, NEW mp, NEW n, NEW prev, Displaces(t, k, mp, n, prev)
  PROVE  /\ mp # n /\ prev # n /\ prev # mp /\ mp \in Keyed(t) /\ prev \in Keyed(t)
         /\ t.node[n].next = 0 /\ t.node[n].key = Nil /\ ~ t.node[mp].dead
         /\ \A p \in Nodes(t) : p # prev => t.node[p].next # mp
         /\ \A p \in Nodes(t) : t.node[p].next # n /\ t.node[p].next # p
<1>1. TableType(t) /\ KeysAndValues(t) /\ OneBefore(t) /\ NoCycle(t)
  BY DEF Displaces, CanPlace, Sound
<1>2. mp \in Nodes(t) /\ mp \in Keyed(t) /\ mp # 0 /\ ~ t.node[mp].dead
  BY <1>1, NodeFacts DEF Displaces, CanPlace, KeysAndValues, Keyed, Nodes
<1>3. t.node[prev].next = mp /\ prev \in Nodes(t) /\ prev \in Keyed(t)
  BY <1>1, <1>2 DEF Displaces, KeysAndValues, Keyed
<1>4. n \in Nodes(t) /\ t.node[n].key = Nil /\ t.node[n].next = 0 /\ n # 0
  BY <1>1, NodeFacts DEF Displaces, KeysAndValues, Keyed, Nodes
<1>5. \A p \in Nodes(t) : p # prev => t.node[p].next # mp
  BY <1>1, <1>2, <1>3 DEF OneBefore
<1>6. \A p \in Nodes(t) : t.node[p].next # n /\ t.node[p].next # p
  <2>1. SUFFICES ASSUME NEW p \in Nodes(t) PROVE t.node[p].next # n /\ t.node[p].next # p
    OBVIOUS
  <2>2. t.node[p].next # n
    BY <1>1, <1>4 DEF KeysAndValues, Keyed
  <2>3. ASSUME t.node[p].next = p PROVE FALSE
    <3>1. PICK rank : Falls(Nexts(t), Size(t), rank)
      BY <1>1 DEF NoCycle
    <3>2. Nexts(t)[p] = p /\ p \in 1..Size(t) /\ p # 0
      BY <2>3, <1>1, NodeFacts DEF Nexts, Nodes
    <3>3. rank[p] < rank[p] /\ rank[p] \in Nat
      BY <3>1, <3>2 DEF Falls
    <3> QED BY <3>3
  <2> QED BY <2>2, <2>3
<1> QED BY <1>2, <1>3, <1>4, <1>5, <1>6 DEF Displaces

Aside(t, mp, n) == [p \in Nodes(t) |-> IF p = mp THEN n ELSE p]

(* Where the nodes of t with a key are in u.                                    *)
MovedLinks(t, u, mp, n, prev) ==
  /\ Nodes(u) = Nodes(t) /\ Size(u) = Size(t)
  /\ \A p : MainPosition(u, p) = MainPosition(t, p) /\ InArray(u, p) = InArray(t, p)
  /\ Links(Nexts(t), Size(t)) /\ Links(Nexts(u), Size(t))
  /\ Nexts(u)[mp] = 0 /\ Nexts(u)[n] = t.node[mp].next /\ Nexts(u)[prev] = n
  /\ \A p \in Nodes(t) : p \notin {mp, n, prev} => Nexts(u)[p] = t.node[p].next
  /\ \A p \in Nodes(t) : p \notin {mp, n} => /\ u.node[p].key = t.node[p].key /\ u.node[p].val = t.node[p].val
                                             /\ u.node[p].dead = t.node[p].dead
  /\ u.node[n].key = t.node[mp].key /\ u.node[n].val = t.node[mp].val /\ u.node[n].dead = t.node[mp].dead
  /\ \A p \in Nodes(t) : u.node[p].next = Nexts(u)[p] /\ t.node[p].next = Nexts(t)[p]
  /\ Keyed(u) = Keyed(t) \cup {n} /\ mp \in Nodes(t) /\ n \in Nodes(t) /\ prev \in Nodes(t)

LEMMA LinksMoved ==
  ASSUME NEW t, NEW k, NEW mp, NEW n, NEW prev, Displaces(t, k, mp, n, prev),
         NEW u, MovedAside(t, u, mp, k, n, prev)
  PROVE  MovedLinks(t, u, mp, n, prev)
<1>1. /\ Nodes(u) = Nodes(t) /\ Size(u) = Size(t) /\ TableType(t) /\ TableType(u)
      /\ \A p : MainPosition(u, p) = MainPosition(t, p) /\ InArray(u, p) = InArray(t, p)
  BY SameSize DEF MovedAside, Displaces, CanPlace, Sound
<1>2. Links(Nexts(t), Size(t)) /\ Links(Nexts(u), Size(t))
  BY <1>1, NextsLink
<1>3. mp \in Nodes(t) /\ n \in Nodes(t) /\ prev \in Nodes(t) /\ mp \in Keyed(t) /\ mp # n /\ prev # n /\ prev # mp
  BY DisplacedNodes DEF Displaces, CanPlace
<1>4. \A p \in Nodes(t) : u.node[p].next = Nexts(u)[p] /\ t.node[p].next = Nexts(t)[p]
  BY <1>1 DEF Nexts
<1>5. \A p \in Nodes(t) : p \notin {mp, n} => /\ u.node[p].key = t.node[p].key /\ u.node[p].val = t.node[p].val
                                              /\ u.node[p].dead = t.node[p].dead
  BY DEF MovedAside
<1>6. Keyed(u) = Keyed(t) \cup {n}
  <2>1. u.node[mp].key # Nil /\ u.node[n].key # Nil
    BY <1>3, KeysAre DEF MovedAside, Keyed, Displaces, CanPlace
  <2> QED BY <1>1, <1>3, <1>5, <2>1 DEF Keyed
<1> QED BY <1>1, <1>2, <1>3, <1>4, <1>5, <1>6 DEF MovedLinks, MovedAside

LEMMA ChainsAside ==
  ASSUME NEW t, NEW k, NEW mp, NEW n, NEW prev, Displaces(t, k, mp, n, prev),
         NEW u, MovedLinks(t, u, mp, n, prev)
  PROVE  /\ \A p \in Nodes(t) : \A q \in ChainAt(t, p) : Aside(t, mp, n)[q] \in ChainAt(u, Aside(t, mp, n)[p])
         /\ NoCycle(u) /\ OneBefore(u)
<1>1. /\ mp # n /\ prev # n /\ prev # mp /\ mp \in Nodes(t) /\ n \in Nodes(t) /\ prev \in Nodes(t)
      /\ t.node[n].next = 0 /\ t.node[prev].next = mp
      /\ \A p \in Nodes(t) : p # prev => t.node[p].next # mp
      /\ \A p \in Nodes(t) : t.node[p].next # n /\ t.node[p].next # p
  BY DisplacedNodes DEF Displaces, CanPlace
<1>2. /\ Links(Nexts(t), Size(t)) /\ Links(Nexts(u), Size(t)) /\ Nodes(u) = Nodes(t) /\ Size(u) = Size(t)
      /\ Nexts(u)[mp] = 0 /\ Nexts(u)[n] = t.node[mp].next /\ Nexts(u)[prev] = n
      /\ \A p \in Nodes(t) : p \notin {mp, n, prev} => Nexts(u)[p] = t.node[p].next
      /\ \A p \in Nodes(t) : u.node[p].next = Nexts(u)[p] /\ t.node[p].next = Nexts(t)[p]
  BY DEF MovedLinks
<1>3. \A p \in Nodes(t) : Nexts(t)[p] # 0 => Nexts(t)[p] \in Nodes(t)
  BY <1>2 DEF Links, Nodes
<1>4. \A p \in Nodes(t) : \A q \in ChainAt(t, p) : Aside(t, mp, n)[q] \in ChainAt(u, Aside(t, mp, n)[p])
  <2> DEFINE f == Aside(t, mp, n)
  <2>1. f \in [1..Size(t) -> 1..Size(t)]
    BY <1>1 DEF Aside, Nodes
  <2>2. ASSUME NEW q \in 1..Size(t), Nexts(t)[q] # 0 PROVE f[Nexts(t)[q]] \in Chain(Nexts(u), Size(t), f[q])
    <3>1. q \in Nodes(t) /\ Nexts(t)[q] \in Nodes(t) /\ f[q] \in 1..Size(t) /\ f[Nexts(t)[q]] \in 1..Size(t) /\ 0 \notin Nodes(t)
      BY <1>3, <2>1, <2>2 DEF Nodes
    <3>2. Nexts(u)[f[q]] = f[Nexts(t)[q]]
      BY <1>1, <1>2, <2>2, <3>1 DEF Aside
    <3>3. Nexts(u)[f[q]] # 0
      BY <3>1, <3>2 DEF Nodes
    <3> HIDE DEF f
    <3>4. f[q] \in Chain(Nexts(u), Size(t), f[q]) /\ Closed(Nexts(u), Chain(Nexts(u), Size(t), f[q]))
      BY <1>2, <3>1, ChainClosed
    <3> QED BY <3>2, <3>3, <3>4 DEF Closed
  <2> HIDE DEF f
  <2>3. \A p \in 1..Size(t) : \A q \in Chain(Nexts(t), Size(t), p) : f[q] \in Chain(Nexts(u), Size(t), f[p])
    BY <1>2, <2>1, <2>2, ChainsMapped
  <2> QED BY <1>2, <2>3 DEF f, ChainAt, Nodes
<1>5. NoCycle(u)
  <2>1. PICK rank : Falls(Nexts(t), Size(t), rank)
    BY DEF Displaces, CanPlace, Sound, NoCycle
  <2>2. rank \in [Nodes(t) -> Nat] /\ \A p \in Nodes(t) : Nexts(t)[p] # 0 => rank[Nexts(t)[p]] < rank[p]
    BY <2>1 DEF Falls, Nodes
  <2> DEFINE new == [p \in Nodes(t) |-> IF p = mp THEN 0 ELSE IF p = n THEN rank[mp] ELSE rank[p]]
  <2>3. new \in [Nodes(t) -> Nat]
    BY <1>1, <2>2
  <2>4. ASSUME NEW p \in Nodes(t), Nexts(u)[p] # 0 PROVE new[Nexts(u)[p]] < new[p]
    <3>1. CASE p = n
      <4>1. Nexts(u)[p] = Nexts(t)[mp] /\ Nexts(t)[mp] \in Nodes(t) /\ Nexts(t)[mp] # mp /\ Nexts(t)[mp] # n
        BY <1>1, <1>2, <1>3, <2>4, <3>1
      <4>2. rank[Nexts(t)[mp]] < rank[mp]
        BY <1>1, <1>2, <2>2, <2>4, <4>1, <3>1
      <4> QED BY <1>1, <3>1, <4>1, <4>2
    <3>2. CASE p = prev
      <4>1. Nexts(u)[p] = n /\ Nexts(t)[prev] = mp /\ mp # 0
        BY <1>1, <1>2, <3>2 DEF Nodes
      <4>2. rank[mp] < rank[prev]
        BY <1>1, <2>2, <4>1
      <4> QED BY <1>1, <3>2, <4>1, <4>2
    <3>3. CASE p \notin {n, prev}
      <4>1. p # mp
        BY <1>2, <2>4
      <4>2. Nexts(u)[p] = Nexts(t)[p] /\ Nexts(t)[p] \in Nodes(t) /\ Nexts(t)[p] # mp /\ Nexts(t)[p] # n
        BY <1>1, <1>2, <1>3, <2>4, <3>3, <4>1
      <4>3. rank[Nexts(t)[p]] < rank[p]
        BY <2>2, <2>4, <4>2
      <4> QED BY <3>3, <4>1, <4>2, <4>3
    <3> QED BY <3>1, <3>2, <3>3
  <2> HIDE DEF new
  <2>5. Falls(Nexts(u), Size(u), new)
    BY <1>2, <2>3, <2>4 DEF Falls, Nodes
  <2> QED BY <2>5 DEF NoCycle
<1>6. OneBefore(u)
  <2>1. OneBefore(t)
    BY DEF Displaces, CanPlace, Sound
  <2>2. \A p, q \in Nodes(t) : Nexts(t)[p] = Nexts(t)[q] /\ Nexts(t)[p] # 0 => p = q
    BY <1>2, <2>1 DEF OneBefore
  <2>3. ASSUME NEW p \in Nodes(t), NEW q \in Nodes(t), Nexts(u)[p] = Nexts(u)[q], Nexts(u)[p] # 0 PROVE p = q
    <3>1. p # mp /\ q # mp
      BY <1>2, <2>3
    <3>2. ASSUME NEW r \in Nodes(t), r # mp
          PROVE  Nexts(u)[r] = IF r = n THEN Nexts(t)[mp] ELSE IF r = prev THEN n ELSE Nexts(t)[r]
      BY <1>1, <1>2, <3>2
    <3>3. \A r \in Nodes(t) : Nexts(t)[r] # n
      BY <1>1, <1>2
    <3> QED BY <1>1, <2>2, <2>3, <3>1, <3>2, <3>3
  <2> QED BY <1>2, <2>3 DEF OneBefore
<1> QED BY <1>4, <1>5, <1>6

LEMMA MoveSound ==
  ASSUME NEW t, NEW k, NEW mp, NEW n, NEW prev, Displaces(t, k, mp, n, prev),
         NEW u, MovedAside(t, u, mp, k, n, prev)
  PROVE  Sound(u)
<1>1. MovedLinks(t, u, mp, n, prev)
  BY LinksMoved
<1>2. /\ mp # n /\ mp \in Keyed(t) /\ mp \in Nodes(t) /\ n \in Nodes(t) /\ n \notin Keyed(t) /\ mp = MainPosition(t, k)
      /\ Home(t, mp) # mp /\ \A p \in Nodes(t) : p > n => p \in Keyed(t)
      /\ Sound(t) /\ ~ InArray(t, k) /\ Live(t, k) = {} /\ k \in Keys /\ k # Nil
  BY DisplacedNodes, KeysAre DEF Displaces, CanPlace
<1>3. /\ \A p \in Nodes(t) : \A q \in ChainAt(t, p) : Aside(t, mp, n)[q] \in ChainAt(u, Aside(t, mp, n)[p])
      /\ NoCycle(u) /\ OneBefore(u)
  BY <1>1, ChainsAside
<1>4. /\ Nodes(u) = Nodes(t) /\ Size(u) = Size(t) /\ Keyed(u) = Keyed(t) \cup {n} /\ u.free = n
      /\ u.node[mp].key = k /\ ~ u.node[mp].dead /\ u.node[mp].val = Nil /\ u.node[mp].next = 0
      /\ u.node[n].key = t.node[mp].key /\ u.node[n].dead = t.node[mp].dead /\ u.node[n].val = t.node[mp].val
      /\ \A p \in Nodes(t) : p \notin {mp, n} => /\ u.node[p].key = t.node[p].key /\ u.node[p].val = t.node[p].val
                                                 /\ u.node[p].dead = t.node[p].dead
      /\ \A j : MainPosition(u, j) = MainPosition(t, j) /\ InArray(u, j) = InArray(t, j)
  BY <1>1 DEF MovedLinks, MovedAside
<1>5. KeysAndValues(u)
  <2>1. KeysAndValues(t) /\ TableType(t) /\ TableType(u)
    BY <1>2 DEF Sound, MovedAside
  <2>2. SUFFICES ASSUME NEW p \in Nodes(t)
                 PROVE  /\ u.node[p].key = Nil => u.node[p].next = 0 /\ u.node[p].val = Nil /\ ~ u.node[p].dead
                        /\ u.node[p].dead => u.node[p].val = Nil
                        /\ u.node[p].next # 0 => u.node[p].next \in Keyed(u)
                        /\ p >= u.free => p \in Keyed(u)
    BY <1>4 DEF KeysAndValues
  <2>3. p >= u.free => p \in Keyed(u)
    BY <1>2, <1>4 DEF Nodes
  <2>4. u.node[p].next # 0 => u.node[p].next \in Keyed(u)
    <3>1. \/ u.node[p].next = 0 \/ u.node[p].next = n \/ u.node[p].next = t.node[mp].next
          \/ u.node[p].next = t.node[p].next
      BY <1>1 DEF MovedLinks
    <3> QED BY <1>2, <1>4, <2>1, <3>1 DEF KeysAndValues
  <2>5. p \notin {mp, n, prev} => u.node[p] = t.node[p]
    BY DEF MovedAside
  <2>6. prev \in Keyed(t)
    BY DisplacedNodes
  <2>7. p = mp \/ p = n \/ p = prev \/ p \notin {mp, n, prev}
    OBVIOUS
  <2>8. u.node[p].key = Nil => u.node[p].next = 0 /\ u.node[p].val = Nil /\ ~ u.node[p].dead
    <3>1. u.node[p].key = Nil => p \notin {mp, n, prev}
      BY <1>2, <1>4, <2>6 DEF Keyed
    <3> QED BY <2>1, <2>5, <3>1 DEF KeysAndValues
  <2>9. u.node[p].dead => u.node[p].val = Nil
    BY <1>2, <1>4, <2>1 DEF KeysAndValues
  <2> QED BY <2>3, <2>4, <2>8, <2>9
<1>6. Home(u, mp) = mp /\ Home(u, n) = Home(t, mp)
      /\ \A p \in Nodes(t) : p \notin {mp, n} => Home(u, p) = Home(t, p)
  BY <1>2, <1>4 DEF Home
<1>7. AtHome(u)
  <2>1. SUFFICES ASSUME NEW p \in Keyed(u)
                 PROVE  /\ ~ InArray(u, u.node[p].key) /\ p \in ChainAt(u, Home(u, p))
                        /\ Home(u, p) \in Keyed(u) /\ Home(u, Home(u, p)) = Home(u, p)
    BY DEF AtHome
  <2>2. CASE p = mp
    <3>1. mp \in ChainAt(u, mp)
      BY <1>2, <1>4, NextsLink, ChainClosed DEF ChainAt, MovedAside, Nodes
    <3> QED BY <1>2, <1>4, <1>6, <2>2, <3>1
  <2>3. CASE p # mp
    <3>1. PICK q \in Keyed(t) : /\ p = Aside(t, mp, n)[q] /\ u.node[p].key = t.node[q].key
                                /\ Home(u, p) = Home(t, q)
      <4>1. CASE p = n
        <5>1. p = Aside(t, mp, n)[mp] /\ u.node[p].key = t.node[mp].key /\ Home(u, p) = Home(t, mp)
          BY <1>2, <1>4, <1>6, <4>1 DEF Aside
        <5> QED BY <1>2, <5>1
      <4>2. CASE p # n
        <5>1. p \in Keyed(t) /\ p \in Nodes(t)
          BY <1>4, <4>2 DEF Keyed
        <5>2. p = Aside(t, mp, n)[p] /\ u.node[p].key = t.node[p].key /\ Home(u, p) = Home(t, p)
          BY <1>4, <1>6, <2>3, <4>2, <5>1 DEF Aside
        <5> QED BY <5>1, <5>2
      <4> QED BY <4>1, <4>2
    <3>2. /\ ~ InArray(t, t.node[q].key) /\ q \in ChainAt(t, Home(t, q))
          /\ Home(t, q) \in Keyed(t) /\ Home(t, Home(t, q)) = Home(t, q)
      BY <3>1, <1>2 DEF Sound, AtHome
    <3>3. Home(t, q) \in Nodes(t) /\ Home(t, q) # mp /\ Home(t, q) # n
      BY <1>2, <3>2 DEF Keyed
    <3>4. Aside(t, mp, n)[Home(t, q)] = Home(t, q)
      BY <3>3 DEF Aside
    <3>5. p \in ChainAt(u, Home(t, q))
      BY <1>3, <3>1, <3>2, <3>3, <3>4
    <3>6. Home(u, Home(t, q)) = Home(t, q)
      BY <1>6, <3>2, <3>3
    <3> QED BY <1>4, <3>1, <3>2, <3>5, <3>6
  <2> QED BY <2>2, <2>3
<1>8. OneLive(u)
  <2>1. SUFFICES ASSUME NEW p \in Keyed(u), NEW q \in Keyed(u), u.node[p].key = u.node[q].key, ~ u.node[p].dead
                 PROVE  IF u.node[q].dead THEN q \in ChainAt(u, p) ELSE p = q
    BY DEF OneLive
  <2>2. ASSUME NEW r \in Keyed(t) PROVE t.node[r].key # k
    <3>1. SUFFICES ASSUME t.node[r].key = k PROVE FALSE
      OBVIOUS
    <3>2. Home(t, r) = mp
      BY <1>2, <3>1 DEF Home
    <3>3. Home(t, mp) = mp
      BY <1>2, <3>2 DEF Sound, AtHome
    <3> QED BY <1>2, <3>3
  <2>3. ASSUME NEW r \in Keyed(u), r # mp
        PROVE  \E s \in Keyed(t) : /\ r = Aside(t, mp, n)[s] /\ u.node[r].key = t.node[s].key
                                   /\ u.node[r].dead = t.node[s].dead
    <3>1. CASE r = n
      <4>1. r = Aside(t, mp, n)[mp]
        BY <1>2, <3>1 DEF Aside
      <4> QED BY <1>2, <1>4, <3>1, <4>1
    <3>2. CASE r # n
      <4>1. r \in Keyed(t) /\ r \in Nodes(t)
        BY <1>4, <3>2, <2>3 DEF Keyed
      <4>2. r = Aside(t, mp, n)[r]
        BY <2>3, <3>2, <4>1 DEF Aside
      <4> QED BY <1>4, <2>3, <3>2, <4>1, <4>2
    <3> QED BY <3>1, <3>2
  <2>4. CASE p = mp /\ q = mp
    BY <1>4, <2>4
  <2>5. CASE p # mp /\ q # mp
    <3>1. PICK a \in Keyed(t) : /\ p = Aside(t, mp, n)[a] /\ u.node[p].key = t.node[a].key
                                /\ u.node[p].dead = t.node[a].dead
      BY <2>3, <2>5
    <3>2. PICK b \in Keyed(t) : /\ q = Aside(t, mp, n)[b] /\ u.node[q].key = t.node[b].key
                                /\ u.node[q].dead = t.node[b].dead
      BY <2>3, <2>5
    <3>3. IF t.node[b].dead THEN b \in ChainAt(t, a) ELSE a = b
      BY <1>2, <2>1, <3>1, <3>2 DEF Sound, OneLive
    <3>4. a \in Nodes(t)
      BY <3>1 DEF Keyed
    <3> QED BY <1>3, <3>1, <3>2, <3>3, <3>4
  <2>6. CASE (p = mp /\ q # mp) \/ (p # mp /\ q = mp)
    <3>1. ASSUME NEW r \in Keyed(u), r # mp PROVE u.node[r].key # k
      BY <2>2, <2>3, <3>1
    <3> QED BY <1>4, <2>1, <2>6, <3>1
  <2> QED BY <2>4, <2>5, <2>6
<1>9. TableType(u) /\ ArrayOfInts(u)
  BY <1>2 DEF MovedAside, Sound, ArrayOfInts
<1> QED BY <1>3, <1>5, <1>7, <1>8, <1>9 DEF Sound

LEMMA MovePlaces ==
  ASSUME NEW t, NEW k, NEW mp, NEW n, NEW prev, Displaces(t, k, mp, n, prev),
         NEW u, MovedAside(t, u, mp, k, n, prev)
  PROVE  Placed(t, u, k)
<1>1. Sound(u) /\ Sound(t) /\ k \in Keys /\ Live(t, k) = {} /\ k # Nil
  BY MoveSound, KeysAre DEF Displaces, CanPlace
<1>2. /\ Nodes(u) = Nodes(t) /\ Size(u) = Size(t) /\ Keyed(u) = Keyed(t) \cup {n} /\ u.array = t.array
      /\ u.node[mp].key = k /\ ~ u.node[mp].dead /\ u.node[mp].val = Nil
      /\ u.node[n].key = t.node[mp].key /\ u.node[n].dead = t.node[mp].dead /\ u.node[n].val = t.node[mp].val
      /\ \A p \in Nodes(t) : p \notin {mp, n} => /\ u.node[p].key = t.node[p].key /\ u.node[p].val = t.node[p].val
                                                 /\ u.node[p].dead = t.node[p].dead
  BY LinksMoved DEF MovedLinks, MovedAside
<1>3. /\ mp # n /\ mp \in Keyed(t) /\ mp \in Nodes(t) /\ n \in Nodes(t) /\ t.node[n].key = Nil /\ ~ t.node[mp].dead
  BY DisplacedNodes DEF Displaces, CanPlace
<1>4. mp \in Live(u, k)
  BY <1>2, <1>3 DEF Live
<1>5. \A p \in Live(u, k) : u.node[p].val = Nil
  BY <1>1, <1>2, <1>4, GetLive DEF Live
<1>6. \A j \in Keys \ {k} : \A p \in Live(t, j) : \E q \in Live(u, j) : u.node[q].val = t.node[p].val
  <2>1. SUFFICES ASSUME NEW j \in Keys \ {k}, NEW p \in Live(t, j)
                 PROVE  \E q \in Live(u, j) : u.node[q].val = t.node[p].val
    OBVIOUS
  <2>2. CASE p = mp
    <3>1. n \in Live(u, j)
      BY <1>2, <1>3, <2>2 DEF Live
    <3> QED BY <1>2, <2>2, <3>1
  <2>3. CASE p # mp
    <3>1. p # n /\ p \in Nodes(t)
      BY <1>3, KeysAre DEF Live
    <3>2. p \in Live(u, j)
      BY <1>2, <2>3, <3>1 DEF Live
    <3> QED BY <1>2, <2>3, <3>1, <3>2
  <2> QED BY <2>2, <2>3
<1>7. \A j \in Keys \ {k} : Live(t, j) = {} => Live(u, j) = {}
  <2>1. SUFFICES ASSUME NEW j \in Keys \ {k}, NEW p \in Live(u, j) PROVE Live(t, j) # {}
    OBVIOUS
  <2>2. p # mp /\ p \in Nodes(t) /\ u.node[p].key = j /\ ~ u.node[p].dead
    BY <1>2 DEF Live
  <2>3. CASE p = n
    BY <1>2, <1>3, <2>2, <2>3 DEF Live
  <2>4. CASE p # n
    BY <1>2, <2>2, <2>4 DEF Live
  <2> QED BY <2>3, <2>4
<1>8. \A j \in Keys : Get(u, j) = Get(t, j)
  <2>1. SameValues(t, u, k)
    BY <1>1, <1>2, <1>5, <1>6, <1>7 DEF SameValues
  <2> QED BY <2>1, SameFields
<1>9. KeysIn(u) \subseteq KeysIn(t) \cup {k}
  <2>1. SUFFICES ASSUME NEW p \in Keyed(u) PROVE u.node[p].key \in KeysIn(t) \cup {k}
    BY DEF KeysIn
  <2>2. p = mp \/ p = n \/ (p \notin {mp, n} /\ p \in Keyed(t) /\ p \in Nodes(t))
    BY <1>2 DEF Keyed
  <2> QED BY <1>2, <1>3, <2>2 DEF KeysIn
<1>10. NoneDead(t) => NoneDead(u)
  BY <1>2, <1>3 DEF NoneDead
<1> QED BY <1>1, <1>2, <1>4, <1>8, <1>9, <1>10 DEF Placed

(* The node at mp belongs there, and k comes after it.                          *)
Trails(t, k, mp, n) ==
  /\ CanPlace(t, k, mp) /\ t.node[mp].val # Nil /\ Home(t, mp) = mp
  /\ n \in Nodes(t) /\ n \notin Keyed(t) /\ \A p \in Nodes(t) : p > n => p \in Keyed(t)

LEMMA TrailingNodes ==
  ASSUME NEW t, NEW k, NEW mp, NEW n, Trails(t, k, mp, n)
  PROVE  /\ mp # n /\ mp \in Keyed(t) /\ mp \in Nodes(t) /\ n \in Nodes(t)
         /\ t.node[n].next = 0 /\ t.node[n].key = Nil /\ ~ t.node[mp].dead
         /\ \A p \in Nodes(t) : t.node[p].next # n
<1>1. TableType(t) /\ KeysAndValues(t)
  BY DEF Trails, CanPlace, Sound
<1>2. mp \in Nodes(t) /\ mp \in Keyed(t) /\ ~ t.node[mp].dead
  BY <1>1 DEF Trails, CanPlace, KeysAndValues, Keyed
<1>3. n \in Nodes(t) /\ t.node[n].key = Nil /\ t.node[n].next = 0 /\ n # 0
  BY <1>1, NodeFacts DEF Trails, KeysAndValues, Keyed, Nodes
<1>4. \A p \in Nodes(t) : t.node[p].next # n
  BY <1>1, <1>3 DEF KeysAndValues, Keyed
<1> QED BY <1>2, <1>3, <1>4 DEF Trails

TrailingLinks(t, u, k, mp, n) ==
  /\ Nodes(u) = Nodes(t) /\ Size(u) = Size(t)
  /\ \A p : MainPosition(u, p) = MainPosition(t, p) /\ InArray(u, p) = InArray(t, p)
  /\ Links(Nexts(t), Size(t)) /\ Links(Nexts(u), Size(t))
  /\ Nexts(u)[mp] = n /\ Nexts(u)[n] = t.node[mp].next
  /\ \A p \in Nodes(t) : p \notin {mp, n} => Nexts(u)[p] = t.node[p].next
  /\ \A p \in Nodes(t) : p # n => /\ u.node[p].key = t.node[p].key /\ u.node[p].val = t.node[p].val
                                  /\ u.node[p].dead = t.node[p].dead
  /\ u.node[n].key = k /\ u.node[n].val = Nil /\ ~ u.node[n].dead
  /\ \A p \in Nodes(t) : u.node[p].next = Nexts(u)[p] /\ t.node[p].next = Nexts(t)[p]
  /\ Keyed(u) = Keyed(t) \cup {n} /\ mp \in Nodes(t) /\ n \in Nodes(t)

LEMMA LinksTrail ==
  ASSUME NEW t, NEW k, NEW mp, NEW n, Trails(t, k, mp, n), NEW u, Followed(t, u, mp, k, n)
  PROVE  TrailingLinks(t, u, k, mp, n)
<1>1. /\ Nodes(u) = Nodes(t) /\ Size(u) = Size(t) /\ TableType(t) /\ TableType(u)
      /\ \A p : MainPosition(u, p) = MainPosition(t, p) /\ InArray(u, p) = InArray(t, p)
  BY SameSize DEF Followed, Trails, CanPlace, Sound
<1>2. Links(Nexts(t), Size(t)) /\ Links(Nexts(u), Size(t))
  BY <1>1, NextsLink
<1>3. mp \in Nodes(t) /\ n \in Nodes(t) /\ mp \in Keyed(t) /\ mp # n
  BY TrailingNodes
<1>4. \A p \in Nodes(t) : u.node[p].next = Nexts(u)[p] /\ t.node[p].next = Nexts(t)[p]
  BY <1>1 DEF Nexts
<1>5. \A p \in Nodes(t) : p # n => /\ u.node[p].key = t.node[p].key /\ u.node[p].val = t.node[p].val
                                   /\ u.node[p].dead = t.node[p].dead
  BY DEF Followed
<1>6. Keyed(u) = Keyed(t) \cup {n}
  <2>1. u.node[n].key # Nil
    BY KeysAre DEF Followed, Trails, CanPlace
  <2> QED BY <1>1, <1>3, <1>5, <2>1 DEF Keyed
<1> QED BY <1>1, <1>2, <1>3, <1>4, <1>5, <1>6 DEF TrailingLinks, Followed

LEMMA ChainsTrail ==
  ASSUME NEW t, NEW k, NEW mp, NEW n, Trails(t, k, mp, n), NEW u, TrailingLinks(t, u, k, mp, n)
  PROVE  /\ \A p \in Nodes(t) : \A q \in ChainAt(t, p) : q \in ChainAt(u, p)
         /\ n \in ChainAt(u, mp)
         /\ t.node[mp].next # 0 => ChainAt(u, t.node[mp].next) \subseteq ChainAt(u, n)
         /\ NoCycle(u) /\ OneBefore(u)
<1>1. /\ mp # n /\ mp \in Nodes(t) /\ n \in Nodes(t) /\ n # 0 /\ t.node[n].next = 0
      /\ \A p \in Nodes(t) : t.node[p].next # n
  BY TrailingNodes DEF Nodes
<1>2. /\ Links(Nexts(t), Size(t)) /\ Links(Nexts(u), Size(t)) /\ Nodes(u) = Nodes(t) /\ Size(u) = Size(t)
      /\ Nexts(u)[mp] = n /\ Nexts(u)[n] = Nexts(t)[mp]
      /\ \A p \in Nodes(t) : p \notin {mp, n} => Nexts(u)[p] = Nexts(t)[p]
      /\ \A p \in Nodes(t) : u.node[p].next = Nexts(u)[p] /\ t.node[p].next = Nexts(t)[p]
  BY DEF TrailingLinks
<1>3. \A p \in Nodes(t) : Nexts(t)[p] # 0 => Nexts(t)[p] \in Nodes(t)
  BY <1>2 DEF Links, Nodes
<1>4. \A p \in Nodes(t) : p \in ChainAt(u, p) /\ Closed(Nexts(u), ChainAt(u, p))
  BY <1>2, ChainClosed DEF ChainAt, Nodes
<1>5. n \in ChainAt(u, mp)
  BY <1>1, <1>2, <1>4 DEF Closed
<1>6. Nexts(t)[mp] # 0 => Nexts(t)[mp] \in ChainAt(u, mp) /\ Nexts(t)[mp] \in ChainAt(u, n)
  BY <1>1, <1>2, <1>4, <1>5 DEF Closed
<1>7. \A p \in Nodes(t) : \A q \in ChainAt(t, p) : q \in ChainAt(u, p)
  <2> DEFINE f == [p \in Nodes(t) |-> p]
  <2>1. f \in [1..Size(t) -> 1..Size(t)]
    BY DEF Nodes
  <2>2. ASSUME NEW q \in 1..Size(t), Nexts(t)[q] # 0 PROVE f[Nexts(t)[q]] \in Chain(Nexts(u), Size(t), f[q])
    <3>1. q \in Nodes(t) /\ Nexts(t)[q] \in Nodes(t)
      BY <1>3, <2>2 DEF Nodes
    <3>2. Nexts(t)[q] \in ChainAt(u, q)
      <4>1. CASE q = mp
        BY <1>6, <2>2, <4>1
      <4>2. CASE q # mp
        BY <1>1, <1>2, <1>4, <2>2, <3>1, <4>2 DEF Closed
      <4> QED BY <4>1, <4>2
    <3> QED BY <1>2, <3>1, <3>2 DEF ChainAt
  <2> HIDE DEF f
  <2>3. \A p \in 1..Size(t) : \A q \in Chain(Nexts(t), Size(t), p) : f[q] \in Chain(Nexts(u), Size(t), f[p])
    BY <1>2, <2>1, <2>2, ChainsMapped
  <2>4. SUFFICES ASSUME NEW p \in Nodes(t), NEW q \in ChainAt(t, p) PROVE q \in ChainAt(u, p)
    OBVIOUS
  <2>5. q \in Nodes(t) /\ f[q] = q /\ f[p] = p
    BY DEF f, ChainAt, Chain, Nodes
  <2> QED BY <1>2, <2>3, <2>5 DEF ChainAt, Nodes
<1>8. t.node[mp].next # 0 => ChainAt(u, t.node[mp].next) \subseteq ChainAt(u, n)
  BY <1>1, <1>2, <1>6, ChainOf DEF ChainAt, Nodes
<1>9. NoCycle(u)
  <2>1. PICK rank : Falls(Nexts(t), Size(t), rank)
    BY DEF Trails, CanPlace, Sound, NoCycle
  <2>2. rank \in [Nodes(t) -> Nat] /\ \A p \in Nodes(t) : Nexts(t)[p] # 0 => rank[Nexts(t)[p]] < rank[p]
    BY <2>1 DEF Falls, Nodes
  <2> DEFINE new == [p \in Nodes(t) |-> IF p = n THEN 2 * rank[mp] ELSE 2 * rank[p] + 1]
  <2>3. new \in [Nodes(t) -> Nat]
    BY <1>1, <2>2
  <2>4. ASSUME NEW p \in Nodes(t), Nexts(u)[p] # 0 PROVE new[Nexts(u)[p]] < new[p]
    <3>1. CASE p = n
      <4>1. Nexts(u)[p] = Nexts(t)[mp] /\ Nexts(t)[mp] \in Nodes(t) /\ Nexts(t)[mp] # n /\ Nexts(t)[mp] # 0
        BY <1>1, <1>2, <1>3, <2>4, <3>1
      <4>2. rank[Nexts(t)[mp]] < rank[mp] /\ rank[Nexts(t)[mp]] \in Nat /\ rank[mp] \in Nat
        BY <1>1, <2>2, <4>1
      <4>3. new[Nexts(u)[p]] = 2 * rank[Nexts(t)[mp]] + 1 /\ new[p] = 2 * rank[mp]
        BY <1>1, <3>1, <4>1
      <4> HIDE DEF new
      <4> QED BY <4>2, <4>3
    <3>2. CASE p = mp
      <4>1. new[Nexts(u)[p]] = 2 * rank[mp] /\ new[p] = 2 * rank[mp] + 1 /\ rank[mp] \in Nat
        BY <1>1, <1>2, <2>2, <3>2
      <4> HIDE DEF new
      <4> QED BY <4>1
    <3>3. CASE p \notin {n, mp}
      <4>1. Nexts(u)[p] = Nexts(t)[p] /\ Nexts(t)[p] \in Nodes(t) /\ Nexts(t)[p] # n /\ Nexts(t)[p] # 0
        BY <1>1, <1>2, <1>3, <2>4, <3>3
      <4>2. rank[Nexts(t)[p]] < rank[p] /\ rank[Nexts(t)[p]] \in Nat /\ rank[p] \in Nat
        BY <2>2, <4>1
      <4>3. new[Nexts(u)[p]] = 2 * rank[Nexts(t)[p]] + 1 /\ new[p] = 2 * rank[p] + 1
        BY <3>3, <4>1
      <4> HIDE DEF new
      <4> QED BY <4>2, <4>3
    <3> QED BY <3>1, <3>2, <3>3
  <2> HIDE DEF new
  <2>5. Falls(Nexts(u), Size(u), new)
    BY <1>2, <2>3, <2>4 DEF Falls, Nodes
  <2> QED BY <2>5 DEF NoCycle
<1>10. OneBefore(u)
  <2>1. OneBefore(t)
    BY DEF Trails, CanPlace, Sound
  <2>2. \A p, q \in Nodes(t) : Nexts(t)[p] = Nexts(t)[q] /\ Nexts(t)[p] # 0 => p = q
    BY <1>2, <2>1 DEF OneBefore
  <2>3. ASSUME NEW p \in Nodes(t), NEW q \in Nodes(t), Nexts(u)[p] = Nexts(u)[q], Nexts(u)[p] # 0 PROVE p = q
    <3>1. ASSUME NEW r \in Nodes(t)
          PROVE  Nexts(u)[r] = IF r = n THEN Nexts(t)[mp] ELSE IF r = mp THEN n ELSE Nexts(t)[r]
      BY <1>1, <1>2, <3>1
    <3>2. \A r \in Nodes(t) : Nexts(t)[r] # n
      BY <1>1, <1>2
    <3> QED BY <1>1, <2>2, <2>3, <3>1, <3>2
  <2> QED BY <1>2, <2>3 DEF OneBefore
<1> QED BY <1>5, <1>7, <1>8, <1>9, <1>10

LEMMA FollowSound ==
  ASSUME NEW t, NEW k, NEW mp, NEW n, Trails(t, k, mp, n), NEW u, Followed(t, u, mp, k, n)
  PROVE  Sound(u)
<1>1. TrailingLinks(t, u, k, mp, n)
  BY LinksTrail
<1>2. /\ mp # n /\ mp \in Keyed(t) /\ mp \in Nodes(t) /\ n \in Nodes(t) /\ n \notin Keyed(t) /\ mp = MainPosition(t, k)
      /\ Home(t, mp) = mp /\ \A p \in Nodes(t) : p > n => p \in Keyed(t)
      /\ Sound(t) /\ ~ InArray(t, k) /\ Live(t, k) = {} /\ k \in Keys /\ k # Nil /\ ~ t.node[mp].dead
  BY TrailingNodes, KeysAre DEF Trails, CanPlace
<1>3. /\ \A p \in Nodes(t) : \A q \in ChainAt(t, p) : q \in ChainAt(u, p)
      /\ n \in ChainAt(u, mp)
      /\ t.node[mp].next # 0 => ChainAt(u, t.node[mp].next) \subseteq ChainAt(u, n)
      /\ NoCycle(u) /\ OneBefore(u)
  BY <1>1, ChainsTrail
<1>4. /\ Nodes(u) = Nodes(t) /\ Size(u) = Size(t) /\ Keyed(u) = Keyed(t) \cup {n} /\ u.free = n
      /\ u.node[n].key = k /\ ~ u.node[n].dead /\ u.node[n].val = Nil
      /\ \A p \in Nodes(t) : p # n => /\ u.node[p].key = t.node[p].key /\ u.node[p].val = t.node[p].val
                                      /\ u.node[p].dead = t.node[p].dead
      /\ \A j : MainPosition(u, j) = MainPosition(t, j) /\ InArray(u, j) = InArray(t, j)
  BY <1>1 DEF TrailingLinks, Followed
<1>5. KeysAndValues(u)
  <2>1. KeysAndValues(t)
    BY <1>2 DEF Sound
  <2>2. SUFFICES ASSUME NEW p \in Nodes(t)
                 PROVE  /\ u.node[p].key = Nil => u.node[p].next = 0 /\ u.node[p].val = Nil /\ ~ u.node[p].dead
                        /\ u.node[p].dead => u.node[p].val = Nil
                        /\ u.node[p].next # 0 => u.node[p].next \in Keyed(u)
                        /\ p >= u.free => p \in Keyed(u)
    BY <1>4 DEF KeysAndValues
  <2>3. p >= u.free => p \in Keyed(u)
    BY <1>2, <1>4 DEF Nodes
  <2>4. u.node[p].next # 0 => u.node[p].next \in Keyed(u)
    <3>1. \/ u.node[p].next = n \/ u.node[p].next = t.node[mp].next \/ u.node[p].next = t.node[p].next
      BY <1>1 DEF TrailingLinks
    <3> QED BY <1>2, <1>4, <2>1, <3>1 DEF KeysAndValues
  <2>5. p \notin {mp, n} => u.node[p] = t.node[p]
    BY DEF Followed
  <2>6. u.node[p].key = Nil => u.node[p].next = 0 /\ u.node[p].val = Nil /\ ~ u.node[p].dead
    <3>1. u.node[p].key = Nil => p \notin {mp, n}
      BY <1>2, <1>4 DEF Keyed
    <3> QED BY <2>1, <2>5, <3>1 DEF KeysAndValues
  <2>7. u.node[p].dead => u.node[p].val = Nil
    BY <1>2, <1>4, <2>1 DEF KeysAndValues
  <2> QED BY <2>3, <2>4, <2>6, <2>7
<1>6. Home(u, n) = mp /\ \A p \in Nodes(t) : p # n => Home(u, p) = Home(t, p)
  BY <1>2, <1>4 DEF Home
<1>7. AtHome(u)
  <2>1. SUFFICES ASSUME NEW p \in Keyed(u)
                 PROVE  /\ ~ InArray(u, u.node[p].key) /\ p \in ChainAt(u, Home(u, p))
                        /\ Home(u, p) \in Keyed(u) /\ Home(u, Home(u, p)) = Home(u, p)
    BY DEF AtHome
  <2>2. CASE p = n
    BY <1>2, <1>3, <1>4, <1>6, <2>2
  <2>3. CASE p # n
    <3>1. p \in Keyed(t) /\ p \in Nodes(t)
      BY <1>4, <2>3 DEF Keyed
    <3>2. /\ ~ InArray(t, t.node[p].key) /\ p \in ChainAt(t, Home(t, p))
          /\ Home(t, p) \in Keyed(t) /\ Home(t, Home(t, p)) = Home(t, p)
      BY <3>1, <1>2 DEF Sound, AtHome
    <3>3. Home(t, p) \in Nodes(t) /\ Home(t, p) # n
      BY <1>2, <3>2 DEF Keyed
    <3> QED BY <1>3, <1>4, <1>6, <2>3, <3>1, <3>2, <3>3
  <2> QED BY <2>2, <2>3
<1>8. OneLive(u)
  <2>1. SUFFICES ASSUME NEW p \in Keyed(u), NEW q \in Keyed(u), u.node[p].key = u.node[q].key, ~ u.node[p].dead
                 PROVE  IF u.node[q].dead THEN q \in ChainAt(u, p) ELSE p = q
    BY DEF OneLive
  <2>2. CASE p = n /\ q # n
    <3>1. q \in Nodes(t) /\ t.node[q].key = k /\ q \in AnyOf(t, k) /\ u.node[q].dead = t.node[q].dead
      BY <1>4, <2>1, <2>2 DEF Keyed, AnyOf
    <3>2. t.node[q].dead /\ q # mp
      BY <1>2, <3>1 DEF Live
    <3>3. q \in ChainAt(t, mp)
      BY <1>2, <3>1, KeyInChain
    <3>4. Links(Nexts(t), Size(t)) /\ Nexts(t)[mp] = t.node[mp].next /\ mp \in 1..Size(t)
      BY <1>1, <1>2 DEF TrailingLinks, Nodes
    <3>5. Nexts(t)[mp] # 0 /\ q \in ChainAt(t, Nexts(t)[mp])
      BY <3>2, <3>3, <3>4, ChainFirst DEF ChainAt
    <3>6. Nexts(t)[mp] \in Nodes(t)
      BY <3>4, <3>5 DEF Links, Nodes
    <3>7. q \in ChainAt(u, n)
      BY <1>3, <3>4, <3>5, <3>6
    <3> QED BY <2>2, <3>1, <3>2, <3>7
  <2>3. CASE p # n
    <3>1. p \in Nodes(t) /\ p \in Keyed(t) /\ u.node[p].key = t.node[p].key /\ u.node[p].dead = t.node[p].dead
      BY <1>4, <2>3 DEF Keyed
    <3>2. t.node[p].key # k
      BY <1>2, <2>1, <3>1 DEF Live
    <3>3. q # n /\ q \in Keyed(t) /\ u.node[q].key = t.node[q].key /\ u.node[q].dead = t.node[q].dead
      BY <1>4, <2>1, <3>1, <3>2 DEF Keyed
    <3>4. IF t.node[q].dead THEN q \in ChainAt(t, p) ELSE p = q
      BY <1>2, <2>1, <3>1, <3>3 DEF Sound, OneLive
    <3> QED BY <1>3, <3>1, <3>3, <3>4
  <2>4. CASE p = n /\ q = n
    BY <1>4, <2>4
  <2> QED BY <2>2, <2>3, <2>4
<1>9. TableType(u) /\ ArrayOfInts(u)
  BY <1>2 DEF Followed, Sound, ArrayOfInts
<1> QED BY <1>3, <1>5, <1>7, <1>8, <1>9 DEF Sound

LEMMA FollowPlaces ==
  ASSUME NEW t, NEW k, NEW mp, NEW n, Trails(t, k, mp, n), NEW u, Followed(t, u, mp, k, n)
  PROVE  Placed(t, u, k)
<1>1. Sound(u) /\ Sound(t) /\ k \in Keys /\ Live(t, k) = {} /\ k # Nil
  BY FollowSound, KeysAre DEF Trails, CanPlace
<1>2. /\ Nodes(u) = Nodes(t) /\ Size(u) = Size(t) /\ Keyed(u) = Keyed(t) \cup {n} /\ u.array = t.array
      /\ u.node[n].key = k /\ ~ u.node[n].dead /\ u.node[n].val = Nil
      /\ \A p \in Nodes(t) : p # n => /\ u.node[p].key = t.node[p].key /\ u.node[p].val = t.node[p].val
                                      /\ u.node[p].dead = t.node[p].dead
  BY LinksTrail DEF TrailingLinks, Followed
<1>3. n \in Nodes(t) /\ t.node[n].key = Nil
  BY TrailingNodes
<1>4. n \in Live(u, k)
  BY <1>2, <1>3 DEF Live
<1>5. \A p \in Live(u, k) : u.node[p].val = Nil
  BY <1>1, <1>2, <1>4, GetLive DEF Live
<1>6. \A j \in Keys \ {k} : Live(u, j) = Live(t, j) /\ \A p \in Live(t, j) : u.node[p].val = t.node[p].val
  <2>1. SUFFICES ASSUME NEW j \in Keys \ {k}
                 PROVE  Live(u, j) = Live(t, j) /\ \A p \in Live(t, j) : u.node[p].val = t.node[p].val
    OBVIOUS
  <2>2. n \notin Live(t, j) /\ n \notin Live(u, j)
    BY <1>2, <1>3, KeysAre DEF Live
  <2> QED BY <1>2, <2>2 DEF Live
<1>7. \A j \in Keys : Get(u, j) = Get(t, j)
  <2>1. SameValues(t, u, k)
    BY <1>1, <1>2, <1>5, <1>6 DEF SameValues
  <2> QED BY <2>1, SameFields
<1>8. KeysIn(u) \subseteq KeysIn(t) \cup {k}
  <2>1. SUFFICES ASSUME NEW p \in Keyed(u) PROVE u.node[p].key \in KeysIn(t) \cup {k}
    BY DEF KeysIn
  <2>2. p = n \/ (p # n /\ p \in Keyed(t) /\ p \in Nodes(t))
    BY <1>2 DEF Keyed
  <2> QED BY <1>2, <2>2 DEF KeysIn
<1>9. NoneDead(t) => NoneDead(u)
  BY <1>2 DEF NoneDead
<1> QED BY <1>1, <1>2, <1>4, <1>7, <1>8, <1>9 DEF Placed

LEMMA PlaceKeeps ==
  ASSUME NEW t, Sound(t), NEW k \in Keys, ~ Holds(t, k), HasRoom(t, k)
  PROVE  Placed(t, Place(t, k), k)
<1>1. PICK mp : mp = MainPosition(t, k)
  OBVIOUS
<1>2. PICK n : n = FreePos(t)
  OBVIOUS
<1>3. CanPlace(t, k, mp) /\ TableType(t)
  <2>1. mp \in Nodes(t) /\ TableType(t)
    BY <1>1, MainPositionIn, NodeFacts DEF HasRoom, Sound
  <2>2. Live(t, k) = {}
    BY GetLive DEF Holds
  <2> QED BY <1>1, <2>1, <2>2 DEF CanPlace, Holds
<1>4. mp \in Nodes(t)
  BY <1>3 DEF CanPlace
<1>5. CASE t.node[mp].val = Nil
  BY <1>1, <1>3, <1>4, <1>5, PlaceOverwrites, OverwritePlaces
<1>6. CASE t.node[mp].val # Nil
  <2>1. n \in Nodes(t) /\ n \notin Keyed(t) /\ \A p \in Nodes(t) : p > n => p \in Keyed(t)
    <3>1. n # 0
      BY <1>1, <1>2, <1>6 DEF HasRoom
    <3> QED BY <1>2, <3>1, FreeIs
  <2>2. CASE Home(t, mp) # mp
    <3>1. PICK prev : prev = PrevOf(t, mp)
      OBVIOUS
    <3>2. prev \in Nodes(t) /\ t.node[prev].next = mp
      BY <1>3, <1>6, <2>2, <3>1, PrevExists
    <3>3. Displaces(t, k, mp, n, prev)
      BY <1>3, <1>6, <2>1, <2>2, <3>2 DEF Displaces
    <3>4. mp # n /\ prev # n /\ prev # mp
      BY <3>3, DisplacedNodes
    <3>5. MovedAside(t, Place(t, k), mp, k, n, prev)
      BY <1>1, <1>2, <1>3, <1>4, <1>6, <2>1, <2>2, <3>1, <3>2, <3>4, PlaceMoves
    <3> QED BY <3>3, <3>5, MovePlaces
  <2>3. CASE Home(t, mp) = mp
    <3>1. Trails(t, k, mp, n)
      BY <1>3, <1>6, <2>1, <2>3 DEF Trails
    <3>2. mp # n
      BY <3>1, TrailingNodes
    <3>3. Followed(t, Place(t, k), mp, k, n)
      BY <1>1, <1>2, <1>3, <1>4, <1>6, <2>1, <2>3, <3>2, PlaceFollows
    <3> QED BY <3>1, <3>3, FollowPlaces
  <2> QED BY <2>2, <2>3
<1> QED BY <1>5, <1>6

---------------------------------------------------------------------------
(* The sizes that rehash computes.                                              *)

LEMMA PowersOfTwo ==
  ASSUME NEW m \in Nat, NEW i \in 0..m
  PROVE  2^i \in Nat /\ 2^m \in Nat /\ 2^i <= 2^m
<1>1. /\ IsFiniteSet(1..i) /\ Cardinality(1..i) = i /\ IsFiniteSet(1..m) /\ Cardinality(1..m) = m
  <2>1. i \in Nat /\ i \in Int /\ m \in Int /\ 1 \in Int
    OBVIOUS
  <2>2. ASSUME NEW j \in Nat PROVE IsFiniteSet(1..j) /\ Cardinality(1..j) = j
    <3>1. IsFiniteSet(1..j) /\ Cardinality(1..j) = IF 1 > j THEN 0 ELSE j - 1 + 1
      BY FS_Interval
    <3> QED BY <3>1
  <2> QED BY <2>1, <2>2
<1>2. /\ IsFiniteSet(SUBSET (1..i)) /\ Cardinality(SUBSET (1..i)) = 2^i
      /\ IsFiniteSet(SUBSET (1..m)) /\ Cardinality(SUBSET (1..m)) = 2^m
  BY ONLY <1>1, FS_SUBSET
<1>3. SUBSET (1..i) \in SUBSET (SUBSET (1..m))
  <2>1. 1..i \subseteq 1..m
    OBVIOUS
  <2> QED BY <2>1
<1>4. Cardinality(SUBSET (1..i)) <= Cardinality(SUBSET (1..m))
  BY ONLY <1>2, <1>3, FS_Subset
<1>5. Cardinality(SUBSET (1..i)) \in Nat /\ Cardinality(SUBSET (1..m)) \in Nat
  BY ONLY <1>2, FS_CardinalityType
<1> QED BY <1>2, <1>4, <1>5

MostNodes == 2^MaxBits

LEMMA MostIs == MostNodes \in Nat /\ \A i \in 0..MaxBits : 2^i \in 0..MostNodes
<1>1. MaxBits \in Nat
  BY TableAssumption
<1>2. ASSUME NEW i \in 0..MaxBits PROVE 2^i \in Nat /\ 2^i <= MostNodes /\ MostNodes \in Nat
  BY <1>1, PowersOfTwo DEF MostNodes
<1>3. MaxBits \in 0..MaxBits
  BY <1>1
<1>4. MostNodes \in Nat
  BY <1>2, <1>3
<1>5. ASSUME NEW i \in 0..MaxBits PROVE 2^i \in 0..MostNodes
  <2>1. 2^i \in Nat /\ 2^i <= MostNodes
    BY <1>2
  <2> QED BY ONLY <1>4, <2>1
<1> QED BY <1>4, <1>5

LEMMA ArraySizeIs == ASSUME NEW S PROVE ArraySize(S) \in 0..MostNodes
<1> DEFINE slice(i) == {k \in S : k <= 2^i /\ (i > 0 => k > 2^(i-1))}
           J == {j \in 0..MaxBits : slice(j) # {} /\ Cardinality({k \in S : k <= 2^j}) > 2^j \div 2}
           T == {0} \cup {2^i : i \in J}
<1>1. ArraySize(S) = Max(T)
  BY DEF ArraySize
<1>2. J \subseteq 0..MaxBits
  OBVIOUS
<1> HIDE DEF J
<1>3. T \subseteq 0..MostNodes /\ T # {}
  BY <1>2, MostIs
<1> HIDE DEF T
<1>4. Max(T) \in T
  BY <1>3, MostIs, Greatest
<1> QED BY <1>1, <1>3, <1>4

LEMMA NodeSizeIs ==
  ASSUME NEW n \in 0..MostNodes
  PROVE  NodeSize(n) \in 0..MostNodes /\ n <= NodeSize(n)
<1>1. CASE n = 0
  BY <1>1, MostIs DEF NodeSize
<1>2. CASE n # 0
  <2> DEFINE T == {s \in {2^i : i \in 0..MaxBits} : n <= s}
  <2>1. NodeSize(n) = Min(T)
    BY <1>2 DEF NodeSize
  <2>2. T \subseteq 0..MostNodes
    BY MostIs
  <2>3. MostNodes \in T
    <3>1. MaxBits \in 0..MaxBits
      BY TableAssumption
    <3>2. n <= MostNodes
      BY MostIs
    <3> QED BY <3>1, <3>2 DEF MostNodes
  <2>4. Min(T) \in T
    <3> HIDE DEF T
    <3>1. T \subseteq Nat /\ T # {}
      BY <2>2, <2>3, MostIs
    <3>2. PICK x \in T : \A y \in T : x <= y
      BY ONLY <3>1, Least
    <3> QED BY <3>2 DEF Min
  <2> QED BY <2>1, <2>2, <2>4
<1> QED BY <1>1, <1>2

(* Of the keys K, for which there are enough nodes, one has none yet.           *)
Fits(t, K) == /\ K \subseteq Keys /\ Cardinality(K) <= Size(t) /\ KeysIn(t) \subseteq K
              /\ Sound(t) /\ NoneDead(t)

LEMMA FiniteKeys ==
  ASSUME NEW K, K \subseteq Keys
  PROVE  IsFiniteSet(K) /\ Cardinality(K) \in Nat /\ Cardinality(K) <= MostNodes
<1>1. IsFiniteSet(Keys) /\ Cardinality(Keys) <= MostNodes /\ MostNodes \in Nat
  BY TableAssumption, MostIs DEF MostNodes
<1>2. K \in SUBSET Keys
  OBVIOUS
<1>3. IsFiniteSet(K) /\ Cardinality(K) <= Cardinality(Keys)
  BY ONLY <1>1, <1>2, FS_Subset
<1>4. Cardinality(K) \in Nat /\ Cardinality(Keys) \in Nat
  BY ONLY <1>1, <1>3, FS_CardinalityType
<1> QED BY <1>1, <1>3, <1>4

(* A node holds a key at most: no more nodes have keys than there are keys.     *)
LEMMA KeysCounted ==
  ASSUME NEW t, Sound(t), NEW M, M \subseteq Keyed(t), \A p \in M : ~ t.node[p].dead,
         NEW K, K \subseteq Keys, \A p \in M : t.node[p].key \in K
  PROVE  IsFiniteSet(M) /\ Cardinality(M) <= Cardinality(K) /\ Cardinality(M) \in Nat
<1>1. PICK f : f = [p \in M |-> t.node[p].key]
  OBVIOUS
<1>2. f \in [M -> K]
  BY <1>1
<1>3. \A a, b \in M : f[a] = f[b] => a = b
  <2>1. SUFFICES ASSUME NEW a \in M, NEW b \in M, f[a] = f[b] PROVE a = b
    OBVIOUS
  <2>2. t.node[a].key = t.node[b].key /\ ~ t.node[a].dead /\ ~ t.node[b].dead /\ a \in Keyed(t) /\ b \in Keyed(t)
    BY <1>1, <2>1
  <2> QED BY <2>2 DEF Sound, OneLive
<1>4. f \in Injection(M, K)
  BY ONLY <1>2, <1>3, Fun_IsInj
<1>5. IsFiniteSet(K)
  BY FiniteKeys
<1>6. IsFiniteSet(M) /\ Cardinality(M) <= Cardinality(K)
  BY ONLY <1>4, <1>5, FS_Injection
<1>7. Cardinality(M) \in Nat
  BY ONLY <1>6, FS_CardinalityType
<1> QED BY <1>6, <1>7

LEMMA RoomLeft ==
  ASSUME NEW t, NEW K, Fits(t, K), NEW k \in K, k \notin KeysIn(t)
  PROVE  HasRoom(t, k)
<1>1. K \subseteq Keys /\ Cardinality(K) <= Size(t) /\ KeysIn(t) \subseteq K /\ Sound(t) /\ NoneDead(t)
  BY DEF Fits
<1>2. IsFiniteSet(K) /\ Cardinality(K) \in Nat
  BY <1>1, FiniteKeys
<1>3. PICK L : L = K \ {k}
  OBVIOUS
<1>4. IsFiniteSet(L) /\ Cardinality(L) = Cardinality(K) - 1
  BY ONLY <1>2, <1>3, k \in K, FS_RemoveElement
<1>5. Cardinality(L) \in Nat
  BY ONLY <1>4, FS_CardinalityType
<1>6. Size(t) \in Nat /\ Size(t) > 0 /\ TableType(t)
  BY <1>1, <1>2, <1>4, <1>5, NodeFacts DEF Sound
<1>7. Keyed(t) # Nodes(t)
  <2>1. SUFFICES ASSUME Keyed(t) = Nodes(t) PROVE FALSE
    OBVIOUS
  <2>2. L \subseteq Keys /\ \A p \in Keyed(t) : t.node[p].key \in L /\ ~ t.node[p].dead
    BY <1>1, <1>3, <2>1 DEF KeysIn, NoneDead
  <2>3. Cardinality(Keyed(t)) <= Cardinality(L)
    BY <1>1, <2>2, KeysCounted
  <2>4. Cardinality(Nodes(t)) = Size(t)
    <3>1. Size(t) \in Int /\ 1 \in Int
      BY <1>6
    <3>2. Cardinality(1..Size(t)) = IF 1 > Size(t) THEN 0 ELSE Size(t) - 1 + 1
      BY ONLY <3>1, FS_Interval
    <3> QED BY <1>6, <3>2 DEF Nodes
  <2> QED BY <1>1, <1>2, <1>4, <1>5, <1>6, <2>1, <2>3, <2>4
<1>8. FreePos(t) # 0
  <2>1. Keyed(t) \subseteq Nodes(t) /\ 0 \notin Nodes(t)
    BY DEF Keyed, Nodes
  <2> QED BY <1>1, <1>7, <2>1, FreeIs
<1> QED BY <1>6, <1>8 DEF HasRoom

---------------------------------------------------------------------------
(* What resize comes to, and what it has moved after i of them.                 *)

SlotField(t, i) == <<i, t.array[i]>>
NodeField(t, p) == <<t.node[p].key, t.node[p].val>>

AllFields(t) == (Nat \cup Keys \cup {Nil}) \X (Values \cup {Nil})

LEMMA MovedFields ==
  ASSUME NEW t, TableType(t), NEW narray \in Nat
  PROVE  /\ Len(Moved(t, narray)) \in Nat
         /\ \A m \in 1..Len(Moved(t, narray)) :
              \/ \E i \in (narray + 1)..Len(t.array) : Moved(t, narray)[m] = SlotField(t, i)
              \/ \E p \in Nodes(t) : Moved(t, narray)[m] = NodeField(t, p)
         /\ \A i \in (narray + 1)..Len(t.array) : \E m \in 1..Len(Moved(t, narray)) :
              Moved(t, narray)[m] = SlotField(t, i)
         /\ \A p \in Nodes(t) : \E m \in 1..Len(Moved(t, narray)) : Moved(t, narray)[m] = NodeField(t, p)
<1>1. PICK a : a = Len(t.array)
  OBVIOUS
<1>2. PICK n : n = Size(t)
  OBVIOUS
<1>3. a \in Nat /\ n \in Nat /\ \A i \in 1..a : SlotField(t, i) \in AllFields(t)
  BY <1>1, <1>2, NodeFacts DEF AllFields, SlotField
<1>4. \A p \in 1..n : NodeField(t, p) \in AllFields(t)
  BY <1>2, NodeFacts DEF AllFields, NodeField, Nodes
<1>5. PICK slots : slots = [i \in 1..a |-> SlotField(t, i)]
  OBVIOUS
<1>6. PICK nodes : nodes = [p \in 1..n |-> NodeField(t, p)]
  OBVIOUS
<1>7. slots \in Seq(AllFields(t)) /\ Len(slots) = a /\ \A i \in 1..a : slots[i] = SlotField(t, i)
  <2>1. slots \in [1..a -> AllFields(t)]
    BY <1>3, <1>5
  <2> QED BY <1>3, <1>5, <2>1, MakeSeq
<1>8. nodes \in Seq(AllFields(t)) /\ Len(nodes) = n /\ \A i \in 1..n : nodes[i] = NodeField(t, i)
  <2>1. nodes \in [1..n -> AllFields(t)]
    BY <1>4, <1>6
  <2> QED BY <1>3, <1>6, <2>1, MakeSeq
<1>9. PICK s : s = SubSeq(slots, narray + 1, a)
  OBVIOUS
<1>10. PICK r : r = Reverse(nodes)
  OBVIOUS
<1>11. PICK c : c = IF narray < a THEN a - narray ELSE 0
  OBVIOUS
<1>12. s \in Seq(AllFields(t)) /\ Len(s) = c /\ c \in Nat /\ \A i \in 1..c : s[i] = slots[narray + i]
  <2>1. \A i \in (narray + 1)..a : slots[i] \in AllFields(t)
    BY <1>3, <1>7
  <2>2. /\ s \in Seq(AllFields(t)) /\ Len(s) = IF narray + 1 <= a THEN a - (narray + 1) + 1 ELSE 0
        /\ \A i \in 1..(a - (narray + 1) + 1) : s[i] = slots[narray + 1 + i - 1]
    <3>1. narray + 1 \in Int /\ a \in Int
      BY <1>3
    <3> QED BY ONLY <1>9, <2>1, <3>1, SubSeqProperties
  <2>3. c \in Nat /\ Len(s) = c
    BY <1>3, <1>11, <2>2
  <2>4. ASSUME NEW i \in 1..c PROVE s[i] = slots[narray + i]
    <3>1. i \in 1..(a - (narray + 1) + 1) /\ narray + 1 + i - 1 = narray + i
      BY <1>3, <1>11
    <3> QED BY <2>2, <3>1
  <2> QED BY <2>2, <2>3, <2>4
<1>13. r \in Seq(AllFields(t)) /\ Len(r) = n /\ \A i \in 1..n : r[i] = nodes[n - i + 1]
  <2>1. r = [i \in 1..n |-> nodes[n - i + 1]]
    BY <1>8, <1>10 DEF Reverse
  <2>2. r \in [1..n -> AllFields(t)]
    <3>1. ASSUME NEW i \in 1..n PROVE nodes[n - i + 1] \in AllFields(t)
      <4>1. n - i + 1 \in 1..n
        BY <1>3
      <4> QED BY <1>4, <1>8, <4>1
    <3> QED BY <2>1, <3>1
  <2> QED BY <1>3, <2>1, <2>2, MakeSeq
<1>14. PICK f : f = Moved(t, narray)
  OBVIOUS
<1>15. f = s \o r
  BY <1>1, <1>2, <1>5, <1>6, <1>7, <1>9, <1>10, <1>14 DEF Moved, SlotField, NodeField
<1>16. /\ f \in Seq(AllFields(t)) /\ Len(f) = c + n
       /\ \A i \in 1..(c + n) : f[i] = IF i <= c THEN s[i] ELSE r[i - c]
  BY ONLY <1>12, <1>13, <1>15, ConcatProperties
<1>17. \A m \in 1..Len(f) : \/ \E i \in (narray + 1)..a : f[m] = SlotField(t, i)
                            \/ \E p \in 1..n : f[m] = NodeField(t, p)
  <2>1. SUFFICES ASSUME NEW m \in 1..(c + n)
                 PROVE  \/ \E i \in (narray + 1)..a : f[m] = SlotField(t, i)
                        \/ \E p \in 1..n : f[m] = NodeField(t, p)
    BY <1>16
  <2>2. CASE m <= c
    <3>1. m \in 1..c /\ narray + m \in (narray + 1)..a /\ narray + m \in 1..a
      BY <1>3, <1>11, <1>12, <2>2
    <3> QED BY <1>7, <1>12, <1>16, <2>2, <3>1
  <2>3. CASE ~ (m <= c)
    <3>1. PICK i : i = m - c
      OBVIOUS
    <3>2. PICK p : p = n - i + 1
      OBVIOUS
    <3>3. i \in 1..n /\ p \in 1..n
      BY <1>3, <1>12, <2>3, <3>1, <3>2
    <3>4. f[m] = r[i] /\ r[i] = nodes[p] /\ nodes[p] = NodeField(t, p)
      BY <1>8, <1>13, <1>16, <2>3, <3>1, <3>2, <3>3
    <3>5. \E q \in 1..n : f[m] = NodeField(t, q)
      BY ONLY <3>3, <3>4
    <3> QED BY <3>5
  <2> QED BY <2>2, <2>3
<1>18. ASSUME NEW i \in (narray + 1)..a PROVE \E m \in 1..Len(f) : f[m] = SlotField(t, i)
  <2>1. PICK m : m = i - narray
    OBVIOUS
  <2>2. m \in 1..c /\ m \in 1..(c + n) /\ m <= c /\ narray + m = i /\ i \in 1..a
    BY <1>3, <1>11, <1>12, <2>1
  <2>3. f[m] = SlotField(t, i)
    BY <1>7, <1>12, <1>16, <2>2
  <2> QED BY <1>16, <2>2, <2>3
<1>19. ASSUME NEW p \in 1..n PROVE \E m \in 1..Len(f) : f[m] = NodeField(t, p)
  <2>1. PICK m : m = n - p + 1
    OBVIOUS
  <2>2. PICK i : i = c + m
    OBVIOUS
  <2>3. m \in 1..n /\ n - m + 1 = p /\ i \in 1..(c + n) /\ ~ (i <= c) /\ i - c = m
    BY <1>3, <1>12, <2>1, <2>2
  <2>4. f[i] = r[m] /\ r[m] = nodes[p] /\ nodes[p] = NodeField(t, p)
    <3>1. f[i] = r[i - c]
      BY ONLY <1>16, <2>3
    <3>2. r[m] = nodes[n - m + 1]
      BY ONLY <1>13, <2>3
    <3> QED BY <1>8, <2>3, <3>1, <3>2
  <2> QED BY <1>16, <2>3, <2>4
<1>20. Len(f) \in Nat
  BY <1>3, <1>12, <1>16
<1> QED BY <1>1, <1>2, <1>14, <1>17, <1>18, <1>19, <1>20 DEF Nodes

(* The fields that do not fit into an array part of narray slots.               *)
Slots(narray) == {k \in Ints : 0 < k /\ k <= narray}
Beyond(t, narray) == Present(t) \ Slots(narray)

StartOf(t, u, narray, n) ==
  /\ Sound(u) /\ NoneDead(u) /\ KeysIn(u) = {} /\ Size(u) = n /\ Len(u.array) = narray
  /\ \A j \in Keys : Get(u, j) = IF j \in Slots(narray) /\ InArray(t, j) THEN Get(t, j) ELSE Nil

LEMMA EmptiedIs ==
  ASSUME NEW t, Sound(t), NEW narray \in Nat, NEW n \in Nat
  PROVE  StartOf(t, Emptied(t, narray, n), narray, n)
<1>1. PICK a : a = [i \in 1..narray |-> IF i <= Len(t.array) THEN t.array[i] ELSE Nil]
  OBVIOUS
<1>2. PICK f : f = [p \in 1..n |-> EmptyNode]
  OBVIOUS
<1>3. PICK u : u = Emptied(t, narray, n)
  OBVIOUS
<1>4. u = [array |-> a, node |-> f, free |-> n + 1]
  BY <1>1, <1>2, <1>3 DEF Emptied
<1>5. Len(t.array) \in Nat /\ \A i \in 1..Len(t.array) : t.array[i] \in Values \cup {Nil}
  BY NodeFacts DEF Sound
<1>6. a \in Seq(Values \cup {Nil}) /\ Len(a) = narray
  <2>1. ASSUME NEW i \in 1..narray PROVE a[i] \in Values \cup {Nil}
    <3>1. CASE i <= Len(t.array)
      <4>1. i \in 1..Len(t.array)
        BY <1>5, <3>1
      <4> QED BY <1>1, <1>5, <3>1, <4>1
    <3>2. CASE ~ (i <= Len(t.array))
      BY <1>1, <3>2
    <3> QED BY <3>1, <3>2
  <2>2. a \in [1..narray -> Values \cup {Nil}]
    BY <1>1, <2>1
  <2> QED BY <2>2, MakeSeq
<1>7. PICK e : e = EmptyNode
  OBVIOUS
<1>8. e \in NodeRecords(n) /\ e.key = Nil /\ ~ e.dead /\ e.val = Nil /\ e.next = 0
  BY <1>7 DEF EmptyNode, NodeRecords
<1>9. f \in [1..n -> NodeRecords(n)]
  BY <1>2, <1>7, <1>8
<1>10. TableType(u) /\ Size(u) = n
  <2>1. n + 1 \in 1..n + 1
    OBVIOUS
  <2> QED BY <1>4, <1>6, <1>9, <2>1, MakeTable
<1>11. u.array = a /\ u.free = n + 1 /\ Nodes(u) = 1..n /\ \A p \in Nodes(u) : u.node[p] = e
  BY <1>2, <1>4, <1>7, <1>10 DEF Nodes
<1>12. Keyed(u) = {} /\ KeysIn(u) = {} /\ NoneDead(u)
  BY <1>8, <1>11 DEF Keyed, KeysIn, NoneDead
<1>13. KeysAndValues(u)
  <2>1. \A p \in Nodes(u) : ~ (p >= u.free)
    BY <1>11
  <2> QED BY <1>8, <1>11, <2>1 DEF KeysAndValues
<1>14. OneBefore(u) /\ AtHome(u) /\ OneLive(u)
  BY <1>8, <1>11, <1>12 DEF OneBefore, AtHome, OneLive
<1>15. NoCycle(u)
  <2>1. PICK rank : rank = [p \in 1..n |-> 0]
    OBVIOUS
  <2>2. Falls(Nexts(u), Size(u), rank)
    BY <1>8, <1>10, <1>11, <2>1 DEF Falls, Nexts
  <2> QED BY <2>2 DEF NoCycle
<1>16. ArrayOfInts(u)
  <2>1. SUFFICES ASSUME NEW i \in 1..narray, a[i] # Nil PROVE i \in Ints
    BY <1>6, <1>11 DEF ArrayOfInts
  <2>2. i \in 1..Len(t.array) /\ t.array[i] # Nil
    BY <1>1, <1>5, <2>1
  <2> QED BY <2>2 DEF Sound, ArrayOfInts
<1>17. Sound(u)
  BY <1>10, <1>13, <1>14, <1>15, <1>16 DEF Sound
<1>18. ASSUME NEW j \in Keys
       PROVE  Get(u, j) = IF j \in Slots(narray) /\ InArray(t, j) THEN Get(t, j) ELSE Nil
  <2>1. InArray(u, j) <=> j \in Slots(narray)
    BY <1>6, <1>11 DEF InArray, Slots
  <2>2. CASE InArray(u, j)
    <3>1. j \in 1..narray /\ Get(u, j) = a[j] /\ j \in Slots(narray)
      <4>1. j \in Slots(narray) /\ j \in Nat
        BY <2>1, <2>2, KeysAre DEF Slots
      <4> QED BY <1>11, <2>2, <4>1 DEF Get, Slots
    <3>2. InArray(t, j) <=> j <= Len(t.array)
      BY <2>1, <2>2 DEF InArray, Slots
    <3> QED BY <1>1, <3>1, <3>2 DEF Get
  <2>3. CASE ~ InArray(u, j)
    <3>1. Live(u, j) = {}
      BY <1>8, <1>11, KeysAre DEF Live
    <3> QED BY <1>17, <2>1, <2>3, <3>1, GetNone
  <2> QED BY <2>2, <2>3
<1>19. StartOf(t, u, narray, n)
  BY <1>6, <1>10, <1>11, <1>12, <1>17, <1>18 DEF StartOf
<1> QED BY <1>3, <1>19

Moves(t, f, b, n) == f = [i \in 0..n |-> IF i = 0 THEN b ELSE Move(f[i - 1], t[i])]

LEMMA MovesExist ==
  ASSUME NEW s, NEW b, NEW n \in Nat
  PROVE  \E f : Moves(s, f, b, n)
<1> DEFINE P == {m \in 0..n : \E f : Moves(s, f, b, m)}
<1>1. 0 \in P
  <2>1. PICK f : f = [i \in 0..0 |-> b]
    OBVIOUS
  <2>2. Moves(s, f, b, 0)
    BY <2>1 DEF Moves
  <2> QED BY <2>2
<1>2. ASSUME NEW m \in 0..(n - 1), m \in P PROVE m + 1 \in P
  <2>1. PICK f : Moves(s, f, b, m)
    BY <1>2
  <2>2. PICK v : v = Move(f[m], s[m + 1])
    OBVIOUS
  <2>3. PICK g : g = [i \in 0..(m + 1) |-> IF i = m + 1 THEN v ELSE f[i]]
    OBVIOUS
  <2>4. ASSUME NEW i \in 0..(m + 1)
        PROVE  g[i] = IF i = 0 THEN b ELSE Move(g[i - 1], s[i])
    <3>1. CASE i = m + 1
      <4>1. i # 0 /\ i - 1 \in 0..(m + 1) /\ i - 1 # m + 1 /\ i - 1 = m
        BY <3>1
      <4> QED BY <2>2, <2>3, <3>1, <4>1
    <3>2. CASE i # m + 1
      <4>1. i \in 0..m /\ (i # 0 => i - 1 \in 0..(m + 1) /\ i - 1 # m + 1)
        BY <3>2
      <4>2. f[i] = IF i = 0 THEN b ELSE Move(f[i - 1], s[i])
        BY <2>1, <4>1 DEF Moves
      <4> QED BY <2>3, <3>2, <4>1, <4>2
    <3> QED BY <3>1, <3>2
  <2>5. Moves(s, g, b, m + 1)
    <3>1. g = [i \in 0..(m + 1) |-> g[i]]
      BY <2>3
    <3> QED BY <2>4, <3>1 DEF Moves
  <2> QED BY <2>5
<1> HIDE DEF P
<1>3. n \in P
  <2>1. \A m \in 0..(n - 1) : m \in P => m + 1 \in P
    BY <1>2
  <2> QED BY <1>1, <2>1, Induction
<1> QED BY <1>3 DEF P

(* Putting a field where there is room for it.                                  *)
LEMMA PutKeeps ==
  ASSUME NEW w, Sound(w), NEW k \in Keys, Holds(w, k) \/ HasRoom(w, k), NEW v \in Values \cup {Nil}
  PROVE  /\ Sound(Store(InsertInRoom(w, k), k, v)) /\ OneField(w, Store(InsertInRoom(w, k), k, v), k, v)
         /\ Size(Store(InsertInRoom(w, k), k, v)) = Size(w)
         /\ Len(Store(InsertInRoom(w, k), k, v).array) = Len(w.array)
         /\ KeysIn(Store(InsertInRoom(w, k), k, v)) \subseteq KeysIn(w) \cup (IF Holds(w, k) THEN {} ELSE {k})
         /\ NoneDead(w) => NoneDead(Store(InsertInRoom(w, k), k, v))
         /\ Holds(w, k) => SameLinks(w, Store(InsertInRoom(w, k), k, v))
<1>1. PICK u : u = InsertInRoom(w, k)
  OBVIOUS
<1>2. PICK x : x = Store(u, k, v)
  OBVIOUS
<1>3. /\ Sound(u) /\ Holds(u, k) /\ Size(u) = Size(w) /\ Len(u.array) = Len(w.array)
      /\ \A j \in Keys : Get(u, j) = Get(w, j)
      /\ KeysIn(u) \subseteq KeysIn(w) \cup (IF Holds(w, k) THEN {} ELSE {k})
      /\ NoneDead(w) => NoneDead(u)
      /\ Holds(w, k) => u = w
  <2>1. CASE Holds(w, k)
    <3>1. u = w
      BY <1>1, <2>1 DEF InsertInRoom
    <3> QED BY <2>1, <3>1
  <2>2. CASE ~ Holds(w, k)
    <3>1. u = Place(w, k)
      BY <1>1, <2>2 DEF InsertInRoom
    <3>2. Placed(w, u, k)
      BY <2>2, <3>1, PlaceKeeps
    <3>3. Holds(u, k)
      BY <3>2, GetLive DEF Placed
    <3> QED BY <2>2, <3>2, <3>3 DEF Placed
  <2> QED BY <2>1, <2>2
<1>4. /\ Sound(x) /\ OneField(u, x, k, v) /\ SameLinks(u, x)
      /\ \A p \in Nodes(u) : x.node[p].dead = u.node[p].dead
  BY <1>2, <1>3, StoreKeeps
<1>5. OneField(w, x, k, v)
  BY <1>3, <1>4 DEF OneField
<1>6. Size(x) = Size(u) /\ Len(x.array) = Len(u.array) /\ Nodes(x) = Nodes(u) /\ Keyed(x) = Keyed(u)
  BY <1>4, LinksAre DEF SameLinks
<1>7. KeysIn(x) = KeysIn(u)
  <2>1. \A p \in Keyed(u) : x.node[p].key = u.node[p].key
    BY <1>4 DEF SameLinks, Keyed
  <2> QED BY <1>6, <2>1 DEF KeysIn
<1>8. NoneDead(u) => NoneDead(x)
  BY <1>4, <1>6 DEF NoneDead
<1> QED BY <1>1, <1>2, <1>3, <1>4, <1>5, <1>6, <1>7, <1>8

(* The keys of the first i fields that have a value.                            *)
Done(s, i) == {s[m][1] : m \in {l \in 1..i : s[l][2] # Nil}}

(* w after i fields of s, of what is resized to narray slots and n nodes.       *)
Moving(t, narray, n, K, s, w, i) ==
  /\ Sound(w) /\ NoneDead(w) /\ Size(w) = n /\ Len(w.array) = narray /\ KeysIn(w) \subseteq K
  /\ \A j \in Keys : Get(w, j) = IF j \in Done(s, i) \/ (j \in Slots(narray) /\ InArray(t, j))
                                 THEN Get(t, j) ELSE Nil

Resizes(t, narray, n, K, s) ==
  /\ Sound(t) /\ narray \in Nat /\ n \in Nat
  /\ K \subseteq Keys /\ Cardinality(K) <= n /\ Beyond(t, narray) \subseteq K
  /\ s = Moved(t, narray)

LEMMA FieldIs ==
  ASSUME NEW t, NEW narray, NEW n, NEW K, NEW s, Resizes(t, narray, n, K, s)
  PROVE  /\ Len(s) \in Nat
         /\ \A m \in 1..Len(s) : s[m][2] # Nil =>
              /\ s[m][1] \in Keys /\ s[m][2] = Get(t, s[m][1]) /\ s[m][2] \in Values
              /\ ~ (s[m][1] \in Slots(narray) /\ InArray(t, s[m][1]))
         /\ \A j \in Keys : Get(t, j) # Nil /\ ~ (j \in Slots(narray) /\ InArray(t, j)) => j \in Done(s, Len(s))
<1>1. Sound(t) /\ TableType(t) /\ narray \in Nat /\ s = Moved(t, narray) /\ KeysAndValues(t)
  BY DEF Resizes, Sound
<1>2. /\ Len(s) \in Nat
      /\ \A m \in 1..Len(s) : \/ \E i \in (narray + 1)..Len(t.array) : s[m] = SlotField(t, i)
                              \/ \E p \in Nodes(t) : s[m] = NodeField(t, p)
      /\ \A i \in (narray + 1)..Len(t.array) : \E m \in 1..Len(s) : s[m] = SlotField(t, i)
      /\ \A p \in Nodes(t) : \E m \in 1..Len(s) : s[m] = NodeField(t, p)
  BY <1>1, MovedFields
<1>3. Len(t.array) \in Nat /\ \A i \in 1..Len(t.array) : t.array[i] \in Values \cup {Nil}
  BY <1>1, NodeFacts
<1>4. ASSUME NEW i \in (narray + 1)..Len(t.array), t.array[i] # Nil
      PROVE  i \in Keys /\ t.array[i] = Get(t, i) /\ t.array[i] \in Values /\ i \notin Slots(narray) /\ InArray(t, i)
  <2>1. i \in 1..Len(t.array) /\ i \in Ints /\ i \in Keys /\ ~ (i <= narray)
    BY <1>1, <1>3, <1>4, KeysAre DEF Sound, ArrayOfInts
  <2>2. InArray(t, i)
    BY <2>1 DEF InArray
  <2> QED BY <1>3, <1>4, <2>1, <2>2 DEF Get, Slots
<1>5. ASSUME NEW p \in Nodes(t), t.node[p].val # Nil
      PROVE  t.node[p].key \in Keys /\ t.node[p].val = Get(t, t.node[p].key) /\ t.node[p].val \in Values
             /\ ~ InArray(t, t.node[p].key)
  <2>1. t.node[p].key # Nil /\ ~ t.node[p].dead /\ t.node[p].key \in Keys /\ t.node[p].val \in Values
    BY <1>1, <1>5, NodeFacts DEF KeysAndValues
  <2>2. p \in Live(t, t.node[p].key)
    BY <2>1 DEF Live
  <2> QED BY <1>1, <2>1, <2>2, GetLive
<1>6. ASSUME NEW m \in 1..Len(s), s[m][2] # Nil
      PROVE  /\ s[m][1] \in Keys /\ s[m][2] = Get(t, s[m][1]) /\ s[m][2] \in Values
             /\ ~ (s[m][1] \in Slots(narray) /\ InArray(t, s[m][1]))
  <2>1. CASE \E i \in (narray + 1)..Len(t.array) : s[m] = SlotField(t, i)
    <3>1. PICK i \in (narray + 1)..Len(t.array) : s[m] = SlotField(t, i)
      BY <2>1
    <3>2. s[m][1] = i /\ s[m][2] = t.array[i]
      BY <3>1 DEF SlotField
    <3> QED BY <1>4, <1>6, <3>2
  <2>2. CASE \E p \in Nodes(t) : s[m] = NodeField(t, p)
    <3>1. PICK p \in Nodes(t) : s[m] = NodeField(t, p)
      BY <2>2
    <3>2. s[m][1] = t.node[p].key /\ s[m][2] = t.node[p].val
      BY <3>1 DEF NodeField
    <3> QED BY <1>5, <1>6, <3>2
  <2> QED BY <1>2, <2>1, <2>2
<1>7. ASSUME NEW j \in Keys, Get(t, j) # Nil, ~ (j \in Slots(narray) /\ InArray(t, j))
      PROVE  j \in Done(s, Len(s))
  <2>1. CASE InArray(t, j)
    <3>1. j \in (narray + 1)..Len(t.array) /\ t.array[j] # Nil
      BY <1>1, <1>3, <1>7, <2>1, KeysAre DEF Get, InArray, Slots
    <3>2. PICK m \in 1..Len(s) : s[m] = SlotField(t, j)
      BY <1>2, <3>1
    <3>3. s[m][1] = j /\ s[m][2] # Nil
      BY <3>1, <3>2 DEF SlotField
    <3> QED BY <3>3 DEF Done
  <2>2. CASE ~ InArray(t, j)
    <3>1. Live(t, j) # {}
      BY <1>1, <1>7, <2>2, GetNone
    <3>2. PICK p : p \in Live(t, j)
      BY <3>1
    <3>3. p \in Nodes(t) /\ t.node[p].key = j /\ t.node[p].val # Nil
      BY <1>1, <1>7, <3>2, GetLive DEF Live
    <3>4. PICK m \in 1..Len(s) : s[m] = NodeField(t, p)
      BY <1>2, <3>3
    <3>5. s[m][1] = j /\ s[m][2] # Nil
      BY <3>3, <3>4 DEF NodeField
    <3> QED BY <3>5 DEF Done
  <2> QED BY <2>1, <2>2
<1> QED BY <1>2, <1>6, <1>7

LEMMA MoveStep ==
  ASSUME NEW t, NEW narray, NEW n, NEW K, NEW s, Resizes(t, narray, n, K, s),
         NEW w, NEW i \in 0..(Len(s) - 1), Moving(t, narray, n, K, s, w, i)
  PROVE  Moving(t, narray, n, K, s, Move(w, s[i + 1]), i + 1)
<1>1. PICK m : m = i + 1
  OBVIOUS
<1>2. Len(s) \in Nat /\ m \in 1..Len(s) /\ 1..m = (1..i) \cup {m} /\ m \notin 1..i
  BY <1>1, FieldIs
<1>3. Done(s, m) = Done(s, i) \cup (IF s[m][2] = Nil THEN {} ELSE {s[m][1]})
  BY <1>2 DEF Done
<1>4. CASE s[m][2] = Nil
  <2>1. Move(w, s[m]) = w /\ Done(s, m) = Done(s, i)
    BY <1>3, <1>4 DEF Move
  <2> QED BY <1>1, <2>1 DEF Moving
<1>5. CASE s[m][2] # Nil
  <2>1. PICK k : k = s[m][1]
    OBVIOUS
  <2>2. PICK v : v = s[m][2]
    OBVIOUS
  <2>3. k \in Keys /\ v = Get(t, k) /\ v \in Values /\ v # Nil /\ ~ (k \in Slots(narray) /\ InArray(t, k))
    BY <1>2, <1>5, <2>1, <2>2, FieldIs
  <2>4. PICK x : x = Store(InsertInRoom(w, k), k, v)
    OBVIOUS
  <2>5. Move(w, s[m]) = x
    BY <1>5, <2>1, <2>2, <2>4 DEF Move
  <2>6. /\ Sound(w) /\ NoneDead(w) /\ Size(w) = n /\ Len(w.array) = narray /\ KeysIn(w) \subseteq K
        /\ K \subseteq Keys /\ Cardinality(K) <= n
    BY DEF Moving, Resizes
  <2>7. ~ Holds(w, k) => k \in K
    <3>1. SUFFICES ASSUME ~ Holds(w, k) PROVE k \in K
      OBVIOUS
    <3>2. ~ InArray(w, k)
      BY <3>1 DEF Holds
    <3>3. k \notin Slots(narray)
      BY <2>6, <3>2 DEF InArray, Slots
    <3>4. k \in Beyond(t, narray)
      BY <2>3, <3>3 DEF Beyond, Present
    <3> QED BY <3>4 DEF Resizes
  <2>8. Holds(w, k) \/ HasRoom(w, k)
    <3>1. SUFFICES ASSUME ~ Holds(w, k) PROVE HasRoom(w, k)
      OBVIOUS
    <3>2. k \notin KeysIn(w)
      <4>1. SUFFICES ASSUME NEW p \in Keyed(w), w.node[p].key = k PROVE FALSE
        BY DEF KeysIn
      <4>2. p \in Live(w, k)
        BY <2>6, <4>1 DEF Live, Keyed, NoneDead
      <4> QED BY <2>3, <2>6, <3>1, <4>2, GetLive
    <3>3. Fits(w, K)
      BY <2>6 DEF Fits
    <3> QED BY <2>7, <3>1, <3>2, <3>3, RoomLeft
  <2>9. /\ Sound(x) /\ OneField(w, x, k, v) /\ Size(x) = n /\ Len(x.array) = narray /\ NoneDead(x)
        /\ KeysIn(x) \subseteq KeysIn(w) \cup (IF Holds(w, k) THEN {} ELSE {k})
    BY <2>3, <2>4, <2>6, <2>8, PutKeeps
  <2>10. KeysIn(x) \subseteq K
    BY <2>6, <2>7, <2>9
  <2>11. ASSUME NEW j \in Keys
         PROVE  Get(x, j) = IF j \in Done(s, m) \/ (j \in Slots(narray) /\ InArray(t, j)) THEN Get(t, j) ELSE Nil
    <3>1. Get(x, j) = IF j = k THEN v ELSE Get(w, j)
      BY <2>9 DEF OneField
    <3>2. Get(w, j) = IF j \in Done(s, i) \/ (j \in Slots(narray) /\ InArray(t, j)) THEN Get(t, j) ELSE Nil
      BY DEF Moving
    <3> QED BY <1>3, <1>5, <2>1, <2>3, <3>1, <3>2
  <2> QED BY <1>1, <2>5, <2>9, <2>10, <2>11 DEF Moving
<1> QED BY <1>4, <1>5

(* resize keeps every field, when there is a node for each that is not in the   *)
(* array part.                                                                  *)
Resized(t, u, narray, n, K) ==
  /\ Sound(u) /\ NoneDead(u) /\ Size(u) = n /\ Len(u.array) = narray /\ KeysIn(u) \subseteq K
  /\ \A j \in Keys : Get(u, j) = Get(t, j)

LEMMA ResizeKeeps ==
  ASSUME NEW t, Sound(t), NEW narray \in Nat, NEW nhash \in 0..MostNodes,
         NEW K, K \subseteq Keys, Cardinality(K) <= NodeSize(nhash), Beyond(t, narray) \subseteq K
  PROVE  Resized(t, Resize(t, narray, nhash), narray, NodeSize(nhash), K)
<1>1. PICK n : n = NodeSize(nhash)
  OBVIOUS
<1>2. PICK s : s = Moved(t, narray)
  OBVIOUS
<1>3. PICK b : b = Emptied(t, narray, n)
  OBVIOUS
<1>4. n \in Nat /\ n \in 0..MostNodes
  BY <1>1, NodeSizeIs, MostIs
<1>5. Resizes(t, narray, n, K, s)
  BY <1>1, <1>2, <1>4 DEF Resizes
<1>6. Len(s) \in Nat
  BY <1>5, FieldIs
<1> DEFINE with == CHOOSE f : f = [i \in 0..Len(s) |-> IF i = 0 THEN b ELSE Move(f[i - 1], s[i])]
<1>7. Resize(t, narray, nhash) = with[Len(s)]
  BY <1>1, <1>2, <1>3 DEF Resize
<1>8. Moves(s, with, b, Len(s))
  <2>1. PICK f : Moves(s, f, b, Len(s))
    BY <1>6, MovesExist
  <2> QED BY <2>1 DEF Moves
<1> HIDE DEF with
<1> DEFINE P == {i \in 0..Len(s) : Moving(t, narray, n, K, s, with[i], i)}
<1>9. 0 \in P
  <2>1. with[0] = b
    BY <1>6, <1>8 DEF Moves
  <2>2. Done(s, 0) = {}
    BY DEF Done
  <2>3. Moving(t, narray, n, K, s, b, 0)
    <3>1. /\ Sound(b) /\ NoneDead(b) /\ KeysIn(b) = {} /\ Size(b) = n /\ Len(b.array) = narray
          /\ \A j \in Keys : Get(b, j) = IF j \in Slots(narray) /\ InArray(t, j) THEN Get(t, j) ELSE Nil
      <4>1. StartOf(t, Emptied(t, narray, n), narray, n)
        BY <1>4, EmptiedIs
      <4> QED BY <1>3, <4>1 DEF StartOf
    <3>2. \A j : j \notin Done(s, 0)
      BY <2>2
    <3> QED BY <3>1, <3>2 DEF Moving
  <2> QED BY <1>6, <2>1, <2>3
<1>10. ASSUME NEW i \in 0..(Len(s) - 1), i \in P PROVE i + 1 \in P
  <2>1. i + 1 \in 0..Len(s)
    BY <1>6
  <2>2. with[i + 1] = Move(with[i], s[i + 1])
    <3>1. PICK k : k = i + 1
      OBVIOUS
    <3>2. k \in 0..Len(s) /\ k # 0 /\ k - 1 = i
      BY <1>6, <3>1
    <3>3. \A l \in 0..Len(s) : with[l] = IF l = 0 THEN b ELSE Move(with[l - 1], s[l])
      BY ONLY <1>8 DEF Moves
    <3>4. with[k] = Move(with[k - 1], s[k])
      BY ONLY <3>2, <3>3
    <3> QED BY ONLY <3>1, <3>2, <3>4
  <2>3. Moving(t, narray, n, K, s, with[i], i)
    BY <1>10
  <2>4. Moving(t, narray, n, K, s, with[i + 1], i + 1)
    BY <1>5, <2>2, <2>3, MoveStep
  <2> QED BY <2>1, <2>4
<1> HIDE DEF P
<1>11. Len(s) \in P
  <2>1. \A i \in 0..(Len(s) - 1) : i \in P => i + 1 \in P
    BY <1>10
  <2>2. \A i \in 0..Len(s) : i \in P
    BY ONLY <1>6, <1>9, <2>1, Induction
  <2> QED BY <1>6, <2>2
<1>12. Moving(t, narray, n, K, s, with[Len(s)], Len(s))
  BY <1>11 DEF P
<1>13. ASSUME NEW j \in Keys PROVE Get(with[Len(s)], j) = Get(t, j)
  <2>1. Get(with[Len(s)], j) = IF j \in Done(s, Len(s)) \/ (j \in Slots(narray) /\ InArray(t, j))
                               THEN Get(t, j) ELSE Nil
    BY <1>12 DEF Moving
  <2> QED BY <1>5, <2>1, FieldIs
<1>14. Resized(t, with[Len(s)], narray, n, K)
  BY <1>12, <1>13 DEF Moving, Resized
<1> QED BY <1>1, <1>7, <1>14

---------------------------------------------------------------------------
(* rehash and luaH_set.                                                         *)

LEMMA GetsNothing ==
  ASSUME NEW t, Sound(t), NoneDead(t), NEW k \in Keys, ~ Holds(t, k)
  PROVE  k \notin KeysIn(t)
<1>1. SUFFICES ASSUME NEW p \in Keyed(t), t.node[p].key = k PROVE FALSE
  BY DEF KeysIn
<1>2. p \in Live(t, k)
  BY <1>1 DEF Live, Keyed, NoneDead
<1> QED BY <1>2, GetLive

LEMMA RehashKeeps ==
  ASSUME NEW t, Sound(t), NEW k \in Keys
  PROVE  /\ Sound(Rehash(t, k)) /\ Size(Rehash(t, k)) <= MostNodes
         /\ \A j \in Keys : Get(Rehash(t, k), j) = Get(t, j)
         /\ Holds(Rehash(t, k), k) \/ HasRoom(Rehash(t, k), k)
<1>1. PICK used : used = Present(t) \cup {k}
  OBVIOUS
<1>2. PICK ints : ints = {i \in used \cap Ints : 0 < i /\ i <= 2^MaxBits}
  OBVIOUS
<1>3. PICK narray : narray = ArraySize(ints)
  OBVIOUS
<1>4. PICK low : low = {i \in ints : i <= narray}
  OBVIOUS
<1>5. PICK nhash : nhash = Cardinality(used) - Cardinality(low)
  OBVIOUS
<1>6. Rehash(t, k) = Resize(t, narray, nhash)
  BY <1>1, <1>2, <1>3, <1>4, <1>5 DEF Rehash
<1>7. narray \in 0..MostNodes /\ narray \in Nat /\ MostNodes \in Nat
  BY <1>3, ArraySizeIs, MostIs
<1>8. low = used \cap Slots(narray)
  <2>1. ASSUME NEW i \in Ints, i <= narray PROVE i <= 2^MaxBits
    <3>1. i \in Nat
      BY KeysAre
    <3>2. i <= MostNodes
      BY <1>7, <2>1, <3>1
    <3> QED BY <3>2 DEF MostNodes
  <2> QED BY <1>2, <1>4, <2>1 DEF Slots
<1>9. PICK K : K = used \ low
  OBVIOUS
<1>10. used \subseteq Keys /\ K \subseteq Keys /\ Beyond(t, narray) \subseteq K
  BY <1>1, <1>8, <1>9 DEF Present, Beyond
<1>11. IsFiniteSet(used) /\ Cardinality(K) \in Nat /\ Cardinality(K) <= MostNodes
  BY <1>10, FiniteKeys
<1>12. Cardinality(K) = nhash
  <2>1. Cardinality(used \ low) = Cardinality(used) - Cardinality(used \cap low)
    BY ONLY <1>11, FS_Difference
  <2>2. used \cap low = low
    BY <1>8
  <2> QED BY <1>5, <1>9, <2>1, <2>2
<1>13. nhash \in 0..MostNodes
  BY <1>7, <1>11, <1>12
<1>14. NodeSize(nhash) \in 0..MostNodes /\ Cardinality(K) <= NodeSize(nhash)
  BY <1>12, <1>13, NodeSizeIs
<1>15. PICK u : u = Rehash(t, k)
  OBVIOUS
<1>16. Resized(t, u, narray, NodeSize(nhash), K)
  BY <1>6, <1>7, <1>10, <1>13, <1>14, <1>15, ResizeKeeps
<1>17. /\ Sound(u) /\ NoneDead(u) /\ Size(u) = NodeSize(nhash) /\ Len(u.array) = narray /\ KeysIn(u) \subseteq K
       /\ \A j \in Keys : Get(u, j) = Get(t, j)
  BY <1>16 DEF Resized
<1>18. Size(u) <= MostNodes
  BY <1>7, <1>14, <1>17
<1>19. Holds(u, k) \/ HasRoom(u, k)
  <2>1. SUFFICES ASSUME ~ Holds(u, k) PROVE HasRoom(u, k)
    OBVIOUS
  <2>2. k \notin Slots(narray)
    BY <1>17, <2>1 DEF Holds, InArray, Slots
  <2>3. k \in K
    BY <1>1, <1>8, <1>9, <2>2
  <2>4. k \notin KeysIn(u)
    BY <1>17, <2>1, GetsNothing
  <2>5. Fits(u, K)
    BY <1>10, <1>14, <1>17 DEF Fits
  <2> QED BY <2>3, <2>4, <2>5, RoomLeft
<1> QED BY <1>15, <1>17, <1>18, <1>19

(* luaH_set and the assignment that follows it.                                 *)
Assigned(t, u, k, v) ==
  /\ Sound(u) /\ Size(u) <= MostNodes /\ OneField(t, u, k, v)
  /\ Holds(t, k) => SameLinks(t, u)

LEMMA AssignKeeps ==
  ASSUME NEW t, Sound(t), Size(t) <= MostNodes, NEW k \in Keys, NEW v \in Values \cup {Nil}
  PROVE  Assigned(t, Store(Insert(t, k), k, v), k, v)
<1>1. PICK w : w = IF Holds(t, k) \/ HasRoom(t, k) THEN t ELSE Rehash(t, k)
  OBVIOUS
<1>2. Insert(t, k) = InsertInRoom(w, k)
  BY <1>1 DEF Insert
<1>3. /\ Sound(w) /\ Size(w) <= MostNodes /\ \A j \in Keys : Get(w, j) = Get(t, j)
      /\ Holds(w, k) \/ HasRoom(w, k)
      /\ Holds(t, k) => w = t
  <2>1. CASE Holds(t, k) \/ HasRoom(t, k)
    BY <1>1, <2>1
  <2>2. CASE ~ (Holds(t, k) \/ HasRoom(t, k))
    BY <1>1, <2>2, RehashKeeps
  <2> QED BY <2>1, <2>2
<1>4. PICK u : u = Store(InsertInRoom(w, k), k, v)
  OBVIOUS
<1>5. Sound(u) /\ OneField(w, u, k, v) /\ Size(u) = Size(w) /\ (Holds(w, k) => SameLinks(w, u))
  BY <1>3, <1>4, PutKeeps
<1>6. Assigned(t, u, k, v)
  BY <1>3, <1>5 DEF Assigned, OneField
<1> QED BY <1>2, <1>4, <1>6

(* The positional fields of a constructor.                                      *)
Sets(new, f, b, n) == f = [i \in 0..n |-> IF i = 0 THEN b
                           ELSE LET k == n + 1 - i IN Store(Insert(f[i - 1], k), k, new[k])]
SetsTo(new, f, b, n, l) == f = [i \in 0..l |-> IF i = 0 THEN b
                                ELSE LET k == n + 1 - i IN Store(Insert(f[i - 1], k), k, new[k])]

LEMMA SetsExist ==
  ASSUME NEW new, NEW b, NEW n \in Nat
  PROVE  \E f : Sets(new, f, b, n)
<1> DEFINE P == {m \in 0..n : \E f : SetsTo(new, f, b, n, m)}
<1>1. 0 \in P
  <2>1. PICK f : f = [i \in 0..0 |-> b]
    OBVIOUS
  <2>2. SetsTo(new, f, b, n, 0)
    BY <2>1 DEF SetsTo
  <2> QED BY <2>2
<1>2. ASSUME NEW m \in 0..(n - 1), m \in P PROVE m + 1 \in P
  <2>1. PICK f : SetsTo(new, f, b, n, m)
    BY <1>2
  <2> DEFINE step(w, i) == LET k == n + 1 - i IN Store(Insert(w, k), k, new[k])
  <2>2. PICK v : v = step(f[m], m + 1)
    OBVIOUS
  <2>3. PICK g : g = [i \in 0..(m + 1) |-> IF i = m + 1 THEN v ELSE f[i]]
    OBVIOUS
  <2>4. \A i \in 0..m : f[i] = IF i = 0 THEN b ELSE step(f[i - 1], i)
    BY <2>1 DEF SetsTo
  <2>5. \A h : SetsTo(new, h, b, n, m + 1) <=> h = [i \in 0..(m + 1) |-> IF i = 0 THEN b ELSE step(h[i - 1], i)]
    BY DEF SetsTo
  <2> HIDE DEF step
  <2>6. ASSUME NEW i \in 0..(m + 1)
        PROVE  g[i] = IF i = 0 THEN b ELSE step(g[i - 1], i)
    <3>1. CASE i = m + 1
      <4>1. i # 0 /\ i - 1 \in 0..(m + 1) /\ i - 1 # m + 1 /\ i - 1 = m
        BY <3>1
      <4> QED BY <2>2, <2>3, <3>1, <4>1
    <3>2. CASE i # m + 1
      <4>1. i \in 0..m /\ (i # 0 => i - 1 \in 0..(m + 1) /\ i - 1 # m + 1)
        BY <3>2
      <4>2. f[i] = IF i = 0 THEN b ELSE step(f[i - 1], i)
        BY <2>4, <4>1
      <4> QED BY <2>3, <3>2, <4>1, <4>2
    <3> QED BY <3>1, <3>2
  <2>7. SetsTo(new, g, b, n, m + 1)
    <3>1. g = [i \in 0..(m + 1) |-> g[i]]
      BY <2>3
    <3> QED BY <2>5, <2>6, <3>1
  <2> QED BY <2>7
<1> HIDE DEF P
<1>3. n \in P
  <2>1. \A m \in 0..(n - 1) : m \in P => m + 1 \in P
    BY <1>2
  <2> QED BY <1>1, <2>1, Induction
<1> QED BY <1>3 DEF P, Sets, SetsTo

OthersKept(t, u, n) == /\ Sound(u) /\ Size(u) <= MostNodes
                       /\ \A j \in Keys : ~ (j \in 1..n) => Get(u, j) = Get(t, j)

LEMMA SetsKeep ==
  ASSUME NEW t, NEW b, NEW n \in Nat, 1..n \subseteq Ints, NEW new \in [1..n -> Values \cup {Nil}],
         OthersKept(t, b, n), NEW f, Sets(new, f, b, n)
  PROVE  OthersKept(t, f[n], n)
<1> DEFINE P == {i \in 0..n : OthersKept(t, f[i], n)}
<1>1. \A i \in 0..n : f[i] = IF i = 0 THEN b ELSE LET k == n + 1 - i IN Store(Insert(f[i - 1], k), k, new[k])
  BY DEF Sets
<1>2. 0 \in P
  BY <1>1
<1>3. ASSUME NEW i \in 0..(n - 1), i \in P PROVE i + 1 \in P
  <2>1. PICK l : l = i + 1
    OBVIOUS
  <2>2. PICK k : k = n + 1 - l
    OBVIOUS
  <2>3. l \in 0..n /\ l # 0 /\ l - 1 = i /\ k \in 1..n
    BY <2>1, <2>2
  <2>4. f[l] = Store(Insert(f[i], k), k, new[k])
    BY <1>1, <2>2, <2>3
  <2>5. k \in Keys /\ new[k] \in Values \cup {Nil}
    BY <2>3, KeysAre
  <2>6. Sound(f[i]) /\ Size(f[i]) <= MostNodes /\ \A j \in Keys : ~ (j \in 1..n) => Get(f[i], j) = Get(t, j)
    BY <1>3 DEF OthersKept
  <2>7. Assigned(f[i], f[l], k, new[k])
    BY <2>4, <2>5, <2>6, AssignKeeps
  <2>8. OthersKept(t, f[l], n)
    BY <2>3, <2>6, <2>7 DEF OthersKept, Assigned, OneField
  <2> QED BY <2>1, <2>3, <2>8
<1> HIDE DEF P
<1>4. n \in P
  <2>1. PICK T : T = P
    OBVIOUS
  <2>2. \A m \in 0..(n - 1) : m \in T => m + 1 \in T
    BY <1>3, <2>1
  <2>3. 0 \in T
    BY <1>2, <2>1
  <2>4. n \in T
    <3>1. \A m \in 0..n : m \in T
      BY ONLY n \in Nat, <2>2, <2>3, Induction
    <3> QED BY <3>1
  <2> QED BY <2>1, <2>4
<1> QED BY <1>4 DEF P

(* A key that is not in the array part has a node of its own.                   *)
LEMMA NodesCounted ==
  ASSUME NEW t, Sound(t), NEW K, K \subseteq Keys, \A k \in K : Live(t, k) # {}
  PROVE  Cardinality(K) <= Size(t)
<1>1. PICK f : f = [k \in K |-> Find(t, k)]
  OBVIOUS
<1>2. \A k \in K : f[k] \in Nodes(t) /\ t.node[f[k]].key = k
  <2>1. SUFFICES ASSUME NEW k \in K PROVE f[k] \in Nodes(t) /\ t.node[f[k]].key = k
    OBVIOUS
  <2>2. PICK p : p \in Live(t, k)
    OBVIOUS
  <2>3. Find(t, k) = p
    BY <2>2, GetLive
  <2> QED BY <1>1, <2>2, <2>3 DEF Live
<1>3. f \in [K -> Nodes(t)] /\ \A a, b \in K : f[a] = f[b] => a = b
  <2>1. f \in [K -> Nodes(t)]
    BY <1>1, <1>2
  <2> QED BY <1>2, <2>1
<1>4. f \in Injection(K, Nodes(t))
  BY ONLY <1>3, Fun_IsInj
<1>5. Size(t) \in Nat
  BY NodeFacts DEF Sound
<1>6. IsFiniteSet(Nodes(t)) /\ Cardinality(Nodes(t)) = Size(t)
  <2>1. Size(t) \in Int /\ 1 \in Int
    BY <1>5
  <2>2. IsFiniteSet(1..Size(t)) /\ Cardinality(1..Size(t)) = IF 1 > Size(t) THEN 0 ELSE Size(t) - 1 + 1
    BY ONLY <2>1, FS_Interval
  <2> QED BY <1>5, <2>2 DEF Nodes
<1>7. Cardinality(K) <= Cardinality(Nodes(t))
  BY ONLY <1>4, <1>6, FS_Injection
<1> QED BY <1>6, <1>7

LEMMA GrowKeeps ==
  ASSUME NEW t, Sound(t), Size(t) <= MostNodes, NEW n \in Nat, n > Len(t.array)
  PROVE  OthersKept(t, Resize(t, n, Size(t)), n)
<1>1. PICK K : K = Beyond(t, n)
  OBVIOUS
<1>2. K \subseteq Keys /\ \A k \in K : Live(t, k) # {}
  <2>1. SUFFICES ASSUME NEW k \in K PROVE k \in Keys /\ Live(t, k) # {}
    OBVIOUS
  <2>2. k \in Keys /\ Get(t, k) # Nil /\ k \notin Slots(n)
    BY <1>1 DEF Beyond, Present
  <2>3. ~ InArray(t, k)
    <3>1. Len(t.array) \in Nat
      BY NodeFacts DEF Sound
    <3>2. ASSUME InArray(t, k) PROVE FALSE
      <4>1. k \in Nat /\ k \in Ints /\ 0 < k /\ k <= Len(t.array)
        BY <3>2, KeysAre DEF InArray
      <4> QED BY <2>2, <3>1, <4>1 DEF Slots
    <3> QED BY <3>2
  <2> QED BY <2>2, <2>3, GetNone
<1>3. Cardinality(K) <= Size(t) /\ Cardinality(K) \in Nat
  BY <1>2, NodesCounted, FiniteKeys
<1>4. Size(t) \in 0..MostNodes
  BY MostIs, NodeFacts DEF Sound
<1>5. NodeSize(Size(t)) \in 0..MostNodes /\ Size(t) <= NodeSize(Size(t)) /\ MostNodes \in Nat
  BY <1>4, NodeSizeIs, MostIs
<1>6. Cardinality(K) <= NodeSize(Size(t))
  BY <1>3, <1>4, <1>5
<1>7. Resized(t, Resize(t, n, Size(t)), n, NodeSize(Size(t)), K)
  BY <1>1, <1>2, <1>4, <1>6, ResizeKeeps
<1> QED BY <1>5, <1>7 DEF Resized, OthersKept

LEMMA NewKeeps ==
  ASSUME NEW narray \in Nat, NEW nhash \in 0..MostNodes
  PROVE  /\ Sound(NewTable(narray, nhash)) /\ Size(NewTable(narray, nhash)) <= MostNodes
         /\ \A j \in Keys : Get(NewTable(narray, nhash), j) = Nil
<1>1. PICK e : e = [array |-> <<>>, node |-> <<>>, free |-> 1]
  OBVIOUS
<1>2. PICK u : u = NewTable(narray, nhash)
  OBVIOUS
<1>3. u = Resize(e, narray, nhash)
  BY <1>1, <1>2 DEF NewTable
<1>4. e.array = <<>> /\ e.node = <<>> /\ e.free = 1 /\ Size(e) = 0 /\ Nodes(e) = {} /\ Len(e.array) = 0
  BY <1>1 DEF Size, Nodes
<1>5. TableType(e)
  <2>1. <<>> \in Seq(Values \cup {Nil}) /\ <<>> \in Seq(NodeRecords(0)) /\ 1 \in 1..0 + 1
    OBVIOUS
  <2> QED BY <1>1, <1>4, <2>1 DEF TableType
<1>6. KeysAndValues(e) /\ OneBefore(e) /\ AtHome(e) /\ OneLive(e) /\ ArrayOfInts(e)
  BY <1>4 DEF KeysAndValues, OneBefore, AtHome, OneLive, ArrayOfInts, Keyed
<1>7. NoCycle(e)
  <2>1. PICK rank : rank = [p \in 1..0 |-> 0]
    OBVIOUS
  <2>2. Falls(Nexts(e), Size(e), rank)
    BY <1>4, <2>1 DEF Falls, Nexts
  <2> QED BY <2>2 DEF NoCycle
<1>8. Sound(e)
  BY <1>5, <1>6, <1>7 DEF Sound
<1>9. \A j \in Keys : Get(e, j) = Nil
  <2>1. SUFFICES ASSUME NEW j \in Keys PROVE Get(e, j) = Nil
    OBVIOUS
  <2>2. Live(e, j) = {}
    BY <1>4 DEF Live
  <2>3. ~ InArray(e, j)
    <3>1. j \in Ints => j \in Nat
      BY KeysAre
    <3> QED BY <1>4, <3>1 DEF InArray
  <2> QED BY <1>8, <2>2, <2>3, GetNone
<1>10. Beyond(e, narray) = {}
  BY <1>9 DEF Beyond, Present
<1>11. NodeSize(nhash) \in 0..MostNodes /\ MostNodes \in Nat
  BY NodeSizeIs, MostIs
<1>12. Cardinality({}) = 0
  BY FS_EmptySet
<1>13. Resized(e, u, narray, NodeSize(nhash), {})
  <2>1. {} \subseteq Keys /\ Cardinality({}) <= NodeSize(nhash) /\ Beyond(e, narray) \subseteq {}
    BY <1>10, <1>11, <1>12
  <2> QED BY <1>3, <1>8, <2>1, ResizeKeeps
<1> QED BY <1>2, <1>9, <1>11, <1>13 DEF Resized

---------------------------------------------------------------------------
(* findindex and what luaH_next returns.                                        *)

LEMMA FirstSame ==
  ASSUME NEW t, Sound(t), NEW u, Sound(u), SameLinks(t, u), NEW k \in Keys, NEW M, M \subseteq Nodes(t)
  PROVE  First(u, k, M) = First(t, k, M)
<1>1. /\ Nodes(u) = Nodes(t) /\ Nexts(u) = Nexts(t) /\ Size(u) = Size(t)
      /\ MainPosition(u, k) = MainPosition(t, k) /\ \A p : ChainAt(u, p) = ChainAt(t, p)
  BY LinksAre DEF SameLinks
<1>2. CASE Size(t) = 0
  BY <1>1, <1>2 DEF First
<1>3. CASE Size(t) # 0
  <2>1. PICK p : p = First(t, k, M)
    OBVIOUS
  <2>2. PICK q : q = First(u, k, M)
    OBVIOUS
  <2>3. PICK nx : nx = Nexts(t)
    OBVIOUS
  <2>4. PICK n : n = Size(t)
    OBVIOUS
  <2>5. PICK m : m = MainPosition(t, k)
    OBVIOUS
  <2>6. PICK rank : Falls(nx, n, rank)
    BY <2>3, <2>4 DEF Sound, NoCycle
  <2>7. Links(nx, n) /\ m \in 1..n /\ n \in Nat /\ Nodes(t) = 1..n
    BY <1>3, <2>3, <2>4, <2>5, NextsLink, NodeFacts, MainPositionIn DEF Nodes, Sound
  <2>8. (p = 0 /\ M \cap Chain(nx, n, m) = {}) \/ (p \in 1..n /\ IsFirst(nx, n, M, m, p))
    BY <1>3, <2>1, <2>3, <2>4, <2>5, <2>7, FirstFinds DEF Sound, ChainAt
  <2>9. (q = 0 /\ M \cap Chain(nx, n, m) = {}) \/ (q \in 1..n /\ IsFirst(nx, n, M, m, q))
    <3>1. Size(u) # 0 /\ M \subseteq Nodes(u) /\ TableType(u) /\ NoCycle(u)
      BY <1>1, <1>3 DEF Sound
    <3>2. \/ q = 0 /\ M \cap ChainAt(u, MainPosition(u, k)) = {}
          \/ q \in Nodes(u) /\ IsFirst(Nexts(u), Size(u), M, MainPosition(u, k), q)
      BY <2>2, <3>1, FirstFinds
    <3> QED BY <1>1, <2>3, <2>4, <2>5, <2>7, <3>2 DEF ChainAt
  <2>10. p = q
    BY ONLY <2>6, <2>7, <2>8, <2>9, ChainOneWay DEF IsFirst
  <2> QED BY <2>1, <2>2, <2>10
<1> QED BY <1>2, <1>3

LEMMA FindIndexIs ==
  ASSUME NEW t, NEW k \in Keys
  PROVE  FindIndex(t, k) = IF InArray(t, k) THEN k
                           ELSE IF First(t, k, AnyOf(t, k)) = 0 THEN -1
                           ELSE Len(t.array) + First(t, k, AnyOf(t, k))
BY KeysAre DEF FindIndex, AnyOf, Nodes

LEMMA FindIndexSame ==
  ASSUME NEW t, Sound(t), NEW u, Sound(u), SameLinks(t, u), NEW k \in Keys
  PROVE  FindIndex(u, k) = FindIndex(t, k)
<1>1. AnyOf(u, k) = AnyOf(t, k) /\ AnyOf(t, k) \subseteq Nodes(t) /\ Len(u.array) = Len(t.array)
  BY LinksAre DEF SameLinks, AnyOf
<1>2. First(u, k, AnyOf(u, k)) = First(t, k, AnyOf(t, k))
  BY <1>1, FirstSame
<1>3. InArray(u, k) = InArray(t, k)
  BY LinksAre
<1> QED BY <1>1, <1>2, <1>3, FindIndexIs

Indices(t) == 1..Len(t.array) + Size(t)

(* A field with a value is where findindex says.                                *)
LEMMA IndexOf ==
  ASSUME NEW t, Sound(t), NEW k \in Keys, Get(t, k) # Nil
  PROVE  FindIndex(t, k) \in Indices(t) /\ KeyAt(t, FindIndex(t, k)) = k
         /\ ValueAt(t, FindIndex(t, k)) = Get(t, k)
<1>1. PICK i : i = FindIndex(t, k)
  OBVIOUS
<1>2. PICK a : a = Len(t.array)
  OBVIOUS
<1>3. PICK n : n = Size(t)
  OBVIOUS
<1>4. a \in Nat /\ n \in Nat
  BY <1>2, <1>3, NodeFacts DEF Sound
<1>5. CASE InArray(t, k)
  <2>1. i = k /\ k \in 1..a
    BY <1>1, <1>2, <1>5, FindIndexIs, KeysAre DEF InArray
  <2>2. i \in 1..a + n /\ i <= a
    BY <1>4, <2>1
  <2>3. KeyAt(t, i) = k /\ ValueAt(t, i) = Get(t, k)
    BY <1>2, <1>5, <2>1, <2>2 DEF KeyAt, ValueAt, Get
  <2> QED BY <1>1, <1>2, <1>3, <2>2, <2>3 DEF Indices
<1>6. CASE ~ InArray(t, k)
  <2>1. PICK p : p \in Live(t, k)
    BY <1>6, GetNone
  <2>2. Find(t, k) = p /\ p \in Nodes(t) /\ Get(t, k) = t.node[p].val /\ t.node[p].key = k
    BY <2>1, GetLive DEF Live
  <2>3. p \in 1..n
    BY <1>3, <2>2 DEF Nodes
  <2>4. i = a + p
    BY <1>1, <1>2, <1>4, <1>6, <2>2, <2>3, FindIndexFinds
  <2>5. i \in 1..a + n /\ ~ (i <= a) /\ i - a = p
    BY <1>4, <2>3, <2>4
  <2>6. KeyAt(t, i) = k /\ ValueAt(t, i) = Get(t, k)
    BY <1>2, <2>2, <2>5 DEF KeyAt, ValueAt
  <2> QED BY <1>1, <1>2, <1>3, <2>5, <2>6 DEF Indices
<1> QED BY <1>5, <1>6

(* Where there is a value, there is a key, and findindex finds it there.        *)
LEMMA FieldAt ==
  ASSUME NEW t, Sound(t), NEW i \in Indices(t), ValueAt(t, i) # Nil
  PROVE  KeyAt(t, i) \in Keys /\ FindIndex(t, KeyAt(t, i)) = i /\ Get(t, KeyAt(t, i)) # Nil
<1>1. PICK k : k = KeyAt(t, i)
  OBVIOUS
<1>2. PICK a : a = Len(t.array)
  OBVIOUS
<1>3. PICK n : n = Size(t)
  OBVIOUS
<1>4. a \in Nat /\ n \in Nat /\ i \in 1..a + n
  BY <1>2, <1>3, NodeFacts DEF Sound, Indices
<1>5. CASE i <= a
  <2>1. k = i /\ i \in 1..a
    BY <1>1, <1>2, <1>4, <1>5 DEF KeyAt
  <2>2. t.array[i] # Nil
    BY <1>2, <1>5 DEF ValueAt
  <2>3. k \in Ints /\ k \in Keys
    BY <1>2, <2>1, <2>2, KeysAre DEF Sound, ArrayOfInts
  <2>4. InArray(t, k)
    BY <1>2, <1>4, <2>1, <2>3 DEF InArray
  <2> QED BY <1>1, <2>1, <2>2, <2>3, <2>4, FindIndexIs DEF Get
<1>6. CASE ~ (i <= a)
  <2>1. PICK p : p = i - a
    OBVIOUS
  <2>2. p \in 1..n /\ i = a + p
    BY <1>4, <1>6, <2>1
  <2>3. k = t.node[p].key /\ t.node[p].val # Nil /\ p \in Nodes(t)
    BY <1>1, <1>2, <1>3, <1>6, <2>1, <2>2 DEF KeyAt, ValueAt, Nodes
  <2>4. k \in Keys /\ ~ t.node[p].dead
    BY <2>3, NodeFacts DEF Sound, KeysAndValues
  <2>5. p \in Live(t, k)
    BY <2>3, <2>4 DEF Live
  <2>6. ~ InArray(t, k) /\ Find(t, k) = p /\ Get(t, k) = t.node[p].val
    BY <2>4, <2>5, GetLive
  <2>7. FindIndex(t, k) = a + p
    BY <1>2, <2>2, <2>4, <2>6, FindIndexFinds
  <2> QED BY <1>1, <2>2, <2>3, <2>4, <2>6, <2>7
<1> QED BY <1>5, <1>6

LEMMA FindIndexType ==
  ASSUME NEW t, Sound(t), NEW k \in Keys \cup {Nil}, FindIndex(t, k) >= 0
  PROVE  FindIndex(t, k) \in Nat
<1>1. CASE k = Nil
  BY <1>1 DEF FindIndex
<1>2. CASE k # Nil /\ InArray(t, k)
  BY <1>2, FindIndexIs, KeysAre DEF InArray
<1>3. CASE k # Nil /\ ~ InArray(t, k)
  <2>1. PICK p : p = First(t, k, AnyOf(t, k))
    OBVIOUS
  <2>2. FindIndex(t, k) = IF p = 0 THEN -1 ELSE Len(t.array) + p
    BY <1>3, <2>1, FindIndexIs
  <2>3. p \in Nat
    <3>1. CASE Size(t) = 0
      BY <2>1, <3>1 DEF First
    <3>2. CASE Size(t) # 0
      <4>1. AnyOf(t, k) \subseteq Nodes(t) /\ k \in Keys /\ TableType(t) /\ NoCycle(t)
        BY <1>3 DEF AnyOf, Sound
      <4>2. p = 0 \/ p \in Nodes(t)
        BY <2>1, <3>2, <4>1, FirstFinds
      <4> QED BY <4>2, NodeFacts DEF Nodes, Sound
    <3> QED BY <3>1, <3>2
  <2>4. Len(t.array) \in Nat
    BY NodeFacts DEF Sound
  <2>5. p # 0
    BY <2>2
  <2>6. FindIndex(t, k) = Len(t.array) + p
    BY SMTT(30), <2>2, <2>5
  <2> QED BY <2>3, <2>4, <2>6
<1> QED BY <1>1, <1>2, <1>3

---------------------------------------------------------------------------
(* What the collector does to a table.                                          *)

Cleared(t, u, S) ==
  /\ TableType(u) /\ SameLinks(t, u)
  /\ \A i \in 1..Len(t.array) : u.array[i] = IF i \in S THEN Nil ELSE t.array[i]
  /\ \A p \in Nodes(t) :
       LET v == IF t.node[p].key \in S /\ ~ t.node[p].dead THEN Nil ELSE t.node[p].val
       IN  /\ u.node[p].val = v
           /\ u.node[p].dead = (t.node[p].dead \/ (v = Nil /\ t.node[p].key \in Collectable))

LEMMA CollectClears ==
  ASSUME NEW t, Sound(t), NEW S, NEW u,
         u = [array |-> [i \in 1..Len(t.array) |-> IF i \in S THEN Nil ELSE t.array[i]],
              node  |-> [p \in 1..Size(t) |->
                LET n == t.node[p]
                    v == IF n.key \in S /\ ~n.dead THEN Nil ELSE n.val
                IN  [key |-> n.key, dead |-> n.dead \/ (v = Nil /\ n.key \in Collectable),
                     val |-> v, next |-> n.next]],
              free  |-> t.free]
  PROVE  Cleared(t, u, S)
<1>1. /\ Size(t) \in Nat /\ Len(t.array) \in Nat /\ t.free \in 1..Size(t) + 1 /\ Nodes(t) = 1..Size(t)
      /\ \A i \in 1..Len(t.array) : t.array[i] \in Values \cup {Nil}
      /\ \A p \in Nodes(t) : /\ t.node[p].key \in Keys \cup {Nil} /\ t.node[p].dead \in BOOLEAN
                             /\ t.node[p].val \in Values \cup {Nil} /\ t.node[p].next \in 0..Size(t)
  BY NodeFacts, TableParts DEF Sound, Nodes
<1>2. PICK a : a = [i \in 1..Len(t.array) |-> IF i \in S THEN Nil ELSE t.array[i]]
  OBVIOUS
<1>3. PICK val : val = [p \in 1..Size(t) |-> IF t.node[p].key \in S /\ ~ t.node[p].dead THEN Nil ELSE t.node[p].val]
  OBVIOUS
<1>4. PICK dead : dead = [p \in 1..Size(t) |-> t.node[p].dead \/ (val[p] = Nil /\ t.node[p].key \in Collectable)]
  OBVIOUS
<1>5. PICK f : f = [p \in 1..Size(t) |-> [key |-> t.node[p].key, dead |-> dead[p], val |-> val[p],
                                          next |-> t.node[p].next]]
  OBVIOUS
<1>6. u = [array |-> a, node |-> f, free |-> t.free]
  BY <1>2, <1>3, <1>4, <1>5
<1>7. a \in Seq(Values \cup {Nil}) /\ Len(a) = Len(t.array)
  <2>1. a \in [1..Len(t.array) -> Values \cup {Nil}]
    BY <1>1, <1>2
  <2> QED BY <1>1, <2>1, MakeSeq
<1>8. \A p \in 1..Size(t) : val[p] \in Values \cup {Nil} /\ dead[p] \in BOOLEAN
  <2>1. \A p \in 1..Size(t) : val[p] \in Values \cup {Nil}
    BY <1>1, <1>3
  <2>2. \A p \in 1..Size(t) : dead[p] \in BOOLEAN
    BY <1>1, <1>4
  <2> QED BY <2>1, <2>2
<1>9. f \in [1..Size(t) -> NodeRecords(Size(t))]
  BY <1>1, <1>5, <1>8 DEF NodeRecords
<1>10. TableType(u) /\ Size(u) = Size(t)
  <2>1. /\ TableType([array |-> a, node |-> f, free |-> t.free])
        /\ Size([array |-> a, node |-> f, free |-> t.free]) = Size(t)
    <3>1. t.free \in 1..Size(t) + 1 /\ Size(t) \in Nat
      BY ONLY <1>1
    <3>2. PICK x, k : x = t.free /\ k = Size(t)
      OBVIOUS
    <3>3. x \in 1..k + 1 /\ k \in Nat /\ a \in Seq(Values \cup {Nil}) /\ f \in [1..k -> NodeRecords(k)]
      BY ONLY <1>7, <1>9, <3>1, <3>2
    <3>4. /\ TableType([array |-> a, node |-> f, free |-> x])
          /\ Size([array |-> a, node |-> f, free |-> x]) = k
      BY ONLY <3>3, MakeTable
    <3> QED BY ONLY <3>2, <3>4
  <2> QED BY ONLY <1>6, <2>1
<1>11. \A p \in Nodes(t) : /\ u.node[p].key = t.node[p].key /\ u.node[p].next = t.node[p].next
                           /\ u.node[p].val = val[p] /\ u.node[p].dead = dead[p]
  BY <1>1, <1>5, <1>6
<1>12. SameLinks(t, u)
  <2>1. u.array = a /\ u.free = t.free
    BY ONLY <1>6
  <2>2. Size(u) = Size(t) /\ Len(u.array) = Len(t.array)
    BY ONLY <1>7, <1>10, <2>1
  <2>3. \A p \in Nodes(t) : u.node[p].key = t.node[p].key /\ u.node[p].next = t.node[p].next
    BY ONLY <1>11
  <2> QED BY ONLY <2>1, <2>2, <2>3 DEF SameLinks
<1>13. \A i \in 1..Len(t.array) : u.array[i] = IF i \in S THEN Nil ELSE t.array[i]
  BY <1>2, <1>6
<1> QED BY <1>1, <1>3, <1>4, <1>10, <1>11, <1>12, <1>13 DEF Cleared

LEMMA ClearedSound ==
  ASSUME NEW t, Sound(t), NEW S, S \subseteq Keys, NEW u, Cleared(t, u, S)
  PROVE  Sound(u)
<1>1. TableType(u) /\ SameLinks(t, u)
  BY DEF Cleared
<1>2. ArrayOfInts(u)
  BY DEF Cleared, SameLinks, Sound, ArrayOfInts
<1>3. Nil \notin S /\ Nil \notin Collectable
  BY KeysAre, TableAssumption DEF Keys
<1>4. ASSUME NEW p \in Nodes(t)
      PROVE  /\ u.node[p].dead => u.node[p].val = Nil
             /\ u.node[p].key = Nil => u.node[p].val = Nil /\ ~ u.node[p].dead
             /\ t.node[p].dead => u.node[p].dead
  <2>1. u.node[p].key = t.node[p].key
    BY <1>1 DEF SameLinks
  <2>2. /\ t.node[p].dead => t.node[p].val = Nil
        /\ t.node[p].key = Nil => t.node[p].val = Nil /\ ~ t.node[p].dead
    BY DEF Sound, KeysAndValues
  <2>3. /\ u.node[p].val = IF t.node[p].key \in S /\ ~ t.node[p].dead THEN Nil ELSE t.node[p].val
        /\ u.node[p].dead = (t.node[p].dead \/ (u.node[p].val = Nil /\ t.node[p].key \in Collectable))
    BY DEF Cleared
  <2> QED BY <1>3, <2>1, <2>2, <2>3
<1> QED BY <1>1, <1>2, <1>4, SameSound

LEMMA ClearedGets ==
  ASSUME NEW t, Sound(t), NEW S, S \subseteq Keys, NEW u, Cleared(t, u, S), NEW j \in Keys
  PROVE  Get(u, j) = IF j \in S THEN Nil ELSE Get(t, j)
<1>1. Sound(u) /\ SameLinks(t, u) /\ Nodes(u) = Nodes(t) /\ InArray(u, j) = InArray(t, j)
  BY ClearedSound, LinksAre DEF Cleared
<1>2. CASE InArray(t, j)
  <2>1. j \in 1..Len(t.array)
    BY <1>2, NodeFacts, KeysAre DEF InArray, Sound
  <2>2. u.array[j] = IF j \in S THEN Nil ELSE t.array[j]
    BY <2>1 DEF Cleared
  <2> QED BY <1>1, <1>2, <2>2 DEF Get
<1>3. CASE ~ InArray(t, j)
  <2>1. ASSUME NEW p \in Nodes(t)
        PROVE  /\ u.node[p].key = t.node[p].key
               /\ u.node[p].val = IF t.node[p].key \in S /\ ~ t.node[p].dead THEN Nil ELSE t.node[p].val
               /\ u.node[p].dead = (t.node[p].dead \/ (u.node[p].val = Nil /\ t.node[p].key \in Collectable))
    BY DEF Cleared, SameLinks
  <2>2. Live(u, j) \subseteq Live(t, j)
    BY <1>1, <2>1 DEF Live
  <2>3. CASE Live(t, j) = {}
    BY <1>1, <1>3, <2>2, <2>3, GetNone
  <2>4. CASE Live(t, j) # {}
    <3>1. PICK p : p \in Live(t, j)
      BY <2>4
    <3>2. p \in Nodes(t) /\ Get(t, j) = t.node[p].val /\ Live(t, j) = {p} /\ t.node[p].key = j /\ ~ t.node[p].dead
      BY <3>1, GetLive DEF Live
    <3>3. u.node[p].val = IF j \in S THEN Nil ELSE Get(t, j)
      BY <2>1, <3>2
    <3>4. CASE u.node[p].dead
      <4>1. u.node[p].val = Nil
        BY <2>1, <3>2, <3>4
      <4>2. Live(u, j) = {}
        BY <2>2, <3>2, <3>4 DEF Live
      <4> QED BY <1>1, <1>3, <3>3, <4>1, <4>2, GetNone
    <3>5. CASE ~ u.node[p].dead
      <4>1. p \in Live(u, j)
        BY <1>1, <2>1, <3>2, <3>5 DEF Live
      <4> QED BY <1>1, <3>3, <4>1, GetLive
    <3> QED BY <3>4, <3>5
  <2> QED BY <2>3, <2>4
<1> QED BY <1>2, <1>3

---------------------------------------------------------------------------
(* The invariant.                                                               *)

LEMMA SizesAre == 2^MaxBits = MostNodes
BY DEF MostNodes

LEMMA InitInvariant ==
  ASSUME Init
  PROVE  TableInvariant
<1>1. PICK s \in Sizes : tab = NewTable(s[1], s[2])
  BY DEF Init
<1>2. s[1] \in Nat /\ s[2] \in 0..MostNodes
  BY SizesAre, TableAssumption
<1>3. PICK u : u = tab
  OBVIOUS
<1>4. Sound(u) /\ Size(u) <= MostNodes
  BY <1>1, <1>2, <1>3, NewKeeps
<1> QED BY <1>3, <1>4, SizesAre DEF Init, TableInvariant, TraversalKept

(* A traversal that is under way goes on as before when no key moves and no     *)
(* field is added.                                                              *)
LEMMA TraversalGoesOn ==
  ASSUME TableInvariant, Sound(tab'), SameLinks(tab, tab'), traversing,
         \A j \in Keys : Get(tab', j) # Nil => Get(tab, j) # Nil,
         UNCHANGED <<constructing, cursor, traversing, visited>>
  PROVE  TraversalKept'
<1>1. PICK t : t = tab
  OBVIOUS
<1>2. PICK u : u = tab'
  OBVIOUS
<1>3. \A j \in Keys : FindIndex(u, j) = FindIndex(t, j)
  BY <1>1, <1>2, FindIndexSame DEF TableInvariant
<1>4. FindIndex(u, cursor) = FindIndex(t, cursor)
  <2>1. CASE cursor = Nil
    BY <2>1 DEF FindIndex
  <2>2. CASE cursor # Nil
    BY <1>3, <2>2 DEF TableInvariant
  <2> QED BY <2>1, <2>2
<1>5. FindIndex(t, cursor) >= 0 /\ ~ constructing
      /\ \A j \in Keys : Get(t, j) # Nil => (j \in visited <=> FindIndex(t, j) <= FindIndex(t, cursor))
  BY <1>1 DEF TableInvariant, TraversalKept
<1>6. \A j \in Keys : Get(u, j) # Nil => (j \in visited <=> FindIndex(u, j) <= FindIndex(u, cursor))
  BY <1>1, <1>2, <1>3, <1>4, <1>5
<1> QED BY <1>2, <1>4, <1>5, <1>6 DEF TraversalKept

AssignStep(t, u, k, v) == traversing => SameLinks(t, u) /\ \A j \in Keys : Get(u, j) # Nil => Get(t, j) # Nil

LEMMA AssignInvariant ==
  ASSUME TableInvariant, NEW k \in Keys, NEW v \in Values \cup {Nil}, Assign(k, v)
  PROVE  TableInvariant' /\ Assigned(tab, tab', k, v)
<1>1. Assigned(tab, tab', k, v)
  <2>1. Assigned(tab, Store(Insert(tab, k), k, v), k, v)
    BY AssignKeeps, SizesAre DEF TableInvariant
  <2> QED BY <2>1 DEF Assign
<1>2. Sound(tab') /\ Size(tab') <= 2^MaxBits
  BY <1>1, SizesAre DEF Assigned
<1>3. UNCHANGED <<weak, constructing, cursor, traversing, visited>>
  BY DEF Assign
<1>4. TraversalKept'
  <2>1. CASE ~ traversing
    BY <1>3, <2>1 DEF TableInvariant, TraversalKept
  <2>2. CASE traversing
    <3>1. Get(tab, k) # Nil /\ Sound(tab)
      BY <2>2 DEF Assign, TableInvariant
    <3>2. Holds(tab, k)
      BY <3>1, GetNone, GetLive DEF Holds
    <3>3. SameLinks(tab, tab') /\ \A j \in Keys : Get(tab', j) = IF j = k THEN v ELSE Get(tab, j)
      BY <1>1, <3>2 DEF Assigned, OneField
    <3>4. \A j \in Keys : Get(tab', j) # Nil => Get(tab, j) # Nil
      BY <3>1, <3>3
    <3> QED BY <1>2, <1>3, <2>2, <3>3, <3>4, TraversalGoesOn
  <2> QED BY <2>1, <2>2
<1> QED BY <1>1, <1>2, <1>3, <1>4 DEF TableInvariant

LEMMA SetListInvariant ==
  ASSUME TableInvariant, NEW n \in Positional, NEW new \in [1..n -> Values \cup {Nil}], SetList(new)
  PROVE  TableInvariant' /\ OthersKept(tab, tab', n)
<1>1. n \in Nat /\ 1..n \subseteq Ints
  BY TableAssumption
<1>2. Len(new) = n
  BY <1>1, MakeSeq
<1>3. PICK b : b = IF n > Len(tab.array) THEN Resize(tab, n, Size(tab)) ELSE tab
  OBVIOUS
<1>4. OthersKept(tab, b, n)
  <2>1. Sound(tab) /\ Size(tab) <= MostNodes
    BY SizesAre DEF TableInvariant
  <2>2. CASE n > Len(tab.array)
    BY <1>1, <1>3, <2>1, <2>2, GrowKeeps
  <2>3. CASE ~ (n > Len(tab.array))
    BY <1>3, <2>1, <2>3 DEF OthersKept
  <2> QED BY <2>2, <2>3
<1>5. PICK g : Sets(new, g, b, n)
  BY <1>1, SetsExist
<1> DEFINE set == CHOOSE f : f = [i \in 0..n |-> IF i = 0 THEN b
                               ELSE LET k == n + 1 - i IN Store(Insert(f[i - 1], k), k, new[k])]
<1>6. Sets(new, set, b, n)
  BY <1>5 DEF Sets
<1>7. tab' = set[n]
  BY <1>2, <1>3 DEF SetList
<1> HIDE DEF set
<1>8. OthersKept(tab, set[n], n)
  BY <1>1, <1>4, <1>6, SetsKeep
<1>9. OthersKept(tab, tab', n)
  BY <1>7, <1>8
<1>10. constructing /\ ~ constructing' /\ constructing' \in BOOLEAN /\ UNCHANGED <<weak, cursor, traversing, visited>>
  BY DEF SetList
<1>11. Sound(tab') /\ Size(tab') <= 2^MaxBits
  BY <1>9, SizesAre DEF OthersKept
<1>12. TraversalKept'
  BY <1>10 DEF TableInvariant, TraversalKept
<1> QED BY <1>9, <1>10, <1>11, <1>12 DEF TableInvariant

LEMMA ConstructedInvariant ==
  ASSUME TableInvariant, Constructed
  PROVE  TableInvariant'
BY DEF TableInvariant, TraversalKept, Constructed

LEMMA CollectInvariant ==
  ASSUME TableInvariant, NEW S \in SUBSET Present(tab), Collect(S)
  PROVE  /\ TableInvariant'
         /\ \A j \in Keys : Get(tab', j) = IF j \in S THEN Nil ELSE Get(tab, j)
<1>1. S \subseteq Keys /\ Sound(tab) /\ Size(tab) <= 2^MaxBits
  BY DEF Present, TableInvariant
<1>2. PICK t : t = tab
  OBVIOUS
<1>3. PICK u : u = tab'
  OBVIOUS
<1>4. Cleared(t, u, S)
  <2>1. Sound(t)
    BY <1>1, <1>2
  <2> QED BY <1>2, <1>3, <2>1, CollectClears DEF Collect
<1>5. Sound(u) /\ SameLinks(t, u) /\ Size(u) <= 2^MaxBits
  <2>1. Sound(t) /\ Size(t) <= 2^MaxBits
    BY <1>1, <1>2
  <2>2. Sound(u)
    BY ONLY <1>1, <1>4, <2>1, ClearedSound
  <2>3. SameLinks(t, u) /\ Size(u) = Size(t)
    BY <1>4 DEF Cleared, SameLinks
  <2> QED BY <2>1, <2>2, <2>3
<1>6. \A j \in Keys : Get(u, j) = IF j \in S THEN Nil ELSE Get(t, j)
  BY <1>1, <1>2, <1>4, ClearedGets
<1>7. UNCHANGED <<weak, constructing, cursor, traversing, visited>>
  BY DEF Collect
<1>8. TraversalKept'
  <2>1. CASE ~ traversing
    BY <1>7, <2>1 DEF TableInvariant, TraversalKept
  <2>2. CASE traversing
    <3>1. \A j \in Keys : Get(tab', j) # Nil => Get(tab, j) # Nil
      BY <1>2, <1>3, <1>6
    <3> QED BY <1>2, <1>3, <1>5, <1>7, <2>2, <3>1, TraversalGoesOn
  <2> QED BY <2>1, <2>2
<1> QED BY <1>2, <1>3, <1>5, <1>6, <1>7, <1>8 DEF TableInvariant

LEMMA BeginInvariant ==
  ASSUME TableInvariant, Begin
  PROVE  TableInvariant'
<1>1. /\ ~ constructing /\ ~ traversing /\ visited = {} /\ traversing' = TRUE /\ cursor' = Nil
      /\ UNCHANGED <<tab, weak, constructing, visited>>
  BY DEF Begin, TableInvariant, TraversalKept
<1>2. FindIndex(tab, Nil) = 0
  BY DEF FindIndex
<1>3. \A j \in Keys : Get(tab, j) # Nil => ~ (FindIndex(tab, j) <= 0)
  <2>1. SUFFICES ASSUME NEW j \in Keys, Get(tab, j) # Nil PROVE ~ (FindIndex(tab, j) <= 0)
    OBVIOUS
  <2>2. PICK i : i = FindIndex(tab, j)
    OBVIOUS
  <2>3. PICK m : m = Len(tab.array) + Size(tab)
    OBVIOUS
  <2>4. i \in 1..m /\ m \in Int
    BY <2>1, <2>2, <2>3, IndexOf, NodeFacts DEF TableInvariant, Indices, Sound
  <2>5. ~ (i <= 0)
    BY <2>4
  <2> QED BY <2>2, <2>5
<1>4. TraversalKept'
  BY <1>1, <1>2, <1>3 DEF TraversalKept
<1> QED BY <1>1, <1>4 DEF TableInvariant

(* What luaH_next returns is the next field that has a value.                   *)
Returns(t, c, r) ==
  /\ r \in Keys /\ Get(t, r) # Nil /\ FindIndex(t, r) > FindIndex(t, c)
  /\ \A j \in Keys : Get(t, j) # Nil /\ FindIndex(t, j) > FindIndex(t, c) =>
       j = r \/ FindIndex(t, j) > FindIndex(t, r)

LEMMA NextReturns ==
  ASSUME NEW t, Sound(t), NEW c, FindIndex(t, c) \in Nat
  PROVE  /\ Remaining(t, c) = {} => \A j \in Keys : Get(t, j) # Nil => FindIndex(t, j) <= FindIndex(t, c)
         /\ Remaining(t, c) # {} => Returns(t, c, KeyAt(t, Min(Remaining(t, c))))
<1>1. PICK R : R = Remaining(t, c)
  OBVIOUS
<1>2. PICK x : x = FindIndex(t, c)
  OBVIOUS
<1>3. PICK m : m = Len(t.array) + Size(t)
  OBVIOUS
<1>4. m \in Nat /\ x \in Nat /\ Indices(t) = 1..m
  BY <1>2, <1>3, NodeFacts DEF Sound, Indices
<1>5. R = {i \in (x + 1)..m : ValueAt(t, i) # Nil}
  BY <1>1, <1>2, <1>3 DEF Remaining
<1>6. \A j \in Keys : Get(t, j) # Nil =>
        FindIndex(t, j) \in 1..m /\ KeyAt(t, FindIndex(t, j)) = j /\ ValueAt(t, FindIndex(t, j)) # Nil
  BY <1>4, IndexOf
<1>7. ASSUME NEW j \in Keys, Get(t, j) # Nil, FindIndex(t, j) > x
      PROVE  FindIndex(t, j) \in R
  <2>1. PICK i : i = FindIndex(t, j)
    OBVIOUS
  <2>2. i \in 1..m /\ ValueAt(t, i) # Nil /\ i > x
    BY <1>6, <1>7, <2>1
  <2>3. i \in (x + 1)..m
    BY <1>4, <2>2
  <2> QED BY <1>5, <2>1, <2>2, <2>3
<1>8. ASSUME R = {}, NEW j \in Keys, Get(t, j) # Nil
      PROVE  FindIndex(t, j) <= x
  <2>1. PICK i : i = FindIndex(t, j)
    OBVIOUS
  <2>2. i \in 1..m /\ ~ (i > x)
    BY <1>6, <1>7, <1>8, <2>1
  <2>3. i <= x
    BY <1>4, <2>2
  <2> QED BY <2>1, <2>3
<1>9. ASSUME R # {}
      PROVE  Returns(t, c, KeyAt(t, Min(R)))
  <2>1. PICK l : l = Min(R)
    OBVIOUS
  <2>2. l \in R /\ \A i \in R : l <= i
    <3>1. R \subseteq Nat
      BY <1>4, <1>5
    <3>2. PICK y \in R : \A i \in R : y <= i
      BY <1>9, <3>1, Least
    <3> QED BY <2>1, <3>2 DEF Min
  <2>3. l \in 1..m /\ l > x /\ ValueAt(t, l) # Nil
    <3>1. l \in (x + 1)..m /\ ValueAt(t, l) # Nil
      BY <1>5, <2>2
    <3> QED BY <1>4, <3>1
  <2>4. PICK r : r = KeyAt(t, l)
    OBVIOUS
  <2>5. r \in Keys /\ FindIndex(t, r) = l /\ Get(t, r) # Nil
    BY <1>4, <2>3, <2>4, FieldAt
  <2>6. ASSUME NEW j \in Keys, Get(t, j) # Nil, FindIndex(t, j) > x
        PROVE  j = r \/ FindIndex(t, j) > l
    <3>1. PICK i : i = FindIndex(t, j)
      OBVIOUS
    <3>2. i \in 1..m /\ j = KeyAt(t, i) /\ l <= i
      BY <1>6, <1>7, <2>2, <2>6, <3>1
    <3>3. i = l \/ i > l
      BY <2>3, <3>2
    <3> QED BY <2>4, <3>1, <3>2, <3>3
  <2>7. Returns(t, c, r)
    BY <1>2, <2>3, <2>5, <2>6 DEF Returns
  <2> QED BY <2>1, <2>4, <2>7
<1> QED BY <1>1, <1>2, <1>8, <1>9

LEMMA NextInvariant ==
  ASSUME TableInvariant, NextField
  PROVE  /\ TableInvariant' /\ traversing /\ UNCHANGED <<tab, weak>>
         /\ \/ /\ ~ traversing' /\ visited' = {}
               /\ \A j \in Keys : Get(tab, j) # Nil => j \in visited
            \/ /\ traversing' /\ cursor' \in Keys \ visited /\ Get(tab, cursor') # Nil
               /\ visited' = visited \cup {cursor'}
<1>1. PICK x : x = FindIndex(tab, cursor)
  OBVIOUS
<1>2. /\ traversing /\ x >= 0 /\ UNCHANGED <<tab, weak, constructing>> /\ ~ constructing /\ Sound(tab)
      /\ cursor \in Keys \cup {Nil} /\ visited \subseteq Keys
  BY <1>1 DEF NextField, TableInvariant, TraversalKept
<1>3. \A j \in Keys : Get(tab, j) # Nil => FindIndex(tab, j) \in Nat /\ (j \in visited <=> FindIndex(tab, j) <= x)
  <2>1. SUFFICES ASSUME NEW j \in Keys, Get(tab, j) # Nil
                 PROVE  FindIndex(tab, j) \in Nat /\ (j \in visited <=> FindIndex(tab, j) <= x)
    OBVIOUS
  <2>2. FindIndex(tab, j) \in 1..Len(tab.array) + Size(tab) /\ Len(tab.array) + Size(tab) \in Int
    BY <1>2, <2>1, IndexOf, NodeFacts DEF Indices, Sound
  <2>3. FindIndex(tab, j) \in Nat
    BY ONLY <2>2
  <2> QED BY <1>1, <1>2, <2>1, <2>3 DEF TableInvariant, TraversalKept
<1>4. x \in Nat
  BY <1>1, <1>2, FindIndexType
<1>5. CASE Remaining(tab, cursor) = {}
  <2>1. ~ traversing' /\ traversing' \in BOOLEAN /\ cursor' = Nil /\ visited' = {}
    BY <1>5 DEF NextField
  <2>2. \A j \in Keys : Get(tab, j) # Nil => FindIndex(tab, j) <= x
    BY <1>1, <1>2, <1>4, <1>5, NextReturns
  <2> QED BY <1>2, <1>3, <2>1, <2>2 DEF TableInvariant, TraversalKept
<1>6. CASE Remaining(tab, cursor) # {}
  <2>1. traversing' = TRUE /\ cursor' = KeyAt(tab, Min(Remaining(tab, cursor))) /\ visited' = visited \cup {cursor'}
    BY <1>6 DEF NextField
  <2>2. PICK r : r = cursor'
    OBVIOUS
  <2>3. Returns(tab, cursor, r)
    BY <1>1, <1>2, <1>4, <1>6, <2>1, <2>2, NextReturns
  <2>4. PICK y : y = FindIndex(tab, r)
    OBVIOUS
  <2>5. /\ r \in Keys /\ Get(tab, r) # Nil /\ y > x /\ y \in Nat
        /\ \A j \in Keys : Get(tab, j) # Nil /\ FindIndex(tab, j) > x => j = r \/ FindIndex(tab, j) > y
    BY <1>1, <1>3, <2>3, <2>4 DEF Returns
  <2>6. ~ (y <= x)
    BY <1>4, <2>5
  <2>7. r \notin visited
    BY <1>3, <2>4, <2>5, <2>6
  <2>8. \A j \in Keys : Get(tab, j) # Nil => (j \in visited \cup {r} <=> FindIndex(tab, j) <= y)
    <3>1. SUFFICES ASSUME NEW j \in Keys, Get(tab, j) # Nil
                   PROVE  j \in visited \cup {r} <=> FindIndex(tab, j) <= y
      OBVIOUS
    <3>2. PICK i : i = FindIndex(tab, j)
      OBVIOUS
    <3>3. i \in Nat /\ (j \in visited <=> i <= x) /\ (i > x => j = r \/ i > y)
      BY <1>3, <2>5, <3>1, <3>2
    <3>4. CASE j = r
      BY <2>4, <2>5, <3>2, <3>3, <3>4
    <3>5. CASE j # r
      <4>1. i <= x <=> i <= y
        BY <1>4, <2>5, <3>3, <3>5
      <4> QED BY <3>2, <3>3, <3>5, <4>1
    <3> QED BY <3>4, <3>5
  <2>9. TraversalKept'
    BY <1>2, <2>1, <2>2, <2>4, <2>5, <2>8 DEF TraversalKept
  <2>10. visited' \subseteq Keys /\ cursor' \in Keys \cup {Nil} /\ traversing' \in BOOLEAN
    BY <1>2, <2>1, <2>2, <2>5
  <2> QED BY <1>2, <2>1, <2>2, <2>5, <2>7, <2>9, <2>10 DEF TableInvariant
<1> QED BY <1>5, <1>6

---------------------------------------------------------------------------
(* Chains of a table, walked node by node.                                      *)

Walk(t, p, f, n) == f = [j \in 0..n |-> IF j = 0 THEN p
                                        ELSE IF f[j - 1] = 0 THEN 0 ELSE t.node[f[j - 1]].next]

LEMMA WalkIs ==
  ASSUME NEW t, NEW p, NEW f, NEW n \in Nat, Walk(t, p, f, n)
  PROVE  f[0] = p /\ \A j \in 0..(n - 1) : f[j + 1] = IF f[j] = 0 THEN 0 ELSE t.node[f[j]].next
<1>1. \A j \in 0..n : f[j] = IF j = 0 THEN p ELSE IF f[j - 1] = 0 THEN 0 ELSE t.node[f[j - 1]].next
  BY DEF Walk
<1>2. f[0] = p
  BY <1>1
<1>3. ASSUME NEW j \in 0..(n - 1) PROVE f[j + 1] = IF f[j] = 0 THEN 0 ELSE t.node[f[j]].next
  <2>1. PICK i : i = j + 1
    OBVIOUS
  <2>2. i \in 0..n /\ i # 0 /\ i - 1 = j
    BY <2>1
  <2>3. f[i] = IF f[j] = 0 THEN 0 ELSE t.node[f[j]].next
    BY <1>1, <2>2
  <2> QED BY <2>1, <2>3
<1> QED BY <1>2, <1>3

LEMMA WalkExists ==
  ASSUME NEW t, NEW p, NEW n \in Nat
  PROVE  \E f : Walk(t, p, f, n)
<1>1. PICK P : P = {m \in 0..n : \E f : Walk(t, p, f, m)}
  OBVIOUS
<1>2. 0 \in P
  <2>1. PICK f : f = [j \in 0..0 |-> p]
    OBVIOUS
  <2>2. Walk(t, p, f, 0)
    BY <2>1 DEF Walk
  <2> QED BY <1>1, <2>2
<1>3. ASSUME NEW m \in 0..(n - 1), m \in P PROVE m + 1 \in P
  <2>1. PICK f : Walk(t, p, f, m)
    BY <1>1, <1>3
  <2>2. PICK l : l = m + 1
    OBVIOUS
  <2>3. PICK v : v = IF f[m] = 0 THEN 0 ELSE t.node[f[m]].next
    OBVIOUS
  <2>4. PICK g : g = [j \in 0..l |-> IF j = l THEN v ELSE f[j]]
    OBVIOUS
  <2>5. \A j \in 0..m : f[j] = IF j = 0 THEN p ELSE IF f[j - 1] = 0 THEN 0 ELSE t.node[f[j - 1]].next
    BY <2>1 DEF Walk
  <2>6. ASSUME NEW j \in 0..l
        PROVE  g[j] = IF j = 0 THEN p ELSE IF g[j - 1] = 0 THEN 0 ELSE t.node[g[j - 1]].next
    <3>1. CASE j = l
      <4>1. j # 0 /\ j - 1 \in 0..l /\ j - 1 # l /\ j - 1 = m
        BY <2>2, <3>1
      <4> QED BY <2>3, <2>4, <3>1, <4>1
    <3>2. CASE j # l
      <4>1. j \in 0..m /\ (j # 0 => j - 1 \in 0..l /\ j - 1 # l)
        BY <2>2, <3>2
      <4> QED BY <2>4, <2>5, <3>2, <4>1
    <3> QED BY <3>1, <3>2
  <2>7. Walk(t, p, g, l)
    <3>1. g = [j \in 0..l |-> g[j]]
      BY <2>4
    <3> QED BY <2>6, <3>1 DEF Walk
  <2> QED BY <1>1, <2>2, <2>7
<1>4. n \in P
  <2>1. \A m \in 0..n : m \in P
    BY <1>2, <1>3, Induction
  <2> QED BY <2>1
<1> QED BY <1>1, <1>4

LEMMA WalksAgree ==
  ASSUME NEW t, NEW p, NEW n \in Nat, NEW f, Walk(t, p, f, n), NEW m \in 0..n, NEW g, Walk(t, p, g, m)
  PROVE  g[m] = f[m]
<1>1. PICK P : P = {j \in 0..m : g[j] = f[j]}
  OBVIOUS
<1>2. m \in Nat /\ f[0] = p /\ g[0] = p
  BY WalkIs
<1>3. ASSUME NEW j \in 0..(m - 1), j \in P PROVE j + 1 \in P
  <2>1. j \in 0..(n - 1) /\ j + 1 \in 0..m
    BY <1>2
  <2>2. /\ f[j + 1] = IF f[j] = 0 THEN 0 ELSE t.node[f[j]].next
        /\ g[j + 1] = IF g[j] = 0 THEN 0 ELSE t.node[g[j]].next
    BY <1>2, <2>1, WalkIs
  <2> QED BY <1>1, <1>3, <2>1, <2>2
<1>4. 0 \in P
  BY <1>1, <1>2
<1>5. \A j \in 0..m : j \in P
  BY <1>2, <1>3, <1>4, Induction
<1> QED BY <1>1, <1>2, <1>5

LEMMA ReachedIs ==
  ASSUME NEW p, NEW n \in Nat, NEW f, Walk(tab, p, f, n), NEW m \in 0..n
  PROVE  Reached(p, m) = f[m]
<1>1. m \in Nat
  OBVIOUS
<1>2. PICK g : Walk(tab, p, g, m)
  BY SMTT(30), <1>1, WalkExists
<1> DEFINE to == CHOOSE h : h = [j \in 0..m |-> IF j = 0 THEN p
                                                ELSE IF h[j - 1] = 0 THEN 0 ELSE tab.node[h[j - 1]].next]
<1>3. Walk(tab, p, to, m)
  BY <1>2 DEF Walk
<1>4. Reached(p, m) = to[m]
  BY DEF Reached
<1> HIDE DEF to
<1> QED BY <1>3, <1>4, WalksAgree

(* A walk through a chain ends, and comes to all of the chain before.           *)
LEMMA WalkEnds ==
  ASSUME NEW t, Sound(t), NEW p \in Nodes(t), NEW f, Walk(t, p, f, Size(t))
  PROVE  /\ f[Size(t)] = 0
         /\ \A q \in ChainAt(t, p) : \E j \in 0..(Size(t) - 1) : f[j] = q
<1>1. PICK n : n = Size(t)
  OBVIOUS
<1>2. PICK nx : nx = Nexts(t)
  OBVIOUS
<1>3. PICK rank : Falls(nx, n, rank)
  BY <1>1, <1>2 DEF Sound, NoCycle
<1>4. Links(nx, n) /\ n \in Nat /\ p \in 1..n /\ ChainAt(t, p) = Chain(nx, n, p)
  BY <1>1, <1>2, NextsLink, NodeFacts DEF Sound, Nodes, ChainAt
<1>5. f[0] = p /\ \A j \in 0..(n - 1) : f[j + 1] = IF f[j] = 0 THEN 0 ELSE t.node[f[j]].next
  BY <1>1, <1>4, WalkIs
<1>6. \A q \in 1..n : t.node[q].next = nx[q] /\ nx[q] \in 0..n
  BY <1>1, <1>2, <1>4 DEF Nexts, Nodes, Links
<1>7. \A j \in 0..n : f[j] \in 0..n
  <2>1. PICK P : P = {j \in 0..n : f[j] \in 0..n}
    OBVIOUS
  <2>2. 0 \in P
    BY <1>4, <1>5, <2>1
  <2>3. ASSUME NEW j \in 0..(n - 1), j \in P PROVE j + 1 \in P
    <3>1. f[j] \in 0..n /\ j + 1 \in 0..n
      <4>1. j + 1 \in 0..n
        BY <1>4
      <4> QED BY <2>1, <2>3, <4>1
    <3>2. f[j] = 0 \/ f[j] \in 1..n
      BY <1>4, <3>1
    <3>3. f[j + 1] \in 0..n
      BY <1>4, <1>5, <1>6, <3>2
    <3> QED BY <2>1, <3>1, <3>3
  <2>4. \A j \in 0..n : j \in P
    BY <1>4, <2>2, <2>3, Induction
  <2> QED BY <2>1, <2>4
<1>8. ASSUME NEW j \in 0..(n - 1), f[j + 1] # 0
      PROVE  f[j] \in 1..n /\ f[j + 1] = nx[f[j]] /\ f[j + 1] \in 1..n /\ rank[f[j + 1]] < rank[f[j]]
  <2>1. f[j] # 0 /\ f[j + 1] = t.node[f[j]].next
    BY <1>5, <1>8
  <2>2. j \in 0..n /\ j + 1 \in 0..n
    BY <1>4
  <2>3. f[j] \in 1..n /\ f[j + 1] \in 1..n
    BY <1>4, <1>7, <1>8, <2>1, <2>2
  <2>4. f[j + 1] = nx[f[j]]
    BY <1>6, <2>1, <2>3
  <2> QED BY <1>3, <1>8, <2>3, <2>4 DEF Falls
<1>9. \A q \in 1..n : rank[q] \in Nat
  BY <1>3 DEF Falls
<1>10. f[n] = 0
  <2>1. SUFFICES ASSUME f[n] # 0 PROVE FALSE
    OBVIOUS
  <2>2. \A j \in 0..n : f[j] \in 1..n /\ \A i \in 0..(j - 1) : rank[f[j]] < rank[f[i]]
    <3>1. \A j \in 0..n : f[n - j] # 0
      <4>1. PICK P : P = {j \in 0..n : f[n - j] # 0}
        OBVIOUS
      <4>2. 0 \in P
        BY <1>4, <2>1, <4>1
      <4>3. ASSUME NEW j \in 0..(n - 1), j \in P PROVE j + 1 \in P
        <5>1. PICK i : i = n - (j + 1)
          OBVIOUS
        <5>2. i \in 0..(n - 1) /\ i + 1 = n - j /\ j + 1 \in 0..n
          BY <1>4, <5>1
        <5>3. f[i + 1] # 0
          BY <4>1, <4>3, <5>2
        <5>4. f[i] # 0
          BY <1>5, <5>2, <5>3
        <5> QED BY <4>1, <5>1, <5>2, <5>4
      <4>4. \A j \in 0..n : j \in P
        BY <1>4, <4>2, <4>3, Induction
      <4> QED BY <4>1, <4>4
    <3>2. \A j \in 0..n : f[j] # 0
      <4>1. ASSUME NEW j \in 0..n PROVE f[j] # 0
        <5>1. PICK i : i = n - j
          OBVIOUS
        <5>2. i \in 0..n /\ n - i = j
          BY <1>4, <5>1
        <5> QED BY <3>1, <5>2
      <4> QED BY <4>1
    <3>3. \A j \in 0..n : f[j] \in 1..n
      BY <1>4, <1>7, <3>2
    <3>4. PICK P : P = {j \in 0..n : \A i \in 0..(j - 1) : rank[f[j]] < rank[f[i]]}
      OBVIOUS
    <3>5. 0 \in P
      BY <1>4, <3>4
    <3>6. ASSUME NEW j \in 0..(n - 1), j \in P PROVE j + 1 \in P
      <4>1. j + 1 \in 0..n /\ j \in 0..n
        BY <1>4
      <4>2. rank[f[j + 1]] < rank[f[j]]
        BY <1>8, <3>2, <4>1
      <4>3. ASSUME NEW i \in 0..(j + 1 - 1) PROVE rank[f[j + 1]] < rank[f[i]]
        <5>1. i \in 0..n /\ (i = j \/ i \in 0..(j - 1))
          BY <1>4
        <5>2. rank[f[i]] \in Nat /\ rank[f[j]] \in Nat /\ rank[f[j + 1]] \in Nat
          BY <1>9, <3>3, <4>1, <5>1
        <5>3. i = j \/ rank[f[j]] < rank[f[i]]
          BY <3>4, <3>6, <5>1
        <5> QED BY <4>2, <5>2, <5>3
      <4> QED BY <3>4, <4>1, <4>3
    <3>7. \A j \in 0..n : j \in P
      BY <1>4, <3>5, <3>6, Induction
    <3> QED BY <3>3, <3>4, <3>7
  <2>3. ASSUME NEW i \in 0..n, NEW j \in 0..n, f[i] = f[j] PROVE i = j
    <3>1. rank[f[i]] \in Nat
      BY <1>9, <2>2
    <3>2. ~ (i < j) /\ ~ (j < i)
      <4>1. i < j => i \in 0..(j - 1)
        BY <1>4
      <4>2. j < i => j \in 0..(i - 1)
        BY <1>4
      <4> QED BY <2>2, <2>3, <3>1, <4>1, <4>2
    <3> QED BY <3>2
  <2>4. PICK g : g = [j \in 0..n |-> f[j]]
    OBVIOUS
  <2>5. g \in [0..n -> 1..n] /\ \A i, j \in 0..n : g[i] = g[j] => i = j
    BY <2>2, <2>3, <2>4
  <2>6. g \in Injection(0..n, 1..n)
    BY ONLY <2>5, Fun_IsInj
  <2>7. IsFiniteSet(1..n) /\ Cardinality(1..n) = n
    <3>1. IsFiniteSet(1..n) /\ Cardinality(1..n) = IF 1 > n THEN 0 ELSE n - 1 + 1
      BY ONLY <1>4, 1 \in Int, n \in Int, FS_Interval
    <3> QED BY <1>4, <3>1
  <2>8. Cardinality(0..n) = n + 1
    <3>1. Cardinality(0..n) = IF 0 > n THEN 0 ELSE n - 0 + 1
      BY ONLY <1>4, 0 \in Int, n \in Int, FS_Interval
    <3> QED BY <1>4, <3>1
  <2>9. Cardinality(0..n) <= Cardinality(1..n)
    BY ONLY <2>6, <2>7, FS_Injection
  <2> QED BY <1>4, <2>7, <2>8, <2>9
<1>11. \A q \in Chain(nx, n, p) : \E j \in 0..(n - 1) : f[j] = q
  <2>1. PICK S : S = {q \in 1..n : \E j \in 0..(n - 1) : f[j] = q}
    OBVIOUS
  <2>2. p \in S
    <3>1. 0 \in 0..(n - 1)
      BY <1>4
    <3> QED BY <1>4, <1>5, <2>1, <3>1
  <2>3. Closed(nx, S)
    <3>1. SUFFICES ASSUME NEW q \in S, nx[q] # 0 PROVE nx[q] \in S
      BY DEF Closed
    <3>2. PICK j \in 0..(n - 1) : f[j] = q
      BY <2>1, <3>1
    <3>3. q \in 1..n /\ q # 0 /\ nx[q] \in 1..n
      BY <1>4, <1>6, <2>1, <3>1
    <3>4. f[j + 1] = nx[q]
      BY <1>5, <1>6, <3>2, <3>3
    <3>5. j + 1 # n
      BY <1>10, <3>1, <3>4
    <3>6. j + 1 \in 0..(n - 1)
      BY <1>4, <3>5
    <3> QED BY <2>1, <3>3, <3>4, <3>6
  <2>4. S \subseteq 1..n
    BY <2>1
  <2>5. Chain(nx, n, p) \subseteq S
    BY ONLY <2>2, <2>3, <2>4, ChainLeast
  <2> QED BY <2>1, <2>5
<1> QED BY <1>1, <1>4, <1>10, <1>11

LEMMA SoundNodes ==
  ASSUME TableInvariant
  PROVE  NodesSound
<1>1. PICK t : t = tab
  OBVIOUS
<1>2. Sound(t)
  BY <1>1 DEF TableInvariant
<1>3. TypeOK
  <2>1. /\ t.array \in Seq(Values \cup {Nil}) /\ t.node \in Seq(NodeRecords(Size(t)))
        /\ t.free \in 1..Size(t) + 1 /\ Size(t) \in Nat
    BY <1>2 DEF Sound, TableType
  <2>2. t.free \in 0..Size(t) + 1
    BY <2>1
  <2> QED BY <1>1, <2>1, <2>2 DEF TableInvariant, TypeOK, NodeRecords
<1>4. LiveBeforeDead
  BY <1>1, <1>2, FindIndexFinds DEF LiveBeforeDead
<1>5. PICK n : n = Size(t)
  OBVIOUS
<1>6. n \in Nat /\ Nodes(t) = 1..n
  BY <1>2, <1>5, NodeFacts DEF Sound, Nodes
<1>7. ASSUME NEW p \in 1..n PROVE Reached(p, n) = 0
  <2>1. PICK f : Walk(t, p, f, n)
    BY <1>6, WalkExists
  <2>2. f[n] = 0
    BY <1>2, <1>5, <1>6, <2>1, WalkEnds
  <2>3. n \in 0..n
    BY <1>6
  <2> QED BY <1>1, <1>6, <2>1, <2>2, <2>3, ReachedIs
<1>8. ASSUME NEW p \in 1..n, NEW q \in 1..n \ {p}, t.node[p].next = t.node[q].next
      PROVE  t.node[p].next = 0
  BY <1>2, <1>6, <1>8 DEF Sound, OneBefore
<1>9. ASSUME NEW p \in 1..n, t.node[p].val # Nil, NEW mp, mp = MainPosition(t, t.node[p].key)
      PROVE  /\ \E i \in 0..n-1 : Reached(mp, i) = p
             /\ MainPosition(t, t.node[mp].key) = mp
  <2>1. p \in Keyed(t) /\ mp = Home(t, p)
    BY <1>2, <1>6, <1>9 DEF Sound, KeysAndValues, Keyed, Home
  <2>2. p \in ChainAt(t, mp) /\ mp \in Keyed(t) /\ Home(t, mp) = mp
    BY <1>2, <2>1 DEF Sound, AtHome
  <2>3. mp \in Nodes(t)
    BY <2>2 DEF Keyed
  <2>4. PICK f : Walk(t, mp, f, n)
    BY <1>6, WalkExists
  <2>5. PICK i \in 0..(n - 1) : f[i] = p
    BY <1>2, <1>5, <2>2, <2>3, <2>4, WalkEnds
  <2>6. i \in 0..n
    BY <1>6
  <2>7. Reached(mp, i) = p
    BY <1>1, <1>6, <2>4, <2>5, <2>6, ReachedIs
  <2> QED BY <2>2, <2>7 DEF Home
<1>10. Chains
  BY <1>1, <1>5, <1>7, <1>8, <1>9 DEF Chains
<1> QED BY <1>3, <1>4, <1>10 DEF NodesSound

---------------------------------------------------------------------------
(* The length operator.                                                         *)

Loop(step, b, f, n) == f = [k \in 0..n |-> IF k = 0 THEN b ELSE step[f[k - 1]]]

LEMMA LoopExists ==
  ASSUME NEW step, NEW b, NEW n \in Nat
  PROVE  \E f : Loop(step, b, f, n)
<1>1. PICK P : P = {m \in 0..n : \E f : Loop(step, b, f, m)}
  OBVIOUS
<1>2. 0 \in P
  <2>1. PICK f : f = [k \in 0..0 |-> b]
    OBVIOUS
  <2>2. Loop(step, b, f, 0)
    BY <2>1 DEF Loop
  <2> QED BY <1>1, <2>2
<1>3. ASSUME NEW m \in 0..(n - 1), m \in P PROVE m + 1 \in P
  <2>1. PICK f : Loop(step, b, f, m)
    BY <1>1, <1>3
  <2>2. PICK l : l = m + 1
    OBVIOUS
  <2>3. PICK g : g = [k \in 0..l |-> IF k = l THEN step[f[m]] ELSE f[k]]
    OBVIOUS
  <2>4. \A k \in 0..m : f[k] = IF k = 0 THEN b ELSE step[f[k - 1]]
    BY <2>1 DEF Loop
  <2>5. ASSUME NEW k \in 0..l
        PROVE  g[k] = IF k = 0 THEN b ELSE step[g[k - 1]]
    <3>1. CASE k = l
      <4>1. k # 0 /\ k - 1 \in 0..l /\ k - 1 # l /\ k - 1 = m
        BY <2>2, <3>1
      <4> QED BY <2>3, <3>1, <4>1
    <3>2. CASE k # l
      <4>1. k \in 0..m /\ (k # 0 => k - 1 \in 0..l /\ k - 1 # l)
        BY <2>2, <3>2
      <4> QED BY <2>3, <2>4, <3>2, <4>1
    <3> QED BY <3>1, <3>2
  <2>6. Loop(step, b, g, l)
    <3>1. g = [k \in 0..l |-> g[k]]
      BY <2>3
    <3> QED BY <2>5, <3>1 DEF Loop
  <2> QED BY <1>1, <2>2, <2>6
<1>4. n \in P
  <2>1. \A m \in 0..n : m \in P
    BY <1>2, <1>3, Induction
  <2> QED BY <2>1
<1> QED BY <1>1, <1>4

(* What every round keeps holds after the last one.                             *)
LEMMA RoundsKeep ==
  ASSUME NEW step, NEW b, NEW n \in Nat, NEW I, b \in I[0],
         \A k \in 0..(n - 1) : \A c \in I[k] : step[c] \in I[k + 1]
  PROVE  Rounds(step, b, n) \in I[n]
<1> DEFINE after == CHOOSE f : f = [k \in 0..n |-> IF k = 0 THEN b ELSE step[f[k - 1]]]
<1>1. Loop(step, b, after, n)
  <2>1. PICK f : Loop(step, b, f, n)
    BY LoopExists
  <2> QED BY <2>1 DEF Loop
<1>2. Rounds(step, b, n) = after[n]
  BY DEF Rounds
<1> HIDE DEF after
<1>3. \A k \in 0..n : after[k] = IF k = 0 THEN b ELSE step[after[k - 1]]
  BY <1>1 DEF Loop
<1>4. PICK P : P = {k \in 0..n : after[k] \in I[k]}
  OBVIOUS
<1>5. 0 \in P
  BY <1>3, <1>4
<1>6. ASSUME NEW k \in 0..(n - 1), k \in P PROVE k + 1 \in P
  <2>1. PICK l : l = k + 1
    OBVIOUS
  <2>2. l \in 0..n /\ l # 0 /\ l - 1 = k
    BY <2>1
  <2>3. after[l] = step[after[k]]
    BY <1>3, <2>2
  <2>4. after[l] \in I[l]
    BY <1>4, <1>6, <2>1, <2>3
  <2> QED BY <1>4, <2>1, <2>2, <2>4
<1>7. \A k \in 0..n : k \in P
  BY <1>5, <1>6, Induction
<1> QED BY <1>2, <1>4, <1>7

IsBorder(t, n) == /\ n \in Nat
                  /\ n > 0 => GetNum(t, n) # Nil
                  /\ GetNum(t, n + 1) = Nil

(* A field, or zero, and an absent field above it.                              *)
Around(t) == {b \in Nat \X Nat : /\ b[1] < b[2] /\ (b[1] = 0 \/ GetNum(t, b[1]) # Nil)
                                 /\ GetNum(t, b[2]) = Nil}

LEMMA BetweenIs ==
  ASSUME NEW t, NEW i \in Nat, NEW j \in Nat, i < j, i = 0 \/ GetNum(t, i) # Nil, GetNum(t, j) = Nil
  PROVE  IsBorder(t, Between(t, i, j))
<1>1. PICK n : n = j - i
  OBVIOUS
<1>2. n \in Nat /\ n > 0
  BY <1>1
<1>3. PICK I : I = [k \in 0..n |-> {b \in Around(t) : b[2] - b[1] <= 1 \/ b[2] - b[1] <= n - k}]
  OBVIOUS
<1>4. PICK halve : halve = [b \in Nat \X Nat |->
                             LET m == (b[1] + b[2]) \div 2
                             IN  IF b[2] - b[1] <= 1 THEN b
                                 ELSE IF GetNum(t, m) = Nil THEN <<b[1], m>> ELSE <<m, b[2]>>]
  OBVIOUS
<1>5. <<i, j>> \in I[0]
  BY <1>1, <1>2, <1>3 DEF Around
<1>6. ASSUME NEW k \in 0..(n - 1), NEW c \in I[k] PROVE halve[c] \in I[k + 1]
  <2>1. PICK lo \in Nat, hi \in Nat : c = <<lo, hi>>
    BY <1>2, <1>3, <1>6 DEF Around
  <2>2. /\ lo < hi /\ (lo = 0 \/ GetNum(t, lo) # Nil) /\ GetNum(t, hi) = Nil
        /\ hi - lo <= 1 \/ hi - lo <= n - k
    BY <1>2, <1>3, <1>6, <2>1 DEF Around
  <2>3. PICK m : m = (lo + hi) \div 2
    OBVIOUS
  <2>4. halve[c] = IF hi - lo <= 1 THEN c ELSE IF GetNum(t, m) = Nil THEN <<lo, m>> ELSE <<m, hi>>
    BY <1>4, <2>1, <2>3
  <2>5. k + 1 \in 0..n
    BY <1>2
  <2>6. ASSUME NEW x \in Nat, NEW y \in Nat, x < y, x = 0 \/ GetNum(t, x) # Nil, GetNum(t, y) = Nil,
               y - x <= 1 \/ y - x <= n - (k + 1)
        PROVE  <<x, y>> \in I[k + 1]
    BY <1>3, <2>5, <2>6 DEF Around
  <2>7. CASE hi - lo <= 1
    BY <2>1, <2>2, <2>4, <2>6, <2>7
  <2>8. CASE ~ (hi - lo <= 1)
    <3>1. m \in Nat /\ lo < m /\ m < hi
      BY <2>3, <2>8
    <3>2. hi - lo <= n - k
      BY <2>2, <2>8
    <3>3. m - lo <= n - (k + 1) /\ hi - m <= n - (k + 1)
      BY <1>2, <3>1, <3>2
    <3>4. CASE GetNum(t, m) = Nil
      BY <2>2, <2>4, <2>6, <2>8, <3>1, <3>3, <3>4
    <3>5. CASE GetNum(t, m) # Nil
      BY <2>2, <2>4, <2>6, <2>8, <3>1, <3>3, <3>5
    <3> QED BY <3>4, <3>5
  <2> QED BY <2>7, <2>8
<1>7. PICK e : e = Rounds(halve, <<i, j>>, n)
  OBVIOUS
<1>8. e \in I[n]
  BY <1>2, <1>5, <1>6, <1>7, RoundsKeep
<1>9. PICK lo \in Nat, hi \in Nat : e = <<lo, hi>>
  BY <1>2, <1>3, <1>8 DEF Around
<1>10. lo < hi /\ (lo = 0 \/ GetNum(t, lo) # Nil) /\ GetNum(t, hi) = Nil /\ (hi - lo <= 1 \/ hi - lo <= n - n)
  BY <1>2, <1>3, <1>8, <1>9 DEF Around
<1>11. hi = lo + 1
  BY <1>2, <1>10
<1>12. Between(t, i, j) = lo
  <2>1. Between(t, i, j) = e[1]
    BY <1>1, <1>4, <1>7 DEF Between
  <2> QED BY <1>9, <2>1
<1> QED BY <1>10, <1>11, <1>12 DEF IsBorder

LEMMA NumbersEnd == \A i \in Nat : i > MaxInt => \A t : GetNum(t, i) = Nil
BY TableAssumption DEF GetNum

LEMMA LinearIs ==
  ASSUME NEW t
  PROVE  IsBorder(t, Linear(t))
<1>1. PICK A : A = {i \in 1..MaxInt + 1 : GetNum(t, i) = Nil}
  OBVIOUS
<1>2. MaxInt \in Nat
  BY TableAssumption
<1>3. MaxInt + 1 \in A
  BY <1>1, <1>2, NumbersEnd
<1>4. PICK x \in A : \A i \in A : x <= i
  <2>1. A \subseteq Nat
    BY <1>1, <1>2
  <2> QED BY <1>3, <2>1, Least
<1>5. Min(A) = x
  <2>1. x \in Nat /\ A \subseteq Nat
    BY <1>1, <1>2, <1>4
  <2>2. ASSUME NEW y \in A, \A i \in A : y <= i PROVE y = x
    BY <1>4, <2>1, <2>2
  <2> QED BY <1>4, <2>2 DEF Min
<1>6. PICK n : n = Linear(t)
  OBVIOUS
<1>7. n = x - 1
  BY <1>1, <1>5, <1>6 DEF Linear
<1>8. x \in 1..MaxInt + 1 /\ GetNum(t, x) = Nil
  BY <1>1, <1>4
<1>9. n \in Nat /\ n + 1 = x
  BY <1>2, <1>7, <1>8
<1>10. n > 0 => GetNum(t, n) # Nil
  <2>1. SUFFICES ASSUME n > 0, GetNum(t, n) = Nil PROVE FALSE
    OBVIOUS
  <2>2. n \in 1..MaxInt + 1
    BY <1>2, <1>8, <1>9, <2>1
  <2>3. x <= n
    BY <1>1, <1>4, <2>1, <2>2
  <2> QED BY <1>9, <2>3
<1> QED BY <1>6, <1>8, <1>9, <1>10 DEF IsBorder

LEMMA UnboundIs ==
  ASSUME NEW t, NEW j0 \in Nat, j0 = 0 \/ GetNum(t, j0) # Nil
  PROVE  IsBorder(t, UnboundSearch(t, j0))
<1>1. PICK I : I = [k \in 0..MaxInt |->
                     {b \in Nat \X Nat : /\ b[1] < b[2] /\ (b[1] = 0 \/ GetNum(t, b[1]) # Nil)
                                         /\ GetNum(t, b[2]) = Nil \/ 2*b[2] > MaxInt \/ b[2] > k}]
  OBVIOUS
<1>2. MaxInt \in Nat
  BY TableAssumption
<1>3. PICK double : double = [b \in Nat \X Nat |->
                  IF GetNum(t, b[2]) = Nil \/ 2*b[2] > MaxInt THEN b ELSE <<b[2], 2*b[2]>>]
  OBVIOUS
<1>4. <<j0, j0 + 1>> \in I[0]
  BY <1>1, <1>2
<1>5. ASSUME NEW k \in 0..(MaxInt - 1), NEW c \in I[k] PROVE double[c] \in I[k + 1]
  <2>1. PICK lo \in Nat, hi \in Nat : c = <<lo, hi>>
    BY <1>1, <1>2, <1>5
  <2>2. /\ lo < hi /\ (lo = 0 \/ GetNum(t, lo) # Nil)
        /\ GetNum(t, hi) = Nil \/ 2*hi > MaxInt \/ hi > k
    BY <1>1, <1>2, <1>5, <2>1
  <2>3. double[c] = IF GetNum(t, hi) = Nil \/ 2*hi > MaxInt THEN c ELSE <<hi, 2*hi>>
    BY <1>3, <2>1
  <2>4. k + 1 \in 0..MaxInt
    BY <1>2
  <2>5. ASSUME NEW x \in Nat, NEW y \in Nat, x < y, x = 0 \/ GetNum(t, x) # Nil,
               GetNum(t, y) = Nil \/ 2*y > MaxInt \/ y > k + 1
        PROVE  <<x, y>> \in I[k + 1]
    BY <1>1, <2>4, <2>5
  <2>6. CASE GetNum(t, hi) = Nil \/ 2*hi > MaxInt
    BY <2>1, <2>2, <2>3, <2>5, <2>6
  <2>7. CASE ~ (GetNum(t, hi) = Nil \/ 2*hi > MaxInt)
    <3>1. hi > k
      BY <2>2, <2>7
    <3>2. 2*hi \in Nat /\ hi < 2*hi /\ 2*hi > k + 1
      BY <1>2, <2>2, <3>1
    <3>3. <<hi, 2*hi>> \in I[k + 1]
      BY <2>5, <2>7, <3>2
    <3> QED BY <2>3, <2>7, <3>3
  <2> QED BY <2>6, <2>7
<1>6. PICK e : e = Rounds(double, <<j0, j0 + 1>>, MaxInt)
  OBVIOUS
<1>7. e \in I[MaxInt]
  BY <1>2, <1>4, <1>5, <1>6, RoundsKeep
<1>8. PICK lo \in Nat, hi \in Nat : e = <<lo, hi>>
  BY <1>1, <1>2, <1>7
<1>9. lo < hi /\ (lo = 0 \/ GetNum(t, lo) # Nil)
  BY <1>1, <1>2, <1>7, <1>8
<1>10. UnboundSearch(t, j0) = IF GetNum(t, hi) = Nil THEN Between(t, lo, hi) ELSE Linear(t)
  <2>1. UnboundSearch(t, j0) = IF GetNum(t, e[2]) = Nil THEN Between(t, e[1], e[2]) ELSE Linear(t)
    BY <1>3, <1>6 DEF UnboundSearch
  <2> QED BY <1>8, <2>1
<1>11. CASE GetNum(t, hi) = Nil
  <2>1. IsBorder(t, Between(t, lo, hi))
    BY <1>9, <1>11, BetweenIs
  <2> QED BY <1>10, <1>11, <2>1
<1>12. CASE GetNum(t, hi) # Nil
  BY <1>10, <1>12, LinearIs
<1> QED BY <1>11, <1>12

LEMMA GetNIs ==
  ASSUME NEW t, Sound(t)
  PROVE  IsBorder(t, GetN(t))
<1>1. PICK j : j = Len(t.array)
  OBVIOUS
<1>2. j \in Nat
  BY <1>1, NodeFacts DEF Sound
<1>3. j > 0 => GetNum(t, j) = t.array[j]
  <2>1. SUFFICES ASSUME j > 0 PROVE GetNum(t, j) = t.array[j]
    OBVIOUS
  <2>2. CASE j \in Ints
    <3>1. InArray(t, j)
      BY <1>1, <1>2, <2>1, <2>2 DEF InArray
    <3> QED BY <2>2, <3>1 DEF GetNum, Get
  <2>3. CASE j \notin Ints
    <3>1. j \in 1..Len(t.array)
      BY <1>1, <1>2, <2>1
    <3>2. t.array[j] = Nil
      BY <2>3, <3>1 DEF Sound, ArrayOfInts
    <3> QED BY <2>3, <3>2 DEF GetNum
  <2> QED BY <2>2, <2>3
<1>4. CASE j > 0 /\ t.array[j] = Nil
  <2>1. GetN(t) = Between(t, 0, j)
    BY <1>1, <1>4 DEF GetN
  <2>2. IsBorder(t, Between(t, 0, j))
    BY <1>2, <1>3, <1>4, BetweenIs
  <2> QED BY <2>1, <2>2
<1>5. CASE ~ (j > 0 /\ t.array[j] = Nil) /\ Size(t) = 0
  <2>1. GetN(t) = j
    BY <1>1, <1>5 DEF GetN
  <2>2. GetNum(t, j + 1) = Nil
    <3>1. SUFFICES ASSUME j + 1 \in Ints PROVE Get(t, j + 1) = Nil
      BY DEF GetNum
    <3>2. ~ InArray(t, j + 1)
      BY <1>1, <1>2 DEF InArray
    <3>3. Live(t, j + 1) = {}
      BY <1>5 DEF Live, Nodes
    <3> QED BY <3>1, <3>2, <3>3, GetNone, KeysAre
  <2> QED BY <1>2, <1>3, <1>5, <2>1, <2>2 DEF IsBorder
<1>6. CASE ~ (j > 0 /\ t.array[j] = Nil) /\ Size(t) # 0
  <2>1. GetN(t) = UnboundSearch(t, j)
    BY <1>1, <1>6 DEF GetN
  <2>2. j = 0 \/ GetNum(t, j) # Nil
    BY <1>2, <1>3, <1>6
  <2> QED BY <1>2, <2>1, <2>2, UnboundIs
<1> QED BY <1>4, <1>5, <1>6

LEMMA SoundSizes ==
  ASSUME TableInvariant
  PROVE  SizesSound
<1>1. Sound(tab)
  BY DEF TableInvariant
<1>2. Border
  BY <1>1, GetNIs DEF IsBorder, Border
<1>3. RehashMakesRoom
  BY <1>1, RehashKeeps DEF RehashMakesRoom
<1> QED BY <1>2, <1>3 DEF SizesSound

---------------------------------------------------------------------------
(* The theorems.                                                                *)

LEMMA InvariantStep ==
  ASSUME TableInvariant, [Next]_vars
  PROVE  TableInvariant'
<1>1. CASE UNCHANGED vars
  BY <1>1 DEF vars, TableInvariant, TraversalKept
<1>2. ASSUME NEW k \in Keys, NEW v \in Values \cup {Nil}, Assign(k, v) PROVE TableInvariant'
  BY <1>2, AssignInvariant
<1>3. ASSUME NEW n \in Positional, NEW new \in [1..n -> Values \cup {Nil}], SetList(new) PROVE TableInvariant'
  BY <1>3, SetListInvariant
<1>4. ASSUME NEW S \in SUBSET Present(tab), Collect(S) PROVE TableInvariant'
  BY <1>4, CollectInvariant
<1> QED BY <1>1, <1>2, <1>3, <1>4, ConstructedInvariant, BeginInvariant, NextInvariant DEF Next

(* The nodes of a table are always sound: chained from their main positions,    *)
(* one live node per key; and what a traversal has returned are the fields up   *)
(* to its key (ltable.c, between calls of its functions).                       *)
THEOREM TableStaysSound == Spec => []TableInvariant
<1>1. Init => TableInvariant
  BY InitInvariant
<1>2. TableInvariant /\ [Next]_vars => TableInvariant'
  BY InvariantStep
<1> QED BY <1>1, <1>2, PTL DEF Spec

(* The types, the main invariant that a comment of ltable.c states, and that a  *)
(* key is found before a dead key with its address (newkey, mainposition).      *)
THEOREM NodesAreSound == Spec => []NodesSound
<1>1. TableInvariant => NodesSound
  BY SoundNodes
<1> QED BY <1>1, TableStaysSound, PTL

(* findindex always finds the key that next was given (luaH_next).              *)
THEOREM CursorIsFound == Spec => []CursorFound
<1>1. TableInvariant => CursorFound
  BY DEF TableInvariant, TraversalKept, CursorFound
<1> QED BY <1>1, TableStaysSound, PTL

(* The length is a border, and rehash makes room for the key it is called for   *)
(* (luaH_getn, computesizes, rehash).                                           *)
THEOREM SizesAreSound == Spec => []SizesSound
<1>1. TableInvariant => SizesSound
  BY SoundSizes
<1> QED BY <1>1, TableStaysSound, PTL

LEMMA MapInitial ==
  ASSUME Init
  PROVE  Map!Init
<1>1. PICK s \in Sizes : tab = NewTable(s[1], s[2])
  BY DEF Init
<1>2. s[1] \in Nat /\ s[2] \in 0..MostNodes
  BY SizesAre, TableAssumption
<1>3. \A j \in Keys : Get(tab, j) = Nil
  BY <1>1, <1>2, NewKeeps
<1>4. Fields = [k \in Keys |-> Nil]
  BY <1>3 DEF Fields
<1> QED BY <1>4 DEF Init, Map!Init

LEMMA FieldsAre == /\ \A k \in Keys : Fields[k] = Get(tab, k)
                   /\ \A k \in Keys : Fields'[k] = Get(tab', k)
                   /\ (\A k \in Keys : Get(tab', k) = Get(tab, k)) => Fields' = Fields
BY DEF Fields

LEMMA AssignMaps ==
  ASSUME TableInvariant, NEW k \in Keys, NEW v \in Values \cup {Nil}, Assign(k, v)
  PROVE  Map!Assign(k)
<1>1. \A j \in Keys : Get(tab', j) = IF j = k THEN v ELSE Get(tab, j)
  BY AssignInvariant DEF Assigned, OneField
<1>2. UNCHANGED <<weak, traversing, visited>> /\ (traversing => Get(tab, k) # Nil)
  BY DEF Assign
<1>3. \A j \in Keys \ {k} : Fields'[j] = Fields[j]
  BY <1>1, FieldsAre
<1>4. Fields'[k] \in Values \cup {Nil}
  BY <1>1, FieldsAre
<1>5. traversing => k \in Map!Present
  BY <1>2, FieldsAre DEF Map!Present
<1> QED BY <1>2, <1>3, <1>4, <1>5 DEF Map!Assign

LEMMA SetListMaps ==
  ASSUME TableInvariant, NEW n \in Positional, NEW new \in [1..n -> Values \cup {Nil}], SetList(new)
  PROVE  Map!SetList(n)
<1>1. \A j \in Keys : ~ (j \in 1..n) => Get(tab', j) = Get(tab, j)
  BY SetListInvariant DEF OthersKept
<1>2. UNCHANGED <<weak, traversing, visited>> /\ ~ traversing
  BY DEF SetList, TableInvariant, TraversalKept
<1>3. \A j \in Keys \ (1..n) : Fields'[j] = Fields[j]
  BY <1>1, FieldsAre
<1> QED BY <1>2, <1>3 DEF Map!SetList

LEMMA CollectMaps ==
  ASSUME TableInvariant, NEW S \in SUBSET Present(tab), Collect(S)
  PROVE  Map!Clear \/ (Fields' = Fields /\ UNCHANGED <<weak, traversing, visited>>)
<1>1. \A j \in Keys : Get(tab', j) = IF j \in S THEN Nil ELSE Get(tab, j)
  BY CollectInvariant
<1>2. UNCHANGED <<weak, traversing, visited>> /\ (S # {} => weak)
  BY DEF Collect
<1>3. CASE S = {}
  BY <1>1, <1>2, <1>3, FieldsAre
<1>4. CASE S # {}
  <2>1. \A j \in Keys : Fields'[j] \in {Fields[j], Nil}
    BY <1>1, FieldsAre
  <2> QED BY <1>2, <1>4, <2>1 DEF Map!Clear
<1> QED BY <1>3, <1>4

LEMMA NextMaps ==
  ASSUME TableInvariant, NextField
  PROVE  Map!End \/ \E k \in Keys : Map!Visit(k)
<1>1. /\ traversing /\ UNCHANGED <<tab, weak>>
      /\ \/ /\ ~ traversing' /\ visited' = {}
            /\ \A j \in Keys : Get(tab, j) # Nil => j \in visited
         \/ /\ traversing' /\ cursor' \in Keys \ visited /\ Get(tab, cursor') # Nil
            /\ visited' = visited \cup {cursor'}
  BY NextInvariant
<1>2. Fields' = Fields /\ traversing' \in BOOLEAN /\ traversing \in BOOLEAN
  BY <1>1, FieldsAre, NextInvariant DEF TableInvariant
<1>3. CASE ~ traversing'
  <2>1. Map!Present \subseteq visited
    BY <1>1, <1>3, FieldsAre DEF Map!Present
  <2> QED BY <1>1, <1>2, <1>3, <2>1 DEF Map!End
<1>4. CASE traversing'
  <2>1. PICK k : k = cursor'
    OBVIOUS
  <2>2. k \in Keys \ visited /\ Get(tab, k) # Nil /\ visited' = visited \cup {k}
    BY <1>1, <1>4, <2>1
  <2>3. k \in Map!Present \ visited
    BY <2>2, FieldsAre DEF Map!Present
  <2> QED BY <1>1, <1>2, <1>4, <2>2, <2>3 DEF Map!Visit
<1> QED BY <1>3, <1>4

LEMMA MapStep ==
  ASSUME TableInvariant, [Next]_vars
  PROVE  [Map!Next]_<<Fields, weak, traversing, visited>>
<1>1. CASE UNCHANGED vars
  BY <1>1, FieldsAre DEF vars
<1>2. ASSUME NEW k \in Keys, NEW v \in Values \cup {Nil}, Assign(k, v) PROVE Map!Next
  BY <1>2, AssignMaps DEF Map!Next
<1>3. ASSUME NEW n \in Positional, NEW new \in [1..n -> Values \cup {Nil}], SetList(new) PROVE Map!Next
  BY <1>3, SetListMaps DEF Map!Next
<1>4. ASSUME NEW S \in SUBSET Present(tab), Collect(S)
      PROVE  Map!Next \/ (Fields' = Fields /\ UNCHANGED <<weak, traversing, visited>>)
  BY <1>4, CollectMaps DEF Map!Next
<1>5. CASE Constructed
  BY <1>5, FieldsAre DEF Constructed
<1>6. CASE Begin
  <2>1. Map!Begin
    BY <1>6, FieldsAre DEF Begin, Map!Begin
  <2> QED BY <2>1 DEF Map!Next
<1>7. CASE NextField
  BY <1>7, NextMaps DEF Map!Next
<1> QED BY <1>1, <1>2, <1>3, <1>4, <1>5, <1>6, <1>7 DEF Next

(* A table is the map that the manual promises: an assignment changes one       *)
(* field, a rehash none, the collector clears fields of weak tables only, and a *)
(* traversal returns each field once (luaH_set, resize, luaH_next, cleartable). *)
THEOREM TableIsAMap == Spec => MapSpec
<1>1. Init => Map!Init
  BY MapInitial
<1>2. TableInvariant /\ [Next]_vars => [Map!Next]_<<Fields, weak, traversing, visited>>
  BY MapStep
<1> QED BY <1>1, <1>2, TableStaysSound, PTL DEF Spec, MapSpec, Map!Spec
================================================================================
