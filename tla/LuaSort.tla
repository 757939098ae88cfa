--------------------------------- MODULE LuaSort -------------------------------
(* table.sort (ltablib.c): a quicksort of a[1..n] in place, with a comparison   *)
(* the program gives.  Each comparison is a step of its own.  A comparison may  *)
(* be an order, or answer anything at all: an order function that is not one is *)
(* noticed only when an index has left the range.                              *)
EXTENDS Integers, Sequences, FiniteSets

CONSTANTS MaxElements, \* bound: the length of the array
          SortKeys     \* what the elements are: numbers that a < b compares

ASSUME SortAssumption == MaxElements \in Nat /\ SortKeys \subseteq Nat \ {0}

Absent == 0                                \* nil, beside the elements
Indices == 0..(MaxElements + 2)

VARIABLES sarray,      \* the table at the indices the sort may come to
          sn,          \* its length, aux_getn
          sorder,      \* the comparison: "less", or "any"
          spc,         \* where auxsort stands
          sl, su, si, sj,      \* its variables
          sstack       \* the calls of auxsort that wait: their l and u

sortVars == <<sarray, sn, sorder, spc, sl, su, si, sj, sstack>>

SortInit == /\ sarray = [k \in Indices |-> Absent]
            /\ sn = 0 /\ sorder = "less" /\ spc = "idle"
            /\ sl = 0 /\ su = 0 /\ si = 0 /\ sj = 0 /\ sstack = <<>>

(* sort: the array as the program made it.                                     *)
Sort == /\ spc = "idle"
        /\ \E n \in 0..MaxElements, order \in {"less", "any"} :
             \E a \in [1..n -> SortKeys] :
               /\ sarray' = [k \in Indices |-> IF k \in 1..n THEN a[k] ELSE Absent]
               /\ sn' = n /\ sorder' = order /\ su' = n
        /\ spc' = "ends" /\ sl' = 1
        /\ UNCHANGED <<si, sj, sstack>>

(* sort_comp: the answers a comparison of two elements may give.               *)
sort_comp(x, y) == IF sorder = "less" THEN {x < y} ELSE BOOLEAN

Swapped(x, y) == [sarray EXCEPT ![x] = sarray[y], ![y] = sarray[x]]     \* set2
Kept == UNCHANGED <<sn, sorder>>

(* a[u] < a[l]: the ends of the range.                                         *)
SortEnds ==
  /\ spc = "ends" /\ sl < su
  /\ \E less \in sort_comp(sarray[su], sarray[sl]) :
       sarray' = IF less THEN Swapped(sl, su) ELSE sarray
  /\ spc' = IF su - sl = 1 THEN "return" ELSE "middle"
  /\ si' = (sl + su) \div 2
  /\ UNCHANGED <<sl, su, sj, sstack>> /\ Kept

SortEmpty == /\ spc = "ends" /\ sl >= su /\ spc' = "return"
             /\ UNCHANGED <<sarray, sl, su, si, sj, sstack>> /\ Kept

(* a[i] < a[l], else a[u] < a[i]; then the pivot goes to u-1.                   *)
SortMiddle ==
  LET pivoted(a) == IF su - sl = 2 THEN a
                    ELSE [a EXCEPT ![si] = a[su - 1], ![su - 1] = a[si]]
  IN /\ spc = "middle"
     /\ \E low \in sort_comp(sarray[si], sarray[sl]), high \in sort_comp(sarray[su], sarray[si]) :
          sarray' = pivoted(CASE low -> Swapped(si, sl)
                              [] ~low /\ high -> Swapped(si, su)
                              [] OTHER -> sarray)
     /\ spc' = IF su - sl = 2 THEN "return" ELSE "up"
     /\ si' = sl /\ sj' = su - 1
     /\ UNCHANGED <<sl, su, sstack>> /\ Kept

(* As the first loop would be with i > u + 1 for its error.                     *)
SortUpLate ==
  /\ spc = "up" /\ si' = si + 1
  /\ \E less \in sort_comp(sarray[si + 1], sarray[su - 1]) :
       spc' = IF ~less THEN "down" ELSE IF si + 1 > su + 1 THEN "error" ELSE "up"
  /\ UNCHANGED <<sarray, sl, su, sj, sstack>> /\ Kept

(* while a[++i] < P, where P = a[u-1]: an i beyond u is an error, once the      *)
(* comparison there has answered.                                              *)
SortUp ==
  /\ spc = "up" /\ si' = si + 1
  /\ \E less \in sort_comp(sarray[si + 1], sarray[su - 1]) :
       spc' = IF ~less THEN "down" ELSE IF si + 1 > su THEN "error" ELSE "up"
  /\ UNCHANGED <<sarray, sl, su, sj, sstack>> /\ Kept

(* while P < a[--j]; then the two change places, or the partition is done.      *)
SortDown ==
  /\ spc = "down" /\ sj' = sj - 1
  /\ \E less \in sort_comp(sarray[su - 1], sarray[sj - 1]) :
       spc' = IF less THEN (IF sj - 1 < sl THEN "error" ELSE "down")
              ELSE IF sj - 1 < si THEN "part" ELSE "swap"
  /\ UNCHANGED <<sarray, sl, su, si, sstack>> /\ Kept

SortSwap == /\ spc = "swap" /\ spc' = "up"
            /\ sarray' = Swapped(si, sj)
            /\ UNCHANGED <<sl, su, si, sj, sstack>> /\ Kept

(* As the end of the loop would be if it sorted the larger half by the call     *)
(* and kept l where it was.                                                    *)
SortPartKeepsPivot ==
  /\ spc = "part" /\ spc' = "ends"
  /\ sarray' = Swapped(su - 1, si)
  /\ LET left == si - sl < su - si
     IN /\ sstack' = Append(sstack, IF left THEN <<si + 2, su>> ELSE <<sl, si - 1>>)
        /\ sl' = IF left THEN sl ELSE si + 1
        /\ su' = IF left THEN si - 1 ELSE su
  /\ UNCHANGED <<si, sj>> /\ Kept

(* The pivot from u-1 to i; the smaller half is sorted by a call, the larger    *)
(* one by the loop after it.                                                   *)
SortPart ==
  /\ spc = "part" /\ spc' = "ends"
  /\ sarray' = Swapped(su - 1, si)
  /\ LET left == si - sl < su - si
     IN /\ sstack' = Append(sstack, IF left THEN <<si + 1, su>> ELSE <<sl, si - 1>>)
        /\ sl' = IF left THEN sl ELSE si + 1
        /\ su' = IF left THEN si - 1 ELSE su
  /\ UNCHANGED <<si, sj>> /\ Kept

SortReturn ==
  /\ spc = "return"
  /\ IF sstack = <<>> THEN spc' = "sorted" /\ UNCHANGED <<sl, su, sstack>>
     ELSE LET waiting == sstack[Len(sstack)]
          IN /\ sl' = waiting[1] /\ su' = waiting[2] /\ spc' = "ends"
             /\ sstack' = SubSeq(sstack, 1, Len(sstack) - 1)
  /\ UNCHANGED <<sarray, si, sj>> /\ Kept

SortNext == \/ Sort \/ SortEnds \/ SortEmpty \/ SortMiddle \/ SortUp \/ SortDown
            \/ SortSwap \/ SortPart \/ SortReturn

SortSpec == SortInit /\ [][SortNext]_sortVars

(* With an order the sort never fails, never comes to an index outside 1..n,    *)
(* and at its end a[1..n] is in order.                                         *)
OrderedSort ==
  sorder = "less" =>
    /\ spc # "error"
    /\ spc = "down" => si \in 1..sn
    /\ spc \in {"swap", "part"} => si \in 1..sn /\ sj \in 1..sn
    /\ spc = "sorted" => \A k \in 1..(sn - 1) : sarray[k] <= sarray[k + 1]

(* Whatever the comparison answers, the sort comes to no index but 1..n and    *)
(* the two beside them before it notices ("invalid order function").           *)
SortIndices == /\ spc \in {"up", "down", "part"} => si \in 0..(sn + 1)
               /\ spc \in {"up", "down", "part"} => sj \in 0..sn

(* No step loses an element or doubles one, whatever the comparison answers:   *)
(* what set2 stores at two indices is what lua_rawgeti read from them.          *)
SameElements ==
  spc # "idle" =>
    \A x \in SortKeys : Cardinality({k \in Indices : sarray'[k] = x})
                       = Cardinality({k \in Indices : sarray[k] = x})

(* table.sort with a comparison that is an order, and with one that is not.    *)
SortSound == [](OrderedSort /\ SortIndices) /\ [][SameElements]_sortVars
================================================================================
