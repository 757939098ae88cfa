---------------------------- MODULE LuaTableMap ----------------------------
(***************************************************************************)
(* What a table promises to a Lua program: it is a finite map, and a       *)
(* traversal with next visits every field once, while existing fields are  *)
(* assigned or cleared meanwhile (manual, functions next and lua_next).    *)
(***************************************************************************)
EXTENDS Naturals

CONSTANTS Keys, Values, Nil, Positional

VARIABLES
  value,          (* key -> value, Nil for absent fields                    *)
  weak,           (* the collector may clear fields                         *)
  traversing,     (* a traversal is under way                               *)
  visited         (* the keys it has returned                               *)

Present == {k \in Keys : value[k] # Nil}

Init == /\ value = [k \in Keys |-> Nil]
        /\ weak \in BOOLEAN /\ traversing = FALSE /\ visited = {}

\* t[k] = v; during a traversal for existing fields only.
Assign(k) == /\ UNCHANGED <<weak, traversing, visited>>
             /\ traversing => k \in Present
             /\ \A j \in Keys \ {k} : value'[j] = value[j]
             /\ value'[k] \in Values \cup {Nil}

\* The positional fields 1..n of a constructor, and nothing else.
SetList(n) == /\ UNCHANGED <<weak, traversing, visited>>
              /\ ~traversing
              /\ \A k \in Keys \ (1..n) : value'[k] = value[k]

\* The collector clears fields of a weak table.
Clear == /\ UNCHANGED <<weak, traversing, visited>>
         /\ weak
         /\ \A k \in Keys : value'[k] \in {value[k], Nil}

Begin == ~traversing /\ traversing' = TRUE /\ UNCHANGED <<value, weak, visited>>

Visit(k) == /\ traversing /\ k \in Present \ visited
            /\ visited' = visited \cup {k}
            /\ UNCHANGED <<value, weak, traversing>>

\* next returns nil when no field is left, and only then.
End == /\ traversing /\ Present \subseteq visited
       /\ traversing' = FALSE /\ visited' = {}
       /\ UNCHANGED <<value, weak>>

Next == \/ Clear \/ Begin \/ End
        \/ \E k \in Keys : Visit(k) \/ Assign(k)
        \/ \E n \in Positional : SetList(n)

Spec == Init /\ [][Next]_<<value, weak, traversing, visited>>
=============================================================================
