------------------------------- MODULE LuaStrings ------------------------------
(* The string table (lstring.c) and the collector's sweep of it (lgc.c).  Every *)
(* string is in the table, once; a program that makes a string it finds there  *)
(* gets the one that is there, also when the collector holds it for dead and   *)
(* has not come to its chain yet.  The table grows when a string is made and    *)
(* shrinks at the end of a sweep, which moves every chain.  What is held is     *)
(* marked in one step here (LuaCollector has the marking).                     *)
EXTENDS Integers, FiniteSets

CONSTANTS Contents,       \* what strings say; the number is its hash
          MaxCopies,      \* bound: strings that say the same, if there could be several
          MINSTRTABSIZE,  \* the table's least size (32 in the build)
          MaxTableSize    \* bound: of the table's size

ASSUME StringsAssumption == Contents \subseteq Nat /\ MINSTRTABSIZE \in Nat \ {0}

Strings == Contents \X (1..MaxCopies)     \* what one says, and which of its copies it is
Says(s) == s[1]

VARIABLES tsize,       \* strt.size
          tchain,      \* strt.hash: the strings of each chain
          tmark,       \* string -> "free", "white", "black", or "dead": the other white
          theld,       \* strings the program can reach
          tstate,      \* gcstate: "pause", "sweepstring", "sweep"
          tsweep       \* sweepstrgc

stringVars == <<tsize, tchain, tmark, theld, tstate, tsweep>>

StringsInit == /\ tsize = MINSTRTABSIZE /\ tchain = [k \in 0..(tsize - 1) |-> {}]
               /\ tmark = [s \in Strings |-> "free"]
               /\ theld = {} /\ tstate = "pause" /\ tsweep = 0

lmod(h, size) == h % size
Used == Cardinality({s \in Strings : tmark[s] # "free"})      \* strt.nuse

(* luaS_resize: every string to the chain its hash has in the new table.       *)
Rehashed(chain, size) ==
  [k \in 0..(size - 1) |->
     {s \in UNION {chain[j] : j \in DOMAIN chain} : lmod(Says(s), size) = k}]

(* luaS_resize: refused while the collector sweeps chains by number.           *)
Resized(chain, size) ==
  IF tstate = "sweepstring" THEN tsize' = tsize /\ tchain' = chain
  ELSE tsize' = size /\ tchain' = Rehashed(chain, size)

(* newlstr: the string is chained, then the table may grow.  The allocation of *)
(* the larger table may fail: the string stays, and nobody holds it.           *)
NewStringOf(c) ==
  LET chained(s) == [tchain EXCEPT ![lmod(c, tsize)] = @ \cup {s}]
      crowded == Used + 1 > tsize
  IN \E s \in Strings :
       /\ Says(s) = c /\ tmark[s] = "free" /\ \A i \in 1..(s[2] - 1) : tmark[<<c, i>>] # "free"
       /\ tmark' = [tmark EXCEPT ![s] = "white"]
       /\ \/ /\ IF crowded /\ 2 * tsize <= MaxTableSize THEN Resized(chained(s), 2 * tsize)
                           ELSE tchain' = chained(s) /\ UNCHANGED tsize
             /\ theld' = theld \cup {s}
          \/ /\ crowded /\ tstate # "sweepstring"
             /\ tchain' = chained(s) /\ UNCHANGED <<tsize, theld>>
       /\ UNCHANGED <<tstate, tsweep>>

(* As luaS_newlstr would be if it passed over the dead.                         *)
InChainAlive(c) == {s \in tchain[lmod(c, tsize)] : Says(s) = c /\ tmark[s] # "dead"}

InChain(c) == {s \in tchain[lmod(c, tsize)] : Says(s) = c}

(* As luaS_newlstr would be without changewhite.                               *)
FoundDead(c) ==
  \E s \in InChain(c) :
    /\ theld' = theld \cup {s}
    /\ UNCHANGED <<tsize, tchain, tmark, tstate, tsweep>>

(* luaS_newlstr: a string of its chain that says the same; a dead one is       *)
(* revived.                                                                    *)
Found_newlstr(c) ==
  \E s \in InChain(c) :
    /\ tmark' = [tmark EXCEPT ![s] = IF @ = "dead" THEN "white" ELSE @]
    /\ theld' = theld \cup {s}
    /\ UNCHANGED <<tsize, tchain, tstate, tsweep>>

luaS_newlstr(c) == Found_newlstr(c) \/ (InChain(c) = {} /\ NewStringOf(c))

Released(s) == /\ s \in theld /\ theld' = theld \ {s}
               /\ UNCHANGED <<tsize, tchain, tmark, tstate, tsweep>>

(* atomic: what is held is marked and the whites change places.                *)
MarkStrings == /\ tstate = "pause"
               /\ tmark' = [s \in Strings |-> CASE tmark[s] = "free" -> "free"
                                                [] s \in theld -> "black"
                                                [] OTHER -> "dead"]
               /\ tstate' = "sweepstring"
               /\ UNCHANGED <<tsize, tchain, theld, tsweep>>

(* GCSsweepstring: one chain; its dead are freed, the others white again.      *)
SweepChain ==
  LET chain == tchain[tsweep]
      dead == {s \in chain : tmark[s] = "dead"}
  IN /\ tstate = "sweepstring"
     /\ tmark' = [s \in Strings |-> CASE s \in dead -> "free"
                                      [] s \in chain \ dead -> "white"
                                      [] OTHER -> tmark[s]]
     /\ tchain' = [tchain EXCEPT ![tsweep] = chain \ dead]
     /\ tsweep' = tsweep + 1
     /\ tstate' = IF tsweep + 1 >= tsize THEN "sweep" ELSE tstate
     /\ UNCHANGED <<tsize, theld>>

(* The end of GCSsweep: checkSizes halves a table that is nearly empty; when    *)
(* there is no memory for the smaller one, the error leaves the state as it is. *)
checkSizes ==
  /\ tstate = "sweep"
  /\ LET shrinks == Used < tsize \div 4 /\ tsize > MINSTRTABSIZE * 2
     IN /\ IF shrinks THEN Resized(tchain, tsize \div 2) ELSE UNCHANGED <<tsize, tchain>>
        /\ tstate' = "pause" /\ tsweep' = 0
  /\ UNCHANGED <<tmark, theld>>

StringsNext == \/ \E c \in Contents : luaS_newlstr(c)
               \/ \E s \in Strings : Released(s)
               \/ MarkStrings \/ SweepChain \/ checkSizes

StringsSpec == StringsInit /\ [][StringsNext]_stringVars

(* Equal strings are the same object, so that == may compare pointers: no two   *)
(* strings of the table say the same, and each is in the chain where the next  *)
(* luaS_newlstr will look for it.                                              *)
InternedOnce ==
  /\ \A s, r \in Strings : tmark[s] # "free" /\ tmark[r] # "free" /\ s # r => Says(s) # Says(r)
  /\ \A s \in Strings : tmark[s] # "free" => s \in tchain[lmod(Says(s), tsize)]

(* The sweep frees every string that was dead when it began and is not revived, *)
(* none the program holds, and comes to every chain although the table may      *)
(* want to be resized meanwhile.                                               *)
SweepsEveryChain ==
  /\ \A s \in theld : tmark[s] # "free"
  /\ tstate # "sweepstring" => \A s \in Strings : tmark[s] # "dead"

(* The table between the program that looks strings up and the sweep.          *)
StringsSound == InternedOnce /\ SweepsEveryChain
================================================================================
