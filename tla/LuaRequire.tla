------------------------------ MODULE LuaRequire -------------------------------
(* require (loadlib.c): the table _LOADED says what is loaded, and holds a      *)
(* sentinel while a module's chunk runs.  Loaders and chunks call require       *)
(* themselves, fail, and are called in protected mode by whoever likes.         *)
EXTENDS Integers, Sequences

CONSTANTS ModNames,    \* names of modules
          MaxNested    \* bound: calls of require in progress (LUAI_MAXCCALLS in the build)

VARIABLES qloaded,     \* _LOADED
          qcalls,      \* calls of require in progress: [name, phase]
          qfailed      \* history: names whose chunk was left by an error

requireVars == <<qloaded, qcalls, qfailed>>

ChunkResults == {"nil", "false", "value"}       \* what a chunk may return
ModuleTable == "table"                          \* what module() puts there

RequireInit == /\ qloaded = [m \in ModNames |-> "nil"]
               /\ qcalls = <<>> /\ qfailed = {}

Truthy(v) == v \notin {"nil", "false"}     \* lua_toboolean
Innermost == qcalls[Len(qcalls)]
Running(phase) == qcalls # <<>> /\ Innermost.phase = phase

(* An error leaves every call down to the one some pcall protects; the chunks   *)
(* it leaves have not set their fields.                                        *)
LeftByError(k) ==
  /\ qcalls' = SubSeq(qcalls, 1, k)
  /\ qfailed' = qfailed \cup {qcalls[i].name : i \in {i \in (k + 1)..Len(qcalls) :
                                                       qcalls[i].phase = "chunk"}}
  /\ UNCHANGED qloaded

(* ll_require of a name that is not loaded: the loaders are asked.  A truthy    *)
(* entry is the result; the sentinel there is an error in the caller.           *)
Require(m) ==
  /\ ~Truthy(qloaded[m]) /\ Len(qcalls) < MaxNested
  /\ qcalls' = Append(qcalls, [name |-> m, phase |-> "loaders"])
  /\ UNCHANGED <<qloaded, qfailed>>
RequireLoop(m) == /\ qloaded[m] = "sentinel"
                  /\ \E k \in 0..(Len(qcalls) - 1) : LeftByError(k)

(* As ll_require would be if it put the sentinel there after the chunk.        *)
FoundUnmarked ==
  /\ Running("loaders")
  /\ qcalls' = [qcalls EXCEPT ![Len(qcalls)].phase = "chunk"]
  /\ qfailed' = qfailed \ {Innermost.name}
  /\ UNCHANGED qloaded

(* A loader found the module: the sentinel, then its chunk.                    *)
Found ==
  /\ Running("loaders")
  /\ qloaded' = [qloaded EXCEPT ![Innermost.name] = "sentinel"]
  /\ qcalls' = [qcalls EXCEPT ![Len(qcalls)].phase = "chunk"]
  /\ qfailed' = qfailed \ {Innermost.name}

(* No loader finds it, a loader fails, or the chunk does.                      *)
Fails == qcalls # <<>> /\ \E k \in 0..(Len(qcalls) - 1) : LeftByError(k)

(* As ll_require would be without its last test for the sentinel.              *)
ReturnsAsIs(v) ==
  LET m == Innermost.name
  IN /\ Running("chunk")
     /\ qloaded' = [qloaded EXCEPT ![m] = IF v # "nil" THEN v ELSE @]
     /\ qcalls' = SubSeq(qcalls, 1, Len(qcalls) - 1)
     /\ UNCHANGED qfailed

(* The chunk returns: its result if it has one, else what it put there itself, *)
(* else true.                                                                  *)
Returns(v) ==
  LET m == Innermost.name
  IN /\ Running("chunk")
     /\ qloaded' = [qloaded EXCEPT ![m] = CASE v # "nil"       -> v
                                            [] @ = "sentinel"  -> "true"
                                            [] OTHER           -> @]
     /\ qcalls' = SubSeq(qcalls, 1, Len(qcalls) - 1)
     /\ UNCHANGED qfailed

(* ll_module in a chunk: a table of the module's own, unless it has one.       *)
DefineModule == /\ Running("chunk")
                /\ qloaded' = [qloaded EXCEPT ![Innermost.name] = ModuleTable]
                /\ UNCHANGED <<qcalls, qfailed>>

(* The program makes a module loadable again: package.loaded[name] = nil.      *)
Unload(m) == /\ qcalls = <<>> /\ qloaded[m] # "nil"
             /\ qloaded' = [qloaded EXCEPT ![m] = "nil"]
             /\ qfailed' = qfailed \ {m} /\ UNCHANGED qcalls

RequireNext == \/ \E m \in ModNames : Require(m) \/ RequireLoop(m) \/ Unload(m)
               \/ \E v \in ChunkResults : Returns(v)
               \/ Found \/ Fails \/ DefineModule

RequireSpec == RequireInit /\ [][RequireNext]_requireVars

(* A module's chunk never starts while it is running, through whatever chain   *)
(* of loaders, chunks and protected calls it is required again.                *)
ChunkNotNested ==
  \A i, j \in 1..Len(qcalls) : i # j => \/ qcalls[i].name # qcalls[j].name
                                        \/ "loaders" \in {qcalls[i].phase, qcalls[j].phase}

(* The sentinel stands for a chunk that is running or was left by an error     *)
(* ("loop or previous error loading module"), and is never what a finished     *)
(* require leaves behind for the next one.                                     *)
SentinelMeansUnfinished ==
  \A m \in ModNames : qloaded[m] = "sentinel" =>
    \/ m \in qfailed
    \/ \E i \in 1..Len(qcalls) : qcalls[i] = [name |-> m, phase |-> "chunk"]

(* What the sentinel is for, and that it does not stay.                        *)
LoadedOnce == ChunkNotNested /\ SentinelMeansUnfinished
================================================================================
