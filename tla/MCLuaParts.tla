------------------------------- MODULE MCLuaParts ------------------------------
(* Components that share no state with each other, checked in one run: the      *)
(* first state says which of them moves.                                       *)
EXTENDS LuaRefs, LuaBuffer, LuaFiles, LuaRequire, LuaClose, LuaInterrupt, LuaSort,
        LuaStrings, LuaStack, LuaText

(* The texts: subjects of the letters a and b, and patterns of up to three items  *)
(* or around a capture.  The characters an item stands for are written out, 0    *)
(* (the place past an end) with the complements.                                *)
a == 97
b == 98
Subjects == {<<>>, <<a>>, <<a, b>>, <<b, a, a>>, <<a, a, b, b>>, <<a, b, a, b, a>>}
Sets == {<<<<a>>, {a}>>, <<<<Dot>>, {a, b}>>, <<<<L_ESC, 65>>, {0}>>,
         <<<<Left, Hat, a, Right>>, {0, b}>>, <<<<Left, a, Minus, b, Right>>, {a, b}>>}
Often == {0, Star, Plus, Minus, Quest}
Frontiers == {FrontierItem(<<Left, a, Right>>, {a}), FrontierItem(<<Left, Hat, b, Right>>, {a, 0})}
CharItems == {Chars_(set[1], set[2], n) : set \in Sets, n \in Often}
Simple == CharItems \cup Frontiers \cup {PositionItem, BalanceItem(a, b), BalanceItem(b, b), EndItem}
Few == {Chars_(<<a>>, {a}, n) : n \in {0, Star, Minus}} \cup {Chars_(<<Dot>>, {a, b}, Quest), PositionItem}
AllExamples ==
  LET shapes == {<<>>} \cup {<<x>> : x \in Simple} \cup {<<x, y>> : x \in Simple \ {EndItem}, y \in Simple}
             \cup {<<x, y, z>> : x \in Few, y \in Few, z \in Few}
             \cup {<<OpenItem, x, ShutItem, y, BackItem(1)>> : x \in CharItems, y \in Few}
             \cup {<<OpenItem, x, OpenItem, y, ShutItem, ShutItem, z>> : x \in Few, y \in Few, z \in Few}
             \cup {<<x, OpenItem, y, ShutItem, z, BackItem(1)>> : x \in Few, y \in Few \ {PositionItem}, z \in Few}
      back == {<<OpenItem, x, ShutItem, y, OpenItem, z, ShutItem, BackItem(2)>> :
                 x \in Few, y \in Few, z \in Few}
  IN {Example(src, items, FALSE) : src \in Subjects, items \in shapes \cup back}
     \cup {Example(src, <<x>>, TRUE) : src \in Subjects, x \in Simple}

VARIABLE part

Parts == {"refs", "buffer", "files", "require", "close", "interrupt", "sort", "strings", "stack",
          "text"}

Init == /\ part \in Parts
        /\ RefInit /\ BufferInit /\ FilesInit /\ RequireInit /\ CloseInit
        /\ InterruptInit /\ SortInit /\ StringsInit /\ StackInit /\ TextInit

vars == <<part, refVars, bufferVars, fileVars, requireVars, closeVars, interruptVars,
          sortVars, stringVars, stackVars, textVars>>

Keeps(p, v) == part = p \/ UNCHANGED v
Only(p) ==
  /\ part = p /\ UNCHANGED part
  /\ Keeps("refs", refVars)
  /\ Keeps("buffer", bufferVars)
  /\ Keeps("files", fileVars)
  /\ Keeps("require", requireVars)
  /\ Keeps("close", closeVars)
  /\ Keeps("interrupt", interruptVars)
  /\ Keeps("sort", sortVars)
  /\ Keeps("strings", stringVars)
  /\ Keeps("stack", stackVars)
  /\ Keeps("text", textVars)

Next == \/ Only("refs") /\ RefNext
        \/ Only("buffer") /\ BufferNext
        \/ Only("files") /\ FilesNext
        \/ Only("require") /\ RequireNext
        \/ Only("close") /\ CloseNext
        \/ Only("interrupt") /\ InterruptNext
        \/ Only("sort") /\ SortNext
        \/ Only("strings") /\ StringsNext
        \/ Only("stack") /\ StackNext
        \/ Only("text") /\ TextNext

(* Only lua_close promises to end; it needs the fairness of LuaClose.           *)
Spec == Init /\ [][Next]_vars /\ CloseFairness
================================================================================
