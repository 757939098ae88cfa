----------------------------- MODULE MCLuaTable -----------------------------
(* Instances of LuaTable for TLC. *)
EXTENDS LuaTable, TLC

CONSTANTS a, b, c, v1

Hashes == [k \in Keys |-> IF k = a THEN 0 ELSE IF k = b THEN 4 ELSE IF k = c THEN 1 ELSE k]
InitialSizes == {<<0, 0>>, <<0, 4>>, <<2, 1>>}
=============================================================================
