----------------------------- MODULE MCLuaMeta -----------------------------
(* The instance of LuaMeta for TLC: one program for each family of events. *)
EXTENDS LuaMeta, TLC

CONSTANTS t1, t2, u1, u2, f1, f2, one

Nothing == [writes |-> {}, metas |-> {}, reads |-> {}, concats |-> {},
            answers |-> {Nil, one}, ops |-> {}]
Stores(keys, vs) == {t1, t2} \X keys \X vs
Chained == {<<t1, t1>>, <<t1, t2>>, <<t2, t1>>, <<u1, t1>>, <<Basic, t2>>, <<t1, NULL>>}
Paired == ({u1, u2} \X {t1, t2}) \cup {<<t1, t1>>, <<t2, t1>>}

\* In a chain of tables, userdata and strings an event leads round or to an end.
Links(event) == {<<t1, event, v>> : v \in {Nil, f1, t2}} \cup {<<t2, event, v>> : v \in {Nil, t1, u1}}

Operands == {t1, u1, Number(1), Str(<<>>), Str(<<7>>)}
Concats == [1..2 -> Operands] \cup [1..3 -> Operands] \cup [1..4 -> {u1, Number(1), Str(<<>>)}]

MCPrograms == {
  [Nothing EXCEPT !.ops = {"get"}, !.reads = {"x"}, !.metas = Chained,
                  !.writes = Links("__index") \cup {<<t2, "x", Nil>>, <<t2, "x", one>>}],
  [Nothing EXCEPT !.ops = {"set"}, !.metas = Chained,
                  !.writes = Links("__newindex") \cup {<<t2, "x", Nil>>, <<t2, "x", one>>}],
  [Nothing EXCEPT !.ops = {"eq", "gc"}, !.metas = Paired,
                  !.writes = Stores({"__eq"}, {Nil, f1, f2}) \cup {<<t1, "__mode", one>>}],
  [Nothing EXCEPT !.ops = {"order"}, !.metas = Paired,
                  !.writes = Stores({"__lt", "__le"}, {Nil, f1, f2})],
  [Nothing EXCEPT !.ops = {"arith", "call"}, !.metas = {<<t1, t1>>, <<u1, t2>>, <<Basic, t2>>},
                  !.writes = Stores({"__add"}, {f1}) \cup {<<t2, "__add", t1>>}
                             \cup Stores({"__len", "__call"}, {f2})],
  [Nothing EXCEPT !.ops = {"concat"}, !.metas = {<<t1, t1>>, <<u1, t2>>, <<Basic, t2>>},
                  !.answers = {one, t1, Str(<<7>>)}, !.concats = Concats,
                  !.writes = {<<t1, "__concat", f1>>, <<t2, "__concat", f2>>, <<t2, "__concat", t1>>,
                              <<t1, "__call", f1>>}]
}

\* outcome is written and never read.
View == <<program, raw, mt, flags, op, pending>>
=============================================================================
