--------------------------------- MODULE MCQb --------------------------------
EXTENDS QbProps, TLC

Columns == <<"a", "b">>

One == Scalar(1)
Two == Scalar(2)
Nil == Scalar(Null)
Both == SliceValue(<<1, 2>>)
None == SliceValue(<< >>)

(* Each kind of condition, with values, lists and nil, and those refused. *)
Comparisons ==
  { Eq([a |-> One]), Eq([a |-> Nil]), Eq([a |-> Both, b |-> Two]), Eq([b |-> None]), Eq(<< >>),
    NotEq([a |-> One, b |-> Nil]), NotEq([a |-> Both]), NotEq([b |-> None]),
    Lt([b |-> Two]), Gte([a |-> Two, b |-> One]), Lt([a |-> Nil]) }
Others ==
  { In("a", <<One, Nil>>), In("b", <<Both>>), In("a", << >>), NotIn("b", <<Two, One>>), NotIn("a", <<None>>),
    IsNull("b"), NotNull("a"), Between("a", 1, 2), NotBetween("b", 2, 1),
    Raw(<<"b", "=", "?">>, <<2>>), Raw(<<"a", "<", "?", "AND", "b", "=", "?">>, <<2, 1>>),
    Raw(<<"a", "=", "?">>, << >>) }
Leaves == Comparisons \cup Others

(* Those that groups are made of. *)
Some ==
  { Eq([a |-> One, b |-> Two]), NotEq([b |-> None]), Between("b", 1, 2), NotIn("a", <<Two>>),
    Raw(<<"a", "<", "?", "AND", "b", "=", "?">>, <<2, 1>>) }
Groups(S) ==
  {Or(<<e, g>>) : e \in S, g \in S} \cup {And(<<e, g>>) : e \in S, g \in S}
  \cup {Or(<<e>>) : e \in S} \cup {Not(e) : e \in S}
Odd == { Or(<< >>), And(<<NilExpr>>), And(<<Eq([a |-> One]), NilExpr>>), Not(NilExpr), NilExpr }
Nested ==
  Groups(Some) \cup Groups(Leaves)
  \cup {Or(<<g, e>>) : g \in Groups(Some), e \in Some}
  \cup {Not(And(<<g, e>>)) : g \in Groups(Some), e \in Some}

Call(field, items) == [field |-> field, replaces |-> FALSE, items |-> items]
Program(kind, max, calls) == [kind |-> kind, max |-> max, calls |-> calls]

(* One condition or two in one clause, or in each of three. *)
Rich ==
  {Program("select", 2, {Call("where", <<e>>)}) : e \in Leaves \cup Nested \cup Odd}
  \cup {Program("delete", 2, {Call("where", <<e, g>>)}) : e \in Leaves, g \in Leaves \cup Odd}
  \cup {Program("select", 4, {Call("joins", <<e>>), Call("where", <<e, g>>), Call("having", <<g>>)}) :
          e \in Some, g \in Some}

Renew(field, items) == [field |-> field, replaces |-> TRUE, items |-> items]

(* Programs that branch from templates, with calls of several fields. *)
Templates ==
  { Program("select", 4, {Call("where", <<Eq([a |-> One])>>), Call("where", <<Lt([b |-> Two])>>)}),
    Program("select", 4, {Call("orderBy", <<"a">>), Call("orderBy", <<"b">>),
                          Renew("orderBy", << >>)}),
    Program("select", 4, {Renew("columns", <<"b">>), Call("groupBy", <<"a">>), Call("having", <<NotNull("b")>>)}),
    Program("select", 3, {Call("joins", <<NilExpr>>), Call("joins", <<Eq([a |-> One])>>)}),
    Program("delete", 4, {Call("where", <<IsNull("a")>>), Call("returning", <<"a", "b">>)}),
    Program("insert", 4, {Call("rows", << <<1, 2>> >>), Call("rows", << <<2>> >>),
                          Renew("columns", <<"a", "b">>)}),
    Program("update", 3, {Call("sets", SetMap([b |-> 2, a |-> Null])), Call("where", <<Eq([a |-> One])>>)}),
    Program("update", 4, {Call("sets", <<Set("a", 1)>>), Call("where", <<In("b", <<Both>>)>>),
                          Call("sets", <<SetExpr("b", Raw(<<"b", "+", "?">>, <<2>>))>>)}) }

Programmes == Rich \cup Templates

(* An ordering comparison that is given a slice. *)
Ordered == {Program("select", 2, {Call("where", <<Lt([a |-> v])>>)}) : v \in {One, Both, None}}
           \cup {Program("select", 4, {Call("where", <<Eq([a |-> One])>>), Call("where", <<Lt([b |-> Two])>>)})}
=============================================================================
