---------------------------- MODULE MCResultRows ----------------------------
(* An instance of ResultRows for TLC: one or two responses of each kind, cut *)
(* off at every place.                                                       *)
EXTENDS ResultRows

Meta == <<"meta", "colon", "val">>
Pair == <<"row", "comma", "row">>
Rows(items) == <<"rows", "colon", "arr">> \o items \o <<"endarr">>
Queries(items) == <<"results", "colon", "arr">> \o items \o <<"endarr">>
Object(members) == <<"obj">> \o members \o <<"endobj">>
And(a, b) == a \o <<"comma">> \o b

Around == Object(And(Meta, And(Rows(Pair), And(Meta, Meta))))
Before == Object(And(Meta, Rows(Pair)))
Behind == Object(And(Rows(Pair), Meta))
Design == <<"id", "colon", "row">>

MCResponses ==
    [mode : {"rows", "changes", "multi"},
     text : {Around, Behind, Object(Rows(<<>>)), Object(Meta), <<"arr", "endarr">>}]
    \cup [mode : {"object"}, text : {Object(And(Design, Design)), Object(<<>>)}]
    \cup [mode : {"feed"}, text : {<<"row", "row", "row">>}]
    \cup [mode : {"multi"},
          text : {Object(Queries(And(Before, Around))), Object(Queries(Behind))}]
=============================================================================
