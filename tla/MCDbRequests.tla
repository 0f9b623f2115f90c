---------------------------- MODULE MCDbRequests ----------------------------
EXTENDS DbRequests

MCSigned   == {1}
MCUnsigned == {5, 12}
MCText     == {<<"a">>, <<"a", "NUL", "b">>, <<"{1}">>}
MCSql      == {<<"{0}", ",", "{1}">>, <<"{1}", ",", "{0}">>, <<"{0}", ",", "a">>,
               <<"{0}", ",", "{1}", "{1}">>, <<"1", ",", "a">>}
MCWhere    == {<< >>, <<"{0}">>, <<"id=", "{0}">>}
MCMessage  == {[id |-> 1, name |-> <<"a">>], [id |-> -1, name |-> <<"a">>]}
=============================================================================
