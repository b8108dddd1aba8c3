----------------------------- MODULE MCProtocol -----------------------------
EXTENDS Protocol

MCBooks == <<"b", "c">>
MCFaultSets == {{}, {"signal", "database"}}

\* The word that was looked up, with homographs, or before or behind another
\* one with three articles.
MCEntries ==
    LET looked == [word |-> "w", articles |-> <<"a", "b">>]
        other == [word |-> "x", articles |-> <<"b", "a", "b">>]
    IN {<<>>, <<looked>>, <<looked, other>>, <<other, looked>>}
MCWordSeqs == {<<>>, <<"w">>, <<"x", "w", "x">>}

\* Every command alone after each way to be somebody, and every kind of query
\* before another command.
MCScripts ==
    {<<op>> : op \in Ops \ {"client", "quit"}}
    \cup {<<by, op>> : by \in {"auth", "auth_guest", "tmpdictmask", "register"},
                       op \in {"selectquery", "next", "getdictmask"}}
    \cup {<<op, "setcollatefunc">> : op \in {"lookup", "query", "previous"}}
    \cup {<<"auth", "tmpdictmask", "next">>, <<"auth", "auth", "next">>}
=============================================================================
