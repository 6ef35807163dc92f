---------------------------- MODULE MCOfficeIPC -----------------------------
(***************************************************************************)
(* OfficeIPC for TLC: what the clients, and the office's own command line, *)
(* ask for.                                                                *)
(***************************************************************************)
EXTENDS OfficeIPC

\* A document behind a filter, a document and a dispatch.
CountedLists == {<<"filter", "doc">>, <<"doc", "async">>}
\* A document, and the dispatches of which the code hears no end.
OtherLists == {<<>>, <<"doc">>, <<"none", "service">>, <<"plain">>}
UseScenarios == {[lists |-> CountedLists, mayQuit |-> TRUE, mayKill |-> TRUE],
                 [lists |-> OtherLists, mayQuit |-> FALSE, mayKill |-> FALSE]}
JoinScenarios == {[lists |-> {<<"doc">>}, mayQuit |-> TRUE, mayKill |-> FALSE]}
=============================================================================
