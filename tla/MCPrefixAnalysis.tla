-------------------------- MODULE MCPrefixAnalysis --------------------------
(***************************************************************************)
(* Small instances of PrefixAnalysis.  Databases 1, 10 and 100 share their *)
(* digits; keys extend each other or part half way, one is empty.          *)
(***************************************************************************)
EXTENDS PrefixAnalysis

a == 11
b == 12

MCObjects == {<<1, << >>>>, <<1, <<a, b>>>>, <<1, <<a, b, b>>>>, <<1, <<a, a>>>>,
              <<10, <<a, a>>>>, <<100, <<a>>>>}
MCTopNs == {-1, 0, 2}
MCMaxDepths == {0, 1}

\* One key in each of the databases 10, 11 and 100.
MCThreeDatabases == {<<10, <<a>>>>, <<11, <<a>>>>, <<100, <<a>>>>}
MCAll == {0}
=============================================================================
