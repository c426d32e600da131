------------------------------ MODULE MCStore ------------------------------
EXTENDS Store

(***************************************************************************)
(* "f" may be a file, a directory or missing, and so may the target of the *)
(* link "l", while that of "m" may be a directory, missing, or lie below a *)
(* file; "f/l" leads out of the root.  The names "x1" and "x2" begin with  *)
(* "x".  The prefixes are the root, a link, one that only other names in a *)
(* link's target begin with, and a path through a link out of the root.    *)
(***************************************************************************)
MCKeys == {<<"f">>, <<"f", "x1", "g">>, <<"f", "x2">>}
MCStageName == [n \in {"f", "g", "x2"} |->
                  IF n = "f" THEN ".f" ELSE IF n = "g" THEN ".g" ELSE ".x2"]
MCExtends == {<<"x1", "x">>, <<"x2", "x">>}
MCPathOrder ==
    <<<<".f">>, <<"f">>, <<"f", ".x2">>, <<"f", "x1", ".g">>, <<"f", "x1", "g">>, <<"f", "x2">>>>
MCPrefixes == {<<>>, <<"l">>, <<"l", "x">>, <<"f", "l", "x">>}
MCLinks == {<<"l">>, <<"m">>, <<"f", "l">>}
MCOutside == {<<"f", "l">>}
MCTarget == [l \in MCLinks \ MCOutside |-> IF l = <<"l">> THEN <<"f">> ELSE <<"f", "x1">>]
=============================================================================
