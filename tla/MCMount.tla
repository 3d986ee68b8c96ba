----------------------------- MODULE MCMount -------------------------------
(* The export "/e" over a root r holding o1 as "x" and o2 as "xe", with o2 *)
(* also under o1 as "e": one- and two-character names and a two-level     *)
(* path.  The dirpaths: the export with and without slashes, doubled and  *)
(* trailing slashes, nested names, a missing name, a name under a file,   *)
(* the export name without a "/" after it, and paths outside the export.  *)
(* Ids 1-3 with the root at 1, so a restart can swap which id names o1    *)
(* and which o2.                                                          *)
EXTENDS Mount, TLC
CONSTANTS r, o1, o2
MCObjs == {r, o1, o2}
MCExportName == <<"/", "e">>
MCWhitespace == {}
\* "/e", "/e/", "/e//x/", "/e/xe", "/e/x/e", "/e/e", "/e/x/x", "/e/xe/e",
\* "/ex", "/x", "" and "e/x", one character per element.
MCDirPaths == {<<"/", "e">>, <<"/", "e", "/">>,
               <<"/", "e", "/", "/", "x", "/">>,
               <<"/", "e", "/", "x", "e">>,
               <<"/", "e", "/", "x", "/", "e">>, <<"/", "e", "/", "e">>,
               <<"/", "e", "/", "x", "/", "x">>,
               <<"/", "e", "/", "x", "e", "/", "e">>, <<"/", "e", "x">>,
               <<"/", "x">>, << >>, <<"e", "/", "x">>}
NoPaths == {}
NoChildren == [n \in {} |-> None]
MCTree == (r :> ((<<"x">> :> o1) @@ (<<"x", "e">> :> o2)))
          @@ (o1 :> (<<"e">> :> o2))
          @@ (o2 :> NoChildren)
=============================================================================
