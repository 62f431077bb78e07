----------------------------- MODULE Searches -----------------------------
(* The two tools that look for something below a path (searchops.go).      *)
(* Calls of one share no state with calls of the other.                    *)
EXTENDS Search, FindFiles

SearchesNext == (SearchNext /\ UNCHANGED findVars) \/ (FindNext /\ UNCHANGED searchVars)

SearchesSpec(searches, finds) ==
  SearchStarts(searches) /\ FindStarts(finds) /\ [][SearchesNext]_<<searchVars, findVars>>

\* Search and find return what matches, once and whole, and say when they left
\* something out (SearchContent, FindFiles).
SearchesAreExact == SearchPagesExact /\ ContextOnceAndWhole /\ FindIsTop

===========================================================================
