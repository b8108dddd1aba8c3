-------------------------- MODULE MCWordNavigation --------------------------
(* Two dictionaries, one with synonyms, which a mask may name twice; a page  *)
(* holds one word or two.                                                   *)
EXTENDS WordNavigation

MCWords == 1 .. 3
MCDicts == {"a", "b"}
MCSynonyms == {"a"}
MCMasks == {<<"a", "b">>, <<"a", "a">>}
MCPageOf(f, p) == IF f[2] = "syn" THEN p \div 2 ELSE p
=============================================================================
