------------------------------ MODULE MCSearch ------------------------------
(***************************************************************************)
(* Two workers search over a metered provider, Wikipedia and DuckDuckGo,   *)
(* with a quota of two requests, so that a third is one too many.          *)
(***************************************************************************)
EXTENDS Search, TLC

CONSTANTS w1, w2, q1, serper, wikipedia, duckduckgo
MCWorker == {w1, w2}
MCQuery == {q1}
MCMetered == {serper}
MCRoutes == {<<serper, wikipedia, duckduckgo>>}
Workers == Permutations(Worker)
MCDuckDuckGoOnly == {<<duckduckgo>>}
MCWikipediaOnly == {<<wikipedia>>}
=============================================================================
