---------------------------- MODULE MCBuildJobs ----------------------------
(***************************************************************************)
(* A connect job, a search job and an enrichment ticket share two slots,   *)
(* one of them kept for the jobs, and one place in line: a job may have to *)
(* wait behind the others, and background work is one of the builds a      *)
(* usage figure has to own up to.                                          *)
(***************************************************************************)
EXTENDS BuildJobs

CONSTANTS c1, s1, b1
MCTicket == {c1, s1, b1}
MCBackground == {b1}
MCSearchJobs == {s1}
MCCapacityArg == 2
MCMaxQueuedArg == 1
MCReservedArg == 1
=============================================================================
