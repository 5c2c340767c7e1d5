---------------------------- MODULE MCBuildUsage ----------------------------
(***************************************************************************)
(* The instance of MCBuildJobs with a history variable: which other        *)
(* tickets have held a slot while a job's build was under way.             *)
(***************************************************************************)
EXTENDS MCBuildJobs

VARIABLE company

UsageInit == JobsInit /\ company = [j \in Job |-> {}]

UsageNext ==
  /\ JobsNext
  /\ company' = [j \in Job |->
                   IF pc'[j] \in {"building", "joining"}
                   THEN company[j] \cup (acquired' \ {j}) ELSE company[j]]

UsageSpec == UsageInit /\ [][UsageNext]_<<vars, company>> /\ JobsFairness

\* When a usage window closes on "no other build seen", no build that shared
\* the window is still holding its slot: such a build is running at the
\* closing edge, which is what _UsageWindow says it samples ("sampled at both
\* edges ...: 0 means nothing else could have contributed and the figure is
\* exact").
ExactMeansAlone ==
  [][\A j \in Job : window[j].closed = NotSeen /\ window'[j].closed = 0
       => company[j] \cap acquired = {}]_<<vars, company>>
=============================================================================
