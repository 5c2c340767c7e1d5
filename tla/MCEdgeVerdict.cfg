\* One edge of every kind and tier, and two sessions at work on it while an
\* operator rejects it, its verdict ages and a prune deletes it.
CONSTANTS
  Session = {s1, s2}
  None = None

SPECIFICATION VerdictSpec

PROPERTIES
  NoMeansClosed
  HiddenOnlyByJudgement

CHECK_DEADLOCK FALSE
