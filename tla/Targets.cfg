\* One connection two threads work on, and another whose engine competes with
\* its for the only place in the registry.
CONSTANTS
  Connections = {c1, c2}
  Managed = {c1}
  Fields = {"host", "password"}
  Rewritten = {"password"}
  Values = {1, 2}
  Threads = {t1, t2}
  MaxEngines = 1
  MaxCommits = 2
  None = None
SPECIFICATION Spec
INVARIANTS RegistryTypeOK EnginesFollowProfiles StatusIsLastVerdict
SYMMETRY Interchangeable
