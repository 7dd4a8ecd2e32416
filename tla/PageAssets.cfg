SPECIFICATION Spec
CONSTANTS
  Replicas = {r1, r2}
  Builds <- MCBuilds
  Deploys = 3
  Qualities = {0, 5, 10}
  Entries = 3
INVARIANTS ReloadMends ServesWhatWasAsked
