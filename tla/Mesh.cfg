CONSTANTS
  Lower = Lower  Higher = Higher
  MeshPlans <- MCMeshPlans
SPECIFICATION MeshSpec
INVARIANTS MeshTypeOK Agreement
PROPERTIES ImpoliteGetsThrough NeverSilent
CHECK_DEADLOCK FALSE
