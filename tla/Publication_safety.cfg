SPECIFICATION Spec
CONSTANTS
  Manifests = {"m1", "m2"}
  Objects = {"o1", "o2"}
  Publishers = {p1, p2}
  Digest <- MCDigest
  Expiring <- MCExpiring
SYMMETRY MCSymmetry
INVARIANTS
  PublishedReadable
  StagedBytesSurvive
  UnlinkedIsQueued
  AdmittedReadSucceeds
