CONSTANTS
  coverage = coverage  fuzz = fuzz  ext = ext
  trivy = trivy  image = image  sbom = sbom
  Channel = {coverage, fuzz, ext}
  Gate = {coverage, ext}
  Envelope = {ext}
  Reporting = {coverage, fuzz}
  ByExit = {fuzz}
  Watched = {coverage}
  Producers <- PortableJobs
  Covers <- OwnFiles
  Mentions <- OwnNames
  MaxAttempts = 2
SPECIFICATION EvidenceSpec
INVARIANTS
  CountsAreMeasured
  FailuresStayVisible
  SiblingsKept
CHECK_DEADLOCK FALSE
