CONSTANTS
  coverage = coverage  fuzz = fuzz  ext = ext
  trivy = trivy  image = image  sbom = sbom
  Channel = {trivy, image, sbom}
  Gate = {trivy}
  Envelope = {}
  Reporting = {image, sbom}
  ByExit = {}
  Watched = {image, sbom}
  Producers <- ReferenceJobs
  Covers <- TrivyFiles
  Mentions <- TrivyNames
  MaxAttempts = 1
SPECIFICATION EvidenceSpec
INVARIANTS
  MissingIsNotZero
CHECK_DEADLOCK FALSE
