-------------------------- MODULE MCChannelEvidence --------------------------
(* Small instances of ChannelEvidence, after config/code-analysis.          *)
EXTENDS ChannelEvidence

CONSTANTS coverage, fuzz, ext, trivy, image, sbom

\* A portable profile: each result file is matched by its own channel's patterns
\* and carries its channel's name.  The fuzz harness is the reference profile's,
\* whose job the report job does not look up.
PortableJobs == {{c} : c \in Channel}
OwnFiles == [c \in Gate |-> {c}]
OwnNames == [c \in Channel |-> {c}]

\* The reference profile: the pattern *trivy*.sarif also matches the SARIF files of
\* the shipping images, whose names do not contain their own channel's.
ReferenceJobs == {{trivy}, {image, sbom}}
TrivyFiles == [c \in Gate |-> {trivy, image}]
TrivyNames == [c \in Channel |-> CASE c = trivy -> {trivy, image} [] c = sbom -> {} [] OTHER -> {}]
===============================================================================
