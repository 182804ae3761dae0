---------------------------- MODULE TokenRotation ----------------------------
(***************************************************************************)
(* The rotation of the token by which the workflows on GitHub call the     *)
(* Worker (scripts/deployment/rotate_worker_api_token.py): the Worker      *)
(* accepts a primary and, in transition, a next token (worker.mjs), GitHub *)
(* holds one as a secret, and the script changes the three one after the   *)
(* other.  It stops at the first command or probe that fails, whether the  *)
(* command had its effect or not, and is run again with a new token.  One  *)
(* rotation runs at a time.  What is put into the Worker's store is served *)
(* some time later.                                                        *)
(*                                                                         *)
(* A definition named ...Fault is a plausible slip in the definition that  *)
(* follows it; no specification uses it.                                   *)
(***************************************************************************)
EXTENDS Naturals

CONSTANTS Token, Old,   \* the tokens; the one in use at first
          Nothing

ASSUME RotationAssumption == Old \in Token /\ Nothing \notin Token

VARIABLES stored, served,   \* the Worker's primary and next, as put and as in effect
          secret,           \* GitHub's
          used,             \* tokens generated so far
          token, stage,     \* the running rotation's token, and how far it is
          unpromoted        \* whether it was begun while GitHub held a token not promoted

rotationVars == <<stored, served, secret, used, token, stage, unpromoted>>

-----------------------------------------------------------------------------
Accepts(t) == t \in {served.primary, served.next} \ {Nothing}
Halted == stage \in {"idle", "stopped", "done"}

\* The script runs, for the first time or again.
Begin ==
  /\ Halted
  /\ \E t \in Token \ used : token' = t /\ used' = used \cup {t}
  /\ stage' = "next" /\ unpromoted' = (secret # stored.primary)
  /\ UNCHANGED <<stored, served, secret>>

\* One command: it has its effect and the script goes on; or it fails, with or without it.
Command(at, then, Effect, Same) ==
  /\ stage = at
  /\ \/ Effect /\ stage' \in {then, "stopped"}
     \/ Same /\ stage' = "stopped"
  /\ UNCHANGED <<used, token, unpromoted>>

PutNext == Command("next", "probe", stored' = [stored EXCEPT !.next = token] /\ UNCHANGED <<served, secret>>,
                   UNCHANGED <<stored, served, secret>>)
SetSecret == Command("secret", "primary", secret' = token /\ UNCHANGED <<stored, served>>,
                     UNCHANGED <<stored, served, secret>>)
PutPrimary == Command("primary", "reprobe", stored' = [stored EXCEPT !.primary = token] /\ UNCHANGED <<served, secret>>,
                      UNCHANGED <<stored, served, secret>>)
DeleteNext == Command("delete", "done", stored' = [stored EXCEPT !.next = Nothing] /\ UNCHANGED <<served, secret>>,
                      UNCHANGED <<stored, served, secret>>)

\* A probe asks the Worker whether it accepts the new token, and may fail for other reasons.
\* The second one cannot tell the primary from the next.
ProbeFault(at, then) ==
  /\ stage = at
  /\ stage' \in {then, "stopped"}
  /\ UNCHANGED <<stored, served, secret, used, token, unpromoted>>
Probe(at, then) ==
  /\ stage = at
  /\ stage' \in (IF Accepts(token) THEN {then, "stopped"} ELSE {"stopped"})
  /\ UNCHANGED <<stored, served, secret, used, token, unpromoted>>
ProbeNext == Probe("probe", "secret")
ProbePrimary == Probe("reprobe", "delete")

Serve ==
  /\ served # stored /\ served' = stored
  /\ UNCHANGED <<stored, secret, used, token, stage, unpromoted>>

RotationInit ==
  /\ stored = [primary |-> Old, next |-> Nothing] /\ served = stored
  /\ secret = Old /\ used = {Old} /\ token = Old /\ stage = "idle" /\ unpromoted = FALSE
RotationNext == Begin \/ PutNext \/ ProbeNext \/ SetSecret \/ PutPrimary \/ ProbePrimary \/ DeleteNext \/ Serve
RotationSpec == RotationInit /\ [][RotationNext]_rotationVars

-----------------------------------------------------------------------------
\* At no moment of a rotation is the token GitHub hands to its jobs one the Worker refuses
\* ("without an outage", docs/operations/SECRET-MANAGEMENT.md:81).
SecretAccepted == Accepts(secret)

\* The same as far as the code keeps it: of every rotation that begins when the primary is
\* GitHub's token, wherever it stops and however late the Worker serves what is put.
AcceptedFromPrimary == ~unpromoted => Accepts(secret)
===============================================================================
