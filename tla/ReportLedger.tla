----------------------------- MODULE ReportLedger -----------------------------
(***************************************************************************)
(* What report publication promises a reader of the dashboard: each        *)
(* project has one current report, and it only moves forward.  A new       *)
(* report comes from a request accepted no earlier than the one it         *)
(* replaces, holds complete evidence of some channel, and while the        *)
(* revision stays the same no channel that was complete is lost.  The      *)
(* promise ends for a project whose manifests another project's publisher  *)
(* wrote back late, and for no other.                                      *)
(*                                                                         *)
(* Publication implements this module.                                     *)
(***************************************************************************)
EXTENDS Naturals

CONSTANTS Project, Revision, Channel, NoRevision

VARIABLES ledger,      \* project -> order of its request, revision, complete channels
          overwritten  \* projects whose entry was written back late

ledgerVars == <<ledger, overwritten>>
Empty == [order |-> 0, revision |-> NoRevision, complete |-> {}]
Entry == [order : Nat, revision : Revision, complete : (SUBSET Channel) \ {{}}]

Record(p, e) ==
  /\ p \notin overwritten /\ e \in Entry
  /\ e.order >= ledger[p].order
  /\ e.revision = ledger[p].revision => ledger[p].complete \subseteq e.complete
  /\ ledger' = [ledger EXCEPT ![p] = e]
  /\ UNCHANGED overwritten
\* By mistake, and whatever happens to the entry afterwards.
Overwrite(p, e) ==
  /\ overwritten' = overwritten \cup {p}
  /\ ledger' = [ledger EXCEPT ![p] = e]

LedgerInit == ledger = [p \in Project |-> Empty] /\ overwritten = {}
LedgerNext == \E p \in Project : Record(p, ledger'[p]) \/ Overwrite(p, ledger'[p])
LedgerSpec == LedgerInit /\ [][LedgerNext]_ledgerVars
===============================================================================
