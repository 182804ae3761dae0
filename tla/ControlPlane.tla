----------------------------- MODULE ControlPlane -----------------------------
(***************************************************************************)
(* The durable analysis queue: the queue/... handlers of the Durable       *)
(* Object AuthExchangeStore (analysis-launcher/auth-exchange.mjs).  Every  *)
(* handler runs inside one storage transaction, so each is one action.     *)
(*                                                                         *)
(* Storage keys and the variables that stand for them:                     *)
(*   queue:id:<request>            rows[request]                           *)
(*   queue:dedupe:<idempotency>    dedupe[key]                             *)
(*   queue:active:<project>:<sha>  index[<<project, revision>>]            *)
(*   queue:project-latest:<proj>   latest[project]                         *)
(*   queue:meta                    nextAcceptance, generation, paused      *)
(*   rate:launch:<actor>           recent[actor], launches in the window   *)
(* A request id is the lower-cased idempotency key, so both are Key.       *)
(* Wall-clock time is lease[token], the ticks before lease_expires_at: a   *)
(* claim and the channels it holds always expire at the same instant.      *)
(*                                                                         *)
(* A definition named ...Fault is a plausible slip in the definition that  *)
(* follows it; no specification uses it, and each one is shown to break a  *)
(* property.                                                               *)
(***************************************************************************)
EXTENDS Integers, FiniteSets

CONSTANTS
  Key,            \* idempotency keys, and the request ids made from them
  Project, Revision,
  Context,        \* tooling_sha, profile_digest, profile_mode taken together
  Channel,        \* scanner channels
  Actor,
  Stamp,          \* preview_id and created_at: two intents that differ in
                  \* nothing else are still different documents
  Intent,         \* the intents callers submit
  Token, NoToken, \* lease tokens (fresh UUIDs)
  LeaseTicks,     \* LEASE_MS, in ticks
  LaunchLimit,    \* LAUNCH_RATE_LIMIT
  MaxRecords,     \* MAX_RECORDS
  MaxAcceptance,  \* bound on acceptances in one generation
  MaxGeneration   \* bound on resets

ASSUME TokenAssumption == NoToken \notin Token
ASSUME BoundAssumption ==
  /\ LeaseTicks \in Nat \ {0} /\ LaunchLimit \in Nat \ {0}
  /\ MaxRecords \in Nat /\ MaxAcceptance \in Nat /\ MaxGeneration \in Nat
ASSUME IntentAssumption ==
  Intent \subseteq [project: Project, revision: Revision, context: Context,
                    channels: (SUBSET Channel) \ {{}}, actor: Actor,
                    run_again: BOOLEAN, stamp: Stamp]

VARIABLES rows, dedupe, index, latest, nextAcceptance, generation, paused,
          recent, lease,
          grants          \* the claim responses handed out so far, held by
                          \* workflow runs that may use them late or twice

meta == <<nextAcceptance, generation, paused>>
vars == <<rows, dedupe, index, latest, meta, recent, lease, grants>>

-----------------------------------------------------------------------------
AnalysisKey(i) == <<i.project, i.revision>>
Active(r) == r.status \in {"preparing", "analyzing"}
Terminal(ch) == ch.status \in {"completed", "failed"}

Unclaimed == [status |-> "preparing", token |-> NoToken]
HeldBy(t) == [status |-> "analyzing", token |-> t]
Without(f, S) == [x \in DOMAIN f \ S |-> f[x]]
With(f, x, v) == [y \in DOMAIN f \cup {x} |-> IF y = x THEN v ELSE f[y]]
NoClaims == [t \in {} |-> {}]

NewRow(k, i) ==
  [intent |-> i, submissions |-> With([x \in {} |-> i], k, i),
   acceptance |-> nextAcceptance, generation |-> generation,
   status |-> "preparing",
   channels |-> [c \in i.channels |-> Unclaimed], claims |-> NoClaims]

Superseded(r) == [r EXCEPT !.status = "superseded", !.claims = NoClaims]

Merged(r, k, i) ==
  [r EXCEPT !.submissions = With(r.submissions, k, i),
            !.channels = [c \in DOMAIN r.channels \cup i.channels |->
              IF c \in DOMAIN r.channels THEN r.channels[c] ELSE Unclaimed]]

-----------------------------------------------------------------------------
(* POST queue/admit.  A paused queue, a spent quota, a known idempotency    *)
(* key (the prior row, or idempotency_conflict) and the two active_... 409s *)
(* answer without changing anything.                                        *)

Existing(i) == IF AnalysisKey(i) \in DOMAIN index
               THEN {k \in {index[AnalysisKey(i)]} \cap DOMAIN rows : Active(rows[k])}
               ELSE {}
(* The immutable fields; the analysis key is one of them because an id that *)
(* was accepted again for another revision can still be in the index.      *)
Conflicts(r, i) ==
  r.intent.context # i.context \/ AnalysisKey(r.intent) # AnalysisKey(i)

NoLiveLeaseFault(r) == TRUE                      \* supersede at once
NoLiveLease(r) ==
  \A c \in DOMAIN r.channels :
    r.channels[c].status = "analyzing" => lease[r.channels[c].token] = 0

RememberFault(k, e) == IF k = e THEN With(dedupe, k, e) ELSE dedupe
Remember(k, e) == With(dedupe, k, e)

Merge(k, i) ==
  \E e \in Existing(i) :
    /\ ~i.run_again /\ ~Conflicts(rows[e], i)
    /\ rows' = [rows EXCEPT ![e] = Merged(rows[e], k, i)]
    /\ dedupe' = Remember(k, e)
    /\ UNCHANGED <<index, latest, meta, recent, lease, grants>>

(* Above MAX_RECORDS the lowest acceptances go first, whatever their        *)
(* generation; an active row is never removed.                              *)
Victims(rs) ==
  LET removable == {k \in DOMAIN rs : ~Active(rs[k])}
      excess == Cardinality(DOMAIN rs) - MaxRecords
  IN  {V \in SUBSET removable :
         /\ \/ excess <= 0 /\ V = {}
            \/ excess > 0 /\ Cardinality(V) = (IF Cardinality(removable) < excess THEN Cardinality(removable) ELSE excess)
         /\ \A v \in V, w \in removable \ V : rs[v].acceptance <= rs[w].acceptance}

SubmissionsFault(rs, V) == V                     \* forget merged keys
Submissions(rs, V) == UNION {DOMAIN rs[v].submissions : v \in V}

Accept(k, i) ==
  LET old == [e \in DOMAIN rows |->
                IF e \in Existing(i) THEN Superseded(rows[e]) ELSE rows[e]]
      new == With(old, k, NewRow(k, i))
  IN  /\ \A e \in Existing(i) : ~i.run_again /\ Conflicts(rows[e], i) /\ NoLiveLease(rows[e])
      /\ nextAcceptance <= MaxAcceptance
      /\ nextAcceptance' = nextAcceptance + 1
      /\ recent' = [recent EXCEPT ![i.actor] = @ + 1]
      /\ index' = With(index, AnalysisKey(i), k)
      /\ latest' = With(latest, i.project, k)
      /\ \E V \in Victims(new) :
           /\ rows' = Without(new, V)
           /\ dedupe' = Without(Remember(k, k), Submissions(new, V))
      /\ UNCHANGED <<generation, paused, lease, grants>>

WithinQuota(a) == recent[a] < LaunchLimit

Admit(k, i) ==
  /\ ~paused
  /\ k \notin DOMAIN dedupe
  /\ WithinQuota(i.actor)
  /\ Merge(k, i) \/ Accept(k, i)

-----------------------------------------------------------------------------
(* POST queue/claim, with the wake's request id (Hinted) or, from the       *)
(* recovery schedule, without one (Unhinted).  A hint is checked against    *)
(* the row's revision only, never against its status or generation.         *)

ClaimableFault(r) == {c \in DOMAIN r.channels : r.channels[c].status \in {"preparing", "failed"}}
Claimable(r) ==
  {c \in DOMAIN r.channels :
     \/ r.channels[c].status = "preparing"
     \/ r.channels[c].status = "analyzing" /\ lease[r.channels[c].token] = 0}
ExpiredTokensFault(r) == {}
ExpiredTokens(r) ==
  {r.channels[c].token : c \in {d \in Claimable(r) : r.channels[d].status = "analyzing"}}

ClaimedRow(r, t) ==
  [r EXCEPT !.status = "analyzing",
            !.channels = [c \in DOMAIN r.channels |->
              IF c \in Claimable(r) THEN HeldBy(t) ELSE r.channels[c]],
            !.claims = With(Without(r.claims, ExpiredTokens(r)), t, Claimable(r))]

Claim(k, t) ==
  /\ ~paused
  /\ Claimable(rows[k]) # {}
  /\ \A g \in grants : g.token # t
  /\ rows' = [rows EXCEPT ![k] = ClaimedRow(rows[k], t)]
  /\ lease' = [lease EXCEPT ![t] = LeaseTicks]
  /\ grants' = grants \cup {[key |-> k, token |-> t, generation |-> rows[k].generation]}
  /\ UNCHANGED <<dedupe, index, latest, meta, recent>>

ClaimablesFault ==                               \* recover unstarted work only
  {k \in DOMAIN rows : rows[k].status = "preparing" /\ Claimable(rows[k]) # {}}
Claimables == {k \in DOMAIN rows : Active(rows[k]) /\ Claimable(rows[k]) # {}}
Hinted(k, t) == k \in DOMAIN rows /\ Claim(k, t)
Unhinted(k, t) ==
  /\ k \in Claimables
  /\ \A j \in Claimables : rows[k].acceptance <= rows[j].acceptance
  /\ Claim(k, t)

-----------------------------------------------------------------------------
(* POST queue/heartbeat and queue/complete: both need the caller's token to *)
(* be an outstanding claim of the row, and the row's own generation.        *)

Fenced(g) ==
  /\ g.key \in DOMAIN rows
  /\ g.token \in DOMAIN rows[g.key].claims
  /\ g.generation = rows[g.key].generation
IsLatestFault(k) == TRUE
IsLatest(k) ==
  /\ rows[k].intent.project \in DOMAIN latest
  /\ latest[rows[k].intent.project] = k

Heartbeat(g, publication) ==
  /\ Fenced(g)
  /\ lease[g.token] > 0
  /\ publication => IsLatest(g.key)
  /\ lease' = [lease EXCEPT ![g.token] = LeaseTicks]
  /\ UNCHANGED <<rows, dedupe, index, latest, meta, recent, grants>>

Finished(r, t, outcome) ==
  [r EXCEPT !.channels = [c \in DOMAIN r.channels |->
              IF c \in r.claims[t] /\ r.channels[c].token = t
              THEN [status |-> outcome, token |-> t] ELSE r.channels[c]],
            !.claims = Without(r.claims, {t})]

NextStatusFault(k, r) ==                         \* one lane settles the request
  CASE ~IsLatest(k) -> "superseded"
    [] OTHER -> IF \E c \in DOMAIN r.channels : r.channels[c].status = "completed"
                THEN "published" ELSE "failed"
NextStatus(k, r) ==
  LET states == {r.channels[c].status : c \in DOMAIN r.channels} IN
  CASE ~IsLatest(k) -> "superseded"
    [] IsLatest(k) /\ "analyzing" \in states -> "analyzing"
    [] IsLatest(k) /\ "analyzing" \notin states /\ "preparing" \in states -> "preparing"
    [] OTHER -> IF "completed" \in states THEN "published" ELSE "failed"

Completed(k, t, outcome) ==
  LET r == Finished(rows[k], t, outcome) IN [r EXCEPT !.status = NextStatus(k, r)]

IndexAfterFault(r) == index
IndexAfter(r) == IF Active(r) THEN index ELSE Without(index, {AnalysisKey(r.intent)})

Complete(g, outcome) ==
  /\ Fenced(g)
  /\ rows' = [rows EXCEPT ![g.key] = Completed(g.key, g.token, outcome)]
  /\ index' = IndexAfter(rows'[g.key])
  /\ UNCHANGED <<dedupe, latest, meta, recent, lease, grants>>

-----------------------------------------------------------------------------
(* POST queue/pause, queue/resume and queue/reset: the execution cutover.   *)

Pause == ~paused /\ paused' = TRUE
         /\ UNCHANGED <<rows, dedupe, index, latest, nextAcceptance, generation, recent, lease, grants>>
Resume == paused /\ paused' = FALSE
          /\ UNCHANGED <<rows, dedupe, index, latest, nextAcceptance, generation, recent, lease, grants>>

Cancelled(r) == IF Active(r) THEN [r EXCEPT !.status = "cancelled_cutover", !.claims = NoClaims]
                ELSE r
CutOver(newIndex, newGeneration) ==
  /\ paused /\ generation < MaxGeneration
  /\ rows' = [k \in DOMAIN rows |-> Cancelled(rows[k])]
  /\ dedupe' = Without(dedupe, DOMAIN dedupe)
  /\ index' = newIndex
  /\ nextAcceptance' = 1
  /\ generation' = newGeneration
  /\ UNCHANGED <<latest, paused, recent, lease, grants>>
Reset == CutOver(Without(index, DOMAIN index), generation + 1)

-----------------------------------------------------------------------------
(* Time: every lease runs down together, and launches leave the window.     *)

Tick == /\ \E t \in Token : lease[t] > 0
        /\ lease' = [t \in Token |-> IF lease[t] > 0 THEN lease[t] - 1 ELSE 0]
        /\ UNCHANGED <<rows, dedupe, index, latest, meta, recent, grants>>
Slide(a) == /\ \E n \in 0 .. LaunchLimit : n < recent[a] /\ recent' = [recent EXCEPT ![a] = n]
            /\ UNCHANGED <<rows, dedupe, index, latest, meta, lease, grants>>

Init ==
  /\ rows = [k \in {} |-> {}] /\ dedupe = [k \in {} |-> {}]
  /\ index = [k \in {} |-> {}] /\ latest = [p \in {} |-> {}]
  /\ nextAcceptance = 1 /\ generation = 1 /\ paused = FALSE
  /\ recent = [a \in Actor |-> 0]
  /\ lease = [t \in Token |-> 0]
  /\ grants = {}

Next ==
  \/ \E k \in Key, i \in Intent : Admit(k, i)
  \/ \E k \in Key, t \in Token : Hinted(k, t) \/ Unhinted(k, t)
  \/ \E g \in grants, publication \in BOOLEAN : Heartbeat(g, publication)
  \/ \E g \in grants, outcome \in {"completed", "failed"} : Complete(g, outcome)
  \/ Pause \/ Resume \/ Reset
  \/ Tick \/ \E a \in Actor : Slide(a)

Spec == Init /\ [][Next]_vars
-----------------------------------------------------------------------------
(* Properties.                                                              *)

ChannelState == [status: {"preparing", "analyzing", "completed", "failed"},
                 token: Token \cup {NoToken}]
RowStatus == {"preparing", "analyzing", "published", "failed", "superseded", "cancelled_cutover"}
IsMap(f, S, T) == DOMAIN f \subseteq S /\ f \in [DOMAIN f -> T]
IsRow(r) ==
  /\ r = [intent |-> r.intent, submissions |-> r.submissions, acceptance |-> r.acceptance,
          generation |-> r.generation, status |-> r.status, channels |-> r.channels,
          claims |-> r.claims]
  /\ r.intent \in Intent /\ IsMap(r.submissions, Key, Intent)
  /\ r.acceptance \in Nat /\ r.generation \in Nat /\ r.status \in RowStatus
  /\ IsMap(r.channels, Channel, ChannelState) /\ IsMap(r.claims, Token, SUBSET Channel)

(* Every storage key holds a value of the shape its readers expect.         *)
TypeOK ==
  /\ DOMAIN rows \subseteq Key /\ \A k \in DOMAIN rows : IsRow(rows[k])
  /\ IsMap(dedupe, Key, Key) /\ IsMap(index, Project \X Revision, Key)
  /\ IsMap(latest, Project, Key)
  /\ nextAcceptance \in Nat /\ generation \in Nat /\ paused \in BOOLEAN
  /\ recent \in [Actor -> 0 .. LaunchLimit]
  /\ lease \in [Token -> 0 .. LeaseTicks]
  /\ grants \subseteq [key: Key, token: Token, generation: Nat]

(* A lease token listed among a row's claims still owns every channel it    *)
(* lists, so no two outstanding claims of a request share a channel         *)
(* (queue/claim drops a token when it takes over its expired channels).     *)
ClaimsFenced ==
  \A k \in DOMAIN rows : \A t \in DOMAIN rows[k].claims : \A c \in rows[k].claims[t] :
    c \in DOMAIN rows[k].channels /\ rows[k].channels[c] = HeldBy(t)

(* An idempotency key that queue/admit knows names a row that still exists  *)
(* and recorded the submission; otherwise every retry of that key would be  *)
(* refused as idempotency_conflict for ever.                                *)
DedupeSound ==
  \A k \in DOMAIN dedupe :
    dedupe[k] \in DOMAIN rows /\ k \in DOMAIN rows[dedupe[k]].submissions

(* The converse, for the requests accepted since the last reset: every key  *)
(* submitted for one is still recognised, so a retry returns the request    *)
(* and neither starts a second analysis nor overwrites the first.           *)
RetriesRecognised ==
  \A k \in DOMAIN rows : rows[k].generation = generation =>
    \A x \in DOMAIN rows[k].submissions : x \in DOMAIN dedupe /\ dedupe[x] = k

(* The active index never names a finished or missing row or one of another *)
(* project and revision: merging into such a row would lose the submission. *)
IndexSound ==
  \A a \in DOMAIN index :
    /\ index[a] \in DOMAIN rows /\ Active(rows[index[a]])
    /\ AnalysisKey(rows[index[a]].intent) = a

(* A row's status agrees with its channels: an unfinished row has work left *)
(* for a claim or a lease expiry to find, analyzing means some channel is,  *)
(* and published or failed is final for every channel.                      *)
StatusMatchesChannels ==
  \A k \in DOMAIN rows :
    LET states == {rows[k].channels[c].status : c \in DOMAIN rows[k].channels} IN
    /\ rows[k].status = "preparing" => "preparing" \in states /\ "analyzing" \notin states
    /\ rows[k].status = "analyzing" => "analyzing" \in states
    /\ rows[k].status = "published" => states \subseteq {"completed", "failed"} /\ "completed" \in states
    /\ rows[k].status = "failed" => states = {"failed"}

(* The row under a request id is the same acceptance before and after.      *)
SameRow(k) ==
  /\ k \in DOMAIN rows /\ k \in DOMAIN rows'
  /\ rows[k].acceptance = rows'[k].acceptance /\ rows[k].generation = rows'[k].generation

(* A claim whose lease is live ends only when its holder finishes the       *)
(* channels it lists, or by a reset: no other claim, admission or           *)
(* supersession may take the work away from a workflow that still renews.   *)
LiveClaimKept ==
  [][\A k \in DOMAIN rows : SameRow(k) /\ generation' = generation =>
       \A t \in DOMAIN rows[k].claims :
         lease[t] > 0 /\ t \notin DOMAIN rows'[k].claims =>
           \A c \in rows[k].claims[t] :
             Terminal(rows'[k].channels[c]) /\ rows'[k].channels[c].token = t]_vars

(* What a channel completed or failed with is final: no later claim, merge, *)
(* stale completion or reset of the same request reopens it.                *)
EvidenceIsFinal ==
  [][\A k \in DOMAIN rows : SameRow(k) =>
       \A c \in DOMAIN rows[k].channels :
         Terminal(rows[k].channels[c]) => rows'[k].channels[c] = rows[k].channels[c]]_vars

Newer(r, s) == r.generation > s.generation \/
               (r.generation = s.generation /\ r.acceptance > s.acceptance)

(* Strengthenings that make the last property inductive: acceptances are    *)
(* handed out in order, and project-latest, when its row is still one of    *)
(* the project's, names the newest of them.                                 *)
AcceptancesInOrder ==
  \A k \in DOMAIN rows :
    /\ rows[k].generation <= generation
    /\ rows[k].generation = generation => rows[k].acceptance < nextAcceptance
LatestIsNewest ==
  \A p \in DOMAIN latest :
    latest[p] \in DOMAIN rows /\ rows[latest[p]].intent.project = p =>
      \A j \in DOMAIN rows :
        rows[j].intent.project = p => ~Newer(rows[j], rows[latest[p]])

(* A request becomes published only while no request of its project with a  *)
(* later acceptance exists: the newest accepted revision wins.              *)
NewestPublishes ==
  [][\A k \in DOMAIN rows :
       SameRow(k) /\ rows[k].status # "published" /\ rows'[k].status = "published" =>
         ~ \E j \in DOMAIN rows :
             rows[j].intent.project = rows[k].intent.project /\ Newer(rows[j], rows[k])]_vars
=============================================================================
