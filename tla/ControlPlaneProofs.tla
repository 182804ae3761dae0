-------------------------- MODULE ControlPlaneProofs --------------------------
(* Machine-checked proofs about ControlPlane, for every value of its        *)
(* constants.                                                               *)
EXTENDS ControlPlane, TLAPS

-----------------------------------------------------------------------------
(* Storage objects as partial maps.                                         *)

(* A put changes the entry it names only.                                   *)
LEMMA WithFacts ==
  ASSUME NEW f, NEW x, NEW v
  PROVE  /\ DOMAIN With(f, x, v) = DOMAIN f \cup {x}
         /\ With(f, x, v)[x] = v
         /\ \A y \in DOMAIN f \ {x} : With(f, x, v)[y] = f[y]
BY DEF With

(* A delete keeps every other entry.                                        *)
LEMMA WithoutFacts ==
  ASSUME NEW f, NEW X
  PROVE  /\ DOMAIN Without(f, X) = DOMAIN f \ X
         /\ \A y \in DOMAIN f \ X : Without(f, X)[y] = f[y]
BY DEF Without

(* Puts and deletes keep a map a map, and the empty object is one.          *)
LEMMA WithMap ==
  ASSUME NEW S, NEW T, NEW f, IsMap(f, S, T), NEW x \in S, NEW v \in T
  PROVE  IsMap(With(f, x, v), S, T)
BY DEF With, IsMap

LEMMA WithoutMap ==
  ASSUME NEW S, NEW T, NEW f, IsMap(f, S, T), NEW X
  PROVE  IsMap(Without(f, X), S, T)
BY DEF Without, IsMap

LEMMA EmptyMap ==
  ASSUME NEW S, NEW T, NEW e
  PROVE  IsMap([x \in {} |-> e], S, T)
BY DEF IsMap

-----------------------------------------------------------------------------
(* What each handler makes of a row.                                        *)

LEMMA NewRowType ==
  ASSUME TypeOK, NEW k \in Key, NEW i \in Intent
  PROVE  /\ IsRow(NewRow(k, i))
         /\ NewRow(k, i).intent = i /\ DOMAIN NewRow(k, i).claims = {}
         /\ NewRow(k, i).acceptance = nextAcceptance
         /\ NewRow(k, i).generation = generation
         /\ NewRow(k, i).status = "preparing"
<1>1. i.channels \in SUBSET Channel
  BY IntentAssumption
<1>2. IsMap([c \in i.channels |-> Unclaimed], Channel, ChannelState)
  BY <1>1 DEF IsMap, Unclaimed, ChannelState
<1>3. IsMap(With([x \in {} |-> i], k, i), Key, Intent)
  BY EmptyMap, WithMap
<1>4. IsMap(NoClaims, Token, SUBSET Channel) /\ DOMAIN NoClaims = {}
  BY EmptyMap DEF NoClaims
<1> QED BY <1>2, <1>3, <1>4 DEF NewRow, IsRow, RowStatus, TypeOK

LEMMA SupersededType ==
  ASSUME NEW r, IsRow(r)
  PROVE  /\ IsRow(Superseded(r))
         /\ Superseded(r).intent = r.intent /\ Superseded(r).acceptance = r.acceptance
         /\ Superseded(r).generation = r.generation /\ Superseded(r).channels = r.channels
         /\ Superseded(r).status = "superseded" /\ DOMAIN Superseded(r).claims = {}
<1>1. IsMap(NoClaims, Token, SUBSET Channel) /\ DOMAIN NoClaims = {}
  BY EmptyMap DEF NoClaims
<1>2. Superseded(r) = [r EXCEPT !.status = "superseded", !.claims = NoClaims]
  BY DEF Superseded
<1>3. /\ IsRow(Superseded(r))
      /\ Superseded(r).intent = r.intent /\ Superseded(r).acceptance = r.acceptance
      /\ Superseded(r).generation = r.generation /\ Superseded(r).channels = r.channels
      /\ Superseded(r).status = "superseded" /\ Superseded(r).claims = NoClaims
  BY <1>1, <1>2 DEF IsRow, RowStatus
<1> QED BY <1>1, <1>3

LEMMA CancelledType ==
  ASSUME NEW r, IsRow(r)
  PROVE  /\ IsRow(Cancelled(r))
         /\ Cancelled(r).intent = r.intent /\ Cancelled(r).acceptance = r.acceptance
         /\ Cancelled(r).generation = r.generation /\ Cancelled(r).channels = r.channels
         /\ Cancelled(r).status \in {r.status, "cancelled_cutover"}
         /\ DOMAIN Cancelled(r).claims = {} \/ Cancelled(r).claims = r.claims
<1>1. IsMap(NoClaims, Token, SUBSET Channel) /\ DOMAIN NoClaims = {}
  BY EmptyMap DEF NoClaims
<1> QED BY <1>1 DEF Cancelled, IsRow, RowStatus

LEMMA MergedType ==
  ASSUME NEW r, IsRow(r), NEW k \in Key, NEW i \in Intent
  PROVE  /\ IsRow(Merged(r, k, i))
         /\ Merged(r, k, i).intent = r.intent /\ Merged(r, k, i).acceptance = r.acceptance
         /\ Merged(r, k, i).generation = r.generation /\ Merged(r, k, i).claims = r.claims
         /\ Merged(r, k, i).status = r.status
         /\ DOMAIN r.channels \subseteq DOMAIN Merged(r, k, i).channels
         /\ \A c \in DOMAIN r.channels : Merged(r, k, i).channels[c] = r.channels[c]
<1> DEFINE m == [c \in DOMAIN r.channels \cup i.channels |->
                   IF c \in DOMAIN r.channels THEN r.channels[c] ELSE Unclaimed]
<1>1. i.channels \in SUBSET Channel
  BY IntentAssumption
<1>2. IsMap(m, Channel, ChannelState)
  BY <1>1 DEF IsRow, IsMap, Unclaimed, ChannelState
<1>3. IsMap(With(r.submissions, k, i), Key, Intent)
  BY WithMap DEF IsRow
<1>4. Merged(r, k, i) = [r EXCEPT !.submissions = With(r.submissions, k, i), !.channels = m]
  BY DEF Merged
<1> HIDE DEF m
<1>5. /\ IsRow(Merged(r, k, i))
      /\ Merged(r, k, i).intent = r.intent /\ Merged(r, k, i).acceptance = r.acceptance
      /\ Merged(r, k, i).generation = r.generation /\ Merged(r, k, i).claims = r.claims
      /\ Merged(r, k, i).status = r.status /\ Merged(r, k, i).channels = m
  BY <1>2, <1>3, <1>4 DEF IsRow
<1> QED BY <1>5 DEF m

LEMMA ClaimedRowType ==
  ASSUME NEW r, IsRow(r), NEW t \in Token
  PROVE  /\ IsRow(ClaimedRow(r, t))
         /\ ClaimedRow(r, t).intent = r.intent /\ ClaimedRow(r, t).acceptance = r.acceptance
         /\ ClaimedRow(r, t).generation = r.generation /\ ClaimedRow(r, t).status = "analyzing"
         /\ DOMAIN ClaimedRow(r, t).channels = DOMAIN r.channels
         /\ \A c \in DOMAIN r.channels : ClaimedRow(r, t).channels[c] =
              IF c \in Claimable(r) THEN HeldBy(t) ELSE r.channels[c]
         /\ ClaimedRow(r, t).claims = With(Without(r.claims, ExpiredTokens(r)), t, Claimable(r))
<1> DEFINE m == [c \in DOMAIN r.channels |->
                   IF c \in Claimable(r) THEN HeldBy(t) ELSE r.channels[c]]
           w == With(Without(r.claims, ExpiredTokens(r)), t, Claimable(r))
<1>1. IsMap(m, Channel, ChannelState)
  BY DEF IsRow, IsMap, HeldBy, ChannelState
<1>2. Claimable(r) \in SUBSET Channel
  BY DEF Claimable, IsRow, IsMap
<1>3. IsMap(w, Token, SUBSET Channel)
  BY <1>2, WithMap, WithoutMap DEF IsRow
<1>4. ClaimedRow(r, t) = [r EXCEPT !.status = "analyzing", !.channels = m, !.claims = w]
  BY DEF ClaimedRow
<1> HIDE DEF m, w
<1>5. /\ IsRow(ClaimedRow(r, t))
      /\ ClaimedRow(r, t).intent = r.intent /\ ClaimedRow(r, t).acceptance = r.acceptance
      /\ ClaimedRow(r, t).generation = r.generation /\ ClaimedRow(r, t).status = "analyzing"
      /\ ClaimedRow(r, t).channels = m /\ ClaimedRow(r, t).claims = w
  BY <1>1, <1>3, <1>4 DEF IsRow, RowStatus
<1> QED BY <1>5 DEF m, w

LEMMA CompletedShape ==
  ASSUME NEW k \in DOMAIN rows, IsRow(rows[k]), NEW t \in Token,
         NEW outcome \in {"completed", "failed"}
  PROVE  LET r == rows[k] f == Finished(r, t, outcome) IN
         /\ IsRow(Completed(k, t, outcome))
         /\ Completed(k, t, outcome) =
              [intent |-> r.intent, submissions |-> r.submissions, acceptance |-> r.acceptance,
               generation |-> r.generation, status |-> NextStatus(k, f),
               channels |-> [c \in DOMAIN r.channels |->
                   IF c \in r.claims[t] /\ r.channels[c].token = t
                   THEN [status |-> outcome, token |-> t] ELSE r.channels[c]],
               claims |-> Without(r.claims, {t})]
<1> DEFINE r == rows[k]
           m == [c \in DOMAIN r.channels |->
                   IF c \in r.claims[t] /\ r.channels[c].token = t
                   THEN [status |-> outcome, token |-> t] ELSE r.channels[c]]
           w == Without(r.claims, {t})
           f == Finished(r, t, outcome)
           st == NextStatus(k, f)
<1>1. IsMap(m, Channel, ChannelState)
  BY DEF IsRow, IsMap, ChannelState
<1>2. IsMap(w, Token, SUBSET Channel)
  BY WithoutMap DEF IsRow
<1>3. st \in RowStatus
  BY DEF NextStatus, RowStatus
<1>4. f = [r EXCEPT !.channels = m, !.claims = w]
  BY DEF Finished
<1>5. Completed(k, t, outcome) = [f EXCEPT !.status = st]
  BY DEF Completed
<1> HIDE DEF m, w, st, f
<1>6. /\ f = [intent |-> r.intent, submissions |-> r.submissions, acceptance |-> r.acceptance,
              generation |-> r.generation, status |-> r.status, channels |-> m, claims |-> w]
  BY <1>4 DEF IsRow
<1>7. Completed(k, t, outcome) =
        [intent |-> r.intent, submissions |-> r.submissions, acceptance |-> r.acceptance,
         generation |-> r.generation, status |-> st, channels |-> m, claims |-> w]
  BY <1>5, <1>6
<1>8. IsRow(Completed(k, t, outcome))
  BY <1>1, <1>2, <1>3, <1>7 DEF IsRow
<1> QED BY <1>7, <1>8 DEF m, w, st, f

LEMMA CompletedType ==
  ASSUME NEW k \in DOMAIN rows, IsRow(rows[k]), NEW t \in Token,
         NEW outcome \in {"completed", "failed"}
  PROVE  /\ IsRow(Completed(k, t, outcome))
         /\ Completed(k, t, outcome).intent = rows[k].intent
         /\ Completed(k, t, outcome).acceptance = rows[k].acceptance
         /\ Completed(k, t, outcome).generation = rows[k].generation
         /\ Completed(k, t, outcome).status = NextStatus(k, Finished(rows[k], t, outcome))
<1>1. PICK q : q = Completed(k, t, outcome)
  OBVIOUS
<1>2. q = [intent |-> rows[k].intent, submissions |-> rows[k].submissions,
           acceptance |-> rows[k].acceptance,
               generation |-> rows[k].generation,
               status |-> NextStatus(k, Finished(rows[k], t, outcome)),
               channels |-> [c \in DOMAIN rows[k].channels |->
                   IF c \in rows[k].claims[t] /\ rows[k].channels[c].token = t
                   THEN [status |-> outcome, token |-> t] ELSE rows[k].channels[c]],
               claims |-> Without(rows[k].claims, {t})]
  BY <1>1, CompletedShape, Zenon
<1>3. IsRow(q)
  BY <1>1, CompletedShape, Zenon
<1>4. /\ q.intent = rows[k].intent /\ q.acceptance = rows[k].acceptance
      /\ q.generation = rows[k].generation
      /\ q.status = NextStatus(k, Finished(rows[k], t, outcome))
  BY <1>2
<1> QED BY <1>1, <1>3, <1>4

LEMMA CompletedClaims ==
  ASSUME NEW k \in DOMAIN rows, IsRow(rows[k]), NEW t \in Token,
         NEW outcome \in {"completed", "failed"}
  PROVE  Completed(k, t, outcome).claims = Without(rows[k].claims, {t})
<1> DEFINE f == Finished(rows[k], t, outcome)
<1>1. f.claims = Without(rows[k].claims, {t})
  BY DEF Finished, IsRow
<1>2. Completed(k, t, outcome).claims = f.claims
  BY DEF Completed, Finished, IsRow
<1> QED BY <1>1, <1>2

LEMMA CompletedDomain ==
  ASSUME NEW k \in DOMAIN rows, IsRow(rows[k]), NEW t \in Token,
         NEW outcome \in {"completed", "failed"}
  PROVE  DOMAIN Completed(k, t, outcome).channels = DOMAIN rows[k].channels
<1> DEFINE f == Finished(rows[k], t, outcome)
<1>1. DOMAIN f.channels = DOMAIN rows[k].channels
  BY DEF Finished, IsRow
<1>2. Completed(k, t, outcome).channels = f.channels
  BY DEF Completed, Finished, IsRow
<1> QED BY <1>1, <1>2

LEMMA CompletedChannel ==
  ASSUME NEW k \in DOMAIN rows, IsRow(rows[k]), NEW t \in Token,
         NEW outcome \in {"completed", "failed"}, NEW c \in DOMAIN rows[k].channels
  PROVE  \/ Completed(k, t, outcome).channels[c] = rows[k].channels[c]
         \/ /\ c \in rows[k].claims[t] /\ rows[k].channels[c].token = t
            /\ Completed(k, t, outcome).channels[c].token = t
            /\ Completed(k, t, outcome).channels[c].status = outcome
<1> DEFINE f == Finished(rows[k], t, outcome)
<1>1. f.channels = [d \in DOMAIN rows[k].channels |->
              IF d \in rows[k].claims[t] /\ rows[k].channels[d].token = t
              THEN [status |-> outcome, token |-> t] ELSE rows[k].channels[d]]
  BY DEF Finished, IsRow
<1>2. Completed(k, t, outcome).channels = f.channels
  BY DEF Completed, Finished, IsRow
<1> HIDE DEF f
<1>3. CASE c \in rows[k].claims[t] /\ rows[k].channels[c].token = t
  BY <1>1, <1>2, <1>3
<1>4. CASE ~(c \in rows[k].claims[t] /\ rows[k].channels[c].token = t)
  BY <1>1, <1>2, <1>4
<1> QED BY <1>3, <1>4

-----------------------------------------------------------------------------
(* What an admission that accepts a new row makes of the table.             *)

LEMMA AcceptRows ==
  ASSUME NEW k \in Key, NEW i \in Intent, Accept(k, i)
  PROVE  /\ DOMAIN rows' \subseteq DOMAIN rows \cup {k}
         /\ \A j \in DOMAIN rows' :
              \/ j = k /\ rows'[j] = NewRow(k, i)
              \/ j # k /\ j \in DOMAIN rows /\ rows'[j] = rows[j]
              \/ j # k /\ j \in DOMAIN rows /\ rows'[j] = Superseded(rows[j])
                   /\ NoLiveLease(rows[j])
<1> DEFINE old == [e \in DOMAIN rows |->
                     IF e \in Existing(i) THEN Superseded(rows[e]) ELSE rows[e]]
           new == With(old, k, NewRow(k, i))
<1>1. PICK V : rows' = Without(new, V)
  BY DEF Accept
<1>2. \A e \in Existing(i) : NoLiveLease(rows[e])
  BY DEF Accept
<1>6. DOMAIN old = DOMAIN rows
  OBVIOUS
<1> HIDE DEF old
<1>3. /\ DOMAIN new = DOMAIN rows \cup {k} /\ new[k] = NewRow(k, i)
      /\ \A j \in DOMAIN rows \ {k} : new[j] = old[j]
  <2>1. /\ DOMAIN new = DOMAIN old \cup {k} /\ new[k] = NewRow(k, i)
        /\ \A j \in DOMAIN old \ {k} : new[j] = old[j]
    BY DEF With
  <2> QED BY <1>6, <2>1
<1> HIDE DEF new
<1>4. DOMAIN rows' = DOMAIN new \ V /\ \A j \in DOMAIN new \ V : rows'[j] = new[j]
  BY <1>1, WithoutFacts
<1>5. ASSUME NEW j \in DOMAIN rows', j # k
      PROVE  j \in DOMAIN rows /\ rows'[j] = old[j]
  BY <1>3, <1>4, <1>5
<1> QED BY <1>2, <1>3, <1>4, <1>5 DEF old

(* The row an intent would merge into or supersede is in the table.         *)
LEMMA ExistingRows ==
  ASSUME NEW i PROVE \A e \in Existing(i) : e \in DOMAIN rows
BY DEF Existing

-----------------------------------------------------------------------------
(* Type correctness.                                                        *)

LEMMA TypeInit == Init => TypeOK
<1> SUFFICES ASSUME Init PROVE TypeOK
  OBVIOUS
<1>1. /\ IsMap(dedupe, Key, Key) /\ IsMap(index, Project \X Revision, Key)
      /\ IsMap(latest, Project, Key)
  BY EmptyMap DEF Init
<1>2. DOMAIN rows = {}
  BY DEF Init
<1>3. recent \in [Actor -> 0 .. LaunchLimit] /\ lease \in [Token -> 0 .. LeaseTicks]
  BY BoundAssumption DEF Init
<1> QED BY <1>1, <1>2, <1>3 DEF Init, TypeOK

LEMMA IntentFields ==
  ASSUME NEW i \in Intent
  PROVE  /\ i.project \in Project /\ i.revision \in Revision /\ i.actor \in Actor
         /\ AnalysisKey(i) \in Project \X Revision
BY IntentAssumption DEF AnalysisKey

LEMMA TypeAdmit ==
  ASSUME TypeOK, NEW k \in Key, NEW i \in Intent, Admit(k, i) PROVE TypeOK'
<1>1. CASE Merge(k, i)
  <2>1. PICK e \in Existing(i) :
          /\ rows' = [rows EXCEPT ![e] = Merged(rows[e], k, i)]
          /\ dedupe' = With(dedupe, k, e)
    BY <1>1 DEF Merge, Remember
  <2>2. e \in DOMAIN rows /\ e \in Key /\ IsRow(rows[e])
    BY ExistingRows DEF TypeOK
  <2>3. DOMAIN rows' \subseteq Key /\ \A j \in DOMAIN rows' : IsRow(rows'[j])
    BY <2>1, <2>2, MergedType DEF TypeOK
  <2>4. IsMap(dedupe', Key, Key)
    BY <2>1, <2>2, WithMap DEF TypeOK
  <2> QED BY <1>1, <2>3, <2>4 DEF TypeOK, Merge, meta
<1>2. CASE Accept(k, i)
  <2>1. DOMAIN rows' \subseteq Key /\ \A j \in DOMAIN rows' : IsRow(rows'[j])
    BY <1>2, AcceptRows, NewRowType, SupersededType DEF TypeOK
  <2>2. \E X : dedupe' = Without(With(dedupe, k, k), X)
    BY <1>2 DEF Accept, Remember
  <2>3. IsMap(dedupe', Key, Key)
    BY <2>2, WithMap, WithoutMap DEF TypeOK
  <2>4. IsMap(index', Project \X Revision, Key) /\ IsMap(latest', Project, Key)
    BY <1>2, WithMap, IntentFields DEF TypeOK, Accept
  <2>5. recent' \in [Actor -> 0 .. LaunchLimit]
    BY <1>2, IntentFields, BoundAssumption DEF TypeOK, Accept, Admit, WithinQuota
  <2>6. nextAcceptance' \in Nat
    BY <1>2 DEF TypeOK, Accept
  <2> QED BY <1>2, <2>1, <2>3, <2>4, <2>5, <2>6 DEF TypeOK, Accept
<1> QED BY <1>1, <1>2 DEF Admit

LEMMA TypeClaim ==
  ASSUME TypeOK, NEW k \in DOMAIN rows, NEW t \in Token, Claim(k, t) PROVE TypeOK'
<1>1. IsRow(rows[k]) /\ k \in Key
  BY DEF TypeOK
<1>2. \A j \in DOMAIN rows' : IsRow(rows'[j])
  BY <1>1, ClaimedRowType DEF TypeOK, Claim
<1>3. lease' \in [Token -> 0 .. LeaseTicks]
  BY BoundAssumption DEF TypeOK, Claim
<1>4. [key |-> k, token |-> t, generation |-> rows[k].generation]
        \in [key: Key, token: Token, generation: Nat]
  BY <1>1 DEF IsRow
<1>5. grants' \subseteq [key: Key, token: Token, generation: Nat]
  BY <1>4 DEF TypeOK, Claim
<1> QED BY <1>2, <1>3, <1>5 DEF TypeOK, Claim, meta

LEMMA TypeComplete ==
  ASSUME TypeOK, NEW g \in grants, NEW outcome \in {"completed", "failed"},
         Complete(g, outcome)
  PROVE  TypeOK'
<1>1. g.key \in DOMAIN rows /\ g.token \in Token /\ IsRow(rows[g.key])
  BY DEF TypeOK, Complete, Fenced
<1>2. IsRow(Completed(g.key, g.token, outcome))
  BY <1>1, CompletedType
<1>3. DOMAIN rows' = DOMAIN rows /\ \A j \in DOMAIN rows' : IsRow(rows'[j])
  BY <1>1, <1>2 DEF TypeOK, Complete
<1>4. IsMap(index', Project \X Revision, Key)
  BY WithoutMap DEF TypeOK, Complete, IndexAfter
<1> QED BY <1>3, <1>4 DEF TypeOK, Complete, meta

LEMMA TypeReset == ASSUME TypeOK, Reset PROVE TypeOK'
<1>1. DOMAIN rows' \subseteq Key /\ \A j \in DOMAIN rows' : IsRow(rows'[j])
  BY CancelledType DEF TypeOK, Reset, CutOver
<1>2. IsMap(dedupe', Key, Key) /\ IsMap(index', Project \X Revision, Key)
  BY WithoutMap DEF TypeOK, Reset, CutOver
<1> QED BY <1>1, <1>2 DEF TypeOK, Reset, CutOver

LEMMA TypeStep == TypeOK /\ [Next]_vars => TypeOK'
<1> SUFFICES ASSUME TypeOK, [Next]_vars PROVE TypeOK'
  OBVIOUS
<1>1. CASE \E k \in Key, i \in Intent : Admit(k, i)
  BY <1>1, TypeAdmit
<1>2. CASE \E k \in Key, t \in Token : Hinted(k, t) \/ Unhinted(k, t)
  BY <1>2, TypeClaim DEF Hinted, Unhinted, Claimables
<1>3. CASE \E g \in grants, publication \in BOOLEAN : Heartbeat(g, publication)
  <2>1. lease' \in [Token -> 0 .. LeaseTicks]
    BY <1>3, BoundAssumption DEF TypeOK, Heartbeat
  <2> QED BY <1>3, <2>1 DEF TypeOK, Heartbeat, meta
<1>4. CASE \E g \in grants, outcome \in {"completed", "failed"} : Complete(g, outcome)
  BY <1>4, TypeComplete
<1>5. CASE Pause \/ Resume
  BY <1>5 DEF TypeOK, Pause, Resume
<1>6. CASE Reset
  BY <1>6, TypeReset
<1>7. CASE Tick
  <2>1. lease' \in [Token -> 0 .. LeaseTicks]
    BY <1>7, BoundAssumption DEF TypeOK, Tick
  <2> QED BY <1>7, <2>1 DEF TypeOK, Tick, meta
<1>8. CASE \E a \in Actor : Slide(a)
  <2>1. recent' \in [Actor -> 0 .. LaunchLimit]
    BY <1>8 DEF TypeOK, Slide
  <2> QED BY <1>8, <2>1 DEF TypeOK, Slide, meta
<1>9. CASE UNCHANGED vars
  BY <1>9 DEF TypeOK, vars, meta
<1> QED BY <1>1, <1>2, <1>3, <1>4, <1>5, <1>6, <1>7, <1>8, <1>9 DEF Next

(* Every storage key always holds a value of the shape its readers expect.  *)
THEOREM TypeInvariant == Spec => []TypeOK
BY TypeInit, TypeStep, PTL DEF Spec

-----------------------------------------------------------------------------
(* What one step may do to one row.                                         *)

RowKept(k) == k \in DOMAIN rows /\ rows'[k] = rows[k]
RowAccepted(k) == \E i \in Intent : k \in Key /\ rows'[k] = NewRow(k, i)
RowMerged(k) ==
  /\ k \in DOMAIN rows /\ Active(rows[k])
  /\ \E x \in Key, i \in Intent : rows'[k] = Merged(rows[k], x, i)
RowSuperseded(k) ==
  k \in DOMAIN rows /\ NoLiveLease(rows[k]) /\ rows'[k] = Superseded(rows[k])
RowClaimed(k) ==
  /\ k \in DOMAIN rows /\ Claimable(rows[k]) # {}
  /\ \E t \in Token : rows'[k] = ClaimedRow(rows[k], t)
RowCompleted(k) ==
  /\ k \in DOMAIN rows
  /\ \E t \in Token, outcome \in {"completed", "failed"} :
       t \in DOMAIN rows[k].claims /\ rows'[k] = Completed(k, t, outcome)
RowCancelled(k) ==
  k \in DOMAIN rows /\ generation' = generation + 1 /\ rows'[k] = Cancelled(rows[k])

LEMMA RowChange ==
  ASSUME TypeOK, [Next]_vars, NEW j \in DOMAIN rows'
  PROVE  \/ RowKept(j) \/ RowAccepted(j) \/ RowMerged(j) \/ RowSuperseded(j)
         \/ RowClaimed(j) \/ RowCompleted(j) \/ RowCancelled(j)
<1>1. ASSUME NEW k \in Key, NEW i \in Intent, Merge(k, i)
      PROVE  RowKept(j) \/ RowMerged(j)
  <2>1. PICK e \in DOMAIN rows : /\ rows' = [rows EXCEPT ![e] = Merged(rows[e], k, i)]
                                 /\ Active(rows[e])
    BY <1>1 DEF Merge, Existing
  <2> QED BY <2>1 DEF RowKept, RowMerged
<1>2. ASSUME NEW k \in Key, NEW i \in Intent, Accept(k, i)
      PROVE  RowAccepted(j) \/ RowKept(j) \/ RowSuperseded(j)
  BY <1>2, AcceptRows DEF RowAccepted, RowKept, RowSuperseded
<1>3. ASSUME NEW k \in DOMAIN rows, NEW t \in Token, Claim(k, t)
      PROVE  RowKept(j) \/ RowClaimed(j)
  BY <1>3 DEF Claim, RowKept, RowClaimed
<1>4. ASSUME NEW g \in grants, NEW outcome \in {"completed", "failed"}, Complete(g, outcome)
      PROVE  RowKept(j) \/ RowCompleted(j)
  <2>1. g.key \in DOMAIN rows /\ g.token \in Token /\ g.token \in DOMAIN rows[g.key].claims
    BY <1>4 DEF Complete, Fenced, TypeOK
  <2>2. rows' = [rows EXCEPT ![g.key] = Completed(g.key, g.token, outcome)]
    BY <1>4 DEF Complete
  <2> QED BY <2>1, <2>2 DEF RowKept, RowCompleted
<1>5. CASE Reset
  BY <1>5 DEF Reset, CutOver, RowCancelled
<1>6. CASE Pause \/ Resume \/ Tick \/ (\E a \in Actor : Slide(a))
           \/ (\E g \in grants, publication \in BOOLEAN : Heartbeat(g, publication))
           \/ UNCHANGED vars
  BY <1>6 DEF Pause, Resume, Tick, Slide, Heartbeat, vars, RowKept
<1> QED BY <1>1, <1>2, <1>3, <1>4, <1>5, <1>6 DEF Next, Admit, Hinted, Unhinted, Claimables

-----------------------------------------------------------------------------
(* Fencing.                                                                 *)

RowFenced(r) ==
  \A t \in DOMAIN r.claims : \A c \in r.claims[t] :
    c \in DOMAIN r.channels /\ r.channels[c] = HeldBy(t)

(* A claim leaves the row fenced: it takes expired channels together with   *)
(* the tokens that held them.                                               *)
LEMMA ClaimedFenced ==
  ASSUME NEW r, IsRow(r), RowFenced(r), NEW t \in Token
  PROVE  RowFenced(ClaimedRow(r, t))
<1> DEFINE q == ClaimedRow(r, t)
           kept == Without(r.claims, ExpiredTokens(r))
<1>1. /\ DOMAIN q.channels = DOMAIN r.channels
      /\ \A c \in DOMAIN r.channels : q.channels[c] =
           IF c \in Claimable(r) THEN HeldBy(t) ELSE r.channels[c]
      /\ q.claims = With(kept, t, Claimable(r))
  BY ClaimedRowType
<1>2. /\ DOMAIN q.claims = DOMAIN kept \cup {t} /\ q.claims[t] = Claimable(r)
      /\ \A u \in DOMAIN kept \ {t} : q.claims[u] = kept[u]
  BY <1>1 DEF With
<1>3. /\ DOMAIN kept = DOMAIN r.claims \ ExpiredTokens(r)
      /\ \A u \in DOMAIN kept : kept[u] = r.claims[u]
  BY DEF Without
<1> HIDE DEF q, kept
<1>4. ASSUME NEW c \in Claimable(r)
      PROVE  c \in DOMAIN q.channels /\ q.channels[c] = HeldBy(t)
  BY <1>1, <1>4 DEF Claimable
<1>5. ASSUME NEW u \in DOMAIN q.claims, u # t, NEW c \in q.claims[u]
      PROVE  c \in DOMAIN q.channels /\ q.channels[c] = HeldBy(u)
  <2>1. u \in DOMAIN r.claims /\ u \notin ExpiredTokens(r) /\ c \in r.claims[u]
    BY <1>2, <1>3, <1>5
  <2>2. c \in DOMAIN r.channels /\ r.channels[c] = HeldBy(u)
    BY <2>1 DEF RowFenced
  <2>3. c \notin Claimable(r)
    BY <2>1, <2>2 DEF HeldBy, ExpiredTokens, Claimable
  <2> QED BY <1>1, <2>2, <2>3
<1>6. RowFenced(q)
  BY <1>2, <1>4, <1>5 DEF RowFenced
<1> QED BY <1>6 DEF q

(* A completion only touches channels its own token holds.                  *)
LEMMA CompletedFenced ==
  ASSUME NEW k \in DOMAIN rows, IsRow(rows[k]), RowFenced(rows[k]), NEW t \in Token,
         NEW outcome \in {"completed", "failed"}
  PROVE  RowFenced(Completed(k, t, outcome))
<1>1. PICK q : q = Completed(k, t, outcome)
  OBVIOUS
<1>2. Completed(k, t, outcome).claims = Without(rows[k].claims, {t})
  BY CompletedClaims, Zenon
<1>3. /\ DOMAIN q.channels = DOMAIN rows[k].channels
      /\ \A c \in DOMAIN rows[k].channels : rows[k].channels[c].token # t =>
           q.channels[c] = rows[k].channels[c]
  <2>1. DOMAIN Completed(k, t, outcome).channels = DOMAIN rows[k].channels
    BY CompletedDomain, Zenon
  <2>2. ASSUME NEW c \in DOMAIN rows[k].channels, rows[k].channels[c].token # t
        PROVE  Completed(k, t, outcome).channels[c] = rows[k].channels[c]
    BY <2>2, CompletedChannel
  <2> QED BY <1>1, <2>1, <2>2
<1>4. /\ DOMAIN q.claims = DOMAIN rows[k].claims \ {t}
      /\ \A u \in DOMAIN q.claims : q.claims[u] = rows[k].claims[u]
  BY <1>1, <1>2 DEF Without
<1>5. ASSUME NEW u \in DOMAIN q.claims, NEW c \in q.claims[u]
      PROVE  c \in DOMAIN q.channels /\ q.channels[c] = HeldBy(u)
  <2>1. u # t /\ c \in DOMAIN rows[k].channels /\ rows[k].channels[c] = HeldBy(u)
    BY <1>4, <1>5 DEF RowFenced
  <2>2. rows[k].channels[c].token # t
    BY <2>1 DEF HeldBy
  <2> QED BY <1>3, <2>1, <2>2
<1>6. RowFenced(q)
  BY <1>5 DEF RowFenced
<1> QED BY <1>1, <1>6

LEMMA FenceStep == TypeOK /\ ClaimsFenced /\ [Next]_vars => ClaimsFenced'
<1> SUFFICES ASSUME TypeOK, ClaimsFenced, [Next]_vars, NEW j \in DOMAIN rows'
             PROVE  RowFenced(rows'[j])
  BY DEF ClaimsFenced, RowFenced
<1>0. \A k \in DOMAIN rows : RowFenced(rows[k]) /\ IsRow(rows[k]) /\ k \in Key
  BY DEF ClaimsFenced, RowFenced, TypeOK
<1>1. CASE RowKept(j)
  BY <1>0, <1>1 DEF RowKept
<1>2. CASE RowAccepted(j)
  BY <1>2, NewRowType DEF RowAccepted, RowFenced
<1>3. CASE RowMerged(j)
  BY <1>0, <1>3, MergedType DEF RowMerged, RowFenced
<1>4. CASE RowSuperseded(j)
  BY <1>0, <1>4, SupersededType DEF RowSuperseded, RowFenced
<1>5. CASE RowClaimed(j)
  BY <1>0, <1>5, ClaimedFenced DEF RowClaimed
<1>6. CASE RowCompleted(j)
  BY <1>0, <1>6, CompletedFenced DEF RowCompleted
<1>7. CASE RowCancelled(j)
  BY <1>0, <1>7, CancelledType DEF RowCancelled, RowFenced
<1> QED BY <1>1, <1>2, <1>3, <1>4, <1>5, <1>6, <1>7, RowChange

(* No two outstanding claims of a request ever share a channel.             *)
THEOREM Fencing == Spec => []ClaimsFenced
<1>1. Init => ClaimsFenced
  BY DEF Init, ClaimsFenced
<1> QED BY <1>1, TypeInvariant, FenceStep, PTL DEF Spec

-----------------------------------------------------------------------------
(* Acceptance order.                                                        *)

(* A row that stays or changes under one request id keeps its project and   *)
(* its place in the order; a row accepted anew is the newest of all.        *)
Placed(r, s) ==
  r.intent = s.intent /\ r.acceptance = s.acceptance /\ r.generation = s.generation
RowKeepsPlace(j) == j \in DOMAIN rows /\ Placed(rows'[j], rows[j])

(* What a step does to the counters and to project-latest.                  *)
LEMMA CounterChange ==
  ASSUME TypeOK, [Next]_vars
  PROVE  \/ /\ UNCHANGED <<nextAcceptance, generation, latest>>
            /\ \A j \in DOMAIN rows' : RowKeepsPlace(j)
         \/ /\ generation' = generation + 1 /\ UNCHANGED latest
            /\ \A j \in DOMAIN rows' : RowKeepsPlace(j)
         \/ /\ generation' = generation /\ nextAcceptance' = nextAcceptance + 1
            /\ \E k \in Key, i \in Intent :
                 /\ latest' = With(latest, i.project, k)
                 /\ k \in DOMAIN rows' => rows'[k] = NewRow(k, i)
                 /\ \A j \in DOMAIN rows' \ {k} : RowKeepsPlace(j)
<1>0. \A k \in DOMAIN rows : IsRow(rows[k])
  BY DEF TypeOK
<1>1. ASSUME NEW k \in Key, NEW i \in Intent, Accept(k, i)
      PROVE  /\ generation' = generation /\ nextAcceptance' = nextAcceptance + 1
             /\ latest' = With(latest, i.project, k)
             /\ k \in DOMAIN rows' => rows'[k] = NewRow(k, i)
             /\ \A j \in DOMAIN rows' \ {k} : RowKeepsPlace(j)
  <2>1. ASSUME NEW j \in DOMAIN rows', j # k PROVE RowKeepsPlace(j)
    BY <1>0, <1>1, <2>1, AcceptRows, SupersededType DEF RowKeepsPlace, Placed
  <2> QED BY <1>1, <2>1, AcceptRows DEF Accept
<1>3. ASSUME NEW k \in Key, NEW i \in Intent, Merge(k, i)
      PROVE  \A j \in DOMAIN rows' : RowKeepsPlace(j)
  <2>1. PICK e \in DOMAIN rows : rows' = [rows EXCEPT ![e] = Merged(rows[e], k, i)]
    BY <1>3, ExistingRows DEF Merge
  <2> QED BY <1>0, <2>1, MergedType DEF RowKeepsPlace, Placed
<1>4. ASSUME NEW k \in DOMAIN rows, NEW t \in Token, Claim(k, t)
      PROVE  \A j \in DOMAIN rows' : RowKeepsPlace(j)
  BY <1>0, <1>4, ClaimedRowType DEF Claim, RowKeepsPlace, Placed
<1>5. ASSUME NEW g \in grants, NEW outcome \in {"completed", "failed"}, Complete(g, outcome)
      PROVE  \A j \in DOMAIN rows' : RowKeepsPlace(j)
  <2>1. g.key \in DOMAIN rows /\ g.token \in Token
    BY <1>5 DEF Complete, Fenced, TypeOK
  <2>2. rows' = [rows EXCEPT ![g.key] = Completed(g.key, g.token, outcome)]
    BY <1>5 DEF Complete
  <2>3. Placed(Completed(g.key, g.token, outcome), rows[g.key])
    BY <1>0, <2>1, CompletedType DEF Placed
  <2> QED BY <2>1, <2>2, <2>3 DEF RowKeepsPlace, Placed
<1>6. CASE Reset
  <2>1. \A j \in DOMAIN rows' : RowKeepsPlace(j)
    BY <1>0, <1>6, CancelledType DEF Reset, CutOver, RowKeepsPlace, Placed
  <2> QED BY <1>6, <2>1 DEF Reset, CutOver
<1>7. CASE Pause \/ Resume \/ Tick \/ (\E a \in Actor : Slide(a))
           \/ (\E g \in grants, publication \in BOOLEAN : Heartbeat(g, publication))
           \/ UNCHANGED vars
  <2>1. rows' = rows /\ UNCHANGED <<nextAcceptance, generation, latest>>
    BY <1>7 DEF Pause, Resume, Tick, Slide, Heartbeat, vars, meta
  <2> QED BY <2>1 DEF RowKeepsPlace, Placed
<1> QED BY <1>1, <1>3, <1>4, <1>5, <1>6, <1>7
        DEF Next, Admit, Hinted, Unhinted, Claimables, Merge, Claim, Complete, meta

LEMMA OrderStep ==
  TypeOK /\ AcceptancesInOrder /\ LatestIsNewest /\ [Next]_vars
    => AcceptancesInOrder' /\ LatestIsNewest'
<1> SUFFICES ASSUME TypeOK, AcceptancesInOrder, LatestIsNewest, [Next]_vars
             PROVE  AcceptancesInOrder' /\ LatestIsNewest'
  OBVIOUS
<1>0. /\ \A j \in DOMAIN rows : rows[j].acceptance \in Nat /\ rows[j].generation \in Nat
      /\ nextAcceptance \in Nat /\ generation \in Nat
  BY DEF TypeOK, IsRow
<1>1. CASE /\ UNCHANGED <<nextAcceptance, generation, latest>>
           /\ \A j \in DOMAIN rows' : RowKeepsPlace(j)
  BY <1>1 DEF AcceptancesInOrder, LatestIsNewest, RowKeepsPlace, Placed, Newer
<1>2. CASE /\ generation' = generation + 1 /\ UNCHANGED latest
           /\ \A j \in DOMAIN rows' : RowKeepsPlace(j)
  BY <1>0, <1>2 DEF AcceptancesInOrder, LatestIsNewest, RowKeepsPlace, Placed, Newer
<1>3. ASSUME generation' = generation, nextAcceptance' = nextAcceptance + 1,
             NEW k \in Key, NEW i \in Intent, latest' = With(latest, i.project, k),
             k \in DOMAIN rows' => rows'[k] = NewRow(k, i),
             \A j \in DOMAIN rows' \ {k} : RowKeepsPlace(j)
      PROVE  AcceptancesInOrder' /\ LatestIsNewest'
  <2>1. /\ NewRow(k, i).acceptance = nextAcceptance /\ NewRow(k, i).generation = generation
        /\ NewRow(k, i).intent = i
    BY NewRowType
  <2>2. AcceptancesInOrder'
    BY <1>0, <1>3, <2>1 DEF AcceptancesInOrder, RowKeepsPlace, Placed
  <2>3. ASSUME NEW p \in DOMAIN latest', latest'[p] \in DOMAIN rows',
               rows'[latest'[p]].intent.project = p,
               NEW j \in DOMAIN rows', rows'[j].intent.project = p
        PROVE  ~Newer(rows'[j], rows'[latest'[p]])
    <3>1. CASE p = i.project
      <4>1. latest'[p] = k
        BY <1>3, <3>1 DEF With
      <4> QED BY <1>0, <1>3, <2>1, <2>3, <4>1
              DEF AcceptancesInOrder, RowKeepsPlace, Placed, Newer
    <3>2. CASE p # i.project
      <4>1. p \in DOMAIN latest /\ latest'[p] = latest[p]
        BY <1>3, <2>3, <3>2 DEF With
      <4>2. latest[p] # k /\ j # k
        BY <1>3, <2>1, <2>3, <3>2, <4>1
      <4> QED BY <1>3, <2>3, <4>1, <4>2 DEF LatestIsNewest, RowKeepsPlace, Placed, Newer
    <3> QED BY <3>1, <3>2
  <2> QED BY <2>2, <2>3 DEF LatestIsNewest
<1> QED BY <1>1, <1>2, <1>3, CounterChange

(* The inductive invariant behind the action properties below.              *)
QueueInv == TypeOK /\ ClaimsFenced /\ AcceptancesInOrder /\ LatestIsNewest

LEMMA QueueInvStep == QueueInv /\ [Next]_vars => QueueInv'
BY TypeStep, FenceStep, OrderStep DEF QueueInv

(* Acceptances stay ordered and project-latest stays the newest of its      *)
(* project, beside type correctness and fencing.                            *)
THEOREM QueueInvariant == Spec => []QueueInv
<1>1. Init => QueueInv
  BY TypeInit DEF Init, QueueInv, ClaimsFenced, AcceptancesInOrder, LatestIsNewest
<1> QED BY <1>1, QueueInvStep, PTL DEF Spec

(* A request id whose row is the same acceptance before and after a step    *)
(* was not accepted anew by it.                                             *)
LEMMA SameRowNotAccepted ==
  ASSUME TypeOK, AcceptancesInOrder, NEW k, SameRow(k)
  PROVE  ~RowAccepted(k)
<1> SUFFICES ASSUME NEW i \in Intent, k \in Key, rows'[k] = NewRow(k, i)
             PROVE  FALSE
  BY DEF RowAccepted
<1>1. rows'[k].acceptance = nextAcceptance /\ rows'[k].generation = generation
  BY NewRowType
<1>2. nextAcceptance \in Nat /\ rows[k].acceptance \in Nat
  BY DEF TypeOK, SameRow, IsRow
<1> QED BY <1>1, <1>2 DEF SameRow, AcceptancesInOrder

-----------------------------------------------------------------------------
(* The newest request of a project publishes.                               *)

LEMMA NewestPublishesStep ==
  ASSUME TypeOK, AcceptancesInOrder, LatestIsNewest, [Next]_vars, NEW k \in DOMAIN rows,
         SameRow(k), rows[k].status # "published", rows'[k].status = "published"
  PROVE  ~ \E j \in DOMAIN rows :
             rows[j].intent.project = rows[k].intent.project /\ Newer(rows[j], rows[k])
<1>0. IsRow(rows[k]) /\ k \in DOMAIN rows'
  BY DEF TypeOK, SameRow
<1>1. ~RowKept(k) /\ ~RowAccepted(k)
  BY SameRowNotAccepted DEF RowKept
<1>2. ~RowMerged(k) /\ ~RowSuperseded(k) /\ ~RowClaimed(k) /\ ~RowCancelled(k)
  BY <1>0, MergedType, SupersededType, ClaimedRowType, CancelledType
     DEF RowMerged, RowSuperseded, RowClaimed, RowCancelled
<1>3. PICK t \in Token, outcome \in {"completed", "failed"} :
        rows'[k] = Completed(k, t, outcome)
  BY <1>0, <1>1, <1>2, RowChange DEF RowCompleted
<1>4. NextStatus(k, Finished(rows[k], t, outcome)) = "published"
  BY <1>0, <1>3, CompletedType
<1>5. IsLatest(k)
  BY <1>4 DEF NextStatus
<1> QED BY <1>5 DEF IsLatest, LatestIsNewest

(* A request is published only when no request of its project with a later  *)
(* acceptance exists, whatever is late, retried, superseded or reset.       *)
THEOREM NewestRevisionWins == Spec => NewestPublishes
<1>1. QueueInv /\ [Next]_vars =>
        \A k \in DOMAIN rows :
          SameRow(k) /\ rows[k].status # "published" /\ rows'[k].status = "published" =>
            ~ \E j \in DOMAIN rows :
                rows[j].intent.project = rows[k].intent.project /\ Newer(rows[j], rows[k])
  BY NewestPublishesStep DEF QueueInv
<1> QED BY <1>1, QueueInvariant, PTL DEF Spec, NewestPublishes

-----------------------------------------------------------------------------
(* Evidence is final.                                                       *)

LEMMA CompletedUntouched ==
  ASSUME NEW k \in DOMAIN rows, IsRow(rows[k]), NEW t \in Token,
         NEW outcome \in {"completed", "failed"}, NEW c \in DOMAIN rows[k].channels,
         c \notin rows[k].claims[t]
  PROVE  Completed(k, t, outcome).channels[c] = rows[k].channels[c]
BY CompletedChannel

LEMMA EvidenceStep ==
  ASSUME TypeOK, ClaimsFenced, AcceptancesInOrder, [Next]_vars, NEW k \in DOMAIN rows,
         SameRow(k), NEW c \in DOMAIN rows[k].channels, Terminal(rows[k].channels[c])
  PROVE  rows'[k].channels[c] = rows[k].channels[c]
<1>0. IsRow(rows[k]) /\ k \in DOMAIN rows'
  BY DEF TypeOK, SameRow
<1>1. CASE RowKept(k)
  BY <1>1 DEF RowKept
<1>2. CASE RowMerged(k)
  BY <1>0, <1>2, MergedType DEF RowMerged
<1>3. CASE RowSuperseded(k)
  BY <1>0, <1>3, SupersededType DEF RowSuperseded
<1>4. CASE RowClaimed(k)
  <2>1. c \notin Claimable(rows[k])
    BY DEF Claimable, Terminal
  <2> QED BY <1>0, <1>4, <2>1, ClaimedRowType DEF RowClaimed
<1>5. CASE RowCompleted(k)
  <2>1. PICK t \in Token, outcome \in {"completed", "failed"} :
          t \in DOMAIN rows[k].claims /\ rows'[k] = Completed(k, t, outcome)
    BY <1>5 DEF RowCompleted
  <2>2. c \notin rows[k].claims[t]
    <3> SUFFICES ASSUME c \in rows[k].claims[t] PROVE FALSE
      OBVIOUS
    <3>1. rows[k].channels[c] = HeldBy(t)
      BY <2>1 DEF ClaimsFenced
    <3> QED BY <3>1 DEF HeldBy, Terminal
  <2>3. Completed(k, t, outcome).channels[c] = rows[k].channels[c]
    BY <1>0, <2>1, <2>2, CompletedUntouched, Zenon
  <2> QED BY <2>1, <2>3
<1>6. CASE RowCancelled(k)
  BY <1>0, <1>6, CancelledType DEF RowCancelled
<1> QED BY <1>0, <1>1, <1>2, <1>3, <1>4, <1>5, <1>6, RowChange, SameRowNotAccepted

(* What a channel completed or failed with is never reopened or rewritten.  *)
THEOREM FinishedChannelsStay == Spec => EvidenceIsFinal
<1>1. QueueInv /\ [Next]_vars =>
        \A k \in DOMAIN rows : SameRow(k) =>
          \A c \in DOMAIN rows[k].channels :
            Terminal(rows[k].channels[c]) => rows'[k].channels[c] = rows[k].channels[c]
  BY EvidenceStep DEF QueueInv
<1> QED BY <1>1, QueueInvariant, PTL DEF Spec, EvidenceIsFinal

-----------------------------------------------------------------------------
(* A live claim is kept.                                                    *)

(* The channels a completion finishes are those of its own claim.           *)
LEMMA CompletedOwn ==
  ASSUME NEW k \in DOMAIN rows, IsRow(rows[k]), NEW t \in Token,
         NEW outcome \in {"completed", "failed"}, NEW c \in rows[k].claims[t],
         c \in DOMAIN rows[k].channels, rows[k].channels[c].token = t
  PROVE  /\ Terminal(Completed(k, t, outcome).channels[c])
         /\ Completed(k, t, outcome).channels[c].token = t
<1> DEFINE f == Finished(rows[k], t, outcome)
<1>1. f.channels[c] = [status |-> outcome, token |-> t]
  BY DEF Finished, IsRow
<1>2. Completed(k, t, outcome).channels = f.channels
  BY DEF Completed, Finished, IsRow
<1> HIDE DEF f
<1> QED BY <1>1, <1>2 DEF Terminal

LEMMA LiveClaimStep ==
  ASSUME TypeOK, ClaimsFenced, AcceptancesInOrder, [Next]_vars, NEW k \in DOMAIN rows,
         SameRow(k), generation' = generation,
         NEW t \in DOMAIN rows[k].claims, lease[t] > 0, t \notin DOMAIN rows'[k].claims,
         NEW c \in rows[k].claims[t]
  PROVE  Terminal(rows'[k].channels[c]) /\ rows'[k].channels[c].token = t
<1>0. IsRow(rows[k]) /\ k \in DOMAIN rows' /\ generation \in Nat
  BY DEF TypeOK, SameRow
<1>1. c \in DOMAIN rows[k].channels /\ rows[k].channels[c] = HeldBy(t)
  BY DEF ClaimsFenced
<1>2. ~RowKept(k) /\ ~RowMerged(k)
  BY <1>0, MergedType DEF RowKept, RowMerged
<1>3. ~RowSuperseded(k)
  BY <1>1 DEF RowSuperseded, NoLiveLease, HeldBy
<1>4. ~RowClaimed(k)
  <2> SUFFICES ASSUME NEW u \in Token, rows'[k] = ClaimedRow(rows[k], u) PROVE FALSE
    BY DEF RowClaimed
  <2>1. rows'[k].claims = With(Without(rows[k].claims, ExpiredTokens(rows[k])), u, Claimable(rows[k]))
    BY <1>0, ClaimedRowType
  <2>2. t \notin DOMAIN Without(rows[k].claims, ExpiredTokens(rows[k]))
    BY <2>1 DEF With
  <2>3. t \in ExpiredTokens(rows[k])
    BY <2>2 DEF Without
  <2> QED BY <2>3 DEF ExpiredTokens, Claimable
<1>5. ~RowCancelled(k)
  BY <1>0 DEF RowCancelled
<1>6. PICK u \in Token, outcome \in {"completed", "failed"} :
        rows'[k] = Completed(k, u, outcome)
  BY <1>0, <1>2, <1>3, <1>4, <1>5, RowChange, SameRowNotAccepted DEF RowCompleted
<1>7. u = t
  <2>1. rows'[k].claims = Without(rows[k].claims, {u})
    BY <1>0, <1>6, CompletedClaims
  <2> QED BY <2>1 DEF Without
<1>8. t \in Token /\ rows[k].channels[c].token = t
  BY <1>1, <1>6, <1>7 DEF HeldBy
<1> QED BY <1>0, <1>1, <1>6, <1>7, <1>8, CompletedOwn

(* Work is never taken from a workflow whose lease is live, short of a      *)
(* reset: neither by another claim nor by a superseding admission.          *)
THEOREM LiveLeaseRespected == Spec => LiveClaimKept
<1>1. QueueInv /\ [Next]_vars =>
        \A k \in DOMAIN rows : SameRow(k) /\ generation' = generation =>
          \A t \in DOMAIN rows[k].claims :
            lease[t] > 0 /\ t \notin DOMAIN rows'[k].claims =>
              \A c \in rows[k].claims[t] :
                Terminal(rows'[k].channels[c]) /\ rows'[k].channels[c].token = t
  BY LiveClaimStep DEF QueueInv
<1> QED BY <1>1, QueueInvariant, PTL DEF Spec, LiveClaimKept

-----------------------------------------------------------------------------
(* A row's status agrees with its channels.                                 *)

States(r) == {r.channels[c].status : c \in DOMAIN r.channels}
RowConsistent(r) ==
  /\ DOMAIN r.channels # {}
  /\ r.status = "preparing" => "preparing" \in States(r) /\ "analyzing" \notin States(r)
  /\ r.status = "analyzing" => "analyzing" \in States(r)
  /\ r.status = "published" => States(r) \subseteq {"completed", "failed"} /\ "completed" \in States(r)
  /\ r.status = "failed" => States(r) = {"failed"}
StatusInv == \A j \in DOMAIN rows : RowConsistent(rows[j])

LEMMA StatusStep == TypeOK /\ StatusInv /\ [Next]_vars => StatusInv'
<1> SUFFICES ASSUME TypeOK, StatusInv, [Next]_vars, NEW j \in DOMAIN rows'
             PROVE  RowConsistent(rows'[j])
  BY DEF StatusInv
<1>0. \A k \in DOMAIN rows : RowConsistent(rows[k]) /\ IsRow(rows[k])
  BY DEF StatusInv, TypeOK
<1>1. CASE RowKept(j)
  BY <1>0, <1>1 DEF RowKept
<1>2. CASE RowAccepted(j)
  <2>1. PICK i \in Intent : j \in Key /\ rows'[j] = NewRow(j, i)
    BY <1>2 DEF RowAccepted
  <2>2. i.channels # {}
    BY IntentAssumption
  <2>3. rows'[j].channels = [c \in i.channels |-> Unclaimed] /\ rows'[j].status = "preparing"
    BY <2>1 DEF NewRow
  <2> QED BY <2>2, <2>3 DEF RowConsistent, States, Unclaimed
<1>3. CASE RowMerged(j)
  <2>1. PICK x \in Key, i \in Intent : rows'[j] = Merged(rows[j], x, i)
    BY <1>3 DEF RowMerged
  <2>2. /\ rows'[j].status = rows[j].status /\ Active(rows[j])
        /\ DOMAIN rows[j].channels \subseteq DOMAIN rows'[j].channels
        /\ \A c \in DOMAIN rows[j].channels : rows'[j].channels[c] = rows[j].channels[c]
    BY <1>0, <1>3, <2>1, MergedType DEF RowMerged
  <2>3. \A c \in DOMAIN rows'[j].channels \ DOMAIN rows[j].channels :
          rows'[j].channels[c].status = "preparing"
    BY <1>0, <1>3, <2>1 DEF RowMerged, Merged, Unclaimed, IsRow
  <2> QED BY <1>0, <1>3, <2>2, <2>3 DEF RowMerged, RowConsistent, States, Active
<1>4. CASE RowSuperseded(j)
  BY <1>0, <1>4, SupersededType DEF RowSuperseded, RowConsistent, States
<1>5. CASE RowClaimed(j)
  <2>1. PICK t \in Token : rows'[j] = ClaimedRow(rows[j], t)
    BY <1>5 DEF RowClaimed
  <2>2. PICK c \in DOMAIN rows[j].channels : c \in Claimable(rows[j])
    BY <1>5 DEF RowClaimed, Claimable
  <2>3. rows'[j].status = "analyzing" /\ DOMAIN rows'[j].channels = DOMAIN rows[j].channels
        /\ rows'[j].channels[c] = HeldBy(t)
    BY <1>0, <1>5, <2>1, <2>2, ClaimedRowType DEF RowClaimed
  <2> QED BY <2>2, <2>3 DEF RowConsistent, States, HeldBy
<1>6. CASE RowCompleted(j)
  <2>1. PICK t \in Token, outcome \in {"completed", "failed"} :
          rows'[j] = Completed(j, t, outcome) /\ j \in DOMAIN rows
    BY <1>6 DEF RowCompleted
  <2>2. PICK f : f = Finished(rows[j], t, outcome)
    OBVIOUS
  <2>3. rows'[j].channels = f.channels /\ rows'[j].status = NextStatus(j, f)
    BY <1>0, <2>1, <2>2 DEF Completed, Finished, IsRow
  <2>4. DOMAIN f.channels = DOMAIN rows[j].channels
    BY <1>0, <2>1, <2>2 DEF Finished, IsRow
  <2>5. \A c \in DOMAIN f.channels :
          f.channels[c].status \in {"preparing", "analyzing", "completed", "failed"}
    BY <1>0, <2>1, <2>2, <2>4 DEF Finished, IsRow, IsMap, ChannelState
  <2>6. States(f) \subseteq {"preparing", "analyzing", "completed", "failed"} /\ States(f) # {}
    BY <1>0, <2>1, <2>4, <2>5 DEF States, RowConsistent
  <2>7. NextStatus(j, f) =
          CASE ~IsLatest(j) -> "superseded"
            [] IsLatest(j) /\ "analyzing" \in States(f) -> "analyzing"
            [] IsLatest(j) /\ "analyzing" \notin States(f) /\ "preparing" \in States(f) -> "preparing"
            [] OTHER -> IF "completed" \in States(f) THEN "published" ELSE "failed"
    BY DEF NextStatus, States
  <2>8. States(rows'[j]) = States(f)
    BY <2>3 DEF States
  <2> QED BY <1>0, <2>1, <2>3, <2>4, <2>6, <2>7, <2>8 DEF RowConsistent
<1>7. CASE RowCancelled(j)
  <2>1. /\ rows'[j].channels = rows[j].channels /\ j \in DOMAIN rows
        /\ rows'[j].status \in {rows[j].status, "cancelled_cutover"}
    BY <1>0, <1>7, CancelledType DEF RowCancelled
  <2>2. States(rows'[j]) = States(rows[j])
    BY <2>1 DEF States
  <2> QED BY <1>0, <2>1, <2>2 DEF RowConsistent
<1> QED BY <1>1, <1>2, <1>3, <1>4, <1>5, <1>6, <1>7, RowChange

(* The status a caller polls never disagrees with the channels behind it.   *)
THEOREM StatusAgrees == Spec => []StatusMatchesChannels
<1>1. Init => StatusInv
  BY DEF Init, StatusInv
<1>2. StatusInv => StatusMatchesChannels
  BY DEF StatusInv, RowConsistent, States, StatusMatchesChannels
<1> QED BY <1>1, <1>2, TypeInvariant, StatusStep, PTL DEF Spec
-----------------------------------------------------------------------------
(* Idempotency keys: dedupe entries, submissions and the active index.      *)

Submitted(j) == DOMAIN rows[j].submissions

(* No row takes a key that another row kept from before the step records.   *)
(* Within a generation dedupe sees to that; after a reset only the callers  *)
(* do, and pruning forgets the keys of whatever row it removes.             *)
KeysNotReused ==
  \A k \in DOMAIN rows', j \in DOMAIN rows :
    k # j => DOMAIN rows'[k].submissions \cap DOMAIN rows[j].submissions = {}

OwnKeys == \A j \in DOMAIN rows : j \in Submitted(j)
KeysApart == \A j, k \in DOMAIN rows : j # k => Submitted(j) \cap Submitted(k) = {}
DedupeCurrent ==
  \A x \in DOMAIN dedupe :
    /\ dedupe[x] \in DOMAIN rows /\ x \in Submitted(dedupe[x])
    /\ rows[dedupe[x]].generation = generation
IndexCurrent ==
  \A a \in DOMAIN index :
    /\ index[a] \in DOMAIN rows /\ Active(rows[index[a]])
    /\ AnalysisKey(rows[index[a]].intent) = a
    /\ rows[index[a]].generation = generation
(* Dedupe and index name rows of this generation only, so a key that dedupe *)
(* does not know is no row's that the index or dedupe could name.           *)
KeysInv == OwnKeys /\ KeysApart /\ DedupeCurrent /\ RetriesRecognised /\ IndexCurrent

(* What each handler makes of a row's submissions.                          *)
LEMMA SubmissionsKept ==
  ASSUME NEW r, IsRow(r)
  PROVE  /\ Superseded(r).submissions = r.submissions
         /\ Cancelled(r).submissions = r.submissions
         /\ \A t \in Token : ClaimedRow(r, t).submissions = r.submissions
BY DEF IsRow, Superseded, Cancelled, ClaimedRow

LEMMA SubmissionsCompleted ==
  ASSUME NEW k \in DOMAIN rows, IsRow(rows[k]), NEW t \in Token,
         NEW outcome \in {"completed", "failed"}
  PROVE  Completed(k, t, outcome).submissions = rows[k].submissions
<1> DEFINE f == Finished(rows[k], t, outcome)
<1>1. f.submissions = rows[k].submissions
  BY DEF Finished, IsRow
<1>2. Completed(k, t, outcome).submissions = f.submissions
  BY DEF Completed, Finished, IsRow
<1> QED BY <1>1, <1>2

LEMMA SubmissionsAdded ==
  ASSUME NEW k \in Key, NEW i \in Intent, NEW r, IsRow(r)
  PROVE  /\ DOMAIN NewRow(k, i).submissions = {k}
         /\ DOMAIN Merged(r, k, i).submissions = DOMAIN r.submissions \cup {k}
<1>1. NewRow(k, i).submissions = With([x \in {} |-> i], k, i)
  BY DEF NewRow
<1>2. Merged(r, k, i).submissions = With(r.submissions, k, i)
  BY DEF Merged, IsRow
<1> QED BY <1>1, <1>2 DEF With

-----------------------------------------------------------------------------
(* A step that leaves the keys of every row alone.                          *)

SameKeys ==
  /\ DOMAIN rows' = DOMAIN rows
  /\ \A j \in DOMAIN rows : /\ RowKeepsPlace(j)
                            /\ rows'[j].submissions = rows[j].submissions

LEMMA KeysUntouched ==
  ASSUME KeysInv, SameKeys, UNCHANGED <<dedupe, generation>>,
         DOMAIN index' \subseteq DOMAIN index,
         \A a \in DOMAIN index' : index'[a] = index[a] /\ Active(rows'[index[a]])
  PROVE  KeysInv'
<1>1. OwnKeys' /\ KeysApart' /\ DedupeCurrent' /\ RetriesRecognised'
  BY DEF KeysInv, SameKeys, RowKeepsPlace, Placed, OwnKeys, KeysApart, DedupeCurrent,
         RetriesRecognised, Submitted
<1>2. IndexCurrent'
  BY DEF KeysInv, SameKeys, RowKeepsPlace, Placed, IndexCurrent
<1> QED BY <1>1, <1>2 DEF KeysInv
-----------------------------------------------------------------------------
(* Admissions.                                                              *)

LEMMA KeysMerge ==
  ASSUME TypeOK, KeysInv, KeysNotReused, NEW k \in Key, NEW i \in Intent,
         k \notin DOMAIN dedupe, Merge(k, i)
  PROVE  KeysInv'
<1>1. PICK e \in Existing(i) :
        /\ rows' = [rows EXCEPT ![e] = Merged(rows[e], k, i)] /\ dedupe' = With(dedupe, k, e)
    BY DEF Merge, Remember
<1>2. /\ e \in DOMAIN rows /\ IsRow(rows[e])
      /\ AnalysisKey(i) \in DOMAIN index /\ e = index[AnalysisKey(i)]
  BY ExistingRows DEF Existing, TypeOK
<1>3. rows[e].generation = generation /\ UNCHANGED <<generation, index>>
  BY <1>2 DEF KeysInv, IndexCurrent, Merge, meta
<1>4. /\ DOMAIN rows' = DOMAIN rows
      /\ \A j \in DOMAIN rows \ {e} : rows'[j] = rows[j]
      /\ DOMAIN rows'[e].submissions = Submitted(e) \cup {k}
      /\ rows'[e].generation = rows[e].generation /\ rows'[e].status = rows[e].status
      /\ rows'[e].intent = rows[e].intent
  BY <1>1, <1>2, SubmissionsAdded, MergedType DEF Submitted
<1>5. /\ DOMAIN dedupe' = DOMAIN dedupe \cup {k} /\ dedupe'[k] = e
      /\ \A x \in DOMAIN dedupe \ {k} : dedupe'[x] = dedupe[x]
  BY <1>1 DEF With
<1>6. OwnKeys'
  BY <1>4 DEF KeysInv, OwnKeys, Submitted
<1>7. KeysApart'
  <2> SUFFICES ASSUME NEW j \in DOMAIN rows', NEW l \in DOMAIN rows', j # l
               PROVE  Submitted(j)' \cap Submitted(l)' = {}
    BY DEF KeysApart
  <2>1. CASE l # e
    BY <1>4, <2>1 DEF KeysNotReused, Submitted
  <2>2. CASE l = e
    BY <1>4, <2>2 DEF KeysNotReused, Submitted
  <2> QED BY <2>1, <2>2
<1>8. DedupeCurrent'
  BY <1>2, <1>3, <1>4, <1>5 DEF KeysInv, DedupeCurrent, Submitted
<1>9. RetriesRecognised'
  BY <1>2, <1>3, <1>4, <1>5 DEF KeysInv, RetriesRecognised, Submitted
<1>10. IndexCurrent'
  BY <1>3, <1>4 DEF KeysInv, IndexCurrent, Active
<1> QED BY <1>6, <1>7, <1>8, <1>9, <1>10 DEF KeysInv

(* What an acceptance removes: finished rows, and the keys they recorded.   *)
LEMMA AcceptStores ==
  ASSUME TypeOK, NEW k \in Key, NEW i \in Intent, Accept(k, i)
  PROVE  \E V :
           /\ k \notin V /\ \A v \in V \cap DOMAIN rows : ~Active(rows[v]) \/ v \in Existing(i)
           /\ DOMAIN rows' = (DOMAIN rows \cup {k}) \ V
           /\ V \subseteq DOMAIN rows \cup {k}
           /\ \A j \in DOMAIN rows' : Active(rows'[j]) => j = k \/ j \notin Existing(i)
           /\ DOMAIN dedupe' = (DOMAIN dedupe \cup {k}) \ UNION {Submitted(v) : v \in V}
           /\ \A x \in DOMAIN dedupe' : dedupe'[x] = IF x = k THEN k ELSE dedupe[x]
<1> DEFINE old == [e \in DOMAIN rows |->
                     IF e \in Existing(i) THEN Superseded(rows[e]) ELSE rows[e]]
           new == With(old, k, NewRow(k, i))
<1>0. \A j \in DOMAIN rows : IsRow(rows[j])
  BY DEF TypeOK
<1>1. /\ DOMAIN new = DOMAIN rows \cup {k} /\ new[k] = NewRow(k, i)
      /\ \A j \in DOMAIN rows \ {k} :
           new[j] = IF j \in Existing(i) THEN Superseded(rows[j]) ELSE rows[j]
  BY DEF With
<1>2. PICK V \in Victims(new) :
        rows' = Without(new, V) /\ dedupe' = Without(With(dedupe, k, k), Submissions(new, V))
  BY DEF Accept, Remember
<1> HIDE DEF new
<1>3. V \subseteq DOMAIN new /\ \A v \in V : ~Active(new[v])
  BY <1>2 DEF Victims
<1>4. k \notin V
  BY <1>1, <1>3, NewRowType DEF Active
<1>5. \A v \in V : DOMAIN new[v].submissions = Submitted(v)
  BY <1>0, <1>1, <1>3, <1>4, SubmissionsKept DEF Submitted
<1>6. Submissions(new, V) = UNION {Submitted(v) : v \in V}
  BY <1>5 DEF Submissions
<1>7. /\ DOMAIN rows' = DOMAIN new \ V /\ \A j \in DOMAIN rows' : rows'[j] = new[j]
      /\ DOMAIN dedupe' = (DOMAIN dedupe \cup {k}) \ Submissions(new, V)
      /\ \A x \in DOMAIN dedupe' : dedupe'[x] = IF x = k THEN k ELSE dedupe[x]
  BY <1>2 DEF With, Without
<1>8. \A j \in DOMAIN rows' : Active(rows'[j]) => j = k \/ j \notin Existing(i)
  BY <1>0, <1>1, <1>7, SupersededType DEF Active
<1>9. \A v \in V \cap DOMAIN rows : ~Active(rows[v]) \/ v \in Existing(i)
  BY <1>1, <1>3, <1>4
<1> QED BY <1>1, <1>3, <1>4, <1>6, <1>7, <1>8, <1>9

LEMMA KeysAccept ==
  ASSUME TypeOK, KeysInv, KeysNotReused, NEW k \in Key, NEW i \in Intent,
         k \notin DOMAIN dedupe, Accept(k, i)
  PROVE  KeysInv'
<1>0. \A j \in DOMAIN rows : IsRow(rows[j])
  BY DEF TypeOK
<1>1. PICK V :
        /\ k \notin V /\ \A v \in V \cap DOMAIN rows : ~Active(rows[v]) \/ v \in Existing(i)
        /\ DOMAIN rows' = (DOMAIN rows \cup {k}) \ V
        /\ V \subseteq DOMAIN rows \cup {k}
        /\ \A j \in DOMAIN rows' : Active(rows'[j]) => j = k \/ j \notin Existing(i)
        /\ DOMAIN dedupe' = (DOMAIN dedupe \cup {k}) \ UNION {Submitted(v) : v \in V}
        /\ \A x \in DOMAIN dedupe' : dedupe'[x] = IF x = k THEN k ELSE dedupe[x]
  BY AcceptStores
<1>2. /\ k \in DOMAIN rows' /\ rows'[k].generation = generation /\ Active(rows'[k])
      /\ rows'[k].intent = i /\ DOMAIN rows'[k].submissions = {k}
  BY <1>0, <1>1, AcceptRows, NewRowType, SubmissionsAdded DEF Active
<1>3. ASSUME NEW j \in DOMAIN rows', j # k
      PROVE  /\ j \in DOMAIN rows /\ rows'[j].submissions = rows[j].submissions
             /\ rows'[j].generation = rows[j].generation /\ rows'[j].intent = rows[j].intent
             /\ rows'[j] = rows[j] \/ j \in Existing(i)
  <2>1. j \in DOMAIN rows /\ (rows'[j] = rows[j] \/ rows'[j] = Superseded(rows[j]))
    BY <1>3, AcceptRows
  <2>2. j \notin Existing(i) => rows'[j] = rows[j]
    BY <1>3, AcceptRows DEF Accept, With, Without
  <2> QED BY <1>0, <2>1, <2>2, SupersededType, SubmissionsKept
<1>4. UNCHANGED generation /\ index' = With(index, AnalysisKey(i), k)
  BY DEF Accept
<1>5. /\ DOMAIN index' = DOMAIN index \cup {AnalysisKey(i)} /\ index'[AnalysisKey(i)] = k
      /\ \A a \in DOMAIN index \ {AnalysisKey(i)} : index'[a] = index[a]
  BY <1>4 DEF With
<1>6. \A e \in Existing(i) : AnalysisKey(i) \in DOMAIN index /\ e = index[AnalysisKey(i)]
  BY DEF Existing
\* A row of this generation has its own key in dedupe, so the accepted one is none.
<1>7. \A j \in DOMAIN rows : rows[j].generation = generation => j # k /\ k \notin Submitted(j)
  BY DEF KeysInv, OwnKeys, RetriesRecognised, Submitted
<1>8. \A v \in V : v \in DOMAIN rows /\ v # k /\ k \notin Submitted(v)
  BY <1>1, <1>2 DEF KeysNotReused, Submitted
<1>9. OwnKeys'
  BY <1>2, <1>3 DEF KeysInv, OwnKeys, Submitted
<1>10. KeysApart'
  <2> SUFFICES ASSUME NEW j \in DOMAIN rows', NEW l \in DOMAIN rows', j # l
               PROVE  Submitted(j)' \cap Submitted(l)' = {}
    BY DEF KeysApart
  <2>1. CASE l # k
    BY <1>3, <2>1 DEF KeysNotReused, Submitted
  <2>2. CASE l = k
    BY <1>3, <2>2 DEF KeysNotReused, Submitted
  <2> QED BY <2>1, <2>2
<1>11. DedupeCurrent'
  <2> SUFFICES ASSUME NEW x \in DOMAIN dedupe'
               PROVE  /\ dedupe'[x] \in DOMAIN rows' /\ x \in DOMAIN rows'[dedupe'[x]].submissions
                      /\ rows'[dedupe'[x]].generation = generation
    BY <1>4 DEF DedupeCurrent, Submitted
  <2>1. CASE x = k
    BY <1>1, <1>2, <2>1
  <2>2. CASE x # k
    <3>1. /\ x \in DOMAIN dedupe /\ dedupe'[x] = dedupe[x]
          /\ dedupe[x] \in DOMAIN rows /\ x \in Submitted(dedupe[x])
          /\ rows[dedupe[x]].generation = generation
      BY <1>1, <2>2 DEF KeysInv, DedupeCurrent
    <3>2. dedupe[x] # k
      BY <1>7, <3>1
    <3>3. dedupe[x] \notin V
      BY <1>1, <3>1
    <3>4. dedupe[x] \in DOMAIN rows'
      BY <1>1, <3>1, <3>3
    <3> QED BY <1>3, <3>1, <3>2, <3>4 DEF Submitted
  <2> QED BY <2>1, <2>2
<1>12. RetriesRecognised'
  <2> SUFFICES ASSUME NEW j \in DOMAIN rows', rows'[j].generation = generation,
                      NEW x \in DOMAIN rows'[j].submissions
               PROVE  x \in DOMAIN dedupe' /\ dedupe'[x] = j
    BY <1>4 DEF RetriesRecognised
  <2>1. CASE j = k
    <3>1. x = k
      BY <1>2, <2>1
    <3>2. k \in DOMAIN dedupe'
      BY <1>1, <1>8
    <3> QED BY <1>1, <2>1, <3>1, <3>2
  <2>2. CASE j # k
    <3>1. j \in DOMAIN rows /\ x \in Submitted(j) /\ rows[j].generation = generation
      BY <1>3, <2>2 DEF Submitted
    <3>2. x \in DOMAIN dedupe /\ dedupe[x] = j /\ x # k
      BY <3>1 DEF KeysInv, RetriesRecognised, Submitted
    <3>3. \A v \in V : x \notin Submitted(v)
      BY <1>1, <1>8, <3>1 DEF KeysInv, KeysApart
    <3>4. x \in DOMAIN dedupe'
      BY <1>1, <3>2, <3>3
    <3> QED BY <1>1, <3>2, <3>4
  <2> QED BY <2>1, <2>2
<1>13. IndexCurrent'
  <2> SUFFICES ASSUME NEW a \in DOMAIN index'
               PROVE  /\ index'[a] \in DOMAIN rows' /\ Active(rows'[index'[a]])
                      /\ AnalysisKey(rows'[index'[a]].intent) = a
                      /\ rows'[index'[a]].generation = generation
    BY <1>4 DEF IndexCurrent
  <2>1. CASE a = AnalysisKey(i)
    BY <1>2, <1>5, <2>1
  <2>2. CASE a # AnalysisKey(i)
    <3> DEFINE j == index[a]
    <3>1. /\ a \in DOMAIN index /\ index'[a] = j /\ j \in DOMAIN rows /\ Active(rows[j])
          /\ AnalysisKey(rows[j].intent) = a /\ rows[j].generation = generation
      BY <1>5, <2>2 DEF KeysInv, IndexCurrent
    <3>2. j \notin Existing(i)
      BY <1>6, <2>2, <3>1 DEF KeysInv, IndexCurrent
    <3>3. j # k /\ j \notin V
      BY <1>1, <1>7, <3>1, <3>2
    <3>4. j \in DOMAIN rows' /\ rows'[j] = rows[j]
      BY <1>1, <1>3, <3>1, <3>2, <3>3
    <3> QED BY <3>1, <3>4
  <2> QED BY <2>1, <2>2
<1> QED BY <1>9, <1>10, <1>11, <1>12, <1>13 DEF KeysInv

-----------------------------------------------------------------------------
(* Every other step leaves the keys of the rows alone.                      *)

LEMMA KeysStepOther ==
  ASSUME TypeOK, AcceptancesInOrder, KeysInv, [Next]_vars,
         ~ \E k \in Key, i \in Intent : Admit(k, i)
  PROVE  KeysInv'
<1>0. \A j \in DOMAIN rows : IsRow(rows[j]) /\ j \in Key
  BY DEF TypeOK
<1>2. ASSUME NEW k \in DOMAIN rows, NEW t \in Token, Claim(k, t) PROVE KeysInv'
  <2>1. /\ SameKeys /\ Active(rows'[k])
        /\ \A j \in DOMAIN rows \ {k} : rows'[j] = rows[j]
    BY <1>0, <1>2, ClaimedRowType, SubmissionsKept DEF Claim, SameKeys, RowKeepsPlace, Placed, Active
  <2>2. \A a \in DOMAIN index : index[a] \in DOMAIN rows /\ Active(rows'[index[a]])
    BY <2>1 DEF KeysInv, IndexCurrent
  <2>3. UNCHANGED <<dedupe, generation, index>>
    BY <1>2 DEF Claim, meta
  <2> QED BY <2>1, <2>2, <2>3, KeysUntouched
<1>3. ASSUME NEW g \in grants, NEW outcome \in {"completed", "failed"}, Complete(g, outcome)
      PROVE  KeysInv'
  <2>1. g.key \in DOMAIN rows /\ g.token \in Token
    BY <1>3 DEF Complete, Fenced, TypeOK
  <2>2. PICK r : r = Completed(g.key, g.token, outcome)
    OBVIOUS
  <2>3. /\ rows' = [rows EXCEPT ![g.key] = r] /\ index' = IndexAfter(r)
        /\ UNCHANGED <<dedupe, generation>>
    BY <1>3, <2>1, <2>2 DEF Complete, meta
  <2>4. /\ r.intent = rows[g.key].intent /\ r.acceptance = rows[g.key].acceptance
        /\ r.generation = rows[g.key].generation
    BY <1>0, <2>1, <2>2, CompletedType
  <2>5. r.submissions = rows[g.key].submissions
    BY <1>0, <2>1, <2>2, SubmissionsCompleted
  <2>6. SameKeys
    BY <2>1, <2>3, <2>4, <2>5 DEF SameKeys, RowKeepsPlace, Placed
  <2>7. ASSUME NEW a \in DOMAIN index'
        PROVE  a \in DOMAIN index /\ index'[a] = index[a] /\ Active(rows'[index[a]])
    <3>1. a \in DOMAIN index /\ index'[a] = index[a] /\ (Active(r) \/ a # AnalysisKey(r.intent))
      BY <2>3, <2>7 DEF IndexAfter, Without
    <3>2. /\ index[a] \in DOMAIN rows /\ Active(rows[index[a]])
          /\ AnalysisKey(rows[index[a]].intent) = a
      BY <3>1 DEF KeysInv, IndexCurrent
    <3>3. CASE index[a] = g.key
      BY <2>3, <2>4, <3>1, <3>2, <3>3
    <3>4. CASE index[a] # g.key
      BY <2>3, <3>1, <3>2, <3>4
    <3> QED BY <3>1, <3>3, <3>4
  <2> QED BY <2>3, <2>6, <2>7, KeysUntouched
<1>4. CASE Reset
  <2>1. /\ DOMAIN rows' = DOMAIN rows /\ DOMAIN dedupe' = {} /\ DOMAIN index' = {}
        /\ generation' = generation + 1
        /\ \A j \in DOMAIN rows : /\ rows'[j].submissions = rows[j].submissions
                                  /\ rows'[j].generation = rows[j].generation
    BY <1>0, <1>4, CancelledType, SubmissionsKept DEF Reset, CutOver, Without
  <2>2. OwnKeys' /\ KeysApart' /\ DedupeCurrent' /\ IndexCurrent'
    BY <2>1 DEF KeysInv, OwnKeys, KeysApart, DedupeCurrent, IndexCurrent, Submitted
  <2>3. generation \in Nat /\ \A j \in DOMAIN rows : rows[j].generation \in Nat
    BY <1>0 DEF TypeOK, IsRow
  <2>4. \A j \in DOMAIN rows : rows[j].generation # generation + 1
    BY <2>3 DEF AcceptancesInOrder
  <2> QED BY <2>1, <2>2, <2>4 DEF KeysInv, RetriesRecognised
<1>5. CASE Pause \/ Resume \/ Tick \/ (\E a \in Actor : Slide(a))
           \/ (\E g \in grants, publication \in BOOLEAN : Heartbeat(g, publication))
           \/ UNCHANGED vars
  <2>1. UNCHANGED <<rows, dedupe, index, generation>>
    BY <1>5 DEF Pause, Resume, Tick, Slide, Heartbeat, vars, meta
  <2>2. OwnKeys' /\ KeysApart' /\ DedupeCurrent' /\ RetriesRecognised' /\ IndexCurrent'
    BY <2>1 DEF KeysInv, OwnKeys, KeysApart, DedupeCurrent, RetriesRecognised, IndexCurrent,
                Submitted, Active
  <2> QED BY <2>2 DEF KeysInv
<1> QED BY <1>2, <1>3, <1>4, <1>5 DEF Next, Hinted, Unhinted, Claimables

LEMMA KeysStep ==
  TypeOK /\ AcceptancesInOrder /\ KeysInv /\ [Next]_vars /\ [KeysNotReused]_vars => KeysInv'
<1> SUFFICES ASSUME TypeOK, AcceptancesInOrder, KeysInv, [Next]_vars, [KeysNotReused]_vars
             PROVE  KeysInv'
  OBVIOUS
<1>1. ASSUME NEW k \in Key, NEW i \in Intent, Admit(k, i) PROVE KeysInv'
  <2>1. CASE KeysNotReused
    BY <1>1, <2>1, KeysMerge, KeysAccept DEF Admit
  <2>2. CASE UNCHANGED vars
    <3>1. UNCHANGED <<rows, dedupe, index, generation>>
      BY <2>2 DEF vars, meta
    <3>2. OwnKeys' /\ KeysApart' /\ DedupeCurrent' /\ RetriesRecognised' /\ IndexCurrent'
      BY <3>1 DEF KeysInv, OwnKeys, KeysApart, DedupeCurrent, RetriesRecognised, IndexCurrent,
                  Submitted, Active
    <3> QED BY <3>2 DEF KeysInv
  <2> QED BY <2>1, <2>2
<1> QED BY <1>1, KeysStepOther

(* A caller that reuses no key of a kept row meets a consistent store at    *)
(* all times, resets included: what dedupe and the active index name is     *)
(* there, and no retry is lost.                                             *)
THEOREM KeysInvariant == Spec /\ [][KeysNotReused]_vars => []KeysInv
<1>1. Init => KeysInv
  BY DEF Init, KeysInv, OwnKeys, KeysApart, DedupeCurrent, RetriesRecognised, IndexCurrent
<1>2. QueueInv /\ KeysInv /\ [Next]_vars /\ [KeysNotReused]_vars => KeysInv'
  BY KeysStep DEF QueueInv
<1> QED BY <1>1, <1>2, QueueInvariant, PTL DEF Spec

LEMMA KeysInvImplies == KeysInv => DedupeSound /\ RetriesRecognised /\ IndexSound
BY DEF KeysInv, DedupeCurrent, Submitted, DedupeSound, IndexCurrent, IndexSound

(* queue/admit never refuses a known key for a row that is gone.            *)
THEOREM DedupeIsSound == Spec /\ [][KeysNotReused]_vars => []DedupeSound
BY KeysInvariant, KeysInvImplies, PTL

(* Every retry of a kept submission is recognised.                          *)
THEOREM RetriesAreRecognised == Spec /\ [][KeysNotReused]_vars => []RetriesRecognised
BY KeysInvariant, KeysInvImplies, PTL

(* What the active index names is a kept, active row of that project,       *)
(* revision and context, so no launch merges into a finished, missing or    *)
(* foreign row (auth-exchange.mjs reads the index before it merges).        *)
THEOREM IndexIsSound == Spec /\ [][KeysNotReused]_vars => []IndexSound
BY KeysInvariant, KeysInvImplies, PTL

-----------------------------------------------------------------------------
(* Before the first reset nothing is asked of the callers: queue/admit has  *)
(* recognised any key that a row records.                                   *)

FirstGeneration == generation = 1 => \A j \in DOMAIN rows : rows[j].generation = 1

LEMMA AdmittedKeysAreNew ==
  ASSUME TypeOK, KeysInv, NEW k \in Key, NEW i \in Intent, Admit(k, i),
         \A j \in DOMAIN rows : rows[j].generation = generation
  PROVE  KeysNotReused
<1>0. \A j \in DOMAIN rows : IsRow(rows[j])
  BY DEF TypeOK
<1>1. k \notin DOMAIN dedupe
  BY DEF Admit
<1>2. \A j \in DOMAIN rows : k \notin Submitted(j)
  BY <1>1 DEF KeysInv, RetriesRecognised, Submitted
<1>3. \A j \in DOMAIN rows' :
        \/ DOMAIN rows'[j].submissions = {k}
        \/ j \in DOMAIN rows /\ DOMAIN rows'[j].submissions \subseteq Submitted(j) \cup {k}
  <2>1. CASE Merge(k, i)
    <3>1. PICK e \in DOMAIN rows : rows' = [rows EXCEPT ![e] = Merged(rows[e], k, i)]
      BY <2>1, ExistingRows DEF Merge
    <3> QED BY <1>0, <3>1, SubmissionsAdded DEF Submitted
  <2>2. CASE Accept(k, i)
    <3> SUFFICES ASSUME NEW j \in DOMAIN rows'
                 PROVE  \/ DOMAIN rows'[j].submissions = {k}
                        \/ j \in DOMAIN rows /\ DOMAIN rows'[j].submissions \subseteq Submitted(j) \cup {k}
      OBVIOUS
    <3>1. \/ rows'[j] = NewRow(k, i)
          \/ j \in DOMAIN rows /\ (rows'[j] = rows[j] \/ rows'[j] = Superseded(rows[j]))
      BY <2>2, AcceptRows
    <3>2. CASE rows'[j] = NewRow(k, i)
      <4>1. NewRow(k, i).submissions = With([x \in {} |-> i], k, i)
        BY DEF NewRow
      <4> QED BY <3>2, <4>1 DEF With
    <3>3. CASE j \in DOMAIN rows /\ (rows'[j] = rows[j] \/ rows'[j] = Superseded(rows[j]))
      BY <1>0, <3>3, SubmissionsKept DEF Submitted
    <3> QED BY <3>1, <3>2, <3>3
  <2> QED BY <2>1, <2>2 DEF Admit
<1>4. ASSUME NEW l \in DOMAIN rows', NEW j \in DOMAIN rows, l # j
      PROVE  DOMAIN rows'[l].submissions \cap Submitted(j) = {}
  <2>1. CASE DOMAIN rows'[l].submissions = {k}
    BY <1>2, <2>1
  <2>2. CASE l \in DOMAIN rows /\ DOMAIN rows'[l].submissions \subseteq Submitted(l) \cup {k}
    <3>1. Submitted(l) \cap Submitted(j) = {}
      BY <1>4, <2>2 DEF KeysInv, KeysApart
    <3> QED BY <1>2, <2>2, <3>1
  <2> QED BY <1>3, <2>1, <2>2
<1> QED BY <1>4 DEF KeysNotReused, Submitted

(* A row keeps its generation; a new one has the current.                  *)
LEMMA GenerationKept ==
  ASSUME TypeOK, [Next]_vars, generation' = generation, NEW j \in DOMAIN rows'
  PROVE  \/ j \in DOMAIN rows /\ rows'[j].generation = rows[j].generation
         \/ rows'[j].generation = generation
<1>1. \A k \in Key, i \in Intent : NewRow(k, i).generation = generation
  BY DEF NewRow
<1> QED BY <1>1, CounterChange DEF RowKeepsPlace, Placed

FirstInv == generation \in Nat \ {0} /\ FirstGeneration /\ (generation = 1 => KeysInv)

LEMMA FirstStep == QueueInv /\ FirstInv /\ [Next]_vars => FirstInv'
<1> SUFFICES ASSUME QueueInv, FirstInv, [Next]_vars PROVE FirstInv'
  OBVIOUS
<1>1. TypeOK /\ AcceptancesInOrder /\ generation \in Nat \ {0}
  BY DEF QueueInv, FirstInv
<1>2. generation' \in Nat \ {0} /\ (generation' = 1 => generation = 1)
  BY <1>1, CounterChange
<1>3. ASSUME generation' = 1 PROVE \A j \in DOMAIN rows' : rows'[j].generation = 1
  <2>1. generation = 1 /\ \A j \in DOMAIN rows : rows[j].generation = 1
    BY <1>2, <1>3 DEF FirstInv, FirstGeneration
  <2> QED BY <1>1, <1>3, <2>1, GenerationKept
<1>4. ASSUME generation' = 1 PROVE KeysInv'
  <2>1. KeysInv /\ \A j \in DOMAIN rows : rows[j].generation = generation
    BY <1>2, <1>4 DEF FirstInv, FirstGeneration
  <2>2. CASE \E k \in Key, i \in Intent : Admit(k, i)
    <3>1. KeysNotReused
      BY <1>1, <2>1, <2>2, AdmittedKeysAreNew
    <3> QED BY <1>1, <2>1, <3>1, KeysStep
  <2>3. CASE ~ \E k \in Key, i \in Intent : Admit(k, i)
    BY <1>1, <2>1, <2>3, KeysStepOther
  <2> QED BY <2>2, <2>3
<1> QED BY <1>2, <1>3, <1>4 DEF FirstInv, FirstGeneration

(* Until the first reset retries are recognised and dedupe and index are    *)
(* sound whatever callers submit, and in whatever order.                    *)
THEOREM BeforeAReset ==
  Spec => [](generation = 1 => DedupeSound /\ RetriesRecognised /\ IndexSound)
<1>1. Init => FirstInv
  BY DEF Init, FirstInv, FirstGeneration, KeysInv, OwnKeys, KeysApart, DedupeCurrent,
         RetriesRecognised, IndexCurrent
<1>2. FirstInv => (generation = 1 => DedupeSound /\ RetriesRecognised /\ IndexSound)
  BY KeysInvImplies DEF FirstInv
<1> QED BY <1>1, <1>2, FirstStep, QueueInvariant, PTL DEF Spec
===============================================================================
