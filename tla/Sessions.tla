------------------------------- MODULE Sessions -------------------------------
(***************************************************************************)
(* Sign-in, sessions and cached authorization of a reviewer                *)
(* (analysis-launcher/worker.mjs, auth-routes.mjs, viewer-access.mjs and   *)
(* the exchange/, session/ and rate/ handlers of auth-exchange.mjs).       *)
(*                                                                         *)
(* Every handler of the store is one transaction.  A request of the Worker *)
(* is several of them with calls to GitHub between, and the requests of    *)
(* one session run side by side: the membership GitHub reported, the       *)
(* session as it was read and the stored session may differ by then.       *)
(*                                                                         *)
(* There is one reviewer.  A code is named by the session it was issued    *)
(* for.  Times are in ticks, much shorter than the limits they stand for.  *)
(*                                                                         *)
(* A definition named ...Fault is a plausible slip in the definition that  *)
(* follows it; no specification uses it.                                   *)
(***************************************************************************)
EXTENDS Naturals, FiniteSets

CONSTANTS Handle, Request,
          Idle, Absolute,   \* ticks an unused session lives, and any session
          ExchangeLife,     \* ticks a code can be redeemed
          Fresh,            \* ticks a read may use a stored authorization
          CheckTime,        \* ticks after which a check of GitHub has timed out
          Window, Limit,    \* exports admitted in any window
          NoSession, NoCode,
          MaxTime, MaxMoves \* bounds: the clock, changes of membership

ASSUME SessionAssumption ==
  /\ {Idle, Absolute, ExchangeLife, Fresh, CheckTime, MaxTime, MaxMoves} \subseteq Nat
  /\ Fresh > 0 /\ Window \in Nat \ {0} /\ Limit \in Nat \ {0}
  /\ NoSession \notin Handle \cup Request /\ NoCode \notin Nat

VARIABLES now,
          member,    \* whether the reviewer is a collaborator
          moves,
          sessions,  \* handle -> the stored session
          over,      \* handles whose session was stored and ended
          codes,     \* handle -> until when its code can be redeemed
          requests,  \* the Worker's requests
          recent,    \* handle -> the exports its limiter remembers
          members    \* ticks in which the reviewer was a collaborator at some moment

sessionVars == <<now, member, moves, sessions, over, codes, requests, recent, members>>

-----------------------------------------------------------------------------
Kind == {"sign-in", "redeem", "read", "write", "export"}
\* A browser knows the handle its code was redeemed for.  check is the request whose check
\* of GitHub this one waits for: its own, or one of the same session it found in flight.
NewRequest == [stage |-> "new", kind |-> "read", handle |-> NoSession, check |-> NoSession,
               authorized |-> FALSE, since |-> 0, at |-> 0, wait |-> 0]
Session == [idle : Nat, absolute : Nat, verified : Nat \cup {NoCode}]

Handles == {h \in Handle : sessions[h] # NoSession}
Known == {requests[q].handle : q \in {p \in Request : requests[p].kind = "redeem" /\ requests[p].stage = "served"}}
Refusal == [NewRequest EXCEPT !.stage = "refused"]
Reply(r, stage, wait) == [NewRequest EXCEPT !.stage = stage, !.at = now, !.kind = requests[r].kind,
                                            !.handle = requests[r].handle, !.wait = wait]
Replies(r, stage, wait) == requests' = [requests EXCEPT ![r] = Reply(r, stage, wait)]
Live(kind) == kind # "read"

\* The session read by session/get: one past its limits is deleted and refused, another
\* is touched.
Expired(s) == s.absolute <= now \/ s.idle <= now
Least(x, y) == IF x <= y THEN x ELSE y
TouchedFault(s) == [s EXCEPT !.idle = now + Idle, !.absolute = now + Absolute]
Touched(s) == [s EXCEPT !.idle = Least(now + Idle, s.absolute)]

Ended(h) == sessions' = [sessions EXCEPT ![h] = NoSession] /\ over' = over \cup {h}
Got(h) == sessions[h] # NoSession /\ ~Expired(sessions[h])
Get(h) ==
  IF Got(h) THEN sessions' = [sessions EXCEPT ![h] = Touched(@)] /\ UNCHANGED over
  ELSE IF sessions[h] # NoSession THEN Ended(h)
  ELSE UNCHANGED <<sessions, over>>

-----------------------------------------------------------------------------
(* The callback of the OAuth flow: the reviewer is looked up, a session is  *)
(* stored under a new handle, and then a code for it.                       *)
SignIn(r, h) ==
  /\ requests[r].stage = "new" /\ sessions[h] = NoSession /\ h \notin over
  /\ \A q \in Request : requests[q].handle # h
  /\ requests' = [requests EXCEPT ![r] = IF member THEN [NewRequest EXCEPT !.kind = "sign-in", !.handle = h,
                                                                            !.stage = "viewed"]
                                           ELSE Refusal]
  /\ UNCHANGED <<now, member, moves, sessions, over, codes, recent, members>>

CreateSession(r) ==
  /\ requests[r].stage = "viewed"
  /\ sessions' = [sessions EXCEPT ![requests[r].handle] =
                    [idle |-> now + Idle, absolute |-> now + Absolute, verified |-> NoCode]]
  /\ requests' = [requests EXCEPT ![r].stage = "created"]
  /\ UNCHANGED <<now, member, moves, over, codes, recent, members>>

\* The last step can fail: the session stays behind without a code.
IssueCode(r) ==
  /\ requests[r].stage = "created"
  /\ \/ /\ codes' = [codes EXCEPT ![requests[r].handle] = now + ExchangeLife]
        /\ Replies(r, "served", 0)
     \/ requests' = [requests EXCEPT ![r] = Refusal] /\ UNCHANGED codes
  /\ UNCHANGED <<now, member, moves, sessions, over, recent, members>>

\* A check of GitHub in flight for this session, or a new one, in another isolate of the
\* Worker perhaps.  What it will answer is as it was when it was begun.
InFlight(h) == {q \in Request : requests[q].stage = "checking" /\ requests[q].check = q
                                 /\ requests[q].handle = h}
BeginCheck(r, kind, h) ==
  \E c \in InFlight(h) \cup {r} :
    requests' = [requests EXCEPT ![r] = [NewRequest EXCEPT !.stage = "checking", !.kind = kind, !.handle = h,
                                           !.check = c, !.authorized = member, !.since = now]]

\* A code is redeemed once, before it expires; the session it names is read and checked.
RedeemFault(r, h) ==
  /\ requests[r].stage = "new" /\ codes[h] # NoCode
  /\ IF codes[h] <= now \/ ~Got(h)
     THEN /\ requests' = [requests EXCEPT ![r] = Refusal]
          /\ codes' = [codes EXCEPT ![h] = NoCode]
     ELSE BeginCheck(r, "redeem", h) /\ UNCHANGED codes
  /\ IF codes[h] <= now THEN UNCHANGED <<sessions, over>> ELSE Get(h)
  /\ UNCHANGED <<now, member, moves, recent, members>>
Redeem(r, h) ==
  /\ requests[r].stage = "new" /\ codes[h] # NoCode
  /\ IF codes[h] <= now \/ ~Got(h)
     THEN requests' = [requests EXCEPT ![r] = Refusal]
     ELSE BeginCheck(r, "redeem", h)
  /\ codes' = [codes EXCEPT ![h] = NoCode]
  /\ IF codes[h] <= now THEN UNCHANGED <<sessions, over>> ELSE Get(h)
  /\ UNCHANGED <<now, member, moves, recent, members>>

\* A read is served on an authorization stored a moment ago; everything else, and a read
\* without one, is checked with GitHub.
FreshEnoughFault(h) == sessions[h].verified # NoCode
FreshEnough(h) == sessions[h].verified # NoCode /\ now < sessions[h].verified + Fresh
Ask(r, kind, h) ==
  /\ requests[r].stage = "new" /\ kind \in {"read", "write", "export"} /\ h \in Known
  /\ IF ~Got(h)
     THEN requests' = [requests EXCEPT ![r] = Refusal]
     ELSE IF ~Live(kind) /\ FreshEnough(h)
     THEN requests' = [requests EXCEPT ![r] = [NewRequest EXCEPT !.stage = "served", !.kind = kind,
                                                 !.handle = h, !.at = now]]
     ELSE BeginCheck(r, kind, h)
  /\ Get(h)
  /\ UNCHANGED <<now, member, moves, codes, recent, members>>

Waiting(c) == {r \in Request : requests[r].stage = "checking" /\ requests[r].check = c}
Accepted(c) ==
  requests' = [r \in Request |-> IF r \notin Waiting(c) THEN requests[r]
                                 ELSE Reply(r, IF requests[r].kind = "export" THEN "limit" ELSE "served", 0)]
Refused(c) ==
  requests' = [r \in Request |-> IF r \notin Waiting(c) THEN requests[r] ELSE Refusal]

\* The answer of GitHub is stored with the time it came, if the session is still there;
\* a reviewer who is no longer a collaborator loses the session.
StoresFault(h) == sessions' = [sessions EXCEPT ![h] = [idle |-> now + Idle, absolute |-> now + Absolute,
                                                       verified |-> now]]
Stores(h) == sessions[h] # NoSession /\ sessions' = [sessions EXCEPT ![h].verified = now]
CheckAnswers(c) ==
  LET h == requests[c].handle IN
  /\ c \in Waiting(c)
  /\ \/ requests[c].authorized /\ Stores(h) /\ Accepted(c) /\ UNCHANGED over
     \/ /\ requests[c].authorized /\ sessions[h] = NoSession
        /\ Refused(c) /\ UNCHANGED <<sessions, over>>
     \/ ~requests[c].authorized /\ Refused(c)
        /\ IF sessions[h] = NoSession THEN UNCHANGED <<sessions, over>> ELSE Ended(h)
  /\ UNCHANGED <<now, member, moves, codes, recent, members>>

\* GitHub does not answer, limits the call, or reports another identity: the requests
\* are refused and the session stays.
CheckFails(c) ==
  /\ c \in Waiting(c) /\ Refused(c)
  /\ UNCHANGED <<now, member, moves, sessions, over, codes, recent, members>>

\* An export is one of the last Window ticks' at most Limit of its session.  The wait it
\* is told is until the oldest it remembers leaves the window.
Within(h) == {q \in recent[h] : now < requests[q].at + Window}
Oldest(S) == CHOOSE q \in S : \A p \in S : requests[q].at <= requests[p].at
Wait(S) == requests[Oldest(S)].at + Window - now
ExportFault(r) ==
  LET h == requests[r].handle IN
  /\ requests[r].stage = "limit"
  /\ IF Cardinality(Within(h)) > Limit
     THEN Replies(r, "limited", Wait(Within(h))) /\ UNCHANGED recent
     ELSE Replies(r, "served", 0) /\ recent' = [recent EXCEPT ![h] = Within(h) \cup {r}]
  /\ UNCHANGED <<now, member, moves, sessions, over, codes, members>>
Export(r) ==
  LET h == requests[r].handle IN
  /\ requests[r].stage = "limit"
  /\ IF Cardinality(Within(h)) >= Limit
     THEN Replies(r, "limited", Wait(Within(h))) /\ UNCHANGED recent
     ELSE Replies(r, "served", 0) /\ recent' = [recent EXCEPT ![h] = Within(h) \cup {r}]
  /\ UNCHANGED <<now, member, moves, sessions, over, codes, members>>

SignOut(h) ==
  /\ h \in Known \cap Handles /\ Ended(h)
  /\ UNCHANGED <<now, member, moves, codes, requests, recent, members>>

\* The store's alarm drops codes nobody redeemed.
Alarm ==
  /\ \E h \in Handle : codes[h] # NoCode /\ codes[h] <= now
  /\ codes' = [h \in Handle |-> IF codes[h] # NoCode /\ codes[h] <= now THEN NoCode ELSE codes[h]]
  /\ UNCHANGED <<now, member, moves, sessions, over, requests, recent, members>>

-----------------------------------------------------------------------------
\* No check is older than its timeouts.
Tick ==
  /\ now < MaxTime
  /\ \A r \in Request : requests[r].stage = "checking" => now < requests[requests[r].check].since + CheckTime
  /\ \A r \in Request : requests[r].stage # "limit"
  /\ now' = now + 1 /\ members' = IF member THEN members \cup {now + 1} ELSE members
  /\ UNCHANGED <<member, moves, sessions, over, codes, requests, recent>>

Membership ==
  /\ moves < MaxMoves /\ moves' = moves + 1
  /\ member' = ~member /\ members' = members \cup {now}
  /\ UNCHANGED <<now, sessions, over, codes, requests, recent>>

SessionInit ==
  /\ now = 0 /\ member = TRUE /\ moves = 0
  /\ sessions = [h \in Handle |-> NoSession] /\ over = {}
  /\ codes = [h \in Handle |-> NoCode] /\ requests = [r \in Request |-> NewRequest]
  /\ recent = [h \in Handle |-> {}] /\ members = {0}

SessionNext ==
  \/ \E r \in Request, h \in Handle :
       SignIn(r, h) \/ Redeem(r, h) \/ (\E kind \in Kind : Ask(r, kind, h))
  \/ \E r \in Request : CreateSession(r) \/ IssueCode(r) \/ CheckAnswers(r) \/ CheckFails(r) \/ Export(r)
  \/ (\E h \in Handle : SignOut(h)) \/ Alarm \/ Tick \/ Membership

SessionSpec == SessionInit /\ [][SessionNext]_sessionVars

-----------------------------------------------------------------------------
\* Whoever is served was a collaborator a moment ago: at most the time one check takes
\* before a write, an export or a redeemed code, less than the cache's age more before a
\* read, however checks are shared and late answers stored.
AccessIsRecent ==
  \A r \in Request :
    requests[r].stage = "served" /\ requests[r].kind # "sign-in" =>
      \E t \in members :
        /\ t <= requests[r].at
        /\ requests[r].at <= t + CheckTime + (IF Live(requests[r].kind) THEN 0 ELSE Fresh - 1)

\* A session that ended, by sign-out, by its limits or by a confirmed removal, does not
\* come back: the answer of a check begun before is not stored.
EndedStaysEnded == \A h \in over : sessions[h] = NoSession

\* A code signs in one request only, also when it is sent twice and the first answer
\* is not there yet.
RedeemedOnce ==
  \A h \in Handle :
    Cardinality({r \in Request : requests[r].kind = "redeem" /\ requests[r].handle = h}) <= 1

\* Reads that keep coming do not carry a session past the life its sign-in gave it.
SessionsEnd ==
  \A q, r \in Request :
    /\ requests[q].kind = "sign-in" /\ requests[q].handle = requests[r].handle
    /\ requests[q].stage = "served" /\ requests[r].kind # "sign-in" /\ requests[r].stage = "served"
    => requests[r].at < requests[q].at + Absolute + CheckTime

\* No window of time holds more exports of a session than the limit, also at the instant
\* the oldest leaves it; and an export that waits as told, with none in between, is
\* not told to wait again.
Exported(h) == {r \in Request : requests[r].kind = "export" /\ requests[r].stage = "served"
                                /\ requests[r].handle = h}
ExportsBounded ==
  /\ \A h \in Handle : \A q \in Exported(h) :
       Cardinality({r \in Exported(h) : requests[q].at <= requests[r].at
                                        /\ requests[r].at < requests[q].at + Window}) <= Limit
  /\ \A r \in Request : requests[r].stage = "limited" =>
       Cardinality({q \in Exported(requests[r].handle) :
                      /\ requests[q].at <= requests[r].at
                      /\ requests[r].at + requests[r].wait < requests[q].at + Window}) < Limit
===============================================================================
