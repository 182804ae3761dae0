--------------------------- MODULE WorkerAccessProofs ---------------------------
(***************************************************************************)
(* Theorems of Sessions, for any number of sessions and requests, any      *)
(* lifetimes and any bounds; of TokenRotation, for any tokens and any      *)
(* number of rotations; and of WorkerAccess, whose behaviours are theirs.  *)
(***************************************************************************)
EXTENDS WorkerAccess, FiniteSetTheorems, WellFoundedInduction, TLAPS

Fields(q) == q = [stage |-> q.stage, kind |-> q.kind, handle |-> q.handle, check |-> q.check,
                  authorized |-> q.authorized, since |-> q.since, at |-> q.at, wait |-> q.wait]

\* What the proofs need of the types.
SessionTypes ==
  /\ sessions \in [Handle -> Session \cup {NoSession}] /\ over \subseteq Handle
  /\ codes \in [Handle -> Nat \cup {NoCode}] /\ now \in Nat
  /\ requests = [r \in Request |-> requests[r]]
  /\ \A r \in Request :
       /\ Fields(requests[r])
       /\ requests[r].stage \in {"checking", "limit"} => requests[r].handle \in Handle

\* A sign-in that goes on owns its handle: no code is out for it and no other request has it,
\* and before it stored its session there never was one.
PendingOwns ==
  \A r \in Request :
    requests[r].stage \in {"viewed", "created"} =>
      /\ requests[r].kind = "sign-in" /\ requests[r].handle \in Handle
      /\ codes[requests[r].handle] = NoCode
      /\ \A q \in Request \ {r} : requests[q].handle # requests[r].handle
      /\ requests[r].stage = "viewed" => requests[r].handle \notin over

\* A code is out for a handle that signed in and that nobody redeemed yet.
CodeUnused ==
  \A h \in Handle : codes[h] # NoCode =>
    /\ \E q \in Request : requests[q].handle = h /\ requests[q].stage = "served"
    /\ \A q \in Request : requests[q].handle = h => requests[q].kind # "redeem"

RedeemsDiffer ==
  \A q, r \in Request :
    requests[q].kind = "redeem" /\ requests[r].kind = "redeem" /\ requests[q].handle = requests[r].handle
    => q = r

SessionInv == SessionTypes /\ EndedStaysEnded /\ PendingOwns /\ CodeUnused /\ RedeemsDiffer

-----------------------------------------------------------------------------
LEMMA Times == {Idle, Absolute, ExchangeLife, Fresh, CheckTime} \subseteq Nat
  BY SessionAssumption

LEMMA SessionStart == SessionInit => SessionInv
<1> SUFFICES ASSUME SessionInit PROVE SessionInv
  OBVIOUS
<1>1. requests = [r \in Request |-> NewRequest] /\ codes = [h \in Handle |-> NoCode]
      /\ over = {} /\ now = 0 /\ sessions = [h \in Handle |-> NoSession]
  BY DEF SessionInit
<1>2. \A r \in Request : requests[r].stage = "new" /\ requests[r].kind = "read" /\ Fields(requests[r])
  BY <1>1 DEF NewRequest, Fields
<1>3. SessionTypes
  BY <1>1, <1>2 DEF SessionTypes
<1> QED
  BY <1>1, <1>2, <1>3 DEF SessionInv, EndedStaysEnded, PendingOwns, CodeUnused, RedeemsDiffer

\* What Get, as sign-out and a refusal do, can change: at most the session of one handle,
\* which a live handle keeps or loses.
OnlyAt(h) ==
  /\ sessions' \in [Handle -> Session \cup {NoSession}] /\ over' \subseteq Handle
  /\ \A k \in Handle \ {h} : sessions'[k] = sessions[k] /\ (k \in over' <=> k \in over)
  /\ h \in over' => sessions'[h] = NoSession

LEMMA EndedAt == ASSUME SessionInv, NEW h \in Handle, Ended(h) PROVE OnlyAt(h)
  BY DEF SessionInv, SessionTypes, OnlyAt, Ended

LEMMA GetAt == ASSUME SessionInv, NEW h \in Handle, Get(h) PROVE OnlyAt(h)
<1>1. CASE Got(h)
  <2>1. sessions[h] \in Session /\ now + Idle \in Nat
    BY <1>1, Times DEF SessionInv, SessionTypes, Got
  <2>2. Touched(sessions[h]) \in Session
    BY <2>1 DEF Touched, Least, Session
  <2>3. h \notin over
    BY <1>1 DEF SessionInv, EndedStaysEnded, Got
  <2> QED
    BY <1>1, <2>2, <2>3 DEF Get, SessionInv, SessionTypes, OnlyAt
<1>2. CASE ~Got(h) /\ sessions[h] # NoSession
  BY <1>2, EndedAt DEF Get
<1>3. CASE ~Got(h) /\ sessions[h] = NoSession
  BY <1>3 DEF Get, SessionInv, SessionTypes, EndedStaysEnded, OnlyAt
<1> QED
  BY <1>1, <1>2, <1>3

Pending(q) == requests[q].stage \in {"viewed", "created"}

LEMMA PendingApart ==
  ASSUME SessionInv, NEW h \in Handle, codes[h] # NoCode \/ h \in Known
  PROVE  \A q \in Request : Pending(q) => requests[q].handle # h
  BY DEF SessionInv, PendingOwns, Known, Pending

\* A step that issues no code and leaves pending sign-ins alone: a request that changes was
\* neither pending nor served and keeps its handle and kind, or becomes another than a
\* redeemed code, of a handle no sign-in has.
LEMMA QuietStep ==
  ASSUME SessionInv, SessionTypes',
         \A h \in Handle : codes'[h] \in {codes[h], NoCode},
         \A h \in over' \ over : \A q \in Request : Pending(q) => requests[q].handle # h,
         \A q \in Request :
           \/ requests'[q] = requests[q]
           \/ /\ ~Pending(q) /\ ~Pending(q)' /\ requests[q].stage # "served"
              /\ \/ requests'[q].handle = requests[q].handle /\ requests'[q].kind = requests[q].kind
                 \/ /\ requests'[q].kind # "redeem"
                    /\ \A p \in Request : Pending(p) => requests[p].handle # requests'[q].handle
  PROVE  PendingOwns' /\ CodeUnused' /\ RedeemsDiffer'
<1>1. \A q \in Request : Pending(q)' => Pending(q) /\ requests'[q] = requests[q]
  BY DEF Pending
<1>2. PendingOwns'
  BY <1>1 DEF SessionInv, PendingOwns, Pending
<1>3. \A q \in Request : requests'[q].kind = "redeem" =>
        requests[q].kind = "redeem" /\ requests[q].handle = requests'[q].handle
  BY DEF Pending
<1>4. CodeUnused'
  BY <1>3 DEF SessionInv, CodeUnused, Pending
<1>5. RedeemsDiffer'
  BY <1>3 DEF SessionInv, RedeemsDiffer
<1> QED
  BY <1>2, <1>4, <1>5

-----------------------------------------------------------------------------
(* One lemma for each step of a sign-in, and for the redeeming of its code. *)
LEMMA SignInStep == ASSUME SessionInv, NEW r \in Request, NEW h \in Handle, SignIn(r, h) PROVE SessionInv'
<1>1. CASE member
  <2>1. /\ requests'[r].stage = "viewed" /\ requests'[r].kind = "sign-in" /\ requests'[r].handle = h
        /\ Fields(requests'[r])
    BY <1>1 DEF SignIn, SessionInv, SessionTypes, NewRequest, Fields
  <2>2. /\ requests' = [q \in Request |-> requests'[q]]
        /\ \A q \in Request \ {r} : requests'[q] = requests[q] /\ requests[q].handle # h
    BY <1>1 DEF SignIn, SessionInv, SessionTypes
  <2>3. requests[r].stage = "new" /\ sessions[h] = NoSession /\ h \notin over
        /\ UNCHANGED <<now, sessions, over, codes>> /\ requests[r].handle # h
    BY DEF SignIn
  <2>4. codes[h] = NoCode
    BY <2>2, <2>3 DEF SessionInv, CodeUnused
  <2>5. SessionTypes'
    BY <2>1, <2>2, <2>3 DEF SessionInv, SessionTypes
  <2>6. PendingOwns'
    BY <2>1, <2>2, <2>3, <2>4 DEF SessionInv, PendingOwns
  <2>7. CodeUnused'
    BY <2>1, <2>2, <2>3, <2>4 DEF SessionInv, CodeUnused
  <2>8. RedeemsDiffer'
    BY <2>1, <2>2 DEF SessionInv, RedeemsDiffer
  <2> QED
    BY <2>3, <2>5, <2>6, <2>7, <2>8 DEF SessionInv, EndedStaysEnded
<1>2. CASE ~member
  <2>1. /\ requests'[r].stage = "refused" /\ requests'[r].kind = "read" /\ requests'[r].handle = NoSession
        /\ Fields(requests'[r])
    BY <1>2 DEF SignIn, Refusal, SessionInv, SessionTypes, NewRequest, Fields
  <2>2. /\ requests' = [q \in Request |-> requests'[q]]
        /\ \A q \in Request \ {r} : requests'[q] = requests[q]
    BY <1>2 DEF SignIn, SessionInv, SessionTypes
  <2>3. requests[r].stage = "new" /\ UNCHANGED <<now, sessions, over, codes>>
    BY DEF SignIn
  <2>4. SessionTypes'
    BY <2>1, <2>2, <2>3 DEF SessionInv, SessionTypes
  <2>5. \A p \in Request : Pending(p) => requests[p].handle # NoSession
    BY SessionAssumption DEF SessionInv, PendingOwns, Pending
  <2>6. PendingOwns' /\ CodeUnused' /\ RedeemsDiffer'
    BY <2>1, <2>2, <2>3, <2>4, <2>5, QuietStep DEF Pending
  <2> QED
    BY <2>3, <2>4, <2>6 DEF SessionInv, EndedStaysEnded
<1> QED
  BY <1>1, <1>2

LEMMA CreateStep == ASSUME SessionInv, NEW r \in Request, CreateSession(r) PROVE SessionInv'
<1> DEFINE h == requests[r].handle
<1>1. /\ requests[r].stage = "viewed" /\ h \in Handle /\ h \notin over
      /\ \A q \in Request \ {r} : requests[q].handle # h
  BY DEF CreateSession, SessionInv, PendingOwns
<1>2. /\ requests'[r].stage = "created" /\ requests'[r].handle = h /\ requests'[r].kind = requests[r].kind
      /\ Fields(requests'[r])
  BY DEF CreateSession, SessionInv, SessionTypes, Fields
<1>3. /\ requests' = [q \in Request |-> requests'[q]]
      /\ \A q \in Request \ {r} : requests'[q] = requests[q]
  BY DEF CreateSession, SessionInv, SessionTypes
<1>4. UNCHANGED <<now, over, codes>>
  BY DEF CreateSession
<1>5. sessions' \in [Handle -> Session \cup {NoSession}] /\ \A k \in Handle \ {h} : sessions'[k] = sessions[k]
  BY <1>1, Times DEF CreateSession, SessionInv, SessionTypes, Session
<1>6. SessionTypes'
  BY <1>2, <1>3, <1>4, <1>5 DEF SessionInv, SessionTypes
<1>7. EndedStaysEnded'
  BY <1>1, <1>4, <1>5 DEF SessionInv, SessionTypes, EndedStaysEnded
<1>8. PendingOwns'
  BY <1>1, <1>2, <1>3, <1>4 DEF SessionInv, PendingOwns
<1>9. CodeUnused' /\ RedeemsDiffer'
  BY <1>1, <1>2, <1>3, <1>4 DEF SessionInv, CodeUnused, RedeemsDiffer
<1> QED
  BY <1>6, <1>7, <1>8, <1>9 DEF SessionInv

LEMMA IssueStep == ASSUME SessionInv, NEW r \in Request, IssueCode(r) PROVE SessionInv'
<1> DEFINE h == requests[r].handle
<1>1. /\ requests[r].stage = "created" /\ h \in Handle /\ requests[r].kind = "sign-in"
      /\ \A q \in Request \ {r} : requests[q].handle # h
  BY DEF IssueCode, SessionInv, PendingOwns
<1>2. /\ UNCHANGED <<now, sessions, over>>
      /\ requests' = [q \in Request |-> requests'[q]]
      /\ \A q \in Request \ {r} : requests'[q] = requests[q]
  BY DEF IssueCode, Replies, SessionInv, SessionTypes
<1>3. CASE codes' = [codes EXCEPT ![h] = now + ExchangeLife] /\ Replies(r, "served", 0)
  <2>1. /\ requests'[r].stage = "served" /\ requests'[r].kind = "sign-in" /\ requests'[r].handle = h
        /\ Fields(requests'[r])
    BY <1>1, <1>3 DEF Replies, Reply, NewRequest, SessionInv, SessionTypes, Fields
  <2>2. codes' \in [Handle -> Nat \cup {NoCode}] /\ \A k \in Handle \ {h} : codes'[k] = codes[k]
    BY <1>1, <1>3, Times DEF SessionInv, SessionTypes
  <2>3. SessionTypes'
    BY <1>2, <2>1, <2>2 DEF SessionInv, SessionTypes
  <2>4. PendingOwns'
    BY <1>1, <1>2, <2>1, <2>2 DEF SessionInv, PendingOwns
  <2>5. CodeUnused'
    BY <1>1, <1>2, <2>1, <2>2 DEF SessionInv, CodeUnused
  <2>6. RedeemsDiffer'
    BY <1>2, <2>1 DEF SessionInv, RedeemsDiffer
  <2> QED
    BY <1>2, <2>3, <2>4, <2>5, <2>6 DEF SessionInv, EndedStaysEnded
<1>4. CASE requests' = [requests EXCEPT ![r] = Refusal] /\ UNCHANGED codes
  <2>1. /\ requests'[r].stage = "refused" /\ requests'[r].kind = "read" /\ requests'[r].handle = NoSession
        /\ Fields(requests'[r])
    BY <1>4 DEF Refusal, NewRequest, SessionInv, SessionTypes, Fields
  <2>2. SessionTypes'
    BY <1>2, <1>4, <2>1 DEF SessionInv, SessionTypes
  <2>3. PendingOwns'
    BY <1>2, <1>4, <2>1, SessionAssumption DEF SessionInv, PendingOwns
  <2>4. CodeUnused'
    BY <1>1, <1>2, <1>4, <2>1 DEF SessionInv, CodeUnused
  <2>5. RedeemsDiffer'
    BY <1>2, <2>1 DEF SessionInv, RedeemsDiffer
  <2> QED
    BY <1>2, <2>2, <2>3, <2>4, <2>5 DEF SessionInv, EndedStaysEnded
<1> QED
  BY <1>3, <1>4 DEF IssueCode

\* What a check that begins makes of its request.
LEMMA CheckBegun ==
  ASSUME SessionInv, NEW r \in Request, NEW kind, NEW h \in Handle, BeginCheck(r, kind, h)
  PROVE  /\ requests' = [q \in Request |-> requests'[q]]
         /\ \A q \in Request \ {r} : requests'[q] = requests[q]
         /\ requests'[r].stage = "checking" /\ requests'[r].kind = kind /\ requests'[r].handle = h
         /\ Fields(requests'[r])
<1>1. PICK c \in InFlight(h) \cup {r} :
        requests' = [requests EXCEPT ![r] = [NewRequest EXCEPT !.stage = "checking", !.kind = kind, !.handle = h,
                                               !.check = c, !.authorized = member, !.since = now]]
  BY DEF BeginCheck
<1>2. requests'[r] = [stage |-> "checking", kind |-> kind, handle |-> h, check |-> c, authorized |-> member,
                      since |-> now, at |-> 0, wait |-> 0]
  BY <1>1 DEF SessionInv, SessionTypes, NewRequest
<1> QED
  BY <1>1, <1>2 DEF SessionInv, SessionTypes, Fields

LEMMA RefusedOne ==
  ASSUME SessionInv, NEW r \in Request, requests' = [requests EXCEPT ![r] = Refusal]
  PROVE  /\ requests' = [q \in Request |-> requests'[q]]
         /\ \A q \in Request \ {r} : requests'[q] = requests[q]
         /\ requests'[r].stage = "refused" /\ requests'[r].kind = "read" /\ requests'[r].handle = NoSession
         /\ Fields(requests'[r])
  BY DEF SessionInv, SessionTypes, Refusal, NewRequest, Fields

LEMMA RedeemStep == ASSUME SessionInv, NEW r \in Request, NEW h \in Handle, Redeem(r, h) PROVE SessionInv'
<1>1. /\ requests[r].stage = "new" /\ codes[h] # NoCode /\ now' = now
      /\ codes' = [codes EXCEPT ![h] = NoCode]
  BY DEF Redeem
<1>2. OnlyAt(h) \/ UNCHANGED <<sessions, over>>
  BY GetAt DEF Redeem
<1>3. EndedStaysEnded'
  BY <1>2 DEF SessionInv, SessionTypes, EndedStaysEnded, OnlyAt
<1>4. /\ requests' = [q \in Request |-> requests'[q]]
      /\ \A q \in Request \ {r} : requests'[q] = requests[q]
      /\ requests'[r].stage \in {"checking", "refused"} /\ Fields(requests'[r])
      /\ \/ requests'[r].handle = h
         \/ /\ requests'[r].handle = NoSession /\ requests'[r].kind = "read"
            /\ requests'[r].stage = "refused"
  BY CheckBegun, RefusedOne DEF Redeem
<1>5. SessionTypes'
  BY <1>1, <1>2, <1>4 DEF SessionInv, SessionTypes, OnlyAt
<1>6. \A q \in Request : Pending(q) => requests[q].handle # h /\ requests[q].handle # NoSession /\ q # r
  BY <1>1, PendingApart, SessionAssumption DEF SessionInv, PendingOwns, Pending
<1>7. PendingOwns'
  BY <1>1, <1>2, <1>4, <1>6 DEF SessionInv, SessionTypes, PendingOwns, Pending, OnlyAt
<1>8. CodeUnused'
  BY <1>1, <1>4, SessionAssumption DEF SessionInv, SessionTypes, CodeUnused
<1>9. RedeemsDiffer'
  BY <1>1, <1>4 DEF SessionInv, RedeemsDiffer, CodeUnused
<1> QED
  BY <1>3, <1>5, <1>7, <1>8, <1>9 DEF SessionInv

-----------------------------------------------------------------------------
(* The other steps are quiet.                                               *)
LEMMA AskStep ==
  ASSUME SessionInv, NEW r \in Request, NEW h \in Handle, NEW kind \in Kind, Ask(r, kind, h) PROVE SessionInv'
<1>1. requests[r].stage = "new" /\ kind # "redeem" /\ h \in Known /\ now' = now /\ codes' = codes
  BY DEF Ask
<1>2. OnlyAt(h)
  BY GetAt DEF Ask
<1>3. EndedStaysEnded'
  BY <1>2 DEF SessionInv, SessionTypes, EndedStaysEnded, OnlyAt
<1>4. /\ requests' = [q \in Request |-> requests'[q]]
      /\ \A q \in Request \ {r} : requests'[q] = requests[q]
      /\ requests'[r].stage \in {"checking", "refused", "served"} /\ Fields(requests'[r])
      /\ requests'[r].handle \in {h, NoSession} /\ requests'[r].kind # "redeem"
      /\ requests'[r].stage = "checking" => requests'[r].handle = h
  <2>1. CASE requests' = [requests EXCEPT ![r] = Refusal]
    BY <2>1, RefusedOne
  <2>2. CASE BeginCheck(r, kind, h)
    BY <1>1, <2>2, CheckBegun
  <2>3. CASE requests' = [requests EXCEPT ![r] = [NewRequest EXCEPT !.stage = "served", !.kind = kind,
                                                    !.handle = h, !.at = now]]
    BY <1>1, <2>3 DEF SessionInv, SessionTypes, NewRequest, Fields
  <2> QED
    BY <2>1, <2>2, <2>3 DEF Ask
<1>5. SessionTypes'
  BY <1>1, <1>2, <1>4 DEF SessionInv, SessionTypes, OnlyAt
<1>6. \A q \in Request : Pending(q) => requests[q].handle # h /\ requests[q].handle # NoSession /\ q # r
  BY <1>1, PendingApart, SessionAssumption DEF SessionInv, PendingOwns, Pending
<1>7. PendingOwns' /\ CodeUnused' /\ RedeemsDiffer'
  <2>1. \A k \in over' \ over : k = h
    BY <1>2 DEF OnlyAt
  <2> QED
    BY <1>1, <1>4, <1>5, <1>6, <2>1, QuietStep DEF Pending
<1> QED
  BY <1>3, <1>5, <1>7 DEF SessionInv

\* What the answer of a check makes of the requests that wait for it.
LEMMA RefusedAll ==
  ASSUME SessionInv, NEW c \in Request, Refused(c)
  PROVE  /\ requests' = [q \in Request |-> requests'[q]]
         /\ \A q \in Request \ Waiting(c) : requests'[q] = requests[q]
         /\ \A q \in Waiting(c) : /\ requests'[q].stage = "refused" /\ requests'[q].kind = "read"
                                  /\ requests'[q].handle = NoSession /\ Fields(requests'[q])
  BY DEF Refused, Refusal, Waiting, NewRequest, SessionInv, SessionTypes, Fields

LEMMA AcceptedAll ==
  ASSUME SessionInv, NEW c \in Request, Accepted(c)
  PROVE  /\ requests' = [q \in Request |-> requests'[q]]
         /\ \A q \in Request \ Waiting(c) : requests'[q] = requests[q]
         /\ \A q \in Waiting(c) :
              /\ requests'[q].stage \in {"limit", "served"} /\ requests'[q].kind = requests[q].kind
              /\ requests'[q].handle = requests[q].handle /\ Fields(requests'[q])
  BY DEF Accepted, Reply, Waiting, NewRequest, SessionInv, SessionTypes, Fields

\* A step of the store's quiet kind: sessions end or are touched, requests that wait move on.
LEMMA Answered ==
  ASSUME SessionInv, NEW c \in Request, c \in Waiting(c), Accepted(c) \/ Refused(c),
         SessionTypes', EndedStaysEnded', codes' = codes, over' \subseteq over \cup {requests[c].handle}
  PROVE  SessionInv'
<1>1. \A q \in Waiting(c) : q \in Request /\ requests[q].stage = "checking"
  BY DEF Waiting
<1>2. \A q \in Request : Pending(q) => requests[q].handle # requests[c].handle /\ requests[q].handle # NoSession
  BY <1>1, SessionAssumption DEF SessionInv, PendingOwns, Pending
<1>3. PendingOwns' /\ CodeUnused' /\ RedeemsDiffer'
  BY <1>1, <1>2, AcceptedAll, RefusedAll, QuietStep DEF Pending
<1> QED
  BY <1>3 DEF SessionInv

LEMMA CheckStep ==
  ASSUME SessionInv, NEW c \in Request, CheckAnswers(c) \/ CheckFails(c) PROVE SessionInv'
<1> DEFINE h == requests[c].handle
<1>1. c \in Waiting(c) /\ (Accepted(c) \/ Refused(c)) /\ UNCHANGED <<now, codes>> /\ h \in Handle
  BY DEF CheckAnswers, CheckFails, SessionInv, SessionTypes, Waiting
<1>2. OnlyAt(h)
  <2>1. CASE Stores(h) /\ UNCHANGED over
    BY <1>1, <2>1 DEF Stores, SessionInv, SessionTypes, Session, EndedStaysEnded, OnlyAt
  <2>2. CASE UNCHANGED <<sessions, over>>
    BY <1>1, <2>2 DEF SessionInv, SessionTypes, EndedStaysEnded, OnlyAt
  <2> QED
    BY <1>1, <2>1, <2>2, EndedAt DEF CheckAnswers, CheckFails
<1>3. EndedStaysEnded'
  BY <1>2 DEF SessionInv, SessionTypes, EndedStaysEnded, OnlyAt
<1>4. SessionTypes'
  <2>1. /\ requests' = [q \in Request |-> requests'[q]]
        /\ \A q \in Request : /\ Fields(requests'[q])
                              /\ requests'[q].stage \in {"checking", "limit"} => requests'[q].handle \in Handle
    BY <1>1, AcceptedAll, RefusedAll DEF SessionInv, SessionTypes, Waiting
  <2> QED
    BY <1>1, <1>2, <2>1 DEF SessionInv, SessionTypes, OnlyAt
<1>5. over' \subseteq over \cup {h}
  BY <1>2 DEF OnlyAt
<1> QED
  BY <1>1, <1>3, <1>4, <1>5, Answered

LEMMA ExportReply ==
  ASSUME SessionInv, NEW r \in Request, Export(r)
  PROVE  /\ requests' = [q \in Request |-> requests'[q]]
         /\ \A q \in Request \ {r} : requests'[q] = requests[q]
         /\ requests'[r].stage \in {"limited", "served"} /\ Fields(requests'[r])
         /\ requests'[r].kind = requests[r].kind /\ requests'[r].handle = requests[r].handle
         /\ requests'[r].at = now
<1>1. ASSUME NEW reply \in {"limited", "served"}, NEW wait, Replies(r, reply, wait)
      PROVE  requests'[r] = [stage |-> reply, kind |-> requests[r].kind, handle |-> requests[r].handle,
                             check |-> NoSession, authorized |-> FALSE, since |-> 0, at |-> now, wait |-> wait]
  BY <1>1 DEF Replies, Reply, NewRequest, SessionInv, SessionTypes
<1>2. ASSUME NEW reply \in {"limited", "served"}, NEW wait, Replies(r, reply, wait)
      PROVE  /\ requests' = [q \in Request |-> requests'[q]]
             /\ \A q \in Request \ {r} : requests'[q] = requests[q]
  BY <1>2 DEF Replies, SessionInv, SessionTypes
<1>3. \E reply \in {"limited", "served"} : \E wait : Replies(r, reply, wait)
  BY Zenon DEF Export
<1>4. PICK reply \in {"limited", "served"} : \E wait : Replies(r, reply, wait)
  BY <1>3
<1>5. PICK wait : Replies(r, reply, wait)
  BY <1>4
<1>6. requests'[r] = [stage |-> reply, kind |-> requests[r].kind, handle |-> requests[r].handle,
                      check |-> NoSession, authorized |-> FALSE, since |-> 0, at |-> now, wait |-> wait]
  BY <1>1, <1>5
<1>7. /\ requests' = [q \in Request |-> requests'[q]]
      /\ \A q \in Request \ {r} : requests'[q] = requests[q]
  BY <1>2, <1>5
<1>8. /\ requests'[r].stage \in {"limited", "served"} /\ Fields(requests'[r])
      /\ requests'[r].kind = requests[r].kind /\ requests'[r].handle = requests[r].handle
      /\ requests'[r].at = now
  BY <1>6 DEF Fields
<1> QED
  BY <1>7, <1>8

LEMMA ExportStep == ASSUME SessionInv, NEW r \in Request, Export(r) PROVE SessionInv'
<1>1. requests[r].stage = "limit" /\ UNCHANGED <<now, sessions, over, codes>>
  BY DEF Export
<1>2. /\ requests' = [q \in Request |-> requests'[q]]
      /\ \A q \in Request \ {r} : requests'[q] = requests[q]
      /\ requests'[r].stage \in {"limited", "served"} /\ Fields(requests'[r])
      /\ requests'[r].kind = requests[r].kind /\ requests'[r].handle = requests[r].handle
  BY ExportReply
<1>3. SessionTypes'
  BY <1>1, <1>2 DEF SessionInv, SessionTypes
<1>4. PendingOwns' /\ CodeUnused' /\ RedeemsDiffer'
  BY <1>1, <1>2, <1>3, QuietStep DEF Pending
<1> QED
  BY <1>1, <1>3, <1>4 DEF SessionInv, EndedStaysEnded

LEMMA SignOutStep == ASSUME SessionInv, NEW h \in Handle, SignOut(h) PROVE SessionInv'
<1>1. UNCHANGED <<now, codes, requests>> /\ OnlyAt(h) /\ h \in Known
  BY EndedAt DEF SignOut
<1>2. SessionTypes' /\ EndedStaysEnded'
  BY <1>1 DEF SessionInv, SessionTypes, EndedStaysEnded, OnlyAt
<1>3. \A k \in over' \ over : k = h
  BY <1>1 DEF OnlyAt
<1>4. PendingOwns' /\ CodeUnused' /\ RedeemsDiffer'
  BY <1>1, <1>2, <1>3, PendingApart, QuietStep
<1> QED
  BY <1>2, <1>4 DEF SessionInv

LEMMA TimeStep == ASSUME SessionInv, Alarm \/ Tick \/ Membership \/ UNCHANGED sessionVars PROVE SessionInv'
<1>1. /\ UNCHANGED <<sessions, over, requests>> /\ now' \in Nat /\ codes' \in [Handle -> Nat \cup {NoCode}]
      /\ \A h \in Handle : codes'[h] \in {codes[h], NoCode}
  BY DEF Alarm, Tick, Membership, sessionVars, SessionInv, SessionTypes
<1>2. SessionTypes' /\ EndedStaysEnded'
  BY <1>1 DEF SessionInv, SessionTypes, EndedStaysEnded
<1>3. PendingOwns' /\ CodeUnused' /\ RedeemsDiffer'
  BY <1>1, <1>2, QuietStep
<1> QED
  BY <1>2, <1>3 DEF SessionInv

LEMMA SessionKept == SessionInv /\ [SessionNext]_sessionVars => SessionInv'
  BY SignInStep, CreateStep, IssueStep, RedeemStep, AskStep, CheckStep, ExportStep, SignOutStep, TimeStep
  DEF SessionNext

LEMMA SessionInvariant == SessionSpec => []SessionInv
  BY SessionStart, SessionKept, PTL DEF SessionSpec

\* A session that ended by sign-out, by its limits or by a removal stays ended, whatever
\* checks of GitHub were in flight (worker.mjs:108, auth-exchange.mjs:139).
THEOREM SessionsStayEnded == SessionSpec => []EndedStaysEnded
<1>1. SessionInv => EndedStaysEnded
  BY DEF SessionInv
<1> QED
  BY <1>1, SessionInvariant, PTL

\* No two requests redeem one code (auth-exchange.mjs, /exchange/consume).
THEOREM CodesRedeemedOnce == SessionSpec => []RedeemedOnce
<1>1. SessionInv => RedeemedOnce
  <2> SUFFICES ASSUME SessionInv, NEW h \in Handle
               PROVE  Cardinality({r \in Request : requests[r].kind = "redeem" /\ requests[r].handle = h}) <= 1
    BY DEF RedeemedOnce
  <2> DEFINE S == {r \in Request : requests[r].kind = "redeem" /\ requests[r].handle = h}
  <2>1. CASE S = {}
    <3>1. Cardinality(S) = 0
      BY <2>1, FS_EmptySet
    <3> QED
      BY <3>1
  <2>2. CASE S # {}
    <3>1. PICK r \in Request : r \in S
      BY <2>2
    <3>2. S = {r}
      BY <3>1 DEF SessionInv, RedeemsDiffer
    <3>3. Cardinality(S) = 1
      BY <3>2, FS_Singleton
    <3> QED
      BY <3>3
  <2> QED
    BY <2>1, <2>2
<1> QED
  BY <1>1, SessionInvariant, PTL

-----------------------------------------------------------------------------
(* How old an authorization can be.                                         *)
\* Times at which, or at most as long before as a check takes, somebody was a collaborator.
Recent == {x \in Nat : x <= now /\ \E t \in members : t <= x /\ x <= t + CheckTime}

MembersNow == members \subseteq Nat /\ (member => now \in members)
Running ==
  {c \in Request :
     /\ requests[c].stage = "checking" /\ requests[c].check = c
     /\ requests[c].since \in Nat /\ requests[c].since <= now /\ now <= requests[c].since + CheckTime
     /\ requests[c].authorized => requests[c].since \in members}
ChecksRun == \A r \in Request : requests[r].stage = "checking" => requests[r].check \in Running
VerifiedRecently ==
  \A h \in Handle : sessions[h] # NoSession => sessions[h].verified = NoCode \/ sessions[h].verified \in Recent
LimitedRecently ==
  \A r \in Request : requests[r].stage = "limit" =>
    requests[r].kind = "export" /\ requests[r].at = now /\ now \in Recent

RecentInv == MembersNow /\ ChecksRun /\ VerifiedRecently /\ LimitedRecently /\ AccessIsRecent

LEMMA RecentStart == SessionInit => RecentInv
<1> SUFFICES ASSUME SessionInit PROVE RecentInv
  OBVIOUS
<1>1. /\ \A r \in Request : requests[r].stage = "new"
      /\ \A h \in Handle : sessions[h] = NoSession
      /\ members = {0} /\ now = 0
  BY DEF SessionInit, NewRequest
<1> QED
  BY <1>1 DEF RecentInv, MembersNow, ChecksRun, VerifiedRecently, LimitedRecently, AccessIsRecent

\* What is recent stays so, as ticks pass and members come.
LEMMA RecentStays ==
  ASSUME SessionInv, SessionInv', RecentInv, now <= now', members \subseteq members', NEW x \in Recent
  PROVE  x \in Recent'
  BY DEF Recent, SessionInv, SessionTypes

\* The session Get, an end or an answer leaves holds the authorization it had or a recent one.
LEMMA StoredRecently ==
  ASSUME SessionInv, SessionInv', RecentInv, now' = now, members' = members,
         \A h \in Handle : \/ sessions'[h] = NoSession
                           \/ /\ sessions[h] # NoSession
                              /\ sessions'[h].verified = sessions[h].verified
                           \/ sessions'[h].verified = NoCode
                           \/ sessions'[h].verified \in Recent'
  PROVE  VerifiedRecently'
  BY DEF RecentInv, VerifiedRecently, Recent

LEMMA EndedKeeps == ASSUME SessionInv, NEW k \in Handle, Ended(k)
  PROVE \A h \in Handle : sessions'[h] = NoSession \/ (sessions[h] # NoSession /\ sessions'[h].verified = sessions[h].verified)
  BY DEF Ended, SessionInv, SessionTypes

LEMMA GetKeeps == ASSUME SessionInv, NEW k \in Handle, Get(k)
  PROVE \A h \in Handle : sessions'[h] = NoSession \/ (sessions[h] # NoSession /\ sessions'[h].verified = sessions[h].verified)
<1>1. CASE Got(k)
  <2>1. sessions[k] \in Session /\ sessions[k] # NoSession
    BY <1>1 DEF Got, SessionInv, SessionTypes
  <2>2. Touched(sessions[k]).verified = sessions[k].verified
    BY <2>1 DEF Touched, Session
  <2> QED
    BY <1>1, <2>1, <2>2 DEF Get, SessionInv, SessionTypes
<1>2. CASE ~Got(k)
  BY <1>2, EndedKeeps DEF Get, SessionInv, SessionTypes
<1> QED
  BY <1>1, <1>2

\* A request that begins to check waits for a check that runs.
LEMMA BegunRuns ==
  ASSUME SessionInv, SessionInv', RecentInv, NEW r \in Request, NEW kind, NEW h \in Handle,
         requests[r].stage = "new", BeginCheck(r, kind, h), UNCHANGED <<now, member, members>>
  PROVE  ChecksRun'
<1>1. PICK c \in InFlight(h) \cup {r} :
        requests' = [requests EXCEPT ![r] = [NewRequest EXCEPT !.stage = "checking", !.kind = kind, !.handle = h,
                                               !.check = c, !.authorized = member, !.since = now]]
  BY DEF BeginCheck
<1>2. requests'[r] = [stage |-> "checking", kind |-> kind, handle |-> h, check |-> c, authorized |-> member,
                      since |-> now, at |-> 0, wait |-> 0]
  BY <1>1 DEF SessionInv, SessionTypes, NewRequest
<1>3. \A q \in Request \ {r} : requests'[q] = requests[q]
  BY <1>1 DEF SessionInv, SessionTypes
<1>4. c = r => r \in Running'
  BY <1>2, Times DEF Running, SessionInv, SessionTypes, RecentInv, MembersNow
<1>5. \A d \in Request \ {r} : d \in Running => d \in Running'
  BY <1>3 DEF Running
<1>6. \A q \in Request : requests[q].stage = "checking" => requests[q].check # r /\ requests[q].check \in Running
  BY DEF RecentInv, ChecksRun, Running
<1>7. c # r => c \in Running /\ c \in Request \ {r}
  BY <1>6 DEF InFlight
<1>8. requests'[r].check \in Running'
  BY <1>2, <1>4, <1>5, <1>7
<1>9. ASSUME NEW q \in Request \ {r}, requests'[q].stage = "checking" PROVE requests'[q].check \in Running'
  <2>1. requests'[q] = requests[q] /\ requests[q].check \in Request \ {r} /\ requests[q].check \in Running
    BY <1>3, <1>6, <1>9 DEF Running
  <2> QED
    BY <1>5, <2>1
<1> QED
  BY <1>8, <1>9 DEF ChecksRun

\* A step that begins no check and ends none.
LEMMA NoCheckStep ==
  ASSUME SessionInv, SessionInv', RecentInv, UNCHANGED <<now, member, members>>, VerifiedRecently',
         \A q \in Request :
           \/ requests'[q] = requests[q]
           \/ /\ requests[q].stage # "checking" /\ requests'[q].stage \notin {"checking", "limit"}
              /\ requests'[q].stage = "served" /\ requests'[q].kind # "sign-in" =>
                   \E t \in members :
                     /\ t <= requests'[q].at
                     /\ requests'[q].at <= t + CheckTime + (IF Live(requests'[q].kind) THEN 0 ELSE Fresh - 1)
  PROVE  RecentInv'
<1>1. Running \subseteq Running'
  BY DEF Running
<1>2. \A q \in Request : requests'[q].stage = "checking" => requests'[q].check \in Running'
  BY <1>1 DEF RecentInv, ChecksRun
<1>3. ChecksRun'
  BY <1>2 DEF ChecksRun
<1>4. LimitedRecently' /\ MembersNow'
  BY DEF RecentInv, LimitedRecently, MembersNow, Recent
<1>5. AccessIsRecent'
  BY DEF RecentInv, AccessIsRecent
<1> QED
  BY <1>3, <1>4, <1>5 DEF RecentInv

\* A step of one request that begins a check.
LEMMA BegunStep ==
  ASSUME SessionInv, SessionInv', RecentInv, NEW r \in Request, NEW kind, NEW h \in Handle,
         requests[r].stage = "new", BeginCheck(r, kind, h), UNCHANGED <<now, member, members>>, VerifiedRecently'
  PROVE  RecentInv'
<1>1. /\ \A q \in Request \ {r} : requests'[q] = requests[q]
      /\ requests'[r].stage = "checking"
  BY CheckBegun
<1>2. LimitedRecently' /\ MembersNow' /\ AccessIsRecent'
  BY <1>1 DEF RecentInv, LimitedRecently, MembersNow, Recent, AccessIsRecent
<1> QED
  BY <1>2, BegunRuns DEF RecentInv

LEMMA RecentSignIn ==
  ASSUME SessionInv, SessionInv', RecentInv, NEW r \in Request,
         (\E h \in Handle : SignIn(r, h)) \/ CreateSession(r) \/ IssueCode(r)
  PROVE  RecentInv'
<1>1. UNCHANGED <<now, member, members>> /\ requests[r].stage \in {"new", "viewed", "created"}
  BY DEF SignIn, CreateSession, IssueCode
<1>2. /\ \A q \in Request \ {r} : requests'[q] = requests[q]
      /\ requests'[r].stage \notin {"checking", "limit"}
      /\ requests'[r].stage = "served" => requests'[r].kind = "sign-in"
  <2>1. CASE \E h \in Handle : SignIn(r, h)
    <3>1. PICK h \in Handle : SignIn(r, h)
      BY <2>1
    <3>2. \A q \in Request \ {r} : requests'[q] = requests[q]
      BY <3>1 DEF SignIn, SessionInv, SessionTypes
    <3>3. member => requests'[r].stage = "viewed"
      BY <3>1 DEF SignIn, NewRequest, SessionInv, SessionTypes
    <3>4. ~member => requests'[r].stage = "refused"
      BY <3>1 DEF SignIn, Refusal, NewRequest, SessionInv, SessionTypes
    <3> QED
      BY <3>2, <3>3, <3>4
  <2>2. CASE CreateSession(r)
    BY <2>2 DEF CreateSession, SessionInv, SessionTypes, Fields
  <2>3. CASE IssueCode(r)
    <3>1. requests[r].kind = "sign-in" /\ \A q \in Request \ {r} : requests'[q] = requests[q]
      BY <2>3 DEF IssueCode, Replies, SessionInv, SessionTypes, PendingOwns
    <3>2. CASE Replies(r, "served", 0)
      <4>1. requests'[r].stage = "served" /\ requests'[r].kind = requests[r].kind
        BY <3>2 DEF Replies, Reply, NewRequest, SessionInv, SessionTypes
      <4> QED
        BY <3>1, <4>1
    <3>3. CASE requests' = [requests EXCEPT ![r] = Refusal]
      BY <3>1, <3>3, RefusedOne
    <3> QED
      BY <2>3, <3>2, <3>3 DEF IssueCode
  <2> QED
    BY <2>1, <2>2, <2>3
<1>3. \A h \in Handle : sessions'[h] = sessions[h] \/ sessions'[h].verified = NoCode
  <2>1. CASE CreateSession(r)
    BY <2>1 DEF CreateSession, SessionInv, SessionTypes
  <2>2. CASE UNCHANGED sessions
    BY <2>2
  <2> QED
    BY <2>1, <2>2 DEF SignIn, IssueCode
<1>4. VerifiedRecently'
  BY <1>1, <1>3, StoredRecently
<1> QED
  BY <1>1, <1>2, <1>4, NoCheckStep

LEMMA RecentRedeem ==
  ASSUME SessionInv, SessionInv', RecentInv, NEW r \in Request, NEW h \in Handle, Redeem(r, h) PROVE RecentInv'
<1>1. UNCHANGED <<now, member, members>> /\ requests[r].stage = "new"
  BY DEF Redeem
<1>2. Get(h) \/ UNCHANGED sessions
  BY DEF Redeem
<1>3. VerifiedRecently'
  BY <1>1, <1>2, GetKeeps, StoredRecently
<1>4. CASE requests' = [requests EXCEPT ![r] = Refusal]
  BY <1>1, <1>3, <1>4, RefusedOne, NoCheckStep
<1>5. CASE BeginCheck(r, "redeem", h)
  BY <1>1, <1>3, <1>5, BegunStep
<1> QED
  BY <1>4, <1>5 DEF Redeem

LEMMA RecentAsk ==
  ASSUME SessionInv, SessionInv', RecentInv, NEW r \in Request, NEW h \in Handle, NEW kind \in Kind, Ask(r, kind, h)
  PROVE  RecentInv'
<1>1. UNCHANGED <<now, member, members>> /\ requests[r].stage = "new" /\ Get(h)
  BY DEF Ask
<1>2. VerifiedRecently'
  BY <1>1, GetKeeps, StoredRecently
<1>3. CASE requests' = [requests EXCEPT ![r] = Refusal]
  BY <1>1, <1>2, <1>3, RefusedOne, NoCheckStep
<1>4. CASE BeginCheck(r, kind, h)
  BY <1>1, <1>2, <1>4, BegunStep
<1>5. CASE /\ Got(h) /\ ~Live(kind) /\ FreshEnough(h)
           /\ requests' = [requests EXCEPT ![r] = [NewRequest EXCEPT !.stage = "served", !.kind = kind,
                                                     !.handle = h, !.at = now]]
  <2>1. requests'[r] = [stage |-> "served", kind |-> kind, handle |-> h, check |-> NoSession, authorized |-> FALSE,
                        since |-> 0, at |-> now, wait |-> 0]
    BY <1>5 DEF NewRequest, SessionInv, SessionTypes
  <2>2. \A q \in Request \ {r} : requests'[q] = requests[q]
    BY <1>5 DEF SessionInv, SessionTypes
  <2>3. sessions[h].verified \in Recent /\ now < sessions[h].verified + Fresh
    BY <1>5 DEF Got, FreshEnough, RecentInv, VerifiedRecently
  <2>4. \E t \in members : t <= now /\ now <= t + CheckTime + (Fresh - 1)
    BY <2>3, Times DEF Recent, RecentInv, MembersNow, SessionInv, SessionTypes
  <2> QED
    BY <1>1, <1>2, <1>5, <2>1, <2>2, <2>4, NoCheckStep
<1> QED
  BY <1>3, <1>4, <1>5 DEF Ask

\* The answer of a check that runs: its requests are served now, at most CheckTime after it
\* saw a collaborator, and the checks other requests wait for run on.
LEMMA RecentChecks ==
  ASSUME SessionInv, SessionInv', RecentInv, NEW c \in Request, CheckAnswers(c) \/ CheckFails(c)
  PROVE  RecentInv'
<1>1. /\ c \in Waiting(c) /\ UNCHANGED <<now, member, members>>
      /\ requests[c].stage = "checking" /\ requests[c].check = c /\ c \in Running
  BY DEF CheckAnswers, CheckFails, Waiting, RecentInv, ChecksRun
<1>2. requests[c].authorized => now \in Recent
  BY <1>1 DEF Running, Recent, SessionInv, SessionTypes
<1>3. Running \ {c} \subseteq Running'
  <2> SUFFICES ASSUME NEW d \in Running, d # c PROVE d \in Running'
    OBVIOUS
  <2>1. d \notin Waiting(c)
    BY DEF Running, Waiting
  <2>2. requests'[d] = requests[d]
    BY <2>1, AcceptedAll, RefusedAll DEF CheckAnswers, CheckFails, Running
  <2> QED
    BY <1>1, <2>2 DEF Running
<1>4. \A q \in Request \ Waiting(c) :
        requests'[q] = requests[q] /\ (requests[q].stage = "checking" => requests[q].check # c)
  BY AcceptedAll, RefusedAll DEF CheckAnswers, CheckFails, Waiting
<1>5. \A q \in Waiting(c) :
        \/ requests'[q].stage = "refused"
        \/ /\ requests[c].authorized /\ requests'[q].at = now
           /\ requests'[q].stage = "limit" => requests'[q].kind = "export"
           /\ requests'[q].stage \in {"limit", "served"}
  <2>1. CASE Refused(c)
    BY <2>1, RefusedAll
  <2>2. CASE Accepted(c) /\ requests[c].authorized
    BY <2>2 DEF Accepted, Reply, Waiting, NewRequest, SessionInv, SessionTypes
  <2> QED
    BY <2>1, <2>2 DEF CheckAnswers, CheckFails
<1>6. ChecksRun'
  <2> SUFFICES ASSUME NEW q \in Request, requests'[q].stage = "checking" PROVE requests'[q].check \in Running'
    BY DEF ChecksRun
  <2>1. requests'[q] = requests[q] /\ requests[q].check # c
    BY <1>4, <1>5
  <2> QED
    BY <1>3, <2>1 DEF RecentInv, ChecksRun
<1>7. \A h \in Handle : \/ sessions'[h] = NoSession
                        \/ sessions[h] # NoSession /\ sessions'[h].verified = sessions[h].verified
                        \/ requests[c].authorized /\ sessions'[h].verified = now
  <2>1. CASE UNCHANGED sessions
    BY <2>1
  <2>2. CASE Ended(requests[c].handle)
    <3>1. requests[c].handle \in Handle
      BY <1>1 DEF SessionInv, SessionTypes
    <3> QED
      BY <2>2, <3>1, EndedKeeps
  <2>3. CASE Stores(requests[c].handle) /\ requests[c].authorized
    BY <2>3 DEF Stores, SessionInv, SessionTypes, Session
  <2> QED
    BY <2>1, <2>2, <2>3 DEF CheckAnswers, CheckFails
<1>8. Recent' = Recent
  BY <1>1 DEF Recent
<1>9. VerifiedRecently'
  BY <1>1, <1>2, <1>7, <1>8, StoredRecently
<1>10. LimitedRecently' /\ MembersNow'
  BY <1>1, <1>2, <1>4, <1>5, <1>8 DEF RecentInv, LimitedRecently, MembersNow
<1>11. AccessIsRecent'
  <2> SUFFICES ASSUME NEW q \in Request, requests'[q].stage = "served", requests'[q].kind # "sign-in"
               PROVE  \E t \in members :
                        /\ t <= requests'[q].at
                        /\ requests'[q].at <= t + CheckTime + (IF Live(requests'[q].kind) THEN 0 ELSE Fresh - 1)
    BY <1>1 DEF AccessIsRecent
  <2>1. CASE q \notin Waiting(c)
    BY <1>4, <2>1 DEF RecentInv, AccessIsRecent
  <2>2. CASE q \in Waiting(c)
    <3>1. requests'[q].at = now /\ now \in Recent
      BY <1>2, <1>5, <2>2
    <3>2. \E t \in members : t <= now /\ now <= t + CheckTime + 0 /\ now <= t + CheckTime + (Fresh - 1)
      BY <3>1, SessionAssumption DEF Recent, RecentInv, MembersNow
    <3> QED
      BY <3>1, <3>2
  <2> QED
    BY <2>1, <2>2
<1> QED
  BY <1>6, <1>9, <1>10, <1>11 DEF RecentInv

LEMMA RecentExport == ASSUME SessionInv, SessionInv', RecentInv, NEW r \in Request, Export(r) PROVE RecentInv'
<1>1. /\ requests[r].stage = "limit" /\ UNCHANGED <<now, member, members, sessions>>
      /\ requests[r].kind = "export" /\ now \in Nat
  BY DEF Export, RecentInv, LimitedRecently, SessionInv, SessionTypes
<1>2. /\ \A q \in Request \ {r} : requests'[q] = requests[q]
      /\ requests'[r].stage \in {"limited", "served"} /\ requests'[r].kind = "export" /\ requests'[r].at = now
  BY <1>1, ExportReply
<1>3. VerifiedRecently'
  BY <1>1, StoredRecently DEF RecentInv, VerifiedRecently
<1>4. \E t \in members : t <= now /\ now <= t + CheckTime + 0
  <2>1. now \in Recent
    BY <1>1 DEF RecentInv, LimitedRecently
  <2>2. PICK t \in members : t <= now /\ now <= t + CheckTime
    BY <2>1 DEF Recent
  <2>3. t \in Nat /\ CheckTime \in Nat
    BY SessionAssumption DEF RecentInv, MembersNow
  <2>4. now <= t + CheckTime + 0
    BY <2>2, <2>3, <1>1
  <2> QED
    BY <2>2, <2>4
<1> QED
  BY <1>1, <1>2, <1>3, <1>4, NoCheckStep DEF Live

LEMMA RecentSignOut ==
  ASSUME SessionInv, SessionInv', RecentInv, (\E h \in Handle : SignOut(h)) \/ Alarm \/ UNCHANGED sessionVars
  PROVE  RecentInv'
<1>1. UNCHANGED <<now, member, members, requests>>
  BY DEF SignOut, Alarm, sessionVars
<1>2. \A h \in Handle : sessions'[h] = NoSession \/ (sessions[h] # NoSession /\ sessions'[h].verified = sessions[h].verified)
  BY EndedKeeps DEF SignOut, Alarm, sessionVars
<1>3. VerifiedRecently'
  BY <1>1, <1>2, StoredRecently
<1> QED
  BY <1>1, <1>3, NoCheckStep

\* No check outlives its time as the clock goes on, and nothing recent is forgotten.
LEMMA RecentTime == ASSUME SessionInv, SessionInv', RecentInv, Tick \/ Membership PROVE RecentInv'
<1>1. /\ UNCHANGED <<sessions, requests>> /\ now \in Nat /\ now' \in Nat /\ now <= now'
      /\ members \subseteq members' /\ MembersNow'
      /\ \A r \in Request : requests[r].stage = "limit" => now' = now
  BY DEF Tick, Membership, SessionInv, SessionTypes, RecentInv, MembersNow
<1>2. Recent \subseteq Recent'
  BY <1>1, RecentStays
<1>3. ASSUME NEW r \in Request, requests[r].stage = "checking" PROVE requests[r].check \in Running'
  <2> DEFINE c == requests[r].check
  <2>1. c \in Running
    BY <1>3 DEF RecentInv, ChecksRun
  <2>2. now' <= requests[c].since + CheckTime
    <3>1. requests[c].since \in Nat /\ CheckTime \in Nat /\ now <= requests[c].since + CheckTime
      BY <2>1, Times DEF Running
    <3>2. CASE Tick
      <4>1. now < requests[c].since + CheckTime /\ now' = now + 1
        BY <1>3, <3>2 DEF Tick
      <4> QED
        BY <1>1, <3>1, <4>1
    <3>3. CASE Membership
      BY <3>1, <3>3 DEF Membership
    <3> QED
      BY <3>2, <3>3
  <2> QED
    BY <1>1, <2>1, <2>2 DEF Running
<1>4. ChecksRun'
  BY <1>1, <1>3 DEF ChecksRun
<1>5. VerifiedRecently' /\ LimitedRecently' /\ AccessIsRecent'
  BY <1>1, <1>2 DEF RecentInv, VerifiedRecently, LimitedRecently, AccessIsRecent
<1> QED
  BY <1>1, <1>4, <1>5 DEF RecentInv

\* A collaborator was there at most one check before a write, an export or a redeemed code
\* is served, and at most the cache's age more before a read (worker.mjs:108, auth-routes.mjs:5).
THEOREM AccessFollowsMembership == SessionSpec => []AccessIsRecent
<1>1. SessionInv /\ SessionInv' /\ RecentInv /\ [SessionNext]_sessionVars => RecentInv'
  BY RecentSignIn, RecentRedeem, RecentAsk, RecentChecks, RecentExport, RecentSignOut, RecentTime DEF SessionNext
<1>2. RecentInv => AccessIsRecent
  BY DEF RecentInv
<1> QED
  BY <1>1, <1>2, RecentStart, SessionInvariant, PTL DEF SessionSpec
-----------------------------------------------------------------------------
(* How long a session serves.  A request waits for a check of its own       *)
(* session, and no check of a session that signed in was begun after the    *)
(* life its sign-in gave it.                                                *)
SignedIn(q) == requests[q].stage = "served" /\ requests[q].kind = "sign-in"
Enough(q) == requests[q].at + Absolute
ChecksOfSame ==
  \A r \in Request : requests[r].stage = "checking" =>
    requests[requests[r].check].handle = requests[r].handle /\ requests[r].kind # "sign-in"
AbsoluteAhead == \A h \in Handle : sessions[h] # NoSession => sessions[h].absolute <= now + Absolute
InTime(q) ==
  /\ requests[q].at \in Nat /\ requests[q].handle \in Handle
  /\ sessions[requests[q].handle] # NoSession => sessions[requests[q].handle].absolute <= Enough(q)
  /\ \A r \in Request : requests[r].handle = requests[q].handle =>
       /\ requests[r].stage = "checking" /\ requests[r].check = r => requests[r].since < Enough(q)
       /\ \/ requests[r].stage = "limit"
          \/ requests[r].stage = "served" /\ requests[r].kind # "sign-in"
          => requests[r].at < Enough(q) + CheckTime
LifeInv == ChecksOfSame /\ AbsoluteAhead /\ \A q \in Request : SignedIn(q) => InTime(q)

LEMMA LifeStart == SessionInit => LifeInv
<1> SUFFICES ASSUME SessionInit PROVE LifeInv
  OBVIOUS
<1>1. /\ \A r \in Request : requests[r].stage = "new"
      /\ \A h \in Handle : sessions[h] = NoSession
  BY DEF SessionInit, NewRequest
<1> QED
  BY <1>1 DEF LifeInv, ChecksOfSame, AbsoluteAhead, SignedIn

\* A step in which nobody signs in and whatever changed is in time.
LEMMA LifeKept ==
  ASSUME SessionInv, SessionInv', LifeInv, now <= now', ChecksOfSame',
         \A h \in Handle : \/ sessions'[h] = NoSession
                           \/ sessions[h] # NoSession /\ sessions'[h].absolute = sessions[h].absolute,
         \A r \in Request :
           \/ requests'[r] = requests[r]
           \/ /\ requests'[r].stage = "served" => requests'[r].kind # "sign-in"
              /\ \A q \in Request : SignedIn(q) /\ requests'[r].handle = requests[q].handle =>
                   /\ requests'[r].stage = "checking" /\ requests'[r].check = r => requests'[r].since < Enough(q)
                   /\ requests'[r].stage \in {"limit", "served"} => requests'[r].at < Enough(q) + CheckTime
  PROVE  LifeInv'
<1>1. now \in Nat /\ now' \in Nat /\ Absolute \in Nat
  BY Times DEF SessionInv, SessionTypes
<1>2. AbsoluteAhead'
  <2> SUFFICES ASSUME NEW h \in Handle, sessions'[h] # NoSession
               PROVE  sessions'[h].absolute <= now' + Absolute
    BY DEF AbsoluteAhead
  <2>1. sessions[h] # NoSession /\ sessions'[h].absolute = sessions[h].absolute
    OBVIOUS
  <2>2. sessions[h].absolute \in Nat
    BY <2>1 DEF SessionInv, SessionTypes, Session
  <2>3. sessions[h].absolute <= now + Absolute
    BY <2>1 DEF LifeInv, AbsoluteAhead
  <2> QED
    BY <1>1, <2>1, <2>2, <2>3
<1>3. ASSUME NEW q \in Request, SignedIn(q)' PROVE InTime(q)'
  <2>1. requests'[q] = requests[q] /\ SignedIn(q)
    BY <1>3 DEF SignedIn
  <2>2. InTime(q)
    BY <2>1 DEF LifeInv
  <2>3. Enough(q)' = Enough(q)
    BY <2>1 DEF Enough
  <2>4. ASSUME NEW r \in Request, requests'[r].handle = requests[q].handle
        PROVE  /\ requests'[r].stage = "checking" /\ requests'[r].check = r => requests'[r].since < Enough(q)
               /\ \/ requests'[r].stage = "limit"
                  \/ requests'[r].stage = "served" /\ requests'[r].kind # "sign-in"
                  => requests'[r].at < Enough(q) + CheckTime
    BY <2>1, <2>2, <2>4 DEF InTime, SignedIn
  <2> QED
    BY <2>1, <2>2, <2>3, <2>4 DEF InTime
<1> QED
  BY <1>2, <1>3 DEF LifeInv

\* The checks others wait for stay when no request begins or ends one.
LEMMA SameKept ==
  ASSUME RecentInv, LifeInv,
         \A r \in Request : \/ requests'[r] = requests[r]
                            \/ requests[r].stage # "checking" /\ requests'[r].stage # "checking"
  PROVE  ChecksOfSame'
  BY DEF RecentInv, ChecksRun, Running, LifeInv, ChecksOfSame

LEMMA EndedLife == ASSUME SessionInv, NEW k \in Handle, Ended(k)
  PROVE \A h \in Handle : \/ sessions'[h] = NoSession
                          \/ sessions[h] # NoSession /\ sessions'[h].absolute = sessions[h].absolute
  BY DEF Ended, SessionInv, SessionTypes

LEMMA GetLife == ASSUME SessionInv, NEW k \in Handle, Get(k)
  PROVE \A h \in Handle : \/ sessions'[h] = NoSession
                          \/ sessions[h] # NoSession /\ sessions'[h].absolute = sessions[h].absolute
<1>1. CASE Got(k)
  <2>1. sessions[k] \in Session /\ sessions[k] # NoSession
    BY <1>1 DEF Got, SessionInv, SessionTypes
  <2>2. Touched(sessions[k]).absolute = sessions[k].absolute
    BY <2>1 DEF Touched, Session
  <2> QED
    BY <1>1, <2>1, <2>2 DEF Get, SessionInv, SessionTypes
<1>2. CASE ~Got(k)
  BY <1>2, EndedLife DEF Get, SessionInv, SessionTypes
<1> QED
  BY <1>1, <1>2

LEMMA LifeSignIn == ASSUME SessionInv, SessionInv', RecentInv, LifeInv, NEW r \in Request, NEW h \in Handle,
                           SignIn(r, h) PROVE LifeInv'
<1>1. UNCHANGED <<now, sessions>> /\ requests[r].stage = "new" /\ now \in Nat
  BY DEF SignIn, SessionInv, SessionTypes
<1>2. \A q \in Request \ {r} : requests'[q] = requests[q]
  BY DEF SignIn, SessionInv, SessionTypes
<1>3. requests'[r].stage \in {"viewed", "refused"}
  BY DEF SignIn, NewRequest, Refusal, SessionInv, SessionTypes
<1>4. ChecksOfSame'
  BY <1>1, <1>2, <1>3, SameKept
<1> QED
  BY <1>1, <1>2, <1>3, <1>4, LifeKept

LEMMA LifeCreate == ASSUME SessionInv, SessionInv', RecentInv, LifeInv, NEW r \in Request,
                           CreateSession(r) PROVE LifeInv'
<1> DEFINE h == requests[r].handle
<1>1. /\ now' = now /\ requests[r].stage = "viewed" /\ h \in Handle /\ now \in Nat
      /\ \A q \in Request \ {r} : requests[q].handle # h
  BY DEF CreateSession, SessionInv, SessionTypes, PendingOwns
<1>2. /\ \A q \in Request \ {r} : requests'[q] = requests[q]
      /\ requests'[r].stage = "created"
  BY DEF CreateSession, SessionInv, SessionTypes, Fields
<1>3. /\ sessions'[h].absolute = now + Absolute /\ \A k \in Handle \ {h} : sessions'[k] = sessions[k]
  BY <1>1 DEF CreateSession, SessionInv, SessionTypes
<1>4. ChecksOfSame'
  BY <1>1, <1>2, SameKept
<1>5. AbsoluteAhead'
  BY <1>1, <1>3, Times DEF LifeInv, AbsoluteAhead
<1>6. ASSUME NEW q \in Request, SignedIn(q)' PROVE InTime(q)'
  <2>1. q # r /\ requests'[q] = requests[q] /\ SignedIn(q)
    BY <1>2, <1>6 DEF SignedIn
  <2>2. InTime(q) /\ requests[q].handle # h
    BY <1>1, <2>1 DEF LifeInv
  <2> QED
    BY <1>2, <1>3, <2>1, <2>2 DEF InTime, SignedIn, Enough
<1> QED
  BY <1>4, <1>5, <1>6 DEF LifeInv

LEMMA LifeIssue == ASSUME SessionInv, SessionInv', RecentInv, LifeInv, NEW r \in Request,
                          IssueCode(r) PROVE LifeInv'
<1> DEFINE h == requests[r].handle
<1>1. /\ UNCHANGED <<now, sessions>> /\ requests[r].stage = "created" /\ h \in Handle /\ now \in Nat
      /\ requests[r].kind = "sign-in" /\ \A q \in Request \ {r} : requests[q].handle # h
  BY DEF IssueCode, SessionInv, SessionTypes, PendingOwns
<1>2. \A q \in Request \ {r} : requests'[q] = requests[q]
  BY DEF IssueCode, Replies, SessionInv, SessionTypes
<1>3. CASE Replies(r, "served", 0)
  <2>1. requests'[r].stage = "served" /\ requests'[r].kind = "sign-in" /\ requests'[r].handle = h
        /\ requests'[r].at = now
    BY <1>1, <1>3 DEF Replies, Reply, NewRequest, SessionInv, SessionTypes
  <2>2. ChecksOfSame'
    BY <1>1, <1>2, <2>1, SameKept
  <2>3. ASSUME NEW q \in Request, SignedIn(q)' PROVE InTime(q)'
    <3>1. CASE q = r
      <4>1. sessions[h] # NoSession => sessions[h].absolute <= now + Absolute
        BY <1>1 DEF LifeInv, AbsoluteAhead
      <4> QED
        BY <1>1, <1>2, <2>1, <3>1, <4>1 DEF InTime, SignedIn, Enough
    <3>2. CASE q # r
      <4>1. requests'[q] = requests[q] /\ SignedIn(q)
        BY <1>2, <2>3, <3>2 DEF SignedIn
      <4>2. InTime(q) /\ requests[q].handle # h
        BY <1>1, <3>2, <4>1 DEF LifeInv
      <4> QED
        BY <1>1, <1>2, <2>1, <4>1, <4>2 DEF InTime, SignedIn, Enough
    <3> QED
      BY <3>1, <3>2
  <2> QED
    BY <1>1, <2>2, <2>3 DEF LifeInv, AbsoluteAhead
<1>4. CASE requests' = [requests EXCEPT ![r] = Refusal]
  <2>1. requests'[r].stage = "refused"
    BY <1>4, RefusedOne
  <2>2. ChecksOfSame'
    BY <1>1, <1>2, <2>1, SameKept
  <2> QED
    BY <1>1, <1>2, <2>1, <2>2, LifeKept
<1> QED
  BY <1>3, <1>4 DEF IssueCode

\* A request that goes on from a session within its life.
LEMMA LifeBegun ==
  ASSUME SessionInv, SessionInv', RecentInv, LifeInv, NEW r \in Request, NEW kind, NEW h \in Handle,
         requests[r].stage = "new", kind # "sign-in", Got(h), Get(h), BeginCheck(r, kind, h), now' = now
  PROVE  LifeInv'
<1>1. /\ \A q \in Request \ {r} : requests'[q] = requests[q]
      /\ requests'[r].stage = "checking" /\ requests'[r].handle = h /\ requests'[r].kind # "sign-in"
  BY CheckBegun
<1>2. PICK c \in InFlight(h) \cup {r} :
        requests' = [requests EXCEPT ![r] = [NewRequest EXCEPT !.stage = "checking", !.kind = kind, !.handle = h,
                                               !.check = c, !.authorized = member, !.since = now]]
  BY DEF BeginCheck
<1>3. requests'[r].check = c /\ requests'[r].since = now
  BY <1>2 DEF SessionInv, SessionTypes, NewRequest
<1>4. requests'[c].handle = h
  BY <1>1 DEF InFlight
<1>5. \A q \in Request : requests[q].stage = "checking" => requests[q].check \in Request \ {r}
  BY DEF RecentInv, ChecksRun, Running
<1>6. ChecksOfSame'
  <2> SUFFICES ASSUME NEW q \in Request, requests'[q].stage = "checking"
               PROVE  /\ requests'[requests'[q].check].handle = requests'[q].handle
                      /\ requests'[q].kind # "sign-in"
    BY DEF ChecksOfSame
  <2>1. CASE q = r
    BY <1>1, <1>3, <1>4, <2>1
  <2>2. CASE q # r
    BY <1>1, <1>5, <2>2 DEF LifeInv, ChecksOfSame
  <2> QED
    BY <2>1, <2>2
<1>7. ASSUME NEW q \in Request, SignedIn(q), requests[q].handle = h PROVE now < Enough(q)
  <2>1. sessions[h] # NoSession /\ sessions[h] \in Session /\ now < sessions[h].absolute
    BY DEF Got, Expired, SessionInv, SessionTypes, Session
  <2>2. InTime(q)
    BY <1>7 DEF LifeInv
  <2>3. sessions[h].absolute <= Enough(q) /\ requests[q].at \in Nat
    BY <1>7, <2>1, <2>2 DEF InTime
  <2> QED
    BY <2>1, <2>3, Times DEF Enough, Session, SessionInv, SessionTypes
<1> QED
  BY <1>1, <1>3, <1>6, <1>7, GetLife, LifeKept DEF SessionInv, SessionTypes

LEMMA LifeRedeem == ASSUME SessionInv, SessionInv', RecentInv, LifeInv, NEW r \in Request, NEW h \in Handle,
                           Redeem(r, h) PROVE LifeInv'
<1>1. /\ requests[r].stage = "new" /\ now' = now /\ now \in Nat
      /\ Get(h) \/ UNCHANGED <<sessions, over>>
  BY DEF Redeem, SessionInv, SessionTypes
<1>2. \A k \in Handle : \/ sessions'[k] = NoSession
                        \/ sessions[k] # NoSession /\ sessions'[k].absolute = sessions[k].absolute
  BY <1>1, GetLife
<1>3. CASE requests' = [requests EXCEPT ![r] = Refusal]
  <2>1. requests'[r].stage = "refused" /\ \A q \in Request \ {r} : requests'[q] = requests[q]
    BY <1>3, RefusedOne
  <2>2. ChecksOfSame'
    BY <1>1, <2>1, SameKept
  <2> QED
    BY <1>1, <1>2, <2>1, <2>2, LifeKept
<1>4. CASE BeginCheck(r, "redeem", h) /\ Got(h) /\ Get(h)
  BY <1>1, <1>4, LifeBegun
<1> QED
  BY <1>3, <1>4 DEF Redeem

LEMMA LifeAsk == ASSUME SessionInv, SessionInv', RecentInv, LifeInv, NEW r \in Request, NEW h \in Handle,
                        NEW kind \in Kind, Ask(r, kind, h) PROVE LifeInv'
<1>1. requests[r].stage = "new" /\ now' = now /\ now \in Nat /\ Get(h) /\ kind # "sign-in"
  BY DEF Ask, SessionInv, SessionTypes
<1>2. \A k \in Handle : \/ sessions'[k] = NoSession
                        \/ sessions[k] # NoSession /\ sessions'[k].absolute = sessions[k].absolute
  BY <1>1, GetLife
<1>3. CASE requests' = [requests EXCEPT ![r] = Refusal]
  <2>1. requests'[r].stage = "refused" /\ \A q \in Request \ {r} : requests'[q] = requests[q]
    BY <1>3, RefusedOne
  <2>2. ChecksOfSame'
    BY <1>1, <2>1, SameKept
  <2> QED
    BY <1>1, <1>2, <2>1, <2>2, LifeKept
<1>4. CASE BeginCheck(r, kind, h) /\ Got(h)
  BY <1>1, <1>4, LifeBegun
<1>5. CASE /\ Got(h)
           /\ requests' = [requests EXCEPT ![r] = [NewRequest EXCEPT !.stage = "served", !.kind = kind,
                                                     !.handle = h, !.at = now]]
  <2>1. /\ requests'[r].stage = "served" /\ requests'[r].kind = kind /\ requests'[r].handle = h
        /\ requests'[r].at = now
    BY <1>5 DEF NewRequest, SessionInv, SessionTypes
  <2>2. \A q \in Request \ {r} : requests'[q] = requests[q]
    BY <1>5 DEF SessionInv, SessionTypes
  <2>3. ChecksOfSame'
    BY <1>1, <2>1, <2>2, SameKept
  <2>4. ASSUME NEW q \in Request, SignedIn(q), requests[q].handle = h
        PROVE  now < Enough(q) + CheckTime
    <3>1. sessions[h] # NoSession /\ sessions[h] \in Session /\ now < sessions[h].absolute
      BY <1>5 DEF Got, Expired, SessionInv, SessionTypes, Session
    <3>2. InTime(q)
      BY <2>4 DEF LifeInv
    <3>3. sessions[h].absolute <= Enough(q) /\ requests[q].at \in Nat
      BY <2>4, <3>1, <3>2 DEF InTime
    <3> QED
      BY <1>1, <3>1, <3>3, Times DEF Enough, Session
  <2> QED
    BY <1>1, <1>2, <2>1, <2>2, <2>3, <2>4, LifeKept
<1> QED
  BY <1>1, <1>3, <1>4, <1>5 DEF Ask

\* An answer comes no later than the check of a session of its time allows.
LEMMA LifeChecks ==
  ASSUME SessionInv, SessionInv', RecentInv, LifeInv, NEW c \in Request, CheckAnswers(c) \/ CheckFails(c)
  PROVE  LifeInv'
<1> DEFINE h == requests[c].handle
<1>1. /\ now' = now /\ now \in Nat /\ c \in Waiting(c) /\ c \in Running /\ h \in Handle
      /\ requests[c].stage = "checking" /\ requests[c].check = c
  BY DEF CheckAnswers, CheckFails, Waiting, RecentInv, ChecksRun, SessionInv, SessionTypes
<1>2. \A k \in Handle : \/ sessions'[k] = NoSession
                        \/ sessions[k] # NoSession /\ sessions'[k].absolute = sessions[k].absolute
  <2>1. CASE Ended(h)
    BY <1>1, <2>1, EndedLife
  <2>2. CASE Stores(h)
    BY <1>1, <2>2 DEF Stores, SessionInv, SessionTypes, Session
  <2>3. CASE UNCHANGED sessions
    BY <2>3
  <2> QED
    BY <2>1, <2>2, <2>3 DEF CheckAnswers, CheckFails
<1>3. \A q \in Request \ Waiting(c) :
        requests'[q] = requests[q] /\ (requests[q].stage = "checking" => requests[q].check # c)
  BY AcceptedAll, RefusedAll DEF CheckAnswers, CheckFails, Waiting
<1>4. \A q \in Waiting(c) :
        /\ requests'[q].stage \in {"refused", "limit", "served"}
        /\ requests[q].handle = h /\ requests[q].stage = "checking"
        /\ requests'[q].stage \in {"limit", "served"} =>
             /\ requests'[q].kind = requests[q].kind /\ requests'[q].handle = requests[q].handle
             /\ requests'[q].at = now
  <2>1. \A q \in Waiting(c) : requests[q].handle = h /\ requests[q].stage = "checking"
    BY DEF Waiting, LifeInv, ChecksOfSame
  <2>2. CASE Refused(c)
    BY <2>1, <2>2, RefusedAll
  <2>3. CASE Accepted(c)
    <3>1. \A q \in Waiting(c) :
            /\ requests'[q].stage \in {"limit", "served"} /\ requests'[q].at = now
            /\ requests'[q].kind = requests[q].kind /\ requests'[q].handle = requests[q].handle
      BY <2>3 DEF Accepted, Reply, Waiting, NewRequest, SessionInv, SessionTypes
    <3> QED
      BY <2>1, <3>1
  <2> QED
    BY <2>2, <2>3 DEF CheckAnswers, CheckFails
<1>5. \A q \in Waiting(c) : requests'[q].stage = "served" => requests'[q].kind # "sign-in"
  <2>1. \A q \in Request : requests[q].stage = "checking" => requests[q].kind # "sign-in"
    BY DEF LifeInv, ChecksOfSame
  <2> QED
    BY <1>4, <2>1 DEF Waiting
<1>6. ChecksOfSame'
  <2> SUFFICES ASSUME NEW q \in Request, requests'[q].stage = "checking"
               PROVE  /\ requests'[requests'[q].check].handle = requests'[q].handle
                      /\ requests'[q].kind # "sign-in"
    BY DEF ChecksOfSame
  <2>1. q \notin Waiting(c) /\ requests'[q] = requests[q] /\ requests[q].check # c
    BY <1>3, <1>4
  <2>2. requests[q].check \in Running
    BY <2>1 DEF RecentInv, ChecksRun
  <2>3. requests[q].check \in Request \ Waiting(c)
    BY <2>1, <2>2 DEF Running, Waiting
  <2>4. requests[requests[q].check].handle = requests[q].handle /\ requests[q].kind # "sign-in"
    BY <2>1 DEF LifeInv, ChecksOfSame
  <2> QED
    BY <1>3, <2>1, <2>3, <2>4
<1>7. ASSUME NEW q \in Request, SignedIn(q), requests[q].handle = h
      PROVE  now < Enough(q) + CheckTime
  <2>1. InTime(q)
    BY <1>7 DEF LifeInv
  <2>2. requests[c].since < Enough(q) /\ requests[q].at \in Nat
    BY <1>1, <1>7, <2>1 DEF InTime
  <2>3. now <= requests[c].since + CheckTime /\ requests[c].since \in Nat
    BY <1>1 DEF Running
  <2> QED
    BY <1>1, <2>2, <2>3, Times DEF Enough
<1> QED
  BY <1>1, <1>2, <1>3, <1>4, <1>5, <1>6, <1>7, LifeKept

LEMMA LifeExport == ASSUME SessionInv, SessionInv', RecentInv, LifeInv, NEW r \in Request, Export(r) PROVE LifeInv'
<1>1. /\ requests[r].stage = "limit" /\ UNCHANGED <<now, sessions>> /\ now \in Nat
      /\ requests[r].kind = "export" /\ requests[r].at = now
  BY DEF Export, RecentInv, LimitedRecently, SessionInv, SessionTypes
<1>2. /\ \A q \in Request \ {r} : requests'[q] = requests[q]
      /\ requests'[r].stage \in {"limited", "served"} /\ requests'[r].kind = "export" /\ requests'[r].at = now
      /\ requests'[r].handle = requests[r].handle
  BY <1>1, ExportReply
<1>3. ChecksOfSame'
  BY <1>1, <1>2, SameKept
<1>4. \A q \in Request : SignedIn(q) /\ requests[r].handle = requests[q].handle
                         => now < Enough(q) + CheckTime
  BY <1>1 DEF LifeInv, InTime
<1> QED
  BY <1>1, <1>2, <1>3, <1>4, LifeKept

LEMMA LifeQuiet ==
  ASSUME SessionInv, SessionInv', RecentInv, LifeInv,
         (\E h \in Handle : SignOut(h)) \/ Alarm \/ Tick \/ Membership \/ UNCHANGED sessionVars
  PROVE  LifeInv'
<1>1. requests' = requests /\ now \in Nat /\ now <= now'
  BY DEF SignOut, Alarm, Tick, Membership, sessionVars, SessionInv, SessionTypes
<1>2. \A k \in Handle : \/ sessions'[k] = NoSession
                        \/ sessions[k] # NoSession /\ sessions'[k].absolute = sessions[k].absolute
  BY EndedLife DEF SignOut, Alarm, Tick, Membership, sessionVars
<1>3. ChecksOfSame'
  BY <1>1, SameKept
<1> QED
  BY <1>1, <1>2, <1>3, LifeKept

LEMMA RecentKept == SessionInv /\ SessionInv' /\ RecentInv /\ [SessionNext]_sessionVars => RecentInv'
  BY RecentSignIn, RecentRedeem, RecentAsk, RecentChecks, RecentExport, RecentSignOut, RecentTime DEF SessionNext

\* Requests that keep coming, of whatever kind and with whatever checks shared, do not carry a
\* session past the life its sign-in gave it (auth-exchange.mjs, /session/get).
THEOREM SessionsDoEnd == SessionSpec => []SessionsEnd
<1>1. SessionInv /\ SessionInv' /\ RecentInv /\ LifeInv /\ [SessionNext]_sessionVars => LifeInv'
  BY LifeSignIn, LifeCreate, LifeIssue, LifeRedeem, LifeAsk, LifeChecks, LifeExport, LifeQuiet DEF SessionNext
<1>2. SessionInv /\ LifeInv => SessionsEnd
  <2> SUFFICES ASSUME LifeInv, SessionInv, NEW q \in Request, NEW r \in Request,
                      requests[q].kind = "sign-in", requests[q].handle = requests[r].handle,
                      requests[q].stage = "served", requests[r].kind # "sign-in", requests[r].stage = "served"
               PROVE  requests[r].at < requests[q].at + Absolute + CheckTime
    BY DEF SessionsEnd
  <2>1. InTime(q)
    BY DEF LifeInv, SignedIn
  <2> QED
    BY <2>1 DEF InTime, Enough
<1> QED
  BY <1>1, <1>2, RecentKept, LifeStart, RecentStart, SessionInvariant, PTL DEF SessionSpec

-----------------------------------------------------------------------------
(* Exports.  The limiter remembers every export of the last window, and a    *)
(* window is full when one is told to wait.                                  *)
Between(h, x, y) == {r \in Exported(h) : x <= requests[r].at /\ requests[r].at < y}
Latest(h) == {r \in Exported(h) : now < requests[r].at + Window}
After(h, x, y) == {q \in Exported(h) : requests[q].at <= x /\ y < requests[q].at + Window}
Remembered(h) ==
  /\ recent[h] \subseteq Exported(h) /\ IsFiniteSet(Exported(h))
  /\ \A r \in Exported(h) : /\ requests[r].at \in Nat /\ requests[r].at <= now
                            /\ r \notin recent[h] => requests[r].at + Window <= now
  /\ \A q \in Exported(h) : Cardinality(Between(h, requests[q].at, requests[q].at + Window)) <= Limit
Told(h, at, wait) ==
  /\ h \in Handle /\ at \in Nat /\ at <= now
  /\ at = now => Cardinality(Latest(h)) >= Limit
  /\ Cardinality(After(h, at, at + wait)) < Limit
ToldWell(r) == Told(requests[r].handle, requests[r].at, requests[r].wait)
ExportsInv ==
  /\ DOMAIN recent = Handle /\ \A h \in Handle : Remembered(h)
  /\ \A r \in Request : requests[r].stage = "limited" => ToldWell(r)

\* A set of naturals that is not empty has a least member.
LEMMA LeastNat == ASSUME NEW T \in SUBSET Nat, T # {} PROVE \E x \in T : \A y \in T : x <= y
<1> DEFINE R == {ss \in Nat \X Nat : ss[1] < ss[2]}
<1>1. IsWellFoundedOn(R, Nat)
  BY NatLessThanWellFounded DEF OpToRel
<1> HIDE DEF R
<1>2. PICK x \in T : \A y \in T : ~(<<y, x>> \in R)
  BY <1>1, WFMin
<1>3. \A y \in T : x <= y
  <2> SUFFICES ASSUME NEW y \in T PROVE x <= y
    OBVIOUS
  <2>1. ~(<<y, x>> \in R)
    BY <1>2
  <2>2. ~(y < x)
    BY <2>1 DEF R
  <2> QED
    BY <2>2
<1> QED
  BY <1>3

LEMMA OldestIs ==
  ASSUME NEW S, S # {}, \A q \in S : requests[q].at \in Nat
  PROVE  Oldest(S) \in S /\ \A p \in S : requests[Oldest(S)].at <= requests[p].at
<1> DEFINE T == {requests[q].at : q \in S}
<1>1. T \in SUBSET Nat /\ T # {}
  OBVIOUS
<1>2. PICK x \in T : \A y \in T : x <= y
  BY <1>1, LeastNat
<1>3. PICK q \in S : requests[q].at = x
  BY <1>2
<1>4. \A p \in S : requests[q].at <= requests[p].at
  BY <1>2, <1>3
<1> QED
  BY <1>4 DEF Oldest

LEMMA ExportsStart == SessionInit => ExportsInv
<1> SUFFICES ASSUME SessionInit PROVE ExportsInv
  OBVIOUS
<1>1. /\ \A r \in Request : requests[r].stage = "new"
      /\ \A h \in Handle : recent[h] = {}
      /\ DOMAIN recent = Handle
  BY DEF SessionInit, NewRequest
<1>2. \A h \in Handle : Exported(h) = {}
  BY <1>1 DEF Exported
<1>3. \A h \in Handle : Remembered(h)
  BY <1>1, <1>2, FS_EmptySet DEF Remembered
<1> QED
  BY <1>1, <1>3 DEF ExportsInv

\* A step that neither admits an export nor turns one away.
QuietRequest(r) ==
  \/ requests'[r] = requests[r]
  \/ /\ requests[r].stage \notin {"served", "limited"} /\ requests'[r].stage # "limited"
     /\ requests'[r].stage = "served" => requests'[r].kind # "export"

LEMMA ExportsKept ==
  ASSUME SessionInv, SessionInv', ExportsInv, recent' = recent, now <= now',
         \A r \in Request : QuietRequest(r)
  PROVE  ExportsInv'
<1>1. now \in Nat /\ now' \in Nat /\ Window \in Nat
  BY SessionAssumption DEF SessionInv, SessionTypes
<1>2. ASSUME NEW h PROVE Exported(h)' = Exported(h) /\ \A r \in Exported(h) : requests'[r] = requests[r]
  BY DEF Exported, QuietRequest
<1>3. ASSUME NEW h \in Handle PROVE Remembered(h)'
  <2>1. Remembered(h)
    BY DEF ExportsInv
  <2>2. \A q \in Exported(h) : Between(h, requests[q].at, requests[q].at + Window)'
                               = Between(h, requests[q].at, requests[q].at + Window)
    BY <1>2 DEF Between
  <2>3. \A r \in Exported(h) : /\ requests'[r].at \in Nat /\ requests'[r].at <= now'
                               /\ r \notin recent'[h] => requests'[r].at + Window <= now'
    BY <1>1, <1>2, <2>1 DEF Remembered
  <2> QED
    BY <1>2, <2>1, <2>2, <2>3 DEF Remembered
<1>4. ASSUME NEW h, NEW at, NEW wait, Told(h, at, wait) PROVE Told(h, at, wait)'
  <2>1. After(h, at, at + wait)' = After(h, at, at + wait)
    BY <1>2 DEF After
  <2>2. at = now' => now' = now
    BY <1>1, <1>4 DEF Told
  <2>3. now' = now => Latest(h)' = Latest(h)
    BY <1>2 DEF Latest
  <2> QED
    BY <1>1, <1>4, <2>1, <2>2, <2>3 DEF Told
<1>5. ASSUME NEW r \in Request, requests'[r].stage = "limited" PROVE ToldWell(r)'
  <2>1. requests'[r] = requests[r] /\ ToldWell(r)
    BY <1>5 DEF QuietRequest, ExportsInv
  <2>2. PICK h, at, wait : h = requests[r].handle /\ at = requests[r].at /\ wait = requests[r].wait
    OBVIOUS
  <2>3. Told(h, at, wait)'
    BY <1>4, <2>1, <2>2 DEF ToldWell
  <2>4. h = requests'[r].handle /\ at = requests'[r].at /\ wait = requests'[r].wait
    BY <2>1, <2>2
  <2> QED
    BY <2>3, <2>4 DEF ToldWell, Told
<1> QED
  BY <1>3, <1>5 DEF ExportsInv

\* The exports the limiter counts are those of the last window; they fill none beyond the limit.
LEMMA WithinIs ==
  ASSUME SessionInv, ExportsInv, NEW h \in Handle
  PROVE  /\ Within(h) = Latest(h) /\ IsFiniteSet(Within(h)) /\ Within(h) \subseteq Exported(h)
         /\ Cardinality(Within(h)) \in Nat
<1>1. Remembered(h) /\ now \in Nat /\ Window \in Nat
  BY SessionAssumption DEF ExportsInv, SessionInv, SessionTypes
<1>2. Within(h) = Latest(h) /\ Within(h) \subseteq Exported(h)
  BY <1>1 DEF Remembered, Within, Latest
<1>3. IsFiniteSet(Within(h))
  BY <1>1, <1>2, FS_Subset DEF Remembered
<1> QED
  BY <1>2, <1>3, FS_CardinalityType

\* Once the oldest export has left the window, fewer are left in it than the limit.
LEMMA WaitIsEnough ==
  ASSUME SessionInv, ExportsInv, NEW h \in Handle, Within(h) # {}
  PROVE  Wait(Within(h)) \in Nat /\ Cardinality(After(h, now, now + Wait(Within(h)))) < Limit
<1> DEFINE W == Within(h)
           o == Oldest(W)
<1>1. Remembered(h) /\ now \in Nat /\ Window \in Nat /\ Limit \in Nat
  BY SessionAssumption DEF ExportsInv, SessionInv, SessionTypes
<1>2. W = Latest(h) /\ IsFiniteSet(W) /\ W \subseteq Exported(h) /\ Cardinality(W) \in Nat
  BY WithinIs
<1>3. \A q \in Exported(h) : requests[q].at \in Nat /\ requests[q].at <= now
  BY <1>1 DEF Remembered
<1>4. o \in W /\ \A p \in W : requests[o].at <= requests[p].at
  BY <1>2, <1>3, OldestIs
<1>5. now < requests[o].at + Window /\ requests[o].at \in Nat /\ o \in Exported(h)
  BY <1>2, <1>3, <1>4 DEF Latest
<1>6. Wait(W) \in Nat /\ now + Wait(W) = requests[o].at + Window
  BY <1>1, <1>5 DEF Wait
<1> DEFINE B == Between(h, requests[o].at, requests[o].at + Window)
           A == After(h, now, now + Wait(W))
<1> HIDE DEF W, o
<1>7. W \subseteq B
  BY <1>1, <1>2, <1>3, <1>4, <1>5 DEF Between
<1>8. Cardinality(W) <= Limit
  <2>1. IsFiniteSet(B) /\ Cardinality(B) <= Limit
    <3>1. B \subseteq Exported(h)
      BY DEF Between
    <3> QED
      BY <1>1, <1>5, <3>1, FS_Subset DEF Remembered
  <2>2. Cardinality(W) <= Cardinality(B) /\ Cardinality(B) \in Nat
    BY <1>7, <2>1, FS_Subset, FS_CardinalityType
  <2> QED
    BY <1>1, <1>2, <2>1, <2>2
<1>9. A \subseteq W \ {o}
  <2> SUFFICES ASSUME NEW q \in A PROVE q \in W /\ q # o
    OBVIOUS
  <2>1. q \in Exported(h) /\ requests[o].at + Window < requests[q].at + Window
    BY <1>6 DEF After
  <2> QED
    BY <1>1, <1>2, <1>3, <1>5, <2>1 DEF Latest
<1>10. Cardinality(W \ {o}) = Cardinality(W) - 1 /\ IsFiniteSet(W \ {o})
  BY <1>2, <1>4, FS_RemoveElement
<1>11. Cardinality(A) <= Cardinality(W \ {o}) /\ Cardinality(A) \in Nat
  BY <1>9, <1>10, FS_Subset, FS_CardinalityType
<1> QED
  BY <1>1, <1>2, <1>6, <1>8, <1>10, <1>11 DEF W

\* An export that is turned away.
LEMMA TurnedAway ==
  ASSUME SessionInv, SessionInv', RecentInv, ExportsInv, NEW r \in Request, Export(r),
         Cardinality(Within(requests[r].handle)) >= Limit
  PROVE  ExportsInv'
<1>1. PICK h, wait : h \in Handle /\ h = requests[r].handle /\ wait = Wait(Within(h))
  BY DEF Export, SessionInv, SessionTypes
<1>2. /\ requests[r].stage = "limit" /\ now' = now /\ recent' = recent
      /\ Replies(r, "limited", wait) /\ now \in Nat /\ Limit \in Nat \ {0}
  BY <1>1, SessionAssumption DEF Export, SessionInv, SessionTypes
<1>3. requests'[r] = [NewRequest EXCEPT !.stage = "limited", !.at = now, !.kind = requests[r].kind,
                                        !.handle = requests[r].handle, !.wait = wait]
  BY <1>2 DEF Replies, Reply, SessionInv, SessionTypes
<1>4. /\ requests'[r].stage = "limited" /\ requests'[r].handle = h /\ requests'[r].at = now
      /\ requests'[r].wait = wait
  BY <1>1, <1>3 DEF NewRequest
<1>5. \A q \in Request \ {r} : requests'[q] = requests[q]
  BY <1>2 DEF Replies, SessionInv, SessionTypes
<1>6. ASSUME NEW k PROVE Exported(k)' = Exported(k) /\ \A q \in Exported(k) : requests'[q] = requests[q]
  BY <1>2, <1>4, <1>5 DEF Exported
<1>7. ASSUME NEW k \in Handle PROVE Remembered(k)'
  <2>1. Remembered(k)
    BY DEF ExportsInv
  <2>2. \A q \in Exported(k) : Between(k, requests[q].at, requests[q].at + Window)'
                               = Between(k, requests[q].at, requests[q].at + Window)
    BY <1>6 DEF Between
  <2> QED
    BY <1>2, <1>6, <2>1, <2>2 DEF Remembered
<1>8. ASSUME NEW k, NEW at, NEW w, Told(k, at, w) PROVE Told(k, at, w)'
  <2>1. After(k, at, at + w)' = After(k, at, at + w) /\ Latest(k)' = Latest(k)
    BY <1>2, <1>6 DEF After, Latest
  <2> QED
    BY <1>2, <1>8, <2>1 DEF Told
<1>9. Told(h, now, wait)
  <2>1. Within(h) = Latest(h) /\ Cardinality(Within(h)) >= Limit
    BY <1>1, WithinIs
  <2>2. Within(h) # {}
    BY <1>2, <2>1, FS_EmptySet
  <2> QED
    BY <1>1, <1>2, <2>1, <2>2, WaitIsEnough DEF Told
<1>10. PICK at : at = now
  OBVIOUS
<1>11. Told(h, at, wait)'
  BY <1>8, <1>9, <1>10
<1>12. ASSUME NEW q \in Request, requests'[q].stage = "limited" PROVE ToldWell(q)'
  <2>1. CASE q = r
    <3>1. h = requests'[r].handle /\ at = requests'[r].at /\ wait = requests'[r].wait
      BY <1>4, <1>10
    <3> QED
      BY <1>11, <2>1, <3>1 DEF ToldWell, Told
  <2>2. CASE q # r
    <3>1. requests'[q] = requests[q] /\ ToldWell(q)
      BY <1>5, <1>12, <2>2 DEF ExportsInv
    <3>2. PICK k, t, w : k = requests[q].handle /\ t = requests[q].at /\ w = requests[q].wait
      OBVIOUS
    <3>3. Told(k, t, w)'
      BY <1>8, <3>1, <3>2 DEF ToldWell
    <3>4. k = requests'[q].handle /\ t = requests'[q].at /\ w = requests'[q].wait
      BY <3>1, <3>2
    <3> QED
      BY <3>3, <3>4 DEF ToldWell, Told
  <2> QED
    BY <2>1, <2>2
<1> QED
  BY <1>2, <1>7, <1>12 DEF ExportsInv

\* An export that is admitted: every window it is in lies in the last one.
LEMMA Admitted ==
  ASSUME SessionInv, SessionInv', RecentInv, ExportsInv, NEW r \in Request, Export(r),
         ~(Cardinality(Within(requests[r].handle)) >= Limit)
  PROVE  ExportsInv'
<1>1. PICK h \in Handle : h = requests[r].handle
  BY DEF Export, SessionInv, SessionTypes
<1>2. /\ requests[r].stage = "limit" /\ now' = now /\ now \in Nat /\ Limit \in Nat /\ Window \in Nat \ {0}
      /\ requests[r].kind = "export"
      /\ Replies(r, "served", 0) /\ recent' = [recent EXCEPT ![h] = Within(h) \cup {r}]
  BY <1>1, SessionAssumption DEF Export, RecentInv, LimitedRecently, SessionInv, SessionTypes
<1>3. requests'[r] = [NewRequest EXCEPT !.stage = "served", !.at = now, !.kind = requests[r].kind,
                                        !.handle = requests[r].handle, !.wait = 0]
  BY <1>2 DEF Replies, Reply, SessionInv, SessionTypes
<1>4. /\ requests'[r].stage = "served" /\ requests'[r].handle = h /\ requests'[r].at = now
      /\ requests'[r].kind = "export"
  BY <1>1, <1>2, <1>3 DEF NewRequest
<1>5. \A q \in Request \ {r} : requests'[q] = requests[q]
  BY <1>2 DEF Replies, SessionInv, SessionTypes
<1>6. /\ Exported(h)' = Exported(h) \cup {r} /\ r \notin Exported(h)
      /\ \A q \in Exported(h) : requests'[q] = requests[q]
  BY <1>1, <1>2, <1>4, <1>5 DEF Exported
<1>7. ASSUME NEW k, k # h PROVE Exported(k)' = Exported(k) /\ \A q \in Exported(k) : requests'[q] = requests[q]
  BY <1>2, <1>4, <1>5, <1>7 DEF Exported
<1>8. /\ Within(h) = Latest(h) /\ IsFiniteSet(Within(h)) /\ Within(h) \subseteq Exported(h)
      /\ Cardinality(Within(h)) \in Nat /\ Cardinality(Within(h)) < Limit
  BY <1>1, <1>2, WithinIs
<1>9. IsFiniteSet(Within(h) \cup {r}) /\ Cardinality(Within(h) \cup {r}) <= Limit
  <2>1. IsFiniteSet(Within(h) \cup {r}) /\ Cardinality(Within(h) \cup {r}) = Cardinality(Within(h)) + 1
    <3>1. r \notin Within(h) /\ IsFiniteSet(Within(h))
      BY <1>6, <1>8
    <3>2. PICK W : W = Within(h)
      OBVIOUS
    <3>3. IsFiniteSet(W \cup {r}) /\ Cardinality(W \cup {r}) = Cardinality(W) + 1
      BY <3>1, <3>2, FS_AddElement
    <3> QED
      BY <3>2, <3>3
  <2>2. Cardinality(Within(h) \cup {r}) \in Nat
    BY <2>1, FS_CardinalityType
  <2> QED
    BY <1>2, <1>8, <2>1, <2>2
<1>10. Remembered(h) /\ DOMAIN recent = Handle
  BY DEF ExportsInv
<1>11. \A q \in Exported(h) : requests[q].at \in Nat /\ requests[q].at <= now
  BY <1>10 DEF Remembered
<1>12. ASSUME NEW S \in SUBSET (Within(h) \cup {r}) PROVE Cardinality(S) <= Limit
  <2>1. Cardinality(S) <= Cardinality(Within(h) \cup {r}) /\ IsFiniteSet(S)
    BY <1>9, FS_Subset
  <2> QED
    BY <1>2, <1>9, <2>1, FS_CardinalityType
<1>13. ASSUME NEW q \in Exported(h) \cup {r}, NEW x, x = requests'[q].at
       PROVE  Cardinality(Between(h, x, x + Window)') <= Limit
  <2>2. x \in Nat /\ x <= now
    BY <1>2, <1>4, <1>6, <1>11, <1>13
  <2>3. CASE now < x + Window
    <3>1. Between(h, x, x + Window)' \subseteq Within(h) \cup {r}
      BY <1>2, <1>4, <1>6, <1>8, <1>11, <2>2, <2>3 DEF Between, Latest
    <3> QED
      BY <1>12, <3>1
  <2>4. CASE ~(now < x + Window)
    <3>1. q \in Exported(h) /\ x = requests[q].at
      BY <1>2, <1>4, <1>6, <1>13, <2>2, <2>4
    <3>2. Between(h, x, x + Window)' = Between(h, x, x + Window)
      BY <1>2, <1>4, <1>6, <2>2, <2>4, <3>1 DEF Between
    <3> QED
      BY <1>10, <3>1, <3>2 DEF Remembered
  <2> QED
    BY <2>3, <2>4
<1>14. Remembered(h)'
  <2>1. recent'[h] = Within(h) \cup {r} /\ recent'[h] \subseteq Exported(h)'
    BY <1>2, <1>6, <1>8, <1>10
  <2>2. IsFiniteSet(Exported(h)')
    BY <1>6, <1>10, FS_AddElement DEF Remembered
  <2>3. \A q \in Exported(h)' : /\ requests'[q].at \in Nat /\ requests'[q].at <= now'
                                /\ q \notin recent'[h] => requests'[q].at + Window <= now'
    BY <1>2, <1>4, <1>6, <1>8, <1>11, <2>1 DEF Latest
  <2>4. ASSUME NEW q \in Exported(h)'
        PROVE  Cardinality({p \in Exported(h)' : /\ requests'[q].at <= requests'[p].at
                                                 /\ requests'[p].at < requests'[q].at + Window}) <= Limit
    <3>1. PICK x : x = requests'[q].at
      OBVIOUS
    <3>2. Cardinality(Between(h, x, x + Window)') <= Limit
      BY <1>6, <1>13, <3>1
    <3> QED
      BY <3>1, <3>2 DEF Between
  <2> QED
    BY <2>1, <2>2, <2>3, <2>4 DEF Remembered, Between
<1>15. ASSUME NEW k \in Handle, k # h PROVE Remembered(k)'
  <2>1. Remembered(k) /\ recent'[k] = recent[k]
    BY <1>2, <1>10, <1>15 DEF ExportsInv
  <2>2. Exported(k)' = Exported(k) /\ \A q \in Exported(k) : requests'[q] = requests[q]
    BY <1>7, <1>15
  <2>3. \A q \in Exported(k) : Between(k, requests[q].at, requests[q].at + Window)'
                               = Between(k, requests[q].at, requests[q].at + Window)
    BY <2>2 DEF Between
  <2> QED
    BY <1>2, <2>1, <2>2, <2>3 DEF Remembered
<1>16. ASSUME NEW k, NEW at, NEW w, Told(k, at, w) PROVE Told(k, at, w)'
  <2>1. CASE k # h
    <3>1. After(k, at, at + w)' = After(k, at, at + w) /\ Latest(k)' = Latest(k)
      BY <1>2, <1>7, <2>1 DEF After, Latest
    <3> QED
      BY <1>2, <1>16, <3>1 DEF Told
  <2>2. CASE k = h
    <3>1. at # now /\ at \in Nat /\ at <= now
      BY <1>2, <1>8, <1>16, <2>2 DEF Told
    <3>2. After(k, at, at + w)' = After(k, at, at + w)
      BY <1>2, <1>4, <1>6, <2>2, <3>1 DEF After
    <3> QED
      BY <1>2, <1>16, <3>1, <3>2 DEF Told
  <2> QED
    BY <2>1, <2>2
<1>17. ASSUME NEW q \in Request, requests'[q].stage = "limited" PROVE ToldWell(q)'
  <2>1. requests'[q] = requests[q] /\ ToldWell(q)
    BY <1>4, <1>5, <1>17 DEF ExportsInv
  <2>2. PICK k, t, w : k = requests[q].handle /\ t = requests[q].at /\ w = requests[q].wait
    OBVIOUS
  <2>3. Told(k, t, w)'
    BY <1>16, <2>1, <2>2 DEF ToldWell
  <2>4. k = requests'[q].handle /\ t = requests'[q].at /\ w = requests'[q].wait
    BY <2>1, <2>2
  <2> QED
    BY <2>3, <2>4 DEF ToldWell, Told
<1>18. DOMAIN recent' = Handle
  BY <1>2, <1>10
<1> QED
  BY <1>14, <1>15, <1>17, <1>18 DEF ExportsInv

LEMMA ExportsAsked ==
  ASSUME SessionInv, SessionInv', ExportsInv, NEW r \in Request,
         (\E h \in Handle : SignIn(r, h) \/ Redeem(r, h) \/ \E kind \in Kind : Ask(r, kind, h))
         \/ CreateSession(r) \/ IssueCode(r)
  PROVE  ExportsInv'
<1>1. /\ recent' = recent /\ now' = now /\ now \in Nat
      /\ requests[r].stage \notin {"served", "limited"}
  BY DEF SignIn, Redeem, Ask, CreateSession, IssueCode, SessionInv, SessionTypes
<1>2. /\ \A q \in Request \ {r} : requests'[q] = requests[q]
      /\ requests'[r].stage # "limited"
      /\ requests'[r].stage = "served" => requests'[r].kind # "export"
  <2>1. CASE requests' = [requests EXCEPT ![r] = Refusal]
    BY <2>1, RefusedOne
  <2>2. ASSUME NEW kind, NEW h \in Handle, BeginCheck(r, kind, h)
        PROVE  \A q \in Request \ {r} : requests'[q] = requests[q] /\ requests'[r].stage = "checking"
    BY <2>2, CheckBegun
  <2>3. ASSUME NEW h \in Handle, NEW kind \in Kind, Ask(r, kind, h) PROVE <1>2
    <3>1. CASE /\ ~Live(kind)
               /\ requests' = [requests EXCEPT ![r] = [NewRequest EXCEPT !.stage = "served", !.kind = kind,
                                                         !.handle = h, !.at = now]]
      BY <3>1 DEF NewRequest, Live, SessionInv, SessionTypes
    <3>2. CASE BeginCheck(r, kind, h)
      BY <3>2, CheckBegun
    <3> QED
      BY <2>1, <2>3, <3>1, <3>2 DEF Ask
  <2>4. ASSUME NEW h \in Handle, Redeem(r, h) PROVE <1>2
    <3>1. CASE BeginCheck(r, "redeem", h)
      BY <3>1, CheckBegun
    <3> QED
      BY <2>1, <2>4, <3>1 DEF Redeem
  <2>5. ASSUME NEW h \in Handle, SignIn(r, h) PROVE <1>2
    <3>1. CASE member
      BY <2>5, <3>1 DEF SignIn, NewRequest, SessionInv, SessionTypes
    <3>2. CASE ~member
      BY <2>1, <2>5, <3>2 DEF SignIn, SessionInv, SessionTypes
    <3> QED
      BY <3>1, <3>2
  <2>6. CASE CreateSession(r)
    BY <2>6 DEF CreateSession, SessionInv, SessionTypes, Fields
  <2>7. CASE IssueCode(r)
    <3>1. requests[r].kind = "sign-in"
      BY <2>7 DEF IssueCode, SessionInv, PendingOwns
    <3>2. CASE Replies(r, "served", 0)
      BY <3>1, <3>2 DEF Replies, Reply, NewRequest, SessionInv, SessionTypes
    <3> QED
      BY <2>1, <2>7, <3>2 DEF IssueCode
  <2> QED
    BY <2>3, <2>4, <2>5, <2>6, <2>7
<1>3. \A q \in Request : QuietRequest(q)
  BY <1>1, <1>2 DEF QuietRequest
<1> QED
  BY <1>1, <1>3, ExportsKept

LEMMA ExportsAnswered ==
  ASSUME SessionInv, SessionInv', ExportsInv, NEW c \in Request, CheckAnswers(c) \/ CheckFails(c)
  PROVE  ExportsInv'
<1>1. recent' = recent /\ now' = now /\ now \in Nat
  BY DEF CheckAnswers, CheckFails, SessionInv, SessionTypes
<1>2. CASE Refused(c)
  <2>1. \A q \in Request : QuietRequest(q)
    BY <1>2, RefusedAll DEF QuietRequest, Waiting
  <2> QED
    BY <1>1, <2>1, ExportsKept
<1>3. CASE Accepted(c)
  <2>1. \A q \in Waiting(c) : requests'[q].stage = "served" => requests'[q].kind # "export"
    BY <1>3 DEF Accepted, Reply, Waiting, NewRequest, SessionInv, SessionTypes
  <2>2. \A q \in Request : QuietRequest(q)
    BY <1>3, <2>1, AcceptedAll DEF QuietRequest, Waiting
  <2> QED
    BY <1>1, <2>2, ExportsKept
<1> QED
  BY <1>2, <1>3 DEF CheckAnswers, CheckFails

LEMMA ExportsIdle ==
  ASSUME SessionInv, SessionInv', ExportsInv,
         (\E h \in Handle : SignOut(h)) \/ Alarm \/ Tick \/ Membership \/ UNCHANGED sessionVars
  PROVE  ExportsInv'
<1>1. requests' = requests /\ recent' = recent /\ now \in Nat /\ now <= now'
  BY DEF SignOut, Alarm, Tick, Membership, sessionVars, SessionInv, SessionTypes
<1>2. \A q \in Request : QuietRequest(q)
  BY <1>1 DEF QuietRequest
<1> QED
  BY <1>1, <1>2, ExportsKept

\* No window holds more exports of a session than the limit, and whoever waits as told is not
\* told to wait again (auth-exchange.mjs, /rate/consume): the limiter remembers every export
\* of the last window and counts exactly those.
THEOREM ExportsStayBounded == SessionSpec => []ExportsBounded
<1>1. SessionInv /\ SessionInv' /\ RecentInv /\ ExportsInv /\ [SessionNext]_sessionVars => ExportsInv'
  BY ExportsAsked, ExportsAnswered, TurnedAway, Admitted, ExportsIdle DEF SessionNext
<1>2. SessionInv /\ RecentInv /\ ExportsInv => ExportsBounded
  <2> SUFFICES ASSUME ExportsInv PROVE ExportsBounded
    OBVIOUS
  <2>1. \A h \in Handle : \A q \in Exported(h) :
          Cardinality(Between(h, requests[q].at, requests[q].at + Window)) <= Limit
    BY DEF ExportsInv, Remembered
  <2>2. \A r \in Request : requests[r].stage = "limited" =>
          Cardinality(After(requests[r].handle, requests[r].at, requests[r].at + requests[r].wait)) < Limit
    BY DEF ExportsInv, ToldWell, Told
  <2> QED
    BY <2>1, <2>2 DEF ExportsBounded, Between, After
<1> QED
  BY <1>1, <1>2, RecentKept, ExportsStart, RecentStart, SessionInvariant, PTL DEF SessionSpec

-----------------------------------------------------------------------------
(* The rotation of the API token.                                           *)

Store == [primary : Token, next : Token \cup {Nothing}]
RotationTypeOK ==
  /\ stored \in Store /\ served \in Store /\ secret \in Token
  /\ token \in Token /\ used \subseteq Token /\ unpromoted \in BOOLEAN
  /\ stage \in {"idle", "next", "probe", "secret", "primary", "reprobe", "delete", "done", "stopped"}

Holds(store, t) == t \in {store.primary, store.next} \ {Nothing}

\* A primary that is GitHub's token is also served, unless a next that is GitHub's is.
PromotedIsServed == secret = stored.primary => Holds(served, secret)
\* A rotation begun from the primary keeps GitHub's token in what is stored and in what is
\* served, at any moment and wherever it stops.
KeptFromPrimary == ~unpromoted => Holds(stored, secret) /\ Holds(served, secret)
\* What each stage of a rotation can rely on.
StageInv ==
  /\ stage = "next" /\ ~unpromoted => secret = stored.primary
  /\ stage \in {"probe", "secret", "primary", "reprobe"} => stored.next = token
  /\ stage \in {"secret", "primary", "reprobe"} => Holds(served, token)
  /\ stage \in {"primary", "reprobe", "delete"} => secret = token
  /\ stage \in {"reprobe", "delete"} => stored.primary = token

RotationInv == RotationTypeOK /\ PromotedIsServed /\ KeptFromPrimary /\ StageInv

LEMMA RotationStart == RotationInit => RotationInv
<1> SUFFICES ASSUME RotationInit PROVE RotationInv
  OBVIOUS
<1>1. /\ stored = [primary |-> Old, next |-> Nothing] /\ served = stored
      /\ secret = Old /\ stage = "idle" /\ Old # Nothing
  BY RotationAssumption DEF RotationInit
<1>2. RotationTypeOK
  <2>1. unpromoted \in BOOLEAN
    BY Zenon DEF RotationInit
  <2>2. stored \in Store
    BY <1>1, RotationAssumption DEF Store
  <2> QED
    BY <1>1, <2>1, <2>2, RotationAssumption DEF RotationInit, RotationTypeOK
<1>3. stored.primary = secret /\ Holds(stored, secret) /\ Holds(served, secret)
  BY <1>1 DEF Holds
<1> QED
  BY <1>1, <1>2, <1>3 DEF RotationInv, PromotedIsServed, KeptFromPrimary, StageInv

LEMMA RotationKept == RotationInv /\ [RotationNext]_rotationVars => RotationInv'
<1> SUFFICES ASSUME RotationInv, [RotationNext]_rotationVars PROVE RotationInv'
  OBVIOUS
<1> USE RotationAssumption
    DEF RotationInv, RotationTypeOK, Store, PromotedIsServed, KeptFromPrimary, StageInv, Holds
<1>1. CASE Begin
  BY <1>1 DEF Begin, Halted
<1>2. CASE PutNext
  BY <1>2 DEF PutNext, Command
<1>3. CASE ProbeNext
  BY <1>3 DEF ProbeNext, Probe, Accepts
<1>4. CASE SetSecret
  BY <1>4 DEF SetSecret, Command
<1>5. CASE PutPrimary
  BY <1>5 DEF PutPrimary, Command
<1>6. CASE ProbePrimary
  BY <1>6 DEF ProbePrimary, Probe, Accepts
<1>7. CASE DeleteNext
  BY <1>7 DEF DeleteNext, Command
<1>8. CASE Serve
  BY <1>8 DEF Serve
<1>9. CASE UNCHANGED rotationVars
  BY <1>9 DEF rotationVars
<1> QED
  BY <1>1, <1>2, <1>3, <1>4, <1>5, <1>6, <1>7, <1>8, <1>9 DEF RotationNext

\* In every rotation that begins when GitHub's token is the primary, however many there were
\* before and wherever they stopped, the Worker accepts what GitHub hands to its jobs
\* (rotate_worker_api_token.py:44).
THEOREM RotationFromPrimary == RotationSpec => []AcceptedFromPrimary
<1>1. RotationInv => AcceptedFromPrimary
  BY DEF RotationInv, KeptFromPrimary, Holds, AcceptedFromPrimary, Accepts
<1> QED
  BY RotationStart, RotationKept, <1>1, PTL DEF RotationSpec

-----------------------------------------------------------------------------
(* Both kinds of callers.                                                   *)

\* Whichever callers a behaviour follows, the others stand still: what is proved of sessions
\* and of rotations alone holds of the Worker that serves both.
THEOREM CallersApart == AccessSpec => SessionSpec /\ RotationSpec
<1>1. AccessInit => SessionInit /\ RotationInit
  BY DEF AccessInit
<1>2. [AccessNext]_accessVars => [SessionNext]_sessionVars /\ [RotationNext]_rotationVars
  BY DEF AccessNext, accessVars
<1> QED
  BY <1>1, <1>2, PTL DEF AccessSpec, SessionSpec, RotationSpec
===============================================================================
