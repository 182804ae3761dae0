------------------------------ MODULE ReviewLane ------------------------------
(***************************************************************************)
(* The evidence of CodeRabbit on the head of a pull request                *)
(* (collect_coderabbit.py collect): the pull request is looked up, then    *)
(* its reviews and its comments are read page by page, then, when no       *)
(* review of this head was seen, the commit status, while the reviewer     *)
(* works on.                                                               *)
(*                                                                         *)
(* GitHub and the reviewer are external: reviews and comments are listed   *)
(* in the order they were made and none is removed; the comments of a      *)
(* review appear with it, and the success status after a review of the     *)
(* head.  Replies, the comments of other people and those on older heads   *)
(* are rows that are not kept; texts and severities are left out.          *)
(*                                                                         *)
(* A definition named ...Fault is a plausible slip in the definition that  *)
(* follows it; no specification uses it.                                   *)
(***************************************************************************)
EXTENDS Naturals

CONSTANTS PageRows,   \* the rows of a full page (100)
          ListPages,  \* MAX_PAGES
          MaxReviews, \* bounds what the reviewer does
          MaxComments

ASSUME ReviewAssumption == {PageRows, ListPages} \subseteq Nat \ {0} /\ {MaxReviews, MaxComments} \subseteq Nat

VARIABLES older,     \* the rows of older heads in each list
          moved,     \* the head, or the base, is not the expected one any more
          reviews, comments, \* how many reviews and comments of this head there are
          signal,    \* the reviewer set its success status
          at,        \* the collector: lookup, reviews, comments, status, done
          next,      \* the next page
          seen,      \* a review of this head was seen, "none" before: "review" or "signal"
          promised,  \* the comments there were when it was seen
          taken,     \* the advisories
          partial, unavailable, \* why the evidence is incomplete
          verdict    \* the status written

pull == <<older, moved, reviews, comments, signal>>
reviewVars == <<pull, at, next, seen, promised, taken, partial, unavailable, verdict>>

-----------------------------------------------------------------------------
(* The pull request.                                                        *)
Posts ==
  /\ reviews < MaxReviews /\ reviews' = reviews + 1 /\ comments' \in comments..MaxComments
  /\ UNCHANGED <<older, moved, signal>>
Signals == reviews > 0 /\ ~signal /\ signal' = TRUE /\ UNCHANGED <<older, moved, reviews, comments>>
HeadMoves == ~moved /\ moved' = TRUE /\ UNCHANGED <<older, reviews, comments, signal>>

-----------------------------------------------------------------------------
(* The collector.                                                           *)
AfterFault(read) == CASE read = "lookup" -> "comments" [] read = "comments" -> "reviews" [] read = "reviews" -> "status"
After(read) == CASE read = "lookup" -> "reviews" [] read = "reviews" -> "comments" [] read = "comments" -> "status"

\* What the status document says: incomplete reads first.
Verdict(saw, part, unread) ==
  IF unread THEN "UNAVAILABLE" ELSE IF part THEN "PARTIAL" ELSE IF saw # "none" THEN "COMPLETED_OPTIONAL" ELSE "NOT_AVAILABLE"

\* To the next read, or to the end: a list that cannot be read skips what is left of the pull
\* request, and the commit status is read only without a review.
Goes(to, saw, part, unread) ==
  /\ seen' = saw /\ partial' = part /\ unavailable' = unread /\ next' = 1
  /\ IF to = "done" \/ (to = "status" /\ saw # "none")
     THEN at' = "done" /\ verdict' = Verdict(saw, part, unread) ELSE at' = to /\ UNCHANGED verdict

Lookup ==
  /\ at = "lookup"
  /\ IF moved THEN Goes("done", seen, FALSE, FALSE) ELSE Goes(After("lookup"), seen, FALSE, FALSE)
  /\ UNCHANGED <<pull, promised, taken>>
LookupFails ==
  /\ at = "lookup" /\ Goes("done", seen, FALSE, TRUE)
  /\ UNCHANGED <<pull, promised, taken>>

\* A full page asks for another one; a full last page is beyond the bound.
Rows == older + (IF at = "reviews" THEN reviews ELSE comments)
Full == Rows >= next * PageRows
Last == next = ListPages \/ ~Full
Beyond == next = ListPages /\ Full

MorePages ==
  /\ at \in {"reviews", "comments"} /\ ~Last /\ next' = next + 1
  /\ UNCHANGED <<pull, at, seen, promised, taken, partial, unavailable, verdict>>
\* A page fails, or the pages are too many: what was read does not count.
ListFails ==
  /\ at \in {"reviews", "comments"}
  /\ \/ Beyond /\ Goes("status", seen, TRUE, unavailable)
     \/ Goes("status", seen, partial \/ next > 1, unavailable \/ next = 1)
  /\ UNCHANGED <<pull, promised, taken>>

ReadRows == IF Rows < next * PageRows THEN Rows ELSE next * PageRows
ReadReviews ==
  /\ at = "reviews" /\ Last /\ ~Beyond
  /\ LET saw == IF ReadRows > older THEN "review" ELSE "none" IN
     /\ promised' = IF saw = "review" THEN comments ELSE 0
     /\ Goes(After("reviews"), saw, partial, unavailable)
  /\ UNCHANGED <<pull, taken>>
ReadComments ==
  /\ at = "comments" /\ Last /\ ~Beyond
  /\ taken' = IF ReadRows > older THEN ReadRows - older ELSE 0
  /\ Goes(After("comments"), seen, partial, unavailable)
  /\ UNCHANGED <<pull, promised>>

ReadStatus ==
  /\ at = "status" /\ Goes("done", IF signal THEN "signal" ELSE seen, partial, unavailable)
  /\ UNCHANGED <<pull, promised, taken>>
StatusFails ==
  /\ at = "status" /\ Goes("done", seen, partial, TRUE)
  /\ UNCHANGED <<pull, promised, taken>>

Reviewer == (Posts \/ Signals \/ HeadMoves) /\ UNCHANGED <<at, next, seen, promised, taken, partial, unavailable, verdict>>
CollectStep == Lookup \/ LookupFails \/ MorePages \/ ListFails \/ ReadReviews \/ ReadComments \/ ReadStatus \/ StatusFails

\* The pull request is as the scenario says.
ReviewInit ==
  /\ reviews = 0 /\ comments = 0 /\ signal = FALSE
  /\ at = "lookup" /\ next = 1 /\ seen = "none" /\ promised = 0 /\ taken = 0
  /\ partial = FALSE /\ unavailable = FALSE /\ verdict = "none"
===============================================================================
