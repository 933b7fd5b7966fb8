----------------------------- MODULE TitleMatching -----------------------------
(***************************************************************************)
(* How a derived title is matched with the candidates of a TMDB search     *)
(* (src/internal/providers/netflix/matching.go).                           *)
(*                                                                         *)
(* A text is known by its similarity to the title, in hundredths: equal    *)
(* once normalized is Exact.  That similarity is symmetric and between 0   *)
(* and 1 is all that matters of the edit distance and the token overlap.   *)
(***************************************************************************)
EXTENDS FiniteSets, Integers

CONSTANTS
  None,           \* no original title, no media type, no candidate
  Exact,          \* the similarity of equal titles
  AcceptScore,    \* TMDBMatcherAcceptScore
  ReviewScore,    \* TMDBMatcherReviewScore
  MinimumMargin   \* TMDBMatcherMinimumMargin

ASSUME ScoreAssumption ==
  /\ Exact \in Nat /\ AcceptScore \in Nat /\ ReviewScore \in Nat /\ MinimumMargin \in Nat
  /\ ReviewScore <= AcceptScore /\ AcceptScore <= Exact

MediaTypes == {"movie", "series"}

Statuses == {"matched", "review", "unmatched"}

Candidate == [id : Nat \ {0}, media : MediaTypes, title : Nat, original : Nat \cup {None}]

(* rankMatchCandidate *)
Score(c) ==
  IF c.original # None /\ c.original > c.title THEN c.original ELSE c.title

(* The order of ranking; candidates with the same ID and score come in any  *)
(* order, and nothing below depends on it.                                  *)
RanksBefore(c, d) == Score(c) > Score(d) \/ (Score(c) = Score(d) /\ c.id < d.id)

Best(C) == CHOOSE c \in C : \A d \in C : ~RanksBefore(d, c)

BestScore(C) == IF C = {} THEN 0 ELSE Score(Best(C))

(* Mutant: the last of the ranking is taken for the runner-up. *)
RunnerUpScoreMutant(C) ==
  IF Cardinality(C) < 2 THEN 0
  ELSE Score(CHOOSE c \in C : \A d \in C : ~RanksBefore(c, d))

RunnerUpScore(C) == IF Cardinality(C) < 2 THEN 0 ELSE BestScore(C \ {Best(C)})

(***************************************************************************)
(* MatchTMDBTitle: the evidence, and the decision it leads to.  A title    *)
(* without a letter or a digit is empty once normalized.                   *)
(***************************************************************************)
Evidence(wordless, C) ==
  [query |-> ~wordless,
   considered |-> Cardinality(C),
   exact |-> Cardinality({c \in C : Score(c) = Exact}),
   best |-> BestScore(C),
   runnerUp |-> RunnerUpScore(C),
   margin |-> BestScore(C) - RunnerUpScore(C)]

Reason(e) ==
  CASE e.considered = 0 -> "no_candidates"
    [] e.considered > 0 /\ e.exact = 1 -> "unique_exact_title"
    [] e.exact > 1 -> "ambiguous_exact_title"
    [] e.considered > 0 /\ e.exact = 0 ->
         IF e.best >= AcceptScore /\ e.margin >= MinimumMargin THEN "high_confidence_title"
         ELSE IF e.best >= ReviewScore THEN "similar_title_requires_review"
         ELSE "below_review_threshold"

StatusFor(reason) ==
  CASE reason \in {"unique_exact_title", "high_confidence_title"} -> "matched"
    [] reason \in {"ambiguous_exact_title", "similar_title_requires_review"} -> "review"
    [] reason \in {"no_candidates", "below_review_threshold"} -> "unmatched"

MatchTMDBTitle(wordless, C) ==
  LET e == Evidence(wordless, C)
      status == StatusFor(Reason(e))
      accepted == status = "matched"
  IN [status |-> status, reason |-> Reason(e), evidence |-> e,
      id |-> IF accepted THEN Best(C).id ELSE 0,
      media |-> IF accepted THEN Best(C).media ELSE None]

(***************************************************************************)
(* NewTMDBMatch, which also guards what is read back from the cache and    *)
(* from a checkpoint.                                                      *)
(***************************************************************************)
ValidMatched(m) ==
  LET e == m.evidence IN
  \/ m.reason = "unique_exact_title" /\ e.exact = 1 /\ e.best = Exact
  \/ /\ m.reason = "high_confidence_title" /\ e.exact = 0
     /\ e.best >= AcceptScore /\ e.margin >= MinimumMargin

ValidReview(m) ==
  LET e == m.evidence IN
  \/ m.reason = "ambiguous_exact_title" /\ e.exact > 1 /\ e.best = Exact
  \/ /\ m.reason = "similar_title_requires_review" /\ e.exact = 0
     /\ e.best >= ReviewScore
     /\ e.best < AcceptScore \/ e.margin < MinimumMargin

ValidUnmatched(m) ==
  /\ m.reason = "below_review_threshold"
  /\ m.evidence.exact = 0 /\ m.evidence.best < ReviewScore

ValidEvidence(m) ==
  LET e == m.evidence IN
  /\ e.query
  /\ e.exact \in 0..e.considered
  /\ {e.best, e.runnerUp, e.margin} \subseteq 0..Exact
  /\ e.margin = e.best - e.runnerUp
  /\ IF e.considered = 0
       THEN m.status = "unmatched" /\ m.reason = "no_candidates" /\ e.best = 0
       ELSE CASE m.status = "matched" -> ValidMatched(m)
              [] m.status = "review" -> ValidReview(m)
              [] m.status = "unmatched" -> ValidUnmatched(m)

ValidMatch(m) ==
  /\ m.status \in Statuses
  /\ ValidEvidence(m)
  /\ IF m.status = "matched" THEN m.id > 0 /\ m.media \in MediaTypes
                             ELSE m.id = 0 /\ m.media = None
=============================================================================
