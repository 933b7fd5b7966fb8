------------------------- MODULE TitleEnrichmentProofs -------------------------
(***************************************************************************)
(* Proofs about the enrichment of a history, for any titles, locales,      *)
(* number of workers, responses of TMDB and delays of its client: requests *)
(* keep their interval, no title is asked again while its outcome is       *)
(* cached, one more candidate never makes the matcher surer, a title has   *)
(* one result at most in the channel, and a generation fails only for a    *)
(* fault or a DELETE.                                                      *)
(***************************************************************************)
EXTENDS TitleEnrichment, FiniteSetTheorems, SequenceTheorems, TLAPS

-----------------------------------------------------------------------------
(***************************************************************************)
(* The matcher: every set of candidates has a best one, and what is taken  *)
(* from it leaves the others where they were.                              *)
(***************************************************************************)
(* Candidates as the client decodes them.                                    *)
Scorable(C) == IsFiniteSet(C) /\ \A c \in C : Score(c) \in 0..Exact /\ c.id \in Int

(* Every set of candidates has one that none ranks before: among those         *)
(* before any candidate is a smallest set.                                    *)
LEMMA BestExists ==
  ASSUME NEW C, Scorable(C), C # {}
  PROVE  \E c \in C : \A d \in C : ~RanksBefore(d, c)
<1> DEFINE Up(c) == {d \in C : RanksBefore(d, c)}
           T == {Up(c) : c \in C}
<1>1. T \subseteq FiniteSubsetsOf(C) /\ T # {}
  <2>1. \A c \in C : Up(c) \in SUBSET C
    OBVIOUS
  <2>2. \A c \in C : IsFiniteSet(Up(c))
    BY <2>1, FS_Subset DEF Scorable
  <2> QED BY <2>1, <2>2 DEF FiniteSubsetsOf
<1>2. PICK u \in T : \A y \in T : <<y, u>> \notin StrictSubsetOrdering(C)
  <2> HIDE DEF T
  <2> QED BY <1>1, FS_StrictSubsetOrderingWellFounded, WFMin
<1>3. PICK c \in C : u = Up(c)
  OBVIOUS
<1>4. SUFFICES ASSUME NEW d \in C, RanksBefore(d, c) PROVE FALSE
  OBVIOUS
<1>5. \A e \in Up(d) : e \in Up(c)
  <2> SUFFICES ASSUME NEW e \in C, RanksBefore(e, d) PROVE RanksBefore(e, c)
    OBVIOUS
  <2> QED BY <1>4 DEF RanksBefore, Scorable
<1>6. d \in Up(c) /\ d \notin Up(d)
  BY <1>4 DEF RanksBefore, Scorable
<1>7. Up(d) \in T /\ Up(d) \subseteq C /\ Up(c) \subseteq C
  OBVIOUS
<1>8. <<Up(d), u>> \in StrictSubsetOrdering(C)
  <2> HIDE DEF Up, T
  <2> QED BY <1>3, <1>5, <1>6, <1>7 DEF StrictSubsetOrdering
<1> QED BY <1>2, <1>7, <1>8

(* The best candidate is the best: none scores more, and of those that score   *)
(* as much none has a smaller identity.                                       *)
LEMMA BestIsBest ==
  ASSUME NEW C, Scorable(C), C # {}
  PROVE  /\ Best(C) \in C
         /\ \A d \in C : ~RanksBefore(d, Best(C))
         /\ \A d \in C : Score(d) <= Score(Best(C))
<1>1. Best(C) \in C /\ \A d \in C : ~RanksBefore(d, Best(C))
  BY BestExists DEF Best
<1> QED BY <1>1 DEF RanksBefore, Scorable

LEMMA FewerScorable == ASSUME NEW C, NEW x, Scorable(C) PROVE Scorable(C \ {x})
  BY FS_RemoveElement DEF Scorable

LEMMA ScoresInRange ==
  ASSUME NEW C, Scorable(C)
  PROVE  /\ BestScore(C) \in 0..Exact
         /\ RunnerUpScore(C) \in 0..Exact
         /\ RunnerUpScore(C) <= BestScore(C)
<1>1. Exact \in Nat
  BY ScoreAssumption
<1>2. ASSUME NEW D, Scorable(D) PROVE BestScore(D) \in 0..Exact
  <2>1. CASE D = {}
    BY <1>1, <2>1 DEF BestScore
  <2>2. CASE D # {}
    BY <1>2, <2>2, BestIsBest DEF BestScore, Scorable
  <2> QED BY <2>1, <2>2
<1>3. RunnerUpScore(C) \in 0..Exact
  <2>1. BestScore(C \ {Best(C)}) \in 0..Exact
    BY <1>2, FewerScorable
  <2> QED BY <1>1, <2>1 DEF RunnerUpScore
<1>4. RunnerUpScore(C) <= BestScore(C)
  <2>1. CASE Cardinality(C) < 2
    BY <1>2, <2>1 DEF RunnerUpScore
  <2>2. CASE ~(Cardinality(C) < 2)
    <3> DEFINE D == C \ {Best(C)}
    <3>1. RunnerUpScore(C) = BestScore(D)
      BY <2>2 DEF RunnerUpScore
    <3>2. CASE D = {}
      BY <1>2, <3>1, <3>2 DEF BestScore
    <3>3. CASE D # {}
      <4>1. Best(D) \in C /\ BestScore(D) = Score(Best(D)) /\ C # {}
        BY <3>3, FewerScorable, BestIsBest DEF BestScore
      <4>2. BestScore(C) = Score(Best(C)) /\ Score(Best(D)) <= Score(Best(C))
        BY <4>1, BestIsBest DEF BestScore
      <4> QED BY <3>1, <4>1, <4>2
    <3> QED BY <3>2, <3>3
  <2> QED BY <2>1, <2>2
<1> QED BY <1>2, <1>3, <1>4

Reasons ==
  {"unique_exact_title", "high_confidence_title", "ambiguous_exact_title",
   "similar_title_requires_review", "no_candidates", "below_review_threshold"}

(* A candidate is taken when it alone is exact, or when none is and it is       *)
(* close enough and far enough ahead.                                         *)
LEMMA MatchedWhen ==
  ASSUME NEW wordless, NEW C, Scorable(C)
  PROVE  LET e == Evidence(wordless, C)
             m == MatchTMDBTitle(wordless, C)
         IN /\ m.status = "matched" <=>
                 /\ C # {}
                 /\ \/ e.exact = 1
                    \/ e.exact = 0 /\ e.best >= AcceptScore /\ e.margin >= MinimumMargin
            /\ m.status = "matched" => m.id = Best(C).id /\ m.media = Best(C).media
<1> DEFINE e == Evidence(wordless, C)
           X == {c \in C : Score(c) = Exact}
<1>1. Cardinality(C) \in Nat /\ (Cardinality(C) = 0 <=> C = {})
  BY FS_CardinalityType, FS_EmptySet DEF Scorable
<1>2. Cardinality(X) \in Nat /\ (Cardinality(X) = 0 <=> X = {})
  BY FS_Subset, FS_CardinalityType, FS_EmptySet DEF Scorable
<1>3. /\ e.considered = Cardinality(C) /\ e.exact = Cardinality(X) /\ e.best = BestScore(C)
      /\ e.margin = BestScore(C) - RunnerUpScore(C)
  BY DEF Evidence
<1>4. C = {} => X = {}
  OBVIOUS
<1> HIDE DEF e, X
<1>5. Reason(e) \in Reasons /\ (Reason(e) \in {"unique_exact_title", "high_confidence_title"} <=>
        /\ C # {}
        /\ \/ e.exact = 1
           \/ e.exact = 0 /\ e.best >= AcceptScore /\ e.margin >= MinimumMargin)
  <2>1. CASE C = {}
    BY <1>1, <1>3, <2>1 DEF Reason, Reasons
  <2>2. CASE C # {} /\ e.exact = 1
    BY <1>1, <1>3, <2>2 DEF Reason, Reasons
  <2>3. CASE C # {} /\ e.exact > 1
    BY <1>1, <1>3, <2>3 DEF Reason, Reasons
  <2>4. CASE C # {} /\ e.exact = 0
    <3>1. e.considered > 0
      BY <1>1, <1>3, <2>4
    <3>2. Reason(e) = IF e.best >= AcceptScore /\ e.margin >= MinimumMargin
                        THEN "high_confidence_title"
                      ELSE IF e.best >= ReviewScore THEN "similar_title_requires_review"
                      ELSE "below_review_threshold"
      BY <2>4, <3>1 DEF Reason, Reasons
    <3> QED BY <2>4, <3>2 DEF Reasons
  <2> QED BY <1>2, <1>3, <2>1, <2>2, <2>3, <2>4
<1>6. \A r \in Reasons :
        StatusFor(r) = "matched" <=> r \in {"unique_exact_title", "high_confidence_title"}
  BY DEF Reasons, StatusFor
<1> QED BY <1>5, <1>6 DEF MatchTMDBTitle, e

(* Without one that is not the best, the best scores as before and is as good,  *)
(* and the runner-up scores no more.                                          *)
LEMMA OneFewer ==
  ASSUME NEW C, Scorable(C), NEW x \in C, C # {}, x # Best(C)
  PROVE  LET D == C \ {x} IN
         /\ D # {}
         /\ Best(D).id = Best(C).id
         /\ BestScore(D) = BestScore(C)
         /\ RunnerUpScore(D) <= RunnerUpScore(C)
<1> DEFINE D == C \ {x}
           b == Best(C)
           d == Best(D)
<1>1. Scorable(D) /\ b \in D
  BY FewerScorable, BestIsBest
<1>2. b \in C /\ d \in D /\ d \in C /\ ~RanksBefore(b, d) /\ ~RanksBefore(d, b)
  BY <1>1, BestIsBest
<1>3. d.id = b.id /\ Score(d) = Score(b)
  BY <1>2 DEF RanksBefore, Scorable
<1>4. BestScore(D) = BestScore(C)
  BY <1>1, <1>3 DEF BestScore
<1>5. RunnerUpScore(D) <= RunnerUpScore(C)
  <2>1. CASE Cardinality(D) < 2
    <3>1. RunnerUpScore(D) = 0 /\ RunnerUpScore(C) \in Nat
      BY <2>1, ScoresInRange, ScoreAssumption DEF RunnerUpScore
    <3> QED BY <3>1
  <2>2. CASE ~(Cardinality(D) < 2)
    <3> DEFINE E == D \ {d}
               y == Best(E)
               z == Best(C \ {b})
    <3>1. Cardinality(D) \in Nat /\ Cardinality(C) = Cardinality(D) + 1
      BY <1>1, FS_CardinalityType, FS_RemoveElement DEF Scorable
    <3>2. Scorable(E) /\ Scorable(C \ {b})
      BY <1>1, FewerScorable
    <3>3. E # {}
      <4>1. Cardinality(E) = Cardinality(D) - 1
        BY <1>1, <1>2, FS_RemoveElement DEF Scorable
      <4>2. Cardinality(E) # 0
        BY <2>2, <3>1, <4>1
      <4> QED BY <4>2, FS_EmptySet
    <3>4. y \in E
      BY <3>2, <3>3, BestIsBest
    <3>5. \E c \in C \ {b} : Score(c) = Score(y)
      <4>1. CASE y = b
        BY <1>2, <1>3, <3>4, <4>1
      <4>2. CASE y # b
        BY <3>4, <4>2
      <4> QED BY <4>1, <4>2
    <3>6. Score(y) <= Score(z)
      BY <3>2, <3>5, BestIsBest
    <3>7. RunnerUpScore(D) = Score(y)
      BY <2>2, <3>3 DEF RunnerUpScore, BestScore
    <3>8. RunnerUpScore(C) = Score(z)
      BY <2>2, <3>1, <3>5 DEF RunnerUpScore, BestScore
    <3> QED BY <3>6, <3>7, <3>8
  <2> QED BY <2>1, <2>2
<1> QED BY <1>1, <1>3, <1>4, <1>5

(* What is exact when one is: the best.                                      *)
LEMMA ExactIsBest ==
  ASSUME NEW C, Scorable(C), NEW c \in C, Score(c) = Exact
  PROVE  Score(Best(C)) = Exact
<1>1. Score(c) <= Score(Best(C)) /\ Score(Best(C)) \in 0..Exact /\ Exact \in Nat
  BY BestIsBest, ScoreAssumption DEF Scorable
<1> QED BY <1>1

(* Doubt only grows with a candidate.                                        *)
LEMMA OneMoreDoubts ==
  ASSUME NEW wordless, NEW C, Scorable(C), NEW x \in C,
         MatchTMDBTitle(wordless, C).status = "matched", MatchTMDBTitle(wordless, C).id # x.id
  PROVE  /\ MatchTMDBTitle(wordless, C \ {x}).status = "matched"
         /\ MatchTMDBTitle(wordless, C \ {x}).id = MatchTMDBTitle(wordless, C).id
<1> DEFINE D == C \ {x}
           X == {c \in C : Score(c) = Exact}
           Y == {c \in D : Score(c) = Exact}
           e == Evidence(wordless, C)
           f == Evidence(wordless, D)
<1>1. MatchTMDBTitle(wordless, C).id = Best(C).id /\ x # Best(C)
  BY MatchedWhen
<1>2. /\ Scorable(D) /\ D # {} /\ Best(D).id = Best(C).id
      /\ BestScore(D) = BestScore(C) /\ RunnerUpScore(D) <= RunnerUpScore(C)
  BY <1>1, OneFewer, FewerScorable
<1>3. /\ e.exact = Cardinality(X) /\ e.best = BestScore(C)
      /\ e.margin = BestScore(C) - RunnerUpScore(C)
      /\ f.exact = Cardinality(Y) /\ f.best = BestScore(D)
      /\ f.margin = BestScore(D) - RunnerUpScore(D)
  BY DEF Evidence
<1>4. IsFiniteSet(X) /\ IsFiniteSet(Y)
  BY <1>2, FS_Subset DEF Scorable
<1>5. e.exact = 1 \/ (e.exact = 0 /\ e.best >= AcceptScore /\ e.margin >= MinimumMargin)
  BY MatchedWhen
<1>6. f.exact = 1 \/ (f.exact = 0 /\ f.best >= AcceptScore /\ f.margin >= MinimumMargin)
  <2>1. CASE e.exact = 1
    <3>1. PICK c : X = {c}
      BY <1>3, <1>4, <2>1, FS_Singleton
    <3>2. Best(C) \in X
      BY <3>1, ExactIsBest, BestIsBest
    <3>3. Y = {c}
      BY <1>1, <3>1, <3>2
    <3> QED BY <1>3, <3>3, FS_Singleton
  <2>2. CASE e.exact = 0 /\ e.best >= AcceptScore /\ e.margin >= MinimumMargin
    <3>1. X = {}
      BY <1>3, <1>4, <2>2, FS_EmptySet
    <3>2. Y = {}
      BY <3>1
    <3>3. f.exact = 0
      BY <1>3, <3>2, FS_EmptySet
    <3>4. {BestScore(C), RunnerUpScore(C), BestScore(D), RunnerUpScore(D)} \subseteq Nat
      BY <1>2, ScoresInRange, ScoreAssumption
    <3>5. f.margin >= e.margin /\ f.margin \in Int /\ e.margin \in Int
      BY <1>2, <1>3, <3>4
    <3> QED BY <1>2, <1>3, <2>2, <3>3, <3>5, ScoreAssumption
  <2> QED BY <1>5, <2>1, <2>2
<1> HIDE DEF D, e, f
<1>7. MatchTMDBTitle(wordless, D).status = "matched" /\ MatchTMDBTitle(wordless, D).id = Best(D).id
  BY <1>2, <1>6, MatchedWhen DEF f
<1> QED BY <1>1, <1>2, <1>7 DEF D

(* What a search decodes to.                                                 *)
LEMMA DecodedScorable ==
  ASSUME NEW E \in Responses
  PROVE  /\ Scorable(DecodeSearch(E).candidates)
         /\ \A c \in DecodeSearch(E).candidates :
              c.id \in Nat \ {0} /\ c.media \in MediaTypes
<1> DEFINE found == {DecodeSearchCandidate(e) : e \in Included(E)}
<1>1. IsFiniteSet(E) /\ E \subseteq Entity
  BY ResponsesAssumption
<1>2. IsFiniteSet(found)
  <2> DEFINE f == [e \in Included(E) |-> DecodeSearchCandidate(e)]
  <2>1. IsFiniteSet(Included(E))
    BY <1>1, FS_Subset DEF Included
  <2>2. f \in Surjection(Included(E), found)
    BY DEF Surjection
  <2> QED BY <2>1, <2>2, FS_Surjection
<1>3. \A e \in Included(E) : Score(DecodeSearchCandidate(e)) \in 0..Exact
  BY <1>1, ScoreAssumption DEF Included, Entity, Score, DecodeSearchCandidate
<1>4. \A e \in Included(E) :
        /\ DecodeSearchCandidate(e).id = e.id /\ e.id \in Int
        /\ DecodeSearchCandidate(e).media \in MediaTypes
  BY <1>1 DEF Included, Entity, DecodeSearchCandidate, MediaTypes
<1>5. Scorable(found)
  BY <1>2, <1>3, <1>4 DEF Scorable
<1>6. Scorable({})
  BY FS_EmptySet DEF Scorable
<1>7. SearchDecodes(E) => \A c \in found : c.id \in Nat \ {0} /\ c.media \in MediaTypes
  <2> SUFFICES ASSUME SearchDecodes(E), NEW e \in Included(E)
               PROVE  /\ DecodeSearchCandidate(e).id \in Nat \ {0}
                      /\ DecodeSearchCandidate(e).media \in MediaTypes
    OBVIOUS
  <2>1. e.id > 0
    BY DEF SearchDecodes, ValidCandidate
  <2> QED BY <1>4, <2>1
<1>8. DecodeSearch(E).candidates = {} \/ (SearchDecodes(E) /\ DecodeSearch(E).candidates = found)
  BY DEF DecodeSearch
<1> QED BY <1>5, <1>6, <1>7, <1>8

LEMMA ResponsesDoubt == DoubtGrows
<1> SUFFICES ASSUME NEW E \in Responses, NEW x \in DecodeSearch(E).candidates,
                    MatchTMDBTitle(FALSE, DecodeSearch(E).candidates).status = "matched",
                    MatchTMDBTitle(FALSE, DecodeSearch(E).candidates).id # x.id
             PROVE  LET before == MatchTMDBTitle(FALSE, DecodeSearch(E).candidates \ {x})
                    IN /\ before.status = "matched"
                       /\ before.id = MatchTMDBTitle(FALSE, DecodeSearch(E).candidates).id
  BY DEF DoubtGrows
<1> QED BY DecodedScorable, OneMoreDoubts

(* For any scores and responses: a search that finds one candidate more never   *)
(* accepts one of the others that MatchTMDBTitle did not accept without it.    *)
THEOREM DoubtOnlyGrows == Spec => []AcceptedBefore
<1>1. AcceptedBefore
  BY ResponsesDoubt DEF AcceptedBefore
<1> QED BY <1>1, PTL

-----------------------------------------------------------------------------
(***************************************************************************)
(* The client: requests of all users keep their interval.                  *)
(***************************************************************************)
(* A caller that waits has a slot before the pacer's next one, an interval   *)
(* before it at the latest unless that slot has come.                        *)
SlotsGiven ==
  \A c \in Callers : call[c].pc = "waiting" =>
    /\ call[c].delay \in Nat
    /\ call[c].delay > 0 => call[c].delay + Interval <= ahead

ClientInv ==
  /\ DOMAIN call = Callers
  /\ \A c \in Callers : DOMAIN call[c] = {"pc", "attempt", "delay"}
  /\ ahead \in Nat
  /\ calm \in 0..Interval
  /\ SlotsGiven
  /\ SlotsApart

(* A new process begins with no caller and a pacer of its own.               *)
LEMMA ClientInvInit == ClientInit => ClientInv
  BY IntervalAssumption DEF ClientInit, ClientInv, SlotsGiven, SlotsApart, WaitersApart, Ahead,
    NoCall

(* Taking the next slot keeps it an interval behind all others.              *)
LEMMA WaitKeepsSlots ==
  ASSUME NEW c \in Callers, NEW attempt, ClientInv, call[c].pc # "waiting", Wait(c, attempt)
  PROVE  ClientInv'
<1> USE IntervalAssumption DEF ClientInv
<1>1. /\ DOMAIN call' = Callers
      /\ \A d \in Callers : DOMAIN call'[d] = {"pc", "attempt", "delay"}
      /\ call'[c] = [pc |-> "waiting", attempt |-> attempt, delay |-> ahead]
      /\ \A d \in Callers \ {c} : call'[d] = call[d]
  BY DEF Wait
<1>2. ahead' = ahead + Interval /\ calm' = IF ahead = 0 THEN 0 ELSE calm
  BY DEF Wait
<1>3. ahead' \in Nat /\ calm' \in 0..Interval
  BY <1>2
<1>4. SlotsGiven'
  BY <1>1, <1>2 DEF SlotsGiven
<1>5. \A d \in Callers \ {c} : Ahead(d)' => Ahead(d) /\ call'[d].delay + Interval <= ahead
  BY <1>1 DEF Ahead, SlotsGiven
<1>6. WaitersApart'
  <2> SUFFICES ASSUME NEW d \in Callers, NEW e \in Callers, Ahead(d)', Ahead(e)', d # e
               PROVE  \/ call'[d].delay + Interval <= call'[e].delay
                      \/ call'[e].delay + Interval <= call'[d].delay
    BY DEF WaitersApart
  <2>1. CASE d = c
    BY <1>1, <1>5, <2>1
  <2>2. CASE e = c
    BY <1>1, <1>5, <2>2
  <2>3. CASE d # c /\ e # c
    BY <1>1, <1>5, <2>3 DEF SlotsApart, WaitersApart
  <2> QED BY <2>1, <2>2, <2>3
<1>7. \A d \in Callers : Ahead(d)' => call'[d].delay + calm' >= Interval
  <2> SUFFICES ASSUME NEW d \in Callers, Ahead(d)'
               PROVE  call'[d].delay + calm' >= Interval
    OBVIOUS
  <2>1. CASE d = c
    BY <1>1, <1>2, <2>1 DEF Ahead, SlotsApart
  <2>2. CASE d # c
    BY <1>1, <1>2, <1>5, <2>2 DEF Ahead, SlotsApart, SlotsGiven
  <2> QED BY <2>1, <2>2
<1>8. ahead' + calm' >= Interval
  BY <1>2 DEF SlotsApart
<1> QED BY <1>1, <1>3, <1>4, <1>6, <1>7, <1>8 DEF SlotsApart

(* A caller that goes to sleep, is answered or gives up frees no slot.        *)
LEMMA LeavingKeepsSlots ==
  ASSUME NEW c \in Callers, NEW to, ClientInv, to.pc # "waiting",
         DOMAIN to = {"pc", "attempt", "delay"},
         call' = [call EXCEPT ![c] = to], UNCHANGED <<ahead, calm>>
  PROVE  ClientInv'
<1>1. \A d \in Callers : call'[d] = IF d = c THEN to ELSE call[d]
  BY DEF ClientInv
<1>2. /\ DOMAIN call' = Callers
      /\ \A d \in Callers : DOMAIN call'[d] = {"pc", "attempt", "delay"}
  BY <1>1 DEF ClientInv
<1>3. SlotsGiven'
  BY <1>1 DEF ClientInv, SlotsGiven
<1>4. \A d \in Callers : Ahead(d)' => Ahead(d) /\ call'[d] = call[d]
  BY <1>1 DEF Ahead
<1>5. WaitersApart'
  BY <1>4 DEF ClientInv, SlotsApart, WaitersApart
<1>6. \A d \in Callers : Ahead(d)' => call'[d].delay + calm' >= Interval
  BY <1>4 DEF ClientInv, SlotsApart
<1> QED BY <1>2, <1>3, <1>5, <1>6 DEF ClientInv, SlotsApart

(* Time brings all slots nearer by one, and at most one of them comes.        *)
LEMMA TimeKeepsSlots == ASSUME ClientInv, Tick PROVE ClientInv'
<1> USE IntervalAssumption
<1>1. /\ DOMAIN call' = Callers
      /\ \A c \in Callers : /\ DOMAIN call'[c] = {"pc", "attempt", "delay"}
                            /\ call'[c].pc = call[c].pc
                            /\ call'[c].delay = Later(call[c].delay)
  BY DEF ClientInv, Tick, Elapse
<1>2. ahead' = Later(ahead)
  BY DEF Tick, Elapse
<1>3. calm' = IF SlotComes THEN 0 ELSE IF calm < Interval THEN calm + 1 ELSE calm
  BY DEF Tick, Elapse
<1>4. ahead' \in Nat /\ calm' \in 0..Interval
  BY <1>2, <1>3 DEF ClientInv, Later
<1>5. SlotsGiven'
  BY <1>1, <1>2 DEF ClientInv, SlotsGiven, Later
<1>6. \A c \in Callers : Ahead(c)' =>
        /\ Ahead(c) /\ call[c].delay \in Nat /\ call[c].delay >= 2
        /\ call'[c].delay = call[c].delay - 1
  BY <1>1 DEF ClientInv, SlotsGiven, Ahead, Later
<1>7. WaitersApart'
  BY <1>6 DEF ClientInv, SlotsApart, WaitersApart
<1>8. CASE SlotComes
  <2>1. PICK first \in Callers : call[first].pc = "waiting" /\ call[first].delay = 1
    BY <1>8 DEF SlotComes
  <2>2. ahead >= 1 + Interval
    BY <2>1 DEF ClientInv, SlotsGiven
  <2>3. \A c \in Callers : Ahead(c)' => call[c].delay >= 1 + Interval
    BY <1>6, <2>1 DEF ClientInv, SlotsApart, WaitersApart, Ahead
  <2>4. \A c \in Callers : Ahead(c)' => call'[c].delay + calm' >= Interval
    BY <1>3, <1>6, <1>8, <2>3
  <2>5. ahead' + calm' >= Interval
    BY <1>2, <1>3, <1>8, <2>2 DEF ClientInv, Later
  <2> QED BY <1>1, <1>4, <1>5, <1>7, <2>4, <2>5 DEF ClientInv, SlotsApart
<1>9. CASE ~SlotComes
  <2>1. \A c \in Callers : Ahead(c)' => call'[c].delay + calm' >= Interval
    BY <1>3, <1>6, <1>9 DEF ClientInv, SlotsApart
  <2>2. ahead' + calm' >= Interval
    BY <1>2, <1>3, <1>9 DEF ClientInv, SlotsApart, Later
  <2> QED BY <1>1, <1>4, <1>5, <1>7, <2>1, <2>2 DEF ClientInv, SlotsApart
<1> QED BY <1>8, <1>9

(* Every step of a caller.                                                    *)
LEMMA CallKeepsSlots == ASSUME NEW c \in Callers, ClientInv, CallStep(c) PROVE ClientInv'
<1>1. CASE Request(c)
  BY <1>1, WaitKeepsSlots DEF Request
<1>2. CASE Retry(c)
  BY <1>2, WaitKeepsSlots DEF Retry
<1>3. ASSUME End(c) PROVE ClientInv'
  BY <1>3, LeavingKeepsSlots DEF End, NoCall
<1>4. CASE Sleep(c)
  <2>1. PICK d : call' = [call EXCEPT ![c] = [call[c] EXCEPT !.pc = "sleeping", !.delay = d]]
    BY <1>4 DEF Sleep
  <2>2. /\ [call[c] EXCEPT !.pc = "sleeping", !.delay = d].pc # "waiting"
        /\ DOMAIN [call[c] EXCEPT !.pc = "sleeping", !.delay = d] = {"pc", "attempt", "delay"}
    BY DEF ClientInv
  <2> QED BY <1>4, <2>1, <2>2, LeavingKeepsSlots DEF Sleep
<1> QED BY <1>1, <1>2, <1>3, <1>4 DEF CallStep, Respond, Interrupt

LEMMA ClientStep == ClientInv /\ [ClientNext]_clientVars => ClientInv'
<1>1. ASSUME ClientInv, ClientNext PROVE ClientInv'
  BY <1>1, TimeKeepsSlots, CallKeepsSlots DEF ClientNext
<1>2. ASSUME ClientInv, UNCHANGED clientVars PROVE ClientInv'
  BY <1>2 DEF clientVars, ClientInv, SlotsGiven, SlotsApart, WaitersApart, Ahead
<1> QED BY <1>1, <1>2

(* For any callers, interval, delays and number of attempts, requests are an  *)
(* interval apart: requestPacer.Wait is safe whoever is cancelled, answered   *)
(* or told to retry while others wait.                                        *)
THEOREM ClientSlotsApart == ClientSpec => []SlotsApart
<1>1. ClientInv => SlotsApart
  BY DEF ClientInv
<1> QED BY <1>1, ClientInvInit, ClientStep, PTL DEF ClientSpec

-----------------------------------------------------------------------------
(***************************************************************************)
(* The pool uses the client as ClientSpec allows; a new process begins     *)
(* with a client of its own.                                               *)
(***************************************************************************)
ClientRuns == ClientInit /\ [][ClientNext \/ ClientInit']_clientVars

LEMMA JobLeavesClient == Job => UNCHANGED clientVars
  BY DEF Job, JobFrame, ReadCheckpoints, ReadArtifacts, CollectError, DropResult,
    WriteCheckpoint, RecordProgress, EndPool, Build, RemoveCheckpoints, Activate,
    RemoveDirectory, FailGeneration

LEMMA WorkUsesClient ==
  ASSUME NEW w \in Workers, Work(w) PROVE ClientNext \/ UNCHANGED clientVars
<1>1. w \in Callers
  BY CallersAssumption
<1>2. CASE LookupTitle(w) \/ Put(w)
  BY <1>2 DEF LookupTitle, Put
<1>3. CASE BeginSearch(w) \/ BeginDetails(w)
  BY <1>1, <1>3 DEF BeginSearch, BeginDetails, BeginCall, ClientNext, CallStep
<1>4. CASE Search(w) \/ Details(w)
  BY <1>1, <1>4 DEF Search, Details, ClientNext, CallStep
<1>5. CASE CallGoesOn(w) \/ CallFails(w)
  BY <1>1, <1>5 DEF CallGoesOn, CallFails, ClientNext, CallStep
<1> QED BY <1>2, <1>3, <1>4, <1>5 DEF Work

LEMMA NextUsesClient == [Next]_vars => [ClientNext \/ ClientInit']_clientVars
<1> SUFFICES ASSUME [Next]_vars PROVE ClientNext \/ ClientInit' \/ UNCHANGED clientVars
  OBVIOUS
<1>1. CASE Job
  BY <1>1, JobLeavesClient
<1>2. CASE CloseJobs \/ \E w \in Workers : Dispatch(w)
  BY <1>2 DEF CloseJobs, Dispatch, clientVars
<1>3. CASE \E w \in Workers : Work(w)
  BY <1>3, WorkUsesClient
<1>4. CASE Time
  BY <1>4 DEF Time, ClientNext
<1>5. CASE Closed \/ Crash
  BY <1>5 DEF Closed, Crash, Gone, ClientInit
<1>6. CASE (\E l \in Locales : Begin(l)) \/ Cancel \/ DeleteProvider \/ Close \/ Open \/ Ageing
  BY <1>6 DEF Begin, Cancel, DeleteProvider, Close, Open, Ageing
<1>7. CASE UNCHANGED vars
  BY <1>7 DEF vars
<1> QED BY <1>1, <1>2, <1>3, <1>4, <1>5, <1>6, <1>7 DEF Next, Running

(* Whatever the pool, DELETE, close and a crash do, the client's pacer and     *)
(* retries run as TMDBClient describes them.                                  *)
THEOREM ClientFollowed == Spec => ClientRuns
<1>1. Init => ClientInit
  BY DEF Init
<1> QED BY <1>1, NextUsesClient, PTL DEF Spec, ClientRuns

(* Requests of all workers are an interval apart, for any number of them.      *)
THEOREM RequestsApart == Spec => []SlotsApart
<1>1. ClientInv /\ [ClientNext \/ ClientInit']_clientVars => ClientInv'
  <2>1. ClientInit' => ClientInv'
    BY ClientInvInit, PTL
  <2> QED BY <2>1, ClientStep
<1>2. ClientRuns => []ClientInv
  BY <1>1, ClientInvInit, PTL DEF ClientRuns
<1>3. ClientInv => SlotsApart
  BY DEF ClientInv
<1> QED BY <1>2, <1>3, ClientFollowed, PTL

-----------------------------------------------------------------------------
(***************************************************************************)
(* The pool: a title is with one worker at a time and is not handed out    *)
(* again, and workers run only while their job is in the pool.             *)
(***************************************************************************)

(* The fields of records, which every step keeps; and no job runs in a process *)
(* that is down.                                                              *)
WellFormed ==
  /\ DOMAIN worker = Workers
  /\ \A w \in Workers : DOMAIN worker[w] = {"pc", "title", "status", "accepted"}
  /\ DOMAIN job = {"pc", "canceled", "error"}
  /\ DOMAIN gen = {"state", "locale", "code", "counts", "built"}
  /\ phase = "down" => job.pc = "idle"

Busy(w) == worker[w].pc # "ready"

InPool == job.pc \in {"pool", "record"}

HandedOutOnce ==
  /\ \A w \in Workers : Busy(w) => worker[w].title \notin todo
  /\ \A v, w \in Workers :
       v # w /\ Busy(v) /\ Busy(w) => worker[v].title # worker[w].title

OnlyInPool == InPool \/ (closed /\ \A w \in Workers : ~Busy(w))

PoolInv == WellFormed /\ HandedOutOnce /\ OnlyInPool

(* An answer is in the cache until it expires.                               *)
AnsweredFresh == \A u \in answered : \E r \in cache : r.key = u /\ r.lookup = u /\ r.fresh

AskInv == PoolInv /\ AnsweredFresh /\ CachedNotAsked

LEMMA AskInvInit == Init => AskInv
  BY DEF Init, CacheInit, AskInv, PoolInv, WellFormed, HandedOutOnce, OnlyInPool, Busy, InPool,
    AnsweredFresh, CachedNotAsked, Ready, NoJob, NoGeneration, NewGeneration

(* A step that leaves workers, titles to do, locale, cache and answers alone,  *)
(* and leaves the pool only once it has ended.                                *)
LEMMA QuietStep ==
  ASSUME AskInv, WellFormed', UNCHANGED <<worker, todo, cache, answered>>,
         gen'.locale = gen.locale, closed => closed',
         InPool => InPool' \/ (closed /\ \A w \in Workers : ~Busy(w))
  PROVE  AskInv'
<1>1. HandedOutOnce'
  BY DEF AskInv, PoolInv, HandedOutOnce, Busy
<1>2. OnlyInPool'
  BY DEF AskInv, PoolInv, OnlyInPool, Busy
<1>3. AnsweredFresh'
  BY DEF AskInv, AnsweredFresh
<1>4. CachedNotAsked'
  BY DEF AskInv, CachedNotAsked, LookupOf, Lookup
<1> QED BY <1>1, <1>2, <1>3, <1>4 DEF AskInv, PoolInv

(* A step outside the pool, that may start one.                               *)
LEMMA OutsideStep ==
  ASSUME AskInv, WellFormed', ~InPool, worker' = worker, InPool' \/ closed' = closed, AnsweredFresh'
  PROVE  AskInv'
<1>1. \A w \in Workers : ~Busy(w) /\ ~Busy(w)'
  BY DEF AskInv, PoolInv, OnlyInPool, Busy
<1>2. HandedOutOnce'
  BY <1>1 DEF HandedOutOnce
<1>3. OnlyInPool'
  BY <1>1 DEF AskInv, PoolInv, OnlyInPool
<1>4. CachedNotAsked'
  BY <1>1 DEF CachedNotAsked, Busy
<1> QED BY <1>2, <1>3, <1>4 DEF AskInv, PoolInv

(* What the job does in, before and after its pool.                           *)
LEMMA JobKeepsWellFormed == ASSUME WellFormed, Job PROVE WellFormed'
<1>0. phase' # "down"
  BY DEF WellFormed, Job, JobFrame, ReadCheckpoints, ReadArtifacts, CollectError, DropResult,
    WriteCheckpoint, RecordProgress, EndPool, Build, RemoveCheckpoints, Activate,
    RemoveDirectory, FailGeneration, Collecting
<1>1. CASE ReadCheckpoints
  BY <1>0, <1>1 DEF ReadCheckpoints, JobFails, JobTo, Faulty, StartPool, WellFormed, pool
<1>2. CASE ReadArtifacts
  BY <1>0, <1>2 DEF ReadArtifacts, JobFails, JobTo, Faulty, WellFormed, pool, stored
<1>3. CASE CollectError \/ DropResult \/ WriteCheckpoint \/ RecordProgress \/ EndPool
  BY <1>0, <1>3 DEF CollectError, DropResult, WriteCheckpoint, RecordProgress, EndPool, Received,
    JobFails, JobTo, WellFormed, pool, stored
<1>4. CASE Build \/ RemoveCheckpoints
  BY <1>0, <1>4 DEF Build, RemoveCheckpoints, JobFails, JobTo, Faulty, WellFormed, pool
<1>5. CASE Activate \/ RemoveDirectory \/ FailGeneration
  BY <1>0, <1>5 DEF Activate, RemoveDirectory, FailGeneration, JobFails, JobTo, Faulty, NoJob,
    WellFormed, pool, stored
<1> QED BY <1>1, <1>2, <1>3, <1>4, <1>5 DEF Job

LEMMA JobKeepsAsk == ASSUME AskInv, Job PROVE AskInv'
<1>1. WellFormed'
  BY JobKeepsWellFormed DEF AskInv, PoolInv
<1>2. UNCHANGED <<cache, answered>>
  BY DEF Job, JobFrame, ReadCheckpoints, ReadArtifacts, CollectError, DropResult,
    WriteCheckpoint, RecordProgress, EndPool, Build, RemoveCheckpoints, Activate,
    RemoveDirectory, FailGeneration
<1>3. AnsweredFresh'
  BY <1>2 DEF AskInv, AnsweredFresh
<1>4. CASE ReadCheckpoints
  <2>1. ~InPool /\ worker' = worker
    BY <1>4 DEF ReadCheckpoints, InPool, StartPool, pool
  <2>2. job'.pc = "pool" \/ closed' = closed
    BY <1>4 DEF ReadCheckpoints, StartPool, JobTo, pool, AskInv, PoolInv, WellFormed
  <2> QED BY <1>1, <1>3, <2>1, <2>2, OutsideStep DEF InPool
<1>5. CASE ReadArtifacts \/ Build \/ RemoveCheckpoints \/ Activate \/ RemoveDirectory
            \/ FailGeneration
  <2>1. ~InPool /\ worker' = worker /\ closed' = closed
    BY <1>5 DEF ReadArtifacts, Build, RemoveCheckpoints, Activate, RemoveDirectory,
      FailGeneration, InPool, pool
  <2> QED BY <1>1, <1>3, <2>1, OutsideStep
<1>6. CASE CollectError \/ DropResult \/ WriteCheckpoint \/ RecordProgress
  <2>1. UNCHANGED <<worker, todo, closed>>
    BY <1>6 DEF CollectError, DropResult, WriteCheckpoint, RecordProgress, Received, pool
  <2>2. InPool => InPool'
    BY <1>6 DEF CollectError, DropResult, WriteCheckpoint, RecordProgress, Collecting, InPool,
      JobFrame, JobTo, AskInv, PoolInv, WellFormed, stored
  <2>3. gen'.locale = gen.locale
    BY <1>6 DEF CollectError, DropResult, WriteCheckpoint, RecordProgress, stored, AskInv,
      PoolInv, WellFormed
  <2> QED BY <1>1, <1>2, <2>1, <2>2, <2>3, QuietStep
<1>7. CASE EndPool
  <2>1. UNCHANGED <<worker, todo, closed, gen>> /\ closed /\ \A w \in Workers : ~Busy(w)
    BY <1>7 DEF EndPool, PoolEnded, Busy, pool, stored
  <2> QED BY <1>1, <1>2, <2>1, QuietStep
<1> QED BY <1>4, <1>5, <1>6, <1>7 DEF Job

(* The dispatcher takes a title that no worker has.                           *)
LEMMA DispatchKeepsAsk == ASSUME NEW w \in Workers, AskInv, Dispatch(w) PROVE AskInv'
<1>1. PICK t \in todo :
        /\ worker' = [worker EXCEPT ![w] = [Ready EXCEPT !.pc = "enrich", !.title = t]]
        /\ todo' = todo \ {t}
  BY DEF Dispatch
<1>2. UNCHANGED <<gen, job, phase, cache, answered, closed>> /\ ~closed /\ ~Busy(w)
  BY DEF Dispatch, PoolFrame, stored, Busy
<1>3. /\ worker'[w].pc = "enrich" /\ worker'[w].title = t
      /\ DOMAIN worker'[w] = {"pc", "title", "status", "accepted"}
      /\ \A v \in Workers \ {w} : worker'[v] = worker[v]
      /\ DOMAIN worker' = Workers
  BY <1>1 DEF Ready, AskInv, PoolInv, WellFormed
<1>4. WellFormed'
  BY <1>2, <1>3 DEF AskInv, PoolInv, WellFormed
<1>5. HandedOutOnce'
  BY <1>1, <1>3 DEF AskInv, PoolInv, HandedOutOnce, Busy
<1>6. OnlyInPool'
  BY <1>2 DEF AskInv, PoolInv, OnlyInPool, InPool
<1>7. AnsweredFresh'
  BY <1>2 DEF AskInv, AnsweredFresh
<1>8. CachedNotAsked'
  BY <1>2, <1>3 DEF AskInv, CachedNotAsked, LookupOf, Lookup
<1> QED BY <1>4, <1>5, <1>6, <1>7, <1>8 DEF AskInv, PoolInv

(* A worker that keeps its title or gives it back, asks for nothing that is    *)
(* cached, and answers for its own title only.                                *)
LEMMA WorkerStep ==
  ASSUME NEW w \in Workers, NEW to, AskInv, Busy(w),
         worker' = [worker EXCEPT ![w] = to],
         DOMAIN to = {"pc", "title", "status", "accepted"},
         to.pc # "ready" => to.title = worker[w].title,
         to.pc \in {"search", "searching"} => LookupOf(w) \notin answered',
         UNCHANGED <<gen, job, phase, todo, closed>>,
         answered' \subseteq answered \cup {LookupOf(w)}, AnsweredFresh'
  PROVE  AskInv'
<1>1. /\ DOMAIN worker' = Workers
      /\ \A v \in Workers : worker'[v] = IF v = w THEN to ELSE worker[v]
  BY DEF AskInv, PoolInv, WellFormed
<1>2. WellFormed'
  BY <1>1 DEF AskInv, PoolInv, WellFormed
<1>3. HandedOutOnce'
  <2>1. \A v \in Workers : Busy(v)' => Busy(v) /\ worker'[v].title = worker[v].title
    BY <1>1 DEF Busy
  <2> QED BY <2>1 DEF AskInv, PoolInv, HandedOutOnce
<1>4. OnlyInPool'
  BY DEF AskInv, PoolInv, OnlyInPool, InPool
<1>5. CachedNotAsked'
  <2> SUFFICES ASSUME NEW v \in Workers, worker'[v].pc \in {"search", "searching"}
               PROVE  LookupOf(v)' \notin answered'
    BY DEF CachedNotAsked
  <2>1. CASE v = w
    BY <1>1, <2>1 DEF LookupOf, Lookup
  <2>2. CASE v # w
    <3>1. worker'[v] = worker[v] /\ Busy(v)
      BY <1>1, <2>2 DEF Busy
    <3>2. worker[v].title # worker[w].title
      BY <2>2, <3>1 DEF AskInv, PoolInv, HandedOutOnce
    <3>3. LookupOf(v)' = LookupOf(v) /\ LookupOf(v) # LookupOf(w)
      BY <3>1, <3>2 DEF LookupOf, Lookup
    <3>4. LookupOf(v) \notin answered
      BY <3>1 DEF AskInv, CachedNotAsked
    <3> QED BY <3>3, <3>4
  <2> QED BY <2>1, <2>2
<1> QED BY <1>2, <1>3, <1>4, <1>5 DEF AskInv, PoolInv

(* A worker that sends its result is ready again.                             *)
LEMMA SendKeepsAsk ==
  ASSUME NEW w \in Workers, NEW status, NEW hit, NEW code, AskInv, Busy(w),
         Send(w, status, hit, code), UNCHANGED <<gen, job, phase, todo, closed>>,
         answered' \subseteq answered \cup {LookupOf(w)}, AnsweredFresh'
  PROVE  AskInv'
<1>1. worker' = [worker EXCEPT ![w] = Ready]
  BY DEF Send
<1>2. DOMAIN Ready = {"pc", "title", "status", "accepted"} /\ Ready.pc = "ready"
  BY DEF Ready
<1> QED BY <1>1, <1>2, WorkerStep

(* A worker that goes on without one keeps its title.                         *)
LEMMA GoOnKeepsAsk ==
  ASSUME NEW w \in Workers, NEW pc, AskInv, Busy(w), WorkerTo(w, pc),
         pc \in {"search", "searching"} => LookupOf(w) \notin answered,
         UNCHANGED <<gen, job, phase, todo, closed, answered>>, AnsweredFresh'
  PROVE  AskInv'
<1> DEFINE to == [worker[w] EXCEPT !.pc = pc]
<1>1. worker' = [worker EXCEPT ![w] = to]
  BY DEF WorkerTo
<1>2. /\ DOMAIN to = {"pc", "title", "status", "accepted"}
      /\ to.title = worker[w].title /\ to.pc = pc
  BY DEF AskInv, PoolInv, WellFormed
<1> HIDE DEF to
<1> QED BY <1>1, <1>2, WorkerStep

(* The cache forgets stale rows of the lookup only, and finds what was         *)
(* answered.                                                                  *)
LEMMA LookupKeepsAsk == ASSUME NEW w \in Workers, AskInv, LookupTitle(w) PROVE AskInv'
<1> DEFINE u == LookupOf(w)
<1>1. Busy(w) /\ UNCHANGED <<gen, job, phase, todo, closed, answered>>
  BY DEF LookupTitle, WorkerFrame, PoolFrame, stored, Busy
<1>2. cache' = cache \/ cache' = cache \ (RowOf(u) \ Found(u))
  BY DEF LookupTitle, LookUp
<1>3. AnsweredFresh'
  <2> SUFFICES ASSUME NEW a \in answered
               PROVE  \E r \in cache' : r.key = a /\ r.lookup = a /\ r.fresh
    BY <1>1 DEF AnsweredFresh
  <2>1. PICK r \in cache : r.key = a /\ r.lookup = a /\ r.fresh
    BY DEF AskInv, AnsweredFresh
  <2>2. r \notin RowOf(u) \ Found(u)
    BY <2>1 DEF RowOf, Found, CacheKey
  <2> QED BY <1>2, <2>1, <2>2
<1>4. CASE Found(u) = {} /\ WorkerTo(w, "search")
  <2>1. u \notin answered
    BY <1>4 DEF AskInv, AnsweredFresh, Found, RowOf, CacheKey
  <2> QED BY <1>1, <1>3, <1>4, <2>1, GoOnKeepsAsk
<1>5. CASE \E r \in Found(u) : Outcome(w, r.status, TRUE)
  BY <1>1, <1>3, <1>5, SendKeepsAsk DEF Outcome
<1>6. ASSUME NEW code, Error(w, code) PROVE AskInv'
  BY <1>1, <1>3, <1>6, SendKeepsAsk DEF Error
<1> QED BY <1>4, <1>5, <1>6 DEF LookupTitle

(* The row of a new answer replaces rows of the same key only.                *)
LEMMA PutKeepsAsk == ASSUME NEW w \in Workers, AskInv, Put(w) PROVE AskInv'
<1> DEFINE u == LookupOf(w)
           row == [key |-> CacheKey(u), lookup |-> u, status |-> worker[w].status,
                   fresh |-> TRUE]
<1>1. Busy(w) /\ UNCHANGED <<gen, job, phase, todo, closed>>
  BY DEF Put, WorkerFrame, PoolFrame, stored, Busy
<1>2. CASE UNCHANGED <<cache, answered>>
  <2>1. AnsweredFresh'
    BY <1>2 DEF AskInv, AnsweredFresh
  <2>2. (\E code : Error(w, code)) \/ Outcome(w, worker[w].status, FALSE)
    BY DEF Put
  <2> QED BY <1>1, <1>2, <2>1, <2>2, SendKeepsAsk DEF Error, Outcome
<1>3. CASE /\ PutAll(u, worker[w].status) /\ answered' = answered \cup {u}
           /\ Outcome(w, worker[w].status, FALSE)
  <2>1. cache' = (cache \ RowOf(u)) \cup {row}
    BY <1>3 DEF PutAll
  <2>2. AnsweredFresh'
    <3> SUFFICES ASSUME NEW a \in answered'
                 PROVE  \E r \in cache' : r.key = a /\ r.lookup = a /\ r.fresh
      BY DEF AnsweredFresh
    <3>1. CASE a = u
      <4>1. row \in cache' /\ row.key = a /\ row.lookup = a /\ row.fresh
        BY <2>1, <3>1 DEF CacheKey
      <4> QED BY <4>1
    <3>2. CASE a # u
      <4>1. PICK r \in cache : r.key = a /\ r.lookup = a /\ r.fresh
        BY <1>3, <3>2 DEF AskInv, AnsweredFresh
      <4> QED BY <2>1, <3>2, <4>1 DEF RowOf, CacheKey
    <3> QED BY <3>1, <3>2
  <2> QED BY <1>1, <1>3, <2>2, SendKeepsAsk DEF Outcome
<1> QED BY <1>2, <1>3 DEF Put

(* What a worker does between its lookup and the end of its call.             *)
LEMMA CallKeepsAsk ==
  ASSUME NEW w \in Workers, AskInv,
         BeginSearch(w) \/ BeginDetails(w) \/ Search(w) \/ Details(w) \/ CallGoesOn(w)
           \/ CallFails(w)
  PROVE  AskInv'
<1>1. Busy(w) /\ UNCHANGED <<gen, job, phase, todo, closed, cache, answered>>
  BY DEF BeginSearch, BeginDetails, BeginCall, Search, Details, CallGoesOn, CallFails, InCall,
    WorkerFrame, PoolFrame, stored, Busy
<1>2. AnsweredFresh'
  BY <1>1 DEF AskInv, AnsweredFresh
<1>3. ASSUME NEW code, Error(w, code) PROVE AskInv'
  BY <1>1, <1>2, <1>3, SendKeepsAsk DEF Error
<1>4. CASE CallFails(w)
  BY <1>3, <1>4 DEF CallFails
<1>5. CASE CallGoesOn(w)
  BY <1>1, <1>2, <1>5, QuietStep DEF CallGoesOn, AskInv, PoolInv, WellFormed, InPool
<1>6. CASE BeginSearch(w)
  <2>1. ASSUME WorkerTo(w, "searching") PROVE AskInv'
    <3>1. LookupOf(w) \notin answered
      BY <1>6 DEF BeginSearch, BeginCall, AskInv, CachedNotAsked
    <3> QED BY <1>1, <1>2, <2>1, <3>1, GoOnKeepsAsk
  <2> QED BY <1>3, <1>6, <2>1 DEF BeginSearch, BeginCall
<1>7. CASE BeginDetails(w)
  <2>1. ASSUME WorkerTo(w, "detailing") PROVE AskInv'
    BY <1>1, <1>2, <2>1, GoOnKeepsAsk
  <2> QED BY <1>3, <1>7, <2>1 DEF BeginDetails, BeginCall
<1>8. ASSUME NEW to, worker' = [worker EXCEPT ![w] = to], to.pc \in {"details", "put"},
             to.title = worker[w].title, DOMAIN to = {"pc", "title", "status", "accepted"}
      PROVE  AskInv'
  BY <1>1, <1>2, <1>8, WorkerStep
<1>9. CASE Search(w)
  <2>1. ASSUME NEW o,
               worker' = [worker EXCEPT
                 ![w] = [@ EXCEPT !.pc = IF o.status = "matched" THEN "details" ELSE "put",
                                  !.status = o.status, !.accepted = o.accepted]]
        PROVE  AskInv'
    <3> DEFINE to == [worker[w] EXCEPT
                        !.pc = IF o.status = "matched" THEN "details" ELSE "put",
                        !.status = o.status, !.accepted = o.accepted]
    <3>1. /\ DOMAIN to = {"pc", "title", "status", "accepted"}
          /\ to.title = worker[w].title /\ to.pc \in {"details", "put"}
      BY DEF AskInv, PoolInv, WellFormed
    <3>2. worker' = [worker EXCEPT ![w] = to]
      BY <2>1
    <3> HIDE DEF to
    <3> QED BY <1>8, <3>1, <3>2
  <2> QED BY <1>3, <1>9, <2>1 DEF Search
<1>10. CASE Details(w)
  <2>1. ASSUME worker' = [worker EXCEPT ![w] = [@ EXCEPT !.pc = "put", !.accepted = None]]
        PROVE  AskInv'
    <3> DEFINE to == [worker[w] EXCEPT !.pc = "put", !.accepted = None]
    <3>1. /\ DOMAIN to = {"pc", "title", "status", "accepted"}
          /\ to.title = worker[w].title /\ to.pc = "put"
      BY DEF AskInv, PoolInv, WellFormed
    <3>2. worker' = [worker EXCEPT ![w] = to]
      BY <2>1
    <3> HIDE DEF to
    <3> QED BY <1>8, <3>1, <3>2
  <2> QED BY <1>3, <1>10, <2>1 DEF Details
<1> QED BY <1>4, <1>5, <1>6, <1>7, <1>9, <1>10

LEMMA WorkKeepsAsk == ASSUME NEW w \in Workers, AskInv, Work(w) PROVE AskInv'
  BY LookupKeepsAsk, CallKeepsAsk, PutKeepsAsk DEF Work

(* Requests, the end of the process, and time.                                *)
LEMMA OutsideKeepsAsk ==
  ASSUME AskInv,
         \/ \E l \in Locales : Begin(l)
         \/ Cancel \/ DeleteProvider \/ Close \/ Closed \/ Crash \/ Open \/ Ageing
  PROVE  AskInv'
<1>1. CASE \E l \in Locales : Begin(l)
  <2>1. WellFormed' /\ ~InPool /\ worker' = worker /\ closed' = closed
    BY <1>1 DEF Begin, NewGeneration, NoJob, AskInv, PoolInv, WellFormed, InPool, pool
  <2>2. AnsweredFresh'
    BY <1>1 DEF Begin, AskInv, AnsweredFresh
  <2> QED BY <2>1, <2>2, OutsideStep
<1>2. CASE Cancel \/ Close
  <2>1. UNCHANGED <<gen, worker, todo, closed, cache, answered>> /\ job'.pc = job.pc
    BY <1>2 DEF Cancel, Close, stored, pool, ghosts, AskInv, PoolInv, WellFormed
  <2>2. WellFormed'
    BY <1>2, <2>1 DEF Cancel, Close, AskInv, PoolInv, WellFormed
  <2> QED BY <2>1, <2>2, QuietStep DEF InPool
<1>3. CASE DeleteProvider
  <2>1. WellFormed' /\ ~InPool /\ worker' = worker /\ closed' = closed
    BY <1>3 DEF DeleteProvider, NoGeneration, NewGeneration, AskInv, PoolInv, WellFormed, InPool, pool
  <2>2. AnsweredFresh'
    BY <1>3 DEF DeleteProvider, AnsweredFresh
  <2> QED BY <2>1, <2>2, OutsideStep
<1>4. CASE Closed \/ Crash
  <2>1. /\ UNCHANGED <<gen, cache, answered>> /\ job' = NoJob /\ closed' = TRUE
        /\ worker' = [v \in Workers |-> Ready]
    BY <1>4 DEF Closed, Crash, Gone, stored, ghosts
  <2>2. WellFormed' /\ \A v \in Workers : worker'[v].pc = "ready"
    BY <2>1 DEF AskInv, PoolInv, WellFormed, Ready, NoJob
  <2>3. HandedOutOnce' /\ OnlyInPool' /\ CachedNotAsked'
    BY <2>1, <2>2 DEF HandedOutOnce, OnlyInPool, CachedNotAsked, Busy
  <2>4. AnsweredFresh'
    BY <2>1 DEF AskInv, AnsweredFresh
  <2> QED BY <2>2, <2>3, <2>4 DEF AskInv, PoolInv
<1>5. CASE Open
  <2>1. UNCHANGED <<gen, worker, todo, closed, cache, answered>>
    BY <1>5 DEF Open, stored, pool, ghosts
  <2>2. WellFormed'
    BY <1>5, <2>1 DEF Open, NoJob, AskInv, PoolInv, WellFormed
  <2>3. ~InPool
    BY <1>5 DEF Open, AskInv, PoolInv, WellFormed, InPool
  <2> QED BY <2>1, <2>2, <2>3, QuietStep
<1>6. CASE Ageing
  <2>1. PICK r \in cache : Expire(r) /\ answered' = answered \ {r.lookup}
                         /\ UNCHANGED <<gen, job, phase, worker, todo, closed>>
    BY <1>6 DEF Ageing, stored, pool
  <2>2. AnsweredFresh'
    <3> SUFFICES ASSUME NEW a \in answered'
                 PROVE  \E q \in cache' : q.key = a /\ q.lookup = a /\ q.fresh
      BY DEF AnsweredFresh
    <3>1. PICK q \in cache : q.key = a /\ q.lookup = a /\ q.fresh
      BY <2>1 DEF AskInv, AnsweredFresh
    <3> QED BY <2>1, <3>1 DEF Expire
  <2>3. PoolInv' /\ CachedNotAsked'
    BY <2>1 DEF AskInv, PoolInv, WellFormed, HandedOutOnce, OnlyInPool, Busy, InPool, CachedNotAsked,
      LookupOf, Lookup
  <2> QED BY <2>2, <2>3 DEF AskInv
<1> QED BY <1>1, <1>2, <1>3, <1>4, <1>5, <1>6

LEMMA AskInvStep == AskInv /\ [Next]_vars => AskInv'
<1> SUFFICES ASSUME AskInv, [Next]_vars PROVE AskInv'
  OBVIOUS
<1>1. CASE Job
  BY <1>1, JobKeepsAsk
<1>2. CASE CloseJobs
  <2>1. UNCHANGED <<gen, job, phase, worker, todo, cache, answered>> /\ closed'
    BY <1>2 DEF CloseJobs, PoolFrame, stored
  <2>2. WellFormed'
    BY <2>1 DEF AskInv, PoolInv, WellFormed
  <2> QED BY <2>1, <2>2, QuietStep DEF InPool
<1>3. CASE \E w \in Workers : Dispatch(w) \/ Work(w)
  BY <1>3, DispatchKeepsAsk, WorkKeepsAsk
<1>4. CASE Time \/ UNCHANGED vars
  <2>1. UNCHANGED <<gen, job, phase, worker, todo, closed, cache, answered>>
    BY <1>4 DEF Time, Rest, vars, stored, pool, ghosts
  <2>2. WellFormed'
    BY <2>1 DEF AskInv, PoolInv, WellFormed
  <2> QED BY <2>1, <2>2, QuietStep DEF InPool
<1>5. CASE \/ \E l \in Locales : Begin(l)
           \/ Cancel \/ DeleteProvider \/ Close \/ Closed \/ Crash \/ Open \/ Ageing
  BY <1>5, OutsideKeepsAsk
<1> QED BY <1>1, <1>2, <1>3, <1>4, <1>5 DEF Next, Running

(* For any titles and workers, no title is asked again while its answer is     *)
(* cached: not by a resumed job, by the next generation, or after the          *)
(* collector dropped the result of a stopped pool.                            *)
THEOREM AskedOnce == Spec => []CachedNotAsked
<1>1. AskInv => CachedNotAsked
  BY DEF AskInv
<1> QED BY <1>1, AskInvInit, AskInvStep, PTL DEF Spec

-----------------------------------------------------------------------------
(***************************************************************************)
(* The types.  A result in the channel is of a title that no worker has    *)
(* and that is not handed out again, so the channel never holds more than   *)
(* one for each title.                                                     *)
(***************************************************************************)
LEMMA BackoffTyped == \A n \in Nat : RetryBackoff(n) \in Nat
<1> SUFFICES ASSUME NEW n \in Nat PROVE RetryBackoff(n) \in Nat
  OBVIOUS
<1> DEFINE k == IF n < 5 THEN n ELSE 5
<1>1. k \in {0, 1, 2, 3, 4, 5}
  OBVIOUS
<1>2. 2 ^ 0 = 1 /\ 2 ^ 1 = 2 /\ 2 ^ 2 = 4 /\ 2 ^ 3 = 8 /\ 2 ^ 4 = 16 /\ 2 ^ 5 = 32
  OBVIOUS
<1>3. RetryBackoff(n) = Backoff * 2 ^ k
  BY DEF RetryBackoff
<1> HIDE DEF k
<1>4. 2 ^ k \in {1, 2, 4, 8, 16, 32}
  BY <1>1, <1>2, Zenon
<1>5. \A m \in {1, 2, 4, 8, 16, 32} : Backoff * m \in Nat
  BY DelayAssumption
<1> QED BY <1>3, <1>4, <1>5

(* A caller that sleeps has an attempt left.                                 *)
AttemptsLeft ==
  \A c \in Callers : call[c].pc = "sleeping" => call[c].attempt + 1 < MaxAttempts

CallsTyped == ClientTypeOK /\ AttemptsLeft

LEMMA CallsTypedInit == ClientInit => CallsTyped
  BY AttemptsAssumption, IntervalAssumption
    DEF ClientInit, CallsTyped, ClientTypeOK, AttemptsLeft, Call, NoCall

LEMMA CallsTypedStep == ASSUME CallsTyped, [ClientNext]_clientVars PROVE CallsTyped'
<1> USE DEF CallsTyped, ClientTypeOK, AttemptsLeft
<1>1. ASSUME NEW c \in Callers, NEW attempt \in 0..(MaxAttempts - 1), Wait(c, attempt)
      PROVE  CallsTyped'
  <2>1. call' \in [Callers -> Call]
    BY <1>1 DEF Wait, Call
  <2>3. \A d \in Callers : call'[d].pc = "sleeping" => call'[d] = call[d]
    BY <1>1 DEF Wait, Call
  <2>2. ahead' \in Nat /\ calm' \in 0..Interval
    BY <1>1, IntervalAssumption DEF Wait
  <2> QED BY <2>1, <2>2, <2>3
<1>2. ASSUME NEW c \in Callers, Request(c) PROVE CallsTyped'
  BY <1>1, <1>2, AttemptsAssumption DEF Request
<1>3. ASSUME NEW c \in Callers, Respond(c) \/ Interrupt(c) PROVE CallsTyped'
  BY <1>3, AttemptsAssumption DEF Respond, Interrupt, End, Call, NoCall
<1>4. ASSUME NEW c \in Callers, Sleep(c) PROVE CallsTyped'
  <2>1. PICK d \in RetryDelays(call[c].attempt) :
          call' = [call EXCEPT ![c] = [@ EXCEPT !.pc = "sleeping", !.delay = d]]
    BY <1>4 DEF Sleep
  <2>2. call[c] \in Call
    BY <1>4
  <2>3. d \in Nat
    BY <2>2, BackoffTyped, DelayAssumption, AttemptsAssumption
      DEF RetryDelays, ParseRetryAfter, Call
  <2>4. [call[c] EXCEPT !.pc = "sleeping", !.delay = d] \in Call
    BY <2>2, <2>3 DEF Call
  <2>5. call' \in [Callers -> Call]
    BY <2>1, <2>4
  <2>6. \A e \in Callers : call'[e].attempt = call[e].attempt /\ (e # c => call'[e] = call[e])
    BY <2>1, <2>2 DEF Call
  <2> QED BY <1>4, <2>5, <2>6 DEF Sleep
<1>5. ASSUME NEW c \in Callers, Retry(c) PROVE CallsTyped'
  <2>1. call[c].attempt + 1 \in 0..(MaxAttempts - 1)
    BY <1>5, AttemptsAssumption DEF Retry, Call
  <2> QED BY <1>1, <1>5, <2>1 DEF Retry
<1>6. CASE Tick
  <2>1. ASSUME NEW c \in Callers PROVE [call[c] EXCEPT !.delay = Later(@)] \in Call
    <3>1. call[c] \in Call /\ Later(call[c].delay) \in Nat
      BY DEF Call, Later
    <3> QED BY <3>1 DEF Call
  <2>2. call' \in [Callers -> Call]
    BY <1>6, <2>1 DEF Tick, Elapse
  <2>4. \A c \in Callers : call'[c].pc = call[c].pc /\ call'[c].attempt = call[c].attempt
    BY <1>6 DEF Tick, Elapse, Call
  <2>3. ahead' \in Nat /\ calm' \in 0..Interval
    BY <1>6, IntervalAssumption DEF Tick, Elapse, Later
  <2> QED BY <2>2, <2>3, <2>4
<1>7. CASE UNCHANGED clientVars
  BY <1>7 DEF clientVars
<1> QED BY <1>2, <1>3, <1>4, <1>5, <1>6, <1>7 DEF ClientNext, CallStep

(* Candidates whose details may be asked for.                                *)
Accepting == {o.accepted : o \in SearchOutcomes[FALSE]} \ {None}

(* What comes of a response: an error, or an outcome, with a candidate when it  *)
(* is matched.                                                                *)
LEMMA OutcomesTyped ==
  ASSUME NEW b \in BOOLEAN, NEW o \in SearchOutcomes[b]
  PROVE  /\ o.code \in Codes \cup {None}
         /\ o.status \in Statuses \cup {None}
         /\ o.accepted \in [id : Nat \ {0}, media : MediaTypes] \cup {None}
         /\ o.code = None =>
              b = FALSE /\ o.status \in Statuses /\ (o.status = "matched" => o.accepted \in Accepting)
<1> DEFINE found(E) == DecodeSearch(E).candidates
           m(E) == MatchTMDBTitle(b, found(E))
<1>1. PICK E \in Responses : o = OutcomeOf(b, E)
  BY DEF SearchOutcomes
<1>2. DecodeSearch(E).code \in {None, "invalid_response", "incomplete"}
  BY DEF DecodeSearch
<1>3. m(E).status = "matched" => [id |-> m(E).id, media |-> m(E).media] \in [id : Nat \ {0}, media : MediaTypes]
  <2> SUFFICES ASSUME m(E).status = "matched" PROVE m(E).id \in Nat \ {0} /\ m(E).media \in MediaTypes
    OBVIOUS
  <2>1. Scorable(found(E)) /\ found(E) # {}
    BY DecodedScorable, MatchedWhen
  <2>2. Best(found(E)) \in found(E) /\ m(E).id = Best(found(E)).id /\ m(E).media = Best(found(E)).media
    BY <2>1, BestIsBest, MatchedWhen
  <2> QED BY <2>2, DecodedScorable
<1>4. CASE DecodeSearch(E).code # None
  BY <1>1, <1>2, <1>4, NoneAssumption DEF OutcomeOf, Codes
<1>5. CASE DecodeSearch(E).code = None /\ ~ValidMatch(m(E))
  BY <1>1, <1>5, NoneAssumption DEF OutcomeOf, Codes
<1>6. CASE DecodeSearch(E).code = None /\ ValidMatch(m(E))
  <2>1. o = [code |-> None, status |-> m(E).status, accepted |-> Accepted(m(E))]
    BY <1>1, <1>6 DEF OutcomeOf
  <2>2. m(E).status \in Statuses /\ m(E).evidence.query
    BY <1>6 DEF ValidMatch, ValidEvidence
  <2>3. b = FALSE
    BY <2>2 DEF MatchTMDBTitle, Evidence
  <2>4. o.accepted \in [id : Nat \ {0}, media : MediaTypes] \cup {None}
    BY <1>3, <2>1 DEF Accepted
  <2>5. o.status = "matched" => o.accepted \in [id : Nat \ {0}, media : MediaTypes]
    BY <1>3, <2>1 DEF Accepted
  <2>6. None \notin [id : Nat \ {0}, media : MediaTypes]
    BY NoneAssumption
  <2> QED BY <2>1, <2>2, <2>3, <2>4, <2>5, <2>6 DEF Accepting
<1> QED BY <1>4, <1>5, <1>6

LEMMA DetailsTyped ==
  ASSUME NEW c \in Accepting, NEW code \in DetailsCodes[c]
  PROVE  \E a \in Answers : code = DetailsCode(c, a) /\ code \in Codes \cup {None}
<1>1. DetailsCodes[c] = {DetailsCode(c, a) : a \in Answers}
  BY DEF Accepting, DetailsCodes
<1>2. \A a \in Answers : DetailsCode(c, a) \in Codes \cup {None}
  BY DEF DetailsCode, Codes
<1> QED BY <1>1, <1>2

Files == [Titles -> Checkpoint \cup {None}]

LEMMA CoverageTyped == ASSUME NEW f \in Files PROVE Coverage(f) \in Counts
<1>1. \A S \in SUBSET Titles : Cardinality(S) \in Nat
  BY FiniteAssumption, FS_Subset, FS_CardinalityType
<1>2. \A st : Cardinality({t \in Stored(f) : f[t].status = st}) \in Nat
  BY <1>1 DEF Stored
<1>3. Cardinality({t \in Stored(f) : f[t].hit}) \in Nat
  BY <1>1 DEF Stored
<1> QED BY <1>2, <1>3 DEF Coverage, Counts

LEMMA NoneStored == NoFiles \in Files /\ Coverage(NoFiles) \in Counts
<1>1. NoFiles \in Files
  BY DEF NoFiles, Files
<1> QED BY <1>1, CoverageTyped

(* The stored generation, its files and its job.                             *)
StoredTyped ==
  /\ gen \in Generation /\ files \in Files /\ artifacts \in BOOLEAN /\ job \in JobState
  /\ phase \in {"up", "closing", "down"}
  /\ answered \in SUBSET [title : Titles, locale : Locales]
  /\ trouble \in BOOLEAN /\ deleted \in BOOLEAN
  /\ gen.state # "none" => gen.locale \in Locales
  /\ job.pc # "idle" => gen.state = "enriching"

WorkersTyped ==
  /\ worker \in [Workers -> WorkerState] /\ closed \in BOOLEAN
  /\ \A w \in Workers :
       /\ Busy(w) => worker[w].title \in Titles
       /\ worker[w].pc \in {"details", "detailing", "put"} => worker[w].status \in Statuses
       /\ worker[w].pc \in {"details", "detailing"} => worker[w].accepted \in Accepting

(* The channel: an outcome for each title at most, of a title that is not to   *)
(* do and that no worker has.                                                 *)
ResultsTyped ==
  /\ todo \in SUBSET Titles /\ results \in Seq(Result)
  /\ \A i \in DOMAIN results :
       /\ results[i].code = None => results[i].status \in Statuses
       /\ results[i].title \notin todo
       /\ \A w \in Workers : Busy(w) => worker[w].title # results[i].title
       /\ \A j \in DOMAIN results : results[i].title = results[j].title => i = j

Typed == CallsTyped /\ CacheTypeOK /\ StoredTyped /\ WorkersTyped /\ ResultsTyped

LEMMA TypedImplies == Typed => TypeOK
<1> SUFFICES ASSUME Typed PROVE Len(results) <= Cardinality(Titles)
  BY DEF Typed, TypeOK, CallsTyped, StoredTyped, WorkersTyped, ResultsTyped, Files
<1> DEFINE n == Len(results)
           f == [i \in 1..n |-> results[i].title]
<1>1. n \in Nat /\ DOMAIN results = 1..n /\ \A i \in 1..n : results[i] \in Result
  BY DEF Typed, ResultsTyped
<1>2. f \in Injection(1..n, Titles)
  <2>1. \A i \in 1..n : results[i].title \in Titles
    BY <1>1 DEF Result
  <2>2. \A i, j \in 1..n : results[i].title = results[j].title => i = j
    BY <1>1 DEF Typed, ResultsTyped
  <2>3. f \in [1..n -> Titles] /\ \A i \in 1..n : f[i] = results[i].title
    BY <2>1
  <2> HIDE DEF f
  <2> QED BY <2>2, <2>3 DEF Injection, IsInjective
<1>3. Cardinality(1..n) <= Cardinality(Titles)
  <2> HIDE DEF f
  <2> QED BY <1>2, FiniteAssumption, FS_Injection
<1>4. Cardinality(1..n) = n
  BY <1>1, FS_Interval
<1> QED BY <1>3, <1>4

LEMMA TypedInit == Init => Typed
<1> SUFFICES ASSUME Init PROVE Typed
  OBVIOUS
<1>1. CallsTyped /\ CacheTypeOK
  BY CallsTypedInit DEF Init, CacheInit, CacheTypeOK
<1>2. StoredTyped
  BY NoneStored DEF Init, StoredTyped, NoGeneration, NewGeneration, Generation, NoJob, JobState
<1>3. WorkersTyped
  BY DEF Init, WorkersTyped, Busy, Ready, WorkerState
<1>4. ResultsTyped
  BY DEF Init, ResultsTyped
<1> QED BY <1>1, <1>2, <1>3, <1>4 DEF Typed

(* Everything but the channel and the files keeps its type.                  *)
LEMMA JobKeepsStored == ASSUME Typed, Job PROVE StoredTyped'
<1> USE DEF Typed, StoredTyped
<1>1. Codes # {} /\ \A code \in {"canceled", "persistence_failed", "stale_source", "incomplete"} : code \in Codes
  BY DEF Codes
<1>2. Coverage(files) \in Counts
  BY CoverageTyped
<1>3. NoJob \in JobState
  BY DEF NoJob, JobState
<1>4. job.error \in Codes \cup {None} /\ \A pc : [job EXCEPT !.pc = pc].pc = pc
  BY DEF JobState
<1>5. ASSUME NEW pc \in {"pool", "record", "build", "validate", "remove", "activate", "failmark"},
             JobTo(pc)
      PROVE  job' \in JobState
  BY <1>5 DEF JobTo, JobState
<1>6. ASSUME NEW code \in Codes, JobFails(code) PROVE job' \in JobState
  BY <1>6 DEF JobFails, JobState
<1>7. CASE ReadCheckpoints
  <2>1. gen' \in Generation /\ gen'.state = gen.state /\ gen'.locale = gen.locale
    BY <1>2, <1>7 DEF ReadCheckpoints, Generation
  <2>2. job' \in JobState
    BY <1>1, <1>5, <1>6, <1>7 DEF ReadCheckpoints, Faulty
  <2> QED BY <1>7, <2>1, <2>2 DEF ReadCheckpoints, JobFrame, Faulty
<1>8. CASE ReadArtifacts
  <2>1. job' \in JobState
    BY <1>1, <1>5, <1>6, <1>8 DEF ReadArtifacts, Faulty
  <2> QED BY <1>8, <2>1 DEF ReadArtifacts, JobFrame, Faulty, stored
<1>9. CASE CollectError \/ DropResult
  <2>1. Head(results) \in Result
    BY <1>9 DEF CollectError, DropResult, Collecting, ResultsTyped
  <2>2. job' \in JobState
    BY <1>9, <2>1 DEF CollectError, DropResult, JobState, Result
  <2> QED BY <1>9, <2>2 DEF CollectError, DropResult, Collecting, JobFrame, stored
<1>10. CASE WriteCheckpoint
  <2> DEFINE r == Head(results)
  <2>1. r \in Result /\ (r.code = None => r.status \in Statuses)
    BY <1>10 DEF WriteCheckpoint, Collecting, ResultsTyped
  <2>2. [status |-> r.status, hit |-> r.hit] \in Checkpoint /\ r.title \in Titles
    BY <1>10, <2>1 DEF WriteCheckpoint, Checkpoint, Result
  <2>3. files' \in Files
    BY <1>10, <2>2 DEF WriteCheckpoint, Files
  <2>4. job' \in JobState
    BY <1>1, <1>5, <1>10 DEF WriteCheckpoint, JobState
  <2> QED BY <1>10, <2>3, <2>4 DEF WriteCheckpoint, Collecting, JobFrame
<1>11. CASE RecordProgress
  <2>1. gen' \in Generation /\ gen'.state = gen.state /\ gen'.locale = gen.locale
    BY <1>2, <1>11 DEF RecordProgress, Generation
  <2>2. job' \in JobState
    BY <1>1, <1>5, <1>11 DEF RecordProgress, JobState
  <2> QED BY <1>11, <2>1, <2>2 DEF RecordProgress, JobFrame
<1>12. CASE EndPool
  <2>1. job' \in JobState
    BY <1>1, <1>4, <1>5, <1>6, <1>12 DEF EndPool
  <2> QED BY <1>12, <2>1 DEF EndPool, JobFrame, stored
<1>13. CASE Build
  <2>1. gen' \in Generation /\ gen'.state = gen.state /\ gen'.locale = gen.locale
    BY <1>13 DEF Build, Generation
  <2>2. job' \in JobState
    BY <1>1, <1>5, <1>6, <1>13 DEF Build, Faulty
  <2>3. artifacts' \in BOOLEAN /\ trouble' \in BOOLEAN
    BY <1>13 DEF Build, Faulty
  <2> QED BY <1>13, <2>1, <2>2, <2>3 DEF Build, JobFrame
<1>14. CASE RemoveCheckpoints
  <2>1. job' \in JobState
    BY <1>1, <1>5, <1>6, <1>14 DEF RemoveCheckpoints, Faulty
  <2>2. files' \in Files /\ trouble' \in BOOLEAN
    BY <1>14, NoneStored DEF RemoveCheckpoints, Faulty
  <2> QED BY <1>14, <2>1, <2>2 DEF RemoveCheckpoints, JobFrame
<1>15. CASE Activate
  <2>1. job' \in JobState /\ (job' = NoJob \/ gen' = gen)
    BY <1>1, <1>3, <1>6, <1>15 DEF Activate, Faulty
  <2>2. gen' \in Generation /\ gen'.locale = gen.locale /\ gen.state # "none" /\ trouble' \in BOOLEAN
    BY <1>15 DEF Activate, Generation, Faulty
  <2> QED BY <1>15, <2>1, <2>2 DEF Activate, JobFrame, NoJob
<1>16. CASE RemoveDirectory
  <2>1. job' \in JobState
    BY <1>3, <1>5, <1>16 DEF RemoveDirectory
  <2>2. files' \in Files /\ artifacts' \in BOOLEAN /\ gen' = gen
    BY <1>16, NoneStored DEF RemoveDirectory, stored
  <2> QED BY <1>16, <2>1, <2>2 DEF RemoveDirectory, JobFrame, NoJob
<1>17. CASE FailGeneration
  <2>1. gen' \in Generation /\ gen'.locale = gen.locale /\ gen.state # "none"
    BY <1>4, <1>17 DEF FailGeneration, Generation
  <2> QED BY <1>3, <1>17, <2>1 DEF FailGeneration, JobFrame, NoJob
<1> QED BY <1>7, <1>8, <1>9, <1>10, <1>11, <1>12, <1>13, <1>14, <1>15, <1>16, <1>17 DEF Job

(* The collector takes the first result.                                     *)
LEMMA ReceivedTyped == ASSUME ResultsTyped, results # <<>>, Received PROVE ResultsTyped'
<1>1. results \in Seq(Result) /\ results' = Tail(results) /\ todo' = todo /\ worker' = worker
  BY DEF Received, ResultsTyped
<1>2. /\ results' \in Seq(Result)
      /\ \A i \in DOMAIN results' : i + 1 \in DOMAIN results /\ results'[i] = results[i + 1] /\ i \in Nat
  BY <1>1
<1> QED BY <1>1, <1>2 DEF ResultsTyped, Busy

LEMMA JobKeepsPool == ASSUME Typed, Job PROVE WorkersTyped' /\ ResultsTyped'
<1>1. worker' = worker /\ closed' \in BOOLEAN
  BY DEF Job, ReadCheckpoints, ReadArtifacts, CollectError, DropResult, WriteCheckpoint,
    RecordProgress, EndPool, Build, RemoveCheckpoints, Activate, RemoveDirectory,
    FailGeneration, StartPool, Received, pool, Typed, WorkersTyped
<1>2. WorkersTyped'
  BY <1>1 DEF Typed, WorkersTyped, Busy
<1>3. \/ UNCHANGED <<todo, results>>
      \/ todo' = Missing(files) /\ results' = <<>>
      \/ results # <<>> /\ Received
  BY DEF Job, ReadCheckpoints, ReadArtifacts, CollectError, DropResult, WriteCheckpoint,
    RecordProgress, EndPool, Build, RemoveCheckpoints, Activate, RemoveDirectory,
    FailGeneration, StartPool, Collecting, pool
<1>4. CASE UNCHANGED <<todo, results>>
  BY <1>1, <1>2, <1>4 DEF Typed, ResultsTyped, Busy
<1>5. CASE todo' = Missing(files) /\ results' = <<>>
  BY <1>2, <1>5 DEF ResultsTyped, Missing
<1>6. CASE results # <<>> /\ Received
  BY <1>2, <1>6, ReceivedTyped DEF Typed
<1> QED BY <1>3, <1>4, <1>5, <1>6

(* A worker that sends its result gives its title to the channel.            *)
LEMMA SendTyped ==
  ASSUME Typed, AskInv, NEW w \in Workers, Busy(w), NEW status \in Statuses \cup {None},
         NEW hit \in BOOLEAN, NEW code \in Codes \cup {None}, code = None => status \in Statuses,
         Send(w, status, hit, code), UNCHANGED <<todo, closed>>
  PROVE  WorkersTyped' /\ ResultsTyped'
<1> DEFINE r == [title |-> worker[w].title, status |-> status, hit |-> hit, code |-> code]
<1>1. worker \in [Workers -> WorkerState] /\ worker' = [worker EXCEPT ![w] = Ready] /\ results' = Append(results, r)
  BY DEF Send, Typed, WorkersTyped
<1>2. Ready \in WorkerState /\ Ready.pc = "ready"
  BY DEF Ready, WorkerState
<1>3. \A v \in Workers : worker'[v] = IF v = w THEN Ready ELSE worker[v]
  BY <1>1
<1>4. WorkersTyped'
  BY <1>1, <1>2, <1>3 DEF Typed, WorkersTyped, Busy
<1>5. worker[w].title \in Titles
  BY DEF Typed, WorkersTyped
<1>6. r \in Result /\ r.title = worker[w].title /\ r.code = code /\ r.status = status
  BY <1>5 DEF Result
<1> HIDE DEF r
<1>7. /\ results \in Seq(Result) /\ results' \in Seq(Result)
      /\ \A i \in DOMAIN results' :
           \/ i \in DOMAIN results /\ results'[i] = results[i]
           \/ i = Len(results) + 1 /\ results'[i] = r
  BY <1>1, <1>6 DEF Typed, ResultsTyped
<1>8. \A i \in DOMAIN results : results[i].title # worker[w].title
  BY DEF Typed, ResultsTyped
<1>9. worker[w].title \notin todo
  BY DEF AskInv, PoolInv, HandedOutOnce
<1>10. \A v \in Workers : Busy(v)' => v # w /\ Busy(v) /\ worker'[v] = worker[v]
  BY <1>2, <1>3 DEF Busy
<1>11. \A v \in Workers : Busy(v)' => worker[v].title # worker[w].title
  BY <1>10 DEF AskInv, PoolInv, HandedOutOnce
<1>12. \A i \in DOMAIN results' :
         /\ results'[i].code = None => results'[i].status \in Statuses
         /\ results'[i].title \notin todo
         /\ \A v \in Workers : Busy(v)' => worker'[v].title # results'[i].title
  <2> SUFFICES ASSUME NEW i \in DOMAIN results'
               PROVE  /\ results'[i].code = None => results'[i].status \in Statuses
                      /\ results'[i].title \notin todo
                      /\ \A v \in Workers : Busy(v)' => worker'[v].title # results'[i].title
    OBVIOUS
  <2>1. CASE i \in DOMAIN results /\ results'[i] = results[i]
    BY <1>10, <2>1 DEF Typed, ResultsTyped
  <2>2. CASE results'[i] = r
    BY <1>6, <1>9, <1>10, <1>11, <2>2
  <2> QED BY <1>7, <2>1, <2>2
<1>13. \A i, j \in DOMAIN results' : results'[i].title = results'[j].title => i = j
  BY <1>6, <1>7, <1>8 DEF Typed, ResultsTyped
<1> QED BY <1>4, <1>7, <1>12, <1>13 DEF Typed, ResultsTyped

(* A worker that goes on with its title.                                      *)
LEMMA GoOnTyped ==
  ASSUME Typed, NEW w \in Workers, NEW to \in WorkerState, Busy(w),
         worker' = [worker EXCEPT ![w] = to], to.title = worker[w].title,
         to.pc \in {"details", "detailing", "put"} => to.status \in Statuses,
         to.pc \in {"details", "detailing"} => to.accepted \in Accepting,
         UNCHANGED <<todo, closed, results>>
  PROVE  WorkersTyped' /\ ResultsTyped'
<1>1. \A v \in Workers : worker'[v] = IF v = w THEN to ELSE worker[v]
  BY DEF Typed, WorkersTyped
<1>2. \A v \in Workers : Busy(v)' => Busy(v) /\ worker'[v].title = worker[v].title
  BY <1>1 DEF Busy
<1>3. WorkersTyped'
  BY <1>1, <1>2 DEF Typed, WorkersTyped
<1>4. ResultsTyped'
  BY <1>2 DEF Typed, ResultsTyped
<1> QED BY <1>3, <1>4

LEMMA WorkKeepsTypes ==
  ASSUME Typed, AskInv, NEW w \in Workers, Work(w)
  PROVE  StoredTyped' /\ CacheTypeOK' /\ WorkersTyped' /\ ResultsTyped'
<1> DEFINE u == LookupOf(w)
<1> USE DEF Typed
<1>1. Busy(w) /\ UNCHANGED <<gen, files, artifacts, job, phase, deleted, todo, closed>>
  BY DEF Work, LookupTitle, BeginSearch, Search, BeginDetails, Details, BeginCall, CallGoesOn,
    CallFails, Put, InCall, WorkerFrame, PoolFrame, stored, Busy
<1>2. worker[w] \in WorkerState /\ worker[w].title \in Titles
  BY <1>1 DEF WorkersTyped
<1>3. u \in [title : Titles, locale : Locales]
  <2>1. InPool /\ gen.locale \in Locales
    BY <1>1 DEF AskInv, PoolInv, OnlyInPool, InPool, StoredTyped
  <2> QED BY <1>2, <2>1 DEF LookupOf, Lookup
<1>4. answered' = answered \/ answered' = answered \cup {u}
  BY DEF Work, LookupTitle, BeginSearch, Search, BeginDetails, Details, BeginCall, CallGoesOn,
    CallFails, Put
<1> HIDE DEF u
<1>5. trouble' \in BOOLEAN
  BY DEF Work, LookupTitle, BeginSearch, Search, BeginDetails, Details, BeginCall, CallGoesOn,
    CallFails, Put, StoredTyped
<1>6. StoredTyped'
  BY <1>1, <1>3, <1>4, <1>5 DEF StoredTyped
<1>7. ASSUME NEW code \in Codes, Error(w, code) PROVE WorkersTyped' /\ ResultsTyped'
  <2>1. (IF Stopped THEN "canceled" ELSE code) \in Codes /\ None \notin Codes
    BY NoneAssumption DEF Codes
  <2> QED BY <1>1, <1>7, <2>1, SendTyped DEF Error
<1>8. ASSUME NEW status \in Statuses, NEW hit \in BOOLEAN, Outcome(w, status, hit)
      PROVE  WorkersTyped' /\ ResultsTyped'
  BY <1>1, <1>8, SendTyped DEF Outcome
<1>9. CASE LookupTitle(w)
  <2>1. CacheTypeOK'
    BY <1>9 DEF LookupTitle, LookUp, CacheTypeOK
  <2>2. CASE Found(LookupOf(w)) = {} /\ WorkerTo(w, "search")
    <3>1. [worker[w] EXCEPT !.pc = "search"] \in WorkerState
      BY <1>2 DEF WorkerState
    <3>2. [worker[w] EXCEPT !.pc = "search"].pc = "search"
      BY <1>2 DEF WorkerState
    <3>3. [worker[w] EXCEPT !.pc = "search"].title = worker[w].title
      BY <1>2 DEF WorkerState
    <3> QED BY <1>1, <1>6, <2>1, <2>2, <3>1, <3>2, <3>3, GoOnTyped DEF WorkerTo
  <2>3. CASE \E r \in Found(LookupOf(w)) : Outcome(w, r.status, TRUE)
    <3>1. \A r \in Found(LookupOf(w)) : r.status \in Statuses
      BY DEF Found, RowOf, CacheTypeOK, Row
    <3> QED BY <1>6, <1>8, <2>1, <2>3, <3>1
  <2>4. CASE \E code \in Codes : Error(w, code)
    BY <1>6, <1>7, <2>1, <2>4
  <2> QED BY <1>9, <2>2, <2>3, <2>4 DEF LookupTitle, Codes
<1>10. CASE BeginSearch(w) \/ BeginDetails(w)
  <2>1. CacheTypeOK'
    BY <1>10 DEF BeginSearch, BeginDetails, BeginCall, CacheTypeOK
  <2>2. CASE \E code \in Codes : Error(w, code)
    BY <1>6, <1>7, <2>1, <2>2
  <2>3. CASE worker[w].pc = "search" /\ WorkerTo(w, "searching")
    <3>1. [worker[w] EXCEPT !.pc = "searching"] \in WorkerState
      BY <1>2 DEF WorkerState
    <3>2. [worker[w] EXCEPT !.pc = "searching"].pc = "searching"
      BY <1>2 DEF WorkerState
    <3>3. [worker[w] EXCEPT !.pc = "searching"].title = worker[w].title
      BY <1>2 DEF WorkerState
    <3> QED BY <1>1, <1>6, <2>1, <2>3, <3>1, <3>2, <3>3, GoOnTyped DEF WorkerTo
  <2>4. CASE worker[w].pc = "details" /\ WorkerTo(w, "detailing")
    <3> DEFINE to == [worker[w] EXCEPT !.pc = "detailing"]
    <3>1. to \in WorkerState
      BY <1>2 DEF WorkerState
    <3>2. to.title = worker[w].title /\ to.status = worker[w].status /\ to.accepted = worker[w].accepted
      BY <1>2 DEF WorkerState
    <3>3. worker[w].status \in Statuses /\ worker[w].accepted \in Accepting
      BY <2>4 DEF WorkersTyped
    <3>4. worker' = [worker EXCEPT ![w] = to] /\ results' = results
      BY <2>4 DEF WorkerTo
    <3> HIDE DEF to
    <3> QED BY <1>1, <1>6, <2>1, <3>1, <3>2, <3>3, <3>4, GoOnTyped
  <2> QED BY <1>10, <2>2, <2>3, <2>4 DEF BeginSearch, BeginDetails, BeginCall, Codes
<1>11. CASE Search(w)
  <2>1. CacheTypeOK'
    BY <1>11 DEF Search, CacheTypeOK
  <2>2. PICK o \in SearchOutcomes[~Normalized(worker[w].title)] :
          \/ /\ o.code = None
             /\ worker' = [worker EXCEPT
                  ![w] = [@ EXCEPT !.pc = IF o.status = "matched" THEN "details" ELSE "put",
                                   !.status = o.status, !.accepted = o.accepted]]
             /\ UNCHANGED results
          \/ o.code # None /\ Error(w, o.code)
    BY <1>11 DEF Search
  <2>3. (~Normalized(worker[w].title)) \in BOOLEAN
    BY DEF Normalized
  <2>4. /\ o.code \in Codes \cup {None} /\ o.status \in Statuses \cup {None}
        /\ o.accepted \in [id : Nat \ {0}, media : MediaTypes] \cup {None}
        /\ o.code = None => o.status \in Statuses /\ (o.status = "matched" => o.accepted \in Accepting)
    BY <2>3, OutcomesTyped
  <2>5. CASE o.code # None /\ Error(w, o.code)
    BY <1>6, <1>7, <2>1, <2>4, <2>5
  <2>6. CASE o.code = None /\ UNCHANGED results
    <3> DEFINE pc == IF o.status = "matched" THEN "details" ELSE "put"
               to == [worker[w] EXCEPT !.pc = pc, !.status = o.status, !.accepted = o.accepted]
    <3>1. to \in WorkerState
      BY <1>2, <2>4 DEF WorkerState
    <3>2. to.title = worker[w].title /\ to.status = o.status /\ to.accepted = o.accepted /\ to.pc = pc
      BY <1>2 DEF WorkerState
    <3>3. worker' = [worker EXCEPT ![w] = to]
      BY <2>2, <2>6
    <3> HIDE DEF to
    <3> QED BY <1>1, <1>6, <2>1, <2>4, <2>6, <3>1, <3>2, <3>3, GoOnTyped
  <2> QED BY <2>2, <2>5, <2>6
<1>12. CASE Details(w)
  <2>1. CacheTypeOK'
    BY <1>12 DEF Details, CacheTypeOK
  <2>2. worker[w].accepted \in Accepting /\ worker[w].status \in Statuses
    BY <1>12 DEF Details, WorkersTyped
  <2>3. PICK code \in DetailsCodes[worker[w].accepted] :
          \/ /\ code = None
             /\ worker' = [worker EXCEPT ![w] = [@ EXCEPT !.pc = "put", !.accepted = None]]
             /\ UNCHANGED results
          \/ code # None /\ Error(w, code)
    BY <1>12 DEF Details
  <2>4. code \in Codes \cup {None}
    BY <2>2, DetailsTyped
  <2>5. CASE code # None /\ Error(w, code)
    BY <1>6, <1>7, <2>1, <2>4, <2>5
  <2>6. CASE code = None
    <3> DEFINE to == [worker[w] EXCEPT !.pc = "put", !.accepted = None]
    <3>1. to \in WorkerState
      BY <1>2 DEF WorkerState
    <3>2. to.title = worker[w].title /\ to.status = worker[w].status /\ to.pc = "put"
      BY <1>2 DEF WorkerState
    <3>3. worker' = [worker EXCEPT ![w] = to] /\ UNCHANGED results
      BY <2>3, <2>6
    <3> HIDE DEF to
    <3> QED BY <1>1, <1>6, <2>1, <2>2, <3>1, <3>2, <3>3, GoOnTyped
  <2> QED BY <2>3, <2>4, <2>5, <2>6
<1>13. CASE CallGoesOn(w)
  <2>1. UNCHANGED <<cache, worker, results, todo, closed>>
    BY <1>1, <1>13 DEF CallGoesOn
  <2> QED BY <1>6, <2>1 DEF CacheTypeOK, WorkersTyped, ResultsTyped, Busy
<1>14. CASE CallFails(w)
  <2>1. CacheTypeOK' /\ \E code \in Codes : Error(w, code)
    BY <1>14 DEF CallFails, Codes, CacheTypeOK
  <2> QED BY <1>6, <1>7, <2>1
<1>15. CASE Put(w)
  <2>1. worker[w].status \in Statuses
    BY <1>15 DEF Put, WorkersTyped
  <2>2. CacheTypeOK'
    <3>1. [key |-> CacheKey(u), lookup |-> u, status |-> worker[w].status, fresh |-> TRUE] \in Row
      BY <1>3, <2>1 DEF Row, CacheKey
    <3>2. \/ cache' = cache
          \/ cache' = (cache \ RowOf(u)) \cup {[key |-> CacheKey(u), lookup |-> u,
                                                status |-> worker[w].status, fresh |-> TRUE]}
      BY <1>15 DEF Put, PutAll, u
    <3> QED BY <3>1, <3>2 DEF CacheTypeOK
  <2>3. Outcome(w, worker[w].status, FALSE) \/ \E code \in Codes : Error(w, code)
    BY <1>15 DEF Put, Codes
  <2> QED BY <1>6, <1>7, <1>8, <2>1, <2>2, <2>3
<1> QED BY <1>9, <1>10, <1>11, <1>12, <1>13, <1>14, <1>15 DEF Work

LEMMA DispatchTyped ==
  ASSUME Typed, AskInv, NEW w \in Workers, Dispatch(w)
  PROVE  StoredTyped' /\ CacheTypeOK' /\ WorkersTyped' /\ ResultsTyped'
<1> USE DEF Typed
<1>1. PICK t \in todo :
        /\ worker' = [worker EXCEPT ![w] = [Ready EXCEPT !.pc = "enrich", !.title = t]]
        /\ todo' = todo \ {t}
  BY DEF Dispatch
<1>2. UNCHANGED <<gen, files, artifacts, job, phase, deleted, cache, closed, results, answered, trouble>>
  BY DEF Dispatch, PoolFrame, stored
<1> DEFINE to == [Ready EXCEPT !.pc = "enrich", !.title = t]
<1>3. t \in Titles
  BY DEF ResultsTyped
<1>4. to \in WorkerState /\ to.pc = "enrich" /\ to.title = t
  BY <1>3 DEF Ready, WorkerState
<1>5. worker' = [worker EXCEPT ![w] = to]
  BY <1>1
<1> HIDE DEF to
<1>6. \A v \in Workers : worker'[v] = IF v = w THEN to ELSE worker[v]
  BY <1>5 DEF WorkersTyped
<1>7. WorkersTyped'
  BY <1>2, <1>3, <1>4, <1>5, <1>6 DEF WorkersTyped, Busy
<1>8. ResultsTyped'
  BY <1>1, <1>2, <1>4, <1>6 DEF ResultsTyped, Busy
<1> QED BY <1>2, <1>7, <1>8 DEF StoredTyped, CacheTypeOK

LEMMA OutsideTyped ==
  ASSUME Typed,
         \/ \E l \in Locales : Begin(l)
         \/ Cancel \/ DeleteProvider \/ Close \/ Closed \/ Crash \/ Open \/ Ageing
  PROVE  StoredTyped' /\ CacheTypeOK' /\ WorkersTyped' /\ ResultsTyped'
<1> USE DEF Typed
<1>1. NoJob \in JobState /\ [NoJob EXCEPT !.pc = "read"] \in JobState /\ NoJob.pc = "idle"
  BY DEF NoJob, JobState
<1>2. CASE UNCHANGED <<worker, todo, closed, results>>
  <2>1. WorkersTyped' /\ ResultsTyped'
    BY <1>2 DEF WorkersTyped, ResultsTyped, Busy
  <2>2. CASE \E l \in Locales : Begin(l)
    <3>1. PICK l \in Locales : Begin(l)
      BY <2>2
    <3>2. gen' \in Generation /\ gen'.locale \in Locales /\ gen'.state = "enriching"
      BY <3>1, NoneStored DEF Begin, NewGeneration, Generation
    <3>3. StoredTyped' /\ CacheTypeOK'
      BY <1>1, <3>1, <3>2, NoneStored DEF Begin, StoredTyped, CacheTypeOK
    <3> QED BY <2>1, <3>3
  <2>3. CASE Cancel \/ Close
    <3>1. job' \in JobState /\ job'.pc = job.pc
      BY <2>3 DEF Cancel, Close, StoredTyped, JobState
    <3>2. StoredTyped' /\ CacheTypeOK'
      BY <2>3, <3>1 DEF Cancel, Close, StoredTyped, CacheTypeOK, stored, ghosts
    <3> QED BY <2>1, <3>2
  <2>4. CASE DeleteProvider
    <3>1. gen' \in Generation /\ gen'.state = "none"
      BY <2>4, NoneStored DEF DeleteProvider, NoGeneration, NewGeneration, Generation
    <3>2. StoredTyped' /\ CacheTypeOK'
      BY <2>4, <3>1, NoneStored DEF DeleteProvider, StoredTyped, CacheTypeOK, DeleteCache
    <3> QED BY <2>1, <3>2
  <2>5. CASE Open
    <3>1. job' \in JobState /\ (job'.pc # "idle" => gen.state = "enriching")
      BY <1>1, <2>5 DEF Open
    <3>2. StoredTyped' /\ CacheTypeOK'
      BY <2>5, <3>1 DEF Open, StoredTyped, CacheTypeOK, stored, ghosts
    <3> QED BY <2>1, <3>2
  <2>6. CASE Ageing
    <3>1. PICK r \in cache : Expire(r) /\ answered' = answered \ {r.lookup}
                           /\ UNCHANGED <<gen, files, artifacts, job, phase, trouble, deleted>>
      BY <2>6 DEF Ageing, stored
    <3>2. [r EXCEPT !.fresh = FALSE] \in Row
      BY DEF CacheTypeOK, Row
    <3>3. CacheTypeOK'
      BY <3>1, <3>2 DEF Expire, CacheTypeOK
    <3>4. StoredTyped'
      BY <3>1 DEF StoredTyped
    <3> QED BY <2>1, <3>3, <3>4
  <2>7. CASE Closed \/ Crash
    <3>1. StoredTyped' /\ CacheTypeOK'
      BY <1>1, <2>7 DEF Closed, Crash, Gone, StoredTyped, CacheTypeOK, stored, ghosts
    <3> QED BY <2>1, <3>1
  <2> QED BY <2>2, <2>3, <2>4, <2>5, <2>6, <2>7
<1>3. CASE Closed \/ Crash
  <2>1. StoredTyped' /\ CacheTypeOK'
    BY <1>1, <1>3 DEF Closed, Crash, Gone, StoredTyped, CacheTypeOK, stored, ghosts
  <2>2. worker' = [v \in Workers |-> Ready] /\ todo' = {} /\ closed' = TRUE /\ results' = <<>>
    BY <1>3 DEF Closed, Crash, Gone
  <2>3. WorkersTyped' /\ ResultsTyped'
    BY <2>2 DEF WorkersTyped, ResultsTyped, Busy, Ready, WorkerState
  <2> QED BY <2>1, <2>3
<1> QED BY <1>2, <1>3 DEF Begin, Cancel, DeleteProvider, Close, Open, Ageing, pool

LEMMA StepTyped ==
  ASSUME Typed, AskInv, [Next]_vars
  PROVE  StoredTyped' /\ CacheTypeOK' /\ WorkersTyped' /\ ResultsTyped'
<1>1. CASE Job
  <2>1. CacheTypeOK'
    BY <1>1 DEF Job, JobFrame, ReadCheckpoints, ReadArtifacts, CollectError, DropResult,
      WriteCheckpoint, RecordProgress, EndPool, Build, RemoveCheckpoints, Activate,
      RemoveDirectory, FailGeneration, Typed, CacheTypeOK
  <2> QED BY <1>1, <2>1, JobKeepsStored, JobKeepsPool
<1>2. CASE CloseJobs
  BY <1>2 DEF CloseJobs, PoolFrame, stored, Typed, StoredTyped, CacheTypeOK, WorkersTyped,
    ResultsTyped, Busy
<1>3. CASE \E w \in Workers : Dispatch(w) \/ Work(w)
  BY <1>3, DispatchTyped, WorkKeepsTypes
<1>4. CASE Time \/ UNCHANGED vars
  <2>1. UNCHANGED <<gen, files, artifacts, job, phase, deleted, cache, worker, todo, closed,
                    results, answered, trouble>>
    BY <1>4 DEF Time, Rest, vars, stored, pool, ghosts
  <2> QED BY <2>1 DEF Typed, StoredTyped, CacheTypeOK, WorkersTyped, ResultsTyped, Busy
<1>5. CASE \/ \E l \in Locales : Begin(l)
           \/ Cancel \/ DeleteProvider \/ Close \/ Closed \/ Crash \/ Open \/ Ageing
  BY <1>5, OutsideTyped
<1> QED BY <1>1, <1>2, <1>3, <1>4, <1>5 DEF Next, Running

LEMMA TypedStep == Typed /\ AskInv /\ [Next]_vars => Typed'
<1> SUFFICES ASSUME Typed, AskInv, [Next]_vars PROVE Typed'
  OBVIOUS
<1>1. ClientInit' => CallsTyped'
  BY CallsTypedInit, PTL
<1>2. [ClientNext \/ ClientInit']_clientVars
  BY NextUsesClient
<1>3. CASE ClientInit'
  BY <1>1, <1>3, StepTyped DEF Typed
<1>4. CASE ClientNext \/ UNCHANGED clientVars
  BY <1>4, CallsTypedStep, StepTyped DEF Typed
<1> QED BY <1>2, <1>3, <1>4

(* For any number of titles and workers: every variable keeps its type, and     *)
(* runTMDBEnrichment's channel never holds more results than there are titles. *)
THEOREM EnrichmentTyped == Spec => []TypeOK
  BY TypedInit, TypedStep, TypedImplies, AskInvInit, AskInvStep, PTL DEF Spec

-----------------------------------------------------------------------------
(***************************************************************************)
(* Why a generation fails.  Titles that differ in case only, without a     *)
(* word, or too long, and labels of TMDB that only the records refuse,     *)
(* fail it by themselves.                                                  *)
(***************************************************************************)
Ordinary ==
  /\ Consistent /\ Wordless = {} /\ Overlong = {}
  /\ \A a \in Answers : ~OddlyLabelled(a)

(* Evidence that any outcome needs.                                          *)
Measured(e) ==
  /\ e.query /\ e.exact \in 0..e.considered
  /\ {e.best, e.runnerUp, e.margin} \subseteq 0..Exact /\ e.margin = e.best - e.runnerUp

LEMMA ValidWhen ==
  ASSUME NEW m, Measured(m.evidence),
         IF m.status = "matched" THEN m.id > 0 /\ m.media \in MediaTypes
                                 ELSE m.id = 0 /\ m.media = None,
         \/ /\ m.evidence.considered = 0 /\ m.status = "unmatched"
            /\ m.reason = "no_candidates" /\ m.evidence.best = 0
         \/ m.evidence.considered # 0 /\ m.status = "matched" /\ ValidMatched(m)
         \/ m.evidence.considered # 0 /\ m.status = "review" /\ ValidReview(m)
         \/ m.evidence.considered # 0 /\ m.status = "unmatched" /\ ValidUnmatched(m)
  PROVE  ValidMatch(m)
<1>1. m.status \in Statuses
  BY DEF Statuses
<1>2. ValidEvidence(m)
  <2>1. CASE m.evidence.considered = 0
    BY <2>1 DEF ValidEvidence, Measured
  <2>2. CASE m.evidence.considered # 0
    <3>1. CASE m.status = "matched" /\ ValidMatched(m)
      BY <2>2, <3>1 DEF ValidEvidence, Measured
    <3>2. CASE m.status = "review" /\ ValidReview(m)
      BY <2>2, <3>2 DEF ValidEvidence, Measured
    <3>3. CASE m.status = "unmatched" /\ ValidUnmatched(m)
      BY <2>2, <3>3 DEF ValidEvidence, Measured
    <3> QED BY <2>2, <3>1, <3>2, <3>3
  <2> QED BY <2>1, <2>2
<1> QED BY <1>1, <1>2 DEF ValidMatch

(* The outcome of any candidates passes its own validation.                  *)
LEMMA MatchIsValid ==
  ASSUME NEW C, Scorable(C), \A c \in C : c.id \in Nat \ {0} /\ c.media \in MediaTypes
  PROVE  ValidMatch(MatchTMDBTitle(FALSE, C))
<1> DEFINE e == Evidence(FALSE, C)
           m == MatchTMDBTitle(FALSE, C)
           X == {c \in C : Score(c) = Exact}
<1>1. Cardinality(C) \in Nat /\ (Cardinality(C) = 0 <=> C = {})
  BY FS_CardinalityType, FS_EmptySet DEF Scorable
<1>2. /\ Cardinality(X) \in Nat /\ Cardinality(X) <= Cardinality(C)
      /\ Cardinality(X) = 0 <=> X = {}
  BY FS_Subset, FS_CardinalityType, FS_EmptySet DEF Scorable
<1>3. /\ e.considered = Cardinality(C) /\ e.exact = Cardinality(X) /\ e.best = BestScore(C)
      /\ e.runnerUp = RunnerUpScore(C) /\ e.margin = BestScore(C) - RunnerUpScore(C) /\ e.query
  BY DEF Evidence
<1>4. {AcceptScore, ReviewScore, MinimumMargin, Exact} \subseteq Nat /\ ReviewScore <= AcceptScore
  BY ScoreAssumption
<1>5. /\ e.exact \in 0..e.considered
      /\ {e.best, e.runnerUp, e.margin} \subseteq 0..Exact /\ e.margin = e.best - e.runnerUp
  <2>1. BestScore(C) \in 0..Exact /\ RunnerUpScore(C) \in 0..Exact /\ RunnerUpScore(C) <= BestScore(C)
    BY ScoresInRange
  <2> HIDE DEF e, X
  <2>2. e.exact \in 0..e.considered
    BY <1>1, <1>2, <1>3
  <2>3. e.best \in 0..Exact /\ e.runnerUp \in 0..Exact /\ e.margin \in 0..Exact
    BY <1>3, <1>4, <2>1
  <2> QED BY <1>3, <2>2, <2>3
<1>6. e.exact > 0 => e.best = Exact
  <2>1. ASSUME X # {} PROVE BestScore(C) = Exact
    <3>1. PICK c \in C : Score(c) = Exact
      BY <2>1
    <3> QED BY <3>1, ExactIsBest DEF BestScore
  <2> HIDE DEF e, X
  <2> QED BY <1>2, <1>3, <2>1
<1>7. C = {} => e.exact = 0 /\ e.best = 0
  BY <1>2, <1>3 DEF BestScore
<1>8. /\ m.status = StatusFor(Reason(e)) /\ m.reason = Reason(e) /\ m.evidence = e
      /\ IF m.status = "matched" THEN m.id = Best(C).id /\ m.media = Best(C).media
                                 ELSE m.id = 0 /\ m.media = None
  BY DEF MatchTMDBTitle
<1>9. C # {} => Best(C).id \in Nat \ {0} /\ Best(C).media \in MediaTypes
  BY BestIsBest
<1> SUFFICES ValidMatch(m)
  OBVIOUS
<1> HIDE DEF e, m, X
<1>14. Measured(m.evidence)
  BY <1>3, <1>5, <1>8 DEF Measured
<1>15. m.status # "matched" => m.id = 0 /\ m.media = None
  BY <1>8
<1>16. m.status = "matched" /\ C # {} => m.id > 0 /\ m.media \in MediaTypes
  BY <1>8, <1>9
<1>17. C # {} => m.evidence.considered # 0
  BY <1>1, <1>3, <1>8
<1>10. CASE C = {}
  <2>1. Reason(e) = "no_candidates"
    BY <1>1, <1>3, <1>7, <1>10 DEF Reason
  <2>2. m.status = "unmatched"
    BY <1>8, <2>1 DEF StatusFor
  <2> QED BY <1>1, <1>3, <1>7, <1>8, <1>10, <1>14, <1>15, <2>1, <2>2, ValidWhen
<1>11. CASE C # {} /\ e.exact = 1
  <2>1. Reason(e) = "unique_exact_title"
    BY <1>1, <1>3, <1>11 DEF Reason
  <2>2. m.status = "matched"
    BY <1>8, <2>1 DEF StatusFor
  <2>3. ValidMatched(m)
    BY <1>6, <1>8, <1>11, <2>1 DEF ValidMatched
  <2> QED BY <1>11, <1>14, <1>16, <1>17, <2>2, <2>3, ValidWhen
<1>12. CASE C # {} /\ e.exact > 1
  <2>1. Reason(e) = "ambiguous_exact_title"
    BY <1>1, <1>3, <1>12 DEF Reason
  <2>2. m.status = "review"
    BY <1>8, <2>1 DEF StatusFor
  <2>3. ValidReview(m)
    BY <1>5, <1>6, <1>8, <1>12, <2>1 DEF ValidReview
  <2> QED BY <1>12, <1>14, <1>15, <1>17, <2>2, <2>3, ValidWhen
<1>13. CASE C # {} /\ e.exact = 0
  <2>1. e.considered > 0 /\ e.exact = 0
    BY <1>1, <1>3, <1>13
  <2>2. Reason(e) = IF e.best >= AcceptScore /\ e.margin >= MinimumMargin
                      THEN "high_confidence_title"
                    ELSE IF e.best >= ReviewScore THEN "similar_title_requires_review"
                    ELSE "below_review_threshold"
    BY <2>1 DEF Reason
  <2>3. CASE e.best >= AcceptScore /\ e.margin >= MinimumMargin
    <3>1. m.reason = "high_confidence_title" /\ m.status = "matched"
      BY <1>8, <2>2, <2>3 DEF StatusFor
    <3>2. ValidMatched(m)
      BY <1>8, <2>1, <2>3, <3>1 DEF ValidMatched
    <3> QED BY <1>13, <1>14, <1>16, <1>17, <3>1, <3>2, ValidWhen
  <2>4. CASE ~(e.best >= AcceptScore /\ e.margin >= MinimumMargin) /\ e.best >= ReviewScore
    <3>1. m.reason = "similar_title_requires_review" /\ m.status = "review"
      BY <1>8, <2>2, <2>4 DEF StatusFor
    <3>2. e.best < AcceptScore \/ e.margin < MinimumMargin
      BY <1>4, <1>5, <2>4
    <3>3. ValidReview(m)
      BY <1>8, <2>1, <2>4, <3>1, <3>2 DEF ValidReview
    <3> QED BY <1>13, <1>14, <1>15, <1>17, <3>1, <3>3, ValidWhen
  <2>5. CASE ~(e.best >= AcceptScore /\ e.margin >= MinimumMargin) /\ ~(e.best >= ReviewScore)
    <3>1. m.reason = "below_review_threshold" /\ m.status = "unmatched"
      BY <1>8, <2>2, <2>5 DEF StatusFor
    <3>2. e.best < ReviewScore
      BY <1>4, <1>5, <2>5
    <3>3. ValidUnmatched(m)
      BY <1>8, <2>1, <3>1, <3>2 DEF ValidUnmatched
    <3> QED BY <1>13, <1>14, <1>15, <1>17, <3>1, <3>3, ValidWhen
  <2> QED BY <2>3, <2>4, <2>5
<1> QED BY <1>2, <1>3, <1>10, <1>11, <1>12, <1>13

(* What the client lets through, the matcher takes.                          *)
LEMMA SearchesComplete ==
  ASSUME NEW o \in SearchOutcomes[FALSE]
  PROVE  o.code \in {None, "invalid_response"}
<1>1. PICK E \in Responses : o = OutcomeOf(FALSE, E)
  BY DEF SearchOutcomes
<1>2. \A e \in Included(E) : e \in Entity
  BY ResponsesAssumption DEF Included
<1>3. \A e \in Entity : ValidCandidate(e) => ValidMatchCandidate(e)
  BY DEF Entity, Text, ValidCandidate, ValidMatchCandidate, RemoteText, OptionalText, SingleLine
<1>4. DecodeSearch(E).code \in {None, "invalid_response"}
  BY <1>2, <1>3 DEF DecodeSearch, SearchDecodes
<1>5. ValidMatch(MatchTMDBTitle(FALSE, DecodeSearch(E).candidates))
  BY DecodedScorable, MatchIsValid
<1> QED BY <1>1, <1>4, <1>5 DEF OutcomeOf

(* And the records take what it lets through of the details.                 *)
LEMMA DetailsComplete ==
  ASSUME Ordinary, NEW c \in Accepting, NEW code \in DetailsCodes[c]
  PROVE  code \in {None, "invalid_response"}
<1>1. c \in [id : Nat \ {0}, media : MediaTypes]
  BY OutcomesTyped DEF Accepting
<1>2. PICK a \in Answers : code = DetailsCode(c, a)
  BY DetailsTyped
<1>3. a \in Answer /\ ~OddlyLabelled(a)
  BY ResponsesAssumption DEF Ordinary
<1> SUFFICES ASSUME DetailsDecode(c, a) PROVE NewTitleMetadata(DetailsOf(c, a))
  BY <1>2 DEF DetailsCode
<1> DEFINE d == DetailsOf(c, a)
<1>4. /\ d.id = c.id /\ d.media = c.media /\ d.title = a.title /\ d.overview = a.overview
      /\ d.language = a.language /\ d.genres = a.genres /\ d.countries = a.countries /\ d.date = a.date
      /\ d.runtime = IF a.runtimes = <<>> THEN None ELSE Head(a.runtimes)
      /\ d.seasons = IF c.media = "movie" THEN None ELSE a.seasons
      /\ d.episodes = IF c.media = "movie" THEN None ELSE a.episodes
  BY DEF DetailsOf
<1>5. /\ a.genres \in Seq(Text) /\ a.countries \in Seq(Text) /\ a.runtimes \in Seq(Int)
      /\ {a.title, a.overview, a.language} \subseteq Text
  BY <1>3 DEF Answer
<1> HIDE DEF d
<1>6. ValidDetails(d) /\ \A i \in DOMAIN a.runtimes : a.runtimes[i] > 0
  BY DEF DetailsDecode, d
<1>7. PositiveIfPresent(d.runtime)
  <2>1. a.runtimes # <<>> => Head(a.runtimes) > 0
    BY <1>5, <1>6
  <2> QED BY <1>4, <2>1 DEF PositiveIfPresent, Present
<1>8. /\ PositiveIfPresent(d.seasons) /\ PositiveIfPresent(d.episodes)
      /\ d.media = "movie" => ~Present(d.seasons) /\ ~Present(d.episodes)
  BY <1>1, <1>4 DEF DetailsDecode, PositiveIfPresent, Present, MediaTypes
<1>9. /\ SingleLine(d.title, FALSE) /\ OptionalText(d.overview, TRUE) /\ OptionalText(d.language, FALSE)
      /\ d.date # "other" /\ ValidVotes(d)
  BY <1>4, <1>5, <1>6 DEF ValidDetails, RemoteText, SingleLine, OptionalText, Text
<1>10. ASSUME NEW l \in Seq(Text), ~OddLabels(l), \A i \in DOMAIN l : RemoteText(l[i], TRUE, FALSE)
       PROVE  ValidLabels(l)
  <2>4. DOMAIN l = 1..Len(l) /\ \A i \in 1..Len(l) : l[i] \in Text
    OBVIOUS
  <2>1. \A i \in DOMAIN l : l[i] \in Text /\ l[i] # "a;b"
    BY <1>10, <2>4 DEF OddLabels
  <2>2. \A i \in DOMAIN l : SingleLine(l[i], FALSE)
    BY <1>10, <2>1 DEF RemoteText, SingleLine, Text
  <2>3. \A i, j \in DOMAIN l : ToLower(l[i]) = ToLower(l[j]) => i = j
    BY <1>10 DEF OddLabels
  <2> QED BY <2>1, <2>2, <2>3 DEF ValidLabels, IsInjective
<1>11. ValidLabels(a.genres) /\ ValidLabels(a.countries)
  BY <1>3, <1>4, <1>5, <1>6, <1>10 DEF OddlyLabelled, DetailsDecode, ValidDetails
<1>12. NewTitleMetadata(d)
  <2>1. d.media \in MediaTypes /\ d.id > 0
    BY <1>1, <1>4
  <2>2. ValidLabels(d.genres) /\ ValidLabels(d.countries)
    BY <1>4, <1>11
  <2> QED BY <1>7, <1>8, <1>9, <2>1, <2>2 DEF NewTitleMetadata
<1> QED BY <1>12 DEF d

(* A fault, or a DELETE, may be why a generation fails.                       *)
Blamed == trouble \/ deleted

Ended == Blamed \/ phase = "closing"

JobExplained ==
  /\ job.pc = "idle" => job = NoJob
  /\ job.canceled => deleted \/ phase = "closing"
  /\ job.error # None => Ended
  /\ job.error = "canceled" => job.canceled
  /\ job.pc \in {"failing", "failmark"} => job.error # None

ResultsExplained ==
  /\ InPool \/ results = <<>>
  /\ \A i \in DOMAIN results :
       /\ results[i].code = "canceled" => Stopped
       /\ results[i].code \notin {None, "canceled"} => trouble
       /\ files[results[i].title] = None
  /\ \A t \in todo : files[t] = None
  /\ \A w \in Workers : Busy(w) => files[worker[w].title] = None

AllHandled ==
  InPool /\ ~Stopped =>
    /\ closed => todo = {}
    /\ \A t \in Missing(files) :
         \/ t \in todo
         \/ \E w \in Workers : Busy(w) /\ worker[w].title = t
         \/ \E i \in DOMAIN results : results[i].title = t

Behind(c, d) ==
  c.matched <= d.matched /\ c.review <= d.review /\ c.unmatched <= d.unmatched /\ c.hits <= d.hits

ProgressKept ==
  /\ gen.state = "enriching" /\ ~Blamed =>
       IF gen.built THEN artifacts ELSE Behind(gen.counts, Coverage(files))
  /\ job.pc = "pool" /\ job.error = None => gen.counts = Coverage(files)
  /\ job.pc = "build" => gen.counts = Coverage(files) /\ Missing(files) = {}
  /\ job.pc \in {"validate", "remove", "activate"} => gen.built

RowsKeyed == \A r \in cache : r.key = CacheKey(r.lookup)

Explained == JobExplained /\ ResultsExplained /\ AllHandled /\ ProgressKept /\ RowsKeyed /\ FailureExplained

-----------------------------------------------------------------------------
(***************************************************************************)
(* Counting: what a checkpoint adds to the coverage, and what it comes to  *)
(* once no title is left.                                                  *)
(***************************************************************************)
LEMMA StatusCounted ==
  ASSUME NEW f \in Files
  PROVE  LET Titled(status) == {t \in Stored(f) : f[t].status = status} IN
         /\ \A status : IsFiniteSet(Titled(status)) /\ Cardinality(Titled(status)) \in Nat
         /\ Coverage(f).matched = Cardinality(Titled("matched"))
         /\ Coverage(f).review = Cardinality(Titled("review"))
         /\ Coverage(f).unmatched = Cardinality(Titled("unmatched"))
<1>1. \A S \in SUBSET Titles : IsFiniteSet(S) /\ Cardinality(S) \in Nat
  BY FiniteAssumption, FS_Subset, FS_CardinalityType
<1> QED BY <1>1 DEF Coverage, Stored

(* A new checkpoint takes nothing from what is counted.                      *)
LEMMA CoverageGrows ==
  ASSUME NEW f \in Files, NEW t \in Titles, f[t] = None, NEW c \in Checkpoint
  PROVE  Behind(Coverage(f), Coverage([f EXCEPT ![t] = c]))
<1> DEFINE g == [f EXCEPT ![t] = c]
<1>1. \A S, T \in SUBSET Titles : S \subseteq T => Cardinality(S) <= Cardinality(T)
  BY FiniteAssumption, FS_Subset
<1>2. \A u \in Stored(f) : u \in Stored(g) /\ g[u] = f[u]
  BY DEF Files, Stored
<1> HIDE DEF g
<1>3. \A status : Cardinality({u \in Stored(f) : f[u].status = status})
                    <= Cardinality({u \in Stored(g) : g[u].status = status})
  <2> SUFFICES ASSUME NEW status
               PROVE  Cardinality({u \in Stored(f) : f[u].status = status})
                        <= Cardinality({u \in Stored(g) : g[u].status = status})
    OBVIOUS
  <2> DEFINE S == {u \in Stored(f) : f[u].status = status}
             T == {u \in Stored(g) : g[u].status = status}
  <2>1. S \subseteq T /\ S \in SUBSET Titles /\ T \in SUBSET Titles
    BY <1>2 DEF Stored
  <2> HIDE DEF S, T
  <2>2. Cardinality(S) <= Cardinality(T)
    BY <1>1, <2>1
  <2> QED BY <2>2 DEF S, T
<1>4. Cardinality({u \in Stored(f) : f[u].hit}) <= Cardinality({u \in Stored(g) : g[u].hit})
  <2> DEFINE S == {u \in Stored(f) : f[u].hit}
             T == {u \in Stored(g) : g[u].hit}
  <2>1. S \subseteq T /\ S \in SUBSET Titles /\ T \in SUBSET Titles
    BY <1>2 DEF Stored
  <2> HIDE DEF S, T
  <2>2. Cardinality(S) <= Cardinality(T)
    BY <1>1, <2>1
  <2> QED BY <2>2 DEF S, T
<1>5. Behind(Coverage(f), Coverage(g))
  BY <1>3, <1>4 DEF Behind, Coverage
<1> QED BY <1>5 DEF g

LEMMA BehindTransitive ==
  ASSUME NEW b \in Counts, NEW c \in Counts, NEW d \in Counts, Behind(b, c), Behind(c, d)
  PROVE  Behind(b, d)
  BY DEF Counts, Behind

(* Once no title is left, everything is counted once.                        *)
LEMMA CoverageComplete ==
  ASSUME NEW f \in Files, Missing(f) = {}
  PROVE  Completed(Coverage(f)) = Cardinality(Titles)
<1> DEFINE T(status) == {t \in Stored(f) : f[t].status = status}
           A == T("matched")
           B == T("review")
           C == T("unmatched")
<1>1. Stored(f) = Titles
  BY DEF Missing, Stored
<1>2. \A t \in Titles : f[t].status \in Statuses
  BY <1>1 DEF Stored, Files, Checkpoint
<1>3. Titles = (A \cup B) \cup C /\ A \cap B = {} /\ (A \cup B) \cap C = {}
  BY <1>1, <1>2 DEF Statuses
<1>4. IsFiniteSet(A) /\ IsFiniteSet(B) /\ IsFiniteSet(C)
  BY StatusCounted
<1>5. Cardinality(A) \in Nat /\ Cardinality(B) \in Nat /\ Cardinality(C) \in Nat
  BY StatusCounted
<1>6. Completed(Coverage(f)) = Cardinality(A) + Cardinality(B) + Cardinality(C)
  BY DEF Completed, Coverage
<1> HIDE DEF A, B, C
<1>7. ASSUME NEW S, NEW U, IsFiniteSet(S), IsFiniteSet(U), S \cap U = {},
             Cardinality(S) \in Nat, Cardinality(U) \in Nat
      PROVE  IsFiniteSet(S \cup U) /\ Cardinality(S \cup U) = Cardinality(S) + Cardinality(U)
  <2>1. Cardinality(S \cap U) = 0
    BY <1>7, FS_EmptySet
  <2>2. /\ IsFiniteSet(S \cup U)
        /\ Cardinality(S \cup U) = Cardinality(S) + Cardinality(U) - Cardinality(S \cap U)
    BY <1>7, FS_Union
  <2> QED BY <1>7, <2>1, <2>2
<1>8. IsFiniteSet(A \cup B) /\ Cardinality(A \cup B) = Cardinality(A) + Cardinality(B)
  BY <1>3, <1>4, <1>5, <1>7
<1>9. Cardinality(A \cup B) \in Nat
  BY <1>5, <1>8
<1>10. Cardinality((A \cup B) \cup C) = Cardinality(A \cup B) + Cardinality(C)
  BY <1>3, <1>4, <1>5, <1>7, <1>8, <1>9
<1> QED BY <1>3, <1>6, <1>8, <1>10

(* The records then agree with the checkpoints.                              *)
LEMMA BuildComplete ==
  ASSUME files \in Files, Missing(files) = {}, gen.counts = Coverage(files)
  PROVE  Enrichable /\ CompleteCoverage
<1>1. Stored(files) = Titles
  BY DEF Missing, Stored
<1>2. \A s \in Searches : Key[s] \in Titles
  BY KeyAssumption
<1>3. \A status : {Key[s] : s \in {t \in Searches : files[Key[t]].status = status}}
                    = {t \in Stored(files) : files[t].status = status}
  <2> SUFFICES ASSUME NEW status, NEW t
               PROVE  t \in {Key[s] : s \in {q \in Searches : files[Key[q]].status = status}}
                        <=> t \in {q \in Stored(files) : files[q].status = status}
    OBVIOUS
  <2>1. t \in Titles <=> \E s \in Searches : t = Key[s]
    BY KeyAssumption
  <2> QED BY <1>1, <2>1
<1>4. \A status : Aggregated(status) = Cardinality({t \in Stored(files) : files[t].status = status})
  BY <1>3 DEF Aggregated
<1>5. CompleteCoverage
  BY <1>4, StatusCounted, CoverageComplete DEF CompleteCoverage
<1> QED BY <1>1, <1>2, <1>5 DEF Enrichable

-----------------------------------------------------------------------------
(***************************************************************************)
(* Every step keeps the explanation: the job, the workers, and what comes  *)
(* from outside.                                                           *)
(***************************************************************************)
LEMMA ExplainedInit == Init => Explained
<1> SUFFICES ASSUME Init PROVE Explained
  OBVIOUS
<1> USE DEF Init
<1>1. JobExplained
  <2>1. job.pc = "idle" /\ job.canceled = FALSE /\ job.error = None /\ job = NoJob
    BY DEF NoJob
  <2>2. None # "canceled"
    BY NoneAssumption DEF Codes
  <2> QED BY <2>1, <2>2 DEF JobExplained
<1>2. ResultsExplained
  BY DEF ResultsExplained, Busy, Ready
<1>3. AllHandled
  BY DEF AllHandled, InPool, NoJob
<1>4. ProgressKept
  BY DEF ProgressKept, NoGeneration, NewGeneration, NoJob
<1>5. RowsKeyed /\ FailureExplained
  BY DEF RowsKeyed, CacheInit, FailureExplained, NoGeneration, NewGeneration
<1> QED BY <1>1, <1>2, <1>3, <1>4, <1>5 DEF Explained

(* What a step that blames nobody less keeps of each part.                   *)
LEMMA JobFailing ==
  ASSUME JobExplained, job \in JobState, NEW code \in Codes, JobFails(code), job.pc # "idle",
         UNCHANGED <<phase, deleted>>, trouble => trouble', Ended', code = "canceled" => job.canceled
  PROVE  JobExplained' /\ job'.pc = "failing" /\ job'.error # None
<1>1. /\ job'.pc = "failing" /\ job'.canceled = job.canceled
      /\ job'.error = IF job.error = None THEN code ELSE job.error
  BY DEF JobFails, JobState
<1>2. job'.error # None
  BY <1>1, NoneAssumption
<1> QED BY <1>1, <1>2 DEF JobExplained, Ended, Blamed

LEMMA JobGoing ==
  ASSUME JobExplained, job \in JobState, NEW pc, JobTo(pc), pc # "idle",
         pc \in {"failing", "failmark"} => job.error # None,
         UNCHANGED <<phase, deleted>>, trouble => trouble'
  PROVE  JobExplained' /\ job'.pc = pc /\ job'.error = job.error /\ job'.canceled = job.canceled
<1>1. job'.pc = pc /\ job'.canceled = job.canceled /\ job'.error = job.error
  BY DEF JobTo, JobState
<1> QED BY <1>1 DEF JobExplained, Ended, Blamed

LEMMA ResultsKept ==
  ASSUME ResultsExplained, UNCHANGED <<worker, todo, results, files>>, trouble => trouble',
         Stopped => Stopped', InPool => InPool' \/ results = <<>>
  PROVE  ResultsExplained'
  BY DEF ResultsExplained, Busy

(* Outside the pool there is nobody to leave.                                *)
LEMMA OutsideResults ==
  ASSUME ResultsExplained, PoolInv, ~InPool,
         worker' = worker, results' = <<>>, \A t \in todo' : files'[t] = None
  PROVE  ResultsExplained'
<1>1. \A w \in Workers : ~Busy(w)'
  BY DEF PoolInv, OnlyInPool, Busy
<1> QED BY <1>1 DEF ResultsExplained

LEMMA HandledKept ==
  ASSUME AllHandled, UNCHANGED <<worker, todo, closed, results, files>>,
         InPool' => InPool, Stopped => Stopped'
  PROVE  AllHandled'
  BY DEF AllHandled, Busy

LEMMA NoPoolHandled == ASSUME ~InPool' PROVE AllHandled'
  BY DEF AllHandled

(* A file is as it was, and nobody is blamed less.                           *)
LEMMA FailureKept ==
  ASSUME FailureExplained, gen'.state = gen.state, gen'.code = gen.code,
         trouble => trouble', deleted => deleted'
  PROVE  FailureExplained'
  BY DEF FailureExplained

LEMMA BehindItself == ASSUME NEW c \in Counts PROVE Behind(c, c)
  BY DEF Counts, Behind

(* A step of the job outside its pool.                                       *)
LEMMA OutsideExplained ==
  ASSUME Typed, AskInv, Explained, ~InPool, ~InPool', UNCHANGED <<worker, todo, results, cache>>,
         files' = files \/ files' = NoFiles, JobExplained', ProgressKept', FailureExplained'
  PROVE  Explained'
<1>1. results' = <<>>
  BY DEF Explained, ResultsExplained
<1>2. \A t \in todo' : files'[t] = None
  BY DEF Explained, ResultsExplained, Typed, ResultsTyped, NoFiles
<1>3. ResultsExplained'
  BY <1>1, <1>2, OutsideResults DEF Explained, AskInv
<1>4. AllHandled' /\ RowsKeyed'
  BY NoPoolHandled DEF Explained, RowsKeyed
<1> QED BY <1>3, <1>4 DEF Explained

(* A step of the job that fails it, outside its pool or at its end.            *)
LEMMA FailingExplained ==
  ASSUME Typed, AskInv, Explained, NEW code \in Codes, JobFails(code), job.pc # "idle",
         InPool => PoolEnded, UNCHANGED <<gen, files, pool, cache, phase, deleted>>,
         trouble => trouble', Ended', code = "canceled" => job.canceled,
         artifacts' = artifacts \/ trouble'
  PROVE  Explained'
<1>1. JobExplained' /\ job'.pc = "failing" /\ job'.error # None
  BY JobFailing DEF Explained, Typed, StoredTyped
<1>2. ProgressKept'
  BY <1>1 DEF Explained, ProgressKept, Blamed
<1>3. FailureExplained'
  BY FailureKept DEF Explained
<1>4. ResultsExplained'
  <2>1. results = <<>> /\ \A w \in Workers : ~Busy(w)
    BY DEF Explained, ResultsExplained, PoolEnded, Busy, AskInv, PoolInv, OnlyInPool
  <2>2. \A w \in Workers : ~Busy(w)'
    BY <2>1 DEF pool, Busy
  <2>3. UNCHANGED <<todo, results, files>>
    BY DEF pool
  <2> QED BY <2>1, <2>2, <2>3 DEF Explained, ResultsExplained
<1>5. ~InPool' /\ RowsKeyed'
  BY <1>1 DEF InPool, Explained, RowsKeyed
<1> QED BY <1>1, <1>2, <1>3, <1>4, <1>5, NoPoolHandled DEF Explained

LEMMA ReadExplained ==
  ASSUME Ordinary, Typed, AskInv, Explained, ReadCheckpoints
  PROVE  Explained'
<1>1. /\ job.pc = "read" /\ ~gen.built /\ ~InPool
      /\ UNCHANGED <<cache, phase, deleted, files, artifacts, worker>>
  BY DEF ReadCheckpoints, JobFrame, InPool, StartPool, pool
<1>2. /\ job \in JobState /\ gen \in Generation /\ files \in Files /\ gen.state = "enriching"
      /\ trouble \in BOOLEAN
  BY <1>1 DEF Typed, StoredTyped
<1>3. Coverage(files) \in Counts /\ gen.counts \in Counts
  BY <1>2, CoverageTyped DEF Generation
<1>4. CASE /\ \E code \in Codes \ {"canceled"} : JobFails(code)
           /\ UNCHANGED <<gen, pool>> /\ (trouble => trouble') /\ Ended'
  BY <1>1, <1>4, FailingExplained
<1>5. job.canceled => Ended
  BY DEF Explained, JobExplained, Ended, Blamed
<1>6. ~Reconciled(Coverage(files)) => Ended
  <2>1. Behind(gen.counts, Coverage(files)) => Reconciled(Coverage(files))
    BY <1>3 DEF Behind, Reconciled, Completed, Counts
  <2> QED BY <1>1, <1>2, <2>1 DEF Explained, ProgressKept, Ended
<1>7. Ended /\ UNCHANGED trouble => Ended'
  BY <1>1 DEF Ended, Blamed
<1>8. CASE /\ gen' = [gen EXCEPT !.counts = Coverage(files)] /\ UNCHANGED trouble
           /\ Missing(files) = {} /\ JobTo("build") /\ UNCHANGED pool
  <2>1. JobExplained' /\ job'.pc = "build"
    BY <1>1, <1>2, <1>8, JobGoing DEF Explained
  <2>2. gen'.counts = Coverage(files) /\ gen'.built = gen.built /\ gen'.state = gen.state
    BY <1>2, <1>8 DEF Generation
  <2>3. ProgressKept'
    BY <1>1, <1>3, <1>8, <2>1, <2>2, BehindItself DEF ProgressKept
  <2>4. FailureExplained' /\ ~InPool'
    BY <1>2, <2>1, <2>2 DEF FailureExplained, InPool
  <2>5. UNCHANGED <<todo, results>>
    BY <1>8 DEF pool
  <2> QED BY <1>1, <2>1, <2>3, <2>4, <2>5, OutsideExplained
<1>9. CASE /\ gen' = [gen EXCEPT !.counts = Coverage(files)] /\ UNCHANGED trouble
           /\ JobTo("pool") /\ StartPool
  <2>1. JobExplained' /\ job'.pc = "pool"
    BY <1>1, <1>2, <1>9, JobGoing DEF Explained
  <2>2. gen'.counts = Coverage(files) /\ gen'.built = gen.built /\ gen'.state = gen.state
    BY <1>2, <1>9 DEF Generation
  <2>3. ProgressKept'
    BY <1>1, <1>3, <2>1, <2>2, BehindItself DEF ProgressKept
  <2>4. FailureExplained' /\ RowsKeyed'
    BY <1>1, <1>2, <2>2 DEF FailureExplained, Explained, RowsKeyed
  <2>5. todo' = Missing(files) /\ closed' = FALSE /\ results' = <<>>
    BY <1>9 DEF StartPool
  <2>6. ResultsExplained'
    BY <1>1, <2>5, OutsideResults DEF Explained, AskInv, Missing, Stored
  <2>7. AllHandled'
    BY <1>1, <2>5 DEF AllHandled
  <2> QED BY <2>1, <2>3, <2>4, <2>6, <2>7 DEF Explained
<1>10. {"stale_source", "persistence_failed", "incomplete"} \subseteq Codes \ {"canceled"}
  BY DEF Codes
<1>11. CASE job.canceled /\ JobFails("stale_source") /\ UNCHANGED <<gen, pool, trouble>>
  BY <1>4, <1>5, <1>7, <1>10, <1>11
<1>12. CASE Faulty("persistence_failed") /\ UNCHANGED <<gen, pool>>
  BY <1>4, <1>10, <1>12 DEF Faulty, Ended, Blamed
<1>13. CASE ~Reconciled(Coverage(files)) /\ JobFails("incomplete") /\ UNCHANGED <<gen, pool, trouble>>
  BY <1>4, <1>6, <1>7, <1>10, <1>13
<1> QED BY <1>8, <1>9, <1>11, <1>12, <1>13 DEF ReadCheckpoints, Ordinary

LEMMA ArtifactsExplained ==
  ASSUME Typed, AskInv, Explained, ReadArtifacts
  PROVE  Explained'
<1>1. /\ job.pc \in {"read", "validate"} /\ gen.built /\ ~InPool /\ UNCHANGED <<stored, pool>>
      /\ UNCHANGED <<cache, phase, deleted>>
  BY DEF ReadArtifacts, JobFrame, InPool, Explained, ProgressKept
<1>2. UNCHANGED <<gen, files, artifacts, worker, todo, results>>
  BY <1>1 DEF stored, pool
<1>3. job \in JobState /\ gen.state = "enriching"
  BY <1>1 DEF Typed, StoredTyped
<1>4. (job.canceled \/ ~artifacts) /\ trouble' = trouble => Ended'
  BY <1>1, <1>3 DEF Explained, JobExplained, ProgressKept, Ended, Blamed
<1>5. {"canceled", "persistence_failed", "incomplete"} \subseteq Codes
  BY DEF Codes
<1>6. CASE JobTo("remove") /\ UNCHANGED trouble
  <2>1. JobExplained' /\ job'.pc = "remove"
    BY <1>1, <1>3, <1>6, JobGoing DEF Explained
  <2>2. ProgressKept' /\ ~InPool'
    BY <1>1, <1>2, <1>6, <2>1 DEF Explained, ProgressKept, Blamed, InPool
  <2>3. FailureExplained'
    BY <1>1, <1>2, <1>6, FailureKept DEF Explained
  <2> QED BY <1>1, <1>2, <2>1, <2>2, <2>3, OutsideExplained
<1>7. CASE ~artifacts /\ JobFails("incomplete") /\ UNCHANGED trouble
  BY <1>1, <1>2, <1>4, <1>5, <1>7, FailingExplained
<1>8. CASE job.canceled /\ JobFails("canceled") /\ UNCHANGED trouble
  BY <1>1, <1>2, <1>4, <1>5, <1>8, FailingExplained
<1>9. CASE Faulty("persistence_failed")
  <2>1. Ended' /\ trouble'
    BY <1>9 DEF Faulty, Ended, Blamed
  <2> QED BY <1>1, <1>2, <1>5, <1>9, <2>1, FailingExplained DEF Faulty
<1> QED BY <1>6, <1>7, <1>8, <1>9 DEF ReadArtifacts

(* The collector takes a result; a checkpoint may be written for its title.   *)
LEMMA ReceivedExplained ==
  ASSUME ResultsExplained, WorkersTyped, ResultsTyped, Collecting, Received, InPool',
         trouble => trouble', Stopped => Stopped',
         \A t \in Titles : t # Head(results).title => files'[t] = files[t]
  PROVE  ResultsExplained'
<1>1. results \in Seq(Result) /\ results # <<>> /\ results' = Tail(results) /\ todo' = todo /\ worker' = worker
  BY DEF Received, ResultsTyped, Collecting
<1>2. 1 \in DOMAIN results /\ Head(results) = results[1] /\ results[1].title \in Titles
  <2>1. 1 \in DOMAIN results /\ Head(results) = results[1] /\ results[1] \in Result
    BY <1>1
  <2> QED BY <2>1 DEF Result
<1>8. \A i \in DOMAIN results' :
        i \in Nat \ {0} /\ i + 1 \in DOMAIN results /\ results'[i] = results[i + 1]
  BY <1>1
<1>9. \A i \in DOMAIN results : results[i] \in Result
  BY <1>1
<1>3. \A i \in DOMAIN results' :
        /\ i + 1 \in DOMAIN results /\ results'[i] = results[i + 1] /\ i + 1 # 1
        /\ results[i + 1].title \in Titles
  BY <1>8, <1>9 DEF Result
<1>4. ASSUME NEW i \in DOMAIN results' PROVE files'[results'[i].title] = None
  <2>3. i + 1 \in DOMAIN results /\ i + 1 # 1
    BY <1>3
  <2>1. results[i + 1].title # results[1].title
    BY <1>2, <2>3 DEF ResultsTyped
  <2>2. files[results[i + 1].title] = None
    BY <1>3 DEF ResultsExplained
  <2> QED BY <1>2, <1>3, <2>1, <2>2
<1>5. \A i \in DOMAIN results' : (results'[i].code = "canceled" => Stopped')
                              /\ (results'[i].code \notin {None, "canceled"} => trouble')
  BY <1>3 DEF ResultsExplained
<1>6. \A t \in todo' : files'[t] = None
  BY <1>1, <1>2 DEF ResultsTyped, ResultsExplained
<1>7. ASSUME NEW w \in Workers, Busy(w)' PROVE files'[worker'[w].title] = None
  <2>1. Busy(w) /\ worker'[w] = worker[w]
    BY <1>1, <1>7 DEF Busy
  <2>2. worker[w].title \in Titles /\ worker[w].title # results[1].title /\ files[worker[w].title] = None
    BY <1>2, <2>1 DEF WorkersTyped, ResultsTyped, ResultsExplained
  <2> QED BY <1>2, <2>1, <2>2
<1> QED BY <1>4, <1>5, <1>6, <1>7 DEF ResultsExplained

LEMMA CollectExplained ==
  ASSUME Typed, AskInv, Explained, CollectError \/ DropResult
  PROVE  Explained'
<1> DEFINE r == Head(results)
<1>1. /\ Collecting /\ Received
      /\ UNCHANGED <<cache, phase, deleted, trouble, gen, files, artifacts>>
      /\ job.pc = "pool" /\ job \in JobState
  BY DEF CollectError, DropResult, JobFrame, Collecting, stored, Typed, StoredTyped
<1>2. results # <<>> /\ results \in Seq(Result)
  BY <1>1 DEF Collecting, Typed, ResultsTyped
<1>3. r = results[1] /\ 1 \in DOMAIN results /\ r \in Result
  BY <1>2
<1>4. /\ r.code = "canceled" => Stopped
      /\ r.code \notin {None, "canceled"} => trouble
  BY <1>3 DEF Explained, ResultsExplained
<1> HIDE DEF r
<1>5. job' = [job EXCEPT !.error = job'.error] /\ job'.error # None
  BY <1>1 DEF CollectError, DropResult, JobState, r
<1>6. job'.pc = "pool" /\ job'.canceled = job.canceled
  BY <1>1, <1>5 DEF JobState
<1>7. job'.error = job.error \/ (job.error = None /\ job'.error = r.code /\ r.code # None)
  BY <1>1, <1>5 DEF CollectError, DropResult, JobState, r
<1>8. JobExplained'
  <2>1. job.canceled => Ended
    BY DEF Explained, JobExplained, Ended, Blamed
  <2>2. Ended => Ended'
    BY <1>1 DEF Ended, Blamed
  <2>3. job'.error = "canceled" => job.canceled
    BY <1>4, <1>7 DEF Explained, JobExplained, Stopped
  <2>4. Ended'
    <3>1. CASE job'.error = job.error
      BY <1>5, <2>2, <3>1 DEF Explained, JobExplained
    <3>2. CASE r.code = "canceled"
      BY <1>5, <1>7, <2>1, <2>2, <1>4, <3>2 DEF Stopped, Explained, JobExplained
    <3>3. CASE r.code \notin {None, "canceled"}
      BY <1>4, <2>2, <3>3 DEF Ended, Blamed
    <3> QED BY <1>7, <3>1, <3>2, <3>3
  <2> QED BY <1>1, <1>6, <2>3, <2>4 DEF Explained, JobExplained
<1>9. Stopped' /\ InPool'
  BY <1>5, <1>6 DEF Stopped, InPool
<1>10. ResultsExplained'
  BY <1>1, <1>9, ReceivedExplained DEF Explained, Typed
<1>11. AllHandled' /\ ProgressKept'
  BY <1>1, <1>5, <1>6, <1>9 DEF AllHandled, Explained, ProgressKept, Blamed
<1>12. FailureExplained' /\ RowsKeyed'
  BY <1>1, FailureKept DEF Explained, RowsKeyed
<1> QED BY <1>8, <1>10, <1>11, <1>12 DEF Explained

LEMMA WriteExplained ==
  ASSUME Typed, AskInv, Explained, WriteCheckpoint
  PROVE  Explained'
<1> DEFINE r == Head(results)
<1>1. /\ Collecting /\ Received /\ r.code = None /\ job.error = None
      /\ UNCHANGED <<cache, phase, deleted, gen, artifacts>>
      /\ job.pc = "pool" /\ job \in JobState
  BY DEF WriteCheckpoint, JobFrame, Collecting, Typed, StoredTyped
<1>2. results # <<>> /\ results \in Seq(Result)
  BY <1>1 DEF Collecting, Typed, ResultsTyped
<1>3. r = results[1] /\ 1 \in DOMAIN results /\ r \in Result
  BY <1>2
<1>4. /\ files[r.title] = None /\ r.title \in Titles /\ files \in Files
      /\ [status |-> r.status, hit |-> r.hit] \in Checkpoint
  BY <1>1, <1>3 DEF Explained, ResultsExplained, Typed, ResultsTyped, StoredTyped, Checkpoint, Result
<1>5. RowsKeyed'
  BY <1>1 DEF Explained, RowsKeyed
<1>6. CASE /\ files' = [files EXCEPT ![r.title] = [status |-> r.status, hit |-> r.hit]]
           /\ JobTo("record") /\ UNCHANGED trouble
  <2> DEFINE c == [status |-> r.status, hit |-> r.hit]
  <2>1. \A t \in Titles : files'[t] = IF t = r.title THEN c ELSE files[t]
    BY <1>4, <1>6 DEF Files
  <2>2. c \in Checkpoint /\ c # None
    BY <1>4, NoneAssumption
  <2>3. JobExplained' /\ job'.pc = "record" /\ job'.error = job.error /\ job'.canceled = job.canceled
    BY <1>1, <1>6, JobGoing DEF Explained
  <2>4. InPool' /\ (Stopped <=> Stopped')
    BY <2>3 DEF InPool, Stopped
  <2>5. Behind(Coverage(files), Coverage(files'))
    BY <1>4, <1>6, CoverageGrows
  <2> HIDE DEF c, r
  <2>6. ResultsExplained'
    BY <1>1, <1>6, <2>1, <2>4, ReceivedExplained DEF Explained, Typed, r
  <2>7. ProgressKept'
    <3>1. files' \in Files /\ gen \in Generation
      BY <1>4, <1>6, <2>2 DEF Files, c, Typed, StoredTyped
    <3>2. Coverage(files) \in Counts /\ Coverage(files') \in Counts /\ gen.counts \in Counts
      BY <1>4, <3>1, CoverageTyped DEF Generation
    <3>3. Behind(gen.counts, Coverage(files)) => Behind(gen.counts, Coverage(files'))
      BY <2>5, <3>2, BehindTransitive
    <3> QED BY <1>1, <1>6, <2>3, <3>3 DEF Explained, ProgressKept, Blamed
  <2>8. AllHandled'
    <3> SUFFICES ASSUME ~Stopped'
                 PROVE  /\ closed' => todo' = {}
                        /\ \A t \in Missing(files)' :
                             \/ t \in todo'
                             \/ \E w \in Workers : Busy(w)' /\ worker'[w].title = t
                             \/ \E i \in DOMAIN results' : results'[i].title = t
      BY DEF AllHandled
    <3>1. UNCHANGED <<worker, todo, closed>> /\ results' = Tail(results)
      BY <1>1 DEF Received
    <3>2. closed => todo = {}
      BY <1>1, <2>4 DEF Explained, AllHandled, InPool
    <3>3. ASSUME NEW t \in Missing(files)'
          PROVE  \/ t \in todo
                 \/ \E w \in Workers : Busy(w) /\ worker[w].title = t
                 \/ \E i \in DOMAIN results' : results'[i].title = t
      <4>1. t \in Missing(files) /\ t # r.title
        BY <2>1, <2>2 DEF Missing, Stored
      <4>2. CASE \E i \in DOMAIN results : results[i].title = t
        <5>1. PICK i \in DOMAIN results : results[i].title = t
          BY <4>2
        <5>2. i # 1
          BY <1>3, <4>1, <5>1 DEF r
        <5>3. i - 1 \in DOMAIN results' /\ results'[i - 1] = results[i]
          BY <1>2, <3>1, <5>2
        <5> QED BY <5>1, <5>3
      <4> QED BY <1>1, <2>4, <4>1, <4>2 DEF Explained, AllHandled, InPool
    <3> QED BY <3>1, <3>2, <3>3 DEF Busy
  <2> QED BY <1>1, <1>5, <1>6, <2>3, <2>6, <2>7, <2>8, FailureKept DEF Explained
<1>7. CASE job' = [job EXCEPT !.error = "persistence_failed"] /\ trouble' = TRUE /\ UNCHANGED files
  <2>1. job'.pc = "pool" /\ job'.error = "persistence_failed" /\ job'.canceled = job.canceled
    BY <1>1, <1>7 DEF JobState
  <2>2. "persistence_failed" # None
    BY NoneAssumption DEF Codes
  <2>3. JobExplained'
    BY <1>1, <1>7, <2>1 DEF Explained, JobExplained, Ended, Blamed
  <2>4. Stopped' /\ InPool'
    BY <2>1, <2>2 DEF Stopped, InPool
  <2>5. ResultsExplained'
    BY <1>1, <1>7, <2>4, ReceivedExplained DEF Explained, Typed
  <2>6. AllHandled' /\ ProgressKept'
    BY <1>7, <2>1, <2>2, <2>4 DEF AllHandled, ProgressKept, Blamed
  <2> QED BY <1>1, <1>5, <1>7, <2>3, <2>5, <2>6, FailureKept DEF Explained
<1> QED BY <1>4, <1>6, <1>7 DEF WriteCheckpoint

LEMMA RecordExplained ==
  ASSUME Typed, AskInv, Explained, RecordProgress
  PROVE  Explained'
<1>1. /\ UNCHANGED <<cache, phase, deleted, files, artifacts, worker, todo, closed, results>>
      /\ job.pc = "record" /\ job \in JobState /\ gen \in Generation /\ files \in Files
  BY DEF RecordProgress, JobFrame, pool, Typed, StoredTyped
<1>2. RowsKeyed'
  BY <1>1 DEF Explained, RowsKeyed
<1>3. CASE gen' = [gen EXCEPT !.counts = Coverage(files)] /\ JobTo("pool") /\ UNCHANGED trouble
  <2>1. JobExplained' /\ job'.pc = "pool" /\ job'.error = job.error /\ job'.canceled = job.canceled
    BY <1>1, <1>3, JobGoing DEF Explained
  <2>2. /\ gen'.state = gen.state /\ gen'.code = gen.code /\ gen'.built = gen.built
        /\ gen'.counts = Coverage(files)
    BY <1>1, <1>3 DEF Generation
  <2>3. Behind(Coverage(files), Coverage(files))
    BY <1>1, CoverageTyped, BehindItself
  <2>4. ProgressKept'
    BY <1>1, <1>3, <2>1, <2>2, <2>3 DEF Explained, ProgressKept, Blamed
  <2>5. InPool /\ InPool' /\ (Stopped <=> Stopped')
    BY <1>1, <2>1 DEF InPool, Stopped
  <2>6. ResultsExplained' /\ AllHandled'
    BY <1>1, <1>3, <2>5, ResultsKept, HandledKept DEF Explained
  <2> QED BY <1>2, <1>3, <2>1, <2>2, <2>4, <2>6, FailureKept, <1>1 DEF Explained
<1>4. CASE /\ job' = [job EXCEPT !.pc = "pool", !.error = "persistence_failed"]
           /\ trouble' = TRUE /\ UNCHANGED gen
  <2>1. job'.pc = "pool" /\ job'.error = "persistence_failed" /\ job'.canceled = job.canceled
    BY <1>1, <1>4 DEF JobState
  <2>2. "persistence_failed" # None
    BY NoneAssumption DEF Codes
  <2>3. JobExplained'
    BY <1>1, <1>4, <2>1 DEF Explained, JobExplained, Ended, Blamed
  <2>4. Stopped' /\ InPool'
    BY <2>1, <2>2 DEF Stopped, InPool
  <2>5. ResultsExplained' /\ AllHandled'
    BY <1>1, <1>4, <2>4, ResultsKept DEF Explained, AllHandled
  <2>6. ProgressKept'
    BY <1>4, <2>1, <2>2 DEF ProgressKept, Blamed
  <2> QED BY <1>1, <1>2, <1>4, <2>3, <2>5, <2>6, FailureKept DEF Explained
<1> QED BY <1>3, <1>4 DEF RecordProgress

(* The pool has ended: without an error every title has its checkpoint.       *)
LEMMA EndExplained ==
  ASSUME Typed, AskInv, Explained, EndPool
  PROVE  Explained'
<1>1. /\ job.pc = "pool" /\ PoolEnded /\ UNCHANGED <<cache, phase, deleted, trouble, stored, pool>>
      /\ job \in JobState /\ InPool
  BY DEF EndPool, JobFrame, Typed, StoredTyped, InPool
<1>2. UNCHANGED <<gen, files, artifacts, worker, todo, closed, results>>
  BY <1>1 DEF stored, pool
<1>3. Ended => Ended'
  BY <1>1 DEF Ended, Blamed
<1>4. CASE job.error # None /\ JobFails(job.error)
  <2>1. job.error \in Codes
    BY <1>1, <1>4 DEF JobState
  <2> QED BY <1>1, <1>2, <1>3, <1>4, <2>1, FailingExplained DEF Explained, JobExplained
<1>5. CASE job.canceled /\ JobFails("canceled")
  <2>1. "canceled" \in Codes /\ Ended
    BY <1>5 DEF Codes, Explained, JobExplained, Ended, Blamed
  <2> QED BY <1>1, <1>2, <1>3, <1>5, <2>1, FailingExplained
<1>6. CASE job.error = None /\ ~job.canceled /\ JobTo("build")
  <2>1. JobExplained' /\ job'.pc = "build"
    BY <1>1, <1>6, JobGoing DEF Explained
  <2>2. closed /\ results = <<>> /\ \A w \in Workers : ~Busy(w)
    BY <1>1 DEF PoolEnded, Busy
  <2>3. Missing(files) = {}
    BY <1>1, <1>6, <2>2 DEF Explained, AllHandled, Stopped
  <2>4. ProgressKept'
    BY <1>1, <1>2, <1>6, <2>1, <2>3 DEF Explained, ProgressKept, Blamed
  <2>5. ~InPool'
    BY <2>1 DEF InPool
  <2>6. ResultsExplained'
    <3>1. \A w \in Workers : ~Busy(w)'
      BY <1>2, <2>2 DEF Busy
    <3> QED BY <1>2, <2>2, <3>1 DEF Explained, ResultsExplained
  <2>7. AllHandled' /\ RowsKeyed'
    BY <1>1, <2>5, NoPoolHandled DEF Explained, RowsKeyed
  <2> QED BY <1>1, <1>2, <2>1, <2>4, <2>6, <2>7, FailureKept DEF Explained
<1> QED BY <1>4, <1>5, <1>6 DEF EndPool

LEMMA BuildExplained ==
  ASSUME Typed, AskInv, Explained, Build
  PROVE  Explained'
<1>1. /\ job.pc = "build" /\ UNCHANGED <<cache, phase, deleted, files, pool>>
      /\ job \in JobState /\ gen \in Generation /\ files \in Files /\ ~InPool
  BY DEF Build, JobFrame, Typed, StoredTyped, InPool
<1>2. UNCHANGED <<worker, todo, closed, results>>
  BY <1>1 DEF pool
<1>3. Enrichable /\ CompleteCoverage
  BY <1>1, BuildComplete DEF Explained, ProgressKept
<1>4. {"incomplete", "persistence_failed"} \subseteq Codes
  BY DEF Codes
<1>5. CASE /\ artifacts' = TRUE /\ gen' = [gen EXCEPT !.built = TRUE]
           /\ JobTo("validate") /\ UNCHANGED trouble
  <2>1. JobExplained' /\ job'.pc = "validate"
    BY <1>1, <1>5, JobGoing DEF Explained
  <2>2. gen'.built = TRUE /\ gen'.state = gen.state /\ gen'.code = gen.code
    BY <1>1, <1>5 DEF Generation
  <2>3. ProgressKept' /\ ~InPool'
    BY <1>5, <2>1, <2>2 DEF ProgressKept, InPool
  <2>4. FailureExplained'
    BY <1>1, <1>5, <2>2, FailureKept DEF Explained
  <2> QED BY <1>1, <1>2, <2>1, <2>3, <2>4, OutsideExplained
<1>6. CASE job.canceled /\ JobFails("incomplete") /\ UNCHANGED <<gen, artifacts, trouble>>
  <2>1. Ended'
    BY <1>1, <1>6 DEF Explained, JobExplained, Ended, Blamed
  <2> QED BY <1>1, <1>4, <1>6, <2>1, FailingExplained
<1>7. CASE Faulty("persistence_failed") /\ UNCHANGED gen
  <2>1. Ended' /\ trouble'
    BY <1>7 DEF Faulty, Ended, Blamed
  <2> QED BY <1>1, <1>4, <1>7, <2>1, FailingExplained DEF Faulty
<1> QED BY <1>3, <1>5, <1>6, <1>7 DEF Build

LEMMA RemovalExplained ==
  ASSUME Typed, AskInv, Explained, RemoveCheckpoints \/ Activate
  PROVE  Explained'
<1>1. /\ job.pc \in {"remove", "activate"} /\ UNCHANGED <<cache, phase, deleted, artifacts, pool>>
      /\ job \in JobState /\ gen \in Generation /\ ~InPool /\ gen.state = "enriching" /\ gen.built
  BY DEF RemoveCheckpoints, Activate, JobFrame, Typed, StoredTyped, InPool, Explained, ProgressKept
<1>2. UNCHANGED <<worker, todo, closed, results>>
  BY <1>1 DEF pool
<1>3. CASE files' = NoFiles /\ JobTo("activate") /\ UNCHANGED <<gen, trouble>>
  <2>1. JobExplained' /\ job'.pc = "activate"
    BY <1>1, <1>3, JobGoing DEF Explained
  <2>2. ProgressKept' /\ ~InPool'
    BY <1>1, <1>3, <2>1 DEF Explained, ProgressKept, Blamed, InPool
  <2>3. FailureExplained'
    BY <1>1, <1>3, FailureKept DEF Explained
  <2> QED BY <1>1, <1>2, <1>3, <2>1, <2>2, <2>3, OutsideExplained
<1>4. CASE /\ gen' = [gen EXCEPT !.state = "ready"] /\ job' = NoJob /\ UNCHANGED <<files, trouble>>
  <2>1. job'.pc = "idle" /\ job'.canceled = FALSE /\ job'.error = None /\ gen'.state = "ready"
    BY <1>1, <1>4 DEF NoJob, Generation
  <2>2. JobExplained'
    BY <1>4, <2>1, NoneAssumption DEF JobExplained, Codes
  <2>3. ProgressKept' /\ ~InPool' /\ FailureExplained'
    BY <2>1 DEF ProgressKept, InPool, FailureExplained
  <2> QED BY <1>1, <1>2, <1>4, <2>2, <2>3, OutsideExplained
<1>5. CASE Faulty("persistence_failed") /\ UNCHANGED <<gen, files>>
  <2>1. Ended' /\ trouble' /\ "persistence_failed" \in Codes
    BY <1>5 DEF Faulty, Ended, Blamed, Codes
  <2> QED BY <1>1, <1>5, <2>1, FailingExplained, NoneAssumption DEF Faulty
<1> QED BY <1>3, <1>4, <1>5 DEF RemoveCheckpoints, Activate

(* A generation is marked failed only after its job has ended in an error.    *)
LEMMA MarkExplained ==
  ASSUME Typed, AskInv, Explained, RemoveDirectory \/ FailGeneration
  PROVE  Explained'
<1>1. /\ job.pc \in {"failing", "failmark"} /\ UNCHANGED <<cache, phase, deleted, trouble, pool>>
      /\ job \in JobState /\ gen \in Generation /\ ~InPool /\ job.error # None
  BY DEF RemoveDirectory, FailGeneration, JobFrame, Typed, StoredTyped, InPool, Explained, JobExplained
<1>2. UNCHANGED <<worker, todo, closed, results>>
  BY <1>1 DEF pool
<1>3. phase # "closing" => Blamed /\ Blamed'
  BY <1>1 DEF Explained, JobExplained, Ended, Blamed
<1>4. ASSUME job' = NoJob PROVE JobExplained' /\ job'.pc = "idle" /\ ~InPool'
  <2>1. job'.pc = "idle" /\ job'.canceled = FALSE /\ job'.error = None
    BY <1>4 DEF NoJob
  <2> QED BY <1>4, <2>1, NoneAssumption DEF JobExplained, Codes, InPool
<1>5. CASE job' = NoJob /\ UNCHANGED stored
  <2>1. UNCHANGED <<gen, files, artifacts>>
    BY <1>5 DEF stored
  <2>2. ProgressKept' /\ FailureExplained'
    BY <1>1, <1>4, <1>5, <2>1, FailureKept DEF Explained, ProgressKept, Blamed
  <2> QED BY <1>1, <1>2, <1>4, <1>5, <2>1, <2>2, OutsideExplained
<1>6. CASE /\ phase # "closing" /\ files' = NoFiles /\ artifacts' = FALSE /\ JobTo("failmark")
           /\ UNCHANGED gen
  <2>1. JobExplained' /\ job'.pc = "failmark"
    BY <1>1, <1>6, JobGoing DEF Explained
  <2>2. ProgressKept' /\ ~InPool' /\ FailureExplained'
    BY <1>1, <1>3, <1>6, <2>1, FailureKept DEF Explained, ProgressKept, InPool
  <2> QED BY <1>1, <1>2, <1>6, <2>1, <2>2, OutsideExplained
<1>7. CASE /\ phase # "closing" /\ job' = NoJob /\ UNCHANGED <<files, artifacts>>
           /\ gen' = [gen EXCEPT !.state = "failed", !.code = job.error, !.built = FALSE]
  <2>1. gen'.state = "failed" /\ gen'.code = job.error
    BY <1>1, <1>7 DEF Generation
  <2>2. job.error = "canceled" => deleted
    BY <1>7 DEF Explained, JobExplained
  <2>3. FailureExplained'
    BY <1>1, <1>3, <1>7, <2>1, <2>2 DEF FailureExplained, Blamed
  <2>4. ProgressKept'
    BY <1>4, <1>7, <2>1 DEF ProgressKept
  <2> QED BY <1>1, <1>2, <1>4, <1>7, <2>3, <2>4, OutsideExplained
<1>8. CASE job' = NoJob /\ UNCHANGED <<gen, files, artifacts>>
  BY <1>5, <1>8 DEF stored
<1> QED BY <1>5, <1>6, <1>7, <1>8 DEF RemoveDirectory, FailGeneration

LEMMA JobExplains == ASSUME Ordinary, Typed, AskInv, Explained, Job PROVE Explained'
  BY ReadExplained, ArtifactsExplained, CollectExplained, WriteExplained, RecordExplained,
    EndExplained, BuildExplained, RemovalExplained, MarkExplained DEF Job

-----------------------------------------------------------------------------
(* A worker that sends its result leaves its title to the collector.          *)
LEMMA SendExplained ==
  ASSUME Typed, AskInv, Explained, NEW w \in Workers, Busy(w), NEW status, NEW hit, NEW code,
         Send(w, status, hit, code), UNCHANGED <<job, files, todo, closed>>, trouble => trouble',
         code = "canceled" => Stopped, code \notin {None, "canceled"} => trouble'
  PROVE  ResultsExplained' /\ AllHandled'
<1> DEFINE r == [title |-> worker[w].title, status |-> status, hit |-> hit, code |-> code]
           n == Len(results)
<1>1. worker' = [worker EXCEPT ![w] = Ready] /\ results' = Append(results, r)
  BY DEF Send
<1>2. /\ \A v \in Workers : Busy(v)' => v # w /\ Busy(v) /\ worker'[v] = worker[v]
      /\ \A v \in Workers \ {w} : worker'[v] = worker[v]
  BY <1>1 DEF Busy, Ready, Typed, WorkersTyped
<1>3. r.title = worker[w].title /\ r.code = code
  OBVIOUS
<1> HIDE DEF r
<1>4. /\ n \in Nat /\ DOMAIN results = 1..n /\ DOMAIN results' = 1..(n + 1)
      /\ \A i \in 1..n : results'[i] = results[i]
      /\ results'[n + 1] = r
  <2>1. results \in Seq(Result)
    BY DEF Typed, ResultsTyped
  <2> QED BY <1>1, <2>1
<1>5. InPool /\ InPool' /\ (Stopped <=> Stopped')
  BY DEF AskInv, PoolInv, OnlyInPool, InPool, Stopped
<1>6. ASSUME NEW i \in 1..(n + 1)
      PROVE  /\ results'[i].code = "canceled" => Stopped'
             /\ results'[i].code \notin {None, "canceled"} => trouble'
             /\ files'[results'[i].title] = None
  <2>1. CASE i = n + 1
    BY <1>3, <1>4, <1>5, <2>1 DEF Explained, ResultsExplained
  <2>2. CASE i # n + 1
    <3>1. i \in 1..n
      BY <1>4, <2>2
    <3> QED BY <1>4, <1>5, <3>1 DEF Explained, ResultsExplained
  <2> QED BY <2>1, <2>2
<1>7. ResultsExplained'
  BY <1>2, <1>4, <1>5, <1>6 DEF Explained, ResultsExplained
<1>8. AllHandled'
  <2> SUFFICES ASSUME ~Stopped', NEW t \in Missing(files), ~(t \in todo)
               PROVE  \/ \E v \in Workers : Busy(v)' /\ worker'[v].title = t
                      \/ \E i \in DOMAIN results' : results'[i].title = t
    BY <1>5 DEF Explained, AllHandled
  <2>1. CASE t = worker[w].title
    <3>1. n + 1 \in DOMAIN results' /\ results'[n + 1].title = t
      BY <1>3, <1>4, <2>1
    <3> QED BY <3>1
  <2>2. CASE \E v \in Workers : Busy(v) /\ worker[v].title = t /\ t # worker[w].title
    BY <1>2, <2>2 DEF Busy
  <2>3. CASE \E i \in DOMAIN results : results[i].title = t
    BY <1>4, <2>3
  <2> QED BY <1>5, <2>1, <2>2, <2>3 DEF Explained, AllHandled
<1> QED BY <1>7, <1>8

(* A worker that goes on keeps it.                                           *)
LEMMA GoOnExplained ==
  ASSUME Typed, Explained, NEW w \in Workers, NEW to, Busy(w),
         worker' = [worker EXCEPT ![w] = to], to.title = worker[w].title, to.pc # "ready",
         UNCHANGED <<job, files, todo, closed, results>>, trouble => trouble'
  PROVE  ResultsExplained' /\ AllHandled'
<1>1. \A v \in Workers : (Busy(v)' <=> Busy(v)) /\ worker'[v].title = worker[v].title
  BY DEF Busy, Typed, WorkersTyped
<1>2. (InPool <=> InPool') /\ (Stopped <=> Stopped')
  BY DEF InPool, Stopped
<1> QED BY <1>1, <1>2 DEF Explained, ResultsExplained, AllHandled

LEMMA WorkExplained ==
  ASSUME Ordinary, Typed, AskInv, Explained, NEW w \in Workers, Work(w)
  PROVE  Explained'
<1> DEFINE u == LookupOf(w)
<1>1. Busy(w) /\ UNCHANGED <<gen, files, artifacts, job, phase, deleted, todo, closed>>
  BY DEF Work, LookupTitle, BeginSearch, Search, BeginDetails, Details, BeginCall, CallGoesOn,
    CallFails, Put, InCall, WorkerFrame, PoolFrame, stored, Busy
<1>2. trouble => trouble'
  BY DEF Work, LookupTitle, BeginSearch, Search, BeginDetails, Details, BeginCall, CallGoesOn,
    CallFails, Put
<1>3. worker[w] \in WorkerState /\ worker[w].title \in Titles
  BY <1>1 DEF Typed, WorkersTyped
<1>4. JobExplained' /\ ProgressKept' /\ FailureExplained'
  BY <1>1, <1>2 DEF Explained, JobExplained, ProgressKept, FailureExplained, Ended, Blamed
<1>5. RowsKeyed'
  <2>1. \/ cache' \subseteq cache
        \/ cache' \subseteq cache \cup {[key |-> CacheKey(u), lookup |-> u,
                                         status |-> worker[w].status, fresh |-> TRUE]}
    BY DEF Work, LookupTitle, BeginSearch, Search, BeginDetails, Details, BeginCall, CallGoesOn,
      CallFails, Put, PutAll, LookUp
  <2> HIDE DEF u
  <2> QED BY <2>1 DEF Explained, RowsKeyed, CacheKey
<1> SUFFICES ResultsExplained' /\ AllHandled'
  BY <1>4, <1>5 DEF Explained
<1>6. ASSUME NEW code, Error(w, code), Stopped \/ (trouble' /\ code # "canceled") PROVE ResultsExplained' /\ AllHandled'
  BY <1>1, <1>2, <1>6, SendExplained DEF Error
<1>7. ASSUME NEW status, NEW hit, Outcome(w, status, hit) PROVE ResultsExplained' /\ AllHandled'
  <2>1. None # "canceled"
    BY NoneAssumption DEF Codes
  <2> QED BY <1>1, <1>2, <1>7, <2>1, SendExplained DEF Outcome
<1>8. ASSUME NEW pc, pc # "ready", WorkerTo(w, pc) PROVE ResultsExplained' /\ AllHandled'
  <2> DEFINE to == [worker[w] EXCEPT !.pc = pc]
  <2>1. worker' = [worker EXCEPT ![w] = to] /\ UNCHANGED results
    BY <1>8 DEF WorkerTo
  <2>2. to.title = worker[w].title /\ to.pc = pc
    BY <1>3 DEF WorkerState
  <2> HIDE DEF to
  <2> QED BY <1>1, <1>2, <1>8, <2>1, <2>2, GoOnExplained
<1>9. CASE LookupTitle(w)
  <2>1. ValidLookup(worker[w].title) /\ ~LookupFails(u)
    BY DEF Ordinary, ValidLookup, Explained, RowsKeyed, LookupFails, RowOf, CacheKey
  <2> QED BY <1>6, <1>7, <1>8, <1>9, <2>1 DEF LookupTitle
<1>10. CASE BeginSearch(w) \/ BeginDetails(w)
  BY <1>6, <1>8, <1>10 DEF BeginSearch, BeginDetails, BeginCall
<1>11. CASE Search(w)
  <2>1. ~(~Normalized(worker[w].title)) /\ (~Normalized(worker[w].title)) \in BOOLEAN
    BY DEF Ordinary, Normalized
  <2>2. PICK o \in SearchOutcomes[~Normalized(worker[w].title)] :
          \/ /\ o.code = None
             /\ worker' = [worker EXCEPT
                  ![w] = [@ EXCEPT !.pc = IF o.status = "matched" THEN "details" ELSE "put",
                                   !.status = o.status, !.accepted = o.accepted]]
             /\ UNCHANGED results
          \/ /\ o.code # None /\ Error(w, o.code)
             /\ trouble' = (trouble \/ o.code = "invalid_response")
    BY <1>11 DEF Search
  <2>3. o.code \in {None, "invalid_response"}
    <3>1. (~Normalized(worker[w].title)) = FALSE
      BY <2>1
    <3> QED BY <2>2, <3>1, SearchesComplete
  <2>4. CASE o.code # None /\ Error(w, o.code) /\ trouble' = (trouble \/ o.code = "invalid_response")
    BY <1>6, <2>3, <2>4
  <2>5. CASE /\ UNCHANGED results
             /\ worker' = [worker EXCEPT
                  ![w] = [@ EXCEPT !.pc = IF o.status = "matched" THEN "details" ELSE "put",
                                   !.status = o.status, !.accepted = o.accepted]]
    <3> DEFINE pc == IF o.status = "matched" THEN "details" ELSE "put"
               to == [worker[w] EXCEPT !.pc = pc, !.status = o.status, !.accepted = o.accepted]
    <3>1. to.title = worker[w].title /\ to.pc = pc /\ pc # "ready"
      BY <1>3 DEF WorkerState
    <3>2. worker' = [worker EXCEPT ![w] = to]
      BY <2>5
    <3> HIDE DEF to, pc
    <3> QED BY <1>1, <1>2, <2>5, <3>1, <3>2, GoOnExplained
  <2> QED BY <2>2, <2>4, <2>5
<1>12. CASE Details(w)
  <2>1. worker[w].accepted \in Accepting
    BY <1>12 DEF Details, Typed, WorkersTyped
  <2>2. PICK code \in DetailsCodes[worker[w].accepted] :
          \/ /\ code = None
             /\ worker' = [worker EXCEPT ![w] = [@ EXCEPT !.pc = "put", !.accepted = None]]
             /\ UNCHANGED results
          \/ /\ code # None /\ Error(w, code)
             /\ trouble' = (trouble \/ code = "invalid_response")
    BY <1>12 DEF Details
  <2>3. code \in {None, "invalid_response"}
    BY <2>1, DetailsComplete
  <2>4. CASE code # None /\ Error(w, code) /\ trouble' = (trouble \/ code = "invalid_response")
    BY <1>6, <2>3, <2>4
  <2>5. CASE /\ UNCHANGED results
             /\ worker' = [worker EXCEPT ![w] = [@ EXCEPT !.pc = "put", !.accepted = None]]
    <3> DEFINE to == [worker[w] EXCEPT !.pc = "put", !.accepted = None]
    <3>1. to.title = worker[w].title /\ to.pc = "put"
      BY <1>3 DEF WorkerState
    <3>2. worker' = [worker EXCEPT ![w] = to]
      BY <2>5
    <3> HIDE DEF to
    <3> QED BY <1>1, <1>2, <2>5, <3>1, <3>2, GoOnExplained
  <2> QED BY <2>2, <2>4, <2>5
<1>13. CASE CallGoesOn(w)
  <2>1. UNCHANGED <<worker, results>>
    BY <1>13 DEF CallGoesOn
  <2> QED BY <1>1, <1>2, <2>1, ResultsKept, HandledKept DEF Explained, Stopped, InPool
<1>14. CASE CallFails(w)
  BY <1>6, <1>14 DEF CallFails
<1>15. CASE Put(w)
  BY <1>6, <1>7, <1>15 DEF Put
<1> QED BY <1>9, <1>10, <1>11, <1>12, <1>13, <1>14, <1>15 DEF Work

LEMMA DispatchExplained ==
  ASSUME Typed, AskInv, Explained, NEW w \in Workers, Dispatch(w)
  PROVE  Explained'
<1>1. PICK t \in todo :
        /\ worker' = [worker EXCEPT ![w] = [Ready EXCEPT !.pc = "enrich", !.title = t]]
        /\ todo' = todo \ {t}
  BY DEF Dispatch
<1>2. /\ UNCHANGED <<gen, files, artifacts, job, phase, deleted, cache, closed, results, trouble>>
      /\ ~closed /\ ~Busy(w)
  BY DEF Dispatch, PoolFrame, stored, Busy
<1>3. /\ worker'[w].title = t /\ Busy(w)'
      /\ \A v \in Workers : v # w => worker'[v] = worker[v]
  BY <1>1 DEF Ready, Busy, Typed, WorkersTyped
<1>4. JobExplained' /\ ProgressKept' /\ FailureExplained' /\ RowsKeyed'
  BY <1>2 DEF Explained, JobExplained, ProgressKept, FailureExplained, RowsKeyed, Ended, Blamed
<1>5. ResultsExplained'
  BY <1>1, <1>2, <1>3 DEF Explained, ResultsExplained, Busy, Stopped, InPool
<1>6. AllHandled'
  <2> SUFFICES ASSUME InPool, ~Stopped, NEW q \in Missing(files), ~(q \in todo')
               PROVE  \/ \E v \in Workers : Busy(v)' /\ worker'[v].title = q
                      \/ \E i \in DOMAIN results : results[i].title = q
    BY <1>2 DEF AllHandled, InPool, Stopped
  <2>1. CASE q = t
    BY <1>3, <2>1
  <2>2. CASE \E v \in Workers : Busy(v) /\ worker[v].title = q
    BY <1>2, <1>3, <2>2 DEF Busy
  <2> QED BY <1>1, <2>1, <2>2 DEF Explained, AllHandled
<1> QED BY <1>4, <1>5, <1>6 DEF Explained

LEMMA CloseJobsExplained == ASSUME Explained, CloseJobs PROVE Explained'
<1>1. /\ UNCHANGED <<gen, files, artifacts, job, phase, deleted, cache, worker, todo, results, trouble>>
      /\ todo = {} \/ Stopped
  BY DEF CloseJobs, PoolFrame, stored
<1>2. AllHandled'
  BY <1>1 DEF Explained, AllHandled, InPool, Stopped, Busy
<1> QED BY <1>1, <1>2 DEF Explained, JobExplained, ProgressKept, FailureExplained, RowsKeyed,
    Ended, Blamed, ResultsExplained, Busy, Stopped, InPool

(* What comes from outside.                                                   *)
LEMMA IdleExplained ==
  ASSUME Typed, AskInv, Explained, ~InPool, UNCHANGED pool, RowsKeyed', FailureExplained',
         job'.pc \in {"idle", "read"}, job' = [NoJob EXCEPT !.pc = job'.pc],
         files' = files \/ files' = NoFiles,
         gen'.state = "enriching" /\ ~Blamed' =>
           IF gen'.built THEN artifacts' ELSE Behind(gen'.counts, Coverage(files'))
  PROVE  Explained'
<1>1. UNCHANGED <<worker, todo, closed, results>> /\ results' = <<>> /\ ~InPool'
  BY DEF pool, InPool, Explained, ResultsExplained
<1>2. job'.canceled = FALSE /\ job'.error = None /\ (job'.pc = "idle" => job' = NoJob)
  BY DEF NoJob
<1>3. JobExplained'
  BY <1>2, NoneAssumption DEF JobExplained, Codes
<1>4. \A t \in todo' : files'[t] = None
  BY <1>1 DEF Explained, ResultsExplained, Typed, ResultsTyped, NoFiles
<1>5. ResultsExplained' /\ AllHandled'
  BY <1>1, <1>4, OutsideResults, NoPoolHandled DEF Explained, AskInv
<1>6. ProgressKept'
  BY DEF ProgressKept
<1> QED BY <1>3, <1>5, <1>6 DEF Explained

LEMMA OutsideExplains ==
  ASSUME Typed, AskInv, Explained,
         \/ \E l \in Locales : Begin(l)
         \/ Cancel \/ DeleteProvider \/ Close \/ Closed \/ Crash \/ Open \/ Ageing
  PROVE  Explained'
<1>1. job \in JobState /\ gen \in Generation
  BY DEF Typed, StoredTyped
<1>2. CASE \E l \in Locales : Begin(l)
  <2>1. PICK l \in Locales : Begin(l)
    BY <1>2
  <2>2. ~InPool /\ UNCHANGED pool /\ RowsKeyed'
    BY <2>1 DEF Begin, InPool, Explained, RowsKeyed
  <2>3. /\ gen'.state = "enriching" /\ gen'.built = FALSE /\ gen'.counts = Coverage(NoFiles)
        /\ files' = NoFiles
    BY <2>1 DEF Begin, NewGeneration
  <2>4. job' = [NoJob EXCEPT !.pc = "read"] /\ job'.pc = "read"
    BY <2>1 DEF Begin, NoJob
  <2>5. FailureExplained' /\ Behind(Coverage(NoFiles), Coverage(NoFiles))
    BY <2>3, NoneStored, BehindItself DEF FailureExplained
  <2> QED BY <2>2, <2>3, <2>4, <2>5, IdleExplained
<1>3. CASE Cancel
  <2>1. /\ UNCHANGED <<cache, gen, files, artifacts, worker, todo, closed, results, phase, trouble>>
        /\ deleted' = TRUE /\ job' = [job EXCEPT !.canceled = TRUE] /\ job.pc # "idle"
    BY <1>3 DEF Cancel, stored, pool
  <2>2. job'.pc = job.pc /\ job'.error = job.error /\ job'.canceled = TRUE
    BY <1>1, <2>1 DEF JobState
  <2>3. JobExplained'
    BY <2>1, <2>2 DEF Explained, JobExplained, Ended, Blamed
  <2>4. Stopped' /\ (InPool <=> InPool')
    BY <2>2 DEF Stopped, InPool
  <2>5. ResultsExplained' /\ AllHandled'
    BY <2>1, <2>4, ResultsKept DEF Explained, AllHandled
  <2>6. ProgressKept'
    BY <2>1, <2>2 DEF Explained, ProgressKept, Blamed
  <2>7. FailureExplained' /\ RowsKeyed'
    BY <2>1, FailureKept DEF Explained, RowsKeyed
  <2> QED BY <2>3, <2>5, <2>6, <2>7 DEF Explained
<1>4. CASE DeleteProvider
  <2>1. /\ ~InPool /\ UNCHANGED <<pool, job>> /\ RowsKeyed' /\ files' = NoFiles
        /\ job = NoJob /\ job.pc = "idle"
    BY <1>4 DEF DeleteProvider, InPool, Explained, JobExplained, RowsKeyed, DeleteCache
  <2>2. gen'.state = "none"
    BY <1>4 DEF DeleteProvider, NoGeneration, NewGeneration
  <2>3. job' = [NoJob EXCEPT !.pc = job'.pc]
    BY <2>1 DEF NoJob
  <2>4. FailureExplained'
    BY <2>2 DEF FailureExplained
  <2> QED BY <2>1, <2>2, <2>3, <2>4, IdleExplained
<1>5. CASE Close
  <2>1. /\ UNCHANGED <<cache, gen, files, artifacts, worker, todo, closed, results, deleted, trouble>>
        /\ phase' = "closing"
        /\ job' = IF job.pc = "idle" THEN job ELSE [job EXCEPT !.canceled = TRUE]
    BY <1>5 DEF Close, stored, pool, ghosts
  <2>2. /\ job'.pc = job.pc /\ job'.error = job.error
        /\ IF job.pc = "idle" THEN job' = job ELSE job'.canceled = TRUE
    BY <1>1, <2>1 DEF JobState
  <2>3. JobExplained'
    BY <2>1, <2>2 DEF Explained, JobExplained, Ended
  <2>4. /\ Stopped => Stopped'
        /\ InPool <=> InPool'
        /\ InPool => Stopped'
    BY <2>2 DEF Stopped, InPool
  <2>5. ResultsExplained' /\ AllHandled'
    BY <2>1, <2>4, ResultsKept DEF Explained, AllHandled
  <2>6. ProgressKept'
    BY <2>1, <2>2 DEF Explained, ProgressKept, Blamed
  <2>7. FailureExplained' /\ RowsKeyed'
    BY <2>1, FailureKept DEF Explained, RowsKeyed
  <2> QED BY <2>3, <2>5, <2>6, <2>7 DEF Explained
<1>6. CASE Closed \/ Crash
  <2>1. /\ UNCHANGED <<cache, gen, files, artifacts, deleted, trouble>> /\ job' = NoJob
        /\ worker' = [w \in Workers |-> Ready] /\ todo' = {} /\ closed' = TRUE /\ results' = <<>>
    BY <1>6 DEF Closed, Crash, Gone, stored, ghosts
  <2>2. job'.pc = "idle" /\ job'.canceled = FALSE /\ job'.error = None
    BY <2>1 DEF NoJob
  <2>3. JobExplained'
    BY <2>1, <2>2, NoneAssumption DEF JobExplained, Codes
  <2>4. ~InPool' /\ \A w \in Workers : ~Busy(w)'
    BY <2>1, <2>2 DEF InPool, Busy, Ready
  <2>5. ResultsExplained' /\ AllHandled'
    BY <2>1, <2>4, NoPoolHandled DEF ResultsExplained
  <2>6. ProgressKept'
    BY <2>1, <2>2 DEF Explained, ProgressKept, Blamed
  <2>7. FailureExplained' /\ RowsKeyed'
    BY <2>1, FailureKept DEF Explained, RowsKeyed
  <2> QED BY <2>3, <2>5, <2>6, <2>7 DEF Explained
<1>7. CASE Open
  <2>1. /\ UNCHANGED <<cache, gen, files, artifacts, deleted, trouble, pool>>
        /\ job' = IF gen.state = "enriching" THEN [NoJob EXCEPT !.pc = "read"] ELSE NoJob
        /\ job.pc = "idle" /\ ~InPool
    BY <1>7 DEF Open, stored, ghosts, AskInv, PoolInv, WellFormed, InPool
  <2>2. job'.pc \in {"idle", "read"} /\ job' = [NoJob EXCEPT !.pc = job'.pc]
    BY <2>1 DEF NoJob
  <2>3. FailureExplained' /\ RowsKeyed'
    BY <2>1, FailureKept DEF Explained, RowsKeyed
  <2>4. gen'.state = "enriching" /\ ~Blamed' =>
          IF gen'.built THEN artifacts' ELSE Behind(gen'.counts, Coverage(files'))
    BY <2>1 DEF Explained, ProgressKept, Blamed
  <2> QED BY <2>1, <2>2, <2>3, <2>4, IdleExplained
<1>8. CASE Ageing
  <2>1. PICK r \in cache :
          /\ Expire(r)
          /\ UNCHANGED <<gen, files, artifacts, job, worker, todo, closed, results, phase, trouble, deleted>>
    BY <1>8 DEF Ageing, stored, pool
  <2>2. r \in Row /\ cache' = (cache \ {r}) \cup {[r EXCEPT !.fresh = FALSE]}
    BY <2>1 DEF Expire, Typed, CacheTypeOK
  <2>3. RowsKeyed'
    BY <2>2 DEF Row, Explained, RowsKeyed, CacheKey
  <2> QED BY <2>1, <2>3 DEF Explained, JobExplained, ProgressKept, FailureExplained, Ended, Blamed,
      ResultsExplained, AllHandled, Busy, Stopped, InPool
<1> QED BY <1>2, <1>3, <1>4, <1>5, <1>6, <1>7, <1>8

LEMMA ExplainedStep ==
  ASSUME Ordinary, Typed, AskInv, Explained, [Next]_vars
  PROVE  Explained'
<1>1. CASE Job
  BY <1>1, JobExplains
<1>2. CASE CloseJobs
  BY <1>2, CloseJobsExplained
<1>3. CASE \E w \in Workers : Dispatch(w) \/ Work(w)
  BY <1>3, DispatchExplained, WorkExplained
<1>4. CASE Time \/ UNCHANGED vars
  <2>1. UNCHANGED <<gen, files, artifacts, job, phase, deleted, cache, worker, todo, closed,
                    results, trouble>>
    BY <1>4 DEF Time, Rest, vars, stored, pool, ghosts
  <2> QED BY <2>1 DEF Explained, JobExplained, ProgressKept, FailureExplained, Ended, Blamed,
      ResultsExplained, AllHandled, Busy, Stopped, InPool, RowsKeyed
<1>5. CASE \/ \E l \in Locales : Begin(l)
           \/ Cancel \/ DeleteProvider \/ Close \/ Closed \/ Crash \/ Open \/ Ageing
  BY <1>5, OutsideExplains
<1> QED BY <1>1, <1>2, <1>3, <1>4, <1>5 DEF Next, Running

(* For any titles, workers, responses and answers that are Ordinary: whatever   *)
(* crashes, deletions, closes and retries happen, a generation that failed had  *)
(* a fault or was deleted, and it is "canceled" only when it was deleted.       *)
THEOREM FailuresExplained == ASSUME Ordinary PROVE Spec => []FailureExplained
<1>1. Explained => FailureExplained
  BY DEF Explained
<1>2. Typed /\ AskInv /\ Explained /\ [Next]_vars => Explained'
  BY ExplainedStep
<1> QED BY <1>1, <1>2, ExplainedInit, TypedInit, TypedStep, AskInvInit, AskInvStep, PTL DEF Spec
=============================================================================
