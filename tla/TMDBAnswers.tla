------------------------------ MODULE TMDBAnswers ------------------------------
(***************************************************************************)
(* What a response of TMDB is turned into, and what is turned down: by the *)
(* client (src/internal/providers/netflix/tmdb/client.go) and once more by *)
(* the records it ends up in (src/internal/providers/netflix/domain.go).   *)
(*                                                                         *)
(* A text is known by what these checks tell apart: empty, with surrounding*)
(* blanks or a control character, with a line break, longer than its       *)
(* bound, with a semicolon, and two that differ in case only.              *)
(***************************************************************************)
EXTENDS TitleMatching, Sequences, Functions

CONSTANTS
  MaxCandidates,  \* product.MaxTMDBSearchCandidates
  MaxLabels       \* maxGenres and maxOriginCountries

ASSUME AnswerBoundsAssumption == MaxCandidates \in Nat /\ MaxLabels \in Nat

Text == {"", "dirty", "lines", "overlong", "a;b", "plain", "PLAIN"}

ToLower(text) == IF text = "PLAIN" THEN "plain" ELSE text

(* validateRemoteText *)
RemoteText(text, required, allowLineBreaks) ==
  /\ required => text # ""
  /\ text \notin {"overlong", "dirty"}
  /\ text = "lines" => allowLineBreaks

(* validateSingleLine *)
SingleLine(text, allowLineBreaks) ==
  text \notin {"", "dirty"} /\ (text = "lines" => allowLineBreaks)

OptionalText(text, allowLineBreaks) == text = "" \/ SingleLine(text, allowLineBreaks)

(* A number, or nil. *)
Present(n) == n # None

PositiveIfPresent(n) == Present(n) => n > 0

(***************************************************************************)
(* Search: entities of other kinds are left out, and one that is wrong     *)
(* makes the whole response wrong.                                         *)
(***************************************************************************)
Entity ==
  [id : Int, kind : {"movie", "tv", "person"}, title : Text, original : Text,
   popularity : Int, similarity : 0..Exact, originalSimilarity : 0..Exact]

Included(E) == {e \in E : e.kind \in {"movie", "tv"}}

(* validateCandidate, and validateMatchCandidate after it *)
ValidCandidate(e) ==
  /\ e.id > 0
  /\ RemoteText(e.title, TRUE, FALSE) /\ RemoteText(e.original, FALSE, FALSE)
  /\ e.popularity >= 0

ValidMatchCandidate(e) ==
  /\ e.id > 0
  /\ SingleLine(e.title, FALSE) /\ OptionalText(e.original, FALSE)
  /\ e.popularity >= 0

SearchDecodes(E) ==
  Cardinality(E) <= MaxCandidates /\ \A e \in Included(E) : ValidCandidate(e)

DecodeSearchCandidate(e) ==
  [id |-> e.id, media |-> IF e.kind = "movie" THEN "movie" ELSE "series",
   title |-> e.similarity,
   original |-> IF e.original = "" THEN None ELSE e.originalSimilarity]

(* What a search leads to: candidates, or an error of the remote.  The code *)
(* has a list: no response here names the same entity twice.                *)
DecodeSearch(E) ==
  IF ~SearchDecodes(E) THEN [code |-> "invalid_response", candidates |-> {}]
  ELSE IF \E e \in Included(E) : ~ValidMatchCandidate(e)
         THEN [code |-> "incomplete", candidates |-> {}]
  ELSE [code |-> None, candidates |-> {DecodeSearchCandidate(e) : e \in Included(E)}]

(***************************************************************************)
(* Details of an accepted candidate c.  Runtimes of a movie are one or     *)
(* none.                                                                   *)
(***************************************************************************)
Answer ==
  [id : Int, imdb : {"", "title", "other"}, title : Text, overview : Text, language : Text,
   genres : Seq(Text), countries : Seq(Text), date : {"", "day", "other"},
   runtimes : Seq(Int), seasons : Int \cup {None}, episodes : Int \cup {None},
   average : Int \cup {None}, votes : Int \cup {None}]

DetailsOf(c, a) ==
  [id |-> c.id, media |-> c.media, title |-> a.title, overview |-> a.overview,
   language |-> a.language, genres |-> a.genres, countries |-> a.countries, date |-> a.date,
   runtime |-> IF a.runtimes = <<>> THEN None ELSE Head(a.runtimes),
   seasons |-> IF c.media = "movie" THEN None ELSE a.seasons,
   episodes |-> IF c.media = "movie" THEN None ELSE a.episodes,
   average |-> a.average, votes |-> a.votes]

ValidVotes(d) ==
  /\ Present(d.average) <=> Present(d.votes)
  /\ Present(d.average) => d.average \in 0..10 /\ d.votes >= 0

ValidDetails(d) ==
  /\ RemoteText(d.title, TRUE, FALSE) /\ RemoteText(d.overview, FALSE, TRUE)
  /\ RemoteText(d.language, FALSE, FALSE)
  /\ d.date # "other"
  /\ Len(d.countries) <= MaxLabels /\ IsInjective(d.countries)
  /\ \A i \in DOMAIN d.countries : RemoteText(d.countries[i], TRUE, FALSE)
  /\ ValidVotes(d)

DetailsDecode(c, a) ==
  /\ a.id = c.id /\ a.imdb # "other"
  /\ Len(a.genres) <= MaxLabels
  /\ \A i \in DOMAIN a.genres : RemoteText(a.genres[i], TRUE, FALSE)
  /\ Len(a.runtimes) <= MaxLabels /\ \A i \in DOMAIN a.runtimes : a.runtimes[i] > 0
  /\ c.media = "series" => PositiveIfPresent(a.seasons) /\ PositiveIfPresent(a.episodes)
  /\ ValidDetails(DetailsOf(c, a))

(***************************************************************************)
(* NewTitleMetadata.  validateLabels joins labels with semicolons later,   *)
(* and compares them in lower case.                                        *)
(***************************************************************************)
ValidLabels(labels) ==
  /\ \A i \in DOMAIN labels : SingleLine(labels[i], FALSE) /\ labels[i] # "a;b"
  /\ IsInjective([i \in DOMAIN labels |-> ToLower(labels[i])])

NewTitleMetadata(d) ==
  /\ d.media \in MediaTypes /\ d.id > 0
  /\ ValidLabels(d.genres) /\ ValidLabels(d.countries)
  /\ d.date # "other"
  /\ PositiveIfPresent(d.runtime) /\ PositiveIfPresent(d.seasons)
  /\ PositiveIfPresent(d.episodes)
  /\ d.media = "movie" => ~Present(d.seasons) /\ ~Present(d.episodes)
  /\ SingleLine(d.title, FALSE) /\ OptionalText(d.overview, TRUE)
  /\ OptionalText(d.language, FALSE)
  /\ ValidVotes(d)

(* What details lead to: metadata, or an error.                             *)
DetailsCode(c, a) ==
  IF ~DetailsDecode(c, a) THEN "invalid_response"
  ELSE IF ~NewTitleMetadata(DetailsOf(c, a)) THEN "incomplete"
  ELSE None

(* The labels that only NewTitleMetadata turns down.                        *)
OddLabels(labels) ==
  \/ \E i \in DOMAIN labels : labels[i] = "a;b"
  \/ \E i, j \in DOMAIN labels : i # j /\ ToLower(labels[i]) = ToLower(labels[j])

OddlyLabelled(a) == OddLabels(a.genres) \/ OddLabels(a.countries)
=============================================================================
