--------------------------- MODULE MCTitleEnrichment ---------------------------
(* The finite instances of TitleEnrichment that TLC checks. *)
EXTENDS TitleEnrichment

Film(id, score) ==
  [id |-> id, kind |-> "movie", title |-> "plain", original |-> "", popularity |-> 0,
   similarity |-> score, originalSimilarity |-> 0]

(* A film with other values of one field.                                     *)
OtherFilms ==
  {[Film(1, 100) EXCEPT !.title = text] : text \in Text}
    \cup {[Film(1, 50) EXCEPT !.original = text, !.originalSimilarity = 100] : text \in Text}
    \cup {[Film(1, 100) EXCEPT !.id = 0], [Film(1, 100) EXCEPT !.popularity = -1]}

(* Up to three films and series whose scores lie at and next to the thresholds; *)
(* a person, and films with something wrong.                                  *)
Scored(n, kind, scores) ==
  {{[Film(id, f[id]) EXCEPT !.kind = kind] : id \in 1..n} : f \in [1..n -> scores]}

SomeResponses ==
  Scored(0, "movie", {100}) \cup Scored(1, "tv", {100})
    \cup UNION {Scored(n, "movie", {50, 67, 68, 81, 82, 85, 95, 96, 100}) : n \in 1..3}
    \cup {{[Film(1, 100) EXCEPT !.kind = "person", !.id = 0]}}
    \cup Scored(4, "movie", {50})
    \cup {{film} : film \in OtherFilms}

SomeAnswer ==
  [id |-> 1, imdb |-> "title", title |-> "plain", overview |-> "lines", language |-> "plain",
   genres |-> <<"plain">>, countries |-> <<"PLAIN">>, date |-> "day", runtimes |-> <<90>>,
   seasons |-> 1, episodes |-> 1, average |-> 7, votes |-> 3]

Numbers == {-1, 0, 1, None}

SomeLabels == UNION {[1..n -> Text] : n \in 0..2}

(* The details with other values of one field, or of both votes.  Labels are   *)
(* not those that only NewTitleMetadata turns down.                           *)
SomeAnswers ==
  {a \in
    {[SomeAnswer EXCEPT !.id = n] : n \in {0, 1, 2}}
      \cup {[SomeAnswer EXCEPT !.imdb = i] : i \in {"", "title", "other"}}
      \cup {[SomeAnswer EXCEPT !.title = text] : text \in Text}
      \cup {[SomeAnswer EXCEPT !.overview = text] : text \in Text}
      \cup {[SomeAnswer EXCEPT !.language = text] : text \in Text}
      \cup {[SomeAnswer EXCEPT !.genres = labels] : labels \in SomeLabels}
      \cup {[SomeAnswer EXCEPT !.countries = labels] : labels \in SomeLabels}
      \cup {[SomeAnswer EXCEPT !.date = d] : d \in {"", "day", "other"}}
      \cup {[SomeAnswer EXCEPT !.runtimes = <<n>>] : n \in Numbers \ {None}}
      \cup {[SomeAnswer EXCEPT !.runtimes = <<>>]}
      \cup {[SomeAnswer EXCEPT !.seasons = n, !.episodes = m] : n, m \in Numbers}
      \cup {[SomeAnswer EXCEPT !.average = n, !.votes = m] : n, m \in Numbers \cup {11}} :
    ~OddlyLabelled(a)}

(* No two titles differ in case only. *)
OneSpelling == [s \in Searches |-> s]
=============================================================================
