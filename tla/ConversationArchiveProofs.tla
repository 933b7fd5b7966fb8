----------------------- MODULE ConversationArchiveProofs -----------------------
(***************************************************************************)
(* Proofs about the archive of ConversationArchive, for any messages,      *)
(* texts, exports, models, batch size and limits, and any number of        *)
(* imports: the vector files keep what the database names through every    *)
(* interruption, and what is ready is what a run or a pass has read.       *)
(***************************************************************************)
EXTENDS ConversationArchive, FiniteSetTheorems, SequenceTheorems, FunctionTheorems, TLAPS

(* The rows of search_documents, or of embeddings: of some messages the     *)
(* text that was embedded and the row of its vector.                        *)
IsDocs(docs) == docs = [m \in DOMAIN docs |-> docs[m]] /\ Named(docs)

IsTexts(texts) ==
  /\ texts = [m \in DOMAIN texts |-> texts[m]]
  /\ DOMAIN texts \subseteq Messages /\ \A m \in DOMAIN texts : texts[m] \in Texts

Files == [rows : Seq(Vectors), torn : BOOLEAN]

Imported == [source : Exports, status : {"unfinished", "completed"}]

StoreShape ==
  /\ corpus \in [Messages -> Texts \cup {Hidden, Absent}]
  /\ imports \in Seq(Imported) /\ Len(imports) <= MaxImports
  /\ importing \in [id : 0..Len(imports), left : SUBSET Messages]
  /\ importing.id = 0 => importing.left = {}

IsIndex(x) ==
  /\ x = [status |-> x.status, model |-> x.model, docs |-> x.docs, of |-> x.of]
  /\ x.status \in {"building", "ready"} /\ x.model \in Models
  /\ IsDocs(x.docs) /\ x.of \in -1..MaxImports

IsConfig(x) ==
  /\ x = [status |-> x.status, docs |-> x.docs]
  /\ x.status \in {"building", "ready"} /\ IsDocs(x.docs)

IsRun(x) ==
  /\ x = [pc |-> x.pc, model |-> x.model, old |-> x.old, left |-> x.left,
          documents |-> x.documents, pending |-> x.pending, batch |-> x.batch,
          start |-> x.start, since |-> x.since]
  /\ x.pc \in {"delete", "remove", "create", "reconcile", "prune", "open", "batch", "save"}
  /\ x.model \in Models /\ x.old \in Models /\ x.left \in Nat /\ IsTexts(x.documents)
  /\ x.pending \subseteq DOMAIN x.documents /\ x.batch \subseteq x.pending
  /\ x.pc # "save" => x.batch = {}
  /\ x.start \in Nat /\ x.since \in -1..Len(imports)

IsPass(x) ==
  /\ x = [pc |-> x.pc, refresh |-> x.refresh, after |-> x.after, batch |-> x.batch,
          start |-> x.start, left |-> x.left, building |-> x.building, since |-> x.since]
  /\ x.pc \in {"open", "list", "mark", "append", "save", "complete"}
  /\ x.refresh \in BOOLEAN /\ x.after \in Messages \cup {0} /\ IsTexts(x.batch)
  /\ x.start \in Nat /\ x.left \in Nat /\ x.building \in BOOLEAN /\ x.since \in -1..Len(imports)

Shape ==
  /\ StoreShape
  /\ index = NoRow \/ IsIndex(index)
  /\ config = NoRow \/ IsConfig(config)
  /\ run = NoRun \/ IsRun(run)
  /\ pass = NoPass \/ IsPass(pass)
  /\ files \in [Models -> Files] /\ vectors \in Files
  /\ use \in Uses

(* A file that can be appended to: whole, and no longer than what is named. *)
Aligned(file, docs) == ~file.torn /\ Len(file.rows) = MaximumRow(docs) + 1

(* A file to which the vectors of a batch were appended at row start, and    *)
(* are not named yet.                                                       *)
Unsaved(file, docs, model, batch, start) ==
  /\ ~file.torn /\ start = MaximumRow(docs) + 1
  /\ Len(file.rows) = start + Cardinality(DOMAIN batch)
  /\ \A m \in DOMAIN batch : Row(file, start + Place(m, DOMAIN batch)) = <<model, batch[m]>>

Batch == [m \in run.batch |-> run.documents[m]]

(* What a run has compared is in the index with its text. *)
Kept ==
  \A m \in DOMAIN run.documents \ run.pending :
    m \in DOMAIN index.docs /\ index.docs[m].text = run.documents[m]

IndexInv ==
  /\ index # NoRow => Matches(File, index.docs, index.model)
  /\ index.status = "ready" => ~File.torn
  /\ Running("remove") => index = NoRow
  /\ run.pc \in {"reconcile", "prune", "open", "batch", "save"} =>
       index # NoRow /\ index.model = run.model
  /\ run.pc \in {"prune", "open", "batch", "save"} =>
       /\ Kept
       /\ index.status = "ready" => run.pending = {}
  /\ Running("prune") /\ index.status = "ready" => Gone = {}
  /\ run.pc \in {"open", "batch", "save"} => Gone = {}
  /\ Running("batch") => Aligned(File, index.docs)
  /\ Running("save") =>
       /\ run.batch # {} /\ Cardinality(run.batch) <= run.left
       /\ Unsaved(File, index.docs, run.model, Batch, run.start)

(* What a pass without an import beside it has seen is embedded as it is. *)
Seen ==
  /\ \A m \in DOMAIN pass.batch : pass.batch[m] = corpus[m]
  /\ pass.refresh => \A m \in Eligible \ DOMAIN pass.batch : m <= pass.after => ~Stale(m)
  /\ Passing("complete") => /\ Eligible \subseteq DOMAIN config.docs
                            /\ pass.refresh => \A m \in Eligible : ~Stale(m)

PassInv ==
  /\ config # NoRow => Matches(vectors, config.docs, Model)
  /\ ~Passing("idle") => config # NoRow
  /\ pass.pc \in {"list", "mark", "append"} => Aligned(vectors, config.docs)
  /\ pass.pc \in {"open", "list", "complete"} => DOMAIN pass.batch = {}
  /\ pass.pc \in {"mark", "append", "save"} =>
       DOMAIN pass.batch # {} /\ Cardinality(DOMAIN pass.batch) <= pass.left
  /\ Passing("save") => Unsaved(vectors, config.docs, Model, pass.batch, pass.start)
  /\ ~Passing("idle") /\ ~pass.refresh => pass.after = 0
  /\ ~Passing("idle") /\ importing.id # 0 => pass.since < Len(imports)
  /\ ~Passing("idle") /\ Undisturbed(pass.since) => Seen

IInv == Shape /\ IndexInv /\ PassInv /\ ReadyCurrent

-----------------------------------------------------------------------------
(***************************************************************************)
(* Finite sets of numbers: the largest one, and the place of each.         *)
(***************************************************************************)
LEMMA Below ==
  ASSUME NEW S \in SUBSET Nat, IsFiniteSet(S)
  PROVE  /\ \A m \in S : Place(m, S) \in 0..Cardinality(S) - 1
         /\ \A m, n \in S : m < n => Place(m, S) < Place(n, S)
         /\ \A m \in S : IsFiniteSet({n \in S : n < m})
<1>1. \A m \in S : IsFiniteSet({n \in S : n < m}) /\ Place(m, S) \in Nat
  <2> SUFFICES ASSUME NEW m \in S
               PROVE  IsFiniteSet({n \in S : n < m}) /\ Place(m, S) \in Nat
    OBVIOUS
  <2>1. IsFiniteSet({n \in S : n < m})
    BY FS_Subset
  <2> QED
    BY <2>1, FS_CardinalityType DEF Place
<1>2. \A x \in S : x \in Nat
  OBVIOUS
<1>3. ASSUME NEW m \in S
      PROVE  Place(m, S) < Cardinality(S)
  <2> DEFINE T == {n \in S : n < m}
  <2>1. T \in SUBSET S /\ T # S
    OBVIOUS
  <2>2. Cardinality(T) <= Cardinality(S) /\ Cardinality(T) # Cardinality(S)
    BY <2>1, FS_Subset
  <2>3. Cardinality(S) \in Nat
    BY FS_CardinalityType
  <2> QED
    BY <1>1, <2>2, <2>3 DEF Place
<1>4. ASSUME NEW m \in S, NEW n \in S, m < n
      PROVE  Place(m, S) < Place(n, S)
  <2> DEFINE T == {i \in S : i < m}
             U == {i \in S : i < n}
  <2>1. T \in SUBSET U /\ T # U
    <3>1. m \in U /\ m \notin T
      BY <1>4
    <3>2. \A i \in S : i < m => i < n
      BY <1>2, <1>4
    <3> QED
      BY <3>1, <3>2
  <2>2. IsFiniteSet(U)
    BY <1>1
  <2>3. Cardinality(T) <= Cardinality(U) /\ Cardinality(T) # Cardinality(U)
    BY <2>1, <2>2, FS_Subset
  <2> QED
    BY <1>1, <2>3 DEF Place
<1>5. Cardinality(S) \in Nat
  BY FS_CardinalityType
<1>6. \A m \in S : Place(m, S) \in 0..Cardinality(S) - 1
  <2> SUFFICES ASSUME NEW m \in S PROVE Place(m, S) \in 0..Cardinality(S) - 1
    OBVIOUS
  <2>1. Place(m, S) \in Nat
    BY <1>1
  <2>2. Place(m, S) < Cardinality(S)
    BY <1>3
  <2> QED
    BY <2>1, <2>2, <1>5
<1>7. \A m, n \in S : m < n => Place(m, S) < Place(n, S)
  BY <1>4
<1>8. \A m \in S : IsFiniteSet({n \in S : n < m})
  BY <1>1
<1> QED
  BY <1>6, <1>7, <1>8

(* Each place of the set is taken by one of its elements. *)
LEMMA PlacesTaken ==
  ASSUME NEW S \in SUBSET Nat, IsFiniteSet(S)
  PROVE  /\ Cardinality(S) \in Nat
         /\ \A m, n \in S : Place(m, S) = Place(n, S) => m = n
         /\ \A i \in 0..Cardinality(S) - 1 : \E m \in S : Place(m, S) = i
<1> DEFINE c == Cardinality(S)
           T == 0..c - 1
           f == [m \in S |-> Place(m, S)]
<1>1. c \in Nat
  BY FS_CardinalityType
<1>2. \A m, n \in S : Place(m, S) = Place(n, S) => m = n
  <2> SUFFICES ASSUME NEW m \in S, NEW n \in S, Place(m, S) = Place(n, S), m # n PROVE FALSE
    OBVIOUS
  <2>1. m < n \/ n < m
    OBVIOUS
  <2> QED
    BY <2>1, Below
<1> HIDE DEF c
<1>3. IsFiniteSet(T) /\ Cardinality(T) = c
  <2>1. 0 \in Int /\ c - 1 \in Int /\ (IF 0 > c - 1 THEN 0 ELSE c - 1 - 0 + 1) = c
    BY <1>1
  <2> QED
    BY <2>1, FS_Interval
<1>4. f \in Injection(S, T)
  <2>1. f \in [S -> T]
    BY Below DEF c
  <2>2. \A m, n \in S : f[m] = f[n] => m = n
    BY <1>2
  <2> QED
    BY <2>1, <2>2, Fun_IsInj
<1> HIDE DEF f, T
<1>5. f \in Surjection(S, T)
  BY <1>3, <1>4, FS_Injection DEF c
<1>6. \A i \in T : \E m \in S : f[m] = i
  BY <1>5 DEF Surjection
<1> QED
  BY <1>1, <1>2, <1>6 DEF c, f, T

LEMMA MaxOfSet ==
  ASSUME NEW S \in SUBSET Nat, IsFiniteSet(S), S # {}
  PROVE  Max(S) \in S /\ \A n \in S : n <= Max(S)
<1>1. Cardinality(S) \in Nat /\ Cardinality(S) # 0
  BY FS_CardinalityType, FS_EmptySet
<1>2. PICK m \in S : Place(m, S) = Cardinality(S) - 1
  BY <1>1, PlacesTaken
<1>3. \A n \in S : m >= n
  <2> SUFFICES ASSUME NEW n \in S, m < n PROVE FALSE
    OBVIOUS
  <2>1. Place(m, S) < Place(n, S) /\ Place(n, S) \in 0..Cardinality(S) - 1
    BY Below
  <2> QED
    BY <1>1, <1>2, <2>1
<1> QED
  BY <1>3 DEF Max

LEMMA MinOfTwo ==
  ASSUME NEW a \in Nat, NEW b \in Nat
  PROVE  Min({a, b}) \in {a, b} /\ Min({a, b}) <= a /\ Min({a, b}) <= b
<1>1. \E x \in {a, b} : \A y \in {a, b} : x <= y
  OBVIOUS
<1> QED
  BY <1>1 DEF Min

(* First takes the smallest ones, no more than are left to embed, and some  *)
(* as long as any are.                                                      *)
LEMMA FirstOfSet ==
  ASSUME NEW S \in SUBSET Nat, IsFiniteSet(S), NEW left \in Nat
  PROVE  /\ First(S, left) \subseteq S
         /\ IsFiniteSet(First(S, left)) /\ Cardinality(First(S, left)) \in Nat
         /\ Cardinality(First(S, left)) <= left
         /\ S # {} /\ left # 0 => First(S, left) # {}
         /\ \A m \in First(S, left), n \in S : n < m => n \in First(S, left)
<1> DEFINE F == First(S, left)
           k == Min({BatchSize, left})
           f == [m \in F |-> Place(m, S)]
<1>1. k \in Nat /\ k <= left /\ (left # 0 => k > 0)
  BY BatchAssumption, MinOfTwo
<1>2. \A m \in S : Cardinality({n \in S : n <= m}) = Place(m, S) + 1
  <2> SUFFICES ASSUME NEW m \in S PROVE Cardinality({n \in S : n <= m}) = Place(m, S) + 1
    OBVIOUS
  <2>1. {n \in S : n <= m} = {n \in S : n < m} \cup {m} /\ m \notin {n \in S : n < m}
    <3>1. \A n \in S : n <= m <=> n < m \/ n = m
      <4> SUFFICES ASSUME NEW n \in S PROVE n <= m <=> n < m \/ n = m
        OBVIOUS
      <4>1. m \in Nat /\ n \in Nat
        OBVIOUS
      <4> QED
        BY <4>1
    <3>2. ~(m < m)
      OBVIOUS
    <3> QED
      BY <3>1, <3>2
  <2>2. IsFiniteSet({n \in S : n < m})
    BY Below
  <2> QED
    BY <2>1, <2>2, FS_AddElement DEF Place
<1> HIDE DEF k
<1>3. F = {m \in S : Place(m, S) + 1 <= k}
  BY <1>2 DEF First, k
<1>4. F \in SUBSET S /\ IsFiniteSet(F) /\ Cardinality(F) \in Nat
  BY <1>3, FS_Subset, FS_CardinalityType
<1> HIDE DEF F
<1>5. Cardinality(F) <= left
  <2> DEFINE T == 0..k - 1
  <2>1. IsFiniteSet(T) /\ Cardinality(T) = k
    <3>1. 0 \in Int /\ k - 1 \in Int /\ (IF 0 > k - 1 THEN 0 ELSE k - 1 - 0 + 1) = k
      BY <1>1
    <3> QED
      BY <3>1, FS_Interval
  <2>2. \A m \in F : Place(m, S) \in T
    BY <1>1, <1>3, Below
  <2>3. f \in Injection(F, T)
    <3>1. f \in [F -> T]
      BY <2>2
    <3>2. \A m, n \in F : f[m] = f[n] => m = n
      BY <1>4, PlacesTaken
    <3> QED
      BY <3>1, <3>2, Fun_IsInj
  <2> HIDE DEF f, T
  <2>4. Cardinality(F) <= Cardinality(T)
    BY <2>1, <2>3, FS_Injection
  <2> QED
    BY <1>1, <1>4, <2>1, <2>4
<1>6. S # {} /\ left # 0 => F # {}
  <2> SUFFICES ASSUME S # {}, left # 0 PROVE F # {}
    OBVIOUS
  <2>1. Cardinality(S) \in Nat /\ Cardinality(S) # 0
    BY FS_CardinalityType, FS_EmptySet
  <2>2. PICK m \in S : Place(m, S) = 0
    BY <2>1, PlacesTaken
  <2> QED
    BY <1>1, <1>3, <2>2
<1>7. \A m \in F, n \in S : n < m => n \in F
  <2> SUFFICES ASSUME NEW m \in F, NEW n \in S, n < m PROVE n \in F
    OBVIOUS
  <2>1. Place(n, S) < Place(m, S) /\ Place(n, S) \in Nat /\ Place(m, S) \in Nat
    BY <1>4, Below
  <2> QED
    BY <1>1, <1>3, <2>1
<1> QED
  BY <1>4, <1>5, <1>6, <1>7 DEF F

-----------------------------------------------------------------------------
(***************************************************************************)
(* The vector file and the rows the database names.                        *)
(***************************************************************************)
LEMMA MaximumRowOf ==
  ASSUME NEW docs, IsDocs(docs)
  PROVE  /\ DOMAIN docs \in SUBSET Messages /\ IsFiniteSet(DOMAIN docs)
         /\ MaximumRow(docs) \in Nat \cup {-1}
         /\ DOMAIN docs = {} => MaximumRow(docs) = -1
         /\ \A m \in DOMAIN docs :
              docs[m].row \in Nat /\ docs[m].text \in Texts /\ docs[m].row <= MaximumRow(docs)
         /\ DOMAIN docs # {} => \E m \in DOMAIN docs : docs[m].row = MaximumRow(docs)
<1> DEFINE D == DOMAIN docs
           R == {docs[m].row : m \in D}
           f == [m \in D |-> docs[m].row]
<1>1. D \in SUBSET Messages /\ IsFiniteSet(D)
  BY MessagesAssumption, FS_Subset DEF IsDocs, Named
<1>2. \A m \in D : docs[m].row \in Nat /\ docs[m].text \in Texts
  BY DEF IsDocs, Named
<1>3. R \in SUBSET Nat
  BY <1>2
<1>4. IsFiniteSet(R)
  <2>1. f \in [D -> R] /\ \A r \in R : \E m \in D : f[m] = r
    OBVIOUS
  <2>2. f \in Surjection(D, R)
    BY <2>1, Fun_IsSurj
  <2> QED
    BY <1>1, <2>2, FS_Surjection
<1>5. D = {} => MaximumRow(docs) = -1
  BY DEF MaximumRow
<1>6. ASSUME D # {}
      PROVE  MaximumRow(docs) \in R /\ \A r \in R : r <= MaximumRow(docs)
  <2>1. R # {} /\ MaximumRow(docs) = Max(R)
    BY <1>6 DEF MaximumRow
  <2> QED
    BY <1>3, <1>4, <2>1, MaxOfSet
<1> QED
  BY <1>1, <1>2, <1>3, <1>5, <1>6

LEMMA FileKnown ==
  ASSUME NEW file \in Files
  PROVE  /\ file.rows \in Seq(Vectors) /\ file.torn \in BOOLEAN /\ Len(file.rows) \in Nat
         /\ \A i \in 1..Len(file.rows) : file.rows[i] \in Vectors
BY DEF Files

(* Repairing a file cuts off what is not named, and keeps what is. *)
LEMMA RepairedFile ==
  ASSUME NEW file \in Files, NEW docs, IsDocs(docs), NEW model \in Models,
         Matches(file, docs, model), ~Shorter(file, docs)
  PROVE  /\ Repaired(file, docs) \in Files
         /\ Aligned(Repaired(file, docs), docs)
         /\ Matches(Repaired(file, docs), docs, model)
<1> DEFINE n == MaximumRow(docs) + 1
           rows == SubSeq(file.rows, 1, n)
<1>1. n \in 0..Len(file.rows)
  BY MaximumRowOf, FileKnown DEF Shorter
<1>2. rows \in Seq(Vectors) /\ Len(rows) = n /\ \A i \in 1..n : rows[i] = file.rows[i]
  BY <1>1, FileKnown
<1>3. Repaired(file, docs) = [rows |-> rows, torn |-> FALSE]
  BY DEF Repaired
<1> HIDE DEF rows
<1>4. Repaired(file, docs) \in Files /\ Aligned(Repaired(file, docs), docs)
  BY <1>2, <1>3 DEF Files, Aligned
<1>5. ASSUME NEW m \in DOMAIN docs
      PROVE  /\ docs[m].row < Len(rows)
             /\ rows[docs[m].row + 1] = file.rows[docs[m].row + 1]
  <2>1. docs[m].row \in Nat /\ docs[m].row < n
    BY <1>1, MaximumRowOf
  <2> QED
    BY <1>1, <1>2, <2>1
<1>6. Repaired(file, docs).rows = rows
  BY <1>3
<1>7. Matches(Repaired(file, docs), docs, model)
  BY <1>5, <1>6 DEF Matches, HasRow, Row
<1> QED
  BY <1>4, <1>7

(* Appending to a file changes none of the rows that are named. *)
LEMMA GrownFile ==
  ASSUME NEW file \in Files, NEW more \in Files, NEW docs, IsDocs(docs), NEW model,
         Matches(file, docs, model),
         Len(more.rows) >= Len(file.rows),
         \A i \in 1..Len(file.rows) : more.rows[i] = file.rows[i]
  PROVE  Matches(more, docs, model)
<1>1. ASSUME NEW m \in DOMAIN docs
      PROVE  /\ HasRow(more, docs[m].row)
             /\ Row(more, docs[m].row) = Row(file, docs[m].row)
  <2>1. docs[m].row \in Nat /\ docs[m].row < Len(file.rows)
    BY MaximumRowOf DEF Matches, HasRow
  <2>2. docs[m].row + 1 \in 1..Len(file.rows) /\ Len(more.rows) \in Nat
    BY <2>1, FileKnown
  <2> QED
    BY <2>1, <2>2, FileKnown DEF HasRow, Row
<1> QED
  BY <1>1 DEF Matches

LEMMA NoneNamed ==
  ASSUME NEW file, NEW docs, DOMAIN docs = {}, NEW model
  PROVE  Matches(file, docs, model)
BY DEF Matches

(* The vectors of a batch, each in its place. *)
LEMMA VectorsOfBatch ==
  ASSUME NEW batch, IsTexts(batch), NEW model \in Models
  PROVE  /\ IsFiniteSet(DOMAIN batch) /\ Cardinality(DOMAIN batch) \in Nat
         /\ VectorsOf(model, batch) \in Seq(Vectors)
         /\ Len(VectorsOf(model, batch)) = Cardinality(DOMAIN batch)
         /\ \A m \in DOMAIN batch :
              /\ Place(m, DOMAIN batch) \in 0..Cardinality(DOMAIN batch) - 1
              /\ VectorsOf(model, batch)[Place(m, DOMAIN batch) + 1] = <<model, batch[m]>>
<1> DEFINE D == DOMAIN batch
           c == Cardinality(D)
           at(i) == CHOOSE m \in D : Place(m, D) = i - 1
<1>1. D \in SUBSET Nat /\ D \in SUBSET Messages /\ IsFiniteSet(D)
  BY MessagesAssumption, FS_Subset DEF IsTexts
<1>2. c \in Nat /\ \A m, n \in D : Place(m, D) = Place(n, D) => m = n
  BY <1>1, PlacesTaken
<1>3. \A i \in 1..c : at(i) \in D /\ Place(at(i), D) = i - 1
  <2> SUFFICES ASSUME NEW i \in 1..c PROVE \E m \in D : Place(m, D) = i - 1
    OBVIOUS
  <2>1. i - 1 \in 0..c - 1
    BY <1>2
  <2> QED
    BY <1>1, <2>1, PlacesTaken
<1>4. \A m \in D : Place(m, D) \in 0..c - 1
  BY <1>1, Below
<1> DEFINE V == VectorsOf(model, batch)
<1>5. V = [i \in 1..c |-> <<model, batch[at(i)]>>]
  BY DEF VectorsOf
<1> HIDE DEF V, at
<1>6. \A i \in 1..c : <<model, batch[at(i)]>> \in Vectors
  BY <1>3 DEF IsTexts, Vectors
<1>7. V \in Seq(Vectors) /\ Len(V) = c
  BY <1>2, <1>5, <1>6
<1>8. ASSUME NEW m \in D
      PROVE  V[Place(m, D) + 1] = <<model, batch[m]>>
  <2>1. PICK i \in 1..c : i = Place(m, D) + 1
    BY <1>2, <1>4
  <2>2. at(i) \in D /\ Place(at(i), D) = i - 1
    BY <1>3
  <2>3. i - 1 = Place(m, D)
    BY <1>4, <2>1
  <2>4. at(i) = m
    BY <1>2, <2>2, <2>3
  <2> QED
    BY <1>5, <2>1, <2>4
<1> QED
  BY <1>1, <1>2, <1>4, <1>7, <1>8 DEF V

LEMMA Joined ==
  ASSUME NEW T, NEW s \in Seq(T), NEW more \in Seq(T)
  PROVE  /\ s \o more \in Seq(T) /\ Len(s \o more) = Len(s) + Len(more)
         /\ \A i \in 1..Len(s) : (s \o more)[i] = s[i]
         /\ \A i \in 1..Len(more) : (s \o more)[Len(s) + i] = more[i]
<1>1. s \o more \in Seq(T) /\ Len(s \o more) = Len(s) + Len(more)
  OBVIOUS
<1>2. \A i \in 1..Len(s) : (s \o more)[i] = s[i]
  OBVIOUS
<1>3. \A i \in 1..Len(more) : (s \o more)[Len(s) + i] = more[i]
  OBVIOUS
<1> QED
  BY <1>1, <1>2, <1>3

LEMMA AppendedFields ==
  ASSUME NEW file \in Files, NEW more
  PROVE  /\ Appended(file, more).rows = file.rows \o more
         /\ Appended(file, more).torn = file.torn
         /\ file.rows \o more \in Seq(Vectors) => Appended(file, more) \in Files
<1>1. ASSUME NEW rows
      PROVE  LET x == [file EXCEPT !.rows = rows] IN
             x.rows = rows /\ x.torn = file.torn /\ (rows \in Seq(Vectors) => x \in Files)
  BY DEF Files
<1> QED
  BY <1>1 DEF Appended

LEMMA AppendedFile ==
  ASSUME NEW file \in Files, NEW docs, IsDocs(docs), NEW model \in Models,
         Matches(file, docs, model), Aligned(file, docs), NEW batch, IsTexts(batch)
  PROVE  LET more == Appended(file, VectorsOf(model, batch)) IN
         /\ more \in Files /\ Matches(more, docs, model)
         /\ Unsaved(more, docs, model, batch, NextRow(file))
<1> DEFINE V == VectorsOf(model, batch)
           c == Cardinality(DOMAIN batch)
           more == Appended(file, V)
           n == Len(file.rows)
<1>1. /\ c \in Nat /\ V \in Seq(Vectors) /\ Len(V) = c
      /\ \A m \in DOMAIN batch :
           /\ Place(m, DOMAIN batch) \in 0..c - 1
           /\ V[Place(m, DOMAIN batch) + 1] = <<model, batch[m]>>
  BY VectorsOfBatch
<1>2. n \in Nat /\ n + c >= n
  BY <1>1, FileKnown
<1>3. more.rows = file.rows \o V /\ more.torn = file.torn
      /\ (file.rows \o V \in Seq(Vectors) => more \in Files)
  BY AppendedFields
<1> HIDE DEF V, more
<1>4. /\ file.rows \o V \in Seq(Vectors) /\ Len(file.rows \o V) = n + c
      /\ \A i \in 1..n : (file.rows \o V)[i] = file.rows[i]
      /\ \A i \in 1..c : (file.rows \o V)[n + i] = V[i]
  <2>1. PICK rows \in Seq(Vectors), added \in Seq(Vectors) : rows = file.rows /\ added = V
    BY <1>1, FileKnown
  <2>2. /\ rows \o added \in Seq(Vectors) /\ Len(rows \o added) = Len(rows) + Len(added)
        /\ \A i \in 1..Len(rows) : (rows \o added)[i] = rows[i]
        /\ \A i \in 1..Len(added) : (rows \o added)[Len(rows) + i] = added[i]
    BY Joined
  <2> QED
    BY <1>1, <2>1, <2>2
<1>5. more \in Files /\ more.rows = file.rows \o V /\ more.torn = file.torn
  BY <1>3, <1>4
<1>6. Matches(more, docs, model)
  BY <1>2, <1>4, <1>5, GrownFile
<1>7. Unsaved(more, docs, model, batch, n)
  <2>1. ASSUME NEW m \in DOMAIN batch
        PROVE  Row(more, n + Place(m, DOMAIN batch)) = <<model, batch[m]>>
    <3>1. Place(m, DOMAIN batch) \in 0..c - 1
      BY <1>1
    <3>2. PICK i \in 1..c : i = Place(m, DOMAIN batch) + 1
      BY <1>1, <3>1
    <3>3. n + Place(m, DOMAIN batch) + 1 = n + i
      BY <1>2, <3>1, <3>2
    <3>4. (file.rows \o V)[n + i] = V[i]
      BY <1>4
    <3>5. V[i] = <<model, batch[m]>>
      BY <1>1, <3>2
    <3> QED
      BY <1>5, <3>3, <3>4, <3>5 DEF Row
  <2> QED
    BY <1>4, <1>5, <2>1 DEF Unsaved, Aligned
<1> QED
  BY <1>5, <1>6, <1>7 DEF more, V, NextRow

(* An append that was cut off has written some of its rows. *)
HasSome(x, file, more) ==
  \E n \in 0..Len(more) - 1, torn \in BOOLEAN :
    x = [rows |-> file.rows \o SubSeq(more, 1, n), torn |-> torn]

LEMMA CutOffRows ==
  ASSUME NEW file, NEW more, NEW x \in CutOff(file, more)
  PROVE  x = Appended(file, more) \/ HasSome(x, file, more)
<1> DEFINE a == Appended(file, more)
           f(n, torn) == [rows |-> file.rows \o SubSeq(more, 1, n), torn |-> torn]
           N == 0..Len(more) - 1
<1>1. CutOff(file, more) = {f(n, torn) : n \in N, torn \in BOOLEAN} \cup {a}
  BY DEF CutOff
<1> HIDE DEF f, a, N
<1>2. x = a \/ \E n \in N, torn \in BOOLEAN : x = f(n, torn)
  BY <1>1, SMT
<1> QED
  BY <1>2 DEF f, a, N, HasSome

LEMMA CutOffFile ==
  ASSUME NEW file \in Files, NEW docs, IsDocs(docs), NEW model \in Models,
         Matches(file, docs, model), Aligned(file, docs), NEW batch, IsTexts(batch),
         NEW more \in CutOff(file, VectorsOf(model, batch))
  PROVE  more \in Files /\ Matches(more, docs, model)
<1> DEFINE V == VectorsOf(model, batch)
<1>1. V \in Seq(Vectors) /\ Len(V) \in Nat
  BY VectorsOfBatch
<1>2. CASE more = Appended(file, V)
  BY <1>2, AppendedFile
<1>3. ASSUME NEW n \in 0..Len(V) - 1, NEW torn \in BOOLEAN,
             more = [rows |-> file.rows \o SubSeq(V, 1, n), torn |-> torn]
      PROVE  more \in Files /\ Matches(more, docs, model)
  <2> DEFINE W == SubSeq(V, 1, n)
  <2>1. W \in Seq(Vectors)
    BY <1>1
  <2> HIDE DEF V, W
  <2>2. /\ file.rows \o W \in Seq(Vectors) /\ Len(file.rows \o W) >= Len(file.rows)
        /\ \A i \in 1..Len(file.rows) : (file.rows \o W)[i] = file.rows[i]
    BY <2>1, FileKnown
  <2>3. more \in Files /\ more.rows = file.rows \o W
    BY <1>3, <2>2 DEF Files, W
  <2>4. /\ Len(more.rows) >= Len(file.rows)
        /\ \A i \in 1..Len(file.rows) : more.rows[i] = file.rows[i]
    BY <2>2, <2>3
  <2> QED
    BY <2>3, <2>4, GrownFile
<1>4. more = Appended(file, V) \/ HasSome(more, file, V)
  BY CutOffRows
<1>5. HasSome(more, file, V) => more \in Files /\ Matches(more, docs, model)
  BY <1>3 DEF HasSome
<1> HIDE DEF V
<1> QED
  BY <1>2, <1>4, <1>5

(* The database names the rows of a batch once they are in the file. *)
WellSaved(file, docs, model, batch, saved) ==
  /\ IsDocs(saved) /\ DOMAIN saved = DOMAIN docs \cup DOMAIN batch
  /\ \A m \in DOMAIN batch : saved[m].text = batch[m]
  /\ \A m \in DOMAIN docs \ DOMAIN batch : saved[m] = docs[m]
  /\ Matches(file, saved, model) /\ Aligned(file, saved)

LEMMA SavedBatch ==
  ASSUME NEW file \in Files, NEW docs, IsDocs(docs), NEW model, Matches(file, docs, model),
         NEW batch, IsTexts(batch), DOMAIN batch # {}, NEW start \in Nat,
         Unsaved(file, docs, model, batch, start),
         NEW saved, saved = Override(docs, RowsOf(batch, start))
  PROVE  WellSaved(file, docs, model, batch, saved)
<1> DEFINE D == DOMAIN batch
           c == Cardinality(D)
<1>1. D \in SUBSET Nat /\ D \in SUBSET Messages /\ IsFiniteSet(D)
  BY MessagesAssumption, FS_Subset DEF IsTexts
<1>2. /\ c \in Nat \ {0}
      /\ \A m, n \in D : Place(m, D) = Place(n, D) => m = n
      /\ \A m \in D : Place(m, D) \in 0..c - 1
  BY <1>1, PlacesTaken, Below, FS_EmptySet
<1>3. DOMAIN saved = DOMAIN docs \cup D /\ saved = [m \in DOMAIN saved |-> saved[m]]
  BY DEF Override, RowsOf
<1>4. \A m \in D : saved[m] = [text |-> batch[m], row |-> start + Place(m, D)]
  BY DEF Override, RowsOf
<1>5. \A m \in DOMAIN docs \ D : saved[m] = docs[m]
  BY DEF Override, RowsOf
<1>6. \A m \in D : /\ saved[m].text = batch[m] /\ saved[m].row = start + Place(m, D)
                   /\ saved[m].row \in Nat /\ saved[m].row >= start /\ saved[m].row < start + c
  <2> SUFFICES ASSUME NEW m \in D
               PROVE  /\ saved[m].text = batch[m] /\ saved[m].row = start + Place(m, D)
                      /\ saved[m].row \in Nat /\ saved[m].row >= start /\ saved[m].row < start + c
    OBVIOUS
  <2>1. Place(m, D) \in 0..c - 1
    BY <1>2
  <2>2. /\ start + Place(m, D) \in Nat
        /\ start + Place(m, D) >= start /\ start + Place(m, D) < start + c
    BY <1>2, <2>1
  <2>3. saved[m] = [text |-> batch[m], row |-> start + Place(m, D)]
    BY <1>4
  <2> QED
    BY <2>2, <2>3
<1>7. \A m \in DOMAIN docs : docs[m].row \in Nat /\ docs[m].row < start
  BY MaximumRowOf DEF Unsaved
<1>8. IsDocs(saved)
  <2>1. DOMAIN saved \subseteq Messages
    BY <1>1, <1>3, MaximumRowOf
  <2>2. \A m \in D : saved[m] \in [text : Texts, row : Nat]
    <3> SUFFICES ASSUME NEW m \in D PROVE saved[m] \in [text : Texts, row : Nat]
      OBVIOUS
    <3>1. batch[m] \in Texts
      BY DEF IsTexts
    <3>2. start + Place(m, D) \in Nat
      BY <1>6
    <3>3. saved[m] = [text |-> batch[m], row |-> start + Place(m, D)]
      BY <1>4
    <3> QED
      BY <3>1, <3>2, <3>3
  <2>3. \A m \in DOMAIN docs \ D : saved[m] \in [text : Texts, row : Nat]
    BY <1>5 DEF IsDocs, Named
  <2> QED
    BY <1>3, <2>1, <2>2, <2>3 DEF IsDocs, Named
<1>9. ~file.torn /\ start = MaximumRow(docs) + 1 /\ Len(file.rows) = start + c
  BY DEF Unsaved
<1>10. Matches(file, saved, model)
  <2>1. ASSUME NEW m \in D
        PROVE  /\ HasRow(file, saved[m].row) /\ Row(file, saved[m].row) = <<model, saved[m].text>>
               /\ \A n \in DOMAIN saved \ {m} : saved[n].row # saved[m].row
    <3>1. HasRow(file, saved[m].row) /\ Row(file, saved[m].row) = <<model, saved[m].text>>
      BY <1>6, <1>9 DEF HasRow, Unsaved
    <3>2. ASSUME NEW n \in D, n # m
          PROVE  saved[n].row # saved[m].row
      <4>1. Place(n, D) # Place(m, D) /\ Place(n, D) \in Int /\ Place(m, D) \in Int
        BY <1>2, <3>2
      <4> QED
        BY <1>6, <4>1
    <3>3. ASSUME NEW n \in DOMAIN docs \ D
          PROVE  saved[n].row # saved[m].row
      BY <1>5, <1>6, <1>7
    <3> QED
      BY <1>3, <3>1, <3>2, <3>3
  <2>2. ASSUME NEW m \in DOMAIN docs \ D
        PROVE  /\ HasRow(file, saved[m].row) /\ Row(file, saved[m].row) = <<model, saved[m].text>>
               /\ \A n \in DOMAIN saved \ {m} : saved[n].row # saved[m].row
    <3>1. saved[m] = docs[m]
      BY <1>5
    <3>2. \A n \in D : saved[n].row # saved[m].row
      BY <1>6, <1>7, <3>1
    <3>3. \A n \in DOMAIN docs \ D : n # m => saved[n].row # saved[m].row
      BY <1>5, <3>1 DEF Matches
    <3> QED
      BY <1>3, <3>1, <3>2, <3>3 DEF Matches
  <2> QED
    BY <1>3, <2>1, <2>2 DEF Matches
<1>11. Aligned(file, saved)
  <2>1. PICK l \in D : Place(l, D) = c - 1
    BY <1>1, <1>2, PlacesTaken
  <2>2. saved[l].row = start + c - 1
    BY <1>2, <1>6, <2>1
  <2>3. \A m \in DOMAIN saved : saved[m].row \in Nat /\ saved[m].row <= start + c - 1
    BY <1>2, <1>3, <1>5, <1>6, <1>7
  <2>4. MaximumRow(saved) = start + c - 1
    <3>1. PICK m \in DOMAIN saved : saved[m].row = MaximumRow(saved)
      BY <1>3, <1>8, MaximumRowOf
    <3>2. saved[l].row <= MaximumRow(saved)
      BY <1>3, <1>8, MaximumRowOf
    <3> QED
      BY <1>2, <2>2, <2>3, <3>1, <3>2
  <2> QED
    BY <1>2, <1>9, <2>4 DEF Aligned
<1> QED
  BY <1>3, <1>5, <1>6, <1>8, <1>10, <1>11 DEF WellSaved

-----------------------------------------------------------------------------
(***************************************************************************)
(* Rows, runs and passes: what a step makes of their fields.               *)
(***************************************************************************)
LEMMA NoneThere ==
  /\ NoRow.status = "none" /\ NoRun.pc = "idle" /\ NoPass.pc = "idle"
  /\ EmptyFile \in Files
  /\ DOMAIN <<>> = {} /\ IsDocs(<<>>) /\ IsTexts(<<>>)
<1>1. DOMAIN <<>> = {}
  OBVIOUS
<1>2. <<>> = [m \in DOMAIN <<>> |-> <<>>[m]]
  OBVIOUS
<1>3. IsDocs(<<>>) /\ IsTexts(<<>>)
  BY <1>1, <1>2 DEF IsDocs, IsTexts, Named
<1> QED
  BY <1>1, <1>3 DEF NoRow, NoRun, NoPass, EmptyFile, Files

(* A row, a run or a pass is told by its status, or its place. *)
LEMMA Told ==
  ASSUME Shape
  PROVE  /\ index # NoRow => IsIndex(index) /\ index.status \in {"building", "ready"}
         /\ index = NoRow => index.status = "none"
         /\ config # NoRow => IsConfig(config) /\ config.status \in {"building", "ready"}
         /\ config = NoRow => config.status = "none"
         /\ ~Running("idle") => IsRun(run)
         /\ Running("idle") => run = NoRun
         /\ ~Passing("idle") => IsPass(pass)
         /\ Passing("idle") => pass = NoPass
BY NoneThere DEF Shape, IsIndex, IsConfig, IsRun, IsPass, Running, Passing

LEMMA Recorded ==
  ASSUME Shape, index # NoRow
  PROVE  /\ index.model \in Models /\ IsDocs(index.docs) /\ index.of \in -1..MaxImports
         /\ File \in Files
BY Told DEF Shape, IsIndex, File

LEMMA MarkedIndex ==
  ASSUME NEW x, IsIndex(x), NEW status \in {"building", "ready"},
         NEW y, y = [x EXCEPT !.status = status]
  PROVE  IsIndex(y) /\ y.status = status /\ y.model = x.model /\ y.docs = x.docs /\ y.of = x.of
<1>1. y = [status |-> status, model |-> x.model, docs |-> x.docs, of |-> x.of]
  BY DEF IsIndex
<1> QED
  BY <1>1 DEF IsIndex

LEMMA NamedIndex ==
  ASSUME NEW x, IsIndex(x), NEW docs, IsDocs(docs), NEW y, y = [x EXCEPT !.docs = docs]
  PROVE  IsIndex(y) /\ y.status = x.status /\ y.model = x.model /\ y.docs = docs /\ y.of = x.of
<1>1. y = [status |-> x.status, model |-> x.model, docs |-> docs, of |-> x.of]
  BY DEF IsIndex
<1> QED
  BY <1>1 DEF IsIndex

LEMMA MarkedConfig ==
  ASSUME NEW x, IsConfig(x), NEW status \in {"building", "ready"},
         NEW y, y = [x EXCEPT !.status = status]
  PROVE  IsConfig(y) /\ y.status = status /\ y.docs = x.docs
<1>1. y = [status |-> status, docs |-> x.docs]
  BY DEF IsConfig
<1> QED
  BY <1>1 DEF IsConfig

LEMMA NamedConfig ==
  ASSUME NEW x, IsConfig(x), NEW docs, IsDocs(docs), NEW y, y = [x EXCEPT !.docs = docs]
  PROVE  IsConfig(y) /\ y.docs = docs /\ y.status = x.status
<1>1. y = [status |-> x.status, docs |-> docs]
  BY DEF IsConfig
<1> QED
  BY <1>1 DEF IsConfig

-----------------------------------------------------------------------------
(***************************************************************************)
(* What is kept by a step that leaves alone what it depends on.             *)
(***************************************************************************)
LEMMA PassFrame ==
  ASSUME PassInv, UNCHANGED <<corpus, imports, importing, config, vectors, pass>>
  PROVE  PassInv'
BY DEF PassInv, Passing, Aligned, Undisturbed, Quiet, Seen, Eligible, Stale

(* A step of a run, which changes its index, its file and itself only. *)
LEMMA IndexFrame ==
  ASSUME IInv, UNCHANGED <<corpus, imports, importing, config, vectors, pass, use>>,
         index' = NoRow \/ IsIndex(index'), run' = NoRun \/ IsRun(run'),
         files' \in [Models -> Files], IndexInv', ReadyCurrent'
  PROVE  IInv'
<1>1. PassInv'
  BY PassFrame DEF IInv
<1>2. Shape'
  BY DEF IInv, Shape, StoreShape, IsRun, IsPass
<1> QED
  BY <1>1, <1>2 DEF IInv

(* A step of a pass, which changes its configuration, its file and itself. *)
LEMMA PassOnly ==
  ASSUME IInv, UNCHANGED <<corpus, imports, importing, index, files, run, use>>,
         config' = NoRow \/ IsConfig(config'), pass' = NoPass \/ IsPass(pass'),
         vectors' \in Files, PassInv'
  PROVE  IInv'
<1>1. IndexInv' /\ ReadyCurrent'
  BY DEF IInv, IndexInv, ReadyCurrent, File, Running, Kept, Gone, Aligned, Batch
<1>2. Shape'
  BY DEF IInv, Shape, StoreShape, IsRun, IsPass
<1> QED
  BY <1>1, <1>2 DEF IInv

(* A run that is over has left its index and its file as they may be found. *)
LEMMA RunOver ==
  ASSUME run' = NoRun,
         (index # NoRow => Matches(File, index.docs, index.model))',
         (index.status = "ready" => ~File.torn)'
  PROVE  IndexInv'
BY NoneThere DEF IndexInv, Running

LEMMA PassOver ==
  ASSUME pass' = NoPass, (config # NoRow => Matches(vectors, config.docs, Model))'
  PROVE  PassInv'
BY NoneThere DEF PassInv, Passing

(* Readiness is current as long as no import completes. *)
LEMMA CurrentStays ==
  ASSUME IInv, UNCHANGED imports,
         index'.status = "ready" => index.status = "ready" /\ index'.of = index.of
  PROVE  ReadyCurrent'
BY DEF IInv, ReadyCurrent

-----------------------------------------------------------------------------
(***************************************************************************)
(* Imports.                                                                *)
(***************************************************************************)
LEMMA BeginImportStep ==
  ASSUME IInv, NEW e \in Exports, NEW force \in BOOLEAN, BeginImport(e, force),
         UNCHANGED <<files, run, vectors, pass, use>>
  PROVE  IInv'
<1> DEFINE i == [source |-> e, status |-> "unfinished"]
           n == Len(imports)
           left == {m \in Messages : Content[e][m] # Absent}
<1>1. /\ importing.id = 0 /\ n < MaxImports /\ imports' = Append(imports, i)
      /\ importing' = [id |-> n + 1, left |-> left]
      /\ UNCHANGED <<corpus, index, config, files, run, vectors, pass, use>>
  BY DEF BeginImport
<1>2. i \in Imported /\ i.status # "completed" /\ left \in SUBSET Messages
  BY DEF Imported
<1>3. imports \in Seq(Imported) /\ n \in Nat /\ Shape
  BY DEF IInv, Shape, StoreShape
<1> HIDE DEF i, left
<1>4. /\ imports' \in Seq(Imported) /\ Len(imports') = n + 1 /\ imports'[n + 1] = i
      /\ \A j \in 1..n : imports'[j] = imports[j]
  BY <1>1, <1>2, <1>3
<1>5. importing'.id = n + 1 /\ Quiet' = -1
  BY <1>1, <1>3 DEF Quiet
<1>6. Shape'
  <2>1. \A x : IsRun(x) => IsRun(x)'
    BY <1>3, <1>4 DEF IsRun
  <2>2. \A x : IsPass(x) => IsPass(x)'
    BY <1>3, <1>4 DEF IsPass
  <2>3. StoreShape'
    <3>1. importing' \in [id : 0..n + 1, left : SUBSET Messages]
      BY <1>1, <1>2, <1>3
    <3> QED
      BY <1>1, <1>3, <1>4, <1>5, <3>1, ImportsAssumption DEF Shape, StoreShape
  <2> QED
    BY <1>1, <1>3, <2>1, <2>2, <2>3 DEF Shape
<1>7. IndexInv'
  BY <1>1 DEF IInv, IndexInv, File, Running, Kept, Gone, Aligned, Batch
<1>8. PassInv'
  <2>1. ~Passing("idle") => pass.since \in -1..n
    BY <1>3, Told DEF IsPass
  <2>2. ~Undisturbed(pass.since)'
    BY <1>5 DEF Undisturbed
  <2>3. (~Passing("idle") /\ importing.id # 0 => pass.since < Len(imports))'
    BY <1>1, <1>3, <1>4, <2>1 DEF Passing
  <2> QED
    BY <1>1, <2>2, <2>3 DEF IInv, PassInv, Passing, Aligned
<1>9. ReadyCurrent'
  <2>1. index.status = "ready" => index # NoRow /\ index.of \in -1..MaxImports
    BY <1>3, Told, Recorded
  <2> QED
    BY <1>1, <1>2, <1>3, <1>4, <2>1 DEF IInv, ReadyCurrent
<1> QED
  BY <1>6, <1>7, <1>8, <1>9 DEF IInv

LEMMA SourceKnown ==
  ASSUME Shape, importing.id # 0
  PROVE  importing.id \in 1..Len(imports) /\ Source \in Exports
<1>1. imports \in Seq(Imported) /\ importing.id \in 0..Len(imports)
  BY DEF Shape, StoreShape
<1>2. importing.id \in 1..Len(imports)
  BY <1>1
<1>3. imports[importing.id] \in Imported
  BY <1>1, <1>2
<1> QED
  BY <1>2, <1>3 DEF Source, Imported

LEMMA ImportConversationStep ==
  ASSUME IInv, ImportConversation, UNCHANGED <<files, run, vectors, pass, use>>
  PROVE  IInv'
<1> DEFINE m == Min(importing.left)
<1>1. /\ importing.left # {}
      /\ corpus' = [corpus EXCEPT ![m] = Content[Source][m]]
      /\ importing' = [importing EXCEPT !.left = importing.left \ {m}]
      /\ UNCHANGED <<imports, index, config, files, run, vectors, pass, use>>
  BY DEF ImportConversation
<1> HIDE DEF m
<1>2. Shape
  BY DEF IInv
<1>3. importing.id # 0 /\ importing.id \in 1..Len(imports) /\ Source \in Exports
  <2>1. importing.id # 0
    BY <1>1, <1>2 DEF Shape, StoreShape
  <2> QED
    BY <1>2, <2>1, SourceKnown
<1>4. importing'.id = importing.id /\ importing' \in [id : 0..Len(imports), left : SUBSET Messages]
  BY <1>1, <1>2 DEF Shape, StoreShape
<1>5. corpus' \in [Messages -> Texts \cup {Hidden, Absent}]
  <2>1. m \in Messages => Content[Source][m] \in Texts \cup {Hidden, Absent}
    BY <1>3, ContentAssumption
  <2> QED
    BY <1>1, <1>2, <2>1 DEF Shape, StoreShape
<1>6. Shape'
  BY <1>1, <1>2, <1>3, <1>4, <1>5 DEF Shape, StoreShape, IsRun, IsPass
<1>7. IndexInv' /\ ReadyCurrent'
  BY <1>1 DEF IInv, IndexInv, ReadyCurrent, File, Running, Kept, Gone, Aligned, Batch
<1>8. PassInv'
  <2>1. ~Undisturbed(pass.since)'
    BY <1>3, <1>4 DEF Undisturbed, Quiet
  <2> QED
    BY <1>1, <1>3, <2>1 DEF IInv, PassInv, Passing, Aligned
<1> QED
  BY <1>6, <1>7, <1>8 DEF IInv

(* A pass that has seen an import begin does not take the end of it for     *)
(* quiet.                                                                   *)
LEMMA StillDisturbed ==
  ASSUME IInv, importing.id # 0, importing' = NotImporting, Len(imports') = Len(imports),
         UNCHANGED <<config, vectors, pass>>
  PROVE  PassInv'
<1>1. Quiet' = Len(imports) /\ importing'.id = 0
  BY DEF Quiet, NotImporting
<1>2. ~Passing("idle") => ~Undisturbed(pass.since)'
  <2>1. ~Passing("idle") => pass.since < Len(imports)
    BY DEF IInv, PassInv
  <2>2. Len(imports) \in Int
    BY DEF IInv, Shape, StoreShape
  <2> QED
    BY <1>1, <2>1, <2>2 DEF Undisturbed
<1> QED
  BY <1>1, <1>2 DEF IInv, PassInv, Passing, Aligned

LEMMA CompleteImportStep ==
  ASSUME IInv, CompleteImport, UNCHANGED <<files, run, vectors, pass, use>>
  PROVE  IInv' /\ index'.status # "ready"
<1> DEFINE i == [source |-> Source, status |-> "completed"]
<1>1. /\ importing.id # 0 /\ importing' = NotImporting
      /\ imports' = [imports EXCEPT ![importing.id] = i]
      /\ index' = IF index.status = "ready" THEN [index EXCEPT !.status = "building"] ELSE index
      /\ UNCHANGED <<corpus, config, files, run, vectors, pass, use>>
  BY DEF CompleteImport, Completed
<1>2. Shape
  BY DEF IInv
<1>3. importing.id \in 1..Len(imports) /\ i \in Imported
  BY <1>1, <1>2, SourceKnown DEF Imported
<1> HIDE DEF i
<1>4. imports' \in Seq(Imported) /\ Len(imports') = Len(imports)
  BY <1>1, <1>2, <1>3 DEF Shape, StoreShape
<1>5. /\ index' = NoRow \/ IsIndex(index')
      /\ index'.status # "ready"
      /\ index' # NoRow => index'.docs = index.docs /\ index'.model = index.model
      /\ index' = NoRow <=> index = NoRow
  <2>1. CASE index.status = "ready"
    <3>1. IsIndex(index) /\ IsDocs(index.docs) /\ index.of \in -1..MaxImports
      BY <1>2, <2>1, Told, Recorded
    <3>2. index' = [index EXCEPT !.status = "building"]
      BY <1>1, <2>1
    <3>3. IsIndex(index') /\ index'.status = "building" /\ index'.docs = index.docs
          /\ index'.model = index.model
      BY <3>1, <3>2, MarkedIndex
    <3>4. index # NoRow /\ index' # NoRow
      BY <2>1, <3>3, NoneThere
    <3> QED
      BY <3>3, <3>4
  <2>2. CASE index.status # "ready"
    BY <1>1, <1>2, <2>2, Told
  <2> QED
    BY <2>1, <2>2
<1>6. Shape'
  <2>1. StoreShape'
    BY <1>1, <1>2, <1>4 DEF Shape, StoreShape, NotImporting
  <2> QED
    BY <1>1, <1>2, <1>4, <1>5, <2>1 DEF Shape, IsRun, IsPass
<1>7. IndexInv'
  BY <1>1, <1>5 DEF IInv, IndexInv, File, Running, Kept, Gone, Aligned, Batch
<1>8. PassInv'
  BY <1>1, <1>4, StillDisturbed
<1>9. ReadyCurrent'
  BY <1>5 DEF ReadyCurrent
<1> QED
  BY <1>5, <1>6, <1>7, <1>8, <1>9 DEF IInv

LEMMA FailImportStep ==
  ASSUME IInv, FailImport, UNCHANGED <<files, run, vectors, pass, use>>
  PROVE  IInv'
<1>1. /\ importing.id # 0 /\ importing' = NotImporting
      /\ UNCHANGED <<corpus, imports, index, config, files, run, vectors, pass, use>>
  BY DEF FailImport, tables
<1>2. Shape'
  BY <1>1 DEF IInv, Shape, StoreShape, NotImporting, IsRun, IsPass
<1>3. IndexInv' /\ ReadyCurrent'
  BY <1>1 DEF IInv, IndexInv, ReadyCurrent, File, Running, Kept, Gone, Aligned, Batch
<1>4. PassInv'
  BY <1>1, StillDisturbed
<1> QED
  BY <1>2, <1>3, <1>4 DEF IInv

LEMMA CrashStep ==
  ASSUME IInv, Crash
  PROVE  IInv'
<1>1. /\ importing' = NotImporting /\ run' = NoRun /\ pass' = NoPass
      /\ UNCHANGED <<corpus, imports, index, config, files, vectors, use>>
  BY DEF Crash, tables
<1>2. Shape'
  BY <1>1 DEF IInv, Shape, StoreShape, NotImporting
<1>3. IndexInv'
  BY <1>1, RunOver DEF IInv, IndexInv, File
<1>4. PassInv'
  BY <1>1, PassOver DEF IInv, PassInv
<1>5. ReadyCurrent'
  BY <1>1 DEF IInv, ReadyCurrent
<1> QED
  BY <1>2, <1>3, <1>4, <1>5 DEF IInv

-----------------------------------------------------------------------------
(***************************************************************************)
(* The run that indexes.                                                   *)
(***************************************************************************)
(* What is ready was ready, with the same documents. *)
Steady ==
  index'.status = "ready" =>
    index.status = "ready" /\ index'.docs = index.docs /\ index'.model = index.model

Elsewhere == UNCHANGED <<vectors, pass, use>>

LEMMA StartIndexStep ==
  ASSUME IInv, NEW model \in Models, NEW rebuild \in BOOLEAN, NEW limit \in Limits,
         StartIndex(model, rebuild, limit), Elsewhere
  PROVE  IInv' /\ Steady
<1> DEFINE left == IF limit = 0 THEN Cardinality(Messages) ELSE limit
           pc == IF rebuild THEN "delete" ELSE "create"
<1>1. /\ Running("idle")
      /\ run' = [pc |-> pc, model |-> model, old |-> model, left |-> left,
                 documents |-> Documents, pending |-> {}, batch |-> {}, start |-> 0,
                 since |-> Quiet]
      /\ UNCHANGED <<corpus, imports, importing, index, config, files, vectors, pass, use>>
  BY DEF StartIndex, tables, Elsewhere
<1>2. left \in Nat /\ pc \in {"delete", "create"}
  BY LimitsAssumption, MessagesAssumption, FS_CardinalityType
<1> HIDE DEF left, pc
<1>3. Shape
  BY DEF IInv
<1>4. IsTexts(Documents)
  BY DEF IsTexts, Documents, Eligible
<1>5. Quiet \in -1..Len(imports)
  BY <1>3 DEF Quiet, Shape, StoreShape
<1>6. IsRun(run') /\ run'.pc = pc
  BY <1>1, <1>2, <1>4, <1>5 DEF IsRun
<1>7. IndexInv'
  BY <1>1, <1>2, <1>6 DEF IInv, IndexInv, File, Running
<1>8. ReadyCurrent' /\ (index' = NoRow \/ IsIndex(index')) /\ files' \in [Models -> Files]
  BY <1>1, <1>3 DEF IInv, ReadyCurrent, Shape
<1> QED
  BY <1>1, <1>3, <1>6, <1>7, <1>8, CurrentStays, IndexFrame DEF Steady, Shape

LEMMA StopIndexStep ==
  ASSUME IInv, StopIndex, Elsewhere
  PROVE  IInv' /\ Steady
<1>1. /\ run' = NoRun
      /\ UNCHANGED <<corpus, imports, importing, index, config, files, vectors, pass, use>>
  BY DEF StopIndex, tables, Elsewhere
<1>2. IndexInv'
  BY <1>1, RunOver DEF IInv, IndexInv, File
<1>3. ReadyCurrent'
  BY <1>1, CurrentStays
<1> QED
  BY <1>1, <1>2, <1>3, IndexFrame DEF IInv, Shape, Steady

LEMMA DeleteIndexStep ==
  ASSUME IInv, DeleteIndex, Elsewhere
  PROVE  IInv' /\ Steady
<1>1. /\ Running("delete") /\ index' = NoRow
      /\ run' = IF index = NoRow THEN [run EXCEPT !.pc = "create"]
                ELSE [run EXCEPT !.pc = "remove", !.old = index.model]
      /\ UNCHANGED <<corpus, imports, importing, config, files, vectors, pass, use>>
  BY DEF DeleteIndex, Elsewhere
<1>2. Shape /\ IsRun(run)
  BY <1>1, Told DEF IInv, Running
<1>3. index # NoRow => index.model \in Models
  BY <1>2, Recorded
<1>4. IsRun(run') /\ run'.pc \in {"create", "remove"}
  BY <1>1, <1>2, <1>3 DEF IsRun, Running
<1>5. IndexInv' /\ ReadyCurrent' /\ index'.status # "ready"
  BY <1>1, <1>4, NoneThere DEF IndexInv, Running, ReadyCurrent
<1> QED
  BY <1>1, <1>2, <1>4, <1>5, IndexFrame DEF Shape, Steady

LEMMA RemoveFileStep ==
  ASSUME IInv, RemoveFile, Elsewhere
  PROVE  IInv' /\ Steady
<1>1. /\ Running("remove")
      /\ files' = [files EXCEPT ![run.old] = EmptyFile]
      /\ run' = [run EXCEPT !.pc = "create", !.old = run.model]
      /\ UNCHANGED <<corpus, imports, importing, index, config, vectors, pass, use>>
  BY DEF RemoveFile, tables, Elsewhere
<1>2. Shape /\ IsRun(run) /\ index = NoRow
  BY <1>1, Told DEF IInv, IndexInv, Running
<1>3. IsRun(run') /\ run'.pc = "create"
  BY <1>1, <1>2 DEF IsRun, Running
<1>4. IndexInv' /\ ReadyCurrent' /\ index'.status # "ready"
  BY <1>1, <1>2, <1>3, NoneThere DEF IndexInv, Running, ReadyCurrent
<1>5. files' \in [Models -> Files]
  BY <1>1, <1>2, NoneThere DEF Shape
<1> QED
  BY <1>1, <1>2, <1>3, <1>4, <1>5, IndexFrame DEF Steady

LEMMA CreateIndexStep ==
  ASSUME IInv, CreateIndex, Elsewhere
  PROVE  IInv' /\ Steady
<1>1. /\ Running("create")
      /\ UNCHANGED <<corpus, imports, importing, config, files, vectors, pass, use>>
  BY DEF CreateIndex, Elsewhere
<1>2. Shape /\ IsRun(run) /\ files' \in [Models -> Files]
  BY <1>1, Told DEF IInv, Running, Shape
<1>3. CASE /\ index = NoRow
           /\ index' = [status |-> "building", model |-> run.model, docs |-> <<>>, of |-> -1]
           /\ Then("reconcile")
  <2>1. IsIndex(index') /\ index'.status = "building" /\ index'.model = run.model
        /\ index'.docs = <<>>
    BY <1>2, <1>3, NoneThere, ImportsAssumption DEF IsIndex, IsRun
  <2>2. IsRun(run') /\ run'.pc = "reconcile" /\ run'.model = run.model
    BY <1>1, <1>2, <1>3 DEF IsRun, Then, Running
  <2>3. index' # NoRow
    BY <2>1, NoneThere
  <2>4. Matches(File', index'.docs, index'.model)
    BY <2>1, NoneThere, NoneNamed
  <2>5. IndexInv' /\ ReadyCurrent'
    BY <2>1, <2>2, <2>3, <2>4 DEF IndexInv, Running, ReadyCurrent
  <2> QED
    BY <1>1, <1>2, <2>1, <2>2, <2>5, IndexFrame DEF Steady
<1>4. CASE /\ index # NoRow
           /\ run' = IF index.model = run.model THEN [run EXCEPT !.pc = "reconcile"] ELSE NoRun
           /\ UNCHANGED index
  <2>1. \/ run' = NoRun
        \/ /\ IsRun(run') /\ run'.pc = "reconcile" /\ run'.model = run.model
           /\ index.model = run.model
    BY <1>1, <1>2, <1>4 DEF IsRun, Running
  <2>2. IndexInv'
    BY <1>1, <1>4, <2>1, NoneThere DEF IInv, IndexInv, File, Running
  <2>3. ReadyCurrent'
    BY <1>1, <1>4, CurrentStays
  <2> QED
    BY <1>1, <1>2, <1>4, <2>1, <2>2, <2>3, IndexFrame DEF Shape, Steady
<1> QED
  BY <1>3, <1>4 DEF CreateIndex

LEMMA ReconcileStep ==
  ASSUME IInv, Reconcile, Elsewhere
  PROVE  IInv' /\ Steady
<1>1. /\ Running("reconcile")
      /\ run' = [run EXCEPT !.pc = "prune", !.pending = Changed]
      /\ index' = IF Changed = {} /\ Gone = {} THEN index ELSE [index EXCEPT !.status = "building"]
      /\ UNCHANGED <<corpus, imports, importing, config, files, vectors, pass, use>>
  BY DEF Reconcile, Elsewhere
<1>2. Shape /\ IsRun(run) /\ files' \in [Models -> Files] /\ index # NoRow
      /\ index.model = run.model
  BY <1>1, Told DEF IInv, IndexInv, Running, Shape
<1>3. /\ IsIndex(index') /\ index'.model = index.model /\ index'.docs = index.docs
      /\ index'.of = index.of
      /\ index'.status = "ready" => index.status = "ready" /\ Changed = {} /\ Gone = {}
  <2>1. IsIndex(index) /\ IsDocs(index.docs) /\ index.of \in -1..MaxImports
    BY <1>2, Told, Recorded
  <2>2. CASE Changed = {} /\ Gone = {}
    BY <1>1, <2>1, <2>2
  <2>3. CASE ~(Changed = {} /\ Gone = {})
    BY <1>1, <2>1, <2>3, MarkedIndex
  <2> QED
    BY <2>2, <2>3
<1>4. Changed \subseteq DOMAIN run.documents
  BY DEF Changed
<1>5. /\ IsRun(run') /\ run'.pc = "prune" /\ run'.pending = Changed
      /\ run'.model = run.model /\ run'.documents = run.documents
  BY <1>1, <1>2, <1>4 DEF IsRun, Running
<1>6. Kept' /\ Gone' = Gone
  <2>1. \A m \in DOMAIN run.documents \ Changed :
          m \in DOMAIN index.docs /\ index.docs[m].text = run.documents[m]
    BY DEF Changed
  <2> QED
    BY <1>3, <1>5, <2>1 DEF Kept, Gone
<1>7. index' # NoRow /\ Matches(File', index'.docs, index'.model)
  BY <1>1, <1>2, <1>3, NoneThere DEF IInv, IndexInv, File, IsIndex
<1>8. index'.status = "ready" => ~File'.torn
  BY <1>1, <1>3 DEF IInv, IndexInv, File
<1>9. IndexInv'
  BY <1>2, <1>3, <1>5, <1>6, <1>7, <1>8 DEF IndexInv, Running
<1>10. ReadyCurrent'
  BY <1>1, <1>3, CurrentStays
<1> QED
  BY <1>1, <1>2, <1>3, <1>5, <1>9, <1>10, IndexFrame DEF Steady

(* A run that works on its index. *)
LEMMA Working ==
  ASSUME IInv, run.pc \in {"reconcile", "prune", "open", "batch", "save"}
  PROVE  /\ IsRun(run) /\ IsTexts(run.documents)
         /\ index # NoRow /\ IsIndex(index) /\ IsDocs(index.docs) /\ index.of \in -1..MaxImports
         /\ index.model = run.model /\ run.model \in Models
         /\ files \in [Models -> Files] /\ File \in Files /\ Matches(File, index.docs, run.model)
<1>1. Shape /\ IsRun(run)
  BY Told DEF IInv, Running
<1>2. index # NoRow /\ index.model = run.model
  BY DEF IInv, IndexInv
<1>3. index.model \in Models /\ IsDocs(index.docs) /\ index.of \in -1..MaxImports /\ File \in Files
  BY <1>1, <1>2, Recorded
<1> QED
  BY <1>1, <1>2, <1>3, Told DEF IInv, IndexInv, Shape, IsRun

LEMMA PruneStep ==
  ASSUME IInv, Prune, Elsewhere
  PROVE  IInv' /\ Steady
<1> DEFINE docs == [m \in DOMAIN index.docs \ Gone |-> index.docs[m]]
<1>1. /\ Running("prune") /\ run' = [run EXCEPT !.pc = "open"]
      /\ index' = [index EXCEPT !.docs = docs]
      /\ UNCHANGED <<corpus, imports, importing, config, files, vectors, pass, use>>
  BY DEF Prune, Elsewhere, Then
<1>2. /\ IsRun(run) /\ index # NoRow /\ IsIndex(index) /\ IsDocs(index.docs)
      /\ index.of \in -1..MaxImports /\ index.model = run.model
      /\ files \in [Models -> Files] /\ Matches(File, index.docs, run.model)
  BY <1>1, Working DEF Running
<1>3. /\ DOMAIN docs = DOMAIN index.docs \ Gone
      /\ docs = [m \in DOMAIN docs |-> docs[m]]
      /\ \A m \in DOMAIN docs : docs[m] = index.docs[m]
  OBVIOUS
<1> HIDE DEF docs
<1>4. IsDocs(docs) /\ Matches(File, docs, run.model)
  BY <1>2, <1>3 DEF IsDocs, Named, Matches
<1>5. /\ IsIndex(index') /\ index'.docs = docs /\ index'.model = index.model
      /\ index'.status = index.status /\ index'.of = index.of
  BY <1>1, <1>2, <1>4, NamedIndex
<1>6. /\ IsRun(run') /\ run'.pc = "open" /\ run'.model = run.model
      /\ run'.documents = run.documents /\ run'.pending = run.pending
  BY <1>1, <1>2 DEF IsRun, Running
<1>7. Kept /\ (index.status = "ready" => run.pending = {} /\ Gone = {})
  BY <1>1 DEF IInv, IndexInv, Running
<1>8. Gone' = {} /\ Kept'
  BY <1>3, <1>5, <1>6, <1>7 DEF Gone, Kept
<1>9. index'.status = "ready" => index'.docs = index.docs
  <2> SUFFICES ASSUME index'.status = "ready" PROVE index'.docs = index.docs
    OBVIOUS
  <2>1. DOMAIN docs = DOMAIN index.docs
    BY <1>3, <1>5, <1>7
  <2>2. index.docs = [m \in DOMAIN index.docs |-> index.docs[m]]
    BY <1>2 DEF IsDocs
  <2> QED
    BY <1>3, <1>5, <2>1, <2>2
<1>10. IndexInv'
  <2>1. File' = File /\ index' # NoRow
    BY <1>1, <1>5, NoneThere DEF File, IsIndex
  <2>2. index.status = "ready" => ~File.torn
    BY DEF IInv, IndexInv
  <2> QED
    BY <1>2, <1>4, <1>5, <1>6, <1>7, <1>8, <2>1, <2>2 DEF IndexInv, Running
<1>11. ReadyCurrent'
  BY <1>1, <1>5, CurrentStays
<1> QED
  BY <1>1, <1>2, <1>5, <1>6, <1>9, <1>10, <1>11, IndexFrame DEF Steady

LEMMA OpenIndexFileStep ==
  ASSUME IInv, OpenIndexFile, Elsewhere
  PROVE  IInv' /\ Steady
<1>1. /\ Running("open")
      /\ IF Shorter(File, index.docs) THEN run' = NoRun /\ UNCHANGED files
         ELSE /\ run' = [run EXCEPT !.pc = "batch"]
              /\ files' = [files EXCEPT ![index.model] = Repaired(File, index.docs)]
      /\ UNCHANGED <<corpus, imports, importing, index, config, vectors, pass, use>>
  BY DEF OpenIndexFile, tables, Elsewhere, Then
<1>2. /\ IsRun(run) /\ index # NoRow /\ IsIndex(index) /\ IsDocs(index.docs)
      /\ index.model = run.model /\ run.model \in Models
      /\ files \in [Models -> Files] /\ File \in Files /\ Matches(File, index.docs, run.model)
  BY <1>1, Working DEF Running
<1>3. ReadyCurrent' /\ Steady
  BY <1>1, CurrentStays DEF Steady
<1>4. CASE Shorter(File, index.docs)
  <2>1. IndexInv'
    BY <1>1, <1>4, RunOver DEF IInv, IndexInv, File
  <2> QED
    BY <1>1, <1>2, <1>3, <1>4, <2>1, IndexFrame
<1>5. CASE ~Shorter(File, index.docs)
  <2>1. /\ Repaired(File, index.docs) \in Files /\ Aligned(Repaired(File, index.docs), index.docs)
        /\ Matches(Repaired(File, index.docs), index.docs, run.model)
    BY <1>2, <1>5, RepairedFile
  <2>2. files' \in [Models -> Files] /\ File' = Repaired(File, index.docs)
    BY <1>1, <1>2, <1>5, <2>1 DEF File
  <2>3. /\ IsRun(run') /\ run'.pc = "batch" /\ run'.model = run.model
        /\ run'.documents = run.documents /\ run'.pending = run.pending
    BY <1>1, <1>2, <1>5 DEF IsRun, Running
  <2>4. Kept /\ (index.status = "ready" => run.pending = {}) /\ Gone = {}
    BY <1>1 DEF IInv, IndexInv, Running
  <2>5. Kept' /\ Gone' = {}
    BY <1>1, <2>3, <2>4 DEF Kept, Gone
  <2>6. IndexInv'
    BY <1>1, <1>2, <2>1, <2>2, <2>3, <2>4, <2>5 DEF IndexInv, Running, Aligned
  <2> QED
    BY <1>1, <1>2, <1>3, <2>2, <2>3, <2>6, IndexFrame
<1> QED
  BY <1>4, <1>5

LEMMA AppendDocumentsStep ==
  ASSUME IInv, AppendDocuments, Elsewhere
  PROVE  IInv' /\ Steady
<1> DEFINE batch == First(run.pending, run.left)
           texts == [m \in batch |-> run.documents[m]]
           new == VectorsOf(run.model, texts)
<1>1. /\ Running("batch") /\ run.pending # {} /\ run.left > 0
      /\ \/ /\ files' = [files EXCEPT ![index.model] = Appended(File, new)]
            /\ run' = [run EXCEPT !.pc = "save", !.batch = batch, !.start = NextRow(File)]
         \/ /\ \E file \in CutOff(File, new) : files' = [files EXCEPT ![index.model] = file]
            /\ run' = NoRun
      /\ UNCHANGED <<corpus, imports, importing, index, config, vectors, pass, use>>
  BY DEF AppendDocuments, tables, Elsewhere
<1>2. /\ IsRun(run) /\ IsTexts(run.documents)
      /\ index # NoRow /\ IsIndex(index) /\ IsDocs(index.docs)
      /\ index.model = run.model /\ run.model \in Models
      /\ files \in [Models -> Files] /\ File \in Files /\ Matches(File, index.docs, run.model)
  BY <1>1, Working DEF Running
<1>3. Kept /\ index.status # "ready" /\ Gone = {} /\ Aligned(File, index.docs)
  BY <1>1 DEF IInv, IndexInv, Running
<1>4. ReadyCurrent' /\ Steady
  BY <1>1, <1>3, CurrentStays DEF Steady
<1>5. /\ batch \subseteq run.pending /\ batch \subseteq DOMAIN run.documents
      /\ batch # {} /\ Cardinality(batch) <= run.left
  <2>1. /\ run.pending \in SUBSET Messages /\ run.pending \subseteq DOMAIN run.documents
        /\ run.left \in Nat
    BY <1>2 DEF IsRun, IsTexts
  <2>2. run.pending \in SUBSET Nat /\ IsFiniteSet(run.pending)
    BY <2>1, MessagesAssumption, FS_Subset
  <2> QED
    BY <1>1, <2>1, <2>2, FirstOfSet
<1>6. IsTexts(texts) /\ DOMAIN texts = batch
  BY <1>2, <1>5 DEF IsTexts
<1> HIDE DEF batch, texts
<1>7. CASE /\ files' = [files EXCEPT ![index.model] = Appended(File, new)]
           /\ run' = [run EXCEPT !.pc = "save", !.batch = batch, !.start = NextRow(File)]
  <2> DEFINE start == NextRow(File)
             more == Appended(File, new)
  <2>1. /\ more \in Files /\ Matches(more, index.docs, run.model)
        /\ Unsaved(more, index.docs, run.model, texts, start)
    BY <1>2, <1>3, <1>6, AppendedFile
  <2>2. start \in Nat
    BY <1>2, FileKnown DEF NextRow
  <2> HIDE DEF start, more
  <2>3. /\ run' = [run EXCEPT !.pc = "save", !.batch = batch, !.start = start]
        /\ files' = [files EXCEPT ![index.model] = more]
    BY <1>7 DEF start, more
  <2>4. /\ IsRun(run') /\ run'.pc = "save" /\ run'.batch = batch /\ run'.start = start
        /\ run'.model = run.model /\ run'.documents = run.documents
        /\ run'.pending = run.pending /\ run'.left = run.left
    BY <1>2, <1>5, <2>2, <2>3 DEF IsRun
  <2>5. files' \in [Models -> Files] /\ File' = more
    BY <1>1, <1>2, <2>1, <2>3 DEF File
  <2>6. Kept' /\ Gone' = {} /\ Batch' = texts
    BY <1>1, <1>3, <2>4 DEF Kept, Gone, Batch, texts
  <2>7. IndexInv'
    BY <1>1, <1>2, <1>3, <1>5, <2>1, <2>4, <2>5, <2>6 DEF IndexInv, Running
  <2> QED
    BY <1>1, <1>2, <1>4, <2>4, <2>5, <2>7, IndexFrame
<1>8. CASE /\ \E file \in CutOff(File, new) : files' = [files EXCEPT ![index.model] = file]
           /\ run' = NoRun
  <2>1. PICK file \in CutOff(File, new) : files' = [files EXCEPT ![index.model] = file]
    BY <1>8
  <2>2. file \in Files /\ Matches(file, index.docs, run.model)
    BY <1>2, <1>3, <1>6, CutOffFile
  <2>3. files' \in [Models -> Files] /\ File' = file
    BY <1>1, <1>2, <2>1, <2>2 DEF File
  <2>4. IndexInv'
    BY <1>1, <1>2, <1>3, <1>8, <2>2, <2>3, RunOver
  <2> QED
    BY <1>1, <1>2, <1>4, <1>8, <2>3, <2>4, IndexFrame
<1> QED
  BY <1>1, <1>7, <1>8

LEMMA SaveDocumentsStep ==
  ASSUME IInv, SaveDocuments, Elsewhere
  PROVE  IInv' /\ Steady
<1> DEFINE saved == Override(index.docs, RowsOf(Batch, run.start))
           c == Cardinality(run.batch)
<1>1. /\ Running("save")
      /\ index' = [index EXCEPT !.docs = saved]
      /\ run' = [run EXCEPT !.pc = "batch", !.pending = run.pending \ run.batch,
                            !.left = run.left - c, !.batch = {}, !.start = 0]
      /\ UNCHANGED <<corpus, imports, importing, config, files, vectors, pass, use>>
  BY DEF SaveDocuments, Elsewhere, Batch
<1>2. /\ IsRun(run) /\ IsTexts(run.documents)
      /\ index # NoRow /\ IsIndex(index) /\ IsDocs(index.docs)
      /\ index.of \in -1..MaxImports /\ index.model = run.model
      /\ files \in [Models -> Files] /\ File \in Files /\ Matches(File, index.docs, run.model)
  BY <1>1, Working DEF Running
<1>3. /\ Kept /\ (index.status = "ready" => run.pending = {}) /\ Gone = {}
      /\ run.batch # {} /\ c <= run.left
      /\ Unsaved(File, index.docs, run.model, Batch, run.start)
  BY <1>1 DEF IInv, IndexInv, Running
<1>4. /\ run.batch \subseteq run.pending /\ run.pending \subseteq DOMAIN run.documents
      /\ run.start \in Nat /\ run.left \in Nat
  BY <1>2 DEF IsRun
<1>5. IsTexts(Batch) /\ DOMAIN Batch = run.batch
  BY <1>2, <1>4 DEF IsTexts, Batch
<1>6. /\ IsDocs(saved) /\ DOMAIN saved = DOMAIN index.docs \cup run.batch
      /\ \A m \in run.batch : saved[m].text = Batch[m]
      /\ \A m \in DOMAIN index.docs \ run.batch : saved[m] = index.docs[m]
      /\ Matches(File, saved, run.model) /\ Aligned(File, saved)
  <2>1. DOMAIN Batch # {}
    BY <1>3, <1>5
  <2>2. Unsaved(File, index.docs, run.model, Batch, run.start) /\ File \in Files
    BY <1>2, <1>3
  <2>3. WellSaved(File, index.docs, run.model, Batch, saved)
    BY <1>2, <1>4, <1>5, <2>1, <2>2, SavedBatch
  <2> QED
    BY <1>5, <2>3 DEF WellSaved
<1> HIDE DEF saved
<1>7. /\ IsIndex(index') /\ index'.docs = saved /\ index'.model = index.model
      /\ index'.status = index.status /\ index'.of = index.of
  BY <1>1, <1>2, <1>6, NamedIndex
<1>8. run.left - c \in Nat
  <2>1. IsFiniteSet(run.batch)
    BY <1>5, VectorsOfBatch, <1>2 DEF IsRun
  <2>2. c \in Nat
    BY <2>1, FS_CardinalityType
  <2> QED
    BY <1>3, <1>4, <2>2
<1> HIDE DEF c
<1>9. /\ IsRun(run') /\ run'.pc = "batch" /\ run'.model = run.model
      /\ run'.documents = run.documents /\ run'.pending = run.pending \ run.batch
  BY <1>1, <1>2, <1>4, <1>8 DEF IsRun
<1>10. index.status # "ready"
  BY <1>3, <1>4
<1>11. Gone' = {}
  BY <1>3, <1>4, <1>6, <1>7, <1>9 DEF Gone
<1>12. Kept'
  <2> SUFFICES ASSUME NEW m \in DOMAIN run.documents \ (run.pending \ run.batch)
               PROVE  m \in DOMAIN saved /\ saved[m].text = run.documents[m]
    BY <1>7, <1>9 DEF Kept
  <2>1. CASE m \in run.batch
    BY <1>6, <2>1 DEF Batch
  <2>2. CASE m \notin run.batch
    BY <1>3, <1>6, <2>2 DEF Kept
  <2> QED
    BY <2>1, <2>2
<1>13. IndexInv'
  <2>1. File' = File /\ index' # NoRow
    BY <1>1, <1>7, NoneThere DEF File, IsIndex
  <2> QED
    BY <1>2, <1>6, <1>7, <1>9, <1>10, <1>11, <1>12, <2>1 DEF IndexInv, Running
<1>14. ReadyCurrent' /\ Steady
  BY <1>1, <1>7, <1>10, CurrentStays DEF Steady
<1> QED
  BY <1>1, <1>2, <1>7, <1>9, <1>13, <1>14, IndexFrame

(* A run that has worked off what differed leaves the index with its        *)
(* documents, and with no other.                                            *)
LEMMA AllIndexed ==
  ASSUME IInv, Running("batch"), run.pending = {}
  PROVE  [m \in DOMAIN index.docs |-> index.docs[m].text] = run.documents
<1>1. IsRun(run) /\ IsTexts(run.documents)
  BY Working DEF Running
<1>2. Kept /\ Gone = {}
  BY DEF IInv, IndexInv, Running
<1>3. /\ DOMAIN index.docs = DOMAIN run.documents
      /\ \A m \in DOMAIN index.docs : index.docs[m].text = run.documents[m]
  BY <1>2 DEF Kept, Gone
<1> QED
  BY <1>1, <1>3 DEF IsTexts

LEMMA FinishIndexStep ==
  ASSUME IInv, FinishIndex, Elsewhere
  PROVE  /\ IInv' /\ index'.docs = index.docs /\ index'.model = index.model
         /\ index'.status = "ready" /\ index.status # "ready" =>
              [m \in DOMAIN index.docs |-> index.docs[m].text] = run.documents
<1> DEFINE of == IF Undisturbed(run.since) THEN run.since ELSE -1
<1>1. /\ Running("batch") /\ run' = NoRun
      /\ index' = IF /\ run.pending = {}
                     /\ Cardinality(DOMAIN index.docs) = Cardinality(DOMAIN run.documents)
                  THEN [index EXCEPT !.status = "ready", !.of = of] ELSE index
      /\ UNCHANGED <<corpus, imports, importing, config, files, vectors, pass, use>>
  BY DEF FinishIndex, Elsewhere
<1>2. /\ IsRun(run) /\ index # NoRow /\ IsIndex(index) /\ IsDocs(index.docs)
      /\ index.model = run.model /\ files \in [Models -> Files]
      /\ Matches(File, index.docs, run.model)
  BY <1>1, Working DEF Running
<1>3. Aligned(File, index.docs)
  BY <1>1 DEF IInv, IndexInv
<1>4. of \in -1..MaxImports /\ (of # -1 => of = Len(imports))
  <2>1. Len(imports) \in 0..MaxImports
    BY ImportsAssumption DEF IInv, Shape, StoreShape
  <2> QED
    BY <2>1, ImportsAssumption DEF Undisturbed, Quiet
<1> HIDE DEF of
<1>5. /\ IsIndex(index') /\ index'.model = index.model /\ index'.docs = index.docs
      /\ index'.status = "ready" => \/ run.pending = {} /\ index'.of = of
                                    \/ index.status = "ready" /\ index'.of = index.of
  <2>1. CASE index' = index
    BY <1>2, <2>1
  <2>2. CASE run.pending = {} /\ index' = [index EXCEPT !.status = "ready", !.of = of]
    <3>1. index' = [status |-> "ready", model |-> index.model, docs |-> index.docs, of |-> of]
      BY <1>2, <2>2 DEF IsIndex
    <3> QED
      BY <1>2, <1>4, <2>2, <3>1 DEF IsIndex
  <2> QED
    BY <1>1, <2>1, <2>2
<1>6. IndexInv'
  <2>1. File' = File
    BY <1>1, <1>5 DEF File
  <2> QED
    BY <1>1, <1>2, <1>3, <1>5, <2>1, RunOver DEF Aligned
<1>7. ReadyCurrent'
  <2>1. Len(imports) \in Nat
    BY DEF IInv, Shape, StoreShape
  <2> QED
    BY <1>1, <1>4, <1>5, <2>1 DEF IInv, ReadyCurrent
<1>8. IInv'
  BY <1>1, <1>2, <1>5, <1>6, <1>7, IndexFrame
<1> QED
  BY <1>1, <1>5, <1>8, AllIndexed

-----------------------------------------------------------------------------
(***************************************************************************)
(* The pass that embeds.                                                   *)
(***************************************************************************)
(* No configuration becomes ready. *)
Unfinished == config'.status = "ready" => config.status = "ready"

LEMMA StartPassStep ==
  ASSUME IInv, NEW refresh \in BOOLEAN, NEW limit \in Limits, StartPass(refresh, limit),
         UNCHANGED use
  PROVE  IInv' /\ Unfinished
<1> DEFINE left == IF limit = 0 THEN Cardinality(Messages) + 1 ELSE limit
<1>1. /\ config' = IF config = NoRow THEN [status |-> "building", docs |-> <<>>] ELSE config
      /\ pass' = [pc |-> "open", refresh |-> refresh, after |-> 0, batch |-> <<>>, start |-> 0,
                  left |-> left, building |-> FALSE, since |-> Quiet]
      /\ UNCHANGED <<corpus, imports, importing, index, files, run, vectors, use>>
  BY DEF StartPass
<1>2. left \in Nat
  <2>1. Cardinality(Messages) \in Nat
    BY MessagesAssumption, FS_CardinalityType
  <2> QED
    BY <2>1, LimitsAssumption
<1> HIDE DEF left
<1>3. Shape
  BY DEF IInv
<1>4. /\ IsConfig(config') /\ config' # NoRow /\ Unfinished
      /\ Matches(vectors, config'.docs, Model)
  <2>1. CASE config = NoRow
    <3>1. IsConfig(config') /\ config'.docs = <<>> /\ config'.status = "building"
      BY <1>1, <2>1, NoneThere DEF IsConfig
    <3> QED
      BY <3>1, NoneThere, NoneNamed DEF Unfinished
  <2>2. CASE config # NoRow
    BY <1>1, <1>3, <2>2, Told DEF Unfinished, IInv, PassInv
  <2> QED
    BY <2>1, <2>2
<1>5. Quiet \in -1..Len(imports) /\ Len(imports) \in Nat
  BY <1>3 DEF Quiet, Shape, StoreShape
<1>6. /\ IsPass(pass') /\ pass'.pc = "open" /\ pass'.after = 0 /\ pass'.since = Quiet
      /\ DOMAIN pass'.batch = {}
  BY <1>1, <1>2, <1>5, NoneThere DEF IsPass
<1>7. Seen'
  <2>1. \A m \in Messages : ~(m <= 0)
    BY MessagesAssumption
  <2> QED
    BY <1>6, <2>1 DEF Seen, Eligible, Passing
<1>8. (importing.id # 0 => pass.since < Len(imports))'
  BY <1>1, <1>5, <1>6 DEF Quiet
<1>9. PassInv'
  BY <1>1, <1>4, <1>6, <1>7, <1>8 DEF PassInv, Passing
<1> QED
  BY <1>1, <1>3, <1>4, <1>6, <1>9, PassOnly DEF Shape

LEMMA StopPassStep ==
  ASSUME IInv, StopPass, UNCHANGED use
  PROVE  IInv' /\ Unfinished
<1>1. /\ pass' = NoPass
      /\ UNCHANGED <<corpus, imports, importing, index, config, files, run, vectors, use>>
  BY DEF StopPass, tables
<1>2. PassInv'
  BY <1>1, PassOver DEF IInv, PassInv
<1> QED
  BY <1>1, <1>2, PassOnly DEF IInv, Shape, Unfinished

LEMMA AnalyzeStep ==
  ASSUME IInv, Analyze, UNCHANGED use
  PROVE  IInv' /\ Unfinished
<1>1. /\ Passing("idle") /\ config # NoRow /\ ~Shorter(vectors, config.docs)
      /\ vectors' = Repaired(vectors, config.docs)
      /\ UNCHANGED <<corpus, imports, importing, index, config, files, run, pass, use>>
  BY DEF Analyze, tables
<1>2. Shape /\ IsDocs(config.docs) /\ Matches(vectors, config.docs, Model) /\ pass = NoPass
  BY <1>1, Told DEF IInv, PassInv, IsConfig
<1>3. vectors' \in Files /\ Matches(vectors', config.docs, Model)
  BY <1>1, <1>2, RepairedFile, ModelsAssumption DEF Shape
<1>4. PassInv'
  BY <1>1, <1>2, <1>3, PassOver
<1> QED
  BY <1>1, <1>2, <1>3, <1>4, PassOnly DEF Shape, Unfinished

(* A pass that is under way has its configuration. *)
LEMMA PassKnown ==
  ASSUME IInv, ~Passing("idle")
  PROVE  /\ Shape /\ IsPass(pass) /\ IsTexts(pass.batch) /\ IsFiniteSet(DOMAIN pass.batch)
         /\ config # NoRow /\ IsConfig(config) /\ IsDocs(config.docs)
         /\ vectors \in Files /\ Matches(vectors, config.docs, Model)
         /\ ~pass.refresh => pass.after = 0
         /\ importing.id # 0 => pass.since < Len(imports)
         /\ Undisturbed(pass.since) => Seen
<1>1. Shape /\ IsPass(pass) /\ config # NoRow
  BY Told DEF IInv, PassInv
<1>2. IsTexts(pass.batch) /\ IsConfig(config) /\ IsDocs(config.docs)
  BY <1>1, Told DEF IsPass, IsConfig
<1>3. IsFiniteSet(DOMAIN pass.batch)
  BY <1>2, MessagesAssumption, FS_Subset DEF IsTexts
<1> QED
  BY <1>1, <1>2, <1>3 DEF IInv, PassInv, Shape

LEMMA OpenVectorsStep ==
  ASSUME IInv, OpenVectors, UNCHANGED use
  PROVE  IInv' /\ Unfinished
<1>1. /\ Passing("open")
      /\ IF Shorter(vectors, config.docs) THEN pass' = NoPass /\ UNCHANGED vectors
         ELSE pass' = [pass EXCEPT !.pc = "list"] /\ vectors' = Repaired(vectors, config.docs)
      /\ UNCHANGED <<corpus, imports, importing, index, config, files, run, use>>
  BY DEF OpenVectors, tables
<1>2. Unfinished
  BY <1>1 DEF Unfinished
<1>3. Shape /\ ~Passing("idle") /\ (config = NoRow \/ IsConfig(config)) /\ vectors \in Files
  BY <1>1 DEF IInv, Shape, Passing
<1>4. CASE Shorter(vectors, config.docs)
  <2>1. PassInv'
    BY <1>1, <1>4, PassOver DEF IInv, PassInv
  <2> QED
    BY <1>1, <1>2, <1>3, <1>4, <2>1, PassOnly
<1>5. CASE ~Shorter(vectors, config.docs)
  <2>1. IsDocs(config.docs) /\ Matches(vectors, config.docs, Model)
    BY <1>3, PassKnown
  <2>2. /\ vectors' \in Files /\ Aligned(vectors', config.docs)
        /\ Matches(vectors', config.docs, Model)
    BY <1>1, <1>3, <1>5, <2>1, RepairedFile, ModelsAssumption
  <2>3. /\ IsPass(pass') /\ pass'.pc = "list" /\ pass'.refresh = pass.refresh
        /\ pass'.after = pass.after /\ pass'.batch = pass.batch /\ pass'.since = pass.since
    BY <1>1, <1>3, <1>5, PassKnown DEF IsPass
  <2>4. DOMAIN pass.batch = {}
    BY <1>1 DEF IInv, PassInv, Passing
  <2>5. (Undisturbed(pass.since) => Seen)'
    BY <1>1, <1>3, <2>3, PassKnown DEF Undisturbed, Quiet, Seen, Eligible, Stale, Passing
  <2>6. PassInv'
    BY <1>1, <1>3, <2>2, <2>3, <2>4, <2>5, PassKnown DEF PassInv, Passing
  <2> QED
    BY <1>1, <1>2, <1>3, <2>2, <2>3, <2>6, PassOnly
<1> QED
  BY <1>4, <1>5

LEMMA MarkBuildingStep ==
  ASSUME IInv, MarkBuilding, UNCHANGED use
  PROVE  IInv' /\ Unfinished
<1>1. /\ Passing("mark")
      /\ config' = [config EXCEPT !.status = "building"]
      /\ pass' = [pass EXCEPT !.pc = "append", !.building = TRUE]
      /\ UNCHANGED <<corpus, imports, importing, index, files, run, vectors, use>>
  BY DEF MarkBuilding
<1>2. ~Passing("idle")
  BY <1>1 DEF Passing
<1>3. /\ IsConfig(config') /\ config'.status = "building" /\ config'.docs = config.docs
      /\ config' # NoRow
  <2>1. IsConfig(config)
    BY <1>2, PassKnown
  <2>2. IsConfig(config') /\ config'.status = "building" /\ config'.docs = config.docs
    BY <1>1, <2>1, MarkedConfig
  <2> QED
    BY <2>2, NoneThere
<1>4. /\ IsPass(pass') /\ pass'.pc = "append" /\ pass'.refresh = pass.refresh
      /\ pass'.after = pass.after /\ pass'.batch = pass.batch /\ pass'.since = pass.since
      /\ pass'.left = pass.left
  BY <1>1, <1>2, PassKnown DEF IsPass
<1>5. /\ Aligned(vectors, config.docs)
      /\ DOMAIN pass.batch # {} /\ Cardinality(DOMAIN pass.batch) <= pass.left
  BY <1>1 DEF IInv, PassInv, Passing
<1>6. (Undisturbed(pass.since) => Seen)'
  BY <1>1, <1>2, <1>3, <1>4, PassKnown DEF Undisturbed, Quiet, Seen, Eligible, Stale, Passing
<1>7. PassInv'
  BY <1>1, <1>2, <1>3, <1>4, <1>5, <1>6, PassKnown DEF PassInv, Passing
<1> QED
  BY <1>1, <1>2, <1>3, <1>4, <1>7, PassKnown, PassOnly DEF Unfinished

LEMMA AppendVectorsStep ==
  ASSUME IInv, AppendVectors, UNCHANGED use
  PROVE  IInv' /\ Unfinished
<1> DEFINE new == VectorsOf(Model, pass.batch)
<1>1. /\ Passing("append")
      /\ \/ /\ vectors' = Appended(vectors, new)
            /\ pass' = [pass EXCEPT !.pc = "save", !.start = NextRow(vectors)]
         \/ vectors' \in CutOff(vectors, new) /\ pass' = NoPass
      /\ UNCHANGED <<corpus, imports, importing, index, config, files, run, use>>
  BY DEF AppendVectors, tables
<1>2. ~Passing("idle") /\ Unfinished
  BY <1>1 DEF Passing, Unfinished
<1>3. /\ Aligned(vectors, config.docs)
      /\ DOMAIN pass.batch # {} /\ Cardinality(DOMAIN pass.batch) <= pass.left
  BY <1>1 DEF IInv, PassInv, Passing
<1>4. /\ vectors \in Files /\ IsDocs(config.docs) /\ Matches(vectors, config.docs, Model)
      /\ IsTexts(pass.batch) /\ IsConfig(config) /\ IsPass(pass)
  BY <1>2, PassKnown
<1>5. CASE /\ vectors' = Appended(vectors, new)
           /\ pass' = [pass EXCEPT !.pc = "save", !.start = NextRow(vectors)]
  <2>1. /\ vectors' \in Files /\ Matches(vectors', config.docs, Model)
        /\ Unsaved(vectors', config.docs, Model, pass.batch, NextRow(vectors))
    BY <1>3, <1>4, <1>5, AppendedFile, ModelsAssumption
  <2>2. NextRow(vectors) \in Nat
    BY <1>4, FileKnown DEF NextRow
  <2>3. /\ IsPass(pass') /\ pass'.pc = "save" /\ pass'.start = NextRow(vectors)
        /\ pass'.refresh = pass.refresh /\ pass'.after = pass.after
        /\ pass'.batch = pass.batch /\ pass'.since = pass.since /\ pass'.left = pass.left
    BY <1>4, <1>5, <2>2 DEF IsPass
  <2>4. (Undisturbed(pass.since) => Seen)'
    BY <1>1, <1>2, <2>3, PassKnown DEF Undisturbed, Quiet, Seen, Eligible, Stale, Passing
  <2>5. PassInv'
    BY <1>1, <1>2, <1>3, <2>1, <2>3, <2>4, PassKnown DEF PassInv, Passing
  <2> QED
    BY <1>1, <1>2, <1>4, <2>1, <2>3, <2>5, PassOnly
<1>6. CASE vectors' \in CutOff(vectors, new) /\ pass' = NoPass
  <2>1. vectors' \in Files /\ Matches(vectors', config.docs, Model)
    BY <1>3, <1>4, <1>6, CutOffFile, ModelsAssumption
  <2>2. PassInv'
    BY <1>1, <1>6, <2>1, PassOver
  <2> QED
    BY <1>1, <1>2, <1>4, <1>6, <2>1, <2>2, PassOnly
<1> QED
  BY <1>1, <1>5, <1>6

LEMMA FinishPassStep ==
  ASSUME IInv, FinishPass, UNCHANGED use
  PROVE  /\ IInv' /\ config'.docs = config.docs
         /\ Undisturbed(pass.since) =>
              /\ Eligible \subseteq DOMAIN config.docs
              /\ pass.refresh => \A m \in Eligible : ~Stale(m)
<1>1. /\ Passing("complete") /\ pass' = NoPass
      /\ config' = [config EXCEPT !.status = "ready"]
      /\ UNCHANGED <<corpus, imports, importing, index, files, run, vectors, use>>
  BY DEF FinishPass
<1>2. ~Passing("idle")
  BY <1>1 DEF Passing
<1>3. IsConfig(config') /\ config'.docs = config.docs
  <2>1. IsConfig(config)
    BY <1>2, PassKnown
  <2> QED
    BY <1>1, <2>1, MarkedConfig
<1>4. PassInv'
  BY <1>1, <1>2, <1>3, PassKnown, PassOver
<1>5. Undisturbed(pass.since) => Seen
  BY <1>2, PassKnown
<1> QED
  BY <1>1, <1>2, <1>3, <1>4, <1>5, PassKnown, PassOnly DEF Seen

LEMMA SaveRecordsStep ==
  ASSUME IInv, SaveRecords, UNCHANGED use
  PROVE  IInv' /\ Unfinished
<1> DEFINE c == Cardinality(DOMAIN pass.batch)
<1>1. /\ Passing("save")
      /\ config' = [config EXCEPT !.docs = Override(config.docs, RowsOf(pass.batch, pass.start))]
      /\ pass' = [pass EXCEPT !.pc = "list", !.left = pass.left - c,
                              !.batch = <<>>, !.start = 0]
      /\ UNCHANGED <<corpus, imports, importing, index, files, run, vectors, use>>
  BY DEF SaveRecords
<1>2. ~Passing("idle")
  BY <1>1 DEF Passing
<1>3. /\ vectors \in Files /\ IsDocs(config.docs) /\ Matches(vectors, config.docs, Model)
      /\ IsTexts(pass.batch) /\ IsConfig(config) /\ IsPass(pass)
  BY <1>2, PassKnown
<1>4. /\ Unsaved(vectors, config.docs, Model, pass.batch, pass.start)
      /\ DOMAIN pass.batch # {} /\ c <= pass.left
  BY <1>1 DEF IInv, PassInv, Passing
<1>5. PICK batch, docs, x :
        /\ batch = pass.batch /\ docs = config.docs
        /\ x = Override(config.docs, RowsOf(pass.batch, pass.start))
  OBVIOUS
<1>6. pass.start \in Nat
  BY <1>3 DEF IsPass
<1>7. /\ IsDocs(x) /\ DOMAIN x = DOMAIN docs \cup DOMAIN batch
      /\ \A m \in DOMAIN batch : x[m].text = batch[m]
      /\ \A m \in DOMAIN docs \ DOMAIN batch : x[m] = docs[m]
      /\ Matches(vectors, x, Model) /\ Aligned(vectors, x)
  <2>1. WellSaved(vectors, config.docs, Model, pass.batch, x)
    BY <1>3, <1>4, <1>5, <1>6, SavedBatch
  <2> QED
    BY <1>5, <2>1 DEF WellSaved
<1>8. IsConfig(config') /\ config'.docs = x /\ config'.status = config.status
  BY <1>1, <1>3, <1>5, <1>6, <1>7, NamedConfig
<1>9. pass.left - c \in Nat
  <2>1. c \in Nat
    BY <1>2, PassKnown, FS_CardinalityType
  <2> QED
    BY <1>3, <1>4, <2>1 DEF IsPass
<1> HIDE DEF c
<1>10. /\ IsPass(pass') /\ pass'.pc = "list" /\ pass'.refresh = pass.refresh
       /\ pass'.after = pass.after /\ DOMAIN pass'.batch = {} /\ pass'.since = pass.since
  BY <1>1, <1>3, <1>9, NoneThere DEF IsPass
<1>11. (Undisturbed(pass.since) => Seen)'
  <2> SUFFICES ASSUME Undisturbed(pass.since)' PROVE Seen'
    OBVIOUS
  <2>1. Undisturbed(pass.since)
    BY <1>1, <1>10 DEF Undisturbed, Quiet
  <2>2. Seen /\ corpus' = corpus /\ Eligible' = Eligible
    BY <1>1, <1>2, <2>1, PassKnown DEF Eligible
  <2>3. ASSUME NEW m \in Eligible, pass.refresh, m <= pass.after
        PROVE  m \in DOMAIN x /\ x[m].text = corpus[m]
    <3>1. CASE m \in DOMAIN batch
      BY <1>5, <1>7, <2>2, <3>1 DEF Seen
    <3>2. CASE m \notin DOMAIN batch
      <4>1. ~Stale(m)
        BY <1>5, <2>2, <2>3, <3>2 DEF Seen
      <4> QED
        BY <1>5, <1>7, <3>2, <4>1 DEF Stale
    <3> QED
      BY <3>1, <3>2
  <2>4. \A m \in Eligible' : pass.refresh /\ m <= pass.after => ~Stale(m)'
    BY <1>8, <2>2, <2>3 DEF Stale
  <2> QED
    BY <1>10, <2>2, <2>4 DEF Seen, Passing
<1>12. PassInv'
  <2>1. config' # NoRow
    BY <1>8, NoneThere DEF IsConfig
  <2>2. vectors' = vectors /\ importing' = importing /\ imports' = imports
    BY <1>1
  <2> QED
    BY <1>2, <1>7, <1>8, <1>10, <1>11, <2>1, <2>2, PassKnown DEF PassInv, Passing
<1> QED
  BY <1>1, <1>3, <1>8, <1>10, <1>12, PassOnly DEF Unfinished

(* The messages a page is taken from. *)
Unseen == {m \in Eligible : m > pass.after /\ (pass.refresh \/ m \notin DOMAIN config.docs)}

LEMMA PageOf ==
  ASSUME Shape, IsPass(pass)
  PROVE  /\ Eligible \in SUBSET Nat /\ Eligible \subseteq Messages /\ pass.after \in Nat
         /\ Candidates \subseteq Unseen /\ Unseen \subseteq Eligible
         /\ IsFiniteSet(Candidates) /\ Cardinality(Candidates) \in Nat
         /\ Cardinality(Candidates) <= pass.left
         /\ pass.left # 0 /\ Candidates = {} => Unseen = {}
         /\ \A m \in Candidates, n \in Unseen : n < m => n \in Candidates
         /\ Candidates # {} =>
              Max(Candidates) \in Candidates /\ \A n \in Candidates : n <= Max(Candidates)
<1>1. /\ Eligible \in SUBSET Nat /\ Eligible \subseteq Messages
      /\ pass.after \in Nat /\ pass.left \in Nat
  BY MessagesAssumption DEF Eligible, IsPass
<1>2. Unseen \in SUBSET Nat /\ Unseen \subseteq Eligible /\ IsFiniteSet(Unseen)
  BY <1>1, MessagesAssumption, FS_Subset DEF Unseen
<1>3. Candidates = First(Unseen, pass.left)
  BY DEF Candidates, Unseen
<1>4. /\ Candidates \subseteq Unseen
      /\ IsFiniteSet(Candidates) /\ Cardinality(Candidates) \in Nat
      /\ Cardinality(Candidates) <= pass.left
      /\ Unseen # {} /\ pass.left # 0 => Candidates # {}
      /\ \A m \in Candidates, n \in Unseen : n < m => n \in Candidates
  BY <1>1, <1>2, <1>3, FirstOfSet
<1>5. Candidates \in SUBSET Nat
  BY <1>2, <1>4
<1>6. Candidates # {} =>
        Max(Candidates) \in Candidates /\ \A n \in Candidates : n <= Max(Candidates)
  BY <1>4, <1>5, MaxOfSet
<1> QED
  BY <1>1, <1>2, <1>4, <1>6

LEMMA ListCandidatesStep ==
  ASSUME IInv, ListCandidates, UNCHANGED use
  PROVE  IInv' /\ Unfinished
<1> DEFINE after == IF pass.refresh THEN Max(Candidates) ELSE 0
           pc == IF DOMAIN Selected = {} THEN "list" ELSE IF pass.building THEN "append" ELSE "mark"
<1>1. /\ Passing("list")
      /\ pass' = IF pass.left = 0 THEN NoPass
                 ELSE IF Candidates = {} THEN [pass EXCEPT !.pc = "complete"]
                 ELSE [pass EXCEPT !.batch = Selected, !.after = after, !.pc = pc]
      /\ UNCHANGED <<corpus, imports, importing, index, config, files, run, vectors, use>>
  BY DEF ListCandidates, tables
<1>2. ~Passing("idle") /\ Unfinished
  BY <1>1 DEF Passing, Unfinished
<1>3. /\ Shape /\ IsPass(pass) /\ config # NoRow /\ IsConfig(config) /\ vectors \in Files
      /\ Matches(vectors, config.docs, Model) /\ (~pass.refresh => pass.after = 0)
      /\ (importing.id # 0 => pass.since < Len(imports))
      /\ (Undisturbed(pass.since) => Seen)
  BY <1>2, PassKnown
<1>4. Aligned(vectors, config.docs) /\ DOMAIN pass.batch = {}
  BY <1>1 DEF IInv, PassInv, Passing
<1>5. \A m \in Messages : m > 0
  BY MessagesAssumption
<1>6. Selected = [m \in DOMAIN Selected |-> corpus[m]]
      /\ DOMAIN Selected = {m \in Candidates : Stale(m)}
  BY DEF Selected
<1>7. CASE pass.left = 0
  <2>1. pass' = NoPass
    BY <1>1, <1>7
  <2>2. PassInv'
    BY <1>1, <1>3, <2>1, PassOver
  <2> QED
    BY <1>1, <1>2, <1>3, <2>1, <2>2, PassOnly
<1>8. CASE pass.left # 0 /\ Candidates = {}
  <2>1. pass' = [pass EXCEPT !.pc = "complete"]
    BY <1>1, <1>8
  <2>2. /\ IsPass(pass') /\ pass'.pc = "complete" /\ pass'.refresh = pass.refresh
        /\ pass'.after = pass.after /\ pass'.batch = pass.batch /\ pass'.since = pass.since
    BY <1>3, <2>1 DEF IsPass
  <2>3. Unseen = {}
    BY <1>3, <1>8, PageOf
  <2>4. ASSUME Undisturbed(pass.since), NEW m \in Eligible
        PROVE  m \in DOMAIN config.docs /\ (pass.refresh => ~Stale(m))
    <3>1. m \in Nat /\ m \in Messages /\ pass.after \in Nat
      BY <1>3, PageOf
    <3>2. CASE pass.refresh
      <4>1. m <= pass.after
        BY <2>3, <3>1, <3>2 DEF Unseen
      <4>2. ~Stale(m)
        BY <1>3, <1>4, <2>4, <3>2, <4>1 DEF Seen
      <4> QED
        BY <4>2 DEF Stale
    <3>3. CASE ~pass.refresh
      BY <1>3, <1>5, <2>3, <3>1, <3>3 DEF Unseen
    <3> QED
      BY <3>2, <3>3
  <2>5. (Undisturbed(pass.since) => Seen)'
    BY <1>1, <1>3, <2>2, <2>4 DEF Undisturbed, Quiet, Seen, Eligible, Stale, Passing
  <2>6. PassInv'
    BY <1>1, <1>3, <1>4, <2>2, <2>5 DEF PassInv, Passing
  <2> QED
    BY <1>1, <1>2, <1>3, <2>2, <2>6, PassOnly
<1>9. CASE pass.left # 0 /\ Candidates # {}
  <2>1. pass' = [pass EXCEPT !.batch = Selected, !.after = after, !.pc = pc]
    BY <1>1, <1>9
  <2>2. after \in Messages \cup {0} /\ (~pass.refresh => after = 0)
    <3>1. Max(Candidates) \in Messages
      BY <1>3, <1>9, PageOf
    <3> QED
      BY <3>1
  <2>3. IsTexts(Selected) /\ DOMAIN Selected \subseteq Candidates
    <3>1. \A m \in DOMAIN Selected : m \in Eligible
      BY <1>3, <1>6, PageOf
    <3>2. \A m \in DOMAIN Selected : Selected[m] \in Texts /\ m \in Messages
      BY <1>6, <3>1 DEF Eligible
    <3> QED
      BY <1>6, <3>2 DEF IsTexts
  <2>4. Cardinality(DOMAIN Selected) <= pass.left
    <3>1. Cardinality(DOMAIN Selected) <= Cardinality(Candidates) /\ IsFiniteSet(DOMAIN Selected)
      BY <1>3, <2>3, PageOf, FS_Subset
    <3>2. Cardinality(DOMAIN Selected) \in Nat /\ Cardinality(Candidates) \in Nat
      BY <1>3, <3>1, PageOf, FS_CardinalityType
    <3> QED
      BY <1>3, <3>1, <3>2, PageOf DEF IsPass
  <2>5. /\ pc \in {"list", "append", "mark"} /\ (pc = "list" <=> DOMAIN Selected = {})
    OBVIOUS
  <2>6. ASSUME Undisturbed(pass.since), pass.refresh, NEW m \in Eligible \ DOMAIN Selected,
               m <= after
        PROVE  ~Stale(m)
    <3>1. m \in Nat /\ pass.after \in Nat
      BY <1>3, PageOf
    <3>2. CASE m <= pass.after
      BY <1>3, <1>4, <2>6, <3>2 DEF Seen
    <3>3. CASE ~(m <= pass.after)
      <4>1. m \in Unseen
        BY <2>6, <3>1, <3>3 DEF Unseen
      <4>2. after = Max(Candidates) /\ after \in Candidates /\ after \in Nat
        BY <1>3, <1>9, <2>6, PageOf
      <4>3. m \in Candidates
        <5>1. m = after \/ m < after
          BY <2>6, <3>1, <4>2
        <5> QED
          BY <1>3, <4>1, <4>2, <5>1, PageOf
      <4> QED
        BY <1>6, <4>3
    <3> QED
      BY <3>2, <3>3
  <2>7. \A m \in DOMAIN Selected : Selected[m] = corpus[m]
    BY <1>6
  <2> HIDE DEF after, pc
  <2>8. PICK batch : batch = Selected
    OBVIOUS
  <2>9. /\ IsPass(pass') /\ pass'.pc = pc /\ pass'.refresh = pass.refresh
        /\ pass'.after = after /\ pass'.batch = batch /\ pass'.since = pass.since
        /\ pass'.left = pass.left
    BY <1>3, <2>1, <2>2, <2>3, <2>5, <2>8 DEF IsPass
  <2>10. (Undisturbed(pass.since) => Seen)'
    <3> SUFFICES ASSUME Undisturbed(pass.since)' PROVE Seen'
      OBVIOUS
    <3>1. Undisturbed(pass.since)
      BY <1>1, <2>9 DEF Undisturbed, Quiet
    <3>2. /\ \A m \in DOMAIN batch : batch[m] = corpus[m]
          /\ pass.refresh => \A m \in Eligible \ DOMAIN batch : m <= after => ~Stale(m)
      BY <2>6, <2>7, <2>8, <3>1
    <3>3. corpus' = corpus /\ Eligible' = Eligible /\ \A m : Stale(m)' <=> Stale(m)
      BY <1>1 DEF Eligible, Stale
    <3> QED
      BY <2>5, <2>9, <3>2, <3>3 DEF Seen, Passing
  <2>11. PassInv'
    BY <1>1, <1>3, <1>4, <2>2, <2>4, <2>5, <2>8, <2>9, <2>10 DEF PassInv, Passing
  <2> QED
    BY <1>1, <1>2, <1>3, <2>9, <2>11, PassOnly
<1> QED
  BY <1>7, <1>8, <1>9

-----------------------------------------------------------------------------
(***************************************************************************)
(* Every step.                                                             *)
(***************************************************************************)
KeepsReady ==
  index.status = "ready" /\ index'.status = "ready" =>
    index'.docs = index.docs /\ ~files'[index.model].torn

BecomesReady ==
  index'.status = "ready" /\ index.status # "ready" =>
    [m \in DOMAIN index.docs |-> index.docs[m].text] = run.documents

CompletesPass ==
  config'.status = "ready" /\ config.status # "ready" /\ Undisturbed(pass.since) =>
    /\ Eligible \subseteq DOMAIN config.docs
    /\ pass.refresh => \A m \in Eligible : ~Stale(m)

Good == IInv' /\ KeepsReady /\ BecomesReady /\ CompletesPass

LEMMA SteadyStep ==
  ASSUME IInv', Steady, Unfinished
  PROVE  Good
<1>1. index'.status = "ready" => ~files'[index'.model].torn
  BY DEF IInv, IndexInv, File
<1> QED
  BY <1>1 DEF Good, KeepsReady, BecomesReady, CompletesPass, Steady, Unfinished

LEMMA Begins ==
  ASSUME Init
  PROVE  IInv
<1>1. /\ corpus = [m \in Messages |-> Absent] /\ imports = <<>> /\ importing = NotImporting
      /\ index = NoRow /\ config = NoRow /\ run = NoRun /\ pass = NoPass
      /\ files = [i \in Models |-> EmptyFile] /\ vectors = EmptyFile /\ use \in Uses
  BY DEF Init, StoreInit, IndexInit, EmbeddingInit
<1>2. StoreShape
  <2>1. imports \in Seq(Imported) /\ Len(imports) = 0
    BY <1>1
  <2> QED
    BY <1>1, <2>1, ImportsAssumption DEF StoreShape, NotImporting
<1>3. Shape
  BY <1>1, <1>2, NoneThere DEF Shape
<1>4. IndexInv /\ PassInv /\ ReadyCurrent
  BY <1>1, NoneThere DEF IndexInv, PassInv, ReadyCurrent, Running, Passing
<1> QED
  BY <1>3, <1>4 DEF IInv

LEMMA ImportingStep ==
  ASSUME IInv, Importing
  PROVE  Good
<1>1. ImportStep /\ UNCHANGED <<files, run, vectors, pass, use>>
  BY DEF Importing
<1>2. ASSUME NEW e \in Exports, NEW force \in BOOLEAN, BeginImport(e, force)
      PROVE  Good
  <2>1. Steady /\ Unfinished
    BY <1>2 DEF BeginImport, Steady, Unfinished
  <2> QED
    BY <1>1, <1>2, <2>1, BeginImportStep, SteadyStep
<1>3. CASE ImportConversation
  <2>1. Steady /\ Unfinished
    BY <1>3 DEF ImportConversation, Steady, Unfinished
  <2> QED
    BY <1>1, <1>3, <2>1, ImportConversationStep, SteadyStep
<1>4. CASE CompleteImport
  <2>1. IInv' /\ index'.status # "ready"
    BY <1>1, <1>4, CompleteImportStep
  <2>2. Steady /\ Unfinished
    BY <1>4, <2>1 DEF CompleteImport, Steady, Unfinished
  <2> QED
    BY <2>1, <2>2, SteadyStep
<1>5. CASE FailImport
  <2>1. Steady /\ Unfinished
    BY <1>5 DEF FailImport, tables, Steady, Unfinished
  <2> QED
    BY <1>1, <1>5, <2>1, FailImportStep, SteadyStep
<1> QED
  BY <1>1, <1>2, <1>3, <1>4, <1>5 DEF ImportStep

LEMMA IndexRunStep ==
  ASSUME IInv, IndexRun
  PROVE  Good
<1>1. IndexStep /\ Elsewhere
  BY DEF IndexRun, Elsewhere
<1>2. Unfinished
  BY <1>1 DEF IndexStep, DeleteIndex, RemoveFile, CreateIndex, Reconcile, Prune, OpenIndexFile,
              AppendDocuments, SaveDocuments, FinishIndex, tables, Unfinished
<1>3. CASE DeleteIndex
  BY <1>1, <1>2, <1>3, DeleteIndexStep, SteadyStep
<1>4. CASE RemoveFile
  BY <1>1, <1>2, <1>4, RemoveFileStep, SteadyStep
<1>5. CASE CreateIndex
  BY <1>1, <1>2, <1>5, CreateIndexStep, SteadyStep
<1>6. CASE Reconcile
  BY <1>1, <1>2, <1>6, ReconcileStep, SteadyStep
<1>7. CASE Prune
  BY <1>1, <1>2, <1>7, PruneStep, SteadyStep
<1>8. CASE OpenIndexFile
  BY <1>1, <1>2, <1>8, OpenIndexFileStep, SteadyStep
<1>9. CASE AppendDocuments
  BY <1>1, <1>2, <1>9, AppendDocumentsStep, SteadyStep
<1>10. CASE SaveDocuments
  BY <1>1, <1>2, <1>10, SaveDocumentsStep, SteadyStep
<1>11. CASE FinishIndex
  <2>1. /\ IInv' /\ index'.docs = index.docs /\ index'.model = index.model
        /\ index'.status = "ready" /\ index.status # "ready" =>
             [m \in DOMAIN index.docs |-> index.docs[m].text] = run.documents
    BY <1>1, <1>11, FinishIndexStep
  <2>2. index'.status = "ready" => ~files'[index'.model].torn
    BY <2>1 DEF IInv, IndexInv, File
  <2> QED
    BY <1>2, <2>1, <2>2 DEF Good, KeepsReady, BecomesReady, CompletesPass, Unfinished
<1> QED
  BY <1>1, <1>3, <1>4, <1>5, <1>6, <1>7, <1>8, <1>9, <1>10, <1>11 DEF IndexStep

LEMMA IndexCalledStep ==
  ASSUME IInv, IndexCalled
  PROVE  Good
<1>1. Elsewhere
  BY DEF IndexCalled, Elsewhere
<1>2. ASSUME NEW model \in Models, NEW rebuild \in BOOLEAN, NEW limit \in Limits,
             StartIndex(model, rebuild, limit)
      PROVE  Good
  <2>1. Unfinished
    BY <1>2 DEF StartIndex, tables, Unfinished
  <2> QED
    BY <1>1, <1>2, <2>1, StartIndexStep, SteadyStep
<1>3. CASE StopIndex
  <2>1. Unfinished
    BY <1>3 DEF StopIndex, tables, Unfinished
  <2> QED
    BY <1>1, <1>3, <2>1, StopIndexStep, SteadyStep
<1> QED
  BY <1>2, <1>3 DEF IndexCalled

LEMMA PassRunStep ==
  ASSUME IInv, PassRun
  PROVE  Good
<1>1. PassStep /\ UNCHANGED use
  BY DEF PassRun
<1>2. Steady
  BY <1>1 DEF PassStep, OpenVectors, ListCandidates, MarkBuilding, AppendVectors, SaveRecords,
              FinishPass, tables, Steady
<1>3. CASE OpenVectors
  BY <1>1, <1>2, <1>3, OpenVectorsStep, SteadyStep
<1>4. CASE ListCandidates
  BY <1>1, <1>2, <1>4, ListCandidatesStep, SteadyStep
<1>5. CASE MarkBuilding
  BY <1>1, <1>2, <1>5, MarkBuildingStep, SteadyStep
<1>6. CASE AppendVectors
  BY <1>1, <1>2, <1>6, AppendVectorsStep, SteadyStep
<1>7. CASE SaveRecords
  BY <1>1, <1>2, <1>7, SaveRecordsStep, SteadyStep
<1>8. CASE FinishPass
  <2>1. /\ IInv'
        /\ Undisturbed(pass.since) =>
             /\ Eligible \subseteq DOMAIN config.docs
             /\ pass.refresh => \A m \in Eligible : ~Stale(m)
    BY <1>1, <1>8, FinishPassStep
  <2>2. index'.status = "ready" => ~files'[index'.model].torn
    BY <2>1 DEF IInv, IndexInv, File
  <2> QED
    BY <1>2, <2>1, <2>2 DEF Good, KeepsReady, BecomesReady, CompletesPass, Steady
<1> QED
  BY <1>1, <1>3, <1>4, <1>5, <1>6, <1>7, <1>8 DEF PassStep

LEMMA PassCalledStep ==
  ASSUME IInv, PassCalled
  PROVE  Good
<1>1. UNCHANGED use
  BY DEF PassCalled
<1>2. ASSUME NEW refresh \in BOOLEAN, NEW limit \in Limits, StartPass(refresh, limit)
      PROVE  Good
  <2>1. Steady
    BY <1>2 DEF StartPass, Steady
  <2> QED
    BY <1>1, <1>2, <2>1, StartPassStep, SteadyStep
<1>3. CASE StopPass
  <2>1. Steady
    BY <1>3 DEF StopPass, tables, Steady
  <2> QED
    BY <1>1, <1>3, <2>1, StopPassStep, SteadyStep
<1>4. CASE Analyze
  <2>1. Steady
    BY <1>4 DEF Analyze, tables, Steady
  <2> QED
    BY <1>1, <1>4, <2>1, AnalyzeStep, SteadyStep
<1> QED
  BY <1>2, <1>3, <1>4 DEF PassCalled

LEMMA NextStep ==
  ASSUME IInv, [Next]_vars
  PROVE  Good
<1>1. CASE Importing
  BY <1>1, ImportingStep
<1>2. CASE IndexRun
  BY <1>2, IndexRunStep
<1>3. CASE IndexCalled
  BY <1>3, IndexCalledStep
<1>4. CASE PassRun
  BY <1>4, PassRunStep
<1>5. CASE PassCalled
  BY <1>5, PassCalledStep
<1>6. CASE Crash
  <2>1. Steady /\ Unfinished
    BY <1>6 DEF Crash, tables, Steady, Unfinished
  <2> QED
    BY <1>6, <2>1, CrashStep, SteadyStep
<1>7. CASE UNCHANGED vars
  <2>1. IndexInv' /\ ReadyCurrent' /\ Steady /\ Unfinished
    BY <1>7 DEF IInv, IndexInv, ReadyCurrent, File, Running, Kept, Gone, Aligned, Batch, Steady,
                Unfinished, vars
  <2>2. IInv'
    BY <1>7, <2>1, IndexFrame DEF IInv, Shape, vars
  <2> QED
    BY <2>1, <2>2, SteadyStep
<1> QED
  BY <1>1, <1>2, <1>3, <1>4, <1>5, <1>6, <1>7 DEF Next

LEMMA Invariance == Spec => []IInv
<1>1. Init => IInv
  BY Begins
<1>2. IInv /\ [Next]_vars => IInv'
  BY NextStep DEF Good
<1> QED
  BY <1>1, <1>2, PTL DEF Spec

-----------------------------------------------------------------------------
(* Every table, file and operation of the archive keeps its type.          *)
THEOREM ArchiveTyped == Spec => []TypeOK
<1>1. IInv => TypeOK
  <2> SUFFICES ASSUME IInv PROVE TypeOK
    OBVIOUS
  <2>1. Shape
    BY DEF IInv
  <2>2. StoreOK
    <3>1. imports \in Seq(Imported) /\ \A i \in DOMAIN imports : imports[i] \in Imported
      BY <2>1 DEF Shape, StoreShape
    <3> QED
      BY <2>1, <3>1 DEF Shape, StoreShape, StoreOK, Imported
  <2>3. IndexOK
    BY <2>1, NoneThere DEF Shape, IsIndex, IsDocs, IndexOK
  <2>4. ConfigOK
    BY <2>1, NoneThere DEF Shape, IsConfig, IsDocs, ConfigOK
  <2>5. RunOK
    BY <2>1, NoneThere DEF Shape, IsRun, IsTexts, RunOK
  <2>6. PassOK
    BY <2>1, NoneThere DEF Shape, IsPass, IsTexts, PassOK
  <2> QED
    BY <2>1, <2>2, <2>3, <2>4, <2>5, <2>6 DEF TypeOK, Shape, Files
<1> QED
  BY <1>1, Invariance, PTL

(* Every row that the index or the embeddings name is in the file of their  *)
(* own model, is the vector of the text they keep, and is named once, over  *)
(* every append, save, repair, error and crash.                             *)
THEOREM VectorsNamed == Spec => []VectorsMatch
<1>1. IInv => VectorsMatch
  BY DEF IInv, IndexInv, PassInv, VectorsMatch, File
<1> QED
  BY <1>1, Invariance, PTL

(* A run or a pass appends to a whole file that ends with the last row the  *)
(* database names, whatever the one before it left behind.                  *)
THEOREM ResumedCleanly == Spec => []ResumesCleanly
<1>1. IInv => ResumesCleanly
  BY DEF IInv, IndexInv, PassInv, ResumesCleanly, Aligned, Passing
<1> QED
  BY <1>1, Invariance, PTL

(* No import that completed after the run that made the index ready is      *)
(* hidden by it, unless the two were under way together.                    *)
THEOREM Current == Spec => []ReadyCurrent
<1>1. IInv => ReadyCurrent
  BY DEF IInv
<1> QED
  BY <1>1, Invariance, PTL

(* A ready index stays as a search may find it, documents and file, until   *)
(* it is marked building or deleted.                                        *)
THEOREM ScanSafe == Spec => ReadyStays
<1>1. IInv /\ [Next]_vars => KeepsReady
  BY NextStep DEF Good
<1> QED
  BY <1>1, Invariance, PTL DEF Spec, ReadyStays, KeepsReady

(* The index becomes ready with the documents of one reading of the         *)
(* archive: the ones the run that finishes has read, and no other.          *)
THEOREM OneSnapshot == Spec => ReadySnapshot
<1>1. IInv /\ [Next]_vars => BecomesReady
  BY NextStep DEF Good
<1> QED
  BY <1>1, Invariance, PTL DEF Spec, ReadySnapshot, BecomesReady

(* A pass without an import beside it marks the configuration ready only    *)
(* with every message embedded, and with its present text when it refreshes. *)
THEOREM AllEmbedded == Spec => ReadyComplete
<1>1. IInv /\ [Next]_vars => CompletesPass
  BY NextStep DEF Good
<1> QED
  BY <1>1, Invariance, PTL DEF Spec, ReadyComplete, CompletesPass
===============================================================================
