-------------------------- MODULE Algorithms_proofs --------------------------
(***************************************************************************)
(* Theorems about IntentClassification, Chunking and Queries, for inputs   *)
(* of every size.  What their folds and sums compute is proved by          *)
(* induction, in the form of Induct: a set of numbers that has 0 and with  *)
(* every number the next one has them all.                                 *)
(***************************************************************************)
EXTENDS MCAlgorithms, FiniteSetTheorems, TLAPS
-----------------------------------------------------------------------------
(***************************************************************************)
(* Numbers and finite sets.  That every set of naturals has a least one    *)
(* is the induction of the proofs below: a claim about all n is refuted    *)
(* at a least n, or nowhere.                                               *)
(***************************************************************************)
LEMMA Least ==
    ASSUME NEW S \in SUBSET Nat, S # {}
    PROVE  \E m \in S : \A k \in S : m <= k
<1> DEFINE R == OpToRel(<, Nat)
<1>1. IsWellFoundedOn(R, Nat)
  BY NatLessThanWellFounded
<1>2. \A x, y \in Nat : x < y => <<x, y>> \in R
  BY DEF OpToRel
<1> HIDE DEF R
<1>3. PICK x \in S : \A y \in S : ~ (<<y, x>> \in R)
  BY <1>1, WFMin
<1>4. \A y \in S : ~ (y < x)
  BY <1>2, <1>3, Zenon
<1>5. QED
  BY <1>4

LEMMA Induct ==
    ASSUME NEW S \in SUBSET Nat, 0 \in S, \A n \in S : n + 1 \in S
    PROVE  S = Nat
<1>1. SUFFICES ASSUME Nat \ S # {} PROVE FALSE
  OBVIOUS
<1>2. PICK m \in Nat \ S : \A k \in Nat \ S : m <= k
  BY <1>1, Least
<1>3. m - 1 \in S
  BY <1>2
<1>4. QED
  BY <1>2, <1>3

LEMMA MaxOfSet ==
    ASSUME NEW S \in SUBSET Int, IsFiniteSet(S), S # {}
    PROVE  Max(S) \in S /\ \A y \in S : y <= Max(S)
<1> DEFINE above(x) == {y \in S : y > x}
           counts == {Cardinality(above(x)) : x \in S}
<1>1. \A x \in S : IsFiniteSet(above(x)) /\ Cardinality(above(x)) \in Nat
  <2>1. TAKE x \in S
  <2>2. above(x) \in SUBSET S
    OBVIOUS
  <2>3. QED
    BY <2>2, FS_Subset, FS_CardinalityType
<1>2. counts \in SUBSET Nat /\ counts # {}
  BY <1>1
<1>3. PICK n \in counts : \A k \in counts : n <= k
  BY <1>2, Least
<1>4. PICK x \in S : n = Cardinality(above(x))
  BY <1>3
<1>5. ASSUME NEW y \in S, y > x
      PROVE  FALSE
  <2>1. \A z \in S : z > y => z > x
    BY <1>5
  <2>2. above(y) \in SUBSET above(x) /\ y \in above(x) /\ y \notin above(y)
    <3>1. ~ (y > y)
      OBVIOUS
    <3>2. QED
      BY <1>5, <2>1, <3>1, Zenon
  <2>3. Cardinality(above(y)) \in counts
    OBVIOUS
  <2> HIDE DEF above, counts
  <2>4. Cardinality(above(y)) <= Cardinality(above(x))
        /\ Cardinality(above(y)) # Cardinality(above(x))
    BY <1>1, <2>2, FS_Subset
  <2>5. QED
    BY <1>1, <1>3, <1>4, <2>3, <2>4
<1>6. \A y \in S : x >= y
  BY <1>5
<1>7. QED
  BY <1>6 DEF Max

LEMMA MinOfSet ==
    ASSUME NEW S \in SUBSET Int, IsFiniteSet(S), S # {}
    PROVE  Min(S) \in S /\ \A y \in S : Min(S) <= y
<1> DEFINE below(x) == {y \in S : y < x}
           counts == {Cardinality(below(x)) : x \in S}
<1>1. \A x \in S : IsFiniteSet(below(x)) /\ Cardinality(below(x)) \in Nat
  <2>1. TAKE x \in S
  <2>2. below(x) \in SUBSET S
    OBVIOUS
  <2>3. QED
    BY <2>2, FS_Subset, FS_CardinalityType
<1>2. counts \in SUBSET Nat /\ counts # {}
  BY <1>1
<1>3. PICK n \in counts : \A k \in counts : n <= k
  BY <1>2, Least
<1>4. PICK x \in S : n = Cardinality(below(x))
  BY <1>3
<1>5. ASSUME NEW y \in S, y < x
      PROVE  FALSE
  <2>1. \A z \in S : z < y => z < x
    BY <1>5
  <2>2. below(y) \in SUBSET below(x) /\ y \in below(x) /\ y \notin below(y)
    <3>1. ~ (y < y)
      OBVIOUS
    <3>2. QED
      BY <1>5, <2>1, <3>1, Zenon
  <2>3. Cardinality(below(y)) \in counts
    OBVIOUS
  <2> HIDE DEF below, counts
  <2>4. Cardinality(below(y)) <= Cardinality(below(x))
        /\ Cardinality(below(y)) # Cardinality(below(x))
    BY <1>1, <2>2, FS_Subset
  <2>5. QED
    BY <1>1, <1>3, <1>4, <2>3, <2>4
<1>6. \A y \in S : x =< y
  BY <1>5
<1>7. QED
  BY <1>6 DEF Min

\* FS_Image, of a function.
LEMMA FiniteImage ==
    ASSUME NEW S, IsFiniteSet(S), NEW f, DOMAIN f = S
    PROVE  IsFiniteSet({f[x] : x \in S}) /\ Cardinality({f[x] : x \in S}) <= Cardinality(S)
<1> DEFINE T == {f[x] : x \in S}
           g == [x \in S |-> f[x]]
<1>1. g \in [S -> T] /\ \A t \in T : \E s \in S : g[s] = t
  OBVIOUS
<1>2. g \in Surjection(S, T)
  BY <1>1 DEF Surjection
<1>3. QED
  BY <1>2, FS_Surjection

LEMMA ElementsOfSeq ==
    ASSUME NEW S, NEW s \in Seq(S)
    PROVE  /\ DOMAIN s = 1 .. Len(s) /\ Len(s) \in Nat
           /\ \A k \in 1 .. Len(s) : s[k] \in S
OBVIOUS

\* A numbering of n elements that numbers no two of them alike uses all of n numbers.
LEMMA OntoByCount ==
    ASSUME NEW S, IsFiniteSet(S), NEW r, r = [x \in S |-> r[x]],
           \A x \in S : r[x] \in 0 .. Cardinality(S) - 1,
           \A x, y \in S : r[x] = r[y] => x = y
    PROVE  \A k \in 0 .. Cardinality(S) - 1 : \E x \in S : r[x] = k
<1> DEFINE n == Cardinality(S)
<1>1. n \in Nat
  BY FS_CardinalityType
<1> HIDE DEF n
<1>2. r \in Injection(S, 0 .. n - 1)
  BY DEF Injection, IsInjective, n
<1>3. IsFiniteSet(0 .. n - 1) /\ Cardinality(0 .. n - 1) = n
  <2>1. /\ IsFiniteSet(0 .. n - 1)
        /\ Cardinality(0 .. n - 1) = IF 0 > n - 1 THEN 0 ELSE n - 1 - 0 + 1
    BY <1>1, FS_Interval
  <2>2. QED
    BY <1>1, <2>1
<1>4. r \in Surjection(S, 0 .. n - 1)
  BY <1>2, <1>3, FS_Injection DEF n
<1>5. QED
  BY <1>4 DEF Surjection, n

\* All strings.  (The provers do not know of the literals that they are some.)
Strings ==
    STRING \cup Words \cup ReplyTokens
        \cup {"TASK_CREATE", "TASK_SEARCH", "TODO_HELP", "DASHBOARD_QUERY", "OUT_OF_SCOPE"}
        \cup {"countTasks", "getDashboardStats", "a", ".", "n"}

-----------------------------------------------------------------------------
(***************************************************************************)
(* The intent of a query: guard, router, classifier.                       *)
(***************************************************************************)
LEMMA GuardRight ==
    ASSUME about = "message" => input \in Seq(Strings)
    PROVE  GuardNeverRefusesTodo
<1>1. SUFFICES ASSUME about = "message", input \in Seq(Strings)
      PROVE  /\ GuardCheck(input) = "OUT_OF_SCOPE" => \A k \in DOMAIN input : input[k] \notin TodoLike
             /\ GuardCheck(input) \in {"TASK_CREATE", "STANDUP_REPORT"} =>
                  \E k \in DOMAIN input :
                      input[k] \in CreateNouns \cup StandupReport \cup {"de xuat"}
  BY DEF GuardNeverRefusesTodo
<1>2. CASE AsksToCreate(input)
  <2>1. PICK k \in 1 .. Len(input) - 1 : input[k + 1] \in CreateNouns
    BY <1>2 DEF AsksToCreate
  <2>2. k + 1 \in DOMAIN input
    BY <1>1
  <2>3. GuardCheck(input) = "TASK_CREATE"
    BY <1>2 DEF GuardCheck
  <2>4. QED
    BY <2>1, <2>2, <2>3
<1>3. CASE ~ AsksToCreate(input) /\ AsksForReport(input)
  <2>1. \E k \in DOMAIN input : input[k] \in StandupReport \cup {"de xuat"}
    BY <1>3 DEF AsksForReport, Has, Before
  <2>2. GuardCheck(input) = "STANDUP_REPORT"
    BY <1>3 DEF GuardCheck
  <2>3. QED
    BY <2>1, <2>2
<1>4. CASE ~ AsksToCreate(input) /\ ~ AsksForReport(input)
  <2>1. GuardCheck(input) = "OUT_OF_SCOPE" => ~ Has(input, TodoLike)
    BY <1>4 DEF GuardCheck
  <2>2. GuardCheck(input) \in {"OUT_OF_SCOPE", "none"}
    BY <1>4 DEF GuardCheck
  <2>3. QED
    BY <2>1, <2>2 DEF Has
<1>5. QED
  BY <1>2, <1>3, <1>4

\* What the router asks of the scores is that of the examples themselves.
LEMMA RouterRight ==
    ASSUME about = "rows" => input \in Seq([intent : Strings, similarity : Int])
    PROVE  RouterDecidesClearly
<1> DEFINE Wins(j) == /\ input[j].similarity >= MinSimilarity
                      /\ \A k \in DOMAIN input : input[k].intent = input[j].intent
                             \/ input[j].similarity - input[k].similarity >= MinMargin
           Intents == {input[k].intent : k \in DOMAIN input}
           Of(t) == {l \in DOMAIN input : input[l].intent = t}
           Scores(t) == {input[k].similarity : k \in Of(t)}
           Score(t) == Max({0} \cup Scores(t))
           Others(t) == {Score(u) : u \in Intents \ {t}}
           Second(t) == Max({0} \cup Others(t))
           Clear == {t \in Intents : /\ Score(t) >= MinSimilarity
                                     /\ Score(t) - Second(t) >= MinMargin}
<1>1. SUFFICES ASSUME about = "rows", input \in Seq([intent : Strings, similarity : Int])
      PROVE  /\ \A j \in DOMAIN input : Wins(j) => DecideIntent(input) = input[j].intent
             /\ (\A j \in DOMAIN input : ~ Wins(j)) => DecideIntent(input) = "AMBIGUOUS"
  BY DEF RouterDecidesClearly
<1>2. DecideIntent(input) = IF Clear = {} THEN "AMBIGUOUS" ELSE CHOOSE t \in Clear : TRUE
  BY DEF DecideIntent
<1>3. IsFiniteSet(DOMAIN input) /\ \A k \in DOMAIN input : input[k].similarity \in Int
  <2>1. DOMAIN input = 1 .. Len(input) /\ Len(input) \in Int
    BY <1>1
  <2>2. IsFiniteSet(DOMAIN input)
    BY <2>1, FS_Interval
  <2>3. \A k \in 1 .. Len(input) : input[k] \in [intent : Strings, similarity : Int]
    <3>1. input \in Seq([intent : Strings, similarity : Int])
      BY <1>1
    <3>2. QED
      BY <3>1, ElementsOfSeq
  <2>4. QED
    BY <2>1, <2>2, <2>3
<1>4. \A t : /\ Score(t) \in {0} \cup Scores(t) /\ Score(t) \in Int
             /\ \A k \in Of(t) : input[k].similarity <= Score(t)
  <2>1. TAKE t
  <2>2. {0} \cup Scores(t) \in SUBSET Int /\ {0} \cup Scores(t) # {}
    BY <1>3
  <2>3. IsFiniteSet({0} \cup Scores(t))
    <3>1. Of(t) \in SUBSET DOMAIN input
      OBVIOUS
    <3>2. IsFiniteSet(Of(t))
      BY <1>3, <3>1, FS_Subset
    <3>3. IsFiniteSet(Scores(t))
      <4> DEFINE f == [k \in Of(t) |-> input[k].similarity]
      <4>1. Scores(t) = {f[k] : k \in Of(t)}
        OBVIOUS
      <4> HIDE DEF f
      <4>2. DOMAIN f = Of(t)
        BY DEF f
      <4>3. QED
        BY <3>2, <4>1, <4>2, FiniteImage
    <3>4. QED
      BY <3>3, FS_Union, FS_Singleton
  <2>4. /\ Score(t) \in {0} \cup Scores(t)
        /\ \A y \in {0} \cup Scores(t) : y <= Score(t)
    BY <2>2, <2>3, MaxOfSet
  <2>5. QED
    BY <2>2, <2>4
<1> HIDE DEF Score
<1>5. \A t : /\ Second(t) \in {0} \cup Others(t) /\ Second(t) \in Int
             /\ \A u \in Intents \ {t} : Score(u) <= Second(t)
  <2>1. TAKE t
  <2>2. {0} \cup Others(t) \in SUBSET Int /\ {0} \cup Others(t) # {}
    BY <1>4
  <2>3. IsFiniteSet(Intents)
    <3> DEFINE f == [k \in DOMAIN input |-> input[k].intent]
    <3>1. Intents = {f[k] : k \in DOMAIN input}
      OBVIOUS
    <3>2. DOMAIN f = DOMAIN input
      OBVIOUS
    <3> HIDE DEF f, Intents
    <3>3. QED
      BY <1>3, <3>1, <3>2, FiniteImage
  <2>4. IsFiniteSet(Others(t))
    <3> DEFINE S == Intents \ {t}
               f == [u \in S |-> Score(u)]
    <3>1. Others(t) = {f[u] : u \in S} /\ DOMAIN f = S
      OBVIOUS
    <3>2. S \in SUBSET Intents
      OBVIOUS
    <3> HIDE DEF f, S, Others, Intents
    <3>3. IsFiniteSet(S)
      BY <2>3, <3>2, FS_Subset
    <3>4. QED
      BY <3>1, <3>3, FiniteImage
  <2>5. IsFiniteSet({0} \cup Others(t))
    BY <2>4, FS_Union, FS_Singleton
  <2>6. /\ Second(t) \in {0} \cup Others(t)
        /\ \A y \in {0} \cup Others(t) : y <= Second(t)
    BY <2>2, <2>5, MaxOfSet
  <2>7. QED
    BY <2>2, <2>6
<1> HIDE DEF Second
<1>6. ASSUME NEW t \in Clear
      PROVE  \E j \in DOMAIN input : Wins(j) /\ input[j].intent = t
  <2>1. Score(t) >= 72 /\ Score(t) - Second(t) >= 5
    BY DEF MinSimilarity, MinMargin
  <2>2. PICK j \in Of(t) : input[j].similarity = Score(t)
    BY <1>4, <2>1
  <2>3. ASSUME NEW k \in DOMAIN input, input[k].intent # t
        PROVE  input[j].similarity - input[k].similarity >= 5
    <3>1. input[k].similarity <= Score(input[k].intent)
      BY <1>4
    <3>2. Score(input[k].intent) <= Second(t)
      BY <1>5, <2>3
    <3>3. QED
      BY <1>3, <1>4, <1>5, <2>1, <2>2, <3>1, <3>2
  <2>4. QED
    BY <2>1, <2>2, <2>3 DEF MinSimilarity, MinMargin
<1>7. ASSUME NEW j \in DOMAIN input, Wins(j)
      PROVE  Clear = {input[j].intent}
  <2> DEFINE t == input[j].intent
  <2>1. input[j].similarity >= 72 /\ input[j].similarity <= Score(t) /\ t \in Intents
    BY <1>4, <1>7 DEF MinSimilarity
  <2>2. \A k \in DOMAIN input :
            input[k].intent = t \/ input[j].similarity - input[k].similarity >= 5
    BY <1>7 DEF MinMargin
  <2>3. Score(t) - Second(t) >= 5
    <3>1. CASE Second(t) = 0
      BY <1>3, <1>4, <2>1, <3>1
    <3>2. CASE Second(t) # 0
      <4>1. PICK u \in Intents \ {t} : Second(t) = Score(u)
        BY <1>5, <3>2
      <4>2. PICK k \in Of(u) : Score(u) = input[k].similarity
        BY <1>4, <3>2, <4>1
      <4>3. input[j].similarity - input[k].similarity >= 5
        BY <2>2, <4>1, <4>2
      <4>4. QED
        BY <1>3, <1>4, <2>1, <4>1, <4>2, <4>3
    <3>3. QED
      BY <3>1, <3>2
  <2>4. t \in Clear
    <3>1. Score(t) >= 72
      BY <1>3, <1>4, <2>1
    <3>2. QED
      BY <2>1, <2>3, <3>1 DEF MinSimilarity, MinMargin
  <2>5. ASSUME NEW u \in Clear
        PROVE  u = t
    <3>1. PICK k \in DOMAIN input : Wins(k) /\ input[k].intent = u
      BY <1>6
    <3>2. SUFFICES ASSUME u # t PROVE FALSE
      OBVIOUS
    <3>3. input[j].similarity - input[k].similarity >= 5
      BY <2>2, <3>1, <3>2
    <3>4. input[k].similarity - input[j].similarity >= 5
      BY <3>1, <3>2 DEF MinMargin
    <3>5. QED
      BY <1>3, <3>3, <3>4
  <2> HIDE DEF Clear
  <2>6. QED
    BY <2>4, <2>5
<1>8. \A j \in DOMAIN input : Wins(j) => DecideIntent(input) = input[j].intent
  BY <1>2, <1>7
<1>9. (\A j \in DOMAIN input : ~ Wins(j)) => DecideIntent(input) = "AMBIGUOUS"
  <2>1. (\A j \in DOMAIN input : ~ Wins(j)) => Clear = {}
    BY <1>6
  <2> HIDE DEF Wins, Clear
  <2>2. QED
    BY <1>2, <2>1
<1>10. QED
  BY <1>8, <1>9

LEMMA CodeNeverSent ==
    ASSUME about = "answer" =>
               input \in [intent : Strings, text : [code : BOOLEAN, leak : BOOLEAN],
                          named : [code : BOOLEAN, leak : BOOLEAN],
                          calls : Seq([tool : Strings, failed : BOOLEAN])]
    PROVE  NoCodeAnswered
<1> DEFINE Of(tool) == SelectSeq(input.calls, LAMBDA call : call.tool = tool)
           Counted(tool) == Of(tool) # <<>> /\ ~ Last(Of(tool)).failed
           counted == IF Counted("countTasks") THEN "count"
                      ELSE IF Counted("getDashboardStats") THEN "stats" ELSE "apology"
           text == Text("model", input.text.code, input.text.leak)
           safe == BuildSafeAgentText(text, input.intent, input.calls, input.named)
           sent == Validate(safe, input.intent)
<1>1. SUFFICES ASSUME input \in [intent : Strings, text : [code : BOOLEAN, leak : BOOLEAN],
                                 named : [code : BOOLEAN, leak : BOOLEAN],
                                 calls : Seq([tool : Strings, failed : BOOLEAN])]
      PROVE  ~ sent.code /\ (sent.leak => input.named.leak /\ sent.by \in {"count", "stats"})
  BY DEF NoCodeAnswered
<1>2. safe = IF ~ text.leak THEN text
             ELSE IF input.intent = "DASHBOARD_QUERY" /\ counted # "apology"
                  THEN Text(counted, input.named.code, input.named.leak)
             ELSE Plain("apology")
  BY DEF BuildSafeAgentText
<1>3. counted \in {"count", "stats", "apology"}
  OBVIOUS
<1> HIDE DEF counted, safe
<1>4. /\ safe.code \in BOOLEAN /\ safe.leak \in BOOLEAN
      /\ safe.leak => input.named.leak /\ safe.by \in {"count", "stats"}
  BY <1>1, <1>2, <1>3 DEF Text, Plain
<1>5. QED
  BY <1>4 DEF Validate, Plain, Text

-----------------------------------------------------------------------------
(***************************************************************************)
(* The JSON object in a reply: what the scan knows after n tokens is what  *)
(* one sees who looks at all of them.                                      *)
(***************************************************************************)
ScanStart == [depth |-> 0, inString |-> FALSE, escaped |-> FALSE]
ScanOf(at, text, start, last) ==
    at = [k \in start - 1 .. last |-> IF k < start THEN ScanStart ELSE Scan(at[k - 1], text[k])]

LEMMA ScanExists ==
    ASSUME NEW text, NEW start \in Nat, NEW n \in Nat
    PROVE  \E at : ScanOf(at, text, start, start - 1 + n)
<1> DEFINE S == {m \in Nat : \E at : ScanOf(at, text, start, start - 1 + m)}
<1>1. 0 \in S
  <2> DEFINE at == [k \in start - 1 .. start - 1 |-> ScanStart]
  <2>1. at = [k \in start - 1 .. start - 1 + 0 |->
                 IF k < start THEN ScanStart ELSE Scan(at[k - 1], text[k])]
    OBVIOUS
  <2> HIDE DEF at
  <2>2. ScanOf(at, text, start, start - 1 + 0)
    BY <2>1, Zenon DEF ScanOf
  <2>3. QED
    BY <2>2
<1>2. ASSUME NEW m \in S
      PROVE  m + 1 \in S
  <2> DEFINE last == start - 1 + m
  <2>1. PICK at : ScanOf(at, text, start, last)
    OBVIOUS
  <2> DEFINE longer == [k \in start - 1 .. last + 1 |->
                          IF k = last + 1 THEN Scan(at[last], text[last + 1]) ELSE at[k]]
             again == [k \in start - 1 .. last + 1 |->
                          IF k < start THEN ScanStart ELSE Scan(longer[k - 1], text[k])]
  <2>2. last \in Int /\ last >= start - 1
    OBVIOUS
  <2> HIDE DEF last
  <2>3. ASSUME NEW k \in start - 1 .. last + 1
        PROVE  longer[k] = again[k]
    <3>1. CASE k = last + 1
      <4>1. k - 1 = last /\ last \in start - 1 .. last + 1 /\ last # last + 1
        BY <2>2, <3>1
      <4>2. longer[k - 1] = at[last]
        BY <4>1
      <4>3. ~ (k < start)
        BY <2>2, <3>1
      <4>4. QED
        BY <3>1, <4>2, <4>3
    <3>2. CASE k # last + 1
      <4>1. k \in start - 1 .. last
        BY <2>2, <3>2
      <4>2. at[k] = IF k < start THEN ScanStart ELSE Scan(at[k - 1], text[k])
        BY <2>1, <4>1 DEF ScanOf
      <4>3. ~ (k < start) => longer[k - 1] = at[k - 1]
        BY <2>2, <4>1
      <4>4. QED
        BY <3>2, <4>2, <4>3
    <3>3. QED
      BY <3>1, <3>2
  <2>4. longer = again
    BY <2>3
  <2>5. last + 1 = start - 1 + (m + 1)
    BY DEF last
  <2> HIDE DEF longer
  <2>6. ScanOf(longer, text, start, start - 1 + (m + 1))
    BY <2>4, <2>5, Zenon DEF ScanOf
  <2>7. m + 1 \in Nat
    OBVIOUS
  <2>8. QED
    BY <2>6, <2>7
<1>3. S \in SUBSET Nat
  OBVIOUS
<1> HIDE DEF S
<1>4. S = Nat
  BY <1>1, <1>2, <1>3, Induct
<1>5. QED
  BY <1>4 DEF S

LEMMA EscapesFacts ==
    ASSUME NEW text, NEW p \in Nat \ {0}
    PROVE  /\ Min(Escapes(text, p)) \in Escapes(text, p) /\ Min(Escapes(text, p)) \in Int
           /\ \A q \in Escapes(text, p) : Min(Escapes(text, p)) <= q
<1>1. Escapes(text, p) \in SUBSET (0 .. p - 1) /\ p - 1 \in Escapes(text, p)
  BY DEF Escapes
<1>2. IsFiniteSet(0 .. p - 1)
  BY FS_Interval
<1>3. IsFiniteSet(Escapes(text, p))
  BY <1>1, <1>2, FS_Subset
<1>4. Escapes(text, p) \in SUBSET Int /\ Escapes(text, p) # {}
  BY <1>1
<1>5. QED
  BY <1>3, <1>4, MinOfSet

LEMMA FirstNotEscaped == \A text : ~ Escaped(text, 1)
<1>1. TAKE text
<1>2. Min(Escapes(text, 1)) \in Escapes(text, 1)
  BY EscapesFacts
<1>3. Min(Escapes(text, 1)) = 0
  BY <1>2 DEF Escapes
<1>4. QED
  BY <1>3 DEF Escaped

LEMMA EscapedStep ==
    ASSUME NEW text, NEW n \in Nat \ {0}
    PROVE  Escaped(text, n + 1) <=> text[n] = "backslash" /\ ~ Escaped(text, n)
<1> DEFINE m == Min(Escapes(text, n))
           m1 == Min(Escapes(text, n + 1))
<1>1. /\ m \in Escapes(text, n) /\ m \in Int /\ \A q \in Escapes(text, n) : m <= q
      /\ m1 \in Escapes(text, n + 1) /\ m1 \in Int
      /\ \A q \in Escapes(text, n + 1) : m1 <= q
  <2>1. n + 1 \in Nat \ {0}
    OBVIOUS
  <2>2. QED
    BY <2>1, EscapesFacts
<1>2. n \in Escapes(text, n + 1)
  BY DEF Escapes
<1>3. CASE text[n] # "backslash"
  <2>1. Escapes(text, n + 1) = {n}
    <3>1. ASSUME NEW q \in Escapes(text, n + 1), q # n
          PROVE  FALSE
      <4>1. q \in 0 .. n /\ n \in q + 1 .. n
        BY <3>1 DEF Escapes
      <4>2. QED
        BY <1>3, <4>1 DEF Escapes
    <3>2. QED
      BY <1>2, <3>1
  <2>2. m1 = n
    BY <1>1, <2>1
  <2>3. ~ Escaped(text, n + 1)
    BY <2>2 DEF Escaped
  <2>4. QED
    BY <1>3, <2>3
<1>4. CASE text[n] = "backslash"
  <2>1. \A q : q \in Escapes(text, n) => q \in Escapes(text, n + 1)
    BY <1>4 DEF Escapes
  <2>2. \A q : q \in Escapes(text, n + 1) => q = n \/ q \in Escapes(text, n)
    BY DEF Escapes
  <2>3. n - 1 \in Escapes(text, n)
    BY DEF Escapes
  <2> HIDE DEF m, m1
  <2>4. m <= n - 1 /\ m1 <= m
    BY <1>1, <2>1, <2>3
  <2>5. m1 \in Escapes(text, n)
    BY <1>1, <2>2, <2>4
  <2>6. m1 = m
    BY <1>1, <2>4, <2>5
  <2>7. Escaped(text, n) <=> (n - 1 - m) % 2 = 1
    BY DEF Escaped, m
  <2>8. Escaped(text, n + 1) <=> ((n + 1) - 1 - m1) % 2 = 1
    BY DEF Escaped, m1
  <2>9. ((n + 1) - 1 - m1) % 2 = 1 <=> ~ ((n - 1 - m) % 2 = 1)
    BY <1>1, <2>6
  <2>10. QED
    BY <1>4, <2>7, <2>8, <2>9
<1>5. QED
  BY <1>3, <1>4

LEMMA QuotesStep ==
    ASSUME NEW text, NEW n \in Nat \ {0}
    PROVE  /\ Quotes(text, 1) = {}
           /\ IsFiniteSet(Quotes(text, n)) /\ Cardinality(Quotes(text, n)) \in Nat
           /\ Cardinality(Quotes(text, n + 1)) =
                  IF text[n] = "quote" /\ ~ Escaped(text, n)
                  THEN Cardinality(Quotes(text, n)) + 1 ELSE Cardinality(Quotes(text, n))
<1>1. Quotes(text, 1) = {}
  BY DEF Quotes
<1>2. IsFiniteSet(Quotes(text, n)) /\ Cardinality(Quotes(text, n)) \in Nat
  <2>1. Quotes(text, n) \in SUBSET (1 .. n - 1)
    BY DEF Quotes
  <2>2. IsFiniteSet(1 .. n - 1)
    BY FS_Interval
  <2>3. QED
    BY <2>1, <2>2, FS_Subset, FS_CardinalityType
<1>3. n \notin Quotes(text, n)
  BY DEF Quotes
<1>4. Quotes(text, n + 1) = IF text[n] = "quote" /\ ~ Escaped(text, n)
                            THEN Quotes(text, n) \cup {n} ELSE Quotes(text, n)
  BY DEF Quotes
<1>5. QED
  BY <1>1, <1>2, <1>3, <1>4, FS_AddElement

LEMMA DepthStep ==
    ASSUME NEW text, NEW n \in Nat
    PROVE  /\ Depth(text, 0) = 0 /\ Depth(text, n) \in Int
           /\ Depth(text, n + 1) = Depth(text, n) +
                  (IF Counts(text, n + 1, "open") THEN 1 ELSE 0) -
                  (IF Counts(text, n + 1, "close") THEN 1 ELSE 0)
<1> DEFINE C(k, t) == {p \in 1 .. k : Counts(text, p, t)}
<1>1. \A t : C(0, t) = {}
  OBVIOUS
<1>2. \A t : IsFiniteSet(C(n, t)) /\ Cardinality(C(n, t)) \in Nat /\ n + 1 \notin C(n, t)
  <2>1. TAKE t
  <2>2. C(n, t) \in SUBSET (1 .. n) /\ n + 1 \notin C(n, t)
    OBVIOUS
  <2>3. IsFiniteSet(1 .. n)
    BY FS_Interval
  <2>4. QED
    BY <2>2, <2>3, FS_Subset, FS_CardinalityType
<1>3. \A t : C(n + 1, t) = IF Counts(text, n + 1, t) THEN C(n, t) \cup {n + 1} ELSE C(n, t)
  OBVIOUS
<1> HIDE DEF C
<1>4. \A t : Cardinality(C(n + 1, t)) = Cardinality(C(n, t)) +
                 (IF Counts(text, n + 1, t) THEN 1 ELSE 0)
  <2>1. TAKE t
  <2>2. CASE Counts(text, n + 1, t)
    <3>1. Cardinality(C(n, t) \cup {n + 1}) = Cardinality(C(n, t)) + 1
      BY <1>2, FS_AddElement
    <3>2. QED
      BY <1>3, <2>2, <3>1
  <2>3. CASE ~ Counts(text, n + 1, t)
    <3>1. C(n + 1, t) = C(n, t)
      BY <1>3, <2>3
    <3>2. QED
      BY <1>2, <2>3, <3>1
  <2>4. QED
    BY <2>2, <2>3
<1>5. /\ Depth(text, n) = Cardinality(C(n, "open")) - Cardinality(C(n, "close"))
      /\ Depth(text, n + 1) = Cardinality(C(n + 1, "open")) - Cardinality(C(n + 1, "close"))
      /\ Depth(text, 0) = Cardinality(C(0, "open")) - Cardinality(C(0, "close"))
  BY DEF Depth, C
<1>6. Depth(text, 0) = 0
  BY <1>1, <1>5, FS_EmptySet
<1>7. QED
  BY <1>2, <1>4, <1>5, <1>6

\* What the scan knows after n tokens.
Seen(s, text, n) ==
    /\ s \in [depth : Int, inString : BOOLEAN, escaped : BOOLEAN]
    /\ s.depth = Depth(text, n)
    /\ s.escaped <=> Escaped(text, n + 1)
    /\ s.inString <=> Cardinality(Quotes(text, n + 1)) % 2 = 1

LEMMA SeenStart == \A text : Seen(ScanStart, text, 0)
<1>1. TAKE text
<1>2. Depth(text, 0) = 0
  BY DepthStep
<1>3. ~ Escaped(text, 0 + 1)
  BY FirstNotEscaped
<1>4. Cardinality(Quotes(text, 0 + 1)) = 0
  <2>1. Quotes(text, 1) = {}
    BY QuotesStep
  <2>2. QED
    BY <2>1, FS_EmptySet
<1>5. QED
  BY <1>2, <1>3, <1>4 DEF Seen, ScanStart

LEMMA SeenStep ==
    ASSUME NEW text, NEW n \in Nat, NEW s, Seen(s, text, n)
    PROVE  Seen(Scan(s, text[n + 1]), text, n + 1)
<1> DEFINE m == n + 1
           token == text[m]
           c == Cardinality(Quotes(text, m))
           t == Scan(s, token)
<1>1. m \in Nat \ {0}
  OBVIOUS
<1>2. /\ s \in [depth : Int, inString : BOOLEAN, escaped : BOOLEAN]
      /\ s.depth = Depth(text, n)
      /\ s.escaped <=> Escaped(text, m)
      /\ s.inString <=> c % 2 = 1
  BY DEF Seen
<1>3. Escaped(text, m + 1) <=> token = "backslash" /\ ~ s.escaped
  BY <1>1, <1>2, EscapedStep
<1>4. c \in Nat /\ Cardinality(Quotes(text, m + 1)) =
                       IF token = "quote" /\ ~ s.escaped THEN c + 1 ELSE c
  BY <1>1, <1>2, QuotesStep
<1>5. \A brace : Counts(text, m, brace) <=> token = brace /\ ~ s.escaped /\ ~ s.inString
  <2>1. c % 2 = 0 <=> ~ (c % 2 = 1)
    BY <1>4
  <2>2. QED
    BY <1>2, <2>1, Zenon DEF Counts
<1>6. Depth(text, m) = s.depth + (IF Counts(text, m, "open") THEN 1 ELSE 0) -
                           (IF Counts(text, m, "close") THEN 1 ELSE 0)
  BY <1>2, DepthStep
<1>7. t = IF s.escaped THEN [s EXCEPT !.escaped = FALSE]
          ELSE IF token = "backslash" THEN [s EXCEPT !.escaped = TRUE]
          ELSE IF token = "quote" THEN [s EXCEPT !.inString = ~ s.inString]
          ELSE IF s.inString THEN s
          ELSE IF token = "open" THEN [s EXCEPT !.depth = s.depth + 1]
          ELSE IF token = "close" THEN [s EXCEPT !.depth = s.depth - 1]
          ELSE s
  BY DEF Scan
<1> HIDE DEF m, token, c, t
<1>8. t \in [depth : Int, inString : BOOLEAN, escaped : BOOLEAN]
  <2> DEFINE R == [depth : Int, inString : BOOLEAN, escaped : BOOLEAN]
  <2>1. s \in R /\ s.depth + 1 \in Int /\ s.depth - 1 \in Int /\ (~ s.inString) \in BOOLEAN
    BY <1>2
  <2>2. /\ [s EXCEPT !.escaped = FALSE] \in R /\ [s EXCEPT !.escaped = TRUE] \in R
        /\ [s EXCEPT !.inString = ~ s.inString] \in R
    BY <2>1
  <2>3. [s EXCEPT !.depth = s.depth + 1] \in R /\ [s EXCEPT !.depth = s.depth - 1] \in R
    BY <2>1
  <2> HIDE DEF R
  <2>4. t \in R
    BY <1>7, <2>1, <2>2, <2>3
  <2>5. QED
    BY <2>4 DEF R
<1>9. t.escaped <=> Escaped(text, m + 1)
  BY <1>2, <1>3, <1>7
<1>10. t.inString <=> Cardinality(Quotes(text, m + 1)) % 2 = 1
  <2>1. (c + 1) % 2 = 1 <=> ~ (c % 2 = 1)
    BY <1>4
  <2>2. t.inString <=> (IF token = "quote" /\ ~ s.escaped THEN ~ s.inString ELSE s.inString)
    BY <1>2, <1>7
  <2>3. QED
    BY <1>2, <1>4, <2>1, <2>2
<1>11. t.depth = Depth(text, m)
  <2>1. CASE s.escaped \/ s.inString
    <3>1. Depth(text, m) = s.depth
      BY <1>2, <1>5, <1>6, <2>1
    <3>2. t.depth = s.depth
      BY <1>2, <1>7, <2>1
    <3>3. QED
      BY <3>1, <3>2
  <2>2. CASE ~ s.escaped /\ ~ s.inString
    <3>1. Depth(text, m) = s.depth + (IF token = "open" THEN 1 ELSE 0) -
                               (IF token = "close" THEN 1 ELSE 0)
      BY <1>5, <1>6, <2>2
    <3>2. t.depth = s.depth + (IF token = "open" THEN 1 ELSE 0) -
                        (IF token = "close" THEN 1 ELSE 0)
      BY <1>2, <1>7, <2>2
    <3>3. QED
      BY <3>1, <3>2
  <2>3. QED
    BY <2>1, <2>2
<1>12. Seen(t, text, m)
  BY <1>8, <1>9, <1>10, <1>11, Zenon DEF Seen
<1>13. QED
  BY <1>12 DEF t, token, m

LEMMA ScanSees ==
    ASSUME NEW text, NEW start \in Nat \ {0}, NEW last \in Nat, NEW at,
           ScanOf(at, text, start, last), NEW found, NEW N \in Nat, start - 1 + N <= last,
           \A n \in 1 .. N : found[n] = text[start - 1 + n]
    PROVE  \A n \in 0 .. N : Seen(at[start - 1 + n], found, n)
<1> DEFINE S == {n \in Nat : n <= N => Seen(at[start - 1 + n], found, n)}
<1>1. \A k \in start - 1 .. last :
          at[k] = IF k < start THEN ScanStart ELSE Scan(at[k - 1], text[k])
  BY DEF ScanOf
<1>2. 0 \in S
  <2>1. start - 1 + 0 \in start - 1 .. last /\ start - 1 + 0 < start
    OBVIOUS
  <2>2. at[start - 1 + 0] = ScanStart
    BY <1>1, <2>1
  <2>3. Seen(at[start - 1 + 0], found, 0)
    BY <2>2, SeenStart
  <2>4. QED
    BY <2>3
<1>3. ASSUME NEW n \in S
      PROVE  n + 1 \in S
  <2>1. SUFFICES ASSUME n + 1 <= N
                 PROVE  Seen(at[start - 1 + (n + 1)], found, n + 1)
    OBVIOUS
  <2>2. n \in Nat /\ Seen(at[start - 1 + n], found, n)
    BY <2>1
  <2> DEFINE k == start - 1 + (n + 1)
  <2>3. k \in start - 1 .. last /\ ~ (k < start) /\ k - 1 = start - 1 + n
    BY <2>1, <2>2
  <2>4. at[k] = Scan(at[k - 1], text[k])
    BY <1>1, <2>3
  <2>5. found[n + 1] = text[k]
    BY <2>1, <2>2
  <2> HIDE DEF k
  <2>6. at[k] = Scan(at[start - 1 + n], found[n + 1])
    BY <2>3, <2>4, <2>5
  <2>7. Seen(at[k], found, n + 1)
    BY <2>2, <2>6, SeenStep
  <2>8. QED
    BY <2>7 DEF k
<1>4. S \in SUBSET Nat
  OBVIOUS
<1> HIDE DEF S
<1>5. S = Nat
  BY <1>2, <1>3, <1>4, Induct
<1>6. QED
  BY <1>5 DEF S

LEMMA JsonRight ==
    ASSUME about = "reply" => input \in Seq(Strings)
    PROVE  JsonFound
<1> DEFINE text == input
           Opened == {k \in DOMAIN text : text[k] = "open"}
           start == Min(Opened)
           at[k \in start - 1 .. Len(text)] ==
               IF k < start THEN [depth |-> 0, inString |-> FALSE, escaped |-> FALSE]
               ELSE Scan(at[k - 1], text[k])
           Ends == {k \in start .. Len(text) : at[k].depth = 0}
           end == Min(Ends)
           found == ExtractFirstJsonObject(text)
           N == end - start + 1
<1>1. SUFFICES ASSUME text \in Seq(Strings), "fence" \notin ToSet(text), JsonCandidate(text) # <<>>
      PROVE  LET cut == JsonCandidate(text)
             IN /\ \A n \in 1 .. Len(cut) - 1 : Depth(cut, n) > 0
                /\ Depth(cut, Len(cut)) = 0
                /\ \E first \in DOMAIN text :
                     /\ \A p \in 1 .. first - 1 : text[p] # "open"
                     /\ SubSeq(text, first, first + Len(cut) - 1) = cut
  BY DEF JsonFound
<1>2. DOMAIN text = 1 .. Len(text) /\ Len(text) \in Nat
  BY <1>1
<1>3. JsonCandidate(text) = found
  <2>1. {k \in DOMAIN text : text[k] = "fence"} = {}
    BY <1>1 DEF ToSet
  <2>2. ~ (Cardinality({k \in DOMAIN text : text[k] = "fence"}) > 1)
    BY <2>1, FS_EmptySet
  <2>3. QED
    BY <2>2 DEF JsonCandidate
<1>4. found = IF Opened = {} THEN <<>> ELSE IF Ends = {} THEN <<>> ELSE SubSeq(text, start, end)
  BY DEF ExtractFirstJsonObject
<1> HIDE DEF found
<1>5. Opened # {} /\ Ends # {} /\ found = SubSeq(text, start, end)
  BY <1>1, <1>3, <1>4
<1>6. start \in Opened /\ (\A k \in Opened : start <= k) /\ start \in 1 .. Len(text)
  <2>1. Opened \in SUBSET (1 .. Len(text)) /\ Opened \in SUBSET Int
    BY <1>2
  <2>2. IsFiniteSet(1 .. Len(text))
    BY <1>2, FS_Interval
  <2> HIDE DEF Opened
  <2>3. IsFiniteSet(Opened)
    BY <2>1, <2>2, FS_Subset
  <2>4. start \in Opened /\ \A k \in Opened : start <= k
    BY <1>5, <2>1, <2>3, MinOfSet
  <2>5. QED
    BY <2>1, <2>4
<1> HIDE DEF start
<1>7. start \in Nat \ {0} /\ start <= Len(text)
  BY <1>2, <1>6
<1>8. ScanOf(at, text, start, Len(text))
  <2>1. Len(text) - start + 1 \in Nat /\ start - 1 + (Len(text) - start + 1) = Len(text)
    BY <1>2, <1>7
  <2>2. \E f : ScanOf(f, text, start, Len(text))
    BY <1>7, <2>1, ScanExists
  <2>3. \E f : f = [k \in start - 1 .. Len(text) |->
                      IF k < start THEN [depth |-> 0, inString |-> FALSE, escaped |-> FALSE]
                      ELSE Scan(f[k - 1], text[k])]
    BY <2>2 DEF ScanOf, ScanStart
  <2>4. at = [k \in start - 1 .. Len(text) |->
                      IF k < start THEN [depth |-> 0, inString |-> FALSE, escaped |-> FALSE]
                      ELSE Scan(at[k - 1], text[k])]
    BY <2>3
  <2> HIDE DEF at
  <2>5. QED
    BY <2>4 DEF ScanOf, ScanStart
<1> HIDE DEF at
<1>9. end \in Ends /\ \A k \in Ends : end <= k
  <2>1. Ends \in SUBSET (start .. Len(text)) /\ Ends \in SUBSET Int
    OBVIOUS
  <2>2. IsFiniteSet(start .. Len(text))
    BY <1>2, <1>7, FS_Interval
  <2>3. IsFiniteSet(Ends)
    BY <2>1, <2>2, FS_Subset
  <2>4. QED
    BY <1>5, <2>1, <2>3, MinOfSet
<1> HIDE DEF end
<1>10. /\ end \in Int /\ start <= end /\ end <= Len(text) /\ at[end].depth = 0
       /\ \A k \in start .. end - 1 : at[k].depth # 0
  <2>1. end \in start .. Len(text) /\ at[end].depth = 0
    BY <1>9
  <2>2. ASSUME NEW k \in start .. end - 1
        PROVE  at[k].depth # 0
    <3>1. k \in start .. Len(text) /\ ~ (end <= k)
      BY <1>2, <1>7, <2>1
    <3>2. QED
      BY <1>9, <3>1
  <2>3. QED
    BY <1>2, <1>7, <2>1, <2>2
<1> HIDE DEF Ends
<1>11. N \in Nat \ {0} /\ start - 1 + N = end
  BY <1>7, <1>10
<1>12. Len(found) = N /\ \A n \in 1 .. N : found[n] = text[start - 1 + n]
  <2>1. start \in 1 .. Len(text) + 1 /\ end \in start - 1 .. Len(text)
    BY <1>2, <1>7, <1>10
  <2>2. /\ Len(SubSeq(text, start, end)) = IF start <= end THEN end - start + 1 ELSE 0
        /\ \A i \in 1 .. end - start + 1 : SubSeq(text, start, end)[i] = text[start + i - 1]
    BY <1>1, <1>2, <2>1
  <2>3. \A n \in 1 .. N : start + n - 1 = start - 1 + n
    BY <1>7, <1>11
  <2>4. QED
    BY <1>5, <1>10, <2>2, <2>3
<1> HIDE DEF N, Opened
<1>13. \A n \in 0 .. N : Seen(at[start - 1 + n], found, n)
  <2>1. N \in Nat /\ Len(text) \in Nat /\ start - 1 + N <= Len(text)
    BY <1>2, <1>10, <1>11
  <2>2. \A n \in 1 .. N : found[n] = text[start - 1 + n]
    BY <1>12
  <2> HIDE DEF text
  <2>3. QED
    BY <1>7, <1>8, <2>1, <2>2, ScanSees
<1>14. \A n \in 0 .. N : Depth(found, n) = at[start - 1 + n].depth
  BY <1>13 DEF Seen
<1>15. Depth(found, N) = 0
  BY <1>10, <1>11, <1>14
<1>16. \A n \in 1 .. N - 1 : Depth(found, n) # 0
  <2>1. TAKE n \in 1 .. N - 1
  <2>2. n \in 0 .. N /\ start - 1 + n \in start .. end - 1
    BY <1>7, <1>10, <1>11
  <2>3. QED
    BY <1>10, <1>14, <2>2
<1>17. Depth(found, 1) = 1
  <2>1. found[1] = "open"
    <3>1. found[1] = text[start]
      BY <1>7, <1>11, <1>12
    <3>2. QED
      BY <1>6, <3>1 DEF Opened
  <2>2. ~ Escaped(found, 1) /\ Cardinality(Quotes(found, 1)) = 0
    BY FirstNotEscaped, QuotesStep, FS_EmptySet
  <2>3. Counts(found, 1, "open") /\ ~ Counts(found, 1, "close")
    BY <2>1, <2>2 DEF Counts
  <2>4. Depth(found, 0) = 0 /\ Depth(found, 0 + 1) = Depth(found, 0) +
            (IF Counts(found, 0 + 1, "open") THEN 1 ELSE 0) -
            (IF Counts(found, 0 + 1, "close") THEN 1 ELSE 0)
    BY DepthStep
  <2>5. QED
    BY <2>3, <2>4
<1>18. \A n \in 1 .. N - 1 : Depth(found, n) > 0
  <2> DEFINE S == {n \in Nat : n + 1 <= N - 1 => Depth(found, n + 1) > 0}
  <2>1. 0 \in S
    BY <1>17
  <2>2. ASSUME NEW n \in S
        PROVE  n + 1 \in S
    <3>1. SUFFICES ASSUME n + 1 + 1 <= N - 1
                   PROVE  Depth(found, n + 1 + 1) > 0
      OBVIOUS
    <3>2. n \in Nat /\ n + 1 \in Nat /\ Depth(found, n + 1) > 0
      BY <1>11, <3>1
    <3>3. /\ Depth(found, n + 1) \in Int
          /\ Depth(found, n + 1 + 1) = Depth(found, n + 1) +
                 (IF Counts(found, n + 1 + 1, "open") THEN 1 ELSE 0) -
                 (IF Counts(found, n + 1 + 1, "close") THEN 1 ELSE 0)
      BY <3>2, DepthStep
    <3>4. Depth(found, n + 1 + 1) # 0
      <4>1. n + 1 + 1 \in 1 .. N - 1
        BY <1>11, <3>1, <3>2
      <4>2. QED
        BY <1>16, <4>1
    <3>5. QED
      BY <3>2, <3>3, <3>4
  <2>3. S \in SUBSET Nat
    OBVIOUS
  <2> HIDE DEF S
  <2>4. S = Nat
    BY <2>1, <2>2, <2>3, Induct
  <2>5. TAKE n \in 1 .. N - 1
  <2>6. n - 1 \in S /\ n - 1 + 1 = n
    BY <1>11, <2>4
  <2>7. QED
    BY <2>6 DEF S
<1>19. start \in DOMAIN text /\ \A p \in 1 .. start - 1 : text[p] # "open"
  <2>1. ASSUME NEW p \in 1 .. start - 1
        PROVE  text[p] # "open"
    <3>1. p \in DOMAIN text /\ ~ (start <= p)
      BY <1>2, <1>7
    <3>2. QED
      BY <1>6, <3>1 DEF Opened
  <2>2. QED
    BY <1>2, <1>6, <2>1
<1>20. SubSeq(text, start, start + Len(found) - 1) = found
  <2>1. start + Len(found) - 1 = end
    BY <1>7, <1>10, <1>11, <1>12
  <2>2. QED
    BY <1>5, <2>1
<1>21. QED
  BY <1>3, <1>12, <1>15, <1>18, <1>19, <1>20

-----------------------------------------------------------------------------
(***************************************************************************)
(* Who may see a todo.                                                     *)
(***************************************************************************)
LEMMA AccessRight ==
    ASSUME about = "world" => input \in World
    PROVE  AccessAgrees
<1> DEFINE w == input
<1>1. CASE about # "world"
  BY <1>1 DEF AccessAgrees, ReadersFind, ListedAsEnforced, ReadersAreAssignable
<1>2. CASE about = "world"
  <2>1. /\ w.live \in BOOLEAN /\ w.creator \in BOOLEAN /\ w.owner \in BOOLEAN
        /\ w.member \in Permissions \cup {None}
        /\ w.workspaceMember \in Permissions \cup {None}
        /\ w.workspace \in {"none", "live", "deleted"}
    BY <1>2 DEF World
  <2>2. None \notin Permissions
    BY QueriesAssumption
  <2> HIDE DEF w
  <2> DEFINE reads == \/ w.workspace = "live" /\ (w.owner \/ w.workspaceMember # None)
                      \/ w.workspace = "none" /\ (w.creator \/ w.member # None)
             collaborates == w.live /\ w.workspace # "none" /\ (w.creator \/ w.member # None)
             owns == \/ w.workspace = "live" /\ w.owner
                     \/ w.workspace = "none" /\ w.creator
  <2>3. ProjectAccess(w) =
          IF ~ (w.live /\ reads) THEN NotFound
          ELSE IF owns THEN Owned
          ELSE Access(FALSE, IF w.workspace = "live" THEN w.workspaceMember ELSE w.member)
    BY <2>1, <2>2 DEF ProjectAccess, WorkspaceAccess, NotFound, Access
  <2>4. CanRead(ProjectAccess(w)) <=> w.live /\ reads
    BY <2>1, <2>2, <2>3 DEF CanRead, NotFound, Access, Owned
  <2>5. ProjectAccess(w).isOwner <=> w.live /\ owns
    BY <2>3 DEF NotFound, Access, Owned
  <2>6. /\ Reaches(w) <=> (w.live /\ reads) \/ collaborates
        /\ Listed(w, TRUE) <=> (w.live /\ reads) \/ collaborates
        /\ Listed(w, FALSE) <=> \/ Listed(w, TRUE) /\ (w.creator \/ w.member # None)
                                \/ w.live /\ owns
    BY <2>1 DEF Reaches, Listed
  <2>7. ReadersFind
    BY <2>4, <2>5, <2>6 DEF w, ReadersFind, Reads, Collaborates
  <2>8. CanRead(ProjectAccess(w)) => ListedAccess(w) = ProjectAccess(w)
    BY <2>1, <2>3, <2>4 DEF ListedAccess, Given
  <2>9. IF ListedWorkspace(w) THEN ListedWorkspaceAccess(w) = WorkspaceAccess(w)
        ELSE ~ CanRead(WorkspaceAccess(w))
    BY <2>1, <2>2 DEF ListedWorkspace, ListedWorkspaceAccess, WorkspaceAccess, CanRead, Given,
        NotFound, Access
  <2>10. ListedAsEnforced
    BY <2>8, <2>9 DEF w, ListedAsEnforced, Reads
  <2>11. Assignable(w) <=>
           \/ /\ w.live /\ reads
              /\ ~ (/\ w.workspace = "live" /\ w.owner
                    /\ ~ w.creator /\ w.member = None /\ w.workspaceMember = None)
           \/ collaborates
           \/ w.live /\ w.workspace = "deleted" /\ w.workspaceMember # None
    BY <2>1 DEF Assignable
  <2>12. ReadersAreAssignable
    BY <2>4, <2>11 DEF w, ReadersAreAssignable, Reads, Collaborates
  <2>13. QED
    BY <2>7, <2>10, <2>12 DEF AccessAgrees
<1>3. QED
  BY <1>1, <1>2

-----------------------------------------------------------------------------
(***************************************************************************)
(* What is counted, found, shown, paged and put in last place.             *)
(***************************************************************************)
SumOf(f, S) == MapThenSumSet(LAMBDA x : f[x], S)

AddsUp(f, total, S) == \A s \in SUBSET S : \A x \in s : total[s] = f[x] + total[s \ {x}]

\* A sum over a set, if it is known of every part of the set what it must be.
LEMMA SumIs ==
    ASSUME NEW S, IsFiniteSet(S), NEW f, NEW total \in [SUBSET S -> Nat],
           total[{}] = 0, AddsUp(f, total, S)
    PROVE  SumOf(f, S) = total[S]
<1> DEFINE iter[s \in SUBSET S] ==
               IF s = {} THEN 0 ELSE LET x == CHOOSE x \in s : TRUE IN f[x] + iter[s \ {x}]
           Agree == {n \in Nat : \A s \in SUBSET S : Cardinality(s) = n => iter[s] = total[s]}
<1>1. \A s \in SUBSET S : \A x \in s : total[s] = f[x] + total[s \ {x}]
  BY DEF AddsUp
<1>2. SumOf(f, S) = iter[S]
  BY DEF SumOf, MapThenSumSet, MapThenFoldSet
<1>3. iter = [s \in SUBSET S |->
                  IF s = {} THEN 0 ELSE LET x == CHOOSE x \in s : TRUE IN f[x] + iter[s \ {x}]]
  <2> DEFINE again == [s \in SUBSET S |->
                  IF s = {} THEN 0 ELSE LET x == CHOOSE x \in s : TRUE IN f[x] + total[s \ {x}]]
  <2>1. ASSUME NEW s \in SUBSET S
        PROVE  total[s] = again[s]
    <3>1. CASE s = {}
      BY <3>1
    <3>2. CASE s # {}
      <4> DEFINE x == CHOOSE x \in s : TRUE
      <4>1. x \in s
        BY <3>2
      <4> HIDE DEF x
      <4>2. total[s] = f[x] + total[s \ {x}]
        BY <1>1, <4>1
      <4>3. QED
        BY <3>2, <4>2 DEF x
    <3>3. QED
      BY <3>1, <3>2
  <2>2. total = again
    BY <2>1
  <2>3. \E g : g = [s \in SUBSET S |->
                  IF s = {} THEN 0 ELSE LET x == CHOOSE x \in s : TRUE IN f[x] + g[s \ {x}]]
    BY <2>2
  <2>4. QED
    BY <2>3
<1> HIDE DEF iter
<1>4. 0 \in Agree
  <2>1. ASSUME NEW s \in SUBSET S, Cardinality(s) = 0
        PROVE  iter[s] = total[s]
    <3>1. IsFiniteSet(s)
      BY FS_Subset
    <3>2. s = {}
      BY <2>1, <3>1, FS_EmptySet
    <3>3. QED
      BY <1>3, <3>2
  <2>2. QED
    BY <2>1
<1>5. ASSUME NEW n \in Agree
      PROVE  n + 1 \in Agree
  <2>1. ASSUME NEW s \in SUBSET S, Cardinality(s) = n + 1
        PROVE  iter[s] = total[s]
    <3> DEFINE x == CHOOSE x \in s : TRUE
    <3>1. IsFiniteSet(s)
      BY FS_Subset
    <3>2. s # {}
      BY <2>1, <3>1, FS_EmptySet
    <3>3. x \in s
      BY <3>2
    <3>4. iter[s] = f[x] + iter[s \ {x}]
      BY <1>3, <3>2
    <3> HIDE DEF x
    <3>5. Cardinality(s \ {x}) = Cardinality(s) - 1
      BY <3>1, <3>3, FS_RemoveElement
    <3>6. iter[s \ {x}] = total[s \ {x}]
      <4>1. n \in Nat /\ \A r \in SUBSET S : Cardinality(r) = n => iter[r] = total[r]
        OBVIOUS
      <4>2. Cardinality(s \ {x}) = n /\ s \ {x} \in SUBSET S
        BY <2>1, <3>5, <4>1
      <4>3. QED
        BY <4>1, <4>2
    <3>7. QED
      BY <1>1, <3>3, <3>4, <3>6
  <2>2. QED
    BY <2>1
<1>6. Agree \in SUBSET Nat
  OBVIOUS
<1> HIDE DEF Agree
<1>7. Agree = Nat
  BY <1>4, <1>5, <1>6, Induct
<1>8. Cardinality(S) \in Agree
  BY <1>7, FS_CardinalityType
<1>9. iter[S] = total[S]
  BY <1>8 DEF Agree
<1>10. QED
  BY <1>2, <1>9 DEF iter

-----------------------------------------------------------------------------
\* Todos of a board: any finite set of rows that were saved one after the other.
Board(todos) ==
    /\ IsFiniteSet(todos)
    /\ \A t \in todos : /\ t.archived \in BOOLEAN /\ t.deleted \in BOOLEAN
                         /\ t.due \in {None} \cup Int /\ t.position \in Int
                         /\ t.updated \in Nat /\ t.status # None
    /\ \A t, u \in todos : t.updated = u.updated => t = u

LEMMA PartsOfBoard ==
    ASSUME NEW todos, IsFiniteSet(todos), NEW part, part \in SUBSET todos
    PROVE  IsFiniteSet(part) /\ Cardinality(part) \in Nat
BY FS_Subset, FS_CardinalityType

LEMMA GroupsAdd ==
    ASSUME NEW found, IsFiniteSet(found)
    PROVE  LET keys == {DueGroup(t) : t \in found}
               groups == [k \in keys |-> Cardinality({t \in found : DueGroup(t) = k})]
           IN MapThenSumSet(LAMBDA k : groups[k], keys) = Cardinality(found)
<1> DEFINE keys == {DueGroup(t) : t \in found}
           Of(k) == {t \in found : DueGroup(t) = k}
           groups == [k \in keys |-> Cardinality(Of(k))]
           In(s) == {t \in found : DueGroup(t) \in s}
           total == [s \in SUBSET keys |-> Cardinality(In(s))]
<1>1. IsFiniteSet(keys)
  <2> DEFINE f == [t \in found |-> DueGroup(t)]
  <2>1. keys = {f[t] : t \in found} /\ DOMAIN f = found
    OBVIOUS
  <2> HIDE DEF f, keys
  <2>2. QED
    BY <2>1, FiniteImage
<1>2. \A s : IsFiniteSet(In(s)) /\ Cardinality(In(s)) \in Nat
  <2>1. TAKE s
  <2>2. In(s) \in SUBSET found
    OBVIOUS
  <2> HIDE DEF In
  <2>3. QED
    BY <2>2, PartsOfBoard
<1>3. total \in [SUBSET keys -> Nat]
  BY <1>2
<1>4. total[{}] = 0
  <2>1. In({}) = {}
    OBVIOUS
  <2>2. total[{}] = Cardinality(In({}))
    OBVIOUS
  <2>3. QED
    BY <2>1, <2>2, FS_EmptySet
<1>5. \A s \in SUBSET keys : \A x \in s : total[s] = groups[x] + total[s \ {x}]
  <2>1. TAKE s \in SUBSET keys
  <2>2. TAKE x \in s
  <2>3. /\ In(s) = In(s \ {x}) \cup Of(x) /\ In(s \ {x}) \cap Of(x) = {}
        /\ Of(x) \in SUBSET found
    OBVIOUS
  <2>4. total[s] = Cardinality(In(s)) /\ total[s \ {x}] = Cardinality(In(s \ {x}))
    OBVIOUS
  <2>5. groups[x] = Cardinality(Of(x))
    OBVIOUS
  <2> HIDE DEF In, Of, total, groups
  <2>6. IsFiniteSet(Of(x)) /\ Cardinality(Of(x)) \in Nat
    BY <2>3, PartsOfBoard
  <2>7. Cardinality(In(s \ {x}) \cup Of(x)) =
            Cardinality(In(s \ {x})) + Cardinality(Of(x)) - Cardinality({})
    BY <1>2, <2>3, <2>6, FS_Union
  <2>8. Cardinality(In(s)) = Cardinality(In(s \ {x})) + Cardinality(Of(x)) - 0
    BY <2>3, <2>7, FS_EmptySet
  <2>9. QED
    BY <1>2, <2>4, <2>5, <2>6, <2>8
<1>6. total[keys] = Cardinality(found)
  <2>1. In(keys) = found
    OBVIOUS
  <2>2. QED
    BY <2>1
<1> HIDE DEF total, groups, keys
<1>7. SumOf(groups, keys) = total[keys]
  <2>1. AddsUp(groups, total, keys)
    BY <1>5 DEF AddsUp
  <2>2. QED
    BY <1>1, <1>3, <1>4, <2>1, SumIs
<1>8. QED
  BY <1>6, <1>7 DEF groups, keys, SumOf

LEMMA MinOfTwo ==
    ASSUME NEW a \in Nat, NEW b \in Nat
    PROVE  Min({a, b}) = IF a <= b THEN a ELSE b
<1>1. IsFiniteSet({a, b})
  <2>1. {a, b} = {a} \cup {b}
    OBVIOUS
  <2>2. IsFiniteSet({a}) /\ IsFiniteSet({b})
    BY FS_Singleton
  <2>3. IsFiniteSet({a} \cup {b})
    BY <2>2, FS_Union
  <2>4. QED
    BY <2>1, <2>3
<1>2. Min({a, b}) \in {a, b} /\ \A y \in {a, b} : Min({a, b}) <= y
  <2>1. {a, b} \in SUBSET Int /\ {a, b} # {}
    OBVIOUS
  <2>2. QED
    BY <1>1, <2>1, MinOfSet
<1>3. QED
  BY <1>2

\* Of todos that were saved one after the other, the most recently updated:
\* as many as are asked for, or all.
LEMMA MostRecent ==
    ASSUME NEW S, Board(S), NEW limit \in Nat
    PROVE  Cardinality({t \in S : Cardinality({u \in S : u.updated > t.updated}) < limit})
               = Min({limit, Cardinality(S)})
<1> DEFINE newer(t) == {u \in S : u.updated > t.updated}
           r == [t \in S |-> Cardinality(newer(t))]
           n == Cardinality(S)
           m == Min({limit, n})
           X == {t \in S : Cardinality(newer(t)) < limit}
<1>1. /\ IsFiniteSet(S) /\ n \in Nat
      /\ \A t \in S : t.updated \in Nat
      /\ \A t, u \in S : t.updated = u.updated => t = u
  BY FS_CardinalityType DEF Board
<1>2. \A t \in S : /\ IsFiniteSet(newer(t)) /\ Cardinality(newer(t)) \in Nat
                   /\ Cardinality(newer(t)) < n
  <2>1. TAKE t \in S
  <2>2. newer(t) \in SUBSET S
    OBVIOUS
  <2>3. t \notin newer(t)
    BY <1>1
  <2> HIDE DEF newer
  <2>4. IsFiniteSet(newer(t)) /\ Cardinality(newer(t)) <= n /\ Cardinality(newer(t)) # n
    BY <1>1, <2>2, <2>3, FS_Subset
  <2>5. Cardinality(newer(t)) \in Nat
    BY <2>4, FS_CardinalityType
  <2>6. QED
    BY <1>1, <2>4, <2>5
<1>3. ASSUME NEW t \in S, NEW u \in S, t.updated < u.updated
      PROVE  r[u] < r[t]
  <2>1. \A v \in S : v.updated > u.updated => v.updated > t.updated
    BY <1>1, <1>3
  <2>2. newer(u) \in SUBSET newer(t) /\ u \in newer(t)
    BY <1>3, <2>1
  <2>3. u \notin newer(u)
    BY <1>1
  <2>4. r[u] = Cardinality(newer(u)) /\ r[t] = Cardinality(newer(t))
    OBVIOUS
  <2> HIDE DEF newer, r
  <2>5. Cardinality(newer(u)) <= Cardinality(newer(t))
        /\ Cardinality(newer(u)) # Cardinality(newer(t))
    BY <1>2, <2>2, <2>3, FS_Subset
  <2>6. QED
    BY <1>2, <2>4, <2>5
<1>4. \A t \in S : r[t] \in 0 .. n - 1 /\ r[t] = Cardinality(newer(t))
  <2>1. TAKE t \in S
  <2>2. r[t] = Cardinality(newer(t))
    OBVIOUS
  <2>3. r[t] \in Nat /\ r[t] < n
    BY <1>2, <2>2
  <2> HIDE DEF newer, n, r
  <2>4. r[t] \in 0 .. n - 1
    BY <1>1, <2>3
  <2>5. QED
    BY <2>2, <2>4
<1>5. DOMAIN r = S /\ r = [t \in S |-> r[t]]
  OBVIOUS
<1> HIDE DEF r
<1>6. \A t, u \in S : r[t] = r[u] => t = u
  <2>1. TAKE t, u \in S
  <2>2. SUFFICES ASSUME r[t] = r[u], t # u PROVE FALSE
    OBVIOUS
  <2>3. t.updated < u.updated \/ u.updated < t.updated
    BY <1>1, <2>2
  <2>4. r[u] < r[t] \/ r[t] < r[u]
    BY <1>3, <2>3
  <2>5. r[t] \in Int /\ r[u] \in Int
    <3> HIDE DEF n, newer
    <3>1. QED
      BY <1>1, <1>4
  <2> HIDE DEF n, newer
  <2>6. QED
    BY <2>2, <2>4, <2>5
<1>7. \A k \in 0 .. n - 1 : \E t \in S : r[t] = k
  <2>1. \A t \in S : r[t] \in 0 .. n - 1
    BY <1>4
  <2> HIDE DEF newer, n
  <2>2. QED
    BY <1>1, <1>5, <1>6, <2>1, OntoByCount DEF n
<1>8. m = (IF limit <= n THEN limit ELSE n) /\ m \in Nat
  BY <1>1, MinOfTwo
<1> HIDE DEF m, n, newer
<1> DEFINE g == [t \in X |-> r[t]]
<1>9. \A t \in S : t \in X <=> r[t] \in 0 .. m - 1
  BY <1>1, <1>4, <1>8
<1>10. X \in SUBSET S
  OBVIOUS
<1> HIDE DEF X
<1>11. g \in Bijection(X, 0 .. m - 1)
  <2>1. g \in [X -> 0 .. m - 1] /\ \A t \in X : g[t] = r[t]
    BY <1>9, <1>10
  <2>2. \A t, u \in X : g[t] = g[u] => t = u
    BY <1>6, <1>10, <2>1
  <2>3. \A k \in 0 .. m - 1 : \E t \in X : g[t] = k
    <3>1. TAKE k \in 0 .. m - 1
    <3>2. k \in 0 .. n - 1
      BY <1>1, <1>8
    <3>3. PICK t \in S : r[t] = k
      BY <1>7, <3>2
    <3>4. t \in X
      BY <1>9, <3>3
    <3>5. QED
      BY <2>1, <3>3, <3>4
  <2> HIDE DEF g
  <2>4. QED
    BY <2>1, <2>2, <2>3 DEF Bijection, Injection, Surjection, IsInjective
<1>12. IsFiniteSet(X)
  BY <1>1, <1>10, FS_Subset
<1>13. Cardinality(0 .. m - 1) = Cardinality(X)
  BY <1>11, <1>12, FS_Bijection DEF ExistsBijection
<1>14. Cardinality(0 .. m - 1) = m
  <2>1. m - 1 \in Int
    BY <1>8
  <2> DEFINE k == m - 1
  <2> HIDE DEF k
  <2>2. Cardinality(0 .. k) = IF 0 > k THEN 0 ELSE k - 0 + 1
    BY <2>1, FS_Interval DEF k
  <2>3. QED
    BY <1>8, <2>2 DEF k
<1>15. QED
  BY <1>13, <1>14 DEF X, newer, m, n

LEMMA PartIsBoard ==
    ASSUME NEW todos, Board(todos), NEW part, part \in SUBSET todos
    PROVE  Board(part) /\ Cardinality(part) \in Nat
<1>1. IsFiniteSet(part) /\ Cardinality(part) \in Nat
  BY PartsOfBoard DEF Board
<1>2. QED
  BY <1>1 DEF Board

LEMMA NoDueFilter ==
    ASSUME NEW found
    PROVE  DueFilter(found, None) = found
<1>1. None \notin DueDates
  BY QueriesAssumption
<1>2. QED
  BY <1>1 DEF DueFilter, DueDates

\* The three ways to say what is due when are the same.
LEMMA DueIsGrouped ==
    ASSUME NEW found, Board(found), NEW d \in DueDates
    PROVE  DueFilter(found, d) = {t \in found : DueGroup(t) = d}
<1>1. None \notin Int /\ None \notin DueDates
  BY QueriesAssumption
<1>2. CASE d = "today"
  BY <1>1, <1>2 DEF DueFilter, DueGroup, Board, DueDates
<1>3. CASE d = "overdue"
  BY <1>1, <1>3 DEF DueFilter, DueGroup, Board, DueDates
<1>4. CASE d = "upcoming"
  BY <1>1, <1>4 DEF DueFilter, DueGroup, Board, DueDates
<1>5. CASE d = "none"
  BY <1>1, <1>5 DEF DueFilter, DueGroup, Board, DueDates
<1>6. QED
  BY <1>2, <1>3, <1>4, <1>5 DEF DueDates

\* The counts of countTasks by due date are those of its filters.
LEMMA GroupsAreFilters ==
    ASSUME NEW todos, Board(todos), NEW s
    PROVE  LET byDue == CountGroups(todos, s)
           IN /\ byDue.total = CountTasks(todos, s, None)
              /\ \A d \in DueDates : CountTasks(todos, s, d) =
                     IF d \in DOMAIN byDue.groups THEN byDue.groups[d] ELSE 0
<1> DEFINE found == Matching(Shown(todos), s)
           keys == {DueGroup(t) : t \in found}
           groups == [k \in keys |-> Cardinality({t \in found : DueGroup(t) = k})]
           byDue == CountGroups(todos, s)
<1>1. found \in SUBSET todos
  BY DEF Matching, Shown
<1>2. byDue.total = MapThenSumSet(LAMBDA k : groups[k], keys) /\ byDue.groups = groups
  BY DEF CountGroups
<1>3. \A d : CountTasks(todos, s, d) = Cardinality(DueFilter(found, d))
  BY DEF CountTasks
<1>4. DueFilter(found, None) = found
  BY NoDueFilter
<1> HIDE DEF found, byDue
<1>5. Board(found) /\ IsFiniteSet(found)
  <2>1. Board(found)
    BY <1>1, PartIsBoard
  <2>2. QED
    BY <2>1 DEF Board
<1>6. byDue.total = CountTasks(todos, s, None)
  <2>1. MapThenSumSet(LAMBDA k : groups[k], keys) = Cardinality(found)
    BY <1>5, GroupsAdd
  <2>2. QED
    BY <1>2, <1>3, <1>4, <2>1
<1>7. ASSUME NEW d \in DueDates
      PROVE  CountTasks(todos, s, d) =
                 IF d \in DOMAIN byDue.groups THEN byDue.groups[d] ELSE 0
  <2>1. CountTasks(todos, s, d) = Cardinality({t \in found : DueGroup(t) = d})
    BY <1>3, <1>5, DueIsGrouped
  <2>2. CASE d \in keys
    BY <1>2, <2>1, <2>2
  <2>3. CASE d \notin keys
    <3>1. {t \in found : DueGroup(t) = d} = {}
      BY <2>3
    <3>2. d \notin DOMAIN byDue.groups
      BY <1>2, <2>3
    <3>3. QED
      BY <2>1, <3>1, <3>2, FS_EmptySet
  <2>4. QED
    BY <2>2, <2>3
<1>8. QED
  BY <1>6, <1>7 DEF byDue

LEMMA DueRight ==
    ASSUME about = "board" => Board(input)
    PROVE  DueDatesAgree
<1>1. SUFFICES ASSUME about = "board", NEW s \in Filters
      PROVE  LET byDue == CountGroups(input, s)
                 stats == DashboardStats(input)
             IN /\ \A d \in DueDates :
                      CountTasks(input, s, d) = IF d \in DOMAIN byDue.groups
                                                THEN byDue.groups[d] ELSE 0
                /\ byDue.total = CountTasks(input, s, None)
                /\ s = None => /\ stats.overdue = CountTasks(input, s, "overdue")
                               /\ stats.dueToday = CountTasks(input, s, "today")
                               /\ stats.total = byDue.total
                /\ s # None /\ CountTasks(input, s, None) > 0 =>
                      stats.byStatus[s] = CountTasks(input, s, None)
  BY DEF DueDatesAgree
<1> DEFINE found == Matching(Shown(input), s)
           stats == DashboardStats(input)
<1>2. Board(input)
  BY <1>1
<1>3. \A d : CountTasks(input, s, d) = Cardinality(DueFilter(found, d))
  BY DEF CountTasks
<1>4. DueFilter(found, None) = found
  BY NoDueFilter
<1>5. /\ DueFilter(found, "overdue") = {t \in found : t.due # None /\ t.due < 0}
      /\ DueFilter(found, "today") = {t \in found : t.due = 0}
  <2>1. None # "overdue" /\ None # "today"
    BY QueriesAssumption DEF DueDates
  <2>2. QED
    BY <2>1 DEF DueFilter
<1>6. /\ CountGroups(input, s).total = CountTasks(input, s, None)
      /\ \A d \in DueDates : CountTasks(input, s, d) =
             IF d \in DOMAIN CountGroups(input, s).groups
             THEN CountGroups(input, s).groups[d] ELSE 0
  BY <1>2, GroupsAreFilters
<1>7. /\ stats.total = Cardinality(Shown(input))
      /\ stats.overdue = Cardinality({t \in Shown(input) : t.due # None /\ t.due < 0})
      /\ stats.dueToday = Cardinality({t \in Shown(input) : t.due = 0})
      /\ stats.byStatus = [x \in {t.status : t \in Shown(input)} |->
                              Cardinality(Matching(Shown(input), x))]
  BY DEF DashboardStats
<1>8. s = None => found = Shown(input)
  BY DEF Matching
<1> HIDE DEF stats
<1>9. s = None => /\ stats.overdue = CountTasks(input, s, "overdue")
                  /\ stats.dueToday = CountTasks(input, s, "today")
                  /\ stats.total = CountGroups(input, s).total
  <2> HIDE DEF found
  <2>1. SUFFICES ASSUME s = None
        PROVE  /\ stats.overdue = CountTasks(input, s, "overdue")
               /\ stats.dueToday = CountTasks(input, s, "today")
               /\ stats.total = CountGroups(input, s).total
    OBVIOUS
  <2>2. found = Shown(input)
    BY <1>8, <2>1
  <2>3. stats.overdue = CountTasks(input, s, "overdue")
    BY <1>3, <1>5, <1>7, <2>2
  <2>4. stats.dueToday = CountTasks(input, s, "today")
    BY <1>3, <1>5, <1>7, <2>2
  <2>5. stats.total = CountGroups(input, s).total
    BY <1>3, <1>4, <1>6, <1>7, <2>2
  <2>6. QED
    BY <2>3, <2>4, <2>5
<1>10. ASSUME s # None, CountTasks(input, s, None) > 0
       PROVE  stats.byStatus[s] = CountTasks(input, s, None)
  <2>1. CountTasks(input, s, None) = Cardinality(found)
    BY <1>3, <1>4
  <2>2. found # {}
    BY <1>10, <2>1, FS_EmptySet
  <2>3. s \in {t.status : t \in Shown(input)}
    BY <1>10, <2>2 DEF Matching
  <2>4. QED
    BY <1>7, <2>1, <2>3
<1>11. QED
  BY <1>6, <1>9, <1>10 DEF stats

LEMMA FoundRight ==
    ASSUME about = "board" => Board(input)
    PROVE  FoundIsCounted
<1>1. SUFFICES ASSUME about = "board", NEW s \in Filters
      PROVE  LET found == FindForAgent(input, s)
             IN /\ Cardinality(found) = Min({AgentLimit, CountTasks(input, s, None)})
                /\ found \subseteq ListTodos(input, s, FALSE)
  BY DEF FoundIsCounted
<1> DEFINE all == Matching(Shown(input), s)
           found == FindForAgent(input, s)
<1>2. all \in SUBSET input
  BY DEF Matching, Shown
<1>3. CountTasks(input, s, None) = Cardinality(all)
  BY NoDueFilter DEF CountTasks
<1>4. found = {t \in all : Cardinality({u \in all : u.updated > t.updated}) < AgentLimit}
  BY DEF FindForAgent
<1>5. \A t \in all : t \in ListTodos(input, s, FALSE)
  <2>1. \A t \in input : t.archived \in BOOLEAN
    BY <1>1 DEF Board
  <2>2. QED
    BY <2>1 DEF ListTodos, Matching, Shown
<1>6. AgentLimit \in Nat
  BY QueriesAssumption
<1> HIDE DEF all, found
<1>7. Board(all)
  BY <1>1, <1>2, PartIsBoard
<1>8. Cardinality(found) = Min({AgentLimit, Cardinality(all)})
  BY <1>4, <1>6, <1>7, MostRecent
<1>9. QED
  BY <1>3, <1>4, <1>5, <1>8 DEF found

LEMMA LastRight ==
    ASSUME about = "board" => Board(input)
    PROVE  NewTodoIsLast
<1>1. SUFFICES ASSUME about = "board", NEW s \in {t.status : t \in input},
                      NEW t \in ListTodos(input, s, FALSE)
      PROVE  t.position < NextPosition(input, s)
  BY DEF NewTodoIsLast
<1> DEFINE all == Matching(Shown(input), s)
           f == [u \in all |-> u.position]
           places == {f[u] : u \in all}
<1>2. Board(input)
  BY <1>1
<1>3. all \in SUBSET input /\ t \in all
  BY DEF Matching, Shown, ListTodos
<1>4. {u.position : u \in all} = places /\ t.position \in places /\ DOMAIN f = all
  BY <1>3
<1>5. NextPosition(input, s) = Max({-1} \cup places) + 1
  BY <1>4 DEF NextPosition
<1>6. places \in SUBSET Int
  BY <1>2, <1>3 DEF Board
<1> HIDE DEF all
<1>7. IsFiniteSet(all)
  BY <1>2, <1>3, PartsOfBoard DEF Board
<1> HIDE DEF f
<1>8. IsFiniteSet(places)
  BY <1>4, <1>7, FiniteImage
<1> HIDE DEF places
<1>9. IsFiniteSet({-1} \cup places)
  <2>1. IsFiniteSet({-1})
    BY FS_Singleton
  <2>2. QED
    BY <1>8, <2>1, FS_Union
<1>10. {-1} \cup places \in SUBSET Int /\ {-1} \cup places # {}
  BY <1>6
<1>11. /\ Max({-1} \cup places) \in {-1} \cup places
       /\ \A y \in {-1} \cup places : y <= Max({-1} \cup places)
  BY <1>9, <1>10, MaxOfSet
<1>12. t.position \in Int /\ t.position <= Max({-1} \cup places)
  BY <1>4, <1>6, <1>11
<1>13. Max({-1} \cup places) \in Int
  BY <1>10, <1>11
<1>14. QED
  BY <1>5, <1>12, <1>13

-----------------------------------------------------------------------------
\* The first n rows of a list.
Upto(n) == [k \in 1 .. n |-> k]

LEMMA UptoIsSeq ==
    ASSUME NEW n \in Nat
    PROVE  Upto(n) \in Seq(Nat) /\ Len(Upto(n)) = n
BY DEF Upto

\* A cut out of the first rows, and what it is put together to.
LEMMA CutOfRows ==
    ASSUME NEW n \in Nat, NEW a \in Nat, NEW b \in Nat, a <= b, b <= n
    PROVE  Upto(a) \o SubSeq(Upto(n), a + 1, b) = Upto(b)
<1> DEFINE cut == SubSeq(Upto(n), a + 1, b)
<1>1. cut = [k \in 1 .. b - a |-> a + k]
  <2>1. cut = [k \in 1 .. b - a |-> Upto(n)[k + a]]
    BY UptoIsSeq
  <2>2. \A k \in 1 .. b - a : Upto(n)[k + a] = a + k
    BY DEF Upto
  <2>3. QED
    BY <2>1, <2>2, Zenon
<1>2. b - a \in Nat
  OBVIOUS
<1> HIDE DEF cut
<1>3. cut \in Seq(Nat) /\ Len(cut) = b - a /\ \A k \in 1 .. b - a : cut[k] = a + k
  BY <1>1, <1>2
<1>4. Upto(a) \in Seq(Nat) /\ Len(Upto(a)) = a /\ \A k \in 1 .. a : Upto(a)[k] = k
  BY UptoIsSeq DEF Upto
<1>5. Upto(b) \in Seq(Nat) /\ Len(Upto(b)) = b /\ \A k \in 1 .. b : Upto(b)[k] = k
  BY UptoIsSeq DEF Upto
<1> DEFINE both == Upto(a) \o cut
<1>6. both \in Seq(Nat) /\ Len(both) = b
  BY <1>3, <1>4
<1>7. \A k \in 1 .. b : both[k] = k
  <2>1. TAKE k \in 1 .. b
  <2>2. CASE k <= a
    <3>1. both[k] = Upto(a)[k]
      BY <1>3, <1>4, <2>2
    <3>2. QED
      BY <1>4, <2>2, <3>1
  <2>3. CASE k > a
    <3>1. both[k] = cut[k - a]
      BY <1>3, <1>4, <2>3
    <3>2. k - a \in 1 .. b - a
      BY <2>3
    <3>3. QED
      BY <1>3, <3>1, <3>2
  <2>4. k <= a \/ k > a
    OBVIOUS
  <2> HIDE DEF both
  <2>5. QED
    BY <2>2, <2>3, <2>4
<1> HIDE DEF both
<1>8. both = Upto(b)
  BY <1>5, <1>6, <1>7
<1>9. QED
  BY <1>8 DEF both, cut

\* As many pages as are needed and no more.
LEMMA PagesNeeded ==
    ASSUME NEW total \in Nat, NEW limit \in Nat \ {0}
    PROVE  LET n == TotalPages(total, limit)
           IN n \in Nat /\ total <= n * limit /\ (n - 1) * limit < total
<1> DEFINE n == TotalPages(total, limit)
           a == total + limit - 1
<1>1. n = a \div limit /\ a \in Nat
  BY DEF TotalPages
<1> HIDE DEF a
<1>2. n \in Nat /\ n * limit <= a /\ a < n * limit + limit
  BY <1>1
<1>3. (n - 1) * limit = n * limit - limit
  BY <1>2
<1> HIDE DEF n
<1>4. QED
  BY <1>2, <1>3 DEF a, n

\* A list in which every next page continues what came before is the list.
LEMMA PagesContinue ==
    ASSUME NEW n \in Nat, NEW seqs, NEW m \in [0 .. n -> Nat],
           seqs \in Seq(Seq(Nat)), Len(seqs) = n, m[0] = 0,
           \A p \in 1 .. n : Upto(m[p - 1]) \o seqs[p] = Upto(m[p])
    PROVE  FlattenSeq(seqs) = Upto(m[n])
<1>1. CASE n = 0
  <2>1. FlattenSeq(seqs) = seqs
    BY <1>1 DEF FlattenSeq
  <2>2. seqs = <<>> /\ Upto(m[n]) = <<>>
    BY <1>1 DEF Upto
  <2>3. QED
    BY <2>1, <2>2
<1>2. CASE n # 0
  <2> DEFINE flatten[i \in 1 .. Len(seqs)] ==
                 IF i = 1 THEN seqs[i] ELSE flatten[i - 1] \o seqs[i]
             f == [p \in 1 .. Len(seqs) |-> Upto(m[p])]
             again == [i \in 1 .. Len(seqs) |->
                          IF i = 1 THEN seqs[i] ELSE f[i - 1] \o seqs[i]]
             S == {k \in Nat : k + 1 \in 1 .. n => flatten[k + 1] = Upto(m[k + 1])}
  <2>1. FlattenSeq(seqs) = flatten[n]
    BY <1>2 DEF FlattenSeq
  <2>2. ASSUME NEW p \in 1 .. n
        PROVE  f[p] = again[p]
    <3>1. Upto(m[p - 1]) \o seqs[p] = Upto(m[p]) /\ f[p] = Upto(m[p])
      OBVIOUS
    <3>2. CASE p = 1
      <4>1. Upto(m[0]) = <<>>
        BY DEF Upto
      <4>2. seqs[1] \in Seq(Nat)
        BY <1>2
      <4>3. <<>> \o seqs[1] = seqs[1]
        BY <4>2
      <4>4. m[p - 1] = m[0]
        BY <3>2
      <4>5. again[p] = seqs[1]
        BY <3>2
      <4>6. QED
        BY <3>1, <3>2, <4>1, <4>3, <4>4, <4>5
    <3>3. CASE p # 1
      <4>1. p - 1 \in 1 .. n
        BY <3>3
      <4>2. again[p] = f[p - 1] \o seqs[p] /\ f[p - 1] = Upto(m[p - 1])
        BY <3>3, <4>1
      <4>3. QED
        BY <3>1, <4>2
    <3>4. QED
      BY <3>2, <3>3
  <2>3. f = again
    BY <2>2
  <2>4. \E g : g = [i \in 1 .. Len(seqs) |->
                        IF i = 1 THEN seqs[i] ELSE g[i - 1] \o seqs[i]]
    BY <2>3
  <2>5. flatten = [i \in 1 .. Len(seqs) |->
                        IF i = 1 THEN seqs[i] ELSE flatten[i - 1] \o seqs[i]]
    BY <2>4
  <2> HIDE DEF flatten
  <2>6. 0 \in S
    <3>1. flatten[1] = seqs[1]
      BY <1>2, <2>5
    <3>2. f[1] = again[1] /\ f[1] = Upto(m[1]) /\ again[1] = seqs[1]
      BY <1>2, <2>2
    <3>3. QED
      BY <3>1, <3>2
  <2>7. ASSUME NEW k \in S
        PROVE  k + 1 \in S
    <3>1. k \in Nat /\ (k + 1 \in 1 .. n => flatten[k + 1] = Upto(m[k + 1]))
      OBVIOUS
    <3> DEFINE i == k + 2
    <3> HIDE DEF S, i
    <3>2. i \in Nat /\ i # 1 /\ i - 1 = k + 1 /\ i = k + 1 + 1 /\ i - 1 >= 1
      BY <3>1 DEF i
    <3>3. ASSUME i \in 1 .. n
          PROVE  flatten[i] = Upto(m[i])
      <4>1. i - 1 \in 1 .. n
        <5>1. i \in Nat /\ i - 1 >= 1 /\ i <= n
          BY <3>2, <3>3
        <5>2. QED
          BY <5>1
      <4>2. flatten[i] = flatten[i - 1] \o seqs[i]
        <5>1. i \in 1 .. Len(seqs)
          BY <3>3
        <5>2. QED
          BY <2>5, <3>2, <5>1
      <4>3. Upto(m[i - 1]) \o seqs[i] = Upto(m[i])
        BY <3>3
      <4>4. flatten[i - 1] = Upto(m[i - 1])
        BY <3>1, <3>2, <4>1
      <4>5. QED
        BY <4>2, <4>3, <4>4
    <3>4. k + 1 \in Nat
      BY <3>1
    <3>5. QED
      BY <3>2, <3>3, <3>4 DEF S
  <2>8. S \in SUBSET Nat
    OBVIOUS
  <2> HIDE DEF S
  <2>9. S = Nat
    BY <2>6, <2>7, <2>8, Induct
  <2>10. n - 1 \in S
    BY <1>2, <2>9
  <2>11. flatten[n] = Upto(m[n])
    <3>1. n - 1 + 1 = n /\ n \in 1 .. n
      BY <1>2
    <3>2. QED
      BY <2>10, <3>1 DEF S
  <2>12. QED
    BY <2>1, <2>11
<1>3. QED
  BY <1>1, <1>2

\* Every row is on one page, whatever the number of rows and the limit are.
LEMMA PagesRight ==
    ASSUME about = "pages" => input.total \in Nat /\ input.limit \in Nat \ {0}
    PROVE  PagesShowAllOnce
<1>1. SUFFICES ASSUME about = "pages"
      PROVE  LET rows == [k \in 1 .. input.total |-> k]
             IN FlattenSeq([p \in 1 .. TotalPages(input.total, input.limit) |->
                               PageOf(rows, p, input.limit)]) = rows
  BY DEF PagesShowAllOnce
<1> DEFINE total == input.total
           limit == input.limit
           n == TotalPages(total, limit)
           seqs == [p \in 1 .. n |-> PageOf(Upto(total), p, limit)]
           m == [p \in 0 .. n |-> IF p * limit <= total THEN p * limit ELSE total]
<1>2. total \in Nat /\ limit \in Nat \ {0}
  BY <1>1
<1>3. [k \in 1 .. input.total |-> k] = Upto(total)
  BY DEF Upto
<1> HIDE DEF total, limit
<1>4. n \in Nat /\ total <= n * limit /\ (n - 1) * limit < total
  BY <1>2, PagesNeeded
<1> HIDE DEF n
<1>5. \A p \in 0 .. n : p * limit \in Nat
  BY <1>2, <1>4
<1>6. m \in [0 .. n -> Nat] /\ m[0] = 0 /\ m[n] = total
  <2>1. m \in [0 .. n -> Nat]
    BY <1>2, <1>5
  <2>2. m[0] = 0
    BY <1>2, <1>4
  <2>3. m[n] = IF n * limit <= total THEN n * limit ELSE total
    BY <1>4
  <2>4. n * limit \in Nat
    BY <1>4, <1>5
  <2>5. m[n] = total
    BY <1>2, <1>4, <2>3, <2>4
  <2>6. QED
    BY <2>1, <2>2, <2>5
<1>7. ASSUME NEW p \in 1 .. n
      PROVE  /\ m[p - 1] = Offset(p, limit) /\ m[p - 1] <= m[p] /\ m[p] <= total
             /\ Min({Offset(p, limit) + limit, total}) = m[p]
  <2>1. Offset(p, limit) = (p - 1) * limit
    BY DEF Offset
  <2>2. (p - 1) * limit <= (n - 1) * limit
    <3>1. (n - 1) * limit = (n - p) * limit + (p - 1) * limit
      BY <1>2, <1>4
    <3>2. n - p \in Nat
      BY <1>4
    <3>3. (n - p) * limit \in Nat /\ (p - 1) * limit \in Nat
      BY <1>2, <3>2
    <3>4. QED
      BY <3>1, <3>3
  <2>3. p * limit = (p - 1) * limit + limit /\ p * limit \in Nat /\ (p - 1) * limit \in Nat
    BY <1>2, <1>4
  <2>4. (p - 1) * limit <= total
    BY <1>2, <1>4, <2>2, <2>3
  <2>5. m[p - 1] = (p - 1) * limit
    BY <1>4, <2>4
  <2>6. m[p] = IF p * limit <= total THEN p * limit ELSE total
    BY <1>4
  <2>7. Offset(p, limit) + limit = p * limit
    BY <2>1, <2>3
  <2>8. Min({p * limit, total}) = IF p * limit <= total THEN p * limit ELSE total
    BY <1>2, <2>3, MinOfTwo
  <2> HIDE DEF m
  <2>9. m[p - 1] <= m[p] /\ m[p] <= total
    BY <1>2, <2>3, <2>4, <2>5, <2>6
  <2>10. QED
    BY <2>1, <2>5, <2>6, <2>7, <2>8, <2>9
<1>8. ASSUME NEW p \in 1 .. n
      PROVE  seqs[p] \in Seq(Nat) /\ Upto(m[p - 1]) \o seqs[p] = Upto(m[p])
  <2>1. seqs[p] = SubSeq(Upto(total), m[p - 1] + 1, m[p])
    BY <1>2, <1>7, UptoIsSeq DEF PageOf
  <2>2. m[p - 1] \in Nat /\ m[p] \in Nat
    BY <1>4, <1>6
  <2> HIDE DEF m, seqs
  <2>3. Upto(total) \in Seq(Nat) /\ Len(Upto(total)) = total
    BY <1>2, UptoIsSeq
  <2>4. SubSeq(Upto(total), m[p - 1] + 1, m[p]) \in Seq(Nat)
    <3> DEFINE a == m[p - 1] b == m[p] rows == Upto(total)
    <3>1. a \in Nat /\ b \in Nat /\ b <= total /\ rows \in Seq(Nat) /\ Len(rows) = total
      BY <1>7, <2>2, <2>3
    <3> HIDE DEF a, b, rows
    <3>2. \A k \in a + 1 .. b : rows[k] \in Nat
      BY <1>2, <3>1
    <3>3. SubSeq(rows, a + 1, b) \in Seq(Nat)
      BY <3>1, <3>2
    <3>4. QED
      BY <3>3 DEF a, b, rows
  <2>5. Upto(m[p - 1]) \o SubSeq(Upto(total), m[p - 1] + 1, m[p]) = Upto(m[p])
    BY <1>2, <1>7, <2>2, CutOfRows
  <2>6. QED
    BY <2>1, <2>4, <2>5
<1>9. seqs \in Seq(Seq(Nat)) /\ Len(seqs) = n
  <2>1. \A p \in 1 .. n : seqs[p] \in Seq(Nat)
    <3> HIDE DEF seqs, m
    <3>1. QED
      BY <1>8
  <2>2. DOMAIN seqs = 1 .. n /\ seqs = [p \in 1 .. n |-> seqs[p]]
    OBVIOUS
  <2> HIDE DEF seqs, m
  <2>3. QED
    BY <1>4, <2>1, <2>2
<1>10. n \in Nat
  BY <1>4
<1> HIDE DEF seqs, m
<1>11. FlattenSeq(seqs) = Upto(total)
  BY <1>6, <1>8, <1>9, <1>10, PagesContinue
<1>12. QED
  BY <1>3, <1>11 DEF seqs, n, total, limit

-----------------------------------------------------------------------------
(***************************************************************************)
(* Folds over a sequence: the function by which they are defined exists,   *)
(* and the values it has on 1 .. k are the values of a run from left to    *)
(* right.                                                                  *)
(***************************************************************************)
LEMMA MaxOfPrefix ==
    ASSUME NEW k \in Nat \ {0}
    PROVE  Max(1 .. k) = k /\ (1 .. k) \ {Max(1 .. k)} = 1 .. k - 1 /\ 1 .. k # {}
<1>1. IsFiniteSet(1 .. k)
  BY FS_Interval
<1>2. 1 .. k \in SUBSET Int /\ 1 .. k # {} /\ k \in 1 .. k
  OBVIOUS
<1>3. Max(1 .. k) \in 1 .. k /\ \A y \in 1 .. k : y <= Max(1 .. k)
  BY <1>1, <1>2, MaxOfSet
<1>4. Max(1 .. k) = k
  BY <1>2, <1>3
<1>5. (1 .. k) \ {k} = 1 .. k - 1
  OBVIOUS
<1>6. QED
  BY <1>2, <1>4, <1>5

\* The definition of a fold by a step that is a function.
FoldedBy(g, n, base, F) ==
    g = [s \in SUBSET (1 .. n) |->
            IF s = {} THEN base ELSE F[<<g[s \ {Max(s)}], Max(s)>>]]

LEMMA FoldExists ==
    ASSUME NEW n \in Nat, NEW State, NEW base \in State,
           NEW F \in [State \X (1 .. n) -> State]
    PROVE  \E g \in [SUBSET (1 .. n) -> State] : FoldedBy(g, n, base, F)
<1> DEFINE Small(m) == {s \in SUBSET (1 .. n) : Cardinality(s) <= m}
           Step(g, s) == IF s = {} THEN base ELSE F[<<g[s \ {Max(s)}], Max(s)>>]
           Good(m) == \E g \in [Small(m) -> State] : \A s \in Small(m) : g[s] = Step(g, s)
           S == {m \in Nat : Good(m)}
<1>1. IsFiniteSet(1 .. n) /\ Cardinality(1 .. n) = n
  BY FS_Interval
<1>2. \A s \in SUBSET (1 .. n) : IsFiniteSet(s) /\ Cardinality(s) \in Nat
  BY <1>1, FS_Subset, FS_CardinalityType
<1>3. ASSUME NEW s \in SUBSET (1 .. n), s # {}
      PROVE  /\ Max(s) \in 1 .. n /\ Max(s) \in s
             /\ s \ {Max(s)} \in SUBSET (1 .. n)
             /\ Cardinality(s \ {Max(s)}) = Cardinality(s) - 1
  <2>1. s \in SUBSET Int /\ IsFiniteSet(s)
    BY <1>2
  <2>2. Max(s) \in s
    BY <1>3, <2>1, MaxOfSet
  <2>3. Cardinality(s \ {Max(s)}) = Cardinality(s) - 1
    BY <2>1, <2>2, FS_RemoveElement
  <2>4. QED
    BY <2>2, <2>3
<1>4. 0 \in S
  <2> DEFINE g == [s \in Small(0) |-> base]
  <2>1. g \in [Small(0) -> State]
    OBVIOUS
  <2>2. ASSUME NEW s \in Small(0)
        PROVE  g[s] = Step(g, s)
    <3>1. IsFiniteSet(s) /\ Cardinality(s) \in Nat /\ Cardinality(s) <= 0
      BY <1>2
    <3>2. Cardinality(s) = 0
      BY <3>1
    <3>3. s = {}
      BY <3>1, <3>2, FS_EmptySet
    <3>4. QED
      BY <3>3
  <2> HIDE DEF Small, Step, g
  <2>3. Good(0)
    BY <2>1, <2>2
  <2>4. QED
    BY <2>3
<1>5. ASSUME NEW m \in S
      PROVE  m + 1 \in S
  <2>1. PICK g \in [Small(m) -> State] : \A s \in Small(m) : g[s] = Step(g, s)
    OBVIOUS
  <2> DEFINE h == [s \in Small(m + 1) |-> Step(g, s)]
  <2>2. ASSUME NEW s \in Small(m + 1), s # {}
        PROVE  /\ s \ {Max(s)} \in Small(m) /\ Max(s) \in 1 .. n
               /\ g[s \ {Max(s)}] \in State /\ F[<<g[s \ {Max(s)}], Max(s)>>] \in State
    <3>1. s \in SUBSET (1 .. n) /\ Cardinality(s) <= m + 1
      OBVIOUS
    <3>2. /\ Max(s) \in 1 .. n /\ s \ {Max(s)} \in SUBSET (1 .. n)
          /\ Cardinality(s \ {Max(s)}) = Cardinality(s) - 1
      BY <1>3, <2>2, <3>1
    <3>3. Cardinality(s) \in Nat /\ m \in Nat
      BY <1>2
    <3>4. Cardinality(s \ {Max(s)}) <= m
      BY <3>1, <3>2, <3>3
    <3>5. s \ {Max(s)} \in Small(m)
      BY <3>2, <3>4
    <3> HIDE DEF Small
    <3>6. g[s \ {Max(s)}] \in State
      BY <3>5
    <3>7. QED
      BY <3>2, <3>5, <3>6
  <2>3. \A s \in Small(m) : s \in Small(m + 1)
    BY <1>2
  <2>4. \A s \in Small(m) : h[s] = g[s]
    <3> HIDE DEF Small, Step
    <3>1. QED
      BY <2>1, <2>3
  <2>5. h \in [Small(m + 1) -> State]
    <3>1. \A s \in Small(m + 1) : Step(g, s) \in State
      <4> HIDE DEF Small
      <4>1. QED
        BY <2>2
    <3> HIDE DEF Small, Step
    <3>2. QED
      BY <3>1
  <2>6. ASSUME NEW s \in Small(m + 1)
        PROVE  h[s] = Step(h, s)
    <3>1. h[s] = Step(g, s)
      <4> HIDE DEF Small, Step
      <4>1. QED
        OBVIOUS
    <3>2. CASE s = {}
      BY <3>1, <3>2
    <3>3. CASE s # {}
      <4>1. s \ {Max(s)} \in Small(m)
        BY <2>2, <3>3
      <4>2. h[s \ {Max(s)}] = g[s \ {Max(s)}]
        <5> HIDE DEF Small, h
        <5>1. QED
          BY <2>4, <4>1
      <4> HIDE DEF h, Small
      <4>3. QED
        BY <3>1, <4>2
    <3>4. QED
      BY <3>2, <3>3
  <2> HIDE DEF Small, Step, h
  <2>7. Good(m + 1)
    BY <2>5, <2>6
  <2>8. QED
    BY <2>7
<1>6. S \in SUBSET Nat
  OBVIOUS
<1> HIDE DEF S
<1>7. S = Nat
  BY <1>4, <1>5, <1>6, Induct
<1>8. Good(n)
  BY <1>7 DEF S
<1>9. Small(n) = SUBSET (1 .. n)
  <2>1. ASSUME NEW s \in SUBSET (1 .. n)
        PROVE  Cardinality(s) <= n
    <3>1. Cardinality(s) <= Cardinality(1 .. n)
      BY <1>1, FS_Subset
    <3>2. QED
      BY <1>1, <3>1
  <2>2. QED
    BY <2>1
<1> HIDE DEF Small
<1>10. PICK g \in [SUBSET (1 .. n) -> State] : \A s \in SUBSET (1 .. n) : g[s] = Step(g, s)
  BY <1>8, <1>9
<1>11. FoldedBy(g, n, base, F)
  BY <1>10 DEF FoldedBy
<1>12. QED
  BY <1>11

LEMMA MaxInside ==
    ASSUME NEW n \in Nat
    PROVE  \A s \in SUBSET (1 .. n) : s # {} => Max(s) \in 1 .. n
<1>1. TAKE s \in SUBSET (1 .. n)
<1>2. IsFiniteSet(1 .. n)
  BY FS_Interval
<1>3. IsFiniteSet(s)
  BY <1>2, FS_Subset
<1>4. s \in SUBSET Int
  OBVIOUS
<1>5. s # {} => Max(s) \in s
  BY <1>3, <1>4, MaxOfSet
<1>6. QED
  BY <1>5

-----------------------------------------------------------------------------
(***************************************************************************)
(* Sentences: what is ended is in one of them.                             *)
(***************************************************************************)
Char == [kind : Strings, at : Nat]
Matches == [sentences : Seq(Seq(Char)), body : Seq(Char),
             where : {"none", "body", "stop", "space"}]
MatchStart == [sentences |-> <<>>, body |-> <<>>, where |-> "none"]

\* at is the run of the matches over the text.
MatchRun(at, text) ==
    /\ at \in [0 .. Len(text) -> Matches] /\ at[0] = MatchStart
    /\ \A k \in 1 .. Len(text) : at[k] = MatchOn(at[k - 1], text[k])

LEMMA MatchTyped ==
    ASSUME NEW at \in Matches, NEW c \in Char
    PROVE  MatchOn(at, c) \in Matches
<1>1. /\ at.sentences \in Seq(Seq(Char)) /\ at.body \in Seq(Char)
      /\ Append(at.sentences, at.body) \in Seq(Seq(Char)) /\ Append(at.body, c) \in Seq(Char)
      /\ <<c>> \in Seq(Char) /\ <<>> \in Seq(Char)
  BY DEF Matches
<1>2. \A w \in {"none", "body", "stop", "space"} :
          [at EXCEPT !.body = Append(@, c), !.where = w] \in Matches
  BY <1>1 DEF Matches
<1>3. /\ [sentences |-> Append(at.sentences, at.body), body |-> <<>>, where |-> "none"] \in Matches
      /\ [sentences |-> Append(at.sentences, at.body), body |-> <<c>>, where |-> "body"] \in Matches
  BY <1>1 DEF Matches
<1>4. QED
  BY <1>2, <1>3, Zenon DEF MatchOn

LEMMA MatchesRun ==
    ASSUME NEW text \in Seq(Char)
    PROVE  \E at : /\ MatchRun(at, text)
                   /\ FoldLeft(MatchOn, MatchStart, text) = at[Len(text)]
<1> DEFINE n == Len(text)
           F == [p \in Matches \X (1 .. n) |-> MatchOn(p[1], text[p[2]])]
           iter[s \in SUBSET DOMAIN text] ==
               IF s = {} THEN MatchStart ELSE MatchOn(iter[s \ {Max(s)}], text[Max(s)])
           at == [k \in 0 .. n |-> iter[1 .. k]]
<1>1. n \in Nat /\ DOMAIN text = 1 .. n /\ \A k \in 1 .. n : text[k] \in Char
  OBVIOUS
<1>2. FoldLeft(MatchOn, MatchStart, text) = iter[DOMAIN text]
  BY DEF FoldLeft, MapThenFoldSet
<1>3. MatchStart \in Matches
  BY DEF MatchStart, Matches
<1>4. F \in [Matches \X (1 .. n) -> Matches]
  BY <1>1, MatchTyped
<1> HIDE DEF n
<1>5. PICK g \in [SUBSET (1 .. n) -> Matches] : FoldedBy(g, n, MatchStart, F)
  BY <1>1, <1>3, <1>4, FoldExists
<1>6. \A s \in SUBSET (1 .. n) : s # {} => Max(s) \in 1 .. n
  BY <1>1, MaxInside
<1>7. g = [s \in SUBSET DOMAIN text |->
               IF s = {} THEN MatchStart ELSE MatchOn(g[s \ {Max(s)}], text[Max(s)])]
  <2>1. ASSUME NEW s \in SUBSET (1 .. n)
        PROVE  g[s] = IF s = {} THEN MatchStart ELSE MatchOn(g[s \ {Max(s)}], text[Max(s)])
    <3>1. g[s] = IF s = {} THEN MatchStart ELSE F[<<g[s \ {Max(s)}], Max(s)>>]
      BY <1>5 DEF FoldedBy
    <3>2. ASSUME s # {}
          PROVE  F[<<g[s \ {Max(s)}], Max(s)>>] = MatchOn(g[s \ {Max(s)}], text[Max(s)])
      <4>1. Max(s) \in 1 .. n /\ g[s \ {Max(s)}] \in Matches
        BY <1>6, <3>2
      <4>2. QED
        BY <4>1
    <3>3. QED
      BY <3>1, <3>2
  <2>2. g = [s \in SUBSET (1 .. n) |-> g[s]]
    OBVIOUS
  <2> HIDE DEF F
  <2>3. QED
    BY <1>1, <2>1, <2>2, Zenon
<1>8. iter = [s \in SUBSET DOMAIN text |->
               IF s = {} THEN MatchStart ELSE MatchOn(iter[s \ {Max(s)}], text[Max(s)])]
  <2>1. \E f : f = [s \in SUBSET DOMAIN text |->
               IF s = {} THEN MatchStart ELSE MatchOn(f[s \ {Max(s)}], text[Max(s)])]
    BY <1>7
  <2>2. QED
    BY <2>1
<1> HIDE DEF iter, F
<1>9. at[0] = MatchStart
  <2>1. 1 .. 0 = {} /\ 0 \in 0 .. n /\ {} \in SUBSET DOMAIN text
    BY <1>1
  <2>2. iter[{}] = MatchStart
    BY <1>8, <2>1
  <2>3. QED
    BY <2>1, <2>2
<1>10. ASSUME NEW k \in 1 .. n
       PROVE  at[k] = MatchOn(at[k - 1], text[k])
  <2>1. k \in Nat \ {0} /\ k \in 0 .. n /\ k - 1 \in 0 .. n /\ 1 .. k \in SUBSET DOMAIN text
    BY <1>1
  <2>2. Max(1 .. k) = k /\ (1 .. k) \ {Max(1 .. k)} = 1 .. k - 1 /\ 1 .. k # {}
    BY <2>1, MaxOfPrefix
  <2>3. iter[1 .. k] = MatchOn(iter[(1 .. k) \ {Max(1 .. k)}], text[Max(1 .. k)])
    BY <1>8, <2>1, <2>2
  <2>4. QED
    BY <2>1, <2>2, <2>3
<1> HIDE DEF at
<1>11. \A k \in 0 .. n : at[k] \in Matches
  <2> DEFINE S == {k \in Nat : k \in 0 .. n => at[k] \in Matches}
  <2>1. 0 \in S
    BY <1>3, <1>9
  <2>2. ASSUME NEW k \in S
        PROVE  k + 1 \in S
    <3>1. k \in Nat /\ (k \in 0 .. n => at[k] \in Matches)
      OBVIOUS
    <3>2. ASSUME k + 1 \in 0 .. n
          PROVE  at[k + 1] \in Matches
      <4>1. k + 1 \in 1 .. n /\ k \in 0 .. n /\ k + 1 - 1 = k
        BY <1>1, <3>1, <3>2
      <4>2. at[k + 1] = MatchOn(at[k], text[k + 1])
        BY <1>10, <4>1
      <4>3. QED
        BY <1>1, <3>1, <4>1, <4>2, MatchTyped
    <3>3. QED
      BY <3>1, <3>2
  <2>3. S \in SUBSET Nat
    OBVIOUS
  <2> HIDE DEF S
  <2>4. S = Nat
    BY <2>1, <2>2, <2>3, Induct
  <2>5. QED
    BY <1>1, <2>4 DEF S
<1>12. at[n] = iter[DOMAIN text]
  BY <1>1 DEF at
<1>13. at = [k \in 0 .. n |-> at[k]]
  BY DEF at
<1>14. MatchRun(at, text)
  BY <1>9, <1>10, <1>11, <1>13 DEF MatchRun, n
<1>15. QED
  BY <1>2, <1>12, <1>14 DEF n

\* The text x has the letter that was at p of the content, and an end after it.
Held(x, p) == \E i, j \in DOMAIN x : i < j /\ x[i].at = p /\ x[i].kind = "a" /\ x[j].kind = "."

\* Of the letters up to place k of the text: those of the closed sentences are
\* ended, and the others are in the body, ended if they are ended in the text.
Body(at) == {i \in DOMAIN at.body : at.body[i].kind = "a"}
Ended(at) == at.where \in {"stop", "space"}
InSentence(at, p) == \E s \in DOMAIN at.sentences : Held(at.sentences[s], p)
MatchInv(at, text, k) ==
    /\ at.where = "none" => at.body = <<>>
    /\ Ended(at) => /\ \A i \in Body(at) : \E j \in DOMAIN at.body : i < j /\ at.body[j].kind = "."
                    /\ ~ Blank(at.body)
    /\ \A s \in DOMAIN at.sentences : ~ Blank(at.sentences[s])
    /\ \A i \in 1 .. k : text[i].kind = "a" =>
          \/ InSentence(at, text[i].at)
          \/ /\ \E b \in Body(at) : at.body[b].at = text[i].at
             /\ Ended(at) \/ \A j \in i .. k : text[j].kind # "."

LEMMA MatchStep ==
    ASSUME NEW text \in Seq(Char), NEW k \in 1 .. Len(text),
           NEW old \in Matches, MatchInv(old, text, k - 1)
    PROVE  MatchInv(MatchOn(old, text[k]), text, k)
<1> DEFINE c == text[k]
           at == MatchOn(old, c)
           Longer(w) == [old EXCEPT !.body = Append(@, c), !.where = w]
           Closed == Append(old.sentences, old.body)
           Next1 == [sentences |-> Closed, body |-> <<>>, where |-> "none"]
           Next2 == [sentences |-> Closed, body |-> <<c>>, where |-> "body"]
<1>1. c \in Char /\ k \in Nat /\ at \in Matches
  BY MatchTyped
<1>2. /\ old.sentences \in Seq(Seq(Char)) /\ old.body \in Seq(Char)
      /\ old.where \in {"none", "body", "stop", "space"}
  BY DEF Matches
<1>3. /\ old.where = "none" => old.body = <<>>
      /\ Ended(old) =>
            /\ \A i \in Body(old) : \E j \in DOMAIN old.body : i < j /\ old.body[j].kind = "."
            /\ ~ Blank(old.body)
      /\ \A s \in DOMAIN old.sentences : ~ Blank(old.sentences[s])
      /\ \A i \in 1 .. k - 1 : text[i].kind = "a" =>
            \/ InSentence(old, text[i].at)
            \/ /\ \E b \in Body(old) : old.body[b].at = text[i].at
               /\ Ended(old) \/ \A j \in i .. k - 1 : text[j].kind # "."
  BY DEF MatchInv
\* A longer body.
<1>4. ASSUME NEW w \in {"body", "stop", "space"},
             at = Longer(w),
             w \in {"stop", "space"} => c.kind = "." \/ (c.kind # "a" /\ Ended(old)),
             w = "body" => ~ Ended(old) /\ c.kind # "."
      PROVE  MatchInv(at, text, k)
  <2> DEFINE n == Len(old.body)
  <2>1. /\ at.sentences = old.sentences /\ at.where = w
        /\ DOMAIN at.body = 1 .. n + 1 /\ DOMAIN old.body = 1 .. n /\ n \in Nat
        /\ \A i \in 1 .. n : at.body[i] = old.body[i]
        /\ at.body[n + 1] = c
    BY <1>2, <1>4 DEF Matches
  <2> HIDE DEF at, n, c
  <2>2. \A i \in Body(old) : i \in Body(at) /\ at.body[i] = old.body[i]
    BY <2>1 DEF Body
  <2>3. Ended(at) => \A i \in Body(at) : \E j \in DOMAIN at.body : i < j /\ at.body[j].kind = "."
    <3>1. SUFFICES ASSUME Ended(at), NEW i \in Body(at)
          PROVE  \E j \in DOMAIN at.body : i < j /\ at.body[j].kind = "."
      OBVIOUS
    <3>2. i \in 1 .. n + 1 /\ at.body[i].kind = "a" /\ w \in {"stop", "space"}
      BY <2>1, <3>1 DEF Body, Ended
    <3>3. CASE c.kind = "."
      <4>1. i # n + 1
        BY <2>1, <3>2, <3>3
      <4>2. i < n + 1
        BY <2>1, <3>2, <4>1
      <4>3. n + 1 \in DOMAIN at.body
        BY <2>1
      <4>4. QED
        BY <2>1, <3>3, <4>2, <4>3
    <3>4. CASE c.kind # "a" /\ Ended(old)
      <4>1. i # n + 1
        BY <2>1, <3>2, <3>4
      <4>2. i \in 1 .. n
        BY <2>1, <3>2, <4>1
      <4>3. i \in Body(old)
        BY <2>1, <3>2, <4>2 DEF Body
      <4>4. PICK j \in DOMAIN old.body : i < j /\ old.body[j].kind = "."
        BY <1>3, <3>4, <4>3
      <4>5. j \in DOMAIN at.body /\ at.body[j] = old.body[j]
        BY <2>1
      <4>6. QED
        BY <4>4, <4>5
    <3>5. QED
      BY <1>4, <3>2, <3>3, <3>4 DEF c
  <2>4. Ended(at) => ~ Blank(at.body)
    <3>1. SUFFICES ASSUME Ended(at)
          PROVE  \E j \in DOMAIN at.body : at.body[j].kind # "n"
      BY DEF Blank
    <3>2. w \in {"stop", "space"}
      BY <2>1, <3>1 DEF Ended
    <3>3. CASE c.kind = "."
      BY <2>1, <3>3
    <3>4. CASE Ended(old)
      <4>1. PICK j \in DOMAIN old.body : old.body[j].kind # "n"
        BY <1>3, <3>4 DEF Blank
      <4>2. QED
        BY <2>1, <4>1
    <3>5. QED
      BY <1>4, <3>2, <3>3, <3>4 DEF c
  <2>5. ASSUME NEW i \in 1 .. k, text[i].kind = "a"
        PROVE  \/ InSentence(at, text[i].at)
               \/ /\ \E b \in Body(at) : at.body[b].at = text[i].at
                  /\ Ended(at) \/ \A j \in i .. k : text[j].kind # "."
    <3>1. CASE i = k
      <4>1. c.kind = "a" /\ text[i].at = c.at
        BY <2>5, <3>1 DEF c
      <4>2. n + 1 \in Body(at) /\ at.body[n + 1].at = text[i].at
        BY <2>1, <4>1 DEF Body
      <4>3. \A j \in i .. k : text[j].kind # "."
        BY <1>1, <2>5, <3>1
      <4>4. QED
        BY <4>2, <4>3
    <3>2. CASE i # k
      <4>1. i \in 1 .. k - 1
        BY <1>1, <3>2
      <4>2. CASE InSentence(old, text[i].at)
        BY <2>1, <4>2 DEF InSentence
      <4>3. CASE /\ \E b \in Body(old) : old.body[b].at = text[i].at
                 /\ Ended(old) \/ \A j \in i .. k - 1 : text[j].kind # "."
        <5>1. \E b \in Body(at) : at.body[b].at = text[i].at
          BY <2>2, <4>3
        <5>2. CASE w = "body"
          <6>1. c.kind # "." /\ ~ Ended(old)
            BY <1>4, <5>2 DEF c
          <6>2. \A j \in i .. k : text[j].kind # "."
            <7>1. TAKE j \in i .. k
            <7>2. j = k \/ j \in i .. k - 1
              BY <1>1, <4>1
            <7>3. QED
              BY <4>3, <6>1, <7>2 DEF c
          <6>3. QED
            BY <5>1, <6>2
        <5>3. CASE w # "body"
          BY <2>1, <5>1, <5>3 DEF Ended
        <5>4. QED
          BY <5>2, <5>3
      <4>4. QED
        BY <1>3, <2>5, <4>1, <4>2, <4>3
    <3>3. QED
      BY <3>1, <3>2
  <2>6. at.where # "none" /\ \A s \in DOMAIN at.sentences : ~ Blank(at.sentences[s])
    BY <1>3, <2>1
  <2>7. QED
    BY <2>3, <2>4, <2>5, <2>6 DEF MatchInv
\* A closed sentence, and c in the next body unless it is an end.
<1>5. ASSUME Ended(old),
             (c.kind = "." /\ at = Next1) \/ (c.kind # "." /\ at = Next2)
      PROVE  MatchInv(at, text, k)
  <2> DEFINE n == Len(old.sentences)
  <2>1. /\ DOMAIN at.sentences = 1 .. n + 1 /\ DOMAIN old.sentences = 1 .. n /\ n \in Nat
        /\ \A s \in 1 .. n : at.sentences[s] = old.sentences[s]
        /\ at.sentences[n + 1] = old.body
    <3>1. at.sentences = Append(old.sentences, old.body)
      BY <1>5
    <3> HIDE DEF at
    <3>2. QED
      BY <1>2, <3>1
  <2>2. /\ at.where = "none" => at.body = <<>>
        /\ ~ Ended(at)
        /\ c.kind # "." => at.body = <<c>>
    <3> HIDE DEF c
    <3>1. QED
      BY <1>5 DEF Ended
  <2> HIDE DEF at, n, c
  <2>3. \A s \in DOMAIN at.sentences : ~ Blank(at.sentences[s])
    <3>1. TAKE s \in DOMAIN at.sentences
    <3>2. s = n + 1 \/ s \in 1 .. n
      BY <2>1
    <3>3. QED
      BY <1>3, <1>5, <2>1, <3>2
  <2>4. \A p : InSentence(old, p) => InSentence(at, p)
    BY <2>1 DEF InSentence
  <2>5. ASSUME NEW i \in 1 .. k, text[i].kind = "a"
        PROVE  \/ InSentence(at, text[i].at)
               \/ /\ \E b \in Body(at) : at.body[b].at = text[i].at
                  /\ Ended(at) \/ \A j \in i .. k : text[j].kind # "."
    <3>1. CASE i = k
      <4>1. c.kind = "a" /\ text[i].at = c.at /\ at.body = <<c>>
        BY <2>2, <2>5, <3>1 DEF c
      <4>2. 1 \in Body(at) /\ at.body[1].at = text[i].at
        BY <4>1 DEF Body
      <4>3. \A j \in i .. k : text[j].kind # "."
        BY <1>1, <2>5, <3>1
      <4>4. QED
        BY <4>2, <4>3
    <3>2. CASE i # k
      <4>1. i \in 1 .. k - 1
        BY <1>1, <3>2
      <4>2. CASE InSentence(old, text[i].at)
        BY <2>4, <4>2
      <4>3. CASE \E b \in Body(old) : old.body[b].at = text[i].at
        <5>1. PICK b \in Body(old) : old.body[b].at = text[i].at
          BY <4>3
        <5>2. PICK j \in DOMAIN old.body : b < j /\ old.body[j].kind = "."
          BY <1>3, <1>5, <5>1
        <5>3. b \in DOMAIN old.body /\ old.body[b].kind = "a"
          BY DEF Body
        <5>4. Held(old.body, text[i].at)
          BY <5>1, <5>2, <5>3 DEF Held
        <5>5. n + 1 \in DOMAIN at.sentences
          BY <2>1
        <5>6. QED
          BY <2>1, <5>4, <5>5 DEF InSentence
      <4>4. QED
        BY <1>3, <2>5, <4>1, <4>2, <4>3
    <3>3. QED
      BY <3>1, <3>2
  <2>6. QED
    BY <2>2, <2>3, <2>5 DEF MatchInv
\* An end that begins no sentence.
<1>6. ASSUME old.where = "none", c.kind = ".", at = old
      PROVE  MatchInv(at, text, k)
  <2>1. Body(old) = {}
    BY <1>3, <1>6 DEF Body
  <2>2. \A i \in 1 .. k : text[i].kind = "a" => i \in 1 .. k - 1
    BY <1>1, <1>6
  <2> HIDE DEF at, c
  <2>3. \A i \in 1 .. k : text[i].kind = "a" => InSentence(at, text[i].at)
    BY <1>3, <1>6, <2>1, <2>2
  <2>4. QED
    BY <1>3, <1>6, <2>3 DEF MatchInv
<1>7. SUFFICES MatchInv(at, text, k)
  OBVIOUS
<1>8. CASE old.where = "none" /\ c.kind = "."
  BY <1>6, <1>8 DEF MatchOn
<1>9. CASE old.where = "none" /\ c.kind # "."
  <2>1. at = Longer("body") /\ ~ Ended(old)
    BY <1>9 DEF MatchOn, Ended
  <2> HIDE DEF at, c, Longer
  <2>2. "body" \notin {"stop", "space"}
    OBVIOUS
  <2>3. QED
    BY <1>4, <1>9, <2>1, <2>2
<1>10. CASE old.where = "body"
  <2>1. at = Longer(IF c.kind = "." THEN "stop" ELSE "body") /\ ~ Ended(old)
    BY <1>10 DEF MatchOn, Ended
  <2> HIDE DEF at, c, Longer
  <2>2. CASE c.kind = "."
    <3>1. at = Longer("stop")
      BY <2>1, <2>2
    <3>2. QED
      BY <1>4, <2>2, <3>1
  <2>3. CASE c.kind # "."
    <3>1. at = Longer("body")
      BY <2>1, <2>3
    <3>2. QED
      BY <1>4, <2>1, <2>3, <3>1
  <2>4. QED
    BY <2>2, <2>3
<1>11. CASE old.where \in {"stop", "space"}
  <2>1. Ended(old) /\ old.where # "none" /\ old.where # "body"
    BY <1>11 DEF Ended
  <2>2. CASE c.kind = "n"
    <3>1. at = Longer("space")
      BY <2>1, <2>2 DEF MatchOn
    <3> HIDE DEF at, c, Longer, Next1, Next2
    <3>2. QED
      BY <1>4, <2>1, <2>2, <3>1
  <2>3. CASE c.kind = "." /\ old.where = "stop"
    <3>1. at = Longer("stop")
      BY <2>1, <2>3 DEF MatchOn
    <3> HIDE DEF at, c, Longer, Next1, Next2
    <3>2. QED
      BY <1>4, <2>1, <2>3, <3>1
  <2>4. CASE c.kind = "." /\ old.where = "space"
    <3>1. at = Next1
      BY <2>1, <2>4 DEF MatchOn
    <3> HIDE DEF at, c, Longer, Next1, Next2
    <3>2. QED
      BY <1>5, <2>1, <2>4, <3>1
  <2>5. CASE c.kind # "n" /\ c.kind # "."
    <3>1. at = Next2
      BY <2>1, <2>5 DEF MatchOn
    <3> HIDE DEF at, c, Longer, Next1, Next2
    <3>2. QED
      BY <1>5, <2>1, <2>5, <3>1
  <2>6. QED
    BY <1>11, <2>2, <2>3, <2>4, <2>5
<1>12. QED
  BY <1>2, <1>8, <1>9, <1>10, <1>11

\* Sentences are texts that are not blank, and hold all that is ended.
LEMMA SentencesHold ==
    ASSUME NEW text \in Seq(Char), ~ Blank(text)
    PROVE  /\ Sentences(text) \in Seq(Seq(Char))
           /\ \A k \in 1 .. Len(Sentences(text)) : ~ Blank(Sentences(text)[k])
           /\ \A p : Held(text, p) =>
                 \E k \in 1 .. Len(Sentences(text)) : Held(Sentences(text)[k], p)
<1> DEFINE n == Len(text)
<1>1. n \in Nat /\ DOMAIN text = 1 .. n
  OBVIOUS
<1>2. PICK run : MatchRun(run, text) /\ FoldLeft(MatchOn, MatchStart, text) = run[n]
  BY MatchesRun
<1> DEFINE S == {k \in Nat : k \in 0 .. n => MatchInv(run[k], text, k)}
<1>3. 0 \in S
  <2>1. run[0] = MatchStart
    BY <1>2 DEF MatchRun
  <2>2. MatchInv(MatchStart, text, 0)
    BY DEF MatchInv, MatchStart, Ended
  <2>3. QED
    BY <2>1, <2>2
<1>4. ASSUME NEW k \in S
      PROVE  k + 1 \in S
  <2>1. k \in Nat /\ (k \in 0 .. n => MatchInv(run[k], text, k))
    OBVIOUS
  <2>2. ASSUME k + 1 \in 0 .. n
        PROVE  MatchInv(run[k + 1], text, k + 1)
    <3>1. k + 1 \in 1 .. n /\ k \in 0 .. n /\ k + 1 - 1 = k
      BY <1>1, <2>1, <2>2
    <3>2. run[k + 1] = MatchOn(run[k], text[k + 1]) /\ run[k] \in Matches
      BY <1>2, <3>1 DEF MatchRun
    <3>3. MatchInv(run[k], text, k + 1 - 1)
      BY <2>1, <3>1
    <3>4. MatchInv(MatchOn(run[k], text[k + 1]), text, k + 1)
      BY <3>1, <3>2, <3>3, MatchStep
    <3>5. QED
      BY <3>2, <3>4
  <2>3. QED
    BY <2>1, <2>2
<1>5. S \in SUBSET Nat
  OBVIOUS
<1> HIDE DEF S
<1>6. S = Nat
  BY <1>3, <1>4, <1>5, Induct
<1> DEFINE at == run[n]
<1>7. MatchInv(at, text, n) /\ at \in Matches
  <2>1. n \in S /\ n \in 0 .. n
    BY <1>1, <1>6
  <2>2. QED
    BY <1>2, <2>1 DEF S, MatchRun
<1>8. Sentences(text) = OrAll(Matched(at), text)
  BY <1>2 DEF Sentences, MatchStart
<1> HIDE DEF at, n
<1>9. at.sentences \in Seq(Seq(Char)) /\ at.body \in Seq(Char)
  BY <1>7 DEF Matches
<1> DEFINE m == Matched(at)
<1>10. m = IF Ended(at) THEN Append(at.sentences, at.body) ELSE at.sentences
  BY DEF Matched, Ended
<1>11. m \in Seq(Seq(Char))
  BY <1>9, <1>10
<1>12. \A k \in 1 .. Len(at.sentences) : k \in 1 .. Len(m) /\ m[k] = at.sentences[k]
  BY <1>9, <1>10
<1>13. Ended(at) => /\ Len(m) = Len(at.sentences) + 1 /\ m[Len(m)] = at.body
                    /\ Len(m) \in 1 .. Len(m)
  BY <1>9, <1>10
<1>14. Len(m) = IF Ended(at) THEN Len(at.sentences) + 1 ELSE Len(at.sentences)
  BY <1>9, <1>10
<1>15. /\ Ended(at) =>
            /\ \A i \in Body(at) : \E j \in DOMAIN at.body : i < j /\ at.body[j].kind = "."
            /\ ~ Blank(at.body)
       /\ \A s \in DOMAIN at.sentences : ~ Blank(at.sentences[s])
       /\ \A i \in 1 .. n : text[i].kind = "a" =>
             \/ InSentence(at, text[i].at)
             \/ /\ \E b \in Body(at) : at.body[b].at = text[i].at
                /\ Ended(at) \/ \A j \in i .. n : text[j].kind # "."
  BY <1>7 DEF MatchInv
<1>16. DOMAIN at.sentences = 1 .. Len(at.sentences) /\ Len(at.sentences) \in Nat
  BY <1>9
<1> HIDE DEF m
<1>17. \A k \in 1 .. Len(m) : ~ Blank(m[k])
  <2>1. TAKE k \in 1 .. Len(m)
  <2>2. CASE k \in 1 .. Len(at.sentences)
    BY <1>12, <1>15, <1>16, <2>2
  <2>3. CASE k \notin 1 .. Len(at.sentences)
    <3>1. Ended(at) /\ k = Len(m)
      BY <1>14, <1>16, <2>3
    <3>2. QED
      BY <1>13, <1>15, <3>1
  <2>4. QED
    BY <2>2, <2>3
<1>18. ASSUME NEW p, Held(text, p)
       PROVE  \E k \in 1 .. Len(m) : Held(m[k], p)
  <2>1. PICK i \in DOMAIN text, j \in DOMAIN text :
            i < j /\ text[i].at = p /\ text[i].kind = "a" /\ text[j].kind = "."
    BY <1>18 DEF Held
  <2>2. i \in 1 .. n /\ j \in i .. n
    BY <1>1, <2>1
  <2>3. CASE InSentence(at, p)
    BY <1>12, <1>16, <2>3 DEF InSentence
  <2>4. CASE ~ InSentence(at, p)
    <3>1. (\E b \in Body(at) : at.body[b].at = p) /\ Ended(at)
      BY <1>15, <2>1, <2>2, <2>4
    <3>2. PICK b \in Body(at) : at.body[b].at = p
      BY <3>1
    <3>3. PICK e \in DOMAIN at.body : b < e /\ at.body[e].kind = "."
      BY <1>15, <3>1
    <3>4. b \in DOMAIN at.body /\ at.body[b].kind = "a"
      BY DEF Body
    <3>5. Held(at.body, p)
      BY <3>2, <3>3, <3>4 DEF Held
    <3>6. QED
      BY <1>13, <3>1, <3>5
  <2>5. QED
    BY <2>3, <2>4
<1>19. CASE m = <<>>
  <2>1. Sentences(text) = <<text>>
    BY <1>8, <1>19 DEF OrAll, m
  <2>2. <<text>> \in Seq(Seq(Char)) /\ Len(<<text>>) = 1 /\ <<text>>[1] = text
    OBVIOUS
  <2>3. QED
    BY <2>1, <2>2
<1>20. CASE m # <<>>
  <2>1. Sentences(text) = m
    BY <1>8, <1>20 DEF OrAll, m
  <2>2. QED
    BY <1>11, <1>17, <1>18, <2>1
<1>21. QED
  BY <1>19, <1>20

-----------------------------------------------------------------------------
(***************************************************************************)
(* The loops: chunks are numbered and not blank, and what a piece holds is *)
(* held by a chunk or by the current one.                                  *)
(***************************************************************************)
Chunk == [content : Seq(Char), index : Nat]
Loop == [chunks : Seq(Chunk), current : Seq(Char), index : Nat]

Numbered(chunks, from) == \A k \in 1 .. Len(chunks) :
    chunks[k].index = from + (k - 1) /\ ~ Blank(chunks[k].content)
SomeHolds(chunks, p) == \E k \in 1 .. Len(chunks) : Held(chunks[k].content, p)

LoopInv(at, from) ==
    /\ at \in Loop /\ Numbered(at.chunks, from) /\ at.index = from + Len(at.chunks)
    /\ at.current = <<>> \/ ~ Blank(at.current)
Keeps(at, p) == SomeHolds(at.chunks, p) \/ Held(at.current, p)

LEMMA TrimKeeps ==
    ASSUME NEW text \in Seq(Char), ~ Blank(text)
    PROVE  /\ Trim(text) \in Seq(Char) /\ ~ Blank(Trim(text))
           /\ \A p : Held(text, p) => Held(Trim(text), p)
<1> DEFINE Ink == {k \in DOMAIN text : text[k].kind # "n"}
           n == Len(text) a == Min(Ink) b == Max(Ink) cut == SubSeq(text, a, b)
<1>1. n \in Nat /\ DOMAIN text = 1 .. n /\ \A k \in 1 .. n : text[k] \in Char
  OBVIOUS
<1>2. Ink # {} /\ Ink \in SUBSET (1 .. n) /\ Ink \in SUBSET Int
  BY DEF Blank
<1>3. Trim(text) = cut
  BY <1>2 DEF Trim
<1>4. \A k \in Ink : text[k].kind # "n"
  OBVIOUS
<1>5. \A k \in 1 .. n : text[k].kind # "n" => k \in Ink
  BY <1>1
<1>6. IsFiniteSet(Ink)
  <2>1. IsFiniteSet(1 .. n)
    BY <1>1, FS_Interval
  <2> HIDE DEF Ink
  <2>2. QED
    BY <1>2, <2>1, FS_Subset
<1> HIDE DEF Ink
<1>7. a \in Ink /\ b \in Ink /\ \A k \in Ink : a <= k /\ k <= b
  BY <1>2, <1>6, MinOfSet, MaxOfSet
<1>8. a \in 1 .. n /\ b \in 1 .. n /\ a <= b
  BY <1>2, <1>7
<1> HIDE DEF a, b, n
<1>9. cut = [k \in 1 .. b - a + 1 |-> text[a + k - 1]] /\ b - a + 1 \in Nat
  BY <1>1, <1>8
<1> HIDE DEF cut
<1>10. ASSUME NEW k \in a .. b
       PROVE  k - a + 1 \in DOMAIN cut /\ cut[k - a + 1] = text[k]
  <2>1. k - a + 1 \in 1 .. b - a + 1 /\ a + (k - a + 1) - 1 = k
    BY <1>1, <1>8
  <2>2. QED
    BY <1>9, <2>1
<1>11. cut \in Seq(Char)
  <2>1. \A k \in 1 .. b - a + 1 : text[a + k - 1] \in Char
    BY <1>1, <1>8
  <2>2. QED
    BY <1>9, <2>1
<1>12. ~ Blank(cut)
  BY <1>4, <1>7, <1>8, <1>10 DEF Blank
<1>13. ASSUME NEW p, Held(text, p)
       PROVE  Held(cut, p)
  <2>1. PICK i \in 1 .. n, j \in 1 .. n :
            i < j /\ text[i].at = p /\ text[i].kind = "a" /\ text[j].kind = "."
    BY <1>1, <1>13 DEF Held
  <2>2. i \in Ink /\ j \in Ink
    BY <1>5, <2>1
  <2>3. i \in a .. b /\ j \in a .. b
    BY <1>1, <1>7, <1>8, <2>2
  <2>4. i - a + 1 < j - a + 1
    BY <1>8, <2>1, <2>3
  <2>5. QED
    BY <1>10, <2>1, <2>3, <2>4 DEF Held
<1>14. QED
  BY <1>3, <1>11, <1>12, <1>13

\* What is held stays held in a longer text.
LEMMA LongerHolds ==
    ASSUME NEW x \in Seq(Char), NEW y \in Seq(Char)
    PROVE  /\ x \o y \in Seq(Char) /\ (~ Blank(x) \/ ~ Blank(y) => ~ Blank(x \o y))
           /\ \A p : Held(x, p) \/ Held(y, p) => Held(x \o y, p)
<1> DEFINE m == Len(x) n == Len(y) xy == x \o y
<1>1. /\ m \in Nat /\ n \in Nat /\ DOMAIN x = 1 .. m /\ DOMAIN y = 1 .. n /\ DOMAIN xy = 1 .. m + n
      /\ \A k \in 1 .. m : xy[k] = x[k]
      /\ \A k \in 1 .. n : xy[m + k] = y[k]
      /\ xy \in Seq(Char)
  OBVIOUS
<1> HIDE DEF m, n, xy
<1>2. /\ \A k \in 1 .. m : k \in 1 .. m + n
      /\ \A k \in 1 .. n : m + k \in 1 .. m + n
      /\ \A i, j \in 1 .. n : i < j => m + i < m + j
  BY <1>1
<1>3. ~ Blank(x) \/ ~ Blank(y) => ~ Blank(xy)
  BY <1>1, <1>2 DEF Blank
<1>4. ASSUME NEW p, Held(x, p)
      PROVE  Held(xy, p)
  BY <1>1, <1>2, <1>4 DEF Held
<1>5. ASSUME NEW p, Held(y, p)
      PROVE  Held(xy, p)
  <2>1. PICK i \in 1 .. n, j \in 1 .. n :
            i < j /\ y[i].at = p /\ y[i].kind = "a" /\ y[j].kind = "."
    BY <1>1, <1>5 DEF Held
  <2>2. m + i \in DOMAIN xy /\ m + j \in DOMAIN xy
    BY <1>1, <1>2
  <2>3. m + i < m + j
    BY <1>1, <2>1
  <2>4. xy[m + i] = y[i] /\ xy[m + j] = y[j]
    BY <1>1
  <2>5. QED
    BY <2>1, <2>2, <2>4, <2>3 DEF Held
<1>6. QED
  BY <1>1, <1>3, <1>4, <1>5 DEF xy

LEMMA OverlapTyped ==
    ASSUME NEW text \in Seq(Char)
    PROVE  GetOverlapText(text) \in Seq(Char)
<1>1. ChunkOverlap \in Nat /\ Len(text) \in Nat
  BY ChunkingAssumption
<1>2. CASE Len(text) <= ChunkOverlap
  BY <1>2 DEF GetOverlapText
<1>3. CASE Len(text) > ChunkOverlap
  <2> DEFINE n == Len(text) m == n - ChunkOverlap + 1
  <2>1. GetOverlapText(text) = SubSeq(text, m, n)
    BY <1>1, <1>3 DEF GetOverlapText
  <2>2. m \in 1 .. n + 1 /\ n \in Nat
    BY <1>1, <1>3
  <2>3. \A k \in m .. n : text[k] \in Char
    BY <2>2
  <2> HIDE DEF m
  <2>4. SubSeq(text, m, n) \in Seq(Char)
    BY <2>2, <2>3
  <2>5. QED
    BY <2>1, <2>4
<1>4. QED
  BY <1>1, <1>2, <1>3

LEMMA PushKeeps ==
    ASSUME NEW at, NEW from \in Nat, LoopInv(at, from), ~ Blank(at.current)
    PROVE  LET chunks == Push(at).chunks
           IN /\ chunks \in Seq(Chunk) /\ Numbered(chunks, from)
              /\ Len(chunks) = Len(at.chunks) + 1
              /\ \A p : Keeps(at, p) => SomeHolds(chunks, p)
<1> DEFINE n == Len(at.chunks)
           last == [content |-> Trim(at.current), index |-> at.index]
           chunks == Push(at).chunks
<1>1. /\ at.chunks \in Seq(Chunk) /\ at.current \in Seq(Char) /\ at.index = from + n
      /\ n \in Nat /\ Numbered(at.chunks, from)
  BY DEF LoopInv, Loop
<1>2. chunks = Append(at.chunks, last)
  BY DEF Push, LoopInv, Loop
<1>3. /\ Trim(at.current) \in Seq(Char) /\ ~ Blank(Trim(at.current))
      /\ \A p : Held(at.current, p) => Held(Trim(at.current), p)
  BY <1>1, TrimKeeps
<1>4. last \in Chunk
  BY <1>1, <1>3 DEF Chunk
<1>5. /\ chunks \in Seq(Chunk) /\ Len(chunks) = n + 1 /\ chunks[n + 1] = last
      /\ \A k \in 1 .. n : chunks[k] = at.chunks[k]
  BY <1>1, <1>2, <1>4
<1>6. last.content = Trim(at.current) /\ last.index = from + n
  BY <1>1
<1> HIDE DEF chunks, last, n
<1>7. ASSUME NEW k \in 1 .. Len(chunks)
      PROVE  chunks[k].index = from + (k - 1) /\ ~ Blank(chunks[k].content)
  <2>1. CASE k = n + 1
    BY <1>1, <1>3, <1>5, <1>6, <2>1
  <2>2. CASE k # n + 1
    <3>1. k \in 1 .. n
      BY <1>1, <1>5, <2>2
    <3>2. QED
      BY <1>1, <1>5, <3>1 DEF Numbered, n
  <2>3. QED
    BY <2>1, <2>2
<1>8. ASSUME NEW p, Keeps(at, p)
      PROVE  SomeHolds(chunks, p)
  <2>1. CASE SomeHolds(at.chunks, p)
    <3>1. PICK k \in 1 .. n : Held(at.chunks[k].content, p)
      BY <2>1 DEF SomeHolds, n
    <3>2. k \in 1 .. Len(chunks)
      BY <1>1, <1>5
    <3>3. QED
      BY <1>5, <3>1, <3>2 DEF SomeHolds
  <2>2. CASE Held(at.current, p)
    <3>1. n + 1 \in 1 .. Len(chunks)
      BY <1>1, <1>5
    <3>2. QED
      BY <1>3, <1>5, <1>6, <2>2, <3>1 DEF SomeHolds
  <2>3. QED
    BY <1>8, <2>1, <2>2 DEF Keeps
<1>9. QED
  BY <1>5, <1>7, <1>8 DEF Numbered, chunks, n

LEMMA AddKeeps ==
    ASSUME NEW at, NEW from \in Nat, LoopInv(at, from),
           NEW piece \in Seq(Char), ~ Blank(piece), NEW between \in Seq(Char)
    PROVE  /\ LoopInv(Add(at, piece, between), from)
           /\ \A p : Keeps(at, p) \/ Held(piece, p) => Keeps(Add(at, piece, between), p)
<1> DEFINE next == Add(at, piece, between)
           full == at.current # <<>> /\ Len(at.current) + Len(piece) + Len(between) > ChunkSize
           chunks == Push(at).chunks
           over == GetOverlapText(at.current)
<1>1. /\ at \in Loop /\ at.chunks \in Seq(Chunk) /\ at.current \in Seq(Char) /\ at.index \in Nat
      /\ at.index = from + Len(at.chunks) /\ Len(at.chunks) \in Nat /\ Numbered(at.chunks, from)
  BY DEF LoopInv, Loop
<1>2. CASE full
  <2>1. next = [chunks |-> chunks, index |-> at.index + 1, current |-> over \o piece]
    BY <1>2 DEF Add
  <2>2. ~ Blank(at.current)
    BY <1>2 DEF LoopInv
  <2>3. /\ chunks \in Seq(Chunk) /\ Numbered(chunks, from)
        /\ Len(chunks) = Len(at.chunks) + 1
        /\ \A p : Keeps(at, p) => SomeHolds(chunks, p)
    BY <2>2, PushKeeps
  <2>4. over \in Seq(Char)
    BY <1>1, OverlapTyped
  <2>5. /\ over \o piece \in Seq(Char) /\ ~ Blank(over \o piece)
        /\ \A p : Held(piece, p) => Held(over \o piece, p)
    BY <2>4, LongerHolds
  <2> HIDE DEF next, chunks, over, full
  <2>6. next.chunks = chunks /\ next.current = over \o piece /\ next.index = at.index + 1
    BY <2>1
  <2>7. next \in Loop
    <3> DEFINE current == over \o piece index == at.index + 1
    <3>1. index \in Nat /\ current \in Seq(Char)
      BY <1>1, <2>5
    <3>2. next = [chunks |-> chunks, index |-> index, current |-> current]
      BY <2>1
    <3> HIDE DEF current, index
    <3>3. QED
      BY <2>3, <3>1, <3>2 DEF Loop
  <2>8. next.index = from + Len(next.chunks)
    <3> DEFINE n == Len(at.chunks)
    <3>1. Len(next.chunks) = n + 1
      BY <2>3, <2>6, Zenon
    <3>2. next.index = from + n + 1 /\ n \in Nat
      BY <1>1, <2>6
    <3> HIDE DEF n
    <3>3. QED
      BY <3>1, <3>2
  <2>9. LoopInv(next, from)
    BY <2>3, <2>5, <2>6, <2>7, <2>8 DEF LoopInv
  <2>10. \A p : Keeps(at, p) \/ Held(piece, p) => Keeps(next, p)
    BY <2>3, <2>5, <2>6 DEF Keeps
  <2>11. QED
    BY <2>9, <2>10 DEF next
<1>3. CASE ~ full
  <2> DEFINE current == IF at.current = <<>> THEN piece ELSE at.current \o between \o piece
  <2>1. next = [at EXCEPT !.current = current]
    BY <1>3 DEF Add
  <2>2. at.current \o between \in Seq(Char)
        /\ \A p : Held(at.current, p) => Held(at.current \o between, p)
    BY <1>1, LongerHolds
  <2>3. /\ (at.current \o between) \o piece \in Seq(Char)
        /\ ~ Blank((at.current \o between) \o piece)
        /\ \A p : Held(at.current \o between, p) \/ Held(piece, p) =>
               Held((at.current \o between) \o piece, p)
    BY <2>2, LongerHolds
  <2>4. \A p : ~ Held(<<>>, p)
    BY DEF Held
  <2>5. /\ current \in Seq(Char) /\ ~ Blank(current)
        /\ \A p : Held(at.current, p) \/ Held(piece, p) => Held(current, p)
    BY <2>2, <2>3, <2>4
  <2> HIDE DEF next, current, full
  <2>6. next.chunks = at.chunks /\ next.current = current /\ next.index = at.index /\ next \in Loop
    BY <1>1, <2>1, <2>5 DEF Loop
  <2>7. LoopInv(next, from)
    BY <1>1, <2>5, <2>6 DEF LoopInv
  <2>8. \A p : Keeps(at, p) \/ Held(piece, p) => Keeps(next, p)
    BY <2>5, <2>6 DEF Keeps
  <2>9. QED
    BY <2>7, <2>8 DEF next
<1>4. QED
  BY <1>2, <1>3

LEMMA RestKeeps ==
    ASSUME NEW at, NEW from \in Nat, LoopInv(at, from)
    PROVE  /\ Rest(at) \in Seq(Chunk) /\ Numbered(Rest(at), from)
           /\ \A p : Keeps(at, p) => SomeHolds(Rest(at), p)
<1>1. CASE Blank(at.current)
  <2>1. Rest(at) = at.chunks
    BY <1>1 DEF Rest
  <2>2. \A p : ~ Held(at.current, p)
    BY <1>1 DEF Held, Blank
  <2>3. QED
    BY <2>1, <2>2 DEF LoopInv, Loop, Keeps
<1>2. CASE ~ Blank(at.current)
  BY <1>2, PushKeeps DEF Rest
<1>3. QED
  BY <1>1, <1>2

LEMMA BeginKeeps ==
    ASSUME NEW from \in Nat
    PROVE  LoopInv(Begin(from), from)
BY DEF LoopInv, Begin, Loop, Numbered

LEMMA EmptyIsText == <<>> \in Seq(Char)
OBVIOUS

\* The loop over sentences as a run from left to right.
LEMMA SentenceRun ==
    ASSUME NEW pieces \in Seq(Seq(Char)), \A k \in 1 .. Len(pieces) : ~ Blank(pieces[k]),
           NEW from \in Nat
    PROVE  \E at : /\ at[0] = Begin(from)
                   /\ \A k \in 1 .. Len(pieces) : at[k] = Add(at[k - 1], pieces[k], <<>>)
                   /\ FoldLeft(LAMBDA a, s : Add(a, s, <<>>), Begin(from), pieces) = at[Len(pieces)]
<1> DEFINE n == Len(pieces)
           State == {at \in Loop : LoopInv(at, from)}
           F == [p \in State \X (1 .. n) |-> Add(p[1], pieces[p[2]], <<>>)]
           iter[s \in SUBSET DOMAIN pieces] ==
               IF s = {} THEN Begin(from) ELSE Add(iter[s \ {Max(s)}], pieces[Max(s)], <<>>)
           at == [k \in 0 .. n |-> iter[1 .. k]]
<1>1. n \in Nat /\ DOMAIN pieces = 1 .. n /\ \A k \in 1 .. n : pieces[k] \in Seq(Char)
  OBVIOUS
<1>2. FoldLeft(LAMBDA a, s : Add(a, s, <<>>), Begin(from), pieces) = iter[DOMAIN pieces]
  BY DEF FoldLeft, MapThenFoldSet
<1>3. Begin(from) \in State
  BY BeginKeeps DEF LoopInv
<1>4. F \in [State \X (1 .. n) -> State]
  <2>1. ASSUME NEW a \in State, NEW k \in 1 .. n
        PROVE  Add(a, pieces[k], <<>>) \in State
    <3>1. LoopInv(Add(a, pieces[k], <<>>), from)
      BY <1>1, EmptyIsText, AddKeeps
    <3>2. QED
      BY <3>1 DEF LoopInv
  <2> HIDE DEF State
  <2>2. QED
    BY <2>1
<1> HIDE DEF n, State
<1>5. PICK g \in [SUBSET (1 .. n) -> State] : FoldedBy(g, n, Begin(from), F)
  BY <1>1, <1>3, <1>4, FoldExists
<1>6. \A s \in SUBSET (1 .. n) : s # {} => Max(s) \in 1 .. n
  BY <1>1, MaxInside
<1>7. g = [s \in SUBSET DOMAIN pieces |->
               IF s = {} THEN Begin(from) ELSE Add(g[s \ {Max(s)}], pieces[Max(s)], <<>>)]
  <2>1. ASSUME NEW s \in SUBSET (1 .. n)
        PROVE  g[s] = IF s = {} THEN Begin(from) ELSE Add(g[s \ {Max(s)}], pieces[Max(s)], <<>>)
    <3>1. g[s] = IF s = {} THEN Begin(from) ELSE F[<<g[s \ {Max(s)}], Max(s)>>]
      BY <1>5 DEF FoldedBy
    <3>2. ASSUME s # {}
          PROVE  F[<<g[s \ {Max(s)}], Max(s)>>] = Add(g[s \ {Max(s)}], pieces[Max(s)], <<>>)
      <4>1. Max(s) \in 1 .. n /\ g[s \ {Max(s)}] \in State
        BY <1>6, <3>2
      <4>2. QED
        BY <4>1
    <3>3. QED
      BY <3>1, <3>2
  <2>2. g = [s \in SUBSET (1 .. n) |-> g[s]]
    OBVIOUS
  <2> HIDE DEF F
  <2>3. QED
    BY <1>1, <2>1, <2>2, Zenon
<1>8. iter = [s \in SUBSET DOMAIN pieces |->
               IF s = {} THEN Begin(from) ELSE Add(iter[s \ {Max(s)}], pieces[Max(s)], <<>>)]
  <2>1. \E f : f = [s \in SUBSET DOMAIN pieces |->
               IF s = {} THEN Begin(from) ELSE Add(f[s \ {Max(s)}], pieces[Max(s)], <<>>)]
    BY <1>7
  <2>2. QED
    BY <2>1
<1> HIDE DEF iter, F
<1>9. at[0] = Begin(from)
  <2>1. 1 .. 0 = {} /\ 0 \in 0 .. n /\ {} \in SUBSET DOMAIN pieces
    BY <1>1
  <2>2. iter[{}] = Begin(from)
    BY <1>8, <2>1
  <2>3. QED
    BY <2>1, <2>2
<1>10. ASSUME NEW k \in 1 .. n
       PROVE  at[k] = Add(at[k - 1], pieces[k], <<>>)
  <2>1. k \in Nat \ {0} /\ k \in 0 .. n /\ k - 1 \in 0 .. n /\ 1 .. k \in SUBSET DOMAIN pieces
    BY <1>1
  <2>2. Max(1 .. k) = k /\ (1 .. k) \ {Max(1 .. k)} = 1 .. k - 1 /\ 1 .. k # {}
    BY <2>1, MaxOfPrefix
  <2>3. iter[1 .. k] = Add(iter[(1 .. k) \ {Max(1 .. k)}], pieces[Max(1 .. k)], <<>>)
    BY <1>8, <2>1, <2>2
  <2>4. QED
    BY <2>1, <2>2, <2>3
<1>11. at[n] = iter[DOMAIN pieces]
  BY <1>1
<1> HIDE DEF at
<1>12. QED
  BY <1>2, <1>9, <1>10, <1>11 DEF n

\* Every step takes what one more piece holds.
LoopRun(at, pieces, n, from) ==
    /\ LoopInv(at[0], from)
    /\ \A k \in 1 .. n : LoopInv(at[k - 1], from) =>
           /\ LoopInv(at[k], from)
           /\ \A p : Keeps(at[k - 1], p) \/ Held(pieces[k], p) => Keeps(at[k], p)

LEMMA RunKeeps ==
    ASSUME NEW n \in Nat, NEW pieces, NEW at, NEW from, LoopRun(at, pieces, n, from)
    PROVE  /\ LoopInv(at[n], from)
           /\ \A p : (\E k \in 1 .. n : Held(pieces[k], p)) => Keeps(at[n], p)
<1> DEFINE Good(k) == /\ LoopInv(at[k], from)
                      /\ \A p : (\E j \in 1 .. k : Held(pieces[j], p)) => Keeps(at[k], p)
           S == {k \in Nat : k <= n => Good(k)}
<1>1. 0 \in S
  BY DEF LoopRun
<1>2. ASSUME NEW k \in S
      PROVE  k + 1 \in S
  <2>1. k \in Nat /\ (k <= n => Good(k))
    OBVIOUS
  <2>2. ASSUME k + 1 <= n
        PROVE  Good(k + 1)
    <3>1. k + 1 \in 1 .. n /\ k + 1 - 1 = k /\ k <= n
      BY <2>1, <2>2
    <3>2. LoopInv(at[k], from)
      BY <2>1, <3>1
    <3>3. /\ LoopInv(at[k + 1], from)
          /\ \A p : Keeps(at[k], p) \/ Held(pieces[k + 1], p) => Keeps(at[k + 1], p)
      BY <3>1, <3>2 DEF LoopRun
    <3>4. ASSUME NEW p, NEW j \in 1 .. k + 1, Held(pieces[j], p)
          PROVE  Keeps(at[k + 1], p)
      <4>1. CASE j = k + 1
        BY <3>3, <3>4, <4>1
      <4>2. CASE j # k + 1
        <5>1. j \in 1 .. k
          BY <2>1, <4>2
        <5>2. Keeps(at[k], p)
          BY <2>1, <3>1, <3>4, <5>1
        <5>3. QED
          BY <3>3, <5>2
      <4>3. QED
        BY <4>1, <4>2
    <3>5. QED
      BY <3>3, <3>4
  <2>3. QED
    BY <2>1, <2>2
<1>3. S \in SUBSET Nat
  OBVIOUS
<1> HIDE DEF S
<1>4. S = Nat
  BY <1>1, <1>2, <1>3, Induct
<1>5. n \in S /\ n <= n
  BY <1>4
<1> HIDE DEF Good
<1>6. Good(n)
  BY <1>5 DEF S
<1>7. QED
  BY <1>6 DEF Good

\* splitBySentences.
LEMMA SplitKeeps ==
    ASSUME NEW text \in Seq(Char), ~ Blank(text), NEW from \in Nat
    PROVE  LET chunks == SplitBySentences(text, from)
           IN /\ chunks \in Seq(Chunk) /\ Numbered(chunks, from)
              /\ \A p : Held(text, p) => SomeHolds(chunks, p)
<1> DEFINE pieces == Sentences(text)
           n == Len(pieces)
<1>1. /\ pieces \in Seq(Seq(Char)) /\ \A k \in 1 .. n : ~ Blank(pieces[k])
      /\ \A p : Held(text, p) => \E k \in 1 .. n : Held(pieces[k], p)
  BY SentencesHold
<1> HIDE DEF pieces
<1>2. n \in Nat /\ \A k \in 1 .. n : pieces[k] \in Seq(Char)
  BY <1>1
<1>3. PICK at : /\ at[0] = Begin(from)
                /\ \A k \in 1 .. n : at[k] = Add(at[k - 1], pieces[k], <<>>)
                /\ FoldLeft(LAMBDA a, s : Add(a, s, <<>>), Begin(from), pieces) = at[n]
  BY <1>1, SentenceRun
<1>4. SplitBySentences(text, from) = Rest(at[n])
  BY <1>3 DEF SplitBySentences, pieces
<1>5. LoopRun(at, pieces, n, from)
  <2>1. LoopInv(at[0], from)
    BY <1>3, BeginKeeps
  <2>2. ASSUME NEW k \in 1 .. n, LoopInv(at[k - 1], from)
        PROVE  /\ LoopInv(at[k], from)
               /\ \A p : Keeps(at[k - 1], p) \/ Held(pieces[k], p) => Keeps(at[k], p)
    <3>1. at[k] = Add(at[k - 1], pieces[k], <<>>) /\ pieces[k] \in Seq(Char) /\ ~ Blank(pieces[k])
      BY <1>1, <1>2, <1>3
    <3> DEFINE old == at[k - 1] piece == pieces[k]
    <3> HIDE DEF old, piece
    <3>2. LoopInv(old, from) /\ piece \in Seq(Char) /\ ~ Blank(piece) /\ <<>> \in Seq(Char)
      BY <2>2, <3>1, EmptyIsText DEF old, piece
    <3>3. /\ LoopInv(Add(old, piece, <<>>), from)
          /\ \A p : Keeps(old, p) \/ Held(piece, p) => Keeps(Add(old, piece, <<>>), p)
      BY <3>2, AddKeeps
    <3>4. QED
      BY <3>1, <3>3 DEF old, piece
  <2> HIDE DEF n
  <2>3. QED
    BY <2>1, <2>2 DEF LoopRun
<1> HIDE DEF n
<1>6. /\ LoopInv(at[n], from)
      /\ \A p : (\E k \in 1 .. n : Held(pieces[k], p)) => Keeps(at[n], p)
  BY <1>2, <1>5, RunKeeps
<1>7. /\ Rest(at[n]) \in Seq(Chunk) /\ Numbered(Rest(at[n]), from)
      /\ \A p : Keeps(at[n], p) => SomeHolds(Rest(at[n]), p)
  BY <1>6, RestKeeps
<1>8. QED
  BY <1>1, <1>4, <1>6, <1>7

\* xy is x and then y.
Joined(x, y, xy, S) ==
    /\ xy \in Seq(S) /\ Len(xy) = Len(x) + Len(y)
    /\ \A k \in 1 .. Len(x) : xy[k] = x[k]
    /\ \A k \in 1 .. Len(y) : xy[Len(x) + k] = y[k]

LEMMA TwoSeqs ==
    ASSUME NEW S, NEW x \in Seq(S), NEW y \in Seq(S)
    PROVE  Joined(x, y, x \o y, S)
BY DEF Joined

\* The last sentence chunk goes on as the current one, under its number.
LEMMA CutKeeps ==
    ASSUME NEW at, NEW from \in Nat, LoopInv(at, from)
    PROVE  /\ LoopInv(Cut(at), from)
           /\ \A p : Keeps(at, p) => Keeps(Cut(at), p)
<1> DEFINE pieces == SplitBySentences(at.current, at.index)
           n == Len(pieces) m == Len(at.chunks)
           front == Front(pieces) last == pieces[n]
           chunks == at.chunks \o front
           next == Cut(at)
<1>1. CASE Len(at.current) > ChunkSize /\ Len(pieces) > 1
  <2>1. /\ at \in Loop /\ at.chunks \in Seq(Chunk) /\ at.current \in Seq(Char) /\ at.index \in Nat
        /\ at.index = from + m /\ m \in Nat /\ Numbered(at.chunks, from)
        /\ at.current = <<>> \/ ~ Blank(at.current)
    BY DEF LoopInv, Loop
  <2>2. ~ Blank(at.current)
    BY <1>1, <2>1, ChunkingAssumption
  <2>3. /\ pieces \in Seq(Chunk) /\ Numbered(pieces, at.index)
        /\ \A p : Held(at.current, p) => SomeHolds(pieces, p)
    BY <2>1, <2>2, SplitKeeps
  <2>4. next = [chunks |-> chunks, current |-> last.content, index |-> last.index]
    BY <1>1 DEF Cut, Reopen, Last
  <2>5. n \in Nat /\ n > 1
    BY <1>1, <2>3
  <2> HIDE DEF pieces
  <2>6. /\ front \in Seq(Chunk) /\ Len(front) = n - 1
        /\ \A k \in 1 .. n - 1 : front[k] = pieces[k]
    BY <2>3, <2>5 DEF Front
  <2>7. last \in Chunk
    BY <2>3, <2>5
  <2> HIDE DEF front, m
  <2>8. /\ chunks \in Seq(Chunk) /\ Len(chunks) = m + (n - 1)
        /\ \A k \in 1 .. m : chunks[k] = at.chunks[k]
        /\ \A k \in 1 .. n - 1 : chunks[m + k] = front[k]
    <3> DEFINE a == at.chunks
    <3>1. a \in Seq(Chunk) /\ Len(a) = m
      BY <2>1 DEF m
    <3> HIDE DEF a, chunks
    <3>2. chunks = a \o front
      BY DEF chunks, a
    <3>3. /\ chunks \in Seq(Chunk) /\ Len(chunks) = Len(a) + Len(front)
          /\ \A k \in 1 .. Len(a) : chunks[k] = a[k]
          /\ \A k \in 1 .. Len(front) : chunks[Len(a) + k] = front[k]
      <4>1. a \in Seq(Chunk) /\ front \in Seq(Chunk)
        BY <2>6, <3>1
      <4>2. Joined(a, front, a \o front, Chunk)
        BY <4>1, TwoSeqs, Zenon
      <4>3. Joined(a, front, chunks, Chunk)
        BY <3>2, <4>2, Zenon
      <4>4. QED
        BY <4>3, Zenon DEF Joined
    <3>4. Len(a) = m /\ Len(front) = n - 1
      BY <2>6, <3>1
    <3>5. QED
      BY <3>3, <3>4, Zenon DEF a
  <2>9. /\ last.index = at.index + (n - 1) /\ ~ Blank(last.content)
        /\ \A k \in 1 .. n - 1 : /\ front[k].index = at.index + (k - 1)
                                  /\ ~ Blank(front[k].content)
    <3>1. \A k \in 1 .. n : /\ pieces[k].index = at.index + (k - 1)
                           /\ ~ Blank(pieces[k].content)
      BY <2>3 DEF Numbered
    <3> HIDE DEF n
    <3>2. n \in 1 .. n /\ \A k \in 1 .. n - 1 : k \in 1 .. n
      BY <2>5
    <3>3. last.index = at.index + (n - 1) /\ ~ Blank(last.content)
      BY <3>1, <3>2
    <3>4. \A k \in 1 .. n - 1 : front[k] = pieces[k]
      BY <2>6
    <3>5. QED
      BY <3>1, <3>2, <3>3, <3>4
  <2> HIDE DEF next, chunks, last, n
  <2>10. next.chunks = chunks /\ next.current = last.content /\ next.index = last.index
    BY <2>4
  <2>11. next \in Loop
    BY <2>4, <2>7, <2>8 DEF Loop, Chunk
  <2>12. ASSUME NEW k \in 1 .. Len(chunks)
         PROVE  chunks[k].index = from + (k - 1) /\ ~ Blank(chunks[k].content)
    <3>1. CASE k <= m
      <4>1. k \in 1 .. m
        BY <2>1, <3>1
      <4>2. QED
        BY <2>1, <2>8, <4>1 DEF Numbered, m
    <3>2. CASE k > m
      <4> DEFINE j == k - m
      <4>1. j \in 1 .. n - 1 /\ k = m + j
        BY <2>1, <2>5, <2>8, <3>2
      <4> HIDE DEF j
      <4>2. chunks[k] = front[j]
        BY <2>8, <4>1
      <4>3. front[j].index = from + m + (j - 1) /\ ~ Blank(front[j].content)
        BY <2>1, <2>9, <4>1
      <4>4. QED
        BY <2>1, <4>1, <4>2, <4>3
    <3>3. QED
      BY <2>1, <3>1, <3>2
  <2>13. next.index = from + Len(next.chunks)
    <3>1. next.index = from + m + (n - 1)
      BY <2>1, <2>9, <2>10
    <3>2. Len(next.chunks) = m + (n - 1)
      BY <2>8, <2>10
    <3>3. QED
      BY <2>1, <2>5, <3>1, <3>2
  <2>14. LoopInv(next, from)
    BY <2>9, <2>10, <2>11, <2>12, <2>13 DEF LoopInv, Numbered
  <2>15. ASSUME NEW p, Keeps(at, p)
         PROVE  Keeps(next, p)
    <3>1. CASE SomeHolds(at.chunks, p)
      <4>1. PICK k \in 1 .. m : Held(at.chunks[k].content, p)
        BY <3>1 DEF SomeHolds, m
      <4>2. k \in 1 .. Len(chunks)
        BY <2>1, <2>5, <2>8
      <4>3. QED
        BY <2>8, <2>10, <4>1, <4>2 DEF Keeps, SomeHolds
    <3>2. CASE Held(at.current, p)
      <4>1. PICK k \in 1 .. n : Held(pieces[k].content, p)
        BY <2>3, <3>2 DEF SomeHolds, n
      <4>2. CASE k = n
        BY <2>10, <4>1, <4>2 DEF Keeps, last
      <4>3. CASE k # n
        <5>1. k \in 1 .. n - 1 /\ m + k \in 1 .. Len(chunks)
          BY <2>1, <2>5, <2>8, <4>3
        <5>2. chunks[m + k] = pieces[k]
          BY <2>6, <2>8, <5>1
        <5>3. QED
          BY <2>10, <4>1, <5>1, <5>2 DEF Keeps, SomeHolds
      <4>4. QED
        BY <4>2, <4>3
    <3>3. QED
      BY <2>15, <3>1, <3>2 DEF Keeps
  <2>16. QED
    BY <2>14, <2>15 DEF next
<1>2. CASE ~ (Len(at.current) > ChunkSize /\ Len(pieces) > 1)
  <2>1. Cut(at) = at
    BY <1>2 DEF Cut, Reopen
  <2>2. QED
    BY <2>1
<1>3. QED
  BY <1>1, <1>2

LEMMA BreakIsText == Break \in Seq(Char)
<1> DEFINE feed == [kind |-> "n", at |-> 0]
<1>1. feed \in Char
  BY DEF Char, Strings
<1>2. Break = <<feed, feed>>
  BY DEF Break
<1> HIDE DEF feed
<1>3. QED
  BY <1>1, <1>2

LEMMA ParagraphKeeps ==
    ASSUME NEW at, NEW from \in Nat, LoopInv(at, from), NEW piece \in Seq(Char), ~ Blank(piece)
    PROVE  /\ LoopInv(AddParagraph(at, piece), from)
           /\ \A p : Keeps(at, p) \/ Held(piece, p) => Keeps(AddParagraph(at, piece), p)
<1>1. Break \in Seq(Char)
  BY BreakIsText
<1> DEFINE added == Add(at, piece, Break)
<1>2. /\ LoopInv(added, from)
      /\ \A p : Keeps(at, p) \/ Held(piece, p) => Keeps(added, p)
  BY <1>1, AddKeeps
<1>3. AddParagraph(at, piece) = Cut(added)
  BY DEF AddParagraph
<1> HIDE DEF added
<1>4. LoopInv(Cut(added), from) /\ \A p : Keeps(added, p) => Keeps(Cut(added), p)
  BY <1>2, CutKeeps
<1>5. QED
  BY <1>2, <1>3, <1>4

\* The loop over paragraphs as a run from left to right.
LEMMA ParagraphRun ==
    ASSUME NEW pieces \in Seq(Seq(Char)), \A k \in 1 .. Len(pieces) : ~ Blank(pieces[k]),
           NEW from \in Nat
    PROVE  \E at : /\ at[0] = Begin(from)
                   /\ \A k \in 1 .. Len(pieces) : at[k] = AddParagraph(at[k - 1], pieces[k])
                   /\ FoldLeft(AddParagraph, Begin(from), pieces) = at[Len(pieces)]
<1> DEFINE n == Len(pieces)
           State == {at \in Loop : LoopInv(at, from)}
           F == [p \in State \X (1 .. n) |-> AddParagraph(p[1], pieces[p[2]])]
           iter[s \in SUBSET DOMAIN pieces] ==
               IF s = {} THEN Begin(from) ELSE AddParagraph(iter[s \ {Max(s)}], pieces[Max(s)])
           at == [k \in 0 .. n |-> iter[1 .. k]]
<1>1. n \in Nat /\ DOMAIN pieces = 1 .. n /\ \A k \in 1 .. n : pieces[k] \in Seq(Char)
  OBVIOUS
<1>2. FoldLeft(AddParagraph, Begin(from), pieces) = iter[DOMAIN pieces]
  BY DEF FoldLeft, MapThenFoldSet
<1>3. Begin(from) \in State
  BY BeginKeeps DEF LoopInv
<1>4. F \in [State \X (1 .. n) -> State]
  <2>1. ASSUME NEW a \in State, NEW k \in 1 .. n
        PROVE  AddParagraph(a, pieces[k]) \in State
    <3>1. LoopInv(AddParagraph(a, pieces[k]), from)
      BY <1>1, ParagraphKeeps
    <3>2. QED
      BY <3>1 DEF LoopInv
  <2> HIDE DEF State
  <2>2. QED
    BY <2>1
<1> HIDE DEF n, State
<1>5. PICK g \in [SUBSET (1 .. n) -> State] : FoldedBy(g, n, Begin(from), F)
  BY <1>1, <1>3, <1>4, FoldExists
<1>6. \A s \in SUBSET (1 .. n) : s # {} => Max(s) \in 1 .. n
  BY <1>1, MaxInside
<1>7. g = [s \in SUBSET DOMAIN pieces |->
               IF s = {} THEN Begin(from) ELSE AddParagraph(g[s \ {Max(s)}], pieces[Max(s)])]
  <2>1. ASSUME NEW s \in SUBSET (1 .. n)
        PROVE  g[s] = IF s = {} THEN Begin(from) ELSE AddParagraph(g[s \ {Max(s)}], pieces[Max(s)])
    <3>1. g[s] = IF s = {} THEN Begin(from) ELSE F[<<g[s \ {Max(s)}], Max(s)>>]
      BY <1>5 DEF FoldedBy
    <3>2. ASSUME s # {}
          PROVE  F[<<g[s \ {Max(s)}], Max(s)>>] = AddParagraph(g[s \ {Max(s)}], pieces[Max(s)])
      <4>1. Max(s) \in 1 .. n /\ g[s \ {Max(s)}] \in State
        BY <1>6, <3>2
      <4>2. QED
        BY <4>1
    <3>3. QED
      BY <3>1, <3>2
  <2>2. g = [s \in SUBSET (1 .. n) |-> g[s]]
    OBVIOUS
  <2> HIDE DEF F
  <2>3. QED
    BY <1>1, <2>1, <2>2, Zenon
<1>8. iter = [s \in SUBSET DOMAIN pieces |->
               IF s = {} THEN Begin(from) ELSE AddParagraph(iter[s \ {Max(s)}], pieces[Max(s)])]
  <2>1. \E f : f = [s \in SUBSET DOMAIN pieces |->
               IF s = {} THEN Begin(from) ELSE AddParagraph(f[s \ {Max(s)}], pieces[Max(s)])]
    BY <1>7
  <2>2. QED
    BY <2>1
<1> HIDE DEF iter, F
<1>9. at[0] = Begin(from)
  <2>1. 1 .. 0 = {} /\ 0 \in 0 .. n /\ {} \in SUBSET DOMAIN pieces
    BY <1>1
  <2>2. iter[{}] = Begin(from)
    BY <1>8, <2>1
  <2>3. QED
    BY <2>1, <2>2
<1>10. ASSUME NEW k \in 1 .. n
       PROVE  at[k] = AddParagraph(at[k - 1], pieces[k])
  <2>1. k \in Nat \ {0} /\ k \in 0 .. n /\ k - 1 \in 0 .. n /\ 1 .. k \in SUBSET DOMAIN pieces
    BY <1>1
  <2>2. Max(1 .. k) = k /\ (1 .. k) \ {Max(1 .. k)} = 1 .. k - 1 /\ 1 .. k # {}
    BY <2>1, MaxOfPrefix
  <2>3. iter[1 .. k] = AddParagraph(iter[(1 .. k) \ {Max(1 .. k)}], pieces[Max(1 .. k)])
    BY <1>8, <2>1, <2>2
  <2>4. QED
    BY <2>1, <2>2, <2>3
<1>11. at[n] = iter[DOMAIN pieces]
  BY <1>1
<1> HIDE DEF at
<1>12. QED
  BY <1>2, <1>9, <1>10, <1>11 DEF n

-----------------------------------------------------------------------------
(***************************************************************************)
(* Paragraphs: places that no empty line separates are in one of them.     *)
(***************************************************************************)
\* The numbers of a finite set in their order.
LEMMA NthIsAll ==
    ASSUME NEW S \in SUBSET Nat, IsFiniteSet(S)
    PROVE  LET Nth(k) == CHOOSE x \in S : Cardinality({l \in S : l < x}) = k - 1
           IN /\ \A k \in 1 .. Cardinality(S) : Nth(k) \in S
              /\ \A x \in S : \E k \in 1 .. Cardinality(S) : Nth(k) = x
<1> DEFINE below(x) == {l \in S : l < x}
           r == [x \in S |-> Cardinality(below(x))]
           n == Cardinality(S)
           Nth(k) == CHOOSE x \in S : Cardinality(below(x)) = k - 1
<1>1. n \in Nat /\ \A x \in S : x \in Nat
  BY FS_CardinalityType
<1>2. \A x \in S : /\ IsFiniteSet(below(x)) /\ Cardinality(below(x)) \in Nat
                   /\ Cardinality(below(x)) < n
  <2>1. TAKE x \in S
  <2>2. below(x) \in SUBSET S /\ x \notin below(x)
    BY <1>1
  <2> HIDE DEF below
  <2>3. IsFiniteSet(below(x)) /\ Cardinality(below(x)) <= n /\ Cardinality(below(x)) # n
    BY <2>2, FS_Subset
  <2>4. Cardinality(below(x)) \in Nat
    BY <2>3, FS_CardinalityType
  <2>5. QED
    BY <1>1, <2>3, <2>4
<1>3. ASSUME NEW x \in S, NEW y \in S, x < y
      PROVE  Cardinality(below(x)) < Cardinality(below(y))
  <2>1. \A l \in S : l < x => l < y
    BY <1>1, <1>3
  <2>2. ~ x < x
    BY <1>1
  <2>3. below(x) \in SUBSET below(y) /\ x \in below(y) /\ x \notin below(x)
    BY <1>3, <2>1, <2>2
  <2> HIDE DEF below
  <2>4. /\ Cardinality(below(x)) <= Cardinality(below(y))
        /\ Cardinality(below(x)) # Cardinality(below(y))
    BY <1>2, <2>3, FS_Subset
  <2>5. QED
    BY <1>2, <2>4
<1>4. \A x \in S : r[x] = Cardinality(below(x)) /\ r[x] \in 0 .. n - 1
  <2>1. TAKE x \in S
  <2>2. r[x] = Cardinality(below(x))
    OBVIOUS
  <2> HIDE DEF below, n, r
  <2>3. QED
    BY <1>1, <1>2, <2>2
<1>5. \A x, y \in S : r[x] = r[y] => x = y
  <2>1. TAKE x, y \in S
  <2>2. SUFFICES ASSUME r[x] = r[y], x # y PROVE FALSE
    OBVIOUS
  <2>3. x < y \/ y < x
    BY <1>1, <2>2
  <2> HIDE DEF below, n, r
  <2>4. r[x] < r[y] \/ r[y] < r[x]
    BY <1>3, <1>4, <2>3
  <2>5. QED
    BY <1>1, <1>4, <2>2, <2>4
<1>6. r = [x \in S |-> r[x]]
  OBVIOUS
<1> HIDE DEF r, n, below
<1>7. \A k \in 0 .. n - 1 : \E x \in S : r[x] = k
  BY <1>1, <1>4, <1>5, <1>6, OntoByCount DEF n
<1>8. ASSUME NEW k \in 1 .. n
      PROVE  Nth(k) \in S
  <2>1. k - 1 \in 0 .. n - 1
    BY <1>1
  <2>2. PICK x \in S : r[x] = k - 1
    BY <1>7, <2>1
  <2>3. Cardinality(below(x)) = k - 1
    BY <1>4, <2>2
  <2>4. QED
    BY <2>3
<1>9. ASSUME NEW x \in S
      PROVE  \E k \in 1 .. n : Nth(k) = x
  <2> DEFINE k == r[x] + 1
  <2>1. k \in 1 .. n /\ k - 1 = r[x]
    BY <1>1, <1>4
  <2> HIDE DEF k
  <2>2. Cardinality(below(x)) = k - 1
    BY <1>4, <2>1
  <2>3. Nth(k) \in S /\ Cardinality(below(Nth(k))) = k - 1
    BY <2>2
  <2> HIDE DEF Nth
  <2>4. r[Nth(k)] = r[x]
    BY <1>4, <2>1, <2>3
  <2>5. Nth(k) = x
    BY <1>5, <2>3, <2>4
  <2>6. QED
    BY <2>1, <2>5
<1>10. QED
  BY <1>8, <1>9 DEF n, below

\* Between places i and j of the text there is no empty line.
Together(text, i, j) ==
    \A k \in i .. j - 1 : ~ (text[k].kind = "n" /\ text[k + 1].kind = "n")

LEMMA ParagraphsHold ==
    ASSUME NEW text \in Seq(Char)
    PROVE  /\ Paragraphs(text) \in Seq(Seq(Char))
           /\ \A k \in 1 .. Len(Paragraphs(text)) : ~ Blank(Paragraphs(text)[k])
           /\ \A i, j \in DOMAIN text :
                 i < j /\ text[i].kind = "a" /\ text[j].kind = "." /\ Together(text, i, j) =>
                 \E k \in 1 .. Len(Paragraphs(text)) : Held(Paragraphs(text)[k], text[i].at)
<1> DEFINE n == Len(text)
           Feed(k) == k \in DOMAIN text /\ text[k].kind = "n"
           In(k) == k \in DOMAIN text /\ ~ (Feed(k) /\ (Feed(k - 1) \/ Feed(k + 1)))
           Ends(k) == {l \in k .. Len(text) : ~ In(l + 1)}
           From(k) == SubSeq(text, k, Min(Ends(k)))
           Starts == {k \in DOMAIN text : In(k) /\ ~ In(k - 1) /\ ~ Blank(From(k))}
           Nth(k) == CHOOSE x \in Starts : Cardinality({l \in Starts : l < x}) = k - 1
           ps == Paragraphs(text)
<1>1. n \in Nat /\ DOMAIN text = 1 .. n /\ \A k \in 1 .. n : text[k] \in Char
  OBVIOUS
<1>2. ps = [k \in 1 .. Cardinality(Starts) |-> From(Nth(k))]
  BY DEF Paragraphs
<1>3. IsFiniteSet(Starts) /\ Starts \in SUBSET Nat /\ Cardinality(Starts) \in Nat
      /\ \A x \in Starts : x \in 1 .. n /\ ~ Blank(From(x))
  <2>1. IsFiniteSet(1 .. n)
    BY <1>1, FS_Interval
  <2>2. Starts \in SUBSET (1 .. n)
    BY <1>1
  <2>3. \A x \in Starts : ~ Blank(From(x))
    OBVIOUS
  <2> HIDE DEF Starts, From
  <2>4. IsFiniteSet(Starts)
    BY <2>1, <2>2, FS_Subset
  <2>5. Cardinality(Starts) \in Nat
    BY <2>4, FS_CardinalityType
  <2>6. QED
    BY <1>1, <2>2, <2>3, <2>4, <2>5
<1>4. ASSUME NEW k \in 1 .. n
      PROVE  /\ Min(Ends(k)) \in k .. n /\ ~ In(Min(Ends(k)) + 1)
             /\ \A l \in k .. n : ~ In(l + 1) => Min(Ends(k)) <= l
             /\ From(k) \in Seq(Char)
             /\ From(k) = [l \in 1 .. Min(Ends(k)) - k + 1 |-> text[k + l - 1]]
  <2>1. n \in Ends(k) /\ Ends(k) \in SUBSET (k .. n)
    BY <1>1
  <2>2. \A l \in k .. n : ~ In(l + 1) => l \in Ends(k)
    OBVIOUS
  <2>3. \A l \in Ends(k) : ~ In(l + 1)
    OBVIOUS
  <2>4. IsFiniteSet(k .. n)
    BY <1>1, FS_Interval
  <2> HIDE DEF Ends, In, n
  <2>5. IsFiniteSet(Ends(k))
    BY <2>1, <2>4, FS_Subset
  <2>6. Ends(k) \in SUBSET Int /\ Ends(k) # {}
    BY <2>1
  <2>7. Min(Ends(k)) \in Ends(k) /\ \A l \in Ends(k) : Min(Ends(k)) <= l
    BY <2>5, <2>6, MinOfSet
  <2> DEFINE e == Min(Ends(k))
  <2>8. e \in k .. n
    BY <2>1, <2>7
  <2> HIDE DEF e
  <2>9. SubSeq(text, k, e) = [l \in 1 .. e - k + 1 |-> text[k + l - 1]] /\ e - k + 1 \in Nat
    BY <1>1, <2>8
  <2>10. \A l \in 1 .. e - k + 1 : text[k + l - 1] \in Char
    BY <1>1, <2>8
  <2>11. SubSeq(text, k, e) \in Seq(Char)
    BY <2>9, <2>10
  <2>12. QED
    BY <2>2, <2>3, <2>7, <2>8, <2>9, <2>11 DEF e
<1>5. ASSUME NEW x \in 1 .. n,
             text[x].kind # "n" \/ (text[x - 1].kind # "n" /\ text[x + 1].kind # "n")
      PROVE  In(x)
  BY <1>1, <1>5
<1>6. ~ In(0)
  BY <1>1
<1> HIDE DEF In, From, Ends
<1>7. ASSUME NEW i \in 1 .. n, NEW j \in 1 .. n,
             i < j, text[i].kind = "a", text[j].kind = ".", Together(text, i, j)
      PROVE  \E x \in Starts : Held(From(x), text[i].at)
  <2>1. \A k \in i .. j : In(k)
    <3>1. TAKE k \in i .. j
    <3>2. k \in 1 .. n
      BY <1>1
    <3>3. CASE k = i \/ k = j
      <4>1. text[k].kind # "n"
        BY <1>7, <3>3
      <4>2. QED
        BY <1>5, <3>2, <4>1
    <3>4. CASE k # i /\ k # j
      <4>1. k \in i .. j - 1 /\ k - 1 \in i .. j - 1 /\ k - 1 + 1 = k
        BY <1>1, <3>4
      <4>2. /\ ~ (text[k].kind = "n" /\ text[k + 1].kind = "n")
            /\ ~ (text[k - 1].kind = "n" /\ text[k].kind = "n")
        BY <1>7, <4>1 DEF Together
      <4>3. text[k].kind # "n" \/ (text[k - 1].kind # "n" /\ text[k + 1].kind # "n")
        BY <4>2
      <4>4. QED
        BY <1>5, <3>2, <4>3
    <3>5. QED
      BY <3>3, <3>4
  <2> DEFINE Back == {l \in Nat : l <= i /\ \A k \in l .. i : In(k)}
  <2>2. PICK x \in Back : \A k \in Back : x <= k
    <3>1. i \in Back
      BY <1>1, <1>7, <2>1
    <3>2. Back \in SUBSET Nat
      OBVIOUS
    <3> HIDE DEF Back
    <3>3. QED
      BY <3>1, <3>2, Least
  <2>3. x \in Nat /\ x <= i /\ \A k \in x .. i : In(k)
    OBVIOUS
  <2>4. x # 0
    BY <1>1, <1>6, <2>3
  <2>5. In(x) /\ x \in 1 .. n
    BY <1>1, <2>3, <2>4
  <2>6. ~ In(x - 1)
    <3>1. SUFFICES ASSUME In(x - 1) PROVE FALSE
      OBVIOUS
    <3>2. x - 1 \in Nat /\ x - 1 <= i
      BY <1>1, <2>3, <2>4
    <3>3. \A k \in x - 1 .. i : k = x - 1 \/ k \in x .. i
      BY <1>1, <2>3
    <3>4. x - 1 \in Back
      BY <2>3, <3>1, <3>2, <3>3
    <3> HIDE DEF Back
    <3>5. QED
      BY <2>2, <2>3, <3>4
  <2>7. \A k \in x .. j : In(k)
    <3>1. \A k \in x .. j : k \in x .. i \/ k \in i .. j
      BY <1>1, <2>3
    <3>2. QED
      BY <2>1, <2>3, <3>1
  <2> DEFINE e == Min(Ends(x)) f == From(x)
  <2>8. e \in x .. n /\ ~ In(e + 1) /\ f \in Seq(Char)
        /\ f = [l \in 1 .. e - x + 1 |-> text[x + l - 1]]
    BY <1>4, <2>5
  <2> HIDE DEF e, f, Back
  <2>9. e >= j
    <3>1. SUFFICES ASSUME e < j PROVE FALSE
      BY <1>1, <2>8
    <3>2. e + 1 \in x .. j
      BY <1>1, <2>3, <2>8, <3>1
    <3>3. QED
      BY <2>7, <2>8, <3>2
  <2>10. i - x + 1 \in 1 .. e - x + 1 /\ j - x + 1 \in 1 .. e - x + 1
         /\ x + (i - x + 1) - 1 = i /\ x + (j - x + 1) - 1 = j /\ i - x + 1 < j - x + 1
    BY <1>1, <1>7, <2>3, <2>5, <2>8, <2>9
  <2>11. /\ i - x + 1 \in DOMAIN f /\ j - x + 1 \in DOMAIN f
         /\ f[i - x + 1] = text[i] /\ f[j - x + 1] = text[j]
    BY <2>8, <2>10
  <2>12. Held(f, text[i].at)
    BY <1>7, <2>10, <2>11 DEF Held
  <2>13. ~ Blank(f)
    BY <1>7, <2>11 DEF Blank
  <2>14. x \in Starts
    BY <1>1, <2>5, <2>6, <2>13 DEF f
  <2>15. QED
    BY <2>12, <2>14 DEF f
<1> HIDE DEF Starts, n
<1>8. /\ \A k \in 1 .. Cardinality(Starts) : Nth(k) \in Starts
      /\ \A x \in Starts : \E k \in 1 .. Cardinality(Starts) : Nth(k) = x
  BY <1>3, NthIsAll
<1> HIDE DEF Nth, ps
<1>9. \A k \in 1 .. Cardinality(Starts) : ps[k] = From(Nth(k))
  BY <1>2
<1>10. \A k \in 1 .. Cardinality(Starts) : ps[k] \in Seq(Char) /\ ~ Blank(ps[k])
  <2>1. TAKE k \in 1 .. Cardinality(Starts)
  <2> DEFINE x == Nth(k)
  <2>2. x \in Starts /\ ps[k] = From(x)
    BY <1>8, <1>9
  <2> HIDE DEF x
  <2>3. x \in 1 .. n /\ ~ Blank(From(x))
    BY <1>3, <2>2
  <2>4. From(x) \in Seq(Char)
    BY <1>4, <2>3
  <2>5. QED
    BY <2>2, <2>3, <2>4
<1>11. ps \in Seq(Seq(Char)) /\ Len(ps) = Cardinality(Starts)
  <2>1. ps = [k \in 1 .. Cardinality(Starts) |-> ps[k]]
    BY <1>2
  <2>2. QED
    BY <1>3, <1>10, <2>1
<1>12. ASSUME NEW i \in DOMAIN text, NEW j \in DOMAIN text,
              i < j, text[i].kind = "a", text[j].kind = ".", Together(text, i, j)
       PROVE  \E k \in 1 .. Len(ps) : Held(ps[k], text[i].at)
  <2>1. PICK x \in Starts : Held(From(x), text[i].at)
    BY <1>1, <1>7, <1>12
  <2>2. PICK k \in 1 .. Cardinality(Starts) : Nth(k) = x
    BY <1>8
  <2>3. QED
    BY <1>9, <1>11, <2>1, <2>2
<1>13. QED
  BY <1>10, <1>11, <1>12 DEF ps

-----------------------------------------------------------------------------
(***************************************************************************)
(* All of the text.                                                        *)
(***************************************************************************)
LEMMA RecursiveKeeps ==
    ASSUME NEW text \in Seq(Char)
    PROVE  LET chunks == RecursiveSplit(text)
           IN /\ chunks \in Seq(Chunk) /\ Numbered(chunks, 0)
              /\ \A p : (\E k \in 1 .. Len(Paragraphs(text)) : Held(Paragraphs(text)[k], p)) =>
                     SomeHolds(chunks, p)
<1> DEFINE pieces == Paragraphs(text)
           n == Len(pieces)
<1>1. pieces \in Seq(Seq(Char)) /\ \A k \in 1 .. n : ~ Blank(pieces[k])
  BY ParagraphsHold
<1> HIDE DEF pieces
<1>2. n \in Nat /\ 0 \in Nat /\ \A k \in 1 .. n : pieces[k] \in Seq(Char)
  BY <1>1
<1>3. PICK at : /\ at[0] = Begin(0)
                /\ \A k \in 1 .. n : at[k] = AddParagraph(at[k - 1], pieces[k])
                /\ FoldLeft(AddParagraph, Begin(0), pieces) = at[n]
  BY <1>1, <1>2, ParagraphRun
<1>4. RecursiveSplit(text) = Rest(at[n])
  BY <1>3 DEF RecursiveSplit, pieces
<1>5. LoopRun(at, pieces, n, 0)
  <2>1. LoopInv(at[0], 0)
    BY <1>2, <1>3, BeginKeeps
  <2>2. ASSUME NEW k \in 1 .. n, LoopInv(at[k - 1], 0)
        PROVE  /\ LoopInv(at[k], 0)
               /\ \A p : Keeps(at[k - 1], p) \/ Held(pieces[k], p) => Keeps(at[k], p)
    <3>1. at[k] = AddParagraph(at[k - 1], pieces[k])
      BY <1>3
    <3> DEFINE old == at[k - 1] piece == pieces[k]
    <3> HIDE DEF old, piece
    <3>2. LoopInv(old, 0) /\ piece \in Seq(Char) /\ ~ Blank(piece)
      BY <1>1, <1>2, <2>2 DEF old, piece
    <3>3. /\ LoopInv(AddParagraph(old, piece), 0)
          /\ \A p : Keeps(old, p) \/ Held(piece, p) => Keeps(AddParagraph(old, piece), p)
      BY <1>2, <3>2, ParagraphKeeps
    <3>4. QED
      BY <3>1, <3>3 DEF old, piece
  <2> HIDE DEF n
  <2>3. QED
    BY <2>1, <2>2 DEF LoopRun
<1> HIDE DEF n
<1>6. /\ LoopInv(at[n], 0)
      /\ \A p : (\E k \in 1 .. n : Held(pieces[k], p)) => Keeps(at[n], p)
  BY <1>2, <1>5, RunKeeps
<1>7. /\ Rest(at[n]) \in Seq(Chunk) /\ Numbered(Rest(at[n]), 0)
      /\ \A p : Keeps(at[n], p) => SomeHolds(Rest(at[n]), p)
  BY <1>2, <1>6, RestKeeps
<1>8. QED
  BY <1>4, <1>6, <1>7 DEF n, pieces

LEMMA TextKeeps ==
    ASSUME NEW text \in Seq(Char)
    PROVE  LET chunks == SplitText(text)
           IN /\ chunks \in Seq(Chunk) /\ Numbered(chunks, 0)
              /\ \A i, j \in DOMAIN text :
                    i < j /\ text[i].kind = "a" /\ text[j].kind = "." /\ Together(text, i, j) =>
                    SomeHolds(chunks, text[i].at)
<1> DEFINE chunks == SplitText(text)
<1>1. CASE Blank(text)
  <2>1. chunks = <<>>
    BY <1>1 DEF SplitText
  <2>2. \A i \in DOMAIN text : text[i].kind # "a"
    BY <1>1 DEF Blank
  <2>3. QED
    BY <2>1, <2>2 DEF Numbered
<1>2. CASE ~ Blank(text) /\ Len(text) < AtomicThreshold
  <2> DEFINE cut == Trim(text) chunk == [content |-> cut, index |-> 0]
  <2>1. chunks = <<chunk>>
    BY <1>2 DEF SplitText
  <2>2. cut \in Seq(Char) /\ ~ Blank(cut) /\ \A p : Held(text, p) => Held(cut, p)
    BY <1>2, TrimKeeps
  <2> HIDE DEF cut
  <2>3. chunk \in Chunk /\ chunk.content = cut /\ chunk.index = 0
    BY <2>2 DEF Chunk
  <2> HIDE DEF chunk, chunks
  <2>4. chunks \in Seq(Chunk) /\ Len(chunks) = 1 /\ chunks[1] = chunk
    BY <2>1, <2>3
  <2>5. Numbered(chunks, 0)
    BY <2>2, <2>3, <2>4 DEF Numbered
  <2>6. \A p : Held(text, p) => SomeHolds(chunks, p)
    BY <2>2, <2>3, <2>4 DEF SomeHolds
  <2>7. ASSUME NEW i \in DOMAIN text, NEW j \in DOMAIN text,
               i < j, text[i].kind = "a", text[j].kind = "."
        PROVE  SomeHolds(chunks, text[i].at)
    <3>1. Held(text, text[i].at)
      BY <2>7 DEF Held
    <3>2. QED
      BY <2>6, <3>1
  <2>8. QED
    BY <2>4, <2>5, <2>7 DEF chunks
<1>3. CASE ~ Blank(text) /\ ~ (Len(text) < AtomicThreshold)
  <2>1. chunks = RecursiveSplit(text)
    BY <1>3 DEF SplitText
  <2> HIDE DEF chunks
  <2>2. /\ chunks \in Seq(Chunk) /\ Numbered(chunks, 0)
        /\ \A p : (\E k \in 1 .. Len(Paragraphs(text)) : Held(Paragraphs(text)[k], p)) =>
               SomeHolds(chunks, p)
    BY <2>1, RecursiveKeeps
  <2>3. ASSUME NEW i \in DOMAIN text, NEW j \in DOMAIN text,
               i < j, text[i].kind = "a", text[j].kind = ".", Together(text, i, j)
        PROVE  SomeHolds(chunks, text[i].at)
    <3>1. \E k \in 1 .. Len(Paragraphs(text)) : Held(Paragraphs(text)[k], text[i].at)
      BY <2>3, ParagraphsHold
    <3>2. QED
      BY <2>2, <3>1
  <2>4. QED
    BY <2>2, <2>3 DEF chunks
<1>4. QED
  BY <1>1, <1>2, <1>3

LEMMA ChunksRight ==
    ASSUME about = "text" => input \in Seq(Strings)
    PROVE  ChunksKeepText
<1>1. SUFFICES ASSUME about = "text"
      PROVE  SentencesAreKept /\ ChunksAreNumbered
  BY DEF ChunksKeepText, SentencesAreKept, ChunksAreNumbered
<1> DEFINE text == Content
           n == Len(input)
           chunks == SplitText(Content)
<1>2. n \in Nat /\ DOMAIN input = 1 .. n /\ \A k \in 1 .. n : input[k] \in Strings
  BY <1>1
<1>3. /\ text \in Seq(Char) /\ DOMAIN text = 1 .. n
      /\ \A k \in 1 .. n : text[k].kind = input[k] /\ text[k].at = k
  BY <1>2 DEF Content, Char
<1> HIDE DEF text
<1>4. /\ chunks \in Seq(Chunk) /\ Numbered(chunks, 0)
      /\ \A i, j \in DOMAIN text :
            i < j /\ text[i].kind = "a" /\ text[j].kind = "." /\ Together(text, i, j) =>
            SomeHolds(chunks, text[i].at)
  BY <1>3, TextKeeps DEF text
<1>5. /\ chunks = SplitText(Content) /\ DOMAIN chunks = 1 .. Len(chunks)
      /\ \A k \in 1 .. Len(chunks) : chunks[k] \in Chunk
  BY <1>4
<1> HIDE DEF chunks, n
<1>6. ChunksAreNumbered
  <2>1. \A k \in 1 .. Len(chunks) : chunks[k].index = k - 1 /\ ~ Blank(chunks[k].content)
    BY <1>4 DEF Numbered
  <2>2. QED
    BY <1>5, <2>1 DEF ChunksAreNumbered
<1>7. ASSUME NEW p \in DOMAIN input, input[p] = "a", NEW q \in p + 1 .. Len(input), input[q] = ".",
             \A r \in p .. q - 1 : ~ (input[r] = "n" /\ input[r + 1] = "n")
      PROVE  \E chunk \in ToSet(chunks) : \E c \in ToSet(chunk.content) : c.at = p
  <2>1. p \in 1 .. n /\ q \in 1 .. n /\ p < q
    BY <1>2, <1>7 DEF n
  <2>2. Together(text, p, q)
    <3>1. \A r \in p .. q - 1 : r \in 1 .. n /\ r + 1 \in 1 .. n
      BY <1>2, <2>1
    <3>2. QED
      BY <1>3, <1>7, <3>1 DEF Together
  <2>3. SomeHolds(chunks, p)
    BY <1>3, <1>4, <1>7, <2>1, <2>2
  <2>4. PICK k \in 1 .. Len(chunks) : Held(chunks[k].content, p)
    BY <2>3 DEF SomeHolds
  <2>5. chunks[k] \in ToSet(chunks)
    BY <1>5 DEF ToSet
  <2>6. PICK i \in DOMAIN chunks[k].content : chunks[k].content[i].at = p
    BY <2>4 DEF Held
  <2>7. chunks[k].content[i] \in ToSet(chunks[k].content)
    BY DEF ToSet
  <2>8. QED
    BY <2>5, <2>6, <2>7
<1>8. SentencesAreKept
  BY <1>5, <1>7 DEF SentencesAreKept
<1>9. QED
  BY <1>6, <1>8

-----------------------------------------------------------------------------
(***************************************************************************)
(* The theorems.  An input is any message, reply or text, any rows of the  *)
(* examples' table, any answer and calls, any world, and any board and     *)
(* list; those of MCSpec, which are bounded, are among them.               *)
(***************************************************************************)
AnyInput ==
    /\ about = "message" => input \in Seq(Strings)
    /\ about = "rows" => input \in Seq([intent : Strings, similarity : Int])
    /\ about = "reply" => input \in Seq(Strings)
    /\ about = "answer" =>
           input \in [intent : Strings, text : [code : BOOLEAN, leak : BOOLEAN],
                      named : [code : BOOLEAN, leak : BOOLEAN],
                      calls : Seq([tool : Strings, failed : BOOLEAN])]
    /\ about = "text" => input \in Seq(Strings)
    /\ about = "world" => input \in World
    /\ about = "board" => Board(input)
    /\ about = "pages" => input.total \in Nat /\ input.limit \in Nat \ {0}

AnySpec == AnyInput /\ [][UNCHANGED vars]_vars

LEMMA UpToAreSeqs ==
    ASSUME NEW S, NEW T, S \subseteq T, NEW n \in Nat, NEW s \in UpTo(S, n)
    PROVE  s \in Seq(T)
<1>1. PICK k \in 0 .. n : s \in [1 .. k -> S]
  BY DEF UpTo
<1>2. s \in [1 .. k -> T] /\ k \in Nat
  BY <1>1
<1>3. QED
  BY <1>2

LEMMA BoardsAreBoards ==
    ASSUME NEW todos \in Boards
    PROVE  Board(todos)
<1>1. PICK pair \in [1 .. 2 -> Todos] :
          /\ todos = {pair[1], pair[2]} /\ pair[1].updated = 1 /\ pair[2].updated = 2
  BY DEF Boards
<1> DEFINE a == pair[1] b == pair[2]
<1>2. a \in Todos /\ b \in Todos /\ todos = {a, b} /\ a.updated = 1 /\ b.updated = 2
  BY <1>1
<1> HIDE DEF a, b
<1>3. IsFiniteSet(todos)
  <2>1. IsFiniteSet({a}) /\ IsFiniteSet({b})
    BY FS_Singleton
  <2>2. IsFiniteSet({a} \cup {b})
    BY <2>1, FS_Union
  <2>3. {a} \cup {b} = todos
    BY <1>2
  <2>4. QED
    BY <2>2, <2>3
<1>4. ASSUME NEW t \in Todos
      PROVE  /\ t.archived \in BOOLEAN /\ t.deleted \in BOOLEAN
             /\ t.due \in {None} \cup Int /\ t.position \in Int
             /\ t.updated \in Nat /\ t.status # None
  BY BoundsAssumption DEF Todos, Due
<1>5. \A t, u \in todos : t.updated = u.updated => t = u
  BY <1>2
<1>6. QED
  BY <1>2, <1>3, <1>4, <1>5 DEF Board

LEMMA RunsAreAny == MCInit => AnyInput
<1>1. SUFFICES ASSUME MCInit PROVE AnyInput
  OBVIOUS
<1>2. MaxText \in Nat /\ MaxReply \in Nat /\ MaxRows \in Nat /\ MaxPage \in Nat
  BY BoundsAssumption
<1>3. CASE about = "message" /\ input \in UpTo(Words, 3)
  <2>1. Words \subseteq Strings /\ 3 \in Nat
    BY DEF Strings
  <2>2. input \in Seq(Strings)
    BY <1>3, <2>1, UpToAreSeqs
  <2>3. QED
    BY <1>3, <2>2 DEF AnyInput
<1>4. CASE about = "rows" /\ input \in UpTo(Examples, MaxRows)
  <2>1. Examples \subseteq [intent : Strings, similarity : Int]
    BY DEF Examples, Strings
  <2>2. input \in Seq([intent : Strings, similarity : Int])
    BY <1>2, <1>4, <2>1, UpToAreSeqs
  <2>3. QED
    BY <1>4, <2>2 DEF AnyInput
<1>5. CASE about = "reply" /\ input \in UpTo(ReplyTokens, MaxReply)
  <2>1. ReplyTokens \subseteq Strings
    BY DEF Strings
  <2>2. input \in Seq(Strings)
    BY <1>2, <1>5, <2>1, UpToAreSeqs
  <2>3. QED
    BY <1>5, <2>2 DEF AnyInput
<1>6. CASE about = "answer" /\ input \in [intent : {"DASHBOARD_QUERY", "TASK_CREATE", "OUT_OF_SCOPE"},
                                          text : Worded, named : Worded, calls : UpTo(Calls, 2)]
  <2>1. Calls \subseteq [tool : Strings, failed : BOOLEAN] /\ 2 \in Nat
    BY DEF Calls, Strings
  <2>2. input.calls \in Seq([tool : Strings, failed : BOOLEAN])
    <3>1. input.calls \in UpTo(Calls, 2)
      BY <1>6
    <3>2. QED
      BY <2>1, <3>1, UpToAreSeqs
  <2>3. input.intent \in Strings
    BY <1>6 DEF Strings
  <2>4. input = [intent |-> input.intent, text |-> input.text, named |-> input.named,
                 calls |-> input.calls]
    BY <1>6
  <2>5. input.text \in Worded /\ input.named \in Worded
    BY <1>6
  <2> HIDE <1>1
  <2>6. input \in [intent : Strings, text : Worded, named : Worded,
                   calls : Seq([tool : Strings, failed : BOOLEAN])]
    BY <2>2, <2>3, <2>4, <2>5
  <2>7. QED
    BY <1>6, <2>6 DEF AnyInput, Worded
<1>7. CASE about = "text" /\ input \in UpTo({"a", ".", "n"}, MaxText)
  <2>1. {"a", ".", "n"} \subseteq Strings
    BY DEF Strings
  <2>2. input \in Seq(Strings)
    BY <1>2, <1>7, <2>1, UpToAreSeqs
  <2>3. QED
    BY <1>7, <2>2 DEF AnyInput
<1>8. CASE about = "world" /\ input \in World
  BY <1>8 DEF AnyInput
<1>9. CASE about = "board" /\ input \in Boards
  BY <1>9, BoardsAreBoards DEF AnyInput
<1>10. CASE about = "pages" /\ input \in [total : 0 .. MaxPage, limit : 1 .. MaxPage]
  BY <1>2, <1>10 DEF AnyInput
<1>11. QED
  BY <1>1, <1>3, <1>4, <1>5, <1>6, <1>7, <1>8, <1>9, <1>10 DEF MCInit

\* What is checked on some inputs is a case of what is proved about any.
LEMMA MCSpecIsAny == MCSpec => AnySpec
BY RunsAreAny DEF MCSpec, AnySpec

LEMMA AnyStays == AnySpec => []AnyInput
<1>1. AnyInput /\ UNCHANGED vars => AnyInput'
  BY DEF AnyInput, vars, Board
<1>2. QED
  BY <1>1, PTL DEF AnySpec

\* RuleBasedGuardService refuses no message of any length that speaks of the
\* domain; IntentRouterService decides for the one intent that is close enough
\* and clear of the others, in whatever order and number the examples come; and
\* what LlmClassifierService cuts out of a reply of any length is the first
\* object whose braces, but for those in strings, are balanced.
THEOREM IntentClear == (AnySpec => []IntentIsClear) /\ (MCSpec => []IntentIsClear)
<1>1. AnyInput => IntentIsClear
  BY GuardRight, RouterRight, JsonRight DEF AnyInput, IntentIsClear
<1>2. QED
  BY <1>1, AnyStays, MCSpecIsAny, PTL

\* RagService sends no code and no reasoning of the model, whatever the model
\* says, after any number of tool calls.
THEOREM NoCode == (AnySpec => []NoCodeAnswered) /\ (MCSpec => []NoCodeAnswered)
<1>1. AnyInput => NoCodeAnswered
  BY CodeNeverSent DEF AnyInput
<1>2. QED
  BY <1>1, AnyStays, MCSpecIsAny, PTL

\* ChunkingService numbers its chunks from 0, makes none that is blank, and
\* keeps each letter of each ended sentence of a text, of whatever length it is
\* and whatever the sizes of chunks and of their overlap are.
THEOREM ChunksKeep == (AnySpec => []ChunksKeepText) /\ (MCSpec => []ChunksKeepText)
<1>1. AnyInput => ChunksKeepText
  BY ChunksRight DEF AnyInput
<1>2. QED
  BY <1>1, AnyStays, MCSpecIsAny, PTL

\* The queries of TodoRepository and of the lists find and show for a user what
\* ProjectAccessService and WorkspaceAccessService allow, and beyond that only what
\* the user created or joined in a workspace: for every state of the tables.
THEOREM AccessAgree == (AnySpec => []AccessAgrees) /\ (MCSpec => []AccessAgrees)
<1>1. AnyInput => AccessAgrees
  BY AccessRight DEF AnyInput
<1>2. QED
  BY <1>1, AnyStays, MCSpecIsAny, PTL

\* On a board of any number of todos what countTasks and the dashboard count
\* agrees, the agent finds of it as much as its limit allows, and a new todo is
\* last; and a list of any number of rows is on its pages, once.
THEOREM TodoQueriesRight == (AnySpec => []TodoQueriesAgree) /\ (MCSpec => []TodoQueriesAgree)
<1>1. AnyInput => TodoQueriesAgree
  BY DueRight, FoundRight, LastRight, PagesRight DEF AnyInput, TodoQueriesAgree
<1>2. QED
  BY <1>1, AnyStays, MCSpecIsAny, PTL
=============================================================================
